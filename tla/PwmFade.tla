------------------------------ MODULE PwmFade ------------------------------
(***************************************************************************)
(* The duty cycle of one output (src/pwm.c).  The SYS_CMD task moves the   *)
(* present duty cycle towards the wanted one every 10 ms; the wanted value *)
(* comes from dim and colour commands in either task, and the APP task     *)
(* sets the present value to 0 when it switches a converter on             *)
(* (control.c:228).  The values are unsigned: present is 16 bits wide, the *)
(* step and the expressions it enters 32 bits.                             *)
(***************************************************************************)
EXTENDS Integers

CONSTANTS
    CH,         \* the output, 1 or 2
    FadeTime,   \* the fade times that are set, in ms
    Dim,        \* the dim values that are set, uint8_t
    At,         \* the colour values that are set, uint16_t
    Cp          \* the power limit, actuators_actuator_get_cp; from 2^15 on the
                \* product with the duty cycle would overflow

WORD == 65536   \* values of a uint16_t

ASSUME ChannelAssumption == CH \in {1, 2}
ASSUME InputAssumption ==
    /\ FadeTime \subseteq 0 .. WORD - 1 /\ Dim \subseteq 0 .. 255
    /\ At \subseteq 0 .. WORD - 1 /\ Cp \in 0 .. 32767

VARIABLES
    present,   \* present_duty_cycles[CH-1]
    target,    \* duty_cycles[CH-1]
    fadetime,  \* of the actuator
    at,        \* at_value
    pc, step,  \* pwm_fade_task: place and duty_cycle_step
    oc,        \* the output compare register
    wrapped    \* history: a subtraction went below zero

vars == <<present, target, fadetime, at, pc, step, oc, wrapped>>

PWM_DUTY_CYCLE_MAX == 1000
PWM_FADE_TIME_STEP == 10
AT_MIN == 3000
AT_MAX == 5000
AT_RANGE == AT_MAX - AT_MIN

U16(n) == n % WORD
Least(a, b) == IF a < b THEN a ELSE b

\* Mutant of Limited: no limit to the period.
Limited_NoPeriod(value) == (Cp * value) \div 713

\* pwm_set_duty_cycle: limited to the power of the actuator and to the period.
Limited(value) == Least((Cp * value) \div 713, PWM_DUTY_CYCLE_MAX)
Output(value) == IF CH = 1 THEN Limited(value) ELSE PWM_DUTY_CYCLE_MAX - Limited(value)

\* Mutant of DutyOf: a dim value above 100 is not limited.
DutyOf_NoLimit(dim) == (PWM_DUTY_CYCLE_MAX * dim) \div 100

\* pwm_set_dim for a plain output and for one that shares its power by colour.
DutyOf(dim) == Least((PWM_DUTY_CYCLE_MAX * dim) \div 100, PWM_DUTY_CYCLE_MAX)
Share(a) == IF CH = 1 THEN AT_MAX - a ELSE a - AT_MIN
ColourDutyOf(dim, a) == (DutyOf(dim) * Share(a)) \div AT_RANGE

Clamped(a) == IF a < AT_MIN THEN AT_MIN ELSE IF a > AT_MAX THEN AT_MAX ELSE a

StepFor(ft) ==
    LET s == (PWM_DUTY_CYCLE_MAX * PWM_FADE_TIME_STEP) \div ft IN IF s = 0 THEN 1 ELSE s

-----------------------------------------------------------------------------
(* SYS_CMD task: pwm_fade_task *)

\* Mutant of FadeStart: without a fade the new value is not put out.
FadeStart_Silent ==
    /\ pc = "idle" /\ present # target
    /\ IF fadetime = 0
       THEN present' = target /\ UNCHANGED <<pc, step>>
       ELSE /\ step' = StepFor(fadetime)
            /\ pc' = IF present < target THEN "up" ELSE "down"
            /\ UNCHANGED present
    /\ UNCHANGED <<target, fadetime, at, oc, wrapped>>

FadeStart ==
    /\ pc = "idle" /\ present # target
    /\ IF fadetime = 0
       THEN pc' = "out" /\ present' = target /\ UNCHANGED step
       ELSE /\ step' = StepFor(fadetime)
            /\ pc' = IF present < target THEN "up" ELSE "down"
            /\ UNCHANGED present
    /\ UNCHANGED <<target, fadetime, at, oc, wrapped>>

FadeUp ==
    /\ pc = "up" /\ pc' = "out"
    /\ present' = IF present + step > target THEN target ELSE U16(present + step)
    /\ UNCHANGED <<target, fadetime, at, step, oc, wrapped>>

\* The difference is compared as a number of 32 bits without a sign: below
\* zero it is greater than every duty cycle.
FadeDown ==
    /\ pc = "down"
    /\ IF present >= step /\ present - step < target
       THEN pc' = "out" /\ present' = target
       ELSE pc' = "subtract" /\ UNCHANGED present
    /\ UNCHANGED <<target, fadetime, at, step, oc, wrapped>>

Subtract ==
    /\ pc = "subtract" /\ pc' = "out"
    /\ present' = U16(present - step)
    /\ wrapped' = (wrapped \/ present < step)
    /\ UNCHANGED <<target, fadetime, at, step, oc>>

FadeOut ==
    /\ pc = "out" /\ pc' = "idle"
    /\ oc' = Output(present) /\ step' = 0
    /\ UNCHANGED <<present, target, fadetime, at, wrapped>>

FadeTask == FadeStart \/ FadeUp \/ FadeDown \/ Subtract \/ FadeOut

-----------------------------------------------------------------------------
(* Commands, from the APP task or between two runs of the fade task *)

SetDim(dim) ==
    /\ target' = DutyOf(dim)
    /\ UNCHANGED <<present, fadetime, at, pc, step, oc, wrapped>>

\* In an AT mode the value is shared between the outputs; pwm_set_at repeats
\* it for a new colour.
SetColour(dim, a) ==
    /\ at' = Clamped(a)
    /\ target' = ColourDutyOf(dim, at')
    /\ UNCHANGED <<present, fadetime, pc, step, oc, wrapped>>

SetFadeTime(ft) ==
    /\ pc = "idle" /\ fadetime' = ft
    /\ UNCHANGED <<present, target, at, pc, step, oc, wrapped>>

\* pwm_set_present_duty_cycle(CH, 0) in the APP task.
ClearPresent ==
    /\ present' = 0 /\ oc' = Output(0)
    /\ UNCHANGED <<target, fadetime, at, pc, step, wrapped>>

Command ==
    \/ \E dim \in Dim : SetDim(dim)
    \/ \E dim \in Dim, a \in At : SetColour(dim, a)
    \/ \E ft \in FadeTime : SetFadeTime(ft)
    \/ ClearPresent

Init ==
    /\ present = 0 /\ target = 0 /\ fadetime \in FadeTime /\ at = 4000
    /\ pc = "idle" /\ step = 0 /\ oc = Output(0) /\ wrapped = FALSE

Next == FadeTask \/ Command

Spec == Init /\ [][Next]_vars
\* The SYS_CMD task runs for ever.
FairSpec == Spec /\ WF_vars(FadeTask)

-----------------------------------------------------------------------------
(* Properties *)

\* Every variable holds a value of its kind.
TypeOK ==
    /\ present \in 0 .. WORD - 1 /\ target \in 0 .. PWM_DUTY_CYCLE_MAX
    /\ fadetime \in FadeTime /\ at \in AT_MIN .. AT_MAX
    /\ pc \in {"idle", "up", "down", "subtract", "out"}
    /\ step \in 0 .. PWM_DUTY_CYCLE_MAX * PWM_FADE_TIME_STEP
    /\ oc \in 0 .. PWM_DUTY_CYCLE_MAX /\ wrapped \in BOOLEAN

\* The present duty cycle never exceeds a full period, whatever commands come
\* between the steps of the fade, unless its subtraction went below zero
\* (pwm.c:44-75): every other way past the maximum is closed.
WithinPeriodUnlessWrapped == ~wrapped => present <= PWM_DUTY_CYCLE_MAX

\* When no more commands come the output settles at the wanted value, even
\* after the subtraction went below zero, for the fade times of the instance.
FadeSettles == <>[][~Command]_vars => <>[](present = target /\ oc = Output(target))

=============================================================================
