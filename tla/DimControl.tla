----------------------------- MODULE DimControl -----------------------------
(***************************************************************************)
(* The dim values of the two actuators, what their outputs are given, the  *)
(* durations after which a default value is taken, and the emergency       *)
(* values while power over Ethernet is lost (src/control.c, src/sense.c).  *)
(* The APP task counts the durations and watches the voltage; both tasks   *)
(* set dim values and durations, statement by statement.                   *)
(***************************************************************************)
EXTENDS Integers

CONSTANTS DIM_MAX,     \* 100
          DIM_ELS,     \* dim_els, the emergency value
          MINUTE,      \* 60, seconds in a minute
          CALLS        \* 10, calls of the duration task in a second

ASSUME DimAssumption == DIM_MAX \in Nat /\ DIM_ELS \in Nat
ASSUME TimeAssumption == MINUTE \in Nat \ {0} /\ CALLS \in Nat \ {0}

Channel == {1, 2}
APP == "APP"
SYS_CMD == "SYS_CMD"
Task == {APP, SYS_CMD}

DIM_NO_CHANGE == DIM_MAX + 1
DIM_DURATION_DISABLED == -1
NONE == -1

VARIABLES
    pc,            \* where each task is
    i,             \* the channel its loop has come to
    is_at, is_els, \* which channels are in an AT pulse mode, in ELS mode
    dim_values,
    lamp,          \* the dim value that each output was given (pwm_set_dim)
    setting, channel, new_value,  \* each task's control_set_dim_value
    dim_duration, dim_default, dim_duration_seconds, dim_duration_task_counter,
    held,          \* the duration that `dim_duration--' has read
    external_power_running, dim_save,
    torn,          \* two tasks, or a change of mode, met in control_set_dim_value
    raced,         \* channels whose duration two tasks handled at once
    asked, counted,  \* duration of the last command, full minutes since then
    before         \* dim values before the loss of power, NONE if of no account

modes == <<is_at, is_els>>
call == <<setting, channel, new_value>>
durations == <<dim_duration, dim_default, dim_duration_seconds, dim_duration_task_counter, held>>
emergency == <<external_power_running, dim_save>>
history == <<torn, raced, asked, counted, before>>
dimVars == <<pc, i, modes, dim_values, lamp, call, durations, emergency, history>>

Least(a, b) == IF a < b THEN a ELSE b
Most(a, b) == IF a < b THEN b ELSE a

\* What the PWM makes of a dim value: at most the full duty cycle.
Limited(v) == Least(v, DIM_MAX)

\* Task t is in the middle of control_set_dim_value.
Setting(t) == setting[t] # "no"

\* Task t has begun to change or to serve the duration of c and has not finished.
InDuration(t, c) == pc[t] \in {"default", "minute", "check", "expire"} /\ i[t] = c

-----------------------------------------------------------------------------
(* control_set_dim_value *)

CallSetDim(t, c, v) ==
    /\ setting' = [setting EXCEPT ![t] = "value"]
    /\ channel' = [channel EXCEPT ![t] = c]
    /\ new_value' = [new_value EXCEPT ![t] = v]

\* It returns, and its arguments are no more.
Returned(t) ==
    /\ setting' = [setting EXCEPT ![t] = "no"]
    /\ channel' = [channel EXCEPT ![t] = 1]
    /\ new_value' = [new_value EXCEPT ![t] = 0]

\* control_set_at_value: the outputs are given the first dim value again.
CallSetAt(t) ==
    /\ setting' = [setting EXCEPT ![t] = "lamp"]
    /\ channel' = [channel EXCEPT ![t] = 1]
    /\ new_value' = [new_value EXCEPT ![t] = dim_values[1]]
    /\ torn' = (torn \/ \E u \in Task \ {t} : setting[u] = "lamp")

\* In an AT mode both channels are one lamp.
Reached(c) == IF is_at[c] THEN Channel ELSE {c}

\* Task t sets the dim value.  A value set by anyone but the change of power
\* makes the value before the loss of no account.
SetValue(t) ==
    LET to == Reached(channel[t]) IN
    /\ setting[t] = "value" /\ pc[t] # "halted"
    /\ setting' = [setting EXCEPT ![t] = "lamp"]
    /\ dim_values' = [c \in Channel |-> IF c \in to THEN new_value[t] ELSE dim_values[c]]
    /\ torn' = (torn \/ \E u \in Task \ {t} : setting[u] = "lamp")
    /\ before' = [c \in Channel |->
                     IF c \in to /\ ~(t = APP /\ pc[t] \in {"save", "restore"})
                     THEN NONE ELSE before[c]]
    /\ UNCHANGED <<pc, i, modes, lamp, channel, new_value, durations, emergency,
                   raced, asked, counted>>

\* Mutant of SetLamp: the output of the other channel of an AT lamp is left.
SetLamp_OwnOnly(t) ==
    /\ setting[t] = "lamp" /\ pc[t] # "halted"
    /\ Returned(t)
    /\ lamp' = [lamp EXCEPT ![channel[t]] = Limited(new_value[t])]
    /\ UNCHANGED <<pc, i, modes, dim_values, durations, emergency, history>>

\* ... and gives it to the outputs.
SetLamp(t) ==
    LET to == Reached(channel[t]) IN
    /\ setting[t] = "lamp" /\ pc[t] # "halted"
    /\ Returned(t)
    /\ lamp' = [c \in Channel |-> IF c \in to THEN Limited(new_value[t]) ELSE lamp[c]]
    /\ torn' = (torn \/ \E c \in to : dim_values[c] # new_value[t])
    /\ UNCHANGED <<pc, i, modes, dim_values, durations, emergency,
                   raced, asked, counted, before>>

-----------------------------------------------------------------------------
(* The APP task: sense_poe_task *)

Goto(t, place, c) == pc' = [pc EXCEPT ![t] = place] /\ i' = [i EXCEPT ![t] = c]

\* The voltage has fallen: channel by channel the emergency value is set.
\* Coupled channels are left out of the account of values before the loss.
LosePower ==
    /\ pc[APP] \in {"rest", "poe"} /\ ~Setting(APP)
    /\ ~external_power_running /\ external_power_running' = TRUE
    /\ Goto(APP, "save", 1)
    /\ before' = [c \in Channel |-> IF \E d \in Channel : is_at[d] THEN NONE ELSE dim_values[c]]
    /\ UNCHANGED <<modes, dim_values, lamp, call, durations, dim_save, torn, raced, asked, counted>>

ResumePower ==
    /\ pc[APP] \in {"rest", "poe"} /\ ~Setting(APP)
    /\ external_power_running /\ external_power_running' = FALSE
    /\ Goto(APP, "restore", 1)
    /\ UNCHANGED <<modes, dim_values, lamp, call, durations, dim_save, history>>

\* The voltage gives no reason to change.
SamePower ==
    /\ pc[APP] \in {"rest", "poe"} /\ ~Setting(APP)
    /\ Goto(APP, "count", 1)
    /\ UNCHANGED <<modes, dim_values, lamp, call, durations, emergency, history>>

\* Mutant of Save: the value is saved after the emergency value was set.
Save_TooLate(c) ==
    /\ pc[APP] = "save" /\ ~Setting(APP) /\ i[APP] = c
    /\ Goto(APP, "save", c + 1)
    /\ IF is_els[c]
       THEN dim_save' = [dim_save EXCEPT ![c] = DIM_ELS] /\ CallSetDim(APP, c, DIM_ELS)
       ELSE UNCHANGED <<dim_save, call>>
    /\ UNCHANGED <<modes, dim_values, lamp, durations, external_power_running, history>>

Save(c) ==
    /\ pc[APP] = "save" /\ ~Setting(APP) /\ i[APP] = c
    /\ Goto(APP, "save", c + 1)
    /\ IF is_els[c]
       THEN dim_save' = [dim_save EXCEPT ![c] = dim_values[c]] /\ CallSetDim(APP, c, DIM_ELS)
       ELSE UNCHANGED <<dim_save, call>>
    /\ UNCHANGED <<modes, dim_values, lamp, durations, external_power_running, history>>

\* What was saved is set again, whatever the dim value is now.
Restore(c) ==
    /\ pc[APP] = "restore" /\ ~Setting(APP) /\ i[APP] = c
    /\ Goto(APP, "restore", c + 1)
    /\ IF is_els[c] THEN CallSetDim(APP, c, dim_save[c]) ELSE UNCHANGED call
    /\ UNCHANGED <<modes, dim_values, lamp, durations, emergency, history>>

PowerDone ==
    /\ pc[APP] \in {"save", "restore"} /\ ~Setting(APP) /\ i[APP] = 3
    /\ Goto(APP, "count", 1)
    /\ UNCHANGED <<modes, dim_values, lamp, call, durations, emergency, history>>

-----------------------------------------------------------------------------
(* The APP task: control_dim_duration_task *)

\* Nine calls of ten only count.
Count ==
    /\ pc[APP] = "count"
    /\ IF dim_duration_task_counter + 1 < CALLS
       THEN /\ dim_duration_task_counter' = dim_duration_task_counter + 1
            /\ Goto(APP, "rest", 1)
       ELSE dim_duration_task_counter' = 0 /\ Goto(APP, "second", 1)
    /\ UNCHANGED <<modes, dim_values, lamp, call, dim_duration, dim_default,
                   dim_duration_seconds, held, emergency, history>>

\* A second more of a duration of channel c.  A full minute leads to the
\* duration itself, which `dim_duration[i]--' reads first.
Second(c) ==
    /\ pc[APP] = "second" /\ i[APP] = c
    /\ IF dim_duration[c] >= 0 /\ dim_default[c] # DIM_NO_CHANGE
       THEN IF dim_duration_seconds[c] + 1 = MINUTE
            THEN /\ dim_duration_seconds' = [dim_duration_seconds EXCEPT ![c] = 0]
                 /\ Goto(APP, "minute", c)
                 /\ held' = dim_duration[c]
                 /\ raced' = raced \cup {d \in {c} : InDuration(SYS_CMD, d)}
            ELSE /\ dim_duration_seconds' =
                        [dim_duration_seconds EXCEPT ![c] = dim_duration_seconds[c] + 1]
                 /\ Goto(APP, "second", c + 1)
                 /\ UNCHANGED <<held, raced>>
       ELSE Goto(APP, "second", c + 1) /\ UNCHANGED <<dim_duration_seconds, held, raced>>
    /\ UNCHANGED <<modes, dim_values, lamp, call, dim_duration, dim_default,
                   dim_duration_task_counter, emergency, torn, asked, counted, before>>

\* ... and writes back one less.
Minute(c) ==
    /\ pc[APP] = "minute" /\ i[APP] = c
    /\ Goto(APP, "check", c)
    /\ dim_duration' = [dim_duration EXCEPT ![c] = IF held > 0 THEN held - 1 ELSE dim_duration[c]]
    /\ counted' = [counted EXCEPT ![c] = IF asked[c] = NONE THEN 0 ELSE counted[c] + 1]
    /\ held' = 0
    /\ UNCHANGED <<modes, dim_values, lamp, call, dim_default, dim_duration_seconds,
                   dim_duration_task_counter, emergency, torn, raced, asked, before>>

\* The duration has run out: the default is set.
Check(c) ==
    /\ pc[APP] = "check" /\ i[APP] = c
    /\ IF dim_duration[c] = 0 /\ dim_default[c] < DIM_NO_CHANGE
       THEN Goto(APP, "expire", c) /\ CallSetDim(APP, c, dim_default[c])
       ELSE Goto(APP, "second", c + 1) /\ UNCHANGED call
    /\ UNCHANGED <<modes, dim_values, lamp, durations, emergency, history>>

\* Mutant of Expire: the default stays.
Expire_KeepsDefault(c) ==
    /\ pc[APP] = "expire" /\ ~Setting(APP) /\ i[APP] = c
    /\ Goto(APP, "second", c + 1)
    /\ UNCHANGED <<modes, dim_values, lamp, call, durations, emergency, history>>

Expire(c) ==
    /\ pc[APP] = "expire" /\ ~Setting(APP) /\ i[APP] = c
    /\ Goto(APP, "second", c + 1)
    /\ dim_default' = [dim_default EXCEPT ![c] = DIM_NO_CHANGE]
    /\ asked' = [asked EXCEPT ![c] = NONE] /\ counted' = [counted EXCEPT ![c] = 0]
    /\ UNCHANGED <<modes, dim_values, lamp, call, dim_duration, dim_duration_seconds,
                   dim_duration_task_counter, held, emergency, torn, raced, before>>

RoundDone ==
    /\ pc[APP] = "second" /\ i[APP] = 3
    /\ Goto(APP, "rest", 1)
    /\ UNCHANGED <<modes, dim_values, lamp, call, durations, emergency, history>>

-----------------------------------------------------------------------------
(* Requests for an actuator, in SYS_CMD: its dim value and its modes *)

PutDim(c, v) ==
    /\ pc[SYS_CMD] = "rest" /\ ~Setting(SYS_CMD)
    /\ CallSetDim(SYS_CMD, c, v)
    /\ UNCHANGED <<pc, i, modes, dim_values, lamp, durations, emergency, history>>

\* set_pwm_mode changes neither dim values nor outputs.
PutPwmMode(c) ==
    /\ pc[SYS_CMD] = "rest" /\ ~Setting(SYS_CMD)
    /\ is_at' = [is_at EXCEPT ![c] = ~is_at[c]]
    /\ torn' = (torn \/ setting[APP] = "lamp")
    /\ before' = [d \in Channel |-> NONE]
    /\ UNCHANGED <<pc, i, is_els, dim_values, lamp, call, durations, emergency,
                   raced, asked, counted>>

PutMode(c) ==
    /\ pc[SYS_CMD] = "rest" /\ ~Setting(SYS_CMD)
    /\ is_els' = [is_els EXCEPT ![c] = ~is_els[c]]
    /\ before' = [d \in Channel |-> NONE]
    /\ UNCHANGED <<pc, i, is_at, dim_values, lamp, call, durations, emergency,
                   torn, raced, asked, counted>>

-----------------------------------------------------------------------------
\* After control_init and actuators_init; the modes come from the storage.
Started ==
    /\ pc = [t \in Task |-> "rest"] /\ i = [t \in Task |-> 1]
    /\ dim_values = [c \in Channel |-> 0] /\ lamp = [c \in Channel |-> 0]
    /\ setting = [t \in Task |-> "no"]
    /\ channel = [t \in Task |-> 1] /\ new_value = [t \in Task |-> 0]
    /\ dim_duration = [c \in Channel |-> DIM_DURATION_DISABLED]
    /\ dim_default = [c \in Channel |-> DIM_NO_CHANGE]
    /\ dim_duration_seconds = [c \in Channel |-> 0] /\ dim_duration_task_counter = 0 /\ held = 0
    /\ external_power_running = FALSE /\ dim_save = [c \in Channel |-> 0]
    /\ torn = FALSE /\ raced = {}
    /\ asked = [c \in Channel |-> NONE] /\ counted = [c \in Channel |-> 0]
    /\ before = [c \in Channel |-> NONE]

\* What the APP task does by itself, whatever voltage it finds but a loss.
AppStep ==
    \/ ResumePower \/ SamePower \/ PowerDone
    \/ \E c \in Channel : Save(c) \/ Restore(c)
    \/ Count \/ RoundDone
    \/ \E c \in Channel : Second(c) \/ Minute(c) \/ Check(c) \/ Expire(c)
=============================================================================
