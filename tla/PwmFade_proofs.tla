--------------------------- MODULE PwmFade_proofs ---------------------------
(* What holds of the duty cycle for any fade time, dim value, colour and power *)
(* limit.                                                                      *)
EXTENDS PwmFade, TLAPS

\* A quotient of naturals is no greater than the dividend.
LEMMA Quotient ==
    ASSUME NEW a \in Nat, NEW b \in Nat, b # 0
    PROVE  a \div b \in 0 .. a
OBVIOUS

\* A member of a range, as the inequalities the other lemmas use.
LEMMA InRange ==
    ASSUME NEW m \in Nat, NEW n \in 0 .. m
    PROVE  n \in Nat /\ n <= m
OBVIOUS

\* A share of at most the whole is no greater than the whole.
LEMMA Portion ==
    ASSUME NEW d \in Nat, NEW s \in Nat, NEW n \in Nat, n # 0, s <= n
    PROVE  (d * s) \div n \in Nat /\ (d * s) \div n <= d
<1>1. (d * s) \div n <= d
  BY SMT
<1>2. d * s \in Nat
  BY SMT
<1> QED
  BY <1>1, <1>2, Quotient

\* The remainder of a number, and of one that is small enough.
LEMMA Remainder ==
    ASSUME NEW n \in Int, NEW w \in Nat, w # 0
    PROVE  n % w \in 0 .. w - 1 /\ (n \in Nat /\ n < w => n % w = n)
<1>1. n % w \in 0 .. w - 1
  BY SMT
<1>2. ASSUME n \in Nat, n < w PROVE n % w = n
  BY <1>2, SMT
<1> QED
  BY <1>1, <1>2

\* A word holds every duty cycle of the period.
LEMMA WordSize == WORD \in Nat /\ WORD # 0 /\ PWM_DUTY_CYCLE_MAX \in Nat /\ PWM_DUTY_CYCLE_MAX < WORD
BY SMT DEF WORD, PWM_DUTY_CYCLE_MAX

\* The word of a number that fits in it is that number.
LEMMA Word ==
    ASSUME NEW n \in Int
    PROVE  U16(n) \in 0 .. WORD - 1 /\ (n \in Nat /\ n < WORD => U16(n) = n)
BY WordSize, Remainder DEF U16

\* The product of two numbers is a number.
LEMMA Product == ASSUME NEW a \in Nat, NEW b \in Nat PROVE a * b \in Nat
BY SMT

\* Whatever is asked for, the output compare register stays within the period.
LEMMA OutputBounded ==
    ASSUME NEW value \in Nat
    PROVE  Output(value) \in 0 .. PWM_DUTY_CYCLE_MAX
<1>0. Cp \in Nat
  BY InputAssumption
<1>1. Cp * value \in Nat
  BY <1>0, Product, Zenon
<1>2. (Cp * value) \div 713 \in Nat
  BY <1>1, Quotient
<1>3. ASSUME NEW q \in Nat PROVE Least(q, PWM_DUTY_CYCLE_MAX) \in 0 .. PWM_DUTY_CYCLE_MAX
  BY DEF Least, PWM_DUTY_CYCLE_MAX
<1>4. Limited(value) \in 0 .. PWM_DUTY_CYCLE_MAX
  BY <1>2, <1>3, Zenon DEF Limited
<1> QED
  BY <1>4 DEF Output, PWM_DUTY_CYCLE_MAX

\* The wanted duty cycle is a part of the period.
LEMMA DutyBounded ==
    ASSUME NEW dim \in Dim
    PROVE  DutyOf(dim) \in 0 .. PWM_DUTY_CYCLE_MAX
<1>1. (PWM_DUTY_CYCLE_MAX * dim) \div 100 \in Nat
  BY Quotient, InputAssumption DEF PWM_DUTY_CYCLE_MAX
<1> QED
  BY <1>1 DEF DutyOf, Least, PWM_DUTY_CYCLE_MAX

\* So is its share for a colour of the range.
LEMMA ColourBounded ==
    ASSUME NEW dim \in Dim, NEW a \in AT_MIN .. AT_MAX
    PROVE  ColourDutyOf(dim, a) \in 0 .. PWM_DUTY_CYCLE_MAX
<1>1. Share(a) \in 0 .. AT_RANGE
  BY DEF Share, AT_MIN, AT_MAX, AT_RANGE
<1>2. PWM_DUTY_CYCLE_MAX \in Nat /\ AT_RANGE \in Nat /\ AT_RANGE # 0
  BY SMT DEF AT_RANGE, AT_MIN, AT_MAX, PWM_DUTY_CYCLE_MAX
<1>4. /\ DutyOf(dim) \in Nat /\ DutyOf(dim) <= PWM_DUTY_CYCLE_MAX
     /\ Share(a) \in Nat /\ Share(a) <= AT_RANGE
  BY <1>1, <1>2, DutyBounded, InRange
<1>3. ColourDutyOf(dim, a) \in Nat /\ ColourDutyOf(dim, a) <= DutyOf(dim)
  BY <1>2, <1>4, Portion DEF ColourDutyOf
<1> QED
  BY <1>2, <1>3, <1>4, SMT

\* A step is at least 1 and at most that of the shortest fade.
LEMMA StepBounded ==
    ASSUME NEW ft \in FadeTime, ft # 0
    PROVE  StepFor(ft) \in 1 .. PWM_DUTY_CYCLE_MAX * PWM_FADE_TIME_STEP
<1>1. (PWM_DUTY_CYCLE_MAX * PWM_FADE_TIME_STEP) \div ft \in 0 .. PWM_DUTY_CYCLE_MAX * PWM_FADE_TIME_STEP
  BY Quotient, InputAssumption DEF PWM_DUTY_CYCLE_MAX, PWM_FADE_TIME_STEP
<1> QED
  BY <1>1 DEF StepFor, PWM_DUTY_CYCLE_MAX, PWM_FADE_TIME_STEP

-----------------------------------------------------------------------------
\* The output starts switched off, with no fade under way.
LEMMA InitCorrect == Init => TypeOK /\ WithinPeriodUnlessWrapped
<1> SUFFICES ASSUME Init PROVE TypeOK /\ WithinPeriodUnlessWrapped
  OBVIOUS
<1>1. oc \in 0 .. PWM_DUTY_CYCLE_MAX
  BY OutputBounded DEF Init
<1>2. present \in 0 .. WORD - 1 /\ target \in 0 .. PWM_DUTY_CYCLE_MAX /\ present <= PWM_DUTY_CYCLE_MAX
  BY WordSize DEF Init
<1>3. at \in AT_MIN .. AT_MAX /\ step \in 0 .. PWM_DUTY_CYCLE_MAX * PWM_FADE_TIME_STEP
  BY DEF Init, AT_MIN, AT_MAX, PWM_DUTY_CYCLE_MAX, PWM_FADE_TIME_STEP
<1> QED
  BY <1>1, <1>2, <1>3 DEF Init, TypeOK, WithinPeriodUnlessWrapped

\* A step of the fade task keeps every value in its range.
LEMMA FadeCorrect ==
    TypeOK /\ WithinPeriodUnlessWrapped /\ FadeTask => TypeOK' /\ WithinPeriodUnlessWrapped'
<1> SUFFICES ASSUME TypeOK, WithinPeriodUnlessWrapped, FadeTask
             PROVE  TypeOK' /\ WithinPeriodUnlessWrapped'
  OBVIOUS
<1>0. /\ present \in Nat /\ present < WORD /\ target \in Nat /\ step \in Nat
      /\ target <= PWM_DUTY_CYCLE_MAX /\ (wrapped \/ present <= PWM_DUTY_CYCLE_MAX)
  BY WordSize DEF TypeOK, WithinPeriodUnlessWrapped
<1>1. CASE FadeStart
  <2>1. CASE fadetime = 0
    <3>1. present' \in 0 .. WORD - 1 /\ present' <= PWM_DUTY_CYCLE_MAX
      BY <1>0, <1>1, <2>1, WordSize DEF FadeStart
    <3> QED
      BY <1>1, <2>1, <3>1 DEF FadeStart, TypeOK, WithinPeriodUnlessWrapped
  <2>2. CASE fadetime # 0
    <3>1. step' \in 0 .. PWM_DUTY_CYCLE_MAX * PWM_FADE_TIME_STEP
      BY <1>1, <2>2, StepBounded DEF FadeStart, TypeOK
    <3> QED
      BY <1>1, <2>2, <3>1 DEF FadeStart, TypeOK, WithinPeriodUnlessWrapped
  <2> QED
    BY <2>1, <2>2
<1>2. CASE FadeUp
  <2>1. present' \in 0 .. WORD - 1 /\ present' <= PWM_DUTY_CYCLE_MAX
    <3>1. CASE present + step > target
      BY <1>0, <1>2, <3>1, WordSize DEF FadeUp
    <3>2. CASE ~(present + step > target)
      BY <1>0, <1>2, <3>2, WordSize, Word DEF FadeUp
    <3> QED
      BY <3>1, <3>2
  <2> QED
    BY <1>2, <2>1 DEF FadeUp, TypeOK, WithinPeriodUnlessWrapped
<1>3. CASE FadeDown
  <2>1. CASE present >= step /\ present - step < target
    <3>1. present' \in 0 .. WORD - 1 /\ present' <= PWM_DUTY_CYCLE_MAX
      BY <1>0, <1>3, <2>1, WordSize DEF FadeDown
    <3> QED
      BY <1>3, <2>1, <3>1 DEF FadeDown, TypeOK, WithinPeriodUnlessWrapped
  <2>2. CASE ~(present >= step /\ present - step < target)
    BY <1>3, <2>2 DEF FadeDown, TypeOK, WithinPeriodUnlessWrapped
  <2> QED
    BY <2>1, <2>2
<1>4. CASE Subtract
  <2>1. present' \in 0 .. WORD - 1
    BY <1>0, <1>4, Word DEF Subtract
  <2>2. ~wrapped' => present' <= PWM_DUTY_CYCLE_MAX
    <3> SUFFICES ASSUME ~wrapped' PROVE present' <= PWM_DUTY_CYCLE_MAX
      OBVIOUS
    <3>0. ~wrapped /\ ~(present < step)
      BY <1>4, Zenon DEF Subtract
    <3>1. ~wrapped /\ step <= present
      BY <1>0, <3>0
    <3> QED
      BY <1>0, <1>4, <3>1, WordSize, Word DEF Subtract
  <2> QED
    BY <1>4, <2>1, <2>2 DEF Subtract, TypeOK, WithinPeriodUnlessWrapped
<1>5. CASE FadeOut
  <2>1. oc' \in 0 .. PWM_DUTY_CYCLE_MAX
    BY <1>0, <1>5, OutputBounded DEF FadeOut
  <2>2. step' \in 0 .. PWM_DUTY_CYCLE_MAX * PWM_FADE_TIME_STEP
    BY <1>5 DEF FadeOut, PWM_DUTY_CYCLE_MAX, PWM_FADE_TIME_STEP
  <2> QED
    BY <1>5, <2>1, <2>2 DEF FadeOut, TypeOK, WithinPeriodUnlessWrapped
<1> QED
  BY <1>1, <1>2, <1>3, <1>4, <1>5 DEF FadeTask

\* So does a command, at whatever place the fade task is.
LEMMA CommandCorrect ==
    TypeOK /\ WithinPeriodUnlessWrapped /\ Command => TypeOK' /\ WithinPeriodUnlessWrapped'
<1> SUFFICES ASSUME TypeOK, WithinPeriodUnlessWrapped, Command
             PROVE  TypeOK' /\ WithinPeriodUnlessWrapped'
  OBVIOUS
<1> USE DEF WithinPeriodUnlessWrapped
<1>1. ASSUME NEW dim \in Dim, SetDim(dim) PROVE TypeOK' /\ WithinPeriodUnlessWrapped'
  BY <1>1, DutyBounded DEF SetDim, TypeOK
<1>2. ASSUME NEW dim \in Dim, NEW a \in At, SetColour(dim, a)
      PROVE  TypeOK' /\ WithinPeriodUnlessWrapped'
  <2>1. a \in Int
    BY InputAssumption, WordSize
  <2>2. Clamped(a) \in AT_MIN .. AT_MAX
    BY <2>1 DEF Clamped, AT_MIN, AT_MAX
  <2>3. at' \in AT_MIN .. AT_MAX /\ target' \in 0 .. PWM_DUTY_CYCLE_MAX
    BY <1>2, <2>2, ColourBounded DEF SetColour
  <2> QED
    BY <1>2, <2>3 DEF SetColour, TypeOK
<1>3. ASSUME NEW ft \in FadeTime, SetFadeTime(ft) PROVE TypeOK' /\ WithinPeriodUnlessWrapped'
  BY <1>3 DEF SetFadeTime, TypeOK
<1>4. CASE ClearPresent
  <2>1. present' \in 0 .. WORD - 1 /\ present' <= PWM_DUTY_CYCLE_MAX /\ oc' \in 0 .. PWM_DUTY_CYCLE_MAX
    BY <1>4, WordSize, OutputBounded DEF ClearPresent
  <2> QED
    BY <1>4, <2>1 DEF ClearPresent, TypeOK
<1> QED
  BY <1>1, <1>2, <1>3, <1>4 DEF Command

\* For any fade times, dim values, colours and power limit every value stays in
\* its range, the register within the period even after a subtraction went
\* below zero, and the duty cycle exceeds a full period only in that way
\* (pwm.c:32-75, 103-128).
THEOREM OnlyWrapExceeds == Spec => [](TypeOK /\ WithinPeriodUnlessWrapped)
<1>1. TypeOK /\ WithinPeriodUnlessWrapped /\ [Next]_vars => TypeOK' /\ WithinPeriodUnlessWrapped'
  <2>1. TypeOK /\ WithinPeriodUnlessWrapped /\ UNCHANGED vars => TypeOK' /\ WithinPeriodUnlessWrapped'
    BY DEF TypeOK, WithinPeriodUnlessWrapped, vars
  <2> QED
    BY <2>1, FadeCorrect, CommandCorrect DEF Next
<1> QED
  BY <1>1, InitCorrect, PTL DEF Spec

\* For any fade times, dim values, colours and power limit every variable stays
\* within its kind: the 16-bit duty cycle, the register within the period and
\* the step within the largest one (pwm.c:32-75, 103-128).
THEOREM TypeCorrect == Spec => []TypeOK
<1>1. TypeOK /\ WithinPeriodUnlessWrapped => TypeOK
  OBVIOUS
<1> QED
  BY <1>1, OnlyWrapExceeds, PTL
=============================================================================
