----------------------- MODULE OutputControl_proofs -----------------------
(* What holds of the output converters for any number of channels. *)
EXTENDS OutputControl, TLAPS

\* Two elements make a sequence that is not empty.
LEMMA PairIsSeq ==
    ASSUME NEW S, NEW a \in S, NEW b \in S
    PROVE  <<a, b>> \in Seq(S) /\ <<a, b>> # << >>
OBVIOUS

\* So do two sequences, the first of which is not empty.
LEMMA BothAreSeq ==
    ASSUME NEW S, NEW s \in Seq(S), NEW t \in Seq(S), s # << >>
    PROVE  s \o t \in Seq(S) /\ s \o t # << >>
OBVIOUS

\* Of a sequence with more than one element something is left behind its head.
LEMMA TailIsSeq ==
    ASSUME NEW S, NEW s \in Seq(S), s # << >>
    PROVE  Head(s) \in S /\ Tail(s) \in Seq(S) /\ (Len(s) # 1 => Tail(s) # << >>)
<1>1. Len(s) \in Nat /\ Len(s) # 0
  OBVIOUS
<1>2. Len(Tail(s)) = Len(s) - 1
  OBVIOUS
<1>3. Len(s) # 1 => Len(Tail(s)) # 0
  BY <1>1, <1>2
<1>4. Len(<< >>) = 0
  OBVIOUS
<1>5. Len(s) # 1 => Tail(s) # << >>
  BY <1>3, <1>4, Zenon
<1> QED
  BY <1>5

\* The voltage pins of one channel, and of both, are set one after the other.
LEMMA VoltageSteps ==
    ASSUME NEW steps \in VoltageCommand
    PROVE  steps \in Seq(VoltageStep) /\ steps # << >>
<1>1. ASSUME NEW c \in Channel, NEW l \in Level
      PROVE  SelectVoltage(c, l) \in Seq(VoltageStep) /\ SelectVoltage(c, l) # << >>
  <2>1. \A b \in BOOLEAN : [pin |-> <<"24V", c>>, value |-> b] \in VoltageStep
                        /\ [pin |-> <<"36V", c>>, value |-> b] \in VoltageStep
    BY DEF VoltageStep
  <2>2. (l % 2 = 1) \in BOOLEAN /\ (l \div 2 = 1) \in BOOLEAN
    OBVIOUS
  <2>3. /\ [pin |-> <<"24V", c>>, value |-> l % 2 = 1] \in VoltageStep
        /\ [pin |-> <<"36V", c>>, value |-> l \div 2 = 1] \in VoltageStep
    BY <2>1, <2>2
  <2> QED
    BY <2>3, PairIsSeq DEF SelectVoltage
<1>2. CASE \E c \in Channel, l \in Level : steps = SelectVoltage(c, l)
  BY <1>1, <1>2
<1>3. CASE \E l \in Level, m \in Level : steps = SelectVoltage(1, l) \o SelectVoltage(2, m)
  <2>1. PICK l \in Level, m \in Level : steps = SelectVoltage(1, l) \o SelectVoltage(2, m)
    BY <1>3
  <2>2. 1 \in Channel /\ 2 \in Channel
    BY ChannelAssumption DEF Channel
  <2> QED
    BY <1>1, <2>1, <2>2, BothAreSeq
<1> QED
  BY <1>2, <1>3 DEF VoltageCommand

\* A write of the expander register keeps it and the values read from it sets
\* of pins, and, unless it undoes another task's write, changes one pin.
LEMMA RegisterWrite ==
    ASSUME TypeOK, NEW t \in Task, NEW pin \in Pin, NEW value \in BOOLEAN,
           WriteRegister(t, pin, value)
    PROVE  /\ reg' \in SUBSET Pin /\ held' \in [Task -> SUBSET Pin] /\ lost' \in BOOLEAN
           /\ lost => lost'
           /\ ~lost' => reg' = IF value THEN reg \cup {pin} ELSE reg \ {pin}
BY DEF TypeOK, WriteRegister

\* Reading the register changes nothing but what the task holds.
LEMMA RegisterRead ==
    ASSUME TypeOK, NEW t \in Task, ReadRegister(t)
    PROVE  reg' = reg /\ held' \in [Task -> SUBSET Pin] /\ lost' = lost
BY DEF TypeOK, ReadRegister

\* The enable pins are pins of the register, and none of them is a voltage pin.
LEMMA Pins ==
    /\ \A k \in Converter, c \in Channel : <<k, c>> \in Pin /\ Other(k) \in Converter /\ Other(k) # k
    /\ \A s \in VoltageStep : s.pin \in Pin /\ s.value \in BOOLEAN
    /\ \A s \in VoltageStep, k \in Converter, c \in Channel : s.pin # <<k, c>>
    /\ "APP" \in Task /\ "SYS_CMD" \in Task
BY DEF Pin, Converter, Other, VoltageStep, Task

\* The enable task goes from one channel to another channel.
LEMMA Channels ==
    /\ 1 \in Channel
    /\ \A c \in Channel : NextChannel(c) \in Channel
BY ChannelAssumption DEF Channel, NextChannel

-----------------------------------------------------------------------------
\* The type invariant holds at the start.
LEMMA TypeInit == Init => TypeOK
<1> SUFFICES ASSUME Init PROVE TypeOK
  OBVIOUS
<1>1. cmd \in [what : {"none", "mode", "read", "write"}, c : Channel, todo : Seq(VoltageStep)]
  BY Channels DEF Init, Nothing
<1>2. reg \in SUBSET Pin /\ held \in [Task -> SUBSET Pin]
  BY DEF Init
<1> QED
  BY <1>1, <1>2, Channels DEF Init, Nothing, TypeOK, Converter

\* The enable task keeps the type invariant.
LEMMA TypeApp == TypeOK /\ AppTask => TypeOK'
<1> SUFFICES ASSUME TypeOK, AppTask PROVE TypeOK'
  OBVIOUS
<1> USE DEF App, TypeOK
<1>1. CASE Skip
  BY <1>1, Channels DEF Skip
<1>2. CASE Begin
  BY <1>2 DEF Begin, Serving
<1>3. CASE OtherOffRead \/ OwnOffRead \/ OwnOnRead
  BY <1>3, RegisterRead, Pins DEF OtherOffRead, OwnOffRead, OwnOnRead, Rest, Serving
<1>4. CASE OtherOffWrite
  <2>1. WriteRegister("APP", <<Other(conv), ch>>, FALSE) /\ <<Other(conv), ch>> \in Pin
    BY <1>4, Pins DEF OtherOffWrite
  <2> QED
    BY <1>4, <2>1, RegisterWrite, Pins DEF OtherOffWrite, Rest, Serving
<1>5. CASE OwnOffWrite
  <2>1. WriteRegister("APP", <<conv, ch>>, FALSE) /\ <<conv, ch>> \in Pin
    BY <1>5, Pins DEF OwnOffWrite
  <2> QED
    BY <1>5, <2>1, RegisterWrite, Pins DEF OwnOffWrite, Rest, Serving
<1>6. CASE Delay
  BY <1>6 DEF Delay, Rest, Serving
<1>7. CASE OwnOnWrite
  <2>1. WriteRegister("APP", <<conv, ch>>, TRUE) /\ <<conv, ch>> \in Pin
    BY <1>7, Pins DEF OwnOnWrite
  <2>2. reg' \in SUBSET Pin /\ held' \in [Task -> SUBSET Pin] /\ lost' \in BOOLEAN
    BY <2>1, RegisterWrite, Pins
  <2>3. enabled' \in [Channel -> BOOLEAN]
    BY <1>7 DEF OwnOnWrite
  <2> QED
    BY <1>7, <2>2, <2>3 DEF OwnOnWrite, Serving
<1>8. CASE Done
  <2>1. request' \in [Channel -> BOOLEAN]
    BY <1>8 DEF Done
  <2> QED
    BY <1>8, <2>1, Channels DEF Done, Converter
<1> QED
  BY <1>1, <1>2, <1>3, <1>4, <1>5, <1>6, <1>7, <1>8 DEF AppTask

\* The commands keep the type invariant.
LEMMA TypeCmd == TypeOK /\ CmdTask => TypeOK'
<1> SUFFICES ASSUME TypeOK, CmdTask PROVE TypeOK'
  OBVIOUS
<1> USE DEF TypeOK, CmdUnchanged
<1>1. ASSUME NEW c \in Channel, NEW k \in Converter, SetMode(c, k) PROVE TypeOK'
  BY <1>1 DEF SetMode
<1>2. CASE RaiseRequest
  <2>1. request' \in [Channel -> BOOLEAN] /\ missed' \in [Channel -> BOOLEAN]
    BY <1>2 DEF RaiseRequest
  <2>2. cmd' \in [what : {"none", "mode", "read", "write"}, c : Channel, todo : Seq(VoltageStep)]
    BY <1>2, Channels DEF RaiseRequest, Nothing
  <2> QED
    BY <1>2, <2>1, <2>2 DEF RaiseRequest, Nothing
<1>3. ASSUME NEW steps \in VoltageCommand, SetVoltage(steps) PROVE TypeOK'
  BY <1>3, VoltageSteps, Channels DEF SetVoltage
<1>4. CASE VoltageRead
  BY <1>4, RegisterRead, Pins DEF VoltageRead
<1>5. CASE VoltageWrite
  <2>1. /\ Head(cmd.todo) \in VoltageStep /\ Tail(cmd.todo) \in Seq(VoltageStep)
        /\ Len(cmd.todo) # 1 => Tail(cmd.todo) # << >>
    BY <1>5, TailIsSeq DEF VoltageWrite
  <2>3. /\ cmd' \in [what : {"none", "mode", "read", "write"}, c : Channel, todo : Seq(VoltageStep)]
        /\ cmd'.what \in {"read", "write"} => cmd'.todo # << >>
    <3>1. CASE Len(cmd.todo) = 1
      BY <1>5, <3>1, Channels DEF VoltageWrite, Nothing
    <3>2. CASE Len(cmd.todo) # 1
      BY <1>5, <2>1, <3>2 DEF VoltageWrite
    <3> QED
      BY <3>1, <3>2
  <2>4. reg' \in SUBSET Pin /\ held' \in [Task -> SUBSET Pin] /\ lost' \in BOOLEAN
    BY <1>5, <2>1, RegisterWrite, Pins DEF VoltageWrite
  <2> QED
    BY <1>5, <2>3, <2>4 DEF VoltageWrite
<1> QED
  BY <1>1, <1>2, <1>3, <1>4, <1>5 DEF CmdTask

\* Every variable stays of its kind, in particular the commands of SYS_CMD touch
\* voltage pins only (control.c:140-269).
THEOREM TypeCorrect == Spec => []TypeOK
<1>1. TypeOK /\ [Next]_vars => TypeOK'
  <2>1. TypeOK /\ UNCHANGED vars => TypeOK'
    BY DEF TypeOK, vars
  <2> QED
    BY <2>1, TypeApp, TypeCmd DEF Next
<1> QED
  BY <1>1, TypeInit, PTL DEF Spec

-----------------------------------------------------------------------------
(* The inductive invariant: what the register holds at every place of         *)
(* control_output_enable, as long as no write to it was undone, and what a    *)
(* command can have changed meanwhile.                                        *)

OthersOff(c) ==
    /\ On(c) # Converter
    /\ ch = c /\ pc \in {"own_off", "own_off_w", "delay", "own_on", "own_on_w"} => Other(conv) \notin On(c)
    /\ ch = c /\ pc \in {"delay", "own_on", "own_on_w"} => conv \notin On(c)
    /\ ch = c /\ pc = "done" => On(c) = {conv}

Switching(c) == pc \in Serving /\ ch = c
ModePending(c) == cmd.what = "mode" /\ cmd.c = c

ServesMode(c) == Switching(c) => ModePending(c) \/ conv = mode[c]
RestsInMode(c) ==
    ~Switching(c) /\ ~ModePending(c) /\ enabled[c] /\ ~request[c] => On(c) = {mode[c]}

Safe(c) == OthersOff(c) /\ (~missed[c] => ServesMode(c) /\ RestsInMode(c))
IInv == ~lost => \A c \in Channel : Safe(c)

\* A register that does not change keeps the converters that are on.
LEMMA OnKept ==
    ASSUME reg' = reg, NEW c \in Channel
    PROVE  On(c)' = On(c)
BY DEF On

\* Writing the pin of a converter switches that converter and no other one.
LEMMA OnSwitchedOff ==
    ASSUME TypeOK, NEW t \in Task, NEW k \in Converter, NEW d \in Channel,
           WriteRegister(t, <<k, d>>, FALSE), ~lost', NEW c \in Channel
    PROVE  On(c)' = IF c # d THEN On(c) ELSE On(c) \ {k}
<1>1. reg' = reg \ {<<k, d>>}
  BY RegisterWrite, Pins
<1> QED
  BY <1>1 DEF On

\* Setting the enable pin of a converter switches on that one and no other.
LEMMA OnSwitchedOn ==
    ASSUME TypeOK, NEW t \in Task, NEW k \in Converter, NEW d \in Channel,
           WriteRegister(t, <<k, d>>, TRUE), ~lost', NEW c \in Channel
    PROVE  On(c)' = IF c # d THEN On(c) ELSE On(c) \cup {k}
<1>1. reg' = reg \cup {<<k, d>>}
  BY RegisterWrite, Pins
<1> QED
  BY <1>1 DEF On

\* Writing a voltage pin switches no converter.
LEMMA OnVoltage ==
    ASSUME TypeOK, NEW t \in Task, NEW s \in VoltageStep,
           WriteRegister(t, s.pin, s.value), ~lost', NEW c \in Channel
    PROVE  On(c)' = On(c)
<1>1. reg' = IF s.value THEN reg \cup {s.pin} ELSE reg \ {s.pin}
  BY RegisterWrite, Pins
<1> QED
  BY <1>1, Pins DEF On

\* The inductive invariant holds at the start.
LEMMA SafeInit == Init => IInv
<1> SUFFICES ASSUME Init, NEW c \in Channel PROVE Safe(c)
  BY DEF IInv
<1>1. On(c) = {}
  BY DEF Init, On
<1> QED
  BY <1>1 DEF Init, Safe, OthersOff, ServesMode, RestsInMode, Switching, Converter, Serving

\* One step of the APP task, one channel: nothing but its own converters, and
\* only while it is the one being switched, can change.
LEMMA SafeApp == TypeOK /\ IInv /\ AppTask => IInv'
<1> SUFFICES ASSUME TypeOK, IInv, AppTask, ~lost', NEW c \in Channel PROVE Safe(c)'
  BY DEF IInv
<1>0. ~lost /\ Safe(c) /\ conv \in Converter
  <2>1. lost => lost'
    BY DEF AppTask, Skip, Begin, OtherOffRead, OwnOffRead, OwnOnRead, OtherOffWrite, OwnOffWrite,
           Delay, OwnOnWrite, Done, ReadRegister, WriteRegister
  <2> QED
    BY <2>1 DEF IInv, TypeOK
<1> USE DEF App, Safe, OthersOff, ServesMode, RestsInMode, Switching, ModePending
<1>1. CASE Skip
  <2>1. On(c)' = On(c)
    BY <1>1, OnKept DEF Skip
  <2> QED
    BY <1>0, <1>1, <2>1 DEF Skip, Serving
<1>2. CASE Begin
  <2>1. On(c)' = On(c)
    BY <1>2, OnKept DEF Begin
  <2> QED
    BY <1>0, <1>2, <2>1 DEF Begin, Serving, TypeOK
<1>3. CASE OtherOffRead \/ OwnOffRead \/ OwnOnRead
  <2>1. On(c)' = On(c)
    BY <1>3, OnKept DEF ReadRegister, OtherOffRead, OwnOffRead, OwnOnRead
  <2>2. CASE OtherOffRead
    BY <1>0, <2>1, <2>2 DEF OtherOffRead, Rest, Serving
  <2>3. CASE OwnOffRead
    BY <1>0, <2>1, <2>3 DEF OwnOffRead, Rest, Serving
  <2>4. CASE OwnOnRead
    BY <1>0, <2>1, <2>4 DEF OwnOnRead, Rest, Serving
  <2> QED
    BY <1>3, <2>2, <2>3, <2>4
<1>4. CASE OtherOffWrite
  <2>1. On(c)' = IF c # ch THEN On(c) ELSE On(c) \ {Other(conv)}
    <3>1. WriteRegister("APP", <<Other(conv), ch>>, FALSE) /\ Other(conv) \in Converter /\ ch \in Channel
      BY <1>4, Pins DEF OtherOffWrite, TypeOK
    <3> QED
      BY <3>1, OnSwitchedOff, Pins
  <2>2. On(c) # Converter => On(c)' # Converter
    BY <2>1, Pins DEF On
  <2> QED
    BY <1>0, <1>4, <2>1, <2>2 DEF OtherOffWrite, Rest, Serving
<1>5. CASE OwnOffWrite
  <2>1. On(c)' = IF c # ch THEN On(c) ELSE On(c) \ {conv}
    <3>1. WriteRegister("APP", <<conv, ch>>, FALSE) /\ conv \in Converter /\ ch \in Channel
      BY <1>5, Pins DEF OwnOffWrite, TypeOK
    <3> QED
      BY <3>1, OnSwitchedOff, Pins
  <2>2. On(c) # Converter => On(c)' # Converter
    BY <2>1, <1>0 DEF On
  <2> QED
    BY <1>0, <1>5, <2>1, <2>2 DEF OwnOffWrite, Rest, Serving
<1>6. CASE Delay
  <2>1. On(c)' = On(c)
    BY <1>6, OnKept DEF Delay
  <2> QED
    BY <1>0, <1>6, <2>1 DEF Delay, Rest, Serving
<1>7. CASE OwnOnWrite
  <2>1. On(c)' = IF c # ch THEN On(c) ELSE On(c) \cup {conv}
    <3>1. WriteRegister("APP", <<conv, ch>>, TRUE) /\ conv \in Converter /\ ch \in Channel
      BY <1>7, Pins DEF OwnOnWrite, TypeOK
    <3> QED
      BY <3>1, OnSwitchedOn, Pins
  <2>2. c = ch => On(c) = {}
    BY <1>0, <1>7 DEF OwnOnWrite, On, Converter, Other
  <2>3. On(c)' # Converter
    BY <1>0, <2>1, <2>2 DEF Converter
  <2> QED
    BY <1>0, <1>7, <2>1, <2>2, <2>3 DEF OwnOnWrite, Serving, TypeOK
<1>8. CASE Done
  <2>1. On(c)' = On(c)
    BY <1>8, OnKept DEF Done
  <2> QED
    BY <1>0, <1>8, <2>1 DEF Done, Serving, TypeOK
<1> QED
  BY <1>1, <1>2, <1>3, <1>4, <1>5, <1>6, <1>7, <1>8 DEF AppTask

\* One step of the SYS_CMD task: the mode of a channel changes before the request
\* to switch it is raised, and a change during the switching is noted as missed.
LEMMA SafeCmd == TypeOK /\ IInv /\ CmdTask => IInv'
<1> SUFFICES ASSUME TypeOK, IInv, CmdTask, ~lost', NEW c \in Channel PROVE Safe(c)'
  BY DEF IInv
<1>0. ~lost /\ Safe(c)
  <2>1. lost => lost'
    BY DEF CmdTask, SetMode, RaiseRequest, SetVoltage, VoltageRead, VoltageWrite,
           ReadRegister, WriteRegister
  <2> QED
    BY <2>1 DEF IInv
<1> USE DEF CmdUnchanged, Safe, OthersOff, ServesMode, RestsInMode, Switching, ModePending
<1>1. ASSUME NEW d \in Channel, NEW k \in Converter, SetMode(d, k) PROVE Safe(c)'
  <2>1. On(c)' = On(c)
    BY <1>1, OnKept DEF SetMode
  <2>2. mode' = [mode EXCEPT ![d] = k] /\ cmd'.what = "mode" /\ cmd'.c = d
    BY <1>1 DEF SetMode
  <2> QED
    BY <1>0, <1>1, <2>1, <2>2 DEF SetMode, Nothing, TypeOK
<1>2. CASE RaiseRequest
  <2>1. On(c)' = On(c)
    BY <1>2, OnKept DEF RaiseRequest
  <2>2. CASE cmd.c = c /\ Switching(c)
    <3>1. missed'[c]
      BY <1>2, <2>2 DEF RaiseRequest, TypeOK
    <3> QED
      BY <1>0, <1>2, <2>1, <3>1 DEF RaiseRequest
  <2>3. CASE cmd.c = c /\ ~Switching(c)
    <3>1. enabled'[c] => request'[c]
      BY <1>2, <2>3 DEF RaiseRequest, TypeOK
    <3> QED
      BY <1>0, <1>2, <2>1, <2>3, <3>1 DEF RaiseRequest
  <2>4. CASE cmd.c # c
    <3>1. request'[c] = request[c] /\ missed'[c] = missed[c]
      BY <1>2, <2>4 DEF RaiseRequest, TypeOK
    <3> QED
      BY <1>0, <1>2, <2>1, <2>4, <3>1 DEF RaiseRequest
  <2> QED
    BY <2>2, <2>3, <2>4
<1>3. ASSUME NEW steps \in VoltageCommand, SetVoltage(steps) PROVE Safe(c)'
  <2>1. On(c)' = On(c)
    BY <1>3, OnKept DEF SetVoltage
  <2> QED
    BY <1>0, <1>3, <2>1 DEF SetVoltage, Nothing
<1>4. CASE VoltageRead
  <2>1. On(c)' = On(c)
    BY <1>4, OnKept DEF VoltageRead, ReadRegister
  <2>2. cmd.what # "mode"
    BY <1>4 DEF VoltageRead
  <2> QED
    BY <1>0, <1>4, <2>1, <2>2 DEF VoltageRead, ReadRegister
<1>5. CASE VoltageWrite
  <2>1. /\ Head(cmd.todo) \in VoltageStep /\ cmd.what = "write"
        /\ WriteRegister("SYS_CMD", Head(cmd.todo).pin, Head(cmd.todo).value)
    BY <1>5, TailIsSeq DEF VoltageWrite, TypeOK
  <2>2. On(c)' = On(c)
    BY <2>1, OnVoltage, Pins
  <2> QED
    BY <1>0, <1>5, <2>1, <2>2 DEF VoltageWrite
<1> QED
  BY <1>1, <1>2, <1>3, <1>4, <1>5 DEF CmdTask

\* The inductive invariant holds throughout: each place of control_output_enable
\* (control.c:216-269) finds the register as the steps before left it.
THEOREM Invariance == Spec => []IInv
<1>1. TypeOK /\ IInv /\ [Next]_vars => IInv'
  <2>1. ASSUME IInv, UNCHANGED vars PROVE IInv'
    <3>1. SUFFICES ASSUME ~lost', NEW c \in Channel PROVE Safe(c)'
      BY DEF IInv
    <3>2. On(c)' = On(c) /\ Safe(c)
      BY <2>1, <3>1, OnKept DEF vars, IInv
    <3> QED
      BY <2>1, <3>2 DEF vars, Safe, OthersOff, ServesMode, RestsInMode, Switching, ModePending
  <2> QED
    BY <2>1, SafeApp, SafeCmd DEF Next
<1> QED
  BY <1>1, SafeInit, TypeCorrect, PTL DEF Spec

\* Never are both converters of a channel on, for any number of channels and any
\* voltages commanded meanwhile, unless a write of the expander register was
\* undone by the other task (control.c:216-269, io_expander.c:57-64).
THEOREM NeverBoth == Spec => []Exclusive
<1>1. IInv => Exclusive
  BY DEF IInv, Safe, OthersOff, Exclusive
<1> QED
  BY <1>1, Invariance, PTL

\* Under the same condition an output is off while it waits out the protection
\* delay (control.c:224-229).
THEOREM OffInDelay == Spec => []DelayIsOff
<1>1. TypeOK /\ IInv => DelayIsOff
  BY DEF TypeOK, IInv, Safe, OthersOff, DelayIsOff, On, Converter, Other
<1> QED
  BY <1>1, Invariance, TypeCorrect, PTL

\* A channel at rest has the converter of its mode on (control.c:31-38, 84-88).
THEOREM AtRestInMode == Spec => []FollowsMode
<1>1. IInv => FollowsMode
  BY DEF IInv, Safe, RestsInMode, Switching, ModePending, FollowsMode
<1> QED
  BY <1>1, Invariance, PTL
=============================================================================
