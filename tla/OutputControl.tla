--------------------------- MODULE OutputControl ---------------------------
(***************************************************************************)
(* The output converters of the actuator channels (src/control.c).  Each   *)
(* channel has a constant-voltage (VCV) and a constant-current (VCC)       *)
(* converter whose enable pins, like the pins that select the voltage, are *)
(* bits of one output register of an I2C port expander                     *)
(* (src/io_expander.c).  The APP task switches converters, the SYS_CMD     *)
(* task changes modes and voltages; io_expander_set reads the register and *)
(* writes it back, and nothing keeps the tasks apart between the two.      *)
(***************************************************************************)
EXTENDS Integers, Sequences

CONSTANTS NUM_ACTUATORS,
          Level   \* the voltage levels commanded, bit 0: 24V pin, bit 1: 36V pin

ASSUME ChannelAssumption == NUM_ACTUATORS \in Nat /\ NUM_ACTUATORS >= 2
ASSUME LevelAssumption == Level \subseteq 0 .. 3

VARIABLES
    reg,       \* output register of the expander: the set of pins that are high
    held,      \* the value each task read and is about to write back
    mode,      \* is_cc of the channel's pwm_mode, as the converter it selects
    enabled,   \* channel_enabled
    request,   \* channel_enable_request
    pc, ch, conv,  \* the APP task: place, channel, converter being enabled
    cmd,       \* the SYS_CMD task: what it has still to do
    lost,      \* history: a write undid another task's write to the register
    missed     \* history: the mode of a channel changed while it was being served

vars == <<reg, held, mode, enabled, request, pc, ch, conv, cmd, lost, missed>>

Channel == 1 .. NUM_ACTUATORS
Converter == {"VCV", "VCC"}
Task == {"APP", "SYS_CMD"}
Pin == (Converter \cup {"24V", "36V"}) \X Channel
Other(c) == IF c = "VCV" THEN "VCC" ELSE "VCV"

Serving == {"other_off", "other_off_w", "own_off", "own_off_w", "delay", "own_on", "own_on_w", "done"}

\* The converters of channel c that are on.
On(c) == {k \in Converter : <<k, c>> \in reg}

\* Mutant of NextChannel: the loop runs one channel too far.
NextChannel_OnePastEnd(c) == IF c <= NUM_ACTUATORS THEN c + 1 ELSE 1

NextChannel(c) == IF c + 1 \in Channel THEN c + 1 ELSE 1

\* The io_expander_set calls of control_set_voltage for one channel.
VoltageStep == [pin : {"24V", "36V"} \X Channel, value : BOOLEAN]
SelectVoltage(c, level) == << [pin |-> <<"24V", c>>, value |-> level % 2 = 1],
                              [pin |-> <<"36V", c>>, value |-> level \div 2 = 1] >>

\* With cuv_enable one command selects the voltage of both channels.
VoltageCommand ==
    {SelectVoltage(c, l) : c \in Channel, l \in Level}
    \cup {SelectVoltage(1, l) \o SelectVoltage(2, m) : l \in Level, m \in Level}

Nothing == [what |-> "none", c |-> 1, todo |-> << >>]

-----------------------------------------------------------------------------
(* io_expander_set: read, then write back with one pin changed *)

ReadRegister(t) == held' = [held EXCEPT ![t] = reg] /\ UNCHANGED <<reg, lost>>

WriteRegister(t, pin, value) ==
    /\ reg' = IF value THEN held[t] \cup {pin} ELSE held[t] \ {pin}
    /\ lost' = (lost \/ held[t] # reg)
    /\ held' = [held EXCEPT ![t] = {}]

-----------------------------------------------------------------------------
(* APP task: control_output_enable_task and control_output_enable *)

App(from, to) == pc = from /\ pc' = to

\* Mutant of Skip: a channel with nothing to do is looked at again.
Skip_Stays ==
    /\ App("scan", "scan") /\ ~request[ch]
    /\ UNCHANGED <<reg, held, mode, enabled, request, ch, conv, cmd, lost, missed>>

Skip ==
    /\ App("scan", "scan") /\ ~request[ch]
    /\ ch' = NextChannel(ch)
    /\ UNCHANGED <<reg, held, mode, enabled, request, conv, cmd, lost, missed>>

Begin ==
    /\ App("scan", "other_off") /\ request[ch]
    /\ conv' = mode[ch]
    /\ missed' = [missed EXCEPT ![ch] = FALSE]
    /\ UNCHANGED <<reg, held, mode, enabled, request, ch, cmd, lost>>

Rest == UNCHANGED <<mode, enabled, request, ch, conv, cmd, missed>>

OtherOffRead == App("other_off", "other_off_w") /\ ReadRegister("APP") /\ Rest
\* Mutant of OtherOffWrite: the wrong converter is switched off.
OtherOffWrite_Own ==
    App("other_off_w", "own_off") /\ WriteRegister("APP", <<conv, ch>>, FALSE) /\ Rest

OtherOffWrite ==
    App("other_off_w", "own_off") /\ WriteRegister("APP", <<Other(conv), ch>>, FALSE) /\ Rest

OwnOffRead == App("own_off", "own_off_w") /\ ReadRegister("APP") /\ Rest
\* Mutant of OwnOffWrite: the converter to be enabled is not switched off first.
OwnOffWrite_Missing ==
    /\ App("own_off_w", IF enabled[ch] THEN "delay" ELSE "own_on")
    /\ held' = [held EXCEPT !["APP"] = {}]
    /\ Rest /\ UNCHANGED <<reg, lost>>

OwnOffWrite ==
    /\ App("own_off_w", IF enabled[ch] THEN "delay" ELSE "own_on")
    /\ WriteRegister("APP", <<conv, ch>>, FALSE) /\ Rest

\* control_output_protection_delay: six seconds in which every other task runs.
Delay == App("delay", "own_on") /\ Rest /\ UNCHANGED <<reg, held, lost>>

OwnOnRead == App("own_on", "own_on_w") /\ ReadRegister("APP") /\ Rest
OwnOnWrite ==
    /\ App("own_on_w", "done")
    /\ WriteRegister("APP", <<conv, ch>>, TRUE)
    /\ enabled' = [enabled EXCEPT ![ch] = TRUE]
    /\ UNCHANGED <<mode, request, ch, conv, cmd, missed>>

\* Back in the task: the request is withdrawn, also if it was raised meanwhile.
Done ==
    /\ App("done", "scan")
    /\ request' = [request EXCEPT ![ch] = FALSE]
    /\ ch' = NextChannel(ch) /\ conv' = "VCC"
    /\ UNCHANGED <<reg, held, mode, enabled, cmd, lost, missed>>

AppTask == \/ Skip \/ Begin \/ OtherOffRead \/ OtherOffWrite \/ OwnOffRead \/ OwnOffWrite
           \/ Delay \/ OwnOnRead \/ OwnOnWrite \/ Done

-----------------------------------------------------------------------------
(* SYS_CMD task: actuators_actuator_set_pwm_mode and control_set_voltage *)

CmdUnchanged == UNCHANGED <<pc, ch, conv, enabled>>

\* Two of the four modes select the same converter: k may be the one in use.
SetMode(c, k) ==
    /\ cmd = Nothing
    /\ mode' = [mode EXCEPT ![c] = k]
    /\ cmd' = [what |-> "mode", c |-> c, todo |-> << >>]
    /\ CmdUnchanged /\ UNCHANGED <<reg, held, request, lost, missed>>

\* Mutant of RaiseRequest: the test of channel_enabled is the wrong way round.
RaiseRequest_Inverted ==
    /\ cmd.what = "mode"
    /\ request' = [request EXCEPT ![cmd.c] = @ \/ ~enabled[cmd.c]]
    /\ missed' = [missed EXCEPT ![cmd.c] = @ \/ (pc \in Serving /\ ch = cmd.c)]
    /\ cmd' = Nothing
    /\ CmdUnchanged /\ UNCHANGED <<reg, held, mode, lost>>

\* control_update_pwm_mode: nothing is requested for a channel not yet enabled.
RaiseRequest ==
    /\ cmd.what = "mode"
    /\ request' = [request EXCEPT ![cmd.c] = @ \/ enabled[cmd.c]]
    /\ missed' = [missed EXCEPT ![cmd.c] = @ \/ (pc \in Serving /\ ch = cmd.c)]
    /\ cmd' = Nothing
    /\ CmdUnchanged /\ UNCHANGED <<reg, held, mode, lost>>

SetVoltage(steps) ==
    /\ cmd = Nothing
    /\ cmd' = [what |-> "read", c |-> 1, todo |-> steps]
    /\ CmdUnchanged /\ UNCHANGED <<reg, held, mode, request, lost, missed>>

VoltageRead ==
    /\ cmd.what = "read"
    /\ ReadRegister("SYS_CMD")
    /\ cmd' = [cmd EXCEPT !.what = "write"]
    /\ CmdUnchanged /\ UNCHANGED <<mode, request, missed>>

VoltageWrite ==
    /\ cmd.what = "write"
    /\ WriteRegister("SYS_CMD", Head(cmd.todo).pin, Head(cmd.todo).value)
    /\ cmd' = IF Len(cmd.todo) = 1 THEN Nothing
              ELSE [cmd EXCEPT !.what = "read", !.todo = Tail(@)]
    /\ CmdUnchanged /\ UNCHANGED <<mode, request, missed>>

CmdTask == \/ \E c \in Channel, k \in Converter : SetMode(c, k)
           \/ RaiseRequest
           \/ \E steps \in VoltageCommand : SetVoltage(steps)
           \/ VoltageRead \/ VoltageWrite

-----------------------------------------------------------------------------
\* After control_init: every output low, every channel waiting to be enabled.
Init ==
    /\ reg = {} /\ held = [t \in Task |-> {}]
    /\ mode \in [Channel -> Converter]
    /\ enabled = [c \in Channel |-> FALSE] /\ request = [c \in Channel |-> TRUE]
    /\ pc = "scan" /\ ch = 1 /\ conv = "VCC"
    /\ cmd = Nothing
    /\ lost = FALSE /\ missed = [c \in Channel |-> FALSE]

Next == AppTask \/ CmdTask

\* Both tasks are scheduled: a command once begun is finished.
Fairness == WF_vars(AppTask) /\ WF_vars(RaiseRequest \/ VoltageRead \/ VoltageWrite)

Spec == Init /\ [][Next]_vars /\ Fairness

-----------------------------------------------------------------------------
(* Properties *)

\* Every variable holds a value of its kind.
TypeOK ==
    /\ reg \in SUBSET Pin /\ held \in [Task -> SUBSET Pin]
    /\ mode \in [Channel -> Converter]
    /\ enabled \in [Channel -> BOOLEAN] /\ request \in [Channel -> BOOLEAN]
    /\ pc \in {"scan"} \cup Serving /\ ch \in Channel /\ conv \in Converter
    /\ cmd \in [what : {"none", "mode", "read", "write"}, c : Channel, todo : Seq(VoltageStep)]
    /\ cmd.what \in {"read", "write"} => cmd.todo # << >>
    /\ lost \in BOOLEAN /\ missed \in [Channel -> BOOLEAN]

\* The two converters of a channel are never on together, as long as no task
\* has overwritten the other's change of the expander register (the order of
\* the calls in control_output_enable, control.c:216-269).
Exclusive == ~lost => \A c \in Channel : On(c) # Converter

\* While an output that was on waits out the protection delay both of its
\* converters are off, under the same condition (control.c:224-229).
DelayIsOff == ~lost /\ pc \in {"delay", "own_on", "own_on_w"} => On(ch) = {}

\* Between two runs of the enable task a channel that nothing is pending for
\* has exactly the converter its mode selects on, unless the mode changed
\* while the channel was being switched: the request is then withdrawn with
\* the one being served, or never raised (control.c:31-38, 84-88).
FollowsMode ==
    \A c \in Channel :
        ~lost /\ ~missed[c] /\ enabled[c] /\ ~request[c] /\ ~(cmd.what = "mode" /\ cmd.c = c)
        /\ ~(pc \in Serving /\ ch = c)
            => On(c) = {mode[c]}

\* Every raised request is taken up and withdrawn: a delay of six seconds on
\* one channel holds up the other, it does not starve it.
RequestServed == \A c \in Channel : request[c] ~> ~request[c]

=============================================================================
