--------------------------- MODULE EventCommands ---------------------------
(***************************************************************************)
(* Events and the commands of their policies (src/resources/event.c), as   *)
(* both tasks execute them: SYS_CMD for requests and buttons, APP for the  *)
(* sensor.  The text of a policy and the place that strtok has come to in  *)
(* it are shared by the tasks; the comparison of clusters uses strtok too. *)
(***************************************************************************)
EXTENDS DimControl, Sequences

CONSTANTS Stored,      \* pairs of the channels in an AT mode and in ELS mode, as loaded
          SensorEvent, RequestEvent,  \* the events of the two tasks: policy and cluster
          PutLevel,    \* dim values that a request may carry, up to 255
          MaxRequests  \* bound: requests, events and losses of power in a behaviour

ASSUME StoredAssumption == Stored \subseteq (SUBSET Channel) \X (SUBSET Channel)
ASSUME RequestAssumption == PutLevel \subseteq Nat /\ MaxRequests \in Nat

\* A command: its name, channel (0 for both), dim value or step, duration in
\* minutes, and the value to take when that is over.
Command(f, c, v, d, after) == [f |-> f, c |-> c, v |-> v, d |-> d, after |-> after]

\* A cluster: the channels it matches, and those of them that have the very same
\* name (or that a broadcast reaches), which are found without strtok.
Cluster(match, same) == [match |-> match, same |-> same]

\* What the commands and the events are made of: the default value is a byte, and
\* numbers are as atoi has left them.  A special event has a text of its own.
Special == {"fl", "attune"}
Name == {"F0", "F1", "F2", "F3", "F9", "F10", "fl", "attune", "none"}
CommandType == [f : Name, c : Nat, v : Nat, d : Int, after : 0 .. 255]
EventType ==
    {e \in [policy : Seq(CommandType), cluster : [match : SUBSET Channel, same : SUBSET Channel]] :
        /\ e.cluster.same \subseteq e.cluster.match
        /\ (\E n \in DOMAIN e.policy : e.policy[n].f \in Special) => Len(e.policy) = 1}

ASSUME EventAssumption == SensorEvent \subseteq EventType /\ RequestEvent \subseteq EventType

VARIABLES
    event,     \* the event each task executes, or has executed last
    left,      \* the commands of its policy that strtok has not passed
    cmd,       \* the command each task executes
    nested,    \* its comparison of clusters has used strtok
    mixed,     \* the other task has used strtok
    requests,  \* requests, events and losses of power so far
    base,      \* dim values when the event began
    alone      \* nobody else has set one, or coupled the channels, since

eventVars == <<event, left, cmd, nested, mixed, requests, base, alone>>
vars == <<dimVars, eventVars>>

Other(t) == CHOOSE u \in Task : u # t
\* The events that task t may get.
Event(t) == IF t = APP THEN SensorEvent ELSE RequestEvent

Executing(t) == pc[t] \in {"parse", "loop", "duration", "default"}

\* Task t uses strtok: the place of the other one in its policy is lost.
UsesStrtok(t) == [u \in Task |-> mixed[u] \/ (u # t /\ Executing(u))]

Commands(t) == {event[t].policy[k] : k \in DOMAIN event[t].policy}

\* What a task may read behind a lost place: names and numbers of both policies.
Mixture(t) ==
    LET both == Commands(t) \cup Commands(Other(t))
        own == {k.f : k \in Commands(t)}
        names == IF own \subseteq Special THEN own ELSE {k.f : k \in both} \ Special IN
    {Command(f, a.c, b.v, x.d, x.after) : f \in names, a \in both, b \in both, x \in both}

NoCommand == Command("none", 0, 0, 0, 0)
NoValues == [c \in Channel |-> 0]

-----------------------------------------------------------------------------
(* event_execute *)

\* An event that matches no channel is dropped when the clusters were compared.
Begin(t, e) ==
    /\ pc[t] = "rest" /\ ~Setting(t) /\ requests < MaxRequests
    /\ requests' = requests + 1
    /\ mixed' = [UsesStrtok(t) EXCEPT ![t] = FALSE]
    /\ IF e.cluster.match = {}
       THEN UNCHANGED <<pc, i, event, left, nested, base, alone>>
       ELSE /\ Goto(t, "parse", 1)
            /\ event' = [event EXCEPT ![t] = e]
            /\ left' = [left EXCEPT ![t] = e.policy]
            /\ nested' = [nested EXCEPT ![t] = FALSE]
            /\ base' = [base EXCEPT ![t] = dim_values]
            /\ alone' = [alone EXCEPT ![t] = ~Setting(Other(t))]
    /\ UNCHANGED <<modes, dim_values, lamp, call, durations, emergency, history, cmd>>

\* The task has done with its event: APP goes on with its round.
Done(t) ==
    /\ Goto(t, IF t = APP THEN "poe" ELSE "rest", 1)
    /\ nested' = [nested EXCEPT ![t] = FALSE]
    /\ base' = [base EXCEPT ![t] = NoValues] /\ alone' = [alone EXCEPT ![t] = FALSE]

\* Task t is about to ask strtok for the next command.
Parsing(t) == pc[t] = "parse" /\ ~Setting(t)

\* Nothing is left, or the place in the text was lost.
Ends(t) ==
    /\ Parsing(t)
    /\ left[t] = <<>> \/ nested[t] \/ mixed[t]
    /\ Done(t)
    /\ left' = [left EXCEPT ![t] = <<>>]
    /\ mixed' = [UsesStrtok(t) EXCEPT ![t] = FALSE]
    /\ UNCHANGED <<modes, dim_values, lamp, call, durations, emergency, history,
                   event, cmd, requests>>

\* The next command: that of the policy, or what is read at a lost place.
NextCommand(t) ==
    IF ~mixed[t] THEN IF left[t] = <<>> \/ nested[t] THEN {} ELSE {Head(left[t])}
    ELSE IF \E u \in Task : left[u] # <<>> THEN Mixture(t) ELSE {}

\* strtok passes it; reading on in the text of another shortens both.
Takes(t, k) ==
    /\ left' = [u \in Task |-> IF left[u] # <<>> /\ (u = t \/ mixed[t]) THEN Tail(left[u]) ELSE left[u]]
    /\ mixed' = UsesStrtok(t)

-----------------------------------------------------------------------------
(* Commands that set dim values: F0, F1, F2, F3, and the event fl *)

\* Its parameters are read; the loop over the channels begins.
TakeDim(t, k) ==
    /\ Takes(t, k) /\ k.f \in {"F0", "F1", "F2", "F3", "fl"}
    /\ Goto(t, "loop", 1) /\ cmd' = [cmd EXCEPT ![t] = k]
    /\ UNCHANGED <<modes, dim_values, lamp, call, durations, emergency, history,
                   event, nested, requests, base, alone>>

\* The dim value that k leads to from v; F0, F1 and fl may leave it.
Level(k, v) ==
    IF k.f = "F2" THEN Least(DIM_MAX, v + k.v)
    ELSE IF k.f = "F3" THEN Most(0, v - k.v)
    ELSE IF k.v < DIM_NO_CHANGE THEN k.v ELSE v

Sets(k) == k.f \in {"F2", "F3"} \/ k.v < DIM_NO_CHANGE

\* Mutant of Loop: the channel of the command is not looked at.
Loop_AnyChannel(t, c) ==
    LET k == cmd[t]  cluster == event[t].cluster IN
    /\ pc[t] = "loop" /\ ~Setting(t) /\ i[t] = c
    /\ nested' = [nested EXCEPT ![t] = nested[t] \/ c \notin cluster.same]
    /\ mixed' = IF c \in cluster.same THEN mixed ELSE UsesStrtok(t)
    /\ IF c \in cluster.match
       THEN /\ IF Sets(k) THEN CallSetDim(t, c, Level(k, dim_values[c])) ELSE UNCHANGED call
            /\ IF k.f = "fl" THEN Goto(t, "loop", c + 1) ELSE Goto(t, "duration", c)
       ELSE Goto(t, "loop", c + 1) /\ UNCHANGED call
    /\ UNCHANGED <<modes, dim_values, lamp, durations, emergency, history,
                   event, left, cmd, requests, base, alone>>

\* Channel c: its cluster is compared, its dim value computed and set.
Loop(t, c) ==
    LET k == cmd[t]  cluster == event[t].cluster IN
    /\ pc[t] = "loop" /\ ~Setting(t) /\ i[t] = c
    /\ nested' = [nested EXCEPT ![t] = nested[t] \/ c \notin cluster.same]
    /\ mixed' = IF c \in cluster.same THEN mixed ELSE UsesStrtok(t)
    /\ IF c \in cluster.match /\ k.c \in {0, c}
       THEN /\ IF Sets(k) THEN CallSetDim(t, c, Level(k, dim_values[c])) ELSE UNCHANGED call
            /\ IF k.f = "fl" THEN Goto(t, "loop", c + 1) ELSE Goto(t, "duration", c)
       ELSE Goto(t, "loop", c + 1) /\ UNCHANGED call
    /\ UNCHANGED <<modes, dim_values, lamp, durations, emergency, history,
                   event, left, cmd, requests, base, alone>>

LoopDone(t) ==
    /\ pc[t] = "loop" /\ ~Setting(t) /\ i[t] = 3
    /\ Goto(t, "parse", 1) /\ cmd' = [cmd EXCEPT ![t] = NoCommand]
    /\ UNCHANGED <<modes, dim_values, lamp, call, durations, emergency, history,
                   event, left, nested, mixed, requests, base, alone>>

\* control_set_dim_duration: first the duration ...
SetDuration(t, c) ==
    /\ pc[t] = "duration" /\ ~Setting(t) /\ i[t] = c
    /\ Goto(t, "default", c)
    /\ dim_duration' = [dim_duration EXCEPT ![c] =
                           IF cmd[t].f = "F1" THEN cmd[t].d ELSE DIM_DURATION_DISABLED]
    /\ raced' = raced \cup {d \in {c} : InDuration(Other(t), d)}
    /\ UNCHANGED <<modes, dim_values, lamp, call, dim_default, dim_duration_seconds,
                   dim_duration_task_counter, held, emergency, torn, asked, counted, before,
                   eventVars>>

\* ... then the default.  The seconds counted so far stay.  Commands other than
\* F1 cancel what was asked for.
SetDefault(t, c) ==
    /\ pc[t] = "default" /\ i[t] = c
    /\ Goto(t, "loop", c + 1)
    /\ dim_default' = [dim_default EXCEPT ![c] =
                          IF cmd[t].f = "F1" THEN cmd[t].after ELSE DIM_NO_CHANGE]
    /\ asked' = [asked EXCEPT ![c] =
                    IF cmd[t].f = "F1" /\ cmd[t].d >= 0 /\ cmd[t].after < DIM_NO_CHANGE
                    THEN cmd[t].d ELSE NONE]
    /\ counted' = [counted EXCEPT ![c] = 0]
    /\ UNCHANGED <<modes, dim_values, lamp, call, dim_duration, dim_duration_seconds,
                   dim_duration_task_counter, held, emergency, torn, raced, before, eventVars>>

-----------------------------------------------------------------------------
(* Commands that set the colour of both channels: F9, F10, F11, attune *)

\* The clusters are compared before the parameters are read: these are lost if
\* strtok was used for it.
Lost(t) == event[t].cluster.same # Channel

\* The policy ends here if a channel does not match or the parameters are lost.
TakeColour(t, k) ==
    /\ Takes(t, k) /\ k.f \in {"F9", "F10"}
    /\ IF event[t].cluster.match # Channel \/ Lost(t)
       THEN Done(t) /\ UNCHANGED <<call, torn>>
       ELSE CallSetAt(t) /\ UNCHANGED <<pc, i, nested, base, alone>>
    /\ UNCHANGED <<modes, dim_values, lamp, durations, emergency, raced, asked, counted, before,
                   event, cmd, requests>>

\* The dim value of attune, behind the colour, is read after the comparison.
TakeAttune(t, k) ==
    /\ Takes(t, k) /\ k.f = "attune"
    /\ Lost(t) \/ k.v >= DIM_NO_CHANGE \/ event[t].cluster.match # Channel \/ \E c \in Channel : ~is_at[c]
    /\ IF event[t].cluster.match # Channel \/ \E c \in Channel : ~is_at[c]
       THEN Done(t) /\ UNCHANGED <<call, torn>>
       ELSE CallSetAt(t) /\ UNCHANGED <<pc, i, nested, base, alone>>
    /\ UNCHANGED <<modes, dim_values, lamp, durations, emergency, raced, asked, counted, before,
                   event, cmd, requests>>

\* A NULL string is compared, by F9 whose parameters were lost and by attune with
\* its channel 0: the access traps, and the node stands until the watchdog resets
\* it, which begins a new behaviour.
Trap(t, k) ==
    /\ event[t].cluster.match = Channel
    /\ \/ k.f = "F9" /\ Lost(t)
       \/ k.f = "attune" /\ ~Lost(t) /\ k.v < DIM_NO_CHANGE /\ \A c \in Channel : is_at[c]
    /\ pc' = [u \in Task |-> "halted"]
    /\ UNCHANGED <<i, modes, dim_values, lamp, call, durations, emergency, history, eventVars>>

-----------------------------------------------------------------------------
(* Everything else that the tasks do *)

\* A step of the dim values that the task of an event does not see but the
\* value it sets.
SetsValue(t) ==
    /\ SetValue(t)
    /\ alone' = [alone EXCEPT ![Other(t)] = FALSE]
    /\ UNCHANGED <<event, left, cmd, nested, mixed, requests, base>>

\* The address of a note is parsed with strtok as well.
Note(t) ==
    /\ pc[t] = "rest" /\ ~Setting(t) /\ Executing(Other(t))
    /\ requests < MaxRequests /\ requests' = requests + 1
    /\ mixed' = UsesStrtok(t)
    /\ UNCHANGED <<dimVars, event, left, cmd, nested, base, alone>>

Put ==
    /\ requests < MaxRequests /\ requests' = requests + 1
    /\ \E c \in Channel :
          \/ \E v \in PutLevel \cup {dim_values[c]} : PutDim(c, v)
          \/ PutPwmMode(c) \/ PutMode(c)
    /\ alone' = [alone EXCEPT ![APP] = alone[APP] /\ is_at' = is_at]
    /\ UNCHANGED <<event, left, cmd, nested, mixed, base>>

Execute(t) ==
    \/ Ends(t) \/ LoopDone(t)
    \/ \E c \in Channel : Loop(t, c) \/ SetDuration(t, c) \/ SetDefault(t, c)
    \/ /\ Parsing(t)
       /\ \E k \in NextCommand(t) : TakeDim(t, k) \/ TakeColour(t, k) \/ TakeAttune(t, k) \/ Trap(t, k)

TaskStep(t) ==
    \/ Execute(t)
    \/ SetsValue(t)
    \/ SetLamp(t) /\ UNCHANGED eventVars

Loss ==
    /\ requests < MaxRequests /\ requests' = requests + 1
    /\ LosePower
    /\ UNCHANGED <<event, left, cmd, nested, mixed, base, alone>>

AppRound == AppStep /\ UNCHANGED eventVars

\* No event has been executed yet.
Idle ==
    /\ event = [t \in Task |-> [policy |-> <<>>, cluster |-> Cluster({}, {})]]
    /\ left = [t \in Task |-> <<>>]
    /\ cmd = [t \in Task |-> NoCommand]
    /\ nested = [t \in Task |-> FALSE] /\ mixed = [t \in Task |-> FALSE]
    /\ base = [t \in Task |-> NoValues] /\ alone = [t \in Task |-> FALSE]

Init ==
    /\ \E s \in Stored : /\ is_at = [c \in Channel |-> c \in s[1]]
                         /\ is_els = [c \in Channel |-> c \in s[2]]
    /\ Started /\ Idle /\ requests = 0

Next ==
    \/ AppRound \/ Loss \/ Put
    \/ \E t \in Task : TaskStep(t) \/ Note(t) \/ \E e \in Event(t) : Begin(t, e)

Spec == Init /\ [][Next]_vars

-----------------------------------------------------------------------------
(* Properties *)

\* Every variable holds a value of its kind: no loop passes the last channel,
\* no value set is below zero, and the seconds stay below a minute.
TypeOK ==
    /\ pc \in [Task -> {"rest", "poe", "save", "restore", "count", "second", "minute", "check",
                        "expire", "parse", "loop", "duration", "default", "halted"}]
    /\ i \in [Task -> 1 .. 3]
    /\ is_at \in [Channel -> BOOLEAN] /\ is_els \in [Channel -> BOOLEAN]
    /\ dim_values \in [Channel -> Nat] /\ lamp \in [Channel -> 0 .. DIM_MAX]
    /\ setting \in [Task -> {"no", "value", "lamp"}]
    /\ channel \in [Task -> Channel] /\ new_value \in [Task -> Nat]
    /\ dim_duration \in [Channel -> Int] /\ dim_default \in [Channel -> Nat]
    /\ dim_duration_seconds \in [Channel -> 0 .. MINUTE - 1]
    /\ dim_duration_task_counter \in 0 .. CALLS - 1 /\ held \in Nat
    /\ external_power_running \in BOOLEAN /\ dim_save \in [Channel -> Nat]

\* The outputs show the dim values that the node reports, but while a task is
\* in control_set_dim_value, and unless two of them met there, the mode changed
\* under one, or a colour was set with different dim values of coupled channels
\* (control.c:93-113, pwm.c:105-124).
OutputsFollow ==
    ~torn => \A c \in Channel :
                 \/ lamp[c] = Limited(dim_values[c])
                 \/ \E t \in Task : setting[t] = "lamp" /\ c \in Reached(channel[t])

\* A default is set at the end of the last duration asked for: at its last full
\* minute, neither earlier nor later, once, and never after a command that
\* cancels it; unless both tasks were at the duration of the channel at once
\* (control.c:40-60, 124-127, event.c:101-102, 123-124).
FiresOnTime ==
    pc[APP] # "halted" => \A c \in Channel \ raced :
        /\ pc[APP] = "expire" /\ i[APP] = c => asked[c] # NONE /\ counted[c] = Most(1, asked[c])
        /\ asked[c] # NONE =>
               \/ counted[c] < Most(1, asked[c])
               \/ pc[APP] \in {"check", "expire"} /\ i[APP] = c

\* A loss of power that nothing else happened in leaves the dim values as they
\* were, if the channels are not coupled (sense.c:106-131).
OutageUndone ==
    ~external_power_running /\ pc[APP] \notin {"restore", "halted"} =>
        \A c \in Channel : before[c] = NONE \/ dim_values[c] = before[c]

\* What a command makes of the dim value v of channel c.
Effect(k, c, v) ==
    IF k.f \in {"F0", "F1", "F2", "F3", "fl"} /\ k.c \in {0, c} THEN Level(k, v) ELSE v

\* What the commands of a policy make of it one after the other, by their number.
Results(policy, c, v) ==
    LET after[n \in 0 .. Len(policy)] ==
            IF n = 0 THEN v ELSE Effect(policy[n], c, after[n - 1])
    IN after
Result(policy, c, v) == Results(policy, c, v)[Len(policy)]

\* An event has set, when it is done, the dim values that its commands ask for
\* one after the other, on the channels of its cluster; unless strtok was used
\* meanwhile by the comparison of clusters or by the other task, somebody else
\* has set a value, or the channels are coupled (event.c:69-304, 377-418).
EffectOfAll ==
    [][\A t \in Task :
          /\ pc[t] = "parse" /\ pc'[t] \in {"rest", "poe"}
          /\ alone[t] /\ ~mixed[t] /\ (left[t] = <<>> \/ ~Lost(t)) /\ \A c \in Channel : ~is_at[c]
          => \A c \in Channel :
                 dim_values[c] = IF c \in event[t].cluster.match
                                 THEN Result(event[t].policy, c, base[t][c]) ELSE base[t][c]]_vars

=============================================================================
