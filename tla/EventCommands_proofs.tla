------------------------ MODULE EventCommands_proofs ------------------------
(***************************************************************************)
(* Proofs about EventCommands for any dim values, lengths of a minute and  *)
(* events: the outputs show the dim values, a default is set at the end of *)
(* its duration, a loss of power leaves the dim values as they were, and   *)
(* an event sets the dim values that its commands ask for.                 *)
(***************************************************************************)
EXTENDS EventCommands, WellFoundedInduction, TLAPS

\* The variables that TypeOK leaves out.
Kinds ==
    /\ event \in [Task -> EventType] /\ left \in [Task -> Seq(CommandType)]
    /\ cmd \in [Task -> CommandType]
    /\ torn \in BOOLEAN /\ raced \subseteq Channel
    /\ asked \in [Channel -> Int] /\ counted \in [Channel -> Nat]
    /\ before \in [Channel -> Int]

\* The APP task does nothing else while it is in control_set_dim_value.
Waits ==
    Setting(APP) => pc[APP] \in {"save", "restore", "expire", "parse", "loop", "duration", "halted"}

\* Where the tasks are in the duration of channel c.
AtDefault(t, c) == pc[t] = "default" /\ i[t] = c
AtMinute(c) == pc[APP] = "minute" /\ i[APP] = c
AtCheck(c) == pc[APP] = "check" /\ i[APP] = c
AtExpire(c) == pc[APP] = "expire" /\ i[APP] = c

\* At most one task is in the duration of an unraced channel at a time.
Alone(c) == ~(InDuration(APP, c) /\ InDuration(SYS_CMD, c))

\* A task that has set the duration, and not yet the default, has set that of its command.
Given(t, c) == AtDefault(t, c) =>
    dim_duration[c] = IF cmd[t].f = "F1" THEN cmd[t].d ELSE DIM_DURATION_DISABLED

\* A duration asked for is not over, unless the APP task is about to notice.
Pending(c) == asked[c] # NONE =>
    /\ asked[c] >= 0 /\ counted[c] <= Most(1, asked[c])
    /\ counted[c] < Most(1, asked[c]) \/ AtCheck(c) \/ AtExpire(c)

\* What the variables hold agrees with what was asked for and counted since.
Account(c) ==
    \/ \E t \in Task : AtDefault(t, c)
    \/ asked[c] = NONE /\ (dim_duration[c] < 0 \/ dim_default[c] >= DIM_NO_CHANGE)
    \/ asked[c] # NONE /\ dim_default[c] < DIM_NO_CHANGE /\ dim_duration[c] = Most(0, asked[c] - counted[c])

\* The APP task goes on with the duration it has read.
Serving(c) ==
    /\ AtMinute(c) => held = dim_duration[c] /\ held >= 0
    /\ AtCheck(c) /\ asked[c] # NONE => counted[c] >= 1
    /\ AtExpire(c) => asked[c] # NONE /\ counted[c] = Most(1, asked[c])

Durations == pc[APP] # "halted" => \A c \in Channel \ raced :
    Alone(c) /\ (\A t \in Task : Given(t, c)) /\ Pending(c) /\ Account(c) /\ Serving(c)


\* Whether the voltage is gone goes with the loop that the APP task is in; what it
\* sets there is the value of a channel that the loop has passed.
Direction ==
    /\ pc[APP] = "save" => external_power_running
    /\ pc[APP] = "restore" => ~external_power_running
    /\ pc[APP] \in {"save", "restore"} /\ setting[APP] = "value" => channel[APP] < i[APP]

\* The value before the loss is kept for the channel.
Kept(c) == IF is_els[c] THEN dim_save[c] = before[c] ELSE dim_values[c] = before[c]

\* The APP task is about to set the value of the channel.
AboutToSet(c) == setting[APP] = "value" /\ channel[APP] = c

\* A channel nobody has touched since the loss: what it had is its dim value, or was
\* saved, or is about to be set again.
OutageOf(c) ==
    /\ \A d \in Channel : ~is_at[d]
    /\ pc[APP] = "save" /\ AboutToSet(c) => is_els[c]
    /\ pc[APP] = "save" => IF i[APP] > c THEN Kept(c) ELSE dim_values[c] = before[c]
    /\ pc[APP] = "restore" => \/ i[APP] <= c /\ Kept(c)
                              \/ /\ i[APP] > c
                                 /\ IF AboutToSet(c) THEN new_value[APP] = before[c]
                                    ELSE dim_values[c] = before[c]
    /\ pc[APP] \notin {"save", "restore"} =>
           IF external_power_running THEN Kept(c) ELSE dim_values[c] = before[c]

Outage == pc[APP] # "halted" => Direction /\ \A c \in Channel : before[c] # NONE => OutageOf(c)

LEMMA Tasks == /\ APP \in Task /\ SYS_CMD \in Task /\ APP # SYS_CMD
               /\ \A t \in Task : t = APP \/ t = SYS_CMD
               /\ \A t \in Task : Other(t) \in Task /\ Other(t) # t
<1>1. /\ APP \in Task /\ SYS_CMD \in Task /\ APP # SYS_CMD
      /\ \A t \in Task : t = APP \/ t = SYS_CMD
  BY DEF Task, APP, SYS_CMD
<1>2. ASSUME NEW t \in Task PROVE Other(t) \in Task /\ Other(t) # t
  <2>1. \E u \in Task : u # t
    BY <1>1
  <2> QED
    BY <2>1 DEF Other
<1> QED
  BY <1>1, <1>2

LEMMA Channels == 1 \in Channel /\ 2 \in Channel /\ 3 \notin Channel
                  /\ (\A c \in Channel : c \in 1 .. 3 /\ c + 1 \in 1 .. 3)
  BY DEF Channel

\* TypeOK in parts, as the actions change it.
Places ==
    /\ pc \in [Task -> {"rest", "poe", "save", "restore", "count", "second", "minute", "check",
                        "expire", "parse", "loop", "duration", "default", "halted"}]
    /\ i \in [Task -> 1 .. 3]

Modes == is_at \in [Channel -> BOOLEAN] /\ is_els \in [Channel -> BOOLEAN]

Values ==
    /\ dim_values \in [Channel -> Nat] /\ lamp \in [Channel -> 0 .. DIM_MAX]
    /\ setting \in [Task -> {"no", "value", "lamp"}]
    /\ channel \in [Task -> Channel] /\ new_value \in [Task -> Nat]
    /\ external_power_running \in BOOLEAN /\ dim_save \in [Channel -> Nat]

Timers ==
    /\ dim_duration \in [Channel -> Int] /\ dim_default \in [Channel -> Nat]
    /\ dim_duration_seconds \in [Channel -> 0 .. MINUTE - 1]
    /\ dim_duration_task_counter \in 0 .. CALLS - 1 /\ held \in Nat

LEMMA Parts == TypeOK <=> Places /\ Modes /\ Values /\ Timers
  BY DEF TypeOK, Places, Modes, Values, Timers

Types == Places /\ Modes /\ Values /\ Timers /\ Kinds

LEMMA Fields ==
    /\ NoCommand \in CommandType
    /\ \A k \in CommandType : k.v \in Nat /\ k.d \in Int /\ k.after \in Nat
<1>1. NoCommand = [f |-> "none", c |-> 0, v |-> 0, d |-> 0, after |-> 0]
  BY DEF NoCommand, Command
<1>2. NoCommand \in CommandType
  BY <1>1 DEF CommandType, Name
<1> QED
  BY <1>2 DEF CommandType

LEMMA LevelIsNat ==
    ASSUME NEW k \in CommandType, NEW v \in Nat
    PROVE  Level(k, v) \in Nat
<1>1. k.v \in Nat
  BY Fields
<1>2. DIM_MAX \in Nat
  BY DimAssumption
<1>3. Least(DIM_MAX, v + k.v) \in Nat
  BY <1>1, <1>2 DEF Least
<1>4. Most(0, v - k.v) \in Nat
  BY <1>1 DEF Most
<1> QED
  BY <1>1, <1>3, <1>4, Zenon DEF Level

-----------------------------------------------------------------------------
(* Every action keeps the variables in their kinds *)

LEMMA ResumePowerKeepsTypes ==
    ASSUME Types, ResumePower, UNCHANGED eventVars
    PROVE  Types'
<1> USE Tasks, Channels, DimAssumption, TimeAssumption DEF Types
<1>1. UNCHANGED <<is_at, is_els, dim_values, lamp, setting, channel, new_value, dim_save,
            dim_duration, dim_default, dim_duration_seconds, dim_duration_task_counter,
            held, event, left, cmd, torn, raced, asked, counted, before>>
  BY DEF ResumePower, modes, call, durations, emergency, history, dimVars, eventVars
<1>2. pc' \in [Task -> {"rest", "poe", "save", "restore", "count", "second", "minute", "check",
              "expire", "parse", "loop", "duration", "default", "halted"}]
  BY DEF Places, ResumePower, Goto
<1>3. i' \in [Task -> 1 .. 3]
  BY DEF Places, ResumePower, Goto
<1>4. external_power_running' \in BOOLEAN
  BY DEF Values, ResumePower
<1> QED
  BY <1>1, <1>2, <1>3, <1>4 DEF Places, Modes, Values, Timers, Kinds

LEMMA SamePowerKeepsTypes ==
    ASSUME Types, SamePower, UNCHANGED eventVars
    PROVE  Types'
<1> USE Tasks, Channels, DimAssumption, TimeAssumption DEF Types
<1>1. UNCHANGED <<is_at, is_els, dim_values, lamp, setting, channel, new_value,
            external_power_running, dim_save, dim_duration, dim_default,
            dim_duration_seconds, dim_duration_task_counter, held, event, left, cmd,
            torn, raced, asked, counted, before>>
  BY DEF SamePower, modes, call, durations, emergency, history, dimVars, eventVars
<1>2. pc' \in [Task -> {"rest", "poe", "save", "restore", "count", "second", "minute", "check",
              "expire", "parse", "loop", "duration", "default", "halted"}]
  BY DEF Places, SamePower, Goto
<1>3. i' \in [Task -> 1 .. 3]
  BY DEF Places, SamePower, Goto
<1> QED
  BY <1>1, <1>2, <1>3 DEF Places, Modes, Values, Timers, Kinds

LEMMA PowerDoneKeepsTypes ==
    ASSUME Types, PowerDone, UNCHANGED eventVars
    PROVE  Types'
<1> USE Tasks, Channels, DimAssumption, TimeAssumption DEF Types
<1>1. UNCHANGED <<is_at, is_els, dim_values, lamp, setting, channel, new_value,
            external_power_running, dim_save, dim_duration, dim_default,
            dim_duration_seconds, dim_duration_task_counter, held, event, left, cmd,
            torn, raced, asked, counted, before>>
  BY DEF PowerDone, modes, call, durations, emergency, history, dimVars, eventVars
<1>2. pc' \in [Task -> {"rest", "poe", "save", "restore", "count", "second", "minute", "check",
              "expire", "parse", "loop", "duration", "default", "halted"}]
  BY DEF Places, PowerDone, Goto
<1>3. i' \in [Task -> 1 .. 3]
  BY DEF Places, PowerDone, Goto
<1> QED
  BY <1>1, <1>2, <1>3 DEF Places, Modes, Values, Timers, Kinds

LEMMA CountKeepsTypes ==
    ASSUME Types, Count, UNCHANGED eventVars
    PROVE  Types'
<1> USE Tasks, Channels, DimAssumption, TimeAssumption DEF Types
<1>1. UNCHANGED <<is_at, is_els, dim_values, lamp, setting, channel, new_value,
            external_power_running, dim_save, dim_duration, dim_default,
            dim_duration_seconds, held, event, left, cmd, torn, raced, asked, counted,
            before>>
  BY DEF Count, modes, call, durations, emergency, history, dimVars, eventVars
<1>2. pc' \in [Task -> {"rest", "poe", "save", "restore", "count", "second", "minute", "check",
              "expire", "parse", "loop", "duration", "default", "halted"}]
  BY DEF Places, Count, Goto
<1>3. i' \in [Task -> 1 .. 3]
  BY DEF Places, Count, Goto
<1>4. dim_duration_task_counter' \in 0 .. CALLS - 1
  BY DEF Timers, Count
<1> QED
  BY <1>1, <1>2, <1>3, <1>4 DEF Places, Modes, Values, Timers, Kinds

LEMMA RoundDoneKeepsTypes ==
    ASSUME Types, RoundDone, UNCHANGED eventVars
    PROVE  Types'
<1> USE Tasks, Channels, DimAssumption, TimeAssumption DEF Types
<1>1. UNCHANGED <<is_at, is_els, dim_values, lamp, setting, channel, new_value,
            external_power_running, dim_save, dim_duration, dim_default,
            dim_duration_seconds, dim_duration_task_counter, held, event, left, cmd,
            torn, raced, asked, counted, before>>
  BY DEF RoundDone, modes, call, durations, emergency, history, dimVars, eventVars
<1>2. pc' \in [Task -> {"rest", "poe", "save", "restore", "count", "second", "minute", "check",
              "expire", "parse", "loop", "duration", "default", "halted"}]
  BY DEF Places, RoundDone, Goto
<1>3. i' \in [Task -> 1 .. 3]
  BY DEF Places, RoundDone, Goto
<1> QED
  BY <1>1, <1>2, <1>3 DEF Places, Modes, Values, Timers, Kinds

LEMMA SaveKeepsTypes ==
    ASSUME NEW c \in Channel, Types, Save(c), UNCHANGED eventVars
    PROVE  Types'
<1> USE Tasks, Channels, DimAssumption, TimeAssumption DEF Types
<1>1. UNCHANGED <<is_at, is_els, dim_values, lamp, external_power_running, dim_duration,
            dim_default, dim_duration_seconds, dim_duration_task_counter, held, event,
            left, cmd, torn, raced, asked, counted, before>>
  BY DEF Save, modes, call, durations, emergency, history, dimVars, eventVars
<1>2. pc' \in [Task -> {"rest", "poe", "save", "restore", "count", "second", "minute", "check",
              "expire", "parse", "loop", "duration", "default", "halted"}]
  BY DEF Places, Save, Goto
<1>3. i' \in [Task -> 1 .. 3]
  BY DEF Places, Save, Goto
<1>4. setting' \in [Task -> {"no", "value", "lamp"}]
  BY DEF Values, Save, CallSetDim, call
<1>5. channel' \in [Task -> Channel]
  BY DEF Values, Save, CallSetDim, call
<1>6. new_value' \in [Task -> Nat]
  BY DEF Values, Save, CallSetDim, call
<1>7. dim_save' \in [Channel -> Nat]
  BY DEF Values, Save
<1> QED
  BY <1>1, <1>2, <1>3, <1>4, <1>5, <1>6, <1>7 DEF Places, Modes, Values, Timers, Kinds

LEMMA RestoreKeepsTypes ==
    ASSUME NEW c \in Channel, Types, Restore(c), UNCHANGED eventVars
    PROVE  Types'
<1> USE Tasks, Channels, DimAssumption, TimeAssumption DEF Types
<1>1. UNCHANGED <<is_at, is_els, dim_values, lamp, external_power_running, dim_save,
            dim_duration, dim_default, dim_duration_seconds, dim_duration_task_counter,
            held, event, left, cmd, torn, raced, asked, counted, before>>
  BY DEF Restore, modes, call, durations, emergency, history, dimVars, eventVars
<1>2. pc' \in [Task -> {"rest", "poe", "save", "restore", "count", "second", "minute", "check",
              "expire", "parse", "loop", "duration", "default", "halted"}]
  BY DEF Places, Restore, Goto
<1>3. i' \in [Task -> 1 .. 3]
  BY DEF Places, Restore, Goto
<1>4. setting' \in [Task -> {"no", "value", "lamp"}]
  BY DEF Values, Restore, CallSetDim, call
<1>5. channel' \in [Task -> Channel]
  BY DEF Values, Restore, CallSetDim, call
<1>6. new_value' \in [Task -> Nat]
  BY DEF Values, Restore, CallSetDim, call
<1> QED
  BY <1>1, <1>2, <1>3, <1>4, <1>5, <1>6 DEF Places, Modes, Values, Timers, Kinds

LEMMA SecondKeepsTypes ==
    ASSUME NEW c \in Channel, Types, Second(c), UNCHANGED eventVars
    PROVE  Types'
<1> USE Tasks, Channels, DimAssumption, TimeAssumption DEF Types
<1>1. UNCHANGED <<is_at, is_els, dim_values, lamp, setting, channel, new_value,
            external_power_running, dim_save, dim_duration, dim_default,
            dim_duration_task_counter, event, left, cmd, torn, asked, counted, before>>
  BY DEF Second, modes, call, durations, emergency, history, dimVars, eventVars
<1>2. pc' \in [Task -> {"rest", "poe", "save", "restore", "count", "second", "minute", "check",
              "expire", "parse", "loop", "duration", "default", "halted"}]
  BY DEF Places, Second, Goto
<1>3. i' \in [Task -> 1 .. 3]
  BY DEF Places, Second, Goto
<1>4. dim_duration_seconds' \in [Channel -> 0 .. MINUTE - 1]
  BY DEF Timers, Second
<1>5. held' \in Nat
  BY DEF Timers, Second
<1>6. raced' \in SUBSET Channel
  BY DEF Kinds, Second
<1> QED
  BY <1>1, <1>2, <1>3, <1>4, <1>5, <1>6 DEF Places, Modes, Values, Timers, Kinds

LEMMA MinuteKeepsTypes ==
    ASSUME NEW c \in Channel, Types, Minute(c), UNCHANGED eventVars
    PROVE  Types'
<1> USE Tasks, Channels, DimAssumption, TimeAssumption DEF Types
<1>1. UNCHANGED <<is_at, is_els, dim_values, lamp, setting, channel, new_value,
            external_power_running, dim_save, dim_default, dim_duration_seconds,
            dim_duration_task_counter, event, left, cmd, torn, raced, asked, before>>
  BY DEF Minute, modes, call, durations, emergency, history, dimVars, eventVars
<1>2. pc' \in [Task -> {"rest", "poe", "save", "restore", "count", "second", "minute", "check",
              "expire", "parse", "loop", "duration", "default", "halted"}]
  BY DEF Places, Minute, Goto
<1>3. i' \in [Task -> 1 .. 3]
  BY DEF Places, Minute, Goto
<1>4. dim_duration' \in [Channel -> Int]
  BY DEF Timers, Minute
<1>5. counted' \in [Channel -> Nat]
  BY DEF Kinds, Minute
<1>6. held' \in Nat
  BY DEF Timers, Minute
<1> QED
  BY <1>1, <1>2, <1>3, <1>4, <1>5, <1>6 DEF Places, Modes, Values, Timers, Kinds

LEMMA CheckKeepsTypes ==
    ASSUME NEW c \in Channel, Types, Check(c), UNCHANGED eventVars
    PROVE  Types'
<1> USE Tasks, Channels, DimAssumption, TimeAssumption DEF Types
<1>1. UNCHANGED <<is_at, is_els, dim_values, lamp, external_power_running, dim_save,
            dim_duration, dim_default, dim_duration_seconds, dim_duration_task_counter,
            held, event, left, cmd, torn, raced, asked, counted, before>>
  BY DEF Check, modes, call, durations, emergency, history, dimVars, eventVars
<1>2. pc' \in [Task -> {"rest", "poe", "save", "restore", "count", "second", "minute", "check",
              "expire", "parse", "loop", "duration", "default", "halted"}]
  BY DEF Places, Check, Goto
<1>3. i' \in [Task -> 1 .. 3]
  BY DEF Places, Check, Goto
<1>4. setting' \in [Task -> {"no", "value", "lamp"}]
  BY DEF Values, Check, CallSetDim, call
<1>5. channel' \in [Task -> Channel]
  BY DEF Values, Check, CallSetDim, call
<1>6. new_value' \in [Task -> Nat]
  BY DEF Values, Timers, Check, CallSetDim, call
<1> QED
  BY <1>1, <1>2, <1>3, <1>4, <1>5, <1>6 DEF Places, Modes, Values, Timers, Kinds

LEMMA ExpireKeepsTypes ==
    ASSUME NEW c \in Channel, Types, Expire(c), UNCHANGED eventVars
    PROVE  Types'
<1> USE Tasks, Channels, DimAssumption, TimeAssumption DEF Types
<1>1. UNCHANGED <<is_at, is_els, dim_values, lamp, setting, channel, new_value,
            external_power_running, dim_save, dim_duration, dim_duration_seconds,
            dim_duration_task_counter, held, event, left, cmd, torn, raced, before>>
  BY DEF Expire, modes, call, durations, emergency, history, dimVars, eventVars
<1>2. pc' \in [Task -> {"rest", "poe", "save", "restore", "count", "second", "minute", "check",
              "expire", "parse", "loop", "duration", "default", "halted"}]
  BY DEF Places, Expire, Goto
<1>3. i' \in [Task -> 1 .. 3]
  BY DEF Places, Expire, Goto
<1>4. dim_default' \in [Channel -> Nat]
  BY DEF Timers, Expire, DIM_NO_CHANGE
<1>5. asked' \in [Channel -> Int]
  BY DEF Kinds, Expire, NONE
<1>6. counted' \in [Channel -> Nat]
  BY DEF Kinds, Expire
<1> QED
  BY <1>1, <1>2, <1>3, <1>4, <1>5, <1>6 DEF Places, Modes, Values, Timers, Kinds

LEMMA LossKeepsTypes ==
    ASSUME Types, Loss
    PROVE  Types'
<1> USE Tasks, Channels, DimAssumption, TimeAssumption DEF Types
<1>1. UNCHANGED <<is_at, is_els, dim_values, lamp, setting, channel, new_value, dim_save,
            dim_duration, dim_default, dim_duration_seconds, dim_duration_task_counter,
            held, event, left, cmd, torn, raced, asked, counted>>
  BY DEF Loss, LosePower, modes, call, durations, emergency, history, dimVars, eventVars
<1>2. pc' \in [Task -> {"rest", "poe", "save", "restore", "count", "second", "minute", "check",
              "expire", "parse", "loop", "duration", "default", "halted"}]
  BY DEF Places, Loss, LosePower, Goto
<1>3. i' \in [Task -> 1 .. 3]
  BY DEF Places, Loss, LosePower, Goto
<1>4. external_power_running' \in BOOLEAN
  BY DEF Values, Loss, LosePower
<1>5. before' \in [Channel -> Int]
  BY DEF Kinds, Values, Loss, LosePower, NONE
<1> QED
  BY <1>1, <1>2, <1>3, <1>4, <1>5 DEF Places, Modes, Values, Timers, Kinds

LEMMA PutDimKeepsTypes ==
    ASSUME NEW c \in Channel, NEW v \in Nat, Types, PutDim(c, v), UNCHANGED <<event,
           left, cmd, nested, mixed, base>>
    PROVE  Types'
<1> USE Tasks, Channels, DimAssumption, TimeAssumption DEF Types
<1>1. UNCHANGED <<pc, i, is_at, is_els, dim_values, lamp, external_power_running, dim_save,
            dim_duration, dim_default, dim_duration_seconds, dim_duration_task_counter,
            held, event, left, cmd, torn, raced, asked, counted, before>>
  BY DEF PutDim, modes, call, durations, emergency, history, dimVars, eventVars
<1>2. setting' \in [Task -> {"no", "value", "lamp"}]
  BY DEF Values, PutDim, CallSetDim
<1>3. channel' \in [Task -> Channel]
  BY DEF Values, PutDim, CallSetDim
<1>4. new_value' \in [Task -> Nat]
  BY DEF Values, PutDim, CallSetDim
<1> QED
  BY <1>1, <1>2, <1>3, <1>4 DEF Places, Modes, Values, Timers, Kinds

LEMMA PutPwmModeKeepsTypes ==
    ASSUME NEW c \in Channel, Types, PutPwmMode(c), UNCHANGED <<event, left, cmd,
           nested, mixed, base>>
    PROVE  Types'
<1> USE Tasks, Channels, DimAssumption, TimeAssumption DEF Types
<1>1. UNCHANGED <<pc, i, is_els, dim_values, lamp, setting, channel, new_value,
            external_power_running, dim_save, dim_duration, dim_default,
            dim_duration_seconds, dim_duration_task_counter, held, event, left, cmd,
            raced, asked, counted>>
  BY DEF PutPwmMode, modes, call, durations, emergency, history, dimVars, eventVars
<1>2. is_at' \in [Channel -> BOOLEAN]
  BY DEF Modes, PutPwmMode
<1>3. torn' \in BOOLEAN
  BY DEF Kinds, PutPwmMode
<1>4. before' \in [Channel -> Int]
  BY DEF Kinds, PutPwmMode, NONE
<1> QED
  BY <1>1, <1>2, <1>3, <1>4 DEF Places, Modes, Values, Timers, Kinds

LEMMA PutModeKeepsTypes ==
    ASSUME NEW c \in Channel, Types, PutMode(c), UNCHANGED <<event, left, cmd, nested,
           mixed, base>>
    PROVE  Types'
<1> USE Tasks, Channels, DimAssumption, TimeAssumption DEF Types
<1>1. UNCHANGED <<pc, i, is_at, dim_values, lamp, setting, channel, new_value,
            external_power_running, dim_save, dim_duration, dim_default,
            dim_duration_seconds, dim_duration_task_counter, held, event, left, cmd,
            torn, raced, asked, counted>>
  BY DEF PutMode, modes, call, durations, emergency, history, dimVars, eventVars
<1>2. is_els' \in [Channel -> BOOLEAN]
  BY DEF Modes, PutMode
<1>3. before' \in [Channel -> Int]
  BY DEF Kinds, PutMode, NONE
<1> QED
  BY <1>1, <1>2, <1>3 DEF Places, Modes, Values, Timers, Kinds

LEMMA EndsKeepsTypes ==
    ASSUME NEW t \in Task, Types, Ends(t)
    PROVE  Types'
<1> USE Tasks, Channels, DimAssumption, TimeAssumption DEF Types
<1>1. UNCHANGED <<is_at, is_els, dim_values, lamp, setting, channel, new_value,
            external_power_running, dim_save, dim_duration, dim_default,
            dim_duration_seconds, dim_duration_task_counter, held, event, cmd, torn,
            raced, asked, counted, before>>
  BY DEF Ends, Done, modes, call, durations, emergency, history, dimVars, eventVars
<1>2. pc' \in [Task -> {"rest", "poe", "save", "restore", "count", "second", "minute", "check",
              "expire", "parse", "loop", "duration", "default", "halted"}]
  BY DEF Places, Ends, Done, Goto
<1>3. i' \in [Task -> 1 .. 3]
  BY DEF Places, Ends, Done, Goto
<1>4. left' \in [Task -> Seq(CommandType)]
  BY DEF Kinds, Ends, Done
<1> QED
  BY <1>1, <1>2, <1>3, <1>4 DEF Places, Modes, Values, Timers, Kinds

LEMMA LoopDoneKeepsTypes ==
    ASSUME NEW t \in Task, Types, LoopDone(t)
    PROVE  Types'
<1> USE Tasks, Channels, DimAssumption, TimeAssumption DEF Types
<1>1. UNCHANGED <<is_at, is_els, dim_values, lamp, setting, channel, new_value,
            external_power_running, dim_save, dim_duration, dim_default,
            dim_duration_seconds, dim_duration_task_counter, held, event, left, torn,
            raced, asked, counted, before>>
  BY DEF LoopDone, modes, call, durations, emergency, history, dimVars, eventVars
<1>2. pc' \in [Task -> {"rest", "poe", "save", "restore", "count", "second", "minute", "check",
              "expire", "parse", "loop", "duration", "default", "halted"}]
  BY DEF Places, LoopDone, Goto
<1>3. i' \in [Task -> 1 .. 3]
  BY DEF Places, LoopDone, Goto
<1>4. cmd' \in [Task -> CommandType]
  BY Fields DEF Kinds, LoopDone
<1> QED
  BY <1>1, <1>2, <1>3, <1>4 DEF Places, Modes, Values, Timers, Kinds

LEMMA LoopKeepsTypes ==
    ASSUME NEW t \in Task, NEW c \in Channel, Types, Loop(t, c)
    PROVE  Types'
<1> USE Tasks, Channels, DimAssumption, TimeAssumption DEF Types
<1>1. UNCHANGED <<is_at, is_els, dim_values, lamp, external_power_running, dim_save,
            dim_duration, dim_default, dim_duration_seconds, dim_duration_task_counter,
            held, event, left, cmd, torn, raced, asked, counted, before>>
  BY DEF Loop, modes, call, durations, emergency, history, dimVars, eventVars
<1>2. pc' \in [Task -> {"rest", "poe", "save", "restore", "count", "second", "minute", "check",
              "expire", "parse", "loop", "duration", "default", "halted"}]
  BY DEF Places, Loop, Goto
<1>3. i' \in [Task -> 1 .. 3]
  BY DEF Places, Loop, Goto
<1>4. setting' \in [Task -> {"no", "value", "lamp"}]
  BY DEF Values, Loop, CallSetDim, call
<1>5. channel' \in [Task -> Channel]
  <2>1. channel' = [channel EXCEPT ![t] = c] \/ channel' = channel
    BY DEF Loop, CallSetDim, call
  <2> QED
    BY <2>1 DEF Values
<1>6. new_value' \in [Task -> Nat]
  <2> DEFINE v == Level(cmd[t], dim_values[c])
  <2>1. cmd[t] \in CommandType /\ dim_values[c] \in Nat
    BY DEF Kinds, Values
  <2>2. v \in Nat
    BY <2>1, LevelIsNat
  <2>3. new_value' = [new_value EXCEPT ![t] = v] \/ new_value' = new_value
    <3>1. CallSetDim(t, c, v) \/ UNCHANGED call
      BY Zenon DEF Loop
    <3> HIDE DEF v
    <3> QED
      BY <3>1 DEF CallSetDim, call
  <2> HIDE DEF v
  <2> QED
    BY <2>2, <2>3 DEF Values
<1> QED
  BY <1>1, <1>2, <1>3, <1>4, <1>5, <1>6 DEF Places, Modes, Values, Timers, Kinds

LEMMA SetDurationKeepsTypes ==
    ASSUME NEW t \in Task, NEW c \in Channel, Types, SetDuration(t, c)
    PROVE  Types'
<1> USE Tasks, Channels, DimAssumption, TimeAssumption DEF Types
<1>1. UNCHANGED <<is_at, is_els, dim_values, lamp, setting, channel, new_value,
            external_power_running, dim_save, dim_default, dim_duration_seconds,
            dim_duration_task_counter, held, event, left, cmd, torn, asked, counted,
            before>>
  BY DEF SetDuration, modes, call, durations, emergency, history, dimVars, eventVars
<1>2. pc' \in [Task -> {"rest", "poe", "save", "restore", "count", "second", "minute", "check",
              "expire", "parse", "loop", "duration", "default", "halted"}]
  BY DEF Places, SetDuration, Goto
<1>3. i' \in [Task -> 1 .. 3]
  BY DEF Places, SetDuration, Goto
<1>4. dim_duration' \in [Channel -> Int]
  <2>1. cmd[t].d \in Int
    BY Fields DEF Kinds
  <2> QED
    BY <2>1 DEF Timers, SetDuration, DIM_DURATION_DISABLED
<1>5. raced' \in SUBSET Channel
  BY DEF Kinds, SetDuration
<1> QED
  BY <1>1, <1>2, <1>3, <1>4, <1>5 DEF Places, Modes, Values, Timers, Kinds

LEMMA SetDefaultKeepsTypes ==
    ASSUME NEW t \in Task, NEW c \in Channel, Types, SetDefault(t, c)
    PROVE  Types'
<1> USE Tasks, Channels, DimAssumption, TimeAssumption DEF Types
<1>1. UNCHANGED <<is_at, is_els, dim_values, lamp, setting, channel, new_value,
            external_power_running, dim_save, dim_duration, dim_duration_seconds,
            dim_duration_task_counter, held, event, left, cmd, torn, raced, before>>
  BY DEF SetDefault, modes, call, durations, emergency, history, dimVars, eventVars
<1>2. pc' \in [Task -> {"rest", "poe", "save", "restore", "count", "second", "minute", "check",
              "expire", "parse", "loop", "duration", "default", "halted"}]
  BY DEF Places, SetDefault, Goto
<1>3. i' \in [Task -> 1 .. 3]
  BY DEF Places, SetDefault, Goto
<1>4. dim_default' \in [Channel -> Nat]
  <2>1. cmd[t].after \in Nat
    BY Fields DEF Kinds
  <2> QED
    BY <2>1 DEF Timers, SetDefault, DIM_NO_CHANGE
<1>5. asked' \in [Channel -> Int]
  <2>1. cmd[t].d \in Int
    BY Fields DEF Kinds
  <2> QED
    BY <2>1 DEF Kinds, SetDefault, NONE
<1>6. counted' \in [Channel -> Nat]
  BY DEF Kinds, SetDefault
<1> QED
  BY <1>1, <1>2, <1>3, <1>4, <1>5, <1>6 DEF Places, Modes, Values, Timers, Kinds

LEMMA TakeDimKeepsTypes ==
    ASSUME NEW t \in Task, NEW k \in CommandType, Types, TakeDim(t, k)
    PROVE  Types'
<1> USE Tasks, Channels, DimAssumption, TimeAssumption DEF Types
<1>1. UNCHANGED <<is_at, is_els, dim_values, lamp, setting, channel, new_value,
            external_power_running, dim_save, dim_duration, dim_default,
            dim_duration_seconds, dim_duration_task_counter, held, event, torn, raced,
            asked, counted, before>>
  BY DEF TakeDim, modes, call, durations, emergency, history, dimVars, eventVars
<1>2. pc' \in [Task -> {"rest", "poe", "save", "restore", "count", "second", "minute", "check",
              "expire", "parse", "loop", "duration", "default", "halted"}]
  BY DEF Places, TakeDim, Goto
<1>3. i' \in [Task -> 1 .. 3]
  BY DEF Places, TakeDim, Goto
<1>4. left' \in [Task -> Seq(CommandType)]
  BY DEF Kinds, TakeDim, Takes
<1>5. cmd' \in [Task -> CommandType]
  BY DEF Kinds, TakeDim
<1> QED
  BY <1>1, <1>2, <1>3, <1>4, <1>5 DEF Places, Modes, Values, Timers, Kinds

LEMMA TakeColourKeepsTypes ==
    ASSUME NEW t \in Task, NEW k \in CommandType, Types, TakeColour(t, k)
    PROVE  Types'
<1> USE Tasks, Channels, DimAssumption, TimeAssumption DEF Types
<1>1. UNCHANGED <<is_at, is_els, dim_values, lamp, external_power_running, dim_save,
            dim_duration, dim_default, dim_duration_seconds, dim_duration_task_counter,
            held, event, cmd, raced, asked, counted, before>>
  BY DEF TakeColour, Done, modes, call, durations, emergency, history, dimVars, eventVars
<1>2. pc' \in [Task -> {"rest", "poe", "save", "restore", "count", "second", "minute", "check",
              "expire", "parse", "loop", "duration", "default", "halted"}]
  BY DEF Places, TakeColour, Done, Goto
<1>3. i' \in [Task -> 1 .. 3]
  BY DEF Places, TakeColour, Done, Goto
<1>4. setting' \in [Task -> {"no", "value", "lamp"}]
  BY DEF Values, TakeColour, Done, CallSetAt, call
<1>5. channel' \in [Task -> Channel]
  BY DEF Values, TakeColour, Done, CallSetAt, call
<1>6. new_value' \in [Task -> Nat]
  BY DEF Values, TakeColour, Done, CallSetAt, call
<1>7. left' \in [Task -> Seq(CommandType)]
  BY DEF Kinds, TakeColour, Done, Takes
<1>8. torn' \in BOOLEAN
  BY DEF Kinds, TakeColour, Done, CallSetAt
<1> QED
  BY <1>1, <1>2, <1>3, <1>4, <1>5, <1>6, <1>7, <1>8 DEF Places, Modes, Values, Timers, Kinds

LEMMA TakeAttuneKeepsTypes ==
    ASSUME NEW t \in Task, NEW k \in CommandType, Types, TakeAttune(t, k)
    PROVE  Types'
<1> USE Tasks, Channels, DimAssumption, TimeAssumption DEF Types
<1>1. UNCHANGED <<is_at, is_els, dim_values, lamp, external_power_running, dim_save,
            dim_duration, dim_default, dim_duration_seconds, dim_duration_task_counter,
            held, event, cmd, raced, asked, counted, before>>
  BY DEF TakeAttune, Done, modes, call, durations, emergency, history, dimVars, eventVars
<1>2. pc' \in [Task -> {"rest", "poe", "save", "restore", "count", "second", "minute", "check",
              "expire", "parse", "loop", "duration", "default", "halted"}]
  BY DEF Places, TakeAttune, Done, Goto
<1>3. i' \in [Task -> 1 .. 3]
  BY DEF Places, TakeAttune, Done, Goto
<1>4. setting' \in [Task -> {"no", "value", "lamp"}]
  BY DEF Values, TakeAttune, Done, CallSetAt, call
<1>5. channel' \in [Task -> Channel]
  BY DEF Values, TakeAttune, Done, CallSetAt, call
<1>6. new_value' \in [Task -> Nat]
  BY DEF Values, TakeAttune, Done, CallSetAt, call
<1>7. left' \in [Task -> Seq(CommandType)]
  BY DEF Kinds, TakeAttune, Done, Takes
<1>8. torn' \in BOOLEAN
  BY DEF Kinds, TakeAttune, Done, CallSetAt
<1> QED
  BY <1>1, <1>2, <1>3, <1>4, <1>5, <1>6, <1>7, <1>8 DEF Places, Modes, Values, Timers, Kinds

LEMMA TrapKeepsTypes ==
    ASSUME NEW t \in Task, NEW k \in CommandType, Types, Trap(t, k)
    PROVE  Types'
<1> USE Tasks, Channels, DimAssumption, TimeAssumption DEF Types
<1>1. UNCHANGED <<i, is_at, is_els, dim_values, lamp, setting, channel, new_value,
            external_power_running, dim_save, dim_duration, dim_default,
            dim_duration_seconds, dim_duration_task_counter, held, event, left, cmd,
            torn, raced, asked, counted, before>>
  BY DEF Trap, modes, call, durations, emergency, history, dimVars, eventVars
<1>2. pc' \in [Task -> {"rest", "poe", "save", "restore", "count", "second", "minute", "check",
              "expire", "parse", "loop", "duration", "default", "halted"}]
  BY DEF Places, Trap
<1> QED
  BY <1>1, <1>2 DEF Places, Modes, Values, Timers, Kinds

LEMMA SetsValueKeepsTypes ==
    ASSUME NEW t \in Task, Types, SetsValue(t)
    PROVE  Types'
<1> USE Tasks, Channels, DimAssumption, TimeAssumption DEF Types
<1>1. UNCHANGED <<pc, i, is_at, is_els, lamp, channel, new_value, external_power_running,
            dim_save, dim_duration, dim_default, dim_duration_seconds,
            dim_duration_task_counter, held, event, left, cmd, raced, asked, counted>>
  BY DEF SetsValue, SetValue, modes, call, durations, emergency, history, dimVars, eventVars
<1>2. setting' \in [Task -> {"no", "value", "lamp"}]
  BY DEF Values, SetsValue, SetValue
<1>3. dim_values' \in [Channel -> Nat]
  BY DEF Values, SetsValue, SetValue
<1>4. torn' \in BOOLEAN
  BY DEF Kinds, SetsValue, SetValue
<1>5. before' \in [Channel -> Int]
  BY DEF Kinds, SetsValue, SetValue, NONE
<1> QED
  BY <1>1, <1>2, <1>3, <1>4, <1>5 DEF Places, Modes, Values, Timers, Kinds

LEMMA SetLampKeepsTypes ==
    ASSUME NEW t \in Task, Types, SetLamp(t), UNCHANGED eventVars
    PROVE  Types'
<1> USE Tasks, Channels, DimAssumption, TimeAssumption DEF Types
<1>1. UNCHANGED <<pc, i, is_at, is_els, dim_values, external_power_running, dim_save,
            dim_duration, dim_default, dim_duration_seconds, dim_duration_task_counter,
            held, event, left, cmd, raced, asked, counted, before>>
  BY DEF SetLamp, modes, call, durations, emergency, history, dimVars, eventVars
<1>2. setting' \in [Task -> {"no", "value", "lamp"}]
  BY DEF Values, SetLamp, Returned
<1>3. channel' \in [Task -> Channel]
  BY DEF Values, SetLamp, Returned
<1>4. new_value' \in [Task -> Nat]
  BY DEF Values, SetLamp, Returned
<1>5. lamp' \in [Channel -> 0 .. DIM_MAX]
  BY DEF Values, SetLamp, Limited, Least
<1>6. torn' \in BOOLEAN
  BY DEF Kinds, SetLamp
<1> QED
  BY <1>1, <1>2, <1>3, <1>4, <1>5, <1>6 DEF Places, Modes, Values, Timers, Kinds

LEMMA NoteKeepsTypes ==
    ASSUME NEW t \in Task, Types, Note(t)
    PROVE  Types'
<1> USE Tasks, Channels, DimAssumption, TimeAssumption DEF Types
<1>1. UNCHANGED <<pc, i, is_at, is_els, dim_values, lamp, setting, channel, new_value,
            external_power_running, dim_save, dim_duration, dim_default,
            dim_duration_seconds, dim_duration_task_counter, held, event, left, cmd,
            torn, raced, asked, counted, before>>
  BY DEF Note, modes, call, durations, emergency, history, dimVars, eventVars
<1> QED
  BY <1>1 DEF Places, Modes, Values, Timers, Kinds

LEMMA BeginKeepsTypes ==
    ASSUME NEW t \in Task, NEW e \in EventType, Types, Begin(t, e)
    PROVE  Types'
<1> USE Tasks, Channels, DimAssumption, TimeAssumption DEF Types
<1>1. UNCHANGED <<is_at, is_els, dim_values, lamp, setting, channel, new_value,
            external_power_running, dim_save, dim_duration, dim_default,
            dim_duration_seconds, dim_duration_task_counter, held, cmd, torn, raced,
            asked, counted, before>>
  BY DEF Begin, modes, call, durations, emergency, history, dimVars, eventVars
<1>2. pc' \in [Task -> {"rest", "poe", "save", "restore", "count", "second", "minute", "check",
              "expire", "parse", "loop", "duration", "default", "halted"}]
  BY DEF Places, Begin, Goto
<1>3. i' \in [Task -> 1 .. 3]
  BY DEF Places, Begin, Goto
<1>4. event' \in [Task -> EventType]
  <2>1. event' = event \/ event' = [event EXCEPT ![t] = e]
    BY DEF Begin
  <2>2. event \in [Task -> EventType]
    BY DEF Kinds
  <2>3. [event EXCEPT ![t] = e] \in [Task -> EventType]
    BY <2>2, Zenon
  <2> QED
    BY <2>1, <2>2, <2>3, Zenon
<1>5. left' \in [Task -> Seq(CommandType)]
  BY DEF Kinds, Begin, EventType
<1> QED
  BY <1>1, <1>2, <1>3, <1>4, <1>5 DEF Places, Modes, Values, Timers, Kinds

-----------------------------------------------------------------------------
(* Every action keeps the durations: those that leave them alone first *)

\* A task at p is in no duration.
Outside(p) == p \notin {"default", "minute", "check", "expire"}

LEMMA SameDurations ==
    ASSUME Durations, UNCHANGED <<pc, i, cmd, dim_duration, dim_default, held, asked,
           counted, raced>>
    PROVE  Durations'
  BY DEF Durations, Alone, Given, Pending, Account, Serving, AtDefault, AtMinute, AtCheck,
     AtExpire,
         InDuration

\* A task that is in no duration before and after a step keeps all of them.
LEMMA OutsideDurations ==
    ASSUME Types, Durations, NEW t \in Task, Outside(pc[t]), Outside(pc'[t]),
           \A u \in Task : u # t => pc'[u] = pc[u] /\ i'[u] = i[u] /\ cmd'[u] = cmd[u],
           pc'[APP] # "halted" => pc[APP] # "halted",
           UNCHANGED <<dim_duration, dim_default, held, asked, counted, raced>>
    PROVE  Durations'
<1> SUFFICES ASSUME pc'[APP] # "halted", NEW d \in Channel \ raced
             PROVE  /\ Alone(d)' /\ (\A u \in Task : Given(u, d)')
                    /\ Pending(d)' /\ Account(d)' /\ Serving(d)'
  BY DEF Durations
<1>1. Alone(d) /\ (\A u \in Task : Given(u, d)) /\ Pending(d) /\ Account(d) /\ Serving(d)
  BY DEF Durations
<1>2. /\ \A u \in Task : InDuration(u, d)' <=> InDuration(u, d)
      /\ \A u \in Task : AtDefault(u, d)' <=> AtDefault(u, d)
      /\ \A u \in Task : AtDefault(u, d) => cmd'[u] = cmd[u]
  BY DEF InDuration, AtDefault, Outside
<1>3. (AtMinute(d)' <=> AtMinute(d)) /\ (AtCheck(d)' <=> AtCheck(d)) /\ (AtExpire(d)' <=> AtExpire(d))
  BY Tasks DEF AtMinute, AtCheck, AtExpire, Outside
<1>4. Alone(d)' /\ (\A u \in Task : Given(u, d)')
  BY <1>1, <1>2, Tasks DEF Alone, Given
<1>5. Pending(d)' /\ Account(d)' /\ Serving(d)'
  BY <1>1, <1>2, <1>3 DEF Pending, Account, Serving
<1> QED
  BY <1>4, <1>5

LEMMA SetDurationKeepsDurations ==
    ASSUME Types, Durations, NEW t \in Task, NEW c \in Channel, SetDuration(t, c)
    PROVE  Durations'
<1> SUFFICES ASSUME pc'[APP] # "halted", NEW d \in Channel \ raced'
             PROVE  /\ Alone(d)' /\ (\A u \in Task : Given(u, d)')
                    /\ Pending(d)' /\ Account(d)' /\ Serving(d)'
  BY DEF Durations
<1>1. d \in Channel /\ d \in Channel \ raced
  BY DEF SetDuration
<1>2. Alone(d) /\ (\A u \in Task : Given(u, d)) /\ Pending(d) /\ Account(d) /\ Serving(d)
  BY <1>1, Tasks DEF Durations, SetDuration, Goto
<1>3. /\ asked[d] \in Int /\ counted[d] \in Nat /\ dim_duration[d] \in Int /\ dim_default[d] \in Nat
      /\ held \in Nat /\ DIM_MAX \in Nat
  BY <1>1, DimAssumption DEF Types, Timers, Kinds
<1>4. /\ pc[t] = "duration" /\ i[t] = c /\ pc'[t] = "default" /\ i'[t] = c
      /\ \A u \in Task : u # t => pc'[u] = pc[u] /\ i'[u] = i[u]
      /\ UNCHANGED <<dim_default, held, asked, counted, cmd>>
  BY DEF SetDuration, Goto, Types, Places, eventVars
<1>5. /\ d = c => dim_duration'[d] = IF cmd[t].f = "F1" THEN cmd[t].d ELSE DIM_DURATION_DISABLED
      /\ d # c => dim_duration'[d] = dim_duration[d]
  BY <1>1 DEF SetDuration, Types, Timers
<1>6. d = c => ~InDuration(Other(t), d)
  BY <1>1 DEF SetDuration
<1>7. CASE d = c
  <2>1. \A u \in Task : u # t => ~InDuration(u, d)'
    BY <1>4, <1>6, <1>7, Tasks DEF InDuration
  <2>2. Alone(d)' /\ (\A u \in Task : Given(u, d)')
    BY <2>1, <1>4, <1>5, <1>7, Tasks DEF Alone, Given, AtDefault, InDuration
  <2>3. Account(d)'
    BY <1>4, <1>7 DEF Account, AtDefault
  <2>4. Serving(d)'
    BY <2>1, <1>4, Tasks DEF Serving, AtMinute, AtCheck, AtExpire, InDuration
  <2>5. ~AtCheck(d) /\ ~AtExpire(d)
    BY <2>1, <1>4, Tasks DEF AtCheck, AtExpire, InDuration
  <2>6. Pending(d)'
    BY <2>5, <1>2, <1>4 DEF Pending
  <2> QED
    BY <2>2, <2>3, <2>4, <2>6
<1>8. CASE d # c
  <2>1. /\ \A u \in Task : InDuration(u, d)' <=> InDuration(u, d)
        /\ \A u \in Task : AtDefault(u, d)' <=> AtDefault(u, d)
        /\ (AtMinute(d)' <=> AtMinute(d)) /\ (AtCheck(d)' <=> AtCheck(d)) /\ (AtExpire(d)' <=> AtExpire(d))
    BY <1>4, <1>8, Tasks DEF InDuration, AtDefault, AtMinute, AtCheck, AtExpire
  <2> QED
    BY <2>1, <1>2, <1>4, <1>5, <1>8, Tasks DEF Alone, Given, Pending, Account, Serving
<1> QED
  BY <1>7, <1>8

LEMMA SetDefaultKeepsDurations ==
    ASSUME Types, Durations, NEW t \in Task, NEW c \in Channel, SetDefault(t, c)
    PROVE  Durations'
<1> SUFFICES ASSUME pc'[APP] # "halted", NEW d \in Channel \ raced'
             PROVE  /\ Alone(d)' /\ (\A u \in Task : Given(u, d)')
                    /\ Pending(d)' /\ Account(d)' /\ Serving(d)'
  BY DEF Durations
<1>1. d \in Channel /\ d \in Channel \ raced
  BY DEF SetDefault
<1>2. Alone(d) /\ (\A u \in Task : Given(u, d)) /\ Pending(d) /\ Account(d) /\ Serving(d)
  BY <1>1, Tasks DEF Durations, SetDefault, Goto
<1>3. /\ asked[d] \in Int /\ counted[d] \in Nat /\ dim_duration[d] \in Int /\ dim_default[d] \in Nat
      /\ held \in Nat /\ DIM_MAX \in Nat
  BY <1>1, DimAssumption DEF Types, Timers, Kinds
<1>4. /\ pc[t] = "default" /\ i[t] = c /\ pc'[t] = "loop"
      /\ \A u \in Task : u # t => pc'[u] = pc[u] /\ i'[u] = i[u]
      /\ UNCHANGED <<dim_duration, held, cmd>>
  BY DEF SetDefault, Goto, Types, Places, eventVars
<1>5. d # c => UNCHANGED <<dim_default[d], asked[d], counted[d]>>
  BY <1>1 DEF SetDefault, Types, Timers, Kinds
<1>6. d = c => ~InDuration(Other(t), d)
  BY <1>2, <1>4, Tasks DEF Alone, InDuration
<1>7. CASE d = c
  <2> DEFINE k == cmd[t]
  <2>1. \A u \in Task : ~InDuration(u, d)'
    BY <1>4, <1>6, <1>7, Tasks DEF InDuration
  <2>2. k.d \in Int /\ k.after \in Nat
    BY Fields DEF Types, Kinds
  <2>3. /\ dim_default'[d] = (IF k.f = "F1" THEN k.after ELSE DIM_NO_CHANGE)
        /\ asked'[d] = (IF k.f = "F1" /\ k.d >= 0 /\ k.after < DIM_NO_CHANGE THEN k.d ELSE NONE)
        /\ counted'[d] = 0
    BY <1>7 DEF SetDefault, Types, Timers, Kinds
  <2>4. dim_duration'[d] = IF k.f = "F1" THEN k.d ELSE DIM_DURATION_DISABLED
    BY <1>2, <1>4, <1>7 DEF Given, AtDefault
  <2> HIDE DEF k
  <2>5. Alone(d)' /\ (\A u \in Task : Given(u, d)') /\ Serving(d)'
    BY <2>1, Tasks DEF Alone, Given, Serving, AtDefault, AtMinute, AtCheck, AtExpire,
       InDuration
  <2>6. Pending(d)'
    BY <2>2, <2>3 DEF Pending, Most, NONE
  <2>7. Account(d)'
    BY <2>2, <2>3, <2>4, <1>3 DEF Account, Most, NONE, DIM_NO_CHANGE, DIM_DURATION_DISABLED
  <2> QED
    BY <2>5, <2>6, <2>7
<1>8. CASE d # c
  <2>1. /\ \A u \in Task : InDuration(u, d)' <=> InDuration(u, d)
        /\ \A u \in Task : AtDefault(u, d)' <=> AtDefault(u, d)
        /\ (AtMinute(d)' <=> AtMinute(d)) /\ (AtCheck(d)' <=> AtCheck(d)) /\ (AtExpire(d)' <=> AtExpire(d))
    BY <1>4, <1>8, Tasks DEF InDuration, AtDefault, AtMinute, AtCheck, AtExpire
  <2> QED
    BY <2>1, <1>2, <1>4, <1>5, <1>8, Tasks DEF Alone, Given, Pending, Account, Serving
<1> QED
  BY <1>7, <1>8

LEMMA SecondKeepsDurations ==
    ASSUME Types, Durations, NEW c \in Channel, Second(c), UNCHANGED eventVars
    PROVE  Durations'
<1>1. CASE UNCHANGED <<held, raced>> /\ pc'[APP] = "second"
  <2>1. /\ Outside(pc[APP]) /\ Outside(pc'[APP]) /\ pc[APP] # "halted"
        /\ \A u \in Task : u # APP => pc'[u] = pc[u] /\ i'[u] = i[u] /\ cmd'[u] = cmd[u]
        /\ UNCHANGED <<dim_duration, dim_default, asked, counted>>
    BY <1>1, Tasks DEF Second, Goto, Types, Places, eventVars, Outside
  <2> QED
    BY <1>1, <2>1, Tasks, OutsideDurations
<1>2. CASE /\ dim_duration[c] >= 0 /\ dim_default[c] # DIM_NO_CHANGE
           /\ pc'[APP] = "minute" /\ i'[APP] = c /\ held' = dim_duration[c]
           /\ raced' = raced \cup {d \in {c} : InDuration(SYS_CMD, d)}
  <2> SUFFICES ASSUME pc'[APP] # "halted", NEW d \in Channel \ raced'
               PROVE  /\ Alone(d)' /\ (\A u \in Task : Given(u, d)')
                      /\ Pending(d)' /\ Account(d)' /\ Serving(d)'
    BY DEF Durations
  <2>1. d \in Channel /\ d \in Channel \ raced
    BY DEF Second
  <2>2. Alone(d) /\ (\A u \in Task : Given(u, d)) /\ Pending(d) /\ Account(d) /\ Serving(d)
    BY <2>1, Tasks DEF Durations, Second, Goto
  <2>3. /\ asked[d] \in Int /\ counted[d] \in Nat /\ dim_duration[d] \in Int /\ dim_default[d] \in Nat
        /\ held \in Nat /\ DIM_MAX \in Nat
    BY <2>1, DimAssumption DEF Types, Timers, Kinds
  <2>4. /\ pc[APP] = "second" /\ i[APP] = c
        /\ \A u \in Task : u # APP => pc'[u] = pc[u] /\ i'[u] = i[u]
        /\ UNCHANGED <<dim_duration, dim_default, asked, counted, cmd>>
    BY Tasks DEF Second, Goto, Types, Places, eventVars
  <2>5. d = c => ~InDuration(SYS_CMD, d)
    BY <1>2, <2>1
  <2>6. d = c => held' = dim_duration[d] /\ dim_duration[d] >= 0
    BY <1>2
  <2>7. CASE d = c
    <3>1. ~InDuration(SYS_CMD, d)' /\ (\A u \in Task : ~AtDefault(u, d)') /\ (\A u \in Task : ~AtDefault(u, d))
          /\ ~AtCheck(d)' /\ ~AtExpire(d)' /\ ~AtCheck(d) /\ ~AtExpire(d)
      BY <1>2, <2>4, <2>5, <2>7, Tasks DEF InDuration, AtDefault, AtCheck, AtExpire
    <3>2. Alone(d)' /\ (\A u \in Task : Given(u, d)')
      BY <3>1 DEF Alone, Given
    <3>3. Pending(d)' /\ Account(d)'
      BY <3>1, <2>2, <2>4 DEF Pending, Account
    <3>4. Serving(d)'
      BY <3>1, <2>4, <2>6, <2>7 DEF Serving
    <3> QED
      BY <3>2, <3>3, <3>4
  <2>8. CASE d # c
    <3>1. /\ \A u \in Task : InDuration(u, d)' <=> InDuration(u, d)
          /\ \A u \in Task : AtDefault(u, d)' <=> AtDefault(u, d)
          /\ ~AtMinute(d)' /\ (AtCheck(d)' <=> AtCheck(d)) /\ (AtExpire(d)' <=> AtExpire(d))
      BY <1>2, <2>4, <2>8, Tasks DEF InDuration, AtDefault, AtMinute, AtCheck, AtExpire
    <3> QED
      BY <3>1, <2>2, <2>4, <2>8, Tasks DEF Alone, Given, Pending, Account, Serving
  <2> QED
    BY <2>7, <2>8
<1> QED
  BY <1>1, <1>2, Tasks DEF Second, Goto, Types, Places

LEMMA MinuteKeepsDurations ==
    ASSUME Types, Durations, NEW c \in Channel, Minute(c), UNCHANGED eventVars
    PROVE  Durations'
<1> SUFFICES ASSUME pc'[APP] # "halted", NEW d \in Channel \ raced'
             PROVE  /\ Alone(d)' /\ (\A u \in Task : Given(u, d)')
                    /\ Pending(d)' /\ Account(d)' /\ Serving(d)'
  BY DEF Durations
<1>1. d \in Channel /\ d \in Channel \ raced
  BY DEF Minute
<1>2. Alone(d) /\ (\A u \in Task : Given(u, d)) /\ Pending(d) /\ Account(d) /\ Serving(d)
  BY <1>1, Tasks DEF Durations, Minute, Goto
<1>3. /\ asked[d] \in Int /\ counted[d] \in Nat /\ dim_duration[d] \in Int /\ dim_default[d] \in Nat
      /\ held \in Nat /\ DIM_MAX \in Nat
  BY <1>1, DimAssumption DEF Types, Timers, Kinds
<1>4. /\ pc[APP] = "minute" /\ i[APP] = c /\ pc'[APP] = "check" /\ i'[APP] = c
      /\ \A u \in Task : u # APP => pc'[u] = pc[u] /\ i'[u] = i[u]
      /\ UNCHANGED <<dim_default, asked, cmd>>
  BY Tasks DEF Minute, Goto, Types, Places, eventVars
<1>5. d # c => UNCHANGED <<dim_duration[d], counted[d]>>
  BY <1>1 DEF Minute, Types, Timers, Kinds
<1>6. d = c => ~InDuration(SYS_CMD, d)
  BY <1>2, <1>4, Tasks DEF Alone, InDuration
<1>7. CASE d = c
  <2>1. ~InDuration(SYS_CMD, d)' /\ (\A u \in Task : ~AtDefault(u, d)') /\ (\A u \in Task : ~AtDefault(u, d))
        /\ ~AtMinute(d)' /\ AtCheck(d)' /\ ~AtExpire(d)' /\ ~AtCheck(d) /\ ~AtExpire(d)
    BY <1>4, <1>6, <1>7, Tasks DEF InDuration, AtDefault, AtMinute, AtCheck, AtExpire
  <2>2. held = dim_duration[d] /\ held >= 0
    BY <1>2, <1>4, <1>7 DEF Serving, AtMinute
  <2>3. /\ dim_duration'[d] = (IF held > 0 THEN held - 1 ELSE dim_duration[d])
        /\ counted'[d] = (IF asked[d] = NONE THEN 0 ELSE counted[d] + 1)
    BY <1>7 DEF Minute, Types, Timers, Kinds
  <2>4. Alone(d)' /\ (\A u \in Task : Given(u, d)')
    BY <2>1 DEF Alone, Given
  <2>5. CASE asked[d] = NONE
    <3>1. dim_default[d] >= DIM_NO_CHANGE
      BY <2>1, <2>2, <2>5, <1>2, <1>3 DEF Account
    <3> QED
      BY <3>1, <2>1, <2>4, <2>5, <1>4 DEF Pending, Account, Serving
  <2>6. CASE asked[d] # NONE
    <3>1. /\ asked[d] >= 0 /\ counted[d] < Most(1, asked[d])
          /\ dim_default[d] < DIM_NO_CHANGE /\ dim_duration[d] = Most(0, asked[d] - counted[d])
      BY <2>1, <2>6, <1>2 DEF Pending, Account
    <3>2. counted'[d] <= Most(1, asked[d]) /\ counted'[d] >= 1
      BY <3>1, <2>3, <2>6, <1>3 DEF Most
    <3>3. dim_duration'[d] = Most(0, asked[d] - counted'[d])
      BY <3>1, <2>2, <2>3, <2>6, <1>3 DEF Most
    <3> QED
      BY <3>1, <3>2, <3>3, <2>1, <2>4, <2>6, <1>4 DEF Pending, Account, Serving
  <2> QED
    BY <2>5, <2>6
<1>8. CASE d # c
  <2>1. /\ \A u \in Task : InDuration(u, d)' <=> InDuration(u, d)
        /\ \A u \in Task : AtDefault(u, d)' <=> AtDefault(u, d)
        /\ ~AtMinute(d)' /\ (AtCheck(d)' <=> AtCheck(d)) /\ (AtExpire(d)' <=> AtExpire(d))
    BY <1>4, <1>8, Tasks DEF InDuration, AtDefault, AtMinute, AtCheck, AtExpire
  <2>2. UNCHANGED cmd
    BY DEF eventVars
  <2> QED
    BY <2>1, <2>2, <1>2, <1>4, <1>5, <1>8, Tasks DEF Alone, Given, Pending, Account, Serving
<1> QED
  BY <1>7, <1>8

LEMMA CheckKeepsDurations ==
    ASSUME Types, Durations, NEW c \in Channel, Check(c), UNCHANGED eventVars
    PROVE  Durations'
<1> SUFFICES ASSUME pc'[APP] # "halted", NEW d \in Channel \ raced'
             PROVE  /\ Alone(d)' /\ (\A u \in Task : Given(u, d)')
                    /\ Pending(d)' /\ Account(d)' /\ Serving(d)'
  BY DEF Durations
<1>1. d \in Channel /\ d \in Channel \ raced
  BY DEF Check, history
<1>2. Alone(d) /\ (\A u \in Task : Given(u, d)) /\ Pending(d) /\ Account(d) /\ Serving(d)
  BY <1>1, Tasks DEF Durations, Check, Goto
<1>3. /\ asked[d] \in Int /\ counted[d] \in Nat /\ dim_duration[d] \in Int /\ dim_default[d] \in Nat
      /\ held \in Nat /\ DIM_MAX \in Nat
  BY <1>1, DimAssumption DEF Types, Timers, Kinds
<1>4. /\ pc[APP] = "check" /\ i[APP] = c
      /\ \A u \in Task : u # APP => pc'[u] = pc[u] /\ i'[u] = i[u]
      /\ UNCHANGED <<dim_duration, dim_default, held, asked, counted, cmd>>
      /\ \/ dim_duration[c] = 0 /\ dim_default[c] < DIM_NO_CHANGE /\ pc'[APP] = "expire" /\ i'[APP] = c
         \/ ~(dim_duration[c] = 0 /\ dim_default[c] < DIM_NO_CHANGE) /\ pc'[APP] = "second"
  BY Tasks DEF Check, Goto, Types, Places, eventVars, durations, history
<1>5. d = c => ~InDuration(SYS_CMD, d)
  BY <1>2, <1>4, Tasks DEF Alone, InDuration
<1>6. CASE d = c
  <2>1. ~InDuration(SYS_CMD, d)' /\ (\A u \in Task : ~AtDefault(u, d)') /\ (\A u \in Task : ~AtDefault(u, d))
        /\ ~AtMinute(d)' /\ ~AtCheck(d)' /\ AtCheck(d) /\ ~AtExpire(d) /\ (AtExpire(d)' <=> pc'[APP] = "expire")
    BY <1>4, <1>5, <1>6, Tasks DEF InDuration, AtDefault, AtMinute, AtCheck, AtExpire
  <2>2. Alone(d)' /\ (\A u \in Task : Given(u, d)') /\ Account(d)'
    BY <2>1, <1>2, <1>4 DEF Alone, Given, Account
  <2>3. asked[d] # NONE => /\ asked[d] >= 0 /\ counted[d] >= 1 /\ counted[d] <= Most(1, asked[d])
                           /\ dim_default[d] < DIM_NO_CHANGE /\ dim_duration[d] = Most(0, asked[d] - counted[d])
    BY <2>1, <1>2 DEF Pending, Account, Serving
  <2>4. CASE dim_duration[d] = 0 /\ dim_default[d] < DIM_NO_CHANGE
    <3>1. pc'[APP] = "expire"
      BY <2>4, <1>4, <1>6
    <3>2. asked[d] # NONE
      BY <2>1, <2>4, <1>2, <1>3 DEF Account, DIM_NO_CHANGE
    <3>3. counted[d] = Most(1, asked[d])
      BY <2>3, <2>4, <3>2, <1>3 DEF Most
    <3> QED
      BY <3>1, <3>2, <3>3, <2>1, <2>2, <2>3, <1>4 DEF Pending, Serving
  <2>5. CASE ~(dim_duration[d] = 0 /\ dim_default[d] < DIM_NO_CHANGE)
    <3>1. pc'[APP] = "second"
      BY <2>5, <1>4, <1>6
    <3>2. asked[d] # NONE => counted[d] < Most(1, asked[d])
      BY <2>3, <2>5, <1>3 DEF Most
    <3> QED
      BY <3>1, <3>2, <2>1, <2>2, <2>3, <1>4 DEF Pending, Serving
  <2> QED
    BY <2>4, <2>5
<1>7. CASE d # c
  <2>1. /\ \A u \in Task : InDuration(u, d)' <=> InDuration(u, d)
        /\ \A u \in Task : AtDefault(u, d)' <=> AtDefault(u, d)
        /\ (AtMinute(d)' <=> AtMinute(d)) /\ (AtCheck(d)' <=> AtCheck(d)) /\ (AtExpire(d)' <=> AtExpire(d))
    BY <1>4, <1>7, Tasks DEF InDuration, AtDefault, AtMinute, AtCheck, AtExpire
  <2>2. UNCHANGED cmd
    BY DEF eventVars
  <2> QED
    BY <2>1, <2>2, <1>2, <1>4, <1>7, Tasks DEF Alone, Given, Pending, Account, Serving
<1> QED
  BY <1>6, <1>7

LEMMA ExpireKeepsDurations ==
    ASSUME Types, Durations, NEW c \in Channel, Expire(c), UNCHANGED eventVars
    PROVE  Durations'
<1> SUFFICES ASSUME pc'[APP] # "halted", NEW d \in Channel \ raced'
             PROVE  /\ Alone(d)' /\ (\A u \in Task : Given(u, d)')
                    /\ Pending(d)' /\ Account(d)' /\ Serving(d)'
  BY DEF Durations
<1>1. d \in Channel /\ d \in Channel \ raced
  BY DEF Expire
<1>2. Alone(d) /\ (\A u \in Task : Given(u, d)) /\ Pending(d) /\ Account(d) /\ Serving(d)
  BY <1>1, Tasks DEF Durations, Expire, Goto
<1>3. /\ asked[d] \in Int /\ counted[d] \in Nat /\ dim_duration[d] \in Int /\ dim_default[d] \in Nat
      /\ held \in Nat /\ DIM_MAX \in Nat
  BY <1>1, DimAssumption DEF Types, Timers, Kinds
<1>4. /\ pc[APP] = "expire" /\ i[APP] = c /\ pc'[APP] = "second"
      /\ \A u \in Task : u # APP => pc'[u] = pc[u] /\ i'[u] = i[u]
      /\ UNCHANGED <<dim_duration, held, cmd>>
  BY Tasks DEF Expire, Goto, Types, Places, eventVars
<1>5. d # c => UNCHANGED <<dim_default[d], asked[d], counted[d]>>
  BY <1>1 DEF Expire, Types, Timers, Kinds
<1>6. d = c => ~InDuration(SYS_CMD, d)
  BY <1>2, <1>4, Tasks DEF Alone, InDuration
<1>7. CASE d = c
  <2>1. ~InDuration(SYS_CMD, d)' /\ (\A u \in Task : ~AtDefault(u, d)')
        /\ ~AtMinute(d)' /\ ~AtCheck(d)' /\ ~AtExpire(d)'
    BY <1>4, <1>6, <1>7, Tasks DEF InDuration, AtDefault, AtMinute, AtCheck, AtExpire
  <2>2. dim_default'[d] = DIM_NO_CHANGE /\ asked'[d] = NONE
    BY <1>7 DEF Expire, Types, Timers, Kinds
  <2>3. DIM_NO_CHANGE >= DIM_NO_CHANGE
    BY <1>3 DEF DIM_NO_CHANGE
  <2> QED
    BY <2>1, <2>2, <2>3 DEF Alone, Given, Pending, Account, Serving
<1>8. CASE d # c
  <2>1. /\ \A u \in Task : InDuration(u, d)' <=> InDuration(u, d)
        /\ \A u \in Task : AtDefault(u, d)' <=> AtDefault(u, d)
        /\ (AtMinute(d)' <=> AtMinute(d)) /\ (AtCheck(d)' <=> AtCheck(d)) /\ (AtExpire(d)' <=> AtExpire(d))
    BY <1>4, <1>8, Tasks DEF InDuration, AtDefault, AtMinute, AtCheck, AtExpire
  <2>2. UNCHANGED cmd
    BY DEF eventVars
  <2> QED
    BY <2>1, <2>2, <1>2, <1>4, <1>5, <1>8, Tasks DEF Alone, Given, Pending, Account, Serving
<1> QED
  BY <1>7, <1>8

LEMMA ResumePowerKeepsDurations ==
    ASSUME Types, Durations, ResumePower, UNCHANGED eventVars
    PROVE  Durations'
<1>1. UNCHANGED <<dim_duration, dim_default, held, asked, counted, raced>>
  BY DEF ResumePower, modes, call, durations, emergency, history, dimVars, eventVars
<1>2. Outside(pc[APP]) /\ Outside(pc'[APP]) /\ pc[APP] # "halted"
  BY Tasks DEF ResumePower, Goto, Types, Places, Outside
<1>3. \A u \in Task : u # APP => pc'[u] = pc[u] /\ i'[u] = i[u] /\ cmd'[u] = cmd[u]
  BY Tasks DEF ResumePower, Goto, Types, Places, Kinds, modes, call, durations, emergency,
     history, dimVars, eventVars
<1> QED
  BY <1>1, <1>2, <1>3, Tasks, OutsideDurations

LEMMA SamePowerKeepsDurations ==
    ASSUME Types, Durations, SamePower, UNCHANGED eventVars
    PROVE  Durations'
<1>1. UNCHANGED <<dim_duration, dim_default, held, asked, counted, raced>>
  BY DEF SamePower, modes, call, durations, emergency, history, dimVars, eventVars
<1>2. Outside(pc[APP]) /\ Outside(pc'[APP]) /\ pc[APP] # "halted"
  BY Tasks DEF SamePower, Goto, Types, Places, Outside
<1>3. \A u \in Task : u # APP => pc'[u] = pc[u] /\ i'[u] = i[u] /\ cmd'[u] = cmd[u]
  BY Tasks DEF SamePower, Goto, Types, Places, Kinds, modes, call, durations, emergency,
     history, dimVars, eventVars
<1> QED
  BY <1>1, <1>2, <1>3, Tasks, OutsideDurations

LEMMA PowerDoneKeepsDurations ==
    ASSUME Types, Durations, PowerDone, UNCHANGED eventVars
    PROVE  Durations'
<1>1. UNCHANGED <<dim_duration, dim_default, held, asked, counted, raced>>
  BY DEF PowerDone, modes, call, durations, emergency, history, dimVars, eventVars
<1>2. Outside(pc[APP]) /\ Outside(pc'[APP]) /\ pc[APP] # "halted"
  BY Tasks DEF PowerDone, Goto, Types, Places, Outside
<1>3. \A u \in Task : u # APP => pc'[u] = pc[u] /\ i'[u] = i[u] /\ cmd'[u] = cmd[u]
  BY Tasks DEF PowerDone, Goto, Types, Places, Kinds, modes, call, durations, emergency,
     history, dimVars, eventVars
<1> QED
  BY <1>1, <1>2, <1>3, Tasks, OutsideDurations

LEMMA CountKeepsDurations ==
    ASSUME Types, Durations, Count, UNCHANGED eventVars
    PROVE  Durations'
<1>1. UNCHANGED <<dim_duration, dim_default, held, asked, counted, raced>>
  BY DEF Count, modes, call, durations, emergency, history, dimVars, eventVars
<1>2. Outside(pc[APP]) /\ Outside(pc'[APP]) /\ pc[APP] # "halted"
  BY Tasks DEF Count, Goto, Types, Places, Outside
<1>3. \A u \in Task : u # APP => pc'[u] = pc[u] /\ i'[u] = i[u] /\ cmd'[u] = cmd[u]
  BY Tasks DEF Count, Goto, Types, Places, Kinds, modes, call, durations, emergency,
     history, dimVars, eventVars
<1> QED
  BY <1>1, <1>2, <1>3, Tasks, OutsideDurations

LEMMA RoundDoneKeepsDurations ==
    ASSUME Types, Durations, RoundDone, UNCHANGED eventVars
    PROVE  Durations'
<1>1. UNCHANGED <<dim_duration, dim_default, held, asked, counted, raced>>
  BY DEF RoundDone, modes, call, durations, emergency, history, dimVars, eventVars
<1>2. Outside(pc[APP]) /\ Outside(pc'[APP]) /\ pc[APP] # "halted"
  BY Tasks DEF RoundDone, Goto, Types, Places, Outside
<1>3. \A u \in Task : u # APP => pc'[u] = pc[u] /\ i'[u] = i[u] /\ cmd'[u] = cmd[u]
  BY Tasks DEF RoundDone, Goto, Types, Places, Kinds, modes, call, durations, emergency,
     history, dimVars, eventVars
<1> QED
  BY <1>1, <1>2, <1>3, Tasks, OutsideDurations

LEMMA SaveKeepsDurations ==
    ASSUME Types, Durations, NEW c \in Channel, Save(c), UNCHANGED eventVars
    PROVE  Durations'
<1>1. UNCHANGED <<dim_duration, dim_default, held, asked, counted, raced>>
  BY DEF Save, modes, call, durations, emergency, history, dimVars, eventVars
<1>2. Outside(pc[APP]) /\ Outside(pc'[APP]) /\ pc[APP] # "halted"
  BY Tasks DEF Save, Goto, Types, Places, Outside
<1>3. \A u \in Task : u # APP => pc'[u] = pc[u] /\ i'[u] = i[u] /\ cmd'[u] = cmd[u]
  BY Tasks DEF Save, Goto, Types, Places, Kinds, modes, call, durations, emergency,
     history, dimVars, eventVars
<1> QED
  BY <1>1, <1>2, <1>3, Tasks, OutsideDurations

LEMMA RestoreKeepsDurations ==
    ASSUME Types, Durations, NEW c \in Channel, Restore(c), UNCHANGED eventVars
    PROVE  Durations'
<1>1. UNCHANGED <<dim_duration, dim_default, held, asked, counted, raced>>
  BY DEF Restore, modes, call, durations, emergency, history, dimVars, eventVars
<1>2. Outside(pc[APP]) /\ Outside(pc'[APP]) /\ pc[APP] # "halted"
  BY Tasks DEF Restore, Goto, Types, Places, Outside
<1>3. \A u \in Task : u # APP => pc'[u] = pc[u] /\ i'[u] = i[u] /\ cmd'[u] = cmd[u]
  BY Tasks DEF Restore, Goto, Types, Places, Kinds, modes, call, durations, emergency,
     history, dimVars, eventVars
<1> QED
  BY <1>1, <1>2, <1>3, Tasks, OutsideDurations

LEMMA LossKeepsDurations ==
    ASSUME Types, Durations, Loss
    PROVE  Durations'
<1>1. UNCHANGED <<dim_duration, dim_default, held, asked, counted, raced>>
  BY DEF Loss, LosePower, modes, call, durations, emergency, history, dimVars, eventVars
<1>2. Outside(pc[APP]) /\ Outside(pc'[APP]) /\ pc[APP] # "halted"
  BY Tasks DEF Loss, LosePower, Goto, Types, Places, Outside
<1>3. \A u \in Task : u # APP => pc'[u] = pc[u] /\ i'[u] = i[u] /\ cmd'[u] = cmd[u]
  BY Tasks DEF Loss, LosePower, Goto, Types, Places, Kinds, modes, call, durations,
     emergency, history, dimVars, eventVars
<1> QED
  BY <1>1, <1>2, <1>3, Tasks, OutsideDurations

LEMMA PutDimKeepsDurations ==
    ASSUME Types, Durations, NEW c \in Channel, NEW v \in Nat, PutDim(c, v), UNCHANGED
           <<event, left, cmd, nested, mixed, base>>
    PROVE  Durations'
  BY SameDurations DEF PutDim, modes, call, durations, emergency, history, dimVars,
     eventVars

LEMMA PutPwmModeKeepsDurations ==
    ASSUME Types, Durations, NEW c \in Channel, PutPwmMode(c), UNCHANGED <<event, left,
           cmd, nested, mixed, base>>
    PROVE  Durations'
  BY SameDurations DEF PutPwmMode, modes, call, durations, emergency, history, dimVars,
     eventVars

LEMMA PutModeKeepsDurations ==
    ASSUME Types, Durations, NEW c \in Channel, PutMode(c), UNCHANGED <<event, left,
           cmd, nested, mixed, base>>
    PROVE  Durations'
  BY SameDurations DEF PutMode, modes, call, durations, emergency, history, dimVars,
     eventVars

LEMMA EndsKeepsDurations ==
    ASSUME Types, Durations, NEW t \in Task, Ends(t)
    PROVE  Durations'
<1>1. UNCHANGED <<dim_duration, dim_default, held, asked, counted, raced>>
  BY DEF Ends, Done, modes, call, durations, emergency, history, dimVars, eventVars
<1>2. Outside(pc[t]) /\ Outside(pc'[t]) /\ pc[t] # "halted"
  BY Tasks DEF Ends, Done, Goto, Types, Places, Outside, Parsing
<1>3. \A u \in Task : u # t => pc'[u] = pc[u] /\ i'[u] = i[u] /\ cmd'[u] = cmd[u]
  BY Tasks DEF Ends, Done, Goto, Types, Places, Kinds, modes, call, durations, emergency,
     history, dimVars, eventVars
<1> QED
  BY <1>1, <1>2, <1>3, Tasks, OutsideDurations

LEMMA LoopDoneKeepsDurations ==
    ASSUME Types, Durations, NEW t \in Task, LoopDone(t)
    PROVE  Durations'
<1>1. UNCHANGED <<dim_duration, dim_default, held, asked, counted, raced>>
  BY DEF LoopDone, modes, call, durations, emergency, history, dimVars, eventVars
<1>2. Outside(pc[t]) /\ Outside(pc'[t]) /\ pc[t] # "halted"
  BY Tasks DEF LoopDone, Goto, Types, Places, Outside
<1>3. \A u \in Task : u # t => pc'[u] = pc[u] /\ i'[u] = i[u] /\ cmd'[u] = cmd[u]
  BY Tasks DEF LoopDone, Goto, Types, Places, Kinds, modes, call, durations, emergency,
     history, dimVars, eventVars
<1> QED
  BY <1>1, <1>2, <1>3, Tasks, OutsideDurations

LEMMA LoopKeepsDurations ==
    ASSUME Types, Durations, NEW t \in Task, NEW c \in Channel, Loop(t, c)
    PROVE  Durations'
<1>1. UNCHANGED <<dim_duration, dim_default, held, asked, counted, raced>>
  BY DEF Loop, modes, call, durations, emergency, history, dimVars, eventVars
<1>2. Outside(pc[t]) /\ Outside(pc'[t]) /\ pc[t] # "halted"
  BY Tasks DEF Loop, Goto, Types, Places, Outside
<1>3. \A u \in Task : u # t => pc'[u] = pc[u] /\ i'[u] = i[u] /\ cmd'[u] = cmd[u]
  BY Tasks DEF Loop, Goto, Types, Places, Kinds, modes, call, durations, emergency,
     history, dimVars, eventVars
<1> QED
  BY <1>1, <1>2, <1>3, Tasks, OutsideDurations

LEMMA TakeDimKeepsDurations ==
    ASSUME Types, Durations, NEW t \in Task, NEW k \in CommandType, TakeDim(t, k),
           Parsing(t)
    PROVE  Durations'
<1>1. UNCHANGED <<dim_duration, dim_default, held, asked, counted, raced>>
  BY DEF TakeDim, modes, call, durations, emergency, history, dimVars, eventVars
<1>2. Outside(pc[t]) /\ Outside(pc'[t]) /\ pc[t] # "halted"
  BY Tasks DEF TakeDim, Goto, Types, Places, Outside, Parsing
<1>3. \A u \in Task : u # t => pc'[u] = pc[u] /\ i'[u] = i[u] /\ cmd'[u] = cmd[u]
  BY Tasks DEF TakeDim, Goto, Types, Places, Kinds, modes, call, durations, emergency,
     history, dimVars, eventVars
<1> QED
  BY <1>1, <1>2, <1>3, Tasks, OutsideDurations

LEMMA TakeColourKeepsDurations ==
    ASSUME Types, Durations, NEW t \in Task, NEW k \in CommandType, TakeColour(t, k),
           Parsing(t)
    PROVE  Durations'
<1>1. UNCHANGED <<dim_duration, dim_default, held, asked, counted, raced>>
  BY DEF TakeColour, Done, modes, call, durations, emergency, history, dimVars, eventVars
<1>2. Outside(pc[t]) /\ Outside(pc'[t]) /\ pc[t] # "halted"
  BY Tasks DEF TakeColour, Done, Goto, Types, Places, Outside, Parsing
<1>3. \A u \in Task : u # t => pc'[u] = pc[u] /\ i'[u] = i[u] /\ cmd'[u] = cmd[u]
  BY Tasks DEF TakeColour, Done, Goto, Types, Places, Kinds, modes, call, durations,
     emergency, history, dimVars, eventVars
<1> QED
  BY <1>1, <1>2, <1>3, Tasks, OutsideDurations

LEMMA TakeAttuneKeepsDurations ==
    ASSUME Types, Durations, NEW t \in Task, NEW k \in CommandType, TakeAttune(t, k),
           Parsing(t)
    PROVE  Durations'
<1>1. UNCHANGED <<dim_duration, dim_default, held, asked, counted, raced>>
  BY DEF TakeAttune, Done, modes, call, durations, emergency, history, dimVars, eventVars
<1>2. Outside(pc[t]) /\ Outside(pc'[t]) /\ pc[t] # "halted"
  BY Tasks DEF TakeAttune, Done, Goto, Types, Places, Outside, Parsing
<1>3. \A u \in Task : u # t => pc'[u] = pc[u] /\ i'[u] = i[u] /\ cmd'[u] = cmd[u]
  BY Tasks DEF TakeAttune, Done, Goto, Types, Places, Kinds, modes, call, durations,
     emergency, history, dimVars, eventVars
<1> QED
  BY <1>1, <1>2, <1>3, Tasks, OutsideDurations

LEMMA TrapKeepsDurations ==
    ASSUME Types, Durations, NEW t \in Task, NEW k \in CommandType, Trap(t, k)
    PROVE  Durations'
<1>1. pc'[APP] = "halted"
  BY Tasks DEF Trap
<1> QED
  BY <1>1 DEF Durations

LEMMA SetsValueKeepsDurations ==
    ASSUME Types, Durations, NEW t \in Task, SetsValue(t)
    PROVE  Durations'
  BY SameDurations DEF SetsValue, SetValue, modes, call, durations, emergency, history,
     dimVars, eventVars

LEMMA SetLampKeepsDurations ==
    ASSUME Types, Durations, NEW t \in Task, SetLamp(t), UNCHANGED eventVars
    PROVE  Durations'
  BY SameDurations DEF SetLamp, modes, call, durations, emergency, history, dimVars,
     eventVars

LEMMA NoteKeepsDurations ==
    ASSUME Types, Durations, NEW t \in Task, Note(t)
    PROVE  Durations'
  BY SameDurations DEF Note, modes, call, durations, emergency, history, dimVars, eventVars

LEMMA BeginKeepsDurations ==
    ASSUME Types, Durations, NEW t \in Task, NEW e \in EventType, Begin(t, e)
    PROVE  Durations'
<1>1. UNCHANGED <<dim_duration, dim_default, held, asked, counted, raced>>
  BY DEF Begin, modes, call, durations, emergency, history, dimVars, eventVars
<1>2. Outside(pc[t]) /\ Outside(pc'[t]) /\ pc[t] # "halted"
  BY Tasks DEF Begin, Goto, Types, Places, Outside
<1>3. \A u \in Task : u # t => pc'[u] = pc[u] /\ i'[u] = i[u] /\ cmd'[u] = cmd[u]
  BY Tasks DEF Begin, Goto, Types, Places, Kinds, modes, call, durations, emergency,
     history, dimVars, eventVars
<1> QED
  BY <1>1, <1>2, <1>3, Tasks, OutsideDurations

-----------------------------------------------------------------------------
(* Every action keeps what the outputs show *)

LEMMA SameOutputs ==
    ASSUME OutputsFollow, UNCHANGED <<torn, dim_values, lamp, is_at, setting, channel>>
    PROVE  OutputsFollow'
  BY DEF OutputsFollow, Reached

\* A call of control_set_dim_value by a task that is in none.
LEMMA CallingOutputs ==
    ASSUME OutputsFollow, NEW t \in Task, setting[t] # "lamp", UNCHANGED <<dim_values,
           lamp, is_at>>,
           ~torn' => ~torn, \A u \in Task : u # t => setting'[u] = setting[u] /\ channel'[u] = channel[u]
    PROVE  OutputsFollow'
<1> SUFFICES ASSUME ~torn', NEW c \in Channel
             PROVE  \/ lamp[c] = Limited(dim_values[c])
                    \/ \E u \in Task : setting'[u] = "lamp" /\ c \in Reached(channel'[u])
  BY DEF OutputsFollow, Reached
<1>1. \/ lamp[c] = Limited(dim_values[c])
      \/ \E u \in Task : setting[u] = "lamp" /\ c \in Reached(channel[u])
  BY DEF OutputsFollow
<1> QED
  BY <1>1

LEMMA SameWaits ==
    ASSUME Waits, setting'[APP] = setting[APP], pc'[APP] = pc[APP]
    PROVE  Waits'
  BY DEF Waits, Setting

LEMMA IdleWaits ==
    ASSUME setting'[APP] = "no"
    PROVE  Waits'
  BY DEF Waits, Setting

LEMMA BusyWaits ==
    ASSUME pc'[APP] \in {"save", "restore", "expire", "parse", "loop", "duration", "halted"}
    PROVE  Waits'
  BY DEF Waits

LEMMA ResumePowerKeepsOutputs ==
    ASSUME Types, Waits, OutputsFollow, ResumePower, UNCHANGED eventVars
    PROVE  Waits' /\ OutputsFollow'
<1>1. setting'[APP] = "no" /\ UNCHANGED <<torn, dim_values, lamp, is_at, setting, channel>>
  BY Tasks DEF ResumePower, Waits, Setting, modes, call, durations, emergency, history,
     dimVars
<1> QED
  BY <1>1, SameOutputs, IdleWaits

LEMMA SamePowerKeepsOutputs ==
    ASSUME Types, Waits, OutputsFollow, SamePower, UNCHANGED eventVars
    PROVE  Waits' /\ OutputsFollow'
<1>1. setting'[APP] = "no" /\ UNCHANGED <<torn, dim_values, lamp, is_at, setting, channel>>
  BY Tasks DEF SamePower, Waits, Setting, modes, call, durations, emergency, history,
     dimVars
<1> QED
  BY <1>1, SameOutputs, IdleWaits

LEMMA PowerDoneKeepsOutputs ==
    ASSUME Types, Waits, OutputsFollow, PowerDone, UNCHANGED eventVars
    PROVE  Waits' /\ OutputsFollow'
<1>1. setting'[APP] = "no" /\ UNCHANGED <<torn, dim_values, lamp, is_at, setting, channel>>
  BY Tasks DEF PowerDone, Waits, Setting, modes, call, durations, emergency, history,
     dimVars
<1> QED
  BY <1>1, SameOutputs, IdleWaits

LEMMA CountKeepsOutputs ==
    ASSUME Types, Waits, OutputsFollow, Count, UNCHANGED eventVars
    PROVE  Waits' /\ OutputsFollow'
<1>1. setting'[APP] = "no" /\ UNCHANGED <<torn, dim_values, lamp, is_at, setting, channel>>
  BY Tasks DEF Count, Waits, Setting, modes, call, durations, emergency, history, dimVars
<1> QED
  BY <1>1, SameOutputs, IdleWaits

LEMMA RoundDoneKeepsOutputs ==
    ASSUME Types, Waits, OutputsFollow, RoundDone, UNCHANGED eventVars
    PROVE  Waits' /\ OutputsFollow'
<1>1. setting'[APP] = "no" /\ UNCHANGED <<torn, dim_values, lamp, is_at, setting, channel>>
  BY Tasks DEF RoundDone, Waits, Setting, modes, call, durations, emergency, history,
     dimVars
<1> QED
  BY <1>1, SameOutputs, IdleWaits

LEMMA SaveKeepsOutputs ==
    ASSUME Types, Waits, OutputsFollow, NEW c \in Channel, Save(c), UNCHANGED eventVars
    PROVE  Waits' /\ OutputsFollow'
<1>1. setting[APP] = "no"
  BY DEF Save, Waits, Setting
<1>2. UNCHANGED <<torn, dim_values, lamp, is_at>>
  BY DEF Save, modes, call, durations, emergency, history, dimVars
<1>3. \A u \in Task : u # APP => setting'[u] = setting[u] /\ channel'[u] = channel[u]
  BY Tasks DEF Save, CallSetDim, call, Types, Values
<1>4. OutputsFollow'
  BY <1>1, <1>2, <1>3, Tasks, CallingOutputs
<1>5. pc'[APP] = "save"
  BY Tasks DEF Save, Goto, Types, Places
<1> QED
  BY <1>4, <1>5, BusyWaits

LEMMA RestoreKeepsOutputs ==
    ASSUME Types, Waits, OutputsFollow, NEW c \in Channel, Restore(c), UNCHANGED eventVars
    PROVE  Waits' /\ OutputsFollow'
<1>1. setting[APP] = "no"
  BY DEF Restore, Waits, Setting
<1>2. UNCHANGED <<torn, dim_values, lamp, is_at>>
  BY DEF Restore, modes, call, durations, emergency, history, dimVars
<1>3. \A u \in Task : u # APP => setting'[u] = setting[u] /\ channel'[u] = channel[u]
  BY Tasks DEF Restore, CallSetDim, call, Types, Values
<1>4. OutputsFollow'
  BY <1>1, <1>2, <1>3, Tasks, CallingOutputs
<1>5. pc'[APP] = "restore"
  BY Tasks DEF Restore, Goto, Types, Places
<1> QED
  BY <1>4, <1>5, BusyWaits

LEMMA SecondKeepsOutputs ==
    ASSUME Types, Waits, OutputsFollow, NEW c \in Channel, Second(c), UNCHANGED eventVars
    PROVE  Waits' /\ OutputsFollow'
<1>1. setting'[APP] = "no" /\ UNCHANGED <<torn, dim_values, lamp, is_at, setting, channel>>
  BY Tasks DEF Second, Waits, Setting, modes, call, durations, emergency, history, dimVars
<1> QED
  BY <1>1, SameOutputs, IdleWaits

LEMMA MinuteKeepsOutputs ==
    ASSUME Types, Waits, OutputsFollow, NEW c \in Channel, Minute(c), UNCHANGED eventVars
    PROVE  Waits' /\ OutputsFollow'
<1>1. setting'[APP] = "no" /\ UNCHANGED <<torn, dim_values, lamp, is_at, setting, channel>>
  BY Tasks DEF Minute, Waits, Setting, modes, call, durations, emergency, history, dimVars
<1> QED
  BY <1>1, SameOutputs, IdleWaits

LEMMA CheckKeepsOutputs ==
    ASSUME Types, Waits, OutputsFollow, NEW c \in Channel, Check(c), UNCHANGED eventVars
    PROVE  Waits' /\ OutputsFollow'
<1>1. setting[APP] = "no"
  BY DEF Check, Waits, Setting
<1>2. UNCHANGED <<torn, dim_values, lamp, is_at>>
  BY DEF Check, modes, call, durations, emergency, history, dimVars
<1>3. \A u \in Task : u # APP => setting'[u] = setting[u] /\ channel'[u] = channel[u]
  BY Tasks DEF Check, CallSetDim, call, Types, Values
<1>4. OutputsFollow'
  BY <1>1, <1>2, <1>3, Tasks, CallingOutputs
<1>5. pc'[APP] = "expire" \/ setting'[APP] = "no"
  BY <1>1, Tasks DEF Check, Goto, Types, Places, call
<1> QED
  BY <1>4, <1>5, BusyWaits, IdleWaits

LEMMA ExpireKeepsOutputs ==
    ASSUME Types, Waits, OutputsFollow, NEW c \in Channel, Expire(c), UNCHANGED eventVars
    PROVE  Waits' /\ OutputsFollow'
<1>1. setting'[APP] = "no" /\ UNCHANGED <<torn, dim_values, lamp, is_at, setting, channel>>
  BY Tasks DEF Expire, Waits, Setting, modes, call, durations, emergency, history, dimVars
<1> QED
  BY <1>1, SameOutputs, IdleWaits

LEMMA LossKeepsOutputs ==
    ASSUME Types, Waits, OutputsFollow, Loss
    PROVE  Waits' /\ OutputsFollow'
<1>1. setting'[APP] = "no" /\ UNCHANGED <<torn, dim_values, lamp, is_at, setting, channel>>
  BY Tasks DEF Loss, LosePower, Waits, Setting, modes, call, durations, emergency,
     history, dimVars
<1> QED
  BY <1>1, SameOutputs, IdleWaits

LEMMA PutDimKeepsOutputs ==
    ASSUME Types, Waits, OutputsFollow, NEW c \in Channel, NEW v \in Nat, PutDim(c, v),
           UNCHANGED <<event, left, cmd, nested, mixed, base>>
    PROVE  Waits' /\ OutputsFollow'
<1>1. setting[SYS_CMD] = "no" /\ UNCHANGED <<pc, torn, dim_values, lamp, is_at>>
  BY DEF PutDim, Setting, modes, history
<1>2. \A u \in Task : u # SYS_CMD => setting'[u] = setting[u] /\ channel'[u] = channel[u]
  BY Tasks DEF PutDim, CallSetDim, Types, Values
<1>3. OutputsFollow'
  BY <1>1, <1>2, Tasks, CallingOutputs
<1> QED
  BY <1>1, <1>2, <1>3, Tasks, SameWaits

LEMMA PutPwmModeKeepsOutputs ==
    ASSUME Types, Waits, OutputsFollow, NEW c \in Channel, PutPwmMode(c), UNCHANGED
           <<event, left, cmd, nested, mixed, base>>
    PROVE  Waits' /\ OutputsFollow'
<1>1. UNCHANGED <<pc, dim_values, lamp, setting, channel>> /\ setting[SYS_CMD] = "no"
  BY DEF PutPwmMode, Setting, call
<1>2. ~torn' => ~torn /\ setting[APP] # "lamp"
  BY DEF PutPwmMode
<1>3. OutputsFollow'
  BY <1>1, <1>2, Tasks DEF OutputsFollow
<1> QED
  BY <1>1, <1>3, SameWaits

LEMMA PutModeKeepsOutputs ==
    ASSUME Types, Waits, OutputsFollow, NEW c \in Channel, PutMode(c), UNCHANGED
           <<event, left, cmd, nested, mixed, base>>
    PROVE  Waits' /\ OutputsFollow'
<1>1. UNCHANGED <<pc, torn, dim_values, lamp, is_at, setting, channel>>
  BY DEF PutMode, modes, call, durations, emergency, history, dimVars
<1> QED
  BY <1>1, SameOutputs, SameWaits

LEMMA EndsKeepsOutputs ==
    ASSUME Types, Waits, OutputsFollow, NEW t \in Task, Ends(t)
    PROVE  Waits' /\ OutputsFollow'
<1>1. UNCHANGED <<torn, dim_values, lamp, is_at, setting, channel>>
  BY DEF Ends, Done, modes, call, durations, emergency, history, dimVars
<1>2. t = APP => setting[APP] = "no"
  BY DEF Ends, Done, Parsing, Waits, Setting
<1>3. t # APP => pc'[APP] = pc[APP]
  BY Tasks DEF Ends, Done, Goto, Types, Places
<1> QED
  BY <1>1, <1>2, <1>3, SameOutputs, SameWaits, IdleWaits

LEMMA LoopDoneKeepsOutputs ==
    ASSUME Types, Waits, OutputsFollow, NEW t \in Task, LoopDone(t)
    PROVE  Waits' /\ OutputsFollow'
<1>1. UNCHANGED <<torn, dim_values, lamp, is_at, setting, channel>>
  BY DEF LoopDone, modes, call, durations, emergency, history, dimVars
<1>2. t = APP => setting[APP] = "no"
  BY DEF LoopDone, Parsing, Waits, Setting
<1>3. t # APP => pc'[APP] = pc[APP]
  BY Tasks DEF LoopDone, Goto, Types, Places
<1> QED
  BY <1>1, <1>2, <1>3, SameOutputs, SameWaits, IdleWaits

LEMMA LoopKeepsOutputs ==
    ASSUME Types, Waits, OutputsFollow, NEW t \in Task, NEW c \in Channel, Loop(t, c)
    PROVE  Waits' /\ OutputsFollow'
<1>1. setting[t] = "no" /\ UNCHANGED <<torn, dim_values, lamp, is_at>>
  BY DEF Loop, Setting, modes, history
<1>2. \A u \in Task : u # t => setting'[u] = setting[u] /\ channel'[u] = channel[u] /\ pc'[u] = pc[u]
  BY Tasks DEF Loop, CallSetDim, Goto, call, Types, Values, Places
<1>3. OutputsFollow'
  BY <1>1, <1>2, CallingOutputs
<1>4. pc'[t] \in {"loop", "duration"}
  BY DEF Loop, Goto, Types, Places
<1> QED
  BY <1>2, <1>3, <1>4, Tasks, SameWaits, BusyWaits

LEMMA SetDurationKeepsOutputs ==
    ASSUME Types, Waits, OutputsFollow, NEW t \in Task, NEW c \in Channel, SetDuration(t, c)
    PROVE  Waits' /\ OutputsFollow'
<1>1. UNCHANGED <<torn, dim_values, lamp, is_at, setting, channel>>
  BY DEF SetDuration, modes, call, durations, emergency, history, dimVars
<1>2. t = APP => setting[APP] = "no"
  BY DEF SetDuration, Parsing, Waits, Setting
<1>3. t # APP => pc'[APP] = pc[APP]
  BY Tasks DEF SetDuration, Goto, Types, Places
<1> QED
  BY <1>1, <1>2, <1>3, SameOutputs, SameWaits, IdleWaits

LEMMA SetDefaultKeepsOutputs ==
    ASSUME Types, Waits, OutputsFollow, NEW t \in Task, NEW c \in Channel, SetDefault(t, c)
    PROVE  Waits' /\ OutputsFollow'
<1>1. UNCHANGED <<torn, dim_values, lamp, is_at, setting, channel>>
  BY DEF SetDefault, modes, call, durations, emergency, history, dimVars
<1>2. t = APP => setting[APP] = "no"
  BY DEF SetDefault, Parsing, Waits, Setting
<1>3. t # APP => pc'[APP] = pc[APP]
  BY Tasks DEF SetDefault, Goto, Types, Places
<1> QED
  BY <1>1, <1>2, <1>3, SameOutputs, SameWaits, IdleWaits

LEMMA TakeDimKeepsOutputs ==
    ASSUME Types, Waits, OutputsFollow, NEW t \in Task, NEW k \in CommandType,
           TakeDim(t, k), Parsing(t)
    PROVE  Waits' /\ OutputsFollow'
<1>1. UNCHANGED <<torn, dim_values, lamp, is_at, setting, channel>>
  BY DEF TakeDim, modes, call, durations, emergency, history, dimVars
<1>2. t = APP => setting[APP] = "no"
  BY DEF TakeDim, Parsing, Waits, Setting
<1>3. t # APP => pc'[APP] = pc[APP]
  BY Tasks DEF TakeDim, Goto, Types, Places
<1> QED
  BY <1>1, <1>2, <1>3, SameOutputs, SameWaits, IdleWaits

LEMMA TakeColourKeepsOutputs ==
    ASSUME Types, Waits, OutputsFollow, NEW t \in Task, NEW k \in CommandType,
           TakeColour(t, k), Parsing(t)
    PROVE  Waits' /\ OutputsFollow'
<1>1. setting[t] = "no" /\ pc[t] = "parse" /\ UNCHANGED <<dim_values, lamp, is_at>>
  BY DEF TakeColour, Parsing, Setting, modes
<1>2. ~torn' => ~torn
  BY DEF TakeColour, CallSetAt
<1>3. \A u \in Task : u # t => setting'[u] = setting[u] /\ channel'[u] = channel[u] /\ pc'[u] = pc[u]
  BY Tasks DEF TakeColour, Done, CallSetAt, Goto, call, Types, Values, Places
<1>4. OutputsFollow'
  BY <1>1, <1>2, <1>3, CallingOutputs
<1>5. pc'[t] = "parse" \/ setting'[t] = "no"
  BY <1>1 DEF TakeColour, call
<1> QED
  BY <1>3, <1>4, <1>5, Tasks, SameWaits, IdleWaits, BusyWaits

LEMMA TakeAttuneKeepsOutputs ==
    ASSUME Types, Waits, OutputsFollow, NEW t \in Task, NEW k \in CommandType,
           TakeAttune(t, k), Parsing(t)
    PROVE  Waits' /\ OutputsFollow'
<1>1. setting[t] = "no" /\ pc[t] = "parse" /\ UNCHANGED <<dim_values, lamp, is_at>>
  BY DEF TakeAttune, Parsing, Setting, modes
<1>2. ~torn' => ~torn
  BY DEF TakeAttune, CallSetAt
<1>3. \A u \in Task : u # t => setting'[u] = setting[u] /\ channel'[u] = channel[u] /\ pc'[u] = pc[u]
  BY Tasks DEF TakeAttune, Done, CallSetAt, Goto, call, Types, Values, Places
<1>4. OutputsFollow'
  BY <1>1, <1>2, <1>3, CallingOutputs
<1>5. pc'[t] = "parse" \/ setting'[t] = "no"
  BY <1>1 DEF TakeAttune, call
<1> QED
  BY <1>3, <1>4, <1>5, Tasks, SameWaits, IdleWaits, BusyWaits

LEMMA TrapKeepsOutputs ==
    ASSUME Types, Waits, OutputsFollow, NEW t \in Task, NEW k \in CommandType, Trap(t,
           k), Parsing(t)
    PROVE  Waits' /\ OutputsFollow'
<1>1. pc'[APP] = "halted" /\ UNCHANGED <<torn, dim_values, lamp, is_at, setting, channel>>
  BY Tasks DEF Trap, modes, call, durations, emergency, history, dimVars
<1> QED
  BY <1>1, SameOutputs, BusyWaits

LEMMA SetsValueKeepsOutputs ==
    ASSUME Types, Waits, OutputsFollow, NEW t \in Task, SetsValue(t)
    PROVE  Waits' /\ OutputsFollow'
<1> DEFINE to == Reached(channel[t])
<1>1. /\ UNCHANGED <<pc, lamp, is_at, channel>> /\ setting[t] = "value" /\ setting'[t] = "lamp"
      /\ \A u \in Task : u # t => setting'[u] = setting[u]
      /\ \A c \in Channel \ to : dim_values'[c] = dim_values[c]
  BY DEF SetsValue, SetValue, modes, Types, Values
<1>2. ~torn' => ~torn
  BY DEF SetsValue, SetValue
<1>3. SUFFICES ASSUME ~torn', NEW c \in Channel
               PROVE  \/ lamp[c] = Limited(dim_values'[c])
                      \/ \E u \in Task : setting'[u] = "lamp" /\ c \in Reached(channel[u])
  <2>1. OutputsFollow'
    BY <1>1, <1>3 DEF OutputsFollow, Reached
  <2>2. Waits'
    BY <1>1, Tasks DEF Waits, Setting
  <2> QED
    BY <2>1, <2>2
<1>4. CASE c \in to
  BY <1>1, <1>4
<1>5. CASE c \notin to
  <2>1. \/ lamp[c] = Limited(dim_values[c])
        \/ \E u \in Task : setting[u] = "lamp" /\ c \in Reached(channel[u])
    BY <1>2, <1>3 DEF OutputsFollow
  <2>2. dim_values'[c] = dim_values[c]
    BY <1>1, <1>5
  <2>3. \A u \in Task : setting[u] = "lamp" => setting'[u] = "lamp"
    BY <1>1
  <2> HIDE DEF to
  <2> QED
    BY <2>1, <2>2, <2>3
<1> QED
  BY <1>4, <1>5

LEMMA SetLampKeepsOutputs ==
    ASSUME Types, Waits, OutputsFollow, NEW t \in Task, SetLamp(t), UNCHANGED eventVars
    PROVE  Waits' /\ OutputsFollow'
<1> DEFINE to == Reached(channel[t])
<1>1. /\ UNCHANGED <<pc, dim_values, is_at>> /\ setting[t] = "lamp" /\ setting'[t] = "no"
      /\ \A u \in Task : u # t => setting'[u] = setting[u] /\ channel'[u] = channel[u]
      /\ \A c \in Channel \ to : lamp'[c] = lamp[c]
      /\ \A c \in Channel : c \in to => lamp'[c] = Limited(new_value[t])
  BY DEF SetLamp, Returned, modes, Types, Values
<1>2. ~torn' => ~torn /\ \A c \in to : dim_values[c] = new_value[t]
  BY DEF SetLamp
<1>3. SUFFICES ASSUME ~torn', NEW c \in Channel
               PROVE  \/ lamp'[c] = Limited(dim_values[c])
                      \/ \E u \in Task : setting'[u] = "lamp" /\ c \in Reached(channel'[u])
  <2>1. OutputsFollow'
    BY <1>1, <1>3 DEF OutputsFollow, Reached
  <2>2. Waits'
    BY <1>1, Tasks DEF Waits, Setting
  <2> QED
    BY <2>1, <2>2
<1>4. CASE c \in to
  BY <1>1, <1>2, <1>3, <1>4
<1>5. CASE c \notin to
  <2>1. \/ lamp[c] = Limited(dim_values[c])
        \/ \E u \in Task : u # t /\ setting[u] = "lamp" /\ c \in Reached(channel[u])
    BY <1>2, <1>3, <1>5 DEF OutputsFollow
  <2>2. lamp'[c] = lamp[c]
    BY <1>1, <1>5
  <2>3. \A u \in Task : u # t => setting'[u] = setting[u] /\ channel'[u] = channel[u]
    BY <1>1
  <2> HIDE DEF to
  <2> QED
    BY <2>1, <2>2, <2>3
<1> QED
  BY <1>4, <1>5

LEMMA NoteKeepsOutputs ==
    ASSUME Types, Waits, OutputsFollow, NEW t \in Task, Note(t)
    PROVE  Waits' /\ OutputsFollow'
<1>1. UNCHANGED <<pc, torn, dim_values, lamp, is_at, setting, channel>>
  BY DEF Note, modes, call, durations, emergency, history, dimVars
<1> QED
  BY <1>1, SameOutputs, SameWaits

LEMMA BeginKeepsOutputs ==
    ASSUME Types, Waits, OutputsFollow, NEW t \in Task, NEW e \in EventType, Begin(t, e)
    PROVE  Waits' /\ OutputsFollow'
<1>1. UNCHANGED <<torn, dim_values, lamp, is_at, setting, channel>>
  BY DEF Begin, modes, call, durations, emergency, history, dimVars
<1>2. t = APP => setting[APP] = "no"
  BY DEF Begin, Parsing, Waits, Setting
<1>3. t # APP => pc'[APP] = pc[APP]
  BY Tasks DEF Begin, Goto, Types, Places
<1> QED
  BY <1>1, <1>2, <1>3, SameOutputs, SameWaits, IdleWaits

-----------------------------------------------------------------------------
(* Every action keeps the account of an outage *)

\* A task at p is in no loop over the emergency values.
Elsewhere(p) == p \notin {"save", "restore"}

LEMMA ElsewhereOutage ==
    ASSUME Outage, UNCHANGED <<is_at, is_els, dim_values, dim_save, before,
           external_power_running>>,
           Elsewhere(pc[APP]), Elsewhere(pc'[APP]), pc'[APP] # "halted" => pc[APP] # "halted"
    PROVE  Outage'
  BY DEF Outage, Direction, OutageOf, Kept, Elsewhere

\* The APP task stays where it is, and sets no value or goes on to.
LEMMA SameOutage ==
    ASSUME Outage, UNCHANGED <<is_at, is_els, dim_values, dim_save, before,
           external_power_running>>,
           pc'[APP] = pc[APP], i'[APP] = i[APP],
           \/ UNCHANGED <<setting[APP], channel[APP], new_value[APP]>>
           \/ setting[APP] # "value" /\ setting'[APP] # "value"
    PROVE  Outage'
  BY DEF Outage, Direction, OutageOf, Kept, AboutToSet

\* The APP task stays where it is.
OtherApp == /\ pc'[APP] = pc[APP] /\ i'[APP] = i[APP]
            /\ UNCHANGED <<setting[APP], channel[APP], new_value[APP]>>

LEMMA ResumePowerKeepsOutage ==
    ASSUME Types, Outage, ResumePower, UNCHANGED eventVars
    PROVE  Outage'
<1> SUFFICES ASSUME pc'[APP] # "halted"
             PROVE  Direction' /\ \A d \in Channel : before'[d] # NONE => OutageOf(d)'
  BY DEF Outage
<1>1. /\ pc[APP] \in {"rest", "poe"} /\ pc'[APP] = "restore" /\ i'[APP] = 1 /\ setting'[APP] = "no"
      /\ external_power_running /\ ~external_power_running'
  BY Tasks DEF ResumePower, Goto, Setting, call, Types, Places
<1>2. UNCHANGED <<is_at, is_els, dim_values, dim_save, before>>
  BY DEF ResumePower, modes, history
<1>3. Direction'
  BY <1>1 DEF Direction
<1>4. ASSUME NEW d \in Channel, before'[d] # NONE PROVE OutageOf(d)'
  <2>1. (\A x \in Channel : ~is_at[x]) /\ Kept(d)
    BY <1>1, <1>2, <1>4 DEF Outage, OutageOf
  <2>2. Kept(d)' /\ 1 <= d
    BY <2>1, <1>2 DEF Kept, Channel
  <2> QED
    BY <1>1, <1>2, <2>1, <2>2 DEF OutageOf
<1> QED
  BY <1>3, <1>4

LEMMA SamePowerKeepsOutage ==
    ASSUME Types, Outage, SamePower, UNCHANGED eventVars
    PROVE  Outage'
<1>1. UNCHANGED <<is_at, is_els, dim_values, dim_save, before, external_power_running>>
  BY DEF SamePower, modes, call, emergency, history, dimVars, eventVars
<1>2. Elsewhere(pc[APP]) /\ Elsewhere(pc'[APP]) /\ pc[APP] # "halted"
  BY Tasks DEF SamePower, Goto, Types, Places, Elsewhere
<1> QED
  BY <1>1, <1>2, ElsewhereOutage

LEMMA PowerDoneKeepsOutage ==
    ASSUME Types, Outage, PowerDone, UNCHANGED eventVars
    PROVE  Outage'
<1> SUFFICES ASSUME pc'[APP] # "halted"
             PROVE  Direction' /\ \A d \in Channel : before'[d] # NONE => OutageOf(d)'
  BY DEF Outage
<1>1. /\ pc[APP] \in {"save", "restore"} /\ i[APP] = 3 /\ pc'[APP] = "count" /\ setting[APP] = "no"
  BY Tasks DEF PowerDone, Goto, Setting, Types, Places
<1>2. UNCHANGED <<is_at, is_els, dim_values, dim_save, before, external_power_running>>
  BY DEF PowerDone, modes, history, emergency
<1>3. Direction'
  BY <1>1 DEF Direction
<1>4. ASSUME NEW d \in Channel, before'[d] # NONE PROVE OutageOf(d)'
  <2>1. Direction /\ OutageOf(d)
    BY <1>1, <1>2, <1>4 DEF Outage
  <2>2. 3 > d /\ ~(3 <= d)
    BY DEF Channel
  <2>3. IF external_power_running THEN Kept(d) ELSE dim_values[d] = before[d]
    BY <1>1, <2>1, <2>2 DEF Direction, OutageOf, AboutToSet
  <2>4. Kept(d)' <=> Kept(d)
    BY <1>2 DEF Kept
  <2> QED
    BY <1>1, <1>2, <2>1, <2>3, <2>4 DEF OutageOf
<1> QED
  BY <1>3, <1>4

LEMMA CountKeepsOutage ==
    ASSUME Types, Outage, Count, UNCHANGED eventVars
    PROVE  Outage'
<1>1. UNCHANGED <<is_at, is_els, dim_values, dim_save, before, external_power_running>>
  BY DEF Count, modes, call, emergency, history, dimVars, eventVars
<1>2. Elsewhere(pc[APP]) /\ Elsewhere(pc'[APP]) /\ pc[APP] # "halted"
  BY Tasks DEF Count, Goto, Types, Places, Elsewhere
<1> QED
  BY <1>1, <1>2, ElsewhereOutage

LEMMA RoundDoneKeepsOutage ==
    ASSUME Types, Outage, RoundDone, UNCHANGED eventVars
    PROVE  Outage'
<1>1. UNCHANGED <<is_at, is_els, dim_values, dim_save, before, external_power_running>>
  BY DEF RoundDone, modes, call, emergency, history, dimVars, eventVars
<1>2. Elsewhere(pc[APP]) /\ Elsewhere(pc'[APP]) /\ pc[APP] # "halted"
  BY Tasks DEF RoundDone, Goto, Types, Places, Elsewhere
<1> QED
  BY <1>1, <1>2, ElsewhereOutage

LEMMA SaveKeepsOutage ==
    ASSUME Types, Outage, NEW c \in Channel, Save(c), UNCHANGED eventVars
    PROVE  Outage'
<1> SUFFICES ASSUME pc'[APP] # "halted"
             PROVE  Direction' /\ \A d \in Channel : before'[d] # NONE => OutageOf(d)'
  BY DEF Outage
<1>1. /\ pc[APP] = "save" /\ i[APP] = c /\ setting[APP] = "no" /\ pc'[APP] = "save" /\ i'[APP] = c + 1
      /\ UNCHANGED <<is_at, is_els, dim_values, before, external_power_running>>
  BY Tasks DEF Save, Goto, Setting, modes, history, Types, Places
<1>2. /\ is_els[c] => dim_save'[c] = dim_values[c] /\ channel'[APP] = c
      /\ ~is_els[c] => setting'[APP] = "no"
      /\ \A d \in Channel : d # c => dim_save'[d] = dim_save[d]
  BY <1>1, Tasks DEF Save, CallSetDim, call, Types, Values
<1>3. Direction'
  BY <1>1, <1>2, Channels DEF Outage, Direction, Channel
<1>4. ASSUME NEW d \in Channel, before'[d] # NONE PROVE OutageOf(d)'
  <2>1. OutageOf(d)
    BY <1>1, <1>4 DEF Outage
  <2>2. /\ \A x \in Channel : ~is_at[x]
        /\ IF c > d THEN Kept(d) ELSE dim_values[d] = before[d]
    BY <1>1, <2>1 DEF OutageOf
  <2>3. CASE d = c
    <3>1. dim_values[d] = before[d] /\ c + 1 > d
      BY <2>2, <2>3 DEF Channel
    <3>2. Kept(d)'
      BY <3>1, <1>1, <1>2, <2>3 DEF Kept
    <3> QED
      BY <3>1, <3>2, <1>1, <1>2, <2>2, <2>3 DEF OutageOf, AboutToSet
  <2>4. CASE d # c
    <3>1. (c + 1 > d <=> c > d)
      BY <2>4 DEF Channel
    <3>2. Kept(d)' <=> Kept(d)
      BY <1>1, <1>2, <2>4 DEF Kept
    <3>3. ~AboutToSet(d)'
      BY <1>2, <2>4 DEF AboutToSet
    <3> QED
      BY <3>1, <3>2, <3>3, <1>1, <2>2 DEF OutageOf
  <2> QED
    BY <2>3, <2>4
<1> QED
  BY <1>3, <1>4

LEMMA RestoreKeepsOutage ==
    ASSUME Types, Outage, NEW c \in Channel, Restore(c), UNCHANGED eventVars
    PROVE  Outage'
<1> SUFFICES ASSUME pc'[APP] # "halted"
             PROVE  Direction' /\ \A d \in Channel : before'[d] # NONE => OutageOf(d)'
  BY DEF Outage
<1>1. /\ pc[APP] = "restore" /\ i[APP] = c /\ setting[APP] = "no" /\ pc'[APP] = "restore" /\ i'[APP] = c + 1
      /\ UNCHANGED <<is_at, is_els, dim_values, before, external_power_running, dim_save>>
  BY Tasks DEF Restore, Goto, Setting, modes, history, emergency, Types, Places
<1>2. /\ is_els[c] => setting'[APP] = "value" /\ channel'[APP] = c /\ new_value'[APP] = dim_save[c]
      /\ ~is_els[c] => setting'[APP] = "no"
  BY <1>1, Tasks DEF Restore, CallSetDim, call, Types, Values
<1>3. Direction'
  BY <1>1, <1>2, Channels DEF Outage, Direction, Channel
<1>4. ASSUME NEW d \in Channel, before'[d] # NONE PROVE OutageOf(d)'
  <2>1. OutageOf(d)
    BY <1>1, <1>4 DEF Outage
  <2>2. /\ \A x \in Channel : ~is_at[x]
        /\ \/ c <= d /\ Kept(d)
           \/ c > d /\ dim_values[d] = before[d]
    BY <1>1, <2>1 DEF OutageOf, AboutToSet
  <2>3. CASE d = c
    <3>1. Kept(d) /\ c + 1 > d
      BY <2>2, <2>3 DEF Channel
    <3>2. IF AboutToSet(d)' THEN new_value'[APP] = before[d] ELSE dim_values[d] = before[d]
      BY <3>1, <1>1, <1>2, <2>3 DEF Kept, AboutToSet
    <3> QED
      BY <3>1, <3>2, <1>1, <2>2 DEF OutageOf
  <2>4. CASE d # c
    <3>1. (c <= d => c + 1 <= d) /\ (c > d => c + 1 > d)
      BY <2>4 DEF Channel
    <3>2. (Kept(d)' <=> Kept(d)) /\ ~AboutToSet(d)'
      BY <1>1, <1>2, <2>4 DEF Kept, AboutToSet
    <3> QED
      BY <3>1, <3>2, <1>1, <2>2 DEF OutageOf
  <2> QED
    BY <2>3, <2>4
<1> QED
  BY <1>3, <1>4

LEMMA SecondKeepsOutage ==
    ASSUME Types, Outage, NEW c \in Channel, Second(c), UNCHANGED eventVars
    PROVE  Outage'
<1>1. UNCHANGED <<is_at, is_els, dim_values, dim_save, before, external_power_running>>
  BY DEF Second, modes, call, emergency, history, dimVars, eventVars
<1>2. Elsewhere(pc[APP]) /\ Elsewhere(pc'[APP]) /\ pc[APP] # "halted"
  BY Tasks DEF Second, Goto, Types, Places, Elsewhere
<1> QED
  BY <1>1, <1>2, ElsewhereOutage

LEMMA MinuteKeepsOutage ==
    ASSUME Types, Outage, NEW c \in Channel, Minute(c), UNCHANGED eventVars
    PROVE  Outage'
<1>1. UNCHANGED <<is_at, is_els, dim_values, dim_save, before, external_power_running>>
  BY DEF Minute, modes, call, emergency, history, dimVars, eventVars
<1>2. Elsewhere(pc[APP]) /\ Elsewhere(pc'[APP]) /\ pc[APP] # "halted"
  BY Tasks DEF Minute, Goto, Types, Places, Elsewhere
<1> QED
  BY <1>1, <1>2, ElsewhereOutage

LEMMA CheckKeepsOutage ==
    ASSUME Types, Outage, NEW c \in Channel, Check(c), UNCHANGED eventVars
    PROVE  Outage'
<1>1. UNCHANGED <<is_at, is_els, dim_values, dim_save, before, external_power_running>>
  BY DEF Check, modes, call, emergency, history, dimVars, eventVars
<1>2. Elsewhere(pc[APP]) /\ Elsewhere(pc'[APP]) /\ pc[APP] # "halted"
  BY Tasks DEF Check, Goto, Types, Places, Elsewhere
<1> QED
  BY <1>1, <1>2, ElsewhereOutage

LEMMA ExpireKeepsOutage ==
    ASSUME Types, Outage, NEW c \in Channel, Expire(c), UNCHANGED eventVars
    PROVE  Outage'
<1>1. UNCHANGED <<is_at, is_els, dim_values, dim_save, before, external_power_running>>
  BY DEF Expire, modes, call, emergency, history, dimVars, eventVars
<1>2. Elsewhere(pc[APP]) /\ Elsewhere(pc'[APP]) /\ pc[APP] # "halted"
  BY Tasks DEF Expire, Goto, Types, Places, Elsewhere
<1> QED
  BY <1>1, <1>2, ElsewhereOutage

LEMMA LossKeepsOutage ==
    ASSUME Types, Outage, Loss
    PROVE  Outage'
<1> SUFFICES ASSUME pc'[APP] # "halted"
             PROVE  Direction' /\ \A d \in Channel : before'[d] # NONE => OutageOf(d)'
  BY DEF Outage
<1>1. /\ pc'[APP] = "save" /\ i'[APP] = 1 /\ setting'[APP] = "no" /\ external_power_running'
      /\ UNCHANGED <<is_at, dim_values>>
  BY Tasks DEF Loss, LosePower, Goto, Setting, call, modes, Types, Places
<1>2. Direction'
  BY <1>1 DEF Direction
<1>3. ASSUME NEW d \in Channel, before'[d] # NONE PROVE OutageOf(d)'
  <2>1. (\A x \in Channel : ~is_at[x]) /\ before'[d] = dim_values[d]
    BY <1>3 DEF Loss, LosePower
  <2>2. ~(1 > d)
    BY DEF Channel
  <2> QED
    BY <1>1, <2>1, <2>2 DEF OutageOf, AboutToSet
<1> QED
  BY <1>2, <1>3

LEMMA PutDimKeepsOutage ==
    ASSUME Types, Outage, NEW c \in Channel, NEW v \in Nat, PutDim(c, v), UNCHANGED
           <<event, left, cmd, nested, mixed, base>>
    PROVE  Outage'
<1>1. UNCHANGED <<is_at, is_els, dim_values, dim_save, before, external_power_running>>
  BY DEF PutDim, modes, call, emergency, history, dimVars, eventVars
<1>2. OtherApp
  BY Tasks DEF PutDim, CallSetDim, OtherApp, Types, Values
<1> QED
  BY <1>1, <1>2, SameOutage DEF OtherApp

LEMMA PutPwmModeKeepsOutage ==
    ASSUME Types, Outage, NEW c \in Channel, PutPwmMode(c), UNCHANGED <<event, left,
           cmd, nested, mixed, base>>
    PROVE  Outage'
<1> SUFFICES ASSUME pc'[APP] # "halted"
             PROVE  Direction' /\ \A d \in Channel : before'[d] # NONE => OutageOf(d)'
  BY DEF Outage
<1>1. UNCHANGED <<pc, i, setting, channel, external_power_running>> /\ \A d \in Channel : before'[d] = NONE
  BY DEF PutPwmMode, call, emergency
<1> QED
  BY <1>1 DEF Outage, Direction

LEMMA PutModeKeepsOutage ==
    ASSUME Types, Outage, NEW c \in Channel, PutMode(c), UNCHANGED <<event, left, cmd,
           nested, mixed, base>>
    PROVE  Outage'
<1> SUFFICES ASSUME pc'[APP] # "halted"
             PROVE  Direction' /\ \A d \in Channel : before'[d] # NONE => OutageOf(d)'
  BY DEF Outage
<1>1. UNCHANGED <<pc, i, setting, channel, external_power_running>> /\ \A d \in Channel : before'[d] = NONE
  BY DEF PutMode, call, emergency
<1> QED
  BY <1>1 DEF Outage, Direction

LEMMA EndsKeepsOutage ==
    ASSUME Types, Outage, NEW t \in Task, Ends(t)
    PROVE  Outage'
<1>1. UNCHANGED <<is_at, is_els, dim_values, dim_save, before, external_power_running>>
  BY DEF Ends, Done, modes, call, emergency, history, dimVars, eventVars
<1>2. CASE t = APP
  <2>1. Elsewhere(pc[APP]) /\ Elsewhere(pc'[APP]) /\ pc[APP] # "halted"
    BY <1>2, Tasks DEF Ends, Done, Goto, Types, Places, Elsewhere, Parsing
  <2> QED
    BY <1>1, <2>1, ElsewhereOutage
<1>3. CASE t # APP
  <2>1. pc'[APP] = pc[APP] /\ i'[APP] = i[APP]
    BY <1>3, Tasks DEF Ends, Done, Goto, Types, Places
  <2>2. UNCHANGED <<setting[APP], channel[APP], new_value[APP]>>
    BY <1>3, Tasks DEF Ends, Done, call, Types, Values
  <2> QED
    BY <1>1, <2>1, <2>2, SameOutage
<1> QED
  BY <1>2, <1>3

LEMMA LoopDoneKeepsOutage ==
    ASSUME Types, Outage, NEW t \in Task, LoopDone(t)
    PROVE  Outage'
<1>1. UNCHANGED <<is_at, is_els, dim_values, dim_save, before, external_power_running>>
  BY DEF LoopDone, modes, call, emergency, history, dimVars, eventVars
<1>2. CASE t = APP
  <2>1. Elsewhere(pc[APP]) /\ Elsewhere(pc'[APP]) /\ pc[APP] # "halted"
    BY <1>2, Tasks DEF LoopDone, Goto, Types, Places, Elsewhere
  <2> QED
    BY <1>1, <2>1, ElsewhereOutage
<1>3. CASE t # APP
  <2>1. pc'[APP] = pc[APP] /\ i'[APP] = i[APP]
    BY <1>3, Tasks DEF LoopDone, Goto, Types, Places
  <2>2. UNCHANGED <<setting[APP], channel[APP], new_value[APP]>>
    BY <1>3, Tasks DEF LoopDone, call, Types, Values
  <2> QED
    BY <1>1, <2>1, <2>2, SameOutage
<1> QED
  BY <1>2, <1>3

LEMMA LoopKeepsOutage ==
    ASSUME Types, Outage, NEW t \in Task, NEW c \in Channel, Loop(t, c)
    PROVE  Outage'
<1>1. UNCHANGED <<is_at, is_els, dim_values, dim_save, before, external_power_running>>
  BY DEF Loop, modes, call, emergency, history, dimVars, eventVars
<1>2. CASE t = APP
  <2>1. Elsewhere(pc[APP]) /\ Elsewhere(pc'[APP]) /\ pc[APP] # "halted"
    BY <1>2, Tasks DEF Loop, Goto, Types, Places, Elsewhere
  <2> QED
    BY <1>1, <2>1, ElsewhereOutage
<1>3. CASE t # APP
  <2>1. pc'[APP] = pc[APP] /\ i'[APP] = i[APP]
    BY <1>3, Tasks DEF Loop, Goto, Types, Places
  <2>2. UNCHANGED <<setting[APP], channel[APP], new_value[APP]>>
    BY <1>3, Tasks DEF Loop, CallSetDim, call, Types, Values
  <2> QED
    BY <1>1, <2>1, <2>2, SameOutage
<1> QED
  BY <1>2, <1>3

LEMMA SetDurationKeepsOutage ==
    ASSUME Types, Outage, NEW t \in Task, NEW c \in Channel, SetDuration(t, c)
    PROVE  Outage'
<1>1. UNCHANGED <<is_at, is_els, dim_values, dim_save, before, external_power_running>>
  BY DEF SetDuration, modes, call, emergency, history, dimVars, eventVars
<1>2. CASE t = APP
  <2>1. Elsewhere(pc[APP]) /\ Elsewhere(pc'[APP]) /\ pc[APP] # "halted"
    BY <1>2, Tasks DEF SetDuration, Goto, Types, Places, Elsewhere
  <2> QED
    BY <1>1, <2>1, ElsewhereOutage
<1>3. CASE t # APP
  <2>1. pc'[APP] = pc[APP] /\ i'[APP] = i[APP]
    BY <1>3, Tasks DEF SetDuration, Goto, Types, Places
  <2>2. UNCHANGED <<setting[APP], channel[APP], new_value[APP]>>
    BY <1>3, Tasks DEF SetDuration, call, Types, Values
  <2> QED
    BY <1>1, <2>1, <2>2, SameOutage
<1> QED
  BY <1>2, <1>3

LEMMA SetDefaultKeepsOutage ==
    ASSUME Types, Outage, NEW t \in Task, NEW c \in Channel, SetDefault(t, c)
    PROVE  Outage'
<1>1. UNCHANGED <<is_at, is_els, dim_values, dim_save, before, external_power_running>>
  BY DEF SetDefault, modes, call, emergency, history, dimVars, eventVars
<1>2. CASE t = APP
  <2>1. Elsewhere(pc[APP]) /\ Elsewhere(pc'[APP]) /\ pc[APP] # "halted"
    BY <1>2, Tasks DEF SetDefault, Goto, Types, Places, Elsewhere
  <2> QED
    BY <1>1, <2>1, ElsewhereOutage
<1>3. CASE t # APP
  <2>1. pc'[APP] = pc[APP] /\ i'[APP] = i[APP]
    BY <1>3, Tasks DEF SetDefault, Goto, Types, Places
  <2>2. UNCHANGED <<setting[APP], channel[APP], new_value[APP]>>
    BY <1>3, Tasks DEF SetDefault, call, Types, Values
  <2> QED
    BY <1>1, <2>1, <2>2, SameOutage
<1> QED
  BY <1>2, <1>3

LEMMA TakeDimKeepsOutage ==
    ASSUME Types, Outage, NEW t \in Task, NEW k \in CommandType, TakeDim(t, k), Parsing(t)
    PROVE  Outage'
<1>1. UNCHANGED <<is_at, is_els, dim_values, dim_save, before, external_power_running>>
  BY DEF TakeDim, modes, call, emergency, history, dimVars, eventVars
<1>2. CASE t = APP
  <2>1. Elsewhere(pc[APP]) /\ Elsewhere(pc'[APP]) /\ pc[APP] # "halted"
    BY <1>2, Tasks DEF TakeDim, Goto, Types, Places, Elsewhere, Parsing
  <2> QED
    BY <1>1, <2>1, ElsewhereOutage
<1>3. CASE t # APP
  <2>1. pc'[APP] = pc[APP] /\ i'[APP] = i[APP]
    BY <1>3, Tasks DEF TakeDim, Goto, Types, Places
  <2>2. UNCHANGED <<setting[APP], channel[APP], new_value[APP]>>
    BY <1>3, Tasks DEF TakeDim, call, Types, Values
  <2> QED
    BY <1>1, <2>1, <2>2, SameOutage
<1> QED
  BY <1>2, <1>3

LEMMA TakeColourKeepsOutage ==
    ASSUME Types, Outage, NEW t \in Task, NEW k \in CommandType, TakeColour(t, k),
           Parsing(t)
    PROVE  Outage'
<1>1. UNCHANGED <<is_at, is_els, dim_values, dim_save, before, external_power_running>>
  BY DEF TakeColour, Done, modes, call, emergency, history, dimVars, eventVars
<1>2. CASE t = APP
  <2>1. Elsewhere(pc[APP]) /\ Elsewhere(pc'[APP]) /\ pc[APP] # "halted"
    BY <1>2, Tasks DEF TakeColour, Done, Goto, Types, Places, Elsewhere, Parsing
  <2> QED
    BY <1>1, <2>1, ElsewhereOutage
<1>3. CASE t # APP
  <2>1. pc'[APP] = pc[APP] /\ i'[APP] = i[APP]
    BY <1>3, Tasks DEF TakeColour, Done, Goto, Types, Places
  <2>2. UNCHANGED <<setting[APP], channel[APP], new_value[APP]>>
    BY <1>3, Tasks DEF TakeColour, Done, CallSetAt, call, Types, Values
  <2> QED
    BY <1>1, <2>1, <2>2, SameOutage
<1> QED
  BY <1>2, <1>3

LEMMA TakeAttuneKeepsOutage ==
    ASSUME Types, Outage, NEW t \in Task, NEW k \in CommandType, TakeAttune(t, k),
           Parsing(t)
    PROVE  Outage'
<1>1. UNCHANGED <<is_at, is_els, dim_values, dim_save, before, external_power_running>>
  BY DEF TakeAttune, Done, modes, call, emergency, history, dimVars, eventVars
<1>2. CASE t = APP
  <2>1. Elsewhere(pc[APP]) /\ Elsewhere(pc'[APP]) /\ pc[APP] # "halted"
    BY <1>2, Tasks DEF TakeAttune, Done, Goto, Types, Places, Elsewhere, Parsing
  <2> QED
    BY <1>1, <2>1, ElsewhereOutage
<1>3. CASE t # APP
  <2>1. pc'[APP] = pc[APP] /\ i'[APP] = i[APP]
    BY <1>3, Tasks DEF TakeAttune, Done, Goto, Types, Places
  <2>2. UNCHANGED <<setting[APP], channel[APP], new_value[APP]>>
    BY <1>3, Tasks DEF TakeAttune, Done, CallSetAt, call, Types, Values
  <2> QED
    BY <1>1, <2>1, <2>2, SameOutage
<1> QED
  BY <1>2, <1>3

LEMMA TrapKeepsOutage ==
    ASSUME Types, Outage, NEW t \in Task, NEW k \in CommandType, Trap(t, k)
    PROVE  Outage'
<1>1. pc'[APP] = "halted"
  BY Tasks DEF Trap
<1> QED
  BY <1>1 DEF Outage

LEMMA SetsValueKeepsOutage ==
    ASSUME Types, Outage, NEW t \in Task, SetsValue(t)
    PROVE  Outage'
<1> SUFFICES ASSUME pc'[APP] # "halted"
             PROVE  Direction' /\ \A d \in Channel : before'[d] # NONE => OutageOf(d)'
  BY DEF Outage
<1> DEFINE to == Reached(channel[t])
<1>1. /\ UNCHANGED <<pc, i, is_at, is_els, channel, new_value, external_power_running, dim_save>>
      /\ setting[t] = "value" /\ setting'[t] = "lamp" /\ \A u \in Task : u # t => setting'[u] = setting[u]
  BY DEF SetsValue, SetValue, modes, emergency, Types, Values
<1>2. /\ \A d \in Channel : dim_values'[d] = IF d \in to THEN new_value[t] ELSE dim_values[d]
      /\ \A d \in Channel : before'[d] = IF d \in to /\ ~(t = APP /\ pc[t] \in {"save", "restore"})
                                         THEN NONE ELSE before[d]
  BY DEF SetsValue, SetValue
<1> HIDE DEF to
<1>3. Direction'
  BY <1>1, Tasks DEF Outage, Direction
<1>4. ASSUME NEW d \in Channel, before'[d] # NONE PROVE OutageOf(d)'
  <2>1. before'[d] = before[d] /\ (d \in to => t = APP /\ pc[APP] \in {"save", "restore"})
    BY <1>2, <1>4
  <2>2. OutageOf(d) /\ Direction
    BY <1>1, <1>4, <2>1 DEF Outage
  <2>3. \A x \in Channel : ~is_at[x]
    BY <2>2 DEF OutageOf
  <2>4. to = {channel[t]}
    BY <2>3 DEF Reached, to, Types, Values
  <2>5. CASE d \notin to
    <3>1. dim_values'[d] = dim_values[d] /\ (t = APP => channel[APP] # d)
      BY <1>2, <2>4, <2>5
    <3>2. /\ Kept(d)' <=> Kept(d)
          /\ AboutToSet(d)' <=> AboutToSet(d)
      BY <3>1, <1>1, <2>1, Tasks DEF Kept, AboutToSet
    <3> QED
      BY <3>1, <3>2, <1>1, <2>1, <2>2, <2>3 DEF OutageOf
  <2>6. CASE d \in to
    <3>1. t = APP /\ channel[APP] = d /\ dim_values'[d] = new_value[APP] /\ channel[APP] < i[APP]
      BY <1>1, <1>2, <2>1, <2>2, <2>4, <2>6 DEF Direction
    <3>2. i[APP] > d /\ ~(i[APP] <= d)
      BY <3>1, Tasks DEF Types, Places, Channel
    <3>3. CASE pc[APP] = "save"
      <4>1. is_els[d] /\ Kept(d)
        BY <3>1, <3>2, <3>3, <1>1, <2>2 DEF OutageOf, AboutToSet
      <4>2. Kept(d)'
        BY <4>1, <1>1, <2>1 DEF Kept
      <4> QED
        BY <4>2, <3>1, <3>2, <3>3, <1>1, <2>3 DEF OutageOf, AboutToSet
    <3>4. CASE pc[APP] = "restore"
      <4>1. new_value[APP] = before[d]
        BY <3>1, <3>2, <3>4, <1>1, <2>2 DEF OutageOf, AboutToSet
      <4>2. ~AboutToSet(d)'
        BY <3>1, <1>1 DEF AboutToSet
      <4> QED
        BY <4>1, <4>2, <3>1, <3>2, <3>4, <1>1, <2>1, <2>3 DEF OutageOf
    <3> QED
      BY <3>3, <3>4, <2>1, <2>6
  <2> QED
    BY <2>5, <2>6
<1> QED
  BY <1>3, <1>4

LEMMA SetLampKeepsOutage ==
    ASSUME Types, Outage, NEW t \in Task, SetLamp(t), UNCHANGED eventVars
    PROVE  Outage'
<1>1. UNCHANGED <<pc, i, is_at, is_els, dim_values, dim_save, before, external_power_running>>
  BY DEF SetLamp, modes, emergency
<1>2. CASE t = APP
  <2>1. setting[APP] # "value" /\ setting'[APP] # "value"
    BY <1>2, Tasks DEF SetLamp, Returned, Types, Values
  <2> QED
    BY <1>1, <2>1, SameOutage
<1>3. CASE t # APP
  <2>1. UNCHANGED <<setting[APP], channel[APP], new_value[APP]>>
    BY <1>3, Tasks DEF SetLamp, Returned, Types, Values
  <2> QED
    BY <1>1, <2>1, SameOutage
<1> QED
  BY <1>2, <1>3

LEMMA NoteKeepsOutage ==
    ASSUME Types, Outage, NEW t \in Task, Note(t)
    PROVE  Outage'
<1>1. UNCHANGED <<is_at, is_els, dim_values, dim_save, before, external_power_running>>
  BY DEF Note, modes, call, emergency, history, dimVars, eventVars
<1>2. UNCHANGED <<pc, i, setting, channel, new_value>>
  BY DEF Note, dimVars, call
<1> QED
  BY <1>1, <1>2, SameOutage

LEMMA BeginKeepsOutage ==
    ASSUME Types, Outage, NEW t \in Task, NEW e \in EventType, Begin(t, e)
    PROVE  Outage'
<1>1. UNCHANGED <<is_at, is_els, dim_values, dim_save, before, external_power_running>>
  BY DEF Begin, modes, call, emergency, history, dimVars, eventVars
<1>2. CASE t = APP
  <2>1. Elsewhere(pc[APP]) /\ Elsewhere(pc'[APP]) /\ pc[APP] # "halted"
    BY <1>2, Tasks DEF Begin, Goto, Types, Places, Elsewhere
  <2> QED
    BY <1>1, <2>1, ElsewhereOutage
<1>3. CASE t # APP
  <2>1. pc'[APP] = pc[APP] /\ i'[APP] = i[APP]
    BY <1>3, Tasks DEF Begin, Goto, Types, Places
  <2>2. UNCHANGED <<setting[APP], channel[APP], new_value[APP]>>
    BY <1>3, Tasks DEF Begin, call, Types, Values
  <2> QED
    BY <1>1, <2>1, <2>2, SameOutage
<1> QED
  BY <1>2, <1>3

-----------------------------------------------------------------------------
(* The invariant and what follows from it *)

IInv == Types /\ Waits /\ OutputsFollow /\ Durations /\ Outage

\* A command that a task reads is one, even at a lost place.
LEMMA CommandsRead ==
    ASSUME Types, NEW t \in Task, NEW k \in NextCommand(t)
    PROVE  k \in CommandType
<1>1. CASE k \in Mixture(t)
  <2>1. \A u \in Task : Commands(u) \subseteq CommandType
    BY DEF Commands, Types, Kinds, EventType
  <2> DEFINE both == Commands(t) \cup Commands(Other(t))
             own == {x.f : x \in Commands(t)}
             names == IF own \subseteq Special THEN own ELSE {x.f : x \in both} \ Special
  <2>2. both \subseteq CommandType
    BY <2>1, Tasks
  <2>3. \A x \in CommandType : x.f \in Name /\ x.c \in Nat /\ x.after \in 0 .. 255
    BY DEF CommandType
  <2>4. names \subseteq Name
    BY <2>2, <2>3
  <2>5. PICK f \in names, a \in both, b \in both, x \in both : k = Command(f, a.c, b.v, x.d, x.after)
    BY <1>1 DEF Mixture
  <2> HIDE DEF both, names
  <2>6. f \in Name /\ a.c \in Nat /\ b.v \in Nat /\ x.d \in Int /\ x.after \in 0 .. 255
    BY <2>2, <2>3, <2>4, <2>5, Fields
  <2> HIDE DEF own
  <2> QED
    BY <2>5, <2>6 DEF Command, CommandType
<1>2. CASE left[t] # <<>> /\ k = Head(left[t])
  <2>1. left[t] \in Seq(CommandType)
    BY DEF Types, Kinds
  <2> QED
    BY <1>2, <2>1
<1> QED
  BY <1>1, <1>2 DEF NextCommand

LEMMA Events == \A t \in Task : Event(t) \subseteq EventType
  BY EventAssumption DEF Event

LEMMA Characteristic ==
    ASSUME NEW S
    PROVE  [c \in Channel |-> c \in S] \in [Channel -> BOOLEAN]
  OBVIOUS

LEMMA InitIInv == Init => IInv
<1> SUFFICES ASSUME Init PROVE IInv
  OBVIOUS
<1> USE Tasks, Channels, DimAssumption, TimeAssumption
<1>1. Places /\ Modes
  <2>1. Places
    BY DEF Init, Started, Places
  <2>2. PICK s \in Stored : is_at = [c \in Channel |-> c \in s[1]] /\ is_els = [c \in Channel |-> c \in s[2]]
    BY DEF Init
  <2>3. /\ [c \in Channel |-> c \in s[1]] \in [Channel -> BOOLEAN]
        /\ [c \in Channel |-> c \in s[2]] \in [Channel -> BOOLEAN]
    BY Characteristic
  <2> QED
    BY <2>1, <2>2, <2>3, Zenon DEF Modes
<1>2. Values
  <2>1. /\ dim_values \in [Channel -> Nat] /\ lamp \in [Channel -> 0 .. DIM_MAX]
        /\ setting \in [Task -> {"no", "value", "lamp"}]
        /\ channel \in [Task -> Channel] /\ new_value \in [Task -> Nat]
        /\ dim_save \in [Channel -> Nat]
    BY DEF Init, Started
  <2>2. external_power_running \in BOOLEAN
    BY Zenon DEF Init, Started
  <2> QED
    BY <2>1, <2>2, Zenon DEF Values
<1>3. Timers
  BY DEF Init, Started, Timers, DIM_DURATION_DISABLED, DIM_NO_CHANGE
<1>4. Kinds
  <2>1. [policy |-> <<>>, cluster |-> Cluster({}, {})] \in EventType
    BY DEF EventType, Cluster
  <2>2. /\ event \in [Task -> EventType] /\ left \in [Task -> Seq(CommandType)]
        /\ cmd \in [Task -> CommandType]
    BY <2>1, Fields DEF Init, Idle
  <2>3. /\ raced \subseteq Channel /\ asked \in [Channel -> Int]
        /\ counted \in [Channel -> Nat] /\ before \in [Channel -> Int]
    BY DEF Init, Started, NONE
  <2>4. torn \in BOOLEAN
    BY Zenon DEF Init, Started
  <2> QED
    BY <2>2, <2>3, <2>4, Zenon DEF Kinds
<1>5. Waits /\ OutputsFollow
  <2>1. Limited(0) = 0
    BY DEF Limited, Least
  <2> QED
    BY <2>1 DEF Init, Started, Waits, Setting, OutputsFollow
<1>6. Durations
  BY DEF Init, Started, Durations, Alone, Given, Pending, Account, Serving, AtDefault,
     AtMinute,
         AtCheck, AtExpire, InDuration, DIM_NO_CHANGE, DIM_DURATION_DISABLED, NONE
<1>7. Outage
  BY DEF Init, Started, Outage, Direction, NONE
<1> QED
  BY <1>1, <1>2, <1>3, <1>4, <1>5, <1>6, <1>7 DEF IInv, Types

LEMMA StepIInv == IInv /\ [Next]_vars => IInv'
<1> SUFFICES ASSUME IInv, [Next]_vars PROVE IInv'
  OBVIOUS
<1> USE DEF IInv
<1>1. CASE AppRound
  <2>1. CASE ResumePower
    BY <1>1, <2>1, ResumePowerKeepsTypes, ResumePowerKeepsOutputs,
       ResumePowerKeepsDurations, ResumePowerKeepsOutage DEF AppRound
  <2>2. CASE SamePower
    BY <1>1, <2>2, SamePowerKeepsTypes, SamePowerKeepsOutputs, SamePowerKeepsDurations,
       SamePowerKeepsOutage DEF AppRound
  <2>3. CASE PowerDone
    BY <1>1, <2>3, PowerDoneKeepsTypes, PowerDoneKeepsOutputs, PowerDoneKeepsDurations,
       PowerDoneKeepsOutage DEF AppRound
  <2>4. CASE Count
    BY <1>1, <2>4, CountKeepsTypes, CountKeepsOutputs, CountKeepsDurations,
       CountKeepsOutage DEF AppRound
  <2>5. CASE RoundDone
    BY <1>1, <2>5, RoundDoneKeepsTypes, RoundDoneKeepsOutputs, RoundDoneKeepsDurations,
       RoundDoneKeepsOutage DEF AppRound
  <2>6. ASSUME NEW c \in Channel, Save(c) PROVE IInv'
    BY <1>1, <2>6, SaveKeepsTypes, SaveKeepsOutputs, SaveKeepsDurations, SaveKeepsOutage
       DEF AppRound
  <2>7. ASSUME NEW c \in Channel, Restore(c) PROVE IInv'
    BY <1>1, <2>7, RestoreKeepsTypes, RestoreKeepsOutputs, RestoreKeepsDurations,
       RestoreKeepsOutage DEF AppRound
  <2>8. ASSUME NEW c \in Channel, Second(c) PROVE IInv'
    BY <1>1, <2>8, SecondKeepsTypes, SecondKeepsOutputs, SecondKeepsDurations,
       SecondKeepsOutage DEF AppRound
  <2>9. ASSUME NEW c \in Channel, Minute(c) PROVE IInv'
    BY <1>1, <2>9, MinuteKeepsTypes, MinuteKeepsOutputs, MinuteKeepsDurations,
       MinuteKeepsOutage DEF AppRound
  <2>10. ASSUME NEW c \in Channel, Check(c) PROVE IInv'
    BY <1>1, <2>10, CheckKeepsTypes, CheckKeepsOutputs, CheckKeepsDurations,
       CheckKeepsOutage DEF AppRound
  <2>11. ASSUME NEW c \in Channel, Expire(c) PROVE IInv'
    BY <1>1, <2>11, ExpireKeepsTypes, ExpireKeepsOutputs, ExpireKeepsDurations,
       ExpireKeepsOutage DEF AppRound
  <2> QED
    BY <1>1, <2>1, <2>2, <2>3, <2>4, <2>5, <2>6, <2>7, <2>8, <2>9, <2>10, <2>11 DEF
       AppRound, AppStep
<1>2. CASE Loss
  BY <1>2, LossKeepsTypes, LossKeepsOutputs, LossKeepsDurations, LossKeepsOutage
<1>3. CASE Put
  <2>1. UNCHANGED <<event, left, cmd, nested, mixed, base>>
    BY <1>3 DEF Put
  <2>2. ASSUME NEW c \in Channel, NEW v \in PutLevel \cup {dim_values[c]}, PutDim(c, v) PROVE IInv'
    <3>1. v \in Nat
      BY RequestAssumption DEF Types, Values
    <3> QED
      BY <2>1, <2>2, <3>1, PutDimKeepsTypes, PutDimKeepsOutputs, PutDimKeepsDurations,
         PutDimKeepsOutage
  <2>3. ASSUME NEW c \in Channel, PutPwmMode(c) PROVE IInv'
    BY <2>1, <2>3, PutPwmModeKeepsTypes, PutPwmModeKeepsOutputs,
       PutPwmModeKeepsDurations, PutPwmModeKeepsOutage
  <2>4. ASSUME NEW c \in Channel, PutMode(c) PROVE IInv'
    BY <2>1, <2>4, PutModeKeepsTypes, PutModeKeepsOutputs, PutModeKeepsDurations,
       PutModeKeepsOutage
  <2> QED
    BY <1>3, <2>2, <2>3, <2>4 DEF Put
<1>4. ASSUME NEW t \in Task, TaskStep(t) PROVE IInv'
  <2>1. CASE Ends(t)
    BY <2>1, EndsKeepsTypes, EndsKeepsOutputs, EndsKeepsDurations, EndsKeepsOutage
  <2>2. CASE LoopDone(t)
    BY <2>2, LoopDoneKeepsTypes, LoopDoneKeepsOutputs, LoopDoneKeepsDurations,
       LoopDoneKeepsOutage
  <2>3. CASE SetsValue(t)
    BY <2>3, SetsValueKeepsTypes, SetsValueKeepsOutputs, SetsValueKeepsDurations,
       SetsValueKeepsOutage
  <2>4. CASE SetLamp(t) /\ UNCHANGED eventVars
    BY <2>4, SetLampKeepsTypes, SetLampKeepsOutputs, SetLampKeepsDurations,
       SetLampKeepsOutage
  <2>5. ASSUME NEW c \in Channel, Loop(t, c) PROVE IInv'
    BY <2>5, LoopKeepsTypes, LoopKeepsOutputs, LoopKeepsDurations, LoopKeepsOutage
  <2>6. ASSUME NEW c \in Channel, SetDuration(t, c) PROVE IInv'
    BY <2>6, SetDurationKeepsTypes, SetDurationKeepsOutputs, SetDurationKeepsDurations,
       SetDurationKeepsOutage
  <2>7. ASSUME NEW c \in Channel, SetDefault(t, c) PROVE IInv'
    BY <2>7, SetDefaultKeepsTypes, SetDefaultKeepsOutputs, SetDefaultKeepsDurations,
       SetDefaultKeepsOutage
  <2>8. ASSUME Parsing(t), NEW k \in NextCommand(t),
               TakeDim(t, k) \/ TakeColour(t, k) \/ TakeAttune(t, k) \/ Trap(t, k)
        PROVE  IInv'
    <3>0. k \in CommandType
      BY CommandsRead
    <3>1. CASE TakeDim(t, k)
      BY <2>8, <3>0, <3>1, TakeDimKeepsTypes, TakeDimKeepsOutputs,
         TakeDimKeepsDurations, TakeDimKeepsOutage
    <3>2. CASE TakeColour(t, k)
      BY <2>8, <3>0, <3>2, TakeColourKeepsTypes, TakeColourKeepsOutputs,
         TakeColourKeepsDurations, TakeColourKeepsOutage
    <3>3. CASE TakeAttune(t, k)
      BY <2>8, <3>0, <3>3, TakeAttuneKeepsTypes, TakeAttuneKeepsOutputs,
         TakeAttuneKeepsDurations, TakeAttuneKeepsOutage
    <3>4. CASE Trap(t, k)
      BY <2>8, <3>0, <3>4, TrapKeepsTypes, TrapKeepsOutputs, TrapKeepsDurations,
         TrapKeepsOutage
    <3> QED
      BY <2>8, <3>1, <3>2, <3>3, <3>4
  <2> QED
    BY <1>4, <2>1, <2>2, <2>3, <2>4, <2>5, <2>6, <2>7, <2>8 DEF TaskStep, Execute
<1>5. ASSUME NEW t \in Task, Note(t) PROVE IInv'
  BY <1>5, NoteKeepsTypes, NoteKeepsOutputs, NoteKeepsDurations, NoteKeepsOutage
<1>6. ASSUME NEW t \in Task, NEW e \in Event(t), Begin(t, e) PROVE IInv'
  BY <1>6, Events, BeginKeepsTypes, BeginKeepsOutputs, BeginKeepsDurations, BeginKeepsOutage
<1>7. CASE UNCHANGED vars
  <2>1. UNCHANGED <<dimVars, eventVars>>
    BY <1>7 DEF vars
  <2>2. Types'
    BY <2>1 DEF Types, Places, Modes, Values, Timers, Kinds, dimVars, eventVars, modes,
       call,
                durations, emergency, history
  <2>3. Waits' /\ OutputsFollow' /\ Durations'
    BY <2>1, SameWaits, SameOutputs, SameDurations DEF dimVars, eventVars, modes, call,
       durations,
                                                       emergency, history
  <2>4. Outage'
    BY <2>1, SameOutage DEF dimVars, modes, call, emergency, history
  <2> QED
    BY <2>2, <2>3, <2>4
<1> QED
  BY <1>1, <1>2, <1>3, <1>4, <1>5, <1>6, <1>7 DEF Next

\* The inductive invariant holds in every behaviour of the two tasks.
THEOREM Invariant == Spec => []IInv
  BY InitIInv, StepIInv, PTL DEF Spec

\* Every variable keeps to its kind: no loop passes the last channel, no dim value
\* falls below zero, the seconds stay below a minute (control.c, event.c, sense.c).
THEOREM TypeCorrect == Spec => []TypeOK
<1>1. IInv => TypeOK
  BY Parts DEF IInv, Types
<1> QED
  BY <1>1, Invariant, PTL

\* The outputs show the reported dim values but while a task is setting them, unless
\* two tasks met there (control.c:93-113, pwm.c:105-124).
THEOREM OutputsShow == Spec => []OutputsFollow
<1>1. IInv => OutputsFollow
  BY DEF IInv
<1> QED
  BY <1>1, Invariant, PTL

\* A default is set at the last full minute of the duration asked for, once, and never
\* after it was cancelled, on channels whose duration the tasks did not handle at once
\* (control.c:40-60, 124-127, event.c:101-102, 123-124).
THEOREM DefaultInTime == Spec => []FiresOnTime
<1>1. ASSUME IInv PROVE FiresOnTime
  <2>1. SUFFICES ASSUME pc[APP] # "halted", NEW c \in Channel \ raced
                 PROVE  /\ AtExpire(c) => asked[c] # NONE /\ counted[c] = Most(1, asked[c])
                        /\ asked[c] # NONE =>
                               counted[c] < Most(1, asked[c]) \/ AtCheck(c) \/ AtExpire(c)
    BY DEF FiresOnTime, AtExpire, AtCheck
  <2>2. Pending(c) /\ Serving(c)
    BY <1>1, <2>1 DEF IInv, Durations
  <2> QED
    BY <2>2 DEF Pending, Serving
<1> QED
  BY <1>1, Invariant, PTL

\* A loss of power that nothing else happened in leaves the dim values as they were
\* (sense.c:106-131).
THEOREM OutageLeavesNoTrace == Spec => []OutageUndone
<1>1. ASSUME IInv PROVE OutageUndone
  <2>1. SUFFICES ASSUME ~external_power_running, pc[APP] \notin {"restore", "halted"},
                        NEW c \in Channel, before[c] # NONE
                 PROVE  dim_values[c] = before[c]
    BY DEF OutageUndone
  <2>2. Direction /\ OutageOf(c)
    BY <1>1, <2>1 DEF IInv, Outage
  <2> QED
    BY <2>1, <2>2 DEF Direction, OutageOf
<1> QED
  BY <1>1, Invariant, PTL

-----------------------------------------------------------------------------
(* The dim values that the commands of a policy lead to *)

\* A set that holds 0 and with each number below K the next one holds all up to K.
LEMMA CountUp ==
    ASSUME NEW S, NEW K \in Nat, 0 \in S, \A n \in 0 .. K - 1 : n \in S => n + 1 \in S
    PROVE  0 .. K \subseteq S
<1> SUFFICES ASSUME ~(0 .. K \subseteq S) PROVE FALSE
  OBVIOUS
<1> DEFINE T == {n \in 0 .. K : n \notin S}
           R == {pair \in Nat \X Nat : pair[1] < pair[2]}
<1>1. IsWellFoundedOn(R, Nat)
  <2>1. OpToRel(<, Nat) = R
    BY DEF OpToRel
  <2> QED
    BY <2>1, NatLessThanWellFounded
<1>2. T \subseteq Nat /\ T # {}
  OBVIOUS
<1>3. PICK n \in T : \A m \in T : ~(<<m, n>> \in R)
  <2> HIDE DEF R, T
  <2> QED
    BY <1>1, <1>2, WFMin
<1>4. n \in 0 .. K /\ n # 0 /\ n \notin S
  BY <1>3
<1>5. n - 1 \in Nat /\ n \in Nat /\ n - 1 < n
  BY <1>4
<1>6. n - 1 \notin T
  BY <1>3, <1>5
<1> QED
  BY <1>4, <1>6

Step(f, policy, c, K) == \A n \in 0 .. K - 1 : f[n + 1] = Effect(policy[n + 1], c, f[n])
Solution(f, policy, c, v, K) ==
    f = [n \in 0 .. K |-> f[n]] /\ f[0] = v /\ Step(f, policy, c, K)

\* The recursive definition of the results has a solution for any number of commands.
LEMMA SolutionExists ==
    ASSUME NEW policy, NEW c, NEW v, NEW K \in Nat
    PROVE  \E f : Solution(f, policy, c, v, K)
<1> DEFINE S == {n \in 0 .. K : \E f : Solution(f, policy, c, v, n)}
<1>1. 0 \in S
  <2>1. Solution([n \in 0 .. 0 |-> v], policy, c, v, 0)
    BY DEF Solution, Step
  <2> QED
    BY <2>1
<1>2. ASSUME NEW n \in 0 .. K - 1, n \in S PROVE n + 1 \in S
  <2>1. PICK f : Solution(f, policy, c, v, n)
    BY <1>2
  <2> DEFINE g == [j \in 0 .. n + 1 |-> IF j = n + 1 THEN Effect(policy[n + 1], c, f[n]) ELSE f[j]]
  <2>2. g = [j \in 0 .. n + 1 |-> g[j]] /\ g[0] = v
    BY <2>1 DEF Solution
  <2>3. ASSUME NEW j \in 0 .. n PROVE g[j + 1] = Effect(policy[j + 1], c, g[j])
    <3>1. CASE j = n
      BY <3>1
    <3>2. CASE j # n
      <4>1. j \in 0 .. n - 1 /\ g[j + 1] = f[j + 1] /\ g[j] = f[j]
        BY <3>2
      <4>2. f[j + 1] = Effect(policy[j + 1], c, f[j])
        BY <4>1, <2>1, Zenon DEF Solution, Step
      <4> QED
        BY <4>1, <4>2
    <3> QED
      BY <3>1, <3>2
  <2> HIDE DEF g
  <2>4. \A j \in 0 .. (n + 1) - 1 : g[j + 1] = Effect(policy[j + 1], c, g[j])
    BY <2>3
  <2>5. Solution(g, policy, c, v, n + 1)
    BY <2>2, <2>4 DEF Solution, Step
  <2> QED
    BY <2>5
<1>3. 0 .. K \subseteq S
  <2> HIDE DEF S
  <2> QED
    BY <1>1, <1>2, CountUp
<1> QED
  BY <1>3

\* The results begin with the value itself, and each is the effect of its command
\* on the one before.
LEMMA ResultsUnfold ==
    ASSUME NEW policy, Len(policy) \in Nat, NEW c, NEW v
    PROVE  /\ Results(policy, c, v)[0] = v
           /\ \A n \in 1 .. Len(policy) :
                  Results(policy, c, v)[n] = Effect(policy[n], c, Results(policy, c, v)[n - 1])
<1> DEFINE K == Len(policy)
           Solves(g) == g = [n \in 0 .. K |->
                                 IF n = 0 THEN v ELSE Effect(policy[n], c, g[n - 1])]
           after == CHOOSE g : Solves(g)
<1>1. PICK f : Solution(f, policy, c, v, K)
  BY SolutionExists
<1>2. Solves(f)
  <2>1. ASSUME NEW n \in 0 .. K
        PROVE  f[n] = IF n = 0 THEN v ELSE Effect(policy[n], c, f[n - 1])
    <3>1. CASE n = 0
      BY <3>1, <1>1 DEF Solution
    <3>2. CASE n # 0
      <4>1. n - 1 \in 0 .. K - 1 /\ (n - 1) + 1 = n
        BY <3>2
      <4>2. f[(n - 1) + 1] = Effect(policy[(n - 1) + 1], c, f[n - 1])
        BY <4>1, <1>1, Zenon DEF Solution, Step
      <4> QED
        BY <4>1, <4>2, <3>2
    <3> QED
      BY <3>1, <3>2
  <2>2. f = [n \in 0 .. K |-> f[n]]
    BY <1>1 DEF Solution
  <2> QED
    BY <2>1, <2>2, Zenon
<1>3. Solves(after)
  <2> HIDE DEF Solves
  <2> QED
    BY <1>2, Zenon
<1>4. Results(policy, c, v) = after
  BY Zenon DEF Results
<1>5. after[0] = v
  <2> HIDE DEF after
  <2> QED
    BY <1>3
<1>6. ASSUME NEW n \in 1 .. K PROVE after[n] = Effect(policy[n], c, after[n - 1])
  <2> HIDE DEF after
  <2>1. n \in 0 .. K /\ n # 0
    OBVIOUS
  <2> QED
    BY <2>1, <1>3, Zenon
<1> HIDE DEF after
<1> QED
  BY <1>4, <1>5, <1>6

-----------------------------------------------------------------------------
(* How far a task has come in its policy *)

Marks ==
    /\ nested \in [Task -> BOOLEAN] /\ mixed \in [Task -> BOOLEAN] /\ alone \in [Task -> BOOLEAN]
    /\ base \in [Task -> [Channel -> Nat]]

\* How many commands it has taken.
Passed(t) == Len(event[t].policy) - Len(left[t])
Taken(t) ==
    /\ Passed(t) \in 0 .. Len(event[t].policy)
    /\ \A n \in 1 .. Len(left[t]) : left[t][n] = event[t].policy[Passed(t) + n]

\* The last of them has been dealt with on channel c.
Handled(t, c) ==
    pc[t] = "parse" \/ c < i[t] \/ (c = i[t] /\ pc[t] \in {"duration", "default"})

\* The dim value that the commands ask for so far.
Wanted(t, c) ==
    IF c \in event[t].cluster.match
    THEN Results(event[t].policy, c, base[t][c])[IF Handled(t, c) THEN Passed(t) ELSE Passed(t) - 1]
    ELSE base[t][c]

\* Nothing has come between the task and its policy.
ByItself(t) == Executing(t) /\ alone[t] /\ ~mixed[t] /\ \A c \in Channel : ~is_at[c]

InPolicy(t) ==
    /\ Taken(t) /\ (nested[t] => Lost(t))
    /\ pc[t] # "parse" => /\ Passed(t) >= 1 /\ cmd[t] = event[t].policy[Passed(t)]
                          /\ cmd[t].f \in {"F0", "F1", "F2", "F3", "fl"}
    /\ setting[t] = "value" => new_value[t] = Wanted(t, channel[t])
    /\ \A c \in Channel : (setting[t] = "value" /\ channel[t] = c) \/ dim_values[c] = Wanted(t, c)

Progress(t) == ByItself(t) => InPolicy(t)

\* A step in which task t does not execute its policy: afterwards it is not by
\* itself, or nothing has changed of what it goes by.
Apart(t) ==
    ByItself(t)' =>
        /\ alone[t] /\ ~mixed[t] /\ dim_values' = dim_values /\ is_at' = is_at
        /\ pc'[t] = pc[t] /\ i'[t] = i[t]
        /\ setting'[t] = setting[t] /\ channel'[t] = channel[t] /\ new_value'[t] = new_value[t]
        /\ event'[t] = event[t] /\ left'[t] = left[t] /\ cmd'[t] = cmd[t]
        /\ nested'[t] = nested[t] /\ base'[t] = base[t]

LEMMA ApartKeepsProgress ==
    ASSUME NEW t \in Task, Progress(t), Apart(t)
    PROVE  Progress(t)'
<1> SUFFICES ASSUME ByItself(t)' PROVE InPolicy(t)'
  BY DEF Progress
<1>1. /\ alone[t] /\ ~mixed[t] /\ dim_values' = dim_values /\ is_at' = is_at
      /\ pc'[t] = pc[t] /\ i'[t] = i[t]
      /\ setting'[t] = setting[t] /\ channel'[t] = channel[t] /\ new_value'[t] = new_value[t]
      /\ event'[t] = event[t] /\ left'[t] = left[t] /\ cmd'[t] = cmd[t]
      /\ nested'[t] = nested[t] /\ base'[t] = base[t]
  BY DEF Apart
<1>2. ByItself(t)
  BY <1>1 DEF ByItself, Executing
<1>3. Passed(t)' = Passed(t) /\ \A c : Handled(t, c)' <=> Handled(t, c)
  BY <1>1 DEF Passed, Handled
<1>4. Taken(t)' <=> Taken(t)
  BY <1>1, <1>3 DEF Taken
<1>5. \A c : Wanted(t, c)' = Wanted(t, c)
  BY <1>1, <1>3 DEF Wanted
<1> QED
  BY <1>1, <1>2, <1>3, <1>4, <1>5 DEF Progress, InPolicy, Lost

-----------------------------------------------------------------------------
(* The marks are of their kinds *)

\* Reading with strtok keeps what is known of the places of the tasks two-valued.
LEMMA StrtokMarks ==
    ASSUME Marks, NEW t \in Task
    PROVE  /\ UsesStrtok(t) \in [Task -> BOOLEAN]
           /\ [UsesStrtok(t) EXCEPT ![t] = FALSE] \in [Task -> BOOLEAN]
<1>1. \A u \in Task : (mixed[u] \/ (u # t /\ Executing(u))) \in BOOLEAN
  OBVIOUS
<1>2. UsesStrtok(t) \in [Task -> BOOLEAN]
  BY <1>1, Zenon DEF UsesStrtok
<1> HIDE DEF UsesStrtok
<1> QED
  BY <1>2

\* Neither does the end of an event.
LEMMA DoneMarks ==
    ASSUME Marks, NEW t \in Task, Done(t)
    PROVE  /\ nested' \in [Task -> BOOLEAN] /\ alone' \in [Task -> BOOLEAN]
           /\ base' \in [Task -> [Channel -> Nat]]
<1>1. NoValues \in [Channel -> Nat]
  BY DEF NoValues
<1> QED
  BY <1>1 DEF Done, Marks

LEMMA BeginMarks ==
    ASSUME Types, Marks, NEW t \in Task, NEW e, Begin(t, e)
    PROVE  Marks'
<1>1. mixed' \in [Task -> BOOLEAN]
  BY StrtokMarks DEF Begin
<1>2. dim_values \in [Channel -> Nat]
  BY DEF Types, Values
<1>3. Setting(Other(t)) \in BOOLEAN
  BY DEF Setting
<1>4. CASE e.cluster.match = {}
  BY <1>1, <1>4 DEF Begin, Marks
<1>5. CASE e.cluster.match # {}
  <2>1. /\ nested' = [nested EXCEPT ![t] = FALSE]
        /\ base' = [base EXCEPT ![t] = dim_values]
        /\ alone' = [alone EXCEPT ![t] = ~Setting(Other(t))]
    BY <1>5 DEF Begin
  <2>2. (~Setting(Other(t))) \in BOOLEAN
    OBVIOUS
  <2> DEFINE b == ~Setting(Other(t))
  <2>3. alone' \in [Task -> BOOLEAN]
    <3>1. b \in BOOLEAN /\ alone' = [alone EXCEPT ![t] = b]
      BY <2>1, <2>2, Zenon
    <3> HIDE DEF b
    <3> QED
      BY <3>1 DEF Marks
  <2> HIDE DEF b
  <2>4. nested' \in [Task -> BOOLEAN]
    BY <2>1 DEF Marks
  <2>5. base' \in [Task -> [Channel -> Nat]]
    BY <2>1, <1>2 DEF Marks
  <2> QED
    BY <1>1, <2>3, <2>4, <2>5 DEF Marks
<1> QED
  BY <1>4, <1>5

LEMMA EndsMarks ==
    ASSUME Marks, NEW t \in Task, Ends(t)
    PROVE  Marks'
  BY StrtokMarks, DoneMarks DEF Ends, Marks

LEMMA LoopMarks ==
    ASSUME Marks, NEW t \in Task, NEW c \in Channel, Loop(t, c)
    PROVE  Marks'
<1>1. mixed' \in [Task -> BOOLEAN]
  <2>1. mixed' = mixed \/ mixed' = UsesStrtok(t)
    BY Zenon DEF Loop
  <2> QED
    BY <2>1, StrtokMarks DEF Marks
<1>2. nested' \in [Task -> BOOLEAN]
  <2> DEFINE b == nested[t] \/ c \notin event[t].cluster.same
  <2>1. nested' = [nested EXCEPT ![t] = b]
    BY DEF Loop
  <2>2. b \in BOOLEAN
    OBVIOUS
  <2> HIDE DEF b
  <2> QED
    BY <2>1, <2>2 DEF Marks
<1>3. UNCHANGED <<alone, base>>
  BY DEF Loop
<1> QED
  BY <1>1, <1>2, <1>3 DEF Marks

LEMMA TakesMarks ==
    ASSUME Marks, NEW t \in Task, NEW k, Takes(t, k)
    PROVE  mixed' \in [Task -> BOOLEAN]
  BY StrtokMarks DEF Takes

LEMMA PutMarks ==
    ASSUME Marks, Put
    PROVE  Marks'
<1> DEFINE b == alone[APP] /\ is_at' = is_at
<1>1. alone' = [alone EXCEPT ![APP] = b] /\ b \in BOOLEAN
  BY Zenon DEF Put
<1> HIDE DEF b
<1>2. alone' \in [Task -> BOOLEAN]
  BY <1>1 DEF Marks
<1> QED
  BY <1>2 DEF Put, Marks

\* No step leaves the marks anything else.
LEMMA StepMarks ==
    ASSUME IInv, Marks, [Next]_vars
    PROVE  Marks'
<1> USE DEF IInv
<1>1. CASE AppRound \/ Loss \/ UNCHANGED vars
  BY <1>1 DEF AppRound, Loss, vars, eventVars, Marks
<1>2. CASE Put
  BY <1>2, PutMarks
<1>3. ASSUME NEW t \in Task, Ends(t) PROVE Marks'
  BY <1>3, EndsMarks
<1>4. ASSUME NEW t \in Task, LoopDone(t) \/ (SetLamp(t) /\ UNCHANGED eventVars) PROVE Marks'
  BY <1>4 DEF LoopDone, eventVars, Marks
<1>5. ASSUME NEW t \in Task, SetsValue(t) PROVE Marks'
  <2>1. alone' \in [Task -> BOOLEAN]
    BY <1>5 DEF SetsValue, Marks
  <2> QED
    BY <1>5, <2>1 DEF SetsValue, Marks
<1>6. ASSUME NEW t \in Task, NEW c \in Channel, Loop(t, c) PROVE Marks'
  BY <1>6, LoopMarks
<1>7. ASSUME NEW t \in Task, NEW c \in Channel, SetDuration(t, c) \/ SetDefault(t, c) PROVE Marks'
  BY <1>7 DEF SetDuration, SetDefault, eventVars, Marks
<1>8. ASSUME NEW t \in Task, NEW k,
             TakeDim(t, k) \/ TakeColour(t, k) \/ TakeAttune(t, k) \/ Trap(t, k)
      PROVE  Marks'
  <2>1. CASE TakeDim(t, k)
    BY <2>1, TakesMarks DEF TakeDim, Marks
  <2>2. CASE TakeColour(t, k)
    BY <2>2, TakesMarks, DoneMarks DEF TakeColour, Marks
  <2>3. CASE TakeAttune(t, k)
    BY <2>3, TakesMarks, DoneMarks DEF TakeAttune, Marks
  <2>4. CASE Trap(t, k)
    BY <2>4 DEF Trap, eventVars, Marks
  <2> QED
    BY <1>8, <2>1, <2>2, <2>3, <2>4
<1>9. ASSUME NEW t \in Task, Note(t) PROVE Marks'
  BY <1>9, StrtokMarks DEF Note, Marks
<1>10. ASSUME NEW t \in Task, NEW e, Begin(t, e) PROVE Marks'
  BY <1>10, BeginMarks
<1> QED
  BY <1>1, <1>2, <1>3, <1>4, <1>5, <1>6, <1>7, <1>8, <1>9, <1>10
     DEF Next, TaskStep, Execute

-----------------------------------------------------------------------------
(* Steps that leave a task alone, or disturb it *)

\* Steps of the APP task by itself.
LEMMA AppRoundApart ==
    ASSUME Types, Marks, NEW t \in Task, AppRound
    PROVE  Apart(t)
<1> USE Tasks, Channels DEF Types
<1>1. UNCHANGED <<is_at, dim_values, eventVars>>
  BY DEF AppRound, AppStep, ResumePower, SamePower, PowerDone, Save, Restore, Count, RoundDone,
         Second, Minute, Check, Expire, modes
<1>2. CASE t = APP
  <2>1. pc'[APP] \in {"restore", "count", "save", "rest", "second", "minute", "check", "expire"}
    BY DEF Places, AppRound, AppStep, ResumePower, SamePower, PowerDone, Save, Restore, Count, RoundDone,
         Second, Minute, Check, Expire, Goto
  <2> QED
    BY <1>2, <2>1 DEF Apart, ByItself, Executing
<1>3. CASE t # APP
  <2>1. pc'[t] = pc[t] /\ i'[t] = i[t]
    BY <1>3 DEF Places, AppRound, AppStep, ResumePower, SamePower, PowerDone, Save, Restore, Count, RoundDone,
         Second, Minute, Check, Expire, Goto
  <2>2. setting'[t] = setting[t] /\ channel'[t] = channel[t] /\ new_value'[t] = new_value[t]
    BY <1>3 DEF Values, AppRound, AppStep, ResumePower, SamePower, PowerDone, Save, Restore, Count, RoundDone,
         Second, Minute, Check, Expire, CallSetDim, call
  <2> QED
    BY <1>1, <2>1, <2>2 DEF Apart, ByItself, eventVars
<1> QED
  BY <1>2, <1>3

LEMMA LossApart ==
    ASSUME Types, Marks, NEW t \in Task, Loss
    PROVE  Apart(t)
<1> USE Tasks DEF Types
<1>1. UNCHANGED <<is_at, dim_values, call, event, left, cmd, nested, mixed, base, alone>>
  BY DEF Loss, LosePower, modes
<1>2. CASE t = APP
  BY <1>2 DEF Loss, LosePower, Goto, Places, Apart, ByItself, Executing
<1>3. CASE t # APP
  <2>1. pc'[t] = pc[t] /\ i'[t] = i[t]
    BY <1>3 DEF Loss, LosePower, Goto, Places
  <2> QED
    BY <1>1, <2>1 DEF Apart, ByItself, call
<1> QED
  BY <1>2, <1>3

LEMMA PutApart ==
    ASSUME Types, Marks, NEW t \in Task, Put
    PROVE  Apart(t)
<1> USE Tasks DEF Types
<1>1. UNCHANGED <<pc, i, dim_values, event, left, cmd, nested, mixed, base>>
  BY DEF Put, PutDim, PutPwmMode, PutMode
<1>2. CASE t = SYS_CMD
  <2>1. pc[SYS_CMD] = "rest"
    BY DEF Put, PutDim, PutPwmMode, PutMode
  <2> QED
    BY <1>1, <1>2, <2>1 DEF Apart, ByItself, Executing
<1>3. CASE t = APP
  <2>1. setting'[t] = setting[t] /\ channel'[t] = channel[t] /\ new_value'[t] = new_value[t]
    BY <1>3 DEF Put, PutDim, PutPwmMode, PutMode, CallSetDim, Values, call
  <2>2. alone'[APP] => alone[APP] /\ is_at' = is_at
    <3> DEFINE b == alone[APP] /\ is_at' = is_at
    <3>1. alone' = [alone EXCEPT ![APP] = b]
      BY DEF Put
    <3>2. alone'[APP] = b
      <4> HIDE DEF b
      <4> QED
        BY <3>1 DEF Marks
    <3> QED
      BY <3>2
  <2> QED
    BY <1>1, <1>3, <2>1, <2>2 DEF Apart, ByItself
<1> QED
  BY <1>2, <1>3

\* The other task uses strtok: the place is lost.
LEMMA StrtokDisturbs ==
    ASSUME NEW t \in Task, NEW u \in Task, u # t, Executing(t),
           mixed' = UsesStrtok(u) \/ mixed' = [UsesStrtok(u) EXCEPT ![u] = FALSE]
    PROVE  mixed'[t]
<1>1. UsesStrtok(u)[t]
  BY DEF UsesStrtok
<1>2. UsesStrtok(u) = [x \in Task |-> UsesStrtok(u)[x]]
  BY DEF UsesStrtok
<1> HIDE DEF UsesStrtok
<1> QED
  BY <1>1, <1>2

\* Steps of the other task that use strtok.
LEMMA StrtokApart ==
    ASSUME NEW t \in Task, NEW u \in Task, u # t, pc'[t] = pc[t],
           mixed' = UsesStrtok(u) \/ mixed' = [UsesStrtok(u) EXCEPT ![u] = FALSE]
    PROVE  Apart(t)
<1>1. ByItself(t)' => Executing(t) /\ ~mixed'[t]
  BY DEF ByItself, Executing
<1> QED
  BY <1>1, StrtokDisturbs, Zenon DEF Apart

LEMMA NoteApart ==
    ASSUME NEW t \in Task, NEW u \in Task, Note(u)
    PROVE  Apart(t)
<1>1. CASE u = t
  BY <1>1 DEF Note, dimVars, Apart, ByItself, Executing
<1>2. CASE u # t
  <2>1. pc'[t] = pc[t] /\ mixed' = UsesStrtok(u)
    BY DEF Note, dimVars
  <2> QED
    BY <1>2, <2>1, StrtokApart
<1> QED
  BY <1>1, <1>2

LEMMA EndsApart ==
    ASSUME Types, NEW t \in Task, NEW u \in Task, Ends(u)
    PROVE  Apart(t)
<1>1. CASE u = t
  <2>1. pc'[t] \in {"rest", "poe"}
    BY <1>1 DEF Ends, Done, Goto, Types, Places
  <2> QED
    BY <2>1 DEF Apart, ByItself, Executing
<1>2. CASE u # t
  <2>1. pc'[t] = pc[t] /\ mixed' = [UsesStrtok(u) EXCEPT ![u] = FALSE]
    BY <1>2 DEF Ends, Done, Goto, Types, Places
  <2> QED
    BY <1>2, <2>1, StrtokApart
<1> QED
  BY <1>1, <1>2

LEMMA TrapApart ==
    ASSUME NEW t \in Task, NEW u, NEW k, Trap(u, k)
    PROVE  Apart(t)
  BY DEF Trap, Apart, ByItself, Executing

LEMMA BeginApart ==
    ASSUME Types, NEW t \in Task, NEW u \in Task, u # t, NEW e, Begin(u, e)
    PROVE  Apart(t)
<1>1. pc'[t] = pc[t] /\ mixed' = [UsesStrtok(u) EXCEPT ![u] = FALSE]
  BY DEF Begin, Goto, Types, Places
<1> QED
  BY <1>1, StrtokApart

LEMMA TakeDimApart ==
    ASSUME Types, NEW t \in Task, NEW u \in Task, u # t, NEW k, TakeDim(u, k)
    PROVE  Apart(t)
<1>1. pc'[t] = pc[t] /\ mixed' = UsesStrtok(u)
  BY DEF TakeDim, Takes, Goto, Types, Places
<1> QED
  BY <1>1, StrtokApart

LEMMA TakeColourApart ==
    ASSUME Types, NEW t \in Task, NEW u \in Task, u # t, NEW k, TakeColour(u, k)
    PROVE  Apart(t)
<1>1. pc'[t] = pc[t] /\ mixed' = UsesStrtok(u)
  BY DEF TakeColour, Takes, Done, Goto, Types, Places
<1> QED
  BY <1>1, StrtokApart

LEMMA TakeAttuneApart ==
    ASSUME Types, NEW t \in Task, NEW u \in Task, u # t, NEW k, TakeAttune(u, k)
    PROVE  Apart(t)
<1>1. pc'[t] = pc[t] /\ mixed' = UsesStrtok(u)
  BY DEF TakeAttune, Takes, Done, Goto, Types, Places
<1> QED
  BY <1>1, StrtokApart

\* A dim value that the other task sets is not the event's own.
LEMMA SetsValueApart ==
    ASSUME Marks, NEW t \in Task, NEW u \in Task, u # t, SetsValue(u)
    PROVE  Apart(t)
<1>1. Other(u) = t
  BY Tasks, Zenon
<1>2. ~alone'[t]
  BY <1>1 DEF SetsValue, Marks
<1> QED
  BY <1>2 DEF Apart, ByItself

LEMMA SetLampApart ==
    ASSUME Types, NEW t \in Task, NEW u \in Task, u # t, SetLamp(u), UNCHANGED eventVars
    PROVE  Apart(t)
<1>1. UNCHANGED <<pc, i, is_at, dim_values, event, left, cmd, nested, mixed, base, alone>>
  BY DEF SetLamp, modes, eventVars
<1>2. setting'[t] = setting[t] /\ channel'[t] = channel[t] /\ new_value'[t] = new_value[t]
  BY DEF SetLamp, Returned, Types, Values
<1> QED
  BY <1>1, <1>2 DEF Apart, ByItself

LEMMA LoopDoneApart ==
    ASSUME Types, NEW t \in Task, NEW u \in Task, u # t, LoopDone(u)
    PROVE  Apart(t)
<1>1. UNCHANGED <<is_at, dim_values, call, event, left, nested, mixed, base, alone>>
  BY DEF LoopDone, modes
<1>2. pc'[t] = pc[t] /\ i'[t] = i[t] /\ cmd'[t] = cmd[t]
  BY DEF LoopDone, Goto, Types, Places, Kinds
<1> QED
  BY <1>1, <1>2 DEF Apart, ByItself, call

LEMMA LoopApart ==
    ASSUME Types, Marks, NEW t \in Task, NEW u \in Task, u # t, NEW c \in Channel, Loop(u, c)
    PROVE  Apart(t)
<1>1. UNCHANGED <<is_at, dim_values, event, left, cmd, base, alone>>
  BY DEF Loop, modes
<1>2. pc'[t] = pc[t] /\ i'[t] = i[t]
  BY DEF Loop, Goto, Types, Places
<1>3. setting'[t] = setting[t] /\ channel'[t] = channel[t] /\ new_value'[t] = new_value[t]
  BY DEF Loop, CallSetDim, call, Types, Values
<1>4. CASE mixed' = UsesStrtok(u)
  BY <1>2, <1>4, StrtokApart
<1>5. CASE mixed' = mixed
  <2>1. nested'[t] = nested[t]
    <3> DEFINE b == nested[u] \/ c \notin event[u].cluster.same
    <3>1. nested' = [nested EXCEPT ![u] = b]
      BY DEF Loop
    <3> HIDE DEF b
    <3> QED
      BY <3>1 DEF Marks
  <2> QED
    BY <1>1, <1>2, <1>3, <1>5, <2>1 DEF Apart, ByItself
<1> QED
  BY <1>4, <1>5, Zenon DEF Loop

LEMMA SetDurationApart ==
    ASSUME Types, NEW t \in Task, NEW u \in Task, u # t, NEW c \in Channel, SetDuration(u, c)
    PROVE  Apart(t)
<1>1. UNCHANGED <<is_at, dim_values, call, eventVars>>
  BY DEF SetDuration, modes
<1>2. pc'[t] = pc[t] /\ i'[t] = i[t]
  BY DEF SetDuration, Goto, Types, Places
<1> QED
  BY <1>1, <1>2 DEF Apart, ByItself, call, eventVars

LEMMA SetDefaultApart ==
    ASSUME Types, NEW t \in Task, NEW u \in Task, u # t, NEW c \in Channel, SetDefault(u, c)
    PROVE  Apart(t)
<1>1. UNCHANGED <<is_at, dim_values, call, eventVars>>
  BY DEF SetDefault, modes
<1>2. pc'[t] = pc[t] /\ i'[t] = i[t]
  BY DEF SetDefault, Goto, Types, Places
<1> QED
  BY <1>1, <1>2 DEF Apart, ByItself, call, eventVars

LEMMA StutterApart ==
    ASSUME NEW t \in Task, UNCHANGED vars
    PROVE  Apart(t)
  BY DEF vars, dimVars, eventVars, modes, call, Apart, ByItself

-----------------------------------------------------------------------------
(* Steps of the task itself keep up with its policy *)

LEMMA PolicyRead ==
    ASSUME Types, NEW t \in Task
    PROVE  /\ event[t] \in EventType /\ event[t].policy \in Seq(CommandType)
           /\ Len(event[t].policy) \in Nat
           /\ event[t].cluster.same \subseteq event[t].cluster.match
           /\ event[t].cluster.match \subseteq Channel
           /\ left[t] \in Seq(CommandType) /\ Len(left[t]) \in Nat
           /\ cmd[t] \in CommandType
<1>1. event[t] \in EventType /\ left[t] \in Seq(CommandType) /\ cmd[t] \in CommandType
  BY DEF Types, Kinds
<1> QED
  BY <1>1 DEF EventType

\* Where each command has been dealt with, the dim value wanted is what it leads to.
LEMMA WantedUnfolds ==
    ASSUME Types, NEW t \in Task, Taken(t), NEW c \in event[t].cluster.match, Passed(t) >= 1
    PROVE  Results(event[t].policy, c, base[t][c])[Passed(t)]
             = Effect(event[t].policy[Passed(t)], c,
                      Results(event[t].policy, c, base[t][c])[Passed(t) - 1])
<1>1. Passed(t) \in 1 .. Len(event[t].policy)
  BY PolicyRead DEF Taken
<1> QED
  BY <1>1, PolicyRead, ResultsUnfold

LEMMA BeginProgress ==
    ASSUME Types, Marks, NEW t \in Task, NEW e \in EventType, Begin(t, e)
    PROVE  Progress(t)'
<1> SUFFICES ASSUME ByItself(t)' PROVE InPolicy(t)'
  BY DEF Progress
<1>1. e.cluster.match # {}
  BY DEF Begin, ByItself, Executing
<1>2. /\ pc'[t] = "parse" /\ event'[t] = e /\ left'[t] = e.policy /\ nested'[t] = FALSE
      /\ base'[t] = dim_values /\ dim_values' = dim_values /\ setting'[t] = "no"
  BY <1>1 DEF Begin, Goto, Types, Places, Kinds, Marks, Values, Setting, call
<1>3. e.policy \in Seq(CommandType)
  BY DEF EventType
<1>4. Len(e.policy) \in Nat /\ Passed(t)' = 0
  BY <1>2, <1>3 DEF Passed
<1>5. Taken(t)'
  BY <1>2, <1>3, <1>4 DEF Taken
<1>6. ASSUME NEW c \in Channel PROVE Wanted(t, c)' = dim_values[c]
  <2>1. Results(e.policy, c, dim_values[c])[0] = dim_values[c]
    BY <1>4, ResultsUnfold
  <2>2. Handled(t, c)'
    BY <1>2 DEF Handled
  <2> QED
    BY <1>2, <1>4, <2>1, <2>2 DEF Wanted
<1> QED
  BY <1>2, <1>5, <1>6 DEF InPolicy

LEMMA LoopDoneProgress ==
    ASSUME Types, Marks, NEW t \in Task, LoopDone(t), Progress(t)
    PROVE  Progress(t)'
<1> SUFFICES ASSUME ByItself(t)' PROVE InPolicy(t)'
  BY DEF Progress
<1>1. UNCHANGED <<is_at, dim_values, call, event, left, nested, mixed, base, alone>>
  BY DEF LoopDone, modes
<1>2. pc[t] = "loop" /\ i[t] = 3 /\ pc'[t] = "parse"
  BY DEF LoopDone, Goto, Types, Places
<1>3. ByItself(t) /\ InPolicy(t)
  BY <1>1, <1>2 DEF Progress, ByItself, Executing
<1>4. Passed(t)' = Passed(t) /\ Taken(t)'
  BY <1>1, <1>3 DEF InPolicy, Taken, Passed
<1>5. ASSUME NEW c \in Channel PROVE Handled(t, c) /\ Handled(t, c)'
  BY <1>2 DEF Handled, Channel
<1>6. ASSUME NEW c \in Channel PROVE Wanted(t, c)' = Wanted(t, c)
  BY <1>1, <1>4, <1>5 DEF Wanted
<1>7. setting[t] = "no" /\ setting'[t] = "no"
  BY <1>1 DEF LoopDone, call, Setting
<1> QED
  BY <1>1, <1>2, <1>3, <1>4, <1>6, <1>7 DEF InPolicy, Lost

\* A step within a command that sets no dim value and passes no channel.
LEMMA SameChannelProgress ==
    ASSUME Types, NEW t \in Task, Progress(t),
           UNCHANGED <<is_at, dim_values, call, event, left, cmd, nested, mixed, base, alone>>,
           Executing(t), pc[t] # "parse", pc'[t] # "parse",
           \A c \in Channel : Handled(t, c)' <=> Handled(t, c)
    PROVE  Progress(t)'
<1> SUFFICES ASSUME ByItself(t)' PROVE InPolicy(t)'
  BY DEF Progress
<1>1. ByItself(t) /\ InPolicy(t)
  BY DEF Progress, ByItself
<1>2. Passed(t)' = Passed(t) /\ Taken(t)'
  BY <1>1 DEF InPolicy, Taken, Passed
<1>3. \A c \in Channel : Wanted(t, c)' = Wanted(t, c)
  BY <1>2 DEF Wanted
<1>4. channel[t] \in Channel
  BY DEF Types, Values
<1> QED
  BY <1>1, <1>2, <1>3, <1>4 DEF InPolicy, Lost, call

LEMMA SetDurationProgress ==
    ASSUME Types, NEW t \in Task, NEW c \in Channel, SetDuration(t, c), Progress(t)
    PROVE  Progress(t)'
<1>1. UNCHANGED <<is_at, dim_values, call, event, left, cmd, nested, mixed, base, alone>>
  BY DEF SetDuration, modes, eventVars
<1>2. pc[t] = "duration" /\ i[t] = c /\ pc'[t] = "default" /\ i'[t] = c
  BY DEF SetDuration, Goto, Types, Places
<1>3. \A d \in Channel : Handled(t, d)' <=> Handled(t, d)
  BY <1>2 DEF Handled
<1> QED
  BY <1>1, <1>2, <1>3, SameChannelProgress DEF Executing

LEMMA SetDefaultProgress ==
    ASSUME Types, NEW t \in Task, NEW c \in Channel, SetDefault(t, c), Progress(t)
    PROVE  Progress(t)'
<1>1. UNCHANGED <<is_at, dim_values, call, event, left, cmd, nested, mixed, base, alone>>
  BY DEF SetDefault, modes, eventVars
<1>2. pc[t] = "default" /\ i[t] = c /\ pc'[t] = "loop" /\ i'[t] = c + 1
  BY Channels DEF SetDefault, Goto, Types, Places
<1>3. \A d \in Channel : Handled(t, d)' <=> Handled(t, d)
  BY <1>2 DEF Handled, Channel
<1> QED
  BY <1>1, <1>2, <1>3, SameChannelProgress DEF Executing

LEMMA SetsValueProgress ==
    ASSUME Types, Marks, NEW t \in Task, SetsValue(t), Progress(t)
    PROVE  Progress(t)'
<1> SUFFICES ASSUME ByItself(t)' PROVE InPolicy(t)'
  BY DEF Progress
<1>1. UNCHANGED <<pc, i, is_at, channel, new_value, event, left, cmd, nested, mixed, base>>
  BY DEF SetsValue, SetValue, modes
<1>2. alone'[t] = alone[t]
  BY Tasks DEF SetsValue, Marks
<1>3. ByItself(t) /\ InPolicy(t)
  BY <1>1, <1>2 DEF Progress, ByItself, Executing
<1>4. setting[t] = "value" /\ setting'[t] = "lamp" /\ channel[t] \in Channel
  BY DEF SetsValue, SetValue, Types, Values
<1>5. Reached(channel[t]) = {channel[t]}
  BY <1>3, <1>4 DEF ByItself, Reached
<1>6. ASSUME NEW c \in Channel
      PROVE  dim_values'[c] = IF c = channel[t] THEN new_value[t] ELSE dim_values[c]
  BY <1>5 DEF SetsValue, SetValue
<1>7. Passed(t)' = Passed(t) /\ Taken(t)'
  BY <1>1, <1>3 DEF InPolicy, Taken, Passed
<1>8. \A c \in Channel : Wanted(t, c)' = Wanted(t, c)
  BY <1>1, <1>7 DEF Wanted, Handled
<1>9. \A c \in Channel : dim_values'[c] = Wanted(t, c)
  BY <1>3, <1>4, <1>6 DEF InPolicy
<1> QED
  BY <1>1, <1>3, <1>4, <1>7, <1>8, <1>9 DEF InPolicy, Lost

LEMMA SetLampProgress ==
    ASSUME Types, NEW t \in Task, SetLamp(t), UNCHANGED eventVars, Progress(t)
    PROVE  Progress(t)'
<1> SUFFICES ASSUME ByItself(t)' PROVE InPolicy(t)'
  BY DEF Progress
<1>1. UNCHANGED <<pc, i, is_at, dim_values, event, left, cmd, nested, mixed, base, alone>>
  BY DEF SetLamp, modes, eventVars
<1>2. setting[t] = "lamp" /\ setting'[t] = "no"
  BY DEF SetLamp, Returned, Types, Values
<1>3. ByItself(t) /\ InPolicy(t)
  BY <1>1 DEF Progress, ByItself, Executing
<1>4. Passed(t)' = Passed(t) /\ Taken(t)'
  BY <1>1, <1>3 DEF InPolicy, Taken, Passed
<1>5. \A c \in Channel : Wanted(t, c)' = Wanted(t, c)
  BY <1>1, <1>4 DEF Wanted, Handled
<1> QED
  BY <1>1, <1>2, <1>3, <1>4, <1>5 DEF InPolicy, Lost

-----------------------------------------------------------------------------
(* Commands are taken *)

\* The head of what is left is the command after those passed.
LEMMA Taking ==
    ASSUME Types, Marks, NEW t \in Task, NEW k \in NextCommand(t), Takes(t, k),
           ~mixed[t], Taken(t), UNCHANGED event
    PROVE  /\ left[t] # <<>> /\ ~nested[t] /\ k = event[t].policy[Passed(t) + 1]
           /\ Passed(t)' = Passed(t) + 1 /\ Taken(t)' /\ mixed'[t] = mixed[t]
<1>1. left[t] # <<>> /\ ~nested[t] /\ k = Head(left[t])
  BY DEF NextCommand
<1>2. left'[t] = Tail(left[t])
  BY <1>1 DEF Takes
<1> DEFINE s == left[t]
           p == event[t].policy
<1>3. s \in Seq(CommandType) /\ Len(s) \in Nat /\ s # <<>> /\ Len(p) \in Nat
  BY <1>1, PolicyRead
<1>4. /\ Len(s) >= 1 /\ Head(s) = s[1] /\ Len(Tail(s)) = Len(s) - 1
      /\ \A n \in 1 .. Len(s) - 1 : Tail(s)[n] = s[n + 1]
  <2> HIDE DEF s
  <2> QED
    BY <1>3
<1>5. Passed(t)' = Passed(t) + 1 /\ Passed(t) = Len(p) - Len(s)
  <2>1. Len(left'[t]) = Len(s) - 1 /\ event'[t].policy = p
    BY <1>2, <1>4
  <2>2. Passed(t) = Len(p) - Len(s) /\ Passed(t)' = Len(p) - (Len(s) - 1)
    BY <2>1, Zenon DEF Passed
  <2> HIDE DEF s, p
  <2> QED
    BY <1>3, <2>2
<1>6. Passed(t) \in 0 .. Len(p) /\ \A n \in 1 .. Len(s) : s[n] = p[Passed(t) + n]
  BY DEF Taken
<1>7. k = p[Passed(t) + 1]
  BY <1>1, <1>3, <1>4, <1>6
<1>8. Taken(t)'
  <2>1. Passed(t) + 1 \in 0 .. Len(p)
    <3> HIDE DEF s, p
    <3> QED
      BY <1>3, <1>4, <1>5, <1>6
  <2>2. ASSUME NEW n \in 1 .. Len(s) - 1 PROVE Tail(s)[n] = p[Passed(t) + 1 + n]
    <3>1. n + 1 \in 1 .. Len(s) /\ Passed(t) + (n + 1) = Passed(t) + 1 + n
      BY <1>3, <1>6
    <3> QED
      BY <1>4, <1>6, <3>1
  <2>3. left'[t] = Tail(s) /\ event' = event
    BY <1>2
  <2> QED
    BY <1>4, <1>5, <2>1, <2>2, <2>3 DEF Taken
<1>9. mixed'[t] = mixed[t]
  <2>1. UsesStrtok(t)[t] = (mixed[t] \/ (t # t /\ Executing(t)))
    BY DEF UsesStrtok
  <2> QED
    BY <2>1 DEF Takes, Marks
<1> QED
  BY <1>1, <1>5, <1>7, <1>8, <1>9

LEMMA TakeDimProgress ==
    ASSUME Types, Marks, NEW t \in Task, Parsing(t), NEW k \in NextCommand(t), TakeDim(t, k),
           Progress(t)
    PROVE  Progress(t)'
<1> SUFFICES ASSUME ByItself(t)' PROVE InPolicy(t)'
  BY DEF Progress
<1>1. UNCHANGED <<is_at, dim_values, setting, channel, new_value, event, nested, base, alone>>
  BY DEF TakeDim, modes, call
<1>2. /\ pc[t] = "parse" /\ setting[t] = "no" /\ pc'[t] = "loop" /\ i'[t] = 1 /\ cmd'[t] = k
      /\ k.f \in {"F0", "F1", "F2", "F3", "fl"} /\ Takes(t, k)
  BY DEF Parsing, Setting, TakeDim, Goto, Types, Places, Kinds
<1>3. ~mixed[t]
  <2>1. mixed'[t] = (mixed[t] \/ (t # t /\ Executing(t)))
    BY <1>2 DEF Takes, UsesStrtok
  <2> QED
    BY <2>1 DEF ByItself
<1>4. ByItself(t) /\ InPolicy(t)
  BY <1>1, <1>2, <1>3 DEF Progress, ByItself, Executing
<1>5. Taken(t)
  BY <1>4 DEF InPolicy
<1>6. /\ left[t] # <<>> /\ ~nested[t] /\ k = event[t].policy[Passed(t) + 1]
      /\ Passed(t)' = Passed(t) + 1 /\ Taken(t)'
  BY <1>1, <1>2, <1>3, <1>5, Taking
<1>7. Passed(t) \in Nat
  BY <1>5, PolicyRead DEF Taken
<1>8. ASSUME NEW c \in Channel PROVE Wanted(t, c)' = Wanted(t, c)
  <2>1. Handled(t, c) /\ ~Handled(t, c)'
    BY <1>2 DEF Handled, Channel
  <2>2. Passed(t)' - 1 = Passed(t)
    BY <1>6, <1>7
  <2> QED
    BY <1>1, <2>1, <2>2 DEF Wanted
<1> QED
  BY <1>1, <1>2, <1>4, <1>6, <1>7, <1>8 DEF InPolicy, Lost

\* A command for the colour leaves the dim values as they are.
LEMMA ColourProgress ==
    ASSUME Types, Marks, NEW t \in Task, Parsing(t), NEW k \in NextCommand(t), Takes(t, k),
           k.f \notin {"F0", "F1", "F2", "F3", "fl"}, CallSetAt(t), Progress(t),
           UNCHANGED <<pc, i, is_at, dim_values, event, cmd, nested, base, alone>>
    PROVE  Progress(t)'
<1> SUFFICES ASSUME ByItself(t)' PROVE InPolicy(t)'
  BY DEF Progress
<1>1. pc[t] = "parse" /\ setting'[t] = "lamp" /\ setting[t] = "no"
  BY DEF Parsing, Setting, CallSetAt, Types, Values
<1>2. ~mixed[t]
  <2>1. mixed'[t] = (mixed[t] \/ (t # t /\ Executing(t)))
    BY DEF Takes, UsesStrtok
  <2> QED
    BY <2>1 DEF ByItself
<1>3. ByItself(t) /\ InPolicy(t)
  BY <1>2 DEF Progress, ByItself, Executing
<1>4. Taken(t)
  BY <1>3 DEF InPolicy
<1>5. /\ left[t] # <<>> /\ ~nested[t] /\ k = event[t].policy[Passed(t) + 1]
      /\ Passed(t)' = Passed(t) + 1 /\ Taken(t)'
  BY <1>2, <1>4, Taking
<1>6. Passed(t) \in Nat /\ Passed(t)' \in 1 .. Len(event[t].policy)
  BY <1>4, <1>5, PolicyRead DEF Taken
<1>7. ASSUME NEW c \in Channel PROVE Wanted(t, c)' = Wanted(t, c)
  <2> DEFINE R == Results(event[t].policy, c, base[t][c])
  <2>1. Handled(t, c) /\ Handled(t, c)'
    BY <1>1 DEF Handled
  <2>2. R[Passed(t) + 1] = Effect(event[t].policy[Passed(t) + 1], c, R[(Passed(t) + 1) - 1])
    BY <1>5, <1>6, PolicyRead, ResultsUnfold
  <2>3. Effect(k, c, R[(Passed(t) + 1) - 1]) = R[(Passed(t) + 1) - 1]
    BY Zenon DEF Effect
  <2>4. R[Passed(t) + 1] = R[Passed(t)]
    <3>1. (Passed(t) + 1) - 1 = Passed(t)
      BY <1>6
    <3> HIDE DEF R
    <3> QED
      BY <2>2, <2>3, <3>1, <1>5
  <2> QED
    BY <2>1, <2>4, <1>5 DEF Wanted
<1> QED
  BY <1>1, <1>3, <1>5, <1>7 DEF InPolicy, Lost

\* A channel of the loop: the value that the command leads to is set, or is the
\* dim value already.
LEMMA LoopProgress ==
    ASSUME Types, Marks, NEW t \in Task, NEW c \in Channel, Loop(t, c), Progress(t)
    PROVE  Progress(t)'
<1> SUFFICES ASSUME ByItself(t)' PROVE InPolicy(t)'
  BY DEF Progress
<1> DEFINE k == cmd[t]
           v == dim_values[c]
           ours == c \in event[t].cluster.match /\ k.c \in {0, c}
<1>1. UNCHANGED <<is_at, dim_values, event, left, cmd, base, alone>>
  BY DEF Loop, modes
<1>2. pc[t] = "loop" /\ i[t] = c /\ setting[t] = "no"
  BY DEF Loop, Setting
<1>3. ~mixed[t]
  <2>1. CASE mixed' = UsesStrtok(t)
    <3>1. mixed'[t] = (mixed[t] \/ (t # t /\ Executing(t)))
      BY <2>1 DEF UsesStrtok
    <3> QED
      BY <3>1 DEF ByItself
  <2>2. CASE mixed' = mixed
    BY <2>2 DEF ByItself
  <2> QED
    BY <2>1, <2>2, Zenon DEF Loop
<1>4. ByItself(t) /\ InPolicy(t)
  BY <1>1, <1>2, <1>3 DEF Progress, ByItself, Executing
<1>5. /\ Taken(t) /\ (nested[t] => Lost(t))
      /\ Passed(t) >= 1 /\ k = event[t].policy[Passed(t)]
      /\ k.f \in {"F0", "F1", "F2", "F3", "fl"}
      /\ \A d \in Channel : dim_values[d] = Wanted(t, d)
  BY <1>2, <1>4 DEF InPolicy
<1>6. Passed(t)' = Passed(t) /\ Taken(t)'
  BY <1>1, <1>5 DEF Taken, Passed
<1>7. \/ pc'[t] = "loop" /\ i'[t] = c + 1
      \/ pc'[t] = "duration" /\ i'[t] = c
  BY Channels DEF Loop, Goto, Types, Places
<1>8. /\ ~Handled(t, c) /\ Handled(t, c)'
      /\ \A d \in Channel \ {c} : Handled(t, d)' <=> Handled(t, d)
  BY <1>2, <1>7 DEF Handled, Channel
<1>9. nested'[t] => Lost(t)
  <2> DEFINE b == nested[t] \/ c \notin event[t].cluster.same
  <2>1. nested' = [nested EXCEPT ![t] = b]
    BY DEF Loop
  <2>2. nested'[t] = b
    <3> HIDE DEF b
    <3> QED
      BY <2>1 DEF Marks
  <2>3. b => Lost(t)
    BY <1>5 DEF Lost
  <2> HIDE DEF b
  <2> QED
    BY <2>2, <2>3
<1>10. ASSUME NEW d \in Channel \ {c} PROVE Wanted(t, d)' = dim_values[d]
  <2>1. Wanted(t, d)' = Wanted(t, d)
    BY <1>1, <1>6, <1>8 DEF Wanted
  <2> QED
    BY <1>5, <2>1
<1>11. Wanted(t, c)' = IF c \in event[t].cluster.match THEN Effect(k, c, v) ELSE v
  <2>1. CASE c \notin event[t].cluster.match
    BY <1>1, <1>5, <2>1 DEF Wanted
  <2>2. CASE c \in event[t].cluster.match
    <3> DEFINE R == Results(event[t].policy, c, base[t][c])
    <3>1. v = R[Passed(t) - 1]
      BY <1>5, <1>8, <2>2 DEF Wanted
    <3>2. Wanted(t, c)' = R[Passed(t)]
      BY <1>1, <1>6, <1>8, <2>2 DEF Wanted
    <3>3. R[Passed(t)] = Effect(k, c, R[Passed(t) - 1])
      BY <1>5, <2>2, WantedUnfolds
    <3> HIDE DEF R
    <3> QED
      BY <2>2, <3>1, <3>2, <3>3
  <2> QED
    BY <2>1, <2>2
<1>12. CASE ours /\ Sets(k)
  <2>1. setting'[t] = "value" /\ channel'[t] = c /\ new_value'[t] = Level(k, v)
    BY <1>12 DEF Loop, CallSetDim, Types, Values
  <2>2. Wanted(t, c)' = Level(k, v)
    BY <1>5, <1>11, <1>12 DEF Effect
  <2> QED
    BY <1>1, <1>5, <1>6, <1>9, <1>10, <2>1, <2>2 DEF InPolicy, Lost
<1>13. CASE ~(ours /\ Sets(k))
  <2>1. setting'[t] = "no"
    BY <1>2, <1>13 DEF Loop, call
  <2>2. ~Sets(k) => Level(k, v) = v
    BY DEF Sets, Level
  <2>3. Wanted(t, c)' = v
    BY <1>11, <1>13, <2>2 DEF Effect
  <2> QED
    BY <1>1, <1>5, <1>6, <1>9, <1>10, <2>1, <2>3 DEF InPolicy, Lost
<1> QED
  BY <1>12, <1>13

\* A task at rest after its event executes none.
LEMMA DoneProgress ==
    ASSUME Types, NEW t \in Task, Done(t)
    PROVE  Progress(t)'
<1>1. pc'[t] \in {"rest", "poe"}
  BY DEF Done, Goto, Types, Places
<1> QED
  BY <1>1 DEF Progress, ByItself, Executing

LEMMA TakeColourProgress ==
    ASSUME Types, Marks, NEW t \in Task, Parsing(t), NEW k \in NextCommand(t), TakeColour(t, k),
           Progress(t)
    PROVE  Progress(t)'
<1>1. CASE Done(t)
  BY <1>1, DoneProgress
<1>2. CASE CallSetAt(t) /\ UNCHANGED <<pc, i, nested, base, alone>>
  <2>1. Takes(t, k) /\ UNCHANGED <<is_at, dim_values, event, cmd>>
    BY DEF TakeColour, modes
  <2>2. k.f \notin {"F0", "F1", "F2", "F3", "fl"}
    BY DEF TakeColour
  <2> QED
    BY <1>2, <2>1, <2>2, ColourProgress
<1> QED
  BY <1>1, <1>2 DEF TakeColour

LEMMA TakeAttuneProgress ==
    ASSUME Types, Marks, NEW t \in Task, Parsing(t), NEW k \in NextCommand(t), TakeAttune(t, k),
           Progress(t)
    PROVE  Progress(t)'
<1>1. CASE Done(t)
  BY <1>1, DoneProgress
<1>2. CASE CallSetAt(t) /\ UNCHANGED <<pc, i, nested, base, alone>>
  <2>1. Takes(t, k) /\ UNCHANGED <<is_at, dim_values, event, cmd>>
    BY DEF TakeAttune, modes
  <2>2. k.f \notin {"F0", "F1", "F2", "F3", "fl"}
    BY DEF TakeAttune
  <2> QED
    BY <1>2, <2>1, <2>2, ColourProgress
<1> QED
  BY <1>1, <1>2 DEF TakeAttune

-----------------------------------------------------------------------------
(* The invariant of the events, and what it means at their end *)

EventInv == IInv /\ Marks /\ \A t \in Task : Progress(t)

LEMMA InitEventInv == Init => EventInv
<1> SUFFICES ASSUME Init PROVE EventInv
  OBVIOUS
<1>1. IInv
  BY InitIInv
<1>2. NoValues \in [Channel -> Nat]
  BY DEF NoValues
<1>3. Marks
  BY <1>2 DEF Init, Idle, Marks
<1>4. \A t \in Task : Progress(t)
  BY DEF Init, Started, Progress, ByItself, Executing
<1> QED
  BY <1>1, <1>3, <1>4 DEF EventInv

\* Whatever task u does, task t keeps up with its policy.
LEMMA TaskStepProgress ==
    ASSUME IInv, Marks, NEW t \in Task, Progress(t), NEW u \in Task, TaskStep(u)
    PROVE  Progress(t)'
<1> USE DEF IInv
<1>1. CASE Ends(u)
  BY <1>1, EndsApart, ApartKeepsProgress
<1>2. CASE LoopDone(u)
  BY <1>2, LoopDoneProgress, LoopDoneApart, ApartKeepsProgress
<1>3. CASE SetsValue(u)
  BY <1>3, SetsValueProgress, SetsValueApart, ApartKeepsProgress
<1>4. CASE SetLamp(u) /\ UNCHANGED eventVars
  BY <1>4, SetLampProgress, SetLampApart, ApartKeepsProgress
<1>5. ASSUME NEW c \in Channel, Loop(u, c) PROVE Progress(t)'
  BY <1>5, LoopProgress, LoopApart, ApartKeepsProgress
<1>6. ASSUME NEW c \in Channel, SetDuration(u, c) PROVE Progress(t)'
  BY <1>6, SetDurationProgress, SetDurationApart, ApartKeepsProgress
<1>7. ASSUME NEW c \in Channel, SetDefault(u, c) PROVE Progress(t)'
  BY <1>7, SetDefaultProgress, SetDefaultApart, ApartKeepsProgress
<1>8. ASSUME Parsing(u), NEW k \in NextCommand(u),
             TakeDim(u, k) \/ TakeColour(u, k) \/ TakeAttune(u, k) \/ Trap(u, k)
      PROVE  Progress(t)'
  <2>1. CASE TakeDim(u, k)
    BY <1>8, <2>1, TakeDimProgress, TakeDimApart, ApartKeepsProgress
  <2>2. CASE TakeColour(u, k)
    BY <1>8, <2>2, TakeColourProgress, TakeColourApart, ApartKeepsProgress
  <2>3. CASE TakeAttune(u, k)
    BY <1>8, <2>3, TakeAttuneProgress, TakeAttuneApart, ApartKeepsProgress
  <2>4. CASE Trap(u, k)
    BY <2>4, TrapApart, ApartKeepsProgress
  <2> QED
    BY <1>8, <2>1, <2>2, <2>3, <2>4
<1> QED
  BY <1>1, <1>2, <1>3, <1>4, <1>5, <1>6, <1>7, <1>8 DEF TaskStep, Execute

LEMMA StepEventInv == EventInv /\ [Next]_vars => EventInv'
<1> SUFFICES ASSUME EventInv, [Next]_vars PROVE EventInv'
  OBVIOUS
<1>1. IInv' /\ Marks'
  BY StepIInv, StepMarks DEF EventInv
<1>2. ASSUME NEW t \in Task PROVE Progress(t)'
  <2> USE DEF EventInv, IInv
  <2>1. CASE AppRound
    BY <2>1, AppRoundApart, ApartKeepsProgress
  <2>2. CASE Loss
    BY <2>2, LossApart, ApartKeepsProgress
  <2>3. CASE Put
    BY <2>3, PutApart, ApartKeepsProgress
  <2>4. ASSUME NEW u \in Task, TaskStep(u) PROVE Progress(t)'
    BY <2>4, TaskStepProgress
  <2>5. ASSUME NEW u \in Task, Note(u) PROVE Progress(t)'
    BY <2>5, NoteApart, ApartKeepsProgress
  <2>6. ASSUME NEW u \in Task, NEW e \in Event(u), Begin(u, e) PROVE Progress(t)'
    <3>1. e \in EventType
      BY Events
    <3> QED
      BY <2>6, <3>1, BeginProgress, BeginApart, ApartKeepsProgress
  <2>7. CASE UNCHANGED vars
    BY <2>7, StutterApart, ApartKeepsProgress
  <2> QED
    BY <2>1, <2>2, <2>3, <2>4, <2>5, <2>6, <2>7 DEF Next
<1> QED
  BY <1>1, <1>2 DEF EventInv

\* What a task that parses its policy by itself has made of the dim values.
LEMMA Parsed ==
    ASSUME EventInv, NEW t \in Task, pc[t] = "parse", setting[t] # "value", alone[t], ~mixed[t],
           \A c \in Channel : ~is_at[c], NEW c \in Channel
    PROVE  /\ Taken(t) /\ (nested[t] => Lost(t))
           /\ dim_values[c] = IF c \in event[t].cluster.match
                              THEN Results(event[t].policy, c, base[t][c])[Passed(t)] ELSE base[t][c]
<1>1. InPolicy(t)
  BY DEF EventInv, Progress, ByItself, Executing
<1>2. Handled(t, c)
  BY DEF Handled
<1> QED
  BY <1>1, <1>2 DEF InPolicy, Wanted

\* An event that ends because nothing is left.
LEMMA NothingLeft ==
    ASSUME EventInv, NEW t \in Task, pc[t] = "parse", setting[t] # "value", alone[t], ~mixed[t],
           \A c \in Channel : ~is_at[c], left[t] = <<>>, NEW c \in Channel
    PROVE  dim_values[c] = IF c \in event[t].cluster.match
                           THEN Result(event[t].policy, c, base[t][c]) ELSE base[t][c]
<1>1. Len(event[t].policy) \in Nat
  BY PolicyRead DEF EventInv, IInv
<1>2. Passed(t) = Len(event[t].policy)
  BY <1>1 DEF Passed
<1> QED
  BY <1>2, Parsed DEF Result

\* An event that attune ends has no other command.
LEMMA AttuneAlone ==
    ASSUME EventInv, NEW t \in Task, pc[t] = "parse", setting[t] # "value", alone[t], ~mixed[t],
           \A c \in Channel : ~is_at[c], NEW k \in NextCommand(t), k.f = "attune", NEW c \in Channel
    PROVE  dim_values[c] = IF c \in event[t].cluster.match
                           THEN Result(event[t].policy, c, base[t][c]) ELSE base[t][c]
<1> DEFINE p == event[t].policy
           R == Results(p, c, base[t][c])
<1>1. p \in Seq(CommandType) /\ Len(p) \in Nat /\ event[t] \in EventType
      /\ left[t] \in Seq(CommandType) /\ Len(left[t]) \in Nat
  BY PolicyRead DEF EventInv, IInv
<1>2. left[t] # <<>> /\ k = Head(left[t]) /\ Taken(t)
  BY Parsed DEF NextCommand
<1>3. Len(left[t]) >= 1 /\ k = left[t][1]
  BY <1>1, <1>2
<1>4. Passed(t) \in 0 .. Len(p) /\ k = p[Passed(t) + 1] /\ Passed(t) + 1 \in 1 .. Len(p)
  <2>1. Passed(t) \in 0 .. Len(p) /\ Passed(t) = Len(p) - Len(left[t])
        /\ \A n \in 1 .. Len(left[t]) : left[t][n] = p[Passed(t) + n]
    BY <1>2, Zenon DEF Taken, Passed
  <2>2. Len(p) \in Nat /\ Len(left[t]) \in Nat /\ Len(left[t]) >= 1
    BY <1>1, <1>3
  <2> HIDE DEF p
  <2>3. k = p[Passed(t) + 1]
    <3>1. 1 \in 1 .. Len(left[t])
      BY <2>2
    <3>2. left[t][1] = p[Passed(t) + 1]
      BY <2>1, <3>1, Zenon
    <3> QED
      BY <1>3, <3>2
  <2>4. Passed(t) + 1 \in 1 .. Len(p)
    BY <2>1, <2>2
  <2> QED
    BY <2>1, <2>3, <2>4
<1>5. Len(p) = 1
  <2>1. \E n \in DOMAIN p : p[n].f \in Special
    BY <1>1, <1>4 DEF Special
  <2> QED
    BY <1>1, <2>1 DEF EventType
<1>6. Passed(t) = 0
  BY <1>4, <1>5
<1>7. R[0] = base[t][c] /\ R[1] = Effect(p[1], c, R[1 - 1])
  <2>1. 1 \in 1 .. Len(p)
    BY <1>5
  <2> QED
    BY <1>1, <2>1, ResultsUnfold
<1>8. R[1] = R[0]
  <2>1. p[1].f = "attune"
    BY <1>4, <1>6
  <2> HIDE DEF p, R
  <2> QED
    BY <1>7, <2>1 DEF Effect
<1>9. Result(p, c, base[t][c]) = R[Passed(t)]
  BY <1>5, <1>6, <1>8 DEF Result
<1> QED
  BY <1>9, Parsed

\* An event has set, when it is done, the dim values that its commands ask for one
\* after the other, unless something came between (event.c:69-304, 377-418).
THEOREM PolicyTakesEffect == Spec => EffectOfAll
<1>1. Spec => []EventInv
  BY InitEventInv, StepEventInv, PTL DEF Spec
<1> DEFINE Right(t) == \A c \in Channel :
               dim_values[c] = IF c \in event[t].cluster.match
                               THEN Result(event[t].policy, c, base[t][c]) ELSE base[t][c]
           End(t) == /\ pc[t] = "parse" /\ pc'[t] \in {"rest", "poe"}
                     /\ alone[t] /\ ~mixed[t] /\ (left[t] = <<>> \/ ~Lost(t))
                     /\ \A c \in Channel : ~is_at[c]
<1>2. ASSUME EventInv, [Next]_vars PROVE \A t \in Task : End(t) => Right(t)
  <2> SUFFICES ASSUME NEW t \in Task, End(t) PROVE Right(t)
    OBVIOUS
  <2>1. Types /\ Marks /\ pc'[t] # pc[t]
    BY <1>2 DEF EventInv, IInv
  <2>2. ~AppRound /\ ~Loss /\ ~Put /\ ~(UNCHANGED vars)
    <3>1. ~AppRound
      BY <2>1, Tasks DEF Types, Places, AppRound, AppStep, ResumePower, SamePower, PowerDone, Save,
            Restore, Count, RoundDone, Second, Minute, Check, Expire, Goto
    <3>2. ~Loss
      BY <2>1, Tasks DEF Types, Places, Loss, LosePower, Goto
    <3>3. ~Put /\ ~(UNCHANGED vars)
      BY <2>1 DEF Put, PutDim, PutPwmMode, PutMode, vars, dimVars
    <3> QED
      BY <3>1, <3>2, <3>3
  <2>3. ASSUME NEW u \in Task, Note(u) \/ \E e \in Event(u) : Begin(u, e) PROVE FALSE
    BY <2>1, <2>3 DEF Types, Places, Note, Begin, dimVars, Goto
  <2>4. PICK u \in Task : TaskStep(u)
    BY <1>2, <2>2, <2>3 DEF Next
  <2>5. ASSUME SetsValue(u) \/ SetLamp(u) \/ LoopDone(u)
               \/ (\E c \in Channel : Loop(u, c) \/ SetDuration(u, c) \/ SetDefault(u, c))
               \/ (\E k \in NextCommand(u) : TakeDim(u, k) \/ Trap(u, k))
        PROVE FALSE
    BY <2>1, <2>5, Channels DEF Types, Places, SetsValue, SetValue, SetLamp, LoopDone, Loop,
          SetDuration, SetDefault, TakeDim, Trap, Goto
  <2>6. CASE Ends(u)
    <3>1. u = t
      BY <2>1, <2>6 DEF Ends, Done, Goto, Types, Places
    <3>2. setting[t] # "value"
      BY <2>6, <3>1 DEF Ends, Parsing, Setting
    <3>3. left[t] = <<>>
      <4>1. left[t] = <<>> \/ nested[t]
        BY <2>6, <3>1 DEF Ends
      <4>2. nested[t] => Lost(t)
        BY <1>2, <3>2, Parsed, Channels
      <4> QED
        BY <4>1, <4>2
    <3> QED
      BY <1>2, <3>2, <3>3, NothingLeft
  <2>7. ASSUME Parsing(u), NEW k \in NextCommand(u), TakeColour(u, k) PROVE Right(t)
    <3>1. u = t /\ Done(t)
      BY <2>1, <2>7 DEF TakeColour, Done, Goto, Types, Places
    <3>2. event[t].cluster.match # Channel \/ Lost(t)
      <4>1. ~(CallSetAt(t) /\ UNCHANGED <<pc, i, nested, base, alone>>)
        BY <2>1
      <4> QED
        BY <2>7, <3>1, <4>1 DEF TakeColour
    <3>3. Lost(t)
      BY <2>1, <3>2, PolicyRead DEF Lost
    <3>4. left[t] # <<>>
      BY <2>7, <3>1 DEF NextCommand
    <3> QED
      BY <3>3, <3>4
  <2>8. ASSUME Parsing(u), NEW k \in NextCommand(u), TakeAttune(u, k) PROVE Right(t)
    <3>1. u = t
      BY <2>1, <2>8 DEF TakeAttune, Done, Goto, Types, Places
    <3>2. setting[t] # "value" /\ k.f = "attune"
      BY <2>8, <3>1 DEF Parsing, Setting, TakeAttune
    <3> QED
      BY <1>2, <2>8, <3>1, <3>2, AttuneAlone
  <2> QED
    BY <2>4, <2>5, <2>6, <2>7, <2>8 DEF TaskStep, Execute
<1>3. ASSUME EventInv, [Next]_vars
      PROVE  [\A t \in Task :
                 /\ pc[t] = "parse" /\ pc'[t] \in {"rest", "poe"}
                 /\ alone[t] /\ ~mixed[t] /\ (left[t] = <<>> \/ ~Lost(t)) /\ \A c \in Channel : ~is_at[c]
                 => \A c \in Channel :
                        dim_values[c] = IF c \in event[t].cluster.match
                                        THEN Result(event[t].policy, c, base[t][c]) ELSE base[t][c]]_vars
  BY <1>2, <1>3
<1> HIDE DEF Right, End
<1> QED
  BY <1>1, <1>3, PTL DEF Spec, EffectOfAll
=============================================================================
