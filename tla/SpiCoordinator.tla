--------------------------- MODULE SpiCoordinator ---------------------------
(***************************************************************************)
(* The bus the flash and the EEPROM share (src/spi_coordinator.c) and the  *)
(* operations of both (src/flash.c, src/eeprom.c).  The tasks are preempted*)
(* anywhere, and nothing in the coordinator is atomic: its variable is     *)
(* tested in one step and written in another, and so are the chip selects. *)
(* The flash is driven by an interrupt routine, which works its own chip   *)
(* select whatever the coordinator holds.                                  *)
(***************************************************************************)
EXTENDS Integers

CONSTANTS
    Task,       \* the tasks that store settings and read or write firmware
    NONE,       \* SPI_DEVICE_NONE
    MAX_ROUNDS  \* bound: selections of the EEPROM, or flash pages, in an operation

ASSUME RoundsAssumption == MAX_ROUNDS \in Nat

VARIABLES
    current_device,
    selected,   \* the devices whose chip select is low
    busy,       \* a transfer of the flash driver is under way
    disputed,   \* history: a task took the bus from another, or left the flash at work
    pc, operation, rounds   \* of each task

vars == <<current_device, selected, busy, disputed, pc, operation, rounds>>

FLASH == "flash"
EEPROM == "eeprom"
ERASE == "erase"
Device == {FLASH, EEPROM}
ASSUME NoneAssumption == NONE \notin Device

Operation == Device \cup {ERASE}     \* read and write of each device, and flash_erase_sector

DeviceOf(op) == IF op = EEPROM THEN EEPROM ELSE FLASH

Goto(t, place) == pc' = [pc EXCEPT ![t] = place]

\* Mutants of NextRound: one round too many; the count is not taken down.
NextRound_OneMore(t, again) ==
    /\ rounds' = [rounds EXCEPT ![t] = @ - 1]
    /\ Goto(t, IF rounds[t] > 0 THEN again ELSE "release")
NextRound_ForEver(t, again) == rounds' = rounds /\ Goto(t, again)

\* After a round of an operation: the next one, or the release of the bus.
NextRound(t, again) ==
    /\ rounds' = [rounds EXCEPT ![t] = @ - 1]
    /\ Goto(t, IF rounds[t] > 1 THEN again ELSE "release")

-----------------------------------------------------------------------------
(* spi_coordinator_acquire, spi_coordinator_release *)

Begin(t) ==
    /\ pc[t] = "idle" /\ Goto(t, "test")
    /\ \E op \in Operation, n \in 0 .. MAX_ROUNDS :
        /\ op = ERASE => n = 1
        /\ operation' = [operation EXCEPT ![t] = op]
        /\ rounds' = [rounds EXCEPT ![t] = n]
    /\ UNCHANGED <<current_device, selected, busy, disputed>>

AcquireTest(t) ==
    /\ pc[t] = "test"
    /\ Goto(t, IF current_device = NONE THEN "acquire" ELSE "idle")
    /\ UNCHANGED <<disputed, current_device, selected, busy, operation, rounds>>

AcquireSet(t) ==
    /\ pc[t] = "acquire"
    /\ current_device' = DeviceOf(operation[t])
    /\ Goto(t, IF rounds[t] = 0 THEN "release"
               ELSE IF operation[t] = EEPROM THEN "low" ELSE "start")
    /\ disputed' = (disputed \/ current_device # NONE)
    /\ UNCHANGED <<selected, busy, operation, rounds>>

ReleaseTest(t) ==
    /\ pc[t] = "release"
    /\ Goto(t, IF current_device # NONE THEN "raise" ELSE "idle")
    /\ UNCHANGED <<disputed, current_device, selected, busy, operation, rounds>>

ReleaseRaise(t) ==
    /\ pc[t] = "raise" /\ Goto(t, "clear")
    /\ selected' = {}
    /\ UNCHANGED <<disputed, current_device, busy, operation, rounds>>

ReleaseClear(t) ==
    /\ pc[t] = "clear" /\ Goto(t, "idle")
    /\ current_device' = NONE
    /\ UNCHANGED <<disputed, selected, busy, operation, rounds>>

-----------------------------------------------------------------------------
(* A round of eeprom_read or eeprom_write: select, transfer, deselect *)

LowTest(t) ==
    /\ pc[t] = "low"
    /\ Goto(t, IF current_device = EEPROM THEN "pull" ELSE "high")
    /\ UNCHANGED <<disputed, current_device, selected, busy, operation, rounds>>

LowPull(t) ==
    /\ pc[t] = "pull" /\ Goto(t, "high")
    /\ selected' = selected \cup {EEPROM}
    /\ UNCHANGED <<disputed, current_device, busy, operation, rounds>>

HighTest(t) ==
    /\ pc[t] = "high"
    /\ \/ current_device = EEPROM /\ Goto(t, "lift") /\ UNCHANGED rounds
       \/ current_device # EEPROM /\ NextRound(t, "low")
    /\ UNCHANGED <<disputed, current_device, selected, busy, operation>>

HighLift(t) ==
    /\ pc[t] = "lift" /\ NextRound(t, "low")
    /\ selected' = selected \ {EEPROM}
    /\ UNCHANGED <<disputed, current_device, busy, operation>>

-----------------------------------------------------------------------------
(* A round of flash_read, flash_write or flash_erase_sector *)

\* The driver refuses a request while a transfer is under way.
FlashStart(t) ==
    /\ pc[t] = "start"
    /\ \/ busy /\ Goto(t, "release") /\ UNCHANGED <<selected, busy>>
       \/ ~busy /\ Goto(t, "wait") /\ busy' = TRUE /\ selected' = selected \cup {FLASH}
    /\ UNCHANGED <<disputed, current_device, operation, rounds>>

\* Mutant of FlashWait: the driver is not polled until it is done.
FlashWait_NoPoll(t) ==
    /\ pc[t] = "wait" /\ NextRound(t, "start")
    /\ UNCHANGED <<current_device, selected, busy, disputed, operation>>

FlashWait(t) ==
    /\ pc[t] = "wait" /\ ~busy /\ NextRound(t, "start")
    /\ UNCHANGED <<disputed, current_device, selected, busy, operation>>

\* Mutant of FlashFails: the bus is not released on the way out.
FlashFails_KeepsBus(t) ==
    /\ pc[t] = "wait" /\ (~busy \/ operation[t] = ERASE)
    /\ Goto(t, "idle")
    /\ UNCHANGED <<disputed, current_device, selected, busy, operation, rounds>>

\* A transfer ends in an error, or the erase of a sector takes too long: the
\* bus is released then although the driver is still at work.
FlashFails(t) ==
    /\ pc[t] = "wait" /\ (~busy \/ operation[t] = ERASE)
    /\ Goto(t, "release")
    /\ disputed' = (disputed \/ busy)
    /\ UNCHANGED <<current_device, selected, busy, operation, rounds>>

\* The interrupt routine of the driver: the commands and status polls of a
\* transfer, each with the chip selected.
DriverPoll ==
    /\ busy
    /\ selected' \in {selected \cup {FLASH}, selected \ {FLASH}}
    /\ UNCHANGED <<disputed, current_device, busy, pc, operation, rounds>>

DriverDone ==
    /\ busy /\ busy' = FALSE
    /\ selected' = selected \ {FLASH}
    /\ UNCHANGED <<disputed, current_device, pc, operation, rounds>>

-----------------------------------------------------------------------------
Init ==
    /\ current_device = NONE /\ selected = {} /\ busy = FALSE /\ disputed = FALSE
    /\ pc = [t \in Task |-> "idle"]
    /\ operation = [t \in Task |-> EEPROM]
    /\ rounds = [t \in Task |-> 0]

Continue(t) ==
    \/ AcquireTest(t) \/ AcquireSet(t) \/ ReleaseTest(t) \/ ReleaseRaise(t) \/ ReleaseClear(t)
    \/ LowTest(t) \/ LowPull(t) \/ HighTest(t) \/ HighLift(t)
    \/ FlashStart(t) \/ FlashWait(t)

Next == (\E t \in Task : Begin(t) \/ Continue(t) \/ FlashFails(t)) \/ DriverPoll \/ DriverDone

Spec == Init /\ [][Next]_vars

\* The scheduler runs every task, a task does not stop in the middle of an
\* operation, and the flash ends every transfer.  A task waiting for a transfer
\* does nothing but look at the driver, and sees it idle sooner or later even
\* when others use it in between.
FairSpec ==
    /\ Spec /\ WF_vars(DriverDone)
    /\ \A t \in Task : WF_vars(Continue(t)) /\ SF_vars(FlashWait(t))

-----------------------------------------------------------------------------
(* Properties *)

\* Every variable holds a value of its kind.
TypeOK ==
    /\ current_device \in Device \cup {NONE}
    /\ selected \subseteq Device /\ busy \in BOOLEAN /\ disputed \in BOOLEAN
    /\ pc \in [Task -> {"idle", "test", "acquire", "low", "pull", "high", "lift",
                        "start", "wait", "release", "raise", "clear"}]
    /\ operation \in [Task -> Operation]
    /\ rounds \in [Task -> 0 .. MAX_ROUNDS]

Holding(t) == pc[t] \in {"low", "pull", "high", "lift", "start", "wait", "release", "raise", "clear"}

\* Two tasks may both believe that they hold the bus, but whatever the order of
\* their acquires and releases (spi_coordinator.c:31-56), the bus is never left
\* taken by nobody, which would refuse every access from then on.
NeverLost == current_device # NONE => \E t \in Task : Holding(t)

\* Every operation comes to its end, refused or done (flash.c, eeprom.c).
OperationEnds == \A t \in Task : (pc[t] # "idle") ~> (pc[t] = "idle")

\* A chip answers only its own operations: two are never selected at once, and
\* none is while nobody uses the bus, as spi_coordinator.c:49 wants it.  After a lost
\* race of two acquires (spi_coordinator.c:36, 41) or an erase that was given up
\* (flash.c:254) the code does not keep to it.
OneChipSelected ==
    ~disputed => /\ selected # Device
                 /\ (\A t \in Task : pc[t] = "idle") => selected = {}
=============================================================================
