-------------------------- MODULE FirmwareUpdate --------------------------
(***************************************************************************)
(* The over-the-air update end to end: the application's two tasks, the    *)
(* bootloader and the resets that may come between any two of their steps. *)
(***************************************************************************)
EXTENDS Bootloader

vars == <<flash, pc, ram, idx, hardware, bootTrigger, retries>>

\* A device as it leaves the factory: an application in internal flash, a
\* blank or an already used external flash, power just applied.
Init ==
    /\ extInfo = ErasedInfo /\ extImage = [i \in FlashPage |-> Erased]
    /\ faults = 0
    /\ \E f \in Firmware : FileLen[f] = N /\ intImage = [i \in Page |-> f]
    /\ pc = "reset" /\ rcon = {"POR", "BOR"} /\ trigger \in {0, NOISE} /\ bootTrigger = 0
    /\ cmd = "idle" /\ request = FALSE /\ running = FALSE /\ updateRequest = FALSE
    /\ url = DefaultUrl /\ total = 0 /\ idx = 1 /\ retries = 0

\* A reset nobody asked for.  The watchdog runs only in the application.
\* After a loss of power the word in RAM is none of the patterns and the flags of
\* earlier resets are gone; otherwise they add up until the bootloader clears them.
UnplannedReset ==
    \E s \in Source :
        /\ s = "WDTO" => pc \in AppPC
        /\ Fault
        /\ pc' = "reset"
        /\ rcon' = IF s = "POR" THEN {"POR", "BOR"} ELSE rcon \cup {s}
        /\ IF s = "POR" THEN trigger' \in {0, NOISE} ELSE UNCHANGED trigger
        /\ RamCleared
        /\ bootTrigger' = 0 /\ retries' = 0
        /\ UNCHANGED <<extInfo, extImage, intImage>>

App == (AppTask \/ CmdTask) /\ UNCHANGED <<bootTrigger, retries>>

Next == App \/ Boot \/ UnplannedReset

\* The scheduler runs the APP task and SYS_CMD's pending reset; the bootloader
\* is the only code there is.
Fairness ==
    /\ WF_vars(AppTask /\ UNCHANGED <<bootTrigger, retries>>)
    /\ WF_vars(ConsoleReset /\ UNCHANGED <<bootTrigger, retries>>)
    /\ WF_vars(Boot)

Spec == Init /\ [][Next]_vars
FairSpec == Spec /\ Fairness

-----------------------------------------------------------------------------
(* Properties *)

\* Every variable holds a value of its kind.
TypeOK ==
    /\ FlashTypeOK
    /\ pc \in AppPC \cup BootPC \cup {"crashed"}
    /\ cmd \in {"idle", "resetting"}
    /\ request \in BOOLEAN /\ running \in BOOLEAN /\ updateRequest \in BOOLEAN
    /\ url \in Firmware /\ total \in 0 .. N + 1 /\ idx \in Page
    /\ trigger \in Trigger /\ bootTrigger \in Trigger /\ rcon \subseteq Source
    /\ intImage \in [Page -> Content]
    /\ retries \in 0 .. MaxRetries

\* Whenever the record in the info sector passes the bootloader's three checks
\* the image region holds every page of one file in its place: no interleaving
\* of downloads, copies, failed flash operations and resets leaves a record
\* that vouches for a mixture or a fragment (the order erase record, erase
\* image, write image, write record of firmware_update.c).
AcceptedIsComplete == Accepts(extInfo, extImage) => Complete(extImage)

\* Internal flash is incomplete only while external flash still holds a
\* verified image to copy again: an interrupted installation never destroys
\* the last good copy (bootloader/src/firmware_update.c:362-644).
RecoverySource == ~Complete(intImage) => Accepts(extInfo, extImage)

\* Internal flash changes only while external flash holds an accepted image
\* and that image is left alone, and only when the update was asked for.
InstallOnlyAccepted ==
    [][intImage' # intImage => /\ Accepts(extInfo, extImage) /\ Complete(extImage)
                               /\ UNCHANGED <<extInfo, extImage>>
                               /\ trigger = TRIGGER_UPDATE]_vars

\* A staged image is never altered under a record that still vouches for it.
NoChangeUnderRecord == [][extImage' # extImage => ~Accepts(extInfo, extImage)]_vars

\* The application in the device and the image staged for it, as files: every
\* page of a complete image is of the file the first one is of.
InstalledFile == IF Complete(intImage) THEN intImage[1] ELSE Garbage
StagedFile == IF Accepts(extInfo, extImage) THEN extImage[1] ELSE Erased

Update == INSTANCE ApplicationUpdate
          WITH app <- InstalledFile, staged <- StagedFile, Broken <- Garbage, Empty <- Erased

\* The two programs together keep the promise of an update: the application is
\* only ever replaced by the image that was staged, which is staged, discarded
\* and replaced only beside a whole application.
KeepsPromise == Update!Spec

\* A download comes to an end whatever the network and the flash do.
DownloadEnds == running ~> ~running

\* The bootloader always hands over to the application.
BootEnds == pc = "reset" ~> pc \in {"idle", "crashed"}

\* Once the bootloader has accepted an image, internal flash comes to hold
\* exactly that image, unless the faults of the instance are used up.
AcceptedIsInstalled ==
    pc = "bx_erase" ~> (\A i \in Page : intImage[i] = extImage[i]) \/ faults = MaxFaults

=============================================================================
