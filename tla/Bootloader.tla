---------------------------- MODULE Bootloader ----------------------------
(***************************************************************************)
(* The bootloader (bootloader/src/main.c and firmware_update.c).  It runs  *)
(* alone after every reset, decides by the trigger pattern and the reset   *)
(* source whether to copy an image between external and internal flash,    *)
(* and always ends by jumping to the application.                          *)
(***************************************************************************)
EXTENDS FirmwareDownload

VARIABLES
    bootTrigger,  \* the bootloader's own trigger_pattern
    retries       \* chunk_retries

MaxRetries == 3   \* max_retries

BootPC == {"reset", "boot", "bx_check", "bx_erase", "bx_write", "bx_verify",
           "bi_start", "bi_erase_info", "bi_write_info", "bi_erase", "bi_write",
           "bi_erase_info2", "bi_write_info2", "bi_confirm", "compare", "jump"}

ram == <<cmd, flags, total>>

BootStep(from, to) ==
    /\ pc = from /\ pc' = to
    /\ UNCHANGED <<ram, trigger, rcon, bootTrigger>>

-----------------------------------------------------------------------------
(* main.c *)

\* check_reset_source: the first flag of POR, BOR, SWR, WDTO, EXTR decides, and
\* the word counts after a brown-out or a software reset.  Only the bootloader's
\* copy is cleared, never the word itself.
CheckResetSource ==
    /\ pc = "reset" /\ pc' = "boot"
    /\ bootTrigger' = IF "POR" \notin rcon /\ {"BOR", "SWR"} \cap rcon # {} THEN trigger ELSE 0
    /\ rcon' = {}
    /\ UNCHANGED <<flash, ram, idx, trigger, intImage, retries>>

\* Mutant of BootloaderMain: any word that is not another pattern starts the copy.
BootloaderMain_CopyByDefault ==
    /\ BootStep("boot",
           CASE bootTrigger = TRIGGER_COPY_INTERNAL_TO_EXTERNAL -> "bi_start"
             [] bootTrigger = TRIGGER_COMPARE_EXTERNAL_TO_INTERNAL -> "compare"
             [] bootTrigger <= 1 -> "jump"
             [] OTHER -> "bx_check")
    /\ idx' = 1 /\ retries' = 0
    /\ UNCHANGED <<flash, intImage>>

\* main and bootloader_main; without the flash each copy returns at once.
BootloaderMain ==
    /\ \/ /\ BootStep("boot",
                 CASE bootTrigger = TRIGGER_UPDATE -> "bx_check"
                   [] bootTrigger = TRIGGER_COPY_INTERNAL_TO_EXTERNAL -> "bi_start"
                   [] bootTrigger = TRIGGER_COMPARE_EXTERNAL_TO_INTERNAL -> "compare"
                   [] OTHER -> "jump")
          /\ UNCHANGED faults
       \/ BootStep("boot", "jump") /\ bootTrigger > 1 /\ Fault
    /\ idx' = 1 /\ retries' = 0
    /\ UNCHANGED <<extInfo, extImage, intImage>>

\* The comparison only prints its result.
Compare == BootStep("compare", "jump") /\ UNCHANGED <<flash, intImage, idx, retries>>

\* jump_to_application, whatever the outcome of the copy: an application that
\* is not there cannot run.  Whether the word is cleared is up to its startup.
JumpToApplication ==
    /\ pc = "jump"
    /\ IF Complete(intImage)
       THEN pc' = "idle" /\ trigger' \in {trigger, 0}
       ELSE pc' = "crashed" /\ UNCHANGED trigger
    /\ idx' = 1 /\ retries' = 0 /\ bootTrigger' = 0
    /\ UNCHANGED <<flash, ram, rcon, intImage>>

-----------------------------------------------------------------------------
(* firmware_update_copy_external_flash_to_internal_flash *)

\* Mutant of BxCheck: the record is believed without the checksum.
BxCheck_NoChecksum ==
    /\ BootStep("bx_check", IF extInfo.valid /\ extInfo.size = N THEN "bx_erase" ELSE "jump")
    /\ UNCHANGED <<flash, intImage, idx, retries>>

\* Mutant of BxCheck: a record that is not accepted is read again.
BxCheck_Again ==
    /\ BootStep("bx_check", IF Accepts(extInfo, extImage) THEN "bx_erase" ELSE "bx_check")
    /\ UNCHANGED <<flash, intImage, idx, retries>>

\* The record, its size and the checksum of the whole image.
BxCheck ==
    /\ \/ BootStep("bx_check", IF Accepts(extInfo, extImage) THEN "bx_erase" ELSE "jump")
          /\ UNCHANGED faults
       \/ BootStep("bx_check", "jump") /\ Fault
    /\ UNCHANGED <<extInfo, extImage, intImage, idx, retries>>

BxErase ==
    /\ BootStep("bx_erase", IF idx = N THEN "bx_write" ELSE "bx_erase")
    /\ intImage' = [intImage EXCEPT ![idx] = Erased]
    /\ idx' = IF idx = N THEN 1 ELSE idx + 1
    /\ UNCHANGED <<flash, retries>>

BxEraseFails ==
    /\ BootStep("bx_erase", "jump") /\ Fault
    /\ \E c \in {intImage[idx], Erased, Garbage} : intImage' = [intImage EXCEPT ![idx] = c]
    /\ UNCHANGED <<extInfo, extImage, idx, retries>>

\* Mutant of BxWrite: the last row is not written.
BxWrite_OneShort ==
    /\ BootStep("bx_write", IF idx + 1 >= N THEN "bx_verify" ELSE "bx_write")
    /\ Programmable(intImage[idx], extImage[idx])
    /\ intImage' = [intImage EXCEPT ![idx] = extImage[idx]]
    /\ idx' = IF idx + 1 >= N THEN 1 ELSE idx + 1
    /\ retries' = 0
    /\ UNCHANGED flash

BxWrite ==
    /\ BootStep("bx_write", IF idx = N THEN "bx_verify" ELSE "bx_write")
    /\ Programmable(intImage[idx], extImage[idx])
    /\ intImage' = [intImage EXCEPT ![idx] = extImage[idx]]
    /\ idx' = IF idx = N THEN 1 ELSE idx + 1
    /\ retries' = 0
    /\ UNCHANGED flash

\* Reading the external flash fails: return at once.
BxReadFails == BootStep("bx_write", "jump") /\ Fault /\ UNCHANGED <<extInfo, extImage, intImage, idx, retries>>

\* Writing the row or verifying it fails: retry, give up after MaxRetries.
BxWriteFails ==
    /\ BootStep("bx_write", IF retries + 1 = MaxRetries THEN "jump" ELSE "bx_write")
    /\ Fault
    /\ \E c \in {intImage[idx], extImage[idx], Garbage} : intImage' = [intImage EXCEPT ![idx] = c]
    /\ retries' = retries + 1
    /\ UNCHANGED <<extInfo, extImage, idx>>

\* The final checksum decides only what is printed.
BxVerify == BootStep("bx_verify", "jump") /\ UNCHANGED <<flash, intImage, idx, retries>>

-----------------------------------------------------------------------------
(* firmware_update_copy_internal_flash_to_external_flash *)

BiRecord(valid) ==
    [ValidInfo(Sum(intImage), NameOf(intImage[NamePage])) EXCEPT !.valid = valid]

\* Buffer, name, version and checksum are read from internal flash.
BiStart ==
    /\ \/ BootStep("bi_start", "bi_erase_info") /\ UNCHANGED faults
       \/ BootStep("bi_start", "jump") /\ Fault
    /\ UNCHANGED <<extInfo, extImage, intImage, idx, retries>>

BiEraseInfo ==
    /\ \/ BootStep("bi_erase_info", "bi_write_info") /\ EraseInfo
       \/ BootStep("bi_erase_info", "jump") /\ EraseInfoFails
    /\ UNCHANGED <<intImage, idx, retries>>

BiWriteInfo ==
    /\ \/ BootStep("bi_write_info", "bi_erase") /\ WriteInfo(BiRecord(FALSE))
       \/ BootStep("bi_write_info", "jump") /\ WriteInfoFails(BiRecord(FALSE))
    /\ UNCHANGED <<intImage, idx, retries>>

BiErase ==
    /\ \/ /\ BootStep("bi_erase", IF idx = N THEN "bi_write" ELSE "bi_erase")
          /\ ErasePage(idx)
          /\ idx' = IF idx = N THEN 1 ELSE idx + 1
       \/ BootStep("bi_erase", "jump") /\ ErasePageFails(idx) /\ UNCHANGED idx
    /\ UNCHANGED <<intImage, retries>>

BiWrite ==
    /\ BootStep("bi_write", IF idx = N THEN "bi_erase_info2" ELSE "bi_write")
    /\ WritePages(idx, idx, intImage[idx])
    /\ idx' = IF idx = N THEN 1 ELSE idx + 1
    /\ retries' = 0
    /\ UNCHANGED intImage

BiWriteFails ==
    /\ BootStep("bi_write", IF retries + 1 = MaxRetries THEN "jump" ELSE "bi_write")
    /\ WritePagesFails(idx, idx, intImage[idx])
    /\ retries' = retries + 1
    /\ UNCHANGED <<intImage, idx>>

\* Reading the internal flash or getting the verify buffer fails.
BiReadFails == BootStep("bi_write", "jump") /\ Fault /\ UNCHANGED <<extInfo, extImage, intImage, idx, retries>>

BiEraseInfo2 ==
    /\ \/ BootStep("bi_erase_info2", "bi_write_info2") /\ EraseInfo
       \/ BootStep("bi_erase_info2", "jump") /\ EraseInfoFails
    /\ UNCHANGED <<intImage, idx, retries>>

BiWriteInfo2 ==
    /\ \/ BootStep("bi_write_info2", "bi_confirm") /\ WriteInfo(BiRecord(TRUE))
       \/ BootStep("bi_write_info2", "jump") /\ WriteInfoFails(BiRecord(TRUE))
    /\ UNCHANGED <<intImage, idx, retries>>

\* Reading the record back decides only what is printed.
BiConfirm == BootStep("bi_confirm", "jump") /\ UNCHANGED <<flash, intImage, idx, retries>>

Boot ==
    \/ CheckResetSource \/ BootloaderMain \/ Compare \/ JumpToApplication
    \/ BxCheck \/ BxErase \/ BxEraseFails \/ BxWrite \/ BxReadFails \/ BxWriteFails \/ BxVerify
    \/ BiStart \/ BiEraseInfo \/ BiWriteInfo \/ BiErase \/ BiWrite \/ BiWriteFails \/ BiReadFails
    \/ BiEraseInfo2 \/ BiWriteInfo2 \/ BiConfirm
=============================================================================
