------------------------- MODULE FirmwareDownload -------------------------
(***************************************************************************)
(* The application's side of an update (src/app.c, src/resources/ota.c,    *)
(* src/commands.c, src/firmware_update.c): a request raised in the SYS_CMD *)
(* task is carried out by app_firmware_update_task in the APP task, one    *)
(* action per flash operation or stream read, so that the other task, a    *)
(* fault or a reset can come between any two of them.                      *)
(***************************************************************************)
EXTENDS ExternalFlash

VARIABLES
    pc,             \* where the APP task (or the bootloader) is
    cmd,            \* where the SYS_CMD task is
    request,        \* app_firmware_download_request
    running,        \* app_firmware_download_running
    updateRequest,  \* app_firmware_update_request
    url,            \* app_firmware_download_url, as the file it names
    total,          \* total_downloaded, in pages
    idx,            \* loop index over pages
    trigger,        \* the word at TRIGGER_PATTERN_ADDRESS
    rcon,           \* RCON: the reset flags that are set
    intImage        \* the application region of internal flash

flash == <<extInfo, extImage, faults>>
flags == <<request, running, updateRequest, url>>
hardware == <<trigger, rcon, intImage>>

TRIGGER_UPDATE == 2
TRIGGER_COPY_INTERNAL_TO_EXTERNAL == 3
TRIGGER_COMPARE_EXTERNAL_TO_INTERNAL == 4
NOISE == 5   \* any other word above TRIGGER_RESTART; 0 stands for it and below
Trigger == {0} \cup TRIGGER_UPDATE .. NOISE

Source == {"POR", "BOR", "SWR", "WDTO", "EXTR"}

DlPC == {"dl_open", "dl_erase_info", "dl_write_info", "dl_erase", "dl_recv", "dl_name",
         "dl_erase_info2", "dl_write_info2", "dl_confirm", "dl_ok", "dl_failed"}
AppPC == {"idle", "decide"} \cup DlPC

\* The stream of a download delivers the file `url` names; url cannot change
\* while `running` is set.
Received(n) == [i \in 1 .. n |-> url]

\* What the C startup code leaves in RAM.
RamCleared ==
    /\ cmd' = "idle"
    /\ request' = FALSE /\ running' = FALSE /\ updateRequest' = FALSE
    /\ url' = DefaultUrl
    /\ total' = 0 /\ idx' = 1

\* A step of the APP task inside the download function.
Step(from, to) ==
    /\ pc = from /\ pc' = to
    /\ UNCHANGED <<cmd, flags, hardware>>

-----------------------------------------------------------------------------
(* SYS_CMD task: the OTA resource and the console commands *)

\* app_start_firmware_download.  Its tests and assignments are one step: it is
\* the only writer of the request, and the APP task takes up a request only
\* once it is raised, in the last assignment.
StartDownload(f, update) ==
    /\ pc \in AppPC /\ cmd = "idle"
    /\ ~request /\ ~running
    /\ url' = f /\ updateRequest' = update /\ request' = TRUE
    /\ UNCHANGED <<flash, pc, cmd, running, total, idx, hardware>>

SoftwareReset ==
    /\ pc' = "reset" /\ rcon' = rcon \cup {"SWR"}
    /\ RamCleared
    /\ UNCHANGED <<flash, intImage>>

\* ota_set_start("update"): no look at the external image.
OtaUpdate ==
    /\ pc \in AppPC /\ cmd = "idle"
    /\ trigger' = TRIGGER_UPDATE
    /\ SoftwareReset

\* The console command `trigger`: the word is stored a second before the reset.
ConsoleTrigger(t) ==
    /\ pc \in AppPC /\ cmd = "idle"
    /\ trigger' = t /\ cmd' = "resetting"
    /\ UNCHANGED <<flash, pc, flags, total, idx, rcon, intImage>>

ConsoleReset ==
    /\ pc \in AppPC /\ cmd = "resetting"
    /\ SoftwareReset /\ UNCHANGED trigger

-----------------------------------------------------------------------------
(* APP task: app_firmware_update_task and the download it runs *)

TakeRequest ==
    /\ pc = "idle" /\ request /\ ~running
    /\ running' = TRUE /\ request' = FALSE /\ pc' = "dl_open"
    /\ UNCHANGED <<flash, cmd, updateRequest, url, total, idx, hardware>>

\* Mutant of DlOpen: the record is left in place while the image is replaced.
DlOpen_KeepsRecord == Step("dl_open", "dl_erase") /\ total' = 0 /\ idx' = 1 /\ UNCHANGED flash

\* Flash initialised, network ready, stream opened.
DlOpen ==
    /\ Step("dl_open", "dl_erase_info")
    /\ total' = 0 /\ idx' = 1
    /\ UNCHANGED flash

DlOpenFails == Step("dl_open", "dl_failed") /\ Fault /\ UNCHANGED <<extInfo, extImage, total, idx>>

DlEraseInfo ==
    /\ \/ Step("dl_erase_info", "dl_write_info") /\ EraseInfo
       \/ Step("dl_erase_info", "dl_failed") /\ EraseInfoFails
    /\ UNCHANGED <<total, idx>>

\* Content-Length, if the server sent one, is only recorded.
DlWriteInfo ==
    /\ \E size \in {0, FileLen[url]} :
          \/ Step("dl_write_info", "dl_erase") /\ WriteInfo(InvalidInfo(size))
          \/ Step("dl_write_info", "dl_failed") /\ WriteInfoFails(InvalidInfo(size))
    /\ UNCHANGED <<total, idx>>

\* Mutant of DlErase: the loop runs one sector too far.
DlErase_OnePastEnd ==
    /\ Step("dl_erase", IF idx = N + 1 THEN "dl_recv" ELSE "dl_erase")
    /\ ErasePage(idx)
    /\ idx' = IF idx = N + 1 THEN 1 ELSE idx + 1
    /\ UNCHANGED total

\* The sectors of the region are erased one by one; the page past it is not.
DlErase ==
    /\ \/ /\ Step("dl_erase", IF idx = N THEN "dl_recv" ELSE "dl_erase")
          /\ ErasePage(idx)
          /\ idx' = IF idx = N THEN 1 ELSE idx + 1
       \/ Step("dl_erase", "dl_failed") /\ ErasePageFails(idx) /\ UNCHANGED idx
    /\ UNCHANGED total

\* A read delivers one or two pages, which are added to the checksum, written
\* and verified.  The loop ends once binary_size bytes or more have come.
DlReceive ==
    \E k \in 1 .. 2 :
        /\ total + k <= FileLen[url]
        /\ Step("dl_recv", IF total + k >= N THEN "dl_name" ELSE "dl_recv")
        /\ WritePages(total + 1, total + k, url)
        /\ total' = total + k
        /\ UNCHANGED idx

DlReceiveFails ==
    \E k \in 1 .. 2 :
        /\ total + k <= FileLen[url]
        /\ Step("dl_recv", "dl_failed")
        /\ WritePagesFails(total + 1, total + k, url)
        /\ UNCHANGED <<total, idx>>

\* http_stream_read returned 0: everything came, or five seconds passed
\* without data, or the connection closed.
DlStreamEnd ==
    /\ Step("dl_recv", "dl_name")
    /\ \/ total = FileLen[url] /\ UNCHANGED faults
       \/ Fault
    /\ UNCHANGED <<extInfo, extImage, total, idx>>

\* The stream is closed and name and version are read back from the flash.
DlName ==
    /\ \/ Step("dl_name", "dl_erase_info2") /\ UNCHANGED faults
       \/ Step("dl_name", "dl_failed") /\ Fault
    /\ UNCHANGED <<extInfo, extImage, total, idx>>

DlEraseInfo2 ==
    /\ \/ Step("dl_erase_info2", "dl_write_info2") /\ EraseInfo
       \/ Step("dl_erase_info2", "dl_failed") /\ EraseInfoFails
    /\ UNCHANGED <<total, idx>>

DlWriteInfo2 ==
    LET rec == ValidInfo(Received(total), NameOf(extImage[NamePage])) IN
    /\ \/ Step("dl_write_info2", "dl_confirm") /\ WriteInfo(rec)
       \/ Step("dl_write_info2", "dl_failed") /\ WriteInfoFails(rec)
    /\ UNCHANGED <<total, idx>>

DlConfirm ==
    /\ \/ Step("dl_confirm", IF extInfo.valid THEN "dl_ok" ELSE "dl_failed") /\ UNCHANGED faults
       \/ Step("dl_confirm", "dl_failed") /\ Fault
    /\ UNCHANGED <<extInfo, extImage, total, idx>>

\* Mutant of DownloadReturns: `running` stays set after a failed download.
DownloadReturns_KeepsRunning ==
    /\ pc \in {"dl_ok", "dl_failed"}
    /\ running' = (pc = "dl_failed")
    /\ pc' = IF pc = "dl_ok" THEN "decide" ELSE "idle"
    /\ total' = 0 /\ idx' = 1
    /\ UNCHANGED <<flash, cmd, request, updateRequest, url, hardware>>

DownloadReturns ==
    /\ pc \in {"dl_ok", "dl_failed"}
    /\ running' = FALSE
    /\ pc' = IF pc = "dl_ok" THEN "decide" ELSE "idle"
    /\ total' = 0 /\ idx' = 1
    /\ UNCHANGED <<flash, cmd, request, updateRequest, url, hardware>>

\* firmware_update_get_external_valid
ExternalValid ==
    extInfo.valid /\ extInfo.name # Blank /\ extInfo.name = NameOf(intImage[NamePage])

\* The result of a successful download is acted upon after `running` was
\* cleared: a new request may already have replaced updateRequest.
DecideUpdate ==
    /\ pc = "decide" /\ updateRequest /\ ExternalValid
    /\ trigger' = TRIGGER_UPDATE
    /\ SoftwareReset

DecideNone ==
    /\ pc = "decide" /\ pc' = "idle"
    /\ \/ ~(updateRequest /\ ExternalValid) /\ UNCHANGED faults
       \/ Fault   \* the info sector could not be read
    /\ UNCHANGED <<extInfo, extImage, cmd, flags, total, idx, hardware>>

AppTask ==
    \/ TakeRequest \/ DlOpen \/ DlOpenFails \/ DlEraseInfo \/ DlWriteInfo \/ DlErase
    \/ DlReceive \/ DlReceiveFails \/ DlStreamEnd \/ DlName \/ DlEraseInfo2
    \/ DlWriteInfo2 \/ DlConfirm \/ DownloadReturns \/ DecideUpdate \/ DecideNone

CmdTask ==
    \/ \E f \in Firmware, update \in BOOLEAN : StartDownload(f, update)
    \/ OtaUpdate
    \/ \E t \in Trigger : ConsoleTrigger(t)
    \/ ConsoleReset
=============================================================================
