----------------------- MODULE FirmwareUpdate_proofs -----------------------
(* What holds of the update for any set of binaries, any size of the region *)
(* and any number of faults.                                                *)
EXTENDS FirmwareUpdate, TLAPS

-----------------------------------------------------------------------------
(* Records and images *)

\* A run of n pages is a sequence of length n.
LEMMA RunIsSeq ==
    ASSUME NEW S, NEW n \in Nat, NEW f \in [1 .. n -> S]
    PROVE  f \in Seq(S) /\ Len(f) = n /\ DOMAIN f = 1 .. n
OBVIOUS

\* What a download has received: pages of one file.
LEMMA ReceivedIsSeq ==
    ASSUME NEW n \in Nat, url \in Firmware
    PROVE  Received(n) \in Seq(Content) /\ Len(Received(n)) = n /\ DOMAIN Received(n) = 1 .. n
<1>1. Received(n) \in [1 .. n -> Content]
  BY DEF Received, Content
<1> QED
  BY <1>1, RunIsSeq

\* What the checksum of a region is computed over: all of its pages.
LEMMA SumIsSeq ==
    ASSUME NEW image \in [Page -> Content]
    PROVE  Sum(image) \in Seq(Content) /\ Len(Sum(image)) = N /\ DOMAIN Sum(image) = Page
<1>1. Sum(image) \in [1 .. N -> Content] /\ N \in Nat
  BY SizeAssumption DEF Sum, Page
<1> QED
  BY <1>1, RunIsSeq DEF Page

\* The name found in a page.
LEMMA NameIsName == \A c \in Content : NameOf(c) \in Name
BY DEF NameOf, Name

\* The records that are written.
LEMMA Records ==
    /\ ErasedInfo \in Info
    /\ \A size \in 0 .. N + 1 : InvalidInfo(size) \in Info
    /\ \A s \in Seq(Content), name \in Name : Len(s) \in 0 .. N + 1 => ValidInfo(s, name) \in Info
    /\ \A rec \in Info : Torn(rec) \subseteq Info
<1>1. NoSum \in Seq(Content)
  BY DEF NoSum
<1>2. Blank \in Name
  BY DEF Name
<1>3. ErasedInfo \in Info
  BY <1>1, <1>2 DEF ErasedInfo, Info
<1>4. \A size \in 0 .. N + 1 : InvalidInfo(size) \in Info
  BY <1>1, <1>2 DEF InvalidInfo, Info
<1>5. \A s \in Seq(Content), name \in Name : Len(s) \in 0 .. N + 1 => ValidInfo(s, name) \in Info
  BY DEF ValidInfo, Info
<1>6. \A rec \in Info : Torn(rec) \subseteq Info
  BY <1>1 DEF Torn, Info
<1> QED
  BY <1>3, <1>4, <1>5, <1>6

\* What a download records, before and after the image is written.
LEMMA DownloadRecords ==
    ASSUME TypeOK
    PROVE  /\ \A size \in {0, FileLen[url]} : InvalidInfo(size) \in Info
           /\ ValidInfo(Received(total), NameOf(extImage[NamePage])) \in Info
<1>1. FileLen[url] \in 0 .. N + 1 /\ 0 \in 0 .. N + 1
  BY SizeAssumption, FileAssumption DEF TypeOK
<1>2. NamePage \in FlashPage
  BY SizeAssumption DEF FlashPage
<1>3. NameOf(extImage[NamePage]) \in Name
  BY <1>2, NameIsName DEF TypeOK, FlashTypeOK
<1>4. total \in Nat /\ total \in 0 .. N + 1
  BY SizeAssumption DEF TypeOK
<1>5. Received(total) \in Seq(Content) /\ Len(Received(total)) \in 0 .. N + 1
  BY <1>4, ReceivedIsSeq DEF TypeOK
<1> QED
  BY <1>1, <1>3, <1>5, Records

\* What the bootloader records of the application it copies.
LEMMA CopyRecords ==
    ASSUME TypeOK
    PROVE  \A valid \in BOOLEAN : BiRecord(valid) \in Info
<1>1. intImage \in [Page -> Content] /\ intImage[NamePage] \in Content
  BY SizeAssumption DEF TypeOK, Page
<1>2. N \in 0 .. N + 1
  BY SizeAssumption
<1>3. ValidInfo(Sum(intImage), NameOf(intImage[NamePage])) \in Info
  BY <1>1, <1>2, SumIsSeq, NameIsName, Records
<1> QED
  BY <1>3 DEF BiRecord, Info

-----------------------------------------------------------------------------
(* The operations on the external flash keep its type *)

\* A step that fails before it reaches the flash, or does not use it.
LEMMA FlashUntouched ==
    ASSUME FlashTypeOK, UNCHANGED <<extInfo, extImage>>, Fault \/ UNCHANGED faults
    PROVE  FlashTypeOK'
BY FaultAssumption DEF FlashTypeOK, Fault

\* Erasing the info sector, whether it succeeds or not.
LEMMA InfoErased ==
    ASSUME FlashTypeOK, EraseInfo \/ EraseInfoFails
    PROVE  FlashTypeOK'
BY Records, FaultAssumption DEF FlashTypeOK, EraseInfo, EraseInfoFails, Fault

\* Writing a record, whether it succeeds, fails or is torn.
LEMMA InfoWritten ==
    ASSUME FlashTypeOK, NEW rec \in Info, WriteInfo(rec) \/ WriteInfoFails(rec)
    PROVE  FlashTypeOK'
<1>1. extInfo' \in Info
  BY Records DEF FlashTypeOK, WriteInfo, WriteInfoFails
<1> QED
  BY <1>1, FaultAssumption DEF FlashTypeOK, WriteInfo, WriteInfoFails, Fault

\* Erasing a page of the image, whether it succeeds or not.
LEMMA PageErased ==
    ASSUME FlashTypeOK, NEW i \in FlashPage, ErasePage(i) \/ ErasePageFails(i)
    PROVE  FlashTypeOK'
<1>1. extImage' \in [FlashPage -> Content]
  BY DEF FlashTypeOK, ErasePage, ErasePageFails, Content
<1> QED
  BY <1>1, FaultAssumption DEF FlashTypeOK, ErasePage, ErasePageFails, Fault

\* Writing and verifying pages of one content, whether it succeeds or not.
LEMMA PagesWritten ==
    ASSUME FlashTypeOK, NEW first \in Nat, NEW last \in Nat, NEW f \in Content,
           first .. last \subseteq FlashPage,
           WritePages(first, last, f) \/ WritePagesFails(first, last, f)
    PROVE  FlashTypeOK'
<1>1. \A l \in Nat : Filled(extImage, first, l, f) \in [FlashPage -> Content]
  BY DEF FlashTypeOK, Filled
<1>2. CASE WritePages(first, last, f)
  BY <1>1, <1>2 DEF FlashTypeOK, WritePages
<1>3. CASE WritePagesFails(first, last, f)
  <2>1. PICK bad \in first .. last, c \in {f, Garbage} \cup {extImage[i] : i \in first .. last} :
            /\ extImage' = [Filled(extImage, first, bad - 1, f) EXCEPT ![bad] = c]
            /\ Fault \/ UNCHANGED faults
            /\ UNCHANGED extInfo
    BY <1>3 DEF WritePagesFails
  <2>2. c \in Content /\ bad \in FlashPage
    BY DEF FlashTypeOK, Content
  <2>3. Filled(extImage, first, bad - 1, f) \in [FlashPage -> Content]
    BY DEF FlashTypeOK, Filled
  <2>4. extImage' \in [FlashPage -> Content]
    BY <2>1, <2>2, <2>3
  <2> QED
    BY <2>1, <2>4, FaultAssumption DEF FlashTypeOK, Fault
<1> QED
  BY <1>2, <1>3

-----------------------------------------------------------------------------
(* Type correctness *)

\* TypeOK alone is not inductive: a row is retried only while retries are left.
RetriesLeft == pc # "jump" => retries < MaxRetries

\* The first and the last page, and the words of the trigger.
LEMMA Ranges ==
    /\ 1 \in Page /\ N \in Page /\ Page \subseteq FlashPage
    /\ DefaultUrl \in Firmware
    /\ \A i \in Page : i # N => i + 1 \in Page
    /\ {0, NOISE, TRIGGER_UPDATE} \subseteq Trigger
    /\ 0 \in 0 .. N + 1
<1>1. DefaultUrl \in Firmware
  BY FileAssumption DEF DefaultUrl
<1>2. {0, NOISE, TRIGGER_UPDATE} \subseteq Trigger
  BY DEF Trigger, NOISE, TRIGGER_UPDATE
<1> QED
  BY <1>1, <1>2, SizeAssumption DEF Page, FlashPage

\* The device as it leaves the factory.
LEMMA TypeInit == Init => TypeOK /\ RetriesLeft
<1> SUFFICES ASSUME Init PROVE TypeOK /\ RetriesLeft
  OBVIOUS
<1>1. FlashTypeOK
  BY Records, FaultAssumption DEF Init, FlashTypeOK, Content
<1>2. intImage \in [Page -> Content]
  BY DEF Init, Content
<1>3. trigger \in Trigger /\ bootTrigger \in Trigger /\ rcon \subseteq Source
  BY Ranges DEF Init, Source
<1>4. retries \in 0 .. MaxRetries /\ retries < MaxRetries
  BY DEF Init, MaxRetries
<1>5. pc \in BootPC /\ total \in 0 .. N + 1 /\ idx \in Page /\ url \in Firmware
  BY Ranges DEF Init, BootPC
<1> QED
  BY <1>1, <1>2, <1>3, <1>4, <1>5 DEF Init, TypeOK, RetriesLeft

\* The commands of the SYS_CMD task.
LEMMA TypeCmd ==
    ASSUME TypeOK, RetriesLeft, CmdTask, UNCHANGED <<bootTrigger, retries>>
    PROVE  TypeOK' /\ RetriesLeft'
<1> USE FlashUntouched, Ranges DEF TypeOK, RetriesLeft, AppPC, DlPC, BootPC, flash, flags, hardware
<1>1. CASE \E f \in Firmware, update \in BOOLEAN : StartDownload(f, update)
  BY <1>1 DEF StartDownload
<1>2. CASE OtaUpdate
  BY <1>2 DEF OtaUpdate, SoftwareReset, RamCleared, Source
<1>3. CASE \E t \in Trigger : ConsoleTrigger(t)
  BY <1>3 DEF ConsoleTrigger
<1>4. CASE ConsoleReset
  BY <1>4 DEF ConsoleReset, SoftwareReset, RamCleared, Source
<1> QED
  BY <1>1, <1>2, <1>3, <1>4 DEF CmdTask

\* The steps of the APP task.
LEMMA TypeApp ==
    ASSUME TypeOK, RetriesLeft, AppTask, UNCHANGED <<bootTrigger, retries>>
    PROVE  TypeOK' /\ RetriesLeft'
<1> USE Ranges DEF TypeOK, RetriesLeft, AppPC, DlPC, BootPC, Step, flash, flags, hardware
<1>1. CASE TakeRequest \/ DlOpen \/ DlOpenFails
  BY <1>1, FlashUntouched DEF TakeRequest, DlOpen, DlOpenFails
<1>2. CASE DlEraseInfo \/ DlEraseInfo2
  BY <1>2, InfoErased DEF DlEraseInfo, DlEraseInfo2
<1>3. CASE DlWriteInfo
  BY <1>3, DownloadRecords, InfoWritten DEF DlWriteInfo
<1>4. CASE DlErase
  BY <1>4, PageErased DEF DlErase
<1>5. CASE DlReceive \/ DlReceiveFails
  <2>1. PICK k \in 1 .. 2 :
            /\ total + k <= FileLen[url]
            /\ \/ WritePages(total + 1, total + k, url) /\ total' = total + k
               \/ WritePagesFails(total + 1, total + k, url) /\ total' = total
    BY <1>5 DEF DlReceive, DlReceiveFails
  <2>2. FileLen[url] \in 1 .. N + 1 /\ url \in Content /\ N \in Nat
    BY FileAssumption, SizeAssumption DEF Content
  <2>3. total + 1 \in Nat /\ total + k \in Nat /\ total + 1 .. total + k \subseteq FlashPage
    BY <2>1, <2>2 DEF FlashPage
  <2>4. FlashTypeOK'
    BY <2>1, <2>2, <2>3, PagesWritten
  <2>5. total' \in 0 .. N + 1
    BY <2>1, <2>2
  <2> QED
    BY <1>5, <2>4, <2>5 DEF DlReceive, DlReceiveFails
<1>6. CASE DlStreamEnd \/ DlName \/ DlConfirm
  BY <1>6, FlashUntouched DEF DlStreamEnd, DlName, DlConfirm
<1>7. CASE DlWriteInfo2
  BY <1>7, DownloadRecords, InfoWritten DEF DlWriteInfo2
<1>8. CASE DownloadReturns \/ DecideNone
  BY <1>8, FlashUntouched DEF DownloadReturns, DecideNone
<1>9. CASE DecideUpdate
  BY <1>9, FlashUntouched DEF DecideUpdate, SoftwareReset, RamCleared, Source
<1> QED
  BY <1>1, <1>2, <1>3, <1>4, <1>5, <1>6, <1>7, <1>8, <1>9 DEF AppTask

\* The bootloader's steps other than the copies.
LEMMA TypeMain ==
    ASSUME TypeOK, RetriesLeft, CheckResetSource \/ BootloaderMain \/ Compare \/ JumpToApplication
    PROVE  TypeOK' /\ RetriesLeft'
<1> USE FlashUntouched, Ranges
    DEF TypeOK, RetriesLeft, MaxRetries, BootPC, BootStep, ram, flash, flags, hardware
<1>1. CASE CheckResetSource
  BY <1>1 DEF CheckResetSource
<1>2. CASE BootloaderMain
  <2>1. pc' \in {"bx_check", "bi_start", "compare", "jump"}
    BY <1>2 DEF BootloaderMain
  <2> QED
    BY <1>2, <2>1 DEF BootloaderMain
<1>3. CASE Compare
  BY <1>3 DEF Compare
<1>4. CASE JumpToApplication
  BY <1>4 DEF JumpToApplication, AppPC
<1> QED
  BY <1>1, <1>2, <1>3, <1>4

\* The copy from external to internal flash.
LEMMA TypeInstall ==
    ASSUME TypeOK, RetriesLeft,
           BxCheck \/ BxErase \/ BxEraseFails \/ BxWrite \/ BxReadFails \/ BxWriteFails \/ BxVerify
    PROVE  TypeOK' /\ RetriesLeft'
<1> USE FlashUntouched, Ranges
    DEF TypeOK, RetriesLeft, MaxRetries, BootPC, BootStep, ram, flash, flags, hardware
<1>1. extImage[idx] \in Content /\ intImage[idx] \in Content /\ Erased \in Content /\ Garbage \in Content
  BY DEF FlashTypeOK, Content
<1>2. CASE BxCheck \/ BxVerify \/ BxReadFails
  BY <1>2 DEF BxCheck, BxVerify, BxReadFails
<1>3. CASE BxErase
  BY <1>1, <1>3 DEF BxErase
<1>4. CASE BxEraseFails
  BY <1>1, <1>4 DEF BxEraseFails
<1>5. CASE BxWrite
  BY <1>1, <1>5 DEF BxWrite
<1>6. CASE BxWriteFails
  BY <1>1, <1>6 DEF BxWriteFails
<1> QED
  BY <1>2, <1>3, <1>4, <1>5, <1>6

\* The copy from internal to external flash.
LEMMA TypeCopy ==
    ASSUME TypeOK, RetriesLeft,
           \/ BiStart \/ BiEraseInfo \/ BiWriteInfo \/ BiErase \/ BiWrite \/ BiWriteFails
           \/ BiReadFails \/ BiEraseInfo2 \/ BiWriteInfo2 \/ BiConfirm
    PROVE  TypeOK' /\ RetriesLeft'
<1> USE Ranges DEF TypeOK, RetriesLeft, MaxRetries, BootPC, BootStep, ram, flash, flags, hardware
<1>1. CASE BiStart \/ BiReadFails \/ BiConfirm
  BY <1>1, FlashUntouched DEF BiStart, BiReadFails, BiConfirm
<1>2. CASE BiEraseInfo \/ BiEraseInfo2
  BY <1>2, InfoErased DEF BiEraseInfo, BiEraseInfo2
<1>3. CASE BiWriteInfo \/ BiWriteInfo2
  <2>1. BiRecord(TRUE) \in Info /\ BiRecord(FALSE) \in Info
    BY CopyRecords
  <2>2. FlashTypeOK'
    BY <1>3, <2>1, InfoWritten DEF BiWriteInfo, BiWriteInfo2
  <2> QED
    BY <1>3, <2>2 DEF BiWriteInfo, BiWriteInfo2
<1>4. CASE BiErase
  BY <1>4, PageErased DEF BiErase
<1>5. CASE BiWrite \/ BiWriteFails
  <2>1. intImage[idx] \in Content /\ idx \in Nat /\ idx .. idx \subseteq FlashPage
    BY SizeAssumption DEF Page, FlashPage
  <2>2. FlashTypeOK'
    BY <1>5, <2>1, PagesWritten DEF BiWrite, BiWriteFails
  <2> QED
    BY <1>5, <2>2 DEF BiWrite, BiWriteFails
<1> QED
  BY <1>1, <1>2, <1>3, <1>4, <1>5

\* A reset clears RAM and leaves both flashes alone.
LEMMA TypeReset ==
    ASSUME TypeOK, RetriesLeft, UnplannedReset
    PROVE  TypeOK' /\ RetriesLeft'
<1>1. FlashTypeOK'
  BY FlashUntouched DEF UnplannedReset, TypeOK
<1>2. trigger' \in Trigger /\ bootTrigger' \in Trigger /\ rcon' \subseteq Source
  BY Ranges DEF UnplannedReset, TypeOK, Source
<1>3. retries' \in 0 .. MaxRetries /\ retries' < MaxRetries
  BY DEF UnplannedReset, MaxRetries
<1>4. pc' \in BootPC /\ intImage' \in [Page -> Content]
  BY DEF UnplannedReset, BootPC, TypeOK
<1>5. total' \in 0 .. N + 1 /\ idx' \in Page /\ url' \in Firmware /\ cmd' = "idle"
  BY Ranges DEF UnplannedReset, RamCleared
<1>6. request' \in BOOLEAN /\ running' \in BOOLEAN /\ updateRequest' \in BOOLEAN
  BY DEF UnplannedReset, RamCleared
<1> QED
  BY <1>1, <1>2, <1>3, <1>4, <1>5, <1>6 DEF TypeOK, RetriesLeft

\* Every variable of the update stays of its kind: sizes, indices and retries
\* within their bounds, whatever is downloaded, fails or is reset
\* (firmware_update.c, bootloader/src/firmware_update.c, app.c:84-118).
THEOREM TypeCorrect == Spec => [](TypeOK /\ RetriesLeft)
<1>1. TypeOK /\ RetriesLeft /\ [Next]_vars => TypeOK' /\ RetriesLeft'
  <2> SUFFICES ASSUME TypeOK, RetriesLeft, [Next]_vars PROVE TypeOK' /\ RetriesLeft'
    OBVIOUS
  <2>1. CASE App
    BY <2>1, TypeApp, TypeCmd DEF App
  <2>2. CASE Boot
    BY <2>2, TypeMain, TypeInstall, TypeCopy DEF Boot
  <2>3. CASE UnplannedReset
    BY <2>3, TypeReset
  <2>4. CASE UNCHANGED vars
    BY <2>4, FlashUntouched DEF vars, TypeOK, RetriesLeft, ram, flash, flags, hardware
  <2> QED
    BY <2>1, <2>2, <2>3, <2>4 DEF Next
<1> QED
  BY <1>1, TypeInit, PTL DEF Spec

-----------------------------------------------------------------------------
(* What the record vouches for *)

Whole == Complete(intImage)
Vouched == Accepts(extInfo, extImage)

BiPC == {"bi_start", "bi_erase_info", "bi_write_info", "bi_erase", "bi_write",
         "bi_erase_info2", "bi_write_info2", "bi_confirm"}

\* A checksum that is recorded is that of pages of one file.
RecordOfOneFile == \E f \in Firmware : \A i \in DOMAIN extInfo.sum : extInfo.sum[i] = f

\* The application runs, and is copied, only while it is whole.
RunsWhole == pc \in AppPC \cup BiPC => Whole

\* An application that is not whole can be installed again, and nothing asks
\* for it to be copied over the image it would be installed from.
CanInstall ==
    ~Whole => /\ Vouched
              /\ trigger # TRIGGER_COPY_INTERNAL_TO_EXTERNAL
              /\ bootTrigger # TRIGGER_COPY_INTERNAL_TO_EXTERNAL

\* The bootloader installs what was asked for and accepted.
Installs ==
    /\ pc = "boot" => bootTrigger \in {0, trigger}
    /\ pc \in {"bx_check", "bx_erase", "bx_write"} => trigger = TRIGGER_UPDATE
    /\ pc \in {"bx_erase", "bx_write"} => Vouched
    /\ pc \in {"bx_check", "bx_erase", "bx_write"} => bootTrigger = TRIGGER_UPDATE

\* While the image is erased and written its record is withdrawn.
Withdrawn == pc \in {"dl_erase", "dl_recv", "bi_erase", "bi_write"} => ~extInfo.valid

\* The old application is erased page by page before the first page is written,
\* and only pages of the staged image are.
Replaces ==
    /\ pc = "bx_check" => idx = 1
    /\ pc = "bx_erase" => \A i \in Page : i < idx => intImage[i] = Erased
    /\ pc = "bx_write" => \A i \in Page : intImage[i] \in {Erased, Garbage, extImage[i]}

IInv == RecordOfOneFile /\ RunsWhole /\ CanInstall /\ Installs /\ Withdrawn /\ Replaces

\* Steps that touch neither record nor image leave what they vouch for alone.
LEMMA VouchedKept == UNCHANGED <<extInfo, extImage>> => Vouched' = Vouched
BY DEF Vouched

\* The same of internal flash.
LEMMA WholeKept == UNCHANGED intImage => Whole' = Whole
BY DEF Whole

\* An erased record vouches for nothing.
LEMMA RecordErased ==
    ASSUME RecordOfOneFile, EraseInfo \/ EraseInfoFails
    PROVE  RecordOfOneFile'
<1>1. \A f : \A i \in DOMAIN NoSum : NoSum[i] = f
  BY DEF NoSum
<1>2. extInfo'.sum \in {extInfo.sum, NoSum}
  BY DEF EraseInfo, EraseInfoFails, ErasedInfo
<1> QED
  BY <1>1, <1>2, FileAssumption DEF RecordOfOneFile

\* A record of one file is one, and so is what is left of it when it is torn.
LEMMA RecordWritten ==
    ASSUME RecordOfOneFile, TypeOK, NEW rec \in Info, NEW f \in Firmware,
           \A i \in DOMAIN rec.sum : rec.sum[i] = f,
           WriteInfo(rec) \/ WriteInfoFails(rec)
    PROVE  RecordOfOneFile'
<1>1. \A g : \A i \in DOMAIN NoSum : NoSum[i] = g
  BY DEF NoSum
<1>2. \A r \in Torn(rec) : r.sum \in {rec.sum, NoSum}
  BY DEF Torn, Info
<1>3. extInfo'.sum \in {extInfo.sum, rec.sum, NoSum}
  BY <1>2 DEF WriteInfo, WriteInfoFails
<1> QED
  BY <1>1, <1>3 DEF RecordOfOneFile

\* The application never writes internal flash and ends only in a reset.
LEMMA AppPlace ==
    ASSUME App
    PROVE  /\ pc \in AppPC /\ pc' \in AppPC \cup {"reset"}
           /\ UNCHANGED <<intImage, bootTrigger>>
<1> USE DEF AppPC, DlPC, Step, SoftwareReset, flags, hardware
<1>1. CASE CmdTask
  BY <1>1 DEF App, CmdTask, StartDownload, OtaUpdate, ConsoleTrigger, ConsoleReset
<1>2. CASE TakeRequest \/ DlOpen \/ DlOpenFails \/ DlEraseInfo \/ DlWriteInfo \/ DlErase
  BY <1>2 DEF App, TakeRequest, DlOpen, DlOpenFails, DlEraseInfo, DlWriteInfo, DlErase
<1>3. CASE DlReceive \/ DlReceiveFails \/ DlStreamEnd \/ DlName \/ DlEraseInfo2
  BY <1>3 DEF App, DlReceive, DlReceiveFails, DlStreamEnd, DlName, DlEraseInfo2
<1>4. CASE DlWriteInfo2 \/ DlConfirm \/ DownloadReturns \/ DecideUpdate \/ DecideNone
  BY <1>4 DEF App, DlWriteInfo2, DlConfirm, DownloadReturns, DecideUpdate, DecideNone
<1> QED
  BY <1>1, <1>2, <1>3, <1>4 DEF App, AppTask

\* The application's steps keep the record truthful.
LEMMA AppRecord ==
    ASSUME TypeOK, RecordOfOneFile, App
    PROVE  RecordOfOneFile'
<1>1. CASE UNCHANGED extInfo
  BY <1>1 DEF RecordOfOneFile
<1>2. CASE DlEraseInfo \/ DlEraseInfo2
  BY <1>2, RecordErased DEF DlEraseInfo, DlEraseInfo2
<1>3. CASE DlWriteInfo
  <2>1. PICK size \in {0, FileLen[url]} :
            WriteInfo(InvalidInfo(size)) \/ WriteInfoFails(InvalidInfo(size))
    BY <1>3 DEF DlWriteInfo
  <2>2. InvalidInfo(size) \in Info /\ url \in Firmware
    BY DownloadRecords DEF TypeOK
  <2>3. \A i \in DOMAIN InvalidInfo(size).sum : InvalidInfo(size).sum[i] = url
    BY DEF InvalidInfo, NoSum
  <2> QED
    BY <2>1, <2>2, <2>3, RecordWritten
<1>4. CASE DlWriteInfo2
  <2> DEFINE rec == ValidInfo(Received(total), NameOf(extImage[NamePage]))
  <2>1. WriteInfo(rec) \/ WriteInfoFails(rec)
    BY <1>4 DEF DlWriteInfo2
  <2>2. rec \in Info /\ url \in Firmware
    BY DownloadRecords DEF TypeOK
  <2>3. \A i \in DOMAIN rec.sum : rec.sum[i] = url
    BY DEF ValidInfo, Received
  <2> QED
    BY <2>1, <2>2, <2>3, RecordWritten
<1>5. App /\ ~(DlEraseInfo \/ DlEraseInfo2 \/ DlWriteInfo \/ DlWriteInfo2) => UNCHANGED extInfo
  BY DEF App, AppTask, CmdTask, StartDownload, OtaUpdate, SoftwareReset, ConsoleTrigger, ConsoleReset,
         TakeRequest, DlOpen, DlOpenFails, DlErase, ErasePage, ErasePageFails,
         DlReceive, WritePages, DlReceiveFails, WritePagesFails, DlStreamEnd, DlName, DlConfirm,
         DownloadReturns, DecideUpdate, DecideNone, flash
<1> QED
  BY <1>1, <1>2, <1>3, <1>4, <1>5

\* It writes the image only after it has withdrawn the record.
LEMMA AppWithdraws ==
    ASSUME Withdrawn, App
    PROVE  Withdrawn'
<1> SUFFICES ASSUME pc' \in {"dl_erase", "dl_recv"} PROVE ~extInfo'.valid
  BY AppPlace DEF Withdrawn, AppPC, DlPC
<1>1. CASE CmdTask
  BY <1>1 DEF CmdTask, StartDownload, OtaUpdate, SoftwareReset, ConsoleTrigger, ConsoleReset,
              Withdrawn, flash
<1>2. CASE AppTask
  <2>1. DlWriteInfo \/ DlErase \/ DlReceive
    BY <1>2 DEF AppTask, Step, TakeRequest, DlOpen, DlOpenFails, DlEraseInfo, DlWriteInfo, DlErase,
                DlReceiveFails, DlStreamEnd, DlName, DlEraseInfo2, DlWriteInfo2, DlConfirm,
                DownloadReturns, DecideUpdate, SoftwareReset, DecideNone
  <2>2. CASE DlWriteInfo
    BY <2>2 DEF DlWriteInfo, Step, WriteInfo, InvalidInfo
  <2>3. CASE DlErase
    BY <2>3 DEF DlErase, Step, ErasePage, Withdrawn
  <2>4. CASE DlReceive
    BY <2>4 DEF DlReceive, Step, WritePages, Withdrawn
  <2> QED
    BY <2>1, <2>2, <2>3, <2>4
<1> QED
  BY <1>1, <1>2 DEF App

\* The application keeps the invariant: it runs only while it is whole.
LEMMA SafeApp == TypeOK /\ IInv /\ App => IInv'
<1> SUFFICES ASSUME TypeOK, IInv, App PROVE IInv'
  OBVIOUS
<1>1. pc \in AppPC /\ pc' \in AppPC \cup {"reset"} /\ UNCHANGED <<intImage, bootTrigger>>
  BY AppPlace
<1>2. Whole /\ Whole'
  BY <1>1, WholeKept DEF IInv, RunsWhole
<1>3. RunsWhole' /\ CanInstall'
  BY <1>2 DEF RunsWhole, CanInstall
<1>4. Installs' /\ Replaces'
  BY <1>1 DEF Installs, Replaces, AppPC, DlPC
<1>5. RecordOfOneFile' /\ Withdrawn'
  BY AppRecord, AppWithdraws DEF IInv
<1> QED
  BY <1>3, <1>4, <1>5 DEF IInv

\* The bootloader's dispatch: a copy starts only on its own trigger.
LEMMA SafeMain ==
    ASSUME TypeOK, IInv, CheckResetSource \/ BootloaderMain \/ Compare \/ JumpToApplication
    PROVE  IInv'
<1>1. UNCHANGED <<extInfo, extImage, intImage>> /\ Whole' = Whole /\ Vouched' = Vouched
  BY WholeKept, VouchedKept
     DEF CheckResetSource, BootloaderMain, Compare, JumpToApplication, flash
<1>2. RecordOfOneFile'
  BY <1>1 DEF IInv, RecordOfOneFile
<1> USE DEF AppPC, DlPC, BiPC, BootStep, TRIGGER_UPDATE,
            TRIGGER_COPY_INTERNAL_TO_EXTERNAL, TRIGGER_COMPARE_EXTERNAL_TO_INTERNAL
<1>3. CASE CheckResetSource
  BY <1>1, <1>2, <1>3 DEF CheckResetSource, IInv, RunsWhole, CanInstall, Installs, Withdrawn, Replaces
<1>4. CASE BootloaderMain
  <2>1. /\ pc = "boot" /\ pc' \in {"bx_check", "bi_start", "compare", "jump"}
        /\ pc' = "bx_check" => bootTrigger = TRIGGER_UPDATE
        /\ pc' = "bi_start" => bootTrigger = TRIGGER_COPY_INTERNAL_TO_EXTERNAL
        /\ UNCHANGED <<trigger, bootTrigger>> /\ idx' = 1
    BY <1>4 DEF BootloaderMain
  <2> QED
    BY <1>1, <1>2, <2>1 DEF IInv, RunsWhole, CanInstall, Installs, Withdrawn, Replaces
<1>5. CASE Compare
  BY <1>1, <1>2, <1>5 DEF Compare, IInv, RunsWhole, CanInstall, Installs, Withdrawn, Replaces
<1>6. CASE JumpToApplication
  BY <1>1, <1>2, <1>6 DEF JumpToApplication, Whole, IInv, RunsWhole, CanInstall, Installs, Withdrawn, Replaces
<1> QED
  BY <1>3, <1>4, <1>5, <1>6

\* A row is left as it was, written from the staged image, or spoilt.
LEMMA WrittenFromStaged ==
    ASSUME TypeOK, IInv, BxWrite \/ BxWriteFails
    PROVE  /\ pc = "bx_write" /\ UNCHANGED <<extInfo, extImage>>
           /\ \A i \in Page : /\ intImage[i] \in {Erased, Garbage, extImage[i]}
                              /\ intImage'[i] \in {Erased, Garbage, extImage[i]}
BY DEF TypeOK, IInv, Replaces, BxWrite, BxWriteFails, BootStep, flash

\* Internal flash is erased and written under an accepted image that stays.
LEMMA SafeInstall ==
    ASSUME TypeOK, IInv,
           BxCheck \/ BxErase \/ BxEraseFails \/ BxWrite \/ BxReadFails \/ BxWriteFails \/ BxVerify
    PROVE  IInv'
<1> USE DEF BootStep, flash
<1>1. UNCHANGED <<extInfo, extImage, trigger, bootTrigger>>
  BY DEF BxCheck, BxErase, BxEraseFails, BxWrite, BxReadFails, BxWriteFails, BxVerify
<1>2. RecordOfOneFile' /\ Vouched' = Vouched
  BY <1>1, VouchedKept DEF IInv, RecordOfOneFile
<1>3. /\ pc \in {"bx_check", "bx_erase", "bx_write", "bx_verify"}
      /\ pc' \in {"bx_erase", "bx_write", "bx_verify", "jump"}
      /\ pc' \in {"bx_erase", "bx_write"} => pc \in {"bx_check", "bx_erase", "bx_write"}
  BY DEF BxCheck, BxErase, BxEraseFails, BxWrite, BxReadFails, BxWriteFails, BxVerify
<1>4. RunsWhole' /\ Withdrawn'
  BY <1>3 DEF RunsWhole, Withdrawn, AppPC, DlPC, BiPC
<1>7. Replaces'
  <2> USE SizeAssumption DEF IInv, Replaces, TypeOK, Page
  <2>1. CASE BxCheck \/ BxReadFails \/ BxVerify
    BY <2>1 DEF BxCheck, BxReadFails, BxVerify
  <2>2. CASE BxErase \/ BxEraseFails
    BY <2>2 DEF BxErase, BxEraseFails
  <2>3. CASE BxWrite \/ BxWriteFails
    BY <2>3, WrittenFromStaged DEF BxWrite, BxWriteFails
  <2> QED
    BY <2>1, <2>2, <2>3
<1>5. CASE BxCheck \/ BxReadFails \/ BxVerify
  <2>1. Whole' = Whole /\ (pc' \in {"bx_erase", "bx_write"} => Vouched)
    BY <1>5, WholeKept DEF BxCheck, BxReadFails, BxVerify, Vouched
  <2> QED
    BY <1>1, <1>2, <1>3, <1>4, <1>7, <2>1 DEF IInv, CanInstall, Installs
<1>6. CASE BxErase \/ BxEraseFails \/ BxWrite \/ BxWriteFails
  <2>1. pc \in {"bx_erase", "bx_write"}
    BY <1>6 DEF BxErase, BxEraseFails, BxWrite, BxWriteFails
  <2> QED
    BY <1>1, <1>2, <1>3, <1>4, <1>7, <2>1
       DEF IInv, CanInstall, Installs, TRIGGER_UPDATE, TRIGGER_COPY_INTERNAL_TO_EXTERNAL
<1> QED
  BY <1>5, <1>6

\* The application is copied out while it is whole, its record withdrawn first.
LEMMA SafeCopy ==
    ASSUME TypeOK, IInv,
           \/ BiStart \/ BiEraseInfo \/ BiWriteInfo \/ BiErase \/ BiWrite \/ BiWriteFails
           \/ BiReadFails \/ BiEraseInfo2 \/ BiWriteInfo2 \/ BiConfirm
    PROVE  IInv'
<1>1. /\ UNCHANGED <<intImage, trigger, bootTrigger>>
      /\ pc \in BiPC /\ pc' \in BiPC \cup {"jump"}
  BY DEF BootStep, BiPC, BiStart, BiEraseInfo, BiWriteInfo, BiErase, BiWrite, BiWriteFails,
         BiReadFails, BiEraseInfo2, BiWriteInfo2, BiConfirm
<1>2. Whole /\ Whole'
  BY <1>1, WholeKept DEF IInv, RunsWhole
<1>3. RunsWhole' /\ CanInstall' /\ Installs' /\ Replaces'
  BY <1>1, <1>2 DEF RunsWhole, CanInstall, Installs, Replaces, BiPC
<1>4. ASSUME NEW valid \in BOOLEAN, WriteInfo(BiRecord(valid)) \/ WriteInfoFails(BiRecord(valid))
      PROVE  RecordOfOneFile'
  <2>1. PICK f \in Firmware : \A i \in Page : intImage[i] = f
    BY <1>2 DEF Whole, Complete
  <2>2. BiRecord(valid).sum = Sum(intImage) /\ BiRecord(valid) \in Info
    BY CopyRecords DEF BiRecord, ValidInfo
  <2>3. \A i \in DOMAIN Sum(intImage) : Sum(intImage)[i] = f
    BY <2>1 DEF Sum
  <2> QED
    BY <1>4, <2>2, <2>3, RecordWritten DEF IInv
<1>5. RecordOfOneFile'
  <2>1. CASE UNCHANGED extInfo
    BY <2>1 DEF IInv, RecordOfOneFile
  <2>2. CASE BiEraseInfo \/ BiEraseInfo2
    BY <2>2, RecordErased DEF IInv, BiEraseInfo, BiEraseInfo2
  <2>3. CASE BiWriteInfo \/ BiWriteInfo2
    BY <2>3, <1>4 DEF BiWriteInfo, BiWriteInfo2
  <2> QED
    BY <2>1, <2>2, <2>3 DEF BiStart, BiErase, ErasePage, ErasePageFails, BiWrite, WritePages,
       BiWriteFails, WritePagesFails, BiReadFails, BiConfirm, flash
<1>6. Withdrawn'
  <2> SUFFICES ASSUME pc' \in {"bi_erase", "bi_write"} PROVE ~extInfo'.valid
    BY <1>1 DEF Withdrawn, BiPC
  <2>1. BiWriteInfo \/ BiErase \/ BiWrite \/ BiWriteFails
    BY DEF BootStep, BiStart, BiEraseInfo, BiReadFails, BiEraseInfo2, BiWriteInfo2, BiConfirm
  <2>2. CASE BiWriteInfo
    BY <2>2 DEF BiWriteInfo, BootStep, WriteInfo, BiRecord, ValidInfo
  <2>3. CASE BiErase \/ BiWrite \/ BiWriteFails
    <3>1. UNCHANGED extInfo /\ pc \in {"bi_erase", "bi_write"}
      BY <2>3 DEF BootStep, BiErase, ErasePage, ErasePageFails, BiWrite, WritePages,
                  BiWriteFails, WritePagesFails
    <3> QED
      BY <3>1 DEF IInv, Withdrawn
  <2> QED
    BY <2>1, <2>2, <2>3
<1> QED
  BY <1>3, <1>5, <1>6 DEF IInv

\* A reset takes away the trigger or keeps it.
LEMMA SafeReset == IInv /\ UnplannedReset => IInv'
<1> SUFFICES ASSUME IInv, UnplannedReset PROVE IInv'
  OBVIOUS
<1>1. /\ UNCHANGED <<extInfo, extImage, intImage>> /\ pc' = "reset" /\ bootTrigger' = 0
      /\ trigger' \in {trigger, 0, NOISE}
  BY DEF UnplannedReset
<1>2. Whole' = Whole /\ Vouched' = Vouched /\ RecordOfOneFile'
  BY <1>1, WholeKept, VouchedKept DEF IInv, RecordOfOneFile
<1> QED
  BY <1>1, <1>2 DEF IInv, RunsWhole, CanInstall, Installs, Withdrawn, Replaces, AppPC, DlPC, BiPC,
                    NOISE, TRIGGER_COPY_INTERNAL_TO_EXTERNAL

\* At first the application is there and nothing is recorded.
LEMMA SafeInit == Init => IInv
<1> SUFFICES ASSUME Init PROVE IInv
  OBVIOUS
<1>1. Whole
  BY DEF Init, Whole, Complete
<1>2. RecordOfOneFile
  BY FileAssumption DEF Init, RecordOfOneFile, ErasedInfo, NoSum
<1> QED
  BY <1>1, <1>2 DEF Init, IInv, RunsWhole, CanInstall, Installs, Withdrawn, Replaces

\* The inductive invariant: what the record, the places of both programs and the
\* trigger say about the two images.
THEOREM Invariance == Spec => []IInv
<1>1. TypeOK /\ IInv /\ [Next]_vars => IInv'
  <2> SUFFICES ASSUME TypeOK, IInv, [Next]_vars PROVE IInv'
    OBVIOUS
  <2>1. CASE App
    BY <2>1, SafeApp
  <2>2. CASE Boot
    BY <2>2, SafeMain, SafeInstall, SafeCopy DEF Boot
  <2>3. CASE UnplannedReset
    BY <2>3, SafeReset
  <2>4. CASE UNCHANGED vars
    <3>1. /\ UNCHANGED <<extInfo, extImage, intImage, idx, pc, trigger, bootTrigger>>
          /\ Whole' = Whole /\ Vouched' = Vouched
      BY <2>4, WholeKept, VouchedKept DEF vars, flash, hardware
    <3> QED
      BY <3>1 DEF IInv, RecordOfOneFile, RunsWhole, CanInstall, Installs, Withdrawn, Replaces
  <2> QED
    BY <2>1, <2>2, <2>3, <2>4 DEF Next
<1> QED
  BY <1>1, SafeInit, TypeCorrect, PTL DEF Spec

-----------------------------------------------------------------------------
(* The properties *)

\* What the bootloader accepts is one file, since the checksum fixes the image.
LEMMA OneFile == TypeOK /\ IInv => AcceptedIsComplete
<1> SUFFICES ASSUME TypeOK, IInv, Accepts(extInfo, extImage) PROVE Complete(extImage)
  BY DEF AcceptedIsComplete
<1>1. extInfo.sum = Sum(extImage)
  BY DEF Accepts
<1>2. PICK f \in Firmware : \A i \in DOMAIN Sum(extImage) : Sum(extImage)[i] = f
  BY <1>1 DEF IInv, RecordOfOneFile
<1>3. \A i \in Page : extImage[i] = f
  BY <1>2 DEF Sum
<1> QED
  BY <1>3 DEF Complete

\* No record vouches for a mixture or a fragment of binaries, with any number of
\* binaries, pages and faults (firmware_update.c:745-1053).
THEOREM RecordIsTrue == Spec => []AcceptedIsComplete
BY OneFile, TypeCorrect, Invariance, PTL

\* An application that was not installed completely can be installed again from
\* the external flash (bootloader/src/firmware_update.c:362-644).
THEOREM CanRecover == Spec => []RecoverySource
<1>1. IInv => RecoverySource
  BY DEF IInv, CanInstall, Whole, Vouched, RecoverySource
<1> QED
  BY <1>1, Invariance, PTL

\* Internal flash is changed by the copy from external flash alone.
LEMMA InternalChange ==
    ASSUME [Next]_vars, intImage' # intImage
    PROVE  BxErase \/ BxEraseFails \/ BxWrite \/ BxWriteFails
<1>1. Boot
  BY AppPlace DEF Next, UnplannedReset, vars, hardware
<1> QED
  BY <1>1 DEF Boot, CheckResetSource, BootloaderMain, Compare, JumpToApplication,
     BxCheck, BxReadFails, BxVerify, BiStart, BiEraseInfo, BiWriteInfo, BiErase, BiWrite,
     BiWriteFails, BiReadFails, BiEraseInfo2, BiWriteInfo2, BiConfirm

\* Internal flash changes only to install a complete image that is asked for and
\* is left alone (bootloader/src/main.c:100-120).
THEOREM InstallsOnRequest == Spec => InstallOnlyAccepted
<1> DEFINE P == /\ Accepts(extInfo, extImage) /\ Complete(extImage)
                /\ UNCHANGED <<extInfo, extImage>>
                /\ trigger = TRIGGER_UPDATE
<1>1. TypeOK /\ IInv /\ [Next]_vars => [intImage' # intImage => P]_vars
  <2> SUFFICES ASSUME TypeOK, IInv, [Next]_vars, intImage' # intImage PROVE P
    BY Zenon
  <2>1. pc \in {"bx_erase", "bx_write"} /\ UNCHANGED <<extInfo, extImage>>
    BY InternalChange DEF BxErase, BxEraseFails, BxWrite, BxWriteFails, BootStep, flash
  <2>2. trigger = TRIGGER_UPDATE /\ Accepts(extInfo, extImage)
    BY <2>1 DEF IInv, Installs, Vouched
  <2> QED
    BY <2>1, <2>2, OneFile DEF AcceptedIsComplete
<1> QED
  BY <1>1, TypeCorrect, Invariance, PTL DEF Spec, InstallOnlyAccepted

\* The staged image is altered only where the record is withdrawn.
LEMMA ExternalChange ==
    ASSUME IInv, [Next]_vars, extImage' # extImage
    PROVE  ~Vouched
<1>1. CASE App
  <2>1. DlErase \/ DlReceive \/ DlReceiveFails
    BY <1>1 DEF App, AppTask, CmdTask, StartDownload, OtaUpdate, SoftwareReset, ConsoleTrigger,
       ConsoleReset, TakeRequest, DlOpen, DlOpenFails, DlEraseInfo, EraseInfo, EraseInfoFails,
       DlWriteInfo, WriteInfo, WriteInfoFails, DlStreamEnd, DlName, DlEraseInfo2, DlWriteInfo2,
       DlConfirm, DownloadReturns, DecideUpdate, DecideNone, flash
  <2> QED
    BY <2>1 DEF DlErase, DlReceive, DlReceiveFails, Step, IInv, Withdrawn, Vouched, Accepts
<1>2. CASE Boot
  <2>1. BiErase \/ BiWrite \/ BiWriteFails
    BY <1>2 DEF Boot, CheckResetSource, BootloaderMain, Compare, JumpToApplication,
       BxCheck, BxErase, BxEraseFails, BxWrite, BxReadFails, BxWriteFails, BxVerify,
       BiStart, BiEraseInfo, BiWriteInfo, EraseInfo, EraseInfoFails, WriteInfo, WriteInfoFails,
       BiReadFails, BiEraseInfo2, BiWriteInfo2, BiConfirm, flash
  <2> QED
    BY <2>1 DEF BiErase, BiWrite, BiWriteFails, BootStep, IInv, Withdrawn, Vouched, Accepts
<1>3. CASE UnplannedReset \/ UNCHANGED vars
  BY <1>3 DEF UnplannedReset, vars, flash
<1> QED
  BY <1>1, <1>2, <1>3 DEF Next

\* The staged image is altered only under a record that does not vouch for it
\* (firmware_update.c:789-833, bootloader/src/firmware_update.c:200-245).
THEOREM WithdrawnFirst == Spec => NoChangeUnderRecord
<1>1. IInv /\ [Next]_vars => [extImage' # extImage => ~Accepts(extInfo, extImage)]_vars
  BY ExternalChange DEF Vouched
<1> QED
  BY <1>1, Invariance, PTL DEF Spec, NoChangeUnderRecord

-----------------------------------------------------------------------------
(* The two programs implement ApplicationUpdate *)

\* A complete image is the file of its first page, and no mark of a page.
LEMMA FirstPage ==
    ASSUME NEW image, Complete(image)
    PROVE  /\ image[1] \in Firmware /\ image[1] # Erased /\ image[1] # Garbage
           /\ \A i \in Page : image[i] = image[1]
BY Ranges, ContentAssumption DEF Complete

LEMMA PromiseInit == Init => Update!Init
<1> SUFFICES ASSUME Init PROVE Update!Init
  OBVIOUS
<1>1. InstalledFile \in Firmware
  BY FirstPage, SafeInit, Ranges DEF Init, InstalledFile, Complete
<1>2. ~Accepts(extInfo, extImage)
  BY SizeAssumption DEF Init, Accepts, ErasedInfo, NoSize
<1> QED
  BY <1>1, <1>2 DEF Update!Init, StagedFile

\* Only an application that is whole stages and discards.
LEMMA StagedBesideWhole ==
    ASSUME IInv, [Next]_vars
    PROVE  Whole \/ UNCHANGED <<extInfo, extImage>>
<1>1. CASE App
  BY <1>1, AppPlace DEF IInv, RunsWhole
<1>2. CASE Boot
  <2>1. CASE pc \in BiPC
    BY <2>1 DEF IInv, RunsWhole
  <2>2. CASE pc \notin BiPC
    BY <1>2, <2>2 DEF BiPC, Boot, BootStep, CheckResetSource, BootloaderMain, Compare, JumpToApplication,
       BxCheck, BxErase, BxEraseFails, BxWrite, BxReadFails, BxWriteFails, BxVerify,
       BiStart, BiEraseInfo, BiWriteInfo, BiErase, BiWrite, BiWriteFails,
       BiReadFails, BiEraseInfo2, BiWriteInfo2, BiConfirm, flash
  <2> QED
    BY <2>1, <2>2
<1>3. CASE UnplannedReset \/ UNCHANGED vars
  BY <1>3 DEF UnplannedReset, vars, flash
<1> QED
  BY <1>1, <1>2, <1>3 DEF Next

\* A step that leaves internal flash alone stages, discards or does nothing.
LEMMA StagingStep ==
    ASSUME IInv, AcceptedIsComplete, AcceptedIsComplete', [Next]_vars, intImage' = intImage
    PROVE  [Update!Next]_(Update!vars)
<1>1. InstalledFile' = InstalledFile
  BY DEF InstalledFile
<1>2. CASE UNCHANGED <<extInfo, extImage>>
  <2>1. StagedFile' = StagedFile
    BY <1>2 DEF StagedFile
  <2> QED
    BY <1>1, <2>1 DEF Update!vars
<1>3. CASE Whole
  <2>1. InstalledFile # Garbage
    BY <1>3, FirstPage DEF Whole, InstalledFile
  <2>2. CASE Vouched /\ Vouched'
    <3>1. StagedFile' = StagedFile
      BY <2>2, ExternalChange DEF Vouched, StagedFile
    <3> QED
      BY <1>1, <3>1 DEF Update!vars
  <2>3. CASE Vouched /\ ~Vouched'
    <3>1. StagedFile # Erased /\ StagedFile' = Erased
      BY <2>3, FirstPage DEF Vouched, StagedFile, AcceptedIsComplete
    <3> QED
      BY <1>1, <2>1, <3>1 DEF Update!Next, Update!Discard
  <2>4. CASE ~Vouched /\ Vouched'
    <3>1. StagedFile = Erased
      BY <2>4 DEF Vouched, StagedFile
    <3>2. StagedFile' \in Firmware
      BY <2>4, FirstPage DEF Vouched, StagedFile, AcceptedIsComplete
    <3> QED
      BY <1>1, <2>1, <3>1, <3>2 DEF Update!Next, Update!Stage
  <2>5. CASE ~Vouched /\ ~Vouched'
    <3>1. StagedFile' = StagedFile
      BY <2>5 DEF Vouched, StagedFile
    <3> QED
      BY <1>1, <3>1 DEF Update!vars
  <2> QED
    BY <2>2, <2>3, <2>4, <2>5
<1> QED
  BY <1>2, <1>3, StagedBesideWhole

\* A step that changes internal flash breaks the application or completes it.
LEMMA ReplacingStep ==
    ASSUME TypeOK, IInv, AcceptedIsComplete, [Next]_vars, intImage' # intImage
    PROVE  [Update!Next]_(Update!vars)
<1>1. pc \in {"bx_erase", "bx_write"} /\ UNCHANGED <<extInfo, extImage>>
  BY InternalChange DEF BxErase, BxEraseFails, BxWrite, BxWriteFails, BootStep, flash
<1>2. Accepts(extInfo, extImage)
  BY <1>1 DEF IInv, Installs, Vouched
<1>3. /\ StagedFile = extImage[1] /\ StagedFile' = StagedFile /\ StagedFile # Erased
      /\ \A i \in Page : extImage[i] = extImage[1]
  BY <1>1, <1>2, FirstPage DEF StagedFile, AcceptedIsComplete
<1>4. CASE BxErase \/ BxEraseFails
  <2>1. PICK c \in {Erased, Garbage} : intImage' = [intImage EXCEPT ![idx] = c]
    <3>1. \A i \in Page : [intImage EXCEPT ![i] = intImage[i]] = intImage
      BY DEF TypeOK
    <3> QED
      BY <1>4, <3>1 DEF TypeOK, BxErase, BxEraseFails
  <2>2. idx \in Page /\ intImage'[idx] \in {Erased, Garbage}
    BY <2>1 DEF TypeOK
  <2>3. InstalledFile' = Garbage
    BY <2>2, ContentAssumption DEF InstalledFile, Complete
  <2>4. CASE InstalledFile = Garbage
    BY <1>3, <2>3, <2>4 DEF Update!vars
  <2>5. CASE InstalledFile # Garbage
    BY <1>3, <2>3, <2>5 DEF Update!Next, Update!BeginReplace
  <2> QED
    BY <2>4, <2>5
<1>5. CASE BxWrite \/ BxWriteFails
  <2>1. /\ Complete(intImage) => intImage[1] = extImage[1]
        /\ Complete(intImage') => intImage'[1] = extImage[1]
    BY <1>5, WrittenFromStaged, FirstPage, Ranges
  <2>2. InstalledFile \in {Garbage, StagedFile} /\ InstalledFile' \in {Garbage, StagedFile}
    BY <1>3, <2>1 DEF InstalledFile
  <2>3. CASE InstalledFile' = InstalledFile
    BY <1>3, <2>3 DEF Update!vars
  <2>4. CASE InstalledFile # Garbage /\ InstalledFile' = Garbage
    BY <1>3, <2>4 DEF Update!Next, Update!BeginReplace
  <2>5. CASE InstalledFile = Garbage /\ InstalledFile' = StagedFile
    BY <1>3, <2>5 DEF Update!Next, Update!EndReplace
  <2> QED
    BY <2>2, <2>3, <2>4, <2>5
<1> QED
  BY <1>4, <1>5, InternalChange

\* The application and the bootloader together implement an update: a device has
\* an application or the staged image to make it from, and nothing but a staged
\* image ever becomes the application (firmware_update.c of both programs).
THEOREM Implementation == Spec => KeepsPromise
<1>1. TypeOK /\ IInv /\ AcceptedIsComplete /\ AcceptedIsComplete' /\ [Next]_vars
         => [Update!Next]_(Update!vars)
  BY StagingStep, ReplacingStep
<1> QED
  BY <1>1, PromiseInit, TypeCorrect, Invariance, RecordIsTrue, PTL DEF Spec, KeepsPromise, Update!Spec
=============================================================================
