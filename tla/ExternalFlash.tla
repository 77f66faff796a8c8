--------------------------- MODULE ExternalFlash ---------------------------
(***************************************************************************)
(* The serial flash that stages a firmware image: one info sector          *)
(* (firmware_info_t) and the image region, shared by the application       *)
(* (src/firmware_update.c) and the bootloader                              *)
(* (bootloader/src/firmware_update.c).                                     *)
(*                                                                         *)
(* An image is a function from pages to contents.  The content of a page   *)
(* is the file it came from (a page at position i of file f holds the i-th *)
(* page of f), Erased (all ones) or Garbage (an interrupted or failed      *)
(* operation).  The FNV-32a checksum of a run of pages is the sequence of  *)
(* their contents: collisions are left out.                                *)
(***************************************************************************)
EXTENDS Integers, Sequences

CONSTANTS
    Firmware,   \* the binaries the download server offers
    FileLen,    \* the length of each of them, in pages
    Product,    \* the app_name each of them carries
    N,          \* pages in the application region (binary_size)
    NamePage,   \* the page that holds app_signature, app_name and app_version
    MaxFaults,  \* bound: failed operations, lost streams and unplanned resets
    Erased, Garbage, Blank

ASSUME SizeAssumption == N \in Nat /\ N >= 1 /\ NamePage \in 1 .. N
ASSUME FileAssumption == Firmware # {} /\ FileLen \in [Firmware -> 1 .. N + 1]
ASSUME ContentAssumption == Erased \notin Firmware /\ Garbage \notin Firmware
                            /\ Erased # Garbage
ASSUME NameAssumption == DOMAIN Product = Firmware /\ \A f \in Firmware : Product[f] # Blank
ASSUME FaultAssumption == MaxFaults \in Nat

DefaultUrl == CHOOSE f \in Firmware : TRUE

VARIABLES extInfo, extImage, faults

Page == 1 .. N          \* the application region
FlashPage == 1 .. N + 1 \* a read may deliver one page too many, see DlReceive

Content == Firmware \cup {Erased, Garbage}
Name == {Product[f] : f \in Firmware} \cup {Blank}

NameOf(content) == IF content \in Firmware THEN Product[content] ELSE Blank

\* A checksum word that is the checksum of no image, and an impossible size.
NoSum == << >>
NoSize == -1

Info == [valid : BOOLEAN, size : {NoSize} \cup 0 .. N + 1, sum : Seq(Content), name : Name]

\* An erased sector reads 0xFF: the byte of `valid` is not zero.
ErasedInfo == [valid |-> TRUE, size |-> NoSize, sum |-> NoSum, name |-> Blank]
InvalidInfo(size) == [valid |-> FALSE, size |-> size, sum |-> NoSum, name |-> Blank]
ValidInfo(sum, name) == [valid |-> TRUE, size |-> Len(sum), sum |-> sum, name |-> name]

\* What is left of a record whose programming was cut short: the byte of `valid`
\* may still be 0xFF, with an incomplete checksum or with the whole of it.
Torn(rec) == {[rec EXCEPT !.valid = TRUE, !.sum = s] : s \in {NoSum, rec.sum}}

Sum(image) == [i \in Page |-> image[i]]

\* The region holds the application pages of one file, each in its place.
Complete(image) == \E f \in Firmware : \A i \in Page : image[i] = f

\* Mutant of Accepts: the checksum is not compared.
Accepts_NoChecksum(info, image) == info.valid /\ info.size = N

\* The three checks the bootloader makes before it touches internal flash.
Accepts(info, image) == info.valid /\ info.size = N /\ info.sum = Sum(image)

-----------------------------------------------------------------------------
Fault == faults < MaxFaults /\ faults' = faults + 1

\* Programming only clears bits: it can succeed on an erased page, on one that
\* already holds the data and on one where an earlier attempt was cut short.
Programmable(current, new) == current \in {Erased, Garbage, new}

Filled(image, first, last, f) ==
    [i \in DOMAIN image |-> IF i \in first .. last THEN f ELSE image[i]]

EraseInfo == extInfo' = ErasedInfo /\ UNCHANGED <<extImage, faults>>

EraseInfoFails == Fault /\ extInfo' \in {extInfo, ErasedInfo} /\ UNCHANGED extImage

WriteInfo(rec) == extInfo' = rec /\ UNCHANGED <<extImage, faults>>

WriteInfoFails(rec) == Fault /\ extInfo' \in {extInfo, rec} \cup Torn(rec) /\ UNCHANGED extImage

ErasePage(i) == extImage' = [extImage EXCEPT ![i] = Erased] /\ UNCHANGED <<extInfo, faults>>

ErasePageFails(i) ==
    /\ Fault
    /\ \E c \in {extImage[i], Erased} : extImage' = [extImage EXCEPT ![i] = c]
    /\ UNCHANGED extInfo

\* Pages first .. last are written with f and read back equal.
WritePages(first, last, f) ==
    /\ \A i \in first .. last : Programmable(extImage[i], f)
    /\ extImage' = Filled(extImage, first, last, f)
    /\ UNCHANGED <<extInfo, faults>>

\* The pages before `bad` are written; writing or verifying `bad` fails, by a
\* fault or because the page held other data.
WritePagesFails(first, last, f) ==
    \E bad \in first .. last, c \in {f, Garbage} \cup {extImage[i] : i \in first .. last} :
        /\ \A i \in first .. bad - 1 : Programmable(extImage[i], f)
        /\ c \in {f, Garbage, extImage[bad]}
        /\ extImage' = [Filled(extImage, first, bad - 1, f) EXCEPT ![bad] = c]
        /\ \/ Fault
           \/ extImage[bad] \notin {Erased, f} /\ c = Garbage /\ UNCHANGED faults
        /\ UNCHANGED extInfo

FlashTypeOK ==
    /\ extInfo \in Info
    /\ extImage \in [FlashPage -> Content]
    /\ faults \in 0 .. MaxFaults
=============================================================================
