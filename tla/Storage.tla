------------------------------ MODULE Storage ------------------------------
(***************************************************************************)
(* The settings kept in EEPROM (src/storage.c).  Entries lie one after the *)
(* other from EEPROM_DATA_START on; the only way to an entry is through    *)
(* the lengths in the headers before it.  A cell of `mem` stands for the   *)
(* header of an entry, for its namespace and key, or for that part of its  *)
(* data which lies in one page and is written at once (src/eeprom.c).      *)
(* Between any two of these writes the device may restart, and any access  *)
(* fails while the other device on the bus holds it                        *)
(* (src/spi_coordinator.c).                                                *)
(***************************************************************************)
EXTENDS Integers, Sequences, FiniteSetsExt

CONSTANTS
    Key,        \* the settings, as namespace, key and type
    Order,      \* the order in which they are loaded
    Value,      \* the values they take
    LengthOf,   \* the length of each value, in parts written at once
    Default,    \* the default of each key
    BlankLength, \* what a header reads as length of which only the beginning
                \* was written, because it crosses into another page
    EEPROM_SIZE, \* cells
    MaxFaults   \* bound: failed EEPROM accesses and restarts

\* A setting of which something, but no value of it, is stored.
Corrupt == [kind |-> "corrupt"]
Missing == [kind |-> "missing"]

ASSUME OrderAssumption ==
    Key # {} /\ Order \in Seq(Key) /\ \A k \in Key : \E i \in DOMAIN Order : Order[i] = k
\* There is one value without data, the empty string.
ASSUME ValueAssumption ==
    /\ LengthOf \in [Value -> Nat] /\ Default \in [Key -> Value]
    /\ \A v, w \in Value : LengthOf[v] = 0 /\ LengthOf[w] = 0 => v = w
    /\ Corrupt \notin Value /\ Missing \notin Value
ASSUME SizeAssumption ==
    EEPROM_SIZE \in Nat /\ EEPROM_SIZE >= 2 /\ MaxFaults \in Nat /\ BlankLength \subseteq Nat

VARIABLES
    mem,        \* the EEPROM
    ram,        \* the settings in use
    next,       \* how many settings resources_init has loaded, plus one
    writing, key, val, addr, done, \* storage_write_entry: place, locals, parts of data written
    faults,
    misled,     \* history: a scan was cut short, or an entry changed its length
    unsaved     \* history: settings whose last write failed

storageVars == <<mem, ram, next, writing, key, val, addr, done, faults, misled, unsaved>>

Cell == 1 .. EEPROM_SIZE

FREE == [kind |-> "free"]
Header(len) == [kind |-> "header", len |-> len]
NameOf(k) == [kind |-> "name", key |-> k]
Data(v, i) == [kind |-> "data", val |-> v, unit |-> i]

\* Mutant of EntrySize: the cell of namespace and key is not counted.
EntrySize_NoName(len) == 1 + len

EntrySize(len) == 2 + len

IsHeader(m, p) == p < EEPROM_SIZE /\ m[p].kind = "header"

\* Where a scan looks after it has looked at p; it ends where no header is.
Behind(m) == [p \in Nat |-> IF IsHeader(m, p) THEN p + EntrySize(m[p].len) ELSE p]

\* The addresses that a scan of all entries looks at, and the last of them: an
\* entry takes two cells or more.
Steps == EEPROM_SIZE \div 2
Addresses(m) ==
    LET seen[n \in 0 .. Steps] ==
            IF n = 0 THEN {1} ELSE UNION {{p, Behind(m)[p]} : p \in seen[n - 1]}
    IN seen[Steps]
End(m) == Max(Addresses(m))

Matches(m, p, k) == IsHeader(m, p) /\ m[p + 1] = NameOf(k)

EntriesOf(m, k) == {p \in Addresses(m) : Matches(m, p, k)}

\* Where storage_write_entry comes to: the entry of the key, or the end.
EntryAddr(m, k) == IF EntriesOf(m, k) # {} THEN Min(EntriesOf(m, k)) ELSE End(m)

\* What lies in the data area of an entry, by the address of the entry.
ValueAt(m) ==
    [p \in Nat |->
        LET vs == {v \in Value : /\ m[p].len = LengthOf[v]
                                 /\ p + 1 + LengthOf[v] <= EEPROM_SIZE
                                 /\ \A i \in 1 .. LengthOf[v] : m[p + 1 + i] = Data(v, i)}
        IN IF vs = {} THEN Corrupt ELSE CHOOSE v \in vs : TRUE]

\* storage_read_entry
Stored(m, k) == IF EntriesOf(m, k) = {} THEN Missing ELSE ValueAt(m)[EntryAddr(m, k)]

Fault == faults < MaxFaults /\ faults' = faults + 1
Loading == next <= Len(Order)

-----------------------------------------------------------------------------
(* Loading at startup: storage_loadX, the default is stored if none is found *)

StartWrite(k, v) == key' = k /\ val' = v /\ addr' = 1 /\ writing' = "scan"

Load ==
    /\ writing = "idle" /\ Loading
    /\ LET k == Order[next]
           v == Stored(mem, k)
       IN IF v = Missing
          THEN ram' = [ram EXCEPT ![k] = Default[k]] /\ StartWrite(k, Default[k])
          ELSE ram' = [ram EXCEPT ![k] = v] /\ UNCHANGED <<writing, key, val, addr>>
    /\ next' = next + 1
    /\ UNCHANGED <<mem, done, faults, misled, unsaved>>

\* Mutant of Set: the value is used but not stored.
Set_NotStored(k, v) ==
    /\ writing = "idle" /\ ~Loading /\ ram[k] # v
    /\ ram' = [ram EXCEPT ![k] = v]
    /\ UNCHANGED <<mem, next, writing, key, val, addr, done, faults, misled, unsaved>>

\* A setter of a resource: the value is stored when it differs from the one in
\* use, whether or not that one was ever stored.
Set(k, v) ==
    /\ writing = "idle" /\ ~Loading /\ ram[k] # v
    /\ ram' = [ram EXCEPT ![k] = v]
    /\ StartWrite(k, v)
    /\ UNCHANGED <<mem, next, done, faults, misled, unsaved>>

-----------------------------------------------------------------------------
(* storage_write_entry *)

Fails == writing' = "idle" /\ unsaved' = unsaved \cup {key}

\* While the bus is taken a header read that fails ends the scan where it stands,
\* as free space does, and a name read that fails (its result is not looked at)
\* lets it pass by the entry of the key.  Nobody else uses the bus while the
\* settings are loaded.
Scan ==
    /\ writing = "scan"
    /\ \E p \in Addresses(mem) :
        LET right == EntryAddr(mem, key)
        IN /\ \/ p = right /\ UNCHANGED faults
              \/ p # right /\ ~Loading /\ Fault
           /\ addr' = p
           /\ misled' = (misled \/ p # right)
           /\ IF p + EntrySize(LengthOf[val]) > EEPROM_SIZE + 1
              THEN Fails
              ELSE writing' = "header" /\ UNCHANGED unsaved
    /\ UNCHANGED <<mem, ram, next, key, val, done>>

\* One eeprom_write of an entry is refused because the bus is taken.
WriteFails(at) ==
    /\ writing = at /\ (at = "data" => done = 0) /\ Fault /\ Fails
    /\ UNCHANGED <<mem, ram, next, key, val, addr, done, misled>>

WriteHeader ==
    /\ writing = "header" /\ writing' = "name"
    /\ mem' = [mem EXCEPT ![addr] = Header(LengthOf[val])]
    /\ misled' = (misled \/ (mem[addr].kind = "header" /\ mem[addr].len # LengthOf[val]))
    /\ UNCHANGED <<ram, next, key, val, addr, done, faults, unsaved>>

WriteName ==
    /\ writing = "name" /\ writing' = "data" /\ done' = 0
    /\ mem' = [mem EXCEPT ![addr + 1] = NameOf(key)]
    /\ UNCHANGED <<ram, next, key, val, addr, faults, misled, unsaved>>

\* Mutant of WriteData: the length of namespace and key is left out of the address.
WriteData_OverName ==
    /\ writing = "data" /\ done < LengthOf[val]
    /\ mem' = [mem EXCEPT ![addr + 1 + done] = Data(val, done + 1)]
    /\ done' = done + 1
    /\ UNCHANGED <<ram, next, writing, key, val, addr, faults, misled, unsaved>>

\* The next part of the data; eeprom_write writes page after page.
WriteData ==
    /\ writing = "data" /\ done < LengthOf[val]
    /\ mem' = [mem EXCEPT ![addr + 2 + done] = Data(val, done + 1)]
    /\ done' = done + 1
    /\ UNCHANGED <<ram, next, writing, key, val, addr, faults, misled, unsaved>>

WriteEnds ==
    /\ writing = "data" /\ done = LengthOf[val] /\ writing' = "idle"
    /\ unsaved' = unsaved \ {key}
    /\ UNCHANGED <<mem, ram, next, key, val, addr, done, faults, misled>>

-----------------------------------------------------------------------------
(* The device restarts, possibly in the middle of a write *)

\* Of a header that crosses into another page only the beginning is written:
\* what it reads as length is not that of the entry, unless it was there before.
CutHeader ==
    /\ writing = "header" /\ mem[addr] # Header(LengthOf[val])
    /\ \E len \in BlankLength : mem' = [mem EXCEPT ![addr] = Header(len)]
    /\ misled' = (misled \/ mem[addr].kind = "header")

Restart ==
    /\ Fault
    /\ CutHeader \/ UNCHANGED <<mem, misled>>
    /\ writing' = "idle" /\ next' = 1 /\ unsaved' = {}
    /\ ram' = Default
    /\ UNCHANGED <<key, val, addr, done>>

StorageInit ==
    /\ mem = [p \in Cell |-> FREE] /\ ram = Default /\ next = 1
    /\ writing = "idle" /\ key = Order[1] /\ val = Default[Order[1]] /\ addr = 1 /\ done = 0
    /\ faults = 0 /\ misled = FALSE /\ unsaved = {}

StorageNext ==
    \/ Load \/ Scan \/ WriteHeader \/ WriteName \/ WriteData \/ WriteEnds \/ Restart
    \/ \E k \in Key, v \in Value : Set(k, v)
    \/ \E at \in {"header", "name", "data"} : ~Loading /\ WriteFails(at)

StorageSpec == StorageInit /\ [][StorageNext]_storageVars

-----------------------------------------------------------------------------
(* Properties *)

\* Writing one setting leaves what is stored of every other as it is, restarts
\* in the middle included, as long as no scan was cut short and no entry
\* changed its length (storage.c:108-195).
NeighboursKept ==
    [][~misled' => \A k \in Key \ {key} : Stored(mem', k) = Stored(mem, k)]_storageVars

\* Between writes the EEPROM holds the settings in use, those excepted whose
\* write failed: the setter compares with RAM and never tries again.
SettingsStored ==
    writing = "idle" /\ ~Loading /\ ~misled =>
        \A k \in Key \ unsaved : Stored(mem, k) = ram[k]

\* A value written at once.
Whole == {v \in Value : LengthOf[v] <= 1}

\* What is stored of the settings is what SettingsStore keeps of them.
Settings == INSTANCE SettingsStore WITH stored <- [k \in Key |-> Stored(mem, k)]

\* Until a scan was misled, headers, names and data in one array of bytes are a
\* table of settings: a value in use enters it unchanged, the others stay, and
\* only a value of more than one part can be lost to a restart: of any other the
\* old or the new one is read, whatever write is interrupted.
KeepsSettings == Settings!Spec

\* "Found free space" (storage.c:149): a new entry is put where nothing is.
FoundFreeSpace ==
    writing = "header" /\ ~IsHeader(mem, addr) => \A p \in addr .. EEPROM_SIZE : mem[p] = FREE
=============================================================================
