--------------------------- MODULE FlashDirectory ---------------------------
(***************************************************************************)
(* The central directory of the flash file system                          *)
(* (src/Firmware/FlashStorage.cpp): mounting, formatting, finding or       *)
(* creating the entry of a file that is opened for writing, moving a file  *)
(* to a larger block, rebuilding a full directory, removing a file.        *)
(*                                                                         *)
(* The directory is one flash sector of Slots entries, above DataSectors   *)
(* sectors that are allocated downwards, towards the program image.  What  *)
(* is inside a block is FlashFile's matter: here each sector of a block    *)
(* holds the content of one save.                                          *)
(*                                                                         *)
(* A definition named D_Xxx is a plausible mistake in D; nothing refers to *)
(* it.                                                                     *)
(***************************************************************************)
EXTENDS Integers, FiniteSets

CONSTANTS
    Names,          \* file names
    MaxSizes,       \* block sizes a caller may ask for, in sectors
    DataSectors,    \* sectors between the program image and the directory
    Slots,          \* directory entries
    PageSlots,      \* of them, those in the first flash page
    MaxSaves, MaxCrashes, MaxTimeouts, MaxResets    \* bounds

ASSUME DirectoryAssumption ==
    /\ DataSectors \in Nat \ {0} /\ Slots \in Nat \ {0} /\ PageSlots \in Nat \ {0}
    /\ MaxSizes \subseteq Nat \ {0}
    /\ Names \cap {"/", "ff bytes", "zero bytes", "torn"} = {}
    /\ MaxSaves \in Nat /\ MaxCrashes \in Nat /\ MaxTimeouts \in Nat /\ MaxResets \in Nat

Sectors == 0 .. DataSectors - 1
Slot    == 1 .. Slots
Nobody  == 0

(***************************************************************************)
(* Directory entries.                                                      *)
(***************************************************************************)
Unset  == 0 - 1         \* a number of FF bytes
Root   == "/"
Blank  == "ff bytes"
Zeros  == "zero bytes"
Torn   == "torn"
Erased == [sequence |-> Unset, filename |-> Blank, maxSize |-> Unset,
           flashOffset |-> Unset, crc32 |-> "ff"]

Entry == [sequence    : Nat \cup {Unset},
          filename    : Names \cup {Root, Blank, Zeros, Torn},
          maxSize     : 0 .. DataSectors \cup {Unset},
          flashOffset : 0 .. DataSectors \cup {Unset},
          crc32       : {"ff", "good", "bad"}]

IsAssigned(e) == e.sequence # Unset
IsReplaced(e) == e.filename = Zeros
IsFree(e)     == e = [Erased EXCEPT !.sequence = e.sequence]
BlockOf(e)    == {s \in Sectors : e.flashOffset <= s /\ s < e.flashOffset + e.maxSize}

RootEntry == [sequence |-> 0, filename |-> Root, maxSize |-> 0,
              flashOffset |-> DataSectors, crc32 |-> "good"]
NewEntry(seq, name, size, at) ==
    [sequence |-> seq, filename |-> name, maxSize |-> size,
     flashOffset |-> at, crc32 |-> "good"]
\* the CRC is not recomputed when the name is overwritten
Replaced(e)  == [e EXCEPT !.filename = Zeros, !.crc32 = "bad"]
Reclaimed(e) == [Erased EXCEPT !.sequence = e.sequence]
Cut(e)       == [e EXCEPT !.filename = Torn, !.crc32 = "bad"]

Formatted == [i \in Slot |-> IF i = 1 THEN RootEntry ELSE Erased]

Empty  == <<"erased">>
Wreck  == <<"wreck">>
Absent == <<"absent">>

VARIABLES
    slots,          \* flash: the directory
    sector,         \* flash: what each data sector holds
    mounted, sectorsUsed, minAllocOffset, nextSequence,     \* RAM
    pc,             \* the operation under way
    request,        \* the OpenWrite under way: name, maxSize, slot of its entry
    copy, scan,     \* RebuildCentralDirectory: RAM copy, entry it has come to
    remount,        \* Format was called by FactoryReset, which mounts again
    kept,           \* ghost: the content each file was last saved with
    excused,        \* ghost: why the directory may not survive the next mount
    saves, crashes, timeouts, resets

ram   == <<mounted, sectorsUsed, minAllocOffset, nextSequence>>
work  == <<copy, scan>>
count == <<saves, crashes, timeouts, resets>>
vars  == <<slots, sector, ram, pc, request, work, remount, kept, excused, count>>

NoRequest == [name |-> Blank, maxSize |-> 0, slot |-> Nobody]
Phases == {"mount", "formatErase", "formatWrite", "idle", "find", "replace", "create",
           "rebuildErase", "rebuildWrite", "data", "fault"}
Excuses == {"cut", "skipped", "rebuilt", "unformatted"}

TypeOK ==
    /\ slots \in [Slot -> Entry]
    /\ DOMAIN sector = Sectors
    /\ mounted \in BOOLEAN
    /\ sectorsUsed \subseteq Sectors
    /\ minAllocOffset \in 0 .. DataSectors
    /\ nextSequence \in Nat
    /\ pc \in Phases
    /\ request.slot \in Slot \cup {Nobody}
    /\ copy \in [Slot -> Entry]
    /\ scan \in Slot \cup {Slots + 1}
    /\ remount \in BOOLEAN
    /\ excused \subseteq Excuses

Init ==
    /\ slots = [i \in Slot |-> Erased]
    /\ sector = [s \in Sectors |-> Empty]
    /\ mounted = FALSE
    /\ sectorsUsed = {}
    /\ minAllocOffset = DataSectors
    /\ nextSequence = 0
    /\ pc = "mount"
    /\ request = NoRequest
    /\ copy = slots
    /\ scan = 1
    /\ remount = FALSE
    /\ kept = [n \in Names |-> Absent]
    /\ excused = {}
    /\ saves = 0 /\ crashes = 0 /\ timeouts = 0 /\ resets = 0

TimesOut == timeouts < MaxTimeouts /\ timeouts' = timeouts + 1 /\ UNCHANGED <<saves, crashes, resets>>

-----------------------------------------------------------------------------
(***************************************************************************)
(* Reading.                                                                *)
(***************************************************************************)
\* the file's first sector is erased
IsDeleted(e) == e.flashOffset \in Sectors /\ sector[e.flashOffset] = Empty

\* FindFileEntry: the first entry of that name
Lookup_LiveOnly(n) ==
    LET found == {i \in Slot : slots[i].filename = n /\ ~IsDeleted(slots[i])}
    IN  IF found = {} THEN Nobody ELSE CHOOSE i \in found : \A j \in found : i <= j
Lookup(n) ==
    LET found == {i \in Slot : slots[i].filename = n}
    IN  IF found = {} THEN Nobody ELSE CHOOSE i \in found : \A j \in found : i <= j

FirstFree ==
    LET free == {i \in Slot : IsFree(slots[i])}
    IN  IF free = {} THEN Nobody ELSE CHOOSE i \in free : \A j \in free : i <= j

IsInStreamSpace(at) == minAllocOffset <= at /\ at < DataSectors

\* OpenRead, of a file whose block holds one content
OpenRead(n) ==
    LET e == slots[Lookup(n)]
    IN  IF Lookup(n) = Nobody THEN Absent
        ELSE IF ~IsInStreamSpace(e.flashOffset) THEN Wreck
        ELSE IF sector[e.flashOffset] = Empty THEN Absent
        ELSE IF \A s \in BlockOf(e) : sector[s] = sector[e.flashOffset]
             THEN sector[e.flashOffset] ELSE Wreck

-----------------------------------------------------------------------------
(***************************************************************************)
(* Mount and Format.                                                       *)
(***************************************************************************)
\* the entries before the first erased one
Scanned == {i \in Slot : \A j \in 1 .. i : slots[j] # Erased}

Sound_EveryCRC(i) == slots[i].sequence = i - 1 /\ slots[i].crc32 = "good"
Sound(i) ==
    /\ slots[i].sequence = i - 1
    /\ IsReplaced(slots[i]) \/ slots[i].crc32 = "good"

LowWater_Live ==
    LET offsets == {DataSectors} \cup {slots[i].flashOffset : i \in {j \in Scanned : ~IsReplaced(slots[j])}}
    IN  CHOOSE a \in offsets : \A b \in offsets : a <= b
LowWater ==
    LET offsets == {DataSectors} \cup {slots[i].flashOffset : i \in Scanned}
    IN  CHOOSE a \in offsets : \A b \in offsets : a <= b

MountFinds ==
    /\ pc = "mount"
    /\ slots[1].filename = Root
    /\ \A i \in Scanned : Sound(i)
    /\ mounted' = TRUE
    /\ sectorsUsed' = UNION {BlockOf(slots[i]) : i \in Scanned}
    /\ minAllocOffset' = LowWater
    /\ nextSequence' = Cardinality(Scanned)
    /\ pc' = "idle"
    /\ UNCHANGED <<slots, sector, request, work, remount, kept, excused, count>>

Forgotten == [n \in Names |-> Absent]

MountFormats ==
    /\ pc = "mount"
    /\ ~(slots[1].filename = Root /\ \A i \in Scanned : Sound(i))
    /\ pc' = "formatErase"
    /\ remount' = FALSE
    /\ kept' = IF excused = {} THEN kept ELSE Forgotten
    /\ UNCHANGED <<slots, sector, ram, request, work, excused, count>>

\* Config::FactoryReset: Format, then Mount
FactoryReset ==
    /\ pc = "idle"
    /\ resets < MaxResets
    /\ resets' = resets + 1
    /\ pc' = "formatErase"
    /\ remount' = TRUE
    /\ kept' = Forgotten
    /\ UNCHANGED <<slots, sector, ram, request, work, excused, saves, crashes, timeouts>>

\* the status of the erase is not looked at
FormatErase ==
    /\ pc = "formatErase"
    /\ \/ slots' = [i \in Slot |-> Erased] /\ UNCHANGED count
       \/ TimesOut /\ UNCHANGED slots
    /\ sectorsUsed' = {}
    /\ pc' = "formatWrite"
    /\ UNCHANGED <<sector, mounted, minAllocOffset, nextSequence, request, work, remount, kept, excused>>

\* the first page is read back: it must hold the root entry and nothing else.  When
\* it does not, the store stays mounted if it was, with the sector map just cleared.
FormatWrite ==
    /\ pc = "formatWrite"
    /\ \/ /\ slots' = [slots EXCEPT ![1] = IF @ \in {Erased, RootEntry} THEN RootEntry ELSE Cut(@)]
          /\ UNCHANGED count
       \/ TimesOut /\ UNCHANGED slots
    /\ IF \A i \in Slot : i <= PageSlots => slots'[i] = Formatted[i]
       THEN mounted' = TRUE /\ minAllocOffset' = DataSectors /\ nextSequence' = 1
       ELSE UNCHANGED <<mounted, minAllocOffset, nextSequence>>
    /\ excused' = IF slots' = Formatted THEN {}
                  ELSE IF remount THEN excused ELSE excused \cup {"unformatted"}
    /\ pc' = IF remount THEN "mount" ELSE "idle"
    /\ UNCHANGED <<sector, sectorsUsed, request, work, remount, kept>>

-----------------------------------------------------------------------------
(***************************************************************************)
(* OpenWrite.                                                              *)
(***************************************************************************)
OpenWrite(n, size) ==
    /\ pc = "idle" /\ mounted
    /\ saves < MaxSaves
    /\ saves' = saves + 1
    /\ request' = [name |-> n, maxSize |-> size, slot |-> Nobody]
    /\ pc' = "find"
    /\ UNCHANGED <<slots, sector, ram, work, remount, kept, excused, crashes, timeouts, resets>>

Finding(outcome, slot) ==
    /\ pc = "find"
    /\ pc' = outcome
    /\ request' = [request EXCEPT !.slot = slot]
    /\ UNCHANGED <<slots, sector, remount, excused, count>>

Present == Lookup(request.name)

\* an entry of the file, large enough
FindExisting ==
    /\ Present # Nobody
    /\ request.maxSize <= slots[Present].maxSize
    /\ Finding("data", Present)
    /\ UNCHANGED <<ram, work, kept>>

\* its block is too small: its entry will be overwritten, and another created
FindSmaller ==
    /\ Present # Nobody
    /\ request.maxSize > slots[Present].maxSize
    /\ Finding("replace", Present)
    /\ kept' = [kept EXCEPT ![request.name] = Absent]
    /\ UNCHANGED <<ram, work>>

\* a slot that a rebuild reclaimed has a sequence number, so it is taken for the
\* file's entry; its offset is all FF bytes and the first flush reads from it
FindReclaimed ==
    /\ Present = Nobody /\ FirstFree # Nobody
    /\ IsAssigned(slots[FirstFree])
    /\ Finding("fault", FirstFree)
    /\ UNCHANGED <<ram, work, kept>>

\* InitFileEntry's search: the first run of unused sectors, or else the sectors
\* below the low-water mark
Runs == {s \in Sectors :
            /\ minAllocOffset <= s
            /\ \A t \in s .. s + request.maxSize - 1 : t \in Sectors \ sectorsUsed}
RoomBelow_Unchecked == TRUE
RoomBelow == minAllocOffset >= request.maxSize
Allocation ==
    IF Runs # {} THEN CHOOSE s \in Runs : \A t \in Runs : s <= t
    ELSE minAllocOffset - request.maxSize

\* an erased slot: its sectors and sequence number are taken before the entry is
\* written
FindErased ==
    /\ Present = Nobody /\ FirstFree # Nobody
    /\ ~IsAssigned(slots[FirstFree])
    /\ Runs = {} => RoomBelow
    /\ Finding("create", FirstFree)
    /\ LET block == {s \in Sectors : Allocation <= s /\ s < Allocation + request.maxSize}
       IN  sectorsUsed' = sectorsUsed \cup block
    /\ minAllocOffset' = IF Runs = {} THEN Allocation ELSE minAllocOffset
    /\ nextSequence' = nextSequence + 1
    /\ copy' = [slots EXCEPT ![FirstFree] =
                    NewEntry(nextSequence, request.name, request.maxSize, Allocation)]
    /\ UNCHANGED <<mounted, scan, kept>>

\* InitFileEntry returns -1, which OpenWrite takes for success: it goes on with
\* the erased slot
FindNoRoom ==
    /\ Present = Nobody /\ FirstFree # Nobody
    /\ ~IsAssigned(slots[FirstFree])
    /\ Runs = {} /\ ~RoomBelow
    /\ Finding("fault", FirstFree)
    /\ UNCHANGED <<ram, work, kept>>

Reclaimable(i) == IsReplaced(slots[i]) \/ IsDeleted(slots[i])
NextReclaimable(from) == {i \in Slot : i >= from /\ Reclaimable(i)}

\* no slot: rebuild the directory, unless nothing can be reclaimed or there is no
\* memory for the copy.  What is reclaimed is found on the second pass.
FindFull ==
    /\ Present = Nobody /\ FirstFree = Nobody
    /\ \/ /\ NextReclaimable(1) # {}
          /\ LET i == CHOOSE i \in NextReclaimable(1) : \A j \in NextReclaimable(1) : i <= j
             IN  /\ copy' = [slots EXCEPT ![i] = Reclaimed(@)]
                 /\ sectorsUsed' = sectorsUsed \ BlockOf(slots[i])
                 /\ scan' = i
          /\ Finding("rebuildErase", Nobody)
       \/ Finding("idle", Nobody) /\ UNCHANGED <<work, sectorsUsed>>
    /\ UNCHANGED <<mounted, minAllocOffset, nextSequence, kept>>

Find == FindExisting \/ FindSmaller \/ FindReclaimed \/ FindErased \/ FindNoRoom \/ FindFull

Abandon == pc' = "idle" /\ request' = NoRequest

Replace ==
    /\ pc = "replace"
    /\ \/ /\ slots' = [slots EXCEPT ![request.slot] = Replaced(@)]
          /\ pc' = "find"
          /\ UNCHANGED <<request, count>>
       \/ TimesOut /\ Abandon /\ UNCHANGED slots
    /\ UNCHANGED <<sector, ram, work, remount, kept, excused>>

\* when the entry is not written the sequence number stays taken
Create ==
    /\ pc = "create"
    /\ \/ /\ slots' = [slots EXCEPT ![request.slot] = copy[request.slot]]
          /\ pc' = "data"
          /\ UNCHANGED <<request, excused, count>>
       \/ /\ TimesOut /\ Abandon /\ UNCHANGED slots
          /\ excused' = excused \cup {"skipped"}
    /\ UNCHANGED <<sector, ram, work, remount, kept>>

\* the save itself: see FlashFile
SaveData ==
    /\ pc = "data"
    /\ LET content == <<request.name, saves>>
       IN  /\ sector' = [s \in Sectors |->
                IF s \in BlockOf(slots[request.slot]) THEN content ELSE sector[s]]
           /\ kept' = [kept EXCEPT ![request.name] = content]
    /\ Abandon
    /\ UNCHANGED <<slots, ram, work, remount, excused, count>>

-----------------------------------------------------------------------------
(***************************************************************************)
(* RebuildCentralDirectory: from the first entry it reclaims on, the       *)
(* sector is erased and written after every entry.                         *)
(***************************************************************************)
RebuildErase ==
    /\ pc = "rebuildErase"
    /\ excused' = excused \cup {"rebuilt"}
    /\ \/ /\ slots' = [i \in Slot |-> Erased]
          /\ pc' = "rebuildWrite"
          /\ UNCHANGED <<request, count>>
       \/ TimesOut /\ Abandon /\ UNCHANGED slots
    /\ UNCHANGED <<sector, ram, work, remount, kept>>

ReclaimInCopy(i) ==
    IF IsReplaced(copy[i]) \/ IsDeleted(copy[i])
    THEN /\ copy' = [copy EXCEPT ![i] = Reclaimed(@)]
         /\ sectorsUsed' = sectorsUsed \ BlockOf(copy[i])
    ELSE UNCHANGED <<copy, sectorsUsed>>

RebuildWrite ==
    /\ pc = "rebuildWrite"
    /\ \/ /\ slots' = copy
          /\ IF scan = Slots
             THEN /\ pc' = "find"
                  /\ UNCHANGED <<copy, scan, sectorsUsed>>
             ELSE /\ pc' = "rebuildErase"
                  /\ scan' = scan + 1
                  /\ ReclaimInCopy(scan + 1)
          /\ UNCHANGED <<request, count>>
       \/ TimesOut /\ Abandon /\ UNCHANGED <<slots, work, sectorsUsed>>
    /\ UNCHANGED <<sector, mounted, minAllocOffset, nextSequence, remount, kept, excused>>

\* the first sector is erased, the entry stays
Remove(n) ==
    /\ pc = "idle" /\ mounted
    /\ Lookup(n) # Nobody
    /\ sector' = [sector EXCEPT ![slots[Lookup(n)].flashOffset] = Empty]
    /\ kept' = [kept EXCEPT ![n] = Absent]
    /\ UNCHANGED <<slots, ram, pc, request, work, remount, excused, count>>

-----------------------------------------------------------------------------
(***************************************************************************)
(* Crashes: a reset or a power loss.                                       *)
(***************************************************************************)
Restart ==
    /\ pc' = "mount"
    /\ mounted' = FALSE
    /\ sectorsUsed' = {}
    /\ minAllocOffset' = DataSectors
    /\ nextSequence' = 0
    /\ request' = NoRequest
    /\ copy' = [i \in Slot |-> Erased]
    /\ scan' = 1
    /\ remount' = FALSE

Crash == crashes < MaxCrashes /\ crashes' = crashes + 1 /\ Restart /\ UNCHANGED <<saves, timeouts, resets>>

CrashBetween ==
    /\ Crash
    /\ UNCHANGED <<slots, sector, kept, excused>>

\* an entry is cut off, or the erasing or writing of the whole sector is
Halfway ==
    CASE pc \in {"replace", "create"} ->
            {[slots EXCEPT ![request.slot] = Cut(IF pc = "create" THEN copy[request.slot] ELSE @)]}
      [] pc = "formatWrite"  -> {[slots EXCEPT ![1] = Cut(RootEntry)]}
      [] pc \in {"formatErase", "rebuildErase"} ->
            {[i \in Slot |-> IF i \in done THEN Erased ELSE slots[i]] : done \in SUBSET Slot}
      [] pc = "rebuildWrite" ->
            {[i \in Slot |-> IF i < k THEN copy[i] ELSE IF i = k THEN Cut(copy[i]) ELSE Erased]
                : k \in Slot}
      [] OTHER -> {}

CrashInDirectory ==
    /\ Crash
    /\ slots' \in Halfway
    /\ excused' = excused \cup {"cut"}
    /\ UNCHANGED <<sector, kept>>

CrashInFile ==
    /\ pc = "data"
    /\ Crash
    /\ sector' = [s \in Sectors |->
            IF s \in BlockOf(slots[request.slot]) THEN Wreck ELSE sector[s]]
    /\ kept' = [kept EXCEPT ![request.name] = Absent]
    /\ UNCHANGED <<slots, excused>>

\* the flush of a file without a block reads outside flash: the processor faults
Fault ==
    /\ pc = "fault"
    /\ Restart
    /\ UNCHANGED <<slots, sector, kept, excused, count>>

-----------------------------------------------------------------------------

Next ==
    \/ MountFinds \/ MountFormats \/ FactoryReset \/ FormatErase \/ FormatWrite
    \/ \E n \in Names, size \in MaxSizes : OpenWrite(n, size)
    \/ Find \/ Replace \/ Create \/ SaveData
    \/ RebuildErase \/ RebuildWrite
    \/ \E n \in Names : Remove(n)
    \/ CrashBetween \/ CrashInDirectory \/ CrashInFile \/ Fault

Spec == Init /\ [][Next]_vars

-----------------------------------------------------------------------------
(***************************************************************************)
(* Properties.                                                             *)
(***************************************************************************)
\* No two entries of the directory, replaced ones included, have a sector in
\* common, across mounts, moves and rebuilds (Mount, InitFileEntry, and
\* RebuildCentralDirectory keep sectorsUsed and minAllocOffset for that), unless a
\* write of the directory was cut off or the format of an unsound one failed since
\* the last format that succeeded.
BlocksDisjoint ==
    excused \cap {"cut", "unformatted"} = {} =>
        \A i, j \in Slot : i # j => BlockOf(slots[i]) \cap BlockOf(slots[j]) = {}

\* A name has one entry at most, so that readers and writers agree on the block.
NamesUnique ==
    \A i, j \in Slot :
        slots[i].filename \in Names /\ slots[i].filename = slots[j].filename => i = j

\* A file that was saved is found with that content, across restarts and whatever
\* happens to other files, unless a write of the directory was cut off or failed,
\* or the directory was rebuilt, since the last format that succeeded.
KeptReadable ==
    mounted /\ excused = {} => \A n \in Names : kept[n] # Absent => OpenRead(n) = kept[n]
=============================================================================
