------------------------ MODULE FlashDirectory_proofs ------------------------
(***************************************************************************)
(* Theorems about FlashDirectory, for every set of names and sizes, every  *)
(* size of the directory and of the store, and every number of saves,      *)
(* crashes, failed flash operations and factory resets.                    *)
(*                                                                         *)
(* The invariants come in three layers, each proved with those before it:  *)
(* what the entries and the operation under way look like (Basic), where   *)
(* the blocks lie (SpaceOK), and what the next mount finds (MountsOK and   *)
(* KeptOK).                                                                *)
(***************************************************************************)
EXTENDS FlashDirectory, FiniteSetTheorems, WellFoundedInduction, TLAPS

(***************************************************************************)
(* The first layer.                                                        *)
(***************************************************************************)
\* an entry that the program can have left in the directory
EntryOK(e) ==
    /\ e \in Entry
    /\ e.sequence = Unset => e = Erased
    /\ e.crc32 = "good" => e.filename \in Names \cup {Root}
    /\ e.filename \in Names \cup {Root, Zeros} => e.flashOffset # Unset /\ e.maxSize # Unset
    /\ e.filename \in Names => e.maxSize # 0 /\ e.flashOffset + e.maxSize <= DataSectors

Known(d) == d \in [Slot -> Entry] /\ \A i \in Slot : EntryOK(d[i])
Named(d) == \A i, j \in Slot : d[i].filename \in Names /\ d[i].filename = d[j].filename => i = j
Full(d)  == \A i \in Slot : d[i] # Erased

Rebuilding == {"rebuildErase", "rebuildWrite"}
Opening    == {"find", "replace", "create", "data", "fault"} \cup Rebuilding
Live       == Opening \cup {"idle"}
Formatting == {"formatErase", "formatWrite"}

\* the slot that is about to be filled, and the copy with the entry in it
Creates(d, c, r) ==
    /\ r.slot \in Slot
    /\ \A i \in Slot : d[i].filename # r.name
    /\ d[r.slot] = Erased
    /\ \A i \in Slot : i < r.slot => d[i] # Erased
    /\ \A i \in Slot : i # r.slot => c[i] = d[i]
    /\ c[r.slot].filename = r.name
    /\ c[r.slot].crc32 = "good"

\* the operation under way
PhaseOK ==
    /\ request \in [name : Names \cup {Blank}, maxSize : MaxSizes \cup {0}, slot : Slot \cup {Nobody}]
    /\ pc \in Opening => mounted /\ request.name \in Names /\ request.maxSize \in MaxSizes
    /\ pc \in {"replace", "data"} =>
          request.slot \in Slot /\ slots[request.slot].filename = request.name
    /\ pc = "create" => Creates(slots, copy, request)
    /\ pc \in Rebuilding => Full(copy) /\ Named(copy) /\ scan \in Slot
    /\ pc = "rebuildErase" => Full(slots)

Basic == TypeOK /\ Known(slots) /\ Known(copy) /\ Named(slots) /\ PhaseOK

-----------------------------------------------------------------------------
(***************************************************************************)
(* Lemmas on the constants and the entries.                                *)
(***************************************************************************)
\* A set of numbers has a least one.
LEMMA LeastExists ==
    ASSUME NEW S, S \subseteq Nat, S # {}
    PROVE  \E m \in S : \A n \in S : m <= n
<1> DEFINE R == {p \in Nat \X Nat : p[1] < p[2]}
<1>1. IsWellFoundedOn(R, Nat)
    BY NatLessThanWellFounded DEF OpToRel
<1>2. PICK m \in S : \A n \in S : <<n, m>> \notin R
  <2> HIDE DEF R
  <2> QED BY <1>1, WFMin
<1>3. \A n \in S : ~ (n < m)
    BY <1>2
<1> QED BY <1>2, <1>3

\* No file is called like the marks that the directory uses.
LEMMA NamesApart ==
    /\ Root \notin Names /\ Blank \notin Names /\ Zeros \notin Names /\ Torn \notin Names
    /\ Root # Blank /\ Root # Zeros /\ Root # Torn /\ Blank # Zeros /\ Blank # Torn /\ Zeros # Torn
BY DirectoryAssumption DEF Root, Blank, Zeros, Torn

\* Slots and sectors are numbers, and nobody's slot is none.
LEMMA SlotFacts ==
    /\ Slot \subseteq Nat /\ 1 \in Slot /\ Nobody \notin Slot /\ Sectors \subseteq Nat
    /\ MaxSizes \subseteq Nat \ {0}
    /\ Slots \in Nat /\ DataSectors \in Nat /\ Slots \in Slot
<1>1. Slots \in Nat \ {0} /\ DataSectors \in Nat
    BY DirectoryAssumption
<1>2. MaxSizes \subseteq Nat \ {0}
    BY DirectoryAssumption
<1>3. Slot \subseteq Nat /\ 1 \in Slot /\ Nobody \notin Slot /\ Slots \in Slot
    BY <1>1 DEF Slot, Nobody
<1>4. Sectors \subseteq Nat
    BY <1>1 DEF Sectors
<1> QED BY <1>1, <1>2, <1>3, <1>4

\* An erased entry is sound, has no block, and is neither named nor good.
LEMMA ErasedFacts ==
    /\ EntryOK(Erased) /\ BlockOf(Erased) = {}
    /\ Erased.filename = Blank /\ Erased.crc32 = "ff" /\ Erased.sequence = Unset
<1>1. /\ Erased.filename = Blank /\ Erased.crc32 = "ff" /\ Erased.sequence = Unset
      /\ Erased.maxSize = Unset /\ Erased.flashOffset = Unset
    BY DEF Erased
<1>2. BlockOf(Erased) = {}
  <2>1. \A s \in Sectors : ~ (Unset <= s /\ s < Unset + Unset)
      BY SlotFacts DEF Unset
  <2> QED BY <1>1, <2>1 DEF BlockOf
<1>3. Erased \in Entry
    BY DEF Erased, Entry, Unset
<1>4. EntryOK(Erased)
    BY <1>1, <1>3, NamesApart DEF EntryOK
<1> QED BY <1>1, <1>2, <1>4

\* So is the root entry, which is good.
LEMMA RootFacts ==
    /\ EntryOK(RootEntry) /\ BlockOf(RootEntry) = {} /\ RootEntry # Erased
    /\ RootEntry.filename = Root /\ RootEntry.crc32 = "good" /\ RootEntry.sequence = 0
<1>1. /\ RootEntry.filename = Root /\ RootEntry.crc32 = "good" /\ RootEntry.sequence = 0
      /\ RootEntry.maxSize = 0 /\ RootEntry.flashOffset = DataSectors
    BY DEF RootEntry
<1>2. BlockOf(RootEntry) = {}
  <2>1. \A s \in Sectors : ~ (DataSectors <= s /\ s < DataSectors + 0)
      BY SlotFacts
  <2> QED BY <1>1, <2>1 DEF BlockOf
<1>3. RootEntry \in Entry
    BY SlotFacts DEF RootEntry, Entry, Unset
<1>4. EntryOK(RootEntry)
    BY <1>1, <1>3, NamesApart, SlotFacts DEF EntryOK, Unset
<1>5. RootEntry # Erased
    BY <1>1, ErasedFacts, NamesApart
<1> QED BY <1>1, <1>2, <1>4, <1>5

\* The new entry of a file holds its name and its block.
LEMMA NewFacts ==
    ASSUME NEW seq \in Nat, NEW n \in Names, NEW size \in MaxSizes, NEW at \in Nat,
           at + size <= DataSectors, NEW e, e = NewEntry(seq, n, size, at)
    PROVE  /\ EntryOK(e) /\ e # Erased
           /\ e.filename = n /\ e.crc32 = "good" /\ e.sequence = seq
           /\ e.flashOffset = at /\ e.maxSize = size
<1>1. /\ e.filename = n /\ e.crc32 = "good" /\ e.sequence = seq
      /\ e.flashOffset = at /\ e.maxSize = size
    BY DEF NewEntry
<1>2. e \in Entry
    BY SlotFacts DEF NewEntry, Entry, Unset
<1>3. EntryOK(e)
    BY <1>1, <1>2, NamesApart, SlotFacts DEF EntryOK, Unset
<1> QED BY <1>1, <1>3, ErasedFacts, NamesApart

\* A replaced entry keeps its block and its number.
LEMMA ReplacedFacts ==
    ASSUME NEW e, EntryOK(e), e.filename \in Names, NEW f, f = Replaced(e)
    PROVE  /\ EntryOK(f) /\ f # Erased /\ BlockOf(f) = BlockOf(e)
           /\ f.filename = Zeros /\ f.sequence = e.sequence
<1>1. e \in Entry
    BY DEF EntryOK
<1>2. /\ f.filename = Zeros /\ f.crc32 = "bad" /\ f.sequence = e.sequence
      /\ f.flashOffset = e.flashOffset /\ f.maxSize = e.maxSize
    BY <1>1 DEF Replaced, Entry
<1>3. f \in Entry
    BY <1>1 DEF Replaced, Entry
<1>4. e.sequence # Unset
    BY ErasedFacts, NamesApart DEF EntryOK
<1>5. EntryOK(f)
    BY <1>2, <1>3, <1>4, NamesApart DEF EntryOK
<1> QED BY <1>2, <1>5, ErasedFacts, NamesApart DEF BlockOf

\* An entry whose writing was cut off has no name.
LEMMA CutFacts ==
    ASSUME NEW e, EntryOK(e), e # Erased, NEW f, f = Cut(e)
    PROVE  EntryOK(f) /\ f # Erased /\ f.filename = Torn
<1>1. e \in Entry
    BY DEF EntryOK
<1>2. f.filename = Torn /\ f.crc32 = "bad" /\ f.sequence = e.sequence
    BY <1>1 DEF Cut, Entry
<1>3. f \in Entry
    BY <1>1 DEF Cut, Entry
<1>4. e.sequence # Unset
    BY DEF EntryOK
<1>5. EntryOK(f)
    BY <1>2, <1>3, <1>4, NamesApart DEF EntryOK
<1> QED BY <1>2, <1>5, ErasedFacts, NamesApart

\* An entry that was reclaimed keeps its number, and has neither name nor block.
LEMMA ReclaimedFacts ==
    ASSUME NEW e, EntryOK(e), e # Erased, NEW f, f = Reclaimed(e)
    PROVE  EntryOK(f) /\ f # Erased /\ f.filename = Blank /\ BlockOf(f) = {}
<1>1. e \in Entry
    BY DEF EntryOK
<1>2. /\ f.filename = Blank /\ f.crc32 = "ff" /\ f.sequence = e.sequence
      /\ f.flashOffset = Unset /\ f.maxSize = Unset
    BY <1>1 DEF Reclaimed, Entry, Erased
<1>3. f \in Entry
    BY <1>1 DEF Reclaimed, Entry, Erased, Unset
<1>4. e.sequence # Unset
    BY DEF EntryOK
<1>5. EntryOK(f)
    BY <1>2, <1>3, <1>4, NamesApart DEF EntryOK
<1>6. BlockOf(f) = {}
  <2>1. \A s \in Sectors : ~ (Unset <= s /\ s < Unset + Unset)
      BY SlotFacts DEF Unset
  <2> QED BY <1>2, <2>1 DEF BlockOf
<1> QED BY <1>2, <1>4, <1>5, <1>6, ErasedFacts

(***************************************************************************)
(* Lemmas on directories.                                                  *)
(***************************************************************************)
\* Writing a sound entry keeps a directory sound.
LEMMA KnownUpdate ==
    ASSUME NEW d, Known(d), NEW k \in Slot, NEW e, EntryOK(e)
    PROVE  Known([d EXCEPT ![k] = e])
<1>1. e \in Entry
    BY DEF EntryOK
<1> QED BY <1>1 DEF Known

\* Names stay unique when an entry is written that has no name or a new one.
LEMMA NamedUpdate ==
    ASSUME NEW d, Known(d), Named(d), NEW k \in Slot, NEW e,
           e.filename \in Names => \A i \in Slot : i # k => d[i].filename # e.filename
    PROVE  Named([d EXCEPT ![k] = e])
<1> DEFINE f == [d EXCEPT ![k] = e]
<1>1. \A i \in Slot : f[i] = IF i = k THEN e ELSE d[i]
    BY DEF Known
<1> HIDE DEF f
<1>2. Named(f)
  <2> SUFFICES ASSUME NEW i \in Slot, NEW j \in Slot, f[i].filename \in Names,
                      f[i].filename = f[j].filename
               PROVE  i = j
      BY DEF Named
  <2> QED BY <1>1 DEF Named
<1> QED BY <1>2 DEF f

\* The erased directory is sound.
LEMMA ErasedDirectory ==
    ASSUME NEW d, d = [i \in Slot |-> Erased]
    PROVE  Known(d) /\ Named(d) /\ \A i \in Slot : d[i] = Erased
<1>1. Erased \in Entry
    BY ErasedFacts DEF EntryOK
<1> QED BY <1>1, ErasedFacts, NamesApart DEF Known, Named

\* A lookup finds an entry of that name, if there is one.
LEMMA LookupFacts ==
    ASSUME NEW n
    PROVE  \/ Lookup(n) = Nobody /\ \A i \in Slot : slots[i].filename # n
           \/ Lookup(n) \in Slot /\ slots[Lookup(n)].filename = n
<1> DEFINE found == {i \in Slot : slots[i].filename = n}
<1>1. found # {} => \E m \in found : \A j \in found : m <= j
    BY LeastExists, SlotFacts
<1> QED BY <1>1 DEF Lookup

\* What FirstFree finds is free, and nothing before it.
LEMMA FirstFreeFacts ==
    \/ FirstFree = Nobody /\ \A i \in Slot : ~ IsFree(slots[i])
    \/ /\ FirstFree \in Slot /\ IsFree(slots[FirstFree])
       /\ \A j \in Slot : j < FirstFree => ~ IsFree(slots[j])
<1> DEFINE free == {i \in Slot : IsFree(slots[i])}
<1>1. free # {} => \E m \in free : \A j \in free : m <= j
    BY LeastExists, SlotFacts
<1>2. \/ FirstFree = Nobody /\ free = {}
      \/ FirstFree \in free /\ \A j \in free : FirstFree <= j
    BY <1>1 DEF FirstFree
<1>3. \A j \in Slot : FirstFree \in Slot /\ j < FirstFree => ~ (FirstFree <= j)
    BY SlotFacts
<1> QED BY <1>2, <1>3

\* An erased entry is free, and a free one without a number is erased.
LEMMA FreeFacts ==
    ASSUME NEW e, EntryOK(e)
    PROVE  /\ e = Erased => IsFree(e)
           /\ IsFree(e) /\ ~ IsAssigned(e) => e = Erased
<1>1. Erased = [Erased EXCEPT !.sequence = Erased.sequence]
    BY DEF Erased
<1> QED BY <1>1 DEF IsFree, IsAssigned, EntryOK

\* The sectors that InitFileEntry finds are in range; they are unused, or below
\* the low-water mark.
LEMMA AllocationFacts ==
    ASSUME request.maxSize \in MaxSizes, minAllocOffset \in 0 .. DataSectors,
           Runs = {} => RoomBelow
    PROVE  /\ Allocation \in Nat /\ Allocation + request.maxSize <= DataSectors
           /\ Runs # {} => /\ minAllocOffset <= Allocation
                           /\ \A s \in Sectors :
                                  Allocation <= s /\ s < Allocation + request.maxSize
                                      => s \notin sectorsUsed
           /\ Runs = {} => Allocation = minAllocOffset - request.maxSize
<1>1. request.maxSize \in Nat \ {0} /\ DataSectors \in Nat /\ minAllocOffset \in Nat
      /\ minAllocOffset <= DataSectors
  <2>1. request.maxSize \in Nat \ {0}
      BY SlotFacts
  <2>2. DataSectors \in Nat
      BY SlotFacts
  <2> QED BY <2>1, <2>2
<1>2. CASE Runs = {}
  <2>1. Allocation = minAllocOffset - request.maxSize
      BY <1>2 DEF Allocation
  <2>2. minAllocOffset >= request.maxSize
      BY <1>2 DEF RoomBelow
  <2> QED BY <1>1, <1>2, <2>1, <2>2
<1>3. CASE Runs # {}
  <2>1. Runs \subseteq Sectors /\ Runs \subseteq Nat
      BY SlotFacts DEF Runs
  <2>2. \E m \in Runs : \A t \in Runs : m <= t
      BY <1>3, <2>1, LeastExists
  <2>3. Allocation \in Runs
      BY <1>3, <2>2 DEF Allocation
  <2> DEFINE a == Allocation
  <2>4. /\ a \in Sectors /\ minAllocOffset <= a
        /\ \A t \in a .. a + request.maxSize - 1 : t \in Sectors \ sectorsUsed
      BY <2>3 DEF Runs
  <2> HIDE DEF a
  <2>5. a \in Nat
      BY <2>4, SlotFacts
  <2>6. a + request.maxSize - 1 \in Sectors
      BY <1>1, <2>4, <2>5
  <2>7. a + request.maxSize <= DataSectors
      BY <1>1, <2>5, <2>6 DEF Sectors
  <2>8. ASSUME NEW s \in Sectors, a <= s, s < a + request.maxSize
        PROVE  s \notin sectorsUsed
    <3>1. s \in a .. a + request.maxSize - 1
        BY <1>1, <2>5, <2>8, SlotFacts
    <3> QED BY <2>4, <3>1
  <2>9. /\ a \in Nat /\ a + request.maxSize <= DataSectors /\ minAllocOffset <= a
        /\ \A s \in Sectors : a <= s /\ s < a + request.maxSize => s \notin sectorsUsed
      BY <2>4, <2>5, <2>7, <2>8
  <2> QED BY <1>3, <2>9 DEF a
<1> QED BY <1>2, <1>3

-----------------------------------------------------------------------------
(***************************************************************************)
(* The first layer, action by action.                                      *)
(***************************************************************************)
\* It holds at first.
LEMMA InitBasic == Init => Basic
<1> SUFFICES ASSUME Init PROVE Basic
    OBVIOUS
<1>1. Known(slots) /\ Named(slots) /\ Known(copy)
    BY ErasedDirectory DEF Init
<1>2. PhaseOK
    BY DEF Init, PhaseOK, NoRequest, Opening, Rebuilding
<1>3. TypeOK
  <2>1. minAllocOffset \in 0 .. DataSectors /\ scan \in Slot \cup {Slots + 1}
      BY SlotFacts DEF Init
  <2>2. slots \in [Slot -> Entry] /\ copy \in [Slot -> Entry]
      BY <1>1 DEF Known
  <2>3. DOMAIN sector = Sectors /\ excused \subseteq Excuses /\ sectorsUsed \subseteq Sectors
      BY DEF Init
  <2>4. mounted \in BOOLEAN /\ nextSequence \in Nat /\ remount \in BOOLEAN
      BY DEF Init
  <2>5. pc \in Phases /\ request.slot \in Slot \cup {Nobody}
      BY DEF Init, NoRequest, Phases
  <2> QED BY <2>1, <2>2, <2>3, <2>4, <2>5 DEF TypeOK
<1> QED BY <1>1, <1>2, <1>3 DEF Basic

\* An operation that is over, or has not begun, is sound.
LEMMA PhaseRest ==
    ASSUME NEW r, r \in [name : Names \cup {Blank}, maxSize : MaxSizes \cup {0}, slot : Slot \cup {Nobody}],
           request' = r, pc' \in Phases \ Opening
    PROVE  PhaseOK'
BY DEF PhaseOK, Opening, Rebuilding

\* No request is one of the values of request.
LEMMA NoRequestFacts ==
    NoRequest \in [name : Names \cup {Blank}, maxSize : MaxSizes \cup {0}, slot : Slot \cup {Nobody}]
BY DEF NoRequest

\* The entries that a mount has scanned are finitely many, and their lowest offset
\* is in range.
LEMMA LowWaterFacts ==
    ASSUME Known(slots), \A i \in Scanned : Sound(i)
    PROVE  /\ LowWater \in 0 .. DataSectors
           /\ \A i \in Scanned : LowWater <= slots[i].flashOffset
<1> DEFINE offsets == {DataSectors} \cup {slots[i].flashOffset : i \in Scanned}
<1>1. \A i \in Scanned : slots[i].flashOffset \in 0 .. DataSectors
  <2> SUFFICES ASSUME NEW i \in Scanned PROVE slots[i].flashOffset \in 0 .. DataSectors
      OBVIOUS
  <2>1. i \in Slot /\ Sound(i)
      BY DEF Scanned
  <2> DEFINE e == slots[i]
  <2>2. EntryOK(e)
      BY <2>1 DEF Known
  <2>3. e.filename = Zeros \/ e.crc32 = "good"
      BY <2>1 DEF Sound, IsReplaced
  <2> HIDE DEF e
  <2>4. e.flashOffset \in 0 .. DataSectors
      BY <2>2, <2>3 DEF EntryOK, Entry
  <2> QED BY <2>4 DEF e
<1>2. offsets \subseteq 0 .. DataSectors
    BY <1>1, SlotFacts
<1>3. \E a \in offsets : \A b \in offsets : a <= b
  <2>1. offsets \subseteq Nat /\ offsets # {}
      BY <1>2
  <2> HIDE DEF offsets
  <2> QED BY <2>1, LeastExists
<1>4. LowWater \in offsets /\ \A b \in offsets : LowWater <= b
    BY <1>3 DEF LowWater
<1> QED BY <1>2, <1>4

\* A mount scans finitely many entries.
LEMMA ScannedFinite == Cardinality(Scanned) \in Nat
<1>1. IsFiniteSet(1 .. Slots)
    BY SlotFacts, FS_Interval
<1>2. IsFiniteSet(Scanned)
    BY <1>1, FS_Subset DEF Scanned, Slot
<1> QED BY <1>2, FS_CardinalityType

\* A mount keeps Basic.
LEMMA MountBasic == Basic /\ (MountFinds \/ MountFormats) => Basic'
<1> SUFFICES ASSUME Basic, MountFinds \/ MountFormats PROVE Basic'
    OBVIOUS
<1> USE DEF Basic
<1>1. request' = request /\ pc' \in {"idle", "formatErase"} /\ slots' = slots /\ copy' = copy
    BY DEF MountFinds, MountFormats, work, ram
<1>2. PhaseOK'
    BY <1>1, PhaseRest DEF PhaseOK, Phases, Opening, Rebuilding
<1>3. TypeOK'
  <2>1. CASE MountFinds
    <3>1. sectorsUsed' \subseteq Sectors
        BY <2>1 DEF MountFinds, BlockOf
    <3>2. minAllocOffset' \in 0 .. DataSectors /\ nextSequence' \in Nat
        BY <2>1, LowWaterFacts, ScannedFinite DEF MountFinds
    <3> QED BY <1>1, <2>1, <3>1, <3>2 DEF TypeOK, MountFinds, work, Phases
  <2>2. CASE MountFormats
      BY <1>1, <2>2 DEF TypeOK, MountFormats, work, ram, Phases
  <2> QED BY <2>1, <2>2
<1> QED BY <1>1, <1>2, <1>3

\* So does the start of a factory reset,
LEMMA ResetBasic == Basic /\ FactoryReset => Basic'
<1> SUFFICES ASSUME Basic, FactoryReset PROVE Basic'
    OBVIOUS
<1> USE DEF Basic
<1>1. request' = request /\ pc' = "formatErase" /\ slots' = slots /\ copy' = copy
    BY DEF FactoryReset, work
<1>2. PhaseOK'
    BY <1>1, PhaseRest DEF PhaseOK, Phases, Opening, Rebuilding
<1>3. TypeOK'
    BY <1>1 DEF TypeOK, FactoryReset, work, ram, Phases
<1> QED BY <1>1, <1>2, <1>3

\* the erasing of the directory,
LEMMA FormatEraseBasic == Basic /\ FormatErase => Basic'
<1> SUFFICES ASSUME Basic, FormatErase PROVE Basic'
    OBVIOUS
<1> USE DEF Basic
<1>1. request' = request /\ pc' = "formatWrite" /\ copy' = copy
    BY DEF FormatErase, work
<1>2. PhaseOK'
    BY <1>1, PhaseRest DEF PhaseOK, Phases, Opening, Rebuilding
<1>3. Known(slots)' /\ Named(slots)'
    BY ErasedDirectory DEF FormatErase
<1>4. TypeOK'
    BY <1>1, <1>3 DEF TypeOK, FormatErase, work, Phases, Known
<1> QED BY <1>1, <1>2, <1>3, <1>4

\* the writing of its root entry,
LEMMA FormatWriteBasic == Basic /\ FormatWrite => Basic'
<1> SUFFICES ASSUME Basic, FormatWrite PROVE Basic'
    OBVIOUS
<1> USE DEF Basic
<1>1. request' = request /\ pc' \in {"mount", "idle"} /\ copy' = copy
    BY DEF FormatWrite, work
<1>2. PhaseOK'
    BY <1>1, PhaseRest DEF PhaseOK, Phases, Opening, Rebuilding
<1>3. Known(slots)' /\ Named(slots)'
  <2>1. CASE slots' = slots
      BY <2>1
  <2>2. CASE slots' # slots
    <3>1. 1 \in Slot /\ EntryOK(slots[1])
        BY SlotFacts DEF Known
    <3>2. PICK e : /\ slots' = [slots EXCEPT ![1] = e]
                   /\ e = IF slots[1] \in {Erased, RootEntry} THEN RootEntry ELSE Cut(slots[1])
        BY <2>2 DEF FormatWrite
    <3>3. EntryOK(e) /\ e.filename \notin Names
        BY <3>1, <3>2, CutFacts, RootFacts, NamesApart
    <3> QED BY <3>1, <3>2, <3>3, KnownUpdate, NamedUpdate
  <2> QED BY <2>1, <2>2
<1>4. TypeOK'
  <2>1. minAllocOffset' \in 0 .. DataSectors /\ nextSequence' \in Nat /\ mounted' \in BOOLEAN
    <3>1. \/ mounted' = TRUE /\ minAllocOffset' = DataSectors /\ nextSequence' = 1
          \/ UNCHANGED <<mounted, minAllocOffset, nextSequence>>
        BY DEF FormatWrite
    <3>2. DataSectors \in 0 .. DataSectors
        BY SlotFacts
    <3>3. CASE UNCHANGED <<mounted, minAllocOffset, nextSequence>>
        BY <3>3 DEF TypeOK
    <3>4. CASE mounted' = TRUE /\ minAllocOffset' = DataSectors /\ nextSequence' = 1
      <4>1. minAllocOffset' \in 0 .. DataSectors /\ nextSequence' \in Nat
          BY <3>2, <3>4
      <4> QED BY <3>4, <4>1
    <3> QED BY <3>1, <3>3, <3>4
  <2>2. excused' \subseteq Excuses
      BY DEF FormatWrite, TypeOK, Excuses
  <2> QED BY <1>1, <1>3, <2>1, <2>2 DEF TypeOK, FormatWrite, work, Phases, Known
<1> QED BY <1>1, <1>2, <1>3, <1>4

\* the start of a save,
LEMMA OpenBasic ==
    ASSUME Basic, NEW n \in Names, NEW size \in MaxSizes, OpenWrite(n, size) PROVE Basic'
<1> USE DEF Basic
<1>1. slots' = slots /\ copy' = copy /\ pc' = "find" /\ mounted' = mounted /\ mounted
      /\ request' = [name |-> n, maxSize |-> size, slot |-> Nobody]
    BY DEF OpenWrite, work, ram
<1>2. PhaseOK'
    BY <1>1 DEF PhaseOK, Opening, Rebuilding
<1>3. TypeOK'
    BY <1>1 DEF TypeOK, OpenWrite, work, ram, Phases
<1> QED BY <1>1, <1>2, <1>3

\* the choice of an entry,
LEMMA FindBasic == Basic /\ Find => Basic'
<1> SUFFICES ASSUME Basic, Find PROVE Basic'
    OBVIOUS
<1> USE DEF Basic
<1>1. PICK o, k : Finding(o, k)
    BY DEF Find, FindExisting, FindSmaller, FindReclaimed, FindErased, FindNoRoom, FindFull
<1>2. /\ pc = "find" /\ pc' = o /\ slots' = slots /\ mounted' = mounted
      /\ sector' = sector /\ remount' = remount /\ excused' = excused /\ count' = count
    BY <1>1 DEF Finding, Find, FindExisting, FindSmaller, FindReclaimed, FindErased, FindNoRoom,
                FindFull, ram
<1>3. request \in [name : Names \cup {Blank}, maxSize : MaxSizes \cup {0}, slot : Slot \cup {Nobody}]
      /\ request.name \in Names /\ request.maxSize \in MaxSizes /\ mounted
    BY <1>2 DEF PhaseOK, Opening
<1>4. \A s \in Slot \cup {Nobody} :
          Finding(pc', s) =>
              /\ request'.name = request.name /\ request'.maxSize = request.maxSize
              /\ request'.slot = s
              /\ request' \in [name : Names \cup {Blank}, maxSize : MaxSizes \cup {0}, slot : Slot \cup {Nobody}]
    BY <1>3 DEF Finding
<1>5. \A s : Finding(pc', s) \in BOOLEAN
    BY DEF Finding
<1>6. CASE FindExisting
  <2>1. Present \in Slot /\ slots[Present].filename = request.name /\ Finding("data", Present)
      BY <1>6, LookupFacts DEF FindExisting, Present
  <2>2. pc' = "data" /\ Finding(pc', Present)
      BY <2>1 DEF Finding
  <2>3. PhaseOK'
      BY <1>2, <1>3, <1>4, <2>1, <2>2 DEF PhaseOK, Opening, Rebuilding
  <2>4. TypeOK' /\ copy' = copy
      BY <1>2, <1>4, <1>6, <2>1, <2>2 DEF TypeOK, FindExisting, ram, work, Phases
  <2> QED BY <1>2, <2>3, <2>4
<1>7. CASE FindSmaller
  <2>1. Present \in Slot /\ slots[Present].filename = request.name /\ Finding("replace", Present)
      BY <1>7, LookupFacts DEF FindSmaller, Present
  <2>2. pc' = "replace" /\ Finding(pc', Present)
      BY <2>1 DEF Finding
  <2>3. PhaseOK'
      BY <1>2, <1>3, <1>4, <2>1, <2>2 DEF PhaseOK, Opening, Rebuilding
  <2>4. TypeOK' /\ copy' = copy
      BY <1>2, <1>4, <1>7, <2>1, <2>2 DEF TypeOK, FindSmaller, ram, work, Phases
  <2> QED BY <1>2, <2>3, <2>4
<1>8. CASE FindReclaimed \/ FindNoRoom
  <2>1. FirstFree \in Slot /\ Finding("fault", FirstFree) /\ UNCHANGED <<ram, work>>
      BY <1>8, FirstFreeFacts DEF FindReclaimed, FindNoRoom
  <2>2. pc' = "fault" /\ Finding(pc', FirstFree)
      BY <2>1 DEF Finding
  <2>3. PhaseOK'
      BY <1>2, <1>3, <1>4, <2>1, <2>2 DEF PhaseOK, Opening, Rebuilding
  <2>4. TypeOK' /\ copy' = copy
      BY <1>2, <1>4, <2>1, <2>2 DEF TypeOK, ram, work, Phases
  <2> QED BY <1>2, <2>3, <2>4
<1>9. CASE FindErased
  <2>1. FirstFree \in Slot /\ Finding("create", FirstFree) /\ slots[FirstFree] = Erased
    <3>1. FirstFree \in Slot /\ IsFree(slots[FirstFree]) /\ ~ IsAssigned(slots[FirstFree])
        BY <1>9, FirstFreeFacts DEF FindErased
    <3> QED BY <1>9, <3>1, FreeFacts DEF FindErased, Known
  <2>2. pc' = "create" /\ Finding(pc', FirstFree)
      BY <2>1 DEF Finding
  <2>3. /\ Allocation \in Nat /\ Allocation + request.maxSize <= DataSectors
        /\ Runs = {} => Allocation = minAllocOffset - request.maxSize
      BY <1>3, <1>9, AllocationFacts DEF FindErased, TypeOK
  <2>4. PICK e : /\ copy' = [slots EXCEPT ![FirstFree] = e]
                 /\ e = NewEntry(nextSequence, request.name, request.maxSize, Allocation)
      BY <1>9 DEF FindErased
  <2>5. EntryOK(e) /\ e # Erased /\ e.filename = request.name /\ e.crc32 = "good"
      BY <1>3, <2>3, <2>4, NewFacts DEF TypeOK
  <2>6. Known(copy)'
      BY <2>1, <2>4, <2>5, KnownUpdate
  <2>7. /\ copy'[FirstFree] = e
        /\ \A i \in Slot : i # FirstFree => copy'[i] = slots[i]
      BY <2>1, <2>4 DEF Known
  <2>8. \A i \in Slot : slots[i].filename # request.name
      BY <1>9, LookupFacts, SlotFacts DEF FindErased, Present
  <2>9. \A i \in Slot : i < FirstFree => slots[i] # Erased
    <3>1. \A i \in Slot : i < FirstFree => ~ IsFree(slots[i])
        BY <2>1, FirstFreeFacts, SlotFacts
    <3> QED BY <3>1, FreeFacts DEF Known
  <2>10. Creates(slots', copy', request')
      BY <1>2, <1>4, <2>1, <2>2, <2>5, <2>7, <2>8, <2>9 DEF Creates
  <2>11. PhaseOK'
      BY <1>2, <1>3, <1>4, <2>1, <2>2, <2>10 DEF PhaseOK, Opening, Rebuilding
  <2>12. TypeOK'
    <3>1. minAllocOffset' \in 0 .. DataSectors
      <4>1. minAllocOffset' = Allocation \/ minAllocOffset' = minAllocOffset
          BY <1>9 DEF FindErased
      <4>2. Allocation \in 0 .. DataSectors
        <5>1. request.maxSize \in Nat
            BY <1>3, SlotFacts
        <5>2. DataSectors \in Nat
            BY SlotFacts
        <5> QED BY <2>3, <5>1, <5>2
      <4> QED BY <4>1, <4>2 DEF TypeOK
    <3>2. sectorsUsed' \subseteq Sectors /\ nextSequence' \in Nat /\ scan' = scan
        BY <1>9 DEF FindErased, TypeOK
    <3> QED BY <1>2, <1>4, <2>1, <2>2, <2>6, <3>1, <3>2 DEF TypeOK, Phases, Known
  <2> QED BY <1>2, <2>6, <2>11, <2>12
<1>10. CASE FindFull
  <2>1. Full(slots)
    <3>1. \A i \in Slot : ~ IsFree(slots[i])
        BY <1>10, FirstFreeFacts, SlotFacts DEF FindFull
    <3> QED BY <3>1, FreeFacts DEF Known, Full
  <2>2. Finding(pc', Nobody) /\ UNCHANGED <<mounted, minAllocOffset, nextSequence>>
      BY <1>10 DEF FindFull, Finding
  <2>3. CASE pc' = "idle"
    <3>1. UNCHANGED <<copy, scan, sectorsUsed>>
        BY <1>10, <2>3 DEF FindFull, Finding, work
    <3>2. PhaseOK'
        BY <1>2, <1>3, <1>4, <2>2, <2>3 DEF PhaseOK, Opening, Rebuilding
    <3>3. TypeOK'
        BY <1>2, <1>4, <2>2, <2>3, <3>1 DEF TypeOK, Phases
    <3> QED BY <1>2, <3>1, <3>2, <3>3
  <2>4. CASE pc' # "idle"
    <3>1. /\ pc' = "rebuildErase" /\ NextReclaimable(1) # {}
          /\ LET i == CHOOSE i \in NextReclaimable(1) : \A j \in NextReclaimable(1) : i <= j
             IN  /\ copy' = [slots EXCEPT ![i] = Reclaimed(@)]
                 /\ sectorsUsed' = sectorsUsed \ BlockOf(slots[i])
                 /\ scan' = i
        BY <1>10, <2>4 DEF FindFull, Finding
    <3>2. PICK m \in NextReclaimable(1) : \A j \in NextReclaimable(1) : m <= j
      <4>1. NextReclaimable(1) \subseteq Nat
          BY SlotFacts DEF NextReclaimable
      <4> QED BY <3>1, <4>1, LeastExists
    <3>3. PICK i \in NextReclaimable(1) :
              /\ copy' = [slots EXCEPT ![i] = Reclaimed(slots[i])]
              /\ sectorsUsed' = sectorsUsed \ BlockOf(slots[i])
              /\ scan' = i
        BY <3>1, <3>2
    <3>4. i \in Slot /\ EntryOK(slots[i]) /\ slots[i] # Erased
        BY <2>1 DEF NextReclaimable, Known, Full
    <3>5. PICK e : e = Reclaimed(slots[i]) /\ copy' = [slots EXCEPT ![i] = e]
        BY <3>3
    <3>6. EntryOK(e) /\ e # Erased /\ e.filename \notin Names
        BY <3>4, <3>5, ReclaimedFacts, NamesApart
    <3>7. Known(copy)' /\ Named(copy)'
        BY <3>4, <3>5, <3>6, KnownUpdate, NamedUpdate
    <3>8. Full(copy)'
        BY <2>1, <3>4, <3>5, <3>6 DEF Full, Known
    <3>9. PhaseOK'
      <4>1. scan' \in Slot /\ pc' = "rebuildErase"
          BY <3>1, <3>3, <3>4
      <4>2. Full(slots')
          BY <1>2, <2>1
      <4>3. /\ request'.name = request.name /\ request'.maxSize = request.maxSize
            /\ request' \in [name : Names \cup {Blank}, maxSize : MaxSizes \cup {0}, slot : Slot \cup {Nobody}]
          BY <1>4, <2>2
      <4> QED BY <1>2, <1>3, <3>7, <3>8, <4>1, <4>2, <4>3 DEF PhaseOK, Opening, Rebuilding
    <3>10. TypeOK'
        BY <1>2, <1>4, <2>2, <3>1, <3>3, <3>4, <3>7 DEF TypeOK, Phases, Known
    <3> QED BY <1>2, <3>7, <3>9, <3>10
  <2> QED BY <2>3, <2>4
<1> QED BY <1>6, <1>7, <1>8, <1>9, <1>10 DEF Find

\* the marking of the entry that is replaced,
LEMMA ReplaceBasic == Basic /\ Replace => Basic'
<1> SUFFICES ASSUME Basic, Replace PROVE Basic'
    OBVIOUS
<1> USE DEF Basic
<1>1. /\ pc = "replace" /\ copy' = copy /\ scan' = scan /\ UNCHANGED ram
      /\ sector' = sector /\ remount' = remount /\ excused' = excused
    BY DEF Replace, work
<1>2. /\ mounted /\ request.name \in Names /\ request.maxSize \in MaxSizes
      /\ request.slot \in Slot /\ slots[request.slot].filename = request.name
      /\ request \in [name : Names \cup {Blank}, maxSize : MaxSizes \cup {0}, slot : Slot \cup {Nobody}]
    BY <1>1 DEF PhaseOK, Opening
<1>3. CASE slots' = [slots EXCEPT ![request.slot] = Replaced(@)] /\ pc' = "find" /\ request' = request
  <2>1. PICK e : e = Replaced(slots[request.slot]) /\ slots' = [slots EXCEPT ![request.slot] = e]
      BY <1>3
  <2>2. EntryOK(e) /\ e.filename = Zeros
      BY <1>2, <2>1, ReplacedFacts DEF Known
  <2>3. Known(slots)' /\ Named(slots)'
      BY <1>2, <2>1, <2>2, KnownUpdate, NamedUpdate, NamesApart
  <2>4. PhaseOK'
      BY <1>1, <1>2, <1>3 DEF PhaseOK, Opening, Rebuilding, ram
  <2>5. TypeOK'
      BY <1>1, <1>3, <2>3 DEF TypeOK, ram, Phases, Known
  <2> QED BY <1>1, <2>3, <2>4, <2>5
<1>4. CASE slots' = slots /\ Abandon
  <2>1. pc' = "idle" /\ request' = NoRequest
      BY <1>4 DEF Abandon
  <2>2. PhaseOK'
      BY <2>1, NoRequestFacts, PhaseRest DEF Phases, Opening, Rebuilding
  <2>3. TypeOK'
      BY <1>1, <1>4, <2>1 DEF TypeOK, ram, Phases, NoRequest
  <2> QED BY <1>1, <1>4, <2>2, <2>3
<1> QED BY <1>3, <1>4 DEF Replace

\* the writing of the new entry,
LEMMA CreateBasic == Basic /\ Create => Basic'
<1> SUFFICES ASSUME Basic, Create PROVE Basic'
    OBVIOUS
<1> USE DEF Basic
<1>1. /\ pc = "create" /\ copy' = copy /\ scan' = scan /\ UNCHANGED ram
      /\ sector' = sector /\ remount' = remount
    BY DEF Create, work
<1>2. /\ mounted /\ request.name \in Names /\ request.maxSize \in MaxSizes
      /\ request \in [name : Names \cup {Blank}, maxSize : MaxSizes \cup {0}, slot : Slot \cup {Nobody}]
      /\ Creates(slots, copy, request)
    BY <1>1 DEF PhaseOK, Opening
<1>3. /\ request.slot \in Slot /\ EntryOK(copy[request.slot])
      /\ copy[request.slot].filename = request.name
      /\ \A i \in Slot : slots[i].filename # request.name
    BY <1>2 DEF Creates, Known
<1>4. CASE slots' = [slots EXCEPT ![request.slot] = copy[request.slot]] /\ pc' = "data"
           /\ request' = request /\ excused' = excused
  <2>1. Known(slots)' /\ Named(slots)'
      BY <1>3, <1>4, KnownUpdate, NamedUpdate
  <2>2. slots'[request.slot].filename = request.name
      BY <1>3, <1>4 DEF Known
  <2>3. PhaseOK'
      BY <1>1, <1>2, <1>3, <1>4, <2>2 DEF PhaseOK, Opening, Rebuilding, ram
  <2>4. TypeOK'
      BY <1>1, <1>4, <2>1 DEF TypeOK, ram, Phases, Known
  <2> QED BY <1>1, <2>1, <2>3, <2>4
<1>5. CASE slots' = slots /\ Abandon /\ excused' = excused \cup {"skipped"}
  <2>1. pc' = "idle" /\ request' = NoRequest
      BY <1>5 DEF Abandon
  <2>2. PhaseOK'
      BY <2>1, NoRequestFacts, PhaseRest DEF Phases, Opening, Rebuilding
  <2>3. TypeOK'
      BY <1>1, <1>5, <2>1 DEF TypeOK, ram, Phases, NoRequest, Excuses
  <2> QED BY <1>1, <1>5, <2>2, <2>3
<1> QED BY <1>4, <1>5 DEF Create

\* the writing of the file,
LEMMA SaveBasic == Basic /\ SaveData => Basic'
<1> SUFFICES ASSUME Basic, SaveData PROVE Basic'
    OBVIOUS
<1> USE DEF Basic
<1>1. /\ slots' = slots /\ copy' = copy /\ scan' = scan /\ UNCHANGED ram /\ remount' = remount
      /\ excused' = excused /\ DOMAIN sector' = Sectors /\ pc' = "idle" /\ request' = NoRequest
    BY DEF SaveData, Abandon, work
<1>2. PhaseOK'
    BY <1>1, NoRequestFacts, PhaseRest DEF Phases, Opening, Rebuilding
<1>3. TypeOK'
    BY <1>1 DEF TypeOK, ram, Phases, NoRequest
<1> QED BY <1>1, <1>2, <1>3

\* the erasing of a full directory,
LEMMA RebuildEraseBasic == Basic /\ RebuildErase => Basic'
<1> SUFFICES ASSUME Basic, RebuildErase PROVE Basic'
    OBVIOUS
<1> USE DEF Basic
<1>1. /\ pc = "rebuildErase" /\ copy' = copy /\ scan' = scan /\ UNCHANGED ram
      /\ sector' = sector /\ remount' = remount /\ excused' = excused \cup {"rebuilt"}
    BY DEF RebuildErase, work
<1>2. /\ mounted /\ request.name \in Names /\ request.maxSize \in MaxSizes
      /\ request \in [name : Names \cup {Blank}, maxSize : MaxSizes \cup {0}, slot : Slot \cup {Nobody}]
      /\ Full(copy) /\ Named(copy) /\ scan \in Slot
    BY <1>1 DEF PhaseOK, Opening, Rebuilding
<1>3. CASE slots' = [i \in Slot |-> Erased] /\ pc' = "rebuildWrite" /\ request' = request
  <2>1. Known(slots)' /\ Named(slots)'
      BY <1>3, ErasedDirectory
  <2>2. PhaseOK'
      BY <1>1, <1>2, <1>3 DEF PhaseOK, Opening, Rebuilding, ram
  <2>3. TypeOK'
      BY <1>1, <1>3, <2>1 DEF TypeOK, ram, Phases, Known, Excuses
  <2> QED BY <1>1, <2>1, <2>2, <2>3
<1>4. CASE slots' = slots /\ Abandon
  <2>1. pc' = "idle" /\ request' = NoRequest
      BY <1>4 DEF Abandon
  <2>2. PhaseOK'
      BY <2>1, NoRequestFacts, PhaseRest DEF Phases, Opening, Rebuilding
  <2>3. TypeOK'
      BY <1>1, <1>4, <2>1 DEF TypeOK, ram, Phases, NoRequest, Excuses
  <2> QED BY <1>1, <1>4, <2>2, <2>3
<1> QED BY <1>3, <1>4 DEF RebuildErase

\* What a rebuild does to its copy at the next entry.
LEMMA ReclaimFacts ==
    ASSUME Known(copy), Full(copy), Named(copy), NEW i \in Slot, ReclaimInCopy(i)
    PROVE  /\ Known(copy)' /\ Full(copy)' /\ Named(copy)'
           /\ \A j \in Slot : BlockOf(copy'[j]) \subseteq BlockOf(copy[j])
           /\ sectorsUsed' \subseteq sectorsUsed
<1>1. CASE copy' = copy /\ sectorsUsed' = sectorsUsed
    BY <1>1
<1>2. CASE copy' = [copy EXCEPT ![i] = Reclaimed(@)] /\ sectorsUsed' = sectorsUsed \ BlockOf(copy[i])
  <2>1. PICK e : e = Reclaimed(copy[i]) /\ copy' = [copy EXCEPT ![i] = e]
      BY <1>2
  <2>2. EntryOK(e) /\ e # Erased /\ e.filename \notin Names /\ BlockOf(e) = {}
      BY <2>1, ReclaimedFacts, NamesApart DEF Known, Full
  <2>3. Known(copy)' /\ Named(copy)'
      BY <2>1, <2>2, KnownUpdate, NamedUpdate
  <2>4. \A j \in Slot : copy'[j] = IF j = i THEN e ELSE copy[j]
      BY <2>1 DEF Known
  <2> QED BY <1>2, <2>2, <2>3, <2>4 DEF Full
<1> QED BY <1>1, <1>2 DEF ReclaimInCopy

\* the writing of its compact copy,
LEMMA RebuildWriteBasic == Basic /\ RebuildWrite => Basic'
<1> SUFFICES ASSUME Basic, RebuildWrite PROVE Basic'
    OBVIOUS
<1> USE DEF Basic
<1>1. /\ pc = "rebuildWrite" /\ sector' = sector /\ remount' = remount /\ excused' = excused
      /\ mounted' = mounted /\ minAllocOffset' = minAllocOffset /\ nextSequence' = nextSequence
    BY DEF RebuildWrite
<1>2. /\ mounted /\ request.name \in Names /\ request.maxSize \in MaxSizes
      /\ request \in [name : Names \cup {Blank}, maxSize : MaxSizes \cup {0}, slot : Slot \cup {Nobody}]
      /\ Full(copy) /\ Named(copy) /\ scan \in Slot
    BY <1>1 DEF PhaseOK, Opening, Rebuilding
<1>3. CASE slots' = copy /\ scan = Slots /\ pc' = "find" /\ UNCHANGED <<copy, scan, sectorsUsed, request>>
  <2>1. PhaseOK'
      BY <1>1, <1>2, <1>3 DEF PhaseOK, Opening, Rebuilding
  <2>2. TypeOK'
      BY <1>1, <1>3 DEF TypeOK, Phases
  <2> QED BY <1>2, <1>3, <2>1, <2>2
<1>4. CASE slots' = copy /\ scan # Slots /\ pc' = "rebuildErase" /\ scan' = scan + 1
           /\ ReclaimInCopy(scan + 1) /\ request' = request
  <2>1. scan + 1 \in Slot
      BY <1>2, <1>4, SlotFacts DEF Slot
  <2>2. Known(copy)' /\ Full(copy)' /\ Named(copy)' /\ sectorsUsed' \subseteq sectorsUsed
      BY <1>2, <1>4, <2>1, ReclaimFacts
  <2>3. Full(slots')
      BY <1>2, <1>4
  <2>4. PhaseOK'
      BY <1>1, <1>2, <1>4, <2>1, <2>2, <2>3 DEF PhaseOK, Opening, Rebuilding
  <2>5. TypeOK'
      BY <1>1, <1>4, <2>1, <2>2 DEF TypeOK, Phases, Known
  <2> QED BY <1>2, <1>4, <2>2, <2>4, <2>5
<1>5. CASE Abandon /\ UNCHANGED <<slots, copy, scan, sectorsUsed>>
  <2>1. pc' = "idle" /\ request' = NoRequest
      BY <1>5 DEF Abandon
  <2>2. PhaseOK'
      BY <2>1, NoRequestFacts, PhaseRest DEF Phases, Opening, Rebuilding
  <2>3. TypeOK'
      BY <1>1, <1>5, <2>1 DEF TypeOK, Phases, NoRequest
  <2> QED BY <1>5, <2>2, <2>3
<1> QED BY <1>3, <1>4, <1>5 DEF RebuildWrite, work

\* a removal,
LEMMA RemoveBasic ==
    ASSUME Basic, NEW n \in Names, Remove(n) PROVE Basic'
<1> USE DEF Basic
<1>1. /\ slots' = slots /\ copy' = copy /\ scan' = scan /\ UNCHANGED ram /\ remount' = remount
      /\ excused' = excused /\ DOMAIN sector' = DOMAIN sector /\ pc = "idle" /\ pc' = pc
      /\ request' = request
    BY DEF Remove, work
<1>2. PhaseOK'
    BY <1>1, PhaseRest DEF Phases, Opening, Rebuilding, PhaseOK
<1>3. TypeOK'
    BY <1>1 DEF TypeOK, ram
<1> QED BY <1>1, <1>2, <1>3

\* After a restart nothing is under way.
LEMMA RestartBasic ==
    ASSUME Basic, Restart, Known(slots)', Named(slots)', DOMAIN sector' = Sectors,
           excused' \subseteq Excuses
    PROVE  Basic'
<1> USE DEF Basic
<1>1. pc' = "mount" /\ request' = NoRequest
    BY DEF Restart
<1>2. PhaseOK'
    BY <1>1, NoRequestFacts, PhaseRest DEF Phases, Opening, Rebuilding
<1>3. Known(copy)'
    BY ErasedDirectory DEF Restart
<1>4. TypeOK'
  <2>1. minAllocOffset' \in 0 .. DataSectors /\ scan' \in Slot \cup {Slots + 1}
      BY SlotFacts DEF Restart
  <2>2. slots' \in [Slot -> Entry] /\ copy' \in [Slot -> Entry]
      BY <1>3 DEF Known
  <2>3. mounted' \in BOOLEAN /\ remount' \in BOOLEAN
      BY DEF Restart
  <2>4. sectorsUsed' \subseteq Sectors /\ nextSequence' \in Nat /\ pc' \in Phases
        /\ request'.slot \in Slot \cup {Nobody}
      BY DEF Restart, NoRequest, Phases
  <2> QED BY <2>1, <2>2, <2>3, <2>4 DEF TypeOK
<1> QED BY <1>2, <1>3, <1>4

\* What a crash leaves of the directory is sound entries without a name that is
\* not theirs.
LEMMA HalfwayFacts ==
    ASSUME Basic, NEW d \in Halfway
    PROVE  Known(d) /\ Named(d)
<1> USE DEF Basic
<1>1. CASE pc \in {"replace", "create"}
  <2>1. PICK e : /\ d = [slots EXCEPT ![request.slot] = Cut(e)]
                 /\ e = IF pc = "create" THEN copy[request.slot] ELSE slots[request.slot]
      BY <1>1 DEF Halfway
  <2>2. request.slot \in Slot /\ e.filename = request.name /\ request.name \in Names /\ EntryOK(e)
      BY <1>1, <2>1 DEF PhaseOK, Creates, Opening, Known
  <2>3. e # Erased
      BY <2>2, ErasedFacts, NamesApart
  <2>4. PICK f : f = Cut(e)
      OBVIOUS
  <2>5. EntryOK(f) /\ f.filename \notin Names /\ d = [slots EXCEPT ![request.slot] = f]
      BY <2>1, <2>2, <2>3, <2>4, CutFacts, NamesApart
  <2> QED BY <2>2, <2>5, KnownUpdate, NamedUpdate
<1>2. CASE pc = "formatWrite"
  <2>1. PICK f : f = Cut(RootEntry) /\ d = [slots EXCEPT ![1] = f]
      BY <1>2 DEF Halfway
  <2>2. EntryOK(f) /\ f.filename \notin Names /\ 1 \in Slot
      BY <2>1, RootFacts, CutFacts, NamesApart, SlotFacts
  <2> QED BY <2>1, <2>2, KnownUpdate, NamedUpdate
<1>3. CASE pc \in {"formatErase", "rebuildErase"}
  <2>1. PICK done \in SUBSET Slot : d = [i \in Slot |-> IF i \in done THEN Erased ELSE slots[i]]
      BY <1>3 DEF Halfway
  <2>2. EntryOK(Erased) /\ Erased \in Entry /\ Erased.filename \notin Names
      BY ErasedFacts, NamesApart DEF EntryOK
  <2>3. Known(d)
      BY <2>1, <2>2 DEF Known
  <2>4. Named(d)
    <3>1. \A i \in Slot : d[i].filename \in Names => d[i].filename = slots[i].filename
        BY <2>1, <2>2
    <3> QED BY <3>1 DEF Named
  <2> QED BY <2>3, <2>4
<1>4. CASE pc = "rebuildWrite"
  <2>1. PICK k \in Slot :
            d = [i \in Slot |-> IF i < k THEN copy[i] ELSE IF i = k THEN Cut(copy[i]) ELSE Erased]
      BY <1>4 DEF Halfway
  <2>2. PICK f : f = Cut(copy[k])
      OBVIOUS
  <2>3. Full(copy) /\ Named(copy)
      BY <1>4 DEF PhaseOK, Rebuilding
  <2>4. EntryOK(f) /\ f.filename \notin Names
      BY <2>2, <2>3, CutFacts, NamesApart DEF Known, Full
  <2>5. EntryOK(Erased) /\ Erased.filename \notin Names
      BY ErasedFacts, NamesApart
  <2>6. \A i \in Slot : d[i] = IF i < k THEN copy[i] ELSE IF i = k THEN f ELSE Erased
      BY <2>1, <2>2
  <2>7. \A i \in Slot : EntryOK(d[i])
      BY <2>4, <2>5, <2>6 DEF Known
  <2>8. Known(d)
    <3>1. \A i \in Slot : d[i] \in Entry
        BY <2>7 DEF EntryOK
    <3>2. d = [i \in Slot |-> d[i]]
        BY <2>1
    <3>3. d \in [Slot -> Entry]
        BY <3>1, <3>2
    <3> QED BY <2>7, <3>3 DEF Known
  <2>9. Named(d)
    <3>1. \A i \in Slot : d[i].filename \in Names => d[i].filename = copy[i].filename
        BY <2>4, <2>5, <2>6
    <3> QED BY <2>3, <3>1 DEF Named
  <2> QED BY <2>8, <2>9
<1>5. pc \in {"replace", "create", "formatWrite", "formatErase", "rebuildErase", "rebuildWrite"}
    BY DEF Halfway
<1> QED BY <1>1, <1>2, <1>3, <1>4, <1>5

\* a crash,
LEMMA CrashBasic == Basic /\ (CrashBetween \/ CrashInDirectory \/ CrashInFile \/ Fault) => Basic'
<1> SUFFICES ASSUME Basic, CrashBetween \/ CrashInDirectory \/ CrashInFile \/ Fault PROVE Basic'
    OBVIOUS
<1>1. Restart
    BY DEF CrashBetween, CrashInDirectory, CrashInFile, Fault, Crash
<1>2. Known(slots)' /\ Named(slots)'
  <2>1. CASE slots' = slots
      BY <2>1 DEF Basic
  <2>2. CASE slots' \in Halfway
      BY <2>2, HalfwayFacts
  <2> QED BY <2>1, <2>2 DEF CrashBetween, CrashInDirectory, CrashInFile, Fault
<1>3. DOMAIN sector' = Sectors
    BY DEF Basic, TypeOK, CrashBetween, CrashInDirectory, CrashInFile, Fault
<1>4. excused' \subseteq Excuses
    BY DEF Basic, TypeOK, CrashBetween, CrashInDirectory, CrashInFile, Fault, Excuses
<1> QED BY <1>1, <1>2, <1>3, <1>4, RestartBasic

\* and a step that changes nothing.
LEMMA StutterBasic == Basic /\ UNCHANGED vars => Basic'
BY DEF Basic, TypeOK, PhaseOK, vars, ram, work, count

\* The entries and the operation under way are sound.
THEOREM DirectoryIsSound == Spec => []Basic
<1>1. Basic /\ [Next]_vars => Basic'
    BY MountBasic, ResetBasic, FormatEraseBasic, FormatWriteBasic, OpenBasic, FindBasic,
       ReplaceBasic, CreateBasic, SaveBasic, RebuildEraseBasic, RebuildWriteBasic, RemoveBasic,
       CrashBasic, StutterBasic DEF Next
<1> QED BY InitBasic, <1>1, PTL DEF Spec

\* Every variable keeps its type (TypeOK).
THEOREM TypeInvariant == Spec => []TypeOK
<1>1. Basic => TypeOK
    BY DEF Basic
<1> QED BY <1>1, DirectoryIsSound, PTL

\* A name has one entry at most (NamesUnique), whatever was cut off or failed.
THEOREM NamesAreUnique == Spec => []NamesUnique
<1>1. Basic => NamesUnique
    BY DEF Basic, Named, NamesUnique
<1> QED BY <1>1, DirectoryIsSound, PTL

-----------------------------------------------------------------------------
(***************************************************************************)
(* The second layer: where the blocks lie.                                 *)
(***************************************************************************)
Apart(d)        == \A i, j \in Slot : i # j => BlockOf(d[i]) \cap BlockOf(d[j]) = {}
InRow(d)        == \A i, j \in Slot : i < j /\ d[i] = Erased => d[j] = Erased
AboveOf(d, a)   == \A i \in Slot : \A s \in BlockOf(d[i]) : a <= s
CoveredBy(d, u) == \A i \in Slot : BlockOf(d[i]) \subseteq u

Clean == excused \cap {"cut", "unformatted"} = {}

\* The sectors in use are noted only as long as a slot is left for another entry:
\* a rebuild that fails has cleared the sectors of entries that are still there.
Placed(d, c) ==
    /\ pc \in Live /\ mounted =>
          AboveOf(d, minAllocOffset) /\ (~ Full(d) => CoveredBy(d, sectorsUsed))
    /\ pc = "create" => Apart(c) /\ AboveOf(c, minAllocOffset) /\ CoveredBy(c, sectorsUsed)
    /\ pc \in Rebuilding => Apart(c) /\ AboveOf(c, minAllocOffset)

SpaceOK == Clean => InRow(slots) /\ Apart(slots) /\ Placed(slots, copy)

\* Smaller blocks lie as well as those they are part of.
LEMMA SmallerBlocks ==
    ASSUME NEW d, NEW f, \A i \in Slot : BlockOf(f[i]) \subseteq BlockOf(d[i])
    PROVE  /\ Apart(d) => Apart(f)
           /\ \A a : AboveOf(d, a) => AboveOf(f, a)
           /\ \A u : CoveredBy(d, u) => CoveredBy(f, u)
<1>1. Apart(d) => Apart(f)
  <2> SUFFICES ASSUME Apart(d), NEW i \in Slot, NEW j \in Slot, i # j
               PROVE  BlockOf(f[i]) \cap BlockOf(f[j]) = {}
      BY DEF Apart
  <2>1. BlockOf(d[i]) \cap BlockOf(d[j]) = {}
      BY DEF Apart
  <2>2. BlockOf(f[i]) \subseteq BlockOf(d[i]) /\ BlockOf(f[j]) \subseteq BlockOf(d[j])
      OBVIOUS
  <2> QED BY <2>1, <2>2
<1>2. \A a : AboveOf(d, a) => AboveOf(f, a)
    BY DEF AboveOf
<1>3. \A u : CoveredBy(d, u) => CoveredBy(f, u)
    BY DEF CoveredBy
<1> QED BY <1>1, <1>2, <1>3

\* A directory without blocks lies well.
LEMMA NoBlocks ==
    ASSUME NEW d, \A i \in Slot : BlockOf(d[i]) = {}
    PROVE  Apart(d) /\ (\A a : AboveOf(d, a)) /\ (\A u : CoveredBy(d, u))
BY DEF Apart, AboveOf, CoveredBy

\* An entry keeps its block when its writing is cut off.
LEMMA CutBlock ==
    ASSUME NEW e, EntryOK(e) PROVE BlockOf(Cut(e)) = BlockOf(e)
<1>1. e \in Entry
    BY DEF EntryOK
<1>2. Cut(e).flashOffset = e.flashOffset /\ Cut(e).maxSize = e.maxSize
    BY <1>1 DEF Cut, Entry
<1> QED BY <1>2 DEF BlockOf

\* The entries stay in a row when the first erased one, or one before it, is written.
LEMMA InRowUpdate ==
    ASSUME NEW d, Known(d), InRow(d), NEW k \in Slot, NEW e, e # Erased,
           \A i \in Slot : i < k => d[i] # Erased
    PROVE  InRow([d EXCEPT ![k] = e])
<1> DEFINE f == [d EXCEPT ![k] = e]
<1>1. \A i \in Slot : f[i] = IF i = k THEN e ELSE d[i]
    BY DEF Known
<1> HIDE DEF f
<1>2. InRow(f)
  <2> SUFFICES ASSUME NEW i \in Slot, NEW j \in Slot, i < j, f[i] = Erased
               PROVE  f[j] = Erased
      BY DEF InRow
  <2>1. i # k /\ d[i] = Erased
      BY <1>1
  <2>2. ~ (i < k)
      BY <2>1
  <2>3. j # k
      BY <2>1, <2>2, SlotFacts
  <2>4. d[j] = Erased
      BY <2>1 DEF InRow
  <2> QED BY <1>1, <2>3, <2>4
<1> QED BY <1>2 DEF f

\* Nothing follows the first erased entry.
LEMMA UnscannedErased ==
    ASSUME InRow(slots), NEW i \in Slot, i \notin Scanned
    PROVE  slots[i] = Erased
<1>1. PICK j \in 1 .. i : slots[j] = Erased
    BY DEF Scanned
<1>2. j \in Slot /\ (j < i \/ j = i)
    BY SlotFacts DEF Slot
<1> QED BY <1>1, <1>2 DEF InRow

\* Only a format that succeeds forgives.
LEMMA CleanBefore ==
    ASSUME excused \subseteq excused', Clean' PROVE Clean
BY DEF Clean

\* Nothing is under way: the directory alone matters.
LEMMA PlacedRest ==
    ASSUME NEW d, NEW c, pc' \in Phases \ Live PROVE Placed(d, c)'
BY DEF Placed, Live, Opening, Rebuilding

\* There are no blocks at the start.
LEMMA InitSpace == Init => SpaceOK
<1> SUFFICES ASSUME Init PROVE SpaceOK
    OBVIOUS
<1>1. \A i \in Slot : slots[i] = Erased /\ BlockOf(slots[i]) = {}
    BY ErasedFacts DEF Init
<1>2. InRow(slots) /\ Apart(slots)
    BY <1>1, NoBlocks DEF InRow
<1>3. Placed(slots, copy)
    BY DEF Init, Placed, Live, Opening, Rebuilding
<1> QED BY <1>2, <1>3 DEF SpaceOK

\* A mount marks the sectors of the blocks it finds.
LEMMA MountFindsSpace == Basic /\ SpaceOK /\ MountFinds => SpaceOK'
<1> SUFFICES ASSUME Basic, SpaceOK, MountFinds, Clean' PROVE (InRow(slots) /\ Apart(slots) /\ Placed(slots, copy))'
    BY DEF SpaceOK
<1>1. Clean /\ slots' = slots /\ pc' = "idle"
    BY DEF MountFinds, Clean
<1>2. InRow(slots) /\ Apart(slots)
    BY <1>1 DEF SpaceOK
<1>3. \A i \in Scanned : Sound(i)
    BY DEF MountFinds
<1>4. AboveOf(slots, minAllocOffset')
  <2> SUFFICES ASSUME NEW i \in Slot, NEW s \in BlockOf(slots[i]) PROVE minAllocOffset' <= s
      BY DEF AboveOf
  <2>1. i \in Scanned
      BY <1>2, UnscannedErased, ErasedFacts
  <2>2. LowWater \in Nat /\ LowWater <= slots[i].flashOffset
      BY <1>3, <2>1, LowWaterFacts DEF Basic
  <2>3. slots[i].flashOffset <= s /\ s \in Nat
      BY SlotFacts DEF BlockOf
  <2>4. slots[i].flashOffset \in Int
      BY SlotFacts DEF Basic, Known, Entry, Unset
  <2>5. minAllocOffset' = LowWater
      BY DEF MountFinds
  <2> QED BY <2>2, <2>3, <2>4, <2>5
<1>5. CoveredBy(slots, sectorsUsed')
  <2> SUFFICES ASSUME NEW i \in Slot, NEW s \in BlockOf(slots[i]) PROVE s \in sectorsUsed'
      BY DEF CoveredBy
  <2>1. i \in Scanned
      BY <1>2, UnscannedErased, ErasedFacts
  <2> QED BY <2>1 DEF MountFinds
<1>6. Placed(slots, copy)'
    BY <1>1, <1>4, <1>5 DEF Placed, Rebuilding
<1> QED BY <1>1, <1>2, <1>6

\* A format drops all the blocks.
LEMMA FormatSpace == Basic /\ SpaceOK /\ (MountFormats \/ FactoryReset \/ FormatErase) => SpaceOK'
<1> SUFFICES ASSUME Basic, SpaceOK, MountFormats \/ FactoryReset \/ FormatErase, Clean'
             PROVE  (InRow(slots) /\ Apart(slots) /\ Placed(slots, copy))'
    BY DEF SpaceOK
<1>1. Clean /\ pc' \in {"formatErase", "formatWrite"}
    BY DEF Clean, MountFormats, FactoryReset, FormatErase
<1>2. Placed(slots, copy)'
    BY <1>1, PlacedRest DEF Phases, Live, Opening, Rebuilding
<1>3. CASE slots' = slots
    BY <1>1, <1>2, <1>3 DEF SpaceOK
<1>4. CASE slots' = [i \in Slot |-> Erased]
  <2>1. \A i \in Slot : slots'[i] = Erased /\ BlockOf(slots'[i]) = {}
      BY <1>4, ErasedFacts
  <2>2. InRow(slots') /\ Apart(slots')
      BY <2>1, NoBlocks DEF InRow
  <2> QED BY <1>2, <2>2
<1> QED BY <1>3, <1>4 DEF MountFormats, FactoryReset, FormatErase

\* The root entry has no block.
LEMMA FormatWriteSpace == Basic /\ SpaceOK /\ FormatWrite => SpaceOK'
<1> SUFFICES ASSUME Basic, SpaceOK, FormatWrite, Clean'
             PROVE  (InRow(slots) /\ Apart(slots) /\ Placed(slots, copy))'
    BY DEF SpaceOK
<1>1. CASE slots' = Formatted
  <2>1. \A i \in Slot : slots'[i] = (IF i = 1 THEN RootEntry ELSE Erased) /\ BlockOf(slots'[i]) = {}
      BY <1>1, RootFacts, ErasedFacts DEF Formatted
  <2>2. InRow(slots')
    <3> SUFFICES ASSUME NEW i \in Slot, NEW j \in Slot, i < j PROVE slots'[j] = Erased
        BY DEF InRow
    <3>1. j # 1
        BY SlotFacts DEF Slot
    <3> QED BY <2>1, <3>1
  <2>3. Apart(slots') /\ AboveOf(slots', minAllocOffset') /\ CoveredBy(slots', sectorsUsed')
      BY <2>1, NoBlocks
  <2>4. pc' \in {"mount", "idle"}
      BY DEF FormatWrite
  <2>5. Placed(slots, copy)'
      BY <2>3, <2>4 DEF Placed, Rebuilding
  <2> QED BY <2>2, <2>3, <2>5
<1>2. CASE slots' # Formatted
  <2>1. remount /\ excused' = excused
    <3>1. excused' = IF remount THEN excused ELSE excused \cup {"unformatted"}
        BY <1>2 DEF FormatWrite
    <3>2. "unformatted" \notin excused'
        BY DEF Clean
    <3> QED BY <3>1, <3>2
  <2>2. Clean /\ pc' = "mount"
      BY <2>1 DEF Clean, FormatWrite
  <2>3. InRow(slots) /\ Apart(slots)
      BY <2>2 DEF SpaceOK
  <2>4. Placed(slots, copy)'
      BY <2>2, PlacedRest DEF Phases, Live, Opening, Rebuilding
  <2>5. CASE slots' = slots
      BY <2>3, <2>4, <2>5
  <2>6. CASE slots' # slots
    <3>1. 1 \in Slot /\ EntryOK(slots[1]) /\ Known(slots)
        BY SlotFacts DEF Basic, Known
    <3>2. PICK e : /\ slots' = [slots EXCEPT ![1] = e]
                   /\ e = IF slots[1] \in {Erased, RootEntry} THEN RootEntry ELSE Cut(slots[1])
        BY <2>6 DEF FormatWrite
    <3>3. e # Erased /\ BlockOf(e) \subseteq BlockOf(slots[1])
        BY <3>1, <3>2, CutFacts, CutBlock, RootFacts
    <3>4. \A i \in Slot : ~ (i < 1)
        BY DEF Slot
    <3>5. InRow(slots')
        BY <2>3, <3>1, <3>2, <3>3, <3>4, InRowUpdate
    <3>6. \A i \in Slot : slots'[i] = IF i = 1 THEN e ELSE slots[i]
        BY <3>1, <3>2 DEF Known
    <3>7. \A i \in Slot : BlockOf(slots'[i]) \subseteq BlockOf(slots[i])
        BY <3>3, <3>6
    <3>8. Apart(slots')
        BY <2>3, <3>7, SmallerBlocks
    <3> QED BY <2>4, <3>5, <3>8
  <2> QED BY <2>5, <2>6
<1> QED BY <1>1, <1>2

\* The start of a save, the writing of a file and a removal leave the blocks alone.
LEMMA QuietSpace ==
    ASSUME Basic, SpaceOK,
           \/ \E n \in Names, size \in MaxSizes : OpenWrite(n, size)
           \/ SaveData
           \/ \E n \in Names : Remove(n)
    PROVE  SpaceOK'
<1> SUFFICES ASSUME Clean' PROVE (InRow(slots) /\ Apart(slots) /\ Placed(slots, copy))'
    BY DEF SpaceOK
<1>1. /\ excused' = excused /\ slots' = slots /\ copy' = copy /\ mounted' = mounted
      /\ minAllocOffset' = minAllocOffset /\ sectorsUsed' = sectorsUsed
      /\ pc' \in {"find", "idle"} /\ pc \in {"idle", "data"}
    BY DEF OpenWrite, SaveData, Remove, Abandon, work, ram
<1>2. Clean
    BY <1>1 DEF Clean
<1> QED BY <1>1, <1>2 DEF SpaceOK, Placed, Live, Opening, Rebuilding

\* The entry that is about to be written: its block is above the low-water mark and
\* apart from the others.
LEMMA CreatedSpace ==
    ASSUME Basic, SpaceOK, FindErased, Clean
    PROVE  Apart(copy)' /\ AboveOf(copy, minAllocOffset)' /\ CoveredBy(copy, sectorsUsed)'
<1> USE DEF Basic
<1>1. pc = "find" /\ mounted
    BY DEF FindErased, Finding, PhaseOK, Opening
<1>2. request.name \in Names /\ request.maxSize \in MaxSizes /\ request.maxSize \in Nat
    BY <1>1, SlotFacts DEF PhaseOK, Opening
<1>3. FirstFree \in Slot /\ slots[FirstFree] = Erased
  <2>1. FirstFree \in Slot /\ IsFree(slots[FirstFree]) /\ ~ IsAssigned(slots[FirstFree])
      BY FirstFreeFacts DEF FindErased
  <2> QED BY <2>1, FreeFacts DEF Known
<1>4. Apart(slots) /\ AboveOf(slots, minAllocOffset) /\ CoveredBy(slots, sectorsUsed)
    BY <1>1, <1>3 DEF SpaceOK, Placed, Live, Opening, Full
<1>5. /\ Allocation \in Nat /\ Allocation + request.maxSize <= DataSectors
      /\ Runs # {} => /\ minAllocOffset <= Allocation
                      /\ \A s \in Sectors :
                             Allocation <= s /\ s < Allocation + request.maxSize
                                 => s \notin sectorsUsed
      /\ Runs = {} => Allocation = minAllocOffset - request.maxSize
    BY <1>2, AllocationFacts DEF FindErased, TypeOK
<1>6. PICK e : /\ copy' = [slots EXCEPT ![FirstFree] = e]
               /\ e = NewEntry(nextSequence, request.name, request.maxSize, Allocation)
    BY DEF FindErased
<1>7. e.flashOffset = Allocation /\ e.maxSize = request.maxSize
    BY <1>6 DEF NewEntry
<1>8. PICK k \in Slot : k = FirstFree
    BY <1>3
<1>9. \A i \in Slot : copy'[i] = IF i = k THEN e ELSE slots[i]
    BY <1>6, <1>8 DEF Known
<1>10. /\ \A s \in BlockOf(e) : s \in Sectors /\ Allocation <= s /\ s < Allocation + request.maxSize
       /\ BlockOf(e) \subseteq sectorsUsed'
    BY <1>7 DEF BlockOf, FindErased
<1>11. sectorsUsed \subseteq sectorsUsed'
    BY DEF FindErased
<1>12. minAllocOffset' <= minAllocOffset /\ minAllocOffset' <= Allocation
       /\ minAllocOffset' \in Int /\ minAllocOffset \in Int
  <2>1. minAllocOffset \in Int
      BY SlotFacts DEF TypeOK
  <2>2. minAllocOffset' = IF Runs = {} THEN Allocation ELSE minAllocOffset
      BY DEF FindErased
  <2>3. CASE Runs = {}
      BY <1>2, <1>5, <2>1, <2>2, <2>3
  <2>4. CASE Runs # {}
      BY <1>5, <2>1, <2>2, <2>4
  <2> QED BY <2>3, <2>4
<1>13. \A i \in Slot : BlockOf(e) \cap BlockOf(slots[i]) = {}
  <2> SUFFICES ASSUME NEW i \in Slot, NEW s \in BlockOf(e), s \in BlockOf(slots[i]) PROVE FALSE
      OBVIOUS
  <2>1. s \in Sectors /\ Allocation <= s /\ s < Allocation + request.maxSize /\ s \in Int
    <3>1. s \in Sectors /\ Allocation <= s /\ s < Allocation + request.maxSize
        BY <1>10
    <3> QED BY <3>1, SlotFacts
  <2>2. CASE Runs # {}
    <3>1. s \in sectorsUsed
        BY <1>4 DEF CoveredBy
    <3> QED BY <1>5, <2>1, <2>2, <3>1
  <2>3. CASE Runs = {}
    <3>1. minAllocOffset <= s
        BY <1>4 DEF AboveOf
    <3> QED BY <1>2, <1>5, <1>12, <2>1, <2>3, <3>1
  <2> QED BY <2>2, <2>3
<1>14. Apart(copy')
  <2> SUFFICES ASSUME NEW i \in Slot, NEW j \in Slot, i # j
               PROVE  BlockOf(copy'[i]) \cap BlockOf(copy'[j]) = {}
      BY DEF Apart
  <2>1. BlockOf(slots[i]) \cap BlockOf(slots[j]) = {}
      BY <1>4 DEF Apart
  <2>2. BlockOf(e) \cap BlockOf(slots[i]) = {} /\ BlockOf(e) \cap BlockOf(slots[j]) = {}
      BY <1>13
  <2> QED BY <1>9, <2>1, <2>2
<1>15. AboveOf(copy', minAllocOffset')
  <2> SUFFICES ASSUME NEW i \in Slot, NEW s \in BlockOf(copy'[i]) PROVE minAllocOffset' <= s
      BY DEF AboveOf
  <2>1. s \in Int
      BY SlotFacts DEF BlockOf
  <2>2. CASE i = k
    <3>1. s \in BlockOf(e)
        BY <1>9, <2>2
    <3> QED BY <1>5, <1>10, <1>12, <2>1, <3>1
  <2>3. CASE i # k
    <3>1. s \in BlockOf(slots[i])
        BY <1>9, <2>3
    <3>2. minAllocOffset <= s
        BY <1>4, <3>1 DEF AboveOf
    <3> QED BY <1>12, <2>1, <3>2
  <2> QED BY <2>2, <2>3
<1>16. CoveredBy(copy', sectorsUsed')
    BY <1>4, <1>9, <1>10, <1>11 DEF CoveredBy
<1> QED BY <1>14, <1>15, <1>16

\* The copy that a rebuild begins with.
LEMMA RebuildBegins ==
    ASSUME Basic, FindFull, pc' # "idle"
    PROVE  /\ pc' = "rebuildErase" /\ excused' = excused /\ slots' = slots
           /\ minAllocOffset' = minAllocOffset
           /\ \A j \in Slot : BlockOf(copy'[j]) \subseteq BlockOf(slots[j])
<1>1. Full(slots)
  <2>1. \A i \in Slot : ~ IsFree(slots[i])
      BY FirstFreeFacts, SlotFacts DEF FindFull
  <2> QED BY <2>1, FreeFacts DEF Basic, Known, Full
<1>2. /\ pc' = "rebuildErase" /\ NextReclaimable(1) # {}
      /\ LET i == CHOOSE i \in NextReclaimable(1) : \A j \in NextReclaimable(1) : i <= j
         IN  /\ copy' = [slots EXCEPT ![i] = Reclaimed(@)]
             /\ sectorsUsed' = sectorsUsed \ BlockOf(slots[i])
             /\ scan' = i
    BY DEF FindFull, Finding
<1>3. PICK m \in NextReclaimable(1) : \A j \in NextReclaimable(1) : m <= j
  <2>1. NextReclaimable(1) \subseteq Nat
      BY SlotFacts DEF NextReclaimable
  <2> QED BY <1>2, <2>1, LeastExists
<1>4. PICK i \in NextReclaimable(1) : copy' = [slots EXCEPT ![i] = Reclaimed(slots[i])]
    BY <1>2, <1>3
<1>5. i \in Slot /\ EntryOK(slots[i]) /\ slots[i] # Erased
    BY <1>1 DEF NextReclaimable, Basic, Known, Full
<1>6. PICK e : e = Reclaimed(slots[i])
    OBVIOUS
<1>7. BlockOf(e) = {}
    BY <1>5, <1>6, ReclaimedFacts
<1>8. \A j \in Slot : copy'[j] = IF j = i THEN e ELSE slots[j]
    BY <1>4, <1>6 DEF Basic, Known
<1>9. \A j \in Slot : BlockOf(copy'[j]) \subseteq BlockOf(slots[j])
    BY <1>7, <1>8
<1> QED BY <1>2, <1>9 DEF FindFull, Finding

\* A new block is put where no other is.
LEMMA FindSpace == Basic /\ SpaceOK /\ Find => SpaceOK'
<1> SUFFICES ASSUME Basic, SpaceOK, Find, Clean'
             PROVE  (InRow(slots) /\ Apart(slots) /\ Placed(slots, copy))'
    BY DEF SpaceOK
<1>1. /\ pc = "find" /\ slots' = slots /\ mounted' = mounted /\ excused' = excused /\ mounted
    BY DEF Find, FindExisting, FindSmaller, FindReclaimed, FindErased, FindNoRoom, FindFull,
           Finding, ram, Basic, PhaseOK, Opening
<1>2. Clean /\ InRow(slots) /\ Apart(slots) /\ Placed(slots, copy)
    BY <1>1 DEF Clean, SpaceOK
<1>3. AboveOf(slots, minAllocOffset) /\ (~ Full(slots) => CoveredBy(slots, sectorsUsed))
    BY <1>1, <1>2 DEF Placed, Live, Opening
<1>4. CASE FindExisting \/ FindSmaller \/ FindReclaimed \/ FindNoRoom
  <2>1. /\ UNCHANGED <<minAllocOffset, sectorsUsed>> /\ pc' \in {"data", "replace", "fault"}
      BY <1>4 DEF FindExisting, FindSmaller, FindReclaimed, FindNoRoom, Finding, ram
  <2> QED BY <1>1, <1>2, <1>3, <2>1 DEF Placed, Rebuilding
<1>5. CASE FindErased
  <2>1. Apart(copy') /\ AboveOf(copy', minAllocOffset') /\ CoveredBy(copy', sectorsUsed')
      BY <1>2, <1>5, CreatedSpace
  <2>2. pc' = "create"
      BY <1>5 DEF FindErased, Finding
  <2>3. Creates(slots, copy', request') /\ request'.slot \in Slot
      BY <1>1, <1>5, <2>2, FindBasic DEF Basic, PhaseOK, Creates
  <2>4. \A i \in Slot : BlockOf(slots[i]) \subseteq BlockOf(copy'[i])
      BY <2>3, ErasedFacts DEF Creates
  <2>5. AboveOf(slots, minAllocOffset') /\ CoveredBy(slots, sectorsUsed')
      BY <2>1, <2>4, SmallerBlocks
  <2> QED BY <1>1, <1>2, <2>1, <2>2, <2>5 DEF Placed, Rebuilding
<1>6. CASE FindFull
  <2>1. Full(slots)
    <3>1. \A i \in Slot : ~ IsFree(slots[i])
        BY <1>6, FirstFreeFacts, SlotFacts DEF FindFull
    <3> QED BY <3>1, FreeFacts DEF Basic, Known, Full
  <2>2. minAllocOffset' = minAllocOffset /\ AboveOf(slots, minAllocOffset')
      BY <1>3, <1>6 DEF FindFull
  <2>3. CASE pc' = "idle"
      BY <1>1, <1>2, <2>1, <2>2, <2>3 DEF Placed, Rebuilding
  <2>4. CASE pc' # "idle"
    <3>1. pc' = "rebuildErase" /\ \A j \in Slot : BlockOf(copy'[j]) \subseteq BlockOf(slots[j])
        BY <1>6, <2>4, RebuildBegins
    <3>2. Apart(copy') /\ AboveOf(copy', minAllocOffset')
        BY <1>2, <2>2, <3>1, SmallerBlocks
    <3> QED BY <1>1, <1>2, <2>1, <2>2, <3>1, <3>2 DEF Placed
  <2> QED BY <2>3, <2>4
<1> QED BY <1>4, <1>5, <1>6 DEF Find

\* The replaced entry keeps its block until the directory is rebuilt.
LEMMA ReplaceSpace == Basic /\ SpaceOK /\ Replace => SpaceOK'
<1> SUFFICES ASSUME Basic, SpaceOK, Replace, Clean'
             PROVE  (InRow(slots) /\ Apart(slots) /\ Placed(slots, copy))'
    BY DEF SpaceOK
<1>1. /\ pc = "replace" /\ excused' = excused /\ UNCHANGED ram /\ pc' \in {"find", "idle"}
    BY DEF Replace, Abandon
<1>2. /\ request.name \in Names /\ request.slot \in Slot
      /\ slots[request.slot].filename = request.name /\ mounted
    BY <1>1 DEF Basic, PhaseOK, Opening
<1>3. Clean /\ InRow(slots) /\ Apart(slots)
    BY <1>1 DEF Clean, SpaceOK
<1>4. AboveOf(slots, minAllocOffset) /\ (~ Full(slots) => CoveredBy(slots, sectorsUsed))
    BY <1>1, <1>2, <1>3 DEF SpaceOK, Placed, Live, Opening
<1>5. CASE slots' = slots
    BY <1>1, <1>3, <1>4, <1>5 DEF Placed, Rebuilding, ram
<1>6. CASE slots' = [slots EXCEPT ![request.slot] = Replaced(@)]
  <2>1. PICK e : e = Replaced(slots[request.slot]) /\ slots' = [slots EXCEPT ![request.slot] = e]
      BY <1>6
  <2>2. EntryOK(slots[request.slot])
      BY <1>2 DEF Basic, Known
  <2>3. e # Erased /\ BlockOf(e) = BlockOf(slots[request.slot])
      BY <1>2, <2>1, <2>2, ReplacedFacts
  <2>4. slots[request.slot] # Erased
      BY <1>2, ErasedFacts, NamesApart
  <2>5. \A i \in Slot : slots'[i] = IF i = request.slot THEN e ELSE slots[i]
      BY <2>1 DEF Basic, Known
  <2>6. \A i \in Slot : i < request.slot => slots[i] # Erased
    <3> SUFFICES ASSUME NEW i \in Slot, i < request.slot, slots[i] = Erased PROVE FALSE
        OBVIOUS
    <3> QED BY <1>2, <1>3, <2>4 DEF InRow
  <2>7. InRow(slots')
      BY <1>2, <1>3, <2>1, <2>3, <2>6, InRowUpdate DEF Basic
  <2>8. \A i \in Slot : BlockOf(slots'[i]) \subseteq BlockOf(slots[i])
      BY <2>3, <2>5
  <2>9. Full(slots') \/ ~ Full(slots)
      BY <2>3, <2>5 DEF Full
  <2>10. Apart(slots') /\ AboveOf(slots', minAllocOffset) /\ (~ Full(slots') => CoveredBy(slots', sectorsUsed))
      BY <1>3, <1>4, <2>8, <2>9, SmallerBlocks
  <2>11. minAllocOffset' = minAllocOffset /\ sectorsUsed' = sectorsUsed
      BY <1>1 DEF ram
  <2> QED BY <1>1, <2>7, <2>10, <2>11 DEF Placed, Rebuilding
<1> QED BY <1>5, <1>6 DEF Replace

\* The new entry is written with its block.
LEMMA CreateSpace == Basic /\ SpaceOK /\ Create => SpaceOK'
<1> SUFFICES ASSUME Basic, SpaceOK, Create, Clean'
             PROVE  (InRow(slots) /\ Apart(slots) /\ Placed(slots, copy))'
    BY DEF SpaceOK
<1>1. /\ pc = "create" /\ UNCHANGED ram /\ pc' \in {"data", "idle"} /\ excused \subseteq excused'
    BY DEF Create, Abandon
<1>2. /\ Creates(slots, copy, request) /\ mounted
    BY <1>1 DEF Basic, PhaseOK, Opening
<1>3. Clean /\ InRow(slots) /\ Apart(slots) /\ Placed(slots, copy)
    BY <1>1, CleanBefore DEF SpaceOK
<1>4. AboveOf(slots, minAllocOffset) /\ (~ Full(slots) => CoveredBy(slots, sectorsUsed))
      /\ Apart(copy) /\ AboveOf(copy, minAllocOffset) /\ CoveredBy(copy, sectorsUsed)
    BY <1>1, <1>2, <1>3 DEF Placed, Live, Opening
<1>5. minAllocOffset' = minAllocOffset /\ sectorsUsed' = sectorsUsed
    BY <1>1 DEF ram
<1>6. CASE slots' = slots
    BY <1>1, <1>3, <1>4, <1>5, <1>6 DEF Placed, Rebuilding
<1>7. CASE slots' = [slots EXCEPT ![request.slot] = copy[request.slot]]
  <2>1. request.slot \in Slot /\ copy[request.slot].filename = request.name /\ request.name \in Names
      BY <1>1, <1>2 DEF Creates, Basic, PhaseOK, Opening
  <2>2. copy[request.slot] # Erased
      BY <2>1, ErasedFacts, NamesApart
  <2>3. InRow(slots')
      BY <1>2, <1>3, <1>7, <2>1, <2>2, InRowUpdate DEF Basic, Creates
  <2>4. \A i \in Slot : slots'[i] = copy[i]
      BY <1>2, <1>7 DEF Creates, Basic, Known
  <2>5. Apart(slots') /\ AboveOf(slots', minAllocOffset) /\ CoveredBy(slots', sectorsUsed)
      BY <1>4, <2>4, SmallerBlocks
  <2> QED BY <1>1, <1>5, <2>3, <2>5 DEF Placed, Rebuilding
<1> QED BY <1>6, <1>7 DEF Create

\* The copy in RAM has the blocks of the directory.
LEMMA RebuildEraseSpace == Basic /\ SpaceOK /\ RebuildErase => SpaceOK'
<1> SUFFICES ASSUME Basic, SpaceOK, RebuildErase, Clean'
             PROVE  (InRow(slots) /\ Apart(slots) /\ Placed(slots, copy))'
    BY DEF SpaceOK
<1>1. /\ pc = "rebuildErase" /\ UNCHANGED ram /\ pc' \in {"rebuildWrite", "idle"}
      /\ excused \subseteq excused' /\ copy' = copy
    BY DEF RebuildErase, Abandon, work
<1>2. Full(slots) /\ mounted
    BY <1>1 DEF Basic, PhaseOK, Opening, Rebuilding
<1>3. Clean /\ InRow(slots) /\ Apart(slots) /\ Placed(slots, copy)
    BY <1>1, CleanBefore DEF SpaceOK
<1>4. AboveOf(slots, minAllocOffset) /\ Apart(copy) /\ AboveOf(copy, minAllocOffset)
    BY <1>1, <1>2, <1>3 DEF Placed, Live, Opening, Rebuilding
<1>5. minAllocOffset' = minAllocOffset /\ sectorsUsed' = sectorsUsed
    BY <1>1 DEF ram
<1>6. CASE slots' = slots
    BY <1>1, <1>2, <1>3, <1>4, <1>5, <1>6 DEF Placed, Rebuilding
<1>7. CASE slots' = [i \in Slot |-> Erased]
  <2>1. \A i \in Slot : slots'[i] = Erased /\ BlockOf(slots'[i]) = {}
      BY <1>7, ErasedFacts
  <2>2. InRow(slots') /\ Apart(slots') /\ AboveOf(slots', minAllocOffset) /\ CoveredBy(slots', sectorsUsed)
      BY <2>1, NoBlocks DEF InRow
  <2> QED BY <1>1, <1>4, <1>5, <2>2 DEF Placed
<1> QED BY <1>6, <1>7 DEF RebuildErase

\* The directory is that copy again.
LEMMA RebuildWriteSpace == Basic /\ SpaceOK /\ RebuildWrite => SpaceOK'
<1> SUFFICES ASSUME Basic, SpaceOK, RebuildWrite, Clean'
             PROVE  (InRow(slots) /\ Apart(slots) /\ Placed(slots, copy))'
    BY DEF SpaceOK
<1>1. /\ pc = "rebuildWrite" /\ mounted' = mounted /\ minAllocOffset' = minAllocOffset
      /\ excused' = excused
    BY DEF RebuildWrite
<1>2. Full(copy) /\ Named(copy) /\ Known(copy) /\ scan \in Slot /\ mounted
    BY <1>1 DEF Basic, PhaseOK, Opening, Rebuilding
<1>3. Clean /\ InRow(slots) /\ Apart(slots) /\ Placed(slots, copy)
    BY <1>1 DEF SpaceOK, Clean
<1>4. /\ AboveOf(slots, minAllocOffset) /\ (~ Full(slots) => CoveredBy(slots, sectorsUsed))
      /\ Apart(copy) /\ AboveOf(copy, minAllocOffset)
    BY <1>1, <1>2, <1>3 DEF Placed, Live, Opening, Rebuilding
<1>5. CASE Abandon /\ UNCHANGED <<slots, copy, scan, sectorsUsed>>
    BY <1>1, <1>3, <1>4, <1>5 DEF Placed, Abandon, Rebuilding
<1>6. CASE slots' = copy /\ pc' \in {"find", "rebuildErase"}
  <2>1. Full(slots') /\ InRow(slots') /\ Apart(slots') /\ AboveOf(slots', minAllocOffset)
      BY <1>2, <1>4, <1>6 DEF Full, InRow
  <2>2. CASE pc' = "find"
      BY <1>1, <2>1, <2>2 DEF Placed, Rebuilding
  <2>3. CASE pc' = "rebuildErase"
    <3>1. scan # Slots /\ ReclaimInCopy(scan + 1)
        BY <2>3 DEF RebuildWrite, Abandon
    <3>2. scan + 1 \in Slot
        BY <1>2, <3>1, SlotFacts DEF Slot
    <3>3. \A j \in Slot : BlockOf(copy'[j]) \subseteq BlockOf(copy[j])
        BY <1>2, <3>1, <3>2, ReclaimFacts
    <3>4. Apart(copy') /\ AboveOf(copy', minAllocOffset)
        BY <1>4, <3>3, SmallerBlocks
    <3> QED BY <1>1, <2>1, <2>3, <3>4 DEF Placed
  <2> QED BY <1>6, <2>2, <2>3
<1> QED BY <1>5, <1>6 DEF RebuildWrite, work

\* A crash leaves no block that was not there, or adds the one being written.
LEMMA CrashSpace ==
    Basic /\ SpaceOK /\ (CrashBetween \/ CrashInDirectory \/ CrashInFile \/ Fault) => SpaceOK'
<1> SUFFICES ASSUME Basic, SpaceOK, CrashBetween \/ CrashInDirectory \/ CrashInFile \/ Fault, Clean'
             PROVE  (InRow(slots) /\ Apart(slots) /\ Placed(slots, copy))'
    BY DEF SpaceOK
<1>1. ~ CrashInDirectory
    BY DEF CrashInDirectory, Clean
<1>2. slots' = slots /\ excused' = excused /\ pc' = "mount"
    BY <1>1 DEF CrashBetween, CrashInFile, Fault, Crash, Restart
<1>3. Clean
    BY <1>2 DEF Clean
<1>4. Placed(slots, copy)'
    BY <1>2, PlacedRest DEF Phases, Live, Opening, Rebuilding
<1> QED BY <1>2, <1>3, <1>4 DEF SpaceOK

\* The blocks lie as the allocation needs it.
THEOREM SpaceInvariant == Spec => []SpaceOK
<1>1. Basic /\ SpaceOK /\ [Next]_vars => SpaceOK'
  <2> SUFFICES ASSUME Basic, SpaceOK, [Next]_vars PROVE SpaceOK'
      OBVIOUS
  <2>1. CASE UNCHANGED vars
      BY <2>1 DEF SpaceOK, Placed, Clean, vars, ram, work, count
  <2> QED BY <2>1, MountFindsSpace, FormatSpace, FormatWriteSpace, QuietSpace, FindSpace,
             ReplaceSpace, CreateSpace, RebuildEraseSpace, RebuildWriteSpace, CrashSpace DEF Next
<1> QED BY InitSpace, <1>1, DirectoryIsSound, PTL DEF Spec

\* No two entries have a sector in common, replaced ones included (BlocksDisjoint).
THEOREM BlocksNeverOverlap == Spec => []BlocksDisjoint
<1>1. SpaceOK => BlocksDisjoint
    BY DEF SpaceOK, Clean, Apart, BlocksDisjoint
<1> QED BY <1>1, SpaceInvariant, PTL

-----------------------------------------------------------------------------
(***************************************************************************)
(* The third layer: what the next mount finds.                             *)
(***************************************************************************)
\* k entries, sound and in order, and nothing after them
WellFormed(d, k) ==
    /\ k \in Slot /\ d[1].filename = Root
    /\ \A i \in Slot : i <= k => d[i].sequence = i - 1 /\ (IsReplaced(d[i]) \/ d[i].crc32 = "good")
    /\ \A i \in Slot : i > k => d[i] = Erased

\* Until a write of the directory fails the directory is well-formed and the
\* sequence numbers go on from it.  Where it may not be, nothing is kept.
MountsOK ==
    /\ pc \in Formatting => kept = Forgotten
    /\ pc = "mount" /\ mounted => kept = Forgotten
    /\ excused = {} =>
        /\ pc \in Live => mounted
        /\ pc \in Live \ {"create"} => WellFormed(slots, nextSequence)
        /\ pc = "create" => /\ WellFormed(slots, nextSequence - 1)
                            /\ request.slot = nextSequence
                            /\ copy[request.slot].sequence = nextSequence - 1
        /\ pc = "mount" => kept = Forgotten \/ \E k \in Slot : WellFormed(slots, k)
        /\ pc # "rebuildWrite"

\* the blocks of the files hold what was saved in them
Stored(d, sec, ke) ==
    \A n \in Names : ke[n] # Absent =>
        /\ ke[n] # Empty
        /\ \E i \in Slot : d[i].filename = n /\ \A s \in BlockOf(d[i]) : sec[s] = ke[n]

KeptOK ==
    /\ DOMAIN kept = Names
    /\ pc = "replace" => kept[request.name] = Absent
    /\ excused = {} => Stored(slots, sector, kept)

\* A row of sound entries is well-formed, and there are as many as were scanned.
LEMMA ScannedIsWellFormed ==
    ASSUME Known(slots), InRow(slots), slots[1].filename = Root, \A i \in Scanned : Sound(i)
    PROVE  WellFormed(slots, Cardinality(Scanned))
<1> DEFINE E == {i \in Slot : slots[i] = Erased}
<1>1. PICK k \in Slot : /\ \A i \in Slot : i <= k => slots[i] # Erased
                        /\ \A i \in Slot : i > k => slots[i] = Erased
  <2>1. CASE E = {}
    <3>1. \A i \in Slot : i <= Slots /\ slots[i] # Erased
        BY <2>1 DEF Slot
    <3>2. Slots \in Slot /\ \A i \in Slot : ~ (i > Slots)
        BY <3>1, SlotFacts
    <3> QED BY <3>1, <3>2
  <2>2. CASE E # {}
    <3>1. PICK m \in E : \A j \in E : m <= j
        BY <2>2, LeastExists, SlotFacts
    <3>2. m \in Slot /\ m # 1 /\ slots[m] = Erased
        BY <3>1, ErasedFacts, NamesApart
    <3>3. m - 1 \in Slot
        BY <3>2, SlotFacts DEF Slot
    <3>4. ASSUME NEW i \in Slot, i <= m - 1 PROVE slots[i] # Erased
      <4>1. ~ (m <= i)
          BY <3>2, <3>4, SlotFacts
      <4> QED BY <3>1, <4>1
    <3>5. ASSUME NEW i \in Slot, i > m - 1 PROVE slots[i] = Erased
      <4>1. i = m \/ m < i
          BY <3>2, <3>5, SlotFacts
      <4> QED BY <3>2, <4>1 DEF InRow
    <3> QED BY <3>3, <3>4, <3>5
  <2> QED BY <2>1, <2>2
<1>2. k \in Nat
    BY SlotFacts
<1>3. Scanned = 1 .. k
  <2>1. \A i \in 1 .. k : i \in Slot /\ i <= k
      BY SlotFacts DEF Slot
  <2>2. \A i \in 1 .. k : i \in Scanned
    <3> SUFFICES ASSUME NEW i \in 1 .. k PROVE i \in Scanned
        OBVIOUS
    <3>1. i \in Slot
        BY <2>1
    <3>2. \A j \in 1 .. i : j \in 1 .. k
        BY <1>2
    <3>3. \A j \in 1 .. i : slots[j] # Erased
        BY <1>1, <2>1, <3>2
    <3> QED BY <3>1, <3>3 DEF Scanned
  <2>3. \A i \in Scanned : i \in 1 .. k
    <3> SUFFICES ASSUME NEW i \in Scanned PROVE i \in 1 .. k
        OBVIOUS
    <3>1. i \in Slot /\ i \in 1 .. i
        BY DEF Scanned, Slot
    <3>2. slots[i] # Erased
        BY <3>1 DEF Scanned
    <3>3. ~ (i > k)
        BY <1>1, <3>1, <3>2
    <3> QED BY <1>2, <3>1, <3>3, SlotFacts DEF Slot
  <2> QED BY <2>2, <2>3
<1>4. Cardinality(Scanned) = k
    BY <1>2, <1>3, FS_Interval DEF Slot
<1>5. \A i \in Slot : i <= k => slots[i].sequence = i - 1 /\ (IsReplaced(slots[i]) \/ slots[i].crc32 = "good")
  <2> SUFFICES ASSUME NEW i \in Slot, i <= k
               PROVE  slots[i].sequence = i - 1 /\ (IsReplaced(slots[i]) \/ slots[i].crc32 = "good")
      OBVIOUS
  <2>1. i \in Scanned
      BY <1>2, <1>3 DEF Slot
  <2> QED BY <2>1 DEF Sound
<1>6. WellFormed(slots, k)
    BY <1>1, <1>5 DEF WellFormed
<1> QED BY <1>4, <1>6

\* A mount finds a well-formed directory.
LEMMA WellFormedMounts ==
    ASSUME NEW k, WellFormed(slots, k)
    PROVE  slots[1].filename = Root /\ \A i \in Scanned : Sound(i)
<1>1. ASSUME NEW i \in Scanned PROVE Sound(i)
  <2>1. i \in Slot /\ i \in 1 .. i
      BY DEF Scanned, Slot
  <2>2. slots[i] # Erased
      BY <2>1 DEF Scanned
  <2>3. k \in Slot /\ ~ (i > k)
      BY <2>1, <2>2 DEF WellFormed
  <2>4. i <= k
      BY <2>1, <2>3, SlotFacts
  <2> QED BY <2>1, <2>4 DEF WellFormed, Sound
<1> QED BY <1>1 DEF WellFormed

\* Nothing is kept of a store that is formatted.
LEMMA ForgottenFacts ==
    ASSUME NEW ke, ke = Forgotten
    PROVE  /\ DOMAIN ke = Names /\ \A n \in Names : ke[n] = Absent
           /\ \A d, sec : Stored(d, sec, ke)
BY DEF Forgotten, Stored

\* What is no longer kept need not be stored.
LEMMA StoredLess ==
    ASSUME NEW d, NEW sec, NEW ke, DOMAIN ke = Names, Stored(d, sec, ke), NEW m \in Names,
           NEW kf, kf = [ke EXCEPT ![m] = Absent]
    PROVE  Stored(d, sec, kf) /\ DOMAIN kf = Names
<1>1. DOMAIN kf = Names /\ \A n \in Names : kf[n] = IF n = m THEN Absent ELSE ke[n]
    OBVIOUS
<1>2. Stored(d, sec, kf)
  <2> SUFFICES ASSUME NEW n \in Names, kf[n] # Absent
               PROVE  /\ kf[n] # Empty
                      /\ \E i \in Slot : d[i].filename = n /\ \A s \in BlockOf(d[i]) : sec[s] = kf[n]
      BY DEF Stored
  <2>1. kf[n] = ke[n]
      BY <1>1
  <2> QED BY <2>1 DEF Stored
<1> QED BY <1>1, <1>2

Kept == MountsOK /\ KeptOK

\* Nothing is kept at the start.
LEMMA InitKept == Init => Kept
<1> SUFFICES ASSUME Init PROVE Kept
    OBVIOUS
<1>1. kept = Forgotten /\ pc = "mount"
    BY DEF Init, Forgotten
<1>2. MountsOK
    BY <1>1 DEF MountsOK, Formatting, Live, Opening, Rebuilding
<1>3. KeptOK
    BY <1>1, ForgottenFacts DEF KeptOK
<1> QED BY <1>2, <1>3 DEF Kept

\* A mount that finds the directory keeps what it holds.
LEMMA MountFindsKept == Basic /\ SpaceOK /\ Kept /\ MountFinds => Kept'
<1> SUFFICES ASSUME Basic, SpaceOK, Kept, MountFinds PROVE Kept'
    OBVIOUS
<1>1. /\ pc' = "idle" /\ mounted' = TRUE /\ slots' = slots /\ sector' = sector /\ kept' = kept
      /\ excused' = excused /\ nextSequence' = Cardinality(Scanned)
    BY DEF MountFinds
<1>2. ASSUME excused = {} PROVE WellFormed(slots, Cardinality(Scanned))
  <2>1. InRow(slots)
      BY <1>2 DEF SpaceOK, Clean
  <2> QED BY <2>1, ScannedIsWellFormed DEF MountFinds, Basic
<1>3. MountsOK'
    BY <1>1, <1>2 DEF MountsOK, Formatting
<1>4. KeptOK'
    BY <1>1 DEF Kept, KeptOK
<1> QED BY <1>3, <1>4 DEF Kept

\* A format forgets what was kept.
LEMMA FormatKept == Basic /\ SpaceOK /\ Kept /\ (MountFormats \/ FactoryReset \/ FormatErase) => Kept'
<1> SUFFICES ASSUME Basic, SpaceOK, Kept, MountFormats \/ FactoryReset \/ FormatErase PROVE Kept'
    OBVIOUS
<1>1. pc' \in Formatting
    BY DEF MountFormats, FactoryReset, FormatErase, Formatting
<1>2. kept' = Forgotten
  <2>1. CASE MountFormats
    <3>1. CASE excused = {}
      <4>1. kept = Forgotten \/ \E k \in Slot : WellFormed(slots, k)
          BY <2>1, <3>1 DEF Kept, MountsOK, MountFormats
      <4>2. kept = Forgotten
          BY <2>1, <4>1, WellFormedMounts DEF MountFormats
      <4> QED BY <2>1, <3>1, <4>2 DEF MountFormats
    <3>2. CASE excused # {}
        BY <2>1, <3>2 DEF MountFormats
    <3> QED BY <3>1, <3>2
  <2>2. CASE FactoryReset
      BY <2>2 DEF FactoryReset
  <2>3. CASE FormatErase
      BY <2>3 DEF FormatErase, Kept, MountsOK, Formatting
  <2> QED BY <2>1, <2>2, <2>3
<1>3. MountsOK'
    BY <1>1, <1>2 DEF MountsOK, Formatting, Live, Opening, Rebuilding
<1>4. KeptOK'
    BY <1>1, <1>2, ForgottenFacts DEF KeptOK, Formatting
<1> QED BY <1>3, <1>4 DEF Kept

\* The root entry stores no file.
LEMMA FormatWriteKept == Basic /\ SpaceOK /\ Kept /\ FormatWrite => Kept'
<1> SUFFICES ASSUME Basic, SpaceOK, Kept, FormatWrite PROVE Kept'
    OBVIOUS
<1>1. kept = Forgotten /\ kept' = kept /\ pc' \in {"mount", "idle"}
    BY DEF FormatWrite, Kept, MountsOK, Formatting
<1>2. CASE slots' = Formatted
  <2>1. mounted' = TRUE /\ nextSequence' = 1
      BY <1>2 DEF FormatWrite
  <2>2. \A i \in Slot : slots'[i] = IF i = 1 THEN RootEntry ELSE Erased
      BY <1>2 DEF Formatted
  <2>3. WellFormed(slots', 1)
    <3>1. 1 \in Slot /\ slots'[1] = RootEntry
        BY <2>2, SlotFacts
    <3>2. \A i \in Slot : i <= 1 => i = 1
        BY DEF Slot
    <3>3. \A i \in Slot : i > 1 => i # 1
        BY DEF Slot
    <3> QED BY <2>2, <3>1, <3>2, <3>3, RootFacts DEF WellFormed
  <2>4. MountsOK'
      BY <1>1, <2>1, <2>3 DEF MountsOK, Formatting
  <2> QED BY <1>1, <2>4, ForgottenFacts DEF Kept, KeptOK
<1>3. CASE slots' # Formatted
  <2>1. excused' = {} => pc' = "mount"
      BY <1>3 DEF FormatWrite
  <2>2. MountsOK'
      BY <1>1, <2>1 DEF MountsOK, Formatting, Live, Opening, Rebuilding
  <2> QED BY <1>1, <2>2, ForgottenFacts DEF Kept, KeptOK
<1> QED BY <1>2, <1>3

\* The start of a save changes no file.
LEMMA OpenKept ==
    ASSUME Basic, SpaceOK, Kept, NEW n \in Names, NEW size \in MaxSizes, OpenWrite(n, size)
    PROVE  Kept'
<1>1. /\ pc = "idle" /\ pc' = "find" /\ slots' = slots /\ sector' = sector /\ kept' = kept
      /\ excused' = excused /\ nextSequence' = nextSequence /\ mounted' = mounted
    BY DEF OpenWrite, ram
<1>2. MountsOK'
    BY <1>1 DEF Kept, MountsOK, Formatting, Live, Opening
<1>3. KeptOK'
    BY <1>1 DEF Kept, KeptOK
<1> QED BY <1>2, <1>3 DEF Kept

\* Nor does the choice of an entry.
LEMMA FindKept == Basic /\ SpaceOK /\ Kept /\ Find => Kept'
<1> SUFFICES ASSUME Basic, SpaceOK, Kept, Find PROVE Kept'
    OBVIOUS
<1>1. /\ pc = "find" /\ slots' = slots /\ mounted' = mounted /\ excused' = excused /\ mounted
      /\ sector' = sector /\ request.name \in Names /\ DOMAIN kept = Names
    BY DEF Find, FindExisting, FindSmaller, FindReclaimed, FindErased, FindNoRoom, FindFull,
           Finding, ram, Basic, PhaseOK, Opening, Kept, KeptOK
<1>2. excused = {} => WellFormed(slots, nextSequence)
    BY <1>1 DEF Kept, MountsOK, Live, Opening
<1>3. excused = {} => Stored(slots, sector, kept)
    BY DEF Kept, KeptOK
<1>4. CASE FindExisting \/ FindReclaimed \/ FindNoRoom \/ FindFull
  <2>1. /\ kept' = kept /\ nextSequence' = nextSequence
        /\ pc' \in {"data", "fault", "idle", "rebuildErase"}
      BY <1>4 DEF FindExisting, FindReclaimed, FindNoRoom, FindFull, Finding, ram
  <2>2. MountsOK'
      BY <1>1, <1>2, <2>1 DEF MountsOK, Formatting
  <2>3. KeptOK'
      BY <1>1, <1>3, <2>1 DEF KeptOK
  <2> QED BY <2>2, <2>3 DEF Kept
<1>5. CASE FindSmaller
  <2>1. /\ kept' = [kept EXCEPT ![request.name] = Absent] /\ nextSequence' = nextSequence
        /\ pc' = "replace" /\ request'.name = request.name
      BY <1>5 DEF FindSmaller, Finding, ram, Basic, PhaseOK
  <2>2. MountsOK'
      BY <1>1, <1>2, <2>1 DEF MountsOK, Formatting
  <2>3. excused' = {} => Stored(slots', sector', kept')
      BY <1>1, <1>3, <2>1, StoredLess
  <2>4. DOMAIN kept' = Names /\ kept'[request'.name] = Absent
      BY <1>1, <2>1
  <2> QED BY <2>2, <2>3, <2>4 DEF Kept, KeptOK
<1>6. CASE FindErased
  <2>1. /\ kept' = kept /\ nextSequence' = nextSequence + 1 /\ pc' = "create"
        /\ request'.slot = FirstFree
      BY <1>6 DEF FindErased, Finding, Basic, PhaseOK
  <2>2. FirstFree \in Slot /\ slots[FirstFree] = Erased
    <3>1. FirstFree \in Slot /\ IsFree(slots[FirstFree]) /\ ~ IsAssigned(slots[FirstFree])
        BY <1>6, FirstFreeFacts DEF FindErased
    <3> QED BY <3>1, FreeFacts DEF Basic, Known
  <2>3. copy'[FirstFree].sequence = nextSequence
    <3>1. PICK e : /\ copy' = [slots EXCEPT ![FirstFree] = e]
                   /\ e = NewEntry(nextSequence, request.name, request.maxSize, Allocation)
        BY <1>6 DEF FindErased
    <3> QED BY <2>2, <3>1 DEF NewEntry, Basic, Known
  <2>4. nextSequence \in Nat
      BY DEF Basic, TypeOK
  <2>5. ASSUME excused = {} PROVE FirstFree = nextSequence + 1
    <3>1. WellFormed(slots, nextSequence) /\ nextSequence \in Slot
        BY <1>2, <2>5 DEF WellFormed
    <3>2. FirstFree > nextSequence
      <4> SUFFICES ASSUME FirstFree <= nextSequence PROVE FALSE
          BY <2>2, <2>4, SlotFacts
      <4>1. FirstFree \in Nat
          BY <2>2, SlotFacts
      <4>2. Erased.sequence = FirstFree - 1
          BY <2>2, <3>1 DEF WellFormed
      <4> QED BY <2>2, <4>1, <4>2, ErasedFacts DEF Unset, Slot
    <3>3. ASSUME nextSequence + 1 < FirstFree PROVE FALSE
      <4>1. nextSequence + 1 \in Slot
          BY <2>2, <2>4, <3>3, SlotFacts DEF Slot
      <4>2. slots[nextSequence + 1] = Erased
          BY <2>4, <3>1, <4>1 DEF WellFormed
      <4>3. IsFree(slots[nextSequence + 1])
          BY <4>1, <4>2, FreeFacts, ErasedFacts
      <4> QED BY <2>2, <3>3, <4>1, <4>3, FirstFreeFacts, SlotFacts
    <3> QED BY <2>2, <2>4, <3>2, <3>3, SlotFacts
  <2>6. MountsOK'
    <3>1. nextSequence' - 1 = nextSequence
        BY <2>1, <2>4
    <3> QED BY <1>1, <1>2, <2>1, <2>3, <2>5, <3>1 DEF MountsOK, Formatting, Live, Opening
  <2>7. KeptOK'
      BY <1>1, <1>3, <2>1 DEF KeptOK
  <2> QED BY <2>6, <2>7 DEF Kept
<1> QED BY <1>4, <1>5, <1>6 DEF Find

\* Marking an entry loses the file of that name only.
LEMMA ReplaceKept == Basic /\ SpaceOK /\ Kept /\ Replace => Kept'
<1> SUFFICES ASSUME Basic, SpaceOK, Kept, Replace PROVE Kept'
    OBVIOUS
<1>1. /\ pc = "replace" /\ excused' = excused /\ UNCHANGED ram /\ pc' \in {"find", "idle"}
      /\ kept' = kept /\ sector' = sector /\ nextSequence' = nextSequence /\ mounted' = mounted
    BY DEF Replace, Abandon, ram
<1>2. /\ request.name \in Names /\ request.slot \in Slot
      /\ slots[request.slot].filename = request.name /\ mounted
    BY <1>1 DEF Basic, PhaseOK, Opening
<1>3. kept[request.name] = Absent /\ DOMAIN kept = Names
    BY <1>1 DEF Kept, KeptOK
<1>4. excused = {} => WellFormed(slots, nextSequence) /\ Stored(slots, sector, kept)
    BY <1>1 DEF Kept, KeptOK, MountsOK, Live, Opening
<1>5. CASE slots' = slots
    BY <1>1, <1>2, <1>3, <1>4, <1>5 DEF Kept, MountsOK, KeptOK, Formatting
<1>6. CASE slots' = [slots EXCEPT ![request.slot] = Replaced(@)]
  <2>1. PICK e : e = Replaced(slots[request.slot]) /\ slots' = [slots EXCEPT ![request.slot] = e]
      BY <1>6
  <2>2. EntryOK(slots[request.slot])
      BY <1>2 DEF Basic, Known
  <2>3. e.filename = Zeros /\ e.sequence = slots[request.slot].sequence
      BY <1>2, <2>1, <2>2, ReplacedFacts
  <2>4. \A i \in Slot : slots'[i] = IF i = request.slot THEN e ELSE slots[i]
      BY <2>1 DEF Basic, Known
  <2>5. ASSUME WellFormed(slots, nextSequence) PROVE WellFormed(slots', nextSequence)
    <3>1. request.slot # 1
        BY <1>2, <2>5, NamesApart DEF WellFormed
    <3>2. slots[request.slot] # Erased
        BY <1>2, ErasedFacts, NamesApart
    <3>3. ~ (request.slot > nextSequence)
        BY <1>2, <2>5, <3>2 DEF WellFormed
    <3>4. slots'[1] = slots[1] /\ IsReplaced(e)
        BY <2>3, <2>4, <3>1, SlotFacts DEF IsReplaced
    <3> QED BY <2>3, <2>4, <2>5, <3>3, <3>4 DEF WellFormed
  <2>6. ASSUME Stored(slots, sector, kept) PROVE Stored(slots', sector, kept)
    <3> SUFFICES ASSUME NEW n \in Names, kept[n] # Absent
                 PROVE  /\ kept[n] # Empty
                        /\ \E i \in Slot : slots'[i].filename = n
                                           /\ \A s \in BlockOf(slots'[i]) : sector[s] = kept[n]
        BY DEF Stored
    <3>1. PICK i \in Slot : slots[i].filename = n /\ \A s \in BlockOf(slots[i]) : sector[s] = kept[n]
        BY <2>6 DEF Stored
    <3>2. n # request.name
        BY <1>3
    <3>3. slots'[i] = slots[i]
        BY <1>2, <2>4, <3>1, <3>2
    <3> QED BY <2>6, <3>1, <3>3 DEF Stored
  <2>7. MountsOK'
      BY <1>1, <1>2, <1>4, <2>5 DEF MountsOK, Formatting
  <2>8. KeptOK'
      BY <1>1, <1>3, <1>4, <2>6 DEF KeptOK
  <2> QED BY <2>7, <2>8 DEF Kept
<1> QED BY <1>5, <1>6 DEF Replace

\* A new entry hides no file.
LEMMA CreateKept == Basic /\ SpaceOK /\ Kept /\ Create => Kept'
<1> SUFFICES ASSUME Basic, SpaceOK, Kept, Create PROVE Kept'
    OBVIOUS
<1>1. /\ pc = "create" /\ pc' \in {"data", "idle"} /\ kept' = kept /\ sector' = sector
      /\ nextSequence' = nextSequence /\ mounted' = mounted
    BY DEF Create, Abandon, ram
<1>2. /\ Creates(slots, copy, request) /\ mounted /\ nextSequence \in Nat /\ DOMAIN kept = Names
    BY <1>1 DEF Basic, PhaseOK, Opening, TypeOK, Kept, KeptOK
<1>3. CASE excused' # {}
    BY <1>1, <1>2, <1>3 DEF Kept, MountsOK, KeptOK, Formatting
<1>4. CASE excused' = {}
  <2>1. excused = {} /\ slots' = [slots EXCEPT ![request.slot] = copy[request.slot]] /\ pc' = "data"
      BY <1>4 DEF Create
  <2>2. /\ WellFormed(slots, nextSequence - 1) /\ request.slot = nextSequence
        /\ copy[request.slot].sequence = nextSequence - 1 /\ Stored(slots, sector, kept)
      BY <1>1, <2>1 DEF Kept, KeptOK, MountsOK
  <2>3. /\ request.slot \in Slot /\ slots[request.slot] = Erased /\ copy[request.slot].crc32 = "good"
      BY <1>2 DEF Creates
  <2>4. PICK e : e = copy[request.slot] /\ slots' = [slots EXCEPT ![request.slot] = e]
      BY <2>1
  <2>5. \A i \in Slot : slots'[i] = IF i = request.slot THEN e ELSE slots[i]
      BY <2>4 DEF Basic, Known
  <2>6. WellFormed(slots', nextSequence)
    <3>1. nextSequence \in Slot /\ slots'[1].filename = Root
      <4>1. nextSequence - 1 \in Slot
          BY <2>2 DEF WellFormed
      <4>2. nextSequence # 1
          BY <4>1 DEF Slot
      <4> QED BY <2>2, <2>3, <2>5, <4>2, SlotFacts DEF WellFormed
    <3>2. ASSUME NEW i \in Slot, i <= nextSequence
          PROVE  slots'[i].sequence = i - 1 /\ (IsReplaced(slots'[i]) \/ slots'[i].crc32 = "good")
      <4>1. CASE i = nextSequence
          BY <2>2, <2>3, <2>4, <2>5, <4>1
      <4>2. CASE i # nextSequence
        <5>1. i <= nextSequence - 1
            BY <1>2, <3>2, <4>2, SlotFacts
        <5> QED BY <2>2, <2>5, <4>2, <5>1 DEF WellFormed
      <4> QED BY <4>1, <4>2
    <3>3. ASSUME NEW i \in Slot, i > nextSequence PROVE slots'[i] = Erased
      <4>1. i > nextSequence - 1 /\ i # nextSequence
          BY <1>2, <3>3, SlotFacts
      <4> QED BY <2>2, <2>5, <4>1 DEF WellFormed
    <3> QED BY <3>1, <3>2, <3>3 DEF WellFormed
  <2>7. Stored(slots', sector, kept)
    <3> SUFFICES ASSUME NEW n \in Names, kept[n] # Absent
                 PROVE  /\ kept[n] # Empty
                        /\ \E i \in Slot : slots'[i].filename = n
                                           /\ \A s \in BlockOf(slots'[i]) : sector[s] = kept[n]
        BY DEF Stored
    <3>1. PICK i \in Slot : slots[i].filename = n /\ \A s \in BlockOf(slots[i]) : sector[s] = kept[n]
        BY <2>2 DEF Stored
    <3>2. slots'[i] = slots[i]
        BY <2>3, <2>5, <3>1, ErasedFacts, NamesApart
    <3> QED BY <2>2, <3>1, <3>2 DEF Stored
  <2>8. MountsOK'
      BY <1>1, <1>2, <2>1, <2>6 DEF MountsOK, Formatting
  <2>9. KeptOK'
      BY <1>1, <1>2, <2>7 DEF KeptOK
  <2> QED BY <2>8, <2>9 DEF Kept
<1> QED BY <1>3, <1>4

\* Writing in the block of one file leaves the others as they were.
LEMMA OtherBlocks ==
    ASSUME NEW d, Apart(d), NEW sec, NEW sec2, NEW ke, Stored(d, sec, ke),
           NEW k \in Slot, \A s \in Sectors : s \notin BlockOf(d[k]) => sec2[s] = sec[s],
           NEW n \in Names, ke[n] # Absent, n # d[k].filename
    PROVE  /\ ke[n] # Empty
           /\ \E i \in Slot : d[i].filename = n /\ \A s \in BlockOf(d[i]) : sec2[s] = ke[n]
<1>1. PICK i \in Slot : d[i].filename = n /\ \A s \in BlockOf(d[i]) : sec[s] = ke[n]
    BY DEF Stored
<1>2. BlockOf(d[i]) \cap BlockOf(d[k]) = {}
    BY <1>1 DEF Apart
<1>3. \A s \in BlockOf(d[i]) : s \in Sectors
    BY DEF BlockOf
<1>4. \A s \in BlockOf(d[i]) : sec2[s] = ke[n]
    BY <1>1, <1>2, <1>3
<1> QED BY <1>1, <1>4 DEF Stored

\* A save writes in its own block only.
LEMMA SaveKept == Basic /\ SpaceOK /\ Kept /\ SaveData => Kept'
<1> SUFFICES ASSUME Basic, SpaceOK, Kept, SaveData PROVE Kept'
    OBVIOUS
<1>1. /\ pc = "data" /\ pc' = "idle" /\ slots' = slots /\ excused' = excused
      /\ nextSequence' = nextSequence /\ mounted' = mounted
    BY DEF SaveData, Abandon, ram
<1>2. /\ request.name \in Names /\ request.slot \in Slot
      /\ slots[request.slot].filename = request.name
    BY <1>1 DEF Basic, PhaseOK, Opening
<1>3. PICK content :
          /\ content = <<request.name, saves>>
          /\ sector' = [s \in Sectors |-> IF s \in BlockOf(slots[request.slot]) THEN content ELSE sector[s]]
          /\ kept' = [kept EXCEPT ![request.name] = content]
    BY DEF SaveData
<1>4. content # Empty
    BY <1>3 DEF Empty
<1>5. DOMAIN kept = Names
    BY DEF Kept, KeptOK
<1>6. /\ DOMAIN kept' = Names
      /\ \A n \in Names : kept'[n] = IF n = request.name THEN content ELSE kept[n]
    BY <1>2, <1>3, <1>5
<1>7. MountsOK'
    BY <1>1 DEF Kept, MountsOK, Formatting, Live, Opening
<1>8. ASSUME excused' = {} PROVE Stored(slots', sector', kept')
  <2>1. Apart(slots) /\ Stored(slots, sector, kept)
      BY <1>1, <1>8 DEF SpaceOK, Clean, Kept, KeptOK
  <2>2. /\ \A s \in Sectors : s \notin BlockOf(slots[request.slot]) => sector'[s] = sector[s]
        /\ \A s \in BlockOf(slots[request.slot]) : sector'[s] = content
      BY <1>3 DEF BlockOf
  <2> SUFFICES ASSUME NEW n \in Names, kept'[n] # Absent
               PROVE  /\ kept'[n] # Empty
                      /\ \E i \in Slot : slots[i].filename = n
                                         /\ \A s \in BlockOf(slots[i]) : sector'[s] = kept'[n]
      BY <1>1 DEF Stored
  <2>3. CASE n = request.name
      BY <1>2, <1>4, <1>6, <2>2, <2>3
  <2>4. CASE n # request.name
    <3>1. kept'[n] = kept[n]
        BY <1>6, <2>4
    <3> QED BY <1>2, <2>1, <2>2, <2>4, <3>1, OtherBlocks
  <2> QED BY <2>3, <2>4
<1>9. KeptOK'
    BY <1>1, <1>6, <1>8 DEF KeptOK
<1> QED BY <1>7, <1>9 DEF Kept

\* A removal loses the file of that name only.
LEMMA RemoveKept ==
    ASSUME Basic, SpaceOK, Kept, NEW m \in Names, Remove(m) PROVE Kept'
<1>1. /\ pc = "idle" /\ pc' = pc /\ slots' = slots /\ excused' = excused
      /\ nextSequence' = nextSequence /\ mounted' = mounted
    BY DEF Remove, ram
<1>2. PICK k \in Slot : k = Lookup(m) /\ slots[k].filename = m
    BY LookupFacts DEF Remove
<1>3. /\ DOMAIN kept = Names /\ kept' = [kept EXCEPT ![m] = Absent]
      /\ sector' = [sector EXCEPT ![slots[k].flashOffset] = Empty]
    BY <1>2 DEF Remove, Kept, KeptOK
<1>4. /\ DOMAIN kept' = Names
      /\ \A n \in Names : kept'[n] = IF n = m THEN Absent ELSE kept[n]
    BY <1>3
<1>5. slots[k].flashOffset \in BlockOf(slots[k])
  <2>1. EntryOK(slots[k])
      BY DEF Basic, Known
  <2>2. PICK at, size : at = slots[k].flashOffset /\ size = slots[k].maxSize
      OBVIOUS
  <2>3. at \in Nat /\ size \in Nat \ {0} /\ at + size <= DataSectors
      BY <1>2, <2>1, <2>2, SlotFacts DEF EntryOK, Entry
  <2>4. at \in Sectors /\ at <= at /\ at < at + size
      BY <2>3, SlotFacts DEF Sectors
  <2> QED BY <2>2, <2>4 DEF BlockOf
<1>6. MountsOK'
    BY <1>1 DEF Kept, MountsOK, Formatting, Live
<1>7. ASSUME excused' = {} PROVE Stored(slots', sector', kept')
  <2>1. Apart(slots) /\ Stored(slots, sector, kept)
      BY <1>1, <1>7 DEF SpaceOK, Clean, Kept, KeptOK
  <2>2. \A s \in Sectors : s \notin BlockOf(slots[k]) => sector'[s] = sector[s]
      BY <1>3, <1>5 DEF Basic, TypeOK
  <2> SUFFICES ASSUME NEW n \in Names, kept'[n] # Absent
               PROVE  /\ kept'[n] # Empty
                      /\ \E i \in Slot : slots[i].filename = n
                                         /\ \A s \in BlockOf(slots[i]) : sector'[s] = kept'[n]
      BY <1>1 DEF Stored
  <2>3. n # m /\ kept'[n] = kept[n]
      BY <1>4
  <2> QED BY <1>2, <2>1, <2>2, <2>3, OtherBlocks
<1>8. KeptOK'
    BY <1>1, <1>4, <1>7 DEF KeptOK
<1> QED BY <1>6, <1>8 DEF Kept

\* A rebuild keeps every file that has a name.
LEMMA RebuildKept == Basic /\ SpaceOK /\ Kept /\ (RebuildErase \/ RebuildWrite) => Kept'
<1> SUFFICES ASSUME Basic, SpaceOK, Kept, RebuildErase \/ RebuildWrite PROVE Kept'
    OBVIOUS
<1>1. excused' # {}
    BY DEF RebuildErase, RebuildWrite, Kept, MountsOK
<1>2. kept' = kept /\ pc' \notin Formatting /\ pc' # "mount" /\ pc' # "replace"
    BY DEF RebuildErase, RebuildWrite, Abandon, Formatting
<1>3. DOMAIN kept = Names
    BY DEF Kept, KeptOK
<1> QED BY <1>1, <1>2, <1>3 DEF Kept, MountsOK, KeptOK

\* After a restart whatever is kept is in a well-formed directory.
LEMMA CrashMounts ==
    ASSUME Basic, Kept, excused = {}
    PROVE  kept = Forgotten \/ \E k \in Slot : WellFormed(slots, k)
<1>1. pc \in {"mount"} \cup Formatting \cup {"create"} \cup (Live \ {"create"})
    BY DEF Basic, TypeOK, Phases, Formatting, Live, Opening, Rebuilding
<1>2. CASE pc \in {"mount"} \cup Formatting
    BY <1>2 DEF Kept, MountsOK
<1>3. CASE pc = "create"
  <2>1. WellFormed(slots, nextSequence - 1)
      BY <1>3 DEF Kept, MountsOK
  <2>2. PICK k : k = nextSequence - 1
      OBVIOUS
  <2> QED BY <2>1, <2>2 DEF WellFormed
<1>4. CASE pc \in Live \ {"create"}
    BY <1>4 DEF Kept, MountsOK, WellFormed
<1> QED BY <1>1, <1>2, <1>3, <1>4

\* After a crash the next mount finds what was kept.
LEMMA CrashKept ==
    Basic /\ SpaceOK /\ Kept /\ (CrashBetween \/ CrashInDirectory \/ CrashInFile \/ Fault) => Kept'
<1> SUFFICES ASSUME Basic, SpaceOK, Kept, CrashBetween \/ CrashInDirectory \/ CrashInFile \/ Fault
             PROVE  Kept'
    OBVIOUS
<1>1. pc' = "mount" /\ mounted' = FALSE /\ DOMAIN kept = Names
    BY DEF CrashBetween, CrashInDirectory, CrashInFile, Fault, Crash, Restart, Kept, KeptOK
<1>2. CASE CrashInDirectory
  <2>1. excused' # {} /\ kept' = kept
      BY <1>2 DEF CrashInDirectory
  <2> QED BY <1>1, <2>1 DEF Kept, MountsOK, KeptOK, Formatting
<1>3. CASE CrashBetween \/ Fault
  <2>1. excused' = excused /\ kept' = kept /\ slots' = slots /\ sector' = sector
      BY <1>3 DEF CrashBetween, Fault
  <2>2. excused' = {} => kept' = Forgotten \/ \E k \in Slot : WellFormed(slots', k)
      BY <2>1, CrashMounts
  <2>3. MountsOK'
      BY <1>1, <2>2 DEF MountsOK, Formatting, Live, Opening, Rebuilding
  <2>4. KeptOK'
      BY <1>1, <2>1 DEF Kept, KeptOK
  <2> QED BY <2>3, <2>4 DEF Kept
<1>4. CASE CrashInFile
  <2>1. /\ pc = "data" /\ excused' = excused /\ slots' = slots
        /\ kept' = [kept EXCEPT ![request.name] = Absent]
        /\ sector' = [s \in Sectors |-> IF s \in BlockOf(slots[request.slot]) THEN Wreck ELSE sector[s]]
      BY <1>4 DEF CrashInFile
  <2>2. /\ request.name \in Names /\ request.slot \in Slot
        /\ slots[request.slot].filename = request.name
      BY <2>1 DEF Basic, PhaseOK, Opening
  <2>3. /\ DOMAIN kept' = Names
        /\ \A n \in Names : kept'[n] = IF n = request.name THEN Absent ELSE kept[n]
      BY <1>1, <2>1, <2>2
  <2>4. ASSUME excused' = {} PROVE Stored(slots', sector', kept')
    <3>1. Apart(slots) /\ Stored(slots, sector, kept)
        BY <2>1, <2>4 DEF SpaceOK, Clean, Kept, KeptOK
    <3>2. \A s \in Sectors : s \notin BlockOf(slots[request.slot]) => sector'[s] = sector[s]
        BY <2>1
    <3> SUFFICES ASSUME NEW n \in Names, kept'[n] # Absent
                 PROVE  /\ kept'[n] # Empty
                        /\ \E i \in Slot : slots[i].filename = n
                                           /\ \A s \in BlockOf(slots[i]) : sector'[s] = kept'[n]
        BY <2>1 DEF Stored
    <3>3. n # request.name /\ kept'[n] = kept[n]
        BY <2>3
    <3> QED BY <2>2, <3>1, <3>2, <3>3, OtherBlocks
  <2>5. ASSUME excused' = {} PROVE \E k \in Slot : WellFormed(slots', k)
    <3>1. WellFormed(slots, nextSequence)
        BY <2>1, <2>5 DEF Kept, MountsOK, Live, Opening
    <3> QED BY <2>1, <3>1 DEF WellFormed
  <2>6. MountsOK'
      BY <1>1, <2>5 DEF MountsOK, Formatting, Live, Opening, Rebuilding
  <2>7. KeptOK'
      BY <1>1, <2>3, <2>4 DEF KeptOK
  <2> QED BY <2>6, <2>7 DEF Kept
<1> QED BY <1>2, <1>3, <1>4

\* What was saved is in the directory that the next mount finds.
THEOREM KeptInvariant == Spec => []Kept
<1>1. Basic /\ SpaceOK /\ Kept /\ [Next]_vars => Kept'
  <2> SUFFICES ASSUME Basic, SpaceOK, Kept, [Next]_vars PROVE Kept'
      OBVIOUS
  <2>1. CASE UNCHANGED vars
      BY <2>1 DEF Kept, MountsOK, KeptOK, vars, ram, work, count
  <2> QED BY <2>1, MountFindsKept, FormatKept, FormatWriteKept, OpenKept, FindKept, ReplaceKept,
             CreateKept, SaveKept, RebuildKept, RemoveKept, CrashKept DEF Next
<1> QED BY InitKept, <1>1, DirectoryIsSound, SpaceInvariant, PTL DEF Spec

\* A file that was saved is found with that content (KeptReadable), across restarts
\* and whatever happens to other files.
THEOREM SavedFilesAreFound == Spec => []KeptReadable
<1>1. Basic /\ SpaceOK /\ Kept => KeptReadable
  <2> SUFFICES ASSUME Basic, SpaceOK, Kept, mounted, excused = {}, NEW n \in Names, kept[n] # Absent
               PROVE  OpenRead(n) = kept[n]
      BY DEF KeptReadable
  <2>1. kept # Forgotten
      BY DEF Forgotten
  <2>2. pc \in Live
      BY <2>1 DEF Basic, TypeOK, Kept, MountsOK, Phases, Live, Opening, Rebuilding, Formatting
  <2>3. AboveOf(slots, minAllocOffset)
      BY <2>2 DEF SpaceOK, Clean, Placed
  <2>4. PICK i \in Slot : slots[i].filename = n /\ \A s \in BlockOf(slots[i]) : sector[s] = kept[n]
      BY DEF Kept, KeptOK, Stored
  <2>5. kept[n] # Empty
      BY DEF Kept, KeptOK, Stored
  <2>6. Lookup(n) = i /\ Lookup(n) # Nobody
    <3>1. Lookup(n) \in Slot /\ slots[Lookup(n)].filename = n
        BY <2>4, LookupFacts
    <3> QED BY <2>4, <3>1, SlotFacts DEF Basic, Named
  <2>7. PICK at, size : at = slots[i].flashOffset /\ size = slots[i].maxSize
      OBVIOUS
  <2>8. at \in Nat /\ size \in Nat \ {0} /\ at + size <= DataSectors
      BY <2>4, <2>7, SlotFacts DEF Basic, Known, EntryOK, Entry
  <2>9. at \in BlockOf(slots[i]) /\ at < DataSectors
      BY <2>7, <2>8, SlotFacts DEF BlockOf, Sectors
  <2>10. IsInStreamSpace(at)
      BY <2>3, <2>9 DEF IsInStreamSpace, AboveOf
  <2>11. sector[at] = kept[n] /\ sector[at] # Empty /\ \A s \in BlockOf(slots[i]) : sector[s] = sector[at]
      BY <2>4, <2>5, <2>9
  <2> QED BY <2>6, <2>7, <2>10, <2>11 DEF OpenRead
<1> QED BY <1>1, DirectoryIsSound, SpaceInvariant, KeptInvariant, PTL
=============================================================================
