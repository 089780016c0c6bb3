----------------------------- MODULE FlashFile -----------------------------
(***************************************************************************)
(* One file of the flash file system (src/Firmware/FlashStorage.cpp): its  *)
(* allocation block in flash, the chain of copies kept in it, and the save *)
(* of a new copy, one flash operation per step.                            *)
(*                                                                         *)
(* Flash is an array of WORDS (4 bytes, the alignment of a file header).   *)
(* It is erased a sector at a time and programmed a page at a time, and    *)
(* programming only takes bits from 1 to 0.  A file is a chain of copies,  *)
(* each a two-word header (size, CRC) followed by its data; the last copy  *)
(* is the file's content.                                                  *)
(*                                                                         *)
(* A step may be cut short by a crash or a reset (at most MaxCrashes), and *)
(* a flash operation may fail because the second core did not halt in time *)
(* (at most MaxTimeouts).                                                  *)
(*                                                                         *)
(* A definition named D_Xxx is a plausible mistake in D; nothing refers to *)
(* it.  It documents which property notices the mistake (PROJECT.json).    *)
(***************************************************************************)
EXTENDS Integers, Sequences

CONSTANTS
    PageWords,      \* words in a flash page, the unit of programming
    SectorPages,    \* pages in a sector, the unit of erasing
    BlockSectors,   \* sectors in the file's allocation block
    Versions,       \* the distinct contents a caller may save
    Sizes,          \* their possible lengths, in words
    Undeclared,     \* words a caller writes beyond the size it declared to OpenWrite
    MaxSaves,       \* bound on the number of saves
    MaxCrashes,     \* bound on the number of crashes
    MaxTimeouts     \* bound on the number of flash operations that time out

SectorWords == PageWords * SectorPages
MaxSize     == SectorWords * BlockSectors
HeaderWords == 2

ASSUME FlashAssumption ==
    /\ PageWords \in Nat \ {0} /\ SectorPages \in Nat \ {0} /\ BlockSectors \in Nat \ {0}
    /\ SectorWords \in Nat \ {0} /\ MaxSize \in Nat \ {0}
    /\ PageWords >= HeaderWords
    /\ MaxSaves \in Nat /\ MaxCrashes \in Nat /\ MaxTimeouts \in Nat
ASSUME CallerAssumption ==
    /\ Sizes \subseteq Nat \ {0}
    /\ Undeclared \in Nat
    /\ \A n \in Sizes : n + HeaderWords <= MaxSize

Addresses   == 0 .. MaxSize - 1
PageOf(a)   == a - (a % PageWords)
SectorOf(a) == a - (a % SectorWords)

(***************************************************************************)
(* Words.  FF is an erased word; Torn is one whose bits a cut-off or a     *)
(* second programming left undefined.                                      *)
(***************************************************************************)
FF         == <<"ff">>
Torn       == <<"torn">>
SizeWord(n)== <<"size", n>>
CrcOf(s)   == <<"crc", s>>
DataWord   == {"data"} \X Versions \X Nat
BufferWord == DataWord \cup {FF}
WordKinds  == {"ff", "torn", "size", "crc", "data"}

Contents == {[i \in 1 .. n |-> <<"data", v, i>>] : v \in Versions, n \in Sizes}

\* flash_range_program on one word: bits go to 0 only
Burn(old, new) ==
    IF new = FF \/ new = old THEN old ELSE IF old = FF THEN new ELSE Torn

\* flash_range_program of the words ws at address at, with 1 bits around them
Program(f, at, ws) ==
    [a \in Addresses |->
        IF a >= at /\ a < at + Len(ws) THEN Burn(f[a], ws[a - at + 1]) ELSE f[a]]

\* flash_range_erase of one sector
EraseSector(f, s) == [a \in Addresses |-> IF SectorOf(a) = s THEN FF ELSE f[a]]

\* IsFlashErased, IsSectorErased
IsErased(f, from, to)   == \A a \in Addresses : a >= from /\ a < to => f[a] = FF
IsSectorErased(f, s)    == IsErased(f, s, s + SectorWords)

(***************************************************************************)
(* Reading.                                                                *)
(***************************************************************************)
\* a word that is no size reads as one beyond any block
SizeAt(f, h)     == IF f[h][1] = "size" THEN f[h][2] ELSE MaxSize
HeaderFits(f, h) == h + HeaderWords + SizeAt(f, h) <= MaxSize
NextHeader(f, h) == h + HeaderWords + SizeAt(f, h)

NoHeader == 0 - 1

\* the header the forward scan of GetFileStream ends on
LatestHeader(f) ==
    LET scan[h \in Addresses] ==
            IF ~HeaderFits(f, h) THEN NoHeader
            ELSE IF NextHeader(f, h) < MaxSize /\ f[NextHeader(f, h)] # FF
                 THEN scan[NextHeader(f, h)]
                 ELSE h
    IN  IF IsSectorErased(f, 0) THEN NoHeader ELSE scan[0]

\* a stream that runs past the block takes in words of whatever follows it
WordAt(f, a)    == IF a \in Addresses THEN f[a] ELSE Torn
Stream(f, h, n) == [i \in 1 .. n |-> WordAt(f, h + HeaderWords + i - 1)]

Failed(status) == [status |-> status, data |-> <<>>]
Found(data)    == [status |-> "OK", data |-> data]

\* OpenRead: what a reader of the file gets
OpenRead(f) ==
    LET h    == LatestHeader(f)
        data == Stream(f, h, SizeAt(f, h))
    IN  IF IsSectorErased(f, 0) THEN Failed("NotFound")
        ELSE IF h = NoHeader THEN Failed("BadDirEntry")
        ELSE IF f[h + 1] # CrcOf(data) THEN Failed("BadChecksum")
        ELSE Found(data)

-----------------------------------------------------------------------------

VARIABLES
    flash,      \* the allocation block
    pc,         \* where the save stands
    wh,         \* the write handle: writeOffset, headerOffset, buf
    job,        \* the caller: data to save, rem still to write, ok so far
    rescue,     \* OpenWrite's oldContents: the start of a dirty sector, in RAM
    streamSize, \* CloseWrite's streamSize, taken before its flush
    result,     \* what the last save returned to its caller
    kept,       \* ghost: what the file system owes a reader
    saves, crashes, timeouts

vars == <<flash, pc, wh, job, rescue, streamSize, result, kept, saves, crashes, timeouts>>

NoHandle == [writeOffset |-> 0, headerOffset |-> 0, buf |-> <<>>]
NoJob    == [data |-> <<>>, rem |-> <<>>, ok |-> TRUE]

Phases  == {"idle", "restoreErase", "restoreProgram", "write", "writeFlush",
            "closeFlush", "closeErase", "closeHeader"}
Writing == {"write", "writeFlush", "closeFlush", "closeErase", "closeHeader"}

HandleType == [writeOffset : Nat, headerOffset : Nat, buf : Seq(BufferWord)]
JobType    == [data : Seq(DataWord), rem : Seq(BufferWord), ok : BOOLEAN]
ReadStates == {"OK", "NotFound", "BadDirEntry", "BadChecksum"}

WellFormed(f) ==
    /\ f = [a \in Addresses |-> f[a]]
    /\ \A a \in Addresses : f[a][1] \in WordKinds

RescueOK ==
    /\ rescue = [i \in 1 .. Len(rescue) |-> rescue[i]]
    /\ Len(rescue) \in 0 .. SectorWords - 1
    /\ \A i \in 1 .. Len(rescue) : rescue[i][1] \in WordKinds

BoundsOK ==
    /\ saves \in 0 .. MaxSaves
    /\ crashes \in 0 .. MaxCrashes
    /\ timeouts \in 0 .. MaxTimeouts

TypeOK ==
    /\ WellFormed(flash)
    /\ pc \in Phases
    /\ wh \in HandleType /\ Len(wh.buf) <= PageWords
    /\ job \in JobType
    /\ RescueOK
    /\ streamSize \in Int
    /\ result \in {"none", "ok", "failed"}
    /\ kept.status \in ReadStates
    /\ BoundsOK

Init ==
    /\ flash = [a \in Addresses |-> FF]
    /\ pc = "idle"
    /\ wh = NoHandle
    /\ job = NoJob
    /\ rescue = <<>>
    /\ streamSize = 0
    /\ result = "none"
    /\ kept = Failed("NotFound")
    /\ saves = 0
    /\ crashes = 0
    /\ timeouts = 0

TimesOut ==
    /\ timeouts < MaxTimeouts
    /\ timeouts' = timeouts + 1

-----------------------------------------------------------------------------
(***************************************************************************)
(* OpenWrite, as SaveStruct calls it on an existing directory entry.       *)
(***************************************************************************)
\* where OpenWrite would append a copy after the current one
AppendPoint(f) == NextHeader(f, LatestHeader(f))

\* the rest of the sector that holds h can be programmed
Clean_FirstWord(f, h) == f[h] = FF
Clean(f, h) == SectorOf(h) = h \/ IsErased(f, h, SectorOf(h) + SectorWords)

\* the words of a dirty sector before the append point
Preserved_Short(f, h) == [i \in 1 .. h - SectorOf(h) - 1 |-> f[SectorOf(h) + i - 1]]
Preserved(f, h) == [i \in 1 .. h - SectorOf(h) |-> f[SectorOf(h) + i - 1]]

Erased(n) == [i \in 1 .. n |-> FF]

HandleAt(h) == [writeOffset  |-> PageOf(h),
                headerOffset |-> h,
                buf          |-> Erased(h - PageOf(h))]

HasRoom_NoHeader(h, size) == h + size <= MaxSize
HasRoom(h, size) == h + HeaderWords + size <= MaxSize

\* a declared size of zero says that the size is not known
CanAppend(h, data) ==
    /\ Len(data) > Undeclared
    /\ LatestHeader(flash) # NoHeader
    /\ h = AppendPoint(flash)
    /\ HasRoom(h, Len(data) - Undeclared)

StartSave(data) ==
    /\ pc = "idle"
    /\ saves < MaxSaves
    /\ saves' = saves + 1
    /\ job' = [data |-> data, rem |-> Erased(HeaderWords) \o data, ok |-> TRUE]
    /\ result' = "none"
    /\ UNCHANGED <<flash, streamSize, kept, crashes, timeouts>>

\* room after the current copy, in erased words: add a copy there
SaveAppend(data) ==
    \E h \in Addresses :
        /\ StartSave(data)
        /\ CanAppend(h, data)
        /\ Clean(flash, h)
        /\ wh' = HandleAt(h)
        /\ pc' = "write"
        /\ UNCHANGED rescue

\* room, but what follows in the sector was written by a save that never
\* finished: copy what precedes it to RAM, then erase the sector and put it back
SaveDirty(data) ==
    \E h \in Addresses :
        /\ StartSave(data)
        /\ CanAppend(h, data)
        /\ ~Clean(flash, h)
        /\ wh' = [NoHandle EXCEPT !.headerOffset = h]
        /\ rescue' = Preserved(flash, h)
        /\ pc' = "restoreErase"

\* no copy, no room, or no memory for the RAM copy of a dirty sector: rewrite
\* the block from its start
SaveFromStart(data) ==
    /\ StartSave(data)
    /\ ~ \E h \in Addresses : CanAppend(h, data) /\ Clean(flash, h)
    /\ wh' = NoHandle
    /\ pc' = "write"
    /\ UNCHANGED rescue

Save == \E data \in Contents : SaveAppend(data) \/ SaveDirty(data) \/ SaveFromStart(data)

RestoreErase ==
    /\ pc = "restoreErase"
    /\ flash' = EraseSector(flash, SectorOf(wh.headerOffset))
    /\ pc' = "restoreProgram"
    /\ UNCHANGED <<wh, job, rescue, streamSize, result, kept, saves, crashes, timeouts>>

\* the sector stays dirty: give up appending
RestoreEraseTimeout ==
    /\ pc = "restoreErase"
    /\ TimesOut
    /\ wh' = NoHandle
    /\ pc' = "write"
    /\ UNCHANGED <<flash, job, rescue, streamSize, result, kept, saves, crashes>>

\* the status of this write is not looked at; the check that follows it only
\* asks that the words from the append point on are erased
RestoreProgram ==
    /\ pc = "restoreProgram"
    /\ \/ /\ flash' = Program(flash, SectorOf(wh.headerOffset), rescue)
          /\ UNCHANGED timeouts
       \/ /\ TimesOut
          /\ UNCHANGED flash
    /\ wh' = HandleAt(wh.headerOffset)
    /\ rescue' = <<>>
    /\ pc' = "write"
    /\ UNCHANGED <<job, streamSize, result, kept, saves, crashes>>

-----------------------------------------------------------------------------
(***************************************************************************)
(* WriteFile and Flush.  The header is written first, as erased words.     *)
(***************************************************************************)
StreamSize(h) == h.writeOffset + Len(h.buf) - h.headerOffset - HeaderWords

BufferRoom == PageWords - Len(wh.buf)

\* copy what fits in the buffer; when all is copied the caller goes on to
\* CloseWrite, which takes the stream size and flushes the rest
WriteFile ==
    /\ pc = "write"
    /\ LET n   == IF Len(job.rem) < BufferRoom THEN Len(job.rem) ELSE BufferRoom
           wh1 == [wh EXCEPT !.buf = @ \o SubSeq(job.rem, 1, n)]
       IN  /\ wh' = wh1
           /\ job' = [job EXCEPT !.rem = SubSeq(@, n + 1, Len(@))]
           /\ IF n = Len(job.rem)
              THEN pc' = "closeFlush" /\ streamSize' = StreamSize(wh1)
              ELSE pc' = "writeFlush" /\ UNCHANGED streamSize
    /\ UNCHANGED <<flash, rescue, result, kept, saves, crashes, timeouts>>

Flushing   == pc \in {"writeFlush", "closeFlush"}
FitsBlock  == wh.writeOffset + Len(wh.buf) <= MaxSize

EntersUnerased_AnyStart ==
    wh.writeOffset % SectorWords = 0 /\ ~IsSectorErased(flash, wh.writeOffset)
EntersUnerased_Never == FALSE

\* the flush enters a sector, and the copy did not start further on in it
EntersUnerased ==
    /\ wh.writeOffset % SectorWords = 0
    /\ wh.headerOffset <= wh.writeOffset
    /\ ~IsSectorErased(flash, wh.writeOffset)

\* the stream ends where a sector of the block begins: that sector must be
\* erased for the next scan to stop there
AfterFlush_NoErase(h) == "closeHeader"
AfterFlush(h) ==
    IF h.writeOffset % SectorWords = 0 /\ h.writeOffset < MaxSize
    THEN "closeErase" ELSE "closeHeader"

FlushErase ==
    /\ Flushing
    /\ FitsBlock
    /\ EntersUnerased
    /\ flash' = EraseSector(flash, wh.writeOffset)
    /\ UNCHANGED <<pc, wh, job, rescue, streamSize, result, kept, saves, crashes, timeouts>>

FlushProgram ==
    /\ Flushing
    /\ FitsBlock
    /\ ~EntersUnerased
    /\ flash' = Program(flash, wh.writeOffset, wh.buf)
    /\ wh' = [writeOffset  |-> wh.writeOffset + PageWords,
              headerOffset |-> wh.headerOffset,
              buf          |-> <<>>]
    /\ pc' = IF pc = "writeFlush" THEN "write" ELSE AfterFlush(wh')
    /\ UNCHANGED <<job, rescue, streamSize, result, kept, saves, crashes, timeouts>>

\* the flush returned false.  OpenWrite gives up when that was in its own
\* header; a later WriteFile drops the rest of the data and the caller still
\* closes the file; CloseWrite notes the failure and goes on
InHeader == Len(job.rem) > Len(job.data)

FlushFails_Retry ==
    UNCHANGED <<flash, pc, wh, job, rescue, streamSize, result, kept, saves, crashes>>

FlushFails ==
    /\ \/ /\ pc = "writeFlush" /\ InHeader
          /\ pc' = "idle"
          /\ wh' = NoHandle
          /\ job' = NoJob
          /\ result' = "failed"
          /\ kept' = OpenRead(flash)
          /\ UNCHANGED streamSize
       \/ /\ pc = "writeFlush" /\ ~InHeader
          /\ pc' = "closeFlush"
          /\ job' = [data |-> job.data, rem |-> <<>>, ok |-> FALSE]
          /\ streamSize' = StreamSize(wh)
          /\ UNCHANGED <<wh, result, kept>>
       \/ /\ pc = "closeFlush"
          /\ pc' = AfterFlush(wh)
          /\ job' = [job EXCEPT !.ok = FALSE]
          /\ UNCHANGED <<wh, streamSize, result, kept>>
    /\ UNCHANGED <<flash, rescue, saves, crashes>>

FlushTimeout  == Flushing /\ FitsBlock /\ TimesOut /\ FlushFails
FlushOverLimit == Flushing /\ ~FitsBlock /\ FlushFails /\ UNCHANGED timeouts

-----------------------------------------------------------------------------
(***************************************************************************)
(* CloseWrite, after its flush.                                            *)
(***************************************************************************)
CloseErase ==
    /\ pc = "closeErase"
    /\ flash' = EraseSector(flash, wh.writeOffset)
    /\ pc' = "closeHeader"
    /\ UNCHANGED <<wh, job, rescue, streamSize, result, kept, saves, crashes, timeouts>>

CloseEraseTimeout ==
    /\ pc = "closeErase"
    /\ TimesOut
    /\ job' = [job EXCEPT !.ok = FALSE]
    /\ pc' = "closeHeader"
    /\ UNCHANGED <<flash, wh, rescue, streamSize, result, kept, saves, crashes>>

\* the CRC is that of the stream as it reads back from flash
NewHeader(f) == <<SizeWord(streamSize), CrcOf(Stream(f, wh.headerOffset, streamSize))>>

EndSave(ok, f) ==
    /\ pc' = "idle"
    /\ wh' = NoHandle
    /\ job' = [job EXCEPT !.ok = ok]
    /\ result' = IF ok THEN "ok" ELSE "failed"
    /\ kept' = IF ok THEN Found(job.data) ELSE OpenRead(f)
    /\ UNCHANGED <<rescue, streamSize, saves, crashes>>

CloseHeader ==
    /\ pc = "closeHeader"
    /\ flash' = Program(flash, wh.headerOffset, NewHeader(flash))
    /\ EndSave(job.ok, flash')
    /\ UNCHANGED timeouts

CloseHeaderTimeout ==
    /\ pc = "closeHeader"
    /\ TimesOut
    /\ EndSave(FALSE, flash)
    /\ UNCHANGED flash

\* Remove: the first sector is erased, later ones keep what they hold
Remove ==
    /\ pc = "idle"
    /\ ~IsSectorErased(flash, 0)
    /\ flash' = EraseSector(flash, 0)
    /\ kept' = Failed("NotFound")
    /\ result' = "none"
    /\ UNCHANGED <<pc, wh, job, rescue, streamSize, saves, crashes, timeouts>>

-----------------------------------------------------------------------------
(***************************************************************************)
(* Crashes: a reset or a power loss, also in the middle of an erase or a   *)
(* program operation.                                                      *)
(***************************************************************************)
\* the copies a reader goes through are being erased, put back or overwritten,
\* or the word that stops the scan after them is being erased
Exposed ==
    \/ pc \in {"restoreErase", "restoreProgram"}
    \/ pc \in Writing /\ wh.headerOffset = 0
    \/ Flushing /\ EntersUnerased /\ wh.headerOffset = wh.writeOffset

\* the operation in flight, if any
ErasedNow ==
    CASE pc = "idle"         -> IF IsSectorErased(flash, 0) THEN {} ELSE {0}
      [] pc = "restoreErase" -> {SectorOf(wh.headerOffset)}
      [] Flushing            -> IF FitsBlock /\ EntersUnerased THEN {wh.writeOffset} ELSE {}
      [] pc = "closeErase"   -> {wh.writeOffset}
      [] OTHER               -> {}

ProgrammedNow ==
    CASE pc = "restoreProgram" -> {<<SectorOf(wh.headerOffset), rescue>>}
      [] Flushing              -> IF FitsBlock /\ ~EntersUnerased
                                  THEN {<<wh.writeOffset, wh.buf>>} ELSE {}
      [] pc = "closeHeader"    -> {<<wh.headerOffset, NewHeader(flash)>>}
      [] OTHER                 -> {}

\* a word whose programming was cut off.  Fewer bits of a size than meant are 0,
\* so the size reads larger.
TornWords(w) ==
    IF w[1] = "size" THEN {SizeWord(n) : n \in w[2] + 1 .. MaxSize}
    ELSE IF w = FF THEN {FF} ELSE {Torn}

Restart(f, owed) ==
    /\ crashes < MaxCrashes
    /\ crashes' = crashes + 1
    /\ flash' = f
    /\ kept' = owed
    /\ pc' = "idle"
    /\ wh' = NoHandle
    /\ job' = NoJob
    /\ rescue' = <<>>
    /\ result' = "none"
    /\ UNCHANGED <<streamSize, saves, timeouts>>

\* a header being programmed, or a file being removed, may be lost as well
Owed(f) == IF Exposed \/ (pc \in {"idle", "closeHeader"} /\ f # flash)
           THEN OpenRead(f) ELSE kept

CrashBetween ==
    /\ pc # "idle"
    /\ Restart(flash, Owed(flash))

\* any words of the sector may be erased already, or all be undefined
CutErase(s) ==
    LET sector == {a \in Addresses : SectorOf(a) = s}
    IN  {[a \in Addresses |-> IF a \in done THEN FF ELSE flash[a]] : done \in SUBSET sector}
        \cup {[a \in Addresses |-> IF a \in sector THEN Torn ELSE flash[a]]}

CrashInErase == \E s \in ErasedNow : \E f \in CutErase(s) : Restart(f, Owed(f))

\* words are programmed in order
CrashInProgram ==
    \E op \in ProgrammedNow :
        LET at == op[1]  ws == op[2]
        IN  \E k \in 1 .. Len(ws) : \E w \in TornWords(ws[k]) :
                LET f == Program(flash, at, SubSeq(ws, 1, k - 1) \o <<w>>)
                IN  Restart(f, Owed(f))

Crash == CrashBetween \/ CrashInErase \/ CrashInProgram

-----------------------------------------------------------------------------

Step ==
    \/ RestoreErase \/ RestoreEraseTimeout \/ RestoreProgram
    \/ WriteFile
    \/ FlushErase \/ FlushProgram \/ FlushTimeout \/ FlushOverLimit
    \/ CloseErase \/ CloseEraseTimeout \/ CloseHeader \/ CloseHeaderTimeout

Next == Save \/ Step \/ Remove \/ Crash

Spec == Init /\ [][Next]_vars

\* a save runs on the main loop without waiting for anything
FairSpec == Spec /\ WF_vars(Step)

-----------------------------------------------------------------------------
(***************************************************************************)
(* Properties.                                                             *)
(***************************************************************************)
\* Outside the windows in which the only copy is being rewritten, a reader gets
\* exactly what the file system owes it: the content of the last save that was
\* completed, whatever interrupted saves left after it in the block; never an
\* older copy, never part of a newer one (OpenRead, GetFileStream, OpenWrite).
Durable == ~Exposed => OpenRead(flash) = kept

\* Only a crash undefines the bits of a written word: the code never programs a
\* word that is not erased with anything but the value it has (a dirty sector is
\* put back as it was).  The page patching of OpenWrite and CloseWrite relies on it.
ProgramsErasedOnly ==
    [][crashes' = crashes =>
        \A a \in Addresses : flash'[a] = Torn => flash[a] \in {FF, Torn}]_vars

\* While a copy is being appended no step, a crash included, changes a word
\* before its header: the previous copies stay readable until the new header
\* is in flash (the append mode of OpenWrite).
AppendSparesExisting ==
    [][(pc \in Writing) =>
        \A a \in Addresses : a < wh.headerOffset => flash'[a] = flash[a]]_vars

\* A save that returned success can be read back (SaveStruct, SavePage).
SuccessIsReadable == result = "ok" => OpenRead(flash) = Found(job.data)

\* What opens with a good checksum is something a caller meant to save, whole.
ReadableWasSaved == OpenRead(flash).status = "OK" => OpenRead(flash).data \in Contents

\* A copy that OpenWrite found room to append fits: no flush of it is refused
\* because the block is full.
NoOverrun == Flushing /\ wh.headerOffset # 0 => FitsBlock

(***************************************************************************)
(* What makes them inductive.                                              *)
(***************************************************************************)
\* the buffer reaches the header, and holds erased words before it; it is only
\* flushed in the middle of the data when it is full
CursorOK ==
    /\ pc \in Writing =>
          /\ wh.headerOffset <= wh.writeOffset + Len(wh.buf)
          /\ \A i \in 1 .. Len(wh.buf) :
                wh.writeOffset + i <= wh.headerOffset => wh.buf[i] = FF
    /\ pc = "writeFlush" => Len(wh.buf) = PageWords

\* what is still to be written of an appended copy fits in the block
RoomOK ==
    /\ pc \in {"write", "writeFlush", "closeFlush"} /\ wh.headerOffset # 0 =>
          wh.writeOffset + Len(wh.buf) + Len(job.rem) <= MaxSize
    /\ pc \in {"restoreErase", "restoreProgram"} =>
          wh.headerOffset + Len(job.rem) <= MaxSize

\* the sector CloseWrite erases lies after the header
CloseOK == pc = "closeErase" => wh.headerOffset <= wh.writeOffset

\* Every save comes to an end, whatever times out.
SaveEnds == [](pc # "idle" => <>(pc = "idle"))

\* The block is a stored file: a save becomes visible in the step that programs
\* its header, and a crash can only lose content in the windows StoredFile names.
ContentOf(read) == IF read.status = "OK" THEN read.data ELSE <<>>

File == INSTANCE StoredFile WITH
    NoContent <- <<>>,
    content   <- ContentOf(OpenRead(flash)),
    owed      <- ContentOf(kept),
    pending   <- IF pc = "idle" THEN <<>> ELSE job.data,
    phase     <- IF pc = "idle" THEN "idle"
                 ELSE IF Exposed THEN "exposed"
                 ELSE IF pc = "closeHeader" THEN "commit"
                 ELSE "append"

ImplementsStoredFile == File!Spec
=============================================================================
