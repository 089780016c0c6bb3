-------------------------- MODULE FlashFile_proofs --------------------------
(***************************************************************************)
(* Theorems about FlashFile, for every page, sector and block size, every  *)
(* set of contents and any number of saves and crashes.                    *)
(*                                                                         *)
(*   TypeOK; the cursor and the room of an appended copy; the words before *)
(*     an append are spared                                                *)
(*   the scan of GetFileStream: it exists, it ends, it only looks at the   *)
(*     words before the append point and at the one there (ChainStable)    *)
(*   the copy that is written word by word (CopyInv, WrittenOK), in words  *)
(*     that some save wrote (SoundOK): SaveInv                             *)
(*   what a reader gets (ReadOK), Durable, and the stored file             *)
(*                                                                         *)
(* AppendedCopyFits assumes Undeclared = 0: callers declare the size of    *)
(* what they save.  The others assume MaxTimeouts = 0 instead: the second  *)
(* core halts in time for every flash operation.  A stream that turns out  *)
(* too long for the block is part of them: its last flush is refused.      *)
(***************************************************************************)
EXTENDS FlashFile, NaturalsInduction, WellFoundedInduction, TLAPS

\* A page starts at or before the addresses in it, less than a page before.
LEMMA PageBounds ==
    ASSUME NEW a \in Nat
    PROVE  PageOf(a) \in Nat /\ PageOf(a) <= a /\ a - PageOf(a) < PageWords
<1>1. a % PageWords \in 0 .. PageWords - 1 /\ a % PageWords <= a
    BY FlashAssumption
<1> QED BY <1>1, FlashAssumption DEF PageOf

\* A sector starts at or before the addresses in it, less than a sector before.
LEMMA SectorBounds ==
    ASSUME NEW a \in Nat
    PROVE  SectorOf(a) \in Nat /\ SectorOf(a) <= a /\ a - SectorOf(a) < SectorWords
<1>1. a % SectorWords \in 0 .. SectorWords - 1 /\ a % SectorWords <= a
    BY FlashAssumption
<1> QED BY <1>1, FlashAssumption DEF SectorOf

\* Erasing a sector leaves the words before it alone.
LEMMA EraseFrom ==
    ASSUME NEW f, NEW s \in Nat, NEW a \in Addresses, a < s
    PROVE  EraseSector(f, s)[a] = f[a]
<1>1. a \in Nat /\ SectorOf(a) # s
    BY SectorBounds, FlashAssumption DEF Addresses
<1> QED BY <1>1 DEF EraseSector

\* Every address is a natural number below the size of the block.
LEMMA AddressNat == ASSUME NEW a \in Addresses PROVE a \in Nat /\ a < MaxSize
BY FlashAssumption DEF Addresses

\* Programming leaves a word alone where the page holds an erased word.
LEMMA ProgramKeeps ==
    ASSUME NEW f, NEW at \in Nat, NEW ws, Len(ws) \in Nat, NEW a \in Addresses,
           a < at \/ a >= at + Len(ws) \/ ws[a - at + 1] = FF
    PROVE  Program(f, at, ws)[a] = f[a]
<1>1. a \in Nat
    BY AddressNat
<1>2. CASE ws[a - at + 1] = FF
    BY <1>2 DEF Program, Burn
<1>3. CASE a < at \/ a >= at + Len(ws)
    BY <1>1, <1>3 DEF Program
<1> QED BY <1>2, <1>3

\* A run of erased words is a sequence of buffer words.
LEMMA ErasedSeq ==
    ASSUME NEW n \in Nat
    PROVE  /\ Erased(n) \in Seq(BufferWord)
           /\ Len(Erased(n)) = n
           /\ \A i \in 1 .. n : Erased(n)[i] = FF
<1>1. FF \in BufferWord
    BY DEF BufferWord
<1>2. Erased(n) \in [1 .. n -> BufferWord]
    BY <1>1 DEF Erased
<1>3. Erased(n) \in Seq(BufferWord) /\ Len(Erased(n)) = n
    BY <1>2
<1>4. \A i \in 1 .. n : Erased(n)[i] = FF
    BY DEF Erased
<1> QED BY <1>3, <1>4

\* The handle OpenWrite sets up to append at h.
LEMMA HandleFacts ==
    ASSUME NEW h \in Nat
    PROVE  /\ HandleAt(h) \in HandleType
           /\ HandleAt(h).headerOffset = h
           /\ HandleAt(h).writeOffset = PageOf(h)
           /\ HandleAt(h).writeOffset + Len(HandleAt(h).buf) = h
           /\ Len(HandleAt(h).buf) <= PageWords
           /\ \A i \in 1 .. Len(HandleAt(h).buf) : HandleAt(h).buf[i] = FF
<1>1. PageOf(h) \in Nat /\ h - PageOf(h) \in Nat /\ h - PageOf(h) < PageWords
    BY PageBounds
<1>2. /\ Erased(h - PageOf(h)) \in Seq(BufferWord)
      /\ Len(Erased(h - PageOf(h))) = h - PageOf(h)
      /\ \A i \in 1 .. h - PageOf(h) : Erased(h - PageOf(h))[i] = FF
    BY <1>1, ErasedSeq
<1> QED BY <1>1, <1>2, FlashAssumption DEF HandleAt, HandleType

\* The contents a caller saves are sequences of data words.
LEMMA ContentsSeq ==
    ASSUME NEW data \in Contents
    PROVE  data \in Seq(DataWord) /\ data \in Seq(BufferWord)
<1>1. PICK v \in Versions, n \in Sizes : data = [i \in 1 .. n |-> <<"data", v, i>>]
    BY DEF Contents
<1>2. n \in Nat
    BY CallerAssumption
<1>3. \A i \in 1 .. n : <<"data", v, i>> \in DataWord
    BY <1>2 DEF DataWord
<1>4. data \in [1 .. n -> DataWord] /\ data \in [1 .. n -> BufferWord]
    BY <1>1, <1>3 DEF BufferWord
<1> QED BY <1>2, <1>4

\* Every buffer word is of a known kind.
LEMMA BufferKinds == \A w \in BufferWord : w[1] \in WordKinds
BY DEF BufferWord, DataWord, FF, WordKinds

\* Erasing a sector leaves words of known kinds.
LEMMA EraseWellFormed ==
    ASSUME NEW f, WellFormed(f), NEW s PROVE WellFormed(EraseSector(f, s))
BY DEF WellFormed, EraseSector, FF, WordKinds

\* So does programming words of known kinds.
LEMMA ProgramWellFormed ==
    ASSUME NEW f, WellFormed(f), NEW at \in Nat, NEW ws, Len(ws) \in Nat,
           \A i \in 1 .. Len(ws) : ws[i][1] \in WordKinds
    PROVE  WellFormed(Program(f, at, ws))
<1>1. ASSUME NEW a \in Addresses
      PROVE  Program(f, at, ws)[a][1] \in WordKinds
    <2>1. a \in Nat
        BY AddressNat
    <2>2. f[a][1] \in WordKinds /\ Torn[1] \in WordKinds
        BY DEF WellFormed, Torn, WordKinds
    <2>3. CASE a >= at /\ a < at + Len(ws)
        <3>1. a - at + 1 \in 1 .. Len(ws)
            BY <2>1, <2>3
        <3>2. ws[a - at + 1][1] \in WordKinds
            BY <3>1
        <3>3. Burn(f[a], ws[a - at + 1])[1] \in WordKinds
            BY <2>2, <3>2 DEF Burn
        <3> QED BY <2>3, <3>3 DEF Program
    <2>4. CASE ~(a >= at /\ a < at + Len(ws))
        BY <2>2, <2>4 DEF Program
    <2> QED BY <2>3, <2>4
<1>2. Program(f, at, ws) = [a \in Addresses |-> Program(f, at, ws)[a]]
    BY DEF Program
<1> QED BY <1>1, <1>2 DEF WellFormed

-----------------------------------------------------------------------------
\* OpenRead ends in one of four ways.
LEMMA ReadStatus ==
    ASSUME NEW f
    PROVE  OpenRead(f).status \in ReadStates
<1>1. \A s \in {"NotFound", "BadDirEntry", "BadChecksum"} : Failed(s).status = s
    BY DEF Failed
<1>2. \A d : Found(d).status = "OK"
    BY DEF Found
<1> DEFINE h    == LatestHeader(f)
           data == Stream(f, h, SizeAt(f, h))
<1>3. OpenRead(f) \in {Failed("NotFound"), Failed("BadDirEntry"), Failed("BadChecksum"), Found(data)}
    BY DEF OpenRead
<1> QED BY <1>1, <1>2, <1>3 DEF ReadStates

\* A free handle is a handle.
LEMMA NoHandleType == NoHandle \in HandleType /\ Len(NoHandle.buf) <= PageWords
BY FlashAssumption DEF NoHandle, HandleType

\* A caller that saves nothing is a job.
LEMMA NoJobType == NoJob \in JobType
BY DEF NoJob, JobType

\* What StartSave gives the caller's job.
LEMMA StartSaveFacts ==
    ASSUME NEW data \in Contents, StartSave(data), TypeOK
    PROVE  /\ job' \in JobType
           /\ Len(job'.rem) = HeaderWords + Len(data)
           /\ job'.data = data
           /\ saves' \in 0 .. MaxSaves
<1>1. data \in Seq(DataWord) /\ data \in Seq(BufferWord)
    BY ContentsSeq
<1>2. Erased(HeaderWords) \in Seq(BufferWord) /\ Len(Erased(HeaderWords)) = HeaderWords
    BY ErasedSeq DEF HeaderWords
<1>3. /\ Erased(HeaderWords) \o data \in Seq(BufferWord)
      /\ Len(Erased(HeaderWords) \o data) = HeaderWords + Len(data)
    BY <1>1, <1>2
<1>4. saves' \in 0 .. MaxSaves
    <2>1. saves \in 0 .. MaxSaves /\ saves < MaxSaves /\ saves' = saves + 1
        BY DEF StartSave, TypeOK, BoundsOK
    <2>2. MaxSaves \in Nat
        BY FlashAssumption
    <2> QED BY <2>1, <2>2
<1> QED BY <1>1, <1>3, <1>4 DEF StartSave, JobType

\* The smaller of two naturals.
LEMMA SmallerFacts ==
    \A r, b \in Nat :
        LET n == IF r < b THEN r ELSE b
        IN  n \in Nat /\ n <= r /\ n <= b /\ (n # r => n = b)
OBVIOUS

\* WriteFile's copy: as much as fits, in order.
LEMMA CopyFacts ==
    ASSUME TypeOK, WriteFile
    PROVE  \E n \in Nat :
             /\ n <= Len(job.rem)
             /\ n <= PageWords - Len(wh.buf)
             /\ n # Len(job.rem) => n = PageWords - Len(wh.buf)
             /\ wh' \in HandleType
             /\ wh'.writeOffset = wh.writeOffset
             /\ wh'.headerOffset = wh.headerOffset
             /\ Len(wh'.buf) = Len(wh.buf) + n
             /\ \A i \in 1 .. Len(wh.buf) : wh'.buf[i] = wh.buf[i]
             /\ job' \in JobType
             /\ Len(job'.rem) = Len(job.rem) - n
             /\ job'.data = job.data
             /\ pc' = IF n = Len(job.rem) THEN "closeFlush" ELSE "writeFlush"
<1> DEFINE n   == IF Len(job.rem) < BufferRoom THEN Len(job.rem) ELSE BufferRoom
           add == SubSeq(job.rem, 1, n)
<1>1. /\ wh \in HandleType /\ wh.buf \in Seq(BufferWord) /\ Len(wh.buf) <= PageWords
      /\ job.rem \in Seq(BufferWord) /\ job.data \in Seq(DataWord) /\ job.ok \in BOOLEAN
      /\ job \in JobType
    BY DEF TypeOK, HandleType, JobType
<1>2. /\ n \in Nat /\ n <= Len(job.rem) /\ n <= PageWords - Len(wh.buf)
      /\ n # Len(job.rem) => n = PageWords - Len(wh.buf)
    <2>1. Len(job.rem) \in Nat /\ Len(wh.buf) \in Nat
        BY <1>1
    <2>2. PageWords \in Nat
        BY FlashAssumption
    <2>3. BufferRoom \in Nat /\ BufferRoom = PageWords - Len(wh.buf)
        BY <1>1, <2>1, <2>2 DEF BufferRoom
    <2>4. n \in Nat /\ n <= Len(job.rem) /\ n <= BufferRoom /\ (n # Len(job.rem) => n = BufferRoom)
        BY <2>1, <2>3, SmallerFacts
    <2> HIDE DEF n
    <2> QED BY <2>3, <2>4
<1>3. add \in Seq(BufferWord) /\ Len(add) = n
    BY <1>1, <1>2
<1>4. /\ SubSeq(job.rem, n + 1, Len(job.rem)) \in Seq(BufferWord)
      /\ Len(SubSeq(job.rem, n + 1, Len(job.rem))) = Len(job.rem) - n
    BY <1>1, <1>2
<1>5. /\ wh.buf \o add \in Seq(BufferWord)
      /\ Len(wh.buf \o add) = Len(wh.buf) + n
      /\ \A i \in 1 .. Len(wh.buf) : (wh.buf \o add)[i] = wh.buf[i]
    BY <1>1, <1>2, <1>3
<1>6. /\ wh' = [wh EXCEPT !.buf = wh.buf \o add]
      /\ job' = [job EXCEPT !.rem = SubSeq(job.rem, n + 1, Len(job.rem))]
      /\ pc' = IF n = Len(job.rem) THEN "closeFlush" ELSE "writeFlush"
    BY DEF WriteFile
<1>7. /\ wh' \in HandleType
      /\ wh'.writeOffset = wh.writeOffset /\ wh'.headerOffset = wh.headerOffset
      /\ wh'.buf = wh.buf \o add
    BY <1>1, <1>5, <1>6 DEF HandleType
<1>8. /\ job' \in JobType
      /\ Len(job'.rem) = Len(job.rem) - n
      /\ job'.data = job.data
    BY <1>1, <1>4, <1>6 DEF JobType
<1> HIDE DEF n, add
<1> QED BY <1>2, <1>5, <1>6, <1>7, <1>8

\* A crash leaves the handle, the job and the RAM copy empty.
LEMMA RestartTypes ==
    ASSUME TypeOK, NEW f, WellFormed(f), NEW owed, owed.status \in ReadStates, Restart(f, owed)
    PROVE  TypeOK'
<1>1. WellFormed(flash') /\ kept'.status \in ReadStates
    BY DEF Restart
<1>2. pc' \in Phases /\ result' \in {"none", "ok", "failed"} /\ streamSize' \in Int
    BY DEF Restart, Phases, TypeOK
<1>3. wh' \in HandleType /\ Len(wh'.buf) <= PageWords /\ job' \in JobType
    BY NoHandleType, NoJobType DEF Restart
<1>4. RescueOK'
    <2>1. rescue' = <<>> /\ Len(<<>>) = 0
        BY DEF Restart
    <2>2. SectorWords \in Nat \ {0}
        BY FlashAssumption
    <2> QED BY <2>1, <2>2 DEF RescueOK
<1>5. BoundsOK'
    <2>1. /\ crashes \in 0 .. MaxCrashes /\ crashes < MaxCrashes /\ crashes' = crashes + 1
          /\ saves' = saves /\ timeouts' = timeouts
        BY DEF Restart, TypeOK, BoundsOK
    <2>2. MaxCrashes \in Nat
        BY FlashAssumption
    <2>3. crashes' \in 0 .. MaxCrashes
        BY <2>1, <2>2
    <2> QED BY <2>1, <2>3 DEF BoundsOK, TypeOK
<1> QED BY <1>1, <1>2, <1>3, <1>4, <1>5 DEF TypeOK

\* What a crash leaves to be owed is a result of OpenRead.
LEMMA OwedStatus == ASSUME TypeOK, NEW f PROVE Owed(f).status \in ReadStates
BY ReadStatus DEF Owed, TypeOK

\* The header and the page in flight hold words of known kinds.
LEMMA ProgrammedTypes ==
    ASSUME TypeOK, NEW op \in ProgrammedNow
    PROVE  /\ op[1] \in Nat
           /\ op[2] = [i \in 1 .. Len(op[2]) |-> op[2][i]]
           /\ Len(op[2]) \in Nat
           /\ \A i \in 1 .. Len(op[2]) : op[2][i][1] \in WordKinds
<1>1. wh.writeOffset \in Nat /\ wh.headerOffset \in Nat /\ wh.buf \in Seq(BufferWord)
    BY DEF TypeOK, HandleType
<1>2. CASE pc = "restoreProgram"
    <2>1. op = <<SectorOf(wh.headerOffset), rescue>>
        BY <1>2 DEF ProgrammedNow, Flushing
    <2> QED BY <2>1, <1>1, SectorBounds DEF TypeOK, RescueOK
<1>3. CASE Flushing
    <2>1. op = <<wh.writeOffset, wh.buf>>
        BY <1>3 DEF ProgrammedNow, Flushing
    <2>2. \A i \in 1 .. Len(wh.buf) : wh.buf[i] \in BufferWord
        BY <1>1
    <2> QED BY <2>1, <2>2, <1>1, BufferKinds
<1>4. CASE pc = "closeHeader"
    <2>1. op = <<wh.headerOffset, NewHeader(flash)>>
        BY <1>4 DEF ProgrammedNow, Flushing
    <2> QED BY <2>1, <1>1 DEF NewHeader, SizeWord, CrcOf, WordKinds
<1> QED BY <1>2, <1>3, <1>4 DEF ProgrammedNow

\* The bound on timeouts is kept.
LEMMA TimeoutBounds == ASSUME BoundsOK, TimesOut PROVE timeouts' \in 0 .. MaxTimeouts
<1>1. MaxTimeouts \in Nat
    BY FlashAssumption
<1> QED BY <1>1 DEF BoundsOK, TimesOut

\* The steps of OpenWrite.
LEMMA OpenTypes ==
    ASSUME TypeOK, Save \/ RestoreErase \/ RestoreEraseTimeout \/ RestoreProgram
    PROVE  TypeOK'
<1> USE DEF Phases
<1>1. ASSUME NEW data \in Contents, StartSave(data),
             pc' \in {"write", "restoreErase"}, wh' \in HandleType,
             Len(wh'.buf) <= PageWords, RescueOK'
      PROVE  TypeOK'
    <2>1. job' \in JobType /\ saves' \in 0 .. MaxSaves
        BY <1>1, StartSaveFacts
    <2>2. /\ flash' = flash /\ streamSize' = streamSize /\ kept' = kept
          /\ crashes' = crashes /\ timeouts' = timeouts /\ result' = "none"
        BY <1>1 DEF StartSave
    <2>3. BoundsOK'
        BY <2>1, <2>2 DEF BoundsOK, TypeOK
    <2> QED BY <1>1, <2>1, <2>2, <2>3 DEF TypeOK
<1>2. CASE Save
    <2>1. PICK data \in Contents : SaveAppend(data) \/ SaveDirty(data) \/ SaveFromStart(data)
        BY <1>2 DEF Save
    <2>2. CASE SaveAppend(data)
        <3>1. PICK h \in Addresses : /\ StartSave(data) /\ wh' = HandleAt(h)
                                     /\ pc' = "write" /\ rescue' = rescue
            BY <2>2 DEF SaveAppend
        <3>2. wh' \in HandleType /\ Len(wh'.buf) <= PageWords
            BY <3>1, HandleFacts, AddressNat
        <3>3. RescueOK'
            BY <3>1 DEF RescueOK, TypeOK
        <3> QED BY <1>1, <3>1, <3>2, <3>3
    <2>3. CASE SaveDirty(data)
        <3>1. PICK h \in Addresses : /\ StartSave(data)
                                     /\ wh' = [NoHandle EXCEPT !.headerOffset = h]
                                     /\ rescue' = Preserved(flash, h)
                                     /\ pc' = "restoreErase"
            BY <2>3 DEF SaveDirty
        <3>2. h \in Nat /\ SectorOf(h) \in Nat /\ h - SectorOf(h) \in 0 .. SectorWords - 1
            BY AddressNat, SectorBounds, FlashAssumption
        <3>3. wh' \in HandleType /\ Len(wh'.buf) <= PageWords
            BY <3>1, <3>2, NoHandleType DEF HandleType
        <3>4. RescueOK'
            <4> DEFINE n == h - SectorOf(h)
            <4>1. /\ Len(rescue') = n
                  /\ \A i \in 1 .. n : rescue'[i] = flash[SectorOf(h) + i - 1]
                  /\ rescue' = [i \in 1 .. n |-> rescue'[i]]
                BY <3>1, <3>2 DEF Preserved
            <4>2. \A i \in 1 .. n : SectorOf(h) + i - 1 \in Addresses
                BY <3>2, AddressNat, FlashAssumption DEF Addresses
            <4>3. \A i \in 1 .. n : rescue'[i][1] \in WordKinds
                BY <4>1, <4>2 DEF TypeOK, WellFormed
            <4> QED BY <3>2, <4>1, <4>3 DEF RescueOK
        <3> QED BY <1>1, <3>1, <3>3, <3>4
    <2>4. CASE SaveFromStart(data)
        <3>1. /\ StartSave(data) /\ wh' = NoHandle /\ pc' = "write" /\ rescue' = rescue
            BY <2>4 DEF SaveFromStart
        <3>2. RescueOK'
            BY <3>1 DEF RescueOK, TypeOK
        <3> QED BY <1>1, <3>1, <3>2, NoHandleType
    <2> QED BY <2>1, <2>2, <2>3, <2>4
<1>3. CASE RestoreErase
    <2>1. WellFormed(flash')
        BY <1>3, EraseWellFormed DEF RestoreErase, TypeOK
    <2> QED BY <1>3, <2>1 DEF RestoreErase, TypeOK, RescueOK, BoundsOK
<1>4. CASE RestoreEraseTimeout
    <2>1. timeouts' \in 0 .. MaxTimeouts
        BY <1>4, TimeoutBounds DEF RestoreEraseTimeout, TypeOK
    <2> QED BY <1>4, <2>1, NoHandleType DEF RestoreEraseTimeout, TypeOK, RescueOK, BoundsOK
<1>5. CASE RestoreProgram
    <2>1. wh.headerOffset \in Nat /\ SectorOf(wh.headerOffset) \in Nat
        BY SectorBounds DEF TypeOK, HandleType
    <2>2. wh' \in HandleType /\ Len(wh'.buf) <= PageWords
        BY <1>5, <2>1, HandleFacts DEF RestoreProgram
    <2>3. WellFormed(Program(flash, SectorOf(wh.headerOffset), rescue))
        BY <2>1, ProgramWellFormed DEF TypeOK, RescueOK
    <2>4. WellFormed(flash') /\ timeouts' \in 0 .. MaxTimeouts
        BY <1>5, <2>3, TimeoutBounds DEF RestoreProgram, TypeOK, BoundsOK
    <2>5. RescueOK'
        BY <1>5, FlashAssumption DEF RestoreProgram, RescueOK
    <2> QED BY <1>5, <2>2, <2>4, <2>5 DEF RestoreProgram, TypeOK, BoundsOK
<1> QED BY <1>2, <1>3, <1>4, <1>5

\* The steps of WriteFile and Flush.
LEMMA FlushTypes ==
    ASSUME TypeOK, WriteFile \/ FlushErase \/ FlushProgram \/ FlushTimeout \/ FlushOverLimit
    PROVE  TypeOK'
<1> USE DEF Phases
<1>1. CASE WriteFile
    <2>1. wh' \in HandleType /\ Len(wh'.buf) <= PageWords /\ job' \in JobType
        <3>1. PICK n \in Nat : /\ n <= PageWords - Len(wh.buf)
                               /\ wh' \in HandleType
                               /\ Len(wh'.buf) = Len(wh.buf) + n
                               /\ job' \in JobType
            BY <1>1, CopyFacts
        <3>2. Len(wh.buf) \in Nat /\ PageWords \in Nat
            BY FlashAssumption DEF TypeOK, HandleType
        <3> QED BY <3>1, <3>2
    <2>2. pc' \in Phases
        BY <1>1 DEF WriteFile
    <2>3. streamSize' \in Int
        <3>1. \A x \in HandleType : StreamSize(x) \in Int
            BY DEF HandleType, StreamSize, HeaderWords
        <3>2. streamSize' = StreamSize(wh') \/ streamSize' = streamSize
            BY <1>1 DEF WriteFile
        <3> QED BY <2>1, <3>1, <3>2 DEF TypeOK
    <2>4. UNCHANGED <<flash, rescue, result, kept, saves, crashes, timeouts>>
        BY <1>1 DEF WriteFile
    <2> QED BY <2>1, <2>2, <2>3, <2>4 DEF TypeOK, RescueOK, BoundsOK
<1>2. CASE FlushErase
    <2>1. WellFormed(flash')
        BY <1>2, EraseWellFormed DEF FlushErase, TypeOK
    <2> QED BY <1>2, <2>1 DEF FlushErase, TypeOK, RescueOK, BoundsOK
<1>3. CASE FlushProgram
    <2>1. wh.writeOffset \in Nat /\ wh.buf \in Seq(BufferWord) /\ wh \in HandleType
        BY DEF TypeOK, HandleType
    <2>2. WellFormed(flash')
        <3>1. \A i \in 1 .. Len(wh.buf) : wh.buf[i][1] \in WordKinds
            BY <2>1, BufferKinds
        <3>2. WellFormed(flash) /\ Len(wh.buf) \in Nat
            BY <2>1 DEF TypeOK
        <3>3. WellFormed(Program(flash, wh.writeOffset, wh.buf))
            BY <2>1, <3>1, <3>2, ProgramWellFormed
        <3>4. flash' = Program(flash, wh.writeOffset, wh.buf)
            BY <1>3 DEF FlushProgram
        <3> QED BY <3>3, <3>4
    <2>3. wh' \in HandleType /\ Len(wh'.buf) <= PageWords
        BY <1>3, <2>1, FlashAssumption DEF FlushProgram, HandleType
    <2>4. pc' \in Phases
        BY <1>3 DEF FlushProgram, AfterFlush
    <2> QED BY <1>3, <2>2, <2>3, <2>4 DEF FlushProgram, TypeOK, RescueOK, BoundsOK
<1>4. ASSUME FlushFails, timeouts' \in 0 .. MaxTimeouts PROVE TypeOK'
    <2>1. WellFormed(flash') /\ RescueOK' /\ BoundsOK'
        BY <1>4 DEF FlushFails, TypeOK, RescueOK, BoundsOK
    <2>2. wh' \in HandleType /\ Len(wh'.buf) <= PageWords
        <3>1. wh' = NoHandle \/ wh' = wh
            BY <1>4 DEF FlushFails
        <3> QED BY <3>1, NoHandleType DEF TypeOK
    <2>3. job' \in JobType
        <3>1. \/ job' = NoJob
              \/ job' = [data |-> job.data, rem |-> <<>>, ok |-> FALSE]
              \/ job' = [job EXCEPT !.ok = FALSE]
            BY <1>4 DEF FlushFails
        <3>2. [data |-> job.data, rem |-> <<>>, ok |-> FALSE] \in JobType
            BY DEF TypeOK, JobType
        <3>3. [job EXCEPT !.ok = FALSE] \in JobType
            BY DEF TypeOK, JobType
        <3> QED BY <3>1, <3>2, <3>3, NoJobType
    <2>4. pc' \in Phases /\ result' \in {"none", "ok", "failed"} /\ kept'.status \in ReadStates
        BY <1>4, ReadStatus DEF FlushFails, TypeOK, AfterFlush
    <2>5. streamSize' \in Int
        <3>1. StreamSize(wh) \in Int
            BY DEF TypeOK, HandleType, StreamSize, HeaderWords
        <3> QED BY <1>4, <3>1 DEF FlushFails, TypeOK
    <2> QED BY <2>1, <2>2, <2>3, <2>4, <2>5 DEF TypeOK
<1>5. CASE FlushTimeout
    BY <1>4, <1>5, TimeoutBounds DEF FlushTimeout, TypeOK
<1>6. CASE FlushOverLimit
    BY <1>4, <1>6 DEF FlushOverLimit, TypeOK, BoundsOK
<1> QED BY <1>1, <1>2, <1>3, <1>5, <1>6

\* The steps of CloseWrite, and Remove.
LEMMA CloseTypes ==
    ASSUME TypeOK, CloseErase \/ CloseEraseTimeout \/ CloseHeader \/ CloseHeaderTimeout \/ Remove
    PROVE  TypeOK'
<1> USE DEF Phases
<1>1. \A f, s : WellFormed(f) => WellFormed(EraseSector(f, s))
    BY EraseWellFormed
<1>2. ASSUME NEW ok \in BOOLEAN, NEW f, EndSave(ok, f), WellFormed(flash'),
             timeouts' \in 0 .. MaxTimeouts
      PROVE  TypeOK'
    <2>1. kept'.status \in ReadStates
        BY <1>2, ReadStatus DEF EndSave, Found, ReadStates
    <2>2. job' \in JobType
        BY <1>2 DEF EndSave, TypeOK, JobType
    <2> QED BY <1>2, <2>1, <2>2, NoHandleType DEF EndSave, TypeOK, RescueOK, BoundsOK
<1>3. CASE CloseErase
    <2>1. WellFormed(flash')
        BY <1>1, <1>3 DEF CloseErase, TypeOK
    <2> QED BY <1>3, <2>1 DEF CloseErase, TypeOK, RescueOK, BoundsOK
<1>4. CASE CloseEraseTimeout
    <2>1. timeouts' \in 0 .. MaxTimeouts
        BY <1>4, TimeoutBounds DEF CloseEraseTimeout, TypeOK
    <2>2. job' \in JobType
        BY <1>4 DEF CloseEraseTimeout, TypeOK, JobType
    <2> QED BY <1>4, <2>1, <2>2 DEF CloseEraseTimeout, TypeOK, RescueOK, BoundsOK
<1>5. CASE CloseHeader
    <2>1. WellFormed(flash')
        <3>1. wh.headerOffset \in Nat
            BY DEF TypeOK, HandleType
        <3>2. Len(NewHeader(flash)) = 2
            BY DEF NewHeader
        <3>3. \A i \in 1 .. 2 : NewHeader(flash)[i][1] \in WordKinds
            BY DEF NewHeader, SizeWord, CrcOf, WordKinds
        <3> QED BY <1>5, <3>1, <3>2, <3>3, ProgramWellFormed DEF CloseHeader, TypeOK
    <2>2. job.ok \in BOOLEAN /\ timeouts' \in 0 .. MaxTimeouts
        BY <1>5 DEF CloseHeader, TypeOK, JobType, BoundsOK
    <2> QED BY <1>2, <1>5, <2>1, <2>2 DEF CloseHeader
<1>6. CASE CloseHeaderTimeout
    <2>1. timeouts' \in 0 .. MaxTimeouts
        BY <1>6, TimeoutBounds DEF CloseHeaderTimeout, TypeOK
    <2> QED BY <1>2, <1>6, <2>1 DEF CloseHeaderTimeout, TypeOK
<1>7. CASE Remove
    <2>1. WellFormed(flash') /\ kept'.status \in ReadStates
        BY <1>1, <1>7 DEF Remove, TypeOK, Failed, ReadStates
    <2> QED BY <1>7, <2>1 DEF Remove, TypeOK, RescueOK, BoundsOK
<1> QED BY <1>3, <1>4, <1>5, <1>6, <1>7

\* A program operation cut off after k words writes words of known kinds.
LEMMA TornPage ==
    ASSUME NEW ws, ws = [i \in 1 .. Len(ws) |-> ws[i]], Len(ws) \in Nat,
           NEW k \in 1 .. Len(ws), NEW w \in TornWords(ws[k])
    PROVE  /\ Len(SubSeq(ws, 1, k - 1) \o <<w>>) = k
           /\ \A i \in 1 .. k : (SubSeq(ws, 1, k - 1) \o <<w>>)[i] = IF i = k THEN w ELSE ws[i]
           /\ ws[k] = FF => w = FF
           /\ w[1] \in WordKinds
<1> DEFINE S == {ws[i] : i \in 1 .. Len(ws)} \cup {w}
<1>1. ws \in [1 .. Len(ws) -> S]
    OBVIOUS
<1>2. ws \in Seq(S)
    BY <1>1
<1>3. SubSeq(ws, 1, k - 1) \in Seq(S) /\ <<w>> \in Seq(S)
    BY <1>2
<1>4. /\ Len(SubSeq(ws, 1, k - 1)) = k - 1
      /\ \A i \in 1 .. k - 1 : SubSeq(ws, 1, k - 1)[i] = ws[i]
    BY <1>2
<1>5. ws[k] = FF => w = FF
    BY DEF TornWords, FF
<1>6. w[1] \in WordKinds
    BY DEF TornWords, FF, Torn, SizeWord, WordKinds
<1> HIDE DEF S
<1> DEFINE head == SubSeq(ws, 1, k - 1)
<1>7. k \in Nat /\ k >= 1
    OBVIOUS
<1>8. head \in Seq(S) /\ Len(head) = k - 1 /\ \A i \in 1 .. k - 1 : head[i] = ws[i]
    BY <1>3, <1>4
<1> HIDE DEF head
<1>9. Len(head \o <<w>>) = k
    BY <1>3, <1>7, <1>8
<1>10. ASSUME NEW i \in 1 .. k
       PROVE  (head \o <<w>>)[i] = IF i = k THEN w ELSE ws[i]
    <2>1. CASE i = k
        BY <1>3, <1>7, <1>8, <2>1
    <2>2. CASE i # k
        <3>1. i \in 1 .. k - 1 /\ i \in 1 .. Len(head)
            BY <1>7, <1>8, <2>2
        <3>2. (head \o <<w>>)[i] = head[i]
            BY <1>3, <1>8, <3>1
        <3> QED BY <1>8, <2>2, <3>1, <3>2
    <2> QED BY <2>1, <2>2
<1> QED BY <1>5, <1>6, <1>9, <1>10 DEF head

\* An erase cut off in the middle changes words of its sector only.
LEMMA CutEraseFacts ==
    ASSUME TypeOK, NEW s, NEW f \in CutErase(s)
    PROVE  /\ WellFormed(f)
           /\ \A a \in Addresses : SectorOf(a) # s => f[a] = flash[a]
<1> DEFINE sector == {a \in Addresses : SectorOf(a) = s}
<1>1. \/ \E done \in SUBSET sector :
            f = [a \in Addresses |-> IF a \in done THEN FF ELSE flash[a]]
      \/ f = [a \in Addresses |-> IF a \in sector THEN Torn ELSE flash[a]]
    BY DEF CutErase
<1>2. FF[1] \in WordKinds /\ Torn[1] \in WordKinds
    BY DEF FF, Torn, WordKinds
<1>3. CASE \E done \in SUBSET sector :
                f = [a \in Addresses |-> IF a \in done THEN FF ELSE flash[a]]
    <2>1. PICK done \in SUBSET sector :
                f = [a \in Addresses |-> IF a \in done THEN FF ELSE flash[a]]
        BY <1>3
    <2> QED BY <1>2, <2>1 DEF WellFormed, TypeOK
<1>4. CASE f = [a \in Addresses |-> IF a \in sector THEN Torn ELSE flash[a]]
    BY <1>2, <1>4 DEF WellFormed, TypeOK
<1> QED BY <1>1, <1>3, <1>4

\* A crash keeps the types.
LEMMA CrashTypes == ASSUME TypeOK, Crash PROVE TypeOK'
<1>1. CASE CrashBetween
    BY <1>1, RestartTypes, OwedStatus DEF CrashBetween, TypeOK
<1>2. CASE CrashInErase
    <2>3. PICK s \in ErasedNow : \E f \in CutErase(s) : Restart(f, Owed(f))
        BY <1>2 DEF CrashInErase
    <2>1. PICK f \in CutErase(s) : Restart(f, Owed(f))
        BY <2>3
    <2>2. WellFormed(f)
        BY <2>1, CutEraseFacts
    <2> QED BY <2>1, <2>2, RestartTypes, OwedStatus
<1>3. CASE CrashInProgram
    <2>1. PICK op \in ProgrammedNow : \E k \in 1 .. Len(op[2]) : \E w \in TornWords(op[2][k]) :
             LET f == Program(flash, op[1], SubSeq(op[2], 1, k - 1) \o <<w>>)
             IN  Restart(f, Owed(f))
        BY <1>3 DEF CrashInProgram
    <2>8. PICK k \in 1 .. Len(op[2]) : \E w \in TornWords(op[2][k]) :
             LET f == Program(flash, op[1], SubSeq(op[2], 1, k - 1) \o <<w>>)
             IN  Restart(f, Owed(f))
        BY <2>1
    <2>2. PICK w \in TornWords(op[2][k]) :
             LET f == Program(flash, op[1], SubSeq(op[2], 1, k - 1) \o <<w>>)
             IN  Restart(f, Owed(f))
        BY <2>8
    <2> DEFINE ws == SubSeq(op[2], 1, k - 1) \o <<w>>
               f  == Program(flash, op[1], ws)
    <2>3. op[1] \in Nat /\ \A i \in 1 .. Len(op[2]) : op[2][i][1] \in WordKinds
        BY ProgrammedTypes
    <2>4. Len(op[2]) \in Nat /\ op[2] = [i \in 1 .. Len(op[2]) |-> op[2][i]]
        BY ProgrammedTypes
    <2>5. Len(ws) = k /\ \A i \in 1 .. k : ws[i][1] \in WordKinds
        <3>1. /\ Len(ws) = k /\ w[1] \in WordKinds
              /\ \A i \in 1 .. k : ws[i] = IF i = k THEN w ELSE op[2][i]
            <4>1. k \in 1 .. Len(op[2]) /\ w \in TornWords(op[2][k])
                BY <2>2, <2>8
            <4> DEFINE page == op[2]
            <4>2. page = [i \in 1 .. Len(page) |-> page[i]] /\ Len(page) \in Nat
                BY <2>4
            <4>3. k \in 1 .. Len(page) /\ w \in TornWords(page[k])
                BY <4>1
            <4> HIDE DEF page
            <4>4. /\ Len(SubSeq(page, 1, k - 1) \o <<w>>) = k /\ w[1] \in WordKinds
                  /\ \A i \in 1 .. k :
                        (SubSeq(page, 1, k - 1) \o <<w>>)[i] = IF i = k THEN w ELSE page[i]
                BY SMTT(30), <4>2, <4>3, TornPage
            <4> QED BY <4>4 DEF page
        <3> HIDE DEF ws
        <3> QED BY <2>3, <2>4, <3>1
    <2>6. WellFormed(f)
        <3>1. Len(ws) \in Nat
            BY <2>5
        <3> HIDE DEF ws
        <3> QED BY <2>3, <2>5, <3>1, ProgramWellFormed DEF TypeOK
    <2>7. Restart(f, Owed(f))
        BY <2>2
    <2> HIDE DEF f
    <2> QED BY <2>6, <2>7, RestartTypes, OwedStatus
<1> QED BY <1>1, <1>2, <1>3 DEF Crash

\* The first state is well typed.
LEMMA TypeInit == Init => TypeOK
<1> SUFFICES ASSUME Init PROVE TypeOK
    OBVIOUS
<1>1. WellFormed(flash)
    BY DEF Init, WellFormed, FF, WordKinds
<1>2. wh \in HandleType /\ Len(wh.buf) <= PageWords /\ job \in JobType
    BY NoHandleType, NoJobType DEF Init
<1>3. RescueOK
    <2>1. rescue = <<>> /\ Len(<<>>) = 0 /\ SectorWords \in Nat \ {0}
        BY FlashAssumption DEF Init
    <2> QED BY <2>1 DEF RescueOK
<1>4. BoundsOK
    BY FlashAssumption DEF Init, BoundsOK
<1>5. kept.status \in ReadStates
    BY DEF Init, Failed, ReadStates
<1> QED BY <1>1, <1>2, <1>3, <1>4, <1>5 DEF Init, TypeOK, Phases

\* Every step keeps the types.
LEMMA TypeStep == TypeOK /\ [Next]_vars => TypeOK'
<1> SUFFICES ASSUME TypeOK, [Next]_vars PROVE TypeOK'
    OBVIOUS
<1>1. CASE Save \/ RestoreErase \/ RestoreEraseTimeout \/ RestoreProgram
    BY <1>1, OpenTypes
<1>2. CASE WriteFile \/ FlushErase \/ FlushProgram \/ FlushTimeout \/ FlushOverLimit
    BY <1>2, FlushTypes
<1>3. CASE CloseErase \/ CloseEraseTimeout \/ CloseHeader \/ CloseHeaderTimeout \/ Remove
    BY <1>3, CloseTypes
<1>4. CASE Crash
    BY <1>4, CrashTypes
<1>5. CASE UNCHANGED vars
    BY <1>5 DEF vars, TypeOK, RescueOK, BoundsOK
<1> QED BY <1>1, <1>2, <1>3, <1>4, <1>5 DEF Next, Step

\* Every reachable state is well typed: the write buffer never holds more than
\* a page, the RAM copy of a dirty sector less than a sector, and the words of
\* the block are words (FlashStorage::WriteHandle, OpenWrite, WriteFile).
THEOREM TypeInvariant == Spec => []TypeOK
BY TypeInit, TypeStep, PTL DEF Spec

-----------------------------------------------------------------------------
\* HandleFacts and the cursor: appending at h leaves the page before h alone.
LEMMA CursorOpen ==
    ASSUME TypeOK, CursorOK, Save \/ RestoreErase \/ RestoreEraseTimeout \/ RestoreProgram
    PROVE  CursorOK'
<1>1. ASSUME NEW h \in Nat, wh' = HandleAt(h), pc' = "write" PROVE CursorOK'
    <2>1. wh'.headerOffset = h /\ wh'.writeOffset + Len(wh'.buf) = h
        BY <1>1, HandleFacts
    <2>2. \A i \in 1 .. Len(wh'.buf) : wh'.buf[i] = FF
        BY <1>1, HandleFacts
    <2> QED BY <1>1, <2>1, <2>2 DEF CursorOK
<1>2. ASSUME wh' = NoHandle, pc' = "write" PROVE CursorOK'
    BY <1>2 DEF CursorOK, NoHandle
<1>3. CASE Save
    <2>1. PICK data \in Contents : SaveAppend(data) \/ SaveDirty(data) \/ SaveFromStart(data)
        BY <1>3 DEF Save
    <2>2. CASE SaveAppend(data)
        BY <1>1, <2>2, AddressNat DEF SaveAppend
    <2>3. CASE SaveDirty(data)
        BY <2>3 DEF SaveDirty, CursorOK, Writing
    <2>4. CASE SaveFromStart(data)
        BY <1>2, <2>4 DEF SaveFromStart
    <2> QED BY <2>1, <2>2, <2>3, <2>4
<1>4. CASE RestoreErase
    BY <1>4 DEF RestoreErase, CursorOK, Writing
<1>5. CASE RestoreEraseTimeout
    BY <1>2, <1>5 DEF RestoreEraseTimeout
<1>6. CASE RestoreProgram
    <2>1. wh.headerOffset \in Nat
        BY DEF TypeOK, HandleType
    <2> QED BY <1>1, <1>6, <2>1 DEF RestoreProgram
<1> QED BY <1>3, <1>4, <1>5, <1>6

\* WriteFile and Flush keep the buffer at or after the header.
LEMMA CursorFlush ==
    ASSUME TypeOK, CursorOK,
           WriteFile \/ FlushErase \/ FlushProgram \/ FlushTimeout \/ FlushOverLimit
    PROVE  CursorOK'
<1>0. /\ wh.writeOffset \in Nat /\ wh.headerOffset \in Nat
      /\ Len(wh.buf) \in Nat /\ Len(wh.buf) <= PageWords /\ PageWords \in Nat
    BY FlashAssumption DEF TypeOK, HandleType
<1>1. CASE WriteFile
    <2>1. PICK n \in Nat :
             /\ n # Len(job.rem) => n = PageWords - Len(wh.buf)
             /\ wh' \in HandleType
             /\ wh'.writeOffset = wh.writeOffset
             /\ wh'.headerOffset = wh.headerOffset
             /\ Len(wh'.buf) = Len(wh.buf) + n
             /\ \A i \in 1 .. Len(wh.buf) : wh'.buf[i] = wh.buf[i]
             /\ pc' = IF n = Len(job.rem) THEN "closeFlush" ELSE "writeFlush"
        BY <1>1, CopyFacts
    <2>2. /\ wh.headerOffset <= wh.writeOffset + Len(wh.buf)
          /\ \A i \in 1 .. Len(wh.buf) : wh.writeOffset + i <= wh.headerOffset => wh.buf[i] = FF
        BY <1>1 DEF CursorOK, WriteFile, Writing
    <2>3. wh'.headerOffset <= wh'.writeOffset + Len(wh'.buf)
        BY <1>0, <2>1, <2>2
    <2>4. ASSUME NEW i \in 1 .. Len(wh'.buf), wh'.writeOffset + i <= wh'.headerOffset
          PROVE  wh'.buf[i] = FF
        <3>1. i \in 1 .. Len(wh.buf)
            BY <1>0, <2>1, <2>2, <2>4
        <3> QED BY <2>1, <2>2, <2>4, <3>1
    <2>5. pc' = "writeFlush" => Len(wh'.buf) = PageWords
        BY <1>0, <2>1
    <2> QED BY <2>3, <2>4, <2>5 DEF CursorOK
<1>2. CASE FlushErase
    BY <1>2 DEF FlushErase, CursorOK
<1>3. CASE FlushProgram
    <2>1. wh.headerOffset <= wh.writeOffset + Len(wh.buf)
        BY <1>3 DEF FlushProgram, Flushing, CursorOK, Writing
    <2>2. /\ wh'.headerOffset = wh.headerOffset /\ wh'.writeOffset = wh.writeOffset + PageWords
          /\ wh'.buf = <<>> /\ Len(wh'.buf) = 0
        BY <1>3 DEF FlushProgram
    <2>3. pc' # "writeFlush"
        BY <1>3 DEF FlushProgram, AfterFlush
    <2>4. wh'.headerOffset <= wh'.writeOffset + Len(wh'.buf)
        BY <1>0, <2>1, <2>2
    <2> QED BY <2>2, <2>3, <2>4 DEF CursorOK
<1>4. ASSUME Flushing, FlushFails PROVE CursorOK'
    <2>1. CASE pc' = "idle"
        BY <2>1 DEF CursorOK, Writing
    <2>2. CASE pc' # "idle"
        <3>1. wh' = wh /\ pc' # "writeFlush"
            BY <1>4, <2>2 DEF FlushFails, AfterFlush
        <3> QED BY <1>4, <3>1 DEF CursorOK, Flushing, Writing
    <2> QED BY <2>1, <2>2
<1>5. CASE FlushTimeout
    BY <1>4, <1>5 DEF FlushTimeout
<1>6. CASE FlushOverLimit
    BY <1>4, <1>6 DEF FlushOverLimit
<1> QED BY <1>1, <1>2, <1>3, <1>5, <1>6

\* So do the steps of CloseWrite, which leave the handle or free it.
LEMMA CursorClose ==
    ASSUME TypeOK, CursorOK,
           CloseErase \/ CloseEraseTimeout \/ CloseHeader \/ CloseHeaderTimeout \/ Remove \/ Crash
    PROVE  CursorOK'
<1>1. CASE CloseErase \/ CloseEraseTimeout
    <2>1. wh' = wh /\ pc = "closeErase" /\ pc' = "closeHeader"
        BY <1>1 DEF CloseErase, CloseEraseTimeout
    <2> QED BY <2>1 DEF CursorOK, Writing
<1>2. CASE CloseHeader \/ CloseHeaderTimeout \/ Remove \/ Crash
    <2>1. pc' = "idle"
        BY <1>2 DEF CloseHeader, CloseHeaderTimeout, EndSave, Remove, Crash, CrashBetween,
                    CrashInErase, CrashInProgram, Restart
    <2> QED BY <2>1 DEF CursorOK, Writing
<1> QED BY <1>1, <1>2

\* The cursor invariant holds after every step.
LEMMA CursorStep == TypeOK /\ CursorOK /\ [Next]_vars => CursorOK'
<1> SUFFICES ASSUME TypeOK, CursorOK, [Next]_vars PROVE CursorOK'
    OBVIOUS
<1>1. CASE UNCHANGED vars
    BY <1>1 DEF vars, CursorOK
<1> QED BY <1>1, CursorOpen, CursorFlush, CursorClose DEF Next, Step

-----------------------------------------------------------------------------
\* The room OpenWrite finds for a copy is what the copy takes, when the caller
\* declares its size exactly.
LEMMA RoomOpen ==
    ASSUME Undeclared = 0, TypeOK, RoomOK,
           Save \/ RestoreErase \/ RestoreEraseTimeout \/ RestoreProgram
    PROVE  RoomOK'
<1>1. ASSUME NEW data \in Contents, NEW h \in Addresses, StartSave(data), CanAppend(h, data)
      PROVE  h + Len(job'.rem) <= MaxSize
    <2>1. Len(job'.rem) = HeaderWords + Len(data) /\ Len(data) \in Nat
        BY <1>1, StartSaveFacts, ContentsSeq
    <2>2. h + HeaderWords + (Len(data) - 0) <= MaxSize
        BY <1>1 DEF CanAppend, HasRoom
    <2> QED BY <2>1, <2>2, AddressNat DEF HeaderWords
<1>2. ASSUME NEW h \in Nat, wh' = HandleAt(h), pc' = "write", h + Len(job'.rem) <= MaxSize
      PROVE  RoomOK'
    BY <1>2, HandleFacts DEF RoomOK
<1>3. ASSUME wh' = NoHandle, pc' = "write" PROVE RoomOK'
    BY <1>3 DEF RoomOK, NoHandle
<1>4. CASE Save
    <2>1. PICK data \in Contents : SaveAppend(data) \/ SaveDirty(data) \/ SaveFromStart(data)
        BY <1>4 DEF Save
    <2>2. CASE SaveAppend(data)
        <3>1. PICK h \in Addresses : /\ StartSave(data) /\ CanAppend(h, data)
                                     /\ wh' = HandleAt(h) /\ pc' = "write"
            BY <2>2 DEF SaveAppend
        <3> QED BY <1>1, <1>2, <3>1, AddressNat
    <2>3. CASE SaveDirty(data)
        <3>1. PICK h \in Addresses : /\ StartSave(data) /\ CanAppend(h, data)
                                     /\ wh' = [NoHandle EXCEPT !.headerOffset = h]
                                     /\ pc' = "restoreErase"
            BY <2>3 DEF SaveDirty
        <3>2. wh'.headerOffset = h
            BY <3>1 DEF NoHandle
        <3>3. h + Len(job'.rem) <= MaxSize
            BY <1>1, <3>1
        <3> QED BY <3>1, <3>2, <3>3 DEF RoomOK
    <2>4. CASE SaveFromStart(data)
        BY <1>3, <2>4 DEF SaveFromStart
    <2> QED BY <2>1, <2>2, <2>3, <2>4
<1>5. CASE RestoreErase
    BY <1>5 DEF RestoreErase, RoomOK
<1>6. CASE RestoreEraseTimeout
    BY <1>3, <1>6 DEF RestoreEraseTimeout
<1>7. CASE RestoreProgram
    <2>1. /\ wh.headerOffset \in Nat /\ wh' = HandleAt(wh.headerOffset) /\ pc' = "write"
          /\ wh.headerOffset + Len(job'.rem) <= MaxSize
        BY <1>7 DEF RestoreProgram, RoomOK, TypeOK, HandleType
    <2> QED BY <1>2, <2>1
<1> QED BY <1>4, <1>5, <1>6, <1>7

\* WriteFile moves words from the caller to the buffer and Flush from the buffer to the block.
LEMMA RoomFlush ==
    ASSUME TypeOK, CursorOK, RoomOK,
           WriteFile \/ FlushErase \/ FlushProgram \/ FlushTimeout \/ FlushOverLimit
    PROVE  RoomOK'
<1>0. /\ wh.writeOffset \in Nat /\ wh.headerOffset \in Nat /\ Len(job.rem) \in Nat
      /\ Len(wh.buf) \in Nat /\ PageWords \in Nat /\ MaxSize \in Nat
    BY FlashAssumption DEF TypeOK, HandleType, JobType
<1>1. CASE WriteFile
    <2>1. PICK n \in Nat :
             /\ wh'.writeOffset = wh.writeOffset
             /\ wh'.headerOffset = wh.headerOffset
             /\ Len(wh'.buf) = Len(wh.buf) + n
             /\ Len(job'.rem) = Len(job.rem) - n
             /\ pc' = IF n = Len(job.rem) THEN "closeFlush" ELSE "writeFlush"
        BY <1>1, CopyFacts
    <2>2. wh.headerOffset # 0 => wh.writeOffset + Len(wh.buf) + Len(job.rem) <= MaxSize
        BY <1>1 DEF RoomOK, WriteFile
    <2>3. wh'.headerOffset # 0 => wh'.writeOffset + Len(wh'.buf) + Len(job'.rem) <= MaxSize
        BY SMTT(30), <1>0, <2>1, <2>2
    <2>4. pc' \notin {"restoreErase", "restoreProgram"}
        BY <2>1
    <2> QED BY <2>3, <2>4 DEF RoomOK
<1>2. CASE FlushErase
    BY <1>2 DEF FlushErase, RoomOK
<1>3. CASE FlushProgram
    <2>1. CASE pc = "writeFlush"
        <3>1. Len(wh.buf) = PageWords
            BY <2>1 DEF CursorOK
        <3>2. wh.headerOffset # 0 => wh.writeOffset + Len(wh.buf) + Len(job.rem) <= MaxSize
            BY <2>1 DEF RoomOK
        <3>3. /\ wh'.headerOffset = wh.headerOffset /\ wh'.writeOffset = wh.writeOffset + PageWords
              /\ Len(wh'.buf) = 0 /\ job' = job /\ pc' = "write"
            BY <1>3, <2>1 DEF FlushProgram
        <3>4. wh'.headerOffset # 0 => wh'.writeOffset + Len(wh'.buf) + Len(job'.rem) <= MaxSize
            BY <1>0, <3>1, <3>2, <3>3
        <3> QED BY <3>3, <3>4 DEF RoomOK
    <2>2. CASE pc # "writeFlush"
        <3>1. pc' \in {"closeErase", "closeHeader"}
            BY <1>3, <2>2 DEF FlushProgram, AfterFlush
        <3> QED BY <3>1 DEF RoomOK
    <2> QED BY <2>1, <2>2
<1>4. ASSUME Flushing, FlushFails PROVE RoomOK'
    <2>1. CASE pc' = "closeFlush"
        <3>1. wh' = wh /\ Len(job'.rem) = 0 /\ pc = "writeFlush"
            BY <1>4, <2>1 DEF FlushFails, AfterFlush
        <3>2. wh.headerOffset # 0 => wh.writeOffset + Len(wh.buf) + Len(job.rem) <= MaxSize
            BY <3>1 DEF RoomOK
        <3>3. wh'.headerOffset # 0 => wh'.writeOffset + Len(wh'.buf) + Len(job'.rem) <= MaxSize
            BY <1>0, <3>1, <3>2
        <3> QED BY <2>1, <3>3 DEF RoomOK
    <2>2. CASE pc' # "closeFlush"
        <3>1. pc' \in {"idle", "closeErase", "closeHeader"}
            BY <1>4, <2>2 DEF FlushFails, AfterFlush
        <3> QED BY <3>1 DEF RoomOK
    <2> QED BY <2>1, <2>2
<1>5. CASE FlushTimeout \/ FlushOverLimit
    BY <1>4, <1>5 DEF FlushTimeout, FlushOverLimit
<1> QED BY <1>1, <1>2, <1>3, <1>5

\* The room that is left covers what is still to be written after every step.
LEMMA RoomStep ==
    ASSUME Undeclared = 0
    PROVE  TypeOK /\ CursorOK /\ RoomOK /\ [Next]_vars => RoomOK'
<1> SUFFICES ASSUME TypeOK, CursorOK, RoomOK, [Next]_vars PROVE RoomOK'
    OBVIOUS
<1>1. CASE CloseErase \/ CloseEraseTimeout \/ CloseHeader \/ CloseHeaderTimeout \/ Remove \/ Crash
    <2>1. pc' \in {"idle", "closeHeader"}
        BY <1>1 DEF CloseErase, CloseEraseTimeout, CloseHeader, CloseHeaderTimeout, EndSave,
                    Remove, Crash, CrashBetween, CrashInErase, CrashInProgram, Restart
    <2> QED BY <2>1 DEF RoomOK
<1>2. CASE UNCHANGED vars
    BY <1>2 DEF vars, RoomOK
<1> QED BY <1>1, <1>2, RoomOpen, RoomFlush DEF Next, Step

\* A flush in the room that is left fits in the block.
LEMMA RoomGivesFit ==
    ASSUME TypeOK, RoomOK PROVE NoOverrun
<1>1. Len(job.rem) \in Nat /\ wh.writeOffset \in Nat /\ Len(wh.buf) \in Nat /\ MaxSize \in Nat
    BY FlashAssumption DEF TypeOK, HandleType, JobType
<1> QED BY <1>1 DEF NoOverrun, RoomOK, Flushing, FitsBlock

\* There is no save at the start.
LEMMA CursorRoomInit == Init => CursorOK /\ RoomOK
BY DEF Init, CursorOK, RoomOK, Writing

\* When callers declare the size of what they save, OpenWrite only appends a copy
\* that fits: Flush never refuses a page of it, whatever crashes or times out.
THEOREM AppendedCopyFits ==
    ASSUME Undeclared = 0
    PROVE  Spec => []NoOverrun
<1>1. Init => CursorOK /\ RoomOK
    BY CursorRoomInit
<1>2. TypeOK /\ CursorOK /\ RoomOK /\ [Next]_vars => CursorOK' /\ RoomOK'
    BY CursorStep, RoomStep
<1>3. TypeOK /\ RoomOK => NoOverrun
    BY RoomGivesFit
<1> QED BY <1>1, <1>2, <1>3, TypeInvariant, PTL DEF Spec

-----------------------------------------------------------------------------
\* A program operation cut off in the middle is the programming of a shorter
\* sequence of words that has erased words wherever the page had.
LEMMA CutProgram ==
    ASSUME TypeOK, CrashInProgram
    PROVE  \E op \in ProgrammedNow : \E k \in 1 .. Len(op[2]) : \E ws :
              /\ Len(ws) = k
              /\ \A i \in 1 .. k : op[2][i] = FF => ws[i] = FF
              /\ flash' = Program(flash, op[1], ws)
<1>1. PICK op \in ProgrammedNow : \E k \in 1 .. Len(op[2]) : \E w \in TornWords(op[2][k]) :
         LET f == Program(flash, op[1], SubSeq(op[2], 1, k - 1) \o <<w>>)
         IN  Restart(f, Owed(f))
    BY DEF CrashInProgram
<1> DEFINE page == op[2]
<1>2. page = [i \in 1 .. Len(page) |-> page[i]] /\ Len(page) \in Nat
    BY ProgrammedTypes
<1>3. PICK k \in 1 .. Len(page) : \E w \in TornWords(page[k]) :
         LET f == Program(flash, op[1], SubSeq(page, 1, k - 1) \o <<w>>)
         IN  Restart(f, Owed(f))
    BY <1>1
<1>4. PICK w \in TornWords(page[k]) :
         LET f == Program(flash, op[1], SubSeq(page, 1, k - 1) \o <<w>>)
         IN  Restart(f, Owed(f))
    BY <1>3
<1> DEFINE ws == SubSeq(page, 1, k - 1) \o <<w>>
<1>5. flash' = Program(flash, op[1], ws)
    BY <1>4 DEF Restart
<1> HIDE DEF page
<1>8. k \in 1 .. Len(page) /\ w \in TornWords(page[k])
    BY <1>3, <1>4
<1>6. /\ Len(ws) = k
      /\ page[k] = FF => w = FF
      /\ \A i \in 1 .. k : ws[i] = IF i = k THEN w ELSE page[i]
    <2>1. /\ Len(SubSeq(page, 1, k - 1) \o <<w>>) = k
          /\ \A i \in 1 .. k :
                (SubSeq(page, 1, k - 1) \o <<w>>)[i] = IF i = k THEN w ELSE page[i]
        BY <1>2, <1>8, TornPage
    <2>2. page[k] = FF => w = FF
        BY <1>2, <1>8, TornPage
    <2> HIDE DEF ws
    <2> QED BY <2>1, <2>2 DEF ws
<1> HIDE DEF ws
<1>7. \A i \in 1 .. k : page[i] = FF => ws[i] = FF
    BY <1>6
<1> QED BY <1>5, <1>6, <1>7, <1>8 DEF page

SpareStep == pc \in Writing =>
    \A a \in Addresses : a < wh.headerOffset => flash'[a] = flash[a]

\* No step changes a word before the header of a copy that is appended.
LEMMA SpareNext ==
    ASSUME TypeOK, CursorOK, CloseOK, Next
    PROVE  SpareStep
<1> SUFFICES ASSUME pc \in Writing, NEW a \in Addresses, a < wh.headerOffset
             PROVE  flash'[a] = flash[a]
    BY DEF SpareStep
<1>0. /\ wh.writeOffset \in Nat /\ wh.headerOffset \in Nat /\ a \in Nat
      /\ Len(wh.buf) \in Nat /\ wh.buf \in Seq(BufferWord)
    BY AddressNat DEF TypeOK, HandleType
<1>1. \A i \in 1 .. Len(wh.buf) : wh.writeOffset + i <= wh.headerOffset => wh.buf[i] = FF
    BY DEF CursorOK
<1>2. ASSUME NEW ws, Len(ws) \in Nat, Len(ws) <= Len(wh.buf),
             \A i \in 1 .. Len(ws) : wh.buf[i] = FF => ws[i] = FF
      PROVE  Program(flash, wh.writeOffset, ws)[a] = flash[a]
    <2>1. CASE a < wh.writeOffset \/ a >= wh.writeOffset + Len(ws)
        BY SMTT(30), <1>0, <1>2, <2>1, ProgramKeeps
    <2>2. CASE ~(a < wh.writeOffset \/ a >= wh.writeOffset + Len(ws))
        <3>1. a - wh.writeOffset + 1 \in 1 .. Len(ws)
            BY <1>0, <1>2, <2>2
        <3>2. wh.buf[a - wh.writeOffset + 1] = FF
            <4> DEFINE i == a - wh.writeOffset + 1
            <4>1. i \in 1 .. Len(wh.buf) /\ wh.writeOffset + i <= wh.headerOffset
                BY <1>0, <1>2, <3>1
            <4> HIDE DEF i
            <4>2. wh.buf[i] = FF
                BY <1>1, <4>1
            <4> QED BY <4>2 DEF i
        <3>3. ws[a - wh.writeOffset + 1] = FF
            BY <1>2, <3>1, <3>2
        <3> QED BY SMTT(30), <1>0, <1>2, <3>3, ProgramKeeps
    <2> QED BY <2>1, <2>2
<1>3. ASSUME NEW ws, Len(ws) \in Nat
      PROVE  Program(flash, wh.headerOffset, ws)[a] = flash[a]
    BY <1>0, <1>3, ProgramKeeps
<1>4. CASE Save \/ Remove
    BY <1>4 DEF Save, SaveAppend, SaveDirty, SaveFromStart, StartSave, Remove, Writing
<1>5. CASE RestoreErase \/ RestoreEraseTimeout \/ RestoreProgram
    BY <1>5 DEF RestoreErase, RestoreEraseTimeout, RestoreProgram, Writing
<1>6. CASE WriteFile \/ FlushTimeout \/ FlushOverLimit \/ CloseEraseTimeout \/ CloseHeaderTimeout
    BY <1>6 DEF WriteFile, FlushTimeout, FlushOverLimit, FlushFails, CloseEraseTimeout, CloseHeaderTimeout
<1>7. CASE FlushErase
    <2>1. wh.headerOffset <= wh.writeOffset /\ flash' = EraseSector(flash, wh.writeOffset)
        BY <1>7 DEF FlushErase, EntersUnerased
    <2>2. a < wh.writeOffset
        BY <1>0, <2>1
    <2> QED BY <1>0, <2>1, <2>2, EraseFrom
<1>8. CASE FlushProgram
    BY <1>0, <1>2, <1>8 DEF FlushProgram
<1>9. CASE CloseErase
    <2>1. wh.headerOffset <= wh.writeOffset /\ flash' = EraseSector(flash, wh.writeOffset)
        BY <1>9 DEF CloseErase, CloseOK
    <2>2. a < wh.writeOffset
        BY <1>0, <2>1
    <2> QED BY <1>0, <2>1, <2>2, EraseFrom
<1>10. CASE CloseHeader
    <2>1. Len(NewHeader(flash)) = 2 /\ flash' = Program(flash, wh.headerOffset, NewHeader(flash))
        BY <1>10 DEF CloseHeader, NewHeader
    <2> QED BY <1>3, <2>1
<1>11. CASE CrashBetween
    BY <1>11 DEF CrashBetween, Restart
<1>12. CASE CrashInErase
    <2>1. PICK s \in ErasedNow : \E f \in CutErase(s) : flash' = f
        BY <1>12 DEF CrashInErase, Restart
    <2>2. s = wh.writeOffset /\ wh.headerOffset <= wh.writeOffset
        BY <2>1 DEF ErasedNow, Writing, Flushing, EntersUnerased, CloseOK
    <2>3. SectorOf(a) <= a /\ SectorOf(a) \in Nat
        BY <1>0, SectorBounds
    <2>4. SectorOf(a) # s
        BY <1>0, <2>2, <2>3
    <2> QED BY <2>1, <2>4, CutEraseFacts
<1>13. CASE CrashInProgram
    <2>1. PICK op \in ProgrammedNow : \E k \in 1 .. Len(op[2]) : \E ws :
              /\ Len(ws) = k
              /\ \A i \in 1 .. k : op[2][i] = FF => ws[i] = FF
              /\ flash' = Program(flash, op[1], ws)
        BY <1>13, CutProgram
    <2>6. PICK k \in 1 .. Len(op[2]) : \E ws :
              /\ Len(ws) = k
              /\ \A i \in 1 .. k : op[2][i] = FF => ws[i] = FF
              /\ flash' = Program(flash, op[1], ws)
        BY <2>1
    <2>2. PICK ws :
              /\ Len(ws) = k
              /\ \A i \in 1 .. k : op[2][i] = FF => ws[i] = FF
              /\ flash' = Program(flash, op[1], ws)
        BY <2>6
    <2>3. \/ op = <<wh.writeOffset, wh.buf>>
          \/ op = <<wh.headerOffset, NewHeader(flash)>>
        BY <2>1 DEF ProgrammedNow, Writing, Flushing
    <2>4. CASE op = <<wh.writeOffset, wh.buf>>
        <3>1. op[1] = wh.writeOffset /\ op[2] = wh.buf
            BY <2>4
        <3>2. Len(ws) \in Nat /\ Len(ws) <= Len(wh.buf)
            BY <1>0, <2>2, <3>1
        <3>3. \A i \in 1 .. Len(ws) : wh.buf[i] = FF => ws[i] = FF
            BY <2>2, <3>1
        <3> QED BY <1>2, <2>2, <3>1, <3>2, <3>3
    <2>5. CASE op = <<wh.headerOffset, NewHeader(flash)>>
        <3>1. Len(op[2]) \in Nat
            BY ProgrammedTypes
        <3> QED BY <1>3, <2>2, <2>5, <3>1
    <2> QED BY <2>3, <2>4, <2>5
<1> QED BY <1>4, <1>5, <1>6, <1>7, <1>8, <1>9, <1>10, <1>11, <1>12, <1>13 DEF Next, Step, Crash

\* A set of naturals that is not empty has a least element.
LEMMA LeastExists ==
    ASSUME NEW S, S \subseteq Nat, S # {}
    PROVE  \E m \in S : \A n \in S : m <= n
<1> DEFINE R == {p \in Nat \X Nat : p[1] < p[2]}
<1>1. IsWellFoundedOn(R, Nat)
    BY NatLessThanWellFounded DEF OpToRel
<1>2. PICK m \in S : \A n \in S : <<n, m>> \notin R
    <2> HIDE DEF R
    <2> QED BY <1>1, WFMin
<1>3. \A n \in S : ~ (n < m)
    BY <1>2
<1> QED BY <1>2, <1>3

\* A size word holds a number, and the CRC behind a size that fits in the block is
\* that of something that was saved.
Sound(f) == \A a \in Addresses : f[a][1] = "size" =>
    /\ f[a][2] \in Nat
    /\ HeaderFits(f, a) /\ f[a + 1][1] = "crc" => f[a + 1][2] \in Contents

\* One step of the forward scan, with the scan from later headers given.
Continues(f, h) == NextHeader(f, h) < MaxSize /\ f[NextHeader(f, h)] # FF
ScanStep(f, scan, h) ==
    IF ~HeaderFits(f, h) THEN NoHeader
    ELSE IF Continues(f, h) THEN scan[NextHeader(f, h)] ELSE h
IsScan(f, scan, S) == scan = [h \in S |-> ScanStep(f, scan, h)]
Scan(f) == CHOOSE scan : IsScan(f, scan, Addresses)

\* The scan of GetFileStream starts at the block's first word.
LEMMA LatestIsScan ==
    ASSUME NEW f
    PROVE  LatestHeader(f) = IF IsSectorErased(f, 0) THEN NoHeader ELSE Scan(f)[0]
BY DEF LatestHeader, Scan, IsScan, ScanStep, Continues

\* The next header lies after the current one.
LEMMA NextFacts ==
    ASSUME NEW f, Sound(f), NEW h \in Addresses
    PROVE  /\ SizeAt(f, h) \in Nat /\ NextHeader(f, h) \in Nat
           /\ NextHeader(f, h) >= h + 2
           /\ NextHeader(f, h) < MaxSize => NextHeader(f, h) \in Addresses
           /\ HeaderFits(f, h) <=> NextHeader(f, h) <= MaxSize
           /\ HeaderFits(f, h) => f[h][1] = "size" /\ f[h] # FF
<1>1. h \in Nat /\ MaxSize \in Nat
    BY AddressNat, FlashAssumption
<1>2. SizeAt(f, h) \in Nat
    BY <1>1 DEF SizeAt, Sound
<1>3. f[h][1] # "size" => SizeAt(f, h) = MaxSize
    BY DEF SizeAt
<1>4. f[h][1] = "size" => f[h] # FF
    BY DEF FF
<1> QED BY <1>1, <1>2, <1>3, <1>4 DEF NextHeader, HeaderFits, HeaderWords, Addresses

\* A scan function exists: the last headers first, then those that lead to them.
LEMMA ScanExists ==
    ASSUME NEW f, Sound(f)
    PROVE  \E scan : IsScan(f, scan, Addresses)
<1> DEFINE D(n) == {h \in Addresses : h >= MaxSize - n}
           Bad  == {n \in Nat : ~ \E scan : IsScan(f, scan, D(n))}
<1>0. MaxSize \in Nat \ {0} /\ \A h \in Addresses : h \in Nat /\ h < MaxSize
    BY AddressNat, FlashAssumption
<1>1. 0 \notin Bad
    <2>1. D(0) = {}
        BY <1>0
    <2>2. IsScan(f, [h \in {} |-> 0], {})
        BY DEF IsScan
    <2> QED BY <2>1, <2>2
<1>2. ASSUME NEW n \in Nat, n \notin Bad PROVE n + 1 \notin Bad
    <2>1. PICK scan : IsScan(f, scan, D(n))
        BY <1>2
    <2> DEFINE more == [h \in D(n + 1) |-> IF h \in D(n) THEN scan[h] ELSE ScanStep(f, scan, h)]
    <2>2. ASSUME NEW h \in D(n + 1), Continues(f, h)
          PROVE  NextHeader(f, h) \in D(n) /\ NextHeader(f, h) \in D(n + 1)
        BY <1>0, <2>2, NextFacts DEF Continues
    <2>3. ASSUME NEW h \in D(n + 1)
          PROVE  more[h] = ScanStep(f, more, h)
        <3>1. more[h] = ScanStep(f, scan, h)
            BY <2>1 DEF IsScan
        <3>2. Continues(f, h) => more[NextHeader(f, h)] = scan[NextHeader(f, h)]
            BY <2>2
        <3> HIDE DEF more
        <3> QED BY <3>1, <3>2 DEF ScanStep
    <2>4. IsScan(f, more, D(n + 1))
        <3>1. more = [h \in D(n + 1) |-> more[h]]
            OBVIOUS
        <3> HIDE DEF more, D
        <3> QED BY <2>3, <3>1 DEF IsScan
    <2> QED BY <2>4
<1>3. Bad = {}
    <2> SUFFICES ASSUME Bad # {} PROVE FALSE
        OBVIOUS
    <2>1. PICK m \in Bad : \A n \in Bad : m <= n
        <3> HIDE DEF D
        <3> QED BY LeastExists
    <2>2. m \in Nat /\ m # 0
        BY <1>1, <2>1
    <2>3. m - 1 \in Nat /\ m - 1 \notin Bad /\ (m - 1) + 1 = m
        <3> HIDE DEF Bad
        <3> QED BY <2>1, <2>2
    <2> HIDE DEF Bad
    <2> QED BY <1>2, <2>1, <2>3
<1>4. D(MaxSize) = Addresses
    BY <1>0
<1>5. \E scan : IsScan(f, scan, D(MaxSize))
    BY <1>0, <1>3
<1> QED BY <1>4, <1>5

\* The scan from every header.
LEMMA ScanEquation ==
    ASSUME NEW f, Sound(f), NEW h \in Addresses
    PROVE  Scan(f)[h] = ScanStep(f, Scan(f), h)
<1>1. IsScan(f, Scan(f), Addresses)
    BY ScanExists DEF Scan
<1> QED BY <1>1 DEF IsScan

\* The scan ends on a header at or after its start that fits in the block, with
\* nothing after it.
ScanEnds(f, h) ==
    LET e == Scan(f)[h]
    IN  e # NoHeader =>
          /\ e \in Addresses /\ e >= h
          /\ HeaderFits(f, h) /\ HeaderFits(f, e) /\ ~Continues(f, e)

\* Where the scan ends, wherever it starts.
LEMMA ScanEnd ==
    ASSUME NEW f, Sound(f)
    PROVE  \A h \in Addresses : ScanEnds(f, h)
<1> DEFINE Bad == {n \in Nat : n <= MaxSize /\ MaxSize - n \in Addresses /\ ~ScanEnds(f, MaxSize - n)}
<1>0. MaxSize \in Nat \ {0} /\ \A h \in Addresses : h \in Nat /\ h < MaxSize
    BY AddressNat, FlashAssumption
<1> SUFFICES ASSUME NEW b \in Addresses, ~ScanEnds(f, b) PROVE FALSE
    OBVIOUS
<1>1. MaxSize - b \in Bad
    <2>1. MaxSize - b \in Nat /\ MaxSize - (MaxSize - b) = b /\ MaxSize - b <= MaxSize
        BY <1>0
    <2> QED BY <2>1
<1>2. PICK m \in Bad : \A n \in Bad : m <= n
    BY <1>1, LeastExists
<1> DEFINE h == MaxSize - m
<1>3. h \in Addresses /\ ~ScanEnds(f, h) /\ m \in Nat /\ h \in Nat
    BY <1>0, <1>2
<1>4. ASSUME Continues(f, h) PROVE ScanEnds(f, NextHeader(f, h))
    <2> DEFINE n == MaxSize - NextHeader(f, h)
    <2>1. NextHeader(f, h) \in Addresses /\ NextHeader(f, h) >= h + 2 /\ NextHeader(f, h) \in Nat
        BY <1>3, <1>4, NextFacts DEF Continues
    <2>2. n \in Nat /\ n <= MaxSize /\ n < m /\ MaxSize - n = NextHeader(f, h)
        BY <1>0, <1>3, <2>1
    <2>3. n \notin Bad
        <3> HIDE DEF n, Bad, h
        <3> QED BY <1>2, <1>3, <2>2
    <2> HIDE DEF h
    <2> QED BY <2>1, <2>2, <2>3
<1> HIDE DEF h
<1>5. Scan(f)[h] = ScanStep(f, Scan(f), h)
    BY <1>3, ScanEquation
<1>6. CASE ~HeaderFits(f, h)
    BY <1>3, <1>5, <1>6 DEF ScanStep, ScanEnds
<1>7. CASE HeaderFits(f, h) /\ ~Continues(f, h)
    BY <1>3, <1>5, <1>7 DEF ScanStep, ScanEnds
<1>8. CASE HeaderFits(f, h) /\ Continues(f, h)
    <2>1. Scan(f)[h] = Scan(f)[NextHeader(f, h)]
        BY <1>5, <1>8 DEF ScanStep
    <2>2. NextHeader(f, h) \in Nat /\ NextHeader(f, h) >= h + 2
        BY <1>3, NextFacts
    <2>3. ScanEnds(f, NextHeader(f, h))
        BY <1>4, <1>8
    <2>4. ScanEnds(f, h)
        <3> DEFINE e == Scan(f)[NextHeader(f, h)]
        <3>1. e # NoHeader => /\ e \in Addresses /\ e >= NextHeader(f, h)
                              /\ HeaderFits(f, e) /\ ~Continues(f, e)
            BY <2>3 DEF ScanEnds
        <3>2. e \in Addresses => e \in Nat
            BY <1>0
        <3> HIDE DEF e
        <3>3. e # NoHeader => e >= h
            BY <1>3, <2>2, <3>1, <3>2
        <3>4. Scan(f)[h] = e
            BY <2>1 DEF e
        <3> QED BY <1>8, <3>1, <3>3, <3>4 DEF ScanEnds
    <2> QED BY <1>3, <2>4
<1> QED BY <1>6, <1>7, <1>8

\* A block whose first sector is not erased opens at the end of the scan.
LEMMA LatestFacts ==
    ASSUME NEW f, Sound(f), LatestHeader(f) # NoHeader
    PROVE  LET h == LatestHeader(f)
           IN  /\ ~IsSectorErased(f, 0) /\ h = Scan(f)[0]
               /\ h \in Addresses /\ h \in Nat /\ HeaderFits(f, h) /\ ~Continues(f, h)
               /\ HeaderFits(f, 0) /\ f[0] # FF
<1>1. ~IsSectorErased(f, 0) /\ LatestHeader(f) = Scan(f)[0]
    BY LatestIsScan
<1>2. 0 \in Addresses
    BY FlashAssumption DEF Addresses
<1>3. ScanEnds(f, 0)
    BY <1>2, ScanEnd
<1> QED BY <1>1, <1>2, <1>3, AddressNat, NextFacts DEF ScanEnds

\* What opens with a good checksum is something that was saved.
LEMMA GoodCrc ==
    ASSUME NEW f, Sound(f), OpenRead(f).status = "OK"
    PROVE  OpenRead(f).data \in Contents
<1> DEFINE h    == LatestHeader(f)
           data == Stream(f, h, SizeAt(f, h))
<1>1. h # NoHeader /\ f[h + 1] = CrcOf(data) /\ OpenRead(f) = Found(data)
    BY DEF OpenRead, Failed, Found
<1>2. h \in Addresses /\ HeaderFits(f, h)
    BY <1>1, LatestFacts
<1> HIDE DEF h, data
<1>3. f[h][1] = "size"
    BY <1>2, NextFacts
<1>4. f[h + 1][1] = "crc" /\ f[h + 1][2] = data
    BY <1>1 DEF CrcOf
<1>5. data \in Contents
    BY <1>2, <1>3, <1>4 DEF Sound
<1> QED BY <1>1, <1>5 DEF Found

\* Blocks that agree before p have the same copies before p.
SameBefore(f, g, p) == \A a \in Addresses : a < p => g[a] = f[a]

\* A header before p is the same in both.
LEMMA SameHeader ==
    ASSUME NEW f, NEW g, NEW p \in Nat, SameBefore(f, g, p), NEW h \in Addresses, h < p
    PROVE  /\ g[h] = f[h] /\ SizeAt(g, h) = SizeAt(f, h)
           /\ NextHeader(g, h) = NextHeader(f, h)
           /\ HeaderFits(g, h) = HeaderFits(f, h)
BY DEF SameBefore, SizeAt, NextHeader, HeaderFits

\* The scan of a block that agrees with f before the append point p of f gets as far
\* as in f, and goes on from p when there is a header.
Follows(f, g, p, h) ==
    LET e == Scan(f)[h]
    IN  e # NoHeader /\ NextHeader(f, e) = p =>
           Scan(g)[h] = IF p < MaxSize /\ g[p] # FF THEN Scan(g)[p] ELSE e

\* By the least counterexample, taken from the end of the block.
LEMMA ScanFollows ==
    ASSUME NEW f, Sound(f), NEW g, Sound(g), NEW p \in Nat, SameBefore(f, g, p)
    PROVE  \A h \in Addresses : Follows(f, g, p, h)
<1> DEFINE Bad == {n \in Nat : n <= MaxSize /\ MaxSize - n \in Addresses
                                 /\ ~Follows(f, g, p, MaxSize - n)}
<1>0. MaxSize \in Nat \ {0} /\ \A h \in Addresses : h \in Nat /\ h < MaxSize
    BY AddressNat, FlashAssumption
<1> SUFFICES ASSUME NEW b \in Addresses, ~Follows(f, g, p, b) PROVE FALSE
    OBVIOUS
<1>1. MaxSize - b \in Bad
    <2>1. MaxSize - b \in Nat /\ MaxSize - (MaxSize - b) = b /\ MaxSize - b <= MaxSize
        BY <1>0
    <2> QED BY <2>1
<1>2. PICK m \in Bad : \A n \in Bad : m <= n
    BY <1>1, LeastExists
<1> DEFINE h == MaxSize - m
           e == Scan(f)[h]
<1>3. h \in Addresses /\ ~Follows(f, g, p, h) /\ m \in Nat /\ h \in Nat
    BY <1>0, <1>2
<1>4. ASSUME Continues(f, h) PROVE Follows(f, g, p, NextHeader(f, h))
    <2> DEFINE n == MaxSize - NextHeader(f, h)
    <2>1. NextHeader(f, h) \in Addresses /\ NextHeader(f, h) >= h + 2 /\ NextHeader(f, h) \in Nat
        BY <1>3, <1>4, NextFacts DEF Continues
    <2>2. n \in Nat /\ n <= MaxSize /\ n < m /\ MaxSize - n = NextHeader(f, h)
        BY <1>0, <1>3, <2>1
    <2>3. n \notin Bad
        <3> HIDE DEF n, Bad, h
        <3> QED BY <1>2, <1>3, <2>2
    <2> HIDE DEF h
    <2> QED BY <2>1, <2>2, <2>3
<1> HIDE DEF h
<1>5. e # NoHeader /\ NextHeader(f, e) = p
    BY <1>3 DEF Follows
<1>6. Scan(f)[h] = ScanStep(f, Scan(f), h) /\ Scan(g)[h] = ScanStep(g, Scan(g), h)
    BY <1>3, ScanEquation
<1>7. e \in Addresses /\ e >= h /\ HeaderFits(f, h) /\ e < p /\ e \in Nat
    <2>1. ScanEnds(f, h)
        BY <1>3, ScanEnd
    <2>2. e \in Addresses /\ e >= h /\ HeaderFits(f, h)
        BY <1>5, <2>1 DEF ScanEnds
    <2>3. NextHeader(f, e) >= e + 2 /\ e \in Nat
        BY <2>2, <1>0, NextFacts
    <2> HIDE DEF e
    <2> QED BY <1>5, <2>2, <2>3
<1>8. NextHeader(g, h) = NextHeader(f, h) /\ HeaderFits(g, h)
    <2>1. h < p
        BY <1>3, <1>7
    <2> QED BY <1>3, <1>7, <2>1, SameHeader
<1>9. CASE Continues(f, h)
    <2> DEFINE k == NextHeader(f, h)
    <2>1. k \in Addresses /\ k \in Nat /\ k < MaxSize /\ f[k] # FF
        BY <1>3, <1>9, NextFacts DEF Continues
    <2>2. Scan(f)[h] = Scan(f)[k]
        BY <1>6, <1>7, <1>9 DEF ScanStep
    <2>3. e >= k
        <3>1. ScanEnds(f, k)
            BY <2>1, ScanEnd
        <3> QED BY <1>5, <2>2, <3>1 DEF ScanEnds
    <2>4. g[k] = f[k]
        BY <1>7, <2>1, <2>3, SameHeader
    <2>5. Scan(g)[h] = Scan(g)[k]
        BY <1>6, <1>8, <2>1, <2>4 DEF ScanStep, Continues
    <2>6. Follows(f, g, p, k)
        BY <1>4, <1>9
    <2> HIDE DEF k
    <2>7. Follows(f, g, p, h)
        BY <1>5, <2>2, <2>5, <2>6 DEF Follows
    <2> QED BY <1>3, <2>7
<1>10. CASE ~Continues(f, h)
    <2>1. e = h
        BY <1>6, <1>7, <1>10 DEF ScanStep
    <2>2. NextHeader(g, h) = p
        BY <1>5, <1>8, <2>1
    <2>3. Scan(g)[h] = IF p < MaxSize /\ g[p] # FF THEN Scan(g)[p] ELSE h
        BY <1>6, <1>8, <2>2 DEF ScanStep, Continues
    <2>4. Follows(f, g, p, h)
        BY <2>1, <2>3 DEF Follows
    <2> QED BY <1>3, <2>4
<1> QED BY <1>9, <1>10

\* The copy at the end of the scan is followed by the append point h.
Chain(f, h) == LatestHeader(f) # NoHeader /\ AppendPoint(f) = h /\ h \in Addresses

\* The words before the append point are those of the copies, and the one there
\* is erased.
LEMMA ChainFacts ==
    ASSUME NEW f, Sound(f), NEW h, Chain(f, h)
    PROVE  /\ h \in Nat /\ h >= 2 /\ h < MaxSize /\ f[h] = FF
           /\ LatestHeader(f) \in Addresses /\ LatestHeader(f) \in Nat
           /\ LatestHeader(f) + HeaderWords + SizeAt(f, LatestHeader(f)) = h
           /\ SizeAt(f, LatestHeader(f)) \in Nat
           /\ f[0] # FF
<1> DEFINE e == LatestHeader(f)
<1>1. e \in Addresses /\ e \in Nat /\ ~Continues(f, e) /\ f[0] # FF
    BY LatestFacts DEF Chain
<1>2. NextHeader(f, e) = h /\ h \in Addresses
    BY DEF Chain, AppendPoint
<1> HIDE DEF e
<1>3. NextHeader(f, e) >= e + 2 /\ SizeAt(f, e) \in Nat
    BY <1>1, NextFacts
<1>4. h \in Nat /\ h < MaxSize
    BY <1>2, AddressNat
<1>5. h >= 2 /\ f[h] = FF /\ e + HeaderWords + SizeAt(f, e) = h
    BY <1>1, <1>2, <1>3, <1>4 DEF Continues, NextHeader
<1> QED BY <1>1, <1>3, <1>4, <1>5 DEF e

\* A stream before p reads the same in blocks that agree before p.
LEMMA SameStream ==
    ASSUME NEW f, NEW g, NEW p \in Nat, SameBefore(f, g, p), NEW h \in Nat, NEW n \in Nat,
           h + HeaderWords + n <= p
    PROVE  Stream(g, h, n) = Stream(f, h, n)
<1>1. \A i \in 1 .. n : WordAt(g, h + HeaderWords + i - 1) = WordAt(f, h + HeaderWords + i - 1)
    BY DEF WordAt, SameBefore, HeaderWords
<1> QED BY <1>1 DEF Stream

\* A change after the append point, which leaves the word there erased, is not
\* seen by a reader.
LEMMA ChainStable ==
    ASSUME NEW f, Sound(f), NEW g, Sound(g), NEW h, Chain(f, h), SameBefore(f, g, h), g[h] = FF
    PROVE  Chain(g, h) /\ OpenRead(g) = OpenRead(f)
<1> DEFINE e == LatestHeader(f)
<1>1. /\ h \in Nat /\ h >= 2 /\ e \in Addresses /\ e \in Nat /\ f[0] # FF
      /\ e + HeaderWords + SizeAt(f, e) = h /\ SizeAt(f, e) \in Nat
    BY ChainFacts
<1>2. 0 \in Addresses /\ g[0] # FF /\ ~IsSectorErased(g, 0) /\ ~IsSectorErased(f, 0)
    <2>1. 0 \in Addresses
        BY FlashAssumption DEF Addresses
    <2>2. g[0] = f[0]
        BY <1>1, <2>1 DEF SameBefore
    <2> QED BY <1>1, <2>1, <2>2, FlashAssumption DEF IsSectorErased, IsErased
<1>3. e # NoHeader /\ e = Scan(f)[0] /\ NextHeader(f, e) = h
    BY <1>2, LatestIsScan DEF Chain, AppendPoint
<1>4. Scan(g)[0] = e
    <2>1. Follows(f, g, h, 0)
        BY <1>1, <1>2, ScanFollows
    <2> QED BY <1>3, <2>1 DEF Follows
<1>5. LatestHeader(g) = e
    BY <1>2, <1>4, LatestIsScan
<1>6. e < h /\ e + 1 < h
    BY <1>1 DEF HeaderWords
<1>7. /\ NextHeader(g, e) = h /\ SizeAt(g, e) = SizeAt(f, e)
    BY <1>1, <1>3, <1>6, SameHeader
<1>8. g[e + 1] = f[e + 1]
    <2>1. h < MaxSize /\ h \in Nat
        BY ChainFacts
    <2>2. e + 1 \in Addresses
        BY <1>1, <1>6, <2>1, FlashAssumption DEF Addresses
    <2> QED BY <1>6, <2>2 DEF SameBefore
<1>9. Stream(g, e, SizeAt(f, e)) = Stream(f, e, SizeAt(f, e))
    BY <1>1, SameStream
<1> HIDE DEF e
<1>10. Chain(g, h)
    BY <1>3, <1>5, <1>7 DEF Chain, AppendPoint
<1>11. OpenRead(g) = OpenRead(f)
    BY <1>2, <1>5, <1>7, <1>8, <1>9 DEF OpenRead, e
<1> QED BY <1>10, <1>11

\* What was saved has a length, and is the sequence of its words.
LEMMA ContentFacts ==
    ASSUME NEW d \in Contents
    PROVE  /\ Len(d) \in Nat \ {0} /\ Len(d) + HeaderWords <= MaxSize
           /\ d = [i \in 1 .. Len(d) |-> d[i]]
           /\ \A i \in 1 .. Len(d) : d[i] \in DataWord
           /\ d \in Seq(DataWord)
<1>1. PICK v \in Versions, n \in Sizes : d = [i \in 1 .. n |-> <<"data", v, i>>]
    BY DEF Contents
<1>2. n \in Nat \ {0} /\ n + HeaderWords <= MaxSize
    BY CallerAssumption
<1>3. Len(d) = n
    BY <1>1, <1>2
<1>4. d \in Seq(DataWord)
    BY ContentsSeq
<1> QED BY <1>1, <1>2, <1>3, <1>4

\* When a header with the size and the CRC of the data that follows it is programmed
\* at the append point, or at the start of the block, a reader gets that data.
LEMMA CommitRead ==
    ASSUME NEW f, Sound(f), NEW g, Sound(g), NEW h, h = 0 \/ Chain(f, h), SameBefore(f, g, h),
           NEW d \in Contents, g[h] = SizeWord(Len(d)), g[h + 1] = CrcOf(d),
           h + HeaderWords + Len(d) <= MaxSize,
           \A i \in 1 .. Len(d) : g[h + HeaderWords + i - 1] = d[i],
           h + HeaderWords + Len(d) < MaxSize => g[h + HeaderWords + Len(d)] = FF
    PROVE  OpenRead(g) = Found(d)
<1>1. /\ Len(d) \in Nat /\ d = [i \in 1 .. Len(d) |-> d[i]] /\ MaxSize \in Nat
    BY ContentFacts, FlashAssumption
<1>2. h \in Addresses /\ h \in Nat
    BY ChainFacts, FlashAssumption DEF Addresses, Chain
<1>3. SizeAt(g, h) = Len(d) /\ NextHeader(g, h) = h + HeaderWords + Len(d) /\ HeaderFits(g, h)
    BY DEF SizeAt, SizeWord, NextHeader, HeaderFits
<1>4. Scan(g)[h] = h
    <2>1. Scan(g)[h] = ScanStep(g, Scan(g), h)
        BY <1>2, ScanEquation
    <2>2. ~Continues(g, h)
        BY <1>3 DEF Continues
    <2> QED BY <1>3, <2>1, <2>2 DEF ScanStep
<1>5. g[h] # FF
    BY DEF SizeWord, FF
<1>6. LatestHeader(g) = h /\ ~IsSectorErased(g, 0)
    <2>1. CASE h = 0
        <3>1. ~IsSectorErased(g, 0)
            BY <1>2, <1>5, <2>1, FlashAssumption DEF IsSectorErased, IsErased
        <3> QED BY <1>4, <2>1, <3>1, LatestIsScan
    <2>2. CASE Chain(f, h)
        <3> DEFINE e == LatestHeader(f)
        <3>1. 0 \in Addresses /\ h >= 2 /\ h < MaxSize /\ f[0] # FF
            BY <2>2, ChainFacts, FlashAssumption DEF Addresses
        <3>2. g[0] # FF
            BY <1>2, <3>1 DEF SameBefore
        <3>3. ~IsSectorErased(g, 0) /\ ~IsSectorErased(f, 0)
            BY <3>1, <3>2, FlashAssumption DEF IsSectorErased, IsErased
        <3>4. e # NoHeader /\ e = Scan(f)[0] /\ NextHeader(f, e) = h
            BY <2>2, <3>3, LatestIsScan DEF Chain, AppendPoint
        <3>5. Follows(f, g, h, 0)
            BY <1>2, <3>1, ScanFollows
        <3>6. Scan(g)[0] = Scan(g)[h]
            BY <1>5, <3>1, <3>4, <3>5 DEF Follows
        <3> QED BY <1>4, <3>3, <3>6, LatestIsScan
    <2> QED BY <2>1, <2>2
<1>7. Stream(g, h, Len(d)) = d
    <2>1. ASSUME NEW i \in 1 .. Len(d)
          PROVE  WordAt(g, h + HeaderWords + i - 1) = d[i]
        <3>1. h + HeaderWords + i - 1 \in Addresses
            BY <1>1, <1>2 DEF Addresses, HeaderWords
        <3> QED BY <3>1 DEF WordAt
    <2>2. Stream(g, h, Len(d)) = [i \in 1 .. Len(d) |-> d[i]]
        BY <2>1 DEF Stream
    <2> QED BY <1>1, <2>2
<1>8. h # NoHeader
    BY <1>2 DEF NoHeader
<1> QED BY <1>3, <1>6, <1>7, <1>8 DEF OpenRead

\* A natural number is a multiple of D and its remainder.
LEMMA Division ==
    ASSUME NEW a \in Nat, NEW D \in Nat \ {0}
    PROVE  /\ a % D \in 0 .. D - 1
           /\ \E q \in Nat : a = D * q + (a % D)
<1>1. a % D \in 0 .. D - 1
    OBVIOUS
<1>2. a \div D \in Int
    OBVIOUS
<1>3. a = D * (a \div D) + (a % D)
    OBVIOUS
<1> DEFINE q == a \div D
<1>4. q \in Int /\ a = D * q + (a % D)
    BY <1>2, <1>3
<1> HIDE DEF q
<1>5. q >= 0
    <2> SUFFICES ASSUME ~ q >= 0 PROVE FALSE
        OBVIOUS
    <2>1. D * q <= 0 - D
        <3>1. D * q = D * (q + 1) - D /\ q + 1 <= 0
            BY <1>4
        <3>2. D * (q + 1) <= 0
            BY <1>4, <3>1
        <3> QED BY <1>4, <3>1, <3>2
    <2> QED BY <1>1, <1>4, <2>1
<1>6. q \in Nat
    BY <1>4, <1>5
<1>7. \E k \in Nat : a = D * k + (a % D)
    BY <1>4, <1>6
<1> QED BY <1>1, <1>7
\* A multiple of D that is not 0 is at least D.
LEMMA Multiple ==
    ASSUME NEW D \in Nat \ {0}, NEW k \in Nat \ {0}
    PROVE  D * k \in Nat /\ D * k >= D
<1>1. D * k = D + D * (k - 1) /\ D * (k - 1) >= 0
    OBVIOUS
<1> QED BY <1>1
\* The remainder of a multiple of D and something less than D.
LEMMA Remainder ==
    ASSUME NEW D \in Nat \ {0}, NEW q \in Nat, NEW r \in 0 .. D - 1
    PROVE  (D * q + r) % D = r
<1> DEFINE a == D * q + r
<1>1. D * q \in Nat /\ a \in Nat
    OBVIOUS
<1>2. PICK p \in Nat : a = D * p + (a % D)
    <2> HIDE DEF a
    <2> QED BY <1>1, Division
<1>3. a % D \in 0 .. D - 1
    <2> HIDE DEF a
    <2> QED BY <1>1, Division
<1>4. ~ p < q
    <2> SUFFICES ASSUME p < q PROVE FALSE
        OBVIOUS
    <2>1. D * (q - p) >= D
        <3>1. q - p \in Nat \ {0}
            OBVIOUS
        <3> QED BY <3>1, Multiple
    <2>2. D * (q - p) = D * q - D * p
        OBVIOUS
    <2>3. D * q - D * p = (a % D) - r
        BY <1>2
    <2> QED BY <1>3, <2>1, <2>2, <2>3
<1>5. ~ q < p
    <2> SUFFICES ASSUME q < p PROVE FALSE
        OBVIOUS
    <2>1. D * (p - q) >= D
        <3>1. p - q \in Nat \ {0}
            OBVIOUS
        <3> QED BY <3>1, Multiple
    <2>2. D * (p - q) = D * p - D * q
        OBVIOUS
    <2>3. D * p - D * q = r - (a % D)
        <3>1. D * p \in Int /\ D * q \in Int
            OBVIOUS
        <3> QED BY <1>2, <1>3, <3>1
    <2> QED BY <1>3, <2>1, <2>2, <2>3
<1>6. p = q
    BY <1>4, <1>5
<1> QED BY <1>2, <1>6

\* A page that starts in a sector lies in it, and the next page starts in the same
\* sector unless it starts one.
LEMMA PageInSector ==
    ASSUME NEW p \in Nat, p % PageWords = 0
    PROVE  /\ p + PageWords <= SectorOf(p) + SectorWords
           /\ (p + PageWords) % PageWords = 0
           /\ (p + PageWords) % SectorWords # 0 => SectorOf(p + PageWords) = SectorOf(p)
<1>0. /\ PageWords \in Nat \ {0} /\ SectorPages \in Nat \ {0} /\ SectorWords \in Nat \ {0}
      /\ SectorWords = PageWords * SectorPages
    BY FlashAssumption DEF SectorWords
<1>1. PICK i \in Nat : p = PageWords * i
    <2>1. PICK i \in Nat : p = PageWords * i + (p % PageWords)
        BY <1>0, Division
    <2> QED BY <1>0, <2>1
<1>2. PICK k \in Nat : p = SectorWords * k + (p % SectorWords)
    BY <1>0, Division
<1> DEFINE r == p % SectorWords
           s == SectorWords * k
<1>3. r \in 0 .. SectorWords - 1 /\ s \in Nat /\ p = s + r /\ SectorOf(p) = s
    <2>1. r \in 0 .. SectorWords - 1
        BY <1>0, Division
    <2>2. s \in Nat
        BY <1>0
    <2>3. p = s + r
        BY <1>2
    <2>4. SectorOf(p) = p - r
        BY DEF SectorOf
    <2> HIDE DEF r, s
    <2> QED BY <2>1, <2>2, <2>3, <2>4
<1> DEFINE j == i - SectorPages * k
<1>4. j \in Int /\ r = PageWords * j
    <2>1. s = PageWords * (SectorPages * k)
        BY <1>0
    <2>2. PageWords * (i - SectorPages * k) = PageWords * i - PageWords * (SectorPages * k)
        BY <1>0
    <2> HIDE DEF r, s
    <2> QED BY <1>0, <1>1, <1>3, <2>1, <2>2
<1> HIDE DEF j, r, s
<1>5. j < SectorPages
    <2> SUFFICES ASSUME j >= SectorPages PROVE FALSE
        BY <1>0, <1>4
    <2>1. PageWords * j >= PageWords * SectorPages
        <3>1. PageWords * j = PageWords * SectorPages + PageWords * (j - SectorPages)
            BY <1>0, <1>4
        <3>2. PageWords * (j - SectorPages) >= 0
            BY <1>0, <1>4
        <3>3. PageWords * j \in Int /\ PageWords * SectorPages \in Int /\ PageWords * (j - SectorPages) \in Int
            BY <1>0, <1>4
        <3> QED BY <3>1, <3>2, <3>3
    <2> QED BY <1>0, <1>3, <1>4, <2>1
<1>6. r + PageWords <= SectorWords
    <2>1. PageWords * (SectorPages - j) >= PageWords
        <3>1. SectorPages - j \in Nat \ {0}
            BY <1>0, <1>4, <1>5
        <3> QED BY <1>0, <3>1, Multiple
    <2>2. PageWords * (SectorPages - j) = PageWords * SectorPages - PageWords * j
        BY <1>0, <1>4
    <2> QED BY <1>0, <1>3, <1>4, <2>1, <2>2
<1>7. p + PageWords <= SectorOf(p) + SectorWords
    BY <1>0, <1>3, <1>6
<1>8. (p + PageWords) % PageWords = 0
    <2>1. p + PageWords = PageWords * (i + 1) + 0
        BY <1>0, <1>1
    <2>2. i + 1 \in Nat /\ 0 \in 0 .. PageWords - 1
        BY <1>0
    <2>3. (PageWords * (i + 1) + 0) % PageWords = 0
        BY <1>0, <2>2, Remainder
    <2> QED BY <2>1, <2>3
<1>9. ASSUME (p + PageWords) % SectorWords # 0
      PROVE  SectorOf(p + PageWords) = SectorOf(p)
    <2>1. CASE r + PageWords = SectorWords
        <3>1. p + PageWords = SectorWords * (k + 1) + 0
            BY <1>0, <1>3, <2>1 DEF s
        <3>2. k + 1 \in Nat /\ 0 \in 0 .. SectorWords - 1
            BY <1>0
        <3>3. (SectorWords * (k + 1) + 0) % SectorWords = 0
            BY <1>0, <3>2, Remainder
        <3>4. (p + PageWords) % SectorWords = 0
            BY <3>1, <3>3
        <3> QED BY <1>9, <3>4
    <2>2. CASE r + PageWords # SectorWords
        <3>1. r + PageWords \in 0 .. SectorWords - 1
            BY <1>0, <1>3, <1>6, <2>2
        <3>2. (SectorWords * k + (r + PageWords)) % SectorWords = r + PageWords
            BY <1>0, <3>1, Remainder
        <3>3. p + PageWords = SectorWords * k + (r + PageWords)
            BY <1>0, <1>3 DEF s
        <3>4. (p + PageWords) % SectorWords = r + PageWords
            BY <3>2, <3>3
        <3> QED BY <1>0, <1>3, <3>4 DEF SectorOf
    <2> QED BY <2>1, <2>2
<1> QED BY <1>7, <1>8, <1>9

\* A sector starts at a multiple of its size, and holds the words less than a sector after.
LEMMA SectorStart ==
    ASSUME NEW s \in Nat, s % SectorWords = 0, NEW a \in Nat
    PROVE  /\ SectorOf(s) = s
           /\ SectorOf(a) = s <=> s <= a /\ a < s + SectorWords
<1>0. SectorWords \in Nat \ {0}
    BY FlashAssumption
<1>1. SectorOf(s) = s
    BY <1>0 DEF SectorOf
<1>2. SectorOf(a) = s => s <= a /\ a < s + SectorWords
    BY <1>0, SectorBounds
<1>3. ASSUME s <= a, a < s + SectorWords PROVE SectorOf(a) = s
    <2>1. PICK k \in Nat : s = SectorWords * k + (s % SectorWords)
        BY <1>0, Division
    <2>2. a - s \in 0 .. SectorWords - 1
        BY <1>0, <1>3
    <2>3. (SectorWords * k + (a - s)) % SectorWords = a - s
        BY <1>0, <2>2, Remainder
    <2>4. SectorWords * k = s
        BY <1>0, <2>1
    <2>5. a % SectorWords = a - s
        BY <1>0, <2>3, <2>4
    <2> QED BY <1>0, <2>5 DEF SectorOf
<1> QED BY <1>1, <1>2, <1>3

\* The sector of an address starts a sector.
LEMMA SectorAligned ==
    ASSUME NEW a \in Nat
    PROVE  SectorOf(a) \in Nat /\ SectorOf(a) % SectorWords = 0
<1>0. SectorWords \in Nat \ {0}
    BY FlashAssumption
<1>1. PICK k \in Nat : a = SectorWords * k + (a % SectorWords)
    BY <1>0, Division
<1>2. SectorOf(a) = SectorWords * k + 0 /\ SectorWords * k \in Nat
    <2>1. a % SectorWords \in 0 .. SectorWords - 1 /\ SectorWords * k \in Nat
        BY <1>0, Division
    <2> QED BY <1>1, <2>1 DEF SectorOf
<1>3. (SectorWords * k + 0) % SectorWords = 0
    <2>1. 0 \in 0 .. SectorWords - 1
        BY <1>0
    <2> QED BY <1>0, <2>1, Remainder
<1> QED BY <1>2, <1>3

\* The page of an address starts a page, in the sector of the address.
LEMMA PageAligned ==
    ASSUME NEW a \in Nat
    PROVE  /\ PageOf(a) \in Nat /\ PageOf(a) % PageWords = 0
           /\ SectorOf(a) <= PageOf(a) /\ SectorOf(PageOf(a)) = SectorOf(a)
<1>0. /\ PageWords \in Nat \ {0} /\ SectorPages \in Nat \ {0} /\ SectorWords \in Nat \ {0}
      /\ SectorWords = PageWords * SectorPages
    BY FlashAssumption DEF SectorWords
<1>1. PICK i \in Nat : a = PageWords * i + (a % PageWords)
    BY <1>0, Division
<1>2. a % PageWords \in 0 .. PageWords - 1 /\ PageWords * i \in Nat
    BY <1>0, Division
<1>3. PageOf(a) = PageWords * i
    BY <1>1, <1>2 DEF PageOf
<1>4. PageOf(a) \in Nat /\ PageOf(a) % PageWords = 0
    <2>1. PageOf(a) = PageWords * i + 0 /\ 0 \in 0 .. PageWords - 1
        BY <1>0, <1>2, <1>3
    <2> QED BY <1>0, <1>2, <2>1, Remainder
<1>5. SectorOf(a) \in Nat /\ SectorOf(a) % SectorWords = 0 /\ SectorOf(a) <= a
    BY SectorAligned, SectorBounds
<1>6. SectorOf(a) <= PageOf(a)
    <2>0. PICK s \in Nat : s = SectorOf(a)
        BY <1>5
    <2>a. PICK k \in Nat : s = SectorWords * k + (s % SectorWords)
        BY <1>0, Division
    <2>1. SectorOf(a) = SectorWords * k + (SectorOf(a) % SectorWords)
        BY <2>0, <2>a
    <2> DEFINE m == SectorPages * k
    <2>2. m \in Nat /\ SectorOf(a) = PageWords * m
        <3>1. SectorOf(a) = SectorWords * k
            BY <1>0, <1>5, <2>1
        <3>2. SectorWords * k = PageWords * (SectorPages * k)
            BY <1>0
        <3> QED BY <1>0, <3>1, <3>2
    <2> HIDE DEF m
    <2> SUFFICES ASSUME i < m PROVE FALSE
        <3>1. i >= m => PageWords * i >= PageWords * m
            <4>1. PageWords * i = PageWords * m + PageWords * (i - m)
                BY <1>0, <2>2
            <4>2. i >= m => PageWords * (i - m) >= 0
                BY <1>0, <2>2
            <4>3. PageWords * m \in Int /\ PageWords * (i - m) \in Int
                BY <1>0, <2>2
            <4> QED BY <4>1, <4>2, <4>3
        <3> QED BY <1>3, <2>2, <3>1
    <2>3. PageWords * (m - i) >= PageWords
        <3>1. m - i \in Nat \ {0}
            BY <2>2
        <3> QED BY <1>0, <3>1, Multiple
    <2>4. PageWords * (m - i) = PageWords * m - PageWords * i
        BY <1>0, <2>2
    <2>5. PageWords * m >= PageWords * i + PageWords
        <3>1. PageWords * m \in Int /\ PageWords * i \in Int
            BY <1>0, <2>2
        <3> QED BY <1>0, <2>3, <2>4, <3>1
    <2> QED BY <1>0, <1>1, <1>2, <1>5, <2>2, <2>5
<1>7. PageOf(a) <= a /\ a < SectorOf(a) + SectorWords
    BY <1>0, PageBounds, SectorBounds
<1>8. SectorOf(PageOf(a)) = SectorOf(a)
    <2>1. SectorOf(a) <= PageOf(a) /\ PageOf(a) < SectorOf(a) + SectorWords
        BY <1>0, <1>4, <1>5, <1>6, <1>7
    <2> QED BY <1>4, <1>5, <2>1, SectorStart
<1> QED BY <1>4, <1>6, <1>8

-----------------------------------------------------------------------------
\* A page that starts in the block lies in it.
LEMMA PageInBlock ==
    ASSUME NEW p \in Nat, p % PageWords = 0, p < MaxSize
    PROVE  p + PageWords <= MaxSize
<1>0. PageWords \in Nat \ {0} /\ SectorPages \in Nat \ {0} /\ BlockSectors \in Nat \ {0}
    BY FlashAssumption
<1>1. PICK i \in Nat : p = PageWords * i
    <2>1. PICK i \in Nat : p = PageWords * i + (p % PageWords)
        BY <1>0, Division
    <2> QED BY <1>0, <2>1
<1> DEFINE m == SectorPages * BlockSectors
<1>2. m \in Nat /\ MaxSize = PageWords * m
    BY <1>0 DEF MaxSize, SectorWords
<1> HIDE DEF m
<1>3. i < m
    <2> SUFFICES ASSUME ~ i < m PROVE FALSE
        OBVIOUS
    <2>1. PageWords * i = PageWords * m + PageWords * (i - m)
        BY <1>0, <1>2
    <2>2. PageWords * (i - m) >= 0 /\ PageWords * m \in Int /\ PageWords * (i - m) \in Int
        BY <1>0, <1>2
    <2> QED BY <1>1, <1>2, <2>1, <2>2
<1>4. PageWords * (m - i) >= PageWords
    <2>1. m - i \in Nat \ {0}
        BY <1>2, <1>3
    <2> QED BY <1>0, <2>1, Multiple
<1>5. PageWords * (m - i) = PageWords * m - PageWords * i
    BY <1>0, <1>2
<1> QED BY <1>0, <1>1, <1>2, <1>4, <1>5

\* The cursor stands at the start of a page.
AlignedOK == pc \in Writing => wh.writeOffset % PageWords = 0

\* It moves by whole pages.
LEMMA AlignedStep == TypeOK /\ AlignedOK /\ [Next]_vars => AlignedOK'
<1> SUFFICES ASSUME TypeOK, AlignedOK, [Next]_vars, pc' \in Writing
             PROVE  wh'.writeOffset % PageWords = 0
    BY DEF AlignedOK
<1>1. ASSUME NEW h \in Nat, wh' = HandleAt(h) PROVE wh'.writeOffset % PageWords = 0
    BY <1>1, HandleFacts, PageAligned
<1>2. ASSUME wh' = NoHandle PROVE wh'.writeOffset % PageWords = 0
    BY <1>2, FlashAssumption DEF NoHandle
<1>3. ASSUME pc \in Writing, wh'.writeOffset = wh.writeOffset PROVE wh'.writeOffset % PageWords = 0
    BY <1>3 DEF AlignedOK
<1>4. CASE Save
    <2>1. PICK data \in Contents : SaveAppend(data) \/ SaveDirty(data) \/ SaveFromStart(data)
        BY <1>4 DEF Save
    <2>2. CASE SaveAppend(data)
        BY <1>1, <2>2, AddressNat DEF SaveAppend
    <2>3. CASE SaveDirty(data)
        BY <2>3 DEF SaveDirty, Writing
    <2>4. CASE SaveFromStart(data)
        BY <1>2, <2>4 DEF SaveFromStart
    <2> QED BY <2>1, <2>2, <2>3, <2>4
<1>5. CASE RestoreErase \/ RestoreEraseTimeout
    BY <1>2, <1>5 DEF RestoreErase, RestoreEraseTimeout, Writing
<1>6. CASE RestoreProgram
    <2>1. wh.headerOffset \in Nat /\ wh' = HandleAt(wh.headerOffset)
        BY <1>6 DEF RestoreProgram, TypeOK, HandleType
    <2> QED BY <1>1, <2>1
<1>7. CASE WriteFile
    <2>1. pc \in Writing /\ wh'.writeOffset = wh.writeOffset
        BY <1>7, CopyFacts DEF WriteFile, Writing
    <2> QED BY <1>3, <2>1
<1>8. CASE FlushErase \/ CloseErase \/ CloseEraseTimeout
    BY <1>3, <1>8 DEF FlushErase, CloseErase, CloseEraseTimeout, Flushing, Writing
<1>9. CASE FlushProgram
    <2>1. wh.writeOffset \in Nat /\ wh.writeOffset % PageWords = 0
        BY <1>9 DEF FlushProgram, Flushing, Writing, AlignedOK, TypeOK, HandleType
    <2>2. wh'.writeOffset = wh.writeOffset + PageWords
        BY <1>9 DEF FlushProgram
    <2> QED BY <2>1, <2>2, PageInSector
<1>10. CASE FlushTimeout \/ FlushOverLimit
    <2>1. pc \in Writing /\ wh' = wh
        BY <1>10 DEF FlushTimeout, FlushOverLimit, FlushFails, Flushing, Writing
    <2> QED BY <1>3, <2>1
<1>11. CASE CloseHeader \/ CloseHeaderTimeout \/ Remove \/ Crash
    BY <1>11 DEF CloseHeader, CloseHeaderTimeout, EndSave, Remove, Crash, CrashBetween,
                 CrashInErase, CrashInProgram, Restart, Writing
<1>12. CASE UNCHANGED vars
    BY <1>12 DEF vars, AlignedOK
<1> QED BY <1>4, <1>5, <1>6, <1>7, <1>8, <1>9, <1>10, <1>11, <1>12 DEF Next, Step

\* A page that does not fit in the block starts behind it.
LEMMA OverLimit ==
    ASSUME TypeOK, AlignedOK, Flushing, ~FitsBlock
    PROVE  wh.writeOffset >= MaxSize
<1>1. /\ wh.writeOffset \in Nat /\ Len(wh.buf) \in Nat /\ Len(wh.buf) <= PageWords
      /\ PageWords \in Nat /\ MaxSize \in Nat
    BY FlashAssumption DEF TypeOK, HandleType
<1>2. wh.writeOffset % PageWords = 0
    BY DEF AlignedOK, Flushing, Writing
<1>3. ~(wh.writeOffset + PageWords <= MaxSize)
    BY <1>1 DEF FitsBlock
<1> QED BY <1>1, <1>2, <1>3, PageInBlock

\* When no flash operation times out, CloseWrite's erase of the next sector comes
\* after a flush that moved past the header.
LEMMA CloseStep ==
    ASSUME MaxTimeouts = 0
    PROVE  TypeOK /\ CursorOK /\ AlignedOK /\ CloseOK /\ [Next]_vars => CloseOK'
<1> SUFFICES ASSUME TypeOK, CursorOK, AlignedOK, CloseOK, [Next]_vars, pc' = "closeErase"
             PROVE  wh'.headerOffset <= wh'.writeOffset
    BY DEF CloseOK
<1>0. /\ wh.writeOffset \in Nat /\ wh.headerOffset \in Nat
      /\ Len(wh.buf) \in Nat /\ Len(wh.buf) <= PageWords /\ PageWords \in Nat
    BY FlashAssumption DEF TypeOK, HandleType
<1>1. ~TimesOut
    BY DEF TimesOut, TypeOK, BoundsOK
<1>2. CASE FlushProgram
    <2>1. wh.headerOffset <= wh.writeOffset + Len(wh.buf)
        BY <1>2 DEF FlushProgram, Flushing, CursorOK, Writing
    <2>2. wh'.headerOffset = wh.headerOffset /\ wh'.writeOffset = wh.writeOffset + PageWords
        BY <1>2 DEF FlushProgram
    <2> QED BY <1>0, <2>1, <2>2
<1>3. CASE FlushOverLimit
    <2>1. wh.writeOffset >= MaxSize
        BY <1>3, OverLimit DEF FlushOverLimit
    <2>2. wh.writeOffset < MaxSize
        BY <1>3 DEF FlushOverLimit, FlushFails, AfterFlush
    <2> QED BY <1>0, <2>1, <2>2, FlashAssumption
<1>4. CASE UNCHANGED vars
    BY <1>4 DEF vars, CloseOK
<1>5. CASE Save \/ Remove \/ Crash
    BY <1>5 DEF Save, SaveAppend, SaveDirty, SaveFromStart, StartSave, Remove, Crash,
                CrashBetween, CrashInErase, CrashInProgram, Restart
<1>6. CASE RestoreErase \/ RestoreEraseTimeout \/ RestoreProgram \/ WriteFile
    BY <1>6 DEF RestoreErase, RestoreEraseTimeout, RestoreProgram, WriteFile
<1>7. CASE FlushErase \/ FlushTimeout
    BY <1>1, <1>7 DEF FlushErase, FlushTimeout, Flushing
<1>8. CASE CloseErase \/ CloseEraseTimeout \/ CloseHeader \/ CloseHeaderTimeout
    BY <1>8 DEF CloseErase, CloseEraseTimeout, CloseHeader, CloseHeaderTimeout, EndSave
<1> QED BY <1>2, <1>3, <1>4, <1>5, <1>6, <1>7, <1>8 DEF Next, Step

\* While a copy is being appended, no step changes a word before its header, a
\* crash in the middle of an erase or a program operation included: the copies a
\* reader goes through stay as they are until the new header is programmed
\* (OpenWrite's append mode, Flush, CloseWrite).  It takes a second core that always
\* halts in time: a flush that times out leaves the cursor before the header, and
\* CloseWrite may then erase the sector of the previous copy.
THEOREM AppendKeepsOldCopies ==
    ASSUME MaxTimeouts = 0
    PROVE  Spec => AppendSparesExisting
<1>1. Init => CursorOK /\ AlignedOK /\ CloseOK
    BY DEF Init, CursorOK, AlignedOK, CloseOK, Writing
<1>2. TypeOK /\ CursorOK /\ AlignedOK /\ CloseOK /\ [Next]_vars
        => CursorOK' /\ AlignedOK' /\ CloseOK'
    BY CursorStep, AlignedStep, CloseStep
<1>3. TypeOK /\ CursorOK /\ CloseOK /\ [Next]_vars => [SpareStep]_vars
    BY SpareNext
<1> QED BY <1>1, <1>2, <1>3, TypeInvariant, PTL DEF Spec, AppendSparesExisting, SpareStep

-----------------------------------------------------------------------------
\* Word i of a copy of d: its header, written as erased words, then the data.
CopyWord(d, i) == IF i <= HeaderWords THEN FF ELSE d[i - HeaderWords]

\* where the copy being saved ends
EndOf == wh.headerOffset + HeaderWords + Len(job.data)

Filling   == {"write", "writeFlush", "closeFlush"}
Restoring == {"restoreErase", "restoreProgram"}
Closing   == {"closeErase", "closeHeader"}

\* there is room for the header and at least one word
JobOK == pc # "idle" => job.data \in Contents /\ wh.headerOffset + HeaderWords < MaxSize

\* what the caller still has to write, and what the buffer holds, continue the copy
RemOK(rem, from) == \A i \in 1 .. Len(rem) : rem[i] = CopyWord(job.data, from + i)
BufOK == \A i \in 1 .. Len(wh.buf) : wh.writeOffset + i > wh.headerOffset =>
            wh.buf[i] = CopyWord(job.data, wh.writeOffset + i - wh.headerOffset)

\* nothing has failed so far
Whole ==
    /\ pc \in Filling =>
          /\ wh.writeOffset + Len(wh.buf) + Len(job.rem) = EndOf
          /\ RemOK(job.rem, wh.writeOffset + Len(wh.buf) - wh.headerOffset)
    /\ pc \in Restoring => Len(job.rem) = HeaderWords + Len(job.data) /\ RemOK(job.rem, 0)
    /\ pc \in Closing => /\ streamSize = Len(job.data)
                         /\ EndOf <= wh.writeOffset /\ EndOf <= MaxSize

\* a flush was refused at the end of the block: the stream is too long for it
Refused ==
    /\ pc \in {"closeFlush", "closeHeader"}
    /\ EndOf > MaxSize /\ wh.writeOffset >= MaxSize
    /\ wh.headerOffset + HeaderWords + streamSize > MaxSize
    /\ pc = "closeFlush" => ~FitsBlock

CopiedOK ==
    /\ pc \in Filling => BufOK
    /\ pc = "closeFlush" => Len(job.rem) = 0 /\ streamSize = StreamSize(wh)
    /\ pc # "idle" => IF job.ok = TRUE THEN Whole ELSE Refused

CopyInv == TypeOK /\ CursorOK /\ AlignedOK /\ CloseOK /\ JobOK /\ CopiedOK

\* What the type invariant says of the handle and the job.
LEMMA HandleNats ==
    ASSUME TypeOK
    PROVE  /\ wh.writeOffset \in Nat /\ wh.headerOffset \in Nat
           /\ wh.buf \in Seq(BufferWord) /\ Len(wh.buf) \in Nat /\ Len(wh.buf) <= PageWords
           /\ job.rem \in Seq(BufferWord) /\ Len(job.rem) \in Nat
           /\ PageWords \in Nat \ {0} /\ MaxSize \in Nat \ {0} /\ SectorWords \in Nat \ {0}
BY FlashAssumption DEF TypeOK, HandleType, JobType

\* Nothing times out.
LEMMA NothingFails ==
    ASSUME MaxTimeouts = 0, TypeOK
    PROVE  ~TimesOut /\ ~FlushTimeout
<1>1. ~TimesOut
    BY DEF TimesOut, TypeOK, BoundsOK
<1> QED BY <1>1 DEF FlushTimeout

\* The copy being saved starts in the block.
LEMMA CopyInBlock ==
    ASSUME CopyInv, pc # "idle"
    PROVE  /\ wh.headerOffset \in Addresses /\ wh.headerOffset \in Nat
           /\ wh.headerOffset + 1 \in Addresses
           /\ wh.headerOffset + HeaderWords < MaxSize /\ MaxSize \in Nat
           /\ EndOf \in Nat /\ EndOf >= wh.headerOffset + HeaderWords + 1
           /\ EndOf = wh.headerOffset + HeaderWords + Len(job.data)
           /\ job.data \in Contents /\ Len(job.data) \in Nat
<1>1. job.data \in Contents /\ wh.headerOffset + HeaderWords < MaxSize
    BY DEF CopyInv, JobOK
<1>2. Len(job.data) \in Nat \ {0} /\ wh.headerOffset \in Nat /\ MaxSize \in Nat
    BY <1>1, ContentFacts, HandleNats DEF CopyInv
<1>3. EndOf = wh.headerOffset + HeaderWords + Len(job.data)
    BY DEF EndOf
<1> QED BY <1>1, <1>2, <1>3 DEF HeaderWords, Addresses

\* A flush that is refused at the end of the block leaves flash and the handle alone;
\* CloseWrite goes on with a stream that is longer than the block.
LEMMA FlushRefused ==
    ASSUME CopyInv, FlushOverLimit
    PROVE  /\ flash' = flash /\ wh' = wh /\ rescue' = rescue /\ kept' = kept /\ result' = result
           /\ job'.data = job.data /\ job'.ok = FALSE /\ Len(job'.rem) = 0
           /\ \/ pc = "writeFlush" /\ pc' = "closeFlush" /\ streamSize' = StreamSize(wh)
              \/ pc = "closeFlush" /\ pc' = "closeHeader" /\ streamSize' = streamSize
           /\ EndOf > MaxSize /\ wh.writeOffset >= MaxSize
           /\ wh.headerOffset + HeaderWords + streamSize' > MaxSize
<1>1. /\ Flushing /\ pc # "idle" /\ ~FitsBlock /\ FlushFails
      /\ pc \in Filling /\ pc \in {"writeFlush", "closeFlush"}
    BY DEF FlushOverLimit, Flushing, Filling
<1>2. /\ wh.writeOffset \in Nat /\ wh.headerOffset \in Nat /\ Len(wh.buf) \in Nat
      /\ Len(job.rem) \in Nat /\ MaxSize \in Nat /\ job \in JobType
    BY HandleNats DEF CopyInv, TypeOK
<1>3. wh.writeOffset >= MaxSize
    BY <1>1, OverLimit DEF CopyInv
<1>4. wh.writeOffset + Len(wh.buf) > MaxSize
    BY <1>1, <1>2 DEF FitsBlock
<1>5. EndOf > MaxSize
    <2>1. CASE job.ok = TRUE
        <3>1. wh.writeOffset + Len(wh.buf) + Len(job.rem) = EndOf
            BY <1>1, <2>1 DEF CopyInv, CopiedOK, Whole
        <3> QED BY <1>2, <1>4, <3>1
    <2>2. CASE job.ok # TRUE
        BY <1>1, <2>2 DEF CopyInv, CopiedOK, Refused
    <2> QED BY <2>1, <2>2
<1>6. ASSUME pc = "writeFlush" PROVE ~InHeader
    <2>1. job.ok = TRUE
        BY <1>1, <1>6 DEF CopyInv, CopiedOK, Refused
    <2>2. wh.writeOffset + Len(wh.buf) + Len(job.rem) = EndOf
        BY <1>1, <2>1 DEF CopyInv, CopiedOK, Whole
    <2>3. /\ EndOf = wh.headerOffset + HeaderWords + Len(job.data) /\ Len(job.data) \in Nat
          /\ wh.headerOffset + HeaderWords < MaxSize
        BY <1>1, CopyInBlock
    <2>4. \A w, b, r, h, d, m \in Nat :
             w + b > m /\ w + b + r = h + 2 + d /\ h + 2 < m => ~(r > d)
        OBVIOUS
    <2>5. ~(Len(job.rem) > Len(job.data))
        BY <1>2, <1>4, <2>2, <2>3, <2>4 DEF HeaderWords
    <2> QED BY <2>5 DEF InHeader
<1>7. /\ flash' = flash /\ rescue' = rescue
      /\ pc = "writeFlush" =>
            /\ pc' = "closeFlush" /\ streamSize' = StreamSize(wh)
            /\ job' = [data |-> job.data, rem |-> <<>>, ok |-> FALSE]
            /\ wh' = wh /\ result' = result /\ kept' = kept
      /\ pc = "closeFlush" =>
            /\ pc' = AfterFlush(wh) /\ job' = [job EXCEPT !.ok = FALSE]
            /\ wh' = wh /\ streamSize' = streamSize /\ result' = result /\ kept' = kept
    BY <1>1, <1>6 DEF FlushFails
<1>8. pc = "closeFlush" => /\ pc' = "closeHeader"
                           /\ Len(job.rem) = 0 /\ streamSize = StreamSize(wh)
    BY <1>2, <1>3, <1>7 DEF AfterFlush, CopyInv, CopiedOK
<1>9. streamSize' = StreamSize(wh)
    BY <1>1, <1>7, <1>8
<1>10. wh.headerOffset + HeaderWords + streamSize' > MaxSize
    BY <1>2, <1>4, <1>9 DEF StreamSize, HeaderWords
<1>11. job'.data = job.data /\ job'.ok = FALSE /\ Len(job'.rem) = 0
    BY <1>1, <1>2, <1>7, <1>8 DEF JobType
<1> QED BY <1>1, <1>3, <1>5, <1>7, <1>8, <1>10, <1>11

\* The words of two sequences put together.
LEMMA JoinFacts ==
    ASSUME NEW S, NEW s \in Seq(S), NEW t \in Seq(S)
    PROVE  /\ Len(s) \in Nat /\ Len(t) \in Nat
           /\ Len(s \o t) = Len(s) + Len(t)
           /\ \A i \in 1 .. Len(s) : (s \o t)[i] = s[i]
           /\ \A i \in 1 .. Len(t) : (s \o t)[Len(s) + i] = t[i]
<1>1. Len(s) \in Nat /\ Len(t) \in Nat
    OBVIOUS
<1>2. Len(s \o t) = Len(s) + Len(t)
    OBVIOUS
<1>3. \A i \in 1 .. Len(s) : (s \o t)[i] = s[i]
    OBVIOUS
<1>4. \A i \in 1 .. Len(t) : (s \o t)[Len(s) + i] = t[i]
    OBVIOUS
<1> QED BY <1>1, <1>2, <1>3, <1>4

\* A save starts with the whole copy to be written.
LEMMA StartCopy ==
    ASSUME TypeOK, NEW data \in Contents, StartSave(data)
    PROVE  /\ job'.data = data /\ job'.ok = TRUE
           /\ Len(job'.rem) = HeaderWords + Len(data)
           /\ RemOK(job.rem, 0)'
<1>1. /\ job'.data = data /\ job'.ok = TRUE /\ job'.rem = Erased(HeaderWords) \o data
    BY DEF StartSave
<1>2. /\ Erased(HeaderWords) \in Seq(BufferWord) /\ Len(Erased(HeaderWords)) = HeaderWords
      /\ \A i \in 1 .. HeaderWords : Erased(HeaderWords)[i] = FF
    BY ErasedSeq DEF HeaderWords
<1>3. data \in Seq(BufferWord) /\ Len(data) \in Nat
    BY ContentsSeq, ContentFacts
<1>4. HeaderWords = 2
    BY DEF HeaderWords
<1> DEFINE head == Erased(HeaderWords)
<1>5. head \in Seq(BufferWord) /\ Len(head) = 2 /\ \A i \in 1 .. 2 : head[i] = FF
    BY <1>2, <1>4
<1> HIDE DEF head
<1>6. /\ Len(head \o data) = 2 + Len(data)
      /\ \A i \in 1 .. 2 : (head \o data)[i] = head[i]
      /\ \A i \in 1 .. Len(data) : (head \o data)[2 + i] = data[i]
    <2>1. /\ Len(head \o data) = Len(head) + Len(data)
          /\ \A i \in 1 .. Len(head) : (head \o data)[i] = head[i]
          /\ \A i \in 1 .. Len(data) : (head \o data)[Len(head) + i] = data[i]
        <3>1. head \in Seq(BufferWord) /\ data \in Seq(BufferWord)
            BY <1>3, <1>5
        <3> QED BY <3>1, JoinFacts
    <2> QED BY <1>5, <2>1
<1>7. ASSUME NEW i \in 1 .. 2 + Len(data)
      PROVE  (head \o data)[i] = CopyWord(data, i)
    <2>1. CASE i <= 2
        <3>1. i \in 1 .. 2
            BY <1>3, <2>1
        <3>2. (head \o data)[i] = FF
            BY <1>5, <1>6, <3>1
        <3> QED BY <1>4, <2>1, <3>2 DEF CopyWord
    <2>2. CASE ~ i <= 2
        <3>1. PICK j \in 1 .. Len(data) : i = 2 + j /\ j = i - 2
            <4>1. i - 2 \in 1 .. Len(data) /\ i = 2 + (i - 2)
                BY <1>3, <2>2
            <4> QED BY <4>1
        <3>2. (head \o data)[i] = data[i - 2]
            BY <1>6, <3>1
        <3> QED BY <1>4, <2>2, <3>2 DEF CopyWord
    <2> QED BY <2>1, <2>2
<1>8. Len(job'.rem) = HeaderWords + Len(data)
    BY <1>1, <1>4, <1>6 DEF head
<1>9. RemOK(job.rem, 0)'
    <2>1. \A i \in 1 .. 2 + Len(data) : job'.rem[i] = CopyWord(data, 0 + i)
        <3>1. \A i \in 1 .. 2 + Len(data) : 0 + i = i
            BY <1>3
        <3> QED BY <1>1, <1>7, <3>1 DEF head
    <2> QED BY <1>1, <1>4, <1>8, <2>1 DEF RemOK
<1> QED BY <1>1, <1>8, <1>9

\* WriteFile moves words from the front of what is left to the end of the buffer.
LEMMA CopyMoves ==
    ASSUME TypeOK, WriteFile
    PROVE  \E n \in Nat :
             /\ n <= Len(job.rem)
             /\ wh'.writeOffset = wh.writeOffset /\ wh'.headerOffset = wh.headerOffset
             /\ Len(wh'.buf) = Len(wh.buf) + n
             /\ \A i \in 1 .. Len(wh.buf) : wh'.buf[i] = wh.buf[i]
             /\ \A i \in 1 .. n : wh'.buf[Len(wh.buf) + i] = job.rem[i]
             /\ Len(job'.rem) = Len(job.rem) - n
             /\ \A i \in 1 .. Len(job'.rem) : job'.rem[i] = job.rem[n + i]
             /\ job'.data = job.data /\ job'.ok = job.ok
             /\ \/ n = Len(job.rem) /\ pc' = "closeFlush" /\ streamSize' = StreamSize(wh')
                \/ n # Len(job.rem) /\ pc' = "writeFlush"
<1> DEFINE n   == IF Len(job.rem) < BufferRoom THEN Len(job.rem) ELSE BufferRoom
           add == SubSeq(job.rem, 1, n)
           rem == SubSeq(job.rem, n + 1, Len(job.rem))
<1>1. /\ wh \in HandleType /\ wh.buf \in Seq(BufferWord) /\ Len(wh.buf) \in Nat
      /\ job.rem \in Seq(BufferWord) /\ Len(job.rem) \in Nat /\ job \in JobType
    BY DEF TypeOK, HandleType, JobType
<1>2. n \in Nat /\ n <= Len(job.rem)
    <2>1. BufferRoom \in Nat
        BY HandleNats DEF BufferRoom
    <2>2. n \in Nat /\ n <= Len(job.rem)
        BY <1>1, <2>1, SmallerFacts
    <2> HIDE DEF n
    <2> QED BY <2>2
<1>3. /\ wh' = [wh EXCEPT !.buf = wh.buf \o add]
      /\ job' = [job EXCEPT !.rem = rem]
      /\ \/ n = Len(job.rem) /\ pc' = "closeFlush" /\ streamSize' = StreamSize(wh')
         \/ n # Len(job.rem) /\ pc' = "writeFlush"
    BY DEF WriteFile
<1> HIDE DEF n
<1>4. add \in Seq(BufferWord) /\ Len(add) = n /\ \A i \in 1 .. n : add[i] = job.rem[i]
    BY <1>1, <1>2
<1>5. /\ rem \in Seq(BufferWord) /\ Len(rem) = Len(job.rem) - n
      /\ \A i \in 1 .. Len(rem) : rem[i] = job.rem[n + i]
    BY <1>1, <1>2
<1> HIDE DEF add, rem
<1>6. /\ Len(wh.buf \o add) = Len(wh.buf) + n
      /\ \A i \in 1 .. Len(wh.buf) : (wh.buf \o add)[i] = wh.buf[i]
      /\ \A i \in 1 .. n : (wh.buf \o add)[Len(wh.buf) + i] = add[i]
    <2>1. /\ Len(wh.buf \o add) = Len(wh.buf) + Len(add)
          /\ \A i \in 1 .. Len(wh.buf) : (wh.buf \o add)[i] = wh.buf[i]
          /\ \A i \in 1 .. Len(add) : (wh.buf \o add)[Len(wh.buf) + i] = add[i]
        <3>1. wh.buf \in Seq(BufferWord) /\ add \in Seq(BufferWord)
            BY <1>1, <1>4
        <3> QED BY <3>1, JoinFacts
    <2> QED BY <1>4, <2>1
<1>7. /\ wh'.writeOffset = wh.writeOffset /\ wh'.headerOffset = wh.headerOffset
      /\ wh'.buf = wh.buf \o add
    BY <1>1, <1>3 DEF HandleType
<1>8. job'.rem = rem /\ job'.data = job.data /\ job'.ok = job.ok
    BY <1>1, <1>3 DEF JobType
<1>9. \A i \in 1 .. n : wh'.buf[Len(wh.buf) + i] = job.rem[i]
    BY <1>4, <1>6, <1>7
<1> QED BY <1>2, <1>3, <1>5, <1>6, <1>7, <1>8, <1>9

\* OpenWrite looks for room for the header and at least one word.
LEMMA AppendRoom ==
    ASSUME NEW h \in Addresses, NEW data \in Contents, CanAppend(h, data)
    PROVE  h + HeaderWords < MaxSize
<1>1. Len(data) \in Nat /\ h \in Nat /\ Undeclared \in Nat /\ MaxSize \in Nat
    BY ContentFacts, AddressNat, CallerAssumption, FlashAssumption
<1>2. Len(data) > Undeclared /\ h + HeaderWords + (Len(data) - Undeclared) <= MaxSize
    BY DEF CanAppend, HasRoom
<1> QED BY <1>1, <1>2 DEF HeaderWords

\* A handle at the append point starts a copy there.
LEMMA StartsCopy ==
    ASSUME NEW h \in Nat, wh' = HandleAt(h), pc' = "write", job'.ok = TRUE,
           Len(job'.rem) = HeaderWords + Len(job'.data), RemOK(job.rem, 0)', Len(job'.data) \in Nat
    PROVE  CopiedOK'
<1>1. /\ wh'.headerOffset = h /\ wh'.writeOffset = PageOf(h)
      /\ wh'.writeOffset + Len(wh'.buf) = h
    BY HandleFacts
<1>2. Len(wh'.buf) \in Nat /\ PageOf(h) \in Nat
    BY HandleFacts, PageBounds DEF HandleType
<1>3. wh'.writeOffset + Len(wh'.buf) + Len(job'.rem) = EndOf'
    <2>1. EndOf' = h + HeaderWords + Len(job'.data)
        BY <1>1 DEF EndOf
    <2>2. wh'.writeOffset + Len(wh'.buf) + Len(job'.rem) = h + (HeaderWords + Len(job'.data))
        BY <1>1
    <2>3. \A x, y \in Nat : x + (HeaderWords + y) = x + HeaderWords + y
        BY DEF HeaderWords
    <2>4. h + (HeaderWords + Len(job'.data)) = h + HeaderWords + Len(job'.data)
        BY <2>3
    <2> QED BY <2>1, <2>2, <2>4
<1>4. (wh.writeOffset + Len(wh.buf) - wh.headerOffset)' = 0
    BY <1>1, <1>2
<1>5. BufOK'
    BY <1>1, <1>2 DEF BufOK
<1> QED BY <1>3, <1>4, <1>5 DEF CopiedOK, Whole, Filling, Restoring, Closing

\* So does a free handle, at the start of the block.
LEMMA StartsOver ==
    ASSUME wh' = NoHandle, pc' = "write", job'.ok = TRUE,
           Len(job'.rem) = HeaderWords + Len(job'.data), RemOK(job.rem, 0)', Len(job'.data) \in Nat
    PROVE  CopiedOK'
<1>1. wh'.headerOffset = 0 /\ wh'.writeOffset = 0 /\ wh'.buf = <<>> /\ Len(wh'.buf) = 0
    BY DEF NoHandle
<1>2. wh'.writeOffset + Len(wh'.buf) + Len(job'.rem) = EndOf'
    BY <1>1 DEF EndOf, HeaderWords
<1>3. (wh.writeOffset + Len(wh.buf) - wh.headerOffset)' = 0
    BY <1>1
<1>4. BufOK'
    BY <1>1 DEF BufOK
<1> QED BY <1>2, <1>3, <1>4 DEF CopiedOK, Whole, Filling, Restoring, Closing

\* OpenWrite starts a copy of what the caller saves.
LEMMA CopyOpen ==
    ASSUME MaxTimeouts = 0, CopyInv,
           Save \/ RestoreErase \/ RestoreEraseTimeout \/ RestoreProgram
    PROVE  JobOK' /\ CopiedOK'
<1>0. TypeOK /\ ~TimesOut
    BY NothingFails DEF CopyInv
<1>1. CASE Save
    <2>1. PICK data \in Contents : SaveAppend(data) \/ SaveDirty(data) \/ SaveFromStart(data)
        BY <1>1 DEF Save
    <2>2. /\ job'.data = data /\ job'.ok = TRUE
          /\ Len(job'.rem) = HeaderWords + Len(data) /\ RemOK(job.rem, 0)'
        BY <1>0, <2>1, StartCopy DEF SaveAppend, SaveDirty, SaveFromStart
    <2>3. Len(data) \in Nat /\ HeaderWords + Len(data) <= MaxSize
        BY ContentFacts, FlashAssumption DEF HeaderWords
    <2>7. HeaderWords < MaxSize
        BY ContentFacts, FlashAssumption DEF HeaderWords
    <2>4. CASE SaveAppend(data)
        <3>1. PICK h \in Addresses : CanAppend(h, data) /\ wh' = HandleAt(h) /\ pc' = "write"
            BY <2>4 DEF SaveAppend
        <3>2. h \in Nat /\ wh'.headerOffset = h
            BY <3>1, AddressNat, HandleFacts
        <3>3. JobOK'
            BY <2>2, <3>1, <3>2, AppendRoom DEF JobOK
        <3> QED BY <2>2, <2>3, <3>1, <3>2, <3>3, StartsCopy
    <2>5. CASE SaveDirty(data)
        <3>1. PICK h \in Addresses : /\ CanAppend(h, data) /\ pc' = "restoreErase"
                                     /\ wh' = [NoHandle EXCEPT !.headerOffset = h]
            BY <2>5 DEF SaveDirty
        <3>2. wh'.headerOffset = h
            BY <3>1 DEF NoHandle
        <3>3. JobOK'
            BY <2>2, <3>1, <3>2, AppendRoom DEF JobOK
        <3> QED BY <2>2, <3>1, <3>3 DEF CopiedOK, Whole, Filling, Restoring, Closing
    <2>6. CASE SaveFromStart(data)
        <3>1. wh' = NoHandle /\ pc' = "write" /\ wh'.headerOffset = 0
            BY <2>6 DEF SaveFromStart, NoHandle
        <3>2. JobOK'
            BY <2>2, <2>7, <3>1 DEF JobOK, HeaderWords
        <3> QED BY <2>2, <2>3, <3>1, <3>2, StartsOver
    <2> QED BY <2>1, <2>4, <2>5, <2>6
<1>2. CASE RestoreErase
    <2>1. pc = "restoreErase" /\ pc' = "restoreProgram" /\ wh' = wh /\ job' = job
        BY <1>2 DEF RestoreErase
    <2> QED BY <2>1 DEF CopyInv, JobOK, CopiedOK, Whole, Refused, RemOK, Filling, Restoring, Closing
<1>3. CASE RestoreEraseTimeout
    BY <1>0, <1>3 DEF RestoreEraseTimeout
<1>4. CASE RestoreProgram
    <2>1. /\ pc = "restoreProgram" /\ pc' = "write" /\ wh' = HandleAt(wh.headerOffset)
          /\ job' = job
        BY <1>4 DEF RestoreProgram
    <2>2. wh.headerOffset \in Nat /\ wh'.headerOffset = wh.headerOffset
        BY <1>0, <2>1, HandleNats, HandleFacts
    <2>3. JobOK' /\ Len(job'.data) \in Nat
        BY <2>1, <2>2, ContentFacts DEF CopyInv, JobOK
    <2>4. /\ job'.ok = TRUE
          /\ Len(job'.rem) = HeaderWords + Len(job'.data) /\ RemOK(job.rem, 0)'
        BY <2>1 DEF CopyInv, CopiedOK, Whole, Refused, Restoring, RemOK
    <2> QED BY <2>1, <2>2, <2>3, <2>4, StartsCopy
<1> QED BY <1>1, <1>2, <1>3, <1>4

\* WriteFile continues the copy in the buffer.
LEMMA CopyWrite ==
    ASSUME CopyInv, WriteFile
    PROVE  JobOK' /\ CopiedOK'
<1>1. PICK n \in Nat :
         /\ n <= Len(job.rem)
         /\ wh'.writeOffset = wh.writeOffset /\ wh'.headerOffset = wh.headerOffset
         /\ Len(wh'.buf) = Len(wh.buf) + n
         /\ \A i \in 1 .. Len(wh.buf) : wh'.buf[i] = wh.buf[i]
         /\ \A i \in 1 .. n : wh'.buf[Len(wh.buf) + i] = job.rem[i]
         /\ Len(job'.rem) = Len(job.rem) - n
         /\ \A i \in 1 .. Len(job'.rem) : job'.rem[i] = job.rem[n + i]
         /\ job'.data = job.data /\ job'.ok = job.ok
         /\ \/ n = Len(job.rem) /\ pc' = "closeFlush" /\ streamSize' = StreamSize(wh')
            \/ n # Len(job.rem) /\ pc' = "writeFlush"
    BY CopyMoves DEF CopyInv
<1>2. /\ wh.writeOffset \in Nat /\ wh.headerOffset \in Nat /\ Len(wh.buf) \in Nat
      /\ Len(job.rem) \in Nat
    BY HandleNats DEF CopyInv
<1>3. pc = "write"
    BY DEF WriteFile
<1>4. /\ wh.writeOffset + Len(wh.buf) + Len(job.rem) = EndOf
      /\ RemOK(job.rem, wh.writeOffset + Len(wh.buf) - wh.headerOffset)
      /\ BufOK /\ job.ok = TRUE
    BY <1>3 DEF CopyInv, CopiedOK, Whole, Refused, Filling
<1>5. job.data \in Contents /\ Len(job.data) \in Nat
    BY <1>3, ContentFacts DEF CopyInv, JobOK
<1>6. EndOf' = EndOf
    BY <1>1 DEF EndOf
<1>7. JobOK'
    BY <1>1, <1>3 DEF CopyInv, JobOK
<1>8. wh'.writeOffset + Len(wh'.buf) + Len(job'.rem) = EndOf'
    BY <1>1, <1>2, <1>4, <1>6
<1>9. RemOK(job.rem, wh.writeOffset + Len(wh.buf) - wh.headerOffset)'
    <2> DEFINE from == wh.writeOffset + Len(wh.buf) - wh.headerOffset
    <2>1. from' = from + n
        BY <1>1, <1>2
    <2>2. ASSUME NEW i \in 1 .. Len(job'.rem)
          PROVE  job'.rem[i] = CopyWord(job'.data, from' + i)
        <3>0. Len(job'.rem) = Len(job.rem) - n /\ n <= Len(job.rem)
            BY <1>1
        <3>1. n + i \in 1 .. Len(job.rem) /\ from \in Int
            BY <1>2, <3>0
        <3>2. job.rem[n + i] = CopyWord(job.data, from + (n + i))
            BY <1>4, <3>1 DEF RemOK
        <3>3. from' + i = from + (n + i)
            BY <1>1, <2>1, <3>1
        <3> HIDE DEF from
        <3> QED BY <1>1, <3>2, <3>3
    <2> QED BY <2>2 DEF RemOK
<1>10. BufOK'
    <2> SUFFICES ASSUME NEW i \in 1 .. Len(wh'.buf), wh.writeOffset + i > wh.headerOffset
                 PROVE  wh'.buf[i] = CopyWord(job.data, wh.writeOffset + i - wh.headerOffset)
        BY <1>1 DEF BufOK
    <2>1. CASE i <= Len(wh.buf)
        <3>1. i \in 1 .. Len(wh.buf)
            BY <1>1, <1>2, <2>1
        <3> QED BY <1>1, <1>4, <3>1 DEF BufOK
    <2>2. CASE i > Len(wh.buf)
        <3>1. PICK j \in 1 .. n : i = Len(wh.buf) + j
            <4>1. i - Len(wh.buf) \in 1 .. n /\ i = Len(wh.buf) + (i - Len(wh.buf))
                BY <1>1, <1>2, <2>2
            <4> QED BY <4>1
        <3>a. j \in 1 .. Len(job.rem)
            BY <1>1, <1>2
        <3>b. wh'.buf[Len(wh.buf) + j] = job.rem[j]
            BY <1>1
        <3>2. wh'.buf[i] = job.rem[j] /\ j \in 1 .. Len(job.rem)
            BY <3>1, <3>a, <3>b
        <3>3. job.rem[j] = CopyWord(job.data, wh.writeOffset + Len(wh.buf) - wh.headerOffset + j)
            BY <1>4, <3>2 DEF RemOK
        <3>4. wh.writeOffset + Len(wh.buf) - wh.headerOffset + j = wh.writeOffset + i - wh.headerOffset
            BY <1>2, <3>1
        <3> QED BY <3>2, <3>3, <3>4
    <2> QED BY <1>1, <1>2, <2>1, <2>2
<1>11. pc' = "closeFlush" => Len(job'.rem) = 0 /\ streamSize' = StreamSize(wh')
    BY <1>1, <1>2
<1>12. pc' \in {"closeFlush", "writeFlush"} /\ job'.ok = TRUE
    BY <1>1, <1>4
<1> QED BY <1>7, <1>8, <1>9, <1>10, <1>11, <1>12 DEF CopiedOK, Whole, Filling, Restoring, Closing

\* Flush writes the buffer to the block, and CloseWrite follows the last flush.
LEMMA CopyFlush ==
    ASSUME MaxTimeouts = 0, CopyInv,
           FlushErase \/ FlushProgram \/ FlushTimeout \/ FlushOverLimit
    PROVE  JobOK' /\ CopiedOK'
<1>0. /\ wh.writeOffset \in Nat /\ wh.headerOffset \in Nat /\ Len(wh.buf) \in Nat
      /\ Len(job.rem) \in Nat /\ PageWords \in Nat /\ Len(wh.buf) <= PageWords
    BY HandleNats DEF CopyInv
<1>1. ~FlushTimeout
    BY NothingFails DEF CopyInv
<1>2. CASE FlushErase
    <2>1. /\ pc' = pc /\ wh' = wh /\ job' = job /\ streamSize' = streamSize
        BY <1>2 DEF FlushErase
    <2> QED BY <2>1 DEF CopyInv, JobOK, CopiedOK, Whole, Refused, RemOK, BufOK, EndOf, FitsBlock
<1>3. CASE FlushProgram
    <2>1. /\ pc \in {"writeFlush", "closeFlush"} /\ FitsBlock
          /\ wh'.writeOffset = wh.writeOffset + PageWords /\ wh'.headerOffset = wh.headerOffset
          /\ wh'.buf = <<>> /\ Len(wh'.buf) = 0
          /\ job' = job /\ streamSize' = streamSize
          /\ pc' = IF pc = "writeFlush" THEN "write" ELSE AfterFlush(wh')
        BY <1>3 DEF FlushProgram, Flushing
    <2>2. EndOf' = EndOf
        BY <2>1 DEF EndOf
    <2>3. JobOK'
        BY <2>1 DEF CopyInv, JobOK
    <2>4. /\ job.ok = TRUE
          /\ wh.writeOffset + Len(wh.buf) + Len(job.rem) = EndOf
          /\ RemOK(job.rem, wh.writeOffset + Len(wh.buf) - wh.headerOffset)
        BY <2>1 DEF CopyInv, CopiedOK, Whole, Refused, Filling
    <2>5. BufOK'
        BY <2>1 DEF BufOK
    <2>6. CASE pc = "writeFlush"
        <3>1. Len(wh.buf) = PageWords /\ pc' = "write"
            BY <2>1, <2>6 DEF CopyInv, CursorOK
        <3>2. wh'.writeOffset + Len(wh'.buf) + Len(job'.rem) = EndOf'
            BY <1>0, <2>1, <2>2, <2>4, <3>1
        <3>3. (wh.writeOffset + Len(wh.buf) - wh.headerOffset)'
                = wh.writeOffset + Len(wh.buf) - wh.headerOffset
            BY <1>0, <2>1, <3>1
        <3>4. RemOK(job.rem, wh.writeOffset + Len(wh.buf) - wh.headerOffset)'
            BY <2>1, <2>4, <3>3 DEF RemOK
        <3> QED BY <2>1, <2>3, <2>4, <2>5, <3>1, <3>2, <3>4 DEF CopiedOK, Whole, Filling, Restoring, Closing
    <2>7. CASE pc = "closeFlush"
        <3>1. pc' \in Closing /\ Len(job.rem) = 0 /\ streamSize = StreamSize(wh)
            BY <2>1, <2>7 DEF AfterFlush, Closing, CopyInv, CopiedOK
        <3>2. EndOf = wh.writeOffset + Len(wh.buf)
            BY <1>0, <2>4, <3>1
        <3>3. EndOf' <= wh'.writeOffset /\ EndOf' <= MaxSize
            BY <1>0, <2>1, <2>2, <3>2 DEF FitsBlock
        <3>4. streamSize = Len(job.data)
            <4>1. EndOf = wh.headerOffset + HeaderWords + Len(job.data) /\ Len(job.data) \in Nat
                BY <2>7, CopyInBlock
            <4>2. PICK w, b, h, d \in Nat : /\ w = wh.writeOffset /\ b = Len(wh.buf)
                                             /\ h = wh.headerOffset /\ d = Len(job.data)
                BY <1>0, <4>1
            <4>3. w + b = h + 2 + d
                BY <3>2, <4>1, <4>2 DEF HeaderWords
            <4>4. w + b - h - 2 = d
                BY <4>3
            <4> QED BY <3>1, <4>2, <4>4 DEF StreamSize, HeaderWords
        <3> QED BY <2>1, <2>3, <2>4, <3>1, <3>3, <3>4 DEF CopiedOK, Whole, Filling, Restoring, Closing
    <2> QED BY <2>1, <2>6, <2>7
<1>4. CASE FlushOverLimit
    <2>1. /\ wh' = wh /\ job'.data = job.data /\ job'.ok = FALSE /\ Len(job'.rem) = 0
          /\ \/ pc = "writeFlush" /\ pc' = "closeFlush" /\ streamSize' = StreamSize(wh)
             \/ pc = "closeFlush" /\ pc' = "closeHeader" /\ streamSize' = streamSize
          /\ EndOf > MaxSize /\ wh.writeOffset >= MaxSize
          /\ wh.headerOffset + HeaderWords + streamSize' > MaxSize
        BY <1>4, FlushRefused
    <2>2. ~FitsBlock' /\ EndOf' = EndOf
        BY <1>4, <2>1 DEF FlushOverLimit, FitsBlock, EndOf
    <2>3. BufOK'
        BY <2>1 DEF CopyInv, CopiedOK, Filling, BufOK
    <2>4. JobOK'
        BY <2>1 DEF CopyInv, JobOK
    <2>5. Refused'
        BY <2>1, <2>2 DEF Refused
    <2> QED BY <2>1, <2>3, <2>4, <2>5 DEF CopiedOK, Filling
<1> QED BY <1>1, <1>2, <1>3, <1>4

\* The rest of CloseWrite, Remove and a crash leave the copy or end it.
LEMMA CopyClose ==
    ASSUME MaxTimeouts = 0, CopyInv,
           CloseErase \/ CloseEraseTimeout \/ CloseHeader \/ CloseHeaderTimeout \/ Remove \/ Crash
    PROVE  JobOK' /\ CopiedOK'
<1>0. ~TimesOut
    BY NothingFails DEF CopyInv
<1>1. CASE CloseErase
    <2>1. /\ pc = "closeErase" /\ pc' = "closeHeader"
          /\ wh' = wh /\ job' = job /\ streamSize' = streamSize
        BY <1>1 DEF CloseErase
    <2> QED BY <2>1 DEF CopyInv, JobOK, CopiedOK, Whole, Refused, EndOf, Filling, Restoring, Closing
<1>2. CASE CloseEraseTimeout
    BY <1>0, <1>2 DEF CloseEraseTimeout
<1>3. CASE CloseHeader \/ CloseHeaderTimeout \/ Remove \/ Crash
    <2>1. pc' = "idle"
        BY <1>3 DEF CloseHeader, CloseHeaderTimeout, EndSave, Remove, Crash, CrashBetween,
                    CrashInErase, CrashInProgram, Restart
    <2> QED BY <2>1 DEF JobOK, CopiedOK, Filling
<1> QED BY <1>1, <1>2, <1>3

\* The copy being saved is written word by word, in order, to its end or to that of
\* the block.
LEMMA CopyStep ==
    ASSUME MaxTimeouts = 0, CopyInv, [Next]_vars
    PROVE  CopyInv'
<1>1. TypeOK'
    BY TypeStep DEF CopyInv
<1>2. CursorOK' /\ AlignedOK' /\ CloseOK'
    BY CursorStep, AlignedStep, CloseStep DEF CopyInv
<1>3. JobOK' /\ CopiedOK'
    <2>1. CASE UNCHANGED vars
        BY <2>1 DEF vars, CopyInv, JobOK, CopiedOK, Whole, Refused, RemOK, BufOK, EndOf, FitsBlock, StreamSize
    <2> QED BY <2>1, CopyOpen, CopyWrite, CopyFlush, CopyClose DEF Next, Step
<1> QED BY <1>1, <1>2, <1>3 DEF CopyInv

\* the words of the copy that are in the block, and what follows them
DataWritten ==
    \A a \in Addresses : wh.headerOffset <= a /\ a < wh.writeOffset =>
        flash[a] = IF a < EndOf THEN CopyWord(job.data, a - wh.headerOffset + 1) ELSE FF

\* from the cursor on, the words of the copy's part of the sector are erased
RestErased ==
    \A a \in Addresses :
        a >= wh.writeOffset /\ a >= wh.headerOffset /\ a < SectorOf(wh.writeOffset) + SectorWords
            => flash[a] = FF

WrittenOK ==
    /\ pc \in Writing =>
          /\ DataWritten
          /\ wh.writeOffset % SectorWords # 0 \/ wh.headerOffset > wh.writeOffset => RestErased
    /\ pc = "closeHeader" /\ EndOf < MaxSize => flash[EndOf] = FF
    /\ pc = "closeErase" => wh.writeOffset % SectorWords = 0
    /\ pc \in Restoring => Len(rescue) = wh.headerOffset - SectorOf(wh.headerOffset)
    /\ pc = "restoreProgram" => IsSectorErased(flash, SectorOf(wh.headerOffset))

\* An erased word takes the value programmed.
LEMMA ProgramSets ==
    ASSUME NEW f, NEW at \in Nat, NEW ws, NEW a \in Addresses,
           a >= at, a < at + Len(ws), f[a] = FF
    PROVE  Program(f, at, ws)[a] = ws[a - at + 1]
BY DEF Program, Burn

\* A handle at an append point that can be programmed.
LEMMA StartsClean ==
    ASSUME NEW h \in Addresses, wh' = HandleAt(h), pc' = "write",
           SectorOf(h) = h \/ IsErased(flash', h, SectorOf(h) + SectorWords)
    PROVE  WrittenOK'
<1>1. /\ wh'.headerOffset = h /\ wh'.writeOffset = PageOf(h) /\ h \in Nat
      /\ PageOf(h) \in Nat /\ PageOf(h) <= h /\ PageOf(h) % PageWords = 0
      /\ SectorOf(h) <= PageOf(h) /\ SectorOf(PageOf(h)) = SectorOf(h)
    BY AddressNat, HandleFacts, PageBounds, PageAligned
<1>2. DataWritten'
    BY <1>1, AddressNat DEF DataWritten
<1>3. ASSUME wh'.writeOffset % SectorWords # 0 \/ wh'.headerOffset > wh'.writeOffset
      PROVE  RestErased'
    <2>1. SectorOf(h) # h
        <3> SUFFICES ASSUME SectorOf(h) = h PROVE FALSE
            OBVIOUS
        <3>1. PageOf(h) = h
            BY <1>1
        <3>2. h % SectorWords # 0
            BY <1>1, <1>3, <3>1
        <3> QED BY <1>1, <3>2, SectorAligned
    <2>2. \A a \in Addresses : a >= h /\ a < SectorOf(h) + SectorWords => flash'[a] = FF
        BY <2>1 DEF IsErased
    <2> QED BY <1>1, <2>2 DEF RestErased
<1> QED BY <1>1, <1>2, <1>3 DEF WrittenOK, Restoring

\* A free handle starts at the first word.
LEMMA StartsAtZero ==
    ASSUME wh' = NoHandle, pc' = "write"
    PROVE  WrittenOK'
<1>1. wh'.headerOffset = 0 /\ wh'.writeOffset = 0
    BY DEF NoHandle
<1>2. 0 % PageWords = 0 /\ 0 % SectorWords = 0
    BY FlashAssumption
<1>3. DataWritten'
    BY <1>1, AddressNat DEF DataWritten
<1> QED BY <1>1, <1>2, <1>3 DEF WrittenOK, Restoring

\* After the RAM copy of a dirty sector is put back, what follows it is erased.
LEMMA PutBackClean ==
    ASSUME NEW h \in Addresses, IsSectorErased(flash, SectorOf(h)),
           Len(rescue) = h - SectorOf(h)
    PROVE  IsErased(Program(flash, SectorOf(h), rescue), h, SectorOf(h) + SectorWords)
<1>1. h \in Nat /\ SectorOf(h) \in Nat /\ SectorOf(h) <= h /\ h - SectorOf(h) \in Nat
    BY AddressNat, SectorBounds
<1> SUFFICES ASSUME NEW a \in Addresses, a >= h, a < SectorOf(h) + SectorWords
             PROVE  Program(flash, SectorOf(h), rescue)[a] = FF
    BY DEF IsErased
<1>2. a \in Nat /\ a >= SectorOf(h) + Len(rescue)
    BY <1>1, AddressNat
<1>3. flash[a] = FF
    BY <1>1, <1>2 DEF IsSectorErased, IsErased
<1> QED BY <1>1, <1>2, <1>3, ProgramKeeps

\* OpenWrite leaves a block in which the copy can be programmed.
LEMMA WrittenOpen ==
    ASSUME MaxTimeouts = 0, CopyInv, WrittenOK,
           wh.headerOffset \in Addresses \/ pc \notin Restoring,
           Save \/ RestoreErase \/ RestoreEraseTimeout \/ RestoreProgram
    PROVE  WrittenOK'
<1>0. ~TimesOut
    BY NothingFails DEF CopyInv
<1>1. CASE Save
    <2>1. PICK data \in Contents : SaveAppend(data) \/ SaveDirty(data) \/ SaveFromStart(data)
        BY <1>1 DEF Save
    <2>2. CASE SaveAppend(data)
        <3>1. PICK h \in Addresses : /\ Clean(flash, h) /\ wh' = HandleAt(h) /\ pc' = "write"
                                     /\ flash' = flash
            BY <2>2 DEF SaveAppend, StartSave
        <3> QED BY <3>1, StartsClean DEF Clean
    <2>3. CASE SaveDirty(data)
        <3>1. PICK h \in Addresses : /\ pc' = "restoreErase" /\ rescue' = Preserved(flash, h)
                                     /\ wh' = [NoHandle EXCEPT !.headerOffset = h]
            BY <2>3 DEF SaveDirty
        <3>2. wh'.headerOffset = h
            BY <3>1 DEF NoHandle
        <3>3. h - SectorOf(h) \in Nat
            BY AddressNat, SectorBounds
        <3>4. Len(rescue') = h - SectorOf(h)
            BY <3>1, <3>3 DEF Preserved
        <3> QED BY <3>1, <3>2, <3>4 DEF WrittenOK, Writing, Restoring
    <2>4. CASE SaveFromStart(data)
        BY <2>4, StartsAtZero DEF SaveFromStart
    <2> QED BY <2>1, <2>2, <2>3, <2>4
<1>2. CASE RestoreErase
    <2>1. /\ pc = "restoreErase" /\ pc' = "restoreProgram" /\ wh' = wh /\ rescue' = rescue
          /\ flash' = EraseSector(flash, SectorOf(wh.headerOffset))
        BY <1>2 DEF RestoreErase
    <2>2. wh.headerOffset \in Nat
        BY HandleNats DEF CopyInv
    <2>3. IsSectorErased(flash', SectorOf(wh.headerOffset))
        <3> DEFINE s == SectorOf(wh.headerOffset)
        <3>1. s \in Nat /\ s % SectorWords = 0
            BY <2>2, SectorAligned
        <3>2. ASSUME NEW a \in Addresses, a >= s, a < s + SectorWords PROVE flash'[a] = FF
            <4>1. SectorOf(a) = s
                <5> HIDE DEF s
                <5> QED BY <3>1, <3>2, AddressNat, SectorStart
            <4> QED BY <2>1, <4>1 DEF EraseSector
        <3> QED BY <3>2 DEF IsSectorErased, IsErased
    <2> QED BY <2>1, <2>3 DEF WrittenOK, Writing, Restoring
<1>3. CASE RestoreEraseTimeout
    BY <1>0, <1>3 DEF RestoreEraseTimeout
<1>4. CASE RestoreProgram
    <2>1. /\ pc = "restoreProgram" /\ pc' = "write" /\ wh' = HandleAt(wh.headerOffset)
          /\ flash' = Program(flash, SectorOf(wh.headerOffset), rescue)
        BY <1>0, <1>4 DEF RestoreProgram
    <2>2. /\ wh.headerOffset \in Addresses
          /\ IsSectorErased(flash, SectorOf(wh.headerOffset))
          /\ Len(rescue) = wh.headerOffset - SectorOf(wh.headerOffset)
        BY <2>1 DEF WrittenOK, Restoring
    <2>3. IsErased(flash', wh.headerOffset, SectorOf(wh.headerOffset) + SectorWords)
        BY <2>1, <2>2, PutBackClean
    <2> QED BY <2>1, <2>2, <2>3, StartsClean
<1> QED BY <1>1, <1>2, <1>3, <1>4

\* Where a page is about to be programmed, the words of the copy's part of the
\* sector are erased.
LEMMA PageIsErased ==
    ASSUME CopyInv, WrittenOK, Flushing, ~EntersUnerased
    PROVE  RestErased
<1>1. wh.writeOffset \in Nat /\ wh.headerOffset \in Nat /\ SectorWords \in Nat \ {0}
    BY HandleNats DEF CopyInv
<1>2. CASE wh.writeOffset % SectorWords # 0 \/ wh.headerOffset > wh.writeOffset
    BY <1>2 DEF WrittenOK, Flushing, Writing
<1>3. CASE ~(wh.writeOffset % SectorWords # 0 \/ wh.headerOffset > wh.writeOffset)
    <2>1. IsSectorErased(flash, wh.writeOffset)
        BY <1>1, <1>3 DEF EntersUnerased
    <2>2. SectorOf(wh.writeOffset) = wh.writeOffset
        BY <1>1, <1>3, SectorStart
    <2> QED BY <2>1, <2>2 DEF IsSectorErased, IsErased, RestErased
<1> QED BY <1>2, <1>3

\* What programming the buffer does to the words of the block.
LEMMA PageProgrammed ==
    ASSUME CopyInv, WrittenOK, Flushing, ~EntersUnerased,
           NEW n \in 0 .. Len(wh.buf), NEW ws, Len(ws) = n,
           \A i \in 1 .. n : wh.buf[i] = FF => ws[i] = FF,
           NEW a \in Addresses
    PROVE  LET f == Program(flash, wh.writeOffset, ws)
               i == a - wh.writeOffset + 1
           IN  IF i \in 1 .. n /\ a >= wh.headerOffset
               THEN flash[a] = FF /\ f[a] = ws[i]
               ELSE f[a] = flash[a]
<1> DEFINE i == a - wh.writeOffset + 1
<1>0. /\ wh.writeOffset \in Nat /\ wh.headerOffset \in Nat /\ a \in Nat
      /\ Len(wh.buf) \in Nat /\ Len(wh.buf) <= PageWords /\ PageWords \in Nat /\ SectorWords \in Nat
      /\ n \in Nat
    BY HandleNats, AddressNat DEF CopyInv
<1>1. CASE i \in 1 .. n /\ a >= wh.headerOffset
    <2>1. wh.writeOffset + PageWords <= SectorOf(wh.writeOffset) + SectorWords
          /\ SectorOf(wh.writeOffset) \in Nat
        <3>1. wh.writeOffset % PageWords = 0
            BY DEF CopyInv, AlignedOK, Flushing, Writing
        <3> QED BY <1>0, <3>1, PageInSector, SectorBounds
    <2>2. a >= wh.writeOffset /\ a < wh.writeOffset + n
        BY <1>0, <1>1
    <2>3. flash[a] = FF
        <3>1. a < SectorOf(wh.writeOffset) + SectorWords
            BY <1>0, <2>1, <2>2
        <3> QED BY <1>1, <2>2, <3>1, PageIsErased DEF RestErased
    <2>4. a < wh.writeOffset + Len(ws)
        BY <2>2
    <2>5. Program(flash, wh.writeOffset, ws)[a] = ws[i]
        BY <2>2, <2>3, <2>4 DEF Program, Burn
    <2> QED BY <1>1, <2>3, <2>5
<1>2. CASE i \in 1 .. n /\ a < wh.headerOffset
    <2>1. i \in 1 .. Len(wh.buf) /\ wh.writeOffset + i <= wh.headerOffset
        BY <1>0, <1>2
    <2>2. wh.buf[i] = FF
        <3> HIDE DEF i
        <3> QED BY <2>1 DEF CopyInv, CursorOK, Flushing, Writing
    <2>3. ws[i] = FF
        <3> HIDE DEF i
        <3> QED BY <1>2, <2>2
    <2>4. Program(flash, wh.writeOffset, ws)[a] = flash[a]
        BY <2>3 DEF Program, Burn
    <2> QED BY <1>0, <1>2, <2>4
<1>3. CASE i \notin 1 .. n
    <2>1. a < wh.writeOffset \/ a >= wh.writeOffset + n
        BY <1>0, <1>3
    <2>2. Program(flash, wh.writeOffset, ws)[a] = flash[a]
        BY <1>0, <2>1, ProgramKeeps
    <2> QED BY <1>3, <2>2
<1> QED BY <1>0, <1>1, <1>2, <1>3

\* A flush puts the words of the copy in the block.
LEMMA WrittenProgram ==
    ASSUME MaxTimeouts = 0, CopyInv, WrittenOK, FlushProgram
    PROVE  WrittenOK'
<1> DEFINE w == wh.writeOffset
           h == wh.headerOffset
           p == PageWords
<1>0. /\ w \in Nat /\ h \in Nat /\ Len(wh.buf) \in Nat /\ Len(wh.buf) <= p /\ p \in Nat \ {0}
      /\ SectorWords \in Nat \ {0} /\ MaxSize \in Nat /\ Len(job.rem) \in Nat
    BY HandleNats DEF CopyInv
<1>1. /\ pc \in {"writeFlush", "closeFlush"} /\ Flushing /\ ~EntersUnerased
      /\ flash' = Program(flash, w, wh.buf)
      /\ wh'.writeOffset = w + p /\ wh'.headerOffset = h /\ job' = job
      /\ pc' = IF pc = "writeFlush" THEN "write" ELSE AfterFlush(wh')
    BY DEF FlushProgram, Flushing
<1>2. w % p = 0 /\ DataWritten /\ RestErased
    BY <1>1, PageIsErased DEF WrittenOK, Writing, CopyInv, AlignedOK
<1>3. /\ w + p <= SectorOf(w) + SectorWords /\ (w + p) % p = 0
      /\ (w + p) % SectorWords # 0 => SectorOf(w + p) = SectorOf(w)
      /\ SectorOf(w) \in Nat
    BY <1>0, <1>2, PageInSector, SectorBounds
<1>4. EndOf' = EndOf /\ EndOf \in Nat /\ EndOf = h + HeaderWords + Len(job.data)
    BY <1>1, CopyInBlock DEF EndOf
<1>5. /\ w + Len(wh.buf) + Len(job.rem) = EndOf /\ BufOK
      /\ pc = "closeFlush" => Len(job.rem) = 0
      /\ pc = "writeFlush" => Len(wh.buf) = p
    <2>1. FitsBlock /\ pc \in Filling
        BY <1>1 DEF FlushProgram, Filling
    <2>2. job.ok = TRUE
        BY <1>0, <1>1, <2>1 DEF CopyInv, CopiedOK, Refused
    <2> QED BY <1>1, <2>1, <2>2 DEF CopyInv, CopiedOK, Whole, CursorOK
<1>6. ASSUME NEW a \in Addresses
      PROVE  IF a - w + 1 \in 1 .. Len(wh.buf) /\ a >= h
             THEN flash[a] = FF /\ flash'[a] = wh.buf[a - w + 1]
             ELSE flash'[a] = flash[a]
    <2>1. Len(wh.buf) \in 0 .. Len(wh.buf)
        BY <1>0
    <2> QED BY <1>1, <2>1, PageProgrammed
<1>7. DataWritten'
    <2> SUFFICES ASSUME NEW a \in Addresses, h <= a, a < w + p
                 PROVE  flash'[a] = IF a < EndOf THEN CopyWord(job.data, a - h + 1) ELSE FF
        BY <1>1, <1>4 DEF DataWritten
    <2>0. a \in Nat
        BY AddressNat
    <2>1. CASE a < w
        <3>1. a - w + 1 \notin 1 .. Len(wh.buf)
            BY <1>0, <2>0, <2>1
        <3>2. flash'[a] = flash[a]
            BY <1>6, <3>1
        <3> QED BY <1>2, <2>1, <3>2 DEF DataWritten
    <2>2. CASE a >= w /\ a < w + Len(wh.buf)
        <3>1. PICK i \in 1 .. Len(wh.buf) : i = a - w + 1
            <4>1. a - w + 1 \in 1 .. Len(wh.buf)
                BY <1>0, <2>0, <2>2
            <4> QED BY <4>1
        <3>2. flash'[a] = wh.buf[i]
            BY <1>6, <3>1
        <3>3. w + i > h /\ w + i - h = a - h + 1
            <4>1. \A x, y, z \in Nat : z <= x =>
                     y + (x - y + 1) > z /\ y + (x - y + 1) - z = x - z + 1
                OBVIOUS
            <4>2. w + (a - w + 1) > h /\ w + (a - w + 1) - h = a - h + 1
                BY <1>0, <2>0, <4>1
            <4> QED BY <3>1, <4>2
        <3>4. wh.buf[i] = CopyWord(job.data, w + i - h)
            BY <1>5, <3>3 DEF BufOK
        <3>5. a < EndOf
            BY <1>0, <1>5, <2>0, <2>2
        <3> QED BY <3>2, <3>3, <3>4, <3>5
    <2>3. CASE a >= w + Len(wh.buf)
        <3>1. a >= EndOf
            BY <1>0, <1>1, <1>5, <2>0, <2>3
        <3>2. a - w + 1 \notin 1 .. Len(wh.buf)
            BY <1>0, <2>0, <2>3
        <3>3. flash'[a] = flash[a]
            BY <1>6, <3>2
        <3>4. a >= w /\ a < SectorOf(w) + SectorWords
            BY SMTT(30), <1>0, <1>3, <2>0, <2>3
        <3>5. flash[a] = FF
            BY <1>2, <3>4 DEF RestErased
        <3> QED BY <1>4, <2>0, <3>1, <3>3, <3>5
    <2> QED BY <1>0, <2>0, <2>1, <2>2, <2>3
<1>8. ASSUME (w + p) % SectorWords # 0
      PROVE  RestErased'
    <2> SUFFICES ASSUME NEW a \in Addresses, a >= w + p, a >= h, a < SectorOf(w + p) + SectorWords
                 PROVE  flash'[a] = FF
        BY <1>1 DEF RestErased
    <2>0. a \in Nat
        BY AddressNat
    <2>1. a - w + 1 \notin 1 .. Len(wh.buf)
        BY <1>0, <2>0
    <2>2. flash'[a] = flash[a]
        BY <1>6, <2>1
    <2>3. a >= w /\ a < SectorOf(w) + SectorWords
        BY <1>0, <1>3, <1>8, <2>0
    <2> QED BY <1>2, <2>2, <2>3 DEF RestErased
<1>9. h <= w + p
    <2>1. h <= w + Len(wh.buf)
        BY <1>1 DEF CopyInv, CursorOK, Writing
    <2> QED BY <1>0, <2>1
<1>10. wh'.writeOffset % SectorWords # 0 \/ wh'.headerOffset > wh'.writeOffset => RestErased'
    <2>1. ~(h > w + p)
        BY <1>0, <1>9
    <2> QED BY <1>1, <1>8, <2>1
<1>11. pc' = "closeErase" => wh'.writeOffset % SectorWords = 0
    BY <1>1 DEF AfterFlush
<1>12. ASSUME pc' = "closeHeader", EndOf < MaxSize
       PROVE  flash'[EndOf] = FF
    <2>1. pc = "closeFlush" /\ EndOf <= w + p
        BY <1>0, <1>1, <1>5, <1>12
    <2>2. EndOf \in Addresses /\ EndOf >= h
        BY <1>0, <1>4, <1>12, CopyInBlock, <1>1 DEF Addresses, HeaderWords
    <2>3. CASE EndOf < w + p
        BY <1>1, <1>4, <1>7, <2>2, <2>3 DEF DataWritten
    <2>4. CASE EndOf = w + p
        <3>1. (w + p) % SectorWords # 0
            BY <1>0, <1>1, <1>12, <2>1, <2>4 DEF AfterFlush
        <3>2. SectorOf(w + p) + SectorWords > w + p
            <4>1. PICK b \in Nat : b = w + p
                BY <1>0
            <4>2. SectorOf(b) \in Nat /\ b - SectorOf(b) < SectorWords
                BY SectorBounds
            <4>3. SectorOf(b) + SectorWords > b
                BY <1>0, <4>2
            <4> QED BY <4>1, <4>3
        <3> QED BY <1>1, <1>8, <2>2, <2>4, <3>1, <3>2 DEF RestErased
    <2> QED BY <1>0, <1>4, <2>1, <2>3, <2>4
<1>13. pc' \notin Restoring
    BY <1>1 DEF AfterFlush, Restoring
<1> QED BY <1>1, <1>3, <1>4, <1>7, <1>10, <1>11, <1>12, <1>13 DEF WrittenOK, Restoring

\* Erasing the sector at the cursor leaves the copy before it.
LEMMA EraseKeepsData ==
    ASSUME CopyInv, DataWritten, flash' = EraseSector(flash, wh.writeOffset), wh' = wh, job' = job
    PROVE  DataWritten'
<1>1. wh.writeOffset \in Nat /\ EndOf' = EndOf
    BY HandleNats DEF CopyInv, EndOf
<1>2. \A a \in Addresses : a < wh.writeOffset => flash'[a] = flash[a]
    BY <1>1, EraseFrom
<1> QED BY <1>1, <1>2 DEF DataWritten

\* The other steps of a flush, and the erase of the next sector.
LEMMA WrittenErase ==
    ASSUME CopyInv, WrittenOK, FlushErase \/ CloseErase
    PROVE  WrittenOK'
<1>0. /\ wh.writeOffset \in Nat /\ wh.headerOffset \in Nat /\ MaxSize \in Nat
      /\ SectorWords \in Nat \ {0}
    BY HandleNats DEF CopyInv
<1>1. /\ pc \in Writing /\ pc' \in Writing /\ wh' = wh /\ job' = job
      /\ flash' = EraseSector(flash, wh.writeOffset) /\ EndOf' = EndOf
    BY DEF FlushErase, CloseErase, Flushing, Writing, EndOf
<1>2. DataWritten'
    BY <1>1, EraseKeepsData DEF WrittenOK
<1>3. CASE FlushErase
    <2>1. /\ ~(wh.writeOffset % SectorWords # 0 \/ wh.headerOffset > wh.writeOffset)
          /\ pc' \notin {"closeHeader", "closeErase"} \cup Restoring
        BY <1>0, <1>3 DEF FlushErase, EntersUnerased, Flushing, Restoring
    <2>2. ~(wh.writeOffset % SectorWords # 0 \/ wh.headerOffset > wh.writeOffset)'
        BY <1>1, <2>1
    <2>3. pc' # "closeHeader" /\ pc' # "closeErase" /\ pc' \notin Restoring /\ pc' # "restoreProgram"
        BY <2>1 DEF Restoring
    <2> QED BY <1>2, <2>2, <2>3 DEF WrittenOK
<1>4. CASE CloseErase
    <2>1. /\ wh.writeOffset % SectorWords = 0 /\ EndOf <= wh.writeOffset /\ pc' = "closeHeader"
          /\ pc = "closeErase"
        BY <1>4 DEF CloseErase, WrittenOK, CopyInv, CopiedOK, Whole, Refused, Closing
    <2>2. EndOf \in Nat /\ EndOf > wh.headerOffset
        BY <1>0, <2>1, CopyInBlock DEF HeaderWords
    <2>3. ~(wh.writeOffset % SectorWords # 0 \/ wh.headerOffset > wh.writeOffset)
        BY <1>0, <2>1, <2>2
    <2>4. ASSUME EndOf < MaxSize PROVE flash'[EndOf] = FF
        <3>1. EndOf \in Addresses
            BY <1>0, <2>2, <2>4 DEF Addresses
        <3>2. CASE EndOf < wh.writeOffset
            <4>1. wh'.headerOffset <= EndOf /\ EndOf < wh'.writeOffset /\ ~(EndOf < EndOf')
                BY <1>0, <1>1, <2>2, <3>2
            <4> QED BY <1>2, <3>1, <4>1 DEF DataWritten
        <3>3. CASE EndOf = wh.writeOffset
            <4>1. SectorOf(wh.writeOffset) = wh.writeOffset
                BY <1>0, <2>1, SectorStart
            <4> QED BY <1>1, <3>1, <3>3, <4>1 DEF EraseSector
        <3> QED BY <1>0, <2>1, <2>2, <3>2, <3>3
    <2> QED BY <1>1, <1>2, <2>1, <2>3, <2>4 DEF WrittenOK, Restoring
<1> QED BY <1>3, <1>4

\* The block holds the part of the copy that has been flushed.
LEMMA WrittenStep ==
    ASSUME MaxTimeouts = 0, CopyInv, WrittenOK, [Next]_vars
    PROVE  WrittenOK'
<1>0. ~TimesOut /\ ~FlushTimeout
    BY NothingFails DEF CopyInv
<1>1. CASE Save \/ RestoreErase \/ RestoreEraseTimeout \/ RestoreProgram
    <2>1. wh.headerOffset \in Addresses \/ pc \notin Restoring
        BY CopyInBlock DEF Restoring
    <2> QED BY <1>1, <2>1, WrittenOpen
<1>2. CASE WriteFile
    <2>1. /\ pc = "write" /\ pc' \in {"closeFlush", "writeFlush"} /\ flash' = flash
          /\ wh'.writeOffset = wh.writeOffset /\ wh'.headerOffset = wh.headerOffset
          /\ job'.data = job.data
        <3>1. PICK n \in Nat : /\ wh'.writeOffset = wh.writeOffset
                               /\ wh'.headerOffset = wh.headerOffset
                               /\ job'.data = job.data
            BY <1>2, CopyMoves DEF CopyInv
        <3> QED BY <1>2, <3>1 DEF WriteFile
    <2>2. EndOf' = EndOf
        BY <2>1 DEF EndOf
    <2>3. (DataWritten' <=> DataWritten) /\ (RestErased' <=> RestErased)
        BY <2>1, <2>2 DEF DataWritten, RestErased
    <2>4. /\ DataWritten'
          /\ wh'.writeOffset % SectorWords # 0 \/ wh'.headerOffset > wh'.writeOffset => RestErased'
        BY <2>1, <2>3 DEF WrittenOK, Writing
    <2> QED BY <2>1, <2>4 DEF WrittenOK, Restoring
<1>3. CASE FlushErase \/ CloseErase
    BY <1>3, WrittenErase
<1>4. CASE FlushProgram
    BY <1>4, WrittenProgram
<1>5. CASE FlushOverLimit
    <2>1. /\ flash' = flash /\ wh' = wh /\ job'.data = job.data
          /\ pc \in Writing /\ pc' \in {"closeFlush", "closeHeader"}
          /\ EndOf > MaxSize
        BY <1>5, FlushRefused DEF Writing
    <2>2. EndOf' = EndOf
        BY <2>1 DEF EndOf
    <2>3. ~(EndOf' < MaxSize)
        <3>1. EndOf \in Nat /\ MaxSize \in Nat
            BY <2>1, CopyInBlock DEF Writing
        <3> QED BY <2>1, <2>2, <3>1
    <2>4. (DataWritten' <=> DataWritten) /\ (RestErased' <=> RestErased)
        BY <2>1, <2>2 DEF DataWritten, RestErased
    <2> QED BY <2>1, <2>3, <2>4 DEF WrittenOK, Restoring
<1>6. CASE FlushTimeout \/ CloseEraseTimeout
    BY <1>0, <1>6 DEF CloseEraseTimeout
<1>7. CASE CloseHeader \/ CloseHeaderTimeout \/ Remove \/ Crash
    <2>1. pc' = "idle"
        BY <1>7 DEF CloseHeader, CloseHeaderTimeout, EndSave, Remove, Crash, CrashBetween,
                    CrashInErase, CrashInProgram, Restart
    <2> QED BY <2>1 DEF WrittenOK, Writing, Restoring
<1>8. CASE UNCHANGED vars
    BY <1>8 DEF vars, WrittenOK, DataWritten, RestErased, EndOf
<1> QED BY <1>1, <1>2, <1>3, <1>4, <1>5, <1>6, <1>7, <1>8 DEF Next, Step

-----------------------------------------------------------------------------
\* The block once the RAM copy of a dirty sector is put back.
PutBack == Program(flash, SectorOf(wh.headerOffset), rescue)

\* The sizes and CRCs in the block were written by saves; the RAM copy of a dirty
\* sector, put back, leaves it so.
SoundOK ==
    /\ Sound(flash)
    /\ pc = "restoreErase" => rescue = Preserved(flash, wh.headerOffset)
    /\ pc = "restoreProgram" => Sound(PutBack)

\* Words that are neither a size nor a CRC.
Plain(w) == w[1] # "size" /\ w[1] # "crc"

LEMMA PlainWords == Plain(FF) /\ Plain(Torn) /\ \A w \in BufferWord : Plain(w)
BY DEF Plain, FF, Torn, BufferWord, DataWord

\* Each word of g is that of f, or plain, or a size larger than that in f.
Weaker(g, f) == \A a \in Addresses :
    \/ g[a] = f[a]
    \/ Plain(g[a])
    \/ /\ f[a][1] = "size" /\ g[a][1] = "size"
       /\ f[a][2] \in Nat => g[a][2] \in Nat /\ g[a][2] >= f[a][2]

\* Such words keep a block sound: a larger size fits where the smaller one did, or
\* not at all.
LEMMA WeakerSound ==
    ASSUME NEW f, Sound(f), NEW g, Weaker(g, f)
    PROVE  Sound(g)
<1> SUFFICES ASSUME NEW a \in Addresses, g[a][1] = "size"
             PROVE  /\ g[a][2] \in Nat
                    /\ HeaderFits(g, a) /\ g[a + 1][1] = "crc" => g[a + 1][2] \in Contents
    BY DEF Sound
<1>0. a \in Nat /\ MaxSize \in Nat
    BY AddressNat, FlashAssumption
<1>1. f[a][1] = "size" /\ f[a][2] \in Nat /\ g[a][2] \in Nat /\ g[a][2] >= f[a][2]
    BY DEF Weaker, Plain, Sound
<1>2. ASSUME HeaderFits(g, a), g[a + 1][1] = "crc" PROVE g[a + 1][2] \in Contents
    <2>1. a + 2 + g[a][2] <= MaxSize
        BY <1>2 DEF HeaderFits, SizeAt, HeaderWords
    <2>2. HeaderFits(f, a)
        BY <1>0, <1>1, <2>1 DEF HeaderFits, SizeAt, HeaderWords
    <2>3. a + 1 \in Addresses
        BY <1>0, <1>1, <2>1 DEF Addresses
    <2>4. g[a + 1] = f[a + 1]
        BY <1>2, <2>3 DEF Weaker, Plain
    <2> QED BY <1>1, <1>2, <2>2, <2>4 DEF Sound
<1> QED BY <1>1, <1>2

\* Programming plain words leaves weaker words.
LEMMA ProgramWeaker ==
    ASSUME NEW f, NEW at \in Nat, NEW ws, Len(ws) \in Nat,
           \A i \in 1 .. Len(ws) : Plain(ws[i])
    PROVE  Weaker(Program(f, at, ws), f)
<1> SUFFICES ASSUME NEW a \in Addresses
             PROVE  Program(f, at, ws)[a] = f[a] \/ Plain(Program(f, at, ws)[a])
    BY DEF Weaker
<1>1. a \in Nat
    BY AddressNat
<1>2. CASE a >= at /\ a < at + Len(ws)
    <2>1. a - at + 1 \in 1 .. Len(ws)
        BY <1>1, <1>2
    <2>2. Plain(ws[a - at + 1])
        BY <2>1
    <2>3. Program(f, at, ws)[a] \in {f[a], ws[a - at + 1], Torn}
        BY <1>2 DEF Program, Burn
    <2> QED BY <2>2, <2>3, PlainWords
<1>3. CASE ~(a >= at /\ a < at + Len(ws))
    BY <1>1, <1>3 DEF Program
<1> QED BY <1>2, <1>3

\* So does erasing a sector.
LEMMA EraseSound ==
    ASSUME NEW f, Sound(f), NEW s PROVE Sound(EraseSector(f, s))
<1>1. Weaker(EraseSector(f, s), f)
    BY PlainWords DEF Weaker, EraseSector
<1> QED BY <1>1, WeakerSound

\* A header, or its first word, written over erased words: the CRC of a stream that
\* fits in the block is that of something that was saved.
LEMMA HeaderSound ==
    ASSUME NEW f, Sound(f), NEW h \in Addresses, h + 1 \in Addresses,
           f[h] = FF, f[h + 1] = FF,
           NEW ws, Len(ws) \in {1, 2}, NEW n \in Nat, ws[1] = SizeWord(n),
           Len(ws) = 2 =>
              /\ ws[2][1] # "size"
              /\ h + HeaderWords + n <= MaxSize /\ ws[2][1] = "crc" => ws[2][2] \in Contents
    PROVE  Sound(Program(f, h, ws))
<1>1. PICK g : g = Program(f, h, ws)
    OBVIOUS
<1>2. h \in Nat /\ MaxSize \in Nat /\ (Len(ws) = 1 \/ Len(ws) = 2)
    BY AddressNat, FlashAssumption
<1>3. g[h] = SizeWord(n)
    <2>1. h - h + 1 = 1 /\ h >= h /\ h < h + Len(ws)
        BY <1>2
    <2>2. g[h] = ws[h - h + 1]
        BY <1>1, <1>2, <2>1, ProgramSets
    <2> QED BY <2>1, <2>2
<1>4. IF Len(ws) = 2 THEN g[h + 1] = ws[2] ELSE g[h + 1] = FF
    <2>1. PICK b \in Addresses : b = h + 1
        OBVIOUS
    <2>2. b - h + 1 = 2 /\ b >= h /\ b \in Nat
        BY <1>2, <2>1
    <2>3. CASE Len(ws) = 2
        <3>1. b < h + Len(ws)
            BY <1>2, <2>1, <2>3
        <3>2. g[b] = ws[b - h + 1]
            BY <1>1, <1>2, <2>1, <2>2, <3>1, ProgramSets
        <3> QED BY <2>1, <2>2, <2>3, <3>2
    <2>4. CASE Len(ws) = 1
        <3>1. ~(b < h + Len(ws))
            BY <1>2, <2>1, <2>4
        <3>2. g[b] = f[b]
            BY <1>1, <3>1 DEF Program
        <3> QED BY <2>1, <2>4, <3>2
    <2> QED BY <1>2, <2>3, <2>4
<1>5. ASSUME NEW a \in Addresses, a # h, a # h + 1 PROVE g[a] = f[a]
    <2>1. a \in Nat
        BY AddressNat
    <2>2. CASE Len(ws) = 1
        <3>1. ~(a >= h /\ a < h + Len(ws))
            BY <1>2, <1>5, <2>1, <2>2
        <3> QED BY <1>1, <3>1 DEF Program
    <2>3. CASE Len(ws) = 2
        <3>1. ~(a >= h /\ a < h + Len(ws))
            BY <1>2, <1>5, <2>1, <2>3
        <3> QED BY <1>1, <3>1 DEF Program
    <2> QED BY <1>2, <2>2, <2>3
<1> SUFFICES ASSUME NEW a \in Addresses, g[a][1] = "size"
             PROVE  /\ g[a][2] \in Nat
                    /\ HeaderFits(g, a) /\ g[a + 1][1] = "crc" => g[a + 1][2] \in Contents
    BY <1>1 DEF Sound
<1>6. a \in Nat
    BY AddressNat
<1>7. CASE a = h
    <2>1. g[a][2] = n
        BY <1>3, <1>7 DEF SizeWord
    <2>2. HeaderFits(g, a) => h + HeaderWords + n <= MaxSize
        BY <1>7, <2>1 DEF HeaderFits, SizeAt
    <2>3. FF[1] # "crc"
        BY DEF FF
    <2> QED BY <1>4, <1>7, <2>1, <2>2, <2>3
<1>8. CASE a = h + 1
    BY <1>4, <1>8 DEF FF
<1>9. CASE a # h /\ a # h + 1
    <2>1. g[a] = f[a]
        BY <1>5, <1>9
    <2>2. ASSUME HeaderFits(g, a), g[a + 1][1] = "crc" PROVE g[a + 1][2] \in Contents
        <3>1. HeaderFits(f, a) /\ g[a][2] \in Nat /\ a + 2 + g[a][2] <= MaxSize
            BY <2>1, <2>2 DEF Sound, HeaderFits, SizeAt, HeaderWords
        <3>2. PICK b \in Addresses : b = a + 1
            BY <1>2, <1>6, <3>1 DEF Addresses
        <3>3. b # h
            BY <1>3, <2>2, <3>2 DEF SizeWord
        <3>4. b # h + 1
            BY <1>2, <1>6, <1>9, <3>2
        <3>5. g[b] = f[b]
            BY <1>5, <3>3, <3>4
        <3> QED BY <2>1, <2>2, <3>1, <3>2, <3>5 DEF Sound
    <2> QED BY <2>1, <2>2 DEF Sound
<1> QED BY <1>7, <1>8, <1>9

\* The words of a dirty sector before h, put back into the erased sector: those before
\* h are as they were, the others as they were or erased.
LEMMA PutBackWords ==
    ASSUME NEW f, NEW h \in Addresses, NEW a \in Addresses
    PROVE  LET s == SectorOf(h)
               g == Program(EraseSector(f, s), s, Preserved(f, h))
           IN  IF a < h THEN g[a] = f[a] ELSE g[a] \in {FF, f[a]}
<1>1. h \in Nat /\ a \in Nat
    BY AddressNat
<1>2. PICK s \in Nat : s = SectorOf(h) /\ s % SectorWords = 0 /\ s <= h /\ h - s < SectorWords
    BY <1>1, SectorAligned, SectorBounds
<1>3. PICK ws : ws = Preserved(f, h)
    OBVIOUS
<1>4. /\ Len(ws) = h - s /\ \A i \in 1 .. h - s : ws[i] = f[s + i - 1]
    BY <1>1, <1>2, <1>3 DEF Preserved
<1>5. PICK e : e = EraseSector(f, s)
    OBVIOUS
<1>6. PICK g : g = Program(e, s, ws)
    OBVIOUS
<1> SUFFICES IF a < h THEN g[a] = f[a] ELSE g[a] \in {FF, f[a]}
    BY <1>2, <1>3, <1>5, <1>6
<1>7. SectorWords \in Nat \ {0}
    BY FlashAssumption
<1>8. CASE a < s
    <2>1. e[a] = f[a]
        BY <1>5, <1>8, EraseFrom
    <2>2. g[a] = e[a]
        BY <1>1, <1>2, <1>6, <1>8 DEF Program
    <2> QED BY <1>1, <1>2, <1>8, <2>1, <2>2
<1>9. CASE ~(a < s) /\ a < h
    <2>1. SectorOf(a) = s
        BY <1>1, <1>2, <1>7, <1>9, SectorStart
    <2>2. e[a] = FF
        BY <1>5, <2>1 DEF EraseSector
    <2>3. a >= s /\ a < s + Len(ws) /\ a - s + 1 \in 1 .. h - s /\ s + (a - s + 1) - 1 = a
        BY <1>1, <1>2, <1>4, <1>9
    <2>4. g[a] = ws[a - s + 1]
        BY <1>6, <2>2, <2>3, ProgramSets
    <2>5. ws[a - s + 1] = f[a]
        BY <1>4, <2>3
    <2> QED BY <1>9, <2>4, <2>5
<1>10. CASE ~(a < h)
    <2>1. e[a] \in {FF, f[a]}
        BY <1>5 DEF EraseSector
    <2>2. ~ a < s + Len(ws)
        BY <1>1, <1>2, <1>4, <1>10
    <2>3. g[a] = e[a]
        BY <1>6, <2>2 DEF Program
    <2> QED BY <1>10, <2>1, <2>3
<1> QED BY <1>8, <1>9, <1>10

\* When the header is about to be written its words are erased.
LEMMA HeaderIsErased ==
    ASSUME CopyInv, WrittenOK, pc \in Closing
    PROVE  flash[wh.headerOffset] = FF /\ flash[wh.headerOffset + 1] = FF
<1> DEFINE h == wh.headerOffset
<1>0. pc \in Writing /\ DataWritten /\ wh.writeOffset \in Nat
    BY HandleNats DEF CopyInv, WrittenOK, Closing, Writing
<1>1. /\ h \in Addresses /\ h \in Nat /\ h + 1 \in Addresses /\ h + HeaderWords < MaxSize
      /\ MaxSize \in Nat /\ EndOf \in Nat /\ EndOf >= h + HeaderWords + 1
    BY CopyInBlock DEF Closing
<1>2. h + 1 < wh.writeOffset
    <2>1. CASE job.ok = TRUE
        <3>1. EndOf <= wh.writeOffset
            BY <2>1 DEF CopyInv, CopiedOK, Whole, Closing
        <3> QED BY <1>0, <1>1, <3>1 DEF HeaderWords
    <2>2. CASE job.ok # TRUE
        <3>1. wh.writeOffset >= MaxSize
            BY <2>2 DEF CopyInv, CopiedOK, Refused, Closing
        <3> QED BY <1>0, <1>1, <3>1 DEF HeaderWords
    <2> QED BY <2>1, <2>2
<1>3. ASSUME NEW a \in Addresses, a \in {h, h + 1} PROVE flash[a] = FF
    <2>1. a >= h /\ a < EndOf /\ a < wh.writeOffset /\ a - h + 1 <= HeaderWords /\ h <= a
        BY <1>0, <1>1, <1>2, <1>3 DEF HeaderWords
    <2>2. flash[a] = CopyWord(job.data, a - h + 1)
        BY <1>0, <2>1 DEF DataWritten
    <2> QED BY <2>1, <2>2 DEF CopyWord
<1> QED BY <1>1, <1>3

\* The stream of the copy that was written is the data to be saved.
LEMMA StreamIsData ==
    ASSUME CopyInv, WrittenOK, pc \in Closing, job.ok = TRUE
    PROVE  /\ Stream(flash, wh.headerOffset, Len(job.data)) = job.data
           /\ NewHeader(flash) = <<SizeWord(Len(job.data)), CrcOf(job.data)>>
           /\ \A i \in 1 .. Len(job.data) :
                 flash[wh.headerOffset + HeaderWords + i - 1] = job.data[i]
<1> DEFINE h == wh.headerOffset
           d == job.data
<1>0. /\ pc \in Writing /\ DataWritten /\ streamSize = Len(d) /\ EndOf <= wh.writeOffset
      /\ EndOf <= MaxSize /\ wh.writeOffset \in Nat /\ MaxSize \in Nat
    BY HandleNats DEF CopyInv, WrittenOK, CopiedOK, Whole, Closing, Writing
<1>1. /\ h \in Addresses /\ h \in Nat /\ EndOf \in Nat
      /\ EndOf = h + 2 + Len(d) /\ d \in Contents /\ Len(d) \in Nat
    BY CopyInBlock DEF Closing, HeaderWords
<1>2. d = [i \in 1 .. Len(d) |-> d[i]] /\ Len(d) > 0
    BY SMTT(30), <1>1, ContentFacts
<1>3. ASSUME NEW j \in 1 .. 2 + Len(d)
      PROVE  h + j - 1 \in Addresses /\ flash[h + j - 1] = CopyWord(d, j)
    <2>1. /\ h + j - 1 \in Addresses /\ h + j - 1 >= h /\ h + j - 1 < EndOf
          /\ h + j - 1 < wh.writeOffset /\ (h + j - 1) - h + 1 = j
        <3> HIDE DEF h, d
        <3> QED BY <1>0, <1>1 DEF Addresses
    <2>2. flash[h + j - 1] = CopyWord(d, (h + j - 1) - h + 1)
        BY <1>0, <2>1 DEF DataWritten
    <2> QED BY <2>1, <2>2
<1>5. ASSUME NEW i \in 1 .. Len(d)
      PROVE  h + 2 + i - 1 \in Addresses /\ flash[h + 2 + i - 1] = d[i]
    <2>1. 2 + i \in 1 .. 2 + Len(d) /\ h + (2 + i) - 1 = h + 2 + i - 1 /\ ~(2 + i <= 2)
          /\ (2 + i) - 2 = i
        BY SMTT(30), <1>1
    <2>2. h + (2 + i) - 1 \in Addresses /\ flash[h + (2 + i) - 1] = CopyWord(d, 2 + i)
        BY <1>3, <2>1
    <2>3. CopyWord(d, 2 + i) = d[i]
        BY <2>1 DEF CopyWord, HeaderWords
    <2> QED BY <2>1, <2>2, <2>3
<1>6. Stream(flash, h, Len(d)) = d
    <2>1. \A i \in 1 .. Len(d) : WordAt(flash, h + 2 + i - 1) = d[i]
        BY <1>5 DEF WordAt
    <2>2. Stream(flash, h, Len(d)) = [i \in 1 .. Len(d) |-> d[i]]
        BY <2>1 DEF Stream, HeaderWords
    <2> QED BY <1>2, <2>2
<1>7. NewHeader(flash) = <<SizeWord(Len(d)), CrcOf(d)>>
    BY <1>0, <1>6 DEF NewHeader
<1>8. \A i \in 1 .. Len(d) : flash[h + HeaderWords + i - 1] = d[i]
    BY <1>5 DEF HeaderWords
<1> QED BY <1>6, <1>7, <1>8

\* The header that CloseWrite programs: the size of the stream, and the CRC of the data
\* if the stream fits in the block.
LEMMA HeaderWritten ==
    ASSUME CopyInv, WrittenOK, pc = "closeHeader"
    PROVE  \E crc :
             /\ NewHeader(flash) = <<SizeWord(streamSize), CrcOf(crc)>>
             /\ streamSize \in Nat
             /\ wh.headerOffset + HeaderWords + streamSize <= MaxSize => crc \in Contents
<1>0. pc \in Closing /\ pc # "idle"
    BY DEF Closing
<1>1. /\ wh.headerOffset \in Nat /\ wh.headerOffset + HeaderWords < MaxSize /\ MaxSize \in Nat
      /\ job.data \in Contents /\ Len(job.data) \in Nat
    BY <1>0, CopyInBlock
<1>2. streamSize \in Int
    BY DEF CopyInv, TypeOK
<1>3. NewHeader(flash) = <<SizeWord(streamSize), CrcOf(Stream(flash, wh.headerOffset, streamSize))>>
    BY DEF NewHeader
<1>4. CASE job.ok = TRUE
    <2>1. streamSize = Len(job.data) /\ Stream(flash, wh.headerOffset, Len(job.data)) = job.data
        BY <1>0, <1>4, StreamIsData DEF CopyInv, CopiedOK, Whole
    <2> QED BY <1>1, <1>3, <2>1
<1>5. CASE job.ok # TRUE
    <2>1. wh.headerOffset + HeaderWords + streamSize > MaxSize
        BY <1>0, <1>5 DEF CopyInv, CopiedOK, Refused
    <2>2. streamSize \in Nat
        BY <1>1, <1>2, <2>1 DEF HeaderWords
    <2>3. ~(wh.headerOffset + HeaderWords + streamSize <= MaxSize)
        BY <1>1, <1>2, <2>1 DEF HeaderWords
    <2> QED BY <1>3, <2>2, <2>3
<1> QED BY <1>4, <1>5

\* Programming it, or its beginning with a word cut off, leaves the block sound.
LEMMA CutHeaderSound ==
    ASSUME CopyInv, WrittenOK, SoundOK, pc = "closeHeader",
           NEW k \in {1, 2}, NEW w, w \in TornWords(NewHeader(flash)[k]) \cup {NewHeader(flash)[k]},
           NEW ws, Len(ws) = k,
           \A i \in 1 .. k : ws[i] = IF i = k THEN w ELSE NewHeader(flash)[i]
    PROVE  Sound(Program(flash, wh.headerOffset, ws))
<1>1. PICK crc :
         /\ NewHeader(flash) = <<SizeWord(streamSize), CrcOf(crc)>>
         /\ streamSize \in Nat
         /\ wh.headerOffset + HeaderWords + streamSize <= MaxSize => crc \in Contents
    BY HeaderWritten
<1>2. /\ wh.headerOffset \in Addresses /\ wh.headerOffset + 1 \in Addresses
      /\ flash[wh.headerOffset] = FF /\ flash[wh.headerOffset + 1] = FF
    BY CopyInBlock, HeaderIsErased DEF Closing
<1>3. NewHeader(flash)[1] = SizeWord(streamSize) /\ NewHeader(flash)[2] = CrcOf(crc)
    BY <1>1
<1>4. CASE k = 1
    <2>1. ws[1] = w /\ Len(ws) = 1
        BY <1>4
    <2>2. PICK n \in Nat : w = SizeWord(n)
        <3>1. CASE w = SizeWord(streamSize)
            BY <1>1, <3>1
        <3>2. CASE w # SizeWord(streamSize)
            <4>1. w \in TornWords(SizeWord(streamSize))
                BY <1>3, <1>4, <3>2
            <4>2. PICK n \in streamSize + 1 .. MaxSize : w = SizeWord(n)
                BY <4>1 DEF TornWords, SizeWord
            <4>3. n \in Nat
                BY <1>1, <4>2, FlashAssumption
            <4> QED BY <4>2, <4>3
        <3> QED BY <3>1, <3>2
    <2> QED BY <1>2, <2>1, <2>2, HeaderSound DEF SoundOK
<1>5. CASE k = 2
    <2>1. ws[1] = SizeWord(streamSize) /\ ws[2] = w /\ Len(ws) = 2
        BY <1>3, <1>5
    <2>2. w \in {Torn, CrcOf(crc)}
        BY <1>3, <1>5 DEF TornWords, CrcOf, FF
    <2>3. /\ w[1] # "size"
          /\ wh.headerOffset + HeaderWords + streamSize <= MaxSize /\ w[1] = "crc" => w[2] \in Contents
        BY <1>1, <2>2 DEF Torn, CrcOf
    <2> QED BY <1>1, <1>2, <2>1, <2>3, HeaderSound DEF SoundOK
<1> QED BY <1>4, <1>5

\* A word whose programming was cut off is plain if the word was.
LEMMA TornPlain ==
    ASSUME NEW v, Plain(v), NEW w \in TornWords(v)
    PROVE  Plain(w)
BY PlainWords DEF TornWords, Plain

\* Part of the RAM copy of a dirty sector, with the last word cut off.
LEMMA CutPutBackSound ==
    ASSUME CopyInv, WrittenOK, SoundOK, pc = "restoreProgram",
           NEW k \in 1 .. Len(rescue), NEW w \in TornWords(rescue[k]),
           NEW ws, Len(ws) = k,
           \A i \in 1 .. k : ws[i] = IF i = k THEN w ELSE rescue[i]
    PROVE  Sound(Program(flash, SectorOf(wh.headerOffset), ws))
<1>1. PICK h : h = wh.headerOffset
    OBVIOUS
<1>2. h \in Nat /\ SectorOf(h) \in Nat /\ SectorOf(h) <= h /\ h - SectorOf(h) < SectorWords
    BY <1>1, HandleNats, SectorBounds DEF CopyInv
<1>3. PICK s \in Nat : s = SectorOf(h)
    BY <1>2
<1>4. /\ Len(rescue) = h - s /\ SectorWords \in Nat
      /\ \A a \in Addresses : a >= s /\ a < s + SectorWords => flash[a] = FF
    BY <1>1, <1>3, FlashAssumption DEF WrittenOK, Restoring, IsSectorErased, IsErased
<1>5. PutBack = Program(flash, s, rescue) /\ Sound(PutBack)
    BY <1>1, <1>3 DEF SoundOK, PutBack
<1>6. PICK f, g : f = PutBack /\ g = Program(flash, s, ws)
    OBVIOUS
<1>7. Weaker(g, f)
    <2> SUFFICES ASSUME NEW a \in Addresses
                 PROVE  \/ g[a] = f[a]
                        \/ Plain(g[a])
                        \/ /\ f[a][1] = "size" /\ g[a][1] = "size"
                           /\ f[a][2] \in Nat => g[a][2] \in Nat /\ g[a][2] >= f[a][2]
        BY DEF Weaker
    <2>1. a \in Nat
        BY AddressNat
    <2>2. CASE a >= s /\ a < s + k
        <3>1. PICK i \in 1 .. k : i = a - s + 1
            <4>1. a - s + 1 \in 1 .. k
                BY <2>1, <2>2
            <4> QED BY <4>1
        <3>2. /\ a < s + Len(rescue) /\ a < s + SectorWords
            BY <1>2, <1>3, <1>4, <2>1, <2>2
        <3>3. flash[a] = FF
            BY <1>4, <2>2, <3>2
        <3>4. f[a] = rescue[i]
            BY <1>5, <1>6, <2>2, <3>1, <3>2, <3>3, ProgramSets
        <3>5. g[a] = ws[i]
            <4>1. a < s + Len(ws)
                BY <2>2
            <4>2. g[a] = ws[a - s + 1]
                BY <1>6, <2>2, <3>3, <4>1, ProgramSets
            <4> QED BY <3>1, <4>2
        <3>6. CASE i # k
            BY <3>4, <3>5, <3>6
        <3>7. CASE i = k
            <4>1. g[a] \in TornWords(f[a])
                BY <3>4, <3>5, <3>7
            <4>2. CASE f[a][1] = "size"
                <5>1. PICK n \in f[a][2] + 1 .. MaxSize : g[a] = SizeWord(n)
                    BY <4>1, <4>2 DEF TornWords
                <5>2. f[a][2] \in Nat => n \in Nat /\ n >= f[a][2]
                    BY <5>1, FlashAssumption
                <5> QED BY <4>2, <5>1, <5>2 DEF SizeWord
            <4>3. CASE f[a][1] # "size"
                BY <4>1, <4>3, PlainWords DEF TornWords
            <4> QED BY <4>2, <4>3
        <3> QED BY <3>6, <3>7
    <2>3. CASE ~(a >= s /\ a < s + k)
        <3>1. g[a] = flash[a]
            BY <1>6, <2>3 DEF Program
        <3>2. CASE a >= s /\ a < s + SectorWords
            BY <1>4, <3>1, <3>2, PlainWords
        <3>3. CASE ~(a >= s /\ a < s + SectorWords)
            <4>1. ~(a >= s /\ a < s + Len(rescue))
                BY <1>2, <1>3, <1>4, <2>1, <3>3
            <4>2. f[a] = flash[a]
                BY <1>5, <1>6, <4>1 DEF Program
            <4> QED BY <3>1, <4>2
        <3> QED BY <3>2, <3>3
    <2> QED BY <2>2, <2>3
<1> QED BY <1>1, <1>3, <1>5, <1>6, <1>7, WeakerSound

\* A program operation cut off in the middle leaves a sound block.
LEMMA CutProgramSound ==
    ASSUME CopyInv, WrittenOK, SoundOK, CrashInProgram
    PROVE  Sound(flash')
<1>1. PICK op \in ProgrammedNow : \E k \in 1 .. Len(op[2]) : \E w \in TornWords(op[2][k]) :
         LET f == Program(flash, op[1], SubSeq(op[2], 1, k - 1) \o <<w>>)
         IN  Restart(f, Owed(f))
    BY DEF CrashInProgram
<1>2. PICK pg : pg = op[2]
    OBVIOUS
<1>3. pg = [i \in 1 .. Len(pg) |-> pg[i]] /\ Len(pg) \in Nat
    BY <1>2, ProgrammedTypes DEF CopyInv
<1>4. PICK k \in 1 .. Len(pg) : \E w \in TornWords(pg[k]) :
         LET f == Program(flash, op[1], SubSeq(pg, 1, k - 1) \o <<w>>)
         IN  Restart(f, Owed(f))
    BY <1>1, <1>2
<1>5. PICK w \in TornWords(pg[k]) :
         LET f == Program(flash, op[1], SubSeq(pg, 1, k - 1) \o <<w>>)
         IN  Restart(f, Owed(f))
    BY <1>4
<1>6. PICK ws : ws = SubSeq(pg, 1, k - 1) \o <<w>>
    OBVIOUS
<1>7. flash' = Program(flash, op[1], ws)
    BY <1>5, <1>6 DEF Restart
<1>8. Len(ws) = k /\ \A i \in 1 .. k : ws[i] = IF i = k THEN w ELSE pg[i]
    <2>1. /\ Len(SubSeq(pg, 1, k - 1) \o <<w>>) = k
          /\ \A i \in 1 .. k : (SubSeq(pg, 1, k - 1) \o <<w>>)[i] = IF i = k THEN w ELSE pg[i]
        BY <1>3, TornPage
    <2> QED BY <1>6, <2>1
<1>9. k \in Nat /\ k >= 1 /\ k <= Len(pg) /\ Len(pg) \in Nat /\ w \in TornWords(pg[k])
    BY <1>3, <1>4, <1>5
<1>10. CASE pc = "restoreProgram"
    <2>1. op[1] = SectorOf(wh.headerOffset) /\ pg = rescue
        BY <1>2, <1>10 DEF ProgrammedNow, Flushing
    <2>2. k \in 1 .. Len(rescue) /\ w \in TornWords(rescue[k])
        BY <1>9, <2>1
    <2>3. \A i \in 1 .. k : ws[i] = IF i = k THEN w ELSE rescue[i]
        BY <1>8, <2>1
    <2>4. Sound(Program(flash, SectorOf(wh.headerOffset), ws))
        BY <1>8, <1>10, <2>2, <2>3, CutPutBackSound
    <2> QED BY <1>7, <2>1, <2>4
<1>11. CASE Flushing
    <2>1. op[1] = wh.writeOffset /\ pg = wh.buf
        BY <1>2, <1>11 DEF ProgrammedNow, Flushing
    <2>2. wh.writeOffset \in Nat /\ \A i \in 1 .. Len(wh.buf) : wh.buf[i] \in BufferWord
        BY HandleNats DEF CopyInv
    <2>3. \A i \in 1 .. Len(pg) : Plain(pg[i])
        BY <2>1, <2>2, PlainWords
    <2>4. \A i \in 1 .. Len(ws) : Plain(ws[i])
        <3>1. Plain(w)
            BY <1>9, <2>3, TornPlain
        <3> QED BY <1>8, <1>9, <2>3, <3>1
    <2>5. Len(ws) \in Nat /\ op[1] \in Nat
        BY <1>8, <1>9, <2>1, <2>2
    <2>6. Weaker(flash', flash)
        BY <1>7, <2>4, <2>5, ProgramWeaker
    <2> QED BY <2>6, WeakerSound DEF SoundOK
<1>12. CASE pc = "closeHeader"
    <2>1. op[1] = wh.headerOffset /\ pg = NewHeader(flash)
        BY <1>2, <1>12 DEF ProgrammedNow, Flushing
    <2>2. Len(pg) = 2
        BY <2>1 DEF NewHeader
    <2>3. k \in {1, 2}
        BY <1>9, <2>2
    <2> QED BY <1>7, <1>8, <1>9, <1>12, <2>1, <2>3, CutHeaderSound
<1> QED BY <1>1, <1>10, <1>11, <1>12 DEF ProgrammedNow

\* The program never leaves a CRC behind a size that fits in the block but that of
\* something saved.
LEMMA SoundStep ==
    ASSUME MaxTimeouts = 0, CopyInv, WrittenOK, SoundOK, [Next]_vars
    PROVE  SoundOK'
<1>0. ~TimesOut /\ ~FlushTimeout /\ Sound(flash)
    BY NothingFails DEF CopyInv, SoundOK
<1>1. CASE Save
    <2>1. PICK data \in Contents : SaveAppend(data) \/ SaveDirty(data) \/ SaveFromStart(data)
        BY <1>1 DEF Save
    <2>2. flash' = flash
        BY <2>1 DEF SaveAppend, SaveDirty, SaveFromStart, StartSave
    <2>3. CASE SaveDirty(data)
        <3>1. PICK h \in Addresses : /\ rescue' = Preserved(flash, h) /\ pc' = "restoreErase"
                                     /\ wh' = [NoHandle EXCEPT !.headerOffset = h]
            BY <2>3 DEF SaveDirty
        <3>2. wh'.headerOffset = h
            BY <3>1 DEF NoHandle
        <3> QED BY <1>0, <2>2, <3>1, <3>2 DEF SoundOK
    <2>4. CASE SaveAppend(data) \/ SaveFromStart(data)
        <3>1. pc' = "write"
            BY <2>4 DEF SaveAppend, SaveFromStart
        <3> QED BY <1>0, <2>2, <3>1 DEF SoundOK
    <2> QED BY <2>1, <2>3, <2>4
<1>2. CASE RestoreErase
    <2>1. /\ pc = "restoreErase" /\ pc' = "restoreProgram" /\ wh' = wh /\ rescue' = rescue
          /\ flash' = EraseSector(flash, SectorOf(wh.headerOffset))
        BY <1>2 DEF RestoreErase
    <2>2. rescue = Preserved(flash, wh.headerOffset) /\ wh.headerOffset \in Addresses
        BY <2>1, CopyInBlock DEF SoundOK
    <2>3. PICK h \in Addresses : h = wh.headerOffset
        BY <2>2
    <2>4. PutBack' = Program(EraseSector(flash, SectorOf(h)), SectorOf(h), Preserved(flash, h))
        BY <2>1, <2>2, <2>3 DEF PutBack
    <2>5. PICK g : g = PutBack'
        OBVIOUS
    <2>6. ASSUME NEW a \in Addresses PROVE g[a] \in {FF, flash[a]}
        BY <2>4, <2>5, PutBackWords
    <2>7. Weaker(g, flash)
        BY <2>6, PlainWords DEF Weaker
    <2>8. Sound(PutBack)'
        <3>1. Sound(g)
            BY <1>0, <2>7, WeakerSound
        <3> QED BY <2>5, <3>1 DEF Sound, HeaderFits, SizeAt
    <2>9. Sound(flash')
        BY <1>0, <2>1, EraseSound
    <2> QED BY <2>1, <2>8, <2>9 DEF SoundOK
<1>3. CASE FlushErase \/ CloseErase \/ Remove
    <2>1. \E s : flash' = EraseSector(flash, s)
        BY <1>3 DEF FlushErase, CloseErase, Remove
    <2>2. pc' \notin Restoring
        BY <1>3 DEF FlushErase, CloseErase, Remove, Flushing, Restoring
    <2>3. Sound(flash')
        BY <1>0, <2>1, EraseSound
    <2> QED BY <2>2, <2>3 DEF SoundOK, Restoring
<1>4. CASE RestoreProgram
    <2>1. flash' = PutBack /\ pc = "restoreProgram" /\ pc' = "write"
        BY <1>0, <1>4 DEF RestoreProgram, PutBack
    <2> QED BY <2>1 DEF SoundOK
<1>5. CASE FlushProgram
    <2>1. flash' = Program(flash, wh.writeOffset, wh.buf) /\ pc' \notin Restoring
        BY <1>5 DEF FlushProgram, AfterFlush, Restoring
    <2>2. /\ wh.writeOffset \in Nat /\ Len(wh.buf) \in Nat
          /\ \A i \in 1 .. Len(wh.buf) : wh.buf[i] \in BufferWord
        BY HandleNats DEF CopyInv
    <2>3. \A i \in 1 .. Len(wh.buf) : Plain(wh.buf[i])
        BY <2>2, PlainWords
    <2>4. Weaker(flash', flash)
        BY <2>1, <2>2, <2>3, ProgramWeaker
    <2>5. Sound(flash')
        BY <1>0, <2>4, WeakerSound
    <2> QED BY <2>1, <2>5 DEF SoundOK, Restoring
<1>6. CASE CloseHeader
    <2>1. /\ pc = "closeHeader" /\ pc' = "idle"
          /\ flash' = Program(flash, wh.headerOffset, NewHeader(flash))
        BY <1>6 DEF CloseHeader, EndSave
    <2>2. PICK ws : ws = NewHeader(flash)
        OBVIOUS
    <2>3. Len(ws) = 2
        BY <2>2 DEF NewHeader
    <2>4. \A i \in 1 .. 2 : ws[i] = IF i = 2 THEN ws[2] ELSE NewHeader(flash)[i]
        BY <2>2
    <2>5. Sound(Program(flash, wh.headerOffset, ws))
        BY <2>1, <2>2, <2>3, <2>4, CutHeaderSound
    <2> QED BY <2>1, <2>2, <2>5 DEF SoundOK
<1>7. CASE Crash
    <2>1. pc' = "idle"
        BY <1>7 DEF Crash, CrashBetween, CrashInErase, CrashInProgram, Restart
    <2>2. CASE CrashBetween
        BY <1>0, <2>1, <2>2 DEF CrashBetween, Restart, SoundOK
    <2>3. CASE CrashInErase
        <3>1. PICK s \in ErasedNow : \E f \in CutErase(s) : flash' = f
            BY <2>3 DEF CrashInErase, Restart
        <3>2. \A a \in Addresses : flash'[a] \in {FF, Torn, flash[a]}
            BY <3>1 DEF CutErase
        <3>3. Weaker(flash', flash)
            BY <3>2, PlainWords DEF Weaker
        <3> QED BY <1>0, <2>1, <3>3, WeakerSound DEF SoundOK
    <2>4. CASE CrashInProgram
        BY <2>1, <2>4, CutProgramSound DEF SoundOK
    <2> QED BY <1>7, <2>2, <2>3, <2>4 DEF Crash
<1>8. CASE WriteFile
    <2>1. flash' = flash /\ pc' \in {"closeFlush", "writeFlush"}
        BY <1>8 DEF WriteFile
    <2> QED BY <1>0, <2>1 DEF SoundOK
<1>9. CASE FlushOverLimit
    <2>1. flash' = flash /\ pc' \in {"closeFlush", "closeHeader"}
        BY <1>9, FlushRefused
    <2> QED BY <1>0, <2>1 DEF SoundOK
<1>10. CASE FlushTimeout \/ CloseEraseTimeout \/ CloseHeaderTimeout \/ RestoreEraseTimeout
    BY <1>0, <1>10 DEF CloseEraseTimeout, CloseHeaderTimeout, RestoreEraseTimeout
<1>11. CASE UNCHANGED vars
    BY <1>11 DEF vars, SoundOK, PutBack
<1> QED BY <1>1, <1>2, <1>3, <1>4, <1>5, <1>6, <1>7, <1>8, <1>9, <1>10, <1>11 DEF Next, Step

SaveInv == CopyInv /\ WrittenOK /\ SoundOK

\* There is no save at the start, and no word is written.
LEMMA SaveInit == Init => SaveInv
<1> SUFFICES ASSUME Init PROVE SaveInv
    OBVIOUS
<1>1. CursorOK /\ AlignedOK /\ CloseOK
    BY DEF Init, CursorOK, AlignedOK, CloseOK, Writing
<1>2. JobOK /\ CopiedOK /\ WrittenOK
    BY DEF Init, JobOK, CopiedOK, WrittenOK, Filling, Restoring, Writing
<1>3. SoundOK
    BY DEF Init, SoundOK, Sound, FF
<1> QED BY <1>1, <1>2, <1>3, TypeInit DEF SaveInv, CopyInv

\* Every step keeps the invariant of a save.
LEMMA SaveStep ==
    ASSUME MaxTimeouts = 0
    PROVE  SaveInv /\ [Next]_vars => SaveInv'
BY CopyStep, WrittenStep, SoundStep DEF SaveInv

\* In a program whose second core halts in time, what opens with a good checksum is something a caller saved, whole,
\* after any sequence of saves, removals and crashes: a copy that was cut off never
\* reads as a good one (CloseWrite's CRC of the stream as it reads back, OpenRead).
THEOREM GoodReadsWereSaved ==
    ASSUME MaxTimeouts = 0
    PROVE  Spec => []ReadableWasSaved
<1>1. SaveInv => ReadableWasSaved
    BY GoodCrc DEF SaveInv, SoundOK, ReadableWasSaved
<1> QED BY <1>1, SaveInit, SaveStep, PTL DEF Spec

ErasedOnlyStep == crashes' = crashes =>
    \A a \in Addresses : flash'[a] = Torn => flash[a] \in {FF, Torn}

\* No step but a crash undefines a word.
LEMMA ErasedOnlyNext ==
    ASSUME MaxTimeouts = 0, SaveInv, Next
    PROVE  ErasedOnlyStep
<1> SUFFICES ASSUME crashes' = crashes, NEW a \in Addresses, flash'[a] = Torn
             PROVE  flash[a] \in {FF, Torn}
    BY DEF ErasedOnlyStep
<1>0. /\ ~TimesOut /\ ~FlushTimeout /\ CopyInv /\ WrittenOK
      /\ a \in Nat /\ FF # Torn
    BY NothingFails, AddressNat DEF SaveInv, CopyInv, FF, Torn
<1>1. CASE RestoreErase \/ FlushErase \/ CloseErase \/ Remove
    <2>1. \E s : flash' = EraseSector(flash, s)
        BY <1>1 DEF RestoreErase, FlushErase, CloseErase, Remove
    <2> QED BY <1>0, <2>1 DEF EraseSector
<1>2. CASE RestoreProgram
    <2> DEFINE s == SectorOf(wh.headerOffset)
    <2>1. /\ pc = "restoreProgram" /\ flash' = Program(flash, s, rescue)
          /\ IsSectorErased(flash, s)
        BY <1>0, <1>2 DEF RestoreProgram, WrittenOK
    <2>2. s \in Nat /\ Len(rescue) \in Nat /\ Len(rescue) < SectorWords /\ SectorWords \in Nat
        BY SMTT(30), <1>0, HandleNats, SectorBounds, FlashAssumption DEF CopyInv, TypeOK, RescueOK
    <2> HIDE DEF s
    <2>3. CASE a >= s /\ a < s + Len(rescue)
        <3>1. a < s + SectorWords
            BY <1>0, <2>2, <2>3
        <3> QED BY <2>1, <2>3, <3>1 DEF IsSectorErased, IsErased
    <2>4. CASE ~(a >= s /\ a < s + Len(rescue))
        <3>1. flash'[a] = flash[a]
            BY <1>0, <2>1, <2>4 DEF Program
        <3> QED BY <3>1
    <2> QED BY <2>3, <2>4
<1>3. CASE FlushProgram
    <2>1. /\ flash' = Program(flash, wh.writeOffset, wh.buf) /\ Flushing /\ ~EntersUnerased
          /\ Len(wh.buf) \in 0 .. Len(wh.buf)
        BY <1>0, <1>3, HandleNats DEF FlushProgram, CopyInv
    <2>2. flash[a] = FF \/ flash'[a] = flash[a]
        BY <1>0, <2>1, PageProgrammed
    <2> QED BY <2>2
<1>4. CASE CloseHeader
    <2>1. /\ pc = "closeHeader" /\ flash' = Program(flash, wh.headerOffset, NewHeader(flash))
        BY <1>4 DEF CloseHeader
    <2>2. /\ Len(NewHeader(flash)) = 2 /\ wh.headerOffset \in Nat
          /\ flash[wh.headerOffset] = FF /\ flash[wh.headerOffset + 1] = FF
        BY <1>0, <2>1, HeaderIsErased, CopyInBlock DEF Closing, NewHeader
    <2>3. CASE a \in {wh.headerOffset, wh.headerOffset + 1}
        BY <2>2, <2>3
    <2>4. CASE a \notin {wh.headerOffset, wh.headerOffset + 1}
        <3>1. a < wh.headerOffset \/ a >= wh.headerOffset + 2
            BY <1>0, <2>2, <2>4
        <3>2. flash'[a] = flash[a]
            BY <1>0, <2>1, <2>2, <3>1 DEF Program
        <3> QED BY <3>2
    <2> QED BY <2>3, <2>4
<1>5. CASE Save \/ WriteFile \/ FlushOverLimit
    BY <1>5 DEF Save, SaveAppend, SaveDirty, SaveFromStart, StartSave, WriteFile,
                FlushOverLimit, FlushFails
<1>6. CASE FlushTimeout \/ CloseEraseTimeout \/ CloseHeaderTimeout \/ RestoreEraseTimeout
    BY <1>0, <1>6 DEF CloseEraseTimeout, CloseHeaderTimeout, RestoreEraseTimeout
<1>7. CASE Crash
    <2>1. crashes \in Nat
        BY <1>0, FlashAssumption DEF CopyInv, TypeOK, BoundsOK
    <2>2. crashes' = crashes + 1
        BY <1>7 DEF Crash, CrashBetween, CrashInErase, CrashInProgram, Restart
    <2> QED BY <2>1, <2>2
<1> QED BY <1>1, <1>2, <1>3, <1>4, <1>5, <1>6, <1>7 DEF Next, Step

\* The code never programs a word that is not erased with anything but the value it
\* has: a page is programmed where its part of the copy is erased and with erased
\* words around it, a dirty sector is put back into an erased one, and the header
\* over two erased words (OpenWrite, Flush, CloseWrite).
THEOREM ErasedWordsAreProgrammed ==
    ASSUME MaxTimeouts = 0
    PROVE  Spec => ProgramsErasedOnly
<1>1. SaveInv /\ [Next]_vars => [ErasedOnlyStep]_vars
    BY ErasedOnlyNext
<1> QED BY <1>1, SaveInit, SaveStep, PTL DEF Spec, ProgramsErasedOnly, ErasedOnlyStep

-----------------------------------------------------------------------------
\* The block f holds what is owed, and the copy being saved goes after it.
KeepsOld(f) == Chain(f, wh.headerOffset) /\ OpenRead(f) = kept

\* A reader gets what is owed, except while a block is rewritten from its start or a
\* dirty sector is put back; then the words in RAM make up what is missing.
ReadOK ==
    /\ pc = "idle" => OpenRead(flash) = kept
    /\ pc \in Writing /\ wh.headerOffset # 0 => KeepsOld(flash)
    /\ pc = "restoreErase" => KeepsOld(flash)
    /\ pc = "restoreProgram" => KeepsOld(PutBack)

\* OpenWrite appends after the copy that a reader gets.
LEMMA ReadSave ==
    ASSUME ReadOK, Save
    PROVE  ReadOK'
<1>1. PICK data \in Contents : SaveAppend(data) \/ SaveDirty(data) \/ SaveFromStart(data)
    BY DEF Save
<1>2. /\ flash' = flash /\ kept' = kept /\ pc = "idle"
    BY <1>1 DEF SaveAppend, SaveDirty, SaveFromStart, StartSave
<1>3. OpenRead(flash) = kept
    BY <1>2 DEF ReadOK
<1>4. CASE SaveAppend(data)
    <2>1. PICK h \in Addresses : CanAppend(h, data) /\ wh' = HandleAt(h) /\ pc' = "write"
        BY <1>4 DEF SaveAppend
    <2>2. wh'.headerOffset = h /\ Chain(flash, h)
        BY <2>1 DEF HandleAt, CanAppend, Chain
    <2>3. KeepsOld(flash)'
        BY <1>2, <1>3, <2>2 DEF KeepsOld
    <2> QED BY <2>1, <2>3 DEF ReadOK
<1>5. CASE SaveDirty(data)
    <2>1. PICK h \in Addresses : /\ CanAppend(h, data) /\ wh' = [NoHandle EXCEPT !.headerOffset = h]
                                 /\ rescue' = Preserved(flash, h) /\ pc' = "restoreErase"
        BY <1>5 DEF SaveDirty
    <2>2. wh'.headerOffset = h /\ Chain(flash, h)
        BY <2>1 DEF NoHandle, CanAppend, Chain
    <2>3. KeepsOld(flash)'
        BY <1>2, <1>3, <2>2 DEF KeepsOld
    <2> QED BY <1>2, <2>1, <2>2, <2>3 DEF ReadOK, Writing
<1>6. CASE SaveFromStart(data)
    <2>1. wh'.headerOffset = 0 /\ pc' = "write"
        BY <1>6 DEF SaveFromStart, NoHandle
    <2> QED BY <2>1 DEF ReadOK
<1> QED BY <1>1, <1>4, <1>5, <1>6

\* The words of a dirty sector before the append point, put back into the erased
\* sector, restore the copies.
LEMMA PutBackKeeps ==
    ASSUME NEW f, Sound(f), NEW h, Chain(f, h)
    PROVE  LET s == SectorOf(h)
               g == Program(EraseSector(f, s), s, Preserved(f, h))
           IN  Sound(g) => Chain(g, h) /\ OpenRead(g) = OpenRead(f)
<1>1. h \in Nat /\ f[h] = FF /\ h \in Addresses
    BY ChainFacts DEF Chain
<1>2. PICK g : g = Program(EraseSector(f, SectorOf(h)), SectorOf(h), Preserved(f, h))
    OBVIOUS
<1> SUFFICES ASSUME Sound(g) PROVE Chain(g, h) /\ OpenRead(g) = OpenRead(f)
    BY <1>2
<1>3. SameBefore(f, g, h)
    <2> SUFFICES ASSUME NEW a \in Addresses, a < h PROVE g[a] = f[a]
        BY DEF SameBefore
    <2> QED BY <1>1, <1>2, PutBackWords
<1>4. g[h] = FF
    <2>1. ~(h < h)
        BY <1>1
    <2>2. g[h] \in {FF, f[h]}
        BY <1>1, <1>2, <2>1, PutBackWords
    <2> QED BY <1>1, <2>2
<1> QED BY <1>3, <1>4, ChainStable

\* Erasing the dirty sector and putting its words back.
LEMMA ReadRestore ==
    ASSUME MaxTimeouts = 0, SaveInv, SoundOK', ReadOK, RestoreErase \/ RestoreEraseTimeout \/ RestoreProgram
    PROVE  ReadOK'
<1>0. ~TimesOut /\ SoundOK
    BY NothingFails DEF SaveInv, CopyInv
<1>1. CASE RestoreErase
    <2>1. /\ pc = "restoreErase" /\ pc' = "restoreProgram" /\ wh' = wh /\ rescue' = rescue /\ kept' = kept
          /\ flash' = EraseSector(flash, SectorOf(wh.headerOffset))
        BY <1>1 DEF RestoreErase
    <2>2. PICK h : h = wh.headerOffset
        OBVIOUS
    <2>3. Chain(flash, h) /\ OpenRead(flash) = kept /\ rescue = Preserved(flash, h)
        BY <1>0, <2>1, <2>2 DEF ReadOK, KeepsOld, SoundOK
    <2>4. PutBack' = Program(EraseSector(flash, SectorOf(h)), SectorOf(h), Preserved(flash, h))
        BY <2>1, <2>2, <2>3 DEF PutBack
    <2>5. Sound(PutBack')
        BY <2>1 DEF SoundOK
    <2>6. Chain(PutBack', h) /\ OpenRead(PutBack') = kept
        BY <1>0, <2>3, <2>4, <2>5, PutBackKeeps DEF SoundOK
    <2>7. KeepsOld(PutBack)'
        BY <2>1, <2>2, <2>6 DEF KeepsOld
    <2> QED BY <2>1, <2>7 DEF ReadOK, Writing
<1>2. CASE RestoreEraseTimeout
    BY <1>0, <1>2 DEF RestoreEraseTimeout
<1>3. CASE RestoreProgram
    <2>1. /\ pc = "restoreProgram" /\ pc' = "write" /\ kept' = kept /\ flash' = PutBack
          /\ wh' = HandleAt(wh.headerOffset)
        BY <1>0, <1>3 DEF RestoreProgram, PutBack
    <2>2. wh'.headerOffset = wh.headerOffset
        BY <2>1 DEF HandleAt
    <2>3. KeepsOld(PutBack)
        BY <2>1 DEF ReadOK
    <2>4. KeepsOld(flash)'
        BY <2>1, <2>2, <2>3 DEF KeepsOld
    <2> QED BY <2>1, <2>4 DEF ReadOK
<1> QED BY <1>1, <1>2, <1>3

\* Programming the buffer, or the start of it, leaves the header of the copy erased.
LEMMA HeaderStaysErased ==
    ASSUME CopyInv, WrittenOK, Flushing, ~EntersUnerased,
           NEW n \in 0 .. Len(wh.buf), NEW ws, Len(ws) = n,
           \A i \in 1 .. n : wh.buf[i] = FF => ws[i] = FF,
           flash[wh.headerOffset] = FF
    PROVE  Program(flash, wh.writeOffset, ws)[wh.headerOffset] = FF
<1> DEFINE h == wh.headerOffset
           i == h - wh.writeOffset + 1
<1>1. h \in Addresses /\ h \in Nat /\ wh.writeOffset \in Nat /\ Len(wh.buf) \in Nat
    BY CopyInBlock, HandleNats DEF Flushing, CopyInv
<1>2. CASE i \in 1 .. n
    <2>1. i \in 1 .. Len(wh.buf) /\ wh.writeOffset + i > h /\ wh.writeOffset + i - h = 1
        BY <1>1, <1>2
    <2>2. BufOK
        BY DEF CopyInv, CopiedOK, Flushing, Filling
    <2>3. wh.buf[i] = CopyWord(job.data, 1)
        BY <2>1, <2>2 DEF BufOK
    <2>4. ws[i] = FF
        BY <1>2, <2>3 DEF CopyWord, HeaderWords
    <2>5. h >= h
        BY <1>1
    <2>6. Program(flash, wh.writeOffset, ws)[h] = ws[i]
        BY <1>1, <1>2, <2>5, PageProgrammed
    <2> QED BY <2>4, <2>6
<1>3. CASE i \notin 1 .. n
    <2>1. Program(flash, wh.writeOffset, ws)[h] = flash[h]
        BY <1>1, <1>3, PageProgrammed
    <2> QED BY <2>1
<1> QED BY <1>2, <1>3

\* Appending a copy changes neither the copies before it nor the erased word where
\* its header will be.
LEMMA ReadWrite ==
    ASSUME MaxTimeouts = 0, SaveInv, SoundOK', ReadOK, Next, WriteFile \/ FlushErase \/ FlushProgram \/ CloseErase
    PROVE  ReadOK'
<1>1. /\ pc \in Writing /\ pc' \in Writing /\ kept' = kept /\ wh'.headerOffset = wh.headerOffset
    <2>1. CASE WriteFile
        <3>1. pc = "write" /\ pc' \in {"closeFlush", "writeFlush"} /\ kept' = kept
            BY <2>1 DEF WriteFile
        <3>2. wh'.headerOffset = wh.headerOffset
            BY <2>1, CopyMoves DEF SaveInv, CopyInv
        <3> QED BY <3>1, <3>2 DEF Writing
    <2>2. CASE FlushErase \/ CloseErase
        BY <2>2 DEF FlushErase, CloseErase, Flushing, Writing
    <2>3. CASE FlushProgram
        BY <2>3 DEF FlushProgram, AfterFlush, Flushing, Writing
    <2> QED BY <2>1, <2>2, <2>3
<1> SUFFICES ASSUME wh.headerOffset # 0 PROVE KeepsOld(flash)'
    BY <1>1 DEF ReadOK, Writing
<1>2. PICK h : h = wh.headerOffset
    OBVIOUS
<1>3. Chain(flash, h) /\ OpenRead(flash) = kept /\ Sound(flash) /\ Sound(flash')
    BY <1>1, <1>2 DEF ReadOK, KeepsOld, SaveInv, SoundOK
<1>4. /\ h \in Nat /\ h >= 2 /\ flash[h] = FF /\ h \in Addresses
    BY <1>3, ChainFacts DEF Chain
<1>5. SameBefore(flash, flash', h)
    <2>1. SpareStep
        BY SpareNext DEF SaveInv, CopyInv
    <2> QED BY <1>1, <1>2, <2>1 DEF SpareStep, SameBefore
<1>6. flash'[h] = FF
    <2>1. CASE WriteFile
        BY <1>4, <2>1 DEF WriteFile
    <2>2. CASE FlushErase \/ CloseErase
        BY <1>4, <2>2 DEF FlushErase, CloseErase, EraseSector
    <2>3. CASE FlushProgram
        <3>1. /\ flash' = Program(flash, wh.writeOffset, wh.buf) /\ Flushing /\ ~EntersUnerased
              /\ Len(wh.buf) \in 0 .. Len(wh.buf)
            BY <2>3, HandleNats DEF FlushProgram, SaveInv, CopyInv
        <3>2. Program(flash, wh.writeOffset, wh.buf)[wh.headerOffset] = FF
            BY <1>2, <1>4, <3>1, HeaderStaysErased DEF SaveInv
        <3> QED BY <1>2, <3>1, <3>2
    <2> QED BY <2>1, <2>2, <2>3
<1>7. Chain(flash', h) /\ OpenRead(flash') = kept
    BY <1>3, <1>5, <1>6, ChainStable
<1> QED BY <1>1, <1>2, <1>7 DEF KeepsOld

\* Programming the header makes the copy the one that is read.
LEMMA ReadCommit ==
    ASSUME SaveInv, SoundOK', ReadOK, CloseHeader
    PROVE  ReadOK' /\ (job.ok = TRUE => OpenRead(flash') = Found(job.data))
<1>1. /\ pc = "closeHeader" /\ pc' = "idle"
      /\ flash' = Program(flash, wh.headerOffset, NewHeader(flash))
      /\ IF job.ok THEN kept' = Found(job.data) ELSE kept' = OpenRead(flash')
    BY DEF CloseHeader, EndSave
<1>2. CopyInv /\ WrittenOK /\ pc \in Closing /\ pc # "idle" /\ job.ok \in BOOLEAN
    BY <1>1 DEF SaveInv, CopyInv, TypeOK, JobType, Closing
<1>3. CASE job.ok # TRUE
    BY <1>1, <1>2, <1>3 DEF ReadOK, Writing
<1>4. CASE job.ok = TRUE
    <2>1. PICK h, d : h = wh.headerOffset /\ d = job.data
        OBVIOUS
    <2>2. /\ h \in Addresses /\ h \in Nat /\ EndOf = h + 2 + Len(d) /\ EndOf <= MaxSize
          /\ d \in Contents /\ Len(d) \in Nat /\ MaxSize \in Nat
        <3>1. EndOf <= MaxSize
            BY <1>2, <1>4 DEF CopyInv, CopiedOK, Whole
        <3> QED BY <1>2, <2>1, <3>1, CopyInBlock DEF HeaderWords
    <2>3. /\ NewHeader(flash) = <<SizeWord(Len(d)), CrcOf(d)>>
          /\ flash[h] = FF /\ flash[h + 1] = FF
          /\ \A i \in 1 .. Len(d) : flash[h + 2 + i - 1] = d[i]
        BY <1>2, <1>4, <2>1, StreamIsData, HeaderIsErased DEF HeaderWords
    <2>4. PICK ws : ws = <<SizeWord(Len(d)), CrcOf(d)>>
        OBVIOUS
    <2>5. Len(ws) = 2 /\ ws[1] = SizeWord(Len(d)) /\ ws[2] = CrcOf(d)
        BY <2>4
    <2>6. flash' = Program(flash, h, ws)
        BY <1>1, <2>1, <2>3, <2>4
    <2>7. ASSUME NEW a \in Addresses, a < h \/ a >= h + 2 PROVE flash'[a] = flash[a]
        <3>1. a \in Nat /\ ~(a >= h /\ a < h + Len(ws))
            BY <2>2, <2>5, <2>7, AddressNat
        <3> QED BY <2>6, <3>1 DEF Program
    <2>8. flash'[h] = SizeWord(Len(d)) /\ flash'[h + 1] = CrcOf(d)
        <3>1. h + 1 \in Addresses /\ h - h + 1 = 1 /\ (h + 1) - h + 1 = 2
            BY <2>2 DEF Addresses
        <3>2. flash'[h] = ws[h - h + 1]
            BY <2>2, <2>3, <2>5, <2>6, ProgramSets
        <3>3. flash'[h + 1] = ws[(h + 1) - h + 1]
            <4>1. PICK b \in Addresses : b = h + 1
                BY <3>1
            <4>2. b >= h /\ b < h + Len(ws) /\ flash[b] = FF
                BY <2>2, <2>3, <2>5, <4>1
            <4>3. flash'[b] = ws[b - h + 1]
                BY <2>2, <2>6, <4>2, ProgramSets
            <4> QED BY <4>1, <4>3
        <3> QED BY <2>5, <3>1, <3>2, <3>3
    <2>9. \A i \in 1 .. Len(d) : flash'[h + HeaderWords + i - 1] = d[i]
        <3> SUFFICES ASSUME NEW i \in 1 .. Len(d) PROVE flash'[h + 2 + i - 1] = d[i]
            BY DEF HeaderWords
        <3>1. PICK b \in Addresses : b = h + 2 + i - 1
            BY <2>2 DEF Addresses
        <3>2. b >= h + 2
            BY <2>2, <3>1
        <3> QED BY <2>3, <2>7, <3>1, <3>2
    <2>10. h + HeaderWords + Len(d) < MaxSize => flash'[h + HeaderWords + Len(d)] = FF
        <3> SUFFICES ASSUME EndOf < MaxSize PROVE flash'[EndOf] = FF
            BY <2>2 DEF HeaderWords
        <3>1. flash[EndOf] = FF
            BY <1>1, <1>2 DEF WrittenOK
        <3>2. PICK b \in Addresses : b = EndOf /\ b >= h + 2
            BY <2>2 DEF Addresses
        <3> QED BY <2>7, <3>1, <3>2
    <2>11. h = 0 \/ Chain(flash, h)
        BY <1>1, <2>1 DEF ReadOK, KeepsOld, Writing
    <2>12. SameBefore(flash, flash', h)
        BY <2>7 DEF SameBefore
    <2>13. Sound(flash) /\ Sound(flash')
        BY DEF SaveInv, SoundOK
    <2>14. h + HeaderWords + Len(d) <= MaxSize
        BY <2>2 DEF HeaderWords
    <2>15. OpenRead(flash') = Found(d)
        BY <2>2, <2>8, <2>9, <2>10, <2>11, <2>12, <2>13, <2>14, CommitRead
    <2>16. OpenRead(flash') = kept'
        BY <1>1, <1>4, <2>1, <2>15
    <2> QED BY <1>1, <2>1, <2>15, <2>16 DEF ReadOK, Writing
<1> QED BY <1>2, <1>3, <1>4

\* A file whose first sector is erased is not found.
LEMMA RemoveRead ==
    ASSUME Remove
    PROVE  OpenRead(flash') = Failed("NotFound")
<1>1. flash' = EraseSector(flash, 0)
    BY DEF Remove
<1>2. SectorWords \in Nat \ {0} /\ 0 % SectorWords = 0
    BY FlashAssumption
<1>3. ASSUME NEW a \in Addresses, a >= 0, a < 0 + SectorWords PROVE flash'[a] = FF
    <2>1. a \in Nat
        BY AddressNat
    <2>2. SectorOf(a) = 0
        BY <1>2, <1>3, <2>1, SectorStart
    <2> QED BY <1>1, <2>2 DEF EraseSector
<1>4. IsSectorErased(flash', 0)
    BY <1>3 DEF IsSectorErased, IsErased
<1> QED BY <1>4 DEF OpenRead

\* A crash in the middle of an append finds the append point erased.
LEMMA CrashKeepsHeader ==
    ASSUME TypeOK, SaveInv, CloseOK, pc \in Writing, pc # "closeHeader", flash[wh.headerOffset] = FF,
           wh.headerOffset \in Addresses, ~Exposed, Crash
    PROVE  flash'[wh.headerOffset] = FF
<1>0. /\ wh.headerOffset \in Nat /\ wh.writeOffset \in Nat /\ CopyInv /\ WrittenOK
    BY HandleNats DEF SaveInv, CopyInv
<1>1. CASE CrashBetween
    BY <1>1 DEF CrashBetween, Restart
<1>2. CASE CrashInErase
    <2>1. PICK s \in ErasedNow : \E f \in CutErase(s) : Restart(f, Owed(f))
        BY <1>2 DEF CrashInErase
    <2>2. PICK f \in CutErase(s) : Restart(f, Owed(f))
        BY <2>1
    <2>3. flash' = f
        BY <2>2 DEF Restart
    <2>4. s = wh.writeOffset /\ ((Flushing /\ EntersUnerased) \/ pc = "closeErase")
        BY DEF ErasedNow, Writing, Flushing
    <2>5. CASE flash'[wh.headerOffset] = FF
        BY <2>5
    <2>6. CASE SectorOf(wh.headerOffset) # s
        <3>1. f[wh.headerOffset] = flash[wh.headerOffset]
            BY <2>6, CutEraseFacts
        <3> QED BY <2>3, <3>1
    <2>7. CASE SectorOf(wh.headerOffset) = s
        <3>1. wh.headerOffset >= s
            BY <1>0, <2>7, SectorBounds
        <3>2. CASE Flushing
            <4>1. wh.headerOffset <= wh.writeOffset
                BY <2>4, <3>2 DEF EntersUnerased, Flushing
            <4> QED BY <1>0, <2>4, <3>1, <3>2, <4>1 DEF Exposed, Flushing
        <3>3. CASE pc = "closeErase"
            <4>1. EndOf <= wh.writeOffset
                BY <1>0, <3>3 DEF CopyInv, CopiedOK, Whole, Refused, Closing
            <4>2. EndOf > wh.headerOffset /\ EndOf \in Nat
                BY <1>0, <3>3, CopyInBlock DEF HeaderWords
            <4> QED BY <1>0, <2>4, <3>1, <4>1, <4>2
        <3> QED BY <2>4, <3>2, <3>3
    <2> QED BY <2>6, <2>7
<1>3. CASE CrashInProgram
    <2>1. PICK op \in ProgrammedNow : \E k \in 1 .. Len(op[2]) : \E ws :
              /\ Len(ws) = k
              /\ \A i \in 1 .. k : op[2][i] = FF => ws[i] = FF
              /\ flash' = Program(flash, op[1], ws)
        BY <1>3, CutProgram
    <2>2. Flushing /\ ~EntersUnerased /\ op = <<wh.writeOffset, wh.buf>>
        BY <2>1 DEF ProgrammedNow, Writing, Flushing
    <2>6. PICK k \in 1 .. Len(wh.buf) : \E ws :
              /\ Len(ws) = k
              /\ \A i \in 1 .. k : wh.buf[i] = FF => ws[i] = FF
              /\ flash' = Program(flash, wh.writeOffset, ws)
        BY <2>1, <2>2
    <2>3. PICK ws :
              /\ Len(ws) = k
              /\ \A i \in 1 .. k : wh.buf[i] = FF => ws[i] = FF
              /\ flash' = Program(flash, wh.writeOffset, ws)
        BY <2>6
    <2>4. k \in 0 .. Len(wh.buf)
        BY <1>0, <2>3, HandleNats DEF CopyInv
    <2>5. Program(flash, wh.writeOffset, ws)[wh.headerOffset] = FF
        BY <1>0, <2>2, <2>3, <2>4, HeaderStaysErased
    <2> QED BY <2>3, <2>5
<1> QED BY <1>1, <1>2, <1>3 DEF Crash

\* After a crash a reader gets what is owed.
LEMMA ReadCrash ==
    ASSUME SaveInv, SoundOK', ReadOK, Crash
    PROVE  ReadOK'
<1>1. PICK f : Restart(f, Owed(f))
    BY DEF Crash, CrashBetween, CrashInErase, CrashInProgram
<1>2. flash' = f /\ kept' = Owed(f) /\ pc' = "idle"
    BY <1>1 DEF Restart
<1> SUFFICES OpenRead(f) = Owed(f)
    BY <1>2 DEF ReadOK, Writing
<1>3. CASE Exposed \/ (pc \in {"idle", "closeHeader"} /\ f # flash)
    BY <1>3 DEF Owed
<1>4. CASE ~(Exposed \/ (pc \in {"idle", "closeHeader"} /\ f # flash))
    <2>1. Owed(f) = kept
        BY <1>4 DEF Owed
    <2>2. CASE pc = "idle"
        BY <1>4, <2>1, <2>2 DEF ReadOK
    <2>3. CASE pc # "idle"
        <3>1. pc \in Writing /\ wh.headerOffset # 0
            BY <1>4, <2>3 DEF Exposed, Phases, Writing, SaveInv, CopyInv, TypeOK
        <3>2. PICK h : h = wh.headerOffset
            OBVIOUS
        <3>3. Chain(flash, h) /\ OpenRead(flash) = kept
            BY <3>1, <3>2 DEF ReadOK, KeepsOld
        <3>4. CASE pc = "closeHeader"
            BY <1>4, <2>1, <3>3, <3>4
        <3>5. CASE pc # "closeHeader"
            <4>1. Sound(flash) /\ Sound(f) /\ TypeOK /\ CursorOK /\ CloseOK
                BY <1>2 DEF SaveInv, SoundOK, CopyInv
            <4>2. flash[h] = FF /\ h \in Addresses
                BY <3>3, <4>1, ChainFacts DEF Chain
            <4>3. f[h] = FF
                BY <1>2, <1>4, <3>1, <3>2, <3>5, <4>1, <4>2, CrashKeepsHeader
            <4>4. SameBefore(flash, f, h)
                <5>1. SpareStep
                    BY <4>1, SpareNext DEF Next
                <5> QED BY <1>2, <3>1, <3>2, <5>1 DEF SpareStep, SameBefore
            <4>5. OpenRead(f) = OpenRead(flash)
                BY <3>3, <4>1, <4>3, <4>4, ChainStable
            <4> QED BY <2>1, <3>3, <4>5
        <3> QED BY <3>4, <3>5
    <2> QED BY <2>2, <2>3
<1> QED BY <1>3, <1>4

\* Every step keeps what a reader gets equal to what is owed.
LEMMA ReadStep ==
    ASSUME MaxTimeouts = 0, SaveInv, SaveInv', ReadOK, [Next]_vars
    PROVE  ReadOK'
<1>0. /\ ~TimesOut /\ ~FlushTimeout /\ CopyInv /\ SoundOK'
    BY NothingFails DEF SaveInv, CopyInv
<1>1. CASE Save
    BY <1>1, ReadSave
<1>2. CASE RestoreErase \/ RestoreEraseTimeout \/ RestoreProgram
    BY <1>0, <1>2, ReadRestore
<1>3. CASE WriteFile \/ FlushErase \/ FlushProgram \/ CloseErase
    <2>1. Next
        BY <1>3 DEF Next, Step
    <2> QED BY <1>0, <1>3, <2>1, ReadWrite
<1>4. CASE CloseHeader
    BY <1>0, <1>4, ReadCommit
<1>5. CASE Remove
    <2>1. OpenRead(flash') = kept' /\ pc' = "idle"
        BY <1>5, RemoveRead DEF Remove
    <2> QED BY <2>1 DEF ReadOK, Writing
<1>6. CASE Crash
    BY <1>0, <1>6, ReadCrash
<1>7. CASE FlushOverLimit
    <2>1. /\ flash' = flash /\ wh' = wh /\ kept' = kept
          /\ pc \in Writing /\ pc' \in {"closeFlush", "closeHeader"}
        BY <1>0, <1>7, FlushRefused DEF Writing
    <2> QED BY <2>1 DEF ReadOK, KeepsOld
<1>8. CASE FlushTimeout \/ CloseEraseTimeout \/ CloseHeaderTimeout
    BY <1>0, <1>8 DEF CloseEraseTimeout, CloseHeaderTimeout
<1>9. CASE UNCHANGED vars
    BY <1>9 DEF vars, ReadOK, KeepsOld, PutBack
<1> QED BY <1>1, <1>2, <1>3, <1>4, <1>5, <1>6, <1>7, <1>8, <1>9 DEF Next, Step

\* Nothing is stored at the start.
LEMMA ReadInit == Init => ReadOK
<1> SUFFICES ASSUME Init PROVE OpenRead(flash) = kept /\ pc = "idle"
    BY DEF ReadOK, Writing
<1>1. IsSectorErased(flash, 0)
    BY DEF Init, IsSectorErased, IsErased
<1> QED BY <1>1 DEF Init, OpenRead

\* In a program whose second core halts in time, a reader gets what the file system owes it after any sequence of saves,
\* removals and crashes, except in the windows Exposed names: never an older copy,
\* never part of a newer one (GetFileStream, OpenWrite, CloseWrite).
THEOREM ReadersGetTheLastSave ==
    ASSUME MaxTimeouts = 0
    PROVE  Spec => []Durable
<1>1. Init => ReadOK
    BY ReadInit
<1>2. SaveInv /\ SaveInv' /\ ReadOK /\ [Next]_vars => ReadOK'
    BY ReadStep
<1>3. SaveInv /\ ReadOK => Durable
    BY DEF Durable, ReadOK, KeepsOld, Exposed, Phases, Writing, SaveInv, CopyInv, TypeOK
<1> QED BY <1>1, <1>2, <1>3, SaveInit, SaveStep, PTL DEF Spec

-----------------------------------------------------------------------------
\* The stored file that the block implements.
Seen    == ContentOf(OpenRead(flash))
Owes    == ContentOf(kept)
Pending == IF pc = "idle" THEN <<>> ELSE job.data
Stage   == IF pc = "idle" THEN "idle"
           ELSE IF Exposed THEN "exposed"
           ELSE IF pc = "closeHeader" THEN "commit"
           ELSE "append"

\* A reader gets something that may be saved, or nothing.
LEMMA SeenIsReadable ==
    ASSUME NEW f, Sound(f) PROVE ContentOf(OpenRead(f)) \in Contents \cup {<<>>}
BY GoodCrc DEF ContentOf

\* Away from the rewriting of its storage, a reader gets what is owed.
LEMMA SeenIsOwed ==
    ASSUME ReadOK, pc \in Writing => wh.headerOffset # 0, pc \notin Restoring, pc \in Phases
    PROVE  Seen = Owes
BY DEF ReadOK, KeepsOld, Seen, Owes, Phases, Writing, Restoring

\* A step of a save that is neither its start nor its end.
LEMMA FileProgress ==
    ASSUME Seen' \in Contents \cup {<<>>}, Owes' = Owes, Pending' = Pending,
           \/ Stage' = Stage /\ Seen' = Seen
           \/ Stage = "exposed" /\ Stage' = "exposed"
           \/ Stage = "exposed" /\ Stage' = "append" /\ Seen' = Owes
           \/ Stage = "append" /\ Stage' \in {"exposed", "commit"} /\ Seen' = Seen
    PROVE  [File!Next]_(File!vars)
<1>1. CASE Stage' = Stage /\ Seen' = Seen
    BY <1>1 DEF File!vars, Seen, Owes, Pending, Stage
<1>2. CASE Stage = "exposed" /\ Stage' = "exposed"
    <2>1. File!Rewrite
        BY <1>2 DEF File!Rewrite, File!Readable, Seen, Owes, Pending, Stage
    <2> QED BY <2>1 DEF File!Next
<1>3. CASE Stage = "exposed" /\ Stage' = "append" /\ Seen' = Owes
    <2>1. File!PutBack
        BY <1>3 DEF File!PutBack, Seen, Owes, Pending, Stage
    <2> QED BY <2>1 DEF File!Next
<1>4. CASE Stage = "append" /\ Stage' = "exposed" /\ Seen' = Seen
    <2>1. File!Expose
        BY <1>4 DEF File!Expose, Seen, Owes, Pending, Stage
    <2> QED BY <2>1 DEF File!Next
<1>5. CASE Stage = "append" /\ Stage' = "commit" /\ Seen' = Seen
    <2>1. File!Prepare
        BY <1>5 DEF File!Prepare, Seen, Owes, Pending, Stage
    <2> QED BY <2>1 DEF File!Next
<1> QED BY <1>1, <1>2, <1>3, <1>4, <1>5

\* The start of a save.
LEMMA FileOpens ==
    ASSUME SaveInv, ReadOK, Save
    PROVE  File!Next
<1>1. PICK data \in Contents : SaveAppend(data) \/ SaveDirty(data) \/ SaveFromStart(data)
    BY DEF Save
<1>2. /\ flash' = flash /\ kept' = kept /\ pc = "idle" /\ pc' \in {"write", "restoreErase"}
      /\ job'.data = data
    BY <1>1 DEF SaveAppend, SaveDirty, SaveFromStart, StartSave
<1>3. Seen' = Seen /\ Owes' = Owes /\ Pending' \in Contents /\ Stage = "idle"
    BY <1>2 DEF Seen, Owes, Pending, Stage
<1>4. Stage' \in {"append", "exposed"}
    BY <1>2 DEF Stage
<1>5. File!Open
    BY <1>3, <1>4 DEF File!Open, Seen, Owes, Pending, Stage
<1> QED BY <1>5 DEF File!Next

\* The repair of a dirty sector.
LEMMA FileRestores ==
    ASSUME MaxTimeouts = 0, SaveInv, SaveInv', ReadOK, ReadOK',
           RestoreErase \/ RestoreEraseTimeout \/ RestoreProgram
    PROVE  [File!Next]_(File!vars)
<1>0. ~TimesOut /\ Seen' \in Contents \cup {<<>>} /\ pc \in Restoring
    <2>1. ~TimesOut
        BY NothingFails DEF SaveInv, CopyInv
    <2>2. Seen' \in Contents \cup {<<>>}
        BY SeenIsReadable DEF SaveInv, SoundOK, Seen
    <2> QED BY <2>1, <2>2 DEF RestoreErase, RestoreEraseTimeout, RestoreProgram, Restoring
<1>1. Owes' = Owes /\ Pending' = Pending /\ Stage = "exposed"
    BY <1>0 DEF RestoreErase, RestoreEraseTimeout, RestoreProgram, Owes, Pending, Stage, Restoring, Exposed
<1>2. CASE RestoreErase
    <2>1. Stage' = "exposed"
        BY <1>2 DEF RestoreErase, Stage, Exposed
    <2> QED BY <1>0, <1>1, <2>1, FileProgress
<1>3. CASE RestoreProgram
    <2>1. pc' = "write" /\ wh'.headerOffset = wh.headerOffset /\ pc = "restoreProgram"
        BY <1>3 DEF RestoreProgram, HandleAt
    <2>2. wh.headerOffset # 0
        <3>1. KeepsOld(PutBack) /\ flash' = PutBack
            BY <1>0, <1>3, <2>1 DEF ReadOK, RestoreProgram, PutBack
        <3>2. Sound(flash')
            BY DEF SaveInv, SoundOK
        <3>3. wh.headerOffset \in Nat /\ wh.headerOffset >= 2
            BY <3>1, <3>2, ChainFacts DEF KeepsOld
        <3> QED BY <3>3
    <2>3. Stage' = "append"
        BY <2>1, <2>2 DEF Stage, Exposed, Flushing, Writing
    <2>4. Seen' = Owes'
        BY <2>1, <2>2 DEF ReadOK, KeepsOld, Seen, Owes, Writing
    <2> QED BY <1>0, <1>1, <2>3, <2>4, FileProgress
<1> QED BY <1>0, <1>2, <1>3 DEF RestoreEraseTimeout

\* The writing of a copy.
LEMMA FileWrites ==
    ASSUME SaveInv, SaveInv', ReadOK, ReadOK', WriteFile \/ FlushErase \/ FlushProgram \/ CloseErase
    PROVE  [File!Next]_(File!vars)
<1>0. Seen' \in Contents \cup {<<>>}
    BY SeenIsReadable DEF SaveInv, SoundOK, Seen
<1>1. /\ pc \in Writing \ {"closeHeader"} /\ pc' \in Writing /\ kept' = kept
      /\ wh'.headerOffset = wh.headerOffset /\ job'.data = job.data
    <2>1. CASE WriteFile
        <3>1. pc = "write" /\ pc' \in {"closeFlush", "writeFlush"} /\ kept' = kept
            BY <2>1 DEF WriteFile
        <3>2. wh'.headerOffset = wh.headerOffset /\ job'.data = job.data
            BY <2>1, CopyMoves DEF SaveInv, CopyInv
        <3> QED BY <3>1, <3>2 DEF Writing
    <2>2. CASE FlushErase \/ CloseErase
        BY <2>2 DEF FlushErase, CloseErase, Flushing, Writing
    <2>3. CASE FlushProgram
        BY <2>3 DEF FlushProgram, AfterFlush, Flushing, Writing
    <2> QED BY <2>1, <2>2, <2>3
<1>2. Owes' = Owes /\ Pending' = Pending
    BY <1>1 DEF Owes, Pending, Writing
<1>3. CASE wh.headerOffset = 0
    <2>1. Stage = "exposed" /\ Stage' = "exposed"
        BY <1>1, <1>3 DEF Stage, Exposed, Writing
    <2> QED BY <1>0, <1>2, <2>1, FileProgress
<1>4. CASE wh.headerOffset # 0
    <2>1. Seen = Owes /\ Seen' = Owes'
        BY <1>1, <1>4 DEF ReadOK, KeepsOld, Seen, Owes
    <2>2. Stage \in {"append", "exposed"} /\ Stage' \in {"append", "exposed", "commit"}
        BY <1>1 DEF Stage, Writing
    <2>3. ASSUME Stage = "exposed" PROVE Stage' # "commit"
        <3>1. Flushing /\ EntersUnerased
            BY <1>1, <1>4, <2>3 DEF Stage, Exposed, Writing
        <3>2. pc' = pc
            BY <3>1 DEF WriteFile, FlushErase, FlushProgram, CloseErase, Flushing
        <3> QED BY <3>1, <3>2 DEF Stage, Flushing
    <2> QED BY <1>0, <1>2, <2>1, <2>2, <2>3, FileProgress
<1> QED BY <1>3, <1>4

\* A flush that is refused at the end of the block.
LEMMA FileRefused ==
    ASSUME SaveInv, SaveInv', ReadOK, FlushOverLimit
    PROVE  [File!Next]_(File!vars)
<1>0. CopyInv
    BY DEF SaveInv
<1>1. /\ flash' = flash /\ wh' = wh /\ kept' = kept /\ job'.data = job.data
      /\ pc \in {"writeFlush", "closeFlush"} /\ pc' \in {"closeFlush", "closeHeader"}
      /\ wh.writeOffset >= MaxSize
    BY <1>0, FlushRefused
<1>2. Seen' = Seen /\ Owes' = Owes /\ Pending' = Pending
    BY <1>1 DEF Seen, Owes, Pending
<1>3. Seen' \in Contents \cup {<<>>}
    BY SeenIsReadable DEF SaveInv, SoundOK, Seen
<1>4. wh.headerOffset # wh.writeOffset
    <2>1. wh.headerOffset \in Nat /\ wh.headerOffset + HeaderWords < MaxSize /\ MaxSize \in Nat
        BY <1>0, <1>1, CopyInBlock
    <2>2. wh.writeOffset \in Nat
        BY <1>0, HandleNats DEF CopyInv
    <2> QED BY <1>1, <2>1, <2>2 DEF HeaderWords
<1>5. CASE wh.headerOffset = 0
    <2>1. Stage = "exposed" /\ Stage' = "exposed"
        BY <1>1, <1>5 DEF Stage, Exposed, Writing
    <2> QED BY <1>2, <1>3, <2>1, FileProgress
<1>6. CASE wh.headerOffset # 0
    <2>1. ~Exposed /\ ~Exposed'
        BY <1>1, <1>4, <1>6 DEF Exposed
    <2>2. Stage = "append" /\ Stage' \in {"append", "commit"}
        BY <1>1, <2>1 DEF Stage
    <2> QED BY <1>2, <1>3, <2>2, FileProgress
<1> QED BY <1>5, <1>6

\* The header makes the new content the one that is read.  A stream that was longer
\* than the block gets a header that does not fit: the file is lost, as by a crash.
LEMMA FileCommits ==
    ASSUME SaveInv, SaveInv', ReadOK, CloseHeader
    PROVE  File!Next
<1>1. /\ pc = "closeHeader" /\ pc' = "idle"
      /\ IF job.ok THEN kept' = Found(job.data) ELSE kept' = OpenRead(flash')
    BY DEF CloseHeader, EndSave
<1>2. job.ok \in BOOLEAN
    BY DEF SaveInv, CopyInv, TypeOK, JobType
<1>3. Stage \in {"commit", "exposed"} /\ Pending' = <<>> /\ Stage' = "idle"
    BY <1>1 DEF Stage, Pending
<1>4. CASE job.ok = TRUE
    <2>1. OpenRead(flash') = Found(job.data)
        BY <1>4, ReadCommit DEF SaveInv
    <2>2. Seen' = Pending /\ Owes' = Pending
        BY <1>1, <1>4, <2>1 DEF Seen, Owes, Pending, ContentOf, Found
    <2>3. File!Commit
        BY <1>3, <2>2 DEF File!Commit, Seen, Owes, Pending, Stage
    <2> QED BY <2>3 DEF File!Next
<1>5. CASE job.ok # TRUE
    <2>1. Owes' = Seen'
        BY <1>1, <1>2, <1>5 DEF Seen, Owes
    <2>2. Seen' \in Contents \cup {<<>>}
        BY SeenIsReadable DEF SaveInv, SoundOK, Seen
    <2>3. File!Crash
        BY <1>3, <2>1, <2>2 DEF File!Crash, File!Readable, Seen, Owes, Pending, Stage
    <2> QED BY <2>3 DEF File!Next
<1> QED BY <1>4, <1>5

\* Removing a file.
LEMMA FileRemoved ==
    ASSUME Remove
    PROVE  File!Next
<1>1. OpenRead(flash') = Failed("NotFound") /\ kept' = Failed("NotFound")
    BY RemoveRead DEF Remove
<1>2. Seen' = <<>> /\ Owes' = <<>>
    BY <1>1 DEF Seen, Owes, ContentOf, Failed
<1>3. pc = "idle" /\ pc' = "idle"
    BY DEF Remove
<1>4. Stage = "idle" /\ Stage' = "idle" /\ Pending' = Pending
    BY <1>3 DEF Stage, Pending
<1>5. File!Delete
    BY <1>2, <1>4 DEF File!Delete, Seen, Owes, Pending, Stage
<1> QED BY <1>5 DEF File!Next

\* A crash loses nothing of a file to which a copy was being appended.
LEMMA FileCrashes ==
    ASSUME SaveInv, SaveInv', ReadOK, ReadOK', Crash
    PROVE  File!Next
<1>1. PICK f : Restart(f, Owed(f))
    BY DEF Crash, CrashBetween, CrashInErase, CrashInProgram
<1>2. kept' = Owed(f) /\ pc' = "idle"
    BY <1>1 DEF Restart
<1>3. Seen' \in Contents \cup {<<>>}
    BY SeenIsReadable DEF SaveInv, SoundOK, Seen
<1>4. Owes' = Seen' /\ Pending' = <<>> /\ Stage' = "idle"
    BY <1>2 DEF ReadOK, Seen, Owes, Pending, Stage
<1>5. ASSUME Stage = "append" PROVE Seen' = Seen
    <2>1. ~Exposed /\ pc # "idle" /\ pc # "closeHeader"
        BY <1>5 DEF Stage
    <2>2. kept' = kept
        BY <1>2, <2>1 DEF Owed
    <2>3. Seen = Owes
        BY <2>1, SeenIsOwed DEF Exposed, Restoring, SaveInv, CopyInv, TypeOK
    <2> QED BY <1>4, <2>2, <2>3 DEF Owes
<1>6. File!Crash
    BY <1>3, <1>4, <1>5 DEF File!Crash, File!Readable, Seen, Owes, Pending, Stage
<1> QED BY <1>6 DEF File!Next

\* Every step is a step of the stored file, or none.
LEMMA FileStep ==
    ASSUME MaxTimeouts = 0, SaveInv, SaveInv', ReadOK, ReadOK', [Next]_vars
    PROVE  [File!Next]_(File!vars)
<1>0. ~TimesOut /\ ~FlushTimeout
    BY NothingFails DEF SaveInv, CopyInv
<1>1. CASE Save
    BY <1>1, FileOpens
<1>2. CASE RestoreErase \/ RestoreEraseTimeout \/ RestoreProgram
    BY <1>2, FileRestores
<1>3. CASE WriteFile \/ FlushErase \/ FlushProgram \/ CloseErase
    BY <1>3, FileWrites
<1>4. CASE CloseHeader
    BY <1>4, FileCommits
<1>5. CASE Remove
    BY <1>5, FileRemoved
<1>6. CASE Crash
    BY <1>6, FileCrashes
<1>7. CASE FlushOverLimit
    BY <1>7, FileRefused
<1>8. CASE FlushTimeout \/ CloseEraseTimeout \/ CloseHeaderTimeout
    BY <1>0, <1>8 DEF CloseEraseTimeout, CloseHeaderTimeout
<1>9. CASE UNCHANGED vars
    <2>1. Seen' = Seen /\ Owes' = Owes /\ Pending' = Pending /\ Stage' = Stage
        BY <1>9 DEF vars, Seen, Owes, Pending, Stage, Exposed, Flushing, EntersUnerased
    <2> QED BY <2>1 DEF File!vars, Seen, Owes, Pending, Stage
<1> QED BY <1>1, <1>2, <1>3, <1>4, <1>5, <1>6, <1>7, <1>8, <1>9 DEF Next, Step

\* The block is a stored file: to a reader a save takes effect in one step, and a
\* crash only loses content in the windows StoredFile names.
THEOREM BlockIsAStoredFile ==
    ASSUME MaxTimeouts = 0
    PROVE  Spec => ImplementsStoredFile
<1>1. Init => ReadOK
    BY ReadInit
<1>2. SaveInv /\ SaveInv' /\ ReadOK /\ [Next]_vars => ReadOK'
    BY ReadStep
<1>3. Init => File!Init
    <2> SUFFICES ASSUME Init PROVE File!Init
        OBVIOUS
    <2>1. OpenRead(flash) = kept /\ kept = Failed("NotFound") /\ pc = "idle"
        BY <1>1 DEF Init, ReadOK
    <2> QED BY <2>1 DEF File!Init, ContentOf, Failed
<1>4. SaveInv /\ SaveInv' /\ ReadOK /\ ReadOK' /\ [Next]_vars => [File!Next]_(File!vars)
    BY FileStep
<1> QED BY <1>1, <1>2, <1>3, <1>4, SaveInit, SaveStep, PTL DEF Spec, ImplementsStoredFile, File!Spec

\* A save that has just returned success can be read.
ResultOK == result = "ok" => pc = "idle" /\ OpenRead(flash) = Found(job.data)

\* The header of the save is in flash when the save returns success.
LEMMA ResultStep ==
    ASSUME MaxTimeouts = 0, SaveInv, SaveInv', ReadOK, ResultOK, [Next]_vars
    PROVE  ResultOK'
<1>0. ~TimesOut /\ ~FlushTimeout
    BY NothingFails DEF SaveInv, CopyInv
<1>1. CASE Save \/ Remove \/ Crash
    <2>1. result' = "none"
        BY <1>1 DEF Save, SaveAppend, SaveDirty, SaveFromStart, StartSave, Remove, Crash, CrashBetween,
                    CrashInErase, CrashInProgram, Restart
    <2> QED BY <2>1 DEF ResultOK
<1>2. CASE FlushOverLimit
    <2>1. result' = result /\ pc # "idle"
        BY <1>2, FlushRefused DEF SaveInv
    <2> QED BY <2>1 DEF ResultOK
<1>3. CASE RestoreErase \/ RestoreProgram \/ WriteFile \/ FlushErase \/ FlushProgram \/ CloseErase
    <2>1. result' = result /\ pc # "idle"
        BY <1>3 DEF RestoreErase, RestoreProgram, WriteFile, FlushErase, FlushProgram, CloseErase, Flushing
    <2> QED BY <2>1 DEF ResultOK
<1>4. CASE CloseHeader
    <2>1. /\ pc' = "idle" /\ job' = [job EXCEPT !.ok = job.ok] /\ job \in JobType
          /\ result' = IF job.ok THEN "ok" ELSE "failed"
        BY <1>4 DEF CloseHeader, EndSave, SaveInv, CopyInv, TypeOK
    <2>2. job'.data = job.data
        BY <2>1 DEF JobType
    <2>3. job.ok = TRUE => OpenRead(flash') = Found(job.data)
        BY <1>4, ReadCommit DEF SaveInv
    <2>4. job.ok \in BOOLEAN
        BY <2>1 DEF JobType
    <2>5. CASE job.ok = TRUE
        BY <2>1, <2>2, <2>3, <2>5 DEF ResultOK
    <2>6. CASE job.ok = FALSE
        BY <2>1, <2>6 DEF ResultOK
    <2> QED BY <2>4, <2>5, <2>6
<1>5. CASE RestoreEraseTimeout \/ FlushTimeout \/ CloseEraseTimeout \/ CloseHeaderTimeout
    BY <1>0, <1>5 DEF RestoreEraseTimeout, CloseEraseTimeout, CloseHeaderTimeout
<1>6. CASE UNCHANGED vars
    BY <1>6 DEF vars, ResultOK
<1> QED BY <1>1, <1>2, <1>3, <1>4, <1>5, <1>6 DEF Next, Step

\* While the second core halts in time a save that returns success can be read back
\* (SaveStruct): the save whose success is not readable, which a run exhibits, needs
\* a flash operation that timed out.
THEOREM SuccessIsReadBack ==
    ASSUME MaxTimeouts = 0
    PROVE  Spec => []SuccessIsReadable
<1>1. Init => ReadOK /\ ResultOK
    BY ReadInit DEF Init, ResultOK
<1>2. SaveInv /\ SaveInv' /\ ReadOK /\ ResultOK /\ [Next]_vars => ReadOK' /\ ResultOK'
    BY ReadStep, ResultStep
<1>3. ResultOK => SuccessIsReadable
    BY DEF ResultOK, SuccessIsReadable
<1> QED BY <1>1, <1>2, <1>3, SaveInit, SaveStep, PTL DEF Spec
=============================================================================
