------------------------ MODULE IRTransmit_proofs -------------------------
(*************************************************************************)
(* Theorems about IRTransmit, for rings of every size, protocols with    *)
(* any number of repeats and any set of commands from the host: the      *)
(* types, the thread, the order of the commands, their repetitions and   *)
(* the command of the TV-ON sequencer.                                   *)
(*************************************************************************)
EXTENDS IRTransmit, TLAPS

\* The indexes stay in the ring, and the numbers of the commands in their cycle.
LEMMA InRange ==
  /\ \A i \in 0..(Slots - 1) : Advance(i) \in 0..(Slots - 1)
  /\ \A n \in Numbers : After(n) \in Numbers
  /\ \A r \in 0..(Wrap - 1) : (r + 1) % Wrap \in 0..(Wrap - 1)
  /\ {0, 1, 2} \subseteq 0..(Wrap - 1) /\ 0 \in Numbers /\ 0 \in 0..Wrap
  BY IRAssumption DEF IRAssumption, Advance, Numbers, After

\* Every command that a user queues is one.
LEMMA ArgumentsOK == Commands \subseteq Command /\ Held \in Command /\ TVCommand \in Command
<1>1. ASSUME NEW K \in SUBSET BOOLEAN, NEW F \in SUBSET BOOLEAN,
             NEW c \in [known : K, count : Count, follows : F, phases : Phases]
      PROVE  c \in Command
  <2>1. c = [known |-> c.known, count |-> c.count, follows |-> c.follows, phases |-> c.phases]
    OBVIOUS
  <2>2. c.known \in BOOLEAN /\ c.count \in Count /\ c.follows \in BOOLEAN /\ c.phases \in Phases
    OBVIOUS
  <2>3. QED
    BY <2>1, <2>2, Zenon DEF Command
<1>2. Commands \subseteq Command
  BY <1>1, IRAssumption DEF IRAssumption
<1>3. 1 \in Count
  BY IRAssumption DEF IRAssumption, Count
<1>4. Held \in Command /\ TVCommand \in Command
  BY <1>1, <1>3, IRAssumption DEF IRAssumption, Command
<1>5. QED
  BY <1>2, <1>4

\* Load keeps the types of what it changes.
LEMMA LoadOK ==
  ASSUME TypeOK, NEW k \in {0, 1}, alarms >= k, Load(k)
  PROVE  /\ iRead' \in 0..(Slots - 1) /\ buf' = buf /\ iWrite' = iWrite
         /\ running' \in BOOLEAN /\ alarms' \in Nat
         /\ tx' \in [num : Numbers, cmd : Command] \cup {None}
         /\ rep' \in 0..(Wrap - 1) /\ phase' \in 0..(Wrap - 1)
         /\ due' \in Numbers /\ reps' \in 0..Wrap /\ stopped' \in BOOLEAN
<1>1. buf[iRead] \in [num : Numbers, cmd : Command]
  BY DEF TypeOK
<1>2. buf[iRead].cmd.known \in BOOLEAN /\ buf[iRead].num \in Numbers
  BY <1>1 DEF Command
<1>3. running' \in BOOLEAN /\ stopped' \in BOOLEAN
  BY <1>2, Zenon DEF Load, IsReadReady
<1>4. alarms' \in Nat
  BY DEF Load, TypeOK
<1>5. QED
  BY <1>1, <1>2, <1>3, <1>4, InRange DEF Load, TypeOK, ring

\* A thread that has nothing to send does not keep its alarm.
LEMMA LoadKeepsOneAlarm ==
  ASSUME NEW k \in {0, 1}, Load(k) PROVE alarms' = IF running' THEN alarms ELSE alarms - k
  BY Zenon DEF Load

\* Every variable keeps to its range; in particular the indexes never leave the ring and
\* no alarm is taken off that was not set (CircBuf, IRTransmitter::TXThread).
THEOREM TypeInvariant == Spec => []TypeOK
<1>1. Init => TypeOK
  <2> SUFFICES ASSUME Init PROVE TypeOK
    OBVIOUS
  <2>1. [num |-> 0, cmd |-> TVCommand] \in [num : Numbers, cmd : Command]
    BY InRange, ArgumentsOK
  <2>2. 0 \in 0..(Slots - 1)
    BY IRAssumption DEF IRAssumption
  <2>3. QED
    BY <2>1, <2>2, InRange, ArgumentsOK DEF Init, TypeOK
<1>2. TypeOK /\ [Next]_vars => TypeOK'
  <2> SUFFICES ASSUME TypeOK, [Next]_vars PROVE TypeOK'
    OBVIOUS
  <2>1. CASE Repeat
    <3>1. rep' \in 0..(Wrap - 1) /\ phase' \in 0..(Wrap - 1)
      BY <2>1, InRange DEF Repeat, TypeOK, CodeToBitstream, PairPhase, ClosedPhase, EndPhase
    <3>2. reps' \in 0..Wrap
      BY <2>1, IRAssumption DEF Repeat, TypeOK, IRAssumption
    <3>3. QED
      BY <2>1, <3>1, <3>2 DEF Repeat, TypeOK, ring, users
  <2>2. CASE Finish
    <3>1. Load(1) /\ alarms >= 1
      BY <2>2 DEF Finish, TypeOK
    <3>2. QED
      BY <2>2, <3>1, LoadOK DEF Finish, TypeOK, users
  <2>3. CASE Write
    BY <2>3, InRange DEF Write, TypeOK, thread, users
  <2>4. CASE TXStart
    BY <2>4 DEF TXStart, TypeOK, ring, users
  <2>5. CASE FirstStep
    <3>1. Load(0) /\ alarms >= 0
      BY <2>5 DEF FirstStep, TypeOK
    <3>2. pc' \in {"loop", "alarm"}
      BY <2>5 DEF FirstStep
    <3>3. QED
      BY <2>5, <3>1, <3>2, LoadOK DEF FirstStep, TypeOK, users
  <2>6. CASE AddAlarm
    BY <2>6 DEF AddAlarm, TypeOK, ring, users
  <2>7. CASE Host \/ Press \/ TVWaiting
    BY <2>7, ArgumentsOK DEF Host, Press, TVWaiting, Queue, Unused, TypeOK, ring, thread, users
  <2>8. CASE Release \/ TVReady \/ TVSending
    BY <2>8 DEF Release, TVReady, TVSending, Unused, TypeOK, ring, thread
  <2>9. CASE UNCHANGED vars
    BY <2>9 DEF vars, TypeOK
  <2>10. QED
    BY <2>1, <2>2, <2>3, <2>4, <2>5, <2>6, <2>7, <2>8, <2>9 DEF Next, TXThread, Call
<1>3. QED
  BY <1>1, <1>2, PTL DEF Spec

\* There is one thread if txRunning is set, and none otherwise: no interleaving of
\* QueueCommand with the timer interrupt starts a second one or leaves txRunning set
\* without one (IRTransmitter::TXStart, TXThread).
THEOREM OneThreadRuns == Spec => []OneThread
<1>1. Init => OneThread
  BY DEF Init, OneThread
<1>2. TypeOK /\ OneThread /\ [Next]_vars => OneThread'
  <2> SUFFICES ASSUME TypeOK, OneThread, [Next]_vars PROVE OneThread'
    OBVIOUS
  <2> USE DEF TypeOK, OneThread
  <2>1. CASE Repeat
    BY <2>1 DEF Repeat
  <2>2. CASE Finish
    <3>0. alarms > 0 /\ pc' = pc
      BY <2>2 DEF Finish
    <3>1. alarms = 1 /\ pc \notin {"thread", "alarm"}
      BY <3>0
    <3>2. alarms' = IF running' THEN 1 ELSE 0
      <4>1. alarms' = IF running' THEN alarms ELSE alarms - 1
        BY <2>2, LoadKeepsOneAlarm DEF Finish
      <4>2. QED
        BY <3>1, <4>1
    <3>3. pc' \notin {"thread", "alarm"}
      BY <3>0, <3>1
    <3>4. QED
      BY <3>2, <3>3
  <2>3. CASE Write
    BY <2>3 DEF Write, thread
  <2>4. CASE TXStart
    BY <2>4 DEF TXStart
  <2>5. CASE FirstStep
    <3>1. alarms = 0 /\ pc' = IF running' THEN "alarm" ELSE "loop"
      BY <2>5 DEF FirstStep
    <3>2. alarms' = 0
      <4>1. alarms' = IF running' THEN alarms ELSE alarms - 0
        BY <2>5, LoadKeepsOneAlarm DEF FirstStep
      <4>2. QED
        BY <3>1, <4>1
    <3>3. QED
      BY <3>1, <3>2
  <2>6. CASE AddAlarm
    BY <2>6 DEF AddAlarm
  <2>7. CASE Host \/ Press \/ TVWaiting
    BY <2>7 DEF Host, Press, TVWaiting, Queue, Unused, thread
  <2>8. CASE Release \/ TVReady \/ TVSending
    BY <2>8 DEF Release, TVReady, TVSending, Unused, thread
  <2>9. CASE UNCHANGED vars
    BY <2>9 DEF vars
  <2>10. QED
    BY <2>1, <2>2, <2>3, <2>4, <2>5, <2>6, <2>7, <2>8, <2>9 DEF Next, TXThread, Call
<1>3. QED
  BY <1>1, <1>2, TypeInvariant, PTL DEF Spec

-----------------------------------------------------------------------------
(* The ring: the commands in it are the accepted ones that have not been    *)
(* taken yet, in their order.                                               *)

\* how far slot i is from slot r
From(r, i) == IF i >= r THEN i - r ELSE i - r + Slots

\* the number of the k-th command after number n
Nth(n, k) == IF n + k < 2 * Slots THEN n + k ELSE n + k - 2 * Slots

RingInv ==
  /\ \A i \in 0..(Slots - 1) :
       From(iRead, i) < From(iRead, iWrite) => buf[i].num = Nth(due, From(iRead, i))
  /\ next = Nth(due, From(iRead, iWrite))
  /\ pc = "write" => Advance(iWrite) # iRead

\* The next slot and the next number, without remainders.
LEMMA Linear ==
  /\ Slots \in Nat /\ Slots > 1
  /\ \A i \in 0..(Slots - 1) : Advance(i) = IF i = Slots - 1 THEN 0 ELSE i + 1
  /\ \A n \in Numbers : After(n) = IF n = 2 * Slots - 1 THEN 0 ELSE n + 1
  BY IRAssumption DEF IRAssumption, Advance, Numbers, After

\* One more place in the ring, or one less, seen from its two ends.
LEMMA FromSteps ==
  ASSUME NEW r \in 0..(Slots - 1), NEW w \in 0..(Slots - 1)
  PROVE  /\ From(r, w) \in 0..(Slots - 1)
         /\ From(r, w) = 0 <=> r = w
         /\ Advance(w) # r => From(r, Advance(w)) = From(r, w) + 1
         /\ \A i \in 0..(Slots - 1) : i # r => From(Advance(r), i) = From(r, i) - 1
         /\ From(Advance(r), r) = Slots - 1
         /\ \A i \in 0..(Slots - 1) : From(r, i) = From(r, w) => i = w
<1>1. Slots \in Nat /\ Slots > 1
  BY Linear
<1>2. Advance(w) = IF w = Slots - 1 THEN 0 ELSE w + 1
  BY Linear
<1>3. Advance(r) = IF r = Slots - 1 THEN 0 ELSE r + 1
  BY Linear
<1>4. QED
  BY <1>1, <1>2, <1>3 DEF From

\* The numbers that follow a number, one at a time.
LEMMA NthSteps ==
  ASSUME NEW n \in Numbers, NEW k \in 0..(Slots - 1)
  PROVE  /\ Nth(n, k) \in Numbers
         /\ Nth(n, 0) = n
         /\ After(Nth(n, k)) = Nth(n, k + 1)
         /\ k > 0 => Nth(After(n), k - 1) = Nth(n, k)
<1>1. Slots \in Nat /\ Slots > 1
  BY Linear
<1>2. Nth(n, k) \in Numbers
  BY <1>1 DEF Nth, Numbers
<1>3. After(n) = IF n = 2 * Slots - 1 THEN 0 ELSE n + 1
  BY Linear
<1>4. After(Nth(n, k)) = IF Nth(n, k) = 2 * Slots - 1 THEN 0 ELSE Nth(n, k) + 1
  BY <1>2, Linear
<1>5. QED
  BY <1>1, <1>2, <1>3, <1>4 DEF Nth, Numbers

\* The command at the read index is the one that is due.
LEMMA FirstIsDue == TypeOK /\ RingInv /\ IsReadReady => buf[iRead].num = due
<1> SUFFICES ASSUME TypeOK, RingInv, iRead # iWrite PROVE buf[iRead].num = due
  BY DEF IsReadReady
<1>1. iRead \in 0..(Slots - 1) /\ iWrite \in 0..(Slots - 1) /\ due \in Numbers
  BY DEF TypeOK
<1>2. From(iRead, iRead) = 0 /\ From(iRead, iWrite) > 0
  BY <1>1, FromSteps
<1>3. buf[iRead].num = Nth(due, 0)
  BY <1>1, <1>2 DEF RingInv
<1>4. QED
  BY <1>1, <1>3, NthSteps, Linear

\* Taking commands from the ring keeps the numbers in it consecutive.
LEMMA LoadKeepsRing ==
  ASSUME TypeOK, RingInv, NEW k, Load(k), UNCHANGED next, pc' # "write" \/ pc' = pc
  PROVE  RingInv'
<1>1. iRead \in 0..(Slots - 1) /\ iWrite \in 0..(Slots - 1) /\ due \in Numbers
  BY DEF TypeOK
<1>2. CASE IsReadReady
  <2>1. iRead' = Advance(iRead) /\ due' = After(due) /\ UNCHANGED <<buf, iWrite>>
    BY <1>2, FirstIsDue DEF Load
  <2>2. iRead # iWrite /\ Advance(iRead) \in 0..(Slots - 1)
    BY <1>1, <1>2, InRange DEF IsReadReady
  <2>3. From(iRead', iWrite') = From(iRead, iWrite) - 1 /\ From(iRead, iWrite) \in 1..(Slots - 1)
    <3>1. From(iRead, iWrite) \in 0..(Slots - 1) /\ From(iRead, iWrite) # 0
      BY <1>1, <2>2, FromSteps
    <3>2. From(Advance(iRead), iWrite) = From(iRead, iWrite) - 1
      BY <1>1, <2>2, FromSteps
    <3>3. QED
      BY <2>1, <3>1, <3>2, Linear
  <2>4. ASSUME NEW i \in 0..(Slots - 1), From(iRead', i) < From(iRead', iWrite')
        PROVE  buf'[i].num = Nth(due', From(iRead', i))
    <3>1. i # iRead
      <4>1. From(Advance(iRead), iRead) = Slots - 1
        BY <1>1, FromSteps
      <4>2. QED
        BY <2>1, <2>3, <2>4, <4>1, Linear
    <3>2. From(iRead', i) = From(iRead, i) - 1 /\ From(iRead, i) \in 1..(Slots - 1)
      <4>1. From(iRead, i) \in 0..(Slots - 1) /\ From(iRead, i) # 0
        BY <1>1, <3>1, FromSteps
      <4>2. From(Advance(iRead), i) = From(iRead, i) - 1
        BY <1>1, <3>1, FromSteps
      <4>3. QED
        BY <2>1, <4>1, <4>2, Linear
    <3>3. buf[i].num = Nth(due, From(iRead, i))
      BY <2>3, <2>4, <3>2, Linear DEF RingInv
    <3>4. Nth(due', From(iRead, i) - 1) = Nth(due, From(iRead, i))
      BY <1>1, <2>1, <3>2, NthSteps, Linear
    <3>5. QED
      BY <2>1, <3>2, <3>3, <3>4
  <2>5. next' = Nth(due', From(iRead', iWrite'))
    <3>1. Nth(due', From(iRead, iWrite) - 1) = Nth(due, From(iRead, iWrite))
      BY <1>1, <2>1, <2>3, NthSteps, Linear
    <3>2. QED
      BY <2>3, <3>1 DEF RingInv
  <2>6. Advance(iWrite') # iRead'
    BY <1>1, <2>1, <2>2, Linear
  <2>7. QED
    BY <2>4, <2>5, <2>6 DEF RingInv
<1>3. CASE ~IsReadReady
  <2>1. UNCHANGED <<buf, iRead, iWrite, due>>
    BY <1>3 DEF Load, ring
  <2>2. QED
    BY <2>1 DEF RingInv
<1>4. QED
  BY <1>2, <1>3

\* So does queueing one.
LEMMA WriteKeepsRing == TypeOK /\ RingInv /\ Write => RingInv'
<1> SUFFICES ASSUME TypeOK, RingInv, Write PROVE RingInv'
  OBVIOUS
<1>1. iRead \in 0..(Slots - 1) /\ iWrite \in 0..(Slots - 1) /\ due \in Numbers
  BY DEF TypeOK
<1>2. /\ buf' = [buf EXCEPT ![iWrite] = [num |-> next, cmd |-> cmd]]
      /\ iWrite' = Advance(iWrite) /\ next' = After(next) /\ UNCHANGED <<iRead, due>>
      /\ Advance(iWrite) # iRead /\ pc' = "start"
  BY DEF Write, RingInv
<1>3. Advance(iWrite) \in 0..(Slots - 1)
  BY <1>1, InRange
<1>4. /\ From(iRead, iWrite') = From(iRead, iWrite) + 1
      /\ From(iRead, iWrite) \in 0..(Slots - 1) /\ From(iRead, iWrite') \in 0..(Slots - 1)
  BY <1>1, <1>2, <1>3, FromSteps
<1>5. next = Nth(due, From(iRead, iWrite))
  BY DEF RingInv
<1>6. next' = Nth(due', From(iRead', iWrite'))
  BY <1>1, <1>2, <1>4, <1>5, NthSteps
<1>7. ASSUME NEW i \in 0..(Slots - 1), From(iRead, i) < From(iRead, iWrite')
      PROVE  buf'[i].num = Nth(due, From(iRead, i))
  <2>1. CASE i = iWrite
    BY <1>1, <1>2, <1>5, <2>1 DEF TypeOK
  <2>2. CASE i # iWrite
    <3>1. From(iRead, i) \in 0..(Slots - 1) /\ From(iRead, i) # From(iRead, iWrite)
      BY <1>1, <2>2, FromSteps
    <3>2. From(iRead, i) < From(iRead, iWrite)
      BY <1>4, <1>7, <3>1, Linear
    <3>3. QED
      BY <1>2, <2>2, <3>2 DEF RingInv, TypeOK
  <2>3. QED
    BY <2>1, <2>2
<1>8. QED
  BY <1>2, <1>6, <1>7 DEF RingInv

\* The commands in the ring are numbered in the order they were queued.
LEMMA RingInvariant == Spec => []RingInv
<1>1. Init => RingInv
  <2> SUFFICES ASSUME Init PROVE RingInv
    OBVIOUS
  <2>1. 0 \in 0..(Slots - 1) /\ 0 \in Numbers
    BY Linear, InRange
  <2>2. From(0, 0) = 0 /\ Nth(0, 0) = 0
    BY <2>1, FromSteps, NthSteps
  <2>3. \A i \in 0..(Slots - 1) : From(0, i) \in Nat
    BY <2>1, FromSteps
  <2>4. QED
    BY <2>2, <2>3 DEF Init, RingInv
<1>2. TypeOK /\ RingInv /\ [Next]_vars => RingInv'
  <2> SUFFICES ASSUME TypeOK, RingInv, [Next]_vars PROVE RingInv'
    OBVIOUS
  <2>1. CASE Repeat
    BY <2>1 DEF Repeat, RingInv, ring
  <2>2. CASE Finish
    BY <2>2, LoadKeepsRing DEF Finish
  <2>3. CASE Write
    BY <2>3, WriteKeepsRing
  <2>4. CASE TXStart \/ AddAlarm
    BY <2>4 DEF TXStart, AddAlarm, RingInv, ring
  <2>5. CASE FirstStep
    BY <2>5, LoadKeepsRing DEF FirstStep
  <2>6. CASE Host \/ Press \/ TVWaiting
    <3>1. /\ UNCHANGED <<buf, iRead, iWrite, next, due>>
          /\ pc' = "write" => Advance(iWrite) # iRead
      BY <2>6 DEF Host, Press, TVWaiting, Queue, IsFull, Unused, ring
    <3>2. QED
      BY <3>1 DEF RingInv
  <2>7. CASE Release \/ TVReady \/ TVSending
    BY <2>7 DEF Release, TVReady, TVSending, Unused, RingInv, ring
  <2>8. CASE UNCHANGED vars
    BY <2>8 DEF vars, RingInv
  <2>9. QED
    BY <2>1, <2>2, <2>3, <2>4, <2>5, <2>6, <2>7, <2>8 DEF Next, TXThread, Call
<1>3. QED
  BY <1>1, <1>2, TypeInvariant, PTL DEF Spec

\* Commands are taken in the order in which they were accepted, none twice and none
\* left out: Write in the main loop and Read in the timer interrupt share the ring
\* without a lock, whatever its size.
THEOREM CommandsInOrder == Spec => TakenInOrder
<1>1. TypeOK /\ RingInv /\ [Next]_vars => [iRead' # iRead => buf[iRead].num = due]_vars
  <2> SUFFICES ASSUME TypeOK, RingInv, [Next]_vars, iRead' # iRead PROVE buf[iRead].num = due
    OBVIOUS
  <2>1. ASSUME NEW k, Load(k) PROVE IsReadReady
    BY <2>1 DEF Load, ring
  <2>2. CASE Repeat \/ Write \/ TXStart \/ AddAlarm
    BY <2>2 DEF Repeat, Write, TXStart, AddAlarm, ring
  <2>3. CASE Finish \/ FirstStep
    BY <2>1, <2>3, FirstIsDue DEF Finish, FirstStep
  <2>4. CASE Host \/ Press \/ Release \/ TVReady \/ TVWaiting \/ TVSending
    BY <2>4 DEF Host, Press, Release, TVReady, TVWaiting, TVSending, Unused, ring
  <2>5. CASE UNCHANGED vars
    BY <2>5 DEF vars
  <2>6. QED
    BY <2>2, <2>3, <2>4, <2>5 DEF Next, TXThread, Call
<1>2. QED
  BY <1>1, TypeInvariant, RingInvariant, PTL DEF Spec, TakenInOrder

-----------------------------------------------------------------------------
(* The command of the TV-ON sequencer, from IRWaiting to its last           *)
(* repetition.                                                              *)

\* It is the only one in the ring.
OwnInRing == /\ iWrite = Advance(iRead)
             /\ buf[iRead] = [num |-> own, cmd |-> TVCommand]

TVInv ==
  /\ tv # "sending" => own = None
  /\ pc = "write" /\ cmd = TVCommand => tv = "sending" /\ iRead = iWrite /\ ~running
  /\ own # None =>
       \/ pc = "start" /\ ~running /\ OwnInRing
       \/ pc = "thread" /\ OwnInRing
       \/ pc # "thread" /\ running /\ tx # None /\ tx.num = own

\* Only the TV-ON sequencer queues its command.
LEMMA OthersQueue == TVCommand \notin Commands /\ TVCommand # Held
<1>1. TVCommand.follows = FALSE /\ Held.follows = TRUE
  BY IRAssumption DEF IRAssumption
<1>2. QED
  BY <1>1, IRAssumption DEF IRAssumption

\* A step that leaves the thread and the ring alone, and QueueCommand where it is.
LEMMA TVUntouched ==
  ASSUME TVInv, UNCHANGED <<buf, iRead, iWrite, running, tx, own, tv, pc, cmd>>
  PROVE  TVInv'
  BY DEF TVInv, OwnInRing

\* QueueCommand is called by another user.
LEMMA TVOtherQueues ==
  ASSUME TVInv, NEW c, c # TVCommand, Queue(c), UNCHANGED <<buf, iRead, iWrite, running, tx, own, tv>>
  PROVE  TVInv'
<1>1. pc = "loop" /\ pc' \in {"loop", "write"} /\ cmd' # TVCommand
  BY DEF Queue
<1>2. QED
  BY <1>1 DEF TVInv

\* TV ON's command is the one it waits for.
LEMMA TVInvariant == Spec => []TVInv
<1>1. Init => TVInv
  BY DEF Init, TVInv
<1>2. TypeOK /\ OneThread /\ TVInv /\ [Next]_vars => TVInv'
  <2> SUFFICES ASSUME TypeOK, OneThread, TVInv, [Next]_vars PROVE TVInv'
    OBVIOUS
  <2>0. ~running => alarms = 0 /\ pc \notin {"thread", "alarm"}
    BY DEF OneThread, TypeOK
  <2>a. pc \in {"thread", "alarm"} => alarms = 0 /\ running
    BY DEF OneThread, TypeOK
  <2>1. CASE Repeat
    <3>1. UNCHANGED <<buf, iRead, iWrite, running, tx, own, tv, pc, cmd>>
      BY <2>1 DEF Repeat, ring, users
    <3>2. QED
      BY <3>1, TVUntouched
  <2>2. CASE Finish
    <3>1. alarms > 0 /\ UNCHANGED <<tv, pc, cmd>>
      BY <2>2 DEF Finish, users
    <3>2. running /\ pc # "thread"
      BY <2>0, <2>a, <3>1
    <3>3. own # None => own' = None
      BY <2>2, <3>2 DEF Finish, TVInv
    <3>4. own' = None
      BY <2>2, <3>3 DEF Finish
    <3>5. QED
      BY <3>1, <3>2, <3>4 DEF TVInv
  <2>3. CASE Write
    <3>1. /\ pc = "write" /\ pc' = "start" /\ UNCHANGED <<iRead, running, tx, tv, cmd>>
          /\ buf' = [buf EXCEPT ![iWrite] = [num |-> next, cmd |-> cmd]]
          /\ iWrite' = Advance(iWrite)
          /\ own' = IF tv = "sending" /\ cmd = TVCommand THEN next ELSE own
      BY <2>3 DEF Write, thread, users
    <3>2. CASE tv = "sending" /\ cmd = TVCommand
      <4>1. iRead = iWrite /\ ~running
        BY <3>1, <3>2 DEF TVInv
      <4>2. OwnInRing'
        BY <3>1, <3>2, <4>1 DEF OwnInRing, TypeOK
      <4>3. QED
        BY <3>1, <3>2, <4>1, <4>2 DEF TVInv
    <3>3. CASE ~(tv = "sending" /\ cmd = TVCommand)
      BY <3>1, <3>3 DEF TVInv
    <3>4. QED
      BY <3>2, <3>3
  <2>4. CASE TXStart
    <3>1. /\ pc = "start" /\ pc' = (IF running THEN "loop" ELSE "thread") /\ running'
          /\ UNCHANGED <<buf, iRead, iWrite, tx, own, tv, cmd>>
      BY <2>4 DEF TXStart, ring, users
    <3>2. OwnInRing' <=> OwnInRing
      BY <3>1 DEF OwnInRing
    <3>3. QED
      BY <3>1, <3>2 DEF TVInv
  <2>5. CASE FirstStep
    <3>1. pc = "thread" /\ pc' \in {"loop", "alarm"} /\ UNCHANGED <<tv, own, cmd>> /\ Load(0)
      BY <2>5 DEF FirstStep, users
    <3>2. CASE own = None
      BY <3>1, <3>2 DEF TVInv
    <3>3. CASE own # None
      <4>1. OwnInRing
        BY <3>1, <3>3 DEF TVInv
      <4>2. TVCommand.known = TRUE
        BY IRAssumption DEF IRAssumption
      <4>3. IsReadReady
        <5>1. iWrite = Advance(iRead) /\ iRead \in 0..(Slots - 1)
          BY <4>1 DEF OwnInRing, TypeOK
        <5>2. QED
          BY <5>1, Linear DEF IsReadReady
      <4>4. buf[iRead].cmd.known = TRUE /\ buf[iRead].num = own
        BY <4>1, <4>2 DEF OwnInRing
      <4>5. buf[iRead] # None
        <5>1. buf[iRead] \in [num : Numbers, cmd : Command]
          BY DEF TypeOK
        <5>2. buf[iRead] \in [num : Nat, cmd : Command]
          BY <5>1, Linear DEF Numbers
        <5>3. QED
          BY <5>2, IRAssumption DEF IRAssumption
      <4>6. running' /\ tx' = buf[iRead]
        BY <3>1, <4>3, <4>4 DEF Load
      <4>7. QED
        BY <3>1, <4>4, <4>5, <4>6 DEF TVInv
    <3>4. QED
      BY <3>2, <3>3
  <2>6. CASE AddAlarm
    <3>1. pc = "alarm" /\ pc' = "loop" /\ UNCHANGED <<buf, iRead, iWrite, running, tx, own, tv, cmd>>
      BY <2>6 DEF AddAlarm, ring, users
    <3>2. QED
      BY <3>1 DEF TVInv
  <2>7. CASE Host
    BY <2>7, OthersQueue, TVOtherQueues DEF Host, Unused, users, ring, thread
  <2>8. CASE Press
    BY <2>8, OthersQueue, TVOtherQueues DEF Press, Unused, ring, thread
  <2>9. CASE TVWaiting
    <3>1. /\ pc = "loop" /\ tv = "waiting" /\ tv' = "sending" /\ ~running /\ iRead = iWrite
          /\ UNCHANGED <<buf, iRead, iWrite, running, tx, own>> /\ cmd' = TVCommand
      BY <2>9 DEF TVWaiting, Queue, Unused, IsBusy, IsReadReady, ring, thread
    <3>2. own = None
      BY <3>1 DEF TVInv
    <3>3. QED
      BY <3>1, <3>2 DEF TVInv
  <2>10. CASE Release
    <3>1. UNCHANGED <<buf, iRead, iWrite, running, tx, own, tv, pc, cmd>>
      BY <2>10 DEF Release, Unused, ring, thread
    <3>2. QED
      BY <3>1, TVUntouched
  <2>11. CASE TVReady \/ TVSending
    <3>1. /\ pc = "loop"
          /\ tv # "sending" \/ ~running
          /\ UNCHANGED <<buf, iRead, iWrite, running, tx, own, pc, cmd>>
      BY <2>11 DEF TVReady, TVSending, Unused, ring, thread
    <3>2. own = None
      BY <3>1 DEF TVInv
    <3>3. QED
      BY <3>1, <3>2 DEF TVInv
  <2>12. CASE UNCHANGED vars
    BY <2>12, TVUntouched DEF vars
  <2>13. QED
    BY <2>1, <2>2, <2>3, <2>4, <2>5, <2>6, <2>7, <2>8, <2>9, <2>10, <2>11, <2>12
    DEF Next, TXThread, Call
<1>3. QED
  BY <1>1, <1>2, TypeInvariant, OneThreadRuns, PTL DEF Spec

\* IRSending of the TV-ON sequencer waits for its own command: when the sequencer
\* goes on, the command has been sent with all its repetitions, although IsBusy looks
\* at the buffer and at txRunning one after the other.
THEOREM TVWaitsForItsOwn == Spec => []TVSentItsOwn
<1>1. TVInv => TVSentItsOwn
  BY DEF TVInv, TVSentItsOwn
<1>2. QED
  BY <1>1, TVInvariant, PTL

-----------------------------------------------------------------------------
(* The repetitions of the command that is being sent                        *)

\* repeatPhase in repetition r of a command with a count
PhaseAt(c, r) ==
  IF c.phases = "closed" THEN (IF r = 0 THEN 0 ELSE IF r < c.count THEN 1 ELSE 2)
  ELSE IF c.phases = "paired" THEN r % 2 ELSE r

RepsInv ==
  /\ ~running \/ pc = "thread" => tx = None
  /\ tx # None =>
       /\ tx.cmd.phases = "paired" => phase \in {0, 1}
       /\ tx.cmd.phases = "closed" => phase \in {0, 1, 2}
       /\ ~tx.cmd.follows =>
            reps = rep /\ phase = PhaseAt(tx.cmd, rep) /\ rep + 1 <= Times(tx.cmd)

\* The phases that do not only count keep to their cycle, whatever the button does.
LEMMA PhaseRange ==
  ASSUME TypeOK, RepsInv, tx # None
  PROVE  /\ tx.cmd.phases = "paired" => phase \in {0, 1} /\ CodeToBitstream(tx.cmd) \in {0, 1}
         /\ tx.cmd.phases = "closed" => phase \in {0, 1, 2} /\ CodeToBitstream(tx.cmd) \in {0, 1, 2}
         /\ tx.cmd.phases # "counted" => EndPhase = phase + 1
<1>1. tx.cmd.phases \in Phases
  BY DEF TypeOK, Command
<1>2. tx.cmd.phases # "counted" => phase \in {0, 1, 2} /\ EndPhase = phase + 1
  BY <1>1, IRAssumption DEF RepsInv, Phases, EndPhase, IRAssumption
<1>3. QED
  BY <1>2 DEF RepsInv, CodeToBitstream, PairPhase, ClosedPhase

\* What TypeOK says of the numbers of a command with a count.
LEMMA Numbered ==
  ASSUME TypeOK, tx # None
  PROVE  /\ tx.cmd.phases \in Phases /\ rep \in 0..(Wrap - 1) /\ phase \in 0..(Wrap - 1)
         /\ tx.cmd.count \in 1..(Wrap - 1) /\ MinReps \in 1..(Wrap - 1) /\ Wrap \in Nat /\ Wrap > 3
         /\ Times(tx.cmd) \in 1..Wrap
         /\ tx.cmd.follows \in BOOLEAN
<1>1. tx.cmd \in Command
  BY DEF TypeOK
<1>2. /\ tx.cmd.phases \in Phases /\ tx.cmd.count \in 1..(Wrap - 1) /\ Wrap \in Nat /\ Wrap > 3
      /\ MinReps \in 1..(Wrap - 1) /\ tx.cmd.follows \in BOOLEAN
  BY <1>1, IRAssumption DEF IRAssumption, Command, Count
<1>3. Times(tx.cmd) \in 1..Wrap
  BY <1>2 DEF Times
<1>4. QED
  BY <1>2, <1>3 DEF TypeOK

\* A command is over when it has been sent often enough, and not before; and its
\* protocol keeps the phase in step with the repetitions.
LEMMA Repeats ==
  ASSUME TypeOK, RepsInv, tx # None, ~tx.cmd.follows
  PROVE  /\ MoreRepeatsPending(tx.cmd) <=> rep + 1 < Times(tx.cmd)
         /\ MoreRepeatsPending(tx.cmd) =>
              (rep + 1) % Wrap = rep + 1 /\ CodeToBitstream(tx.cmd) = PhaseAt(tx.cmd, rep + 1)
<1> DEFINE n == tx.cmd.count
<1>1. /\ rep \in Nat /\ n \in Nat \ {0} /\ MinReps \in Nat \ {0} /\ Wrap \in Nat
      /\ Times(tx.cmd) \in Nat /\ Times(tx.cmd) <= Wrap
  BY Numbered
<1>2. phase = PhaseAt(tx.cmd, rep) /\ rep + 1 <= Times(tx.cmd)
  BY DEF RepsInv
<1>3. Pressed(tx.cmd) <=> rep + 1 < n
  <2>1. Pressed(tx.cmd) <=> n > 1 /\ rep + 1 < n
    BY Zenon DEF Pressed
  <2>2. QED
    BY <1>1, <2>1
<1>4. rep + 1 < Times(tx.cmd) => (rep + 1) % Wrap = rep + 1
  BY <1>1
<1>5. CASE tx.cmd.phases = "counted"
  <2>1. phase = rep /\ Times(tx.cmd) = IF n > MinReps THEN n ELSE MinReps
    BY <1>2, <1>5 DEF PhaseAt, Times
  <2>2. EndPhase = rep + 1
    BY <1>1, <1>2, <2>1, Numbered DEF EndPhase
  <2>3. TxMinReps(tx.cmd) = MinReps /\ CodeToBitstream(tx.cmd) = EndPhase
    BY <1>5 DEF TxMinReps, CodeToBitstream, PairPhase, ClosedPhase
  <2>4. PhaseAt(tx.cmd, rep + 1) = rep + 1
    BY <1>5 DEF PhaseAt
  <2>5. MoreRepeatsPending(tx.cmd) <=> rep + 1 < n \/ rep + 1 < MinReps
    BY <1>3, <2>2, <2>3, Zenon DEF MoreRepeatsPending
  <2>6. QED
    BY <1>1, <1>4, <2>1, <2>2, <2>3, <2>4, <2>5
<1>6. CASE tx.cmd.phases = "paired"
  <2>1. phase = rep % 2 /\ Times(tx.cmd) = n + (n % 2)
    BY <1>2, <1>6 DEF PhaseAt, Times
  <2>2. EndPhase = phase + 1
    BY <1>6, PhaseRange
  <2>3. /\ TxMinReps(tx.cmd) = 2 /\ PhaseAt(tx.cmd, rep + 1) = (rep + 1) % 2
        /\ CodeToBitstream(tx.cmd) = IF EndPhase = 2 THEN 0 ELSE EndPhase
    BY <1>6 DEF TxMinReps, CodeToBitstream, PairPhase, ClosedPhase, PhaseAt
  <2>4. MoreRepeatsPending(tx.cmd) <=> rep + 1 < n \/ phase + 1 < 2
    BY <1>3, <2>2, <2>3, Zenon DEF MoreRepeatsPending
  <2>5. MoreRepeatsPending(tx.cmd) <=> rep + 1 < Times(tx.cmd)
    BY <1>1, <1>2, <2>1, <2>4
  <2>6. CodeToBitstream(tx.cmd) = (rep + 1) % 2
    BY <1>1, <2>1, <2>2, <2>3
  <2>7. QED
    BY <1>4, <2>3, <2>5, <2>6
<1>7. CASE tx.cmd.phases = "closed"
  <2>1. /\ phase = IF rep = 0 THEN 0 ELSE IF rep < n THEN 1 ELSE 2
        /\ Times(tx.cmd) = n + 1
    BY <1>2, <1>7 DEF PhaseAt, Times
  <2>2. EndPhase = phase + 1
    BY <1>7, PhaseRange
  <2>3. /\ TxMinReps(tx.cmd) = 3
        /\ PhaseAt(tx.cmd, rep + 1) =
             IF rep + 1 = 0 THEN 0 ELSE IF rep + 1 < n THEN 1 ELSE 2
    BY <1>7 DEF TxMinReps, PhaseAt
  <2>4. CodeToBitstream(tx.cmd) = IF EndPhase > 0 THEN (IF rep + 1 < n THEN 1 ELSE 2) ELSE EndPhase
    BY <1>3, <1>7 DEF CodeToBitstream, PairPhase, ClosedPhase
  <2>5. MoreRepeatsPending(tx.cmd) <=> rep + 1 < n \/ phase + 1 < 3
    BY <1>3, <2>2, <2>3, Zenon DEF MoreRepeatsPending
  <2>6. MoreRepeatsPending(tx.cmd) <=> rep + 1 < Times(tx.cmd)
    BY <1>1, <2>1, <2>5
  <2>7. CodeToBitstream(tx.cmd) = PhaseAt(tx.cmd, rep + 1)
    BY <1>1, <2>1, <2>2, <2>3, <2>4
  <2>8. QED
    BY <1>4, <2>6, <2>7
<1>8. QED
  BY <1>5, <1>6, <1>7, Numbered DEF Phases

\* A command that is loaded has not been sent yet.
LEMMA LoadStartsReps ==
  ASSUME TypeOK', NEW k, Load(k), pc' # "thread" PROVE RepsInv'
<1>1. (~running' => tx' = None) /\ rep' = 0 /\ phase' = 0 /\ reps' = 0
  BY DEF Load
<1>2. ASSUME tx' # None PROVE 1 <= Times(tx'.cmd) /\ 0 = PhaseAt(tx'.cmd, 0)
  <2>1. tx'.cmd.count \in Nat \ {0} /\ MinReps \in Nat \ {0}
    BY SMTT(30), <1>2, IRAssumption DEF IRAssumption, TypeOK, Command, Count
  <2>2. QED
    BY <2>1 DEF Times, PhaseAt
<1>3. QED
  BY <1>1, <1>2 DEF RepsInv, Times, PhaseAt

\* A command is never sent more often than it has repeats.
LEMMA RepsInvariant == Spec => []RepsInv
<1>1. Init => RepsInv
  BY DEF Init, RepsInv
<1>2. TypeOK /\ TypeOK' /\ OneThread /\ RepsInv /\ [Next]_vars => RepsInv'
  <2> SUFFICES ASSUME TypeOK, TypeOK', OneThread, RepsInv, [Next]_vars PROVE RepsInv'
    OBVIOUS
  <2>1. CASE Repeat
    <3>1. /\ tx # None /\ MoreRepeatsPending(tx.cmd) /\ UNCHANGED <<tx, running, pc>>
          /\ rep' = (rep + 1) % Wrap /\ phase' = CodeToBitstream(tx.cmd)
          /\ reps' = IF reps < Wrap THEN reps + 1 ELSE reps
      BY <2>1 DEF Repeat
    <3>2. ASSUME ~tx.cmd.follows
          PROVE  reps' = rep' /\ phase' = PhaseAt(tx.cmd, rep') /\ rep' + 1 <= Times(tx.cmd)
      <4>1. /\ rep' = rep + 1 /\ rep + 1 < Times(tx.cmd) /\ phase' = PhaseAt(tx.cmd, rep + 1)
            /\ reps = rep
        BY <3>1, <3>2, Repeats DEF RepsInv
      <4>2. Wrap \in Nat /\ Times(tx.cmd) \in Nat /\ Times(tx.cmd) <= Wrap /\ rep \in Nat
        BY <3>1, Numbered
      <4>3. QED
        BY <3>1, <4>1, <4>2
    <3>3. /\ tx.cmd.phases = "paired" => phase' \in {0, 1}
          /\ tx.cmd.phases = "closed" => phase' \in {0, 1, 2}
      BY <3>1, PhaseRange
    <3>4. QED
      BY <3>1, <3>2, <3>3 DEF RepsInv, Times, PhaseAt
  <2>2. CASE Finish
    <3>1. alarms > 0 /\ pc' = pc /\ Load(1)
      BY <2>2 DEF Finish
    <3>2. pc # "thread"
      BY <3>1 DEF OneThread, TypeOK
    <3>3. QED
      BY <3>1, <3>2, LoadStartsReps
  <2>3. CASE FirstStep
    <3>1. Load(0) /\ pc' # "thread"
      BY <2>3 DEF FirstStep
    <3>2. QED
      BY <3>1, LoadStartsReps
  <2>4. CASE TXStart
    <3>1. /\ pc' = (IF running THEN "loop" ELSE "thread") /\ running' = TRUE
          /\ UNCHANGED <<tx, rep, phase, reps>>
      BY <2>4 DEF TXStart
    <3>2. QED
      BY <3>1 DEF RepsInv, Times, PhaseAt
  <2>5. ASSUME UNCHANGED <<running, tx, rep, phase, reps>>, pc' # "thread" PROVE RepsInv'
    BY <2>5 DEF RepsInv, Times, PhaseAt
  <2>6. CASE Write \/ AddAlarm
    BY <2>5, <2>6 DEF Write, AddAlarm, thread
  <2>7. CASE Host \/ Press \/ TVWaiting
    BY <2>5, <2>7 DEF Host, Press, TVWaiting, Queue, Unused, thread
  <2>8. CASE Release \/ TVReady \/ TVSending
    BY <2>5, <2>8 DEF Release, TVReady, TVSending, Unused, thread
  <2>9. CASE UNCHANGED vars
    BY <2>9 DEF vars, RepsInv, Times, PhaseAt
  <2>10. QED
    BY <2>1, <2>2, <2>3, <2>4, <2>6, <2>7, <2>8, <2>9 DEF Next, TXThread, Call
<1>3. QED
  BY <1>1, <1>2, TypeInvariant, OneThreadRuns, PTL DEF Spec

\* A command with a count is sent as often as it was asked for, or as its protocol
\* demands, for all counts, TxMinReps and kinds of protocol: the two conditions of
\* TxEnd end at the right one, although pairs and closed sequences set repeatPhase back.
\* Whatever command ends, its last pair or sequence is whole, however often the button
\* that it follows changed its state while it was sent.
THEOREM CommandSentAsOften == Spec => SentAsOften
<1> DEFINE Step == tx # None /\ tx' # tx =>
                     (tx.cmd.follows \/ reps + 1 = Times(tx.cmd)) /\ Whole(tx.cmd)
<1>1. TypeOK /\ OneThread /\ RepsInv /\ [Next]_vars => [Step]_vars
  <2> SUFFICES ASSUME TypeOK, OneThread, RepsInv, [Next]_vars, tx # None, tx' # tx
               PROVE  (tx.cmd.follows \/ reps + 1 = Times(tx.cmd)) /\ Whole(tx.cmd)
    OBVIOUS
  <2>1. Next
    BY DEF vars
  <2>2. UNCHANGED tx \/ Finish \/ FirstStep
    BY <2>1 DEF Next, TXThread, Call, Repeat, Write, TXStart, AddAlarm, Host, Press, Release,
                TVReady, TVWaiting, TVSending, Unused, thread
  <2>3. ~FirstStep
    BY DEF FirstStep, RepsInv
  <2>4. ~MoreRepeatsPending(tx.cmd)
    BY <2>2, <2>3 DEF Finish
  <2>5. ASSUME ~tx.cmd.follows PROVE reps + 1 = Times(tx.cmd)
    <3>1. reps = rep /\ rep + 1 <= Times(tx.cmd)
      BY <2>5 DEF RepsInv
    <3>2. rep \in Nat /\ Times(tx.cmd) \in Nat /\ ~(rep + 1 < Times(tx.cmd))
      BY <2>4, <2>5, Repeats, Numbered
    <3>3. QED
      BY <3>1, <3>2
  <2>6. Whole(tx.cmd)
    <3>1. ~(EndPhase < TxMinReps(tx.cmd))
      BY <2>4 DEF MoreRepeatsPending
    <3>2. /\ tx.cmd.phases = "paired" => TxMinReps(tx.cmd) = 2
          /\ tx.cmd.phases = "closed" => TxMinReps(tx.cmd) = 3
      BY DEF TxMinReps
    <3>3. QED
      BY <3>1, <3>2, PhaseRange DEF Whole
  <2>7. QED
    BY <2>5, <2>6
<1>2. SentAsOften <=> [][Step]_vars
  BY DEF SentAsOften
<1>3. QED
  BY <1>1, <1>2, TypeInvariant, OneThreadRuns, RepsInvariant, PTL DEF Spec
=============================================================================
