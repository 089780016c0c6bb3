------------------------------ MODULE IRTransmit -----------------------------
(****************************************************************************)
(* The infrared transmitter (Firmware/IRRemote/IRTransmitter.cpp): the main *)
(* loop puts commands into a ring buffer, and a chain of timer interrupts   *)
(* (the "thread") takes them out and sends them.  The thread is started     *)
(* from the main loop when it is not running and ends by itself.  Its users *)
(* are the host, a button whose command repeats while it is held, and the   *)
(* TV-ON sequencer, which waits for the transmitter.                        *)
(*                                                                          *)
(* The alarms within one repetition of a code are one, the last of them,    *)
(* which decides whether to repeat.  The virtual remote control             *)
(* (PushButton) has no caller and is left out.                              *)
(****************************************************************************)
EXTENDS Integers

CONSTANTS
  Slots,      \* size of the ring buffer (16), which holds one less
  Wrap,       \* repeatNumber and repeatPhase are integers below Wrap (256)
  MinReps,    \* TxMinReps of the protocols that only count: 1, for Sony 3
  Commands,   \* what the host sends: [known, count, follows, phases]
  Held,       \* the command of the button, which follows its state
  TVCommand,  \* the command of the TV-ON sequencer
  None

\* With a count above Wrap a command would be repeated for ever, as repeatNumber is back at
\* 0 after Wrap repetitions; a protocol that only counts does it with a count of Wrap, too.
Count == 1..(Wrap - 1)

\* What a protocol makes of repeatPhase.  Most of them count the repetitions with it.
\* Denon, TCL Roku and an extended code of Pioneer send a code in two parts, each of
\* which is a repetition.  OrtekMCE numbers the first one 0, the last one 2 and the
\* ones between them 1.
Phases == {"counted", "paired", "closed"}
Command == [known : BOOLEAN, count : Count, follows : BOOLEAN, phases : Phases]

IRAssumption ==
  /\ Slots \in Nat /\ Slots > 1
  /\ Wrap \in Nat /\ Wrap > 3 /\ MinReps \in 1..(Wrap - 1)
  /\ Commands \subseteq [known : BOOLEAN, count : Count, follows : {FALSE}, phases : Phases]
  /\ Held \in [known : {TRUE}, count : {1}, follows : {TRUE}, phases : Phases]
  /\ TVCommand \in [known : {TRUE}, count : Count, follows : {FALSE}, phases : Phases]
  /\ TVCommand \notin Commands  \* the ghost own needs it
  /\ None \notin [num : Nat, cmd : Command]
ASSUME IRAssumption

VARIABLES
  buf, iRead, iWrite,  \* adHocCommands
  running,   \* txRunning
  alarms,    \* how many alarms will call TXThread
  tx,        \* the command being sent, or None
  rep,       \* repeatNumber
  phase,     \* repeatPhase
  state,     \* Button::IRAction::state
  tv,        \* TVON's state: "idle", "waiting" or "sending"
  pc,        \* how far the main loop has come in QueueCommand
  cmd,       \* its argument
  \* ghosts: a number tells a command from the other ones in the buffer
  next,      \* the number of the next command to be accepted
  due,       \* the number of the next command to be taken from the buffer
  reps,      \* how often tx has been sent already, up to Wrap
  own,       \* the number of TVON's command, None when it has been sent
  stopped    \* the thread ended at a command of an unknown protocol

ring == <<buf, iRead, iWrite>>
thread == <<running, alarms, tx, rep, phase>>
users == <<state, tv>>
vars == <<buf, iRead, iWrite, running, alarms, tx, rep, phase, state, tv, pc, cmd,
          next, due, reps, own, stopped>>

\* twice the slots are enough to tell the commands in the buffer apart
Numbers == 0..(2 * Slots - 1)
After(n) == (n + 1) % (2 * Slots)

Advance(i) == (i + 1) % Slots
IsReadReady == iRead # iWrite
IsBusy == running \/ IsReadReady

-----------------------------------------------------------------------------
(* The thread *)

\* what TXThread tells the protocol of the button
Pressed(c) == IF c.follows THEN state ELSE c.count > 1 /\ rep + 1 < c.count

TxMinReps(c) ==
  IF c.phases = "closed" THEN 3 ELSE IF c.phases = "paired" THEN 2 ELSE MinReps

\* TxEnd has increased the counters when it looks at them
EndPhase == (phase + 1) % Wrap
MoreRepeatsPending(c) == Pressed(c) \/ EndPhase < TxMinReps(c)

D_PairPhase == EndPhase

\* the first part of a pair follows the second one
PairPhase == IF EndPhase = 2 THEN 0 ELSE EndPhase

\* once the button is up, or the count is reached, the next repetition is the last
ClosedPhase(c) == IF EndPhase > 0 THEN (IF Pressed(c) THEN 1 ELSE 2) ELSE EndPhase

\* the phase of the next repetition, which its protocol makes of TxEnd's
CodeToBitstream(c) ==
  IF c.phases = "closed" THEN ClosedPhase(c)
  ELSE IF c.phases = "paired" THEN PairPhase ELSE EndPhase

\* The second half of TXThread: the next command is taken from the buffer.  A
\* thread that has a command to send keeps the alarm it was called by.
Load(ofAlarm) ==
  LET item == buf[iRead]
      send == IsReadReady /\ item.cmd.known
  IN /\ tx' = (IF send THEN item ELSE None) /\ running' = send
     /\ alarms' = IF send THEN alarms ELSE alarms - ofAlarm
     /\ stopped' = (IsReadReady /\ ~send)
     /\ IF IsReadReady
        THEN iRead' = Advance(iRead) /\ due' = After(item.num) /\ UNCHANGED <<buf, iWrite>>
        ELSE UNCHANGED <<ring, due>>
     /\ rep' = 0 /\ phase' = 0 /\ reps' = 0

\* the alarm that ends a repetition, or the gap before the first one
Repeat ==
  /\ alarms > 0 /\ tx # None /\ MoreRepeatsPending(tx.cmd)
  /\ rep' = (rep + 1) % Wrap /\ phase' = CodeToBitstream(tx.cmd)
  /\ reps' = IF reps < Wrap THEN reps + 1 ELSE reps
  /\ UNCHANGED <<ring, running, alarms, tx, users, pc, cmd, next, due, own, stopped>>

Finish ==
  /\ alarms > 0 /\ (tx # None => ~MoreRepeatsPending(tx.cmd))
  /\ Load(1)
  /\ own' = IF tx # None /\ tx.num = own THEN None ELSE own
  /\ UNCHANGED <<users, pc, cmd, next>>

TXThread == Repeat \/ Finish

-----------------------------------------------------------------------------
(* The main loop *)

D_IsFull == FALSE

IsFull == Advance(iWrite) = iRead

\* QueueCommand is called with c; a full buffer refuses it
Queue(c) == pc = "loop" /\ pc' = (IF IsFull THEN "loop" ELSE "write") /\ cmd' = c

\* the end of CircBuf::Write
Write ==
  /\ pc = "write" /\ pc' = "start"
  /\ buf' = [buf EXCEPT ![iWrite] = [num |-> next, cmd |-> cmd]]
  /\ iWrite' = Advance(iWrite) /\ next' = After(next)
  /\ own' = IF tv = "sending" /\ cmd = TVCommand THEN next ELSE own
  /\ UNCHANGED <<iRead, thread, users, cmd, due, reps, stopped>>

D_TXStart ==
  /\ pc = "start" /\ pc' = "thread"
  /\ running' = TRUE
  /\ UNCHANGED <<ring, alarms, tx, rep, phase, users, cmd, next, due, reps, own, stopped>>

TXStart ==
  /\ pc = "start" /\ pc' = (IF running THEN "loop" ELSE "thread")
  /\ running' = TRUE
  /\ UNCHANGED <<ring, alarms, tx, rep, phase, users, cmd, next, due, reps, own, stopped>>

D_FirstStep ==
  /\ pc = "thread" /\ Load(0)
  /\ pc' = "loop"
  /\ UNCHANGED <<users, cmd, next, own>>

\* TXThread called by TXStart; a command it has taken needs an alarm
FirstStep ==
  /\ pc = "thread" /\ Load(0)
  /\ pc' = (IF running' THEN "alarm" ELSE "loop")
  /\ UNCHANGED <<users, cmd, next, own>>

AddAlarm ==
  /\ pc = "alarm" /\ pc' = "loop" /\ alarms' = alarms + 1
  /\ UNCHANGED <<ring, running, tx, rep, phase, users, cmd, next, due, reps, own, stopped>>

-----------------------------------------------------------------------------
(* The users *)

Unused == UNCHANGED <<ring, thread, next, due, reps, own, stopped>>

Host == \E c \in Commands : Queue(c) /\ UNCHANGED users /\ Unused

\* IRAction::OnStateChange
Press ==
  /\ ~state /\ state' = TRUE /\ Queue(Held)
  /\ UNCHANGED tv /\ Unused

Release ==
  /\ pc = "loop" /\ state /\ state' = FALSE
  /\ UNCHANGED <<tv, pc, cmd>> /\ Unused

TVReady ==
  /\ pc = "loop" /\ tv = "idle" /\ tv' = "waiting"
  /\ UNCHANGED <<state, pc, cmd>> /\ Unused

D_TVWaiting ==
  /\ tv = "waiting" /\ ~running
  /\ Queue(TVCommand) /\ tv' = "sending"
  /\ UNCHANGED state /\ Unused

\* IRWaiting: the command is queued when the transmitter is not busy
TVWaiting ==
  /\ tv = "waiting" /\ ~IsBusy
  /\ Queue(TVCommand) /\ tv' = "sending"
  /\ UNCHANGED state /\ Unused

\* IRSending
TVSending ==
  /\ pc = "loop" /\ tv = "sending" /\ ~running /\ tv' = "idle"
  /\ UNCHANGED <<state, pc, cmd>> /\ Unused

Init ==
  /\ buf = [i \in 0..(Slots - 1) |-> [num |-> 0, cmd |-> TVCommand]]
  /\ iRead = 0 /\ iWrite = 0
  /\ running = FALSE /\ alarms = 0 /\ tx = None /\ rep = 0 /\ phase = 0
  /\ state = FALSE /\ tv = "idle" /\ pc = "loop" /\ cmd = TVCommand
  /\ next = 0 /\ due = 0 /\ reps = 0 /\ own = None /\ stopped = FALSE

Call == Write \/ TXStart \/ FirstStep \/ AddAlarm

Next ==
  \/ TXThread \/ Call
  \/ Host \/ Press \/ Release \/ TVReady \/ TVWaiting \/ TVSending

\* The hardware's alarms go off, and QueueCommand returns.
Fairness == WF_vars(TXThread) /\ WF_vars(Call)

Spec == Init /\ [][Next]_vars /\ Fairness

-----------------------------------------------------------------------------
(* Properties *)

\* The indexes and counters keep to their ranges.
TypeOK ==
  /\ buf \in [0..(Slots - 1) -> [num : Numbers, cmd : Command]]
  /\ iRead \in 0..(Slots - 1) /\ iWrite \in 0..(Slots - 1)
  /\ running \in BOOLEAN /\ alarms \in Nat
  /\ tx \in [num : Numbers, cmd : Command] \cup {None}
  /\ rep \in 0..(Wrap - 1) /\ phase \in 0..(Wrap - 1)
  /\ state \in BOOLEAN /\ tv \in {"idle", "waiting", "sending"}
  /\ pc \in {"loop", "write", "start", "thread", "alarm"} /\ cmd \in Command
  /\ next \in Numbers /\ due \in Numbers /\ reps \in 0..Wrap
  /\ own \in Numbers \cup {None} /\ stopped \in BOOLEAN

\* There is one thread if txRunning is set, and none otherwise: an alarm to come, or
\* TXStart on its way to set one ("if txRunning is false, no timer interrupt is
\* either running or pending", IRTransmitter.h:340-343).
OneThread ==
  alarms + (IF pc \in {"thread", "alarm"} THEN 1 ELSE 0) = (IF running THEN 1 ELSE 0)

\* Commands are taken in the order in which they were accepted, none twice and none
\* left out, whatever the interrupt handler comes between.
TakenInOrder == [][iRead' # iRead => buf[iRead].num = due]_vars

\* How often a command with a count is sent: as often as was asked for, or as the
\* protocol demands; a whole number of pairs; once more to close it.
Times(c) ==
  IF c.phases = "closed" THEN c.count + 1
  ELSE IF c.phases = "paired" THEN c.count + (c.count % 2)
  ELSE IF c.count > MinReps THEN c.count ELSE MinReps

\* the repetition that is being sent may be a command's last: of a pair the second
\* half, of a closed sequence the one that closes it
Whole(c) ==
  /\ c.phases = "paired" => phase = 1
  /\ c.phases = "closed" => phase = 2

\* A command is sent as often as it was asked for, or as its protocol demands, and the
\* protocols that send a code in parts send it whole, when a button is let go as well.
SentAsOften ==
  [][tx # None /\ tx' # tx => (tx.cmd.follows \/ reps + 1 = Times(tx.cmd)) /\ Whole(tx.cmd)]_vars

\* When TVON goes on to its next command, the one before has been sent in full.
TVSentItsOwn == tv # "sending" => own = None

InBuffer(n) == \E i \in 0..(Slots - 1) :
  buf[i].num = n /\ (i - iRead) % Slots < (iWrite - iRead) % Slots

\* A command in the buffer is taken in the end, or the thread is stopped by one of
\* an unknown protocol, or a button is held again and again.
QueueMoves ==
  \A n \in Numbers : InBuffer(n) ~> (~InBuffer(n) \/ stopped \/ state)
=============================================================================
