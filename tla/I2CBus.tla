-------------------------------- MODULE I2CBus -------------------------------
(****************************************************************************)
(* One I2C bus (Firmware/I2C.cpp): the task in the main loop hands the bus  *)
(* to the devices in turn, the I2C controller carries out a transfer with   *)
(* two DMA channels, and its interrupt handler runs between any two steps   *)
(* of the task.  The devices on the bus are the two kinds of output chips   *)
(* (PCA9555, PCA9685) and a sensor that is read in two transfers, the       *)
(* second one started from the interrupt handler (LIS3DH).                  *)
(****************************************************************************)
EXTENDS Integers, Sequences

CONSTANTS
  Devices,      \* a sequence: the order in which they get the bus
  Kind,         \* "PCA9555", "PCA9685" or "LIS3DH" for each of them
  ResetAfter,   \* the number of timeouts after which the bus is cleared (20)
  None

N == Len(Devices)
Device == {Devices[i] : i \in 1..N}
Chips == {d \in Device : Kind[d] # "LIS3DH"}
Sensors == Device \ Chips

\* The registers of the chips.  A PCA9555 has one for the direction of its
\* ports, where 1 is an input.
Registers ==
  {<<d, "output">> : d \in Chips} \cup
  {<<d, "config">> : d \in {c \in Chips : Kind[c] = "PCA9555"}}

I2CAssumption ==
  /\ Devices \in Seq(Device) /\ N > 0
  /\ \A i, j \in 1..N : Devices[i] = Devices[j] => i = j
  /\ Kind \in [Device -> {"PCA9555", "PCA9685", "LIS3DH"}]
  /\ ResetAfter \in Nat /\ None \notin Device
ASSUME I2CAssumption

VARIABLES
  pc,        \* how far UnitTask has come
  state,     \* State, as the task sees it
  cur,       \* curDevice, from 1
  busStop, busAbort,
  expired,   \* tTimeout has passed
  timeouts,  \* consecutiveTimeouts
  rested,    \* tNextAutoReset has passed
  clear,     \* busClearRequested
  rxOf,      \* the transfer whose length rxBuf has
  register,  \* register[r]: new is the value wanted, sent the one recorded as
             \* sent, chip what the chip holds
  reading,   \* readingRegister of each sensor
  due,       \* due[d]: it is time for a sample
  \* the hardware
  line,      \* the transfer under way or just ended, and the registers it sets
  dma,       \* a DMA channel is active
  tail,      \* a STOP of a transfer that was aborted or given up may still come
  wedged,    \* a device holds SDA low
  \* ghosts
  fault,     \* "failed": a transfer has failed, or the bus was cleared; "mixed":
             \* and then a STOP was taken for that of another transfer, or an
             \* abort came between the task's two looks at the flags
  lied,      \* a device was told of a completion that was not its own
  overrun    \* a transfer was started while a DMA channel was active
             \* (both are noted as long as nothing is mixed)

flags == <<busStop, busAbort, expired>>
watch == <<timeouts, rested, clear>>
client == <<rxOf, register, reading, due>>
vars == <<pc, state, cur, busStop, busAbort, expired, timeouts, rested, clear,
          rxOf, register, reading, due, line, dma, tail, wedged,
          fault, lied, overrun>>

Failed == fault' = IF fault = "mixed" THEN "mixed" ELSE "failed"
Told(own) == lied' = (lied \/ ~(own \/ fault' = "mixed"))

Current == Devices[cur]
D_NextIndex(i) == i
NextIndex(i) == (i % N) + 1

Over == [dev |-> None, at |-> "over", sets |-> {}]

-----------------------------------------------------------------------------
(* Starting a transfer *)

\* ExecReadWrite; active tells whether a DMA channel is still at work
Exec(d, op, sets, active) ==
  /\ line' = [dev |-> d, at |-> "running", sets |-> sets]
  /\ busStop' = FALSE /\ busAbort' = FALSE /\ expired' = FALSE
  /\ state' = IF op = "write" THEN "Writing" ELSE "Reading"
  /\ rxOf' = op /\ dma' = TRUE /\ overrun' = (overrun \/ (active /\ fault' # "mixed"))

\* the registers of a chip that BuildI2C or the dirty bits select
Dirty(d) == {r \in Registers : r[1] = d /\ register[r].new # register[r].sent}

HasWork(d) == IF d \in Chips THEN Dirty(d) # {} ELSE due[d]

\* what is wanted is recorded as sent when the transfer starts
Recorded(d) ==
  [r \in Registers |->
     IF r[1] = d THEN [register[r] EXCEPT !.sent = register[r].new] ELSE register[r]]

D_OnI2CReady(d) ==
  /\ IF d \in Chips
     THEN register' = Recorded(d) /\ UNCHANGED <<reading, due>>
     ELSE /\ reading' = [reading EXCEPT ![d] = "status"]
          /\ due' = [due EXCEPT ![d] = FALSE] /\ UNCHANGED register
  /\ IF state = "Ready"
     THEN /\ Exec(d, IF d \in Chips THEN "write" ELSE "status",
               {r \in Dirty(d) : r[2] = "config" \/ <<d, "config">> \notin Dirty(d)}, dma)
          /\ tail' = (tail \/ line.at = "running")
     ELSE UNCHANGED <<line, busStop, busAbort, expired, state, rxOf, dma, tail, overrun>>

\* OnI2CReady of a device that has work.  The driver keeps its books even if
\* ReadWrite refuses, because the interrupt handler has started a transfer.
OnI2CReady(d) ==
  /\ IF d \in Chips
     THEN register' = Recorded(d) /\ UNCHANGED <<reading, due>>
     ELSE /\ reading' = [reading EXCEPT ![d] = "status"]
          /\ due' = [due EXCEPT ![d] = FALSE] /\ UNCHANGED register
  /\ IF state = "Ready"
     THEN /\ Exec(d, IF d \in Chips THEN "write" ELSE "status", Dirty(d), dma)
          /\ tail' = (tail \/ line.at = "running")
     ELSE UNCHANGED <<line, busStop, busAbort, expired, state, rxOf, dma, tail, overrun>>

-----------------------------------------------------------------------------
(* UnitTask *)

AtReady == pc = "ready" \/ (pc = "loop" /\ state = "Ready")

D_AutoClear == timeouts = ResetAfter /\ rested

AutoClear == timeouts > ResetAfter /\ rested
\* what I2CReinitDevice does to a register: a PCA9555 gets all inputs and its
\* outputs back, a PCA9685 is all off
Reinitialized(r) ==
  CASE r[2] = "config" -> 1
    [] r[2] = "output" /\ Kind[r[1]] = "PCA9555" -> register[r].sent
    [] OTHER -> 0

\* the bus is cleared at the console's request or after too many timeouts
BusClear ==
  /\ AtReady /\ (clear \/ AutoClear) /\ pc' = "scan"
  /\ clear' = FALSE
  /\ IF clear THEN UNCHANGED <<timeouts, rested>> ELSE timeouts' = 0 /\ rested' = FALSE
  /\ wedged' = FALSE /\ Failed
  /\ register' = [r \in Registers |-> [register[r] EXCEPT !.chip = Reinitialized(r)]]
  /\ UNCHANGED <<state, cur, flags, rxOf, reading, due, line, dma, tail,
                 lied, overrun>>

\* The scan offers the bus to the devices in turn, from the current one on.
Scan ==
  /\ pc = "scan" \/ (AtReady /\ ~clear /\ ~AutoClear)
  /\ pc' = "loop" /\ UNCHANGED fault
  /\ \/ \E i \in 1..N :
          /\ HasWork(Devices[i])
          /\ \A j \in 1..N : HasWork(Devices[j]) => (i - cur) % N <= (j - cur) % N
          /\ cur' = i /\ OnI2CReady(Devices[i])
     \/ /\ \A i \in 1..N : ~HasWork(Devices[i])
        /\ UNCHANGED <<cur, register, reading, due, line, busStop, busAbort, expired, state,
                       rxOf, dma, tail, overrun>>
  /\ UNCHANGED <<watch, wedged, lied>>

\* the operation is over: the next device has its turn
NextTurn == state' = "Ready" /\ cur' = NextIndex(cur) /\ pc' = "ready"

Aborted ==
  /\ pc = "loop" /\ state # "Ready" /\ busAbort
  /\ dma' = FALSE /\ line' = Over /\ NextTurn
  /\ UNCHANGED <<flags, watch, client, tail, wedged, fault, lied, overrun>>

D_NotAborted ==
  /\ pc = "loop" /\ state # "Ready" /\ (~busAbort \/ busStop)
  /\ pc' = "stop"
  /\ UNCHANGED <<state, cur, flags, watch, client, line, dma, tail, wedged,
                 fault, lied, overrun>>

NotAborted ==
  /\ pc = "loop" /\ state # "Ready" /\ ~busAbort
  /\ pc' = "stop"
  /\ UNCHANGED <<state, cur, flags, watch, client, line, dma, tail, wedged,
                 fault, lied, overrun>>

IsOwn == line.dev = Current /\ line.at = "done"

\* OnI2CReceive or OnI2CWriteComplete.  A sensor that has read its axes may go
\* on to its temperature.
Stopped ==
  /\ pc = "stop" /\ busStop /\ UNCHANGED fault
  /\ timeouts' = 0 /\ Told(IsOwn)
  /\ \/ /\ NextTurn
        /\ UNCHANGED <<line, busStop, busAbort, expired, rxOf, reading, dma, tail, overrun>>
     \/ /\ state = "Reading" /\ Current \in Sensors
        /\ reading[Current] = "axes" /\ rxOf = "axes"
        /\ Exec(Current, "temperature", {}, dma)
        /\ reading' = [reading EXCEPT ![Current] = "temperature"]
        /\ tail' = (tail \/ line.at = "running")
        /\ pc' = "loop" /\ UNCHANGED cur
  /\ UNCHANGED <<rested, clear, register, due, wedged>>

NotStopped ==
  /\ pc = "stop" /\ ~busStop
  /\ pc' = IF expired THEN "late" ELSE "loop"
  /\ UNCHANGED <<state, cur, flags, watch, client, line, dma, tail, wedged,
                 fault, lied, overrun>>

D_GiveUp ==
  /\ pc = "late"
  /\ NextTurn /\ Failed
  /\ timeouts' = IF timeouts > ResetAfter THEN timeouts ELSE timeouts + 1
  /\ UNCHANGED <<flags, rested, clear, client, line, dma, tail, wedged, lied, overrun>>

\* the transfer has timed out: it is given up, which does not end it
GiveUp ==
  /\ pc = "late"
  /\ dma' = FALSE /\ NextTurn /\ Failed
  /\ timeouts' = IF timeouts > ResetAfter THEN timeouts ELSE timeouts + 1
  /\ UNCHANGED <<flags, rested, clear, client, line, tail, wedged, lied, overrun>>

-----------------------------------------------------------------------------
(* The controller and its interrupt handler *)

\* I2CIRQ with STOP.  OnI2CCompletionIRQ of a sensor that has read its status
\* starts the next transfer, if the status says that there is a sample.
StopIRQ(own, after, active) ==
  \/ /\ busStop' = TRUE
     /\ Told(busAbort \/ own)
     /\ line' = after
     /\ dma' = active
     /\ UNCHANGED <<busAbort, expired, state, rxOf, reading, overrun>>
  \/ /\ ~busAbort /\ Current \in Sensors /\ reading[Current] = "status" /\ rxOf = "status"
     /\ Exec(Current, "axes", {}, active)
     /\ reading' = [reading EXCEPT ![Current] = "axes"]
     /\ Told(own)

\* the transfer completes: the chip has its new values
Complete ==
  /\ line.at = "running" /\ ~wedged
  /\ register' = [r \in Registers |->
       IF r \in line.sets THEN [register[r] EXCEPT !.chip = register[r].sent] ELSE register[r]]
  /\ LET own == line.dev = Current /\ state # "Ready"
     IN /\ fault' = IF own THEN fault ELSE "mixed"
        /\ StopIRQ(own, [line EXCEPT !.at = "done"], FALSE)
  /\ UNCHANGED <<pc, cur, watch, due, tail, wedged>>

\* The device does not acknowledge: an abort, with the STOP at once or later.
Nack ==
  /\ line.at = "running" /\ ~wedged
  /\ busAbort' = TRUE /\ line' = [line EXCEPT !.at = "nacked"]
  /\ IF pc = "stop" THEN fault' = "mixed" ELSE Failed
  /\ \/ busStop' = TRUE /\ UNCHANGED tail
     \/ tail' = TRUE /\ UNCHANGED busStop
  /\ UNCHANGED <<pc, state, cur, expired, watch, client, dma, wedged, lied, overrun>>

\* the STOP of a transfer that is not the current one any more
LateStop ==
  /\ tail /\ ~wedged
  /\ fault' = IF busAbort THEN fault ELSE "mixed"
  /\ StopIRQ(FALSE, line, dma) /\ tail' = (line' # line /\ line.at = "running")
  /\ UNCHANGED <<pc, cur, watch, register, due, wedged>>

Expire ==
  /\ state # "Ready" /\ ~expired /\ expired' = TRUE
  /\ UNCHANGED <<pc, state, cur, busStop, busAbort, watch, client, line, dma, tail, wedged,
                 fault, lied, overrun>>

Wedge ==
  /\ ~wedged /\ wedged' = TRUE
  /\ UNCHANGED <<pc, state, cur, flags, watch, client, line, dma, tail,
                 fault, lied, overrun>>

-----------------------------------------------------------------------------
(* The rest of the firmware *)

\* a port of a chip is set: Write, or Set with its dirty bit
SetPort(d, level) ==
  /\ register[<<d, "output">>].new # level
  /\ register' = [register EXCEPT ![<<d, "output">>].new = level]
  /\ UNCHANGED <<pc, state, cur, flags, watch, rxOf, reading, due, line, dma, tail, wedged,
                 fault, lied, overrun>>

SampleDue(d) ==
  /\ ~due[d] /\ due' = [due EXCEPT ![d] = TRUE]
  /\ UNCHANGED <<pc, state, cur, flags, watch, rxOf, register, reading, line, dma, tail, wedged,
                 fault, lied, overrun>>

RequestClear ==
  /\ ~clear /\ clear' = TRUE
  /\ UNCHANGED <<pc, state, cur, flags, timeouts, rested, client, line, dma, tail, wedged,
                 fault, lied, overrun>>

Rest ==
  /\ ~rested /\ rested' = TRUE
  /\ UNCHANGED <<pc, state, cur, flags, timeouts, clear, client, line, dma, tail, wedged,
                 fault, lied, overrun>>

Init ==
  /\ pc = "loop" /\ state = "Ready" /\ cur = 1
  /\ busStop = FALSE /\ busAbort = FALSE /\ expired = FALSE
  /\ timeouts = 0 /\ rested = TRUE /\ clear = FALSE
  /\ rxOf = "write"
  /\ register = [r \in Registers |->
       IF r[2] = "config" THEN [new |-> 0, sent |-> 1, chip |-> 1]
       ELSE [new |-> 0, sent |-> 0, chip |-> 0]]
  /\ reading = [d \in Sensors |-> "axes"] /\ due = [d \in Sensors |-> FALSE]
  /\ line = Over /\ dma = FALSE /\ tail = FALSE /\ wedged = FALSE
  /\ fault = "none" /\ lied = FALSE /\ overrun = FALSE

UnitTask == BusClear \/ Scan \/ Aborted \/ NotAborted \/ Stopped \/ NotStopped \/ GiveUp

Next ==
  \/ UnitTask \/ Complete \/ Nack \/ LateStop \/ Expire \/ Wedge
  \/ \E d \in Chips, level \in {0, 1} : SetPort(d, level)
  \/ \E d \in Sensors : SampleDue(d)
  \/ RequestClear \/ Rest

\* The main loop comes around, and time passes.
Fairness ==
  /\ WF_vars(UnitTask) /\ WF_vars(Expire) /\ WF_vars(Rest)
  /\ \A d \in Sensors : WF_vars(SampleDue(d))

Spec == Init /\ [][Next]_vars /\ Fairness

-----------------------------------------------------------------------------
(* Properties *)

\* The flags, counters and tables keep to their ranges.
TypeOK ==
  /\ pc \in {"loop", "ready", "scan", "stop", "late"}
  /\ state \in {"Ready", "Writing", "Reading"} /\ cur \in 1..N
  /\ busStop \in BOOLEAN /\ busAbort \in BOOLEAN /\ expired \in BOOLEAN
  /\ timeouts \in 0..(ResetAfter + 1) /\ rested \in BOOLEAN /\ clear \in BOOLEAN
  /\ rxOf \in {"write", "status", "axes", "temperature"}
  /\ register \in [Registers -> [new : {0, 1}, sent : {0, 1}, chip : {0, 1}]]
  /\ reading \in [Sensors -> {"status", "axes", "temperature"}] /\ due \in [Sensors -> BOOLEAN]
  /\ line \in [dev : Device \cup {None}, at : {"running", "done", "nacked", "over"},
               sets : SUBSET Registers]
  /\ {dma, tail, wedged, lied, overrun} \subseteq BOOLEAN /\ fault \in {"none", "failed", "mixed"}

\* A device is told of a completion only when its own transfer has completed, in
\* interrupt context as well as in the task.  There are two exceptions: the STOP of an
\* earlier transfer, given up or aborted, that comes late; and an abort
\* between the task's looks at busAbort and at busStop.
CompletionsAreOwn == ~lied

\* With the same exceptions no transfer programs the DMA channels while they are active
\* (which "could cause buffer overruns", I2C.cpp:486-491).
DmaNotReprogrammed == ~overrun

\* As long as no transfer has failed, a bus without work means that every chip
\* holds the values that are wanted of it.
QuietMeansSet ==
  fault = "none" /\ state = "Ready" /\ pc = "loop" /\ (\A d \in Chips : Dirty(d) = {}) =>
    \A r \in Registers : register[r].chip = register[r].new

\* Every device that has work gets the bus, whatever the others do and whatever fails.
TurnComes ==
  \A d \in Device : HasWork(d) ~> (line.dev = d \/ ~HasWork(d))

\* A bus on which a device holds SDA low is cleared in the end.
WedgeEnds == wedged ~> ~wedged

\* chipVal "is the last value we sent to the physical chip via I2C" (PCA9555.h:251-252),
\* also after the chip was initialised again because the bus was cleared.
ChipValIsLastSent ==
  [][BusClear => \A r \in Registers :
       Kind[r[1]] = "PCA9555" => register'[r].sent = register'[r].chip]_vars
=============================================================================
