---------------------------- MODULE I2CBus_proofs ----------------------------
(*************************************************************************)
(* Theorems about I2CBus, for any number of devices of the three kinds   *)
(* and any limit of timeouts: the types, whose completion a device is    *)
(* told of, the DMA channels, and what the chips hold when the bus is    *)
(* quiet.                                                                *)
(*************************************************************************)
EXTENDS I2CBus, TLAPS

\* The round of the bus stays in the list of devices.
LEMMA IndexOK ==
  /\ N \in Nat \ {0} /\ 1 \in 1..N
  /\ \A i \in 1..N : NextIndex(i) \in 1..N /\ Devices[i] \in Device
<1>1. N \in Nat \ {0}
  <2>1. Devices \in Seq(Device) /\ N > 0
    BY I2CAssumption DEF I2CAssumption
  <2>2. N \in Nat
    BY <2>1 DEF N
  <2>3. QED
    BY <2>1, <2>2
<1>2. \A i \in 1..N : NextIndex(i) \in 1..N
  BY <1>1 DEF NextIndex
<1>3. \A i \in 1..N : Devices[i] \in Device
  BY DEF Device
<1>4. QED
  BY <1>1, <1>2, <1>3

RegisterType == [Registers -> [new : {0, 1}, sent : {0, 1}, chip : {0, 1}]]
LineType == [dev : Device \cup {None}, at : {"running", "done", "nacked", "over"},
             sets : SUBSET Registers]

\* A transfer that is started sets the flags and the line.
LEMMA ExecOK ==
  ASSUME NEW d \in Device, NEW op \in {"write", "status", "axes", "temperature"},
         NEW sets \in SUBSET Registers, NEW active \in BOOLEAN,
         overrun \in BOOLEAN, Exec(d, op, sets, active)
  PROVE  /\ line' \in LineType /\ state' \in {"Writing", "Reading"}
         /\ busStop' \in BOOLEAN /\ busAbort' \in BOOLEAN /\ expired' \in BOOLEAN
         /\ rxOf' \in {"write", "status", "axes", "temperature"}
         /\ dma' \in BOOLEAN /\ overrun' \in BOOLEAN
<1>1. line' \in LineType
  BY DEF Exec, LineType
<1>2. state' \in {"Writing", "Reading"} /\ rxOf' \in {"write", "status", "axes", "temperature"}
  BY DEF Exec
<1>3. busStop' \in BOOLEAN /\ busAbort' \in BOOLEAN /\ expired' \in BOOLEAN /\ dma' \in BOOLEAN
      /\ overrun' \in BOOLEAN
  BY Zenon DEF Exec
<1>4. QED
  BY <1>1, <1>2, <1>3

\* The flags, counters and tables keep to their ranges, on every bus.
THEOREM TypeInvariant == Spec => []TypeOK
<1>1. Init => TypeOK
  <2> SUFFICES ASSUME Init PROVE TypeOK
    OBVIOUS
  <2>1. register \in RegisterType
    BY DEF Init, RegisterType
  <2>2. line \in LineType
    BY DEF Init, Over, LineType
  <2>3. cur \in 1..N /\ timeouts \in 0..(ResetAfter + 1)
    BY IndexOK, I2CAssumption DEF Init, I2CAssumption
  <2>4. QED
    BY <2>1, <2>2, <2>3 DEF Init, TypeOK, RegisterType, LineType
<1>2. TypeOK /\ [Next]_vars => TypeOK'
  <2> SUFFICES ASSUME TypeOK, [Next]_vars PROVE TypeOK'
    OBVIOUS
  <2>1. CASE BusClear
    <3>1. register' \in RegisterType
      BY <2>1 DEF BusClear, TypeOK, RegisterType, Reinitialized
    <3>2. timeouts' \in 0..(ResetAfter + 1)
      BY <2>1, I2CAssumption DEF BusClear, TypeOK, I2CAssumption
    <3>3. /\ pc' = "scan" /\ fault' \in {"none", "failed", "mixed"}
          /\ rested' \in BOOLEAN /\ clear' \in BOOLEAN /\ wedged' \in BOOLEAN
          /\ UNCHANGED <<state, cur, busStop, busAbort, expired, rxOf, reading, due, line, dma,
                         tail, lied, overrun>>
      BY <2>1, Zenon DEF BusClear, TypeOK, Failed, flags
    <3>4. QED
      BY <3>1, <3>2, <3>3 DEF TypeOK, RegisterType
  <2>2. ASSUME NEW d \in Device, OnI2CReady(d)
        PROVE  /\ register' \in RegisterType /\ line' \in LineType
               /\ state' \in {"Ready", "Writing", "Reading"}
               /\ busStop' \in BOOLEAN /\ busAbort' \in BOOLEAN /\ expired' \in BOOLEAN
               /\ rxOf' \in {"write", "status", "axes", "temperature"}
               /\ reading' \in [Sensors -> {"status", "axes", "temperature"}]
               /\ due' \in [Sensors -> BOOLEAN]
               /\ dma' \in BOOLEAN /\ tail' \in BOOLEAN /\ overrun' \in BOOLEAN
    <3>1. register' \in RegisterType
      BY <2>2 DEF OnI2CReady, Recorded, TypeOK, RegisterType
    <3>2. reading' \in [Sensors -> {"status", "axes", "temperature"}]
          /\ due' \in [Sensors -> BOOLEAN]
      BY <2>2, Zenon DEF OnI2CReady, TypeOK
    <3>3. CASE state = "Ready"
      <4>1. Exec(d, IF d \in Chips THEN "write" ELSE "status", Dirty(d), dma)
            /\ tail' = (tail \/ line.at = "running")
        BY <2>2, <3>3, Zenon DEF OnI2CReady
      <4>2. (IF d \in Chips THEN "write" ELSE "status")
              \in {"write", "status", "axes", "temperature"}
            /\ Dirty(d) \in SUBSET Registers
        BY DEF Dirty
      <4>3. dma \in BOOLEAN /\ overrun \in BOOLEAN /\ tail' \in BOOLEAN
        BY <4>1, Zenon DEF TypeOK
      <4>4. QED
        BY <3>1, <3>2, <4>1, <4>2, <4>3, ExecOK
    <3>4. CASE state # "Ready"
      BY <2>2, <3>1, <3>2, <3>4 DEF OnI2CReady, TypeOK, LineType
    <3>5. QED
      BY <3>3, <3>4
  <2>3. CASE Scan
    <3>1. UNCHANGED <<watch, wedged, lied, fault>> /\ pc' = "loop"
      BY <2>3 DEF Scan
    <3>2. CASE \E i \in 1..N : cur' = i /\ OnI2CReady(Devices[i])
      BY <2>2, <3>1, <3>2, IndexOK DEF TypeOK, RegisterType, LineType, watch
    <3>3. CASE UNCHANGED <<cur, register, reading, due, line, busStop, busAbort, expired, state,
                           rxOf, dma, tail, overrun>>
      BY <3>1, <3>3 DEF TypeOK, watch
    <3>4. QED
      BY <2>3, <3>2, <3>3 DEF Scan
  <2>4. CASE Aborted
    BY <2>4, IndexOK DEF Aborted, TypeOK, NextTurn, Over, flags, watch, client
  <2>5. CASE NotAborted
    BY <2>5 DEF NotAborted, TypeOK, flags, watch, client
  <2>6. CASE Stopped
    <3>1. /\ UNCHANGED <<rested, clear, register, due, wedged, fault>> /\ timeouts' = 0
          /\ Told(IsOwn)
      BY <2>6 DEF Stopped
    <3>2. lied' \in BOOLEAN
      BY <3>1, Zenon DEF Told
    <3>3. timeouts' \in 0..(ResetAfter + 1)
      BY <3>1, I2CAssumption DEF I2CAssumption
    <3>4. CASE NextTurn /\ UNCHANGED <<line, busStop, busAbort, expired, rxOf, reading, dma,
                                      tail, overrun>>
      BY <3>1, <3>2, <3>3, <3>4, IndexOK DEF TypeOK, NextTurn
    <3>5. CASE /\ Current \in Sensors /\ Exec(Current, "temperature", {}, dma)
               /\ reading' = [reading EXCEPT ![Current] = "temperature"]
               /\ tail' = (tail \/ line.at = "running")
               /\ pc' = "loop" /\ UNCHANGED cur
      <4>1. /\ Current \in Device /\ dma \in BOOLEAN /\ overrun \in BOOLEAN
        BY Zenon, IndexOK DEF Current, TypeOK
      <4>2. tail' \in BOOLEAN
        BY <3>5, Zenon
      <4>3. /\ line' \in LineType /\ state' \in {"Writing", "Reading"}
            /\ busStop' \in BOOLEAN /\ busAbort' \in BOOLEAN /\ expired' \in BOOLEAN
            /\ rxOf' \in {"write", "status", "axes", "temperature"}
            /\ dma' \in BOOLEAN /\ overrun' \in BOOLEAN
        BY <3>5, <4>1, ExecOK
      <4>4. reading' \in [Sensors -> {"status", "axes", "temperature"}]
        BY <3>5, Zenon DEF TypeOK
      <4>5. QED
        BY <3>1, <3>2, <3>3, <3>5, <4>2, <4>3, <4>4 DEF TypeOK, LineType
    <3>6. QED
      BY <2>6, <3>4, <3>5, Zenon DEF Stopped
  <2>7. CASE NotStopped
    BY <2>7 DEF NotStopped, TypeOK, flags, watch, client
  <2>8. CASE GiveUp
    <3>1. timeouts' \in 0..(ResetAfter + 1)
      BY <2>8, I2CAssumption DEF GiveUp, TypeOK, I2CAssumption
    <3>2. QED
      BY ZenonT(30), <2>8, <3>1, IndexOK DEF GiveUp, TypeOK, NextTurn, Failed, flags, client
  <2>9. ASSUME NEW own, NEW after \in LineType, NEW active \in BOOLEAN,
               StopIRQ(own, after, active), UNCHANGED cur
        PROVE  /\ line' \in LineType /\ state' \in {"Ready", "Writing", "Reading"}
               /\ busStop' \in BOOLEAN /\ busAbort' \in BOOLEAN /\ expired' \in BOOLEAN
               /\ rxOf' \in {"write", "status", "axes", "temperature"}
               /\ reading' \in [Sensors -> {"status", "axes", "temperature"}]
               /\ dma' \in BOOLEAN /\ lied' \in BOOLEAN /\ overrun' \in BOOLEAN
    <3>1. Current \in Device /\ overrun \in BOOLEAN
      BY Zenon, IndexOK DEF Current, TypeOK
    <3>2. lied' \in BOOLEAN
      BY <2>9, Zenon DEF StopIRQ, Told
    <3>3. CASE /\ busStop' = TRUE /\ line' = after /\ dma' = active
               /\ UNCHANGED <<busAbort, expired, state, rxOf, reading, overrun>>
      BY <3>2, <3>3 DEF TypeOK
    <3>4. CASE /\ Exec(Current, "axes", {}, active)
               /\ reading' = [reading EXCEPT ![Current] = "axes"]
      <4>1. reading' \in [Sensors -> {"status", "axes", "temperature"}]
        BY <3>4, Zenon DEF TypeOK
      <4>2. QED
        BY <3>1, <3>2, <3>4, <4>1, ExecOK
    <3>5. QED
      BY <2>9, <3>3, <3>4, Zenon DEF StopIRQ
  <2>10. CASE Complete
    <3>1. register' \in RegisterType
      BY <2>10 DEF Complete, TypeOK, RegisterType
    <3>2. PICK own : StopIRQ(own, [line EXCEPT !.at = "done"], FALSE)
      BY <2>10, Zenon DEF Complete
    <3>3. [line EXCEPT !.at = "done"] \in LineType
      BY DEF TypeOK, LineType
    <3>4. fault' \in {"none", "failed", "mixed"} /\ UNCHANGED <<pc, cur, watch, due, tail, wedged>>
      BY <2>10 DEF Complete, TypeOK
    <3>5. QED
      BY <2>9, <3>1, <3>2, <3>3, <3>4 DEF TypeOK, RegisterType, LineType, watch
  <2>11. CASE Nack
    BY ZenonT(30), <2>11 DEF Nack, TypeOK, Failed, watch, client
  <2>12. CASE LateStop
    <3>1. StopIRQ(FALSE, line, dma) /\ tail' \in BOOLEAN
      BY <2>12, Zenon DEF LateStop
    <3>2. line \in LineType /\ dma \in BOOLEAN
      BY Zenon DEF TypeOK, LineType
    <3>3. fault' \in {"none", "failed", "mixed"} /\ UNCHANGED <<pc, cur, watch, register, due, wedged>>
      BY <2>12 DEF LateStop, TypeOK
    <3>4. UNCHANGED cur
      BY <3>3
    <3>5. /\ line' \in LineType /\ state' \in {"Ready", "Writing", "Reading"}
          /\ busStop' \in BOOLEAN /\ busAbort' \in BOOLEAN /\ expired' \in BOOLEAN
          /\ rxOf' \in {"write", "status", "axes", "temperature"}
          /\ reading' \in [Sensors -> {"status", "axes", "temperature"}]
          /\ dma' \in BOOLEAN /\ lied' \in BOOLEAN /\ overrun' \in BOOLEAN
      BY <2>9, <3>1, <3>2, <3>4
    <3>6. QED
      BY <3>1, <3>3, <3>5 DEF TypeOK, LineType, watch
  <2>13. CASE Expire \/ Wedge \/ RequestClear \/ Rest
    <3>1. CASE Expire
      BY <3>1 DEF Expire, TypeOK, watch, client
    <3>2. CASE Wedge
      BY <3>2 DEF Wedge, TypeOK, flags, watch, client
    <3>3. CASE RequestClear
      BY <3>3 DEF RequestClear, TypeOK, flags, client
    <3>4. CASE Rest
      BY <3>4 DEF Rest, TypeOK, flags, client
    <3>5. QED
      BY <2>13, <3>1, <3>2, <3>3, <3>4
  <2>14. ASSUME NEW d \in Chips, NEW level \in {0, 1}, SetPort(d, level) PROVE TypeOK'
    <3>1. register' \in RegisterType
      BY <2>14 DEF SetPort, TypeOK, RegisterType
    <3>2. UNCHANGED <<pc, state, cur, busStop, busAbort, expired, timeouts, rested, clear, rxOf,
                      reading, due, line, dma, tail, wedged, fault, lied, overrun>>
      BY <2>14 DEF SetPort, flags, watch
    <3>3. QED
      BY <3>1, <3>2 DEF TypeOK, RegisterType
  <2>15. ASSUME NEW d \in Sensors, SampleDue(d) PROVE TypeOK'
    <3>1. due' \in [Sensors -> BOOLEAN]
      BY <2>15, Zenon DEF SampleDue, TypeOK
    <3>2. QED
      BY <2>15, <3>1 DEF SampleDue, TypeOK, flags, watch
  <2>16. CASE UNCHANGED vars
    BY <2>16 DEF vars, TypeOK
  <2>17. QED
    BY <2>1, <2>3, <2>4, <2>5, <2>6, <2>7, <2>8, <2>10, <2>11, <2>12, <2>13, <2>14, <2>15, <2>16
    DEF Next, UnitTask
<1>3. QED
  BY <1>1, <1>2, PTL DEF Spec

-----------------------------------------------------------------------------
(* The bookkeeping of the task and the interrupt handler.  The clauses hold *)
(* as long as nothing is mixed; "mixed" is never left.                      *)

\* Between two transfers the bus is ready, and the task looks for the end of
\* a transfer only while there is one.
TaskKnowsState ==
  /\ pc \in {"stop", "late"} => state # "Ready"
  /\ fault # "mixed" /\ pc \in {"ready", "scan"} => state = "Ready"
  /\ fault # "mixed" /\ pc = "stop" => ~busAbort

\* A STOP without an abort is the one of the transfer under way.
StopIsOwn ==
  fault # "mixed" /\ state # "Ready" /\ busStop /\ ~busAbort => IsOwn

\* The DMA channels are idle when the bus is ready, and after a completion.
DmaIdle ==
  fault # "mixed" /\ (state = "Ready" \/ line.at = "done") => ~dma

\* As long as no transfer has failed, a chip holds what was sent to it last,
\* except for the registers that the transfer under way is about to set.
ChipsFollow ==
  fault = "none" =>
    /\ ~busAbort
    /\ line.at = "running" => state # "Ready"
    /\ \A r \in Registers :
         register[r].sent = register[r].chip \/ (line.at = "running" /\ r \in line.sets)

BusInv ==
  /\ TaskKnowsState /\ StopIsOwn /\ DmaIdle /\ ChipsFollow
  /\ CompletionsAreOwn /\ DmaNotReprogrammed

\* Nothing is under way when the program starts.
LEMMA BusInit == Init => BusInv
<1> SUFFICES ASSUME Init PROVE BusInv
  OBVIOUS
<1>1. TaskKnowsState /\ StopIsOwn /\ DmaIdle
  BY DEF Init, TaskKnowsState, StopIsOwn, DmaIdle
<1>2. \A r \in Registers : register[r].sent = register[r].chip
  BY DEF Init
<1>3. ChipsFollow
  BY <1>2, Zenon DEF Init, ChipsFollow, Over
<1>4. QED
  BY <1>1, <1>3 DEF Init, BusInv, CompletionsAreOwn, DmaNotReprogrammed

\* A step of the task or of the console that leaves the transfer, the flags
\* and the bus as they are, and pc too.
LEMMA BusUntouched ==
  ASSUME BusInv, UNCHANGED <<pc, state, cur, busStop, busAbort, line, dma, fault, lied, overrun>>,
         \A r \in Registers : /\ register'[r].sent = register[r].sent
                              /\ register'[r].chip = register[r].chip
  PROVE  BusInv'
<1>1. (TaskKnowsState /\ StopIsOwn /\ DmaIdle)'
  BY DEF BusInv, TaskKnowsState, StopIsOwn, DmaIdle, IsOwn, Current
<1>2. ChipsFollow'
  BY Zenon DEF BusInv, ChipsFollow
<1>3. QED
  BY <1>1, <1>2 DEF BusInv, CompletionsAreOwn, DmaNotReprogrammed

\* Every step keeps the bus invariant.
LEMMA BusStep == TypeOK /\ BusInv /\ [Next]_vars => BusInv'
<1> SUFFICES ASSUME TypeOK, BusInv, [Next]_vars PROVE BusInv'
  OBVIOUS
<1> USE DEF BusInv
<1>1. CASE BusClear
  <2>1. state = "Ready" \/ fault = "mixed"
    BY <1>1 DEF BusClear, AtReady, TaskKnowsState
  <2>2. (TaskKnowsState /\ StopIsOwn /\ DmaIdle)'
    BY <1>1, <2>1 DEF BusClear, Failed, flags, TaskKnowsState, StopIsOwn, DmaIdle, IsOwn, Current
  <2>3. ChipsFollow'
    BY <1>1 DEF BusClear, Failed, ChipsFollow
  <2>4. QED
    BY <1>1, <2>2, <2>3 DEF BusClear, CompletionsAreOwn, DmaNotReprogrammed
<1>2. ASSUME NEW i \in 1..N, cur' = i, OnI2CReady(Devices[i]), pc' = "loop",
             UNCHANGED <<watch, wedged, lied, fault>>, state = "Ready" \/ fault = "mixed"
      PROVE  BusInv'
  <2>1. CASE state = "Ready"
    <3>1. Exec(Devices[i], IF Devices[i] \in Chips THEN "write" ELSE "status", Dirty(Devices[i]), dma)
      BY <1>2, <2>1, Zenon DEF OnI2CReady
    <3>2. (TaskKnowsState /\ StopIsOwn /\ DmaIdle)'
      BY <1>2, <3>1 DEF Exec, TaskKnowsState, StopIsOwn, DmaIdle, IsOwn, Current
    <3>3. ~overrun'
      BY <1>2, <2>1, <3>1 DEF Exec, DmaIdle, DmaNotReprogrammed
    <3>4. ASSUME fault' = "none" PROVE ChipsFollow'
      <4>1. ~busAbort' /\ state' # "Ready" /\ line' = [dev |-> Devices[i], at |-> "running", sets |-> Dirty(Devices[i])]
        BY <3>1 DEF Exec
      <4>2. fault = "none" /\ line.at # "running"
        BY <1>2, <2>1, <3>4 DEF ChipsFollow
      <4>3. ASSUME NEW r \in Registers, r \notin Dirty(Devices[i])
            PROVE  register'[r].sent = register'[r].chip
        <5>1. register[r].sent = register[r].chip
          BY <4>2 DEF ChipsFollow
        <5>2. r[1] # Devices[i] \/ register[r].new = register[r].sent
          BY <4>3 DEF Dirty
        <5>3. /\ \/ register'[r] = register[r]
                 \/ register'[r] = [register[r] EXCEPT !.sent = register[r].new]
              /\ r[1] # Devices[i] => register'[r] = register[r]
          BY <1>2 DEF OnI2CReady, Recorded
        <5>4. register[r] \in [new : {0, 1}, sent : {0, 1}, chip : {0, 1}]
          BY DEF TypeOK
        <5>5. QED
          BY <5>1, <5>2, <5>3, <5>4
      <4>4. QED
        BY <4>1, <4>3 DEF ChipsFollow
    <3>5. QED
      BY <1>2, <3>2, <3>3, <3>4 DEF ChipsFollow, CompletionsAreOwn, DmaNotReprogrammed
  <2>2. CASE state # "Ready" /\ fault = "mixed"
    <3>1. UNCHANGED <<line, busStop, busAbort, state, dma, overrun>>
      BY <1>2, <2>2 DEF OnI2CReady
    <3>2. QED
      BY <1>2, <2>2, <3>1 DEF TaskKnowsState, StopIsOwn, DmaIdle, ChipsFollow, CompletionsAreOwn, DmaNotReprogrammed
  <2>3. QED
    BY <1>2, <2>1, <2>2
<1>3. CASE Scan
  <2>1. state = "Ready" \/ fault = "mixed"
    BY <1>3 DEF Scan, AtReady, TaskKnowsState
  <2>2. UNCHANGED <<watch, wedged, lied, fault>> /\ pc' = "loop"
    BY <1>3 DEF Scan
  <2>3. CASE \E i \in 1..N : cur' = i /\ OnI2CReady(Devices[i])
    BY <1>2, <2>1, <2>2, <2>3
  <2>4. CASE UNCHANGED <<cur, register, reading, due, line, busStop, busAbort, expired, state,
                         rxOf, dma, tail, overrun>>
    <3>1. (TaskKnowsState /\ StopIsOwn /\ DmaIdle)'
      BY <2>2, <2>4 DEF TaskKnowsState, StopIsOwn, DmaIdle, IsOwn, Current
    <3>2. QED
      BY <2>2, <2>4, <3>1 DEF ChipsFollow, CompletionsAreOwn, DmaNotReprogrammed
  <2>5. QED
    BY <1>3, <2>3, <2>4 DEF Scan
<1>4. CASE Aborted
  <2>1. (TaskKnowsState /\ StopIsOwn /\ DmaIdle)'
    BY <1>4 DEF Aborted, NextTurn, TaskKnowsState, StopIsOwn, DmaIdle
  <2>2. fault # "none" /\ UNCHANGED <<fault, lied, overrun>>
    BY <1>4 DEF Aborted, ChipsFollow
  <2>3. QED
    BY <2>1, <2>2 DEF ChipsFollow, CompletionsAreOwn, DmaNotReprogrammed
<1>5. CASE NotAborted \/ NotStopped
  <2>1. /\ state # "Ready" /\ pc \in {"loop", "stop"} /\ pc' \in {"loop", "stop", "late"}
        /\ pc' = "stop" => ~busAbort
        /\ UNCHANGED <<state, cur, busStop, busAbort, register, line, dma, fault, lied, overrun>>
    BY <1>5 DEF NotAborted, NotStopped, TaskKnowsState, flags, client
  <2>2. (TaskKnowsState /\ StopIsOwn /\ DmaIdle)'
    BY <2>1 DEF TaskKnowsState, StopIsOwn, DmaIdle, IsOwn, Current
  <2>3. QED
    BY <2>1, <2>2 DEF ChipsFollow, CompletionsAreOwn, DmaNotReprogrammed
<1>6. CASE Stopped
  <2>1. /\ state # "Ready" /\ pc = "stop" /\ busStop
        /\ UNCHANGED <<fault, register>> /\ Told(IsOwn)
    BY <1>6 DEF Stopped, TaskKnowsState
  <2>2. fault # "mixed" => ~busAbort /\ IsOwn /\ ~dma
    BY <2>1 DEF TaskKnowsState, StopIsOwn, DmaIdle, IsOwn
  <2>3. ~lied'
    BY <2>1, <2>2 DEF Told, CompletionsAreOwn
  <2>4. CASE NextTurn /\ UNCHANGED <<line, busStop, busAbort, expired, rxOf, reading, dma, tail, overrun>>
    <3>1. (TaskKnowsState /\ StopIsOwn /\ DmaIdle)'
      BY <2>1, <2>2, <2>4 DEF NextTurn, TaskKnowsState, StopIsOwn, DmaIdle
    <3>2. ChipsFollow'
      BY <2>1, <2>2, <2>4 DEF ChipsFollow, IsOwn
    <3>3. QED
      BY <2>3, <2>4, <3>1, <3>2 DEF CompletionsAreOwn, DmaNotReprogrammed
  <2>5. CASE Exec(Current, "temperature", {}, dma) /\ pc' = "loop"
    <3>1. (TaskKnowsState /\ StopIsOwn /\ DmaIdle)'
      BY <2>1, <2>5 DEF Exec, TaskKnowsState, StopIsOwn, DmaIdle
    <3>2. ~overrun'
      BY <2>1, <2>2, <2>5 DEF Exec, DmaNotReprogrammed
    <3>3. ChipsFollow'
      BY <2>1, <2>2, <2>5 DEF Exec, ChipsFollow, IsOwn
    <3>4. QED
      BY <2>3, <3>1, <3>2, <3>3 DEF CompletionsAreOwn, DmaNotReprogrammed
  <2>6. QED
    BY <1>6, <2>4, <2>5, Zenon DEF Stopped
<1>7. CASE GiveUp
  <2>1. (TaskKnowsState /\ StopIsOwn /\ DmaIdle)'
    BY <1>7 DEF GiveUp, NextTurn, TaskKnowsState, StopIsOwn, DmaIdle
  <2>2. fault' # "none" /\ UNCHANGED <<lied, overrun>>
    BY <1>7 DEF GiveUp, Failed
  <2>3. QED
    BY <2>1, <2>2 DEF ChipsFollow, CompletionsAreOwn, DmaNotReprogrammed
<1>8. CASE Complete
  <2> DEFINE own == line.dev = Current /\ state # "Ready"
             after == [line EXCEPT !.at = "done"]
  <2>1. /\ line.at = "running" /\ UNCHANGED <<pc, cur>>
        /\ fault' = (IF own THEN fault ELSE "mixed") /\ StopIRQ(own, after, FALSE)
        /\ register' = [r \in Registers |->
             IF r \in line.sets THEN [register[r] EXCEPT !.chip = register[r].sent] ELSE register[r]]
    BY <1>8 DEF Complete
  <2>2. after.at = "done" /\ after.dev = line.dev
    BY DEF TypeOK
  <2>3. fault' # "mixed" => fault' = fault /\ fault # "mixed" /\ own
    BY <2>1
  <2>4. ~lied'
    BY <2>1, <2>3 DEF StopIRQ, Told, CompletionsAreOwn
  <2>5. fault' = "none" => \A r \in Registers : register'[r].sent = register'[r].chip
    <3> SUFFICES ASSUME fault' = "none", NEW r \in Registers
                 PROVE  register'[r].sent = register'[r].chip
      OBVIOUS
    <3>1. register[r].sent = register[r].chip \/ r \in line.sets
      BY <2>3 DEF ChipsFollow
    <3>2. register[r] \in [new : {0, 1}, sent : {0, 1}, chip : {0, 1}]
      BY DEF TypeOK
    <3>3. QED
      BY <2>1, <3>1, <3>2
  <2>6. CASE /\ busStop' = TRUE /\ line' = after /\ dma' = FALSE
             /\ UNCHANGED <<busAbort, expired, state, rxOf, reading, overrun>>
    <3>1. TaskKnowsState'
      BY <2>1, <2>3, <2>6 DEF TaskKnowsState
    <3>2. StopIsOwn' /\ DmaIdle'
      BY <2>1, <2>2, <2>3, <2>6 DEF StopIsOwn, DmaIdle, IsOwn, Current
    <3>3. ChipsFollow'
      BY <2>3, <2>5, <2>6, <2>2 DEF ChipsFollow
    <3>4. QED
      BY <2>4, <2>6, <3>1, <3>2, <3>3 DEF CompletionsAreOwn, DmaNotReprogrammed
  <2>7. CASE Exec(Current, "axes", {}, FALSE)
    <3>1. (TaskKnowsState /\ StopIsOwn /\ DmaIdle)'
      BY <2>1, <2>3, <2>7 DEF Exec, TaskKnowsState, StopIsOwn, DmaIdle
    <3>2. ChipsFollow'
      BY <2>5, <2>7 DEF Exec, ChipsFollow
    <3>3. ~overrun'
      BY <2>7 DEF Exec, DmaNotReprogrammed
    <3>4. QED
      BY <2>4, <3>1, <3>2, <3>3 DEF CompletionsAreOwn, DmaNotReprogrammed
  <2>8. QED
    BY <2>1, <2>6, <2>7, Zenon DEF StopIRQ
<1>9. CASE Nack
  <2>1. /\ busAbort' /\ line.at = "running" /\ line'.at = "nacked" /\ fault' # "none"
        /\ fault' # "mixed" => fault # "mixed" /\ pc # "stop"
        /\ UNCHANGED <<pc, state, cur, dma, lied, overrun>>
    BY <1>9 DEF Nack, Failed, TypeOK
  <2>2. (TaskKnowsState /\ StopIsOwn /\ DmaIdle)'
    BY <2>1 DEF TaskKnowsState, StopIsOwn, DmaIdle
  <2>3. QED
    BY <2>1, <2>2 DEF ChipsFollow, CompletionsAreOwn, DmaNotReprogrammed
<1>10. CASE LateStop
  <2>1. /\ fault' = (IF busAbort THEN fault ELSE "mixed") /\ StopIRQ(FALSE, line, dma)
        /\ UNCHANGED <<pc, cur, register>>
    BY <1>10 DEF LateStop
  <2>2. fault' # "mixed" => fault' = fault /\ fault # "mixed" /\ busAbort
    BY <2>1
  <2>3. fault' # "none"
    BY <2>1 DEF ChipsFollow
  <2>4. ~lied'
    BY <2>1, <2>2 DEF StopIRQ, Told, CompletionsAreOwn
  <2>5. CASE /\ busStop' = TRUE /\ line' = line /\ dma' = dma
             /\ UNCHANGED <<busAbort, expired, state, rxOf, reading, overrun>>
    <3>1. (TaskKnowsState /\ StopIsOwn /\ DmaIdle)'
      BY <2>1, <2>2, <2>5 DEF TaskKnowsState, StopIsOwn, DmaIdle
    <3>2. QED
      BY <2>3, <2>4, <2>5, <3>1 DEF ChipsFollow, CompletionsAreOwn, DmaNotReprogrammed
  <2>6. CASE ~busAbort /\ Exec(Current, "axes", {}, dma)
    <3>1. fault' = "mixed" /\ state' # "Ready"
      BY <2>1, <2>6 DEF Exec
    <3>2. ~overrun'
      BY <2>6, <3>1 DEF Exec, DmaNotReprogrammed
    <3>3. QED
      BY <2>4, <3>1, <3>2 DEF TaskKnowsState, StopIsOwn, DmaIdle, ChipsFollow,
                              CompletionsAreOwn, DmaNotReprogrammed
  <2>7. QED
    BY <2>1, <2>5, <2>6, Zenon DEF StopIRQ
<1>11. CASE Expire \/ Wedge \/ RequestClear \/ Rest
  <2>1. UNCHANGED <<pc, state, cur, busStop, busAbort, register, line, dma, fault, lied, overrun>>
    BY <1>11 DEF Expire, Wedge, RequestClear, Rest, flags, client, watch
  <2>2. QED
    BY <2>1, BusUntouched
<1>12. ASSUME NEW d \in Chips, NEW level \in {0, 1}, SetPort(d, level) PROVE BusInv'
  <2>1. /\ UNCHANGED <<pc, state, cur, busStop, busAbort, line, dma, fault, lied, overrun>>
        /\ register' = [register EXCEPT ![<<d, "output">>].new = level]
    BY <1>12 DEF SetPort, flags
  <2>2. \A r \in Registers : register'[r].sent = register[r].sent /\ register'[r].chip = register[r].chip
    BY <2>1 DEF TypeOK
  <2>3. QED
    BY <2>1, <2>2, BusUntouched
<1>13. ASSUME NEW d \in Sensors, SampleDue(d) PROVE BusInv'
  <2>1. UNCHANGED <<pc, state, cur, busStop, busAbort, register, line, dma, fault, lied, overrun>>
    BY <1>13 DEF SampleDue, flags
  <2>2. QED
    BY <2>1, BusUntouched
<1>14. CASE UNCHANGED vars
  BY <1>14, BusUntouched DEF vars
<1>15. QED
  BY <1>1, <1>3, <1>4, <1>5, <1>6, <1>7, <1>8, <1>9, <1>10, <1>11, <1>12, <1>13, <1>14
  DEF Next, UnitTask

\* The task, the interrupts and the chips agree at all times.
LEMMA BusInvariant == Spec => []BusInv
<1>1. TypeOK /\ TypeOK' /\ BusInv /\ [Next]_vars => BusInv'
  BY BusStep
<1>2. QED
  BY BusInit, <1>1, TypeInvariant, PTL DEF Spec

\* A device is told only of the completion of its own transfer, on every bus:
\* I2CIRQ and Task agree on the transfer that a STOP ends, with the exceptions
\* that CompletionsAreOwn names.
THEOREM TaskIsToldItsOwn == Spec => []CompletionsAreOwn
<1>1. BusInv => CompletionsAreOwn
  BY DEF BusInv
<1>2. QED
  BY <1>1, BusInvariant, PTL

\* No transfer programs DMA channels that are active, with the same exceptions:
\* ExecReadWrite runs only after a completion, an abort or a timeout has ended
\* or stopped the transfer before.
THEOREM ChannelsAreFree == Spec => []DmaNotReprogrammed
<1>1. BusInv => DmaNotReprogrammed
  BY DEF BusInv
<1>2. QED
  BY <1>1, BusInvariant, PTL

\* While no transfer has failed, a quiet bus means that every register of every
\* chip holds the value that is wanted of it.
THEOREM QuietBusIsSet == Spec => []QuietMeansSet
<1>1. BusInv => QuietMeansSet
  <2> SUFFICES ASSUME BusInv, fault = "none", state = "Ready", \A d \in Chips : Dirty(d) = {},
                      NEW r \in Registers
               PROVE  register[r].chip = register[r].new
    BY DEF QuietMeansSet
  <2>1. register[r].sent = register[r].chip
    BY DEF BusInv, ChipsFollow
  <2>2. r[1] \in Chips
    BY DEF Registers
  <2>3. register[r].new = register[r].sent
    BY <2>2 DEF Dirty
  <2>4. QED
    BY <2>1, <2>3
<1>2. QED
  BY <1>1, BusInvariant, PTL
=============================================================================
