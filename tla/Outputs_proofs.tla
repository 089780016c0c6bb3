---------------------------- MODULE Outputs_proofs ----------------------------
(*****************************************************************************)
(* Theorems about Outputs: the flipper logic, Night Mode, the share group    *)
(* and a suspension keep their promises, for every list of ports, every      *)
(* setting of their timers, every share group and all that the host does.    *)
(*****************************************************************************)
EXTENDS Outputs, TLAPS

\* The settings of a port are numbers that the clocks of the model can hold.
LEMMA LimitsOK ==
  ASSUME NEW p \in Ports
  PROVE  /\ TimeLimit[p] \in Nat /\ CoolingTime[p] \in Nat /\ PowerLimit[p] \in Nat
         /\ LoopTime \in Nat /\ Horizon \in Nat
         /\ TimeLimit[p] + LoopTime < Horizon /\ CoolingTime[p] <= Horizon
BY OutputsAssumption DEF OutputsAssumption

(*****************************************************************************)
(* One port.  PortOK holds between any two calls; Effect relates the port    *)
(* before and after any number of calls at one instant.                      *)
(*****************************************************************************)
PortOK(p, r) ==
  /\ r \in PortType
  /\ TimeLimit[p] # 0 /\ r.state = "Ready" => r.log <= PowerLimit[p]
  /\ r.cutoff <= TimeLimit[p]
  /\ r.out <= r.log

Effect(p, r, s) ==
  /\ ~Hot(p, r) /\ Hot(p, s) => r.cool = 0 \/ CoolingTime[p] = 0
  /\ Hot(p, r) /\ ~Hot(p, s) => s.cool = CoolingTime[p]
  /\ ~Hot(p, r) /\ ~Hot(p, s) => s.cool >= r.cool \/ s.cool = CoolingTime[p]
  /\ TimeLimit[p] = 0 \/ r.state # "Ready" => s.cutoff = r.cutoff

\* What Apply does to the fields of a port.
LEMMA ApplyFields ==
  ASSUME NEW p \in Ports, NEW r \in PortType, NEW s, s = Apply(p, r)
  PROVE  /\ s \in PortType
         /\ s.log = r.log /\ s.state = r.state /\ s.cutoff = r.cutoff
         /\ s.out <= r.log
         /\ s.out > PowerLimit[p] => r.state # "Triggered" /\ r.cool = 0
         /\ s.out <= PowerLimit[p] =>
              s.cool = IF r.out > PowerLimit[p] THEN CoolingTime[p] ELSE r.cool
<1> DEFINE want == IF p \in Noisy /\ night THEN 0 ELSE r.log
           attenuate == r.state = "Triggered" \/ r.cool > 0
           out == IF want > PowerLimit[p] /\ attenuate THEN PowerLimit[p] ELSE want
           cool == IF out <= PowerLimit[p] /\ Hot(p, r) THEN CoolingTime[p] ELSE r.cool
<1>1. PowerLimit[p] \in Nat /\ CoolingTime[p] \in Nat
  BY LimitsOK
<1>2. r.log \in Nat /\ r.out \in Nat /\ r.cool \in Nat
  BY DEF PortType
<1>3. s = [r EXCEPT !.cool = cool, !.out = out]
  BY DEF Apply
<1>4. want \in Nat /\ want <= r.log
  BY <1>2
<1>5. out \in Nat /\ out <= r.log
      /\ (out > PowerLimit[p] => r.state # "Triggered" /\ r.cool = 0)
  BY <1>1, <1>2, <1>4
<1>6. cool \in Nat
      /\ (out <= PowerLimit[p] => cool = IF r.out > PowerLimit[p] THEN CoolingTime[p] ELSE r.cool)
  BY <1>1, <1>2 DEF Hot
<1> HIDE DEF out, cool
<1>7. s \in PortType /\ s.log = r.log /\ s.state = r.state /\ s.cutoff = r.cutoff
      /\ s.out = out /\ s.cool = cool
  BY <1>3, <1>5, <1>6 DEF PortType
<1>8. QED
  BY <1>5, <1>6, <1>7

\* What the flipper logic makes of a new level.
Leveled(p, r, level) ==
  [(IF TimeLimit[p] # 0 THEN Rearmed(p, r, level) ELSE r) EXCEPT !.log = level]

\* What the flipper logic does to the fields of a port whose logical level is set.
LEMMA RearmedFields ==
  ASSUME NEW p \in Ports, NEW r, PortOK(p, r), NEW level \in Nat,
         NEW s, s = Leveled(p, r, level)
  PROVE  /\ s \in PortType
         /\ s.log = level /\ s.out = r.out /\ s.cutoff <= TimeLimit[p]
         /\ TimeLimit[p] # 0 /\ s.state = "Ready" => level <= PowerLimit[p]
         /\ s.cool = r.cool \/ (level = 0 /\ s.cool = CoolingTime[p])
         /\ TimeLimit[p] = 0 \/ r.state # "Ready" => s.cutoff = r.cutoff
<1>1. PowerLimit[p] \in Nat /\ CoolingTime[p] \in Nat /\ TimeLimit[p] \in Nat
  BY LimitsOK
<1>2. r \in PortType /\ r.cutoff <= TimeLimit[p]
  BY DEF PortOK
<1>3. CASE TimeLimit[p] # 0 /\ r.state = "Ready" /\ level > PowerLimit[p]
  <2>1. s = [[r EXCEPT !.state = "Armed", !.cutoff = TimeLimit[p]] EXCEPT !.log = level]
    BY <1>3 DEF Rearmed, Leveled
  <2>2. s \in PortType /\ s.log = level /\ s.out = r.out /\ s.cutoff = TimeLimit[p]
        /\ s.state = "Armed" /\ s.cool = r.cool
    BY <1>1, <1>2, <2>1 DEF PortType
  <2>3. QED
    BY <1>1, <1>3, <2>2
<1>4. CASE TimeLimit[p] # 0 /\ r.state # "Ready" /\ level = 0
  <2>1. s = [[r EXCEPT !.state = "Ready", !.cool = CoolingTime[p]] EXCEPT !.log = level]
    <3>1. ~(r.state = "Ready" /\ level > PowerLimit[p]) /\ TimeLimit[p] # 0
          /\ r.state # "Ready" /\ level = 0
      BY <1>4
    <3>2. Rearmed(p, r, level) = [r EXCEPT !.state = "Ready", !.cool = CoolingTime[p]]
      BY <3>1 DEF Rearmed
    <3>3. QED
      BY <3>1, <3>2 DEF Leveled
  <2>2. s \in PortType /\ s.log = level /\ s.out = r.out /\ s.cutoff = r.cutoff
        /\ s.state = "Ready" /\ s.cool = CoolingTime[p]
    BY <1>1, <1>2, <2>1 DEF PortType
  <2>3. QED
    BY <1>1, <1>2, <1>4, <2>2
<1>5. CASE TimeLimit[p] = 0 \/ (~(r.state = "Ready" /\ level > PowerLimit[p])
                                /\ ~(r.state # "Ready" /\ level = 0))
  <2>1. s = [r EXCEPT !.log = level]
    BY <1>5 DEF Rearmed, Leveled
  <2>2. TimeLimit[p] # 0 /\ r.state = "Ready" => level <= PowerLimit[p]
    BY <1>1, <1>5
  <2>3. s \in PortType /\ s.log = level /\ s.out = r.out /\ s.cutoff = r.cutoff
        /\ s.state = r.state /\ s.cool = r.cool
    BY <1>2, <2>1 DEF PortType
  <2>4. QED
    BY <1>2, <2>2, <2>3
<1>6. QED
  BY <1>3, <1>4, <1>5

\* A level that is set.
LEMMA SetLevelOK ==
  ASSUME NEW p \in Ports, NEW r, PortOK(p, r), NEW level \in Nat,
         NEW s, s = SetLogicalLevel(p, r, level)
  PROVE  PortOK(p, s) /\ Effect(p, r, s)
<1> DEFINE y == Leveled(p, r, level)
<1>1. s = Apply(p, y)
  BY DEF SetLogicalLevel, Leveled
<1>2. /\ y \in PortType
      /\ y.log = level /\ y.out = r.out /\ y.cutoff <= TimeLimit[p]
      /\ TimeLimit[p] # 0 /\ y.state = "Ready" => level <= PowerLimit[p]
      /\ y.cool = r.cool \/ (level = 0 /\ y.cool = CoolingTime[p])
      /\ TimeLimit[p] = 0 \/ r.state # "Ready" => y.cutoff = r.cutoff
  BY RearmedFields
<1> HIDE DEF y
<1>3. /\ s \in PortType
      /\ s.log = y.log /\ s.state = y.state /\ s.cutoff = y.cutoff
      /\ s.out <= y.log
      /\ s.out > PowerLimit[p] => y.state # "Triggered" /\ y.cool = 0
      /\ s.out <= PowerLimit[p] =>
           s.cool = IF y.out > PowerLimit[p] THEN CoolingTime[p] ELSE y.cool
  BY <1>1, <1>2, ApplyFields
<1>4. PortOK(p, s)
  BY <1>2, <1>3 DEF PortOK
<1>5. PowerLimit[p] \in Nat /\ CoolingTime[p] \in Nat /\ r.out \in Nat /\ s.out \in Nat
      /\ r.cool \in Nat /\ s.cool \in Nat /\ y.cool \in Nat
  BY <1>2, <1>3, LimitsOK DEF PortOK, PortType
<1>6. ~Hot(p, r) /\ Hot(p, s) => r.cool = 0 \/ CoolingTime[p] = 0
  BY <1>2, <1>3, <1>5 DEF Hot
<1>7. Hot(p, r) /\ ~Hot(p, s) => s.cool = CoolingTime[p]
  BY <1>2, <1>3, <1>5 DEF Hot
<1>8. ~Hot(p, r) /\ ~Hot(p, s) => s.cool >= r.cool \/ s.cool = CoolingTime[p]
  BY <1>2, <1>3, <1>5 DEF Hot
<1>9. QED
  BY <1>2, <1>3, <1>4, <1>6, <1>7, <1>8 DEF Effect

\* The levels an LedWiz setting can have are numbers.
LEMMA LiveNat ==
  ASSUME NEW lw \in LedWiz PROVE LiveLevels(lw) \subseteq Nat
<1>1. lw.profile \in Levels \cup {Wave} /\ Levels \subseteq Nat
  BY OutputsAssumption DEF LedWiz, OutputsAssumption
<1>2. CASE lw.mode /\ lw.on
  <2>1. LiveLevels(lw) = IF lw.profile = Wave THEN Levels ELSE {lw.profile}
    BY <1>2 DEF LiveLevels
  <2>2. CASE lw.profile = Wave
    BY <1>1, <2>1, <2>2
  <2>3. CASE lw.profile # Wave
    <3>1. LiveLevels(lw) = {lw.profile} /\ lw.profile \in Nat
      BY <1>1, <2>1, <2>3
    <3>2. QED
      BY <3>1
  <2>4. QED
    BY <2>2, <2>3
<1>3. CASE ~(lw.mode /\ lw.on)
  BY <1>3 DEF LiveLevels
<1>4. QED
  BY <1>2, <1>3

\* Port::Task: when the timer has run out, the power is reduced.
LEMMA PortTaskOK ==
  ASSUME NEW p \in Ports, NEW r, PortOK(p, r), NEW x \in Refreshed(p, r),
         NEW s, s = Apply(p, Triggered(x))
  PROVE  /\ PortOK(p, s) /\ Effect(p, r, s)
         /\ TimeLimit[p] # 0 /\ Hot(p, s) => s.cutoff > 0
<1> DEFINE t == Triggered(x)
<1>1. x = r \/ \E level \in Nat : x = SetLogicalLevel(p, r, level)
  <2>1. Levels \subseteq Nat /\ 0 \in Nat
    BY OutputsAssumption DEF OutputsAssumption
  <2>2. LiveLevels(r.lw) \subseteq Nat
    BY LiveNat DEF PortOK, PortType
  <2>3. QED
    BY <2>1, <2>2 DEF Refreshed
<1>2. PortOK(p, r) /\ PowerLimit[p] \in Nat /\ CoolingTime[p] \in Nat /\ TimeLimit[p] \in Nat
  BY LimitsOK
<1>3. PortOK(p, x)
  BY <1>1, SetLevelOK
<1>4. Effect(p, r, x)
  <2>1. Effect(p, r, r)
    BY DEF Effect, PortOK, PortType, Hot
  <2>2. QED
    BY <1>1, <2>1, SetLevelOK
<1>5. /\ t \in PortType /\ t.log = x.log /\ t.out = x.out /\ t.cool = x.cool /\ t.cutoff = x.cutoff
      /\ t.state = "Triggered" \/ (t.state = x.state /\ ~(x.state = "Armed" /\ x.cutoff = 0))
      /\ x.state \in {"Ready", "Armed", "Triggered"}
      /\ t.state = "Ready" => x.state = "Ready"
  BY <1>3 DEF Triggered, PortOK, PortType
<1>6. s = Apply(p, t)
  OBVIOUS
<1> HIDE DEF t
<1>7. /\ s \in PortType
      /\ s.log = t.log /\ s.state = t.state /\ s.cutoff = t.cutoff
      /\ s.out <= t.log
      /\ s.out > PowerLimit[p] => t.state # "Triggered" /\ t.cool = 0
      /\ s.out <= PowerLimit[p] =>
           s.cool = IF t.out > PowerLimit[p] THEN CoolingTime[p] ELSE t.cool
  BY <1>5, <1>6, ApplyFields
<1>8. /\ r.out \in Nat /\ x.out \in Nat /\ s.out \in Nat /\ x.log \in Nat /\ x.cutoff \in Nat
      /\ r.cool \in Nat /\ x.cool \in Nat /\ s.cool \in Nat
  BY <1>3, <1>7 DEF PortOK, PortType
<1>9. PortOK(p, s)
  BY <1>3, <1>5, <1>7 DEF PortOK
<1>10. Effect(p, r, s)
  <2>1. ~Hot(p, r) /\ Hot(p, s) => r.cool = 0 \/ CoolingTime[p] = 0
    BY <1>2, <1>4, <1>5, <1>7, <1>8 DEF Hot, Effect
  <2>2. Hot(p, r) /\ ~Hot(p, s) => s.cool = CoolingTime[p]
    BY <1>2, <1>4, <1>5, <1>7, <1>8 DEF Hot, Effect
  <2>3. ~Hot(p, r) /\ ~Hot(p, s) => s.cool >= r.cool \/ s.cool = CoolingTime[p]
    BY <1>2, <1>4, <1>5, <1>7, <1>8 DEF Hot, Effect
  <2>4. TimeLimit[p] = 0 \/ r.state # "Ready" => s.cutoff = r.cutoff
    BY <1>4, <1>5, <1>7 DEF Effect
  <2>5. QED
    BY <2>1, <2>2, <2>3, <2>4 DEF Effect
<1>11. TimeLimit[p] # 0 /\ Hot(p, s) => s.cutoff > 0
  <2> SUFFICES ASSUME TimeLimit[p] # 0, Hot(p, s) PROVE s.cutoff > 0
    OBVIOUS
  <2>1. s.out > PowerLimit[p] /\ s.out <= x.log
    BY <1>5, <1>7 DEF Hot
  <2>2. x.state # "Ready" /\ t.state # "Triggered"
    BY <1>2, <1>3, <1>7, <1>8, <2>1 DEF PortOK
  <2>3. QED
    BY <1>5, <1>7, <1>8, <2>2
<1>12. QED
  BY <1>9, <1>10, <1>11

(*****************************************************************************)
(* All ports: what one port passes on changes one other port at most.        *)
(*****************************************************************************)
GroupType ==
  [level : Nat, port : PoolPorts \cup {None}, onPort : PoolPorts \cup {None}, left : Nat, off : Nat]

GroupsOK ==
  /\ group \in [GroupPorts -> GroupType]
  /\ claimant \in [PoolPorts -> GroupPorts \cup {None}] /\ claimIdx \in DOMAIN Pool

PortsOK ==
  /\ port \in [Ports -> PortType] /\ GroupsOK
  /\ \A p \in Ports : PortOK(p, port[p])

Flow == PortsOK' /\ \A x \in Ports : Effect(x, port[x], port'[x])

\* The sets of ports and levels fit together.
LEMMA SetsOK ==
  /\ GroupPorts \subseteq Ports /\ PoolPorts \subseteq Ports /\ PoolPorts \cap GroupPorts = {}
  /\ \A i \in DOMAIN Pool : Pool[i] \in PoolPorts
  /\ Levels \subseteq Nat /\ DofLevels \subseteq Nat /\ None \notin Ports
  /\ \A v \in GroupPorts : OnTime[v] \in Nat /\ OffTime[v] \in Nat
<1>1. Pool \in Seq(Ports) /\ PoolPorts \cap GroupPorts = {}
  BY OutputsAssumption DEF OutputsAssumption
<1>2. PoolPorts \subseteq Ports
  BY <1>1 DEF PoolPorts
<1>3. \A i \in DOMAIN Pool : Pool[i] \in PoolPorts
  BY DEF PoolPorts
<1>4. GroupPorts \subseteq Ports /\ Levels \subseteq Nat /\ DofLevels \subseteq Nat /\ None \notin Ports
      /\ \A v \in GroupPorts : OnTime[v] \in Nat /\ OffTime[v] \in Nat
  BY OutputsAssumption DEF OutputsAssumption
<1>5. QED
  BY <1>1, <1>2, <1>3, <1>4

\* What the host sets in a port besides its level has no effect on its device.
LEMMA HostFields ==
  ASSUME NEW p \in Ports, NEW r, PortOK(p, r), NEW s \in PortType,
         s.log = r.log, s.state = r.state, s.cutoff = r.cutoff, s.cool = r.cool, s.out = r.out
  PROVE  /\ PortOK(p, s) /\ Effect(p, r, s)
         /\ \A z : Effect(p, s, z) => Effect(p, r, z)
<1>1. PortOK(p, s)
  BY DEF PortOK
<1>2. r.cool \in Nat
  BY DEF PortOK, PortType
<1>3. Effect(p, r, s)
  BY <1>2 DEF Effect, Hot
<1>4. \A z : Effect(p, s, z) => Effect(p, r, z)
  BY DEF Effect, Hot
<1>5. QED
  BY <1>1, <1>3, <1>4

\* A pool port that the share group drives keeps to its limits.
LEMMA ShareLevelOK ==
  ASSUME NEW q \in Ports, NEW r, PortOK(q, r), NEW level \in Nat,
         NEW z, z = SetShareGroupLevel(q, r, level)
  PROVE  PortOK(q, z) /\ Effect(q, r, z)
<1> DEFINE s == [r EXCEPT !.dof = level, !.lw.mode = FALSE]
<1>1. s \in PortType /\ s.log = r.log /\ s.state = r.state /\ s.cutoff = r.cutoff
      /\ s.cool = r.cool /\ s.out = r.out
  BY DEF PortOK, PortType, LedWiz
<1> HIDE DEF s
<1>2. PortOK(q, s) /\ Effect(q, r, s) /\ \A w : Effect(q, s, w) => Effect(q, r, w)
  BY <1>1, HostFields
<1>3. z = s \/ z = SetLogicalLevel(q, s, level)
  BY DEF SetShareGroupLevel, s
<1>4. QED
  BY <1>2, <1>3, SetLevelOK

\* A virtual port stays a virtual port when its level is set.
LEMMA GroupSetOK ==
  ASSUME NEW v \in GroupPorts, group[v] \in GroupType, NEW level \in Nat,
         NEW next \in PoolPorts \cup {None}
  PROVE  GroupSet(v, level, next) \in GroupType
<1> DEFINE g == group[v]
           edge == CASE g.level = 0 /\ level # 0 -> RisingEdge(v, g, next)
                     [] g.level # 0 /\ level = 0 -> FallingEdge(v, g)
                     [] OTHER -> g
           set == [edge EXCEPT !.level = level]
<1>1. OnTime[v] + 1 \in Nat /\ OffTime[v] + 1 \in Nat
  BY SetsOK
<1>2. RisingEdge(v, g, next) \in GroupType
  BY <1>1 DEF RisingEdge, GroupType
<1>3. FallingEdge(v, g) \in GroupType
  BY <1>1 DEF FallingEdge, GroupType
<1>4. edge \in GroupType
  BY <1>2, <1>3
<1> HIDE DEF edge
<1>5. set \in GroupType
  BY <1>4 DEF GroupType
<1>6. [set EXCEPT !.port = None, !.off = 0] \in GroupType
  BY <1>5 DEF GroupType
<1> HIDE DEF set
<1>7. QED
  BY <1>5, <1>6 DEF GroupSet, set, edge

\* What ClaimPort would return at pool index i.
NextPort(i) == IF Free = {} THEN None ELSE Pool[i]

\* Group port p passes a level on: its device becomes after and sets port q.
GroupStep(p, r, i, after, q, level) ==
  /\ NextPort(i) = None \/ claimant[NextPort(i)] = None
  /\ after = GroupSet(p, r.out, NextPort(i))
  /\ q = IF after.port # None THEN after.port ELSE group[p].port
  /\ level = IF after.port = None THEN 0 ELSE IF after.off # 0 THEN after.off ELSE r.out
  /\ group' = [group EXCEPT ![p] = after]
  /\ claimIdx' \in {i, claimIdx}
  /\ claimant' = [x \in PoolPorts |->
                    IF x # q THEN claimant[x] ELSE IF after.port = None THEN None ELSE p]
  /\ port' = [x \in Ports |->
                IF x = p THEN r
                ELSE IF x = q THEN SetShareGroupLevel(q, port[q], level)
                ELSE port[x]]

\* A level passed on by a virtual port is one step of its group.
LEMMA GroupPassed ==
  ASSUME PortsOK, NEW p \in GroupPorts, NEW r \in PortType, Passed(p, r)
  PROVE  \E i \in DOMAIN Pool, after \in GroupType, q \in PoolPorts \cup {None}, level \in Nat :
           GroupStep(p, r, i, after, q, level)
<1>1. PICK i \in IF Free = {} THEN {claimIdx} ELSE NextFree :
        LET before == group[p]
            after == GroupSet(p, r.out, NextPort(i))
            q == IF after.port # None THEN after.port ELSE before.port
            level == IF after.port = None THEN 0
                     ELSE IF after.off # 0 THEN after.off ELSE r.out
            claims == before.port = None /\ after.port # None /\ after.off = 0
        IN /\ group' = [group EXCEPT ![p] = after]
           /\ claimIdx' = IF claims THEN i ELSE claimIdx
           /\ claimant' = [x \in PoolPorts |->
                             IF x # q THEN claimant[x]
                             ELSE IF after.port = None THEN None ELSE p]
           /\ port' = [x \in Ports |->
                         IF x = p THEN r
                         ELSE IF x = q THEN SetShareGroupLevel(q, port[q], level)
                         ELSE port[x]]
  BY DEF Passed, NextPort
<1>2. /\ i \in DOMAIN Pool /\ NextPort(i) \in PoolPorts \cup {None}
      /\ NextPort(i) = None \/ claimant[NextPort(i)] = None
  BY SetsOK DEF NextFree, Free, NextPort, PortsOK, GroupsOK
<1>3. r.out \in Nat /\ group[p] \in GroupType
  BY DEF PortType, PortsOK, GroupsOK
<1>4. PICK after \in GroupType : after = GroupSet(p, r.out, NextPort(i))
  BY <1>2, <1>3, GroupSetOK
<1> DEFINE q == IF after.port # None THEN after.port ELSE group[p].port
           level == IF after.port = None THEN 0
                    ELSE IF after.off # 0 THEN after.off ELSE r.out
<1>5. q \in PoolPorts \cup {None} /\ level \in Nat
  BY <1>3, <1>4 DEF GroupType
<1>6. GroupStep(p, r, i, after, q, level)
  BY <1>1, <1>2, <1>4 DEF GroupStep
<1> HIDE DEF q, level
<1>7. QED
  BY <1>2, <1>5, <1>6

\* A level that reaches a port changes that port only, and the group it drives.
LEMMA PassedOK ==
  ASSUME PortsOK, NEW p \in Ports, NEW r, PortOK(p, r), Effect(p, port[p], r), Passed(p, r)
  PROVE  Flow /\ port'[p] = r
<1>0. \A x \in Ports : Effect(x, port[x], port[x])
  BY HostFields DEF PortsOK
<1>1. CASE p \notin GroupPorts
  <2>1. port' = [port EXCEPT ![p] = r] /\ UNCHANGED <<group, claimant, claimIdx>>
    BY <1>1 DEF Passed, groupVars
  <2>2. GroupsOK' /\ port' \in [Ports -> PortType]
    BY <2>1 DEF PortsOK, GroupsOK, PortOK
  <2>3. \A x \in Ports : PortOK(x, port'[x]) /\ Effect(x, port[x], port'[x])
    BY <1>0, <2>1 DEF PortsOK
  <2>4. QED
    BY <2>1, <2>2, <2>3 DEF Flow, PortsOK
<1>2. CASE p \in GroupPorts
  <2>1. PICK i \in DOMAIN Pool, after \in GroupType, q \in PoolPorts \cup {None}, level \in Nat :
          GroupStep(p, r, i, after, q, level)
    BY <1>2, GroupPassed DEF PortOK
  <2>2. GroupsOK'
    BY <1>2, <2>1 DEF PortsOK, GroupsOK, GroupStep
  <2>3. ASSUME NEW x \in Ports
        PROVE  PortOK(x, port'[x]) /\ Effect(x, port[x], port'[x])
    <3>1. CASE x = p
      BY <2>1, <3>1 DEF GroupStep
    <3>2. CASE x # p /\ x = q
      <4>1. port'[x] = SetShareGroupLevel(x, port[x], level)
        BY <2>1, <3>2 DEF GroupStep
      <4>2. QED
        BY <4>1, ShareLevelOK DEF PortsOK
    <3>3. CASE x # p /\ x # q
      BY <1>0, <2>1, <3>3 DEF PortsOK, GroupStep
    <3>4. QED
      BY <3>1, <3>2, <3>3
  <2>4. port' \in [Ports -> PortType]
    BY <2>1, <2>3 DEF PortOK, GroupStep
  <2>5. QED
    BY <2>1, <2>2, <2>3, <2>4 DEF Flow, PortsOK, GroupStep
<1>3. QED
  BY <1>1, <1>2

(*****************************************************************************)
(* The calls.                                                                *)
(*****************************************************************************)
LEMMA Unpassed ==
  ASSUME PortsOK, NEW p \in Ports, NEW r, PortOK(p, r), Effect(p, port[p], r),
         port' = [port EXCEPT ![p] = r] /\ UNCHANGED groupVars
  PROVE  Flow
<1>1. \A x \in Ports : Effect(x, port[x], port[x])
  BY HostFields DEF PortsOK
<1>2. GroupsOK' /\ port' \in [Ports -> PortType]
  BY DEF PortsOK, GroupsOK, PortOK, groupVars
<1>3. \A x \in Ports : PortOK(x, port'[x]) /\ Effect(x, port[x], port'[x])
  BY <1>1 DEF PortsOK
<1>4. QED
  BY <1>2, <1>3 DEF Flow, PortsOK

\* A level that is set in s, which differs from port p in what the host sets only.
LEMMA SetThenPassed ==
  ASSUME PortsOK, NEW p \in Ports, NEW s \in PortType, NEW level \in Nat,
         s.log = port[p].log, s.state = port[p].state, s.cutoff = port[p].cutoff,
         s.cool = port[p].cool, s.out = port[p].out,
         \/ Passed(p, SetLogicalLevel(p, s, level))
         \/ port' = [port EXCEPT ![p] = s] /\ UNCHANGED groupVars
  PROVE  Flow
<1>1. PortOK(p, s) /\ Effect(p, port[p], s) /\ \A z : Effect(p, s, z) => Effect(p, port[p], z)
  BY HostFields DEF PortsOK
<1>2. PICK z : z = SetLogicalLevel(p, s, level)
  OBVIOUS
<1>3. PortOK(p, z) /\ Effect(p, port[p], z)
  BY <1>1, <1>2, SetLevelOK
<1>4. QED
  BY <1>1, <1>2, <1>3, PassedOK, Unpassed

\* A level from the Feedback Controller interface.
LEMMA DOFOK ==
  ASSUME PortsOK, NEW p \in Ports, NEW level \in Nat, SetDOFLevel(p, level)
  PROVE  Flow
<1> DEFINE s == [port[p] EXCEPT !.dof = level, !.lw.mode = FALSE]
<1>1. s \in PortType /\ s.log = port[p].log /\ s.state = port[p].state
      /\ s.cutoff = port[p].cutoff /\ s.cool = port[p].cool /\ s.out = port[p].out
  BY DEF PortsOK, PortType, LedWiz
<1>2. CASE UNCHANGED <<port, group, claimant, claimIdx>>
  <2>1. \A x \in Ports : Effect(x, port[x], port[x])
    BY HostFields DEF PortsOK
  <2>2. QED
    BY <1>2, <2>1 DEF Flow, PortsOK, GroupsOK
<1>3. \/ UNCHANGED <<port, group, claimant, claimIdx>>
      \/ Passed(p, SetLogicalLevel(p, s, level))
      \/ port' = [port EXCEPT ![p] = s] /\ UNCHANGED groupVars
  BY DEF SetDOFLevel
<1> HIDE DEF s
<1>4. QED
  BY <1>1, <1>2, <1>3, SetThenPassed

\* A setting from the LedWiz interface.
LEMMA LedWizOK ==
  ASSUME PortsOK, NEW p \in Ports, NEW lw \in LedWiz, SetLedWiz(p, lw)
  PROVE  Flow
<1> DEFINE s == [port[p] EXCEPT !.lw = lw]
<1>1. s \in PortType /\ s.log = port[p].log /\ s.state = port[p].state
      /\ s.cutoff = port[p].cutoff /\ s.cool = port[p].cool /\ s.out = port[p].out
  BY DEF PortsOK, PortType
<1>2. \/ \E level \in LiveLevels(lw) : Passed(p, SetLogicalLevel(p, s, level))
      \/ port' = [port EXCEPT ![p] = s] /\ UNCHANGED groupVars
  BY DEF SetLedWiz
<1>3. LiveLevels(lw) \subseteq Nat /\ 0 \in Nat
  BY LiveNat
<1> HIDE DEF s
<1>4. QED
  BY <1>1, <1>2, <1>3, SetThenPassed

LoopType == [op : {"idle", "off", "suspend", "zero", "task"}, at : DOMAIN PortList]

\* The list of ports holds every port.
LEMMA LoopOK ==
  /\ Len(PortList) \in Nat \ {0} /\ DOMAIN PortList = 1..Len(PortList)
  /\ \A i \in DOMAIN PortList : PortList[i] \in Ports
  /\ \A p \in Ports : \E i \in DOMAIN PortList : PortList[i] = p
  /\ LoopTime \in Nat /\ Horizon \in Nat /\ Timeouts \subseteq Nat /\ Forever \notin Nat
  /\ Profiles \subseteq Levels \cup {Wave} /\ DofPorts \cup LedWizPorts \subseteq Ports
<1>1. PortList \in Seq(Ports) /\ PortList # << >>
      /\ Ports = {PortList[i] : i \in DOMAIN PortList}
  BY OutputsAssumption DEF OutputsAssumption
<1>2. Len(PortList) \in Nat \ {0} /\ DOMAIN PortList = 1..Len(PortList)
  BY <1>1
<1>3. /\ \A i \in DOMAIN PortList : PortList[i] \in Ports
      /\ \A p \in Ports : \E i \in DOMAIN PortList : PortList[i] = p
  BY <1>1
<1>4. /\ LoopTime \in Nat /\ Horizon \in Nat /\ Timeouts \subseteq Nat /\ Forever \notin Nat
      /\ Profiles \subseteq Levels \cup {Wave} /\ DofPorts \cup LedWizPorts \subseteq Ports
  BY OutputsAssumption DEF OutputsAssumption
<1>5. QED
  BY <1>2, <1>3, <1>4

\* A loop over the ports goes on or ends.
LEMMA AdvanceOK ==
  ASSUME loop \in LoopType, NEW next \in {"idle", "off", "suspend", "zero", "task"}, Advance(next)
  PROVE  /\ loop' \in LoopType
         /\ IF Last THEN loop'.op = next ELSE loop'.op = loop.op /\ loop'.at = loop.at + 1
<1>1. Len(PortList) \in Nat \ {0} /\ loop.at \in 1..Len(PortList)
  BY LoopOK DEF LoopType
<1>2. CASE Last
  BY <1>1, <1>2, LoopOK DEF Advance, LoopType
<1>3. CASE ~Last
  <2>1. loop.at + 1 \in 1..Len(PortList)
    BY <1>1, <1>3 DEF Last
  <2>2. QED
    BY <1>3, <2>1, LoopOK DEF Advance, LoopType
<1>4. QED
  BY <1>2, <1>3

\* The steps that change a port.
PortStep ==
  \/ \E p \in DofPorts, level \in DofLevels : Set(p, level)
  \/ \E p \in LedWizPorts, on \in BOOLEAN : SetSBA(p, on)
  \/ \E p \in LedWizPorts, profile \in Profiles : SetPBA(p, profile)
  \/ OffStep \/ ZeroStep \/ TaskStep

Sound == TypeOK /\ \A p \in Ports : PortOK(p, port[p])

\* Sound is the type invariant and that of the ports.
LEMMA SoundPorts == Sound <=> TypeOK /\ PortsOK
BY DEF Sound, PortsOK, GroupsOK, TypeOK, GroupType

\* A step that sets a port.
LEMMA PortStepOK ==
  ASSUME Sound, PortStep
  PROVE  /\ Flow /\ Note /\ UNCHANGED <<suspendLeft, night, usb, sinceTask, sinceResume>>
         /\ suspended' = suspended \/ (loop.op = "zero" /\ suspended' \in BOOLEAN)
         /\ loop' \in LoopType
         /\ loop.op # "task" => loop'.op # "task"
<1>0. PortsOK /\ loop \in LoopType
  BY SoundPorts DEF TypeOK, LoopType
<1>1. ASSUME NEW p \in DofPorts, NEW level \in DofLevels, Set(p, level)
      PROVE  /\ Flow /\ Note
             /\ UNCHANGED <<suspended, suspendLeft, night, usb, loop, sinceTask, sinceResume>>
  BY <1>0, <1>1, DOFOK, LoopOK, SetsOK DEF Set
<1>2. ASSUME NEW p \in LedWizPorts, NEW on \in BOOLEAN, SetSBA(p, on)
      PROVE  /\ Flow /\ Note
             /\ UNCHANGED <<suspended, suspendLeft, night, usb, loop, sinceTask, sinceResume>>
  <2>1. p \in Ports /\ port[p].lw \in LedWiz
    BY <1>0, LoopOK DEF PortsOK, PortType
  <2>2. [port[p].lw EXCEPT !.mode = TRUE, !.on = on] \in LedWiz
    BY <2>1 DEF LedWiz
  <2>3. QED
    BY <1>0, <1>2, <2>1, <2>2, LedWizOK DEF SetSBA
<1>3. ASSUME NEW p \in LedWizPorts, NEW profile \in Profiles, SetPBA(p, profile)
      PROVE  /\ Flow /\ Note
             /\ UNCHANGED <<suspended, suspendLeft, night, usb, loop, sinceTask, sinceResume>>
  <2>1. p \in Ports /\ port[p].lw \in LedWiz /\ profile \in Levels \cup {Wave}
    BY <1>0, LoopOK DEF PortsOK, PortType
  <2>2. [port[p].lw EXCEPT !.mode = TRUE, !.profile = profile] \in LedWiz
    BY <2>1 DEF LedWiz
  <2>3. QED
    BY <1>0, <1>3, <2>1, <2>2, LedWizOK DEF SetPBA
<1>4. Current \in Ports
  BY <1>0, LoopOK DEF Current, LoopType
<1>5. CASE OffStep
  <2>1. Flow
    BY <1>0, <1>4, <1>5, DOFOK DEF OffStep
  <2>2. loop' \in LoopType /\ loop'.op # "task"
    BY <1>0, <1>5, AdvanceOK DEF OffStep
  <2>3. QED
    BY <1>5, <2>1, <2>2 DEF OffStep
<1>6. CASE ZeroStep
  <2>1. port[Current] \in PortType
    BY <1>0, <1>4 DEF PortsOK
  <2>2. Flow
    BY <1>0, <1>4, <1>6, <2>1, SetThenPassed DEF ZeroStep
  <2>3. loop' \in LoopType /\ loop'.op # "task"
    BY <1>0, <1>6, AdvanceOK DEF ZeroStep
  <2>4. suspended' \in BOOLEAN /\ loop.op = "zero"
    BY <1>6, Zenon DEF ZeroStep, Last
  <2>5. QED
    BY <1>6, <2>2, <2>3, <2>4 DEF ZeroStep
<1>7. CASE TaskStep
  <2>1. PICK x \in Refreshed(Current, port[Current]) :
          Passed(Current, Apply(Current, Triggered(x)))
    BY <1>7 DEF TaskStep
  <2>2. PICK s : s = Apply(Current, Triggered(x))
    OBVIOUS
  <2>3. PortOK(Current, port[Current])
    BY <1>0, <1>4 DEF PortsOK
  <2>4. PortOK(Current, s) /\ Effect(Current, port[Current], s)
    BY <1>4, <2>2, <2>3, PortTaskOK
  <2>5. Flow
    BY <1>0, <1>4, <2>1, <2>2, <2>4, PassedOK
  <2>6. loop' \in LoopType /\ loop.op = "task"
    BY <1>0, <1>7, AdvanceOK DEF TaskStep
  <2>7. QED
    BY <1>7, <2>5, <2>6 DEF TaskStep
<1>8. QED
  BY <1>0, <1>1, <1>2, <1>3, <1>5, <1>6, <1>7 DEF PortStep

\* The observers keep to their range.
LEMMA NoteOK ==
  ASSUME TypeOK, Note
  PROVE  /\ hotFor' \in [Ports -> 0..Horizon] /\ coolFor' \in [Ports -> 0..Horizon]
         /\ heldFor' \in [GroupPorts -> 0..Horizon]
<1>1. 0 \in 0..Horizon
  BY LoopOK
<1>2. QED
  BY <1>1 DEF Note, TypeOK

\* The rest of the steps.
Rest ==
  \/ AllOff \/ UsbChange \/ NightChange \/ (\E t \in Timeouts : Suspend(t)) \/ Resume \/ Task

\* Counting up stays below the horizon.
LEMMA CountOK ==
  ASSUME NEW t \in 0..Horizon PROVE Up(t) \in 0..Horizon /\ Up(t) <= t + 1
BY LoopOK DEF Up

\* A countdown stops at zero.
LEMMA DownOK ==
  ASSUME NEW t \in Nat PROVE Down(t) \in Nat /\ Down(t) <= t
BY DEF Down

\* Every step leaves the ports sound.
LEMMA SoundStep == ASSUME Sound, [Next]_vars PROVE Sound'
<1>0. TypeOK /\ PortsOK
  BY SoundPorts
<1>1. CASE PortStep
  <2>1. Flow /\ Note /\ UNCHANGED <<suspendLeft, night, usb, sinceTask, sinceResume>>
        /\ loop' \in LoopType
    BY <1>1, PortStepOK
  <2>2. suspended' \in BOOLEAN
    BY <1>1, PortStepOK, <1>0 DEF TypeOK
  <2>3. /\ hotFor' \in [Ports -> 0..Horizon] /\ coolFor' \in [Ports -> 0..Horizon]
        /\ heldFor' \in [GroupPorts -> 0..Horizon]
    BY <1>0, <2>1, NoteOK
  <2>4. TypeOK'
    BY <1>0, <2>1, <2>2, <2>3 DEF TypeOK, Flow, PortsOK, GroupsOK, GroupType, LoopType
  <2>5. QED
    BY <2>1, <2>4 DEF Sound, Flow, PortsOK
<1>2. CASE Rest
  <2>1. UNCHANGED <<port, group, claimant, claimIdx, hotFor, coolFor, heldFor>>
    BY <1>2 DEF Rest, AllOff, UsbChange, NightChange, Suspend, Resume, Task
  <2>2. loop' \in LoopType
    <3>1. \/ UNCHANGED loop
          \/ \E op \in {"off", "suspend", "task"} : Start(op)
      BY <1>2 DEF Rest, AllOff, UsbChange, NightChange, Suspend, Resume, Task
    <3>2. 1 \in DOMAIN PortList
      BY LoopOK
    <3>3. QED
      BY <1>0, <3>1, <3>2 DEF Start, LoopType, TypeOK
  <2>3. suspended' \in BOOLEAN /\ night' \in BOOLEAN /\ usb' \in BOOLEAN
    BY <1>0, <1>2, Zenon DEF Rest, AllOff, UsbChange, NightChange, Suspend, Resume, Task, TypeOK
  <2>4. suspendLeft' \in Nat \cup {Forever}
    BY <1>0, <1>2, LoopOK DEF Rest, AllOff, UsbChange, NightChange, Suspend, Resume, Task, TypeOK
  <2>5. sinceTask' \in 0..LoopTime /\ sinceResume' \in 0..Horizon
    BY <1>0, <1>2, LoopOK DEF Rest, AllOff, UsbChange, NightChange, Suspend, Resume, Task, TypeOK
  <2>6. QED
    BY <1>0, <2>1, <2>2, <2>3, <2>4, <2>5 DEF Sound, TypeOK, PortsOK, LoopType
<1>3. CASE Tick
  <2>1. ASSUME NEW p \in Ports
        PROVE  port'[p] \in PortType /\ PortOK(p, port'[p])
    <3>1. port'[p] = [port[p] EXCEPT !.cutoff = Down(@), !.cool = Down(@)]
      BY <1>3 DEF Tick
    <3>2. PortOK(p, port[p]) /\ port[p] \in PortType
      BY <1>0 DEF PortsOK
    <3>3. Down(port[p].cutoff) \in Nat /\ Down(port[p].cutoff) <= port[p].cutoff
          /\ Down(port[p].cool) \in Nat
      BY <3>2, DownOK DEF PortType
    <3>4. port'[p] \in PortType /\ port'[p].cutoff = Down(port[p].cutoff)
          /\ port'[p].state = port[p].state /\ port'[p].log = port[p].log /\ port'[p].out = port[p].out
      BY <3>1, <3>2, <3>3 DEF PortType
    <3>5. port'[p].cutoff <= TimeLimit[p]
      BY <3>2, <3>3, <3>4, LimitsOK DEF PortOK, PortType
    <3>6. QED
      BY <3>2, <3>4, <3>5 DEF PortOK
  <2>2. port' \in [Ports -> PortType]
    <3>1. port' = [p \in Ports |-> [port[p] EXCEPT !.cutoff = Down(@), !.cool = Down(@)]]
      BY <1>3 DEF Tick
    <3>2. QED
      BY <2>1, <3>1
  <2>3. group' \in [GroupPorts -> GroupType]
    <3>1. ASSUME NEW v \in GroupPorts PROVE [group[v] EXCEPT !.left = Down(@)] \in GroupType
      BY <1>0, DownOK DEF PortsOK, GroupsOK, GroupType
    <3>2. QED
      BY <1>3, <3>1 DEF Tick
  <2>4. hotFor' \in [Ports -> 0..Horizon] /\ coolFor' \in [Ports -> 0..Horizon]
        /\ heldFor' \in [GroupPorts -> 0..Horizon]
    <3>1. 0 \in 0..Horizon
      BY LoopOK
    <3>2. QED
      BY <1>0, <1>3, <3>1, CountOK DEF Tick, TypeOK
  <2>5. suspendLeft' \in Nat \cup {Forever}
    BY <1>0, <1>3, DownOK DEF Tick, TypeOK
  <2>6. sinceTask' \in 0..LoopTime /\ sinceResume' \in 0..Horizon
    <3>1. sinceTask' = sinceTask + 1 /\ sinceTask < LoopTime /\ sinceResume' = Up(sinceResume)
      BY <1>3 DEF Tick
    <3>2. QED
      BY <1>0, <3>1, CountOK, LoopOK DEF TypeOK
  <2>7. UNCHANGED <<claimant, claimIdx, suspended, night, usb, loop>>
    BY <1>3 DEF Tick
  <2>8. QED
    BY <1>0, <2>1, <2>2, <2>3, <2>4, <2>5, <2>6, <2>7 DEF Sound, TypeOK, GroupType
<1>4. CASE UNCHANGED vars
  BY <1>4 DEF vars, Sound, TypeOK
<1>5. QED
  BY <1>1, <1>2, <1>3, <1>4 DEF Next, PortStep, Rest

\* The ports are sound when the program starts.
LEMMA SoundInit == ASSUME Init PROVE Sound
<1>1. 1 \in DOMAIN PortList /\ 1 \in DOMAIN Pool /\ 0 \in 0..Horizon /\ Horizon \in 0..Horizon
      /\ 0 \in 0..LoopTime
  <2>1. Pool \in Seq(Ports) /\ Pool # << >>
    BY OutputsAssumption DEF OutputsAssumption
  <2>2. 1 \in DOMAIN Pool
    BY <2>1
  <2>3. QED
    BY <2>2, LoopOK
<1>2. port \in [Ports -> PortType]
  <2>1. [mode |-> FALSE, on |-> FALSE, profile |-> 0] \in LedWiz
    BY OutputsAssumption DEF LedWiz, OutputsAssumption
  <2>2. QED
    BY <2>1 DEF Init, PortType
<1>3. \A p \in Ports : PortOK(p, port[p])
  BY <1>2, LimitsOK DEF Init, PortOK
<1>4. group \in [GroupPorts -> GroupType] /\ claimant \in [PoolPorts -> GroupPorts \cup {None}]
  BY DEF Init, GroupType
<1>5. loop \in LoopType
  BY <1>1 DEF Init, LoopType
<1>6. QED
  BY <1>1, <1>2, <1>3, <1>4, <1>5 DEF Init, Sound, TypeOK, GroupType, LoopType

\* Every variable keeps to its type: the timers of a port never run past its limits,
\* and the claims of the share group stay among its ports.
THEOREM TypeInvariant == Spec => []TypeOK
<1>1. Init => Sound
  BY SoundInit
<1>2. Sound /\ [Next]_vars => Sound'
  BY SoundStep
<1>3. Sound => TypeOK
  BY DEF Sound
<1>4. QED
  BY <1>1, <1>2, <1>3, PTL DEF Spec

(*****************************************************************************)
(* The cooling-off time.                                                     *)
(*****************************************************************************)
\* A port that is not above its limit has rested, or its timer has still to run.
Rested == \A p \in Ports : ~Hot(p, port[p]) => coolFor[p] + port[p].cool >= CoolingTime[p]

\* No activation before the cooling-off time is over.
Cool == \A p \in Ports : ~Hot(p, port[p]) /\ Hot(p, port'[p]) => coolFor[p] >= CoolingTime[p]

\* The numbers of a port.
LEMMA FieldsOK ==
  ASSUME Sound, NEW p \in Ports
  PROVE  /\ port[p].cool \in Nat /\ port[p].cutoff \in Nat /\ port[p].out \in Nat
         /\ port[p].log \in Nat /\ port[p].cutoff <= TimeLimit[p]
         /\ hotFor[p] \in 0..Horizon /\ coolFor[p] \in 0..Horizon
         /\ sinceTask \in 0..LoopTime /\ sinceResume \in 0..Horizon
BY DEF Sound, TypeOK, PortOK, PortType

\* What a port has left of its cooling time and what it has had of it make up the
\* setting.
LEMMA RestedStep == ASSUME Sound, Rested, [Next]_vars PROVE Rested' /\ Cool
<1>0. Sound'
  BY SoundStep
<1> SUFFICES ASSUME NEW p \in Ports
             PROVE  /\ ~Hot(p, port'[p]) => coolFor'[p] + port'[p].cool >= CoolingTime[p]
                    /\ ~Hot(p, port[p]) /\ Hot(p, port'[p]) => coolFor[p] >= CoolingTime[p]
  BY DEF Rested, Cool
<1>1. /\ port[p].cool \in Nat /\ port'[p].cool \in Nat /\ CoolingTime[p] \in Nat
      /\ coolFor[p] \in Nat /\ coolFor'[p] \in Nat /\ coolFor[p] <= Horizon
      /\ CoolingTime[p] <= Horizon /\ Horizon \in Nat
  <2>1. port'[p].cool \in Nat /\ coolFor'[p] \in 0..Horizon
    BY <1>0 DEF Sound, TypeOK, PortOK, PortType
  <2>2. QED
    BY <2>1, FieldsOK, LimitsOK
<1>2. ~Hot(p, port[p]) => coolFor[p] + port[p].cool >= CoolingTime[p]
  BY DEF Rested
<1>3. CASE PortStep
  <2>1. Effect(p, port[p], port'[p])
    BY <1>3, PortStepOK DEF Flow
  <2>2. coolFor'[p] = IF Hot(p, port[p]) THEN 0 ELSE coolFor[p]
    BY <1>3, PortStepOK DEF Note
  <2>3. QED
    BY <1>1, <1>2, <2>1, <2>2 DEF Effect
<1>4. CASE Rest
  <2>1. UNCHANGED <<port, coolFor>>
    BY <1>4 DEF Rest, AllOff, UsbChange, NightChange, Suspend, Resume, Task
  <2>2. QED
    BY <1>1, <1>2, <2>1
<1>5. CASE Tick
  <2>1. port'[p] = [port[p] EXCEPT !.cutoff = Down(@), !.cool = Down(@)]
        /\ coolFor'[p] = IF Hot(p, port[p]) THEN 0 ELSE Up(coolFor[p])
    BY <1>5 DEF Tick
  <2>2. port'[p].out = port[p].out /\ port'[p].cool = Down(port[p].cool)
    BY <2>1 DEF Sound, PortOK, PortType
  <2>3. QED
    BY <1>1, <1>2, <2>1, <2>2 DEF Hot, Up, Down
<1>6. CASE UNCHANGED vars
  BY <1>1, <1>2, <1>6 DEF vars
<1>7. QED
  BY <1>3, <1>4, <1>5, <1>6 DEF Next, PortStep, Rest

\* Between two activations above the power limit every port has its cooling-off time.
THEOREM CoolingTimeKept == Spec => DutyLimited
<1>1. Init => Sound /\ Rested
  <2> SUFFICES ASSUME Init PROVE Rested
    BY SoundInit
  <2>1. QED
    BY LimitsOK DEF Init, Rested
<1>2. Sound /\ Rested /\ [Next]_vars => Sound' /\ Rested'
  BY SoundStep, RestedStep
<1>3. Sound /\ Rested /\ [Next]_vars
        => [\A p \in Ports : ~Hot(p, port[p]) /\ Hot(p, port'[p]) =>
              coolFor[p] >= CoolingTime[p]]_vars
  BY RestedStep DEF Cool
<1>4. QED
  BY <1>1, <1>2, <1>3, PTL DEF Spec, DutyLimited

(*****************************************************************************)
(* The time limit.                                                           *)
(*****************************************************************************)
\* Port p is still to have its turn in the loop of Task.
Waiting(p) == loop.op = "task" /\ \E i \in DOMAIN PortList : i >= loop.at /\ PortList[i] = p

\* For how long a port may be above its limit by now.
Allowance(p) ==
  TimeLimit[p] - port[p].cutoff
    + (IF port[p].cutoff > 0 THEN 0 ELSE IF Waiting(p) THEN LoopTime ELSE sinceTask)

InTime ==
  \A p \in Ports :
    TimeLimit[p] # 0 /\ Hot(p, port[p]) /\ ~suspended =>
      hotFor[p] <= Allowance(p) \/ sinceResume <= Allowance(p)

\* A port that waits for its turn waits until it is the current one of Task.
LEMMA TurnOver ==
  ASSUME Sound, PortStep, NEW p, Waiting(p), ~Waiting(p)'
  PROVE  TaskStep /\ p = Current
<1>1. loop \in LoopType /\ loop.op = "task"
  BY SoundPorts DEF Waiting, TypeOK, LoopType
<1>2. TaskStep
  <2>1. SUFFICES ASSUME ~TaskStep PROVE FALSE
    OBVIOUS
  <2>2. loop' = loop \/ loop.op # "task"
    BY <2>1 DEF PortStep, Set, SetSBA, SetPBA, OffStep, ZeroStep
  <2>3. QED
    BY <1>1, <2>2 DEF Waiting
<1>3. Advance("idle")
  BY <1>2 DEF TaskStep
<1>4. PICK i \in DOMAIN PortList : i >= loop.at /\ PortList[i] = p
  BY DEF Waiting
<1>5. CASE i = loop.at
  BY <1>2, <1>4, <1>5 DEF Current
<1>6. CASE i # loop.at
  <2>1. ~Last
    BY <1>1, <1>4, <1>6, LoopOK DEF Last, LoopType
  <2>2. loop'.op = "task" /\ loop'.at = loop.at + 1
    BY <1>1, <1>3, <2>1, AdvanceOK
  <2>3. i >= loop'.at
    BY <1>1, <1>4, <1>6, <2>2, LoopOK DEF LoopType
  <2>4. QED
    BY <1>4, <2>2, <2>3 DEF Waiting
<1>7. QED
  BY <1>5, <1>6

\* A port that has had its turn and is above its limit has an armed timer.
LEMMA TurnArms ==
  ASSUME Sound, PortStep, NEW p \in Ports, Waiting(p), ~Waiting(p)',
         TimeLimit[p] # 0, Hot(p, port'[p])
  PROVE  port'[p].cutoff > 0
<1>1. TaskStep /\ p = Current
  BY TurnOver
<1>2. PICK x \in Refreshed(p, port[p]) : Passed(p, Apply(p, Triggered(x)))
  BY <1>1 DEF TaskStep
<1>3. PICK s : s = Apply(p, Triggered(x))
  OBVIOUS
<1>4. PortsOK /\ PortOK(p, port[p])
  BY SoundPorts DEF PortsOK
<1>5. PortOK(p, s) /\ Effect(p, port[p], s) /\ (Hot(p, s) => s.cutoff > 0)
  BY <1>3, <1>4, PortTaskOK
<1>6. port'[p] = s
  BY <1>2, <1>3, <1>4, <1>5, PassedOK
<1>7. QED
  BY <1>5, <1>6

\* Suspend sets the flag after its loops, and Task runs its loop without it.
Awake == loop.op \in {"suspend", "zero", "task"} => ~suspended

\* While the outputs are suspended no loop over the ports sets one.
LEMMA AwakeStep == ASSUME Sound, Awake, [Next]_vars PROVE Awake'
<1>1. loop \in LoopType
  BY DEF Sound, TypeOK, LoopType
<1>2. CASE OffStep
  <2>1. suspended' = suspended /\ loop.op \in {"off", "suspend"}
        /\ Advance(IF loop.op = "off" THEN "idle" ELSE "zero")
    BY <1>2 DEF OffStep
  <2>2. IF Last THEN loop'.op = (IF loop.op = "off" THEN "idle" ELSE "zero")
        ELSE loop'.op = loop.op
    BY <1>1, <2>1, AdvanceOK
  <2>3. QED
    BY <2>1, <2>2 DEF Awake
<1>3. CASE ZeroStep
  <2>1. (suspended' <=> Last) /\ Advance("idle")
    BY <1>3 DEF ZeroStep
  <2>2. Last => loop'.op = "idle"
    BY <1>1, <2>1, AdvanceOK
  <2>3. QED
    BY <2>1, <2>2 DEF Awake
<1>4. CASE TaskStep
  <2>1. loop.op = "task" /\ UNCHANGED suspended
    BY <1>4 DEF TaskStep
  <2>2. QED
    BY <2>1 DEF Awake
<1>5. CASE UNCHANGED <<suspended, loop>>
  BY <1>5 DEF Awake
<1>6. CASE Rest
  BY <1>6 DEF Rest, AllOff, UsbChange, NightChange, Suspend, Resume, Task, Awake, Start, Idle
<1>7. CASE Tick \/ UNCHANGED vars
  BY <1>5, <1>7 DEF Tick, vars
<1>8. QED
  BY <1>2, <1>3, <1>4, <1>5, <1>6, <1>7 DEF Next, Rest, Set, SetSBA, SetPBA

\* A port over its power limit has what is left of its time limit, or has just been
\* resumed.
LEMMA InTimeStep == ASSUME Sound, Awake, InTime, [Next]_vars PROVE InTime'
<1>0. Sound'
  BY SoundStep
<1> SUFFICES ASSUME NEW p \in Ports, TimeLimit[p] # 0, Hot(p, port'[p]), ~suspended'
             PROVE  hotFor'[p] <= Allowance(p)' \/ sinceResume' <= Allowance(p)'
  BY DEF InTime
<1>1. /\ TimeLimit[p] \in Nat /\ LoopTime \in Nat /\ Horizon \in Nat
      /\ port[p].cutoff \in Nat /\ port[p].cutoff <= TimeLimit[p]
      /\ hotFor[p] \in 0..Horizon /\ sinceTask \in 0..LoopTime /\ sinceResume \in 0..Horizon
  BY FieldsOK, LimitsOK
<1>2. /\ port'[p].cutoff \in Nat /\ port'[p].cutoff <= TimeLimit[p]
      /\ hotFor'[p] \in 0..Horizon /\ sinceTask' \in 0..LoopTime /\ sinceResume' \in 0..Horizon
  BY <1>0 DEF Sound, TypeOK, PortOK, PortType
<1>3. Hot(p, port[p]) /\ ~suspended => hotFor[p] <= Allowance(p) \/ sinceResume <= Allowance(p)
  BY DEF InTime
<1>4. Allowance(p)' >= 0 /\ Allowance(p)' \in Int /\ Allowance(p) \in Int
  BY <1>1, <1>2 DEF Allowance
<1>5. CASE PortStep
  <2>1. Flow /\ Note /\ UNCHANGED <<sinceTask, sinceResume>>
        /\ (loop.op # "task" => loop'.op # "task")
    BY <1>5, PortStepOK
  <2>2. CASE ~Hot(p, port[p])
    <3>1. hotFor'[p] = 0
      BY <2>1, <2>2 DEF Note
    <3>2. QED
      BY <1>4, <3>1
  <2>3. CASE Hot(p, port[p])
    <3>1. hotFor'[p] = hotFor[p]
      BY <2>1, <2>3 DEF Note
    <3>2. port'[p].cutoff = port[p].cutoff
      <4>1. port[p].state # "Ready"
        BY <2>3, FieldsOK, LimitsOK DEF Sound, PortOK, Hot
      <4>2. QED
        BY <2>1, <4>1 DEF Flow, Effect
    <3>3. ~suspended
      BY <1>5, PortStepOK DEF Awake
    <3>4. Allowance(p)' >= Allowance(p)
      <4>1. CASE port[p].cutoff > 0
        BY <1>1, <3>2, <4>1 DEF Allowance
      <4>2. CASE ~(port[p].cutoff > 0)
        <5>1. Waiting(p) => Waiting(p)'
          BY <1>5, <3>2, <4>2, TurnArms
        <5>2. QED
          BY <1>1, <2>1, <3>2, <4>2, <5>1 DEF Allowance
      <4>3. QED
        BY <4>1, <4>2
    <3>5. QED
      BY <1>1, <1>3, <1>4, <2>1, <2>3, <3>1, <3>3, <3>4
  <2>4. QED
    BY <2>2, <2>3
<1>6. CASE Rest
  <2>1. UNCHANGED <<port, hotFor>>
    BY <1>6 DEF Rest, AllOff, UsbChange, NightChange, Suspend, Resume, Task
  <2>2. CASE suspended
    <3>1. sinceResume' = 0
      BY <1>6, <2>2 DEF Rest, AllOff, UsbChange, NightChange, Suspend, Resume, Task
    <3>2. QED
      BY <1>4, <3>1
  <2>3. CASE ~suspended
    <3>1. CASE Task
      <4>1. loop' = [op |-> "task", at |-> 1] /\ UNCHANGED sinceResume
        BY <2>3, <3>1 DEF Task, Start
      <4>2. Waiting(p)'
        BY <4>1, LoopOK DEF Waiting
      <4>3. Allowance(p)' >= Allowance(p)
        BY <1>1, <2>1, <4>2 DEF Allowance
      <4>4. QED
        BY <1>1, <1>3, <1>4, <2>1, <2>3, <4>1, <4>3
    <3>2. CASE ~Task
      <4>1. UNCHANGED <<sinceTask, sinceResume>> /\ ~Waiting(p) /\ ~Waiting(p)'
        BY <1>6, <2>3, <3>2 DEF Rest, AllOff, UsbChange, NightChange, Suspend, Resume,
                                Waiting, Idle, Start
      <4>2. Allowance(p)' = Allowance(p)
        BY <2>1, <4>1 DEF Allowance
      <4>3. QED
        BY <1>1, <1>3, <1>4, <2>1, <2>3, <4>1, <4>2
    <3>3. QED
      BY <3>1, <3>2
  <2>4. QED
    BY <2>2, <2>3
<1>7. CASE Tick
  <2>1. /\ port'[p] = [port[p] EXCEPT !.cutoff = Down(@), !.cool = Down(@)]
        /\ hotFor'[p] = IF Hot(p, port[p]) THEN Up(hotFor[p]) ELSE 0
        /\ sinceTask' = sinceTask + 1 /\ sinceResume' = Up(sinceResume)
        /\ UNCHANGED <<suspended, loop>> /\ ~Waiting(p)
    BY <1>7 DEF Tick, Waiting, Idle
  <2>2. port'[p].out = port[p].out /\ port'[p].cutoff = Down(port[p].cutoff)
    BY <2>1 DEF Sound, PortOK, PortType
  <2>3. ~Waiting(p)' /\ Hot(p, port[p])
    BY <2>1, <2>2 DEF Waiting, Hot
  <2>4. Allowance(p)' >= Allowance(p) + 1
    BY <1>1, <2>1, <2>2, <2>3 DEF Allowance, Down
  <2>5. hotFor'[p] <= hotFor[p] + 1 /\ sinceResume' <= sinceResume + 1
    BY <1>1, <2>1, <2>3, CountOK
  <2>6. QED
    BY <1>1, <1>2, <1>3, <1>4, <2>1, <2>3, <2>4, <2>5
<1>8. CASE UNCHANGED vars
  BY <1>3, <1>8 DEF vars, Allowance, Waiting
<1>9. QED
  BY <1>5, <1>6, <1>7, <1>8 DEF Next, PortStep, Rest

\* A solenoid is not powered in full for longer than its time limit and one turn of
\* the main loop, whatever the host, Night Mode, sources and share groups do.
THEOREM TimeLimitKept == Spec => []PowerLimited
<1>1. Init => Sound /\ Awake /\ InTime
  <2> SUFFICES ASSUME Init PROVE Awake /\ InTime
    BY SoundInit
  <2>1. QED
    BY LimitsOK DEF Init, InTime, Hot, Awake
<1>2. Sound /\ Awake /\ InTime /\ [Next]_vars => Sound' /\ Awake' /\ InTime'
  BY SoundStep, AwakeStep, InTimeStep
<1>3. Sound /\ InTime => PowerLimited
  <2> SUFFICES ASSUME Sound, InTime, NEW p \in Ports,
                      TimeLimit[p] # 0, Hot(p, port[p]), ~suspended
               PROVE  hotFor[p] <= TimeLimit[p] + LoopTime \/ sinceResume <= TimeLimit[p] + LoopTime
    BY DEF PowerLimited
  <2>1. hotFor[p] <= Allowance(p) \/ sinceResume <= Allowance(p)
    BY DEF InTime
  <2>2. Allowance(p) <= TimeLimit[p] + LoopTime /\ Allowance(p) \in Int
    BY FieldsOK, LimitsOK DEF Allowance
  <2>3. QED
    BY <2>1, <2>2, FieldsOK, LimitsOK
<1>4. QED
  BY <1>1, <1>2, <1>3, PTL DEF Spec

(*****************************************************************************)
(* The share group                                                           *)
(*****************************************************************************)
\* No one but a group port sets the level of a port of the pool.
PoolIsSet == \A q \in PoolPorts : port[q].lw.mode = FALSE

\* A port that is off, or on which the pulse of a falling edge is running.
Off(p) == port[p].out = 0 \/ \E v \in GroupPorts : group[v].port = p /\ group[v].off # 0

\* the ports that a loop has passed already
Done == {PortList[i] : i \in 1..(loop.at - 1)}

OffSoFar == loop.op = "zero" => \A p \in Done : Off(p)

SilentSoFar == loop.op = "task" /\ night => \A p \in Done \cap Noisy : port[p].out = 0

\* The pulse of group port v, and the time it may wait for its turn by now.
Duration(v) == IF group[v].off # 0 THEN OffTime[v] ELSE OnTime[v]
Wait(v) == IF Waiting(v) THEN LoopTime ELSE sinceTask

\* What Night Mode makes of port p, when it becomes r.
Hushed(p, r) == p \in Noisy /\ night => r.out = 0

\* What Apply and SetLogicalLevel leave of a port.
LEMMA AppliedIs ==
  ASSUME NEW p \in Ports, NEW r \in PortType, NEW s, s = Apply(p, r)
  PROVE  s.lw = r.lw /\ Hushed(p, s)
<1>1. r.log \in Nat /\ PowerLimit[p] \in Nat
  BY LimitsOK DEF PortType
<1>2. s.lw = r.lw
  BY DEF Apply, PortType
<1>3. ASSUME p \in Noisy /\ night PROVE s.out = 0
  <2> DEFINE cool == IF 0 <= PowerLimit[p] /\ Hot(p, r) THEN CoolingTime[p] ELSE r.cool
  <2>1. ~(0 > PowerLimit[p] /\ (r.state = "Triggered" \/ r.cool > 0))
    BY <1>1
  <2>2. s = [r EXCEPT !.cool = cool, !.out = 0]
    BY <2>1, <1>3, Zenon DEF Apply
  <2> HIDE DEF cool
  <2>3. QED
    BY <2>2 DEF PortType
<1>4. QED
  BY <1>2, <1>3 DEF Hushed

\* What setting the logical level does, Night Mode included.
LEMMA SetLevelIs ==
  ASSUME NEW p \in Ports, NEW r, PortOK(p, r), NEW level \in Nat,
         NEW s, s = SetLogicalLevel(p, r, level)
  PROVE  /\ s \in PortType /\ s.log = level /\ s.out <= s.log /\ s.lw = r.lw
         /\ Hushed(p, s)
<1> DEFINE y == Leveled(p, r, level)
<1>1. s = Apply(p, y)
  BY DEF SetLogicalLevel, Leveled
<1>2. y \in PortType /\ y.log = level
  BY RearmedFields
<1>3. y.lw = r.lw
  <2>1. PICK x : x \in {r, [r EXCEPT !.state = "Armed", !.cutoff = TimeLimit[p]],
                        [r EXCEPT !.state = "Ready", !.cool = CoolingTime[p]]}
                 /\ y = [x EXCEPT !.log = level]
    BY DEF Leveled, Rearmed
  <2>2. r \in PortType
    BY DEF PortOK
  <2> HIDE DEF y
  <2>3. QED
    BY <2>1, <2>2 DEF PortType
<1> HIDE DEF y
<1>4. s.log = y.log /\ s.lw = y.lw /\ Hushed(p, s)
  BY <1>1, <1>2, ApplyFields, AppliedIs
<1>5. s \in PortType /\ s.out <= s.log
  BY SetLevelOK DEF PortOK
<1>6. QED
  BY <1>2, <1>3, <1>4, <1>5

\* A step that changes port p makes it z, and passes its level on unless it is
\* only the host's part that changes.  Nothing is passed on in a suspension.
Form(p, z) ==
  /\ z \in PortType /\ z.out <= z.log
  /\ p \in PoolPorts => z.lw.mode = FALSE /\ z.log \in {0, port[p].log}
  /\ \/ Passed(p, z) /\ ~suspended /\ Hushed(p, z)
     \/ port' = [port EXCEPT ![p] = z] /\ UNCHANGED groupVars /\ z.out = port[p].out

\* A level from the Feedback Controller interface reaches the port in one of the forms.
LEMMA DOFForm ==
  ASSUME Sound, PoolIsSet, NEW p \in Ports, NEW level \in Nat, SetDOFLevel(p, level)
  PROVE  \E z : Form(p, z)
<1>0. port[p] \in PortType /\ PortOK(p, port[p]) /\ port \in [Ports -> PortType]
  BY DEF Sound, TypeOK, PortOK
<1> DEFINE s == [port[p] EXCEPT !.dof = level, !.lw.mode = FALSE]
<1>1. /\ s \in PortType /\ s.log = port[p].log /\ s.state = port[p].state
      /\ s.cutoff = port[p].cutoff /\ s.cool = port[p].cool /\ s.out = port[p].out
  BY <1>0 DEF PortType, LedWiz
<1>2. \/ p \in PoolPorts /\ UNCHANGED <<port, group, claimant, claimIdx>>
      \/ p \notin PoolPorts /\ ~suspended /\ Passed(p, SetLogicalLevel(p, s, level))
      \/ p \notin PoolPorts /\ port' = [port EXCEPT ![p] = s] /\ UNCHANGED groupVars
  BY Zenon DEF SetDOFLevel
<1> HIDE DEF s
<1>3. PortOK(p, s)
  BY <1>0, <1>1, HostFields
<1>4. CASE p \in PoolPorts /\ UNCHANGED <<port, group, claimant, claimIdx>>
  <2>1. port' = [port EXCEPT ![p] = port[p]] /\ UNCHANGED groupVars
    BY <1>0, <1>4 DEF groupVars
  <2>2. Form(p, port[p])
    BY <1>0, <1>4, <2>1 DEF Form, PortOK, PoolIsSet
  <2>3. QED
    BY <2>2
<1>5. CASE p \notin PoolPorts /\ ~suspended /\ Passed(p, SetLogicalLevel(p, s, level))
  <2>1. PICK z : z = SetLogicalLevel(p, s, level)
    OBVIOUS
  <2>2. Form(p, z)
    BY <1>3, <1>5, <2>1, SetLevelIs DEF Form
  <2>3. QED
    BY <2>2
<1>6. CASE p \notin PoolPorts /\ port' = [port EXCEPT ![p] = s] /\ UNCHANGED groupVars
  <2>1. Form(p, s)
    BY <1>1, <1>3, <1>6 DEF Form, PortOK
  <2>2. QED
    BY <2>1
<1>7. QED
  BY <1>2, <1>4, <1>5, <1>6

\* So does a setting from the LedWiz interface.
LEMMA LedWizForm ==
  ASSUME Sound, NEW p \in Ports, p \notin PoolPorts, NEW lw \in LedWiz, SetLedWiz(p, lw)
  PROVE  \E z : Form(p, z)
<1>0. port[p] \in PortType /\ PortOK(p, port[p])
  BY DEF Sound, TypeOK, PortOK
<1> DEFINE s == [port[p] EXCEPT !.lw = lw]
<1>1. /\ s \in PortType /\ s.log = port[p].log /\ s.state = port[p].state
      /\ s.cutoff = port[p].cutoff /\ s.cool = port[p].cool /\ s.out = port[p].out
  BY <1>0 DEF PortType
<1>2. \/ ~suspended /\ \E level \in LiveLevels(lw) : Passed(p, SetLogicalLevel(p, s, level))
      \/ port' = [port EXCEPT ![p] = s] /\ UNCHANGED groupVars
  BY Zenon DEF SetLedWiz
<1>3. LiveLevels(lw) \subseteq Nat
  BY LiveNat
<1> HIDE DEF s
<1>4. PortOK(p, s)
  BY <1>0, <1>1, HostFields
<1>5. CASE ~suspended /\ \E level \in LiveLevels(lw) : Passed(p, SetLogicalLevel(p, s, level))
  <2>1. PICK level \in Nat : Passed(p, SetLogicalLevel(p, s, level))
    BY <1>3, <1>5
  <2>2. PICK z : z = SetLogicalLevel(p, s, level)
    OBVIOUS
  <2>3. Form(p, z)
    BY <1>4, <1>5, <2>1, <2>2, SetLevelIs DEF Form
  <2>4. QED
    BY <2>3
<1>6. CASE port' = [port EXCEPT ![p] = s] /\ UNCHANGED groupVars
  <2>1. Form(p, s)
    BY <1>1, <1>4, <1>6 DEF Form, PortOK
  <2>2. QED
    BY <2>1
<1>7. QED
  BY <1>2, <1>5, <1>6

\* Only the share group sets a pool port.
LEMMA PoolIsApart ==
  /\ PoolPorts \cap (GroupPorts \cup Computed \cup DofPorts \cup LedWizPorts) = {}
  /\ Noisy \subseteq Ports
  BY OutputsAssumption DEF OutputsAssumption

\* The turn of a port in the second loop of a suspension.
LEMMA ZeroForm ==
  ASSUME Sound, Awake, PoolIsSet, ZeroStep
  PROVE  Current \in Ports /\ \E z : Form(Current, z) /\ Passed(Current, z) /\ z.out = 0
<1>1. Current \in Ports
  BY LoopOK DEF Current, Sound, TypeOK
<1>2. PortOK(Current, port[Current])
  BY <1>1 DEF Sound
<1>3. ~suspended /\ Passed(Current, SetLogicalLevel(Current, port[Current], 0))
  BY DEF ZeroStep, Awake
<1>4. PICK z : z = SetLogicalLevel(Current, port[Current], 0)
  OBVIOUS
<1>5. z \in PortType /\ z.log = 0 /\ z.out <= z.log /\ z.lw = port[Current].lw
      /\ Hushed(Current, z)
  BY <1>1, <1>2, <1>4, SetLevelIs
<1>6. z.out = 0
  BY <1>5 DEF PortType
<1>7. Form(Current, z)
  BY <1>3, <1>4, <1>5 DEF Form, PoolIsSet
<1>8. QED
  BY <1>1, <1>3, <1>4, <1>6, <1>7

\* The turn of a port in the main loop's task.
LEMMA TaskForm ==
  ASSUME Sound, Awake, PoolIsSet, TaskStep
  PROVE  /\ Current \in Ports
         /\ \E z : /\ Form(Current, z) /\ Passed(Current, z)
                  /\ Hushed(Current, z)
<1>1. Current \in Ports
  BY LoopOK DEF Current, Sound, TypeOK
<1>2. PortOK(Current, port[Current])
  BY <1>1 DEF Sound
<1>3. PICK x \in Refreshed(Current, port[Current]) :
        Passed(Current, Apply(Current, Triggered(x)))
  BY DEF TaskStep
<1>4. PICK z : z = Apply(Current, Triggered(x))
  OBVIOUS
<1>5. ~suspended
  BY DEF TaskStep, Awake
<1>6. PortOK(Current, z)
  BY <1>1, <1>2, <1>4, PortTaskOK
<1>7. Triggered(x) \in PortType /\ Triggered(x).log = x.log /\ Triggered(x).lw = x.lw
  <2>1. x \in PortType
    <3>1. x = port[Current] \/ \E level \in Nat : x = SetLogicalLevel(Current, port[Current], level)
      <4>1. Levels \subseteq Nat /\ 0 \in Nat
        BY SetsOK
      <4>2. LiveLevels(port[Current].lw) \subseteq Nat
        BY <1>2, LiveNat DEF PortOK, PortType
      <4>3. QED
        BY <4>1, <4>2 DEF Refreshed
    <3>2. QED
      BY <1>1, <1>2, <3>1, SetLevelIs DEF PortOK
  <2>2. QED
    BY <2>1 DEF Triggered, PortType
<1>8. z.log = x.log /\ z.lw = x.lw /\ Hushed(Current, z)
  BY <1>1, <1>4, <1>7, ApplyFields, AppliedIs
<1>9. ASSUME Current \in PoolPorts PROVE x = port[Current] /\ port[Current].lw.mode = FALSE
  <2>1. Current \notin Computed /\ port[Current].lw.mode = FALSE
    BY <1>9, PoolIsApart DEF PoolIsSet
  <2>2. QED
    BY <2>1 DEF Refreshed
<1>10. Form(Current, z)
  BY <1>3, <1>4, <1>5, <1>6, <1>8, <1>9 DEF Form, PortOK
<1>11. QED
  BY <1>1, <1>3, <1>4, <1>8, <1>10

\* Every step that sets a port does it in one of the forms.
LEMMA StepForm ==
  ASSUME Sound, Awake, PoolIsSet, PortStep
  PROVE  \E p \in Ports : \E z : Form(p, z)
<1>1. ASSUME NEW p \in DofPorts, NEW level \in DofLevels, Set(p, level)
      PROVE  \E z : p \in Ports /\ Form(p, z)
  BY <1>1, DOFForm, LoopOK, SetsOK DEF Set
<1>2. ASSUME NEW p \in LedWizPorts, NEW on \in BOOLEAN, SetSBA(p, on)
      PROVE  \E z : p \in Ports /\ Form(p, z)
  <2>1. p \in Ports /\ p \notin PoolPorts
    BY LoopOK, PoolIsApart
  <2>a. port[p].lw \in LedWiz
    BY <2>1 DEF Sound, TypeOK, PortType
  <2>b. [port[p].lw EXCEPT !.mode = TRUE, !.on = on] \in LedWiz
    BY <2>1, <2>a DEF LedWiz
  <2>2. PICK lw \in LedWiz : lw = [port[p].lw EXCEPT !.mode = TRUE, !.on = on]
    BY <2>b
  <2>3. SetLedWiz(p, lw)
    BY <1>2, <2>2 DEF SetSBA
  <2>4. \E z : Form(p, z)
    BY <2>1, <2>3, LedWizForm
  <2>5. QED
    BY <2>1, <2>4
<1>3. ASSUME NEW p \in LedWizPorts, NEW profile \in Profiles, SetPBA(p, profile)
      PROVE  \E z : p \in Ports /\ Form(p, z)
  <2>1. p \in Ports /\ p \notin PoolPorts /\ profile \in Levels \cup {Wave}
    BY LoopOK, PoolIsApart
  <2>a. port[p].lw \in LedWiz
    BY <2>1 DEF Sound, TypeOK, PortType
  <2>b. [port[p].lw EXCEPT !.mode = TRUE, !.profile = profile] \in LedWiz
    BY <2>1, <2>a DEF LedWiz
  <2>2. PICK lw \in LedWiz : lw = [port[p].lw EXCEPT !.mode = TRUE, !.profile = profile]
    BY <2>b
  <2>3. SetLedWiz(p, lw)
    BY <1>3, <2>2 DEF SetPBA
  <2>4. \E z : Form(p, z)
    BY <2>1, <2>3, LedWizForm
  <2>5. QED
    BY <2>1, <2>4
<1>4. ASSUME OffStep PROVE \E z : Current \in Ports /\ Form(Current, z)
  <2>1. Current \in Ports
    BY LoopOK DEF Current, Sound, TypeOK
  <2>2. QED
    BY <1>4, <2>1, DOFForm DEF OffStep
<1>5. ASSUME ZeroStep \/ TaskStep PROVE \E z : Current \in Ports /\ Form(Current, z)
  <2>1. CASE ZeroStep
    BY <2>1, ZeroForm
  <2>2. CASE TaskStep
    BY <2>2, TaskForm
  <2>3. QED
    BY <1>5, <2>1, <2>2
<1>6. QED
  BY <1>1, <1>2, <1>3, <1>4, <1>5 DEF PortStep

\* What the device of group port v makes of a level: it lets its port go, keeps
\* it, or takes one that no one holds, and a pulse that is under way goes on.
LEMMA EdgeIs ==
  ASSUME NEW v \in GroupPorts, NEW g \in GroupType, NEW level \in Nat,
         NEW next \in PoolPorts \cup {None},
         NEW edge, edge = CASE g.level = 0 /\ level # 0 -> RisingEdge(v, g, next)
                            [] g.level # 0 /\ level = 0 -> FallingEdge(v, g)
                            [] OTHER -> g
  PROVE  /\ edge \in GroupType
         /\ \/ edge.port = None \/ edge.port = g.port
            \/ g.port = None /\ (edge.port = next \/ claimant[edge.port] = None)
         /\ OnTime[v] # 0 /\ edge.port # None =>
              \/ edge.left = g.left /\ edge.off = g.off /\ edge.port = g.port
              \/ level # g.level
                 /\ edge.left = (IF edge.off # 0 THEN OffTime[v] ELSE OnTime[v]) + 1
<1>1. OnTime[v] + 1 \in Nat /\ OffTime[v] + 1 \in Nat
  BY SetsOK
<1>2. CASE g.level = 0 /\ level # 0
  <2>1. edge = RisingEdge(v, g, next)
    BY <1>2
  <2> DEFINE held == IF g.port # None THEN g.port ELSE next
             pulse == held # None /\ OnTime[v] # 0
             onPort == IF pulse THEN held ELSE None
             left == IF pulse THEN OnTime[v] + 1 ELSE 0
  <2>2. edge = [g EXCEPT !.port = held, !.off = 0, !.onPort = onPort, !.left = left]
    BY <2>1 DEF RisingEdge
  <2>3. /\ held \in PoolPorts \cup {None} /\ onPort \in PoolPorts \cup {None} /\ left \in Nat
    <3>1. held \in PoolPorts \cup {None} /\ OnTime[v] + 1 \in Nat
      BY <1>1 DEF GroupType
    <3> HIDE DEF held
    <3>2. QED
      BY <3>1
  <2>5. held = g.port \/ (g.port = None /\ held = next)
    OBVIOUS
  <2>6. held # None /\ OnTime[v] # 0 => left = OnTime[v] + 1
    OBVIOUS
  <2> HIDE DEF held, onPort, left
  <2>4. edge \in GroupType /\ edge.port = held /\ edge.off = 0 /\ edge.left = left
    BY <2>2, <2>3 DEF GroupType
  <2>7. QED
    BY <1>2, <2>4, <2>5, <2>6
<1>3. CASE g.level # 0 /\ level = 0
  <2>1. edge = FallingEdge(v, g)
    BY <1>3
  <2>2. CASE g.port # None
    <3>1. edge = [g EXCEPT !.port = None]
      BY <2>1, <2>2 DEF FallingEdge
    <3>2. QED
      BY <3>1 DEF GroupType
  <2>3. CASE g.port = None /\ ~(OnTime[v] # 0 /\ OffTime[v] # 0 /\ g.onPort # None)
    <3>1. edge = g
      BY <2>1, <2>3 DEF FallingEdge
    <3>2. QED
      BY <2>3, <3>1
  <2>4. CASE g.port = None /\ OnTime[v] # 0 /\ OffTime[v] # 0 /\ g.onPort # None
             /\ claimant[g.onPort] = None
    <3>1. edge = [g EXCEPT !.onPort = None, !.port = g.onPort,
                           !.left = OffTime[v] + 1, !.off = g.level]
      BY <2>1, <2>4 DEF FallingEdge
    <3>2. edge \in GroupType /\ edge.port = g.onPort /\ edge.left = OffTime[v] + 1
          /\ edge.off = g.level
      BY <1>1, <3>1 DEF GroupType
    <3>3. QED
      BY <1>3, <2>4, <3>2
  <2>5. CASE g.port = None /\ OnTime[v] # 0 /\ OffTime[v] # 0 /\ g.onPort # None
             /\ claimant[g.onPort] # None
    <3>1. edge = [g EXCEPT !.onPort = None]
      BY <2>1, <2>5 DEF FallingEdge
    <3>2. QED
      BY <2>5, <3>1 DEF GroupType
  <2>6. QED
    BY <2>2, <2>3, <2>4, <2>5
<1>4. CASE ~(g.level = 0 /\ level # 0) /\ ~(g.level # 0 /\ level = 0)
  <2>1. edge = g
    BY <1>4
  <2>2. QED
    BY <2>1
<1>5. QED
  BY <1>2, <1>3, <1>4

\* What a level does to a virtual port: the port it claims, and its pulse.
LEMMA GroupMoves ==
  ASSUME NEW v \in GroupPorts, group[v] \in GroupType, NEW level \in Nat,
         NEW next \in PoolPorts \cup {None}, NEW after, after = GroupSet(v, level, next)
  PROVE  /\ after \in GroupType /\ after.level = level
         /\ \/ after.port = None \/ after.port = group[v].port
            \/ group[v].port = None /\ (after.port = next \/ claimant[after.port] = None)
         /\ OnTime[v] # 0 /\ after.port # None =>
              /\ after.left > 0
              /\ \/ /\ after.left = group[v].left /\ after.off = group[v].off
                    /\ after.port = group[v].port
                 \/ level # group[v].level
                    /\ after.left = (IF after.off # 0 THEN OffTime[v] ELSE OnTime[v]) + 1
<1>1. PICK edge : edge = CASE group[v].level = 0 /\ level # 0 -> RisingEdge(v, group[v], next)
                           [] group[v].level # 0 /\ level = 0 -> FallingEdge(v, group[v])
                           [] OTHER -> group[v]
  OBVIOUS
<1>2. PICK set : set = [edge EXCEPT !.level = level]
  OBVIOUS
<1>3. after = IF PulseOver(v, set) THEN [set EXCEPT !.port = None, !.off = 0] ELSE set
  BY <1>1, <1>2 DEF GroupSet
<1>4. /\ edge \in GroupType
      /\ \/ edge.port = None \/ edge.port = group[v].port
         \/ group[v].port = None /\ (edge.port = next \/ claimant[edge.port] = None)
      /\ OnTime[v] # 0 /\ edge.port # None =>
           \/ edge.left = group[v].left /\ edge.off = group[v].off /\ edge.port = group[v].port
           \/ level # group[v].level
              /\ edge.left = (IF edge.off # 0 THEN OffTime[v] ELSE OnTime[v]) + 1
  BY <1>1, EdgeIs
<1>5. set \in GroupType /\ set.level = level /\ set.port = edge.port /\ set.left = edge.left
      /\ set.off = edge.off
  BY <1>2, <1>4 DEF GroupType
<1>6. CASE PulseOver(v, set)
  <2>1. after = [set EXCEPT !.port = None, !.off = 0]
    BY <1>3, <1>6
  <2>2. [set EXCEPT !.port = None, !.off = 0] \in GroupType
    BY <1>5 DEF GroupType
  <2>3. after.level = level /\ after.port = None
    <3>1. set \in GroupType /\ set.level = level
      BY <1>5
    <3>2. QED
      BY <2>1, <3>1 DEF GroupType
  <2>4. QED
    BY <2>1, <2>2, <2>3
<1>7. CASE ~PulseOver(v, set)
  <2>1. after = set /\ (OnTime[v] # 0 /\ set.port # None => set.left # 0) /\ set.left \in Nat
    BY <1>3, <1>5, <1>7 DEF PulseOver, GroupType
  <2>2. OnTime[v] # 0 /\ set.port # None => set.left > 0
    BY <2>1
  <2>3. QED
    BY <1>4, <1>5, <2>1, <2>2
<1>8. QED
  BY <1>6, <1>7

\* A step on port p changes no other port, or p is a group port that moves.
Plain(p, z) == port' = [port EXCEPT ![p] = z] /\ UNCHANGED groupVars

Moves(p, z) ==
  /\ ~suspended
  /\ \E i \in DOMAIN Pool, after \in GroupType, q \in PoolPorts \cup {None}, level \in Nat :
       GroupStep(p, z, i, after, q, level)

\* A form is that of an ordinary port or a move of a virtual one.
LEMMA FormMoves ==
  ASSUME Sound, NEW p \in Ports, NEW z, Form(p, z)
  PROVE  Plain(p, z) \/ (p \in GroupPorts /\ Moves(p, z))
<1>0. PortsOK /\ z \in PortType
  BY SoundPorts DEF Form
<1>1. CASE Passed(p, z) /\ ~suspended
  <2>1. CASE p \notin GroupPorts
    BY <1>1, <2>1 DEF Passed, Plain
  <2>2. CASE p \in GroupPorts
    <3>1. \E i \in DOMAIN Pool, after \in GroupType, q \in PoolPorts \cup {None}, level \in Nat :
            GroupStep(p, z, i, after, q, level)
      BY <1>0, <1>1, <2>2, GroupPassed
    <3>2. QED
      BY <1>1, <2>2, <3>1 DEF Moves
  <2>3. QED
    BY <2>1, <2>2
<1>2. CASE ~(Passed(p, z) /\ ~suspended)
  BY <1>2 DEF Form, Plain
<1>3. QED
  BY <1>1, <1>2

\* What the share group sets a pool port to.
LEMMA ShareIs ==
  ASSUME Sound, ~suspended, NEW q \in PoolPorts, NEW level \in Nat,
         NEW w, w = SetShareGroupLevel(q, port[q], level)
  PROVE  /\ w.lw.mode = FALSE /\ w.log = level /\ w.out \in Nat /\ w.out <= level
         /\ Hushed(q, w)
<1> DEFINE s == [port[q] EXCEPT !.dof = level, !.lw.mode = FALSE]
<1>1. q \in Ports /\ PortOK(q, port[q])
  BY SetsOK DEF Sound
<1>2. s \in PortType /\ s.log = port[q].log /\ s.state = port[q].state /\ s.lw.mode = FALSE
      /\ s.cutoff = port[q].cutoff /\ s.cool = port[q].cool /\ s.out = port[q].out
  BY <1>1 DEF PortOK, PortType, LedWiz
<1>3. w = SetLogicalLevel(q, s, level)
  BY DEF SetShareGroupLevel
<1> HIDE DEF s
<1>4. PortOK(q, s)
  BY <1>1, <1>2, HostFields
<1>5. w \in PortType /\ w.log = level /\ w.out <= w.log /\ w.lw = s.lw
      /\ Hushed(q, w)
  BY <1>1, <1>3, <1>4, SetLevelIs
<1>6. w.out \in Nat
  BY <1>5 DEF PortType
<1>7. QED
  BY <1>2, <1>5, <1>6

\* Every step leaves the pool ports at the level their claimant set.
LEMMA PoolIsSetStep == ASSUME Sound, Awake, PoolIsSet, [Next]_vars PROVE PoolIsSet'
<1>1. CASE PortStep
  <2>p. PICK p \in Ports : \E y : Form(p, y)
    BY <1>1, StepForm
  <2>1. PICK z : p \in Ports /\ Form(p, z)
    BY <2>p
  <2>2. p \in PoolPorts => z.lw.mode = FALSE
    BY <2>1 DEF Form
  <2>3. CASE Plain(p, z)
    BY <2>2, <2>3, SetsOK DEF Plain, PoolIsSet, Sound, TypeOK
  <2>4. CASE p \in GroupPorts /\ Moves(p, z)
    <3>1. PICK i \in DOMAIN Pool, after \in GroupType, q \in PoolPorts \cup {None}, level \in Nat :
            GroupStep(p, z, i, after, q, level)
      BY <2>4 DEF Moves
    <3>2. ASSUME NEW x \in PoolPorts PROVE port'[x].lw.mode = FALSE
      <4>1. x \in Ports /\ x # p
        BY <2>4, SetsOK
      <4>2. CASE x = q
        <5>1. PICK w : w = SetShareGroupLevel(x, port[x], level)
          OBVIOUS
        <5>2. port'[x] = w
          BY <3>1, <4>1, <4>2, <5>1 DEF GroupStep
        <5>3. w.lw.mode = FALSE
          BY <2>4, <5>1, ShareIs DEF Moves
        <5>4. QED
          BY <5>2, <5>3
      <4>3. CASE x # q
        <5>1. port'[x] = port[x]
          BY <3>1, <4>1, <4>3 DEF GroupStep
        <5>2. QED
          BY <5>1 DEF PoolIsSet
      <4>4. QED
        BY <4>2, <4>3
    <3>3. QED
      BY <3>2 DEF PoolIsSet
  <2>5. QED
    BY <2>1, <2>3, <2>4, FormMoves
<1>2. CASE Rest \/ UNCHANGED vars
  <2>1. UNCHANGED port
    BY <1>2 DEF Rest, AllOff, UsbChange, NightChange, Suspend, Resume, Task, vars
  <2>2. QED
    BY <2>1 DEF PoolIsSet
<1>3. CASE Tick
  <2>1. ASSUME NEW q \in PoolPorts PROVE port'[q].lw = port[q].lw
    <3>1. q \in Ports /\ port[q] \in PortType
      BY SetsOK DEF Sound, TypeOK
    <3>2. port'[q] = [port[q] EXCEPT !.cutoff = Down(@), !.cool = Down(@)]
      BY <1>3, <3>1 DEF Tick
    <3>3. QED
      BY <3>1, <3>2 DEF PortType
  <2>2. QED
    BY <2>1 DEF PoolIsSet
<1>4. QED
  BY <1>1, <1>2, <1>3 DEF Next, PortStep, Rest

\* Both hold from the start.
LEMMA Steady == Spec => [](Sound /\ Awake /\ PoolIsSet)
<1>1. Init => Sound /\ Awake /\ PoolIsSet
  <2> SUFFICES ASSUME Init PROVE Awake /\ PoolIsSet
    BY SoundInit
  <2>1. QED
    BY SetsOK DEF Init, Awake, PoolIsSet
<1>2. Sound /\ Awake /\ PoolIsSet /\ [Next]_vars => Sound' /\ Awake' /\ PoolIsSet'
  BY SoundStep, AwakeStep, PoolIsSetStep
<1>3. QED
  BY <1>1, <1>2, PTL DEF Spec

(* Who holds a port. *)

\* The claims after group port p has passed a level on.
LEMMA ClaimsMove ==
  ASSUME Sound, ClaimsAgree, NEW p \in GroupPorts, NEW z \in PortType, Moves(p, z)
  PROVE  ClaimsAgree'
<1>1. PICK i \in DOMAIN Pool, after \in GroupType, q \in PoolPorts \cup {None}, level \in Nat :
        GroupStep(p, z, i, after, q, level)
  BY DEF Moves
<1>2. ~suspended
  BY DEF Moves
<1> DEFINE a == after.port  b == group[p].port
<1>3. /\ group \in [GroupPorts -> GroupType] /\ z.out \in Nat
      /\ NextPort(i) \in PoolPorts \cup {None}
  BY SetsOK DEF Sound, TypeOK, GroupType, PortType, NextPort
<1>4. /\ a = None \/ a = b \/ (b = None /\ claimant[a] = None)
      /\ a \in PoolPorts \cup {None} /\ b \in PoolPorts \cup {None}
  <2>1. NextPort(i) = None \/ claimant[NextPort(i)] = None
    BY <1>1 DEF GroupStep
  <2>2. after = GroupSet(p, z.out, NextPort(i)) /\ group[p] \in GroupType
    BY <1>1, <1>3 DEF GroupStep
  <2>3. \/ after.port = None \/ after.port = group[p].port
        \/ group[p].port = None /\ (after.port = NextPort(i) \/ claimant[after.port] = None)
    BY <1>3, <2>2, GroupMoves
  <2>4. a \in PoolPorts \cup {None} /\ b \in PoolPorts \cup {None}
    BY <2>2 DEF GroupType
  <2>5. QED
    BY <2>1, <2>3, <2>4
<1>5. None \notin PoolPorts /\ None \notin GroupPorts /\ p \notin PoolPorts
  BY SetsOK
<1>6. /\ q = IF a # None THEN a ELSE b
      /\ a = None => level = 0
      /\ group' = [group EXCEPT ![p] = after]
      /\ claimant' = [x \in PoolPorts |->
                        IF x # q THEN claimant[x] ELSE IF a = None THEN None ELSE p]
  BY <1>1 DEF GroupStep
<1>7. ASSUME NEW x \in PoolPorts
      PROVE  port'[x] = IF x = q THEN SetShareGroupLevel(q, port[q], level) ELSE port[x]
  BY <1>1, <1>5, <1>7, SetsOK DEF GroupStep
<1>8. \A v \in GroupPorts : group'[v].port = IF v = p THEN a ELSE group[v].port
  BY <1>3, <1>6
<1>9. \A x \in PoolPorts : \A v \in GroupPorts : group[v].port = x <=> claimant[x] = v
  BY DEF ClaimsAgree
<1>10. ASSUME NEW x \in PoolPorts, NEW v \in GroupPorts
       PROVE  group'[v].port = x <=> claimant'[x] = v
  <2>1. group'[v].port = (IF v = p THEN a ELSE group[v].port)
        /\ claimant'[x] = IF x # q THEN claimant[x] ELSE IF a = None THEN None ELSE p
    BY <1>6, <1>8
  <2>2. (group[v].port = x <=> claimant[x] = v) /\ (b = x <=> claimant[x] = p)
    BY <1>9
  <2> HIDE DEF a, b
  <2>3. QED
    BY <1>4, <1>5, <1>6, <2>1, <2>2
<1>11. ASSUME NEW x \in PoolPorts, claimant'[x] = None
       PROVE  port'[x].log = 0 /\ port'[x].out = 0
  <2>1. CASE x # q
    <3>1. claimant'[x] = claimant[x] /\ port'[x] = port[x]
      BY <1>6, <1>7, <2>1
    <3>2. QED
      BY <1>11, <3>1 DEF ClaimsAgree
  <2>2. CASE x = q
    <3>1. a = None /\ level = 0
      BY <1>5, <1>6, <1>11, <2>2
    <3>2. PICK w : w = SetShareGroupLevel(x, port[x], level)
      OBVIOUS
    <3>3. w.log = level /\ w.out \in Nat /\ w.out <= level
      BY <1>2, <3>2, ShareIs
    <3>4. port'[x] = w
      BY <1>7, <2>2, <3>2
    <3>5. QED
      BY <3>1, <3>3, <3>4
  <2>3. QED
    BY <2>1, <2>2
<1>12. QED
  BY <1>10, <1>11 DEF ClaimsAgree

\* Every step leaves the two sides of a claim in agreement.
LEMMA ClaimsStep == ASSUME Sound, Awake, PoolIsSet, ClaimsAgree, [Next]_vars PROVE ClaimsAgree'
<1>1. CASE PortStep
  <2>p. PICK p \in Ports : \E y : Form(p, y)
    BY <1>1, StepForm
  <2>1. PICK z : p \in Ports /\ Form(p, z)
    BY <2>p
  <2>2. z \in PortType /\ z.out <= z.log /\ (p \in PoolPorts => z.log \in {0, port[p].log})
    BY <2>1 DEF Form
  <2>3. CASE Plain(p, z)
    <3>1. ASSUME NEW x \in PoolPorts, claimant[x] = None
          PROVE  port'[x].log = 0 /\ port'[x].out = 0
      <4>1. port[x].log = 0 /\ port[x].out = 0
        BY <3>1 DEF ClaimsAgree
      <4>2. x \in Ports /\ port'[x] = IF x = p THEN z ELSE port[x]
        BY <2>3, SetsOK DEF Plain, Sound, TypeOK
      <4>3. z.log \in Nat /\ z.out \in Nat
        BY <2>2 DEF PortType
      <4>4. QED
        BY <2>2, <4>1, <4>2, <4>3
    <3>2. UNCHANGED <<group, claimant>>
      BY <2>3 DEF Plain, groupVars
    <3>3. QED
      BY <3>1, <3>2 DEF ClaimsAgree
  <2>4. QED
    BY <2>1, <2>2, <2>3, FormMoves, ClaimsMove
<1>2. CASE Rest \/ UNCHANGED vars
  <2>1. UNCHANGED <<port, group, claimant>>
    BY <1>2 DEF Rest, AllOff, UsbChange, NightChange, Suspend, Resume, Task, vars
  <2>2. QED
    BY <2>1 DEF ClaimsAgree
<1>3. CASE Tick
  <2>1. ASSUME NEW q \in PoolPorts PROVE port'[q].log = port[q].log /\ port'[q].out = port[q].out
    <3>1. q \in Ports /\ port[q] \in PortType
      BY SetsOK DEF Sound, TypeOK
    <3>2. port'[q] = [port[q] EXCEPT !.cutoff = Down(@), !.cool = Down(@)]
      BY <1>3, <3>1 DEF Tick
    <3>3. QED
      BY <3>1, <3>2 DEF PortType
  <2>2. ASSUME NEW v \in GroupPorts PROVE group'[v].port = group[v].port
    <3>1. group'[v] = [group[v] EXCEPT !.left = Down(@)] /\ group[v] \in GroupType
      BY <1>3 DEF Tick, Sound, TypeOK, GroupType
    <3>2. QED
      BY <3>1 DEF GroupType
  <2>3. UNCHANGED claimant
    BY <1>3 DEF Tick
  <2>4. QED
    BY <2>1, <2>2, <2>3 DEF ClaimsAgree
<1>4. QED
  BY <1>1, <1>2, <1>3 DEF Next, PortStep, Rest

\* Two group ports never hold the same port of the pool, a group port and the port
\* always agree on who holds it, and a port that is held by no one is off.
THEOREM ClaimsKept == Spec => []ClaimsAgree
<1>1. Init => ClaimsAgree
  BY SetsOK DEF Init, ClaimsAgree
<1>2. Sound /\ Awake /\ PoolIsSet /\ ClaimsAgree /\ [Next]_vars => ClaimsAgree'
  BY ClaimsStep
<1>3. QED
  BY <1>1, <1>2, Steady, PTL DEF Spec

(* Night Mode. *)

\* A step in Night Mode does not start a noisy port.
LEMMA SilenceForm ==
  ASSUME Sound, night, NEW p \in Ports, NEW z, Form(p, z), Hushed(p, z),
         NEW x \in Noisy, x = p \/ port[x].out = 0, ~suspended
  PROVE  port'[x].out = 0
<1>1. x \in Ports
  BY PoolIsApart
<1>2. z.out = 0 \/ x # p
  BY DEF Hushed
<1>3. CASE Plain(p, z)
  BY <1>1, <1>2, <1>3 DEF Plain, Sound, TypeOK
<1>4. CASE p \in GroupPorts /\ Moves(p, z)
  <2>1. PICK i \in DOMAIN Pool, after \in GroupType, q \in PoolPorts \cup {None}, level \in Nat :
          GroupStep(p, z, i, after, q, level)
    BY <1>4 DEF Moves
  <2>2. CASE x = p
    BY <1>1, <1>2, <2>1, <2>2 DEF GroupStep
  <2>3. CASE x # p /\ x = q
    <3>1. x \in PoolPorts
      BY <1>1, <2>1, <2>3, SetsOK
    <3>2. PICK w : w = SetShareGroupLevel(x, port[x], level)
      OBVIOUS
    <3>3. Hushed(x, w)
      BY <2>1, <3>1, <3>2, ShareIs
    <3>4. port'[x] = w
      BY <1>1, <2>1, <2>3, <3>2 DEF GroupStep
    <3>5. QED
      BY <3>3, <3>4 DEF Hushed
  <2>4. CASE x # p /\ x # q
    BY <1>1, <2>1, <2>4 DEF GroupStep
  <2>5. QED
    BY <2>2, <2>3, <2>4
<1>5. QED
  BY <1>3, <1>4, FormMoves

\* A loop goes through all the ports: what holds of those that it has passed holds
\* of one more at each step, and at the last one of them all.
LEMMA LoopPasses ==
  ASSUME loop \in LoopType
  PROVE  /\ Current \in Ports
         /\ Last => Ports = Done \cup {Current}
         /\ \A next \in {"idle", "off", "suspend", "zero", "task"} :
              Advance(next) /\ ~Last => Done' = Done \cup {Current} /\ loop'.op = loop.op
<1>1. Len(PortList) \in Nat \ {0} /\ loop.at \in 1..Len(PortList) /\ loop.at - 1 \in Int
  BY LoopOK DEF LoopType
<1>2. Current \in Ports
  BY <1>1, LoopOK DEF Current
<1>3. 1..loop.at = 1..(loop.at - 1) \cup {loop.at}
  BY <1>1
<1>4. Done \cup {Current} = {PortList[i] : i \in 1..loop.at}
  BY <1>3 DEF Done, Current
<1>5. ASSUME Last PROVE Ports = Done \cup {Current}
  <2>1. 1..loop.at = DOMAIN PortList
    BY <1>5, LoopOK DEF Last
  <2>2. Ports = {PortList[i] : i \in DOMAIN PortList}
    BY OutputsAssumption DEF OutputsAssumption
  <2>3. QED
    BY <1>4, <2>1, <2>2
<1>6. ASSUME NEW next \in {"idle", "off", "suspend", "zero", "task"}, Advance(next), ~Last
      PROVE  Done' = Done \cup {Current} /\ loop'.op = loop.op
  <2>1. loop'.op = loop.op /\ loop'.at = loop.at + 1
    BY <1>6, AdvanceOK
  <2>2. loop'.at - 1 = loop.at
    BY <1>1, <2>1
  <2>3. Done' = {PortList[i] : i \in 1..loop.at}
    BY <2>2 DEF Done
  <2>4. QED
    BY <1>4, <2>1, <2>3
<1>7. QED
  BY <1>2, <1>5, <1>6

\* After the turn of one port: the ports that had theirs are still silent.
LEMMA SilentStep ==
  ASSUME Sound, Awake, PoolIsSet, SilentSoFar, TaskStep, night
  PROVE  \A x \in (Done \cup {Current}) \cap Noisy : port'[x].out = 0
<1>1. PICK z : Form(Current, z) /\ Passed(Current, z) /\ Hushed(Current, z)
  BY TaskForm
<1>2. Current \in Ports /\ loop.op = "task" /\ ~suspended
  BY TaskForm DEF TaskStep, Awake
<1>3. SUFFICES ASSUME NEW x \in (Done \cup {Current}) \cap Noisy PROVE port'[x].out = 0
  OBVIOUS
<1>4. x = Current \/ port[x].out = 0
  BY <1>2 DEF SilentSoFar
<1>5. QED
  BY <1>1, <1>2, <1>4, SilenceForm

\* All other steps are taken between the loops, and start one of two at most.
LEMMA IdleStarts ==
  ASSUME Next, ~TaskStep, ~OffStep, ~ZeroStep, ~Task
  PROVE  Idle /\ (UNCHANGED loop \/ \E op \in {"off", "suspend"} : Start(op))
<1>1. ASSUME NEW t, Suspend(t)
      PROVE  Idle /\ (UNCHANGED loop \/ \E op \in {"off", "suspend"} : Start(op))
  BY <1>1 DEF Suspend
<1>2. ASSUME AllOff \/ UsbChange \/ NightChange \/ Resume \/ Tick
      PROVE  Idle /\ (UNCHANGED loop \/ \E op \in {"off", "suspend"} : Start(op))
  BY <1>2 DEF AllOff, UsbChange, NightChange, Resume, Tick
<1>3. ASSUME NEW p, NEW x, Set(p, x) \/ SetSBA(p, x) \/ SetPBA(p, x)
      PROVE  Idle /\ UNCHANGED loop
  BY <1>3 DEF Set, SetSBA, SetPBA
<1>4. QED
  BY <1>1, <1>2, <1>3 DEF Next

\* The noisy ports that the task's loop has passed in Night Mode stay silent to its
\* end.
LEMMA SilentSoFarStep ==
  ASSUME Sound, Awake, PoolIsSet, SilentSoFar, [Next]_vars PROVE SilentSoFar'
<1>1. loop \in LoopType
  BY DEF Sound, TypeOK, LoopType
<1>2. CASE TaskStep
  <2>1. Advance("idle") /\ night' = night
    BY <1>2 DEF TaskStep
  <2>2. CASE Last
    <3>1. loop'.op = "idle"
      BY <1>1, <2>1, <2>2, AdvanceOK
    <3>2. QED
      BY <3>1 DEF SilentSoFar
  <2>3. CASE ~Last
    <3>1. Done' = Done \cup {Current}
      BY <1>1, <2>1, <2>3, LoopPasses
    <3>2. QED
      BY <1>2, <2>1, <3>1, SilentStep DEF SilentSoFar
  <2>4. QED
    BY <2>2, <2>3
<1>3. CASE OffStep \/ ZeroStep
  <2>1. loop'.op # "task"
    BY <1>3, PortStepOK DEF PortStep, OffStep, ZeroStep
  <2>2. QED
    BY <2>1 DEF SilentSoFar
<1>4. CASE Task
  <2>1. loop' = loop \/ loop' = [op |-> "task", at |-> 1]
    BY <1>4 DEF Task, Start
  <2>2. loop.op = "idle"
    BY <1>4 DEF Task, Idle
  <2>3. loop'.op # "task" \/ loop'.at = 1
    BY <2>1, <2>2
  <2>4. loop'.at = 1 => Done' = {}
    BY DEF Done
  <2>5. QED
    BY <2>3, <2>4 DEF SilentSoFar
<1>5. CASE loop'.op # "task"
  BY <1>5 DEF SilentSoFar
<1>6. CASE UNCHANGED vars
  BY <1>6 DEF SilentSoFar, Done, vars
<1>7. ASSUME Next, ~TaskStep, ~OffStep, ~ZeroStep, ~Task
      PROVE  loop'.op # "task"
  <2>1. Idle /\ (UNCHANGED loop \/ \E op \in {"off", "suspend"} : Start(op))
    BY <1>7, IdleStarts
  <2>2. QED
    BY <2>1 DEF Idle, Start
<1>8. QED
  BY <1>2, <1>3, <1>4, <1>5, <1>6, <1>7

\* At the end of a turn of the main loop in Night Mode every noisy port is off, a
\* port of the pool that a group port has reached for in that turn too.
THEOREM NightIsSilent == Spec => NightSilences
<1>1. Init => SilentSoFar
  BY DEF Init, SilentSoFar
<1>2. Sound /\ Awake /\ PoolIsSet /\ SilentSoFar /\ [Next]_vars => SilentSoFar'
  BY SilentSoFarStep
<1>3. ASSUME Sound, Awake, PoolIsSet, SilentSoFar, [Next]_vars
      PROVE  [loop.op = "task" /\ loop'.op = "idle" /\ night =>
                \A p \in Noisy : port'[p].out = 0]_vars
  <2> SUFFICES ASSUME Next, loop.op = "task", loop'.op = "idle", night, NEW p \in Noisy
               PROVE  port'[p].out = 0
    BY <1>3
  <2>1. TaskStep
    BY DEF Next, Set, SetSBA, SetPBA, AllOff, UsbChange, NightChange, Suspend, Resume, Tick,
           Task, OffStep, ZeroStep, Idle
  <2>2. loop \in LoopType /\ Advance("idle")
    BY <1>3, <2>1 DEF Sound, TypeOK, LoopType, TaskStep
  <2>3. Last
    BY <2>2, AdvanceOK
  <2>4. p \in Done \cup {Current}
    BY <2>2, <2>3, LoopPasses, PoolIsApart
  <2>5. QED
    BY <1>3, <2>1, <2>4, SilentStep
<1>4. QED
  BY <1>1, <1>2, <1>3, Steady, PTL DEF Spec, NightSilences

(* A suspension. *)

\* A port that is off stays off where nothing sets it.
LEMMA OffKept ==
  ASSUME NEW p \in Ports, Off(p), port'[p].out = port[p].out,
         \A v \in GroupPorts : group'[v].port = group[v].port /\ group'[v].off = group[v].off
  PROVE  Off(p)'
BY DEF Off

\* The turn of one port in the second loop of a suspension.
LEMMA ZeroKeeps ==
  ASSUME Sound, Awake, PoolIsSet, ZeroStep, NEW x \in Ports, x = Current \/ Off(x)
  PROVE  Off(x)'
<1>1. PICK z : Form(Current, z) /\ Passed(Current, z) /\ z.out = 0
  BY ZeroForm
<1>2. Current \in Ports /\ ~suspended /\ z \in PortType
  BY <1>1, ZeroForm DEF ZeroStep, Awake, Form
<1> DEFINE p == Current
<1> HIDE DEF p
<1>3. CASE Plain(p, z)
  <2>1. port'[x] = (IF x = p THEN z ELSE port[x]) /\ UNCHANGED group
    BY <1>3 DEF Plain, groupVars, Sound, TypeOK
  <2>2. CASE x = p
    BY <1>1, <2>1, <2>2 DEF Off
  <2>3. CASE x # p
    BY <2>1, <2>3, OffKept DEF p
  <2>4. QED
    BY <2>2, <2>3
<1>4. CASE p \in GroupPorts /\ Moves(p, z)
  <2>1. PICK i \in DOMAIN Pool, after \in GroupType, q \in PoolPorts \cup {None}, level \in Nat :
          GroupStep(p, z, i, after, q, level)
    BY <1>4 DEF Moves
  <2>2. /\ group \in [GroupPorts -> GroupType] /\ z.out \in Nat
        /\ NextPort(i) \in PoolPorts \cup {None}
    BY <1>2, SetsOK DEF Sound, TypeOK, GroupType, PortType, NextPort
  <2>3. after.port = None \/ after.port = group[p].port \/ group[p].port = None
    <3>1. after = GroupSet(p, z.out, NextPort(i)) /\ group[p] \in GroupType
      BY <1>4, <2>1, <2>2 DEF GroupStep
    <3>2. \/ after.port = None \/ after.port = group[p].port
          \/ group[p].port = None /\ (after.port = NextPort(i) \/ claimant[after.port] = None)
      BY <1>4, <2>2, <3>1, GroupMoves
    <3>3. QED
      BY <3>2
  <2>4. /\ q = IF after.port # None THEN after.port ELSE group[p].port
        /\ level = IF after.port = None THEN 0 ELSE IF after.off # 0 THEN after.off ELSE 0
        /\ \A v \in GroupPorts : group'[v] = IF v = p THEN after ELSE group[v]
        /\ port'[x] = IF x = p THEN z
                      ELSE IF x = q THEN SetShareGroupLevel(q, port[q], level) ELSE port[x]
    BY <1>1, <2>1, <2>2 DEF GroupStep
  <2>5. CASE x = p
    <3>1. port'[x] = z
      BY <2>4, <2>5
    <3>2. QED
      BY <1>1, <3>1 DEF Off
  <2>6. CASE x # p /\ x = q
    <3>1. x \in PoolPorts /\ x # None
      BY <2>1, <2>6, SetsOK
    <3>2. PICK w : w = SetShareGroupLevel(x, port[x], level)
      OBVIOUS
    <3>3. w.out \in Nat /\ w.out <= level
      BY <1>2, <2>1, <3>1, <3>2, ShareIs
    <3>4. port'[x] = w
      BY <2>4, <2>6, <3>2
    <3>5. CASE level = 0
      BY <3>3, <3>4, <3>5 DEF Off
    <3>6. CASE level # 0
      <4>1. group'[p].port = x /\ group'[p].off # 0
        BY <1>4, <2>4, <2>6, <3>6
      <4>2. QED
        BY <1>4, <4>1 DEF Off
    <3>7. QED
      BY <3>5, <3>6
  <2>7. CASE x # p /\ x # q
    <3>1. port'[x] = port[x]
      BY <2>4, <2>7
    <3>2. Off(x)
      BY <2>7 DEF p
    <3>3. CASE port[x].out = 0
      BY <3>1, <3>3 DEF Off
    <3>4. ASSUME NEW v \in GroupPorts, group[v].port = x, group[v].off # 0
          PROVE  Off(x)'
      <4>1. v # p
        <5> SUFFICES ASSUME v = p PROVE FALSE
          OBVIOUS
        <5>1. group[p].port = x /\ x # None
          BY <3>4, SetsOK
        <5>2. QED
          BY <2>3, <2>4, <2>7, <5>1
      <4>2. group'[v] = group[v]
        BY <2>4, <4>1
      <4>3. QED
        BY <3>4, <4>2 DEF Off
    <3>5. QED
      BY <3>2, <3>3, <3>4 DEF Off
  <2>8. QED
    BY <2>5, <2>6, <2>7
<1>5. QED
  BY <1>1, <1>2, <1>3, <1>4, FormMoves DEF p

\* The ports that the loops of a suspension have passed stay off to its end, and after
\* it.
LEMMA SuspendedStep ==
  ASSUME Sound, Awake, PoolIsSet, OffSoFar, SuspendedIsOff, [Next]_vars
  PROVE  OffSoFar' /\ SuspendedIsOff'
<1>1. loop \in LoopType
  BY DEF Sound, TypeOK, LoopType
<1>2. SuspendedIsOff <=> (suspended => \A p \in Ports : Off(p))
  BY DEF SuspendedIsOff, Off
<1>3. SuspendedIsOff' <=> (suspended' => \A p \in Ports : Off(p)')
  BY DEF SuspendedIsOff, Off
<1>4. CASE ZeroStep
  <2>1. Advance("idle") /\ (suspended' <=> Last) /\ loop.op = "zero"
    BY <1>4 DEF ZeroStep
  <2>2. \A x \in Done \cup {Current} : x \in Ports => Off(x)'
    <3>1. \A x \in Done : Off(x)
      BY <2>1 DEF OffSoFar
    <3>2. QED
      BY <1>4, <3>1, ZeroKeeps
  <2>3. Done \cup {Current} \subseteq Ports
    <3>1. Len(PortList) \in Nat /\ loop.at \in 1..Len(PortList)
      BY <1>1, LoopOK DEF LoopType
    <3>2. \A i \in 1..(loop.at - 1) : i \in DOMAIN PortList
      BY <3>1, LoopOK
    <3>3. QED
      BY <1>1, <3>2, LoopOK, LoopPasses DEF Done
  <2>4. CASE Last
    <3>1. loop'.op = "idle" /\ Ports = Done \cup {Current}
      BY <1>1, <2>1, <2>4, AdvanceOK, LoopPasses
    <3>2. QED
      BY <1>3, <2>2, <3>1 DEF OffSoFar
  <2>5. CASE ~Last
    <3>1. Done' = Done \cup {Current} /\ ~suspended'
      BY <1>1, <2>1, <2>5, LoopPasses
    <3>2. QED
      BY <1>3, <2>2, <2>3, <3>1 DEF OffSoFar
  <2>6. QED
    BY <2>4, <2>5
<1>5. CASE ~ZeroStep
  <2>1. OffSoFar'
    <3>1. CASE UNCHANGED vars
      BY <3>1 DEF OffSoFar, Off, Done, vars
    <3>2. CASE OffStep
      <4>1. loop.op \in {"off", "suspend"} /\ Advance(IF loop.op = "off" THEN "idle" ELSE "zero")
        BY <3>2 DEF OffStep
      <4>2. loop'.op # "zero" \/ loop'.at = 1
        <5>1. CASE Last
          <6>1. loop'.at = 1
            BY <4>1, <5>1 DEF Advance
          <6>2. QED
            BY <6>1
        <5>2. CASE ~Last
          <6>1. loop'.op = loop.op
            BY <1>1, <4>1, <5>2, AdvanceOK
          <6>2. QED
            BY <4>1, <6>1
        <5>3. QED
          BY <5>1, <5>2
      <4>3. loop'.at = 1 => Done' = {}
        BY DEF Done
      <4>4. QED
        BY <4>2, <4>3 DEF OffSoFar
    <3>3. CASE TaskStep
      <4>1. loop.op = "task" /\ Advance("idle")
        BY <3>3 DEF TaskStep
      <4>2. loop'.op # "zero"
        BY <1>1, <4>1, AdvanceOK
      <4>3. QED
        BY <4>2 DEF OffSoFar
    <3>4. CASE Task
      <4>1. loop'.op # "zero"
        BY <3>4 DEF Task, Idle, Start
      <4>2. QED
        BY <4>1 DEF OffSoFar
    <3>5. CASE Next /\ ~TaskStep /\ ~OffStep /\ ~Task
      <4>1. Idle /\ (UNCHANGED loop \/ \E op \in {"off", "suspend"} : Start(op))
        BY <1>5, <3>5, IdleStarts
      <4>2. loop'.op # "zero"
        BY <4>1 DEF Idle, Start
      <4>3. QED
        BY <4>2 DEF OffSoFar
    <3>6. QED
      BY <3>1, <3>2, <3>3, <3>4, <3>5
  <2>2. ASSUME suspended, NEW x \in Ports PROVE Off(x)'
    <3>1. Off(x)
      BY <1>2, <2>2
    <3>2. CASE PortStep
      <4>p. PICK p \in Ports : \E y : Form(p, y)
        BY <3>2, StepForm
      <4>1. PICK z : p \in Ports /\ Form(p, z)
        BY <4>p
      <4>2. port' = [port EXCEPT ![p] = z] /\ UNCHANGED groupVars /\ z.out = port[p].out
        BY <2>2, <4>1 DEF Form
      <4>3. port'[x].out = port[x].out /\ UNCHANGED group
        BY <4>2 DEF groupVars, Sound, TypeOK
      <4>4. QED
        BY <3>1, <4>3, OffKept
    <3>3. CASE Rest \/ UNCHANGED vars
      <4>1. UNCHANGED <<port, group>>
        BY <3>3 DEF Rest, AllOff, UsbChange, NightChange, Suspend, Resume, Task, vars
      <4>2. QED
        BY <3>1, <4>1, OffKept
    <3>4. CASE Tick
      <4>1. port'[x].out = port[x].out
        <5>1. port[x] \in PortType
          BY DEF Sound, TypeOK
        <5>2. port'[x] = [port[x] EXCEPT !.cutoff = Down(@), !.cool = Down(@)]
          BY <3>4 DEF Tick
        <5>3. QED
          BY <5>1, <5>2 DEF PortType
      <4>2. ASSUME NEW v \in GroupPorts
            PROVE  group'[v].port = group[v].port /\ group'[v].off = group[v].off
        <5>1. group'[v] = [group[v] EXCEPT !.left = Down(@)] /\ group[v] \in GroupType
          BY <3>4 DEF Tick, Sound, TypeOK, GroupType
        <5>2. QED
          BY <5>1 DEF GroupType
      <4>3. QED
        BY <3>1, <4>1, <4>2, OffKept
    <3>5. QED
      BY <3>2, <3>3, <3>4 DEF Next, PortStep, Rest
  <2>3. suspended' => suspended
    <3>1. CASE PortStep
      BY <1>5, <3>1 DEF PortStep, Set, SetSBA, SetPBA, OffStep, TaskStep
    <3>2. CASE Rest \/ Tick \/ UNCHANGED vars
      BY <3>2 DEF Rest, AllOff, UsbChange, NightChange, Suspend, Resume, Task, Tick, vars
    <3>3. QED
      BY <3>1, <3>2 DEF Next, PortStep, Rest
  <2>4. QED
    BY <1>3, <2>1, <2>2, <2>3
<1>6. QED
  BY <1>4, <1>5

\* As long as the outputs are suspended every port is off, whatever the host sends,
\* but for the pulses that the suspension itself has started in a share group.
THEOREM SuspensionIsDark == Spec => []SuspendedIsOff
<1>1. Init => OffSoFar /\ SuspendedIsOff
  BY DEF Init, OffSoFar, SuspendedIsOff
<1>2. Sound /\ Awake /\ PoolIsSet /\ OffSoFar /\ SuspendedIsOff /\ [Next]_vars
        => OffSoFar' /\ SuspendedIsOff'
  BY SuspendedStep
<1>3. QED
  BY <1>1, <1>2, Steady, PTL DEF Spec

(* The pulses of the share group. *)

PulseOK(v) ==
  OnTime[v] # 0 /\ group[v].port # None =>
    IF group[v].left > 0
    THEN heldFor[v] + group[v].left <= Duration(v) + 1
    ELSE ~suspended => heldFor[v] <= Duration(v) + Wait(v) \/ sinceResume <= Wait(v)

\* The numbers of a virtual port.
LEMMA PulseFields ==
  ASSUME Sound, NEW v \in GroupPorts
  PROVE  /\ group[v] \in GroupType /\ group[v].left \in Nat /\ Duration(v) \in Nat
         /\ heldFor[v] \in 0..Horizon /\ Wait(v) \in Nat /\ Wait(v) <= LoopTime
         /\ sinceTask \in 0..LoopTime /\ sinceResume \in 0..Horizon /\ Horizon \in Nat
         /\ LoopTime \in Nat
<1>1. OnTime[v] \in Nat /\ OffTime[v] \in Nat
  BY SetsOK
<1>2. group[v] \in GroupType /\ heldFor[v] \in 0..Horizon /\ sinceTask \in 0..LoopTime
      /\ sinceResume \in 0..Horizon
  BY DEF Sound, TypeOK, GroupType
<1>3. Horizon \in Nat /\ LoopTime \in Nat
  BY LoopOK
<1>4. Duration(v) \in Nat
  BY <1>1 DEF Duration
<1>5. Wait(v) \in Nat /\ Wait(v) <= LoopTime
  BY <1>2, <1>3 DEF Wait
<1>6. QED
  BY <1>2, <1>3, <1>4, <1>5 DEF GroupType

\* Group port v passes a level on: a new pulse begins, or the old one goes on and
\* has time left.
LEMMA PulseMoves ==
  ASSUME Sound, NEW v \in GroupPorts, PulseOK(v), NEW z \in PortType, Moves(v, z), Note, Sound'
  PROVE  PulseOK(v)'
<1>1. PICK i \in DOMAIN Pool, after \in GroupType, q \in PoolPorts \cup {None}, level \in Nat :
        GroupStep(v, z, i, after, q, level)
  BY DEF Moves
<1>2. /\ group[v] \in GroupType /\ z.out \in Nat /\ NextPort(i) \in PoolPorts \cup {None}
      /\ after = GroupSet(v, z.out, NextPort(i)) /\ group'[v] = after
  BY <1>1, SetsOK DEF Sound, TypeOK, GroupType, PortType, NextPort, GroupStep
<1> SUFFICES ASSUME OnTime[v] # 0, after.port # None
             PROVE  after.left > 0 /\ heldFor'[v] + after.left <= Duration(v)' + 1
  BY <1>2 DEF PulseOK
<1>3. /\ after.level = z.out /\ after.left > 0
      /\ \/ /\ after.left = group[v].left /\ after.off = group[v].off
            /\ after.port = group[v].port
         \/ z.out # group[v].level
            /\ after.left = (IF after.off # 0 THEN OffTime[v] ELSE OnTime[v]) + 1
  BY <1>2, GroupMoves
<1>4. Duration(v)' = IF after.off # 0 THEN OffTime[v] ELSE OnTime[v]
  BY <1>2 DEF Duration
<1>5. heldFor'[v] = IF after.port = group[v].port /\ after.level = group[v].level
                    THEN heldFor[v] ELSE 0
  BY <1>2 DEF Note
<1>6. /\ Duration(v) \in Nat /\ heldFor[v] \in Nat /\ Duration(v)' \in Nat /\ heldFor'[v] \in Nat
      /\ after.left \in Nat
  BY <1>2, <1>4, <1>5, PulseFields, SetsOK DEF GroupType
<1>7. CASE after.left = group[v].left /\ after.off = group[v].off /\ after.port = group[v].port
  <2>1. Duration(v)' = Duration(v)
    BY <1>4, <1>7 DEF Duration
  <2>2. heldFor[v] + group[v].left <= Duration(v) + 1
    BY <1>3, <1>7 DEF PulseOK
  <2>3. heldFor'[v] <= heldFor[v]
    BY <1>5, <1>6
  <2>4. QED
    BY <1>3, <1>6, <1>7, <2>1, <2>2, <2>3
<1>8. CASE z.out # group[v].level
           /\ after.left = (IF after.off # 0 THEN OffTime[v] ELSE OnTime[v]) + 1
  BY <1>3, <1>4, <1>5, <1>6, <1>8
<1>9. QED
  BY <1>3, <1>7, <1>8

\* Every step keeps the pulse of a virtual port in time.
LEMMA PulseStep ==
  ASSUME Sound, Awake, PoolIsSet, NEW v \in GroupPorts, PulseOK(v), [Next]_vars
  PROVE  PulseOK(v)'
<1>0. Sound'
  BY SoundStep
<1>1. /\ group[v] \in GroupType /\ group[v].left \in Nat /\ Duration(v) \in Nat
      /\ heldFor[v] \in 0..Horizon /\ Wait(v) \in Nat /\ Wait(v) <= LoopTime
      /\ sinceTask \in 0..LoopTime /\ sinceResume \in 0..Horizon /\ Horizon \in Nat
      /\ LoopTime \in Nat
  BY PulseFields
<1>2. Wait(v)' \in Nat
  <2>1. sinceTask' \in 0..LoopTime /\ LoopTime \in Nat
    BY <1>0, LoopOK DEF Sound, TypeOK
  <2>2. QED
    BY <2>1 DEF Wait
\* The port is kept, time stands still and the wait is no shorter.
<1>3. ASSUME group'[v] = group[v], heldFor'[v] <= heldFor[v], heldFor'[v] \in Nat,
             sinceResume' = sinceResume, ~suspended' => ~suspended,
             Wait(v)' >= Wait(v) \/ group[v].left > 0
      PROVE  PulseOK(v)'
  <2>1. Duration(v)' = Duration(v)
    BY <1>3 DEF Duration
  <2>2. QED
    BY <1>1, <1>2, <1>3, <2>1 DEF PulseOK
<1>4. CASE PortStep
  <2>1. Note /\ UNCHANGED <<sinceTask, sinceResume>>
        /\ (suspended' = suspended \/ loop.op = "zero")
        /\ (loop.op # "task" => loop'.op # "task")
    BY <1>4, PortStepOK
  <2>2. ~suspended' => ~suspended
    BY <2>1 DEF Awake
  <2>p. \E p \in Ports : \E z :
          /\ Form(p, z)
          /\ Waiting(v) /\ ~Waiting(v)' => p = v /\ Moves(v, z)
    <3>1. CASE Waiting(v) /\ ~Waiting(v)'
      <4>1. TaskStep /\ v = Current
        BY <1>4, <3>1, TurnOver
      <4>2. PICK z : Form(v, z) /\ Passed(v, z)
        BY <4>1, TaskForm
      <4>3. ~suspended /\ z \in PortType /\ PortsOK /\ v \in Ports
        BY <4>1, <4>2, SoundPorts, SetsOK DEF TaskStep, Awake, Form
      <4>4. \E i \in DOMAIN Pool, after \in GroupType, q \in PoolPorts \cup {None}, level \in Nat :
              GroupStep(v, z, i, after, q, level)
        BY <4>2, <4>3, GroupPassed
      <4>5. Moves(v, z)
        BY <4>3, <4>4 DEF Moves
      <4>6. QED
        BY <4>2, <4>3, <4>5
    <3>2. CASE ~(Waiting(v) /\ ~Waiting(v)')
      BY <1>4, <3>2, StepForm
    <3>3. QED
      BY <3>1, <3>2
  <2>q. PICK p \in Ports : \E z :
          /\ Form(p, z)
          /\ Waiting(v) /\ ~Waiting(v)' => p = v /\ Moves(v, z)
    BY <2>p
  <2>3. PICK z :
          /\ p \in Ports
          /\ Form(p, z)
          /\ Waiting(v) /\ ~Waiting(v)' => p = v /\ Moves(v, z)
    BY <2>q
  <2>4. CASE p = v /\ Moves(v, z)
    <3>1. z \in PortType
      BY <2>3 DEF Form
    <3>2. QED
      BY <1>0, <2>1, <2>4, <3>1, PulseMoves
  <2>5. CASE ~(p = v /\ Moves(v, z))
    <3>1. group'[v] = group[v]
      <4>1. CASE Plain(p, z)
        BY <4>1 DEF Plain, groupVars
      <4>2. CASE p \in GroupPorts /\ Moves(p, z)
        <5>1. PICK i \in DOMAIN Pool, after \in GroupType, q \in PoolPorts \cup {None},
                   level \in Nat :
                GroupStep(p, z, i, after, q, level)
          BY <4>2 DEF Moves
        <5>2. group' = [group EXCEPT ![p] = after] /\ p # v
              /\ group \in [GroupPorts -> GroupType]
          BY <2>5, <4>2, <5>1 DEF GroupStep, Sound, TypeOK, GroupType
        <5>3. QED
          BY <5>2
      <4>3. QED
        BY <2>3, <4>1, <4>2, FormMoves
    <3>2. heldFor'[v] <= heldFor[v] /\ heldFor'[v] \in Nat
      BY <1>1, <2>1 DEF Note
    <3>3. Wait(v)' >= Wait(v)
      <4>1. Waiting(v) => Waiting(v)'
        BY <2>3, <2>5
      <4>2. QED
        BY <1>1, <2>1, <4>1 DEF Wait
    <3>4. QED
      BY <1>3, <2>1, <2>2, <3>1, <3>2, <3>3
  <2>6. QED
    BY <2>4, <2>5
<1>5. CASE Rest
  <2>1. UNCHANGED <<group, heldFor>>
    BY <1>5 DEF Rest, AllOff, UsbChange, NightChange, Suspend, Resume, Task
  <2>2. CASE suspended
    <3>1. suspended' \/ sinceResume' = 0
      BY <1>5, <2>2 DEF Rest, AllOff, UsbChange, NightChange, Suspend, Resume, Task
    <3>2. sinceResume' = 0 => sinceResume' <= Wait(v)'
      BY <1>2
    <3>3. Duration(v)' = Duration(v)
      BY <2>1 DEF Duration
    <3>4. QED
      BY <2>1, <3>1, <3>2, <3>3 DEF PulseOK
  <2>3. CASE ~suspended
    <3>1. CASE Task
      <4>1. loop' = [op |-> "task", at |-> 1] /\ UNCHANGED <<suspended, sinceResume>>
        BY <2>3, <3>1 DEF Task, Start
      <4>2. Waiting(v)'
        BY <4>1, LoopOK, SetsOK DEF Waiting
      <4>3. Wait(v)' >= Wait(v)
        BY <1>1, <4>2 DEF Wait
      <4>4. QED
        BY <1>1, <1>3, <2>1, <4>1, <4>3
    <3>2. CASE ~Task
      <4>1. UNCHANGED <<sinceTask, sinceResume>> /\ ~Waiting(v) /\ ~Waiting(v)'
        BY <1>5, <2>3, <3>2 DEF Rest, AllOff, UsbChange, NightChange, Suspend, Resume,
                                Waiting, Idle, Start
      <4>2. Wait(v)' = Wait(v)
        BY <4>1 DEF Wait
      <4>3. QED
        BY <1>1, <1>3, <2>1, <2>3, <4>1, <4>2
    <3>3. QED
      BY <3>1, <3>2
  <2>4. QED
    BY <2>2, <2>3
<1>6. CASE Tick
  <2>1. /\ group'[v] = [group[v] EXCEPT !.left = Down(@)]
        /\ heldFor'[v] = IF group[v].port = None THEN 0 ELSE Up(heldFor[v])
        /\ sinceTask' = sinceTask + 1 /\ sinceResume' = Up(sinceResume)
        /\ suspended' = suspended /\ ~Waiting(v) /\ ~Waiting(v)'
    BY <1>6 DEF Tick, Waiting, Idle
  <2>2. /\ group'[v].port = group[v].port /\ group'[v].off = group[v].off
        /\ group'[v].left = Down(group[v].left)
    BY <1>1, <2>1 DEF GroupType
  <2>3. Duration(v)' = Duration(v)
    BY <2>2 DEF Duration
  <2>4. Wait(v) = sinceTask /\ Wait(v)' = sinceTask + 1
    BY <2>1 DEF Wait
  <2>5. /\ group[v].port # None => heldFor'[v] <= heldFor[v] + 1 /\ heldFor'[v] \in Nat
        /\ sinceResume' <= sinceResume + 1 /\ sinceResume' \in Nat
    BY <1>1, <2>1, CountOK
  <2> SUFFICES ASSUME OnTime[v] # 0, group[v].port # None
               PROVE  IF Down(group[v].left) > 0
                      THEN heldFor'[v] + Down(group[v].left) <= Duration(v) + 1
                      ELSE ~suspended => \/ heldFor'[v] <= Duration(v) + (sinceTask + 1)
                                         \/ sinceResume' <= sinceTask + 1
    BY <2>1, <2>2, <2>3, <2>4 DEF PulseOK
  <2>6. CASE group[v].left > 0
    <3>1. heldFor[v] + group[v].left <= Duration(v) + 1 /\ Down(group[v].left) = group[v].left - 1
      BY <1>1, <2>6 DEF PulseOK, Down
    <3>2. heldFor'[v] + Down(group[v].left) <= Duration(v) + 1
      BY <1>1, <2>5, <3>1
    <3>3. heldFor'[v] <= Duration(v) + (sinceTask + 1)
      BY <1>1, <2>5, <2>6, <3>1
    <3>4. QED
      BY <3>2, <3>3
  <2>7. CASE ~(group[v].left > 0)
    <3>1. ~suspended => heldFor[v] <= Duration(v) + sinceTask \/ sinceResume <= sinceTask
      BY <2>4, <2>7 DEF PulseOK
    <3>2. Down(group[v].left) = 0
      BY <1>1, <2>7 DEF Down
    <3>3. QED
      BY <1>1, <2>5, <3>1, <3>2
  <2>8. QED
    BY <2>6, <2>7
<1>7. CASE UNCHANGED vars
  BY <1>7 DEF vars, PulseOK, Duration, Wait, Waiting
<1>8. QED
  BY <1>4, <1>5, <1>6, <1>7 DEF Next, PortStep, Rest

\* A group port in pulse mode lets its port of the pool go in time: it holds it for
\* its pulse and one turn of the main loop, except after a suspension.
THEOREM PulsesEnd == Spec => []PulseEnds
<1>1. Init => \A v \in GroupPorts : PulseOK(v)
  BY DEF Init, PulseOK
<1>2. Sound /\ Awake /\ PoolIsSet /\ (\A v \in GroupPorts : PulseOK(v)) /\ [Next]_vars
        => (\A v \in GroupPorts : PulseOK(v))'
  BY PulseStep
<1>3. Sound /\ (\A v \in GroupPorts : PulseOK(v)) => PulseEnds
  <2> SUFFICES ASSUME Sound, NEW v \in GroupPorts, PulseOK(v),
                      OnTime[v] # 0, group[v].port # None, ~suspended
               PROVE  heldFor[v] <= Duration(v) + LoopTime \/ sinceResume <= LoopTime
    BY DEF PulseEnds, Duration
  <2>1. QED
    BY PulseFields DEF PulseOK
<1>4. QED
  BY <1>1, <1>2, <1>3, Steady, PTL DEF Spec
=============================================================================
