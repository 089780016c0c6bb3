------------------------------- MODULE Outputs -------------------------------
(****************************************************************************)
(* The output manager (Firmware/Outputs.cpp): what level reaches the device *)
(* of a port when the host, the LedWiz emulation, computed sources, Night   *)
(* Mode, the flipper logic's timers, share groups and a suspension all have *)
(* a say.                                                                   *)
(*                                                                          *)
(* A group port is a port whose device is a ShareGroupDev: when it goes on  *)
(* it claims a physical port from a pool, for as long as it is on or, in    *)
(* pulse mode, for a pulse at each of its edges.                            *)
(*                                                                          *)
(* All of it runs in the main loop.  A loop over the ports is taken one     *)
(* port per step, because a group port reaches into other ports; time stands *)
(* still in such a loop.  A point in time that the code stores is modelled   *)
(* by the time that is left until then.  The unit of time is arbitrary.      *)
(****************************************************************************)
EXTENDS Integers, Sequences, FiniteSets

CONSTANTS
  Ports,         \* the logical ports
  PortList,      \* their order in the configuration
  GroupPorts,    \* the ports that have a ShareGroupDev as their device
  Pool,          \* the ports of the share group, a sequence
  Computed,      \* the ports with a data source
  AlwaysComputed,\* those with enableSourceDuringSuspend
  Noisy,         \* the ports that Night Mode silences
  TimeLimit, CoolingTime, PowerLimit,   \* flipper logic, for each port
  OnTime, OffTime,                      \* pulse mode, for each group port
  Levels,        \* the levels that commands and sources use
  Timeouts,      \* the time limits of a suspension, 0 for none
  DofPorts, LedWizPorts,   \* bound: the ports that the host sets either way
  DofLevels, Profiles,     \* bound: the levels and LedWiz profiles it uses
  LoopTime,      \* the longest time from one call of Task to the next
  Horizon,       \* bound: ages are counted up to here
  None, Forever

Wave == -1   \* any of the profiles that vary with time
LedWiz == [mode : BOOLEAN, on : BOOLEAN, profile : Levels \cup {Wave}]

PoolPorts == {Pool[i] : i \in DOMAIN Pool}

\* The pool holds physical ports without a source of their own, and a time
\* limit is set where it belongs, at the physical port.
OutputsAssumption ==
  /\ PortList \in Seq(Ports) /\ Ports = {PortList[i] : i \in DOMAIN PortList}
  /\ PortList # << >>
  /\ GroupPorts \cup Computed \cup Noisy \cup DofPorts \cup LedWizPorts \subseteq Ports
  /\ Pool \in Seq(Ports) /\ Pool # << >>
  /\ PoolPorts \cap (GroupPorts \cup Computed \cup DofPorts \cup LedWizPorts) = {}
  /\ TimeLimit \in [Ports -> Nat] /\ CoolingTime \in [Ports -> Nat]
  /\ PowerLimit \in [Ports -> Nat]
  /\ \A v \in GroupPorts : TimeLimit[v] = 0 /\ CoolingTime[v] = 0
  /\ OnTime \in [GroupPorts -> Nat] /\ OffTime \in [GroupPorts -> Nat]
  /\ DofLevels \subseteq Levels /\ Profiles \subseteq Levels \cup {Wave}
  /\ Levels \subseteq Nat /\ 0 \in Levels /\ Timeouts \subseteq Nat
  /\ LoopTime \in Nat /\ Horizon \in Nat
  /\ \A p \in Ports : TimeLimit[p] + LoopTime < Horizon /\ CoolingTime[p] <= Horizon
  /\ \A v \in GroupPorts : OnTime[v] + LoopTime < Horizon /\ OffTime[v] + LoopTime < Horizon
  /\ None \notin Ports /\ Forever \notin Nat
ASSUME OutputsAssumption

VARIABLES
  port,        \* port[p]: the Port object; out is what its device was told
  group,       \* group[v]: the ShareGroupDev of v
  claimant,    \* claimant[q]: the group port that holds pool port q
  claimIdx,    \* the position in the pool of the port claimed last
  suspended, suspendLeft,
  night,       \* Night Mode
  usb,         \* connected and not suspended
  loop,        \* the loop over the ports that is under way, and its position
  sinceTask,   \* the time since the last call of Task
  sinceResume, \* the time since the last suspension ended
  hotFor,      \* hotFor[p]: for how long p has been over its power limit
  coolFor,     \* coolFor[p]: for how long it has not
  heldFor      \* heldFor[v]: for how long v has held its port at this level

groupVars == <<group, claimant, claimIdx>>
ghosts == <<hotFor, coolFor, heldFor>>
vars == <<port, group, claimant, claimIdx, suspended, suspendLeft, night, usb,
          loop, sinceTask, sinceResume, hotFor, coolFor, heldFor>>


-----------------------------------------------------------------------------
(* One port: the flipper logic and what is applied to the device *)

Hot(p, r) == r.out > PowerLimit[p]

D_ApplyLoud(p, r) ==
  LET attenuate == r.state = "Triggered" \/ r.cool > 0
      out == IF r.log > PowerLimit[p] /\ attenuate THEN PowerLimit[p] ELSE r.log
  IN [r EXCEPT !.cool = IF out <= PowerLimit[p] /\ Hot(p, r) THEN CoolingTime[p] ELSE @,
               !.out = out]

D_Apply(p, r) ==
  LET want == IF p \in Noisy /\ night THEN 0 ELSE r.log
      attenuate == r.state = "Triggered"
      out == IF want > PowerLimit[p] /\ attenuate THEN PowerLimit[p] ELSE want
  IN [r EXCEPT !.cool = IF out <= PowerLimit[p] /\ Hot(p, r) THEN CoolingTime[p] ELSE @,
               !.out = out]

\* Port::Apply
Apply(p, r) ==
  LET want == IF p \in Noisy /\ night THEN 0 ELSE r.log
      attenuate == r.state = "Triggered" \/ r.cool > 0
      out == IF want > PowerLimit[p] /\ attenuate THEN PowerLimit[p] ELSE want
  IN [r EXCEPT !.cool = IF out <= PowerLimit[p] /\ Hot(p, r) THEN CoolingTime[p] ELSE @,
               !.out = out]

D_Rearmed(p, r, level) ==
  CASE r.state # "Triggered" /\ level > PowerLimit[p] ->
         [r EXCEPT !.state = "Armed", !.cutoff = TimeLimit[p]]
    [] r.state # "Ready" /\ level = 0 ->
         [r EXCEPT !.state = "Ready", !.cool = CoolingTime[p]]
    [] OTHER -> r

\* the flipper logic's part of SetLogicalLevel
Rearmed(p, r, level) ==
  CASE r.state = "Ready" /\ level > PowerLimit[p] ->
         [r EXCEPT !.state = "Armed", !.cutoff = TimeLimit[p]]
    [] r.state # "Ready" /\ level = 0 ->
         [r EXCEPT !.state = "Ready", !.cool = CoolingTime[p]]
    [] OTHER -> r

\* Port::SetLogicalLevel
SetLogicalLevel(p, r, level) ==
  Apply(p, [(IF TimeLimit[p] # 0 THEN Rearmed(p, r, level) ELSE r) EXCEPT !.log = level])

\* LedWizState::GetLiveLogLevel; a waveform may be anywhere in its period
LiveLevels(lw) ==
  IF ~(lw.mode /\ lw.on) THEN {0}
  ELSE IF lw.profile = Wave THEN Levels ELSE {lw.profile}

\* Port::Task up to its last call of Apply: the level of the source or the
\* LedWiz state is set again, then the timer is checked
Refreshed(p, r) ==
  IF p \in Computed
  THEN {SetLogicalLevel(p, r, l) : l \in IF usb \/ p \in AlwaysComputed THEN Levels ELSE {0}}
  ELSE IF r.lw.mode
  THEN {SetLogicalLevel(p, r, l) : l \in LiveLevels(r.lw)}
  ELSE {r}

Triggered(r) ==
  IF r.state = "Armed" /\ r.cutoff = 0 THEN [r EXCEPT !.state = "Triggered"] ELSE r

-----------------------------------------------------------------------------
(* Share groups *)

\* ClaimPort: the next port of the pool, in cyclic order, that no one holds
\* (a set with one element, or none)
Free == {i \in DOMAIN Pool : claimant[Pool[i]] = None}

NextFree ==
  LET distance(i) == (i - claimIdx - 1) % Len(Pool)
  IN {i \in Free : \A j \in Free : distance(i) <= distance(j)}

\* ShareGroupDev::Set, the part that looks at the edge.  The result is the
\* new state of the group device: which port it holds now, and its pulse.
RisingEdge(v, g, next) ==
  LET held == IF g.port # None THEN g.port ELSE next
      pulse == held # None /\ OnTime[v] # 0
  IN [g EXCEPT !.port = held, !.off = 0,
               !.onPort = IF pulse THEN held ELSE None,
               !.left = IF pulse THEN OnTime[v] + 1 ELSE 0]

D_FallingEdge(v, g) ==
  IF g.port # None THEN [g EXCEPT !.port = None]
  ELSE IF OnTime[v] # 0 /\ OffTime[v] # 0 /\ g.onPort # None
  THEN [g EXCEPT !.onPort = None, !.port = g.onPort,
                 !.left = OffTime[v] + 1, !.off = g.level]
  ELSE g

FallingEdge(v, g) ==
  IF g.port # None THEN [g EXCEPT !.port = None]
  ELSE IF OnTime[v] # 0 /\ OffTime[v] # 0 /\ g.onPort # None
  THEN IF claimant[g.onPort] = None
       THEN [g EXCEPT !.onPort = None, !.port = g.onPort,
                      !.left = OffTime[v] + 1, !.off = g.level]
       ELSE [g EXCEPT !.onPort = None]
  ELSE g

D_PulseOver(v, g) == g.port # None /\ OnTime[v] # 0 /\ g.off # 0 /\ g.left = 0

\* the pulse lasts until the clock is past its end, hence one unit more
PulseOver(v, g) == g.port # None /\ OnTime[v] # 0 /\ g.left = 0

\* ShareGroupDev::Set as a whole; next is what ClaimPort would return
GroupSet(v, level, next) ==
  LET g == group[v]
      edge == CASE g.level = 0 /\ level # 0 -> RisingEdge(v, g, next)
                [] g.level # 0 /\ level = 0 -> FallingEdge(v, g)
                [] OTHER -> g
      set == [edge EXCEPT !.level = level]
  IN IF PulseOver(v, set) THEN [set EXCEPT !.port = None, !.off = 0] ELSE set

\* Port::SetShareGroupLevel
SetShareGroupLevel(q, r, level) ==
  LET s == [r EXCEPT !.dof = level, !.lw.mode = FALSE]
  IN IF suspended THEN s ELSE SetLogicalLevel(q, s, level)

\* Port p has become r and passes its level on to its device.  The device of a
\* group port sets at most one port of the pool: the one it lets go, to 0, or
\* the one it holds, to its level or that of the pulse at the falling edge.
Passed(p, r) ==
  IF p \in GroupPorts
  THEN \E i \in IF Free = {} THEN {claimIdx} ELSE NextFree :
         LET before == group[p]
             after == GroupSet(p, r.out, IF Free = {} THEN None ELSE Pool[i])
             q == IF after.port # None THEN after.port ELSE before.port
             level == IF after.port = None THEN 0
                      ELSE IF after.off # 0 THEN after.off ELSE r.out
             claims == before.port = None /\ after.port # None /\ after.off = 0
         IN /\ group' = [group EXCEPT ![p] = after]
            /\ claimIdx' = IF claims THEN i ELSE claimIdx
            /\ claimant' = [x \in PoolPorts |->
                              IF x # q THEN claimant[x]
                              ELSE IF after.port = None THEN None ELSE p]
            /\ port' = [x \in Ports |->
                          IF x = p THEN r
                          ELSE IF x = q THEN SetShareGroupLevel(q, port[q], level)
                          ELSE port[x]]
  ELSE port' = [port EXCEPT ![p] = r] /\ UNCHANGED groupVars

\* what the ghosts note when levels change
Note ==
  /\ hotFor' = [p \in Ports |->
       IF Hot(p, port[p]) /\ Hot(p, port'[p]) THEN hotFor[p] ELSE 0]
  /\ coolFor' = [p \in Ports |-> IF Hot(p, port[p]) THEN 0 ELSE coolFor[p]]
  /\ heldFor' = [v \in GroupPorts |->
       IF group'[v].port # None /\ group'[v].port = group[v].port
            /\ group'[v].level = group[v].level THEN heldFor[v] ELSE 0]

-----------------------------------------------------------------------------
(* The host and its commands, between two calls of Task *)

Idle == loop.op = "idle"

\* Port::SetDOFLevel
SetDOFLevel(p, level) ==
  LET s == [port[p] EXCEPT !.dof = level, !.lw.mode = FALSE]
  IN IF p \in PoolPorts THEN UNCHANGED <<port, group, claimant, claimIdx>>
     ELSE IF p \notin Computed /\ ~suspended
     THEN Passed(p, SetLogicalLevel(p, s, level))
     ELSE port' = [port EXCEPT ![p] = s] /\ UNCHANGED groupVars

\* Port::SetLedWizSBA and SetLedWizPBA: the LedWiz state becomes lw
SetLedWiz(p, lw) ==
  LET s == [port[p] EXCEPT !.lw = lw]
  IN IF p \notin Computed /\ ~suspended
     THEN \E level \in LiveLevels(lw) : Passed(p, SetLogicalLevel(p, s, level))
     ELSE port' = [port EXCEPT ![p] = s] /\ UNCHANGED groupVars

Set(p, level) ==
  /\ Idle
  /\ SetDOFLevel(p, level) /\ Note
  /\ UNCHANGED <<suspended, suspendLeft, night, usb, loop, sinceTask, sinceResume>>

SetSBA(p, on) ==
  /\ Idle
  /\ SetLedWiz(p, [port[p].lw EXCEPT !.mode = TRUE, !.on = on]) /\ Note
  /\ UNCHANGED <<suspended, suspendLeft, night, usb, loop, sinceTask, sinceResume>>

SetPBA(p, profile) ==
  /\ Idle
  /\ SetLedWiz(p, [port[p].lw EXCEPT !.mode = TRUE, !.profile = profile]) /\ Note
  /\ UNCHANGED <<suspended, suspendLeft, night, usb, loop, sinceTask, sinceResume>>

Start(op) == loop' = [op |-> op, at |-> 1]

\* REQ_ALL_OFF, and the console's --all-off
AllOff ==
  /\ Idle /\ Start("off")
  /\ UNCHANGED <<port, group, claimant, claimIdx, suspended, suspendLeft, night, usb,
                 sinceTask, sinceResume, hotFor, coolFor, heldFor>>

\* OnDeviceStateChanged: without a connection all ports are set to 0
UsbChange ==
  /\ Idle /\ usb' = ~usb
  /\ IF usb THEN Start("off") ELSE UNCHANGED loop
  /\ UNCHANGED <<port, group, claimant, claimIdx, suspended, suspendLeft, night,
                 sinceTask, sinceResume, hotFor, coolFor, heldFor>>

NightChange ==
  /\ Idle /\ night' = ~night
  /\ UNCHANGED <<port, group, claimant, claimIdx, suspended, suspendLeft, usb,
                 loop, sinceTask, sinceResume, hotFor, coolFor, heldFor>>

\* Suspend: the two loops come first, unless it is an extension
Suspend(timeout) ==
  /\ Idle
  /\ suspendLeft' = IF timeout = 0 THEN Forever ELSE timeout
  /\ IF suspended THEN UNCHANGED loop ELSE Start("suspend")
  /\ UNCHANGED <<port, group, claimant, claimIdx, suspended, night, usb,
                 sinceTask, sinceResume, hotFor, coolFor, heldFor>>

Resume ==
  /\ Idle /\ suspended
  /\ suspended' = FALSE /\ sinceResume' = 0
  /\ UNCHANGED <<port, group, claimant, claimIdx, suspendLeft, night, usb,
                 loop, sinceTask, hotFor, coolFor, heldFor>>

-----------------------------------------------------------------------------
(* The loops over the ports *)

Current == PortList[loop.at]
Last == loop.at = Len(PortList)
Advance(next) ==
  loop' = IF Last THEN [op |-> next, at |-> 1] ELSE [loop EXCEPT !.at = @ + 1]

\* AllOff's loop, on its own or as the first half of Suspend
OffStep ==
  /\ loop.op \in {"off", "suspend"}
  /\ SetDOFLevel(Current, 0) /\ Note
  /\ Advance(IF loop.op = "off" THEN "idle" ELSE "zero")
  /\ UNCHANGED <<suspended, suspendLeft, night, usb, sinceTask, sinceResume>>

D_ZeroStep ==
  /\ loop.op = "zero"
  /\ UNCHANGED <<port, group, claimant, claimIdx>> /\ Note
  /\ Advance("idle") /\ suspended' = Last
  /\ UNCHANGED <<suspendLeft, night, usb, sinceTask, sinceResume>>

\* Suspend's second loop, SetLogicalLevel(0) and SetDeviceOff, and its end
ZeroStep ==
  /\ loop.op = "zero"
  /\ Passed(Current, SetLogicalLevel(Current, port[Current], 0)) /\ Note
  /\ Advance("idle") /\ suspended' = Last
  /\ UNCHANGED <<suspendLeft, night, usb, sinceTask, sinceResume>>

\* OutputManager::Task
Task ==
  /\ Idle /\ sinceTask' = 0
  /\ IF ~suspended
     THEN Start("task") /\ UNCHANGED <<suspended, sinceResume>>
     ELSE /\ UNCHANGED loop
          /\ IF suspendLeft = 0
             THEN suspended' = FALSE /\ sinceResume' = 0
             ELSE UNCHANGED <<suspended, sinceResume>>
  /\ UNCHANGED <<port, group, claimant, claimIdx, suspendLeft, night, usb,
                 hotFor, coolFor, heldFor>>

\* Port::Task
TaskStep ==
  /\ loop.op = "task"
  /\ \E r \in Refreshed(Current, port[Current]) :
       Passed(Current, Apply(Current, Triggered(r)))
  /\ Note /\ Advance("idle")
  /\ UNCHANGED <<suspended, suspendLeft, night, usb, sinceTask, sinceResume>>

Down(t) == IF t = 0 THEN 0 ELSE t - 1
Up(t) == IF t = Horizon THEN Horizon ELSE t + 1

\* Time goes on.  The main loop comes around in time; the watchdog sees to that.
Tick ==
  /\ Idle /\ sinceTask < LoopTime
  /\ port' = [p \in Ports |->
       [port[p] EXCEPT !.cutoff = Down(@), !.cool = Down(@)]]
  /\ group' = [v \in GroupPorts |-> [group[v] EXCEPT !.left = Down(@)]]
  /\ suspendLeft' = IF suspendLeft = Forever THEN Forever ELSE Down(suspendLeft)
  /\ sinceTask' = sinceTask + 1 /\ sinceResume' = Up(sinceResume)
  /\ hotFor' = [p \in Ports |-> IF Hot(p, port[p]) THEN Up(hotFor[p]) ELSE 0]
  /\ coolFor' = [p \in Ports |-> IF Hot(p, port[p]) THEN 0 ELSE Up(coolFor[p])]
  /\ heldFor' = [v \in GroupPorts |-> IF group[v].port = None THEN 0 ELSE Up(heldFor[v])]
  /\ UNCHANGED <<claimant, claimIdx, suspended, night, usb, loop>>

Init ==
  /\ port = [p \in Ports |->
       [dof |-> 0, lw |-> [mode |-> FALSE, on |-> FALSE, profile |-> 0], log |-> 0,
        state |-> "Ready", cutoff |-> 0, cool |-> 0, out |-> 0]]
  /\ group = [v \in GroupPorts |->
       [level |-> 0, port |-> None, onPort |-> None, left |-> 0, off |-> 0]]
  /\ claimant = [q \in PoolPorts |-> None] /\ claimIdx = 1
  /\ suspended = FALSE /\ suspendLeft = 0 /\ night = FALSE /\ usb = FALSE
  /\ loop = [op |-> "idle", at |-> 1]
  /\ sinceTask = 0 /\ sinceResume = Horizon
  /\ hotFor = [p \in Ports |-> 0] /\ coolFor = [p \in Ports |-> Horizon]
  /\ heldFor = [v \in GroupPorts |-> 0]

Next ==
  \/ \E p \in DofPorts, level \in DofLevels : Set(p, level)
  \/ \E p \in LedWizPorts, on \in BOOLEAN : SetSBA(p, on)
  \/ \E p \in LedWizPorts, profile \in Profiles : SetPBA(p, profile)
  \/ AllOff \/ UsbChange \/ NightChange
  \/ \E t \in Timeouts : Suspend(t)
  \/ Resume \/ OffStep \/ ZeroStep \/ Task \/ TaskStep \/ Tick

Spec == Init /\ [][Next]_vars

-----------------------------------------------------------------------------
(* Properties *)

PortType ==
  [dof : Nat, lw : LedWiz, log : Nat, state : {"Ready", "Armed", "Triggered"},
   cutoff : Nat, cool : Nat, out : Nat]

\* Every variable keeps to the values that its C++ type and the code give it.
TypeOK ==
  /\ port \in [Ports -> PortType]
  /\ group \in [GroupPorts -> [level : Nat, port : PoolPorts \cup {None},
                               onPort : PoolPorts \cup {None}, left : Nat, off : Nat]]
  /\ claimant \in [PoolPorts -> GroupPorts \cup {None}] /\ claimIdx \in DOMAIN Pool
  /\ suspended \in BOOLEAN /\ suspendLeft \in Nat \cup {Forever}
  /\ night \in BOOLEAN /\ usb \in BOOLEAN
  /\ loop \in [op : {"idle", "off", "suspend", "zero", "task"}, at : DOMAIN PortList]
  /\ sinceTask \in 0..LoopTime /\ sinceResume \in 0..Horizon
  /\ hotFor \in [Ports -> 0..Horizon] /\ coolFor \in [Ports -> 0..Horizon]
  /\ heldFor \in [GroupPorts -> 0..Horizon]

\* A port with a time limit does not stay above its power limit for longer than
\* the time limit and one turn of the main loop, whatever the host, the source,
\* Night Mode or a share group do with it (a suspension starts the count anew).
PowerLimited ==
  \A p \in Ports :
    TimeLimit[p] # 0 /\ Hot(p, port[p]) /\ ~suspended =>
      hotFor[p] <= TimeLimit[p] + LoopTime \/ sinceResume <= TimeLimit[p] + LoopTime

\* Between two activations above the power limit there is at least the
\* cooling-off time: "time that must elapse between high-power activations".
DutyLimited ==
  [][\A p \in Ports : ~Hot(p, port[p]) /\ Hot(p, port'[p]) =>
       coolFor[p] >= CoolingTime[p]]_vars

\* After a turn of the main loop in Night Mode no noisy port is on, whichever
\* group port has reached for it in that turn.
NightSilences ==
  [][loop.op = "task" /\ loop'.op = "idle" /\ night =>
       \A p \in Noisy : port'[p].out = 0]_vars

\* Two group ports never hold the same port: each knows of its claim if and only
\* if the port does, and a port of the pool that nobody holds is off.
ClaimsAgree ==
  \A q \in PoolPorts :
    /\ \A v \in GroupPorts : group[v].port = q <=> claimant[q] = v
    /\ claimant[q] = None => port[q].log = 0 /\ port[q].out = 0

\* A group port in pulse mode does not hog a port of the pool: it holds one no
\* longer than its pulse and one turn of the main loop.
PulseEnds ==
  \A v \in GroupPorts :
    OnTime[v] # 0 /\ group[v].port # None /\ ~suspended =>
      \/ heldFor[v] <= (IF group[v].off # 0 THEN OffTime[v] ELSE OnTime[v]) + LoopTime
      \/ sinceResume <= LoopTime

\* While the outputs are suspended every port is off, except for a port of the pool
\* on which the suspension has started the pulse of a falling edge.
SuspendedIsOff ==
  suspended => \A p \in Ports : port[p].out = 0 \/
                 \E v \in GroupPorts : group[v].port = p /\ group[v].off # 0
=============================================================================
