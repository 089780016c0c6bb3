------------------------------ MODULE MCOutputs ------------------------------
(* A solenoid in a share group, used by a pulsed and by a continuous group
   port; the second one has a data source. *)
EXTENDS Outputs

CONSTANTS pool, pulsed, computed

MCPorts == {pool, pulsed, computed}
MCPool == <<pool>>
MCGroupPorts == {pulsed, computed}
MCComputed == {computed}
MCNoisy == {pool}
MCTimeLimit == [p \in MCPorts |-> IF p = pool THEN 1 ELSE 0]
MCCoolingTime == [p \in MCPorts |-> IF p = pool THEN 2 ELSE 0]
MCPowerLimit == [p \in MCPorts |-> IF p = pool THEN 1 ELSE 2]
MCOnTime == [v \in MCGroupPorts |-> IF v = pulsed THEN 1 ELSE 0]
MCOffTime == [v \in MCGroupPorts |-> IF v = pulsed THEN 1 ELSE 0]
MCDofPorts == {pulsed}
PoolFirst == <<pool, pulsed, computed>>
=============================================================================
