----------------------------- MODULE MCRestart ------------------------------
(***************************************************************************)
(* The normal configuration pulses the relay and sends two commands, the   *)
(* Safe Mode one switches it and sends none, Factory Mode has no sequencer:*)
(* a state that one leaves in the registers is restored by the other.      *)
(***************************************************************************)
EXTENDS Restart

MCSections == [m \in Modes |->
    CASE m = "Normal"   -> [present |-> TRUE, irs |-> 2, relay |-> "pulse"]
      [] m = "SafeMode" -> [present |-> TRUE, irs |-> 0, relay |-> "switch"]
      [] OTHER          -> Absent]
=============================================================================
