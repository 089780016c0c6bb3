---------------------------- MODULE MCIRTransmit ----------------------------
(* A buffer for two commands; repeats are counted modulo 5.  The host's commands *)
(* are of a protocol that sends a code in pairs and of an unknown one, the       *)
(* button's of one that closes a sequence, TV-ON's of one that counts.           *)
EXTENDS IRTransmit

MCPaired == [known |-> TRUE, count |-> 3, follows |-> FALSE, phases |-> "paired"]
MCClosed == [known |-> TRUE, count |-> 2, follows |-> FALSE, phases |-> "closed"]
MCUnknown == [known |-> FALSE, count |-> 1, follows |-> FALSE, phases |-> "counted"]

MCCommands == {MCPaired, MCClosed, MCUnknown}
MCHeld == [known |-> TRUE, count |-> 1, follows |-> TRUE, phases |-> "closed"]
MCTVCommand == [known |-> TRUE, count |-> 1, follows |-> FALSE, phases |-> "counted"]
=============================================================================
