------------------------------ MODULE MCButtons ------------------------------
(* A shift button, wired to ground, and another one of each type. *)
EXTENDS Buttons

CONSTANTS modifier, other

MCList == <<modifier, other>>
MCTypes == {[b \in {modifier, other} |-> IF b = modifier THEN "shift" ELSE t] :
              t \in {"push", "toggle", "hold", "pulse"}}
MCPin == [b \in {modifier, other} |-> IF b = modifier THEN 1 ELSE 2]
MCOther == [b \in {modifier, other} |-> b = other]
MCOne == [level \in BOOLEAN |-> 1]
MCRising == [level \in BOOLEAN |-> IF level THEN 1 ELSE 0]
=============================================================================
