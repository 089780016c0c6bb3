-------------------------- MODULE MCConfigTransfer --------------------------
(***************************************************************************)
(* Two configuration files; texts of up to two pages that share their      *)
(* first page, so that a repeated page and a page of another text can be   *)
(* taken for each other.                                                   *)
(***************************************************************************)
EXTENDS ConfigTransfer

MCFiles == {"config.json", "safemode.json"}
MCTexts == [f \in MCFiles |-> IF f = "config.json" THEN {<<"a">>, <<"a", "b">>, <<"c", "d">>}
                              ELSE {<<>>, <<"a", "e">>}]
=============================================================================
