---------------------------- MODULE MCFlashFile ----------------------------
(***************************************************************************)
(* Instances of FlashFile for TLC.                                         *)
(***************************************************************************)
EXTENDS FlashFile, TLC

\* the contents are interchangeable
VersionSymmetry == Permutations(Versions)
=============================================================================
