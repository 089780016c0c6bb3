-------------------------- MODULE MCFlashDirectory --------------------------
(***************************************************************************)
(* Instances of FlashDirectory for TLC.                                    *)
(***************************************************************************)
EXTENDS FlashDirectory, TLC

\* the files are interchangeable
NameSymmetry == Permutations(Names)
=============================================================================
