------------------------------ MODULE MCTailer ------------------------------
(***************************************************************************)
(* Instances of Tailer for TLC.                                            *)
(***************************************************************************)
EXTENDS Tailer, TLC

CONSTANTS a, b

SymmetricChars == Permutations(Char)
=============================================================================
