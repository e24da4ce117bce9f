----------------------------- MODULE MCDataDir -----------------------------
(***************************************************************************)
(* Instances of DataDir for TLC.                                          *)
(***************************************************************************)
EXTENDS DataDir, TLC

Symmetric == Permutations(Runs) \cup Permutations(Txns) \cup Permutations(Passes)
=============================================================================
