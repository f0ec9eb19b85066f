----------------------------- MODULE MCRemoting -----------------------------
(***************************************************************************)
(* RemotingCalls for TLC: the users are alike, as long as no liveness is   *)
(* checked.                                                                *)
(***************************************************************************)
EXTENDS RemotingCalls, TLC

Symmetry == Permutations(Users)
=============================================================================
