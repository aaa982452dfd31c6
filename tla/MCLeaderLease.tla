---------------------------- MODULE MCLeaderLease ----------------------------
(* LeaderLease on small instances. *)
EXTENDS LeaderLease, TLC

InstSymmetry == Permutations(Inst)
=============================================================================
