----------------------------- MODULE SettleOnce -----------------------------
(***************************************************************************)
(* What a credit hold promises, whoever carries it: credits taken from an  *)
(* account are afterwards either charged or given back, once, and never    *)
(* both.  The components that hold credits are shown to implement it.      *)
(***************************************************************************)
CONSTANT Holds

VARIABLE outcome   \* what became of each hold

Outcomes == {"none", "held", "charged", "returned"}

SettleInit == outcome = [h \in Holds |-> "none"]

Take(h) ==
    /\ outcome[h] = "none"
    /\ outcome' = [outcome EXCEPT ![h] = "held"]

Charge(h) ==
    /\ outcome[h] = "held"
    /\ outcome' = [outcome EXCEPT ![h] = "charged"]

GiveBack(h) ==
    /\ outcome[h] = "held"
    /\ outcome' = [outcome EXCEPT ![h] = "returned"]

SettleNext == \E h \in Holds : Take(h) \/ Charge(h) \/ GiveBack(h)

SettleSpec == SettleInit /\ [][SettleNext]_outcome
=============================================================================
