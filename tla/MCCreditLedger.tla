--------------------------- MODULE MCCreditLedger ---------------------------
(* CreditLedger on one account with a few small holds.                     *)
EXTENDS CreditLedger, TLC

CONSTANTS h1, h2, h3, g1, g2

MCIncluded == [g \in Grants |-> IF g = g1 THEN 4 ELSE 3]

\* Usages needing 1, 2 and 4 credits; the second also pays Alia's own prompt.
MCUsages == {[total |-> 0, system |-> 0], [total |-> 30, system |-> 12],
             [total |-> 35, system |-> 0]}
MCFewUsages == {[total |-> 8, system |-> 0], [total |-> 35, system |-> 0]}

HoldSymmetry == Permutations(Holds)
=============================================================================
