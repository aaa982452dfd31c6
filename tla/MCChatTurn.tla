----------------------------- MODULE MCChatTurn -----------------------------
(* ChatTurn with two requests, of one turn or of two, and two reconcilers. *)
EXTENDS ChatTurn

CONSTANTS w1, w2

NoQuota == [g \in {} |-> 0]

MCFaultSets == {{"twoLeaders"}, {"crash", "workerDies"}, {"controlDown", "noReceipt"},
                {"noUsage", "ledgerDown", "lostReply"}}
=============================================================================
