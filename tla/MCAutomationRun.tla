---------------------------- MODULE MCAutomationRun ----------------------------
(* AutomationRun on a small instance: the rarer events, in the pairs that meet. *)
EXTENDS AutomationRun

MCFaultSets == {{"crash", "saveFails", "agentGone"}, {"crash", "orphan", "lateRenewal"},
                {"crash", "cancel"}, {"crashReporting"}, {"lostReply", "orphan"}}
=============================================================================
