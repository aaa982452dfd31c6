----------------------------- MODULE MCAgentRun -----------------------------
(* AgentRun on small instances. *)
EXTENDS AgentRun, TLC

ProcessSymmetry == Permutations(Workers) \cup Permutations(Reapers)

\* Everything an action may still depend on.  What was charged, refunded and
\* told is only recorded; a row's age counts while it is queued, and the status
\* a worker decided on until it is saved.  Properties of the row and its drivers
\* are checked without the rest.
Unrecorded ==
    <<handoff, status, owner, lease, attempts, cancel, job, direct, rp,
      {s \in Sessions : status[s] = "queued" /\ old[s]},
      [w \in Workers |-> IF wk[w].pc \in {"charge", "save"} THEN wk[w]
                         ELSE [wk[w] EXCEPT !.final = "none"]]>>
=============================================================================
