---------------------------- MODULE AlertHandoff ----------------------------
(***************************************************************************)
(* What the alert pipeline promises about one alert event, whatever        *)
(* publishes, deliveries, retries and crashes it takes: an accepted alert  *)
(* stays pending until it gets exactly one of two verdicts, a workflow run *)
(* or a dead letter, and the verdict is never taken back or replaced.      *)
(***************************************************************************)
CONSTANT Events

VARIABLE verdict

Verdicts == {"absent", "pending", "running", "dead"}

HandoffInit == verdict = [e \in Events |-> "absent"]

\* The signed webhook was accepted: incident, alert and outbox row committed.
Accept(e) ==
  /\ verdict[e] = "absent"
  /\ verdict' = [verdict EXCEPT ![e] = "pending"]

\* The workflow's first step committed the investigation marker.
Investigate(e) ==
  /\ verdict[e] = "pending"
  /\ verdict' = [verdict EXCEPT ![e] = "running"]

\* A bounded budget ran out and the source dead letter was committed.
GiveUp(e) ==
  /\ verdict[e] = "pending"
  /\ verdict' = [verdict EXCEPT ![e] = "dead"]

HandoffNext == \E e \in Events : Accept(e) \/ Investigate(e) \/ GiveUp(e)

HandoffSpec == HandoffInit /\ [][HandoffNext]_verdict
=============================================================================
