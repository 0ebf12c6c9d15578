--------------------------- MODULE InvestigationProps ---------------------------
(***************************************************************************)
(* What the triage of a run must guarantee, however its executions overlap.*)
(***************************************************************************)
EXTENDS Investigation

\* The plan a manager is asked to approve is the one the records tell of: its severity is
\* the incident's, the policy derives it from evidence that is stored and can be verified,
\* and each stage of the run recorded that it was completed, not the answer another
\* execution got from a provider or a model.
PlanHasItsTrail ==
  /\ incident.status = "awaiting_approval" => decision # {}
  /\ \A plan \in decision :
       /\ incident.severity = plan.severity
       /\ plan.severity # "low"
       /\ plan.evidence \subseteq evidence
       /\ \A f \in plan.evidence : Verifies(f)
       /\ Reasons(plan.evidence) = {}
       /\ trail["correlation"] = {CorrelationEntry(plan.evidence, plan.missing)}
       /\ \A stage \in PlanStages : trail[stage] = {Outcome("completed", {})}
=============================================================================
