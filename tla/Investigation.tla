----------------------------- MODULE Investigation -----------------------------
(***************************************************************************)
(* The triage of one run, from its start to the request for an approval:   *)
(* the steps of mastra/workflows/incident-ingestion-workflow.ts up to      *)
(* request-approval, with the evidence they store (evidence/persistence.ts)*)
(* the trail they leave (evidence/correlation-timeline.ts and              *)
(* triage/decision-timeline.ts) and the authoritative result               *)
(* (db/phase5-result-operations.ts).                                       *)
(*                                                                         *)
(* A redelivered event may start the run twice, see AlertPipeline: several *)
(* executions of the same run share the database, each with what it read   *)
(* from the providers and what the models answered it.  The incident is a  *)
(* login from a disallowed country; the policies of the other kinds have   *)
(* the same shape.                                                         *)
(***************************************************************************)
EXTENDS Naturals, FiniteSets

CONSTANTS
  Executions,
  EvidenceSources,  \* the branches of the gather step
  Readings,        \* the sets of facts the provider of a source may answer
  MaxActivations   \* changes of the active runbook generation (bound)

ASSUME InvestigationAssumption ==
  /\ MaxActivations \in Nat
  /\ \A s \in EvidenceSources : \A facts \in Readings[s] : \A f \in facts : f.source = s

VARIABLES
  incident,    \* incidents: status and severity
  evidence,    \* evidence_items
  trail,       \* what the timeline event of each stage tells, whose id the stage determines
  active,      \* runbook_activations: the generation in force
  selection,   \* runbook_retrievals: the generation selected for the run, or 0
  decision,    \* workflow_runs.phase5_result_json: no result, or one
  execution

investigationVars == <<incident, evidence, trail, active, selection, decision, execution>>

-----------------------------------------------------------------------------
Nothing == "nothing"
Facts == UNION UNION {Readings[s] : s \in EvidenceSources}
FailureCodes == {"TIMEOUT", "UNAVAILABLE", "INVALID_RESPONSE"}
Severities == {"low", "medium", "high"}
RunbookGenerations == 1..MaxActivations + 1

\* createGatherEvidenceStep: what a branch holds, and what it ended with.
Branches ==
  [pc : {"waiting", "read", "done", "threw"}, facts : SUBSET Facts, code : {Nothing}]
    \cup [pc : {"failed"}, facts : {{}}, code : FailureCodes]
Unread == [pc |-> "waiting", facts |-> {}, code |-> Nothing]

PlanStages == {"classification", "summary", "proposal", "validation"}
Stages == {"correlation"} \cup PlanStages

InvestigationTypeOK ==
  /\ incident.status \in {"received", "investigating", "awaiting_approval"}
  /\ incident.severity \in Severities \cup {Nothing}
  /\ evidence \subseteq Facts
  /\ DOMAIN trail = Stages
  /\ \A stage \in Stages : Cardinality(trail[stage]) <= 1
  /\ active \in RunbookGenerations
  /\ selection \in RunbookGenerations \cup {0}
  /\ Cardinality(decision) <= 1
  /\ \A e \in Executions :
       /\ execution[e].pc \in {"idle", "started", "gathering", "correlated", "asking",
                               "storing", "recording", "persisting", "ready", "requested",
                               "stopped", "failed", "dead"}
       /\ execution[e].branch \in [EvidenceSources -> Branches]
       /\ execution[e].view \subseteq Facts
       /\ execution[e].stage \in PlanStages
       /\ execution[e].generation \in RunbookGenerations \cup {0}

Outcome(status, reasons) == [status |-> status, reasons |-> reasons]
NoOutcome == Outcome("none", {})

Idle ==
  [pc |-> "idle", branch |-> [s \in EvidenceSources |-> Unread], view |-> {}, missing |-> {},
   generation |-> 0, stage |-> "classification", entry |-> NoOutcome]

InvestigationInit ==
  /\ incident = [status |-> "received", severity |-> Nothing]
  /\ evidence = {}
  /\ trail = [stage \in Stages |-> {}]
  /\ active = 1
  /\ selection = 0
  /\ decision = {}
  /\ execution = [e \in Executions |-> Idle]

\* An execution that ended keeps nothing.
Ends(e, how) == execution' = [execution EXCEPT ![e] = [Idle EXCEPT !.pc = how]]
To(e, pc) == execution' = [execution EXCEPT ![e].pc = pc]

database == <<incident, evidence, trail, active, selection, decision>>

-----------------------------------------------------------------------------
(* Start, scope and evidence. *)

\* start-investigation; a second execution finds the run there and goes on.
StartInvestigation(e) ==
  /\ execution[e].pc = "idle"
  /\ incident' = IF incident.status = "received"
                 THEN [incident EXCEPT !.status = "investigating"] ELSE incident
  /\ To(e, "started")
  /\ UNCHANGED <<evidence, trail, active, selection, decision>>

\* load-investigation-context and soc-supervisor-validate-scope: the alert and the run
\* are fixed; a supervisor that fails or answers anything else ends the execution.
ValidateScope(e) ==
  /\ execution[e].pc = "started"
  /\ To(e, "gathering") \/ Ends(e, "failed")
  /\ UNCHANGED database

\* runProviderInspection: a second attempt only for what may pass, within one time limit.
Inspection(first, second) == IF first = "UNAVAILABLE" THEN second ELSE first

Branch(e, s, pc, facts, code) ==
  execution' = [execution EXCEPT ![e].branch[s] = [pc |-> pc, facts |-> facts, code |-> code]]

\* The tool call and the investigator, who must cite every fact; other failures end a
\* branch like these.
Inspect(e, s) ==
  /\ execution[e].pc = "gathering" /\ execution[e].branch[s].pc = "waiting"
  /\ \/ \E facts \in Readings[s] : Branch(e, s, "read", facts, Nothing)
     \/ \E first, second \in FailureCodes :
          Branch(e, s, "failed", {}, Inspection(first, second))
  /\ UNCHANGED database

\* stableEvidenceId: the value is not part of it.
SameId(f, g) == f.source = g.source /\ f.type = g.type

\* evidenceToEnvelope, on which every verified read depends, knows two provenances.
Verifies(f) == f.provenance \in {"provider", "rule-v1"}

\* persistEvidenceItems: insert, or verify that the stored item is the same.
PersistEvidence(e, s) ==
  LET facts == execution[e].branch[s].facts
      stored == {g \in evidence : \E f \in facts : SameId(f, g)}
  IN
  /\ execution[e].branch[s].pc = "read"
  /\ IF stored \subseteq facts /\ \A g \in stored : Verifies(g)
     THEN evidence' = evidence \cup facts /\ Branch(e, s, "done", facts, Nothing)
     ELSE UNCHANGED evidence /\ Branch(e, s, "threw", {}, Nothing)
  /\ UNCHANGED <<incident, trail, active, selection, decision>>

\* A branch that throws ends the execution once the others have settled.
Settled(e) ==
  \A s \in EvidenceSources : execution[e].branch[s].pc \in {"done", "failed", "threw"}
Threw(e) == \E s \in EvidenceSources : execution[e].branch[s].pc = "threw"

-----------------------------------------------------------------------------
(* Correlation. *)

\* findContradictions, findMissingData
Contradictions(facts) ==
  {pair \in SUBSET facts : \E f, g \in pair : /\ pair = {f, g}
                                              /\ f.type = g.type /\ f.value # g.value}
Missing(branch, facts) ==
  {[source |-> s, reason |-> branch[s].code] :
     s \in {s \in EvidenceSources : branch[s].pc = "failed"}}
  \cup {[source |-> f.source, reason |-> f.type] : f \in {f \in facts : ~f.complete}}

\* The payload of the correlation event; all facts lie within one window.
CorrelationEntry(facts, missing) ==
  [evidence |-> Cardinality(facts), contradictions |-> Cardinality(Contradictions(facts)),
   missing |-> missing]

Agrees(stage, entry) == trail[stage] \subseteq {entry}

\* Mutant: what an execution finds in the trail is taken as its own.
TakesTrail(stage, entry) ==
  trail' = [trail EXCEPT ![stage] = IF @ = {} THEN {entry} ELSE @]

\* appendCorrelationTimeline, appendPhase5Timeline: insert, or verify that the stored
\* event is the same.
Appends(stage, entry) ==
  /\ Agrees(stage, entry)
  /\ trail' = [trail EXCEPT ![stage] = {entry}]

\* correlate-events, with the analyst who must repeat the counts.  The evidence of a
\* branch never changes, so that reading it and appending the event are one step.
CorrelateEvents(e) ==
  LET branch == execution[e].branch
      facts == UNION {branch[s].facts : s \in EvidenceSources}
      missing == Missing(branch, facts)
  IN
  /\ execution[e].pc = "gathering" /\ Settled(e)
  /\ \/ /\ ~Threw(e) /\ \A f \in facts : Verifies(f)
        /\ Appends("correlation", CorrelationEntry(facts, missing))
        /\ execution' = [execution EXCEPT ![e].pc = "correlated", ![e].view = facts,
              ![e].missing = missing, ![e].branch = [s \in EvidenceSources |-> Unread]]
     \/ Ends(e, "failed") /\ UNCHANGED trail
  /\ UNCHANGED <<incident, evidence, active, selection, decision>>

\* retrieve-runbook: one selection for the run, see Runbooks; it may fail.
SelectRunbook(e) ==
  /\ execution[e].pc = "correlated"
  /\ \/ /\ selection' = IF selection = 0 THEN active ELSE selection
        /\ execution' = [execution EXCEPT ![e].pc = "asking", ![e].generation = selection']
     \/ Ends(e, "failed") /\ UNCHANGED selection
  /\ UNCHANGED <<incident, evidence, trail, active, decision>>

ActivateRunbook ==
  /\ active <= MaxActivations
  /\ active' = active + 1
  /\ UNCHANGED <<incident, evidence, trail, selection, decision, execution>>

-----------------------------------------------------------------------------
(* The policy. *)

\* The evidence the policy requires of a login, as far as providers may answer it twice or
\* not at all.
Required == {"login.country", "session.subject", "session.abnormalHistory"}
OfType(facts, type) == {f \in facts : f.type = type}

\* resolveEvidenceRequirement: exactly one item of the type, and a sound one.
Resolves(facts, type) == \E f \in facts : OfType(facts, type) = {f} /\ f.complete

Reasons(facts) ==
  {t \in Required : ~Resolves(facts, t)}
    \cup IF Contradictions(facts) # {} THEN {"contradiction"} ELSE {}

HasValue(facts, type, value) == \E f \in OfType(facts, type) : f.value = value

\* evaluateSeverityPolicy, for evidence without reasons against it
Severity(facts) ==
  IF HasValue(facts, "login.country", "US") THEN "low"
  ELSE IF HasValue(facts, "session.abnormalHistory", "yes") THEN "high" ELSE "medium"

-----------------------------------------------------------------------------
(* Classification, summary, proposal and validation: each loads the context  *)
(* anew, asks a model, and records how it ended.                             *)

\* loadDecisionContext: the run still investigates, and the runbook selected is in force.
ContextHolds(e) ==
  /\ incident.status = "investigating"
  /\ execution[e].generation = selection /\ selection = active

Replies == {"agrees", "unavailable", "invalid", "diverges"}

\* What a stage concludes from a reply.
Classified(facts, reply) ==
  IF Reasons(facts) # {} THEN Outcome("manual-review", Reasons(facts))
  ELSE IF reply # "agrees" THEN Outcome("manual-review", {reply}) ELSE Outcome("completed", {})

Planned(reply) ==
  CASE reply = "agrees" -> Outcome("completed", {})
    [] reply = "unavailable" -> Outcome("manual-review", {reply})
    [] OTHER -> Outcome("blocked", {reply})

Conclusion(e, reply) ==
  LET facts == execution[e].view IN
  CASE execution[e].stage = "classification" -> Classified(facts, reply)
    [] execution[e].stage = "summary" -> Planned(reply)
    [] execution[e].stage = "proposal" ->
         IF Severity(facts) = "low" THEN Outcome("manual-review", {"benign"})
         ELSE Planned(reply)
    [] execution[e].stage = "validation" -> Outcome("completed", {})

\* The four steps up to their first write; without its context a step is blocked and
\* leaves no trace.
AskModel(e) ==
  /\ execution[e].pc = "asking"
  /\ IF ContextHolds(e)
     THEN \E reply \in Replies :
            LET entry == Conclusion(e, reply) IN
            execution' = [execution EXCEPT
              ![e].entry = entry,
              ![e].pc = IF execution[e].stage = "classification" /\ entry.status = "completed"
                        THEN "storing" ELSE "recording"]
     ELSE Ends(e, "stopped")
  /\ UNCHANGED database

\* classify-severity: the column is written once, before the event.
StoreSeverity(e) ==
  LET severity == Severity(execution[e].view) IN
  /\ execution[e].pc = "storing"
  /\ IF incident.severity \in {Nothing, severity}
     THEN incident' = [incident EXCEPT !.severity = severity] /\ To(e, "recording")
     ELSE UNCHANGED incident /\ Ends(e, "failed")
  /\ UNCHANGED <<evidence, trail, active, selection, decision>>

NextStage == [classification |-> "summary", summary |-> "proposal", proposal |-> "validation"]

Proceeds(e) ==
  IF execution[e].stage = "validation" THEN To(e, "persisting")
  ELSE execution' = [execution EXCEPT ![e].pc = "asking", ![e].entry = NoOutcome,
                                      ![e].stage = NextStage[execution[e].stage]]

Invalid == Outcome("blocked", {"plan"})

\* The event of the stage.  A conflict ends the execution; validate-containment records
\* first that it is blocked.
RecordStage(e) ==
  LET stage == execution[e].stage
      entry == execution[e].entry
  IN
  /\ execution[e].pc = "recording"
  /\ \/ /\ Appends(stage, entry)
        /\ IF entry.status = "completed" THEN Proceeds(e) ELSE Ends(e, "stopped")
     \/ /\ ~Agrees(stage, entry)
        /\ IF stage = "validation" /\ entry # Invalid
           THEN execution' = [execution EXCEPT ![e].entry = Invalid]
           ELSE Ends(e, "failed")
        /\ UNCHANGED trail
  /\ UNCHANGED <<incident, evidence, active, selection, decision>>

\* buildSeverityDecision, buildValidatedContainmentPlan: functions of the evidence.
Result(e) == [evidence |-> execution[e].view, missing |-> execution[e].missing,
              severity |-> Severity(execution[e].view)]

\* persistAuthoritativePhase5Result: write once, or verify that it is the same.
PersistResult(e) ==
  /\ execution[e].pc = "persisting"
  /\ IF decision \subseteq {Result(e)}
     THEN decision' = {Result(e)} /\ To(e, "ready")
     ELSE /\ UNCHANGED decision
          /\ execution' = [execution EXCEPT ![e].pc = "recording", ![e].entry = Invalid]
  /\ UNCHANGED <<incident, evidence, trail, active, selection>>

\* request-approval: the same request again changes nothing; it may fail, see Approval.
RequestApproval(e) ==
  /\ execution[e].pc = "ready"
  /\ \/ incident' = [incident EXCEPT !.status = "awaiting_approval"] /\ Ends(e, "requested")
     \/ UNCHANGED incident /\ Ends(e, "failed")
  /\ UNCHANGED <<evidence, trail, active, selection, decision>>

\* The process of an execution dies, between any two of its writes.
Dies(e) ==
  /\ execution[e].pc \notin {"idle", "requested", "stopped", "failed", "dead"}
  /\ Ends(e, "dead")
  /\ UNCHANGED database

-----------------------------------------------------------------------------
TriageStep(e) ==
  \/ StartInvestigation(e) \/ ValidateScope(e)
  \/ \E s \in EvidenceSources : Inspect(e, s) \/ PersistEvidence(e, s)
  \/ CorrelateEvents(e) \/ SelectRunbook(e)
  \/ AskModel(e) \/ StoreSeverity(e) \/ RecordStage(e) \/ PersistResult(e) \/ RequestApproval(e)
  \/ Dies(e)

InvestigationNext == ActivateRunbook \/ \E e \in Executions : TriageStep(e)

InvestigationSpec == InvestigationInit /\ [][InvestigationNext]_investigationVars
=============================================================================
