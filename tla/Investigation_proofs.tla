-------------------------- MODULE Investigation_proofs --------------------------
(***************************************************************************)
(* The proof of PlanHasItsTrail for any number of executions, any sources  *)
(* and readings and any number of runbook activations.                     *)
(***************************************************************************)
EXTENDS InvestigationProps, FiniteSetTheorems, TLAPS

Completed == Outcome("completed", {})

RecordedOutcomes == [status : {"none", "completed", "manual-review", "blocked"},
            reasons : SUBSET (Required \cup {"contradiction", "unavailable", "invalid",
                                             "diverges", "benign", "plan"})]

MissingItems == [source : EvidenceSources,
                 reason : FailureCodes \cup {f.type : f \in Facts}]

ExecutionState ==
  [pc : {"idle", "started", "gathering", "correlated", "asking", "storing", "recording",
         "persisting", "ready", "requested", "stopped", "failed", "dead"},
   branch : [EvidenceSources -> Branches], view : SUBSET Facts, missing : SUBSET MissingItems,
   generation : RunbookGenerations \cup {0}, stage : PlanStages, entry : RecordedOutcomes]

RowsAndExecutions ==
  /\ incident \in [status : {"received", "investigating", "awaiting_approval"},
                   severity : Severities \cup {Nothing}]
  /\ trail = [stage \in Stages |-> trail[stage]]
  /\ active \in RunbookGenerations /\ selection \in RunbookGenerations \cup {0}
  /\ execution \in [Executions -> ExecutionState]

\* An execution that goes on after its correlation, and one that decides.
Deciding == {"asking", "storing", "recording", "persisting", "ready"}
Viewing == Deciding \cup {"correlated"}

Before == [classification |-> {}, summary |-> {"classification"},
           proposal |-> {"classification", "summary"},
           validation |-> {"classification", "summary", "proposal"}]

\* What an execution x may rely on in the database: the evidence stored, the trail, the
\* severity of the incident and whether there is a result.
Grounded(x, stored, told, severity, made) ==
  /\ \A s \in EvidenceSources : x.branch[s].pc = "done" => x.branch[s].facts \subseteq stored
  /\ x.pc \in {"idle", "started", "gathering", "correlated"} => x.stage = "classification"
  /\ x.pc \in Viewing =>
       /\ x.view \subseteq stored
       /\ \A f \in x.view : Verifies(f)
       /\ told["correlation"] = {CorrelationEntry(x.view, x.missing)}
  /\ x.pc \in Deciding =>
       /\ \A t \in Before[x.stage] : told[t] = {Completed}
       /\ x.stage # "classification" => Reasons(x.view) = {} /\ severity = Severity(x.view)
       /\ x.stage = "validation" => Severity(x.view) # "low"
  /\ x.pc = "storing" =>
       x.stage = "classification" /\ x.entry = Completed /\ Reasons(x.view) = {}
  /\ x.pc = "recording" /\ x.entry.status = "completed" =>
       /\ x.entry = Completed
       /\ Reasons(x.view) = {} /\ severity = Severity(x.view)
       /\ x.stage = "proposal" => Severity(x.view) # "low"
  /\ x.pc \in {"persisting", "ready"} =>
       x.stage = "validation" /\ \A t \in PlanStages : told[t] = {Completed}
  /\ x.pc = "ready" => made

ExecutionsAreGrounded ==
  \A e \in Executions :
    Grounded(execution[e], evidence, trail, incident.severity, decision # {})

PlansAreDerived == \A plan \in decision : plan.severity = Severity(plan.evidence)

InvestigationInv ==
  RowsAndExecutions /\ ExecutionsAreGrounded /\ PlansAreDerived /\ PlanHasItsTrail

-----------------------------------------------------------------------------
\* What was stored stays as it was stored.
Grows ==
  /\ evidence \subseteq evidence'
  /\ \A stage \in Stages : trail[stage] = {} \/ trail'[stage] = trail[stage]
  /\ incident.severity = Nothing \/ incident'.severity = incident.severity
  /\ decision = {} \/ decision' = decision

\* Severities are not the absence of one.
LEMMA SeverityIsOne ==
  \A facts : Severity(facts) \in Severities /\ Severity(facts) # Nothing
BY DEF Severity, Severities, Nothing

\* What an execution relies on is not taken from it.
LEMMA GroundsStay ==
  ASSUME NEW x \in ExecutionState, Grows,
         Grounded(x, evidence, trail, incident.severity, decision # {})
  PROVE  Grounded(x, evidence', trail', incident'.severity, decision' # {})
<1>1. \A t \in Stages : \A c : trail[t] = {c} => trail'[t] = {c}
  BY DEF Grows
<1>2. \A t \in Before[x.stage] : t \in Stages
  BY DEF ExecutionState, Before, PlanStages, Stages
<1>3. \A facts : incident.severity = Severity(facts) => incident'.severity = Severity(facts)
  BY SeverityIsOne DEF Grows
<1>4. \A s \in EvidenceSources : x.branch[s].pc = "done" => x.branch[s].facts \subseteq evidence'
  BY DEF Grounded, Grows
<1>5. x.pc \in Viewing =>
       /\ x.view \subseteq evidence'
       /\ \A f \in x.view : Verifies(f)
       /\ trail'["correlation"] = {CorrelationEntry(x.view, x.missing)}
  BY <1>1 DEF Grounded, Grows, Stages
<1>6. x.pc \in Deciding =>
       /\ \A t \in Before[x.stage] : trail'[t] = {Completed}
       /\ x.stage # "classification" => Reasons(x.view) = {} /\ incident'.severity = Severity(x.view)
       /\ x.stage = "validation" => Severity(x.view) # "low"
  BY <1>1, <1>2, <1>3 DEF Grounded
<1>7. x.pc \in {"persisting", "ready"} =>
       x.stage = "validation" /\ \A t \in PlanStages : trail'[t] = {Completed}
  BY <1>1 DEF Grounded, Stages
<1>8. x.pc = "ready" => decision' # {}
  BY DEF Grounded, Grows
<1> QED BY <1>3, <1>4, <1>5, <1>6, <1>7, <1>8 DEF Grounded

\* The step of one execution that leaves it grounded leaves all of them grounded.
LEMMA OneMoves ==
  ASSUME InvestigationInv, Grows, NEW e \in Executions, NEW x \in ExecutionState,
         execution' = [execution EXCEPT ![e] = x],
         Grounded(x, evidence', trail', incident'.severity, decision' # {})
  PROVE  ExecutionsAreGrounded' /\ execution' \in [Executions -> ExecutionState]
<1> USE DEF InvestigationInv, RowsAndExecutions
<1>1. execution' \in [Executions -> ExecutionState]
  OBVIOUS
<1>2. ASSUME NEW d \in Executions
      PROVE  Grounded(execution'[d], evidence', trail', incident'.severity, decision' # {})
  <2>1. CASE d = e
    BY <2>1
  <2>2. CASE d # e
    <3>1. execution'[d] = execution[d] /\ execution[d] \in ExecutionState
      BY <2>2
    <3>2. Grounded(execution[d], evidence, trail, incident.severity, decision # {})
      BY DEF ExecutionsAreGrounded
    <3> QED BY <3>1, <3>2, GroundsStay
  <2> QED BY <2>1, <2>2
<1> QED BY <1>1, <1>2 DEF ExecutionsAreGrounded

\* An execution that ended relies on nothing.
LEMMA EndedIsGrounded ==
  /\ \A pc \in {"idle", "requested", "stopped", "failed", "dead"} :
       [Idle EXCEPT !.pc = pc] \in ExecutionState
  /\ Idle \in ExecutionState
  /\ \A pc \in {"idle", "requested", "stopped", "failed", "dead"} : \A stored, told, severity, made :
       Grounded([Idle EXCEPT !.pc = pc], stored, told, severity, made)
  /\ \A stored, told, severity, made : Grounded(Idle, stored, told, severity, made)
<1>1. [s \in EvidenceSources |-> Unread] \in [EvidenceSources -> Branches]
  BY DEF Unread, Branches
<1>2. NoOutcome \in RecordedOutcomes
  BY DEF NoOutcome, Outcome, RecordedOutcomes
<1>3. Idle \in ExecutionState
  BY <1>1, <1>2 DEF Idle, ExecutionState, PlanStages
<1>4. ASSUME NEW pc \in {"idle", "requested", "stopped", "failed", "dead"}
      PROVE  /\ [Idle EXCEPT !.pc = pc] \in ExecutionState
             /\ \A stored, told, severity, made :
                  Grounded([Idle EXCEPT !.pc = pc], stored, told, severity, made)
  <2> DEFINE x == [Idle EXCEPT !.pc = pc]
  <2>1. x \in ExecutionState /\ x.pc = pc
    BY <1>3 DEF ExecutionState
  <2>3. x.stage = "classification"
    BY DEF Idle
  <2>2. \A s \in EvidenceSources : x.branch[s].pc = "waiting"
    BY DEF Idle, Unread
  <2> QED BY <2>1, <2>2, <2>3 DEF Grounded, Viewing, Deciding
<1>5. \A stored, told, severity, made : Grounded(Idle, stored, told, severity, made)
  <2>1. \A s \in EvidenceSources : Idle.branch[s].pc = "waiting"
    BY DEF Idle, Unread
  <2>2. Idle.pc = "idle" /\ Idle.stage = "classification"
    BY DEF Idle
  <2> QED BY <2>1, <2>2 DEF Grounded, Viewing, Deciding
<1> QED BY <1>3, <1>4, <1>5

\* A result stays true of what only grows.
LEMMA PlanStays ==
  ASSUME InvestigationInv, Grows, decision' = decision,
         incident'.status = "awaiting_approval" => incident.status = "awaiting_approval" \/ decision # {}
  PROVE  PlanHasItsTrail'
<1> USE DEF InvestigationInv, PlanHasItsTrail, Grows
<1>1. incident'.status = "awaiting_approval" => decision' # {}
  OBVIOUS
<1>2. ASSUME NEW plan \in decision
      PROVE  /\ incident'.severity = plan.severity
             /\ plan.severity # "low"
             /\ plan.evidence \subseteq evidence'
             /\ \A f \in plan.evidence : Verifies(f)
             /\ Reasons(plan.evidence) = {}
             /\ trail'["correlation"] = {CorrelationEntry(plan.evidence, plan.missing)}
             /\ \A stage \in PlanStages : trail'[stage] = {Outcome("completed", {})}
  <2>1. incident.severity # Nothing => incident'.severity = plan.severity
    OBVIOUS
  <2>2. plan.severity # Nothing
    BY SeverityIsOne DEF PlansAreDerived
  <2> QED BY <2>1, <2>2 DEF Stages
<1> QED BY <1>1, <1>2

-----------------------------------------------------------------------------
\* Rows that a step of an execution leaves in their sets.
RowsStay ==
  /\ incident' \in [status : {"received", "investigating", "awaiting_approval"},
                    severity : Severities \cup {Nothing}]
  /\ trail' = [stage \in Stages |-> trail'[stage]]
  /\ active' \in RunbookGenerations /\ selection' \in RunbookGenerations \cup {0}

\* A step that adds to the database without a new result, and moves one execution.
LEMMA StepKeeps ==
  ASSUME InvestigationInv, Grows, RowsStay, decision' = decision,
         incident'.status = "awaiting_approval" => incident.status = "awaiting_approval" \/ decision # {},
         NEW e \in Executions, NEW x \in ExecutionState,
         execution' = [execution EXCEPT ![e] = x],
         Grounded(x, evidence', trail', incident'.severity, decision' # {})
  PROVE  InvestigationInv'
<1>1. ExecutionsAreGrounded' /\ execution' \in [Executions -> ExecutionState]
  BY OneMoves
<1>2. PlanHasItsTrail'
  BY PlanStays
<1>3. PlansAreDerived'
  BY DEF InvestigationInv, PlansAreDerived
<1> QED BY <1>1, <1>2, <1>3 DEF InvestigationInv, RowsAndExecutions, RowsStay

LEMMA StillGrows ==
  ASSUME InvestigationInv
  PROVE  UNCHANGED database => Grows /\ RowsStay
BY DEF InvestigationInv, RowsAndExecutions, database, Grows, RowsStay

\* The end of an execution, whatever else the step adds.
LEMMA EndKeeps ==
  ASSUME InvestigationInv, Grows, RowsStay, decision' = decision,
         incident'.status = "awaiting_approval" => incident.status = "awaiting_approval" \/ decision # {},
         NEW e \in Executions, NEW pc \in {"requested", "stopped", "failed", "dead"}, Ends(e, pc)
  PROVE  InvestigationInv'
<1> DEFINE x == [Idle EXCEPT !.pc = pc]
<1>1. x \in ExecutionState /\ Grounded(x, evidence', trail', incident'.severity, decision' # {})
  BY EndedIsGrounded
<1>2. execution' = [execution EXCEPT ![e] = x]
  BY DEF Ends
<1> QED BY <1>1, <1>2, StepKeeps

LEMMA StateOf ==
  ASSUME InvestigationInv, NEW e \in Executions
  PROVE  /\ execution[e] \in ExecutionState
         /\ Grounded(execution[e], evidence, trail, incident.severity, decision # {})
BY DEF InvestigationInv, RowsAndExecutions, ExecutionsAreGrounded

LEMMA StartSteps ==
  ASSUME InvestigationInv, NEW e \in Executions, StartInvestigation(e) \/ ValidateScope(e) \/ Dies(e)
  PROVE  InvestigationInv'
<1> DEFINE old == execution[e]
<1>1. old \in ExecutionState /\ Grounded(old, evidence, trail, incident.severity, decision # {})
  BY StateOf
<1>2. CASE StartInvestigation(e)
  <2> DEFINE x == [old EXCEPT !.pc = "started"]
  <2>1. x \in ExecutionState /\ x.pc = "started" /\ x.branch = old.branch /\ x.stage = "classification"
    BY <1>1, <1>2 DEF ExecutionState, Grounded, StartInvestigation
  <2>2. incident \in [status : {"received", "investigating", "awaiting_approval"},
                      severity : Severities \cup {Nothing}]
    BY DEF InvestigationInv, RowsAndExecutions
  <2>3. /\ incident'.severity = incident.severity
        /\ incident'.status = "awaiting_approval" => incident.status = "awaiting_approval"
        /\ incident' \in [status : {"received", "investigating", "awaiting_approval"},
                          severity : Severities \cup {Nothing}]
    BY <1>2, <2>2 DEF StartInvestigation
  <2>4. Grows /\ RowsStay /\ decision' = decision
    BY <1>2, <2>3 DEF StartInvestigation, Grows, RowsStay, InvestigationInv, RowsAndExecutions
  <2>5. Grounded(x, evidence', trail', incident'.severity, decision' # {})
    <3>1. \A s \in EvidenceSources : x.branch[s].pc = "done" => x.branch[s].facts \subseteq evidence'
      BY <1>1, <2>1, <2>4 DEF Grounded, Grows
    <3> QED BY <1>1, <2>1, <2>4, <3>1 DEF Grounded, Viewing, Deciding
  <2>6. execution' = [execution EXCEPT ![e] = x]
    BY <1>2 DEF StartInvestigation, To
  <2> QED BY <2>1, <2>3, <2>4, <2>5, <2>6, StepKeeps
<1>3. CASE ValidateScope(e)
  <2>1. Grows /\ RowsStay /\ decision' = decision /\ incident' = incident
    BY <1>3, StillGrows DEF ValidateScope, database
  <2>2. CASE To(e, "gathering")
    <3> DEFINE x == [old EXCEPT !.pc = "gathering"]
    <3>1. x \in ExecutionState /\ x.pc = "gathering" /\ x.branch = old.branch /\ x.stage = "classification"
      BY <1>1, <1>3 DEF ExecutionState, Grounded, ValidateScope
    <3>2. Grounded(x, evidence', trail', incident'.severity, decision' # {})
      <4>1. \A s \in EvidenceSources : x.branch[s].pc = "done" => x.branch[s].facts \subseteq evidence'
        BY <1>1, <2>1, <3>1 DEF Grounded, Grows
      <4> QED BY <1>1, <2>1, <3>1, <4>1 DEF Grounded, Viewing, Deciding
    <3>3. execution' = [execution EXCEPT ![e] = x]
      BY <2>2 DEF To
    <3> QED BY <2>1, <3>1, <3>2, <3>3, StepKeeps
  <2>3. CASE Ends(e, "failed")
    BY <2>1, <2>3, EndKeeps
  <2> QED BY <1>3, <2>2, <2>3 DEF ValidateScope
<1>4. CASE Dies(e)
  BY <1>4, StillGrows, EndKeeps DEF Dies, database
<1> QED BY <1>2, <1>3, <1>4

\* A branch reads, or stores what it read.
LEMMA BranchKeeps ==
  ASSUME InvestigationInv, Grows, RowsStay, decision' = decision, incident' = incident,
         NEW e \in Executions, NEW s \in EvidenceSources, NEW b \in Branches,
         execution' = [execution EXCEPT ![e].branch[s] = b],
         b.pc = "done" => b.facts \subseteq evidence'
  PROVE  InvestigationInv'
<1> DEFINE old == execution[e]
           branch == [old.branch EXCEPT ![s] = b]
           x == [old EXCEPT !.branch = branch]
<1>1. old \in ExecutionState /\ Grounded(old, evidence, trail, incident.severity, decision # {})
  BY StateOf
<1>2. branch \in [EvidenceSources -> Branches]
  BY <1>1 DEF ExecutionState
<1>3. /\ x \in ExecutionState /\ x.branch = branch /\ x.pc = old.pc /\ x.view = old.view
      /\ x.missing = old.missing /\ x.stage = old.stage /\ x.entry = old.entry
  BY <1>1, <1>2 DEF ExecutionState
<1>4. execution' = [execution EXCEPT ![e] = x]
  OBVIOUS
<1>5. Grounded(old, evidence', trail', incident'.severity, decision' # {})
  BY <1>1, GroundsStay
<1>6. \A r \in EvidenceSources : branch[r].pc = "done" => branch[r].facts \subseteq evidence'
  <2>1. \A r \in EvidenceSources : branch[r] = IF r = s THEN b ELSE old.branch[r]
    BY <1>1 DEF ExecutionState
  <2> QED BY <1>5, <2>1 DEF Grounded
<1>7. Grounded(x, evidence', trail', incident'.severity, decision' # {})
  BY <1>3, <1>5, <1>6 DEF Grounded
<1> QED BY <1>3, <1>4, <1>7, StepKeeps

LEMMA GatherSteps ==
  ASSUME InvestigationInv, NEW e \in Executions, NEW s \in EvidenceSources,
         Inspect(e, s) \/ PersistEvidence(e, s)
  PROVE  InvestigationInv'
<1> DEFINE old == execution[e]
<1>1. old \in ExecutionState /\ old.branch[s] \in Branches
  BY StateOf DEF ExecutionState
<1>2. CASE Inspect(e, s)
  <2>1. Grows /\ RowsStay /\ decision' = decision /\ incident' = incident
    BY <1>2, StillGrows DEF Inspect, database
  <2>2. ASSUME NEW facts \in Readings[s], Branch(e, s, "read", facts, Nothing) PROVE InvestigationInv'
    <3> DEFINE b == [pc |-> "read", facts |-> facts, code |-> Nothing]
    <3>1. facts \in SUBSET Facts
      BY <2>2 DEF Facts
    <3>2. b \in Branches /\ b.pc = "read"
      BY <3>1 DEF Branches
    <3> QED BY <2>1, <2>2, <3>2, BranchKeeps DEF Branch
  <2>3. ASSUME NEW first \in FailureCodes, NEW second \in FailureCodes,
               Branch(e, s, "failed", {}, Inspection(first, second))
        PROVE  InvestigationInv'
    <3> DEFINE b == [pc |-> "failed", facts |-> {}, code |-> Inspection(first, second)]
    <3>1. b \in Branches /\ b.pc = "failed"
      BY <2>3 DEF Branches, Inspection
    <3> QED BY <2>1, <2>3, <3>1, BranchKeeps DEF Branch
  <2> QED BY <1>2, <2>2, <2>3 DEF Inspect
<1>3. CASE PersistEvidence(e, s)
  <2> DEFINE facts == old.branch[s].facts
  <2>1. facts \in SUBSET Facts
    BY <1>1, <1>3 DEF Branches, PersistEvidence
  <2>2. Grows /\ RowsStay /\ decision' = decision /\ incident' = incident
    BY <1>3 DEF PersistEvidence, Grows, RowsStay, InvestigationInv, RowsAndExecutions
  <2>3. ASSUME evidence' = evidence \cup facts, Branch(e, s, "done", facts, Nothing)
        PROVE  InvestigationInv'
    <3> DEFINE b == [pc |-> "done", facts |-> facts, code |-> Nothing]
    <3>1. b \in Branches /\ b.facts \subseteq evidence'
      BY <2>1, <2>3 DEF Branches
    <3> QED BY <2>2, <2>3, <3>1, BranchKeeps DEF Branch
  <2>4. ASSUME Branch(e, s, "threw", {}, Nothing)
        PROVE  InvestigationInv'
    <3> DEFINE b == [pc |-> "threw", facts |-> {}, code |-> Nothing]
    <3>1. b \in Branches /\ b.pc = "threw"
      BY DEF Branches
    <3> QED BY <2>2, <2>4, <3>1, BranchKeeps DEF Branch
  <2> QED BY <1>3, <2>3, <2>4 DEF PersistEvidence
<1> QED BY <1>2, <1>3

\* An event is inserted, or was there.
LEMMA AppendsGrow ==
  ASSUME InvestigationInv, NEW stage \in Stages, NEW entry, Appends(stage, entry)
  PROVE  /\ trail' = [t \in Stages |-> trail'[t]]
         /\ \A t \in Stages : trail[t] = {} \/ trail'[t] = trail[t]
         /\ trail'[stage] = {entry}
<1>1. trail = [t \in Stages |-> trail[t]] /\ trail[stage] \subseteq {entry}
  BY DEF InvestigationInv, RowsAndExecutions, Appends, Agrees
<1>2. trail' = [trail EXCEPT ![stage] = {entry}]
  BY DEF Appends
<1>3. trail[stage] = {} \/ trail[stage] = {entry}
  BY <1>1
<1>4. \A t \in Stages : trail'[t] = IF t = stage THEN {entry} ELSE trail[t]
  BY <1>1, <1>2
<1>5. trail' = [t \in Stages |-> trail'[t]]
  BY <1>1, <1>2
<1> QED BY <1>3, <1>4, <1>5

LEMMA CorrelateStep ==
  ASSUME InvestigationInv, NEW e \in Executions, CorrelateEvents(e)
  PROVE  InvestigationInv'
<1> DEFINE old == execution[e]
           branch == old.branch
           facts == UNION {branch[s].facts : s \in EvidenceSources}
           missing == Missing(branch, facts)
<1>1. old \in ExecutionState /\ Grounded(old, evidence, trail, incident.severity, decision # {})
  BY StateOf
<1>2. decision' = decision /\ incident' = incident /\ evidence' = evidence
      /\ active' = active /\ selection' = selection
  BY DEF CorrelateEvents
<1>3. CASE Ends(e, "failed") /\ UNCHANGED trail
  <2>1. UNCHANGED database
    BY <1>2, <1>3 DEF database
  <2> QED BY <1>2, <1>3, <2>1, StillGrows, EndKeeps
<1>4. CASE /\ ~Threw(e) /\ \A f \in facts : Verifies(f)
           /\ Appends("correlation", CorrelationEntry(facts, missing))
           /\ execution' = [execution EXCEPT ![e].pc = "correlated", ![e].view = facts,
                 ![e].missing = missing, ![e].branch = [s \in EvidenceSources |-> Unread]]
  <2> DEFINE unread == [s \in EvidenceSources |-> Unread]
             x == [old EXCEPT !.pc = "correlated", !.view = facts, !.missing = missing,
                              !.branch = unread]
  <2>1. \A s \in EvidenceSources : branch[s].pc \in {"done", "failed"} /\ branch[s] \in Branches
    BY <1>1, <1>4 DEF CorrelateEvents, Settled, Threw, ExecutionState
  <2>2. \A s \in EvidenceSources : branch[s].facts \subseteq Facts /\ branch[s].facts \subseteq evidence
    <3> SUFFICES ASSUME NEW s \in EvidenceSources
                 PROVE  branch[s].facts \subseteq Facts /\ branch[s].facts \subseteq evidence
      OBVIOUS
    <3>1. CASE branch[s].pc = "done"
      BY <1>1, <2>1, <3>1 DEF Grounded, Branches
    <3>2. CASE branch[s].pc = "failed"
      BY <2>1, <3>2 DEF Branches
    <3> QED BY <2>1, <3>1, <3>2
  <2>3. facts \subseteq Facts /\ facts \subseteq evidence
    BY <2>2
  <2>4. missing \in SUBSET MissingItems
    <3>1. \A s \in EvidenceSources : branch[s].pc = "failed" => branch[s].code \in FailureCodes
      BY <2>1 DEF Branches
    <3>2. \A f \in facts : f.source \in EvidenceSources
      BY <2>3, InvestigationAssumption DEF Facts
    <3> QED BY <2>3, <3>1, <3>2 DEF Missing, MissingItems
  <2>5. unread \in [EvidenceSources -> Branches] /\ \A s \in EvidenceSources : unread[s].pc = "waiting"
    BY DEF Unread, Branches
  <2>6. /\ x \in ExecutionState /\ x.pc = "correlated" /\ x.view = facts /\ x.missing = missing
        /\ x.branch = unread /\ x.stage = "classification"
    BY <1>1, <2>3, <2>4, <2>5 DEF ExecutionState, CorrelateEvents, Grounded
  <2>7. /\ trail' = [t \in Stages |-> trail'[t]]
        /\ \A t \in Stages : trail[t] = {} \/ trail'[t] = trail[t]
        /\ trail'["correlation"] = {CorrelationEntry(facts, missing)}
    BY <1>4, AppendsGrow DEF Stages
  <2>8. Grows /\ RowsStay
    BY <1>2, <2>7 DEF Grows, RowsStay, InvestigationInv, RowsAndExecutions
  <2>9. Grounded(x, evidence', trail', incident'.severity, decision' # {})
    BY <1>2, <1>4, <2>3, <2>5, <2>6, <2>7 DEF Grounded, Viewing, Deciding
  <2>10. execution' = [execution EXCEPT ![e] = x]
    BY <1>4
  <2> QED BY <1>2, <2>6, <2>8, <2>9, <2>10, StepKeeps
<1> QED BY <1>3, <1>4 DEF CorrelateEvents

\* What a stage concludes is an entry of its event, and what it completes is sound.
LEMMA ConclusionIsSound ==
  ASSUME NEW e \in Executions, execution[e] \in ExecutionState, NEW reply \in Replies
  PROVE  LET entry == Conclusion(e, reply) IN
         /\ entry \in RecordedOutcomes
         /\ entry.status = "completed" =>
              /\ entry = Completed
              /\ execution[e].stage = "classification" => Reasons(execution[e].view) = {}
              /\ execution[e].stage = "proposal" => Severity(execution[e].view) # "low"
<1> DEFINE facts == execution[e].view
<1>1. execution[e].stage \in PlanStages
  BY DEF ExecutionState
<1>2. Reasons(facts) \subseteq Required \cup {"contradiction"}
  BY DEF Reasons
<1>3. Planned(reply) \in RecordedOutcomes /\ (Planned(reply).status = "completed" => Planned(reply) = Completed)
  BY DEF Planned, Replies, Outcome, RecordedOutcomes, Completed
<1>4. /\ Classified(facts, reply) \in RecordedOutcomes
      /\ Classified(facts, reply).status = "completed" =>
           Classified(facts, reply) = Completed /\ Reasons(facts) = {}
  BY <1>2 DEF Classified, Replies, Outcome, RecordedOutcomes, Completed
<1>5. /\ Outcome("manual-review", {"benign"}) \in RecordedOutcomes
      /\ Outcome("manual-review", {"benign"}).status # "completed"
      /\ Completed \in RecordedOutcomes
  BY DEF Outcome, RecordedOutcomes, Completed
<1>6. CASE execution[e].stage = "classification"
  BY <1>4, <1>6 DEF Conclusion
<1>7. CASE execution[e].stage = "summary"
  BY <1>3, <1>7 DEF Conclusion
<1>8. CASE execution[e].stage = "proposal"
  BY <1>3, <1>5, <1>8 DEF Conclusion
<1>9. CASE execution[e].stage = "validation"
  BY <1>5, <1>9 DEF Conclusion, Completed
<1> QED BY <1>1, <1>6, <1>7, <1>8, <1>9 DEF PlanStages

LEMMA AskSteps ==
  ASSUME InvestigationInv, NEW e \in Executions, SelectRunbook(e) \/ AskModel(e)
  PROVE  InvestigationInv'
<1> DEFINE old == execution[e]
<1>1. old \in ExecutionState /\ Grounded(old, evidence, trail, incident.severity, decision # {})
  BY StateOf
<1>2. CASE SelectRunbook(e)
  <2>1. Grows /\ RowsStay /\ decision' = decision /\ incident' = incident /\ selection' \in RunbookGenerations \cup {0}
    BY <1>2 DEF SelectRunbook, Grows, RowsStay, InvestigationInv, RowsAndExecutions
  <2>2. CASE Ends(e, "failed")
    BY <2>1, <2>2, EndKeeps
  <2>3. CASE execution' = [execution EXCEPT ![e].pc = "asking", ![e].generation = selection']
    <3> DEFINE x == [old EXCEPT !.pc = "asking", !.generation = selection']
    <3>1. /\ x \in ExecutionState /\ x.pc = "asking" /\ x.view = old.view /\ x.stage = old.stage
          /\ x.missing = old.missing /\ x.branch = old.branch
      BY <1>1, <2>1 DEF ExecutionState
    <3>2. Grounded(old, evidence', trail', incident'.severity, decision' # {})
      BY <1>1, <2>1, GroundsStay
    <3>3. old.pc = "correlated" /\ old.stage = "classification"
      BY <1>2, <1>1 DEF SelectRunbook, Grounded
    <3>4. Grounded(x, evidence', trail', incident'.severity, decision' # {})
      BY <3>1, <3>2, <3>3 DEF Grounded, Viewing, Deciding, Before
    <3> QED BY <2>1, <2>3, <3>1, <3>4, StepKeeps
  <2> QED BY <1>2, <2>2, <2>3 DEF SelectRunbook
<1>3. CASE AskModel(e)
  <2>1. Grows /\ RowsStay /\ decision' = decision /\ incident' = incident
    BY <1>3, StillGrows DEF AskModel, database
  <2>2. CASE Ends(e, "stopped")
    BY <2>1, <2>2, EndKeeps
  <2>3. ASSUME NEW reply \in Replies, NEW entry, entry = Conclusion(e, reply),
               execution' = [execution EXCEPT
                 ![e].entry = entry,
                 ![e].pc = IF execution[e].stage = "classification" /\ entry.status = "completed"
                           THEN "storing" ELSE "recording"]
        PROVE  InvestigationInv'
    <3> DEFINE pc == IF old.stage = "classification" /\ entry.status = "completed"
                     THEN "storing" ELSE "recording"
               x == [old EXCEPT !.entry = entry, !.pc = pc]
    <3>1. /\ entry \in RecordedOutcomes
          /\ entry.status = "completed" =>
               /\ entry = Completed
               /\ old.stage = "classification" => Reasons(old.view) = {}
               /\ old.stage = "proposal" => Severity(old.view) # "low"
      BY <1>1, <2>3, ConclusionIsSound
    <3>2. /\ x \in ExecutionState /\ x.pc = pc /\ x.view = old.view /\ x.stage = old.stage
          /\ x.missing = old.missing /\ x.branch = old.branch /\ x.entry = entry
      BY <1>1, <3>1 DEF ExecutionState
    <3>3. Grounded(old, evidence', trail', incident'.severity, decision' # {})
      BY <1>1, <2>1, GroundsStay
    <3>4. old.pc = "asking"
      BY <1>3 DEF AskModel
    <3>5. Grounded(x, evidence', trail', incident'.severity, decision' # {})
      <4>1. CASE old.stage = "classification" /\ entry.status = "completed"
        BY <3>1, <3>2, <3>3, <3>4, <4>1 DEF Grounded, Viewing, Deciding
      <4>2. CASE ~(old.stage = "classification" /\ entry.status = "completed")
        BY <3>1, <3>2, <3>3, <3>4, <4>2 DEF Grounded, Viewing, Deciding
      <4> QED BY <4>1, <4>2
    <3>6. execution' = [execution EXCEPT ![e] = x]
      BY <2>3
    <3> QED BY <2>1, <3>2, <3>5, <3>6, StepKeeps
  <2> QED BY <1>3, <2>2, <2>3 DEF AskModel
<1> QED BY <1>2, <1>3

LEMMA StoreStep ==
  ASSUME InvestigationInv, NEW e \in Executions, StoreSeverity(e)
  PROVE  InvestigationInv'
<1> DEFINE old == execution[e]
           severity == Severity(old.view)
<1>1. old \in ExecutionState /\ Grounded(old, evidence, trail, incident.severity, decision # {})
  BY StateOf
<1>2. incident \in [status : {"received", "investigating", "awaiting_approval"},
                    severity : Severities \cup {Nothing}]
  BY DEF InvestigationInv, RowsAndExecutions
<1>3. CASE incident.severity \in {Nothing, severity}
  <2> DEFINE x == [old EXCEPT !.pc = "recording"]
  <2>1. /\ incident' = [incident EXCEPT !.severity = severity]
        /\ execution' = [execution EXCEPT ![e] = x]
        /\ UNCHANGED <<evidence, trail, active, selection, decision>>
    BY <1>3 DEF StoreSeverity, To
  <2>2. severity \in Severities
    BY SeverityIsOne
  <2>3. /\ incident'.severity = severity /\ incident'.status = incident.status
        /\ incident' \in [status : {"received", "investigating", "awaiting_approval"},
                          severity : Severities \cup {Nothing}]
    BY <1>2, <2>1, <2>2
  <2>4. Grows /\ RowsStay
    BY <1>3, <2>1, <2>3 DEF Grows, RowsStay, InvestigationInv, RowsAndExecutions
  <2>5. /\ x \in ExecutionState /\ x.pc = "recording" /\ x.view = old.view /\ x.stage = old.stage
        /\ x.missing = old.missing /\ x.branch = old.branch /\ x.entry = old.entry
    BY <1>1 DEF ExecutionState
  <2>6. Grounded(old, evidence', trail', incident'.severity, decision' # {})
    BY <1>1, <2>4, GroundsStay
  <2>7. Grounded(x, evidence', trail', incident'.severity, decision' # {})
    BY <2>3, <2>5, <2>6 DEF StoreSeverity, Grounded, Viewing, Deciding
  <2> QED BY <2>1, <2>3, <2>4, <2>5, <2>7, StepKeeps
<1>4. CASE incident.severity \notin {Nothing, severity}
  <2>1. UNCHANGED database /\ Ends(e, "failed")
    BY <1>4 DEF StoreSeverity, database
  <2> QED BY <2>1, StillGrows, EndKeeps DEF database
<1> QED BY <1>3, <1>4

\* The event of a stage is stored; what is asked next rests on it.
LEMMA RecordStep ==
  ASSUME InvestigationInv, NEW e \in Executions, RecordStage(e)
  PROVE  InvestigationInv'
<1> DEFINE old == execution[e]
           entry == old.entry
<1>1. old \in ExecutionState /\ Grounded(old, evidence, trail, incident.severity, decision # {})
  BY StateOf
<1>2. decision' = decision /\ incident' = incident /\ evidence' = evidence
      /\ active' = active /\ selection' = selection /\ old.pc = "recording"
  BY DEF RecordStage
<1>3. old.stage \in PlanStages /\ old.stage \in Stages
  BY <1>1 DEF ExecutionState, Stages
<1>4. CASE Appends(old.stage, entry)
           /\ IF entry.status = "completed" THEN Proceeds(e) ELSE Ends(e, "stopped")
  <2>1. /\ trail' = [t \in Stages |-> trail'[t]]
        /\ \A t \in Stages : trail[t] = {} \/ trail'[t] = trail[t]
        /\ trail'[old.stage] = {entry}
    BY <1>3, <1>4, AppendsGrow
  <2>2. Grows /\ RowsStay
    BY <1>2, <2>1 DEF Grows, RowsStay, InvestigationInv, RowsAndExecutions
  <2>3. CASE entry.status # "completed"
    BY <1>2, <1>4, <2>2, <2>3, EndKeeps
  <2>4. CASE entry.status = "completed"
    <3>1. Grounded(old, evidence', trail', incident'.severity, decision' # {})
      BY <1>1, <2>2, GroundsStay
    <3>2. entry = Completed
      BY <1>1, <1>2, <2>4 DEF Grounded
    <3>3. CASE old.stage = "validation"
      <4> DEFINE x == [old EXCEPT !.pc = "persisting"]
      <4>1. execution' = [execution EXCEPT ![e] = x]
        BY <1>4, <2>4, <3>3 DEF Proceeds, To
      <4>2. /\ x \in ExecutionState /\ x.pc = "persisting" /\ x.view = old.view /\ x.stage = old.stage
            /\ x.missing = old.missing /\ x.branch = old.branch
        BY <1>1 DEF ExecutionState
      <4>3. \A t \in PlanStages : trail'[t] = {Completed}
        BY <1>2, <2>1, <3>1, <3>2, <3>3 DEF Grounded, Deciding, Before, PlanStages
      <4>4. Grounded(x, evidence', trail', incident'.severity, decision' # {})
        BY <1>2, <3>1, <3>3, <4>2, <4>3 DEF Grounded, Viewing, Deciding
      <4> QED BY <1>2, <2>2, <4>1, <4>2, <4>4, StepKeeps
    <3>4. CASE old.stage # "validation"
      <4> DEFINE next == NextStage[old.stage]
                 x == [old EXCEPT !.pc = "asking", !.entry = NoOutcome, !.stage = next]
      <4>1. execution' = [execution EXCEPT ![e] = x]
        BY <1>4, <2>4, <3>4 DEF Proceeds
      <4>2. next \in PlanStages /\ NoOutcome \in RecordedOutcomes
        BY <1>3, <3>4 DEF NextStage, PlanStages, NoOutcome, Outcome, RecordedOutcomes
      <4>3. /\ x \in ExecutionState /\ x.pc = "asking" /\ x.view = old.view /\ x.stage = next
            /\ x.missing = old.missing /\ x.branch = old.branch
        BY <1>1, <4>2 DEF ExecutionState
      <4>4. \A t \in Before[next] : trail'[t] = {Completed}
        BY <1>2, <1>3, <2>1, <3>1, <3>2, <3>4
        DEF Grounded, Deciding, Before, PlanStages, NextStage
      <4>5. Reasons(old.view) = {} /\ incident'.severity = Severity(old.view)
        BY <1>2, <2>4, <3>1 DEF Grounded
      <4>6. next = "validation" => Severity(old.view) # "low"
        BY <1>2, <1>3, <2>4, <3>1, <3>4 DEF Grounded, NextStage, PlanStages
      <4>7. Grounded(x, evidence', trail', incident'.severity, decision' # {})
        BY <1>2, <3>1, <4>3, <4>4, <4>5, <4>6 DEF Grounded, Viewing, Deciding
      <4> QED BY <1>2, <2>2, <4>1, <4>3, <4>7, StepKeeps
    <3> QED BY <3>3, <3>4
  <2> QED BY <2>3, <2>4
<1>5. CASE /\ IF old.stage = "validation" /\ entry # Invalid
              THEN execution' = [execution EXCEPT ![e].entry = Invalid]
              ELSE Ends(e, "failed")
           /\ UNCHANGED trail
  <2>1. Grows /\ RowsStay
    BY <1>2, <1>5, StillGrows DEF database
  <2>2. CASE Ends(e, "failed")
    BY <1>2, <2>1, <2>2, EndKeeps
  <2>3. CASE execution' = [execution EXCEPT ![e].entry = Invalid]
    <3> DEFINE x == [old EXCEPT !.entry = Invalid]
    <3>1. execution' = [execution EXCEPT ![e] = x]
      BY <2>3
    <3>2. Invalid \in RecordedOutcomes /\ Invalid.status = "blocked"
      BY DEF Invalid, Outcome, RecordedOutcomes
    <3>3. /\ x \in ExecutionState /\ x.pc = "recording" /\ x.view = old.view /\ x.stage = old.stage
          /\ x.missing = old.missing /\ x.branch = old.branch /\ x.entry = Invalid
      BY <1>1, <1>2, <3>2 DEF ExecutionState
    <3>4. Grounded(old, evidence', trail', incident'.severity, decision' # {})
      BY <1>1, <2>1, GroundsStay
    <3>5. Grounded(x, evidence', trail', incident'.severity, decision' # {})
      BY <1>2, <3>2, <3>3, <3>4 DEF Grounded, Viewing, Deciding
    <3> QED BY <1>2, <2>1, <3>1, <3>3, <3>5, StepKeeps
  <2> QED BY <1>5, <2>2, <2>3
<1> QED BY <1>4, <1>5 DEF RecordStage

\* The result is written once, by an execution whose four stages are in the trail.
LEMMA PersistStep ==
  ASSUME InvestigationInv, NEW e \in Executions, PersistResult(e)
  PROVE  InvestigationInv'
<1> DEFINE old == execution[e]
<1>1. old \in ExecutionState /\ Grounded(old, evidence, trail, incident.severity, decision # {})
  BY StateOf
<1>2. incident' = incident /\ evidence' = evidence /\ trail' = trail
      /\ active' = active /\ selection' = selection /\ old.pc = "persisting"
  BY DEF PersistResult
<1>3. CASE decision \subseteq {Result(e)} /\ decision' = {Result(e)} /\ To(e, "ready")
  <2> DEFINE x == [old EXCEPT !.pc = "ready"]
  <2>1. execution' = [execution EXCEPT ![e] = x]
    BY <1>3 DEF To
  <2>2. decision = {} \/ decision' = decision
    BY <1>3
  <2>3. Grows /\ RowsStay
    BY <1>2, <2>2 DEF Grows, RowsStay, InvestigationInv, RowsAndExecutions
  <2>4. /\ x \in ExecutionState /\ x.pc = "ready" /\ x.view = old.view /\ x.stage = old.stage
        /\ x.missing = old.missing /\ x.branch = old.branch
    BY <1>1 DEF ExecutionState
  <2>5. /\ old.stage = "validation"
        /\ \A t \in PlanStages : trail[t] = {Completed}
        /\ old.view \subseteq evidence /\ \A f \in old.view : Verifies(f)
        /\ trail["correlation"] = {CorrelationEntry(old.view, old.missing)}
        /\ Reasons(old.view) = {} /\ incident.severity = Severity(old.view)
        /\ Severity(old.view) # "low"
    BY <1>1, <1>2 DEF Grounded, Viewing, Deciding
  <2>6. Grounded(x, evidence', trail', incident'.severity, decision' # {})
    <3>1. decision' # {}
      BY <1>3
    <3>2. \A t \in Before["validation"] : trail'[t] = {Completed}
      BY <1>2, <2>5 DEF Before, PlanStages
    <3>3. \A s \in EvidenceSources : x.branch[s].pc = "done" => x.branch[s].facts \subseteq evidence'
      BY <1>1, <1>2, <2>4 DEF Grounded
    <3> QED BY <1>2, <2>4, <2>5, <3>1, <3>2, <3>3 DEF Grounded, Viewing, Deciding
  <2>7. ExecutionsAreGrounded' /\ execution' \in [Executions -> ExecutionState]
    BY <2>1, <2>3, <2>4, <2>6, OneMoves
  <2>8. PlansAreDerived'
    BY <1>3 DEF PlansAreDerived, Result
  <2>9. PlanHasItsTrail'
    <3>1. incident.status = "awaiting_approval" => decision' # {}
      BY <1>3
    <3>2. \A plan \in decision' :
            /\ plan.evidence = old.view /\ plan.missing = old.missing
            /\ plan.severity = Severity(old.view)
      BY <1>3 DEF Result
    <3> QED BY <1>2, <2>5, <3>1, <3>2 DEF PlanHasItsTrail, Completed
  <2> QED BY <2>3, <2>7, <2>8, <2>9 DEF InvestigationInv, RowsAndExecutions, RowsStay
<1>4. CASE /\ UNCHANGED decision
           /\ execution' = [execution EXCEPT ![e].pc = "recording", ![e].entry = Invalid]
  <2> DEFINE x == [old EXCEPT !.pc = "recording", !.entry = Invalid]
  <2>1. Grows /\ RowsStay
    BY <1>2, <1>4, StillGrows DEF database
  <2>2. execution' = [execution EXCEPT ![e] = x]
    BY <1>4
  <2>3. Invalid \in RecordedOutcomes /\ Invalid.status = "blocked"
    BY DEF Invalid, Outcome, RecordedOutcomes
  <2>4. /\ x \in ExecutionState /\ x.pc = "recording" /\ x.view = old.view /\ x.stage = old.stage
        /\ x.missing = old.missing /\ x.branch = old.branch /\ x.entry = Invalid
    BY <1>1, <2>3 DEF ExecutionState
  <2>5. Grounded(old, evidence', trail', incident'.severity, decision' # {})
    BY <1>1, <2>1, GroundsStay
  <2>6. Grounded(x, evidence', trail', incident'.severity, decision' # {})
    BY <1>2, <2>3, <2>4, <2>5 DEF Grounded, Viewing, Deciding
  <2> QED BY <1>2, <1>4, <2>1, <2>2, <2>4, <2>6, StepKeeps
<1> QED BY <1>3, <1>4 DEF PersistResult

LEMMA RequestStep ==
  ASSUME InvestigationInv, NEW e \in Executions, RequestApproval(e)
  PROVE  InvestigationInv'
<1>1. decision' = decision /\ evidence' = evidence /\ trail' = trail
      /\ active' = active /\ selection' = selection /\ execution[e].pc = "ready"
  BY DEF RequestApproval
<1>2. decision # {}
  BY <1>1, StateOf DEF Grounded
<1>3. /\ incident'.severity = incident.severity
      /\ incident' \in [status : {"received", "investigating", "awaiting_approval"},
                        severity : Severities \cup {Nothing}]
  <2>1. incident \in [status : {"received", "investigating", "awaiting_approval"},
                      severity : Severities \cup {Nothing}]
    BY DEF InvestigationInv, RowsAndExecutions
  <2> QED BY <2>1 DEF RequestApproval
<1>4. Grows /\ RowsStay
  BY <1>1, <1>3 DEF Grows, RowsStay, InvestigationInv, RowsAndExecutions
<1>5. Ends(e, "requested") \/ Ends(e, "failed")
  BY DEF RequestApproval
<1> QED BY <1>1, <1>2, <1>4, <1>5, EndKeeps

LEMMA ActivationKeeps ==
  ASSUME InvestigationInv, ActivateRunbook
  PROVE  InvestigationInv'
<1>1. UNCHANGED <<incident, evidence, trail, selection, decision, execution>>
  BY DEF ActivateRunbook
<1>2. active' \in RunbookGenerations
  BY InvestigationAssumption
  DEF ActivateRunbook, InvestigationInv, RowsAndExecutions, RunbookGenerations
<1>3. RowsAndExecutions'
  BY <1>1, <1>2 DEF InvestigationInv, RowsAndExecutions
<1>4. ExecutionsAreGrounded' /\ PlansAreDerived' /\ PlanHasItsTrail'
  BY <1>1 DEF InvestigationInv, ExecutionsAreGrounded, PlansAreDerived, PlanHasItsTrail
<1> QED BY <1>3, <1>4 DEF InvestigationInv

-----------------------------------------------------------------------------
LEMMA TriageInitial ==
  InvestigationInit => InvestigationInv
<1> SUFFICES ASSUME InvestigationInit PROVE InvestigationInv
  OBVIOUS
<1> USE DEF InvestigationInit
<1>1. RowsAndExecutions
  BY EndedIsGrounded, InvestigationAssumption DEF RowsAndExecutions, RunbookGenerations
<1>2. ExecutionsAreGrounded
  BY EndedIsGrounded DEF ExecutionsAreGrounded
<1>3. PlansAreDerived /\ PlanHasItsTrail
  BY DEF PlansAreDerived, PlanHasItsTrail
<1> QED BY <1>1, <1>2, <1>3 DEF InvestigationInv

LEMMA NextKeeps ==
  InvestigationInv /\ [InvestigationNext]_investigationVars => InvestigationInv'
<1> SUFFICES ASSUME InvestigationInv, [InvestigationNext]_investigationVars
             PROVE  InvestigationInv'
  OBVIOUS
<1>1. CASE ActivateRunbook
  BY <1>1, ActivationKeeps
<1>2. ASSUME NEW e \in Executions, TriageStep(e)
      PROVE  InvestigationInv'
  BY <1>2, StartSteps, GatherSteps, CorrelateStep, AskSteps, StoreStep, RecordStep, PersistStep,
     RequestStep
  DEF TriageStep
<1>3. CASE UNCHANGED investigationVars
  BY <1>3 DEF investigationVars, InvestigationInv, RowsAndExecutions, ExecutionsAreGrounded,
              PlansAreDerived, PlanHasItsTrail
<1> QED BY <1>1, <1>2, <1>3 DEF InvestigationNext

\* The inductive invariant of the triage: the rows of the run, and what every execution,
\* wherever it is between two writes of the triage, may rely on in the database.
THEOREM TriageInvariance == InvestigationSpec => []InvestigationInv
BY TriageInitial, NextKeeps, PTL DEF InvestigationSpec

\* persistAuthoritativePhase5Result and request-approval: a manager is asked only with a
\* result, and the result is one execution's own: evidence that is stored and verifies,
\* without reasons against it, of the severity the incident shows, with the correlation
\* and the four completed stages that its trail tells.
THEOREM PlanTrail == InvestigationSpec => []PlanHasItsTrail
<1>1. InvestigationInv => PlanHasItsTrail
  BY DEF InvestigationInv
<1> QED BY <1>1, TriageInvariance, PTL

-----------------------------------------------------------------------------
\* Each stage has one event and a run one result.
Single(S) == \A x, y \in S : x = y

RowsAreSingle ==
  /\ evidence \subseteq Facts
  /\ \A stage \in Stages : Single(trail[stage])
  /\ Single(decision)

LEMMA SingleIsAtMostOne ==
  ASSUME NEW S, Single(S)
  PROVE  Cardinality(S) <= 1
<1>1. CASE S = {}
  BY <1>1, FS_EmptySet
<1>2. CASE S # {}
  <2>1. PICK x : S = {x}
    BY <1>2 DEF Single
  <2> QED BY <2>1, FS_Singleton
<1> QED BY <1>1, <1>2

LEMMA AppendsStaySingle ==
  ASSUME RowsAndExecutions, RowsAreSingle, NEW stage \in Stages, NEW entry, Appends(stage, entry)
  PROVE  \A t \in Stages : Single(trail'[t])
BY DEF Appends, RowsAndExecutions, RowsAreSingle, Single

\* No step appends a second event of a stage or stores a second result.
LEMMA RowsStaySingle ==
  ASSUME RowsAndExecutions, RowsAreSingle, [InvestigationNext]_investigationVars
  PROVE  RowsAreSingle'
<1>1. ASSUME UNCHANGED <<evidence, trail, decision>>
      PROVE  RowsAreSingle'
  BY <1>1 DEF RowsAreSingle
<1>2. ASSUME NEW e \in Executions, NEW s \in EvidenceSources, PersistEvidence(e, s)
      PROVE  RowsAreSingle'
  <2>1. execution[e].branch[s].facts \subseteq Facts
    BY DEF RowsAndExecutions, ExecutionState, Branches
  <2>2. evidence' \subseteq Facts
    BY <1>2, <2>1 DEF PersistEvidence, RowsAreSingle
  <2>3. UNCHANGED <<trail, decision>>
    BY <1>2 DEF PersistEvidence
  <2> QED BY <2>2, <2>3 DEF RowsAreSingle
<1>3. ASSUME NEW e \in Executions, CorrelateEvents(e)
      PROVE  RowsAreSingle'
  <2>1. UNCHANGED <<evidence, decision>>
    BY <1>3 DEF CorrelateEvents
  <2>2. UNCHANGED trail \/ \E entry : Appends("correlation", entry)
    BY <1>3 DEF CorrelateEvents
  <2>3. "correlation" \in Stages
    BY DEF Stages
  <2>4. \A t \in Stages : Single(trail'[t])
    BY <2>2, <2>3, AppendsStaySingle DEF RowsAreSingle
  <2> QED BY <2>1, <2>4 DEF RowsAreSingle
<1>4. ASSUME NEW e \in Executions, RecordStage(e)
      PROVE  RowsAreSingle'
  <2>1. UNCHANGED <<evidence, decision>>
    BY <1>4 DEF RecordStage
  <2>2. execution[e].stage \in Stages
    BY DEF RowsAndExecutions, ExecutionState, Stages
  <2>3. UNCHANGED trail \/ Appends(execution[e].stage, execution[e].entry)
    BY <1>4 DEF RecordStage
  <2>4. \A t \in Stages : Single(trail'[t])
    BY <2>2, <2>3, AppendsStaySingle DEF RowsAreSingle
  <2> QED BY <2>1, <2>4 DEF RowsAreSingle
<1>5. ASSUME NEW e \in Executions, PersistResult(e)
      PROVE  RowsAreSingle'
  <2>1. UNCHANGED <<evidence, trail>>
    BY <1>5 DEF PersistResult
  <2>2. decision' = decision \/ decision' = {Result(e)}
    BY <1>5 DEF PersistResult
  <2> QED BY <2>1, <2>2 DEF RowsAreSingle, Single
<1>6. ASSUME NEW e \in Executions, TriageStep(e)
      PROVE  RowsAreSingle'
  <2>1. ASSUME StartInvestigation(e) \/ ValidateScope(e) \/ SelectRunbook(e) \/ AskModel(e)
               \/ StoreSeverity(e) \/ RequestApproval(e) \/ Dies(e)
        PROVE  UNCHANGED <<evidence, trail, decision>>
    BY <2>1 DEF StartInvestigation, ValidateScope, SelectRunbook, AskModel, StoreSeverity,
                RequestApproval, Dies, database
  <2>2. ASSUME NEW s \in EvidenceSources, Inspect(e, s)
        PROVE  UNCHANGED <<evidence, trail, decision>>
    BY <2>2 DEF Inspect, database
  <2> QED BY <1>1, <1>2, <1>3, <1>4, <1>5, <1>6, <2>1, <2>2 DEF TriageStep
<1> QED
  BY <1>1, <1>6 DEF InvestigationNext, ActivateRunbook, investigationVars

\* The rows of the run and its executions stay in their declared sets: no stage of a run
\* is told of twice, and no second result is stored.
THEOREM InvestigationTypes == InvestigationSpec => []InvestigationTypeOK
<1>1. InvestigationInit => RowsAreSingle
  BY DEF InvestigationInit, RowsAreSingle, Single
<1>2. InvestigationInv => RowsAndExecutions
  BY DEF InvestigationInv
<1>3. InvestigationInv /\ RowsAreSingle /\ [InvestigationNext]_investigationVars => RowsAreSingle'
  BY <1>2, RowsStaySingle
<1>4. RowsAndExecutions /\ RowsAreSingle => InvestigationTypeOK
  <2> SUFFICES ASSUME RowsAndExecutions, RowsAreSingle
               PROVE  InvestigationTypeOK
    OBVIOUS
  <2>1. /\ \A stage \in Stages : Cardinality(trail[stage]) <= 1
        /\ Cardinality(decision) <= 1
    BY SingleIsAtMostOne DEF RowsAreSingle
  <2>2. DOMAIN trail = Stages
    BY DEF RowsAndExecutions
  <2> QED BY <2>1, <2>2 DEF RowsAndExecutions, RowsAreSingle, ExecutionState, InvestigationTypeOK
<1> QED BY <1>1, <1>2, <1>3, <1>4, TriageInvariance, PTL DEF InvestigationSpec
=============================================================================
