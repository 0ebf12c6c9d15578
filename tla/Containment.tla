----------------------------- MODULE Containment -----------------------------
(***************************************************************************)
(* Execution of one approved containment plan.  Several executors run the  *)
(* plan's actions in order through the gateway (containment/gateway.ts):   *)
(* the workflow step execute-containment with the steps that follow it,    *)
(* and the partial retry that the recovery dispatcher of each process      *)
(* starts (containment/partial-retry.ts).  They share the incident, the    *)
(* actions, the fenced attempts (containment/execution-claims.ts) and the  *)
(* durable effects of the mock provider, and interleave between any two    *)
(* statements or transactions.                                             *)
(*                                                                         *)
(* Mode "mock": no WorkOS ledger.  An action is its ordinal in the plan, a *)
(* fence token is the number of its attempt, an incident version is "still *)
(* the one I read" or not, and a lease is live or has elapsed.             *)
(***************************************************************************)
EXTENDS Naturals, FiniteSets

CONSTANTS
  Steppers,          \* resumptions of the workflow run, each at most once
  Retriers,          \* recovery dispatchers, one per process
  NumActions,        \* actions in the plan
  MaxAttempts,       \* attempts per action before the budget denies (3)
  MaxFaults,         \* failures the environment may inject (bound)
  ApprovalOutlives,  \* TRUE: the approval does not expire during the run
  PatientTimers      \* TRUE: a lease outlasts the work of its holder

ASSUME ContainmentAssumption ==
  /\ Steppers \cap Retriers = {}
  /\ NumActions \in Nat \ {0}
  /\ MaxAttempts \in Nat \ {0}
  /\ MaxFaults \in Nat
  /\ ApprovalOutlives \in BOOLEAN
  /\ PatientTimers \in BOOLEAN

VARIABLES
  incident,     \* incidents.status
  containedBy,  \* correlation of the containment.completed/contained event
  expired,      \* approvals.expires_at has passed
  action,       \* containment_actions.status
  attempt,      \* containment_action_attempts.status of each attempt
  tries,        \* number of attempts of each action
  leased,       \* lease_expires_at of the latest attempt is in the future
  effect,       \* mock_containment_effects: the attempt that applied it, or 0
  exec,         \* the executors
  late,         \* timed-out provider operations that still run
  marked,       \* workflow_runs.status is 'completed'
  faults        \* failures injected so far

vars == <<incident, containedBy, expired, action, attempt, tries, leased,
          effect, exec, late, marked, faults>>
approval == <<incident, containedBy, expired, marked>>
claims == <<action, attempt, tries, leased>>

-----------------------------------------------------------------------------
Executors == Steppers \cup Retriers
Actions == 1..NumActions
Attempts == 1..MaxAttempts

Outcomes == {"completed", "blocked", "failed", "timed_out"}
ActionStatus == {"pending", "executing"} \cup Outcomes
AttemptStatus == {"none", "executing"} \cup Outcomes
IncidentStatus == {"approved", "containing", "failed", "contained", "closed"}
Correlations == {"none", "step", "retry"}

Pc == {"ready", "idle", "binding", "entering", "authorizing", "claiming",
       "applying", "verifying", "finishing", "reading", "recording", "closing",
       "marking"}

\* fresh: the incident version this executor read is still the current one.
\* caught: the gateway is in its catch block.
ExecState == [pc : Pc, at : Actions, n : 0..MaxAttempts,
              verdict : Outcomes \cup {"none"}, caught : BOOLEAN,
              fresh : BOOLEAN, corr : Correlations]

Idle == [pc |-> "idle", at |-> 1, n |-> 0, verdict |-> "none",
         caught |-> FALSE, fresh |-> FALSE, corr |-> "none"]

TypeOK ==
  /\ incident \in IncidentStatus
  /\ containedBy \in Correlations
  /\ expired \in BOOLEAN
  /\ action \in [Actions -> ActionStatus]
  /\ attempt \in [Actions -> [Attempts -> AttemptStatus]]
  /\ tries \in [Actions -> 0..MaxAttempts]
  /\ leased \in [Actions -> BOOLEAN]
  /\ effect \in [Actions -> 0..MaxAttempts]
  /\ exec \in [Executors -> ExecState]
  /\ late \in [Executors -> SUBSET (Actions \X Attempts)]
  /\ marked \in BOOLEAN
  /\ faults \in 0..MaxFaults

Init ==
  /\ incident = "approved"
  /\ containedBy = "none"
  /\ expired = FALSE
  /\ action = [a \in Actions |-> "pending"]
  /\ attempt = [a \in Actions |-> [n \in Attempts |-> "none"]]
  /\ tries = [a \in Actions |-> 0]
  /\ leased = [a \in Actions |-> FALSE]
  /\ effect = [a \in Actions |-> 0]
  /\ exec = [x \in Executors |->
       IF x \in Steppers THEN [Idle EXCEPT !.pc = "ready", !.corr = "step"]
       ELSE Idle]
  /\ late = [x \in Executors |-> {}]
  /\ marked = FALSE
  /\ faults = 0

-----------------------------------------------------------------------------
(* Helpers *)

Fault == faults < MaxFaults /\ faults' = faults + 1

Abort(x) == exec' = [exec EXCEPT ![x] = Idle]
Goto(x, pc) == exec' = [exec EXCEPT ![x].pc = pc]

\* The latest attempt of a is n and still open, live or not.
Open(a, n) == n = tries[a] /\ n > 0 /\ attempt[a][n] = "executing"

\* assertActiveFence, and the guard inside the effect's INSERT.
ActiveFence(a, n) == Open(a, n) /\ leased[a] /\ action[a] = "executing"

\* The incident changes to status s: every version read before is stale now.
ChangeIncident(x, s, next) ==
  /\ incident' = s
  /\ exec' = [y \in Executors |->
       IF y = x THEN next ELSE [exec[y] EXCEPT !.fresh = FALSE]]

\* The action loop after an outcome: go on to the next action, or stop.
AfterOutcome(e, outcome) ==
  IF outcome = "completed" /\ e.at < NumActions
  THEN [e EXCEPT !.pc = "authorizing", !.at = @ + 1, !.n = 0,
                 !.verdict = "none", !.caught = FALSE]
  ELSE [e EXCEPT !.pc = "reading", !.n = 0, !.caught = FALSE,
                 !.verdict = IF outcome = "completed" THEN outcome ELSE "failed"]

\* The attempt row and the action row get the same status in one transaction.
CloseAttempt(a, n, status) ==
  /\ attempt' = [attempt EXCEPT ![a][n] = status]
  /\ action' = [action EXCEPT ![a] = status]
  /\ leased' = [leased EXCEPT ![a] = FALSE]

-----------------------------------------------------------------------------
(* How an executor gets to the action loop *)

\* execute-containment reads the incident.
StartStep(x) ==
  /\ exec[x].pc = "ready"
  /\ exec' = [exec EXCEPT ![x] =
       CASE incident = "approved" -> [@ EXCEPT !.pc = "entering", !.fresh = TRUE]
         [] incident = "containing" -> [@ EXCEPT !.pc = "authorizing"]
         [] incident = "contained" -> [@ EXCEPT !.pc = "closing"]
         [] OTHER -> Idle]
  /\ UNCHANGED <<approval, claims, effect, late, faults>>

\* The action statuses the recovery query asks for; "executing" is not one.
Retriable(a) ==
  /\ action[a] \in {"pending", "failed", "blocked", "timed_out"}
  /\ tries[a] < MaxAttempts

\* The SELECT of retryContainmentOne.
Due ==
  \/ /\ incident \in {"failed", "containing"}
     /\ ~expired
     /\ \A a \in Actions : ~(Open(a, tries[a]) /\ leased[a])
     /\ \E a \in Actions : Retriable(a)
  \/ incident = "contained"

\* Mutant: a retry always records and closes under a correlation of its own.
SelectWithNewCorrelation(x) ==
  /\ x \in Retriers
  /\ exec[x].pc = "idle"
  /\ Due
  /\ exec' = [exec EXCEPT ![x].pc = "binding", ![x].corr = "retry"]
  /\ UNCHANGED <<approval, claims, effect, late, faults>>

\* The correlation of an earlier contained event is kept, else a new one made.
Select(x) ==
  /\ x \in Retriers
  /\ exec[x].pc = "idle"
  /\ Due
  /\ exec' = [exec EXCEPT ![x].pc = "binding", ![x].corr =
       IF containedBy # "none" THEN containedBy ELSE "retry"]
  /\ UNCHANGED <<approval, claims, effect, late, faults>>

\* retryPartialContainment reads incident and approval again.
Bind(x) ==
  /\ exec[x].pc = "binding"
  /\ exec' = [exec EXCEPT ![x] =
       CASE incident = "contained" -> [@ EXCEPT !.pc = "closing"]
         [] incident = "failed" /\ ~expired ->
              [@ EXCEPT !.pc = "entering", !.fresh = TRUE]
         [] incident = "containing" /\ ~expired ->
              [@ EXCEPT !.pc = "authorizing"]
         [] OTHER -> Idle]
  /\ UNCHANGED <<approval, claims, effect, late, faults>>

\* transitionIncident to "containing" under the version read before.
Enter(x) ==
  /\ exec[x].pc = "entering"
  /\ IF exec[x].fresh
     THEN ChangeIncident(x, "containing",
            [exec[x] EXCEPT !.pc = "authorizing", !.fresh = FALSE])
     ELSE Abort(x) /\ UNCHANGED incident
  /\ UNCHANGED <<containedBy, expired, marked, claims, effect, late, faults>>

-----------------------------------------------------------------------------
(* The gateway, one action at a time *)

\* authorizeGatewayAction up to the claim: plan, approval and incident are read
\* in one statement, outside the claim's transaction.
Authorize(x) ==
  /\ exec[x].pc = "authorizing"
  /\ IF ~expired /\ incident \in {"approved", "containing"}
     THEN Goto(x, "claiming") ELSE Abort(x)
  /\ UNCHANGED <<approval, claims, effect, late, faults>>

\* A verified attempt is replayed.
ClaimReplayed(x) ==
  LET a == exec[x].at IN
  /\ exec[x].pc = "claiming"
  /\ \E n \in Attempts : attempt[a][n] = "completed"
  /\ exec' = [exec EXCEPT ![x] = AfterOutcome(@, "completed")]
  /\ UNCHANGED <<approval, claims, effect, late, faults>>

\* The rows a claim still has to deal with.
Unverified(x) ==
  /\ exec[x].pc = "claiming"
  /\ \A n \in Attempts : attempt[exec[x].at][n] # "completed"

\* The budget is spent, or another executor's attempt is live.
ClaimDenied(x) ==
  LET a == exec[x].at IN
  /\ Unverified(x)
  /\ tries[a] >= MaxAttempts \/ (Open(a, tries[a]) /\ leased[a])
  /\ Abort(x)
  /\ UNCHANGED <<approval, claims, effect, late, faults>>

\* Mutant: one attempt more than the budget.
ReclaimableOverBudget(x) ==
  LET a == exec[x].at IN
  /\ Unverified(x)
  /\ tries[a] <= MaxAttempts
  /\ ~(Open(a, tries[a]) /\ leased[a])

\* The claim may look at an attempt whose lease has elapsed, or at none.
Reclaimable(x) ==
  LET a == exec[x].at IN
  /\ Unverified(x)
  /\ tries[a] < MaxAttempts
  /\ ~(Open(a, tries[a]) /\ leased[a])

\* An interrupted attempt left its effect behind.
EffectOfInterrupted(a) == Open(a, tries[a]) /\ effect[a] = tries[a]

\* ... and is completed in its name.
ClaimReconciled(x) ==
  LET a == exec[x].at IN
  /\ Reclaimable(x)
  /\ EffectOfInterrupted(a)
  /\ CloseAttempt(a, tries[a], "completed")
  /\ exec' = [exec EXCEPT ![x] = AfterOutcome(@, "completed")]
  /\ UNCHANGED <<approval, tries, effect, late, faults>>

\* Mutant: the interrupted attempt keeps its fence.
NotFenced(a) == attempt[a]

\* An interrupted attempt without its effect is fenced off as failed.
Fenced(a) == IF Open(a, tries[a])
             THEN [attempt[a] EXCEPT ![tries[a]] = "failed"] ELSE attempt[a]

PredecessorsCompleted(a) == \A b \in 1..(a - 1) : action[b] = "completed"

\* Denied for an incomplete predecessor or the tenant's rate limit (a fault
\* here, for it counts attempts of other incidents); the fencing commits.
ClaimBlocked(x) ==
  LET a == exec[x].at IN
  /\ Reclaimable(x)
  /\ ~EffectOfInterrupted(a)
  /\ IF PredecessorsCompleted(a) THEN Fault ELSE UNCHANGED faults
  /\ attempt' = [attempt EXCEPT ![a] = Fenced(a)]
  /\ action' = [action EXCEPT ![a] = IF Open(a, tries[a]) THEN "failed" ELSE @]
  /\ leased' = [leased EXCEPT ![a] = FALSE]
  /\ Abort(x)
  /\ UNCHANGED <<approval, tries, effect, late>>

\* A new attempt with a new fence and a new lease.
ClaimGranted(x) ==
  LET a == exec[x].at IN
  /\ Reclaimable(x)
  /\ ~EffectOfInterrupted(a)
  /\ PredecessorsCompleted(a)
  /\ tries' = [tries EXCEPT ![a] = @ + 1]
  /\ attempt' = [attempt EXCEPT ![a] =
       [Fenced(a) EXCEPT ![tries[a] + 1] = "executing"]]
  /\ action' = [action EXCEPT ![a] = "executing"]
  /\ leased' = [leased EXCEPT ![a] = TRUE]
  /\ exec' = [exec EXCEPT ![x].pc = "applying", ![x].n = tries[a] + 1]
  /\ UNCHANGED <<approval, effect, late, faults>>

\* The gateway enters its catch block and will finish with this verdict.
Caught(x, verdict) ==
  exec' = [exec EXCEPT ![x].pc = "finishing", ![x].verdict = verdict,
                       ![x].caught = TRUE]

\* The provider call under the fence.  A retry that finds the effect of an
\* earlier attempt only verifies it; a lost fence throws.
ApplyEffect(x) ==
  LET a == exec[x].at
      n == exec[x].n
  IN
  /\ exec[x].pc = "applying"
  /\ \/ /\ ~ActiveFence(a, n)
        /\ Caught(x, "failed")
        /\ UNCHANGED effect
     \/ /\ ActiveFence(a, n)
        /\ effect' = [effect EXCEPT ![a] = IF @ = 0 THEN n ELSE @]
        /\ Goto(x, "verifying")
  /\ UNCHANGED <<approval, claims, late, faults>>

\* The provider throws, before or after the effect is stored.
ApplyThrows(x) ==
  LET a == exec[x].at
      n == exec[x].n
  IN
  /\ exec[x].pc = "applying"
  /\ ActiveFence(a, n)
  /\ effect[a] = 0
  /\ Fault
  /\ effect' \in {effect, [effect EXCEPT ![a] = n]}
  /\ exec' = [exec EXCEPT ![x].pc = "verifying", ![x].caught = TRUE]
  /\ UNCHANGED <<approval, claims, late>>

\* assertMockPrecondition fails under the fence.
PreconditionFails(x) ==
  LET a == exec[x].at IN
  /\ exec[x].pc = "applying"
  /\ ActiveFence(a, exec[x].n)
  /\ effect[a] = 0
  /\ Fault
  /\ Caught(x, "blocked")
  /\ UNCHANGED <<approval, claims, effect, late>>

\* withActionTimeout gives up; the operation itself goes on.
TimesOut(x) ==
  /\ exec[x].pc = "applying"
  /\ effect[exec[x].at] = 0
  /\ Fault
  /\ Caught(x, "timed_out")
  /\ late' = [late EXCEPT ![x] = @ \cup {<<exec[x].at, exec[x].n>>}]
  /\ UNCHANGED <<approval, claims, effect>>

\* Mutant: the effect's INSERT does not check the fence.
LateApplyUnfenced(x, a, n) ==
  /\ <<a, n>> \in late[x]
  /\ late' = [late EXCEPT ![x] = @ \ {<<a, n>>}]
  /\ effect' = [effect EXCEPT ![a] = IF @ = 0 THEN n ELSE @]
  /\ UNCHANGED <<approval, claims, exec, faults>>

\* The timed-out operation reaches its guarded INSERT at last.
LateApply(x, a, n) ==
  /\ <<a, n>> \in late[x]
  /\ late' = [late EXCEPT ![x] = @ \ {<<a, n>>}]
  /\ effect' = [effect EXCEPT ![a] =
       IF ActiveFence(a, n) /\ @ = 0 THEN n ELSE @]
  /\ UNCHANGED <<approval, claims, exec, faults>>

\* Mutant: a live fence is taken for a verified effect.
VerifyFenceOnly(x) ==
  /\ exec[x].pc = "verifying"
  /\ IF ActiveFence(exec[x].at, exec[x].n)
     THEN exec' = [exec EXCEPT ![x].pc = "finishing", ![x].verdict = "completed"]
     ELSE Caught(x, "failed")
  /\ UNCHANGED <<approval, claims, effect, late, faults>>

\* verifyMockEffect after the call, or again in the catch block.
VerifyEffect(x) ==
  LET a == exec[x].at IN
  /\ exec[x].pc = "verifying"
  /\ IF ActiveFence(a, exec[x].n) /\ effect[a] # 0
     THEN exec' = [exec EXCEPT ![x].pc = "finishing", ![x].verdict = "completed"]
     ELSE Caught(x, "failed")
  /\ UNCHANGED <<approval, claims, effect, late, faults>>

\* The provider cannot confirm its effect, or throws and is asked again in the
\* catch block.
VerificationFails(x) ==
  /\ exec[x].pc = "verifying"
  /\ Fault
  /\ \/ exec' = [exec EXCEPT ![x].pc = "finishing", ![x].verdict = "failed"]
     \/ ~exec[x].caught /\ exec' = [exec EXCEPT ![x].caught = TRUE]
  /\ UNCHANGED <<approval, claims, effect, late>>

\* Mutant: the fence token is not compared.
FinishUnfenced(x) ==
  /\ exec[x].pc = "finishing"
  /\ CloseAttempt(exec[x].at, exec[x].n, exec[x].verdict)
  /\ exec' = [exec EXCEPT ![x] = AfterOutcome(@, exec[x].verdict)]
  /\ UNCHANGED <<approval, tries, effect, late, faults>>

\* finishContainmentAction under the fence token; its lease is not compared.
Finish(x) ==
  LET a == exec[x].at
      n == exec[x].n
  IN
  /\ exec[x].pc = "finishing"
  /\ IF attempt[a][n] = "executing" /\ action[a] = "executing"
     THEN /\ CloseAttempt(a, n, exec[x].verdict)
          /\ exec' = [exec EXCEPT ![x] = AfterOutcome(@, exec[x].verdict)]
     ELSE Abort(x) /\ UNCHANGED <<action, attempt, leased>>
  /\ UNCHANGED <<approval, tries, effect, late, faults>>

\* Its transaction throws: in the try block the effect is verified once more,
\* a recovery that cannot be stored is stored as a failure, and a failure that
\* cannot be stored leaves the attempt open.
FinishThrows(x) ==
  /\ exec[x].pc = "finishing"
  /\ Fault
  /\ \/ /\ ~exec[x].caught
        /\ exec' = [exec EXCEPT ![x].pc = "verifying", ![x].caught = TRUE]
     \/ /\ exec[x].caught
        /\ exec[x].verdict = "completed"
        /\ exec' = [exec EXCEPT ![x].verdict = "failed"]
     \/ /\ exec[x].caught
        /\ exec[x].verdict # "completed"
        /\ Abort(x)
  /\ UNCHANGED <<approval, claims, effect, late>>

-----------------------------------------------------------------------------
(* The plan's outcome *)

\* getIncident before the outcome is recorded.
ReadIncident(x) ==
  /\ exec[x].pc = "reading"
  /\ exec' = [exec EXCEPT ![x].pc = "recording", ![x].fresh = TRUE]
  /\ UNCHANGED <<approval, claims, effect, late, faults>>

\* Mutant: the plan counts as contained once its first action is verified.
TargetOfAnySuccess(x) ==
  IF \E a \in Actions : action[a] = "completed" THEN "contained" ELSE "failed"

Target(x) == IF exec[x].verdict = "completed" THEN "contained" ELSE "failed"

AfterRecord(e, target) ==
  IF target = "contained" THEN [e EXCEPT !.pc = "closing", !.fresh = FALSE] ELSE Idle

\* Mutant: the outcome is recorded over whatever status was read.
RecordOutcomeOverAny(x) ==
  LET target == Target(x) IN
  /\ exec[x].pc = "recording"
  /\ IF exec[x].fresh
     THEN /\ ChangeIncident(x, target, AfterRecord(exec[x], target))
          /\ containedBy' = IF target = "contained" THEN exec[x].corr ELSE containedBy
     ELSE Abort(x) /\ UNCHANGED <<incident, containedBy>>
  /\ UNCHANGED <<expired, marked, claims, effect, late, faults>>

\* recordContainmentOutcome: a status that is already there is left alone.
RecordOutcome(x) ==
  LET target == Target(x) IN
  /\ exec[x].pc = "recording"
  /\ \/ /\ incident = target
        /\ exec' = [exec EXCEPT ![x] = AfterRecord(@, target)]
        /\ UNCHANGED <<incident, containedBy>>
     \/ /\ incident = "containing"
        /\ exec[x].fresh
        /\ ChangeIncident(x, target, AfterRecord(exec[x], target))
        /\ containedBy' = IF target = "contained" THEN exec[x].corr ELSE containedBy
     \/ /\ incident # target
        /\ incident # "containing" \/ ~exec[x].fresh
        /\ Abort(x)
        /\ UNCHANGED <<incident, containedBy>>
  /\ UNCHANGED <<expired, marked, claims, effect, late, faults>>

\* closeValidatedTerminalIncident: assertTerminalReadiness inside the closing
\* transaction; an incident closed under the same correlation is replayed.
CloseIncident(x) ==
  LET next == IF x \in Steppers THEN [exec[x] EXCEPT !.pc = "marking"] ELSE Idle IN
  /\ exec[x].pc = "closing"
  /\ \/ /\ incident = "contained"
        /\ containedBy = exec[x].corr
        /\ \A a \in Actions : action[a] = "completed"
        /\ ChangeIncident(x, "closed", next)
     \/ /\ incident = "closed"
        /\ containedBy = exec[x].corr
        /\ exec' = [exec EXCEPT ![x] = next]
        /\ UNCHANGED incident
     \/ /\ \/ incident \notin {"contained", "closed"}
           \/ containedBy # exec[x].corr
           \/ incident = "contained" /\ \E a \in Actions : action[a] # "completed"
        /\ Abort(x)
        /\ UNCHANGED incident
  /\ UNCHANGED <<containedBy, expired, marked, claims, effect, late, faults>>

\* finalize-incident marks the workflow run completed.
MarkRun(x) ==
  /\ exec[x].pc = "marking"
  /\ marked' = TRUE
  /\ Abort(x)
  /\ UNCHANGED <<incident, containedBy, expired, claims, effect, late, faults>>

-----------------------------------------------------------------------------
(* Time, storage errors and crashes *)

ApprovalExpires ==
  /\ ~ApprovalOutlives
  /\ ~expired
  /\ expired' = TRUE
  /\ UNCHANGED <<incident, containedBy, marked, claims, effect, exec, late, faults>>

\* The gateway call that holds attempt n of a is still going on.
Working(a, n) ==
  \E x \in Executors :
    /\ exec[x].pc \in {"applying", "verifying", "finishing"}
    /\ exec[x].at = a /\ exec[x].n = n

LeaseElapses(a) ==
  /\ leased[a]
  /\ PatientTimers => ~Working(a, tries[a])
  /\ leased' = [leased EXCEPT ![a] = FALSE]
  /\ UNCHANGED <<approval, action, attempt, tries, effect, exec, late, faults>>

\* A read or a transaction outside the gateway's try block throws.
StoreThrows(x) ==
  /\ exec[x].pc \in {"binding", "entering", "authorizing", "claiming", "reading",
                     "recording", "closing", "marking"}
  /\ Fault
  /\ Abort(x)
  /\ UNCHANGED <<approval, claims, effect, late>>

\* The process dies with its executor and the operations it still ran.
Crash(x) ==
  /\ exec[x].pc \notin {"ready", "idle"} \/ late[x] # {}
  /\ Fault
  /\ Abort(x)
  /\ late' = [late EXCEPT ![x] = {}]
  /\ UNCHANGED <<approval, claims, effect>>

-----------------------------------------------------------------------------
Step(x) ==
  \/ StartStep(x) \/ Bind(x) \/ Enter(x) \/ Authorize(x)
  \/ ClaimReplayed(x) \/ ClaimDenied(x) \/ ClaimReconciled(x) \/ ClaimGranted(x)
  \/ ApplyEffect(x) \/ VerifyEffect(x) \/ Finish(x)
  \/ ReadIncident(x) \/ RecordOutcome(x) \/ CloseIncident(x) \/ MarkRun(x)

Failure(x) ==
  \/ ApplyThrows(x) \/ PreconditionFails(x) \/ TimesOut(x) \/ VerificationFails(x)
  \/ FinishThrows(x) \/ StoreThrows(x) \/ Crash(x)

Next ==
  \/ ApprovalExpires
  \/ \E a \in Actions : LeaseElapses(a)
  \/ \E x \in Executors :
       \/ Step(x) \/ Select(x) \/ ClaimBlocked(x) \/ Failure(x)
       \/ \E a \in Actions, n \in Attempts : LateApply(x, a, n)

Spec == Init /\ [][Next]_vars

\* Executors that began go on, the recovery loop polls, leases elapse.
FairSpec ==
  /\ Spec
  /\ \A x \in Executors : WF_vars(Step(x)) /\ WF_vars(Select(x)) /\ WF_vars(ClaimBlocked(x))
  /\ \A a \in Actions : WF_vars(LeaseElapses(a))
=============================================================================
