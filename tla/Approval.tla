------------------------------ MODULE Approval ------------------------------
(***************************************************************************)
(* One approval from its request to the end of the resumed workflow run:   *)
(* the steps request-approval, open-external-incident and await-approval,  *)
(* the decision over HTTP or on the dashboard (approval/routes.ts,         *)
(* dashboard/approval.ts), the one-time resume token                       *)
(* (db/approval-decision-operations.ts, db/approval-resume-operations.ts), *)
(* the expiry (db/approval-expiry-operations.ts), the reconciler that      *)
(* resumes the run (approval/workflow-resume-reconciler.ts) and the        *)
(* recovery loop (background/phase6-recovery-dispatcher.ts).               *)
(*                                                                         *)
(* Request handlers and recovery loops interleave between any two          *)
(* transactions or engine calls.  The workflow engine is external: a       *)
(* durable snapshot of the run, which resume() checks and then executes.   *)
(* The containment inside the resumed run is reduced to the incident       *)
(* statuses it goes through; module Containment has its detail.            *)
(***************************************************************************)
EXTENDS Naturals

CONSTANTS
  Handlers,      \* decision requests in progress
  Loops,         \* recovery loops, one per server process
  Deciders,      \* people who may decide
  NoOne,         \* "decided by nobody yet"
  SingleResume,  \* TRUE: the engine never starts two executions of a run
  MaxFaults      \* failures the environment may inject (bound)

ASSUME ApprovalAssumption ==
  /\ Handlers \cap Loops = {}
  /\ NoOne \notin Deciders
  /\ SingleResume \in BOOLEAN
  /\ MaxFaults \in Nat

VARIABLES
  incident,  \* incidents.status
  decision,  \* approvals.decision with its author
  token,     \* approval_resume_tokens: "none", "issued", "consumed", "resumed"
  expired,   \* expires_at of approval and token has passed
  lapsed,    \* approvals.expiry_resumed_at is set
  run,       \* the engine's snapshot of the workflow run
  start,     \* where the first execution of the run is
  actor,     \* the handlers and loops
  faults     \* failures injected so far

vars == <<incident, decision, token, expired, lapsed, run, start, actor, faults>>

-----------------------------------------------------------------------------
Actors == Handlers \cup Loops
Choices == {"approved", "rejected"}
IncidentStatus == {"investigating", "awaiting_approval", "approved", "rejected",
                   "containing", "contained", "failed", "closed"}
Results == {"none", "contained", "failed", "rejected", "expired"}
Receipts == {"none", "token", "expiry"}

Ask == [choice : Choices \cup {"none"}, by : Deciders \cup {NoOne}]
Undecided == [choice |-> "none", by |-> NoOne]

RunState == [status : {"running", "suspended", "success", "failed"},
             receipt : Receipts, result : Results]

Pc == {"idle", "expiring", "looking", "deciding", "authorizing", "lapsing",
       "checking", "resuming", "woken", "reading", "entering", "containing",
       "lapsed", "closing", "rechecking", "marking"}

\* intime: the clock read before the coming transaction was before the expiry.
\* genuine: the token in hand is the one that was stored.
ActorState == [pc : Pc, ask : Ask, intime : BOOLEAN, genuine : BOOLEAN,
               receipt : Receipts]

Idle == [pc |-> "idle", ask |-> Undecided, intime |-> FALSE, genuine |-> FALSE,
         receipt |-> "none"]

TypeOK ==
  /\ incident \in IncidentStatus
  /\ decision \in Ask
  /\ token \in {"none", "issued", "consumed", "resumed"}
  /\ expired \in BOOLEAN
  /\ lapsed \in BOOLEAN
  /\ run \in RunState
  /\ start \in {"requesting", "opening", "suspending", "over"}
  /\ actor \in [Actors -> ActorState]
  /\ faults \in 0..MaxFaults

Init ==
  /\ incident = "investigating"
  /\ decision = Undecided
  /\ token = "none"
  /\ expired = FALSE
  /\ lapsed = FALSE
  /\ run = [status |-> "running", receipt |-> "none", result |-> "none"]
  /\ start = "requesting"
  /\ actor = [x \in Actors |-> Idle]
  /\ faults = 0

-----------------------------------------------------------------------------
(* Helpers *)

row == <<incident, decision, token, lapsed>>

Fault == faults < MaxFaults /\ faults' = faults + 1

Leave(x) == actor' = [actor EXCEPT ![x] = Idle]
Goto(x, pc) == actor' = [actor EXCEPT ![x].pc = pc]

\* On to a transaction whose clock is read now.
GotoTimed(x, pc) == actor' = [actor EXCEPT ![x].pc = pc, ![x].intime = ~expired]

\* The run's execution in x ended with a result, or threw.
Ends(x, result) ==
  /\ run' = [status |-> IF result = "none" THEN "failed" ELSE "success",
             receipt |-> actor[x].receipt, result |-> result]
  /\ Goto(x, "rechecking")

-----------------------------------------------------------------------------
(* The first execution of the run, up to its suspension *)

\* requestApproval: plan, actions, approval and awaiting_approval in one
\* transaction; an expired plan is refused, and the run fails.
RequestApproval ==
  /\ start = "requesting"
  /\ IF expired
     THEN /\ run' = [run EXCEPT !.status = "failed"]
          /\ start' = "over"
          /\ UNCHANGED incident
     ELSE /\ incident' = "awaiting_approval"
          /\ start' = "opening"
          /\ UNCHANGED run
  /\ UNCHANGED <<decision, token, expired, lapsed, actor, faults>>

\* open-external-incident: the ticket was created.
OpenExternal ==
  /\ start = "opening"
  /\ start' = "suspending"
  /\ UNCHANGED <<row, expired, run, actor, faults>>

\* await-approval suspends; the engine stores the snapshot.
Suspend ==
  /\ start = "suspending"
  /\ start' = "over"
  /\ run' = [run EXCEPT !.status = "suspended"]
  /\ UNCHANGED <<row, expired, actor, faults>>

\* A step before the suspension throws, as open-external-incident does when
\* the delivery did not succeed; or its process dies, and the run stays
\* "running" in the snapshot.
StartBreaks ==
  /\ start # "over"
  /\ Fault
  /\ start' = "over"
  /\ \/ run' = [run EXCEPT !.status = "failed"]
     \/ UNCHANGED run
  /\ UNCHANGED <<row, expired, actor>>

-----------------------------------------------------------------------------
(* A decision request *)

\* The handler reads approval and incident and compares the clock.
Submit(h) ==
  /\ h \in Handlers
  /\ actor[h].pc = "idle"
  /\ incident # "investigating"
  /\ \E d \in Deciders, c \in Choices :
       actor' = [actor EXCEPT ![h].ask = [choice |-> c, by |-> d],
                              ![h].pc = IF expired THEN "expiring" ELSE "looking"]
  /\ UNCHANGED <<row, expired, run, start, faults>>

\* Mutant: the expiry ignores a decision taken meanwhile.
LapsesDespiteDecision ==
  expired /\ incident \in {"awaiting_approval", "approved", "rejected"}

\* The guards of expirePendingApproval.
Lapses == expired /\ decision = Undecided /\ incident = "awaiting_approval"

\* expirePendingApproval: awaiting_approval -> failed, the decision stays open.
Lapse == incident' = IF Lapses THEN "failed" ELSE incident

\* A late request expires the approval itself and is refused.
ExpireOnRequest(h) ==
  /\ actor[h].pc = "expiring"
  /\ Lapse
  /\ Leave(h)
  /\ UNCHANGED <<decision, token, expired, lapsed, run, start, faults>>

\* decideApprovalAndIssueResumeToken looks for a decision: the same one is
\* replayed with the stored token, another one is a conflict.
Look(h) ==
  /\ actor[h].pc = "looking"
  /\ \/ /\ decision = Undecided
        /\ GotoTimed(h, "deciding")
     \/ /\ decision = actor[h].ask
        /\ actor' = [actor EXCEPT ![h].pc = "authorizing", ![h].genuine = TRUE,
                                  ![h].intime = ~expired]
     \/ /\ decision \notin {Undecided, actor[h].ask}
        /\ Leave(h)
  /\ UNCHANGED <<row, expired, run, start, faults>>

\* Mutant: a decision of somebody else is overwritten.
DecidableAgain(h) == actor[h].intime /\ incident \in {"awaiting_approval", "rejected"}

\* Mutant: the incident's status is not compared.
DecidableLate(h) == decision = Undecided /\ actor[h].intime

\* The guards of decideApproval for a new decision: its UPDATE requires
\* decision IS NULL, and the incident's awaiting_approval under its version.
Decidable(h) ==
  /\ decision = Undecided
  /\ actor[h].intime
  /\ incident = "awaiting_approval"

\* decideApproval: decision, incident status and token in one transaction.  The
\* same decision found here is replayed, but the caller's token was derived
\* from its own timestamp and is the stored one only when these are equal.
Decide(h) ==
  /\ actor[h].pc = "deciding"
  /\ \/ /\ Decidable(h)
        /\ decision' = actor[h].ask
        /\ incident' = actor[h].ask.choice
        /\ token' = "issued"
        /\ actor' = [actor EXCEPT ![h].pc = "authorizing", ![h].genuine = TRUE,
                                  ![h].intime = ~expired]
     \/ /\ ~Decidable(h)
        /\ decision = actor[h].ask
        /\ \E same \in BOOLEAN :
             actor' = [actor EXCEPT ![h].pc = "authorizing", ![h].genuine = same,
                                    ![h].intime = ~expired]
        /\ UNCHANGED <<incident, decision, token>>
     \/ /\ ~Decidable(h)
        /\ decision # actor[h].ask
        /\ Leave(h)
        /\ UNCHANGED <<incident, decision, token>>
  /\ UNCHANGED <<expired, lapsed, run, start, faults>>

\* authorizeResumeToken: a valid token of the incident's present decision is
\* consumed, once; a decision whose run was already resumed is answered.
\* Its clock was read before the transaction.
Authorize(h) ==
  /\ actor[h].pc = "authorizing"
  /\ \/ /\ actor[h].genuine
        /\ actor[h].intime
        /\ incident = decision.choice
        /\ token' = IF token = "issued" THEN "consumed" ELSE token
        /\ actor' = [actor EXCEPT ![h] =
             IF token = "resumed" THEN Idle
             ELSE [@ EXCEPT !.pc = "checking", !.receipt = "token"]]
     \/ /\ ~actor[h].genuine \/ expired \/ incident # decision.choice
        /\ Leave(h)
        /\ UNCHANGED token
  /\ UNCHANGED <<incident, decision, expired, lapsed, run, start, faults>>

-----------------------------------------------------------------------------
(* The recovery loop *)

\* Mutant: a token that was only issued is taken for a receipt.
ReceiptDueUnconsumed == token \in {"issued", "consumed"}

\* consumed_at IS NOT NULL AND resumed_at IS NULL.
ReceiptDue == token = "consumed"

\* resumeDecisionOne finds a consumed token that was not marked.
PollDecision(l) ==
  /\ l \in Loops
  /\ actor[l].pc = "idle"
  /\ ReceiptDue
  /\ actor' = [actor EXCEPT ![l].pc = "checking", ![l].receipt = "token"]
  /\ UNCHANGED <<row, expired, run, start, faults>>

\* Mutant: only approvals that somebody else expired are looked for.
PollExpiryOfOthers(l) ==
  /\ l \in Loops
  /\ actor[l].pc = "idle"
  /\ decision = Undecided
  /\ expired
  /\ ~lapsed
  /\ incident = "failed"
  /\ actor' = [actor EXCEPT ![l].pc = "checking", ![l].receipt = "expiry"]
  /\ UNCHANGED <<row, expired, run, start, faults>>

\* expireOne finds an undecided approval past its expiry.
PollExpiry(l) ==
  /\ l \in Loops
  /\ actor[l].pc = "idle"
  /\ decision = Undecided
  /\ expired
  /\ ~lapsed
  /\ \/ incident = "awaiting_approval" /\ Goto(l, "lapsing")
     \/ /\ incident = "failed"
        /\ actor' = [actor EXCEPT ![l].pc = "checking", ![l].receipt = "expiry"]
  /\ UNCHANGED <<row, expired, run, start, faults>>

\* expireOne expires it; when somebody else was first it waits for its next turn.
ExpireInLoop(l) ==
  /\ actor[l].pc = "lapsing"
  /\ Lapse
  /\ IF Lapses
     THEN actor' = [actor EXCEPT ![l].pc = "checking", ![l].receipt = "expiry"]
     ELSE Leave(l)
  /\ UNCHANGED <<decision, token, expired, lapsed, run, start, faults>>

\* retryContainmentOne, in the statuses it takes an approved incident through.
RetryContainment(l) ==
  /\ l \in Loops
  /\ actor[l].pc = "idle"
  /\ decision.choice = "approved"
  /\ \/ incident = "failed" /\ ~expired /\ incident' = "containing"
     \/ incident = "containing" /\ incident' \in {"contained", "failed"}
     \/ incident = "contained" /\ incident' = "closed"
  /\ UNCHANGED <<decision, token, expired, lapsed, run, start, actor, faults>>

-----------------------------------------------------------------------------
(* The reconciler, called by handlers and loops *)

\* The snapshot holds the receipt as await-approval's resume payload.
Recorded(x) == run.receipt = actor[x].receipt

\* expectedResultStatuses.
Expected(receipt) ==
  CASE receipt = "expiry" -> {"expired"}
    [] receipt = "token" /\ decision.choice = "approved" -> {"contained", "failed"}
    [] receipt = "token" /\ decision.choice # "approved" -> {"rejected"}
    [] OTHER -> {}

\* Mutant: any finished run counts, whatever it was resumed with.
CompletedAnyhow(x) == run.status \in {"success", "failed"}

\* reconcileState = "completed".
Completed(x) ==
  /\ run.status \in {"success", "failed"}
  /\ Recorded(x)
  /\ run.result \in Expected(actor[x].receipt)

\* Mutant: the run is resumed or given up, a finished one is not recognised.
CheckSuspendedOnly(x) ==
  /\ actor[x].pc = "checking"
  /\ IF run.status = "suspended" THEN Goto(x, "resuming") ELSE Leave(x)
  /\ UNCHANGED <<row, expired, run, start, faults>>

\* The first reading of the run: done, resumable, or not now.
Check(x) ==
  /\ actor[x].pc = "checking"
  /\ \/ Completed(x) /\ Goto(x, "marking")
     \/ run.status = "suspended" /\ Goto(x, "resuming")
     \/ ~Completed(x) /\ run.status # "suspended" /\ Leave(x)
  /\ UNCHANGED <<row, expired, run, start, faults>>

\* The engine's resume(): it refuses a run that is not suspended, else executes
\* it in this process; the snapshot is stored now or with the first step.
Resume(x) ==
  /\ actor[x].pc = "resuming"
  /\ \/ /\ run.status # "suspended"
        /\ Goto(x, "rechecking")
        /\ UNCHANGED run
     \/ /\ run.status = "suspended"
        /\ Goto(x, "woken")
        /\ run' = [run EXCEPT !.status = "running", !.receipt = actor[x].receipt]
     \/ /\ run.status = "suspended"
        /\ ~SingleResume
        /\ Goto(x, "woken")
        /\ UNCHANGED run
  /\ UNCHANGED <<row, expired, start, faults>>

\* readConsumedResumeReceipt finds what the receipt claims.
ReceiptHolds(x) ==
  IF actor[x].receipt = "expiry" THEN decision = Undecided /\ incident = "failed"
  ELSE token \in {"consumed", "resumed"}

\* await-approval, resumed: the authoritative decision chooses the branch.
ReadReceipt(x) ==
  /\ actor[x].pc = "woken"
  /\ \/ /\ ReceiptHolds(x)
        /\ run' = [run EXCEPT !.status = "running", !.receipt = actor[x].receipt]
        /\ \/ actor[x].receipt = "expiry" /\ Goto(x, "lapsed")
           \/ /\ actor[x].receipt = "token" /\ decision.choice = "approved"
              /\ Goto(x, "reading")
           \/ /\ actor[x].receipt = "token" /\ decision.choice # "approved"
              /\ Goto(x, "closing")
     \/ ~ReceiptHolds(x) /\ Ends(x, "none")
  /\ UNCHANGED <<row, expired, start, faults>>

\* An expired run touches nothing but its marker and ends.
EndExpired(x) ==
  /\ actor[x].pc = "lapsed"
  /\ Ends(x, "expired")
  /\ UNCHANGED <<row, expired, start, faults>>

\* execute-containment reads the incident.
ReadIncident(x) ==
  /\ actor[x].pc = "reading"
  /\ \/ incident = "approved" /\ Goto(x, "entering") /\ UNCHANGED run
     \/ incident = "containing" /\ Goto(x, "containing") /\ UNCHANGED run
     \/ incident = "contained" /\ Goto(x, "closing") /\ UNCHANGED run
     \/ incident = "failed" /\ Ends(x, "failed")
     \/ /\ incident \notin {"approved", "containing", "contained", "failed"}
        /\ Ends(x, "none")
  /\ UNCHANGED <<row, expired, start, faults>>

\* Its transition to containing under the version it read.
EnterContainment(x) ==
  /\ actor[x].pc = "entering"
  /\ IF incident = "approved"
     THEN incident' = "containing" /\ Goto(x, "containing") /\ UNCHANGED run
     ELSE Ends(x, "none") /\ UNCHANGED incident
  /\ UNCHANGED <<decision, token, lapsed, expired, start, faults>>

\* The actions and their outcome, or a throw because another executor was there.
Contain(x) ==
  /\ actor[x].pc = "containing"
  /\ \/ /\ incident \in {"containing", "contained"}
        /\ incident' = "contained"
        /\ Goto(x, "closing")
        /\ UNCHANGED run
     \/ /\ incident \in {"containing", "failed"}
        /\ incident' = "failed"
        /\ Ends(x, "failed")
     \/ Ends(x, "none") /\ UNCHANGED incident
  /\ UNCHANGED <<decision, token, lapsed, expired, start, faults>>

\* finalize-incident closes the incident or finds it closed by this run; an
\* incident in another status, or closed by a retry, makes it throw.
Close(x) ==
  LET final == IF decision.choice = "approved" THEN "contained" ELSE "rejected" IN
  /\ actor[x].pc = "closing"
  /\ \/ incident \in {final, "closed"} /\ incident' = "closed" /\ Ends(x, final)
     \/ incident # final /\ Ends(x, "none") /\ UNCHANGED incident
  /\ UNCHANGED <<decision, token, lapsed, expired, start, faults>>

\* The second reading of the run, after resume() returned or threw.
Recheck(x) ==
  /\ actor[x].pc = "rechecking"
  /\ IF Completed(x) THEN Goto(x, "marking") ELSE Leave(x)
  /\ UNCHANGED <<row, expired, run, start, faults>>

\* markResumeReceiptResumed, or the UPDATE of expiry_resumed_at.
Mark(x) ==
  /\ actor[x].pc = "marking"
  /\ IF actor[x].receipt = "token"
     THEN token' = "resumed" /\ UNCHANGED lapsed
     ELSE lapsed' = TRUE /\ UNCHANGED token
  /\ Leave(x)
  /\ UNCHANGED <<incident, decision, expired, run, start, faults>>

-----------------------------------------------------------------------------
(* Time and failures *)

Expire ==
  /\ ~expired
  /\ expired' = TRUE
  /\ UNCHANGED <<row, run, start, actor, faults>>

Executing == {"woken", "lapsed", "reading", "entering", "containing", "closing"}

\* A step of the resumed run throws, and the engine stores the failed run.
StepThrows(x) ==
  /\ actor[x].pc \in Executing
  /\ Fault
  /\ Ends(x, "none")
  /\ UNCHANGED <<row, expired, start>>

\* Any other storage error ends the request or the loop's turn; a crash of the
\* process also ends the execution in it, and the snapshot stays as it is.
BreakOff(x) ==
  /\ actor[x].pc # "idle"
  /\ Fault
  /\ Leave(x)
  /\ UNCHANGED <<row, expired, run, start>>

-----------------------------------------------------------------------------
Step(x) ==
  \/ ExpireOnRequest(x) \/ Look(x) \/ Decide(x) \/ Authorize(x) \/ ExpireInLoop(x)
  \/ Check(x) \/ Resume(x) \/ ReadReceipt(x) \/ EndExpired(x) \/ ReadIncident(x)
  \/ EnterContainment(x) \/ Contain(x) \/ Close(x) \/ Recheck(x) \/ Mark(x)

Start == RequestApproval \/ OpenExternal \/ Suspend

Next ==
  \/ Start \/ StartBreaks \/ Expire
  \/ \E x \in Actors :
       \/ Step(x) \/ Submit(x) \/ PollDecision(x) \/ PollExpiry(x)
       \/ RetryContainment(x) \/ StepThrows(x) \/ BreakOff(x)

Spec == Init /\ [][Next]_vars

\* Steps that began go on, the recovery loop polls and the approval expires;
\* nobody is obliged to decide.
FairSpec ==
  /\ Spec
  /\ WF_vars(Start) /\ WF_vars(Expire)
  /\ \A x \in Actors :
       WF_vars(Step(x)) /\ WF_vars(PollDecision(x)) /\ WF_vars(PollExpiry(x))
=============================================================================
