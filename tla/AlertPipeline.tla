---------------------------- MODULE AlertPipeline ----------------------------
(***************************************************************************)
(* The road of an accepted alert to its workflow run: the transactional    *)
(* outbox and its dispatcher (background/outbox-dispatcher.ts over         *)
(* db/outbox-operations.ts), the at-least-once broker, the workflow worker *)
(* with its consumer-effect ledger (background/workflow-worker.ts) and the *)
(* first workflow step, which materialises the run                         *)
(* (db/workflow-run-operations.ts).                                        *)
(*                                                                         *)
(* Several server processes share the database and the broker; each runs   *)
(* one dispatcher loop and one worker callback.  Time is abstracted to     *)
(* what the code compares: a timestamp column is "due" or not, a lease is  *)
(* live or not, and Elapse actions let it run out at any moment.           *)
(***************************************************************************)
EXTENDS Naturals, FiniteSets

CONSTANTS
  Events,              \* security.alert.received outbox rows, one per incident
  Procs,               \* server processes
  NoProc,              \* "no lease holder"
  NoEvent, NoSlot,     \* "no event in hand", "no entry in hand"
  Slots,               \* broker entries one event may occupy at a time (bound)
  BatchSize,           \* OUTBOX batch size
  MaxPublishAttempts,  \* config.outbox.maxAttempts
  MaxStartAttempts,    \* the worker's maxAttempts
  MaxFaults,           \* failures the environment may inject (bound)
  PatientTimers        \* TRUE: leases and the grace outlast work in progress

ASSUME PipelineAssumption ==
  /\ NoProc \notin Procs
  /\ NoEvent \notin Events
  /\ IsFiniteSet(Events)
  /\ NoSlot \notin Slots
  /\ BatchSize \in Nat \ {0}
  /\ MaxPublishAttempts \in Nat \ {0}
  /\ MaxStartAttempts \in Nat \ {0}
  /\ MaxFaults \in Nat
  /\ PatientTimers \in BOOLEAN

VARIABLES
  incident,     \* incidents.status of the event's incident
  outbox,       \* outbox_events: one row per event
  deadLetters,  \* events with an unresolved source row in dead_letter_events
  runs,         \* events with a workflow_runs row
  ledger,       \* consumer_effect_ledger: one row per event
  wire,         \* broker entries: [Events -> [Slots -> entry]]
  disp,         \* the dispatcher loop of each process
  worker,       \* the worker callback of each process
  launched,     \* runs a process started whose first step has not run yet
  faults,       \* failures injected so far
  accepted      \* history: events for which startAsync once resolved

database == <<incident, outbox, deadLetters, runs, ledger>>
vars == <<incident, outbox, deadLetters, runs, ledger, wire, disp, worker,
          launched, faults, accepted>>

-----------------------------------------------------------------------------
(* Rows and local state *)

OutboxRow == [published : BOOLEAN, aged : BOOLEAN, due : BOOLEAN,
              lease : Procs \cup {NoProc}, attempts : 0..MaxPublishAttempts]
LedgerStatus == {"absent", "processing", "completed", "dead_lettered"}
LedgerRow == [status : LedgerStatus, owner : Procs \cup {NoProc},
              leased : BOOLEAN, attempts : 0..MaxStartAttempts]

\* pending: in the stream and not acknowledged.  bound: its trace carrier is
\* the one the outbox row holds now, which the worker insists on.
Entry == [pending : BOOLEAN, bound : BOOLEAN]

DispPc == {"idle", "publishing", "marking", "failing"}
DispState == [pc : DispPc, todo : SUBSET Events, ev : Events \cup {NoEvent}]

WorkerPc == {"idle", "received", "discarding", "claiming", "starting",
             "completing", "confirming", "retrying", "exhausted", "sealing",
             "acking"}
WorkerState == [pc : WorkerPc, ev : Events \cup {NoEvent},
                slot : Slots \cup {NoSlot}, attempt : 0..MaxStartAttempts]

IdleDisp == [pc |-> "idle", todo |-> {}, ev |-> NoEvent]
IdleWorker == [pc |-> "idle", ev |-> NoEvent, slot |-> NoSlot, attempt |-> 0]

TypeOK ==
  /\ incident \in [Events -> {"absent", "received", "investigating"}]
  /\ outbox \in [Events -> OutboxRow]
  /\ deadLetters \subseteq Events
  /\ runs \subseteq Events
  /\ ledger \in [Events -> LedgerRow]
  /\ wire \in [Events -> [Slots -> Entry]]
  /\ disp \in [Procs -> DispState]
  /\ worker \in [Procs -> WorkerState]
  /\ launched \in [Procs -> SUBSET Events]
  /\ faults \in 0..MaxFaults
  /\ accepted \subseteq Events

Init ==
  /\ incident = [e \in Events |-> "absent"]
  /\ outbox = [e \in Events |->
       [published |-> FALSE, aged |-> FALSE, due |-> TRUE,
        lease |-> NoProc, attempts |-> 0]]
  /\ deadLetters = {}
  /\ runs = {}
  /\ ledger = [e \in Events |->
       [status |-> "absent", owner |-> NoProc, leased |-> FALSE, attempts |-> 0]]
  /\ wire = [e \in Events |->
       [i \in Slots |-> [pending |-> FALSE, bound |-> FALSE]]]
  /\ disp = [p \in Procs |-> IdleDisp]
  /\ worker = [p \in Procs |-> IdleWorker]
  /\ launched = [p \in Procs |-> {}]
  /\ faults = 0
  /\ accepted = {}

-----------------------------------------------------------------------------
(* Helpers *)

\* The environment injects one more failure.
Fault == faults < MaxFaults /\ faults' = faults + 1

\* WHERE published_at IS NULL AND available_at = leaseToken: only the claim
\* that wrote available_at last still matches, expired or not.
HoldsLease(p, e) == ~outbox[e].published /\ outbox[e].lease = p

\* WHERE status = 'processing' AND attempt_count = ? AND fence_token = ?.
HoldsFence(p, e) == ledger[e].status = "processing" /\ ledger[e].owner = p

\* A terminal ledger row; its fence and count are never compared again.
Settled(row, status) ==
  [row EXCEPT !.status = status, !.leased = FALSE, !.owner = NoProc, !.attempts = 0]

Terminal(e) == ledger[e].status \in {"completed", "dead_lettered"}

\* Rewriting the carrier in the outbox row unbinds every envelope sent before.
Unbound(w) == [i \in Slots |-> [w[i] EXCEPT !.bound = FALSE]]

\* Broker entries that no delivery in progress refers to and that are free.
FreeSlots(e) ==
  {i \in Slots : /\ ~wire[e][i].pending
                 /\ \A p \in Procs : ~(worker[p].ev = e /\ worker[p].slot = i)}

\* wire' when w is what is left of the stream of e and one entry is added to it;
\* a stream of Slots entries takes no more.
Send(e, w, isBound) ==
  IF FreeSlots(e) = {} THEN wire' = [wire EXCEPT ![e] = w]
  ELSE \E i \in FreeSlots(e) :
         wire' = [wire EXCEPT ![e] =
           [w EXCEPT ![i] = [pending |-> TRUE, bound |-> isBound]]]

\* published_at := now.  The lease token stays in the row, but nothing compares
\* it again before the reconciliation overwrites it, so the model drops it.
PublishedRow(row) ==
  [row EXCEPT !.published = TRUE, !.aged = FALSE, !.due = FALSE, !.lease = NoProc]

\* runOnce moves on to the next claimed row, or returns.
NextItem(d) ==
  [pc |-> IF d.todo \ {d.ev} = {} THEN "idle" ELSE "publishing",
   todo |-> d.todo \ {d.ev}, ev |-> NoEvent]

-----------------------------------------------------------------------------
(* Ingest: one transaction inserts incident, alert, timeline and outbox row. *)

ReceiveAlert(e) ==
  /\ incident[e] = "absent"
  /\ incident' = [incident EXCEPT ![e] = "received"]
  /\ UNCHANGED <<outbox, deadLetters, runs, ledger, wire, disp, worker,
                 launched, faults, accepted>>

-----------------------------------------------------------------------------
(* The dispatcher *)

\* Mutant: a dead-lettered row is claimed again.
ClaimableAfterGivingUp(e) ==
  incident[e] # "absent" /\ ~outbox[e].published /\ outbox[e].due

Claimable(e) ==
  /\ incident[e] # "absent"
  /\ ~outbox[e].published
  /\ outbox[e].due
  /\ e \notin deadLetters

\* claimOutboxBatch: available_at := leaseUntil for a batch of due rows.
ClaimBatch(p) ==
  /\ disp[p].pc = "idle"
  /\ \E S \in SUBSET {e \in Events : Claimable(e)} :
       /\ S # {}
       /\ Cardinality(S) <= BatchSize
       /\ Cardinality(S) = BatchSize \/ \A e \in Events : Claimable(e) => e \in S
       /\ outbox' = [e \in Events |->
            IF e \in S THEN [outbox[e] EXCEPT !.due = FALSE, !.lease = p]
            ELSE outbox[e]]
       /\ disp' = [disp EXCEPT ![p] =
            [pc |-> "publishing", todo |-> S, ev |-> NoEvent]]
  /\ UNCHANGED <<incident, deadLetters, runs, ledger, wire, worker, launched,
                 faults, accepted>>

\* The stream of e once dispatcher p has tried to advance the row's carrier.
Rewritten(p, e) == IF HoldsLease(p, e) THEN Unbound(wire[e]) ELSE wire[e]

\* The fenced carrier update (its row count is ignored), then publish.  A
\* dispatcher that lost its lease publishes a carrier the row does not hold.
PublishNext(p) ==
  /\ disp[p].pc = "publishing"
  /\ \E e \in disp[p].todo :
       /\ Send(e, Rewritten(p, e), HoldsLease(p, e))
       /\ disp' = [disp EXCEPT ![p].pc = "marking", ![p].ev = e]
  /\ UNCHANGED <<database, worker, launched, faults, accepted>>

\* The publish attempt throws: the row no longer parses, the carrier update
\* fails, or the broker reports an error, perhaps after storing the entry.
PublishThrows(p) ==
  /\ disp[p].pc = "publishing"
  /\ Fault
  /\ \E e \in disp[p].todo, advanced \in BOOLEAN, stored \in BOOLEAN :
       /\ stored => advanced
       /\ IF stored THEN Send(e, Rewritten(p, e), HoldsLease(p, e))
          ELSE wire' = IF advanced THEN [wire EXCEPT ![e] = Rewritten(p, e)]
                       ELSE wire
       /\ disp' = [disp EXCEPT ![p].pc = "failing", ![p].ev = e]
  /\ UNCHANGED <<database, worker, launched, accepted>>

\* markOutboxPublished under the lease fence; a lost fence changes nothing.
MarkPublished(p) ==
  LET e == disp[p].ev IN
  /\ disp[p].pc = "marking"
  /\ outbox' = IF HoldsLease(p, e)
               THEN [outbox EXCEPT ![e] = PublishedRow(@)]
               ELSE outbox
  /\ disp' = [disp EXCEPT ![p] = NextItem(@)]
  /\ UNCHANGED <<incident, deadLetters, runs, ledger, wire, worker, launched,
                 faults, accepted>>

\* "outbox.mark_failed": published but not marked; the lease must run out.
MarkThrows(p) ==
  /\ disp[p].pc = "marking"
  /\ Fault
  /\ disp' = [disp EXCEPT ![p] = NextItem(@)]
  /\ UNCHANGED <<database, wire, worker, launched, accepted>>

\* A run that already exists settles the row; otherwise the attempt counts,
\* and the last one writes the dead letter instead of a backoff.
RecordedFailure(row, e) ==
  IF e \in runs THEN PublishedRow(row)
  ELSE IF row.attempts + 1 >= MaxPublishAttempts
       THEN [row EXCEPT !.attempts = @ + 1]
       ELSE [row EXCEPT !.attempts = @ + 1, !.due = FALSE, !.lease = NoProc]

\* recordOutboxFailure, one transaction under the lease fence.
RecordFailure(p) ==
  LET e == disp[p].ev IN
  /\ disp[p].pc = "failing"
  /\ IF HoldsLease(p, e)
     THEN /\ outbox' = [outbox EXCEPT ![e] = RecordedFailure(@, e)]
          /\ deadLetters' =
               IF e \notin runs /\ outbox[e].attempts + 1 >= MaxPublishAttempts
               THEN deadLetters \cup {e} ELSE deadLetters
     ELSE UNCHANGED <<outbox, deadLetters>>
  /\ disp' = [disp EXCEPT ![p] = NextItem(@)]
  /\ UNCHANGED <<incident, runs, ledger, wire, worker, launched, faults, accepted>>

\* recordOutboxFailure throws like the publish before it: runOnce rejects, the rest
\* of the batch is abandoned until its leases run out.  The two count as one fault.
IterationThrows(p) ==
  /\ disp[p].pc = "failing"
  /\ disp' = [disp EXCEPT ![p] = IdleDisp]
  /\ UNCHANGED <<database, wire, worker, launched, faults, accepted>>

\* Mutant: only events no worker has ever claimed are re-armed.
ReconcilableIfUnclaimed(e) ==
  /\ outbox[e].published
  /\ outbox[e].aged
  /\ e \notin runs
  /\ e \notin deadLetters
  /\ ledger[e].status = "absent"

Reconcilable(e) ==
  /\ outbox[e].published
  /\ outbox[e].aged
  /\ e \notin runs
  /\ e \notin deadLetters

\* reconcilePublishedAlertsWithoutRun: re-arm published alerts past the grace.
Reconcile(p) ==
  /\ disp[p].pc = "idle"
  /\ \E e \in Events : Reconcilable(e)
  /\ outbox' = [e \in Events |->
       IF Reconcilable(e)
       THEN [outbox[e] EXCEPT !.published = FALSE, !.aged = FALSE,
                              !.due = TRUE, !.lease = NoProc]
       ELSE outbox[e]]
  /\ UNCHANGED <<incident, deadLetters, runs, ledger, wire, disp, worker,
                 launched, faults, accepted>>

-----------------------------------------------------------------------------
(* Time *)

\* available_at is reached: a claim's lease or a backoff has run out.
OutboxDue(e) ==
  /\ incident[e] # "absent"
  /\ ~outbox[e].published
  /\ ~outbox[e].due
  /\ PatientTimers => \A p \in Procs : ~(HoldsLease(p, e) /\ e \in disp[p].todo)
  /\ outbox' = [outbox EXCEPT ![e].due = TRUE]
  /\ UNCHANGED <<incident, deadLetters, runs, ledger, wire, disp, worker,
                 launched, faults, accepted>>

\* Some delivery of e is under way, or an entry waits for one.
Delivering(e) ==
  \/ \E i \in Slots : wire[e][i].pending
  \/ \E p \in Procs : worker[p].ev = e \/ e \in launched[p]

\* published_at is older than recoveryGraceMs.
GraceElapses(e) ==
  /\ outbox[e].published
  /\ ~outbox[e].aged
  /\ PatientTimers => ~Delivering(e)
  /\ outbox' = [outbox EXCEPT ![e].aged = TRUE]
  /\ UNCHANGED <<incident, deadLetters, runs, ledger, wire, disp, worker,
                 launched, faults, accepted>>

\* A callback is past claimConsumerEffect.
Processing(p, e) == worker[p].ev = e /\ worker[p].attempt # 0

\* lease_expires_at of a ledger row (60 s after the claim) is reached.
LedgerLeaseElapses(e) ==
  /\ ledger[e].leased
  /\ PatientTimers => \A p \in Procs : ~(HoldsFence(p, e) /\ Processing(p, e))
  /\ ledger' = [ledger EXCEPT ![e].leased = FALSE]
  /\ UNCHANGED <<incident, outbox, deadLetters, runs, wire, disp, worker,
                 launched, faults, accepted>>

-----------------------------------------------------------------------------
(* The worker callback *)

Goto(p, pc) == worker' = [worker EXCEPT ![p].pc = pc]
Return(p) == worker' = [worker EXCEPT ![p] = IdleWorker]

\* The broker hands out an unacknowledged entry, again or for the first time.
Deliver(p, e, i) ==
  /\ worker[p].pc = "idle"
  /\ wire[e][i].pending
  /\ worker' = [worker EXCEPT ![p] =
       [pc |-> "received", ev |-> e, slot |-> i, attempt |-> 0]]
  /\ UNCHANGED <<database, wire, disp, launched, faults, accepted>>

\* matchesOutboxEnvelope: an envelope whose carrier is not the row's is
\* recorded as transport poison (a standalone dead letter) and acknowledged.
CheckEnvelope(p) ==
  LET e == worker[p].ev IN
  /\ worker[p].pc = "received"
  /\ IF wire[e][worker[p].slot].bound
     THEN Goto(p, "claiming")
     ELSE Goto(p, "discarding")
  /\ UNCHANGED <<database, wire, disp, launched, faults, accepted>>

\* Mutant: a busy event is acknowledged, as a terminal one is.
ClaimEffectAcksBusy(p) ==
  LET e == worker[p].ev
      attempt == IF ledger[e].attempts < MaxStartAttempts
                 THEN ledger[e].attempts + 1 ELSE MaxStartAttempts
  IN
  /\ worker[p].pc = "claiming"
  /\ IF Terminal(e) \/ ledger[e].leased
     THEN Goto(p, "acking") /\ UNCHANGED ledger
     ELSE /\ ledger' = [ledger EXCEPT ![e] =
               [status |-> "processing", owner |-> p, leased |-> TRUE,
                attempts |-> attempt]]
          /\ worker' = [worker EXCEPT ![p].attempt = attempt, ![p].pc =
               IF e \in deadLetters THEN "sealing"
               ELSE IF e \in runs THEN "confirming" ELSE "starting"]
  /\ UNCHANGED <<incident, outbox, deadLetters, runs, wire, disp, launched,
                 faults, accepted>>

\* claimConsumerEffect: terminal is acknowledged, busy is left pending,
\* otherwise the row is taken over with the next attempt and a new fence, and
\* hasUnresolvedOutboxDeadLetter and hasWorkflowRun choose the branch.
\* The count saturates at MaxStartAttempts, the value it is compared with.
ClaimEffect(p) ==
  LET e == worker[p].ev
      attempt == IF ledger[e].attempts < MaxStartAttempts
                 THEN ledger[e].attempts + 1 ELSE MaxStartAttempts
  IN
  /\ worker[p].pc = "claiming"
  /\ \/ /\ Terminal(e)
        /\ Goto(p, "acking")
        /\ UNCHANGED ledger
     \/ /\ ~Terminal(e)
        /\ ledger[e].leased
        /\ Return(p)
        /\ UNCHANGED ledger
     \/ /\ ~Terminal(e)
        /\ ~ledger[e].leased
        /\ ledger' = [ledger EXCEPT ![e] =
             [status |-> "processing", owner |-> p, leased |-> TRUE,
              attempts |-> attempt]]
        /\ worker' = [worker EXCEPT ![p].attempt = attempt, ![p].pc =
             IF e \in deadLetters THEN "sealing"
             ELSE IF e \in runs THEN "confirming" ELSE "starting"]
  /\ UNCHANGED <<incident, outbox, deadLetters, runs, wire, disp, launched,
                 faults, accepted>>

\* createRun, the carrier advance to the workflow.start boundary, startAsync.
StartRun(p) ==
  LET e == worker[p].ev IN
  /\ worker[p].pc = "starting"
  /\ wire' = [wire EXCEPT ![e] = Unbound(@)]
  /\ launched' = [launched EXCEPT ![p] = @ \cup {e}]
  /\ accepted' = accepted \cup {e}
  /\ Goto(p, "completing")
  /\ UNCHANGED <<database, disp, faults>>

\* Mutant: the exhausted budget seals the ledger without a dead letter.
FailedSealsAtOnce(p) ==
  Goto(p, IF worker[p].attempt < MaxStartAttempts THEN "retrying" ELSE "sealing")

\* The catch branch: retry while the budget lasts, else dead-letter.
Failed(p) ==
  Goto(p, IF worker[p].attempt < MaxStartAttempts THEN "retrying" ELSE "exhausted")

\* createRun or startAsync throws, before or after the carrier advance.
StartThrows(p) ==
  LET e == worker[p].ev IN
  /\ worker[p].pc = "starting"
  /\ Fault
  /\ \/ UNCHANGED wire
     \/ wire' = [wire EXCEPT ![e] = Unbound(@)]
  /\ Failed(p)
  /\ UNCHANGED <<database, disp, launched, accepted>>

\* completeConsumerEffect under the fence; acknowledge only if it applied.
CompleteEffect(p) ==
  LET e == worker[p].ev IN
  /\ worker[p].pc \in {"completing", "confirming"}
  /\ IF HoldsFence(p, e)
     THEN /\ ledger' = [ledger EXCEPT ![e] = Settled(@, "completed")]
          /\ Goto(p, "acking")
     ELSE UNCHANGED ledger /\ Return(p)
  /\ UNCHANGED <<incident, outbox, deadLetters, runs, wire, disp, launched,
                 faults, accepted>>

\* completeConsumerEffect throws after the start: the same catch branch.
CompleteThrows(p) ==
  /\ worker[p].pc = "completing"
  /\ Fault
  /\ Failed(p)
  /\ UNCHANGED <<database, wire, disp, launched, accepted>>

\* After the jittered delay: releaseConsumerEffect, then nack, which leaves
\* the entry to be delivered again.
ReleaseAndNack(p) ==
  LET e == worker[p].ev IN
  /\ worker[p].pc = "retrying"
  /\ ledger' = IF HoldsFence(p, e)
               THEN [ledger EXCEPT ![e].leased = FALSE] ELSE ledger
  /\ Return(p)
  /\ UNCHANGED <<incident, outbox, deadLetters, runs, wire, disp, launched,
                 faults, accepted>>

\* Mutant: the dead letter is written without looking for a run.
PersistDeadLetterBlindly(p) ==
  /\ worker[p].pc = "exhausted"
  /\ deadLetters' = deadLetters \cup {worker[p].ev}
  /\ Goto(p, "sealing")
  /\ UNCHANGED <<incident, outbox, runs, ledger, wire, disp, launched, faults,
                 accepted>>

\* persistOutboxDeadLetter: a run that exists by now wins.
PersistDeadLetter(p) ==
  LET e == worker[p].ev IN
  /\ worker[p].pc = "exhausted"
  /\ deadLetters' = IF e \in runs THEN deadLetters ELSE deadLetters \cup {e}
  /\ Goto(p, "sealing")
  /\ UNCHANGED <<incident, outbox, runs, ledger, wire, disp, launched, faults,
                 accepted>>

\* deadLetterConsumerEffect under the fence; acknowledge only if it applied.
SealEffect(p) ==
  LET e == worker[p].ev IN
  /\ worker[p].pc = "sealing"
  /\ IF HoldsFence(p, e)
     THEN /\ ledger' = [ledger EXCEPT ![e] = Settled(@, "dead_lettered")]
          /\ Goto(p, "acking")
     ELSE UNCHANGED ledger /\ Return(p)
  /\ UNCHANGED <<incident, outbox, deadLetters, runs, wire, disp, launched,
                 faults, accepted>>

\* The entry leaves the stream; only another delivery of it still looks at it.
Ack(p) ==
  LET e == worker[p].ev
      i == worker[p].slot
      shared == \E q \in Procs \ {p} : worker[q].ev = e /\ worker[q].slot = i
  IN
  /\ worker[p].pc \in {"acking", "discarding"}
  /\ wire' = [wire EXCEPT ![e][i] =
       [pending |-> FALSE, bound |-> @.bound /\ shared]]
  /\ Return(p)
  /\ UNCHANGED <<database, disp, launched, faults, accepted>>

\* A storage error outside the try block rejects the callback: the adapter
\* keeps the entry pending.
CallbackThrows(p) ==
  /\ worker[p].pc \in {"received", "claiming", "confirming", "retrying",
                       "exhausted", "sealing"}
  /\ Fault
  /\ Return(p)
  /\ UNCHANGED <<database, wire, disp, launched, accepted>>

-----------------------------------------------------------------------------
(* The first workflow step, running in the process that started the run *)

StepDone(p, e) == launched' = [launched EXCEPT ![p] = @ \ {e}]

\* Mutant: the transaction does not look for a dead letter.
MaterializeStartBlindly(p, e) ==
  /\ e \in launched[p]
  /\ IF e \in runs \/ incident[e] # "received"
     THEN UNCHANGED <<runs, incident>>
     ELSE /\ runs' = runs \cup {e}
          /\ incident' = [incident EXCEPT ![e] = "investigating"]
  /\ StepDone(p, e)
  /\ UNCHANGED <<outbox, deadLetters, ledger, wire, disp, worker, faults, accepted>>

\* materializeInvestigationStart: a dead letter or an existing run makes it a
\* duplicate; else the run row and received -> investigating in one transaction.
MaterializeStart(p, e) ==
  /\ e \in launched[p]
  /\ IF e \in deadLetters \/ e \in runs \/ incident[e] # "received"
     THEN UNCHANGED <<runs, incident>>
     ELSE /\ runs' = runs \cup {e}
          /\ incident' = [incident EXCEPT ![e] = "investigating"]
  /\ StepDone(p, e)
  /\ UNCHANGED <<outbox, deadLetters, ledger, wire, disp, worker, faults, accepted>>

\* The transaction throws and no run row is found on the re-read.
MaterializeThrows(p, e) ==
  /\ e \in launched[p]
  /\ Fault
  /\ StepDone(p, e)
  /\ UNCHANGED <<database, wire, disp, worker, accepted>>

-----------------------------------------------------------------------------
(* Crashes and the broker *)

\* A process dies and restarts: loops, callbacks and started runs are gone.
Crash(p) ==
  /\ Fault
  /\ disp' = [disp EXCEPT ![p] = IdleDisp]
  /\ worker' = [worker EXCEPT ![p] = IdleWorker]
  /\ launched' = [launched EXCEPT ![p] = {}]
  /\ UNCHANGED <<database, wire, accepted>>

\* The broker drops an entry: delivery budget spent, trimmed, or restarted.
BrokerDrops(e, i) ==
  /\ wire[e][i].pending
  /\ Fault
  /\ wire' = [wire EXCEPT ![e][i].pending = FALSE]
  /\ UNCHANGED <<database, disp, worker, launched, accepted>>

-----------------------------------------------------------------------------
DispatcherStep(p) ==
  \/ ClaimBatch(p) \/ PublishNext(p) \/ MarkPublished(p) \/ RecordFailure(p)

WorkerStep(p) ==
  \/ CheckEnvelope(p) \/ ClaimEffect(p) \/ StartRun(p) \/ CompleteEffect(p)
  \/ ReleaseAndNack(p) \/ PersistDeadLetter(p)
  \/ SealEffect(p) \/ Ack(p)

Failure(p) ==
  \/ PublishThrows(p) \/ MarkThrows(p) \/ IterationThrows(p) \/ StartThrows(p)
  \/ CompleteThrows(p) \/ CallbackThrows(p) \/ Crash(p)

Next ==
  \/ \E e \in Events :
       \/ ReceiveAlert(e) \/ OutboxDue(e) \/ GraceElapses(e)
       \/ LedgerLeaseElapses(e)
       \/ \E i \in Slots : BrokerDrops(e, i)
  \/ \E p \in Procs :
       \/ DispatcherStep(p) \/ Reconcile(p) \/ WorkerStep(p) \/ Failure(p)
       \/ \E e \in Events :
            \/ MaterializeStart(p, e) \/ MaterializeThrows(p, e)
            \/ \E i \in Slots : Deliver(p, e, i)

Spec == Init /\ [][Next]_vars

\* Timers fire, the poll loop polls, callbacks and steps that began go on, and
\* the broker keeps offering each pending entry to each idle consumer.
FairSpec ==
  /\ Spec
  /\ \A p \in Procs : /\ WF_vars(DispatcherStep(p))
                      /\ WF_vars(Reconcile(p))
                      /\ WF_vars(WorkerStep(p))
                      /\ \A e \in Events : WF_vars(MaterializeStart(p, e))
                      /\ \A e \in Events, i \in Slots : SF_vars(Deliver(p, e, i))
  /\ \A e \in Events : /\ WF_vars(OutboxDue(e))
                       /\ WF_vars(GraceElapses(e))
                       /\ WF_vars(LedgerLeaseElapses(e))
=============================================================================
