------------------------ MODULE AlertPipeline_proofs ------------------------
(***************************************************************************)
(* Proofs about AlertPipeline for every set of events, processes and       *)
(* broker slots and every budget: the inductive invariant PipelineInv with *)
(* the safety properties it contains, and the refinement of AlertHandoff.  *)
(***************************************************************************)
EXTENDS AlertPipelineProps, TLAPS

-----------------------------------------------------------------------------
(* What the helpers of the model return *)

\* A claim writes the lease and clears "due" without touching the budget.
LEMMA LeasedRowType ==
  ASSUME NEW row \in OutboxRow, NEW due \in BOOLEAN, NEW p \in Procs \cup {NoProc}
  PROVE  [row EXCEPT !.due = due, !.lease = p] \in OutboxRow
  BY DEF OutboxRow

\* Marking or re-arming a row keeps it a row, with the budget it had.
LEMMA PublishedRowType ==
  ASSUME NEW row \in OutboxRow
  PROVE  /\ PublishedRow(row) \in OutboxRow
         /\ PublishedRow(row).attempts = row.attempts
         /\ PublishedRow(row).lease = NoProc
  BY DEF OutboxRow, PublishedRow

\* A failure is recorded within the budget while the budget lasts.
LEMMA RecordedFailureType ==
  ASSUME PipelineAssumption, NEW row \in OutboxRow, NEW e,
         row.attempts # MaxPublishAttempts
  PROVE  RecordedFailure(row, e) \in OutboxRow
<1>1. row.attempts \in Nat /\ row.attempts + 1 \in 0..MaxPublishAttempts
  BY DEF OutboxRow, PipelineAssumption
<1>2. CASE e \in runs
  BY <1>2, PublishedRowType DEF RecordedFailure
<1>3. CASE e \notin runs
  BY <1>1, <1>3 DEF RecordedFailure, OutboxRow
<1> QED
  BY <1>2, <1>3

\* A loop that moves on drops at most the item in hand.
LEMMA NextItemType ==
  ASSUME NEW d \in DispState
  PROVE  /\ NextItem(d) \in DispState
         /\ NextItem(d).todo = d.todo \ {d.ev}
         /\ NextItem(d).pc \in {"idle", "publishing"}
  BY DEF DispState, DispPc, NextItem

\* Closing the ledger keeps it a row.
LEMMA SettledType ==
  ASSUME PipelineAssumption, NEW row \in LedgerRow, NEW s \in LedgerStatus
  PROVE  Settled(row, s) \in LedgerRow /\ Settled(row, s).status = s
<1>1. 0 \in 0..MaxStartAttempts
  BY DEF PipelineAssumption
<1>2. Settled(row, s) \in LedgerRow
  BY <1>1 DEF LedgerRow, Settled
<1>3. Settled(row, s).status = s
  BY DEF LedgerRow, Settled
<1> QED
  BY <1>2, <1>3

\* The carrier advance keeps the entries of a stream and their pending flags.
LEMMA UnboundType ==
  ASSUME NEW w \in [Slots -> Entry]
  PROVE  /\ Unbound(w) \in [Slots -> Entry]
         /\ \A i \in Slots : Unbound(w)[i].pending = w[i].pending
  BY DEF Entry, Unbound

\* Rewriting depends on the lease only in whether it unbinds.
LEMMA RewrittenType ==
  ASSUME NEW p, NEW e \in Events, wire \in [Events -> [Slots -> Entry]]
  PROVE  /\ Rewritten(p, e) \in [Slots -> Entry]
         /\ \A i \in Slots : Rewritten(p, e)[i].pending = wire[e][i].pending
  BY UnboundType DEF Rewritten

\* Publishing touches the stream of one event only.
LEMMA SendType ==
  ASSUME NEW e \in Events, NEW b \in BOOLEAN, NEW w \in [Slots -> Entry],
         wire \in [Events -> [Slots -> Entry]], Send(e, w, b)
  PROVE  /\ wire' \in [Events -> [Slots -> Entry]]
         /\ \A f \in Events : f # e => wire'[f] = wire[f]
<1>1. [pending |-> TRUE, bound |-> b] \in Entry
  BY DEF Entry
<1>2. CASE FreeSlots(e) = {}
  BY <1>2 DEF Send
<1>3. CASE FreeSlots(e) # {}
  <2>1. PICK i \in FreeSlots(e) :
          wire' = [wire EXCEPT ![e] = [w EXCEPT ![i] = [pending |-> TRUE, bound |-> b]]]
    BY <1>3 DEF Send
  <2> QED
    BY <1>1, <2>1
<1> QED
  BY <1>2, <1>3

\* A dropped entry is still an entry.
LEMMA DroppedType ==
  ASSUME NEW entry \in Entry
  PROVE  [entry EXCEPT !.pending = FALSE] \in Entry
  BY DEF Entry

\* The callback moves to another step.
LEMMA GotoType ==
  ASSUME NEW p \in Procs, NEW pc \in WorkerPc, worker \in [Procs -> WorkerState],
         Goto(p, pc)
  PROVE  /\ worker' \in [Procs -> WorkerState]
         /\ worker'[p] = [worker[p] EXCEPT !.pc = pc]
         /\ worker'[p].pc = pc /\ worker'[p].ev = worker[p].ev
         /\ worker'[p].slot = worker[p].slot
         /\ \A q \in Procs : q # p => worker'[q] = worker[q]
  BY DEF Goto, WorkerState

\* The callback returns.
LEMMA ReturnType ==
  ASSUME PipelineAssumption, NEW p \in Procs, worker \in [Procs -> WorkerState],
         Return(p)
  PROVE  /\ worker' \in [Procs -> WorkerState]
         /\ worker'[p].pc = "idle" /\ worker'[p].ev = NoEvent
         /\ \A q \in Procs : q # p => worker'[q] = worker[q]
  BY DEF Return, IdleWorker, WorkerState, WorkerPc, PipelineAssumption

\* The failed callback retries or gives up.
LEMMA FailedType ==
  ASSUME NEW p \in Procs, worker \in [Procs -> WorkerState], Failed(p)
  PROVE  /\ worker' \in [Procs -> WorkerState]
         /\ worker'[p].pc \in {"retrying", "exhausted"}
         /\ worker'[p].ev = worker[p].ev /\ worker'[p].slot = worker[p].slot
         /\ \A q \in Procs : q # p => worker'[q] = worker[q]
<1>1. PICK pc \in {"retrying", "exhausted"} : Goto(p, pc)
  BY DEF Failed
<1>2. pc \in WorkerPc
  BY DEF WorkerPc
<1> QED
  BY <1>1, <1>2, GotoType

\* One more failure stays within the bound.
LEMMA FaultType ==
  ASSUME PipelineAssumption, faults \in 0..MaxFaults, Fault
  PROVE  faults' \in 0..MaxFaults
  BY DEF Fault, PipelineAssumption

\* The idle loop and the idle callback are states of theirs.
LEMMA IdleType ==
  ASSUME PipelineAssumption
  PROVE  IdleDisp \in DispState /\ IdleWorker \in WorkerState
  BY DEF IdleDisp, DispState, DispPc, IdleWorker, WorkerState, WorkerPc,
         PipelineAssumption

\* The initial state satisfies the inductive invariant.
LEMMA InitInv == ASSUME PipelineAssumption PROVE Init => PipelineInv
<1> SUFFICES ASSUME Init PROVE PipelineInv
  OBVIOUS
<1> USE DEF Init
<1>1. TypeOK
  <2>1. [published |-> FALSE, aged |-> FALSE, due |-> TRUE,
         lease |-> NoProc, attempts |-> 0] \in OutboxRow
    BY DEF OutboxRow, PipelineAssumption
  <2>2. [status |-> "absent", owner |-> NoProc, leased |-> FALSE, attempts |-> 0]
          \in LedgerRow
    BY DEF LedgerRow, LedgerStatus, PipelineAssumption
  <2>3. [pending |-> FALSE, bound |-> FALSE] \in Entry
    BY DEF Entry
  <2>4. faults \in 0..MaxFaults
    BY DEF PipelineAssumption
  <2> QED
    BY <2>1, <2>2, <2>3, <2>4, IdleType DEF TypeOK
<1>2. ItemInHand /\ CauseInHand /\ AckIsEarned
  BY DEF ItemInHand, CauseInHand, AckIsEarned, IdleDisp, IdleWorker
<1>3. BudgetSpentOnce
  BY DEF BudgetSpentOnce, PipelineAssumption
<1>4. NothingBeforeIngest
  BY DEF NothingBeforeIngest, Unborn, IdleDisp, IdleWorker, PipelineAssumption
<1>5. RunExcludesDeadLetter /\ LedgerVerdictHasCause
  BY DEF RunExcludesDeadLetter, LedgerVerdictHasCause
<1> QED
  BY <1>1, <1>2, <1>3, <1>4, <1>5 DEF PipelineInv

-----------------------------------------------------------------------------
(* Types *)

\* Every action keeps every variable in its type.
LEMMA TypeStep ==
  ASSUME PipelineAssumption, PipelineInv, Next
  PROVE  TypeOK'
<1>o. outbox \in [Events -> OutboxRow]
  BY DEF PipelineInv, TypeOK
<1>l. ledger \in [Events -> LedgerRow]
  BY DEF PipelineInv, TypeOK
<1>w. wire \in [Events -> [Slots -> Entry]]
  BY DEF PipelineInv, TypeOK
<1>d. disp \in [Procs -> DispState]
  BY DEF PipelineInv, TypeOK
<1>k. worker \in [Procs -> WorkerState]
  BY DEF PipelineInv, TypeOK
<1>f. faults \in 0..MaxFaults
  BY DEF PipelineInv, TypeOK
<1>t. TypeOK
  BY DEF PipelineInv
<1>h. /\ \A p \in Procs : worker[p].pc # "idle" => worker[p].ev \in Events
      /\ \A p \in Procs : disp[p].todo \subseteq Events
  BY <1>d DEF PipelineInv, ItemInHand, DispState
<1>n. \A p \in Procs : disp[p].pc \in {"marking", "failing"} =>
        disp[p].ev \in disp[p].todo /\ disp[p].ev \in Events
  BY <1>d DEF PipelineInv, ItemInHand, DispState
<1>1. ASSUME NEW e \in Events, ReceiveAlert(e) PROVE TypeOK'
  BY <1>1, <1>t DEF ReceiveAlert, TypeOK
<1>2. ASSUME NEW p \in Procs, ClaimBatch(p) PROVE TypeOK'
  <2>1. \A e \in Events : [outbox[e] EXCEPT !.due = FALSE, !.lease = p] \in OutboxRow
    BY <1>o, LeasedRowType
  <2>2. PICK S \in SUBSET Events :
          /\ outbox' = [e \in Events |->
               IF e \in S THEN [outbox[e] EXCEPT !.due = FALSE, !.lease = p]
               ELSE outbox[e]]
          /\ disp' = [disp EXCEPT ![p] =
               [pc |-> "publishing", todo |-> S, ev |-> NoEvent]]
    BY <1>2 DEF ClaimBatch
  <2>3. outbox' \in [Events -> OutboxRow]
    BY <1>o, <2>1, <2>2
  <2>4. disp' \in [Procs -> DispState]
    BY <1>d, <2>2 DEF DispState, DispPc
  <2> QED
    BY <1>2, <1>t, <2>3, <2>4 DEF ClaimBatch, TypeOK
<1>3. ASSUME NEW p \in Procs, PublishNext(p) PROVE TypeOK'
  <2>1. PICK e \in disp[p].todo :
          /\ Send(e, Rewritten(p, e), HoldsLease(p, e))
          /\ disp' = [disp EXCEPT ![p].pc = "marking", ![p].ev = e]
    BY <1>3 DEF PublishNext
  <2>2. e \in Events
    BY <1>h
  <2>3. wire' \in [Events -> [Slots -> Entry]]
    BY <1>w, <2>1, <2>2, RewrittenType, SendType DEF HoldsLease
  <2>4. disp' \in [Procs -> DispState]
    BY <1>d, <2>1, <2>2 DEF DispState, DispPc
  <2> QED
    BY <1>3, <1>t, <2>3, <2>4 DEF PublishNext, database, TypeOK
<1>4. ASSUME NEW p \in Procs, MarkPublished(p) PROVE TypeOK'
  <2>1. outbox' \in [Events -> OutboxRow]
    BY <1>4, <1>o, <1>n, PublishedRowType DEF MarkPublished
  <2>2. disp' \in [Procs -> DispState]
    BY <1>4, <1>d, NextItemType DEF MarkPublished
  <2> QED
    BY <1>4, <1>t, <2>1, <2>2 DEF MarkPublished, TypeOK
<1>5. ASSUME NEW p \in Procs, RecordFailure(p) PROVE TypeOK'
  <2>1. HoldsLease(p, disp[p].ev) => outbox[disp[p].ev].attempts # MaxPublishAttempts
    BY <1>5, <1>n DEF RecordFailure, HoldsLease, PipelineInv, BudgetSpentOnce
  <2>2. outbox' \in [Events -> OutboxRow]
    BY <1>5, <1>o, <1>n, <2>1, RecordedFailureType DEF RecordFailure
  <2>3. disp' \in [Procs -> DispState]
    BY <1>5, <1>d, NextItemType DEF RecordFailure
  <2>4. deadLetters' \subseteq Events
    BY <1>5, <1>t, <1>n DEF RecordFailure, TypeOK
  <2> QED
    BY <1>5, <1>t, <2>2, <2>3, <2>4 DEF RecordFailure, TypeOK
<1>6. ASSUME NEW p \in Procs, Reconcile(p) PROVE TypeOK'
  <2>1. \A e \in Events : [outbox[e] EXCEPT !.published = FALSE, !.aged = FALSE,
                             !.due = TRUE, !.lease = NoProc] \in OutboxRow
    BY <1>o DEF OutboxRow
  <2> QED
    BY <1>6, <1>t, <2>1 DEF Reconcile, TypeOK
<1>7. ASSUME NEW p \in Procs, CheckEnvelope(p) PROVE TypeOK'
  <2>1. worker' \in [Procs -> WorkerState]
    BY <1>7, <1>k, GotoType DEF CheckEnvelope, WorkerPc
  <2> QED
    BY <1>7, <1>t, <2>1 DEF CheckEnvelope, database, TypeOK
<1>8. ASSUME NEW p \in Procs, ClaimEffect(p) PROVE TypeOK'
  <2> DEFINE e == worker[p].ev
             attempt == IF ledger[e].attempts < MaxStartAttempts
                        THEN ledger[e].attempts + 1 ELSE MaxStartAttempts
  <2>1. e \in Events
    BY <1>8, <1>h DEF ClaimEffect
  <2>2. attempt \in 0..MaxStartAttempts
    BY <1>l, <2>1 DEF LedgerRow, PipelineAssumption
  <2>3. [status |-> "processing", owner |-> p, leased |-> TRUE,
         attempts |-> attempt] \in LedgerRow
    BY <2>2 DEF LedgerRow, LedgerStatus
  <2>4. ledger' \in [Events -> LedgerRow]
    BY <1>8, <1>l, <2>3 DEF ClaimEffect
  <2>5. ASSUME Goto(p, "acking") PROVE worker' \in [Procs -> WorkerState]
    BY <1>k, <2>5, GotoType DEF WorkerPc
  <2>6. ASSUME NEW pc \in WorkerPc,
               worker' = [worker EXCEPT ![p].attempt = attempt, ![p].pc = pc]
        PROVE  worker' \in [Procs -> WorkerState]
    BY <1>k, <2>2, <2>6, ZenonT(60) DEF WorkerState
  <2>7. \/ Goto(p, "acking")
        \/ Return(p)
        \/ \E pc \in {"sealing", "confirming", "starting"} :
             worker' = [worker EXCEPT ![p].attempt = attempt, ![p].pc = pc]
    BY <1>8 DEF ClaimEffect
  <2>8. worker' \in [Procs -> WorkerState]
    BY <1>k, <2>5, <2>6, <2>7, ReturnType DEF WorkerPc
  <2> QED
    BY <1>8, <1>t, <2>4, <2>8 DEF ClaimEffect, TypeOK
<1>9. ASSUME NEW p \in Procs, StartRun(p) PROVE TypeOK'
  <2>1. worker[p].ev \in Events
    BY <1>9, <1>h DEF StartRun
  <2>2. worker' \in [Procs -> WorkerState]
    BY <1>9, <1>k, GotoType DEF StartRun, WorkerPc
  <2>3. wire' \in [Events -> [Slots -> Entry]]
    BY <1>9, <1>w, <2>1, UnboundType DEF StartRun
  <2> QED
    BY <1>9, <1>t, <2>1, <2>2, <2>3 DEF StartRun, database, TypeOK
<1>10. ASSUME NEW p \in Procs, CompleteEffect(p) PROVE TypeOK'
  <2>1. worker' \in [Procs -> WorkerState]
    BY <1>10, <1>k, GotoType, ReturnType DEF CompleteEffect, WorkerPc
  <2>2. ledger' \in [Events -> LedgerRow]
    BY <1>10, <1>l, <1>h, SettledType DEF CompleteEffect, LedgerStatus
  <2> QED
    BY <1>10, <1>t, <2>1, <2>2 DEF CompleteEffect, TypeOK
<1>11. ASSUME NEW p \in Procs, ReleaseAndNack(p) PROVE TypeOK'
  <2>1. worker' \in [Procs -> WorkerState]
    BY <1>11, <1>k, ReturnType DEF ReleaseAndNack
  <2>2. ledger' \in [Events -> LedgerRow]
    BY <1>11, <1>l DEF ReleaseAndNack, LedgerRow
  <2> QED
    BY <1>11, <1>t, <2>1, <2>2 DEF ReleaseAndNack, TypeOK
<1>12. ASSUME NEW p \in Procs, PersistDeadLetter(p) PROVE TypeOK'
  <2>1. worker[p].ev \in Events
    BY <1>12, <1>h DEF PersistDeadLetter
  <2>2. worker' \in [Procs -> WorkerState]
    BY <1>12, <1>k, GotoType DEF PersistDeadLetter, WorkerPc
  <2> QED
    BY <1>12, <1>t, <2>1, <2>2 DEF PersistDeadLetter, TypeOK
<1>13. ASSUME NEW p \in Procs, SealEffect(p) PROVE TypeOK'
  <2>1. worker' \in [Procs -> WorkerState]
    BY <1>13, <1>k, GotoType, ReturnType DEF SealEffect, WorkerPc
  <2>2. ledger' \in [Events -> LedgerRow]
    BY <1>13, <1>l, <1>h, SettledType DEF SealEffect, LedgerStatus
  <2> QED
    BY <1>13, <1>t, <2>1, <2>2 DEF SealEffect, TypeOK
<1>14. ASSUME NEW p \in Procs, Ack(p) PROVE TypeOK'
  <2>1. worker' \in [Procs -> WorkerState]
    BY <1>14, <1>k, ReturnType DEF Ack
  <2>2. wire' \in [Events -> [Slots -> Entry]]
    BY <1>14, <1>w DEF Ack, Entry
  <2> QED
    BY <1>14, <1>t, <2>1, <2>2 DEF Ack, database, TypeOK
<1>15. ASSUME NEW p \in Procs, PublishThrows(p) PROVE TypeOK'
  <2>1. PICK e \in disp[p].todo, advanced \in BOOLEAN, stored \in BOOLEAN :
          /\ IF stored THEN Send(e, Rewritten(p, e), HoldsLease(p, e))
             ELSE wire' = IF advanced THEN [wire EXCEPT ![e] = Rewritten(p, e)]
                          ELSE wire
          /\ disp' = [disp EXCEPT ![p].pc = "failing", ![p].ev = e]
    BY <1>15 DEF PublishThrows
  <2>2. e \in Events
    BY <1>h
  <2>3. wire' \in [Events -> [Slots -> Entry]]
    <3>1. CASE stored
      BY <1>w, <2>1, <2>2, <3>1, RewrittenType, SendType DEF HoldsLease
    <3>2. CASE ~stored
      BY <1>w, <2>1, <2>2, <3>2, RewrittenType, SMTT(30)
    <3> QED
      BY <3>1, <3>2
  <2>4. disp' \in [Procs -> DispState]
    BY <1>d, <2>1, <2>2, ZenonT(60) DEF DispState, DispPc
  <2>5. faults' \in 0..MaxFaults
    BY <1>15, <1>f, FaultType DEF PublishThrows
  <2> QED
    BY <1>15, <1>t, <2>3, <2>4, <2>5 DEF PublishThrows, database, TypeOK
<1>16. ASSUME NEW p \in Procs, MarkThrows(p) \/ IterationThrows(p) PROVE TypeOK'
  <2>1. disp' \in [Procs -> DispState]
    BY <1>16, <1>d, NextItemType, IdleType DEF MarkThrows, IterationThrows
  <2>2. faults' \in 0..MaxFaults
    BY <1>16, <1>f, FaultType DEF MarkThrows, IterationThrows
  <2> QED
    BY <1>16, <1>t, <2>1, <2>2 DEF MarkThrows, IterationThrows, database, TypeOK
<1>17. ASSUME NEW p \in Procs, StartThrows(p) PROVE TypeOK'
  <2>1. worker' \in [Procs -> WorkerState]
    BY <1>17, <1>k, FailedType DEF StartThrows
  <2>2. wire' \in [Events -> [Slots -> Entry]]
    BY <1>17, <1>w, <1>h, UnboundType DEF StartThrows
  <2>3. faults' \in 0..MaxFaults
    BY <1>17, <1>f, FaultType DEF StartThrows
  <2> QED
    BY <1>17, <1>t, <2>1, <2>2, <2>3 DEF StartThrows, database, TypeOK
<1>18. ASSUME NEW p \in Procs, CompleteThrows(p) \/ CallbackThrows(p) PROVE TypeOK'
  <2>1. worker' \in [Procs -> WorkerState]
    BY <1>18, <1>k, FailedType, ReturnType DEF CompleteThrows, CallbackThrows
  <2>2. faults' \in 0..MaxFaults
    BY <1>18, <1>f, FaultType DEF CompleteThrows, CallbackThrows
  <2> QED
    BY <1>18, <1>t, <2>1, <2>2 DEF CompleteThrows, CallbackThrows, database, TypeOK
<1>19. ASSUME NEW p \in Procs, Crash(p) PROVE TypeOK'
  <2>1. disp' \in [Procs -> DispState] /\ worker' \in [Procs -> WorkerState]
    BY <1>19, <1>d, <1>k, IdleType DEF Crash
  <2>2. faults' \in 0..MaxFaults
    BY <1>19, <1>f, FaultType DEF Crash
  <2> QED
    BY <1>19, <1>t, <2>1, <2>2 DEF Crash, database, TypeOK
<1>20. ASSUME NEW p \in Procs, NEW e \in Events, MaterializeStart(p, e) PROVE TypeOK'
  BY <1>20, <1>t DEF MaterializeStart, StepDone, TypeOK
<1>21. ASSUME NEW p \in Procs, NEW e \in Events, MaterializeThrows(p, e) PROVE TypeOK'
  <2>1. faults' \in 0..MaxFaults
    BY <1>21, <1>f, FaultType DEF MaterializeThrows
  <2> QED
    BY <1>21, <1>t, <2>1 DEF MaterializeThrows, StepDone, database, TypeOK
<1>22. ASSUME NEW p \in Procs, NEW e \in Events, NEW i \in Slots, Deliver(p, e, i)
       PROVE TypeOK'
  <2>1. [pc |-> "received", ev |-> e, slot |-> i, attempt |-> 0] \in WorkerState
    BY DEF WorkerState, WorkerPc, PipelineAssumption
  <2> QED
    BY <1>22, <1>t, <2>1 DEF Deliver, database, TypeOK
<1>23. ASSUME NEW e \in Events, NEW i \in Slots, BrokerDrops(e, i) PROVE TypeOK'
  <2>1. wire' \in [Events -> [Slots -> Entry]]
    <3>1. [wire[e][i] EXCEPT !.pending = FALSE] \in Entry
      <4>1. wire[e][i] \in Entry
        BY <1>w
      <4> QED
        BY <4>1, DroppedType
    <3>2. [wire[e] EXCEPT ![i] = [wire[e][i] EXCEPT !.pending = FALSE]]
            \in [Slots -> Entry]
      BY <1>w, <3>1
    <3>3. wire' = [wire EXCEPT ![e] =
             [wire[e] EXCEPT ![i] = [wire[e][i] EXCEPT !.pending = FALSE]]]
      BY <1>23, <1>w DEF BrokerDrops
    <3> QED
      BY <1>w, <3>2, <3>3
  <2>2. faults' \in 0..MaxFaults
    BY <1>23, <1>f, FaultType DEF BrokerDrops
  <2> QED
    BY <1>23, <1>t, <2>1, <2>2 DEF BrokerDrops, database, TypeOK
<1>24. ASSUME NEW e \in Events, OutboxDue(e) \/ GraceElapses(e) PROVE TypeOK'
  <2>1. outbox' \in [Events -> OutboxRow]
    <3>1. /\ [outbox[e] EXCEPT !.due = TRUE] \in OutboxRow
          /\ [outbox[e] EXCEPT !.aged = TRUE] \in OutboxRow
      BY <1>o DEF OutboxRow
    <3> QED
      BY <1>24, <1>o, <3>1 DEF OutboxDue, GraceElapses
  <2> QED
    BY <1>24, <1>t, <2>1 DEF OutboxDue, GraceElapses, TypeOK
<1>25. ASSUME NEW e \in Events, LedgerLeaseElapses(e) PROVE TypeOK'
  <2>1. ledger' \in [Events -> LedgerRow]
    BY <1>25, <1>l DEF LedgerLeaseElapses, LedgerRow
  <2> QED
    BY <1>25, <1>t, <2>1 DEF LedgerLeaseElapses, TypeOK
<1> QED
  BY <1>1, <1>2, <1>3, <1>4, <1>5, <1>6, <1>7, <1>8, <1>9, <1>10, <1>11, <1>12,
     <1>13, <1>14, <1>15, <1>16, <1>17, <1>18, <1>19, <1>20, <1>21, <1>22, <1>23,
     <1>24, <1>25
  DEF Next, DispatcherStep, WorkerStep, Failure

-----------------------------------------------------------------------------
(* Who writes what *)

\* Each variable is left alone by all actions but the few that are named.
LEMMA Writers ==
  ASSUME Next
  PROVE  /\ \/ incident' = incident
            \/ \E e \in Events : ReceiveAlert(e)
            \/ \E p \in Procs, e \in Events : MaterializeStart(p, e)
         /\ \/ outbox' = outbox
            \/ \E p \in Procs : ClaimBatch(p) \/ MarkPublished(p) \/
                 RecordFailure(p) \/ Reconcile(p)
            \/ \E e \in Events : OutboxDue(e) \/ GraceElapses(e)
         /\ \/ deadLetters' = deadLetters
            \/ \E p \in Procs : RecordFailure(p) \/ PersistDeadLetter(p)
         /\ \/ runs' = runs
            \/ \E p \in Procs, e \in Events : MaterializeStart(p, e)
         /\ \/ ledger' = ledger
            \/ \E p \in Procs : ClaimEffect(p) \/ CompleteEffect(p) \/
                 ReleaseAndNack(p) \/ SealEffect(p)
            \/ \E e \in Events : LedgerLeaseElapses(e)
         /\ \/ wire' = wire
            \/ \E p \in Procs : PublishNext(p) \/ PublishThrows(p) \/
                 StartRun(p) \/ StartThrows(p) \/ Ack(p)
            \/ \E e \in Events, i \in Slots : BrokerDrops(e, i)
         /\ \/ disp' = disp
            \/ \E p \in Procs : ClaimBatch(p) \/ PublishNext(p) \/
                 MarkPublished(p) \/ RecordFailure(p) \/ PublishThrows(p) \/
                 MarkThrows(p) \/ IterationThrows(p) \/ Crash(p)
         /\ \/ worker' = worker
            \/ \E p \in Procs : CheckEnvelope(p) \/ ClaimEffect(p) \/
                 StartRun(p) \/ CompleteEffect(p) \/ ReleaseAndNack(p) \/
                 PersistDeadLetter(p) \/ SealEffect(p) \/ Ack(p) \/
                 StartThrows(p) \/ CompleteThrows(p) \/ CallbackThrows(p) \/
                 Crash(p)
            \/ \E p \in Procs, e \in Events, i \in Slots : Deliver(p, e, i)
         /\ \/ launched' = launched
            \/ \E p \in Procs : StartRun(p) \/ Crash(p)
            \/ \E p \in Procs, e \in Events : MaterializeStart(p, e) \/
                 MaterializeThrows(p, e)
         /\ \/ accepted' = accepted
            \/ \E p \in Procs : StartRun(p)
<1>1. \/ incident' = incident
      \/ \E e \in Events : ReceiveAlert(e)
      \/ \E p \in Procs, e \in Events : MaterializeStart(p, e)
  BY ZenonT(60) DEF Next, DispatcherStep, WorkerStep, Failure, ClaimBatch, PublishNext,
         MarkPublished, RecordFailure, Reconcile, CheckEnvelope, ClaimEffect,
         StartRun, CompleteEffect, ReleaseAndNack, PersistDeadLetter, SealEffect,
         Ack, PublishThrows, MarkThrows, IterationThrows, StartThrows,
         CompleteThrows, CallbackThrows, Crash, OutboxDue, GraceElapses,
         LedgerLeaseElapses, BrokerDrops, MaterializeThrows, Deliver, database
<1>2. \/ outbox' = outbox
      \/ \E p \in Procs : ClaimBatch(p) \/ MarkPublished(p) \/ RecordFailure(p)
           \/ Reconcile(p)
      \/ \E e \in Events : OutboxDue(e) \/ GraceElapses(e)
  BY ZenonT(60) DEF Next, DispatcherStep, WorkerStep, Failure, PublishNext,
         CheckEnvelope, ClaimEffect, StartRun, CompleteEffect, ReleaseAndNack,
         PersistDeadLetter, SealEffect, Ack, PublishThrows, MarkThrows,
         IterationThrows, StartThrows, CompleteThrows, CallbackThrows, Crash,
         ReceiveAlert, LedgerLeaseElapses, BrokerDrops, MaterializeStart,
         MaterializeThrows, Deliver, database
<1>3. \/ deadLetters' = deadLetters
      \/ \E p \in Procs : RecordFailure(p) \/ PersistDeadLetter(p)
  BY ZenonT(60) DEF Next, DispatcherStep, WorkerStep, Failure, ClaimBatch, PublishNext,
         MarkPublished, Reconcile, CheckEnvelope, ClaimEffect, StartRun,
         CompleteEffect, ReleaseAndNack, SealEffect, Ack, PublishThrows,
         MarkThrows, IterationThrows, StartThrows, CompleteThrows, CallbackThrows,
         Crash, ReceiveAlert, OutboxDue, GraceElapses, LedgerLeaseElapses,
         BrokerDrops, MaterializeStart, MaterializeThrows, Deliver, database
<1>4. \/ runs' = runs
      \/ \E p \in Procs, e \in Events : MaterializeStart(p, e)
  BY ZenonT(60) DEF Next, DispatcherStep, WorkerStep, Failure, ClaimBatch, PublishNext,
         MarkPublished, RecordFailure, Reconcile, CheckEnvelope, ClaimEffect,
         StartRun, CompleteEffect, ReleaseAndNack, PersistDeadLetter, SealEffect,
         Ack, PublishThrows, MarkThrows, IterationThrows, StartThrows,
         CompleteThrows, CallbackThrows, Crash, ReceiveAlert, OutboxDue,
         GraceElapses, LedgerLeaseElapses, BrokerDrops, MaterializeThrows, Deliver,
         database
<1>5. \/ ledger' = ledger
      \/ \E p \in Procs : ClaimEffect(p) \/ CompleteEffect(p) \/
           ReleaseAndNack(p) \/ SealEffect(p)
      \/ \E e \in Events : LedgerLeaseElapses(e)
  BY ZenonT(60) DEF Next, DispatcherStep, WorkerStep, Failure, ClaimBatch, PublishNext,
         MarkPublished, RecordFailure, Reconcile, CheckEnvelope, StartRun,
         PersistDeadLetter, Ack, PublishThrows, MarkThrows, IterationThrows,
         StartThrows, CompleteThrows, CallbackThrows, Crash, ReceiveAlert,
         OutboxDue, GraceElapses, BrokerDrops, MaterializeStart, MaterializeThrows,
         Deliver, database
<1>6. \/ wire' = wire
      \/ \E p \in Procs : PublishNext(p) \/ PublishThrows(p) \/ StartRun(p) \/
           StartThrows(p) \/ Ack(p)
      \/ \E e \in Events, i \in Slots : BrokerDrops(e, i)
  BY ZenonT(60) DEF Next, DispatcherStep, WorkerStep, Failure, ClaimBatch,
         MarkPublished, RecordFailure, Reconcile, CheckEnvelope, ClaimEffect,
         CompleteEffect, ReleaseAndNack, PersistDeadLetter, SealEffect, MarkThrows,
         IterationThrows, CompleteThrows, CallbackThrows, Crash, ReceiveAlert,
         OutboxDue, GraceElapses, LedgerLeaseElapses, MaterializeStart,
         MaterializeThrows, Deliver, database
<1>7. \/ disp' = disp
      \/ \E p \in Procs : ClaimBatch(p) \/ PublishNext(p) \/ MarkPublished(p)
           \/ RecordFailure(p) \/ PublishThrows(p) \/ MarkThrows(p) \/
           IterationThrows(p) \/ Crash(p)
  BY ZenonT(60) DEF Next, DispatcherStep, WorkerStep, Failure, Reconcile,
         CheckEnvelope, ClaimEffect, StartRun, CompleteEffect, ReleaseAndNack,
         PersistDeadLetter, SealEffect, Ack, StartThrows, CompleteThrows,
         CallbackThrows, ReceiveAlert, OutboxDue, GraceElapses, LedgerLeaseElapses,
         BrokerDrops, MaterializeStart, MaterializeThrows, Deliver, database
<1>8. \/ worker' = worker
      \/ \E p \in Procs : CheckEnvelope(p) \/ ClaimEffect(p) \/ StartRun(p) \/
           CompleteEffect(p) \/ ReleaseAndNack(p) \/ PersistDeadLetter(p) \/
           SealEffect(p) \/ Ack(p) \/ StartThrows(p) \/ CompleteThrows(p) \/
           CallbackThrows(p) \/ Crash(p)
      \/ \E p \in Procs, e \in Events, i \in Slots : Deliver(p, e, i)
  BY ZenonT(60) DEF Next, DispatcherStep, WorkerStep, Failure, ClaimBatch, PublishNext,
         MarkPublished, RecordFailure, Reconcile, PublishThrows, MarkThrows,
         IterationThrows, ReceiveAlert, OutboxDue, GraceElapses,
         LedgerLeaseElapses, BrokerDrops, MaterializeStart, MaterializeThrows,
         database
<1>9. \/ launched' = launched
      \/ \E p \in Procs : StartRun(p) \/ Crash(p)
      \/ \E p \in Procs, e \in Events : MaterializeStart(p, e) \/
           MaterializeThrows(p, e)
  BY ZenonT(60) DEF Next, DispatcherStep, WorkerStep, Failure, ClaimBatch, PublishNext,
         MarkPublished, RecordFailure, Reconcile, CheckEnvelope, ClaimEffect,
         CompleteEffect, ReleaseAndNack, PersistDeadLetter, SealEffect, Ack,
         PublishThrows, MarkThrows, IterationThrows, StartThrows, CompleteThrows,
         CallbackThrows, ReceiveAlert, OutboxDue, GraceElapses, LedgerLeaseElapses,
         BrokerDrops, Deliver, database
<1>10. \/ accepted' = accepted
       \/ \E p \in Procs : StartRun(p)
  BY ZenonT(60) DEF Next, DispatcherStep, WorkerStep, Failure, ClaimBatch, PublishNext,
         MarkPublished, RecordFailure, Reconcile, CheckEnvelope, ClaimEffect,
         CompleteEffect, ReleaseAndNack, PersistDeadLetter, SealEffect, Ack,
         PublishThrows, MarkThrows, IterationThrows, StartThrows, CompleteThrows,
         CallbackThrows, Crash, ReceiveAlert, OutboxDue, GraceElapses,
         LedgerLeaseElapses, BrokerDrops, MaterializeStart, MaterializeThrows,
         Deliver, database
<1> QED
  BY <1>1, <1>2, <1>3, <1>4, <1>5, <1>6, <1>7, <1>8, <1>9, <1>10

-----------------------------------------------------------------------------
(* What stays true once it is, and how one loop moves *)

\* A verdict is never taken back: runs, dead letters, accepted starts and
\* terminal ledger rows only accumulate.
LEMMA VerdictsStay ==
  ASSUME PipelineAssumption, PipelineInv, Next
  PROVE  /\ runs \subseteq runs'
         /\ deadLetters \subseteq deadLetters'
         /\ accepted \subseteq accepted'
         /\ \A e \in Events : Terminal(e) => ledger'[e].status = ledger[e].status
<1>l. ledger \in [Events -> LedgerRow]
  BY DEF PipelineInv, TypeOK
<1>1. runs \subseteq runs'
  BY Writers DEF MaterializeStart
<1>2. deadLetters \subseteq deadLetters'
  BY Writers DEF RecordFailure, PersistDeadLetter
<1>3. accepted \subseteq accepted'
  BY Writers DEF StartRun
<1>4. ASSUME NEW e \in Events, Terminal(e) PROVE ledger'[e].status = ledger[e].status
  <2>1. ASSUME NEW p \in Procs, ClaimEffect(p) PROVE ledger'[e].status = ledger[e].status
    <3>1. CASE worker[p].ev = e
      BY <1>4, <2>1, <3>1 DEF ClaimEffect
    <3>2. CASE worker[p].ev # e
      BY <1>l, <2>1, <3>2 DEF ClaimEffect
    <3> QED
      BY <3>1, <3>2
  <2>2. ASSUME NEW p \in Procs, CompleteEffect(p) \/ SealEffect(p)
        PROVE  ledger'[e].status = ledger[e].status
    <3>1. CASE worker[p].ev = e
      BY <1>4, <2>2, <3>1 DEF CompleteEffect, SealEffect, HoldsFence, Terminal
    <3>2. CASE worker[p].ev # e
      BY <1>l, <2>2, <3>2 DEF CompleteEffect, SealEffect
    <3> QED
      BY <3>1, <3>2
  <2>3. ASSUME NEW p \in Procs, ReleaseAndNack(p)
        PROVE  ledger'[e].status = ledger[e].status
    BY <1>l, <2>3 DEF ReleaseAndNack, LedgerRow
  <2>4. ASSUME NEW f \in Events, LedgerLeaseElapses(f)
        PROVE  ledger'[e].status = ledger[e].status
    BY <1>l, <2>4 DEF LedgerLeaseElapses, LedgerRow
  <2> QED
    BY <2>1, <2>2, <2>3, <2>4, Writers
<1> QED
  BY <1>1, <1>2, <1>3, <1>4

\* How one dispatcher loop moves, whoever takes the step.
LEMMA LoopMoves ==
  ASSUME PipelineAssumption, PipelineInv, Next, NEW p \in Procs
  PROVE  \/ disp'[p] = disp[p]
         \/ /\ disp'[p].pc \in {"idle", "publishing"}
            /\ disp'[p].todo \subseteq disp[p].todo
         \/ /\ disp'[p].pc = "publishing"
            /\ \A e \in disp'[p].todo : e \in Events /\ Claimable(e)
         \/ /\ disp'[p].todo = disp[p].todo
            /\ disp'[p].ev \in disp[p].todo
<1>d. disp \in [Procs -> DispState]
  BY DEF PipelineInv, TypeOK
<1> DEFINE Moved == \/ disp'[p] = disp[p]
                    \/ /\ disp'[p].pc \in {"idle", "publishing"}
                       /\ disp'[p].todo \subseteq disp[p].todo
                    \/ /\ disp'[p].pc = "publishing"
                       /\ \A e \in disp'[p].todo : e \in Events /\ Claimable(e)
                    \/ /\ disp'[p].todo = disp[p].todo
                       /\ disp'[p].ev \in disp[p].todo
<1>1. ASSUME NEW q \in Procs, ClaimBatch(q) PROVE Moved
  <2>1. PICK S \in SUBSET {e \in Events : Claimable(e)} :
          disp' = [disp EXCEPT ![q] = [pc |-> "publishing", todo |-> S, ev |-> NoEvent]]
    BY <1>1 DEF ClaimBatch
  <2> QED
    BY <1>d, <2>1
<1>2. ASSUME NEW q \in Procs, PublishNext(q) \/ PublishThrows(q) PROVE Moved
  <2>1. PICK e \in disp[q].todo, pc \in {"marking", "failing"} :
          disp' = [disp EXCEPT ![q].pc = pc, ![q].ev = e]
    BY <1>2 DEF PublishNext, PublishThrows
  <2>2. CASE p = q
    BY <1>d, <2>1, <2>2 DEF DispState
  <2>3. CASE p # q
    BY <1>d, <2>1, <2>3
  <2> QED
    BY <2>2, <2>3
<1>3. ASSUME NEW q \in Procs, MarkPublished(q) \/ RecordFailure(q) \/ MarkThrows(q)
      PROVE  Moved
  <2>1. disp' = [disp EXCEPT ![q] = NextItem(@)]
    BY <1>3 DEF MarkPublished, RecordFailure, MarkThrows
  <2> QED
    BY <1>d, <2>1, NextItemType
<1>4. ASSUME NEW q \in Procs, IterationThrows(q) \/ Crash(q) PROVE Moved
  <2>1. disp' = [disp EXCEPT ![q] = IdleDisp]
    BY <1>4 DEF IterationThrows, Crash
  <2> QED
    BY <1>d, <2>1 DEF IdleDisp
<1> QED
  BY <1>1, <1>2, <1>3, <1>4, Writers

\* How one worker callback moves, whoever takes the step; a callback that enters
\* a closing step has just read the cause.
LEMMA CallbackMoves ==
  ASSUME PipelineAssumption, PipelineInv, Next, NEW p \in Procs
  PROVE  \/ worker'[p] = worker[p]
         \/ worker'[p].pc = "idle" /\ worker'[p].ev = NoEvent
         \/ /\ worker'[p].pc = "received"
            /\ worker'[p].ev \in Events /\ worker'[p].slot \in Slots
            /\ wire[worker'[p].ev][worker'[p].slot].pending
         \/ /\ worker[p].pc # "idle"
            /\ worker'[p].ev = worker[p].ev /\ worker'[p].slot = worker[p].slot
            /\ \/ worker'[p].pc \in {"claiming", "discarding", "starting",
                                     "retrying", "exhausted"}
               \/ /\ worker'[p].pc = "sealing"
                  /\ worker[p].ev \in deadLetters' \cup runs'
               \/ worker'[p].pc = "confirming" /\ worker[p].ev \in runs
               \/ worker'[p].pc = "completing" /\ worker[p].ev \in accepted'
               \/ worker'[p].pc = "acking" /\ Terminal(worker[p].ev)'
<1>k. worker \in [Procs -> WorkerState] /\ ledger \in [Events -> LedgerRow]
  BY DEF PipelineInv, TypeOK
<1>h. \A q \in Procs : worker[q].pc # "idle" => worker[q].ev \in Events
  BY DEF PipelineInv, ItemInHand
<1> DEFINE Ends == worker'[p].pc = "idle" /\ worker'[p].ev = NoEvent
           Keeps == /\ worker[p].pc # "idle"
                    /\ worker'[p].ev = worker[p].ev /\ worker'[p].slot = worker[p].slot
           Begins == /\ worker'[p].pc = "received"
                     /\ worker'[p].ev \in Events /\ worker'[p].slot \in Slots
                     /\ wire[worker'[p].ev][worker'[p].slot].pending
           Enters ==
             \/ worker'[p].pc \in {"claiming", "discarding", "starting",
                                   "retrying", "exhausted"}
             \/ worker'[p].pc = "sealing" /\ worker[p].ev \in deadLetters' \cup runs'
             \/ worker'[p].pc = "confirming" /\ worker[p].ev \in runs
             \/ worker'[p].pc = "completing" /\ worker[p].ev \in accepted'
             \/ worker'[p].pc = "acking" /\ Terminal(worker[p].ev)'
           Moved == worker'[p] = worker[p] \/ Ends \/ Begins \/ (Keeps /\ Enters)
<1>1. ASSUME NEW q \in Procs, CheckEnvelope(q) PROVE Moved
  <2>1. PICK pc \in {"claiming", "discarding"} : Goto(q, pc)
    BY <1>1 DEF CheckEnvelope
  <2>2. pc \in WorkerPc /\ worker[q].pc = "received"
    BY <1>1 DEF CheckEnvelope, WorkerPc
  <2> QED
    BY <1>k, <2>1, <2>2, GotoType, ZenonT(60)
<1>2. ASSUME NEW q \in Procs, ClaimEffect(q) PROVE Moved
  <2>1. worker[q].pc = "claiming"
    BY <1>2 DEF ClaimEffect
  <2>2. CASE Terminal(worker[q].ev) /\ Goto(q, "acking") /\ UNCHANGED ledger
    BY <1>k, <2>1, <2>2, GotoType DEF WorkerPc, Terminal
  <2>3. CASE Return(q)
    BY <1>k, <2>3, ReturnType
  <2>4. CASE \E n : worker' = [worker EXCEPT ![q].attempt = n, ![q].pc =
               IF worker[q].ev \in deadLetters THEN "sealing"
               ELSE IF worker[q].ev \in runs THEN "confirming" ELSE "starting"]
    <3>1. deadLetters \subseteq deadLetters'
      BY VerdictsStay
    <3>2. CASE p = q
      BY <1>k, <2>1, <2>4, <3>1, <3>2 DEF WorkerState
    <3>3. CASE p # q
      BY <1>k, <2>4, <3>3
    <3> QED
      BY <3>2, <3>3
  <2> QED
    BY <1>2, <2>2, <2>3, <2>4 DEF ClaimEffect
<1>3. ASSUME NEW q \in Procs, StartRun(q) PROVE Moved
  <2>1. /\ Goto(q, "completing") /\ worker[q].pc = "starting"
        /\ worker[q].ev \in accepted'
    BY <1>3 DEF StartRun
  <2> QED
    BY <1>k, <2>1, GotoType DEF WorkerPc
<1>4. ASSUME NEW q \in Procs, CompleteEffect(q) \/ SealEffect(q) PROVE Moved
  <2>1. worker[q].pc # "idle" /\ worker[q].ev \in Events
    BY <1>4, <1>h DEF CompleteEffect, SealEffect
  <2>2. CASE ~HoldsFence(q, worker[q].ev)
    <3>1. Return(q)
      BY <1>4, <2>2 DEF CompleteEffect, SealEffect
    <3> QED
      BY <1>k, <3>1, ReturnType
  <2>3. CASE HoldsFence(q, worker[q].ev)
    <3>1. Goto(q, "acking")
      BY <1>4, <2>3 DEF CompleteEffect, SealEffect
    <3>2. PICK s \in {"completed", "dead_lettered"} :
            ledger' = [ledger EXCEPT ![worker[q].ev] = Settled(ledger[worker[q].ev], s)]
      BY <1>4, <2>3 DEF CompleteEffect, SealEffect
    <3>3. Settled(ledger[worker[q].ev], s).status = s
      BY <1>k, <2>1, SettledType DEF LedgerStatus
    <3>4. ledger'[worker[q].ev].status = s
      BY <1>k, <2>1, <3>2, <3>3
    <3>5. CASE p = q
      <4>1. worker'[p].ev = worker[q].ev /\ Terminal(worker[q].ev)'
        BY <1>k, <3>1, <3>4, <3>5, GotoType DEF Terminal, WorkerPc
      <4> QED
        BY <1>k, <2>1, <3>1, <3>5, <4>1, GotoType DEF WorkerPc
    <3>6. CASE p # q
      BY <1>k, <3>1, <3>6, GotoType DEF WorkerPc
    <3> QED
      BY <3>5, <3>6
  <2> QED
    BY <2>2, <2>3
<1>5. ASSUME NEW q \in Procs, PersistDeadLetter(q) PROVE Moved
  <2>1. /\ Goto(q, "sealing") /\ worker[q].pc = "exhausted"
        /\ worker[q].ev \in deadLetters' \cup runs'
    BY <1>5 DEF PersistDeadLetter
  <2> QED
    BY <1>k, <2>1, GotoType DEF WorkerPc
<1>6. ASSUME NEW q \in Procs, ReleaseAndNack(q) \/ Ack(q) \/ CallbackThrows(q)
      PROVE  Moved
  BY <1>k, <1>6, ReturnType DEF ReleaseAndNack, Ack, CallbackThrows
<1>7. ASSUME NEW q \in Procs, StartThrows(q) \/ CompleteThrows(q) PROVE Moved
  <2>1. Failed(q) /\ worker[q].pc # "idle"
    BY <1>7 DEF StartThrows, CompleteThrows
  <2> QED
    BY <1>k, <2>1, FailedType
<1>8. ASSUME NEW q \in Procs, Crash(q) PROVE Moved
  BY <1>k, <1>8 DEF Crash, IdleWorker
<1>9. ASSUME NEW q \in Procs, NEW e \in Events, NEW i \in Slots, Deliver(q, e, i)
      PROVE  Moved
  BY <1>k, <1>9 DEF Deliver
<1> QED
  BY <1>1, <1>2, <1>3, <1>4, <1>5, <1>6, <1>7, <1>8, <1>9, Writers

-----------------------------------------------------------------------------
(* The parts of the inductive invariant, each kept by every action *)

\* A loop in the middle of an item keeps holding it.
LEMMA ItemStep ==
  ASSUME PipelineAssumption, PipelineInv, Next
  PROVE  ItemInHand'
<1> SUFFICES ASSUME NEW p \in Procs
             PROVE  /\ disp'[p].pc \in {"marking", "failing"} =>
                         disp'[p].ev \in disp'[p].todo
                    /\ worker'[p].pc # "idle" =>
                         worker'[p].ev \in Events /\ worker'[p].slot \in Slots
  BY DEF ItemInHand
<1>1. disp'[p].pc \in {"marking", "failing"} => disp'[p].ev \in disp'[p].todo
  BY LoopMoves DEF PipelineInv, ItemInHand
<1>2. worker'[p].pc # "idle" => worker'[p].ev \in Events /\ worker'[p].slot \in Slots
  BY CallbackMoves DEF PipelineInv, ItemInHand
<1> QED
  BY <1>1, <1>2

\* What a callback read to be the cause of a verdict does not go away.
LEMMA CauseStep ==
  ASSUME PipelineAssumption, PipelineInv, Next
  PROVE  CauseInHand'
<1> SUFFICES ASSUME NEW p \in Procs
             PROVE  /\ worker'[p].pc = "completing" => worker'[p].ev \in accepted'
                    /\ worker'[p].pc = "confirming" => worker'[p].ev \in runs'
                    /\ worker'[p].pc = "sealing" =>
                         worker'[p].ev \in deadLetters' \cup runs'
  BY DEF CauseInHand
<1>1. CASE worker'[p] = worker[p]
  BY <1>1, VerdictsStay DEF PipelineInv, CauseInHand
<1>2. CASE worker'[p] # worker[p]
  BY <1>2, CallbackMoves, VerdictsStay
<1> QED
  BY <1>1, <1>2

\* A terminal ledger row stays terminal until the entry is acknowledged.
LEMMA AckStep ==
  ASSUME PipelineAssumption, PipelineInv, Next
  PROVE  AckIsEarned'
<1> SUFFICES ASSUME NEW p \in Procs, worker'[p].pc = "acking"
             PROVE  Terminal(worker[p].ev)' /\ worker'[p].ev = worker[p].ev
  BY DEF AckIsEarned, Terminal
<1>1. CASE worker'[p] = worker[p]
  <2>1. Terminal(worker[p].ev) /\ worker[p].ev \in Events
    BY <1>1 DEF PipelineInv, AckIsEarned, ItemInHand
  <2> QED
    BY <1>1, <2>1, VerdictsStay DEF Terminal
<1>2. CASE worker'[p] # worker[p]
  BY <1>2, CallbackMoves
<1> QED
  BY <1>1, <1>2

\* Whoever writes a run or a dead letter has looked for the other one.
LEMMA ExclusionStep ==
  ASSUME PipelineAssumption, PipelineInv, Next
  PROVE  RunExcludesDeadLetter'
<1>1. runs \cap deadLetters = {}
  BY DEF PipelineInv, RunExcludesDeadLetter
<1>2. ASSUME NEW p \in Procs, NEW e \in Events, MaterializeStart(p, e)
      PROVE  runs' \cap deadLetters' = {}
  BY <1>1, <1>2 DEF MaterializeStart
<1>3. ASSUME NEW p \in Procs, RecordFailure(p) \/ PersistDeadLetter(p)
      PROVE  runs' \cap deadLetters' = {}
  BY <1>1, <1>3 DEF RecordFailure, PersistDeadLetter
<1> QED
  BY <1>1, <1>2, <1>3, Writers DEF RunExcludesDeadLetter

\* The ledger is closed only by a callback with the cause in hand.
LEMMA LedgerStep ==
  ASSUME PipelineAssumption, PipelineInv, Next
  PROVE  LedgerVerdictHasCause'
<1>l. ledger \in [Events -> LedgerRow]
  BY DEF PipelineInv, TypeOK
<1> SUFFICES ASSUME NEW e \in Events
             PROVE  /\ ledger'[e].status = "completed" => e \in accepted' \cup runs'
                    /\ ledger'[e].status = "dead_lettered" =>
                         e \in deadLetters' \cup runs'
  BY DEF LedgerVerdictHasCause
<1>1. CASE ledger'[e].status = ledger[e].status
  BY <1>1, VerdictsStay DEF PipelineInv, LedgerVerdictHasCause
<1>2. ASSUME NEW p \in Procs, ClaimEffect(p), ledger'[e].status # ledger[e].status
      PROVE  ledger'[e].status = "processing"
  BY <1>l, <1>2 DEF ClaimEffect
<1>3. ASSUME NEW p \in Procs, CompleteEffect(p), ledger'[e].status # ledger[e].status
      PROVE  ledger'[e].status = "completed" /\ e \in accepted' \cup runs'
  <2>1. worker[p].ev = e /\ ledger' = [ledger EXCEPT ![e] = Settled(@, "completed")]
    BY <1>l, <1>3 DEF CompleteEffect
  <2>2. ledger'[e].status = "completed"
    BY <1>l, <2>1, SettledType DEF LedgerStatus
  <2>3. e \in accepted \cup runs
    BY <1>3, <2>1 DEF CompleteEffect, PipelineInv, CauseInHand
  <2> QED
    BY <2>2, <2>3, VerdictsStay
<1>4. ASSUME NEW p \in Procs, SealEffect(p), ledger'[e].status # ledger[e].status
      PROVE  ledger'[e].status = "dead_lettered" /\ e \in deadLetters' \cup runs'
  <2>1. worker[p].ev = e /\ ledger' = [ledger EXCEPT ![e] = Settled(@, "dead_lettered")]
    BY <1>l, <1>4 DEF SealEffect
  <2>2. ledger'[e].status = "dead_lettered"
    BY <1>l, <2>1, SettledType DEF LedgerStatus
  <2>3. e \in deadLetters \cup runs
    BY <1>4, <2>1 DEF SealEffect, PipelineInv, CauseInHand
  <2> QED
    BY <2>2, <2>3, VerdictsStay
<1>5. ASSUME NEW p \in Procs, ReleaseAndNack(p)
      PROVE  ledger'[e].status = ledger[e].status
  BY <1>l, <1>5 DEF ReleaseAndNack, LedgerRow
<1>6. ASSUME NEW f \in Events, LedgerLeaseElapses(f)
      PROVE  ledger'[e].status = ledger[e].status
  BY <1>l, <1>6 DEF LedgerLeaseElapses, LedgerRow
<1> QED
  BY <1>1, <1>2, <1>3, <1>4, <1>5, <1>6, Writers

\* A dead-lettered row is not claimed again, and the failure that spends the
\* budget ends the dispatcher's work on the row.
LEMMA BudgetStep ==
  ASSUME PipelineAssumption, PipelineInv, Next
  PROVE  BudgetSpentOnce'
<1>o. outbox \in [Events -> OutboxRow] /\ disp \in [Procs -> DispState]
  BY DEF PipelineInv, TypeOK
<1>p. NoProc \notin Procs
  BY DEF PipelineAssumption
<1> SUFFICES ASSUME NEW e \in Events, outbox'[e].attempts = MaxPublishAttempts
             PROVE  /\ e \in deadLetters'
                    /\ \A p \in Procs : outbox'[e].lease = p => e \notin disp'[p].todo
  BY DEF BudgetSpentOnce
<1>1. ASSUME e \in deadLetters, NEW p \in Procs, e \in disp'[p].todo
      PROVE  e \in disp[p].todo
  BY <1>1, LoopMoves DEF Claimable
<1>2. CASE /\ outbox[e].attempts = MaxPublishAttempts
           /\ outbox'[e].lease \in {outbox[e].lease, NoProc}
  BY <1>1, <1>2, <1>p, VerdictsStay DEF PipelineInv, BudgetSpentOnce
<1>3. ASSUME NEW q \in Procs, ClaimBatch(q)
      PROVE  /\ outbox[e].attempts = MaxPublishAttempts
             /\ outbox'[e].lease \in {outbox[e].lease, NoProc}
  <2>1. PICK S \in SUBSET {f \in Events : Claimable(f)} :
          outbox' = [f \in Events |->
            IF f \in S THEN [outbox[f] EXCEPT !.due = FALSE, !.lease = q]
            ELSE outbox[f]]
    BY <1>3 DEF ClaimBatch
  <2>2. outbox'[e].attempts = outbox[e].attempts
    BY <1>o, <2>1, ZenonT(60) DEF OutboxRow
  <2>3. e \notin S
    BY <2>1, <2>2 DEF PipelineInv, BudgetSpentOnce, Claimable
  <2> QED
    BY <2>1, <2>2, <2>3
<1>4. ASSUME NEW q \in Procs, MarkPublished(q)
      PROVE  /\ outbox[e].attempts = MaxPublishAttempts
             /\ outbox'[e].lease \in {outbox[e].lease, NoProc}
  BY <1>o, <1>4, PublishedRowType DEF MarkPublished
<1>5. ASSUME NEW q \in Procs, Reconcile(q)
      PROVE  /\ outbox[e].attempts = MaxPublishAttempts
             /\ outbox'[e].lease \in {outbox[e].lease, NoProc}
  BY <1>o, <1>5, ZenonT(60) DEF Reconcile, OutboxRow
<1>6. ASSUME NEW f \in Events, OutboxDue(f) \/ GraceElapses(f)
      PROVE  /\ outbox[e].attempts = MaxPublishAttempts
             /\ outbox'[e].lease \in {outbox[e].lease, NoProc}
  BY <1>o, <1>6 DEF OutboxDue, GraceElapses, OutboxRow
<1>7. ASSUME NEW q \in Procs, RecordFailure(q), outbox'[e] # outbox[e]
      PROVE  /\ e \in deadLetters'
             /\ \A p \in Procs : outbox'[e].lease = p => e \notin disp'[p].todo
  <2>1. /\ disp[q].pc = "failing" /\ disp[q].ev = e /\ HoldsLease(q, e)
        /\ outbox' = [outbox EXCEPT ![e] = RecordedFailure(@, e)]
    BY <1>o, <1>7 DEF RecordFailure
  <2>2. outbox[e].attempts # MaxPublishAttempts
    BY <2>1 DEF PipelineInv, BudgetSpentOnce, ItemInHand, HoldsLease
  <2>3. outbox'[e] = RecordedFailure(outbox[e], e)
    BY <1>o, <2>1
  <2>4. e \notin runs
    BY <1>o, <2>2, <2>3, PublishedRowType DEF RecordedFailure
  <2>5. outbox[e].attempts + 1 >= MaxPublishAttempts
    BY <1>o, <2>2, <2>3, <2>4 DEF RecordedFailure, OutboxRow, PipelineAssumption
  <2>6. outbox'[e].lease = q
    BY <1>o, <2>1, <2>3, <2>4, <2>5 DEF RecordedFailure, OutboxRow, HoldsLease
  <2>7. e \in deadLetters'
    BY <1>7, <2>1, <2>4, <2>5 DEF RecordFailure
  <2>8. e \notin disp'[q].todo
    BY <1>o, <1>7, <2>1, NextItemType DEF RecordFailure
  <2> QED
    BY <2>6, <2>7, <2>8
<1>8. CASE outbox'[e] = outbox[e]
  BY <1>2, <1>8
<1> QED
  BY <1>2, <1>3, <1>4, <1>5, <1>6, <1>7, <1>8, Writers

\* Nobody picks up an event whose ingest has not committed.
LEMMA IngestStep ==
  ASSUME PipelineAssumption, PipelineInv, Next
  PROVE  NothingBeforeIngest'
<1>t. /\ incident \in [Events -> {"absent", "received", "investigating"}]
      /\ wire \in [Events -> [Slots -> Entry]]
      /\ disp \in [Procs -> DispState]
      /\ launched \in [Procs -> SUBSET Events]
      /\ NoEvent \notin Events
  BY DEF PipelineInv, TypeOK, PipelineAssumption
<1> SUFFICES ASSUME NEW e \in Events, incident'[e] = "absent" PROVE Unborn(e)'
  BY DEF NothingBeforeIngest
<1>1. incident[e] = "absent"
  BY <1>t, Writers DEF ReceiveAlert, MaterializeStart
<1>2. Unborn(e)
  BY <1>1 DEF PipelineInv, NothingBeforeIngest
<1>3. e \notin runs'
  BY <1>2, Writers DEF MaterializeStart, Unborn
<1>4. e \notin deadLetters'
  <2>1. ASSUME NEW p \in Procs, RecordFailure(p) PROVE disp[p].ev # e
    BY <1>2, <2>1 DEF RecordFailure, PipelineInv, ItemInHand, Unborn
  <2> QED
    BY <1>2, <2>1, Writers DEF RecordFailure, PersistDeadLetter, Unborn
<1>5. \A i \in Slots : ~wire'[e][i].pending
  <2>1. ASSUME NEW p \in Procs, PublishNext(p) \/ PublishThrows(p)
        PROVE  wire'[e] = wire[e]
    <3>1. PICK f \in disp[p].todo, advanced \in BOOLEAN, stored \in BOOLEAN :
            IF stored THEN Send(f, Rewritten(p, f), HoldsLease(p, f))
            ELSE wire' = IF advanced THEN [wire EXCEPT ![f] = Rewritten(p, f)]
                         ELSE wire
      BY <2>1 DEF PublishNext, PublishThrows
    <3>2. f # e /\ f \in Events
      BY <1>t, <1>2 DEF Unborn, DispState
    <3>3. CASE stored
      BY <1>t, <3>1, <3>2, <3>3, RewrittenType, SendType DEF HoldsLease
    <3>4. CASE ~stored
      BY <1>t, <3>1, <3>2, <3>4
    <3> QED
      BY <3>3, <3>4
  <2>2. ASSUME NEW p \in Procs, StartRun(p) \/ StartThrows(p) \/ Ack(p)
        PROVE  wire'[e] = wire[e]
    BY <1>t, <1>2, <2>2 DEF StartRun, StartThrows, Ack, Unborn
  <2>3. ASSUME NEW f \in Events, NEW i \in Slots, BrokerDrops(f, i)
        PROVE  wire'[e] = wire[e]
    BY <1>t, <1>2, <2>3 DEF BrokerDrops, Unborn
  <2> QED
    BY <1>2, <2>1, <2>2, <2>3, Writers DEF Unborn
<1>6. ASSUME NEW p \in Procs PROVE e \notin disp'[p].todo
  BY <1>1, <1>2, LoopMoves DEF Unborn, Claimable
<1>7. ASSUME NEW p \in Procs PROVE worker'[p].ev # e
  BY <1>t, <1>2, CallbackMoves DEF Unborn
<1>8. ASSUME NEW p \in Procs PROVE e \notin launched'[p]
  BY <1>t, <1>2, Writers DEF StartRun, Crash, MaterializeStart, MaterializeThrows,
     StepDone, Unborn
<1> QED
  BY <1>3, <1>4, <1>5, <1>6, <1>7, <1>8 DEF Unborn

-----------------------------------------------------------------------------
(* Theorems *)

\* PipelineInv is inductive.
LEMMA InvStep ==
  ASSUME PipelineAssumption, PipelineInv, [Next]_vars
  PROVE  PipelineInv'
<1>1. CASE Next
  BY <1>1, TypeStep, ItemStep, BudgetStep, IngestStep, CauseStep, ExclusionStep,
     LedgerStep, AckStep
  DEF PipelineInv
<1>2. CASE UNCHANGED vars
  BY <1>2 DEF vars, database, PipelineInv, TypeOK, ItemInHand, BudgetSpentOnce,
     NothingBeforeIngest, Unborn, CauseInHand, RunExcludesDeadLetter,
     LedgerVerdictHasCause, AckIsEarned, Terminal
<1> QED
  BY <1>1, <1>2

\* In every reachable state the loops may rely on what they read before: the
\* inductive invariant holds for every number of events, processes and entries.
THEOREM Invariance == Spec => []PipelineInv
<1>1. Init => PipelineInv
  BY InitInv, PipelineAssumption
<1>2. PipelineInv /\ [Next]_vars => PipelineInv'
  BY InvStep, PipelineAssumption
<1> QED
  BY <1>1, <1>2, PTL DEF Spec

\* Every variable keeps its type and every budget its bound.
THEOREM TypeCorrect == Spec => []TypeOK
<1>1. PipelineInv => TypeOK
  BY DEF PipelineInv
<1> QED
  BY <1>1, Invariance, PTL

\* The workflow run and the dead letter of an event never coexist, although the
\* dispatcher, the worker and the workflow step write them independently.
THEOREM Exclusion == Spec => []RunExcludesDeadLetter
<1>1. PipelineInv => RunExcludesDeadLetter
  BY DEF PipelineInv
<1> QED
  BY <1>1, Invariance, PTL

\* A closed ledger row, which silences every later delivery, has its cause.
THEOREM VerdictCause == Spec => []LedgerVerdictHasCause
<1>1. PipelineInv => LedgerVerdictHasCause
  BY DEF PipelineInv
<1> QED
  BY <1>1, Invariance, PTL

\* The broker is told to forget an entry only when its event is settled.
THEOREM EarnedAck == Spec => []AckIsEarned
<1>1. PipelineInv => AckIsEarned
  BY DEF PipelineInv
<1> QED
  BY <1>1, Invariance, PTL

-----------------------------------------------------------------------------
(* Refinement of the one-verdict handoff *)

\* Before anything happened every alert is absent.
LEMMA HandoffStart == Init => Handoff!HandoffInit
  BY DEF Init, Handoff!HandoffInit, Verdict

\* What decides the verdict of an event.
LEMMA VerdictOf ==
  ASSUME PipelineInv, NEW e \in Events
  PROVE  /\ Verdict(e) = "absent" <=> incident[e] = "absent"
         /\ Verdict(e) = "running" <=> e \in runs
         /\ Verdict(e) = "dead" <=> e \in deadLetters
         /\ Verdict(e) \in {"absent", "pending", "running", "dead"}
  BY DEF Verdict, PipelineInv, NothingBeforeIngest, Unborn, RunExcludesDeadLetter

\* Every step of the pipeline is a step of the handoff or leaves it alone.
LEMMA HandoffStep ==
  ASSUME PipelineAssumption, PipelineInv, [Next]_vars
  PROVE  [Handoff!HandoffNext]_[e \in Events |-> Verdict(e)]
<1> DEFINE V == [e \in Events |-> Verdict(e)]
<1>i. PipelineInv'
  BY InvStep
<1>t. incident \in [Events -> {"absent", "received", "investigating"}]
  BY DEF PipelineInv, TypeOK
<1>1. CASE UNCHANGED <<incident, runs, deadLetters>>
  BY <1>1 DEF Verdict
<1>2. ASSUME NEW e \in Events, ReceiveAlert(e) PROVE Handoff!Accept(e)
  <2>1. Verdict(e) = "absent" /\ Verdict(e)' = "pending"
    BY <1>t, <1>2 DEF ReceiveAlert, Verdict, PipelineInv, NothingBeforeIngest, Unborn
  <2>2. ASSUME NEW f \in Events, f # e PROVE Verdict(f)' = Verdict(f)
    BY <1>t, <1>2, <2>2 DEF ReceiveAlert, Verdict
  <2> QED
    BY <2>1, <2>2 DEF Handoff!Accept
<1>3. ASSUME NEW p \in Procs, NEW e \in Events, MaterializeStart(p, e)
      PROVE  Handoff!Investigate(e) \/ UNCHANGED V
  <2>1. CASE e \in deadLetters \/ e \in runs \/ incident[e] # "received"
    BY <1>3, <2>1 DEF MaterializeStart, Verdict
  <2>2. CASE ~(e \in deadLetters \/ e \in runs \/ incident[e] # "received")
    <3>1. Verdict(e) = "pending" /\ Verdict(e)' = "running"
      BY <1>t, <1>3, <2>2 DEF MaterializeStart, Verdict
    <3>2. ASSUME NEW f \in Events, f # e PROVE Verdict(f)' = Verdict(f)
      BY <1>t, <1>3, <2>2, <3>2 DEF MaterializeStart, Verdict
    <3> QED
      BY <3>1, <3>2 DEF Handoff!Investigate
  <2> QED
    BY <2>1, <2>2
<1>4. ASSUME NEW e \in Events, deadLetters' = deadLetters \cup {e},
             e \notin deadLetters, e \notin runs,
             UNCHANGED <<incident, runs>>
      PROVE  Handoff!GiveUp(e)
  <2>1. incident[e] # "absent"
    BY <1>i, <1>4 DEF PipelineInv, NothingBeforeIngest, Unborn
  <2>2. Verdict(e) = "pending" /\ Verdict(e)' = "dead"
    BY <1>4, <2>1 DEF Verdict
  <2>3. ASSUME NEW f \in Events, f # e PROVE Verdict(f)' = Verdict(f)
    BY <1>4, <2>3 DEF Verdict
  <2> QED
    BY <2>2, <2>3 DEF Handoff!GiveUp
<1>5. ASSUME NEW p \in Procs, RecordFailure(p) \/ PersistDeadLetter(p)
      PROVE  (\E e \in Events : Handoff!GiveUp(e)) \/ UNCHANGED V
  <2>1. PICK e \in Events : /\ deadLetters' \in {deadLetters, deadLetters \cup {e}}
                            /\ e \in runs => deadLetters' = deadLetters
                            /\ UNCHANGED <<incident, runs>>
    <3>1. CASE RecordFailure(p)
      <4>1. disp[p].ev \in disp[p].todo /\ disp[p].todo \subseteq Events
        BY <3>1 DEF RecordFailure, PipelineInv, TypeOK, ItemInHand, DispState
      <4>2. disp[p].ev \in Events
        BY <4>1
      <4> QED
        BY <3>1, <4>2 DEF RecordFailure
    <3>2. CASE PersistDeadLetter(p)
      <4>1. worker[p].ev \in Events
        BY <3>2 DEF PersistDeadLetter, PipelineInv, ItemInHand
      <4> QED
        BY <3>2, <4>1 DEF PersistDeadLetter
    <3> QED
      BY <1>5, <3>1, <3>2
  <2>2. CASE deadLetters' = deadLetters
    BY <2>1, <2>2 DEF Verdict
  <2>3. CASE deadLetters' # deadLetters
    BY <1>4, <2>1, <2>3
  <2> QED
    BY <2>2, <2>3
<1>6. CASE Next
  BY <1>1, <1>2, <1>3, <1>5, <1>6, Writers DEF Handoff!HandoffNext
<1> QED
  BY <1>1, <1>6 DEF vars, database

\* The pipeline hands every accepted alert to one verdict and keeps it.
THEOREM Refinement == Spec => OneVerdict
<1>1. Init => Handoff!HandoffInit
  BY HandoffStart
<1>2. PipelineInv /\ [Next]_vars => [Handoff!HandoffNext]_[e \in Events |-> Verdict(e)]
  BY HandoffStep, PipelineAssumption
<1> QED
  BY <1>1, <1>2, Invariance, PTL DEF Spec, OneVerdict, Handoff!HandoffSpec
=============================================================================
