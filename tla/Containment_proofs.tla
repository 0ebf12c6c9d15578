------------------------- MODULE Containment_proofs -------------------------
(***************************************************************************)
(* Proofs about Containment for every number of executors, actions,        *)
(* attempts and failures: the inductive invariant ContainmentInv with the  *)
(* safety properties it contains, the action property NoLateEffect and the *)
(* refinement of ContainmentContract.                                      *)
(***************************************************************************)
EXTENDS ContainmentProps, FiniteSetTheorems, TLAPS

-----------------------------------------------------------------------------
(* What the helpers of the model return *)

\* The numbers the state is built from.
LEMMA Numbers ==
  ASSUME ContainmentAssumption
  PROVE  /\ 0 \in 0..MaxAttempts /\ 1 \in Actions /\ NumActions \in Actions
         /\ Attempts \subseteq 0..MaxAttempts
         /\ \A n \in 0..MaxAttempts : n \in Nat
         /\ \A a \in Actions : a \in Nat /\ (a < NumActions => a + 1 \in Actions)
  BY DEF ContainmentAssumption, Actions, Attempts

\* The idle executor is an executor state.
LEMMA IdleType ==
  ASSUME ContainmentAssumption
  PROVE  Idle \in ExecState /\ Idle.pc = "idle"
  BY Numbers DEF Idle, ExecState, Pc, Outcomes, Correlations

\* Moving the program counter, with or without a verdict, a reading or an attempt.
LEMMA MoveType ==
  ASSUME NEW e \in ExecState, NEW pc \in Pc, NEW v \in Outcomes \cup {"none"},
         NEW b \in BOOLEAN, NEW n \in 0..MaxAttempts, NEW c \in Correlations
  PROVE  /\ [e EXCEPT !.pc = pc] \in ExecState
         /\ [e EXCEPT !.fresh = b] \in ExecState
         /\ [e EXCEPT !.verdict = v] \in ExecState
         /\ [e EXCEPT !.pc = pc, !.fresh = b] \in ExecState
         /\ [e EXCEPT !.pc = pc, !.corr = c] \in ExecState
         /\ [e EXCEPT !.pc = pc, !.n = n] \in ExecState
         /\ [e EXCEPT !.pc = pc, !.caught = b] \in ExecState
         /\ [e EXCEPT !.pc = pc, !.verdict = v] \in ExecState
         /\ [e EXCEPT !.pc = pc, !.verdict = v, !.caught = b] \in ExecState
  BY DEF ExecState

\* The action loop goes on or stops with its verdict.
LEMMA AfterOutcomeType ==
  ASSUME ContainmentAssumption, NEW e \in ExecState, NEW o \in Outcomes
  PROVE  /\ AfterOutcome(e, o) \in ExecState
         /\ AfterOutcome(e, o).pc \in {"authorizing", "reading"}
         /\ AfterOutcome(e, o).pc = "reading" /\ AfterOutcome(e, o).verdict = "completed"
              => o = "completed" /\ e.at = NumActions
<1>1. CASE o = "completed" /\ e.at < NumActions
  <2>1. e.at + 1 \in Actions
    BY <1>1, Numbers DEF ExecState
  <2>2. AfterOutcome(e, o) = [e EXCEPT !.pc = "authorizing", !.at = e.at + 1, !.n = 0,
                                       !.verdict = "none", !.caught = FALSE]
    BY <1>1 DEF AfterOutcome
  <2> QED
    BY <2>1, <2>2, Numbers DEF ExecState, Pc
<1>2. CASE ~(o = "completed" /\ e.at < NumActions)
  <2>1. AfterOutcome(e, o) = [e EXCEPT !.pc = "reading", !.n = 0, !.caught = FALSE,
                               !.verdict = IF o = "completed" THEN o ELSE "failed"]
    BY <1>2 DEF AfterOutcome
  <2>2. o = "completed" => e.at = NumActions
    BY <1>2, Numbers DEF ExecState, Actions
  <2> QED
    BY <2>1, <2>2, Numbers DEF ExecState, Pc, Outcomes
<1> QED
  BY <1>1, <1>2

\* After recording, an executor closes or is done.
LEMMA AfterRecordType ==
  ASSUME ContainmentAssumption, NEW e \in ExecState, NEW t
  PROVE  /\ AfterRecord(e, t) \in ExecState
         /\ AfterRecord(e, t).pc \in {"closing", "idle"}
<1>1. /\ [e EXCEPT !.pc = "closing", !.fresh = FALSE] \in ExecState
      /\ [e EXCEPT !.pc = "closing", !.fresh = FALSE].pc = "closing"
  BY DEF Pc, ExecState
<1> QED
  BY <1>1, IdleType DEF AfterRecord

\* A new incident version makes every other executor's reading stale.
LEMMA ChangeType ==
  ASSUME NEW x \in Executors, NEW s, NEW next \in ExecState,
         exec \in [Executors -> ExecState], ChangeIncident(x, s, next)
  PROVE  /\ exec' \in [Executors -> ExecState]
         /\ incident' = s /\ exec'[x] = next
         /\ \A y \in Executors : y # x => exec'[y] = [exec[y] EXCEPT !.fresh = FALSE]
<1>1. \A y \in Executors : [exec[y] EXCEPT !.fresh = FALSE] \in ExecState
  BY DEF ExecState
<1> QED
  BY <1>1 DEF ChangeIncident

\* One more failure stays within the bound.
LEMMA FaultType ==
  ASSUME ContainmentAssumption, faults \in 0..MaxFaults, Fault
  PROVE  faults' \in 0..MaxFaults
  BY DEF Fault, ContainmentAssumption

\* The fence of an interrupted attempt touches that attempt only.
LEMMA FencedType ==
  ASSUME NEW a \in Actions, attempt \in [Actions -> [Attempts -> AttemptStatus]]
  PROVE  Fenced(a) \in [Attempts -> AttemptStatus]
  BY DEF Fenced, AttemptStatus, Outcomes

-----------------------------------------------------------------------------
(* Who writes what *)

\* Each variable is left alone by all actions but the few that are named.
LEMMA Writers ==
  ASSUME Next
  PROVE  /\ \/ incident' = incident
            \/ \E x \in Executors : Enter(x) \/ RecordOutcome(x) \/
                 CloseIncident(x)
         /\ \/ tries' = tries
            \/ \E x \in Executors : ClaimGranted(x)
         /\ \/ action' = action
            \/ \E x \in Executors : ClaimReconciled(x) \/ ClaimBlocked(x) \/
                 ClaimGranted(x) \/ Finish(x)
         /\ \/ attempt' = attempt
            \/ \E x \in Executors : ClaimReconciled(x) \/ ClaimBlocked(x) \/
                 ClaimGranted(x) \/ Finish(x)
         /\ \/ effect' = effect
            \/ \E x \in Executors : ApplyEffect(x) \/ ApplyThrows(x)
            \/ \E x \in Executors, a \in Actions, n \in Attempts :
                 LateApply(x, a, n)
         /\ \/ exec' = exec
            \/ \E x \in Executors : Step(x) \/ Select(x) \/ ClaimBlocked(x) \/ Failure(x)
<1>1. \/ incident' = incident
      \/ \E x \in Executors : Enter(x) \/ RecordOutcome(x) \/ CloseIncident(x)
  BY ZenonT(60) DEF Next, Step, Failure, StartStep, Bind, Authorize, ClaimReplayed,
         ClaimDenied, ClaimReconciled, ClaimGranted, ApplyEffect, VerifyEffect,
         Finish, ReadIncident, MarkRun, Select, ClaimBlocked, ApplyThrows,
         PreconditionFails, TimesOut, VerificationFails, FinishThrows, StoreThrows,
         Crash, ApprovalExpires, LeaseElapses, LateApply, Abort, approval, claims,
         CloseAttempt
<1>2. \/ tries' = tries
      \/ \E x \in Executors : ClaimGranted(x)
  BY ZenonT(60) DEF Next, Step, Failure, StartStep, Bind, Enter, Authorize,
         ClaimReplayed, ClaimDenied, ClaimReconciled, ApplyEffect, VerifyEffect,
         Finish, ReadIncident, RecordOutcome, CloseIncident, MarkRun, Select,
         ClaimBlocked, ApplyThrows, PreconditionFails, TimesOut, VerificationFails,
         FinishThrows, StoreThrows, Crash, ApprovalExpires, LeaseElapses,
         LateApply, Abort, approval, claims, CloseAttempt, ChangeIncident
<1>3. \/ action' = action
      \/ \E x \in Executors : ClaimReconciled(x) \/ ClaimBlocked(x) \/
           ClaimGranted(x) \/ Finish(x)
  BY ZenonT(60) DEF Next, Step, Failure, StartStep, Bind, Enter, Authorize,
         ClaimReplayed, ClaimDenied, ApplyEffect, VerifyEffect, ReadIncident,
         RecordOutcome, CloseIncident, MarkRun, Select, ApplyThrows,
         PreconditionFails, TimesOut, VerificationFails, FinishThrows, StoreThrows,
         Crash, ApprovalExpires, LeaseElapses, LateApply, Abort, approval, claims,
         CloseAttempt, ChangeIncident
<1>4. \/ attempt' = attempt
      \/ \E x \in Executors : ClaimReconciled(x) \/ ClaimBlocked(x) \/
           ClaimGranted(x) \/ Finish(x)
  BY ZenonT(60) DEF Next, Step, Failure, StartStep, Bind, Enter, Authorize,
         ClaimReplayed, ClaimDenied, ApplyEffect, VerifyEffect, ReadIncident,
         RecordOutcome, CloseIncident, MarkRun, Select, ApplyThrows,
         PreconditionFails, TimesOut, VerificationFails, FinishThrows, StoreThrows,
         Crash, ApprovalExpires, LeaseElapses, LateApply, Abort, approval, claims,
         CloseAttempt, ChangeIncident
<1>5. \/ effect' = effect
      \/ \E x \in Executors : ApplyEffect(x) \/ ApplyThrows(x)
      \/ \E x \in Executors, a \in Actions, n \in Attempts : LateApply(x, a, n)
  BY ZenonT(60) DEF Next, Step, Failure, StartStep, Bind, Enter, Authorize,
         ClaimReplayed, ClaimDenied, ClaimReconciled, ClaimGranted, VerifyEffect,
         Finish, ReadIncident, RecordOutcome, CloseIncident, MarkRun, Select,
         ClaimBlocked, PreconditionFails, TimesOut, VerificationFails,
         FinishThrows, StoreThrows, Crash, ApprovalExpires, LeaseElapses, Abort,
         approval, claims, CloseAttempt, ChangeIncident
<1>6. \/ exec' = exec
     \/ \E x \in Executors : Step(x) \/ Select(x) \/ ClaimBlocked(x) \/ Failure(x)
  BY DEF Next, ApprovalExpires, LeaseElapses, LateApply
<1> QED
  BY <1>1, <1>2, <1>3, <1>4, <1>5, <1>6

-----------------------------------------------------------------------------
(* How executors, claims and effects move *)

\* The state of an executor that has just moved: it holds a reading, an attempt
\* or a cause that is good for what it does next.
Moved(e, s) ==
  \/ s.pc \in {"idle", "binding", "authorizing", "claiming", "closing", "marking"}
  \/ s.pc = "entering" /\ incident \in {"approved", "failed"} /\ incident' = incident
  \/ s.pc = "applying" /\ s.at = e.at /\ s.n = tries'[e.at] /\ s.n > 0
  \/ /\ e.pc \in {"applying", "verifying", "finishing"}
     /\ s.pc \in {"verifying", "finishing"}
     /\ s.at = e.at /\ s.n = e.n
     /\ s.pc = "finishing" => s.verdict # "none"
     /\ s.pc = "finishing" /\ s.verdict = "completed" => effect'[e.at] # 0
  \/ /\ s.pc = "reading"
     /\ s.verdict = "completed" => \A a \in Actions : action'[a] = "completed"
  \/ e.pc = "reading" /\ s.pc = "recording" /\ s.verdict = e.verdict

\* The executor x moves to s, with or without a change of the incident.
MovesTo(x, s) ==
  \/ exec' = [exec EXCEPT ![x] = s] /\ incident' = incident
  \/ ChangeIncident(x, incident', s)

\* The last action of the plan is completed only after all the others.
LEMMA LastCompletesAll ==
  ASSUME ContainmentAssumption, ContainmentInv, tries[NumActions] > 0,
         action'[NumActions] = "completed",
         \A b \in Actions : b # NumActions => action'[b] = action[b]
  PROVE  \A a \in Actions : action'[a] = "completed"
<1>1. PredecessorsCompleted(NumActions)
  BY Numbers DEF ContainmentInv, StartedInOrder
<1>2. \A a \in Actions : a # NumActions => a \in 1..(NumActions - 1)
  BY DEF Actions, ContainmentAssumption
<1> QED
  BY <1>1, <1>2 DEF PredecessorsCompleted

\* Getting to the action loop, and leaving it for good.
LEMMA PlainMoves ==
  ASSUME ContainmentAssumption, ContainmentInv, NEW x \in Executors,
         \/ StartStep(x) \/ Select(x) \/ Bind(x) \/ Enter(x) \/ Authorize(x)
         \/ ClaimDenied(x) \/ ClaimBlocked(x) \/ CloseIncident(x) \/ MarkRun(x)
         \/ StoreThrows(x) \/ Crash(x)
  PROVE  \E s \in ExecState : MovesTo(x, s) /\ Moved(exec[x], s)
<1>x. exec[x] \in ExecState
  BY DEF ContainmentInv, TypeOK
<1>i. ASSUME Abort(x), incident' = incident
      PROVE  \E s \in ExecState : MovesTo(x, s) /\ Moved(exec[x], s)
  BY <1>i, IdleType DEF Abort, MovesTo, Moved
<1>g. ASSUME NEW pc \in {"claiming"}, Goto(x, pc), incident' = incident
      PROVE  \E s \in ExecState : MovesTo(x, s) /\ Moved(exec[x], s)
  <2>1. /\ [exec[x] EXCEPT !.pc = pc] \in ExecState
        /\ [exec[x] EXCEPT !.pc = pc].pc = pc
    BY <1>x DEF ExecState, Pc
  <2>2. exec' = [exec EXCEPT ![x] = [exec[x] EXCEPT !.pc = pc]]
    BY <1>g DEF Goto
  <2> QED
    BY <1>g, <2>1, <2>2 DEF MovesTo, Moved
<1>1. CASE StartStep(x) \/ Bind(x)
  <2> DEFINE e1 == [exec[x] EXCEPT !.pc = "entering", !.fresh = TRUE]
             e2 == [exec[x] EXCEPT !.pc = "authorizing"]
             e3 == [exec[x] EXCEPT !.pc = "closing"]
  <2>1. /\ e1 \in ExecState /\ e2 \in ExecState /\ e3 \in ExecState
        /\ e1.pc = "entering" /\ e2.pc = "authorizing" /\ e3.pc = "closing"
    BY <1>x DEF ExecState, Pc
  <2>2. incident' = incident
    BY <1>1 DEF StartStep, Bind, approval
  <2>3. \/ incident \in {"approved", "failed"} /\ exec' = [exec EXCEPT ![x] = e1]
        \/ exec' = [exec EXCEPT ![x] = e2]
        \/ exec' = [exec EXCEPT ![x] = e3]
        \/ exec' = [exec EXCEPT ![x] = Idle]
    <3>1. CASE StartStep(x)
      BY <3>1 DEF StartStep
    <3>2. CASE Bind(x)
      BY <3>2 DEF Bind
    <3> QED
      BY <1>1, <3>1, <3>2
  <2> HIDE DEF e1, e2, e3
  <2> QED
    BY <2>1, <2>2, <2>3, IdleType DEF MovesTo, Moved
<1>2. CASE Select(x)
  <2>1. PICK c : exec' = [exec EXCEPT ![x].pc = "binding", ![x].corr = c] /\ c \in Correlations
    BY <1>2 DEF Select, ContainmentInv, TypeOK, Correlations
  <2>2. /\ [exec[x] EXCEPT !.pc = "binding", !.corr = c] \in ExecState
        /\ [exec[x] EXCEPT !.pc = "binding", !.corr = c].pc = "binding"
    BY <1>x, <2>1 DEF ExecState, Pc
  <2>3. exec' = [exec EXCEPT ![x] = [exec[x] EXCEPT !.pc = "binding", !.corr = c]]
    BY <2>1
  <2> QED
    BY <1>2, <2>2, <2>3 DEF Select, MovesTo, Moved, approval
<1>3. CASE Enter(x)
  <2>1. /\ [exec[x] EXCEPT !.pc = "authorizing", !.fresh = FALSE] \in ExecState
        /\ [exec[x] EXCEPT !.pc = "authorizing", !.fresh = FALSE].pc = "authorizing"
    BY <1>x DEF ExecState, Pc
  <2> QED
    BY <1>3, <1>i, <2>1 DEF Enter, MovesTo, Moved, ChangeIncident
<1>4. CASE Authorize(x) \/ ClaimDenied(x) \/ ClaimBlocked(x) \/ StoreThrows(x)
           \/ Crash(x)
  BY <1>4, <1>i, <1>g DEF Authorize, ClaimDenied, ClaimBlocked, StoreThrows, Crash,
     approval
<1>5. CASE CloseIncident(x)
  <2>1. PICK next \in {[exec[x] EXCEPT !.pc = "marking"], Idle} :
          \/ ChangeIncident(x, "closed", next)
          \/ exec' = [exec EXCEPT ![x] = next] /\ incident' = incident
          \/ Abort(x) /\ incident' = incident
    BY <1>5 DEF CloseIncident
  <2>2. next \in ExecState /\ next.pc \in {"marking", "idle"}
    BY <1>x, <2>1, IdleType DEF ExecState, Pc
  <2> QED
    BY <1>i, <2>1, <2>2 DEF MovesTo, Moved, ChangeIncident
<1>6. CASE MarkRun(x)
  BY <1>6, <1>i DEF MarkRun
<1> QED
  BY <1>1, <1>2, <1>3, <1>4, <1>5, <1>6

\* The claim and its outcome.
LEMMA ClaimMoves ==
  ASSUME ContainmentAssumption, ContainmentInv, NEW x \in Executors,
         ClaimReplayed(x) \/ ClaimReconciled(x) \/ ClaimGranted(x)
  PROVE  \E s \in ExecState : MovesTo(x, s) /\ Moved(exec[x], s)
<1>x. exec[x] \in ExecState /\ exec[x].at \in Actions
  BY DEF ContainmentInv, TypeOK, ExecState
<1>r. tries \in [Actions -> 0..MaxAttempts] /\ action \in [Actions -> ActionStatus]
  BY DEF ContainmentInv, TypeOK
<1> DEFINE a == exec[x].at
<1>1. CASE ClaimReplayed(x) \/ ClaimReconciled(x)
  <2> DEFINE s == AfterOutcome(exec[x], "completed")
  <2>1. /\ s \in ExecState
        /\ s.pc \in {"authorizing", "reading"}
        /\ s.pc = "reading" /\ s.verdict = "completed" => a = NumActions
    BY <1>x, AfterOutcomeType DEF Outcomes
  <2>2. exec' = [exec EXCEPT ![x] = s] /\ incident' = incident
    BY <1>1 DEF ClaimReplayed, ClaimReconciled, approval
  <2>3. /\ tries[a] > 0 /\ action'[a] = "completed"
        /\ \A b \in Actions : b # a => action'[b] = action[b]
    <3>1. CASE ClaimReplayed(x)
      <4>1. PICK n \in Attempts : attempt[a][n] = "completed"
        BY <3>1 DEF ClaimReplayed
      <4>2. n = tries[a] /\ n > 0
        BY <1>x, <4>1 DEF ContainmentInv, AttemptsInSequence, Attempts
      <4>3. action[a] = "completed"
        BY <1>x, <4>1, <4>2 DEF ContainmentInv, ActionMirrorsAttempt
      <4> QED
        BY <3>1, <4>2, <4>3 DEF ClaimReplayed, claims
    <3>2. CASE ClaimReconciled(x)
      BY <1>x, <1>r, <3>2 DEF ClaimReconciled, CloseAttempt, EffectOfInterrupted, Open
    <3> QED
      BY <1>1, <3>1, <3>2
  <2>4. s.pc = "reading" /\ s.verdict = "completed" =>
          \A b \in Actions : action'[b] = "completed"
    BY <2>1, <2>3, LastCompletesAll
  <2> HIDE DEF s
  <2> QED
    BY <2>1, <2>2, <2>4 DEF MovesTo, Moved
<1>2. CASE ClaimGranted(x)
  <2> DEFINE s == [exec[x] EXCEPT !.pc = "applying", !.n = tries[a] + 1]
  <2>1. tries[a] + 1 \in 0..MaxAttempts /\ tries[a] + 1 > 0
    BY <1>x, <1>r, <1>2 DEF ClaimGranted, Reclaimable, ContainmentAssumption
  <2>2. s \in ExecState /\ s.pc = "applying" /\ s.at = a /\ s.n = tries[a] + 1
    <3> DEFINE n == tries[a] + 1
    <3>1. n \in 0..MaxAttempts
      BY <2>1
    <3> HIDE DEF n
    <3>2. /\ [exec[x] EXCEPT !.pc = "applying", !.n = n] \in ExecState
          /\ [exec[x] EXCEPT !.pc = "applying", !.n = n].pc = "applying"
          /\ [exec[x] EXCEPT !.pc = "applying", !.n = n].at = a
          /\ [exec[x] EXCEPT !.pc = "applying", !.n = n].n = n
      BY <1>x, <3>1 DEF ExecState, Pc
    <3> QED
      BY <3>2 DEF n
  <2>3. tries'[a] = tries[a] + 1
    BY <1>x, <1>r, <1>2 DEF ClaimGranted
  <2>4. exec' = [exec EXCEPT ![x] = s] /\ incident' = incident
    BY <1>2 DEF ClaimGranted, approval
  <2>5. s.n > 0
    BY <2>1, <2>2
  <2> HIDE DEF s
  <2> QED
    BY <2>2, <2>3, <2>4, <2>5 DEF MovesTo, Moved
<1> QED
  BY <1>1, <1>2

\* The gateway call: what it holds it keeps, and it claims success only over an
\* effect.
LEMMA GatewayMoves ==
  ASSUME ContainmentAssumption, ContainmentInv, NEW x \in Executors,
         \/ ApplyEffect(x) \/ ApplyThrows(x) \/ PreconditionFails(x) \/ TimesOut(x)
         \/ VerifyEffect(x) \/ VerificationFails(x) \/ FinishThrows(x)
  PROVE  \E s \in ExecState : MovesTo(x, s) /\ Moved(exec[x], s)
<1>x. exec[x] \in ExecState /\ exec[x].at \in Actions
  BY DEF ContainmentInv, TypeOK, ExecState
<1>e. effect \in [Actions -> 0..MaxAttempts]
  BY DEF ContainmentInv, TypeOK
<1>i. incident' = incident
  BY DEF ApplyEffect, ApplyThrows, PreconditionFails, TimesOut, VerifyEffect,
     VerificationFails, FinishThrows, approval
<1>p. exec[x].pc \in {"applying", "verifying", "finishing"}
  BY DEF ApplyEffect, ApplyThrows, PreconditionFails, TimesOut, VerifyEffect,
     VerificationFails, FinishThrows
<1>f. ASSUME NEW v \in {"failed", "blocked", "timed_out"}, NEW b \in BOOLEAN,
             exec' = [exec EXCEPT ![x] = [exec[x] EXCEPT !.pc = "finishing",
                                            !.verdict = v, !.caught = b]]
      PROVE  \E s \in ExecState : MovesTo(x, s) /\ Moved(exec[x], s)
  <2> DEFINE s == [exec[x] EXCEPT !.pc = "finishing", !.verdict = v, !.caught = b]
  <2>1. /\ s \in ExecState /\ s.pc = "finishing" /\ s.verdict = v
        /\ s.at = exec[x].at /\ s.n = exec[x].n
    BY <1>x DEF ExecState, Pc, Outcomes
  <2> HIDE DEF s
  <2>2. exec' = [exec EXCEPT ![x] = s]
    BY <1>f DEF s
  <2> QED
    BY <1>i, <1>p, <2>1, <2>2 DEF MovesTo, Moved
<1>c. ASSUME effect[exec[x].at] # 0, effect' = effect,
             exec' = [exec EXCEPT ![x] = [exec[x] EXCEPT !.pc = "finishing",
                                            !.verdict = "completed"]]
      PROVE  \E s \in ExecState : MovesTo(x, s) /\ Moved(exec[x], s)
  <2> DEFINE s == [exec[x] EXCEPT !.pc = "finishing", !.verdict = "completed"]
  <2>1. /\ s \in ExecState /\ s.pc = "finishing" /\ s.verdict = "completed"
        /\ s.at = exec[x].at /\ s.n = exec[x].n
    BY <1>x DEF ExecState, Pc, Outcomes
  <2> HIDE DEF s
  <2>2. exec' = [exec EXCEPT ![x] = s]
    BY <1>c DEF s
  <2> QED
    BY <1>i, <1>p, <1>c, <2>1, <2>2 DEF MovesTo, Moved
<1>v. ASSUME NEW b \in BOOLEAN,
             exec' = [exec EXCEPT ![x] = [exec[x] EXCEPT !.pc = "verifying", !.caught = b]]
      PROVE  \E s \in ExecState : MovesTo(x, s) /\ Moved(exec[x], s)
  <2> DEFINE s == [exec[x] EXCEPT !.pc = "verifying", !.caught = b]
  <2>1. /\ s \in ExecState /\ s.pc = "verifying"
        /\ s.at = exec[x].at /\ s.n = exec[x].n
    BY <1>x DEF ExecState, Pc
  <2> HIDE DEF s
  <2>2. exec' = [exec EXCEPT ![x] = s]
    BY <1>v DEF s
  <2> QED
    BY <1>i, <1>p, <2>1, <2>2 DEF MovesTo, Moved
<1>t. ASSUME NEW v \in {"failed", "blocked", "timed_out"}, Caught(x, v)
      PROVE  \E s \in ExecState : MovesTo(x, s) /\ Moved(exec[x], s)
  <2>1. exec' = [exec EXCEPT ![x] = [exec[x] EXCEPT !.pc = "finishing",
                                            !.verdict = v, !.caught = TRUE]]
    BY <1>t DEF Caught
  <2> QED
    BY <1>f, <2>1
<1>b. exec[x].caught \in BOOLEAN /\ exec[x] = [exec[x] EXCEPT !.caught = exec[x].caught]
  BY <1>x DEF ExecState
<1>1. CASE ApplyEffect(x)
  <2>1. CASE Goto(x, "verifying")
    <3>1. exec' = [exec EXCEPT ![x] = [exec[x] EXCEPT !.pc = "verifying",
                                          !.caught = exec[x].caught]]
      BY <1>x, <2>1 DEF Goto, ExecState
    <3> QED
      BY <1>b, <1>v, <3>1
  <2>2. CASE Caught(x, "failed")
    BY <1>t, <2>2
  <2> QED
    BY <1>1, <2>1, <2>2 DEF ApplyEffect
<1>2. CASE ApplyThrows(x)
  <2>1. exec' = [exec EXCEPT ![x] = [exec[x] EXCEPT !.pc = "verifying", !.caught = TRUE]]
    BY <1>2 DEF ApplyThrows
  <2> QED
    BY <1>v, <2>1
<1>3. CASE PreconditionFails(x) \/ TimesOut(x)
  BY <1>3, <1>t DEF PreconditionFails, TimesOut
<1>4. CASE VerifyEffect(x)
  <2>1. CASE ActiveFence(exec[x].at, exec[x].n) /\ effect[exec[x].at] # 0
    <3>1. /\ effect' = effect
          /\ exec' = [exec EXCEPT ![x] = [exec[x] EXCEPT !.pc = "finishing",
                                             !.verdict = "completed"]]
      BY <1>4, <2>1 DEF VerifyEffect
    <3> QED
      BY <1>c, <2>1, <3>1
  <2>2. CASE ~(ActiveFence(exec[x].at, exec[x].n) /\ effect[exec[x].at] # 0)
    BY <1>4, <1>t, <2>2 DEF VerifyEffect
  <2> QED
    BY <2>1, <2>2
<1>5. CASE VerificationFails(x)
  <2>1. CASE exec' = [exec EXCEPT ![x].pc = "finishing", ![x].verdict = "failed"]
    <3>1. exec' = [exec EXCEPT ![x] = [exec[x] EXCEPT !.pc = "finishing",
                                 !.verdict = "failed", !.caught = exec[x].caught]]
      BY <1>x, <2>1 DEF ExecState
    <3> QED
      BY <1>b, <1>f, <3>1
  <2>2. CASE exec' = [exec EXCEPT ![x].caught = TRUE]
    <3>1. exec[x].pc = "verifying"
      BY <1>5 DEF VerificationFails
    <3>2. exec' = [exec EXCEPT ![x] = [exec[x] EXCEPT !.pc = "verifying", !.caught = TRUE]]
      BY <1>x, <2>2, <3>1 DEF ExecState
    <3> QED
      BY <1>v, <3>2
  <2> QED
    BY <1>5, <2>1, <2>2 DEF VerificationFails
<1>6. CASE FinishThrows(x)
  <2>1. CASE exec' = [exec EXCEPT ![x].pc = "verifying", ![x].caught = TRUE]
    <3>1. exec' = [exec EXCEPT ![x] = [exec[x] EXCEPT !.pc = "verifying", !.caught = TRUE]]
      BY <2>1
    <3> QED
      BY <1>v, <3>1
  <2>2. CASE exec' = [exec EXCEPT ![x].verdict = "failed"]
    <3>1. exec[x].pc = "finishing"
      BY <1>6 DEF FinishThrows
    <3>2. exec' = [exec EXCEPT ![x] = [exec[x] EXCEPT !.pc = "finishing",
                                 !.verdict = "failed", !.caught = exec[x].caught]]
      BY <1>x, <2>2, <3>1 DEF ExecState
    <3> QED
      BY <1>b, <1>f, <3>2
  <2>3. CASE Abort(x)
    BY <1>i, <2>3, IdleType DEF Abort, MovesTo, Moved
  <2> QED
    BY <1>6, <2>1, <2>2, <2>3 DEF FinishThrows
<1> QED
  BY <1>1, <1>2, <1>3, <1>4, <1>5, <1>6

\* The attempt in hand is the latest one while it is open.
LEMMA OpenIsLatest ==
  ASSUME ContainmentAssumption, ContainmentInv, NEW x \in Executors,
         exec[x].pc \in {"applying", "verifying", "finishing"},
         attempt[exec[x].at][exec[x].n] = "executing"
  PROVE  exec[x].n = tries[exec[x].at] /\ Open(exec[x].at, exec[x].n)
<1>1. exec[x].at \in Actions /\ tries[exec[x].at] \in 0..MaxAttempts
  BY DEF ContainmentInv, TypeOK, ExecState
<1>2. exec[x].n \in 1..tries[exec[x].at]
  BY DEF ContainmentInv, ExecutorInHand
<1>3. exec[x].n \in Attempts
  BY <1>1, <1>2 DEF Attempts, ContainmentAssumption
<1>4. ~(exec[x].n < tries[exec[x].at])
  BY <1>1, <1>3 DEF ContainmentInv, ActionMirrorsAttempt
<1> QED
  BY <1>1, <1>2, <1>4 DEF Open

\* The verdict is stored, or the fence was lost.
LEMMA FinishMoves ==
  ASSUME ContainmentAssumption, ContainmentInv, NEW x \in Executors, Finish(x)
  PROVE  \E s \in ExecState : MovesTo(x, s) /\ Moved(exec[x], s)
<1>x. exec[x] \in ExecState /\ exec[x].at \in Actions
  BY DEF ContainmentInv, TypeOK, ExecState
<1>r. tries \in [Actions -> 0..MaxAttempts] /\ action \in [Actions -> ActionStatus]
  BY DEF ContainmentInv, TypeOK
<1>i. incident' = incident
  BY DEF Finish, approval
<1> DEFINE a == exec[x].at
           n == exec[x].n
           v == exec[x].verdict
           s == AfterOutcome(exec[x], v)
<1>1. CASE attempt[a][n] = "executing" /\ action[a] = "executing"
  <2>1. v \in Outcomes
    BY <1>x DEF Finish, ContainmentInv, ExecutorInHand, ExecState
  <2>2. /\ s \in ExecState
        /\ s.pc \in {"authorizing", "reading"}
        /\ s.pc = "reading" /\ s.verdict = "completed" =>
             v = "completed" /\ a = NumActions
    BY <1>x, <2>1, AfterOutcomeType
  <2>3. exec' = [exec EXCEPT ![x] = s]
    BY <1>1 DEF Finish
  <2>4. /\ tries[a] > 0 /\ action'[a] = v
        /\ \A b \in Actions : b # a => action'[b] = action[b]
    <3>1. Open(a, n)
      BY <1>1, OpenIsLatest DEF Finish
    <3>2. action' = [action EXCEPT ![a] = v]
      BY <1>1 DEF Finish, CloseAttempt
    <3> QED
      BY <1>x, <1>r, <3>1, <3>2 DEF Open
  <2>5. s.pc = "reading" /\ s.verdict = "completed" =>
          \A b \in Actions : action'[b] = "completed"
    BY <2>2, <2>4, LastCompletesAll
  <2> HIDE DEF s
  <2> QED
    BY <1>i, <2>2, <2>3, <2>5 DEF MovesTo, Moved
<1>2. CASE ~(attempt[a][n] = "executing" /\ action[a] = "executing")
  <2>1. Abort(x)
    BY <1>2 DEF Finish
  <2> QED
    BY <1>i, <2>1, IdleType DEF Abort, MovesTo, Moved
<1> QED
  BY <1>1, <1>2

\* The outcome of the plan is read and recorded.
LEMMA RecordMoves ==
  ASSUME ContainmentAssumption, ContainmentInv, NEW x \in Executors,
         ReadIncident(x) \/ RecordOutcome(x)
  PROVE  \E s \in ExecState : MovesTo(x, s) /\ Moved(exec[x], s)
<1>x. exec[x] \in ExecState
  BY DEF ContainmentInv, TypeOK
<1>1. CASE ReadIncident(x)
  <2> DEFINE s == [exec[x] EXCEPT !.pc = "recording", !.fresh = TRUE]
  <2>1. s \in ExecState /\ s.pc = "recording" /\ s.verdict = exec[x].verdict
    BY <1>x DEF ExecState, Pc
  <2>2. exec' = [exec EXCEPT ![x] = s] /\ incident' = incident /\ exec[x].pc = "reading"
    BY <1>1 DEF ReadIncident, approval
  <2> HIDE DEF s
  <2> QED
    BY <2>1, <2>2 DEF MovesTo, Moved
<1>2. CASE RecordOutcome(x)
  <2> DEFINE s == AfterRecord(exec[x], Target(x))
  <2>1. s \in ExecState /\ s.pc \in {"closing", "idle"}
    BY <1>x, AfterRecordType
  <2>2. \/ exec' = [exec EXCEPT ![x] = s] /\ incident' = incident
        \/ ChangeIncident(x, Target(x), s)
        \/ Abort(x) /\ incident' = incident
    BY <1>2 DEF RecordOutcome
  <2> HIDE DEF s
  <2> QED
    BY <2>1, <2>2, IdleType DEF Abort, MovesTo, Moved, ChangeIncident
<1> QED
  BY <1>1, <1>2

\* Every step leaves the executors alone or moves one of them soundly.
LEMMA ExecMoves ==
  ASSUME ContainmentAssumption, ContainmentInv, Next
  PROVE  \/ exec' = exec /\ incident' = incident
         \/ \E x \in Executors, s \in ExecState : MovesTo(x, s) /\ Moved(exec[x], s)
<1>1. ASSUME NEW x \in Executors, Step(x) \/ Select(x) \/ ClaimBlocked(x) \/ Failure(x)
      PROVE  \E s \in ExecState : MovesTo(x, s) /\ Moved(exec[x], s)
  BY <1>1, PlainMoves, ClaimMoves, GatewayMoves, FinishMoves, RecordMoves
  DEF Step, Failure
<1>2. \/ exec' = exec /\ incident' = incident
      \/ \E x \in Executors : Step(x) \/ Select(x) \/ ClaimBlocked(x) \/ Failure(x)
  BY DEF Next, ApprovalExpires, LeaseElapses, LateApply, approval
<1> QED
  BY <1>1, <1>2

\* The rows of an action: left alone, its open attempt closed, or a new attempt.
Kept(a) ==
  tries'[a] = tries[a] /\ attempt'[a] = attempt[a] /\ action'[a] = action[a]

Closed(a) ==
  /\ tries'[a] = tries[a]
  /\ Open(a, tries[a])
  /\ \E s \in Outcomes :
       /\ attempt'[a] = [attempt[a] EXCEPT ![tries[a]] = s]
       /\ action'[a] = s
       /\ s = "completed" => effect[a] # 0

Granted(a) ==
  /\ tries[a] < MaxAttempts
  /\ tries'[a] = tries[a] + 1
  /\ PredecessorsCompleted(a)
  /\ \A n \in Attempts : attempt[a][n] # "completed"
  /\ attempt'[a] = [Fenced(a) EXCEPT ![tries[a] + 1] = "executing"]
  /\ action'[a] = "executing"

\* The typed rows.
LEMMA RowTypes ==
  ASSUME ContainmentInv
  PROVE  /\ tries \in [Actions -> 0..MaxAttempts]
         /\ action \in [Actions -> ActionStatus]
         /\ attempt \in [Actions -> [Attempts -> AttemptStatus]]
         /\ effect \in [Actions -> 0..MaxAttempts]
         /\ leased \in [Actions -> BOOLEAN]
  BY DEF ContainmentInv, TypeOK

\* Closing an attempt touches the rows of its action only.
LEMMA CloseRows ==
  ASSUME ContainmentAssumption, ContainmentInv, NEW b \in Actions,
         NEW s \in Outcomes, Open(b, tries[b]), CloseAttempt(b, tries[b], s),
         tries' = tries, s = "completed" => effect[b] # 0
  PROVE  \A a \in Actions : Kept(a) \/ Closed(a)
<1>1. /\ attempt' = [attempt EXCEPT ![b] = [attempt[b] EXCEPT ![tries[b]] = s]]
      /\ action' = [action EXCEPT ![b] = s]
  BY DEF CloseAttempt
<1>2. Closed(b)
  BY <1>1, RowTypes DEF Closed
<1>3. \A a \in Actions : a # b => Kept(a)
  BY <1>1, RowTypes DEF Kept
<1> QED
  BY <1>2, <1>3

\* Every step treats the rows of each action in one of the three ways.
LEMMA RowMoves ==
  ASSUME ContainmentAssumption, ContainmentInv, Next
  PROVE  \A a \in Actions : Kept(a) \/ Closed(a) \/ Granted(a)
<1>1. ASSUME NEW x \in Executors, ClaimReconciled(x)
      PROVE  \A a \in Actions : Kept(a) \/ Closed(a)
  <2>1. exec[x].at \in Actions
    BY DEF ContainmentInv, TypeOK, ExecState
  <2>2. /\ Open(exec[x].at, tries[exec[x].at])
        /\ effect[exec[x].at] # 0
    BY <1>1 DEF ClaimReconciled, EffectOfInterrupted, Open
  <2> QED
    BY <1>1, <2>1, <2>2, CloseRows DEF ClaimReconciled, Outcomes
<1>2. ASSUME NEW x \in Executors, ClaimBlocked(x)
      PROVE  \A a \in Actions : Kept(a) \/ Closed(a)
  <2> DEFINE b == exec[x].at
  <2>1. b \in Actions
    BY DEF ContainmentInv, TypeOK, ExecState
  <2>2. /\ attempt' = [attempt EXCEPT ![b] = Fenced(b)]
        /\ action' = [action EXCEPT ![b] = IF Open(b, tries[b]) THEN "failed" ELSE action[b]]
        /\ leased' = [leased EXCEPT ![b] = FALSE]
        /\ tries' = tries
    BY <1>2 DEF ClaimBlocked
  <2>3. CASE Open(b, tries[b])
    <3>1. CloseAttempt(b, tries[b], "failed")
      BY <2>2, <2>3 DEF CloseAttempt, Fenced
    <3> QED
      BY <2>1, <2>2, <2>3, <3>1, CloseRows DEF Outcomes
  <2>4. CASE ~Open(b, tries[b])
    BY <2>1, <2>2, <2>4, RowTypes DEF Kept, Fenced
  <2> QED
    BY <2>3, <2>4
<1>3. ASSUME NEW x \in Executors, ClaimGranted(x)
      PROVE  \A a \in Actions : Kept(a) \/ Granted(a)
  <2> DEFINE b == exec[x].at
  <2>1. b \in Actions
    BY DEF ContainmentInv, TypeOK, ExecState
  <2>2. /\ attempt' = [attempt EXCEPT ![b] = [Fenced(b) EXCEPT ![tries[b] + 1] = "executing"]]
        /\ action' = [action EXCEPT ![b] = "executing"]
        /\ tries' = [tries EXCEPT ![b] = tries[b] + 1]
    BY <1>3 DEF ClaimGranted
  <2>3. /\ tries[b] < MaxAttempts /\ PredecessorsCompleted(b)
        /\ \A n \in Attempts : attempt[b][n] # "completed"
    BY <1>3 DEF ClaimGranted, Reclaimable, Unverified
  <2>4. Granted(b)
    BY <2>1, <2>2, <2>3, RowTypes DEF Granted
  <2>5. \A a \in Actions : a # b => Kept(a)
    BY <2>1, <2>2, RowTypes DEF Kept
  <2> QED
    BY <2>4, <2>5
<1>4. ASSUME NEW x \in Executors, Finish(x)
      PROVE  \A a \in Actions : Kept(a) \/ Closed(a)
  <2> DEFINE b == exec[x].at
  <2>1. b \in Actions /\ exec[x] \in ExecState
    BY DEF ContainmentInv, TypeOK, ExecState
  <2>2. CASE attempt[b][exec[x].n] = "executing" /\ action[b] = "executing"
    <3>1. exec[x].n = tries[b] /\ Open(b, tries[b])
      BY <1>4, <2>2, OpenIsLatest DEF Finish
    <3>2. /\ exec[x].verdict \in Outcomes
          /\ exec[x].verdict = "completed" => effect[b] # 0
      BY <1>4, <2>1 DEF Finish, ContainmentInv, ExecutorInHand, ExecState
    <3>3. CloseAttempt(b, tries[b], exec[x].verdict) /\ tries' = tries
      BY <1>4, <2>2, <3>1 DEF Finish
    <3> QED
      BY <2>1, <3>1, <3>2, <3>3, CloseRows
  <2>3. CASE ~(attempt[b][exec[x].n] = "executing" /\ action[b] = "executing")
    BY <1>4, <2>3 DEF Finish, Kept
  <2> QED
    BY <2>2, <2>3
<1>5. \/ attempt' = attempt /\ action' = action /\ tries' = tries
      \/ \E x \in Executors : ClaimReconciled(x) \/ ClaimBlocked(x) \/
           ClaimGranted(x) \/ Finish(x)
  BY Writers
<1> QED
  BY <1>1, <1>2, <1>3, <1>4, <1>5 DEF Kept

\* A completed action stays completed.
LEMMA CompletedStays ==
  ASSUME ContainmentAssumption, ContainmentInv, Next, NEW a \in Actions,
         action[a] = "completed"
  PROVE  Kept(a)
<1>1. /\ tries[a] \in 0..MaxAttempts
      /\ action[a] = IF tries[a] = 0 THEN "pending" ELSE attempt[a][tries[a]]
  BY RowTypes DEF ContainmentInv, ActionMirrorsAttempt
<1>2. tries[a] \in Attempts /\ attempt[a][tries[a]] = "completed"
  BY <1>1 DEF Attempts, ContainmentAssumption
<1> QED
  BY <1>2, RowMoves DEF Closed, Granted, Open

\* The predecessors of an action stay completed.
LEMMA PredecessorsStay ==
  ASSUME ContainmentAssumption, ContainmentInv, Next, NEW a \in Actions,
         PredecessorsCompleted(a)
  PROVE  PredecessorsCompleted(a)'
<1>1. \A b \in 1..(a - 1) : b \in Actions
  BY DEF Actions, ContainmentAssumption
<1> QED
  BY <1>1, CompletedStays DEF PredecessorsCompleted, Kept

\* What the provider stores is the first effect of its action, under the fence.
LEMMA ProviderStores ==
  ASSUME ContainmentAssumption, ContainmentInv, NEW x \in Executors,
         ApplyEffect(x) \/ ApplyThrows(x)
  PROVE  \/ effect' = effect
         \/ /\ ActiveFence(exec[x].at, exec[x].n) /\ effect[exec[x].at] = 0
            /\ effect' = [effect EXCEPT ![exec[x].at] = exec[x].n]
<1>1. exec[x].at \in Actions
  BY DEF ContainmentInv, TypeOK, ExecState
<1>2. CASE ApplyThrows(x)
  BY <1>2 DEF ApplyThrows
<1>3. CASE ApplyEffect(x)
  <2>1. CASE effect[exec[x].at] = 0
    BY <1>3, <2>1 DEF ApplyEffect
  <2>2. CASE effect[exec[x].at] # 0
    BY <1>1, <1>3, <2>2, RowTypes DEF ApplyEffect
  <2> QED
    BY <2>1, <2>2
<1> QED
  BY <1>2, <1>3

\* An effect is stored once, in the name of the open attempt.
LEMMA EffectMoves ==
  ASSUME ContainmentAssumption, ContainmentInv, Next, NEW a \in Actions
  PROVE  \/ effect'[a] = effect[a]
         \/ effect[a] = 0 /\ effect'[a] = tries[a] /\ Open(a, tries[a])
<1>1. ASSUME NEW b \in Actions, NEW n, ActiveFence(b, n), effect[b] = 0,
             effect' = [effect EXCEPT ![b] = n]
      PROVE  \/ effect'[a] = effect[a]
             \/ effect[a] = 0 /\ effect'[a] = tries[a] /\ Open(a, tries[a])
  BY <1>1, RowTypes DEF ActiveFence, Open
<1>2. ASSUME NEW x \in Executors, ApplyEffect(x) \/ ApplyThrows(x)
      PROVE  \/ effect'[a] = effect[a]
             \/ effect[a] = 0 /\ effect'[a] = tries[a] /\ Open(a, tries[a])
  <2>1. exec[x].at \in Actions
    BY DEF ContainmentInv, TypeOK, ExecState
  <2> QED
    BY <1>1, <1>2, <2>1, ProviderStores
<1>3. ASSUME NEW x \in Executors, NEW b \in Actions, NEW n \in Attempts,
             LateApply(x, b, n)
      PROVE  \/ effect'[a] = effect[a]
             \/ effect[a] = 0 /\ effect'[a] = tries[a] /\ Open(a, tries[a])
  <2>1. CASE ActiveFence(b, n) /\ effect[b] = 0
    BY <1>1, <1>3, <2>1 DEF LateApply
  <2>2. CASE ~(ActiveFence(b, n) /\ effect[b] = 0)
    BY <1>3, <2>2, RowTypes DEF LateApply
  <2> QED
    BY <2>1, <2>2
<1> QED
  BY <1>2, <1>3, Writers

\* An effect that exists is not changed.
LEMMA EffectStays ==
  ASSUME ContainmentAssumption, ContainmentInv, Next, NEW a \in Actions,
         effect[a] # 0
  PROVE  effect'[a] = effect[a]
  BY EffectMoves

-----------------------------------------------------------------------------
(* The initial state *)

LEMMA InitInv ==
  ASSUME ContainmentAssumption, Init
  PROVE  ContainmentInv
<1>1. TypeOK
  <2>1. /\ Idle \in ExecState
        /\ [Idle EXCEPT !.pc = "ready", !.corr = "step"] \in ExecState
    BY IdleType DEF ExecState, Pc, Correlations
  <2>2. exec \in [Executors -> ExecState]
    BY <2>1 DEF Init
  <2>3. /\ action \in [Actions -> ActionStatus]
        /\ attempt \in [Actions -> [Attempts -> AttemptStatus]]
        /\ tries \in [Actions -> 0..MaxAttempts]
        /\ leased \in [Actions -> BOOLEAN]
        /\ effect \in [Actions -> 0..MaxAttempts]
        /\ late \in [Executors -> SUBSET (Actions \X Attempts)]
    BY Numbers DEF Init, ActionStatus, AttemptStatus
  <2>4. /\ incident \in IncidentStatus /\ containedBy \in Correlations
        /\ expired \in BOOLEAN /\ marked \in BOOLEAN
    BY DEF Init, IncidentStatus, Correlations
  <2>5. faults \in 0..MaxFaults
    BY DEF Init, ContainmentAssumption
  <2> QED
    BY <2>2, <2>3, <2>4, <2>5 DEF TypeOK
<1>2. \A x \in Executors : exec[x].pc \in {"ready", "idle"}
  BY DEF Init, Idle
<1>3. \A a \in Actions : action[a] = "pending" /\ tries[a] = 0 /\ effect[a] = 0
                         /\ \A n \in Attempts : attempt[a][n] = "none"
  BY DEF Init
<1>4. \A n \in Attempts : n > 0 /\ ~(n < 0)
  BY DEF Attempts
<1>5. AttemptsInSequence /\ ActionMirrorsAttempt
  BY <1>3, <1>4 DEF AttemptsInSequence, ActionMirrorsAttempt
<1>6. StartedInOrder /\ EffectHasAttempt /\ CompletedMeansApplied
  BY <1>3 DEF StartedInOrder, EffectHasAttempt, CompletedMeansApplied
<1>7. ExecutorInHand /\ EntryIsCurrent
  BY <1>2 DEF ExecutorInHand, EntryIsCurrent
<1>8. ContainedMeansVerified
  BY DEF Init, ContainedMeansVerified
<1> QED
  BY <1>1, <1>5, <1>6, <1>7, <1>8 DEF ContainmentInv

-----------------------------------------------------------------------------
(* Types *)

LEMMA ExecType ==
  ASSUME ContainmentAssumption, ContainmentInv, Next
  PROVE  exec' \in [Executors -> ExecState]
<1>1. exec \in [Executors -> ExecState]
  BY DEF ContainmentInv, TypeOK
<1>2. ASSUME NEW x \in Executors, NEW s \in ExecState, MovesTo(x, s)
      PROVE  exec' \in [Executors -> ExecState]
  BY <1>1, <1>2, ChangeType DEF MovesTo
<1> QED
  BY <1>1, <1>2, ExecMoves

LEMMA RowsType ==
  ASSUME ContainmentAssumption, ContainmentInv, Next
  PROVE  /\ tries' \in [Actions -> 0..MaxAttempts]
         /\ action' \in [Actions -> ActionStatus]
         /\ attempt' \in [Actions -> [Attempts -> AttemptStatus]]
<1>1. ASSUME NEW x \in Executors
      PROVE  exec[x].at \in Actions /\ exec[x] \in ExecState
  BY DEF ContainmentInv, TypeOK, ExecState
<1>2. tries' \in [Actions -> 0..MaxAttempts]
  <2>1. ASSUME NEW x \in Executors, ClaimGranted(x)
        PROVE  tries' \in [Actions -> 0..MaxAttempts]
    <3>1. tries[exec[x].at] + 1 \in 0..MaxAttempts
      BY <1>1, <2>1, RowTypes DEF ClaimGranted, Reclaimable, ContainmentAssumption
    <3> QED
      BY <2>1, <3>1, RowTypes DEF ClaimGranted
  <2> QED
    BY <2>1, Writers, RowTypes
<1>3. action' \in [Actions -> ActionStatus]
  <2>1. ASSUME NEW x \in Executors,
               ClaimReconciled(x) \/ ClaimBlocked(x) \/ ClaimGranted(x) \/ Finish(x)
        PROVE  \E s \in ActionStatus : action' = [action EXCEPT ![exec[x].at] = s]
    <3>1. CASE ClaimReconciled(x)
      BY <3>1 DEF ClaimReconciled, CloseAttempt, ActionStatus, Outcomes
    <3>2. CASE ClaimBlocked(x)
      BY <1>1, <3>2, RowTypes DEF ClaimBlocked, ActionStatus, Outcomes
    <3>3. CASE ClaimGranted(x)
      BY <3>3 DEF ClaimGranted, ActionStatus
    <3>4. CASE Finish(x)
      <4>1. CASE action' = action
        BY <1>1, <4>1, RowTypes
      <4>2. CASE action' = [action EXCEPT ![exec[x].at] = exec[x].verdict]
        <5>1. exec[x].verdict \in Outcomes
          BY <1>1, <3>4 DEF Finish, ContainmentInv, ExecutorInHand, ExecState
        <5> QED
          BY <4>2, <5>1 DEF ActionStatus
      <4> QED
        BY <3>4, <4>1, <4>2 DEF Finish, CloseAttempt
    <3> QED
      BY <2>1, <3>1, <3>2, <3>3, <3>4
  <2> QED
    BY <2>1, Writers, RowTypes
<1>4. attempt' \in [Actions -> [Attempts -> AttemptStatus]]
  <2> DEFINE Row == [Attempts -> AttemptStatus]
  <2>1. ASSUME NEW x \in Executors,
               ClaimReconciled(x) \/ ClaimBlocked(x) \/ ClaimGranted(x) \/ Finish(x)
        PROVE  \E r \in Row : attempt' = [attempt EXCEPT ![exec[x].at] = r]
    <3> DEFINE a == exec[x].at
    <3>0. attempt[a] \in Row /\ Fenced(a) \in Row
      BY <1>1, FencedType, RowTypes
    <3>s. ASSUME NEW n, NEW s \in AttemptStatus, CloseAttempt(a, n, s)
          PROVE  \E r \in Row : attempt' = [attempt EXCEPT ![exec[x].at] = r]
      <4>1. [attempt[a] EXCEPT ![n] = s] \in Row
        BY <3>0
      <4>2. attempt' = [attempt EXCEPT ![a] = [attempt[a] EXCEPT ![n] = s]]
        BY <3>s DEF CloseAttempt
      <4> QED
        BY <4>1, <4>2
    <3>1. CASE ClaimReconciled(x)
      BY <3>1, <3>s DEF ClaimReconciled, AttemptStatus, Outcomes
    <3>2. CASE ClaimBlocked(x)
      BY <3>0, <3>2 DEF ClaimBlocked
    <3>3. CASE ClaimGranted(x)
      <4>1. [Fenced(a) EXCEPT ![tries[a] + 1] = "executing"] \in Row
        BY <3>0 DEF AttemptStatus
      <4> QED
        BY <3>3, <4>1 DEF ClaimGranted
    <3>4. CASE Finish(x)
      <4>1. CASE attempt' = attempt
        BY <1>1, <3>0, <4>1, RowTypes
      <4>2. CASE CloseAttempt(a, exec[x].n, exec[x].verdict)
        <5>1. exec[x].verdict \in Outcomes
          BY <1>1, <3>4 DEF Finish, ContainmentInv, ExecutorInHand, ExecState
        <5> QED
          BY <3>s, <4>2, <5>1 DEF AttemptStatus
      <4> QED
        BY <3>4, <4>1, <4>2 DEF Finish
    <3> QED
      BY <2>1, <3>1, <3>2, <3>3, <3>4
  <2> QED
    BY <2>1, Writers, RowTypes
<1> QED
  BY <1>2, <1>3, <1>4

LEMMA EffectType ==
  ASSUME ContainmentAssumption, ContainmentInv, Next
  PROVE  effect' \in [Actions -> 0..MaxAttempts]
<1>1. ASSUME NEW x \in Executors, ApplyEffect(x) \/ ApplyThrows(x)
      PROVE  effect' \in [Actions -> 0..MaxAttempts]
  <2>1. exec[x].at \in Actions /\ exec[x].n \in 0..MaxAttempts
    BY DEF ContainmentInv, TypeOK, ExecState
  <2> QED
    BY <1>1, <2>1, RowTypes DEF ApplyEffect, ApplyThrows
<1>2. ASSUME NEW x \in Executors, NEW b \in Actions, NEW n \in Attempts,
             LateApply(x, b, n)
      PROVE  effect' \in [Actions -> 0..MaxAttempts]
  BY <1>2, Numbers, RowTypes DEF LateApply
<1> QED
  BY <1>1, <1>2, Writers, RowTypes

LEMMA TypeStep ==
  ASSUME ContainmentAssumption, ContainmentInv, Next
  PROVE  TypeOK'
<1>t. TypeOK
  BY DEF ContainmentInv
<1>1. incident' \in IncidentStatus
  <2>1. ASSUME NEW x \in Executors, Enter(x) \/ RecordOutcome(x) \/ CloseIncident(x)
        PROVE  incident' \in {incident, "containing", "contained", "failed", "closed"}
    BY <2>1 DEF Enter, RecordOutcome, CloseIncident, ChangeIncident, Target
  <2> QED
    BY <1>t, <2>1, Writers DEF TypeOK, IncidentStatus
<1>2. containedBy' \in Correlations
  <2>1. ASSUME NEW x \in Executors, RecordOutcome(x)
        PROVE  containedBy' \in Correlations
    <3>1. exec[x].corr \in Correlations /\ containedBy \in Correlations
      BY <1>t DEF TypeOK, ExecState
    <3> QED
      BY <2>1, <3>1 DEF RecordOutcome
  <2>2. containedBy' = containedBy \/ \E x \in Executors : RecordOutcome(x)
    BY ZenonT(60) DEF Next, Step, Failure, StartStep, Bind, Enter, Authorize, ClaimReplayed,
       ClaimDenied, ClaimReconciled, ClaimGranted, ApplyEffect, VerifyEffect,
       Finish, ReadIncident, CloseIncident, MarkRun, Select, ClaimBlocked,
       ApplyThrows, PreconditionFails, TimesOut, VerificationFails, FinishThrows,
       StoreThrows, Crash, ApprovalExpires, LeaseElapses, LateApply, approval
  <2> QED
    BY <1>t, <2>1, <2>2 DEF TypeOK
<1>3. expired' \in BOOLEAN /\ marked' \in BOOLEAN
  <2>1. /\ expired' = expired \/ expired' = TRUE
        /\ marked' = marked \/ marked' = TRUE
    BY ZenonT(60) DEF Next, Step, Failure, StartStep, Bind, Enter, Authorize, ClaimReplayed,
       ClaimDenied, ClaimReconciled, ClaimGranted, ApplyEffect, VerifyEffect,
       Finish, ReadIncident, RecordOutcome, CloseIncident, MarkRun, Select,
       ClaimBlocked, ApplyThrows, PreconditionFails, TimesOut, VerificationFails,
       FinishThrows, StoreThrows, Crash, ApprovalExpires, LeaseElapses, LateApply,
       approval
  <2> QED
    BY <1>t, <2>1 DEF TypeOK
<1>4. leased' \in [Actions -> BOOLEAN]
  <2>1. ASSUME NEW b, NEW v \in BOOLEAN, leased' = [leased EXCEPT ![b] = v]
        PROVE  leased' \in [Actions -> BOOLEAN]
    BY <2>1, RowTypes
  <2>2. ASSUME NEW x \in Executors,
               ClaimReconciled(x) \/ ClaimBlocked(x) \/ ClaimGranted(x) \/ Finish(x)
        PROVE  leased' \in [Actions -> BOOLEAN]
    BY <2>1, <2>2, RowTypes DEF ClaimReconciled, ClaimBlocked, ClaimGranted, Finish,
       CloseAttempt
  <2>3. ASSUME NEW a \in Actions, LeaseElapses(a)
        PROVE  leased' \in [Actions -> BOOLEAN]
    BY <2>1, <2>3 DEF LeaseElapses
  <2>4. \/ leased' = leased
        \/ \E x \in Executors : ClaimReconciled(x) \/ ClaimBlocked(x) \/
             ClaimGranted(x) \/ Finish(x)
        \/ \E a \in Actions : LeaseElapses(a)
    BY ZenonT(60) DEF Next, Step, Failure, StartStep, Bind, Enter, Authorize, ClaimReplayed,
       ClaimDenied, ApplyEffect, VerifyEffect, ReadIncident, RecordOutcome,
       CloseIncident, MarkRun, Select, ApplyThrows, PreconditionFails, TimesOut,
       VerificationFails, FinishThrows, StoreThrows, Crash, ApprovalExpires,
       LateApply, claims
  <2> QED
    BY <2>2, <2>3, <2>4, RowTypes
<1>5. late' \in [Executors -> SUBSET (Actions \X Attempts)]
  <2>1. ASSUME NEW x \in Executors, TimesOut(x)
        PROVE  late' \in [Executors -> SUBSET (Actions \X Attempts)]
    <3>1. exec[x].at \in Actions /\ exec[x].n \in 1..tries[exec[x].at]
      BY <2>1 DEF ContainmentInv, TypeOK, ExecState, TimesOut, ExecutorInHand
    <3>2. exec[x].n \in Attempts
      BY <3>1, RowTypes DEF Attempts, ContainmentAssumption
    <3>3. late[x] \cup {<<exec[x].at, exec[x].n>>} \in SUBSET (Actions \X Attempts)
      BY <1>t, <3>1, <3>2 DEF TypeOK
    <3>4. late' = [late EXCEPT ![x] = late[x] \cup {<<exec[x].at, exec[x].n>>}]
      BY <2>1 DEF TimesOut
    <3> QED
      BY <1>t, <3>3, <3>4 DEF TypeOK
  <2>2. ASSUME NEW x \in Executors,
               \/ Crash(x)
               \/ \E a \in Actions, n \in Attempts : LateApply(x, a, n)
        PROVE  late' \in [Executors -> SUBSET (Actions \X Attempts)]
    <3>1. PICK l \in SUBSET (Actions \X Attempts) : late' = [late EXCEPT ![x] = l]
      <4>1. CASE Crash(x)
        BY <4>1 DEF Crash
      <4>2. ASSUME NEW a \in Actions, NEW n \in Attempts, LateApply(x, a, n)
            PROVE  \E l \in SUBSET (Actions \X Attempts) : late' = [late EXCEPT ![x] = l]
        <5>1. late[x] \ {<<a, n>>} \in SUBSET (Actions \X Attempts)
          BY <1>t DEF TypeOK
        <5> QED
          BY <4>2, <5>1 DEF LateApply
      <4> QED
        BY <2>2, <4>1, <4>2
    <3> QED
      BY <1>t, <3>1 DEF TypeOK
  <2>3. \/ late' = late
        \/ \E x \in Executors : TimesOut(x) \/ Crash(x)
        \/ \E x \in Executors, a \in Actions, n \in Attempts : LateApply(x, a, n)
    BY ZenonT(60) DEF Next, Step, Failure, StartStep, Bind, Enter, Authorize, ClaimReplayed,
       ClaimDenied, ClaimReconciled, ClaimGranted, ApplyEffect, VerifyEffect,
       Finish, ReadIncident, RecordOutcome, CloseIncident, MarkRun, Select,
       ClaimBlocked, ApplyThrows, PreconditionFails, VerificationFails,
       FinishThrows, StoreThrows, ApprovalExpires, LeaseElapses
  <2> QED
    BY <1>t, <2>1, <2>2, <2>3 DEF TypeOK
<1>6. faults' \in 0..MaxFaults
  <2>1. faults' = faults \/ Fault
    BY ZenonT(60) DEF Next, Step, Failure, StartStep, Bind, Enter, Authorize, ClaimReplayed,
       ClaimDenied, ClaimReconciled, ClaimGranted, ApplyEffect, VerifyEffect,
       Finish, ReadIncident, RecordOutcome, CloseIncident, MarkRun, Select,
       ClaimBlocked, ApplyThrows, PreconditionFails, TimesOut, VerificationFails,
       FinishThrows, StoreThrows, Crash, ApprovalExpires, LeaseElapses, LateApply
  <2> QED
    BY <1>t, <2>1, FaultType DEF TypeOK
<1> QED
  BY <1>1, <1>2, <1>3, <1>4, <1>5, <1>6, ExecType, RowsType, EffectType DEF TypeOK

-----------------------------------------------------------------------------
(* Each part of the invariant is preserved *)

\* The number of attempts of an action never falls.
LEMMA TriesGrow ==
  ASSUME ContainmentAssumption, ContainmentInv, Next, NEW a \in Actions
  PROVE  tries[a] \in Nat /\ tries'[a] \in Nat /\ tries[a] <= tries'[a]
<1>1. tries[a] \in Nat
  BY RowTypes, Numbers
<1>2. tries'[a] = tries[a] \/ tries'[a] = tries[a] + 1
  BY RowMoves DEF Kept, Closed, Granted
<1> QED
  BY <1>1, <1>2

LEMMA SequenceStep ==
  ASSUME ContainmentAssumption, ContainmentInv, Next
  PROVE  AttemptsInSequence'
<1> SUFFICES ASSUME NEW a \in Actions, NEW n \in Attempts
             PROVE  /\ attempt'[a][n] = "none" <=> n > tries'[a]
                    /\ attempt'[a][n] = "completed" => n = tries'[a]
  BY DEF AttemptsInSequence
<1>1. /\ attempt[a][n] = "none" <=> n > tries[a]
      /\ attempt[a][n] = "completed" => n = tries[a]
  BY DEF ContainmentInv, AttemptsInSequence
<1>2. /\ attempt[a] \in [Attempts -> AttemptStatus]
      /\ tries[a] \in Nat /\ n \in Nat
  BY RowTypes, TriesGrow, Numbers DEF Attempts
<1>3. CASE Kept(a)
  BY <1>1, <1>3 DEF Kept
<1>4. CASE Closed(a)
  BY <1>1, <1>2, <1>4 DEF Closed, Open, Outcomes
<1>5. CASE Granted(a)
  <2>1. /\ Fenced(a) \in [Attempts -> AttemptStatus]
        /\ Fenced(a)[n] = "none" <=> n > tries[a]
        /\ Fenced(a)[n] # "completed"
    BY <1>1, <1>2, <1>5, FencedType, RowTypes DEF Granted, Fenced, Open
  <2> QED
    BY <1>2, <1>5, <2>1 DEF Granted
<1> QED
  BY <1>3, <1>4, <1>5, RowMoves

LEMMA MirrorStep ==
  ASSUME ContainmentAssumption, ContainmentInv, Next
  PROVE  ActionMirrorsAttempt'
<1> SUFFICES ASSUME NEW a \in Actions
             PROVE  /\ action'[a] = IF tries'[a] = 0 THEN "pending"
                                    ELSE attempt'[a][tries'[a]]
                    /\ \A n \in Attempts : n < tries'[a] => attempt'[a][n] # "executing"
  BY DEF ActionMirrorsAttempt
<1>1. /\ action[a] = IF tries[a] = 0 THEN "pending" ELSE attempt[a][tries[a]]
      /\ \A n \in Attempts : n < tries[a] => attempt[a][n] # "executing"
  BY DEF ContainmentInv, ActionMirrorsAttempt
<1>2. /\ attempt[a] \in [Attempts -> AttemptStatus]
      /\ tries[a] \in 0..MaxAttempts /\ tries[a] \in Nat
  BY RowTypes, TriesGrow
<1>3. CASE Kept(a)
  BY <1>1, <1>3 DEF Kept
<1>4. CASE Closed(a)
  <2>1. tries[a] \in Attempts /\ tries[a] # 0
    BY <1>2, <1>4, Numbers DEF Closed, Open, Attempts
  <2> QED
    BY <1>1, <1>2, <1>4, <2>1 DEF Closed, Attempts
<1>5. CASE Granted(a)
  <2>1. tries[a] + 1 \in Attempts /\ tries[a] + 1 # 0
    BY <1>2, <1>5 DEF Granted, Attempts, ContainmentAssumption
  <2>2. Fenced(a) \in [Attempts -> AttemptStatus]
    BY FencedType, RowTypes
  <2>3. ASSUME NEW n \in Attempts, n < tries[a] + 1
        PROVE  Fenced(a)[n] # "executing"
    <3>1. n = tries[a] \/ n < tries[a]
      BY <1>2, <2>3 DEF Attempts
    <3>2. n > 0
      BY DEF Attempts
    <3> QED
      BY <1>1, <1>2, <3>1, <3>2 DEF Fenced, Open
  <2>4. \A n \in Attempts : n < tries[a] + 1 => n # tries[a] + 1
    BY <1>2 DEF Attempts
  <2> QED
    BY <1>5, <2>1, <2>2, <2>3, <2>4 DEF Granted
<1> QED
  BY <1>3, <1>4, <1>5, RowMoves

LEMMA OrderStep ==
  ASSUME ContainmentAssumption, ContainmentInv, Next
  PROVE  StartedInOrder' /\ EffectHasAttempt' /\ CompletedMeansApplied'
<1>1. StartedInOrder'
  <2> SUFFICES ASSUME NEW a \in Actions, tries'[a] > 0
               PROVE  PredecessorsCompleted(a)'
    BY DEF StartedInOrder
  <2>1. PredecessorsCompleted(a)
    BY RowMoves DEF Kept, Closed, Granted, ContainmentInv, StartedInOrder
  <2> QED
    BY <2>1, PredecessorsStay
<1>2. ASSUME NEW a \in Actions
      PROVE  effect'[a] <= tries'[a]
  <2>1. effect[a] \in Nat /\ effect[a] <= tries[a]
    BY RowTypes, Numbers DEF ContainmentInv, EffectHasAttempt
  <2> QED
    BY <2>1, EffectMoves, TriesGrow
<1>3. ASSUME NEW a \in Actions, action'[a] = "completed"
      PROVE  effect'[a] \in 1..tries'[a]
  <2>1. effect[a] # 0
    <3>1. CASE Kept(a)
      BY <1>3, <3>1, TriesGrow DEF Kept, ContainmentInv, CompletedMeansApplied
    <3>2. CASE Closed(a)
      BY <1>3, <3>2 DEF Closed
    <3>3. CASE Granted(a)
      BY <1>3, <3>3 DEF Granted
    <3> QED
      BY <3>1, <3>2, <3>3, RowMoves
  <2>2. effect'[a] = effect[a] /\ effect[a] \in Nat
    BY <2>1, EffectStays, RowTypes, Numbers
  <2> QED
    BY <1>2, <2>1, <2>2, TriesGrow
<1> QED
  BY <1>1, <1>2, <1>3 DEF EffectHasAttempt, CompletedMeansApplied

\* An executor either moves, or keeps everything but a reading that went stale.
Stayed(x) ==
  /\ exec'[x].pc = exec[x].pc /\ exec'[x].at = exec[x].at
  /\ exec'[x].n = exec[x].n /\ exec'[x].verdict = exec[x].verdict
  /\ exec'[x].fresh => exec[x].fresh /\ incident' = incident

LEMMA ExecCases ==
  ASSUME ContainmentAssumption, ContainmentInv, Next, NEW y \in Executors
  PROVE  Stayed(y) \/ Moved(exec[y], exec'[y])
<1>0. exec \in [Executors -> ExecState]
  BY DEF ContainmentInv, TypeOK
<1>1. CASE exec' = exec /\ incident' = incident
  BY <1>1 DEF Stayed
<1>2. ASSUME NEW x \in Executors, NEW s \in ExecState, MovesTo(x, s), Moved(exec[x], s)
      PROVE  Stayed(y) \/ Moved(exec[y], exec'[y])
  <2>1. CASE exec' = [exec EXCEPT ![x] = s] /\ incident' = incident
    BY <1>0, <1>2, <2>1 DEF Stayed
  <2>2. CASE ChangeIncident(x, incident', s)
    <3>1. /\ exec'[x] = s
          /\ y # x => exec'[y] = [exec[y] EXCEPT !.fresh = FALSE]
      BY <1>0, <2>2, ChangeType
    <3>2. y # x => Stayed(y)
      BY <1>0, <3>1 DEF Stayed, ExecState
    <3> QED
      BY <1>2, <3>1, <3>2
  <2> QED
    BY <1>2, <2>1, <2>2 DEF MovesTo
<1> QED
  BY <1>1, <1>2, ExecMoves

LEMMA HandStep ==
  ASSUME ContainmentAssumption, ContainmentInv, Next
  PROVE  ExecutorInHand' /\ EntryIsCurrent'
<1> SUFFICES ASSUME NEW x \in Executors
             PROVE  /\ exec'[x].pc \in {"applying", "verifying", "finishing"} =>
                         exec'[x].n \in 1..tries'[exec'[x].at]
                    /\ exec'[x].pc = "finishing" =>
                         /\ exec'[x].verdict # "none"
                         /\ exec'[x].verdict = "completed" => effect'[exec'[x].at] # 0
                    /\ exec'[x].pc \in {"reading", "recording"}
                       /\ exec'[x].verdict = "completed" =>
                         \A a \in Actions : action'[a] = "completed"
                    /\ exec'[x].pc = "entering" /\ exec'[x].fresh =>
                         incident' \in {"approved", "failed"}
  BY DEF ExecutorInHand, EntryIsCurrent
<1> DEFINE e == exec[x]
           s == exec'[x]
<1>1. /\ e.pc \in {"applying", "verifying", "finishing"} => e.n \in 1..tries[e.at]
      /\ e.pc = "finishing" =>
           /\ e.verdict # "none"
           /\ e.verdict = "completed" => effect[e.at] # 0
      /\ e.pc \in {"reading", "recording"} /\ e.verdict = "completed" =>
           \A a \in Actions : action[a] = "completed"
      /\ e.pc = "entering" /\ e.fresh => incident \in {"approved", "failed"}
  BY DEF ContainmentInv, ExecutorInHand, EntryIsCurrent
<1>2. e.at \in Actions
  BY DEF ContainmentInv, TypeOK, ExecState
<1>3. /\ e.n \in 1..tries[e.at] => e.n \in 1..tries'[e.at]
      /\ effect[e.at] # 0 => effect'[e.at] # 0
      /\ tries'[e.at] \in Nat
  BY <1>2, TriesGrow, EffectStays
<1>4. (\A a \in Actions : action[a] = "completed") =>
        \A a \in Actions : action'[a] = "completed"
  BY CompletedStays DEF Kept
<1>5. CASE Stayed(x)
  BY <1>1, <1>3, <1>4, <1>5 DEF Stayed
<1>6. CASE Moved(e, s)
  <2>1. s.pc = "applying" => s.n \in 1..tries'[s.at]
    BY <1>3, <1>6 DEF Moved
  <2>2. s.pc \in {"verifying", "finishing"} => s.n \in 1..tries'[s.at]
    BY <1>1, <1>3, <1>6 DEF Moved
  <2>3. s.pc = "finishing" =>
          /\ s.verdict # "none"
          /\ s.verdict = "completed" => effect'[s.at] # 0
    BY <1>6 DEF Moved
  <2>4. s.pc \in {"reading", "recording"} /\ s.verdict = "completed" =>
          \A a \in Actions : action'[a] = "completed"
    BY <1>1, <1>4, <1>6 DEF Moved
  <2>5. s.pc = "entering" => incident' \in {"approved", "failed"}
    BY <1>6 DEF Moved
  <2> QED
    BY <2>1, <2>2, <2>3, <2>4, <2>5
<1> QED
  BY <1>5, <1>6, ExecCases

LEMMA ContainedStep ==
  ASSUME ContainmentAssumption, ContainmentInv, Next
  PROVE  ContainedMeansVerified'
<1> SUFFICES ASSUME incident' \in {"contained", "closed"}
             PROVE  \A a \in Actions : action'[a] = "completed"
  BY DEF ContainedMeansVerified
<1>1. (\A a \in Actions : action[a] = "completed") =>
        \A a \in Actions : action'[a] = "completed"
  BY CompletedStays DEF Kept
<1>2. CASE incident \in {"contained", "closed"}
  BY <1>1, <1>2 DEF ContainmentInv, ContainedMeansVerified
<1>3. CASE incident \notin {"contained", "closed"}
  <2>1. PICK x \in Executors : Enter(x) \/ RecordOutcome(x) \/ CloseIncident(x)
    BY <1>3, Writers
  <2>2. RecordOutcome(x) /\ incident' = Target(x)
    BY <1>3, <2>1 DEF Enter, RecordOutcome, CloseIncident, ChangeIncident
  <2>3. exec[x].pc = "recording" /\ exec[x].verdict = "completed"
    BY <2>2 DEF RecordOutcome, Target
  <2> QED
    BY <1>1, <2>3 DEF ContainmentInv, ExecutorInHand
<1> QED
  BY <1>2, <1>3

LEMMA InvStep ==
  ASSUME ContainmentAssumption, ContainmentInv, [Next]_vars
  PROVE  ContainmentInv'
<1>1. CASE Next
  BY <1>1, TypeStep, SequenceStep, MirrorStep, OrderStep, HandStep, ContainedStep
  DEF ContainmentInv
<1>2. CASE UNCHANGED vars
  BY <1>2 DEF vars, ContainmentInv, TypeOK, AttemptsInSequence,
     ActionMirrorsAttempt, StartedInOrder, PredecessorsCompleted, EffectHasAttempt,
     CompletedMeansApplied, ExecutorInHand, EntryIsCurrent, ContainedMeansVerified
<1> QED
  BY <1>1, <1>2

-----------------------------------------------------------------------------
(* Theorems *)

\* Fences, effects and the plan's order agree in every reachable state, for any
\* number of executors, actions, attempts and failures.
THEOREM Invariance == Spec => []ContainmentInv
<1>1. Init => ContainmentInv
  BY InitInv, ContainmentAssumption
<1>2. ContainmentInv /\ [Next]_vars => ContainmentInv'
  BY InvStep, ContainmentAssumption
<1> QED
  BY <1>1, <1>2, PTL DEF Spec

\* Every variable keeps its type, and no action is tried beyond its budget.
THEOREM TypeCorrect == Spec => []TypeOK
<1>1. ContainmentInv => TypeOK
  BY DEF ContainmentInv
<1> QED
  BY <1>1, Invariance, PTL

\* The action row and the rows of its attempts never tell two stories, and at
\* most one fence of an action is open.
THEOREM SingleFence == Spec => []ActionMirrorsAttempt
<1>1. ContainmentInv => ActionMirrorsAttempt
  BY DEF ContainmentInv
<1> QED
  BY <1>1, Invariance, PTL

\* Effects reach the provider in the order of the approved plan.
THEOREM PlanOrder == Spec => []EffectsInPlanOrder
<1>1. ContainmentInv => EffectsInPlanOrder
  <2> SUFFICES ASSUME ContainmentInv, NEW a \in Actions, effect[a] # 0
               PROVE  PredecessorsCompleted(a)
    BY DEF EffectsInPlanOrder
  <2>1. effect[a] \in Nat /\ effect[a] <= tries[a] /\ tries[a] \in Nat
    BY RowTypes, Numbers, ContainmentAssumption DEF ContainmentInv, EffectHasAttempt
  <2>2. tries[a] > 0
    BY <2>1
  <2> QED
    BY <2>2 DEF ContainmentInv, StartedInOrder
<1> QED
  BY <1>1, Invariance, PTL

\* "completed" is never written over an effect that is not there.
THEOREM CompletedApplied == Spec => []CompletedMeansApplied
<1>1. ContainmentInv => CompletedMeansApplied
  BY DEF ContainmentInv
<1> QED
  BY <1>1, Invariance, PTL

\* No incident is contained or closed over an unfinished plan.
THEOREM ContainedVerified == Spec => []ContainedMeansVerified
<1>1. ContainmentInv => ContainedMeansVerified
  BY DEF ContainmentInv
<1> QED
  BY <1>1, Invariance, PTL

\* An operation that was given up cannot take effect behind its verdict.
THEOREM LateIsFenced == Spec => NoLateEffect
<1> DEFINE InTime == \A a \in Actions : effect'[a] # effect[a] =>
                       effect[a] = 0 /\ attempt[a][effect'[a]] = "executing"
<1>1. ContainmentInv /\ Next => InTime
  BY EffectMoves, ContainmentAssumption DEF Open
<1>2. ContainmentInv /\ [Next]_vars => [InTime]_vars
  BY <1>1
<1> QED
  BY <1>2, Invariance, PTL DEF Spec, NoLateEffect

-----------------------------------------------------------------------------
(* Refinement of the contract *)

\* The actions that took effect.
AppliedSet == {a \in Actions : effect[a] # 0}

LEMMA AppliedCount ==
  ASSUME ContainmentAssumption
  PROVE  /\ IsFiniteSet(Actions) /\ Cardinality(Actions) = NumActions
         /\ IsFiniteSet(AppliedSet) /\ Applied \in 0..NumActions
         /\ Applied = NumActions <=> AppliedSet = Actions
<1>1. NumActions \in Int /\ 1 \in Int /\ ~(1 > NumActions) /\ NumActions - 1 + 1 = NumActions
  BY DEF ContainmentAssumption
<1>2. IsFiniteSet(Actions) /\ Cardinality(Actions) = NumActions
  BY <1>1, FS_Interval DEF Actions
<1>3. AppliedSet \in SUBSET Actions
  BY DEF AppliedSet
<1>4. /\ IsFiniteSet(AppliedSet) /\ Cardinality(AppliedSet) <= NumActions
      /\ Cardinality(Actions) = Cardinality(AppliedSet) => Actions = AppliedSet
  BY <1>2, <1>3, FS_Subset
<1>5. Cardinality(AppliedSet) \in Nat
  BY <1>4, FS_CardinalityType
<1>6. Applied = Cardinality(AppliedSet)
  BY DEF Applied, AppliedSet
<1> QED
  BY <1>1, <1>2, <1>4, <1>5, <1>6

\* Before anything happened nothing is applied and the incident is open.
LEMMA ContractStart ==
  ASSUME ContainmentAssumption, Init
  PROVE  Contract!ContractInit
<1>1. {a \in Actions : effect[a] # 0} = {}
  BY DEF Init
<1> QED
  BY <1>1, FS_EmptySet DEF Init, Contract!ContractInit, Applied, Phase

\* One effect more is the contract's Apply.
LEMMA EffectIsApply ==
  ASSUME ContainmentAssumption, ContainmentInv, NEW b \in Actions, NEW n \in Nat \ {0},
         effect[b] = 0, effect' = [effect EXCEPT ![b] = n], incident' = incident
  PROVE  Contract!Apply
<1>1. b \notin AppliedSet /\ AppliedSet # Actions
  BY DEF AppliedSet
<1>2. AppliedSet' = AppliedSet \cup {b}
  BY RowTypes DEF AppliedSet
<1>3. Applied' = Applied + 1
  <2>1. Applied = Cardinality(AppliedSet) /\ Applied' = Cardinality(AppliedSet')
    BY DEF Applied, AppliedSet
  <2> QED
    BY <1>1, <1>2, <2>1, AppliedCount, FS_AddElement
<1>4. Applied < NumActions
  BY <1>1, AppliedCount DEF ContainmentAssumption
<1>5. Phase = "open" /\ Phase' = "open"
  <2>1. action[b] # "completed"
    BY DEF ContainmentInv, CompletedMeansApplied
  <2> QED
    BY <2>1 DEF Phase, ContainmentInv, ContainedMeansVerified
<1> QED
  BY <1>3, <1>4, <1>5 DEF Contract!Apply

\* A change of the incident is the contract's Contain, its Conclude or nothing.
LEMMA IncidentIsContract ==
  ASSUME ContainmentAssumption, ContainmentInv, NEW x \in Executors,
         Enter(x) \/ RecordOutcome(x) \/ CloseIncident(x)
  PROVE  Contract!Contain \/ Contract!Conclude \/ UNCHANGED <<Applied, Phase>>
<1>1. Applied' = Applied
  BY DEF Enter, RecordOutcome, CloseIncident, Applied
<1>2. CASE incident' = incident
  BY <1>1, <1>2 DEF Phase
<1>3. CASE incident' # incident
  <2>1. CASE Enter(x)
    BY <1>1, <1>3, <2>1 DEF Enter, ChangeIncident, ContainmentInv, EntryIsCurrent, Phase
  <2>2. CASE RecordOutcome(x) /\ exec[x].verdict # "completed"
    BY <1>1, <1>3, <2>2 DEF RecordOutcome, ChangeIncident, Target, Phase
  <2>3. CASE RecordOutcome(x) /\ exec[x].verdict = "completed"
    <3>1. Phase = "open" /\ Phase' = "contained"
      BY <1>3, <2>3 DEF RecordOutcome, ChangeIncident, Target, Phase
    <3>2. \A a \in Actions : action[a] = "completed"
      BY <2>3 DEF RecordOutcome, ContainmentInv, ExecutorInHand
    <3>3. \A a \in Actions : effect[a] # 0
      BY <3>2, RowTypes, Numbers DEF ContainmentInv, CompletedMeansApplied
    <3>4. Applied = NumActions
      BY <3>3, AppliedCount DEF AppliedSet
    <3> QED
      BY <1>1, <3>1, <3>4 DEF Contract!Contain
  <2>4. CASE CloseIncident(x)
    BY <1>1, <1>3, <2>4 DEF CloseIncident, ChangeIncident, Phase, Contract!Conclude
  <2> QED
    BY <2>1, <2>2, <2>3, <2>4
<1> QED
  BY <1>2, <1>3

\* Every step of the executors is a step of the contract or leaves it alone.
LEMMA ContractStep ==
  ASSUME ContainmentAssumption, ContainmentInv, [Next]_vars
  PROVE  \/ Contract!Apply \/ Contract!Contain \/ Contract!Conclude
         \/ UNCHANGED <<Applied, Phase>>
<1>1. CASE UNCHANGED <<effect, incident>>
  BY <1>1 DEF Applied, Phase
<1>2. ASSUME NEW b \in Actions, NEW n, ActiveFence(b, n), effect[b] = 0,
             effect' = [effect EXCEPT ![b] = n], incident' = incident
      PROVE  Contract!Apply
  <2>1. n \in Nat \ {0}
    BY <1>2, RowTypes, Numbers DEF ActiveFence, Open
  <2> QED
    BY <1>2, <2>1, EffectIsApply
<1>3. ASSUME NEW x \in Executors, ApplyEffect(x) \/ ApplyThrows(x), effect' # effect
      PROVE  Contract!Apply
  <2>1. exec[x].at \in Actions
    BY DEF ContainmentInv, TypeOK, ExecState
  <2>2. incident' = incident
    BY <1>3 DEF ApplyEffect, ApplyThrows, approval
  <2> QED
    BY <1>2, <1>3, <2>1, <2>2, ProviderStores
<1>4. ASSUME NEW x \in Executors, NEW b \in Actions, NEW n \in Attempts,
             LateApply(x, b, n), effect' # effect
      PROVE  Contract!Apply
  <2>1. ActiveFence(b, n) /\ effect[b] = 0
    BY <1>4, RowTypes DEF LateApply
  <2> QED
    BY <1>2, <1>4, <2>1 DEF LateApply, approval
<1>5. CASE Next
  <2>1. CASE effect' # effect
    BY <1>3, <1>4, <1>5, <2>1, Writers
  <2>2. CASE effect' = effect
    BY <1>1, <1>5, <2>2, IncidentIsContract, Writers
  <2> QED
    BY <2>1, <2>2
<1> QED
  BY <1>1, <1>5 DEF vars

\* Whoever executes the plan, effects are applied once each, the incident is
\* contained over the whole plan only and closed only when contained.
THEOREM Refinement == Spec => ContractKept
<1>1. Init => Contract!ContractInit
  BY ContractStart, ContainmentAssumption
<1>2. ContainmentInv /\ [Next]_vars =>
        [Contract!Apply \/ Contract!Contain \/ Contract!Conclude]_<<Applied, Phase>>
  BY ContractStep, ContainmentAssumption
<1> QED
  BY <1>1, <1>2, Invariance, PTL
  DEF Spec, ContractKept, Contract!ContractSpec, Contract!contract
=============================================================================
