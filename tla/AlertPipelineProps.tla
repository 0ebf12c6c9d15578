-------------------------- MODULE AlertPipelineProps --------------------------
(***************************************************************************)
(* What AlertPipeline must guarantee, and the inductive invariant that     *)
(* carries the proofs of AlertPipeline_proofs.                             *)
(***************************************************************************)
EXTENDS AlertPipeline

\* The run row and the unresolved dead letter of one event exclude each other,
\* although four transactions in three loops write them: recordOutboxFailure,
\* persistOutboxDeadLetter, materializeInvestigationStart and the re-arming
\* reconciliation each re-check the other table.
RunExcludesDeadLetter == runs \cap deadLetters = {}

\* A terminal ledger row, which silences every later delivery of the event, has
\* a cause: "completed" only after a start was accepted or a run existed, and
\* "dead_lettered" only with the dead letter or a run that won the race.
LedgerVerdictHasCause ==
  \A e \in Events :
    /\ ledger[e].status = "completed" => e \in accepted \cup runs
    /\ ledger[e].status = "dead_lettered" => e \in deadLetters \cup runs

\* An entry is acknowledged as handled only when the ledger is terminal, so that
\* what the broker forgets no redelivery is owed for.
AckIsEarned ==
  \A p \in Procs : worker[p].pc = "acking" => Terminal(worker[p].ev)

-----------------------------------------------------------------------------
(* What the loops may rely on between two transactions *)

\* A loop in the middle of an item holds an event, a callback also its entry.
ItemInHand ==
  \A p \in Procs :
    /\ disp[p].pc \in {"marking", "failing"} => disp[p].ev \in disp[p].todo
    /\ worker[p].pc # "idle" => worker[p].ev \in Events /\ worker[p].slot \in Slots

\* The publish budget is spent only by the dead letter, and the dispatcher that
\* spent it is done with the row.
BudgetSpentOnce ==
  \A e \in Events : outbox[e].attempts = MaxPublishAttempts =>
    /\ e \in deadLetters
    /\ \A p \in Procs : outbox[e].lease = p => e \notin disp[p].todo

\* Nobody handles an event before its ingest transaction committed.
Unborn(e) ==
  /\ e \notin runs
  /\ e \notin deadLetters
  /\ \A i \in Slots : ~wire[e][i].pending
  /\ \A p \in Procs :
       e \notin disp[p].todo /\ worker[p].ev # e /\ e \notin launched[p]

NothingBeforeIngest == \A e \in Events : incident[e] = "absent" => Unborn(e)

\* A callback about to close the ledger still has the cause it read earlier.
CauseInHand ==
  \A p \in Procs :
    /\ worker[p].pc = "completing" => worker[p].ev \in accepted
    /\ worker[p].pc = "confirming" => worker[p].ev \in runs
    /\ worker[p].pc = "sealing" => worker[p].ev \in deadLetters \cup runs

\* The inductive invariant: what each loop reads in one transaction and acts on
\* in a later one is still so, whatever the other loops did in between.
PipelineInv ==
  /\ TypeOK
  /\ ItemInHand
  /\ BudgetSpentOnce
  /\ NothingBeforeIngest
  /\ CauseInHand
  /\ RunExcludesDeadLetter
  /\ LedgerVerdictHasCause
  /\ AckIsEarned

-----------------------------------------------------------------------------
\* The pipeline implements the one-verdict handoff.
Verdict(e) ==
  CASE incident[e] = "absent" -> "absent"
    [] incident[e] # "absent" /\ e \in runs -> "running"
    [] incident[e] # "absent" /\ e \notin runs /\ e \in deadLetters -> "dead"
    [] OTHER -> "pending"

Handoff == INSTANCE AlertHandoff WITH verdict <- [e \in Events |-> Verdict(e)]

OneVerdict == Handoff!HandoffSpec

\* Every accepted alert is eventually investigated, dead-lettered or at least
\* handed to the workflow engine, through every bounded mix of failed
\* publishes, lost marks, failed starts, crashes and dropped entries.
EventuallyHandedOff ==
  \A e \in Events :
    incident[e] = "received" ~> (e \in runs \cup deadLetters \cup accepted)

\* The recovery reconciliation "recovers a publish-before-marker crash": every
\* accepted alert eventually has its run or its dead letter.
NoLostAlert ==
  \A e \in Events : incident[e] = "received" ~> (e \in runs \cup deadLetters)

\* What the dispatcher itself published is never taken for a foreign envelope:
\* every redelivery meets the worker's retry policy.
DispatchedIsNeverPoison == \A p \in Procs : worker[p].pc # "discarding"
=============================================================================
