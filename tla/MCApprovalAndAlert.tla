-------------------------- MODULE MCApprovalAndAlert --------------------------
(***************************************************************************)
(* The approval, and the liveness of the alert pipeline, in one run: each  *)
(* behaviour is a behaviour of one of the two, the other rests in its      *)
(* initial state. They share no state: the pipeline ends where the         *)
(* workflow run begins, the approval begins when that run asks for it.     *)
(***************************************************************************)
EXTENDS MCApproval

CONSTANTS e1, p1, s1, s2, NoProc, NoEvent, NoSlot

VARIABLES part, alert, outbox, deadLetters, runs, ledger, wire, disp, worker, launched,
          alertFaults, accepted

alertVars == <<alert, outbox, deadLetters, runs, ledger, wire, disp, worker, launched,
               alertFaults, accepted>>

Alert == INSTANCE AlertPipelineProps
           WITH incident <- alert, faults <- alertFaults,
                Events <- {e1}, Procs <- {p1}, Slots <- {s1, s2}, BatchSize <- 1,
                MaxPublishAttempts <- 2, MaxStartAttempts <- 2, MaxFaults <- 3,
                PatientTimers <- TRUE

MCInit == part \in {"approval", "alert"} /\ Init /\ Alert!Init

ApprovalPart == part = "approval" /\ Next /\ UNCHANGED <<part, alertVars>>

AlertPart == part = "alert" /\ Alert!Next /\ UNCHANGED <<part, vars>>

MCNext == ApprovalPart \/ AlertPart

\* The fairness of Approval's FairSpec, for its part; only loops poll.
ApprovalFairness ==
  /\ WF_vars(part = "approval" /\ Start)
  /\ WF_vars(part = "approval" /\ Expire)
  /\ \A x \in Actors : WF_vars(part = "approval" /\ Step(x))
  /\ \A l \in Loops : /\ WF_vars(part = "approval" /\ PollDecision(l))
                      /\ WF_vars(part = "approval" /\ PollExpiry(l))

\* The fairness of AlertPipeline's FairSpec, for its part.
AlertFairness ==
  /\ WF_alertVars(part = "alert" /\ Alert!DispatcherStep(p1))
  /\ WF_alertVars(part = "alert" /\ Alert!Reconcile(p1))
  /\ WF_alertVars(part = "alert" /\ Alert!WorkerStep(p1))
  /\ WF_alertVars(part = "alert" /\ Alert!MaterializeStart(p1, e1))
  /\ \A i \in {s1, s2} : SF_alertVars(part = "alert" /\ Alert!Deliver(p1, e1, i))
  /\ WF_alertVars(part = "alert" /\ Alert!OutboxDue(e1))
  /\ WF_alertVars(part = "alert" /\ Alert!GraceElapses(e1))
  /\ WF_alertVars(part = "alert" /\ Alert!LedgerLeaseElapses(e1))

MCSpec ==
  /\ MCInit /\ [][MCNext]_<<part, vars, alertVars>>
  /\ ApprovalFairness /\ AlertFairness

\* Every accepted alert is eventually investigated, dead-lettered or at least
\* handed to the workflow engine, through every bounded mix of failed
\* publishes, lost marks, failed starts, crashes and dropped entries.
EventuallyHandedOff == Alert!EventuallyHandedOff
=============================================================================
