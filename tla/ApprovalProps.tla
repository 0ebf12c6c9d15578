----------------------------- MODULE ApprovalProps -----------------------------
(***************************************************************************)
(* What Approval must guarantee, and the inductive invariant that carries  *)
(* the proofs of Approval_proofs.                                          *)
(***************************************************************************)
EXTENDS Approval

\* The verdict and the incident tell one story, although requests, loops and
\* executions of the run each write one of them on what they read before: a
\* rejected or lapsed approval never reaches containment, an approved one is
\* never rejected.
Fitting(choice) ==
  CASE choice = "none" -> {"investigating", "awaiting_approval", "failed"}
    [] choice = "rejected" -> {"rejected", "closed"}
    [] OTHER -> {"approved", "containing", "contained", "failed", "closed"}
VerdictMatchesIncident == incident \in Fitting(decision.choice)

\* What a receipt stands for: a consumed token, or an expiry nobody can decide
\* any more.
Covered(receipt) ==
  /\ receipt = "token" => token \in {"consumed", "resumed"}
  /\ receipt = "expiry" => incident = "failed" /\ decision = Undecided /\ expired

\* The run goes on past its suspension only on a receipt the approval covers.
ResumedWithAuthority == Covered(run.receipt)

\* A token is marked as resumed only when its decision had its effect on the
\* incident, and an expiry only when the approval lapsed.
MarkedMeansFinished ==
  /\ token = "resumed" => incident \notin {"approved", "rejected"}
  /\ lapsed => Covered("expiry")

-----------------------------------------------------------------------------
(* What handlers, loops and executions may rely on between two transactions *)

\* A token exists exactly for a decided approval, and a decision has an author.
TokenFollowsDecision ==
  /\ token = "none" <=> decision = Undecided
  /\ decision = Undecided <=> decision.choice = "none"

\* Nobody has resumed the run before it was suspended.
Untouched == run.receipt = "none" /\ run.result = "none"
FirstExecutionFirst ==
  /\ start # "over" => run.status = "running"
  /\ (start # "over" \/ run.status = "suspended") => Untouched
  /\ start = "requesting" => incident = "investigating"

\* A run ends in a result only when it was resumed, and one resumed with a token
\* only after the decision took effect.
EndedWithEffect ==
  run.result # "none" =>
    /\ run.receipt # "none"
    /\ run.receipt = "token" => incident \notin {"approved", "rejected"}

Reconciling == {"checking", "resuming", "rechecking", "marking"} \cup Executing

\* What an actor in state s has in hand: a choice to store, a decision to
\* authorise, a receipt that is still covered, and in the run the branch its
\* receipt chose.
InHand(s) ==
  /\ s.pc \in {"looking", "deciding"} => s.ask.choice \in Choices
  /\ s.pc = "authorizing" => decision # Undecided
  /\ s.pc \in Reconciling => s.receipt # "none" /\ Covered(s.receipt)
  /\ s.pc \in Reconciling \ {"checking"} => start = "over"
  /\ s.pc \in {"reading", "entering", "containing"} =>
       s.receipt = "token" /\ decision.choice = "approved"
  /\ s.pc = "closing" => s.receipt = "token"
  /\ s.pc = "lapsed" => s.receipt = "expiry"
  /\ (s.pc = "marking" /\ s.receipt = "token") =>
       incident \notin {"approved", "rejected"}

ActorInHand == \A x \in Actors : InHand(actor[x])

\* The inductive invariant: verdict, token, receipt and incident agree, whatever
\* the actors do between reading and writing.
ApprovalInv ==
  /\ TypeOK
  /\ TokenFollowsDecision
  /\ FirstExecutionFirst
  /\ EndedWithEffect
  /\ ActorInHand
  /\ VerdictMatchesIncident
  /\ ResumedWithAuthority
  /\ MarkedMeansFinished

-----------------------------------------------------------------------------
\* The approval implements its contract.
Verdict ==
  CASE incident = "investigating" -> "none"
    [] incident # "investigating" /\ decision # Undecided -> decision.choice
    [] incident = "failed" /\ decision = Undecided -> "lapsed"
    [] OTHER -> "open"
Acted ==
  /\ decision.choice = "approved"
  /\ incident \in {"containing", "contained", "failed", "closed"}
Authority == INSTANCE ApprovalAuthority WITH verdict <- Verdict, acted <- Acted
AuthorityKept == Authority!AuthoritySpec

\* A pending approval past its expiry is eventually failed or decided, though
\* requests and loops keep racing to do it.
ExpiredIsSettled ==
  (expired /\ incident = "awaiting_approval") ~> incident # "awaiting_approval"

\* "reconciles a decided run after resume completed but before token marking",
\* and the same for an expiry: the end of the run is noted after any crash.
FinishedIsMarked ==
  /\ (run.status = "success" /\ token = "consumed") ~>
       (token = "resumed" \/ run.status # "success")
  /\ (run.status = "success" /\ decision = Undecided) ~>
       (lapsed \/ run.status # "success")

\* "retries expiry resume after a process failure following the expiry commit":
\* once the expiry is committed, its suspended run is eventually resumed and the
\* approval marked, unless a step of the run itself threw.
ExpiryIsResumed ==
  (incident = "failed" /\ decision = Undecided /\ run.status = "suspended") ~>
    (lapsed \/ run.status = "failed")
=============================================================================
