---------------------------- MODULE IdentityProps ----------------------------
(***************************************************************************)
(* What IdentityEffects must guarantee.                                    *)
(***************************************************************************)
EXTENDS IdentityEffects

\* However often an action is attempted, interrupted or overtaken by another
\* process, its mutation is sent to WorkOS at most once, and by one of the
\* attempts of the normal budget.
OneMutation ==
  /\ sent <= 1
  /\ sent = 1 => ledger.status # "none"
  /\ attempts > MaxTries => sent = 1
  /\ \A c \in Callers : caller[c].pc = "sending" => caller[c].fence <= MaxTries /\ sent = 0

\* An action is completed only over a ledger entry that succeeded, and that is
\* never said of a session WorkOS still accepts.
CompletedIsConfirmed ==
  /\ action = "completed" => ledger.status = "succeeded"
  /\ ledger.status = "succeeded" /\ operation = "revoke_session" => target = "wanted"

\* "It does not, however, permit an old uncertain WorkOS ledger to remain
\* non-terminal forever."
UncertainIsSettled == (ledger.status = "uncertain") ~> (ledger.status # "uncertain")

\* The same as far as it is true: while the approval lasts and recovery has a later
\* action of the plan to come back for.
UncertainIsSettledIfRetried ==
  (ledger.status = "uncertain" /\ later) ~> (ledger.status # "uncertain" \/ overdue)
=============================================================================
