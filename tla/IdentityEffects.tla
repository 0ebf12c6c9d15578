--------------------------- MODULE IdentityEffects ---------------------------
(***************************************************************************)
(* One containment action of a WorkOS installation: revoking a session or  *)
(* restoring a role through WorkOsIdentityProvider                         *)
(* (providers/identity-provider.ts), its ledger of provider effects        *)
(* (db/provider-effect-operations.ts), the fenced attempts it is bound to  *)
(* (containment/execution-claims.ts, gateway.ts, mode "staging") and the   *)
(* sweep of background/phase6-recovery-dispatcher.ts.                      *)
(*                                                                         *)
(* A fence token is the number of its attempt.  A read of WorkOS may still *)
(* miss a change that was made (visible).  What the plan does around the   *)
(* action is the module Containment's; here only whether a later action of *)
(* the plan still waits matters, for what recovery selects.                *)
(***************************************************************************)
EXTENDS Naturals

CONSTANTS
  Callers,     \* the workflow step and the recovery loops
  MaxTries,    \* normal attempts of an action (3)
  MaxReads,    \* MAX_WORKOS_RECONCILIATION_ATTEMPTS
  MaxMishaps   \* failures the environment may inject (bound)

ASSUME IdentityAssumption ==
  MaxTries \in Nat \ {0} /\ MaxReads \in Nat /\ MaxMishaps \in Nat

VARIABLES
  operation,  \* "revoke_session" or "restore_previous_role"
  later,      \* an action after this one waits in the plan
  overdue,    \* the approval has expired
  action,     \* containment_actions.status
  leased,     \* the latest attempt's lease has not expired
  attempts,   \* containment_action_attempts of the action
  ledger,     \* provider_effect_ledger
  target,     \* the session or membership at WorkOS
  visible,    \* a read shows the change
  sent,       \* mutations sent
  request,    \* a mutation whose caller stopped waiting is under way
  caller,
  mishaps

identityVars == <<operation, later, overdue, action, leased, attempts, ledger, target,
                  visible, sent, request, caller, mishaps>>

-----------------------------------------------------------------------------
LastAttempt == MaxTries + MaxReads
Verdicts == {"completed", "failed", "timed_out"}

CallerState ==
  [pc : {"idle", "claiming", "reading", "binding", "sending", "verifying", "storing",
         "doubting", "reconciling", "resolving", "finishing"},
   fence : 0..LastAttempt, seen : {"before", "wanted", "other"}, verdict : Verdicts]

Resting == [pc |-> "idle", fence |-> 0, seen |-> "before", verdict |-> "failed"]

IdentityTypeOK ==
  /\ operation \in {"revoke_session", "restore_previous_role"}
  /\ later \in BOOLEAN /\ overdue \in BOOLEAN /\ leased \in BOOLEAN
  /\ action \in {"pending", "executing"} \cup Verdicts
  /\ attempts \in 0..LastAttempt
  /\ ledger \in [status : {"none", "claimed", "uncertain", "succeeded", "failed"},
                 fence : 0..LastAttempt]
  /\ target \in {"before", "wanted", "other"}
  /\ visible \in BOOLEAN /\ request \in BOOLEAN
  /\ sent \in 0..1
  /\ caller \in [Callers -> CallerState]
  /\ mishaps \in 0..MaxMishaps

IdentityInit ==
  /\ operation \in {"revoke_session", "restore_previous_role"}
  /\ later \in BOOLEAN
  /\ overdue = FALSE
  /\ action = "pending"
  /\ leased = FALSE
  /\ attempts = 0
  /\ ledger = [status |-> "none", fence |-> 0]
  /\ target = "before"
  /\ visible = FALSE
  /\ sent = 0
  /\ request = FALSE
  /\ caller = [c \in Callers |-> Resting]
  /\ mishaps = 0

-----------------------------------------------------------------------------
plan == <<operation, later>>
approval == <<overdue>>
claims == <<action, leased, attempts>>
workos == <<target, visible, request>>

Mishap == mishaps < MaxMishaps /\ mishaps' = mishaps + 1

CallerAt(c, pc) == caller[c].pc = pc
CallerTo(c, pc) == caller' = [caller EXCEPT ![c].pc = pc]
Ending(c, verdict) ==
  caller' = [caller EXCEPT ![c].pc = "finishing", ![c].verdict = verdict]
Rest(c) == caller' = [caller EXCEPT ![c] = Resting]

\* attempt.fence_token and status = 'executing'; the latest attempt alone executes.
Executing(c) == action = "executing" /\ caller[c].fence = attempts

\* What a read of WorkOS shows.
Shown == IF target = "wanted" /\ ~visible THEN "before" ELSE target

\* The workflow's call, and what retryContainmentOne selects: it looks for an action
\* of the plan with fewer than three attempts, not for an uncertain effect.
Selected ==
  \/ attempts = 0
  \/ /\ ~(action = "executing" /\ leased)
     /\ later \/ (action \in {"failed", "timed_out"} /\ attempts < MaxTries)

StartCall(c) ==
  /\ CallerAt(c, "idle")
  /\ ~overdue /\ action # "completed" /\ Selected
  /\ CallerTo(c, "claiming")
  /\ UNCHANGED <<plan, approval, claims, ledger, workos, sent, mishaps>>

-----------------------------------------------------------------------------
(* claimContainmentAction *)

Uncertain == ledger.status = "uncertain"
Busy == action = "executing" /\ leased
Spent == attempts >= LastAttempt /\ Uncertain /\ ~Busy

\* Mutant: an uncertain effect has the budget of any other.
WithinTries == attempts < MaxTries

\* Mutant: an action is attempted for ever.
WithoutBudget == TRUE

\* Mutations have a budget; an uncertain effect may be read a few times more.
WithinBudget == attempts < MaxTries \/ Uncertain

Terminated ==
  /\ action' = "failed"
  /\ ledger' = [ledger EXCEPT !.status = "failed"]

\* It replays a completed action, ends one that is spent, denies one that is
\* executed elsewhere, and else begins an attempt; the attempt whose lease expired
\* is marked failed, which the new one makes visible in "attempts" only.
ClaimAttempt(c) ==
  /\ CallerAt(c, "claiming")
  /\ \/ action = "completed" /\ Rest(c) /\ UNCHANGED <<claims, ledger>>
     \/ action # "completed" /\ Spent /\ Terminated /\ Rest(c) /\ UNCHANGED <<leased, attempts>>
     \/ /\ action # "completed" /\ ~Spent /\ (~WithinBudget \/ Busy)
        /\ Rest(c)
        /\ UNCHANGED <<claims, ledger>>
     \/ /\ action # "completed" /\ ~Spent /\ WithinBudget /\ ~Busy
        /\ action' = "executing" /\ leased' = TRUE /\ attempts' = attempts + 1
        /\ caller' = [caller EXCEPT ![c] = [Resting EXCEPT !.pc = "reading",
                                                          !.fence = attempts + 1]]
        /\ UNCHANGED ledger
  /\ UNCHANGED <<plan, approval, workos, sent, mishaps>>

\* It is denied for the rate of such actions, after the expired attempt was marked.
ClaimRateLimited(c) ==
  /\ CallerAt(c, "claiming")
  /\ action # "completed" /\ ~Spent /\ WithinBudget /\ ~Busy
  /\ Mishap
  /\ action' = IF action = "executing" THEN "failed" ELSE action
  /\ Rest(c)
  /\ UNCHANGED <<plan, approval, leased, attempts, ledger, workos, sent>>

\* sweepExhaustedWorkOsReconciliationOne.
Sweep ==
  /\ Uncertain /\ attempts >= LastAttempt
  /\ action = "executing" /\ ~leased
  /\ Terminated
  /\ UNCHANGED <<plan, approval, leased, attempts, workos, sent, caller, mishaps>>

-----------------------------------------------------------------------------
(* revokeSession and restoreRole *)

\* assertApproval and the read before the ledger's claim; its failure is none of
\* the errors the gateway takes for a timeout.
ReadBefore(c) ==
  /\ CallerAt(c, "reading")
  /\ \/ overdue /\ Ending(c, "failed") /\ UNCHANGED mishaps
     \/ /\ ~overdue
        /\ caller' = [caller EXCEPT ![c].pc = "binding", ![c].seen = Shown]
        /\ UNCHANGED mishaps
     \/ ~overdue /\ Mishap /\ Ending(c, "failed")
  /\ UNCHANGED <<plan, approval, claims, ledger, workos, sent>>

\* Mutant: a later attempt takes over a claimed effect.
BoundByAnyone(c) ==
  \/ /\ ledger.status \in {"none", "claimed"}
     /\ ledger' = [status |-> "claimed", fence |-> caller[c].fence]
     /\ IF caller[c].seen = "before" THEN CallerTo(c, "sending") ELSE Ending(c, "failed")
  \/ /\ ledger.status = "uncertain"
     /\ ledger' = [ledger EXCEPT !.fence = caller[c].fence]
     /\ CallerTo(c, "reconciling")
  \/ /\ ledger.status \in {"succeeded", "failed"}
     /\ Ending(c, "failed")
     /\ UNCHANGED ledger

\* claimProviderEffect under a live fence: the first claim may send, if what was
\* read before is still worth changing; an uncertain effect is inherited for
\* reading; any other row belongs to another fence, which is a conflict.
Bound(c) ==
  \/ /\ ledger.status = "none"
     /\ ledger' = [status |-> "claimed", fence |-> caller[c].fence]
     /\ IF caller[c].seen = "before" THEN CallerTo(c, "sending") ELSE Ending(c, "failed")
  \/ /\ ledger.status = "uncertain"
     /\ ledger' = [ledger EXCEPT !.fence = caller[c].fence]
     /\ CallerTo(c, "reconciling")
  \/ /\ ledger.status \in {"claimed", "succeeded", "failed"}
     /\ Ending(c, "failed")
     /\ UNCHANGED ledger

BindEffect(c) ==
  /\ CallerAt(c, "binding")
  /\ \/ Executing(c) /\ leased /\ Bound(c)
     \/ ~(Executing(c) /\ leased) /\ Ending(c, "failed") /\ UNCHANGED ledger
  /\ UNCHANGED <<plan, approval, claims, workos, sent, mishaps>>

\* The mutation is answered, or its fate is unknown.
Send(c) ==
  /\ CallerAt(c, "sending")
  /\ sent' = sent + 1
  /\ \/ /\ target' = "wanted"
        /\ CallerTo(c, "verifying")
        /\ UNCHANGED <<visible, request, mishaps>>
     \/ /\ Mishap
        /\ request' \in BOOLEAN
        /\ CallerTo(c, "doubting")
        /\ UNCHANGED <<target, visible>>
  /\ UNCHANGED <<plan, approval, claims, ledger>>

\* Mutant: the answer is believed.
ConfirmedByAnswer(c) == TRUE

Confirmed(c) == Shown = "wanted"

\* The readback decides; without one the effect is as doubtful.
Verify(c) ==
  /\ CallerAt(c, "verifying")
  /\ \/ /\ CallerTo(c, IF Confirmed(c) THEN "storing" ELSE "doubting")
        /\ UNCHANGED mishaps
     \/ Confirmed(c) /\ Mishap /\ CallerTo(c, "doubting")
  /\ UNCHANGED <<plan, approval, claims, ledger, workos, sent>>

\* finishProviderEffect: nobody else moves a claimed effect.  A success that cannot
\* be stored is doubted.
StoreSuccess(c) ==
  /\ CallerAt(c, "storing")
  /\ \/ /\ ledger' = [ledger EXCEPT !.status = "succeeded"]
        /\ Ending(c, "completed")
        /\ UNCHANGED mishaps
     \/ Mishap /\ CallerTo(c, "doubting") /\ UNCHANGED ledger
  /\ UNCHANGED <<plan, approval, claims, workos, sent>>

\* A doubt that cannot be stored is a failure of the attempt like any other.
StoreDoubt(c) ==
  /\ CallerAt(c, "doubting")
  /\ \/ /\ ledger' = [ledger EXCEPT !.status = "uncertain"]
        /\ Ending(c, "timed_out")
        /\ UNCHANGED mishaps
     \/ Mishap /\ Ending(c, "failed") /\ UNCHANGED ledger
  /\ UNCHANGED <<plan, approval, claims, workos, sent>>

\* The uncertain branch only reads, and takes a failed read for an unverified one.
Reconcile(c) ==
  /\ CallerAt(c, "reconciling")
  /\ \/ /\ IF Confirmed(c) THEN CallerTo(c, "resolving") ELSE Ending(c, "timed_out")
        /\ UNCHANGED mishaps
     \/ Confirmed(c) /\ Mishap /\ Ending(c, "timed_out")
  /\ UNCHANGED <<plan, approval, claims, ledger, workos, sent>>

\* reconcileProviderEffect tests the fence and the status again.
Resolve(c) ==
  /\ CallerAt(c, "resolving")
  /\ \/ /\ Uncertain /\ ledger.fence = caller[c].fence
        /\ ledger' = [ledger EXCEPT !.status = "succeeded"]
        /\ Ending(c, "completed")
     \/ /\ ~(Uncertain /\ ledger.fence = caller[c].fence)
        /\ Ending(c, "failed")
        /\ UNCHANGED ledger
  /\ UNCHANGED <<plan, approval, claims, workos, sent, mishaps>>

\* finishContainmentAction, or its conflict; a completion that cannot be stored is
\* caught, and stored as a failure.
FinishAttempt(c) ==
  /\ CallerAt(c, "finishing")
  /\ \/ /\ action' = IF Executing(c) THEN caller[c].verdict ELSE action
        /\ UNCHANGED mishaps
     \/ /\ Executing(c) /\ caller[c].verdict = "completed" /\ Mishap
        /\ action' = "failed"
  /\ Rest(c)
  /\ UNCHANGED <<plan, approval, leased, attempts, ledger, workos, sent>>

-----------------------------------------------------------------------------
(* Time, WorkOS and crashes *)

LeaseExpires ==
  /\ leased
  /\ leased' = FALSE
  /\ UNCHANGED <<plan, approval, action, attempts, ledger, workos, sent, caller, mishaps>>

ApprovalExpires ==
  /\ ~overdue
  /\ overdue' = TRUE
  /\ UNCHANGED <<plan, claims, ledger, workos, sent, caller, mishaps>>

ChangeShows ==
  /\ target = "wanted" /\ ~visible
  /\ visible' = TRUE
  /\ UNCHANGED <<plan, approval, claims, ledger, target, request, sent, caller, mishaps>>

RequestLands ==
  /\ request
  /\ request' = FALSE
  /\ target' = "wanted"
  /\ UNCHANGED <<plan, approval, claims, ledger, visible, sent, caller, mishaps>>

\* A session ends, or somebody changes the role; a revoked session stays revoked.
OthersChange ==
  /\ Mishap
  /\ target = "before" \/ (target = "wanted" /\ operation = "restore_previous_role")
  /\ target' = "other"
  /\ UNCHANGED <<plan, approval, claims, ledger, visible, request, sent, caller>>

\* The process, or its storage, fails between two statements.
CallerCrashes(c) ==
  /\ ~CallerAt(c, "idle")
  /\ Mishap
  /\ Rest(c)
  /\ UNCHANGED <<plan, approval, claims, ledger, workos, sent>>

-----------------------------------------------------------------------------
Execute(c) ==
  \/ ClaimAttempt(c) \/ ReadBefore(c) \/ BindEffect(c) \/ Send(c) \/ Verify(c)
  \/ StoreSuccess(c) \/ StoreDoubt(c) \/ Reconcile(c) \/ Resolve(c) \/ FinishAttempt(c)

IdentityNext ==
  \/ Sweep \/ LeaseExpires \/ ApprovalExpires \/ ChangeShows \/ RequestLands \/ OthersChange
  \/ \E c \in Callers : StartCall(c) \/ Execute(c) \/ ClaimRateLimited(c) \/ CallerCrashes(c)

IdentitySpec == IdentityInit /\ [][IdentityNext]_identityVars

\* A call that began goes on, the loops poll, and leases expire.
IdentityFairness ==
  /\ WF_identityVars(Sweep) /\ WF_identityVars(LeaseExpires)
  /\ \A c \in Callers : WF_identityVars(StartCall(c)) /\ WF_identityVars(Execute(c))

IdentityFairSpec == IdentitySpec /\ IdentityFairness
=============================================================================
