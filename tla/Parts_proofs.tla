---------------------------- MODULE Parts_proofs ----------------------------
(***************************************************************************)
(* Proofs about the smaller parts of the system, each by itself: the       *)
(* effect ledger of the identity provider, the country cache, webhook      *)
(* ingest, retention and the analytics read model, for all their           *)
(* constants.                                                              *)
(***************************************************************************)
EXTENDS IdentityProps, GeoIpProps, AlertIngestProps, RetentionProps, AnalyticsProps,
        WellFoundedInduction, TLAPS

-----------------------------------------------------------------------------
(* Intervals: induction and recursion, for sets and functions *)

\* A set of naturals has a least element, which is what the order of the naturals being
\* well founded says of a set.
LEMMA LeastElement ==
  ASSUME NEW S \in SUBSET Nat, S # {}
  PROVE  \E m \in S : \A n \in S : m <= n
<1>1. PICK m \in S : \A n \in S : <<n, m>> \notin OpToRel(<, Nat)
  BY NatLessThanWellFounded, WFMin, Zenon
<1>2. \A n \in Nat : <<n, m>> \in OpToRel(<, Nat) <=> n < m
  BY DEF OpToRel
<1> HIDE DEF OpToRel
<1>3. \A n \in S : ~(n < m)
  BY <1>1, <1>2
<1>4. \A n \in S : m <= n
  BY <1>3
<1> QED BY <1>4

\* Induction over an interval, for a set in place of a predicate.
LEMMA IntervalInduction ==
  ASSUME NEW a \in Nat, NEW b \in Nat, NEW P,
         a \in P, \A k \in (a + 1)..b : k - 1 \in P => k \in P
  PROVE  \A k \in a..b : k \in P
<1> DEFINE S == {k \in a..b : k \notin P}
<1> SUFFICES ASSUME S # {}
             PROVE  FALSE
  OBVIOUS
<1>1. S \in SUBSET Nat
  OBVIOUS
<1>2. PICK m \in S : \A n \in S : m <= n
  <2> HIDE DEF S
  <2> QED BY <1>1, LeastElement
<1>3. m \in (a + 1)..b
  OBVIOUS
<1>4. m - 1 \in a..b /\ m - 1 < m
  BY <1>3
<1>5. m - 1 \notin S
  <2> HIDE DEF S
  <2> QED BY <1>2, <1>3, <1>4
<1> QED BY <1>2, <1>3, <1>4, <1>5

\* A step from each place of an interval to the next, and a function that takes them.
Steps(a, b, S) == [((a + 1)..b) \X S -> S]
Follows(f, a, b, first, step) ==
  f[a] = first /\ \A k \in (a + 1)..b : f[k] = step[<<k, f[k - 1]>>]

\* A function defined by recursion along an interval exists.
LEMMA RecursionExists ==
  ASSUME NEW a \in Nat, NEW b \in Nat, a <= b,
         NEW S, NEW first \in S, NEW step \in Steps(a, b, S)
  PROVE  \E f \in [a..b -> S] : Follows(f, a, b, first, step)
<1> USE DEF Steps
<1> DEFINE Upto(n, f) == Follows(f, a, n, first, step)
           P == {n \in a..b : \E f \in [a..n -> S] : Upto(n, f)}
<1>1. a \in P
  <2> DEFINE f == [k \in a..a |-> first]
  <2>1. f \in [a..a -> S] /\ f[a] = first /\ (a + 1)..a = {}
    OBVIOUS
  <2> HIDE DEF f
  <2>2. a \in a..b
    OBVIOUS
  <2>3. Upto(a, f)
    <3> SUFFICES ASSUME NEW k \in (a + 1)..a
                 PROVE  FALSE
      BY <2>1 DEF Follows
    <3> QED OBVIOUS
  <2> HIDE DEF Upto
  <2> QED BY <2>1, <2>2, <2>3
<1>2. ASSUME NEW n \in (a + 1)..b, n - 1 \in P
      PROVE  n \in P
  <2>1. PICK f \in [a..(n - 1) -> S] : Upto(n - 1, f)
    BY <1>2
  <2> DEFINE g == [k \in a..n |-> IF k = n THEN step[<<n, f[n - 1]>>] ELSE f[k]]
  <2>2. n \in a..b /\ n - 1 \in a..(n - 1) /\ a \in a..(n - 1) /\ n # a
    OBVIOUS
  <2>3. step[<<n, f[n - 1]>>] \in S
    BY <2>2
  <2>4. g \in [a..n -> S]
    <3>1. \A k \in a..n : k # n => k \in a..(n - 1)
      OBVIOUS
    <3>2. \A k \in a..n : (IF k = n THEN step[<<n, f[n - 1]>>] ELSE f[k]) \in S
      BY <2>1, <2>3, <3>1
    <3> QED BY <3>2
  <2>5. g[a] = first
    <3>1. a \in a..n
      OBVIOUS
    <3> QED BY <2>1, <2>2, <3>1 DEF Follows
  <2>6. ASSUME NEW k \in (a + 1)..n
        PROVE  g[k] = step[<<k, g[k - 1]>>]
    <3>1. k \in a..n /\ k - 1 \in a..n /\ k - 1 # n /\ k - 1 \in a..(n - 1)
      OBVIOUS
    <3>2. g[k - 1] = f[k - 1]
      BY <3>1
    <3>3. CASE k = n
      BY <3>1, <3>2, <3>3
    <3>4. CASE k # n
      <4>1. k \in (a + 1)..(n - 1)
        BY <3>4
      <4>2. g[k] = f[k]
        BY <3>1, <3>4
      <4> QED BY <4>1, <4>2, <3>2, <2>1 DEF Follows
    <3> QED BY <3>3, <3>4
  <2> HIDE DEF g
  <2> QED BY <2>2, <2>4, <2>5, <2>6 DEF Follows
<1>3. \A k \in a..b : k \in P
  <2>1. \A k \in (a + 1)..b : k - 1 \in P => k \in P
    BY <1>2
  <2> HIDE DEF P
  <2> QED BY <1>1, <2>1, IntervalInduction
<1>4. b \in P
  <2>1. b \in a..b
    OBVIOUS
  <2> HIDE DEF P
  <2> QED BY <1>3, <2>1
<1> QED BY <1>4

-----------------------------------------------------------------------------
(* The effect ledger, for every number of callers, attempts, reads and mishaps *)

\* From the ledger's claim to the outcome stored over it.
Mutating == {"sending", "verifying", "storing", "doubting"}

\* One caller at a time is between the ledger's claim and its outcome, and what has an
\* outcome was sent.
EffectIsOwned ==
  /\ \A c \in Callers : caller[c].pc \in Mutating => ledger.status = "claimed"
  /\ \A c, d \in Callers : caller[c].pc \in Mutating /\ caller[d].pc \in Mutating => c = d
  /\ \A c \in Callers : caller[c].pc \in Mutating \ {"sending"} => sent = 1
  /\ ledger.status \in {"uncertain", "succeeded", "failed"} => sent = 1

\* Who is about to say that the change was made has seen it, and a verdict of
\* completion follows the ledger's.
VerdictIsGrounded ==
  /\ \A c \in Callers : caller[c].pc \in {"storing", "resolving"} /\ operation = "revoke_session"
                          => target = "wanted"
  /\ \A c \in Callers : caller[c].pc = "finishing" /\ caller[c].verdict = "completed"
                          => ledger.status = "succeeded"

IdentityInv ==
  IdentityTypeOK /\ EffectIsOwned /\ OneMutation /\ VerdictIsGrounded /\ CompletedIsConfirmed

-----------------------------------------------------------------------------
\* The attempts, the ledger, WorkOS and the callers stay what they are declared to be;
\* that at most one mutation is sent is needed for it.
LEMMA IdentityTypesStep ==
  ASSUME IdentityInv, [IdentityNext]_identityVars
  PROVE  IdentityTypeOK'
<1> USE IdentityAssumption DEF IdentityInv, IdentityTypeOK, LastAttempt, Verdicts, CallerState,
          plan, approval, claims, workos, Mishap, CallerAt, CallerTo, Ending, Rest, Resting
<1>1. CASE Sweep
  BY <1>1 DEF Sweep, Terminated
<1>2. CASE LeaseExpires
  <2>1. leased' \in BOOLEAN
    BY <1>2 DEF LeaseExpires
  <2> QED BY <1>2, <2>1 DEF LeaseExpires
<1>3. CASE ApprovalExpires
  BY <1>3 DEF ApprovalExpires
<1>4. CASE ChangeShows
  BY <1>4 DEF ChangeShows
<1>5. CASE RequestLands
  BY <1>5, ZenonT(60) DEF RequestLands
<1>6. CASE OthersChange
  BY <1>6 DEF OthersChange
<1>7. ASSUME NEW c \in Callers, StartCall(c) PROVE IdentityTypeOK'
  BY <1>7 DEF StartCall
<1>8. ASSUME NEW c \in Callers, CallerCrashes(c) PROVE IdentityTypeOK'
  BY <1>8 DEF CallerCrashes
<1>9. ASSUME NEW c \in Callers, Execute(c) PROVE IdentityTypeOK'
  <2>1. CASE ClaimAttempt(c)
    <3>1. UNCHANGED <<plan, approval, workos, sent, mishaps>>
      BY <2>1 DEF ClaimAttempt
    <3>2. CASE Rest(c) /\ UNCHANGED <<claims, ledger>>
      BY <3>1, <3>2
    <3>3. CASE Terminated /\ Rest(c) /\ UNCHANGED <<leased, attempts>>
      BY <3>1, <3>3 DEF Terminated
    <3>4. CASE /\ ~Spent /\ WithinBudget /\ ~Busy
               /\ action' = "executing" /\ leased' = TRUE /\ attempts' = attempts + 1
               /\ caller' = [caller EXCEPT ![c] = [Resting EXCEPT !.pc = "reading",
                                                                 !.fence = attempts + 1]]
               /\ UNCHANGED ledger
      <4>1. attempts + 1 \in 0..LastAttempt
        BY <3>4 DEF Spent, Uncertain, WithinBudget
      <4>2. caller' \in [Callers -> CallerState]
        BY <3>4, <4>1
      <4>3. leased' \in BOOLEAN
        BY <3>4
      <4> QED BY <3>1, <3>4, <4>1, <4>2, <4>3
    <3> QED BY <2>1, <3>2, <3>3, <3>4 DEF ClaimAttempt
  <2>2. CASE ReadBefore(c)
    BY <2>2 DEF ReadBefore, Shown
  <2>3. CASE BindEffect(c)
    BY <2>3 DEF BindEffect, Bound
  <2>4. CASE Send(c)
    BY <2>4 DEF Send, OneMutation
  <2>5. CASE Verify(c)
    BY <2>5 DEF Verify
  <2>6. CASE StoreSuccess(c)
    <3>1. caller' \in [Callers -> CallerState]
      <4>1. caller[c] \in CallerState
        OBVIOUS
      <4>2. CASE caller' = [caller EXCEPT ![c] = [caller[c] EXCEPT !.pc = "finishing",
                                                                 !.verdict = "completed"]]
        BY <4>1, <4>2
      <4>3. CASE caller' = [caller EXCEPT ![c] = [caller[c] EXCEPT !.pc = "doubting"]]
        BY <4>1, <4>3
      <4> QED BY <2>6, <4>2, <4>3 DEF StoreSuccess
    <3>2. ledger' \in [status : {"none", "claimed", "uncertain", "succeeded", "failed"},
                       fence : 0..LastAttempt]
      <4>1. ledger' = [ledger EXCEPT !.status = "succeeded"] \/ ledger' = ledger
        BY <2>6 DEF StoreSuccess
      <4> QED BY <4>1
    <3>3. mishaps' \in 0..MaxMishaps
      BY <2>6, IdentityAssumption DEF StoreSuccess, Mishap
    <3>4. UNCHANGED <<plan, approval, claims, workos, sent>>
      BY <2>6 DEF StoreSuccess
    <3> QED BY <3>1, <3>2, <3>3, <3>4
  <2>7. CASE StoreDoubt(c)
    <3>1. caller' \in [Callers -> CallerState]
      <4>1. PICK v \in {"timed_out", "failed"} :
              caller' = [caller EXCEPT ![c] = [caller[c] EXCEPT !.pc = "finishing", !.verdict = v]]
        BY <2>7 DEF StoreDoubt
      <4>2. caller[c] \in CallerState
        OBVIOUS
      <4> QED BY <4>1, <4>2
    <3>2. ledger' \in [status : {"none", "claimed", "uncertain", "succeeded", "failed"},
                       fence : 0..LastAttempt]
      BY <2>7 DEF StoreDoubt
    <3>3. mishaps' \in 0..MaxMishaps
      BY <2>7 DEF StoreDoubt
    <3>4. UNCHANGED <<plan, approval, claims, workos, sent>>
      BY <2>7 DEF StoreDoubt
    <3> QED BY <3>1, <3>2, <3>3, <3>4
  <2>8. CASE Reconcile(c)
    BY <2>8 DEF Reconcile
  <2>9. CASE Resolve(c)
    BY <2>9 DEF Resolve
  <2>10. CASE FinishAttempt(c)
    BY <2>10 DEF FinishAttempt
  <2> QED BY <1>9, <2>1, <2>2, <2>3, <2>4, <2>5, <2>6, <2>7, <2>8, <2>9, <2>10 DEF Execute
<1>10. ASSUME NEW c \in Callers, ClaimRateLimited(c) PROVE IdentityTypeOK'
  BY <1>10 DEF ClaimRateLimited
<1>11. CASE UNCHANGED identityVars
  BY <1>11 DEF identityVars
<1> QED
  BY <1>1, <1>2, <1>3, <1>4, <1>5, <1>6, <1>7, <1>8, <1>9, <1>10, <1>11 DEF IdentityNext

-----------------------------------------------------------------------------
\* A caller that is not between claim and outcome gets there by claiming an effect that
\* nobody has claimed, within the normal budget.
LEMMA OwnerStep ==
  ASSUME IdentityInv, [IdentityNext]_identityVars
  PROVE  EffectIsOwned' /\ OneMutation'
<1> USE IdentityAssumption DEF IdentityInv, IdentityTypeOK, CallerState, EffectIsOwned, OneMutation,
          Mutating, plan, approval, claims, workos, CallerAt, CallerTo, Ending, Rest, Resting
<1>1. CASE Sweep
  BY <1>1 DEF Sweep, Terminated, Uncertain
<1>2. CASE LeaseExpires
  BY <1>2 DEF LeaseExpires
<1>3. CASE ApprovalExpires
  BY <1>3 DEF ApprovalExpires
<1>4. CASE ChangeShows
  BY <1>4 DEF ChangeShows
<1>5. CASE RequestLands
  BY <1>5 DEF RequestLands
<1>6. CASE OthersChange
  BY <1>6 DEF OthersChange
<1>7. ASSUME NEW c \in Callers, StartCall(c) PROVE EffectIsOwned' /\ OneMutation'
  BY <1>7 DEF StartCall
<1>8. ASSUME NEW c \in Callers, CallerCrashes(c) PROVE EffectIsOwned' /\ OneMutation'
  BY <1>8 DEF CallerCrashes
<1>9. ASSUME NEW c \in Callers, Execute(c) PROVE EffectIsOwned' /\ OneMutation'
  <2>1. CASE ClaimAttempt(c)
    <3>1. UNCHANGED <<plan, approval, workos, sent, mishaps>>
      BY <2>1 DEF ClaimAttempt
    <3>2. CASE Rest(c) /\ UNCHANGED <<claims, ledger>>
      BY <3>1, <3>2
    <3>3. CASE action # "completed" /\ Uncertain /\ Terminated /\ Rest(c) /\ UNCHANGED <<leased, attempts>>
      BY <3>1, <3>3 DEF Terminated, Uncertain
    <3>4. CASE /\ action # "completed" /\ WithinBudget
               /\ action' = "executing" /\ leased' = TRUE /\ attempts' = attempts + 1
               /\ caller' = [caller EXCEPT ![c] = [Resting EXCEPT !.pc = "reading",
                                                                 !.fence = attempts + 1]]
               /\ UNCHANGED ledger
      BY <3>1, <3>4 DEF WithinBudget, Uncertain
    <3> QED BY <2>1, <3>2, <3>3, <3>4 DEF ClaimAttempt, Spent
  <2>2. CASE ReadBefore(c)
    BY <2>2 DEF ReadBefore
  <2>3. CASE BindEffect(c)
    BY <2>3 DEF BindEffect, Bound, Executing
  <2>4. CASE Send(c)
    BY <2>4 DEF Send
  <2>5. CASE Verify(c)
    BY <2>5 DEF Verify
  <2>6. CASE StoreSuccess(c)
    BY <2>6 DEF StoreSuccess
  <2>7. CASE StoreDoubt(c)
    BY <2>7 DEF StoreDoubt
  <2>8. CASE Reconcile(c)
    BY <2>8 DEF Reconcile
  <2>9. CASE Resolve(c)
    <3>1. CASE Ending(c, "completed") /\ Uncertain /\ ledger' = [ledger EXCEPT !.status = "succeeded"]
      BY <2>9, <3>1 DEF Resolve, Uncertain
    <3>2. CASE Ending(c, "failed") /\ UNCHANGED ledger
      BY <2>9, <3>2 DEF Resolve
    <3> QED BY <2>9, <3>1, <3>2 DEF Resolve
  <2>10. CASE FinishAttempt(c)
    BY <2>10 DEF FinishAttempt
  <2> QED BY <1>9, <2>1, <2>2, <2>3, <2>4, <2>5, <2>6, <2>7, <2>8, <2>9, <2>10 DEF Execute
<1>10. ASSUME NEW c \in Callers, ClaimRateLimited(c) PROVE EffectIsOwned' /\ OneMutation'
  BY <1>10 DEF ClaimRateLimited
<1>11. CASE UNCHANGED identityVars
  BY <1>11 DEF identityVars
<1> QED
  BY <1>1, <1>2, <1>3, <1>4, <1>5, <1>6, <1>7, <1>8, <1>9, <1>10, <1>11 DEF IdentityNext

-----------------------------------------------------------------------------
\* What was confirmed stays so for a session; the ledger never leaves "succeeded"; and an
\* action that is completed is left alone.
LEMMA ConfirmedStep ==
  ASSUME IdentityInv, [IdentityNext]_identityVars
  PROVE  VerdictIsGrounded' /\ CompletedIsConfirmed'
<1> USE DEF IdentityInv, IdentityTypeOK, CallerState, EffectIsOwned, VerdictIsGrounded,
          CompletedIsConfirmed, Mutating, plan, approval, claims, workos, CallerAt, CallerTo,
          Ending, Rest, Resting
<1>1. CASE Sweep
  BY <1>1 DEF Sweep, Terminated, Uncertain
<1>2. CASE LeaseExpires
  BY <1>2 DEF LeaseExpires
<1>3. CASE ApprovalExpires
  BY <1>3 DEF ApprovalExpires
<1>4. CASE ChangeShows
  BY <1>4 DEF ChangeShows
<1>5. CASE RequestLands
  BY <1>5 DEF RequestLands
<1>6. CASE OthersChange
  BY <1>6 DEF OthersChange
<1>7. ASSUME NEW c \in Callers, StartCall(c) PROVE VerdictIsGrounded' /\ CompletedIsConfirmed'
  BY <1>7 DEF StartCall
<1>8. ASSUME NEW c \in Callers, CallerCrashes(c) PROVE VerdictIsGrounded' /\ CompletedIsConfirmed'
  BY <1>8 DEF CallerCrashes
<1>9. ASSUME NEW c \in Callers, Execute(c) PROVE VerdictIsGrounded' /\ CompletedIsConfirmed'
  <2>1. CASE ClaimAttempt(c)
    <3>1. UNCHANGED <<plan, approval, workos, sent, mishaps>>
      BY <2>1 DEF ClaimAttempt
    <3>2. CASE Rest(c) /\ UNCHANGED <<claims, ledger>>
      BY <3>1, <3>2
    <3>3. CASE action # "completed" /\ Uncertain /\ Terminated /\ Rest(c) /\ UNCHANGED <<leased, attempts>>
      BY <3>1, <3>3 DEF Terminated, Uncertain
    <3>4. CASE /\ action # "completed" /\ WithinBudget
               /\ action' = "executing" /\ leased' = TRUE /\ attempts' = attempts + 1
               /\ caller' = [caller EXCEPT ![c] = [Resting EXCEPT !.pc = "reading",
                                                                 !.fence = attempts + 1]]
               /\ UNCHANGED ledger
      BY <3>1, <3>4 DEF WithinBudget, Uncertain
    <3> QED BY <2>1, <3>2, <3>3, <3>4 DEF ClaimAttempt, Spent
  <2>2. CASE ReadBefore(c)
    BY <2>2 DEF ReadBefore
  <2>3. CASE BindEffect(c)
    BY <2>3 DEF BindEffect, Bound
  <2>4. CASE Send(c)
    BY <2>4 DEF Send
  <2>5. CASE Verify(c)
    BY <2>5 DEF Verify, Confirmed, Shown
  <2>6. CASE StoreSuccess(c)
    BY <2>6 DEF StoreSuccess
  <2>7. CASE StoreDoubt(c)
    BY <2>7 DEF StoreDoubt
  <2>8. CASE Reconcile(c)
    BY <2>8 DEF Reconcile, Confirmed, Shown
  <2>9. CASE Resolve(c)
    <3>1. CASE Ending(c, "completed") /\ Uncertain /\ ledger' = [ledger EXCEPT !.status = "succeeded"]
      BY <2>9, <3>1 DEF Resolve, Uncertain
    <3>2. CASE Ending(c, "failed") /\ UNCHANGED ledger
      BY <2>9, <3>2 DEF Resolve
    <3> QED BY <2>9, <3>1, <3>2 DEF Resolve
  <2>10. CASE FinishAttempt(c)
    BY <2>10 DEF FinishAttempt, Executing
  <2> QED BY <1>9, <2>1, <2>2, <2>3, <2>4, <2>5, <2>6, <2>7, <2>8, <2>9, <2>10 DEF Execute
<1>10. ASSUME NEW c \in Callers, ClaimRateLimited(c) PROVE VerdictIsGrounded' /\ CompletedIsConfirmed'
  BY <1>10 DEF ClaimRateLimited
<1>11. CASE UNCHANGED identityVars
  BY <1>11 DEF identityVars
<1> QED
  BY <1>1, <1>2, <1>3, <1>4, <1>5, <1>6, <1>7, <1>8, <1>9, <1>10, <1>11 DEF IdentityNext

-----------------------------------------------------------------------------
\* The inductive invariant of the effect ledger.
LEMMA IdentityInvHolds == IdentitySpec => []IdentityInv
<1>1. IdentityInit => IdentityInv
  <2>1. IdentityInit => IdentityTypeOK
    <3>1. 0 \in 0..LastAttempt /\ 0 \in 0..MaxMishaps
      BY IdentityAssumption, SMT DEF LastAttempt
    <3>2. Resting \in CallerState
      BY <3>1, SMT DEF Resting, CallerState, Verdicts
    <3>3. IdentityInit => caller \in [Callers -> CallerState]
      BY <3>2 DEF IdentityInit
    <3>4. IdentityInit =>
            ledger \in [status : {"none", "claimed", "uncertain", "succeeded", "failed"},
                       fence : 0..LastAttempt]
      BY <3>1 DEF IdentityInit
    <3>5. IdentityInit => leased \in BOOLEAN /\ overdue \in BOOLEAN
      BY DEF IdentityInit
    <3>6. IdentityInit => visible \in BOOLEAN /\ request \in BOOLEAN
      BY DEF IdentityInit
    <3>7. IdentityInit => sent \in 0..1
      BY SMT DEF IdentityInit
    <3> QED BY <3>1, <3>3, <3>4, <3>5, <3>6, <3>7 DEF IdentityInit, IdentityTypeOK, Verdicts
  <2>2. IdentityInit => EffectIsOwned /\ VerdictIsGrounded
    BY DEF IdentityInit, EffectIsOwned, VerdictIsGrounded, Mutating, Resting
  <2>3. IdentityInit => OneMutation /\ CompletedIsConfirmed
    BY IdentityAssumption DEF IdentityInit, OneMutation, CompletedIsConfirmed, Resting
  <2> QED BY <2>1, <2>2, <2>3 DEF IdentityInv
<1>2. IdentityInv /\ [IdentityNext]_identityVars => IdentityInv'
  BY IdentityTypesStep, OwnerStep, ConfirmedStep DEF IdentityInv
<1> QED BY <1>1, <1>2, PTL DEF IdentitySpec

\* The attempts of an action stay within its budgets, for every number of callers.
THEOREM IdentityTypes == IdentitySpec => []IdentityTypeOK
BY IdentityInvHolds, PTL DEF IdentityInv

\* One mutation of an action at most reaches WorkOS, whatever the callers, the budgets
\* and the failures.
THEOREM MutationIsUnique == IdentitySpec => []OneMutation
BY IdentityInvHolds, PTL DEF IdentityInv

\* An action that is completed changed what it promised to change.
THEOREM CompletionIsConfirmed == IdentitySpec => []CompletedIsConfirmed
BY IdentityInvHolds, PTL DEF IdentityInv

-----------------------------------------------------------------------------
(* The country cache, for every number of processes, every life time and clock *)

\* No evidence asked for under a key is younger than the running lease of that key.
LeaseIsYounger ==
  \A k \in Keys : lease[k] # NoLease /\ entry[k].asked = k => entry[k].observed <= lease[k].since

\* Nothing moves from the new key to the old one.
OldStaysOld == entry["old"].asked # "new"

GeoInv == GeoTypeOK /\ LeaseIsYounger /\ OldStaysOld

-----------------------------------------------------------------------------
\* Evidence that is no longer fresh, or purged already, is as old as its life time.
LEMMA StaleIsOld ==
  ASSUME GeoTypeOK, NEW k \in Keys, NEW t \in Ticks,
         ~(Kept(t)[k].expires > t), entry[k].asked = k
  PROVE  entry[k].observed + Ttl <= t /\ entry[k].observed \in Nat
<1>1. PICK u \in Ticks, a \in Keys : entry[k] = Entry(u, a)
  BY DEF GeoTypeOK, Entries, NoEntry, Keys, Nowhere
<1>2. CASE entry[k].purge <= t
  BY <1>1, <1>2, GeoIpAssumption, SMT DEF Entry, Ticks
<1>3. CASE ~(entry[k].purge <= t)
  <2>1. Kept(t)[k] = entry[k]
    BY <1>3 DEF Kept
  <2> QED BY <2>1, <1>1, GeoIpAssumption, SMT DEF Entry, Ticks
<1> QED BY <1>2, <1>3

\* Evidence that is fresh is younger than that.
LEMMA FreshIsYoung ==
  ASSUME GeoTypeOK, NEW k \in Keys, NEW t \in Ticks, Kept(t)[k].expires > t
  PROVE  entry[k].observed \in Nat /\ t < entry[k].observed + Ttl
<1>1. Kept(t)[k] = entry[k] /\ entry[k] # NoEntry
  BY SMT DEF Kept, NoEntry, Ticks
<1>2. PICK u \in Ticks, a \in Keys : entry[k] = Entry(u, a)
  BY <1>1 DEF GeoTypeOK, Entries
<1> QED BY <1>1, <1>2, SMT DEF Entry, Ticks

\* The rows a sweep keeps are the rows there were.
LEMMA KeptIsOld ==
  ASSUME NEW t, NEW k \in Keys
  PROVE  /\ Kept(t)[k] \in {entry[k], NoEntry}
         /\ Leased(t)[k] \in {lease[k], NoLease}
BY DEF Kept, Leased

LEMMA SweepTypes ==
  ASSUME GeoTypeOK, NEW t
  PROVE  /\ Kept(t) \in [Keys -> Entries]
         /\ Leased(t) \in [Keys -> Leases]
<1>1. NoEntry \in Entries /\ NoLease \in Leases
  BY DEF Entries, Leases
<1> QED BY <1>1 DEF GeoTypeOK, Kept, Leased

LEMMA FreedTypes ==
  ASSUME GeoTypeOK, NEW p
  PROVE  Freed(p) \in [Keys -> Leases]
<1>1. NoLease \in Leases
  BY DEF Leases
<1> QED BY <1>1 DEF GeoTypeOK, Freed

-----------------------------------------------------------------------------
\* The three ways a claim ends.
ClaimKeeps(p) == entry' = Kept(Start(p)) /\ lease' = Leased(Start(p))

ClaimRotates(p) ==
  /\ ring[p] = "new"
  /\ ~(Kept(Start(p))[ring[p]].expires > Start(p))
  /\ Kept(Start(p))["old"].expires > Start(p)
  /\ entry' = Rotated(p)
  /\ lease' = Leased(Start(p))

ClaimLeases(p) ==
  /\ ~(Kept(Start(p))[ring[p]].expires > Start(p))
  /\ entry' = Kept(Start(p))
  /\ lease' = [Leased(Start(p)) EXCEPT
                 ![ring[p]] = [holder |-> p, since |-> Start(p), expires |-> Start(p) + LeaseTime]]

LEMMA ClaimEnds ==
  ASSUME NEW p, Claim(p)
  PROVE  ClaimKeeps(p) \/ ClaimRotates(p) \/ ClaimLeases(p)
BY DEF Claim, ClaimKeeps, ClaimRotates, ClaimLeases

-----------------------------------------------------------------------------
\* Rows, leases, look-ups and the clock stay what they are declared to be.
THEOREM GeoTypes == GeoSpec => []GeoTypeOK
<1>1. GeoInit => GeoTypeOK
  BY GeoIpAssumption, SMT DEF GeoInit, GeoTypeOK, Entries, Leases, Ready, Ticks, Keys
<1>2. GeoTypeOK /\ [GeoNext]_geoVars => GeoTypeOK'
  <2> SUFFICES ASSUME GeoTypeOK, [GeoNext]_geoVars PROVE GeoTypeOK'
    OBVIOUS
  <2> USE DEF GeoTypeOK
  <2>1. CASE PurgeExpired
    BY <2>1, SweepTypes DEF PurgeExpired
  <2>2. CASE Tick
    <3>1. clock' \in Ticks
      BY <2>2, GeoIpAssumption, SMT DEF Tick, Ticks
    <3> QED BY <3>1, <2>2 DEF Tick
  <2>3. CASE UNCHANGED geoVars
    BY <2>3 DEF geoVars
  <2>4. ASSUME NEW p \in Processes, Lookup(p) PROVE GeoTypeOK'
    <3>1. CASE BeginLookup(p)
      BY <3>1 DEF BeginLookup
    <3>2. CASE Claim(p)
      <4> DEFINE t == Start(p)
      <4>1. t \in Ticks /\ 0 \in Ticks
        BY GeoIpAssumption, SMT DEF Ticks, Start
      <4>2. Kept(t) \in [Keys -> Entries] /\ Leased(t) \in [Keys -> Leases]
        BY SweepTypes
      <4>3. Rotated(p) \in [Keys -> Entries]
        <5>1. NoEntry \in Entries /\ entry["old"] \in Entries
          BY DEF Entries, Keys
        <5> QED BY <4>2, <5>1 DEF Rotated
      <4>4. [holder |-> p, since |-> t, expires |-> t + LeaseTime] \in Leases
        BY <4>1 DEF Leases
      <4>5. lookup' \in [Processes -> [pc : {"ready", "claiming", "asking", "completing", "releasing"},
                                       start : Ticks]]
        <5>1. \/ lookup' = [lookup EXCEPT ![p] = Ready]
              \/ lookup' = [lookup EXCEPT ![p].pc = "asking"]
          BY <3>2, Zenon DEF Claim, Concluded, LookupTo
        <5> QED BY <4>1, <5>1 DEF Ready
      <4>6. UNCHANGED <<clock, ring, local>>
        BY <3>2 DEF Claim
      <4> HIDE DEF t
      <4>7. entry' \in [Keys -> Entries] /\ lease' \in [Keys -> Leases]
        <5>1. CASE ClaimKeeps(p)
          BY <4>2, <5>1 DEF ClaimKeeps, t
        <5>2. CASE ClaimRotates(p)
          BY <4>2, <4>3, <5>2 DEF ClaimRotates, t
        <5>3. CASE ClaimLeases(p)
          <6>1. lease' = [Leased(t) EXCEPT ![ring[p]] = [holder |-> p, since |-> t, expires |-> t + LeaseTime]]
                  /\ entry' = Kept(t)
            BY <5>3 DEF ClaimLeases, t
          <6> QED BY <4>2, <4>4, <6>1
        <5> QED BY <3>2, <5>1, <5>2, <5>3, ClaimEnds
      <4> QED BY <4>5, <4>6, <4>7
    <3>3. CASE Ask(p)
      BY <3>3 DEF Ask, LookupTo
    <3>4. CASE Complete(p)
      <4>1. Start(p) \in Ticks /\ 0 \in Ticks
        BY GeoIpAssumption, SMT DEF Ticks, Start
      <4>2. Entry(Start(p), ring[p]) \in Entries
        BY <4>1 DEF Entries
      <4>3. entry' \in [Keys -> Entries] /\ local' \in [Processes -> Entries]
        <5>1. CASE HoldsLease(p)
          <6>1. entry' = [entry EXCEPT ![ring[p]] = Entry(Start(p), ring[p])]
                /\ local' = [local EXCEPT ![p] = Entry(Start(p), ring[p])]
            BY <3>4, <5>1 DEF Complete
          <6> QED BY <4>2, <6>1
        <5>2. CASE ~HoldsLease(p)
          BY <3>4, <5>2 DEF Complete
        <5> QED BY <5>1, <5>2
      <4>4. UNCHANGED <<clock, ring>> /\ lease' = Freed(p)
        BY <3>4 DEF Complete
      <4>5. lookup' \in [Processes -> [pc : {"ready", "claiming", "asking", "completing", "releasing"},
                                       start : Ticks]]
        BY <3>4, <4>1 DEF Complete, Concluded, Ready
      <4> QED BY <4>3, <4>4, <4>5, FreedTypes
    <3>5. CASE Release(p) \/ LookupFails(p)
      <4>1. 0 \in Ticks
        BY GeoIpAssumption, SMT DEF Ticks
      <4>2. lookup' \in [Processes -> [pc : {"ready", "claiming", "asking", "completing", "releasing"},
                                       start : Ticks]]
        BY <3>5, <4>1 DEF Release, LookupFails, Concluded, Ready
      <4>3. UNCHANGED <<clock, entry, ring, local>> /\ lease' \in {Freed(p), lease}
        BY <3>5 DEF Release, LookupFails
      <4> QED BY <4>2, <4>3, FreedTypes
    <3>6. CASE Restart(p)
      <4>1. 0 \in Ticks
        BY GeoIpAssumption, SMT DEF Ticks
      <4> QED BY <3>6, <4>1 DEF Restart, Ready, Entries, Keys
    <3> QED BY <2>4, <3>1, <3>2, <3>3, <3>4, <3>5, <3>6 DEF Lookup
  <2> QED BY <2>1, <2>2, <2>3, <2>4 DEF GeoNext
<1> QED BY <1>1, <1>2, PTL DEF GeoSpec

-----------------------------------------------------------------------------
\* A lease is taken when nothing under its key is fresh, and only its holder stores what
\* was asked for under that key.
LEMMA LeaseStaysYounger ==
  ASSUME GeoInv, [GeoNext]_geoVars
  PROVE  LeaseIsYounger'
<1> SUFFICES ASSUME NEW k \in Keys, (lease[k] # NoLease)', (entry[k].asked = k)'
             PROVE  (entry[k].observed <= lease[k].since)'
  BY DEF LeaseIsYounger
<1> USE DEF GeoInv
<1>1. ASSUME lease'[k] = lease[k], entry'[k] \in {entry[k], NoEntry}
      PROVE  entry'[k].observed <= lease'[k].since
  <2>1. entry'[k] # NoEntry
    BY DEF NoEntry, Nowhere, Keys
  <2> QED BY <1>1, <2>1 DEF LeaseIsYounger
<1>2. CASE PurgeExpired
  BY <1>1, <1>2, KeptIsOld DEF PurgeExpired
<1>3. CASE Tick \/ UNCHANGED geoVars
  BY <1>1, <1>3 DEF Tick, geoVars
<1>4. ASSUME NEW p \in Processes, Lookup(p) PROVE entry'[k].observed <= lease'[k].since
  <2>1. CASE Claim(p)
    <3> DEFINE t == Start(p)
    <3>1. t \in Ticks
      BY DEF GeoTypeOK, Start
    <3>2. CASE ClaimKeeps(p)
      BY <1>1, <3>2, KeptIsOld DEF ClaimKeeps
    <3>3. CASE ClaimRotates(p)
      <4>1. CASE k = "old"
        <5>1. entry'[k] = NoEntry
          BY <3>3, <4>1, SweepTypes DEF ClaimRotates, Rotated, GeoTypeOK, Keys
        <5> QED BY <5>1 DEF NoEntry, Nowhere, Keys
      <4>2. CASE k = "new"
        <5>1. entry'[k] = entry["old"]
          BY <3>3, <4>2, SweepTypes DEF ClaimRotates, Rotated, GeoTypeOK, Keys
        <5> QED BY <5>1, <4>2 DEF OldStaysOld
      <4> QED BY <4>1, <4>2 DEF Keys
    <3>4. CASE ClaimLeases(p)
      <4>0. /\ entry' = Kept(t)
            /\ ~(Kept(t)[ring[p]].expires > t)
            /\ lease' = [Leased(t) EXCEPT ![ring[p]] =
                           [holder |-> p, since |-> t, expires |-> t + LeaseTime]]
        BY <3>4 DEF ClaimLeases
      <4>1. CASE k = ring[p]
        <5>1. entry'[k] = entry[k]
          BY <4>0, KeptIsOld DEF NoEntry, Nowhere, Keys
        <5>2. lease'[k].since = t
          BY <4>0, <4>1, SweepTypes
        <5>3. entry[k].observed + Ttl <= t /\ entry[k].observed \in Nat
          BY <3>1, <4>0, <4>1, <5>1, StaleIsOld
        <5> QED BY <3>1, <5>1, <5>2, <5>3, GeoIpAssumption, SMT DEF Ticks
      <4>2. CASE k # ring[p]
        <5>1. lease'[k] = Leased(t)[k] /\ entry'[k] = Kept(t)[k]
          BY <4>0, <4>2, SweepTypes
        <5>2. lease'[k] = lease[k] /\ entry'[k] \in {entry[k], NoEntry}
          BY <5>1, KeptIsOld
        <5> QED BY <1>1, <5>2
      <4> QED BY <4>1, <4>2
    <3> QED BY <2>1, <3>2, <3>3, <3>4, ClaimEnds
  <2>2. CASE Complete(p)
    <3>1. CASE HoldsLease(p) /\ k = ring[p]
      BY <2>2, <3>1 DEF Complete, Freed, GeoTypeOK
    <3>2. CASE ~(HoldsLease(p) /\ k = ring[p])
      <4>1. entry'[k] = entry[k] /\ lease'[k] = lease[k]
        BY <2>2, <3>2 DEF Complete, Freed, GeoTypeOK
      <4> QED BY <1>1, <4>1
    <3> QED BY <3>1, <3>2
  <2>3. CASE Release(p)
    BY <1>1, <2>3 DEF Release, Freed, GeoTypeOK
  <2>4. CASE BeginLookup(p) \/ Ask(p) \/ LookupFails(p) \/ Restart(p)
    BY <1>1, <2>4 DEF BeginLookup, Ask, LookupFails, Restart
  <2> QED BY <1>4, <2>1, <2>2, <2>3, <2>4 DEF Lookup
<1> QED BY <1>2, <1>3, <1>4 DEF GeoNext
-----------------------------------------------------------------------------
LEMMA OldStays ==
  ASSUME GeoTypeOK, OldStaysOld, [GeoNext]_geoVars
  PROVE  OldStaysOld'
<1> USE DEF OldStaysOld
<1>1. ASSUME entry'["old"] \in {entry["old"], NoEntry} PROVE OldStaysOld'
  BY <1>1 DEF NoEntry, Nowhere
<1>2. CASE PurgeExpired
  BY <1>1, <1>2, KeptIsOld DEF PurgeExpired, Keys
<1>3. CASE Tick \/ UNCHANGED geoVars
  BY <1>1, <1>3 DEF Tick, geoVars
<1>4. ASSUME NEW p \in Processes, Lookup(p) PROVE OldStaysOld'
  <2>1. CASE Claim(p)
    <3>1. CASE ClaimKeeps(p) \/ ClaimLeases(p)
      BY <1>1, <3>1, KeptIsOld DEF ClaimKeeps, ClaimLeases, Keys
    <3>2. CASE ClaimRotates(p)
      <4>1. entry'["old"] = NoEntry
        BY <3>2, SweepTypes DEF ClaimRotates, Rotated, Keys
      <4> QED BY <1>1, <4>1
    <3> QED BY <2>1, <3>1, <3>2, ClaimEnds
  <2>2. CASE Complete(p)
    <3>1. CASE HoldsLease(p) /\ ring[p] = "old"
      <4>1. entry'["old"] = Entry(Start(p), "old")
        BY <2>2, <3>1 DEF Complete, GeoTypeOK
      <4> QED BY <4>1 DEF Entry
    <3>2. CASE ~(HoldsLease(p) /\ ring[p] = "old")
      <4>1. entry'["old"] = entry["old"]
        BY <2>2, <3>2 DEF Complete, GeoTypeOK, Keys
      <4> QED BY <1>1, <4>1
    <3> QED BY <3>1, <3>2
  <2>3. CASE BeginLookup(p) \/ Ask(p) \/ Release(p) \/ LookupFails(p) \/ Restart(p)
    BY <1>1, <2>3 DEF BeginLookup, Ask, Release, LookupFails, Restart
  <2> QED BY <1>4, <2>1, <2>2, <2>3 DEF Lookup
<1> QED BY <1>2, <1>3, <1>4 DEF GeoNext

-----------------------------------------------------------------------------
\* What a lease may replace is older than it, and what is rotated in is fresher than
\* what it replaces.
LEMMA StepMovesForward ==
  ASSUME GeoInv, [GeoNext]_geoVars, NEW k \in Keys, entry[k].asked = k, entry'[k] # NoEntry
  PROVE  entry'[k].observed >= entry[k].observed
<1> USE DEF GeoInv
<1>0. entry[k].observed \in Nat
  <2>1. PICK u \in Ticks, a \in Keys : entry[k] = Entry(u, a)
    BY DEF GeoTypeOK, Entries, NoEntry, Keys, Nowhere
  <2> QED BY <2>1 DEF Entry, Ticks
<1>1. ASSUME entry'[k] \in {entry[k], NoEntry} PROVE entry'[k].observed >= entry[k].observed
  BY <1>0, <1>1
<1>2. CASE PurgeExpired
  BY <1>1, <1>2, KeptIsOld DEF PurgeExpired
<1>3. CASE Tick \/ UNCHANGED geoVars
  BY <1>1, <1>3 DEF Tick, geoVars
<1>4. ASSUME NEW p \in Processes, Lookup(p) PROVE entry'[k].observed >= entry[k].observed
  <2>1. CASE Claim(p)
    <3> DEFINE t == Start(p)
    <3>1. t \in Ticks
      BY DEF GeoTypeOK, Start
    <3>2. CASE ClaimKeeps(p) \/ ClaimLeases(p)
      BY <1>1, <3>2, KeptIsOld DEF ClaimKeeps, ClaimLeases
    <3>3. CASE ClaimRotates(p)
      <4>1. CASE k = "old"
        BY <3>3, <4>1, SweepTypes DEF ClaimRotates, Rotated, Keys
      <4>2. CASE k = "new"
        <5>1. entry'[k] = entry["old"]
          BY <3>3, <4>2, SweepTypes DEF ClaimRotates, Rotated, Keys
        <5>2. entry[k].observed + Ttl <= t
          BY <3>1, <3>3, <4>2, StaleIsOld DEF ClaimRotates
        <5>3. entry["old"].observed \in Nat /\ t < entry["old"].observed + Ttl
          BY <3>1, <3>3, FreshIsYoung DEF ClaimRotates, Keys
        <5> QED BY <1>0, <3>1, <5>1, <5>2, <5>3, GeoIpAssumption, SMT DEF Ticks
      <4> QED BY <4>1, <4>2 DEF Keys
    <3> QED BY <2>1, <3>2, <3>3, ClaimEnds
  <2>2. CASE Complete(p)
    <3>1. CASE HoldsLease(p) /\ k = ring[p]
      <4>1. entry'[k] = Entry(Start(p), k)
        BY <2>2, <3>1 DEF Complete, GeoTypeOK
      <4>2. entry[k].observed <= lease[k].since
        BY <3>1 DEF LeaseIsYounger, HoldsLease
      <4> QED BY <3>1, <4>1, <4>2 DEF Entry, HoldsLease
    <3>2. CASE ~(HoldsLease(p) /\ k = ring[p])
      <4>1. entry'[k] = entry[k]
        BY <2>2, <3>2 DEF Complete, GeoTypeOK
      <4> QED BY <1>1, <4>1
    <3> QED BY <3>1, <3>2
  <2>3. CASE BeginLookup(p) \/ Ask(p) \/ Release(p) \/ LookupFails(p) \/ Restart(p)
    BY <1>1, <2>3 DEF BeginLookup, Ask, Release, LookupFails, Restart
  <2> QED BY <1>4, <2>1, <2>2, <2>3 DEF Lookup
<1> QED BY <1>2, <1>3, <1>4 DEF GeoNext

\* Evidence asked for under a key is never replaced by older evidence of that key, for
\* any number of processes and any lengths of time.
THEOREM EvidenceForward == GeoSpec => EvidenceMovesForward
<1>1. GeoInit => LeaseIsYounger /\ OldStaysOld
  BY DEF GeoInit, LeaseIsYounger, OldStaysOld, NoEntry, Keys, Nowhere
<1>2. GeoTypeOK /\ LeaseIsYounger /\ OldStaysOld /\ [GeoNext]_geoVars => (LeaseIsYounger /\ OldStaysOld)'
  BY LeaseStaysYounger, OldStays DEF GeoInv
<1>3. GeoTypeOK /\ LeaseIsYounger /\ OldStaysOld /\ [GeoNext]_geoVars =>
        [\A k \in Keys :
           entry[k].asked = k /\ entry'[k] # NoEntry => entry'[k].observed >= entry[k].observed]_geoVars
  BY StepMovesForward DEF GeoInv
<1> QED BY <1>1, <1>2, <1>3, GeoTypes, PTL DEF GeoSpec, EvidenceMovesForward

-----------------------------------------------------------------------------
(* Webhook ingest, for any deliveries and requests *)

\* What is remembered of a membership is what the last incident reports, and every
\* incident holds its place in the order.
ObservedIsLast ==
  LET n == Len(incidents) IN
  /\ observed.at = IF n = 0 THEN 0 ELSE incidents[n].alert.at
  /\ observed.state = IF n = 0 THEN NoState ELSE incidents[n].alert.state

PositionsAreIncidents ==
  positions = {[at |-> incidents[n].alert.at, state |-> incidents[n].alert.state, incident |-> n] :
                 n \in DOMAIN incidents}

\* An alert that will never be an incident, if it is none already.
Barred(a) == ~a.allowed \/ SameIdentity(a) # {} \/ NewerInStream(a) \/ SamePosition(a) # {}

Reported(a) == \E n \in DOMAIN incidents : incidents[n].alert = a

IncidentsAreAllowed == \A n \in DOMAIN incidents : incidents[n].alert.allowed

\* The order of the incidents and what each of them would restore.
InOrder ==
  \A m, n \in DOMAIN incidents :
    m < n => /\ incidents[m].alert.at < incidents[n].alert.at
             /\ incidents[m].alert.id # incidents[n].alert.id

PreviousIsTrue ==
  \A n \in DOMAIN incidents :
    LET before == IF n = 1 THEN NoState ELSE incidents[n - 1].alert.state IN
      incidents[n].previous =
        IF membership /\ before # incidents[n].alert.state THEN before ELSE NoState

RecordsInv ==
  /\ ObservedIsLast /\ PositionsAreIncidents /\ IncidentsAreAllowed
  /\ InOrder /\ PreviousIsTrue

\* Only what is allowed gets past the normalizer, what is refused for good is barred,
\* and what is buried is no incident; an answer names the incident of its event's state.
Sound(q) ==
  LET a == serving[q].alert IN
  /\ serving[q].pc = "normalizing" => a \in Alerts
  /\ serving[q].pc \in {"pinging", "writing", "rereading", "burying"} => a.allowed
  /\ serving[q].pc \in {"rereading", "burying"} =>
       serving[q].error = "STORAGE_UNAVAILABLE" \/ Barred(a)
  /\ serving[q].pc = "burying" => Barred(a) /\ ~Reported(a)
  /\ serving[q].pc = "answering" /\ serving[q].incident # 0 =>
       /\ incidents[serving[q].incident].alert.at = a.at
       /\ incidents[serving[q].incident].alert.state = a.state

HandlersInv == \A q \in Requests : Sound(q)

LettersInv == \A l \in letters : Barred(l[1]) /\ ~Reported(l[1])

IngestInv == IngestTypeOK /\ RecordsInv /\ HandlersInv /\ LettersInv

-----------------------------------------------------------------------------
\* What a request makes of the records: nothing, or an incident more.
RecordsStay == UNCHANGED records

Inserts(q) ==
  /\ At(q, "writing")
  /\ Fresh(serving[q].alert) /\ Insert(serving[q].alert)
  /\ UNCHANGED letters

IncidentRows == [alert : Alerts, previous : States \cup {NoState}]

LEMMA AlertTypes ==
  ASSUME IngestTypeOK, NEW q \in Requests
  PROVE  /\ serving[q] \in Handling
         /\ serving[q].alert \in Alerts \cup {NoAlert}
BY DEF IngestTypeOK, Handling

\* A step of ingest leaves the records or inserts an incident.
LEMMA RecordsMove ==
  ASSUME [IngestNext]_ingestVars
  PROVE  RecordsStay \/ \E q \in Requests : Inserts(q)
<1>1. CASE UNCHANGED ingestVars
  BY <1>1 DEF ingestVars, RecordsStay, records
<1>2. ASSUME NEW q \in Requests, NEW a \in Alerts, Arrive(q, a)
      PROVE  RecordsStay
  BY <1>2 DEF Arrive, RecordsStay
<1>3. ASSUME NEW q \in Requests, Write(q)
      PROVE  RecordsStay \/ Inserts(q)
  BY <1>3 DEF Write, RecordsStay, Inserts, records
<1>4. ASSUME NEW q \in Requests, HandleWebhook(q), ~Write(q)
      PROVE  RecordsStay
  BY <1>4 DEF HandleWebhook, Normalize, Ping, Reread, Bury, Reply, RequestDies, RecordsStay
<1> QED BY <1>1, <1>2, <1>3, <1>4 DEF IngestNext, HandleWebhook

\* What appending an incident does to the sequence.
LEMMA AppendsInOrder ==
  ASSUME IngestTypeOK, NEW a \in Alerts, Insert(a)
  PROVE  LET n == Len(incidents) + 1 IN
         /\ incidents' \in Seq(IncidentRows)
         /\ Len(incidents') = n /\ DOMAIN incidents' = 1..n /\ DOMAIN incidents = 1..Len(incidents)
         /\ n \in Nat \ {0} /\ Len(incidents) \in Nat
         /\ \A m \in DOMAIN incidents : incidents'[m] = incidents[m] /\ m < n
         /\ incidents'[n] = [alert |-> a, previous |-> Predecessor(a)]
<1>1. observed.state \in States \cup {NoState}
  BY DEF IngestTypeOK
<1>2. [alert |-> a, previous |-> Predecessor(a)] \in IncidentRows
  BY <1>1 DEF Predecessor, IncidentRows
<1> DEFINE row == [alert |-> a, previous |-> Predecessor(a)]
<1>3. incidents \in Seq(IncidentRows) /\ row \in IncidentRows /\ incidents' = Append(incidents, row)
  BY <1>2 DEF IngestTypeOK, IncidentRows, Insert
<1> HIDE DEF row, IncidentRows
<1> QED BY <1>3 DEF row

-----------------------------------------------------------------------------
\* The records.
LEMMA InsertKeepsRecords ==
  ASSUME IngestTypeOK, RecordsInv, NEW a \in Alerts, a.allowed, Fresh(a), Insert(a)
  PROVE  RecordsInv'
<1> DEFINE n == Len(incidents) + 1
<1>1. /\ Len(incidents') = n /\ DOMAIN incidents' = 1..n /\ DOMAIN incidents = 1..Len(incidents)
      /\ n \in Nat \ {0} /\ Len(incidents) \in Nat
      /\ \A m \in DOMAIN incidents : incidents'[m] = incidents[m] /\ m < n
      /\ incidents'[n] = [alert |-> a, previous |-> Predecessor(a)]
  BY AppendsInOrder
<1>2. \A m \in DOMAIN incidents : incidents[m] \in IncidentRows
  <2>1. incidents \in Seq(IncidentRows)
    BY DEF IngestTypeOK, IncidentRows
  <2> QED BY <2>1
<1>3. \A b \in Alerts : b.at \in Nat \ {0}
  BY AlertIngestAssumption
<1>4. incidents'[n].alert = a /\ incidents'[n].previous = Predecessor(a)
  BY <1>1
<1>5. observed' = [at |-> a.at, state |-> a.state, version |-> observed.version + 1]
  BY DEF Insert
<1>6. ObservedIsLast'
  BY <1>1, <1>4, <1>5 DEF ObservedIsLast
<1>7. PositionsAreIncidents'
  <2> DEFINE Place(seq, m) == [at |-> seq[m].alert.at, state |-> seq[m].alert.state, incident |-> m]
  <2>1. positions' = positions \cup {[at |-> a.at, state |-> a.state, incident |-> n]}
    BY DEF Insert
  <2>2. positions = {Place(incidents, m) : m \in 1..Len(incidents)}
    BY <1>1 DEF RecordsInv, PositionsAreIncidents
  <2>3. \A m \in 1..Len(incidents) : Place(incidents', m) = Place(incidents, m)
    BY <1>1
  <2>4. Place(incidents', n) = [at |-> a.at, state |-> a.state, incident |-> n]
    BY <1>4
  <2>5. 1..n = 1..Len(incidents) \cup {n}
    BY <1>1
  <2>6. positions' = {Place(incidents', m) : m \in 1..n}
    <3> HIDE DEF Place, n
    <3> QED BY <2>1, <2>2, <2>3, <2>4, <2>5
  <2> QED BY <2>6, <1>1 DEF PositionsAreIncidents
<1>8. IncidentsAreAllowed'
  BY <1>1, <1>4 DEF IncidentsAreAllowed, RecordsInv
<1>9. \A m \in DOMAIN incidents : incidents[m].alert.at < a.at /\ incidents[m].alert.id # a.id
  <2> SUFFICES ASSUME NEW m \in DOMAIN incidents
               PROVE  incidents[m].alert.at < a.at /\ incidents[m].alert.id # a.id
    OBVIOUS
  <2>1. incidents[m].alert.at \in Nat /\ a.at \in Nat
    BY <1>2, <1>3 DEF IncidentRows
  <2>2. ~(incidents[m].alert.at > a.at) /\ incidents[m].alert.id # a.id
    BY DEF Fresh, SameIdentity, NewerInStream
  <2>3. incidents[m].alert.at # a.at
    <3> DEFINE p == [at |-> incidents[m].alert.at, state |-> incidents[m].alert.state, incident |-> m]
    <3>1. p \in positions /\ p.at = incidents[m].alert.at
      BY DEF RecordsInv, PositionsAreIncidents
    <3> HIDE DEF p
    <3> QED BY <3>1 DEF Fresh, SamePosition
  <2> QED BY <2>1, <2>2, <2>3
<1>10. InOrder'
  <2> SUFFICES ASSUME NEW l \in 1..n, NEW m \in 1..n, l < m
               PROVE  /\ incidents'[l].alert.at < incidents'[m].alert.at
                      /\ incidents'[l].alert.id # incidents'[m].alert.id
    BY <1>1 DEF InOrder
  <2>1. l \in DOMAIN incidents
    BY <1>1
  <2>2. CASE m = n
    BY <2>1, <2>2, <1>1, <1>4, <1>9
  <2>3. CASE m # n
    <3>1. m \in DOMAIN incidents
      BY <2>3, <1>1
    <3> QED BY <2>1, <3>1, <1>1 DEF RecordsInv, InOrder
  <2> QED BY <2>2, <2>3
<1>11. PreviousIsTrue'
  <2> DEFINE before(seq, m) == IF m = 1 THEN NoState ELSE seq[m - 1].alert.state
  <2> SUFFICES ASSUME NEW m \in 1..n
               PROVE  incidents'[m].previous =
                        IF membership /\ before(incidents', m) # incidents'[m].alert.state
                        THEN before(incidents', m) ELSE NoState
    BY <1>1 DEF PreviousIsTrue, Insert
  <2>1. before(incidents', m) = before(incidents, m)
    BY <1>1
  <2>2. CASE m = n
    <3>1. before(incidents, n) = observed.state
      BY <1>1 DEF RecordsInv, ObservedIsLast
    <3> HIDE DEF before, n
    <3> QED BY <2>1, <2>2, <3>1, <1>4 DEF Predecessor
  <2>3. CASE m # n
    <3>1. m \in DOMAIN incidents /\ incidents'[m] = incidents[m]
      BY <2>3, <1>1
    <3> QED BY <2>1, <3>1 DEF RecordsInv, PreviousIsTrue
  <2> QED BY <2>2, <2>3
<1> QED BY <1>6, <1>7, <1>8, <1>10, <1>11 DEF RecordsInv

-----------------------------------------------------------------------------
\* What is barred stays barred, and is never reported; what the positions say.
LEMMA BarredStays ==
  ASSUME IngestTypeOK, RecordsStay \/ \E q \in Requests : Inserts(q),
         NEW b \in Alerts \cup {NoAlert}
  PROVE  Barred(b) => Barred(b)'
<1>1. CASE RecordsStay
  BY <1>1 DEF RecordsStay, records, Barred, SameIdentity, NewerInStream, SamePosition
<1>2. ASSUME NEW q \in Requests, Inserts(q), serving[q].alert \in Alerts
      PROVE  Barred(b) => Barred(b)'
  <2> DEFINE n == Len(incidents) + 1
  <2>1. Insert(serving[q].alert)
    BY <1>2 DEF Inserts
  <2>2. /\ DOMAIN incidents' = 1..n /\ DOMAIN incidents = 1..Len(incidents) /\ Len(incidents) \in Nat
        /\ \A m \in DOMAIN incidents : incidents'[m] = incidents[m]
    BY <1>2, <2>1, AppendsInOrder
  <2>3. positions \subseteq positions'
    BY <2>1 DEF Insert
  <2>4. \A m \in DOMAIN incidents : m \in DOMAIN incidents'
    BY <2>2
  <2>5. SameIdentity(b) # {} => SameIdentity(b)' # {}
    BY <2>2, <2>4 DEF SameIdentity
  <2>6. NewerInStream(b) => NewerInStream(b)'
    BY <2>2, <2>4 DEF NewerInStream
  <2>7. SamePosition(b) # {} => SamePosition(b)' # {}
    BY <2>3 DEF SamePosition
  <2> QED BY <2>5, <2>6, <2>7 DEF Barred
<1>3. ASSUME NEW q \in Requests, Inserts(q)
      PROVE  serving[q].alert \in Alerts
  <2> HIDE DEF IngestTypeOK
  <2>1. serving[q].alert \in Alerts \cup {NoAlert}
    BY AlertTypes
  <2>2. observed.at \in Nat
    BY AlertIngestAssumption DEF IngestTypeOK, Times
  <2>3. observed.at < serving[q].alert.at
    BY <1>3 DEF Inserts, Fresh
  <2>4. serving[q].alert # NoAlert
    BY <2>2, <2>3 DEF NoAlert
  <2> QED BY <2>1, <2>4
<1> QED BY <1>1, <1>2, <1>3

\* What is barred and no incident cannot become one.
LEMMA BarredIsNotReported ==
  ASSUME IngestTypeOK, RecordsInv, HandlersInv,
         RecordsStay \/ \E q \in Requests : Inserts(q),
         NEW b \in Alerts \cup {NoAlert}, Barred(b), ~Reported(b)
  PROVE  ~Reported(b)'
<1>1. CASE RecordsStay
  BY <1>1 DEF RecordsStay, records, Reported
<1>2. ASSUME NEW q \in Requests, Inserts(q)
      PROVE  ~Reported(b)'
  <2> DEFINE a == serving[q].alert
             n == Len(incidents) + 1
  <2>1. a \in Alerts /\ a.allowed
    BY <1>2, AlertTypes DEF Inserts, At, HandlersInv, Sound, NoAlert
  <2>2. Fresh(a) /\ Insert(a)
    BY <1>2 DEF Inserts
  <2>3. b # a
    BY <2>1, <2>2 DEF Barred, Fresh
  <2>4. /\ DOMAIN incidents' = 1..n /\ DOMAIN incidents = 1..Len(incidents) /\ Len(incidents) \in Nat
        /\ \A m \in DOMAIN incidents : incidents'[m] = incidents[m]
        /\ incidents'[n] = [alert |-> a, previous |-> Predecessor(a)]
    BY <2>1, <2>2, AppendsInOrder
  <2>5. \A m \in 1..n : m \in DOMAIN incidents \/ m = n
    BY <2>4
  <2>6. incidents'[n].alert = a
    BY <2>4
  <2> QED BY <2>3, <2>4, <2>5, <2>6 DEF Reported
<1> QED BY <1>1, <1>2

-----------------------------------------------------------------------------
\* The handlers.  What is true of one that rests stays true of it.
RecordsMoved == RecordsStay \/ \E q \in Requests : Inserts(q)

\* Incidents are only ever added to.
LEMMA IncidentsStay ==
  ASSUME IngestTypeOK, HandlersInv, RecordsStay \/ \E q \in Requests : Inserts(q)
  PROVE  /\ Len(incidents) \in Nat /\ Len(incidents') \in Nat /\ Len(incidents) <= Len(incidents')
         /\ DOMAIN incidents = 1..Len(incidents)
         /\ \A m \in 1..Len(incidents) : incidents'[m] = incidents[m]
<1>1. Len(incidents) \in Nat /\ DOMAIN incidents = 1..Len(incidents)
  BY DEF IngestTypeOK
<1>2. CASE RecordsStay
  BY <1>1, <1>2 DEF RecordsStay, records
<1>3. ASSUME NEW q \in Requests, Inserts(q)
      PROVE  /\ Len(incidents') = Len(incidents) + 1
             /\ \A m \in 1..Len(incidents) : incidents'[m] = incidents[m]
  <2>1. serving[q].alert \in Alerts /\ Insert(serving[q].alert)
    BY <1>3, AlertTypes DEF Inserts, At, HandlersInv, Sound, NoAlert
  <2> QED BY <2>1, <1>1, AppendsInOrder
<1> QED BY <1>1, <1>2, <1>3

\* A handler that does not move stays sound.
LEMMA RestsSound ==
  ASSUME IngestTypeOK, RecordsInv, HandlersInv,
         RecordsStay \/ \E q \in Requests : Inserts(q),
         NEW r \in Requests, serving'[r] = serving[r]
  PROVE  serving'[r] \in Handling' /\ Sound(r)'
<1> DEFINE a == serving[r].alert
<1>1. serving[r] \in Handling /\ a \in Alerts \cup {NoAlert}
  BY AlertTypes
<1>2. /\ Len(incidents) \in Nat /\ Len(incidents') \in Nat /\ Len(incidents) <= Len(incidents')
      /\ \A m \in 1..Len(incidents) : incidents'[m] = incidents[m]
  BY IncidentsStay
<1>3. serving'[r] \in Handling'
  <2>1. 0..Len(incidents) \subseteq 0..Len(incidents')
    BY <1>2
  <2> QED BY <1>1, <2>1 DEF Handling
<1>4. Barred(a) => Barred(a)'
  <2>1. \A b \in Alerts \cup {NoAlert} : Barred(b) => Barred(b)'
    BY BarredStays
  <2> QED BY <1>1, <2>1
<1>5. Barred(a) /\ ~Reported(a) => ~Reported(a)'
  <2>1. \A b \in Alerts \cup {NoAlert} : Barred(b) /\ ~Reported(b) => ~Reported(b)'
    BY BarredIsNotReported
  <2> QED BY <1>1, <2>1
<1>6. serving[r].incident # 0 => incidents'[serving[r].incident] = incidents[serving[r].incident]
  BY <1>1, <1>2 DEF Handling
<1> QED BY <1>3, <1>4, <1>5, <1>6 DEF Sound, HandlersInv

\* The handler that moves.
LEMMA MoverIsSound ==
  ASSUME IngestInv, NEW q \in Requests,
         \/ HandleWebhook(q)
         \/ \E a \in Alerts : Arrive(q, a)
  PROVE  /\ serving' = [serving EXCEPT ![q] = serving'[q]]
         /\ serving'[q] \in Handling' /\ Sound(q)'
<1> USE DEF IngestInv
<1> DEFINE a == serving[q].alert
           Goal == /\ serving' = [serving EXCEPT ![q] = serving'[q]]
                   /\ serving'[q] \in Handling' /\ Sound(q)'
<1>1. /\ serving \in [Requests -> Handling] /\ serving[q] \in Handling
      /\ a \in Alerts \cup {NoAlert} /\ Sound(q)
      /\ Len(incidents) \in Nat /\ DOMAIN incidents = 1..Len(incidents)
  BY AlertTypes DEF IngestTypeOK, HandlersInv
<1>2. /\ 0 \in 0..Len(incidents) /\ \A n \in DOMAIN incidents : n \in 0..Len(incidents)
      /\ Waiting \in Handling
  BY <1>1 DEF Waiting, Handling
<1>3. Len(incidents') \in Nat /\ Len(incidents) <= Len(incidents') /\ RecordsMoved
  <2>1. [IngestNext]_ingestVars
    BY DEF IngestNext
  <2>2. RecordsMoved
    BY <2>1, RecordsMove DEF RecordsMoved
  <2> QED BY <2>2, IncidentsStay DEF RecordsMoved
<1>4. ASSUME NEW h \in Handling', serving' = [serving EXCEPT ![q] = h]
      PROVE  /\ serving' = [serving EXCEPT ![q] = serving'[q]]
             /\ serving'[q] = h /\ serving'[q] \in Handling'
  BY <1>1, <1>4
<1>5. ASSUME NEW answer \in {"accepted", "duplicate", "dead_lettered", "conflict", "unavailable"},
             NEW n \in 0..Len(incidents'), Answers(q, answer, n),
             n # 0 => incidents'[n].alert.at = a.at /\ incidents'[n].alert.state = a.state
      PROVE  Goal
  <2> DEFINE h == [serving[q] EXCEPT !.pc = "answering", !.answer = answer, !.incident = n]
  <2>1. h \in Handling' /\ h.pc = "answering" /\ h.incident = n /\ h.alert = a
    BY <1>1 DEF Handling
  <2>2. serving' = [serving EXCEPT ![q] = h]
    BY <1>5 DEF Answers
  <2>3. serving' = [serving EXCEPT ![q] = serving'[q]] /\ serving'[q] = h /\ serving'[q] \in Handling'
    <3> HIDE DEF h
    <3> QED BY <1>4, <2>1, <2>2
  <2> HIDE DEF h
  <2> QED BY <1>5, <2>1, <2>3 DEF Sound
<1>6. ASSUME NEW pc \in {"pinging", "writing"}, ServingTo(q, pc), a.allowed
      PROVE  Goal
  <2> DEFINE h == [serving[q] EXCEPT !.pc = pc]
  <2>1. h \in Handling' /\ h.pc = pc /\ h.alert = a
    BY <1>1, <1>3 DEF Handling
  <2>2. serving' = [serving EXCEPT ![q] = h]
    BY <1>6 DEF ServingTo
  <2>3. serving' = [serving EXCEPT ![q] = serving'[q]] /\ serving'[q] = h /\ serving'[q] \in Handling'
    <3> HIDE DEF h
    <3> QED BY <1>4, <2>1, <2>2
  <2> HIDE DEF h
  <2> QED BY <1>6, <2>1, <2>3 DEF Sound
<1>7. ASSUME NEW error \in Errors, Fails(q, error), a.allowed,
             error = "STORAGE_UNAVAILABLE" \/ Barred(a)'
      PROVE  Goal
  <2> DEFINE h == [serving[q] EXCEPT !.pc = "rereading", !.error = error]
  <2>0. serving[q] \in Handling'
    BY <1>1, <1>3 DEF Handling
  <2>1. h \in Handling' /\ h.pc = "rereading" /\ h.error = error /\ h.alert = a
    <3>1. h \in Handling'
      BY <2>0 DEF Handling
    <3>2. h.pc = "rereading"
      BY <2>0 DEF Handling
    <3>3. h.error = error
      BY <2>0 DEF Handling
    <3>4. h.alert = a
      BY <2>0 DEF Handling
    <3> QED BY <3>1, <3>2, <3>3, <3>4
  <2>2. serving' = [serving EXCEPT ![q] = h]
    BY <1>7 DEF Fails
  <2>3. serving' = [serving EXCEPT ![q] = serving'[q]] /\ serving'[q] = h /\ serving'[q] \in Handling'
    <3> HIDE DEF h
    <3> QED BY <1>4, <2>1, <2>2
  <2> HIDE DEF h
  <2> QED BY <1>7, <2>1, <2>3 DEF Sound
<1>8. ASSUME NEW h \in Handling', h.pc \in {"waiting", "normalizing"},
             h.pc = "normalizing" => h.alert \in Alerts,
             serving' = [serving EXCEPT ![q] = h]
      PROVE  Goal
  <2>1. serving' = [serving EXCEPT ![q] = serving'[q]] /\ serving'[q] = h /\ serving'[q] \in Handling'
    BY <1>4, <1>8
  <2> QED BY <1>8, <2>1 DEF Sound
<1>9. 0 \in 0..Len(incidents')
  BY <1>3
<1> HIDE DEF Goal
<1> SUFFICES Goal
  BY DEF Goal
<1>10. ASSUME NEW b \in Alerts, Arrive(q, b)
       PROVE  Goal
  <2> DEFINE h == [Waiting EXCEPT !.pc = "normalizing", !.alert = b]
  <2>1. Waiting \in Handling'
    BY <1>3 DEF Handling, Waiting
  <2>2. h \in Handling' /\ h.pc = "normalizing" /\ h.alert = b
    BY <2>1 DEF Handling
  <2>3. serving' = [serving EXCEPT ![q] = h]
    BY <1>10 DEF Arrive
  <2> HIDE DEF h
  <2> QED BY <1>8, <2>2, <2>3
<1>11. ASSUME NEW answer \in {"dead_lettered", "conflict", "unavailable"}, Answers(q, answer, 0)
       PROVE  Goal
  BY <1>5, <1>9, <1>11 DEF Answers
<1>12. CASE Normalize(q)
  <2>1. CASE a.allowed /\ ServingTo(q, "pinging")
    BY <1>6, <2>1 DEF ServingTo
  <2>2. CASE Answers(q, "dead_lettered", 0) \/ Answers(q, "unavailable", 0)
    BY <1>11, <2>2 DEF Answers
  <2> QED BY <1>12, <2>1, <2>2 DEF Normalize
<1>13. CASE Ping(q)
  <2>1. a.allowed
    BY <1>1, <1>13 DEF Ping, At, Sound
  <2>2. CASE ServingTo(q, "writing")
    BY <1>6, <2>1, <2>2 DEF ServingTo
  <2>3. CASE Answers(q, "unavailable", 0)
    BY <1>11, <2>3 DEF Answers
  <2> QED BY <1>13, <2>2, <2>3 DEF Ping, Answers, ServingTo
<1>14. CASE Bury(q)
  <2>1. \E answer \in {"dead_lettered", "conflict", "unavailable"} : Answers(q, answer, 0)
    BY <1>14 DEF Bury
  <2> QED BY <1>11, <2>1 DEF Answers
<1>15. CASE Reply(q) \/ RequestDies(q)
  <2>1. Waiting \in Handling' /\ Waiting.pc = "waiting"
    BY <1>3 DEF Handling, Waiting
  <2>2. serving' = [serving EXCEPT ![q] = Waiting]
    BY <1>15 DEF Reply, RequestDies
  <2> QED BY <1>8, <2>1, <2>2
<1>16. CASE Reread(q)
  <2>1. records' = records /\ a.allowed /\ serving[q].error \in Errors \cup {"none"}
    BY <1>1, <1>16 DEF Reread, At, Sound, Handling
  <2>2. ASSUME NEW n \in DOMAIN incidents, incidents[n].alert = a, Answers(q, "duplicate", n)
        PROVE  Goal
    <3>1. n \in 0..Len(incidents') /\ incidents'[n].alert = a
      BY <1>1, <2>1, <2>2 DEF records
    <3> QED BY <1>5, <2>2, <3>1
  <2>3. ASSUME serving[q].try < 2, serving' = [serving EXCEPT ![q].pc = "writing", ![q].try = @ + 1]
        PROVE  Goal
    <3> DEFINE h == [serving[q] EXCEPT !.pc = "writing", !.try = @ + 1]
    <3>1. h \in Handling' /\ h.pc = "writing" /\ h.alert = a
      BY <1>1, <1>3, <2>3 DEF Handling
    <3>2. serving' = [serving EXCEPT ![q] = h]
      BY <2>3
    <3>3. serving' = [serving EXCEPT ![q] = serving'[q]] /\ serving'[q] = h /\ serving'[q] \in Handling'
      <4> HIDE DEF h
      <4> QED BY <1>4, <3>1, <3>2
    <3> HIDE DEF h
    <3> QED BY <2>1, <3>1, <3>3 DEF Sound, Goal
  <2>4. ASSUME ~Reported(a), serving[q].error # "STORAGE_UNAVAILABLE", ServingTo(q, "burying")
        PROVE  Goal
    <3> DEFINE h == [serving[q] EXCEPT !.pc = "burying"]
    <3>1. h \in Handling' /\ h.pc = "burying" /\ h.alert = a
      BY <1>1, <1>3 DEF Handling
    <3>2. serving' = [serving EXCEPT ![q] = h]
      BY <2>4 DEF ServingTo
    <3>3. serving' = [serving EXCEPT ![q] = serving'[q]] /\ serving'[q] = h /\ serving'[q] \in Handling'
      <4> HIDE DEF h
      <4> QED BY <1>4, <3>1, <3>2
    <3>4. Barred(a)
      BY <1>1, <1>16, <2>4 DEF Reread, At, Sound
    <3>5. Barred(a)' /\ ~Reported(a)'
      <4> HIDE DEF h
      <4>1. h.alert = serving'[q].alert
        BY <3>3
      <4> QED BY <2>1, <2>4, <3>4, <3>1, <4>1
             DEF records, Barred, SameIdentity, NewerInStream, SamePosition, Reported
    <3> HIDE DEF h
    <3> QED BY <2>1, <3>1, <3>3, <3>5 DEF Sound, Goal
  <2>5. CASE Answers(q, "unavailable", 0)
    BY <1>11, <2>5 DEF Answers
  <2>6. CASE Reported(a)
    BY <1>16, <2>2, <2>3, <2>5, <2>6 DEF Reread, Again, Reported
  <2>7. CASE ~Reported(a)
    BY <1>16, <2>3, <2>4, <2>5, <2>7 DEF Reread, Again, Reported
  <2> QED BY <2>6, <2>7
<1>17. CASE Write(q)
  <2>1. a.allowed
    BY <1>1, <1>17 DEF Write, At, Sound
  <2>2. ASSUME NEW n \in DOMAIN incidents, Known(a, n), Answers(q, "duplicate", n), records' = records
        PROVE  Goal
    <3>1. incidents[n].alert.at = a.at /\ incidents[n].alert.state = a.state
      BY <2>2 DEF Known, SamePosition, RecordsInv, PositionsAreIncidents
    <3>2. n \in 0..Len(incidents') /\ incidents'[n] = incidents[n]
      BY <1>1, <2>2 DEF records
    <3> QED BY <1>5, <2>2, <3>1, <3>2
  <2>3. ASSUME NEW error \in Errors, Refused(a, error), Fails(q, error), records' = records
        PROVE  Goal
    <3>1. Barred(a)
      BY <2>3 DEF Refused, Barred, SameIdentity, SamePosition
    <3>2. serving'[q].alert = a
      BY <1>1, <2>3 DEF Fails, Handling
    <3>3. Barred(a)'
      BY <2>3, <3>1, <3>2 DEF records, Barred, SameIdentity, NewerInStream, SamePosition
    <3> QED BY <1>7, <2>1, <2>3, <3>3
  <2>4. ASSUME Fresh(a), Insert(a), Answers(q, "accepted", Len(incidents) + 1)
        PROVE  Goal
    <3> DEFINE n == Len(incidents) + 1
    <3>1. a \in Alerts
      BY <1>1, <2>1 DEF NoAlert
    <3>2. n \in 0..Len(incidents') /\ incidents'[n] = [alert |-> a, previous |-> Predecessor(a)]
      BY <1>1, <2>4, <3>1, AppendsInOrder
    <3>3. incidents'[n].alert = a
      BY <3>2
    <3> HIDE DEF n
    <3> QED BY <1>5, <2>4, <3>2, <3>3 DEF Answers, n
  <2>5. ASSUME Fails(q, "STORAGE_UNAVAILABLE")
        PROVE  Goal
    BY <1>7, <2>1, <2>5 DEF Errors, Fails
  <2> QED BY <1>17, <2>2, <2>3, <2>4, <2>5 DEF Write
<1> QED BY <1>10, <1>12, <1>13, <1>14, <1>15, <1>16, <1>17 DEF HandleWebhook

-----------------------------------------------------------------------------
LEMMA RecordsTypes ==
  ASSUME IngestTypeOK, RecordsMoved, HandlersInv
  PROVE  /\ membership' \in BOOLEAN
         /\ incidents' \in Seq([alert : Alerts, previous : States \cup {NoState}])
         /\ observed' \in [at : {0} \cup Times, state : States \cup {NoState}, version : Nat]
         /\ positions' \subseteq [at : Times, state : States, incident : DOMAIN incidents']
<1>1. CASE RecordsStay
  BY <1>1 DEF RecordsStay, records, IngestTypeOK
<1>2. ASSUME NEW q \in Requests, Inserts(q)
      PROVE  /\ membership' \in BOOLEAN
             /\ incidents' \in Seq([alert : Alerts, previous : States \cup {NoState}])
             /\ observed' \in [at : {0} \cup Times, state : States \cup {NoState}, version : Nat]
             /\ positions' \subseteq [at : Times, state : States, incident : DOMAIN incidents']
  <2> DEFINE a == serving[q].alert
             n == Len(incidents) + 1
  <2>1. a \in Alerts /\ Insert(a) /\ a.at \in Times /\ a.state \in States
    BY <1>2, AlertTypes DEF Inserts, At, HandlersInv, Sound, NoAlert, Times, States
  <2>2. /\ incidents' \in Seq(IncidentRows)
        /\ n \in DOMAIN incidents' /\ DOMAIN incidents \subseteq DOMAIN incidents'
    <3>1. /\ incidents' \in Seq(IncidentRows) /\ n \in Nat \ {0} /\ Len(incidents) \in Nat
          /\ DOMAIN incidents' = 1..n /\ DOMAIN incidents = 1..Len(incidents)
      BY <2>1, AppendsInOrder
    <3>2. 1..Len(incidents) \subseteq 1..n /\ n \in 1..n
      BY <3>1
    <3> QED BY <3>1, <3>2
  <2>3. observed' \in [at : {0} \cup Times, state : States \cup {NoState}, version : Nat]
    BY <2>1 DEF Insert, IngestTypeOK
  <2>4. positions' \subseteq [at : Times, state : States, incident : DOMAIN incidents']
    <3>1. [at |-> a.at, state |-> a.state, incident |-> n] \in
            [at : Times, state : States, incident : DOMAIN incidents']
      BY <2>1, <2>2
    <3>2. positions \subseteq [at : Times, state : States, incident : DOMAIN incidents']
      BY <2>2 DEF IngestTypeOK
    <3> QED BY <2>1, <3>1, <3>2 DEF Insert
  <2>5. membership' \in BOOLEAN
    BY <2>1 DEF Insert, IngestTypeOK
  <2> QED BY <2>2, <2>3, <2>4, <2>5 DEF IncidentRows
<1> QED BY <1>1, <1>2 DEF RecordsMoved

LEMMA LettersKept ==
  ASSUME IngestInv, RecordsMoved, NEW b \in Alerts, Barred(b), ~Reported(b)
  PROVE  Barred(b)' /\ ~Reported(b)'
BY BarredStays, BarredIsNotReported DEF IngestInv, RecordsMoved

LEMMA LettersStep ==
  ASSUME IngestInv, [IngestNext]_ingestVars
  PROVE  letters' \subseteq (Alerts \X Refusals) /\ LettersInv'
<1> USE DEF IngestInv
<1>1. RecordsMoved
  BY RecordsMove DEF RecordsMoved
<1>2. ASSUME letters' = letters
      PROVE  letters' \subseteq (Alerts \X Refusals) /\ LettersInv'
  <2>1. \A l \in letters : l[1] \in Alerts
    BY DEF IngestTypeOK
  <2>2. \A l \in letters : Barred(l[1])' /\ ~Reported(l[1])'
    BY <2>1, <1>1, LettersKept DEF LettersInv
  <2> QED BY <1>2, <2>2 DEF IngestTypeOK, LettersInv
<1>3. ASSUME NEW b \in Alerts, NEW c \in Refusals, letters' = letters \cup {<<b, c>>},
             records' = records, Barred(b), ~Reported(b)
      PROVE  letters' \subseteq (Alerts \X Refusals) /\ LettersInv'
  <2>1. \A l \in letters : l[1] \in Alerts
    BY DEF IngestTypeOK
  <2>2. \A l \in letters : Barred(l[1])' /\ ~Reported(l[1])'
    BY <2>1, <1>1, LettersKept DEF LettersInv
  <2>3. Barred(b)' /\ ~Reported(b)'
    BY <1>1, <1>3, LettersKept
  <2>4. <<b, c>>[1] = b
    OBVIOUS
  <2> QED BY <1>3, <2>2, <2>3, <2>4 DEF IngestTypeOK, LettersInv
<1>4. \A q \in Requests : Sound(q) /\ serving[q].alert \in Alerts \cup {NoAlert}
  BY AlertTypes DEF HandlersInv
<1>5. ASSUME NEW q \in Requests, Normalize(q)
      PROVE  letters' \subseteq (Alerts \X Refusals) /\ LettersInv'
  <2> DEFINE a == serving[q].alert
  <2>1. a \in Alerts
    BY <1>4, <1>5 DEF Normalize, At, Sound
  <2>2. CASE ~a.allowed /\ letters' = letters \cup {<<a, "WORKOS_ALLOWLIST_REJECTED">>}
    <3>1. Barred(a) /\ ~Reported(a)
      BY <2>2 DEF Barred, Reported, RecordsInv, IncidentsAreAllowed
    <3>2. "WORKOS_ALLOWLIST_REJECTED" \in Refusals /\ records' = records
      BY <1>5 DEF Normalize, Refusals
    <3> QED BY <1>3, <2>1, <2>2, <3>1, <3>2
  <2> QED BY <1>2, <1>5, <2>2 DEF Normalize
<1>6. ASSUME NEW q \in Requests, Bury(q)
      PROVE  letters' \subseteq (Alerts \X Refusals) /\ LettersInv'
  <2> DEFINE a == serving[q].alert
             code == IF serving[q].error = "EVENT_OUT_OF_ORDER"
                     THEN "EVENT_OUT_OF_ORDER" ELSE "EVENT_STATE_CONFLICT"
  <2>1. a \in Alerts /\ Barred(a) /\ ~Reported(a)
    BY <1>4, <1>6 DEF Bury, At, Sound, NoAlert
  <2>2. CASE letters' = letters \cup {<<a, code>>}
    <3>1. code \in Refusals /\ records' = records
      BY <1>6 DEF Bury, Refusals
    <3> HIDE DEF code
    <3> QED BY <1>3, <2>1, <2>2, <3>1
  <2> QED BY <1>2, <1>6, <2>2 DEF Bury
<1>7. ASSUME NEW q \in Requests, HandleWebhook(q), ~Normalize(q), ~Bury(q)
      PROVE  letters' = letters
  BY <1>7 DEF HandleWebhook, Ping, Write, Reread, Reply, RequestDies
<1>8. ASSUME NEW q \in Requests, NEW a \in Alerts, Arrive(q, a)
      PROVE  letters' = letters
  BY <1>8 DEF Arrive
<1>9. UNCHANGED ingestVars => letters' = letters
  BY DEF ingestVars
<1> QED BY <1>2, <1>5, <1>6, <1>7, <1>8, <1>9 DEF IngestNext

-----------------------------------------------------------------------------
LEMMA HandlersStep ==
  ASSUME IngestInv, [IngestNext]_ingestVars
  PROVE  serving' \in [Requests -> Handling'] /\ HandlersInv'
<1> USE DEF IngestInv
<1>1. RecordsMoved /\ serving \in [Requests -> Handling]
  BY RecordsMove DEF RecordsMoved, IngestTypeOK
<1>2. ASSUME NEW r \in Requests, serving'[r] = serving[r]
      PROVE  serving'[r] \in Handling' /\ Sound(r)'
  BY <1>1, <1>2, RestsSound DEF RecordsMoved
<1>3. ASSUME NEW q \in Requests, HandleWebhook(q) \/ \E a \in Alerts : Arrive(q, a)
      PROVE  serving' \in [Requests -> Handling'] /\ HandlersInv'
  <2>1. /\ serving' = [serving EXCEPT ![q] = serving'[q]]
        /\ serving'[q] \in Handling' /\ Sound(q)'
    BY <1>3, MoverIsSound
  <2>2. \A r \in Requests \ {q} : serving'[r] = serving[r]
    BY <1>1, <2>1
  <2>3. \A r \in Requests : serving'[r] \in Handling' /\ Sound(r)'
    BY <1>2, <2>1, <2>2
  <2>4. serving' = [r \in Requests |-> serving'[r]]
    BY <1>1, <2>1
  <2> QED BY <2>3, <2>4 DEF HandlersInv
<1>4. CASE UNCHANGED ingestVars
  <2>1. serving' = serving
    BY <1>4 DEF ingestVars
  <2>2. \A r \in Requests : serving'[r] \in Handling' /\ Sound(r)'
    BY <1>2, <2>1
  <2>3. serving' = [r \in Requests |-> serving'[r]]
    BY <1>1, <2>1
  <2> QED BY <2>2, <2>3 DEF HandlersInv
<1> QED BY <1>3, <1>4 DEF IngestNext

LEMMA OutagesStep ==
  ASSUME IngestInv, [IngestNext]_ingestVars
  PROVE  outages' \in 0..MaxOutages
<1>1. outages' = outages \/ Outage
  BY DEF IngestNext, HandleWebhook, Arrive, Normalize, Ping, Write, Reread, Bury, Reply,
         RequestDies, ingestVars
<1> QED BY <1>1, AlertIngestAssumption DEF Outage, IngestInv, IngestTypeOK

\* The inductive invariant of ingest.
LEMMA IngestInvHolds == IngestSpec => []IngestInv
<1>1. IngestInit => IngestInv
  <2> SUFFICES ASSUME IngestInit
               PROVE  IngestInv
    OBVIOUS
  <2> USE DEF IngestInit
  <2>1. incidents = <<>> /\ DOMAIN incidents = {} /\ Len(incidents) = 0
    OBVIOUS
  <2>2. Waiting \in Handling
    BY <2>1 DEF Waiting, Handling
  <2>3. IngestTypeOK
    BY <2>1, <2>2, AlertIngestAssumption DEF IngestTypeOK
  <2>4. RecordsInv
    BY <2>1 DEF RecordsInv, ObservedIsLast, PositionsAreIncidents, IncidentsAreAllowed,
                InOrder, PreviousIsTrue
  <2>5. HandlersInv
    BY DEF HandlersInv, Sound, Waiting
  <2>6. LettersInv
    BY DEF LettersInv
  <2> QED BY <2>3, <2>4, <2>5, <2>6 DEF IngestInv
<1>2. IngestInv /\ [IngestNext]_ingestVars => IngestInv'
  <2> SUFFICES ASSUME IngestInv, [IngestNext]_ingestVars
               PROVE  IngestInv'
    OBVIOUS
  <2>1. RecordsMoved
    BY RecordsMove DEF RecordsMoved
  <2>2. IngestTypeOK'
    BY <2>1, RecordsTypes, LettersStep, HandlersStep, OutagesStep DEF IngestTypeOK, IngestInv
  <2>3. RecordsInv'
    <3>1. CASE RecordsStay
      BY <3>1 DEF RecordsStay, records, IngestInv, RecordsInv, ObservedIsLast,
                  PositionsAreIncidents, IncidentsAreAllowed, InOrder, PreviousIsTrue
    <3>2. ASSUME NEW q \in Requests, Inserts(q)
          PROVE  RecordsInv'
      <4>1. serving[q].alert \in Alerts /\ serving[q].alert.allowed
        BY <3>2, AlertTypes DEF Inserts, At, IngestInv, HandlersInv, Sound, NoAlert
      <4> QED BY <3>2, <4>1, InsertKeepsRecords DEF Inserts, IngestInv
    <3> QED BY <2>1, <3>1, <3>2 DEF RecordsMoved
  <2> QED BY <2>2, <2>3, HandlersStep, LettersStep DEF IngestInv
<1> QED BY <1>1, <1>2, PTL DEF IngestSpec

\* The variables of webhook ingest stay in their declared sets.
THEOREM IngestTypes == IngestSpec => []IngestTypeOK
<1>1. IngestInv => IngestTypeOK
  BY DEF IngestInv
<1> QED BY <1>1, IngestInvHolds, PTL

\* Whatever is delivered, late, twice, contradicted or overlapping: the incidents are in
\* order, and each of a membership restores what the one before it reported.
THEOREM HistoryHolds == IngestSpec => []HistoryIsTrue
<1>1. IngestInv => HistoryIsTrue
  <2> SUFFICES ASSUME IngestInv
               PROVE  HistoryIsTrue
    OBVIOUS
  <2>1. \A n \in DOMAIN incidents, l \in letters : l[1] # incidents[n].alert
    BY DEF IngestInv, LettersInv, Reported
  <2> QED BY <2>1 DEF HistoryIsTrue, IngestInv, RecordsInv, InOrder, PreviousIsTrue, HandlersInv, Sound, At
<1> QED BY <1>1, IngestInvHolds, PTL

-----------------------------------------------------------------------------
(* Retention, for any number of sources, records and limits *)

\* How far down the turns of the next sweep a source is.
Place(s) == IF s >= next THEN s - next + 1 ELSE s - next + 1 + SourceCount

\* A source that waits moves up with every sweep that passes it over.
WaitersMoveUp == \A s \in Sources : skipped[s] + Place(s) <= SourceCount

\* A pass that goes on has a batch left.
PassHasRoom == scheduler \in {"starting", "sweeping"} => batches < MaxBatches

RetentionInv == RetentionTypeOK /\ PassHasRoom /\ WaitersMoveUp

-----------------------------------------------------------------------------
\* % on the sums a turn is made of.
LEMMA Modulo ==
  ASSUME NEW x \in 0..(2 * SourceCount - 1)
  PROVE  x % SourceCount = IF x < SourceCount THEN x ELSE x - SourceCount
BY RetentionAssumption, SMT

\* The turns are a walk round the sources that begins at the cursor.
LEMMA TurnIs ==
  ASSUME next \in Sources, NEW k \in Sources
  PROVE  /\ Turn(k) = IF next + k - 1 <= SourceCount THEN next + k - 1
                      ELSE next + k - 1 - SourceCount
         /\ Turn(k) \in Sources
<1>1. SourceCount \in Nat \ {0} /\ next \in 1..SourceCount /\ k \in 1..SourceCount
  BY RetentionAssumption DEF Sources
<1>2. next + k - 2 \in 0..(2 * SourceCount - 1)
  BY <1>1
<1>3. PICK t \in 0..(2 * SourceCount - 1) : t = next + k - 2
  BY <1>2
<1>4. t % SourceCount = IF t < SourceCount THEN t ELSE t - SourceCount
  BY <1>3, Modulo
<1>5. Turn(k) = (t % SourceCount) + 1
  BY <1>3, Zenon DEF Turn
<1> QED BY <1>1, <1>3, <1>4, <1>5 DEF Sources

\* The place of a source is the turn it has.
LEMMA TurnOfPlace ==
  ASSUME next \in Sources, NEW s \in Sources
  PROVE  /\ Place(s) \in Sources /\ Turn(Place(s)) = s
         /\ \A k \in Sources : Turn(k) = s => k = Place(s)
<1>1. SourceCount \in Nat \ {0} /\ next \in 1..SourceCount /\ s \in 1..SourceCount
  BY RetentionAssumption DEF Sources
<1>2. Place(s) \in Sources
  BY <1>1 DEF Place, Sources
<1>3. Turn(Place(s)) = s
  BY <1>1, <1>2, TurnIs DEF Place
<1>4. ASSUME NEW k \in Sources, Turn(k) = s
      PROVE  k = Place(s)
  <2>1. k \in 1..SourceCount
    BY DEF Sources
  <2> QED BY <1>1, <1>4, <2>1, TurnIs DEF Place
<1> QED BY <1>2, <1>3, <1>4

\* The cursor after a sweep, and what it does to the places.
LEMMA PlaceAfter ==
  ASSUME next \in Sources, NEW j \in Sources, next' = After(Turn(j))
  PROVE  /\ next' \in Sources
         /\ \A s \in Sources :
              /\ Place(s)' \in Sources
              /\ j < Place(s) => Place(s)' = Place(s) - j
<1>1. SourceCount \in Nat \ {0} /\ next \in 1..SourceCount /\ j \in 1..SourceCount
  BY RetentionAssumption DEF Sources
<1>2. /\ Turn(j) = IF next + j - 1 <= SourceCount THEN next + j - 1 ELSE next + j - 1 - SourceCount
      /\ Turn(j) \in 1..SourceCount
  BY TurnIs DEF Sources
<1>3. After(Turn(j)) = IF Turn(j) < SourceCount THEN Turn(j) + 1 ELSE 1
  <2>1. Turn(j) % SourceCount = IF Turn(j) < SourceCount THEN Turn(j) ELSE Turn(j) - SourceCount
    <3> DEFINE t == Turn(j)
    <3>1. t \in 0..(2 * SourceCount - 1)
      BY <1>1, <1>2
    <3> HIDE DEF t
    <3>2. t % SourceCount = IF t < SourceCount THEN t ELSE t - SourceCount
      BY <1>1, <3>1, Modulo
    <3> QED BY <3>2 DEF t
  <2> QED BY <1>1, <1>2, <2>1 DEF After
<1>4. next' \in Sources
  BY <1>1, <1>2, <1>3 DEF Sources
<1>5. ASSUME NEW s \in Sources
      PROVE  /\ Place(s)' \in Sources
             /\ j < Place(s) => Place(s)' = Place(s) - j
  <2>1. s \in 1..SourceCount /\ next' \in 1..SourceCount
    BY <1>4 DEF Sources
  <2> HIDE DEF Turn, After
  <2> QED BY <1>1, <1>2, <1>3, <2>1 DEF Place, Sources
<1> QED BY <1>4, <1>5

-----------------------------------------------------------------------------
\* What a sweep takes
LEMMA TakenIs ==
  ASSUME RetentionTypeOK, NEW limit \in Nat \ {0}
  PROVE  /\ Taken(limit) \in [0..SourceCount -> 0..limit]
         /\ Taken(limit)[0] = 0
         /\ \A k \in 1..SourceCount :
              Taken(limit)[k] = Lesser(Taken(limit)[k - 1] + Len(aged[Turn(k)]), limit)
<1> DEFINE Is(f) == f = [k \in 0..SourceCount |->
                           IF k = 0 THEN 0 ELSE Lesser(f[k - 1] + Len(aged[Turn(k)]), limit)]
           step == [p \in (1..SourceCount) \X (0..limit) |->
                      Lesser(p[2] + Len(aged[Turn(p[1])]), limit)]
<1>1. SourceCount \in Nat \ {0}
  BY RetentionAssumption
<1>2. \A k \in 1..SourceCount : Len(aged[Turn(k)]) \in Nat
  BY TurnIs DEF Sources, RetentionTypeOK
<1>3. step \in [(1..SourceCount) \X (0..limit) -> 0..limit]
  <2> SUFFICES ASSUME NEW p \in (1..SourceCount) \X (0..limit)
               PROVE  Lesser(p[2] + Len(aged[Turn(p[1])]), limit) \in 0..limit
    OBVIOUS
  <2>1. p[1] \in 1..SourceCount /\ p[2] \in 0..limit
    OBVIOUS
  <2> QED BY <1>2, <2>1 DEF Lesser
<1>4. PICK f \in [0..SourceCount -> 0..limit] :
        f[0] = 0 /\ \A k \in 1..SourceCount : f[k] = step[<<k, f[k - 1]>>]
  <2>1. 0 \in Nat /\ SourceCount \in Nat /\ 0 \in 0..limit /\ 0 <= SourceCount
    BY <1>1
  <2>2. step \in Steps(0, SourceCount, 0..limit)
    <3>1. 0 + 1 = 1
      OBVIOUS
    <3> QED BY <1>3, <3>1 DEF Steps
  <2> HIDE DEF step
  <2>3. \E f \in [0..SourceCount -> 0..limit] : Follows(f, 0, SourceCount, 0, step)
    BY <2>1, <2>2, RecursionExists, Zenon
  <2>4. 0 + 1 = 1
    OBVIOUS
  <2> QED BY <2>3, <2>4, Zenon DEF Follows
<1>5. \A k \in 1..SourceCount : f[k] = Lesser(f[k - 1] + Len(aged[Turn(k)]), limit)
  <2> SUFFICES ASSUME NEW k \in 1..SourceCount
               PROVE  f[k] = Lesser(f[k - 1] + Len(aged[Turn(k)]), limit)
    OBVIOUS
  <2>1. k \in 1..SourceCount /\ k - 1 \in 0..SourceCount
    BY <1>1
  <2>2. <<k, f[k - 1]>> \in (1..SourceCount) \X (0..limit)
    BY <2>1
  <2> QED BY <1>4, <2>1, <2>2
<1>6. Is(f)
  <2>1. \A k \in 0..SourceCount : k # 0 => k \in 1..SourceCount
    BY <1>1
  <2>2. \A k \in 0..SourceCount :
          f[k] = IF k = 0 THEN 0 ELSE Lesser(f[k - 1] + Len(aged[Turn(k)]), limit)
    BY <1>4, <1>5, <2>1
  <2> QED BY <2>2
<1>7. Taken(limit) = CHOOSE g : Is(g)
  BY DEF Taken
<1>8. Is(Taken(limit))
  <2> HIDE DEF Is
  <2> QED BY <1>6, <1>7
<1> DEFINE T == Taken(limit)
           InRange == {k \in 0..SourceCount : T[k] \in 0..limit}
<1>9. /\ T[0] = 0
      /\ \A k \in 1..SourceCount : T[k] = Lesser(T[k - 1] + Len(aged[Turn(k)]), limit)
  <2> HIDE DEF T
  <2>1. Is(T)
    BY <1>8 DEF T
  <2>2. \A k \in 0..SourceCount :
          T[k] = IF k = 0 THEN 0 ELSE Lesser(T[k - 1] + Len(aged[Turn(k)]), limit)
    BY <2>1
  <2>3. 0 \in 0..SourceCount /\ \A k \in 1..SourceCount : k \in 0..SourceCount /\ k # 0
    BY <1>1
  <2> QED BY <2>1, <2>2, <2>3
<1>14. T = [k \in 0..SourceCount |-> T[k]]
  <2>1. Is(T)
    BY <1>8
  <2> HIDE DEF T
  <2> QED BY <2>1
<1> HIDE DEF T
<1>10. 0 \in InRange
  <2>1. 0 \in 0..SourceCount /\ 0 \in 0..limit
    BY <1>1
  <2> QED BY <2>1, <1>9
<1>11. \A k \in (0 + 1)..SourceCount : k - 1 \in InRange => k \in InRange
  <2> SUFFICES ASSUME NEW k \in (0 + 1)..SourceCount, T[k - 1] \in 0..limit
               PROVE  k \in 0..SourceCount /\ T[k] \in 0..limit
    OBVIOUS
  <2>1. k \in 1..SourceCount /\ k \in 0..SourceCount
    BY <1>1
  <2>2. Len(aged[Turn(k)]) \in Nat /\ T[k] = Lesser(T[k - 1] + Len(aged[Turn(k)]), limit)
    BY <1>2, <1>9, <2>1
  <2>3. T[k] \in 0..limit
    BY <2>2 DEF Lesser
  <2> QED BY <2>1, <2>3
<1>12. \A k \in 0..SourceCount : k \in InRange
  <2> HIDE DEF InRange
  <2> QED BY <1>1, <1>10, <1>11, IntervalInduction
<1>13. T \in [0..SourceCount -> 0..limit]
  BY <1>12, <1>14
<1> QED BY <1>9, <1>13 DEF T

\* A sweep takes more with every turn, or no more.
LEMMA TakenGrows ==
  ASSUME RetentionTypeOK, NEW limit \in Nat \ {0}, NEW i \in 0..SourceCount
  PROVE  \A j \in 0..SourceCount : i <= j => Taken(limit)[i] <= Taken(limit)[j]
<1> DEFINE T == Taken(limit)
           NotLess == {j \in i..SourceCount : T[i] <= T[j]}
<1>1. SourceCount \in Nat \ {0}
  BY RetentionAssumption
<1>2. /\ T \in [0..SourceCount -> 0..limit]
      /\ \A k \in 1..SourceCount : T[k] = Lesser(T[k - 1] + Len(aged[Turn(k)]), limit)
  BY TakenIs
<1>3. \A k \in 1..SourceCount : Len(aged[Turn(k)]) \in Nat
  BY TurnIs DEF Sources, RetentionTypeOK
<1> HIDE DEF T
<1>4. i \in NotLess
  BY <1>2
<1>5. \A k \in (i + 1)..SourceCount : k - 1 \in NotLess => k \in NotLess
  <2> SUFFICES ASSUME NEW k \in (i + 1)..SourceCount, T[i] <= T[k - 1]
               PROVE  k \in i..SourceCount /\ T[i] <= T[k]
    OBVIOUS
  <2>1. k \in 1..SourceCount /\ k \in i..SourceCount /\ k - 1 \in 0..SourceCount
    BY <1>1
  <2>2. T[k - 1] \in 0..limit /\ T[i] \in 0..limit
    BY <1>2, <2>1
  <2> QED BY <1>2, <1>3, <2>1, <2>2 DEF Lesser
<1>6. \A j \in i..SourceCount : j \in NotLess
  <2> HIDE DEF NotLess
  <2> QED BY <1>1, <1>4, <1>5, IntervalInduction
<1>7. \A j \in 0..SourceCount : i <= j => j \in i..SourceCount
  OBVIOUS
<1> QED BY <1>6, <1>7 DEF T

\* Who is served last: a sweep that takes something ends there.
LEMMA LastTurn ==
  ASSUME RetentionTypeOK, NEW limit \in Nat \ {0}, Scanned(limit) # 0
  PROVE  \E j \in Sources :
           /\ LastServed(limit) = Turn(j)
           /\ Taken(limit)[j] = Scanned(limit) /\ Taken(limit)[j - 1] < Scanned(limit)
<1> DEFINE T == Taken(limit)
           Full == {k \in 1..SourceCount : T[k] = T[SourceCount]}
           Ends(k) == T[k] = Scanned(limit) /\ T[k - 1] < Scanned(limit)
<1>1. SourceCount \in Nat \ {0} /\ Sources = 1..SourceCount
  BY RetentionAssumption DEF Sources
<1>2. T \in [0..SourceCount -> 0..limit] /\ T[0] = 0 /\ Scanned(limit) = T[SourceCount]
  BY TakenIs DEF Scanned
<1>3. \A i, j \in 0..SourceCount : i <= j => T[i] <= T[j]
  BY TakenGrows
<1> HIDE DEF T
<1>4. PICK k \in Full : \A n \in Full : k <= n
  <2>1. SourceCount \in Full /\ Full \subseteq Nat
    BY <1>1
  <2> HIDE DEF Full
  <2> QED BY <2>1, LeastElement
<1>5. k - 1 \in 0..SourceCount /\ k - 1 \notin Full
  <2>1. k \in 1..SourceCount
    BY <1>4
  <2>2. k - 1 \in 0..SourceCount /\ ~(k <= k - 1)
    BY <1>1, <2>1
  <2> HIDE DEF Full
  <2> QED BY <1>4, <2>2
<1>6. k \in Sources /\ Ends(k)
  <2>1. T[k - 1] # T[SourceCount]
    BY <1>1, <1>2, <1>4, <1>5
  <2>2. T[k - 1] <= T[SourceCount] /\ T[k - 1] \in 0..limit /\ T[SourceCount] \in 0..limit
    BY <1>1, <1>2, <1>3, <1>5
  <2> QED BY <1>1, <1>2, <1>4, <2>1, <2>2
<1> DEFINE j == CHOOSE n \in Sources : Ends(n)
<1>7. j \in Sources /\ Ends(j)
  <2> HIDE DEF Ends
  <2> QED BY <1>6
<1>8. LastServed(limit) = Turn(j)
  BY DEF LastServed, T
<1> HIDE DEF j
<1> QED BY <1>7, <1>8 DEF T

\* A source with aged records that a sweep takes nothing of had its turn after the last
\* one served.
LEMMA PassedOverIsLater ==
  ASSUME RetentionTypeOK, NEW limit \in Nat \ {0}, NEW s \in Sources,
         aged[s] # <<>>, ~(TakenOf(s, limit) > 0)
  PROVE  \E j \in Sources : LastServed(limit) = Turn(j) /\ Scanned(limit) # 0 /\ j < Place(s)
<1> DEFINE T == Taken(limit)
           k == Place(s)
<1>1. SourceCount \in Nat \ {0} /\ Sources = 1..SourceCount
  BY RetentionAssumption DEF Sources
<1>2. k \in Sources /\ Turn(k) = s /\ \A n \in Sources : Turn(n) = s => n = k
  BY TurnOfPlace DEF RetentionTypeOK
<1> HIDE DEF k
<1>3. TakenOf(s, limit) = T[k] - T[k - 1]
  <2>1. (CHOOSE n \in Sources : Turn(n) = s) = k
    BY <1>2
  <2> QED BY <2>1 DEF TakenOf
<1>4. /\ T \in [0..SourceCount -> 0..limit] /\ Scanned(limit) = T[SourceCount]
      /\ T[k] = Lesser(T[k - 1] + Len(aged[s]), limit)
  BY <1>1, <1>2, TakenIs DEF Scanned
<1>5. \A i, j \in 0..SourceCount : i <= j => T[i] <= T[j]
  BY TakenGrows
<1>6. Len(aged[s]) \in Nat \ {0}
  <2>1. aged[s] \in Seq(Records)
    BY DEF RetentionTypeOK
  <2> QED BY <2>1
<1> HIDE DEF T
<1>7. k \in 0..SourceCount /\ k - 1 \in 0..SourceCount
  BY <1>1, <1>2
<1>8. T[k] \in 0..limit /\ T[k - 1] \in 0..limit
  BY <1>4, <1>7
<1>9. T[k - 1] = limit
  BY <1>3, <1>4, <1>6, <1>8 DEF Lesser
<1>10. Scanned(limit) = limit /\ limit # 0
  BY <1>1, <1>4, <1>5, <1>7, <1>9
<1>11. PICK j \in Sources : /\ LastServed(limit) = Turn(j)
                            /\ T[j] = Scanned(limit) /\ T[j - 1] < Scanned(limit)
  BY <1>10, LastTurn DEF T
<1>12. j < k
  <2>1. j - 1 \in 0..SourceCount /\ j \in 1..SourceCount /\ k \in 1..SourceCount
    BY <1>1, <1>2
  <2>2. ~(k - 1 <= j - 1)
    BY <1>4, <1>5, <1>7, <1>9, <1>10, <1>11, <2>1
  <2> QED BY <2>1, <2>2
<1> QED BY <1>10, <1>11, <1>12 DEF k

\* A sweep leaves the cursor after a turn, and those with aged records that it passed over
\* come later than that turn.
LEMMA SweptMovesOn ==
  ASSUME RetentionTypeOK, NEW limit \in Nat \ {0}, Swept(limit)
  PROVE  \E j \in Sources :
           /\ next' = After(Turn(j))
           /\ \A s \in Sources : aged[s] # <<>> /\ ~(TakenOf(s, limit) > 0) => j < Place(s)
<1> DEFINE PassedOver(s) == aged[s] # <<>> /\ ~(TakenOf(s, limit) > 0)
<1>1. next' = IF Scanned(limit) = 0 THEN After(next) ELSE After(LastServed(limit))
  BY DEF Swept
<1>2. SourceCount \in Nat \ {0} /\ Sources = 1..SourceCount /\ next \in Sources
  BY RetentionAssumption DEF Sources, RetentionTypeOK
<1>3. CASE Scanned(limit) = 0
  <2>1. 1 \in Sources /\ Turn(1) = next
    <3>1. 1 \in Sources /\ next \in 1..SourceCount
      BY <1>2
    <3> QED BY <1>2, <3>1, TurnIs
  <2>2. \A s \in Sources : ~PassedOver(s)
    BY <1>3, PassedOverIsLater
  <2> HIDE DEF PassedOver
  <2>3. next' = After(Turn(1))
    BY <1>1, <1>3, <2>1
  <2> QED BY <2>1, <2>2, <2>3 DEF PassedOver
<1>4. CASE Scanned(limit) # 0
  <2>1. PICK j \in Sources : LastServed(limit) = Turn(j)
    BY <1>4, LastTurn
  <2>2. next' = After(Turn(j))
    BY <1>1, <1>4, <2>1
  <2>3. ASSUME NEW s \in Sources, PassedOver(s)
        PROVE  j < Place(s)
    <3>1. PICK i \in Sources : LastServed(limit) = Turn(i) /\ i < Place(s)
      BY <2>3, PassedOverIsLater
    <3>2. Turn(i) \in Sources /\ i = Place(Turn(i)) /\ j = Place(Turn(j))
      BY <1>2, <2>1, <3>1, TurnIs, TurnOfPlace
    <3> QED BY <2>1, <3>1, <3>2
  <2> QED BY <2>1, <2>2, <2>3
<1> QED BY <1>3, <1>4

\* The variables a sweep changes stay in their sets.
LEMMA SweptTypes ==
  ASSUME RetentionTypeOK, NEW limit \in Nat \ {0}, Swept(limit)
  PROVE  /\ young' \subseteq Records
         /\ aged' \in [Sources -> Seq(Records)]
         /\ skipped' \in [Sources -> Nat]
         /\ next' \in Sources
<1>1. SourceCount \in Nat \ {0} /\ Sources = 1..SourceCount
  BY RetentionAssumption DEF Sources
<1>2. young' \subseteq Records
  BY DEF Swept, RetentionTypeOK
<1>3. aged' \in [Sources -> Seq(Records)]
  <2> SUFFICES ASSUME NEW s \in Sources
               PROVE  SubSeq(aged[s], TakenOf(s, limit) + 1, Len(aged[s])) \in Seq(Records)
    BY DEF Swept
  <2>1. aged[s] \in Seq(Records)
    BY DEF RetentionTypeOK
  <2>2. TakenOf(s, limit) \in Nat
    <3> DEFINE k == Place(s)
    <3>1. k \in 1..SourceCount /\ Turn(k) = s /\ \A n \in Sources : Turn(n) = s => n = k
      BY <1>1, TurnOfPlace DEF RetentionTypeOK
    <3> HIDE DEF k
    <3>2. (CHOOSE n \in Sources : Turn(n) = s) = k
      BY <1>1, <3>1
    <3>3. k \in 0..SourceCount /\ k - 1 \in 0..SourceCount /\ k - 1 <= k
      BY <1>1, <3>1
    <3> DEFINE T == Taken(limit)
    <3>4. \A i, j \in 0..SourceCount : i <= j => T[i] <= T[j]
      BY TakenGrows
    <3>5. T \in [0..SourceCount -> 0..limit]
      BY TakenIs
    <3>6. TakenOf(s, limit) = T[k] - T[k - 1]
      BY <3>2 DEF TakenOf
    <3> HIDE DEF T
    <3> QED BY <3>3, <3>4, <3>5, <3>6
  <2> QED BY <2>1, <2>2
<1>4. skipped' \in [Sources -> Nat]
  BY DEF Swept, RetentionTypeOK
<1>5. next' \in Sources
  <2>1. \E j \in Sources : next' = After(Turn(j))
    BY SweptMovesOn
  <2> QED BY <2>1, PlaceAfter DEF RetentionTypeOK
<1> QED BY <1>2, <1>3, <1>4, <1>5

\* A sweep keeps the waiting sources moving up.
LEMMA SweptMovesUp ==
  ASSUME RetentionInv, NEW limit \in Nat \ {0}, Swept(limit)
  PROVE  WaitersMoveUp'
<1> USE DEF RetentionInv
<1>1. SourceCount \in Nat \ {0} /\ Sources = 1..SourceCount /\ next \in Sources
  BY RetentionAssumption DEF Sources, RetentionTypeOK
<1>2. PICK j \in Sources :
        /\ next' = After(Turn(j))
        /\ \A s \in Sources : aged[s] # <<>> /\ ~(TakenOf(s, limit) > 0) => j < Place(s)
  BY SweptMovesOn
<1>3. \A s \in Sources : /\ Place(s)' \in Sources
                         /\ j < Place(s) => Place(s)' = Place(s) - j
  BY <1>1, <1>2, PlaceAfter
<1> SUFFICES ASSUME NEW s \in Sources
             PROVE  skipped'[s] + Place(s)' <= SourceCount
  BY DEF WaitersMoveUp
<1>4. Place(s)' \in 1..SourceCount
  BY <1>1, <1>3
<1>5. skipped'[s] = IF aged[s] = <<>> \/ TakenOf(s, limit) > 0 THEN 0 ELSE skipped[s] + 1
  BY DEF Swept
<1>6. CASE aged[s] = <<>> \/ TakenOf(s, limit) > 0
  BY <1>1, <1>4, <1>5, <1>6
<1>7. CASE ~(aged[s] = <<>> \/ TakenOf(s, limit) > 0)
  <2>1. skipped'[s] = skipped[s] + 1 /\ j < Place(s) /\ Place(s)' = Place(s) - j
    BY <1>2, <1>3, <1>5, <1>7
  <2>2. skipped[s] \in Nat /\ skipped[s] + Place(s) <= SourceCount
    BY DEF RetentionTypeOK, WaitersMoveUp
  <2>3. Place(s) \in Nat /\ j \in Nat \ {0}
    BY <1>1, TurnOfPlace
  <2> QED BY <1>1, <2>1, <2>2, <2>3
<1> QED BY <1>6, <1>7

-----------------------------------------------------------------------------
LEMMA RetentionInitial == RetentionInit => RetentionInv
<1> SUFFICES ASSUME RetentionInit
             PROVE  RetentionInv
  OBVIOUS
<1>1. SourceCount \in Nat \ {0} /\ Sources = 1..SourceCount
  BY RetentionAssumption DEF Sources
<1>2. RetentionTypeOK /\ PassHasRoom
  BY <1>1, RetentionAssumption DEF RetentionInit, RetentionTypeOK, PassHasRoom
<1>3. WaitersMoveUp
  <2> SUFFICES ASSUME NEW s \in Sources
               PROVE  skipped[s] + Place(s) <= SourceCount
    BY DEF WaitersMoveUp
  <2>1. next = 1 /\ skipped[s] = 0 /\ s \in 1..SourceCount
    BY <1>1 DEF RetentionInit
  <2> QED BY <1>1, <2>1 DEF Place
<1> QED BY <1>2, <1>3 DEF RetentionInv

\* No step breaks the invariant.
LEMMA RetentionStep == RetentionInv /\ [RetentionNext]_retentionVars => RetentionInv'
<1> SUFFICES ASSUME RetentionInv, [RetentionNext]_retentionVars
             PROVE  RetentionInv'
  OBVIOUS
<1> USE DEF RetentionInv
<1>1. SourceCount \in Nat \ {0} /\ SweepLimit \in Nat \ {0} /\ CommandLimit \in Nat
      /\ MaxBatches \in Nat \ {0} /\ MaxFailures \in Nat
      /\ \A r \in Records : r.source \in Sources
  BY RetentionAssumption
<1>2. next' = next /\ skipped' = skipped => WaitersMoveUp'
  BY DEF WaitersMoveUp, Place
<1>3. CASE Boot
  BY <1>1, <1>2, <1>3 DEF Boot, RetentionTypeOK, PassHasRoom
<1>4. CASE SchedulerSweeps
  <2>1. Swept(SweepLimit)
    BY <1>4 DEF SchedulerSweeps
  <2>2. WaitersMoveUp'
    BY <1>1, <2>1, SweptMovesUp
  <2>3. batches' \in 0..MaxBatches /\ PassHasRoom'
    BY <1>1, <1>4 DEF SchedulerSweeps, RetentionTypeOK, PassHasRoom
  <2>4. /\ scheduler' \in {"off", "starting", "sweeping", "again", "resting"}
        /\ failures' \in 0..MaxFailures
    BY <1>4 DEF SchedulerSweeps, RetentionTypeOK, PassHasRoom
  <2> QED BY <1>1, <2>1, <2>2, <2>3, <2>4, SweptTypes DEF RetentionTypeOK, PassHasRoom
<1>5. CASE SweepFails
  BY <1>1, <1>2, <1>5 DEF SweepFails, RetentionTypeOK, PassHasRoom
<1>6. CASE TimerFires
  BY <1>1, <1>2, <1>6 DEF TimerFires, RetentionTypeOK, PassHasRoom
<1>7. CASE SchedulerStops
  BY <1>1, <1>2, <1>7 DEF SchedulerStops, RetentionTypeOK, PassHasRoom
<1>8. CASE CommandSweeps
  <2>1. PICK limit \in 1..CommandLimit : Swept(limit)
    BY <1>8 DEF CommandSweeps
  <2>2. limit \in Nat \ {0}
    BY <1>1, <2>1
  <2>3. WaitersMoveUp'
    BY <2>1, <2>2, SweptMovesUp
  <2>4. UNCHANGED <<scheduler, batches, failures>>
    BY <1>8 DEF CommandSweeps
  <2> QED BY <2>1, <2>2, <2>3, <2>4, SweptTypes DEF RetentionTypeOK, PassHasRoom
<1>9. CASE \E r \in Records : Ages(r)
  <2>1. PICK r \in Records : Ages(r)
    BY <1>9
  <2>2. aged[r.source] \in Seq(Records)
    BY <1>1 DEF RetentionTypeOK, PassHasRoom
  <2>3. Append(aged[r.source], r) \in Seq(Records)
    BY <2>2
  <2>4. aged' \in [Sources -> Seq(Records)] /\ young' \subseteq Records
    BY <1>1, <2>1, <2>3 DEF Ages, RetentionTypeOK, PassHasRoom
  <2> QED BY <1>2, <2>1, <2>4 DEF Ages, RetentionTypeOK, PassHasRoom
<1>10. CASE UNCHANGED retentionVars
  BY <1>2, <1>10 DEF retentionVars, RetentionTypeOK, PassHasRoom
<1> QED
  BY <1>3, <1>4, <1>5, <1>6, <1>7, <1>8, <1>9, <1>10 DEF RetentionNext

\* The inductive invariant of retention.
LEMMA RetentionInvHolds == RetentionSpec => []RetentionInv
BY RetentionInitial, RetentionStep, PTL DEF RetentionSpec

\* The variables of retention stay in their declared sets.
THEOREM RetentionTypes == RetentionSpec => []RetentionTypeOK
<1>1. RetentionInv => RetentionTypeOK
  BY DEF RetentionInv
<1> QED BY <1>1, RetentionInvHolds, PTL

\* However many sources and records, and whatever the limits: no source starves.
THEOREM TurnsHold == RetentionSpec => []TurnsComeRound
<1>1. RetentionInv => TurnsComeRound
  <2> SUFFICES ASSUME RetentionInv, NEW s \in Sources
               PROVE  skipped[s] < SourceCount
    BY DEF TurnsComeRound
  <2>1. Place(s) \in 1..SourceCount
    BY TurnOfPlace DEF RetentionInv, RetentionTypeOK, Sources
  <2>2. skipped[s] \in Nat /\ skipped[s] + Place(s) <= SourceCount
    BY DEF RetentionInv, RetentionTypeOK, WaitersMoveUp
  <2> QED BY <2>1, <2>2, RetentionAssumption
<1> QED BY <1>1, RetentionInvHolds, PTL

-----------------------------------------------------------------------------
(* The analytics read model, for any reports, pages and files *)

\* What a file holds that was filled with the first n entries of the journal.
PrefixOf(n) == [last |-> n, facts |-> {m \in 1..n : journal[m] = "fact"},
                withheld |-> {m \in 1..n : journal[m] = "withheld"}]
Prefixes == {PrefixOf(n) : n \in 0..Len(journal)}

FilesArePrefixes == \A i \in Inodes : file[i] \in Prefixes

\* What a report exported is in the journal.
PagesAreJournalled ==
  \A p \in Reports : report[p].from <= report[p].upto /\ report[p].upto <= Len(journal)

AnalyticsInv == AnalyticsTypeOK /\ FilesArePrefixes /\ PagesAreJournalled

-----------------------------------------------------------------------------
\* What the model says of the journal and of the numbers it bounds.
LEMMA JournalTypes ==
  ASSUME AnalyticsTypeOK
  PROVE  /\ MaxJournal \in Nat
         /\ Len(journal) \in 0..MaxJournal
         /\ \A n \in 1..Len(journal) : journal[n] \in {"fact", "withheld"}
BY AnalyticsAssumption DEF AnalyticsTypeOK

\* A prefix is contents of a file, and no refused batch.
LEMMA PrefixTypes ==
  ASSUME AnalyticsTypeOK, NEW content \in Prefixes
  PROVE  /\ content \in [last : 0..MaxJournal, facts : SUBSET (1..MaxJournal),
                         withheld : SUBSET (1..MaxJournal)]
         /\ content # RefusedBatch
<1>1. PICK n \in 0..Len(journal) : content = PrefixOf(n)
  BY DEF Prefixes
<1>2. n \in 0..MaxJournal /\ 1..n \subseteq 1..MaxJournal /\ n # MaxJournal + 1
  BY <1>1, JournalTypes
<1>3. content.last = n /\ RefusedBatch.last = MaxJournal + 1
  BY <1>1 DEF PrefixOf, RefusedBatch, NoRows
<1> QED BY <1>1, <1>2, <1>3 DEF PrefixOf

\* The rows of an empty file are those of the empty prefix.
LEMMA NoRowsIsPrefix ==
  ASSUME AnalyticsTypeOK
  PROVE  NoRows \in Prefixes
<1>1. 0 \in 0..Len(journal)
  BY JournalTypes
<1>2. 1..0 = {}
  OBVIOUS
<1>3. NoRows = PrefixOf(0)
  BY <1>2 DEF NoRows, PrefixOf
<1> QED BY <1>1, <1>3 DEF Prefixes

\* One record of a batch, as Ingested goes on from it.
Applied(content, n) ==
  IF content = RefusedBatch \/ n \in content.facts \cup content.withheld THEN content
  ELSE IF ~NextInLine(content, n) THEN RefusedBatch
  ELSE IF journal[n] = "fact"
       THEN [content EXCEPT !.last = n, !.facts = @ \cup {n}]
       ELSE [content EXCEPT !.last = n, !.withheld = @ \cup {n}]

\* It is known, refused, or the next entry of the journal.
LEMMA AppliedIsPrefix ==
  ASSUME AnalyticsTypeOK, NEW content \in Prefixes \cup {RefusedBatch}, NEW n \in 1..Len(journal)
  PROVE  Applied(content, n) \in Prefixes \cup {RefusedBatch}
<1>1. CASE content = RefusedBatch
  BY <1>1 DEF Applied
<1>2. CASE content \in Prefixes
  <2>1. PICK m \in 0..Len(journal) : content = PrefixOf(m)
    BY <1>2 DEF Prefixes
  <2>2. Len(journal) \in Nat /\ journal[n] \in {"fact", "withheld"}
    BY JournalTypes
  <2>3. CASE n # m + 1
    <3>1. ~NextInLine(content, n)
      BY <2>1, <2>3 DEF NextInLine, PrefixOf
    <3> QED BY <1>2, <3>1 DEF Applied
  <2>4. CASE n = m + 1
    <3>1. n \notin content.facts \cup content.withheld /\ NextInLine(content, n)
      BY <2>1, <2>2, <2>4 DEF NextInLine, PrefixOf
    <3>2. content # RefusedBatch
      BY <1>2, PrefixTypes
    <3>3. /\ m \in 0..Len(journal) /\ n \in 0..Len(journal)
          /\ \A k : k \in 1..n <=> k \in 1..m \/ k = n
      BY <2>1, <2>2, <2>4
    <3>4. CASE journal[n] = "fact"
      <4>1. Applied(content, n) = [content EXCEPT !.last = n, !.facts = @ \cup {n}]
        BY <3>1, <3>2, <3>4 DEF Applied
      <4>2. Applied(content, n) = [last |-> n, facts |-> content.facts \cup {n},
                                   withheld |-> content.withheld]
        BY <2>1, <4>1 DEF PrefixOf
      <4>3. content.facts \cup {n} = {k \in 1..n : journal[k] = "fact"}
        BY <2>1, <3>3, <3>4 DEF PrefixOf
      <4>4. content.withheld = {k \in 1..n : journal[k] = "withheld"}
        BY <2>1, <3>3, <3>4 DEF PrefixOf
      <4> QED BY <3>3, <4>2, <4>3, <4>4 DEF PrefixOf, Prefixes
    <3>5. CASE journal[n] = "withheld"
      <4>1. Applied(content, n) = [content EXCEPT !.last = n, !.withheld = @ \cup {n}]
        BY <3>1, <3>2, <3>5 DEF Applied
      <4>2. Applied(content, n) = [last |-> n, facts |-> content.facts,
                                   withheld |-> content.withheld \cup {n}]
        BY <2>1, <4>1 DEF PrefixOf
      <4>3. content.withheld \cup {n} = {k \in 1..n : journal[k] = "withheld"}
        BY <2>1, <3>3, <3>5 DEF PrefixOf
      <4>4. content.facts = {k \in 1..n : journal[k] = "fact"}
        BY <2>1, <3>3, <3>5 DEF PrefixOf
      <4> QED BY <3>3, <4>2, <4>3, <4>4 DEF PrefixOf, Prefixes
    <3> QED BY <2>2, <3>4, <3>5
  <2> QED BY <2>3, <2>4
<1> QED BY <1>1, <1>2

\* A batch leaves a prefix of the journal in a file that held one, wherever it begins.
LEMMA IngestedIsPrefix ==
  ASSUME AnalyticsTypeOK, NEW content \in Prefixes,
         NEW from \in Nat, NEW upto \in Nat, from <= upto, upto <= Len(journal)
  PROVE  Ingested(content, from, upto) \in Prefixes \cup {RefusedBatch}
<1> DEFINE Contents == Prefixes \cup {RefusedBatch}
           Is(f) == f = [n \in from..upto |->
                           IF n = from THEN content ELSE Applied(f[n - 1], n)]
           step == [s \in ((from + 1)..upto) \X Contents |-> Applied(s[2], s[1])]
<1>1. \A n \in (from + 1)..upto : n \in 1..Len(journal) /\ n \in from..upto /\ n - 1 \in from..upto
  BY JournalTypes
<1>2. step \in Steps(from, upto, Contents)
  <2> SUFFICES ASSUME NEW n \in (from + 1)..upto, NEW c \in Contents
               PROVE  Applied(c, n) \in Contents
    BY DEF Steps
  <2> QED BY <1>1, AppliedIsPrefix
<1>3. content \in Contents
  OBVIOUS
<1>4. PICK f \in [from..upto -> Contents] : Follows(f, from, upto, content, step)
  <2> HIDE DEF Contents, step
  <2> QED BY <1>2, <1>3, RecursionExists
<1>5. \A n \in from..upto : f[n] = IF n = from THEN content ELSE Applied(f[n - 1], n)
  <2> SUFFICES ASSUME NEW n \in from..upto, n # from
               PROVE  f[n] = Applied(f[n - 1], n)
    BY <1>4 DEF Follows
  <2>1. n \in (from + 1)..upto
    OBVIOUS
  <2>2. f[n - 1] \in Contents
    BY <1>1, <1>4, <2>1
  <2>3. f[n] = step[<<n, f[n - 1]>>]
    BY <1>4, <2>1 DEF Follows
  <2> HIDE DEF Contents
  <2> QED BY <2>1, <2>2, <2>3
<1>6. Is(f)
  BY <1>4, <1>5
<1>7. Ingested(content, from, upto) = (CHOOSE f_1 : Is(f_1))[upto]
  BY Zenon DEF Ingested, Applied
<1> DEFINE U == CHOOSE f_1 : Is(f_1)
<1>8. Is(U)
  <2> HIDE DEF Is
  <2> QED BY <1>6
<1> HIDE DEF U
<1>9. /\ U[from] = content
      /\ \A n \in (from + 1)..upto : U[n] = Applied(U[n - 1], n)
  <2>1. \A n \in from..upto : U[n] = IF n = from THEN content ELSE Applied(U[n - 1], n)
    BY <1>8
  <2>2. from \in from..upto /\ \A n \in (from + 1)..upto : n \in from..upto /\ n # from
    OBVIOUS
  <2> QED BY <2>1, <2>2
<1> DEFINE Held == {n \in from..upto : U[n] \in Contents}
<1>10. from \in Held
  BY <1>9
<1>11. \A n \in (from + 1)..upto : n - 1 \in Held => n \in Held
  <2> SUFFICES ASSUME NEW n \in (from + 1)..upto, U[n - 1] \in Contents
               PROVE  n \in from..upto /\ U[n] \in Contents
    OBVIOUS
  <2> QED BY <1>1, <1>9, AppliedIsPrefix
<1>12. \A n \in from..upto : n \in Held
  <2> HIDE DEF Held
  <2> QED BY <1>10, <1>11, IntervalInduction
<1> QED BY <1>7, <1>12 DEF U

-----------------------------------------------------------------------------
Stage == {"free", "ingesting", "closing", "replacing", "filling", "releasing", "renaming",
          "discarding"}
ReportState == [pc : Stage, from : 0..MaxJournal, upto : 0..MaxJournal, open : {0} \cup Inodes]
PageIsJournalled(r) == r.from <= r.upto /\ r.upto <= Len(journal)

\* There always is an inode to create a file with.
LEMMA NewInodeIsFree ==
  ASSUME AnalyticsTypeOK
  PROVE  NewInode \in Inodes
<1> DEFINE held == [p \in Reports |-> report[p].open]
           named == [n \in {"path", "temp"} |-> IF n = "path" THEN path ELSE temp]
<1>1. held \in [Reports -> {0} \cup Inodes] /\ named \in [{"path", "temp"} -> {0} \cup Inodes]
  BY DEF AnalyticsTypeOK
<1>2. PICK i \in Inodes : /\ \A p \in Reports : held[p] # i
                          /\ \A n \in {"path", "temp"} : named[n] # i
  <2> HIDE DEF held, named
  <2> QED BY <1>1, AnalyticsAssumption
<1>3. i # path /\ i # temp /\ \A p \in Reports : report[p].open # i
  BY <1>2
<1> QED BY <1>3 DEF NewInode

\* What a batch leaves in a file.
LEMMA StoredIsPrefix ==
  ASSUME AnalyticsInv, NEW p \in Reports, NEW i \in Inodes
  PROVE  Stored(p, i) \in Prefixes
<1>1. file[i] \in Prefixes
  BY DEF AnalyticsInv, FilesArePrefixes
<1>2. /\ report[p].from \in Nat /\ report[p].upto \in Nat
      /\ report[p].from <= report[p].upto /\ report[p].upto <= Len(journal)
  BY DEF AnalyticsInv, AnalyticsTypeOK, PagesAreJournalled
<1>3. Ingested(file[i], report[p].from, report[p].upto) \in Prefixes \cup {RefusedBatch}
  BY <1>1, <1>2, IngestedIsPrefix DEF AnalyticsInv
<1> QED BY <1>1, <1>3 DEF Stored

\* The three ways a file changes.
LEMMA FilesStay ==
  ASSUME AnalyticsInv
  PROVE  file \in [Inodes -> Prefixes]
BY DEF AnalyticsInv, AnalyticsTypeOK, FilesArePrefixes

LEMMA FilesFilled ==
  ASSUME AnalyticsInv, NEW p \in Reports
  PROVE  [file EXCEPT ![report[p].open] = Stored(p, report[p].open)] \in [Inodes -> Prefixes]
<1>1. CASE report[p].open \in Inodes
  BY <1>1, FilesStay, StoredIsPrefix
<1>2. CASE report[p].open \notin Inodes
  BY <1>2, FilesStay
<1> QED BY <1>1, <1>2

LEMMA FilesRemain ==
  ASSUME AnalyticsInv
  PROVE  Remaining \in [Inodes -> Prefixes]
BY FilesStay, NoRowsIsPrefix DEF Remaining, AnalyticsInv

\* What it takes of a step of a report to keep the invariant.
LEMMA ReportKeeps ==
  ASSUME AnalyticsInv, UNCHANGED journal, file' \in [Inodes -> Prefixes],
         path' \in {0} \cup Inodes, temp' \in {0} \cup Inodes,
         locks' \in [{"path", "temp"} -> Reports \cup {Nobody}], kills' \in 0..MaxKills,
         NEW p \in Reports, NEW r \in ReportState, PageIsJournalled(r),
         report' = [report EXCEPT ![p] = r]
  PROVE  AnalyticsInv'
<1> USE DEF AnalyticsInv
<1>1. file' \in [Inodes -> [last : 0..MaxJournal, facts : SUBSET (1..MaxJournal),
                            withheld : SUBSET (1..MaxJournal)]]
  BY PrefixTypes
<1>2. FilesArePrefixes'
  <2>1. Prefixes' = Prefixes
    BY DEF Prefixes, PrefixOf
  <2> QED BY <2>1 DEF FilesArePrefixes
<1>3. report' \in [Reports -> ReportState]
  BY DEF AnalyticsTypeOK, ReportState, Stage
<1>4. PagesAreJournalled'
  BY DEF AnalyticsTypeOK, PagesAreJournalled, PageIsJournalled
<1>5. AnalyticsTypeOK'
  BY <1>1, <1>3 DEF AnalyticsTypeOK, ReportState, Stage
<1> QED BY <1>2, <1>4, <1>5

\* The records a report may go on with.
LEMMA ReportGoesOn ==
  ASSUME AnalyticsInv, NEW p \in Reports, NEW pc \in Stage, NEW open \in {0} \cup Inodes
  PROVE  /\ [report[p] EXCEPT !.pc = pc] \in ReportState
         /\ PageIsJournalled([report[p] EXCEPT !.pc = pc])
         /\ [report[p] EXCEPT !.open = open] \in ReportState
         /\ PageIsJournalled([report[p] EXCEPT !.open = open])
         /\ [report[p] EXCEPT !.pc = pc, !.open = open] \in ReportState
         /\ PageIsJournalled([report[p] EXCEPT !.pc = pc, !.open = open])
         /\ [Free EXCEPT !.open = open] \in ReportState
         /\ PageIsJournalled([Free EXCEPT !.open = open])
         /\ Free \in ReportState
         /\ PageIsJournalled(Free)
<1>1. report[p] \in ReportState /\ PageIsJournalled(report[p])
  BY DEF AnalyticsInv, AnalyticsTypeOK, ReportState, Stage, PagesAreJournalled, PageIsJournalled
<1>2. Len(journal) \in Nat /\ MaxJournal \in Nat
  BY JournalTypes DEF AnalyticsInv
<1>3. Free \in ReportState /\ PageIsJournalled(Free)
  BY <1>2 DEF Free, ReportState, Stage, PageIsJournalled
<1> QED BY <1>1, <1>3 DEF ReportState, PageIsJournalled

-----------------------------------------------------------------------------
LEMMA AnalyticsInitial == AnalyticsInit => AnalyticsInv
<1> SUFFICES ASSUME AnalyticsInit
             PROVE  AnalyticsInv
  OBVIOUS
<1> USE AnalyticsAssumption
<1>1. journal = <<>> /\ Len(journal) = 0 /\ NoRows = PrefixOf(0)
  <2>1. journal = <<>> /\ 1..0 = {}
    BY DEF AnalyticsInit
  <2> QED BY <2>1 DEF NoRows, PrefixOf
<1>2. AnalyticsTypeOK
  <2>1. NoRows \in [last : 0..MaxJournal, facts : SUBSET (1..MaxJournal),
                    withheld : SUBSET (1..MaxJournal)]
    BY DEF NoRows
  <2>2. Free \in ReportState
    BY DEF Free, ReportState, Stage
  <2> QED BY <1>1, <2>1, <2>2 DEF AnalyticsInit, AnalyticsTypeOK, ReportState, Stage
<1>3. FilesArePrefixes
  <2>1. NoRows \in Prefixes
    BY <1>2, NoRowsIsPrefix
  <2> QED BY <2>1 DEF AnalyticsInit, FilesArePrefixes
<1>4. PagesAreJournalled
  <2>1. \A p \in Reports : report[p] = Free
    BY DEF AnalyticsInit
  <2>2. Free.from = 0 /\ Free.upto = 0 /\ 0 <= 0
    BY DEF Free
  <2>3. Len(journal) = 0
    BY <1>1
  <2> QED BY <2>1, <2>2, <2>3, Zenon DEF PagesAreJournalled
<1> QED BY <1>2, <1>3, <1>4 DEF AnalyticsInv

\* The journal only grows, and what was a prefix of it still is one.
LEMMA JournalGrows ==
  ASSUME AnalyticsInv, NEW kind \in {"fact", "withheld"}, Journal(kind)
  PROVE  AnalyticsInv'
<1> USE DEF AnalyticsInv
<1>1. /\ journal' = Append(journal, kind) /\ Len(journal) < MaxJournal
      /\ UNCHANGED <<file, path, temp, locks, report, kills>>
  BY DEF Journal
<1>2. /\ journal' \in Seq({"fact", "withheld"}) /\ Len(journal') = Len(journal) + 1
      /\ \A n \in 1..Len(journal) : journal'[n] = journal[n]
  BY <1>1 DEF AnalyticsTypeOK
<1>3. MaxJournal \in Nat /\ Len(journal) \in Nat
  BY JournalTypes
<1>4. Prefixes \subseteq Prefixes'
  <2> SUFFICES ASSUME NEW n \in 0..Len(journal)
               PROVE  PrefixOf(n) \in Prefixes'
    BY DEF Prefixes
  <2>1. \A m \in 1..n : journal'[m] = journal[m]
    BY <1>2, <1>3
  <2>2. PrefixOf(n)' = PrefixOf(n)
    BY <2>1 DEF PrefixOf
  <2>3. n \in 0..Len(journal')
    BY <1>2, <1>3
  <2> QED BY <2>2, <2>3 DEF Prefixes
<1>5. AnalyticsTypeOK'
  BY <1>1, <1>2, <1>3 DEF AnalyticsTypeOK
<1>6. FilesArePrefixes'
  BY <1>1, <1>4 DEF FilesArePrefixes
<1>7. PagesAreJournalled'
  <2> SUFFICES ASSUME NEW p \in Reports
               PROVE  report[p].from <= report[p].upto /\ report[p].upto <= Len(journal')
    BY <1>1 DEF PagesAreJournalled
  <2>1. report[p].upto \in Nat
    BY DEF AnalyticsTypeOK
  <2> QED BY <1>2, <1>3, <2>1 DEF PagesAreJournalled
<1> QED BY <1>5, <1>6, <1>7

\* No step of a report breaks the invariant.
LEMMA ReportStep ==
  ASSUME AnalyticsInv, NEW p \in Reports, UseReadModel(p)
  PROVE  AnalyticsInv'
<1> USE DEF AnalyticsInv
<1>1. /\ path \in {0} \cup Inodes /\ temp \in {0} \cup Inodes /\ kills \in 0..MaxKills
      /\ locks \in [{"path", "temp"} -> Reports \cup {Nobody}]
      /\ report \in [Reports -> ReportState] /\ 0 \in {0} \cup Inodes
  BY DEF AnalyticsTypeOK, ReportState, Stage
<1>2. NewInode \in Inodes
  BY NewInodeIsFree
<1>3. Released(p) \in [{"path", "temp"} -> Reports \cup {Nobody}]
  BY <1>1 DEF Released
<1>4. report[p].open \in {0} \cup Inodes
  BY <1>1 DEF ReportState
<1> DEFINE Goes(r) == report' = [report EXCEPT ![p] = r]
<1>5. CASE Export(p)
  <2>1. Len(journal) \in Nat /\ MaxJournal \in Nat /\ Len(journal) <= MaxJournal /\ PageSize \in Nat
    BY JournalTypes, AnalyticsAssumption
  <2>2. \E from \in 0..Len(journal), upto \in 0..Len(journal), pc \in Stage :
          from <= upto /\ Goes([report[p] EXCEPT !.pc = pc, !.from = from, !.upto = upto])
    <3>1. CASE \E from \in 0..Len(journal) :
                 LET upto == IF from + PageSize < Len(journal) THEN from + PageSize
                             ELSE Len(journal) IN
                 report' = [report EXCEPT ![p].pc = "ingesting", ![p].from = from, ![p].upto = upto]
      <4>1. PICK from \in 0..Len(journal) :
              LET upto == IF from + PageSize < Len(journal) THEN from + PageSize
                          ELSE Len(journal) IN
              report' = [report EXCEPT ![p].pc = "ingesting", ![p].from = from, ![p].upto = upto]
        BY <3>1
      <4> DEFINE upto == IF from + PageSize < Len(journal) THEN from + PageSize
                         ELSE Len(journal)
      <4>2. upto \in 0..Len(journal) /\ from <= upto
        BY <2>1
      <4>3. report' = [report EXCEPT ![p].pc = "ingesting", ![p].from = from, ![p].upto = upto]
        BY <4>1
      <4> HIDE DEF upto
      <4>4. Goes([report[p] EXCEPT !.pc = "ingesting", !.from = from, !.upto = upto])
        BY <1>1, <4>3
      <4> HIDE DEF Goes
      <4> QED BY <4>2, <4>4 DEF Stage
    <3>2. CASE report' = [report EXCEPT ![p].pc = "closing", ![p].from = 0, ![p].upto = Len(journal)]
      <4>1. Goes([report[p] EXCEPT !.pc = "closing", !.from = 0, !.upto = Len(journal)])
        BY <1>1, <3>2
      <4>2. 0 \in 0..Len(journal) /\ Len(journal) \in 0..Len(journal) /\ 0 <= Len(journal)
        BY <2>1
      <4> HIDE DEF Goes
      <4> QED BY <4>1, <4>2 DEF Stage
    <3> QED BY <1>5, <3>1, <3>2 DEF Export
  <2>3. PICK from \in 0..Len(journal), upto \in 0..Len(journal), pc \in Stage :
          from <= upto /\ Goes([report[p] EXCEPT !.pc = pc, !.from = from, !.upto = upto])
    BY <2>2
  <2> DEFINE r == [report[p] EXCEPT !.pc = pc, !.from = from, !.upto = upto]
  <2>4. from \in 0..MaxJournal /\ upto \in 0..MaxJournal /\ upto <= Len(journal)
    BY <2>1
  <2>5. r \in ReportState /\ PageIsJournalled(r)
    BY <1>1, <2>3, <2>4 DEF ReportState, PageIsJournalled
  <2>6. UNCHANGED <<journal, file, path, temp, locks, kills>>
    BY <1>5 DEF Export
  <2> HIDE DEF r
  <2> QED BY <1>1, <2>3, <2>5, <2>6, FilesStay, ReportKeeps DEF r
<1>6. CASE OpenStore(p)
  <2>1. UNCHANGED <<journal, file, temp, kills>>
    BY <1>6 DEF OpenStore
  <2>2. CASE locks["path"] # Nobody
    <3>1. Goes([Free EXCEPT !.open = report[p].open]) /\ UNCHANGED <<path, locks>>
      BY <1>6, <2>2 DEF OpenStore, DoneWith
    <3> QED BY <1>1, <1>4, <2>1, <3>1, FilesStay, ReportKeeps, ReportGoesOn DEF Stage
  <2>3. CASE locks["path"] = Nobody
    <3> DEFINE i == IF path = 0 THEN NewInode ELSE path
    <3>1. i \in Inodes
      BY <1>1, <1>2
    <3>2. /\ path' = i /\ locks' = [locks EXCEPT !["path"] = p]
          /\ report' = [report EXCEPT ![p].open = i]
      BY <1>6, <2>3 DEF OpenStore
    <3> HIDE DEF i
    <3> DEFINE r == [report[p] EXCEPT !.open = i]
    <3>3. Goes(r)
      BY <1>1, <3>2
    <3>4. r \in ReportState /\ PageIsJournalled(r)
      BY <3>1, ReportGoesOn DEF Stage
    <3>5. locks' \in [{"path", "temp"} -> Reports \cup {Nobody}]
      BY <1>1, <3>2
    <3> HIDE DEF r
    <3> QED BY <1>1, <2>1, <3>1, <3>2, <3>3, <3>4, <3>5, FilesStay, ReportKeeps
  <2> QED BY <2>2, <2>3
<1>7. CASE IngestBatch(p)
  <2>1. /\ Goes([Free EXCEPT !.open = report[p].open])
        /\ UNCHANGED <<journal, path, temp, locks, kills>>
        /\ file' = [file EXCEPT ![report[p].open] = Stored(p, report[p].open)]
    BY <1>7 DEF IngestBatch, DoneWith
  <2> QED BY <1>1, <1>4, <2>1, FilesFilled, ReportKeeps, ReportGoesOn DEF Stage
<1>8. CASE CloseStore(p)
  <2>1. /\ Goes(Free) /\ locks' = Released(p) /\ file' = Remaining
        /\ UNCHANGED <<journal, path, temp, kills>>
    BY <1>8 DEF CloseStore
  <2> QED BY <1>1, <1>3, <2>1, FilesRemain, ReportKeeps, ReportGoesOn DEF Stage
<1>9. CASE BeginRebuild(p)
  <2>1. /\ report' = [report EXCEPT ![p].pc = "replacing", ![p].open = 0]
        /\ locks' = Released(p) /\ file' = Remaining /\ temp' = 0
        /\ UNCHANGED <<journal, path, kills>>
    BY <1>9 DEF BeginRebuild
  <2>2. Goes([report[p] EXCEPT !.pc = "replacing", !.open = 0])
    BY <1>1, <2>1
  <2> QED BY <1>1, <1>3, <2>1, <2>2, FilesRemain, ReportKeeps, ReportGoesOn DEF Stage
<1>10. CASE OpenReplacement(p)
  <2>1. UNCHANGED <<journal, file, path, kills>>
    BY <1>10 DEF OpenReplacement
  <2>2. CASE locks["temp"] # Nobody
    <3>1. Goes([report[p] EXCEPT !.pc = "discarding"]) /\ UNCHANGED <<temp, locks>>
      BY <1>1, <1>10, <2>2 DEF OpenReplacement, ReportTo
    <3> QED BY <1>1, <2>1, <3>1, FilesStay, ReportKeeps, ReportGoesOn DEF Stage
  <2>3. CASE locks["temp"] = Nobody
    <3> DEFINE i == IF temp = 0 THEN NewInode ELSE temp
    <3>1. i \in Inodes
      BY <1>1, <1>2
    <3>2. /\ temp' = i /\ locks' = [locks EXCEPT !["temp"] = p]
          /\ report' = [report EXCEPT ![p].pc = "filling", ![p].open = i]
      BY <1>10, <2>3 DEF OpenReplacement
    <3> HIDE DEF i
    <3> DEFINE r == [report[p] EXCEPT !.pc = "filling", !.open = i]
    <3>3. Goes(r)
      BY <1>1, <3>2
    <3>4. r \in ReportState /\ PageIsJournalled(r)
      BY <3>1, ReportGoesOn DEF Stage
    <3>5. locks' \in [{"path", "temp"} -> Reports \cup {Nobody}]
      BY <1>1, <3>2
    <3> HIDE DEF r
    <3> QED BY <1>1, <2>1, <3>1, <3>2, <3>3, <3>4, <3>5, FilesStay, ReportKeeps
  <2> QED BY <2>2, <2>3
<1>11. CASE FillReplacement(p)
  <2>1. /\ file' = [file EXCEPT ![report[p].open] = Stored(p, report[p].open)]
        /\ UNCHANGED <<journal, path, temp, locks, kills>>
    BY <1>11 DEF FillReplacement
  <2>2. PICK pc \in {"releasing", "discarding"} : report' = [report EXCEPT ![p].pc = pc]
    BY <1>11 DEF FillReplacement, ReportTo
  <2>3. Goes([report[p] EXCEPT !.pc = pc]) /\ pc \in Stage
    BY <1>1, <2>2 DEF Stage
  <2> QED BY <1>1, <2>1, <2>3, FilesFilled, ReportKeeps, ReportGoesOn
<1>12. CASE CloseReplacement(p)
  <2>1. /\ report' = [report EXCEPT ![p].pc = "renaming", ![p].open = 0]
        /\ locks' = Released(p) /\ file' = Remaining
        /\ UNCHANGED <<journal, path, temp, kills>>
    BY <1>12 DEF CloseReplacement
  <2>2. Goes([report[p] EXCEPT !.pc = "renaming", !.open = 0])
    BY <1>1, <2>1
  <2> QED BY <1>1, <1>3, <2>1, <2>2, FilesRemain, ReportKeeps, ReportGoesOn DEF Stage
<1>13. CASE Rename(p)
  <2>1. UNCHANGED <<journal, locks, kills>> /\ file' = Remaining
    BY <1>13 DEF Rename
  <2>2. CASE temp = 0
    <3>1. Goes([report[p] EXCEPT !.pc = "discarding"]) /\ UNCHANGED <<path, temp>>
      BY <1>1, <1>13, <2>2 DEF Rename, ReportTo
    <3> QED BY <1>1, <2>1, <3>1, FilesRemain, ReportKeeps, ReportGoesOn DEF Stage
  <2>3. CASE temp # 0
    <3>1. /\ Goes([Free EXCEPT !.open = report[p].open])
          /\ path' = temp /\ temp' = 0
      BY <1>13, <2>3 DEF Rename, DoneWith
    <3> QED BY <1>1, <1>4, <2>1, <3>1, FilesRemain, ReportKeeps, ReportGoesOn DEF Stage
  <2> QED BY <2>2, <2>3
<1>14. CASE DiscardReplacement(p)
  <2>1. /\ Goes(Free) /\ temp' = 0 /\ locks' = Released(p) /\ file' = Remaining
        /\ UNCHANGED <<journal, path, kills>>
    BY <1>14 DEF DiscardReplacement
  <2> QED BY <1>1, <1>3, <2>1, FilesRemain, ReportKeeps, ReportGoesOn DEF Stage
<1>15. CASE Killed(p)
  <2>1. /\ Goes(Free) /\ file' = Remaining /\ kills' = kills + 1 /\ kills < MaxKills
        /\ UNCHANGED <<journal, path, temp, locks>>
    BY <1>15 DEF Killed
  <2>2. kills' \in 0..MaxKills
    BY <1>1, <2>1, AnalyticsAssumption
  <2> QED BY <1>1, <2>1, <2>2, FilesRemain, ReportKeeps, ReportGoesOn DEF Stage
<1> QED
  BY <1>5, <1>6, <1>7, <1>8, <1>9, <1>10, <1>11, <1>12, <1>13, <1>14, <1>15 DEF UseReadModel

\* The inductive invariant of the read model.
LEMMA AnalyticsInvHolds == AnalyticsSpec => []AnalyticsInv
<1>1. AnalyticsInv /\ [AnalyticsNext]_analyticsVars => AnalyticsInv'
  <2> SUFFICES ASSUME AnalyticsInv, [AnalyticsNext]_analyticsVars
               PROVE  AnalyticsInv'
    OBVIOUS
  <2>1. CASE \E kind \in {"fact", "withheld"} : Journal(kind)
    BY <2>1, JournalGrows
  <2>2. CASE \E p \in Reports : UseReadModel(p)
    BY <2>2, ReportStep
  <2>3. CASE UNCHANGED analyticsVars
    <3>1. /\ UNCHANGED <<journal, file, report>> /\ AnalyticsTypeOK'
      BY <2>3 DEF analyticsVars, AnalyticsInv, AnalyticsTypeOK
    <3>2. Prefixes' = Prefixes
      BY <3>1 DEF Prefixes, PrefixOf
    <3> QED BY <3>1, <3>2 DEF AnalyticsInv, FilesArePrefixes, PagesAreJournalled
  <2> QED BY <2>1, <2>2, <2>3 DEF AnalyticsNext
<1> QED BY <1>1, AnalyticsInitial, PTL DEF AnalyticsSpec

\* The variables of the read model stay in their declared sets.
THEOREM AnalyticsTypes == AnalyticsSpec => []AnalyticsTypeOK
<1>1. AnalyticsInv => AnalyticsTypeOK
  BY DEF AnalyticsInv
<1> QED BY <1>1, AnalyticsInvHolds, PTL

\* For any reports, pages and files: the read model is the journal up to its cursor.
THEOREM ReadModelHolds == AnalyticsSpec => []ReadModelIsPrefix
<1>1. AnalyticsInv => ReadModelIsPrefix
  <2> SUFFICES ASSUME AnalyticsInv, path # 0
               PROVE  /\ file[path].last <= Len(journal)
                      /\ file[path].facts = {n \in 1..file[path].last : journal[n] = "fact"}
                      /\ file[path].withheld = {n \in 1..file[path].last : journal[n] = "withheld"}
    BY DEF ReadModelIsPrefix
  <2>1. file[path] \in Prefixes /\ Len(journal) \in Nat
    BY JournalTypes DEF AnalyticsInv, AnalyticsTypeOK, FilesArePrefixes
  <2> QED BY <2>1 DEF Prefixes, PrefixOf
<1> QED BY <1>1, AnalyticsInvHolds, PTL
=============================================================================
