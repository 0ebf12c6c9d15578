---------------------------- MODULE TicketDelivery ----------------------------
(***************************************************************************)
(* The external ticket of one incident: deliverExternalIncident            *)
(* (db/provider-delivery-operations.ts), called by the workflow steps      *)
(* open-external-incident and update-external-incident and by the recovery *)
(* loop (background/phase6-recovery-dispatcher.ts), against the Linear     *)
(* provider (providers/linear-incident-provider.ts) or the mock one        *)
(* (providers/mock-incident-provider.ts).                                  *)
(*                                                                         *)
(* Every transaction and every provider call is a step of its own.  A      *)
(* generation is the incident version read by the claim; the ledger keeps  *)
(* one generation with a fence token and a lease, and each operation has   *)
(* its own delivery row.  A fence test is the field "fence" of a worker    *)
(* (it wrote the token or shares it, and nobody renewed it since), an      *)
(* attempt_count test its flag "current" (nobody claimed the row since).   *)
(***************************************************************************)
EXTENDS Naturals, Sequences

CONSTANTS
  Flow,         \* the workflow run of the incident, as a worker
  Loops,        \* recovery loops, one per server process
  Kinds,        \* providers considered: "linear", "mock"
  MaxAttempts,  \* maxAttempts of a delivery
  MaxVersion,   \* bound on the incident's version
  MaxTickets,   \* bound on writes that create something at the provider
  MaxFaults     \* failures the environment may inject (bound)

ASSUME DeliveryAssumption ==
  /\ Flow \notin Loops
  /\ Kinds \subseteq {"linear", "mock"}
  /\ MaxAttempts \in Nat \ {0} /\ MaxVersion \in Nat \ {0}
  /\ MaxTickets \in Nat \ {0} /\ MaxFaults \in Nat

VARIABLES
  kind,     \* the provider of this installation
  status,   \* incidents.status
  version,  \* incidents.version
  approved, \* the approval's decision is "approved"
  flow,     \* where the workflow run is
  row,      \* provider_deliveries, by operation
  gen,      \* provider_incident_generations
  remote,   \* what the provider holds, oldest first
  wire,     \* requests whose caller stopped waiting (equal ones are one)
  worker,   \* the workflow and the loops
  misled,   \* history: a delivery outlasted its lease, an error hid a request that
            \* was sent, or a search missed an issue
  faults    \* failures injected so far

vars == <<kind, status, version, approved, flow, row, gen, remote, wire, worker, misled, faults>>

-----------------------------------------------------------------------------
Workers == Loops \cup {Flow}
Finals == {"rejected", "contained", "failed"}
Ops == Finals \cup {"open"}
Status == {"awaiting_approval", "approved", "rejected", "containing",
           "contained", "failed", "closed"}

Versions == 0..MaxVersion

RowState == [status : {"none", "pending", "retry", "delivering", "uncertain",
                       "succeeded", "exhausted"},
             gen : Versions, proj : Status, tries : 0..MaxAttempts,
             due : BOOLEAN, ref : 0..MaxTickets]

\* An issue of Linear with the marker in its title, or a row of the mock's table.
Write == [op : Ops, gen : Versions, proj : Status]

Pc == {"idle", "recovering", "closing", "claiming", "terminalizing", "expired",
       "settling", "reconciling", "resolving", "fencing", "rechecking", "calling", "called",
       "persisting", "doubting", "failing", "superseding"}

WorkerState == [pc : Pc, op : Ops, proj : Status, ref : 0..MaxTickets,
                fence : {"none", "own", "shared"}, current : BOOLEAN]

Idle == [pc |-> "idle", op |-> "open", proj |-> "awaiting_approval", ref |-> 0,
         fence |-> "none", current |-> FALSE]

NoRow == [status |-> "none", gen |-> 0, proj |-> "awaiting_approval",
          tries |-> 0, due |-> FALSE, ref |-> 0]

StateTyped ==
  /\ kind \in Kinds
  /\ status \in Status
  /\ version \in Versions \ {0}
  /\ approved \in BOOLEAN
  /\ flow \in {"opening", "waiting", "executing", "closing", "over"} \cup Finals
  /\ row \in [Ops -> RowState]
  /\ gen \in [number : Versions, status : {"none", "active", "terminal", "reconciled"},
              live : BOOLEAN]
  /\ remote \in Seq(Write)
  /\ Len(remote) <= MaxTickets
  /\ wire \subseteq [op : Ops, gen : Versions, proj : Status, ref : 0..MaxTickets]
  /\ worker \in [Workers -> WorkerState]
  /\ faults \in 0..MaxFaults

TypeOK == StateTyped /\ misled \in BOOLEAN

Init ==
  /\ kind \in Kinds
  /\ status = "awaiting_approval"
  /\ version = 1
  /\ approved = FALSE
  /\ flow = "opening"
  /\ row = [o \in Ops |-> NoRow]
  /\ gen = [number |-> 0, status |-> "none", live |-> FALSE]
  /\ remote = <<>>
  /\ wire = {}
  /\ worker = [w \in Workers |-> Idle]
  /\ misled = FALSE
  /\ faults = 0

-----------------------------------------------------------------------------
(* Helpers *)

incident == <<status, version, approved>>
ledger == <<row, gen>>
provider == <<kind, remote, wire>>

Fault == faults < MaxFaults /\ faults' = faults + 1

\* The incident's next status, under a new version.
MoveTo(s) ==
  /\ version < MaxVersion
  /\ status' = s
  /\ version' = version + 1
  /\ approved' = (approved \/ s = "approved")

At(w, pc) == worker[w].pc = pc
Goto(w, pc) == worker' = [worker EXCEPT ![w].pc = pc]

\* Mutant: open-external-incident ignores the outcome too.
FlowAfterAnyOutcome(w, delivered) ==
  flow' = CASE w # Flow -> flow
            [] w = Flow /\ flow \in {"rejected", "contained"} -> "closing"
            [] w = Flow /\ flow = "opening" -> "waiting"
            [] OTHER -> "over"

\* What the caller does with the outcome: open-external-incident throws unless it
\* succeeded, update-external-incident ignores it, a loop takes its next turn.
FlowAfter(w, delivered) ==
  flow' = CASE w # Flow -> flow
            [] w = Flow /\ flow \in {"rejected", "contained"} -> "closing"
            [] w = Flow /\ flow = "opening" /\ delivered -> "waiting"
            [] OTHER -> "over"

Return(w, delivered) == worker' = [worker EXCEPT ![w] = Idle] /\ FlowAfter(w, delivered)

\* A DomainError: the run fails, or the loop's turn does.
Throw(w) ==
  /\ worker' = [worker EXCEPT ![w] = Idle]
  /\ flow' = IF w = Flow THEN "over" ELSE flow

Fenced(w) == worker[w].fence # "none"

\* generation, fence_token and status = 'active' of the worker's delivery row.
Holds(w) ==
  gen.number = row[worker[w].op].gen /\ Fenced(w) /\ gen.status = "active"

Won == status \in {"contained", "closed"}
Active(o) == row[o].status \in {"pending", "retry", "delivering", "uncertain"}

\* The marker search, or the mock's read of its effect: the place of the write.
Sought(o) == [op |-> o, gen |-> row[o].gen, proj |-> row[o].proj]
Found(o, ref) == ref \in 1..Len(remote) /\ remote[ref] = Sought(o)
Exists(o) == \E ref \in 1..Len(remote) : Found(o, ref)

\* The search of Linear has not seen the issue a create made.
SearchMisses(w) == kind = "linear" /\ worker[w].op = "open" /\ Exists("open")

\* A newer generation is in the mock's table.
Overtaken(o) == \E i \in 1..Len(remote) : remote[i].gen > row[o].gen

(* The incident and its workflow, as far as deliveries depend on them *)

\* A decision, or the expiry of the approval.
Decide ==
  /\ status = "awaiting_approval"
  /\ \E s \in {"approved", "rejected", "failed"} : MoveTo(s)
  /\ UNCHANGED <<flow, ledger, provider, worker, misled, faults>>

\* The suspended run is resumed: with a rejection it goes to its update at once,
\* with an expiry it ends without a delivery.
Resume ==
  /\ flow = "waiting"
  /\ \/ status = "approved" /\ MoveTo("containing") /\ flow' = "executing"
     \/ status = "rejected" /\ flow' = "rejected" /\ UNCHANGED incident
     \/ status = "failed" /\ flow' = "over" /\ UNCHANGED incident
  /\ UNCHANGED <<ledger, provider, worker, misled, faults>>

\* execute-containment records its outcome, or finds the one of a partial retry.
Contain ==
  /\ flow = "executing"
  /\ \E s \in {"contained", "failed"} :
       \/ status = "containing" /\ MoveTo(s) /\ flow' = s
       \/ status = s /\ flow' = s /\ UNCHANGED incident
  /\ UNCHANGED <<ledger, provider, worker, misled, faults>>

\* finalize-incident after a contained or rejected result.
Finalize ==
  /\ flow = "closing"
  /\ flow' = "over"
  /\ \/ status \in {"contained", "rejected"} /\ MoveTo("closed")
     \/ status \notin {"contained", "rejected"} /\ UNCHANGED incident
  /\ UNCHANGED <<ledger, provider, worker, misled, faults>>

-----------------------------------------------------------------------------
(* Who asks for a delivery *)

Ask(w, o, p) ==
  worker' = [worker EXCEPT ![w] = [Idle EXCEPT !.pc = "claiming", !.op = o, !.proj = p]]

\* The steps open-external-incident and update-external-incident, with the status
\* the incident has now.
CallStep ==
  /\ flow \in Finals \cup {"opening"}
  /\ At(Flow, "idle")
  /\ Ask(Flow, IF flow = "opening" THEN "open" ELSE flow, status)
  /\ UNCHANGED <<incident, flow, ledger, provider, misled, faults>>

\* Mutant: an interrupted delivery is not taken up.
WaitsForRetry(o) == row[o].status \in {"pending", "retry", "uncertain"} /\ row[o].due

\* deliverOne takes the open delivery first, then one without a next attempt
\* (which sorts before all dates), then one whose time has come.
Waits(o) == Active(o) /\ row[o].due
First(o) ==
  /\ Waits(o)
  /\ o # "open" => ~Waits("open")
  /\ (o # "open" /\ row[o].status # "uncertain") =>
       \A p \in Finals : row[p].status # "uncertain"

DeliverOne(l) ==
  /\ l \in Loops
  /\ At(l, "idle")
  /\ \E o \in Ops : First(o) /\ Ask(l, o, row[o].proj)
  /\ UNCHANGED <<incident, flow, ledger, provider, misled, faults>>

\* retryContainmentOne, reduced to the incident: a plan that failed or that was
\* left is brought to its end, an incident left contained is closed.
RetryContainment(l) ==
  /\ l \in Loops
  /\ At(l, "idle")
  /\ \/ /\ approved /\ status = "failed"
        /\ version + 2 < MaxVersion   \* bound: versions are left to end what is retried
        /\ MoveTo("containing") /\ Goto(l, "recovering")
     \/ approved /\ status = "containing" /\ Goto(l, "recovering") /\ UNCHANGED incident
     \/ status = "contained" /\ Goto(l, "closing") /\ UNCHANGED incident
  /\ UNCHANGED <<flow, ledger, provider, misled, faults>>

RecoverContainment(l) ==
  /\ At(l, "recovering")
  /\ \/ status = "containing" /\ MoveTo("contained") /\ Goto(l, "closing")
     \/ status = "containing" /\ MoveTo("failed") /\ Goto(l, "idle")
     \/ status # "containing" /\ Goto(l, "idle") /\ UNCHANGED incident
  /\ UNCHANGED <<flow, ledger, provider, misled, faults>>

\* It closes the incident; the final delivery follows.
CloseRecovered(l) ==
  /\ At(l, "closing")
  /\ \/ status = "contained" /\ MoveTo("closed") /\ Ask(l, "contained", "closed")
     \/ status # "contained" /\ Goto(l, "idle") /\ UNCHANGED incident
  /\ UNCHANGED <<flow, ledger, provider, misled, faults>>

-----------------------------------------------------------------------------
(* The claim: one transaction on the generation and the row *)

\* Mutant: a newer generation passes over an active one.
NeverBlocked == FALSE

\* claimProviderGeneration: the same generation keeps its fence while it is live.
Shared == gen.number = version /\ gen.status = "active" /\ gen.live
\* Linear never passes over an active generation.
Blocked == kind = "linear" /\ gen.number # version /\ gen.status = "active"

NewFence == [number |-> version, status |-> "active", live |-> TRUE]

\* The delivery row of the operation, inserted by its first claim.
Inserted(w) ==
  IF row[worker[w].op].status = "none"
  THEN [NoRow EXCEPT !.status = "pending", !.gen = version,
                     !.proj = worker[w].proj, !.due = TRUE]
  ELSE row[worker[w].op]

\* Mutant: a delivery in doubt is simply tried again.
LeadsToRetry(w, r) ==
  CASE r.status \in {"succeeded", "exhausted"} -> "terminalizing"
    [] r.status = "delivering" /\ ~r.due -> "idle"
    [] OTHER -> "fencing"

\* Where the row, as it is now, leads the caller of the claim.
Leads(w, r) ==
  CASE r.status \in {"succeeded", "exhausted"} -> "terminalizing"
    [] r.status = "uncertain" -> "reconciling"
    [] r.status = "delivering" /\ ~r.due -> "idle"
    [] /\ worker[w].op = "failed" /\ Won
       /\ r.status \in {"pending", "retry"} \/ (r.status = "delivering" /\ r.due) -> "superseding"
    [] OTHER -> "fencing"

\* Everybody else's fence is stale once a new one is written, and their attempt
\* count once the row is claimed again.
Claimed(w, pc, fresh) ==
  worker' = [x \in Workers |->
    IF x = w THEN [worker[x] EXCEPT !.pc = pc, !.current = TRUE,
                                    !.fence = IF fresh THEN "own" ELSE "shared"]
    ELSE [worker[x] EXCEPT !.fence = IF fresh THEN "none" ELSE @,
                           !.current = @ /\ ~(pc = "fencing" /\ worker[x].op = worker[w].op)]]

\* A projection or run other than the row's is a conflict; a claimed row counts
\* the attempt.  A newer generation for which the row is not meant is claimed
\* all the same.
Claim(w) ==
  LET o == worker[w].op
      r == Inserted(w)
      pc == Leads(w, r)
  IN
  /\ At(w, "claiming")
  /\ ~Blocked
  /\ r.proj = worker[w].proj
  /\ gen' = IF Shared THEN gen ELSE NewFence
  /\ row' = [row EXCEPT ![o] =
       IF pc = "fencing"
       THEN [r EXCEPT !.status = "delivering", !.due = FALSE,
                      !.tries = IF @ < MaxAttempts THEN @ + 1 ELSE @]
       ELSE r]
  /\ \/ /\ pc = "idle"
        /\ FlowAfter(w, FALSE)
        /\ worker' = [x \in Workers |->
             IF x = w THEN Idle
             ELSE [worker[x] EXCEPT !.fence = IF Shared THEN @ ELSE "none"]]
     \/ pc # "idle" /\ Claimed(w, pc, ~Shared) /\ UNCHANGED flow
  /\ UNCHANGED <<incident, provider, misled, faults>>

ClaimConflicts(w) ==
  /\ At(w, "claiming")
  /\ ~Blocked
  /\ Inserted(w).proj # worker[w].proj
  /\ Throw(w)
  /\ UNCHANGED <<incident, ledger, provider, misled, faults>>

\* busy, or reconcile_required: the old generation's fence is taken along.
ClaimBlocked(w) ==
  /\ At(w, "claiming")
  /\ Blocked
  /\ \/ gen.live /\ Return(w, FALSE)
     \/ /\ ~gen.live
        /\ worker' = [worker EXCEPT ![w].pc = "expired", ![w].fence = "shared"]
        /\ UNCHANGED flow
  /\ UNCHANGED <<incident, ledger, provider, misled, faults>>

\* terminalizeProviderGeneration, for a row that is concluded.
Terminalize(w) ==
  /\ At(w, "terminalizing")
  /\ gen' = IF Holds(w) THEN [gen EXCEPT !.status = "terminal"] ELSE gen
  /\ Return(w, row[worker[w].op].status = "succeeded")
  /\ UNCHANGED <<incident, row, provider, misled, faults>>

-----------------------------------------------------------------------------
(* Reconciliation: reading the provider instead of calling it again *)

\* reconcileExpiredProviderGeneration reads the open row of the old generation;
\* an update row has no external_ref yet, and its reconciliation says nothing.
LastAttempt(o) ==
  LET open == {p \in Ops : row[p].gen = gen.number /\ row[p].status \in {"delivering", "uncertain"}} IN
  o \in open /\ \A p \in open : row[p].tries <= row[o].tries

ReconcileExpired(w) ==
  /\ At(w, "expired")
  /\ \/ /\ Fenced(w) /\ LastAttempt("open")
        /\ \E ref \in 1..Len(remote) :
             /\ Found("open", ref)
             /\ worker' = [worker EXCEPT ![w].pc = "settling", ![w].ref = ref]
        /\ UNCHANGED flow
     \/ Return(w, FALSE)   \* nothing to read, or nothing found
  /\ UNCHANGED <<incident, ledger, provider, misled, faults>>

\* Its transaction: the exact fence, still active and expired, decides.
SettleExpired(w) ==
  /\ At(w, "settling")
  /\ IF Fenced(w) /\ gen.status = "active" /\ ~gen.live
     THEN /\ gen' = [gen EXCEPT !.status = "reconciled"]
          /\ row' = [o \in Ops |->
               IF row[o].gen = gen.number /\ row[o].status \in {"delivering", "uncertain"}
               THEN [row[o] EXCEPT !.status = "succeeded", !.ref = worker[w].ref]
               ELSE row[o]]
     ELSE UNCHANGED ledger
  /\ Return(w, FALSE)
  /\ UNCHANGED <<incident, provider, misled, faults>>

\* An uncertain row: found at the provider, or still uncertain.
Reconcile(w) ==
  LET o == worker[w].op
      readable == o = "open" /\ ~(kind = "mock" /\ Overtaken(o))
  IN
  /\ At(w, "reconciling")
  /\ \/ /\ readable
        /\ \E ref \in 1..Len(remote) :
             /\ Found(o, ref)
             /\ worker' = [worker EXCEPT ![w].pc = "resolving", ![w].ref = ref]
        /\ UNCHANGED flow
     \/ (kind = "linear" \/ ~(readable /\ Exists(o))) /\ Return(w, FALSE)
  /\ UNCHANGED <<incident, ledger, provider, misled, faults>>

\* The outcome of a reconciled row is stored without its generation.
Resolve(w) ==
  LET o == worker[w].op IN
  /\ At(w, "resolving")
  /\ \/ /\ worker[w].current /\ Active(o)
        /\ row' = [row EXCEPT ![o].status = "succeeded", ![o].ref = worker[w].ref]
        /\ Return(w, TRUE)
     \/ ~(worker[w].current /\ Active(o)) /\ Throw(w) /\ UNCHANGED row
  /\ UNCHANGED <<incident, gen, provider, misled, faults>>

-----------------------------------------------------------------------------
(* The call *)

CheckFence(w) ==
  /\ At(w, "fencing")
  /\ \/ /\ Holds(w)
        /\ Goto(w, IF worker[w].op = "failed" THEN "rechecking" ELSE "calling")
        /\ UNCHANGED flow
     \/ ~Holds(w) /\ Return(w, FALSE)
  /\ UNCHANGED <<incident, ledger, provider, misled, faults>>

\* A failed containment that was recovered meanwhile is not reported any more.
RecheckIncident(w) ==
  /\ At(w, "rechecking")
  /\ Goto(w, IF Won THEN "superseding" ELSE "calling")
  /\ UNCHANGED <<incident, flow, ledger, provider, misled, faults>>

Request(w) ==
  [op |-> worker[w].op, gen |-> row[worker[w].op].gen, proj |-> row[worker[w].op].proj,
   ref |-> IF worker[w].op = "open" THEN 0 ELSE row["open"].ref]

Written(q) == [op |-> q.op, gen |-> q.gen, proj |-> q.proj]

\* Mutant: the mock stores one effect per key, of any generation.
StorableByKey(q) == \A i \in 1..Len(remote) : remote[i].op # q.op

\* The mock stores one effect per key, none older than the newest and no two of
\* one generation.
Storable(q) == \A i \in 1..Len(remote) : remote[i].gen < q.gen

\* A request takes effect: Linear creates an issue or rewrites the one named.
Lands(q) ==
  IF kind = "linear" /\ q.op # "open"
  THEN remote' = [remote EXCEPT ![q.ref] = Written(q)]
  ELSE /\ Len(remote) < MaxTickets
       /\ remote' = Append(remote, Written(q))

Called(w, ref) == worker' = [worker EXCEPT ![w].pc = "called", ![w].ref = ref]

\* The provider finds the marker of a create, or the mock its effect.
CallFinds(w) ==
  LET o == worker[w].op IN
  /\ At(w, "calling")
  /\ kind = "linear" => o = "open"
  /\ kind = "mock" => ~Overtaken(o)
  /\ \E ref \in 1..Len(remote) : Found(o, ref) /\ Called(w, ref)
  /\ UNCHANGED <<incident, flow, ledger, provider, misled, faults>>

\* The request takes effect and is confirmed by a readback; that the search misses an
\* issue is a fault of the provider.
CallLands(w) ==
  /\ At(w, "calling")
  /\ kind = "mock" => Storable(Request(w))
  /\ Lands(Request(w))
  /\ Called(w, IF kind = "linear" /\ worker[w].op # "open"
               THEN row["open"].ref ELSE Len(remote) + 1)
  /\ IF SearchMisses(w) THEN Fault ELSE UNCHANGED faults
  /\ misled' = (misled \/ SearchMisses(w))
  /\ UNCHANGED <<incident, flow, ledger, kind, wire>>

\* The mock refuses: a newer generation was stored, or another effect of this one.
CallRefused(w) ==
  LET o == worker[w].op IN
  /\ At(w, "calling")
  /\ kind = "mock"
  /\ \/ Overtaken(o) /\ Goto(w, "superseding")
     \/ ~Overtaken(o) /\ ~Exists(o) /\ ~Storable(Request(w)) /\ Goto(w, "failing")
  /\ UNCHANGED <<incident, flow, ledger, provider, misled, faults>>

\* A request is under way, unless the mock was found to hold its effect.
Sends(w) ==
  /\ At(w, "calling")
  /\ kind = "mock" => ~Exists(worker[w].op)
  /\ wire' = wire \cup {Request(w)}

\* A definite failure: before anything was sent, or when the search or the readback
\* that follows Linear's doubtful answer throws an error of its own.
CallFails(w) ==
  /\ At(w, "calling")
  /\ Fault
  /\ \/ kind = "linear" /\ Sends(w) /\ misled' = TRUE
     \/ UNCHANGED <<wire, misled>>
  /\ Goto(w, "failing")
  /\ UNCHANGED <<incident, flow, ledger, kind, remote>>

\* withTimeout stops waiting, or Linear's answer stays ambiguous: the request may
\* still take effect.
CallTimesOut(w) ==
  /\ At(w, "calling")
  /\ Fault
  /\ \/ Sends(w) /\ misled' = (misled \/ SearchMisses(w))
     \/ UNCHANGED <<wire, misled>>
  /\ Goto(w, "doubting")
  /\ UNCHANGED <<incident, flow, ledger, kind, remote>>

-----------------------------------------------------------------------------
(* persistDeliveryOutcome *)

\* The fence is read again before a success is stored.
CheckAgain(w) ==
  /\ At(w, "called")
  /\ \/ Holds(w) /\ gen.live /\ Goto(w, "persisting") /\ UNCHANGED flow
     \/ ~(Holds(w) /\ gen.live) /\ Return(w, FALSE)
  /\ UNCHANGED <<incident, ledger, provider, misled, faults>>

\* attempt_count and status, and for Linear the fence.
Owned(w) ==
  /\ worker[w].current
  /\ Active(worker[w].op)
  /\ kind = "linear" => Holds(w)

\* Mutant: the attempt is counted once more when it ends.
ConcludeCounting(w, s, ref) ==
  /\ row' = [row EXCEPT ![worker[w].op].status = s, ![worker[w].op].ref = ref,
                        ![worker[w].op].tries = @ + 1, ![worker[w].op].due = FALSE]
  /\ gen' = IF kind = "linear" THEN [gen EXCEPT !.status = "terminal"] ELSE gen

\* A conclusion closes Linear's generation.
Conclude(w, s, ref) ==
  /\ row' = [row EXCEPT ![worker[w].op].status = s, ![worker[w].op].ref = ref,
                        ![worker[w].op].due = FALSE]
  /\ gen' = IF kind = "linear" THEN [gen EXCEPT !.status = "terminal"] ELSE gen

Persist(w) ==
  LET r == row[worker[w].op] IN
  /\ At(w, "persisting")
  /\ \/ Owned(w) /\ Conclude(w, "succeeded", worker[w].ref) /\ Return(w, TRUE)
     \/ /\ ~Owned(w)
        /\ IF r.status = "succeeded" /\ r.ref = worker[w].ref THEN Return(w, TRUE) ELSE Throw(w)
        /\ UNCHANGED ledger
  /\ UNCHANGED <<incident, provider, misled, faults>>

\* retry while the budget lasts.
PersistFailure(w) ==
  /\ At(w, "failing")
  /\ \/ /\ Owned(w)
        /\ Conclude(w, IF row[worker[w].op].tries < MaxAttempts THEN "retry" ELSE "exhausted", 0)
        /\ Return(w, FALSE)
     \/ ~Owned(w) /\ Throw(w) /\ UNCHANGED ledger
  /\ UNCHANGED <<incident, provider, misled, faults>>

PersistSuperseded(w) ==
  /\ At(w, "superseding")
  /\ \/ Owned(w) /\ Conclude(w, "exhausted", 0) /\ Return(w, FALSE)
     \/ ~Owned(w) /\ Throw(w) /\ UNCHANGED ledger
  /\ UNCHANGED <<incident, provider, misled, faults>>

\* An uncertain outcome leaves the generation active and has no next attempt.
PersistDoubt(w) ==
  LET o == worker[w].op
      owned == worker[w].current /\ row[o].status = "delivering"
  IN
  /\ At(w, "doubting")
  /\ \/ /\ owned
        /\ row' = [row EXCEPT ![o].status = "uncertain", ![o].due = TRUE]
        /\ Return(w, FALSE)
     \/ ~owned /\ Throw(w) /\ UNCHANGED row
  /\ UNCHANGED <<incident, gen, provider, misled, faults>>

-----------------------------------------------------------------------------
(* Time, network and crashes *)

Working == {"fencing", "rechecking", "calling", "called", "persisting", "doubting",
            "failing", "superseding"}
\* A delivery and its request are under way, or the writer of the generation at work.
Pending(o) == row[o].status = "delivering" /\ \E q \in wire : q.op = o
DeliveryUsed(o) ==
  \/ Pending(o)
  \/ /\ row[o].status = "delivering"
     /\ \E w \in Workers : worker[w].current /\ worker[w].op = o /\ worker[w].pc \in Working
LeaseUsed ==
  \/ \E o \in Ops : Pending(o)
  \/ \E w \in Workers : worker[w].fence = "own" /\ worker[w].pc \in Working

Lapses ==
  /\ gen.live
  /\ gen' = [gen EXCEPT !.live = FALSE]
  /\ UNCHANGED <<incident, flow, row, provider, worker>>

FallsDue(o) ==
  /\ row[o].status \in {"retry", "delivering"}
  /\ ~row[o].due
  /\ row' = [row EXCEPT ![o].due = TRUE]
  /\ UNCHANGED <<incident, flow, gen, provider, worker>>

\* A claim that shares the fence does not prolong its lease.
LeaseLapses == ~LeaseUsed /\ Lapses /\ UNCHANGED <<misled, faults>>

\* The backoff of a retry or the lease of a delivery elapses.
RowDue(o) == ~DeliveryUsed(o) /\ FallsDue(o) /\ UNCHANGED <<misled, faults>>

\* The writer or its request takes longer than its lease of twice the call's timeout,
\* which nothing prevents.
Overrun ==
  /\ Fault
  /\ \/ LeaseUsed /\ Lapses /\ UNCHANGED misled
     \/ (\E o \in Ops : DeliveryUsed(o) /\ FallsDue(o)) /\ misled' = TRUE

\* A request nobody waits for takes effect or is lost.
WireDelivers ==
  \E q \in wire :
    /\ wire' = wire \ {q}
    /\ \/ (kind = "mock" => Storable(q)) /\ Lands(q)
       \/ UNCHANGED remote
    /\ UNCHANGED <<incident, flow, ledger, kind, worker, misled, faults>>

\* A crash, or a storage error that ends the turn; a request may be under way.
Crash(w) ==
  /\ worker[w] # Idle
  /\ Fault
  /\ Throw(w)
  /\ \/ Sends(w) /\ misled' = (misled \/ SearchMisses(w))
     \/ UNCHANGED <<wire, misled>>
  /\ UNCHANGED <<incident, ledger, kind, remote>>

-----------------------------------------------------------------------------
Deliver(w) ==
  \/ Claim(w) \/ ClaimConflicts(w) \/ ClaimBlocked(w) \/ Terminalize(w)
  \/ ReconcileExpired(w) \/ SettleExpired(w) \/ Reconcile(w) \/ Resolve(w)
  \/ CheckFence(w) \/ RecheckIncident(w) \/ CheckAgain(w)
  \/ CallFinds(w) \/ CallLands(w) \/ CallRefused(w)
  \/ Persist(w) \/ PersistFailure(w) \/ PersistSuperseded(w) \/ PersistDoubt(w)

Work(w) == Deliver(w) \/ RecoverContainment(w) \/ CloseRecovered(w)
Run == Resume \/ Contain \/ Finalize \/ CallStep
Time == LeaseLapses \/ WireDelivers \/ Overrun \/ \E o \in Ops : RowDue(o)

Next ==
  \/ Decide \/ Run \/ Time
  \/ \E w \in Workers :
       \/ Work(w) \/ CallFails(w) \/ CallTimesOut(w) \/ Crash(w)
       \/ DeliverOne(w) \/ RetryContainment(w)

Spec == Init /\ [][Next]_vars

\* Deliveries that began go on, loops poll (each turn has its deliverOne), and
\* time passes.
FairSpec ==
  /\ Spec
  /\ WF_vars(LeaseLapses \/ WireDelivers \/ \E o \in Ops : RowDue(o))
  /\ \A w \in Workers : WF_vars(Work(w))
  /\ \A l \in Loops : SF_vars(DeliverOne(l))
=============================================================================
