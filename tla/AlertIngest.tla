----------------------------- MODULE AlertIngest -----------------------------
(***************************************************************************)
(* Ingest of the WorkOS events about one membership (or, without           *)
(* snapshots, one session): webhooks/routes.ts, normalizers.ts,            *)
(* db/incident-operations.ts and db/workos-webhook-operations.ts.          *)
(*                                                                         *)
(* Requests overlap and the provider repeats what was not answered, in any *)
(* order.  The write transactions of the store exclude one another; that   *)
(* of an ingest fails before it commits, or after it, without telling.     *)
(* An incident's identity is its place in "incidents".                     *)
(***************************************************************************)
EXTENDS Naturals, Sequences

CONSTANTS
  Alerts,       \* deliveries: [id, at, state, allowed], one per distinct content
  Requests,     \* requests served at a time
  MaxOutages    \* storage failures and crashes (bound)

ASSUME AlertIngestAssumption ==
  /\ \A a \in Alerts : a.at \in Nat \ {0} /\ a.allowed \in BOOLEAN
  /\ MaxOutages \in Nat

VARIABLES
  membership,   \* TRUE for a membership, FALSE for a session
  incidents,    \* incidents with their alert and, for a role change, snapshot
  observed,     \* workos_observed_memberships / _sessions
  positions,    \* workos_observed_positions
  letters,      \* dead_letter_events
  serving,      \* the handler of each request
  outages

ingestVars == <<membership, incidents, observed, positions, letters, serving, outages>>

-----------------------------------------------------------------------------
NoState == "no state"
NoAlert == [id |-> "none", at |-> 0, state |-> NoState, allowed |-> FALSE]
States == {a.state : a \in Alerts}
Times == {a.at : a \in Alerts}
Refusals == {"EVENT_OUT_OF_ORDER", "EVENT_STATE_CONFLICT", "WORKOS_ALLOWLIST_REJECTED"}
Errors == {"EVENT_OUT_OF_ORDER", "CONFLICT", "STORAGE_UNAVAILABLE"}

Handling ==
  [pc : {"waiting", "normalizing", "pinging", "writing", "rereading", "burying", "answering"},
   alert : Alerts \cup {NoAlert}, try : 0..2, error : Errors \cup {"none"},
   answer : {"none", "accepted", "duplicate", "dead_lettered", "conflict", "unavailable"},
   incident : 0..Len(incidents)]

Waiting == [pc |-> "waiting", alert |-> NoAlert, try |-> 0, error |-> "none",
            answer |-> "none", incident |-> 0]

IngestTypeOK ==
  /\ membership \in BOOLEAN
  /\ incidents \in Seq([alert : Alerts, previous : States \cup {NoState}])
  /\ observed \in [at : {0} \cup Times, state : States \cup {NoState}, version : Nat]
  /\ positions \subseteq [at : Times, state : States, incident : DOMAIN incidents]
  /\ letters \subseteq (Alerts \X Refusals)
  /\ serving \in [Requests -> Handling]
  /\ outages \in 0..MaxOutages

IngestInit ==
  /\ membership \in BOOLEAN
  /\ incidents = <<>>
  /\ observed = [at |-> 0, state |-> NoState, version |-> 0]
  /\ positions = {}
  /\ letters = {}
  /\ serving = [q \in Requests |-> Waiting]
  /\ outages = 0

-----------------------------------------------------------------------------
records == <<membership, incidents, observed, positions>>

Outage == outages < MaxOutages /\ outages' = outages + 1

At(q, pc) == serving[q].pc = pc
ServingTo(q, pc) == serving' = [serving EXCEPT ![q].pc = pc]
Answers(q, answer, n) ==
  serving' = [serving EXCEPT ![q].pc = "answering", ![q].answer = answer, ![q].incident = n]
Fails(q, error) == serving' = [serving EXCEPT ![q].pc = "rereading", ![q].error = error]

\* The provider delivers, or delivers again.
Arrive(q, a) ==
  /\ At(q, "waiting")
  /\ serving' = [serving EXCEPT ![q] = [Waiting EXCEPT !.pc = "normalizing", !.alert = a]]
  /\ UNCHANGED <<records, letters, outages>>

\* normalizeWorkOsReal; the dead letter of an event outside the allowlist is
\* persisted before it is answered.
Normalize(q) ==
  LET a == serving[q].alert IN
  /\ At(q, "normalizing")
  /\ \/ a.allowed /\ ServingTo(q, "pinging") /\ UNCHANGED <<letters, outages>>
     \/ /\ ~a.allowed
        /\ letters' = letters \cup {<<a, "WORKOS_ALLOWLIST_REJECTED">>}
        /\ Answers(q, "dead_lettered", 0)
        /\ UNCHANGED outages
     \/ ~a.allowed /\ Outage /\ Answers(q, "unavailable", 0) /\ UNCHANGED letters
  /\ UNCHANGED records

\* The probe before the transaction is not retried.
Ping(q) ==
  /\ At(q, "pinging")
  /\ \/ ServingTo(q, "writing") /\ UNCHANGED outages
     \/ Outage /\ Answers(q, "unavailable", 0)
  /\ UNCHANGED <<records, letters>>

-----------------------------------------------------------------------------
(* createIncidentFromAlertResult: its transaction *)

SameIdentity(a) == {n \in DOMAIN incidents : incidents[n].alert.id = a.id}
NewerInStream(a) == \E n \in DOMAIN incidents : incidents[n].alert.at > a.at
SamePosition(a) == {p \in positions : p.at = a.at}

\* Mutant: a role that did not change is a transition too.
PredecessorOfAny(a) == observed.state

\* reserveWorkosObservedState: the role observed before, when it is another one.
Predecessor(a) ==
  IF membership /\ observed.state # a.state THEN observed.state ELSE NoState

\* The incident, its alert and snapshot, the observed state and its position, the
\* timeline entry and the outbox entry are one transaction.
Insert(a) ==
  /\ incidents' = Append(incidents, [alert |-> a, previous |-> Predecessor(a)])
  /\ observed' = [at |-> a.at, state |-> a.state, version |-> observed.version + 1]
  /\ positions' = positions \cup {[at |-> a.at, state |-> a.state, incident |-> Len(incidents) + 1]}
  /\ UNCHANGED membership

\* Nothing is written: the event is known, or its place in the order is taken.
Known(a, n) ==
  \/ n \in SameIdentity(a) /\ incidents[n].alert = a
  \/ /\ SameIdentity(a) = {} /\ ~NewerInStream(a)
     /\ \E p \in SamePosition(a) : p.state = a.state /\ p.incident = n

Refused(a, error) ==
  \/ error = "CONFLICT" /\ \E n \in SameIdentity(a) : incidents[n].alert # a
  \/ error = "EVENT_OUT_OF_ORDER" /\ SameIdentity(a) = {} /\ NewerInStream(a)
  \/ /\ error = "CONFLICT" /\ SameIdentity(a) = {} /\ ~NewerInStream(a)
     /\ \E p \in SamePosition(a) : p.state # a.state

\* The predecessor's row is updated only by a later event.
Fresh(a) ==
  SameIdentity(a) = {} /\ ~NewerInStream(a) /\ SamePosition(a) = {} /\ observed.at < a.at

Write(q) ==
  LET a == serving[q].alert IN
  /\ At(q, "writing")
  /\ \/ \E n \in DOMAIN incidents :
          Known(a, n) /\ Answers(q, "duplicate", n) /\ UNCHANGED <<records, outages>>
     \/ \E error \in Errors :
          Refused(a, error) /\ Fails(q, error) /\ UNCHANGED <<records, outages>>
     \/ Fresh(a) /\ Insert(a) /\ Answers(q, "accepted", Len(incidents) + 1) /\ UNCHANGED outages
     \/ Outage /\ Fails(q, "STORAGE_UNAVAILABLE") /\ UNCHANGED records
     \/ Fresh(a) /\ Outage /\ Insert(a) /\ Fails(q, "STORAGE_UNAVAILABLE")
  /\ UNCHANGED letters

\* A storage that was busy is asked again, at most three times in all.
Again(q) ==
  \/ serving[q].try < 2 /\ serving' = [serving EXCEPT ![q].pc = "writing", ![q].try = @ + 1]
  \/ Answers(q, "unavailable", 0)

\* What failed may have been committed, by this request or by another; a failure of
\* the storage, which the read may meet too, may be tried again.
Reread(q) ==
  LET a == serving[q].alert
      Found == {n \in DOMAIN incidents : incidents[n].alert = a}
      Unable == serving[q].error = "STORAGE_UNAVAILABLE"
  IN
  /\ At(q, "rereading")
  /\ \/ \E n \in Found : Answers(q, "duplicate", n) /\ UNCHANGED outages
     \/ Found = {} /\ Unable /\ Again(q) /\ UNCHANGED outages
     \/ Outage /\ Again(q)
     \/ Found = {} /\ ~Unable /\ ServingTo(q, "burying") /\ UNCHANGED outages
  /\ UNCHANGED <<records, letters>>

\* The dead letter of an event that came too late, or contradicts another.
Bury(q) ==
  LET late == serving[q].error = "EVENT_OUT_OF_ORDER" IN
  /\ At(q, "burying")
  /\ \/ /\ letters' = letters \cup
              {<<serving[q].alert, IF late THEN "EVENT_OUT_OF_ORDER" ELSE "EVENT_STATE_CONFLICT">>}
        /\ Answers(q, IF late THEN "dead_lettered" ELSE "conflict", 0)
        /\ UNCHANGED outages
     \/ Outage /\ Answers(q, "unavailable", 0) /\ UNCHANGED letters
  /\ UNCHANGED records

Reply(q) ==
  /\ At(q, "answering")
  /\ serving' = [serving EXCEPT ![q] = Waiting]
  /\ UNCHANGED <<records, letters, outages>>

RequestDies(q) ==
  /\ ~At(q, "waiting")
  /\ Outage
  /\ serving' = [serving EXCEPT ![q] = Waiting]
  /\ UNCHANGED <<records, letters>>

-----------------------------------------------------------------------------
HandleWebhook(q) ==
  Normalize(q) \/ Ping(q) \/ Write(q) \/ Reread(q) \/ Bury(q) \/ Reply(q) \/ RequestDies(q)

IngestNext ==
  \E q \in Requests : HandleWebhook(q) \/ \E a \in Alerts : Arrive(q, a)

IngestSpec == IngestInit /\ [][IngestNext]_ingestVars
=============================================================================
