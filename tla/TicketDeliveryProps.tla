-------------------------- MODULE TicketDeliveryProps --------------------------
(***************************************************************************)
(* What TicketDelivery must guarantee.                                     *)
(***************************************************************************)
EXTENDS TicketDelivery

\* Timeouts, lost answers, crashes and reclaimed leases never open a second issue for
\* the incident while the ledger is not misled: no delivery outlasted its lease, no error
\* hid a request, no search missed an issue.  The mock never stores an operation twice,
\* whatever ends or arrives late.
OneTicket ==
  /\ kind = "linear" /\ ~misled => Len(remote) <= 1
  /\ kind = "mock" => \A i, j \in 1..Len(remote) : i # j => remote[i].op # remote[j].op

\* A row is marked delivered only with the reference of something the provider holds, and
\* that shows this generation or a newer one: the mock's always, Linear's while the
\* ledger is not misled.
SucceededIsRemote ==
  \A o \in Ops : row[o].status = "succeeded" =>
    /\ row[o].ref \in 1..Len(remote)
    /\ kind = "mock" \/ ~misled => remote[row[o].ref].gen >= row[o].gen

\* "retrying create here could duplicate an issue that committed after the local
\* deadline": an incident has one issue, whatever failed and arrived late.
NoSecondIssue == kind = "linear" => Len(remote) <= 1

\* Nothing is delivered about the end of an incident whose ticket was not opened.
FinalsFollowOpen ==
  \A o \in Finals : row[o].status # "none" => row["open"].status = "succeeded"

Newest == IF remote = <<>> THEN 0 ELSE remote[Len(remote)].gen
Ticket == INSTANCE TicketContract
            WITH opened <- IF remote = <<>> THEN 0
                           ELSE IF kind = "linear" THEN Len(remote) ELSE 1,
                 shown <- Newest,
                 misled <- kind = "linear" /\ misled
TicketKept == Ticket!TicketSpec

Concluded(o) == row[o].status \in {"succeeded", "exhausted", "uncertain"}
Underway(o) == row[o].status \in {"retry", "delivering"}

\* deliverOne takes an uncertain delivery, which has no next attempt, before any
\* that has one, and one that stays uncertain keeps it from taking others.  With Linear
\* the claims of one left behind by the version prolong a lease the others only share.
Occupied ==
  \E o \in Ops :
    row[o].status = "uncertain" \/ (kind = "linear" /\ Active(o) /\ row[o].gen # version)

\* "audits a transient external failure and converges by the same delivery key":
\* a delivery that failed or was interrupted is concluded in the end.
DeliveryConcludes ==
  \A o \in Ops : Underway(o) ~> (Concluded(o) \/ Occupied)

\* The same as far as it is true, for both providers: again and again no delivery of the
\* incident's present version is left half done, unless another one is in its way.
DeliveryConcludesInTime ==
  []<>(\A o \in Ops : (Underway(o) /\ version = row[o].gen) => Occupied)
=============================================================================
