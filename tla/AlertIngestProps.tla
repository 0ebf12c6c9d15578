--------------------------- MODULE AlertIngestProps ---------------------------
(***************************************************************************)
(* What the ingest of WorkOS events must guarantee.                        *)
(***************************************************************************)
EXTENDS AlertIngest

\* However events are repeated, reordered and raced, and whatever fails, incidents
\* follow the order of the events they report, there is one per event and per observed
\* position, the role a restore would bring back is the one of the incident before and
\* another one than the observed, whoever is told of an incident finds the event's
\* state in it, and no dead letter is an incident as well.
HistoryIsTrue ==
  /\ \A m, n \in DOMAIN incidents :
       m < n => /\ incidents[m].alert.at < incidents[n].alert.at
                /\ incidents[m].alert.id # incidents[n].alert.id
  /\ \A n \in DOMAIN incidents :
       LET before == IF n = 1 THEN NoState ELSE incidents[n - 1].alert.state IN
         incidents[n].previous =
           IF membership /\ before # incidents[n].alert.state THEN before ELSE NoState
  /\ \A q \in Requests :
       At(q, "answering") /\ serving[q].incident # 0 =>
         /\ incidents[serving[q].incident].alert.at = serving[q].alert.at
         /\ incidents[serving[q].incident].alert.state = serving[q].alert.state
  /\ \A n \in DOMAIN incidents, l \in letters : l[1] # incidents[n].alert
=============================================================================
