---------------------------- MODULE MCSideBySide ----------------------------
(***************************************************************************)
(* Components that share nothing, checked in one run: each behaviour is a  *)
(* behaviour of one of them, the others rest in their initial state.       *)
(* The runbook catalogue is four of them and the read model two, since all *)
(* their processes and failures at once are too many.                      *)
(***************************************************************************)
EXTENDS IdentityProps, RunbooksProps, AlertIngestProps, GeoIpProps, RetentionProps,
        AnalyticsProps, InvestigationProps, TLC

CONSTANTS c1, c2, g1, g2, i1, i2, r1, r2, q1, q2, p1, p2, a1, a2, x1, x2

VARIABLE part

MCCallers == {c1, c2}
MCGenerations == {g1, g2}
MCIndexers == {i1, i2}
MCReaders == {r1, r2}
MCRequests == {q1, q2}
MCProcesses == {p1, p2}
MCReports == {a1, a2}
MCExecutions == {x1, x2}

\* Two orders of the same events, one repeated with another id, one contradicted, and one
\* that is not allowed.
Delivery(id, at, state, allowed) == [id |-> id, at |-> at, state |-> state, allowed |-> allowed]
MCAlerts ==
  {Delivery("a", 1, "admin", TRUE), Delivery("b", 2, "member", TRUE),
   Delivery("b2", 2, "member", TRUE), Delivery("c", 2, "viewer", TRUE),
   Delivery("x", 3, "owner", FALSE)}

Record(source, n) == [source |-> source, n |-> n]
MCRecords == {Record(1, 1), Record(1, 2), Record(2, 1), Record(3, 1)}

\* What the providers may answer of one login: the cloud audit log two countries with two
\* histories, the identity provider the session, with or without a country looked up.
Fact(source, type, value, provenance) ==
  [source |-> source, type |-> type, value |-> value, provenance |-> provenance,
   complete |-> TRUE]
MCEvidenceSources == {"identity", "cloud"}
Subject == Fact("identity", "session.subject", "user", "provider")
Login(country, abnormal) ==
  {Fact("cloud", "login.country", country, "provider"),
   Fact("cloud", "session.abnormalHistory", abnormal, "rule-v1")}
MCReadings ==
  [identity |-> {{Subject}, {Subject, Fact("identity", "login.country", "CA", "policy-v1")}},
   cloud |-> {Login("CA", "yes"), Login("US", "no")}]

analytics == {"reports", "killed report"}
runbooks == {"catalogue", "troubles", "rollbacks", "overlapping retrievals"}

Init ==
  /\ part \in {"identity", "ingest", "geoip", "retention", "triage"} \cup runbooks \cup analytics
  /\ IdentityInit /\ RunbooksInit /\ IngestInit /\ GeoInit /\ RetentionInit /\ AnalyticsInit
  /\ InvestigationInit
  /\ part # "identity" => operation = "revoke_session" /\ ~later
  /\ part # "ingest" => membership

IdentityPart ==
  /\ part = "identity" /\ IdentityNext
  /\ UNCHANGED <<part, runbookVars, ingestVars, geoVars, retentionVars, analyticsVars,
                 investigationVars>>

\* Two indexers; troubles; rollbacks with a reader; two readers.
RunbooksPart ==
  /\ part \in runbooks /\ RunbooksNext
  /\ part = "catalogue" => UNCHANGED reader
  /\ part # "catalogue" => UNCHANGED indexer[i2]
  /\ part # "overlapping retrievals" => UNCHANGED reader[r2]
  /\ part \in {"rollbacks", "overlapping retrievals"} => UNCHANGED troubles
  /\ part # "rollbacks" => activation'.revision <= 2
  /\ UNCHANGED <<part, identityVars, ingestVars, geoVars, retentionVars, analyticsVars,
                 investigationVars>>

\* Requests overlap on a membership; the events of a session have no predecessor to lose.
IngestPart ==
  /\ part = "ingest" /\ IngestNext
  /\ ~membership => UNCHANGED serving[q2]
  /\ UNCHANGED <<part, identityVars, runbookVars, geoVars, retentionVars, analyticsVars,
                 investigationVars>>

GeoIpPart ==
  /\ part = "geoip" /\ GeoNext
  /\ UNCHANGED <<part, identityVars, runbookVars, ingestVars, retentionVars, analyticsVars,
                 investigationVars>>

RetentionPart ==
  /\ part = "retention" /\ RetentionNext
  /\ UNCHANGED <<part, identityVars, runbookVars, ingestVars, geoVars, analyticsVars,
                 investigationVars>>

AnalyticsPart ==
  /\ part \in analytics /\ AnalyticsNext
  /\ IF part = "reports" THEN UNCHANGED kills ELSE UNCHANGED report[a2]
  /\ UNCHANGED <<part, identityVars, runbookVars, ingestVars, geoVars, retentionVars,
                 investigationVars>>

TriagePart ==
  /\ part = "triage" /\ InvestigationNext
  /\ UNCHANGED <<part, identityVars, runbookVars, ingestVars, geoVars, retentionVars,
                 analyticsVars>>

Next ==
  IdentityPart \/ RunbooksPart \/ IngestPart \/ GeoIpPart \/ RetentionPart \/ AnalyticsPart
  \/ TriagePart

vars == <<part, identityVars, runbookVars, ingestVars, geoVars, retentionVars, analyticsVars,
          investigationVars>>

\* IdentityFairness, for the part it concerns.
Fairness ==
  /\ WF_identityVars(part = "identity" /\ Sweep)
  /\ WF_identityVars(part = "identity" /\ LeaseExpires)
  /\ \A c \in Callers : /\ WF_identityVars(part = "identity" /\ StartCall(c))
                        /\ WF_identityVars(part = "identity" /\ Execute(c))

Spec == Init /\ [][Next]_vars /\ Fairness

\* The type invariants of all parts, with the attempts of an action within their budget.
TypeOK ==
  /\ IdentityTypeOK /\ RunbooksTypeOK /\ IngestTypeOK /\ GeoTypeOK /\ RetentionTypeOK
  /\ AnalyticsTypeOK /\ InvestigationTypeOK
=============================================================================
