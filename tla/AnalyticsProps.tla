---------------------------- MODULE AnalyticsProps ----------------------------
(***************************************************************************)
(* What the analytics read model must guarantee.                           *)
(***************************************************************************)
EXTENDS Analytics

\* Whatever pages are ingested, late, twice or out of turn, and however rebuilds
\* overlap, replace a file in use or are killed, the read model is the journal up to its
\* cursor, each entry once, and only what has no time it was observed at is withheld.
ReadModelIsPrefix ==
  path # 0 =>
    LET content == file[path] IN
    /\ content.last <= Len(journal)
    /\ content.facts = {n \in 1..content.last : journal[n] = "fact"}
    /\ content.withheld = {n \in 1..content.last : journal[n] = "withheld"}
=============================================================================
