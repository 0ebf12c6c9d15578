---------------------------- MODULE RetentionProps ----------------------------
(***************************************************************************)
(* What retention must guarantee.                                          *)
(***************************************************************************)
EXTENDS Retention

\* No source starves: however many records of other sources keep aging, the sweeps' own
\* audit among them, whoever sweeps and wherever a pass was cut off, a source with aged
\* records is passed over by fewer sweeps in a row than there are sources.
TurnsComeRound == \A s \in Sources : skipped[s] < SourceCount
=============================================================================
