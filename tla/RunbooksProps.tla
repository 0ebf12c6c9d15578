---------------------------- MODULE RunbooksProps ----------------------------
(***************************************************************************)
(* What the runbook catalogue must guarantee.                              *)
(***************************************************************************)
EXTENDS Runbooks

\* However activations, rollbacks and cleanups overlap, the events of a kind are an
\* unbroken chain, each replacing what the one before had activated at the revision
\* its command had seen, the last one names the only active generation, and no
\* generation whose index may be deleted is ever the active one.
CatalogueIsConsistent ==
  /\ activation.revision = Len(events)
  /\ activation.gen = IF events = <<>> THEN None ELSE events[Len(events)].to
  /\ \A n \in DOMAIN events :
       /\ events[n].expected = n - 1
       /\ events[n].from = IF n = 1 THEN None ELSE events[n - 1].to
  /\ \A g \in Generations :
       /\ (generation[g].state = "active") = (activation.gen = g)
       /\ ~Unclaimed(g) => generation[g].state \in {"failed", "retired"}

\* The active generation can be searched, but for the one case in which the code
\* deletes it: an indexer that had created it failed while another activated it.
ActiveIsSearchable ==
  \A g \in Generations :
    activation.gen = g => generation[g].indexed /\ (index[g] = "full" \/ g \in dropped)

\* A retrieval is answered from the generation that was the active one at the
\* revision it selected, under the lease of its latest attempt, and cleanup deletes
\* no index under an attempt that can still succeed.
RetrievalIsAuthoritative ==
  /\ retrieval.gen # None =>
       /\ retrieval.revision \in DOMAIN events
       /\ events[retrieval.revision].to = retrieval.gen
  /\ \A r \in Readers :
       reader[r].pc = "persisting" /\ Holds(r) =>
         index[reader[r].gen] = "full" \/ reader[r].gen \in dropped
  /\ \A r, s \in Readers :
       reader[r].pc = "persisting" /\ reader[s].pc = "persisting" /\ Holds(r) /\ Holds(s) => r = s
=============================================================================
