------------------------------- MODULE Runbooks -------------------------------
(***************************************************************************)
(* The runbook catalogue of one incident kind: generations are staged,     *)
(* indexed, activated, rolled back and cleaned up by commands of           *)
(* scripts/runbooks.mts that may overlap (runbooks/indexer.ts,             *)
(* runbook-lifecycle.ts, db/runbook-*-operations.ts), while an             *)
(* investigation retrieves from the active one (runbooks/retrieve.ts,      *)
(* db/runbook-retrieval-*.ts).                                             *)
(*                                                                         *)
(* The operational database and the vector index are two stores: each      *)
(* action is one transaction of the first or one call of the second.       *)
(* Chunks are abstracted to whether the index holds them all; hashes that  *)
(* tie rows to one another are the equality of what they tie.              *)
(***************************************************************************)
EXTENDS Naturals, Sequences

CONSTANTS
  Generations,  \* generations of the kind's runbook, each from its own source
  Indexers,     \* overlapping "index" commands
  Readers,      \* deliveries of one run that execute the retrieval step
  MaxRevision,  \* activations and rollbacks (bound)
  MaxClaims,    \* attempts of the retrieval (bound)
  MaxTroubles   \* failures of the vector store and crashes (bound)

None == "none"

ASSUME RunbooksAssumption ==
  /\ MaxRevision \in Nat /\ MaxClaims \in Nat \ {0} /\ MaxTroubles \in Nat
  /\ None \notin Generations

VARIABLES
  generation,   \* runbook_generations, with the cleanup claim and indexed_at
  activation,   \* runbook_activations
  events,       \* runbook_activation_events
  index,        \* the vector index of each generation
  dropped,      \* generations whose index a failing indexer deleted (history)
  indexer,
  operator,     \* a "rollback" command
  cleaner,      \* a "cleanup" command
  retrieval,    \* runbook_retrievals: the row of the run's query
  reader,
  troubles

runbookVars == <<generation, activation, events, index, dropped, indexer, operator, cleaner,
                 retrieval, reader, troubles>>

-----------------------------------------------------------------------------
Revisions == 0..MaxRevision
Codes == {"unavailable", "ineligible", "integrity"}
Causes == Codes \cup {"missing", "score"}

GenerationRow ==
  [state : {"absent", "staged", "active", "retired", "failed"},
   code : Codes \cup {None}, indexed : BOOLEAN, cleanup : {None, "claimed", "deleted"}]

Event == [operation : {"activate", "rollback"}, from : Generations \cup {None},
          to : Generations, expected : Revisions]

IndexerState ==
  [pc : {"off", "staging", "resolving", "ensuring", "upserting", "verifying", "marking",
         "activating", "failing", "dropping"},
   gen : Generations \cup {None}, expected : Revisions, created : BOOLEAN,
   code : Codes \cup {None}]

OperatorState ==
  [pc : {"off", "verifying", "switching"}, gen : Generations \cup {None}, expected : Revisions]

CleanerState ==
  [pc : {"off", "revalidating", "deleting", "completing"}, gen : Generations \cup {None}]

RetrievalRow ==
  [status : {"absent", "in_progress", "succeeded", "manual_review", "failed"},
   code : Causes \cup {None}, gen : Generations \cup {None}, revision : Revisions,
   attempt : 0..MaxClaims, live : BOOLEAN]

ReaderState ==
  [pc : {"off", "resolving", "claiming", "listing", "querying", "persisting", "auditing"},
   gen : Generations \cup {None}, revision : Revisions, attempt : 0..MaxClaims,
   code : Causes \cup {None}]

RunbooksTypeOK ==
  /\ generation \in [Generations -> GenerationRow]
  /\ activation \in [gen : Generations \cup {None}, revision : Revisions]
  /\ events \in Seq(Event)
  /\ index \in [Generations -> {None, "empty", "full"}]
  /\ dropped \subseteq Generations
  /\ indexer \in [Indexers -> IndexerState]
  /\ operator \in OperatorState
  /\ cleaner \in CleanerState
  /\ retrieval \in RetrievalRow
  /\ reader \in [Readers -> ReaderState]
  /\ troubles \in 0..MaxTroubles

NoIndexer == [pc |-> "off", gen |-> None, expected |-> 0, created |-> FALSE, code |-> None]
NoOperator == [pc |-> "off", gen |-> None, expected |-> 0]
NoCleaner == [pc |-> "off", gen |-> None]
NoReader == [pc |-> "off", gen |-> None, revision |-> 0, attempt |-> 0, code |-> None]

RunbooksInit ==
  /\ generation = [g \in Generations |-> [state |-> "absent", code |-> None,
                                           indexed |-> FALSE, cleanup |-> None]]
  /\ activation = [gen |-> None, revision |-> 0]
  /\ events = <<>>
  /\ index = [g \in Generations |-> None]
  /\ dropped = {}
  /\ indexer = [i \in Indexers |-> NoIndexer]
  /\ operator = NoOperator
  /\ cleaner = NoCleaner
  /\ retrieval = [status |-> "absent", code |-> None, gen |-> None, revision |-> 0,
                  attempt |-> 0, live |-> FALSE]
  /\ reader = [r \in Readers |-> NoReader]
  /\ troubles = 0

-----------------------------------------------------------------------------
catalogue == <<generation, activation, events>>
vectors == <<index, dropped>>
commands == <<indexer, operator, cleaner>>
reading == <<retrieval, reader>>

Trouble == troubles < MaxTroubles /\ troubles' = troubles + 1

Unclaimed(g) == generation[g].cleanup = None
WasActive(g) == \E n \in DOMAIN events : events[n].to = g

IndexerTo(i, pc) == indexer' = [indexer EXCEPT ![i].pc = pc]
IndexerFails(i, code) == indexer' = [indexer EXCEPT ![i].pc = "failing", ![i].code = code]

-----------------------------------------------------------------------------
(* indexRunbook *)

\* getActivationRevision is read before the generation is staged.
StartIndexing(i, g) ==
  /\ indexer[i].pc = "off"
  /\ indexer' = [indexer EXCEPT ![i] = [NoIndexer EXCEPT !.pc = "staging", !.gen = g,
                                                       !.expected = activation.revision]]
  /\ UNCHANGED <<catalogue, vectors, operator, cleaner, reading, troubles>>

Restageable(g) ==
  generation[g].state = "failed" /\ generation[g].code = "unavailable" /\ Unclaimed(g)

\* stageRunbookGeneration: what ended in an outage may be staged again, what was
\* retired or refused may not (CONFLICT, before anything is undone).
StageGeneration(i) ==
  LET g == indexer[i].gen IN
  /\ indexer[i].pc = "staging"
  /\ \/ /\ generation[g].state = "absent"
        /\ generation' = [generation EXCEPT ![g].state = "staged"]
        /\ indexer' = [indexer EXCEPT ![i].pc = "ensuring", ![i].created = TRUE]
     \/ /\ generation[g].state \in {"staged", "active"}
        /\ IndexerTo(i, "resolving")
        /\ UNCHANGED generation
     \/ /\ Restageable(g)
        /\ generation' = [generation EXCEPT ![g].state = "staged", ![g].code = None]
        /\ IndexerTo(i, "resolving")
     \/ /\ generation[g].state \in {"failed", "retired"} /\ ~Restageable(g)
        /\ indexer' = [indexer EXCEPT ![i] = NoIndexer]
        /\ UNCHANGED generation
  /\ UNCHANGED <<activation, events, vectors, operator, cleaner, reading, troubles>>

\* A generation that is active already is not indexed again.
ResolveStaged(i) ==
  /\ indexer[i].pc = "resolving"
  /\ indexer' = IF activation.gen = indexer[i].gen
                THEN [indexer EXCEPT ![i] = NoIndexer]
                ELSE [indexer EXCEPT ![i].pc = "ensuring"]
  /\ UNCHANGED <<catalogue, vectors, operator, cleaner, reading, troubles>>

EnsureIndex(i) ==
  LET g == indexer[i].gen IN
  /\ indexer[i].pc = "ensuring"
  /\ index' = [index EXCEPT ![g] = IF @ = None THEN "empty" ELSE @]
  /\ IndexerTo(i, "upserting")
  /\ UNCHANGED <<catalogue, dropped, operator, cleaner, reading, troubles>>

Upsert(i) ==
  LET g == indexer[i].gen IN
  /\ indexer[i].pc = "upserting"
  /\ IF index[g] = None
     THEN IndexerFails(i, "unavailable") /\ UNCHANGED index
     ELSE IndexerTo(i, "verifying") /\ index' = [index EXCEPT ![g] = "full"]
  /\ UNCHANGED <<catalogue, dropped, operator, cleaner, reading, troubles>>

\* verifyVectorReadback
ReadBack(i) ==
  LET g == indexer[i].gen IN
  /\ indexer[i].pc = "verifying"
  /\ CASE index[g] = "full"  -> IndexerTo(i, "marking")
       [] index[g] = "empty" -> IndexerFails(i, "integrity")
       [] index[g] = None    -> IndexerFails(i, "unavailable")
  /\ UNCHANGED <<catalogue, vectors, operator, cleaner, reading, troubles>>

MarkIndexed(i) ==
  /\ indexer[i].pc = "marking"
  /\ generation' = [generation EXCEPT ![indexer[i].gen].indexed = TRUE]
  /\ IndexerTo(i, "activating")
  /\ UNCHANGED <<activation, events, vectors, operator, cleaner, reading, troubles>>

\* The generation g takes the place of the active one.
Switch(g, operation, expected) ==
  /\ activation' = [gen |-> g, revision |-> expected + 1]
  /\ events' = Append(events, [operation |-> operation, from |-> activation.gen, to |-> g,
                               expected |-> expected])
  /\ generation' = [h \in Generations |->
       CASE h = g -> [generation[h] EXCEPT !.state = "active", !.code = None]
         [] h = activation.gen /\ generation[h].state = "active" /\ h # g ->
              [generation[h] EXCEPT !.state = "retired"]
         [] OTHER -> generation[h]]

\* Mutant: a revision read long ago is no obstacle.
AnyRevision(g, expected) ==
  /\ generation[g].state \in {"staged", "active"} /\ Unclaimed(g) /\ generation[g].indexed
  /\ activation.gen # g

MayActivate(g, expected) ==
  /\ generation[g].state \in {"staged", "active"} /\ Unclaimed(g) /\ generation[g].indexed
  /\ activation.gen # g /\ activation.revision = expected

\* activateRunbookGeneration
ActivateGeneration(i) ==
  LET g == indexer[i].gen IN
  /\ indexer[i].pc = "activating"
  /\ \/ /\ MayActivate(g, indexer[i].expected)
        /\ activation.revision < MaxRevision
        /\ Switch(g, "activate", indexer[i].expected)
        /\ indexer' = [indexer EXCEPT ![i] = NoIndexer]
     \/ /\ generation[g].state = "active" /\ Unclaimed(g) /\ activation.gen = g
        /\ indexer' = [indexer EXCEPT ![i] = NoIndexer]
        /\ UNCHANGED catalogue
     \/ /\ ~MayActivate(g, indexer[i].expected)
        /\ ~(generation[g].state = "active" /\ Unclaimed(g) /\ activation.gen = g)
        /\ IndexerFails(i, "ineligible")
        /\ UNCHANGED catalogue
  /\ UNCHANGED <<vectors, operator, cleaner, reading, troubles>>

IndexingFails(i) ==
  /\ indexer[i].pc \in {"ensuring", "upserting", "verifying", "marking"}
  /\ Trouble
  /\ IndexerFails(i, "unavailable")
  /\ UNCHANGED <<catalogue, vectors, operator, cleaner, reading>>

\* markRunbookGenerationFailed; the index of a generation this command created is
\* deleted, whatever became of the generation in the meantime.
MarkFailed(i) ==
  LET g == indexer[i].gen IN
  /\ indexer[i].pc = "failing"
  /\ generation' = IF generation[g].state = "staged"
                   THEN [generation EXCEPT ![g].state = "failed", ![g].code = indexer[i].code]
                   ELSE generation
  /\ indexer' = [indexer EXCEPT ![i] = IF indexer[i].created
                                       THEN [indexer[i] EXCEPT !.pc = "dropping"]
                                       ELSE NoIndexer]
  /\ UNCHANGED <<activation, events, vectors, operator, cleaner, reading, troubles>>

DropIndex(i) ==
  LET g == indexer[i].gen IN
  /\ indexer[i].pc = "dropping"
  /\ index' = [index EXCEPT ![g] = None]
  /\ dropped' = dropped \cup {g}
  /\ indexer' = [indexer EXCEPT ![i] = NoIndexer]
  /\ UNCHANGED <<catalogue, operator, cleaner, reading, troubles>>

IndexerCrashes(i) ==
  /\ indexer[i].pc # "off"
  /\ Trouble
  /\ indexer' = [indexer EXCEPT ![i] = NoIndexer]
  /\ UNCHANGED <<catalogue, vectors, operator, cleaner, reading>>

-----------------------------------------------------------------------------
(* rollbackRunbookGeneration *)

\* resolveRollbackGeneration, and the revision the operator gave.
StartRollback(g) ==
  /\ operator.pc = "off"
  /\ generation[g].state = "retired" /\ WasActive(g)
  /\ operator' = [pc |-> "verifying", gen |-> g, expected |-> activation.revision]
  /\ UNCHANGED <<catalogue, vectors, indexer, cleaner, reading, troubles>>

\* verifyGenerationIndex
VerifyIndex ==
  /\ operator.pc = "verifying"
  /\ operator' = IF generation[operator.gen].indexed /\ index[operator.gen] = "full"
                 THEN [operator EXCEPT !.pc = "switching"] ELSE NoOperator
  /\ UNCHANGED <<catalogue, vectors, indexer, cleaner, reading, troubles>>

\* Mutant: a generation that is being cleaned up is rolled back to.
RollbackUnclaimed(g, expected) ==
  /\ generation[g].state = "retired" /\ generation[g].indexed /\ WasActive(g)
  /\ activation.gen # g /\ activation.revision = expected

MayRollback(g, expected) ==
  /\ generation[g].state = "retired" /\ generation[g].indexed /\ WasActive(g) /\ Unclaimed(g)
  /\ activation.gen # g /\ activation.revision = expected

\* rollbackRunbookGenerationCas
RollbackCas ==
  /\ operator.pc = "switching"
  /\ \/ /\ MayRollback(operator.gen, operator.expected)
        /\ activation.revision < MaxRevision
        /\ Switch(operator.gen, "rollback", operator.expected)
     \/ ~MayRollback(operator.gen, operator.expected) /\ UNCHANGED catalogue
  /\ operator' = NoOperator
  /\ UNCHANGED <<vectors, indexer, cleaner, reading, troubles>>

-----------------------------------------------------------------------------
(* cleanupRunbookGeneration *)

UnderRetrieval(g) == retrieval.status = "in_progress" /\ retrieval.live /\ retrieval.gen = g

\* assertCleanupEligible
MayClean(g) ==
  /\ generation[g].state \in {"failed", "retired"}
  /\ activation.gen # g
  /\ ~UnderRetrieval(g)

\* claimRunbookGenerationCleanup; a claim that exists is taken up again.
ClaimCleanup(g) ==
  /\ cleaner.pc = "off"
  /\ MayClean(g) /\ generation[g].cleanup # "deleted"
  /\ generation' = [generation EXCEPT ![g].cleanup = "claimed"]
  /\ cleaner' = [pc |-> "revalidating", gen |-> g]
  /\ UNCHANGED <<activation, events, vectors, indexer, operator, reading, troubles>>

\* revalidateRunbookGenerationCleanup
Revalidate ==
  /\ cleaner.pc = "revalidating"
  /\ cleaner' = IF MayClean(cleaner.gen) /\ generation[cleaner.gen].cleanup = "claimed"
                THEN [cleaner EXCEPT !.pc = "deleting"] ELSE NoCleaner
  /\ UNCHANGED <<catalogue, vectors, indexer, operator, reading, troubles>>

DeleteIndex ==
  /\ cleaner.pc = "deleting"
  /\ index' = [index EXCEPT ![cleaner.gen] = None]
  /\ cleaner' = [cleaner EXCEPT !.pc = "completing"]
  /\ UNCHANGED <<catalogue, dropped, indexer, operator, reading, troubles>>

\* completeRunbookGenerationCleanup
CompleteCleanup ==
  /\ cleaner.pc = "completing"
  /\ generation' = [generation EXCEPT ![cleaner.gen].cleanup = "deleted"]
  /\ cleaner' = NoCleaner
  /\ UNCHANGED <<activation, events, vectors, indexer, operator, reading, troubles>>

CleanupFails ==
  /\ cleaner.pc # "off"
  /\ Trouble
  /\ cleaner' = NoCleaner
  /\ UNCHANGED <<catalogue, vectors, indexer, operator, reading>>

-----------------------------------------------------------------------------
(* retrieveRunbook *)

ReaderTo(r, pc) == reader' = [reader EXCEPT ![r].pc = pc]
ReaderStops(r) == reader' = [reader EXCEPT ![r] = NoReader]
Audits(r, code) == reader' = [reader EXCEPT ![r].pc = "auditing", ![r].code = code]

\* The existing row may be tried again: its selection is complete and not being
\* cleaned up, and the last attempt met an outage or lost its lease.
Retriable ==
  /\ retrieval.gen # None
  /\ Unclaimed(retrieval.gen)
  /\ \/ retrieval.status = "failed" /\ retrieval.code = "unavailable"
     \/ retrieval.status = "in_progress" /\ ~retrieval.live

\* claimRetrievalSelection over an existing row: the selection stays, the attempt
\* and its lease are new.
Reclaim(r) ==
  /\ retrieval.attempt < MaxClaims
  /\ retrieval' = [retrieval EXCEPT !.status = "in_progress", !.code = None,
                                    !.attempt = @ + 1, !.live = TRUE]
  /\ reader' = [reader EXCEPT ![r] = [NoReader EXCEPT !.pc = "listing", !.gen = retrieval.gen,
                     !.revision = retrieval.revision, !.attempt = retrieval.attempt + 1]]

\* findSuccessfulRetrieval, then the claim without a generation.
StartRetrieval(r) ==
  /\ reader[r].pc = "off"
  /\ \/ retrieval.status = "absent" /\ ReaderTo(r, "resolving") /\ UNCHANGED retrieval
     \/ retrieval.status # "absent" /\ Retriable /\ Reclaim(r)
  /\ UNCHANGED <<catalogue, vectors, commands, troubles>>

\* resolveEligibleGeneration
ResolveEligible(r) ==
  /\ reader[r].pc = "resolving"
  /\ IF activation.gen = None
     THEN Audits(r, "missing")
     ELSE reader' = [reader EXCEPT ![r].pc = "claiming", ![r].gen = activation.gen,
                                   ![r].revision = activation.revision]
  /\ UNCHANGED <<catalogue, vectors, commands, retrieval, troubles>>

\* assertCurrentSelection and assertCleanupNotClaimed
StillCurrent(r) ==
  /\ activation = [gen |-> reader[r].gen, revision |-> reader[r].revision]
  /\ generation[reader[r].gen].state = "active"
  /\ Unclaimed(reader[r].gen)

ClaimSelection(r) ==
  /\ reader[r].pc = "claiming"
  /\ \/ /\ retrieval.status = "absent" /\ StillCurrent(r)
        /\ retrieval' = [status |-> "in_progress", code |-> None, gen |-> reader[r].gen,
                         revision |-> reader[r].revision, attempt |-> 1, live |-> TRUE]
        /\ reader' = [reader EXCEPT ![r].pc = "listing", ![r].attempt = 1]
     \/ retrieval.status = "absent" /\ ~StillCurrent(r) /\ ReaderStops(r) /\ UNCHANGED retrieval
     \/ retrieval.status # "absent" /\ Retriable /\ Reclaim(r)
     \/ retrieval.status # "absent" /\ ~Retriable /\ ReaderStops(r) /\ UNCHANGED retrieval
  /\ UNCHANGED <<catalogue, vectors, commands, troubles>>

\* listAuthoritativeChunks
ListChunks(r) ==
  /\ reader[r].pc = "listing"
  /\ IF generation[reader[r].gen].indexed THEN ReaderTo(r, "querying") ELSE Audits(r, "integrity")
  /\ UNCHANGED <<catalogue, vectors, commands, retrieval, troubles>>

\* queryAndRankEligibleChunks: what the index returns is compared with the
\* catalogue chunk by chunk; too low a score asks for a manual review.
QueryIndex(r) ==
  /\ reader[r].pc = "querying"
  /\ CASE index[reader[r].gen] = "full"  -> ReaderTo(r, "persisting") \/ Audits(r, "score")
       [] index[reader[r].gen] = "empty" -> Audits(r, "integrity")
       [] index[reader[r].gen] = None    -> Audits(r, "unavailable")
  /\ UNCHANGED <<catalogue, vectors, commands, retrieval, troubles>>

\* Mutant: the end of a retrieval does not look at the lease.
HoldsAttempt(r) ==
  /\ retrieval.status = "in_progress" /\ retrieval.attempt = reader[r].attempt

\* The attempt is the row's, its lease lasts and no cleanup began.
Holds(r) ==
  /\ retrieval.status = "in_progress" /\ retrieval.attempt = reader[r].attempt
  /\ retrieval.live
  /\ Unclaimed(retrieval.gen)

Finished(status, code) ==
  retrieval' = [retrieval EXCEPT !.status = status, !.code = code, !.live = FALSE]

\* persistSuccessfulRetrieval
PersistSuccess(r) ==
  /\ reader[r].pc = "persisting"
  /\ IF Holds(r) THEN Finished("succeeded", None) ELSE UNCHANGED retrieval
  /\ ReaderStops(r)
  /\ UNCHANGED <<catalogue, vectors, commands, troubles>>

\* persistFailedRetrieval; without a selection it inserts a row no later claim can
\* use, unless there is one.
PersistFailure(r) ==
  LET code == reader[r].code IN
  /\ reader[r].pc = "auditing"
  /\ IF reader[r].attempt = 0
     THEN retrieval' = IF retrieval.status = "absent"
                       THEN [retrieval EXCEPT !.status = "failed", !.code = code]
                       ELSE retrieval
     ELSE IF Holds(r)
          THEN Finished(IF code = "score" THEN "manual_review" ELSE "failed", code)
          ELSE UNCHANGED retrieval
  /\ ReaderStops(r)
  /\ UNCHANGED <<catalogue, vectors, commands, troubles>>

ReadingFails(r) ==
  /\ reader[r].pc = "querying"
  /\ Trouble
  /\ Audits(r, "unavailable")
  /\ UNCHANGED <<catalogue, vectors, commands, retrieval>>

ReaderCrashes(r) ==
  /\ reader[r].pc # "off"
  /\ Trouble
  /\ ReaderStops(r)
  /\ UNCHANGED <<catalogue, vectors, commands, retrieval>>

RetrievalLeaseExpires ==
  /\ retrieval.live
  /\ retrieval' = [retrieval EXCEPT !.live = FALSE]
  /\ UNCHANGED <<catalogue, vectors, commands, reader, troubles>>

-----------------------------------------------------------------------------
IndexRunbook(i) ==
  \/ StageGeneration(i) \/ ResolveStaged(i) \/ EnsureIndex(i) \/ Upsert(i) \/ ReadBack(i)
  \/ MarkIndexed(i) \/ ActivateGeneration(i) \/ IndexingFails(i) \/ MarkFailed(i)
  \/ DropIndex(i) \/ IndexerCrashes(i)

RetrieveRunbook(r) ==
  \/ StartRetrieval(r) \/ ResolveEligible(r) \/ ClaimSelection(r) \/ ListChunks(r)
  \/ QueryIndex(r) \/ PersistSuccess(r) \/ PersistFailure(r) \/ ReadingFails(r)
  \/ ReaderCrashes(r)

RunbooksNext ==
  \/ \E i \in Indexers : IndexRunbook(i) \/ \E g \in Generations : StartIndexing(i, g)
  \/ \E g \in Generations : StartRollback(g) \/ ClaimCleanup(g)
  \/ VerifyIndex \/ RollbackCas
  \/ Revalidate \/ DeleteIndex \/ CompleteCleanup \/ CleanupFails
  \/ \E r \in Readers : RetrieveRunbook(r)
  \/ RetrievalLeaseExpires

RunbooksSpec == RunbooksInit /\ [][RunbooksNext]_runbookVars
=============================================================================
