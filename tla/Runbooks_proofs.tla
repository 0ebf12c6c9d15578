--------------------------- MODULE Runbooks_proofs ---------------------------
(***************************************************************************)
(* Proofs about Runbooks for every set of generations, of indexing         *)
(* commands and of readers, and every bound: the inductive invariant       *)
(* RunbooksInv and the three safety properties it contains.                *)
(***************************************************************************)
EXTENDS RunbooksProps, TLAPS

\* A command that runs has a generation, and a cleanup's is claimed.
Engaged ==
  /\ \A i \in Indexers : indexer[i].pc # "off" => indexer[i].gen \in Generations
  /\ operator.pc # "off" => operator.gen \in Generations
  /\ cleaner.pc # "off" => cleaner.gen \in Generations /\ ~Unclaimed(cleaner.gen)
  /\ \A r \in Readers : reader[r].pc \in {"claiming", "listing", "querying", "persisting"}
                          => reader[r].gen \in Generations

\* What was searchable once is so until its index is deleted, by a cleanup, which is
\* never taken back, or by a failing indexer.
Searchable(g) == index[g] = "full" \/ g \in dropped \/ ~Unclaimed(g)

IndexesStay ==
  /\ \A g \in Generations : generation[g].indexed => Searchable(g)
  /\ \A g \in Generations : generation[g].state = "active" => generation[g].indexed
  /\ \A i \in Indexers : indexer[i].pc = "marking" => Searchable(indexer[i].gen)

\* An attempt is of one reader, and works on the selection of the row.
AttemptsAreOwned ==
  /\ retrieval.status = "absent" => retrieval.attempt = 0 /\ retrieval.gen = None
  /\ \A r \in Readers : reader[r].attempt <= retrieval.attempt
  /\ \A r \in Readers : reader[r].attempt # 0 => reader[r].gen = retrieval.gen
  /\ \A r, s \in Readers : reader[r].attempt = reader[s].attempt /\ reader[r].attempt # 0 => r = s
  /\ \A r \in Readers : reader[r].pc \in {"listing", "querying", "persisting"} => reader[r].attempt # 0
  /\ \A r \in Readers : reader[r].pc \in {"off", "resolving", "claiming"} => reader[r].attempt = 0
  /\ \A r \in Readers : reader[r].pc = "persisting" => Searchable(reader[r].gen)

\* The selection of the row was the active generation at its revision.
SelectionWasActive ==
  retrieval.gen # None => /\ retrieval.revision \in DOMAIN events
                          /\ events[retrieval.revision].to = retrieval.gen

RunbooksInv ==
  /\ RunbooksTypeOK /\ Engaged /\ CatalogueIsConsistent
  /\ IndexesStay /\ AttemptsAreOwned /\ SelectionWasActive

-----------------------------------------------------------------------------
(* What a step may do to the catalogue, to the indexes, to the commands and *)
(* to the retrieval.                                                        *)

\* One generation's row changes, and neither becomes nor ceases to be the active one.
RowChanges(g, row) ==
  /\ generation' = [generation EXCEPT ![g] = row]
  /\ activation' = activation /\ events' = events
  /\ row \in GenerationRow
  /\ (row.state = "active") = (generation[g].state = "active")
  /\ row.cleanup # None => row.state \in {"failed", "retired"}
  /\ ~Unclaimed(g) => row.cleanup # None
  /\ generation[g].indexed => row.indexed
  /\ row.indexed => generation[g].indexed \/ Searchable(g)

\* Another generation is put in the place of the active one.
Replaces(g, operation) ==
  /\ operation \in {"activate", "rollback"}
  /\ Unclaimed(g) /\ generation[g].indexed /\ activation.gen # g
  /\ activation.revision < MaxRevision
  /\ Switch(g, operation, activation.revision)

CatalogueMove ==
  \/ generation' = generation /\ activation' = activation /\ events' = events
  \/ \E g \in Generations, row \in GenerationRow : RowChanges(g, row)
  \/ \E g \in Generations : \E operation \in {"activate", "rollback"} : Replaces(g, operation)

\* An index is made, filled, deleted by who made it or deleted by a cleanup.
VectorMove ==
  \/ index' = index /\ dropped' = dropped
  \/ \E g \in Generations :
       \/ index' = [index EXCEPT ![g] = "full"] /\ dropped' = dropped
       \/ index[g] = None /\ index' = [index EXCEPT ![g] = "empty"] /\ dropped' = dropped
       \/ index' = [index EXCEPT ![g] = None] /\ dropped' = dropped \cup {g}
       \/ ~Unclaimed(g) /\ index' = [index EXCEPT ![g] = None] /\ dropped' = dropped

\* One indexing command goes on to s.
IndexerGoes(i, s) ==
  /\ s \in IndexerState
  /\ indexer' = [indexer EXCEPT ![i] = s]
  /\ s.pc # "off" => s.gen \in Generations
  /\ s.pc = "marking" => Searchable(s.gen)

IndexerMove ==
  indexer' = indexer \/ \E i \in Indexers, s \in IndexerState : IndexerGoes(i, s)

OperatorMove ==
  operator' \in OperatorState /\ (operator'.pc # "off" => operator'.gen \in Generations)

CleanerMove ==
  /\ cleaner' \in CleanerState
  /\ cleaner'.pc # "off" =>
       /\ cleaner'.gen \in Generations
       /\ ~Unclaimed(cleaner'.gen) \/ generation'[cleaner'.gen].cleanup # None

\* One reader goes on to s: within its attempt, or with the next one.
ReaderGoes(r, s) ==
  /\ s \in ReaderState
  /\ reader' = [reader EXCEPT ![r] = s]
  /\ s.pc \in {"claiming", "listing", "querying", "persisting"} => s.gen \in Generations
  /\ s.pc \in {"listing", "querying", "persisting"} => s.attempt # 0
  /\ s.pc \in {"off", "resolving", "claiming"} => s.attempt = 0
  /\ s.attempt # 0 => s.gen = retrieval'.gen
  /\ s.pc = "persisting" => Searchable(s.gen)
  /\ \/ s.attempt \in {0, reader[r].attempt} /\ retrieval'.attempt = retrieval.attempt
     \/ s.attempt = retrieval.attempt + 1 /\ retrieval'.attempt = s.attempt

\* The row keeps its selection, or gets its first.
RetrievalMove ==
  /\ retrieval' \in RetrievalRow
  /\ retrieval'.status = "absent" => retrieval'.attempt = 0 /\ retrieval'.gen = None
  /\ \/ retrieval'.gen = retrieval.gen /\ retrieval'.revision = retrieval.revision
     \/ /\ retrieval.attempt = 0
        /\ retrieval'.revision \in DOMAIN events
        /\ events[retrieval'.revision].to = retrieval'.gen

ReadingMove ==
  /\ RetrievalMove
  /\ \/ reader' = reader /\ retrieval'.attempt = retrieval.attempt /\ retrieval'.gen = retrieval.gen
     \/ \E r \in Readers, s \in ReaderState : ReaderGoes(r, s)

Move ==
  /\ CatalogueMove /\ VectorMove /\ IndexerMove /\ OperatorMove /\ CleanerMove /\ ReadingMove
  /\ troubles' \in 0..MaxTroubles

-----------------------------------------------------------------------------
\* What stays as it is moves trivially.
LEMMA StillMoves ==
  ASSUME RunbooksInv
  PROVE  /\ UNCHANGED catalogue => CatalogueMove
         /\ UNCHANGED vectors => VectorMove
         /\ UNCHANGED indexer => IndexerMove
         /\ UNCHANGED operator => OperatorMove
         /\ UNCHANGED cleaner => CleanerMove
         /\ UNCHANGED reading => ReadingMove
         /\ UNCHANGED troubles => troubles' \in 0..MaxTroubles
         /\ Trouble => troubles' \in 0..MaxTroubles
<1> USE DEF RunbooksInv, RunbooksTypeOK
<1>1. UNCHANGED catalogue => CatalogueMove
  BY DEF catalogue, CatalogueMove
<1>2. UNCHANGED vectors => VectorMove
  BY DEF vectors, VectorMove
<1>3. UNCHANGED indexer => IndexerMove
  BY DEF IndexerMove
<1>4. UNCHANGED operator => OperatorMove
  BY DEF OperatorMove, Engaged
<1>5. UNCHANGED cleaner => CleanerMove
  BY DEF CleanerMove, Engaged, Unclaimed
<1>6. UNCHANGED reading => ReadingMove
  BY DEF reading, ReadingMove, RetrievalMove, AttemptsAreOwned
<1>7. UNCHANGED troubles => troubles' \in 0..MaxTroubles
  OBVIOUS
<1>8. Trouble => troubles' \in 0..MaxTroubles
  BY RunbooksAssumption DEF Trouble
<1> QED BY <1>1, <1>2, <1>3, <1>4, <1>5, <1>6, <1>7, <1>8

\* Who is idle is in a state of its kind.
LEMMA IdleRows ==
  /\ NoIndexer \in IndexerState /\ NoIndexer.pc = "off"
  /\ NoOperator \in OperatorState /\ NoOperator.pc = "off"
  /\ NoCleaner \in CleanerState /\ NoCleaner.pc = "off"
  /\ NoReader \in ReaderState /\ NoReader.pc = "off" /\ NoReader.attempt = 0
<1>1. 0 \in Revisions /\ 0 \in 0..MaxClaims
  BY RunbooksAssumption DEF Revisions
<1> QED BY <1>1 DEF NoIndexer, IndexerState, NoOperator, OperatorState, NoCleaner, CleanerState,
             NoReader, ReaderState

-----------------------------------------------------------------------------
\* What an indexing command does.
LEMMA IndexerGoesOn ==
  ASSUME RunbooksInv, NEW i \in Indexers, indexer[i].pc # "off", NEW s \in IndexerState,
         indexer' = [indexer EXCEPT ![i] = s],
         s.gen = indexer[i].gen \/ s = NoIndexer,
         s.pc = "marking" => index[s.gen] = "full"
  PROVE  IndexerMove
  BY IdleRows DEF RunbooksInv, RunbooksTypeOK, Engaged, IndexerMove, IndexerGoes, Searchable

LEMMA IndexerSteps ==
  ASSUME RunbooksInv, NEW i \in Indexers, IndexRunbook(i)
  PROVE  Move
<1> DEFINE g == indexer[i].gen
           e == indexer[i]
           Others == UNCHANGED <<operator, cleaner, reading>>
<1> USE DEF RunbooksInv
<1>1. indexer[i].pc # "off" /\ g \in Generations /\ e \in IndexerState /\ generation[g] \in GenerationRow
  <2>1. indexer[i].pc # "off"
    BY DEF IndexRunbook, StageGeneration, ResolveStaged, EnsureIndex, Upsert, ReadBack, MarkIndexed,
           ActivateGeneration, IndexingFails, MarkFailed, DropIndex, IndexerCrashes
  <2> QED BY <2>1 DEF Engaged, RunbooksTypeOK
<1>2. ASSUME CatalogueMove, VectorMove, IndexerMove, Others, UNCHANGED troubles \/ Trouble PROVE Move
  BY <1>2, StillMoves DEF Move
<1>3. ASSUME NEW p \in {"ensuring", "upserting", "verifying", "resolving", "activating", "dropping"},
             indexer' = [indexer EXCEPT ![i].pc = p]
      PROVE  IndexerMove
  <2> DEFINE s == [e EXCEPT !.pc = p]
  <2>1. s \in IndexerState /\ s.gen = e.gen /\ s.pc = p
    BY <1>1 DEF IndexerState
  <2>2. indexer' = [indexer EXCEPT ![i] = s]
    BY <1>3
  <2> QED BY <1>1, <2>1, <2>2, IndexerGoesOn
<1>4. ASSUME indexer' = [indexer EXCEPT ![i] = NoIndexer] PROVE IndexerMove
  BY <1>1, <1>4, IdleRows, IndexerGoesOn
<1>5. ASSUME NEW c \in Codes, IndexerFails(i, c) PROVE IndexerMove
  <2> DEFINE s == [e EXCEPT !.pc = "failing", !.code = c]
  <2>1. s \in IndexerState /\ s.gen = e.gen /\ s.pc = "failing"
    BY <1>1 DEF IndexerState
  <2>2. indexer' = [indexer EXCEPT ![i] = s]
    BY <1>5 DEF IndexerFails
  <2> QED BY <1>1, <2>1, <2>2, IndexerGoesOn
<1>6. CASE ResolveStaged(i)
  BY <1>2, <1>3, <1>4, <1>6, StillMoves DEF ResolveStaged
<1>7. CASE EnsureIndex(i)
  <2>1. VectorMove
    BY <1>1, <1>7 DEF EnsureIndex, VectorMove, RunbooksTypeOK
  <2> QED BY <1>2, <1>3, <1>7, <2>1, StillMoves DEF EnsureIndex, IndexerTo
<1>8. CASE Upsert(i)
  <2>1. VectorMove
    BY <1>1, <1>8 DEF Upsert, VectorMove
  <2>2. IndexerMove
    BY <1>3, <1>5, <1>8 DEF Upsert, IndexerTo, Codes
  <2> QED BY <1>2, <1>8, <2>1, <2>2, StillMoves DEF Upsert
<1>9. CASE ReadBack(i)
  <2>1. IndexerMove
    <3>1. CASE index[g] = "full"
      <4> DEFINE s == [e EXCEPT !.pc = "marking"]
      <4>1. s \in IndexerState /\ s.gen = e.gen /\ s.pc = "marking"
        BY <1>1 DEF IndexerState
      <4>2. indexer' = [indexer EXCEPT ![i] = s]
        <5>1. IndexerTo(i, "marking")
          BY <1>9, <3>1 DEF ReadBack, None
        <5> QED BY <5>1 DEF IndexerTo
      <4> QED BY <1>1, <3>1, <4>1, <4>2, IndexerGoesOn
    <3>2. CASE index[g] # "full"
      BY <1>1, <1>5, <1>9, <3>2 DEF ReadBack, Codes, RunbooksTypeOK
    <3> QED BY <3>1, <3>2
  <2> QED BY <1>2, <1>9, <2>1, StillMoves DEF ReadBack
<1>10. CASE IndexingFails(i)
  BY <1>2, <1>5, <1>10, StillMoves DEF IndexingFails, Codes
<1>11. CASE IndexerCrashes(i)
  BY <1>2, <1>4, <1>11, StillMoves DEF IndexerCrashes
<1>12. CASE DropIndex(i)
  <2>1. VectorMove
    BY <1>1, <1>12 DEF DropIndex, VectorMove
  <2> QED BY <1>2, <1>4, <1>12, <2>1, StillMoves DEF DropIndex
<1>13. ASSUME NEW row \in GenerationRow, RowChanges(g, row) PROVE CatalogueMove
  BY <1>1, <1>13 DEF CatalogueMove
<1>14. CASE StageGeneration(i)
  <2>1. CatalogueMove
    <3>1. CASE generation' = generation
      BY <1>14, <3>1 DEF StageGeneration, CatalogueMove
    <3>2. CASE generation[g].state = "absent"
      <4> DEFINE row == [generation[g] EXCEPT !.state = "staged"]
      <4>1. generation' = [generation EXCEPT ![g] = row] /\ UNCHANGED <<activation, events>>
        BY <1>14, <3>2 DEF StageGeneration, Restageable
      <4>2. row \in GenerationRow /\ row.state = "staged" /\ row.cleanup = generation[g].cleanup
            /\ row.indexed = generation[g].indexed
        BY <1>1 DEF GenerationRow
      <4>3. Unclaimed(g)
        BY <1>1, <3>2 DEF CatalogueIsConsistent
      <4> QED BY <1>13, <3>2, <4>1, <4>2, <4>3 DEF RowChanges, Unclaimed
    <3>3. CASE Restageable(g) /\ generation' # generation
      <4> DEFINE row == [generation[g] EXCEPT !.state = "staged", !.code = None]
      <4>1. generation' = [generation EXCEPT ![g] = row] /\ UNCHANGED <<activation, events>>
        BY <1>14, <3>3 DEF StageGeneration, Restageable
      <4>2. row \in GenerationRow /\ row.state = "staged" /\ row.cleanup = generation[g].cleanup
            /\ row.indexed = generation[g].indexed
        BY <1>1 DEF GenerationRow
      <4> QED BY <1>13, <3>3, <4>1, <4>2 DEF RowChanges, Unclaimed, Restageable
    <3> QED BY <1>14, <3>1, <3>2, <3>3 DEF StageGeneration
  <2>2. IndexerMove
    <3>1. CASE indexer' = [indexer EXCEPT ![i].pc = "ensuring", ![i].created = TRUE]
      <4> DEFINE s == [e EXCEPT !.pc = "ensuring", !.created = TRUE]
      <4>1. s \in IndexerState /\ s.gen = e.gen /\ s.pc = "ensuring"
        BY <1>1 DEF IndexerState
      <4>2. indexer' = [indexer EXCEPT ![i] = s]
        BY <3>1
      <4> QED BY <1>1, <4>1, <4>2, IndexerGoesOn
    <3> QED BY <1>3, <1>4, <1>14, <3>1 DEF StageGeneration, IndexerTo
  <2> QED BY <1>2, <1>14, <2>1, <2>2, StillMoves DEF StageGeneration
<1>15. CASE MarkIndexed(i)
  <2> DEFINE row == [generation[g] EXCEPT !.indexed = TRUE]
  <2>1. generation' = [generation EXCEPT ![g] = row] /\ UNCHANGED <<activation, events>>
    BY <1>15 DEF MarkIndexed
  <2>2. row \in GenerationRow /\ row.state = generation[g].state
        /\ row.cleanup = generation[g].cleanup /\ row.indexed
    BY <1>1 DEF GenerationRow
  <2>3. Searchable(g) /\ (~Unclaimed(g) => generation[g].state \in {"failed", "retired"})
    BY <1>1, <1>15 DEF MarkIndexed, IndexesStay, CatalogueIsConsistent
  <2>4. CatalogueMove
    BY <1>13, <2>1, <2>2, <2>3 DEF RowChanges, Unclaimed
  <2> QED BY <1>2, <1>3, <1>15, <2>4, StillMoves DEF MarkIndexed, IndexerTo
<1>16. CASE MarkFailed(i)
  <2>1. CatalogueMove
    <3>1. CASE generation[g].state = "staged"
      <4> DEFINE row == [generation[g] EXCEPT !.state = "failed", !.code = e.code]
      <4>1. generation' = [generation EXCEPT ![g] = row] /\ UNCHANGED <<activation, events>>
        BY <1>16, <3>1 DEF MarkFailed
      <4>2. e.code \in Codes \cup {None}
        BY <1>1 DEF IndexerState
      <4>3. row \in GenerationRow /\ row.state = "failed" /\ row.cleanup = generation[g].cleanup
            /\ row.indexed = generation[g].indexed
        BY <1>1, <4>2 DEF GenerationRow
      <4> QED BY <1>13, <3>1, <4>1, <4>3 DEF RowChanges, Unclaimed
    <3>2. CASE generation[g].state # "staged"
      BY <1>16, <3>2 DEF MarkFailed, CatalogueMove
    <3> QED BY <3>1, <3>2
  <2>2. IndexerMove
    <3>1. CASE e.created
      BY <1>3, <1>16, <3>1 DEF MarkFailed
    <3>2. CASE ~e.created
      BY <1>4, <1>16, <3>2 DEF MarkFailed
    <3> QED BY <3>1, <3>2
  <2> QED BY <1>2, <1>16, <2>1, <2>2, StillMoves DEF MarkFailed
<1>17. CASE ActivateGeneration(i)
  <2>1. CatalogueMove
    <3>1. CASE MayActivate(g, e.expected) /\ activation.revision < MaxRevision
               /\ Switch(g, "activate", e.expected)
      BY <1>1, <3>1 DEF MayActivate, CatalogueMove, Replaces
    <3>2. CASE UNCHANGED catalogue
      BY <3>2, StillMoves
    <3> QED BY <1>17, <3>1, <3>2 DEF ActivateGeneration
  <2>2. IndexerMove
    BY <1>4, <1>5, <1>17 DEF ActivateGeneration, Codes
  <2> QED BY <1>2, <1>17, <2>1, <2>2, StillMoves DEF ActivateGeneration
<1> QED BY <1>6, <1>7, <1>8, <1>9, <1>10, <1>11, <1>12, <1>14, <1>15, <1>16, <1>17 DEF IndexRunbook

\* What begins an indexing command, and the commands "rollback" and "cleanup".
LEMMA CommandSteps ==
  ASSUME RunbooksInv,
         \/ \E i \in Indexers, g \in Generations : StartIndexing(i, g)
         \/ \E g \in Generations : StartRollback(g) \/ ClaimCleanup(g)
         \/ VerifyIndex \/ RollbackCas \/ Revalidate \/ DeleteIndex \/ CompleteCleanup
         \/ CleanupFails
  PROVE  Move
<1> USE DEF RunbooksInv
<1>1. CASE \E i \in Indexers, g \in Generations : StartIndexing(i, g)
  <2>1. PICK i \in Indexers, g \in Generations : StartIndexing(i, g)
    BY <1>1
  <2> DEFINE s == [NoIndexer EXCEPT !.pc = "staging", !.gen = g, !.expected = activation.revision]
  <2>2. activation.revision \in Revisions
    BY DEF RunbooksTypeOK
  <2>3. s \in IndexerState /\ s.gen = g /\ s.pc = "staging"
    BY <2>2 DEF NoIndexer, IndexerState
  <2>4. indexer' = [indexer EXCEPT ![i] = s]
    BY <2>1 DEF StartIndexing
  <2>5. IndexerMove
    BY <2>3, <2>4 DEF IndexerMove, IndexerGoes
  <2> QED BY <2>1, <2>5, StillMoves DEF StartIndexing, Move
<1>2. CASE \E g \in Generations : StartRollback(g)
  <2>1. PICK g \in Generations : StartRollback(g)
    BY <1>2
  <2>2. OperatorMove
    BY <2>1 DEF StartRollback, OperatorMove, OperatorState, RunbooksTypeOK
  <2> QED BY <2>1, <2>2, StillMoves DEF StartRollback, Move
<1>3. CASE \E g \in Generations : ClaimCleanup(g)
  <2>1. PICK g \in Generations : ClaimCleanup(g)
    BY <1>3
  <2> DEFINE row == [generation[g] EXCEPT !.cleanup = "claimed"]
  <2>2. generation[g] \in GenerationRow
    BY DEF RunbooksTypeOK
  <2>3. row \in GenerationRow /\ row.state = generation[g].state /\ row.cleanup = "claimed"
        /\ row.indexed = generation[g].indexed
    BY <2>2 DEF GenerationRow
  <2>4. generation' = [generation EXCEPT ![g] = row] /\ UNCHANGED <<activation, events>>
    BY <2>1 DEF ClaimCleanup
  <2>5. generation[g].state \in {"failed", "retired"}
    BY <2>1 DEF ClaimCleanup, MayClean
  <2>6. CatalogueMove
    <3>1. RowChanges(g, row)
      BY <2>3, <2>4, <2>5 DEF RowChanges, None
    <3> QED BY <2>3, <3>1 DEF CatalogueMove
  <2>7. generation'[g] = row
    BY <2>4 DEF RunbooksTypeOK
  <2>8. CleanerMove
    BY <2>1, <2>3, <2>7 DEF ClaimCleanup, CleanerMove, CleanerState, None
  <2> QED BY <2>1, <2>6, <2>8, StillMoves DEF ClaimCleanup, Move
<1>4. CASE VerifyIndex
  <2>1. OperatorMove
    <3>1. CASE operator' = NoOperator
      BY <3>1, IdleRows DEF OperatorMove
    <3>2. CASE operator' = [operator EXCEPT !.pc = "switching"]
      BY <1>4, <3>2 DEF VerifyIndex, OperatorMove, OperatorState, RunbooksTypeOK, Engaged
    <3> QED BY <1>4, <3>1, <3>2 DEF VerifyIndex
  <2> QED BY <1>4, <2>1, StillMoves DEF VerifyIndex, Move
<1>5. CASE RollbackCas
  <2>1. operator.gen \in Generations
    BY <1>5 DEF RollbackCas, Engaged
  <2>2. CatalogueMove
    <3>1. CASE MayRollback(operator.gen, operator.expected) /\ activation.revision < MaxRevision
               /\ Switch(operator.gen, "rollback", operator.expected)
      BY <2>1, <3>1 DEF MayRollback, CatalogueMove, Replaces
    <3>2. CASE UNCHANGED catalogue
      BY <3>2, StillMoves
    <3> QED BY <1>5, <3>1, <3>2 DEF RollbackCas
  <2>3. OperatorMove
    BY <1>5, IdleRows DEF RollbackCas, OperatorMove
  <2> QED BY <1>5, <2>2, <2>3, StillMoves DEF RollbackCas, Move
<1>6. ASSUME cleaner' = NoCleaner PROVE CleanerMove
  BY <1>6, IdleRows DEF CleanerMove
<1>7. ASSUME NEW p \in {"deleting", "completing"}, cleaner.pc # "off",
             cleaner' = [cleaner EXCEPT !.pc = p]
      PROVE  CleanerMove
  BY <1>7 DEF CleanerMove, CleanerState, RunbooksTypeOK, Engaged
<1>8. CASE Revalidate
  BY <1>6, <1>7, <1>8, StillMoves DEF Revalidate, Move
<1>9. CASE DeleteIndex
  <2>1. VectorMove
    BY <1>9 DEF DeleteIndex, VectorMove, Engaged
  <2> QED BY <1>7, <1>9, <2>1, StillMoves DEF DeleteIndex, Move
<1>10. CASE CompleteCleanup
  <2> DEFINE g == cleaner.gen
             row == [generation[g] EXCEPT !.cleanup = "deleted"]
  <2>1. g \in Generations /\ ~Unclaimed(g) /\ generation[g] \in GenerationRow
    BY <1>10 DEF CompleteCleanup, Engaged, RunbooksTypeOK
  <2>2. row \in GenerationRow /\ row.state = generation[g].state /\ row.cleanup = "deleted"
        /\ row.indexed = generation[g].indexed
    BY <2>1 DEF GenerationRow
  <2>3. generation[g].state \in {"failed", "retired"}
    BY <2>1 DEF CatalogueIsConsistent
  <2>4. generation' = [generation EXCEPT ![g] = row] /\ UNCHANGED <<activation, events>>
    BY <1>10 DEF CompleteCleanup
  <2>5. CatalogueMove
    <3>1. RowChanges(g, row)
      BY <2>2, <2>3, <2>4 DEF RowChanges, None
    <3> QED BY <2>1, <2>2, <3>1 DEF CatalogueMove
  <2> QED BY <1>6, <1>10, <2>5, StillMoves DEF CompleteCleanup, Move
<1>11. CASE CleanupFails
  BY <1>6, <1>11, StillMoves DEF CleanupFails, Move
<1> QED BY <1>1, <1>2, <1>3, <1>4, <1>5, <1>8, <1>9, <1>10, <1>11

\* A reader that keeps its attempt, gives up or goes on with the next one.
LEMMA ReaderKeepsAttempt ==
  ASSUME RunbooksInv, NEW r \in Readers, NEW s \in ReaderState,
         reader' = [reader EXCEPT ![r] = s], RetrievalMove,
         retrieval'.gen = retrieval.gen, retrieval'.attempt = retrieval.attempt,
         \/ s = NoReader
         \/ /\ s.attempt = reader[r].attempt /\ s.gen = reader[r].gen
            /\ reader[r].pc \in {"listing", "querying", "persisting"}
            /\ s.pc \in {"querying", "persisting", "auditing"}
            /\ s.pc = "persisting" => index[s.gen] = "full"
         \/ s.attempt = 0 /\ s.pc \in {"resolving", "auditing"}
         \/ s.attempt = 0 /\ s.pc = "claiming" /\ s.gen \in Generations
  PROVE  ReadingMove
<1>1. ReaderGoes(r, s)
  BY IdleRows DEF RunbooksInv, Engaged, AttemptsAreOwned, ReaderGoes, Searchable
<1> QED BY <1>1 DEF ReadingMove

LEMMA ReclaimMoves ==
  ASSUME RunbooksInv, NEW r \in Readers, Retriable, retrieval.status # "absent", Reclaim(r)
  PROVE  ReadingMove
<1> DEFINE s == [NoReader EXCEPT !.pc = "listing", !.gen = retrieval.gen,
                     !.revision = retrieval.revision, !.attempt = retrieval.attempt + 1]
           row == [retrieval EXCEPT !.status = "in_progress", !.code = None,
                                    !.attempt = @ + 1, !.live = TRUE]
<1>1. /\ retrieval \in RetrievalRow /\ retrieval.gen \in Generations
      /\ retrieval.attempt \in 0..MaxClaims /\ retrieval.attempt < MaxClaims
      /\ retrieval.revision \in Revisions
  BY DEF RunbooksInv, RunbooksTypeOK, RetrievalRow, Retriable, Reclaim
<1>2. retrieval.attempt + 1 \in 0..MaxClaims /\ retrieval.attempt + 1 # 0
  BY <1>1, RunbooksAssumption
<1>3. /\ row \in RetrievalRow /\ row.status = "in_progress" /\ row.gen = retrieval.gen
      /\ row.revision = retrieval.revision /\ row.attempt = retrieval.attempt + 1
  BY <1>1, <1>2 DEF RetrievalRow
<1>4. /\ s \in ReaderState /\ s.pc = "listing" /\ s.gen = retrieval.gen
      /\ s.attempt = retrieval.attempt + 1
  BY <1>1, <1>2 DEF NoReader, ReaderState
<1>5. retrieval' = row /\ reader' = [reader EXCEPT ![r] = s]
  BY DEF Reclaim
<1>6. RetrievalMove
  BY <1>3, <1>5 DEF RetrievalMove
<1>7. ReaderGoes(r, s)
  BY <1>1, <1>2, <1>3, <1>4, <1>5 DEF ReaderGoes
<1> QED BY <1>4, <1>6, <1>7 DEF ReadingMove

\* What a retrieval does.
LEMMA ReaderSteps ==
  ASSUME RunbooksInv, NEW r \in Readers, RetrieveRunbook(r)
  PROVE  Move
<1> DEFINE e == reader[r]
<1> USE DEF RunbooksInv
<1>1. e \in ReaderState /\ retrieval \in RetrievalRow
  BY DEF RunbooksTypeOK
<1>2. ASSUME ReadingMove, UNCHANGED <<catalogue, vectors, commands>>, UNCHANGED troubles \/ Trouble
      PROVE  Move
  BY <1>2, StillMoves DEF Move, commands
<1>3. UNCHANGED retrieval => RetrievalMove
  BY <1>1 DEF RetrievalMove, AttemptsAreOwned
<1>4. ASSUME NEW c \in Causes, Audits(r, c), UNCHANGED retrieval,
             e.pc \in {"listing", "querying", "resolving"}, e.pc = "resolving" => e.attempt = 0
      PROVE  ReadingMove
  <2> DEFINE s == [e EXCEPT !.pc = "auditing", !.code = c]
  <2>1. s \in ReaderState /\ s.pc = "auditing" /\ s.gen = e.gen /\ s.attempt = e.attempt
    BY <1>1 DEF ReaderState
  <2>2. reader' = [reader EXCEPT ![r] = s]
    BY <1>4 DEF Audits
  <2> QED BY <1>3, <1>4, <2>1, <2>2, ReaderKeepsAttempt
<1>5. ASSUME ReaderStops(r), RetrievalMove, retrieval'.gen = retrieval.gen,
             retrieval'.attempt = retrieval.attempt
      PROVE  ReadingMove
  BY <1>5, IdleRows, ReaderKeepsAttempt DEF ReaderStops
<1>6. ASSUME NEW status \in {"succeeded", "manual_review", "failed"}, NEW c \in Causes \cup {None},
             Finished(status, c)
      PROVE  /\ RetrievalMove /\ retrieval'.gen = retrieval.gen
             /\ retrieval'.attempt = retrieval.attempt
  <2> DEFINE row == [retrieval EXCEPT !.status = status, !.code = c, !.live = FALSE]
  <2>1. /\ row \in RetrievalRow /\ row.status = status /\ row.gen = retrieval.gen
        /\ row.revision = retrieval.revision /\ row.attempt = retrieval.attempt
    BY <1>1 DEF RetrievalRow
  <2> QED BY <1>6, <2>1 DEF Finished, RetrievalMove
<1>7. CASE StartRetrieval(r)
  <2>1. ASSUME ReaderTo(r, "resolving"), UNCHANGED retrieval PROVE ReadingMove
    <3> DEFINE s == [e EXCEPT !.pc = "resolving"]
    <3>1. s \in ReaderState /\ s.pc = "resolving" /\ s.attempt = 0
      BY <1>1, <1>7 DEF ReaderState, AttemptsAreOwned, StartRetrieval
    <3>2. reader' = [reader EXCEPT ![r] = s]
      BY <2>1 DEF ReaderTo
    <3> QED BY <1>3, <2>1, <3>1, <3>2, ReaderKeepsAttempt
  <2>2. ReadingMove
    BY <1>7, <2>1, ReclaimMoves DEF StartRetrieval
  <2> QED BY <1>2, <1>7, <2>2 DEF StartRetrieval
<1>8. CASE ResolveEligible(r)
  <2>1. e.attempt = 0
    BY <1>8 DEF ResolveEligible, AttemptsAreOwned
  <2>2. CASE activation.gen = None
    <3>1. ReadingMove
      BY <1>4, <1>8, <2>1, <2>2 DEF ResolveEligible, Causes
    <3> QED BY <1>2, <1>8, <3>1 DEF ResolveEligible
  <2>3. CASE activation.gen # None
    <3> DEFINE s == [e EXCEPT !.pc = "claiming", !.gen = activation.gen,
                              !.revision = activation.revision]
    <3>1. activation.gen \in Generations /\ activation.revision \in Revisions
      BY <2>3 DEF RunbooksTypeOK
    <3>2. s \in ReaderState /\ s.pc = "claiming" /\ s.gen = activation.gen /\ s.attempt = 0
      BY <1>1, <2>1, <3>1 DEF ReaderState
    <3>3. reader' = [reader EXCEPT ![r] = s]
      BY <1>8, <2>3 DEF ResolveEligible
    <3>4. ReadingMove
      BY <1>3, <1>8, <3>1, <3>2, <3>3, ReaderKeepsAttempt DEF ResolveEligible
    <3> QED BY <1>2, <1>8, <3>4 DEF ResolveEligible
  <2> QED BY <2>2, <2>3
<1>9. CASE ClaimSelection(r)
  <2>1. CASE /\ retrieval.status = "absent" /\ StillCurrent(r)
             /\ retrieval' = [status |-> "in_progress", code |-> None, gen |-> e.gen,
                              revision |-> e.revision, attempt |-> 1, live |-> TRUE]
             /\ reader' = [reader EXCEPT ![r].pc = "listing", ![r].attempt = 1]
    <3> DEFINE s == [e EXCEPT !.pc = "listing", !.attempt = 1]
    <3>1. e.gen \in Generations /\ e.revision \in Revisions
      BY <1>1, <1>9 DEF ClaimSelection, Engaged, ReaderState
    <3>2. 1 \in 0..MaxClaims
      BY RunbooksAssumption
    <3>3. s \in ReaderState /\ s.pc = "listing" /\ s.gen = e.gen /\ s.attempt = 1
      BY <1>1, <3>2 DEF ReaderState
    <3>4. reader' = [reader EXCEPT ![r] = s]
      BY <2>1
    <3>5. retrieval.attempt = 0
      BY <2>1 DEF AttemptsAreOwned
    <3>6. e.revision \in DOMAIN events /\ events[e.revision].to = e.gen
      <4>1. activation.gen = e.gen /\ activation.revision = e.revision /\ e.gen # None
        BY <2>1, <3>1, RunbooksAssumption DEF StillCurrent
      <4>2. events # <<>> /\ events \in Seq(Event)
        BY <4>1 DEF CatalogueIsConsistent, RunbooksTypeOK
      <4>3. Len(events) \in Nat /\ DOMAIN events = 1..Len(events) /\ Len(events) # 0
        BY <4>2
      <4>4. Len(events) = e.revision /\ events[Len(events)].to = e.gen
        BY <4>1, <4>2 DEF CatalogueIsConsistent
      <4> QED BY <4>3, <4>4
    <3>7. retrieval' \in RetrievalRow
      BY <2>1, <3>1, <3>2 DEF RetrievalRow
    <3>8. RetrievalMove
      <4>1. retrieval'.status = "in_progress" /\ retrieval'.gen = e.gen
            /\ retrieval'.revision = e.revision
        BY <2>1
      <4> QED BY <3>5, <3>6, <3>7, <4>1 DEF RetrievalMove
    <3>9. ReaderGoes(r, s)
      <4>1. retrieval'.gen = e.gen /\ retrieval'.attempt = 1 /\ retrieval.attempt + 1 = 1
        BY <2>1, <3>5
      <4> QED BY <3>1, <3>3, <3>4, <4>1 DEF ReaderGoes
    <3> QED BY <1>2, <1>9, <3>3, <3>8, <3>9 DEF ClaimSelection, ReadingMove
  <2>2. CASE ReaderStops(r) /\ UNCHANGED retrieval
    BY <1>2, <1>3, <1>5, <1>9, <2>2 DEF ClaimSelection
  <2>3. CASE retrieval.status # "absent" /\ Retriable /\ Reclaim(r)
    BY <1>2, <1>9, <2>3, ReclaimMoves DEF ClaimSelection
  <2> QED BY <1>9, <2>1, <2>2, <2>3 DEF ClaimSelection
<1>10. ASSUME NEW p \in {"querying", "persisting"}, ReaderTo(r, p), UNCHANGED retrieval,
              e.pc \in {"listing", "querying"}, p = "persisting" => index[e.gen] = "full"
       PROVE  ReadingMove
  <2> DEFINE s == [e EXCEPT !.pc = p]
  <2>1. s \in ReaderState /\ s.pc = p /\ s.gen = e.gen /\ s.attempt = e.attempt
    BY <1>1 DEF ReaderState
  <2>2. reader' = [reader EXCEPT ![r] = s]
    BY <1>10 DEF ReaderTo
  <2> QED BY <1>3, <1>10, <2>1, <2>2, ReaderKeepsAttempt
<1>11. CASE ListChunks(r)
  <2>1. ReadingMove
    BY <1>4, <1>10, <1>11 DEF ListChunks, Causes, Codes
  <2> QED BY <1>2, <1>11, <2>1 DEF ListChunks
<1>12. CASE QueryIndex(r)
  <2>1. index[e.gen] \in {None, "empty", "full"}
    BY <1>12 DEF QueryIndex, Engaged, RunbooksTypeOK
  <2>2. \/ index[e.gen] = "full" /\ ReaderTo(r, "persisting")
        \/ \E c \in Causes : Audits(r, c)
    BY <1>12, <2>1 DEF QueryIndex, Causes, Codes, None
  <2>3. ReadingMove
    BY <1>4, <1>10, <1>12, <2>2 DEF QueryIndex
  <2> QED BY <1>2, <1>12, <2>3 DEF QueryIndex
<1>13. CASE PersistSuccess(r)
  <2>1. ReadingMove
    BY <1>3, <1>5, <1>6, <1>13 DEF PersistSuccess
  <2> QED BY <1>2, <1>13, <2>1 DEF PersistSuccess
<1>14. CASE PersistFailure(r)
  <2>1. /\ RetrievalMove /\ retrieval'.gen = retrieval.gen
        /\ retrieval'.attempt = retrieval.attempt
    <3>1. CASE retrieval' = [retrieval EXCEPT !.status = "failed", !.code = e.code]
      <4> DEFINE row == [retrieval EXCEPT !.status = "failed", !.code = e.code]
      <4>1. e.code \in Causes \cup {None}
        BY <1>1 DEF ReaderState
      <4>2. /\ row \in RetrievalRow /\ row.status = "failed" /\ row.gen = retrieval.gen
            /\ row.revision = retrieval.revision /\ row.attempt = retrieval.attempt
        BY <1>1, <4>1 DEF RetrievalRow
      <4> QED BY <3>1, <4>2 DEF RetrievalMove
    <3>2. CASE \E status \in {"manual_review", "failed"} : Finished(status, e.code)
      BY <1>1, <1>6, <3>2 DEF ReaderState
    <3>3. CASE UNCHANGED retrieval
      BY <1>3, <3>3
    <3> QED BY <1>14, <3>1, <3>2, <3>3 DEF PersistFailure
  <2> QED BY <1>2, <1>5, <1>14, <2>1 DEF PersistFailure
<1>15. CASE ReadingFails(r)
  <2>1. ReadingMove
    BY <1>4, <1>15 DEF ReadingFails, Causes, Codes
  <2> QED BY <1>2, <1>15, <2>1 DEF ReadingFails
<1>16. CASE ReaderCrashes(r)
  BY <1>2, <1>3, <1>5, <1>16 DEF ReaderCrashes
<1> QED BY <1>7, <1>8, <1>9, <1>11, <1>12, <1>13, <1>14, <1>15, <1>16 DEF RetrieveRunbook

LEMMA Moves ==
  ASSUME RunbooksInv, [RunbooksNext]_runbookVars
  PROVE  Move
<1>1. CASE RetrievalLeaseExpires
  <2>1. retrieval \in RetrievalRow
    BY DEF RunbooksInv, RunbooksTypeOK
  <2>2. ReadingMove
    BY <1>1, <2>1 DEF RetrievalLeaseExpires, ReadingMove, RetrievalMove, RetrievalRow, RunbooksInv,
                      AttemptsAreOwned
  <2> QED BY <1>1, <2>2, StillMoves DEF RetrievalLeaseExpires, Move, commands
<1>2. CASE UNCHANGED runbookVars
  BY <1>2, StillMoves DEF runbookVars, catalogue, vectors, reading, Move
<1> QED BY <1>1, <1>2, IndexerSteps, CommandSteps, ReaderSteps DEF RunbooksNext

-----------------------------------------------------------------------------
(* Moves keep the invariant. *)

\* No move takes back a cleanup's claim, or the fact that a generation is searchable.
LEMMA ClaimsStay ==
  ASSUME RunbooksInv, CatalogueMove, NEW g \in Generations, ~Unclaimed(g)
  PROVE  ~Unclaimed(g)' /\ generation'[g].cleanup # None
<1> USE DEF RunbooksInv, RunbooksTypeOK, Unclaimed
<1>1. CASE UNCHANGED generation
  BY <1>1
<1>2. ASSUME NEW h \in Generations, NEW row \in GenerationRow, RowChanges(h, row)
      PROVE  generation'[g].cleanup # None
  BY <1>2 DEF RowChanges
<1>3. ASSUME NEW h \in Generations, NEW op \in {"activate", "rollback"}, Replaces(h, op)
      PROVE  generation'[g].cleanup # None
  <2>1. generation'[g].cleanup = generation[g].cleanup
    BY <1>3 DEF Replaces, Switch, GenerationRow
  <2> QED BY <2>1
<1> QED BY <1>1, <1>2, <1>3 DEF CatalogueMove

LEMMA SearchableStays ==
  ASSUME RunbooksInv, CatalogueMove, VectorMove, NEW g \in Generations, Searchable(g)
  PROVE  Searchable(g)'
<1>1. ~Unclaimed(g) => ~Unclaimed(g)'
  BY ClaimsStay
<1> QED BY <1>1 DEF RunbooksInv, RunbooksTypeOK, VectorMove, Searchable, None

\* What a step does to one generation's row and to the chain of events.
LEMMA CatalogueStep ==
  ASSUME RunbooksInv, CatalogueMove
  PROVE  /\ generation' \in [Generations -> GenerationRow]
         /\ activation' \in [gen : Generations \cup {None}, revision : Revisions]
         /\ events' \in Seq(Event)
         /\ CatalogueIsConsistent'
         /\ \A g \in Generations : generation'[g].indexed => generation[g].indexed \/ Searchable(g)
         /\ \A g \in Generations : generation'[g].state = "active" => generation'[g].indexed
         /\ \A n \in DOMAIN events : n \in DOMAIN events' /\ events'[n].to = events[n].to
<1> USE DEF RunbooksInv
<1>1. CASE generation' = generation /\ activation' = activation /\ events' = events
  BY <1>1 DEF CatalogueIsConsistent, Unclaimed, RunbooksTypeOK, IndexesStay
<1>2. ASSUME NEW h \in Generations, NEW row \in GenerationRow, RowChanges(h, row)
      PROVE  /\ generation' \in [Generations -> GenerationRow]
             /\ activation' = activation /\ events' = events
             /\ CatalogueIsConsistent'
             /\ \A g \in Generations : generation'[g].indexed => generation[g].indexed \/ Searchable(g)
             /\ \A g \in Generations : generation'[g].state = "active" => generation'[g].indexed
  <2>1. /\ generation' = [generation EXCEPT ![h] = row]
        /\ activation' = activation /\ events' = events
        /\ generation \in [Generations -> GenerationRow]
    BY <1>2 DEF RowChanges, RunbooksTypeOK
  <2>2. generation' \in [Generations -> GenerationRow]
    BY <2>1
  <2>3. \A g \in Generations : generation'[g] = IF g = h THEN row ELSE generation[g]
    BY <2>1
  <2>4. \A g \in Generations :
          /\ (generation'[g].state = "active") = (generation[g].state = "active")
          /\ generation'[g].cleanup # None => generation'[g].state \in {"failed", "retired"}
    BY <1>2, <2>3 DEF RowChanges, CatalogueIsConsistent, Unclaimed
  <2>5. CatalogueIsConsistent'
    BY <2>1, <2>4 DEF CatalogueIsConsistent, Unclaimed
  <2>6. \A g \in Generations : /\ generation'[g].indexed => generation[g].indexed \/ Searchable(g)
                               /\ generation[g].indexed => generation'[g].indexed
    BY <1>2, <2>3 DEF RowChanges
  <2>7. \A g \in Generations : generation'[g].state = "active" => generation'[g].indexed
    BY <2>4, <2>6 DEF IndexesStay
  <2> QED BY <2>1, <2>2, <2>5, <2>6, <2>7
<1>3. ASSUME NEW h \in Generations, NEW op \in {"activate", "rollback"}, Replaces(h, op)
      PROVE  /\ generation' \in [Generations -> GenerationRow]
             /\ activation' \in [gen : Generations \cup {None}, revision : Revisions]
             /\ events' \in Seq(Event)
             /\ CatalogueIsConsistent'
             /\ \A g \in Generations : generation'[g].indexed => generation[g].indexed \/ Searchable(g)
             /\ \A g \in Generations : generation'[g].state = "active" => generation'[g].indexed
             /\ \A n \in DOMAIN events : n \in DOMAIN events' /\ events'[n].to = events[n].to
  <2> DEFINE event == [operation |-> op, from |-> activation.gen, to |-> h,
                       expected |-> activation.revision]
  <2>1. /\ activation.gen \in Generations \cup {None} /\ activation.revision \in Revisions
        /\ generation \in [Generations -> GenerationRow] /\ events \in Seq(Event)
        /\ \A g \in Generations : generation[g] \in GenerationRow
    BY DEF RunbooksTypeOK
  <2>2. activation.revision + 1 \in Revisions /\ activation.revision \in Nat
    BY <1>3, <2>1, RunbooksAssumption DEF Replaces, Revisions
  <2>3. event \in Event
    BY <2>1 DEF Event
  <2>4. events' = Append(events, event) /\ events' \in Seq(Event)
    <3>1. events' = Append(events, event)
      BY <1>3 DEF Replaces, Switch
    <3>2. Append(events, event) \in Seq(Event)
      BY <2>1, <2>3
    <3> QED BY <3>1, <3>2
  <2>5. /\ Len(events) \in Nat /\ DOMAIN events = 1..Len(events)
        /\ Len(events') = Len(events) + 1 /\ DOMAIN events' = 1..(Len(events) + 1)
        /\ \A n \in 1..Len(events) : events'[n] = events[n]
        /\ events'[Len(events) + 1] = event
    BY <2>1, <2>3, <2>4
  <2>6. activation' = [gen |-> h, revision |-> activation.revision + 1]
    BY <1>3 DEF Replaces, Switch
  <2>7. \A g \in Generations :
          /\ generation'[g] \in GenerationRow
          /\ generation'[g].cleanup = generation[g].cleanup
          /\ generation'[g].indexed = generation[g].indexed
          /\ (generation'[g].state = "active") = (g = h)
          /\ g # h /\ generation[g].state # "active" => generation'[g].state = generation[g].state
          /\ generation[g].state = "active" /\ g # h => generation'[g].state = "retired"
    <3> SUFFICES ASSUME NEW g \in Generations
                 PROVE  /\ generation'[g] \in GenerationRow
                        /\ generation'[g].cleanup = generation[g].cleanup
                        /\ generation'[g].indexed = generation[g].indexed
                        /\ (generation'[g].state = "active") = (g = h)
                        /\ g # h /\ generation[g].state # "active"
                             => generation'[g].state = generation[g].state
                        /\ generation[g].state = "active" /\ g # h
                             => generation'[g].state = "retired"
      OBVIOUS
    <3>1. CASE g = h
      <4>1. generation'[g] = [generation[g] EXCEPT !.state = "active", !.code = None]
        BY <1>3, <3>1 DEF Replaces, Switch
      <4> QED BY <2>1, <3>1, <4>1 DEF GenerationRow
    <3>2. CASE g # h /\ generation[g].state = "active"
      <4>1. g = activation.gen
        BY <3>2 DEF CatalogueIsConsistent
      <4>2. generation'[g] = [generation[g] EXCEPT !.state = "retired"]
        BY <1>3, <3>2, <4>1 DEF Replaces, Switch
      <4> QED BY <2>1, <3>2, <4>2 DEF GenerationRow
    <3>3. CASE g # h /\ generation[g].state # "active"
      <4>1. generation'[g] = generation[g]
        BY <1>3, <3>3 DEF Replaces, Switch
      <4> QED BY <2>1, <3>3, <4>1
    <3> QED BY <3>1, <3>2, <3>3
  <2>8. generation' \in [Generations -> GenerationRow]
    <3>1. generation' = [g \in Generations |-> generation'[g]]
      BY <1>3 DEF Replaces, Switch
    <3> QED BY <2>7, <3>1
  <2>9. \A g \in Generations :
          /\ (generation'[g].state = "active") = (activation'.gen = g)
          /\ generation'[g].cleanup # None => generation'[g].state \in {"failed", "retired"}
    <3>1. \A g \in Generations : generation[g].cleanup # None => generation[g].state \in {"failed", "retired"}
      BY DEF CatalogueIsConsistent, Unclaimed
    <3>2. generation[h].cleanup = None
      BY <1>3 DEF Replaces, Unclaimed
    <3> QED BY <2>6, <2>7, <3>1, <3>2
  <2>10. \A n \in DOMAIN events' :
           /\ events'[n].expected = n - 1
           /\ events'[n].from = IF n = 1 THEN None ELSE events'[n - 1].to
    <3>1. activation.revision = Len(events)
          /\ activation.gen = IF Len(events) = 0 THEN None ELSE events[Len(events)].to
      BY <2>1 DEF CatalogueIsConsistent
    <3>2. \A n \in 1..Len(events) :
            /\ events[n].expected = n - 1
            /\ events[n].from = IF n = 1 THEN None ELSE events[n - 1].to
      BY <2>5 DEF CatalogueIsConsistent
    <3> SUFFICES ASSUME NEW n \in 1..(Len(events) + 1)
                 PROVE  /\ events'[n].expected = n - 1
                        /\ events'[n].from = IF n = 1 THEN None ELSE events'[n - 1].to
      BY <2>5
    <3>3. CASE n \in 1..Len(events)
      <4>1. n # 1 => n - 1 \in 1..Len(events)
        BY <2>5, <3>3
      <4> QED BY <2>5, <3>2, <3>3, <4>1
    <3>4. CASE n = Len(events) + 1
      <4>1. n # 1 => n - 1 = Len(events) /\ Len(events) \in 1..Len(events)
        BY <2>5, <3>4
      <4> QED BY <2>5, <3>1, <3>4, <4>1
    <3> QED BY <2>5, <3>3, <3>4
  <2>11. /\ activation'.revision = Len(events')
         /\ events' # <<>> /\ activation'.gen = events'[Len(events')].to
    BY <2>4, <2>5, <2>6 DEF CatalogueIsConsistent
  <2>12. CatalogueIsConsistent'
    BY <2>9, <2>10, <2>11 DEF CatalogueIsConsistent, Unclaimed
  <2>13. \A g \in Generations : generation'[g].state = "active" => generation'[g].indexed
    BY <1>3, <2>7 DEF Replaces
  <2>14. activation' \in [gen : Generations \cup {None}, revision : Revisions]
    BY <2>2, <2>6
  <2> QED BY <2>4, <2>5, <2>7, <2>8, <2>12, <2>13, <2>14
<1> QED BY <1>1, <1>2, <1>3 DEF CatalogueMove, RunbooksTypeOK

LEMMA EngagedStep ==
  ASSUME RunbooksInv, Move
  PROVE  Engaged'
<1> USE DEF RunbooksInv, RunbooksTypeOK, Move
<1>1. \A i \in Indexers : indexer'[i].pc # "off" => indexer'[i].gen \in Generations
  BY DEF Engaged, IndexerMove, IndexerGoes
<1>2. operator'.pc # "off" => operator'.gen \in Generations
  BY DEF OperatorMove
<1>3. cleaner'.pc # "off" => cleaner'.gen \in Generations /\ generation'[cleaner'.gen].cleanup # None
  BY ClaimsStay DEF CleanerMove
<1>4. \A r \in Readers : reader'[r].pc \in {"claiming", "listing", "querying", "persisting"}
                          => reader'[r].gen \in Generations
  BY DEF Engaged, ReadingMove, ReaderGoes
<1> QED BY <1>1, <1>2, <1>3, <1>4 DEF Engaged, Unclaimed

\* Searchable after the step.
StaysSearchable(g) == index'[g] = "full" \/ g \in dropped' \/ generation'[g].cleanup # None

LEMMA IndexesStep ==
  ASSUME RunbooksInv, Move
  PROVE  IndexesStay'
<1> USE DEF RunbooksInv, Move
<1>1. \A g \in Generations : Searchable(g) => StaysSearchable(g)
  BY SearchableStays DEF Searchable, Unclaimed, StaysSearchable
<1>2. \A g \in Generations : generation'[g].indexed => StaysSearchable(g)
  BY <1>1, CatalogueStep DEF IndexesStay
<1>3. \A g \in Generations : generation'[g].state = "active" => generation'[g].indexed
  BY CatalogueStep
<1>4. \A i \in Indexers : indexer'[i].pc = "marking" => StaysSearchable(indexer'[i].gen)
  <2> SUFFICES ASSUME NEW i \in Indexers, indexer'[i].pc = "marking"
               PROVE  StaysSearchable(indexer'[i].gen)
    OBVIOUS
  <2>1. indexer'[i].gen \in Generations /\ Searchable(indexer'[i].gen)
    BY DEF IndexerMove, IndexerGoes, IndexesStay, Engaged, RunbooksTypeOK
  <2> QED BY <1>1, <2>1
<1> QED BY <1>2, <1>3, <1>4 DEF IndexesStay, Searchable, Unclaimed, StaysSearchable

\* A new attempt has a number nobody had.
LEMMA AttemptsStep ==
  ASSUME RunbooksInv, Move
  PROVE  AttemptsAreOwned' /\ SelectionWasActive'
<1> USE DEF RunbooksInv, Move
<1>1. \A g \in Generations : Searchable(g) => StaysSearchable(g)
  BY SearchableStays DEF Searchable, Unclaimed, StaysSearchable
<1>2. /\ retrieval'.status = "absent" => retrieval'.attempt = 0 /\ retrieval'.gen = None
      /\ \/ retrieval'.gen = retrieval.gen /\ retrieval'.revision = retrieval.revision
         \/ /\ retrieval.attempt = 0
            /\ retrieval'.revision \in DOMAIN events
            /\ events[retrieval'.revision].to = retrieval'.gen
  BY DEF ReadingMove, RetrievalMove
<1>3. SelectionWasActive'
  BY <1>2, CatalogueStep DEF SelectionWasActive
<1>4. /\ retrieval.attempt \in Nat
      /\ \A r \in Readers : reader[r].attempt \in Nat
  BY RunbooksAssumption DEF RunbooksTypeOK, RetrievalRow, ReaderState
<1>5. CASE reader' = reader /\ retrieval'.attempt = retrieval.attempt /\ retrieval'.gen = retrieval.gen
  <2>1. \A r \in Readers : reader'[r].pc = "persisting" => StaysSearchable(reader'[r].gen)
    BY <1>1, <1>5 DEF AttemptsAreOwned, Engaged
  <2> QED BY <1>2, <1>3, <1>5, <2>1 DEF AttemptsAreOwned, Searchable, Unclaimed, StaysSearchable
<1>6. ASSUME NEW x \in Readers, NEW s \in ReaderState, ReaderGoes(x, s)
      PROVE  AttemptsAreOwned'
  <2>1. \A r \in Readers : reader'[r] = IF r = x THEN s ELSE reader[r]
    BY <1>6 DEF ReaderGoes, RunbooksTypeOK
  <2>2. \/ s.attempt \in {0, reader[x].attempt} /\ retrieval'.attempt = retrieval.attempt
        \/ s.attempt = retrieval.attempt + 1 /\ retrieval'.attempt = s.attempt
    BY <1>6 DEF ReaderGoes
  <2>3. \A r \in Readers : reader[r].attempt <= retrieval.attempt
    BY DEF AttemptsAreOwned
  <2>4. \A r \in Readers : reader'[r].attempt <= retrieval'.attempt
    BY <1>4, <2>1, <2>2, <2>3
  <2>5. \A r \in Readers : reader'[r].attempt # 0 => reader'[r].gen = retrieval'.gen
    <3> SUFFICES ASSUME NEW r \in Readers, reader'[r].attempt # 0
                 PROVE  reader'[r].gen = retrieval'.gen
      OBVIOUS
    <3>1. CASE r = x
      BY <1>6, <2>1, <3>1 DEF ReaderGoes
    <3>2. CASE r # x
      <4>1. reader'[r] = reader[r] /\ reader[r].attempt # 0
        BY <2>1, <3>2
      <4>2. retrieval.attempt # 0
        BY <1>4, <2>3, <4>1
      <4> QED BY <1>2, <4>1, <4>2 DEF AttemptsAreOwned
    <3> QED BY <3>1, <3>2
  <2>6. \A q, r \in Readers : reader'[q].attempt = reader'[r].attempt /\ reader'[q].attempt # 0 => q = r
    <3>1. \A q, r \in Readers : reader[q].attempt = reader[r].attempt /\ reader[q].attempt # 0 => q = r
      BY DEF AttemptsAreOwned
    <3>2. CASE s.attempt \in {0, reader[x].attempt}
      BY <2>1, <3>1, <3>2
    <3>3. CASE s.attempt = retrieval.attempt + 1
      BY <1>4, <2>1, <2>3, <3>1, <3>3
    <3> QED BY <2>2, <3>2, <3>3
  <2>7. \A r \in Readers :
          /\ reader'[r].pc \in {"listing", "querying", "persisting"} => reader'[r].attempt # 0
          /\ reader'[r].pc \in {"off", "resolving", "claiming"} => reader'[r].attempt = 0
    BY <1>6, <2>1 DEF ReaderGoes, AttemptsAreOwned
  <2>8. \A r \in Readers : reader'[r].pc = "persisting" => StaysSearchable(reader'[r].gen)
    <3> SUFFICES ASSUME NEW r \in Readers, reader'[r].pc = "persisting"
                 PROVE  StaysSearchable(reader'[r].gen)
      OBVIOUS
    <3>1. reader'[r].gen \in Generations /\ Searchable(reader'[r].gen)
      BY <1>6, <2>1 DEF ReaderGoes, AttemptsAreOwned, Engaged
    <3> QED BY <1>1, <3>1
  <2> QED BY <1>2, <2>4, <2>5, <2>6, <2>7, <2>8 DEF AttemptsAreOwned, Searchable, Unclaimed,
               StaysSearchable
<1> QED BY <1>3, <1>5, <1>6 DEF ReadingMove

LEMMA RunbookTypesStep ==
  ASSUME RunbooksInv, Move
  PROVE  RunbooksTypeOK'
<1> USE DEF RunbooksInv, RunbooksTypeOK, Move
<1>1. /\ generation' \in [Generations -> GenerationRow]
      /\ activation' \in [gen : Generations \cup {None}, revision : Revisions]
      /\ events' \in Seq(Event)
  BY CatalogueStep
<1>2. index' \in [Generations -> {None, "empty", "full"}] /\ dropped' \subseteq Generations
  BY DEF VectorMove
<1>3. indexer' \in [Indexers -> IndexerState]
  BY DEF IndexerMove, IndexerGoes
<1>4. operator' \in OperatorState /\ cleaner' \in CleanerState
  BY DEF OperatorMove, CleanerMove
<1>5. retrieval' \in RetrievalRow /\ reader' \in [Readers -> ReaderState]
  BY DEF ReadingMove, RetrievalMove, ReaderGoes
<1> QED BY <1>1, <1>2, <1>3, <1>4, <1>5

LEMMA CatalogueInitial ==
  ASSUME RunbooksInit
  PROVE  RunbooksInv
<1> USE DEF RunbooksInit
<1>1. 0 \in Revisions /\ 0 \in 0..MaxClaims /\ 0 \in 0..MaxTroubles /\ None \notin Generations
  BY RunbooksAssumption DEF Revisions
<1>2. RunbooksTypeOK
  <2>1. /\ generation \in [Generations -> GenerationRow]
        /\ index \in [Generations -> {None, "empty", "full"}]
    BY DEF GenerationRow
  <2>2. retrieval \in RetrievalRow
    BY <1>1 DEF RetrievalRow
  <2>3. /\ indexer \in [Indexers -> IndexerState] /\ reader \in [Readers -> ReaderState]
        /\ operator \in OperatorState /\ cleaner \in CleanerState
    BY IdleRows
  <2>4. /\ activation \in [gen : Generations \cup {None}, revision : Revisions]
        /\ events \in Seq(Event) /\ dropped \subseteq Generations /\ troubles \in 0..MaxTroubles
    BY <1>1
  <2> QED BY <2>1, <2>2, <2>3, <2>4 DEF RunbooksTypeOK
<1>3. Engaged
  BY IdleRows DEF Engaged
<1>4. CatalogueIsConsistent
  BY <1>1 DEF CatalogueIsConsistent, Unclaimed
<1>5. IndexesStay
  BY IdleRows DEF IndexesStay
<1>6. AttemptsAreOwned /\ SelectionWasActive
  BY IdleRows DEF AttemptsAreOwned, SelectionWasActive
<1> QED BY <1>2, <1>3, <1>4, <1>5, <1>6 DEF RunbooksInv

-----------------------------------------------------------------------------
\* Whatever commands, readers, failures and crashes do, in any order, RunbooksInv holds.
THEOREM CatalogueInvariance == RunbooksSpec => []RunbooksInv
<1>1. RunbooksInit => RunbooksInv
  BY CatalogueInitial
<1>2. RunbooksInv /\ [RunbooksNext]_runbookVars => RunbooksInv'
  <2> SUFFICES ASSUME RunbooksInv, [RunbooksNext]_runbookVars PROVE RunbooksInv'
    OBVIOUS
  <2>1. Move
    BY Moves
  <2>2. CatalogueIsConsistent'
    BY <2>1, CatalogueStep DEF Move
  <2> QED BY <2>1, <2>2, RunbookTypesStep, EngagedStep, IndexesStep, AttemptsStep DEF RunbooksInv
<1> QED BY <1>1, <1>2, PTL DEF RunbooksSpec

\* The variables of the catalogue stay what they are declared to be.
THEOREM RunbookTypes == RunbooksSpec => []RunbooksTypeOK
<1>1. RunbooksInv => RunbooksTypeOK
  BY DEF RunbooksInv
<1> QED BY <1>1, CatalogueInvariance, PTL

\* The events of a kind are an unbroken chain of replacements whose last one names the
\* only active generation.
THEOREM CatalogueConsistent == RunbooksSpec => []CatalogueIsConsistent
<1>1. RunbooksInv => CatalogueIsConsistent
  BY DEF RunbooksInv
<1> QED BY <1>1, CatalogueInvariance, PTL

\* The active generation was indexed, and its index is there unless a failing indexer
\* deleted it.
THEOREM ActiveSearchable == RunbooksSpec => []ActiveIsSearchable
<1>1. RunbooksInv => ActiveIsSearchable
  BY DEF RunbooksInv, CatalogueIsConsistent, IndexesStay, Searchable, ActiveIsSearchable
<1> QED BY <1>1, CatalogueInvariance, PTL

\* A retrieval answers from what was active at its revision, under its latest attempt.
THEOREM RetrievalAuthoritative == RunbooksSpec => []RetrievalIsAuthoritative
<1>1. RunbooksInv => RetrievalIsAuthoritative
  <2> SUFFICES ASSUME RunbooksInv PROVE RetrievalIsAuthoritative
    OBVIOUS
  <2> USE DEF RunbooksInv
  <2>1. \A r \in Readers : reader[r].pc = "persisting" /\ Holds(r) =>
          index[reader[r].gen] = "full" \/ reader[r].gen \in dropped
    BY DEF AttemptsAreOwned, Searchable, Holds, Unclaimed
  <2>2. \A r, s \in Readers :
          reader[r].pc = "persisting" /\ reader[s].pc = "persisting" /\ Holds(r) /\ Holds(s) => r = s
    BY DEF AttemptsAreOwned, Holds
  <2> QED BY <2>1, <2>2 DEF RetrievalIsAuthoritative, SelectionWasActive
<1> QED BY <1>1, CatalogueInvariance, PTL
=============================================================================
