------------------------------ MODULE Analytics ------------------------------
(***************************************************************************)
(* The analytics read model: the journal the operational database keeps    *)
(* (migrations 0009 and 0014), its export (analytics/exporter.ts) and the  *)
(* DuckDB file it is ingested into, rebuilt and replaced                   *)
(* (analytics/duckdb-analytics-store.ts) by reports that may overlap.      *)
(*                                                                         *)
(* A journal entry is its sequence.  The journal is append-only, so that   *)
(* an export of several pages reads the same as one of a single page.      *)
(* Files are inodes: who has a file open keeps it when its name goes.      *)
(***************************************************************************)
EXTENDS Naturals, Sequences

CONSTANTS
  Reports,     \* processes that use the read model
  Inodes,      \* of the file system, more than the names and processes hold at once
  PageSize,    \* limit of an export
  HistoryEnd,  \* entries up to here may precede migration 0014
  MaxJournal,  \* entries (bound)
  MaxKills     \* processes killed (bound)

ASSUME AnalyticsAssumption ==
  /\ PageSize \in Nat \ {0} /\ HistoryEnd \in Nat /\ MaxJournal \in Nat /\ MaxKills \in Nat
  /\ 0 \notin Inodes
  /\ \A held \in [Reports -> {0} \cup Inodes], named \in [{"path", "temp"} -> {0} \cup Inodes] :
       \E i \in Inodes : /\ \A p \in Reports : held[p] # i
                         /\ \A n \in {"path", "temp"} : named[n] # i

VARIABLES
  journal,  \* analytics_export_events
  file,     \* contents of the inodes
  path,     \* the inode of the read model's name, 0 if there is none
  temp,     \* the inode of the name a rebuild uses
  locks,    \* who created the lock file of either name
  report,
  kills

analyticsVars == <<journal, file, path, temp, locks, report, kills>>

-----------------------------------------------------------------------------
Nobody == "nobody"
NoRows == [last |-> 0, facts |-> {}, withheld |-> {}]

AnalyticsTypeOK ==
  /\ journal \in Seq({"fact", "withheld"})
  /\ Len(journal) <= MaxJournal
  /\ file \in [Inodes -> [last : 0..MaxJournal, facts : SUBSET (1..MaxJournal),
                          withheld : SUBSET (1..MaxJournal)]]
  /\ path \in {0} \cup Inodes /\ temp \in {0} \cup Inodes
  /\ locks \in [{"path", "temp"} -> Reports \cup {Nobody}]
  /\ report \in [Reports -> [pc : {"free", "ingesting", "closing", "replacing", "filling",
                                   "releasing", "renaming", "discarding"},
                             from : 0..MaxJournal, upto : 0..MaxJournal,
                             open : {0} \cup Inodes]]
  /\ kills \in 0..MaxKills

Free == [pc |-> "free", from |-> 0, upto |-> 0, open |-> 0]

AnalyticsInit ==
  /\ journal = <<>>
  /\ file = [i \in Inodes |-> NoRows]
  /\ path = 0 /\ temp = 0
  /\ locks = [n \in {"path", "temp"} |-> Nobody]
  /\ report = [p \in Reports |-> Free]
  /\ kills = 0

-----------------------------------------------------------------------------
Doing(p, pc) == report[p].pc = pc
ReportTo(p, pc) == report' = [report EXCEPT ![p].pc = pc]

DoneWith(p) == report' = [report EXCEPT ![p] = [Free EXCEPT !.open = report[p].open]]

\* A file that neither a name nor a process refers to.
NewInode ==
  CHOOSE i \in Inodes : i # path /\ i # temp /\ \A p \in Reports : report[p].open # i

\* What nothing refers to any longer is gone.
Remaining ==
  [i \in Inodes |-> IF i = path' \/ i = temp' \/ \E p \in Reports : report'[p].open = i
                    THEN file[i] ELSE NoRows]

Released(p) == [n \in {"path", "temp"} |-> IF locks[n] = p THEN Nobody ELSE locks[n]]

\* The triggers; what they wrote before migration 0014 of a provider delivery has no
\* time it was observed at, and is withheld.
Journal(kind) ==
  /\ Len(journal) < MaxJournal
  /\ kind = "withheld" => Len(journal) < HistoryEnd
  /\ journal' = Append(journal, kind)
  /\ UNCHANGED <<file, path, temp, locks, report, kills>>

\* exportAnalyticsSince, for an ingest; exportAllAnalytics, for a rebuild.
Export(p) ==
  /\ Doing(p, "free")
  /\ \/ \E from \in 0..Len(journal) :
          LET upto == IF from + PageSize < Len(journal) THEN from + PageSize ELSE Len(journal) IN
          report' = [report EXCEPT ![p].pc = "ingesting", ![p].from = from, ![p].upto = upto]
     \/ report' = [report EXCEPT ![p].pc = "closing", ![p].from = 0, ![p].upto = Len(journal)]
  /\ UNCHANGED <<journal, file, path, temp, locks, kills>>

-----------------------------------------------------------------------------
(* ingestBatch *)

\* Mutant: the records need not follow what is stored.
AnyOrder(content, n) == TRUE

NextInLine(content, n) == n = content.last + 1

RefusedBatch == [NoRows EXCEPT !.last = MaxJournal + 1]

\* The records of a batch in order: those known are skipped, a gap refuses them all.
Ingested(content, from, upto) ==
  LET Upto[n \in from..upto] ==
        IF n = from THEN content
        ELSE LET before == Upto[n - 1] IN
             IF before = RefusedBatch \/ n \in before.facts \cup before.withheld THEN before
             ELSE IF ~NextInLine(before, n) THEN RefusedBatch
             ELSE IF journal[n] = "fact"
                  THEN [before EXCEPT !.last = n, !.facts = @ \cup {n}]
                  ELSE [before EXCEPT !.last = n, !.withheld = @ \cup {n}]
  IN Upto[upto]

Stored(p, inode) ==
  LET content == Ingested(file[inode], report[p].from, report[p].upto) IN
  IF content = RefusedBatch THEN file[inode] ELSE content

\* The first use opens the file under its lock; a lock that exists refuses it.
OpenStore(p) ==
  /\ Doing(p, "ingesting") /\ report[p].open = 0
  /\ IF locks["path"] # Nobody
     THEN DoneWith(p) /\ UNCHANGED <<path, locks>>
     ELSE LET i == IF path = 0 THEN NewInode ELSE path IN
          /\ path' = i
          /\ locks' = [locks EXCEPT !["path"] = p]
          /\ report' = [report EXCEPT ![p].open = i]
  /\ UNCHANGED <<journal, file, temp, kills>>

IngestBatch(p) ==
  /\ Doing(p, "ingesting") /\ report[p].open # 0
  /\ file' = [file EXCEPT ![report[p].open] = Stored(p, report[p].open)]
  /\ DoneWith(p)
  /\ UNCHANGED <<journal, path, temp, locks, kills>>

CloseStore(p) ==
  /\ Doing(p, "free") /\ report[p].open # 0
  /\ report' = [report EXCEPT ![p] = Free]
  /\ locks' = Released(p)
  /\ UNCHANGED <<journal, path, temp, kills>>
  /\ file' = Remaining

-----------------------------------------------------------------------------
(* rebuild *)

\* It gives up its own file and lock, and removes what an earlier rebuild left, or
\* another is writing.
BeginRebuild(p) ==
  /\ Doing(p, "closing")
  /\ temp' = 0
  /\ locks' = Released(p)
  /\ report' = [report EXCEPT ![p].pc = "replacing", ![p].open = 0]
  /\ UNCHANGED <<journal, path, kills>>
  /\ file' = Remaining

OpenReplacement(p) ==
  /\ Doing(p, "replacing")
  /\ IF locks["temp"] # Nobody
     THEN ReportTo(p, "discarding") /\ UNCHANGED <<temp, locks>>
     ELSE LET i == IF temp = 0 THEN NewInode ELSE temp IN
          /\ temp' = i
          /\ locks' = [locks EXCEPT !["temp"] = p]
          /\ report' = [report EXCEPT ![p].pc = "filling", ![p].open = i]
  /\ UNCHANGED <<journal, file, path, kills>>

\* ingestBatch, then assertIntegrity.
FillReplacement(p) ==
  /\ Doing(p, "filling")
  /\ LET content == Stored(p, report[p].open) IN
     /\ file' = [file EXCEPT ![report[p].open] = content]
     /\ ReportTo(p, IF content.last = report[p].upto THEN "releasing" ELSE "discarding")
  /\ UNCHANGED <<journal, path, temp, locks, kills>>

CloseReplacement(p) ==
  /\ Doing(p, "releasing")
  /\ locks' = Released(p)
  /\ report' = [report EXCEPT ![p].pc = "renaming", ![p].open = 0]
  /\ UNCHANGED <<journal, path, temp, kills>>
  /\ file' = Remaining

\* Whatever has the name by now becomes the read model.
Rename(p) ==
  /\ Doing(p, "renaming")
  /\ IF temp = 0
     THEN ReportTo(p, "discarding") /\ UNCHANGED <<path, temp>>
     ELSE path' = temp /\ temp' = 0 /\ DoneWith(p)
  /\ UNCHANGED <<journal, locks, kills>>
  /\ file' = Remaining

\* The failure of a rebuild.
DiscardReplacement(p) ==
  /\ Doing(p, "discarding")
  /\ temp' = 0
  /\ locks' = Released(p)
  /\ report' = [report EXCEPT ![p] = Free]
  /\ UNCHANGED <<journal, path, kills>>
  /\ file' = Remaining

\* A process that dies leaves its lock files behind; without one it is not missed.
Killed(p) ==
  /\ kills < MaxKills
  /\ \E n \in {"path", "temp"} : locks[n] = p
  /\ kills' = kills + 1
  /\ report' = [report EXCEPT ![p] = Free]
  /\ UNCHANGED <<journal, path, temp, locks>>
  /\ file' = Remaining

-----------------------------------------------------------------------------
UseReadModel(p) ==
  \/ Export(p) \/ OpenStore(p) \/ IngestBatch(p) \/ CloseStore(p)
  \/ BeginRebuild(p) \/ OpenReplacement(p) \/ FillReplacement(p) \/ CloseReplacement(p)
  \/ Rename(p) \/ DiscardReplacement(p) \/ Killed(p)

AnalyticsNext ==
  \/ \E kind \in {"fact", "withheld"} : Journal(kind)
  \/ \E p \in Reports : UseReadModel(p)

AnalyticsSpec == AnalyticsInit /\ [][AnalyticsNext]_analyticsVars
=============================================================================
