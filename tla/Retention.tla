------------------------------ MODULE Retention ------------------------------
(***************************************************************************)
(* The retention of one tenant's records: the bounded sweep                *)
(* (db/retention-operations.ts), the scheduler that repeats it             *)
(* (background/retention-scheduler.ts) and the maintenance command beside  *)
(* it (db/retention-command.ts, scripts/retention-sweep.mts).              *)
(*                                                                         *)
(* A sweep is one transaction.  Of a record only its source and its place  *)
(* among the aged ones of that source matter; once claimed it is never     *)
(* selected again, and its model value stands for a later record.  A dry   *)
(* run changes nothing and is not an action.                               *)
(***************************************************************************)
EXTENDS Naturals, Sequences

CONSTANTS
  SourceCount,  \* sources of the retention matrix; the last is the sweeps' own audit
  Records,      \* records [source, n], so many at a time of each source (bound)
  SweepLimit,   \* RETENTION_SWEEP_LIMIT
  CommandLimit, \* the largest limit of a command
  MaxBatches,   \* RETENTION_SWEEP_MAX_BATCHES
  MaxFailures   \* sweeps that fail (bound)

Sources == 1..SourceCount
Audit == SourceCount

ASSUME RetentionAssumption ==
  /\ SourceCount \in Nat \ {0}
  /\ SweepLimit \in Nat \ {0} /\ CommandLimit \in Nat /\ MaxBatches \in Nat \ {0} /\ MaxFailures \in Nat
  /\ \A r \in Records : r.source \in Sources

VARIABLES
  young,      \* records younger than their retention
  aged,       \* of each source the unclaimed records older than it, oldest first
  next,       \* retention_source_cursors
  scheduler,
  batches,    \* sweeps of this pass
  skipped,    \* sweeps since a source with aged records was served (history)
  failures

retentionVars == <<young, aged, next, scheduler, batches, skipped, failures>>

-----------------------------------------------------------------------------
Aged(r) == \E i \in DOMAIN aged[r.source] : aged[r.source][i] = r

RetentionTypeOK ==
  /\ young \subseteq Records
  /\ aged \in [Sources -> Seq(Records)]
  /\ next \in Sources
  /\ scheduler \in {"off", "starting", "sweeping", "again", "resting"}
  /\ batches \in 0..MaxBatches
  /\ skipped \in [Sources -> Nat]
  /\ failures \in 0..MaxFailures

RetentionInit ==
  /\ young = {}
  /\ aged = [s \in Sources |-> <<>>]
  /\ next = 1
  /\ scheduler = "off"
  /\ batches = 0
  /\ skipped = [s \in Sources |-> 0]
  /\ failures = 0

-----------------------------------------------------------------------------
(* sweepRetention *)

Lesser(m, n) == IF m < n THEN m ELSE n

\* The k-th source from the cursor on.
Turn(k) == ((next + k - 2) % SourceCount) + 1

\* What the first k sources in turn have left of the limit, and what is taken of each.
Taken(limit) ==
  LET Upto[k \in 0..SourceCount] ==
        IF k = 0 THEN 0 ELSE Lesser(Upto[k - 1] + Len(aged[Turn(k)]), limit)
  IN Upto
TakenOf(s, limit) ==
  LET k == CHOOSE k \in Sources : Turn(k) = s IN Taken(limit)[k] - Taken(limit)[k - 1]

Scanned(limit) == Taken(limit)[SourceCount]
LastServed(limit) ==
  Turn(CHOOSE k \in Sources :
         Taken(limit)[k] = Scanned(limit) /\ Taken(limit)[k - 1] < Scanned(limit))

\* Mutant: the next sweep begins where this one did.
SameCursor(s) == next

\* nextSourceCursor
After(s) == (s % SourceCount) + 1

\* The claims, what they do to the records, the cursor and, unless only audits were
\* claimed, the summary that will age like any other record.
Swept(limit) ==
  /\ aged' = [s \in Sources |-> SubSeq(aged[s], TakenOf(s, limit) + 1, Len(aged[s]))]
  /\ next' = IF Scanned(limit) = 0 THEN After(next) ELSE After(LastServed(limit))
  /\ skipped' = [s \in Sources |->
                    IF aged[s] = <<>> \/ TakenOf(s, limit) > 0 THEN 0 ELSE skipped[s] + 1]
  /\ LET Spare == {r \in Records : r.source = Audit /\ r \notin young /\ ~Aged(r)}
         Work == \E s \in Sources \ {Audit} : TakenOf(s, limit) > 0
     IN young' \in IF Work /\ Spare # {} THEN {young \cup {r} : r \in Spare} ELSE {young}

-----------------------------------------------------------------------------
(* startRetentionScheduler *)

Boot ==
  /\ scheduler = "off"
  /\ scheduler' = "starting"
  /\ batches' = 0
  /\ UNCHANGED <<young, aged, next, skipped, failures>>

\* A pass goes on while sweeps are full; one that used up its batches is followed
\* by another at once.
SchedulerSweeps ==
  /\ scheduler \in {"starting", "sweeping"}
  /\ Swept(SweepLimit)
  /\ batches' = batches + 1
  /\ scheduler' = IF Scanned(SweepLimit) < SweepLimit THEN "resting"
                  ELSE IF batches + 1 < MaxBatches THEN scheduler
                  ELSE "again"
  /\ UNCHANGED failures

\* A failure of the first pass keeps the server from starting.
SweepFails ==
  /\ scheduler \in {"starting", "sweeping"}
  /\ failures < MaxFailures
  /\ failures' = failures + 1
  /\ scheduler' = IF scheduler = "starting" THEN "off" ELSE "resting"
  /\ UNCHANGED <<young, aged, next, batches, skipped>>

\* The daily timer, or the immediate one.
TimerFires ==
  /\ scheduler \in {"again", "resting"}
  /\ scheduler' = "sweeping"
  /\ batches' = 0
  /\ UNCHANGED <<young, aged, next, skipped, failures>>

SchedulerStops ==
  /\ scheduler # "off"
  /\ scheduler' = "off"
  /\ UNCHANGED <<young, aged, next, batches, skipped, failures>>

\* The command of an operator, with a limit of its own.
CommandSweeps ==
  /\ \E limit \in 1..CommandLimit : Swept(limit)
  /\ UNCHANGED <<scheduler, batches, failures>>

\* A record is kept for its time; the sweeps' own audit is written by them only.
Ages(r) ==
  /\ ~Aged(r)
  /\ r.source = Audit => r \in young
  /\ young' = young \ {r}
  /\ aged' = [aged EXCEPT ![r.source] = Append(@, r)]
  /\ UNCHANGED <<next, scheduler, batches, skipped, failures>>

-----------------------------------------------------------------------------
RetentionNext ==
  \/ Boot \/ SchedulerSweeps \/ SweepFails \/ TimerFires \/ SchedulerStops \/ CommandSweeps
  \/ \E r \in Records : Ages(r)

RetentionSpec == RetentionInit /\ [][RetentionNext]_retentionVars
=============================================================================
