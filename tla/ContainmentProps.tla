--------------------------- MODULE ContainmentProps ---------------------------
(***************************************************************************)
(* What Containment must guarantee, and the inductive invariant that       *)
(* carries the proofs of Containment_proofs.                               *)
(***************************************************************************)
EXTENDS Containment

\* The action row tells the outcome of its latest attempt and every earlier
\* attempt is closed, although claim, reclaim and finish write them from
\* different executors: at most one fence per action is ever open.
ActionMirrorsAttempt ==
  \A a \in Actions :
    /\ action[a] = IF tries[a] = 0 THEN "pending" ELSE attempt[a][tries[a]]
    /\ \A n \in Attempts : n < tries[a] => attempt[a][n] # "executing"

\* Effects follow the plan: no action takes effect, late or in time, before
\* all its predecessors are verified.
EffectsInPlanOrder ==
  \A a \in Actions : effect[a] # 0 => PredecessorsCompleted(a)

\* A completed action took effect, in the completed attempt or an earlier one.
CompletedMeansApplied ==
  \A a \in Actions : action[a] = "completed" => effect[a] \in 1..tries[a]

\* An incident is contained or closed only over a completely verified plan,
\* whichever executors contributed the outcomes.
ContainedMeansVerified ==
  incident \in {"contained", "closed"} =>
    \A a \in Actions : action[a] = "completed"

-----------------------------------------------------------------------------
(* What the executors may rely on between two transactions *)

\* Attempts are numbered without a gap, and nothing is tried after a success.
AttemptsInSequence ==
  \A a \in Actions, n \in Attempts :
    /\ attempt[a][n] = "none" <=> n > tries[a]
    /\ attempt[a][n] = "completed" => n = tries[a]

\* An action is first claimed when all its predecessors are completed.
StartedInOrder == \A a \in Actions : tries[a] > 0 => PredecessorsCompleted(a)

\* An effect is in the name of an attempt that was made.
EffectHasAttempt == \A a \in Actions : effect[a] <= tries[a]

\* A gateway call holds an attempt of its own, knows its verdict before it
\* stores it, and claims success only over an effect; an executor that is to
\* record "contained" has seen every action completed.
ExecutorInHand ==
  \A x \in Executors :
    /\ exec[x].pc \in {"applying", "verifying", "finishing"} =>
         exec[x].n \in 1..tries[exec[x].at]
    /\ exec[x].pc = "finishing" =>
         /\ exec[x].verdict # "none"
         /\ exec[x].verdict = "completed" => effect[exec[x].at] # 0
    /\ exec[x].pc \in {"reading", "recording"} /\ exec[x].verdict = "completed" =>
         \A a \in Actions : action[a] = "completed"

\* An executor that may still enter containment holds the current version of an
\* incident nobody has contained.
EntryIsCurrent ==
  \A x \in Executors :
    exec[x].pc = "entering" /\ exec[x].fresh => incident \in {"approved", "failed"}

\* The inductive invariant: fences, effects and the plan's order agree, whatever
\* the executors do between reading, claiming, applying and storing.
ContainmentInv ==
  /\ TypeOK
  /\ AttemptsInSequence
  /\ ActionMirrorsAttempt
  /\ StartedInOrder
  /\ EffectHasAttempt
  /\ CompletedMeansApplied
  /\ ExecutorInHand
  /\ EntryIsCurrent
  /\ ContainedMeansVerified

-----------------------------------------------------------------------------
\* A provider operation that was given up never takes effect after its verdict:
\* an effect appears only while its attempt is open, and in its name.
NoLateEffect ==
  [][\A a \in Actions :
       effect'[a] # effect[a] =>
         effect[a] = 0 /\ attempt[a][effect'[a]] = "executing"]_vars

\* Execution implements the contract.
Applied == Cardinality({a \in Actions : effect[a] # 0})
Phase == IF incident \in {"contained", "closed"} THEN incident ELSE "open"
Contract == INSTANCE ContainmentContract WITH applied <- Applied, phase <- Phase
ContractKept == Contract!ContractSpec

\* A contained incident is eventually closed, by the workflow or by a retry,
\* through every bounded mix of crashes and storage errors in between.
ContainedIsClosed == incident = "contained" ~> incident = "closed"

\* "lets a second gateway reclaim an expired lease": an interrupted execution
\* is eventually taken to an outcome while its approval lasts.
InterruptedIsRecovered ==
  incident = "containing" ~> incident # "containing"
=============================================================================
