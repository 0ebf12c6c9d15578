--------------------------- MODULE Approval_proofs ---------------------------
(***************************************************************************)
(* Proofs about Approval for every number of handlers, loops, deciders and *)
(* failures: the inductive invariant ApprovalInv with the safety           *)
(* properties it contains, and the refinement of ApprovalAuthority.        *)
(***************************************************************************)
EXTENDS ApprovalProps, TLAPS

-----------------------------------------------------------------------------
(* How the rows, the run and the actors move *)

\* A decision is stored with the incident's status and the token.
Decided ==
  /\ decision = Undecided /\ incident = "awaiting_approval"
  /\ decision' \in Ask /\ decision'.choice \in Choices
  /\ incident' = decision'.choice
  /\ token' = "issued"

\* The incident is opened, lapses, or goes on under its verdict.
IncidentMoves ==
  \/ /\ start = "requesting" /\ start' # "requesting"
     /\ incident' = "awaiting_approval"
  \/ /\ Lapses
     /\ incident' = "failed"
  \/ /\ decision.choice = "approved"
     /\ incident' \in {"containing", "contained", "failed", "closed"}
     /\ incident \in {"containing", "contained", "failed", "closed"}
          \/ (incident = "approved" /\ incident' = "containing")
  \/ /\ decision.choice = "rejected"
     /\ incident' = "closed"

\* Every way the incident, the decision and the token change together.
RowMoves ==
  \/ UNCHANGED <<incident, decision, token>>
  \/ /\ UNCHANGED <<incident, decision>>
     /\ token \in {"issued", "consumed"} /\ token' = "consumed"
  \/ /\ UNCHANGED <<incident, decision>>
     /\ token \in {"consumed", "resumed"} /\ token' = "resumed"
     /\ incident \notin {"approved", "rejected"}
  \/ Decided
  \/ UNCHANGED <<decision, token>> /\ IncidentMoves

\* What no step takes back.
Stable ==
  /\ decision # Undecided => decision' = decision
  /\ token \in {"consumed", "resumed"} => token' \in {"consumed", "resumed"}
  /\ \A r \in Receipts : Covered(r) => Covered(r)'
  /\ start = "over" => start' = "over"
  /\ (decision # Undecided /\ incident \notin {"approved", "rejected"}) =>
       incident' \notin {"approved", "rejected"}

\* The run waits for its suspension, goes on with a covered receipt, or ends.
RunMoves ==
  \/ run' = run
  \/ /\ start # "over" /\ start' = "over"
     /\ \E s \in {"failed", "suspended"} : run' = [run EXCEPT !.status = s]
  \/ /\ start = "over"
     /\ \E r \in Receipts \ {"none"} :
          /\ Covered(r)
          /\ run' = [run EXCEPT !.status = "running", !.receipt = r]
  \/ /\ start = "over"
     /\ \E r \in Receipts \ {"none"}, s \in {"success", "failed"}, e \in Results :
          /\ Covered(r)
          /\ run' = [status |-> s, receipt |-> r, result |-> e]
          /\ (r = "token" /\ e # "none") => incident' \notin {"approved", "rejected"}

\* An actor moves to a state in which it has in hand what it needs.
ActorMoves ==
  \/ actor' = actor
  \/ \E x \in Actors, s \in ActorState :
       actor' = [actor EXCEPT ![x] = s] /\ InHand(actor[x])'

-----------------------------------------------------------------------------
(* Helpers *)

\* The idle actor is an actor state and has nothing in hand.
LEMMA IdleType ==
  ASSUME ApprovalAssumption
  PROVE  Idle \in ActorState /\ Idle.pc = "idle" /\ InHand(Idle)' /\ InHand(Idle)
  BY DEF Idle, ActorState, Undecided, Ask, Pc, Receipts, InHand, Reconciling, Executing

\* A covered receipt says whether the approval is decided.
LEMMA CoveredMeans ==
  ASSUME ApprovalInv, NEW r \in Receipts, r # "none", Covered(r)
  PROVE  \/ /\ r = "token" /\ token \in {"consumed", "resumed"} /\ decision # Undecided
            /\ decision.choice \in Choices
         \/ r = "expiry" /\ decision = Undecided /\ incident = "failed" /\ expired
  BY DEF ApprovalInv, TypeOK, TokenFollowsDecision, Covered, Receipts, Ask, Choices

-----------------------------------------------------------------------------
(* Who writes what *)

\* Each variable is left alone by all actions but the few that are named.
LEMMA Writers ==
  ASSUME Next
  PROVE  /\ \/ UNCHANGED <<incident, decision, token>>
            \/ RequestApproval
            \/ \E x \in Actors :
                 \/ ExpireOnRequest(x) \/ ExpireInLoop(x) \/ Decide(x) \/ Authorize(x)
                 \/ RetryContainment(x) \/ EnterContainment(x) \/ Contain(x)
                 \/ Close(x) \/ Mark(x)
         /\ \/ run' = run
            \/ RequestApproval \/ Suspend \/ StartBreaks
            \/ \E x \in Actors :
                 \/ Resume(x) \/ ReadReceipt(x) \/ EndExpired(x) \/ ReadIncident(x)
                 \/ EnterContainment(x) \/ Contain(x) \/ Close(x) \/ StepThrows(x)
         /\ \/ actor' = actor
            \/ \E x \in Actors : \/ Step(x) \/ Submit(x) \/ PollDecision(x)
                                 \/ PollExpiry(x) \/ StepThrows(x) \/ BreakOff(x)
         /\ start' = start \/ Start \/ StartBreaks
         /\ lapsed' = lapsed \/ \E x \in Actors : Mark(x)
         /\ expired' = expired \/ expired' = TRUE
         /\ faults' = faults \/ Fault
<1> USE DEF Next, Start, Step, row
<1>1. \/ UNCHANGED <<incident, decision, token>>
      \/ RequestApproval
      \/ \E x \in Actors :
           \/ ExpireOnRequest(x) \/ ExpireInLoop(x) \/ Decide(x) \/ Authorize(x)
           \/ RetryContainment(x) \/ EnterContainment(x) \/ Contain(x)
           \/ Close(x) \/ Mark(x)
  BY ZenonT(60) DEF OpenExternal, Suspend, StartBreaks, Expire, Look, Check, Resume, ReadReceipt,
         EndExpired, ReadIncident, Recheck, Submit, PollDecision, PollExpiry,
         StepThrows, BreakOff
<1>2. \/ run' = run
      \/ RequestApproval \/ Suspend \/ StartBreaks
      \/ \E x \in Actors :
           \/ Resume(x) \/ ReadReceipt(x) \/ EndExpired(x) \/ ReadIncident(x)
           \/ EnterContainment(x) \/ Contain(x) \/ Close(x) \/ StepThrows(x)
  BY ZenonT(60) DEF OpenExternal, Expire, ExpireOnRequest, Look, Decide, Authorize, ExpireInLoop,
         Check, Recheck, Mark, Submit, PollDecision, PollExpiry, RetryContainment,
         BreakOff
<1>3. \/ actor' = actor
      \/ \E x \in Actors : \/ Step(x) \/ Submit(x) \/ PollDecision(x)
                           \/ PollExpiry(x) \/ StepThrows(x) \/ BreakOff(x)
  BY DEF RequestApproval, OpenExternal, Suspend, StartBreaks, Expire, RetryContainment
<1>4. start' = start \/ Start \/ StartBreaks
  BY ZenonT(60) DEF Expire, ExpireOnRequest, Look, Decide, Authorize, ExpireInLoop, Check, Resume,
         ReadReceipt, EndExpired, ReadIncident, EnterContainment, Contain, Close,
         Recheck, Mark, Submit, PollDecision, PollExpiry, RetryContainment,
         StepThrows, BreakOff
<1>5. lapsed' = lapsed \/ \E x \in Actors : Mark(x)
  BY ZenonT(60) DEF RequestApproval, OpenExternal, Suspend, StartBreaks, Expire, ExpireOnRequest,
         Look, Decide, Authorize, ExpireInLoop, Check, Resume, ReadReceipt, EndExpired,
         ReadIncident, EnterContainment, Contain, Close, Recheck, Submit,
         PollDecision, PollExpiry, RetryContainment, StepThrows, BreakOff
<1>6. expired' = expired \/ expired' = TRUE
  BY ZenonT(60) DEF RequestApproval, OpenExternal, Suspend, StartBreaks, Expire, ExpireOnRequest,
         Look, Decide, Authorize, ExpireInLoop, Check, Resume, ReadReceipt, EndExpired,
         ReadIncident, EnterContainment, Contain, Close, Recheck, Mark, Submit,
         PollDecision, PollExpiry, RetryContainment, StepThrows, BreakOff
<1>7. faults' = faults \/ Fault
  BY ZenonT(60) DEF RequestApproval, OpenExternal, Suspend, StartBreaks, Expire, ExpireOnRequest,
         Look, Decide, Authorize, ExpireInLoop, Check, Resume, ReadReceipt, EndExpired,
         ReadIncident, EnterContainment, Contain, Close, Recheck, Mark, Submit,
         PollDecision, PollExpiry, RetryContainment, StepThrows, BreakOff
<1> QED
  BY <1>1, <1>2, <1>3, <1>4, <1>5, <1>6, <1>7

-----------------------------------------------------------------------------
(* The rows *)

\* A transaction of any actor moves the rows in one of the ways listed.
LEMMA RowStep ==
  ASSUME ApprovalAssumption, ApprovalInv, Next
  PROVE  RowMoves
<1>t. /\ decision \in Ask /\ incident \in IncidentStatus
      /\ decision = Undecided <=> decision.choice = "none"
      /\ token = "none" <=> decision = Undecided
      /\ token \in {"none", "issued", "consumed", "resumed"}
  BY DEF ApprovalInv, TypeOK, TokenFollowsDecision
<1>1. CASE UNCHANGED <<incident, decision, token>>
  BY <1>1 DEF RowMoves
<1>2. CASE RequestApproval
  BY <1>2 DEF RequestApproval, RowMoves, IncidentMoves
<1>3. ASSUME NEW x \in Actors
      PROVE  /\ InHand(actor[x]) /\ actor[x] \in ActorState
             /\ actor[x].receipt \in Receipts
  BY <1>3 DEF ApprovalInv, TypeOK, ActorInHand, ActorState
<1>4. ASSUME NEW x \in Actors, ExpireOnRequest(x) \/ ExpireInLoop(x)
      PROVE  RowMoves
  BY <1>4 DEF ExpireOnRequest, ExpireInLoop, Lapse, RowMoves, IncidentMoves
<1>5. ASSUME NEW x \in Actors, Decide(x)
      PROVE  RowMoves
  <2>1. actor[x].ask \in Ask /\ actor[x].ask.choice \in Choices
    BY <1>3, <1>5 DEF Decide, InHand, ActorState
  <2>2. CASE Decidable(x)
    BY <1>5, <2>1, <2>2 DEF Decide, Decidable, RowMoves, Decided
  <2>3. CASE ~Decidable(x)
    BY <1>5, <2>3 DEF Decide, RowMoves
  <2> QED
    BY <2>2, <2>3
<1>6. ASSUME NEW x \in Actors, Authorize(x)
      PROVE  RowMoves
  BY <1>3, <1>6, <1>t DEF Authorize, InHand, RowMoves
<1>7. ASSUME NEW x \in Actors, RetryContainment(x)
      PROVE  RowMoves
  BY <1>7 DEF RetryContainment, RowMoves, IncidentMoves
<1>8. ASSUME NEW x \in Actors, EnterContainment(x) \/ Contain(x)
      PROVE  RowMoves
  BY <1>3, <1>8 DEF EnterContainment, Contain, InHand, RowMoves, IncidentMoves
<1>9. ASSUME NEW x \in Actors, Close(x)
      PROVE  RowMoves
  <2>1. decision.choice \in Choices
    BY <1>3, <1>9, CoveredMeans
    DEF Close, InHand, Reconciling, Executing, Receipts
  <2> QED
    BY <1>9, <2>1 DEF Close, Choices, RowMoves, IncidentMoves
<1>10. ASSUME NEW x \in Actors, Mark(x)
       PROVE  RowMoves
  <2>1. CASE actor[x].receipt = "token"
    BY <1>3, <1>10, <2>1 DEF Mark, InHand, Covered, Reconciling, RowMoves
  <2>2. CASE actor[x].receipt # "token"
    BY <1>10, <2>2 DEF Mark, RowMoves
  <2> QED
    BY <2>1, <2>2
<1> QED
  BY <1>1, <1>2, <1>4, <1>5, <1>6, <1>7, <1>8, <1>9, <1>10, Writers

\* The first execution of the run writes its rows before anybody else, and a
\* clock that passed the expiry stays there.
LEMMA StartStep ==
  ASSUME ApprovalInv, Next
  PROVE  /\ start = "over" => start' = "over"
         /\ start' \in {"requesting", "opening", "suspending", "over"}
         /\ start' = "requesting" => start = "requesting"
         /\ expired => expired'
         /\ expired' \in BOOLEAN
  BY Writers DEF ApprovalInv, TypeOK, Start, RequestApproval, OpenExternal, Suspend,
     StartBreaks

\* No step takes back a decision, a consumed token, a covered receipt or the
\* effect of a decision.
LEMMA StableStep ==
  ASSUME ApprovalAssumption, ApprovalInv, Next
  PROVE  Stable
<1>t. /\ decision = Undecided <=> decision.choice = "none"
      /\ token = "none" <=> decision = Undecided
      /\ start = "requesting" => incident = "investigating"
      /\ VerdictMatchesIncident
  BY DEF ApprovalInv, TokenFollowsDecision, FirstExecutionFirst
<1>1. RowMoves
  BY RowStep
<1>2. decision # Undecided => decision' = decision
  BY <1>1 DEF RowMoves, Decided
<1>3. token \in {"consumed", "resumed"} => token' \in {"consumed", "resumed"}
  BY <1>1, <1>t DEF RowMoves, Decided
<1>4. Covered("expiry") => Covered("expiry")'
  <2>1. HAVE Covered("expiry")
  <2>2. incident = "failed" /\ decision = Undecided /\ expired
    BY <2>1 DEF Covered
  <2>3. incident' = "failed" /\ decision' = Undecided
    BY <1>1, <1>t, <2>2 DEF RowMoves, Decided, IncidentMoves, Lapses
  <2> QED
    BY <2>2, <2>3, StartStep DEF Covered
<1>5. \A r \in Receipts : Covered(r) => Covered(r)'
  BY <1>3, <1>4 DEF Covered, Receipts
<1>6. (decision # Undecided /\ incident \notin {"approved", "rejected"}) =>
        incident' \notin {"approved", "rejected"}
  BY <1>1 DEF RowMoves, Decided, IncidentMoves, Lapses
<1> QED
  BY <1>2, <1>3, <1>5, <1>6, StartStep DEF Stable

\* What an actor has in hand is not taken from it by the steps of others.
LEMMA InHandStays ==
  ASSUME ApprovalInv, Stable, NEW y \in Actors, actor'[y] = actor[y]
  PROVE  InHand(actor[y])'
<1>1. InHand(actor[y]) /\ actor[y].receipt \in Receipts
  BY DEF ApprovalInv, TypeOK, ActorInHand, ActorState
<1>2. actor[y].pc \in Reconciling =>
        actor[y].receipt # "none" /\ Covered(actor[y].receipt)'
  BY <1>1 DEF InHand, Stable, Covered, Receipts
<1>3. (actor[y].pc \in Reconciling /\ actor[y].receipt = "token") =>
        decision # Undecided
  BY <1>1, CoveredMeans DEF InHand
<1>4. actor[y].pc \in {"reading", "entering", "containing", "marking"} =>
        actor[y].pc \in Reconciling
  BY DEF Reconciling, Executing
<1> QED
  BY <1>1, <1>2, <1>3, <1>4 DEF InHand, Stable

-----------------------------------------------------------------------------
(* The run *)

\* An execution that ends had a covered receipt in hand.
LEMMA EndsRun ==
  ASSUME ApprovalInv, NEW x \in Actors, actor[x].pc \in Executing,
         NEW e \in Results, Ends(x, e),
         (actor[x].receipt = "token" /\ e # "none") =>
           incident' \notin {"approved", "rejected"}
  PROVE  RunMoves
<1>1. InHand(actor[x]) /\ actor[x].receipt \in Receipts
  BY DEF ApprovalInv, TypeOK, ActorInHand, ActorState
<1>2. /\ actor[x].receipt \in Receipts \ {"none"}
      /\ Covered(actor[x].receipt) /\ start = "over"
  BY <1>1 DEF InHand, Reconciling, Executing
<1>3. \E s \in {"success", "failed"} :
        run' = [status |-> s, receipt |-> actor[x].receipt, result |-> e]
  BY DEF Ends
<1> QED
  BY <1>2, <1>3 DEF RunMoves

\* An execution that goes on had a covered receipt in hand.
LEMMA RunGoesOn ==
  ASSUME ApprovalInv, NEW x \in Actors, actor[x].pc \in Executing \cup {"resuming"},
         run' = [run EXCEPT !.status = "running", !.receipt = actor[x].receipt]
  PROVE  RunMoves
<1>1. InHand(actor[x]) /\ actor[x].receipt \in Receipts
  BY DEF ApprovalInv, TypeOK, ActorInHand, ActorState
<1>2. /\ actor[x].receipt \in Receipts \ {"none"}
      /\ Covered(actor[x].receipt) /\ start = "over"
  BY <1>1 DEF InHand, Reconciling, Executing
<1> QED
  BY <1>2 DEF RunMoves

\* Every step moves the run in one of the ways listed.
LEMMA RunStep ==
  ASSUME ApprovalAssumption, ApprovalInv, Next
  PROVE  RunMoves
<1>0. ASSUME run' = run
      PROVE  RunMoves
  BY <1>0 DEF RunMoves
<1>1. CASE RequestApproval \/ StartBreaks
  BY <1>0, <1>1 DEF RequestApproval, StartBreaks, RunMoves
<1>2. CASE Suspend
  BY <1>2 DEF Suspend, RunMoves
<1>3. ASSUME NEW x \in Actors, Resume(x)
      PROVE  RunMoves
  BY <1>0, <1>3, RunGoesOn DEF Resume
<1>4. ASSUME NEW x \in Actors, ReadReceipt(x) \/ StepThrows(x)
      PROVE  RunMoves
  BY <1>4, RunGoesOn, EndsRun DEF ReadReceipt, StepThrows, Executing, Results
<1>5. ASSUME NEW x \in Actors, EndExpired(x)
      PROVE  RunMoves
  <2>1. actor[x].receipt = "expiry"
    BY <1>5 DEF EndExpired, ApprovalInv, ActorInHand, InHand
  <2> QED
    BY <1>5, <2>1, EndsRun DEF EndExpired, Executing, Results
<1>6. ASSUME NEW x \in Actors, ReadIncident(x)
      PROVE  RunMoves
  BY <1>0, <1>6, EndsRun DEF ReadIncident, Executing, Results, row
<1>7. ASSUME NEW x \in Actors, EnterContainment(x) \/ Contain(x)
      PROVE  RunMoves
  BY <1>0, <1>7, EndsRun DEF EnterContainment, Contain, Executing, Results
<1>8. ASSUME NEW x \in Actors, Close(x)
      PROVE  RunMoves
  BY <1>8, EndsRun DEF Close, Executing, Results
<1> QED
  BY <1>0, <1>1, <1>2, <1>3, <1>4, <1>5, <1>6, <1>7, <1>8, Writers

-----------------------------------------------------------------------------
(* The actors *)

\* The actor x moves to s and has in hand what it needs there.
LEMMA Moves ==
  ASSUME ApprovalInv, NEW x \in Actors, NEW s \in ActorState,
         actor' = [actor EXCEPT ![x] = s], InHand(actor[x])'
  PROVE  ActorMoves
  BY DEF ActorMoves

\* Leaving is always a move.
LEMMA LeaveMoves ==
  ASSUME ApprovalAssumption, ApprovalInv, NEW x \in Actors, Leave(x)
  PROVE  ActorMoves
<1>1. actor'[x] = Idle
  BY DEF Leave, ApprovalInv, TypeOK
<1>2. InHand(actor[x])'
  BY <1>1, IdleType DEF InHand, Reconciling, Executing
<1> QED
  BY <1>2, IdleType DEF Leave, ActorMoves

\* Moving the program counter is a move when the new place finds what it needs.
LEMMA GotoMoves ==
  ASSUME ApprovalInv, NEW x \in Actors, NEW pc \in Pc, Goto(x, pc),
         pc \notin {"looking", "deciding"},
         pc = "authorizing" => decision' # Undecided,
         pc \in Reconciling =>
           actor[x].receipt # "none" /\ Covered(actor[x].receipt)',
         pc \in Reconciling \ {"checking"} => start' = "over",
         pc \in {"reading", "entering", "containing"} =>
           actor[x].receipt = "token" /\ decision'.choice = "approved",
         pc = "closing" => actor[x].receipt = "token",
         pc = "lapsed" => actor[x].receipt = "expiry",
         (pc = "marking" /\ actor[x].receipt = "token") =>
           incident' \notin {"approved", "rejected"}
  PROVE  ActorMoves
<1>x. actor[x] \in ActorState
  BY DEF ApprovalInv, TypeOK
<1>1. /\ [actor[x] EXCEPT !.pc = pc] \in ActorState
      /\ [actor[x] EXCEPT !.pc = pc].pc = pc
      /\ [actor[x] EXCEPT !.pc = pc].receipt = actor[x].receipt
  BY <1>x DEF ActorState
<1>2. actor' = [actor EXCEPT ![x] = [actor[x] EXCEPT !.pc = pc]]
  BY DEF Goto
<1>3. actor'[x] = [actor[x] EXCEPT !.pc = pc]
  BY <1>2 DEF ApprovalInv, TypeOK
<1>4. InHand(actor[x])'
  BY <1>1, <1>3 DEF InHand
<1> QED
  BY <1>1, <1>2, <1>4 DEF ActorMoves

\* An actor that holds a receipt goes on with it.
LEMMA ReceiptMoves ==
  ASSUME ApprovalInv, Stable, NEW x \in Actors, actor[x].pc \in Reconciling,
         NEW pc \in Pc, Goto(x, pc), pc \notin {"looking", "deciding", "authorizing"},
         actor[x].pc # "checking" \/ start = "over",
         pc \in {"reading", "entering", "containing"} =>
           actor[x].receipt = "token" /\ decision.choice = "approved",
         pc = "closing" => actor[x].receipt = "token",
         pc = "lapsed" => actor[x].receipt = "expiry",
         (pc = "marking" /\ actor[x].receipt = "token") =>
           incident' \notin {"approved", "rejected"}
  PROVE  ActorMoves
<1>1. /\ InHand(actor[x]) /\ actor[x] \in ActorState
      /\ actor[x].receipt \in Receipts
  BY DEF ApprovalInv, TypeOK, ActorInHand, ActorState
<1>2. actor[x].receipt # "none" /\ Covered(actor[x].receipt) /\ start = "over"
  BY <1>1 DEF InHand
<1>3. actor'[x].receipt = actor[x].receipt
  BY <1>1 DEF Goto, ApprovalInv, TypeOK, ActorState
<1>4. Covered(actor[x].receipt)' /\ start' = "over"
  BY <1>1, <1>2, <1>3 DEF Stable, Covered, Receipts
<1>5. actor[x].receipt = "token" => decision' = decision
  BY <1>1, <1>2, CoveredMeans DEF Stable
<1> QED
  BY <1>2, <1>4, <1>5, GotoMoves

\* An execution that ended is looked at again.
LEMMA EndsMoves ==
  ASSUME ApprovalInv, Stable, NEW x \in Actors, actor[x].pc \in Executing,
         NEW e, Ends(x, e)
  PROVE  ActorMoves
<1>1. actor[x].pc \in Reconciling /\ actor[x].pc # "checking"
  BY DEF Reconciling, Executing
<1>2. Goto(x, "rechecking") /\ "rechecking" \in Pc
  BY DEF Ends, Pc
<1> QED
  BY <1>1, <1>2, ReceiptMoves

\* Requests and the recovery loop, up to the reconciler.
LEMMA RequestMoves ==
  ASSUME ApprovalAssumption, ApprovalInv, Stable, NEW x \in Actors,
         \/ Submit(x) \/ Look(x) \/ Decide(x) \/ Authorize(x) \/ PollDecision(x)
         \/ PollExpiry(x) \/ ExpireInLoop(x) \/ ExpireOnRequest(x) \/ BreakOff(x)
  PROVE  ActorMoves
<1>x. /\ actor \in [Actors -> ActorState] /\ actor[x] \in ActorState
      /\ InHand(actor[x]) /\ expired \in BOOLEAN
  BY DEF ApprovalInv, TypeOK, ActorInHand
<1>1. CASE Submit(x)
  <2>1. PICK d \in Deciders, c \in Choices :
          actor' = [actor EXCEPT ![x].ask = [choice |-> c, by |-> d],
                                 ![x].pc = IF expired THEN "expiring" ELSE "looking"]
    BY <1>1 DEF Submit
  <2> DEFINE pc == IF expired THEN "expiring" ELSE "looking"
             s == [actor[x] EXCEPT !.ask = [choice |-> c, by |-> d], !.pc = pc]
  <2>2. s \in ActorState /\ s.pc = pc /\ s.ask.choice = c
    BY <1>x DEF ActorState, Ask, Pc
  <2>3. actor' = [actor EXCEPT ![x] = s]
    BY <2>1
  <2> HIDE DEF s
  <2>4. actor'[x].pc \in {"expiring", "looking"} /\ actor'[x].ask.choice \in Choices
    BY <1>x, <2>2, <2>3
  <2>5. InHand(actor[x])'
    BY <2>4 DEF InHand, Reconciling, Executing
  <2> QED
    BY <2>2, <2>3, <2>5, Moves
<1>2. ASSUME NEW b \in BOOLEAN, NEW g \in BOOLEAN, decision' # Undecided,
             actor' = [actor EXCEPT ![x].pc = "authorizing", ![x].genuine = g,
                                    ![x].intime = b]
      PROVE  ActorMoves
  <2> DEFINE s == [actor[x] EXCEPT !.pc = "authorizing", !.genuine = g, !.intime = b]
  <2>1. s \in ActorState /\ s.pc = "authorizing"
    BY <1>x DEF ActorState, Pc
  <2>2. actor' = [actor EXCEPT ![x] = s]
    BY <1>2
  <2> HIDE DEF s
  <2>3. actor'[x].pc = "authorizing"
    BY <1>x, <2>1, <2>2
  <2>4. InHand(actor[x])'
    BY <1>2, <2>3 DEF InHand, Reconciling, Executing
  <2> QED
    BY <2>1, <2>2, <2>4, Moves
<1>3. ASSUME NEW r \in {"token", "expiry"}, Covered(r)',
             actor' = [actor EXCEPT ![x].pc = "checking", ![x].receipt = r]
      PROVE  ActorMoves
  <2> DEFINE s == [actor[x] EXCEPT !.pc = "checking", !.receipt = r]
  <2>1. s \in ActorState /\ s.pc = "checking" /\ s.receipt = r
    BY <1>x DEF ActorState, Pc, Receipts
  <2>2. actor' = [actor EXCEPT ![x] = s]
    BY <1>3
  <2> HIDE DEF s
  <2>3. actor'[x].pc = "checking" /\ actor'[x].receipt = r
    BY <1>x, <2>1, <2>2
  <2>4. InHand(actor[x])'
    BY <1>3, <2>3 DEF InHand, Covered, Reconciling, Executing
  <2> QED
    BY <2>1, <2>2, <2>4, Moves
<1>4. CASE Look(x)
  <2>1. CASE decision = Undecided /\ GotoTimed(x, "deciding")
    <3> DEFINE s == [actor[x] EXCEPT !.pc = "deciding", !.intime = ~expired]
    <3>1. s \in ActorState /\ s.pc = "deciding" /\ s.ask = actor[x].ask
      BY <1>x DEF ActorState, Pc
    <3>2. actor' = [actor EXCEPT ![x] = s]
      BY <2>1 DEF GotoTimed
    <3> HIDE DEF s
    <3>3. actor'[x].pc = "deciding" /\ actor'[x].ask = actor[x].ask
      BY <1>x, <3>1, <3>2
    <3>4. InHand(actor[x])'
      BY <1>x, <1>4, <3>3 DEF Look, InHand, Reconciling, Executing
    <3> QED
      BY <3>1, <3>2, <3>4, Moves
  <2>2. CASE /\ decision = actor[x].ask
             /\ actor' = [actor EXCEPT ![x].pc = "authorizing", ![x].genuine = TRUE,
                                       ![x].intime = ~expired]
    <3>1. decision # Undecided /\ decision' = decision
      BY <1>x, <1>4, <2>2 DEF Look, InHand, Choices, Undecided, row
    <3> QED
      BY <1>2, <1>x, <2>2, <3>1
  <2>3. CASE Leave(x)
    BY <2>3, LeaveMoves
  <2> QED
    BY <1>4, <2>1, <2>2, <2>3 DEF Look
<1>5. CASE Decide(x)
  <2>0. actor[x].ask.choice \in Choices
    BY <1>x, <1>5 DEF Decide, InHand
  <2>1. actor[x].ask # Undecided
    BY <2>0 DEF Choices, Undecided
  <2>2. CASE Leave(x)
    BY <2>2, LeaveMoves
  <2>3. CASE ~Leave(x)
    <3>1. decision' = actor[x].ask
      BY <1>5, <2>3 DEF Decide
    <3>2. PICK g \in BOOLEAN :
            actor' = [actor EXCEPT ![x].pc = "authorizing", ![x].genuine = g,
                                   ![x].intime = ~expired]
      BY <1>5, <2>3 DEF Decide
    <3> QED
      BY <1>2, <1>x, <2>1, <3>1, <3>2
  <2> QED
    BY <2>2, <2>3
<1>6. CASE Authorize(x)
  <2>1. CASE Leave(x)
    BY <2>1, LeaveMoves
  <2>2. CASE ~Leave(x) /\ token = "resumed"
    BY <1>6, <2>2 DEF Authorize, Leave
  <2>3. CASE ~Leave(x) /\ token # "resumed"
    <3>1. token \in {"issued", "consumed"}
      BY <1>x, <1>6, <2>3
      DEF Authorize, InHand, ApprovalInv, TypeOK, TokenFollowsDecision
    <3>2. token' = "consumed"
      BY <1>6, <2>3, <3>1 DEF Authorize
    <3>3. actor' = [actor EXCEPT ![x].pc = "checking", ![x].receipt = "token"]
      BY <1>6, <1>x, <2>3 DEF Authorize
    <3> QED
      BY <1>3, <3>2, <3>3 DEF Covered
  <2> QED
    BY <2>1, <2>2, <2>3
<1>7. CASE PollDecision(x)
  <2>1. Covered("token")'
    BY <1>7 DEF PollDecision, ReceiptDue, Covered, row
  <2> QED
    BY <1>3, <1>7, <2>1 DEF PollDecision
<1>8. CASE PollExpiry(x)
  <2>1. CASE Goto(x, "lapsing")
    BY <2>1, GotoMoves DEF Pc, Reconciling, Executing
  <2>2. CASE ~Goto(x, "lapsing")
    <3>1. Covered("expiry")'
      BY <1>8, <2>2 DEF PollExpiry, Covered, row
    <3> QED
      BY <1>3, <1>8, <2>2, <3>1 DEF PollExpiry
  <2> QED
    BY <2>1, <2>2
<1>9. CASE ExpireInLoop(x)
  <2>1. CASE Lapses
    <3>1. Covered("expiry")'
      BY <1>9, <2>1 DEF ExpireInLoop, Lapse, Lapses, Covered
    <3> QED
      BY <1>3, <1>9, <2>1, <3>1 DEF ExpireInLoop
  <2>2. CASE ~Lapses
    BY <1>9, <2>2, LeaveMoves DEF ExpireInLoop
  <2> QED
    BY <2>1, <2>2
<1>10. CASE ExpireOnRequest(x) \/ BreakOff(x)
  BY <1>10, LeaveMoves DEF ExpireOnRequest, BreakOff
<1> QED
  BY <1>1, <1>4, <1>5, <1>6, <1>7, <1>8, <1>9, <1>10

\* The run is done: a token's decision had its effect.
LEMMA CompletedEffect ==
  ASSUME ApprovalInv, NEW x \in Actors, Completed(x), actor[x].receipt = "token"
  PROVE  incident \notin {"approved", "rejected"}
<1>1. run.receipt = "token" /\ run.result # "none"
  BY DEF Completed, Recorded, Expected
<1> QED
  BY <1>1 DEF ApprovalInv, EndedWithEffect

\* The reconciler and the executions of the run.
LEMMA ReconcilerMoves ==
  ASSUME ApprovalAssumption, ApprovalInv, Stable, NEW x \in Actors,
         \/ Check(x) \/ Resume(x) \/ ReadReceipt(x) \/ EndExpired(x)
         \/ ReadIncident(x) \/ EnterContainment(x) \/ Contain(x) \/ Close(x)
         \/ Recheck(x) \/ Mark(x) \/ StepThrows(x)
  PROVE  ActorMoves
<1>h. InHand(actor[x]) /\ actor[x].receipt \in Receipts
  BY DEF ApprovalInv, TypeOK, ActorInHand, ActorState
<1>o. run.status # "running" => start = "over"
  BY DEF ApprovalInv, FirstExecutionFirst
<1>e. ASSUME actor[x].pc \in Executing, NEW e, Ends(x, e)
      PROVE  ActorMoves
  BY <1>e, EndsMoves
<1>1. CASE Check(x)
  <2>1. /\ actor[x].pc \in Reconciling
        /\ "resuming" \in Pc /\ "marking" \in Pc
    BY <1>1 DEF Check, Reconciling, Pc
  <2>2. CASE Completed(x) /\ Goto(x, "marking")
    <3>1. start = "over" /\ incident' = incident
      BY <1>1, <1>o, <2>2 DEF Check, Completed, row
    <3> QED
      BY <2>1, <2>2, <3>1, CompletedEffect, ReceiptMoves
  <2>3. CASE run.status = "suspended" /\ Goto(x, "resuming")
    BY <1>o, <2>1, <2>3, ReceiptMoves
  <2>4. CASE Leave(x)
    BY <2>4, LeaveMoves
  <2> QED
    BY <1>1, <2>2, <2>3, <2>4 DEF Check
<1>2. CASE Resume(x)
  <2>1. /\ actor[x].pc \in Reconciling /\ actor[x].pc # "checking"
        /\ "rechecking" \in Pc /\ "woken" \in Pc
    BY <1>2 DEF Resume, Reconciling, Pc
  <2>2. start = "over"
    BY <1>h, <2>1 DEF InHand
  <2> QED
    BY <1>2, <2>1, <2>2, ReceiptMoves DEF Resume
<1>3. CASE ReadReceipt(x)
  <2>1. /\ actor[x].pc \in Reconciling /\ actor[x].pc # "checking"
        /\ actor[x].pc \in Executing
        /\ {"lapsed", "reading", "closing"} \subseteq Pc
    BY <1>3 DEF ReadReceipt, Reconciling, Executing, Pc
  <2>2. CASE actor[x].receipt = "expiry" /\ Goto(x, "lapsed")
    BY <2>1, <2>2, ReceiptMoves
  <2>3. CASE /\ actor[x].receipt = "token" /\ decision.choice = "approved"
             /\ Goto(x, "reading")
    BY <2>1, <2>3, ReceiptMoves
  <2>4. CASE actor[x].receipt = "token" /\ Goto(x, "closing")
    BY <2>1, <2>4, ReceiptMoves
  <2> QED
    BY <1>3, <1>e, <2>1, <2>2, <2>3, <2>4 DEF ReadReceipt
<1>4. CASE ReadIncident(x) \/ EnterContainment(x) \/ Contain(x)
  <2>1. /\ actor[x].pc \in Reconciling /\ actor[x].pc # "checking"
        /\ actor[x].pc \in Executing
        /\ {"entering", "containing", "closing"} \subseteq Pc
    BY <1>4 DEF ReadIncident, EnterContainment, Contain, Reconciling, Executing, Pc
  <2>2. actor[x].receipt = "token" /\ decision.choice = "approved"
    BY <1>4, <1>h DEF ReadIncident, EnterContainment, Contain, InHand
  <2>3. ASSUME NEW pc \in {"entering", "containing", "closing"}, Goto(x, pc)
        PROVE  ActorMoves
    BY <2>1, <2>2, <2>3, ReceiptMoves
  <2> QED
    BY <1>4, <1>e, <2>1, <2>3 DEF ReadIncident, EnterContainment, Contain
<1>5. CASE Recheck(x)
  <2>1. /\ actor[x].pc \in Reconciling /\ actor[x].pc # "checking"
        /\ "marking" \in Pc /\ incident' = incident
    BY <1>5 DEF Recheck, Reconciling, Pc, row
  <2>2. CASE Completed(x) /\ Goto(x, "marking")
    BY <2>1, <2>2, CompletedEffect, ReceiptMoves
  <2> QED
    BY <1>5, <2>2, LeaveMoves DEF Recheck
<1>6. CASE EndExpired(x) \/ Close(x) \/ StepThrows(x)
  BY <1>6, <1>e DEF EndExpired, Close, StepThrows, Executing
<1>7. CASE Mark(x)
  BY <1>7, LeaveMoves DEF Mark
<1> QED
  BY <1>1, <1>2, <1>3, <1>4, <1>5, <1>6, <1>7

\* Every step moves the actors in one of the ways listed.
LEMMA ActorStep ==
  ASSUME ApprovalAssumption, ApprovalInv, Next
  PROVE  ActorMoves
<1>1. CASE actor' = actor
  BY <1>1 DEF ActorMoves
<1> QED
  BY <1>1, StableStep, RequestMoves, ReconcilerMoves, Writers DEF Step

-----------------------------------------------------------------------------
(* The inductive invariant *)

\* The program starts in it.
LEMMA InitInv ==
  ASSUME ApprovalAssumption, Init
  PROVE  ApprovalInv
<1>1. TypeOK
  <2>1. incident \in IncidentStatus /\ decision \in Ask /\ faults \in 0..MaxFaults
    BY DEF Init, IncidentStatus, Ask, Undecided, ApprovalAssumption
  <2>2. run \in RunState
    BY DEF Init, RunState, Receipts, Results
  <2>3. actor \in [Actors -> ActorState]
    BY IdleType DEF Init
  <2> QED
    BY <2>1, <2>2, <2>3 DEF Init, TypeOK
<1>2. ActorInHand
  BY IdleType DEF Init, ActorInHand
<1> QED
  BY <1>1, <1>2 DEF Init, ApprovalInv, TokenFollowsDecision, Undecided,
     FirstExecutionFirst, Untouched, EndedWithEffect, VerdictMatchesIncident,
     Fitting, ResumedWithAuthority, Covered, MarkedMeansFinished

\* Every step keeps the types.
LEMMA TypeStep ==
  ASSUME ApprovalAssumption, ApprovalInv, Next
  PROVE  TypeOK'
<1>t. TypeOK
  BY DEF ApprovalInv
<1>1. /\ incident' \in IncidentStatus /\ decision' \in Ask
      /\ token' \in {"none", "issued", "consumed", "resumed"}
  BY <1>t, RowStep
  DEF RowMoves, Decided, IncidentMoves, TypeOK, IncidentStatus, Choices
<1>2. lapsed' \in BOOLEAN
  BY <1>t, Writers DEF TypeOK, Mark
<1>3. run' \in RunState
  <2>1. run \in RunState
    BY <1>t DEF TypeOK
  <2>2. ASSUME NEW s \in {"failed", "suspended"}, run' = [run EXCEPT !.status = s]
        PROVE  run' \in RunState
    BY <2>1, <2>2 DEF RunState
  <2>3. ASSUME NEW r \in Receipts,
               run' = [run EXCEPT !.status = "running", !.receipt = r]
        PROVE  run' \in RunState
    BY <2>1, <2>3 DEF RunState
  <2>4. ASSUME NEW r \in Receipts, NEW s \in {"success", "failed"}, NEW e \in Results,
               run' = [status |-> s, receipt |-> r, result |-> e]
        PROVE  run' \in RunState
    BY <2>4 DEF RunState
  <2> QED
    BY <2>1, <2>2, <2>3, <2>4, RunStep DEF RunMoves
<1>4. actor' \in [Actors -> ActorState]
  BY <1>t, ActorStep DEF ActorMoves, TypeOK
<1>5. faults' \in 0..MaxFaults
  BY <1>t, Writers DEF TypeOK, Fault, ApprovalAssumption
<1> QED
  BY <1>1, <1>2, <1>3, <1>4, <1>5, StartStep DEF TypeOK

\* Nobody writes the run before its suspension but the first execution.
LEMMA FirstStep ==
  ASSUME ApprovalAssumption, ApprovalInv, Next
  PROVE  FirstExecutionFirst' /\ ResumedWithAuthority' /\ EndedWithEffect'
<1>t. /\ FirstExecutionFirst /\ ResumedWithAuthority /\ EndedWithEffect
      /\ TokenFollowsDecision /\ run \in RunState /\ Stable
  BY StableStep DEF ApprovalInv, TypeOK
<1>r. run.receipt \in Receipts /\ run.result \in Results
  BY <1>t DEF RunState
<1>c. \A r \in Receipts : Covered(r) => Covered(r)'
  BY <1>t DEF Stable
<1>e. run.receipt = "token" => decision # Undecided
  BY <1>t DEF ResumedWithAuthority, Covered, TokenFollowsDecision
<1>s. start = "over" => start' = "over"
  BY StartStep
<1>q. start' = "requesting" => incident' = "investigating"
  <2>1. HAVE start' = "requesting"
  <2>2. start = "requesting" /\ incident = "investigating" /\ decision = Undecided
    BY <2>1, <1>t, StartStep DEF FirstExecutionFirst, ApprovalInv,
       VerdictMatchesIncident, Fitting, TokenFollowsDecision, TypeOK, Ask, Choices
  <2> QED
    BY <2>1, <2>2, RowStep DEF RowMoves, Decided, IncidentMoves, Lapses, Undecided
<1>1. CASE run' = run
  <2>1. EndedWithEffect'
    BY <1>1, <1>t, <1>e DEF EndedWithEffect, Stable
  <2>2. ResumedWithAuthority'
    BY <1>1, <1>t, <1>r, <1>c DEF ResumedWithAuthority, Covered, Receipts
  <2> QED
    BY <1>1, <1>t, <1>s, <1>q, <2>1, <2>2 DEF FirstExecutionFirst, Untouched
<1>2. CASE /\ start # "over" /\ start' = "over"
           /\ \E s \in {"failed", "suspended"} : run' = [run EXCEPT !.status = s]
  <2>1. run'.receipt = "none" /\ run'.result = "none"
    BY <1>2, <1>t DEF FirstExecutionFirst, Untouched, RunState
  <2> QED
    BY <1>2, <2>1 DEF FirstExecutionFirst, Untouched, ResumedWithAuthority, Covered,
       EndedWithEffect
<1>3. CASE /\ start = "over"
           /\ \E r \in Receipts \ {"none"} :
                /\ Covered(r)
                /\ run' = [run EXCEPT !.status = "running", !.receipt = r]
  <2>1. PICK r \in Receipts \ {"none"} :
          Covered(r) /\ run' = [run EXCEPT !.status = "running", !.receipt = r]
    BY <1>3
  <2>2. run'.status = "running" /\ run'.receipt = r /\ run'.result = run.result
    BY <2>1, <1>t DEF RunState
  <2>3. (r = "token" /\ run.result # "none") => run.receipt = "token"
    BY <1>r, <1>t, <2>1
    DEF EndedWithEffect, ResumedWithAuthority, Covered, TokenFollowsDecision, Receipts
  <2>4. EndedWithEffect'
    BY <1>t, <1>e, <2>1, <2>2, <2>3 DEF EndedWithEffect, Stable
  <2> QED
    BY <1>3, <1>c, <1>s, <2>1, <2>2, <2>4
    DEF FirstExecutionFirst, ResumedWithAuthority, Covered, Receipts
<1>4. CASE /\ start = "over"
           /\ \E r \in Receipts \ {"none"}, s \in {"success", "failed"}, e \in Results :
                /\ Covered(r)
                /\ run' = [status |-> s, receipt |-> r, result |-> e]
                /\ (r = "token" /\ e # "none") =>
                     incident' \notin {"approved", "rejected"}
  BY <1>4, <1>c, <1>s
  DEF FirstExecutionFirst, ResumedWithAuthority, Covered, EndedWithEffect, Receipts
<1> QED
  BY <1>1, <1>2, <1>3, <1>4, RunStep DEF RunMoves

\* The rows keep telling one story.
LEMMA VerdictStep ==
  ASSUME ApprovalAssumption, ApprovalInv, Next
  PROVE  TokenFollowsDecision' /\ VerdictMatchesIncident' /\ MarkedMeansFinished'
<1>t. /\ TokenFollowsDecision /\ VerdictMatchesIncident /\ MarkedMeansFinished
      /\ decision \in Ask
      /\ start = "requesting" => incident = "investigating"
  BY DEF ApprovalInv, TypeOK, FirstExecutionFirst
<1>1. RowMoves /\ Stable
  BY RowStep, StableStep
<1>2. TokenFollowsDecision'
  BY <1>t, <1>1 DEF RowMoves, Decided, TokenFollowsDecision, Choices, Undecided
<1>3. VerdictMatchesIncident'
  <2>1. /\ decision.choice = "none" <=> decision = Undecided
        /\ incident \in Fitting(decision.choice)
    BY <1>t DEF TokenFollowsDecision, VerdictMatchesIncident
  <2>2. CASE UNCHANGED <<incident, decision>>
    BY <1>t, <2>2 DEF VerdictMatchesIncident, Fitting
  <2>3. CASE Decided
    BY <2>3 DEF Decided, VerdictMatchesIncident, Fitting, Choices
  <2>4. CASE decision' = decision /\ IncidentMoves
    <3>1. CASE decision.choice = "none"
      BY <2>1, <2>4, <3>1 DEF IncidentMoves, Lapses, VerdictMatchesIncident, Fitting
    <3>2. CASE decision.choice = "rejected"
      BY <1>t, <2>1, <2>4, <3>2
      DEF IncidentMoves, Lapses, VerdictMatchesIncident, Fitting, Undecided
    <3>3. CASE decision.choice = "approved"
      BY <1>t, <2>1, <2>4, <3>3
      DEF IncidentMoves, Lapses, VerdictMatchesIncident, Fitting, Undecided
    <3> QED
      BY <1>t, <3>1, <3>2, <3>3 DEF Ask, Choices
  <2> QED
    BY <1>1, <2>2, <2>3, <2>4 DEF RowMoves
<1>4. token' = "resumed" => incident' \notin {"approved", "rejected"}
  BY <1>t, <1>1
  DEF RowMoves, Decided, MarkedMeansFinished, TokenFollowsDecision, Stable
<1>5. lapsed' => Covered("expiry")'
  <2>1. CASE lapsed' = lapsed
    BY <1>t, <1>1, <2>1 DEF MarkedMeansFinished, Stable, Receipts
  <2>2. ASSUME NEW x \in Actors, Mark(x), actor[x].receipt # "token"
        PROVE  Covered("expiry")'
    <3>1. actor[x].receipt = "expiry" /\ Covered(actor[x].receipt)
      BY <2>2 DEF Mark, ApprovalInv, TypeOK, ActorInHand, InHand, ActorState,
         Receipts, Reconciling
    <3> QED
      BY <1>1, <3>1 DEF Stable, Receipts
  <2>3. CASE lapsed' # lapsed
    BY <2>2, <2>3, Writers DEF Mark
  <2> QED
    BY <2>1, <2>3
<1> QED
  BY <1>2, <1>3, <1>4, <1>5 DEF MarkedMeansFinished

\* Every actor keeps having in hand what it needs.
LEMMA HandStep ==
  ASSUME ApprovalAssumption, ApprovalInv, Next
  PROVE  ActorInHand'
<1>1. SUFFICES ASSUME NEW y \in Actors
               PROVE  InHand(actor[y])'
  BY DEF ActorInHand
<1>2. CASE actor'[y] = actor[y]
  BY <1>2, StableStep, InHandStays
<1>3. CASE actor'[y] # actor[y]
  <2>1. PICK x \in Actors, s \in ActorState :
          actor' = [actor EXCEPT ![x] = s] /\ InHand(actor[x])'
    BY <1>3, ActorStep DEF ActorMoves
  <2>2. x = y
    BY <1>3, <2>1 DEF ApprovalInv, TypeOK
  <2> QED
    BY <2>1, <2>2
<1> QED
  BY <1>2, <1>3

\* No step leaves the invariant.
LEMMA InvStep ==
  ASSUME ApprovalAssumption, ApprovalInv, [Next]_vars
  PROVE  ApprovalInv'
<1>1. CASE Next
  BY <1>1, TypeStep, FirstStep, VerdictStep, HandStep DEF ApprovalInv
<1>2. CASE UNCHANGED vars
  BY <1>2 DEF vars, ApprovalInv, TypeOK, TokenFollowsDecision, FirstExecutionFirst,
     Untouched, EndedWithEffect, ActorInHand, InHand, Covered, VerdictMatchesIncident,
     ResumedWithAuthority, MarkedMeansFinished
<1> QED
  BY <1>1, <1>2

\* Verdict, token, receipt and incident agree in every reachable state, whatever
\* requests, recovery loops and executions of the run do between two transactions.
THEOREM Invariance == Spec => []ApprovalInv
<1>1. Init => ApprovalInv
  BY InitInv, ApprovalAssumption
<1>2. ApprovalInv /\ [Next]_vars => ApprovalInv'
  BY InvStep, ApprovalAssumption
<1> QED
  BY <1>1, <1>2, PTL DEF Spec

\* The rows, the snapshot and the actors keep their types.
THEOREM TypeCorrect == Spec => []TypeOK
<1>1. ApprovalInv => TypeOK
  BY DEF ApprovalInv
<1> QED
  BY <1>1, Invariance, PTL

\* A rejected or lapsed approval never reaches containment, and an approved one
\* is never rejected (decideApproval and expirePendingApproval race).
THEOREM VerdictFits == Spec => []VerdictMatchesIncident
<1>1. ApprovalInv => VerdictMatchesIncident
  BY DEF ApprovalInv
<1> QED
  BY <1>1, Invariance, PTL

\* The run passes its suspension only on a consumed token or a lapsed approval
\* (authorizeResumeToken, readConsumedResumeReceipt).
THEOREM ResumeCovered == Spec => []ResumedWithAuthority
<1>1. ApprovalInv => ResumedWithAuthority
  BY DEF ApprovalInv
<1> QED
  BY <1>1, Invariance, PTL

\* A token is marked as resumed only after its decision had its effect
\* (markResumeReceiptResumed after reconcileState).
THEOREM MarkedFinished == Spec => []MarkedMeansFinished
<1>1. ApprovalInv => MarkedMeansFinished
  BY DEF ApprovalInv
<1> QED
  BY <1>1, Invariance, PTL

-----------------------------------------------------------------------------
(* The contract of the approval *)

\* The verdict in terms of the rows.
LEMMA VerdictIs ==
  ASSUME ApprovalInv
  PROVE  /\ decision # Undecided => Verdict = decision.choice
         /\ (decision = Undecided /\ incident = "awaiting_approval") => Verdict = "open"
         /\ (decision = Undecided /\ incident = "failed") => Verdict = "lapsed"
         /\ decision = Undecided => ~Acted
         /\ Acted \in BOOLEAN
<1>1. decision # Undecided => incident # "investigating"
  BY DEF ApprovalInv, TypeOK, TokenFollowsDecision, VerdictMatchesIncident, Fitting,
     Ask, Choices
<1>2. decision = Undecided => decision.choice # "approved"
  BY DEF ApprovalInv, TokenFollowsDecision
<1> QED
  BY <1>1, <1>2 DEF Verdict, Acted

\* Every step opens the approval, settles it, acts on it or does none of this.
LEMMA AuthorityStep ==
  ASSUME ApprovalAssumption, ApprovalInv, [Next]_vars
  PROVE  \/ Authority!Open \/ Authority!Settle \/ Authority!Act
         \/ UNCHANGED <<Verdict, Acted>>
<1>1. CASE UNCHANGED <<incident, decision>>
  BY <1>1 DEF Verdict, Acted
<1>2. CASE Next /\ ~UNCHANGED <<incident, decision>>
  <2>t. /\ decision \in Ask /\ (decision = Undecided <=> decision.choice = "none")
        /\ start = "requesting" => incident = "investigating"
        /\ incident \in Fitting(decision.choice)
    BY DEF ApprovalInv, TypeOK, TokenFollowsDecision, FirstExecutionFirst,
       VerdictMatchesIncident
  <2>i. ApprovalInv'
    BY <1>2, InvStep
  <2>1. CASE Decided
    <3>1. Verdict = "open" /\ ~Acted
      BY <2>1, VerdictIs DEF Decided
    <3>2. decision' # Undecided /\ ~Acted'
      BY <2>1 DEF Decided, Choices, Undecided, Acted
    <3>3. Verdict' = decision'.choice
      BY <2>1, <3>2 DEF Decided, Verdict, Choices
    <3> QED
      BY <2>1, <3>1, <3>2, <3>3 DEF Decided, Choices, Authority!Settle, Acted
  <2>2. CASE decision' = decision /\ incident = "investigating"
                                 /\ incident' = "awaiting_approval"
    <3>1. decision = Undecided
      BY <2>t, <2>2 DEF Fitting, Ask, Choices
    <3> QED
      BY <2>2, <3>1 DEF Verdict, Acted, Authority!Open
  <2>3. CASE decision' = decision /\ Lapses /\ incident' = "failed"
    <3>1. decision.choice # "approved"
      BY <2>t, <2>3 DEF Lapses
    <3> QED
      BY <2>3, <3>1 DEF Lapses, Verdict, Acted, Authority!Settle
  <2>4. CASE /\ decision' = decision /\ decision.choice = "approved"
             /\ incident' \in {"containing", "contained", "failed", "closed"}
    <3>1. /\ decision # Undecided
          /\ incident \in {"approved", "containing", "contained", "failed", "closed"}
      BY <2>t, <2>4 DEF Fitting
    <3>2. Verdict = "approved" /\ Verdict' = "approved" /\ Acted'
      BY <2>4, <3>1 DEF Verdict, Acted
    <3>3. CASE incident = "approved"
      BY <2>4, <3>2, <3>3 DEF Acted, Authority!Act
    <3>4. CASE incident # "approved"
      BY <2>4, <3>1, <3>2, <3>4 DEF Acted
    <3> QED
      BY <3>3, <3>4
  <2>5. CASE decision' = decision /\ decision.choice = "rejected" /\ incident' = "closed"
    <3>1. decision # Undecided /\ incident \in {"rejected", "closed"}
      BY <2>t, <2>5 DEF Fitting
    <3> QED
      BY <2>5, <3>1 DEF Verdict, Acted
  <2> QED
    BY <1>2, <2>t, <2>1, <2>2, <2>3, <2>4, <2>5, RowStep DEF RowMoves, IncidentMoves
<1> QED
  BY <1>1, <1>2 DEF vars

\* The approval is opened once, gets at most one verdict for good, and nobody
\* acts on the plan but under an approval.
THEOREM Refinement == Spec => AuthorityKept
<1>1. Init => Authority!AuthorityInit
  BY DEF Init, Undecided, Verdict, Acted, Authority!AuthorityInit
<1>2. ApprovalInv /\ [Next]_vars =>
        [Authority!Open \/ Authority!Settle \/ Authority!Act]_<<Verdict, Acted>>
  BY AuthorityStep, ApprovalAssumption
<1> QED
  BY <1>1, <1>2, Invariance, PTL
  DEF Spec, AuthorityKept, Authority!AuthoritySpec, Authority!authority
=============================================================================
