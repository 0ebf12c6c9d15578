------------------------- MODULE TicketDelivery_proofs -------------------------
(***************************************************************************)
(* The proofs about TicketDelivery, for any number of loops, versions,     *)
(* tickets and faults: what the ledger keeps while it is not misled, then  *)
(* what holds however late anything ends or arrives, and the theorems.     *)
(***************************************************************************)
EXTENDS TicketDeliveryProps, SequenceTheorems, TLAPS

Places == 1..Len(remote)

\* A worker that has been asked for a delivery.
Asked(w) == worker[w].pc \notin {"idle", "recovering", "closing"}
AskedFor(w, o) == Asked(w) /\ worker[w].op = o

\* It claimed the row and goes on to its outcome.
Busy == Working \ {"superseding"}
BusyWith(w, o) == worker[w].op = o /\ worker[w].pc \in Busy
OnIt(o) == row[o].status = "delivering" /\ ~row[o].due
Done(o) == row[o].status \in {"succeeded", "exhausted"}

\* The request of an operation may still take effect.
InFlight(o) ==
  \/ \E w \in Workers : worker[w].op = o /\ worker[w].pc \in {"rechecking", "calling"}
  \/ \E q \in wire : q.op = o
OnTicket(o) == \E i \in Places : remote[i].op = o
FailedSent ==
  \/ \E w \in Workers : BusyWith(w, "failed")
  \/ \E q \in wire : q.op = "failed"
  \/ OnTicket("failed")

-----------------------------------------------------------------------------
VersionsGrow ==
  /\ gen.number <= version
  /\ \A o \in Ops : row[o].gen <= version
  /\ \A o \in Ops : row[o].status # "none" => row[o].gen >= 1

\* What the incident's status and the decision say about each operation.
AboutIncident ==
  /\ status \in {"approved", "containing", "contained"} => approved
  /\ status \in {"awaiting_approval", "rejected"} => ~approved
  /\ flow = "executing" => approved

Concerns(o) == row[o].status # "none" \/ flow = o \/ \E w \in Workers : AskedFor(w, o)

OperationsFit ==
  /\ Concerns("rejected") => ~approved /\ status \in {"rejected", "closed"}
  /\ \A o \in {"failed", "contained"} : Concerns(o) => approved
  /\ Concerns("contained") => Won

\* Nothing but the open delivery happens before the ticket is open.
Past ==
  \/ flow \in {"waiting", "executing", "closing"} \cup Finals
  \/ status \in {"containing", "contained"} \/ (approved /\ status = "failed")
  \/ \E o \in Finals : row[o].status # "none" \/ \E w \in Workers : AskedFor(w, o)

OpenFirst ==
  Past => row["open"].status = "succeeded" /\ \A w \in Workers : ~AskedFor(w, "open")

OpeningAlone ==
  flow = "opening" =>
    /\ \A l \in Loops : ~Asked(l)
    /\ \/ /\ row["open"].status = "none" /\ gen.status = "none"
          /\ At(Flow, "idle") \/ (At(Flow, "claiming") /\ worker[Flow].op = "open")
       \/ OnIt("open") /\ worker[Flow].op = "open" /\ worker[Flow].pc \in Working

\* What a worker may rely on.
BusyHolds ==
  \A w \in Workers : worker[w].pc \in Busy =>
    /\ worker[w].current
    /\ OnIt(worker[w].op) \/ (kind = "linear" /\ worker[w].op = "open" /\ row["open"].status = "succeeded")

SupersedingHolds ==
  \A w \in Workers : At(w, "superseding") =>
    \/ worker[w].op = "failed" /\ Won
    \/ kind = "mock" /\ worker[w].current /\ OnIt(worker[w].op)

Alone ==
  \A w, x \in Workers :
    (w # x /\ worker[w].op = worker[x].op /\ worker[w].pc \in Working /\ worker[x].pc \in Working) =>
      /\ At(w, "superseding") /\ At(x, "superseding")
      /\ worker[w].op = "failed" /\ Won

Readers ==
  \A w \in Workers :
    /\ At(w, "terminalizing") => Done(worker[w].op)
    /\ worker[w].pc \in {"expired", "settling"} =>
         kind = "linear" /\ (Fenced(w) => ~gen.live)
    /\ At(w, "settling") /\ Fenced(w) => \A o \in Finals : row[o].status = "none"
    /\ At(w, "resolving") => worker[w].op = "open"
    /\ worker[w].pc \in {"reconciling", "resolving"} /\ worker[w].op = "open" =>
         row["open"].status \in {"uncertain", "succeeded"}
    /\ At(w, "rechecking") => worker[w].op = "failed"

Referenced ==
  \A o \in Ops : row[o].status = "succeeded" =>
    row[o].ref \in Places /\ remote[row[o].ref].gen >= row[o].gen

References ==
  /\ \A w \in Workers :
       /\ worker[w].pc \in {"called", "persisting", "resolving"} =>
            worker[w].ref \in Places /\ remote[worker[w].ref].gen >= row[worker[w].op].gen
       /\ At(w, "settling") =>
            worker[w].ref \in Places /\ remote[worker[w].ref].gen >= row["open"].gen
  /\ Referenced

\* Writes and requests carry the generation of their rows.
WritesFit ==
  /\ \A i \in Places : LET o == remote[i].op IN
       /\ row[o].status # "none"
       /\ remote[i].gen = row[o].gen /\ remote[i].proj = row[o].proj
       /\ gen.number >= row[o].gen
  /\ \A q \in wire :
       /\ q.gen = row[q.op].gen /\ q.proj = row[q.op].proj
       /\ q.ref = IF q.op = "open" THEN 0 ELSE row["open"].ref
       /\ OnIt(q.op) \/ row[q.op].status = "uncertain"
       /\ \A w \in Workers : worker[w].op = q.op => worker[w].pc \notin Working \ {"doubting"}
  /\ \A o \in Ops : InFlight(o) => gen.number >= row[o].gen

MockOrdered ==
  kind = "mock" =>
    /\ \A i, j \in Places : i < j => remote[i].gen < remote[j].gen
    /\ \A q \in wire, i \in Places : remote[i].op # q.op
LinearSingle ==
  kind = "linear" =>
    /\ Len(remote) <= 1
    /\ \A q \in wire : q.op = "open" => remote = <<>>

\* An update never rewrites a newer one.
FinalsOrdered ==
  /\ \A o \in Finals : row[o].status # "none" => row[o].gen >= row["open"].gen
  /\ FailedSent =>
       /\ Won => row["failed"].gen < version
       /\ row["contained"].status # "none" => row["failed"].gen < row["contained"].gen
  /\ kind = "linear" /\ InFlight("failed") =>
       gen.status = "active" /\ gen.number = row["failed"].gen

TicketInv ==
  /\ StateTyped /\ VersionsGrow /\ AboutIncident /\ OperationsFit /\ OpenFirst /\ OpeningAlone
  /\ BusyHolds /\ SupersedingHolds /\ Alone /\ Readers /\ References /\ WritesFit
  /\ MockOrdered /\ LinearSingle /\ FinalsOrdered

-----------------------------------------------------------------------------
(* A step of one worker that ends its work, or leaves it for another turn.   *)

\* What becomes of the run when a worker returns or throws.
FlowGoes(w) ==
  \/ w # Flow /\ flow' = flow
  \/ /\ w = Flow
     /\ \/ flow' = "over"
        \/ flow \in {"rejected", "contained"} /\ flow' = "closing"
        \/ flow = "opening" /\ row'["open"].status = "succeeded" /\ flow' = "waiting"

\* The row of p is concluded, or put off.
Concludes(w, p, r) ==
  /\ Active(p)
  /\ r \in RowState /\ r.gen = row[p].gen /\ r.proj = row[p].proj
  /\ \/ r.status = "uncertain" /\ worker[w].op = p /\ worker[w].pc \in Busy /\ OnIt(p)
     \/ /\ r.status \in {"succeeded", "exhausted", "retry"}
        /\ \A q \in wire : q.op # p
        /\ \A v \in Workers \ {w} : worker[v].op = p =>
             /\ worker[v].pc \in Busy => kind = "linear" /\ p = "open" /\ r.status = "succeeded"
             /\ worker[v].pc = "superseding" => p = "failed" /\ Won
  /\ r.status = "succeeded" => r.ref \in Places /\ remote[r.ref].gen >= r.gen
  /\ p = "open" /\ row[p].status = "uncertain" => r.status = "succeeded"

RowGoes(w) ==
  row' = row \/ \E p \in Ops : \E r : row' = [row EXCEPT ![p] = r] /\ Concludes(w, p, r)

GenGoes(w) ==
  \/ gen' = gen
  \/ /\ gen.status = "active"
     /\ \E s \in {"terminal", "reconciled"} : gen' = [gen EXCEPT !.status = s]
     /\ kind = "linear" => /\ \A q \in wire : q.op # "failed"
                           /\ \A v \in Workers \ {w} : worker[v].op = "failed" =>
                                worker[v].pc \notin {"rechecking", "calling"}

WireGoes(w) ==
  \/ wire' = wire
  \/ At(w, "calling") /\ wire' = wire \cup {Request(w)} /\ UNCHANGED <<row, gen>>
     /\ (kind = "linear" /\ worker[w].op = "open" => remote = <<>>)
     /\ (kind = "mock" => \A i \in Places : remote[i].op # worker[w].op)

LEMMA IdleState ==
  Idle \in WorkerState /\ NoRow \in RowState
BY DeliveryAssumption
DEF Idle, WorkerState, Pc, Ops, Finals, Status, NoRow, RowState, Versions

LEMMA WritesAreWrites ==
  ASSUME StateTyped
  PROVE  \A i \in Places : remote[i] \in Write
<1> SUFFICES ASSUME NEW i \in Places PROVE remote[i] \in Write
  OBVIOUS
<1> QED BY ElementOfSeq DEF StateTyped, Places

LEMMA EndKeeps ==
  ASSUME TicketInv, NEW w \in Workers, worker' = [worker EXCEPT ![w] = Idle],
         UNCHANGED <<incident, kind, remote>>, faults' \in 0..MaxFaults,
         FlowGoes(w), RowGoes(w), GenGoes(w), WireGoes(w),
         Asked(w) \/ UNCHANGED <<row, gen, wire>>
  PROVE  TicketInv'
<1> USE DEF TicketInv
<1>0. UNCHANGED <<status, version, approved, kind, remote>> /\ Places' = Places
  BY DEF incident, Places
<1>1. /\ \A v \in Workers : worker'[v] = IF v = w THEN Idle ELSE worker[v]
      /\ worker' \in [Workers -> WorkerState]
  BY IdleState DEF StateTyped
<1>2. /\ row' \in [Ops -> RowState]
      /\ \A o \in Ops : row'[o].gen = row[o].gen /\ row'[o].proj = row[o].proj
      /\ \A o \in Ops : row'[o].status = "none" <=> row[o].status = "none"
      /\ \A o \in Ops : Done(o) => row'[o] = row[o]
  <2>1. row \in [Ops -> RowState]
    BY DEF StateTyped
  <2>2. CASE row' = row
    BY <2>1, <2>2
  <2>3. ASSUME NEW p \in Ops, NEW r, row' = [row EXCEPT ![p] = r], Concludes(w, p, r)
        PROVE  /\ row' \in [Ops -> RowState]
               /\ \A o \in Ops : row'[o].gen = row[o].gen /\ row'[o].proj = row[o].proj
               /\ \A o \in Ops : row'[o].status = "none" <=> row[o].status = "none"
               /\ \A o \in Ops : Done(o) => row'[o] = row[o]
    <3>1. r \in RowState /\ r.gen = row[p].gen /\ r.proj = row[p].proj /\ r.status # "none"
          /\ row[p].status # "none" /\ ~Done(p)
      BY <2>3 DEF Concludes, Active, Done
    <3>2. \A o \in Ops : row'[o] = IF o = p THEN r ELSE row[o]
      BY <2>1, <2>3
    <3> QED BY <2>1, <2>3, <3>1, <3>2
  <2> QED BY <2>2, <2>3 DEF RowGoes
<1>3. \A o \in Ops : row'[o] = row[o] \/ Concludes(w, o, row'[o])
  BY DEF RowGoes, StateTyped
<1>4. /\ gen'.number = gen.number /\ gen'.live = gen.live
      /\ gen'.status = gen.status \/ (gen.status = "active" /\ gen' # gen)
      /\ gen' \in [number : Versions, status : {"none", "active", "terminal", "reconciled"},
                   live : BOOLEAN]
  BY DEF GenGoes, StateTyped
<1>5. \A v \in Workers : Asked(v)' => v # w /\ Asked(v)
  BY <1>1 DEF Asked, Idle
<1>6. /\ \A v \in Workers, o \in Ops : AskedFor(v, o)' => AskedFor(v, o)
      /\ \A v \in Workers, o \in Ops : BusyWith(v, o)' => BusyWith(v, o) /\ v # w
      /\ \A v \in Workers : worker'[v].pc \in Working => v # w
  BY <1>1, <1>5 DEF AskedFor, BusyWith, Busy, Working, Idle
<1>7. Won' <=> Won
  BY <1>0 DEF Won
<1>8. \A q \in wire' : q \in wire \/ (At(w, "calling") /\ q = Request(w) /\ UNCHANGED <<row, gen>>
                                  /\ (kind = "linear" /\ worker[w].op = "open" => remote = <<>>))
  BY DEF WireGoes
<1>9. worker[w].op \in Ops /\ worker[w] \in WorkerState
  BY DEF StateTyped, WorkerState
<1>10. /\ At(w, "calling") => /\ gen.number >= row[worker[w].op].gen /\ w \in Workers
                              /\ worker[w].pc \in Busy /\ BusyWith(w, worker[w].op)
       /\ worker[w].pc \in Busy => worker[w].current
  BY <1>9 DEF At, WritesFit, InFlight, Busy, Working, BusyWith, BusyHolds
<1>11. StateTyped'
  <2>1. flow' \in {"opening", "waiting", "executing", "closing", "over"} \cup Finals
    BY DEF StateTyped, FlowGoes
  <2>2. wire' \subseteq [op : Ops, gen : Versions, proj : Status, ref : 0..MaxTickets]
    <3>1. Request(w) \in [op : Ops, gen : Versions, proj : Status, ref : 0..MaxTickets]
      BY <1>9, DeliveryAssumption DEF StateTyped, Request, RowState, Ops
    <3> QED BY <1>8, <3>1 DEF StateTyped
  <2> QED BY <1>0, <1>1, <1>2, <1>4, <2>1, <2>2 DEF StateTyped
<1>12. VersionsGrow'
  BY <1>0, <1>2, <1>4 DEF VersionsGrow
<1>13. AboutIncident'
  BY <1>0 DEF AboutIncident, FlowGoes
<1>14. \A o \in Finals : Concerns(o)' => Concerns(o)
  BY <1>2, <1>6 DEF Concerns, FlowGoes, Finals, Ops
<1>15. OperationsFit'
  BY <1>0, <1>7, <1>14 DEF OperationsFit, Finals
<1>16. OpenFirst'
  <2>1. CASE Past
    <3>1. row'["open"].status = "succeeded"
      BY <1>2, <2>1 DEF OpenFirst, Done, Ops
    <3> QED BY <1>6, <2>1, <3>1 DEF OpenFirst, Ops
  <2>2. CASE ~Past
    <3>1. SUFFICES ASSUME Past' PROVE row'["open"].status = "succeeded" /\ \A v \in Workers : ~AskedFor(v, "open")'
      BY DEF OpenFirst
    <3>2. w = Flow /\ flow = "opening" /\ row'["open"].status = "succeeded"
      BY <1>0, <1>2, <1>6, <2>2, <3>1 DEF Past, FlowGoes, Finals, Ops
    <3> QED BY <1>5, <3>2 DEF OpeningAlone, AskedFor, Workers
  <2> QED BY <2>1, <2>2
<1>17. OpeningAlone'
  <2> SUFFICES ASSUME flow' = "opening" PROVE OpeningAlone'
    BY DEF OpeningAlone
  <2>1. w # Flow /\ flow = "opening" /\ w \in Loops
    BY DEF FlowGoes, Finals, Workers
  <2>2. UNCHANGED <<row, gen, wire>>
    BY <2>1 DEF OpeningAlone
  <2>3. worker'[Flow] = worker[Flow]
    BY <1>1, <2>1 DEF Workers
  <2> QED BY <1>5, <2>1, <2>2, <2>3 DEF OpeningAlone, At, OnIt, Workers
<1>18. BusyHolds'
  <2> SUFFICES ASSUME NEW v \in Workers, worker'[v].pc \in Busy
               PROVE  /\ worker'[v].current
                      /\ \/ OnIt(worker[v].op)'
                         \/ kind' = "linear" /\ worker'[v].op = "open" /\ row'["open"].status = "succeeded"
    BY DEF BusyHolds
  <2>1. v # w /\ worker'[v] = worker[v] /\ worker[v].pc \in Busy /\ worker[v].op \in Ops
    BY <1>1, <1>6 DEF StateTyped, WorkerState, Busy, Working, Idle
  <2>2. /\ worker[v].current
        /\ OnIt(worker[v].op) \/ (kind = "linear" /\ worker[v].op = "open" /\ row["open"].status = "succeeded")
    BY <2>1 DEF BusyHolds
  <2>3. CASE row'[worker[v].op] = row[worker[v].op]
    BY <1>0, <2>1, <2>2, <2>3 DEF OnIt
  <2>4. CASE Concludes(w, worker[v].op, row'[worker[v].op])
    BY <1>0, <2>1, <2>2, <2>4 DEF Concludes, Alone, Busy, Working, At
  <2> QED BY <1>3, <2>1, <2>3, <2>4
<1>19. SupersedingHolds'
  <2> SUFFICES ASSUME NEW v \in Workers, At(v, "superseding")'
               PROVE  \/ worker'[v].op = "failed" /\ Won'
                      \/ kind' = "mock" /\ worker'[v].current /\ OnIt(worker[v].op)'
    BY DEF SupersedingHolds
  <2>1. v # w /\ worker'[v] = worker[v] /\ At(v, "superseding") /\ worker[v].op \in Ops
    BY <1>1, <1>6 DEF StateTyped, WorkerState, Working, At, Idle
  <2>2. \/ worker[v].op = "failed" /\ Won
        \/ kind = "mock" /\ worker[v].current /\ OnIt(worker[v].op)
    BY <2>1 DEF SupersedingHolds
  <2>3. CASE row'[worker[v].op] = row[worker[v].op]
    BY <1>0, <1>7, <2>1, <2>2, <2>3 DEF OnIt
  <2>4. CASE Concludes(w, worker[v].op, row'[worker[v].op])
    BY <1>0, <1>7, <2>1, <2>2, <2>4 DEF Concludes, Alone, Busy, Working, At
  <2> QED BY <1>3, <2>1, <2>3, <2>4
<1>20. Alone'
  BY <1>1, <1>6, <1>7 DEF Alone, At
<1>21. Readers'
  <2> SUFFICES ASSUME NEW v \in Workers
               PROVE  /\ At(v, "terminalizing")' => Done(worker[v].op)'
                      /\ worker'[v].pc \in {"expired", "settling"} =>
                           kind' = "linear" /\ (Fenced(v)' => ~gen'.live)
                      /\ At(v, "settling")' /\ Fenced(v)' => \A o \in Finals : row'[o].status = "none"
                      /\ At(v, "resolving")' => worker'[v].op = "open"
                      /\ worker'[v].pc \in {"reconciling", "resolving"} /\ worker'[v].op = "open" =>
                           row'["open"].status \in {"uncertain", "succeeded"}
                      /\ At(v, "rechecking")' => worker'[v].op = "failed"
    BY DEF Readers
  <2>1. CASE v = w
    BY <1>1, <2>1 DEF At, Idle
  <2>2. CASE v # w
    <3>1. worker'[v] = worker[v] /\ worker[v].op \in Ops
      BY <1>1, <2>2 DEF StateTyped, WorkerState
    <3>2. \A o \in Finals : row[o].status = "none" => row'[o].status = "none"
      BY <1>2 DEF Ops
    <3>3. Done(worker[v].op) => Done(worker[v].op)'
      BY <1>2, <3>1 DEF Done
    <3>4. row["open"].status \in {"uncertain", "succeeded"} => row'["open"].status \in {"uncertain", "succeeded"}
      BY <1>2, <1>3 DEF Concludes, Done, Ops, OnIt
    <3> QED BY <1>0, <1>4, <3>1, <3>2, <3>3, <3>4 DEF Readers, At, Fenced, Done
  <2> QED BY <2>1, <2>2
<1>22. References'
  <2>1. \A v \in Workers :
       /\ worker'[v].pc \in {"called", "persisting", "resolving"} =>
            worker'[v].ref \in Places /\ remote[worker'[v].ref].gen >= row'[worker'[v].op].gen
       /\ At(v, "settling")' =>
            worker'[v].ref \in Places /\ remote[worker'[v].ref].gen >= row'["open"].gen
    BY <1>1, <1>2 DEF References, At, Idle, StateTyped, WorkerState, Ops
  <2>2. \A o \in Ops : row'[o].status = "succeeded" =>
          row'[o].ref \in Places /\ remote[row'[o].ref].gen >= row'[o].gen
    BY <1>2, <1>3 DEF References, Referenced, Concludes, Places
  <2> QED BY <1>0, <2>1, <2>2 DEF References, Referenced, Places, At
<1>23. WritesFit'
  <2>1. \A i \in Places : LET o == remote[i].op IN
          /\ row'[o].status # "none"
          /\ remote[i].gen = row'[o].gen /\ remote[i].proj = row'[o].proj
          /\ gen'.number >= row'[o].gen
    <3>1. \A i \in Places : remote[i].op \in Ops
      BY WritesAreWrites DEF Write
    <3> QED BY <1>2, <1>4, <3>1 DEF WritesFit
  <2>2. \A q \in wire' :
          /\ q.gen = row'[q.op].gen /\ q.proj = row'[q.op].proj
          /\ q.ref = IF q.op = "open" THEN 0 ELSE row'["open"].ref
          /\ OnIt(q.op)' \/ row'[q.op].status = "uncertain"
          /\ \A v \in Workers : worker'[v].op = q.op => worker'[v].pc \notin Working \ {"doubting"}
    <3> SUFFICES ASSUME NEW q \in wire'
                 PROVE  /\ q.gen = row'[q.op].gen /\ q.proj = row'[q.op].proj
                        /\ q.ref = IF q.op = "open" THEN 0 ELSE row'["open"].ref
                        /\ OnIt(q.op)' \/ row'[q.op].status = "uncertain"
                        /\ \A v \in Workers : worker'[v].op = q.op => worker'[v].pc \notin Working \ {"doubting"}
      OBVIOUS
    <3>1. CASE q \in wire
      <4>1. q.op \in Ops
        BY <3>1 DEF StateTyped
      <4>2. q.op # "open" => row'["open"].ref = row["open"].ref
        <5>1. q.op # "open" => row["open"].status = "succeeded"
          BY <3>1, <4>1 DEF WritesFit, OnIt, OpenFirst, Past, Ops
        <5> QED BY <1>2, <5>1 DEF Done, Ops
      <4>3. OnIt(q.op)' \/ row'[q.op].status = "uncertain"
        <5>1. CASE row'[q.op] = row[q.op]
          BY <3>1, <5>1 DEF WritesFit, OnIt
        <5>2. CASE Concludes(w, q.op, row'[q.op])
          BY <3>1, <5>2 DEF Concludes
        <5> QED BY <1>3, <4>1, <5>1, <5>2
      <4>4. \A v \in Workers : worker'[v].op = q.op => worker'[v].pc \notin Working \ {"doubting"}
        BY <1>1, <1>6, <3>1 DEF WritesFit
      <4> QED BY <1>2, <3>1, <4>1, <4>2, <4>3, <4>4 DEF WritesFit
    <3>2. CASE At(w, "calling") /\ q = Request(w) /\ UNCHANGED <<row, gen>>
               /\ (kind = "linear" /\ worker[w].op = "open" => remote = <<>>)
      <4>1. /\ q.op = worker[w].op /\ q.gen = row[q.op].gen /\ q.proj = row[q.op].proj
            /\ q.ref = IF q.op = "open" THEN 0 ELSE row["open"].ref
        BY <3>2 DEF Request
      <4>2. OnIt(q.op)
        BY <1>9, <1>10, <3>2, <4>1 DEF BusyHolds, References, Referenced, Places, Ops
      <4>3. \A v \in Workers : worker'[v].op = q.op => worker'[v].pc \notin Working
        BY <1>1, <1>6, <3>2, <4>1 DEF Alone, At, Working
      <4> QED BY <3>2, <4>1, <4>2, <4>3 DEF OnIt
    <3> QED BY <1>8, <3>1, <3>2
  <2>3. \A o \in Ops : InFlight(o)' => gen'.number >= row'[o].gen
    <3>1. \A o \in Ops : InFlight(o)' => InFlight(o)
      BY <1>1, <1>6, <1>8, <1>9 DEF InFlight, At, Request, Idle
    <3> QED BY <1>2, <1>4, <3>1 DEF WritesFit
  <2> QED BY <1>0, <2>1, <2>2, <2>3 DEF WritesFit
<1>24. MockOrdered' /\ LinearSingle'
  BY <1>0, <1>8 DEF MockOrdered, LinearSingle, WireGoes, Request, Places
<1>25. FinalsOrdered'
  <2>1. InFlight("failed")' => InFlight("failed")
    BY <1>1, <1>6, <1>8, <1>9 DEF InFlight, At, Request, Idle
  <2>2. FailedSent' => FailedSent
    <3>1. OnTicket("failed")' => OnTicket("failed")
      BY <1>0 DEF OnTicket
    <3>2. (\E q \in wire' : q.op = "failed") => (\E q \in wire : q.op = "failed") \/ BusyWith(w, "failed")
      BY <1>8, <1>9, <1>10 DEF Request
    <3> QED BY <1>6, <3>1, <3>2 DEF FailedSent, Ops, Finals
  <2>3. kind = "linear" /\ InFlight("failed")' => gen' = gen
    BY <1>1, <1>8, <1>9 DEF GenGoes, InFlight, Idle, WireGoes
  <2> QED BY <1>0, <1>2, <1>7, <2>1, <2>2, <2>3 DEF FinalsOrdered, Ops, Finals
<1> QED BY <1>11, <1>12, <1>13, <1>15, <1>16, <1>17, <1>18, <1>19, <1>20, <1>21, <1>22, <1>23, <1>24, <1>25

LEMMA ReturnGoes ==
  ASSUME NEW w \in Workers, NEW d \in BOOLEAN, Return(w, d),
         w = Flow /\ flow = "opening" /\ d => row'["open"].status = "succeeded"
  PROVE  worker' = [worker EXCEPT ![w] = Idle] /\ FlowGoes(w)
BY DEF Return, FlowAfter, FlowGoes

LEMMA ThrowGoes ==
  ASSUME NEW w \in Workers, Throw(w)
  PROVE  worker' = [worker EXCEPT ![w] = Idle] /\ FlowGoes(w)
BY DEF Throw, FlowGoes

LEMMA QuitKeeps ==
  ASSUME TicketInv, NEW w \in Workers, Return(w, FALSE) \/ Throw(w),
         UNCHANGED <<incident, ledger, provider>>, faults' \in 0..MaxFaults
  PROVE  TicketInv'
<1>1. worker' = [worker EXCEPT ![w] = Idle] /\ FlowGoes(w)
  BY ReturnGoes, ThrowGoes
<1>2. UNCHANGED <<incident, kind, remote, row, gen, wire>>
  BY DEF ledger, provider
<1> QED BY <1>1, <1>2, EndKeeps DEF RowGoes, GenGoes, WireGoes

\* Who closes the generation closes it over no update of a failed containment.
LEMMA ClosingIsSafe ==
  ASSUME TicketInv, NEW w \in Workers, Holds(w), kind = "linear",
         \/ At(w, "terminalizing")
         \/ worker[w].pc \in Working \ {"doubting"}
  PROVE  /\ \A q \in wire : q.op # "failed"
         /\ \A v \in Workers \ {w} : worker[v].op = "failed" =>
              worker[v].pc \notin {"rechecking", "calling"}
<1> USE DEF TicketInv
<1> SUFFICES ASSUME \/ \E q \in wire : q.op = "failed"
                    \/ \E v \in Workers \ {w} : worker[v].op = "failed" /\
                         worker[v].pc \in {"rechecking", "calling"}
             PROVE  FALSE
  OBVIOUS
<1>1. InFlight("failed") /\ FailedSent
  BY DEF InFlight, FailedSent, BusyWith, Busy, Working
<1>2. gen.number = row["failed"].gen /\ gen.number = row[worker[w].op].gen
  BY <1>1 DEF FinalsOrdered, Holds
<1>3. row["failed"].status \in {"delivering", "uncertain"}
  BY DEF WritesFit, BusyHolds, OnIt, Busy, Working
<1>4. AskedFor(w, worker[w].op) /\ worker[w].op \in Ops
  BY DEF AskedFor, Asked, At, Working, StateTyped, WorkerState
<1>5. CASE worker[w].op = "failed"
  <2>1. CASE At(w, "terminalizing")
    BY <1>3, <1>5, <2>1 DEF Readers, Done
  <2>2. CASE worker[w].pc \in Working \ {"doubting"}
    <3>1. \A q \in wire : q.op # "failed"
      BY <1>5, <2>2 DEF WritesFit
    <3>2. PICK v \in Workers \ {w} : worker[v].op = "failed" /\
            worker[v].pc \in {"rechecking", "calling"}
      BY <3>1
    <3>3. worker[v].op = worker[w].op /\ worker[v].pc \in Working /\ ~At(v, "superseding")
      BY <1>5, <3>2 DEF Working, At
    <3> QED BY <2>2, <3>3 DEF Alone
  <2> QED BY <2>1, <2>2
<1>6. CASE worker[w].op = "contained"
  <2>1. row["contained"].status = "none"
    BY <1>1, <1>2, <1>6 DEF FinalsOrdered, StateTyped, RowState, Versions, Ops, Finals
  <2>2. CASE At(w, "terminalizing")
    BY <1>6, <2>1, <2>2 DEF Readers, Done
  <2>3. CASE worker[w].pc \in Busy
    BY <1>6, <2>1, <2>3 DEF BusyHolds, OnIt
  <2>4. CASE At(w, "superseding")
    BY <1>6, <2>1, <2>4 DEF SupersedingHolds, OnIt
  <2> QED BY <2>2, <2>3, <2>4 DEF Busy, At
<1>7. CASE worker[w].op = "rejected"
  BY <1>3, <1>4, <1>7 DEF OperationsFit, Concerns
<1>8. CASE worker[w].op = "open"
  BY <1>3, <1>4, <1>8 DEF OpenFirst, Past, Finals
<1> QED BY <1>4, <1>5, <1>6, <1>7, <1>8 DEF Ops, Finals

\* A worker that owns its row concludes it.
LEMMA OwnerConcludes ==
  ASSUME TicketInv, NEW w \in Workers, Owned(w), NEW s \in {"succeeded", "exhausted", "retry"},
         NEW ref \in 0..MaxTickets, Conclude(w, s, ref),
         worker[w].pc \in Working \ {"doubting"},
         s = "succeeded" => ref \in Places /\ remote[ref].gen >= row[worker[w].op].gen
  PROVE  RowGoes(w) /\ GenGoes(w)
<1> USE DEF TicketInv
<1> DEFINE p == worker[w].op
           r == [row[p] EXCEPT !.status = s, !.ref = ref, !.due = FALSE]
<1>1. p \in Ops /\ row[p] \in RowState /\ Active(p)
  BY DEF StateTyped, WorkerState, Owned
<1>2. row' = [row EXCEPT ![p] = r]
  BY DEF Conclude, StateTyped
<1>3. r \in RowState /\ r.gen = row[p].gen /\ r.proj = row[p].proj /\ r.status = s /\ r.ref = ref
  BY <1>1 DEF RowState
<1>4. \A q \in wire : q.op # p
  BY DEF WritesFit
<1>5. \A v \in Workers \ {w} : worker[v].op = p =>
        worker[v].pc \notin Busy /\ (worker[v].pc = "superseding" => p = "failed" /\ Won)
  BY DEF Alone, Busy, Working, At
<1>6. Concludes(w, p, r)
  <2>1. p = "open" => row[p].status # "uncertain"
    BY <1>1 DEF BusyHolds, SupersedingHolds, OnIt, Busy, At, Active
  <2> QED BY <1>1, <1>3, <1>4, <1>5, <2>1 DEF Concludes
<1>7. GenGoes(w)
  BY ClosingIsSafe DEF Conclude, Owned, Holds, GenGoes
<1> QED BY <1>1, <1>2, <1>6, <1>7 DEF RowGoes

\* A worker that calls and finds nothing is the first to write.
LEMMA NothingThere ==
  ASSUME TicketInv, NEW w \in Workers, At(w, "calling"), ~Exists(worker[w].op)
  PROVE  /\ kind = "linear" /\ worker[w].op = "open" => remote = <<>>
         /\ kind = "mock" => \A i \in Places : remote[i].op # worker[w].op
<1> USE DEF TicketInv
<1>1. \A i \in Places : remote[i] \in Write /\ remote[i].op # worker[w].op
  <2> SUFFICES ASSUME NEW i \in Places
               PROVE  remote[i] \in Write /\ remote[i].op # worker[w].op
    OBVIOUS
  <2>1. remote[i] \in Write
    BY WritesAreWrites
  <2>2. remote[i].op = worker[w].op => remote[i] = Sought(worker[w].op)
    BY <2>1 DEF WritesFit, Sought, Write
  <2> QED BY <2>1, <2>2 DEF Exists, Found, Places
<1>2. worker[w].op = "open" => \A i \in Places : remote[i].op \notin Finals
  <2>1. worker[w].op = "open" => \A o \in Finals : row[o].status = "none"
    BY DEF OpenFirst, Past, AskedFor, Asked, At
  <2> QED BY <2>1 DEF WritesFit
<1>3. worker[w].op = "open" => Places = {}
  BY <1>1, <1>2 DEF Write, Ops
<1>4. worker[w].op = "open" => remote = <<>>
  <2>1. remote \in Seq(Write)
    BY DEF StateTyped
  <2>2. worker[w].op = "open" => Len(remote) = 0
    <3>1. Len(remote) \in Nat
      BY <2>1, LenProperties
    <3>2. Len(remote) # 0 => 1 \in Places
      BY <3>1 DEF Places
    <3> QED BY <1>3, <3>2
  <2> QED BY <2>1, <2>2, EmptySeq
<1> QED BY <1>1, <1>4

\* A request that is sent and does not mislead is the first of its operation.
LEMMA FirstSent ==
  ASSUME TicketInv, NEW w \in Workers, Sends(w), ~SearchMisses(w), UNCHANGED <<row, gen>>
  PROVE  /\ At(w, "calling") /\ wire' = wire \cup {Request(w)} /\ WireGoes(w)
         /\ kind = "linear" /\ worker[w].op = "open" => remote = <<>>
         /\ kind = "mock" => \A i \in Places : remote[i].op # worker[w].op
<1>1. At(w, "calling") /\ wire' = wire \cup {Request(w)}
  BY DEF Sends
<1>2. kind = "mock" \/ (kind = "linear" /\ worker[w].op = "open") => ~Exists(worker[w].op)
  BY DEF Sends, SearchMisses
<1> QED BY <1>1, <1>2, NothingThere DEF WireGoes

LEMMA CrashKeeps ==
  ASSUME TicketInv, NEW w \in Workers, Crash(w), ~misled'
  PROVE  TicketInv'
<1>1. worker' = [worker EXCEPT ![w] = Idle] /\ FlowGoes(w)
  BY ThrowGoes DEF Crash
<1>2. UNCHANGED <<incident, kind, remote, row, gen>> /\ faults' \in 0..MaxFaults
  BY DeliveryAssumption DEF Crash, ledger, Fault, TicketInv, StateTyped
<1>3. CASE UNCHANGED wire
  BY <1>1, <1>2, <1>3, EndKeeps DEF RowGoes, GenGoes, WireGoes
<1>4. CASE Sends(w) /\ ~SearchMisses(w)
  BY <1>1, <1>2, <1>4, FirstSent, EndKeeps DEF RowGoes, GenGoes, At, Asked
<1> QED BY <1>3, <1>4 DEF Crash

\* What the provider's answer, or its absence, makes of the row.
LEMMA PersistSteps ==
  ASSUME TicketInv, NEW w \in Workers,
         Persist(w) \/ PersistFailure(w) \/ PersistSuperseded(w)
  PROVE  TicketInv'
<1>1. UNCHANGED <<incident, kind, remote, wire>> /\ faults' \in 0..MaxFaults
      /\ worker[w].pc \in Working \ {"doubting"} /\ Asked(w)
  BY DEF Persist, PersistFailure, PersistSuperseded, provider, TicketInv, StateTyped, At, Working, Asked
<1>2. ASSUME Owned(w), NEW s \in {"succeeded", "exhausted", "retry"}, NEW ref \in 0..MaxTickets,
             Conclude(w, s, ref), Return(w, FALSE) \/ (Return(w, TRUE) /\ s = "succeeded"),
             s = "succeeded" => ref \in Places /\ remote[ref].gen >= row[worker[w].op].gen
      PROVE  TicketInv'
  <2>1. w = Flow /\ flow = "opening" /\ s = "succeeded" => row'["open"].status = "succeeded"
    BY <1>1, <1>2 DEF Conclude, TicketInv, StateTyped, OpeningAlone, At, Working, Ops, RowState
  <2>2. worker' = [worker EXCEPT ![w] = Idle] /\ FlowGoes(w)
    BY <1>2, <2>1, ReturnGoes
  <2>3. RowGoes(w) /\ GenGoes(w)
    BY <1>1, <1>2, OwnerConcludes
  <2> QED BY <1>1, <2>2, <2>3, EndKeeps DEF WireGoes
<1>3. CASE Persist(w)
  <2>1. CASE Owned(w) /\ Conclude(w, "succeeded", worker[w].ref) /\ Return(w, TRUE)
    <3>1. /\ worker[w].ref \in 0..MaxTickets /\ worker[w].ref \in Places
          /\ remote[worker[w].ref].gen >= row[worker[w].op].gen
      BY <1>3 DEF TicketInv, StateTyped, WorkerState, References, Persist, At
    <3> QED BY <1>2, <2>1, <3>1
  <2>2. CASE UNCHANGED ledger /\ row[worker[w].op].status = "succeeded" /\ Return(w, TRUE)
    <3>1. w = Flow /\ flow = "opening" => row'["open"].status = "succeeded"
      BY <1>1, <2>2 DEF ledger, TicketInv, OpeningAlone, At, Working
    <3>2. worker' = [worker EXCEPT ![w] = Idle] /\ FlowGoes(w)
      BY <2>2, <3>1, ReturnGoes
    <3> QED BY <1>1, <2>2, <3>2, EndKeeps DEF RowGoes, GenGoes, WireGoes, ledger
  <2>3. CASE UNCHANGED ledger /\ Throw(w)
    BY <1>1, <2>3, QuitKeeps DEF provider
  <2> QED BY <1>3, <2>1, <2>2, <2>3 DEF Persist
<1>4. CASE PersistFailure(w)
  <2>1. CASE UNCHANGED ledger /\ Throw(w)
    BY <1>1, <2>1, QuitKeeps DEF provider
  <2>2. ASSUME Owned(w), NEW s \in {"retry", "exhausted"}, Conclude(w, s, 0), Return(w, FALSE)
        PROVE  TicketInv'
    <3>1. 0 \in 0..MaxTickets
      BY DeliveryAssumption
    <3> QED BY <1>2, <2>2, <3>1
  <2> QED BY <1>4, <2>1, <2>2 DEF PersistFailure
<1>5. CASE PersistSuperseded(w)
  <2>1. CASE UNCHANGED ledger /\ Throw(w)
    BY <1>1, <2>1, QuitKeeps DEF provider
  <2>2. CASE Owned(w) /\ Conclude(w, "exhausted", 0) /\ Return(w, FALSE)
    <3>1. 0 \in 0..MaxTickets
      BY DeliveryAssumption
    <3> QED BY <1>2, <2>2, <3>1
  <2> QED BY <1>5, <2>1, <2>2 DEF PersistSuperseded
<1> QED BY <1>3, <1>4, <1>5

LEMMA DoubtKeeps ==
  ASSUME TicketInv, NEW w \in Workers, PersistDoubt(w)
  PROVE  TicketInv'
<1> USE DEF TicketInv
<1> DEFINE p == worker[w].op
           r == [row[p] EXCEPT !.status = "uncertain", !.due = TRUE]
<1>1. UNCHANGED <<incident, kind, remote, wire, gen>> /\ faults' \in 0..MaxFaults
      /\ worker[w].pc \in Busy /\ Asked(w) /\ p \in Ops /\ row[p] \in RowState
  BY DEF PersistDoubt, provider, StateTyped, WorkerState, At, Working, Busy, Asked
<1>2. CASE Throw(w) /\ UNCHANGED row
  BY <1>1, <1>2, QuitKeeps DEF provider, ledger
<1>3. CASE /\ worker[w].current /\ row[p].status = "delivering"
           /\ row' = [row EXCEPT ![p] = r] /\ Return(w, FALSE)
  <2>1. r \in RowState /\ r.gen = row[p].gen /\ r.proj = row[p].proj /\ r.status = "uncertain"
    BY <1>1 DEF RowState
  <2>2. OnIt(p)
    BY <1>1, <1>3 DEF BusyHolds
  <2>3. Concludes(w, p, r)
    BY <1>1, <1>3, <2>1, <2>2 DEF Concludes, Active
  <2>4. worker' = [worker EXCEPT ![w] = Idle] /\ FlowGoes(w)
    BY <1>3, ReturnGoes
  <2>5. RowGoes(w)
    BY <1>1, <1>3, <2>3 DEF RowGoes
  <2> QED BY <1>1, <2>4, <2>5, EndKeeps DEF GenGoes, WireGoes
<1>4. row \in [Ops -> RowState]
  BY DEF StateTyped
<1> QED BY <1>1, <1>2, <1>3, <1>4 DEF PersistDoubt

LEMMA ResolveKeeps ==
  ASSUME TicketInv, NEW w \in Workers, Resolve(w)
  PROVE  TicketInv'
<1> USE DEF TicketInv
<1> DEFINE ref == worker[w].ref
           r == [row["open"] EXCEPT !.status = "succeeded", !.ref = ref]
<1>1. UNCHANGED <<incident, kind, remote, wire, gen>> /\ faults' \in 0..MaxFaults
      /\ At(w, "resolving") /\ Asked(w) /\ row["open"] \in RowState /\ ref \in 0..MaxTickets
  BY DEF Resolve, provider, StateTyped, WorkerState, At, Asked, Ops
<1>2. /\ worker[w].op = "open" /\ ref \in Places /\ remote[ref].gen >= row["open"].gen
      /\ row["open"].status \in {"uncertain", "succeeded"}
  BY <1>1 DEF Readers, References, At
<1>3. CASE Throw(w) /\ UNCHANGED row
  BY <1>1, <1>3, QuitKeeps DEF provider, ledger
<1>4. CASE Active("open") /\ row' = [row EXCEPT !["open"] = r] /\ Return(w, TRUE)
  <2>1. r \in RowState /\ r.gen = row["open"].gen /\ r.proj = row["open"].proj
        /\ r.status = "succeeded" /\ r.ref = ref
    BY <1>1 DEF RowState
  <2>2. row["open"].status = "uncertain"
    BY <1>2, <1>4 DEF Active
  <2>3. \A q \in wire : q.op # "open"
    <3>1. SUFFICES ASSUME NEW q \in wire, q.op = "open" PROVE FALSE
      OBVIOUS
    <3>2. CASE kind = "linear"
      BY <1>2, <3>1, <3>2 DEF LinearSingle, Places
    <3>3. CASE kind = "mock"
      <4>1. \A o \in Finals : row[o].status = "none"
        BY <2>2 DEF OpenFirst, Past
      <4>2. remote[ref].op = "open"
        BY <1>2, <4>1, WritesAreWrites DEF WritesFit, Write, Ops
      <4> QED BY <1>2, <3>1, <3>3, <4>2 DEF MockOrdered
    <3> QED BY <3>2, <3>3, DeliveryAssumption DEF StateTyped
  <2>4. \A v \in Workers : worker[v].op = "open" => worker[v].pc \notin Busy \cup {"superseding"}
    BY <2>2 DEF BusyHolds, SupersedingHolds, OnIt, At
  <2>5. Concludes(w, "open", r)
    BY <1>2, <1>4, <2>1, <2>2, <2>3, <2>4 DEF Concludes
  <2>6. row' = [row EXCEPT !["open"] = r] /\ row'["open"].status = "succeeded"
    BY <1>4, <2>1 DEF StateTyped, Ops
  <2>7. worker' = [worker EXCEPT ![w] = Idle] /\ FlowGoes(w)
    BY <1>4, <2>6, ReturnGoes
  <2>8. RowGoes(w)
    BY <2>5, <2>6 DEF RowGoes, Ops
  <2> QED BY <1>1, <2>7, <2>8, EndKeeps DEF GenGoes, WireGoes
<1>5. row \in [Ops -> RowState]
  BY DEF StateTyped
<1> QED BY <1>1, <1>2, <1>3, <1>4, <1>5 DEF Resolve

LEMMA TerminalizeKeeps ==
  ASSUME TicketInv, NEW w \in Workers, Terminalize(w)
  PROVE  TicketInv'
<1> USE DEF TicketInv
<1>1. UNCHANGED <<incident, kind, remote, wire, row>> /\ faults' \in 0..MaxFaults
      /\ At(w, "terminalizing") /\ Asked(w)
  BY DEF Terminalize, provider, StateTyped, At, Asked
<1>2. w # Flow \/ flow # "opening"
  BY <1>1 DEF OpeningAlone, At, Working
<1>3. worker' = [worker EXCEPT ![w] = Idle] /\ FlowGoes(w)
  BY <1>2, ReturnGoes DEF Terminalize
<1>4. GenGoes(w)
  BY <1>1, ClosingIsSafe DEF Terminalize, Holds, GenGoes
<1> QED BY <1>1, <1>3, <1>4, EndKeeps DEF RowGoes, WireGoes

LEMMA SettleKeeps ==
  ASSUME TicketInv, NEW w \in Workers, SettleExpired(w)
  PROVE  TicketInv'
<1> USE DEF TicketInv
<1> DEFINE ref == worker[w].ref
           r == [row["open"] EXCEPT !.status = "succeeded", !.ref = ref]
<1>1. UNCHANGED <<incident, kind, remote, wire>> /\ faults' \in 0..MaxFaults
      /\ At(w, "settling") /\ Asked(w) /\ row["open"] \in RowState /\ ref \in 0..MaxTickets
      /\ row \in [Ops -> RowState]
  BY DEF SettleExpired, provider, StateTyped, WorkerState, At, Asked, Ops
<1>2. worker' = [worker EXCEPT ![w] = Idle] /\ FlowGoes(w)
  BY ReturnGoes DEF SettleExpired
<1>3. CASE UNCHANGED ledger
  BY <1>1, <1>2, <1>3, EndKeeps DEF ledger, RowGoes, GenGoes, WireGoes
<1>4. CASE /\ Fenced(w) /\ gen.status = "active"
           /\ gen' = [gen EXCEPT !.status = "reconciled"]
           /\ row' = [o \in Ops |->
                IF row[o].gen = gen.number /\ row[o].status \in {"delivering", "uncertain"}
                THEN [row[o] EXCEPT !.status = "succeeded", !.ref = worker[w].ref]
                ELSE row[o]]
  <2>1. kind = "linear" /\ ref \in Places /\ remote[ref].gen >= row["open"].gen
        /\ \A o \in Finals : row[o].status = "none"
    BY <1>1, <1>4 DEF Readers, References, At
  <2>2. \A q \in wire : q.op # "open" /\ q.op \notin Finals
    BY <2>1 DEF LinearSingle, Places, WritesFit, OnIt
  <2>3. GenGoes(w)
    <3>1. \A v \in Workers : worker[v].op = "failed" => worker[v].pc \notin {"rechecking", "calling"}
      BY <2>1 DEF BusyHolds, OnIt, Busy, Working, Finals
    <3> QED BY <1>4, <2>2, <3>1 DEF GenGoes, Finals
  <2>4. \A o \in Finals : row'[o] = row[o]
    BY <1>4, <2>1 DEF Ops
  <2>5. row'["open"] = row["open"] \/ (row["open"].status \in {"delivering", "uncertain"} /\ row'["open"] = r)
    BY <1>4 DEF Ops
  <2>6. RowGoes(w)
    <3>1. CASE row'["open"] = row["open"]
      <4>1. \A o \in Ops : row'[o] = row[o]
        BY <2>4, <3>1 DEF Ops
      <4>2. row' = row
        BY <1>1, <1>4, <4>1
      <4> QED BY <4>2 DEF RowGoes
    <3>2. CASE row["open"].status \in {"delivering", "uncertain"} /\ row'["open"] = r
      <4>1. row' = [row EXCEPT !["open"] = r]
        <5>1. \A o \in Ops : row'[o] = [row EXCEPT !["open"] = r][o]
          BY <1>1, <2>4, <3>2 DEF Ops
        <5> QED BY <1>1, <1>4, <5>1
      <4>2. r \in RowState /\ r.gen = row["open"].gen /\ r.proj = row["open"].proj
            /\ r.status = "succeeded" /\ r.ref = ref
        BY <1>1 DEF RowState
      <4>3. \A v \in Workers : worker[v].op = "open" => worker[v].pc # "superseding"
        BY <2>1 DEF SupersedingHolds, At
      <4>4. Concludes(w, "open", r)
        BY <2>1, <2>2, <3>2, <4>2, <4>3 DEF Concludes, Active
      <4> QED BY <4>1, <4>4 DEF RowGoes, Ops
    <3> QED BY <2>5, <3>1, <3>2
  <2> QED BY <1>1, <1>2, <2>3, <2>6, EndKeeps DEF WireGoes
<1> QED BY <1>3, <1>4 DEF SettleExpired, ledger

-----------------------------------------------------------------------------
(* A step of a worker on its way from the claim to the outcome.              *)

\* The provider keeps what it has, or gets a write of a row that was claimed.
RemoteGoes ==
  /\ remote' \in Seq(Write) /\ Len(remote') <= MaxTickets
  /\ \A i \in Places : i \in Places' /\ remote'[i].gen >= remote[i].gen
  /\ \A i \in Places' : LET o == remote'[i].op IN
       /\ row[o].status # "none"
       /\ remote'[i].gen = row[o].gen /\ remote'[i].proj = row[o].proj
       /\ gen.number >= row[o].gen
  /\ OnTicket("failed")' => FailedSent
  /\ MockOrdered' /\ LinearSingle'

\* What a worker may rely on at its next place.
Ready(w, pc, ref) ==
  LET p == worker[w].op IN
  /\ pc = "superseding" => (p = "failed" /\ Won) \/ (kind = "mock" /\ OnIt(p))
  /\ pc = "rechecking" => p = "failed"
  /\ pc \in {"rechecking", "calling"} =>
       /\ gen.number >= row[p].gen
       /\ kind = "linear" /\ p = "failed" => gen.status = "active" /\ gen.number = row[p].gen
  /\ pc \in {"called", "persisting"} => ref \in Places' /\ remote'[ref].gen >= row[p].gen

LEMMA RemoteKept ==
  ASSUME TicketInv, UNCHANGED <<row, gen, kind, remote>>, MockOrdered', LinearSingle'
  PROVE  RemoteGoes
<1>1. Places' = Places /\ (OnTicket("failed")' => OnTicket("failed"))
  BY DEF Places, OnTicket
<1>2. \A i \in Places : remote[i].gen \in Nat
  BY WritesAreWrites DEF TicketInv, Write, Versions
<1> QED BY <1>1, <1>2 DEF TicketInv, StateTyped, WritesFit, RemoteGoes, FailedSent

LEMMA ProceedKeeps ==
  ASSUME TicketInv, NEW w \in Workers, worker[w].pc \in Busy \ {"doubting"},
         NEW pc \in Working, NEW ref \in 0..MaxTickets,
         worker' = [worker EXCEPT ![w].pc = pc, ![w].ref = ref],
         UNCHANGED <<incident, flow, ledger, kind>>, faults' \in 0..MaxFaults,
         RemoteGoes, Ready(w, pc, ref),
         wire' = wire \/ (pc = "doubting" /\ WireGoes(w))
  PROVE  TicketInv'
<1> USE DEF TicketInv
<1> DEFINE x == [worker[w] EXCEPT !.pc = pc, !.ref = ref]
           p == worker[w].op
<1>0. UNCHANGED <<status, version, approved, row, gen, flow, kind>>
  BY DEF incident, ledger
<1>1. /\ worker[w] \in WorkerState /\ p \in Ops
      /\ x \in WorkerState /\ x.pc = pc /\ x.op = p /\ x.ref = ref
      /\ x.current = worker[w].current /\ x.fence = worker[w].fence
  BY ZenonT(60) DEF StateTyped, WorkerState, Working, Pc
<1>2. /\ \A v \in Workers : worker'[v] = IF v = w THEN x ELSE worker[v]
      /\ worker' \in [Workers -> WorkerState]
  BY <1>1 DEF StateTyped
<1>3. /\ \A v \in Workers : Asked(v)' <=> Asked(v)
      /\ \A v \in Workers, o \in Ops : AskedFor(v, o)' <=> AskedFor(v, o)
      /\ \A v \in Workers : worker'[v].op = worker[v].op
      /\ \A v \in Workers : worker'[v].pc \in Working <=> worker[v].pc \in Working
      /\ AskedFor(w, p)
  BY <1>1, <1>2 DEF AskedFor, Asked, Busy, Working
<1>4. Won' <=> Won
  BY <1>0 DEF Won
<1>5. \A q \in wire : q.op # p
  BY DEF WritesFit, Busy
<1>6. worker[w].current /\ (OnIt(p) \/ (kind = "linear" /\ p = "open" /\ row["open"].status = "succeeded"))
  BY DEF BusyHolds
<1>7. \A q \in wire' : q \in wire \/ (At(w, "calling") /\ q = Request(w) /\ pc = "doubting"
                                  /\ (kind = "linear" /\ p = "open" => remote = <<>>))
  BY DEF WireGoes
<1>8. StateTyped'
  <2>1. wire' \subseteq [op : Ops, gen : Versions, proj : Status, ref : 0..MaxTickets]
    <3>1. Request(w) \in [op : Ops, gen : Versions, proj : Status, ref : 0..MaxTickets]
      BY <1>1, DeliveryAssumption DEF StateTyped, Request, RowState, Ops
    <3> QED BY <1>7, <3>1 DEF StateTyped
  <2> QED BY <1>0, <1>2, <2>1 DEF StateTyped, RemoteGoes
<1>9. VersionsGrow' /\ AboutIncident'
  BY <1>0 DEF VersionsGrow, AboutIncident
<1>10. OperationsFit'
  <2>1. \A o \in Finals : Concerns(o)' <=> Concerns(o)
    BY <1>0, <1>3 DEF Concerns, Ops
  <2> QED BY <1>0, <1>4, <2>1 DEF OperationsFit, Finals
<1>11. OpenFirst'
  <2>1. Past' => Past
    BY <1>0, <1>3 DEF Past, Ops
  <2> QED BY <1>0, <1>3, <2>1 DEF OpenFirst, Ops
<1>12. OpeningAlone'
  <2> SUFFICES ASSUME flow = "opening" PROVE OpeningAlone'
    BY <1>0 DEF OpeningAlone
  <2>1. w = Flow
    BY <1>3 DEF OpeningAlone, AskedFor, Workers
  <2> QED BY <1>0, <1>1, <1>2, <1>3, <2>1 DEF OpeningAlone, At, OnIt, Workers, Busy, Working
<1>13. BusyHolds'
  BY <1>0, <1>1, <1>2, <1>6 DEF BusyHolds, OnIt
<1>14. SupersedingHolds'
  BY <1>0, <1>1, <1>2, <1>4, <1>6 DEF SupersedingHolds, OnIt, At, Ready
<1>15. Alone'
  <2>1. \A v \in Workers : v # w /\ worker[v].op = p => worker[v].pc \notin Working
    BY DEF Alone, At, Busy
  <2> QED BY <1>1, <1>2, <1>4, <2>1 DEF Alone, At
<1>16. Readers'
  BY <1>0, <1>1, <1>2 DEF Readers, At, Fenced, Done, Ready, Working
<1>17. References'
  <2>1. \A i \in Places, n \in Nat : remote[i].gen >= n => remote'[i].gen >= n
    <3>1. \A i \in Places : remote[i].gen \in Nat /\ remote'[i].gen \in Nat
      <4>1. \A i \in Places' : remote'[i] \in Write
        BY <1>8, ElementOfSeq DEF StateTyped, Places
      <4> QED BY <4>1, WritesAreWrites DEF RemoteGoes, Write, Versions
    <3> QED BY <3>1 DEF RemoteGoes
  <2>2. \A o \in Ops : row[o].gen \in Nat
    BY DEF StateTyped, RowState, Versions
  <2>3. \A i \in Places : i \in Places'
    BY DEF RemoteGoes
  <2>4. Referenced'
    BY <1>0, <2>1, <2>2, <2>3 DEF References, Referenced, Places
  <2>5. ASSUME NEW v \in Workers
        PROVE  /\ worker'[v].pc \in {"called", "persisting", "resolving"} =>
                    worker'[v].ref \in Places' /\ remote'[worker'[v].ref].gen >= row[worker'[v].op].gen
               /\ At(v, "settling")' =>
                    worker'[v].ref \in Places' /\ remote'[worker'[v].ref].gen >= row["open"].gen
    <3>1. CASE v = w
      BY <1>1, <1>2, <3>1 DEF Ready, At, Working
    <3>2. CASE v # w
      <4>1. worker'[v] = worker[v] /\ worker[v].op \in Ops
        BY <1>2, <3>2 DEF StateTyped, WorkerState
      <4> QED BY <2>1, <2>2, <2>3, <4>1 DEF References, At, Ops
    <3> QED BY <3>1, <3>2
  <2> QED BY <1>0, <2>4, <2>5 DEF References
<1>18. WritesFit'
  <2>1. \A i \in Places' : LET o == remote'[i].op IN
          /\ row[o].status # "none"
          /\ remote'[i].gen = row[o].gen /\ remote'[i].proj = row[o].proj
          /\ gen.number >= row[o].gen
    BY DEF RemoteGoes
  <2>2. ASSUME NEW q \in wire'
        PROVE  /\ q.gen = row[q.op].gen /\ q.proj = row[q.op].proj
               /\ q.ref = IF q.op = "open" THEN 0 ELSE row["open"].ref
               /\ OnIt(q.op) \/ row[q.op].status = "uncertain"
               /\ \A v \in Workers : worker'[v].op = q.op => worker'[v].pc \notin Working \ {"doubting"}
    <3>1. CASE q \in wire
      BY <1>1, <1>2, <1>5, <3>1 DEF WritesFit
    <3>2. CASE At(w, "calling") /\ q = Request(w) /\ pc = "doubting"
               /\ (kind = "linear" /\ p = "open" => remote = <<>>)
      <4>1. /\ q.op = p /\ q.gen = row[q.op].gen /\ q.proj = row[q.op].proj
            /\ q.ref = IF q.op = "open" THEN 0 ELSE row["open"].ref
        BY <3>2 DEF Request
      <4>2. OnIt(q.op)
        BY <1>6, <3>2, <4>1 DEF References, Referenced, Places, Ops
      <4>3. \A v \in Workers : worker'[v].op = q.op => worker'[v].pc \notin Working \ {"doubting"}
        BY <1>1, <1>2, <3>2, <4>1 DEF Alone, At, Working
      <4> QED BY <4>1, <4>2, <4>3
    <3> QED BY <1>7, <3>1, <3>2
  <2>3. \A o \in Ops : InFlight(o)' => gen.number >= row[o].gen
    <3>1. ASSUME NEW o \in Ops, InFlight(o)'
          PROVE  gen.number >= row[o].gen
      <4>1. CASE InFlight(o)
        BY <4>1 DEF WritesFit
      <4>2. CASE ~InFlight(o)
        <5>1. o = p /\ (pc \in {"rechecking", "calling"} \/ At(w, "calling"))
          BY <1>1, <1>2, <1>7, <3>1, <4>2 DEF InFlight, Request
        <5> QED BY <5>1, <4>2 DEF Ready, InFlight, At
      <4> QED BY <4>1, <4>2
    <3> QED BY <3>1
  <2> QED BY <1>0, <2>1, <2>2, <2>3 DEF WritesFit, OnIt
<1>19. MockOrdered' /\ LinearSingle'
  BY DEF RemoteGoes
<1>20. FinalsOrdered'
  <2>1. FailedSent' => FailedSent
    <3>1. (\E v \in Workers : BusyWith(v, "failed")') => FailedSent
      BY <1>1, <1>2 DEF FailedSent, BusyWith
    <3>2. (\E q \in wire' : q.op = "failed") => FailedSent
      BY <1>1, <1>7 DEF FailedSent, BusyWith, Request
    <3> QED BY <3>1, <3>2 DEF FailedSent, RemoteGoes
  <2>2. kind = "linear" /\ InFlight("failed")' => gen.status = "active" /\ gen.number = row["failed"].gen
    <3>1. CASE InFlight("failed")
      BY <3>1 DEF FinalsOrdered
    <3>2. CASE ~InFlight("failed") /\ InFlight("failed")'
      <4>1. "failed" = p /\ (pc \in {"rechecking", "calling"} \/ At(w, "calling"))
        BY <1>1, <1>2, <1>7, <3>2 DEF InFlight, Request
      <4> QED BY <3>2, <4>1 DEF Ready, InFlight, At
    <3> QED BY <3>1, <3>2
  <2> QED BY <1>0, <1>4, <2>1, <2>2 DEF FinalsOrdered
<1> QED BY <1>8, <1>9, <1>10, <1>11, <1>12, <1>13, <1>14, <1>15, <1>16, <1>17, <1>18, <1>19, <1>20

\* A request of a row that was claimed, at the provider it was made for.
Landing(q) ==
  /\ q \in [op : Ops, gen : Versions, proj : Status, ref : 0..MaxTickets]
  /\ q.gen = row[q.op].gen /\ q.proj = row[q.op].proj
  /\ q.ref = IF q.op = "open" THEN 0 ELSE row["open"].ref
  /\ row[q.op].status # "none" /\ InFlight(q.op)
  /\ kind = "mock" => Storable(q)
  /\ kind = "linear" /\ q.op = "open" => remote = <<>>
  /\ wire' \subseteq wire
  /\ \A z \in wire' : z.op # q.op

\* An update of Linear rewrites nothing newer.
LEMMA UpdateIsNewer ==
  ASSUME TicketInv, NEW q, Landing(q), kind = "linear", q.op # "open", NEW i \in Places
  PROVE  remote[i].gen <= q.gen
<1> USE DEF TicketInv
<1> DEFINE o == remote[i].op
<1>1. /\ o \in Ops /\ q.op \in Finals /\ q.gen = row[q.op].gen /\ remote[i].gen = row[o].gen
      /\ row[o].status # "none" /\ row[q.op].status # "none" /\ gen.number >= row[o].gen
      /\ InFlight(q.op) /\ OnTicket(o)
  BY WritesAreWrites DEF Landing, WritesFit, Write, Ops, OnTicket
<1>2. \A a \in Ops : row[a].gen \in Nat
  BY DEF StateTyped, RowState, Versions
<1>3. CASE o = q.op
  BY <1>1, <1>2, <1>3
<1>4. CASE o = "open"
  BY <1>1, <1>2, <1>4 DEF FinalsOrdered
<1>5. CASE o \in Finals /\ o # q.op
  <2>1. o # "rejected" /\ q.op # "rejected"
    BY <1>1, <1>5 DEF OperationsFit, Concerns, Finals
  <2>2. CASE o = "failed" /\ q.op = "contained"
    BY <1>1, <1>2, <2>2 DEF FinalsOrdered, FailedSent, Ops, Finals
  <2>3. CASE o = "contained" /\ q.op = "failed"
    <3>1. gen.number = row["failed"].gen
      BY <1>1, <2>3 DEF FinalsOrdered
    <3>2. FailedSent
      BY <1>1, <2>3 DEF InFlight, FailedSent, BusyWith, Busy, Working
    <3> QED BY <1>1, <1>2, <2>3, <3>1, <3>2 DEF FinalsOrdered, Ops, Finals
  <2> QED BY <1>1, <1>5, <2>1, <2>2, <2>3 DEF Finals
<1> QED BY <1>1, <1>3, <1>4, <1>5 DEF Ops

\* How often the ticket was opened, and when what it shows is newer.
Opened == IF remote = <<>> THEN 0 ELSE IF kind = "linear" THEN Len(remote) ELSE 1
Newer == (Newest' > Newest /\ Opened' = 1) \/ (Newest' = Newest /\ Opened' = Opened)

LEMMA LandsGoes ==
  ASSUME TicketInv, NEW q, Landing(q), Lands(q), UNCHANGED <<row, gen, kind>>
  PROVE  /\ RemoteGoes
         /\ Newer
         /\ \/ kind = "linear" /\ q.op # "open" /\ row["open"].ref \in Places'
               /\ remote'[row["open"].ref].gen = q.gen
            \/ ~(kind = "linear" /\ q.op # "open") /\ Len(remote) + 1 \in Places'
               /\ remote'[Len(remote) + 1].gen = q.gen
<1> USE DEF TicketInv
<1>1. /\ remote \in Seq(Write) /\ Len(remote) \in Nat /\ Written(q) \in Write
      /\ Written(q).gen = q.gen /\ Written(q).op = q.op /\ Written(q).proj = q.proj
      /\ q.op \in Ops /\ q.gen \in Nat /\ q.gen >= 1 /\ gen.number >= q.gen
  BY LenProperties DEF StateTyped, Landing, Written, Write, Versions, VersionsGrow, WritesFit
<1>2. /\ \A i \in Places : remote[i] \in Write /\ remote[i].gen \in Nat /\ remote[i].gen = row[remote[i].op].gen
      /\ kind \in {"linear", "mock"}
  BY WritesAreWrites, DeliveryAssumption DEF Write, Versions, WritesFit, StateTyped
<1>3. q.op = "failed" => FailedSent
  BY DEF Landing, InFlight, FailedSent, BusyWith, Busy, Working
<1>4. CASE kind = "linear" /\ q.op # "open"
  <2> DEFINE ref == q.ref
  <2>1. remote' = [remote EXCEPT ![ref] = Written(q)]
    BY <1>4 DEF Lands
  <2>2. ref = row["open"].ref /\ ref \in Places
    BY <1>1, <1>4 DEF Landing, OpenFirst, Past, Ops, References, Referenced, Places
  <2>3. /\ remote' \in Seq(Write) /\ Len(remote') = Len(remote)
        /\ \A j \in Places : remote'[j] = IF j = ref THEN Written(q) ELSE remote[j]
    BY <1>1, <2>1, <2>2, ExceptSeq DEF Places
  <2>4. Places' = Places
    BY <2>3 DEF Places
  <2>5. Places = {1} /\ ref = 1 /\ Len(remote) = 1
    <3>1. Len(remote) <= 1
      BY <1>4 DEF LinearSingle
    <3>2. ref \in Int /\ 1 <= ref /\ ref <= Len(remote)
      BY <1>1, <2>2 DEF Places
    <3>3. \A a, b \in Int : 1 <= a /\ a <= b /\ b <= 1 => a = 1 /\ b = 1
      OBVIOUS
    <3>4. Len(remote) \in Int
      BY <1>1
    <3>5. Len(remote) = 1 /\ ref = 1
      BY <3>1, <3>2, <3>3, <3>4
    <3>6. 1..1 = {1}
      OBVIOUS
    <3> QED BY <3>5, <3>6 DEF Places
  <2>6. remote'[1] = Written(q) /\ remote[1].gen <= q.gen
    BY <1>4, <2>3, <2>5, UpdateIsNewer
  <2>7. MockOrdered' /\ LinearSingle'
    <3>1. \A z \in wire' : z.op # "open"
      <4>1. Len(<<>>) = 0
        OBVIOUS
      <4>2. remote # <<>>
        BY <2>5, <4>1
      <4> QED BY <1>4, <4>2 DEF Landing, LinearSingle
    <3> QED BY <1>4, <2>3, <2>5, <3>1 DEF MockOrdered, LinearSingle
  <2>8. RemoteGoes
    <3>1. OnTicket("failed")' => FailedSent
      BY <1>1, <1>3, <2>4, <2>5, <2>6 DEF OnTicket
    <3> QED BY <1>1, <1>2, <2>3, <2>4, <2>5, <2>6, <2>7, <3>1 DEF RemoteGoes, Landing, StateTyped
  <2>9. Newer
    <3>1. remote # <<>> /\ remote' # <<>>
      <4>1. Len(<<>>) = 0
        OBVIOUS
      <4>2. Len(remote) # Len(<<>>) /\ Len(remote') # Len(<<>>)
        BY <2>3, <2>5, <4>1
      <4> QED BY <4>2
    <3> QED BY <1>1, <1>2, <1>4, <2>3, <2>5, <2>6, <3>1 DEF Newer, Opened, Newest
  <2> QED BY <1>1, <1>4, <2>2, <2>4, <2>5, <2>6, <2>8, <2>9
<1>5. CASE ~(kind = "linear" /\ q.op # "open")
  <2> DEFINE n == Len(remote) + 1
  <2>1. Len(remote) < MaxTickets /\ remote' = Append(remote, Written(q))
    BY <1>5 DEF Lands
  <2>2. /\ remote' \in Seq(Write) /\ remote' # <<>> /\ Len(remote') = n
        /\ \A i \in Places : remote'[i] = remote[i]
        /\ remote'[n] = Written(q)
    BY <1>1, <2>1, AppendProperties DEF Places
  <2>3. Places' = Places \cup {n} /\ n \notin Places
    BY <1>1, <2>2 DEF Places
  <2>4. \A i \in Places : remote[i].gen < q.gen
    <3>1. CASE kind = "mock"
      BY <3>1 DEF Landing, Storable, Places
    <3>2. CASE kind = "linear"
      BY <1>5, <3>2 DEF Landing, Places
    <3> QED BY <1>2, <3>1, <3>2
  <2>5. MockOrdered' /\ LinearSingle'
    <3>1. kind = "mock" => /\ \A i, j \in Places' : i < j => remote'[i].gen < remote'[j].gen
                           /\ \A z \in wire', i \in Places' : remote'[i].op # z.op
      <4>1. \A i \in Places : i \in Nat /\ i < n
        BY <1>1 DEF Places
      <4> QED BY <1>1, <2>2, <2>3, <2>4, <4>1 DEF MockOrdered, Landing
    <3>2. kind = "linear" => Len(remote') <= 1 /\ \A z \in wire' : z.op # "open"
      BY <1>1, <1>5, <2>2 DEF Landing
    <3> QED BY <3>1, <3>2 DEF MockOrdered, LinearSingle
  <2>6. RemoteGoes
    <3>1. OnTicket("failed")' => FailedSent
      BY <1>1, <1>3, <2>2, <2>3 DEF OnTicket, FailedSent
    <3>2. \A i \in Places' : LET o == remote'[i].op IN
            /\ row[o].status # "none"
            /\ remote'[i].gen = row[o].gen /\ remote'[i].proj = row[o].proj
            /\ gen.number >= row[o].gen
      BY <1>1, <2>2, <2>3 DEF Landing, WritesFit
    <3>3. Len(remote') <= MaxTickets
      BY <1>1, <2>1, <2>2, DeliveryAssumption
    <3> QED BY <1>2, <2>2, <2>3, <2>5, <3>1, <3>2, <3>3 DEF RemoteGoes
  <2>7. Newer
    <3>1. Newest' = q.gen
      BY <1>1, <2>2 DEF Newest
    <3>2. Newest \in Nat /\ Newest < q.gen
      <4>1. CASE remote = <<>>
        BY <1>1, <4>1 DEF Newest
      <4>2. CASE remote # <<>>
        <5>1. Len(remote) \in Places
          BY <1>1, <4>2, EmptySeq DEF Places
        <5> QED BY <1>2, <2>4, <4>2, <5>1 DEF Newest
      <4> QED BY <4>1, <4>2
    <3>3. kind = "linear" => Len(remote') = 1
      BY <1>5, <2>2 DEF Landing
    <3> QED BY <1>1, <2>2, <3>1, <3>2, <3>3 DEF Newer, Opened
  <2> QED BY <1>1, <1>5, <2>2, <2>3, <2>6, <2>7
<1> QED BY <1>4, <1>5

LEMMA CallIsLanding ==
  ASSUME TicketInv, NEW w \in Workers, CallLands(w), ~misled'
  PROVE  Landing(Request(w))
<1> USE DEF TicketInv
<1> DEFINE q == Request(w)
           o == worker[w].op
<1>1. o \in Ops /\ worker[w].pc \in Busy /\ q.op = o /\ wire' = wire
  BY DEF StateTyped, WorkerState, CallLands, At, Busy, Working, Request
<1>2. q \in [op : Ops, gen : Versions, proj : Status, ref : 0..MaxTickets]
  BY <1>1, DeliveryAssumption DEF StateTyped, Request, RowState, Ops
<1>3. row[o].status # "none" /\ InFlight(o)
  BY <1>1 DEF BusyHolds, OnIt, InFlight, CallLands, At
<1>4. \A z \in wire : z.op # o
  BY <1>1 DEF WritesFit, CallLands, At, Working
<1>5. kind = "linear" /\ o = "open" => remote = <<>>
  <2>1. o = "open" /\ kind = "linear" => ~Exists(o)
    BY DEF CallLands, SearchMisses
  <2> QED BY <2>1, NothingThere DEF CallLands
<1>6. kind = "mock" => Storable(q)
  BY DEF CallLands
<1> QED BY <1>1, <1>2, <1>3, <1>4, <1>5, <1>6 DEF Landing, Request

LEMMA WireIsLanding ==
  ASSUME TicketInv, NEW q \in wire, wire' = wire \ {q}, kind = "mock" => Storable(q)
  PROVE  Landing(q)
<1> USE DEF TicketInv
<1>1. q \in [op : Ops, gen : Versions, proj : Status, ref : 0..MaxTickets]
  BY DEF StateTyped
<1>2. \A z \in wire : z.op = q.op => z = q
  <2> SUFFICES ASSUME NEW z \in wire, z.op = q.op PROVE z = q
    OBVIOUS
  <2>1. z \in [op : Ops, gen : Versions, proj : Status, ref : 0..MaxTickets]
    BY DEF StateTyped
  <2>2. z.gen = q.gen /\ z.proj = q.proj /\ z.ref = q.ref
    BY DEF WritesFit
  <2> QED BY <1>1, <2>1, <2>2
<1>3. row[q.op].status # "none" /\ InFlight(q.op)
  BY DEF WritesFit, OnIt, InFlight
<1>4. kind = "linear" /\ q.op = "open" => remote = <<>>
  BY DEF LinearSingle
<1> QED BY <1>1, <1>2, <1>3, <1>4 DEF Landing, WritesFit

LEMMA GotoIs ==
  ASSUME StateTyped, NEW w \in Workers, NEW pc, Goto(w, pc)
  PROVE  /\ worker' = [worker EXCEPT ![w].pc = pc, ![w].ref = worker[w].ref]
         /\ worker[w].ref \in 0..MaxTickets
<1>1. worker \in [Workers -> WorkerState] /\ worker[w] \in WorkerState
  BY DEF StateTyped
<1> QED BY <1>1 DEF Goto, WorkerState

LEMMA CallKeeps ==
  ASSUME TicketInv, NEW w \in Workers,
         CallFinds(w) \/ CallLands(w) \/ CallRefused(w) \/ CallFails(w) \/ CallTimesOut(w),
         ~misled'
  PROVE  TicketInv'
<1> USE DEF TicketInv
<1> DEFINE p == worker[w].op
<1>1. /\ At(w, "calling") /\ worker[w].pc \in Busy \ {"doubting"} /\ p \in Ops
      /\ UNCHANGED <<incident, flow, ledger, kind, row, gen>> /\ faults' \in 0..MaxFaults
  BY DeliveryAssumption
  DEF CallFinds, CallLands, CallRefused, CallFails, CallTimesOut, At, Busy, Working, StateTyped,
      WorkerState, ledger, provider, Fault
<1>2. UNCHANGED <<remote, wire>> => RemoteGoes
  BY <1>1, RemoteKept DEF MockOrdered, LinearSingle, Places
<1>3. /\ Len(remote) \in Nat /\ Len(remote) <= MaxTickets /\ MaxTickets \in Nat
      /\ row[p].gen \in Nat
  BY <1>1, LenProperties, DeliveryAssumption DEF StateTyped, RowState, Versions
<1>4. CASE CallFinds(w)
  <2>1. PICK ref \in 1..Len(remote) : Found(p, ref) /\ Called(w, ref)
    BY <1>4 DEF CallFinds
  <2>2. UNCHANGED <<remote, wire>>
    BY <1>4 DEF CallFinds, provider
  <2>3. ref \in 0..MaxTickets /\ ref \in Places' /\ remote'[ref].gen = row[p].gen
    BY <1>3, <2>1, <2>2 DEF Found, Sought, Places
  <2>4. Ready(w, "called", ref)
    BY <1>3, <2>3 DEF Ready
  <2>5. worker' = [worker EXCEPT ![w].pc = "called", ![w].ref = ref] /\ "called" \in Working
    BY <2>1 DEF Called, Working
  <2> QED BY <1>1, <1>2, <2>2, <2>3, <2>4, <2>5, ProceedKeeps
<1>5. CASE CallLands(w)
  <2> DEFINE ref == IF kind = "linear" /\ p # "open" THEN row["open"].ref ELSE Len(remote) + 1
  <2>1. Landing(Request(w)) /\ Lands(Request(w)) /\ wire' = wire
    BY <1>5, CallIsLanding DEF CallLands
  <2>2. Request(w).op = p /\ Request(w).gen = row[p].gen
    BY DEF Request
  <2>3. RemoteGoes /\ ref \in Places' /\ remote'[ref].gen = row[p].gen
    BY <1>1, <2>1, <2>2, LandsGoes
  <2>4. ref \in 0..MaxTickets
    <3>1. Len(remote') \in Nat /\ Len(remote') <= MaxTickets
      BY <2>3, LenProperties DEF RemoteGoes
    <3> QED BY <1>3, <2>3, <3>1 DEF Places
  <2>5. Ready(w, "called", ref)
    BY <1>3, <2>3 DEF Ready
  <2>6. worker' = [worker EXCEPT ![w].pc = "called", ![w].ref = ref] /\ "called" \in Working
    BY <1>5 DEF CallLands, Called, Working
  <2> QED BY <1>1, <2>1, <2>3, <2>4, <2>5, <2>6, ProceedKeeps
<1>6. ASSUME NEW pc \in {"superseding", "failing", "doubting"}, Goto(w, pc), UNCHANGED remote,
             wire' = wire \/ (pc = "doubting" /\ WireGoes(w)),
             pc = "superseding" => kind = "mock",
             RemoteGoes
      PROVE  TicketInv'
  <2>1. worker' = [worker EXCEPT ![w].pc = pc, ![w].ref = worker[w].ref]
        /\ worker[w].ref \in 0..MaxTickets
    BY <1>6, GotoIs
  <2>2. Ready(w, pc, worker[w].ref)
    BY <1>1, <1>6 DEF Ready, BusyHolds
  <2>3. pc \in Working
    BY <1>6 DEF Working
  <2> QED BY <1>1, <1>6, <2>1, <2>2, <2>3, ProceedKeeps
<1>7. CASE CallRefused(w)
  <2>1. UNCHANGED <<remote, wire>> /\ kind = "mock" /\ (Goto(w, "superseding") \/ Goto(w, "failing"))
    BY <1>7 DEF CallRefused, provider
  <2> QED BY <1>2, <1>6, <2>1
<1>8. CASE CallFails(w)
  <2>1. UNCHANGED <<remote, wire>> /\ Goto(w, "failing")
    BY <1>8 DEF CallFails
  <2> QED BY <1>2, <1>6, <2>1
<1>9. CASE CallTimesOut(w)
  <2>1. UNCHANGED remote /\ Goto(w, "doubting")
    BY <1>9 DEF CallTimesOut
  <2>2. CASE UNCHANGED wire
    BY <1>2, <1>6, <2>1, <2>2
  <2>3. CASE Sends(w) /\ ~SearchMisses(w)
    <3>1. wire' = wire \cup {Request(w)} /\ WireGoes(w)
          /\ (kind = "linear" /\ p = "open" => remote = <<>>)
          /\ (kind = "mock" => \A i \in Places : remote[i].op # p)
      BY <1>1, <2>3, FirstSent
    <3>4. MockOrdered' /\ LinearSingle'
      <4>1. Request(w).op = p
        BY DEF Request
      <4> QED BY <1>1, <2>1, <3>1, <4>1 DEF MockOrdered, LinearSingle, Places
    <3>5. RemoteGoes
      BY <1>1, <2>1, <3>4, RemoteKept
    <3> QED BY <1>6, <2>1, <3>1, <3>5
  <2> QED BY <1>9, <2>2, <2>3 DEF CallTimesOut
<1> QED BY <1>4, <1>5, <1>7, <1>8, <1>9

LEMMA CheckKeeps ==
  ASSUME TicketInv, NEW w \in Workers, CheckFence(w) \/ RecheckIncident(w) \/ CheckAgain(w)
  PROVE  TicketInv'
<1> USE DEF TicketInv
<1>1. /\ UNCHANGED <<incident, ledger, provider, row, gen, kind, remote, wire>>
      /\ faults' \in 0..MaxFaults
      /\ worker[w].pc \in {"fencing", "rechecking", "called"}
      /\ worker[w].pc \in Busy \ {"doubting"}
  BY DEF CheckFence, RecheckIncident, CheckAgain, At, Busy, Working, StateTyped, ledger, provider
<1>2. RemoteGoes
  BY <1>1, RemoteKept DEF MockOrdered, LinearSingle, Places
<1>3. CASE Return(w, FALSE)
  BY <1>1, <1>3, QuitKeeps
<1>4. ASSUME NEW pc \in Working, Goto(w, pc), UNCHANGED flow, Ready(w, pc, worker[w].ref)
      PROVE  TicketInv'
  <2>1. worker' = [worker EXCEPT ![w].pc = pc, ![w].ref = worker[w].ref]
        /\ worker[w].ref \in 0..MaxTickets
    BY <1>4, GotoIs
  <2> QED BY <1>1, <1>2, <1>4, <2>1, ProceedKeeps
<1>5. CASE CheckFence(w) /\ Holds(w) /\ UNCHANGED flow
           /\ Goto(w, IF worker[w].op = "failed" THEN "rechecking" ELSE "calling")
  <2> DEFINE pc == IF worker[w].op = "failed" THEN "rechecking" ELSE "calling"
  <2>1. Ready(w, pc, worker[w].ref)
    <3>1. worker[w].op \in Ops /\ row[worker[w].op].gen \in Nat
      BY DEF StateTyped, WorkerState, RowState, Versions
    <3> QED BY <1>5, <3>1 DEF Ready, Holds
  <2>2. pc \in Working
    BY DEF Working
  <2> QED BY <1>4, <1>5, <2>1, <2>2
<1>6. CASE RecheckIncident(w)
  <2> DEFINE pc == IF Won THEN "superseding" ELSE "calling"
  <2>1. worker[w].op = "failed" /\ InFlight("failed")
    BY <1>6 DEF RecheckIncident, Readers, InFlight, At
  <2>2. Ready(w, pc, worker[w].ref)
    BY <2>1 DEF Ready, WritesFit, FinalsOrdered, Ops, Finals
  <2>3. pc \in Working
    BY DEF Working
  <2> QED BY <1>4, <1>6, <2>2, <2>3 DEF RecheckIncident
<1>7. CASE CheckAgain(w) /\ Goto(w, "persisting") /\ UNCHANGED flow
  <2>1. Ready(w, "persisting", worker[w].ref)
    BY <1>1, <1>7 DEF Ready, CheckAgain, At, References, Places
  <2>2. "persisting" \in Working
    BY DEF Working
  <2> QED BY <1>4, <1>7, <2>1, <2>2
<1> QED BY <1>3, <1>5, <1>6, <1>7 DEF CheckFence, RecheckIncident, CheckAgain

-----------------------------------------------------------------------------
(* Steps of the incident, and of workers that are not under way to an outcome. *)

IncidentGoes ==
  /\ status' \in Status /\ version' \in Versions \ {0} /\ approved' \in BOOLEAN
  /\ version' >= version
  /\ Won => Won'
  /\ Won' /\ ~Won => version' > version

WorkersGo ==
  \A v \in Workers : worker'[v] = worker[v] \/ (worker[v].pc \notin Working /\ worker'[v].pc \notin Working)

ReadersGo ==
  /\ Readers'
  /\ \A v \in Workers : worker'[v] = worker[v] \/
       /\ At(v, "resolving")' =>
            worker'[v].ref \in Places /\ remote[worker'[v].ref].gen >= row[worker'[v].op].gen
       /\ At(v, "settling")' =>
            worker'[v].ref \in Places /\ remote[worker'[v].ref].gen >= row["open"].gen

LEMMA IncidentStays ==
  ASSUME TicketInv, UNCHANGED incident
  PROVE  IncidentGoes /\ UNCHANGED <<status, version, approved>> /\ (Won' <=> Won)
<1>1. version \in Nat
  BY DEF TicketInv, StateTyped, Versions
<1> QED BY <1>1 DEF TicketInv, StateTyped, IncidentGoes, incident, Won

LEMMA IncidentMoves ==
  ASSUME StateTyped, NEW s \in Status, MoveTo(s), Won => s \in {"contained", "closed"}
  PROVE  /\ IncidentGoes
         /\ status' = s /\ approved' = (approved \/ s = "approved")
<1>1. version \in Nat /\ MaxVersion \in Nat /\ version' = version + 1 /\ version < MaxVersion
  BY DeliveryAssumption DEF StateTyped, Versions, MoveTo
<1>2. approved \in BOOLEAN /\ status' = s /\ approved' = (approved \/ s = "approved")
  BY DEF StateTyped, MoveTo
<1>3. version' \in Versions \ {0} /\ version' >= version /\ version' > version
  BY <1>1 DEF Versions
<1> QED BY <1>2, <1>3 DEF IncidentGoes, Won

LEMMA ShiftKeeps ==
  ASSUME TicketInv, UNCHANGED <<row, gen, kind, remote, wire, faults>>,
         worker' \in [Workers -> WorkerState], WorkersGo, ReadersGo, IncidentGoes,
         flow' \in {"opening", "waiting", "executing", "closing", "over"} \cup Finals,
         AboutIncident', OperationsFit', OpenFirst', OpeningAlone'
  PROVE  TicketInv'
<1> USE DEF TicketInv
<1>1. StateTyped'
  BY DEF StateTyped, IncidentGoes
<1>2. version \in Nat /\ version' \in Nat /\ gen.number \in Nat /\ \A o \in Ops : row[o].gen \in Nat
  BY DEF StateTyped, RowState, Versions, IncidentGoes
<1>3. VersionsGrow'
  BY <1>2 DEF VersionsGrow, IncidentGoes
<1>4. /\ \A v \in Workers : worker'[v].pc \in Working => worker'[v] = worker[v]
      /\ \A v \in Workers, o \in Ops : BusyWith(v, o)' => BusyWith(v, o)
      /\ \A v \in Workers : worker[v].pc \in Working => worker'[v] = worker[v]
  BY DEF WorkersGo, BusyWith, Busy
<1>5. BusyHolds' /\ SupersedingHolds' /\ Alone'
  <2>1. BusyHolds'
    BY <1>4 DEF BusyHolds, OnIt, Busy
  <2>2. SupersedingHolds'
    BY <1>4 DEF SupersedingHolds, OnIt, At, Working, IncidentGoes
  <2>3. Alone'
    BY <1>4 DEF Alone, At, IncidentGoes
  <2> QED BY <2>1, <2>2, <2>3
<1>6. Readers'
  BY DEF ReadersGo
<1>7. References'
  <2>1. Referenced'
    BY DEF References, Referenced, Places
  <2>2. ASSUME NEW v \in Workers
        PROVE  /\ worker'[v].pc \in {"called", "persisting", "resolving"} =>
                    worker'[v].ref \in Places /\ remote[worker'[v].ref].gen >= row[worker'[v].op].gen
               /\ At(v, "settling")' =>
                    worker'[v].ref \in Places /\ remote[worker'[v].ref].gen >= row["open"].gen
    <3>1. CASE worker'[v] = worker[v]
      BY <3>1 DEF References, At
    <3>2. CASE worker'[v] # worker[v]
      BY <1>4, <3>2 DEF ReadersGo, At, Working
    <3> QED BY <3>1, <3>2
  <2> QED BY <2>1, <2>2 DEF References, Places
<1>8. \A o \in Ops : InFlight(o)' => InFlight(o)
  BY <1>4 DEF InFlight, Working
<1>9. WritesFit'
  <2>1. \A q \in wire : \A v \in Workers : worker'[v].op = q.op => worker'[v].pc \notin Working \ {"doubting"}
    BY <1>4 DEF WritesFit
  <2>2. \A o \in Ops : InFlight(o)' => gen.number >= row[o].gen
    BY <1>8 DEF WritesFit
  <2> QED BY <2>1, <2>2 DEF WritesFit, Places, OnIt
<1>10. MockOrdered' /\ LinearSingle'
  BY DEF MockOrdered, LinearSingle, Places
<1>11. FinalsOrdered'
  <2>1. FailedSent' => FailedSent
    BY <1>4 DEF FailedSent, OnTicket, Places, Ops, Finals
  <2>2. FailedSent /\ Won' => row["failed"].gen < version'
    <3>1. row["failed"].gen <= version /\ version' >= version
      BY DEF VersionsGrow, IncidentGoes, Ops, Finals
    <3>2. row["failed"].gen \in Nat
      BY <1>2 DEF Ops, Finals
    <3> QED BY <1>2, <3>1, <3>2 DEF FinalsOrdered, IncidentGoes
  <2> QED BY <1>8, <2>1, <2>2 DEF FinalsOrdered, Ops, Finals
<1> QED BY <1>1, <1>3, <1>5, <1>6, <1>7, <1>9, <1>10, <1>11

\* One worker moves, outside the way to an outcome.
LEMMA OneMoves ==
  ASSUME TicketInv, NEW w \in Workers, NEW x \in WorkerState,
         worker' = [worker EXCEPT ![w] = x],
         worker[w].pc \notin Working, x.pc \notin Working
  PROVE  /\ worker' \in [Workers -> WorkerState] /\ WorkersGo
         /\ \A v \in Workers : worker'[v] = IF v = w THEN x ELSE worker[v]
         /\ \A v \in Workers, o \in Ops :
              AskedFor(v, o)' => AskedFor(v, o)
                                 \/ (v = w /\ x.pc \notin {"idle", "recovering", "closing"} /\ x.op = o)
         /\ \A v \in Workers : Asked(v)' => Asked(v)
                                 \/ (v = w /\ x.pc \notin {"idle", "recovering", "closing"})
<1>1. worker \in [Workers -> WorkerState]
  BY DEF TicketInv, StateTyped
<1>2. \A v \in Workers : worker'[v] = IF v = w THEN x ELSE worker[v]
  BY <1>1
<1>3. worker' \in [Workers -> WorkerState]
  BY <1>1
<1> QED BY <1>2, <1>3 DEF WorkersGo, AskedFor, Asked

\* What a worker outside the way to an outcome relies on.
Reads(x) ==
  /\ x.pc \notin {"terminalizing", "rechecking"}
  /\ x.pc \in {"expired", "settling"} => kind = "linear" /\ (x.fence # "none" => ~gen.live)
  /\ x.pc = "settling" =>
       /\ x.fence # "none" => \A o \in Finals : row[o].status = "none"
       /\ x.ref \in Places /\ remote[x.ref].gen >= row["open"].gen
  /\ x.pc \in {"reconciling", "resolving"} /\ x.op = "open" =>
       row["open"].status \in {"uncertain", "succeeded"}
  /\ x.pc = "resolving" =>
       /\ x.op = "open"
       /\ x.ref \in Places /\ remote[x.ref].gen >= row["open"].gen

LEMMA OthersRead ==
  ASSUME TicketInv, NEW w \in Workers, NEW x \in WorkerState,
         worker' = [worker EXCEPT ![w] = x], UNCHANGED <<row, gen, kind>>, Reads(x)
  PROVE  ReadersGo
<1> USE DEF TicketInv
<1>1. \A v \in Workers : worker'[v] = IF v = w THEN x ELSE worker[v]
  BY DEF StateTyped
<1>2. Readers'
  <2> SUFFICES ASSUME NEW v \in Workers
               PROVE  /\ At(v, "terminalizing")' => Done(worker[v].op)'
                      /\ worker'[v].pc \in {"expired", "settling"} =>
                           kind' = "linear" /\ (Fenced(v)' => ~gen'.live)
                      /\ At(v, "settling")' /\ Fenced(v)' => \A o \in Finals : row'[o].status = "none"
                      /\ At(v, "resolving")' => worker'[v].op = "open"
                      /\ worker'[v].pc \in {"reconciling", "resolving"} /\ worker'[v].op = "open" =>
                           row'["open"].status \in {"uncertain", "succeeded"}
                      /\ At(v, "rechecking")' => worker'[v].op = "failed"
    BY DEF Readers
  <2>1. CASE v = w
    BY <1>1, <2>1 DEF At, Fenced, Reads
  <2>2. CASE v # w
    BY <1>1, <2>2 DEF Readers, At, Fenced, Done
  <2> QED BY <2>1, <2>2
<1> QED BY <1>1, <1>2 DEF ReadersGo, At, Reads

\* A reader that has found something looks no further.
LEMMA ReadKeeps ==
  ASSUME TicketInv, NEW w \in Workers, NEW x \in WorkerState,
         worker' = [worker EXCEPT ![w] = x], x.op = worker[w].op,
         UNCHANGED <<incident, flow, ledger, provider, faults>>,
         worker[w].pc \in {"claiming", "expired", "reconciling"},
         x.pc \in {"expired", "settling", "resolving"},
         At(w, "claiming") => gen.status # "none", ReadersGo
  PROVE  TicketInv'
<1> USE DEF TicketInv
<1>1. UNCHANGED <<row, gen, kind, remote, wire, faults, flow, status, version, approved>>
  BY DEF ledger, provider, incident
<1>2. /\ worker' \in [Workers -> WorkerState] /\ WorkersGo
      /\ \A v \in Workers, o \in Ops : AskedFor(v, o)' => AskedFor(v, o)
  <2>1. worker[w].pc \notin Working /\ x.pc \notin Working /\ Asked(w)
    BY DEF Working, Asked
  <2>2. /\ worker' \in [Workers -> WorkerState] /\ WorkersGo
        /\ \A v \in Workers : worker'[v] = IF v = w THEN x ELSE worker[v]
    BY <2>1, OneMoves, ZenonT(60)
  <2> QED BY <2>1, <2>2 DEF AskedFor, Asked
<1>3. IncidentGoes /\ (Won' <=> Won)
  BY IncidentStays
<1>4. AboutIncident'
  BY <1>1 DEF AboutIncident
<1>5. OperationsFit'
  <2>1. \A o \in Finals : Concerns(o)' => Concerns(o)
    BY <1>1, <1>2 DEF Concerns, Ops
  <2> QED BY <1>1, <1>3, <2>1 DEF OperationsFit, Finals
<1>6. OpenFirst'
  <2>1. Past' => Past
    BY <1>1, <1>2 DEF Past, Ops
  <2> QED BY <1>1, <1>2, <2>1 DEF OpenFirst, Ops
<1>7. flow # "opening"
  BY DEF OpeningAlone, Workers, Asked, At, Working
<1>8. OpeningAlone'
  BY <1>1, <1>7 DEF OpeningAlone
<1>9. flow' \in {"opening", "waiting", "executing", "closing", "over"} \cup Finals
  BY <1>1 DEF StateTyped
<1> QED BY <1>1, <1>2, <1>3, <1>4, <1>5, <1>6, <1>8, <1>9, ShiftKeeps

LEMMA ClaimBlockedKeeps ==
  ASSUME TicketInv, NEW w \in Workers, ClaimBlocked(w)
  PROVE  TicketInv'
<1> USE DEF TicketInv
<1>1. UNCHANGED <<incident, ledger, provider, faults>> /\ At(w, "claiming") /\ Blocked
      /\ faults' \in 0..MaxFaults
  BY DEF ClaimBlocked, StateTyped
<1>2. CASE Return(w, FALSE)
  BY <1>1, <1>2, QuitKeeps
<1>3. CASE /\ ~gen.live /\ UNCHANGED flow
           /\ worker' = [worker EXCEPT ![w].pc = "expired", ![w].fence = "shared"]
  <2> DEFINE x == [worker[w] EXCEPT !.pc = "expired", !.fence = "shared"]
  <2>1. worker \in [Workers -> WorkerState] /\ worker[w] \in WorkerState
    BY DEF StateTyped
  <2>2. x \in WorkerState /\ x.pc = "expired" /\ x.op = worker[w].op /\ worker' = [worker EXCEPT ![w] = x]
    BY <1>3, <2>1 DEF WorkerState, Pc
  <2>3. ReadersGo
    <3>1. Reads(x)
      BY <1>1, <1>3, <2>2 DEF Reads, Blocked
    <3> QED BY <1>1, <2>2, <3>1, OthersRead DEF ledger, provider
  <2>4. worker[w].pc = "claiming" /\ gen.status # "none"
    BY <1>1 DEF At, Blocked
  <2> QED BY <1>1, <1>3, <2>2, <2>3, <2>4, ReadKeeps
<1> QED BY <1>1, <1>2, <1>3 DEF ClaimBlocked

LEMMA ReconcileKeeps ==
  ASSUME TicketInv, NEW w \in Workers, ReconcileExpired(w) \/ Reconcile(w)
  PROVE  TicketInv'
<1> USE DEF TicketInv
<1>1. UNCHANGED <<incident, ledger, provider, faults, row, gen, kind>> /\ faults' \in 0..MaxFaults
      /\ worker[w].pc \in {"expired", "reconciling"}
      /\ worker \in [Workers -> WorkerState] /\ worker[w] \in WorkerState
  BY DEF ReconcileExpired, Reconcile, StateTyped, At, ledger, provider
<1>2. CASE Return(w, FALSE)
  BY <1>1, <1>2, QuitKeeps
<1>3. ASSUME NEW pc \in {"settling", "resolving"}, NEW ref \in 1..Len(remote), UNCHANGED flow,
             worker' = [worker EXCEPT ![w].pc = pc, ![w].ref = ref],
             Reads([worker[w] EXCEPT !.pc = pc, !.ref = ref])
      PROVE  TicketInv'
  <2> DEFINE x == [worker[w] EXCEPT !.pc = pc, !.ref = ref]
  <2>1. ref \in 0..MaxTickets
    <3>1. Len(remote) \in Nat /\ Len(remote) <= MaxTickets /\ MaxTickets \in Nat
      BY LenProperties, DeliveryAssumption DEF StateTyped
    <3> QED BY <3>1
  <2>2. x \in WorkerState /\ x.pc = pc /\ x.op = worker[w].op /\ worker' = [worker EXCEPT ![w] = x]
    BY <1>1, <1>3, <2>1 DEF WorkerState, Pc
  <2>3. ReadersGo
    BY <1>1, <1>3, <2>2, OthersRead
  <2>4. ~At(w, "claiming")
    BY <1>1 DEF At
  <2> QED BY <1>1, <1>3, <2>2, <2>3, <2>4, ReadKeeps
<1>4. ASSUME NEW ref \in 1..Len(remote), Found("open", ref)
      PROVE  ref \in Places /\ remote[ref].gen >= row["open"].gen
  <2>1. row["open"].gen \in Nat
    BY DEF StateTyped, RowState, Versions, Ops
  <2> QED BY <1>4, <2>1 DEF Found, Sought, Places
<1>5. CASE ReconcileExpired(w) /\ ~Return(w, FALSE)
  <2>1. PICK ref \in 1..Len(remote) :
          Found("open", ref) /\ worker' = [worker EXCEPT ![w].pc = "settling", ![w].ref = ref]
    BY <1>5 DEF ReconcileExpired
  <2>2. Fenced(w) /\ LastAttempt("open") /\ UNCHANGED flow /\ At(w, "expired")
    BY <1>5 DEF ReconcileExpired
  <2>3. \A o \in Finals : row[o].status = "none"
    BY <2>2 DEF LastAttempt, OpenFirst, Past
  <2>4. Reads([worker[w] EXCEPT !.pc = "settling", !.ref = ref])
    BY <1>1, <1>4, <2>1, <2>2, <2>3 DEF Reads, Readers, At, Fenced, WorkerState
  <2> QED BY <1>3, <2>1, <2>2, <2>4
<1>6. CASE Reconcile(w) /\ ~Return(w, FALSE)
  <2>1. worker[w].op = "open" /\ UNCHANGED flow /\ At(w, "reconciling")
    BY <1>6 DEF Reconcile
  <2>2. PICK ref \in 1..Len(remote) :
          Found("open", ref) /\ worker' = [worker EXCEPT ![w].pc = "resolving", ![w].ref = ref]
    BY <1>6, <2>1 DEF Reconcile
  <2>3. Reads([worker[w] EXCEPT !.pc = "resolving", !.ref = ref])
    BY <1>1, <1>4, <2>1, <2>2 DEF Reads, Readers, At, WorkerState
  <2> QED BY <1>3, <2>1, <2>2, <2>3
<1> QED BY <1>2, <1>5, <1>6

\* A worker is asked for a delivery that is due to it.
LEMMA AskKeeps ==
  ASSUME TicketInv, NEW w \in Workers, NEW o \in Ops, NEW p \in Status, Ask(w, o, p),
         UNCHANGED <<incident, flow, ledger, provider, faults>>, At(w, "idle"),
         \/ w = Flow /\ o = "open" /\ flow = "opening"
         \/ w = Flow /\ flow \in Finals /\ o = flow
         \/ w # Flow /\ Waits(o)
  PROVE  TicketInv'
<1> USE DEF TicketInv
<1> DEFINE x == [Idle EXCEPT !.pc = "claiming", !.op = o, !.proj = p]
<1>1. UNCHANGED <<row, gen, kind, remote, wire, faults, flow, status, version, approved>>
  BY DEF ledger, provider, incident
<1>2. x \in WorkerState /\ x.pc = "claiming" /\ x.op = o /\ worker' = [worker EXCEPT ![w] = x]
  BY IdleState DEF Ask, Idle, WorkerState, Pc
<1>3. worker[w].pc \notin Working /\ x.pc \notin Working
  BY <1>2 DEF At, Working
<1>4. /\ worker' \in [Workers -> WorkerState] /\ WorkersGo
      /\ \A v \in Workers : worker'[v] = IF v = w THEN x ELSE worker[v]
  BY <1>2, <1>3, OneMoves, ZenonT(60)
<1>5. \A v \in Workers, a \in Ops : AskedFor(v, a)' => AskedFor(v, a) \/ (v = w /\ a = o)
  BY <1>2, <1>4 DEF AskedFor, Asked
<1>6. ReadersGo
  <2>1. Reads(x)
    BY <1>2 DEF Reads
  <2> QED BY <1>1, <1>2, <2>1, OthersRead
<1>7. IncidentGoes /\ (Won' <=> Won)
  BY <1>1, IncidentStays
<1>8. AboutIncident'
  BY <1>1 DEF AboutIncident
<1>9. OperationsFit'
  <2>1. \A a \in Finals : Concerns(a)' => Concerns(a)
    BY <1>1, <1>5 DEF Concerns, Ops, Waits, Active, Finals
  <2> QED BY <1>1, <1>7, <2>1 DEF OperationsFit, Finals
<1>10. OpenFirst'
  <2>1. o \in Finals => Past
    BY DEF Past, Waits, Active, Finals
  <2>2. o = "open" => ~Past
    <3>1. w = Flow /\ o = "open" /\ flow = "opening" => row["open"].status # "succeeded"
      BY DEF OpeningAlone, OnIt, At, Working
    <3> QED BY <3>1 DEF OpenFirst, Waits, Active, Finals
  <2>3. o \in Finals => "open" # o
    BY DEF Finals
  <2>4. Past' => Past
    <3>1. \A a \in Finals : a \in Ops
      BY DEF Ops
    <3>2. \A v \in Workers, a \in Finals : AskedFor(v, a)' => Past
      BY <1>5, <2>1, <3>1 DEF Past
    <3> QED BY <1>1, <3>2 DEF Past, Finals
  <2>5. Past => \A v \in Workers : ~AskedFor(v, "open")'
    BY <1>5, <2>2 DEF OpenFirst, Ops
  <2> QED BY <1>1, <2>4, <2>5 DEF OpenFirst
<1>11. OpeningAlone'
  <2> SUFFICES ASSUME flow = "opening" PROVE OpeningAlone'
    BY <1>1 DEF OpeningAlone
  <2>1. w = Flow /\ o = "open"
    <3>1. ~Waits("open")
      BY DEF OpeningAlone, OnIt, Waits, Active
    <3>2. \A a \in Finals : row[a].status = "none"
      BY DEF OpeningAlone, OnIt, OpenFirst, Past
    <3> QED BY <3>1, <3>2 DEF Waits, Active, Ops, Finals
  <2>2. row["open"].status = "none" /\ gen.status = "none"
    BY <2>1 DEF OpeningAlone, At, Working
  <2>3. \A l \in Loops : worker'[l] = worker[l]
    BY <1>4, <2>1, DeliveryAssumption DEF Workers
  <2> QED BY <1>1, <1>2, <1>4, <2>1, <2>2, <2>3 DEF OpeningAlone, At, Asked
<1>12. flow' \in {"opening", "waiting", "executing", "closing", "over"} \cup Finals
  BY <1>1 DEF StateTyped
<1> QED BY <1>1, <1>4, <1>6, <1>7, <1>8, <1>9, <1>10, <1>11, <1>12, ShiftKeeps

LEMMA AsksKeep ==
  ASSUME TicketInv, CallStep \/ \E l \in Workers : DeliverOne(l)
  PROVE  TicketInv'
<1> USE DEF TicketInv
<1>1. CASE CallStep
  <2> DEFINE o == IF flow = "opening" THEN "open" ELSE flow
  <2>1. o \in Ops /\ Flow \in Workers /\ status \in Status
    BY <1>1 DEF CallStep, Ops, Workers, StateTyped
  <2>2. Ask(Flow, o, status) /\ At(Flow, "idle") /\ (flow = "opening" \/ (flow \in Finals /\ flow # "opening"))
    BY <1>1 DEF CallStep, Finals
  <2>3. UNCHANGED <<incident, flow, ledger, provider, faults>>
    BY <1>1 DEF CallStep
  <2> QED BY <2>1, <2>2, <2>3, AskKeeps
<1>2. ASSUME NEW l \in Workers, DeliverOne(l)
      PROVE  TicketInv'
  <2>1. PICK o \in Ops : Waits(o) /\ Ask(l, o, row[o].proj)
    BY <1>2 DEF DeliverOne, First
  <2>2. row[o].proj \in Status /\ l # Flow
    BY <1>2, DeliveryAssumption DEF StateTyped, RowState, DeliverOne
  <2> QED BY <1>2, <2>1, <2>2, AskKeeps DEF DeliverOne
<1> QED BY <1>1, <1>2

\* The incident and its run move on; no delivery does.
LEMMA RunKeeps ==
  ASSUME TicketInv, Decide \/ Resume \/ Contain \/ Finalize
  PROVE  TicketInv'
<1> USE DEF TicketInv
<1>1. UNCHANGED <<row, gen, kind, remote, wire, faults, worker>>
  BY DEF Decide, Resume, Contain, Finalize, ledger, provider
<1>2. worker' \in [Workers -> WorkerState] /\ WorkersGo /\ ReadersGo
  BY <1>1 DEF StateTyped, WorkersGo, ReadersGo, Readers, At, Fenced, Done
<1>3. \A v \in Workers, o \in Ops : AskedFor(v, o)' <=> AskedFor(v, o)
  BY <1>1 DEF AskedFor, Asked
<1>4. ASSUME IncidentGoes, AboutIncident', OperationsFit',
             flow' \in {"opening", "waiting", "executing", "closing", "over"} \cup Finals,
             Past' => Past, flow' = "opening" => flow = "opening"
      PROVE  TicketInv'
  <2>1. OpenFirst'
    BY <1>1, <1>3, <1>4 DEF OpenFirst, Ops
  <2>2. OpeningAlone'
    BY <1>1, <1>4 DEF OpeningAlone, Asked, At, OnIt
  <2> QED BY <1>1, <1>2, <1>4, <2>1, <2>2, ShiftKeeps
<1>5. \A o \in Finals : Concerns(o)' => Concerns(o) \/ flow' = o
  BY <1>1, <1>3 DEF Concerns, Ops
<1>6. UNCHANGED incident => IncidentGoes /\ UNCHANGED <<status, version, approved>> /\ (Won' <=> Won)
  BY IncidentStays
<1>7. flow \in {"opening", "waiting", "executing", "closing", "over"} \cup Finals /\ approved \in BOOLEAN
  BY DEF StateTyped
<1>8. CASE Decide
  <2>1. PICK s \in {"approved", "rejected", "failed"} : MoveTo(s)
    BY <1>8 DEF Decide
  <2>2. status = "awaiting_approval" /\ UNCHANGED flow /\ ~approved
    BY <1>8 DEF Decide, AboutIncident
  <2>3. IncidentGoes /\ status' = s /\ approved' = (approved \/ s = "approved")
    <3>1. s \in Status /\ ~Won
      BY <2>1, <2>2 DEF Status, Won
    <3> QED BY <2>1, <3>1, IncidentMoves
  <2>4. AboutIncident'
    BY <2>2, <2>3 DEF AboutIncident
  <2>5. \A o \in Finals : ~Concerns(o)
    BY <2>2 DEF OperationsFit, Finals
  <2>6. OperationsFit'
    BY <1>5, <2>2, <2>5 DEF OperationsFit, Finals, Concerns
  <2>7. Past' => Past
    BY <1>1, <1>3, <2>2, <2>3 DEF Past, Ops
  <2> QED BY <1>4, <1>7, <2>2, <2>3, <2>4, <2>6, <2>7
<1>9. CASE Resume
  <2>1. flow = "waiting" /\ Past
    BY <1>9 DEF Resume, Past
  <2>2. CASE status = "approved" /\ MoveTo("containing") /\ flow' = "executing"
    <3>1. IncidentGoes /\ status' = "containing" /\ approved' = approved /\ approved
      BY <1>7, <2>2, IncidentMoves DEF Status, Won, AboutIncident
    <3>2. AboutIncident'
      BY <2>2, <3>1 DEF AboutIncident
    <3>3. ~Concerns("rejected") /\ ~Concerns("contained")
      BY <2>2 DEF OperationsFit, Won
    <3>4. OperationsFit'
      BY <1>5, <2>2, <3>1, <3>3 DEF OperationsFit, Finals
    <3> QED BY <1>4, <2>1, <2>2, <3>1, <3>2, <3>4
  <2>3. CASE status = "rejected" /\ flow' = "rejected" /\ UNCHANGED incident
    <3>1. AboutIncident'
      BY <1>6, <2>3 DEF AboutIncident
    <3>2. OperationsFit'
      BY <1>5, <1>6, <2>3 DEF OperationsFit, Finals, AboutIncident
    <3> QED BY <1>4, <1>6, <2>1, <2>3, <3>1, <3>2 DEF Finals
  <2>4. CASE status = "failed" /\ flow' = "over" /\ UNCHANGED incident
    <3>1. AboutIncident'
      BY <1>6, <2>4 DEF AboutIncident
    <3>2. OperationsFit'
      BY <1>5, <1>6, <2>4 DEF OperationsFit, Finals
    <3> QED BY <1>4, <1>6, <2>1, <2>4, <3>1, <3>2
  <2> QED BY <1>9, <2>2, <2>3, <2>4 DEF Resume
<1>10. CASE Contain
  <2>1. flow = "executing" /\ Past /\ approved /\ ~Concerns("rejected")
    BY <1>10 DEF Contain, Past, AboutIncident, OperationsFit
  <2>2. PICK s \in {"contained", "failed"} :
          \/ status = "containing" /\ MoveTo(s) /\ flow' = s
          \/ status = s /\ flow' = s /\ UNCHANGED incident
    BY <1>10 DEF Contain
  <2>3. IncidentGoes /\ status' = s /\ approved'
    <3>1. s \in Status
      BY DEF Status
    <3>2. CASE status = "containing" /\ MoveTo(s)
      BY <2>1, <3>1, <3>2, IncidentMoves DEF Won
    <3>3. CASE status = s /\ UNCHANGED incident
      BY <1>6, <2>1, <3>3
    <3> QED BY <2>2, <3>2, <3>3
  <2>4. AboutIncident'
    BY <2>2, <2>3 DEF AboutIncident
  <2>5. OperationsFit'
    BY <1>5, <2>1, <2>2, <2>3 DEF OperationsFit, Finals, IncidentGoes, Won
  <2> QED BY <1>4, <2>1, <2>2, <2>3, <2>4, <2>5 DEF Finals
<1>11. CASE Finalize
  <2>1. flow = "closing" /\ flow' = "over" /\ Past
    BY <1>11 DEF Finalize, Past
  <2>2. CASE status \in {"contained", "rejected"} /\ MoveTo("closed")
    <3>1. IncidentGoes /\ status' = "closed" /\ approved' = approved
      BY <1>7, <2>2, IncidentMoves DEF Status, Won
    <3>2. AboutIncident'
      BY <2>1, <3>1 DEF AboutIncident
    <3>3. OperationsFit'
      BY <1>5, <2>1, <3>1 DEF OperationsFit, Finals, Won
    <3> QED BY <1>4, <2>1, <3>1, <3>2, <3>3
  <2>3. CASE UNCHANGED incident
    <3>1. AboutIncident'
      BY <1>6, <2>1, <2>3 DEF AboutIncident
    <3>2. OperationsFit'
      BY <1>5, <1>6, <2>1, <2>3 DEF OperationsFit, Finals
    <3> QED BY <1>4, <1>6, <2>1, <2>3, <3>1, <3>2
  <2> QED BY <1>11, <2>2, <2>3 DEF Finalize
<1> QED BY <1>8, <1>9, <1>10, <1>11

\* A recovering loop moves the incident and asks for the delivery of its end.
LEMMA RecoveryKeeps ==
  ASSUME TicketInv, NEW w \in Workers,
         RetryContainment(w) \/ RecoverContainment(w) \/ CloseRecovered(w)
  PROVE  TicketInv'
<1> USE DEF TicketInv
<1>1. UNCHANGED <<row, gen, kind, remote, wire, faults, flow>> /\ worker[w].pc \notin Working /\ ~Asked(w)
      /\ (At(w, "idle") => w # Flow)
  BY DeliveryAssumption
  DEF RetryContainment, RecoverContainment, CloseRecovered, ledger, provider, At, Working, Asked
<1>2. approved \in BOOLEAN /\ worker \in [Workers -> WorkerState] /\ worker[w] \in WorkerState
  BY DEF StateTyped
<1>3. UNCHANGED incident => IncidentGoes /\ UNCHANGED <<status, version, approved>> /\ (Won' <=> Won)
  BY IncidentStays
<1>4. ASSUME NEW x \in WorkerState, worker' = [worker EXCEPT ![w] = x], IncidentGoes, AboutIncident',
             \/ x.pc \in {"idle", "recovering", "closing"}
             \/ x.pc = "claiming" /\ x.op = "contained" /\ status = "contained" /\ status' = "closed",
             status # status' => /\ status \in {"containing", "contained"} \/ (approved /\ status = "failed")
                                 /\ status' \notin {"awaiting_approval", "rejected"},
             approved' = approved
      PROVE  TicketInv'
  <2>1. x.pc \notin Working
    BY <1>4 DEF Working
  <2>2. /\ worker' \in [Workers -> WorkerState] /\ WorkersGo
        /\ \A v \in Workers : worker'[v] = IF v = w THEN x ELSE worker[v]
    BY <1>1, <1>4, <2>1, OneMoves
  <2>3. \A v \in Workers, o \in Ops :
          AskedFor(v, o)' => AskedFor(v, o) \/ (o = "contained" /\ status = "contained" /\ status' = "closed")
    BY <1>4, <2>2 DEF AskedFor, Asked
  <2>4. ReadersGo
    <3>1. Reads(x)
      BY <1>4 DEF Reads
    <3> QED BY <1>1, <1>4, <3>1, OthersRead
  <2>5. \A o \in Finals : Concerns(o)' => Concerns(o) \/ (o = "contained" /\ approved /\ status = "contained" /\ status' = "closed")
    BY <1>1, <2>3 DEF Concerns, Ops, AboutIncident
  <2>6. OperationsFit'
    <3>1. Concerns("rejected")' => ~approved' /\ status' \in {"rejected", "closed"}
      BY <1>4, <2>5 DEF OperationsFit, Finals, AboutIncident
    <3>2. \A o \in {"failed", "contained"} : Concerns(o)' => approved'
      BY <1>4, <2>5 DEF OperationsFit, Finals
    <3>3. Concerns("contained")' => Won'
      BY <1>4, <2>5 DEF OperationsFit, Finals, Won, IncidentGoes
    <3> QED BY <3>1, <3>2, <3>3 DEF OperationsFit
  <2>7. Past' => Past
    BY <1>1, <1>4, <2>3 DEF Past, Ops
  <2>8. OpenFirst'
    BY <1>1, <2>3, <2>7 DEF OpenFirst, Ops
  <2>9. OpeningAlone'
    <3> SUFFICES ASSUME flow = "opening" PROVE OpeningAlone'
      BY <1>1 DEF OpeningAlone
    <3>1. status # "contained"
      <4>1. ~Past
        BY DEF OpeningAlone, OpenFirst, OnIt
      <4> QED BY <4>1 DEF Past
    <3>2. ~Asked(w)'
      BY <1>4, <2>2, <3>1 DEF Asked
    <3>3. w # Flow /\ worker'[Flow] = worker[Flow]
      BY <1>1, <2>2 DEF OpeningAlone, At, Working, Asked, Workers
    <3>4. \A l \in Loops : ~Asked(l)'
      BY <2>2, <3>2 DEF OpeningAlone, Asked, Workers
    <3> QED BY <1>1, <3>3, <3>4 DEF OpeningAlone, At, OnIt
  <2>10. flow' \in {"opening", "waiting", "executing", "closing", "over"} \cup Finals
    BY <1>1 DEF StateTyped
  <2> QED BY <1>1, <1>4, <2>2, <2>4, <2>6, <2>8, <2>9, <2>10, ShiftKeeps
<1>5. \A pc \in {"idle", "recovering", "closing"} :
        LET x == [worker[w] EXCEPT !.pc = pc] IN
        Goto(w, pc) => x \in WorkerState /\ x.pc = pc /\ worker' = [worker EXCEPT ![w] = x]
  BY <1>2 DEF Goto, WorkerState, Pc
<1>6. ASSUME NEW pc \in {"idle", "recovering", "closing"}, Goto(w, pc), UNCHANGED incident
      PROVE  TicketInv'
  <2>1. AboutIncident'
    BY <1>1, <1>3, <1>6 DEF AboutIncident
  <2> QED BY <1>3, <1>4, <1>5, <1>6, <2>1
<1>7. ASSUME NEW pc \in {"idle", "recovering", "closing"}, Goto(w, pc), approved,
             NEW s \in {"containing", "contained", "failed"}, MoveTo(s), status \in {"containing", "failed"}
      PROVE  TicketInv'
  <2>1. IncidentGoes /\ status' = s /\ approved' = approved
    <3>1. s \in Status /\ ~Won
      BY <1>7 DEF Status, Won
    <3> QED BY <1>2, <1>7, <3>1, IncidentMoves
  <2>2. AboutIncident'
    BY <1>7, <2>1 DEF AboutIncident
  <2> QED BY <1>4, <1>5, <1>7, <2>1, <2>2
<1>8. CASE RetryContainment(w)
  BY <1>6, <1>7, <1>8 DEF RetryContainment
<1>9. CASE RecoverContainment(w)
  <2>1. status = "containing" => approved
    BY DEF AboutIncident
  <2> QED BY <1>6, <1>7, <1>9, <2>1 DEF RecoverContainment
<1>10. CASE CloseRecovered(w)
  <2>1. CASE Goto(w, "idle") /\ UNCHANGED incident
    BY <1>6, <2>1
  <2>2. CASE status = "contained" /\ MoveTo("closed") /\ Ask(w, "contained", "closed")
    <3> DEFINE x == [Idle EXCEPT !.pc = "claiming", !.op = "contained", !.proj = "closed"]
    <3>1. x \in WorkerState /\ x.pc = "claiming" /\ x.op = "contained" /\ worker' = [worker EXCEPT ![w] = x]
      BY <2>2, IdleState DEF Ask, Idle, WorkerState, Pc, Ops, Finals, Status
    <3>2. IncidentGoes /\ status' = "closed" /\ approved' = approved
      BY <1>2, <2>2, IncidentMoves DEF Status, Won
    <3>3. AboutIncident'
      BY <1>1, <2>2, <3>2 DEF AboutIncident
    <3> QED BY <1>4, <2>2, <3>1, <3>2, <3>3
  <2> QED BY <1>10, <2>1, <2>2 DEF CloseRecovered
<1> QED BY <1>8, <1>9, <1>10

-----------------------------------------------------------------------------
(* Time and network.                                                          *)

LEMMA LapseKeeps ==
  ASSUME TicketInv, Lapses, faults' \in 0..MaxFaults
  PROVE  TicketInv'
<1> USE DEF TicketInv
<1>1. UNCHANGED <<status, version, approved, flow, row, kind, remote, wire, worker>>
  BY DEF Lapses, incident, provider
<1>2. /\ gen'.number = gen.number /\ gen'.status = gen.status /\ gen'.live = FALSE
      /\ gen' \in [number : Versions, status : {"none", "active", "terminal", "reconciled"},
                   live : BOOLEAN]
  BY DEF Lapses, StateTyped
<1>3. /\ \A v \in Workers : Asked(v)' <=> Asked(v)
      /\ \A v \in Workers, o \in Ops : AskedFor(v, o)' <=> AskedFor(v, o)
      /\ \A o \in Ops : (Concerns(o)' <=> Concerns(o)) /\ (InFlight(o)' <=> InFlight(o))
  BY <1>1 DEF AskedFor, Asked, Concerns, InFlight
<1>4. (FailedSent' <=> FailedSent) /\ (Past' <=> Past)
  BY <1>1 DEF FailedSent, Past, AskedFor, Asked, BusyWith, OnTicket, Places
<1>5. StateTyped' /\ VersionsGrow' /\ AboutIncident'
  BY <1>1, <1>2 DEF StateTyped, VersionsGrow, AboutIncident
<1>6. OperationsFit' /\ OpenFirst' /\ OpeningAlone'
  BY <1>1, <1>2, <1>3, <1>4 DEF OperationsFit, OpenFirst, OpeningAlone, Won, Ops, Finals, At, OnIt, Workers
<1>7. BusyHolds' /\ SupersedingHolds' /\ Alone'
  BY <1>1 DEF BusyHolds, SupersedingHolds, Alone, OnIt, At, Won
<1>8. Readers' /\ References'
  BY <1>1, <1>2 DEF Readers, References, Referenced, At, Fenced, Done, Places
<1>9. WritesFit'
  BY <1>1, <1>2, <1>3 DEF WritesFit, Places, OnIt
<1>10. MockOrdered' /\ LinearSingle' /\ FinalsOrdered'
  BY <1>1, <1>2, <1>3, <1>4 DEF MockOrdered, LinearSingle, FinalsOrdered, Places, Won, Ops, Finals
<1> QED BY <1>5, <1>6, <1>7, <1>8, <1>9, <1>10

\* The lease of a delivery outlasts its worker and its request.
LEMMA DueKeeps ==
  ASSUME TicketInv, NEW p \in Ops, RowDue(p)
  PROVE  TicketInv'
<1> USE DEF TicketInv
<1>1. UNCHANGED <<status, version, approved, flow, gen, kind, remote, wire, worker, faults>>
  BY DEF RowDue, FallsDue, incident, provider
<1>2. /\ row' \in [Ops -> RowState]
      /\ \A o \in Ops : /\ row'[o].status = row[o].status /\ row'[o].gen = row[o].gen
                        /\ row'[o].proj = row[o].proj /\ row'[o].ref = row[o].ref
                        /\ o # p => row'[o] = row[o]
  <2>1. row \in [Ops -> RowState] /\ row[p] \in RowState
    BY DEF StateTyped
  <2>2. [row[p] EXCEPT !.due = TRUE] \in RowState
    BY <2>1 DEF RowState
  <2> QED BY <2>1, <2>2 DEF RowDue, FallsDue
<1>3. row[p].status \in {"retry", "delivering"} /\ ~row[p].due
  BY DEF RowDue, FallsDue
<1>4. \A v \in Workers : worker[v].op = p => worker[v].pc \notin Busy /\
        (worker[v].pc = "superseding" => worker[v].op = "failed" /\ Won)
  <2> SUFFICES ASSUME NEW v \in Workers, worker[v].op = p, worker[v].pc \in Working
               PROVE  worker[v].pc \notin Busy /\ (worker[v].pc = "superseding" => p = "failed" /\ Won)
    BY DEF Busy, Working
  <2>1. row[p].status = "delivering" => ~worker[v].current
    BY DEF RowDue, DeliveryUsed
  <2> QED BY <1>3, <2>1 DEF BusyHolds, SupersedingHolds, OnIt, At
<1>5. \A q \in wire : q.op # p
  BY <1>3 DEF RowDue, DeliveryUsed, Pending, WritesFit, OnIt
<1>6. \A v \in Workers : worker[v].op \in Ops
  BY DEF StateTyped, WorkerState
<1>7. \A o \in Ops : o # p => (OnIt(o)' <=> OnIt(o))
  BY <1>2 DEF OnIt
<1>8. /\ \A v \in Workers : Asked(v)' <=> Asked(v)
      /\ \A v \in Workers, o \in Ops : AskedFor(v, o)' <=> AskedFor(v, o)
      /\ \A o \in Ops : (Concerns(o)' <=> Concerns(o)) /\ (InFlight(o)' <=> InFlight(o))
  BY <1>1, <1>2 DEF AskedFor, Asked, Concerns, InFlight
<1>9. FailedSent' <=> FailedSent
  BY <1>1 DEF FailedSent, BusyWith, OnTicket, Places
<1>10. Past' <=> Past
  BY <1>1, <1>2 DEF Past, AskedFor, Asked, Ops
<1>11. StateTyped' /\ VersionsGrow' /\ AboutIncident'
  BY <1>1, <1>2 DEF StateTyped, VersionsGrow, AboutIncident
<1>12. OperationsFit' /\ OpenFirst'
  BY <1>1, <1>2, <1>8, <1>10 DEF OperationsFit, OpenFirst, Won, Ops, Finals
<1>13. OpeningAlone'
  <2> SUFFICES ASSUME flow = "opening" PROVE OpeningAlone'
    BY <1>1 DEF OpeningAlone
  <2>1. OnIt("open") /\ worker[Flow].op = "open" /\ worker[Flow].pc \in Working => p # "open"
    BY <1>4 DEF Busy, Workers
  <2> QED BY <1>1, <1>2, <1>7, <1>8, <2>1 DEF OpeningAlone, At, Ops, Workers
<1>14. BusyHolds' /\ SupersedingHolds' /\ Alone'
  <2>1. BusyHolds'
    BY <1>1, <1>2, <1>4, <1>6, <1>7 DEF BusyHolds, Ops
  <2>2. SupersedingHolds'
    BY <1>1, <1>4, <1>6, <1>7 DEF SupersedingHolds, At, Won
  <2>3. Alone'
    BY <1>1 DEF Alone, At, Won
  <2> QED BY <2>1, <2>2, <2>3
<1>15. Readers'
  <2>1. \A o \in Ops : Done(o)' <=> Done(o)
    BY <1>2 DEF Done
  <2> QED BY <1>1, <1>2, <1>6, <2>1 DEF Readers, At, Fenced, Ops
<1>16. References'
  BY <1>1, <1>2, <1>6 DEF References, Referenced, At, Places, Ops
<1>17. WritesFit'
  <2>1. \A i \in Places : remote[i].op \in Ops
    BY WritesAreWrites DEF Write
  <2>2. \A q \in wire : q.op \in Ops
    BY DEF StateTyped
  <2>3. \A i \in Places : LET o == remote[i].op IN
          /\ row'[o].status # "none"
          /\ remote[i].gen = row'[o].gen /\ remote[i].proj = row'[o].proj
          /\ gen.number >= row'[o].gen
    BY <1>2, <2>1 DEF WritesFit
  <2>4. \A q \in wire :
          /\ q.gen = row'[q.op].gen /\ q.proj = row'[q.op].proj
          /\ q.ref = IF q.op = "open" THEN 0 ELSE row'["open"].ref
          /\ OnIt(q.op)' \/ row'[q.op].status = "uncertain"
          /\ \A v \in Workers : worker[v].op = q.op => worker[v].pc \notin Working \ {"doubting"}
    BY <1>2, <1>5, <1>7, <2>2 DEF WritesFit, Ops
  <2>5. \A o \in Ops : InFlight(o)' => gen.number >= row'[o].gen
    BY <1>2, <1>8 DEF WritesFit
  <2> QED BY <1>1, <2>3, <2>4, <2>5 DEF WritesFit, Places
<1>18. MockOrdered' /\ LinearSingle' /\ FinalsOrdered'
  BY <1>1, <1>2, <1>8, <1>9 DEF MockOrdered, LinearSingle, FinalsOrdered, Places, Won, Ops, Finals
<1> QED BY <1>11, <1>12, <1>13, <1>14, <1>15, <1>16, <1>17, <1>18

LEMMA WireKeeps ==
  ASSUME TicketInv, WireDelivers
  PROVE  TicketInv'
<1> USE DEF TicketInv
<1>1. PICK q \in wire :
        /\ wire' = wire \ {q}
        /\ \/ (kind = "mock" => Storable(q)) /\ Lands(q)
           \/ UNCHANGED remote
        /\ UNCHANGED <<incident, flow, ledger, kind, worker, faults>>
  BY DEF WireDelivers
<1>2. UNCHANGED <<status, version, approved, flow, row, gen, kind, worker, faults>>
  BY <1>1 DEF incident, ledger
<1>3. RemoteGoes
  <2>1. CASE UNCHANGED remote
    <3>1. MockOrdered' /\ LinearSingle'
      BY <1>1, <1>2, <2>1 DEF MockOrdered, LinearSingle, Places
    <3> QED BY <1>2, <2>1, <3>1, RemoteKept
  <2>2. CASE (kind = "mock" => Storable(q)) /\ Lands(q)
    BY <1>1, <1>2, <2>2, WireIsLanding, LandsGoes
  <2> QED BY <1>1, <2>1, <2>2
<1>4. /\ \A v \in Workers : Asked(v)' <=> Asked(v)
      /\ \A v \in Workers, o \in Ops : AskedFor(v, o)' <=> AskedFor(v, o)
      /\ \A o \in Ops : (Concerns(o)' <=> Concerns(o)) /\ (InFlight(o)' => InFlight(o))
  BY <1>1, <1>2 DEF AskedFor, Asked, Concerns, InFlight
<1>5. Past' <=> Past
  BY <1>2 DEF Past, AskedFor, Asked
<1>6. FailedSent' => FailedSent
  BY <1>1, <1>2, <1>3 DEF FailedSent, BusyWith, RemoteGoes
<1>7. StateTyped' /\ VersionsGrow' /\ AboutIncident'
  BY <1>1, <1>2, <1>3 DEF StateTyped, VersionsGrow, AboutIncident, RemoteGoes
<1>8. OperationsFit' /\ OpenFirst' /\ OpeningAlone'
  BY <1>2, <1>4, <1>5 DEF OperationsFit, OpenFirst, OpeningAlone, Won, Ops, Finals, At, OnIt, Workers
<1>9. BusyHolds' /\ SupersedingHolds' /\ Alone' /\ Readers'
  BY <1>2 DEF BusyHolds, SupersedingHolds, Alone, OnIt, At, Won, Readers, Fenced, Done
<1>10. References'
  <2>1. \A i \in Places, n \in Nat : remote[i].gen >= n => i \in Places' /\ remote'[i].gen >= n
    <3>1. \A i \in Places : remote[i].gen \in Nat /\ remote'[i].gen \in Nat /\ i \in Places'
      <4>1. \A i \in Places' : remote'[i] \in Write
        BY <1>7, ElementOfSeq DEF StateTyped, Places
      <4> QED BY <1>3, <4>1, WritesAreWrites DEF RemoteGoes, Write, Versions
    <3> QED BY <1>3, <3>1 DEF RemoteGoes
  <2>2. \A o \in Ops : row[o].gen \in Nat
    BY DEF StateTyped, RowState, Versions
  <2>3. Referenced'
    BY <1>2, <2>1, <2>2 DEF References, Referenced, Places
  <2>4. \A v \in Workers : worker[v].op \in Ops
    BY DEF StateTyped, WorkerState
  <2>5. "open" \in Ops
    BY DEF Ops
  <2> QED BY <1>2, <2>1, <2>2, <2>3, <2>4, <2>5 DEF References, At
<1>11. WritesFit'
  BY <1>1, <1>2, <1>3, <1>4 DEF WritesFit, RemoteGoes, OnIt
<1>12. MockOrdered' /\ LinearSingle' /\ FinalsOrdered'
  BY <1>2, <1>3, <1>4, <1>6 DEF RemoteGoes, FinalsOrdered, Won, Ops, Finals
<1> QED BY <1>7, <1>8, <1>9, <1>10, <1>11, <1>12

-----------------------------------------------------------------------------
(* The claim.                                                                *)

\* What a claim makes of the rows: it inserts its own, takes it, or leaves it.
RowClaimed(w, pc) ==
  LET o == worker[w].op IN
  /\ row' \in [Ops -> RowState]
  /\ \A a \in Ops \ {o} : row'[a] = row[a]
  /\ row'[o].status # "none"
  /\ row[o].status # "none" =>
       row'[o].gen = row[o].gen /\ row'[o].proj = row[o].proj /\ row'[o].ref = row[o].ref
  /\ row[o].status = "none" =>
       /\ row'[o].gen = version /\ row'[o].status \in {"pending", "delivering"}
       /\ pc \in {"fencing", "superseding"}
  /\ row[o].status # "none" /\ pc # "fencing" => row'[o] = row[o]
  /\ pc = "fencing" => row'[o].status = "delivering" /\ ~row'[o].due

LEMMA LeadsSomewhere ==
  ASSUME NEW w, NEW r \in RowState, r.status # "none", NEW pc, pc = Leads(w, r)
  PROVE  \/ pc = "terminalizing" /\ r.status \in {"succeeded", "exhausted"}
         \/ pc = "reconciling" /\ r.status = "uncertain"
         \/ pc = "idle" /\ r.status = "delivering" /\ ~r.due
         \/ /\ pc = "superseding" /\ worker[w].op = "failed" /\ Won
            /\ r.status \in {"pending", "retry", "delivering"}
            /\ ~(r.status = "delivering" /\ ~r.due)
         \/ /\ pc = "fencing" /\ ~(worker[w].op = "failed" /\ Won)
            /\ r.status \in {"pending", "retry", "delivering"}
            /\ ~(r.status = "delivering" /\ ~r.due)
<1>1. /\ r.status \in {"pending", "retry", "delivering", "uncertain", "succeeded", "exhausted"}
      /\ r.due \in BOOLEAN
  BY DEF RowState
<1>2. CASE r.status \in {"succeeded", "exhausted"}
  BY <1>2 DEF Leads
<1>3. CASE r.status = "uncertain"
  BY <1>3 DEF Leads
<1>4. CASE r.status = "delivering" /\ ~r.due
  BY <1>1, <1>4 DEF Leads
<1>5. CASE r.status \in {"pending", "retry", "delivering"} /\ ~(r.status = "delivering" /\ ~r.due)
  <2>1. CASE worker[w].op = "failed" /\ Won
    BY <1>5, <2>1 DEF Leads
  <2>2. CASE ~(worker[w].op = "failed" /\ Won)
    BY <1>5, <2>2 DEF Leads
  <2> QED BY <1>5, <2>1, <2>2
<1> QED BY <1>1, <1>2, <1>3, <1>4, <1>5

LEMMA ClaimRow ==
  ASSUME StateTyped, NEW w \in Workers, Claim(w)
  PROVE  LET o == worker[w].op
             pc == Leads(w, Inserted(w)) IN
         /\ pc \in {"terminalizing", "reconciling", "idle", "superseding", "fencing"}
         /\ pc = "terminalizing" => Done(o)
         /\ pc = "reconciling" => row[o].status = "uncertain"
         /\ pc = "idle" => OnIt(o)
         /\ pc \in {"fencing", "superseding"} =>
              ~OnIt(o) /\ row[o].status \in {"none", "pending", "retry", "delivering"}
         /\ pc = "superseding" => o = "failed" /\ Won
         /\ pc = "fencing" /\ o = "failed" => ~Won
         /\ RowClaimed(w, pc)
<1> DEFINE o == worker[w].op
           r == Inserted(w)
           pc == Leads(w, r)
           taken == [r EXCEPT !.status = "delivering", !.due = FALSE,
                              !.tries = IF @ < MaxAttempts THEN @ + 1 ELSE @]
<1>1. o \in Ops /\ worker[w].proj \in Status /\ row \in [Ops -> RowState] /\ row[o] \in RowState
      /\ version \in Versions
  BY DEF StateTyped, WorkerState
<1>2. /\ r \in RowState /\ r.status # "none"
      /\ row[o].status # "none" => r = row[o]
      /\ row[o].status = "none" => r.status = "pending" /\ r.gen = version
  BY <1>1, IdleState DEF Inserted, NoRow, RowState
<1>3. /\ pc \in {"terminalizing", "reconciling", "idle", "superseding", "fencing"}
      /\ pc = "terminalizing" => r.status \in {"succeeded", "exhausted"}
      /\ pc = "reconciling" => r.status = "uncertain"
      /\ pc = "idle" => r.status = "delivering" /\ ~r.due
      /\ pc \in {"fencing", "superseding"} =>
           /\ ~(r.status = "delivering" /\ ~r.due)
           /\ r.status \notin {"succeeded", "exhausted", "uncertain"}
      /\ pc = "superseding" => o = "failed" /\ Won
      /\ pc = "fencing" /\ o = "failed" => ~Won
  BY <1>2, LeadsSomewhere
<1>4. row' = [row EXCEPT ![o] = IF pc = "fencing" THEN taken ELSE r]
  BY DEF Claim
<1>5. taken \in RowState /\ taken.status = "delivering" /\ ~taken.due /\ taken.gen = r.gen
      /\ taken.proj = r.proj /\ taken.ref = r.ref
  <2>1. r.tries \in 0..MaxAttempts => (IF r.tries < MaxAttempts THEN r.tries + 1 ELSE r.tries) \in 0..MaxAttempts
    BY DeliveryAssumption
  <2> QED BY <1>2, <2>1 DEF RowState
<1>6. /\ row' \in [Ops -> RowState] /\ \A a \in Ops \ {o} : row'[a] = row[a]
      /\ row'[o] = IF pc = "fencing" THEN taken ELSE r
  BY <1>1, <1>2, <1>4, <1>5
<1>7. RowClaimed(w, pc)
  <2>1. row[o].status = "none" => pc \in {"fencing", "superseding"}
    BY <1>2, <1>3
  <2> QED BY <1>2, <1>5, <1>6, <2>1 DEF RowClaimed
<1>8. /\ pc = "terminalizing" => Done(o)
      /\ pc = "reconciling" => row[o].status = "uncertain"
      /\ pc = "idle" => OnIt(o)
      /\ pc \in {"fencing", "superseding"} =>
           ~OnIt(o) /\ row[o].status \in {"none", "pending", "retry", "delivering"}
  <2>1. row[o].status = "none" => ~OnIt(o)
    BY DEF OnIt
  <2> QED BY <1>1, <1>2, <1>3, <2>1 DEF Done, OnIt, RowState
<1> QED BY <1>3, <1>7, <1>8

\* What it makes of the workers: a fresh fence is the end of everybody else's.
LEMMA ClaimWorkers ==
  ASSUME StateTyped, NEW w \in Workers, Claim(w)
  PROVE  LET o == worker[w].op
             pc == Leads(w, Inserted(w)) IN
         /\ worker' \in [Workers -> WorkerState]
         /\ worker'[w].pc = pc
         /\ pc # "idle" => worker'[w].op = o /\ worker'[w].current
         /\ \A v \in Workers \ {w} :
              /\ worker'[v].pc = worker[v].pc /\ worker'[v].op = worker[v].op
              /\ worker'[v].ref = worker[v].ref
              /\ Fenced(v)' => Fenced(v) /\ Shared
              /\ ~(pc = "fencing" /\ worker[v].op = o) => worker'[v].current = worker[v].current
         /\ gen' = NewFence
<1> DEFINE o == worker[w].op
           pc == Leads(w, Inserted(w))
<1>1. worker \in [Workers -> WorkerState] /\ \A v \in Workers : worker[v] \in WorkerState
  BY DEF StateTyped
<1>2. pc \in {"terminalizing", "reconciling", "idle", "superseding", "fencing"}
  BY ClaimRow
<1>3. gen' = NewFence
  <2>1. Shared => gen = NewFence
    BY DEF Shared, NewFence, StateTyped
  <2> QED BY <2>1 DEF Claim
<1>4. CASE pc = "idle"
  <2>1. worker' = [x \in Workers |->
             IF x = w THEN Idle
             ELSE [worker[x] EXCEPT !.fence = IF Shared THEN @ ELSE "none"]]
    BY <1>4 DEF Claim
  <2>2. \A v \in Workers : [worker[v] EXCEPT !.fence = IF Shared THEN @ ELSE "none"] \in WorkerState
    BY <1>1 DEF WorkerState
  <2>3. worker' \in [Workers -> WorkerState]
    BY <2>1, <2>2, IdleState
  <2>4. worker'[w] = Idle /\ Idle.pc = "idle"
    BY <2>1 DEF Idle
  <2>5. \A v \in Workers \ {w} : worker'[v] = [worker[v] EXCEPT !.fence = IF Shared THEN @ ELSE "none"]
    BY <2>1
  <2>6. \A v \in Workers \ {w} :
              /\ worker'[v].pc = worker[v].pc /\ worker'[v].op = worker[v].op
              /\ worker'[v].ref = worker[v].ref /\ worker'[v].current = worker[v].current
              /\ worker'[v].fence = IF Shared THEN worker[v].fence ELSE "none"
    BY <1>1, <2>5 DEF WorkerState
  <2> QED BY <1>3, <1>4, <2>3, <2>4, <2>6 DEF Fenced
<1>5. CASE pc # "idle"
  <2>1. Claimed(w, pc, ~Shared)
    BY <1>5 DEF Claim
  <2> DEFINE x == [worker[w] EXCEPT !.pc = pc, !.current = TRUE,
                                    !.fence = IF ~Shared THEN "own" ELSE "shared"]
             y(v) == [worker[v] EXCEPT !.fence = IF ~Shared THEN "none" ELSE @,
                        !.current = @ /\ ~(pc = "fencing" /\ worker[v].op = worker[w].op)]
  <2>2. worker' = [v \in Workers |-> IF v = w THEN x ELSE y(v)]
    BY <2>1 DEF Claimed
  <2>3. x \in WorkerState /\ x.pc = pc /\ x.op = o /\ x.current = TRUE
    BY <1>1, <1>2 DEF WorkerState, Pc
  <2>4. \A v \in Workers :
          /\ y(v) \in WorkerState
          /\ y(v).pc = worker[v].pc /\ y(v).op = worker[v].op /\ y(v).ref = worker[v].ref
          /\ y(v).fence = IF ~Shared THEN "none" ELSE worker[v].fence
          /\ ~(pc = "fencing" /\ worker[v].op = o) => y(v).current = worker[v].current
    <3> SUFFICES ASSUME NEW v \in Workers
                 PROVE  /\ y(v) \in WorkerState
                        /\ y(v).pc = worker[v].pc /\ y(v).op = worker[v].op /\ y(v).ref = worker[v].ref
                        /\ y(v).fence = IF ~Shared THEN "none" ELSE worker[v].fence
                        /\ ~(pc = "fencing" /\ worker[v].op = o) => y(v).current = worker[v].current
      OBVIOUS
    <3>1. worker[v] \in WorkerState
      BY <1>1
    <3> QED BY <3>1 DEF WorkerState
  <2>5. worker' \in [Workers -> WorkerState]
    BY <2>2, <2>3, <2>4
  <2>6. worker'[w] = x /\ \A v \in Workers \ {w} : worker'[v] = y(v)
    BY <2>2
  <2>7. \A v \in Workers \ {w} :
              /\ worker'[v].pc = worker[v].pc /\ worker'[v].op = worker[v].op
              /\ worker'[v].ref = worker[v].ref
              /\ worker'[v].fence = IF ~Shared THEN "none" ELSE worker[v].fence
              /\ ~(pc = "fencing" /\ worker[v].op = o) => worker'[v].current = worker[v].current
    <3> HIDE DEF x, y, pc, o
    <3> QED BY <2>4, <2>6
  <2>8. worker'[w].pc = pc /\ worker'[w].op = o /\ worker'[w].current
    <3> HIDE DEF x, y, pc, o
    <3> QED BY <2>3, <2>6
  <2>9. \A v \in Workers \ {w} : Fenced(v)' => Fenced(v) /\ Shared
    <3> HIDE DEF x, y, pc, o
    <3> QED BY <2>7 DEF Fenced
  <2> HIDE DEF x, y
  <2> QED BY <1>3, <2>5, <2>7, <2>8, <2>9
<1> QED BY <1>4, <1>5

LEMMA ClaimKeeps ==
  ASSUME TicketInv, NEW w \in Workers, Claim(w)
  PROVE  TicketInv'
<1> USE DEF TicketInv
<1> DEFINE o == worker[w].op
           pc == Leads(w, Inserted(w))
<1> HIDE DEF pc
<1>1. /\ UNCHANGED <<status, version, approved, kind, remote, wire, faults>> /\ Places' = Places
      /\ At(w, "claiming") /\ ~Blocked /\ AskedFor(w, o) /\ o \in Ops /\ version \in Nat
      /\ (Won' <=> Won)
  BY DEF Claim, incident, provider, Places, AskedFor, Asked, At, StateTyped, WorkerState, Versions, Won
<1>2. /\ pc \in {"terminalizing", "reconciling", "idle", "superseding", "fencing"}
      /\ pc = "terminalizing" => Done(o)
      /\ pc = "reconciling" => row[o].status = "uncertain"
      /\ pc = "idle" => OnIt(o)
      /\ pc \in {"fencing", "superseding"} =>
           ~OnIt(o) /\ row[o].status \in {"none", "pending", "retry", "delivering"}
      /\ pc = "superseding" => o = "failed" /\ Won
      /\ pc = "fencing" /\ o = "failed" => ~Won
      /\ RowClaimed(w, pc)
  BY ClaimRow DEF pc
<1>3. /\ worker' \in [Workers -> WorkerState]
      /\ worker'[w].pc = pc
      /\ pc # "idle" => worker'[w].op = o /\ worker'[w].current
      /\ \A v \in Workers \ {w} :
           /\ worker'[v].pc = worker[v].pc /\ worker'[v].op = worker[v].op
           /\ worker'[v].ref = worker[v].ref
           /\ Fenced(v)' => Fenced(v) /\ Shared
           /\ ~(pc = "fencing" /\ worker[v].op = o) => worker'[v].current = worker[v].current
      /\ gen' = NewFence
  BY ClaimWorkers DEF pc
<1>4. \/ flow' = flow /\ (w = Flow => pc # "idle")
      \/ w = Flow /\ pc = "idle" /\ (flow' = "over" \/ (flow \in {"rejected", "contained"} /\ flow' = "closing"))
  BY DEF Claim, FlowAfter, pc
<1>5. /\ row' \in [Ops -> RowState]
      /\ \A a \in Ops : row[a].status # "none" =>
           row'[a].status # "none" /\ row'[a].gen = row[a].gen /\ row'[a].proj = row[a].proj
           /\ row'[a].ref = row[a].ref
      /\ \A a \in Ops : row'[a] = row[a] \/ (a = o /\ pc \in {"fencing", "superseding"})
      /\ \A a \in Ops : row'[a].status # "none" => row[a].status # "none" \/ a = o
      /\ \A a \in Ops : row'[a].gen \in Nat /\ row[a].gen \in Nat
  <2>1. row' \in [Ops -> RowState] /\ row \in [Ops -> RowState]
    BY <1>2 DEF RowClaimed, StateTyped
  <2>2. \A a \in Ops : row'[a] \in RowState /\ row[a] \in RowState
    BY <2>1
  <2>3. \A a \in Ops : row'[a].gen \in Nat /\ row[a].gen \in Nat
    BY <2>2 DEF RowState, Versions
  <2> QED BY <1>1, <1>2, <2>1, <2>3 DEF RowClaimed
<1>6. /\ gen'.number = version /\ gen'.status = "active"
      /\ gen' \in [number : Versions, status : {"none", "active", "terminal", "reconciled"}, live : BOOLEAN]
      /\ \A a \in Ops : row'[a].gen <= version
  <2>1. gen'.number = version /\ gen'.status = "active"
        /\ gen' \in [number : Versions, status : {"none", "active", "terminal", "reconciled"}, live : BOOLEAN]
    BY <1>3 DEF NewFence, StateTyped
  <2>2. \A a \in Ops : row'[a].gen <= version
    BY <1>1, <1>2, <1>5 DEF VersionsGrow, RowClaimed
  <2> QED BY <2>1, <2>2
<1>7. \A v \in Workers \ {w} : worker[v].op = o =>
        /\ pc \in {"fencing", "superseding"} => worker[v].pc \notin Busy
        /\ pc = "fencing" => worker[v].pc \notin Working
        /\ pc = "superseding" /\ worker[v].pc \in Working => At(v, "superseding")
  <2>1. ASSUME NEW v \in Workers \ {w}, worker[v].op = o, pc \in {"fencing", "superseding"}
        PROVE  worker[v].pc \notin Busy /\ (At(v, "superseding") => pc = "superseding")
    <3>1. worker[v].pc \notin Busy
      BY <1>2, <2>1 DEF BusyHolds
    <3>2. At(v, "superseding") => pc = "superseding"
      BY <1>2, <2>1 DEF SupersedingHolds
    <3> QED BY <3>1, <3>2
  <2> QED BY <2>1 DEF Busy, Working, At
<1>8. /\ \A v \in Workers : Asked(v)' => Asked(v)
      /\ \A v \in Workers, a \in Ops : AskedFor(v, a)' => AskedFor(v, a)
      /\ Asked(w)
  <2>1. Asked(w) /\ AskedFor(w, o)
    BY <1>1 DEF AskedFor
  <2> QED BY <1>2, <1>3, <2>1 DEF AskedFor, Asked
<1>9. \A a \in Finals : Concerns(a)' => Concerns(a)
  <2>1. \A a \in Finals : a \in Ops /\ a \notin {"closing", "over"}
    BY DEF Ops, Finals
  <2> QED BY <1>1, <1>4, <1>5, <1>8, <2>1 DEF Concerns
<1>10. StateTyped'
  <2>1. flow' \in {"opening", "waiting", "executing", "closing", "over"} \cup Finals
    BY <1>4 DEF StateTyped
  <2> QED BY <1>1, <1>3, <1>5, <1>6, <2>1 DEF StateTyped
<1>11. VersionsGrow' /\ AboutIncident'
  <2>1. \A a \in Ops : row'[a].status # "none" => row'[a].gen >= 1
    <3>1. version >= 1
      BY <1>1 DEF StateTyped
    <3> QED BY <1>1, <1>2, <1>5, <3>1 DEF VersionsGrow, RowClaimed
  <2> QED BY <1>1, <1>4, <1>6, <2>1 DEF VersionsGrow, AboutIncident
<1>12. OperationsFit'
  BY <1>1, <1>9 DEF OperationsFit, Finals
<1>13. o = "open" \/ Past
  BY <1>1 DEF Past, Ops
<1>14. Past => o # "open" /\ row["open"].status = "succeeded"
  BY <1>1 DEF OpenFirst
<1>15. Past' => Past
  <2>1. \A a \in Finals : a \in Ops /\ a # "open"
    BY DEF Ops, Finals
  <2>2. \A a \in Finals : row'[a].status # "none" => Past
    BY <1>5, <1>13, <2>1 DEF Past
  <2>3. \A v \in Workers, a \in Finals : AskedFor(v, a)' => Past
    BY <1>8, <2>1 DEF Past
  <2> QED BY <1>1, <1>4, <2>2, <2>3 DEF Past, Finals
<1>16. OpenFirst'
  BY <1>5, <1>8, <1>14, <1>15 DEF OpenFirst, Ops
<1>17. OpeningAlone'
  <2> SUFFICES ASSUME flow' = "opening" PROVE OpeningAlone'
    BY DEF OpeningAlone
  <2>1. flow = "opening"
    BY <1>4
  <2>2. w = Flow /\ o = "open" /\ row["open"].status = "none"
    BY <1>1, <1>8, <2>1 DEF OpeningAlone, At, Working, Workers
  <2>3. pc = "fencing"
    BY <1>2, <2>2 DEF RowClaimed
  <2>4. OnIt("open")' /\ worker'[Flow].op = "open" /\ worker'[Flow].pc \in Working
    BY <1>2, <1>3, <2>2, <2>3 DEF OnIt, RowClaimed, Working
  <2> QED BY <1>8, <2>1, <2>4 DEF OpeningAlone, Workers
<1>18. \A v \in Workers \ {w} : worker'[v].pc \in Working =>
         row'[worker[v].op] = row[worker[v].op] \/ (worker[v].op = o /\ pc = "superseding" /\ At(v, "superseding"))
  <2>1. \A v \in Workers : worker[v].op \in Ops
    BY DEF StateTyped, WorkerState
  <2> QED BY <1>3, <1>5, <1>7, <2>1
<1>19. BusyHolds'
  <2> SUFFICES ASSUME NEW v \in Workers, worker'[v].pc \in Busy
               PROVE  /\ worker'[v].current
                      /\ \/ OnIt(worker[v].op)'
                         \/ kind' = "linear" /\ worker'[v].op = "open" /\ row'["open"].status = "succeeded"
    BY DEF BusyHolds
  <2>1. CASE v = w
    <3>1. pc = "fencing"
      BY <1>2, <1>3, <2>1 DEF Busy, Working
    <3> QED BY <1>2, <1>3, <2>1, <3>1 DEF OnIt, RowClaimed
  <2>2. CASE v # w
    <3>1. worker[v].pc \in Busy /\ worker'[v].op = worker[v].op /\ ~At(v, "superseding")
          /\ worker'[v].pc \in Working
      BY <1>3, <2>2 DEF Busy, At
    <3>2. row'[worker[v].op] = row[worker[v].op]
      BY <1>18, <2>2, <3>1
    <3>3. worker'[v].current = worker[v].current
      BY <1>3, <1>7, <2>2, <3>1 DEF Busy
    <3> QED BY <1>1, <3>1, <3>2, <3>3 DEF BusyHolds, OnIt
  <2> QED BY <2>1, <2>2
<1>20. SupersedingHolds'
  <2> SUFFICES ASSUME NEW v \in Workers, worker'[v].pc = "superseding"
               PROVE  \/ worker'[v].op = "failed" /\ Won'
                      \/ kind' = "mock" /\ worker'[v].current /\ OnIt(worker[v].op)'
    BY DEF SupersedingHolds, At
  <2>1. CASE v = w
    BY <1>1, <1>2, <1>3, <2>1
  <2>2. CASE v # w
    <3>1. At(v, "superseding") /\ worker'[v].op = worker[v].op /\ worker'[v].pc \in Working
      BY <1>3, <2>2 DEF At, Working
    <3>2. worker[v].op = "failed" /\ Won => worker'[v].op = "failed" /\ Won'
      BY <1>1, <3>1
    <3>3. ~(worker[v].op = "failed" /\ Won) => row'[worker[v].op] = row[worker[v].op]
      BY <1>2, <1>18, <2>2, <3>1
    <3>4. ~(worker[v].op = "failed" /\ Won) => worker'[v].current = worker[v].current
      BY <1>3, <1>7, <2>2, <3>1 DEF Working, At
    <3> QED BY <1>1, <3>1, <3>2, <3>3, <3>4 DEF SupersedingHolds, OnIt
  <2> QED BY <2>1, <2>2
<1>21. Alone'
  <2> SUFFICES ASSUME NEW v \in Workers, NEW x \in Workers, v # x, worker'[v].op = worker'[x].op,
                      worker'[v].pc \in Working, worker'[x].pc \in Working
               PROVE  /\ At(v, "superseding")' /\ At(x, "superseding")'
                      /\ worker'[v].op = "failed" /\ Won'
    BY DEF Alone
  <2>1. worker'[w].pc \in Working => pc \in {"fencing", "superseding"} /\ worker'[w].op = o
    BY <1>2, <1>3 DEF Working
  <2>2. CASE v = w
    BY <1>1, <1>2, <1>3, <1>7, <2>1, <2>2 DEF At
  <2>3. CASE x = w
    BY <1>1, <1>2, <1>3, <1>7, <2>1, <2>3 DEF At
  <2>4. CASE v # w /\ x # w
    BY <1>1, <1>3, <2>4 DEF Alone, At
  <2> QED BY <2>2, <2>3, <2>4
<1>22. Readers'
  <2> SUFFICES ASSUME NEW v \in Workers
               PROVE  /\ At(v, "terminalizing")' => Done(worker[v].op)'
                      /\ worker'[v].pc \in {"expired", "settling"} =>
                           kind' = "linear" /\ (Fenced(v)' => ~gen'.live)
                      /\ At(v, "settling")' /\ Fenced(v)' => \A a \in Finals : row'[a].status = "none"
                      /\ At(v, "resolving")' => worker'[v].op = "open"
                      /\ worker'[v].pc \in {"reconciling", "resolving"} /\ worker'[v].op = "open" =>
                           row'["open"].status \in {"uncertain", "succeeded"}
                      /\ At(v, "rechecking")' => worker'[v].op = "failed"
    BY DEF Readers
  <2>1. CASE v = w
    <3>1. pc \in {"terminalizing", "reconciling"} => worker'[w].op = o /\ row'[o] = row[o]
      BY <1>1, <1>3, <1>5
    <3>2. pc = "terminalizing" => Done(worker[w].op)'
      BY <1>2, <3>1 DEF Done
    <3>3. pc = "reconciling" /\ worker'[w].op = "open" => row'["open"].status = "uncertain"
      BY <1>2, <3>1
    <3> QED BY <1>2, <1>3, <2>1, <3>2, <3>3 DEF At
  <2>2. CASE v # w
    <3>1. /\ worker'[v].pc = worker[v].pc /\ worker'[v].op = worker[v].op /\ worker[v].op \in Ops
          /\ Fenced(v)' => Fenced(v) /\ gen.live
      BY <1>3, <2>2 DEF Shared, StateTyped, WorkerState
    <3>2. Done(worker[v].op) => Done(worker[v].op)'
      BY <1>2, <1>5, <3>1 DEF Done
    <3>3. row["open"].status \in {"uncertain", "succeeded"} => row'["open"].status \in {"uncertain", "succeeded"}
      BY <1>2, <1>5 DEF Ops
    <3> QED BY <1>1, <3>1, <3>2, <3>3 DEF Readers, At
  <2> QED BY <2>1, <2>2
<1>23. References'
  <2>1. \A a \in Ops : row'[a].status = "succeeded" =>
          row'[a].ref \in Places /\ remote[row'[a].ref].gen >= row'[a].gen
    <3>1. \A a \in Ops : row'[a].status = "succeeded" => row'[a] = row[a]
      BY <1>2, <1>5 DEF RowClaimed
    <3> QED BY <3>1 DEF References, Referenced, Places
  <2>2. ASSUME NEW v \in Workers
        PROVE  /\ worker'[v].pc \in {"called", "persisting", "resolving"} =>
                    worker'[v].ref \in Places /\ remote[worker'[v].ref].gen >= row'[worker'[v].op].gen
               /\ At(v, "settling")' =>
                    worker'[v].ref \in Places /\ remote[worker'[v].ref].gen >= row'["open"].gen
    <3>1. CASE v = w
      BY <1>2, <1>3, <3>1 DEF At
    <3>2. CASE v # w
      <4>1. /\ worker'[v].pc = worker[v].pc /\ worker'[v].op = worker[v].op /\ worker[v].op \in Ops
            /\ worker'[v].ref = worker[v].ref
        BY <1>3, <3>2 DEF StateTyped, WorkerState
      <4>2. worker[v].pc \in {"called", "persisting", "resolving"} => row[worker[v].op].status # "none"
        BY DEF BusyHolds, OnIt, Busy, Working, Readers, At
      <4>3. At(v, "settling") /\ worker[v].ref \in Places => row["open"].status # "none"
        <5>1. SUFFICES ASSUME worker[v].ref \in Places, row["open"].status = "none" PROVE FALSE
          OBVIOUS
        <5>2. remote[worker[v].ref].op \in Finals
          BY <5>1, WritesAreWrites DEF WritesFit, Write, Ops
        <5>3. Past
          BY <5>1, <5>2 DEF WritesFit, Past
        <5> QED BY <1>14, <5>1, <5>3
      <4>4. "open" \in Ops
        BY DEF Ops
      <4> QED BY <1>5, <4>1, <4>2, <4>3, <4>4 DEF References, At
    <3> QED BY <3>1, <3>2
  <2> QED BY <1>1, <2>1, <2>2 DEF References, Referenced, Places
<1>24. WritesFit'
  <2>1. \A i \in Places : LET a == remote[i].op IN
          /\ row'[a].status # "none"
          /\ remote[i].gen = row'[a].gen /\ remote[i].proj = row'[a].proj
          /\ gen'.number >= row'[a].gen
    <3>1. \A i \in Places : remote[i].op \in Ops
      BY WritesAreWrites DEF Write
    <3> QED BY <1>1, <1>5, <1>6, <3>1 DEF WritesFit
  <2>2. ASSUME NEW q \in wire
        PROVE  /\ q.gen = row'[q.op].gen /\ q.proj = row'[q.op].proj
               /\ q.ref = IF q.op = "open" THEN 0 ELSE row'["open"].ref
               /\ OnIt(q.op)' \/ row'[q.op].status = "uncertain"
               /\ \A v \in Workers : worker'[v].op = q.op => worker'[v].pc \notin Working \ {"doubting"}
    <3>1. q.op \in Ops /\ row[q.op].status # "none" /\ (OnIt(q.op) \/ row[q.op].status = "uncertain")
      BY DEF StateTyped, WritesFit, OnIt
    <3>2. row'[q.op] = row[q.op]
      BY <1>2, <1>5, <3>1
    <3>3. q.op # "open" => row'["open"].ref = row["open"].ref
      <4>1. q.op # "open" => Past
        BY <3>1 DEF Past, Ops
      <4> QED BY <1>5, <1>14, <4>1 DEF Ops
    <3>4. \A v \in Workers : worker'[v].op = q.op => worker'[v].pc \notin Working \ {"doubting"}
      <4>1. worker'[w].op = q.op => worker'[w].pc \notin Working
        <5>1. pc \in {"fencing", "superseding"} => worker'[w].op = o /\ q.op # o
          BY <1>2, <1>3, <3>1
        <5> QED BY <1>2, <1>3, <5>1 DEF Working
      <4> QED BY <1>3, <4>1 DEF WritesFit
    <3> QED BY <3>1, <3>2, <3>3, <3>4 DEF WritesFit, OnIt
  <2>3. \A a \in Ops : InFlight(a)' => gen'.number >= row'[a].gen
    BY <1>1, <1>5, <1>6
  <2> QED BY <1>1, <2>1, <2>2, <2>3 DEF WritesFit
<1>25. MockOrdered' /\ LinearSingle'
  BY <1>1 DEF MockOrdered, LinearSingle
<1>26. InFlight("failed")' => InFlight("failed") /\ row["failed"].status # "none"
  <2>1. InFlight("failed")' => InFlight("failed")
    BY <1>1, <1>2, <1>3 DEF InFlight
  <2>2. InFlight("failed") => row["failed"].status # "none"
    BY DEF InFlight, WritesFit, BusyHolds, OnIt, Busy, Working
  <2> QED BY <2>1, <2>2
<1>27. FailedSent' => FailedSent \/ (pc = "fencing" /\ o = "failed")
  <2>1. \A v \in Workers : BusyWith(v, "failed")' => BusyWith(v, "failed") \/ (pc = "fencing" /\ o = "failed")
    BY <1>2, <1>3 DEF BusyWith, Busy, Working
  <2> QED BY <1>1, <2>1 DEF FailedSent, OnTicket
<1>28. FailedSent => row["failed"].status # "none"
  <2>1. OnTicket("failed") => row["failed"].status # "none"
    BY DEF OnTicket, WritesFit
  <2> QED BY <2>1 DEF FailedSent, BusyWith, WritesFit, BusyHolds, OnIt
<1>29. FinalsOrdered'
  <2>1. \A a \in Finals : row'[a].status # "none" => row'[a].gen >= row'["open"].gen
    <3> SUFFICES ASSUME NEW a \in Finals, row'[a].status # "none"
                 PROVE  row'[a].gen >= row'["open"].gen
      OBVIOUS
    <3>1. a \in Ops /\ "open" \in Ops /\ a # "open"
      BY DEF Ops, Finals
    <3>2. Past
      BY <1>5, <1>13, <3>1 DEF Past
    <3>3. row'["open"] = row["open"]
      BY <1>5, <1>14, <3>1, <3>2
    <3>4. CASE row[a].status # "none"
      BY <1>5, <3>1, <3>3, <3>4 DEF FinalsOrdered
    <3>5. CASE row[a].status = "none"
      <4>1. a = o /\ row'[a].gen = version
        BY <1>2, <1>5, <3>1, <3>5 DEF RowClaimed
      <4> QED BY <1>6, <3>1, <4>1
    <3> QED BY <3>4, <3>5
  <2>2. FailedSent' /\ Won' => row'["failed"].gen < version
    <3>1. SUFFICES ASSUME FailedSent', Won PROVE row'["failed"].gen < version
      BY <1>1
    <3>2. FailedSent
      BY <1>2, <1>27, <3>1
    <3> QED BY <1>5, <1>28, <3>1, <3>2 DEF FinalsOrdered, Ops, Finals
  <2>3. FailedSent' /\ row'["contained"].status # "none" => row'["failed"].gen < row'["contained"].gen
    <3>1. SUFFICES ASSUME FailedSent', row'["contained"].status # "none"
                   PROVE  row'["failed"].gen < row'["contained"].gen
      OBVIOUS
    <3>2. Won
      BY <1>1, <1>5, <3>1 DEF OperationsFit, Concerns, Ops, Finals
    <3>3. FailedSent /\ row'["failed"].gen = row["failed"].gen
      BY <1>2, <1>5, <1>27, <1>28, <3>1, <3>2 DEF Ops, Finals
    <3>4. CASE row["contained"].status # "none"
      BY <1>5, <3>3, <3>4 DEF FinalsOrdered, Ops, Finals
    <3>5. CASE row["contained"].status = "none"
      <4>1. row'["contained"].gen = version
        BY <1>2, <1>5, <3>1, <3>5 DEF RowClaimed, Ops, Finals
      <4> QED BY <3>2, <3>3, <4>1 DEF FinalsOrdered
    <3> QED BY <3>4, <3>5
  <2>4. kind = "linear" /\ InFlight("failed")' => gen'.status = "active" /\ gen'.number = row'["failed"].gen
    <3>1. SUFFICES ASSUME kind = "linear", InFlight("failed")'
                   PROVE  gen'.status = "active" /\ gen'.number = row'["failed"].gen
      OBVIOUS
    <3>2. gen.status = "active" /\ gen.number = row["failed"].gen
      BY <1>26, <3>1 DEF FinalsOrdered
    <3>3. gen.number = version
      BY <1>1, <3>1, <3>2 DEF Blocked
    <3> QED BY <1>5, <1>6, <1>26, <3>1, <3>2, <3>3 DEF Ops, Finals
  <2> QED BY <1>1, <2>1, <2>2, <2>3, <2>4 DEF FinalsOrdered
<1> QED BY <1>10, <1>11, <1>12, <1>16, <1>17, <1>19, <1>20, <1>21, <1>22, <1>23, <1>24, <1>25, <1>29

-----------------------------------------------------------------------------
(* The specification.                                                        *)

LEMMA InitHolds ==
  ASSUME Init
  PROVE  TicketInv
<1>1. /\ Len(remote) = 0 /\ Places = {} /\ remote \in Seq(Write) /\ wire = {}
  <2>1. remote = <<>> /\ Len(<<>>) = 0 /\ <<>> \in Seq(Write) /\ 1..0 = {}
    BY DEF Init
  <2> QED BY <2>1 DEF Places, Init
<1>2. /\ \A v \in Workers : worker[v] = Idle
      /\ \A o \in Ops : row[o] = NoRow
      /\ worker \in [Workers -> WorkerState] /\ row \in [Ops -> RowState]
  BY IdleState DEF Init
<1>3. /\ Idle.pc = "idle" /\ NoRow.status = "none" /\ NoRow.gen = 0 /\ Idle.op = "open"
  BY DEF Idle, NoRow
<1>4. \A v \in Workers : ~Asked(v) /\ worker[v].pc = "idle" /\ \A o \in Ops : ~AskedFor(v, o)
  BY <1>2, <1>3 DEF Asked, AskedFor
<1>5. StateTyped
  <2>1. version \in Versions \ {0} /\ faults \in 0..MaxFaults /\ Len(remote) <= MaxTickets
    BY <1>1, DeliveryAssumption DEF Init, Versions
  <2>2. gen \in [number : Versions, status : {"none", "active", "terminal", "reconciled"}, live : BOOLEAN]
    BY DeliveryAssumption DEF Init, Versions
  <2>3. status \in Status /\ kind \in Kinds /\ approved \in BOOLEAN /\ flow = "opening"
    BY DEF Init, Status
  <2> QED BY <1>1, <1>2, <2>1, <2>2, <2>3 DEF StateTyped
<1>6. VersionsGrow /\ AboutIncident
  BY <1>2, <1>3 DEF VersionsGrow, AboutIncident, Init
<1>7. \A o \in Ops : ~InFlight(o) /\ row[o].status = "none"
  BY <1>1, <1>2, <1>3, <1>4 DEF InFlight
<1>8. \A o \in Finals : ~Concerns(o) /\ o \in Ops
  BY <1>4, <1>7 DEF Concerns, Init, Finals, Ops
<1>9. OperationsFit
  BY <1>8 DEF OperationsFit, Finals
<1>10. ~Past /\ ~FailedSent
  BY <1>1, <1>4, <1>7, <1>8 DEF Past, FailedSent, BusyWith, Busy, Working, OnTicket, Init, Finals
<1>11. OpenFirst /\ OpeningAlone
  BY <1>4, <1>7, <1>10 DEF OpenFirst, OpeningAlone, Init, At, Workers, Ops
<1>12. BusyHolds /\ SupersedingHolds /\ Alone /\ Readers
  BY <1>4 DEF BusyHolds, SupersedingHolds, Alone, Readers, At, Busy, Working
<1>13. References /\ WritesFit
  <2>1. References
    BY <1>4, <1>7 DEF References, Referenced, At
  <2>2. \A i \in Places : FALSE
    BY <1>1
  <2>3. \A q \in wire : FALSE
    BY <1>1
  <2> QED BY <1>7, <2>1, <2>2, <2>3 DEF WritesFit
<1>14. MockOrdered /\ LinearSingle /\ FinalsOrdered
  <2>1. MockOrdered /\ LinearSingle
    BY <1>1 DEF MockOrdered, LinearSingle
  <2>2. FinalsOrdered
    BY <1>7, <1>8, <1>10 DEF FinalsOrdered, Finals
  <2> QED BY <2>1, <2>2
<1> QED BY <1>5, <1>6, <1>9, <1>11, <1>12, <1>13, <1>14 DEF TicketInv

LEMMA StutterKeeps ==
  ASSUME TicketInv, UNCHANGED vars
  PROVE  TicketInv'
<1> USE DEF TicketInv
<1>1. UNCHANGED <<kind, status, version, approved, flow, row, gen, remote, wire, worker, faults>>
  BY DEF vars
<1>2. /\ \A v \in Workers : Asked(v)' <=> Asked(v)
      /\ \A v \in Workers, o \in Ops : AskedFor(v, o)' <=> AskedFor(v, o)
      /\ \A o \in Ops : (Concerns(o)' <=> Concerns(o)) /\ (InFlight(o)' <=> InFlight(o))
  BY <1>1 DEF AskedFor, Asked, Concerns, InFlight
<1>3. (FailedSent' <=> FailedSent) /\ (Past' <=> Past)
  BY <1>1 DEF FailedSent, Past, AskedFor, Asked, BusyWith, OnTicket, Places
<1>4. StateTyped' /\ VersionsGrow' /\ AboutIncident'
  BY <1>1 DEF StateTyped, VersionsGrow, AboutIncident
<1>5. OperationsFit' /\ OpenFirst' /\ OpeningAlone'
  BY <1>1, <1>2, <1>3 DEF OperationsFit, OpenFirst, OpeningAlone, Won, Ops, Finals, At, OnIt, Workers
<1>6. BusyHolds' /\ SupersedingHolds' /\ Alone'
  BY <1>1 DEF BusyHolds, SupersedingHolds, Alone, OnIt, At, Won
<1>7. Readers' /\ References'
  BY <1>1 DEF Readers, References, Referenced, At, Fenced, Done, Places
<1>8. WritesFit'
  BY <1>1, <1>2 DEF WritesFit, Places, OnIt
<1>9. MockOrdered' /\ LinearSingle' /\ FinalsOrdered'
  BY <1>1, <1>2, <1>3 DEF MockOrdered, LinearSingle, FinalsOrdered, Places, Won, Ops, Finals
<1> QED BY <1>4, <1>5, <1>6, <1>7, <1>8, <1>9

LEMMA NextKeeps ==
  ASSUME TicketInv, [Next]_vars, ~misled'
  PROVE  TicketInv'
<1>1. CASE UNCHANGED vars
  BY <1>1, StutterKeeps
<1>2. CASE Decide \/ Run
  BY <1>2, RunKeeps, AsksKeep DEF Run
<1>3. CASE Time
  <2>1. CASE LeaseLapses \/ Overrun
    <3>1. Lapses /\ faults' \in 0..MaxFaults
      BY <2>1, DeliveryAssumption DEF LeaseLapses, Overrun, Fault, TicketInv, StateTyped
    <3> QED BY <3>1, LapseKeeps
  <2> QED BY <1>3, <2>1, WireKeeps, DueKeeps DEF Time
<1>4. ASSUME NEW w \in Workers, Deliver(w)
      PROVE  TicketInv'
  <2>1. CASE ClaimConflicts(w)
    <3>1. faults' \in 0..MaxFaults
      BY <2>1 DEF ClaimConflicts, TicketInv, StateTyped
    <3> QED BY <2>1, <3>1, QuitKeeps DEF ClaimConflicts
  <2>2. CASE Claim(w) \/ ClaimBlocked(w)
    BY <2>2, ClaimKeeps, ClaimBlockedKeeps
  <2>3. CASE Terminalize(w) \/ ReconcileExpired(w) \/ SettleExpired(w) \/ Reconcile(w) \/ Resolve(w)
    BY <2>3, TerminalizeKeeps, ReconcileKeeps, SettleKeeps, ResolveKeeps
  <2>4. CASE CheckFence(w) \/ RecheckIncident(w) \/ CheckAgain(w)
    BY <2>4, CheckKeeps
  <2>5. CASE CallFinds(w) \/ CallLands(w) \/ CallRefused(w)
    BY <2>5, CallKeeps
  <2>6. CASE Persist(w) \/ PersistFailure(w) \/ PersistSuperseded(w) \/ PersistDoubt(w)
    BY <2>6, PersistSteps, DoubtKeeps
  <2> QED BY <1>4, <2>1, <2>2, <2>3, <2>4, <2>5, <2>6 DEF Deliver
<1>5. ASSUME NEW w \in Workers,
             \/ Work(w) \/ CallFails(w) \/ CallTimesOut(w) \/ Crash(w)
             \/ DeliverOne(w) \/ RetryContainment(w)
      PROVE  TicketInv'
  <2>1. CASE Work(w)
    BY <1>4, <2>1, RecoveryKeeps DEF Work
  <2>2. CASE CallFails(w) \/ CallTimesOut(w)
    BY <2>2, CallKeeps
  <2>3. CASE Crash(w)
    BY <2>3, CrashKeeps
  <2>4. CASE DeliverOne(w)
    BY <2>4, AsksKeep
  <2>5. CASE RetryContainment(w)
    BY <2>5, RecoveryKeeps
  <2> QED BY <1>5, <2>1, <2>2, <2>3, <2>4, <2>5
<1> QED BY <1>1, <1>2, <1>3, <1>5 DEF Next

-----------------------------------------------------------------------------
(* What holds whether or not the ledger was misled.                          *)

\* The run asks for the opening only while it is opening, and never recovers.
RunAsks ==
  /\ worker[Flow].pc \notin {"recovering", "closing"}
  /\ flow = "opening" /\ Asked(Flow) => worker[Flow].op = "open"

UntimedInv ==
  /\ StateTyped /\ RunAsks
  /\ status = "awaiting_approval" => ~approved
  /\ Past => row["open"].status = "succeeded"

\* A worker stays with what it was asked for, or ends it.
WorkersGoOn ==
  /\ worker' \in [Workers -> WorkerState]
  /\ \A v \in Workers :
       /\ Asked(v)' => Asked(v) /\ worker'[v].op = worker[v].op
       /\ worker'[v].pc \in {"recovering", "closing"} =>
            worker[v].pc \in {"recovering", "closing"}

\* A row is inserted for a worker that was asked for it, and the opening stays open.
RowsGoOn(w) ==
  /\ row' \in [Ops -> RowState]
  /\ row["open"].status = "succeeded" => row'["open"].status = "succeeded"
  /\ \A o \in Ops : row'[o].status # "none" => row[o].status # "none" \/ AskedFor(w, o)

GenTyped ==
  gen \in [number : Versions, status : {"none", "active", "terminal", "reconciled"}, live : BOOLEAN]
RemoteTyped == remote \in Seq(Write) /\ Len(remote) <= MaxTickets
WireTyped == wire \subseteq [op : Ops, gen : Versions, proj : Status, ref : 0..MaxTickets]

LEMMA TypesGoOn ==
  ASSUME UntimedInv, NEW w \in Workers, WorkersGoOn, RowsGoOn(w),
         UNCHANGED flow \/ FlowGoes(w), UNCHANGED <<incident, kind>>,
         GenTyped', RemoteTyped', WireTyped', faults' \in 0..MaxFaults
  PROVE  UntimedInv'
<1> USE DEF UntimedInv
<1>1. UNCHANGED <<status, version, approved, kind>>
  BY DEF incident
<1>2. Flow \in Workers /\ "open" \in Ops /\ Finals \subseteq Ops
  BY DEF Workers, Ops
<1>3. /\ flow' = flow \/ flow' \in {"over", "closing", "waiting"}
      /\ flow' = "opening" => flow = "opening"
  BY DEF FlowGoes
<1>4. StateTyped'
  BY <1>1, <1>3 DEF StateTyped, WorkersGoOn, RowsGoOn, GenTyped, RemoteTyped, WireTyped
<1>5. RunAsks'
  BY <1>2, <1>3 DEF RunAsks, WorkersGoOn
<1>6. \A v \in Workers, o \in Ops : AskedFor(v, o)' => AskedFor(v, o)
  BY DEF WorkersGoOn, AskedFor
<1>7. \A o \in Finals : row'[o].status # "none" => Past
  BY <1>2 DEF RowsGoOn, Past
<1>8. flow' = flow \/ flow' = "over" \/ Past \/ row'["open"].status = "succeeded"
  BY DEF FlowGoes, Past, Finals
<1>9. Past' => Past \/ row'["open"].status = "succeeded"
  BY <1>1, <1>2, <1>6, <1>7, <1>8 DEF Past, Finals
<1> QED BY <1>1, <1>4, <1>5, <1>9 DEF RowsGoOn

LEMMA WorkerGoesOn ==
  ASSUME StateTyped, NEW w \in Workers, NEW r \in WorkerState, worker' = [worker EXCEPT ![w] = r],
         \/ r.pc = "idle"
         \/ r.pc \notin {"recovering", "closing"} /\ Asked(w) /\ r.op = worker[w].op
  PROVE  WorkersGoOn
<1>1. worker \in [Workers -> WorkerState]
  BY DEF StateTyped
<1>2. /\ worker' \in [Workers -> WorkerState] /\ worker'[w] = r
      /\ \A v \in Workers \ {w} : worker'[v] = worker[v]
  BY <1>1
<1>3. \A v \in Workers \ {w} : Asked(v)' => Asked(v)
  BY <1>2 DEF Asked
<1>4. Asked(w)' => Asked(w) /\ r.op = worker[w].op
  BY <1>2 DEF Asked
<1> QED BY <1>2, <1>3, <1>4 DEF WorkersGoOn

\* Its work ends.
LEMMA EndsGoOn ==
  ASSUME StateTyped, NEW w \in Workers, Return(w, FALSE) \/ Throw(w)
  PROVE  WorkersGoOn /\ FlowGoes(w)
<1>1. worker' = [worker EXCEPT ![w] = Idle] /\ FlowGoes(w)
  BY ReturnGoes, ThrowGoes
<1>2. Idle \in WorkerState /\ Idle.pc = "idle"
  BY IdleState DEF Idle
<1> QED BY <1>1, <1>2, WorkerGoesOn

\* The delivery is concluded.
LEMMA DoneGoesOn ==
  ASSUME UntimedInv, NEW w \in Workers, NEW d \in BOOLEAN, Asked(w), Return(w, d),
         d => row'[worker[w].op].status = "succeeded"
  PROVE  WorkersGoOn /\ FlowGoes(w)
<1>1. w = Flow /\ flow = "opening" => worker[w].op = "open"
  BY DEF UntimedInv, RunAsks
<1>2. worker' = [worker EXCEPT ![w] = Idle] /\ FlowGoes(w)
  BY <1>1, ReturnGoes
<1>3. Idle \in WorkerState /\ Idle.pc = "idle" /\ StateTyped
  BY IdleState DEF Idle, UntimedInv
<1> QED BY <1>2, <1>3, WorkerGoesOn

\* It goes on, with a reference or a fence.
LEMMA MovesOn ==
  ASSUME StateTyped, NEW w \in Workers, Asked(w),
         NEW pc \in Pc \ {"idle", "recovering", "closing"}, NEW ref \in 0..MaxTickets,
         NEW f \in {"none", "own", "shared"},
         worker' = [worker EXCEPT ![w].pc = pc, ![w].ref = ref, ![w].fence = f]
  PROVE  WorkersGoOn
<1> DEFINE r == [worker[w] EXCEPT !.pc = pc, !.ref = ref, !.fence = f]
<1>1. worker \in [Workers -> WorkerState] /\ worker[w] \in WorkerState
  BY DEF StateTyped
<1>2. r \in WorkerState /\ r.pc = pc /\ r.op = worker[w].op
  BY <1>1 DEF WorkerState
<1>3. worker' = [worker EXCEPT ![w] = r]
  BY <1>1
<1> HIDE DEF r
<1> QED BY <1>2, <1>3, WorkerGoesOn

\* The rows stay.
LEMMA LedgerStays ==
  ASSUME StateTyped, UNCHANGED ledger
  PROVE  GenTyped' /\ \A w \in Workers : RowsGoOn(w)
BY DEF StateTyped, GenTyped, RowsGoOn, ledger

\* So does the provider.
LEMMA ProviderStays ==
  ASSUME StateTyped, UNCHANGED provider
  PROVE  RemoteTyped' /\ WireTyped' /\ UNCHANGED kind
BY DEF StateTyped, RemoteTyped, WireTyped, provider

\* A row changes that was there.
LEMMA RowGoesOn ==
  ASSUME StateTyped, NEW w \in Workers, NEW p \in Ops, NEW r \in RowState,
         row' = [row EXCEPT ![p] = r], row[p].status # "none",
         p = "open" /\ row[p].status = "succeeded" => r.status = "succeeded"
  PROVE  RowsGoOn(w)
<1>1. row \in [Ops -> RowState]
  BY DEF StateTyped
<1>2. row' \in [Ops -> RowState] /\ \A o \in Ops : row'[o] = IF o = p THEN r ELSE row[o]
  BY <1>1
<1>3. "open" \in Ops
  BY DEF Ops
<1> QED BY <1>2, <1>3 DEF RowsGoOn

\* What a request writes is a write, in its place or in a new one.
LEMMA LandsTyped ==
  ASSUME StateTyped, NEW q \in [op : Ops, gen : Versions, proj : Status, ref : 0..MaxTickets],
         Lands(q)
  PROVE  RemoteTyped'
<1>1. Written(q) \in Write
  BY DEF Written, Write
<1>2. remote \in Seq(Write) /\ Len(remote) \in Nat /\ Len(remote) <= MaxTickets
      /\ remote \in [1..Len(remote) -> Write] /\ MaxTickets \in Nat
  BY LenProperties, DeliveryAssumption DEF StateTyped
<1>3. CASE remote' = [remote EXCEPT ![q.ref] = Written(q)]
  <2>1. remote' \in [1..Len(remote) -> Write]
    BY <1>1, <1>2, <1>3
  <2>2. remote' \in Seq(Write)
    BY <1>2, <2>1, SeqDef
  <2>3. Len(remote') = Len(remote)
    BY <1>2, <2>1, <2>2, LenProperties
  <2> QED BY <1>2, <2>2, <2>3 DEF RemoteTyped
<1>4. CASE Len(remote) < MaxTickets /\ remote' = Append(remote, Written(q))
  BY <1>1, <1>2, <1>4, AppendProperties DEF RemoteTyped
<1> QED BY <1>3, <1>4 DEF Lands

LEMMA RequestTyped ==
  ASSUME StateTyped, NEW w \in Workers
  PROVE  Request(w) \in [op : Ops, gen : Versions, proj : Status, ref : 0..MaxTickets]
<1>1. /\ worker[w].op \in Ops /\ row[worker[w].op] \in RowState
      /\ "open" \in Ops /\ row["open"] \in RowState
      /\ 0 \in 0..MaxTickets
  BY DeliveryAssumption DEF StateTyped, WorkerState, Ops
<1> QED BY <1>1 DEF Request, RowState

LEMMA SendsTyped ==
  ASSUME StateTyped, NEW w \in Workers, Sends(w) \/ UNCHANGED wire
  PROVE  WireTyped'
BY RequestTyped DEF StateTyped, Sends, WireTyped

\* A claim inserts the row of the worker's operation, or takes it.
LEMMA ClaimGoesOn ==
  ASSUME UntimedInv, NEW w \in Workers, Claim(w)
  PROVE  WorkersGoOn /\ RowsGoOn(w) /\ GenTyped' /\ (UNCHANGED flow \/ FlowGoes(w))
<1> DEFINE o == worker[w].op
           pc == Leads(w, Inserted(w))
<1>1. StateTyped /\ Asked(w) /\ o \in Ops /\ "open" \in Ops /\ row \in [Ops -> RowState]
  BY DEF UntimedInv, StateTyped, WorkerState, Claim, At, Asked, Ops
<1>2. /\ pc \in {"terminalizing", "reconciling", "idle", "superseding", "fencing"}
      /\ pc \in {"fencing", "superseding"} =>
           row[o].status \in {"none", "pending", "retry", "delivering"}
      /\ RowClaimed(w, pc)
  BY <1>1, ClaimRow
<1>3. RowsGoOn(w)
  <2>1. row' \in [Ops -> RowState] /\ \A a \in Ops \ {o} : row'[a] = row[a]
    BY <1>2 DEF RowClaimed
  <2>2. AskedFor(w, o)
    BY <1>1 DEF AskedFor
  <2>3. row[o].status = "succeeded" => row'[o] = row[o]
    BY <1>2 DEF RowClaimed
  <2> QED BY <1>1, <2>1, <2>2, <2>3 DEF RowsGoOn
<1>4. /\ worker' \in [Workers -> WorkerState]
      /\ worker'[w].pc = pc
      /\ pc # "idle" => worker'[w].op = o
      /\ \A v \in Workers \ {w} : worker'[v].pc = worker[v].pc /\ worker'[v].op = worker[v].op
      /\ gen' = NewFence
  BY <1>1, ClaimWorkers
<1>5. WorkersGoOn
  <2>1. Asked(w)' => pc # "idle"
    BY <1>4 DEF Asked
  <2> QED BY <1>1, <1>2, <1>4, <2>1 DEF WorkersGoOn, Asked
<1>6. GenTyped'
  BY <1>1, <1>4 DEF StateTyped, NewFence, GenTyped
<1>7. UNCHANGED flow \/ FlowGoes(w)
  BY DEF Claim, FlowAfter, FlowGoes
<1> QED BY <1>3, <1>5, <1>6, <1>7

\* A conclusion keeps the types and what was delivered.
LEMMA ConcludeGoesOn ==
  ASSUME StateTyped, NEW w \in Workers, Owned(w), NEW s \in {"succeeded", "retry", "exhausted"},
         NEW ref \in 0..MaxTickets, Conclude(w, s, ref)
  PROVE  RowsGoOn(w) /\ GenTyped' /\ row'[worker[w].op].status = s
<1> DEFINE o == worker[w].op
           r == [row[o] EXCEPT !.status = s, !.ref = ref, !.due = FALSE]
<1>1. o \in Ops /\ row \in [Ops -> RowState] /\ row[o] \in RowState
  BY DEF StateTyped, WorkerState
<1>2. r \in RowState /\ r.status = s
  BY <1>1 DEF RowState
<1>3. row' = [row EXCEPT ![o] = r]
  BY <1>1 DEF Conclude
<1>4. row[o].status \notin {"none", "succeeded"}
  BY DEF Owned, Active
<1>5. GenTyped'
  BY DEF Conclude, StateTyped, GenTyped
<1> HIDE DEF r
<1> QED BY <1>1, <1>2, <1>3, <1>4, <1>5, RowGoesOn

LEMMA PersistGoesOn ==
  ASSUME UntimedInv, NEW w \in Workers,
         Persist(w) \/ PersistFailure(w) \/ PersistSuperseded(w) \/ PersistDoubt(w)
  PROVE  WorkersGoOn /\ RowsGoOn(w) /\ GenTyped' /\ (UNCHANGED flow \/ FlowGoes(w))
<1>1. StateTyped /\ Asked(w)
  BY DEF UntimedInv, Persist, PersistFailure, PersistSuperseded, PersistDoubt, At, Asked
<1>2. worker[w].ref \in 0..MaxTickets /\ 0 \in 0..MaxTickets
  BY <1>1, DeliveryAssumption DEF StateTyped, WorkerState
<1>3. CASE Owned(w) /\ \E s \in {"retry", "exhausted"} : Conclude(w, s, 0) /\ Return(w, FALSE)
  BY <1>1, <1>2, <1>3, ConcludeGoesOn, EndsGoOn
<1>4. CASE Owned(w) /\ Conclude(w, "succeeded", worker[w].ref) /\ Return(w, TRUE)
  <2>1. RowsGoOn(w) /\ GenTyped' /\ row'[worker[w].op].status = "succeeded"
    BY <1>1, <1>2, <1>4, ConcludeGoesOn
  <2> QED BY <1>1, <1>4, <2>1, DoneGoesOn
<1>5. CASE UNCHANGED ledger /\ row[worker[w].op].status = "succeeded" /\ Return(w, TRUE)
  <2>1. row' = row
    BY <1>5 DEF ledger
  <2> QED BY <1>1, <1>5, <2>1, LedgerStays, DoneGoesOn
<1>6. CASE UNCHANGED ledger /\ Throw(w)
  BY <1>1, <1>6, LedgerStays, EndsGoOn
<1>7. CASE PersistDoubt(w)
  <2> DEFINE o == worker[w].op
             r == [row[o] EXCEPT !.status = "uncertain", !.due = TRUE]
  <2>1. o \in Ops /\ row \in [Ops -> RowState] /\ row[o] \in RowState
    BY <1>1 DEF StateTyped, WorkerState
  <2>2. WorkersGoOn /\ FlowGoes(w)
    BY <1>1, <1>7, EndsGoOn DEF PersistDoubt
  <2>3. GenTyped'
    BY <1>1, <1>7 DEF PersistDoubt, StateTyped, GenTyped
  <2>4. CASE row[o].status = "delivering" /\ row' = [row EXCEPT ![o].status = "uncertain", ![o].due = TRUE]
    <3>1. r \in RowState /\ row' = [row EXCEPT ![o] = r]
      BY <2>1, <2>4 DEF RowState
    <3> HIDE DEF r
    <3> QED BY <1>1, <2>1, <2>2, <2>3, <2>4, <3>1, RowGoesOn
  <2>5. CASE UNCHANGED row
    BY <1>1, <2>2, <2>3, <2>5 DEF RowsGoOn, StateTyped
  <2> QED BY <1>7, <2>4, <2>5 DEF PersistDoubt
<1>8. CASE Persist(w)
  BY <1>4, <1>5, <1>6, <1>8 DEF Persist
<1>9. CASE PersistFailure(w)
  BY <1>3, <1>6, <1>9 DEF PersistFailure
<1>10. CASE PersistSuperseded(w)
  BY <1>3, <1>6, <1>10 DEF PersistSuperseded
<1> QED BY <1>7, <1>8, <1>9, <1>10

LEMMA SettleGoesOn ==
  ASSUME UntimedInv, NEW w \in Workers,
         Terminalize(w) \/ SettleExpired(w) \/ Resolve(w)
  PROVE  WorkersGoOn /\ RowsGoOn(w) /\ GenTyped' /\ (UNCHANGED flow \/ FlowGoes(w))
<1>1. StateTyped /\ Asked(w)
  BY DEF UntimedInv, Terminalize, SettleExpired, Resolve, At, Asked
<1>2. /\ worker[w].op \in Ops /\ worker[w].ref \in 0..MaxTickets
      /\ row \in [Ops -> RowState] /\ \A o \in Ops : row[o] \in RowState
      /\ "open" \in Ops
  BY <1>1 DEF StateTyped, WorkerState, Ops
<1>3. CASE Terminalize(w)
  <2>1. row' = row /\ GenTyped'
    BY <1>1, <1>3 DEF Terminalize, StateTyped, GenTyped
  <2>2. WorkersGoOn /\ FlowGoes(w)
    BY <1>1, <1>3, <2>1, DoneGoesOn DEF Terminalize
  <2> QED BY <1>2, <2>1, <2>2 DEF RowsGoOn
<1>4. CASE SettleExpired(w)
  <2>1. GenTyped'
    BY <1>1, <1>4 DEF SettleExpired, StateTyped, GenTyped, ledger
  <2>2. WorkersGoOn /\ FlowGoes(w)
    BY <1>1, <1>4, EndsGoOn DEF SettleExpired
  <2>3. CASE row' = [o \in Ops |->
               IF row[o].gen = gen.number /\ row[o].status \in {"delivering", "uncertain"}
               THEN [row[o] EXCEPT !.status = "succeeded", !.ref = worker[w].ref]
               ELSE row[o]]
    <3>1. \A o \in Ops :
            LET r == [row[o] EXCEPT !.status = "succeeded", !.ref = worker[w].ref] IN
            r \in RowState /\ r.status = "succeeded"
      BY <1>2 DEF RowState
    <3>2. row' \in [Ops -> RowState]
      BY <1>2, <2>3, <3>1
    <3>3. \A o \in Ops : \/ row'[o] = row[o]
                         \/ row[o].status # "none" /\ row'[o].status = "succeeded"
      BY <2>3, <3>1
    <3> QED BY <1>2, <2>1, <2>2, <3>2, <3>3 DEF RowsGoOn
  <2>4. CASE row' = row
    BY <1>2, <2>1, <2>2, <2>4 DEF RowsGoOn
  <2> QED BY <1>4, <2>3, <2>4 DEF SettleExpired, ledger
<1>5. CASE Resolve(w)
  <2> DEFINE o == worker[w].op
             r == [row[o] EXCEPT !.status = "succeeded", !.ref = worker[w].ref]
  <2>1. GenTyped'
    BY <1>1, <1>5 DEF Resolve, StateTyped, GenTyped
  <2>2. CASE Active(o) /\ Return(w, TRUE)
             /\ row' = [row EXCEPT ![o].status = "succeeded", ![o].ref = worker[w].ref]
    <3>0. row' = [row EXCEPT ![o].status = "succeeded", ![o].ref = worker[w].ref]
      BY <2>2
    <3>1. r \in RowState /\ r.status = "succeeded" /\ row' = [row EXCEPT ![o] = r]
      <4>1. row[o] \in RowState
        BY <1>2
      <4>2. r \in RowState /\ r.status = "succeeded"
        BY <1>2, <4>1 DEF RowState
      <4>3. row' = [row EXCEPT ![o] = r]
        BY ONLY <3>0, <1>2
      <4> QED BY <4>2, <4>3
    <3>2. RowsGoOn(w) /\ row'[o].status = "succeeded"
      <4> HIDE DEF r
      <4> QED BY <1>1, <1>2, <2>2, <3>1, RowGoesOn DEF Active
    <3> QED BY <1>1, <2>1, <2>2, <3>2, DoneGoesOn
  <2>3. CASE Throw(w) /\ row' = row
    BY <1>1, <1>2, <2>1, <2>3, EndsGoOn DEF RowsGoOn
  <2> QED BY <1>5, <2>2, <2>3 DEF Resolve
<1> QED BY <1>3, <1>4, <1>5

\* The steps that leave the ledger alone.
LEMMA ReaderGoesOn ==
  ASSUME StateTyped, NEW w \in Workers,
         \/ ClaimConflicts(w) \/ ClaimBlocked(w) \/ ReconcileExpired(w) \/ Reconcile(w)
         \/ CheckFence(w) \/ RecheckIncident(w) \/ CheckAgain(w)
         \/ CallFinds(w) \/ CallLands(w) \/ CallRefused(w) \/ CallFails(w) \/ CallTimesOut(w)
  PROVE  WorkersGoOn /\ (UNCHANGED flow \/ FlowGoes(w))
<1>1. Asked(w)
  BY DEF ClaimConflicts, ClaimBlocked, ReconcileExpired, Reconcile, CheckFence, RecheckIncident,
         CheckAgain, CallFinds, CallLands, CallRefused, CallFails, CallTimesOut, At, Asked
<1>2. worker \in [Workers -> WorkerState] /\ worker[w] \in WorkerState
  BY DEF StateTyped
<1>3. /\ worker[w].ref \in 0..MaxTickets /\ worker[w].fence \in {"none", "own", "shared"}
      /\ row["open"].ref \in 0..MaxTickets
      /\ Len(remote) \in Nat /\ Len(remote) <= MaxTickets /\ MaxTickets \in Nat
  BY <1>2, LenProperties, DeliveryAssumption DEF WorkerState, StateTyped, RowState, Ops
<1>4. CASE Return(w, FALSE) \/ Throw(w)
  BY <1>4, EndsGoOn
<1>5. ASSUME NEW pc \in Pc \ {"idle", "recovering", "closing"}, NEW ref \in 0..MaxTickets, UNCHANGED flow,
             worker' = [worker EXCEPT ![w].pc = pc, ![w].ref = ref]
      PROVE  WorkersGoOn /\ UNCHANGED flow
  <2>1. worker' = [worker EXCEPT ![w].pc = pc, ![w].ref = ref, ![w].fence = worker[w].fence]
    BY <1>2, <1>5 DEF WorkerState
  <2>2. worker[w].fence \in {"none", "own", "shared"}
    BY <1>3
  <2>3. WorkersGoOn
    BY ONLY StateTyped, w \in Workers, pc \in Pc \ {"idle", "recovering", "closing"},
            ref \in 0..MaxTickets, <1>1, <2>1, <2>2, MovesOn
  <2> QED BY <1>5, <2>3
<1>6. ASSUME NEW pc \in Pc \ {"idle", "recovering", "closing"}, UNCHANGED flow, Goto(w, pc)
      PROVE  WorkersGoOn /\ UNCHANGED flow
  BY <1>5, <1>6, GotoIs
<1>7. CASE ClaimConflicts(w)
  BY <1>4, <1>7 DEF ClaimConflicts
<1>8. CASE ClaimBlocked(w)
  <2>1. CASE Return(w, FALSE)
    BY <1>4, <2>1
  <2>2. CASE worker' = [worker EXCEPT ![w].pc = "expired", ![w].fence = "shared"] /\ UNCHANGED flow
    <3>1. worker' = [worker EXCEPT ![w].pc = "expired", ![w].ref = worker[w].ref, ![w].fence = "shared"]
      BY <1>2, <2>2 DEF WorkerState
    <3>2. "expired" \in Pc \ {"idle", "recovering", "closing"}
      BY DEF Pc
    <3> QED BY <1>1, <1>3, <2>2, <3>1, <3>2, MovesOn
  <2> QED BY <1>8, <2>1, <2>2 DEF ClaimBlocked
<1>9. CASE ReconcileExpired(w) \/ Reconcile(w)
  <2>1. ASSUME NEW ref \in 1..Len(remote), NEW pc \in {"settling", "resolving"}, UNCHANGED flow,
               worker' = [worker EXCEPT ![w].pc = pc, ![w].ref = ref]
        PROVE  WorkersGoOn
    <3>1. ref \in 0..MaxTickets /\ pc \in Pc \ {"idle", "recovering", "closing"}
      BY <1>3, <2>1 DEF Pc
    <3> QED BY <1>5, <2>1, <3>1
  <2> QED BY <1>4, <1>9, <2>1 DEF ReconcileExpired, Reconcile
<1>10. CASE CheckFence(w) \/ RecheckIncident(w) \/ CheckAgain(w)
  <2>1. {"rechecking", "calling", "superseding", "persisting"} \subseteq Pc \ {"idle", "recovering", "closing"}
    BY DEF Pc
  <2>2. CASE CheckFence(w)
    BY <1>4, <1>6, <2>1, <2>2 DEF CheckFence
  <2>3. CASE RecheckIncident(w)
    BY <1>6, <2>1, <2>3 DEF RecheckIncident
  <2>4. CASE CheckAgain(w)
    BY <1>4, <1>6, <2>1, <2>4 DEF CheckAgain
  <2> QED BY <1>10, <2>2, <2>3, <2>4
<1>11. CASE CallFinds(w) \/ CallLands(w)
  <2>1. \E ref \in 0..MaxTickets : Called(w, ref)
    <3>1. CASE CallFinds(w)
      BY <1>3, <3>1 DEF CallFinds
    <3>2. CASE CallLands(w)
      BY <1>3, <3>2 DEF CallLands, Lands, Request
    <3> QED BY <1>11, <3>1, <3>2
  <2>2. "called" \in Pc \ {"idle", "recovering", "closing"} /\ UNCHANGED flow
    BY <1>11 DEF Pc, CallFinds, CallLands
  <2> QED BY <1>5, <2>1, <2>2 DEF Called
<1>12. CASE CallRefused(w) \/ CallFails(w) \/ CallTimesOut(w)
  <2>1. {"superseding", "failing", "doubting"} \subseteq Pc \ {"idle", "recovering", "closing"}
    BY DEF Pc
  <2>2. \E pc \in {"superseding", "failing", "doubting"} : Goto(w, pc) /\ UNCHANGED flow
    BY <1>12 DEF CallRefused, CallFails, CallTimesOut
  <2> QED BY <1>6, <2>1, <2>2
<1> QED BY <1>7, <1>8, <1>9, <1>10, <1>11, <1>12

\* Every step of a delivery, and every failure of one.
LEMMA DeliveryGoesOn ==
  ASSUME UntimedInv, NEW w \in Workers,
         Deliver(w) \/ CallFails(w) \/ CallTimesOut(w) \/ Crash(w)
  PROVE  UntimedInv'
<1>1. StateTyped
  BY DEF UntimedInv
<1>2. faults' \in 0..MaxFaults
  <2>1. Fault \/ faults' = faults
    BY DEF Deliver, Claim, ClaimConflicts, ClaimBlocked, Terminalize, ReconcileExpired,
           SettleExpired, Reconcile, Resolve, CheckFence, RecheckIncident, CheckAgain, CallFinds,
           CallLands, CallRefused, Persist, PersistFailure, PersistSuperseded, PersistDoubt,
           CallFails, CallTimesOut, Crash
  <2> QED BY <1>1, <2>1, DeliveryAssumption DEF Fault, StateTyped
<1>3. UNCHANGED incident
  BY DEF Deliver, Claim, ClaimConflicts, ClaimBlocked, Terminalize, ReconcileExpired,
         SettleExpired, Reconcile, Resolve, CheckFence, RecheckIncident, CheckAgain, CallFinds,
         CallLands, CallRefused, Persist, PersistFailure, PersistSuperseded, PersistDoubt,
         CallFails, CallTimesOut, Crash
<1>4. CASE CallLands(w)
  <2>1. UNCHANGED ledger /\ Lands(Request(w)) /\ UNCHANGED <<kind, wire>>
    BY <1>4 DEF CallLands
  <2>2. RemoteTyped' /\ WireTyped'
    BY <1>1, <2>1, RequestTyped, LandsTyped DEF StateTyped, WireTyped
  <2> QED BY <1>1, <1>2, <1>3, <1>4, <2>1, <2>2, ReaderGoesOn, LedgerStays, TypesGoOn
<1>5. CASE CallTimesOut(w) \/ CallFails(w) \/ Crash(w)
  <2>1. /\ UNCHANGED <<incident, ledger, kind, remote>>
        /\ Sends(w) \/ UNCHANGED wire
        /\ CallTimesOut(w) \/ CallFails(w) \/ Throw(w)
    BY <1>5 DEF CallTimesOut, CallFails, Crash, ledger
  <2>2. WorkersGoOn /\ (UNCHANGED flow \/ FlowGoes(w))
    BY <1>1, <2>1, ReaderGoesOn, EndsGoOn
  <2>3. WireTyped' /\ RemoteTyped'
    BY <1>1, <2>1, SendsTyped DEF StateTyped, RemoteTyped
  <2> QED BY <1>1, <1>2, <1>3, <2>1, <2>2, <2>3, LedgerStays, TypesGoOn
<1>6. CASE \/ ClaimConflicts(w) \/ ClaimBlocked(w) \/ ReconcileExpired(w) \/ Reconcile(w)
           \/ CheckFence(w) \/ RecheckIncident(w) \/ CheckAgain(w)
           \/ CallFinds(w) \/ CallRefused(w)
  <2>1. UNCHANGED ledger /\ UNCHANGED provider
    BY <1>6 DEF ClaimConflicts, ClaimBlocked, ReconcileExpired, Reconcile, CheckFence,
                RecheckIncident, CheckAgain, CallFinds, CallRefused, ledger
  <2>2. WorkersGoOn /\ (UNCHANGED flow \/ FlowGoes(w))
    BY <1>1, <1>6, ReaderGoesOn
  <2> QED BY <1>1, <1>2, <1>3, <2>1, <2>2, LedgerStays, ProviderStays, TypesGoOn
<1>7. CASE \/ Claim(w) \/ Terminalize(w) \/ SettleExpired(w) \/ Resolve(w)
           \/ Persist(w) \/ PersistFailure(w) \/ PersistSuperseded(w) \/ PersistDoubt(w)
  <2>1. UNCHANGED provider
    BY <1>7 DEF Claim, Terminalize, SettleExpired, Resolve, Persist, PersistFailure,
                PersistSuperseded, PersistDoubt
  <2>2. WorkersGoOn /\ RowsGoOn(w) /\ GenTyped' /\ (UNCHANGED flow \/ FlowGoes(w))
    BY <1>7, ClaimGoesOn, SettleGoesOn, PersistGoesOn
  <2> QED BY <1>1, <1>2, <1>3, <2>1, <2>2, ProviderStays, TypesGoOn
<1> QED BY <1>4, <1>5, <1>6, <1>7 DEF Deliver

IncidentTyped == status \in Status /\ version \in Versions \ {0} /\ approved \in BOOLEAN

LEMMA MoveTyped ==
  ASSUME StateTyped, NEW s \in Status, MoveTo(s)
  PROVE  IncidentTyped' /\ status' = s /\ approved' = (approved \/ s = "approved")
<1>1. version \in Nat \ {0} /\ MaxVersion \in Nat /\ approved \in BOOLEAN
  BY DeliveryAssumption DEF StateTyped, Versions
<1>2. version' \in Versions \ {0}
  BY <1>1 DEF MoveTo, Versions
<1> QED BY <1>1, <1>2 DEF MoveTo, IncidentTyped

LEMMA IncidentKept ==
  ASSUME StateTyped, UNCHANGED incident
  PROVE  IncidentTyped' /\ UNCHANGED <<status, version, approved>>
BY DEF StateTyped, IncidentTyped, incident

\* The run moves on.
LEMMA RunGoesOn ==
  ASSUME UntimedInv, Decide \/ Resume \/ Contain \/ Finalize
  PROVE  UntimedInv'
<1> USE DEF UntimedInv
<1>1. UNCHANGED <<row, gen, kind, remote, wire, faults, worker>>
  BY DEF Decide, Resume, Contain, Finalize, ledger, provider
<1>2. {"approved", "rejected", "failed", "containing", "contained", "closed"} \subseteq Status
  BY DEF Status
<1>3. \A v \in Workers, o \in Ops : AskedFor(v, o)' <=> AskedFor(v, o)
  BY <1>1 DEF AskedFor, Asked
<1>4. ASSUME IncidentTyped',
             flow' \in {"opening", "waiting", "executing", "closing", "over"} \cup Finals,
             flow' = "opening" => flow = "opening",
             status' = "awaiting_approval" => ~approved', Past' => Past
      PROVE  UntimedInv'
  <2>1. StateTyped'
    BY <1>1, <1>4 DEF StateTyped, IncidentTyped
  <2>2. RunAsks'
    BY <1>1, <1>4 DEF RunAsks, Asked
  <2> QED BY <1>1, <1>4, <2>1, <2>2
<1>5. flow \in {"opening", "waiting", "executing", "closing", "over"} \cup Finals /\ approved \in BOOLEAN
  BY DEF StateTyped
<1>6. CASE Decide
  <2>1. PICK s \in {"approved", "rejected", "failed"} : MoveTo(s)
    BY <1>6 DEF Decide
  <2>2. ~approved /\ UNCHANGED flow
    BY <1>6 DEF Decide
  <2>3. IncidentTyped' /\ status' = s /\ approved' = (s = "approved")
    BY <1>2, <2>1, <2>2, MoveTyped
  <2>4. Past' => Past
    BY <1>1, <1>3, <2>2, <2>3 DEF Past, Finals, Ops
  <2> QED BY <1>4, <1>5, <2>2, <2>3, <2>4
<1>7. CASE Resume
  <2>1. Past
    BY <1>7 DEF Resume, Past
  <2>2. flow' \in {"executing", "rejected", "over"}
    BY <1>7 DEF Resume
  <2>3. IncidentTyped' /\ (UNCHANGED <<status, approved>> \/ status' = "containing")
    BY <1>2, <1>7, MoveTyped, IncidentKept DEF Resume
  <2> QED BY <1>4, <2>1, <2>2, <2>3 DEF Finals
<1>8. CASE Contain
  <2>1. Past
    BY <1>8 DEF Contain, Past
  <2>2. flow' \in {"contained", "failed"}
    BY <1>8 DEF Contain
  <2>3. IncidentTyped' /\ (UNCHANGED <<status, approved>> \/ status' \in {"contained", "failed"})
    BY <1>2, <1>8, MoveTyped, IncidentKept DEF Contain
  <2> QED BY <1>4, <2>1, <2>2, <2>3 DEF Finals
<1>9. CASE Finalize
  <2>1. Past /\ flow' = "over"
    BY <1>9 DEF Finalize, Past
  <2>2. IncidentTyped' /\ (UNCHANGED <<status, approved>> \/ status' = "closed")
    BY <1>2, <1>9, MoveTyped, IncidentKept DEF Finalize
  <2> QED BY <1>4, <2>1, <2>2
<1> QED BY <1>6, <1>7, <1>8, <1>9

\* A delivery is asked for; that of a final operation only past the opening.
LEMMA AskGoesOn ==
  ASSUME UntimedInv, NEW w \in Workers, NEW o \in Ops, NEW p \in Status, Ask(w, o, p),
         UNCHANGED <<flow, ledger, provider, faults>>, IncidentTyped',
         status' = "awaiting_approval" => ~approved', o \in Finals \/ ~UNCHANGED incident => Past,
         w = Flow => (flow = "opening" => o = "open")
  PROVE  UntimedInv'
<1> USE DEF UntimedInv
<1> DEFINE r == [Idle EXCEPT !.pc = "claiming", !.op = o, !.proj = p]
<1>1. r \in WorkerState /\ r.pc = "claiming" /\ r.op = o
  BY IdleState DEF WorkerState, Pc, Idle
<1>2. worker' = [worker EXCEPT ![w] = r] /\ worker \in [Workers -> WorkerState]
  BY DEF Ask, StateTyped
<1>3. /\ worker' \in [Workers -> WorkerState]
      /\ \A v \in Workers : worker'[v] = IF v = w THEN r ELSE worker[v]
  <2> HIDE DEF r
  <2> QED BY <1>1, <1>2
<1>4. UNCHANGED <<flow, row, gen, kind, remote, wire, faults>>
  BY DEF ledger, provider
<1>5. StateTyped'
  BY <1>3, <1>4 DEF StateTyped, IncidentTyped
<1>6. RunAsks'
  <2>1. Flow \in Workers
    BY DEF Workers
  <2> HIDE DEF r
  <2> QED BY <1>1, <1>3, <1>4, <2>1 DEF RunAsks, Asked
<1>7. \A v \in Workers, a \in Finals : AskedFor(v, a)' => AskedFor(v, a) \/ o \in Finals
  <2> HIDE DEF r
  <2> QED BY <1>1, <1>3 DEF AskedFor, Asked
<1>8. Past' => Past
  BY <1>4, <1>7 DEF Past, incident
<1> QED BY <1>4, <1>5, <1>6, <1>8

\* A worker that was asked for nothing is moved; the incident may move with it.
LEMMA IdleGoesOn ==
  ASSUME UntimedInv, NEW l \in Loops, NEW pc \in {"idle", "recovering", "closing"}, Goto(l, pc),
         UNCHANGED <<flow, ledger, provider, faults>>, IncidentTyped',
         status' = "awaiting_approval" => ~approved', UNCHANGED incident \/ Past
  PROVE  UntimedInv'
<1> USE DEF UntimedInv
<1>1. l \in Workers /\ Flow \in Workers /\ l # Flow /\ worker \in [Workers -> WorkerState]
  BY DeliveryAssumption DEF Workers, StateTyped
<1>2. worker' \in [Workers -> WorkerState] /\ worker'[l].pc = pc
      /\ \A v \in Workers \ {l} : worker'[v] = worker[v]
  BY <1>1 DEF Goto, WorkerState, Pc
<1>3. UNCHANGED <<flow, row, gen, kind, remote, wire, faults>>
  BY DEF ledger, provider
<1>4. StateTyped'
  BY <1>2, <1>3 DEF StateTyped, IncidentTyped
<1>5. RunAsks'
  BY <1>1, <1>2, <1>3 DEF RunAsks, Asked
<1>6. \A v \in Workers, o \in Ops : AskedFor(v, o)' => AskedFor(v, o)
  BY <1>2 DEF AskedFor, Asked
<1>7. Past' => Past
  BY <1>3, <1>6 DEF Past, Finals, Ops, incident
<1> QED BY <1>3, <1>4, <1>5, <1>7

LEMMA LoopsGoOn ==
  ASSUME UntimedInv, NEW w \in Workers,
         RecoverContainment(w) \/ CloseRecovered(w) \/ DeliverOne(w) \/ RetryContainment(w)
  PROVE  UntimedInv'
<1> USE DEF UntimedInv
<1>1. UNCHANGED <<flow, ledger, provider, faults>>
  BY DEF RecoverContainment, CloseRecovered, DeliverOne, RetryContainment
<1>2. w \in Loops /\ w # Flow
  <2>1. w # Flow
    BY DeliveryAssumption DEF RecoverContainment, CloseRecovered, DeliverOne, RetryContainment, RunAsks, At
  <2> QED BY <2>1 DEF Workers
<1>3. {"containing", "contained", "failed", "closed"} \subseteq Status
      /\ Finals \subseteq Ops /\ "contained" \in Finals
  BY DEF Status, Ops, Finals
<1>4. UNCHANGED incident => IncidentTyped' /\ (status' = "awaiting_approval" => ~approved')
  BY IncidentKept
<1>5. ASSUME NEW s \in {"containing", "contained", "failed", "closed"}, MoveTo(s)
      PROVE  IncidentTyped' /\ status' # "awaiting_approval"
  BY <1>3, <1>5, MoveTyped
<1>6. CASE RecoverContainment(w)
  <2>1. UNCHANGED incident \/ (Past /\ \E s \in {"contained", "failed"} : MoveTo(s))
    BY <1>6 DEF RecoverContainment, Past
  <2>2. \E pc \in {"idle", "closing"} : Goto(w, pc)
    BY <1>6 DEF RecoverContainment
  <2> QED BY <1>1, <1>2, <1>4, <1>5, <2>1, <2>2, IdleGoesOn
<1>7. CASE RetryContainment(w)
  <2>1. UNCHANGED incident \/ (Past /\ MoveTo("containing"))
    BY <1>7 DEF RetryContainment, Past
  <2>2. \E pc \in {"recovering", "closing"} : Goto(w, pc)
    BY <1>7 DEF RetryContainment
  <2> QED BY <1>1, <1>2, <1>4, <1>5, <2>1, <2>2, IdleGoesOn
<1>8. CASE CloseRecovered(w)
  <2>1. CASE MoveTo("closed") /\ Ask(w, "contained", "closed") /\ status = "contained"
    <3>1. Past
      BY <2>1 DEF Past
    <3> QED BY <1>1, <1>2, <1>3, <1>5, <2>1, <3>1, AskGoesOn
  <2>2. CASE UNCHANGED incident /\ Goto(w, "idle")
    BY <1>1, <1>2, <1>4, <2>2, IdleGoesOn
  <2> QED BY <1>8, <2>1, <2>2 DEF CloseRecovered
<1>9. CASE DeliverOne(w)
  <2>1. PICK o \in Ops : Waits(o) /\ Ask(w, o, row[o].proj)
    BY <1>9 DEF DeliverOne, First
  <2>2. row[o].proj \in Status /\ UNCHANGED incident
    BY <1>9 DEF StateTyped, RowState, DeliverOne
  <2>3. o \in Finals => Past
    BY <2>1 DEF Waits, Active, Past
  <2> QED BY <1>1, <1>2, <1>4, <2>1, <2>2, <2>3, AskGoesOn
<1> QED BY <1>6, <1>7, <1>8, <1>9

LEMMA CallStepGoesOn ==
  ASSUME UntimedInv, CallStep
  PROVE  UntimedInv'
<1> DEFINE o == IF flow = "opening" THEN "open" ELSE flow
<1>1. StateTyped /\ Flow \in Workers /\ o \in Ops /\ status \in Status
  BY DEF UntimedInv, CallStep, Ops, Workers, StateTyped
<1>2. Ask(Flow, o, status) /\ UNCHANGED <<flow, ledger, provider, faults>> /\ UNCHANGED incident
  BY DEF CallStep
<1>3. o \in Finals => Past
  BY DEF CallStep, Past, Finals
<1>4. IncidentTyped' /\ (status' = "awaiting_approval" => ~approved')
  BY <1>1, <1>2, IncidentKept DEF UntimedInv
<1>5. flow = "opening" => o = "open"
  OBVIOUS
<1> HIDE DEF o
<1> QED BY <1>1, <1>2, <1>3, <1>4, <1>5, AskGoesOn

\* Time passes, and so may an abandoned request.
LEMMA TimeGoesOn ==
  ASSUME UntimedInv, Time \/ UNCHANGED vars
  PROVE  UntimedInv'
<1> USE DEF UntimedInv
<1>1. UNCHANGED <<status, version, approved, flow, kind, worker>> /\ faults' \in 0..MaxFaults
  <2>1. UNCHANGED <<status, version, approved, flow, kind, worker>>
    BY DEF Time, LeaseLapses, Lapses, Overrun, WireDelivers, RowDue, FallsDue, incident, provider, vars
  <2>2. UNCHANGED faults \/ Fault
    BY DEF Time, LeaseLapses, Overrun, WireDelivers, RowDue, vars
  <2> QED BY <2>1, <2>2, DeliveryAssumption DEF Fault, StateTyped
<1>2. ASSUME row' \in [Ops -> RowState], \A o \in Ops : row'[o].status = row[o].status,
             GenTyped', RemoteTyped', WireTyped'
      PROVE  UntimedInv'
  <2>1. StateTyped'
    BY <1>1, <1>2 DEF StateTyped, GenTyped, RemoteTyped, WireTyped
  <2>2. (Past' <=> Past) /\ RunAsks'
    BY <1>1, <1>2 DEF Past, RunAsks, AskedFor, Asked, Finals, Ops
  <2> QED BY <1>1, <1>2, <2>1, <2>2 DEF Ops
<1>3. CASE Lapses
  <2>1. UNCHANGED <<row, remote, wire>> /\ GenTyped'
    BY <1>3 DEF Lapses, provider, GenTyped, StateTyped
  <2> QED BY <1>2, <2>1 DEF StateTyped, RemoteTyped, WireTyped
<1>4. CASE WireDelivers
  <2>1. PICK q \in wire : wire' = wire \ {q} /\ (Lands(q) \/ UNCHANGED remote)
    BY <1>4 DEF WireDelivers
  <2>2. UNCHANGED <<row, gen>>
    BY <1>4 DEF WireDelivers, ledger
  <2>3. q \in [op : Ops, gen : Versions, proj : Status, ref : 0..MaxTickets] /\ WireTyped'
    BY <2>1 DEF StateTyped, WireTyped
  <2>4. RemoteTyped'
    <3>1. CASE Lands(q)
      BY <2>3, <3>1, LandsTyped
    <3>2. CASE UNCHANGED remote
      BY <3>2 DEF StateTyped, RemoteTyped
    <3> QED BY <2>1, <3>1, <3>2
  <2> QED BY <1>2, <2>2, <2>3, <2>4 DEF StateTyped, GenTyped
<1>5. ASSUME NEW o \in Ops, FallsDue(o)
      PROVE  UntimedInv'
  <2>1. row' = [row EXCEPT ![o].due = TRUE] /\ UNCHANGED <<gen, remote, wire>>
    BY <1>5 DEF FallsDue, provider
  <2>2. row' \in [Ops -> RowState] /\ \A a \in Ops : row'[a].status = row[a].status
    <3>1. row \in [Ops -> RowState] /\ row[o] \in RowState
      BY DEF StateTyped
    <3>2. [row[o] EXCEPT !.due = TRUE] \in RowState
      BY <3>1 DEF RowState
    <3>3. row' = [row EXCEPT ![o] = [row[o] EXCEPT !.due = TRUE]]
      BY ONLY <2>1, <3>1
    <3>4. [row[o] EXCEPT !.due = TRUE].status = row[o].status
      BY <3>1 DEF RowState
    <3> QED BY ONLY <3>1, <3>2, <3>3, <3>4, o \in Ops
  <2>3. GenTyped' /\ RemoteTyped' /\ WireTyped'
    BY <2>1 DEF StateTyped, GenTyped, RemoteTyped, WireTyped
  <2> QED BY <1>2, <2>2, <2>3
<1>6. CASE UNCHANGED vars
  <2>1. UNCHANGED <<row, gen, remote, wire>>
    BY <1>6 DEF vars
  <2> QED BY <1>2, <2>1 DEF StateTyped, GenTyped, RemoteTyped, WireTyped
<1> QED BY <1>3, <1>4, <1>5, <1>6 DEF Time, LeaseLapses, Overrun, RowDue

\* However late a request arrives or a writer comes back, and whenever a lease ends,
\* nothing gets past the opening of the ticket before its row is delivered.
THEOREM UntimedInvariance == Spec => []UntimedInv
<1>1. Init => UntimedInv
  <2> SUFFICES ASSUME Init PROVE UntimedInv
    OBVIOUS
  <2>1. TicketInv /\ Flow \in Workers
    BY InitHolds DEF Workers
  <2>2. worker[Flow] = Idle /\ Idle.pc = "idle"
    BY <2>1 DEF Init, Idle
  <2> QED BY <2>1, <2>2 DEF TicketInv, OpenFirst, Init, UntimedInv, RunAsks, Asked
<1>2. UntimedInv /\ [Next]_vars => UntimedInv'
  <2> SUFFICES ASSUME UntimedInv, [Next]_vars PROVE UntimedInv'
    OBVIOUS
  <2>1. CASE Decide \/ Run
    BY <2>1, RunGoesOn, CallStepGoesOn DEF Run
  <2>2. CASE Time \/ UNCHANGED vars
    BY <2>2, TimeGoesOn
  <2>3. ASSUME NEW w \in Workers,
               \/ Work(w) \/ CallFails(w) \/ CallTimesOut(w) \/ Crash(w)
               \/ DeliverOne(w) \/ RetryContainment(w)
        PROVE  UntimedInv'
    BY <2>3, DeliveryGoesOn, LoopsGoOn DEF Work
  <2> QED BY <2>1, <2>2, <2>3 DEF Next
<1> QED BY <1>1, <1>2, PTL DEF Spec

-----------------------------------------------------------------------------
(* What the provider holds and the rows refer to, however late it arrives.   *)

Referring == {"called", "persisting", "resolving", "settling"}
Rowed == Working \cup {"reconciling", "resolving"}

\* A reference to something that is there, and the mock's to nothing older.
Reaches(o, ref) == ref \in Places /\ (kind = "mock" => remote[ref].gen >= row[o].gen)
RefsReach ==
  /\ \A o \in Ops : row[o].status = "succeeded" => Reaches(o, row[o].ref)
  /\ \A w \in Workers : worker[w].pc \in Referring => Reaches(worker[w].op, worker[w].ref)

\* A write or a request has the generation of its row, which is never another one.
Carries(x) == row[x.op].status # "none" /\ x.gen = row[x.op].gen
MockFits ==
  kind = "mock" =>
    /\ \A o \in Ops : row[o].status # "none" => row[o].gen >= 1
    /\ \A i, j \in Places : i < j => remote[i].gen < remote[j].gen
    /\ \A i \in Places : Carries(remote[i])
    /\ \A q \in wire : Carries(q)
    /\ \A w \in Workers : /\ worker[w].pc \in Rowed => row[worker[w].op].status # "none"
                          /\ worker[w].pc \notin {"expired", "settling"}

RemoteInv == RefsReach /\ MockFits

\* Rows keep their generation, and one that gets delivered refers to what is there.
RowsStay ==
  \A o \in Ops :
    /\ row[o].status # "none" => row'[o].status # "none" /\ row'[o].gen = row[o].gen
    /\ row[o].status = "none" /\ row'[o].status # "none" => row'[o].gen >= 1
    /\ row'[o].status = "succeeded" =>
         \/ row[o].status = "succeeded" /\ row'[o].ref = row[o].ref
         \/ Reaches(o, row[o].ref)'

WorkersStay ==
  \A v \in Workers :
    /\ worker'[v].pc \in Rowed =>
         \/ worker[v].pc \in Rowed /\ worker'[v].op = worker[v].op
         \/ row'[worker'[v].op].status # "none"
    /\ worker'[v].pc \in Referring =>
         \/ /\ worker[v].pc \in Referring
            /\ worker'[v].op = worker[v].op /\ worker'[v].ref = worker[v].ref
         \/ Reaches(worker[v].op, worker[v].ref)'
    /\ kind = "mock" /\ worker'[v].pc \in {"expired", "settling"} =>
         worker[v].pc \in {"expired", "settling"}

\* Nothing disappears, and what is new is the newest.
RemoteStays ==
  /\ kind' = kind
  /\ \A i \in Places : i \in Places' /\ (kind = "mock" => remote'[i] = remote[i])
  /\ kind = "mock" =>
       /\ \A i, j \in Places' : i < j => remote'[i].gen < remote'[j].gen
       /\ \A i \in Places' : i \in Places \/ Carries(remote[i])'
       /\ \A q \in wire' : q \in wire \/ Carries(q)'

LEMMA RemoteKeeps ==
  ASSUME StateTyped, StateTyped', RemoteInv, RowsStay, WorkersStay, RemoteStays
  PROVE  RemoteInv'
<1>1. /\ \A v \in Workers : worker[v].op \in Ops /\ worker'[v].op \in Ops
      /\ \A q \in wire : q.op \in Ops
      /\ \A i \in Places : remote[i].op \in Ops
  BY WritesAreWrites DEF StateTyped, WorkerState, Write
<1>2. \A o \in Ops : row'[o].status = "succeeded" => Reaches(o, row[o].ref)'
  BY DEF RemoteInv, RefsReach, RowsStay, RemoteStays, Reaches
<1>3. ASSUME NEW v \in Workers, worker'[v].pc \in Referring
      PROVE  Reaches(worker[v].op, worker[v].ref)'
  <2>1. CASE /\ worker[v].pc \in Referring
             /\ worker'[v].op = worker[v].op /\ worker'[v].ref = worker[v].ref
    <3>1. Reaches(worker[v].op, worker[v].ref)
      BY <2>1 DEF RemoteInv, RefsReach
    <3>2. kind = "mock" => row[worker[v].op].status # "none"
      BY <2>1 DEF RemoteInv, MockFits, Referring, Rowed, Working
    <3>3. kind = "mock" => row'[worker[v].op].gen = row[worker[v].op].gen
      BY <1>1, <3>2 DEF RowsStay
    <3> QED BY <2>1, <3>1, <3>3 DEF RemoteStays, Reaches
  <2> QED BY <1>3, <2>1 DEF WorkersStay
<1>4. MockFits'
  <2> SUFFICES ASSUME kind = "mock" PROVE MockFits'
    BY DEF MockFits, RemoteStays
  <2> USE DEF RemoteInv, MockFits
  <2>1. \A i \in Places' : Carries(remote[i])'
    BY <1>1 DEF RemoteStays, RowsStay, Carries
  <2>2. \A q \in wire' : Carries(q)'
    BY <1>1 DEF RemoteStays, RowsStay, Carries
  <2>3. \A v \in Workers : /\ worker'[v].pc \in Rowed => row'[worker'[v].op].status # "none"
                           /\ worker'[v].pc \notin {"expired", "settling"}
    BY <1>1 DEF WorkersStay, RowsStay
  <2>4. \A o \in Ops : row'[o].status # "none" => row'[o].gen >= 1
    BY DEF RowsStay
  <2> QED BY <2>1, <2>2, <2>3, <2>4 DEF RemoteStays
<1> QED BY <1>2, <1>3, <1>4 DEF RemoteInv, RefsReach

LEMMA OneStays ==
  ASSUME StateTyped, NEW w \in Workers, NEW r, worker' = [worker EXCEPT ![w] = r],
         r.pc \in Rowed =>
           (worker[w].pc \in Rowed /\ r.op = worker[w].op) \/ row'[r.op].status # "none",
         r.pc \in Referring =>
           \/ worker[w].pc \in Referring /\ r.op = worker[w].op /\ r.ref = worker[w].ref
           \/ r.ref \in Places' /\ (kind' = "mock" => remote'[r.ref].gen >= row'[r.op].gen),
         kind = "mock" /\ r.pc \in {"expired", "settling"} =>
           worker[w].pc \in {"expired", "settling"}
  PROVE  WorkersStay
<1>1. \A v \in Workers : worker'[v] = IF v = w THEN r ELSE worker[v]
  BY DEF StateTyped
<1> QED BY <1>1 DEF WorkersStay, Reaches

\* A worker at rest refers to nothing.
LEMMA RestStays ==
  ASSUME StateTyped, NEW w \in Workers, NEW r, worker' = [worker EXCEPT ![w] = r],
         r.pc \in {"idle", "recovering", "closing", "claiming"}
  PROVE  WorkersStay
<1>1. r.pc \notin Rowed /\ r.pc \notin Referring /\ r.pc \notin {"expired", "settling"}
  BY DEF Rowed, Referring, Working
<1> QED BY <1>1, OneStays

LEMMA EndStays ==
  ASSUME StateTyped, NEW w \in Workers, Return(w, FALSE) \/ Return(w, TRUE) \/ Throw(w)
  PROVE  WorkersStay
BY RestStays DEF Return, Throw, Idle

\* A worker goes on under its row, with what it refers to or with something found.
LEMMA GoesStays ==
  ASSUME StateTyped, NEW w \in Workers, worker[w].pc \in Rowed, NEW pc \in Working \cup {"resolving"},
         NEW ref, worker' = [worker EXCEPT ![w].pc = pc, ![w].ref = ref],
         pc \in Referring =>
           \/ worker[w].pc \in Referring /\ ref = worker[w].ref
           \/ ref \in Places' /\ (kind' = "mock" => remote'[ref].gen >= row'[worker[w].op].gen)
  PROVE  WorkersStay
<1> DEFINE r == [worker[w] EXCEPT !.pc = pc, !.ref = ref]
<1>1. worker \in [Workers -> WorkerState] /\ worker[w] \in WorkerState
  BY DEF StateTyped
<1>2. r.pc = pc /\ r.op = worker[w].op /\ r.ref = ref /\ worker' = [worker EXCEPT ![w] = r]
  BY <1>1 DEF WorkerState
<1>3. pc \notin {"expired", "settling"}
  BY DEF Working
<1> HIDE DEF r
<1> QED BY <1>2, <1>3, OneStays

LEMMA WorkersSame ==
  ASSUME UNCHANGED worker
  PROVE  WorkersStay
BY DEF WorkersStay

LEMMA RowsSame ==
  ASSUME UNCHANGED row
  PROVE  RowsStay
BY DEF RowsStay

\* A row that is there is taken, put off or concluded.
LEMMA RowStays ==
  ASSUME StateTyped, NEW p \in Ops, NEW r, row' = [row EXCEPT ![p] = r],
         row[p].status # "none" /\ r.status # "none" /\ r.gen = row[p].gen,
         r.status = "succeeded" =>
           \/ row[p].status = "succeeded" /\ r.ref = row[p].ref
           \/ r.ref \in Places' /\ (kind' = "mock" => remote'[r.ref].gen >= r.gen)
  PROVE  RowsStay
<1>1. \A o \in Ops : row'[o] = IF o = p THEN r ELSE row[o]
  BY DEF StateTyped
<1> QED BY <1>1 DEF RowsStay, Reaches

LEMMA RemoteSame ==
  ASSUME MockFits, UNCHANGED provider
  PROVE  RemoteStays /\ Places' = Places
BY DEF RemoteStays, provider, Places, MockFits

\* A request is sent under its row.
LEMMA SendsStay ==
  ASSUME MockFits, NEW w \in Workers, Sends(w) \/ UNCHANGED wire, UNCHANGED <<kind, remote, row>>
  PROVE  RemoteStays /\ Places' = Places
<1>1. Places' = Places
  BY DEF Places
<1>2. At(w, "calling") /\ kind = "mock" => Carries(Request(w))
  BY DEF MockFits, At, Rowed, Working, Carries, Request
<1>3. \A q \in wire' : q \in wire \/ (At(w, "calling") /\ q = Request(w))
  BY DEF Sends
<1>4. kind = "mock" => \A q \in wire' : q \in wire \/ Carries(q)'
  <2> SUFFICES ASSUME kind = "mock", NEW q \in wire', q \notin wire PROVE Carries(q)'
    OBVIOUS
  <2>1. Carries(q)
    BY <1>2, <1>3
  <2> QED BY <2>1 DEF Carries
<1> QED BY <1>1, <1>4 DEF RemoteStays, MockFits

LEMMA LandsStay ==
  ASSUME StateTyped, MockFits, NEW q \in [op : Ops, gen : Versions, proj : Status, ref : 0..MaxTickets],
         Lands(q), UNCHANGED <<kind, row>>, wire' \subseteq wire,
         kind = "mock" => Storable(q) /\ Carries(q)
  PROVE  /\ RemoteStays
         /\ Newest' \in Nat /\ Opened' \in {Opened, Opened + 1}
         /\ kind = "mock" => Newest' > Newest /\ Opened' = 1
         /\ ~(kind = "linear" /\ q.op # "open") =>
              Len(remote) + 1 \in Places' /\ remote'[Len(remote) + 1].gen = q.gen
<1>1. /\ remote \in Seq(Write) /\ Len(remote) \in Nat /\ Written(q) \in Write
      /\ Written(q).gen = q.gen /\ Written(q).op = q.op /\ q.gen \in Nat
      /\ kind \in {"linear", "mock"}
  BY LenProperties, DeliveryAssumption DEF StateTyped, Written, Write, Versions
<1>2. \A i \in Places : remote[i] \in Write /\ remote[i].gen \in Nat
  BY WritesAreWrites DEF Write, Versions
<1>3. RemoteTyped'
  BY LandsTyped
<1>4. Newest' \in Nat /\ (remote' = <<>> <=> Len(remote') = 0) /\ Len(remote') \in Nat
      /\ (remote = <<>> <=> Len(remote) = 0)
  <2>1. remote' \in Seq(Write) /\ Len(remote') \in Nat
    BY <1>3, LenProperties DEF RemoteTyped
  <2>2. \A s \in Seq(Write) : s = <<>> <=> Len(s) = 0
    BY EmptySeq
  <2>3. remote' # <<>> => remote'[Len(remote')] \in Write
    <3>1. remote' # <<>> => Len(remote') \in 1..Len(remote')
      BY <2>1, <2>2
    <3> QED BY <2>1, <3>1, ElementOfSeq
  <2> QED BY <1>1, <2>1, <2>2, <2>3 DEF Newest, Write, Versions
<1>5. CASE kind = "linear" /\ q.op # "open"
  <2>1. remote' = [remote EXCEPT ![q.ref] = Written(q)]
    BY <1>5 DEF Lands
  <2>2. Len(remote') = Len(remote)
    <3>1. remote \in [1..Len(remote) -> Write]
      BY <1>1, LenProperties
    <3>2. remote' \in [1..Len(remote) -> Write]
      BY <1>1, <2>1, <3>1
    <3>3. remote' \in Seq(Write)
      BY <1>3 DEF RemoteTyped
    <3> QED BY <1>1, <3>2, <3>3, LenProperties
  <2> QED BY <1>4, <1>5, <2>2 DEF Opened, RemoteStays, Places
<1>6. CASE ~(kind = "linear" /\ q.op # "open")
  <2> DEFINE n == Len(remote) + 1
  <2>1. remote' = Append(remote, Written(q))
    BY <1>6 DEF Lands
  <2>2. /\ Len(remote') = n
        /\ \A i \in Places : remote'[i] = remote[i]
        /\ remote'[n] = Written(q)
    BY <1>1, <2>1, AppendProperties DEF Places
  <2>3. Places' = Places \cup {n} /\ n \notin Places /\ \A i \in Places : i \in Nat /\ i < n
    BY <1>1, <2>2 DEF Places
  <2>4. kind = "mock" => \A i \in Places : remote[i].gen < q.gen
    BY DEF Storable, Places
  <2>5. RemoteStays
    <3>1. kind = "mock" => \A i, j \in Places' : i < j => remote'[i].gen < remote'[j].gen
      BY <1>1, <2>2, <2>3, <2>4 DEF MockFits
    <3>2. kind = "mock" => \A i \in Places' : i \in Places \/ Carries(remote[i])'
      BY <1>1, <2>2, <2>3 DEF Carries
    <3> QED BY <2>2, <2>3, <3>1, <3>2 DEF RemoteStays
  <2>6. kind = "mock" => Newest' > Newest
    <3>1. Newest' = q.gen
      BY <1>1, <1>4, <2>2 DEF Newest
    <3>2. CASE remote = <<>>
      <4>1. Newest = 0
        BY <3>2 DEF Newest
      <4>2. kind = "mock" => q.gen >= 1
        BY DEF MockFits, Carries
      <4> QED BY <1>1, <3>1, <4>1, <4>2
    <3>3. CASE remote # <<>>
      <4>1. Len(remote) \in Places
        BY <1>1, <1>4, <3>3 DEF Places
      <4> QED BY <1>2, <2>4, <3>1, <3>3, <4>1 DEF Newest
    <3> QED BY <3>2, <3>3
  <2>7. Opened' \in {Opened, Opened + 1} /\ (kind = "mock" => Opened' = 1)
    BY <1>1, <1>4, <2>2 DEF Opened
  <2> QED BY <1>1, <1>4, <2>2, <2>3, <2>5, <2>6, <2>7
<1> QED BY <1>5, <1>6

LEMMA ClaimStays ==
  ASSUME StateTyped, MockFits, NEW w \in Workers,
         Claim(w) \/ ClaimConflicts(w) \/ ClaimBlocked(w)
  PROVE  RowsStay /\ WorkersStay /\ RemoteStays
<1>1. UNCHANGED provider
  BY DEF Claim, ClaimConflicts, ClaimBlocked
<1>2. RemoteStays /\ Places' = Places
  BY <1>1, RemoteSame
<1>3. CASE Claim(w)
  <2> DEFINE o == worker[w].op
             pc == Leads(w, Inserted(w))
  <2>1. RowClaimed(w, pc) /\ pc \in {"terminalizing", "reconciling", "idle", "superseding", "fencing"}
    BY <1>3, ClaimRow
  <2>2. /\ worker'[w].pc = pc /\ (pc # "idle" => worker'[w].op = o)
        /\ \A v \in Workers \ {w} : /\ worker'[v].pc = worker[v].pc /\ worker'[v].op = worker[v].op
                                    /\ worker'[v].ref = worker[v].ref
    BY <1>3, ClaimWorkers
  <2>3. o \in Ops /\ version >= 1
    BY DEF StateTyped, WorkerState, Versions
  <2> HIDE DEF pc
  <2>4. RowsStay
    BY <2>1, <2>3 DEF RowClaimed, RowsStay
  <2>5. WorkersStay
    <3>1. row'[o].status # "none"
      BY <2>1 DEF RowClaimed
    <3> QED BY <2>1, <2>2, <3>1 DEF WorkersStay, Rowed, Referring, Working
  <2> QED BY <1>2, <2>4, <2>5
<1>4. CASE UNCHANGED ledger /\ (Return(w, FALSE) \/ Throw(w))
  BY <1>2, <1>4, EndStays, RowsSame DEF ledger
<1>5. CASE /\ UNCHANGED ledger /\ kind = "linear"
           /\ worker' = [worker EXCEPT ![w].pc = "expired", ![w].fence = "shared"]
  <2> DEFINE r == [worker[w] EXCEPT !.pc = "expired", !.fence = "shared"]
  <2>1. r.pc = "expired" /\ worker' = [worker EXCEPT ![w] = r]
    BY <1>5 DEF StateTyped, WorkerState
  <2>2. "expired" \notin Rowed /\ "expired" \notin Referring /\ kind # "mock"
    BY <1>5 DEF Rowed, Referring, Working
  <2> HIDE DEF r
  <2> QED BY <1>2, <1>5, <2>1, <2>2, OneStays, RowsSame DEF ledger
<1> QED BY <1>3, <1>4, <1>5 DEF ClaimConflicts, ClaimBlocked, Blocked

\* What is read at the provider, or settled from it.
LEMMA ReadStays ==
  ASSUME StateTyped, RemoteInv, NEW w \in Workers,
         ReconcileExpired(w) \/ SettleExpired(w) \/ Reconcile(w) \/ Resolve(w) \/ Terminalize(w)
  PROVE  RowsStay /\ WorkersStay /\ RemoteStays
<1> USE DEF RemoteInv
<1>1. UNCHANGED provider
  BY DEF ReconcileExpired, SettleExpired, Reconcile, Resolve, Terminalize
<1>2. /\ RemoteStays /\ Places' = Places /\ UNCHANGED <<kind, remote>>
      /\ worker \in [Workers -> WorkerState] /\ worker[w] \in WorkerState /\ worker[w].op \in Ops
      /\ row \in [Ops -> RowState] /\ \A o \in Ops : row[o].gen \in Nat
  BY <1>1, RemoteSame DEF provider, StateTyped, WorkerState, RowState, Versions
<1>3. CASE UNCHANGED row /\ (Return(w, FALSE) \/ Return(w, TRUE) \/ Throw(w))
  BY <1>2, <1>3, EndStays, RowsSame
<1>4. CASE ReconcileExpired(w) /\ ~Return(w, FALSE)
  <2>1. PICK ref \in Places : worker' = [worker EXCEPT ![w].pc = "settling", ![w].ref = ref]
    BY <1>4 DEF ReconcileExpired, Places
  <2>2. kind # "mock" /\ At(w, "expired") /\ UNCHANGED row
    BY <1>4 DEF ReconcileExpired, MockFits, At, ledger
  <2> DEFINE r == [worker[w] EXCEPT !.pc = "settling", !.ref = ref]
  <2>3. r.pc = "settling" /\ r.ref = ref /\ worker' = [worker EXCEPT ![w] = r]
    BY <1>2, <2>1 DEF WorkerState
  <2>4. "settling" \notin Rowed
    BY DEF Rowed, Working
  <2> HIDE DEF r
  <2>5. ref \in Places' /\ kind' # "mock"
    BY <1>2, <2>2
  <2>6. WorkersStay
    BY <2>2, <2>3, <2>4, <2>5, OneStays
  <2> QED BY <1>2, <2>2, <2>6, RowsSame
<1>5. CASE SettleExpired(w)
  <2>1. Return(w, FALSE) /\ kind # "mock" /\ worker[w].ref \in Places
    BY <1>5 DEF SettleExpired, MockFits, RefsReach, Referring, Reaches, At
  <2>2. \A o \in Ops : \/ row'[o] = row[o]
                       \/ /\ row[o].status # "none" /\ row'[o].status # "none"
                          /\ row'[o].gen = row[o].gen /\ row'[o].ref = worker[w].ref
    <3>1. \A o \in Ops : LET r == [row[o] EXCEPT !.status = "succeeded", !.ref = worker[w].ref] IN
            r.status = "succeeded" /\ r.gen = row[o].gen /\ r.ref = worker[w].ref
      BY <1>2 DEF RowState
    <3> QED BY <1>5, <3>1 DEF SettleExpired, ledger
  <2>3. RowsStay
    BY <1>2, <2>1, <2>2 DEF RowsStay, Reaches
  <2> QED BY <1>2, <2>1, <2>3, EndStays
<1>6. CASE Reconcile(w) /\ ~Return(w, FALSE)
  <2>1. PICK ref \in Places : /\ Found(worker[w].op, ref)
                              /\ worker' = [worker EXCEPT ![w].pc = "resolving", ![w].ref = ref]
    BY <1>6 DEF Reconcile, Places
  <2>2. UNCHANGED row /\ worker[w].pc \in Rowed
    BY <1>6 DEF Reconcile, ledger, At, Rowed
  <2>3. remote'[ref].gen >= row'[worker[w].op].gen
    BY <1>2, <2>1, <2>2 DEF Found, Sought
  <2> QED BY <1>2, <2>1, <2>2, <2>3, GoesStays, RowsSame
<1>7. CASE Resolve(w) /\ ~UNCHANGED row
  <2> DEFINE o == worker[w].op
             r == [row[o] EXCEPT !.status = "succeeded", !.ref = worker[w].ref]
  <2>1. Active(o) /\ row' = [row EXCEPT ![o].status = "succeeded", ![o].ref = worker[w].ref] /\ Return(w, TRUE)
    BY <1>7 DEF Resolve
  <2>2. r.status = "succeeded" /\ r.gen = row[o].gen /\ r.ref = worker[w].ref /\ row' = [row EXCEPT ![o] = r]
    <3>1. row[o] \in RowState
      BY <1>2
    <3>2. r.status = "succeeded" /\ r.gen = row[o].gen /\ r.ref = worker[w].ref
      BY <3>1 DEF RowState
    <3>3. row' = [row EXCEPT ![o] = r]
      BY ONLY <2>1, <1>2
    <3> QED BY <3>2, <3>3
  <2>3. Reaches(o, worker[w].ref)
    BY <1>7 DEF Resolve, At, RefsReach, Referring
  <2> HIDE DEF r
  <2>4. RowsStay
    BY <1>2, <2>1, <2>2, <2>3, RowStays DEF Active, Reaches
  <2> QED BY <1>2, <2>1, <2>4, EndStays
<1>8. CASE Resolve(w) /\ UNCHANGED row
  BY <1>2, <1>8, EndStays, RowsSame DEF Resolve
<1>9. CASE Terminalize(w)
  BY <1>2, <1>9, EndStays, RowsSame DEF Terminalize
<1> QED BY <1>3, <1>4, <1>5, <1>6, <1>7, <1>8, <1>9 DEF ReconcileExpired, Reconcile, ledger

\* The call, and the checks around it.
LEMMA CallStays ==
  ASSUME UntimedInv, RemoteInv, NEW w \in Workers,
         \/ CheckFence(w) \/ RecheckIncident(w) \/ CheckAgain(w)
         \/ CallFinds(w) \/ CallLands(w) \/ CallRefused(w) \/ CallFails(w) \/ CallTimesOut(w)
         \/ Crash(w)
  PROVE  RowsStay /\ WorkersStay /\ RemoteStays
<1> USE DEF RemoteInv
<1>1. UNCHANGED <<row, kind>> /\ RowsStay
  BY RowsSame DEF CheckFence, RecheckIncident, CheckAgain, CallFinds, CallLands, CallRefused,
     CallFails, CallTimesOut, Crash, ledger, provider
<1>2. /\ StateTyped /\ worker[w].op \in Ops
      /\ row[worker[w].op].gen \in Nat /\ Len(remote) \in Nat
  BY LenProperties DEF UntimedInv, StateTyped, WorkerState, RowState, Versions
<1>4. ASSUME NEW pc \in Working \ {"called"}, Goto(w, pc), worker[w].pc \in Rowed,
             pc = "persisting" => At(w, "called")
      PROVE  WorkersStay
  <2>1. worker' = [worker EXCEPT ![w].pc = pc, ![w].ref = worker[w].ref]
    BY <1>2, <1>4, GotoIs
  <2>2. pc \in Referring => worker[w].pc \in Referring
    BY <1>4 DEF Referring, Working, At
  <2> QED BY <1>2, <1>4, <2>1, <2>2, GoesStays
<1>5. CASE CheckFence(w) \/ RecheckIncident(w) \/ CheckAgain(w) \/ CallRefused(w)
  <2>1. RemoteStays
    BY <1>5, RemoteSame DEF CheckFence, RecheckIncident, CheckAgain, CallRefused
  <2>2. CASE Return(w, FALSE)
    BY <1>1, <1>2, <2>1, <2>2, EndStays
  <2>3. CASE ~Return(w, FALSE)
    <3>1. \E pc \in Working \ {"called"} : Goto(w, pc) /\ (pc = "persisting" => At(w, "called"))
      <4>1. {"rechecking", "calling", "persisting", "superseding", "failing"} \subseteq Working \ {"called"}
        BY DEF Working
      <4>2. CASE CheckFence(w)
        BY <2>3, <4>1, <4>2 DEF CheckFence
      <4>3. CASE RecheckIncident(w)
        BY <4>1, <4>3 DEF RecheckIncident
      <4>4. CASE CheckAgain(w)
        BY <2>3, <4>1, <4>4 DEF CheckAgain
      <4>5. CASE CallRefused(w)
        BY <4>1, <4>5 DEF CallRefused
      <4> QED BY <1>5, <4>2, <4>3, <4>4, <4>5
    <3>3. worker[w].pc \in Rowed
      BY <1>5 DEF CheckFence, RecheckIncident, CheckAgain, CallRefused, At, Rowed, Working
    <3> QED BY <1>1, <1>4, <2>1, <3>1, <3>3
  <2> QED BY <2>2, <2>3
<1>6. CASE CallFails(w) \/ CallTimesOut(w) \/ Crash(w)
  <2>1. RemoteStays
    <3>1. (Sends(w) \/ UNCHANGED wire) /\ UNCHANGED remote
      BY <1>6 DEF CallFails, CallTimesOut, Crash
    <3> QED BY <1>1, <3>1, SendsStay
  <2>2. CASE Crash(w)
    BY <1>1, <1>2, <2>1, <2>2, EndStays DEF Crash
  <2>3. CASE CallFails(w) \/ CallTimesOut(w)
    <3>1. \E pc \in {"failing", "doubting"} : Goto(w, pc)
      BY <2>3 DEF CallFails, CallTimesOut
    <3>2. worker[w].pc \in Rowed
      BY <2>3 DEF CallFails, CallTimesOut, At, Rowed, Working
    <3>3. \A pc \in {"failing", "doubting"} : pc \in Working \ {"called"} /\ pc # "persisting"
      BY DEF Working
    <3> QED BY <1>1, <1>4, <2>1, <3>1, <3>2, <3>3
  <2> QED BY <1>6, <2>2, <2>3
<1>7. ASSUME NEW ref, Called(w, ref), At(w, "calling"), RemoteStays, ref \in Places',
             kind' = "mock" => remote'[ref].gen >= row'[worker[w].op].gen
      PROVE  RowsStay /\ WorkersStay /\ RemoteStays
  <2>1. worker[w].pc \in Rowed /\ "called" \in Working
    BY <1>7 DEF At, Rowed, Working
  <2> QED BY <1>1, <1>2, <1>7, <2>1, GoesStays DEF Called
<1>8. CASE CallFinds(w)
  <2>1. PICK ref \in Places : remote[ref].gen = row[worker[w].op].gen /\ Called(w, ref)
    BY <1>8 DEF CallFinds, Places, Found, Sought
  <2>2. RemoteStays /\ Places' = Places /\ UNCHANGED remote /\ At(w, "calling")
    BY <1>8, RemoteSame DEF CallFinds, provider
  <2> QED BY <1>1, <1>2, <1>7, <2>1, <2>2
<1>9. CASE CallLands(w)
  <2> DEFINE q == Request(w)
  <2>1. /\ q \in [op : Ops, gen : Versions, proj : Status, ref : 0..MaxTickets] /\ Lands(q)
        /\ wire' = wire /\ At(w, "calling") /\ (kind = "mock" => Storable(q))
        /\ q.op = worker[w].op /\ q.gen = row[worker[w].op].gen
    BY <1>2, <1>9, RequestTyped DEF CallLands, Request
  <2>2. kind = "mock" => Carries(q)
    BY <2>1 DEF MockFits, At, Rowed, Working, Carries
  <2> HIDE DEF q
  <2>3. /\ RemoteStays
        /\ ~(kind = "linear" /\ q.op # "open") =>
              Len(remote) + 1 \in Places' /\ remote'[Len(remote) + 1].gen = q.gen
    BY <1>1, <1>2, <2>1, <2>2, LandsStay
  <2>4. CASE kind = "linear" /\ worker[w].op # "open"
    <3>1. Past
      BY <1>2, <2>1, <2>4 DEF Past, AskedFor, Asked, At, Ops
    <3>2. row["open"].ref \in Places' /\ Called(w, row["open"].ref)
      BY <1>9, <2>3, <2>4, <3>1 DEF UntimedInv, RefsReach, Reaches, Ops, RemoteStays, CallLands
    <3> QED BY <1>1, <1>7, <2>1, <2>3, <2>4, <3>2
  <2>5. CASE ~(kind = "linear" /\ worker[w].op # "open")
    <3>1. Called(w, Len(remote) + 1)
      BY <1>9, <2>5 DEF CallLands
    <3> QED BY <1>1, <1>2, <1>7, <2>1, <2>3, <2>5, <3>1
  <2> QED BY <2>4, <2>5
<1> QED BY <1>5, <1>6, <1>8, <1>9

\* What becomes of the row when the call is over.
LEMMA PersistStays ==
  ASSUME StateTyped, RemoteInv, NEW w \in Workers,
         Persist(w) \/ PersistFailure(w) \/ PersistSuperseded(w) \/ PersistDoubt(w)
  PROVE  RowsStay /\ WorkersStay /\ RemoteStays
<1> DEFINE o == worker[w].op
<1> USE DEF RemoteInv
<1>1. UNCHANGED provider /\ WorkersStay
  BY EndStays DEF Persist, PersistFailure, PersistSuperseded, PersistDoubt
<1>2. /\ RemoteStays /\ Places' = Places /\ UNCHANGED <<kind, remote>>
      /\ o \in Ops /\ row \in [Ops -> RowState] /\ row[o] \in RowState
  BY <1>1, RemoteSame DEF provider, StateTyped, WorkerState
<1>3. CASE UNCHANGED row
  BY <1>1, <1>2, <1>3, RowsSame
<1>4. ASSUME NEW s \in {"succeeded", "retry", "exhausted"}, NEW ref, Active(o),
             Conclude(w, s, ref), s = "succeeded" => Reaches(o, ref)
      PROVE  RowsStay
  <2> DEFINE r == [row[o] EXCEPT !.status = s, !.ref = ref, !.due = FALSE]
  <2>1. r.status = s /\ r.ref = ref /\ r.gen = row[o].gen
    BY <1>2 DEF RowState
  <2>2. row' = [row EXCEPT ![o] = r]
    BY <1>2, <1>4 DEF Conclude
  <2> HIDE DEF r
  <2> QED BY <1>2, <1>4, <2>1, <2>2, RowStays DEF Active, Reaches
<1>5. At(w, "persisting") => Reaches(o, worker[w].ref)
  BY DEF At, RefsReach, Referring
<1>6. CASE PersistDoubt(w) /\ ~UNCHANGED row
  <2> DEFINE r == [row[o] EXCEPT !.status = "uncertain", !.due = TRUE]
  <2>1. r.status = "uncertain" /\ r.gen = row[o].gen
    BY <1>2 DEF RowState
  <2>2. row' = [row EXCEPT ![o] = r] /\ row[o].status = "delivering"
    BY <1>2, <1>6 DEF PersistDoubt
  <2> HIDE DEF r
  <2> QED BY <1>1, <1>2, <2>1, <2>2, RowStays
<1>7. CASE (Persist(w) \/ PersistFailure(w) \/ PersistSuperseded(w)) /\ ~UNCHANGED row
  BY <1>1, <1>2, <1>4, <1>5, <1>7 DEF Persist, PersistFailure, PersistSuperseded, Owned, ledger
<1> QED BY <1>3, <1>6, <1>7

\* The incident, the run and the loops' other work.
LEMMA AsksStay ==
  ASSUME StateTyped, RemoteInv, NEW w \in Workers,
         \/ Decide \/ Run \/ DeliverOne(w) \/ RetryContainment(w)
         \/ RecoverContainment(w) \/ CloseRecovered(w)
  PROVE  RowsStay /\ WorkersStay /\ RemoteStays
<1>1. UNCHANGED <<ledger, provider>>
  BY DEF Decide, Run, Resume, Contain, Finalize, CallStep, DeliverOne, RetryContainment,
     RecoverContainment, CloseRecovered
<1>2. RowsStay /\ RemoteStays
  BY <1>1, RowsSame, RemoteSame DEF ledger, RemoteInv
<1>3. ASSUME NEW v \in Workers, NEW o, NEW p, Ask(v, o, p)
      PROVE  WorkersStay
  <2> DEFINE r == [Idle EXCEPT !.pc = "claiming", !.op = o, !.proj = p]
  <2>1. r.pc = "claiming" /\ worker' = [worker EXCEPT ![v] = r]
    BY <1>3 DEF Ask, Idle
  <2> HIDE DEF r
  <2> QED BY <2>1, RestStays
<1>4. ASSUME NEW pc \in {"idle", "recovering", "closing"}, Goto(w, pc)
      PROVE  WorkersStay
  <2> DEFINE r == [worker[w] EXCEPT !.pc = pc]
  <2>1. worker \in [Workers -> WorkerState] /\ worker[w] \in WorkerState
    BY DEF StateTyped
  <2>2. r.pc = pc /\ worker' = [worker EXCEPT ![w] = r]
    BY <1>4, <2>1 DEF Goto, WorkerState
  <2> HIDE DEF r
  <2> QED BY <2>2, RestStays
<1>5. CASE Decide \/ Resume \/ Contain \/ Finalize
  BY <1>2, <1>5, WorkersSame DEF Decide, Resume, Contain, Finalize
<1>6. CASE CallStep \/ DeliverOne(w)
  <2>1. Flow \in Workers
    BY DEF Workers
  <2> QED BY <1>2, <1>3, <1>6, <2>1 DEF CallStep, DeliverOne
<1>7. CASE RetryContainment(w) \/ RecoverContainment(w) \/ CloseRecovered(w)
  BY <1>2, <1>3, <1>4, <1>7 DEF RetryContainment, RecoverContainment, CloseRecovered
<1> QED BY <1>5, <1>6, <1>7 DEF Run

LEMMA TimeStays ==
  ASSUME StateTyped, RemoteInv, Time \/ UNCHANGED vars
  PROVE  RowsStay /\ WorkersStay /\ RemoteStays
<1> USE DEF RemoteInv
<1>1. UNCHANGED <<worker, kind>> /\ WorkersStay
  BY WorkersSame DEF Time, LeaseLapses, Lapses, Overrun, WireDelivers, RowDue, FallsDue, provider, vars
<1>2. CASE Lapses \/ UNCHANGED vars
  BY <1>1, <1>2, RowsSame, RemoteSame DEF Lapses, vars, provider
<1>3. CASE \E o \in Ops : FallsDue(o)
  <2>1. PICK o \in Ops : FallsDue(o)
    BY <1>3
  <2> DEFINE r == [row[o] EXCEPT !.due = TRUE]
  <2>2. row \in [Ops -> RowState] /\ row[o] \in RowState
    BY DEF StateTyped
  <2>3. /\ r.status = row[o].status /\ r.gen = row[o].gen /\ r.ref = row[o].ref
        /\ row' = [row EXCEPT ![o] = r] /\ row[o].status \in {"retry", "delivering"}
    BY <2>1, <2>2 DEF FallsDue, RowState
  <2> HIDE DEF r
  <2>4. RowsStay
    BY <2>3, RowStays
  <2> QED BY <1>1, <2>1, <2>4, RemoteSame DEF FallsDue
<1>4. CASE WireDelivers
  <2>1. PICK q \in wire :
          /\ wire' = wire \ {q}
          /\ \/ (kind = "mock" => Storable(q)) /\ Lands(q)
             \/ UNCHANGED remote
    BY <1>4 DEF WireDelivers
  <2>2. UNCHANGED row
    BY <1>4 DEF WireDelivers, ledger
  <2>3. q \in [op : Ops, gen : Versions, proj : Status, ref : 0..MaxTickets] /\ (kind = "mock" => Carries(q))
    BY DEF StateTyped, MockFits
  <2>4. CASE (kind = "mock" => Storable(q)) /\ Lands(q)
    BY <1>1, <2>1, <2>2, <2>3, <2>4, LandsStay, RowsSame
  <2>5. CASE UNCHANGED remote
    <3>1. Places' = Places
      BY <2>5 DEF Places
    <3>2. RemoteStays
      BY <1>1, <2>1, <2>5, <3>1 DEF RemoteStays, MockFits
    <3> QED BY <1>1, <2>2, <3>2, RowsSame
  <2> QED BY <2>1, <2>4, <2>5
<1> QED BY <1>2, <1>3, <1>4 DEF Time, LeaseLapses, Overrun, RowDue

-----------------------------------------------------------------------------
(* The theorems.                                                             *)

\* Delivered rows and workers refer to what the provider holds, and the mock's writes
\* have the generations of their rows, in order, whatever ends or arrives late.
THEOREM RemoteInvariance == Spec => []RemoteInv
<1>1. Init => RemoteInv
  <2> SUFFICES ASSUME Init PROVE RemoteInv
    OBVIOUS
  <2>1. TicketInv /\ Len(remote) = 0 /\ Places = {} /\ wire = {}
    <3>1. remote = <<>> /\ Len(<<>>) = 0 /\ 1..0 = {}
      BY DEF Init
    <3> QED BY <3>1, InitHolds DEF Init, Places
  <2>2. /\ \A v \in Workers : worker[v].pc = "idle"
        /\ \A o \in Ops : row[o].status = "none"
    BY DEF Init, Idle, NoRow
  <2>3. "idle" \notin Referring \cup Rowed \cup {"expired", "settling"}
    BY DEF Referring, Rowed, Working
  <2> QED BY <2>1, <2>2, <2>3 DEF RemoteInv, RefsReach, MockFits
<1>2. UntimedInv /\ UntimedInv' /\ RemoteInv /\ [Next]_vars => RemoteInv'
  <2> SUFFICES ASSUME UntimedInv, UntimedInv', RemoteInv, [Next]_vars PROVE RemoteInv'
    OBVIOUS
  <2>1. StateTyped /\ StateTyped' /\ MockFits /\ Flow \in Workers
    BY DEF UntimedInv, RemoteInv, Workers
  <2>2. RowsStay /\ WorkersStay /\ RemoteStays
    <3>1. CASE Decide \/ Run
      BY <2>1, <3>1, AsksStay
    <3>2. CASE Time \/ UNCHANGED vars
      BY <2>1, <3>2, TimeStays
    <3>3. ASSUME NEW w \in Workers, Work(w)
          PROVE  RowsStay /\ WorkersStay /\ RemoteStays
      BY <2>1, <3>3, ClaimStays, ReadStays, CallStays, PersistStays, AsksStay DEF Work, Deliver
    <3>4. ASSUME NEW w \in Workers,
                 \/ CallFails(w) \/ CallTimesOut(w) \/ Crash(w)
                 \/ DeliverOne(w) \/ RetryContainment(w)
          PROVE  RowsStay /\ WorkersStay /\ RemoteStays
      BY <2>1, <3>4, CallStays, AsksStay
    <3> QED BY <3>1, <3>2, <3>3, <3>4 DEF Next
  <2> QED BY <2>1, <2>2, RemoteKeeps
<1> QED BY <1>1, <1>2, UntimedInvariance, PTL DEF Spec

\* Once misled, for good.
LEMMA MisledStays ==
  ASSUME misled \in BOOLEAN, [Next]_vars
  PROVE  misled' \in BOOLEAN /\ (misled => misled')
<1>1. CASE UNCHANGED misled
  BY <1>1
<1>2. ASSUME NEW w \in Workers, SearchMisses(w) \in BOOLEAN,
             CallLands(w) \/ CallFails(w) \/ CallTimesOut(w) \/ Crash(w)
      PROVE  misled' \in BOOLEAN /\ (misled => misled')
  <2> DEFINE b == SearchMisses(w)
  <2>1. misled' = (misled \/ b) \/ misled' = TRUE \/ misled' = misled
    BY <1>2, Zenon DEF CallLands, CallFails, CallTimesOut, Crash
  <2> HIDE DEF b
  <2> QED BY <1>2, <2>1
<1>3. ASSUME NEW w \in Workers
      PROVE  SearchMisses(w) \in BOOLEAN
  BY DEF SearchMisses, Exists
<1>4. CASE Time
  BY <1>4 DEF Time, LeaseLapses, Overrun, WireDelivers, RowDue
<1>5. CASE Decide \/ Run \/ UNCHANGED vars
  BY <1>1, <1>5 DEF Decide, Run, Resume, Contain, Finalize, CallStep, vars
<1>6. ASSUME NEW w \in Workers,
             Work(w) \/ DeliverOne(w) \/ RetryContainment(w), ~CallLands(w)
      PROVE  UNCHANGED misled
  BY <1>6
  DEF Work, Deliver, Claim, ClaimConflicts, ClaimBlocked, Terminalize, ReconcileExpired,
      SettleExpired, Reconcile, Resolve, CheckFence, RecheckIncident, CheckAgain, CallFinds,
      CallRefused, Persist, PersistFailure, PersistSuperseded, PersistDoubt,
      RecoverContainment, CloseRecovered, DeliverOne, RetryContainment
<1> QED BY <1>1, <1>2, <1>3, <1>4, <1>5, <1>6 DEF Next, Work, Deliver

\* Every variable keeps its type.
THEOREM TypeCorrect == Spec => []TypeOK
<1>1. Init => misled \in BOOLEAN
  BY DEF Init
<1>2. misled \in BOOLEAN /\ [Next]_vars => (misled \in BOOLEAN)'
  BY MisledStays
<1>3. UntimedInv /\ misled \in BOOLEAN => TypeOK
  BY DEF UntimedInv, TypeOK
<1> QED BY <1>1, <1>2, <1>3, UntimedInvariance, PTL DEF Spec

\* Nothing is delivered about the end of an incident whose ticket was not opened,
\* whatever the provider does and however late a delivery ends.
THEOREM FinalsFollowOpenHolds == Spec => []FinalsFollowOpen
<1>1. UntimedInv => FinalsFollowOpen
  BY DEF UntimedInv, Past, FinalsFollowOpen
<1> QED BY <1>1, UntimedInvariance, PTL

\* The inductive invariant of the ledger (deliverExternalIncident): while it is not
\* misled, at most one worker is under way to the outcome of an operation, its row is
\* claimed, and every write at the provider carries the generation of its row.
THEOREM Invariance == Spec => [](misled \/ TicketInv)
<1>1. Init => TicketInv /\ misled \in BOOLEAN
  BY InitHolds DEF Init
<1>2. (misled \/ TicketInv) /\ misled \in BOOLEAN /\ [Next]_vars
        => (misled \/ TicketInv)' /\ (misled \in BOOLEAN)'
  BY NextKeeps, MisledStays
<1> QED BY <1>1, <1>2, PTL DEF Spec

\* A second issue takes a ledger that was misled; the mock provider never stores an
\* operation twice, whatever ends or arrives late.
THEOREM OneTicketHolds == Spec => []OneTicket
<1>1. (misled \/ TicketInv) /\ UntimedInv /\ RemoteInv => OneTicket
  <2> SUFFICES ASSUME misled \/ TicketInv, UntimedInv, RemoteInv PROVE OneTicket
    OBVIOUS
  <2>1. kind = "linear" /\ ~misled => Len(remote) <= 1
    BY DEF TicketInv, LinearSingle
  <2>2. ASSUME kind = "mock", NEW i \in 1..Len(remote), NEW j \in 1..Len(remote), i # j
        PROVE  remote[i].op # remote[j].op
    <3>1. i \in Places /\ j \in Places /\ (i < j \/ j < i)
      <4>1. Len(remote) \in Nat
        BY LenProperties DEF UntimedInv, StateTyped
      <4> QED BY <2>2, <4>1 DEF Places
    <3>2. remote[i].gen < remote[j].gen \/ remote[j].gen < remote[i].gen
      BY <2>2, <3>1 DEF RemoteInv, MockFits
    <3>3. remote[i].gen \in Nat /\ remote[j].gen \in Nat
      BY <3>1, WritesAreWrites DEF UntimedInv, Write, Versions
    <3>4. remote[i].op = remote[j].op => remote[i].gen = remote[j].gen
      BY <2>2, <3>1 DEF RemoteInv, MockFits, Carries
    <3> QED BY <3>2, <3>3, <3>4
  <2> QED BY <2>1, <2>2 DEF OneTicket
<1> QED BY <1>1, Invariance, UntimedInvariance, RemoteInvariance, PTL

\* A row is marked delivered only with a reference to something the provider holds,
\* and, while the ledger is not misled or with the mock, to this generation or a newer.
THEOREM SucceededIsRemoteHolds == Spec => []SucceededIsRemote
<1>1. (misled \/ TicketInv) /\ UntimedInv /\ RemoteInv => SucceededIsRemote
  BY DeliveryAssumption
  DEF TicketInv, References, Referenced, RemoteInv, RefsReach, Reaches, Places,
      SucceededIsRemote, UntimedInv, StateTyped
<1> QED BY <1>1, Invariance, UntimedInvariance, RemoteInvariance, PTL

-----------------------------------------------------------------------------
(* The refinement.                                                           *)

Shown == Ticket!Show \/ Ticket!ShowWhatever

\* A request that takes effect shows something newer, or whatever after an error.
LEMMA LandingShows ==
  ASSUME UntimedInv, RemoteInv, misled \in BOOLEAN, misled' \in BOOLEAN, misled => misled',
         NEW q \in [op : Ops, gen : Versions, proj : Status, ref : 0..MaxTickets], Lands(q),
         wire' \subseteq wire, UNCHANGED <<row, gen, kind>>,
         kind = "mock" => Storable(q) /\ Carries(q),
         kind = "linear" => misled' \/ (TicketInv /\ Landing(q))
  PROVE  [Shown]_Ticket!ticket
<1>1. StateTyped /\ MockFits /\ kind \in {"linear", "mock"}
  BY DeliveryAssumption DEF UntimedInv, RemoteInv, StateTyped
<1>2. /\ Newest' \in Nat /\ Opened' \in {Opened, Opened + 1}
      /\ kind = "mock" => Newest' > Newest /\ Opened' = 1
  BY <1>1, LandsStay
<1>3. CASE kind = "mock"
  BY <1>2, <1>3 DEF Shown, Ticket!Show, Opened
<1>4. CASE kind = "linear" /\ misled'
  BY <1>2, <1>4 DEF Shown, Ticket!ShowWhatever, Opened
<1>5. CASE kind = "linear" /\ ~misled'
  <2>1. Newer
    BY <1>5, LandsGoes
  <2>2. ~misled /\ UNCHANGED misled
    BY <1>5
  <2> QED BY <1>2, <1>5, <2>1, <2>2 DEF Newer, Shown, Ticket!Show, Ticket!ticket, Opened
<1> QED BY <1>1, <1>3, <1>4, <1>5

\* What changes nothing at the provider shows nothing.
LEMMA RestShows ==
  ASSUME UntimedInv, misled \in BOOLEAN, misled' \in BOOLEAN, misled => misled',
         UNCHANGED <<kind, remote>>
  PROVE  [Shown]_Ticket!ticket
<1>1. Newest \in Nat /\ Newest' = Newest /\ Opened' = Opened
  <2>1. remote \in Seq(Write) /\ Len(remote) \in Nat /\ (remote # <<>> => Len(remote) # 0)
    BY LenProperties, EmptySeq DEF UntimedInv, StateTyped
  <2>2. remote # <<>> => remote[Len(remote)] \in Write
    <3>1. remote # <<>> => Len(remote) \in 1..Len(remote)
      BY <2>1
    <3> QED BY <2>1, <3>1, ElementOfSeq
  <2> QED BY <2>2 DEF Newest, Opened, Write, Versions
<1> QED BY <1>1 DEF Shown, Ticket!ShowWhatever, Ticket!ticket, Opened

LEMMA StepShows ==
  ASSUME UntimedInv, RemoteInv, misled \/ TicketInv, misled \in BOOLEAN, [Next]_vars
  PROVE  [Shown]_Ticket!ticket
<1>1. StateTyped /\ misled' \in BOOLEAN /\ (misled => misled')
  BY MisledStays DEF UntimedInv
<1>2. CASE UNCHANGED <<kind, remote>>
  BY <1>1, <1>2, RestShows
<1>3. ASSUME NEW w \in Workers, CallLands(w)
      PROVE  [Shown]_Ticket!ticket
  <2> DEFINE q == Request(w)
  <2>1. /\ q \in [op : Ops, gen : Versions, proj : Status, ref : 0..MaxTickets] /\ Lands(q)
        /\ wire' = wire /\ UNCHANGED <<row, gen, kind>> /\ (kind = "mock" => Storable(q))
    BY <1>1, <1>3, RequestTyped DEF CallLands, ledger
  <2>2. kind = "mock" => Carries(q)
    BY <1>3 DEF RemoteInv, MockFits, CallLands, At, Rowed, Working, Carries, Request
  <2>3. ~misled' => TicketInv /\ Landing(q)
    BY <1>1, <1>3, CallIsLanding
  <2> HIDE DEF q
  <2> QED BY <1>1, <2>1, <2>2, <2>3, LandingShows
<1>4. CASE WireDelivers
  <2>1. PICK q \in wire :
          /\ wire' = wire \ {q}
          /\ \/ (kind = "mock" => Storable(q)) /\ Lands(q)
             \/ UNCHANGED remote
          /\ UNCHANGED <<row, gen, kind, misled>>
    BY <1>4 DEF WireDelivers, ledger
  <2>2. q \in [op : Ops, gen : Versions, proj : Status, ref : 0..MaxTickets]
        /\ (kind = "mock" => Carries(q))
    BY <1>1 DEF StateTyped, RemoteInv, MockFits
  <2>3. CASE (kind = "mock" => Storable(q)) /\ Lands(q)
    <3>1. ~misled' => TicketInv /\ Landing(q)
      BY <2>1, <2>3, WireIsLanding
    <3> QED BY <1>1, <2>1, <2>2, <2>3, <3>1, LandingShows
  <2> QED BY <1>2, <2>1, <2>3
<1>5. CASE UNCHANGED vars
  BY <1>2, <1>5 DEF vars
<1>6. CASE Decide \/ Run
  BY <1>2, <1>6 DEF Run, Decide, Resume, Contain, Finalize, CallStep, provider
<1>7. CASE Lapses \/ \E o \in Ops : FallsDue(o)
  BY <1>2, <1>7 DEF Lapses, FallsDue, provider
<1>8. ASSUME NEW w \in Workers, Deliver(w), ~CallLands(w)
      PROVE  UNCHANGED <<kind, remote>>
  BY <1>8
  DEF Deliver, Claim, ClaimConflicts, ClaimBlocked, Terminalize, ReconcileExpired, SettleExpired,
      Reconcile, Resolve, CheckFence, RecheckIncident, CheckAgain, CallFinds, CallRefused,
      Persist, PersistFailure, PersistSuperseded, PersistDoubt, provider
<1>9. ASSUME NEW w \in Workers,
             \/ Work(w) \/ CallFails(w) \/ CallTimesOut(w) \/ Crash(w)
             \/ DeliverOne(w) \/ RetryContainment(w)
      PROVE  [Shown]_Ticket!ticket
  <2>1. CASE Deliver(w)
    BY <1>2, <1>3, <1>8, <2>1
  <2>2. CASE RecoverContainment(w) \/ CloseRecovered(w)
    BY <1>2, <2>2 DEF RecoverContainment, CloseRecovered, provider
  <2>3. CASE CallFails(w) \/ CallTimesOut(w) \/ Crash(w) \/ DeliverOne(w) \/ RetryContainment(w)
    BY <1>2, <2>3 DEF CallFails, CallTimesOut, Crash, DeliverOne, RetryContainment, provider
  <2> QED BY <1>9, <2>1, <2>2, <2>3 DEF Work
<1> QED BY <1>4, <1>5, <1>6, <1>7, <1>9 DEF Next, Time, LeaseLapses, Overrun, RowDue

\* The deliveries implement TicketContract, with the mock and, until the ledger is
\* misled, with Linear: the ticket is opened at most once and shows only newer states.
THEOREM TicketKeptHolds == Spec => TicketKept
<1>1. Init => Ticket!TicketInit /\ misled \in BOOLEAN
  BY DEF Init, Ticket!TicketInit, Newest
<1>2. misled \in BOOLEAN /\ [Next]_vars => (misled \in BOOLEAN)'
  BY MisledStays
<1>3. /\ UntimedInv /\ RemoteInv /\ (misled \/ TicketInv)
      /\ misled \in BOOLEAN /\ [Next]_vars
      => [Ticket!Show \/ Ticket!ShowWhatever]_Ticket!ticket
  BY StepShows DEF Shown
<1> QED BY <1>1, <1>2, <1>3, Invariance, UntimedInvariance, RemoteInvariance, PTL
        DEF Spec, TicketKept, Ticket!TicketSpec
=============================================================================
