----------------------- MODULE OutboxDelivery_proofs -----------------------
(***************************************************************************)
(* Proofs about OutboxDelivery, for any number of servers, events and      *)
(* faults.  The inductive invariant says what the worker that holds the    *)
(* lease may rely on between its steps: that its event is still its own,   *)
(* and that the ranking it has calculated, or left to a later event, knows *)
(* every placement as soon as its own trigger is the only one that waits.  *)
(***************************************************************************)
EXTENDS OutboxDelivery, TLAPS

Busy == {"CLAIMED", "LATEST", "READ", "HANDLED"}
Waiting == Pending \cap Triggers        \* the triggers still to be published

(* What a step of a worker says of the event and of the calculation it has. *)
StepsAgree ==
    \A w \in Workers :
        /\ step[w] \in Busy => handling[w] \in Events
        /\ step[w] \notin Busy => handling[w] = 0
        /\ calc[w].reading <=> step[w] = "READ"

(* The lease of the only worker is live and its own. *)
WorkerHasLease == \A w \in Workers : Working(w) => lease = [by |-> w, live |-> TRUE]

(* So is the event it has claimed. *)
ClaimIsKept ==
    \A w \in Workers : step[w] \in Busy =>
        outbox[handling[w]] = "PENDING" /\ claim[handling[w]] = w

(* No ranking knows a placement that was not decided. *)
NothingInvented ==
    /\ shown \subseteq Decided
    /\ staged.rows \subseteq Decided
    /\ \A p \in Calculators : calc[p].rows \subseteq Decided

(***************************************************************************)
(* The last ranking, and the one any calculation under way is going to     *)
(* write, know every placement - or will be said to be tainted.            *)
(***************************************************************************)
UpToDate ==
    /\ tainted \/ Decided \subseteq Calculated
    /\ \A p \in Calculators :
        calc[p].reading /\ ~calc[p].overtaken => Decided \subseteq calc[p].rows

Accounted(w) ==
    /\ step[w] = "READ" /\ Waiting \subseteq {handling[w]} => Decided \subseteq calc[w].rows
    /\ step[w] = "HANDLED" /\ Waiting \subseteq {handling[w]} /\ handling[w] \in Triggers
            => UpToDate

NothingMissed ==
    /\ Waiting = {} => UpToDate
    /\ \A w \in Workers : Accounted(w)

TypeInv == OutboxTypeOK /\ StepsAgree
LeaseInv == ~stalled => WorkerHasLease /\ ClaimIsKept
RankingInv == NothingInvented /\ (~stalled => NothingMissed)

----------------------------------------------------------------------------
(* Types. *)

LEMMA TypeInit == OutboxInit => TypeInv
<1> SUFFICES ASSUME OutboxInit PROVE TypeInv
    OBVIOUS
<1> USE DEF OutboxInit
<1>1. calc \in [Calculators -> Calculations]
      BY DEF NotCalculating, Calculations, Days
<1>2. /\ lease \in [by: Workers \cup {Nobody}, live: BOOLEAN]
      /\ staged \in [is: BOOLEAN, rows: SUBSET Triggers]
      BY DEF Free, NoneStaged
<1>3. /\ step \in [Workers -> WorkerSteps] /\ stamp \in [Events -> Days]
      /\ day \in Days /\ faults \in 0..MaxFaults
      BY FaultsAssumption DEF WorkerSteps, Days
<1>4. StepsAgree
      BY DEF StepsAgree, Busy, NotCalculating, Calculators
<1> QED BY <1>1, <1>2, <1>3, <1>4 DEF TypeInv, OutboxTypeOK

(* A worker's step from a named step to a named step. *)
LEMMA MovesTyped ==
    ASSUME TypeInv, NEW w \in Workers, NEW from, NEW to \in WorkerSteps, Moves(w, from, to)
    PROVE  /\ step' \in [Workers -> WorkerSteps]
           /\ step[w] = from /\ step'[w] = to
           /\ \A v \in Workers : v # w => step'[v] = step[v]
           /\ handling' = handling
BY DEF TypeInv, OutboxTypeOK, Moves

LEMMA WriteTyped ==
    ASSUME TypeInv, NEW p \in Calculators, WritesRanking(p)
    PROVE  /\ calc' \in [Calculators -> Calculations]
           /\ ~calc'[p].reading
           /\ \A q \in Calculators : q # p => calc'[q].reading = calc[q].reading
           /\ shown' \subseteq Triggers
           /\ staged' \in [is: BOOLEAN, rows: SUBSET Triggers]
           /\ tainted' \in BOOLEAN
<1> USE DEF TypeInv, OutboxTypeOK, Calculations
<1>1. calc[p] \in Calculations /\ calc[p].rows \subseteq Triggers /\ calc[p].overtaken \in BOOLEAN
      OBVIOUS
<1>2. calc' \in [Calculators -> Calculations]
      BY DEF WritesRanking, NotCalculating, Days
<1>3. /\ ~calc'[p].reading
      /\ \A q \in Calculators : q # p => calc'[q].reading = calc[q].reading
      BY DEF WritesRanking, NotCalculating
<1>4. shown' \subseteq Triggers /\ staged' \in [is: BOOLEAN, rows: SUBSET Triggers]
  <2>1. CASE IsFrozen(calc[p].from)
    <3>1. shown' = (shown \ Newcomers) \cup (calc[p].rows \cap Newcomers)
          BY <2>1 DEF WritesRanking
    <3>2. staged' = [is |-> TRUE, rows |-> calc[p].rows]
          BY <2>1 DEF WritesRanking
    <3> QED BY <1>1, <3>1, <3>2
  <2>2. CASE ~IsFrozen(calc[p].from)
    <3>1. shown' = calc[p].rows /\ staged' = [is |-> FALSE, rows |-> {}]
          BY <2>2 DEF WritesRanking, NoneStaged
    <3> QED BY <1>1, <3>1
  <2> QED BY <2>1, <2>2
<1>5. tainted' \in BOOLEAN
      BY <1>1 DEF WritesRanking
<1> QED BY <1>2, <1>3, <1>4, <1>5

LEMMA TypeStep == TypeInv /\ [OutboxNext]_outboxVars => TypeInv'
<1> SUFFICES ASSUME TypeInv, [OutboxNext]_outboxVars PROVE TypeInv'
    OBVIOUS
<1> USE DEF TypeInv, OutboxTypeOK, StepsAgree
<1>0. /\ Workers \subseteq Calculators /\ Recalculators \subseteq Calculators
      /\ \A w \in Workers : calc[w] \in Calculations
      BY DEF Calculators
<1>1. CASE SundayBegins \/ SundayEnds
      BY <1>1 DEF SundayBegins, SundayEnds, passVars, rankingVars, Days
<1>2. ASSUME NEW e \in Events, Commit(e) PROVE TypeInv'
  <2>1. stamp' \in [Events -> Days]
        BY <1>2 DEF Commit, Days
  <2> QED BY <1>2, <2>1 DEF Commit, passVars, rankingVars
<1>3. ASSUME NEW e \in Events, ClaimRunsOut(e) PROVE TypeInv'
      BY <1>3 DEF ClaimRunsOut, passVars, rankingVars
<1>4. ASSUME NEW w \in Workers, Pass(w) \/ WorkerFault(w) PROVE TypeInv'
  <2>1. CASE TakeLease(w)
        BY <1>0, <2>1 DEF TakeLease, rankingVars, Working, WorkerSteps, Busy
  <2>2. CASE TakeLeaseTwice(w)
        BY <2>2 DEF TakeLeaseTwice, passVars, rankingVars, Free
  <2>3. CASE Heartbeat(w)
        BY <2>3 DEF Heartbeat, passVars, rankingVars
  <2>4. CASE HeartbeatsStop(w)
    <3>1. lease' \in [by: Workers \cup {Nobody}, live: BOOLEAN]
          BY <2>4 DEF HeartbeatsStop
    <3>2. faults' \in 0..MaxFaults
          BY <2>4, FaultsAssumption DEF HeartbeatsStop
    <3> QED BY <2>4, <3>1, <3>2 DEF HeartbeatsStop, passVars, rankingVars
  <2>5. ASSUME NEW e \in Events, Claims(w, e), faults' \in 0..MaxFaults PROVE TypeInv'
        BY <2>5 DEF Claims, rankingVars, WorkerSteps, Busy
  <2>6. CASE ClaimNext(w)
        BY <2>5, <2>6 DEF ClaimNext, FreeEvents, Pending
  <2>7. CASE ClaimOverrun(w)
        BY <2>5, <2>7, FaultsAssumption DEF ClaimOverrun, Pending
  <2>8. CASE PassEnds(w)
        BY <2>8 DEF PassEnds, rankingVars, WorkerSteps, Busy, Free
  <2>9. CASE HandlePlain(w)
        BY <2>9, MovesTyped DEF HandlePlain, rankingVars, WorkerSteps, Busy
  <2>10. CASE CheckLatest(w)
        BY <2>10, MovesTyped DEF CheckLatest, rankingVars, WorkerSteps, Busy
  <2>11. CASE ReadRows(w)
    <3>1. /\ step' \in [Workers -> WorkerSteps] /\ step[w] = "LATEST" /\ step'[w] = "READ"
          /\ \A v \in Workers : v # w => step'[v] = step[v]
          /\ handling' = handling
          BY <2>11, MovesTyped DEF ReadRows, WorkerSteps
    <3>2. stamp[handling[w]] \in Days
          BY <3>1 DEF Busy
    <3>3. /\ calc' \in [Calculators -> Calculations] /\ calc'[w].reading
          /\ \A v \in Workers : v # w => calc'[v] = calc[v]
          BY <1>0, <2>11, <3>2 DEF ReadRows, Reads, Calculations, Decided
    <3> QED BY <2>11, <3>1, <3>3 DEF ReadRows, Busy
  <2>12. CASE WriteRows(w)
    <3>1. /\ step' \in [Workers -> WorkerSteps] /\ step[w] = "READ" /\ step'[w] = "HANDLED"
          /\ \A v \in Workers : v # w => step'[v] = step[v]
          /\ handling' = handling
          BY <2>12, MovesTyped DEF WriteRows, WorkerSteps
    <3> QED BY <1>0, <2>12, <3>1, WriteTyped DEF WriteRows, Busy
  <2>13. CASE Publish(w)
    <3>1. outbox' \in [Events -> {"NONE", "PENDING", "PUBLISHED"}]
          /\ claim' \in [Events -> Workers \cup {Nobody}]
          BY <2>13 DEF Publish
    <3> QED BY <2>13, <3>1 DEF Publish, rankingVars, WorkerSteps, Busy
  <2>14. ASSUME Releases(w), step[w] \in Busy, faults' \in 0..MaxFaults PROVE TypeInv'
    <3>1. claim' \in [Events -> Workers \cup {Nobody}]
          BY <2>14 DEF Releases
    <3>2. /\ calc' \in [Calculators -> Calculations] /\ ~calc'[w].reading
          /\ \A v \in Workers : v # w => calc'[v] = calc[v]
          BY <1>0, <2>14 DEF Releases, NotCalculating, Calculations, Days
    <3> QED BY <2>14, <3>1, <3>2 DEF Releases, WorkerSteps, Busy
  <2>15. CASE HandlerThrows(w)
        BY <2>14, <2>15, FaultsAssumption DEF HandlerThrows, Busy
  <2>16. CASE PoisonThrows(w)
        BY <2>14, <2>16 DEF PoisonThrows, Busy
  <2>17. CASE Crash(w)
    <3>1. /\ calc' \in [Calculators -> Calculations] /\ ~calc'[w].reading
          /\ \A v \in Workers : v # w => calc'[v] = calc[v]
          BY <1>0, <2>17 DEF Crash, NotCalculating, Calculations, Days
    <3> QED BY <2>17, <3>1, FaultsAssumption DEF Crash, WorkerSteps, Busy
  <2> QED BY <1>4, <2>1, <2>2, <2>3, <2>4, <2>6, <2>7, <2>8, <2>9, <2>10, <2>11, <2>12, <2>13,
             <2>15, <2>16, <2>17 DEF Pass, WorkerFault, Handles
<1>5. ASSUME NEW p \in Recalculators, Recalculation(p) PROVE TypeInv'
  <2>0. p \in Calculators /\ p \notin Workers
        BY <1>0, WorkersAssumption
  <2>1. CASE BeginRecalculation(p)
        BY <1>0, <2>0, <2>1 DEF BeginRecalculation, Reads, Calculations, Decided, passVars
  <2>2. CASE EndRecalculation(p)
        BY <1>0, <2>0, <2>2, WriteTyped DEF EndRecalculation, passVars
  <2>3. CASE RecalculationFails(p)
        BY <1>0, <2>0, <2>3, FaultsAssumption
        DEF RecalculationFails, NotCalculating, Calculations, Days, passVars
  <2> QED BY <1>5, <2>1, <2>2, <2>3 DEF Recalculation
<1>6. CASE UNCHANGED outboxVars
      BY <1>6 DEF outboxVars, passVars, rankingVars
<1> QED BY <1>1, <1>2, <1>3, <1>4, <1>5, <1>6 DEF OutboxNext

----------------------------------------------------------------------------
(* The lease and the claims. *)

LEMMA LeaseInit == OutboxInit => LeaseInv
BY DEF OutboxInit, LeaseInv, WorkerHasLease, ClaimIsKept, Working, Busy

(* The lease names one worker. *)
LEMMA OnlyWorker ==
    ASSUME WorkerHasLease, NEW v \in Workers, NEW w \in Workers, Working(v), Working(w)
    PROVE  v = w
<1>1. [by |-> v, live |-> TRUE] = [by |-> w, live |-> TRUE]
      BY DEF WorkerHasLease
<1>2. [by |-> v, live |-> TRUE].by = [by |-> w, live |-> TRUE].by
      BY <1>1
<1> QED BY <1>2

LEMMA BusyWorks == \A w \in Workers : step[w] \in Busy => Working(w)
BY DEF Busy, Working

LEMMA LeaseStep == TypeInv /\ LeaseInv /\ [OutboxNext]_outboxVars => LeaseInv'
<1> SUFFICES ASSUME TypeInv, LeaseInv, [OutboxNext]_outboxVars, ~stalled' PROVE (WorkerHasLease /\ ClaimIsKept)'
    BY DEF LeaseInv
<1> USE DEF TypeInv, OutboxTypeOK, StepsAgree
<1>0. ~stalled => WorkerHasLease /\ ClaimIsKept
      BY DEF LeaseInv
<1>1. CASE SundayBegins \/ SundayEnds
      BY <1>0, <1>1
      DEF SundayBegins, SundayEnds, passVars, WorkerHasLease, ClaimIsKept, Working
<1>2. ASSUME NEW e \in Events, Commit(e) PROVE (WorkerHasLease /\ ClaimIsKept)'
  <2>1. ~stalled
        BY <1>2 DEF Commit
  <2>2. \A f \in Events : outbox[f] = "PENDING" => outbox'[f] = "PENDING"
        BY <1>2 DEF Commit
  <2> QED BY <1>0, <1>2, <2>1, <2>2 DEF Commit, passVars, WorkerHasLease, ClaimIsKept, Working
<1>3. ASSUME NEW e \in Events, ClaimRunsOut(e) PROVE (WorkerHasLease /\ ClaimIsKept)'
  <2>1. ~stalled
        BY <1>3 DEF ClaimRunsOut
  <2>2. \A w \in Workers : step[w] \in Busy => handling[w] # e
        BY <1>0, <1>3, <2>1 DEF ClaimRunsOut, ClaimIsKept
  <2> QED BY <1>0, <1>3, <2>1, <2>2 DEF ClaimRunsOut, passVars, WorkerHasLease, ClaimIsKept, Working
<1>4. ASSUME NEW w \in Workers, Pass(w) \/ WorkerFault(w) PROVE (WorkerHasLease /\ ClaimIsKept)'
  <2>0. ~stalled
        BY <1>4 DEF Pass, WorkerFault, Handles, TakeLease, TakeLeaseTwice, Heartbeat, HeartbeatsStop,
            ClaimNext, ClaimOverrun, Claims, PassEnds, HandlePlain, CheckLatest, ReadRows, WriteRows,
            Publish, HandlerThrows, PoisonThrows, Releases, Crash
  <2>1. WorkerHasLease /\ ClaimIsKept
        BY <1>0, <2>0
  <2>2. ASSUME Working(w) PROVE \A v \in Workers : v # w => ~Working(v) /\ step[v] \notin Busy
        BY <2>1, <2>2, OnlyWorker, BusyWorks
  <2>3. CASE TakeLease(w)
    <3>1. \A v \in Workers : ~Working(v)
          BY <2>1, <2>3 DEF TakeLease, WorkerHasLease
    <3>2. /\ lease' = [by |-> w, live |-> TRUE] /\ step'[w] \notin Busy
          /\ \A v \in Workers : v # w => step'[v] = "IDLE"
          BY <2>3, <3>1 DEF TakeLease, Working, Busy
    <3> QED BY <3>2 DEF WorkerHasLease, ClaimIsKept, Working, Busy
  <2>4. CASE TakeLeaseTwice(w)
        BY <2>1, <2>4 DEF TakeLeaseTwice, WorkerHasLease
  <2>5. CASE Heartbeat(w)
        BY <2>1, <2>5 DEF Heartbeat, WorkerHasLease
  <2>6. CASE HeartbeatsStop(w)
        BY <2>6 DEF HeartbeatsStop
  <2>7. ASSUME NEW e \in Events, Claims(w, e), outbox[e] = "PENDING"
        PROVE  (WorkerHasLease /\ ClaimIsKept)'
    <3>1. Working(w)
          BY <2>7 DEF Claims, Working
    <3>2. /\ step'[w] = "CLAIMED" /\ handling'[w] = e /\ claim'[e] = w /\ outbox' = outbox
          /\ \A v \in Workers : v # w => step'[v] = step[v]
          /\ lease' = lease
          BY <2>7 DEF Claims
    <3>3. \A v \in Workers : v # w => step'[v] = "IDLE" /\ step'[v] \notin Busy
          BY <2>2, <3>1, <3>2 DEF Working, Busy
    <3>4. WorkerHasLease'
          BY <2>1, <3>1, <3>2, <3>3 DEF WorkerHasLease, Working
    <3>5. ClaimIsKept'
          BY <2>7, <3>2, <3>3 DEF ClaimIsKept
    <3> QED BY <3>4, <3>5
  <2>8. CASE ClaimNext(w) \/ ClaimOverrun(w)
        BY <2>7, <2>8 DEF ClaimNext, ClaimOverrun, FreeEvents, Pending
  <2>9. CASE PassEnds(w)
    <3>1. Working(w)
          BY <2>9 DEF PassEnds, Working
    <3> QED BY <2>1, <2>2, <2>9, <3>1 DEF PassEnds, WorkerHasLease, ClaimIsKept, Working, Busy
  <2>10. ASSUME NEW from \in Busy, NEW to \in Busy, Moves(w, from, to),
                UNCHANGED <<outbox, claim, lease>>
         PROVE  (WorkerHasLease /\ ClaimIsKept)'
    <3>1. /\ step[w] \in Busy /\ Working(w) /\ handling' = handling
          /\ \A v \in Workers : v # w => step'[v] = step[v]
          BY <2>10, BusyWorks DEF Moves
    <3> QED BY <2>1, <2>2, <2>10, <3>1 DEF WorkerHasLease, ClaimIsKept, Working
  <2>11. CASE HandlePlain(w) \/ CheckLatest(w) \/ ReadRows(w) \/ WriteRows(w)
         BY <2>10, <2>11 DEF HandlePlain, CheckLatest, ReadRows, WriteRows, Busy
  <2>12. ASSUME Working(w), UNCHANGED lease, step'[w] \notin Busy,
                \A v \in Workers : v # w => step'[v] = step[v]
         PROVE  (WorkerHasLease /\ ClaimIsKept)'
         BY <2>1, <2>2, <2>12 DEF WorkerHasLease, ClaimIsKept, Working
  <2>13. CASE Publish(w)
         BY <2>12, <2>13 DEF Publish, Working, Busy
  <2>14. CASE HandlerThrows(w) \/ PoisonThrows(w)
         BY <2>12, <2>14 DEF HandlerThrows, PoisonThrows, Releases, Working, Busy
  <2>15. CASE Crash(w)
         BY <2>12, <2>15 DEF Crash, Working, Busy
  <2> QED BY <1>4, <2>3, <2>4, <2>5, <2>6, <2>8, <2>9, <2>11, <2>13, <2>14, <2>15
          DEF Pass, WorkerFault, Handles
<1>5. ASSUME NEW p \in Recalculators, Recalculation(p) PROVE (WorkerHasLease /\ ClaimIsKept)'
      BY <1>0, <1>5
      DEF Recalculation, BeginRecalculation, EndRecalculation, RecalculationFails, passVars,
          WorkerHasLease, ClaimIsKept, Working
<1>6. CASE UNCHANGED outboxVars
      BY <1>0, <1>6 DEF outboxVars, passVars, WorkerHasLease, ClaimIsKept, Working
<1> QED BY <1>1, <1>2, <1>3, <1>4, <1>5, <1>6 DEF OutboxNext

----------------------------------------------------------------------------
(* The ranking. *)

LEMMA RankingInit == OutboxInit => RankingInv
BY DEF OutboxInit, RankingInv, NothingInvented, NothingMissed, UpToDate, Accounted, Decided,
       Committed, NoneStaged, NotCalculating, Calculated

(* Placements, and triggers that wait, go by the statuses of the events alone. *)
LEMMA SameEvents ==
    ASSUME outbox' = outbox
    PROVE  Decided' = Decided /\ Waiting' = Waiting
BY DEF Decided, Committed, Waiting, Pending

(* Calculations that are begun, or given up, put no ranking out of date. *)
LEMMA SameRanking ==
    ASSUME UNCHANGED <<shown, staged, tainted>>, Decided' = Decided,
           \A p \in Calculators :
               calc'[p] = calc[p] \/ calc'[p] = NotCalculating \/ calc'[p].rows = Decided
    PROVE  /\ NothingInvented => NothingInvented'
           /\ UpToDate => UpToDate'
<1>1. Calculated' = Calculated
      BY DEF Calculated
<1>2. NotCalculating.rows = {} /\ ~NotCalculating.reading
      BY DEF NotCalculating
<1> QED BY <1>1, <1>2 DEF NothingInvented, UpToDate

(* A transaction shows what was calculated and overtakes every other calculation. *)
LEMMA AfterWrite ==
    ASSUME TypeInv, NothingInvented, outbox' = outbox, NEW p \in Calculators, WritesRanking(p)
    PROVE  /\ NothingInvented'
           /\ \A q \in Calculators : q # p => calc'[q].rows = calc[q].rows
           /\ calc[p].overtaken \/ Decided \subseteq calc[p].rows => UpToDate'
<1> USE DEF TypeInv, OutboxTypeOK, Calculations
<1>1. Decided' = Decided
      BY SameEvents
<1>2. Calculated' = calc[p].rows
      BY DEF Calculated, WritesRanking, NoneStaged
<1>3. /\ calc'[p] = NotCalculating
      /\ \A q \in Calculators : q # p => calc'[q].rows = calc[q].rows
      /\ \A q \in Calculators : q # p => calc'[q].overtaken = calc'[q].reading
      BY DEF WritesRanking
<1>4. NotCalculating.rows = {} /\ ~NotCalculating.reading
      BY DEF NotCalculating
<1>5. calc[p].rows \subseteq Decided /\ shown \subseteq Decided
      BY DEF NothingInvented
<1>6. shown' \subseteq Decided /\ staged'.rows \subseteq Decided
  <2>1. CASE IsFrozen(calc[p].from)
    <3>1. shown' = (shown \ Newcomers) \cup (calc[p].rows \cap Newcomers)
          BY <2>1 DEF WritesRanking
    <3>2. staged'.rows = calc[p].rows
          BY <2>1 DEF WritesRanking
    <3> QED BY <1>5, <3>1, <3>2
  <2>2. CASE ~IsFrozen(calc[p].from)
    <3>1. shown' = calc[p].rows /\ staged'.rows = {}
          BY <2>2 DEF WritesRanking, NoneStaged
    <3> QED BY <1>5, <3>1
  <2> QED BY <2>1, <2>2
<1>7. NothingInvented'
      BY <1>1, <1>3, <1>4, <1>5, <1>6 DEF NothingInvented
<1>8. tainted' = calc[p].overtaken
      BY DEF WritesRanking
<1>9. \A q \in Calculators : ~(calc'[q].reading /\ ~calc'[q].overtaken)
      BY <1>3, <1>4
<1>10. calc[p].overtaken \/ Decided \subseteq calc[p].rows => UpToDate'
       BY <1>1, <1>2, <1>8, <1>9 DEF UpToDate
<1> QED BY <1>3, <1>7, <1>10

(* A step that decides nothing, calculates nothing and leaves the worker free to go on. *)
LEMMA QuietStep ==
    ASSUME RankingInv, ~stalled, UNCHANGED <<outbox, calc, shown, staged, tainted>>,
           \A v \in Workers : step'[v] \in {"READ", "HANDLED"}
                                => step'[v] = step[v] /\ handling'[v] = handling[v]
    PROVE  RankingInv'
<1>1. Decided' = Decided /\ Waiting' = Waiting
      BY SameEvents
<1>2. NothingInvented' /\ (UpToDate => UpToDate')
      BY <1>1, SameRanking DEF RankingInv
<1>3. ASSUME NEW v \in Workers PROVE Accounted(v)'
      BY <1>1, <1>2 DEF RankingInv, NothingMissed, Accounted
<1> QED BY <1>1, <1>2, <1>3 DEF RankingInv, NothingMissed

LEMMA InventedStep ==
    ASSUME TypeInv, RankingInv, [OutboxNext]_outboxVars
    PROVE  NothingInvented'
<1> USE DEF RankingInv
<1>0. Workers \subseteq Calculators /\ Recalculators \subseteq Calculators
      BY DEF Calculators
<1>1. ASSUME UNCHANGED <<outbox, calc, shown, staged, tainted>> PROVE NothingInvented'
      BY <1>1, SameEvents, SameRanking
<1>2. CASE SundayBegins \/ SundayEnds
      BY <1>1, <1>2 DEF SundayBegins, SundayEnds, rankingVars
<1>3. ASSUME NEW e \in Events, Commit(e) PROVE NothingInvented'
  <2>1. Decided \subseteq Decided'
        BY <1>3 DEF Commit, Decided, Committed
  <2> QED BY <1>3, <2>1 DEF Commit, rankingVars, NothingInvented
<1>4. ASSUME NEW e \in Events, ClaimRunsOut(e) PROVE NothingInvented'
      BY <1>1, <1>4 DEF ClaimRunsOut, rankingVars
<1>5. ASSUME NEW w \in Workers, Pass(w) \/ WorkerFault(w) PROVE NothingInvented'
  <2>1. CASE WriteRows(w)
        BY <1>0, <2>1, AfterWrite DEF WriteRows
  <2>2. CASE ReadRows(w)
    <3>1. \A p \in Calculators : calc'[p] = calc[p] \/ calc'[p].rows = Decided
          BY <2>2 DEF ReadRows, Reads, TypeInv, OutboxTypeOK
    <3> QED BY <2>2, <3>1, SameEvents, SameRanking DEF ReadRows
  <2>3. CASE Releases(w) \/ Crash(w)
    <3>1. \A p \in Calculators : calc'[p] = calc[p] \/ calc'[p] = NotCalculating
          BY <2>3 DEF Releases, Crash, TypeInv, OutboxTypeOK
    <3> QED BY <2>3, <3>1, SameEvents, SameRanking DEF Releases, Crash
  <2>4. CASE Publish(w)
    <3>1. Decided' = Decided
      <4>1. CASE outbox' = outbox
            BY <4>1, SameEvents
      <4>2. CASE outbox' # outbox
        <5>1. outbox[handling[w]] = "PENDING" /\ outbox' = [outbox EXCEPT ![handling[w]] = "PUBLISHED"]
              BY <2>4, <4>2 DEF Publish
        <5> QED BY <5>1 DEF Decided, Committed, TypeInv, OutboxTypeOK
      <4> QED BY <4>1, <4>2
    <3> QED BY <2>4, <3>1, SameRanking DEF Publish, rankingVars
  <2>5. CASE ~WriteRows(w) /\ ~ReadRows(w) /\ ~Releases(w) /\ ~Crash(w) /\ ~Publish(w)
        BY <1>1, <1>5, <2>5
        DEF Pass, WorkerFault, Handles, TakeLease, TakeLeaseTwice, Heartbeat, HeartbeatsStop,
            ClaimNext, ClaimOverrun, Claims, PassEnds, HandlePlain, CheckLatest, HandlerThrows,
            PoisonThrows, rankingVars
  <2> QED BY <2>1, <2>2, <2>3, <2>4, <2>5
<1>6. ASSUME NEW p \in Recalculators, Recalculation(p) PROVE NothingInvented'
  <2>1. CASE EndRecalculation(p)
        BY <1>0, <2>1, AfterWrite DEF EndRecalculation
  <2>2. CASE BeginRecalculation(p)
    <3>1. \A q \in Calculators : calc'[q] = calc[q] \/ calc'[q].rows = Decided
          BY <2>2 DEF BeginRecalculation, Reads, TypeInv, OutboxTypeOK
    <3> QED BY <2>2, <3>1, SameEvents, SameRanking DEF BeginRecalculation
  <2>3. CASE RecalculationFails(p)
    <3>1. \A q \in Calculators : calc'[q] = calc[q] \/ calc'[q] = NotCalculating
          BY <2>3 DEF RecalculationFails, TypeInv, OutboxTypeOK
    <3> QED BY <2>3, <3>1, SameEvents, SameRanking DEF RecalculationFails
  <2> QED BY <1>6, <2>1, <2>2, <2>3 DEF Recalculation
<1>7. CASE UNCHANGED outboxVars
      BY <1>1, <1>7 DEF outboxVars, rankingVars
<1> QED BY <1>2, <1>3, <1>4, <1>5, <1>6, <1>7 DEF OutboxNext

LEMMA MissedStep ==
    ASSUME TypeInv, LeaseInv, RankingInv, [OutboxNext]_outboxVars, ~stalled'
    PROVE  NothingMissed'
<1> USE DEF TypeInv, OutboxTypeOK, StepsAgree
<1>0. /\ Workers \subseteq Calculators /\ Recalculators \subseteq Calculators
      /\ Workers \cap Recalculators = {}
      BY WorkersAssumption DEF Calculators
<1>1. ASSUME ~stalled, UNCHANGED <<outbox, calc, shown, staged, tainted>>,
             \A v \in Workers : step'[v] \in {"READ", "HANDLED"}
                                  => step'[v] = step[v] /\ handling'[v] = handling[v]
      PROVE  NothingMissed'
      BY <1>1, QuietStep DEF RankingInv
<1>2. CASE SundayBegins \/ SundayEnds
      BY <1>1, <1>2 DEF SundayBegins, SundayEnds, rankingVars, passVars
<1>3. ASSUME NEW e \in Events, Commit(e) PROVE NothingMissed'
  <2>1. NothingMissed /\ ClaimIsKept
        BY <1>3 DEF Commit, RankingInv, LeaseInv
  <2>2. UNCHANGED <<calc, shown, staged, tainted, step, handling>>
        BY <1>3 DEF Commit, rankingVars, passVars
  <2>3. CASE e \in Triggers
    <3>1. Waiting' = Waiting \cup {e}
          BY <1>3, <2>3 DEF Commit, Waiting, Pending
    <3>2. \A w \in Workers : step[w] \in Busy => handling[w] # e
          BY <1>3, <2>1 DEF Commit, ClaimIsKept
    <3>3. \A w \in Workers : step'[w] \in {"READ", "HANDLED"} => ~(Waiting' \subseteq {handling'[w]})
          BY <2>2, <3>1, <3>2 DEF Busy
    <3> QED BY <3>1, <3>3 DEF NothingMissed, Accounted
  <2>4. CASE e \notin Triggers
    <3>1. Decided' = Decided /\ Waiting' = Waiting
          BY <1>3, <2>4 DEF Commit, Decided, Committed, Waiting, Pending
    <3>2. UpToDate => UpToDate'
          BY <2>2, <3>1, SameRanking
    <3>3. \A w \in Workers : Accounted(w) => Accounted(w)'
          BY <2>2, <3>1, <3>2 DEF Accounted
    <3> QED BY <2>1, <3>1, <3>2, <3>3 DEF NothingMissed
  <2> QED BY <2>3, <2>4
<1>4. ASSUME NEW e \in Events, ClaimRunsOut(e) PROVE NothingMissed'
      BY <1>1, <1>4 DEF ClaimRunsOut, rankingVars, passVars
<1>5. ASSUME NEW w \in Workers, Pass(w) \/ WorkerFault(w) PROVE NothingMissed'
  <2>0. ~stalled
        BY <1>5 DEF Pass, WorkerFault, Handles, TakeLease, TakeLeaseTwice, Heartbeat, HeartbeatsStop,
            ClaimNext, ClaimOverrun, Claims, PassEnds, HandlePlain, CheckLatest, ReadRows, WriteRows,
            Publish, HandlerThrows, PoisonThrows, Releases, Crash
  <2>1. NothingMissed /\ NothingInvented /\ WorkerHasLease /\ ClaimIsKept
        BY <2>0 DEF RankingInv, LeaseInv
  <2>2. ASSUME Working(w) PROVE \A v \in Workers : v # w => step[v] = "IDLE"
        BY <2>1, <2>2, OnlyWorker DEF Working
  <2>3. CASE TakeLease(w)
        BY <1>1, <2>0, <2>3 DEF TakeLease, rankingVars
  <2>4. CASE TakeLeaseTwice(w) \/ Heartbeat(w) \/ HeartbeatsStop(w)
        BY <1>1, <2>0, <2>4 DEF TakeLeaseTwice, Heartbeat, HeartbeatsStop, rankingVars, passVars
  <2>5. CASE ClaimNext(w) \/ ClaimOverrun(w)
        BY <1>1, <2>0, <2>5 DEF ClaimNext, ClaimOverrun, Claims, rankingVars
  <2>6. CASE PassEnds(w)
        BY <1>1, <2>0, <2>6 DEF PassEnds, rankingVars
  <2>7. ASSUME Moves(w, "CLAIMED", "HANDLED"), UNCHANGED <<outbox, rankingVars>>,
               handling[w] \notin Triggers \/ ~(Waiting \subseteq {handling[w]})
        PROVE  NothingMissed'
    <3>1. /\ Decided' = Decided /\ Waiting' = Waiting /\ (UpToDate => UpToDate')
          /\ UNCHANGED <<calc, shown, staged, tainted>>
          BY <2>7, SameEvents, SameRanking DEF rankingVars
    <3>2. /\ handling' = handling /\ step'[w] = "HANDLED"
          /\ \A v \in Workers : v # w => step'[v] = step[v]
          BY <2>7 DEF Moves
    <3>3. ASSUME NEW v \in Workers PROVE Accounted(v)'
          BY <2>1, <2>7, <3>1, <3>2 DEF NothingMissed, Accounted
    <3> QED BY <2>1, <3>1, <3>3 DEF NothingMissed
  <2>8. CASE HandlePlain(w)
        BY <2>7, <2>8 DEF HandlePlain
  <2>9. CASE CheckLatest(w) /\ LatestPendingTrigger(handling[w])
        BY <1>1, <2>0, <2>9 DEF CheckLatest, Moves, rankingVars
  <2>10. CASE CheckLatest(w) /\ ~LatestPendingTrigger(handling[w])
    <3>1. handling[w] \in Events /\ \E f \in Waiting : f > handling[w]
          BY <2>10, EventsAssumption
          DEF CheckLatest, Moves, Busy, LatestPendingTrigger, Waiting, Pending, Events
    <3> QED BY <2>7, <2>10, <3>1, EventsAssumption DEF CheckLatest, Waiting, Pending, Events
  <2>11. CASE ReadRows(w)
    <3>1. /\ Working(w) /\ step'[w] = "READ" /\ handling' = handling
          /\ \A v \in Workers : v # w => step'[v] = step[v]
          BY <2>11 DEF ReadRows, Moves, Working
    <3>2. \A p \in Calculators : calc'[p] = calc[p] \/ calc'[p].rows = Decided
          BY <2>11 DEF ReadRows, Reads
    <3>3. Decided' = Decided /\ Waiting' = Waiting /\ (UpToDate => UpToDate')
          BY <2>11, <3>2, SameEvents, SameRanking DEF ReadRows
    <3>4. calc'[w].rows = Decided
          BY <1>0, <2>11 DEF ReadRows, Reads
    <3>5. ASSUME NEW v \in Workers PROVE Accounted(v)'
          BY <2>2, <3>1, <3>3, <3>4 DEF Accounted
    <3> QED BY <2>1, <3>3, <3>5 DEF NothingMissed
  <2>12. CASE WriteRows(w)
    <3>1. /\ Working(w) /\ step[w] = "READ" /\ step'[w] = "HANDLED" /\ handling' = handling
          /\ \A v \in Workers : v # w => step'[v] = step[v]
          BY <2>12 DEF WriteRows, Moves, Working
    <3>2. Waiting' = Waiting
          BY <2>12, SameEvents DEF WriteRows
    <3>3. Waiting \subseteq {handling[w]} => UpToDate'
          BY <1>0, <2>1, <2>12, <3>1, AfterWrite DEF WriteRows, NothingMissed, Accounted
    <3>4. ASSUME NEW v \in Workers PROVE Accounted(v)'
          BY <2>2, <3>1, <3>2, <3>3 DEF Accounted
    <3> QED BY <3>2, <3>3, <3>4 DEF NothingMissed
  <2>13. CASE Publish(w)
    <3> DEFINE e == handling[w]
    <3>1. /\ Working(w) /\ step[w] = "HANDLED" /\ step'[w] = "READY"
          /\ \A v \in Workers : v # w => step'[v] = step[v]
          BY <2>13 DEF Publish, Working
    <3>2. e \in Events /\ outbox[e] = "PENDING" /\ claim[e] = w
          BY <2>1, <3>1 DEF ClaimIsKept, Busy
    <3>3. outbox' = [outbox EXCEPT ![e] = "PUBLISHED"]
          BY <2>13, <3>2 DEF Publish
    <3>4. Decided' = Decided /\ Waiting' = Waiting \ {e}
          BY <3>2, <3>3 DEF Decided, Committed, Waiting, Pending
    <3>5. UpToDate => UpToDate'
          BY <2>13, <3>4, SameRanking DEF Publish, rankingVars
    <3>6. Waiting' = {} => UpToDate
      <4>1. CASE e \in Triggers
            BY <2>1, <3>1, <3>4, <4>1 DEF NothingMissed, Accounted
      <4>2. CASE e \notin Triggers
            BY <2>1, <3>4, <4>2 DEF NothingMissed, Waiting
      <4> QED BY <4>1, <4>2
    <3>7. ASSUME NEW v \in Workers PROVE Accounted(v)'
          BY <2>2, <3>1 DEF Accounted
    <3> QED BY <3>5, <3>6, <3>7 DEF NothingMissed
  <2>14. CASE (Releases(w) /\ step[w] \in Busy) \/ Crash(w)
    <3>1. /\ Working(w) /\ step'[w] \in {"READY", "IDLE"}
          /\ \A v \in Workers : v # w => step'[v] = step[v]
          /\ UNCHANGED <<outbox, shown, staged, tainted>>
          BY <2>14, BusyWorks DEF Releases, Crash
    <3>2. \A p \in Calculators : calc'[p] = calc[p] \/ calc'[p] = NotCalculating
          BY <2>14 DEF Releases, Crash
    <3>3. Waiting' = Waiting /\ (UpToDate => UpToDate')
          BY <3>1, <3>2, SameEvents, SameRanking
    <3>4. ASSUME NEW v \in Workers PROVE Accounted(v)'
          BY <2>2, <3>1 DEF Accounted
    <3> QED BY <2>1, <3>3, <3>4 DEF NothingMissed
  <2>15. CASE HandlerThrows(w) \/ PoisonThrows(w)
         BY <2>14, <2>15 DEF HandlerThrows, PoisonThrows, Busy
  <2> QED BY <1>5, <2>3, <2>4, <2>5, <2>6, <2>8, <2>9, <2>10, <2>11, <2>12, <2>13, <2>14, <2>15
          DEF Pass, WorkerFault, Handles
<1>6. ASSUME NEW p \in Recalculators, Recalculation(p) PROVE NothingMissed'
  <2>0. /\ p \in Calculators /\ p \notin Workers
        /\ UNCHANGED <<outbox, step, handling>>
        BY <1>0, <1>6
        DEF Recalculation, BeginRecalculation, EndRecalculation, RecalculationFails, passVars
  <2>1. NothingMissed /\ NothingInvented
        BY <1>6 DEF Recalculation, BeginRecalculation, EndRecalculation, RecalculationFails, RankingInv
  <2>2. Decided' = Decided /\ Waiting' = Waiting
        BY <2>0, SameEvents
  <2>3. ASSUME UpToDate => UpToDate', \A w \in Workers : calc'[w].rows = calc[w].rows
        PROVE  NothingMissed'
    <3>1. ASSUME NEW w \in Workers PROVE Accounted(w)'
          BY <2>0, <2>1, <2>2, <2>3 DEF NothingMissed, Accounted
    <3> QED BY <2>1, <2>2, <2>3, <3>1 DEF NothingMissed
  <2>4. CASE BeginRecalculation(p)
    <3>1. \A q \in Calculators : (q # p => calc'[q] = calc[q]) /\ (calc'[q] = calc[q] \/ calc'[q].rows = Decided)
          BY <2>4 DEF BeginRecalculation, Reads
    <3>2. UpToDate => UpToDate'
          BY <2>2, <2>4, <3>1, SameRanking DEF BeginRecalculation
    <3> QED BY <1>0, <2>0, <2>3, <3>1, <3>2
  <2>5. CASE EndRecalculation(p)
    <3>1. UpToDate => calc[p].overtaken \/ Decided \subseteq calc[p].rows
          BY <2>0, <2>5 DEF EndRecalculation, UpToDate
    <3>2. /\ UpToDate => UpToDate'
          /\ \A q \in Calculators : q # p => calc'[q].rows = calc[q].rows
          BY <2>0, <2>1, <2>5, <3>1, AfterWrite DEF EndRecalculation
    <3> QED BY <1>0, <2>0, <2>3, <3>2
  <2>6. CASE RecalculationFails(p)
    <3>1. \A q \in Calculators : (q # p => calc'[q] = calc[q]) /\ (calc'[q] = calc[q] \/ calc'[q] = NotCalculating)
          BY <2>6 DEF RecalculationFails
    <3>2. UpToDate => UpToDate'
          BY <2>2, <2>6, <3>1, SameRanking DEF RecalculationFails
    <3> QED BY <1>0, <2>0, <2>3, <3>1, <3>2
  <2> QED BY <1>6, <2>4, <2>5, <2>6 DEF Recalculation
<1>7. CASE UNCHANGED outboxVars
      BY <1>1, <1>7 DEF outboxVars, rankingVars, passVars
<1> QED BY <1>2, <1>3, <1>4, <1>5, <1>6, <1>7 DEF OutboxNext

LEMMA RankingStep == TypeInv /\ LeaseInv /\ RankingInv /\ [OutboxNext]_outboxVars => RankingInv'
BY InventedStep, MissedStep DEF RankingInv

----------------------------------------------------------------------------
(* Theorems. *)

(***************************************************************************)
(* Every variable keeps its type, with any number of servers and faults.   *)
(***************************************************************************)
THEOREM TypeCorrect == OutboxSpec => []OutboxTypeOK
<1>1. TypeInv => OutboxTypeOK
      BY DEF TypeInv
<1> QED BY TypeInit, TypeStep, <1>1, PTL DEF OutboxSpec

(***************************************************************************)
(* While the heartbeats of every pass come in time, one server delivers.   *)
(***************************************************************************)
THEOREM OneWorker == OutboxSpec => []OneWorkerDelivers
<1>1. LeaseInv => OneWorkerDelivers
      BY OnlyWorker DEF LeaseInv, OneWorkerDelivers
<1> QED BY TypeInit, TypeStep, LeaseInit, LeaseStep, <1>1, PTL DEF OutboxSpec

(***************************************************************************)
(* Once every trigger is published the last ranking knows every placement, *)
(* whatever was skipped, thrown, repeated or cut short by a crash before - *)
(* the claim of the comment on recalculateAfterPlacement.                  *)
(***************************************************************************)
THEOREM NothingIsMissed == OutboxSpec => []NoResultIsMissed
<1>1. RankingInv => NoResultIsMissed
  <2> SUFFICES ASSUME RankingInv, AllPublished, ~stalled, ~tainted PROVE Calculated = Decided
      BY DEF NoResultIsMissed
  <2>1. UpToDate /\ NothingInvented
        BY DEF RankingInv, NothingMissed, AllPublished, Waiting
  <2>2. Decided \subseteq Calculated
        BY <2>1 DEF UpToDate
  <2>3. Calculated \subseteq Decided
        BY <2>1 DEF NothingInvented, Calculated
  <2> QED BY <2>2, <2>3
<1> QED BY TypeInit, TypeStep, LeaseInit, LeaseStep, RankingInit, RankingStep, <1>1, PTL
        DEF OutboxSpec

(***************************************************************************)
(* What is displayed does not change on Sunday, but for newcomers and for  *)
(* a calculation that was asked for before.                                *)
(***************************************************************************)
THEOREM SundayStandsStill == OutboxSpec => DisplayStandsStill
<1> DEFINE Asked == \E p \in Calculators : calc[p].reading /\ calc[p].from = "WEEK"
           Stands == (day = "SUNDAY" /\ shown' \ Newcomers # shown \ Newcomers) => Asked
<1>1. TypeInv /\ [OutboxNext]_outboxVars => [Stands]_outboxVars
  <2> SUFFICES ASSUME TypeInv, OutboxNext PROVE Stands
      BY DEF outboxVars
  <2> USE DEF TypeInv, OutboxTypeOK, StepsAgree
  <2>1. ASSUME NEW p \in Calculators, WritesRanking(p), calc[p].reading PROVE Stands
    <3>1. CASE IsFrozen(calc[p].from)
      <4>1. shown' = (shown \ Newcomers) \cup (calc[p].rows \cap Newcomers)
            BY <2>1, <3>1 DEF WritesRanking
      <4> QED BY <4>1
    <3>2. CASE ~IsFrozen(calc[p].from)
          BY <2>1, <3>2 DEF IsFrozen, Calculations, Days
    <3> QED BY <3>1, <3>2
  <2>2. ASSUME UNCHANGED shown PROVE Stands
        BY <2>2
  <2>3. CASE SundayBegins \/ SundayEnds
        BY <2>2, <2>3 DEF SundayBegins, SundayEnds, rankingVars
  <2>4. ASSUME NEW e \in Events, Commit(e) \/ ClaimRunsOut(e) PROVE Stands
        BY <2>2, <2>4 DEF Commit, ClaimRunsOut, rankingVars
  <2>5. ASSUME NEW w \in Workers, Pass(w) \/ WorkerFault(w) PROVE Stands
    <3>1. CASE WriteRows(w)
          BY <2>1, <3>1 DEF WriteRows, Moves, Calculators
    <3>2. CASE ~WriteRows(w)
          BY <2>2, <2>5, <3>2
          DEF Pass, WorkerFault, Handles, TakeLease, TakeLeaseTwice, Heartbeat, HeartbeatsStop,
              ClaimNext, ClaimOverrun, Claims, PassEnds, HandlePlain, CheckLatest, ReadRows,
              Publish, HandlerThrows, PoisonThrows, Releases, Crash, rankingVars
    <3> QED BY <3>1, <3>2
  <2>6. ASSUME NEW p \in Recalculators, Recalculation(p) PROVE Stands
        BY <2>1, <2>2, <2>6
        DEF Recalculation, BeginRecalculation, EndRecalculation, RecalculationFails, Calculators
  <2> QED BY <2>3, <2>4, <2>5, <2>6 DEF OutboxNext
<1> QED BY TypeInit, TypeStep, <1>1, PTL DEF OutboxSpec, DisplayStandsStill
=============================================================================
