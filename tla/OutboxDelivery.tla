--------------------------- MODULE OutboxDelivery ---------------------------
(***************************************************************************)
(* The delivery of the Arena's outbox and the final ranking it keeps up.   *)
(*                                                                         *)
(* Every server runs the delivery on a timer, and a lease in the database  *)
(* lets one of them at a time do a pass.  A pass claims the oldest event   *)
(* that is not published, runs its handler, marks it published, and goes   *)
(* on to the next.  The events that matter most here are the triggers: a   *)
(* placement was decided, and the ranking of everybody must be calculated  *)
(* again - in one step that reads everything and, later, a transaction     *)
(* that writes what was calculated.  The daily job and the settlement of   *)
(* matches recalculate as well, without any lease.                         *)
(*                                                                         *)
(* From Sunday 15:00 the ranking on display stands still: a recalculation  *)
(* stores its result beside it, and the first one of Monday shows it.      *)
(* Only whose placement a ranking takes into account is modelled, not the  *)
(* ratings; the change of the season is left out.                          *)
(***************************************************************************)
EXTENDS Integers, FiniteSets

CONSTANTS
    Workers,        \* the servers that run the delivery
    Recalculators,  \* who recalculates without the outbox
    LastEvent,      \* bound: the outbox holds LastEvent events at most
    Triggers,       \* the events that ask for a new ranking
    Newcomers,      \* the triggers of students the ranking does not show yet
    MaxFaults,      \* bound: how many crashes, failures and stalls there are
    Nobody

Events == 1..LastEvent     \* numbered by createdAt, not by when they are committed
Days == {"WEEK", "SUNDAY"}
Calculators == Workers \cup Recalculators

ASSUME EventsAssumption ==
    /\ LastEvent \in Nat
    /\ Triggers \subseteq Events
    /\ Newcomers \subseteq Triggers

ASSUME WorkersAssumption ==
    /\ Nobody \notin Workers
    /\ Workers \cap Recalculators = {}

ASSUME FaultsAssumption == MaxFaults \in Nat

VARIABLES
    poison,     \* the events whose handler always throws
    day,        \* whether the clock is past 15:00 of a Sunday
    outbox,     \* status of an event
    stamp,      \* day of its createdAt
    claim,      \* whose processingToken an event carries
    lease,      \* SchedulerLease: whose token, and whether expiresAt is ahead
    step,       \* how far a worker has come
    handling,   \* the event it has claimed
    calc,       \* a recalculation between its reads and its transaction
    shown,      \* the triggers the published ranking takes into account
    staged,     \* those of the ranking that waits for Sunday to end
    stalled,    \* a worker has gone on for a whole lease without a heartbeat
    tainted,    \* another ranking was written while the last one was calculated
    faults

passVars == <<step, handling>>
rankingVars == <<calc, shown, staged, tainted>>
outboxVars == <<poison, day, outbox, stamp, claim, lease, passVars, rankingVars, stalled, faults>>

WorkerSteps == {"IDLE", "STARTED", "READY", "CLAIMED", "LATEST", "READ", "HANDLED"}
Free == [by |-> Nobody, live |-> FALSE]
NotCalculating == [reading |-> FALSE, rows |-> {}, from |-> "WEEK", overtaken |-> FALSE]
NoneStaged == [is |-> FALSE, rows |-> {}]

Committed == {e \in Events : outbox[e] # "NONE"}
Pending == {e \in Events : outbox[e] = "PENDING"}
Decided == Committed \cap Triggers      \* the placements that count
Working(w) == step[w] # "IDLE"

OutboxInit ==
    /\ poison \in SUBSET (Events \ Triggers)
    /\ day = "WEEK"
    /\ outbox = [e \in Events |-> "NONE"]
    /\ stamp = [e \in Events |-> "WEEK"]
    /\ claim = [e \in Events |-> Nobody]
    /\ lease = Free
    /\ step = [w \in Workers |-> "IDLE"]
    /\ handling = [w \in Workers |-> 0]
    /\ calc = [p \in Calculators |-> NotCalculating]
    /\ shown = {}
    /\ staged = NoneStaged
    /\ stalled = FALSE
    /\ tainted = FALSE
    /\ faults = 0

----------------------------------------------------------------------------
(* The clock, and the transactions that write an event with what they decide. *)

SundayBegins ==
    /\ day = "WEEK"
    /\ day' = "SUNDAY"
    /\ UNCHANGED <<poison, outbox, stamp, claim, lease, passVars, rankingVars, stalled, faults>>

SundayEnds ==
    /\ day = "SUNDAY"
    /\ day' = "WEEK"
    /\ UNCHANGED <<poison, outbox, stamp, claim, lease, passVars, rankingVars, stalled, faults>>

(* Events are committed in any order, whatever their createdAt. *)
Commit(e) ==
    /\ outbox[e] = "NONE"
    /\ outbox' = [outbox EXCEPT ![e] = "PENDING"]
    /\ stamp' = [stamp EXCEPT ![e] = IF e \in Triggers THEN day ELSE "WEEK"]
    /\ UNCHANGED <<poison, day, claim, lease, passVars, rankingVars, stalled, faults>>

----------------------------------------------------------------------------
(* The lease of the servers. *)

\* Defect: the lease is taken whether or not it has run out.
TakeAnyLease(w) ==
    /\ ~Working(w)
    /\ lease' = [by |-> w, live |-> TRUE]
    /\ step' = [step EXCEPT ![w] = "STARTED"]
    /\ UNCHANGED <<poison, day, outbox, stamp, claim, handling, rankingVars, stalled, faults>>

(***************************************************************************)
(* A lease that was given back or has run out goes to the first to ask.    *)
(* That of a server that has died runs out, so that some time after the    *)
(* death it can be had; that of a pass runs out if its heartbeats stop.    *)
(***************************************************************************)
TakeLease(w) ==
    /\ ~Working(w)
    /\ lease.live => ~Working(lease.by)
    /\ lease' = [by |-> w, live |-> TRUE]
    /\ step' = [step EXCEPT ![w] = "STARTED"]
    /\ UNCHANGED <<poison, day, outbox, stamp, claim, handling, rankingVars, stalled, faults>>

(***************************************************************************)
(* The timer fires again during a pass that has lost its lease: the server *)
(* takes a new one, finds that it is running already and gives it back, so *)
(* that the heartbeats of the pass find no lease of theirs any more.       *)
(***************************************************************************)
TakeLeaseTwice(w) ==
    /\ Working(w)
    /\ ~lease.live
    /\ lease' = Free
    /\ UNCHANGED <<poison, day, outbox, stamp, claim, passVars, rankingVars, stalled, faults>>

(* A heartbeat extends the lease by its token, even one that has run out. *)
Heartbeat(w) ==
    /\ Working(w)
    /\ lease = [by |-> w, live |-> FALSE]
    /\ lease' = [lease EXCEPT !.live = TRUE]
    /\ UNCHANGED <<poison, day, outbox, stamp, claim, passVars, rankingVars, stalled, faults>>

(* Three heartbeats in a row are late or fail, and nobody tells the pass. *)
HeartbeatsStop(w) ==
    /\ faults < MaxFaults
    /\ Working(w)
    /\ lease = [by |-> w, live |-> TRUE]
    /\ lease' = [lease EXCEPT !.live = FALSE]
    /\ stalled' = TRUE
    /\ faults' = faults + 1
    /\ UNCHANGED <<poison, day, outbox, stamp, claim, passVars, rankingVars>>

----------------------------------------------------------------------------
(* A pass. *)

\* Defect: a claim holds until the event is published.
ClaimHolds(e) ==
    /\ claim[e] # Nobody
    /\ handling[claim[e]] # e
    /\ UNCHANGED outboxVars

(* A worker that is gone no longer looks after its claim, which runs out in two minutes. *)
ClaimRunsOut(e) ==
    /\ claim[e] # Nobody
    /\ handling[claim[e]] # e
    /\ claim' = [claim EXCEPT ![e] = Nobody]
    /\ UNCHANGED <<poison, day, outbox, stamp, lease, passVars, rankingVars, stalled, faults>>

Claims(w, e) ==
    /\ step[w] \in {"STARTED", "READY"}
    /\ step' = [step EXCEPT ![w] = "CLAIMED"]
    /\ claim' = [claim EXCEPT ![e] = w]
    /\ handling' = [handling EXCEPT ![w] = e]
    /\ UNCHANGED <<poison, day, outbox, stamp, lease, rankingVars, stalled>>

FreeEvents == {e \in Pending : claim[e] = Nobody}

(* The oldest event that nobody has claimed. *)
ClaimNext(w) ==
    /\ \E e \in FreeEvents : (\A f \in FreeEvents : e <= f) /\ Claims(w, e)
    /\ UNCHANGED faults

(* An event older than those, whose worker is alive and busy with it for two minutes. *)
ClaimOverrun(w) ==
    /\ faults < MaxFaults
    /\ faults' = faults + 1
    /\ \E e \in Pending :
        /\ \E v \in Workers \ {w} : claim[e] = v /\ handling[v] = e
        /\ \A f \in FreeEvents : e < f
        /\ Claims(w, e)

(***************************************************************************)
(* Nothing is left to claim, or the pass has made the hundred claims it    *)
(* may make, one in any case: the lease is given back if it is still held. *)
(***************************************************************************)
PassEnds(w) ==
    /\ step[w] = "READY" \/ (step[w] = "STARTED" /\ FreeEvents = {})
    /\ lease' = IF lease.by = w THEN Free ELSE lease
    /\ step' = [step EXCEPT ![w] = "IDLE"]
    /\ UNCHANGED <<poison, day, outbox, stamp, claim, handling, rankingVars, stalled, faults>>

Moves(w, from, to) ==
    /\ step[w] = from
    /\ step' = [step EXCEPT ![w] = to]
    /\ UNCHANGED handling

(* An event without a handler, or with one that has nothing to do with the ranking. *)
HandlePlain(w) ==
    /\ handling[w] \notin Triggers \cup poison
    /\ Moves(w, "CLAIMED", "HANDLED")
    /\ UNCHANGED <<poison, day, outbox, stamp, claim, lease, rankingVars, stalled, faults>>

\* Defect: a later trigger counts even if it has been published.
LatestTrigger(e) == \A f \in Decided : f <= e

(* No trigger of a later createdAt waits. *)
LatestPendingTrigger(e) == \A f \in Pending \cap Triggers : f <= e

(* A trigger with a later one behind it leaves the calculation to that one. *)
CheckLatest(w) ==
    /\ handling[w] \in Triggers
    /\ IF LatestPendingTrigger(handling[w])
       THEN Moves(w, "CLAIMED", "LATEST")
       ELSE Moves(w, "CLAIMED", "HANDLED")
    /\ UNCHANGED <<poison, day, outbox, stamp, claim, lease, rankingVars, stalled, faults>>

\* Defect: every event counts as a placement.
ReadsEveryEvent(p, from) ==
    calc' = [calc EXCEPT ![p] = [reading |-> TRUE, rows |-> Committed, from |-> from,
                                 overtaken |-> FALSE]]

(* Everything the rows are made of is read, for the moment `from`. *)
Reads(p, from) ==
    calc' = [calc EXCEPT ![p] = [reading |-> TRUE, rows |-> Decided, from |-> from,
                                 overtaken |-> FALSE]]

(* The ranking a trigger asks for is one of the moment it was created at. *)
ReadRows(w) ==
    /\ Moves(w, "LATEST", "READ")
    /\ Reads(w, stamp[handling[w]])
    /\ UNCHANGED <<poison, day, outbox, stamp, claim, lease, shown, staged, tainted, stalled, faults>>

\* Defect: the two cases are taken for each other.
FrozenInTheWeek(from) == from = "WEEK"

IsFrozen(from) == from = "SUNDAY"

(***************************************************************************)
(* The transaction.  Frozen, the rows go beside the ranking on display; a  *)
(* student without a profile has nothing to keep and is shown at once, and *)
(* one the rows do not know disappears.  Otherwise the rows are displayed. *)
(***************************************************************************)
WritesRanking(p) ==
    /\ IF IsFrozen(calc[p].from)
       THEN /\ shown' = (shown \ Newcomers) \cup (calc[p].rows \cap Newcomers)
            /\ staged' = [is |-> TRUE, rows |-> calc[p].rows]
       ELSE /\ shown' = calc[p].rows
            /\ staged' = NoneStaged
    /\ tainted' = calc[p].overtaken
    /\ calc' = [q \in Calculators |->
                    IF q = p THEN NotCalculating
                    ELSE [calc[q] EXCEPT !.overtaken = calc[q].reading]]

WriteRows(w) ==
    /\ Moves(w, "READ", "HANDLED")
    /\ WritesRanking(w)
    /\ UNCHANGED <<poison, day, outbox, stamp, claim, lease, stalled, faults>>

(* The event is published if the claim is still this one's. *)
Publish(w) ==
    LET e == handling[w]
        mine == outbox[e] = "PENDING" /\ claim[e] = w
    IN
    /\ step[w] = "HANDLED"
    /\ outbox' = IF mine THEN [outbox EXCEPT ![e] = "PUBLISHED"] ELSE outbox
    /\ claim' = IF mine THEN [claim EXCEPT ![e] = Nobody] ELSE claim
    /\ step' = [step EXCEPT ![w] = "READY"]
    /\ handling' = [handling EXCEPT ![w] = 0]
    /\ UNCHANGED <<poison, day, stamp, lease, rankingVars, stalled, faults>>

Releases(w) ==
    LET e == handling[w] IN
    /\ claim' = IF outbox[e] = "PENDING" /\ claim[e] = w
                THEN [claim EXCEPT ![e] = Nobody] ELSE claim
    /\ calc' = [calc EXCEPT ![w] = NotCalculating]
    /\ step' = [step EXCEPT ![w] = "READY"]
    /\ handling' = [handling EXCEPT ![w] = 0]
    /\ UNCHANGED <<poison, day, outbox, stamp, lease, shown, staged, tainted, stalled>>

(* The handler throws: the event is free again and, if it is the oldest, the next claimed. *)
HandlerThrows(w) ==
    /\ step[w] \in {"CLAIMED", "LATEST", "READ"}
    /\ faults < MaxFaults
    /\ faults' = faults + 1
    /\ Releases(w)

PoisonThrows(w) ==
    /\ step[w] = "CLAIMED"
    /\ handling[w] \in poison
    /\ Releases(w)
    /\ UNCHANGED faults

(* The server dies: what it has claimed and its lease stay until they run out. *)
Crash(w) ==
    /\ faults < MaxFaults
    /\ Working(w)
    /\ faults' = faults + 1
    /\ step' = [step EXCEPT ![w] = "IDLE"]
    /\ handling' = [handling EXCEPT ![w] = 0]
    /\ calc' = [calc EXCEPT ![w] = NotCalculating]
    /\ UNCHANGED <<poison, day, outbox, stamp, claim, lease, shown, staged, tainted, stalled>>

----------------------------------------------------------------------------
(* The recalculations of the daily job and of settled matches, for the present moment. *)

BeginRecalculation(p) ==
    /\ ~calc[p].reading
    /\ Reads(p, day)
    /\ UNCHANGED <<poison, day, outbox, stamp, claim, lease, passVars, shown, staged, tainted,
                   stalled, faults>>

EndRecalculation(p) ==
    /\ calc[p].reading
    /\ WritesRanking(p)
    /\ UNCHANGED <<poison, day, outbox, stamp, claim, lease, passVars, stalled, faults>>

RecalculationFails(p) ==
    /\ calc[p].reading
    /\ faults < MaxFaults
    /\ faults' = faults + 1
    /\ calc' = [calc EXCEPT ![p] = NotCalculating]
    /\ UNCHANGED <<poison, day, outbox, stamp, claim, lease, passVars, shown, staged, tainted, stalled>>

----------------------------------------------------------------------------
Handles(w) ==
    \/ HandlePlain(w) \/ CheckLatest(w) \/ ReadRows(w) \/ WriteRows(w)
    \/ Publish(w) \/ PoisonThrows(w)

Pass(w) ==
    TakeLease(w) \/ ClaimNext(w) \/ Handles(w) \/ PassEnds(w)

WorkerFault(w) ==
    \/ TakeLeaseTwice(w) \/ Heartbeat(w) \/ HeartbeatsStop(w)
    \/ ClaimOverrun(w) \/ HandlerThrows(w) \/ Crash(w)

Recalculation(p) ==
    BeginRecalculation(p) \/ EndRecalculation(p) \/ RecalculationFails(p)

OutboxNext ==
    \/ SundayBegins \/ SundayEnds
    \/ \E e \in Events : Commit(e) \/ ClaimRunsOut(e)
    \/ \E w \in Workers : Pass(w) \/ WorkerFault(w)
    \/ \E p \in Recalculators : Recalculation(p)

OutboxSpec == OutboxInit /\ [][OutboxNext]_outboxVars

(***************************************************************************)
(* Every server keeps running passes, and a claim that nobody looks after  *)
(* runs out.  That faults end is the bound MaxFaults.                      *)
(***************************************************************************)
OutboxFairness ==
    /\ \A w \in Workers : WF_outboxVars(Pass(w))
    /\ WF_outboxVars(\E e \in Events : ClaimRunsOut(e))

----------------------------------------------------------------------------
(* Properties. *)

Calculations ==
    [reading: BOOLEAN, rows: SUBSET Triggers, from: Days, overtaken: BOOLEAN]

OutboxTypeOK ==
    /\ poison \subseteq Events \ Triggers
    /\ day \in Days
    /\ outbox \in [Events -> {"NONE", "PENDING", "PUBLISHED"}]
    /\ stamp \in [Events -> Days]
    /\ claim \in [Events -> Workers \cup {Nobody}]
    /\ lease \in [by: Workers \cup {Nobody}, live: BOOLEAN]
    /\ step \in [Workers -> WorkerSteps]
    /\ handling \in [Workers -> Events \cup {0}]
    /\ calc \in [Calculators -> Calculations]
    /\ shown \subseteq Triggers
    /\ staged \in [is: BOOLEAN, rows: SUBSET Triggers]
    /\ stalled \in BOOLEAN
    /\ tainted \in BOOLEAN
    /\ faults \in 0..MaxFaults

(***************************************************************************)
(* As long as the heartbeats of a pass come in time, no second server      *)
(* makes a pass, crashes, restarts and lost claims included.               *)
(***************************************************************************)
OneWorkerDelivers ==
    ~stalled => \A v, w \in Workers : Working(v) /\ Working(w) => v = w

Calculated == IF staged.is THEN staged.rows ELSE shown
AllPublished == Pending \cap Triggers = {}

(***************************************************************************)
(* "Only the last unpublished trigger is really calculated ... a race      *)
(* means one more calculation, no result is missed": once every trigger    *)
(* is published, the last ranking knows every placement, whatever was      *)
(* skipped, repeated or interrupted - unless two servers delivered at      *)
(* once or the last ranking was calculated while another was written.      *)
(***************************************************************************)
NoResultIsMissed == (AllPublished /\ ~stalled /\ ~tainted) => Calculated = Decided

(***************************************************************************)
(* The ranking on display stands still on Sunday, but for the students it  *)
(* does not show yet and for what was asked of it before Sunday.           *)
(***************************************************************************)
DisplayStandsStill ==
    [][(day = "SUNDAY" /\ shown' \ Newcomers # shown \ Newcomers)
            => \E p \in Calculators : calc[p].reading /\ calc[p].from = "WEEK"]_outboxVars

(***************************************************************************)
(* Every event is published in the end, through crashes, failures and      *)
(* stalled servers, but for those behind an event that always fails.       *)
(***************************************************************************)
Deliverable == {e \in Pending : \A f \in poison \cap Pending : f > e}
OutboxDrains == []<>(Deliverable = {})
=============================================================================
