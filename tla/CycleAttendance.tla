--------------------------- MODULE CycleAttendance ---------------------------
(***************************************************************************)
(* How what a student submits becomes attendance of an access cycle.       *)
(*                                                                         *)
(* A request that finishes an attempt first writes an intent, a row of an  *)
(* outbox that names the attempt, and then the attempt itself, so that no  *)
(* attempt is ever without its intent.  Servers claim intents with a lease *)
(* of a minute, read the attempt, add an event to the document of its day  *)
(* and bring the progress of the cycle up to date, each a separate write   *)
(* that succeeds only if what was read before has not changed.  What fails *)
(* is tried again, and given up after so many attempts; an intent without  *)
(* its attempt is not given up within a day.                               *)
(*                                                                         *)
(* One cycle of one student is modelled.  Problems and minutes are reduced *)
(* to the events that count: attempts that have expired count for nothing, *)
(* and are left out, as are the thirtieth day and what a held or an        *)
(* invalid activity does, which no source reports.                         *)
(***************************************************************************)
EXTENDS Integers, FiniteSets

CONSTANTS
    Sources,        \* the attempts
    Answers,        \* what the requests that finish an attempt may put in it
    DateOf,         \* the date an attempt is submitted at
    LastDate,       \* bound: the last date of the cycle
    Resynced,       \* the attempts an iPad reports more than once
    Servers,        \* the workers
    Nothing,
    NeededEvents,   \* how many events make a day count (minRecognizedProblemsPerDay)
    MaxAttempts,    \* DEFAULT_MAX_ATTEMPTS
    MaxFailures     \* bound: how many crashes, failures and overruns there are

Dates == 1..LastDate

ASSUME SourcesAssumption ==
    /\ IsFiniteSet(Sources) /\ IsFiniteSet(Answers)
    /\ Nothing \notin Sources \cup Servers \cup Answers
    /\ Resynced \subseteq Sources

ASSUME LimitsAssumption ==
    /\ LastDate \in Nat
    /\ DateOf \in [Sources -> Dates]
    /\ {NeededEvents, MaxAttempts} \subseteq Nat \ {0}
    /\ MaxFailures \in Nat

VARIABLES
    submission, \* submission[s][c]: how far the request that stores c has come
    stored,     \* what the attempt holds
    outboxRow,  \* the OutboxEvent of an attempt
    worker,     \* what a server is doing, and what it remembers
    attendance, \* CycleAttendanceDay: the sourceEvents of a date
    progress,   \* cycleStreakDays and lastRecognizedAttendanceDate: the days of the streak
    late,       \* the attempts stored when their intent was a day old
    failures

requestVars == <<submission, stored, late>>
attendanceVars == <<requestVars, outboxRow, worker, attendance, progress, failures>>

NoIntent == [status |-> "NONE", by |-> Nothing, live |-> FALSE, attempts |-> 0,
             old |-> FALSE, error |-> "NONE"]
AtRest == [step |-> "IDLE", on |-> Nothing, old |-> FALSE, content |-> Nothing, seen |-> {},
           base |-> {}, run |-> {}, fresh |-> FALSE]
WorkSteps == {"IDLE", "CLAIMED", "ABSENT", "LOADED", "READ", "REFRESH", "CYCLE", "DERIVED",
              "RECORDED", "ERROR"}

Recorded(s) == \E c \in Answers : <<s, c>> \in attendance[DateOf[s]]
Recognized == {d \in Dates : Cardinality(attendance[d]) >= NeededEvents}

(* The last of the days, and those that precede it without a gap. *)
Streak(days) ==
    {d \in days : \A e \in Dates : (d <= e /\ \E f \in days : e <= f) => e \in days}

AttendanceInit ==
    /\ submission = [s \in Sources |-> [c \in Answers |-> "NEW"]]
    /\ stored = [s \in Sources |-> Nothing]
    /\ outboxRow = [s \in Sources |-> NoIntent]
    /\ worker = [w \in Servers |-> AtRest]
    /\ attendance = [d \in Dates |-> {}]
    /\ progress = {}
    /\ late = {}
    /\ failures = 0

At(w, step) == worker[w].step = step
Fails == failures < MaxFailures /\ failures' = failures + 1

----------------------------------------------------------------------------
(* Requests. *)

(* An intent is written once; one that was given up is taken up again, with its attempts. *)
Enqueues(s) ==
    outboxRow' = [outboxRow EXCEPT ![s] =
        IF @.status \in {"NONE", "DEAD"} THEN [@ EXCEPT !.status = "PENDING"] ELSE @]

AskForAttendance(s, c) ==
    /\ submission[s][c] = "NEW"
    /\ stored[s] = Nothing
    /\ Enqueues(s)
    /\ submission' = [submission EXCEPT ![s][c] = "ASKED"]
    /\ UNCHANGED <<stored, late, worker, attendance, progress, failures>>

(* The attempt is written whatever another request has written. *)
StoreSource(s, c) ==
    /\ submission[s][c] = "ASKED"
    /\ submission' = [submission EXCEPT ![s][c] = "DONE"]
    /\ stored' = [stored EXCEPT ![s] = c]
    /\ late' = IF outboxRow[s].old THEN late \cup {s} ELSE late
    /\ UNCHANGED <<outboxRow, worker, attendance, progress, failures>>

(* The request dies, or its write fails; the student may try again. *)
RequestFails(s, c) ==
    /\ submission[s][c] = "ASKED"
    /\ Fails
    /\ submission' = [submission EXCEPT ![s][c] = "NEW"]
    /\ UNCHANGED <<stored, late, outboxRow, worker, attendance, progress>>

(* An iPad sends again what it has sent before. *)
SyncAgain(s) ==
    /\ s \in Resynced
    /\ stored[s] # Nothing
    /\ Enqueues(s)
    /\ UNCHANGED <<requestVars, worker, attendance, progress, failures>>

----------------------------------------------------------------------------
(* Claims. *)

GrowsOld(s) ==
    /\ outboxRow[s].status # "NONE"
    /\ ~outboxRow[s].old
    /\ outboxRow' = [outboxRow EXCEPT ![s].old = TRUE]
    /\ UNCHANGED <<requestVars, worker, attendance, progress, failures>>

(***************************************************************************)
(* A minute passes.  A worker that goes on for so long without coming to   *)
(* its end does not extend its lease; one that is gone cannot.             *)
(***************************************************************************)
LeaseExpires(s) ==
    /\ outboxRow[s].live
    /\ worker[outboxRow[s].by].on # s
    /\ outboxRow' = [outboxRow EXCEPT ![s].live = FALSE]
    /\ UNCHANGED <<requestVars, worker, attendance, progress, failures>>

LeaseOverrun(s) ==
    /\ outboxRow[s].live
    /\ worker[outboxRow[s].by].on = s
    /\ Fails
    /\ outboxRow' = [outboxRow EXCEPT ![s].live = FALSE]
    /\ UNCHANGED <<requestVars, worker, attendance, progress>>

Claimable(s) ==
    \/ outboxRow[s].status \in {"PENDING", "FAILED"}
    \/ outboxRow[s].status = "PROCESSING" /\ ~outboxRow[s].live

(* Attempts beyond the greatest number make no difference. *)
ClaimIntent(w, s) ==
    /\ At(w, "IDLE")
    /\ Claimable(s)
    /\ outboxRow' = [outboxRow EXCEPT ![s].status = "PROCESSING", ![s].by = w, ![s].live = TRUE,
                                ![s].attempts = IF @ < MaxAttempts THEN @ + 1 ELSE @]
    /\ worker' = [worker EXCEPT ![w] = [AtRest EXCEPT !.step = "CLAIMED", !.on = s,
                                                      !.old = outboxRow[s].old]]
    /\ UNCHANGED <<requestVars, attendance, progress, failures>>

----------------------------------------------------------------------------
(* The delivery of a claimed intent. *)

(* A worker goes on with what it has on hand, and remembers what it needs from here. *)
Now(w, step) == [AtRest EXCEPT !.step = step, !.on = worker[w].on]
GoesOn(w, work) == worker' = [worker EXCEPT ![w] = work]

\* Defect: an attempt that is not stored is taken for one that is.
LoadAnySource(w) ==
    /\ At(w, "CLAIMED")
    /\ GoesOn(w, [Now(w, "LOADED") EXCEPT !.content = stored[worker[w].on]])
    /\ UNCHANGED <<requestVars, outboxRow, attendance, progress, failures>>

LoadSource(w) ==
    LET s == worker[w].on IN
    /\ At(w, "CLAIMED")
    /\ \/ /\ stored[s] = Nothing
          /\ GoesOn(w, [Now(w, "ABSENT") EXCEPT !.old = worker[w].old])
       \/ /\ stored[s] # Nothing
          /\ GoesOn(w, [Now(w, "LOADED") EXCEPT !.content = stored[s]])
    /\ UNCHANGED <<requestVars, outboxRow, attendance, progress, failures>>

(***************************************************************************)
(* The event is looked for, and then the document of its day.  An event of *)
(* other contents is a conflict; the same one need not be added again.     *)
(***************************************************************************)
ReadDay(w) ==
    LET s == worker[w].on
        c == worker[w].content
        events == attendance[DateOf[s]]
        there == {k \in Answers : <<s, k>> \in events}
    IN
    /\ At(w, "LOADED")
    /\ \/ there = {c} /\ GoesOn(w, Now(w, "REFRESH"))
       \/ there \notin {{}, {c}} /\ GoesOn(w, Now(w, "ERROR"))
       \/ /\ there = {}
          /\ GoesOn(w, [Now(w, "READ") EXCEPT !.content = c, !.seen = events])
    /\ UNCHANGED <<requestVars, outboxRow, attendance, progress, failures>>

\* Defect: the document is written back whether or not it has changed.
AddEventAnyway(w) ==
    LET s == worker[w].on IN
    /\ At(w, "READ")
    /\ GoesOn(w, Now(w, "REFRESH"))
    /\ attendance' = [attendance EXCEPT ![DateOf[s]] = worker[w].seen \cup {<<s, worker[w].content>>}]
    /\ UNCHANGED <<requestVars, outboxRow, progress, failures>>

(* One document per date, replaced if its version is still the one that was read. *)
AddEvent(w) ==
    LET s == worker[w].on
        d == DateOf[s]
    IN
    /\ At(w, "READ")
    /\ IF attendance[d] = worker[w].seen
       THEN /\ GoesOn(w, Now(w, "REFRESH"))
            /\ attendance' = [attendance EXCEPT ![d] = @ \cup {<<s, worker[w].content>>}]
       ELSE /\ GoesOn(w, [Now(w, "LOADED") EXCEPT !.content = worker[w].content])
            /\ UNCHANGED attendance
    /\ UNCHANGED <<requestVars, outboxRow, progress, failures>>

ReadCycle(w) ==
    /\ At(w, "REFRESH")
    /\ GoesOn(w, [Now(w, "CYCLE") EXCEPT !.base = progress, !.fresh = TRUE])
    /\ UNCHANGED <<requestVars, outboxRow, attendance, progress, failures>>

(* Nothing is written if the progress of the cycle is what the days say. *)
ReadRecognized(w) ==
    LET run == Streak(Recognized) IN
    /\ At(w, "CYCLE")
    /\ IF run = worker[w].base
       THEN GoesOn(w, Now(w, "RECORDED"))
       ELSE GoesOn(w, [Now(w, "DERIVED") EXCEPT !.run = run, !.fresh = worker[w].fresh])
    /\ UNCHANGED <<requestVars, outboxRow, attendance, progress, failures>>

\* Defect: the progress is written whether or not the cycle has changed.
WriteProgressAnyway(w) ==
    /\ At(w, "DERIVED")
    /\ GoesOn(w, Now(w, "RECORDED"))
    /\ progress' = worker[w].run
    /\ UNCHANGED <<requestVars, outboxRow, attendance, failures>>

(* The cycle, too, is written if its version is the one that was read. *)
WriteProgress(w) ==
    /\ At(w, "DERIVED")
    /\ IF worker[w].fresh
       THEN /\ progress' = worker[w].run
            /\ worker' = [v \in Servers |-> IF v = w THEN Now(w, "RECORDED")
                                           ELSE [worker[v] EXCEPT !.fresh = FALSE]]
       ELSE /\ GoesOn(w, Now(w, "REFRESH"))
            /\ UNCHANGED progress
    /\ UNCHANGED <<requestVars, outboxRow, attendance, failures>>

Owns(w, s) == outboxRow[s].status = "PROCESSING" /\ outboxRow[s].by = w
Rests(w) == GoesOn(w, AtRest)
Settled(s, status, error) ==
    outboxRow' = [outboxRow EXCEPT ![s].status = status, ![s].by = Nothing, ![s].live = FALSE,
                             ![s].error = error]

PublishIntent(w) ==
    LET s == worker[w].on IN
    /\ At(w, "RECORDED")
    /\ IF Owns(w, s) THEN Settled(s, "PUBLISHED", "NONE") ELSE UNCHANGED outboxRow
    /\ Rests(w)
    /\ UNCHANGED <<requestVars, attendance, progress, failures>>

\* Defect: an attempt that is missing is given up like any other.
MarkFailedAtOnce(w) ==
    LET s == worker[w].on
        missing == worker[w].step = "ABSENT"
        dead == outboxRow[s].attempts = MaxAttempts
    IN
    /\ worker[w].step \in {"ABSENT", "ERROR"}
    /\ IF Owns(w, s)
       THEN Settled(s, IF dead THEN "DEAD" ELSE "FAILED", IF missing THEN "MISSING" ELSE "OTHER")
       ELSE UNCHANGED outboxRow
    /\ Rests(w)
    /\ UNCHANGED <<requestVars, attendance, progress, failures>>

(* For a missing attempt the day of grace must be over, when the delivery began. *)
MarkFailed(w) ==
    LET s == worker[w].on
        missing == worker[w].step = "ABSENT"
        dead == outboxRow[s].attempts = MaxAttempts /\ (missing => worker[w].old)
    IN
    /\ worker[w].step \in {"ABSENT", "ERROR"}
    /\ IF Owns(w, s)
       THEN Settled(s, IF dead THEN "DEAD" ELSE "FAILED", IF missing THEN "MISSING" ELSE "OTHER")
       ELSE UNCHANGED outboxRow
    /\ Rests(w)
    /\ UNCHANGED <<requestVars, attendance, progress, failures>>

(* A read or a write fails, or is given up after eight conflicts. *)
DeliveryThrows(w) ==
    /\ worker[w].step \notin {"IDLE", "ABSENT", "ERROR"}
    /\ Fails
    /\ GoesOn(w, Now(w, "ERROR"))
    /\ UNCHANGED <<requestVars, outboxRow, attendance, progress>>

ServerDies(w) ==
    /\ ~At(w, "IDLE")
    /\ Fails
    /\ Rests(w)
    /\ UNCHANGED <<requestVars, outboxRow, attendance, progress>>

----------------------------------------------------------------------------
Delivers(w) ==
    \/ LoadSource(w) \/ ReadDay(w) \/ AddEvent(w) \/ ReadCycle(w) \/ ReadRecognized(w)
    \/ WriteProgress(w) \/ PublishIntent(w) \/ MarkFailed(w)

AttendanceNext ==
    \/ \E s \in Sources :
        \/ SyncAgain(s) \/ GrowsOld(s) \/ LeaseExpires(s) \/ LeaseOverrun(s)
        \/ \E c \in Answers : AskForAttendance(s, c) \/ StoreSource(s, c) \/ RequestFails(s, c)
        \/ \E w \in Servers : ClaimIntent(w, s)
    \/ \E w \in Servers : Delivers(w) \/ DeliveryThrows(w) \/ ServerDies(w)

AttendanceSpec == AttendanceInit /\ [][AttendanceNext]_attendanceVars

(***************************************************************************)
(* A delivery that is begun goes on, and leases run out.  Claims go by the *)
(* time of the next attempt, which a failure puts off: the intents whose   *)
(* attempts are stored are not passed over for ever.                       *)
(***************************************************************************)
ClaimStored == \E s \in Sources, w \in Servers : stored[s] # Nothing /\ ClaimIntent(w, s)
AttendanceFairness ==
    /\ \A w \in Servers : WF_attendanceVars(Delivers(w))
    /\ SF_attendanceVars(ClaimStored)
    /\ WF_attendanceVars(\E s \in Sources : LeaseExpires(s))

----------------------------------------------------------------------------
(* Properties. *)

SourceEvents == Sources \X Answers
Intents ==
    [status: {"NONE", "PENDING", "PROCESSING", "FAILED", "DEAD", "PUBLISHED"},
     by: Servers \cup {Nothing}, live: BOOLEAN, attempts: 0..MaxAttempts, old: BOOLEAN,
     error: {"NONE", "MISSING", "OTHER"}]
Work ==
    [step: WorkSteps, on: Sources \cup {Nothing}, old: BOOLEAN, content: Answers \cup {Nothing},
     seen: SUBSET SourceEvents, base: SUBSET Dates, run: SUBSET Dates, fresh: BOOLEAN]

(***************************************************************************)
(* The types.  An intent whose attempt is not stored never becomes         *)
(* attendance: an event holds what an attempt may hold.                    *)
(***************************************************************************)
AttendanceTypeOK ==
    /\ submission \in [Sources -> [Answers -> {"NEW", "ASKED", "DONE"}]]
    /\ stored \in [Sources -> Answers \cup {Nothing}]
    /\ outboxRow \in [Sources -> Intents]
    /\ worker \in [Servers -> Work]
    /\ attendance \in [Dates -> SUBSET SourceEvents]
    /\ progress \in SUBSET Dates
    /\ late \subseteq Sources
    /\ failures \in 0..MaxFailures

(***************************************************************************)
(* An intent is published only if its event is in the document of its day, *)
(* where no write of another event has dropped it, and an event is there   *)
(* once, however often it was delivered.                                   *)
(***************************************************************************)
PublishedIsRecorded ==
    \A s \in Sources :
        /\ outboxRow[s].status = "PUBLISHED" => Recorded(s)
        /\ \A c, k \in Answers :
            {<<s, c>>, <<s, k>>} \subseteq attendance[DateOf[s]] => c = k

(***************************************************************************)
(* When every recorded event is published, the progress of the cycle is    *)
(* what its days say, in whatever order the workers have read and written, *)
(* and wherever one was interrupted.                                       *)
(***************************************************************************)
ProgressIsCurrent ==
    (\A s \in Sources : Recorded(s) => outboxRow[s].status = "PUBLISHED")
        => progress = Streak(Recognized)

(***************************************************************************)
(* Where there is an attempt there is an intent that answers for it: the   *)
(* attempt becomes attendance, unless the intent was a day old when it was *)
(* stored, or is given up for another reason than that it was missing.     *)
(***************************************************************************)
GivenUp(s) == outboxRow[s].status = "DEAD" /\ outboxRow[s].error = "OTHER"
Becomes(s) == stored[s] # Nothing => Recorded(s) \/ GivenUp(s) \/ s \in late
StoredIsRecorded == []<>(\A s \in Sources : Becomes(s))
=============================================================================
