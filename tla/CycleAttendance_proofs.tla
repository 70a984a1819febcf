----------------------- MODULE CycleAttendance_proofs -----------------------
(***************************************************************************)
(* Proofs about CycleAttendance, for any number of attempts, days, servers *)
(* and failures.  Attendance only grows, and with it the streak, in an     *)
(* order in which a streak that ends later is greater.  So a worker that   *)
(* finds the progress it has read to be what the days say knows that no    *)
(* other has left it behind; and as long as the progress is behind, there  *)
(* is an intent still to be delivered that will bring it up to date.       *)
(* Attendance and intents account for the attempts: a request leaves an    *)
(* intent before it stores anything, and a worker waits for the attempt.   *)
(***************************************************************************)
EXTENDS CycleAttendance, FiniteSetTheorems, WellFoundedInduction, TLAPS

(* What a worker has on hand at each step. *)
WorkAgrees ==
    \A w \in Servers :
        /\ worker[w].step # "IDLE" => worker[w].on \in Sources
        /\ worker[w].step \in {"LOADED", "READ"} => worker[w].content \in Answers

TypeInv == AttendanceTypeOK /\ WorkAgrees

(* A worker on its way to publish has found the event, and one that adds it has not. *)
EventsAgree ==
    \A w \in Servers :
        /\ worker[w].step \in {"REFRESH", "CYCLE", "DERIVED", "RECORDED"} => Recorded(worker[w].on)
        /\ worker[w].step = "READ" => \A k \in Answers : <<worker[w].on, k>> \notin worker[w].seen

RecordInv == PublishedIsRecorded /\ EventsAgree

(* One streak is behind another if it is part of it, or has ended before. *)
Behind(P, Q) == P \subseteq Q \/ \E q \in Q : \A p \in P : p < q

(* An attempt whose event is recorded and whose delivery is still to see to the progress. *)
Awaits(s) ==
    /\ Recorded(s)
    /\ outboxRow[s].status # "PUBLISHED"
    /\ \A w \in Servers : worker[w].step = "RECORDED" => worker[w].on # s

(* No progress is ahead of the days, and none that was read is ahead of the one there is. *)
InOrder ==
    /\ Behind(progress, Streak(Recognized))
    /\ \A w \in Servers :
        /\ worker[w].step = "CYCLE" => Behind(worker[w].base, progress)
        /\ worker[w].step = "DERIVED" /\ worker[w].fresh
            => Behind(progress, worker[w].run) /\ Behind(worker[w].run, Streak(Recognized))

(* What is written, or about to be, is up to date, unless another delivery is to follow. *)
UpToDate ==
    /\ progress = Streak(Recognized) \/ \E s \in Sources : Awaits(s)
    /\ \A w \in Servers :
        worker[w].step = "DERIVED" /\ worker[w].fresh
            => \/ worker[w].run = Streak(Recognized)
               \/ \E s \in Sources : s # worker[w].on /\ Awaits(s)

ProgressInv == InOrder /\ UpToDate

----------------------------------------------------------------------------
(* Streaks. *)

(* Where there are days there is a last one: the one that the fewest come after. *)
LEMMA LastOne ==
    ASSUME NEW D \in SUBSET Dates, D # {}
    PROVE  \E m \in D : \A d \in D : d <= m
<1> DEFINE After(d) == {x \in D : d < x}
           T == {After(d) : d \in D}
<1>1. IsWellFoundedOn(StrictSubsetOrdering(Dates), SUBSET Dates)
  <2>1. IsFiniteSet(Dates)
        BY FS_Interval, LimitsAssumption DEF Dates
  <2> QED BY <2>1, FS_FiniteSubsetsOfFinite, FS_StrictSubsetOrderingWellFounded
<1>2. T \subseteq SUBSET Dates /\ T # {}
      OBVIOUS
<1>3. PICK t \in T : \A u \in T : <<u, t>> \notin StrictSubsetOrdering(Dates)
  <2> HIDE DEF T
  <2> QED BY <1>1, <1>2, WFMin
<1>4. PICK m \in D : t = After(m)
      BY <1>3
<1>5. ASSUME NEW d \in D, m < d
      PROVE  FALSE
  <2>1. After(d) \in T /\ After(d) \in SUBSET Dates /\ t \in SUBSET Dates
        BY <1>4
  <2>2. After(d) \subseteq t /\ d \in t /\ d \notin After(d)
        BY <1>4, <1>5 DEF Dates
  <2>3. <<After(d), t>> \in StrictSubsetOrdering(Dates)
    <3> HIDE DEF After
    <3> QED BY <2>1, <2>2 DEF StrictSubsetOrdering
  <2> QED BY <1>3, <2>1, <2>3
<1>6. \A d \in D : d <= m
      BY <1>5, LimitsAssumption DEF Dates
<1> QED BY <1>6

LEMMA BehindTransitive ==
    ASSUME NEW P \in SUBSET Dates, NEW Q \in SUBSET Dates, NEW R \in SUBSET Dates,
           Behind(P, Q), Behind(Q, R)
    PROVE  Behind(P, R)
<1>1. CASE P \subseteq Q /\ Q \subseteq R
      BY <1>1 DEF Behind
<1>2. ASSUME P \subseteq Q, NEW r \in R, \A q \in Q : q < r
      PROVE  Behind(P, R)
      BY <1>2 DEF Behind
<1>3. ASSUME NEW q \in Q, \A p \in P : p < q, Q \subseteq R
      PROVE  Behind(P, R)
      BY <1>3 DEF Behind
<1>4. ASSUME NEW q \in Q, \A p \in P : p < q, NEW r \in R, \A x \in Q : x < r
      PROVE  Behind(P, R)
  <2>1. \A p \in P : p < r
        BY <1>4 DEF Dates
  <2> QED BY <2>1 DEF Behind
<1> QED BY <1>1, <1>2, <1>3, <1>4 DEF Behind

LEMMA BehindAntisymmetric ==
    ASSUME NEW P \in SUBSET Dates, NEW Q \in SUBSET Dates, Behind(P, Q), Behind(Q, P)
    PROVE  P = Q
<1>1. ~(\E q \in Q : \A p \in P : p < q) \/ ~(\E p \in P : \A q \in Q : q < p)
      BY DEF Dates
<1>2. ~(Q \subseteq P /\ \E q \in Q : \A p \in P : p < q)
      BY DEF Dates
<1>3. ~(P \subseteq Q /\ \E p \in P : \A q \in Q : q < p)
      BY DEF Dates
<1> QED BY <1>1, <1>2, <1>3 DEF Behind

LEMMA BehindReflexive == ASSUME NEW P PROVE Behind(P, P)
BY DEF Behind

(* More days, and the streak is longer or ends later. *)
LEMMA StreakGrows ==
    ASSUME NEW D \in SUBSET Dates, NEW E \in SUBSET Dates, D \subseteq E
    PROVE  Behind(Streak(D), Streak(E))
<1> SUFFICES ASSUME NEW d \in Streak(D), d \notin Streak(E)
             PROVE  \E q \in Streak(E) : \A p \in Streak(D) : p < q
    BY DEF Behind
<1>1. d \in D /\ d \in E
      BY DEF Streak
<1>2. PICK e \in Dates, f \in E : d <= e /\ e <= f /\ e \notin E
      BY <1>1 DEF Streak
<1>3. \A x \in D : x < e
      BY <1>2 DEF Streak, Dates
<1>4. PICK m \in E : \A x \in E : x <= m
      BY <1>1, LastOne
<1>5. m \in Streak(E)
      BY <1>4 DEF Streak, Dates
<1>6. \A p \in Streak(D) : p < m
      BY <1>2, <1>3, <1>4 DEF Streak, Dates
<1> QED BY <1>5, <1>6

LEMMA StreakType == \A D \in SUBSET Dates : Streak(D) \in SUBSET Dates
BY DEF Streak

LEMMA RecognizedType == Recognized \in SUBSET Dates
BY DEF Recognized

(* With the events of a day, the days that count can only become more. *)
LEMMA RecognizedGrows ==
    ASSUME attendance' \in [Dates -> SUBSET SourceEvents],
           \A d \in Dates : attendance[d] \subseteq attendance'[d]
    PROVE  Behind(Streak(Recognized), Streak(Recognized'))
<1>1. Recognized \subseteq Recognized'
  <2> SUFFICES ASSUME NEW d \in Dates, Cardinality(attendance[d]) >= NeededEvents
               PROVE  Cardinality(attendance'[d]) >= NeededEvents
      BY DEF Recognized
  <2>1. IsFiniteSet(SourceEvents)
        BY FS_Product, SourcesAssumption DEF SourceEvents
  <2>2. IsFiniteSet(attendance'[d])
        BY <2>1, FS_Subset
  <2>3. /\ IsFiniteSet(attendance[d])
        /\ Cardinality(attendance[d]) <= Cardinality(attendance'[d])
        BY <2>2, FS_Subset
  <2>4. Cardinality(attendance[d]) \in Nat /\ Cardinality(attendance'[d]) \in Nat
        BY <2>2, <2>3, FS_CardinalityType
  <2> QED BY <2>3, <2>4, LimitsAssumption
<1>2. Recognized \in SUBSET Dates /\ Recognized' \in SUBSET Dates
      BY DEF Recognized
<1>3. \A D, E \in SUBSET Dates : D \subseteq E => Behind(Streak(D), Streak(E))
      BY StreakGrows
<1> QED BY <1>1, <1>2, <1>3 DEF Streak

----------------------------------------------------------------------------
(* Types. *)

LEMMA TypeInit == AttendanceInit => TypeInv
BY SourcesAssumption, LimitsAssumption
   DEF AttendanceInit, TypeInv, AttendanceTypeOK, WorkAgrees, NoIntent, AtRest, Intents, Work,
       WorkSteps

LEMMA RestTyped == AtRest \in Work /\ AtRest.step = "IDLE"
BY DEF AtRest, Work, WorkSteps

(* What a worker that goes on to a step remembers of before. *)
LEMMA NowTyped ==
    ASSUME TypeInv, NEW w \in Servers, ~At(w, "IDLE"), NEW step \in WorkSteps
    PROVE  /\ worker[w].on \in Sources
           /\ Now(w, step) \in Work
           /\ Now(w, step).step = step
           /\ Now(w, step).on = worker[w].on
<1>1. worker[w].on \in Sources
      BY DEF TypeInv, WorkAgrees, At
<1>2. AtRest \in Work
      BY DEF AtRest, Work, WorkSteps
<1> QED BY <1>1, <1>2 DEF Now, Work

(* What is done to an intent. *)
LEMMA RowTyped ==
    ASSUME TypeInv, NEW s \in Sources
    PROVE  /\ outboxRow[s] \in Intents
           /\ [outboxRow[s] EXCEPT !.status = "PENDING"] \in Intents
           /\ [outboxRow[s] EXCEPT !.live = FALSE] \in Intents
           /\ [outboxRow[s] EXCEPT !.old = TRUE] \in Intents
<1>1. outboxRow[s] \in Intents
      BY DEF TypeInv, AttendanceTypeOK
<1> QED BY <1>1 DEF Intents

LEMMA EnqueuesTyped ==
    ASSUME TypeInv, NEW s \in Sources, Enqueues(s)
    PROVE  /\ outboxRow' \in [Sources -> Intents]
           /\ \A r \in Sources : outboxRow'[r].status = "PUBLISHED" <=> outboxRow[r].status = "PUBLISHED"
<1> DEFINE row == [outboxRow[s] EXCEPT !.status = "PENDING"]
<1>1. row \in Intents /\ row.status = "PENDING" /\ outboxRow \in [Sources -> Intents]
  <2>1. outboxRow \in [Sources -> Intents] /\ outboxRow[s] \in Intents
        BY DEF TypeInv, AttendanceTypeOK
  <2> QED BY <2>1 DEF Intents
<1>2. \/ UNCHANGED outboxRow
      \/ outboxRow[s].status # "PUBLISHED" /\ outboxRow' = [outboxRow EXCEPT ![s] = row]
  <2>1. CASE outboxRow[s].status \in {"NONE", "DEAD"}
        BY <2>1 DEF Enqueues
  <2>2. CASE outboxRow[s].status \notin {"NONE", "DEAD"}
        BY <1>1, <2>2 DEF Enqueues
  <2> QED BY <2>1, <2>2
<1> HIDE DEF row
<1> QED BY <1>1, <1>2

LEMMA SettledTyped ==
    ASSUME TypeInv, NEW s \in Sources, NEW status \in {"PUBLISHED", "DEAD", "FAILED"},
           NEW error \in {"NONE", "MISSING", "OTHER"}, Settled(s, status, error)
    PROVE  /\ outboxRow' \in [Sources -> Intents]
           /\ outboxRow'[s].status = status
           /\ \A r \in Sources : r # s => outboxRow'[r] = outboxRow[r]
<1> DEFINE row == [outboxRow[s] EXCEPT !.status = status, !.by = Nothing, !.live = FALSE,
                                      !.error = error]
<1>1. outboxRow \in [Sources -> Intents] /\ outboxRow[s] \in Intents
      BY DEF TypeInv, AttendanceTypeOK
<1>2. row \in Intents /\ row.status = status
      BY <1>1 DEF Intents
<1>3. outboxRow' = [outboxRow EXCEPT ![s] = row]
      BY DEF Settled
<1> HIDE DEF row
<1> QED BY <1>1, <1>2, <1>3

LEMMA GoesOnTyped ==
    ASSUME TypeInv, NEW w \in Servers, NEW work \in Work, GoesOn(w, work),
           work.step # "IDLE" => work.on \in Sources,
           work.step \in {"LOADED", "READ"} => work.content \in Answers
    PROVE  worker' \in [Servers -> Work] /\ WorkAgrees'
BY DEF TypeInv, AttendanceTypeOK, WorkAgrees, GoesOn

(* A step that a worker goes on to without remembering anything. *)
LEMMA NowGoesOnTyped ==
    ASSUME TypeInv, NEW w \in Servers, ~At(w, "IDLE"), NEW step \in WorkSteps,
           step \notin {"LOADED", "READ"}, GoesOn(w, Now(w, step))
    PROVE  worker' \in [Servers -> Work] /\ WorkAgrees'
<1>1. Now(w, step).step = step /\ Now(w, step).on \in Sources /\ Now(w, step) \in Work
      BY NowTyped
<1> QED BY <1>1, GoesOnTyped

LEMMA TypeNext == TypeInv /\ [AttendanceNext]_attendanceVars => TypeInv'
<1> SUFFICES ASSUME TypeInv, [AttendanceNext]_attendanceVars
             PROVE  TypeInv'
    OBVIOUS
<1> USE DEF TypeInv, AttendanceTypeOK
<1>1. ASSUME NEW s \in Sources, NEW c \in Answers, AskForAttendance(s, c)
      PROVE  TypeInv'
  <2>1. outboxRow' \in [Sources -> Intents]
        BY <1>1, EnqueuesTyped DEF AskForAttendance
  <2> QED BY <1>1, <2>1 DEF AskForAttendance, WorkAgrees
<1>2. ASSUME NEW s \in Sources, NEW c \in Answers, StoreSource(s, c)
      PROVE  TypeInv'
      BY <1>2 DEF StoreSource, WorkAgrees
<1>3. ASSUME NEW s \in Sources, NEW c \in Answers, RequestFails(s, c)
      PROVE  TypeInv'
      BY <1>3, LimitsAssumption DEF RequestFails, Fails, WorkAgrees
<1>4. ASSUME NEW s \in Sources, SyncAgain(s)
      PROVE  TypeInv'
  <2>1. outboxRow' \in [Sources -> Intents]
        BY <1>4, EnqueuesTyped DEF SyncAgain
  <2> QED BY <1>4, <2>1 DEF SyncAgain, requestVars, WorkAgrees
<1>5. ASSUME NEW s \in Sources, GrowsOld(s) \/ LeaseExpires(s)
      PROVE  TypeInv'
  <2>1. outboxRow' \in [Sources -> Intents]
        BY <1>5, RowTyped DEF GrowsOld, LeaseExpires
  <2> QED BY <1>5, <2>1 DEF GrowsOld, LeaseExpires, requestVars, WorkAgrees
<1>6. ASSUME NEW s \in Sources, LeaseOverrun(s)
      PROVE  TypeInv'
  <2>1. outboxRow' \in [Sources -> Intents]
        BY <1>6, RowTyped DEF LeaseOverrun
  <2> QED BY <1>6, <2>1, LimitsAssumption DEF LeaseOverrun, Fails, requestVars, WorkAgrees
<1>7. ASSUME NEW w \in Servers, NEW s \in Sources, ClaimIntent(w, s)
      PROVE  TypeInv'
  <2> DEFINE work == [AtRest EXCEPT !.step = "CLAIMED", !.on = s, !.old = outboxRow[s].old]
             row == [outboxRow[s] EXCEPT !.status = "PROCESSING", !.by = w, !.live = TRUE,
                        !.attempts = IF @ < MaxAttempts THEN @ + 1 ELSE @]
  <2>1. work \in Work /\ work.step = "CLAIMED" /\ work.on = s
        BY DEF AtRest, Work, WorkSteps, Intents
  <2>2. row \in Intents
    <3>1. outboxRow[s].attempts \in 0..MaxAttempts /\ MaxAttempts \in Nat
          BY LimitsAssumption DEF Intents
    <3>2. (IF outboxRow[s].attempts < MaxAttempts THEN outboxRow[s].attempts + 1
           ELSE outboxRow[s].attempts) \in 0..MaxAttempts
          BY <3>1
    <3> QED BY ZenonT(60), <3>2 DEF Intents
  <2>3. worker' = [worker EXCEPT ![w] = work] /\ outboxRow' = [outboxRow EXCEPT ![s] = row]
        BY <1>7 DEF ClaimIntent
  <2> HIDE DEF work, row
  <2>4. worker' \in [Servers -> Work] /\ WorkAgrees'
        BY <2>1, <2>3, GoesOnTyped DEF GoesOn
  <2>5. outboxRow' \in [Sources -> Intents]
        BY <2>2, <2>3
  <2>6. UNCHANGED <<submission, stored, late, attendance, progress, failures>>
        BY <1>7 DEF ClaimIntent, requestVars
  <2> QED BY <2>4, <2>5, <2>6
<1>8. ASSUME NEW w \in Servers, LoadSource(w)
      PROVE  TypeInv'
  <2> DEFINE s == worker[w].on
             absent == [Now(w, "ABSENT") EXCEPT !.old = worker[w].old]
             loaded == [Now(w, "LOADED") EXCEPT !.content = stored[s]]
  <2>1. ~At(w, "IDLE") /\ s \in Sources
        BY <1>8, NowTyped DEF LoadSource, At, WorkAgrees
  <2>2. absent \in Work /\ absent.step = "ABSENT" /\ absent.on \in Sources
    <3>1. Now(w, "ABSENT") \in Work /\ Now(w, "ABSENT").step = "ABSENT" /\ Now(w, "ABSENT").on = s
          BY <2>1, NowTyped DEF WorkSteps
    <3>2. worker[w].old \in BOOLEAN
          BY DEF Work
    <3> QED BY <2>1, <3>1, <3>2 DEF Work
  <2>3. loaded \in Work /\ loaded.step = "LOADED" /\ loaded.on \in Sources
        /\ loaded.content = stored[s]
    <3>1. Now(w, "LOADED") \in Work /\ Now(w, "LOADED").step = "LOADED" /\ Now(w, "LOADED").on = s
          BY <2>1, NowTyped DEF WorkSteps
    <3>2. stored[s] \in Answers \cup {Nothing}
          BY <2>1
    <3> QED BY <2>1, <3>1, <3>2 DEF Work
  <2>4. \/ GoesOn(w, absent)
        \/ stored[s] # Nothing /\ GoesOn(w, loaded)
        BY <1>8 DEF LoadSource
  <2>5. stored[s] # Nothing => stored[s] \in Answers
        BY <2>1
  <2> HIDE DEF absent, loaded
  <2>6. worker' \in [Servers -> Work] /\ WorkAgrees'
        BY <2>2, <2>3, <2>4, <2>5, GoesOnTyped
  <2> QED BY <1>8, <2>6 DEF LoadSource, requestVars
<1>9. ASSUME NEW w \in Servers, ReadDay(w)
      PROVE  TypeInv'
  <2> DEFINE s == worker[w].on
             c == worker[w].content
             read == [Now(w, "READ") EXCEPT !.content = c, !.seen = attendance[DateOf[s]]]
  <2>1. ~At(w, "IDLE") /\ s \in Sources /\ c \in Answers
        BY <1>9 DEF ReadDay, At, WorkAgrees
  <2>2. attendance[DateOf[s]] \subseteq SourceEvents
        BY <2>1, LimitsAssumption
  <2>3. read \in Work /\ read.step = "READ" /\ read.on \in Sources /\ read.content = c
    <3>1. Now(w, "READ") \in Work /\ Now(w, "READ").step = "READ" /\ Now(w, "READ").on = s
          BY <2>1, NowTyped DEF WorkSteps
    <3> QED BY <2>1, <2>2, <3>1 DEF Work
  <2>4. \/ GoesOn(w, Now(w, "REFRESH"))
        \/ GoesOn(w, Now(w, "ERROR"))
        \/ GoesOn(w, read)
        BY <1>9 DEF ReadDay
  <2> HIDE DEF read
  <2>5. worker' \in [Servers -> Work] /\ WorkAgrees'
    <3>1. CASE GoesOn(w, Now(w, "REFRESH"))
          BY <2>1, <3>1, NowGoesOnTyped DEF WorkSteps
    <3>2. CASE GoesOn(w, Now(w, "ERROR"))
          BY <2>1, <3>2, NowGoesOnTyped DEF WorkSteps
    <3>3. CASE GoesOn(w, read)
          BY <2>1, <2>3, <3>3, GoesOnTyped
    <3> QED BY <2>4, <3>1, <3>2, <3>3
  <2> QED BY <1>9, <2>5 DEF ReadDay, requestVars
<1>10. ASSUME NEW w \in Servers, AddEvent(w)
       PROVE  TypeInv'
  <2> DEFINE s == worker[w].on
             c == worker[w].content
             again == [Now(w, "LOADED") EXCEPT !.content = c]
  <2>1. ~At(w, "IDLE") /\ s \in Sources /\ c \in Answers
        BY <1>10 DEF AddEvent, At, WorkAgrees
  <2>2. again \in Work /\ again.step = "LOADED" /\ again.on \in Sources /\ again.content = c
    <3>1. Now(w, "LOADED") \in Work /\ Now(w, "LOADED").step = "LOADED" /\ Now(w, "LOADED").on = s
          BY <2>1, NowTyped DEF WorkSteps
    <3> QED BY <2>1, <3>1 DEF Work
  <2>3. \/ GoesOn(w, Now(w, "REFRESH"))
        \/ GoesOn(w, again)
        BY <1>10 DEF AddEvent
  <2> HIDE DEF again
  <2>4. worker' \in [Servers -> Work] /\ WorkAgrees'
    <3>1. CASE GoesOn(w, Now(w, "REFRESH"))
          BY <2>1, <3>1, NowGoesOnTyped DEF WorkSteps
    <3>2. CASE GoesOn(w, again)
          BY <2>1, <2>2, <3>2, GoesOnTyped
    <3> QED BY <2>3, <3>1, <3>2
  <2>5. attendance' \in [Dates -> SUBSET SourceEvents]
    <3>1. DateOf[s] \in Dates /\ <<s, c>> \in SourceEvents
          BY <2>1, LimitsAssumption DEF SourceEvents
    <3>2. \/ UNCHANGED attendance
          \/ attendance' = [attendance EXCEPT ![DateOf[s]] = @ \cup {<<s, c>>}]
          BY <1>10 DEF AddEvent
    <3>3. attendance[DateOf[s]] \cup {<<s, c>>} \in SUBSET SourceEvents
          BY <3>1
    <3> QED BY <3>1, <3>2, <3>3
  <2> QED BY <1>10, <2>4, <2>5 DEF AddEvent, requestVars
<1>11. ASSUME NEW w \in Servers, ReadCycle(w)
       PROVE  TypeInv'
  <2> DEFINE work == [Now(w, "CYCLE") EXCEPT !.base = progress, !.fresh = TRUE]
  <2>1. ~At(w, "IDLE")
        BY <1>11 DEF ReadCycle, At
  <2>2. work \in Work /\ work.step = "CYCLE" /\ work.on \in Sources
    <3>1. Now(w, "CYCLE") \in Work /\ Now(w, "CYCLE").step = "CYCLE"
          /\ Now(w, "CYCLE").on = worker[w].on /\ worker[w].on \in Sources
          BY <2>1, NowTyped DEF WorkSteps
    <3> QED BY <3>1 DEF Work
  <2>3. GoesOn(w, work)
        BY <1>11 DEF ReadCycle
  <2> HIDE DEF work
  <2>4. worker' \in [Servers -> Work] /\ WorkAgrees'
        BY <2>2, <2>3, GoesOnTyped
  <2> QED BY <1>11, <2>4 DEF ReadCycle, requestVars
<1>12. ASSUME NEW w \in Servers, ReadRecognized(w)
       PROVE  TypeInv'
  <2> DEFINE work == [Now(w, "DERIVED") EXCEPT !.run = Streak(Recognized),
                                               !.fresh = worker[w].fresh]
  <2>1. ~At(w, "IDLE")
        BY <1>12 DEF ReadRecognized, At
  <2>2. Streak(Recognized) \in SUBSET Dates /\ worker[w].fresh \in BOOLEAN
        BY StreakType, RecognizedType DEF Work
  <2>3. work \in Work /\ work.step = "DERIVED" /\ work.on \in Sources
    <3>1. Now(w, "DERIVED") \in Work /\ Now(w, "DERIVED").step = "DERIVED"
          /\ Now(w, "DERIVED").on = worker[w].on /\ worker[w].on \in Sources
          BY <2>1, NowTyped DEF WorkSteps
    <3> QED BY <2>2, <3>1 DEF Work
  <2>4. GoesOn(w, Now(w, "RECORDED")) \/ GoesOn(w, work)
        BY <1>12 DEF ReadRecognized
  <2> HIDE DEF work
  <2>5. worker' \in [Servers -> Work] /\ WorkAgrees'
    <3>1. CASE GoesOn(w, Now(w, "RECORDED"))
          BY <2>1, <3>1, NowGoesOnTyped DEF WorkSteps
    <3>2. CASE GoesOn(w, work)
          BY <2>3, <3>2, GoesOnTyped
    <3> QED BY <2>4, <3>1, <3>2
  <2> QED BY <1>12, <2>5 DEF ReadRecognized, requestVars
<1>13. ASSUME NEW w \in Servers, WriteProgress(w)
       PROVE  TypeInv'
  <2>1. ~At(w, "IDLE") /\ worker[w].run \in SUBSET Dates
        BY <1>13 DEF WriteProgress, At, Work
  <2>2. Now(w, "RECORDED") \in Work /\ Now(w, "RECORDED").step = "RECORDED"
        /\ Now(w, "RECORDED").on \in Sources
        BY <2>1, NowTyped DEF WorkSteps
  <2>3. CASE worker[w].fresh
    <3>1. worker' = [v \in Servers |-> IF v = w THEN Now(w, "RECORDED")
                                        ELSE [worker[v] EXCEPT !.fresh = FALSE]]
          BY <1>13, <2>3 DEF WriteProgress
    <3>2. \A v \in Servers :
             LET q == [worker[v] EXCEPT !.fresh = FALSE]
             IN  q \in Work /\ q.step = worker[v].step /\ q.on = worker[v].on
                 /\ q.content = worker[v].content
          BY DEF Work
    <3>3. worker' \in [Servers -> Work] /\ WorkAgrees'
          BY <2>2, <3>1, <3>2 DEF WorkAgrees
    <3> QED BY <1>13, <2>1, <2>3, <3>3 DEF WriteProgress, requestVars
  <2>4. CASE ~worker[w].fresh
    <3>1. worker' \in [Servers -> Work] /\ WorkAgrees'
          BY <1>13, <2>1, <2>4, NowGoesOnTyped DEF WriteProgress, WorkSteps
    <3> QED BY <1>13, <2>4, <3>1 DEF WriteProgress, requestVars
  <2> QED BY <2>3, <2>4
<1>14. ASSUME NEW w \in Servers, PublishIntent(w) \/ MarkFailed(w)
       PROVE  TypeInv'
  <2>1. worker' \in [Servers -> Work] /\ WorkAgrees'
        BY <1>14, RestTyped, GoesOnTyped DEF PublishIntent, MarkFailed, Rests
  <2>2. worker[w].on \in Sources
        BY <1>14 DEF PublishIntent, MarkFailed, At, WorkAgrees
  <2>3. outboxRow' \in [Sources -> Intents]
    <3>1. \/ UNCHANGED outboxRow
          \/ Settled(worker[w].on, "PUBLISHED", "NONE")
          \/ \E status \in {"DEAD", "FAILED"}, error \in {"MISSING", "OTHER"} :
                Settled(worker[w].on, status, error)
          BY <1>14 DEF PublishIntent, MarkFailed
    <3> QED BY <2>2, <3>1, SettledTyped
  <2> QED BY <1>14, <2>1, <2>3 DEF PublishIntent, MarkFailed, requestVars
<1>15. ASSUME NEW w \in Servers, DeliveryThrows(w)
       PROVE  TypeInv'
  <2>1. worker' \in [Servers -> Work] /\ WorkAgrees'
        BY <1>15, NowGoesOnTyped DEF DeliveryThrows, At, WorkSteps
  <2> QED BY <1>15, <2>1, LimitsAssumption DEF DeliveryThrows, Fails, requestVars
<1>16. ASSUME NEW w \in Servers, ServerDies(w)
       PROVE  TypeInv'
  <2>1. worker' \in [Servers -> Work] /\ WorkAgrees'
        BY <1>16, RestTyped, GoesOnTyped DEF ServerDies, Rests
  <2> QED BY <1>16, <2>1, LimitsAssumption DEF ServerDies, Fails, requestVars
<1>17. CASE UNCHANGED attendanceVars
       BY <1>17 DEF attendanceVars, requestVars, WorkAgrees
<1> QED BY <1>1, <1>2, <1>3, <1>4, <1>5, <1>6, <1>7, <1>8, <1>9, <1>10, <1>11, <1>12, <1>13,
           <1>14, <1>15, <1>16, <1>17 DEF AttendanceNext, Delivers

(***************************************************************************)
(* An intent whose attempt is not stored never becomes attendance          *)
(* (loadAttendanceSource), whatever the requests, workers and failures.    *)
(***************************************************************************)
THEOREM AttendanceTypes == AttendanceSpec => []AttendanceTypeOK
<1>1. TypeInv => AttendanceTypeOK
      BY DEF TypeInv
<1> QED BY <1>1, TypeInit, TypeNext, PTL DEF AttendanceSpec

----------------------------------------------------------------------------
(* Records and progress. *)

Inv == TypeInv /\ RecordInv /\ ProgressInv

LEMMA InvInit == AttendanceInit => Inv
<1> SUFFICES ASSUME AttendanceInit PROVE Inv
    OBVIOUS
<1>1. TypeInv
      BY TypeInit
<1>2. RecordInv
      BY LimitsAssumption
      DEF AttendanceInit, RecordInv, PublishedIsRecorded, EventsAgree, NoIntent, AtRest
<1>3. Recognized = {}
      BY FS_EmptySet, LimitsAssumption DEF AttendanceInit, Recognized
<1>4. Streak({}) = {}
      BY DEF Streak
<1>5. ProgressInv
      BY <1>3, <1>4 DEF AttendanceInit, ProgressInv, InOrder, UpToDate, Behind, AtRest
<1> QED BY <1>1, <1>2, <1>5 DEF Inv

(***************************************************************************)
(* Steps that leave the days and the progress as they are, publish nothing *)
(* and bring no worker on the way from the cycle to its progress.          *)
(***************************************************************************)
Aside(v) ==
    \/ worker'[v] = worker[v]
    \/ /\ worker'[v].step \notin {"CYCLE", "DERIVED", "RECORDED"}
       /\ worker'[v].step = "REFRESH" => Recorded(worker'[v].on)
       /\ worker'[v].step = "READ" => \A k \in Answers : <<worker'[v].on, k>> \notin worker'[v].seen

NoneNewlyPublished ==
    \A s \in Sources : outboxRow'[s].status = "PUBLISHED" => outboxRow[s].status = "PUBLISHED"

LEMMA StandsAside ==
    ASSUME RecordInv, ProgressInv, UNCHANGED <<attendance, progress>>, NoneNewlyPublished,
           \A v \in Servers : Aside(v)
    PROVE  RecordInv' /\ ProgressInv'
<1>1. /\ \A s : Recorded(s)' <=> Recorded(s)
      /\ Streak(Recognized)' = Streak(Recognized)
      BY DEF Recorded, Recognized, Streak
<1>2. RecordInv'
  <2>1. PublishedIsRecorded'
        BY <1>1 DEF RecordInv, PublishedIsRecorded, NoneNewlyPublished
  <2>2. EventsAgree'
        BY <1>1 DEF RecordInv, EventsAgree, Aside, Recorded
  <2> QED BY <2>1, <2>2 DEF RecordInv
<1>3. \A s \in Sources : Awaits(s) => Awaits(s)'
      BY <1>1 DEF Awaits, NoneNewlyPublished, Aside
<1>4. \A v \in Servers :
          worker'[v].step \in {"CYCLE", "DERIVED"} => worker'[v] = worker[v]
      BY DEF Aside
<1>5. InOrder'
      BY <1>1, <1>4 DEF ProgressInv, InOrder, Behind
<1>6. UpToDate'
      BY <1>1, <1>3, <1>4 DEF ProgressInv, UpToDate
<1> QED BY <1>2, <1>5, <1>6 DEF ProgressInv

(* A worker that goes on leaves the others where they are. *)
LEMMA OthersStay ==
    ASSUME TypeInv, NEW w \in Servers, NEW work, GoesOn(w, work)
    PROVE  worker'[w] = work /\ \A v \in Servers : v # w => worker'[v] = worker[v]
BY DEF TypeInv, AttendanceTypeOK, GoesOn

(* What only requests, leases and claims do. *)
LEMMA RequestStep ==
    ASSUME Inv, NEW s \in Sources,
           \/ SyncAgain(s) \/ GrowsOld(s) \/ LeaseExpires(s) \/ LeaseOverrun(s)
           \/ \E c \in Answers : AskForAttendance(s, c) \/ StoreSource(s, c) \/ RequestFails(s, c)
    PROVE  RecordInv' /\ ProgressInv'
<1> USE DEF Inv
<1>1. UNCHANGED <<attendance, progress, worker>>
      BY DEF SyncAgain, GrowsOld, LeaseExpires, LeaseOverrun, AskForAttendance, StoreSource,
             RequestFails
<1>2. NoneNewlyPublished
  <2>1. CASE Enqueues(s)
        BY <2>1, EnqueuesTyped DEF NoneNewlyPublished
  <2>2. CASE UNCHANGED outboxRow
        BY <2>2 DEF NoneNewlyPublished
  <2>3. CASE GrowsOld(s) \/ LeaseExpires(s) \/ LeaseOverrun(s)
    <3>1. outboxRow \in [Sources -> Intents] /\ outboxRow[s] \in Intents
          BY DEF TypeInv, AttendanceTypeOK
    <3>2. \/ outboxRow' = [outboxRow EXCEPT ![s].old = TRUE]
          \/ outboxRow' = [outboxRow EXCEPT ![s].live = FALSE]
          BY <2>3 DEF GrowsOld, LeaseExpires, LeaseOverrun
    <3> QED BY <3>1, <3>2 DEF NoneNewlyPublished, Intents
  <2> QED BY <2>1, <2>2, <2>3 DEF SyncAgain, AskForAttendance, StoreSource, RequestFails
<1>3. \A v \in Servers : Aside(v)
      BY <1>1 DEF Aside
<1> QED BY <1>1, <1>2, <1>3, StandsAside

LEMMA ClaimStep ==
    ASSUME Inv, NEW w \in Servers, NEW s \in Sources, ClaimIntent(w, s)
    PROVE  RecordInv' /\ ProgressInv'
<1> USE DEF Inv
<1>1. UNCHANGED <<attendance, progress>>
      BY DEF ClaimIntent
<1>2. NoneNewlyPublished
  <2> DEFINE row == [outboxRow[s] EXCEPT !.status = "PROCESSING", !.by = w, !.live = TRUE,
                        !.attempts = IF @ < MaxAttempts THEN @ + 1 ELSE @]
  <2>1. outboxRow \in [Sources -> Intents] /\ outboxRow[s] \in Intents
        BY DEF TypeInv, AttendanceTypeOK
  <2>2. row.status = "PROCESSING"
        BY <2>1 DEF Intents
  <2>3. outboxRow' = [outboxRow EXCEPT ![s] = row]
        BY DEF ClaimIntent
  <2> HIDE DEF row
  <2> QED BY <2>1, <2>2, <2>3 DEF NoneNewlyPublished
<1>3. \A v \in Servers : Aside(v)
  <2> DEFINE work == [AtRest EXCEPT !.step = "CLAIMED", !.on = s, !.old = outboxRow[s].old]
  <2>1. work.step = "CLAIMED"
        BY DEF AtRest
  <2>2. GoesOn(w, work)
        BY DEF ClaimIntent, GoesOn
  <2> HIDE DEF work
  <2> QED BY <2>1, <2>2, OthersStay DEF Aside
<1> QED BY <1>1, <1>2, <1>3, StandsAside

(* The end of a delivery that is not published. *)
LEMMA GiveUpStep ==
    ASSUME Inv, NEW w \in Servers, MarkFailed(w) \/ DeliveryThrows(w) \/ ServerDies(w)
    PROVE  RecordInv' /\ ProgressInv'
<1> USE DEF Inv
<1>1. UNCHANGED <<attendance, progress>>
      BY DEF MarkFailed, DeliveryThrows, ServerDies
<1>2. NoneNewlyPublished
  <2>1. worker[w].step # "IDLE" => worker[w].on \in Sources
        BY DEF TypeInv, WorkAgrees
  <2>2. \/ UNCHANGED outboxRow
        \/ /\ worker[w].step # "IDLE"
           /\ \E status \in {"DEAD", "FAILED"}, error \in {"MISSING", "OTHER"} :
                 Settled(worker[w].on, status, error)
        BY DEF MarkFailed, DeliveryThrows, ServerDies
  <2> QED BY <2>1, <2>2, SettledTyped DEF NoneNewlyPublished
<1>3. \A v \in Servers : Aside(v)
  <2>1. \/ GoesOn(w, AtRest)
        \/ ~At(w, "IDLE") /\ GoesOn(w, Now(w, "ERROR"))
    <3>1. CASE MarkFailed(w)
          BY <3>1 DEF MarkFailed, Rests
    <3>2. CASE DeliveryThrows(w)
          BY <3>2 DEF DeliveryThrows, At
    <3>3. CASE ServerDies(w)
          BY <3>3 DEF ServerDies, Rests
    <3> QED BY <3>1, <3>2, <3>3
  <2>2. ~At(w, "IDLE") => Now(w, "ERROR").step = "ERROR"
        BY NowTyped DEF WorkSteps
  <2>3. CASE GoesOn(w, AtRest)
        BY <2>3, RestTyped, OthersStay DEF Aside
  <2>4. CASE ~At(w, "IDLE") /\ GoesOn(w, Now(w, "ERROR"))
        BY <2>2, <2>4, OthersStay DEF Aside
  <2> QED BY <2>1, <2>3, <2>4
<1> QED BY <1>1, <1>2, <1>3, StandsAside

(* The delivery, up to the document of the day. *)
LEMMA LoadStep ==
    ASSUME Inv, NEW w \in Servers, LoadSource(w)
    PROVE  RecordInv' /\ ProgressInv'
<1> USE DEF Inv
<1>1. UNCHANGED <<attendance, progress, outboxRow>>
      BY DEF LoadSource
<1>2. \A v \in Servers : Aside(v)
  <2> DEFINE absent == [Now(w, "ABSENT") EXCEPT !.old = worker[w].old]
             loaded == [Now(w, "LOADED") EXCEPT !.content = stored[worker[w].on]]
  <2>1. /\ Now(w, "ABSENT") \in Work /\ Now(w, "ABSENT").step = "ABSENT"
        /\ Now(w, "LOADED") \in Work /\ Now(w, "LOADED").step = "LOADED"
        BY NowTyped DEF LoadSource, At, WorkSteps
  <2>2. absent.step = "ABSENT" /\ loaded.step = "LOADED"
        BY <2>1 DEF Work
  <2>3. GoesOn(w, absent) \/ GoesOn(w, loaded)
        BY DEF LoadSource
  <2> HIDE DEF absent, loaded
  <2> QED BY <2>2, <2>3, OthersStay DEF Aside
<1> QED BY <1>1, <1>2, StandsAside DEF NoneNewlyPublished

LEMMA ReadStep ==
    ASSUME Inv, NEW w \in Servers, ReadDay(w)
    PROVE  RecordInv' /\ ProgressInv'
<1> USE DEF Inv
<1> DEFINE s == worker[w].on
           c == worker[w].content
           read == [Now(w, "READ") EXCEPT !.content = c, !.seen = attendance[DateOf[s]]]
<1>1. UNCHANGED <<attendance, progress, outboxRow>>
      BY DEF ReadDay
<1>2. ~At(w, "IDLE") /\ c \in Answers /\ s \in Sources
      BY DEF ReadDay, At, TypeInv, WorkAgrees
<1>3. /\ Now(w, "REFRESH").step = "REFRESH" /\ Now(w, "REFRESH").on = s
      /\ Now(w, "ERROR").step = "ERROR"
      /\ Now(w, "READ") \in Work /\ Now(w, "READ").step = "READ" /\ Now(w, "READ").on = s
      BY <1>2, NowTyped DEF WorkSteps
<1>4. read.step = "READ" /\ read.on = s /\ read.seen = attendance[DateOf[s]]
      BY <1>3 DEF Work
<1>5. \/ GoesOn(w, Now(w, "REFRESH")) /\ Recorded(s)
      \/ GoesOn(w, Now(w, "ERROR"))
      \/ GoesOn(w, read) /\ \A k \in Answers : <<s, k>> \notin attendance[DateOf[s]]
  <2> DEFINE there == {k \in Answers : <<s, k>> \in attendance[DateOf[s]]}
  <2>1. \/ there = {c} /\ GoesOn(w, Now(w, "REFRESH"))
        \/ GoesOn(w, Now(w, "ERROR"))
        \/ there = {} /\ GoesOn(w, read)
        BY DEF ReadDay
  <2>2. there = {c} => Recorded(s)
        BY <1>2 DEF Recorded
  <2>3. there = {} => \A k \in Answers : <<s, k>> \notin attendance[DateOf[s]]
        OBVIOUS
  <2> QED BY <2>1, <2>2, <2>3
<1>6. \A v \in Servers : Aside(v)
  <2> HIDE DEF read
  <2>1. CASE GoesOn(w, Now(w, "REFRESH")) /\ Recorded(s)
        BY <1>3, <2>1, OthersStay DEF Aside
  <2>2. CASE GoesOn(w, Now(w, "ERROR"))
        BY <1>3, <2>2, OthersStay DEF Aside
  <2>3. CASE GoesOn(w, read) /\ \A k \in Answers : <<s, k>> \notin attendance[DateOf[s]]
        BY <1>4, <2>3, OthersStay DEF Aside
  <2> QED BY <1>5, <2>1, <2>2, <2>3
<1> QED BY <1>1, <1>6, StandsAside DEF NoneNewlyPublished

(***************************************************************************)
(* The event is added to a document in which there was none of its attempt *)
(* (persistAttendanceEvent), so that its intent is not published, and is   *)
(* on no worker's hands to publish: a delivery that is to follow.          *)
(***************************************************************************)
LEMMA EventAdded ==
    ASSUME Inv, NEW w \in Servers, AddEvent(w),
           NEW s \in Sources, s = worker[w].on, NEW c \in Answers, c = worker[w].content,
           attendance[DateOf[s]] = worker[w].seen
    PROVE  RecordInv' /\ ProgressInv'
<1> USE DEF Inv
<1> DEFINE d == DateOf[s]
<1>0. /\ At(w, "READ") /\ ~At(w, "IDLE") /\ d \in Dates
      /\ UNCHANGED <<progress, outboxRow>>
      /\ attendance \in [Dates -> SUBSET SourceEvents]
      BY LimitsAssumption DEF AddEvent, At, TypeInv, AttendanceTypeOK
<1>1. attendance' = [attendance EXCEPT ![d] = @ \cup {<<s, c>>}]
      BY <1>0 DEF AddEvent
<1>2. /\ worker'[w].step = "REFRESH" /\ worker'[w].on = s
      /\ \A v \in Servers : v # w => worker'[v] = worker[v]
  <2>1. GoesOn(w, Now(w, "REFRESH"))
        BY <1>0 DEF AddEvent
  <2>2. Now(w, "REFRESH").step = "REFRESH" /\ Now(w, "REFRESH").on = s
        BY <1>0, NowTyped DEF WorkSteps
  <2> QED BY <2>1, <2>2, OthersStay
<1>3. \A k \in Answers : <<s, k>> \notin attendance[d]
      BY <1>0 DEF RecordInv, EventsAgree, At
<1>4. outboxRow[s].status # "PUBLISHED"
      BY <1>0, <1>3 DEF RecordInv, PublishedIsRecorded, Recorded
<1>5. \A v \in Servers :
         worker[v].step \in {"REFRESH", "CYCLE", "DERIVED", "RECORDED"} => worker[v].on # s
      BY <1>3 DEF RecordInv, EventsAgree, Recorded
<1>6. /\ attendance' \in [Dates -> SUBSET SourceEvents]
      /\ \A e \in Dates : attendance[e] \subseteq attendance'[e]
      /\ \A r \in Sources, k \in Answers, e \in Dates :
            <<r, k>> \in attendance'[e] =>
                <<r, k>> \in attendance[e] \/ (r = s /\ k = c /\ e = d)
      /\ <<s, c>> \in attendance'[d]
      BY <1>0, <1>1 DEF SourceEvents
<1>7. /\ \A r \in Sources : Recorded(r) => Recorded(r)'
      /\ Recorded(s)'
      BY <1>0, <1>6, LimitsAssumption DEF Recorded
<1>8. PublishedIsRecorded'
  <2>1. \A r \in Sources : outboxRow'[r].status = "PUBLISHED" => Recorded(r)'
        BY <1>0, <1>7 DEF RecordInv, PublishedIsRecorded
  <2>2. ASSUME NEW r \in Sources, NEW x \in Answers, NEW y \in Answers,
               <<r, x>> \in attendance'[DateOf[r]], <<r, y>> \in attendance'[DateOf[r]]
        PROVE  x = y
    <3>1. DateOf[r] \in Dates
          BY LimitsAssumption
    <3>2. CASE r = s
          BY <1>3, <1>6, <2>2, <3>1, <3>2
    <3>3. CASE r # s
      <4>1. <<r, x>> \in attendance[DateOf[r]] /\ <<r, y>> \in attendance[DateOf[r]]
            BY <1>6, <2>2, <3>1, <3>3
      <4> QED BY <4>1 DEF RecordInv, PublishedIsRecorded
    <3> QED BY <3>2, <3>3
  <2> QED BY <2>1, <2>2 DEF PublishedIsRecorded
<1>9. EventsAgree'
  <2> SUFFICES ASSUME NEW v \in Servers
               PROVE  /\ worker'[v].step \in {"REFRESH", "CYCLE", "DERIVED", "RECORDED"}
                          => Recorded(worker[v].on)'
                      /\ worker'[v].step = "READ"
                          => \A k \in Answers : <<worker'[v].on, k>> \notin worker'[v].seen
      BY DEF EventsAgree
  <2>1. CASE v = w
        BY <1>2, <1>7, <2>1 DEF Recorded
  <2>2. CASE v # w
    <3>1. worker'[v] = worker[v]
          BY <1>2, <2>2
    <3>2. worker[v].step # "IDLE" => worker[v].on \in Sources
          BY DEF TypeInv, WorkAgrees
    <3>3. worker[v].step \in {"REFRESH", "CYCLE", "DERIVED", "RECORDED"}
             => Recorded(worker[v].on) /\ worker[v].on \in Sources
          BY <3>2 DEF RecordInv, EventsAgree
    <3>4. worker[v].step \in {"REFRESH", "CYCLE", "DERIVED", "RECORDED"}
             => Recorded(worker[v].on)'
          BY <3>1, <3>3, <1>6, LimitsAssumption DEF Recorded
    <3> QED BY <3>1, <3>4 DEF RecordInv, EventsAgree
  <2> QED BY <2>1, <2>2
<1>10. Awaits(s)'
  <2>1. \A v \in Servers : worker'[v].step = "RECORDED" => worker'[v].on # s
        BY <1>2, <1>5
  <2> QED BY <1>0, <1>4, <1>6, <2>1 DEF Awaits, Recorded
<1>11. \A P \in SUBSET Dates :
          Behind(P, Streak(Recognized)) => Behind(P, Streak(Recognized)')
  <2>1. Streak(Recognized) \in SUBSET Dates /\ Streak(Recognized)' \in SUBSET Dates
        BY DEF Streak, Recognized
  <2>2. Behind(Streak(Recognized), Streak(Recognized)')
        BY <1>6, RecognizedGrows DEF Streak
  <2> QED BY <2>1, <2>2, BehindTransitive
<1>12. /\ progress \in SUBSET Dates
       /\ \A v \in Servers : worker[v].run \in SUBSET Dates
       BY DEF TypeInv, AttendanceTypeOK, Work
<1>13. InOrder'
  <2>1. Behind(progress', Streak(Recognized)')
        BY <1>0, <1>11, <1>12 DEF ProgressInv, InOrder
  <2>2. ASSUME NEW v \in Servers
        PROVE  /\ worker'[v].step = "CYCLE" => Behind(worker'[v].base, progress')
               /\ worker'[v].step = "DERIVED" /\ worker'[v].fresh
                    => /\ Behind(progress', worker'[v].run)
                       /\ Behind(worker'[v].run, Streak(Recognized)')
        BY <1>0, <1>2, <1>11, <1>12 DEF ProgressInv, InOrder
  <2> QED BY <2>1, <2>2 DEF InOrder, Behind
<1>14. UpToDate'
       BY <1>0, <1>2, <1>5, <1>10 DEF UpToDate
<1> QED BY <1>8, <1>9, <1>13, <1>14 DEF RecordInv, ProgressInv

LEMMA AddStep ==
    ASSUME Inv, NEW w \in Servers, AddEvent(w)
    PROVE  RecordInv' /\ ProgressInv'
<1> USE DEF Inv
<1>1. /\ ~At(w, "IDLE") /\ worker[w].on \in Sources /\ worker[w].content \in Answers
      /\ UNCHANGED <<progress, outboxRow>>
      BY DEF AddEvent, At, TypeInv, WorkAgrees
<1>2. CASE attendance[DateOf[worker[w].on]] # worker[w].seen
  <2> DEFINE again == [Now(w, "LOADED") EXCEPT !.content = worker[w].content]
  <2>1. Now(w, "LOADED") \in Work /\ Now(w, "LOADED").step = "LOADED"
        BY <1>1, NowTyped DEF WorkSteps
  <2>2. again.step = "LOADED"
        BY <2>1 DEF Work
  <2>3. GoesOn(w, again) /\ UNCHANGED attendance
        BY <1>2 DEF AddEvent
  <2> HIDE DEF again
  <2>4. \A v \in Servers : Aside(v)
        BY <2>2, <2>3, OthersStay DEF Aside
  <2> QED BY <1>1, <2>3, <2>4, StandsAside DEF NoneNewlyPublished
<1>3. CASE attendance[DateOf[worker[w].on]] = worker[w].seen
      BY <1>1, <1>3, EventAdded
<1> QED BY <1>2, <1>3
(* The cycle is read: what is read of it is its progress. *)
LEMMA CycleStep ==
    ASSUME Inv, NEW w \in Servers, ReadCycle(w)
    PROVE  RecordInv' /\ ProgressInv'
<1> USE DEF Inv
<1> DEFINE work == [Now(w, "CYCLE") EXCEPT !.base = progress, !.fresh = TRUE]
<1>1. UNCHANGED <<attendance, progress, outboxRow>> /\ At(w, "REFRESH") /\ GoesOn(w, work)
      BY DEF ReadCycle
<1>2. work.step = "CYCLE" /\ work.on = worker[w].on /\ work.base = progress
  <2>1. /\ Now(w, "CYCLE") \in Work /\ Now(w, "CYCLE").step = "CYCLE"
        /\ Now(w, "CYCLE").on = worker[w].on
        BY <1>1, NowTyped DEF WorkSteps, At
  <2> QED BY <2>1 DEF Work
<1>3. worker'[w] = work /\ \A v \in Servers : v # w => worker'[v] = worker[v]
  <2> HIDE DEF work
  <2> QED BY <1>1, OthersStay
<1> HIDE DEF work
<1>4. /\ \A s : Recorded(s)' <=> Recorded(s)
      /\ Streak(Recognized)' = Streak(Recognized)
      BY <1>1 DEF Recorded, Recognized, Streak
<1>5. RecordInv'
  <2>1. PublishedIsRecorded'
        BY <1>1, <1>4 DEF RecordInv, PublishedIsRecorded
  <2>2. EventsAgree'
        BY <1>1, <1>2, <1>3 DEF RecordInv, EventsAgree, Recorded, At
  <2> QED BY <2>1, <2>2 DEF RecordInv
<1>6. InOrder'
      BY <1>1, <1>2, <1>3, <1>4, BehindReflexive DEF ProgressInv, InOrder, Behind
<1>7. \A s \in Sources : Awaits(s) => Awaits(s)'
      BY <1>1, <1>2, <1>3, <1>4 DEF Awaits
<1>8. UpToDate'
      BY <1>1, <1>2, <1>3, <1>4, <1>7 DEF ProgressInv, UpToDate
<1> QED BY <1>5, <1>6, <1>8 DEF ProgressInv

(***************************************************************************)
(* The days are read, and say what the progress is to be.  If they say     *)
(* what the worker has read of the cycle, the cycle says it still: its     *)
(* progress is between the two.                                            *)
(***************************************************************************)
LEMMA DaysStep ==
    ASSUME Inv, NEW w \in Servers, ReadRecognized(w)
    PROVE  RecordInv' /\ ProgressInv'
<1> USE DEF Inv
<1> DEFINE now == Streak(Recognized)
           work == [Now(w, "DERIVED") EXCEPT !.run = now, !.fresh = worker[w].fresh]
<1>1. UNCHANGED <<attendance, progress, outboxRow>> /\ At(w, "CYCLE")
      BY DEF ReadRecognized
<1>2. /\ worker[w].on \in Sources /\ Recorded(worker[w].on)
      /\ worker[w].base \in SUBSET Dates /\ progress \in SUBSET Dates /\ now \in SUBSET Dates
      /\ worker[w].fresh \in BOOLEAN
      BY <1>1, StreakType, RecognizedType
      DEF At, TypeInv, AttendanceTypeOK, WorkAgrees, Work, RecordInv, EventsAgree
<1>3. /\ \A s : Recorded(s)' <=> Recorded(s)
      /\ Streak(Recognized)' = now
      BY <1>1 DEF Recorded, Recognized, Streak
<1>4. PublishedIsRecorded'
      BY <1>1, <1>3 DEF RecordInv, PublishedIsRecorded
<1>5. CASE now = worker[w].base
  <2>1. /\ worker'[w].step = "RECORDED" /\ worker'[w].on = worker[w].on
        /\ \A v \in Servers : v # w => worker'[v] = worker[v]
    <3>1. GoesOn(w, Now(w, "RECORDED"))
          BY <1>5 DEF ReadRecognized
    <3>2. Now(w, "RECORDED").step = "RECORDED" /\ Now(w, "RECORDED").on = worker[w].on
          BY <1>1, NowTyped DEF WorkSteps, At
    <3> QED BY <3>1, <3>2, OthersStay
  <2>2. progress = now
    <3>1. Behind(worker[w].base, progress) /\ Behind(progress, now)
          BY <1>1 DEF ProgressInv, InOrder, At
    <3> QED BY <1>2, <1>5, <3>1, BehindAntisymmetric
  <2>3. EventsAgree'
        BY <1>1, <1>2, <2>1 DEF RecordInv, EventsAgree, Recorded
  <2>4. InOrder'
        BY <1>1, <1>3, <2>1 DEF ProgressInv, InOrder, Behind
  <2>5. UpToDate'
    <3>1. ASSUME NEW v \in Servers, worker[v].step = "DERIVED", worker[v].fresh
          PROVE  worker[v].run = now
      <4>1. Behind(progress, worker[v].run) /\ Behind(worker[v].run, now)
            BY <3>1 DEF ProgressInv, InOrder
      <4>2. worker[v].run \in SUBSET Dates
            BY DEF TypeInv, AttendanceTypeOK, Work
      <4> QED BY <1>2, <2>2, <4>1, <4>2, BehindAntisymmetric
    <3> QED BY <1>1, <1>3, <2>1, <2>2, <3>1 DEF UpToDate
  <2> QED BY <1>4, <2>3, <2>4, <2>5 DEF RecordInv, ProgressInv
<1>6. CASE now # worker[w].base
  <2>1. work.step = "DERIVED" /\ work.on = worker[w].on /\ work.run = now
    <3>1. /\ Now(w, "DERIVED") \in Work /\ Now(w, "DERIVED").step = "DERIVED"
          /\ Now(w, "DERIVED").on = worker[w].on
          BY <1>1, NowTyped DEF WorkSteps, At
    <3> QED BY <3>1 DEF Work
  <2>2. GoesOn(w, work)
        BY <1>6 DEF ReadRecognized
  <2> HIDE DEF work
  <2>3. worker'[w] = work /\ \A v \in Servers : v # w => worker'[v] = worker[v]
        BY <2>2, OthersStay
  <2>4. EventsAgree'
        BY <1>1, <1>2, <2>1, <2>3 DEF RecordInv, EventsAgree, Recorded
  <2>5. InOrder'
    <3>1. Behind(progress, now) /\ Behind(now, now)
          BY BehindReflexive DEF ProgressInv, InOrder
    <3> QED BY <1>1, <1>3, <2>1, <2>3, <3>1 DEF ProgressInv, InOrder, Behind
  <2>6. \A s \in Sources : Awaits(s) => Awaits(s)'
        BY <1>1, <1>3, <2>1, <2>3 DEF Awaits
  <2>7. UpToDate'
        BY <1>1, <1>3, <2>1, <2>3, <2>6 DEF ProgressInv, UpToDate
  <2> QED BY <1>4, <2>4, <2>5, <2>7 DEF RecordInv, ProgressInv
<1> QED BY <1>5, <1>6
(***************************************************************************)
(* The progress is written by a worker that knows of no other write since  *)
(* it has read the cycle.  No worker that has read it before will succeed. *)
(***************************************************************************)
LEMMA ProgressWritten ==
    ASSUME Inv, NEW w \in Servers, WriteProgress(w), worker[w].fresh,
           NEW t \in Sources, t = worker[w].on
    PROVE  RecordInv' /\ ProgressInv'
<1> USE DEF Inv
<1>1. /\ UNCHANGED <<attendance, outboxRow>> /\ At(w, "DERIVED")
      /\ progress' = worker[w].run
      /\ worker' = [v \in Servers |-> IF v = w THEN Now(w, "RECORDED")
                                     ELSE [worker[v] EXCEPT !.fresh = FALSE]]
      BY DEF WriteProgress
<1>2. /\ worker'[w].step = "RECORDED" /\ worker'[w].on = t
      /\ \A v \in Servers : v # w =>
            /\ worker'[v].step = worker[v].step /\ worker'[v].on = worker[v].on
            /\ worker'[v].seen = worker[v].seen /\ worker'[v].base = worker[v].base
            /\ ~worker'[v].fresh
  <2>1. Now(w, "RECORDED").step = "RECORDED" /\ Now(w, "RECORDED").on = t
        BY <1>1, NowTyped DEF WorkSteps, At
  <2>2. \A v \in Servers : worker[v] \in Work
        BY DEF TypeInv, AttendanceTypeOK
  <2>3. \A v \in Servers : v # w => worker'[v] = [worker[v] EXCEPT !.fresh = FALSE]
        BY <1>1
  <2>4. \A v \in Servers : v # w =>
            /\ worker'[v].step = worker[v].step /\ worker'[v].on = worker[v].on
            /\ worker'[v].seen = worker[v].seen /\ worker'[v].base = worker[v].base
            /\ ~worker'[v].fresh
    <3> SUFFICES ASSUME NEW v \in Servers, v # w
                 PROVE  /\ worker'[v].step = worker[v].step /\ worker'[v].on = worker[v].on
                        /\ worker'[v].seen = worker[v].seen /\ worker'[v].base = worker[v].base
                        /\ ~worker'[v].fresh
        OBVIOUS
    <3> DEFINE q == [worker[v] EXCEPT !.fresh = FALSE]
    <3>1. /\ q.step = worker[v].step /\ q.on = worker[v].on
          /\ q.seen = worker[v].seen /\ q.base = worker[v].base
          /\ q.fresh = FALSE
          BY <2>2 DEF Work
    <3>2. worker'[v] = q
          BY <2>3
    <3> HIDE DEF q
    <3> QED BY <3>1, <3>2
  <2>5. worker'[w] = Now(w, "RECORDED")
        BY <1>1
  <2> QED BY <2>1, <2>4, <2>5
<1>3. /\ \A s : Recorded(s)' <=> Recorded(s)
      /\ Streak(Recognized)' = Streak(Recognized)
      BY <1>1 DEF Recorded, Recognized, Streak
<1>4. RecordInv'
  <2>1. PublishedIsRecorded'
        BY <1>1, <1>3 DEF RecordInv, PublishedIsRecorded
  <2>2. Recorded(t)
        BY <1>1 DEF RecordInv, EventsAgree, At
  <2>3. EventsAgree'
        BY <1>1, <1>2, <2>2 DEF RecordInv, EventsAgree, Recorded
  <2> QED BY <2>1, <2>3 DEF RecordInv
<1>5. Behind(progress, worker[w].run) /\ Behind(worker[w].run, Streak(Recognized))
      BY <1>1 DEF ProgressInv, InOrder, At
<1>6. InOrder'
  <2>1. ASSUME NEW v \in Servers, worker'[v].step = "CYCLE"
        PROVE  Behind(worker'[v].base, progress')
    <3>1. v # w /\ worker'[v].base = worker[v].base /\ Behind(worker[v].base, progress)
          BY <1>2, <2>1 DEF ProgressInv, InOrder
    <3>2. /\ worker[v].base \in SUBSET Dates /\ worker[w].run \in SUBSET Dates
          /\ progress \in SUBSET Dates
          BY DEF TypeInv, AttendanceTypeOK, Work
    <3> QED BY <1>1, <1>5, <3>1, <3>2, BehindTransitive
  <2>2. Behind(progress', Streak(Recognized)')
        BY <1>1, <1>3, <1>5
  <2>3. \A v \in Servers : ~(worker'[v].step = "DERIVED" /\ worker'[v].fresh)
        BY <1>2
  <2> QED BY <2>1, <2>2, <2>3 DEF InOrder, Behind
<1>7. \A s \in Sources : s # t /\ Awaits(s) => Awaits(s)'
      BY <1>1, <1>2, <1>3 DEF Awaits
<1>8. UpToDate'
  <2>1. \/ worker[w].run = Streak(Recognized)
        \/ \E s \in Sources : s # t /\ Awaits(s)
        BY <1>1 DEF ProgressInv, UpToDate, At
  <2>2. progress' = Streak(Recognized)' \/ \E s \in Sources : Awaits(s)'
        BY <1>1, <1>3, <1>7, <2>1
  <2>3. \A v \in Servers : ~(worker'[v].step = "DERIVED" /\ worker'[v].fresh)
        BY <1>2
  <2> QED BY <2>2, <2>3 DEF UpToDate
<1> QED BY <1>4, <1>6, <1>8 DEF ProgressInv

LEMMA WriteStep ==
    ASSUME Inv, NEW w \in Servers, WriteProgress(w)
    PROVE  RecordInv' /\ ProgressInv'
<1> USE DEF Inv
<1>1. /\ At(w, "DERIVED") /\ ~At(w, "IDLE") /\ worker[w].on \in Sources
      /\ Recorded(worker[w].on) /\ UNCHANGED <<attendance, outboxRow>>
      BY DEF WriteProgress, At, TypeInv, WorkAgrees, RecordInv, EventsAgree
<1>2. CASE worker[w].fresh
      BY <1>1, <1>2, ProgressWritten
<1>3. CASE ~worker[w].fresh
  <2>1. GoesOn(w, Now(w, "REFRESH")) /\ UNCHANGED progress
        BY <1>3 DEF WriteProgress
  <2>2. Now(w, "REFRESH").step = "REFRESH" /\ Now(w, "REFRESH").on = worker[w].on
        BY <1>1, NowTyped DEF WorkSteps
  <2>3. \A v \in Servers : Aside(v)
        BY <1>1, <2>1, <2>2, OthersStay DEF Aside
  <2> QED BY <1>1, <2>1, <2>3, StandsAside DEF NoneNewlyPublished
<1> QED BY <1>2, <1>3

(* The worker publishes what it has recorded, which no other was to wait for. *)
LEMMA PublishStep ==
    ASSUME Inv, NEW w \in Servers, PublishIntent(w)
    PROVE  RecordInv' /\ ProgressInv'
<1> SUFFICES ASSUME NEW t \in Sources, t = worker[w].on
             PROVE  RecordInv' /\ ProgressInv'
    BY DEF Inv, TypeInv, WorkAgrees, PublishIntent, At
<1> USE DEF Inv
<1>1. UNCHANGED <<attendance, progress>> /\ At(w, "RECORDED")
      BY DEF PublishIntent
<1>2. \A s \in Sources : s # t => outboxRow'[s].status = outboxRow[s].status
  <2>1. Settled(t, "PUBLISHED", "NONE") \/ UNCHANGED outboxRow
        BY DEF PublishIntent
  <2> QED BY <2>1, SettledTyped
<1>3. worker'[w].step = "IDLE" /\ \A v \in Servers : v # w => worker'[v] = worker[v]
      BY RestTyped, OthersStay DEF PublishIntent, Rests
<1>4. /\ \A s : Recorded(s)' <=> Recorded(s)
      /\ Streak(Recognized)' = Streak(Recognized)
      BY <1>1 DEF Recorded, Recognized, Streak
<1>5. RecordInv'
  <2>1. Recorded(t)
        BY <1>1 DEF RecordInv, EventsAgree, At
  <2>2. PublishedIsRecorded'
        BY <1>1, <1>2, <1>4, <2>1 DEF RecordInv, PublishedIsRecorded
  <2>3. EventsAgree'
        BY <1>1, <1>3 DEF RecordInv, EventsAgree, Recorded
  <2> QED BY <2>2, <2>3 DEF RecordInv
<1>6. InOrder'
      BY <1>1, <1>3, <1>4 DEF ProgressInv, InOrder, Behind
<1>7. \A s \in Sources : Awaits(s) => Awaits(s)'
  <2>1. ~Awaits(t)
        BY <1>1 DEF Awaits, At
  <2> QED BY <1>2, <1>3, <1>4, <2>1 DEF Awaits
<1>8. UpToDate'
      BY <1>1, <1>3, <1>4, <1>7 DEF ProgressInv, UpToDate
<1> QED BY <1>5, <1>6, <1>8 DEF ProgressInv

LEMMA InvNext == Inv /\ [AttendanceNext]_attendanceVars => Inv'
<1> SUFFICES ASSUME Inv, [AttendanceNext]_attendanceVars
             PROVE  Inv'
    OBVIOUS
<1>1. TypeInv'
      BY TypeNext DEF Inv
<1>2. RecordInv' /\ ProgressInv'
  <2>1. ASSUME NEW s \in Sources,
               \/ SyncAgain(s) \/ GrowsOld(s) \/ LeaseExpires(s) \/ LeaseOverrun(s)
               \/ \E c \in Answers :
                     AskForAttendance(s, c) \/ StoreSource(s, c) \/ RequestFails(s, c)
        PROVE  RecordInv' /\ ProgressInv'
        BY <2>1, RequestStep
  <2>2. ASSUME NEW s \in Sources, NEW w \in Servers, ClaimIntent(w, s)
        PROVE  RecordInv' /\ ProgressInv'
        BY <2>2, ClaimStep
  <2>3. ASSUME NEW w \in Servers, Delivers(w) \/ DeliveryThrows(w) \/ ServerDies(w)
        PROVE  RecordInv' /\ ProgressInv'
        BY <2>3, LoadStep, ReadStep, AddStep, CycleStep, DaysStep, WriteStep, PublishStep, GiveUpStep
        DEF Delivers
  <2>4. CASE UNCHANGED attendanceVars
    <3>1. UNCHANGED <<attendance, progress, outboxRow, worker>>
          BY <2>4 DEF attendanceVars
    <3>2. NoneNewlyPublished /\ \A v \in Servers : Aside(v)
          BY <3>1 DEF NoneNewlyPublished, Aside
    <3> QED BY <3>1, <3>2, StandsAside DEF Inv
  <2> QED BY <2>1, <2>2, <2>3, <2>4 DEF AttendanceNext
<1> QED BY <1>1, <1>2 DEF Inv

LEMMA Invariance == AttendanceSpec => []Inv
BY InvInit, InvNext, PTL DEF AttendanceSpec

(***************************************************************************)
(* An intent is published only when the event of its attempt is in the     *)
(* document of the day, once (deliverClaimedAttendanceIntent and           *)
(* persistAttendanceEvent), whatever workers overrun their leases.         *)
(***************************************************************************)
THEOREM PublishedAreRecorded == AttendanceSpec => []PublishedIsRecorded
<1>1. Inv => PublishedIsRecorded
      BY DEF Inv, RecordInv
<1> QED BY <1>1, Invariance, PTL

(***************************************************************************)
(* With every recorded event published, the progress of the cycle is what  *)
(* its days say (refreshCycleAttendanceProgress): of the workers that      *)
(* read and write it, in any order, none leaves it behind.                 *)
(***************************************************************************)
THEOREM ProgressFollowsDays == AttendanceSpec => []ProgressIsCurrent
<1>1. Inv => ProgressIsCurrent
      BY DEF Inv, ProgressInv, UpToDate, ProgressIsCurrent, Awaits
<1> QED BY <1>1, Invariance, PTL
----------------------------------------------------------------------------
(* Intents and attempts. *)

(* What workers have on hand, and what is recorded, was stored by a request. *)
StoredAgrees ==
    /\ \A s \in Sources : stored[s] # Nothing => submission[s][stored[s]] = "DONE"
    /\ \A w \in Servers :
        worker[w].step \in {"LOADED", "READ"} => submission[worker[w].on][worker[w].content] = "DONE"
    /\ \A d \in Dates, s \in Sources, c \in Answers :
        <<s, c>> \in attendance[d] => DateOf[s] = d /\ submission[s][c] = "DONE"

(* A request that has begun has written the intent first. *)
IntentsFirst ==
    \A s \in Sources, c \in Answers : submission[s][c] # "NEW" => outboxRow[s].status # "NONE"

(* Who gives an intent up as missing has found no attempt when it was a day old. *)
GraceKept ==
    /\ \A w \in Servers : worker[w].step \in {"CLAIMED", "ABSENT"} /\ worker[w].old =>
        /\ outboxRow[worker[w].on].old
        /\ worker[w].step = "ABSENT" => stored[worker[w].on] = Nothing \/ worker[w].on \in late
    /\ \A s \in Sources : outboxRow[s].status = "DEAD" =>
        GivenUp(s) \/ (outboxRow[s].old /\ (stored[s] = Nothing \/ s \in late))

AccountInv == StoredAgrees /\ IntentsFirst /\ GraceKept

LEMMA AccountInit == AttendanceInit => AccountInv
BY LimitsAssumption
   DEF AttendanceInit, AccountInv, StoredAgrees, IntentsFirst, GraceKept, NoIntent, AtRest

(* A row stays, and stays old; it is given up by a worker, and as missing by one that missed it. *)
RowStays(s) ==
    /\ outboxRow[s].status # "NONE" => outboxRow'[s].status # "NONE"
    /\ outboxRow[s].old => outboxRow'[s].old
    /\ outboxRow'[s].status = "DEAD" =>
        \/ outboxRow[s].status = "DEAD" /\ outboxRow'[s].error = outboxRow[s].error
        \/ outboxRow'[s].error = "OTHER"
        \/ \E w \in Servers : worker[w].step = "ABSENT" /\ worker[w].on = s /\ worker[w].old

LEMMA RowsStay ==
    ASSUME TypeInv, [AttendanceNext]_attendanceVars
    PROVE  \A s \in Sources : RowStays(s)
<1>0. outboxRow \in [Sources -> Intents] /\ worker \in [Servers -> Work]
      BY DEF TypeInv, AttendanceTypeOK
<1>1. ASSUME NEW s \in Sources, Enqueues(s) PROVE \A r \in Sources : RowStays(r)
  <2>1. outboxRow[s] \in Intents
        BY <1>0
  <2>2. CASE outboxRow[s].status \in {"NONE", "DEAD"}
    <3> DEFINE row == [outboxRow[s] EXCEPT !.status = "PENDING"]
    <3>1. row.status = "PENDING" /\ row.old = outboxRow[s].old
          BY <2>1 DEF Intents
    <3>2. outboxRow' = [outboxRow EXCEPT ![s] = row]
          BY <1>0, <1>1, <2>2 DEF Enqueues
    <3> HIDE DEF row
    <3> QED BY <1>0, <3>1, <3>2 DEF RowStays
  <2>3. CASE outboxRow[s].status \notin {"NONE", "DEAD"}
    <3>1. outboxRow' = outboxRow
          BY <1>0, <1>1, <2>3 DEF Enqueues
    <3> QED BY <3>1 DEF RowStays
  <2> QED BY <2>2, <2>3
<1>2. ASSUME NEW s \in Sources, GrowsOld(s) \/ LeaseExpires(s) \/ LeaseOverrun(s)
      PROVE  \A r \in Sources : RowStays(r)
  <2>1. outboxRow[s] \in Intents
        BY <1>0
  <2>2. \/ outboxRow' = [outboxRow EXCEPT ![s] = [outboxRow[s] EXCEPT !.old = TRUE]]
        \/ outboxRow' = [outboxRow EXCEPT ![s] = [outboxRow[s] EXCEPT !.live = FALSE]]
        BY <1>0, <1>2 DEF GrowsOld, LeaseExpires, LeaseOverrun
  <2>3. /\ [outboxRow[s] EXCEPT !.old = TRUE].status = outboxRow[s].status
        /\ [outboxRow[s] EXCEPT !.old = TRUE].error = outboxRow[s].error
        /\ [outboxRow[s] EXCEPT !.old = TRUE].old
        /\ [outboxRow[s] EXCEPT !.live = FALSE].status = outboxRow[s].status
        /\ [outboxRow[s] EXCEPT !.live = FALSE].error = outboxRow[s].error
        /\ [outboxRow[s] EXCEPT !.live = FALSE].old = outboxRow[s].old
        BY <2>1 DEF Intents
  <2> QED BY <1>0, <2>2, <2>3 DEF RowStays
<1>3. ASSUME NEW w \in Servers, NEW s \in Sources, ClaimIntent(w, s)
      PROVE  \A r \in Sources : RowStays(r)
  <2> DEFINE row == [outboxRow[s] EXCEPT !.status = "PROCESSING", !.by = w, !.live = TRUE,
                        !.attempts = IF @ < MaxAttempts THEN @ + 1 ELSE @]
  <2>1. outboxRow[s] \in Intents
        BY <1>0
  <2>2. row.status = "PROCESSING" /\ row.old = outboxRow[s].old
        BY <2>1 DEF Intents
  <2>3. outboxRow' = [outboxRow EXCEPT ![s] = row]
        BY <1>3 DEF ClaimIntent
  <2> HIDE DEF row
  <2> QED BY <1>0, <2>2, <2>3 DEF RowStays
<1>4. ASSUME NEW w \in Servers, NEW status \in {"PUBLISHED", "DEAD", "FAILED"}, NEW error,
             worker[w].on \in Sources, Settled(worker[w].on, status, error),
             status = "DEAD" => error = "OTHER" \/ (worker[w].step = "ABSENT" /\ worker[w].old)
      PROVE  \A r \in Sources : RowStays(r)
  <2> DEFINE s == worker[w].on
             row == [outboxRow[s] EXCEPT !.status = status, !.by = Nothing, !.live = FALSE,
                                         !.error = error]
  <2>1. outboxRow[s] \in Intents
        BY <1>0, <1>4
  <2>2. row.status = status /\ row.old = outboxRow[s].old /\ row.error = error
        BY <2>1 DEF Intents
  <2>3. outboxRow' = [outboxRow EXCEPT ![s] = row]
        BY <1>4 DEF Settled
  <2> HIDE DEF row
  <2>4. outboxRow'[s] = row /\ \A r \in Sources : r # s => outboxRow'[r] = outboxRow[r]
        BY <1>0, <1>4, <2>3
  <2>5. RowStays(s)
        BY <1>4, <2>2, <2>4 DEF RowStays
  <2>6. \A r \in Sources : r # s => RowStays(r)
        BY <2>4 DEF RowStays
  <2> HIDE DEF s
  <2> QED BY <2>5, <2>6
<1>5. ASSUME NEW w \in Servers, PublishIntent(w) PROVE \A r \in Sources : RowStays(r)
  <2>1. worker[w].on \in Sources
        BY <1>5 DEF PublishIntent, At, TypeInv, WorkAgrees
  <2>2. CASE UNCHANGED outboxRow
        BY <2>2 DEF RowStays
  <2>3. CASE Settled(worker[w].on, "PUBLISHED", "NONE")
        BY <1>4, <2>1, <2>3
  <2> QED BY <1>5, <2>2, <2>3 DEF PublishIntent
<1>6. ASSUME NEW w \in Servers, MarkFailed(w) PROVE \A r \in Sources : RowStays(r)
  <2> DEFINE s == worker[w].on
             missing == worker[w].step = "ABSENT"
             dead == outboxRow[s].attempts = MaxAttempts /\ (missing => worker[w].old)
             status == IF dead THEN "DEAD" ELSE "FAILED"
             error == IF missing THEN "MISSING" ELSE "OTHER"
  <2>1. s \in Sources
        BY <1>6 DEF MarkFailed, TypeInv, WorkAgrees
  <2>2. status \in {"PUBLISHED", "DEAD", "FAILED"}
        OBVIOUS
  <2>3. status = "DEAD" => error = "OTHER" \/ (worker[w].step = "ABSENT" /\ worker[w].old)
        OBVIOUS
  <2>4. UNCHANGED outboxRow \/ Settled(s, status, error)
        BY Zenon, <1>6 DEF MarkFailed
  <2> HIDE DEF status, error
  <2>5. CASE UNCHANGED outboxRow
        BY <2>5 DEF RowStays
  <2> QED BY <1>4, <2>1, <2>2, <2>3, <2>4, <2>5
<1>7. CASE UNCHANGED outboxRow
      BY <1>7 DEF RowStays
<1>8. ASSUME NEW s \in Sources, \/ SyncAgain(s)
                                \/ \E c \in Answers : \/ AskForAttendance(s, c) \/ StoreSource(s, c)
                                                      \/ RequestFails(s, c)
      PROVE  \A r \in Sources : RowStays(r)
      BY <1>1, <1>7, <1>8 DEF SyncAgain, AskForAttendance, StoreSource, RequestFails
<1>9. ASSUME NEW w \in Servers,
             \/ LoadSource(w) \/ ReadDay(w) \/ AddEvent(w) \/ ReadCycle(w) \/ ReadRecognized(w)
             \/ WriteProgress(w) \/ DeliveryThrows(w) \/ ServerDies(w)
      PROVE  UNCHANGED outboxRow
      BY <1>9 DEF LoadSource, ReadDay, AddEvent, ReadCycle, ReadRecognized, WriteProgress,
         DeliveryThrows, ServerDies
<1>10. CASE UNCHANGED attendanceVars
       BY <1>7, <1>10 DEF attendanceVars
<1> QED BY <1>2, <1>3, <1>5, <1>6, <1>7, <1>8, <1>9, <1>10 DEF AttendanceNext, Delivers

(* What a worker has on hand comes from the attempt and the intent it has read. *)
WorkComes(v) ==
    LET x == worker[v]
        y == worker'[v]
    IN
    /\ y.step \in {"LOADED", "READ"} =>
        \/ x.step \in {"LOADED", "READ"} /\ y.on = x.on /\ y.content = x.content
        \/ y.on \in Sources /\ stored[y.on] # Nothing /\ y.content = stored[y.on]
    /\ y.step \in {"CLAIMED", "ABSENT"} /\ y.old =>
        \/ x.step = y.step /\ x.old /\ y.on = x.on
        \/ y.step = "CLAIMED" /\ outboxRow[y.on].old
        \/ y.step = "ABSENT" /\ x.step = "CLAIMED" /\ x.old /\ y.on = x.on /\ stored[y.on] = Nothing

LEMMA OneWorks ==
    ASSUME TypeInv, NEW w \in Servers, NEW work, GoesOn(w, work)
    PROVE  worker'[w] = work /\ \A v \in Servers : v # w => WorkComes(v)
BY DEF TypeInv, AttendanceTypeOK, GoesOn, WorkComes

LEMMA WorkIsFounded ==
    ASSUME TypeInv, [AttendanceNext]_attendanceVars
    PROVE  \A v \in Servers : WorkComes(v)
<1>0. worker \in [Servers -> Work]
      BY DEF TypeInv, AttendanceTypeOK
<1>1. CASE UNCHANGED worker
      BY <1>1 DEF WorkComes
<1>2. ASSUME NEW w \in Servers, NEW work, GoesOn(w, work),
             work.step \notin {"CLAIMED", "ABSENT", "LOADED", "READ"}
      PROVE  \A v \in Servers : WorkComes(v)
      BY <1>2, OneWorks DEF WorkComes
<1>3. ASSUME NEW w \in Servers, NEW s \in Sources, ClaimIntent(w, s)
      PROVE  \A v \in Servers : WorkComes(v)
  <2> DEFINE work == [AtRest EXCEPT !.step = "CLAIMED", !.on = s, !.old = outboxRow[s].old]
  <2>1. work.step = "CLAIMED" /\ work.on = s /\ work.old = outboxRow[s].old
        BY DEF AtRest
  <2>2. GoesOn(w, work)
        BY <1>3 DEF ClaimIntent, GoesOn
  <2> HIDE DEF work
  <2>3. WorkComes(w)
        BY <2>1, <2>2, OneWorks DEF WorkComes
  <2> QED BY <2>2, <2>3, OneWorks
<1>4. ASSUME NEW w \in Servers, LoadSource(w) PROVE \A v \in Servers : WorkComes(v)
  <2> DEFINE s == worker[w].on
             absent == [Now(w, "ABSENT") EXCEPT !.old = worker[w].old]
             loaded == [Now(w, "LOADED") EXCEPT !.content = stored[s]]
  <2>1. worker[w].step = "CLAIMED" /\ ~At(w, "IDLE")
        BY <1>4 DEF LoadSource, At
  <2>2. /\ Now(w, "ABSENT") \in Work /\ Now(w, "ABSENT").step = "ABSENT" /\ Now(w, "ABSENT").on = s
        /\ Now(w, "LOADED") \in Work /\ Now(w, "LOADED").step = "LOADED" /\ Now(w, "LOADED").on = s
        /\ s \in Sources
        BY <2>1, NowTyped DEF WorkSteps
  <2>3. /\ absent.step = "ABSENT" /\ absent.on = s /\ absent.old = worker[w].old
        /\ loaded.step = "LOADED" /\ loaded.on = s /\ loaded.content = stored[s]
        BY <2>2 DEF Work
  <2>4. \/ stored[s] = Nothing /\ GoesOn(w, absent)
        \/ stored[s] # Nothing /\ GoesOn(w, loaded)
        BY <1>4 DEF LoadSource
  <2> HIDE DEF absent, loaded
  <2>5. WorkComes(w) /\ \A v \in Servers : v # w => WorkComes(v)
        BY <2>1, <2>2, <2>3, <2>4, OneWorks DEF WorkComes
  <2> QED BY <2>5
<1>5. ASSUME NEW w \in Servers, ReadDay(w) PROVE \A v \in Servers : WorkComes(v)
  <2> DEFINE s == worker[w].on
             read == [Now(w, "READ") EXCEPT !.content = worker[w].content, !.seen = attendance[DateOf[s]]]
  <2>1. worker[w].step = "LOADED" /\ ~At(w, "IDLE")
        BY <1>5 DEF ReadDay, At
  <2>2. /\ Now(w, "REFRESH").step = "REFRESH" /\ Now(w, "ERROR").step = "ERROR"
        /\ Now(w, "READ") \in Work /\ Now(w, "READ").step = "READ" /\ Now(w, "READ").on = s
        BY <2>1, NowTyped DEF WorkSteps
  <2>3. read.step = "READ" /\ read.on = s /\ read.content = worker[w].content
        BY <2>2 DEF Work
  <2>4. \/ GoesOn(w, Now(w, "REFRESH"))
        \/ GoesOn(w, Now(w, "ERROR"))
        \/ GoesOn(w, read)
        BY <1>5 DEF ReadDay
  <2> HIDE DEF read
  <2>5. CASE GoesOn(w, read)
    <3>1. WorkComes(w) /\ \A v \in Servers : v # w => WorkComes(v)
          BY <2>1, <2>3, <2>5, OneWorks DEF WorkComes
    <3> QED BY <3>1
  <2> QED BY <1>2, <2>2, <2>4, <2>5
<1>6. ASSUME NEW w \in Servers, AddEvent(w) PROVE \A v \in Servers : WorkComes(v)
  <2> DEFINE again == [Now(w, "LOADED") EXCEPT !.content = worker[w].content]
  <2>1. worker[w].step = "READ" /\ ~At(w, "IDLE")
        BY <1>6 DEF AddEvent, At
  <2>2. /\ Now(w, "REFRESH").step = "REFRESH"
        /\ Now(w, "LOADED") \in Work /\ Now(w, "LOADED").step = "LOADED"
        /\ Now(w, "LOADED").on = worker[w].on
        BY <2>1, NowTyped DEF WorkSteps
  <2>3. again.step = "LOADED" /\ again.on = worker[w].on /\ again.content = worker[w].content
        BY <2>2 DEF Work
  <2>4. GoesOn(w, Now(w, "REFRESH")) \/ GoesOn(w, again)
        BY <1>6 DEF AddEvent
  <2> HIDE DEF again
  <2>5. CASE GoesOn(w, again)
    <3>1. WorkComes(w) /\ \A v \in Servers : v # w => WorkComes(v)
          BY <2>1, <2>3, <2>5, OneWorks DEF WorkComes
    <3> QED BY <3>1
  <2> QED BY <1>2, <2>2, <2>4, <2>5
<1>7. ASSUME NEW w \in Servers, WriteProgress(w) PROVE \A v \in Servers : WorkComes(v)
  <2>1. ~At(w, "IDLE")
        BY <1>7 DEF WriteProgress, At
  <2>2. Now(w, "RECORDED").step = "RECORDED" /\ Now(w, "REFRESH").step = "REFRESH"
        BY <2>1, NowTyped DEF WorkSteps
  <2>3. CASE GoesOn(w, Now(w, "REFRESH"))
        BY <1>2, <2>2, <2>3
  <2>4. CASE worker' = [v \in Servers |-> IF v = w THEN Now(w, "RECORDED")
                                          ELSE [worker[v] EXCEPT !.fresh = FALSE]]
    <3>1. \A v \in Servers :
             LET q == [worker[v] EXCEPT !.fresh = FALSE]
             IN  q.step = worker[v].step /\ q.on = worker[v].on /\ q.old = worker[v].old
                 /\ q.content = worker[v].content
          BY <1>0 DEF Work
    <3>2. \A v \in Servers : v # w =>
             /\ worker'[v].step = worker[v].step /\ worker'[v].on = worker[v].on
             /\ worker'[v].old = worker[v].old /\ worker'[v].content = worker[v].content
          BY <2>4, <3>1
    <3>3. worker'[w].step = "RECORDED"
          BY <2>2, <2>4
    <3> QED BY <3>2, <3>3 DEF WorkComes
  <2> QED BY <1>7, <2>3, <2>4 DEF WriteProgress
<1>8. ASSUME NEW w \in Servers, ReadCycle(w) \/ ReadRecognized(w) PROVE \A v \in Servers : WorkComes(v)
  <2> DEFINE cycle == [Now(w, "CYCLE") EXCEPT !.base = progress, !.fresh = TRUE]
             derived == [Now(w, "DERIVED") EXCEPT !.run = Streak(Recognized), !.fresh = worker[w].fresh]
  <2>1. ~At(w, "IDLE")
        BY <1>8 DEF ReadCycle, ReadRecognized, At
  <2>2. /\ Now(w, "RECORDED").step = "RECORDED"
        /\ Now(w, "CYCLE") \in Work /\ Now(w, "CYCLE").step = "CYCLE"
        /\ Now(w, "DERIVED") \in Work /\ Now(w, "DERIVED").step = "DERIVED"
        BY <2>1, NowTyped DEF WorkSteps
  <2>3. cycle.step = "CYCLE" /\ derived.step = "DERIVED"
        BY <2>2 DEF Work
  <2>4. GoesOn(w, cycle) \/ GoesOn(w, derived) \/ GoesOn(w, Now(w, "RECORDED"))
        BY <1>8 DEF ReadCycle, ReadRecognized
  <2> HIDE DEF cycle, derived
  <2> QED BY <1>2, <2>2, <2>3, <2>4
<1>9. ASSUME NEW w \in Servers, PublishIntent(w) \/ MarkFailed(w) \/ DeliveryThrows(w) \/ ServerDies(w)
      PROVE  \A v \in Servers : WorkComes(v)
  <2>1. GoesOn(w, AtRest) \/ (~At(w, "IDLE") /\ GoesOn(w, Now(w, "ERROR")))
        BY <1>9 DEF PublishIntent, MarkFailed, DeliveryThrows, ServerDies, Rests, At
  <2>2. ~At(w, "IDLE") => Now(w, "ERROR").step = "ERROR"
        BY NowTyped DEF WorkSteps
  <2> QED BY <1>2, <2>1, <2>2, RestTyped
<1>10. ASSUME NEW s \in Sources,
              \/ SyncAgain(s) \/ GrowsOld(s) \/ LeaseExpires(s) \/ LeaseOverrun(s)
              \/ \E c \in Answers : AskForAttendance(s, c) \/ StoreSource(s, c) \/ RequestFails(s, c)
       PROVE  UNCHANGED worker
       BY <1>10 DEF SyncAgain, GrowsOld, LeaseExpires, LeaseOverrun, AskForAttendance, StoreSource,
          RequestFails
<1>11. CASE UNCHANGED attendanceVars
       BY <1>1, <1>11 DEF attendanceVars
<1> QED BY <1>1, <1>3, <1>4, <1>5, <1>6, <1>7, <1>8, <1>9, <1>10, <1>11 DEF AttendanceNext, Delivers

(* Requests: one that has stored an attempt has done so for good. *)
RequestsGoOn ==
    /\ late \subseteq late'
    /\ \A s \in Sources, c \in Answers :
        /\ submission[s][c] = "DONE" => submission'[s][c] = "DONE"
        /\ submission'[s][c] # "NEW" => submission[s][c] # "NEW" \/ outboxRow'[s].status # "NONE"
    /\ \A s \in Sources :
        \/ stored'[s] = stored[s]
        \/ /\ stored'[s] \in Answers /\ submission'[s][stored'[s]] = "DONE"
           /\ outboxRow[s].old => s \in late'

LEMMA RequestsStep ==
    ASSUME TypeInv, [AttendanceNext]_attendanceVars
    PROVE  RequestsGoOn
<1>0. /\ submission \in [Sources -> [Answers -> {"NEW", "ASKED", "DONE"}]]
      /\ stored \in [Sources -> Answers \cup {Nothing}]
      /\ outboxRow \in [Sources -> Intents]
      BY DEF TypeInv, AttendanceTypeOK
<1>1. CASE UNCHANGED requestVars
      BY <1>1 DEF requestVars, RequestsGoOn
<1>2. ASSUME NEW s \in Sources, NEW c \in Answers, AskForAttendance(s, c) PROVE RequestsGoOn
  <2>1. outboxRow'[s].status # "NONE"
    <3>1. outboxRow[s] \in Intents
          BY <1>0
    <3>2. CASE outboxRow[s].status \in {"NONE", "DEAD"}
      <4>1. outboxRow'[s] = [outboxRow[s] EXCEPT !.status = "PENDING"]
            BY <1>0, <1>2, <3>2 DEF AskForAttendance, Enqueues
      <4> QED BY <3>1, <4>1 DEF Intents
    <3>3. CASE outboxRow[s].status \notin {"NONE", "DEAD"}
          BY <1>0, <1>2, <3>3 DEF AskForAttendance, Enqueues
    <3> QED BY <3>2, <3>3
  <2> QED BY <1>0, <1>2, <2>1 DEF AskForAttendance, RequestsGoOn
<1>3. ASSUME NEW s \in Sources, NEW c \in Answers, StoreSource(s, c) PROVE RequestsGoOn
      BY <1>0, <1>3 DEF StoreSource, RequestsGoOn
<1>4. ASSUME NEW s \in Sources, NEW c \in Answers, RequestFails(s, c) PROVE RequestsGoOn
      BY <1>0, <1>4 DEF RequestFails, RequestsGoOn
<1>5. ASSUME NEW s \in Sources, SyncAgain(s) \/ GrowsOld(s) \/ LeaseExpires(s) \/ LeaseOverrun(s)
      PROVE  UNCHANGED requestVars
      BY <1>5 DEF SyncAgain, GrowsOld, LeaseExpires, LeaseOverrun
<1>6. ASSUME NEW w \in Servers, \/ Delivers(w) \/ DeliveryThrows(w) \/ ServerDies(w)
                                \/ \E s \in Sources : ClaimIntent(w, s)
      PROVE  UNCHANGED requestVars
      BY <1>6 DEF Delivers, LoadSource, ReadDay, AddEvent, ReadCycle, ReadRecognized, WriteProgress,
         PublishIntent, MarkFailed, DeliveryThrows, ServerDies, ClaimIntent
<1>7. CASE UNCHANGED attendanceVars
      BY <1>1, <1>7 DEF attendanceVars
<1> QED BY <1>1, <1>2, <1>3, <1>4, <1>5, <1>6, <1>7 DEF AttendanceNext

(* The documents of the days: what is new in one is what a worker had on hand. *)
DaysGrow ==
    \A d \in Dates :
        /\ attendance[d] \subseteq attendance'[d]
        /\ \A e \in attendance'[d] \ attendance[d] : \E w \in Servers :
            /\ worker[w].step = "READ" /\ worker[w].on \in Sources
            /\ d = DateOf[worker[w].on] /\ e = <<worker[w].on, worker[w].content>>

LEMMA DaysStepGrow ==
    ASSUME TypeInv, [AttendanceNext]_attendanceVars
    PROVE  DaysGrow
<1>1. CASE UNCHANGED attendance
      BY <1>1 DEF DaysGrow
<1>2. ASSUME NEW w \in Servers, AddEvent(w) PROVE DaysGrow
  <2>1. worker[w].step = "READ" /\ worker[w].on \in Sources
        BY <1>2 DEF AddEvent, At, TypeInv, WorkAgrees
  <2>2. \/ UNCHANGED attendance
        \/ attendance' = [attendance EXCEPT ![DateOf[worker[w].on]] =
                              @ \cup {<<worker[w].on, worker[w].content>>}]
        BY <1>2 DEF AddEvent
  <2>3. attendance \in [Dates -> SUBSET SourceEvents]
        BY DEF TypeInv, AttendanceTypeOK
  <2> QED BY <2>1, <2>2, <2>3 DEF DaysGrow
<1>3. ASSUME NEW s \in Sources,
             \/ SyncAgain(s) \/ GrowsOld(s) \/ LeaseExpires(s) \/ LeaseOverrun(s)
             \/ \E c \in Answers : AskForAttendance(s, c) \/ StoreSource(s, c) \/ RequestFails(s, c)
             \/ \E w \in Servers : ClaimIntent(w, s)
      PROVE  UNCHANGED attendance
      BY <1>3 DEF SyncAgain, GrowsOld, LeaseExpires, LeaseOverrun, AskForAttendance, StoreSource,
         RequestFails, ClaimIntent
<1>4. ASSUME NEW w \in Servers,
             \/ LoadSource(w) \/ ReadDay(w) \/ ReadCycle(w) \/ ReadRecognized(w)
             \/ WriteProgress(w) \/ PublishIntent(w) \/ MarkFailed(w) \/ DeliveryThrows(w) \/ ServerDies(w)
      PROVE  UNCHANGED attendance
      BY <1>4 DEF LoadSource, ReadDay, ReadCycle, ReadRecognized, WriteProgress,
         PublishIntent, MarkFailed, DeliveryThrows, ServerDies
<1>5. CASE UNCHANGED attendanceVars
      BY <1>1, <1>5 DEF attendanceVars
<1> QED BY <1>1, <1>2, <1>3, <1>4, <1>5 DEF AttendanceNext, Delivers

LEMMA AccountStep == AccountInv /\ TypeInv /\ [AttendanceNext]_attendanceVars => AccountInv'
<1> SUFFICES ASSUME AccountInv, TypeInv, [AttendanceNext]_attendanceVars PROVE AccountInv'
    OBVIOUS
<1>0. /\ \A s \in Sources : stored[s] = Nothing \/ stored[s] \in Answers
      /\ \A w \in Servers : worker[w].step # "IDLE" => worker[w].on \in Sources
      /\ \A w \in Servers : worker[w].step \in {"LOADED", "READ"} => worker[w].content \in Answers
      BY DEF TypeInv, AttendanceTypeOK, WorkAgrees
<1>1. \A s \in Sources : RowStays(s)
      BY RowsStay
<1>2. \A v \in Servers : WorkComes(v)
      BY WorkIsFounded
<1>3. RequestsGoOn
      BY RequestsStep
<1>4. StoredAgrees'
  <2>1. \A s \in Sources : stored'[s] # Nothing => submission'[s][stored'[s]] = "DONE"
        BY <1>0, <1>3 DEF AccountInv, StoredAgrees, RequestsGoOn
  <2>2. ASSUME NEW v \in Servers, worker'[v].step \in {"LOADED", "READ"}
        PROVE  submission'[worker'[v].on][worker'[v].content] = "DONE"
    <3>1. submission[worker'[v].on][worker'[v].content] = "DONE"
          /\ worker'[v].on \in Sources /\ worker'[v].content \in Answers
          BY <1>0, <1>2, <2>2 DEF AccountInv, StoredAgrees, WorkComes
    <3> QED BY <1>3, <3>1 DEF RequestsGoOn
  <2>3. ASSUME NEW d \in Dates, NEW s \in Sources, NEW c \in Answers, <<s, c>> \in attendance'[d]
        PROVE  DateOf[s] = d /\ submission'[s][c] = "DONE"
    <3>1. CASE <<s, c>> \in attendance[d]
          BY <1>3, <3>1 DEF AccountInv, StoredAgrees, RequestsGoOn
    <3>2. CASE <<s, c>> \notin attendance[d]
      <4>1. PICK w \in Servers : /\ worker[w].step = "READ" /\ worker[w].on \in Sources
                                 /\ d = DateOf[worker[w].on]
                                 /\ <<s, c>> = <<worker[w].on, worker[w].content>>
            BY <2>3, <3>2, DaysStepGrow DEF DaysGrow
      <4>2. submission[s][c] = "DONE"
            BY <4>1 DEF AccountInv, StoredAgrees
      <4> QED BY <1>3, <4>1, <4>2 DEF RequestsGoOn
    <3> QED BY <3>1, <3>2
  <2> QED BY <2>1, <2>2, <2>3 DEF StoredAgrees
<1>5. IntentsFirst'
      BY <1>1, <1>3 DEF AccountInv, IntentsFirst, RequestsGoOn, RowStays
<1>6. GraceKept'
  <2>1. ASSUME NEW v \in Servers, worker'[v].step \in {"CLAIMED", "ABSENT"}, worker'[v].old
        PROVE  /\ outboxRow'[worker'[v].on].old
               /\ worker'[v].step = "ABSENT" => stored'[worker'[v].on] = Nothing \/ worker'[v].on \in late'
    <3>1. TypeInv'
          BY TypeNext
    <3>2. worker'[v].on \in Sources
          BY <2>1, <3>1 DEF TypeInv, WorkAgrees
    <3>3. /\ outboxRow[worker'[v].on].old
          /\ worker'[v].step = "ABSENT" => stored[worker'[v].on] = Nothing \/ worker'[v].on \in late
          BY <1>2, <2>1 DEF AccountInv, GraceKept, WorkComes
    <3> QED BY <1>1, <1>3, <3>2, <3>3 DEF RowStays, RequestsGoOn
  <2>2. ASSUME NEW s \in Sources, outboxRow'[s].status = "DEAD"
        PROVE  GivenUp(s)' \/ (outboxRow'[s].old /\ (stored'[s] = Nothing \/ s \in late'))
    <3>1. \/ GivenUp(s)'
          \/ outboxRow[s].old /\ (stored[s] = Nothing \/ s \in late)
          BY <1>1, <2>2 DEF AccountInv, GraceKept, RowStays, GivenUp
    <3> QED BY <1>1, <1>3, <3>1 DEF RowStays, RequestsGoOn
  <2> QED BY <2>1, <2>2 DEF GraceKept
<1> QED BY <1>4, <1>5, <1>6 DEF AccountInv

(***************************************************************************)
(* Every event of attendance is in the document of its own day, and holds  *)
(* what a request has stored in its attempt.                               *)
(***************************************************************************)
AttendanceWasStored ==
    \A d \in Dates, s \in Sources, c \in Answers :
        <<s, c>> \in attendance[d] => DateOf[s] = d /\ submission[s][c] = "DONE"

(* An intent that is still to be delivered. *)
ToBeDelivered(s) == outboxRow[s].status \in {"PENDING", "PROCESSING", "FAILED"}

(***************************************************************************)
(* No attendance without its attempt, whatever fails: a request writes its *)
(* intent first, but loadAttendanceSource waits for the attempt.           *)
(***************************************************************************)
THEOREM NoAttendanceWithoutAttempt == AttendanceSpec => []AttendanceWasStored
<1>1. AccountInv => AttendanceWasStored
      BY DEF AccountInv, StoredAgrees, AttendanceWasStored
<1> QED BY <1>1, TypeInit, TypeNext, AccountInit, AccountStep, PTL DEF AttendanceSpec

(***************************************************************************)
(* And no attempt without its intent: what is stored is attendance or is   *)
(* still to be delivered, unless it came when its intent was a day old, or *)
(* its delivery failed for another reason once too often.  That delivery   *)
(* does not put it off for ever is the liveness property StoredIsRecorded. *)
(***************************************************************************)
THEOREM StoredIsAnsweredFor == AttendanceSpec => [](\A s \in Sources : Becomes(s) \/ ToBeDelivered(s))
<1>1. AccountInv /\ Inv => \A s \in Sources : Becomes(s) \/ ToBeDelivered(s)
  <2> SUFFICES ASSUME AccountInv, Inv, NEW s \in Sources, stored[s] # Nothing, ~ToBeDelivered(s)
               PROVE  Recorded(s) \/ GivenUp(s) \/ s \in late
      BY DEF Becomes
  <2>1. stored[s] \in Answers /\ outboxRow[s] \in Intents
        BY DEF Inv, TypeInv, AttendanceTypeOK
  <2>2. outboxRow[s].status # "NONE"
        BY <2>1 DEF AccountInv, StoredAgrees, IntentsFirst
  <2>3. outboxRow[s].status \in {"PUBLISHED", "DEAD"}
        BY <2>1, <2>2 DEF ToBeDelivered, Intents
  <2>4. outboxRow[s].status = "PUBLISHED" => Recorded(s)
        BY DEF Inv, RecordInv, PublishedIsRecorded
  <2>5. outboxRow[s].status = "DEAD" => GivenUp(s) \/ s \in late
        BY DEF AccountInv, GraceKept
  <2> QED BY <2>3, <2>4, <2>5
<1> QED BY <1>1, Invariance, TypeInit, TypeNext, AccountInit, AccountStep, PTL DEF AttendanceSpec
=============================================================================
