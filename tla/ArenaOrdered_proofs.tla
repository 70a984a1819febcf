------------------------- MODULE ArenaOrdered_proofs ------------------------
(***************************************************************************)
(* What holds of the matches when nothing is uploaded to a match that has  *)
(* ended and every sweep decides and acts at once; requests may still      *)
(* carry an old clock across a deadline.  Among it, that they implement    *)
(* the ladder, and that nothing stops a sweep.                             *)
(***************************************************************************)
EXTENDS ArenaMatch_proofs, ArenaMatchLadder

\* The assumption of every theorem here.
Ordered == \A m \in Matches : Races[m] \subseteq {"STRADDLE"}

\* What the settlements have written, and for whom.
PaidOK ==
  \A m \in Matches :
    /\ status[m] \in Ended => \E v \in Versions : ledger[m] = {v}
    /\ status[m] \notin Ended => ledger[m] = {}

OInv == IInv /\ stale = {} /\ UnsettledMatchIsIntact /\ PaidOK

LEMMA InitOInv == Init => OInv
  <1> SUFFICES ASSUME Init PROVE OInv
    OBVIOUS
  <1>1. IInv
    BY InitIInv
  <1>2. stale = {} /\ UnsettledMatchIsIntact /\ PaidOK
    BY DEF Init, UnsettledMatchIsIntact, PaidOK, Unsettled, InPlay, Ended
  <1>. QED BY <1>1, <1>2 DEF OInv

LEMMA StaleStep ==
  ASSUME Ordered, stale = {}, TypeOK, [Next]_vars
  PROVE  stale' = {}
  <1>1. ASSUME NEW d \in Decisions, SweepRead(d)
        PROVE  FALSE
    <2>1. d.match \in Matches
      BY DEF Decisions
    <2>2. "SWEEP" \in {"STRADDLE"}
      BY <1>1, <2>1 DEF SweepRead, Ordered
    <2>. QED BY <2>2
  <1>2. CASE Participant
    <2>1. CASE Creates
      <3>1. CASE \E m \in Matches, c, d \in Users : CreateNormal(m, c, d)
        BY <3>1 DEF CreateNormal, Open
      <3>2. CASE \E m, src \in Matches : CreateRevenge(m, src)
        BY <3>2 DEF CreateRevenge, Open
      <3>. QED BY <2>1, <3>1, <3>2 DEF Creates
    <2>2. CASE \E m \in Matches : ForfeitRight(m) \/ \E r \in Roles : Plays(m, r)
      <3>1. CASE \E m \in Matches : ForfeitRight(m)
        BY <3>1 DEF ForfeitRight
      <3>2. ASSUME NEW m \in Matches, NEW r \in Roles, Plays(m, r)
            PROVE  UNCHANGED stale
        <4>1. CASE UploadFirst(m, r)
          BY <4>1 DEF UploadFirst
        <4>. QED BY <3>2, <4>1 DEF Plays, StartAttempt, FinishQuestions, UploadSecond
      <3>. QED BY <2>2, <3>1, <3>2
    <2>. QED BY <1>2, <2>1, <2>2 DEF Participant, Creates, Plays
  <1>3. CASE Scheduler
    BY <1>1, <1>3 DEF Scheduler, SweepAct, SweepAbandon, SundayCutoff, Deplete, ExpireCycle
  <1>4. CASE Administrator
    BY <1>4 
      DEF Administrator, Settle, ReviewClear, CancelUnscorable, ReviewCheating,
          SettleCheating, PenaltyOver
  <1>5. CASE Clock
    BY <1>5 DEF Clock, StartDeadline, EvidenceDeadline, LockRequests, LockDivision, Unlocked,
       NewDay
  <1>6. CASE UNCHANGED vars
    BY <1>6 DEF vars
  <1>. QED BY <1>2, <1>3, <1>4, <1>5, <1>6 DEF Next

\* Nobody uploads to a match that has ended.
LEMMA PlaysInTime ==
  ASSUME Ordered, TypeOK, MatchesOK, NEW m \in Matches, NEW r \in Roles, Plays(m, r)
  PROVE  /\ UNCHANGED <<terms, seat, locked, lock, cycle, ledger, winner>>
         /\ status[m] \notin Unsettled => UNCHANGED <<status, integrity>>
         /\ \/ status' = status
            \/ \E s \in Unsettled : status' = [status EXCEPT ![m] = s]
         /\ \A k \in Matches, q \in Roles : attempt'[k][q] = "SUBMITTED" =>
              attempt[k][q] = "SUBMITTED" \/ (k = m /\ status[m] \in Unsettled)
         /\ \A k \in Matches, q \in Roles :
              attempt[k][q] = "SUBMITTED" => attempt'[k][q] = "SUBMITTED"
         /\ \A k \in Matches \ {m} : UNCHANGED <<status[k], integrity[k]>>
  <1>1. CASE StartAttempt(m, r)
    BY <1>1 DEF StartAttempt, TypeOK, moneyVars, Unsettled, InPlay
  <1>2. CASE FinishQuestions(m, r)
    BY <1>2 DEF FinishQuestions, TypeOK, matchVars, moneyVars
  <1>3. ASSUME MayUpload(m, r)
        PROVE  status[m] \in Unsettled
    <2>1. status[m] # "NONE"
      BY <1>3 DEF MayUpload, MatchesOK
    <2>2. status[m] \notin Ended
      BY <1>3 DEF MayUpload, Ordered
    <2>. QED BY <2>1, <2>2 DEF TypeOK, Statuses
  <1>4. CASE UploadFirst(m, r)
    <2>1. status[m] \in Unsettled
      BY <1>3, <1>4 DEF UploadFirst
    <2>2. \/ status' = [status EXCEPT ![m] = "IN_PROGRESS"]
          \/ status' = [status EXCEPT ![m] = @]
      BY <1>4 DEF UploadFirst
    <2>3. \E s \in Unsettled : status' = [status EXCEPT ![m] = s]
      BY <2>1, <2>2 DEF Unsettled, InPlay
    <2>. QED BY ZenonT(60), <1>4, <2>1, <2>3 DEF UploadFirst, TypeOK, moneyVars
  <1>5. CASE \E best \in Roles, flagged \in BOOLEAN : UploadSecond(m, r, best, flagged)
    <2>1. status[m] \in Unsettled
      BY <1>3, <1>5 DEF UploadSecond
    <2>2. \E s \in Unsettled : status' = [status EXCEPT ![m] = s]
      BY <1>5 DEF UploadSecond, Unsettled, InPlay
    <2>3. /\ UNCHANGED <<terms, seat, locked, lock, cycle, ledger, winner>>
          /\ attempt' = [attempt EXCEPT ![m][r] = "SUBMITTED"]
          /\ \E s : integrity' = [integrity EXCEPT ![m] = s]
      BY <1>5 DEF UploadSecond, moneyVars
    <2>. QED BY <2>1, <2>2, <2>3 DEF TypeOK
  <1>. QED BY <1>1, <1>2, <1>4, <1>5 DEF Plays

\* A settlement pays a match out for the first time.
LEMMA ConcludedPays ==
  ASSUME TypeOK, MatchesOK, PaidOK, NEW m \in Matches, status[m] \in Unsettled, NEW fined,
         Concluded(m, fined)
  PROVE  PaidOK'
  <1>1. PICK version \in Versions : ledger' = [ledger EXCEPT ![m] = @ \cup {version}]
    BY DEF Concluded, PayOut
  <1>2. PICK how \in Ended : status' = [status EXCEPT ![m] = how]
    BY DEF Concluded, End
  <1>3. ledger[m] = {}
    BY DEF PaidOK, Unsettled, InPlay, Ended
  <1>4. ledger'[m] = {version} /\ status'[m] = how
    BY <1>1, <1>2, <1>3 DEF TypeOK
  <1>5. \A k \in Matches \ {m} : ledger'[k] = ledger[k] /\ status'[k] = status[k]
    BY <1>1, <1>2 DEF TypeOK
  <1>. QED BY <1>4, <1>5 DEF PaidOK

LEMMA PaidStep ==
  ASSUME Ordered, OInv, [Next]_vars
  PROVE  PaidOK'
  <1> USE DEF OInv, IInv
  <1>1. ASSUME NEW m \in Matches, NEW s, status' = [status EXCEPT ![m] = s],
               s \notin Ended, status[m] \notin Ended, ledger' = ledger
        PROVE  PaidOK'
    BY <1>1 DEF PaidOK, TypeOK
  <1>2. CASE status' = status /\ ledger' = ledger
    BY <1>2 DEF PaidOK
  <1>3. CASE \E m \in Matches, c, d \in Users : Opens(m, c, d)
    <2>1. PICK m \in Matches : /\ status[m] = "NONE" /\ ledger' = ledger
                               /\ status' = [status EXCEPT ![m] = "READY"]
      BY ZenonT(60), <1>3 DEF Opens, Open
    <2>. QED BY <1>1, <2>1 DEF Ended
  <1>4. CASE \E m \in Matches, r \in Roles : Plays(m, r)
    BY <1>1, <1>2, <1>4, PlaysInTime DEF Unsettled, InPlay, Ended
  <1>5. CASE \E m \in Matches : Decides(m)
    <2>1. PICK m \in Matches : Decides(m)
      BY <1>5
    <2>2. status[m] \in Unsettled /\ (Hold(m) \/ Concluded(m, {}))
      BY <2>1 DEF Decides, Ends, Unsettled
    <2>3. CASE Hold(m)
      BY <1>1, <2>2, <2>3 DEF Hold, moneyVars, Ended, Unsettled, InPlay
    <2>. QED BY <2>2, <2>3, ConcludedPays
  <1>6. CASE \E m \in Matches, cheaters \in SUBSET Roles :
               status[m] = "HELD" /\ Concluded(m, cheaters)
    BY <1>6, ConcludedPays DEF Unsettled
  <1>7. CASE \E m \in Matches : Resumes(m) \/ SundayCutoff(m)
    <2>1. PICK m \in Matches : Resumes(m) \/ SundayCutoff(m)
      BY <1>7
    <2>2. /\ status[m] \notin Ended /\ ledger' = ledger
          /\ \E s \in Unsettled : status' = [status EXCEPT ![m] = s]
      BY <2>1 DEF Resumes, SundayCutoff, CutOffStatuses, InPlay, Unsettled, Ended, moneyVars
    <2>. QED BY <1>1, <2>2 DEF Unsettled, InPlay, Ended
  <1>8. CASE Quiet \/ \E u \in Users : ExpireCycle(u)
    BY <1>2, <1>8 DEF Quiet, ExpireCycle, matchVars, moneyVars
  <1>. QED BY <1>3, <1>4, <1>5, <1>6, <1>7, <1>8, StepShapes

-----------------------------------------------------------------------------
(* UnsettledMatchIsIntact *)

\* The same for one match, in terms of what a step may change.
Intact(m) ==
  LET c == terms[m].challenger
      d == terms[m].defender
  IN  /\ seat[c] = terms[m].from /\ seat[d] = terms[m].to
      /\ locked[c] >= StakeOf(m)
      /\ \A u \in {c, d} : lock[u] = m /\ cycle[u] # "EXPIRED"

AllIntact == \A m \in Matches : status[m] \in Unsettled => Intact(m)

LEMMA IntactByMatch == UnsettledMatchIsIntact <=> AllIntact
  BY DEF UnsettledMatchIsIntact, SourceIntact, AllIntact, Intact, Parties, Challenger, Defender

\* A match a step does not touch, played by users it does not touch.
LEMMA Untouched ==
  ASSUME TypeOK, MatchesOK, NEW m \in Matches, status[m] \in Unsettled, Intact(m),
         terms'[m] = terms[m],
         \A u \in Parties(m) : /\ seat'[u] = seat[u] /\ locked'[u] = locked[u]
                               /\ lock'[u] = lock[u]
                               /\ cycle'[u] = "EXPIRED" => cycle[u] = "EXPIRED"
  PROVE  Intact(m)'
  BY DEF Intact, StakeOf, Parties, Challenger, Defender

LEMMA OpensIntact ==
  ASSUME OInv, NEW m \in Matches, NEW c \in Users, NEW d \in Users, Opens(m, c, d)
  PROVE  UnsettledMatchIsIntact'
  <1> USE DEF OInv, IInv
  <1>1. PICK kind \in {"NORMAL", "REVENGE"}, src \in Matches \cup {None} :
          Open(m, kind, c, d, src)
    BY DEF Opens
  <1>2. /\ terms' = [terms EXCEPT ![m] = [kind |-> kind, challenger |-> c, defender |-> d,
                                         from |-> seat[c], to |-> seat[d], source |-> src]]
        /\ status' = [status EXCEPT ![m] = "READY"]
        /\ lock' = [lock EXCEPT ![c] = m, ![d] = m]
        /\ locked' = [locked EXCEPT ![c] = @ + Stake(kind)]
        /\ UNCHANGED <<seat, cycle>>
    BY <1>1 DEF Open
  <1>3. c # d /\ \A u \in {c, d} : lock[u] = None /\ cycle[u] = "ACTIVE"
    BY DEF Opens
  <1>4. Intact(m)'
    <2>1. Stake(kind) \in Nat /\ locked \in [Users -> Nat]
      <3>1. Stake(kind) \in Nat
        BY StakeType
      <3>. QED BY <3>1 DEF TypeOK
    <2>2. /\ terms'[m].challenger = c /\ terms'[m].defender = d /\ terms'[m].kind = kind
          /\ terms'[m].from = seat[c] /\ terms'[m].to = seat[d]
      <3>1. terms'[m] = [kind |-> kind, challenger |-> c, defender |-> d,
                         from |-> seat[c], to |-> seat[d], source |-> src]
        BY <1>2 DEF TypeOK
      <3>. QED BY <3>1
    <2>3. locked'[c] >= Stake(kind) /\ lock'[c] = m /\ lock'[d] = m
      BY <1>2, <1>3, <2>1 DEF TypeOK
    <2>. QED BY <1>2, <1>3, <2>2, <2>3 DEF Intact, StakeOf
  <1>5. ASSUME NEW k \in Matches \ {m}, status'[k] \in Unsettled
        PROVE  Intact(k)'
    <2>1. status[k] \in Unsettled /\ terms'[k] = terms[k]
      BY <1>2, <1>5 DEF TypeOK
    <2>2. Intact(k)
      BY <2>1, IntactByMatch DEF AllIntact
    <2>3. \A u \in Parties(k) : u \in Users /\ u \notin {c, d}
      BY <1>3, <2>1, <2>2, NoneAssumption DEF Intact, MatchesOK, Parties, Challenger, Defender,
         Unsettled, InPlay
    <2>4. \A u \in Parties(k) : seat'[u] = seat[u] /\ locked'[u] = locked[u]
                               /\ lock'[u] = lock[u] /\ cycle'[u] = cycle[u]
      BY <1>2, <2>3 DEF TypeOK
    <2>. QED BY <2>1, <2>2, <2>4, Untouched
  <1>6. AllIntact'
    BY <1>4, <1>5 DEF AllIntact
  <1>. QED BY <1>6, IntactByMatch, PTL

LEMMA ConcludedIntact ==
  ASSUME OInv, NEW m \in Matches, status[m] \in Unsettled, NEW fined, Concluded(m, fined)
  PROVE  UnsettledMatchIsIntact'
  <1> USE DEF OInv, IInv
  <1>1. PICK how \in Ended, verdict \in Verdicts, role \in Roles \cup {None} :
          End(m, how, verdict, role)
    BY DEF Concluded
  <1>2. PICK plan \in Plans, version \in Versions : PayOut(m, plan, version, fined)
    BY DEF Concluded
  <1>3. /\ status' = [status EXCEPT ![m] = how] /\ UNCHANGED <<terms, cycle>>
        /\ lock' = [u \in Users |-> IF lock[u] = m THEN None ELSE lock[u]]
    BY <1>1 DEF End, Unlock
  <1>4. /\ seat' = seat \/ seat' = Swapped(m)
        /\ locked' = [locked EXCEPT ![Challenger(m)] = @ - StakeOf(m)]
    BY <1>2 DEF PayOut
  <1>5. status'[m] \notin Unsettled
    BY <1>3 DEF TypeOK, Ended, Unsettled, InPlay
  <1>6. ASSUME NEW k \in Matches, status'[k] \in Unsettled
        PROVE  Intact(k)'
    <2>1. k # m /\ status[k] \in Unsettled
      BY <1>3, <1>5, <1>6 DEF TypeOK
    <2>2. Intact(k) /\ Intact(m)
      BY <2>1, IntactByMatch DEF AllIntact
    <2>3. \A u \in Parties(k) : u \in Users /\ u \notin Parties(m) /\ lock[u] # m
      BY <2>1, <2>2 DEF Intact, MatchesOK, Parties, Challenger, Defender, Unsettled, InPlay
    <2>4. \A u \in Parties(k) : /\ seat'[u] = seat[u] /\ locked'[u] = locked[u]
                               /\ lock'[u] = lock[u] /\ cycle'[u] = cycle[u]
      BY <1>3, <1>4, <2>3 DEF TypeOK, Swapped, Parties
    <2>. QED BY <1>3, <2>1, <2>2, <2>4, Untouched
  <1>7. AllIntact'
    BY <1>6 DEF AllIntact
  <1>. QED BY <1>7, IntactByMatch, PTL

LEMMA IntactStep ==
  ASSUME Ordered, OInv, [Next]_vars
  PROVE  UnsettledMatchIsIntact'
  <1> USE DEF OInv, IInv
  <1>1. ASSUME \A m \in Matches : status'[m] \in Unsettled => status[m] \in Unsettled,
               UNCHANGED <<terms, seat, locked, lock>>,
               \A m \in Matches : status[m] \in Unsettled => \A u \in Parties(m) :
                 cycle'[u] = "EXPIRED" => cycle[u] = "EXPIRED"
        PROVE  UnsettledMatchIsIntact'
    <2>1. ASSUME NEW m \in Matches, status'[m] \in Unsettled
          PROVE  Intact(m)'
      <3>1. status[m] \in Unsettled /\ Intact(m)
        BY <1>1, <2>1, IntactByMatch DEF AllIntact
      <3>. QED BY <1>1, <3>1, Untouched
    <2>2. AllIntact'
      BY <2>1 DEF AllIntact
    <2>. QED BY <2>2, IntactByMatch, PTL
  <1>2. CASE \E m \in Matches, c, d \in Users : Opens(m, c, d)
    BY <1>2, OpensIntact
  <1>3. CASE \E m \in Matches, r \in Roles : Plays(m, r)
    <2>1. PICK m \in Matches, r \in Roles : Plays(m, r)
      BY <1>3
    <2>2. \A k \in Matches : status'[k] \in Unsettled => status[k] \in Unsettled
      <3>1. status[m] \notin Unsettled => status' = status
        BY <2>1, PlaysInTime
      <3>2. status' = status \/ \E s \in Unsettled : status' = [status EXCEPT ![m] = s]
        BY <2>1, PlaysInTime
      <3>. QED BY <3>1, <3>2 DEF TypeOK
    <2>3. UNCHANGED <<terms, seat, locked, lock, cycle>>
      BY <2>1, PlaysInTime
    <2>. QED BY <1>1, <2>2, <2>3
  <1>4. CASE \E m \in Matches : Decides(m)
    <2>1. PICK m \in Matches : Decides(m)
      BY <1>4
    <2>2. status[m] \in Unsettled /\ (Hold(m) \/ Concluded(m, {}))
      BY <2>1 DEF Decides, Ends, Unsettled
    <2>3. CASE Hold(m)
      BY <1>1, <2>2, <2>3 DEF Hold, moneyVars, TypeOK
    <2>. QED BY <2>2, <2>3, ConcludedIntact
  <1>5. CASE \E m \in Matches, cheaters \in SUBSET Roles :
               status[m] = "HELD" /\ Concluded(m, cheaters)
    BY <1>5, ConcludedIntact DEF Unsettled
  <1>6. CASE \E m \in Matches : Resumes(m) \/ SundayCutoff(m)
    <2>1. PICK m \in Matches : Resumes(m) \/ SundayCutoff(m)
      BY <1>6
    <2>2. /\ status[m] \in Unsettled /\ UNCHANGED <<terms, seat, locked, lock, cycle>>
          /\ \E s : status' = [status EXCEPT ![m] = s]
      BY <2>1 DEF Resumes, SundayCutoff, CutOffStatuses, InPlay, Unsettled, moneyVars
    <2>. QED BY <1>1, <2>2 DEF TypeOK
  <1>7. CASE \E u \in Users : ExpireCycle(u)
    <2>1. PICK u \in Users : ExpireCycle(u)
      BY <1>7
    <2>2. /\ UNCHANGED <<status, terms, seat, locked, lock>>
          /\ cycle' = [cycle EXCEPT ![u] = "EXPIRED"]
          /\ \A m \in Matches : status[m] \in Unsettled => u \notin Parties(m)
      BY <2>1 DEF ExpireCycle, PendingSettlement, matchVars, moneyVars
    <2>. QED BY <1>1, <2>2 DEF TypeOK
  <1>8. CASE Quiet
    <2>1. /\ UNCHANGED <<status, terms, seat, locked, lock>>
          /\ \A u \in Users : cycle'[u] = "EXPIRED" => cycle[u] = "EXPIRED"
      BY <1>8 DEF Quiet, matchVars, moneyVars
    <2>2. \A m \in Matches : status[m] \in Unsettled => Parties(m) \subseteq Users
      BY DEF MatchesOK, Parties, Unsettled, InPlay
    <2>. QED BY <1>1, <2>1, <2>2
  <1>. QED BY <1>2, <1>3, <1>4, <1>5, <1>6, <1>7, <1>8, StepShapes

LEMMA OInvariance ==
  ASSUME Ordered
  PROVE  Spec => []OInv
  <1>1. OInv /\ [Next]_vars => OInv'
    <2> SUFFICES ASSUME OInv, [Next]_vars PROVE OInv'
      OBVIOUS
    <2>1. IInv' /\ stale' = {}
      BY NextIInv, StaleStep DEF OInv, IInv
    <2>2. UnsettledMatchIsIntact' /\ PaidOK'
      BY PaidStep, IntactStep
    <2>. QED BY <2>1, <2>2 DEF OInv
  <1>. QED BY <1>1, InitOInv, PTL DEF Spec

\* What creation fixed of a match (seats, stake, locks, cycles) is still so when it is
\* settled: SETTLEMENT_SOURCE_CHANGED (settleSubNormalMatch, settleSubRevengeOutcome)
\* never fires, and nobody is in two unsettled matches, although creating a revenge
\* match consults only the participant locks.
THEOREM MatchesStayIntact ==
  ASSUME Ordered
  PROVE  Spec => []UnsettledMatchIsIntact
  BY OInvariance, PTL DEF OInv

\* Exactly the matches that ended were paid out, and each once: by a settlement, a
\* cancellation or a review, never by two of them.
THEOREM MatchesArePaidOutOnce ==
  ASSUME Ordered
  PROVE  Spec => []PaidOutOnce
  <1>1. PaidOK => PaidOutOnce
    <2> SUFFICES ASSUME PaidOK, NEW m \in Matches
                 PROVE  Cardinality(ledger[m]) = IF status[m] \in Ended THEN 1 ELSE 0
      BY DEF PaidOutOnce
    <2>1. CASE status[m] \in Ended
      <3>1. PICK v \in Versions : ledger[m] = {v}
        BY <2>1 DEF PaidOK
      <3>. QED BY <2>1, <3>1, FS_Singleton
    <2>2. CASE status[m] \notin Ended
      BY <2>2, FS_EmptySet DEF PaidOK
    <2>. QED BY <2>1, <2>2
  <1>. QED BY <1>1, OInvariance, PTL DEF OInv

-----------------------------------------------------------------------------
(* EndedForGood *)

\* A step that leaves the result of m alone.
Same(m) ==
  /\ UNCHANGED <<status[m], winner[m], integrity[m], terms[m]>>
  /\ \A r \in Roles : attempt'[m][r] = "SUBMITTED" <=> attempt[m][r] = "SUBMITTED"

LEMMA EndedStep ==
  ASSUME Ordered, OInv, [Next]_vars, NEW m \in Matches, status[m] \in Ended
  PROVE  Same(m)
  <1> USE DEF OInv, IInv, Same
  <1>1. CASE \E k \in Matches, c, d \in Users : Opens(k, c, d)
    <2>1. PICK k \in Matches, c \in Users, d \in Users : Opens(k, c, d)
      BY <1>1
    <2>2. /\ \E s : status' = [status EXCEPT ![k] = s]
          /\ \E s : terms' = [terms EXCEPT ![k] = s]
          /\ UNCHANGED <<integrity, winner, attempt>> /\ status[k] = "NONE"
      BY <2>1 DEF Opens, Open, playVars
    <2>. QED BY <2>2 DEF TypeOK, Ended
  <1>2. CASE \E k \in Matches, r \in Roles : Plays(k, r)
    <2>1. PICK k \in Matches, r \in Roles : Plays(k, r)
      BY <1>2
    <2>2. status[m] \notin Unsettled
      BY DEF Unsettled, InPlay, Ended
    <2>. QED BY <2>1, <2>2, PlaysInTime
  <1>3. ASSUME NEW k \in Matches, status[k] \notin Ended,
               Hold(k) \/ \E fined : Concluded(k, fined)
        PROVE  Same(m)
    <2>1. /\ UNCHANGED <<terms, attempt>>
          /\ \E s : status' = [status EXCEPT ![k] = s]
          /\ \E s : integrity' = [integrity EXCEPT ![k] = s]
          /\ \/ winner' = winner
             \/ \E s : winner' = [winner EXCEPT ![k] = s]
      BY <1>3 DEF Hold, Concluded, End, playVars
    <2>. QED BY <1>3, <2>1 DEF TypeOK
  <1>4. CASE \E k \in Matches : Decides(k)
    BY <1>3, <1>4 DEF Decides, Ends, InPlay, Ended
  <1>5. CASE \E k \in Matches, cheaters \in SUBSET Roles :
               status[k] = "HELD" /\ Concluded(k, cheaters)
    BY <1>3, <1>5 DEF Ended
  <1>6. CASE \E k \in Matches : Resumes(k) \/ SundayCutoff(k)
    <2>1. PICK k \in Matches : Resumes(k) \/ SundayCutoff(k)
      BY <1>6
    <2>2. /\ UNCHANGED <<terms, attempt, winner>> /\ status[k] \notin Ended
          /\ \E s : status' = [status EXCEPT ![k] = s]
          /\ \E s : integrity' = [integrity EXCEPT ![k] = s]
      BY <2>1 DEF Resumes, SundayCutoff, CutOffStatuses, InPlay, Ended, playVars
    <2>. QED BY <2>2 DEF TypeOK
  <1>7. CASE Quiet \/ \E u \in Users : ExpireCycle(u)
    BY <1>7 DEF Quiet, ExpireCycle, matchVars, playVars
  <1>. QED BY <1>1, <1>2, <1>4, <1>5, <1>6, <1>7, StepShapes

\* A match that was settled or cancelled stays as it is.
THEOREM MatchesEndForGood ==
  ASSUME Ordered
  PROVE  Spec => EndedForGood
  <1>1. OInv /\ [Next]_vars
          => [\A m \in Matches : status[m] \in Ended => status'[m] = status[m]]_vars
    BY EndedStep DEF Same
  <1>. QED BY <1>1, OInvariance, PTL DEF Spec, EndedForGood

-----------------------------------------------------------------------------
(* UploaderIsNotForfeited *)

LEMMA UploaderStep ==
  ASSUME Ordered, OInv, UploaderIsNotForfeited, [Next]_vars
  PROVE  UploaderIsNotForfeited'
  <1> USE DEF OInv, IInv
  <1> SUFFICES ASSUME NEW m \in Matches, NEW r \in Roles,
                      terms'[m].kind = "NORMAL", status'[m] = "SETTLED",
                      integrity'[m] = "CLEAR", attempt'[m][r] = "SUBMITTED",
                      attempt'[m][Other(r)] # "SUBMITTED"
               PROVE  winner'[m] = r
    BY DEF UploaderIsNotForfeited
  <1>0. Other(r) \in Roles
    BY DEF Other, Roles
  <1>1. CASE status[m] = "SETTLED"
    <2>1. Same(m)
      BY <1>1, EndedStep DEF Ended
    <2>. QED BY <1>0, <1>1, <2>1 DEF Same, UploaderIsNotForfeited
  <1>2. CASE status[m] # "SETTLED"
    <2>1. ASSUME NEW role, NEW forced, NormalResult(m, role, forced)
          PROVE  winner'[m] = role /\ attempt' = attempt
      <3>1. ~ Hold(m)
        BY DEF Hold, TypeOK
      <3>2. End(m, "SETTLED", "CLEAR", role)
        BY <2>1, <3>1 DEF NormalResult
      <3>. QED BY <3>2 DEF End, TypeOK
    <2>2. CASE SettleByScore(m)
      <3>1. ~ Hold(m)
        BY DEF Hold, TypeOK
      <3>2. BothSubmitted(m) /\ attempt' = attempt
        BY <2>2, <3>1 DEF SettleByScore, NormalResult, RevengeResult, End
      <3>. QED BY <1>0, <3>2 DEF BothSubmitted
    <2>3. ASSUME NEW d \in Decisions, d.match = m, CarryOut(d), Overdue(d)
          PROVE  winner'[m] = r
      <3>1. terms'[m] = terms[m] /\ terms[m].kind = "NORMAL"
        <4>1. Ends(m)
          BY <2>3, OverdueInPlay, CarryOutEnds DEF InPlay
        <4>2. terms' = terms
          BY <4>1 DEF Ends, Hold, Concluded, End
        <4>. QED BY <4>2
      <3>2. ~ CancelNoStart(m)
        BY DEF CancelNoStart, End, TypeOK
      <3>3. Forfeit(m, d.missing)
        BY <2>3, <3>1, <3>2 DEF CarryOut
      <3>4. PICK q \in Roles : d.missing = {q} /\ NormalResult(m, Other(q), TRUE)
        BY <2>3, <3>3 DEF Forfeit, Decisions
      <3>5. attempt[m][q] # "SUBMITTED"
        BY <2>3, <3>1, <3>4 DEF Overdue, EvidenceOverdue, StartOverdue, RevengeOverdue,
           MissingEvidence, Unstarted
      <3>6. winner'[m] = Other(q) /\ attempt' = attempt
        BY <2>1, <3>4
      <3>. QED BY <3>5, <3>6 DEF Roles, Other
    <2>4. ASSUME NEW cheaters, ReviewCheating(m, cheaters)
          PROVE  FALSE
      <3>1. integrity' = [integrity EXCEPT ![m] = "CONFIRMED"]
        BY <2>4 DEF ReviewCheating, SettleCheating, End
      <3>. QED BY <3>1 DEF TypeOK
    <2>. QED BY <1>2, <2>2, <2>3, <2>4, SettledBy
  <1>. QED BY <1>1, <1>2

\* holdExpiredEvidence and holdExpiredMatchStarts never let somebody who uploaded
\* evidence lose against somebody who did not.
THEOREM UploadersAreNotForfeited ==
  ASSUME Ordered
  PROVE  Spec => []UploaderIsNotForfeited
  <1>1. Init => UploaderIsNotForfeited
    BY DEF Init, UploaderIsNotForfeited
  <1>2. OInv /\ UploaderIsNotForfeited /\ [Next]_vars => UploaderIsNotForfeited'
    BY UploaderStep
  <1>. QED BY <1>1, <1>2, OInvariance, PTL DEF Spec

-----------------------------------------------------------------------------
(* PenaltyIsServed *)

\* Who is restricted plays no match that is still to be settled.
RestrictedIdle ==
  \A u \in Users, m \in Matches :
    access[u] = "RESTRICTED" /\ status[m] \in Unsettled => u \notin Parties(m)

LEMMA IdleStep ==
  ASSUME Ordered, OInv, RestrictedIdle, [Next]_vars
  PROVE  RestrictedIdle'
  <1> USE DEF OInv, IInv
  <1> SUFFICES ASSUME NEW u \in Users, NEW m \in Matches,
                      access'[u] = "RESTRICTED", status'[m] \in Unsettled
               PROVE  u \notin Parties(m)'
    BY DEF RestrictedIdle
  <1>1. CASE Creates
    <2>1. PICK k \in Matches, c \in Users, d \in Users :
            /\ access[c] = "CLEAR" /\ access[d] = "CLEAR" /\ UNCHANGED access
            /\ status' = [status EXCEPT ![k] = "READY"]
            /\ \E t : /\ terms' = [terms EXCEPT ![k] = t]
                     /\ t.challenger = c /\ t.defender = d
      <3>1. ASSUME NEW k \in Matches, NEW c \in Users, NEW d \in Users, CreateNormal(k, c, d)
            PROVE  /\ access[c] = "CLEAR" /\ access[d] = "CLEAR" /\ UNCHANGED access
                   /\ status' = [status EXCEPT ![k] = "READY"]
                   /\ \E t : /\ terms' = [terms EXCEPT ![k] = t]
                            /\ t.challenger = c /\ t.defender = d
        <4>1. access[c] = "CLEAR" /\ access[d] = "CLEAR" /\ Open(k, "NORMAL", c, d, None)
          BY <3>1 DEF CreateNormal, Eligible
        <4> DEFINE t == [kind |-> "NORMAL", challenger |-> c, defender |-> d,
                         from |-> seat[c], to |-> seat[d], source |-> None]
        <4>2. terms' = [terms EXCEPT ![k] = t] /\ t.challenger = c /\ t.defender = d
          BY <4>1 DEF Open
        <4>3. UNCHANGED access /\ status' = [status EXCEPT ![k] = "READY"]
          BY <4>1 DEF Open
        <4>. HIDE DEF t
        <4>. QED BY <4>1, <4>2, <4>3
      <3>2. ASSUME NEW k \in Matches, NEW src \in Matches, CreateRevenge(k, src)
            PROVE  \E c, d \in Users :
                     /\ access[c] = "CLEAR" /\ access[d] = "CLEAR" /\ UNCHANGED access
                     /\ status' = [status EXCEPT ![k] = "READY"]
                     /\ \E t : /\ terms' = [terms EXCEPT ![k] = t]
                              /\ t.challenger = c /\ t.defender = d
        <4> DEFINE c == Party(src, right[src].holder)
                   d == Party(src, Other(right[src].holder))
        <4>1. c \in Users /\ d \in Users
          BY <3>2 DEF CreateRevenge, MatchesOK, Party, Other
        <4>2. /\ access[c] = "CLEAR" /\ access[d] = "CLEAR"
              /\ Open(k, "REVENGE", c, d, src)
          BY <3>2 DEF CreateRevenge, Eligible
        <4>. HIDE DEF c, d
        <4>. QED BY <4>1, <4>2 DEF Open
      <3>. QED BY <1>1, <3>1, <3>2 DEF Creates
    <2>2. CASE m = k
      BY <2>1, <2>2 DEF Parties, Challenger, Defender, TypeOK
    <2>3. CASE m # k
      <3>1. status[m] \in Unsettled /\ terms'[m] = terms[m] /\ access[u] = "RESTRICTED"
        BY <2>1, <2>3 DEF TypeOK
      <3>. QED BY <3>1 DEF RestrictedIdle, Parties, Challenger, Defender
    <2>. QED BY <2>2, <2>3
  <1>2. CASE ~ Creates
    <2>1. status[m] \in Unsettled /\ terms'[m] = terms[m]
      <3>1. status[m] \notin Ended
        BY EndedStep DEF Same, Ended, Unsettled, InPlay
      <3>2. status[m] # "NONE" /\ terms' = terms
        BY <1>2, TermsStep DEF Unsettled, InPlay
      <3>. QED BY <3>1, <3>2 DEF TypeOK, Statuses
    <2>2. CASE access[u] = "RESTRICTED"
      BY <2>1, <2>2 DEF RestrictedIdle, Parties, Challenger, Defender
    <2>3. CASE access[u] # "RESTRICTED"
      <3>1. PICK k \in Matches, cheaters \in SUBSET Roles :
              status[k] = "HELD" /\ Concluded(k, cheaters) /\ ReleaseAccess(k, cheaters)
        <4>1. CASE \E k \in Matches, r \in Roles : Plays(k, r)
          BY <2>3, <4>1 DEF Plays, StartAttempt, FinishQuestions, UploadFirst, UploadSecond
        <4>2. CASE \E k \in Matches : Decides(k) \/ SundayCutoff(k)
          BY <2>3, <4>2 DEF Decides, Ends, Hold, SundayCutoff
        <4>3. CASE \E k \in Matches : Resumes(k)
          BY <2>3, <4>3 DEF Resumes, ReleaseAccess
        <4>4. CASE Quiet \/ \E v \in Users : ExpireCycle(v)
          BY <2>3, <4>4 DEF Quiet, ExpireCycle
        <4>5. CASE \E k \in Matches, c, d \in Users : Opens(k, c, d)
          BY <1>2, <4>5 DEF Opens
        <4>. QED BY <4>1, <4>2, <4>3, <4>4, <4>5, StepShapes
      <3>2. u \in Parties(k)
        BY <2>3, <3>1 DEF ReleaseAccess
      <3>3. k # m
        BY <3>1 DEF Concluded, End, TypeOK, Ended, Unsettled, InPlay
      <3>4. Intact(k) /\ Intact(m)
        BY <2>1, <3>1, IntactByMatch DEF AllIntact, Unsettled
      <3>. QED BY <2>1, <3>2, <3>3, <3>4 DEF Intact, Parties, Challenger, Defender
    <2>. QED BY <2>2, <2>3
  <1>. QED BY <1>1, <1>2

LEMMA PenaltyStep ==
  ASSUME Ordered, OInv, RestrictedIdle, [Next]_vars, NEW u \in Users,
         access[u] = "RESTRICTED", access'[u] # "RESTRICTED"
  PROVE  PenaltyOver(u)
  <1> USE DEF OInv, IInv
  <1>1. CASE \E m \in Matches, r \in Roles : Plays(m, r)
    <2>1. PICK m \in Matches, r \in Roles : Plays(m, r)
      BY <1>1
    <2>2. MayUpload(m, r) /\ u \in Parties(m)
      BY <2>1 DEF Plays, StartAttempt, FinishQuestions, UploadFirst, UploadSecond
    <2>3. status[m] # "NONE" /\ status[m] \notin Ended
      BY <2>2 DEF MayUpload, MatchesOK, Ordered
    <2>. QED BY <2>2, <2>3 DEF RestrictedIdle, TypeOK, Statuses
  <1>2. CASE \E m \in Matches : Settle(m)
    BY <1>2, SettleEnds DEF Settle, Ends, Hold
  <1>3. CASE \E d \in Decisions : SweepAct(d)
    <2>1. PICK d \in Decisions : SweepAct(d)
      BY <1>3
    <2>2. status[d.match] # "NONE"
      BY <2>1, OverdueInPlay DEF SweepAct, InPlay
    <2>. QED BY <2>1, <2>2, CarryOutEnds DEF SweepAct, Ends, Hold
  <1>4. CASE \E m \in Matches : \/ ReviewClear(m)
                               \/ \E cheaters \in SUBSET Roles \ {{}} : ReviewCheating(m, cheaters)
    <2>1. PICK m \in Matches : status[m] = "HELD" /\ \E cheaters : ReleaseAccess(m, cheaters)
      BY <1>4 DEF ReviewClear, CancelUnscorable, ReviewCheating, SettleCheating
    <2>. QED BY <2>1 DEF ReleaseAccess, RestrictedIdle, Unsettled
  <1>5. CASE \E v \in Users : PenaltyOver(v)
    <2>1. PICK v \in Users : PenaltyOver(v)
      BY <1>5
    <2>2. v = u
      BY <2>1 DEF PenaltyOver, TypeOK
    <2>. QED BY <2>1, <2>2
  <1>6. CASE Creates
    <2>1. UNCHANGED access
      <3>1. CASE \E m \in Matches, c, d \in Users : CreateNormal(m, c, d)
        BY <3>1 DEF CreateNormal, Open
      <3>2. CASE \E m, src \in Matches : CreateRevenge(m, src)
        BY <3>2 DEF CreateRevenge, Open
      <3>. QED BY <1>6, <3>1, <3>2 DEF Creates
    <2>. QED BY <2>1
  <1>7. CASE \/ \E m \in Matches : ForfeitRight(m) \/ SundayCutoff(m)
             \/ \E d \in Decisions : SweepRead(d) \/ SweepAbandon(d)
             \/ \E v \in Users : Deplete(v) \/ ExpireCycle(v)
             \/ UNCHANGED vars
    BY <1>7 DEF ForfeitRight, SundayCutoff, SweepRead, SweepAbandon, Deplete, ExpireCycle, vars
  <1>8. CASE Clock
    BY <1>8 DEF Clock, StartDeadline, EvidenceDeadline, LockRequests, LockDivision, Unlocked,
       NewDay
  <1>. QED BY <1>1, <1>2, <1>3, <1>4, <1>5, <1>6, <1>7, <1>8
           DEF Next, Participant, Scheduler, Administrator, Plays, Creates

\* A restriction after confirmed cheating is lifted by nothing but its five days:
\* no review of another match and no new suspicion overwrites it.
THEOREM PenaltiesAreServed ==
  ASSUME Ordered
  PROVE  Spec => PenaltyIsServed
  <1>1. Init => RestrictedIdle
    BY DEF Init, RestrictedIdle
  <1>2. OInv /\ RestrictedIdle /\ [Next]_vars => RestrictedIdle'
    BY IdleStep
  <1>3. OInv /\ RestrictedIdle /\ [Next]_vars
          => [\A u \in Users : access[u] = "RESTRICTED" /\ access'[u] # "RESTRICTED"
                => PenaltyOver(u)]_vars
    BY PenaltyStep
  <1>. QED BY <1>1, <1>2, <1>3, OInvariance, PTL DEF Spec, PenaltyIsServed
-----------------------------------------------------------------------------
(* What stops a sweep *)

\* A match in play whose participants have both uploaded waits for its settlement.
SubmittedTogether ==
  \A m \in Matches : status[m] \in InPlay /\ BothSubmitted(m) => status[m] = "SUBMITTED"

LEMMA SubmittedStep ==
  ASSUME TypeOK, MatchesOK, SubmittedTogether, [Next]_vars
  PROVE  SubmittedTogether'
  <1> SUFFICES ASSUME NEW m \in Matches, status'[m] \in InPlay,
                      \A r \in Roles : attempt'[m][r] = "SUBMITTED"
               PROVE  status'[m] = "SUBMITTED"
    BY DEF SubmittedTogether, BothSubmitted
  <1>0. status[m] \in InPlay /\ BothSubmitted(m) => status[m] = "SUBMITTED"
    BY DEF SubmittedTogether
  <1>1. CASE \E k \in Matches, c, d \in Users : Opens(k, c, d)
    <2>1. PICK k \in Matches, c \in Users, d \in Users : Opens(k, c, d)
      BY <1>1
    <2>2. status[k] = "NONE" /\ \E kind, src : Open(k, kind, c, d, src)
      BY <2>1 DEF Opens
    <2>3. attempt' = attempt /\ status' = [status EXCEPT ![k] = "READY"]
      BY <2>2 DEF Open, playVars
    <2>4. k # m
      BY <2>2, <2>3 DEF MatchesOK, Roles
    <2>. QED BY <1>0, <2>3, <2>4 DEF TypeOK, BothSubmitted
  <1>2. ASSUME NEW k \in Matches, NEW r \in Roles, Plays(k, r)
        PROVE  status'[m] = "SUBMITTED"
    <2>1. CASE k # m
      BY <1>0, <1>2, <2>1 DEF Plays, StartAttempt, FinishQuestions, UploadFirst, UploadSecond,
         TypeOK, BothSubmitted, matchVars
    <2>2. CASE k = m
      <3>1. CASE StartAttempt(m, r) \/ FinishQuestions(m, r)
        BY <3>1 DEF StartAttempt, FinishQuestions, TypeOK
      <3>2. CASE UploadFirst(m, r)
        <4>1. Other(r) \in Roles /\ Other(r) # r
          BY DEF Other, Roles
        <4>. QED BY <3>2, <4>1 DEF UploadFirst, TypeOK
      <3>3. CASE \E best \in Roles, flagged \in BOOLEAN : UploadSecond(m, r, best, flagged)
        BY <3>3 DEF UploadSecond, TypeOK, InPlay
      <3>. QED BY <1>2, <2>2, <3>1, <3>2, <3>3 DEF Plays
    <2>. QED BY <2>1, <2>2
  <1>3. ASSUME NEW k \in Matches, Decides(k) \/ SundayCutoff(k) \/ \E fined : Concluded(k, fined)
        PROVE  status'[m] = "SUBMITTED"
    <2>1. attempt' = attempt /\ \E s \in Ended \cup {"HELD"} : status' = [status EXCEPT ![k] = s]
      BY <1>3 DEF Decides, Ends, Hold, Concluded, End, SundayCutoff, playVars
    <2>. QED BY <1>0, <2>1 DEF TypeOK, InPlay, Ended, BothSubmitted
  <1>4. ASSUME NEW k \in Matches, Resumes(k)
        PROVE  status'[m] = "SUBMITTED"
    BY <1>0, <1>4 DEF Resumes, TypeOK, BothSubmitted
  <1>5. CASE Quiet \/ \E u \in Users : ExpireCycle(u)
    BY <1>0, <1>5 DEF Quiet, ExpireCycle, matchVars, playVars, BothSubmitted
  <1>. QED BY <1>1, <1>2, <1>3, <1>4, <1>5, StepShapes

\* What the transactions of a sweep's decision look at before they write, all of it
\* in the state before: the match is in play and unpaid, its standings, cycles and
\* stake are those of its creation, and somebody is missing or both have uploaded.
Executable(d) ==
  LET m == d.match
  IN
  /\ status[m] \in InPlay /\ SourceIntact(m) /\ ledger[m] = {}
  /\ IF d.missing = {} THEN /\ terms[m].kind = "REVENGE" /\ status[m] = "SUBMITTED"
                            /\ BothSubmitted(m)
     ELSE terms[m].kind = "NORMAL" \/ d.loop = "EVIDENCE" \/ <<m, "START">> \in expired

\* What they then write, every variable once.
Pays(m, plan, version, role) ==
  PayOut(m, plan, version, {}) /\ End(m, "SETTLED", "CLEAR", role) /\ UNCHANGED <<evidence, access>>

HeldInstead(d) ==
  \/ DivisionLocked
  \/ \E r \in Roles \ d.missing : evidence[d.match][r] = "ANOMALY_FLAGGED"
  \/ d.missing = {} /\ Unreviewed(d.match)

Writes(d) ==
  LET m == d.match
      present == IF d.missing = {"CHALLENGER"} THEN "DEFENDER"
                 ELSE IF d.missing = {"DEFENDER"} THEN "CHALLENGER"
                 ELSE IF d.missing = {} THEN screened[m] ELSE None
      outcome == IF d.missing # {} THEN NoShowOutcome(d.missing)
                 ELSE IF screened[m] = "CHALLENGER" THEN "ATTACKER_WIN" ELSE "DEFENDER_WIN"
  IN
  CASE terms[m].kind = "NORMAL" /\ d.missing = Roles ->
         /\ PayOut(m, Plan(FALSE, StakeOf(m), 0, 0), "NORMAL", {})
         /\ End(m, "CANCELLED", "CLEAR", winner[m])
         /\ UNCHANGED <<evidence, right, access>>
    [] terms[m].kind = "NORMAL" /\ d.missing # Roles ->
         Pays(m, NormalPlan(present, Tier[terms[m].from]), "NORMAL", present) /\ right' = right
    [] terms[m].kind = "REVENGE" /\ HeldInstead(d) -> Hold(m)
    [] terms[m].kind = "REVENGE" /\ ~ HeldInstead(d) ->
         /\ Pays(m, RevengePlan(outcome), "REVENGE", present)
         /\ right' = [right EXCEPT ![terms[m].source].status = "CONSUMED"]

\* Nothing else can stop a decision: with these guards, the writes carry it out.
LEMMA WritesCarryOut ==
  ASSUME TypeOK, NEW d \in Decisions, Executable(d), Writes(d)
  PROVE  CarryOut(d)
  <1> DEFINE m == d.match
             missing == d.missing
  <1>1. m \in Matches /\ missing \in SUBSET Roles /\ terms[m].kind \in {"NORMAL", "REVENGE"}
    BY DEF Decisions, TypeOK, Terms
  <1>2. missing \in {{}, {"CHALLENGER"}, {"DEFENDER"}, Roles}
    BY <1>1 DEF Roles
  <1>3. status[m] \notin Ended \cup {"HELD"} /\ SourceIntact(m) /\ EventFree(m)
    BY DEF Executable, InPlay, Ended, EventFree
  <1>4. CASE terms[m].kind = "NORMAL"
    <2>1. CASE missing = Roles
      <3>1. CancelNoStart(m)
        BY <1>3, <1>4, <2>1 DEF Writes, CancelNoStart, SourceIntact, Parties
      <3>. QED BY <1>4, <2>1, <3>1 DEF CarryOut
    <2>2. ASSUME NEW r \in Roles, missing = {r}
          PROVE  CarryOut(d)
      <3>1. Other(r) = IF r = "CHALLENGER" THEN "DEFENDER" ELSE "CHALLENGER"
        BY DEF Other
      <3>2. missing # Roles /\ r \in {"CHALLENGER", "DEFENDER"}
        BY <2>2 DEF Roles
      <3>3. NormalResult(m, Other(r), TRUE)
        BY <1>3, <1>4, <2>2, <3>1, <3>2 DEF Writes, Pays, NormalResult
      <3>. QED BY <1>3, <1>4, <2>2, <3>2, <3>3 DEF CarryOut, Forfeit, Ended
    <2>3. missing # {}
      BY <1>4 DEF Executable
    <2>. QED BY <1>2, <2>1, <2>2, <2>3 DEF Roles
  <1>5. CASE terms[m].kind = "REVENGE" /\ missing # {}
    <2>1. d.loop = "EVIDENCE" \/ <<m, "START">> \in expired
      BY <1>5 DEF Executable
    <2>2. RevengeNoShow(m, missing, d.loop = "EVIDENCE")
      <3>1. CASE HeldInstead(d)
        BY <1>3, <1>5, <2>1, <3>1 DEF Writes, HeldInstead, RevengeNoShow, Ended
      <3>2. CASE ~ HeldInstead(d)
        <4> DEFINE role == IF missing = {"CHALLENGER"} THEN "DEFENDER"
                           ELSE IF missing = {"DEFENDER"} THEN "CHALLENGER" ELSE None
        <4>1. RevengeResult(m, NoShowOutcome(missing), role)
          BY <1>3, <1>5, <3>2 DEF Writes, Pays, RevengeResult
        <4>. QED BY <1>3, <2>1, <3>2, <4>1 DEF HeldInstead, RevengeNoShow, Ended
      <3>. QED BY <3>1, <3>2
    <2>. QED BY <1>5, <2>2 DEF CarryOut
  <1>6. CASE terms[m].kind = "REVENGE" /\ missing = {}
    <2>1. status[m] = "SUBMITTED" /\ BothSubmitted(m)
      BY <1>6 DEF Executable
    <2>2. SettleByScore(m)
      <3>1. CASE HeldInstead(d)
        BY <1>6, <2>1, <3>1 DEF Writes, HeldInstead, SettleByScore, Unreviewed, FlaggedEvidence
      <3>2. CASE ~ HeldInstead(d)
        <4>1. RevengeResult(m, IF screened[m] = "CHALLENGER" THEN "ATTACKER_WIN" ELSE "DEFENDER_WIN",
                            screened[m])
          BY <1>3, <1>6, <3>2 DEF Writes, Pays, RevengeResult
        <4>. QED BY <1>6, <2>1, <3>2, <4>1 DEF HeldInstead, SettleByScore
      <3>. QED BY <3>1, <3>2
    <2>. QED BY <1>6, <2>2 DEF CarryOut
  <1>. QED BY <1>1, <1>4, <1>5, <1>6

\* Whatever a sweep finds due passes every check of the transaction that is to end it:
\* no duplicate key, changed standing, expired cycle or status aborts the loop.
THEOREM DueDecisionsAreExecutable ==
  ASSUME Ordered
  PROVE  Spec => [](\A d \in Decisions : Overdue(d) => Executable(d))
  <1>1. Init => SubmittedTogether
    BY DEF Init, SubmittedTogether, InPlay
  <1>2. OInv /\ SubmittedTogether /\ [Next]_vars => SubmittedTogether'
    BY SubmittedStep DEF OInv, IInv
  <1>3. OInv /\ SubmittedTogether => \A d \in Decisions : Overdue(d) => Executable(d)
    <2> SUFFICES ASSUME OInv, SubmittedTogether, NEW d \in Decisions, Overdue(d)
                 PROVE  Executable(d)
      OBVIOUS
    <2> DEFINE m == d.match
    <2>1. m \in Matches /\ status[m] \in InPlay
      BY OverdueInPlay DEF Decisions
    <2>2. SourceIntact(m) /\ ledger[m] = {}
      BY <2>1 DEF OInv, UnsettledMatchIsIntact, PaidOK, Unsettled, InPlay, Ended
    <2>3. CASE d.missing = {}
      <3>1. terms[m].kind = "REVENGE" /\ BothSubmitted(m)
        BY <2>3 DEF Overdue, EvidenceOverdue, StartOverdue, RevengeOverdue, Incomplete,
           BothSubmitted
      <3>. QED BY <2>1, <2>2, <2>3, <3>1 DEF Executable, SubmittedTogether
    <2>4. CASE d.missing # {}
      <3>1. terms[m].kind = "NORMAL" \/ d.loop = "EVIDENCE" \/ <<m, "START">> \in expired
        BY DEF Overdue, StartOverdue, RevengeOverdue
      <3>. QED BY <2>1, <2>2, <2>4, <3>1 DEF Executable
    <2>. QED BY <2>3, <2>4
  <1>. QED BY <1>1, <1>2, <1>3, OInvariance, PTL DEF Spec

-----------------------------------------------------------------------------
(* ImplementsLadder *)

\* A match as the ladder sees it.
LEMMA DepositOfMatch ==
  ASSUME NEW m \in Matches
  PROVE  /\ status[m] = "NONE" => Deposits[m] = Ladder!Free
         /\ status[m] \in Ended => Deposits[m] = Ladder!Closed
         /\ status[m] \in Unsettled =>
              /\ Deposits[m].state = "OPEN" /\ Deposits[m].owner = Challenger(m)
              /\ Deposits[m].rival = Defender(m) /\ Deposits[m].amount = StakeOf(m)
  BY DEF Deposits, Ended, Unsettled, InPlay, Ladder!Free, Ladder!Closed

\* The ladder does not notice what neither opens nor ends a match.
LEMMA DepositsStay ==
  ASSUME UNCHANGED <<terms, seat, score, locked, burned>>,
         \A m \in Matches : \/ status'[m] = status[m]
                            \/ status[m] \in Unsettled /\ status'[m] \in Unsettled
  PROVE  UNCHANGED Ladder!vars
  <1>1. \A m \in Matches : /\ Challenger(m)' = Challenger(m) /\ Defender(m)' = Defender(m)
                           /\ StakeOf(m)' = StakeOf(m)
    BY DEF Challenger, Defender, StakeOf
  <1>2. Deposits' = Deposits
    BY <1>1 DEF Deposits, Unsettled, InPlay, Ended
  <1>. QED BY <1>2 DEF Ladder!vars

\* One match changes its status, and the others stay what they are to the ladder.
LEMMA DepositChanges ==
  ASSUME TypeOK, NEW m \in Matches, NEW s, status' = [status EXCEPT ![m] = s],
         \A k \in Matches \ {m} : terms'[k] = terms[k]
  PROVE  Deposits' = [Deposits EXCEPT ![m] = Deposits'[m]]
  <1>1. ASSUME NEW k \in Matches, k # m
        PROVE  Deposits'[k] = Deposits[k]
    <2>1. /\ status'[k] = status[k] /\ Challenger(k)' = Challenger(k)
          /\ Defender(k)' = Defender(k) /\ StakeOf(k)' = StakeOf(k)
      BY <1>1 DEF TypeOK, Challenger, Defender, StakeOf
    <2>. QED BY <2>1 DEF Deposits
  <1>2. Deposits' = [k \in Matches |-> Deposits'[k]] /\ Deposits = [k \in Matches |-> Deposits[k]]
    BY DEF Deposits
  <1>. QED BY <1>1, <1>2

LEMMA OpensDeposit ==
  ASSUME Ordered, OInv, NEW m \in Matches, NEW c \in Users, NEW d \in Users, Opens(m, c, d)
  PROVE  \E n \in 1..score[c] : Ladder!Open(m, c, d, n)
  <1> USE DEF OInv, IInv
  <1>1. PICK kind \in {"NORMAL", "REVENGE"}, src \in Matches \cup {None} :
          score[c] >= Stake(kind) /\ Open(m, kind, c, d, src)
    BY DEF Opens
  <1>2. Stake(kind) \in 1..score[c]
    <2>1. Stake(kind) \in {1, 2}
      BY StakeType
    <2>2. score[c] \in Nat
      BY DEF TypeOK
    <2>3. score[c] >= Stake(kind)
      BY <1>1
    <2>. QED BY <2>1, <2>2, <2>3
  <1>3. /\ status' = [status EXCEPT ![m] = "READY"]
        /\ terms' = [terms EXCEPT ![m] = [kind |-> kind, challenger |-> c, defender |-> d,
                                          from |-> seat[c], to |-> seat[d], source |-> src]]
        /\ score' = [score EXCEPT ![c] = @ - Stake(kind)]
        /\ locked' = [locked EXCEPT ![c] = @ + Stake(kind)]
        /\ UNCHANGED <<seat, burned>>
    BY <1>1 DEF Open
  <1>4. c # d /\ status[m] = "NONE" /\ lock[c] = None /\ lock[d] = None
    BY DEF Opens
  <1>5. Deposits[m] = Ladder!Free
    BY <1>4, DepositOfMatch
  <1>6. Deposits' = [Deposits EXCEPT ![m] = Ladder!Deposit(c, d, Stake(kind))]
    <2>1. Deposits' = [Deposits EXCEPT ![m] = Deposits'[m]]
      <3>1. \A k \in Matches \ {m} : terms'[k] = terms[k]
        BY <1>3 DEF TypeOK
      <3>. QED BY <1>3, <3>1, DepositChanges
    <2>2. /\ status'[m] = "READY" /\ Challenger(m)' = c /\ Defender(m)' = d
          /\ StakeOf(m)' = Stake(kind)
      BY <1>3 DEF TypeOK, Challenger, Defender, StakeOf
    <2>3. Deposits'[m] = Ladder!Deposit(c, d, Stake(kind))
      BY <2>2 DEF Deposits, Ended, Ladder!Deposit
    <2>. QED BY <2>1, <2>3
  <1>7. ASSUME NEW u \in {c, d}
        PROVE  ~ Ladder!Engaged(u)
    <2> SUFFICES ASSUME NEW k \in Matches, Deposits[k].state = "OPEN",
                        u \in {Deposits[k].owner, Deposits[k].rival}
                 PROVE  FALSE
      BY DEF Ladder!Engaged
    <2>1. status[k] \in Unsettled
      <3>1. status[k] \in Statuses
        BY DEF TypeOK
      <3>2. Ladder!Free.state # "OPEN" /\ Ladder!Closed.state # "OPEN"
        BY DEF Ladder!Free, Ladder!Closed
      <3>3. Statuses = {"NONE"} \cup Unsettled \cup Ended
        BY DEF Statuses, Unsettled, InPlay, Ended
      <3>. QED BY <3>1, <3>2, <3>3, DepositOfMatch
    <2>2. u \in Parties(k)
      BY <2>1, DepositOfMatch DEF Parties
    <2>3. lock[u] = k
      BY <2>1, <2>2 DEF UnsettledMatchIsIntact
    <2>. QED BY <1>4, <2>3, NoneAssumption
  <1>8. Ladder!Open(m, c, d, Stake(kind))
    BY <1>1, <1>2, <1>3, <1>4, <1>5, <1>6, <1>7 DEF Ladder!Open
  <1>. QED BY <1>2, <1>8

LEMMA ConcludedCloses ==
  ASSUME OInv, NEW m \in Matches, status[m] \in Unsettled, NEW fined \in SUBSET Roles,
         Concluded(m, fined)
  PROVE  Ladder!Close(m)
  <1> USE DEF OInv, IInv
  <1> DEFINE c == Challenger(m)
             d == Defender(m)
             n == StakeOf(m)
  <1>1. Deposits[m].state = "OPEN" /\ Deposits[m].owner = c /\ Deposits[m].rival = d
        /\ Deposits[m].amount = n
    BY DepositOfMatch
  <1>2. PICK how \in Ended : status' = [status EXCEPT ![m] = how] /\ terms' = terms
    BY DEF Concluded, End
  <1>3. Deposits' = [Deposits EXCEPT ![m] = Ladder!Closed]
    <2>1. Deposits' = [Deposits EXCEPT ![m] = Deposits'[m]]
      BY <1>2, DepositChanges
    <2>2. status'[m] \in Ended
      BY <1>2 DEF TypeOK
    <2>3. Deposits'[m] = Ladder!Closed
      BY <2>2 DEF Deposits, Ended, Ladder!Closed, Ladder!Free
    <2>. QED BY <2>1, <2>3
  <1>4. locked' = [locked EXCEPT ![c] = @ - n]
    BY DEF Concluded, PayOut
  <1>5. seat' \in {seat, [seat EXCEPT ![c] = seat[d], ![d] = seat[c]]}
    BY DEF Concluded, PayOut, Swapped
  <1>6. Ladder!Divide(c, d, n)
    BY ConcludedMoney DEF Ladder!Divide
  <1> HIDE DEF c, d, n
  <1>. QED BY <1>1, <1>3, <1>4, <1>5, <1>6 DEF Ladder!Close

LEMMA LadderStep ==
  ASSUME Ordered, OInv, [Next]_vars
  PROVE  [Ladder!Next]_(Ladder!vars)
  <1> USE DEF OInv, IInv
  <1>1. ASSUME NEW m \in Matches, NEW s \in Unsettled, status[m] \in Unsettled,
               status' = [status EXCEPT ![m] = s], UNCHANGED <<terms, moneyVars>>
        PROVE  UNCHANGED Ladder!vars
    <2>1. \A k \in Matches : \/ status'[k] = status[k]
                             \/ status[k] \in Unsettled /\ status'[k] \in Unsettled
      BY <1>1 DEF TypeOK
    <2>. QED BY <1>1, <2>1, DepositsStay DEF moneyVars
  <1>2. ASSUME status' = status, UNCHANGED <<terms, moneyVars>>
        PROVE  UNCHANGED Ladder!vars
    BY <1>2, DepositsStay DEF moneyVars
  <1>3. ASSUME NEW m \in Matches, NEW c \in Users, NEW d \in Users, Opens(m, c, d)
        PROVE  Ladder!Next
    BY <1>3, OpensDeposit DEF Ladder!Next
  <1>4. ASSUME NEW m \in Matches, NEW fined \in SUBSET Roles, status[m] \in Unsettled,
               Concluded(m, fined)
        PROVE  Ladder!Next
    BY <1>4, ConcludedCloses DEF Ladder!Next
  <1>5. ASSUME NEW m \in Matches, NEW r \in Roles, Plays(m, r)
        PROVE  UNCHANGED Ladder!vars
    <2>1. UNCHANGED <<terms, moneyVars>>
      BY <1>5 DEF Plays, StartAttempt, FinishQuestions, UploadFirst, UploadSecond
    <2>2. /\ status[m] \notin Unsettled => status' = status
          /\ status' = status \/ \E s \in Unsettled : status' = [status EXCEPT ![m] = s]
      BY <1>5, PlaysInTime
    <2>. QED BY <1>1, <1>2, <2>1, <2>2
  <1>6. ASSUME NEW m \in Matches, Decides(m)
        PROVE  Ladder!Next \/ UNCHANGED Ladder!vars
    <2>1. status[m] \in Unsettled /\ Ends(m)
      BY <1>6 DEF Decides, Unsettled
    <2>2. CASE Hold(m)
      <3>1. "HELD" \in Unsettled
        BY DEF Unsettled
      <3>. QED BY <1>1, <2>1, <2>2, <3>1 DEF Hold
    <2>3. CASE Concluded(m, {})
      BY <1>4, <2>1, <2>3
    <2>. QED BY <2>1, <2>2, <2>3 DEF Ends
  <1>7. CASE \E m \in Matches, cheaters \in SUBSET Roles :
               status[m] = "HELD" /\ Concluded(m, cheaters)
    BY <1>4, <1>7 DEF Unsettled
  <1>8. CASE \E m \in Matches : Resumes(m) \/ SundayCutoff(m)
    BY <1>1, <1>8 DEF Resumes, SundayCutoff, CutOffStatuses, Unsettled
  <1>9. CASE Quiet \/ \E u \in Users : ExpireCycle(u)
    BY <1>2, <1>9 DEF Quiet, ExpireCycle, matchVars
  <1>. QED BY <1>3, <1>5, <1>6, <1>7, <1>8, <1>9, StepShapes

\* Matches implement the ladder for any participants, seats and balances: every step
\* of every handler is one opening or one closing of a deposit, or changes neither a
\* seat nor a balance (runCreateNormalMatchTransaction, createSubRevengeMatch and the settlements
\* of arenaMatchSettlementService).
THEOREM MatchesImplementLadder ==
  ASSUME Ordered
  PROVE  Spec => ImplementsLadder
  <1>1. Init => Ladder!Init
    <2> SUFFICES ASSUME Init PROVE Ladder!Init
      OBVIOUS
    <2>1. Deposits = [m \in Matches |-> Ladder!Free]
      BY DEF Init, Deposits, Ladder!Free
    <2>. QED BY <2>1 DEF Init, Ladder!Init
  <1>2. OInv /\ [Next]_vars => [Ladder!Next]_(Ladder!vars)
    BY LadderStep
  <1>. QED BY <1>1, <1>2, OInvariance, PTL DEF Spec, ImplementsLadder, Ladder!Spec
=============================================================================
