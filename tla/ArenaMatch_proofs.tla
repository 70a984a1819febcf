------------------------- MODULE ArenaMatch_proofs --------------------------
(***************************************************************************)
(* What holds of the matches whatever overlaps the environment allows, for *)
(* any users, matches, seats, limits and Races: types (no balance goes     *)
(* below zero), distinct seats, live locks, held flagged evidence, a       *)
(* review for every barred user, no winner on a worse seat; and, of        *)
(* finitely many users, that score is neither made nor lost.               *)
(*                                                                         *)
(* The inductive invariant IInv joins the invariants to MatchesOK, what    *)
(* the code relies on without saying it: a match that exists has two       *)
(* different participants, one that does not exist yet has not been        *)
(* played, and a sweep only remembers matches that exist.                  *)
(***************************************************************************)
EXTENDS ArenaMatch, SumTheorems

-----------------------------------------------------------------------------
(* Rules *)

LEMMA SeatsArePositive == \A s \in Seats : s \in Nat \ {0}
  BY SeatAssumption DEF Seats

LEMMA StakeType == \A kind : Stake(kind) \in {1, 2}
  BY DEF Stake, NormalStake, RevengeStake

\* No plan gives away or burns more than a stake.
LEMMA PlanTypes ==
  /\ \A role, tier : NormalPlan(role, tier) \in Plans
  /\ \A outcome : RevengePlan(outcome) \in Plans
  /\ \A cheaters : \A stake \in {1, 2} : IntegrityPlan(cheaters, stake) \in Plans
  /\ \A stake \in {1, 2} : Plan(FALSE, stake, 0, 0) \in Plans
  BY DEF NormalPlan, RevengePlan, IntegrityPlan, Plan, Plans, RevengeStake

\* Every plan divides the whole stake: what goes back, what goes to the defender and
\* what is burned add up to it.
Divides(plan, stake) == plan.toChallenger + plan.toDefender + plan.burn = stake

LEMMA PlansDivide ==
  /\ \A role, tier : Divides(NormalPlan(role, tier), Stake("NORMAL"))
  /\ \A outcome : Divides(RevengePlan(outcome), Stake("REVENGE"))
  /\ \A cheaters : \A stake \in {1, 2} : Divides(IntegrityPlan(cheaters, stake), stake)
  /\ \A stake \in {1, 2} : Divides(Plan(FALSE, stake, 0, 0), stake)
  <1> USE DEF Divides, Plan, Stake, NormalStake, RevengeStake
  <1>1. \A role, tier : Divides(NormalPlan(role, tier), Stake("NORMAL"))
    BY DEF NormalPlan
  <1>2. \A outcome : Divides(RevengePlan(outcome), Stake("REVENGE"))
    BY DEF RevengePlan
  <1>3. \A cheaters : \A stake \in {1, 2} : Divides(IntegrityPlan(cheaters, stake), stake)
    BY DEF IntegrityPlan
  <1>4. \A stake \in {1, 2} : Divides(Plan(FALSE, stake, 0, 0), stake)
    OBVIOUS
  <1>. QED BY <1>1, <1>2, <1>3, <1>4

\* A fine never exceeds the balance it is taken from.
LEMMA PenaltyBurnBound ==
  \A b \in Nat : PenaltyBurn(b) \in 0..b
  BY SMT DEF PenaltyBurn

-----------------------------------------------------------------------------
(* Types *)

MatchesOK ==
  \A m \in Matches :
    /\ status[m] # "NONE" => /\ Challenger(m) \in Users /\ Defender(m) \in Users
                            /\ Challenger(m) # Defender(m)
    /\ status[m] = "NONE" => \A r \in Roles : attempt[m][r] = "READY"
    /\ \A d \in stale : d.match = m => status[m] # "NONE"

LEMMA InitType == Init => TypeOK /\ MatchesOK
  <1> SUFFICES ASSUME Init PROVE TypeOK /\ MatchesOK
    OBVIOUS
  <1>1. InitialSeat \in [Users -> Seats]
    BY SeatAssumption DEF Seats
  <1>2. NoTerms \in Terms /\ NoRight \in Rights
    BY DEF NoTerms, Terms, NoRight, Rights, Roles
  <1>3. TypeOK
    BY <1>1, <1>2, ScoreAssumption
    DEF Init, TypeOK, Statuses, Roles, AttemptStatuses, EvidenceStatuses, Phases
  <1>4. MatchesOK
    BY DEF Init, MatchesOK
  <1>. QED BY <1>3, <1>4

LEMMA CreationType ==
  ASSUME TypeOK, MatchesOK, NEW m \in Matches, NEW c \in Users, NEW d \in Users, c # d,
         NEW kind \in {"NORMAL", "REVENGE"}, NEW src \in Matches \cup {None},
         score[c] >= Stake(kind),
         Open(m, kind, c, d, src),
         right' \in [Matches -> Rights], today' \subseteq Matches
  PROVE  TypeOK' /\ MatchesOK'
  <1>1. Stake(kind) \in Nat
    BY StakeType
  <1>2. seat[c] \in Nat /\ seat[d] \in Nat
    BY SeatsArePositive DEF TypeOK
  <1>3. terms' \in [Matches -> Terms]
    BY <1>2 DEF Open, Terms, TypeOK
  <1>4. score' \in [Users -> Nat] /\ locked' \in [Users -> Nat]
    BY <1>1 DEF Open, TypeOK
  <1>5. status' \in [Matches -> Statuses] /\ lock' \in [Users -> Matches \cup {None}]
    BY DEF Open, TypeOK, Statuses, Unsettled, InPlay
  <1>6. TypeOK'
    BY <1>3, <1>4, <1>5 DEF Open, TypeOK, playVars
  <1>7. MatchesOK'
    BY DEF Open, MatchesOK, TypeOK, Challenger, Defender, playVars
  <1>. QED BY <1>6, <1>7

LEMMA PlayType ==
  ASSUME TypeOK, MatchesOK, NEW m \in Matches, NEW r \in Roles,
         \/ StartAttempt(m, r) \/ FinishQuestions(m, r) \/ UploadFirst(m, r)
         \/ \E best \in Roles, flagged \in BOOLEAN : UploadSecond(m, r, best, flagged)
  PROVE  TypeOK' /\ MatchesOK'
  <1>1. CASE StartAttempt(m, r)
    BY <1>1 DEF StartAttempt, TypeOK, MatchesOK, Challenger, Defender, moneyVars, clockVars,
       Statuses, Unsettled, InPlay, AttemptStatuses
  <1>2. CASE FinishQuestions(m, r)
    BY <1>2 DEF FinishQuestions, TypeOK, MatchesOK, Challenger, Defender, matchVars,
       moneyVars, clockVars, AttemptStatuses
  <1>3. CASE UploadFirst(m, r)
    BY <1>3 DEF UploadFirst, MayUpload, TypeOK, MatchesOK, Challenger, Defender, moneyVars,
       clockVars, Statuses, Unsettled, InPlay, AttemptStatuses, EvidenceStatuses
  <1>4. CASE \E best \in Roles, flagged \in BOOLEAN : UploadSecond(m, r, best, flagged)
    BY <1>4 DEF UploadSecond, MayUpload, TypeOK, MatchesOK, Challenger, Defender, moneyVars,
       clockVars, Statuses, Unsettled, InPlay, AttemptStatuses, EvidenceStatuses
  <1>. QED BY <1>1, <1>2, <1>3, <1>4

-----------------------------------------------------------------------------
(* How a match ends *)

Verdicts == {"PENDING", "CLEAR", "SUSPICIOUS", "CONFIRMED"}

\* m is paid out and ended; the stake is there to be paid, and all of it is.
Concluded(m, fined) ==
  /\ status[m] # "NONE" /\ locked[Challenger(m)] >= StakeOf(m)
  /\ \E plan \in Plans, version \in Versions :
       Divides(plan, StakeOf(m)) /\ PayOut(m, plan, version, fined)
  /\ \E how \in Ended, verdict \in Verdicts, role \in Roles \cup {None} :
       End(m, how, verdict, role)

LEMMA HoldType ==
  ASSUME TypeOK, MatchesOK, NEW m \in Matches, status[m] # "NONE", Hold(m), stale' \subseteq stale
  PROVE  TypeOK' /\ MatchesOK'
  BY DEF Hold, TypeOK, MatchesOK, Challenger, Defender, playVars, moneyVars, clockVars,
     Statuses, Unsettled

LEMMA PaidType ==
  ASSUME TypeOK, MatchesOK, NEW m \in Matches, status[m] # "NONE",
         locked[Challenger(m)] >= StakeOf(m),
         NEW plan \in Plans, NEW version \in Versions, NEW fined \in SUBSET Roles,
         PayOut(m, plan, version, fined)
  PROVE  /\ ledger' \in [Matches -> SUBSET Versions] /\ seat' \in [Users -> Seats]
         /\ score' \in [Users -> Nat] /\ locked' \in [Users -> Nat] /\ burned' \in Nat
  <1> DEFINE paid == [u \in Users |->
                 score[u] + (IF u = Challenger(m) THEN plan.toChallenger ELSE 0)
                          + (IF u = Defender(m) THEN plan.toDefender ELSE 0)]
             fine == [r \in Roles |-> IF r \in fined THEN PenaltyBurn(paid[Party(m, r)])
                                      ELSE 0]
  <1>1. Challenger(m) \in Users /\ Defender(m) \in Users /\ Challenger(m) # Defender(m)
    BY DEF MatchesOK
  <1>2. plan.toChallenger \in Nat /\ plan.toDefender \in Nat /\ plan.burn \in Nat
    BY DEF Plans, RevengeStake
  <1>3. paid \in [Users -> Nat]
    BY <1>2 DEF TypeOK
  <1>4. /\ fine["CHALLENGER"] \in 0..paid[Challenger(m)]
        /\ fine["DEFENDER"] \in 0..paid[Defender(m)]
    BY <1>1, <1>3, PenaltyBurnBound DEF Roles, Party
  <1>5. score' = [u \in Users |->
                 paid[u] - (IF u = Challenger(m) THEN fine["CHALLENGER"] ELSE 0)
                         - (IF u = Defender(m) THEN fine["DEFENDER"] ELSE 0)]
    BY DEF PayOut
  <1>6. burned' = burned + plan.burn + fine["CHALLENGER"] + fine["DEFENDER"]
    BY DEF PayOut
  <1> HIDE DEF paid, fine
  <1>7. score' \in [Users -> Nat]
    BY <1>1, <1>3, <1>4, <1>5
  <1>8. burned' \in Nat
    BY <1>1, <1>2, <1>3, <1>4, <1>6 DEF TypeOK
  <1>9. locked' \in [Users -> Nat]
    <2>1. StakeOf(m) \in Nat
      BY StakeType DEF StakeOf
    <2>2. locked' = [locked EXCEPT ![Challenger(m)] = @ - StakeOf(m)]
      BY DEF PayOut
    <2>. QED BY <1>1, <2>1, <2>2 DEF TypeOK
  <1>10. seat' \in [Users -> Seats]
    BY <1>1 DEF PayOut, Swapped, TypeOK
  <1>11. ledger' \in [Matches -> SUBSET Versions]
    BY DEF PayOut, TypeOK
  <1>. QED BY <1>7, <1>8, <1>9, <1>10, <1>11

LEMMA ConcludedType ==
  ASSUME TypeOK, MatchesOK, NEW m \in Matches, NEW fined \in SUBSET Roles,
         Concluded(m, fined), stale' \subseteq stale,
         evidence' \in [Matches -> [Roles -> EvidenceStatuses]],
         right' \in [Matches -> Rights],
         access' \in [Users -> {"CLEAR", "REVIEW_REQUIRED", "RESTRICTED"}]
  PROVE  TypeOK' /\ MatchesOK'
  <1>1. /\ ledger' \in [Matches -> SUBSET Versions] /\ seat' \in [Users -> Seats]
        /\ score' \in [Users -> Nat] /\ locked' \in [Users -> Nat] /\ burned' \in Nat
    BY PaidType DEF Concluded
  <1>2. PICK how \in Ended, verdict \in Verdicts, role \in Roles \cup {None} :
          End(m, how, verdict, role)
    BY DEF Concluded
  <1>3. how # "NONE" /\ status[m] # "NONE"
    BY DEF Ended, Concluded
  <1>4. TypeOK'
    BY <1>1, <1>2, <1>3 DEF End, Unlock, TypeOK, clockVars, Verdicts, Statuses
  <1>5. MatchesOK'
    BY <1>2, <1>3 DEF End, MatchesOK, TypeOK, Challenger, Defender
  <1>. QED BY <1>4, <1>5

\* What every action does that may end a match without a review.
Ends(m) ==
  \/ Hold(m)
  \/ /\ Concluded(m, {}) /\ UNCHANGED <<evidence, access>>
     /\ right' \in [Matches -> Rights]

LEMMA NormalResultEnds ==
  ASSUME TypeOK, NEW m \in Matches, status[m] # "NONE", terms[m].kind = "NORMAL",
         NEW role \in Roles \cup {None}, NEW forced \in BOOLEAN, NormalResult(m, role, forced)
  PROVE  Ends(m)
  <1> SUFFICES ASSUME ~ Hold(m)
               PROVE  /\ Concluded(m, {}) /\ UNCHANGED <<evidence, access>>
                      /\ right' \in [Matches -> Rights]
    BY DEF Ends
  <1>1. /\ SourceIntact(m)
        /\ PayOut(m, NormalPlan(role, Tier[terms[m].from]), "NORMAL", {})
        /\ End(m, "SETTLED", "CLEAR", role)
        /\ right' = IF forced \/ right[m].status # "NONE" THEN right
                    ELSE [right EXCEPT ![m] = [status |-> "AVAILABLE", holder |-> Other(role)]]
        /\ UNCHANGED <<evidence, access>>
    BY DEF NormalResult
  <1>2. Concluded(m, {})
    <2>1. /\ NormalPlan(role, Tier[terms[m].from]) \in Plans
          /\ Divides(NormalPlan(role, Tier[terms[m].from]), StakeOf(m))
      BY PlanTypes, PlansDivide DEF StakeOf
    <2>2. "NORMAL" \in Versions /\ "SETTLED" \in Ended /\ "CLEAR" \in Verdicts
      BY DEF Versions, Ended, Verdicts
    <2>. QED BY <1>1, <2>1, <2>2 DEF Concluded, SourceIntact
  <1>3. right' \in [Matches -> Rights]
    BY <1>1 DEF TypeOK, Rights, Other, Roles
  <1>. QED BY <1>1, <1>2, <1>3

LEMMA RevengeResultEnds ==
  ASSUME TypeOK, NEW m \in Matches, status[m] # "NONE", terms[m].kind = "REVENGE",
         NEW role \in Roles \cup {None}, NEW outcome, RevengeResult(m, outcome, role)
  PROVE  Ends(m)
  <1> SUFFICES ASSUME ~ Hold(m)
               PROVE  /\ Concluded(m, {}) /\ UNCHANGED <<evidence, access>>
                      /\ right' \in [Matches -> Rights]
    BY DEF Ends
  <1>1. /\ SourceIntact(m)
        /\ PayOut(m, RevengePlan(outcome), "REVENGE", {})
        /\ End(m, "SETTLED", "CLEAR", role)
        /\ right' = [right EXCEPT ![terms[m].source].status = "CONSUMED"]
        /\ UNCHANGED <<evidence, access>>
    BY DEF RevengeResult
  <1>2. Concluded(m, {})
    <2>1. RevengePlan(outcome) \in Plans /\ Divides(RevengePlan(outcome), StakeOf(m))
      BY PlanTypes, PlansDivide DEF StakeOf
    <2>2. "REVENGE" \in Versions /\ "SETTLED" \in Ended /\ "CLEAR" \in Verdicts
      BY DEF Versions, Ended, Verdicts
    <2>. QED BY <1>1, <2>1, <2>2 DEF Concluded, SourceIntact
  <1>3. right' \in [Matches -> Rights]
    BY ZenonT(60), <1>1 DEF TypeOK, Rights
  <1>. QED BY <1>1, <1>2, <1>3

LEMMA SettleEnds ==
  ASSUME TypeOK, NEW m \in Matches, SettleByScore(m)
  PROVE  /\ status[m] = "SUBMITTED"
         /\ Ends(m)
  <1>1. status[m] = "SUBMITTED"
    BY DEF SettleByScore
  <1>2. screened[m] \in Roles \cup {None}
    BY DEF TypeOK
  <1>3. \/ Hold(m)
        \/ terms[m].kind = "NORMAL" /\ NormalResult(m, screened[m], FALSE)
        \/ terms[m].kind = "REVENGE" /\ \E outcome : RevengeResult(m, outcome, screened[m])
    BY DEF SettleByScore
  <1>4. CASE terms[m].kind = "NORMAL" /\ NormalResult(m, screened[m], FALSE)
    BY <1>1, <1>2, <1>4, NormalResultEnds DEF Ends
  <1>5. CASE terms[m].kind = "REVENGE" /\ \E outcome : RevengeResult(m, outcome, screened[m])
    BY <1>1, <1>2, <1>5, RevengeResultEnds DEF Ends
  <1>. QED BY <1>1, <1>3, <1>4, <1>5 DEF Ends

LEMMA CarryOutEnds ==
  ASSUME TypeOK, NEW d \in Decisions, status[d.match] # "NONE", CarryOut(d)
  PROVE  /\ status[d.match] \notin {"HELD", "SETTLED"}
         /\ Ends(d.match)
  <1> DEFINE m == d.match
  <1>1. m \in Matches /\ d.missing \in SUBSET Roles
    BY DEF Decisions
  <1>2. CASE CancelNoStart(m)
    <2>1. Plan(FALSE, StakeOf(m), 0, 0) \in Plans /\ Divides(Plan(FALSE, StakeOf(m), 0, 0), StakeOf(m))
      BY PlanTypes, PlansDivide, StakeType DEF StakeOf
    <2>2. "NORMAL" \in Versions /\ "CANCELLED" \in Ended /\ "CLEAR" \in Verdicts
      BY DEF Versions, Ended, Verdicts
    <2>3. winner[m] \in Roles \cup {None}
      BY <1>1 DEF TypeOK
    <2>4. Concluded(m, {})
      BY <1>2, <2>1, <2>2, <2>3 DEF CancelNoStart, Concluded
    <2>5. right' \in [Matches -> Rights]
      BY <1>2 DEF CancelNoStart, TypeOK
    <2>. QED BY <1>2, <2>4, <2>5 DEF CancelNoStart, Ends, Ended
  <1>3. CASE terms[m].kind = "NORMAL" /\ Forfeit(m, d.missing)
    <2>1. PICK r \in Roles : NormalResult(m, Other(r), TRUE)
      BY <1>1, <1>3 DEF Forfeit
    <2>2. Other(r) \in Roles
      BY DEF Other, Roles
    <2>. QED BY <1>1, <1>3, <2>1, <2>2, NormalResultEnds DEF Forfeit, Ends
  <1>4. CASE terms[m].kind = "REVENGE" /\ \E early \in BOOLEAN : RevengeNoShow(m, d.missing, early)
    <2>1. \/ Hold(m)
          \/ \E role \in Roles \cup {None}, outcome \in {NoShowOutcome(d.missing)} :
               RevengeResult(m, outcome, role)
      BY <1>4 DEF RevengeNoShow, Roles
    <2>2. \/ Hold(m)
          \/ \E role \in Roles \cup {None} : \E outcome : RevengeResult(m, outcome, role)
      BY <2>1
    <2>. QED BY <1>1, <1>4, <2>2, RevengeResultEnds DEF RevengeNoShow, Ends
  <1>5. CASE SettleByScore(m)
    BY <1>1, <1>5, SettleEnds
  <1>. QED BY <1>2, <1>3, <1>4, <1>5 DEF CarryOut

LEMMA OverdueInPlay ==
  ASSUME NEW d \in Decisions, Overdue(d)
  PROVE  status[d.match] \in InPlay
  BY DEF Overdue, EvidenceOverdue, StartOverdue, RevengeOverdue, InPlay

LEMMA SweepType ==
  ASSUME TypeOK, MatchesOK, NEW d \in Decisions, SweepRead(d) \/ SweepAct(d) \/ SweepAbandon(d)
  PROVE  TypeOK' /\ MatchesOK'
  <1>1. CASE SweepRead(d)
    <2>1. status[d.match] \in InPlay
      BY <1>1, OverdueInPlay DEF SweepRead
    <2>. QED BY <1>1, <2>1 DEF SweepRead, TypeOK, MatchesOK, Challenger, Defender,
                matchVars, playVars, moneyVars, clockVars, InPlay
  <1>2. CASE SweepAct(d)
    <2>1. d.match \in Matches
      BY DEF Decisions
    <2>2. status[d.match] # "NONE"
      BY <1>2, <2>1, OverdueInPlay DEF SweepAct, MatchesOK, InPlay
    <2>3. Ends(d.match) /\ stale' \subseteq stale
      BY <1>2, <2>2, CarryOutEnds DEF SweepAct
    <2>4. UNCHANGED <<evidence, access>> => evidence' \in [Matches -> [Roles -> EvidenceStatuses]]
                /\ access' \in [Users -> {"CLEAR", "REVIEW_REQUIRED", "RESTRICTED"}]
      BY DEF TypeOK
    <2>. QED BY <2>1, <2>2, <2>3, <2>4, HoldType, ConcludedType DEF Ends
  <1>3. CASE SweepAbandon(d)
    BY <1>3 DEF SweepAbandon, TypeOK, MatchesOK, Challenger, Defender,
       matchVars, playVars, moneyVars, clockVars
  <1>. QED BY <1>1, <1>2, <1>3

LEMMA SettleType ==
  ASSUME TypeOK, MatchesOK, NEW m \in Matches, Settle(m)
  PROVE  TypeOK' /\ MatchesOK'
  <1>1. status[m] # "NONE" /\ Ends(m) /\ stale' \subseteq stale
    BY SettleEnds DEF Settle
  <1>2. UNCHANGED <<evidence, access>> => evidence' \in [Matches -> [Roles -> EvidenceStatuses]]
              /\ access' \in [Users -> {"CLEAR", "REVIEW_REQUIRED", "RESTRICTED"}]
    BY DEF TypeOK
  <1>. QED BY <1>1, <1>2, HoldType, ConcludedType DEF Ends

\* What a review writes besides the settlement.
LEMMA ReviewWrites ==
  ASSUME TypeOK, NEW m \in Matches, NEW cheaters \in SUBSET Roles,
         Reviewed(m), ReleaseAccess(m, cheaters)
  PROVE  /\ evidence' \in [Matches -> [Roles -> EvidenceStatuses]]
         /\ access' \in [Users -> {"CLEAR", "REVIEW_REQUIRED", "RESTRICTED"}]
         /\ \A r \in Roles : evidence'[m][r] # "ANOMALY_FLAGGED"
         /\ \A k \in Matches \ {m} : evidence'[k] = evidence[k]
  BY DEF TypeOK, Reviewed, ReleaseAccess, EvidenceStatuses

LEMMA ClearEnds ==
  ASSUME TypeOK, NEW m \in Matches, ReviewClear(m)
  PROVE  /\ status[m] = "HELD" /\ Reviewed(m) /\ ReleaseAccess(m, {}) /\ UNCHANGED <<right, stale>>
         /\ \/ Concluded(m, {})
            \/ /\ integrity' = [integrity EXCEPT ![m] = "CLEAR"]
               /\ \E s \in Unsettled : /\ status' = [status EXCEPT ![m] = s]
                                       /\ BothSubmitted(m) => s = "SUBMITTED"
               /\ UNCHANGED <<winner, screened, terms, attempt, moneyVars, lock, cycle,
                              clockVars, late>>
  <1>1. status[m] = "HELD" /\ Reviewed(m) /\ ReleaseAccess(m, {}) /\ UNCHANGED <<right, stale>>
    BY DEF ReviewClear, CancelUnscorable
  <1>2. CASE /\ locked[Challenger(m)] >= StakeOf(m)
             /\ PayOut(m, Plan(FALSE, StakeOf(m), 0, 0), "CLEAR", {})
             /\ End(m, "CANCELLED", "CLEAR", winner[m])
    <2>1. Plan(FALSE, StakeOf(m), 0, 0) \in Plans /\ Divides(Plan(FALSE, StakeOf(m), 0, 0), StakeOf(m))
      BY PlanTypes, PlansDivide, StakeType DEF StakeOf
    <2>2. "CLEAR" \in Versions /\ "CANCELLED" \in Ended /\ "CLEAR" \in Verdicts
      BY DEF Versions, Ended, Verdicts
    <2>3. winner[m] \in Roles \cup {None}
      BY DEF TypeOK
    <2>. QED BY <1>1, <1>2, <2>1, <2>2, <2>3 DEF Concluded
  <1>3. CASE ~ (/\ locked[Challenger(m)] >= StakeOf(m)
                /\ PayOut(m, Plan(FALSE, StakeOf(m), 0, 0), "CLEAR", {})
                /\ End(m, "CANCELLED", "CLEAR", winner[m]))
    <2>1. PICK s : /\ s = IF CompleteInputs(m)        THEN "SUBMITTED"
                          ELSE IF ~ FlaggedEvidence(m) THEN "HELD"
                          ELSE IF \E r \in Roles : attempt[m][r] # "READY"
                                                      THEN "IN_PROGRESS"
                          ELSE                             "READY"
                   /\ status' = [status EXCEPT ![m] = s]
                   /\ integrity' = [integrity EXCEPT ![m] = "CLEAR"]
                   /\ UNCHANGED <<winner, screened, terms, attempt, moneyVars, lock, cycle,
                                  clockVars, late>>
      BY <1>3 DEF ReviewClear, CancelUnscorable
    <2>2. s \in Unsettled
      BY <2>1 DEF Unsettled, InPlay
    <2>3. BothSubmitted(m) => s = "SUBMITTED"
      <3>1. CompleteInputs(m) \/ ~ Unscorable(m)
        BY <1>3 DEF ReviewClear, CancelUnscorable
      <3>2. BothSubmitted(m) => Unscorable(m)
        BY DEF BothSubmitted, Unscorable, Finished
      <3>. QED BY <2>1, <3>1, <3>2
    <2>. QED BY <1>1, <2>1, <2>2, <2>3
  <1>. QED BY <1>1, <1>2, <1>3

LEMMA CheatingEnds ==
  ASSUME TypeOK, NEW m \in Matches, NEW cheaters \in SUBSET Roles \ {{}},
         ReviewCheating(m, cheaters)
  PROVE  /\ status[m] = "HELD" /\ Reviewed(m) /\ ReleaseAccess(m, cheaters)
         /\ UNCHANGED <<right, stale>>
         /\ Concluded(m, cheaters)
  <1> DEFINE role == IF cheaters = {"CHALLENGER"} THEN "DEFENDER"
                     ELSE IF cheaters = {"DEFENDER"} THEN "CHALLENGER" ELSE None
  <1>1. /\ IntegrityPlan(cheaters, StakeOf(m)) \in Plans
        /\ Divides(IntegrityPlan(cheaters, StakeOf(m)), StakeOf(m))
    BY PlanTypes, PlansDivide, StakeType DEF StakeOf
  <1>2. "INTEGRITY" \in Versions /\ "SETTLED" \in Ended /\ "CONFIRMED" \in Verdicts
    BY DEF Versions, Ended, Verdicts
  <1>3. role \in Roles \cup {None}
    BY DEF Roles
  <1>4. End(m, "SETTLED", "CONFIRMED", role)
    BY DEF ReviewCheating, SettleCheating
  <1>. HIDE DEF role
  <1>5. Concluded(m, cheaters)
    BY <1>1, <1>2, <1>3, <1>4 DEF ReviewCheating, SettleCheating, Concluded, SourceIntact
  <1>. QED BY <1>5 DEF ReviewCheating, SettleCheating

LEMMA ReviewType ==
  ASSUME TypeOK, MatchesOK, NEW m \in Matches,
         ReviewClear(m) \/ \E cheaters \in SUBSET Roles \ {{}} : ReviewCheating(m, cheaters)
  PROVE  TypeOK' /\ MatchesOK'
  <1>1. CASE ReviewClear(m)
    <2>1. CASE Concluded(m, {})
      <3>1. UNCHANGED right => right' \in [Matches -> Rights]
        BY DEF TypeOK
      <3>. QED BY <1>1, <2>1, <3>1, ClearEnds, ReviewWrites, ConcludedType
    <2>2. CASE ~ Concluded(m, {})
      <3>1. /\ status[m] = "HELD" /\ UNCHANGED <<right, stale>>
            /\ integrity' = [integrity EXCEPT ![m] = "CLEAR"]
            /\ UNCHANGED <<winner, screened, terms, attempt, moneyVars, lock, cycle,
                           clockVars, late>>
        BY <1>1, <2>2, ClearEnds
      <3>2. PICK s \in Unsettled : status' = [status EXCEPT ![m] = s]
        BY <1>1, <2>2, ClearEnds
      <3>3. /\ evidence' \in [Matches -> [Roles -> EvidenceStatuses]]
            /\ access' \in [Users -> {"CLEAR", "REVIEW_REQUIRED", "RESTRICTED"}]
        BY <1>1, ClearEnds, ReviewWrites
      <3>4. TypeOK'
        BY <3>1, <3>2, <3>3 DEF TypeOK, moneyVars, clockVars, Statuses
      <3>5. MatchesOK'
        BY <3>1, <3>2 DEF TypeOK, MatchesOK, Challenger, Defender, Unsettled, InPlay
      <3>. QED BY <3>4, <3>5
    <2>. QED BY <2>1, <2>2
  <1>2. CASE \E cheaters \in SUBSET Roles \ {{}} : ReviewCheating(m, cheaters)
    <2>1. UNCHANGED right => right' \in [Matches -> Rights]
      BY DEF TypeOK
    <2>. QED BY <1>2, <2>1, CheatingEnds, ReviewWrites, ConcludedType
  <1>. QED BY <1>1, <1>2

LEMMA AccountType ==
  ASSUME TypeOK, MatchesOK,
         \E u \in Users : PenaltyOver(u) \/ Deplete(u) \/ ExpireCycle(u)
  PROVE  TypeOK' /\ MatchesOK'
  <1> USE DEF TypeOK, MatchesOK, Challenger, Defender, matchVars, playVars, moneyVars,
              clockVars
  <1>1. CASE \E u \in Users : PenaltyOver(u)
    BY <1>1 DEF PenaltyOver
  <1>2. CASE \E u \in Users : Deplete(u)
    BY <1>2 DEF Deplete
  <1>3. CASE \E u \in Users : ExpireCycle(u)
    BY <1>3 DEF ExpireCycle
  <1>. QED BY <1>1, <1>2, <1>3

LEMMA ClockType ==
  ASSUME TypeOK, MatchesOK, Clock
  PROVE  TypeOK' /\ MatchesOK'
  <1>1. CASE \E m \in Matches : StartDeadline(m)
    BY <1>1 DEF StartDeadline, Starting, Uploading, Deadlines, TypeOK, MatchesOK, Challenger,
       Defender, matchVars, playVars, moneyVars
  <1>2. CASE \E m \in Matches, r \in Roles : EvidenceDeadline(m, r)
    BY <1>2 DEF EvidenceDeadline, Deadlines, TypeOK, MatchesOK, Challenger, Defender,
       matchVars, playVars, moneyVars
  <1>3. CASE LockRequests
    BY <1>3 DEF LockRequests, Starting, Created, Deadlines, Phases, TypeOK, MatchesOK,
       Challenger, Defender, matchVars, playVars, moneyVars
  <1>4. CASE LockDivision
    BY <1>4 DEF LockDivision, Uploading, Created, Phases, TypeOK, MatchesOK, Challenger,
       Defender, matchVars, playVars, moneyVars
  <1>5. CASE Unlocked
    BY <1>5 DEF Unlocked, Uploading, Created, Deadlines, Phases, TypeOK, MatchesOK, Challenger,
       Defender, matchVars, playVars, moneyVars
  <1>6. CASE NewDay
    BY <1>6 DEF NewDay, TypeOK, MatchesOK, Challenger, Defender, matchVars, playVars,
       moneyVars
  <1>. QED BY <1>1, <1>2, <1>3, <1>4, <1>5, <1>6 DEF Clock

LEMMA ParticipantType ==
  ASSUME TypeOK, MatchesOK, Participant
  PROVE  TypeOK' /\ MatchesOK'
  <1> SUFFICES ASSUME NEW m \in Matches,
                      \/ \E c, d \in Users : CreateNormal(m, c, d)
                      \/ \E src \in Matches : CreateRevenge(m, src)
                      \/ ForfeitRight(m)
                      \/ \E r \in Roles :
                           \/ StartAttempt(m, r) \/ FinishQuestions(m, r) \/ UploadFirst(m, r)
                           \/ \E best \in Roles, flagged \in BOOLEAN :
                                UploadSecond(m, r, best, flagged)
               PROVE  TypeOK' /\ MatchesOK'
    BY DEF Participant
  <1>1. ASSUME NEW c \in Users, NEW d \in Users, CreateNormal(m, c, d)
        PROVE  TypeOK' /\ MatchesOK'
    <2>1. /\ c # d /\ score[c] >= Stake("NORMAL") /\ Open(m, "NORMAL", c, d, None)
          /\ today' \subseteq Matches /\ right' \in [Matches -> Rights]
      BY <1>1 DEF CreateNormal, TypeOK, Stake
    <2>. QED BY <2>1, CreationType
  <1>2. ASSUME NEW src \in Matches, CreateRevenge(m, src)
        PROVE  TypeOK' /\ MatchesOK'
    <2> DEFINE c == Party(src, right[src].holder)
               d == Party(src, Other(right[src].holder))
    <2>1. right' = [right EXCEPT ![src].status = "CLAIMED"]
      BY <1>2 DEF CreateRevenge
    <2>2. right' \in [Matches -> Rights]
      BY ZenonT(60), <2>1 DEF TypeOK, Rights
    <2>3. c \in Users /\ d \in Users /\ c # d
      BY <1>2 DEF CreateRevenge, MatchesOK, Party, Other
    <2>4. score[c] >= Stake("REVENGE") /\ Open(m, "REVENGE", c, d, src) /\ today' \subseteq Matches
      BY <1>2 DEF CreateRevenge, TypeOK, Stake
    <2>. HIDE DEF c, d
    <2>. QED BY <2>2, <2>3, <2>4, CreationType
  <1>3. CASE ForfeitRight(m)
    <2>1. right' \in [Matches -> Rights]
      BY ZenonT(60), <1>3 DEF ForfeitRight, TypeOK, Rights
    <2>. QED BY <1>3, <2>1 DEF ForfeitRight, TypeOK, MatchesOK, Challenger, Defender,
                matchVars, playVars, moneyVars, clockVars
  <1>. QED BY <1>1, <1>2, <1>3, PlayType

LEMMA TypeStep ==
  ASSUME TypeOK, MatchesOK, [Next]_vars
  PROVE  TypeOK' /\ MatchesOK'
  <1>1. CASE Participant
    BY <1>1, ParticipantType
  <1>2. CASE Scheduler
    <2>1. ASSUME NEW m \in Matches, SundayCutoff(m) PROVE TypeOK' /\ MatchesOK'
      BY <2>1 DEF SundayCutoff, CutOffStatuses, TypeOK, MatchesOK, Challenger, Defender,
         playVars, moneyVars, clockVars, Statuses, Unsettled, InPlay
    <2>. QED BY <1>2, <2>1, SweepType, AccountType DEF Scheduler
  <1>3. CASE Administrator
    BY <1>3, SettleType, ReviewType, AccountType DEF Administrator
  <1>4. CASE Clock
    BY <1>4, ClockType
  <1>5. CASE UNCHANGED vars
    BY <1>5 DEF vars, matchVars, playVars, moneyVars, clockVars, TypeOK, MatchesOK, Challenger,
       Defender
  <1>. QED BY <1>1, <1>2, <1>3, <1>4, <1>5 DEF Next

-----------------------------------------------------------------------------
(* Shapes of a step *)

\* Every step is a creation, a move in a match, a decision about one, the review of
\* one, the Sunday cut-off, the end of a cycle, or touches none of what the
\* invariants speak of.
Creates == \/ \E m \in Matches, c, d \in Users : CreateNormal(m, c, d)
           \/ \E m, src \in Matches : CreateRevenge(m, src)

Opens(m, c, d) ==
  /\ Creates
  /\ c # d /\ status[m] = "NONE"
  /\ \A u \in {c, d} : lock[u] = None /\ cycle[u] = "ACTIVE" /\ access[u] = "CLEAR"
  /\ \E kind \in {"NORMAL", "REVENGE"}, src \in Matches \cup {None} :
       score[c] >= Stake(kind) /\ Open(m, kind, c, d, src)

Plays(m, r) ==
  \/ StartAttempt(m, r) \/ FinishQuestions(m, r) \/ UploadFirst(m, r)
  \/ \E best \in Roles, flagged \in BOOLEAN : UploadSecond(m, r, best, flagged)

Decides(m) ==
  /\ status[m] \notin {"NONE", "HELD", "SETTLED"}
  /\ status[m] \in InPlay \/ stale # {}
  /\ Ends(m)

Resumes(m) ==
  /\ status[m] = "HELD" /\ Reviewed(m) /\ ReleaseAccess(m, {})
  /\ \E s \in Unsettled : status' = [status EXCEPT ![m] = s] /\ (BothSubmitted(m) => s = "SUBMITTED")
  /\ integrity' = [integrity EXCEPT ![m] = "CLEAR"]
  /\ UNCHANGED <<winner, screened, terms, attempt, moneyVars, lock, cycle>>

Quiet ==
  /\ UNCHANGED <<matchVars, terms, playVars, moneyVars, lock>>
  /\ \A u \in Users : /\ access'[u] \in {access[u], "CLEAR"}
                      /\ cycle'[u] = "EXPIRED" => cycle[u] = "EXPIRED"

LEMMA StepShapes ==
  ASSUME TypeOK, MatchesOK, [Next]_vars
  PROVE  \/ \E m \in Matches, c, d \in Users : Opens(m, c, d)
         \/ \E m \in Matches, r \in Roles : Plays(m, r)
         \/ \E m \in Matches : Decides(m)
         \/ \E m \in Matches, cheaters \in SUBSET Roles :
              /\ status[m] = "HELD" /\ Concluded(m, cheaters)
              /\ Reviewed(m) /\ ReleaseAccess(m, cheaters)
         \/ \E m \in Matches : Resumes(m)
         \/ \E m \in Matches : SundayCutoff(m)
         \/ \E u \in Users : ExpireCycle(u)
         \/ Quiet
  <1>1. CASE \E m \in Matches, c, d \in Users : CreateNormal(m, c, d)
    <2>1. PICK m \in Matches, c \in Users, d \in Users : CreateNormal(m, c, d)
      BY <1>1
    <2>2. Opens(m, c, d)
      BY <2>1 DEF CreateNormal, Opens, Creates, NextMatch, Eligible, PendingSettlement, Stake
    <2>. QED BY <2>2
  <1>2. CASE \E m, src \in Matches : CreateRevenge(m, src)
    <2>1. PICK m \in Matches, src \in Matches : CreateRevenge(m, src)
      BY <1>2
    <2> DEFINE c == Party(src, right[src].holder)
               d == Party(src, Other(right[src].holder))
    <2>2. c \in Users /\ d \in Users /\ c # d
      BY <2>1 DEF CreateRevenge, MatchesOK, Party, Other
    <2>3. Opens(m, c, d)
      BY <2>1, <2>2 DEF Creates, CreateRevenge, Opens, NextMatch, Eligible, Stake
    <2>. HIDE DEF c, d
    <2>. QED BY <2>2, <2>3
  <1>3. CASE \E m \in Matches, r \in Roles : Plays(m, r)
    BY <1>3
  <1>4. CASE \E m \in Matches : Settle(m)
    BY <1>4, SettleEnds DEF Settle, Decides, InPlay
  <1>5. CASE \E d \in Decisions : SweepAct(d)
    <2>1. PICK d \in Decisions : SweepAct(d)
      BY <1>5
    <2>2. d.match \in Matches
      BY DEF Decisions
    <2>3. status[d.match] # "NONE"
      BY <2>1, <2>2, OverdueInPlay DEF SweepAct, MatchesOK, InPlay
    <2>4. status[d.match] \notin {"HELD", "SETTLED"} /\ Ends(d.match)
      BY <2>1, <2>3, CarryOutEnds DEF SweepAct
    <2>5. status[d.match] \in InPlay \/ stale # {}
      BY <2>1, OverdueInPlay DEF SweepAct
    <2>. QED BY <2>2, <2>3, <2>4, <2>5 DEF Decides
  <1>6. CASE \E m \in Matches : ReviewClear(m)
    <2>1. PICK m \in Matches : ReviewClear(m)
      BY <1>6
    <2>2. CASE Concluded(m, {})
      <3>1. {} \in SUBSET Roles
        OBVIOUS
      <3>. QED BY <2>1, <2>2, <3>1, ClearEnds
    <2>3. CASE ~ Concluded(m, {})
      <3>1. Resumes(m)
        BY <2>1, <2>3, ClearEnds DEF Resumes
      <3>. QED BY <3>1
    <2>. QED BY <2>2, <2>3
  <1>7. CASE \E m \in Matches : \E cheaters \in SUBSET Roles \ {{}} : ReviewCheating(m, cheaters)
    BY <1>7, CheatingEnds
  <1>8. CASE \/ UNCHANGED vars
             \/ \E m \in Matches : ForfeitRight(m)
             \/ \E d \in Decisions : SweepRead(d) \/ SweepAbandon(d)
    <2>1. Quiet
      BY <1>8 DEF Quiet, ForfeitRight, SweepRead, SweepAbandon, vars, matchVars, playVars,
                  moneyVars, clockVars
    <2>. QED BY <2>1
  <1>9. CASE \E u \in Users : PenaltyOver(u) \/ Deplete(u)
    <2>1. Quiet
      BY <1>9 DEF Quiet, PenaltyOver, Deplete, TypeOK
    <2>. QED BY <2>1
  <1>10. CASE Clock
    <2>1. Quiet
      BY <1>10 DEF Quiet, Clock, StartDeadline, EvidenceDeadline, LockRequests, LockDivision,
                   Unlocked, NewDay, matchVars, playVars, moneyVars
    <2>. QED BY <2>1
  <1>. QED BY <1>1, <1>2, <1>3, <1>4, <1>5, <1>6, <1>7, <1>8, <1>9, <1>10
           DEF Next, Participant, Scheduler, Administrator, Plays

-----------------------------------------------------------------------------
(* SeatsDistinct *)

LEMMA SeatStep ==
  ASSUME TypeOK, MatchesOK, [Next]_vars
  PROVE  \/ seat' = seat
         \/ \E m \in Matches : status[m] # "NONE" /\ seat' = Swapped(m)
  <1>1. ASSUME NEW m \in Matches, NEW fined, Concluded(m, fined)
        PROVE  status[m] # "NONE" /\ (seat' = seat \/ seat' = Swapped(m))
    BY <1>1 DEF Concluded, PayOut
  <1>2. CASE \E m \in Matches, c, d \in Users : Opens(m, c, d)
    BY <1>2 DEF Opens, Open
  <1>3. CASE \E m \in Matches, r \in Roles : Plays(m, r)
    BY <1>3 DEF Plays, StartAttempt, FinishQuestions, UploadFirst, UploadSecond, moneyVars
  <1>4. CASE \E m \in Matches : Decides(m)
    BY <1>1, <1>4 DEF Decides, Ends, Hold, moneyVars
  <1>5. CASE \E m \in Matches, cheaters \in SUBSET Roles : Concluded(m, cheaters)
    BY <1>1, <1>5
  <1>6. CASE Quiet \/ \E m \in Matches : Resumes(m) \/ SundayCutoff(m)
    BY <1>6 DEF Quiet, Resumes, SundayCutoff, moneyVars
  <1>7. CASE \E u \in Users : ExpireCycle(u)
    BY <1>7 DEF ExpireCycle, moneyVars
  <1>. QED BY <1>2, <1>3, <1>4, <1>5, <1>6, <1>7, StepShapes

LEMMA SeatsStep ==
  ASSUME TypeOK, MatchesOK, SeatsDistinct, [Next]_vars
  PROVE  SeatsDistinct'
  <1>1. CASE seat' = seat
    BY <1>1 DEF SeatsDistinct
  <1>2. CASE \E m \in Matches : status[m] # "NONE" /\ seat' = Swapped(m)
    BY <1>2 DEF SeatsDistinct, Swapped, MatchesOK, TypeOK
  <1>. QED BY <1>1, <1>2, SeatStep

-----------------------------------------------------------------------------
(* LocksAreLive *)

\* The same, match by match.
LocksOK ==
  \A u \in Users, m \in Matches : lock[u] = m =>
    /\ status[m] \in Unsettled
    /\ u \in {terms[m].challenger, terms[m].defender}
    /\ \A v \in {terms[m].challenger, terms[m].defender} : lock[v] = m /\ cycle[v] # "EXPIRED"

LEMMA LocksByMatch == TypeOK => (LocksAreLive <=> LocksOK)
  BY NoneAssumption DEF TypeOK, LocksAreLive, LocksOK, Parties, Challenger, Defender

LEMMA LocksStep ==
  ASSUME TypeOK, MatchesOK, LocksOK, [Next]_vars
  PROVE  LocksOK'
  <1>1. ASSUME NEW m \in Matches, NEW c \in Users, NEW d \in Users, Opens(m, c, d)
        PROVE  LocksOK'
    <2>1. PICK kind \in {"NORMAL", "REVENGE"}, src \in Matches \cup {None} :
            Open(m, kind, c, d, src)
      BY <1>1 DEF Opens
    <2>2. /\ lock' = [lock EXCEPT ![c] = m, ![d] = m] /\ UNCHANGED cycle
          /\ status' = [status EXCEPT ![m] = "READY"]
          /\ terms'[m].challenger = c /\ terms'[m].defender = d
          /\ \A k \in Matches \ {m} : terms'[k] = terms[k]
      BY <2>1 DEF Open, TypeOK
    <2>3. \A u \in {c, d} : lock[u] = None /\ cycle[u] = "ACTIVE"
      BY <1>1 DEF Opens
    <2> SUFFICES ASSUME NEW u \in Users, NEW k \in Matches, lock'[u] = k
                 PROVE  /\ status'[k] \in Unsettled
                        /\ u \in {terms'[k].challenger, terms'[k].defender}
                        /\ \A v \in {terms'[k].challenger, terms'[k].defender} :
                             lock'[v] = k /\ cycle'[v] # "EXPIRED"
      BY DEF LocksOK
    <2>4. CASE k = m
      <3>1. lock[u] # m
        BY <1>1 DEF LocksOK, Opens, Unsettled, InPlay
      <3>2. u \in {c, d}
        BY <2>2, <2>4, <3>1 DEF TypeOK
      <3>. QED BY <2>2, <2>3, <2>4, <3>2 DEF TypeOK, Unsettled, InPlay
    <2>5. CASE k # m
      <3>1. lock[u] = k
        BY <2>2, <2>5 DEF TypeOK
      <3>2. \A v \in {terms[k].challenger, terms[k].defender} :
              lock[v] = k /\ cycle[v] # "EXPIRED" /\ v \notin {c, d}
        BY <2>3, <3>1, NoneAssumption DEF LocksOK
      <3>3. status[k] \in Unsettled /\ u \in {terms[k].challenger, terms[k].defender}
        BY <3>1 DEF LocksOK
      <3>4. terms[k].challenger \in Users /\ terms[k].defender \in Users
        BY <3>3 DEF MatchesOK, Challenger, Defender, Unsettled, InPlay
      <3>. QED BY <2>2, <2>5, <3>2, <3>3, <3>4 DEF TypeOK
    <2>. QED BY <2>4, <2>5
  <1>2. ASSUME NEW m \in Matches, NEW s \in Unsettled,
               status' = status \/ status' = [status EXCEPT ![m] = s],
               UNCHANGED <<terms, lock, cycle>>
        PROVE  LocksOK'
    <2>1. \A k \in Matches : status[k] \in Unsettled => status'[k] \in Unsettled
      BY <1>2 DEF TypeOK
    <2>. QED BY <1>2, <2>1 DEF LocksOK
  <1>3. ASSUME NEW m \in Matches, NEW fined, Concluded(m, fined)
        PROVE  LocksOK'
    <2>1. PICK how \in Ended, verdict \in Verdicts, role \in Roles \cup {None} :
            End(m, how, verdict, role)
      BY <1>3 DEF Concluded
    <2>2. /\ lock' = [u \in Users |-> IF lock[u] = m THEN None ELSE lock[u]]
          /\ status' = [status EXCEPT ![m] = how] /\ UNCHANGED <<terms, cycle>>
      BY <2>1 DEF End, Unlock
    <2> SUFFICES ASSUME NEW u \in Users, NEW k \in Matches, lock'[u] = k
                 PROVE  /\ status'[k] \in Unsettled
                        /\ u \in {terms[k].challenger, terms[k].defender}
                        /\ \A v \in {terms[k].challenger, terms[k].defender} :
                             lock'[v] = k /\ cycle[v] # "EXPIRED"
      BY <2>2 DEF LocksOK
    <2>3. k # m /\ lock[u] = k
      BY <2>2, NoneAssumption
    <2>4. /\ status[k] \in Unsettled /\ u \in {terms[k].challenger, terms[k].defender}
          /\ \A v \in {terms[k].challenger, terms[k].defender} :
               lock[v] = k /\ cycle[v] # "EXPIRED"
      BY <2>3 DEF LocksOK
    <2>5. terms[k].challenger \in Users /\ terms[k].defender \in Users
      BY <2>4 DEF MatchesOK, Challenger, Defender, Unsettled, InPlay
    <2>. QED BY <2>2, <2>3, <2>4, <2>5 DEF TypeOK
  <1>4. CASE \E m \in Matches, r \in Roles : Plays(m, r)
    <2>1. PICK m \in Matches, r \in Roles : Plays(m, r)
      BY <1>4
    <2>2. UNCHANGED <<terms, lock, cycle>>
      BY <2>1 DEF Plays, StartAttempt, FinishQuestions, UploadFirst, UploadSecond
    <2>3. \/ status' = status
          \/ \E s \in Unsettled : status' = [status EXCEPT ![m] = s]
      <3>1. CASE \/ StartAttempt(m, r) \/ FinishQuestions(m, r)
                 \/ \E best \in Roles, flagged \in BOOLEAN : UploadSecond(m, r, best, flagged)
        BY <3>1 DEF StartAttempt, FinishQuestions, UploadSecond, matchVars, Unsettled, InPlay
      <3>2. CASE UploadFirst(m, r)
        <4>1. status' = [status EXCEPT ![m] = "IN_PROGRESS"] \/ status' = [status EXCEPT ![m] = @]
          BY <3>2 DEF UploadFirst
        <4>. QED BY <4>1 DEF TypeOK, Unsettled, InPlay
      <3>. QED BY <2>1, <3>1, <3>2 DEF Plays
    <2>4. "READY" \in Unsettled
      BY DEF Unsettled, InPlay
    <2>. QED BY <1>2, <2>2, <2>3, <2>4
  <1>5. CASE \E m \in Matches : Decides(m)
    BY <1>2, <1>3, <1>5 DEF Decides, Ends, Hold, Unsettled
  <1>6. CASE \E m \in Matches, cheaters \in SUBSET Roles : Concluded(m, cheaters)
    BY <1>3, <1>6
  <1>7. CASE \E m \in Matches : Resumes(m) \/ SundayCutoff(m)
    BY <1>2, <1>7 DEF Resumes, SundayCutoff, CutOffStatuses, InPlay, Unsettled
  <1>8. CASE \E u \in Users : ExpireCycle(u)
    <2>1. PICK u \in Users : ExpireCycle(u)
      BY <1>8
    <2>2. /\ lock[u] = None /\ UNCHANGED <<status, terms, lock>>
          /\ cycle' = [cycle EXCEPT ![u] = "EXPIRED"]
      BY <2>1 DEF ExpireCycle, PendingSettlement, matchVars
    <2>3. \A v \in Users, k \in Matches : lock[v] = k => cycle'[v] = cycle[v]
      BY <2>2, NoneAssumption DEF TypeOK
    <2> SUFFICES ASSUME NEW w \in Users, NEW k \in Matches, lock[w] = k
                 PROVE  \A v \in {terms[k].challenger, terms[k].defender} : cycle'[v] # "EXPIRED"
      BY <2>2 DEF LocksOK
    <2>4. terms[k].challenger \in Users /\ terms[k].defender \in Users
      BY DEF LocksOK, Unsettled, InPlay, MatchesOK, Challenger, Defender
    <2>. QED BY <2>3, <2>4 DEF LocksOK
  <1>9. CASE Quiet
    <2>1. \A v \in Users : cycle[v] # "EXPIRED" => cycle'[v] # "EXPIRED"
      BY <1>9 DEF Quiet
    <2>2. UNCHANGED <<status, terms, lock>>
      BY <1>9 DEF Quiet, matchVars
    <2> SUFFICES ASSUME NEW u \in Users, NEW k \in Matches, lock[u] = k
                 PROVE  \A v \in {terms[k].challenger, terms[k].defender} : cycle'[v] # "EXPIRED"
      BY <2>2 DEF LocksOK
    <2>3. status[k] # "NONE"
      BY DEF LocksOK, Unsettled, InPlay
    <2>4. terms[k].challenger \in Users /\ terms[k].defender \in Users
      BY <2>3 DEF MatchesOK, Challenger, Defender
    <2>. QED BY <2>1, <2>4 DEF LocksOK
  <1>. QED BY <1>1, <1>4, <1>5, <1>6, <1>7, <1>8, <1>9, StepShapes

-----------------------------------------------------------------------------
(* FlaggedEvidenceIsHeld *)

LEMMA FlaggedStep ==
  ASSUME TypeOK, MatchesOK, FlaggedEvidenceIsHeld, [Next]_vars
  PROVE  FlaggedEvidenceIsHeld'
  <1> USE DEF TypeOK, FlaggedEvidenceIsHeld, FlaggedEvidence, BothSubmitted
  <1>1. CASE \E m \in Matches, c, d \in Users : Opens(m, c, d)
    BY <1>1 DEF Opens, Open, playVars
  <1>2. ASSUME NEW m \in Matches, NEW r \in Roles, Plays(m, r)
        PROVE  FlaggedEvidenceIsHeld'
    <2>1. CASE StartAttempt(m, r)
      BY <2>1 DEF StartAttempt
    <2>2. CASE FinishQuestions(m, r)
      BY <2>2 DEF FinishQuestions, matchVars
    <2>3. CASE UploadFirst(m, r)
      BY <2>3 DEF UploadFirst, MayUpload
    <2>4. CASE \E best \in Roles, flagged \in BOOLEAN : UploadSecond(m, r, best, flagged)
      BY <2>4 DEF UploadSecond, MayUpload, Roles, Other
    <2>. QED BY <1>2, <2>1, <2>2, <2>3, <2>4 DEF Plays
  <1>3. ASSUME NEW m \in Matches, status[m] # "HELD", NEW fined, Concluded(m, fined),
               evidence' = evidence
        PROVE  FlaggedEvidenceIsHeld'
    BY <1>3 DEF Concluded, End
  <1>4. CASE \E m \in Matches : Decides(m)
    <2>1. PICK m \in Matches : status[m] # "HELD" /\ Ends(m)
      BY <1>4 DEF Decides
    <2>2. CASE Hold(m)
      BY <2>1, <2>2 DEF Hold, playVars
    <2>. QED BY <1>3, <2>1, <2>2 DEF Ends
  <1>5. ASSUME NEW m \in Matches, NEW cheaters \in SUBSET Roles, Concluded(m, cheaters),
               Reviewed(m), ReleaseAccess(m, cheaters)
        PROVE  FlaggedEvidenceIsHeld'
    <2>1. /\ \A r \in Roles : evidence'[m][r] # "ANOMALY_FLAGGED"
          /\ \A k \in Matches \ {m} : evidence'[k] = evidence[k]
      BY <1>5, ReviewWrites
    <2>. QED BY <1>5, <2>1 DEF Concluded, End
  <1>6. ASSUME NEW m \in Matches, Resumes(m)
        PROVE  FlaggedEvidenceIsHeld'
    <2>1. /\ \A r \in Roles : evidence'[m][r] # "ANOMALY_FLAGGED"
          /\ \A k \in Matches \ {m} : evidence'[k] = evidence[k]
      BY <1>6, ReviewWrites DEF Resumes
    <2>. QED BY <1>6, <2>1 DEF Resumes
  <1>7. CASE \E m \in Matches : SundayCutoff(m)
    BY <1>7 DEF SundayCutoff, CutOffStatuses, InPlay, playVars
  <1>8. CASE Quiet \/ \E u \in Users : ExpireCycle(u)
    BY SMTT(30), <1>8 DEF Quiet, ExpireCycle, matchVars, playVars
  <1>. QED BY <1>1, <1>2, <1>4, <1>5, <1>6, <1>7, <1>8, StepShapes

-----------------------------------------------------------------------------
(* BarredUsersHaveAReview *)

LEMMA BarredStep ==
  ASSUME TypeOK, MatchesOK, FlaggedEvidenceIsHeld, BarredUsersHaveAReview, [Next]_vars
  PROVE  BarredUsersHaveAReview'
  <1> DEFINE Case(u, m) == /\ u \in Parties(m) /\ status[m] = "HELD"
                           /\ \E r \in Roles : evidence[m][r] = "ANOMALY_FLAGGED"
  <1> SUFFICES ASSUME NEW u \in Users, access'[u] = "REVIEW_REQUIRED"
               PROVE  \E m \in Matches : Case(u, m)'
    BY DEF BarredUsersHaveAReview, FlaggedEvidence
  \* A case stays open while its match keeps its status, terms and evidence.
  <1>1. ASSUME access[u] = "REVIEW_REQUIRED",
               \A k \in Matches : status[k] = "HELD" =>
                 UNCHANGED <<status[k], terms[k], evidence[k]>>
        PROVE  \E m \in Matches : Case(u, m)'
    BY <1>1 DEF BarredUsersHaveAReview, FlaggedEvidence, Parties, Challenger, Defender
  <1>2. ASSUME NEW m \in Matches, NEW cheaters \in SUBSET Roles,
               Reviewed(m), ReleaseAccess(m, cheaters), UNCHANGED terms,
               \A k \in Matches \ {m} : status'[k] = status[k]
        PROVE  \E k \in Matches : Case(u, k)'
    <2>1. \A k \in Matches \ {m} : evidence'[k] = evidence[k]
      BY <1>2, ReviewWrites
    <2>2. PICK k \in Matches \ {m} : u \in Parties(k) /\ FlaggedEvidence(k) /\ status[k] = "HELD"
      <3>1. CASE u \notin Parties(m)
        BY <1>2, <3>1 DEF ReleaseAccess, BarredUsersHaveAReview
      <3>2. CASE u \in Parties(m)
        <4>1. FlaggedElsewhere(u, m)
          BY <1>2, <3>2 DEF ReleaseAccess
        <4>2. PICK k \in Matches \ {m}, r \in Roles :
                Party(k, r) = u /\ evidence[k][r] = "ANOMALY_FLAGGED"
          BY <4>1 DEF FlaggedElsewhere
        <4>. QED BY <4>2 DEF FlaggedEvidenceIsHeld, FlaggedEvidence, Party, Parties
      <3>. QED BY <3>1, <3>2
    <2>. QED BY <1>2, <2>1, <2>2 DEF FlaggedEvidence, Parties, Challenger, Defender
  <1>3. CASE \E m \in Matches, c, d \in Users : Opens(m, c, d)
    BY <1>1, <1>3 DEF Opens, Open, TypeOK, playVars
  <1>4. ASSUME NEW m \in Matches, NEW r \in Roles, Plays(m, r)
        PROVE  \E k \in Matches : Case(u, k)'
    \* Nobody plays on in a match with flagged evidence.
    <2>1. ASSUME access' = access, UNCHANGED terms,
                 \A k \in Matches \ {m} : UNCHANGED <<status[k], evidence[k]>>,
                 attempt[m][r] # "SUBMITTED"
          PROVE  \E k \in Matches : Case(u, k)'
      BY <2>1 DEF BarredUsersHaveAReview, FlaggedEvidenceIsHeld, FlaggedEvidence, BothSubmitted,
         Parties, Challenger, Defender
    <2>2. CASE StartAttempt(m, r)
      BY <2>1, <2>2 DEF StartAttempt, TypeOK
    <2>3. CASE FinishQuestions(m, r)
      BY <2>1, <2>3 DEF FinishQuestions, TypeOK, matchVars
    <2>4. CASE UploadFirst(m, r)
      BY <2>1, <2>4 DEF UploadFirst, MayUpload, TypeOK
    <2>5. ASSUME NEW best \in Roles, NEW flagged \in BOOLEAN, UploadSecond(m, r, best, flagged)
          PROVE  \E k \in Matches : Case(u, k)'
      <3>1. CASE flagged /\ u \in Parties(m)
        BY <2>5, <3>1 DEF UploadSecond, TypeOK, Parties, Challenger, Defender
      <3>2. CASE ~ (flagged /\ u \in Parties(m))
        <4>1. access[u] = "REVIEW_REQUIRED"
          BY <2>5, <3>2 DEF UploadSecond
        <4>2. PICK k \in Matches : u \in Parties(k) /\ FlaggedEvidence(k) /\ status[k] = "HELD"
          BY <4>1 DEF BarredUsersHaveAReview
        <4>3. k # m
          BY <2>5, <4>2 DEF UploadSecond, MayUpload, FlaggedEvidenceIsHeld, BothSubmitted
        <4>. QED BY <2>5, <4>2, <4>3 DEF UploadSecond, TypeOK, FlaggedEvidence, Parties,
                    Challenger, Defender
      <3>. QED BY <3>1, <3>2
    <2>. QED BY <1>4, <2>2, <2>3, <2>4, <2>5 DEF Plays
  <1>5. CASE \E m \in Matches : Decides(m)
    <2>1. PICK m \in Matches : status[m] # "HELD" /\ Ends(m)
      BY <1>5 DEF Decides
    <2>2. /\ UNCHANGED <<terms, evidence, access>>
          /\ \E s : status' = [status EXCEPT ![m] = s]
      BY <2>1 DEF Ends, Hold, Concluded, End, playVars
    <2>. QED BY <1>1, <2>1, <2>2 DEF TypeOK
  <1>6. CASE \E m \in Matches, cheaters \in SUBSET Roles :
               /\ status[m] = "HELD" /\ Concluded(m, cheaters)
               /\ Reviewed(m) /\ ReleaseAccess(m, cheaters)
    BY <1>2, <1>6 DEF Concluded, End, TypeOK
  <1>7. CASE \E m \in Matches : Resumes(m)
    <2>1. {} \in SUBSET Roles
      OBVIOUS
    <2>. QED BY <1>2, <1>7, <2>1 DEF Resumes, TypeOK
  <1>8. CASE \E m \in Matches : SundayCutoff(m)
    BY <1>1, <1>8 DEF SundayCutoff, CutOffStatuses, InPlay, TypeOK, playVars
  <1>9. CASE Quiet \/ \E v \in Users : ExpireCycle(v)
    <2>1. /\ UNCHANGED <<status, terms, evidence>>
          /\ access'[u] \in {access[u], "CLEAR"}
      BY <1>9 DEF Quiet, ExpireCycle, matchVars, playVars
    <2>. QED BY <1>1, <2>1
  <1>. QED BY <1>3, <1>4, <1>5, <1>6, <1>7, <1>8, <1>9, StepShapes

-----------------------------------------------------------------------------
(* The inductive invariant *)

IInv == /\ TypeOK /\ MatchesOK /\ SeatsDistinct /\ LocksAreLive
        /\ FlaggedEvidenceIsHeld /\ BarredUsersHaveAReview

LEMMA InitIInv == Init => IInv
  <1> SUFFICES ASSUME Init PROVE IInv
    OBVIOUS
  <1>1. TypeOK /\ MatchesOK
    BY InitType
  <1>2. SeatsDistinct
    BY SeatAssumption DEF Init, SeatsDistinct
  <1>3. LocksAreLive /\ BarredUsersHaveAReview
    BY DEF Init, LocksAreLive, BarredUsersHaveAReview
  <1>4. FlaggedEvidenceIsHeld
    BY DEF Init, FlaggedEvidenceIsHeld, FlaggedEvidence
  <1>. QED BY <1>1, <1>2, <1>3, <1>4 DEF IInv

LEMMA NextIInv ==
  ASSUME IInv, [Next]_vars
  PROVE  IInv'
  <1> USE DEF IInv
  <1>1. TypeOK' /\ MatchesOK'
    BY TypeStep
  <1>2. (TypeOK => (LocksAreLive <=> LocksOK))'
    BY LocksByMatch, PTL
  <1>3. LocksAreLive'
    BY <1>1, <1>2, LocksByMatch, LocksStep
  <1>. QED BY <1>1, <1>3, SeatsStep, FlaggedStep, BarredStep

LEMMA Invariance == Spec => []IInv
  BY InitIInv, NextIInv, PTL DEF Spec

\* Every variable keeps its type.  In particular no payback score, deposited
\* stake or burn of the settlements (updateCycle, burnConfirmedCheatingAsset) is
\* ever negative, even when late uploads and stale sweeps settle a match again.
THEOREM TypeCorrect == Spec => []TypeOK
  BY Invariance, PTL DEF IInv

\* The tuple swaps of all settlements (writeTupleSwap) keep the ladder a permutation:
\* no two users ever share a seat, whatever overlaps and repeats.
THEOREM SeatsStayDistinct == Spec => []SeatsDistinct
  BY Invariance, PTL DEF IInv

\* A participant lock always belongs to an unsettled match of its holder, both
\* participants hold it together, and applyExpirationTransition never ends the access
\* cycle of somebody who holds one.
THEOREM LocksStayLive == Spec => []LocksAreLive
  BY Invariance, PTL DEF IInv

\* Evidence flagged as anomalous keeps its match HELD and SUSPICIOUS until
\* reviewHeldArenaMatch has seen it; no upload, sweep, retry or cut-off gets past it.
THEOREM FlaggedEvidenceStaysHeld == Spec => []FlaggedEvidenceIsHeld
  BY Invariance, PTL DEF IInv

\* A user barred as REVIEW_REQUIRED always has a HELD match with flagged evidence,
\* whose review (resolveIntegrityAccessAfterMatchReview) can release them.
THEOREM BarredUsersAreReviewed == Spec => []BarredUsersHaveAReview
  BY Invariance, PTL DEF IInv

-----------------------------------------------------------------------------
(* WinnerIsNotDemoted *)

\* A normal attack goes up the ladder.
AttackGoesUp ==
  \A m \in Matches : status[m] # "NONE" /\ terms[m].kind = "NORMAL" =>
    terms[m].to < terms[m].from

LEMMA TermsStep ==
  ASSUME TypeOK, MatchesOK, [Next]_vars, ~ Creates
  PROVE  terms' = terms /\ \A m \in Matches : status[m] = "NONE" => status'[m] = "NONE"
  <1>1. ASSUME NEW m \in Matches, status[m] # "NONE", NEW s, status' = [status EXCEPT ![m] = s],
               terms' = terms
        PROVE  terms' = terms /\ \A k \in Matches : status[k] = "NONE" => status'[k] = "NONE"
    BY <1>1 DEF TypeOK
  <1>2. CASE \E m \in Matches, r \in Roles : Plays(m, r)
    <2>1. PICK m \in Matches, r \in Roles : Plays(m, r)
      BY <1>2
    <2>2. CASE StartAttempt(m, r)
      BY <1>1, <2>2 DEF StartAttempt
    <2>3. CASE FinishQuestions(m, r)
      BY <2>3 DEF FinishQuestions, matchVars
    <2>4. CASE \/ UploadFirst(m, r)
               \/ \E best \in Roles, flagged \in BOOLEAN : UploadSecond(m, r, best, flagged)
      <3>1. status[m] # "NONE"
        BY <2>4 DEF UploadFirst, UploadSecond, MayUpload, MatchesOK
      <3>2. terms' = terms /\ \E s : status' = [status EXCEPT ![m] = s]
        BY <2>4 DEF UploadFirst, UploadSecond
      <3>. QED BY <1>1, <3>1, <3>2
    <2>. QED BY <2>1, <2>2, <2>3, <2>4 DEF Plays
  <1>3. CASE \E m \in Matches : \/ Decides(m)
                               \/ \E cheaters : Concluded(m, cheaters)
    <2>1. PICK m \in Matches : /\ status[m] # "NONE"
                               /\ Hold(m) \/ \E cheaters : Concluded(m, cheaters)
      BY <1>3 DEF Decides, Ends, Concluded
    <2>2. terms' = terms /\ \E s : status' = [status EXCEPT ![m] = s]
      BY <2>1 DEF Hold, Concluded, End
    <2>. QED BY <1>1, <2>1, <2>2
  <1>4. CASE \E m \in Matches : Resumes(m) \/ SundayCutoff(m)
    <2>1. PICK m \in Matches : Resumes(m) \/ SundayCutoff(m)
      BY <1>4
    <2>2. /\ status[m] # "NONE"
          /\ terms' = terms /\ \E s : status' = [status EXCEPT ![m] = s]
      BY <2>1 DEF Resumes, SundayCutoff, CutOffStatuses, InPlay
    <2>. QED BY <1>1, <2>2
  <1>5. CASE Quiet \/ \E u \in Users : ExpireCycle(u)
    BY <1>5 DEF Quiet, ExpireCycle, matchVars
  <1>6. CASE \E m \in Matches, c, d \in Users : Opens(m, c, d)
    BY <1>6 DEF Opens
  <1>. QED BY <1>2, <1>3, <1>4, <1>5, <1>6, StepShapes

LEMMA UpStep ==
  ASSUME TypeOK, MatchesOK, AttackGoesUp, [Next]_vars
  PROVE  AttackGoesUp'
  <1>1. ASSUME NEW m \in Matches, NEW c \in Users, NEW d \in Users, CreateNormal(m, c, d)
        PROVE  AttackGoesUp'
    <2>1. seat[c] \in Seats /\ seat[d] \in Seats /\ seat[c] \in Nat /\ seat[d] \in Nat
      BY SeatsArePositive DEF TypeOK
    <2>2. Tier[seat[c]] \in Nat /\ Tier[seat[d]] \in Nat
      BY <2>1, TierAssumption
    <2>3. /\ Tier[seat[d]] \in {Tier[seat[c]], Tier[seat[c]] + 1}
          /\ Tier[seat[c]] = Tier[seat[d]] => seat[d] < seat[c]
      BY <1>1 DEF CreateNormal, TierPairAllowed, UpwardDirection
    <2>4. seat[c] # seat[d]
      BY <2>2, <2>3, <2>1
    <2>5. seat[d] < seat[c]
      BY <2>1, <2>2, <2>3, <2>4, TierAssumption
    <2>6. /\ terms' = [terms EXCEPT ![m] = [kind |-> "NORMAL", challenger |-> c, defender |-> d,
                                           from |-> seat[c], to |-> seat[d], source |-> None]]
          /\ \A k \in Matches \ {m} : status'[k] = status[k]
      BY <1>1 DEF CreateNormal, Open, TypeOK
    <2>. QED BY <2>5, <2>6 DEF AttackGoesUp, TypeOK
  <1>2. ASSUME NEW m \in Matches, NEW src \in Matches, CreateRevenge(m, src)
        PROVE  AttackGoesUp'
    <2>1. /\ terms'[m].kind = "REVENGE"
          /\ \A k \in Matches \ {m} : terms'[k] = terms[k] /\ status'[k] = status[k]
      BY <1>2 DEF CreateRevenge, Open, TypeOK
    <2>. QED BY <2>1 DEF AttackGoesUp
  <1>3. CASE ~ Creates
    BY <1>3, TermsStep DEF AttackGoesUp
  <1>. QED BY <1>1, <1>2, <1>3 DEF Creates

\* A match becomes SETTLED by a settlement or by a confirmed cheat, no other way.
LEMMA SettledBy ==
  ASSUME TypeOK, MatchesOK, [Next]_vars, NEW m \in Matches,
         status[m] # "SETTLED", status'[m] = "SETTLED"
  PROVE  \/ SettleByScore(m)
         \/ \E d \in Decisions : d.match = m /\ CarryOut(d) /\ (Overdue(d) \/ d \in stale)
         \/ \E cheaters \in SUBSET Roles \ {{}} : ReviewCheating(m, cheaters)
  <1>1. ASSUME NEW k \in Matches, NEW s, status' = [status EXCEPT ![k] = s]
        PROVE  k = m /\ s = "SETTLED"
    BY <1>1 DEF TypeOK
  <1>2. ASSUME NEW k \in Matches, Settle(k)
        PROVE  SettleByScore(m)
    <2>1. \E s : status' = [status EXCEPT ![k] = s]
      BY <1>2, SettleEnds DEF Settle, Ends, Hold, Concluded, End
    <2>. QED BY <1>1, <1>2, <2>1 DEF Settle
  <1>3. ASSUME NEW d \in Decisions, SweepAct(d)
        PROVE  d.match = m /\ CarryOut(d) /\ (Overdue(d) \/ d \in stale)
    <2>1. d.match \in Matches
      BY DEF Decisions
    <2>2. status[d.match] # "NONE"
      BY <1>3, <2>1, OverdueInPlay DEF SweepAct, MatchesOK, InPlay
    <2>3. \E s : status' = [status EXCEPT ![d.match] = s]
      BY <1>3, <2>2, CarryOutEnds DEF SweepAct, Ends, Hold, Concluded, End
    <2>. QED BY <1>1, <1>3, <2>1, <2>3 DEF SweepAct
  <1>4. ASSUME NEW k \in Matches, NEW cheaters \in SUBSET Roles \ {{}}, ReviewCheating(k, cheaters)
        PROVE  ReviewCheating(m, cheaters)
    BY <1>1, <1>4 DEF ReviewCheating, SettleCheating, End
  <1>5. ASSUME NEW k \in Matches, ReviewClear(k)
        PROVE  FALSE
    <2>1. CASE End(k, "CANCELLED", "CLEAR", winner[k])
      BY <1>1, <2>1 DEF End
    <2>2. CASE ~ End(k, "CANCELLED", "CLEAR", winner[k])
      <3>1. PICK s : /\ status' = [status EXCEPT ![k] = s]
                     /\ s \in {"SUBMITTED", "HELD", "IN_PROGRESS", "READY"}
        BY <1>5, <2>2 DEF ReviewClear, CancelUnscorable
      <3>. QED BY <1>1, <3>1
    <2>. QED BY <2>1, <2>2
  <1>6. ASSUME NEW k \in Matches, NEW r \in Roles, Plays(k, r)
        PROVE  FALSE
    <2>1. CASE FinishQuestions(k, r)
      BY <2>1 DEF FinishQuestions, matchVars
    <2>2. CASE StartAttempt(k, r)
      BY <1>1, <2>2 DEF StartAttempt
    <2>3. CASE UploadFirst(k, r)
      <3>1. \/ status' = [status EXCEPT ![k] = "IN_PROGRESS"]
            \/ status' = [status EXCEPT ![k] = @]
        BY <2>3 DEF UploadFirst
      <3>. QED BY <1>1, <3>1
    <2>4. CASE \E best \in Roles, flagged \in BOOLEAN : UploadSecond(k, r, best, flagged)
      BY <1>1, <2>4 DEF UploadSecond
    <2>. QED BY <1>6, <2>1, <2>2, <2>3, <2>4 DEF Plays
  <1>7. ASSUME NEW k \in Matches, SundayCutoff(k)
        PROVE  FALSE
    BY <1>1, <1>7 DEF SundayCutoff
  <1>8. ASSUME Creates
        PROVE  FALSE
    <2>1. CASE \E k \in Matches, c, d \in Users : CreateNormal(k, c, d)
      BY <1>1, <2>1 DEF CreateNormal, Open
    <2>2. CASE \E k, src \in Matches : CreateRevenge(k, src)
      BY <1>1, <2>2 DEF CreateRevenge, Open
    <2>. QED BY <1>8, <2>1, <2>2 DEF Creates
  <1>9. ASSUME status' = status
        PROVE  FALSE
    BY <1>9
  <1>10. CASE Participant
    <2>1. \/ Creates \/ \E k \in Matches : ForfeitRight(k) \/ \E r \in Roles : Plays(k, r)
      BY <1>10 DEF Participant, Plays, Creates
    <2>2. CASE \E k \in Matches : ForfeitRight(k)
      BY <1>9, <2>2 DEF ForfeitRight, matchVars
    <2>. QED BY <1>6, <1>8, <2>1, <2>2
  <1>11. CASE Scheduler
    BY <1>3, <1>7, <1>9, <1>11 DEF Scheduler, SweepRead, SweepAbandon, Deplete, ExpireCycle,
       matchVars
  <1>12. CASE Administrator
    BY <1>2, <1>4, <1>5, <1>9, <1>12 DEF Administrator, PenaltyOver, matchVars
  <1>13. CASE Clock \/ UNCHANGED vars
    BY <1>9, <1>13 DEF Clock, StartDeadline, EvidenceDeadline, LockRequests, LockDivision,
       Unlocked, NewDay, vars, matchVars
  <1>. QED BY <1>10, <1>11, <1>12, <1>13 DEF Next

WinnerKept(m, r) ==
  /\ terms[m].kind = "NORMAL"
  /\ status[m] # "SETTLED" /\ status'[m] = "SETTLED" /\ winner'[m] = r
  => seat'[Party(m, r)] <= seat[Party(m, r)]

LEMMA WinnerStep ==
  ASSUME IInv, AttackGoesUp, [Next]_vars, NEW m \in Matches, NEW r \in Roles
  PROVE  WinnerKept(m, r)
  <1> USE DEF IInv
  <1> SUFFICES ASSUME terms[m].kind = "NORMAL", status[m] # "SETTLED",
                      status'[m] = "SETTLED", winner'[m] = r
               PROVE  seat'[Party(m, r)] <= seat[Party(m, r)]
    BY DEF WinnerKept
  <1>1. ASSUME status[m] # "NONE", SourceIntact(m), NEW plan, NEW version, NEW fined,
               PayOut(m, plan, version, fined), plan.swap => r = "CHALLENGER"
        PROVE  seat'[Party(m, r)] <= seat[Party(m, r)]
    <2>1. Challenger(m) \in Users /\ Defender(m) \in Users /\ Challenger(m) # Defender(m)
      BY <1>1 DEF MatchesOK
    <2>2. seat[Challenger(m)] \in Nat /\ seat[Defender(m)] \in Nat
      BY <2>1, SeatsArePositive DEF TypeOK
    <2>3. seat[Defender(m)] < seat[Challenger(m)]
      BY <1>1 DEF SourceIntact, AttackGoesUp
    <2>4. CASE plan.swap
      BY <1>1, <2>1, <2>2, <2>3, <2>4 DEF PayOut, Swapped, Party, TypeOK
    <2>5. CASE ~ plan.swap
      BY <1>1, <2>1, <2>2, <2>5 DEF PayOut, Party
    <2>. QED BY <2>4, <2>5
  <1>2. ASSUME status[m] # "NONE", NEW role, NEW forced, NormalResult(m, role, forced)
        PROVE  seat'[Party(m, r)] <= seat[Party(m, r)]
    <2>1. ~ Hold(m)
      BY DEF Hold, TypeOK
    <2>2. /\ SourceIntact(m) /\ PayOut(m, NormalPlan(role, Tier[terms[m].from]), "NORMAL", {})
          /\ End(m, "SETTLED", "CLEAR", role)
      BY <1>2, <2>1 DEF NormalResult
    <2>3. role = r
      BY <2>2 DEF End, TypeOK
    <2>4. NormalPlan(role, Tier[terms[m].from]).swap => r = "CHALLENGER"
      BY <2>3 DEF NormalPlan, Plan, Roles
    <2>. QED BY <1>1, <1>2, <2>2, <2>4
  <1>3. CASE SettleByScore(m)
    BY <1>2, <1>3 DEF SettleByScore, Hold, TypeOK
  <1>4. ASSUME NEW d \in Decisions, d.match = m, CarryOut(d), Overdue(d) \/ d \in stale
        PROVE  seat'[Party(m, r)] <= seat[Party(m, r)]
    <2>1. status[m] # "NONE"
      BY <1>4, OverdueInPlay DEF MatchesOK, InPlay
    <2>2. ~ CancelNoStart(m)
      BY DEF CancelNoStart, End, TypeOK
    <2>3. CASE Forfeit(m, d.missing)
      BY <1>2, <2>1, <2>3 DEF Forfeit
    <2>. QED BY <1>4, <2>2, <2>3 DEF CarryOut
  <1>5. ASSUME NEW cheaters \in SUBSET Roles \ {{}}, ReviewCheating(m, cheaters)
        PROVE  seat'[Party(m, r)] <= seat[Party(m, r)]
    <2>1. winner' = [winner EXCEPT ![m] =
            IF cheaters = {"CHALLENGER"} THEN "DEFENDER"
            ELSE IF cheaters = {"DEFENDER"} THEN "CHALLENGER" ELSE None]
      BY <1>5 DEF ReviewCheating, SettleCheating, End
    <2>2. IntegrityPlan(cheaters, StakeOf(m)).swap => r = "CHALLENGER"
      BY <2>1 DEF IntegrityPlan, Plan, TypeOK
    <2>3. status[m] # "NONE"
      BY <1>5 DEF ReviewCheating, SettleCheating
    <2>. QED BY <1>1, <1>5, <2>2, <2>3 DEF ReviewCheating, SettleCheating
  <1>. QED BY <1>3, <1>4, <1>5, SettledBy

\* No settlement of a normal match, by score, forfeit or confirmed cheating, leaves its
\* winner on a worse seat: attacks go up the ladder (isEligibleSubDefenseDirection,
\* getSubTierPair), and the swap happens only on seats that did not move since.
THEOREM WinnersAreNotDemoted == Spec => WinnerIsNotDemoted
  <1>1. Init => AttackGoesUp
    BY DEF Init, AttackGoesUp
  <1>2. IInv /\ AttackGoesUp /\ [Next]_vars => AttackGoesUp'
    BY UpStep DEF IInv
  <1>3. IInv /\ AttackGoesUp /\ [Next]_vars
          => [\A m \in Matches, r \in Roles : WinnerKept(m, r)]_vars
    BY WinnerStep
  <1>4. (\A m \in Matches, r \in Roles : WinnerKept(m, r)) <=>
        \A m \in Matches, r \in Roles :
          /\ terms[m].kind = "NORMAL"
          /\ status[m] # "SETTLED" /\ status'[m] = "SETTLED" /\ winner'[m] = r
          => seat'[Party(m, r)] <= seat[Party(m, r)]
    BY DEF WinnerKept
  <1>. QED BY <1>1, <1>2, <1>3, <1>4, Invariance, PTL DEF Spec, WinnerIsNotDemoted

-----------------------------------------------------------------------------
(* Which steps move seats *)

\* Once both have uploaded, one of them has the higher score.
ScoredTogether == \A m \in Matches : BothSubmitted(m) => screened[m] \in Roles

LEMMA ScoredStep ==
  ASSUME TypeOK, MatchesOK, ScoredTogether, [Next]_vars
  PROVE  ScoredTogether'
  <1>1. ASSUME attempt' = attempt, screened' = screened
        PROVE  ScoredTogether'
    BY <1>1 DEF ScoredTogether, BothSubmitted
  <1>2. CASE \E m \in Matches, c, d \in Users : Opens(m, c, d)
    BY <1>1, <1>2 DEF Opens, Open, playVars
  <1>3. ASSUME NEW m \in Matches, NEW r \in Roles, Plays(m, r)
        PROVE  ScoredTogether'
    <2>1. Other(r) \in Roles /\ Other(r) # r
      BY DEF Other, Roles
    <2>2. CASE \E best \in Roles, flagged \in BOOLEAN : UploadSecond(m, r, best, flagged)
      BY <2>2 DEF UploadSecond, TypeOK, ScoredTogether, BothSubmitted
    <2>3. CASE StartAttempt(m, r) \/ FinishQuestions(m, r) \/ UploadFirst(m, r)
      <3>1. /\ screened' = screened
            /\ \A k \in Matches \ {m} : attempt'[k] = attempt[k]
            /\ \E q \in Roles : attempt'[m][q] # "SUBMITTED"
        BY <2>1, <2>3 DEF StartAttempt, FinishQuestions, UploadFirst, TypeOK, matchVars
      <3>. QED BY <3>1 DEF ScoredTogether, BothSubmitted
    <2>. QED BY <1>3, <2>2, <2>3 DEF Plays
  <1>4. ASSUME NEW m \in Matches, Decides(m) \/ SundayCutoff(m) \/ \E fined : Concluded(m, fined)
        PROVE  ScoredTogether'
    BY <1>1, <1>4 DEF Decides, Ends, Hold, Concluded, End, SundayCutoff, playVars
  <1>5. CASE \E m \in Matches : Resumes(m)
    BY <1>1, <1>5 DEF Resumes
  <1>6. CASE Quiet \/ \E u \in Users : ExpireCycle(u)
    BY <1>1, <1>6 DEF Quiet, ExpireCycle, matchVars, playVars
  <1>. QED BY <1>2, <1>3, <1>4, <1>5, <1>6, StepShapes

LEMMA Scored == Spec => []ScoredTogether
  <1>1. Init => ScoredTogether
    BY DEF Init, ScoredTogether, BothSubmitted, Roles
  <1>2. IInv /\ ScoredTogether /\ [Next]_vars => ScoredTogether'
    BY ScoredStep DEF IInv
  <1>. QED BY <1>1, <1>2, Invariance, PTL DEF Spec

\* m is settled for its challenger, who takes the defender's seat and leaves his own,
\* and both are still the seats the match was made over.
WonBySwap(m) ==
  /\ status[m] # "SETTLED" /\ status'[m] = "SETTLED" /\ winner'[m] = "CHALLENGER"
  /\ SourceIntact(m) /\ seat' = Swapped(m)

\* An administrator confirms that the defender of a match that is held cheated, or a
\* sweep lets the defender of a normal match, and him alone, lose it for being absent,
\* which earns him no revenge.
DecidedUnplayed(m) ==
  \/ status[m] = "HELD" /\ integrity'[m] = "CONFIRMED"
  \/ /\ terms[m].kind = "NORMAL" /\ right' = right
     /\ \E d \in Decisions : /\ d.match = m /\ d.missing = {"DEFENDER"}
                             /\ Overdue(d) \/ d \in stale

LEMMA PaidSwap ==
  ASSUME TypeOK, NEW m \in Matches, SourceIntact(m), seat' # seat, status[m] # "SETTLED",
         NEW plan, NEW version, NEW fined, PayOut(m, plan, version, fined),
         NEW verdict, NEW role, End(m, "SETTLED", verdict, role),
         plan.swap => role = "CHALLENGER"
  PROVE  WonBySwap(m) /\ role = "CHALLENGER" /\ integrity'[m] = verdict
  <1>1. plan.swap /\ seat' = Swapped(m)
    BY DEF PayOut
  <1>2. status'[m] = "SETTLED" /\ winner'[m] = role /\ integrity'[m] = verdict
    BY DEF End, TypeOK
  <1>. QED BY <1>1, <1>2 DEF WonBySwap

LEMMA NormalSwap ==
  ASSUME TypeOK, NEW m \in Matches, seat' # seat, status[m] # "SETTLED",
         NEW role \in Roles, NEW forced \in BOOLEAN, NormalResult(m, role, forced)
  PROVE  WonBySwap(m) /\ role = "CHALLENGER" /\ (forced => right' = right)
  <1>1. ~ Hold(m)
    BY DEF Hold, moneyVars
  <1>2. /\ SourceIntact(m) /\ PayOut(m, NormalPlan(role, Tier[terms[m].from]), "NORMAL", {})
        /\ End(m, "SETTLED", "CLEAR", role) /\ (forced => right' = right)
    BY <1>1 DEF NormalResult
  <1>3. NormalPlan(role, Tier[terms[m].from]).swap => role = "CHALLENGER"
    BY DEF NormalPlan, Plan, Roles
  <1>. QED BY <1>2, <1>3, PaidSwap

LEMMA RevengeSwap ==
  ASSUME TypeOK, NEW m \in Matches, seat' # seat, status[m] # "SETTLED",
         NEW outcome, NEW role, RevengeResult(m, outcome, role),
         RevengePlan(outcome).swap => role = "CHALLENGER"
  PROVE  WonBySwap(m)
  <1>1. ~ Hold(m)
    BY DEF Hold, moneyVars
  <1>2. /\ SourceIntact(m) /\ PayOut(m, RevengePlan(outcome), "REVENGE", {})
        /\ End(m, "SETTLED", "CLEAR", role)
    BY <1>1 DEF RevengeResult
  <1>. QED BY <1>2, PaidSwap

LEMMA ScoreSwap ==
  ASSUME TypeOK, ScoredTogether, NEW m \in Matches, seat' # seat, SettleByScore(m)
  PROVE  WonBySwap(m) /\ ~ DivisionLocked
  <1>1. ~ Hold(m)
    BY DEF Hold, moneyVars
  <1>2. /\ status[m] # "SETTLED" /\ ~ DivisionLocked /\ screened[m] \in Roles
        /\ \/ NormalResult(m, screened[m], FALSE)
           \/ RevengeResult(m, IF screened[m] = "CHALLENGER" THEN "ATTACKER_WIN"
                               ELSE "DEFENDER_WIN", screened[m])
    BY <1>1 DEF SettleByScore, ScoredTogether
  <1>3. RevengePlan(IF screened[m] = "CHALLENGER" THEN "ATTACKER_WIN" ELSE "DEFENDER_WIN").swap
          => screened[m] = "CHALLENGER"
    BY DEF RevengePlan, Plan
  <1>. QED BY <1>2, <1>3, NormalSwap, RevengeSwap

LEMMA SweepSwap ==
  ASSUME TypeOK, ScoredTogether, NEW d \in Decisions, seat' # seat,
         CarryOut(d), Overdue(d) \/ d \in stale
  PROVE  WonBySwap(d.match) /\ (DivisionLocked => DecidedUnplayed(d.match))
  <1> DEFINE m == d.match
  <1>1. m \in Matches /\ d.missing \in SUBSET Roles
    BY DEF Decisions
  <1>2. ~ Hold(m)
    BY DEF Hold, moneyVars
  <1>3. CASE CancelNoStart(m)
    BY <1>3 DEF CancelNoStart, PayOut, Plan
  <1>4. CASE terms[m].kind = "NORMAL" /\ Forfeit(m, d.missing)
    <2>1. PICK r \in Roles : d.missing = {r} /\ NormalResult(m, Other(r), TRUE)
      BY <1>1, <1>4 DEF Forfeit
    <2>2. Other(r) \in Roles /\ (Other(r) = "CHALLENGER" => r = "DEFENDER")
      BY DEF Other, Roles
    <2>3. status[m] # "SETTLED"
      BY <1>4 DEF Forfeit
    <2>4. WonBySwap(m) /\ Other(r) = "CHALLENGER" /\ right' = right
      BY <1>1, <2>1, <2>2, <2>3, NormalSwap
    <2>. QED BY <1>4, <2>1, <2>2, <2>4 DEF DecidedUnplayed
  <1>5. CASE \E early \in BOOLEAN : RevengeNoShow(m, d.missing, early)
    <2> DEFINE role == IF d.missing = {"CHALLENGER"} THEN "DEFENDER"
                       ELSE IF d.missing = {"DEFENDER"} THEN "CHALLENGER" ELSE None
    <2>1. /\ status[m] # "SETTLED" /\ ~ DivisionLocked
          /\ RevengeResult(m, NoShowOutcome(d.missing), role)
      BY <1>2, <1>5 DEF RevengeNoShow
    <2>2. RevengePlan(NoShowOutcome(d.missing)).swap => role = "CHALLENGER"
      BY DEF RevengePlan, NoShowOutcome, Plan
    <2>. HIDE DEF role
    <2>. QED BY <1>1, <2>1, <2>2, RevengeSwap
  <1>6. CASE SettleByScore(m)
    BY <1>1, <1>6, ScoreSwap
  <1>. QED BY <1>3, <1>4, <1>5, <1>6 DEF CarryOut

LEMMA ReviewSwap ==
  ASSUME TypeOK, NEW m \in Matches, NEW cheaters \in SUBSET Roles \ {{}}, seat' # seat,
         ReviewCheating(m, cheaters)
  PROVE  WonBySwap(m) /\ DecidedUnplayed(m)
  <1> DEFINE role == IF cheaters = {"CHALLENGER"} THEN "DEFENDER"
                     ELSE IF cheaters = {"DEFENDER"} THEN "CHALLENGER" ELSE None
             plan == IntegrityPlan(cheaters, StakeOf(m))
  <1>1. /\ status[m] = "HELD" /\ SourceIntact(m) /\ PayOut(m, plan, "INTEGRITY", cheaters)
        /\ End(m, "SETTLED", "CONFIRMED", role)
    BY DEF ReviewCheating, SettleCheating
  <1>2. plan.swap => role = "CHALLENGER"
    BY DEF IntegrityPlan, Plan
  <1>. HIDE DEF role, plan
  <1>. QED BY <1>1, <1>2, PaidSwap DEF DecidedUnplayed

LEMMA SeatMover ==
  ASSUME IInv, ScoredTogether, [Next]_vars, seat' # seat
  PROVE  \E m \in Matches : WonBySwap(m) /\ (DivisionLocked => DecidedUnplayed(m))
  <1> USE DEF IInv
  <1>1. CASE Participant
    <2>1. PICK m \in Matches : \/ Creates \/ ForfeitRight(m) \/ \E r \in Roles : Plays(m, r)
      BY <1>1 DEF Participant, Creates, Plays
    <2>2. CASE Creates
      BY <2>2 DEF Creates, CreateNormal, CreateRevenge, Open
    <2>3. CASE ForfeitRight(m) \/ \E r \in Roles : Plays(m, r)
      BY <2>3 DEF Plays, ForfeitRight, StartAttempt, FinishQuestions, UploadFirst, UploadSecond,
         moneyVars
    <2>. QED BY <2>1, <2>2, <2>3
  <1>2. CASE Scheduler
    <2>1. PICK d \in Decisions : SweepAct(d)
      BY <1>2 DEF Scheduler, SweepRead, SweepAbandon, SundayCutoff, Deplete, ExpireCycle, moneyVars
    <2>2. d.match \in Matches
      BY DEF Decisions
    <2>. QED BY <2>1, <2>2, SweepSwap DEF SweepAct
  <1>3. CASE Administrator
    <2>1. ASSUME NEW m \in Matches, ReviewClear(m)
          PROVE  FALSE
      BY <2>1 DEF ReviewClear, CancelUnscorable, PayOut, Plan, moneyVars
    <2>. QED BY <1>3, <2>1, ScoreSwap, ReviewSwap DEF Administrator, Settle, PenaltyOver, moneyVars
  <1>4. CASE Clock \/ UNCHANGED vars
    BY <1>4 DEF Clock, StartDeadline, EvidenceDeadline, LockRequests, LockDivision, Unlocked,
       NewDay, vars, moneyVars
  <1>. QED BY <1>1, <1>2, <1>3, <1>4 DEF Next

\* Seats move by a settlement that the challenger wins, one swap at a time and over
\* the two seats the match was made for, whatever uploads, sweeps and reviews
\* interleave: no other handler writes a rank.
OnlyWinsMoveSeats == [][seat' # seat => \E m \in Matches : WonBySwap(m)]_vars

\* Writes of ranks are in writeTupleSwap alone, and each is of a match won by its
\* challenger whose two standings nobody has touched.
THEOREM SeatsMoveByWins == Spec => OnlyWinsMoveSeats
  <1>1. IInv /\ ScoredTogether /\ [Next]_vars
          => [seat' # seat => \E m \in Matches : WonBySwap(m)]_vars
    BY SeatMover
  <1>. QED BY <1>1, Invariance, Scored, PTL DEF Spec, OnlyWinsMoveSeats

\* What is left of the freeze of the standings that the match rules promise for Sunday
\* 15:00 (docs/logic/02_GOAT_ARENA_COMMON_MATCH_RULES.md): a played match moves none,
\* since settleArenaMatch and settleSubRevengeNoShow hold it.  What does move one is a
\* review that confirms a cheat and the sweep of a normal match the defender was absent
\* from.
SundayMoves ==
  [][DivisionLocked /\ seat' # seat =>
       \E m \in Matches : WonBySwap(m) /\ DecidedUnplayed(m)]_vars

\* SundayFreeze is violated by the code, and in these two ways only.
THEOREM SundayMovesAreUnplayed == Spec => SundayMoves
  <1>1. IInv /\ ScoredTogether /\ [Next]_vars
          => [DivisionLocked /\ seat' # seat =>
                \E m \in Matches : WonBySwap(m) /\ DecidedUnplayed(m)]_vars
    BY SeatMover
  <1>. QED BY <1>1, Invariance, Scored, PTL DEF Spec, SundayMoves

\* Every seat there was is somebody's.
NoSeatIsLost == {seat[u] : u \in Users} = {InitialSeat[u] : u \in Users}

\* The seats are a permutation of those the week began with, whatever chains of wins,
\* revenges and reviews exchange them.
THEOREM SeatsArePermuted == Spec => []NoSeatIsLost
  <1>1. Init => NoSeatIsLost
    BY DEF Init, NoSeatIsLost
  <1>2. IInv /\ NoSeatIsLost /\ [Next]_vars => NoSeatIsLost'
    <2> SUFFICES ASSUME IInv, NoSeatIsLost, [Next]_vars, seat' # seat
                 PROVE  NoSeatIsLost'
      BY DEF NoSeatIsLost
    <2>1. PICK m \in Matches : status[m] # "NONE" /\ seat' = Swapped(m)
      BY SeatStep DEF IInv
    <2> DEFINE c == Challenger(m)
               d == Defender(m)
    <2>2. c \in Users /\ d \in Users /\ c # d /\ seat \in [Users -> Seats]
      BY <2>1 DEF IInv, MatchesOK, TypeOK
    <2>3. seat' = [seat EXCEPT ![c] = seat[d], ![d] = seat[c]]
      BY <2>1 DEF Swapped
    <2>. HIDE DEF c, d
    <2>4. \A u \in Users : seat'[u] = IF u = c THEN seat[d] ELSE IF u = d THEN seat[c] ELSE seat[u]
      BY <2>2, <2>3
    <2>5. \A u \in Users : \E v \in Users : seat'[u] = seat[v]
      BY <2>2, <2>4
    <2>6. \A u \in Users : \E v \in Users : seat[u] = seat'[v]
      BY <2>2, <2>4
    <2>7. {seat'[u] : u \in Users} = {seat[u] : u \in Users}
      BY <2>5, <2>6
    <2>. QED BY <2>7 DEF NoSeatIsLost
  <1>. QED BY <1>1, <1>2, Invariance, PTL DEF Spec
-----------------------------------------------------------------------------
(* ScoreConserved *)

\* What a user has and what a user has deposited add up to Worth.
LEMMA WorthType == TypeOK => Worth \in [Users -> Nat]
  BY DEF TypeOK, Worth

\* The end of a match, as the accounts see it: of the stake the challenger gets
\* `back` and the defender `paid`, the rest and the fines are burned.
LEMMA ConcludedMoney ==
  ASSUME TypeOK, MatchesOK, NEW m \in Matches, NEW fined \in SUBSET Roles, Concluded(m, fined)
  PROVE  \E back \in 0..StakeOf(m) : \E paid \in 0..(StakeOf(m) - back) :
         \E fineC \in 0..(score[Challenger(m)] + back), fineD \in 0..(score[Defender(m)] + paid) :
           /\ score' = [score EXCEPT ![Challenger(m)] = @ + back - fineC,
                                     ![Defender(m)] = @ + paid - fineD]
           /\ burned' = burned + (StakeOf(m) - back - paid) + fineC + fineD
  <1>1. PICK plan \in Plans, version \in Versions :
          Divides(plan, StakeOf(m)) /\ PayOut(m, plan, version, fined)
    BY DEF Concluded
  <1> DEFINE c == Challenger(m)
             d == Defender(m)
             back == plan.toChallenger
             paid == plan.toDefender
             rich == [u \in Users |-> score[u] + (IF u = c THEN back ELSE 0)
                                               + (IF u = d THEN paid ELSE 0)]
             fine == [r \in Roles |-> IF r \in fined THEN PenaltyBurn(rich[Party(m, r)]) ELSE 0]
             fc == fine["CHALLENGER"]
             fd == fine["DEFENDER"]
  <1>2. c \in Users /\ d \in Users /\ c # d
    BY DEF MatchesOK, Concluded
  <1>3. back \in Nat /\ paid \in Nat /\ plan.burn \in Nat
    BY DEF Plans, RevengeStake
  <1>4. rich \in [Users -> Nat]
    BY <1>3 DEF TypeOK
  <1>5. fc \in 0..rich[c] /\ fd \in 0..rich[d]
    BY <1>2, <1>4, PenaltyBurnBound DEF Roles, Party
  <1>6. score' = [u \in Users |-> rich[u] - (IF u = c THEN fc ELSE 0) - (IF u = d THEN fd ELSE 0)]
    BY <1>1 DEF PayOut
  <1>7. burned' = burned + plan.burn + fc + fd
    BY <1>1 DEF PayOut
  <1>8. \A u \in Users : /\ u \notin {c, d} => rich[u] = score[u]
                         /\ u = c => rich[u] = score[u] + back
                         /\ u = d => rich[u] = score[u] + paid
    BY <1>2, <1>3 DEF TypeOK
  <1>9. StakeOf(m) \in Nat /\ back + paid + plan.burn = StakeOf(m)
    BY <1>1, StakeType DEF StakeOf, Divides
  <1> HIDE DEF c, d, back, paid, rich, fine, fc, fd
  <1>10. score \in [Users -> Nat] /\ burned \in Nat
    BY DEF TypeOK
  <1>11. fc \in 0..(score[c] + back) /\ fd \in 0..(score[d] + paid)
    BY <1>2, <1>5, <1>8
  <1>12. back \in 0..StakeOf(m) /\ paid \in 0..(StakeOf(m) - back)
         /\ plan.burn = StakeOf(m) - back - paid
    BY <1>3, <1>9
  <1>13. burned' = burned + (StakeOf(m) - back - paid) + fc + fd
    BY <1>7, <1>12
  <1>14. score' = [score EXCEPT ![c] = @ + back - fc, ![d] = @ + paid - fd]
    <2> DEFINE next == [score EXCEPT ![c] = @ + back - fc, ![d] = @ + paid - fd]
    <2>1. ASSUME NEW u \in Users
          PROVE  score'[u] = next[u]
      <3>1. CASE u = c
        <4>1. score'[u] = (score[u] + back) - fc - 0 /\ next[u] = score[u] + back - fc
          BY <1>2, <1>6, <1>8, <1>10, <3>1
        <4>. QED BY <1>3, <1>5, <1>10, <1>11, <4>1
      <3>2. CASE u = d
        <4>1. score'[u] = (score[u] + paid) - 0 - fd /\ next[u] = score[u] + paid - fd
          BY <1>2, <1>6, <1>8, <1>10, <3>2
        <4>. QED BY <1>3, <1>5, <1>10, <1>11, <4>1
      <3>3. CASE u \notin {c, d}
        <4>1. score'[u] = score[u] - 0 - 0 /\ next[u] = score[u]
          BY <1>6, <1>8, <1>10, <3>3
        <4>. QED BY <1>10, <4>1
      <3>. QED BY <3>1, <3>2, <3>3
    <2>2. score' = [u \in Users |-> score'[u]] /\ next = [u \in Users |-> next[u]]
      BY <1>6, <1>10
    <2>. HIDE DEF next
    <2>3. score' = next
      BY <2>1, <2>2
    <2>. QED BY <2>3 DEF next
  <1>. QED BY <1>11, <1>12, <1>13, <1>14 DEF c, d

\* It moves the worth of the two participants, and what they lose together is burned.
LEMMA ConcludedWorth ==
  ASSUME TypeOK, MatchesOK, NEW m \in Matches, NEW fined \in SUBSET Roles, Concluded(m, fined)
  PROVE  \E a, b \in Int :
           /\ Worth' = [Worth EXCEPT ![Challenger(m)] = @ + a, ![Defender(m)] = @ + b]
           /\ burned = burned' + (a + b)
  <1> DEFINE c == Challenger(m)
             d == Defender(m)
             n == StakeOf(m)
  <1>1. n \in Nat /\ c \in Users /\ d \in Users /\ c # d
    BY StakeType DEF StakeOf, MatchesOK, Concluded
  <1>2. locked' = [locked EXCEPT ![c] = @ - n]
    BY DEF Concluded, PayOut
  <1>3. PICK back \in 0..n : \E paid \in 0..(n - back) :
        \E fineC \in 0..(score[c] + back), fineD \in 0..(score[d] + paid) :
           /\ score' = [score EXCEPT ![c] = @ + back - fineC, ![d] = @ + paid - fineD]
           /\ burned' = burned + (n - back - paid) + fineC + fineD
    BY ConcludedMoney
  <1> HIDE DEF c, d, n
  <1>4. PICK paid \in 0..(n - back) :
        \E fineC \in 0..(score[c] + back), fineD \in 0..(score[d] + paid) :
           /\ score' = [score EXCEPT ![c] = @ + back - fineC, ![d] = @ + paid - fineD]
           /\ burned' = burned + (n - back - paid) + fineC + fineD
    BY <1>3
  <1>5. PICK fineC \in 0..(score[c] + back), fineD \in 0..(score[d] + paid) :
           /\ score' = [score EXCEPT ![c] = @ + back - fineC, ![d] = @ + paid - fineD]
           /\ burned' = burned + (n - back - paid) + fineC + fineD
    BY <1>4
  <1>6. back \in Int /\ paid \in Int /\ fineC \in Int /\ fineD \in Int /\ burned \in Nat
    BY <1>1 DEF TypeOK
  <1> DEFINE a == back - fineC - n
             b == paid - fineD
             next == [Worth EXCEPT ![c] = @ + a, ![d] = @ + b]
  <1>7. a \in Int /\ b \in Int /\ burned = burned' + (a + b)
    <2>1. burned' = burned + (n - back - paid) + fineC + fineD
      BY <1>5
    <2>. QED BY <1>1, <1>6, <2>1
  <1>8. ASSUME NEW u \in Users
        PROVE  Worth'[u] = next[u]
    <2>1. Worth'[u] = score'[u] + locked'[u]
      BY DEF Worth
    <2>2. Worth[u] = score[u] + locked[u] /\ score[u] \in Nat /\ locked[u] \in Nat
      BY DEF Worth, TypeOK
    <2>3. CASE u = c
      <3>1. /\ next[u] = Worth[u] + a /\ score'[u] = score[u] + back - fineC
            /\ locked'[u] = locked[u] - n
        BY <1>1, <1>2, <1>5, <2>3 DEF Worth, TypeOK
      <3>. QED BY <1>1, <1>6, <2>1, <2>2, <3>1
    <2>4. CASE u = d
      <3>1. /\ next[u] = Worth[u] + b /\ score'[u] = score[u] + paid - fineD
            /\ locked'[u] = locked[u]
        BY <1>1, <1>2, <1>5, <2>4 DEF Worth, TypeOK
      <3>. QED BY <1>6, <2>1, <2>2, <3>1
    <2>5. CASE u \notin {c, d}
      <3>1. next[u] = Worth[u] /\ score'[u] = score[u] /\ locked'[u] = locked[u]
        BY <1>2, <1>5, <2>5 DEF Worth, TypeOK
      <3>. QED BY <2>1, <2>2, <3>1
    <2>. QED BY <2>3, <2>4, <2>5
  <1>9. Worth' = next
    <2>1. Worth' = [u \in Users |-> Worth'[u]] /\ next = [u \in Users |-> next[u]]
      BY DEF Worth
    <2>. HIDE DEF next
    <2>. QED BY <1>8, <2>1
  <1>. QED BY <1>7, <1>9 DEF c, d

\* A step leaves every worth as it is, or ends a match.
LEMMA WorthStep ==
  ASSUME TypeOK, MatchesOK, [Next]_vars
  PROVE  \/ Worth' = Worth /\ burned' = burned
         \/ \E m \in Matches, fined \in SUBSET Roles : Concluded(m, fined)
  <1>0. UNCHANGED moneyVars => Worth' = Worth /\ burned' = burned
    BY DEF moneyVars, Worth
  <1>1. ASSUME NEW m \in Matches, NEW c \in Users, NEW d \in Users, Opens(m, c, d)
        PROVE  Worth' = Worth /\ burned' = burned
    <2>1. PICK kind \in {"NORMAL", "REVENGE"}, src \in Matches \cup {None} : Open(m, kind, c, d, src)
      BY <1>1 DEF Opens
    <2>2. Stake(kind) \in Nat
      BY StakeType
    <2>3. /\ score' = [score EXCEPT ![c] = @ - Stake(kind)]
          /\ locked' = [locked EXCEPT ![c] = @ + Stake(kind)]
          /\ burned' = burned
      BY <2>1 DEF Open
    <2>4. \A u \in Users : score'[u] + locked'[u] = score[u] + locked[u]
      BY <2>2, <2>3 DEF TypeOK
    <2>. QED BY <2>3, <2>4 DEF Worth
  <1>2. CASE \E m \in Matches, r \in Roles : Plays(m, r)
    BY <1>0, <1>2 DEF Plays, StartAttempt, FinishQuestions, UploadFirst, UploadSecond
  <1>3. ASSUME NEW m \in Matches, Decides(m)
        PROVE  \/ UNCHANGED moneyVars
               \/ Concluded(m, {})
    BY <1>3 DEF Decides, Ends, Hold
  <1>4. {} \in SUBSET Roles
    OBVIOUS
  <1>5. CASE \E m \in Matches : Resumes(m) \/ SundayCutoff(m)
    BY <1>0, <1>5 DEF Resumes, SundayCutoff
  <1>6. CASE Quiet \/ \E u \in Users : ExpireCycle(u)
    BY <1>0, <1>6 DEF Quiet, ExpireCycle
  <1>. QED BY <1>0, <1>1, <1>2, <1>3, <1>4, <1>5, <1>6, StepShapes

LEMMA ConservedStep ==
  ASSUME IsFiniteSet(Users), TypeOK, MatchesOK, ScoreConserved, [Next]_vars
  PROVE  ScoreConserved'
  <1>1. CASE Worth' = Worth /\ burned' = burned
    BY <1>1 DEF ScoreConserved
  <1>2. ASSUME NEW m \in Matches, NEW fined \in SUBSET Roles, Concluded(m, fined)
        PROVE  ScoreConserved'
    <2> DEFINE c == Challenger(m)
               d == Defender(m)
    <2>1. c \in Users /\ d \in Users /\ c # d
      BY <1>2 DEF MatchesOK, Concluded
    <2>2. PICK a \in Int, b \in Int :
            /\ Worth' = [Worth EXCEPT ![c] = @ + a, ![d] = @ + b]
            /\ burned = burned' + (a + b)
      BY <1>2, ConcludedWorth
    <2> HIDE DEF c, d
    <2> DEFINE half == [Worth EXCEPT ![c] = @ + a]
    <2>3. Worth \in [Users -> Int]
      BY WorthType
    <2>4. /\ half \in [Users -> Int] /\ half[c] = Worth[c] + a
          /\ \A u \in Users \ {c} : half[u] = Worth[u]
      BY <2>1, <2>3
    <2>5. /\ Worth' \in [Users -> Int] /\ Worth'[d] = half[d] + b
          /\ \A u \in Users \ {d} : Worth'[u] = half[u]
      BY <2>1, <2>2, <2>3, <2>4
    <2> HIDE DEF half
    <2>6. SumFunctionOnSet(half, Users) = SumFunctionOnSet(Worth, Users) + (half[c] - Worth[c])
      BY <2>1, <2>3, <2>4, SumWithOneChanged
    <2>7. SumFunctionOnSet(Worth', Users) = SumFunctionOnSet(half, Users) + (Worth'[d] - half[d])
      BY <2>1, <2>4, <2>5, SumWithOneChanged
    <2>8. SumFunctionOnSet(Worth, Users) \in Int
      BY <2>3, SumIsInt
    <2>9. SumFunctionOnSet(Worth', Users) = SumFunctionOnSet(Worth, Users) + a + b
      <3>1. half[c] - Worth[c] = a /\ Worth'[d] - half[d] = b
        BY <2>1, <2>3, <2>4, <2>5
      <3>. QED BY <2>6, <2>7, <2>8, <3>1
    <2>10. burned \in Nat /\ burned' \in Nat
      BY <1>2, TypeStep DEF TypeOK
    <2>11. burned = burned' + (a + b)
      BY <2>2
    <2>12. SumFunctionOnSet(Worth', Users) + burned' = SumFunctionOnSet(Worth, Users) + burned
      BY <2>8, <2>9, <2>10, <2>11
    <2>. QED BY <2>12 DEF ScoreConserved
  <1>. QED BY <1>1, <1>2, WorthStep

\* The payback score of finitely many participants is neither created nor lost: no
\* settlement, cancellation, fine, late upload or stale sweep makes what they have,
\* what is deposited and what was burned add up to anything but what they started
\* with (settleSubNormalMatch, settleSubRevengeOutcome, settleConfirmedMatchCheating,
\* cancelClearedUnscorableMatch, burnConfirmedCheatingAsset).
THEOREM ScoreIsConserved ==
  ASSUME IsFiniteSet(Users)
  PROVE  Spec => []ScoreConserved
  <1>1. Init => ScoreConserved
    <2> SUFFICES ASSUME Init PROVE ScoreConserved
      OBVIOUS
    <2>1. \A u \in Users : Worth[u] = InitialScore[u]
      BY ScoreAssumption DEF Init, Worth
    <2>2. SumFunctionOnSet(Worth, Users) = SumFunctionOnSet(InitialScore, Users)
      BY <2>1, SumOfSame
    <2>3. SumFunctionOnSet(InitialScore, Users) \in Int
      BY SumIsInt, ScoreAssumption
    <2>. QED BY <2>2, <2>3 DEF Init, ScoreConserved
  <1>2. IInv /\ ScoreConserved /\ [Next]_vars => ScoreConserved'
    BY ConservedStep DEF IInv
  <1>. QED BY <1>1, <1>2, Invariance, PTL DEF Spec
=============================================================================
