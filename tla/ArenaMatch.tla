----------------------------- MODULE ArenaMatch -----------------------------
(***************************************************************************)
(* One-on-one matches of the Unranked ("SUB") division of the GOAT Arena:  *)
(* normal attacks and revenge matches, from their creation to the          *)
(* settlement that moves payback score and ladder seats.                   *)
(*                                                                         *)
(* The actors are the two participants (create, start, finish the          *)
(* questions, upload evidence, claim or forfeit a revenge right), the      *)
(* loops of the ARENA_MATCH_TIMERS scheduler, the administrator who        *)
(* reviews a HELD match, the daily job that ends access cycles, and the    *)
(* clock.  A MongoDB transaction is one action; what a handler reads       *)
(* BEFORE its transaction is kept in `late` and `stale`.                   *)
(***************************************************************************)
EXTENDS ArenaRules, FiniteSets, Functions

CONSTANTS
  Users,          \* participants
  Matches,        \* match ids, created in increasing order
  None,
  InitialSeat,    \* [Users -> Nat \ {0}], injective
  Tier,           \* the tier of a seat
  InitialScore,   \* payback score of each user
  AttackLimit,    \* normal attacks a user may make a day
  DefenseLimit,   \* normal defences a user may be given a day
  Depletable,     \* users whose learning days may run out
  SweepLimit,     \* how many expired attempts holdExpiredEvidence reads
  Races           \* per match: the overlaps the environment allows, see RaceKinds

(***************************************************************************)
(* The overlaps that a run may include or leave out:                       *)
(*   UPLOAD    an evidence upload commits on a match that has ended        *)
(*   STRADDLE  a request whose clock was read before a deadline commits    *)
(*             after that deadline                                         *)
(*   SWEEP     a scheduler loop acts on a decision it read earlier         *)
(* The code excludes none of them.                                         *)
(***************************************************************************)
RaceKinds == {"UPLOAD", "STRADDLE", "SWEEP"}

Seats == {InitialSeat[u] : u \in Users}

ASSUME MatchesAssumption == Matches \subseteq Nat
ASSUME NoneAssumption    == None \notin Users /\ None \notin Matches /\ None \notin Roles
ASSUME SeatAssumption    ==
  /\ InitialSeat \in [Users -> Nat \ {0}]
  /\ \A u, v \in Users : InitialSeat[u] = InitialSeat[v] => u = v
ASSUME TierAssumption    ==   \* a better seat is never of a lower tier
  /\ Tier \in [Seats -> Nat]
  /\ \A s, t \in Seats : s < t => Tier[t] <= Tier[s]
ASSUME ScoreAssumption   == InitialScore \in [Users -> Nat]
ASSUME LimitAssumption   == AttackLimit \in Nat /\ DefenseLimit \in Nat
ASSUME SweepAssumption   == SweepLimit \in Nat \ {0}
ASSUME EnvAssumption     == Depletable \subseteq Users /\ Races \in [Matches -> SUBSET RaceKinds]

VARIABLES
  status,      \* per match: "NONE" before it exists, then ArenaMatch.status
  integrity,   \* per match: ArenaMatch.integrityStatus
  winner,      \* per match: ArenaMatch.winnerRole
  screened,    \* per match: the role whose answers score higher, once both are in
  terms,       \* per match: what creation fixes (kind, parties, seat snapshot)
  attempt,     \* per match and role: ArenaMatchAttempt.status
  evidence,    \* per match and role: "NONE" or ArenaMatchEvidence.status
  ledger,      \* per match: versions of the settlement keys already written
  right,       \* per match: the ArenaRevengeRight its settlement created
  seat,        \* per user: the ladder seat (ArenaStanding)
  score,       \* per user: AccessCycle.paybackScoreDays
  locked,      \* per user: AccessCycle.lockedPaybackScoreDays
  burned,      \* payback score destroyed so far
  lock,        \* per user: the match of the ArenaMatchParticipantLock, or None
  access,      \* per user: ArenaAccessState.integrityStatus
  cycle,       \* per user: the access cycle
  phase,       \* where the clock is in the Arena week
  today,       \* normal matches requested today
  expired,     \* deadlines that have passed
  late,        \* requests that read the clock before a deadline passed
  stale        \* sweep decisions read and not yet carried out

matchVars == <<status, integrity, winner, screened>>
playVars  == <<attempt, evidence>>
moneyVars == <<seat, score, locked, burned, ledger>>
clockVars == <<phase, today, expired>>
vars == <<matchVars, terms, playVars, moneyVars, right, lock, access, cycle,
          clockVars, late, stale>>

-----------------------------------------------------------------------------
(* Domains *)

\* Defects the properties must notice: the statuses of a query that lists what to
\* leave out instead of what to take, and of one that forgets a match is HELD.
AllButSettled == {"READY", "IN_PROGRESS", "SUBMITTED", "CANCELLED"}
HeldToo       == {"READY", "IN_PROGRESS", "SUBMITTED", "HELD"}

InPlay    == {"READY", "IN_PROGRESS", "SUBMITTED"}   \* MATCHED, RESOLVED: never set
Unsettled == InPlay \cup {"HELD"}
Ended     == {"SETTLED", "CANCELLED"}
Statuses  == {"NONE"} \cup Unsettled \cup Ended
Counted   == Unsettled \cup {"SETTLED"}

AttemptStatuses  == {"READY", "IN_PROGRESS", "EVIDENCE_REQUIRED", "SUBMITTED"}
EvidenceStatuses == {"NONE", "ON_TIME", "ANOMALY_FLAGGED", "REVIEWED"}
Phases           == {"OPEN", "REQUEST_LOCKED", "DIVISION_LOCKED"}
Versions         == {"NORMAL", "REVENGE", "INTEGRITY", "CLEAR"}

\* A deadline of a match: "START" (for a revenge match also its completion
\* deadline) or the evidence deadline of a role.
Deadlines == {"START"} \cup Roles

\* What a loop of the scheduler decided: the roles it found missing.
Decisions == [match : Matches, loop : {"EVIDENCE", "START", "REVENGE"},
              missing : SUBSET Roles]

NoTerms == [kind |-> "NORMAL", challenger |-> None, defender |-> None,
            from |-> 0, to |-> 0, source |-> None]
NoRight == [status |-> "NONE", holder |-> "CHALLENGER"]

Challenger(m)  == terms[m].challenger
Defender(m)    == terms[m].defender
Party(m, role) == IF role = "CHALLENGER" THEN Challenger(m) ELSE Defender(m)
Parties(m)     == {Challenger(m), Defender(m)}
StakeOf(m)     == Stake(terms[m].kind)

Finished(m, role)    == attempt[m][role] \in {"EVIDENCE_REQUIRED", "SUBMITTED"}
BothSubmitted(m)     == \A r \in Roles : attempt[m][r] = "SUBMITTED"
FlaggedEvidence(m)   == \E r \in Roles : evidence[m][r] = "ANOMALY_FLAGGED"
DivisionLocked       == phase = "DIVISION_LOCKED"
\* Defect: a HELD match no longer counts as pending, and no lock is consulted.
PendingInPlay(u) == \E m \in Matches : status[m] \in InPlay /\ u \in Parties(m)
PendingSettlement(u) == \/ lock[u] # None
                        \/ \E m \in Matches : status[m] \in Unsettled /\ u \in Parties(m)

Init ==
  /\ status    = [m \in Matches |-> "NONE"]
  /\ integrity = [m \in Matches |-> "PENDING"]
  /\ winner    = [m \in Matches |-> None]
  /\ screened  = [m \in Matches |-> None]
  /\ terms     = [m \in Matches |-> NoTerms]
  /\ attempt   = [m \in Matches |-> [r \in Roles |-> "READY"]]
  /\ evidence  = [m \in Matches |-> [r \in Roles |-> "NONE"]]
  /\ ledger    = [m \in Matches |-> {}]
  /\ right     = [m \in Matches |-> NoRight]
  /\ seat      = InitialSeat
  /\ score     = InitialScore
  /\ locked    = [u \in Users |-> 0]
  /\ burned    = 0
  /\ lock      = [u \in Users |-> None]
  /\ access    = [u \in Users |-> "CLEAR"]
  /\ cycle     = [u \in Users |-> "ACTIVE"]
  /\ phase     = "OPEN"
  /\ today     = {}
  /\ expired   = {}
  /\ late      = {}
  /\ stale     = {}

-----------------------------------------------------------------------------
(* Creating a match *)

\* Defect: the integrity status of the account is not consulted.
EligibleIfPaid(u) == cycle[u] = "ACTIVE" /\ locked[u] = 0

\* loadMatchActorContext: who may take part at all.  locked = 0 is the check of
\* the balance, independent of the participant lock.
Eligible(u) == cycle[u] = "ACTIVE" /\ access[u] = "CLEAR" /\ locked[u] = 0

CountedToday     == {m \in today : status[m] \in Counted}
AttacksToday(u)  == Cardinality({m \in CountedToday : Challenger(m) = u})
DefencesToday(u) == Cardinality({m \in CountedToday : Defender(m) = u})
WonToday(u) == \E m \in CountedToday :
  Challenger(m) = u /\ status[m] = "SETTLED" /\ winner[m] = "CHALLENGER"

NextMatch(m) == status[m] = "NONE" /\ \A k \in Matches : k < m => status[k] # "NONE"

\* What both creation transactions write.
Open(m, kind, c, d, src) ==
  /\ status' = [status EXCEPT ![m] = "READY"]
  /\ terms'  = [terms EXCEPT ![m] = [kind |-> kind, challenger |-> c, defender |-> d,
                                     from |-> seat[c], to |-> seat[d],
                                     source |-> src]]
  /\ lock'   = [lock EXCEPT ![c] = m, ![d] = m]
  /\ score'  = [score EXCEPT ![c] = @ - Stake(kind)]
  /\ locked' = [locked EXCEPT ![c] = @ + Stake(kind)]
  /\ UNCHANGED <<integrity, winner, screened, playVars, seat, burned, ledger,
                 access, cycle, phase, expired, late, stale>>

CreateNormal(m, c, d) ==
  /\ phase = "OPEN" /\ NextMatch(m) /\ c # d
  /\ Eligible(c) /\ Eligible(d)
  /\ score[c] >= NormalStake
  /\ ~ WonToday(c) /\ ~ WonToday(d)
  /\ AttacksToday(c) < AttackLimit
  /\ DefencesToday(d) < DefenseLimit
  /\ TierPairAllowed(Tier[seat[c]], Tier[seat[d]])
  /\ UpwardDirection(Tier[seat[c]], seat[c], Tier[seat[d]], seat[d])
  /\ ~ PendingSettlement(c) /\ ~ PendingSettlement(d)
  /\ Open(m, "NORMAL", c, d, None)
  /\ today' = today \cup {m}
  /\ UNCHANGED right

\* The loser of `src` claims the revenge right.  Only the participant locks are
\* consulted, not the unsettled matches.
CreateRevenge(m, src) ==
  LET c == Party(src, right[src].holder)
      d == Party(src, Other(right[src].holder))
  IN
  /\ phase = "OPEN" /\ NextMatch(m)
  /\ right[src].status = "AVAILABLE" /\ status[src] = "SETTLED"
  /\ Eligible(c) /\ Eligible(d)
  /\ score[c] >= RevengeStake
  /\ TierPairAllowed(Tier[seat[c]], Tier[seat[d]])
  /\ lock[c] = None /\ lock[d] = None
  /\ Open(m, "REVENGE", c, d, src)
  /\ right' = [right EXCEPT ![src].status = "CLAIMED"]
  /\ UNCHANGED today

ForfeitRight(src) ==
  /\ right[src].status = "AVAILABLE"
  /\ right' = [right EXCEPT ![src].status = "FORFEITED"]
  /\ UNCHANGED <<matchVars, terms, playVars, moneyVars, lock, access, cycle,
                 clockVars, late, stale>>

-----------------------------------------------------------------------------
(* Playing a match *)

\* A request for which `deadline` of m matters: its clock was read in time.
InTime(m, role, deadlines) ==
  \/ <<m, role>> \in late
  \/ \A d \in deadlines : <<m, d>> \notin expired

\* startArenaMatchAttempt.  A HELD match that an administrator found clean is
\* reopened by the start.
StartAttempt(m, role) ==
  /\ attempt[m][role] = "READY"
  /\ \/ status[m] \in {"READY", "IN_PROGRESS"}
     \/ status[m] = "HELD" /\ integrity[m] = "CLEAR"
  /\ InTime(m, role, {"START"})
  /\ phase = "OPEN" \/ <<m, role>> \in late
  /\ attempt' = [attempt EXCEPT ![m][role] = "IN_PROGRESS"]
  /\ status'  = [status EXCEPT ![m] = "IN_PROGRESS"]
  /\ late'    = late \ {<<m, role>>}
  /\ UNCHANGED <<integrity, winner, screened, terms, evidence, moneyVars, right, lock,
                 access, cycle, clockVars, stale>>

\* The last question is answered, or its time is up and the scheduler submits
\* it: the evidence window opens.  The status of the match is not consulted.
FinishQuestions(m, role) ==
  /\ attempt[m][role] = "IN_PROGRESS" /\ ~ DivisionLocked
  /\ attempt' = [attempt EXCEPT ![m][role] = "EVIDENCE_REQUIRED"]
  /\ UNCHANGED <<matchVars, terms, evidence, moneyVars, right, lock, access, cycle,
                 clockVars, late, stale>>

\* What submitArenaMatchEvidence checks.  The last conjunct is the environment's:
\* the code does not look at the status of the match.
MayUpload(m, role) ==
  /\ attempt[m][role] = "EVIDENCE_REQUIRED"
  /\ InTime(m, role, IF terms[m].kind = "REVENGE" THEN {role, "START"} ELSE {role})
  /\ ~ DivisionLocked \/ <<m, role>> \in late
  /\ status[m] \in Ended => "UPLOAD" \in Races[m]

\* The opponent has not submitted yet.  Beside one whose evidence window is still
\* open the match is set back to IN_PROGRESS, whatever its status was.  (The branch
\* for a HELD match waits for a to-do that nothing in the repository creates.)
UploadFirst(m, role) ==
  LET other   == attempt[m][Other(role)]
      resumes == other = "EVIDENCE_REQUIRED"
  IN
  /\ MayUpload(m, role) /\ other # "SUBMITTED"
  /\ attempt'   = [attempt EXCEPT ![m][role] = "SUBMITTED"]
  /\ evidence'  = [evidence EXCEPT ![m][role] = "ON_TIME"]
  /\ status'    = [status EXCEPT ![m] = IF resumes THEN "IN_PROGRESS" ELSE @]
  /\ integrity' = [integrity EXCEPT ![m] = IF resumes THEN "PENDING" ELSE @]
  /\ late'      = late \ {<<m, role>>}
  /\ UNCHANGED <<winner, screened, terms, moneyVars, right, lock, access, cycle,
                 clockVars, stale>>

\* The second upload scores both attempts; the evidence of the provisional
\* winner `best` is screened, and `flagged` says whether it looks anomalous.
UploadSecond(m, role, best, flagged) ==
  /\ MayUpload(m, role) /\ attempt[m][Other(role)] = "SUBMITTED"
  /\ attempt'   = [attempt EXCEPT ![m][role] = "SUBMITTED"]
  /\ screened'  = [screened EXCEPT ![m] = best]
  /\ evidence'  = [evidence EXCEPT ![m] = [r \in Roles |->
                     IF r = best /\ flagged THEN "ANOMALY_FLAGGED" ELSE "ON_TIME"]]
  /\ status'    = [status EXCEPT ![m] = IF flagged THEN "HELD" ELSE "SUBMITTED"]
  /\ integrity' = [integrity EXCEPT ![m] = IF flagged THEN "SUSPICIOUS" ELSE "CLEAR"]
  /\ access'    = [u \in Users |-> IF flagged /\ u \in Parties(m)
                                   THEN "REVIEW_REQUIRED" ELSE access[u]]
  /\ late'      = late \ {<<m, role>>}
  /\ UNCHANGED <<winner, terms, moneyVars, right, lock, cycle, clockVars, stale>>

-----------------------------------------------------------------------------
(* Ending a match: the transactions of arenaMatchSettlementService *)

\* The standings and cycles the settlement reads are those creation fixed.
SourceIntact(m) ==
  /\ seat[Challenger(m)] = terms[m].from
  /\ seat[Defender(m)] = terms[m].to
  /\ \A u \in Parties(m) : cycle[u] # "EXPIRED"
  /\ locked[Challenger(m)] >= StakeOf(m)

\* putSettlementHold
Hold(m) ==
  /\ status'    = [status EXCEPT ![m] = "HELD"]
  /\ integrity' = [integrity EXCEPT ![m] = "SUSPICIOUS"]
  /\ UNCHANGED <<winner, screened, terms, playVars, moneyVars, right, lock, access,
                 cycle, clockVars, late>>

\* Defects: the second write of a swap, or of an unlock, is missing.
SwappedHalf(m)  == [seat EXCEPT ![Challenger(m)] = seat[Defender(m)]]
UnlockedHalf(m) == lock' = [lock EXCEPT ![Challenger(m)] = None]

\* writeTupleSwap
Swapped(m) == [seat EXCEPT ![Challenger(m)] = seat[Defender(m)],
                           ![Defender(m)]   = seat[Challenger(m)]]

Unlock(m) == lock' = [u \in Users |-> IF lock[u] = m THEN None ELSE lock[u]]

\* Move the stake and the seats of m as `plan` says.  The ledger rows have a
\* unique key per match and version: a second writer aborts its transaction.
PayOut(m, plan, version, fined) ==
  LET paid == [u \in Users |->
                 score[u] + (IF u = Challenger(m) THEN plan.toChallenger ELSE 0)
                          + (IF u = Defender(m) THEN plan.toDefender ELSE 0)]
      fine == [r \in Roles |-> IF r \in fined THEN PenaltyBurn(paid[Party(m, r)]) ELSE 0]
  IN
  /\ version \notin ledger[m]
  /\ ledger' = [ledger EXCEPT ![m] = @ \cup {version}]
  /\ seat'   = IF plan.swap THEN Swapped(m) ELSE seat
  /\ locked' = [locked EXCEPT ![Challenger(m)] = @ - StakeOf(m)]
  /\ score'  = [u \in Users |->
                 paid[u] - (IF u = Challenger(m) THEN fine["CHALLENGER"] ELSE 0)
                         - (IF u = Defender(m) THEN fine["DEFENDER"] ELSE 0)]
  /\ burned' = burned + plan.burn + fine["CHALLENGER"] + fine["DEFENDER"]

\* The match ends as SETTLED or CANCELLED and its participants are free again.
End(m, how, verdict, role) ==
  /\ status'    = [status EXCEPT ![m] = how]
  /\ integrity' = [integrity EXCEPT ![m] = verdict]
  /\ winner'    = [winner EXCEPT ![m] = role]
  /\ Unlock(m)
  /\ UNCHANGED <<screened, terms, attempt, cycle, clockVars, late>>

\* Every settlement by result creates the same outbox event, as an integrity
\* settlement did before it: the duplicate key aborts the transaction.
EventFree(m) == "INTEGRITY" \notin ledger[m]

\* settleSubNormalMatch once it has a winner.  `forced` is a sweep's verdict:
\* no revenge right comes of it.
NormalResult(m, role, forced) ==
  \/ ~ SourceIntact(m) /\ Hold(m)
  \/ /\ SourceIntact(m) /\ EventFree(m)
     /\ PayOut(m, NormalPlan(role, Tier[terms[m].from]), "NORMAL", {})
     /\ End(m, "SETTLED", "CLEAR", role)
     /\ right' = IF forced \/ right[m].status # "NONE" THEN right
                ELSE [right EXCEPT ![m] = [status |-> "AVAILABLE", holder |-> Other(role)]]
     /\ UNCHANGED <<evidence, access>>

\* settleSubRevengeOutcome once it has an outcome.
RevengeResult(m, outcome, role) ==
  \/ ~ SourceIntact(m) /\ Hold(m)
  \/ /\ SourceIntact(m) /\ EventFree(m)
     /\ PayOut(m, RevengePlan(outcome), "REVENGE", {})
     /\ End(m, "SETTLED", "CLEAR", role)
     /\ right' = [right EXCEPT ![terms[m].source].status = "CONSUMED"]
     /\ UNCHANGED <<evidence, access>>

Unreviewed(m) == FlaggedEvidence(m) \/ integrity[m] # "CLEAR"

\* settleArenaMatch: called after the second upload, after a CLEAR review, and
\* by the administrator's SETTLEMENT_RETRY.  It decides by the scores.
SettleByScore(m) ==
  /\ status[m] = "SUBMITTED"
  /\ \/ DivisionLocked /\ Hold(m)
     \/ terms[m].kind = "NORMAL" /\ ~ BothSubmitted(m) /\ Hold(m)
     \/ BothSubmitted(m) /\ Unreviewed(m) /\ Hold(m)
     \/ /\ ~ DivisionLocked /\ BothSubmitted(m) /\ ~ Unreviewed(m)
        /\ \/ terms[m].kind = "NORMAL" /\ NormalResult(m, screened[m], FALSE)
           \/ /\ terms[m].kind = "REVENGE"
              /\ RevengeResult(m, IF screened[m] = "CHALLENGER" THEN "ATTACKER_WIN"
                                  ELSE "DEFENDER_WIN", screened[m])

Settle(m) == SettleByScore(m) /\ UNCHANGED stale

\* A sweep found the roles `missing` (one of them) absent from a normal match.
Forfeit(m, missing) ==
  /\ status[m] \notin {"SETTLED", "HELD"}
  /\ \E r \in missing : missing = {r} /\ NormalResult(m, Other(r), TRUE)

\* cancelSubNormalNoStart: neither participant played; the stake goes back.
CancelNoStart(m) ==
  /\ status[m] \notin Ended \cup {"HELD"}
  /\ cycle[Challenger(m)] # "EXPIRED" /\ locked[Challenger(m)] >= StakeOf(m)
  /\ PayOut(m, Plan(FALSE, StakeOf(m), 0, 0), "NORMAL", {})
  /\ End(m, "CANCELLED", "CLEAR", winner[m])
  /\ UNCHANGED <<evidence, right, access>>

NoShowOutcome(missing) ==
  IF missing = {"CHALLENGER"} THEN "ATTACKER_NO_SHOW"
  ELSE IF missing = {"DEFENDER"} THEN "DEFENDER_NO_SHOW" ELSE "BOTH_NO_SHOW"

\* settleSubRevengeNoShow.  `early` waives the completion deadline.
RevengeNoShow(m, missing, early) ==
  LET present == Roles \ missing
  IN
  /\ status[m] \notin {"SETTLED", "HELD"}
  /\ \/ DivisionLocked /\ Hold(m)
     \/ /\ ~ DivisionLocked
        /\ early \/ <<m, "START">> \in expired
        /\ \/ /\ \E r \in present : evidence[m][r] = "ANOMALY_FLAGGED"
              /\ Hold(m)
           \/ /\ \A r \in present : evidence[m][r] # "ANOMALY_FLAGGED"
              /\ RevengeResult(m, NoShowOutcome(missing),
                    IF missing = {"CHALLENGER"} THEN "DEFENDER"
                    ELSE IF missing = {"DEFENDER"} THEN "CHALLENGER" ELSE None)

-----------------------------------------------------------------------------
(* The loops of the ARENA_MATCH_TIMERS scheduler *)

\* Defects: the deadline alone decides; a missing upload counts only beside another.
MissedDeadline(m)     == {r \in Roles : <<m, r>> \in expired}
MissingBesideOther(m) == {r \in Roles : /\ attempt[m][r] = "EVIDENCE_REQUIRED" /\ <<m, r>> \in expired
                                       /\ attempt[m][Other(r)] = "SUBMITTED"}

MissingEvidence(m) == {r \in Roles : attempt[m][r] = "EVIDENCE_REQUIRED" /\ <<m, r>> \in expired}
Unstarted(m)       == {r \in Roles : attempt[m][r] = "READY"}
Incomplete(m)      == {r \in Roles : attempt[m][r] # "SUBMITTED"}

\* holdExpiredEvidence: a role let its evidence window close.
EvidenceOverdue(m, missing) ==
  /\ status[m] \in InPlay
  /\ \A r \in Roles : Finished(m, r)
  /\ missing = MissingEvidence(m) /\ missing # {}

\* holdExpiredMatchStarts: a role never started a normal match.
StartOverdue(m, missing) ==
  /\ terms[m].kind = "NORMAL" /\ status[m] \in {"READY", "IN_PROGRESS"}
  /\ <<m, "START">> \in expired
  /\ missing = Unstarted(m) /\ missing # {}

\* settleExpiredSubRevengeMatches: a revenge match ran out of time.
RevengeOverdue(m, missing) ==
  /\ terms[m].kind = "REVENGE" /\ status[m] \in InPlay
  /\ <<m, "START">> \in expired
  /\ missing = Incomplete(m)

Overdue(d) ==
  \/ d.loop = "EVIDENCE" /\ EvidenceOverdue(d.match, d.missing)
  \/ d.loop = "START"    /\ StartOverdue(d.match, d.missing)
  \/ d.loop = "REVENGE"  /\ RevengeOverdue(d.match, d.missing)

\* The decision is taken on documents read outside the transaction.  At most
\* one is outstanding (the model's bound).
SweepRead(d) ==
  /\ "SWEEP" \in Races[d.match] /\ stale = {}
  /\ Overdue(d)
  /\ stale' = {d}
  /\ UNCHANGED <<matchVars, terms, playVars, moneyVars, right, lock, access, cycle,
                 clockVars, late>>

CarryOut(d) ==
  \/ /\ terms[d.match].kind = "NORMAL"
     /\ IF d.missing = Roles THEN CancelNoStart(d.match) ELSE Forfeit(d.match, d.missing)
  \/ /\ terms[d.match].kind = "REVENGE" /\ d.missing # {}
     /\ RevengeNoShow(d.match, d.missing, d.loop = "EVIDENCE")
  \/ /\ terms[d.match].kind = "REVENGE" /\ d.missing = {}
     /\ SettleByScore(d.match)

SweepAct(d) ==
  /\ Overdue(d) \/ d \in stale
  /\ CarryOut(d)
  /\ stale' = stale \ {d}

\* The transaction aborts or finds nothing to do, or the process dies.
SweepAbandon(d) ==
  /\ d \in stale /\ stale' = stale \ {d}
  /\ UNCHANGED <<matchVars, terms, playVars, moneyVars, right, lock, access, cycle,
                 clockVars, late>>

\* holdSundayCutoffMatches
\* Defect: a match waiting for its settlement is not cut off.
CutOffUnscored == {"READY", "IN_PROGRESS"}

CutOffStatuses == InPlay

SundayCutoff(m) ==
  /\ DivisionLocked /\ status[m] \in CutOffStatuses
  /\ status'    = [status EXCEPT ![m] = "HELD"]
  /\ integrity' = [integrity EXCEPT ![m] = IF @ = "SUSPICIOUS" THEN @ ELSE "PENDING"]
  /\ UNCHANGED <<winner, screened, terms, playVars, moneyVars, right, lock, access,
                 cycle, clockVars, late, stale>>

-----------------------------------------------------------------------------
(* The administrator reviews a HELD match: reviewHeldArenaMatch *)

\* Defects: the review marks, or releases, the challenger alone.
ReviewedHalf(m) == evidence' = [evidence EXCEPT ![m]["CHALLENGER"] =
                                  IF @ = "NONE" THEN @ ELSE "REVIEWED"]
ReleasedHalf(m, cheaters) ==
  access' = [access EXCEPT ![Challenger(m)] =
               IF "CHALLENGER" \in cheaters THEN "RESTRICTED" ELSE "CLEAR"]

Reviewed(m) == evidence' = [evidence EXCEPT ![m] = [r \in Roles |->
                              IF @[r] = "NONE" THEN "NONE" ELSE "REVIEWED"]]

FlaggedElsewhere(u, m) ==
  \E k \in Matches \ {m}, r \in Roles :
    Party(k, r) = u /\ evidence[k][r] = "ANOMALY_FLAGGED"

\* resolveIntegrityAccessAfterMatchReview, for both participants
ReleaseAccess(m, cheaters) ==
  access' = [u \in Users |->
    IF u \notin Parties(m)                       THEN access[u]
    ELSE IF \E r \in cheaters : u = Party(m, r) THEN "RESTRICTED"
    ELSE IF FlaggedElsewhere(u, m)              THEN access[u]
    ELSE                                             "CLEAR"]

CompleteInputs(m)  == \A r \in Roles : attempt[m][r] = "SUBMITTED" /\ evidence[m][r] # "NONE"
Unscorable(m) ==
  \/ \A r \in Roles : Finished(m, r)
  \/ \E r \in Roles : Finished(m, r) /\ evidence[m][r] = "NONE" /\ <<m, r>> \in expired

\* cancelClearedUnscorableMatch: there is no winner and the stake goes back.
CancelUnscorable(m) ==
  /\ locked[Challenger(m)] >= StakeOf(m) /\ cycle[Challenger(m)] # "EXPIRED"
  /\ PayOut(m, Plan(FALSE, StakeOf(m), 0, 0), "CLEAR", {})
  /\ End(m, "CANCELLED", "CLEAR", winner[m])

\* CLEAR: score it if both uploads are in; cancel it if it can no longer be
\* scored; otherwise it stays HELD, or goes back into play.
ReviewClear(m) ==
  /\ status[m] = "HELD"
  /\ Reviewed(m) /\ ReleaseAccess(m, {})
  /\ \/ ~ CompleteInputs(m) /\ Unscorable(m) /\ CancelUnscorable(m)
     \/ /\ CompleteInputs(m) \/ ~ Unscorable(m)
        /\ integrity' = [integrity EXCEPT ![m] = "CLEAR"]
        /\ status' = [status EXCEPT ![m] =
             IF CompleteInputs(m)        THEN "SUBMITTED"
             ELSE IF ~ FlaggedEvidence(m) THEN "HELD"
             ELSE IF \E r \in Roles : attempt[m][r] # "READY"
                                         THEN "IN_PROGRESS"
             ELSE                             "READY"]
        /\ UNCHANGED <<winner, screened, terms, attempt, moneyVars, lock, cycle,
                       clockVars, late>>
  /\ UNCHANGED <<right, stale>>

\* settleConfirmedMatchCheating
SettleCheating(m, cheaters) ==
  /\ SourceIntact(m)
  /\ PayOut(m, IntegrityPlan(cheaters, StakeOf(m)), "INTEGRITY", cheaters)
  /\ End(m, "SETTLED", "CONFIRMED",
         IF cheaters = {"CHALLENGER"} THEN "DEFENDER"
         ELSE IF cheaters = {"DEFENDER"} THEN "CHALLENGER" ELSE None)

\* Cheating confirmed: the settlement, then the penalties.
ReviewCheating(m, cheaters) ==
  /\ status[m] = "HELD" /\ \A r \in Roles : Finished(m, r)
  /\ SettleCheating(m, cheaters)
  /\ Reviewed(m) /\ ReleaseAccess(m, cheaters)
  /\ UNCHANGED <<right, stale>>

\* The five days of a restriction are over (applied when next consulted).
PenaltyOver(u) ==
  /\ access[u] = "RESTRICTED"
  /\ access' = [access EXCEPT ![u] = "CLEAR"]
  /\ UNCHANGED <<matchVars, terms, playVars, moneyVars, right, lock, cycle, clockVars,
                 late, stale>>

-----------------------------------------------------------------------------
(* Learning days and the clock *)

\* The daily job takes the last learning day, match or no match.
Deplete(u) ==
  /\ u \in Depletable /\ cycle[u] = "ACTIVE"
  /\ cycle' = [cycle EXCEPT ![u] = "DEPLETED"]
  /\ UNCHANGED <<matchVars, terms, playVars, moneyVars, right, lock, access, clockVars,
                 late, stale>>

\* applyExpirationTransition: nothing of an unsettled match may be lost.
ExpireCycle(u) ==
  /\ cycle[u] = "DEPLETED" /\ locked[u] = 0 /\ ~ PendingSettlement(u)
  /\ cycle' = [cycle EXCEPT ![u] = "EXPIRED"]
  /\ UNCHANGED <<matchVars, terms, playVars, moneyVars, right, lock, access, clockVars,
                 late, stale>>

\* Requests that read the clock before a deadline and commit after it.
Straddles(requests) == \A q \in requests : "STRADDLE" \in Races[q[1]]

Starting(m)  == {<<m, r>> : r \in {x \in Roles : attempt[m][x] = "READY"}}
Uploading(m) == {<<m, r>> : r \in {x \in Roles : attempt[m][x] = "EVIDENCE_REQUIRED"}}

Created == {m \in Matches : status[m] # "NONE"}

StartDeadline(m) ==
  /\ status[m] \in Unsettled /\ <<m, "START">> \notin expired
  /\ expired' = expired \cup {<<m, "START">>}
  /\ \E requests \in SUBSET (Starting(m) \cup
          (IF terms[m].kind = "REVENGE" THEN Uploading(m) ELSE {})) :
       Straddles(requests) /\ late' = late \cup requests
  /\ UNCHANGED <<matchVars, terms, playVars, moneyVars, right, lock, access, cycle,
                 phase, today, stale>>

EvidenceDeadline(m, role) ==
  /\ attempt[m][role] = "EVIDENCE_REQUIRED" /\ <<m, role>> \notin expired
  /\ expired' = expired \cup {<<m, role>>}
  /\ \E requests \in SUBSET {<<m, role>>} :
       Straddles(requests) /\ late' = late \cup requests
  /\ UNCHANGED <<matchVars, terms, playVars, moneyVars, right, lock, access, cycle,
                 phase, today, stale>>

\* Sunday 14:00, at which every start deadline has passed.
LockRequests ==
  /\ phase = "OPEN" /\ phase' = "REQUEST_LOCKED"
  /\ expired' = expired \cup {<<m, "START">> : m \in Created}
  /\ \E requests \in SUBSET UNION {Starting(m) : m \in Created} :
       Straddles(requests) /\ late' = late \cup requests
  /\ UNCHANGED <<matchVars, terms, playVars, moneyVars, right, lock, access, cycle,
                 today, stale>>

\* Sunday 15:00
LockDivision ==
  /\ phase = "REQUEST_LOCKED" /\ phase' = "DIVISION_LOCKED"
  /\ \E requests \in SUBSET UNION {Uploading(m) : m \in Created} :
       Straddles(requests) /\ late' = late \cup requests
  /\ UNCHANGED <<matchVars, terms, playVars, moneyVars, right, lock, access, cycle,
                 expired, today, stale>>

\* Monday 00:00: no evidence window and no request is nine hours long.
Unlocked ==
  /\ phase = "DIVISION_LOCKED" /\ phase' = "OPEN"
  /\ expired' = expired \cup UNION {Uploading(m) : m \in Created}
  /\ late' = {} /\ today' = {}
  /\ UNCHANGED <<matchVars, terms, playVars, moneyVars, right, lock, access, cycle,
                 stale>>

NewDay ==
  /\ phase = "OPEN" /\ today # {} /\ today' = {}
  /\ UNCHANGED <<matchVars, terms, playVars, moneyVars, right, lock, access, cycle,
                 phase, expired, late, stale>>

-----------------------------------------------------------------------------
Participant ==
  \E m \in Matches :
    \/ \E c, d \in Users : CreateNormal(m, c, d)
    \/ \E src \in Matches : CreateRevenge(m, src)
    \/ ForfeitRight(m)
    \/ \E r \in Roles : \/ StartAttempt(m, r)
                       \/ FinishQuestions(m, r)
                       \/ UploadFirst(m, r)
                       \/ \E best \in Roles, flagged \in BOOLEAN :
                            UploadSecond(m, r, best, flagged)

Scheduler ==
  \/ \E d \in Decisions : SweepRead(d) \/ SweepAct(d) \/ SweepAbandon(d)
  \/ \E m \in Matches : SundayCutoff(m)
  \/ \E u \in Users : Deplete(u) \/ ExpireCycle(u)

Administrator ==
  \/ \E m \in Matches : \/ Settle(m)
                        \/ ReviewClear(m)
                        \/ \E cheaters \in SUBSET Roles \ {{}} : ReviewCheating(m, cheaters)
  \/ \E u \in Users : PenaltyOver(u)

Clock ==
  \/ \E m \in Matches : \/ StartDeadline(m)
                        \/ \E r \in Roles : EvidenceDeadline(m, r)
  \/ LockRequests \/ LockDivision \/ Unlocked \/ NewDay

Next == Participant \/ Scheduler \/ Administrator \/ Clock

Spec == Init /\ [][Next]_vars

\* holdExpiredEvidence reads SweepLimit of the attempts whose evidence is overdue,
\* in no order.  Those of a match that has been forfeited or is held stay among
\* them for good, so only while there are no more is every one sure to be reached.
ExpiredAttempts == UNION {{<<m, r>> : r \in MissingEvidence(m)} : m \in Matches}
BatchHoldsAll   == Cardinality(ExpiredAttempts) <= SweepLimit

EvidenceSweep(m) ==
  \E d \in Decisions : d.match = m /\ d.loop = "EVIDENCE" /\ SweepAct(d)

\* Deadlines pass; the evidence sweep comes every 30 seconds; and so, for the nine
\* hours of every Sunday lock, does the cut-off, whose own query a match leaves as
\* soon as it is held.  Nothing is assumed of the other loops, whose batches may be
\* full as well, of participants and administrators, nor of the settleArenaMatch
\* that follows an upload: the process may die in between.
Fairness ==
  \A m \in Matches :
    /\ WF_vars(StartDeadline(m) \/ \E r \in Roles : EvidenceDeadline(m, r))
    /\ WF_vars(BatchHoldsAll /\ EvidenceSweep(m))
    /\ SF_vars(SundayCutoff(m))

LiveSpec == Spec /\ Fairness

-----------------------------------------------------------------------------
(* Properties *)

Terms == [kind : {"NORMAL", "REVENGE"},
          challenger : Users \cup {None}, defender : Users \cup {None},
          from : Nat, to : Nat, source : Matches \cup {None}]
Rights == [status : {"NONE", "AVAILABLE", "CLAIMED", "CONSUMED", "FORFEITED"},
           holder : Roles]

\* Every variable has its type; in particular no balance is ever negative,
\* whatever two settlements do to the same access cycle.
TypeOK ==
  /\ status    \in [Matches -> Statuses]
  /\ integrity \in [Matches -> {"PENDING", "CLEAR", "SUSPICIOUS", "CONFIRMED"}]
  /\ winner    \in [Matches -> Roles \cup {None}]
  /\ screened  \in [Matches -> Roles \cup {None}]
  /\ terms     \in [Matches -> Terms]
  /\ attempt   \in [Matches -> [Roles -> AttemptStatuses]]
  /\ evidence  \in [Matches -> [Roles -> EvidenceStatuses]]
  /\ ledger    \in [Matches -> SUBSET Versions]
  /\ right     \in [Matches -> Rights]
  /\ seat      \in [Users -> Seats]
  /\ score     \in [Users -> Nat]
  /\ locked    \in [Users -> Nat]
  /\ burned    \in Nat
  /\ lock      \in [Users -> Matches \cup {None}]
  /\ access    \in [Users -> {"CLEAR", "REVIEW_REQUIRED", "RESTRICTED"}]
  /\ cycle     \in [Users -> {"ACTIVE", "DEPLETED", "EXPIRED"}]
  /\ phase     \in Phases
  /\ today     \subseteq Matches
  /\ expired   \subseteq Matches \X Deadlines
  /\ late      \subseteq Matches \X Roles
  /\ stale     \subseteq Decisions

\* Two users never sit on the same rung of the ladder: the swaps of concurrent
\* and repeated settlements keep the standings a permutation.
SeatsDistinct == \A u, v \in Users : seat[u] = seat[v] => u = v

\* A participant lock belongs to a match that is still to be settled, its holder
\* takes part in it, the opponent holds the same lock, and neither participant's
\* access cycle ends under the match.
LocksAreLive ==
  \A u \in Users : lock[u] # None =>
    LET m == lock[u] IN
    /\ status[m] \in Unsettled
    /\ u \in Parties(m)
    /\ \A v \in Parties(m) : lock[v] = m /\ cycle[v] # "EXPIRED"

\* Anomalous evidence never decides a match before a human has seen it: while a
\* piece of evidence is flagged its match is HELD as suspicious, whatever
\* uploads, sweeps, retries and the Sunday cut-off do.
FlaggedEvidenceIsHeld ==
  \A m \in Matches : FlaggedEvidence(m) =>
    status[m] = "HELD" /\ integrity[m] = "SUSPICIOUS" /\ BothSubmitted(m)

\* Nobody stays barred from the Arena without a review that can release them:
\* REVIEW_REQUIRED points at a HELD match of that user with flagged evidence.
BarredUsersHaveAReview ==
  \A u \in Users : access[u] = "REVIEW_REQUIRED" =>
    \E m \in Matches : u \in Parties(m) /\ status[m] = "HELD" /\ FlaggedEvidence(m)

\* The winner of a normal match never ends on a worse seat than before it.
WinnerIsNotDemoted ==
  [][\A m \in Matches, r \in Roles :
       /\ terms[m].kind = "NORMAL"
       /\ status[m] # "SETTLED" /\ status'[m] = "SETTLED" /\ winner'[m] = r
       => seat'[Party(m, r)] <= seat[Party(m, r)]]_vars

\* What creation fixed stays as it was until the match ends: the seats have not
\* moved, the stake is still deposited, both users are locked to this match and
\* neither cycle has expired.  So nobody is in two unsettled matches, and
\* SETTLEMENT_SOURCE_CHANGED never fires.
UnsettledMatchIsIntact ==
  \A m \in Matches : status[m] \in Unsettled =>
    SourceIntact(m) /\ \A u \in Parties(m) : lock[u] = m

\* A match that was settled or cancelled stays so.
EndedForGood ==
  [][\A m \in Matches : status[m] \in Ended => status'[m] = status[m]]_vars

\* Payback score is neither created nor lost: what the users have, what is
\* deposited and what was burned always add up to what they started with.
Worth == [u \in Users |-> score[u] + locked[u]]

ScoreConserved ==
  SumFunctionOnSet(Worth, Users) + burned = SumFunctionOnSet(InitialScore, Users)

\* Exactly the matches that ended were paid out, and each of them once.
PaidOutOnce ==
  \A m \in Matches : Cardinality(ledger[m]) = IF status[m] \in Ended THEN 1 ELSE 0

\* A sweep can always carry out what it finds due.  It has no handler around a
\* single match: one whose transaction aborts at every tick would keep the loop
\* from ever reaching the matches after it.
SweepNeverAborts ==
  \A d \in Decisions : Overdue(d) => ENABLED CarryOut(d)

\* A penalty is served: RESTRICTED is lifted by the passing of its five days, not
\* by the review of another match or by a new suspicion.
PenaltyIsServed ==
  [][\A u \in Users : access[u] = "RESTRICTED" /\ access'[u] # "RESTRICTED"
       => PenaltyOver(u)]_vars

\* From Sunday 15:00 to Monday 00:00 no standing moves.
SundayFreeze == [][DivisionLocked => seat' = seat]_vars

\* A normal match in which neither participant uploaded evidence in time ends
\* without a winner.
BothMissingIsCancelled ==
  \A m \in Matches :
    /\ terms[m].kind = "NORMAL" /\ MissingEvidence(m) = Roles
    /\ status[m] = "SETTLED" /\ integrity[m] # "CONFIRMED"
    => FALSE

\* Nobody who uploaded evidence loses a normal match to somebody who did not.
UploaderIsNotForfeited ==
  \A m \in Matches, r \in Roles :
    /\ terms[m].kind = "NORMAL" /\ status[m] = "SETTLED" /\ integrity[m] = "CLEAR"
    /\ attempt[m][r] = "SUBMITTED" /\ attempt[m][Other(r)] # "SUBMITTED"
    => winner[m] = r

\* No match stays in play for ever, whoever walks away from it and wherever the
\* process dies: as Sundays come and go, the sweeps or the Sunday cut-off settle,
\* cancel or hold it.
ComesToRest ==
  ([]<>DivisionLocked) =>
    \A m \in Matches : status[m] \in InPlay ~> status[m] \in Ended \cup {"HELD"}

\* Once both players have finished their questions, a match one of them never
\* uploads for ends by itself, and during the week: it need not wait for the Sunday
\* cut-off, after which an administrator would have to decide it.  So it is while the
\* overdue attempts, with those that earlier matches have left behind, fit one batch.
MissingEvidenceIsDecided ==
  \A m \in Matches :
    (status[m] \in InPlay /\ \A r \in Roles : Finished(m, r))
      ~> (BothSubmitted(m) \/ status[m] \in Ended \/ DivisionLocked \/ ~ BatchHoldsAll)

=============================================================================
