---------------------------- MODULE RankTakeover ----------------------------
(***************************************************************************)
(* Rank takeovers: a challenger stakes days on a match for the seat of     *)
(* somebody above.  A win exchanges the two seats and burns the stake; a   *)
(* loss pays it to the defender; and who lost a seat may take revenge for  *)
(* it once.                                                                *)
(*                                                                         *)
(* What a participant hands in leaves an intent, which scoring workers     *)
(* deliver: score the attempt, write the result, resolve the match when    *)
(* both results are there, settle it, and publish the intent, each in a    *)
(* transaction of its own.  A worker may die or stall between any two of   *)
(* them, and the intent is claimed again.                                  *)
(*                                                                         *)
(* A command is one transaction, and of two that interfere both write the  *)
(* same match or the same access cycle, so that it is one step.  Deadlines *)
(* and the term of a right are passed at any time; what only restricts     *)
(* who may be challenged when (caps, cooldown, protection) is left out.    *)
(***************************************************************************)
EXTENDS Integers, FiniteSets

CONSTANTS
    Contenders,
    Vacant,
    FirstSeat,      \* the seat (arenaPosition) a contender begins with; 1 is the highest
    FirstDays,      \* the challenge days a contender begins with
    Takeovers,      \* bound: the matches that are ever requested
    NormalCosts,    \* the stakes of a normal challenge
    RevengeCosts,   \* the stakes of a revenge
    RevengeBurn,    \* revengeFeeBurnDays
    Scorers,        \* the workers that deliver intents
    MaxTries,       \* DEFAULT_MAX_ATTEMPTS of an intent
    MaxMishaps      \* bound: how many crashes, stalls and failures there are

NoSource == 0

ASSUME ContendersAssumption ==
    /\ Vacant \notin Contenders \cup Scorers
    /\ FirstSeat \in [Contenders -> Nat]
    /\ \A u, v \in Contenders : u # v => FirstSeat[u] # FirstSeat[v]
    /\ FirstDays \in [Contenders -> Nat]

ASSUME CostsAssumption ==
    /\ NormalCosts \subseteq Nat \ {0}
    /\ RevengeBurn \in Nat
    /\ \A k \in RevengeCosts : k \in Nat /\ k > RevengeBurn

ASSUME BoundsAssumption ==
    /\ Takeovers \subseteq Nat \ {NoSource}
    /\ MaxTries \in Nat \ {0}
    /\ MaxMishaps \in Nat

VARIABLES
    takeover,       \* RankTakeoverMatch
    clock,          \* clock[m]: which deadlines of a match have passed
    seat,           \* ArenaProfile.arenaPosition
    freeDays,       \* the available balance of the access cycle
    stakedDays,     \* the locked balance of the access cycle
    revenge,        \* revenge[m]: the ArenaRevengeRight that came of a match
    settledEvent,   \* settledEvent[m]: its TAKEOVER_SETTLED event
    handedIn,       \* handedIn[m]: the roles whose attempt is submitted
    intent,         \* intent[m][r]: the scoring intent of a submitted attempt
    delivery,       \* delivery[w]: the intent a worker is at, and what comes next
    mishaps

balanceVars == <<freeDays, stakedDays>>
scoringVars == <<handedIn, intent, delivery, mishaps>>
takeoverVars == <<takeover, clock, seat, balanceVars, revenge, settledEvent, scoringVars>>

Roles == {"CHALLENGER", "DEFENDER"}
Engaged == {"MATCHED", "READY", "IN_PROGRESS", "SUBMITTED", "HELD", "RESOLVED"}

NoTakeover ==
    [ status |-> "NONE", challenger |-> Vacant, defender |-> Vacant,
      type |-> "NORMAL", source |-> NoSource, stake |-> 0,
      challengerBefore |-> 0, defenderBefore |-> 0,
      started |-> {}, results |-> {},     \* the roles that have begun, and that have a result
      verdict |-> "NONE",                 \* compareScoredResults of the two results
      winner |-> "NONE", reason |-> "NONE",
      held |-> FALSE ]                    \* it has been held

NoIntentYet == [status |-> "NONE", tries |-> 0, lockedBy |-> Vacant]
AtLeisure == [match |-> NoSource, role |-> "CHALLENGER", next |-> "NONE"]

TakeoverInit ==
    /\ takeover = [m \in Takeovers |-> NoTakeover]
    /\ clock = [m \in Takeovers |-> "START"]
    /\ seat = FirstSeat
    /\ freeDays = FirstDays
    /\ stakedDays = [u \in Contenders |-> 0]
    /\ revenge = [m \in Takeovers |-> "NONE"]
    /\ settledEvent = [m \in Takeovers |-> "NONE"]
    /\ handedIn = [m \in Takeovers |-> {}]
    /\ intent = [m \in Takeovers |-> [r \in Roles |-> NoIntentYet]]
    /\ delivery = [w \in Scorers |-> AtLeisure]
    /\ mishaps = 0

-----------------------------------------------------------------------------
(* Requests. *)

IsEngaged(m) == takeover[m].status \in Engaged
Contestants(m) == {takeover[m].challenger, takeover[m].defender}

\* Defect: the index is on the challenger, as if the defender had nothing at stake.
UnengagedChallenger(u, v) == \A m \in Takeovers : IsEngaged(m) => takeover[m].challenger \notin {u, v}

(* The unique index holds for both users of a match, whichever role they have. *)
Unengaged(u, v) == \A m \in Takeovers : IsEngaged(m) => Contestants(m) \cap {u, v} = {}

Challenges(m, u, v, type, source, cost) ==
    /\ takeover[m].status = "NONE"
    /\ u # v /\ seat[v] < seat[u]
    /\ Unengaged(u, v)
    /\ freeDays[u] >= cost
    /\ takeover' = [takeover EXCEPT ![m] =
           [NoTakeover EXCEPT !.status = "MATCHED", !.challenger = u, !.defender = v,
                              !.type = type, !.source = source, !.stake = cost,
                              !.challengerBefore = seat[u], !.defenderBefore = seat[v]]]
    /\ freeDays' = [freeDays EXCEPT ![u] = @ - cost]
    /\ stakedDays' = [stakedDays EXCEPT ![u] = @ + cost]
    /\ UNCHANGED <<clock, seat, settledEvent, scoringVars>>

RequestNormal(m, u, v) ==
    /\ \E cost \in NormalCosts : Challenges(m, u, v, "NORMAL", NoSource, cost)
    /\ UNCHANGED revenge

(* A clear, scored win that took the seat of the defender earns the defender a right. *)
EarnsRevenge(m) ==
    /\ takeover[m].status = "SETTLED"
    /\ takeover[m].winner = "CHALLENGER"
    /\ takeover[m].reason = "SCORED_RESULT"

\* Defect: a challenge takes the right's word for it and leaves it for the next one.
RevengeLeavesRight(m, s) ==
    /\ revenge[s] = "AVAILABLE"
    /\ EarnsRevenge(s)
    /\ \E cost \in RevengeCosts :
           Challenges(m, takeover[s].defender, takeover[s].challenger, "REVENGE", s, cost)
    /\ UNCHANGED revenge

(* The right is consumed in the transaction that makes the match. *)
RequestRevenge(m, s) ==
    /\ revenge[s] = "AVAILABLE"
    /\ EarnsRevenge(s)
    /\ \E cost \in RevengeCosts :
           Challenges(m, takeover[s].defender, takeover[s].challenger, "REVENGE", s, cost)
    /\ revenge' = [revenge EXCEPT ![s] = "CONSUMED"]

-----------------------------------------------------------------------------
(* Until both have handed in. *)

TimePasses(m) ==
    /\ IsEngaged(m)
    /\ clock' = [clock EXCEPT ![m] = IF @ = "START" THEN "PLAY" ELSE "OVER"]
    /\ clock'[m] # clock[m]
    /\ UNCHANGED <<takeover, seat, balanceVars, revenge, settledEvent, scoringVars>>

AcceptChallenge(m) ==
    /\ takeover[m].status = "MATCHED"
    /\ clock[m] = "START"                       \* before startsBy
    /\ takeover' = [takeover EXCEPT ![m].status = "READY"]
    /\ UNCHANGED <<clock, seat, balanceVars, revenge, settledEvent, scoringVars>>

\* Defect: the match is ended and the stake stays locked.
KeepsStake(m, status) ==
    /\ takeover' = [takeover EXCEPT ![m].status = status]
    /\ UNCHANGED <<clock, seat, balanceVars, revenge, scoringVars>>

(* The stake goes back to the challenger, and the seats stay as they are. *)
Unlocks(m, status) ==
    LET t == takeover[m] IN
    /\ stakedDays[t.challenger] >= t.stake
    /\ takeover' = [takeover EXCEPT ![m].status = status]
    /\ stakedDays' = [stakedDays EXCEPT ![t.challenger] = @ - t.stake]
    /\ freeDays' = [freeDays EXCEPT ![t.challenger] = @ + t.stake]
    /\ UNCHANGED <<clock, seat, revenge, scoringVars>>

RejectChallenge(m) ==
    /\ takeover[m].status = "MATCHED"
    /\ Unlocks(m, "CANCELLED")
    /\ UNCHANGED settledEvent

(* The first of the two opens the match; each has a deadline of his own. *)
StartMatch(m, r) ==
    /\ takeover[m].status \in {"READY", "IN_PROGRESS"}
    /\ r \notin takeover[m].started
    /\ clock[m] = "START"
    /\ takeover' = [takeover EXCEPT ![m].status = "IN_PROGRESS", ![m].started = @ \cup {r}]
    /\ UNCHANGED <<clock, seat, balanceVars, revenge, settledEvent, scoringVars>>

(* By the participant while the match is live, or by the deadline worker whatever has become of it. *)
HandIn(m, r) ==
    /\ r \in takeover[m].started \ handedIn[m]
    /\ handedIn' = [handedIn EXCEPT ![m] = @ \cup {r}]
    /\ intent' = [intent EXCEPT ![m][r].status = "PENDING"]
    /\ UNCHANGED <<takeover, clock, seat, balanceVars, revenge, settledEvent, delivery, mishaps>>

(* Who did not show up is decided elsewhere (resolveNoShowState). *)
ChallengerNoShow(m) ==
    /\ takeover[m].status \in {"MATCHED", "READY", "IN_PROGRESS"}
    /\ clock[m] = "OVER"                        \* after submitsBy
    /\ takeover' = [takeover EXCEPT ![m].status = "RESOLVED", ![m].winner = "DEFENDER",
                                    ![m].reason = "CHALLENGER_NO_SHOW"]
    /\ UNCHANGED <<clock, seat, balanceVars, revenge, settledEvent, scoringVars>>

DefenderNoShow(m) ==        \* or neither did
    /\ takeover[m].status \in {"MATCHED", "READY", "IN_PROGRESS"}
    /\ clock[m] = "OVER"
    /\ Unlocks(m, "INVALID")
    /\ settledEvent' = [settledEvent EXCEPT ![m] = "PENDING"]

-----------------------------------------------------------------------------
(* Held matches. *)

HoldMatch(m) ==
    /\ takeover[m].status \in {"MATCHED", "READY", "IN_PROGRESS", "SUBMITTED"}
    /\ takeover' = [takeover EXCEPT ![m].status = "HELD", ![m].held = TRUE]
    /\ UNCHANGED <<clock, seat, balanceVars, revenge, settledEvent, scoringVars>>

ResolveHeld(m, winner) ==
    /\ takeover[m].status = "HELD"
    /\ takeover' = [takeover EXCEPT ![m].status = "RESOLVED", ![m].winner = winner,
                                    ![m].reason = "SCORED_RESULT"]
    /\ UNCHANGED <<clock, seat, balanceVars, revenge, settledEvent, scoringVars>>

InvalidateHeld(m) ==
    /\ takeover[m].status = "HELD"
    /\ Unlocks(m, "INVALID")
    /\ UNCHANGED settledEvent

-----------------------------------------------------------------------------
(* Settlement. *)

(* What the compare-and-set of the seats and the locked balance ask for. *)
MaySettle(m) ==
    LET t == takeover[m] IN
    /\ t.status = "RESOLVED"
    /\ stakedDays[t.challenger] >= t.stake
    /\ seat[t.challenger] = t.challengerBefore
    /\ seat[t.defender] = t.defenderBefore

Settles(m) ==
    LET t == takeover[m]
        wins == t.winner = "CHALLENGER"
        paid == IF wins THEN 0 ELSE t.stake - (IF t.type = "REVENGE" THEN RevengeBurn ELSE 0)
    IN
    /\ takeover' = [takeover EXCEPT ![m].status = "SETTLED"]
    /\ stakedDays' = [stakedDays EXCEPT ![t.challenger] = @ - t.stake]
    /\ freeDays' = [freeDays EXCEPT ![t.defender] = @ + paid]
    /\ seat' = IF wins
               THEN [seat EXCEPT ![t.challenger] = t.defenderBefore,
                                 ![t.defender] = t.challengerBefore]
               ELSE seat
    /\ settledEvent' = [settledEvent EXCEPT ![m] = "PENDING"]
    /\ UNCHANGED <<clock, revenge>>

SettleResolved(m) ==
    /\ MaySettle(m)
    /\ Settles(m)
    /\ UNCHANGED scoringVars

-----------------------------------------------------------------------------
(* The delivery of a settled event, at least once, and the right it issues. *)

(* The handler has run; the worker publishes the event, or dies before it does. *)
IssueRight(m) ==
    /\ settledEvent[m] = "PENDING"
    /\ EarnsRevenge(m)
    /\ IF revenge[m] = "NONE"
       THEN \E status \in {"AVAILABLE", "EXPIRED"} :    \* its term runs from the settlement
                revenge' = [revenge EXCEPT ![m] = status]
       ELSE UNCHANGED revenge
    /\ \/ settledEvent' = [settledEvent EXCEPT ![m] = "PUBLISHED"]
       \/ mishaps < MaxMishaps /\ UNCHANGED settledEvent
    /\ mishaps' = IF settledEvent' = settledEvent THEN mishaps + 1 ELSE mishaps
    /\ UNCHANGED <<takeover, clock, seat, balanceVars, handedIn, intent, delivery>>

(* An invalid match is an error to the handler, one that no retry helps. *)
IssueNothing(m) ==
    /\ settledEvent[m] = "PENDING"
    /\ ~EarnsRevenge(m)
    /\ settledEvent' = [settledEvent EXCEPT ![m] =
           IF takeover[m].status = "INVALID" THEN "DEAD" ELSE "PUBLISHED"]
    /\ UNCHANGED <<takeover, clock, seat, balanceVars, revenge, scoringVars>>

RightExpires(m) ==
    /\ revenge[m] = "AVAILABLE"
    /\ revenge' = [revenge EXCEPT ![m] = "EXPIRED"]
    /\ UNCHANGED <<takeover, clock, seat, balanceVars, settledEvent, scoringVars>>

-----------------------------------------------------------------------------
(* The delivery of scoring intents. *)

Delivering(w, m, r) == delivery[w].match = m /\ delivery[w].role = r
Is(w, m, r, next) == delivery[w] = [match |-> m, role |-> r, next |-> next]
Proceeds(w, next) == delivery' = [delivery EXCEPT ![w].next = next]
Rest(w) == delivery' = [delivery EXCEPT ![w] = AtLeisure]

(* The lease of an intent whose worker died runs out; that of one that is slow is a mishap. *)
ClaimIntentOf(w, m, r) ==
    LET i == intent[m][r]
        busy == i.status = "PROCESSING" /\ Delivering(i.lockedBy, m, r)
    IN
    /\ delivery[w] = AtLeisure
    /\ i.status \in {"PENDING", "PROCESSING"}
    /\ busy => mishaps < MaxMishaps
    /\ mishaps' = IF busy THEN mishaps + 1 ELSE mishaps
    /\ intent' = [intent EXCEPT ![m][r] =
           [ status |-> "PROCESSING", lockedBy |-> w,
             tries |-> IF i.tries < MaxTries THEN i.tries + 1 ELSE MaxTries ]]
    /\ delivery' = [delivery EXCEPT ![w] = [match |-> m, role |-> r, next |-> "SUBMIT"]]
    /\ UNCHANGED <<takeover, clock, seat, balanceVars, revenge, settledEvent, handedIn>>

\* Defect: a result that is already there is taken for delivered.
AfterRepeat(status) ==
    CASE status = "RESOLVED" -> "SETTLE"
      [] status \in {"IN_PROGRESS", "SUBMITTED", "SETTLED"} -> "PUBLISH"
      [] OTHER -> "GIVE_UP"

(* What the worker does after a command has returned the match with a status. *)
AfterStatus(status) ==
    CASE status = "SUBMITTED" -> "RESOLVE"
      [] status = "RESOLVED" -> "SETTLE"
      [] status \in {"IN_PROGRESS", "SETTLED"} -> "PUBLISH"
      [] OTHER -> "GIVE_UP"

(* A result that is already there answers with the match as it is. *)
SubmitAgain(w, m, r) ==
    /\ Is(w, m, r, "SUBMIT")
    /\ r \in takeover[m].results
    /\ Proceeds(w, AfterStatus(takeover[m].status))
    /\ UNCHANGED <<takeover, clock, seat, balanceVars, revenge, settledEvent, handedIn, intent, mishaps>>

SubmitResult(w, m, r) ==
    /\ Is(w, m, r, "SUBMIT")
    /\ r \notin takeover[m].results
    /\ IF takeover[m].status = "IN_PROGRESS"
       THEN LET results == takeover[m].results \cup {r} IN
            IF results = Roles
            THEN /\ \E verdict \in {"CHALLENGER", "DEFENDER", "TIE"} :
                        takeover' = [takeover EXCEPT ![m].results = results,
                                                     ![m].status = "SUBMITTED",
                                                     ![m].verdict = verdict]
                 /\ Proceeds(w, "RESOLVE")
            ELSE /\ takeover' = [takeover EXCEPT ![m].results = results]
                 /\ Proceeds(w, "PUBLISH")
       ELSE Proceeds(w, "GIVE_UP") /\ UNCHANGED takeover
    /\ UNCHANGED <<clock, seat, balanceVars, revenge, settledEvent, handedIn, intent, mishaps>>

(* There is nobody to break a tie: the intent is tried again until its tries are used up. *)
ResolveScored(w, m, r) ==
    LET t == takeover[m] IN
    /\ Is(w, m, r, "RESOLVE")
    /\ IF t.status = "SUBMITTED" /\ t.verdict # "TIE"
       THEN /\ takeover' = [takeover EXCEPT ![m].status = "RESOLVED", ![m].winner = t.verdict,
                                            ![m].reason = "SCORED_RESULT"]
            /\ Proceeds(w, "SETTLE")
       ELSE /\ Proceeds(w, CASE t.status = "SUBMITTED" -> "RETRY"
                           [] t.status \in {"RESOLVED", "SETTLED"} -> AfterStatus(t.status)
                           [] OTHER -> "GIVE_UP")
            /\ UNCHANGED takeover
    /\ UNCHANGED <<clock, seat, balanceVars, revenge, settledEvent, handedIn, intent, mishaps>>

SettleScored(w, m, r) ==
    /\ Is(w, m, r, "SETTLE")
    /\ IF MaySettle(m)
       THEN Settles(m) /\ Proceeds(w, "PUBLISH")
       ELSE /\ Proceeds(w, IF takeover[m].status = "SETTLED" THEN "PUBLISH" ELSE "GIVE_UP")
            /\ UNCHANGED <<takeover, clock, seat, balanceVars, revenge, settledEvent>>
    /\ UNCHANGED <<handedIn, intent, mishaps>>

(* Only who still has the lease changes the intent. *)
EndsDelivery(w, m, r, status) ==
    /\ intent' = IF intent[m][r].status = "PROCESSING" /\ intent[m][r].lockedBy = w
                 THEN [intent EXCEPT ![m][r].status = status]
                 ELSE intent
    /\ Rest(w)
    /\ UNCHANGED <<takeover, clock, seat, balanceVars, revenge, settledEvent, handedIn>>

TriedEnough(m, r) == intent[m][r].tries >= MaxTries
AgainOrDead(m, r) == IF TriedEnough(m, r) THEN "DEAD" ELSE "PENDING"

PublishIntentOf(w, m, r) ==
    /\ Is(w, m, r, "PUBLISH")
    /\ EndsDelivery(w, m, r, "PUBLISHED")
    /\ UNCHANGED mishaps

GiveUp(w, m, r) ==
    /\ Is(w, m, r, "GIVE_UP")
    /\ EndsDelivery(w, m, r, "DEAD")
    /\ UNCHANGED mishaps

TryLater(w, m, r) ==
    /\ Is(w, m, r, "RETRY")
    /\ EndsDelivery(w, m, r, AgainOrDead(m, r))
    /\ UNCHANGED mishaps

(* The database fails, or the lease turns out to be lost. *)
DeliveryFails(w, m, r) ==
    /\ Delivering(w, m, r)
    /\ delivery[w].next \in {"SUBMIT", "RESOLVE", "SETTLE", "PUBLISH"}
    /\ mishaps < MaxMishaps
    /\ EndsDelivery(w, m, r, AgainOrDead(m, r))
    /\ mishaps' = mishaps + 1

ScorerDies(w) ==
    /\ delivery[w] # AtLeisure
    /\ mishaps < MaxMishaps
    /\ mishaps' = mishaps + 1
    /\ Rest(w)
    /\ UNCHANGED <<takeover, clock, seat, balanceVars, revenge, settledEvent, handedIn, intent>>

-----------------------------------------------------------------------------
PlayStep(m) ==
    \/ TimePasses(m)
    \/ AcceptChallenge(m)
    \/ RejectChallenge(m)
    \/ \E r \in Roles : StartMatch(m, r) \/ HandIn(m, r)

AuthorityStep(m) ==
    \/ ChallengerNoShow(m)
    \/ DefenderNoShow(m)
    \/ HoldMatch(m)
    \/ \E winner \in Roles : ResolveHeld(m, winner)
    \/ InvalidateHeld(m)
    \/ SettleResolved(m)

RightStep(m) ==
    \/ IssueRight(m)
    \/ IssueNothing(m)
    \/ RightExpires(m)

DeliveryStep(w, m, r) ==
    \/ ClaimIntentOf(w, m, r)
    \/ SubmitAgain(w, m, r)
    \/ SubmitResult(w, m, r)
    \/ ResolveScored(w, m, r)
    \/ SettleScored(w, m, r)
    \/ PublishIntentOf(w, m, r)
    \/ GiveUp(w, m, r)
    \/ TryLater(w, m, r)
    \/ DeliveryFails(w, m, r)

TakeoverNext ==
    \/ \E m \in Takeovers :
        \/ \E u, v \in Contenders : RequestNormal(m, u, v)
        \/ \E s \in Takeovers : RequestRevenge(m, s)
        \/ PlayStep(m)
        \/ AuthorityStep(m)
        \/ RightStep(m)
        \/ \E w \in Scorers, r \in Roles : DeliveryStep(w, m, r)
    \/ \E w \in Scorers : ScorerDies(w)

TakeoverSpec == TakeoverInit /\ [][TakeoverNext]_takeoverVars

-----------------------------------------------------------------------------
TakeoverRecords ==
    [ status : Engaged \cup {"NONE", "SETTLED", "INVALID", "CANCELLED"},
      challenger : Contenders \cup {Vacant}, defender : Contenders \cup {Vacant},
      type : {"NORMAL", "REVENGE"}, source : Takeovers \cup {NoSource}, stake : Nat,
      challengerBefore : Nat, defenderBefore : Nat,
      started : SUBSET Roles, results : SUBSET Roles,
      verdict : Roles \cup {"NONE", "TIE"},
      winner : Roles \cup {"NONE"}, reason : {"NONE", "SCORED_RESULT", "CHALLENGER_NO_SHOW"},
      held : BOOLEAN ]

IntentRecords ==
    [ status : {"NONE", "PENDING", "PROCESSING", "PUBLISHED", "DEAD"},
      tries : 0..MaxTries, lockedBy : Scorers \cup {Vacant} ]

Deliveries ==
    [ match : Takeovers \cup {NoSource}, role : Roles,
      next : {"NONE", "SUBMIT", "RESOLVE", "SETTLE", "PUBLISH", "RETRY", "GIVE_UP"} ]

(***************************************************************************)
(* Every variable has the values the models allow; no balance is negative, *)
(* which the settlement would otherwise refuse forever.                    *)
(***************************************************************************)
TakeoverTypeOK ==
    /\ takeover \in [Takeovers -> TakeoverRecords]
    /\ clock \in [Takeovers -> {"START", "PLAY", "OVER"}]
    /\ seat \in [Contenders -> Nat]
    /\ freeDays \in [Contenders -> Nat]
    /\ stakedDays \in [Contenders -> Nat]
    /\ revenge \in [Takeovers -> {"NONE", "AVAILABLE", "EXPIRED", "CONSUMED"}]
    /\ settledEvent \in [Takeovers -> {"NONE", "PENDING", "PUBLISHED", "DEAD"}]
    /\ handedIn \in [Takeovers -> SUBSET Roles]
    /\ intent \in [Takeovers -> [Roles -> IntentRecords]]
    /\ delivery \in [Scorers -> Deliveries]
    /\ mishaps \in Nat

(***************************************************************************)
(* The seats a match was made on are still those of its two contestants    *)
(* while it is engaged, however many other matches are settled meanwhile,  *)
(* and no two contenders have one seat: settleResolvedMatch and            *)
(* swapArenaPositions compare the seats with those of the request, and     *)
(* fail for good if they are others.                                       *)
(***************************************************************************)
BaselinesHold ==
    /\ \A m \in Takeovers : IsEngaged(m) =>
        /\ seat[takeover[m].challenger] = takeover[m].challengerBefore
        /\ seat[takeover[m].defender] = takeover[m].defenderBefore
        /\ takeover[m].defenderBefore < takeover[m].challengerBefore
    /\ \A u, v \in Contenders : u # v => seat[u] # seat[v]

(***************************************************************************)
(* What a contender has locked is the stake of the match he is the         *)
(* challenger of, and nothing once that has ended, in whichever of the six *)
(* ways: a rest would be lost to him, and a lack would keep the match from *)
(* ending (LOCKED_BALANCE_MISMATCH).                                       *)
(***************************************************************************)
LockedIsStaked ==
    \A u \in Contenders :
        LET mine == {m \in Takeovers : IsEngaged(m) /\ takeover[m].challenger = u} IN
        /\ \A m \in mine : stakedDays[u] = takeover[m].stake
        /\ mine = {} => stakedDays[u] = 0

(***************************************************************************)
(* A revenge is of who lost a seat in a settled, scored match, against who *)
(* took it, and there is one for each loss at most, though the settled     *)
(* event is delivered more than once and rights are consumed and expire at *)
(* the same time.                                                          *)
(***************************************************************************)
RevengeIsOwed ==
    \A m \in Takeovers : takeover[m].source # NoSource =>
        LET s == takeover[m].source IN
        /\ EarnsRevenge(s)
        /\ takeover[m].challenger = takeover[s].defender
        /\ takeover[m].defender = takeover[s].challenger
        /\ revenge[s] = "CONSUMED"
        /\ \A n \in Takeovers : takeover[n].source = s => n = m

(***************************************************************************)
(* A match with two results that was never held is settled by somebody: as *)
(* long as it is not, an intent of it is delivered or will be claimed, and *)
(* not by a worker that is about to publish it, or its tries are used up   *)
(* (as those of a tie always are in the end).  Nobody else settles it: no  *)
(* other loop looks for SUBMITTED or RESOLVED matches.                     *)
(***************************************************************************)
WillSettle(m, r) ==
    LET i == intent[m][r] IN
    \/ i.status = "PENDING"
    \/ i.status = "PROCESSING" /\ delivery[i.lockedBy].next \notin {"PUBLISH", "GIVE_UP"}
    \/ i.status = "PROCESSING" /\ ~Delivering(i.lockedBy, m, r)
    \/ TriedEnough(m, r)

SomeoneSettles ==
    \A m \in Takeovers :
        /\ takeover[m].status \in {"SUBMITTED", "RESOLVED"}
        /\ ~takeover[m].held
        /\ takeover[m].reason # "CHALLENGER_NO_SHOW"
        => \E r \in Roles : WillSettle(m, r)
=============================================================================
