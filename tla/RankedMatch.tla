---------------------------- MODULE RankedMatch ----------------------------
(***************************************************************************)
(* Ranked matches and the learning days that are staked on them.           *)
(*                                                                         *)
(* A student challenges somebody of a higher tier and alone stakes days;   *)
(* or invites students of a lower tier, with days reserved until one of    *)
(* them accepts and stakes as much.  The winner of a match takes both      *)
(* stakes, and the tiers are exchanged if it is the lower of the two; the  *)
(* loser may take revenge for twice the stake.                             *)
(*                                                                         *)
(* No request is taken between Sunday 14:00 and Monday.  A daily job, made *)
(* of separate writes, pauses the invitations, resumes them on Monday, and *)
(* cancels those of students with no days left but the reserved ones.      *)
(*                                                                         *)
(* Every handler but the job's is one transaction.  A position is modelled *)
(* by its tier.  What a participant does with the questions and which      *)
(* deadline passes first are those of ArenaMatch and left open, and so is  *)
(* what a sweep has read before the transaction that acts on it; but what  *)
(* an upload does to the match it meets is not: it may be over by then.    *)
(***************************************************************************)
EXTENDS Integers, FiniteSets, Functions

CONSTANTS
    Players,
    Invitations,    \* bound: the invitations that are ever made
    Games,          \* bound: the matches that are ever played
    NoOne,
    Tiers,
    StartingTier,   \* the tier a player begins with
    StartingDays,   \* the days a player begins with
    Stakes,         \* the stakes to choose from
    MinimumStake,   \* stakeDaysByTierGap: the least stake of an invitation
    AutomaticFee,   \* invitationCancellationFeeDays
    ManualFee,      \* manualInvitationCancellationFeeDays
    RevengeFee,     \* feeDays of a revenge match
    MaxSpent,       \* bound: no day is used for learning when so many are gone
    MaxJobDeaths    \* bound: how often the daily job dies

MaxGap == 3         \* how many tiers apart two opponents may be

ASSUME PlayersAssumption == NoOne \notin Players

ASSUME DaysAssumption ==
    /\ Tiers \subseteq Nat
    /\ StartingTier \in [Players -> Tiers]
    /\ StartingDays \in [Players -> Nat]
    /\ Stakes \subseteq Nat \ {0}
    /\ MinimumStake \in [1..MaxGap -> Nat \ {0}]
    /\ {AutomaticFee, ManualFee, RevengeFee, MaxSpent, MaxJobDeaths} \subseteq Nat

VARIABLES
    phase,          \* where the week is
    tier,
    available,      \* availableLearningDays
    reserved,       \* reservedLearningDays: held for invitations
    locked,         \* lockedLearningDays: staked in a match
    spent,          \* days used for learning, charged or burned
    request,        \* MainInvitationRequest
    offer,          \* offer[i][u]: the status of the invitation's offer to a player
    game,           \* ArenaMatch, and with it the locks of its two participants
    right,          \* right[g]: the ArenaRevengeRight that came of a match
    job,            \* where the daily job is
    overwritten,    \* the invitations a pause has brought back from their end
    deaths          \* how often the daily job has died

dayVars == <<available, reserved, locked, spent>>
invitationVars == <<request, offer, overwritten>>
gameVars == <<game, right, tier>>
jobVars == <<job, deaths>>
rankedVars == <<phase, dayVars, invitationVars, gameVars, jobVars>>

(***************************************************************************)
(* LATE is the moment after 14:00 in which requests begun before may still *)
(* commit: what they compare with 14:00 is the time they began at.         *)
(***************************************************************************)
Phases == {"OPEN", "LATE", "LOCKED", "CLOSED", "MONDAY"}
TakesRequests == phase \in {"OPEN", "LATE", "MONDAY"}
RequestsLocked == phase \in {"LATE", "LOCKED", "CLOSED"}    \* from 14:00
DivisionLocked == phase = "CLOSED"                          \* from 15:00

NoRequest == [status |-> "NONE", by |-> NoOne, tier |-> 0, stake |-> 0, held |-> 0, keyed |-> FALSE]
Waiting == {"SEARCHING", "OFFERED"}
Live == Waiting \cup {"PAUSED"}

InPlay == {"PLAYING", "SUBMITTED"}
Unsettled(g) == game[g].status \in InPlay \cup {"HELD"}
Parties(g) == {game[g].challenger, game[g].defender}
Playing(u) == \E g \in Games : Unsettled(g) /\ u \in Parties(g)

(***************************************************************************)
(* The four ways to end a match each have unique ledger keys: "SETTLED" of *)
(* a settlement, "ABANDONED" of a cancellation because neither came, and   *)
(* "JUDGED" and "CLEARED" of a review.                                     *)
(***************************************************************************)
Endings == {"SETTLED", "ABANDONED", "JUDGED", "CLEARED"}

(* The participant locks of a match go with its first ending for good. *)
HasMatchLock(u) == \E g \in Games : Unsettled(g) /\ game[g].paid = {} /\ u \in Parties(g)

(* A match is the revenge for its source, or else its own source. *)
IsRevenge(g) == game[g].source # g
NoGame(g) == [status |-> "NONE", challenger |-> NoOne, defender |-> NoOne, cstake |-> 0,
              dstake |-> 0, ctier |-> 0, dtier |-> 0, source |-> g, uploads |-> 0, paid |-> {}]
NoRight == [status |-> "NONE", by |-> NoOne, against |-> NoOne, stake |-> 0]

Idle == [step |-> "IDLE", players |-> {}, ids |-> {}, at |-> {}, found |-> FALSE]

RankedInit ==
    /\ phase = "OPEN"
    /\ tier = StartingTier
    /\ available = StartingDays
    /\ reserved = [u \in Players |-> 0]
    /\ locked = [u \in Players |-> 0]
    /\ spent = 0
    /\ request = [i \in Invitations |-> NoRequest]
    /\ offer = [i \in Invitations |-> [u \in Players |-> "NONE"]]
    /\ game = [g \in Games |-> NoGame(g)]
    /\ right = [g \in Games |-> NoRight]
    /\ job = Idle
    /\ overwritten = {}
    /\ deaths = 0

----------------------------------------------------------------------------
(* The week, and the days that learning uses up. *)

Advances(from, to) == phase = from /\ phase' = to

WeekGoesOn ==
    /\ \/ Advances("OPEN", "LATE")
       \/ Advances("LATE", "LOCKED")
       \/ Advances("LOCKED", "CLOSED")
       \/ Advances("CLOSED", "MONDAY")
    /\ UNCHANGED <<dayVars, invitationVars, gameVars, jobVars>>

ConsumeDay(u) ==
    /\ available[u] > 0
    /\ spent < MaxSpent
    /\ available' = [available EXCEPT ![u] = @ - 1]
    /\ spent' = spent + 1
    /\ UNCHANGED <<phase, reserved, locked, invitationVars, gameVars, jobVars>>

----------------------------------------------------------------------------
(* Invitations.  The list of the candidates is older than the transaction  *)
(* that uses it, so that of the conditions on them none is certain but     *)
(* those that are checked again; a candidate may also be left out because  *)
(* of recent matches and of the size of a batch.                           *)

(* loadMatchActorContext: what a participant is checked for in a transaction. *)
Eligible(u) == available[u] > 0 /\ locked[u] = 0

Gap(lower, upper) == tier[upper] - tier[lower]
MayMeet(lower, upper) == Gap(lower, upper) \in 1..MaxGap

(* The unique index over activeReservationKey, which only save() maintains. *)
KeyFree(i, u, t) ==
    \A j \in Invitations \ {i} : request[j].keyed => request[j].by # u \/ request[j].tier # t

Candidates(u, t) == {c \in Players \ {u} : tier[c] = t}
OffersTo(i, chosen) ==
    offer' = [offer EXCEPT ![i] = [c \in Players |-> IF c \in chosen THEN "OFFERED" ELSE @[c]]]

CreateInvitation(i, u) ==
    /\ request[i].status = "NONE"
    /\ TakesRequests
    /\ Eligible(u)
    /\ \E t \in Tiers, stake \in Stakes, chosen \in SUBSET (Players \ {u}) :
        /\ tier[u] - t \in 1..MaxGap
        /\ stake >= MinimumStake[tier[u] - t]
        /\ stake < available[u]
        /\ chosen \subseteq Candidates(u, t)
        /\ KeyFree(i, u, t)
        /\ request' = [request EXCEPT ![i] =
                [status |-> IF chosen = {} THEN "SEARCHING" ELSE "OFFERED",
                 by |-> u, tier |-> t, stake |-> stake, held |-> stake, keyed |-> TRUE]]
        /\ OffersTo(i, chosen)
        /\ available' = [available EXCEPT ![u] = @ - stake]
        /\ reserved' = [reserved EXCEPT ![u] = @ + stake]
    /\ UNCHANGED <<phase, locked, spent, overwritten, gameVars, jobVars>>

NewGame(g, lower, upper, cstake, dstake, source) ==
    /\ game[g].status = "NONE"
    /\ ~HasMatchLock(lower) /\ ~HasMatchLock(upper)
    /\ game' = [game EXCEPT ![g] =
            [status |-> "PLAYING", challenger |-> lower, defender |-> upper, cstake |-> cstake,
             dstake |-> dstake, ctier |-> tier[lower], dtier |-> tier[upper], source |-> source,
             uploads |-> 0, paid |-> {}]]

Supersedes(i, statuses, except) ==
    [c \in Players |-> IF c # except /\ offer[i][c] \in statuses THEN "SUPERSEDED" ELSE offer[i][c]]

(***************************************************************************)
(* The first to accept stakes as much as the inviter has reserved.  The    *)
(* days are taken from the inviter's reservation as a whole, not from what *)
(* this invitation holds of it.                                            *)
(***************************************************************************)
Accept(i, c, g) ==
    LET u == request[i].by
        stake == request[i].stake
    IN
    /\ offer[i][c] = "OFFERED"
    /\ request[i].status \in Waiting
    /\ TakesRequests
    /\ Eligible(c) /\ Eligible(u)
    /\ MayMeet(c, u)
    /\ request[i].keyed \/ KeyFree(i, u, request[i].tier)
    /\ reserved[u] >= stake
    /\ available[c] > stake
    /\ \A d \in Players : offer[i][d] # "ACCEPTED"
    /\ NewGame(g, c, u, stake, stake, g)
    /\ reserved' = [reserved EXCEPT ![u] = @ - stake]
    /\ available' = [available EXCEPT ![c] = @ - stake]
    /\ locked' = [locked EXCEPT ![u] = @ + stake, ![c] = @ + stake]
    /\ request' = [request EXCEPT ![i].status = "MATCHED", ![i].held = 0, ![i].keyed = FALSE]
    /\ offer' = [offer EXCEPT ![i] = [Supersedes(i, {"OFFERED"}, c) EXCEPT ![c] = "ACCEPTED"]]
    /\ UNCHANGED <<phase, spent, overwritten, right, tier, jobVars>>

(* An answer to an invitation that is not waiting any more ends the offer. *)
AnswerTooLate(i, c) ==
    /\ offer[i][c] = "OFFERED"
    /\ request[i].status \notin Waiting
    /\ TakesRequests
    /\ offer' = [offer EXCEPT ![i][c] = "SUPERSEDED"]
    /\ UNCHANGED <<phase, dayVars, request, overwritten, gameVars, jobVars>>

Decline(i, c) ==
    /\ offer[i][c] = "OFFERED"
    /\ request[i].status \in Waiting
    /\ TakesRequests
    /\ offer' = [offer EXCEPT ![i][c] = "DECLINED"]
    /\ UNCHANGED <<phase, dayVars, request, overwritten, gameVars, jobVars>>

Smaller(a, b) == IF a < b THEN a ELSE b

\* Defect: what an invitation holds is returned whole, its fee charged all the same.
FeeOnTop(i, fee) ==
    LET u == request[i].by
        held == request[i].held
    IN
    /\ held \in 1..reserved[u]
    /\ available' = [available EXCEPT ![u] = @ + held]
    /\ reserved' = [reserved EXCEPT ![u] = @ - held]
    /\ spent' = spent + Smaller(held, fee)

\* Defect: the fee is left among the reserved days.
FeeStaysReserved(i, fee) ==
    LET u == request[i].by
        held == request[i].held
        burned == Smaller(held, fee)
    IN
    /\ held \in 1..reserved[u]
    /\ available' = [available EXCEPT ![u] = @ + held - burned]
    /\ reserved' = [reserved EXCEPT ![u] = @ - held + burned]
    /\ UNCHANGED spent

(* What the invitation holds comes back, less the fee. *)
Returns(i, fee) ==
    LET u == request[i].by
        held == request[i].held
        burned == Smaller(held, fee)
    IN
    /\ held \in 1..reserved[u]
    /\ available' = [available EXCEPT ![u] = @ + held - burned]
    /\ reserved' = [reserved EXCEPT ![u] = @ - held]
    /\ spent' = spent + burned

\* Defect: a cancellation overlooks the offers that are paused.
OverlooksPaused(i) ==
    /\ request' = [request EXCEPT ![i].status = "CANCELLED", ![i].held = 0, ![i].keyed = FALSE]
    /\ offer' = [offer EXCEPT ![i] = Supersedes(i, {"OFFERED"}, NoOne)]

Closes(i) ==
    /\ request' = [request EXCEPT ![i].status = "CANCELLED", ![i].held = 0, ![i].keyed = FALSE]
    /\ offer' = [offer EXCEPT ![i] = Supersedes(i, {"OFFERED", "PAUSED"}, NoOne)]

Cancels(i, fee) == Returns(i, fee) /\ Closes(i)

(* The inviter may cancel at any time. *)
CancelInvitation(i) ==
    /\ request[i].status \in Live
    /\ Cancels(i, ManualFee)
    /\ UNCHANGED <<phase, locked, overwritten, gameVars, jobVars>>

(***************************************************************************)
(* An invitation without an open offer is offered to others, after a       *)
(* refusal and by the daily job; none is asked twice.                      *)
(***************************************************************************)
RefreshOffers(i) ==
    /\ phase \in {"OPEN", "MONDAY"}
    /\ request[i].status \in Waiting
    /\ \A c \in Players : offer[i][c] # "OFFERED"
    /\ \E chosen \in SUBSET {c \in Candidates(request[i].by, request[i].tier) : offer[i][c] = "NONE"} :
        /\ chosen # {} => request[i].keyed \/ KeyFree(i, request[i].by, request[i].tier)
        /\ request' = IF chosen = {} THEN [request EXCEPT ![i].status = "SEARCHING"]
                      ELSE [request EXCEPT ![i].status = "OFFERED", ![i].keyed = TRUE]
        /\ OffersTo(i, chosen)
    /\ UNCHANGED <<phase, dayVars, overwritten, gameVars, jobVars>>

----------------------------------------------------------------------------
(* The daily job: pause or resume, then cancel. *)

GoesTo(step) == job' = [Idle EXCEPT !.step = step]

\* Defect: the job has something to do with invitations only while requests are locked.
JobOnlyPauses ==
    /\ job.step = "IDLE" /\ RequestsLocked
    /\ job' = [Idle EXCEPT !.step = "PAUSE",
                           !.ids = {i \in Invitations : request[i].status \in Waiting}]
    /\ UNCHANGED <<phase, dayVars, invitationVars, gameVars, deaths>>

JobBegins ==
    LET wanted == IF RequestsLocked THEN Waiting ELSE {"PAUSED"} IN
    /\ job.step = "IDLE"
    /\ job' = [Idle EXCEPT !.step = IF RequestsLocked THEN "PAUSE" ELSE "RESUME",
                           !.ids = {i \in Invitations : request[i].status \in wanted}]
    /\ UNCHANGED <<phase, dayVars, invitationVars, gameVars, deaths>>

(* The invitations that were read are paused, whatever has become of them. *)
PauseRequests ==
    /\ job.step = "PAUSE"
    /\ request' = [i \in Invitations |->
            IF i \in job.ids THEN [request[i] EXCEPT !.status = "PAUSED"] ELSE request[i]]
    /\ overwritten' = overwritten \cup {i \in job.ids : request[i].status \notin Live}
    /\ job' = [job EXCEPT !.step = "PAUSE_OFFERS"]
    /\ UNCHANGED <<phase, dayVars, offer, gameVars, deaths>>

Renamed(i, from, to) == [c \in Players |-> IF offer[i][c] = from THEN to ELSE offer[i][c]]

PauseOffers ==
    /\ job.step = "PAUSE_OFFERS"
    /\ offer' = [i \in Invitations |->
            IF i \in job.ids THEN Renamed(i, "OFFERED", "PAUSED") ELSE offer[i]]
    /\ GoesTo("LIST")
    /\ UNCHANGED <<phase, dayVars, request, overwritten, gameVars, deaths>>

(* One by one the paused invitations are resumed, first the offers ... *)
ResumeOffers(i) ==
    /\ job.step = "RESUME" /\ job.at = {} /\ i \in job.ids
    /\ offer' = [offer EXCEPT ![i] = Renamed(i, "PAUSED", "OFFERED")]
    /\ job' = [job EXCEPT !.at = {i}, !.found = \E c \in Players : offer[i][c] = "PAUSED"]
    /\ UNCHANGED <<phase, dayVars, request, overwritten, gameVars, deaths>>

(* ... and then the invitation, if it is still paused. *)
ResumeRequest(i) ==
    /\ job.step = "RESUME" /\ i \in job.at
    /\ request' = IF request[i].status # "PAUSED" THEN request
                  ELSE [request EXCEPT ![i].status = IF job.found THEN "OFFERED" ELSE "SEARCHING"]
    /\ job' = [job EXCEPT !.at = {}, !.ids = @ \ {i}, !.found = FALSE]
    /\ UNCHANGED <<phase, dayVars, offer, overwritten, gameVars, deaths>>

AllResumed ==
    /\ job.step = "RESUME" /\ job.ids = {}
    /\ GoesTo("LIST")
    /\ UNCHANGED <<phase, dayVars, invitationVars, gameVars, deaths>>

ListDepleted ==
    /\ job.step = "LIST"
    /\ job' = [Idle EXCEPT !.step = "CANCEL",
                           !.players = {u \in Players : available[u] = 0 /\ reserved[u] > 0}]
    /\ UNCHANGED <<phase, dayVars, invitationVars, gameVars, deaths>>

\* Defect: an invitation without an offer is not listed.
ListOffered(u) ==
    /\ job.step = "CANCEL" /\ job.ids = {} /\ u \in job.players
    /\ job' = [job EXCEPT !.players = @ \ {u},
            !.ids = {i \in Invitations : request[i].by = u /\ request[i].status \in {"OFFERED", "PAUSED"}}]
    /\ UNCHANGED <<phase, dayVars, invitationVars, gameVars, deaths>>

ListInvitations(u) ==
    /\ job.step = "CANCEL" /\ job.ids = {} /\ u \in job.players
    /\ job' = [job EXCEPT !.players = @ \ {u},
            !.ids = {i \in Invitations : request[i].by = u /\ request[i].status \in Live}]
    /\ UNCHANGED <<phase, dayVars, invitationVars, gameVars, deaths>>

CancelListed(i) ==
    /\ job.step = "CANCEL" /\ i \in job.ids
    /\ request[i].status \in Live
    /\ Cancels(i, AutomaticFee)
    /\ job' = [job EXCEPT !.ids = @ \ {i}]
    /\ UNCHANGED <<phase, locked, overwritten, gameVars, deaths>>

SkipCancelled(i) ==
    /\ job.step = "CANCEL" /\ i \in job.ids
    /\ request[i].status = "CANCELLED"
    /\ job' = [job EXCEPT !.ids = @ \ {i}]
    /\ UNCHANGED <<phase, dayVars, invitationVars, gameVars, deaths>>

(* One that was accepted meanwhile, or holds nothing, makes the job throw. *)
CancellationThrows(i) ==
    /\ job.step = "CANCEL" /\ i \in job.ids
    /\ \/ request[i].status \notin Live \cup {"CANCELLED"}
       \/ request[i].status \in Live /\ request[i].held \notin 1..reserved[request[i].by]
    /\ job' = Idle
    /\ UNCHANGED <<phase, dayVars, invitationVars, gameVars, deaths>>

JobEnds ==
    /\ job.step = "CANCEL" /\ job.ids = {} /\ job.players = {}
    /\ job' = Idle
    /\ UNCHANGED <<phase, dayVars, invitationVars, gameVars, deaths>>

(* It begins anew at its next turn, knowing nothing of what it had read. *)
JobDies ==
    /\ job.step # "IDLE"
    /\ deaths < MaxJobDeaths
    /\ deaths' = deaths + 1
    /\ job' = Idle
    /\ UNCHANGED <<phase, dayVars, invitationVars, gameVars>>

----------------------------------------------------------------------------
(* Matches. *)

\* Defect: the stake is not compared with the days the challenger has.
ChallengeOnCredit(u, c, g) ==
    /\ TakesRequests
    /\ Eligible(u) /\ Eligible(c)
    /\ MayMeet(u, c)
    /\ \E stake \in Stakes :
        /\ stake >= Gap(u, c)
        /\ NewGame(g, u, c, stake, 0, g)
        /\ available' = [available EXCEPT ![u] = @ - stake]
        /\ locked' = [locked EXCEPT ![u] = @ + stake]
    /\ UNCHANGED <<phase, reserved, spent, invitationVars, right, tier, jobVars>>

(* The challenger alone stakes; the opponent is assigned, not asked. *)
UpwardChallenge(u, c, g) ==
    /\ TakesRequests
    /\ Eligible(u) /\ Eligible(c)
    /\ MayMeet(u, c)
    /\ \E stake \in Stakes :
        /\ stake >= Gap(u, c)
        /\ stake < available[u]
        /\ NewGame(g, u, c, stake, 0, g)
        /\ available' = [available EXCEPT ![u] = @ - stake]
        /\ locked' = [locked EXCEPT ![u] = @ + stake]
    /\ UNCHANGED <<phase, reserved, spent, invitationVars, right, tier, jobVars>>

(* A right of revenge is used or given up once. *)
StartRevenge(h, g) ==
    LET a == right[h].by
        d == right[h].against
        stake == right[h].stake
    IN
    /\ right[h].status = "AVAILABLE"
    /\ game[h].status = "SETTLED"
    /\ g # h
    /\ TakesRequests
    /\ Eligible(a) /\ Eligible(d)
    /\ stake < available[a]
    /\ MayMeet(a, d)
    /\ NewGame(g, a, d, stake, 0, h)
    /\ available' = [available EXCEPT ![a] = @ - stake]
    /\ locked' = [locked EXCEPT ![a] = @ + stake]
    /\ right' = [right EXCEPT ![h].status = "CLAIMED"]
    /\ UNCHANGED <<phase, reserved, spent, invitationVars, tier, jobVars>>

ForfeitRevenge(h) ==
    /\ right[h].status = "AVAILABLE"
    /\ right' = [right EXCEPT ![h].status = "FORFEITED"]
    /\ UNCHANGED <<phase, dayVars, invitationVars, game, tier, jobVars>>

InStatus(g, status) == game' = [game EXCEPT ![g].status = status]

(***************************************************************************)
(* An upload is checked for its own window only, not for the status of the *)
(* match.  The first puts the match back in play if the other participant  *)
(* has finished too, even one that is held or has ended; with the second   *)
(* the match can be scored, or is held because something is suspicious.    *)
(***************************************************************************)
Upload(g) ==
    /\ game[g].status # "NONE"
    /\ game[g].uploads < 2
    /\ \E status \in IF game[g].uploads = 0 THEN {game[g].status, "PLAYING"} ELSE {"SUBMITTED", "HELD"} :
        game' = [game EXCEPT ![g].status = status, ![g].uploads = @ + 1]
    /\ UNCHANGED <<phase, dayVars, invitationVars, right, tier, jobVars>>

(* What a sweep has found to be decided, and is not found SETTLED or HELD. *)
Undecided == InPlay \cup {"CANCELLED"}

(* The Sunday cut-off, or a settlement that finds what it should pay or move changed. *)
Hold(g) ==
    /\ game[g].status \in Undecided
    /\ InStatus(g, "HELD")
    /\ UNCHANGED <<phase, dayVars, invitationVars, right, tier, jobVars>>

Ending(kind) == IF kind \in {"SETTLED", "JUDGED"} THEN "SETTLED" ELSE "CANCELLED"
Closed(g, kind) == game' = [game EXCEPT ![g].status = Ending(kind), ![g].paid = @ \cup {kind}]

\* Defect: the stake of the defender is not taken out of the locked days.
KeepsDefenderStake(g, kind, toChallenger, toDefender, burned) ==
    LET c == game[g].challenger
        d == game[g].defender
    IN
    /\ Closed(g, kind)
    /\ locked' = [locked EXCEPT ![c] = @ - game[g].cstake]
    /\ available' = [available EXCEPT ![c] = @ + toChallenger, ![d] = @ + toDefender]
    /\ spent' = spent + burned

(***************************************************************************)
(* Both stakes are taken out of what is locked of the two: their own, or,  *)
(* of a match that had ended, those of other matches.  A ledger key stops  *)
(* a second ending of one kind, and the event of a settlement another one. *)
(***************************************************************************)
Ends(g, kind, toChallenger, toDefender, burned) ==
    LET c == game[g].challenger
        d == game[g].defender
    IN
    /\ kind \notin game[g].paid
    /\ kind = "SETTLED" => "JUDGED" \notin game[g].paid
    /\ locked[c] >= game[g].cstake /\ locked[d] >= game[g].dstake
    /\ Closed(g, kind)
    /\ locked' = [locked EXCEPT ![c] = @ - game[g].cstake, ![d] = @ - game[g].dstake]
    /\ available' = [available EXCEPT ![c] = @ + toChallenger, ![d] = @ + toDefender]
    /\ spent' = spent + burned

AtStake(g) == game[g].cstake + game[g].dstake
Swap(g) ==
    LET c == game[g].challenger
        d == game[g].defender
    IN tier' = [tier EXCEPT ![c] = tier[d], ![d] = tier[c]]

(* Both positions are what they were when the match was made. *)
Unmoved(g) == tier[game[g].challenger] = game[g].ctier /\ tier[game[g].defender] = game[g].dtier

(* Both stakes go to the winner, and the tiers are swapped if it is the challenger. *)
PaysWinner(g, challengerWins) ==
    /\ Unmoved(g)
    /\ IF challengerWins
       THEN Ends(g, "SETTLED", AtStake(g), 0, 0) /\ Swap(g)
       ELSE Ends(g, "SETTLED", 0, AtStake(g), 0) /\ UNCHANGED tier

(* The loser of a match that was played may take revenge. *)
SettleByScore(g, challengerWins) ==
    LET loser == IF challengerWins THEN game[g].defender ELSE game[g].challenger IN
    /\ game[g].status = "SUBMITTED" /\ game[g].uploads = 2 /\ ~IsRevenge(g)
    /\ ~DivisionLocked
    /\ PaysWinner(g, challengerWins)
    /\ right' = [right EXCEPT ![g] =
            [status |-> "AVAILABLE", by |-> loser, stake |-> 2 * game[g].cstake,
             against |-> IF challengerWins THEN game[g].challenger ELSE game[g].defender]]
    /\ UNCHANGED <<phase, reserved, invitationVars, jobVars>>

(* A sweep found that a deadline had passed for one of the two. *)
Forfeit(g, challengerWins) ==
    /\ game[g].status \in Undecided /\ ~IsRevenge(g)
    /\ PaysWinner(g, challengerWins)
    /\ UNCHANGED <<phase, reserved, invitationVars, right, jobVars>>

(* A sweep found both missing, or an administrator finds clean what cannot be scored. *)
CancelGame(g) ==
    /\ \/ /\ game[g].status \in InPlay /\ ~IsRevenge(g)
          /\ Ends(g, "ABANDONED", game[g].cstake, game[g].dstake, 0)
       \/ /\ game[g].status = "HELD" /\ game[g].uploads < 2
          /\ Ends(g, "CLEARED", game[g].cstake, game[g].dstake, 0)
    /\ UNCHANGED <<phase, reserved, invitationVars, right, tier, jobVars>>

RevengeOutcomes == {"ATTACKER", "DEFENDER", "NOBODY"}

(***************************************************************************)
(* Of a revenge, played or not, the fee is burned and the rest of the      *)
(* attacker's stake goes to the winner; if neither came, all is burned.    *)
(***************************************************************************)
SettleRevenge(g, winner) ==
    LET fee == Smaller(game[g].cstake, RevengeFee)
        net == game[g].cstake - fee
    IN
    /\ game[g].status \in Undecided /\ IsRevenge(g)
    /\ ~DivisionLocked
    /\ Unmoved(g)
    /\ \/ winner = "ATTACKER" /\ Ends(g, "SETTLED", net, 0, fee) /\ Swap(g)
       \/ winner = "DEFENDER" /\ Ends(g, "SETTLED", 0, net, fee) /\ UNCHANGED tier
       \/ winner = "NOBODY" /\ Ends(g, "SETTLED", 0, 0, game[g].cstake) /\ UNCHANGED tier
    /\ right' = [right EXCEPT ![game[g].source].status = "CONSUMED"]
    /\ UNCHANGED <<phase, reserved, invitationVars, jobVars>>

(* An administrator finds a held match clean that can be scored. *)
ReviewClear(g) ==
    /\ game[g].status = "HELD" /\ game[g].uploads = 2
    /\ InStatus(g, "SUBMITTED")
    /\ UNCHANGED <<phase, dayVars, invitationVars, right, tier, jobVars>>

Third(n) == (n + 2) \div 3

(***************************************************************************)
(* Or finds that somebody cheated: the stakes go to the other one, or are  *)
(* burned if both did; a third of what a cheat has then is burned.         *)
(***************************************************************************)
ReviewCheating(g, cheats) ==
    LET c == game[g].challenger
        d == game[g].defender
        toC == IF d \in cheats /\ c \notin cheats THEN AtStake(g) ELSE 0
        toD == IF c \in cheats /\ d \notin cheats THEN AtStake(g) ELSE 0
        fineC == IF c \in cheats THEN Third(available[c] + toC) ELSE 0
        fineD == IF d \in cheats THEN Third(available[d] + toD) ELSE 0
        burned == IF {c, d} \subseteq cheats THEN AtStake(g) ELSE 0
    IN
    /\ game[g].status = "HELD"
    /\ cheats # {} /\ cheats \subseteq {c, d}
    /\ Unmoved(g)
    /\ Ends(g, "JUDGED", toC - fineC, toD - fineD, burned + fineC + fineD)
    /\ IF cheats = {d} THEN Swap(g) ELSE UNCHANGED tier
    /\ UNCHANGED <<phase, reserved, invitationVars, right, jobVars>>

----------------------------------------------------------------------------
JobStep ==
    \/ JobBegins \/ PauseRequests \/ PauseOffers \/ AllResumed \/ ListDepleted \/ JobEnds
    \/ \E i \in Invitations :
        \/ ResumeOffers(i) \/ ResumeRequest(i)
        \/ CancelListed(i) \/ SkipCancelled(i) \/ CancellationThrows(i)
    \/ \E u \in Players : ListInvitations(u)

InvitationStep(i) ==
    \/ CancelInvitation(i) \/ RefreshOffers(i)
    \/ \E u \in Players : CreateInvitation(i, u) \/ AnswerTooLate(i, u) \/ Decline(i, u)
    \/ \E c \in Players, g \in Games : Accept(i, c, g)

GameStep(g) ==
    \/ Upload(g) \/ Hold(g) \/ CancelGame(g) \/ ReviewClear(g) \/ ForfeitRevenge(g)
    \/ \E u, c \in Players : UpwardChallenge(u, c, g)
    \/ \E h \in Games : StartRevenge(h, g)
    \/ \E wins \in BOOLEAN : SettleByScore(g, wins) \/ Forfeit(g, wins)
    \/ \E winner \in RevengeOutcomes : SettleRevenge(g, winner)
    \/ \E cheats \in SUBSET Parties(g) : ReviewCheating(g, cheats)

RankedNext ==
    \/ WeekGoesOn \/ JobStep \/ JobDies
    \/ \E u \in Players : ConsumeDay(u)
    \/ \E i \in Invitations : InvitationStep(i)
    \/ \E g \in Games : GameStep(g)

RankedSpec == RankedInit /\ [][RankedNext]_rankedVars

(* Time passes, and the daily job gets its turns. *)
RankedFairness == WF_rankedVars(WeekGoesOn) /\ WF_rankedVars(JobStep)

----------------------------------------------------------------------------
(* Properties. *)

Requests ==
    [status: Live \cup {"NONE", "MATCHED", "CANCELLED"}, by: Players \cup {NoOne},
     tier: Tiers \cup {0}, stake: Nat, held: Nat, keyed: BOOLEAN]
OfferStatuses == {"NONE", "OFFERED", "PAUSED", "ACCEPTED", "DECLINED", "SUPERSEDED"}
Matches ==
    [status: InPlay \cup {"NONE", "HELD", "SETTLED", "CANCELLED"}, challenger: Players \cup {NoOne},
     defender: Players \cup {NoOne}, cstake: Nat, dstake: Nat, ctier: Tiers \cup {0},
     dtier: Tiers \cup {0}, source: Games, uploads: 0..2, paid: SUBSET Endings]
Rights ==
    [status: {"NONE", "AVAILABLE", "CLAIMED", "FORFEITED", "CONSUMED"},
     by: Players \cup {NoOne}, against: Players \cup {NoOne}, stake: Nat]
JobSteps == {"IDLE", "PAUSE", "PAUSE_OFFERS", "RESUME", "LIST", "CANCEL"}
Jobs ==
    [step: JobSteps, players: SUBSET Players, ids: SUBSET Invitations,
     at: SUBSET Invitations, found: BOOLEAN]

RankedTypeOK ==
    /\ phase \in Phases
    /\ tier \in [Players -> Tiers]
    /\ available \in [Players -> Nat]
    /\ reserved \in [Players -> Nat]
    /\ locked \in [Players -> Nat]
    /\ spent \in Nat
    /\ request \in [Invitations -> Requests]
    /\ offer \in [Invitations -> [Players -> OfferStatuses]]
    /\ game \in [Games -> Matches]
    /\ right \in [Games -> Rights]
    /\ job \in Jobs
    /\ overwritten \subseteq Invitations
    /\ deaths \in Nat

(***************************************************************************)
(* A late upload has put an ended match back in play, or a late decision   *)
(* of a sweep has met a cancelled one, whatever became of it since.        *)
(***************************************************************************)
EndedBefore(g) == game[g].paid # {} /\ (Unsettled(g) \/ \A kind \in Endings : game[g].paid # {kind})
Undisturbed(u) == \A g \in Games : u \in Parties(g) => ~EndedBefore(g)

StakeOf(u, g) == IF u = game[g].challenger THEN game[g].cstake ELSE game[g].dstake

(***************************************************************************)
(* What is locked of a player is exactly what is at stake in the one match *)
(* it plays, and nothing if it plays none; so it is for all but those who  *)
(* are party to a match that went on after its end, and also for their     *)
(* opponents in other matches.                                             *)
(***************************************************************************)
StakeIsLocked ==
    \A u \in Players : Undisturbed(u) =>
        /\ \A g \in Games : Unsettled(g) /\ u \in Parties(g) =>
            /\ locked[u] = StakeOf(u, g)
            /\ \A h \in Games \ {g} : Unsettled(h) => u \notin Parties(h)
        /\ ~Playing(u) => locked[u] = 0

Wealth(u) == available[u] + reserved[u] + locked[u]

(***************************************************************************)
(* No learning day is made or lost: a step moves days between the pots of  *)
(* one player, or between two players, and what they lose of them together *)
(* is what was spent, charged or burned.                                   *)
(***************************************************************************)
BalancesOne(a) ==
    /\ \A u \in Players \ {a} : Wealth(u)' = Wealth(u)
    /\ Wealth(a)' + spent' = Wealth(a) + spent
BalancesTwo(a, b) ==
    /\ \A u \in Players \ {a, b} : Wealth(u)' = Wealth(u)
    /\ Wealth(a)' + Wealth(b)' + spent' = Wealth(a) + Wealth(b) + spent
DaysConserved ==
    [][\/ \E a \in Players : BalancesOne(a)
       \/ \E a, b \in Players : a # b /\ BalancesTwo(a, b)]_dayVars

HeldFor(u) == {i \in Invitations : request[i].by = u /\ request[i].status \in Live}

(***************************************************************************)
(* The reserved days of a player are those its invitations hold, as long   *)
(* as no pause has brought an invitation back from its end.                *)
(***************************************************************************)
ReservationsAreBacked ==
    overwritten = {} => \A u \in Players :
        reserved[u] = SumFunctionOnSet([i \in Invitations |-> request[i].held], HeldFor(u))

(***************************************************************************)
(* An invitation that is over has no offer that could still be answered or *)
(* resumed, wherever the writes of the pausing job have met its end, and   *)
(* wherever the job has died.                                              *)
(***************************************************************************)
OffersEndWithInvitation ==
    \A i \in Invitations :
        request[i].status \in {"MATCHED", "CANCELLED"} =>
            \A c \in Players : offer[i][c] \notin {"OFFERED", "PAUSED"}

SomethingPaused ==
    \E i \in Invitations : request[i].status = "PAUSED" \/ \E c \in Players : offer[i][c] = "PAUSED"

(***************************************************************************)
(* What Sunday pauses is resumed, the invitations and all of their offers, *)
(* even if the job dies between its writes.                                *)
(***************************************************************************)
PausesEnd == []<>~SomethingPaused

(***************************************************************************)
(* A player who has none but reserved days gets them back, unless a pause  *)
(* has brought an invitation back that nothing can cancel any more.        *)
(***************************************************************************)
SomebodyDepleted == \E u \in Players : available[u] = 0 /\ reserved[u] > 0
DepletedGetDaysBack == []<>(~SomebodyDepleted \/ overwritten # {})
=============================================================================
