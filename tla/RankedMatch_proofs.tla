------------------------- MODULE RankedMatch_proofs -------------------------
(***************************************************************************)
(* Proofs about RankedMatch, for any number of players, invitations and    *)
(* matches, any stakes and any fees; where days are summed, for finitely   *)
(* many invitations or players.                                            *)
(***************************************************************************)
EXTENDS RankedMatch, SumTheorems

(* What has begun has the players it needs, and a revenge match its right. *)
PlayersNamed ==
    /\ \A g \in Games : game[g].status # "NONE" =>
        /\ game[g].challenger \in Players /\ game[g].defender \in Players
        /\ game[g].challenger # game[g].defender
    /\ \A g \in Games : IsRevenge(g) => right[game[g].source].status # "NONE"
    /\ \A i \in Invitations : request[i].status # "NONE" => request[i].by \in Players
    /\ \A h \in Games : right[h].status # "NONE" =>
        right[h].by \in Players /\ right[h].against \in Players
    /\ \A i \in job.ids \cup job.at : request[i].status # "NONE"

TypeInv == RankedTypeOK /\ PlayersNamed

(* A right is as it was, or is one of two players. *)
RightKept(h) ==
    \/ right'[h] = right[h]
    \/ /\ right'[h].status # "NONE"
       /\ right'[h].by \in Players /\ right'[h].against \in Players

(* What a match was made with stays. *)
SameTerms(g) ==
    /\ game'[g].challenger = game[g].challenger /\ game'[g].defender = game[g].defender
    /\ game'[g].cstake = game[g].cstake /\ game'[g].dstake = game[g].dstake
    /\ game'[g].ctier = game[g].ctier /\ game'[g].dtier = game[g].dtier
    /\ game'[g].source = game[g].source

(* A step that is about one match. *)
OnlyGame(g) ==
    /\ game' \in [Games -> Matches]
    /\ SameTerms(g)
    /\ \A h \in Games : h # g => game'[h] = game[h]

----------------------------------------------------------------------------
(* Types. *)

LEMMA TypeInit == RankedInit => TypeInv
<1> SUFFICES ASSUME RankedInit PROVE TypeInv
    OBVIOUS
<1> USE DaysAssumption DEF RankedInit
<1>1. request \in [Invitations -> Requests] /\ offer \in [Invitations -> [Players -> OfferStatuses]]
      BY DEF NoRequest, Requests, OfferStatuses
<1>2. game \in [Games -> Matches] /\ right \in [Games -> Rights]
      BY DEF NoGame, Matches, NoRight, Rights, Endings
<1>3. job \in Jobs
      BY DEF Idle, Jobs, JobSteps
<1>4. PlayersNamed
      BY DEF PlayersNamed, NoRequest, NoGame, NoRight, Idle, IsRevenge
<1> QED BY <1>1, <1>2, <1>3, <1>4 DEF TypeInv, RankedTypeOK, Phases

(* The invitations of a step that keeps them typed and does not undo their making. *)
LEMMA InvitationTyped ==
    ASSUME TypeInv, UNCHANGED <<phase, gameVars>>,
           available' \in [Players -> Nat], reserved' \in [Players -> Nat],
           locked' \in [Players -> Nat], spent' \in Nat, overwritten' \subseteq Invitations,
           request' \in [Invitations -> Requests],
           offer' \in [Invitations -> [Players -> OfferStatuses]],
           \A i \in Invitations : request[i].status # "NONE" => request'[i].status # "NONE",
           \A i \in Invitations : request'[i].status # "NONE" => request'[i].by \in Players,
           UNCHANGED jobVars
    PROVE  TypeInv'
<1>1. RankedTypeOK'
      BY DEF TypeInv, RankedTypeOK, gameVars, jobVars
<1>2. PlayersNamed'
      BY DEF TypeInv, RankedTypeOK, PlayersNamed, gameVars, jobVars, IsRevenge, Jobs
<1> QED BY <1>1, <1>2 DEF TypeInv

LEMMA CreateTyped ==
    ASSUME TypeInv, NEW i \in Invitations, NEW u \in Players, CreateInvitation(i, u)
    PROVE  TypeInv'
<1> USE DEF TypeInv, RankedTypeOK
<1>1. PICK t \in Tiers, stake \in Stakes, chosen \in SUBSET (Players \ {u}) :
        /\ stake < available[u]
        /\ request' = [request EXCEPT ![i] =
                [status |-> IF chosen = {} THEN "SEARCHING" ELSE "OFFERED",
                 by |-> u, tier |-> t, stake |-> stake, held |-> stake, keyed |-> TRUE]]
        /\ OffersTo(i, chosen)
        /\ available' = [available EXCEPT ![u] = @ - stake]
        /\ reserved' = [reserved EXCEPT ![u] = @ + stake]
      BY DEF CreateInvitation
<1>2. stake \in Nat /\ available[u] - stake \in Nat /\ reserved[u] + stake \in Nat
  <2>1. stake \in Nat /\ stake < available[u]
        BY <1>1, DaysAssumption
  <2>2. available[u] \in Nat /\ reserved[u] \in Nat
        OBVIOUS
  <2> QED BY <2>1, <2>2
<1>3. available' \in [Players -> Nat] /\ reserved' \in [Players -> Nat]
      BY <1>1, <1>2
<1>4. /\ request' \in [Invitations -> Requests]
      /\ request'[i].by \in Players /\ request'[i].status # "NONE"
      /\ \A j \in Invitations : j # i => request'[j] = request[j]
  <2> DEFINE q == [status |-> IF chosen = {} THEN "SEARCHING" ELSE "OFFERED",
                   by |-> u, tier |-> t, stake |-> stake, held |-> stake, keyed |-> TRUE]
  <2>1. (IF chosen = {} THEN "SEARCHING" ELSE "OFFERED") \in Live \cup {"NONE", "MATCHED", "CANCELLED"}
        BY DEF Live, Waiting
  <2>2. q \in Requests /\ q.by = u /\ q.status # "NONE"
        BY <1>2, <2>1 DEF Requests
  <2>3. request' = [request EXCEPT ![i] = q]
        BY <1>1
  <2> HIDE DEF q
  <2> QED BY <2>2, <2>3
<1>5. offer' \in [Invitations -> [Players -> OfferStatuses]]
      BY <1>1 DEF OffersTo, OfferStatuses
<1> QED BY <1>3, <1>4, <1>5, InvitationTyped DEF CreateInvitation, PlayersNamed

(* An invitation that is closed, and what it holds returned. *)
LEMMA CancelsTyped ==
    ASSUME TypeInv, NEW i \in Invitations, request[i].status \in Live, NEW fee \in Nat,
           Cancels(i, fee)
    PROVE  /\ available' \in [Players -> Nat] /\ reserved' \in [Players -> Nat] /\ spent' \in Nat
           /\ request' \in [Invitations -> Requests]
           /\ offer' \in [Invitations -> [Players -> OfferStatuses]]
           /\ request'[i].by = request[i].by /\ request'[i].status = "CANCELLED"
           /\ \A j \in Invitations : j # i => request'[j] = request[j]
           /\ request[i].by \in Players
<1> USE DEF TypeInv, RankedTypeOK, Cancels
<1> DEFINE u == request[i].by
<1>1. u \in Players /\ request[i].held \in Nat
      BY DEF PlayersNamed, Live, Waiting, Requests
<1>2. reserved[u] \in Nat /\ request[i].held <= reserved[u] /\ Smaller(request[i].held, fee) \in Nat
      /\ Smaller(request[i].held, fee) <= request[i].held
      BY <1>1 DEF Returns, Smaller
<1>3. available' \in [Players -> Nat] /\ reserved' \in [Players -> Nat] /\ spent' \in Nat
      BY <1>1, <1>2 DEF Returns
<1>4. /\ request' \in [Invitations -> Requests]
      /\ request'[i].by = request[i].by /\ request'[i].status = "CANCELLED"
      /\ \A j \in Invitations : j # i => request'[j] = request[j]
  <2> DEFINE q == [request[i] EXCEPT !.status = "CANCELLED", !.held = 0, !.keyed = FALSE]
  <2>1. q \in Requests /\ q.by = u /\ q.status = "CANCELLED"
        BY DEF Requests
  <2>2. request' = [request EXCEPT ![i] = q]
        BY DEF Closes
  <2> HIDE DEF q
  <2> QED BY <2>1, <2>2
<1>5. offer' \in [Invitations -> [Players -> OfferStatuses]]
      BY DEF Closes, Supersedes, OfferStatuses
<1> QED BY <1>1, <1>3, <1>4, <1>5

LEMMA InvitationStepTyped ==
    ASSUME TypeInv, NEW i \in Invitations, InvitationStep(i),
           ~\E c \in Players, g \in Games : Accept(i, c, g)
    PROVE  TypeInv'
<1> USE DEF TypeInv, RankedTypeOK
<1>1. CASE CancelInvitation(i)
  <2>1. ManualFee \in Nat
        BY DaysAssumption
  <2> QED BY <1>1, <2>1, CancelsTyped, InvitationTyped DEF CancelInvitation, PlayersNamed
<1>2. CASE RefreshOffers(i)
  <2>1. PICK chosen \in SUBSET Players :
            /\ request' = IF chosen = {} THEN [request EXCEPT ![i].status = "SEARCHING"]
                          ELSE [request EXCEPT ![i].status = "OFFERED", ![i].keyed = TRUE]
            /\ OffersTo(i, chosen)
        BY <1>2 DEF RefreshOffers, Candidates
  <2>2. /\ request' \in [Invitations -> Requests]
        /\ request'[i].by = request[i].by /\ request'[i].status # "NONE"
        /\ \A j \in Invitations : j # i => request'[j] = request[j]
    <3> DEFINE q == [request[i] EXCEPT !.status = "SEARCHING"]
               p == [request[i] EXCEPT !.status = "OFFERED", !.keyed = TRUE]
    <3>0. {"SEARCHING", "OFFERED"} \subseteq Live
          BY DEF Live, Waiting
    <3>1. CASE chosen = {}
      <4>1. q \in Requests /\ q.by = request[i].by /\ q.status = "SEARCHING"
            BY <3>0 DEF Requests
      <4>2. request' = [request EXCEPT ![i] = q]
            BY <2>1, <3>1
      <4> HIDE DEF q
      <4> QED BY <4>1, <4>2
    <3>2. CASE chosen # {}
      <4>1. p \in Requests /\ p.by = request[i].by /\ p.status = "OFFERED"
            BY <3>0 DEF Requests
      <4>2. request' = [request EXCEPT ![i] = p]
            BY <2>1, <3>2
      <4> HIDE DEF p
      <4> QED BY <4>1, <4>2
    <3> QED BY <3>1, <3>2
  <2>3. offer' \in [Invitations -> [Players -> OfferStatuses]]
        BY <2>1 DEF OffersTo, OfferStatuses
  <2>4. request[i].by \in Players
        BY <1>2 DEF RefreshOffers, PlayersNamed, Waiting
  <2> QED BY <1>2, <2>2, <2>3, <2>4, InvitationTyped DEF RefreshOffers, dayVars, PlayersNamed
<1>3. ASSUME NEW u \in Players, AnswerTooLate(i, u) \/ Decline(i, u) PROVE TypeInv'
  <2>1. \E status \in OfferStatuses : offer' = [offer EXCEPT ![i] = [offer[i] EXCEPT ![u] = status]]
        BY <1>3 DEF AnswerTooLate, Decline, OfferStatuses
  <2>2. offer' \in [Invitations -> [Players -> OfferStatuses]]
        BY <2>1
  <2> QED BY <1>3, <2>2, InvitationTyped DEF AnswerTooLate, Decline, dayVars, PlayersNamed
<1> QED BY <1>1, <1>2, <1>3, CreateTyped DEF InvitationStep

(* A match that begins, with stakes in days. *)
LEMMA NewGameTyped ==
    ASSUME TypeInv, NEW g \in Games, NEW c \in Players, NEW u \in Players, c # u,
           NEW cs \in Nat, NEW ds \in Nat, NEW source \in Games, NewGame(g, c, u, cs, ds, source)
    PROVE  /\ game' \in [Games -> Matches]
           /\ game'[g].challenger = c /\ game'[g].defender = u /\ game'[g].source = source
           /\ game'[g].cstake = cs /\ game'[g].dstake = ds /\ game'[g].status = "PLAYING"
           /\ game'[g].ctier = tier[c] /\ game'[g].dtier = tier[u] /\ game'[g].paid = {}
           /\ \A h \in Games : h # g => game'[h] = game[h]
           /\ game[g].status = "NONE" /\ ~HasMatchLock(c) /\ ~HasMatchLock(u)
<1> DEFINE q == [status |-> "PLAYING", challenger |-> c, defender |-> u, cstake |-> cs,
                 dstake |-> ds, ctier |-> tier[c], dtier |-> tier[u], source |-> source,
                 uploads |-> 0, paid |-> {}]
<1>0. tier[c] \in Tiers /\ tier[u] \in Tiers
      BY DEF TypeInv, RankedTypeOK
<1>1. q \in Matches
      BY <1>0 DEF Matches, InPlay
<1>2. game' = [game EXCEPT ![g] = q]
      BY DEF NewGame
<1> HIDE DEF q
<1>3. game' \in [Games -> Matches] /\ game'[g] = q /\ \A h \in Games : h # g => game'[h] = game[h]
      BY <1>1, <1>2 DEF TypeInv, RankedTypeOK
<1> QED BY <1>3 DEF NewGame, q

(* A match whose status changes. *)
LEMMA StatusTyped ==
    ASSUME TypeInv, NEW g \in Games,
           NEW status \in InPlay \cup {"NONE", "HELD", "SETTLED", "CANCELLED"}, InStatus(g, status)
    PROVE  /\ OnlyGame(g) /\ game'[g].status = status
           /\ game'[g].uploads = game[g].uploads /\ game'[g].paid = game[g].paid
<1> DEFINE q == [game[g] EXCEPT !.status = status]
<1>1. game[g] \in Matches
      BY DEF TypeInv, RankedTypeOK
<1>2. /\ q \in Matches /\ q.status = status /\ q.challenger = game[g].challenger
      /\ q.defender = game[g].defender /\ q.cstake = game[g].cstake
      /\ q.dstake = game[g].dstake /\ q.ctier = game[g].ctier /\ q.dtier = game[g].dtier
      /\ q.source = game[g].source /\ q.uploads = game[g].uploads /\ q.paid = game[g].paid
      BY <1>1 DEF Matches
<1>3. game' = [game EXCEPT ![g] = q]
      BY DEF InStatus
<1> HIDE DEF q
<1>4. game' \in [Games -> Matches] /\ game'[g] = q /\ \A h \in Games : h # g => game'[h] = game[h]
      BY <1>2, <1>3 DEF TypeInv, RankedTypeOK
<1> QED BY <1>2, <1>4 DEF OnlyGame, SameTerms

(* A match that something is uploaded of. *)
LEMMA UploadTyped ==
    ASSUME TypeInv, NEW g \in Games, Upload(g)
    PROVE  /\ OnlyGame(g) /\ game'[g].status \in {game[g].status, "PLAYING", "SUBMITTED", "HELD"}
           /\ game[g].uploads < 2 /\ game'[g].uploads = game[g].uploads + 1
           /\ game'[g].paid = game[g].paid
<1>1. game[g] \in Matches
      BY DEF TypeInv, RankedTypeOK
<1>2. PICK status \in {game[g].status, "PLAYING", "SUBMITTED", "HELD"} :
        game' = [game EXCEPT ![g].status = status, ![g].uploads = @ + 1]
      BY DEF Upload
<1> DEFINE q == [game[g] EXCEPT !.status = status, !.uploads = @ + 1]
<1>3. game[g].uploads \in 0..2 /\ game[g].uploads < 2 /\ game[g].uploads + 1 \in 0..2
      BY <1>1 DEF Upload, Matches
<1>4. /\ q \in Matches /\ q.status = status /\ q.challenger = game[g].challenger
      /\ q.defender = game[g].defender /\ q.cstake = game[g].cstake
      /\ q.dstake = game[g].dstake /\ q.ctier = game[g].ctier /\ q.dtier = game[g].dtier
      /\ q.source = game[g].source /\ q.uploads = game[g].uploads + 1 /\ q.paid = game[g].paid
      BY <1>1, <1>3 DEF Matches, InPlay
<1>5. game' = [game EXCEPT ![g] = q]
      BY <1>2
<1> HIDE DEF q
<1>6. game' \in [Games -> Matches] /\ game'[g] = q /\ \A h \in Games : h # g => game'[h] = game[h]
      BY <1>4, <1>5 DEF TypeInv, RankedTypeOK
<1> QED BY <1>3, <1>4, <1>6 DEF OnlyGame, SameTerms

(* A match that is ended. *)
LEMMA ClosedTyped ==
    ASSUME TypeInv, NEW g \in Games, NEW kind \in Endings, Closed(g, kind)
    PROVE  /\ OnlyGame(g) /\ game'[g].status = Ending(kind)
           /\ game'[g].uploads = game[g].uploads /\ game'[g].paid = game[g].paid \cup {kind}
<1> DEFINE q == [game[g] EXCEPT !.status = Ending(kind), !.paid = @ \cup {kind}]
<1>1. game[g] \in Matches /\ Ending(kind) \in {"SETTLED", "CANCELLED"}
      BY DEF TypeInv, RankedTypeOK, Ending
<1>2. /\ q \in Matches /\ q.status = Ending(kind) /\ q.challenger = game[g].challenger
      /\ q.defender = game[g].defender /\ q.cstake = game[g].cstake
      /\ q.dstake = game[g].dstake /\ q.ctier = game[g].ctier /\ q.dtier = game[g].dtier
      /\ q.source = game[g].source /\ q.uploads = game[g].uploads
      /\ q.paid = game[g].paid \cup {kind}
      BY <1>1 DEF Matches
<1>3. game' = [game EXCEPT ![g] = q]
      BY DEF Closed
<1> HIDE DEF q
<1>4. game' \in [Games -> Matches] /\ game'[g] = q /\ \A h \in Games : h # g => game'[h] = game[h]
      BY <1>2, <1>3 DEF TypeInv, RankedTypeOK
<1> QED BY <1>2, <1>4 DEF OnlyGame, SameTerms

(* The two players of a match that was made. *)
LEMMA TwoParties ==
    ASSUME TypeInv, NEW g \in Games, game[g].status # "NONE"
    PROVE  /\ game[g].challenger \in Players /\ game[g].defender \in Players
           /\ game[g].challenger # game[g].defender
           /\ game[g].cstake \in Nat /\ game[g].dstake \in Nat /\ game[g].source \in Games
<1>1. game[g] \in Matches
      BY DEF TypeInv, RankedTypeOK
<1> QED BY <1>1 DEF TypeInv, PlayersNamed, Matches

(* A match that ends, with what its players get. *)
LEMMA EndsTyped ==
    ASSUME TypeInv, NEW g \in Games, game[g].status # "NONE", NEW kind \in Endings,
           NEW toC \in Int, NEW toD \in Int, NEW burned \in Nat,
           available[game[g].challenger] + toC >= 0, available[game[g].defender] + toD >= 0,
           Ends(g, kind, toC, toD, burned)
    PROVE  /\ available' \in [Players -> Nat] /\ locked' \in [Players -> Nat] /\ spent' \in Nat
           /\ OnlyGame(g)
<1> DEFINE c == game[g].challenger
           d == game[g].defender
<1>1. c \in Players /\ d \in Players /\ c # d /\ game[g].cstake \in Nat /\ game[g].dstake \in Nat
      BY TwoParties
<1>2. /\ available \in [Players -> Nat] /\ locked \in [Players -> Nat] /\ spent \in Nat
      BY DEF TypeInv, RankedTypeOK
<1>3. available[c] \in Nat /\ available[d] \in Nat /\ locked[c] \in Nat /\ locked[d] \in Nat
      BY <1>1, <1>2
<1>4. available[c] + toC \in Nat /\ available[d] + toD \in Nat
      BY <1>3
<1>5. available' \in [Players -> Nat]
  <2>1. available' = [available EXCEPT ![c] = available[c] + toC, ![d] = available[d] + toD]
        BY <1>1, <1>2 DEF Ends
  <2> QED BY <1>1, <1>2, <1>4, <2>1
<1>6. locked' \in [Players -> Nat]
  <2>1. locked' = [locked EXCEPT ![c] = locked[c] - game[g].cstake, ![d] = locked[d] - game[g].dstake]
        BY <1>1, <1>2 DEF Ends
  <2>2. locked[c] - game[g].cstake \in Nat /\ locked[d] - game[g].dstake \in Nat
        BY <1>1, <1>3 DEF Ends
  <2> QED BY <1>1, <1>2, <2>1, <2>2
<1>7. spent' \in Nat
      BY <1>2 DEF Ends
<1> QED BY <1>5, <1>6, <1>7, ClosedTyped DEF Ends

LEMMA SwapTyped ==
    ASSUME TypeInv, NEW g \in Games, game[g].status # "NONE", Swap(g) \/ UNCHANGED tier
    PROVE  tier' \in [Players -> Tiers]
BY TwoParties DEF Swap, TypeInv, RankedTypeOK

(* The matches of a step that keeps them typed and their players named. *)
LEMMA GameTyped ==
    ASSUME TypeInv, UNCHANGED <<phase, reserved, invitationVars, jobVars>>,
           available' \in [Players -> Nat], locked' \in [Players -> Nat], spent' \in Nat,
           tier' \in [Players -> Tiers], game' \in [Games -> Matches], right' \in [Games -> Rights],
           NEW g \in Games,
           \A h \in Games : h # g => game'[h] = game[h],
           game'[g].status # "NONE" => /\ game'[g].challenger \in Players
                                       /\ game'[g].defender \in Players
                                       /\ game'[g].challenger # game'[g].defender,
           game'[g].source # g => right[game'[g].source].status # "NONE",
           \A h \in Games : RightKept(h)
    PROVE  TypeInv'
<1>1. RankedTypeOK'
      BY DEF TypeInv, RankedTypeOK, invitationVars, jobVars
<1>2. \A h \in Games : game[h].source \in Games /\ game'[h].source \in Games
      BY DEF TypeInv, RankedTypeOK, Matches
<1>3. \A h \in Games : right[h].status # "NONE" => right'[h].status # "NONE"
      BY DEF RightKept
<1>4. \A h \in Games : game'[h].source # h => right'[game'[h].source].status # "NONE"
      BY <1>2, <1>3 DEF TypeInv, PlayersNamed, IsRevenge
<1>5. PlayersNamed'
      BY <1>4 DEF TypeInv, PlayersNamed, IsRevenge, invitationVars, jobVars, RightKept
<1> QED BY <1>1, <1>5 DEF TypeInv

(* Two players that may meet are two. *)
LEMMA MayMeetTwo ==
    ASSUME TypeInv, NEW u \in Players, NEW c \in Players, MayMeet(u, c)
    PROVE  u # c
<1>1. tier[u] \in Tiers
      BY DEF TypeInv, RankedTypeOK
<1>2. tier[u] \in Int
      BY <1>1, DaysAssumption
<1>3. tier[u] - tier[u] = 0
      BY <1>2
<1> QED BY <1>3 DEF MayMeet, Gap, MaxGap

LEMMA UpwardTyped ==
    ASSUME TypeInv, NEW u \in Players, NEW c \in Players, NEW g \in Games, UpwardChallenge(u, c, g)
    PROVE  TypeInv'
<1>1. PICK stake \in Stakes :
        /\ stake < available[u]
        /\ NewGame(g, u, c, stake, 0, g)
        /\ available' = [available EXCEPT ![u] = @ - stake]
        /\ locked' = [locked EXCEPT ![u] = @ + stake]
      BY DEF UpwardChallenge
<1>2. stake \in Nat
      BY DaysAssumption
<1>3. available \in [Players -> Nat] /\ locked \in [Players -> Nat] /\ tier \in [Players -> Tiers]
      BY DEF TypeInv, RankedTypeOK
<1>4. available[u] - stake \in Nat /\ locked[u] + stake \in Nat /\ available[u] \in Nat
      BY <1>1, <1>2, <1>3
<1>5. available' \in [Players -> Nat] /\ locked' \in [Players -> Nat]
      BY <1>1, <1>3, <1>4
<1>6. u # c
      BY MayMeetTwo DEF UpwardChallenge
<1>7. NewGame(g, u, c, stake, 0, g) /\ 0 \in Nat
      BY <1>1
<1>8. /\ game' \in [Games -> Matches]
      /\ \A h \in Games : h # g => game'[h] = game[h]
      /\ game'[g].challenger = u /\ game'[g].defender = c /\ game'[g].source = g
      BY <1>2, <1>6, <1>7, NewGameTyped
<1>9. /\ UNCHANGED <<phase, reserved, invitationVars, jobVars>> /\ UNCHANGED right
      /\ spent' \in Nat /\ tier' \in [Players -> Tiers] /\ right' \in [Games -> Rights]
      BY DEF UpwardChallenge, TypeInv, RankedTypeOK
<1>10. \A h \in Games : RightKept(h)
       BY <1>9 DEF RightKept
<1>11. /\ game'[g].status # "NONE" => /\ game'[g].challenger \in Players
                                      /\ game'[g].defender \in Players
                                      /\ game'[g].challenger # game'[g].defender
       /\ game'[g].source # g => right[game'[g].source].status # "NONE"
       BY <1>6, <1>8
<1> HIDE DEF TypeInv
<1> QED BY <1>5, <1>8, <1>9, <1>10, <1>11, GameTyped

LEMMA RevengeTyped ==
    ASSUME TypeInv, NEW h \in Games, NEW g \in Games, StartRevenge(h, g)
    PROVE  TypeInv'
<1> DEFINE a == right[h].by
           d == right[h].against
           stake == right[h].stake
<1>1. a \in Players /\ d \in Players /\ stake \in Nat
      BY DEF StartRevenge, TypeInv, RankedTypeOK, PlayersNamed, Rights
<1>2. /\ available \in [Players -> Nat] /\ locked \in [Players -> Nat]
      /\ tier \in [Players -> Tiers] /\ spent \in Nat
      BY DEF TypeInv, RankedTypeOK
<1>3. available[a] - stake \in Nat /\ locked[a] + stake \in Nat
      BY <1>1, <1>2 DEF StartRevenge
<1>4. available' \in [Players -> Nat] /\ locked' \in [Players -> Nat]
      BY <1>2, <1>3 DEF StartRevenge
<1>5. a # d
      BY <1>1, MayMeetTwo DEF StartRevenge
<1>6. /\ game' \in [Games -> Matches]
      /\ game'[g].challenger = a /\ game'[g].defender = d /\ game'[g].source = h
      /\ \A k \in Games : k # g => game'[k] = game[k]
  <2>1. NewGame(g, a, d, stake, 0, h) /\ 0 \in Nat
        BY DEF StartRevenge
  <2> QED BY <1>1, <1>5, <2>1, NewGameTyped
<1>7. /\ right' \in [Games -> Rights]
      /\ \A k \in Games : RightKept(k)
  <2> DEFINE q == [right[h] EXCEPT !.status = "CLAIMED"]
  <2>1. q \in Rights /\ q.status # "NONE" /\ q.by = a /\ q.against = d
        BY DEF TypeInv, RankedTypeOK, Rights
  <2>2. right' = [right EXCEPT ![h] = q]
        BY DEF StartRevenge
  <2> HIDE DEF q
  <2>3. right \in [Games -> Rights]
        BY DEF TypeInv, RankedTypeOK
  <2>4. /\ right' \in [Games -> Rights] /\ right'[h] = q
        /\ \A k \in Games : k # h => right'[k] = right[k]
        BY <2>1, <2>2, <2>3
  <2>5. right'[h].status # "NONE" /\ right'[h].by \in Players /\ right'[h].against \in Players
        BY <1>1, <2>1, <2>4
  <2> QED BY <2>4, <2>5 DEF RightKept
<1> QED BY <1>1, <1>2, <1>4, <1>5, <1>6, <1>7, GameTyped DEF StartRevenge

LEMMA AcceptTyped ==
    ASSUME TypeInv, NEW i \in Invitations, NEW c \in Players, NEW g \in Games, Accept(i, c, g)
    PROVE  TypeInv'
<1> DEFINE u == request[i].by
           stake == request[i].stake
<1>1. u \in Players /\ stake \in Nat
      BY DEF Accept, Waiting, TypeInv, RankedTypeOK, PlayersNamed, Requests
<1>2. /\ available \in [Players -> Nat] /\ locked \in [Players -> Nat] /\ reserved \in [Players -> Nat]
      /\ tier \in [Players -> Tiers]
      BY DEF TypeInv, RankedTypeOK
<1>3. c # u
      BY <1>1, MayMeetTwo DEF Accept
<1>4. /\ game' \in [Games -> Matches]
      /\ game'[g].challenger = c /\ game'[g].defender = u /\ game'[g].source = g
      /\ \A h \in Games : h # g => game'[h] = game[h]
      BY <1>1, <1>3, NewGameTyped DEF Accept
<1>5. available[c] - stake \in Nat /\ reserved[u] - stake \in Nat
      BY <1>1, <1>2 DEF Accept
<1>6. available' \in [Players -> Nat] /\ reserved' \in [Players -> Nat]
      BY <1>1, <1>2, <1>5 DEF Accept
<1>7. locked' \in [Players -> Nat]
  <2>1. locked' = [locked EXCEPT ![u] = @ + stake, ![c] = @ + stake]
        BY DEF Accept
  <2>2. locked[u] + stake \in Nat /\ locked[c] + stake \in Nat
        BY <1>1, <1>2
  <2> QED BY <1>1, <1>2, <1>3, <2>1, <2>2
<1>8. /\ request' \in [Invitations -> Requests]
      /\ request'[i].status = "MATCHED" /\ request'[i].by = u
      /\ \A j \in Invitations : j # i => request'[j] = request[j]
  <2> DEFINE q == [request[i] EXCEPT !.status = "MATCHED", !.held = 0, !.keyed = FALSE]
  <2>1. q \in Requests /\ q.by = u /\ q.status = "MATCHED"
        BY DEF TypeInv, RankedTypeOK, Requests
  <2>2. request' = [request EXCEPT ![i] = q]
        BY DEF Accept
  <2> HIDE DEF q
  <2> QED BY <2>1, <2>2 DEF TypeInv, RankedTypeOK
<1>9. offer' \in [Invitations -> [Players -> OfferStatuses]]
  <2>1. Supersedes(i, {"OFFERED"}, c) \in [Players -> OfferStatuses]
        BY DEF Supersedes, OfferStatuses, TypeInv, RankedTypeOK
  <2>2. [Supersedes(i, {"OFFERED"}, c) EXCEPT ![c] = "ACCEPTED"] \in [Players -> OfferStatuses]
        BY <2>1 DEF OfferStatuses
  <2> QED BY <2>2 DEF Accept, TypeInv, RankedTypeOK
<1>10. RankedTypeOK'
  <2>1. UNCHANGED <<phase, spent, overwritten, right, tier, job, deaths>>
        BY DEF Accept, jobVars
  <2> QED BY <1>4, <1>6, <1>7, <1>8, <1>9, <2>1 DEF TypeInv, RankedTypeOK
<1>11. PlayersNamed'
  <2>1. UNCHANGED <<right, job>> /\ PlayersNamed
        BY DEF Accept, jobVars, TypeInv
  <2>2. \A h \in Games : game'[h].status # "NONE" =>
            /\ game'[h].challenger \in Players /\ game'[h].defender \in Players
            /\ game'[h].challenger # game'[h].defender
        BY <1>1, <1>3, <1>4, <2>1 DEF PlayersNamed
  <2>3. \A h \in Games : game'[h].source # h => right'[game'[h].source].status # "NONE"
        BY <1>4, <2>1 DEF PlayersNamed, IsRevenge
  <2>4. \A j \in Invitations : /\ request'[j].status # "NONE" => request'[j].by \in Players
                               /\ request[j].status # "NONE" => request'[j].status # "NONE"
        BY <1>1, <1>8, <2>1 DEF PlayersNamed
  <2>5. job.ids \subseteq Invitations /\ job.at \subseteq Invitations
        BY DEF TypeInv, RankedTypeOK, Jobs
  <2> QED BY <2>1, <2>2, <2>3, <2>4, <2>5 DEF PlayersNamed, IsRevenge
<1> QED BY <1>10, <1>11 DEF TypeInv

(* A right of revenge that is written with its players. *)
LEMMA SettlingTyped ==
    ASSUME TypeInv, NEW g \in Games, game[g].status # "NONE", NEW kind \in Endings,
           NEW toC \in Int, NEW toD \in Int, NEW burned \in Nat,
           available[game[g].challenger] + toC >= 0, available[game[g].defender] + toD >= 0,
           Ends(g, kind, toC, toD, burned), Swap(g) \/ UNCHANGED tier,
           UNCHANGED <<phase, reserved, invitationVars, jobVars>>,
           right' \in [Games -> Rights],
           \A h \in Games : RightKept(h)
    PROVE  TypeInv'
<1>1. IsRevenge(g) => right[game[g].source].status # "NONE"
      BY DEF TypeInv, PlayersNamed
<1>2. /\ game[g].challenger \in Players /\ game[g].defender \in Players
      /\ game[g].challenger # game[g].defender
      BY TwoParties
<1>3. /\ available' \in [Players -> Nat] /\ locked' \in [Players -> Nat] /\ spent' \in Nat
      /\ OnlyGame(g)
      BY EndsTyped
<1>4. tier' \in [Players -> Tiers]
      BY SwapTyped
<1>5. /\ game' \in [Games -> Matches]
      /\ game'[g].challenger = game[g].challenger /\ game'[g].defender = game[g].defender
      /\ \A h \in Games : h # g => game'[h] = game[h]
      /\ game'[g].source # g => right[game'[g].source].status # "NONE"
      BY <1>1, <1>3 DEF IsRevenge, OnlyGame, SameTerms
<1> QED BY <1>2, <1>3, <1>4, <1>5, GameTyped

LEMMA PaysWinnerTyped ==
    ASSUME TypeInv, NEW g \in Games, game[g].status # "NONE", NEW wins \in BOOLEAN,
           PaysWinner(g, wins), UNCHANGED <<phase, reserved, invitationVars, jobVars>>,
           right' \in [Games -> Rights],
           \A h \in Games : RightKept(h)
    PROVE  TypeInv'
<1>1. /\ game[g].challenger \in Players /\ game[g].defender \in Players
      /\ AtStake(g) \in Nat
      BY TwoParties DEF AtStake
<1>2. available[game[g].challenger] \in Nat /\ available[game[g].defender] \in Nat
      BY <1>1 DEF TypeInv, RankedTypeOK
<1>3. \E toC, toD \in Nat : Ends(g, "SETTLED", toC, toD, 0) /\ (Swap(g) \/ UNCHANGED tier)
      BY <1>1 DEF PaysWinner
<1>4. PICK toC \in Nat, toD \in Nat :
        Ends(g, "SETTLED", toC, toD, 0) /\ (Swap(g) \/ UNCHANGED tier)
      BY <1>3
<1>5. /\ available[game[g].challenger] + toC >= 0 /\ available[game[g].defender] + toD >= 0
      /\ toC \in Int /\ toD \in Int /\ 0 \in Nat /\ "SETTLED" \in Endings
      BY <1>2 DEF Endings
<1> QED BY <1>4, <1>5, SettlingTyped

(* A status that is no end, or an end for which nobody is paid by the other. *)
LEMMA StatusStepTyped ==
    ASSUME TypeInv, NEW g \in Games,
           Upload(g) \/ Hold(g) \/ ReviewClear(g) \/ ForfeitRevenge(g) \/ CancelGame(g)
    PROVE  TypeInv'
<1> USE DEF TypeInv, RankedTypeOK
<1>1. UNCHANGED right => \A h \in Games : RightKept(h)
      BY DEF RightKept
<1>2. ASSUME OnlyGame(g), game[g].status # "NONE",
             UNCHANGED <<phase, dayVars, invitationVars, right, tier, jobVars>>
      PROVE  TypeInv'
  <2>1. /\ game[g].challenger \in Players /\ game[g].defender \in Players
        /\ game[g].challenger # game[g].defender
        /\ (game[g].source # g => right[game[g].source].status # "NONE")
        BY <1>2, TwoParties DEF PlayersNamed, IsRevenge
  <2>2. /\ UNCHANGED <<phase, reserved, invitationVars, jobVars>> /\ UNCHANGED right
        /\ available' \in [Players -> Nat] /\ locked' \in [Players -> Nat] /\ spent' \in Nat
        /\ tier' \in [Players -> Tiers] /\ right' \in [Games -> Rights]
        BY <1>2 DEF dayVars
  <2> HIDE DEF TypeInv, RankedTypeOK
  <2> QED BY <1>1, <1>2, <2>1, <2>2, GameTyped DEF OnlyGame, SameTerms
<1>3. CASE Hold(g) \/ ReviewClear(g)
  <2>1. PICK status \in InPlay \cup {"HELD"} : InStatus(g, status)
        BY <1>3 DEF Hold, ReviewClear, InPlay
  <2> QED BY <1>2, <1>3, <2>1, StatusTyped DEF Hold, ReviewClear, Undecided, InPlay
<1>4. CASE Upload(g)
      BY <1>2, <1>4, UploadTyped DEF Upload
<1>5. CASE ForfeitRevenge(g)
  <2> DEFINE q == [right[g] EXCEPT !.status = "FORFEITED"]
  <2>1. right' = [right EXCEPT ![g] = q] /\ right[g].status # "NONE"
        BY <1>5 DEF ForfeitRevenge
  <2>2. q \in Rights /\ q.status # "NONE" /\ q.by = right[g].by /\ q.against = right[g].against
        BY DEF Rights
  <2> HIDE DEF q
  <2>3. right' \in [Games -> Rights] /\ \A h \in Games : RightKept(h)
        BY <2>1, <2>2 DEF PlayersNamed, RightKept
  <2>4. /\ UNCHANGED <<phase, reserved, invitationVars, jobVars>> /\ UNCHANGED game
        /\ available' \in [Players -> Nat] /\ locked' \in [Players -> Nat] /\ spent' \in Nat
        /\ tier' \in [Players -> Tiers] /\ game' \in [Games -> Matches]
        BY <1>5 DEF ForfeitRevenge, dayVars
  <2>5. /\ (game'[g].status # "NONE" => /\ game'[g].challenger \in Players
                                       /\ game'[g].defender \in Players
                                       /\ game'[g].challenger # game'[g].defender)
        /\ (game'[g].source # g => right[game'[g].source].status # "NONE")
        /\ \A h \in Games : h # g => game'[h] = game[h]
        BY <2>4 DEF PlayersNamed, IsRevenge
  <2> HIDE DEF TypeInv, RankedTypeOK
  <2> QED BY <2>3, <2>4, <2>5, GameTyped
<1>6. CASE CancelGame(g)
  <2>1. game[g].status # "NONE"
        BY <1>6 DEF CancelGame, InPlay
  <2>2. /\ game[g].challenger \in Players /\ game[g].defender \in Players
        /\ game[g].cstake \in Nat /\ game[g].dstake \in Nat
        BY <2>1, TwoParties
  <2>3. /\ available[game[g].challenger] + game[g].cstake >= 0
        /\ available[game[g].defender] + game[g].dstake >= 0
        /\ game[g].cstake \in Int /\ game[g].dstake \in Int /\ 0 \in Nat
        BY <2>2
  <2>4. /\ \E kind \in Endings : Ends(g, kind, game[g].cstake, game[g].dstake, 0)
        /\ UNCHANGED <<phase, reserved, invitationVars, jobVars>> /\ UNCHANGED right /\ UNCHANGED tier
        /\ right' \in [Games -> Rights]
        BY <1>6 DEF CancelGame, Endings
  <2> HIDE DEF TypeInv, RankedTypeOK
  <2> QED BY <1>1, <2>1, <2>3, <2>4, SettlingTyped
<1> QED BY <1>3, <1>4, <1>5, <1>6

LEMMA ScoreTyped ==
    ASSUME TypeInv, NEW g \in Games, NEW wins \in BOOLEAN, SettleByScore(g, wins) \/ Forfeit(g, wins)
    PROVE  TypeInv'
<1>1. game[g].status # "NONE"
      BY DEF SettleByScore, Forfeit, Undecided, InPlay
<1>2. PaysWinner(g, wins) /\ UNCHANGED <<phase, reserved, invitationVars, jobVars>>
      BY DEF SettleByScore, Forfeit
<1>3. right' \in [Games -> Rights] /\ \A h \in Games : RightKept(h)
  <2>1. CASE Forfeit(g, wins)
        BY <2>1 DEF Forfeit, RightKept, TypeInv, RankedTypeOK
  <2>2. CASE SettleByScore(g, wins)
    <3> DEFINE q == right'[g]
    <3>1. /\ game[g].challenger \in Players /\ game[g].defender \in Players
          /\ game[g].cstake \in Nat
          BY <1>1, TwoParties
    <3>2. PICK loser \in Players, winner \in Players :
            right' = [right EXCEPT ![g] = [status |-> "AVAILABLE", by |-> loser,
                                           stake |-> 2 * game[g].cstake, against |-> winner]]
      <4>1. CASE wins
            BY <2>2, <3>1, <4>1 DEF SettleByScore
      <4>2. CASE ~wins
            BY <2>2, <3>1, <4>2 DEF SettleByScore
      <4> QED BY <4>1, <4>2
    <3>3. [status |-> "AVAILABLE", by |-> loser, stake |-> 2 * game[g].cstake, against |-> winner]
            \in Rights
          BY <3>1 DEF Rights
    <3> QED BY <3>2, <3>3 DEF RightKept, TypeInv, RankedTypeOK
  <2> QED BY <2>1, <2>2
<1> QED BY <1>1, <1>2, <1>3, PaysWinnerTyped

(* No fine is more than what it is a third of. *)
LEMMA ThirdIsLess == \A n \in Nat : Third(n) \in Nat /\ Third(n) <= n
BY DEF Third

LEMMA SmallerTyped == \A m, n \in Nat : Smaller(m, n) \in Nat /\ Smaller(m, n) <= m
BY DEF Smaller

LEMMA SettleRevengeTyped ==
    ASSUME TypeInv, NEW g \in Games, NEW winner \in RevengeOutcomes, SettleRevenge(g, winner)
    PROVE  TypeInv'
<1> DEFINE c == game[g].challenger
           d == game[g].defender
           fee == Smaller(game[g].cstake, RevengeFee)
           h == game[g].source
<1>1. game[g].status # "NONE" /\ "SETTLED" \in Endings
      BY DEF SettleRevenge, Undecided, InPlay, Endings
<1>2. c \in Players /\ d \in Players /\ game[g].cstake \in Nat /\ h \in Games
      BY <1>1, TwoParties
<1>3. fee \in Nat /\ game[g].cstake - fee \in Nat
  <2>1. RevengeFee \in Nat
        BY DaysAssumption
  <2>2. fee \in Nat /\ fee <= game[g].cstake
        BY <1>2, <2>1, SmallerTyped
  <2> QED BY <1>2, <2>2
<1>4. available[c] \in Nat /\ available[d] \in Nat
      BY <1>2 DEF TypeInv, RankedTypeOK
<1>5. PICK toC \in Nat, toD \in Nat, burned \in Nat :
        Ends(g, "SETTLED", toC, toD, burned) /\ (Swap(g) \/ UNCHANGED tier)
      BY <1>2, <1>3 DEF SettleRevenge
<1>6. right' \in [Games -> Rights] /\ \A k \in Games : RightKept(k)
  <2> DEFINE q == [right[h] EXCEPT !.status = "CONSUMED"]
  <2>1. right' = [right EXCEPT ![h] = q]
        BY DEF SettleRevenge
  <2>2. right[h].status # "NONE" /\ right[h].by \in Players /\ right[h].against \in Players
        BY <1>2 DEF SettleRevenge, TypeInv, PlayersNamed
  <2>3. q \in Rights /\ q.status # "NONE" /\ q.by = right[h].by /\ q.against = right[h].against
    <3>1. right[h] \in Rights
          BY <1>2 DEF TypeInv, RankedTypeOK
    <3> QED BY <3>1 DEF Rights
  <2> HIDE DEF q
  <2> QED BY <1>2, <2>1, <2>2, <2>3 DEF RightKept, TypeInv, RankedTypeOK
<1>7. UNCHANGED <<phase, reserved, invitationVars, jobVars>>
      BY DEF SettleRevenge
<1>8. available[c] + toC >= 0 /\ available[d] + toD >= 0 /\ toC \in Int /\ toD \in Int
      BY <1>4
<1> QED BY <1>1, <1>5, <1>6, <1>7, <1>8, SettlingTyped

LEMMA CheatingTyped ==
    ASSUME TypeInv, NEW g \in Games, NEW cheats \in SUBSET Parties(g), ReviewCheating(g, cheats)
    PROVE  TypeInv'
<1> DEFINE c == game[g].challenger
           d == game[g].defender
           toC == IF d \in cheats /\ c \notin cheats THEN AtStake(g) ELSE 0
           toD == IF c \in cheats /\ d \notin cheats THEN AtStake(g) ELSE 0
           fineC == IF c \in cheats THEN Third(available[c] + toC) ELSE 0
           fineD == IF d \in cheats THEN Third(available[d] + toD) ELSE 0
           burned == IF {c, d} \subseteq cheats THEN AtStake(g) ELSE 0
<1>1. game[g].status # "NONE" /\ "JUDGED" \in Endings
      BY DEF ReviewCheating, Endings
<1>2. c \in Players /\ d \in Players /\ AtStake(g) \in Nat
      BY <1>1, TwoParties DEF AtStake
<1>3. available[c] \in Nat /\ available[d] \in Nat
      BY <1>2 DEF TypeInv, RankedTypeOK
<1>4. toC \in Nat /\ toD \in Nat /\ burned \in Nat
      BY <1>2
<1>5. /\ fineC \in Nat /\ fineC <= available[c] + toC
      /\ fineD \in Nat /\ fineD <= available[d] + toD
  <2>1. available[c] + toC \in Nat /\ available[d] + toD \in Nat
        BY <1>3, <1>4
  <2> HIDE DEF toC, toD
  <2> QED BY <2>1, ThirdIsLess
<1>6. /\ Ends(g, "JUDGED", toC - fineC, toD - fineD, burned + fineC + fineD)
      /\ (Swap(g) \/ UNCHANGED tier)
      BY DEF ReviewCheating
<1>7. /\ UNCHANGED <<phase, reserved, invitationVars, jobVars>> /\ UNCHANGED right
      /\ right' \in [Games -> Rights] /\ \A k \in Games : RightKept(k)
      BY DEF ReviewCheating, RightKept, TypeInv, RankedTypeOK
<1> HIDE DEF toC, toD, fineC, fineD, burned
<1>8. /\ toC - fineC \in Int /\ toD - fineD \in Int /\ burned + fineC + fineD \in Nat
      /\ available[c] + (toC - fineC) >= 0 /\ available[d] + (toD - fineD) >= 0
      BY <1>3, <1>4, <1>5
<1> QED BY <1>1, <1>6, <1>7, <1>8, SettlingTyped

(* A turn of the daily job that keeps it typed. *)
LEMMA JobTyped ==
    ASSUME TypeInv, UNCHANGED <<phase, gameVars, locked>>,
           available' \in [Players -> Nat], reserved' \in [Players -> Nat], spent' \in Nat,
           request' \in [Invitations -> Requests],
           offer' \in [Invitations -> [Players -> OfferStatuses]],
           overwritten' \subseteq Invitations, job' \in Jobs, deaths' \in Nat,
           \A i \in Invitations : request[i].status # "NONE" =>
               request'[i].status # "NONE" /\ request'[i].by = request[i].by,
           \A i \in Invitations : request[i].status = "NONE" => request'[i].status = "NONE",
           \A i \in job'.ids \cup job'.at : request[i].status # "NONE"
    PROVE  TypeInv'
<1>1. RankedTypeOK'
      BY DEF TypeInv, RankedTypeOK, gameVars
<1>2. job'.ids \subseteq Invitations /\ job'.at \subseteq Invitations
      BY DEF Jobs
<1>3. PlayersNamed'
      BY <1>2 DEF TypeInv, PlayersNamed, gameVars, IsRevenge
<1> QED BY <1>1, <1>3 DEF TypeInv

LEMMA JobStepTyped ==
    ASSUME TypeInv, JobStep
    PROVE  TypeInv'
<1> USE DEF TypeInv, RankedTypeOK
<1>0. /\ job.ids \subseteq Invitations /\ job.at \subseteq Invitations
      /\ job.players \subseteq Players
      /\ \A i \in job.ids \cup job.at : request[i].status # "NONE"
      /\ Idle \in Jobs /\ Idle.ids = {} /\ Idle.at = {}
      BY DEF Jobs, PlayersNamed, Idle, JobSteps
\* Only the job itself moves on.
<1>1. ASSUME UNCHANGED <<phase, dayVars, invitationVars, gameVars, deaths>>, job' \in Jobs,
             \A i \in job'.ids \cup job'.at : request[i].status # "NONE"
      PROVE  TypeInv'
  <2>1. /\ UNCHANGED <<phase, gameVars, locked>> /\ UNCHANGED request
        /\ available' \in [Players -> Nat] /\ reserved' \in [Players -> Nat] /\ spent' \in Nat
        /\ request' \in [Invitations -> Requests]
        /\ offer' \in [Invitations -> [Players -> OfferStatuses]]
        /\ overwritten' \subseteq Invitations /\ deaths' \in Nat
        BY <1>1 DEF dayVars, invitationVars
  <2> HIDE DEF TypeInv, RankedTypeOK
  <2> QED BY <1>1, <2>1, JobTyped
<1>2. ASSUME NEW next \in JobSteps, GoesTo(next) PROVE job' \in Jobs /\ job'.ids = {} /\ job'.at = {}
      BY <1>2 DEF GoesTo, Idle, Jobs
<1>3. CASE JobBegins
  <2> DEFINE next == IF RequestsLocked THEN "PAUSE" ELSE "RESUME"
             wanted == IF RequestsLocked THEN Waiting ELSE {"PAUSED"}
             ids == {i \in Invitations : request[i].status \in wanted}
  <2>1. /\ job' = [Idle EXCEPT !.step = next, !.ids = ids]
        /\ \A i \in ids : request[i].status # "NONE"
        BY <1>3 DEF JobBegins, Waiting
  <2>2. next \in JobSteps /\ ids \in SUBSET Invitations
        BY DEF JobSteps
  <2> HIDE DEF next, ids
  <2>3. job' \in Jobs /\ job'.ids = ids /\ job'.at = {}
        BY <2>1, <2>2 DEF Idle, Jobs
  <2> QED BY <1>1, <1>3, <2>1, <2>3 DEF JobBegins
<1>4. CASE PauseRequests
  <2>1. \A i \in Invitations : /\ [request[i] EXCEPT !.status = "PAUSED"] \in Requests
                               /\ [request[i] EXCEPT !.status = "PAUSED"].by = request[i].by
                               /\ [request[i] EXCEPT !.status = "PAUSED"].status = "PAUSED"
        BY DEF Requests, Live
  <2>2. request' \in [Invitations -> Requests]
        BY <1>4, <2>1 DEF PauseRequests
  <2>3. \A i \in Invitations : /\ request'[i].by = request[i].by
                               /\ (request[i].status = "NONE" <=> request'[i].status = "NONE")
        BY <1>0, <1>4, <2>1 DEF PauseRequests
  <2>4. job' \in Jobs /\ job'.ids = job.ids /\ job'.at = job.at
        BY <1>4 DEF PauseRequests, Jobs, JobSteps
  <2>5. /\ UNCHANGED <<phase, gameVars, locked>>
        /\ available' \in [Players -> Nat] /\ reserved' \in [Players -> Nat] /\ spent' \in Nat
        /\ offer' \in [Invitations -> [Players -> OfferStatuses]]
        /\ overwritten' \subseteq Invitations /\ deaths' \in Nat
        BY <1>0, <1>4 DEF PauseRequests, dayVars
  <2> HIDE DEF TypeInv, RankedTypeOK
  <2> QED BY <1>0, <2>2, <2>3, <2>4, <2>5, JobTyped
\* Only offers are renamed.
<1>5. ASSUME UNCHANGED <<phase, dayVars, request, overwritten, gameVars, deaths>>, job' \in Jobs,
             offer' \in [Invitations -> [Players -> OfferStatuses]],
             \A i \in job'.ids \cup job'.at : request[i].status # "NONE"
      PROVE  TypeInv'
  <2>1. /\ UNCHANGED <<phase, gameVars, locked>> /\ UNCHANGED request
        /\ available' \in [Players -> Nat] /\ reserved' \in [Players -> Nat] /\ spent' \in Nat
        /\ request' \in [Invitations -> Requests]
        /\ overwritten' \subseteq Invitations /\ deaths' \in Nat
        BY <1>5 DEF dayVars
  <2> HIDE DEF TypeInv, RankedTypeOK
  <2> QED BY <1>5, <2>1, JobTyped
<1>6. \A i \in Invitations : \A from, to \in OfferStatuses :
        Renamed(i, from, to) \in [Players -> OfferStatuses]
      BY DEF Renamed
<1>7. CASE PauseOffers
  <2>1. job' \in Jobs /\ job'.ids = {} /\ job'.at = {}
        BY <1>2, <1>7 DEF PauseOffers, JobSteps
  <2>2. offer' \in [Invitations -> [Players -> OfferStatuses]]
        BY <1>6, <1>7 DEF PauseOffers, OfferStatuses
  <2> QED BY <1>5, <1>7, <2>1, <2>2 DEF PauseOffers
<1>8. ASSUME NEW i \in Invitations, ResumeOffers(i) PROVE TypeInv'
  <2> DEFINE found == \E c \in Players : offer[i][c] = "PAUSED"
  <2>1. job' = [job EXCEPT !.at = {i}, !.found = found] /\ found \in BOOLEAN /\ job \in Jobs
        BY <1>8 DEF ResumeOffers
  <2> HIDE DEF found
  <2>2. job' \in Jobs /\ job'.ids = job.ids /\ job'.at = {i}
        BY <2>1 DEF Jobs
  <2>3. Renamed(i, "PAUSED", "OFFERED") \in [Players -> OfferStatuses]
        BY <1>6 DEF OfferStatuses
  <2>4. offer' \in [Invitations -> [Players -> OfferStatuses]]
        BY <1>8, <2>3 DEF ResumeOffers
  <2>5. i \in job.ids
        BY <1>8 DEF ResumeOffers
  <2> QED BY <1>0, <1>5, <1>8, <2>2, <2>4, <2>5 DEF ResumeOffers
<1>9. ASSUME NEW i \in Invitations, ResumeRequest(i) PROVE TypeInv'
  <2>1. /\ job' \in Jobs /\ job'.ids = job.ids \ {i} /\ job'.at = {}
        BY <1>9 DEF ResumeRequest, Jobs
  <2>2. /\ request' \in [Invitations -> Requests]
        /\ \A j \in Invitations : /\ request'[j].by = request[j].by
                                  /\ (request[j].status = "NONE" <=> request'[j].status = "NONE")
    <3>1. CASE request[i].status # "PAUSED"
          BY <1>9, <3>1 DEF ResumeRequest
    <3>2. CASE request[i].status = "PAUSED"
      <4> DEFINE status == IF job.found THEN "OFFERED" ELSE "SEARCHING"
                 q == [request[i] EXCEPT !.status = status]
      <4>1. status \in Waiting
            BY DEF Waiting
      <4>2. request' = [request EXCEPT ![i] = q]
            BY <1>9, <3>2 DEF ResumeRequest
      <4>3. q \in Requests /\ q.by = request[i].by /\ q.status # "NONE"
        <5>1. request[i] \in Requests
              OBVIOUS
        <5> HIDE DEF status
        <5> QED BY <4>1, <5>1 DEF Requests, Live, Waiting
      <4> HIDE DEF q
      <4> QED BY <3>2, <4>2, <4>3
    <3> QED BY <3>1, <3>2
  <2>3. /\ UNCHANGED <<phase, gameVars, locked>>
        /\ available' \in [Players -> Nat] /\ reserved' \in [Players -> Nat] /\ spent' \in Nat
        /\ offer' \in [Invitations -> [Players -> OfferStatuses]]
        /\ overwritten' \subseteq Invitations /\ deaths' \in Nat
        BY <1>9 DEF ResumeRequest, dayVars
  <2> HIDE DEF TypeInv, RankedTypeOK
  <2> QED BY <1>0, <2>1, <2>2, <2>3, JobTyped
<1>10. CASE AllResumed
  <2>1. job' \in Jobs /\ job'.ids = {} /\ job'.at = {}
        BY <1>2, <1>10 DEF AllResumed, JobSteps
  <2> QED BY <1>1, <1>10, <2>1 DEF AllResumed
<1>11. CASE ListDepleted
  <2>1. job' \in Jobs /\ job'.ids = {} /\ job'.at = {}
        BY <1>11 DEF ListDepleted, Idle, Jobs, JobSteps
  <2> QED BY <1>1, <1>11, <2>1 DEF ListDepleted
<1>12. ASSUME NEW u \in Players, ListInvitations(u) PROVE TypeInv'
  <2> DEFINE ids == {i \in Invitations : request[i].by = u /\ request[i].status \in Live}
  <2>1. /\ job' = [job EXCEPT !.players = @ \ {u}, !.ids = ids]
        /\ \A i \in ids : request[i].status # "NONE"
        /\ ids \in SUBSET Invitations /\ job \in Jobs
        BY <1>12 DEF ListInvitations, Live, Waiting
  <2> HIDE DEF ids
  <2>2. job' \in Jobs /\ job'.ids = ids /\ job'.at = job.at
        BY <2>1 DEF Jobs
  <2> QED BY <1>0, <1>1, <1>12, <2>1, <2>2 DEF ListInvitations
<1>13. ASSUME NEW i \in Invitations, CancelListed(i) PROVE TypeInv'
  <2>1. AutomaticFee \in Nat
        BY DaysAssumption
  <2>2. /\ available' \in [Players -> Nat] /\ reserved' \in [Players -> Nat] /\ spent' \in Nat
        /\ request' \in [Invitations -> Requests]
        /\ offer' \in [Invitations -> [Players -> OfferStatuses]]
        /\ request'[i].by = request[i].by /\ request'[i].status = "CANCELLED"
        /\ \A j \in Invitations : j # i => request'[j] = request[j]
        BY <1>13, <2>1, CancelsTyped DEF CancelListed
  <2>3. job' \in Jobs /\ job'.ids = job.ids \ {i} /\ job'.at = job.at
        BY <1>13 DEF CancelListed, Jobs
  <2>4. request[i].status # "NONE"
        BY <1>13 DEF CancelListed, Live, Waiting
  <2>5. UNCHANGED <<phase, gameVars, locked>> /\ overwritten' \subseteq Invitations /\ deaths' \in Nat
        BY <1>13 DEF CancelListed
  <2>6. \A j \in Invitations : /\ request'[j].by = request[j].by
                               /\ (request[j].status = "NONE" <=> request'[j].status = "NONE")
        BY <2>2, <2>4
  <2> HIDE DEF TypeInv, RankedTypeOK
  <2> QED BY <1>0, <2>2, <2>3, <2>5, <2>6, JobTyped
<1>14. ASSUME NEW i \in Invitations, SkipCancelled(i) PROVE TypeInv'
  <2>1. job' \in Jobs /\ job'.ids = job.ids \ {i} /\ job'.at = job.at
        BY <1>14 DEF SkipCancelled, Jobs
  <2> QED BY <1>0, <1>1, <1>14, <2>1 DEF SkipCancelled
<1>15. ASSUME NEW i \in Invitations, CancellationThrows(i) PROVE TypeInv'
       BY <1>0, <1>1, <1>15 DEF CancellationThrows
<1>16. CASE JobEnds
       BY <1>0, <1>1, <1>16 DEF JobEnds
<1> QED BY <1>3, <1>4, <1>7, <1>8, <1>9, <1>10, <1>11, <1>12, <1>13, <1>14, <1>15, <1>16 DEF JobStep

LEMMA TypeStep == TypeInv /\ [RankedNext]_rankedVars => TypeInv'
<1> SUFFICES ASSUME TypeInv, [RankedNext]_rankedVars PROVE TypeInv'
    OBVIOUS
<1>1. CASE UNCHANGED rankedVars \/ WeekGoesOn \/ JobDies
  <2>1. RankedTypeOK'
    <3>1. UNCHANGED <<dayVars, invitationVars, gameVars>>
          BY <1>1 DEF rankedVars, WeekGoesOn, JobDies
    <3>2. phase' \in Phases
          BY <1>1 DEF rankedVars, WeekGoesOn, Advances, Phases, JobDies, TypeInv, RankedTypeOK
    <3>3. Idle \in Jobs
          BY DEF Idle, Jobs, JobSteps
    <3>4. job' \in Jobs /\ deaths' \in Nat
          BY <1>1, <3>3 DEF rankedVars, WeekGoesOn, JobDies, jobVars, TypeInv, RankedTypeOK
    <3> QED BY <3>1, <3>2, <3>4 DEF TypeInv, RankedTypeOK, dayVars, invitationVars, gameVars
  <2>2. PlayersNamed'
    <3>1. UNCHANGED <<game, right, request>> /\ (job' = job \/ (job'.ids = {} /\ job'.at = {}))
          BY <1>1 DEF rankedVars, WeekGoesOn, JobDies, invitationVars, gameVars, jobVars, Idle
    <3> QED BY <3>1 DEF TypeInv, PlayersNamed, IsRevenge
  <2> QED BY <2>1, <2>2 DEF TypeInv
<1>2. ASSUME NEW u \in Players, ConsumeDay(u) PROVE TypeInv'
  <2>1. RankedTypeOK'
        BY <1>2 DEF ConsumeDay, TypeInv, RankedTypeOK, invitationVars, gameVars, jobVars
  <2>2. PlayersNamed'
        BY <1>2 DEF ConsumeDay, TypeInv, PlayersNamed, IsRevenge, invitationVars, gameVars, jobVars
  <2> QED BY <2>1, <2>2 DEF TypeInv
<1>3. ASSUME NEW i \in Invitations, InvitationStep(i) PROVE TypeInv'
      BY <1>3, InvitationStepTyped, AcceptTyped
<1>4. ASSUME NEW g \in Games, GameStep(g) PROVE TypeInv'
      BY <1>4, StatusStepTyped, UpwardTyped, RevengeTyped, ScoreTyped, SettleRevengeTyped, CheatingTyped
      DEF GameStep
<1> QED BY <1>1, <1>2, <1>3, <1>4, JobStepTyped DEF RankedNext

----------------------------------------------------------------------------
(* What is locked. *)

(* A match that has ended was ended in some way, which stays recorded. *)
PaidInv ==
    \A g \in Games :
        /\ game[g].status = "NONE" => game[g].paid = {}
        /\ game[g].status \in {"SETTLED", "CANCELLED"} => game[g].paid # {}

LockedInv == PaidInv /\ StakeIsLocked

LEMMA LockedInit == RankedInit => LockedInv
BY DEF RankedInit, LockedInv, PaidInv, StakeIsLocked, NoGame, Unsettled, InPlay, Playing

LEMMA LockedLeftAlone ==
    ASSUME LockedInv, UNCHANGED <<game, locked>>
    PROVE  LockedInv'
BY DEF LockedInv, PaidInv, StakeIsLocked, Undisturbed, EndedBefore, StakeOf, Unsettled, Parties, Playing

(* A match goes on, or is put back in play, and nobody is paid. *)
LEMMA LockedKept ==
    ASSUME TypeInv, LockedInv, UNCHANGED locked, NEW g \in Games, OnlyGame(g), game[g].status # "NONE",
           game'[g].paid = game[g].paid,
           \/ game'[g].status = game[g].status
           \/ game'[g].status \in InPlay \cup {"HELD"}
    PROVE  LockedInv'
<1> USE DEF OnlyGame, SameTerms
<1>1. \A h \in Games : Parties(h)' = Parties(h) /\ (\A u : StakeOf(u, h)' = StakeOf(u, h))
      BY DEF Parties, StakeOf
<1>2. \A h \in Games : EndedBefore(h) => EndedBefore(h)'
      BY DEF EndedBefore, Unsettled
<1>3. ~EndedBefore(g)' => (Unsettled(g)' <=> Unsettled(g))
  <2>1. game[g].status \in InPlay \cup {"HELD", "SETTLED", "CANCELLED"}
        BY DEF TypeInv, RankedTypeOK, Matches
  <2> QED BY <2>1 DEF EndedBefore, Unsettled, LockedInv, PaidInv
<1>4. \A h \in Games : ~EndedBefore(h)' => (Unsettled(h)' <=> Unsettled(h))
      BY <1>3 DEF Unsettled
<1>5. PaidInv'
      BY DEF LockedInv, PaidInv, InPlay
<1>6. StakeIsLocked'
  <2> SUFFICES ASSUME NEW u \in Players, Undisturbed(u)'
               PROVE  /\ \A h \in Games : Unsettled(h)' /\ u \in Parties(h)' =>
                            /\ locked'[u] = StakeOf(u, h)'
                            /\ \A k \in Games \ {h} : Unsettled(k)' => u \notin Parties(k)'
                      /\ ~Playing(u)' => locked'[u] = 0
      BY DEF StakeIsLocked
  <2>1. Undisturbed(u) /\ \A h \in Games : u \in Parties(h) => (Unsettled(h)' <=> Unsettled(h))
        BY <1>1, <1>2, <1>4 DEF Undisturbed
  <2>2. Playing(u)' <=> Playing(u)
        BY <1>1, <2>1 DEF Playing
  <2> QED BY <1>1, <2>1, <2>2 DEF LockedInv, StakeIsLocked
<1> QED BY <1>5, <1>6 DEF LockedInv

(* Two players who have no match lock begin a match. *)
LEMMA LockedWhenBegun ==
    ASSUME TypeInv, LockedInv, NEW g \in Games, NEW c \in Players, NEW u \in Players, c # u,
           NEW cs \in Nat, NEW ds \in Nat, NEW source \in Games, NewGame(g, c, u, cs, ds, source),
           \A v \in Players : locked'[v] = IF v = c THEN cs ELSE IF v = u THEN ds ELSE locked[v]
    PROVE  LockedInv'
<1>1. /\ game'[g].challenger = c /\ game'[g].defender = u
      /\ game'[g].cstake = cs /\ game'[g].dstake = ds /\ game'[g].status = "PLAYING"
      /\ game'[g].paid = {}
      /\ \A h \in Games : h # g => game'[h] = game[h]
      /\ game[g].status = "NONE" /\ ~HasMatchLock(c) /\ ~HasMatchLock(u)
      BY NewGameTyped
<1>2. /\ Unsettled(g)' /\ ~Unsettled(g) /\ Parties(g)' = {c, u}
      /\ StakeOf(c, g)' = cs /\ StakeOf(u, g)' = ds
      BY <1>1 DEF Unsettled, InPlay, Parties, StakeOf
<1>3. \A h \in Games : h # g =>
        /\ Unsettled(h)' <=> Unsettled(h)
        /\ EndedBefore(h)' <=> EndedBefore(h)
        /\ Parties(h)' = Parties(h)
        /\ \A v : StakeOf(v, h)' = StakeOf(v, h)
      BY <1>1 DEF Unsettled, EndedBefore, Parties, StakeOf
<1>4. ~EndedBefore(g)
      BY <1>1 DEF EndedBefore, LockedInv, PaidInv
<1>5. PaidInv'
      BY <1>1 DEF LockedInv, PaidInv
<1>6. StakeIsLocked'
  <2> SUFFICES ASSUME NEW v \in Players, Undisturbed(v)'
               PROVE  /\ \A h \in Games : Unsettled(h)' /\ v \in Parties(h)' =>
                            /\ locked'[v] = StakeOf(v, h)'
                            /\ \A k \in Games \ {h} : Unsettled(k)' => v \notin Parties(k)'
                      /\ ~Playing(v)' => locked'[v] = 0
      BY DEF StakeIsLocked
  <2>1. Undisturbed(v)
        BY <1>3, <1>4 DEF Undisturbed
  <2>2. CASE v \in {c, u}
    <3>1. \A h \in Games : Unsettled(h) => v \notin Parties(h)
          BY <1>1, <2>1, <2>2 DEF HasMatchLock, Undisturbed, EndedBefore
    <3>2. Playing(v)'
          BY <1>2, <2>2 DEF Playing
    <3>3. \A h \in Games \ {g} : Unsettled(h)' => v \notin Parties(h)'
          BY <1>3, <3>1
    <3>4. locked'[v] = StakeOf(v, g)'
          BY <1>2, <2>2
    <3> QED BY <3>2, <3>3, <3>4
  <2>3. CASE v \notin {c, u}
    <3>1. Playing(v)' <=> Playing(v)
          BY <1>2, <1>3, <2>3 DEF Playing
    <3>2. locked'[v] = locked[v]
          BY <2>3
    <3>3. \A h \in Games : Unsettled(h)' /\ v \in Parties(h)' => h # g /\ Unsettled(h) /\ v \in Parties(h)
          BY <1>2, <1>3, <2>3
    <3> QED BY <1>3, <2>1, <3>1, <3>2, <3>3 DEF LockedInv, StakeIsLocked
  <2> QED BY <2>2, <2>3
<1> QED BY <1>5, <1>6 DEF LockedInv

(***************************************************************************)
(* A match ends.  If it had ended before, its parties are excepted from    *)
(* now on; and if not, their stakes are what is locked of them.            *)
(***************************************************************************)
LEMMA LockedWhenEnded ==
    ASSUME TypeInv, LockedInv, NEW g \in Games, game[g].status # "NONE", NEW kind \in Endings,
           NEW toC, NEW toD, NEW burned, Ends(g, kind, toC, toD, burned)
    PROVE  LockedInv'
<1> DEFINE c == game[g].challenger
           d == game[g].defender
<1>1. c \in Players /\ d \in Players /\ c # d /\ game[g].cstake \in Nat /\ game[g].dstake \in Nat
      BY TwoParties
<1>2. locked \in [Players -> Nat] /\ game[g].status \in InPlay \cup {"HELD", "SETTLED", "CANCELLED"}
      BY DEF TypeInv, RankedTypeOK, Matches
<1>3. OnlyGame(g) /\ game'[g].status = Ending(kind) /\ game'[g].paid = game[g].paid \cup {kind}
      BY ClosedTyped DEF Ends
<1>4. kind \notin game[g].paid /\ Ending(kind) \in {"SETTLED", "CANCELLED"}
      BY DEF Ends, Ending
<1>5. ~Unsettled(g)' /\ Parties(g) = {c, d}
      BY <1>3, <1>4 DEF Unsettled, InPlay, Parties
<1>6. game[g].paid # {} => EndedBefore(g)'
      BY <1>3, <1>4 DEF EndedBefore
<1>7. \A h \in Games : Parties(h)' = Parties(h) /\ \A u : StakeOf(u, h)' = StakeOf(u, h)
      BY <1>3 DEF OnlyGame, SameTerms, Parties, StakeOf
<1>8. \A h \in Games : h # g =>
        (Unsettled(h)' <=> Unsettled(h)) /\ (EndedBefore(h)' <=> EndedBefore(h))
      BY <1>3 DEF OnlyGame, Unsettled, EndedBefore
<1>9. \A h \in Games : EndedBefore(h) => EndedBefore(h)'
      BY <1>6, <1>8 DEF EndedBefore
<1>10. PaidInv'
       BY <1>3, <1>4 DEF LockedInv, PaidInv, OnlyGame
<1>11. locked'[c] = locked[c] - game[g].cstake /\ locked'[d] = locked[d] - game[g].dstake
       /\ \A v \in Players \ {c, d} : locked'[v] = locked[v]
       BY <1>1, <1>2 DEF Ends
<1>12. StakeIsLocked'
  <2> SUFFICES ASSUME NEW u \in Players, Undisturbed(u)'
               PROVE  /\ \A h \in Games : Unsettled(h)' /\ u \in Parties(h)' =>
                            /\ locked'[u] = StakeOf(u, h)'
                            /\ \A k \in Games \ {h} : Unsettled(k)' => u \notin Parties(k)'
                      /\ ~Playing(u)' => locked'[u] = 0
      BY DEF StakeIsLocked
  <2>1. Undisturbed(u)
        BY <1>7, <1>9 DEF Undisturbed
  <2>2. CASE u \in {c, d}
    <3>1. Unsettled(g)
          BY <1>2, <1>5, <1>6, <1>7, <2>2 DEF Undisturbed, LockedInv, PaidInv, Unsettled
    <3>2. locked[u] = StakeOf(u, g) /\ \A k \in Games \ {g} : Unsettled(k) => u \notin Parties(k)
          BY <1>5, <2>1, <2>2, <3>1 DEF LockedInv, StakeIsLocked
    <3>3. locked'[u] = 0
          BY <1>1, <1>11, <2>2, <3>2 DEF StakeOf
    <3>4. \A k \in Games : Unsettled(k)' => u \notin Parties(k)'
          BY <1>5, <1>7, <1>8, <3>2
    <3> QED BY <3>3, <3>4
  <2>3. CASE u \notin {c, d}
    <3>1. Playing(u)' <=> Playing(u)
          BY <1>5, <1>7, <1>8, <2>3 DEF Playing
    <3>2. \A h \in Games : Unsettled(h)' /\ u \in Parties(h)' => Unsettled(h) /\ u \in Parties(h)
          BY <1>5, <1>7, <1>8
    <3>3. locked'[u] = locked[u]
          BY <1>11, <2>3
    <3> QED BY <1>7, <2>1, <3>1, <3>2, <3>3 DEF LockedInv, StakeIsLocked
  <2> QED BY <2>2, <2>3
<1> QED BY <1>10, <1>12 DEF LockedInv

LEMMA LockedStep == TypeInv /\ LockedInv /\ [RankedNext]_rankedVars => LockedInv'
<1> SUFFICES ASSUME TypeInv, LockedInv, [RankedNext]_rankedVars PROVE LockedInv'
    OBVIOUS
<1>0. locked \in [Players -> Nat]
      BY DEF TypeInv, RankedTypeOK
<1>1. ASSUME UNCHANGED <<game, locked>> PROVE LockedInv'
      BY <1>1, LockedLeftAlone
<1>2. CASE UNCHANGED rankedVars \/ WeekGoesOn \/ JobDies \/ \E u \in Players : ConsumeDay(u)
      BY <1>1, <1>2 DEF rankedVars, WeekGoesOn, JobDies, ConsumeDay, gameVars, dayVars
<1>3. CASE JobStep
      BY <1>1, <1>3
      DEF JobStep, JobBegins, PauseRequests, PauseOffers, AllResumed, ListDepleted, JobEnds,
          ResumeOffers, ResumeRequest, CancelListed, SkipCancelled, CancellationThrows,
          ListInvitations, gameVars, dayVars
<1>4. ASSUME NEW i \in Invitations, NEW c \in Players, NEW g \in Games, Accept(i, c, g)
      PROVE  LockedInv'
  <2> DEFINE u == request[i].by
             stake == request[i].stake
  <2>1. u \in Players /\ stake \in Nat
        BY <1>4 DEF Accept, Waiting, TypeInv, RankedTypeOK, PlayersNamed, Requests
  <2>2. c # u
        BY <1>4, <2>1, MayMeetTwo DEF Accept
  <2>3. /\ NewGame(g, c, u, stake, stake, g)
        /\ locked' = [locked EXCEPT ![u] = @ + stake, ![c] = @ + stake]
        /\ locked[c] = 0 /\ locked[u] = 0
        BY <1>4 DEF Accept, Eligible
  <2>4. \A v \in Players :
            locked'[v] = IF v = c THEN stake ELSE IF v = u THEN stake ELSE locked[v]
        BY <1>0, <2>1, <2>2, <2>3
  <2> QED BY ZenonT(60), <2>1, <2>2, <2>3, <2>4, LockedWhenBegun
<1>5. ASSUME NEW i \in Invitations, InvitationStep(i), ~\E c \in Players, g \in Games : Accept(i, c, g)
      PROVE  LockedInv'
      BY <1>1, <1>5
      DEF InvitationStep, CancelInvitation, RefreshOffers, CreateInvitation, AnswerTooLate, Decline,
          gameVars, dayVars
<1>6. ASSUME NEW g \in Games, NEW u \in Players, NEW c \in Players, UpwardChallenge(u, c, g)
      PROVE  LockedInv'
  <2>1. PICK stake \in Stakes :
          /\ NewGame(g, u, c, stake, 0, g)
          /\ locked' = [locked EXCEPT ![u] = @ + stake]
        BY <1>6 DEF UpwardChallenge
  <2>2. u # c /\ locked[u] = 0 /\ locked[c] = 0
        BY <1>6, MayMeetTwo DEF UpwardChallenge, Eligible
  <2>3. stake \in Nat /\ 0 \in Nat
        BY DaysAssumption
  <2>4. \A v \in Players :
            locked'[v] = IF v = u THEN stake ELSE IF v = c THEN 0 ELSE locked[v]
        BY <1>0, <2>1, <2>2, <2>3
  <2> QED BY <2>1, <2>2, <2>3, <2>4, LockedWhenBegun
<1>7. ASSUME NEW h \in Games, NEW g \in Games, StartRevenge(h, g) PROVE LockedInv'
  <2> DEFINE a == right[h].by
             d == right[h].against
             stake == right[h].stake
  <2>1. a \in Players /\ d \in Players /\ stake \in Nat /\ 0 \in Nat
        BY <1>7 DEF StartRevenge, TypeInv, RankedTypeOK, PlayersNamed, Rights
  <2>2. /\ NewGame(g, a, d, stake, 0, h)
        /\ locked' = [locked EXCEPT ![a] = @ + stake]
        /\ locked[a] = 0 /\ locked[d] = 0
        BY <1>7 DEF StartRevenge, Eligible
  <2>3. a # d
        BY <1>7, <2>1, MayMeetTwo DEF StartRevenge
  <2>4. \A v \in Players :
            locked'[v] = IF v = a THEN stake ELSE IF v = d THEN 0 ELSE locked[v]
        BY <1>0, <2>1, <2>2, <2>3
  <2> QED BY <2>1, <2>2, <2>3, <2>4, LockedWhenBegun
<1>8. ASSUME NEW g \in Games, Upload(g) \/ Hold(g) \/ ReviewClear(g) \/ ForfeitRevenge(g)
      PROVE  LockedInv'
  <2>1. CASE ForfeitRevenge(g)
        BY <1>1, <2>1 DEF ForfeitRevenge, dayVars
  <2>2. CASE Hold(g) \/ ReviewClear(g)
    <3>1. PICK status \in InPlay \cup {"HELD"} : InStatus(g, status)
          BY <2>2 DEF Hold, ReviewClear, InPlay
    <3>2. game[g].status # "NONE" /\ UNCHANGED locked
          BY <2>2 DEF Hold, ReviewClear, Undecided, InPlay, dayVars
    <3> QED BY <3>1, <3>2, StatusTyped, LockedKept
  <2>3. CASE Upload(g)
        BY <2>3, UploadTyped, LockedKept DEF Upload, dayVars, InPlay
  <2> QED BY <1>8, <2>1, <2>2, <2>3
<1>9. ASSUME NEW g \in Games, NEW kind \in Endings, NEW toC, NEW toD, NEW burned,
             game[g].status # "NONE", Ends(g, kind, toC, toD, burned)
      PROVE  LockedInv'
      BY <1>9, LockedWhenEnded
<1>10. ASSUME NEW g \in Games,
              \/ CancelGame(g)
              \/ \E wins \in BOOLEAN : SettleByScore(g, wins) \/ Forfeit(g, wins)
              \/ \E winner \in RevengeOutcomes : SettleRevenge(g, winner)
              \/ \E cheats \in SUBSET Parties(g) : ReviewCheating(g, cheats)
       PROVE  LockedInv'
  <2>1. game[g].status # "NONE"
        BY <1>10 DEF CancelGame, SettleByScore, Forfeit, SettleRevenge, ReviewCheating, Undecided, InPlay
  <2>2. \E kind \in Endings : \E toC, toD, burned : Ends(g, kind, toC, toD, burned)
        BY <1>10 DEF CancelGame, SettleByScore, Forfeit, PaysWinner, SettleRevenge, ReviewCheating, Endings
  <2> QED BY <1>9, <2>1, <2>2
<1>11. ASSUME NEW g \in Games, GameStep(g) PROVE LockedInv'
       BY <1>6, <1>7, <1>8, <1>10, <1>11 DEF GameStep
<1> QED BY <1>2, <1>3, <1>4, <1>5, <1>11 DEF RankedNext

----------------------------------------------------------------------------
(* The offers of an invitation that is over. *)

NoneOf(i, statuses) == \A c \in Players : offer[i][c] \notin statuses

(***************************************************************************)
(* Not inductive by itself: a paused offer could become open again with an *)
(* invitation that was accepted meanwhile.  So none is paused while its    *)
(* invitation waits, and the job, between its two writes, has an           *)
(* invitation that is paused or over, or one whose offers are resumed.     *)
(***************************************************************************)
OfferInv ==
    /\ OffersEndWithInvitation
    /\ \A i \in Invitations : request[i].status = "NONE" => \A c \in Players : offer[i][c] = "NONE"
    /\ \A i \in Invitations : request[i].status \in Waiting => NoneOf(i, {"PAUSED"})
    /\ \A i \in job.at : job.step = "RESUME" /\ NoneOf(i, {"PAUSED"})
    /\ job.step = "PAUSE_OFFERS" =>
        \A i \in job.ids : request[i].status \in {"PAUSED", "CANCELLED"}

LEMMA OfferInit == RankedInit => OfferInv
BY DEF RankedInit, OfferInv, OffersEndWithInvitation, NoneOf, NoRequest, Idle, Waiting

(* A step that touches no invitation, and leaves the job or puts it where it pauses nothing. *)
LEMMA OffersKept ==
    ASSUME OfferInv, UNCHANGED <<request, offer>>,
           UNCHANGED job \/ (job'.at = {} /\ job'.step # "PAUSE_OFFERS")
                         \/ (job'.at = job.at /\ job'.step = job.step /\ job'.ids \subseteq job.ids)
    PROVE  OfferInv'
BY DEF OfferInv, OffersEndWithInvitation, NoneOf

(* A step that touches one invitation. *)
LEMMA OneInvitation ==
    ASSUME OfferInv, TypeInv, NEW i \in Invitations,
           \A j \in Invitations : j # i => request'[j] = request[j] /\ offer'[j] = offer[j],
           job'.at = job.at, job'.step = job.step, job'.ids \subseteq job.ids,
           request'[i].status # "NONE",
           request'[i].status \in {"MATCHED", "CANCELLED"} =>
               \A c \in Players : offer'[i][c] \notin {"OFFERED", "PAUSED"},
           request'[i].status \in Waiting => \A c \in Players : offer'[i][c] # "PAUSED",
           i \in job.at => \A c \in Players : offer'[i][c] # "PAUSED",
           i \in job.ids /\ job.step = "PAUSE_OFFERS" => request'[i].status \in {"PAUSED", "CANCELLED"}
    PROVE  OfferInv'
<1>1. job.at \subseteq Invitations /\ job.ids \subseteq Invitations
      BY DEF TypeInv, RankedTypeOK, Jobs
<1>2. \A j \in Invitations : NoneOf(j, {"PAUSED"})' <=> \A c \in Players : offer'[j][c] # "PAUSED"
      BY DEF NoneOf
<1>3. \A j \in Invitations : NoneOf(j, {"PAUSED"}) <=> \A c \in Players : offer[j][c] # "PAUSED"
      BY DEF NoneOf
<1>4. OffersEndWithInvitation'
      BY DEF OfferInv, OffersEndWithInvitation
<1>5. \A j \in Invitations : request'[j].status = "NONE" => \A c \in Players : offer'[j][c] = "NONE"
      BY DEF OfferInv
<1>6. \A j \in Invitations : request'[j].status \in Waiting => NoneOf(j, {"PAUSED"})'
      BY <1>2, <1>3 DEF OfferInv
<1>7. \A j \in job'.at : job'.step = "RESUME" /\ NoneOf(j, {"PAUSED"})'
      BY <1>1, <1>2, <1>3 DEF OfferInv
<1>8. job'.step = "PAUSE_OFFERS" => \A j \in job'.ids : request'[j].status \in {"PAUSED", "CANCELLED"}
      BY <1>1 DEF OfferInv
<1> QED BY <1>4, <1>5, <1>6, <1>7, <1>8 DEF OfferInv

LEMMA CancelsOffers ==
    ASSUME OfferInv, TypeInv, NEW i \in Invitations, request[i].status \in Live, NEW fee \in Nat,
           Cancels(i, fee), job'.at = job.at, job'.step = job.step, job'.ids \subseteq job.ids
    PROVE  OfferInv'
<1>1. request'[i].status = "CANCELLED" /\ \A j \in Invitations : j # i => request'[j] = request[j]
      BY CancelsTyped
<1>2. /\ \A j \in Invitations : j # i => offer'[j] = offer[j]
      /\ \A c \in Players : offer'[i][c] \notin {"OFFERED", "PAUSED"}
  <2>1. NoOne \notin Players
        BY PlayersAssumption
  <2>2. offer' = [offer EXCEPT ![i] = Supersedes(i, {"OFFERED", "PAUSED"}, NoOne)]
        BY DEF Cancels, Closes
  <2> QED BY <2>1, <2>2 DEF Supersedes, TypeInv, RankedTypeOK
<1> QED BY <1>1, <1>2, OneInvitation DEF Waiting

LEMMA InvitationStepOffers ==
    ASSUME OfferInv, TypeInv, NEW i \in Invitations, InvitationStep(i)
    PROVE  OfferInv'
<1>0. /\ request \in [Invitations -> Requests] /\ offer \in [Invitations -> [Players -> OfferStatuses]]
      /\ request[i] \in Requests /\ offer[i] \in [Players -> OfferStatuses]
      BY DEF TypeInv, RankedTypeOK
<1>1. CASE CancelInvitation(i)
  <2>1. ManualFee \in Nat /\ UNCHANGED job
        BY <1>1, DaysAssumption DEF CancelInvitation, jobVars
  <2> QED BY <1>1, <2>1, CancelsOffers DEF CancelInvitation
<1>2. ASSUME NEW u \in Players, CreateInvitation(i, u) PROVE OfferInv'
  <2>1. PICK chosen \in SUBSET Players :
            /\ \E t \in Tiers, stake \in Stakes :
                request' = [request EXCEPT ![i] =
                    [status |-> IF chosen = {} THEN "SEARCHING" ELSE "OFFERED",
                     by |-> u, tier |-> t, stake |-> stake, held |-> stake, keyed |-> TRUE]]
            /\ OffersTo(i, chosen)
        BY <1>2 DEF CreateInvitation
  <2>2. /\ request'[i].status \in Waiting
        /\ \A j \in Invitations : j # i => request'[j] = request[j]
        BY <1>0, <2>1 DEF Waiting
  <2>3. /\ \A j \in Invitations : j # i => offer'[j] = offer[j]
        /\ \A c \in Players : offer'[i][c] # "PAUSED"
    <3>1. \A c \in Players : offer[i][c] = "NONE"
          BY <1>2 DEF CreateInvitation, OfferInv
    <3> QED BY <1>0, <2>1, <3>1 DEF OffersTo
  <2>4. i \notin job.ids
        BY <1>2 DEF CreateInvitation, TypeInv, PlayersNamed
  <2> QED BY <1>2, <2>2, <2>3, <2>4, OneInvitation DEF CreateInvitation, jobVars, Waiting
<1>3. CASE RefreshOffers(i)
  <2>1. PICK chosen \in SUBSET Players :
            /\ request' = IF chosen = {} THEN [request EXCEPT ![i].status = "SEARCHING"]
                          ELSE [request EXCEPT ![i].status = "OFFERED", ![i].keyed = TRUE]
            /\ OffersTo(i, chosen)
        BY <1>3 DEF RefreshOffers, Candidates
  <2>2. /\ request'[i].status \in Waiting
        /\ \A j \in Invitations : j # i => request'[j] = request[j]
    <3>1. CASE chosen = {}
          BY <1>0, <2>1, <3>1 DEF Requests, Waiting
    <3>2. CASE chosen # {}
          BY <1>0, <2>1, <3>2 DEF Requests, Waiting
    <3> QED BY <3>1, <3>2
  <2>3. /\ \A j \in Invitations : j # i => offer'[j] = offer[j]
        /\ \A c \in Players : offer'[i][c] # "PAUSED"
    <3>1. \A c \in Players : offer[i][c] # "PAUSED"
          BY <1>3 DEF RefreshOffers, OfferInv, NoneOf
    <3> QED BY <1>0, <2>1, <3>1 DEF OffersTo
  <2>4. i \in job.ids => job.step # "PAUSE_OFFERS"
        BY <1>3 DEF RefreshOffers, OfferInv, Waiting
  <2> QED BY <1>3, <2>2, <2>3, <2>4, OneInvitation DEF RefreshOffers, jobVars, Waiting
<1>4. ASSUME NEW u \in Players, AnswerTooLate(i, u) \/ Decline(i, u) PROVE OfferInv'
  <2>1. PICK status \in {"SUPERSEDED", "DECLINED"} :
            offer' = [offer EXCEPT ![i] = [offer[i] EXCEPT ![u] = status]]
        BY <1>4 DEF AnswerTooLate, Decline
  <2>2. /\ \A j \in Invitations : j # i => offer'[j] = offer[j]
        /\ \A c \in Players : offer'[i][c] = offer[i][c] \/ offer'[i][c] \in {"SUPERSEDED", "DECLINED"}
        BY <1>0, <2>1
  <2>3. UNCHANGED <<request, job>> /\ offer[i][u] = "OFFERED"
        BY <1>4 DEF AnswerTooLate, Decline, jobVars
  <2>4. request[i].status # "NONE"
        BY <2>3 DEF OfferInv
  <2>5. /\ request[i].status \in {"MATCHED", "CANCELLED"} =>
            \A c \in Players : offer[i][c] \notin {"OFFERED", "PAUSED"}
        /\ request[i].status \in Waiting => \A c \in Players : offer[i][c] # "PAUSED"
        /\ i \in job.at => \A c \in Players : offer[i][c] # "PAUSED"
        /\ i \in job.ids /\ job.step = "PAUSE_OFFERS" => request[i].status \in {"PAUSED", "CANCELLED"}
        BY DEF OfferInv, OffersEndWithInvitation, NoneOf
  <2> QED BY <2>2, <2>3, <2>4, <2>5, OneInvitation
<1>5. ASSUME NEW c \in Players, NEW g \in Games, Accept(i, c, g) PROVE OfferInv'
  <2>1. /\ request'[i].status = "MATCHED"
        /\ \A j \in Invitations : j # i => request'[j] = request[j]
    <3> DEFINE q == [request[i] EXCEPT !.status = "MATCHED", !.held = 0, !.keyed = FALSE]
    <3>1. q.status = "MATCHED" /\ request' = [request EXCEPT ![i] = q]
          BY <1>0, <1>5 DEF Accept, Requests
    <3> HIDE DEF q
    <3> QED BY <1>0, <3>1
  <2>2. \A d \in Players : offer[i][d] # "PAUSED"
        BY <1>5 DEF Accept, OfferInv, NoneOf
  <2>3. /\ \A j \in Invitations : j # i => offer'[j] = offer[j]
        /\ \A d \in Players : offer'[i][d] \notin {"OFFERED", "PAUSED"}
    <3> DEFINE q == [Supersedes(i, {"OFFERED"}, c) EXCEPT ![c] = "ACCEPTED"]
    <3>1. \A d \in Players : q[d] \notin {"OFFERED", "PAUSED"}
          BY <2>2 DEF Supersedes
    <3>2. offer' = [offer EXCEPT ![i] = q]
          BY <1>5 DEF Accept
    <3> HIDE DEF q
    <3> QED BY <1>0, <3>1, <3>2
  <2>4. UNCHANGED job
        BY <1>5 DEF Accept, jobVars
  <2>5. i \in job.ids => job.step # "PAUSE_OFFERS"
        BY <1>5 DEF Accept, OfferInv, Waiting
  <2> QED BY <2>1, <2>3, <2>4, <2>5, OneInvitation DEF Waiting
<1> QED BY <1>1, <1>2, <1>3, <1>4, <1>5 DEF InvitationStep

LEMMA JobStepOffers ==
    ASSUME OfferInv, TypeInv, JobStep
    PROVE  OfferInv'
<1>0. /\ request \in [Invitations -> Requests] /\ offer \in [Invitations -> [Players -> OfferStatuses]]
      /\ job \in Jobs /\ job.ids \subseteq Invitations /\ job.at \subseteq Invitations
      BY DEF TypeInv, RankedTypeOK, Jobs
<1>1. ASSUME NEW next \in JobSteps \ {"PAUSE_OFFERS"}, NEW ids, NEW players,
             job' = [Idle EXCEPT !.step = next, !.ids = ids, !.players = players]
      PROVE  job'.at = {} /\ job'.step # "PAUSE_OFFERS"
      BY <1>1 DEF Idle
<1>2. ASSUME NEW next \in JobSteps \ {"PAUSE_OFFERS"}, GoesTo(next)
      PROVE  job'.at = {} /\ job'.step # "PAUSE_OFFERS"
      BY <1>2 DEF GoesTo, Idle
<1>3. CASE JobBegins
  <2>1. job'.at = {} /\ job'.step # "PAUSE_OFFERS"
        BY <1>3 DEF JobBegins, Idle
  <2> QED BY <1>3, <2>1, OffersKept DEF JobBegins, invitationVars
<1>4. CASE PauseRequests
  <2>1. /\ UNCHANGED offer /\ job'.ids = job.ids /\ job'.at = job.at /\ job'.step = "PAUSE_OFFERS"
        BY <1>0, <1>4 DEF PauseRequests, Jobs
  <2>2. \A i \in Invitations : request'[i].status =
            IF i \in job.ids THEN "PAUSED" ELSE request[i].status
    <3>1. \A i \in Invitations : [request[i] EXCEPT !.status = "PAUSED"].status = "PAUSED"
          BY <1>0 DEF Requests
    <3> QED BY <1>4, <3>1 DEF PauseRequests
  <2>3. job.at = {}
        BY <1>4 DEF PauseRequests, OfferInv
  <2> QED BY <1>0, <2>1, <2>2, <2>3 DEF OfferInv, OffersEndWithInvitation, NoneOf, Waiting
<1>5. CASE PauseOffers
  <2>1. job'.at = {} /\ job'.step = "LIST" /\ UNCHANGED request
        BY <1>5 DEF PauseOffers, GoesTo, Idle
  <2>2. \A i \in Invitations, c \in Players : offer'[i][c] =
            IF i \in job.ids /\ offer[i][c] = "OFFERED" THEN "PAUSED" ELSE offer[i][c]
        BY <1>5 DEF PauseOffers, Renamed
  <2>3. \A i \in job.ids : request[i].status \in {"PAUSED", "CANCELLED"}
        BY <1>5 DEF PauseOffers, OfferInv
  <2>4. OffersEndWithInvitation'
        BY <2>1, <2>2 DEF OfferInv, OffersEndWithInvitation
  <2>5. \A i \in Invitations : request'[i].status = "NONE" => \A c \in Players : offer'[i][c] = "NONE"
        BY <2>1, <2>2 DEF OfferInv
  <2>6. \A i \in Invitations : request'[i].status \in Waiting => NoneOf(i, {"PAUSED"})'
        BY <2>1, <2>2, <2>3 DEF OfferInv, NoneOf, Waiting
  <2> QED BY <2>1, <2>4, <2>5, <2>6 DEF OfferInv
<1>6. ASSUME NEW i \in Invitations, ResumeOffers(i) PROVE OfferInv'
  <2>1. /\ job'.at = {i} /\ job'.step = "RESUME" /\ UNCHANGED request
    <3> DEFINE found == \E c \in Players : offer[i][c] = "PAUSED"
    <3>1. job' = [job EXCEPT !.at = {i}, !.found = found] /\ job.step = "RESUME"
          BY <1>6 DEF ResumeOffers
    <3> HIDE DEF found
    <3> QED BY <1>0, <1>6, <3>1 DEF Jobs, ResumeOffers
  <2>2. /\ \A j \in Invitations : j # i => offer'[j] = offer[j]
        /\ \A c \in Players : offer'[i][c] = IF offer[i][c] = "PAUSED" THEN "OFFERED" ELSE offer[i][c]
        BY <1>0, <1>6 DEF ResumeOffers, Renamed
  <2>3. OffersEndWithInvitation'
        BY <2>1, <2>2 DEF OfferInv, OffersEndWithInvitation
  <2>4. \A j \in Invitations : request'[j].status = "NONE" => \A c \in Players : offer'[j][c] = "NONE"
        BY <2>1, <2>2 DEF OfferInv
  <2>5. \A j \in Invitations : request'[j].status \in Waiting => NoneOf(j, {"PAUSED"})'
        BY <2>1, <2>2 DEF OfferInv, NoneOf
  <2>6. NoneOf(i, {"PAUSED"})'
        BY <2>2 DEF NoneOf
  <2> QED BY <2>1, <2>3, <2>4, <2>5, <2>6 DEF OfferInv
<1>7. ASSUME NEW i \in Invitations, ResumeRequest(i) PROVE OfferInv'
  <2>1. job'.at = {} /\ job'.step = "RESUME" /\ UNCHANGED offer /\ NoneOf(i, {"PAUSED"})
        BY <1>0, <1>7 DEF ResumeRequest, Jobs, OfferInv
  <2>2. \A j \in Invitations :
            request'[j].status = request[j].status
            \/ (j = i /\ request'[j].status \in Waiting /\ request[j].status = "PAUSED")
    <3>1. CASE request[i].status # "PAUSED"
          BY <1>7, <3>1 DEF ResumeRequest
    <3>2. CASE request[i].status = "PAUSED"
      <4> DEFINE status == IF job.found THEN "OFFERED" ELSE "SEARCHING"
                 q == [request[i] EXCEPT !.status = status]
      <4>1. status \in Waiting /\ request' = [request EXCEPT ![i] = q]
            BY <1>7, <3>2 DEF ResumeRequest, Waiting
      <4>2. q.status = status
            BY <1>0 DEF Requests
      <4> HIDE DEF q
      <4> QED BY <1>0, <3>2, <4>1, <4>2
    <3> QED BY <3>1, <3>2
  <2> QED BY <2>1, <2>2 DEF OfferInv, OffersEndWithInvitation, NoneOf, Waiting
<1>8. CASE AllResumed
      BY <1>2, <1>8, OffersKept DEF AllResumed, JobSteps, invitationVars
<1>9. CASE ListDepleted
  <2>1. job'.at = {} /\ job'.step # "PAUSE_OFFERS"
        BY <1>9 DEF ListDepleted, Idle
  <2> QED BY <1>9, <2>1, OffersKept DEF ListDepleted, invitationVars
<1>10. ASSUME NEW u \in Players, ListInvitations(u) PROVE OfferInv'
  <2>1. job'.at = {} /\ job'.step # "PAUSE_OFFERS"
    <3>1. job.step = "CANCEL" /\ job.at = {}
          BY <1>10 DEF ListInvitations, OfferInv
    <3> QED BY <1>0, <1>10, <3>1 DEF ListInvitations, Jobs
  <2> QED BY <1>10, <2>1, OffersKept DEF ListInvitations, invitationVars
<1>11. ASSUME NEW i \in Invitations, CancelListed(i) PROVE OfferInv'
  <2>1. job'.at = job.at /\ job'.step = job.step /\ job'.ids \subseteq job.ids
        BY <1>0, <1>11 DEF CancelListed, Jobs
  <2>2. AutomaticFee \in Nat
        BY DaysAssumption
  <2> QED BY <1>11, <2>1, <2>2, CancelsOffers DEF CancelListed
<1>12. ASSUME NEW i \in Invitations, SkipCancelled(i) PROVE OfferInv'
  <2>1. job'.at = job.at /\ job'.step = job.step /\ job'.ids \subseteq job.ids
        BY <1>0, <1>12 DEF SkipCancelled, Jobs
  <2> QED BY <1>12, <2>1, OffersKept DEF SkipCancelled, invitationVars
<1>13. CASE JobEnds \/ \E i \in Invitations : CancellationThrows(i)
       BY <1>13, OffersKept DEF JobEnds, CancellationThrows, Idle, invitationVars
<1> QED BY <1>3, <1>4, <1>5, <1>6, <1>7, <1>8, <1>9, <1>10, <1>11, <1>12, <1>13 DEF JobStep

LEMMA OfferStep == OfferInv /\ TypeInv /\ [RankedNext]_rankedVars => OfferInv'
<1> SUFFICES ASSUME OfferInv, TypeInv, [RankedNext]_rankedVars PROVE OfferInv'
    OBVIOUS
<1>1. CASE UNCHANGED rankedVars \/ WeekGoesOn \/ JobDies \/ \E u \in Players : ConsumeDay(u)
      BY <1>1, OffersKept DEF rankedVars, WeekGoesOn, JobDies, ConsumeDay, invitationVars, jobVars, Idle
<1>2. ASSUME NEW g \in Games, GameStep(g) PROVE OfferInv'
  <2>1. UNCHANGED <<invitationVars, jobVars>>
        BY <1>2 DEF GameStep, Upload, Hold, CancelGame, ReviewClear, ForfeitRevenge, UpwardChallenge,
            StartRevenge, SettleByScore, Forfeit, SettleRevenge, ReviewCheating
  <2> QED BY <2>1, OffersKept DEF invitationVars, jobVars
<1> QED BY <1>1, <1>2, JobStepOffers, InvitationStepOffers DEF RankedNext

----------------------------------------------------------------------------
(* The balance of the days. *)

(* Nobody but the attacker stakes anything in a revenge match. *)
AttackerAloneStakes == \A g \in Games : IsRevenge(g) => game[g].dstake = 0

LEMMA AloneInit == RankedInit => AttackerAloneStakes
BY DEF RankedInit, AttackerAloneStakes, IsRevenge, NoGame

LEMMA AloneStep == AttackerAloneStakes /\ TypeInv /\ [RankedNext]_rankedVars => AttackerAloneStakes'
<1> SUFFICES ASSUME AttackerAloneStakes, TypeInv, [RankedNext]_rankedVars PROVE AttackerAloneStakes'
    OBVIOUS
<1>0. game \in [Games -> Matches]
      BY DEF TypeInv, RankedTypeOK
<1>1. ASSUME UNCHANGED game PROVE AttackerAloneStakes'
      BY <1>1 DEF AttackerAloneStakes, IsRevenge
<1>2. ASSUME NEW g \in Games, OnlyGame(g)
      PROVE  AttackerAloneStakes'
      BY <1>2 DEF OnlyGame, SameTerms, AttackerAloneStakes, IsRevenge
<1>3. ASSUME NEW g \in Games, NEW c, NEW u, NEW cs, NEW ds, NEW source,
             NewGame(g, c, u, cs, ds, source), source = g \/ ds = 0
      PROVE  AttackerAloneStakes'
  <2> DEFINE q == [status |-> "PLAYING", challenger |-> c, defender |-> u, cstake |-> cs,
                   dstake |-> ds, ctier |-> tier[c], dtier |-> tier[u], source |-> source,
                   uploads |-> 0, paid |-> {}]
  <2>1. q.source = source /\ q.dstake = ds /\ game' = [game EXCEPT ![g] = q]
        BY <1>3 DEF NewGame
  <2> HIDE DEF q
  <2> QED BY <1>0, <1>3, <2>1 DEF AttackerAloneStakes, IsRevenge
<1>4. CASE UNCHANGED rankedVars \/ WeekGoesOn \/ JobDies \/ \E u \in Players : ConsumeDay(u)
      BY <1>1, <1>4 DEF rankedVars, WeekGoesOn, JobDies, ConsumeDay, gameVars
<1>5. CASE JobStep
      BY <1>1, <1>5
      DEF JobStep, JobBegins, PauseRequests, PauseOffers, AllResumed, ListDepleted, JobEnds,
          ResumeOffers, ResumeRequest, CancelListed, SkipCancelled, CancellationThrows,
          ListInvitations, gameVars
<1>6. ASSUME NEW i \in Invitations, InvitationStep(i) PROVE AttackerAloneStakes'
  <2>1. ASSUME NEW c \in Players, NEW g \in Games, Accept(i, c, g) PROVE AttackerAloneStakes'
        BY <1>3, <2>1 DEF Accept
  <2>2. CASE ~\E c \in Players, g \in Games : Accept(i, c, g)
        BY <1>1, <1>6, <2>2
        DEF InvitationStep, CancelInvitation, RefreshOffers, CreateInvitation, AnswerTooLate, Decline,
            gameVars
  <2> QED BY <2>1, <2>2
<1>7. ASSUME NEW g \in Games, GameStep(g) PROVE AttackerAloneStakes'
  <2>1. ASSUME NEW u \in Players, NEW c \in Players, UpwardChallenge(u, c, g) PROVE AttackerAloneStakes'
        BY <1>3, <2>1 DEF UpwardChallenge
  <2>2. ASSUME NEW h \in Games, StartRevenge(h, g) PROVE AttackerAloneStakes'
        BY <1>3, <2>2 DEF StartRevenge
  <2>3. CASE ForfeitRevenge(g)
        BY <1>1, <2>3 DEF ForfeitRevenge
  <2>4. CASE Upload(g)
        BY <1>2, <2>4, UploadTyped
  <2>5. CASE Hold(g) \/ ReviewClear(g)
        BY <1>2, <2>5, StatusTyped DEF Hold, ReviewClear, InPlay
  <2>6. ASSUME NEW kind \in Endings, NEW toC, NEW toD, NEW burned, Ends(g, kind, toC, toD, burned)
        PROVE  AttackerAloneStakes'
        BY <1>2, <2>6, ClosedTyped DEF Ends
  <2>7. CASE CancelGame(g)
        BY <2>6, <2>7 DEF CancelGame, Endings
  <2>8. ASSUME NEW wins \in BOOLEAN, SettleByScore(g, wins) \/ Forfeit(g, wins) PROVE AttackerAloneStakes'
        BY <2>6, <2>8 DEF SettleByScore, Forfeit, PaysWinner, Endings
  <2>9. ASSUME NEW winner \in RevengeOutcomes, SettleRevenge(g, winner) PROVE AttackerAloneStakes'
        BY <2>6, <2>9 DEF SettleRevenge, Endings
  <2>10. ASSUME NEW cheats \in SUBSET Parties(g), ReviewCheating(g, cheats) PROVE AttackerAloneStakes'
         BY <2>6, <2>10 DEF ReviewCheating, Endings
  <2> QED BY <1>7, <2>1, <2>2, <2>3, <2>4, <2>5, <2>7, <2>8, <2>9, <2>10 DEF GameStep
<1> QED BY <1>4, <1>5, <1>6, <1>7 DEF RankedNext

Balanced ==
    \/ \E a \in Players : BalancesOne(a)
    \/ \E a, b \in Players : a # b /\ BalancesTwo(a, b)

(* Days move between the pots of one player. *)
LEMMA PotsOfOne ==
    ASSUME NEW a \in Players,
           \A u \in Players \ {a} : /\ available'[u] = available[u] /\ reserved'[u] = reserved[u]
                                    /\ locked'[u] = locked[u],
           available'[a] + reserved'[a] + locked'[a] + spent'
               = available[a] + reserved[a] + locked[a] + spent
    PROVE  Balanced
BY DEF Balanced, BalancesOne, Wealth

(* Days move between the pots of two. *)
LEMMA PotsOfTwo ==
    ASSUME NEW a \in Players, NEW b \in Players, a # b,
           \A u \in Players \ {a, b} : /\ available'[u] = available[u] /\ reserved'[u] = reserved[u]
                                       /\ locked'[u] = locked[u],
           (available'[a] + reserved'[a] + locked'[a]) + (available'[b] + reserved'[b] + locked'[b])
               + spent'
             = (available[a] + reserved[a] + locked[a]) + (available[b] + reserved[b] + locked[b])
               + spent
    PROVE  Balanced
BY DEF Balanced, BalancesTwo, Wealth

(* A match that ends pays out no more and no less than was staked. *)
LEMMA EndsBalanced ==
    ASSUME TypeInv, NEW g \in Games, game[g].status # "NONE", NEW kind,
           NEW toC \in Int, NEW toD \in Int, NEW burned \in Int,
           toC + toD + burned = AtStake(g), Ends(g, kind, toC, toD, burned), UNCHANGED reserved
    PROVE  Balanced
<1> DEFINE c == game[g].challenger
           d == game[g].defender
<1>1. c \in Players /\ d \in Players /\ c # d /\ game[g].cstake \in Nat /\ game[g].dstake \in Nat
      BY TwoParties
<1>2. /\ available \in [Players -> Nat] /\ locked \in [Players -> Nat]
      /\ reserved \in [Players -> Nat] /\ spent \in Nat
      BY DEF TypeInv, RankedTypeOK
<1>3. /\ available'[c] = available[c] + toC /\ available'[d] = available[d] + toD
      /\ \A u \in Players \ {c, d} : available'[u] = available[u]
      BY <1>1, <1>2 DEF Ends
<1>4. /\ locked'[c] = locked[c] - game[g].cstake /\ locked'[d] = locked[d] - game[g].dstake
      /\ \A u \in Players \ {c, d} : locked'[u] = locked[u]
      BY <1>1, <1>2 DEF Ends
<1>5. spent' = spent + burned
      BY DEF Ends
<1>6. (available'[c] + reserved'[c] + locked'[c]) + (available'[d] + reserved'[d] + locked'[d]) + spent'
        = (available[c] + reserved[c] + locked[c]) + (available[d] + reserved[d] + locked[d]) + spent
  <2>1. /\ available[c] \in Nat /\ available[d] \in Nat /\ locked[c] \in Nat /\ locked[d] \in Nat
        /\ reserved[c] \in Nat /\ reserved[d] \in Nat
        BY <1>1, <1>2
  <2>2. reserved'[c] = reserved[c] /\ reserved'[d] = reserved[d]
        OBVIOUS
  <2>3. toC + toD + burned = game[g].cstake + game[g].dstake
        BY DEF AtStake
  <2> HIDE DEF c, d
  <2> QED BY <1>1, <1>2, <1>3, <1>4, <1>5, <2>1, <2>2, <2>3
<1> HIDE DEF c, d
<1> QED BY <1>1, <1>3, <1>4, <1>6, PotsOfTwo

LEMMA ReturnsBalanced ==
    ASSUME TypeInv, NEW i \in Invitations, request[i].status # "NONE", NEW fee \in Nat,
           Returns(i, fee), UNCHANGED locked
    PROVE  Balanced
<1> DEFINE u == request[i].by
           held == request[i].held
           burned == Smaller(held, fee)
<1>1. u \in Players /\ held \in Nat
      BY DEF TypeInv, RankedTypeOK, PlayersNamed, Requests
<1>2. burned \in Nat
      BY <1>1, SmallerTyped
<1>3. /\ available \in [Players -> Nat] /\ locked \in [Players -> Nat]
      /\ reserved \in [Players -> Nat] /\ spent \in Nat
      BY DEF TypeInv, RankedTypeOK
<1>4. /\ available'[u] = available[u] + held - burned /\ reserved'[u] = reserved[u] - held
      /\ spent' = spent + burned
      /\ \A v \in Players \ {u} : available'[v] = available[v] /\ reserved'[v] = reserved[v]
      BY <1>1, <1>3 DEF Returns
<1>5. available[u] \in Nat /\ reserved[u] \in Nat /\ locked[u] \in Nat
      BY <1>1, <1>3
<1>6. available'[u] + reserved'[u] + locked'[u] + spent'
        = available[u] + reserved[u] + locked[u] + spent
      BY <1>1, <1>2, <1>3, <1>4, <1>5
<1> QED BY <1>1, <1>4, <1>6, PotsOfOne

(* A player stakes available days in a match. *)
LEMMA StakeBalanced ==
    ASSUME TypeInv, NEW u \in Players, NEW stake \in Nat,
           available' = [available EXCEPT ![u] = @ - stake],
           locked' = [locked EXCEPT ![u] = @ + stake], UNCHANGED <<reserved, spent>>
    PROVE  Balanced
<1>1. /\ available \in [Players -> Nat] /\ locked \in [Players -> Nat]
      /\ reserved \in [Players -> Nat] /\ spent \in Nat
      BY DEF TypeInv, RankedTypeOK
<1>2. available[u] \in Nat /\ reserved[u] \in Nat /\ locked[u] \in Nat
      BY <1>1
<1>3. /\ available'[u] = available[u] - stake /\ locked'[u] = locked[u] + stake
      /\ \A v \in Players \ {u} : available'[v] = available[v] /\ locked'[v] = locked[v]
      BY <1>1
<1>4. available'[u] + reserved'[u] + locked'[u] + spent'
        = available[u] + reserved[u] + locked[u] + spent
      BY <1>1, <1>2, <1>3
<1> QED BY <1>3, <1>4, PotsOfOne

LEMMA AcceptBalanced ==
    ASSUME TypeInv, NEW i \in Invitations, NEW c \in Players, NEW g \in Games, Accept(i, c, g)
    PROVE  Balanced
<1> DEFINE u == request[i].by
           stake == request[i].stake
<1>1. u \in Players /\ stake \in Nat
      BY DEF Accept, Waiting, TypeInv, RankedTypeOK, PlayersNamed, Requests
<1>2. c # u
      BY <1>1, MayMeetTwo DEF Accept
<1>3. /\ available \in [Players -> Nat] /\ locked \in [Players -> Nat]
      /\ reserved \in [Players -> Nat] /\ spent \in Nat
      BY DEF TypeInv, RankedTypeOK
<1>4. /\ available[u] \in Nat /\ reserved[u] \in Nat /\ locked[u] \in Nat
      /\ available[c] \in Nat /\ reserved[c] \in Nat /\ locked[c] \in Nat
      BY <1>1, <1>3
<1>5. /\ reserved'[u] = reserved[u] - stake /\ available'[c] = available[c] - stake
      /\ \A v \in Players : (v # u => reserved'[v] = reserved[v])
                            /\ (v # c => available'[v] = available[v])
      BY <1>1, <1>3 DEF Accept
<1>6. /\ locked'[u] = locked[u] + stake /\ locked'[c] = locked[c] + stake
      /\ \A v \in Players \ {u, c} : locked'[v] = locked[v]
      BY <1>1, <1>2, <1>3 DEF Accept
<1>7. (available'[u] + reserved'[u] + locked'[u]) + (available'[c] + reserved'[c] + locked'[c]) + spent'
        = (available[u] + reserved[u] + locked[u]) + (available[c] + reserved[c] + locked[c]) + spent
  <2>1. spent' = spent /\ available'[u] = available[u] /\ reserved'[c] = reserved[c]
        BY <1>1, <1>2, <1>5 DEF Accept
  <2> HIDE DEF u, stake
  <2> QED BY <1>1, <1>3, <1>4, <1>5, <1>6, <2>1
<1> HIDE DEF u, stake
<1> QED BY <1>1, <1>2, <1>5, <1>6, <1>7, PotsOfTwo

LEMMA GameStepBalanced ==
    ASSUME TypeInv, AttackerAloneStakes, NEW g \in Games, GameStep(g)
    PROVE  Balanced \/ UNCHANGED dayVars
<1>1. CASE Upload(g) \/ Hold(g) \/ ReviewClear(g) \/ ForfeitRevenge(g)
      BY <1>1 DEF Upload, Hold, ReviewClear, ForfeitRevenge
<1>2. ASSUME NEW u \in Players, NEW c \in Players, UpwardChallenge(u, c, g) PROVE Balanced
  <2>1. PICK stake \in Stakes : /\ available' = [available EXCEPT ![u] = @ - stake]
                                /\ locked' = [locked EXCEPT ![u] = @ + stake]
        BY <1>2 DEF UpwardChallenge
  <2>2. stake \in Nat /\ UNCHANGED <<reserved, spent>>
        BY <1>2, DaysAssumption DEF UpwardChallenge
  <2> QED BY <2>1, <2>2, StakeBalanced
<1>3. ASSUME NEW h \in Games, StartRevenge(h, g) PROVE Balanced
  <2>1. right[h].by \in Players /\ right[h].stake \in Nat
        BY <1>3 DEF StartRevenge, TypeInv, RankedTypeOK, PlayersNamed, Rights
  <2> QED BY <1>3, <2>1, StakeBalanced DEF StartRevenge
<1>4. CASE CancelGame(g)
  <2>1. game[g].status # "NONE"
        BY <1>4 DEF CancelGame, InPlay
  <2>2. game[g].cstake \in Nat /\ game[g].dstake \in Nat
        BY <2>1, TwoParties
  <2>3. game[g].cstake + game[g].dstake + 0 = AtStake(g)
        BY <2>2 DEF AtStake
  <2>4. (\E kind : Ends(g, kind, game[g].cstake, game[g].dstake, 0)) /\ UNCHANGED reserved
        BY <1>4 DEF CancelGame
  <2> QED BY <2>1, <2>2, <2>3, <2>4, EndsBalanced
<1>5. ASSUME NEW wins \in BOOLEAN, SettleByScore(g, wins) \/ Forfeit(g, wins) PROVE Balanced
  <2>1. game[g].status # "NONE"
        BY <1>5 DEF SettleByScore, Forfeit, Undecided, InPlay
  <2>2. AtStake(g) \in Nat
        BY <2>1, TwoParties DEF AtStake
  <2>3. Ends(g, "SETTLED", AtStake(g), 0, 0) \/ Ends(g, "SETTLED", 0, AtStake(g), 0)
        BY <1>5 DEF SettleByScore, Forfeit, PaysWinner
  <2>4. UNCHANGED reserved
        BY <1>5 DEF SettleByScore, Forfeit
  <2>5. AtStake(g) + 0 + 0 = AtStake(g) /\ 0 + AtStake(g) + 0 = AtStake(g)
        BY <2>2
  <2> QED BY <2>1, <2>2, <2>3, <2>4, <2>5, EndsBalanced
<1>6. ASSUME NEW winner \in RevengeOutcomes, SettleRevenge(g, winner) PROVE Balanced
  <2> DEFINE fee == Smaller(game[g].cstake, RevengeFee)
             net == game[g].cstake - fee
  <2>1. game[g].status # "NONE"
        BY <1>6 DEF SettleRevenge, Undecided, InPlay
  <2>2. game[g].cstake \in Nat /\ game[g].dstake \in Nat
        BY <2>1, TwoParties
  <2>3. fee \in Nat
    <3>1. RevengeFee \in Nat
          BY DaysAssumption
    <3> QED BY <2>2, <3>1, SmallerTyped
  <2>4. game[g].dstake = 0
        BY <1>6 DEF SettleRevenge, AttackerAloneStakes
  <2>5. \/ Ends(g, "SETTLED", net, 0, fee) \/ Ends(g, "SETTLED", 0, net, fee)
        \/ Ends(g, "SETTLED", 0, 0, game[g].cstake)
        BY <1>6 DEF SettleRevenge
  <2>6. UNCHANGED reserved /\ AtStake(g) = game[g].cstake
        BY <1>6, <2>2, <2>4 DEF SettleRevenge, AtStake
  <2>7. /\ fee \in Int /\ net \in Int /\ game[g].cstake \in Int /\ 0 \in Int
        /\ net + 0 + fee = AtStake(g) /\ 0 + net + fee = AtStake(g)
        /\ 0 + 0 + game[g].cstake = AtStake(g)
        BY <2>2, <2>3, <2>6
  <2> HIDE DEF fee, net
  <2> QED BY <2>1, <2>5, <2>6, <2>7, EndsBalanced
<1>7. ASSUME NEW cheats \in SUBSET Parties(g), ReviewCheating(g, cheats) PROVE Balanced
  <2> DEFINE c == game[g].challenger
             d == game[g].defender
             toC == IF d \in cheats /\ c \notin cheats THEN AtStake(g) ELSE 0
             toD == IF c \in cheats /\ d \notin cheats THEN AtStake(g) ELSE 0
             fineC == IF c \in cheats THEN Third(available[c] + toC) ELSE 0
             fineD == IF d \in cheats THEN Third(available[d] + toD) ELSE 0
             burned == IF {c, d} \subseteq cheats THEN AtStake(g) ELSE 0
  <2>1. game[g].status # "NONE"
        BY <1>7 DEF ReviewCheating
  <2>2. c \in Players /\ d \in Players /\ AtStake(g) \in Nat
        BY <2>1, TwoParties DEF AtStake
  <2>3. toC \in Nat /\ toD \in Nat /\ burned \in Nat /\ toC + toD + burned = AtStake(g)
    <3>1. c \in cheats \/ d \in cheats
          BY <1>7 DEF ReviewCheating
    <3> QED BY <2>2, <3>1
  <2>4. fineC \in Nat /\ fineD \in Nat
    <3>1. available[c] + toC \in Nat /\ available[d] + toD \in Nat
          BY <2>2, <2>3 DEF TypeInv, RankedTypeOK
    <3> HIDE DEF toC, toD
    <3> QED BY <3>1, ThirdIsLess
  <2>5. Ends(g, "JUDGED", toC - fineC, toD - fineD, burned + fineC + fineD) /\ UNCHANGED reserved
        BY <1>7 DEF ReviewCheating
  <2> HIDE DEF toC, toD, fineC, fineD, burned
  <2>6. /\ toC - fineC \in Int /\ toD - fineD \in Int /\ burned + fineC + fineD \in Int
        /\ (toC - fineC) + (toD - fineD) + (burned + fineC + fineD) = AtStake(g)
        BY <2>2, <2>3, <2>4
  <2> QED BY <2>1, <2>5, <2>6, EndsBalanced
<1> QED BY <1>1, <1>2, <1>3, <1>4, <1>5, <1>6, <1>7 DEF GameStep

LEMMA BalanceStep == TypeInv /\ AttackerAloneStakes /\ [RankedNext]_rankedVars => [Balanced]_dayVars
<1> SUFFICES ASSUME TypeInv, AttackerAloneStakes, RankedNext, ~UNCHANGED dayVars PROVE Balanced
    BY DEF rankedVars, dayVars
<1>1. ~WeekGoesOn /\ ~JobDies
      BY DEF WeekGoesOn, JobDies
<1>2. ASSUME NEW u \in Players, ConsumeDay(u) PROVE Balanced
  <2>1. /\ available \in [Players -> Nat] /\ spent \in Nat
        /\ available[u] \in Nat /\ reserved[u] \in Nat /\ locked[u] \in Nat
        BY DEF TypeInv, RankedTypeOK
  <2>2. /\ available'[u] = available[u] - 1 /\ spent' = spent + 1 /\ UNCHANGED <<reserved, locked>>
        /\ \A v \in Players \ {u} : available'[v] = available[v]
        BY <1>2, <2>1 DEF ConsumeDay
  <2> QED BY <2>1, <2>2, PotsOfOne
<1>3. CASE JobStep
  <2>1. PICK i \in Invitations : CancelListed(i)
        BY <1>3
        DEF JobStep, JobBegins, PauseRequests, PauseOffers, AllResumed, ListDepleted, JobEnds,
            ResumeOffers, ResumeRequest, SkipCancelled, CancellationThrows, ListInvitations
  <2>2. /\ request[i].status # "NONE" /\ Returns(i, AutomaticFee) /\ UNCHANGED locked
        /\ AutomaticFee \in Nat
        BY <2>1, DaysAssumption DEF CancelListed, Cancels, Live, Waiting
  <2> QED BY <2>2, ReturnsBalanced
<1>4. ASSUME NEW i \in Invitations, InvitationStep(i) PROVE Balanced
  <2>1. ~RefreshOffers(i) /\ \A u \in Players : ~AnswerTooLate(i, u) /\ ~Decline(i, u)
        BY DEF RefreshOffers, AnswerTooLate, Decline
  <2>2. CASE CancelInvitation(i)
    <3>1. /\ request[i].status # "NONE" /\ Returns(i, ManualFee) /\ UNCHANGED locked
          /\ ManualFee \in Nat
          BY <2>2, DaysAssumption DEF CancelInvitation, Cancels, Live, Waiting
    <3> QED BY <3>1, ReturnsBalanced
  <2>3. ASSUME NEW u \in Players, CreateInvitation(i, u) PROVE Balanced
    <3>1. PICK stake \in Stakes : /\ available' = [available EXCEPT ![u] = @ - stake]
                                  /\ reserved' = [reserved EXCEPT ![u] = @ + stake]
          BY <2>3 DEF CreateInvitation
    <3>2. stake \in Nat /\ UNCHANGED <<locked, spent>>
          BY <2>3, DaysAssumption DEF CreateInvitation
    <3>3. /\ available \in [Players -> Nat] /\ reserved \in [Players -> Nat] /\ spent \in Nat
          /\ available[u] \in Nat /\ reserved[u] \in Nat /\ locked[u] \in Nat
          BY DEF TypeInv, RankedTypeOK
    <3>4. /\ available'[u] = available[u] - stake /\ reserved'[u] = reserved[u] + stake
          /\ \A v \in Players \ {u} : available'[v] = available[v] /\ reserved'[v] = reserved[v]
          BY <3>1, <3>3
    <3>5. available'[u] + reserved'[u] + locked'[u] + spent'
            = available[u] + reserved[u] + locked[u] + spent
          BY <3>2, <3>3, <3>4
    <3> QED BY <3>2, <3>4, <3>5, PotsOfOne
  <2> QED BY <1>4, <2>1, <2>2, <2>3, AcceptBalanced DEF InvitationStep
<1>5. ASSUME NEW g \in Games, GameStep(g) PROVE Balanced
      BY <1>5, GameStepBalanced
<1> QED BY <1>1, <1>2, <1>3, <1>4, <1>5 DEF RankedNext

----------------------------------------------------------------------------
(* The reservations. *)

\* What the invitations of a player hold.
HeldBy(u) == SumFunctionOnSet([i \in Invitations |-> request[i].held], HeldFor(u))

(***************************************************************************)
(* A live invitation holds what it will stake: an acceptance takes the     *)
(* stake from the reservation, and must not take what others hold of it.   *)
(***************************************************************************)
HoldsItsStake == \A i \in Invitations : request[i].status \in Live => request[i].held = request[i].stake

Backed == overwritten = {} => HoldsItsStake /\ \A u \in Players : reserved[u] = HeldBy(u)

LEMMA BackedInit == RankedInit => Backed
<1> SUFFICES ASSUME RankedInit PROVE Backed
    OBVIOUS
<1>1. \A i \in Invitations : request[i].status \notin Live
      BY DEF RankedInit, NoRequest, Live, Waiting
<1>2. ASSUME NEW u \in Players PROVE reserved[u] = HeldBy(u)
  <2>1. HeldFor(u) = {}
        BY <1>1 DEF HeldFor
  <2> QED BY <2>1, SumOfNone DEF HeldBy, RankedInit
<1> QED BY <1>1, <1>2 DEF Backed, HoldsItsStake

(* A step that neither begins nor ends an invitation. *)
LEMMA BackedKept ==
    ASSUME IsFiniteSet(Invitations), Backed, UNCHANGED reserved,
           overwritten' = {} =>
               /\ overwritten = {}
               /\ \A i \in Invitations :
                    /\ request'[i].by = request[i].by
                    /\ request'[i].held = request[i].held
                    /\ request'[i].stake = request[i].stake
                    /\ request'[i].status \in Live <=> request[i].status \in Live
    PROVE  Backed'
<1> SUFFICES ASSUME overwritten' = {} PROVE HoldsItsStake' /\ \A u \in Players : reserved'[u] = HeldBy(u)'
    BY DEF Backed
<1>1. HoldsItsStake'
      BY DEF Backed, HoldsItsStake
<1>2. ASSUME NEW u \in Players PROVE HeldBy(u)' = HeldBy(u)
  <2> DEFINE f == [i \in Invitations |-> request[i].held]
             k == [i \in Invitations |-> request'[i].held]
  <2>1. HeldFor(u)' = HeldFor(u)
        BY DEF HeldFor
  <2>2. IsFiniteSet(HeldFor(u)) /\ HeldFor(u) \subseteq Invitations
        BY FS_Subset DEF HeldFor
  <2>3. \A i \in HeldFor(u) : k[i] = f[i]
        BY <2>2
  <2> HIDE DEF f, k
  <2>4. SumFunctionOnSet(k, HeldFor(u)) = SumFunctionOnSet(f, HeldFor(u))
        BY <2>2, <2>3, SumOfSame
  <2> QED BY <2>1, <2>4 DEF HeldBy, f, k
<1> QED BY <1>1, <1>2 DEF Backed

LEMMA BackedLeftAlone ==
    ASSUME IsFiniteSet(Invitations), Backed, UNCHANGED <<request, reserved, overwritten>>
    PROVE  Backed'
BY BackedKept

(* One that is made, and its stake reserved. *)
LEMMA BackedWhenMade ==
    ASSUME IsFiniteSet(Invitations), TypeInv, Backed, NEW i \in Invitations, NEW u \in Players,
           request[i].status \notin Live, UNCHANGED overwritten,
           request' \in [Invitations -> Requests],
           \A j \in Invitations : j # i => request'[j] = request[j],
           request'[i].by = u, request'[i].status \in Live, request'[i].held = request'[i].stake,
           reserved' = [reserved EXCEPT ![u] = @ + request'[i].stake]
    PROVE  Backed'
<1> SUFFICES ASSUME overwritten' = {} PROVE HoldsItsStake' /\ \A v \in Players : reserved'[v] = HeldBy(v)'
    BY DEF Backed
<1>1. HoldsItsStake'
      BY DEF Backed, HoldsItsStake
<1>2. ASSUME NEW v \in Players PROVE reserved'[v] = HeldBy(v)'
  <2> DEFINE f == [j \in Invitations |-> request[j].held]
             k == [j \in Invitations |-> request'[j].held]
             H == HeldFor(v)
  <2>1. IsFiniteSet(H) /\ H \subseteq Invitations /\ i \notin H
        BY FS_Subset DEF HeldFor
  <2>2. reserved[v] = SumFunctionOnSet(f, H) /\ reserved[v] \in Nat
        BY DEF Backed, HeldBy, TypeInv, RankedTypeOK
  <2>3. \A j \in H \cup {i} : k[j] \in Int
        BY <2>1 DEF Requests
  <2>4. \A j \in H : k[j] = f[j]
        BY <2>1
  <2>5. k[i] = request'[i].stake
        OBVIOUS
  <2>6. HeldBy(v)' = SumFunctionOnSet(k, HeldFor(v)')
        BY DEF HeldBy
  <2> HIDE DEF f, k
  <2>7. SumFunctionOnSet(k, H) = reserved[v]
        BY <2>1, <2>2, <2>4, SumOfSame
  <2>8. CASE v = u
    <3>1. HeldFor(v)' = H \cup {i}
          BY <2>8 DEF HeldFor
    <3> HIDE DEF H
    <3>2. SumFunctionOnSet(k, H \cup {i}) = k[i] + reserved[v]
          BY <2>1, <2>3, <2>7, SumWithOneMore
    <3>3. reserved'[v] = reserved[v] + k[i] /\ k[i] \in Int
          BY <2>3, <2>5, <2>8 DEF TypeInv, RankedTypeOK
    <3> QED BY <2>2, <2>6, <3>1, <3>2, <3>3
  <2>9. CASE v # u
    <3>1. HeldFor(v)' = H
          BY <2>9 DEF HeldFor
    <3>2. reserved'[v] = reserved[v]
          BY <2>9 DEF TypeInv, RankedTypeOK
    <3> QED BY <2>6, <2>7, <3>1, <3>2
  <2> QED BY <2>8, <2>9
<1> QED BY <1>1, <1>2

(* One that ends, and what it holds taken out of the reservation. *)
LEMMA BackedWhenEnded ==
    ASSUME IsFiniteSet(Invitations), TypeInv, Backed, NEW i \in Invitations,
           request[i].status \in Live, UNCHANGED overwritten,
           \A j \in Invitations : j # i => request'[j] = request[j],
           request'[i].status \notin Live,
           overwritten = {} =>
               reserved' = [reserved EXCEPT ![request[i].by] = @ - request[i].held]
    PROVE  Backed'
<1> SUFFICES ASSUME overwritten' = {} PROVE HoldsItsStake' /\ \A v \in Players : reserved'[v] = HeldBy(v)'
    BY DEF Backed
<1>1. HoldsItsStake'
      BY DEF Backed, HoldsItsStake
<1>2. ASSUME NEW v \in Players PROVE reserved'[v] = HeldBy(v)'
  <2> DEFINE f == [j \in Invitations |-> request[j].held]
             k == [j \in Invitations |-> request'[j].held]
             H == HeldFor(v)
  <2>1. IsFiniteSet(H) /\ H \subseteq Invitations
        BY FS_Subset DEF HeldFor
  <2>2. reserved[v] = SumFunctionOnSet(f, H) /\ reserved[v] \in Nat
        BY DEF Backed, HeldBy, TypeInv, RankedTypeOK
  <2>3. \A j \in H : f[j] \in Int
        BY <2>1 DEF TypeInv, RankedTypeOK, Requests
  <2>4. \A j \in H \ {i} : k[j] = f[j]
        BY <2>1
  <2>5. f[i] = request[i].held
        OBVIOUS
  <2>6. HeldBy(v)' = SumFunctionOnSet(k, HeldFor(v)')
        BY DEF HeldBy
  <2>7. HeldFor(v)' = H \ {i}
        BY DEF HeldFor
  <2>8. v = request[i].by <=> i \in H
        BY DEF HeldFor
  <2>9. reserved'[v] = IF i \in H THEN reserved[v] - f[i] ELSE reserved[v]
        BY <2>5, <2>8 DEF TypeInv, RankedTypeOK
  <2> HIDE DEF f, k, H
  <2>10. IsFiniteSet(H \ {i})
         BY <2>1, FS_Subset
  <2>11. HeldBy(v)' = SumFunctionOnSet(f, H \ {i})
    <3>1. SumFunctionOnSet(k, H \ {i}) = SumFunctionOnSet(f, H \ {i})
          BY <2>4, <2>10, SumOfSame
    <3> QED BY <2>6, <2>7, <3>1
  <2>12. CASE i \in H
    <3>1. SumFunctionOnSet(f, H) = f[i] + SumFunctionOnSet(f, H \ {i})
          BY <2>1, <2>3, <2>12, SumWithout
    <3>2. SumFunctionOnSet(f, H \ {i}) \in Int
          BY <2>3, <2>10, SumIsInt
    <3> QED BY <2>2, <2>3, <2>9, <2>11, <2>12, <3>1, <3>2
  <2>13. CASE i \notin H
    <3>1. H \ {i} = H
          BY <2>13
    <3> QED BY <2>2, <2>9, <2>11, <2>13, <3>1
  <2> QED BY <2>12, <2>13
<1> QED BY <1>1, <1>2

LEMMA CancelsBacked ==
    ASSUME IsFiniteSet(Invitations), TypeInv, Backed, NEW i \in Invitations,
           request[i].status \in Live, NEW fee \in Nat, Cancels(i, fee), UNCHANGED overwritten
    PROVE  Backed'
<1>1. /\ request'[i].status = "CANCELLED"
      /\ \A j \in Invitations : j # i => request'[j] = request[j]
      BY CancelsTyped
<1>2. reserved' = [reserved EXCEPT ![request[i].by] = @ - request[i].held]
      BY DEF Cancels, Returns
<1> QED BY <1>1, <1>2, BackedWhenEnded DEF Live, Waiting

LEMMA AcceptBacked ==
    ASSUME IsFiniteSet(Invitations), TypeInv, Backed, NEW i \in Invitations, NEW c \in Players,
           NEW g \in Games, Accept(i, c, g)
    PROVE  Backed'
<1>1. /\ request'[i].status = "MATCHED"
      /\ \A j \in Invitations : j # i => request'[j] = request[j]
  <2> DEFINE q == [request[i] EXCEPT !.status = "MATCHED", !.held = 0, !.keyed = FALSE]
  <2>1. q.status = "MATCHED" /\ request' = [request EXCEPT ![i] = q]
        BY DEF Accept, TypeInv, RankedTypeOK, Requests
  <2> HIDE DEF q
  <2> QED BY <2>1 DEF TypeInv, RankedTypeOK
<1>2. request[i].status \in Live /\ UNCHANGED overwritten
      BY DEF Accept, Live
<1>3. overwritten = {} => request[i].held = request[i].stake
      BY <1>2 DEF Backed, HoldsItsStake
<1>4. reserved' = [reserved EXCEPT ![request[i].by] = @ - request[i].stake]
      BY DEF Accept
<1> QED BY <1>1, <1>2, <1>3, <1>4, BackedWhenEnded DEF Live, Waiting

LEMMA InvitationStepBacked ==
    ASSUME IsFiniteSet(Invitations), TypeInv, Backed, NEW i \in Invitations, InvitationStep(i)
    PROVE  Backed'
<1>0. request \in [Invitations -> Requests] /\ request[i] \in Requests
      BY DEF TypeInv, RankedTypeOK
<1>1. CASE CancelInvitation(i)
  <2>1. ManualFee \in Nat
        BY DaysAssumption
  <2> QED BY <1>1, <2>1, CancelsBacked DEF CancelInvitation
<1>2. ASSUME NEW u \in Players, CreateInvitation(i, u) PROVE Backed'
  <2>1. PICK t \in Tiers, stake \in Stakes, chosen \in SUBSET (Players \ {u}) :
            /\ request' = [request EXCEPT ![i] =
                    [status |-> IF chosen = {} THEN "SEARCHING" ELSE "OFFERED",
                     by |-> u, tier |-> t, stake |-> stake, held |-> stake, keyed |-> TRUE]]
            /\ reserved' = [reserved EXCEPT ![u] = @ + stake]
        BY <1>2 DEF CreateInvitation
  <2>2. /\ request'[i].by = u /\ request'[i].status \in Live
        /\ request'[i].stake = stake /\ request'[i].held = stake
        /\ \A j \in Invitations : j # i => request'[j] = request[j]
        BY <1>0, <2>1 DEF Live, Waiting
  <2>3. request[i].status \notin Live /\ UNCHANGED overwritten
        BY <1>2 DEF CreateInvitation, Live, Waiting
  <2>4. request' \in [Invitations -> Requests]
        BY <1>2, CreateTyped DEF TypeInv, RankedTypeOK
  <2> QED BY <2>1, <2>2, <2>3, <2>4, BackedWhenMade
<1>3. CASE RefreshOffers(i)
  <2>1. PICK chosen \in SUBSET Players :
            request' = IF chosen = {} THEN [request EXCEPT ![i].status = "SEARCHING"]
                       ELSE [request EXCEPT ![i].status = "OFFERED", ![i].keyed = TRUE]
        BY <1>3 DEF RefreshOffers, Candidates
  <2>2. /\ request'[i].status \in Waiting
        /\ request'[i].by = request[i].by
        /\ request'[i].held = request[i].held
        /\ request'[i].stake = request[i].stake
        /\ \A j \in Invitations : j # i => request'[j] = request[j]
    <3>1. CASE chosen = {}
          BY <1>0, <2>1, <3>1 DEF Requests, Waiting
    <3>2. CASE chosen # {}
          BY <1>0, <2>1, <3>2 DEF Requests, Waiting
    <3> QED BY <3>1, <3>2
  <2>3. request[i].status \in Waiting /\ UNCHANGED <<reserved, overwritten>>
        BY <1>3 DEF RefreshOffers, dayVars
  <2> QED BY <2>2, <2>3, BackedKept DEF Live
<1>4. ASSUME NEW u \in Players, AnswerTooLate(i, u) \/ Decline(i, u) PROVE Backed'
      BY <1>4, BackedLeftAlone DEF AnswerTooLate, Decline, dayVars
<1> QED BY <1>1, <1>2, <1>3, <1>4, AcceptBacked DEF InvitationStep

LEMMA JobStepBacked ==
    ASSUME IsFiniteSet(Invitations), TypeInv, Backed, JobStep
    PROVE  Backed'
<1>0. request \in [Invitations -> Requests]
      BY DEF TypeInv, RankedTypeOK
<1>1. CASE PauseRequests
  <2>1. \A j \in Invitations :
            /\ request'[j].by = request[j].by
            /\ request'[j].held = request[j].held
            /\ request'[j].stake = request[j].stake
            /\ request'[j].status = IF j \in job.ids THEN "PAUSED" ELSE request[j].status
    <3>1. \A j \in Invitations :
              LET q == [request[j] EXCEPT !.status = "PAUSED"] IN
              q.by = request[j].by /\ q.held = request[j].held /\ q.stake = request[j].stake
              /\ q.status = "PAUSED"
          BY <1>0 DEF Requests
    <3> QED BY <1>1, <3>1 DEF PauseRequests
  <2>2. overwritten' = {} =>
            /\ overwritten = {}
            /\ \A j \in Invitations : j \in job.ids => request[j].status \in Live
        BY <1>1 DEF PauseRequests
  <2>3. UNCHANGED reserved
        BY <1>1 DEF PauseRequests, dayVars
  <2> QED BY <2>1, <2>2, <2>3, BackedKept DEF Live
<1>2. ASSUME NEW i \in Invitations, ResumeRequest(i) PROVE Backed'
  <2>1. \A j \in Invitations :
            /\ request'[j].by = request[j].by
            /\ request'[j].held = request[j].held
            /\ request'[j].stake = request[j].stake
            /\ \/ request'[j].status = request[j].status
               \/ request'[j].status \in Waiting /\ request[j].status = "PAUSED"
    <3>1. CASE request[i].status # "PAUSED"
          BY <1>2, <3>1 DEF ResumeRequest
    <3>2. CASE request[i].status = "PAUSED"
      <4> DEFINE status == IF job.found THEN "OFFERED" ELSE "SEARCHING"
                 q == [request[i] EXCEPT !.status = status]
      <4>1. status \in Waiting /\ request' = [request EXCEPT ![i] = q]
            BY <1>2, <3>2 DEF ResumeRequest, Waiting
      <4>2. q.status = status /\ q.by = request[i].by /\ q.held = request[i].held
            /\ q.stake = request[i].stake
            BY <1>0 DEF Requests
      <4> HIDE DEF q
      <4> QED BY <1>0, <3>2, <4>1, <4>2
    <3> QED BY <3>1, <3>2
  <2>2. UNCHANGED <<reserved, overwritten>>
        BY <1>2 DEF ResumeRequest, dayVars
  <2> QED BY <2>1, <2>2, BackedKept DEF Live
<1>3. ASSUME NEW i \in Invitations, CancelListed(i) PROVE Backed'
  <2>1. AutomaticFee \in Nat
        BY DaysAssumption
  <2> QED BY <1>3, <2>1, CancelsBacked DEF CancelListed
<1>4. CASE JobBegins \/ PauseOffers \/ AllResumed \/ ListDepleted \/ JobEnds
  <2>1. UNCHANGED <<dayVars, request, overwritten>>
    <3>1. CASE JobBegins
          BY <3>1 DEF JobBegins, invitationVars
    <3>2. CASE PauseOffers
          BY <3>2 DEF PauseOffers
    <3> QED BY <1>4, <3>1, <3>2 DEF AllResumed, ListDepleted, JobEnds, invitationVars
  <2> QED BY <2>1, BackedLeftAlone DEF dayVars
<1>5. ASSUME NEW i \in Invitations,
             ResumeOffers(i) \/ SkipCancelled(i) \/ CancellationThrows(i)
      PROVE  Backed'
  <2>1. UNCHANGED <<dayVars, request, overwritten>>
        BY <1>5 DEF ResumeOffers, SkipCancelled, CancellationThrows, invitationVars
  <2> QED BY <2>1, BackedLeftAlone DEF dayVars
<1>6. ASSUME NEW u \in Players, ListInvitations(u) PROVE Backed'
  <2>1. UNCHANGED <<dayVars, invitationVars>>
        BY <1>6 DEF ListInvitations
  <2> QED BY <2>1, BackedLeftAlone DEF dayVars, invitationVars
<1> QED BY <1>1, <1>2, <1>3, <1>4, <1>5, <1>6 DEF JobStep

LEMMA BackedStep ==
    ASSUME IsFiniteSet(Invitations)
    PROVE  Backed /\ TypeInv /\ [RankedNext]_rankedVars => Backed'
<1> SUFFICES ASSUME Backed, TypeInv, [RankedNext]_rankedVars PROVE Backed'
    OBVIOUS
<1>1. CASE UNCHANGED rankedVars \/ WeekGoesOn \/ JobDies \/ \E u \in Players : ConsumeDay(u)
  <2>1. UNCHANGED <<request, reserved, overwritten>>
        BY <1>1 DEF rankedVars, WeekGoesOn, JobDies, ConsumeDay, dayVars, invitationVars
  <2> QED BY <2>1, BackedLeftAlone
<1>2. ASSUME NEW g \in Games, GameStep(g) PROVE Backed'
  <2>1. UNCHANGED <<request, reserved, overwritten>>
        BY <1>2 DEF GameStep, Upload, Hold, CancelGame, ReviewClear, ForfeitRevenge, UpwardChallenge,
            StartRevenge, SettleByScore, Forfeit, SettleRevenge, ReviewCheating, dayVars, invitationVars
  <2> QED BY <2>1, BackedLeftAlone
<1> QED BY <1>1, <1>2, JobStepBacked, InvitationStepBacked DEF RankedNext

----------------------------------------------------------------------------
(* What becomes of a match, of the right of revenge that comes of it, and  *)
(* of the tiers of its players: every step does one of these.              *)

GamesRest == UNCHANGED <<gameVars, locked>>

(* Two that may meet begin a match: an ordinary one, or the one a right of revenge is for. *)
Begins(g) ==
    /\ \E c, u \in Players, cs, ds \in Nat, h \in Games :
        /\ c # u /\ MayMeet(c, u)
        /\ NewGame(g, c, u, cs, ds, h)
        /\ UNCHANGED tier
        /\ \/ h = g /\ UNCHANGED right
           \/ /\ h # g /\ right[h].status = "AVAILABLE"
              /\ c = right[h].by /\ u = right[h].against /\ cs = right[h].stake
              /\ right' = [right EXCEPT ![h].status = "CLAIMED"]
    /\ \A u \in Players : locked'[u] >= locked[u]

(* Something is uploaded, in time or not, and no day is moved. *)
Uploaded(g) ==
    /\ game[g].uploads < 2 /\ game'[g].uploads = game[g].uploads + 1
    /\ game'[g].status \in {game[g].status, "PLAYING", "SUBMITTED", "HELD"}
    /\ game'[g].paid = game[g].paid
    /\ UNCHANGED <<dayVars, right, tier>>

(* A match is held, or released, and no day is moved. *)
PutOnHold(g) ==
    /\ game[g].status # "SETTLED" /\ game'[g].status = "HELD"
    /\ game'[g].paid = game[g].paid
    /\ UNCHANGED <<dayVars, right, tier>>
Released(g) ==
    /\ game[g].status = "HELD" /\ game'[g].status = "SUBMITTED"
    /\ game'[g].paid = game[g].paid
    /\ UNCHANGED <<dayVars, right, tier>>

GoesOn(g) ==
    /\ game[g].status # "NONE" /\ OnlyGame(g)
    /\ Uploaded(g) \/ PutOnHold(g) \/ Released(g)

GivenUp(h) ==
    /\ right[h].status = "AVAILABLE"
    /\ right' = [right EXCEPT ![h].status = "FORFEITED"]
    /\ UNCHANGED <<game, tier, locked>>

GrantsRevenge(g) ==
    \E by, against \in Players :
        /\ Parties(g) = {by, against}
        /\ right' = [right EXCEPT ![g] = [status |-> "AVAILABLE", by |-> by,
                                          stake |-> 2 * game[g].cstake, against |-> against]]

(* A match ends, and what comes of it. *)
Concludes(g, kind) ==
    /\ game[g].status \notin {"NONE", "SETTLED"}
    /\ game[g].status = "CANCELLED" => kind = "SETTLED"
    /\ kind \notin game[g].paid
    /\ kind = "SETTLED" => "JUDGED" \notin game[g].paid
    /\ Closed(g, kind)
    /\ UNCHANGED tier \/ (kind \in {"SETTLED", "JUDGED"} /\ Unmoved(g) /\ Swap(g))
    /\ \/ UNCHANGED right
       \/ kind = "SETTLED" /\ game[g].uploads = 2 /\ ~IsRevenge(g) /\ GrantsRevenge(g)
       \/ IsRevenge(g) /\ right' = [right EXCEPT ![game[g].source].status = "CONSUMED"]

GameChange ==
    \/ GamesRest
    \/ \E g \in Games : Begins(g) \/ GoesOn(g) \/ GivenUp(g)
    \/ \E g \in Games, kind \in Endings : Concludes(g, kind)

(* The begun matches. *)
LEMMA StepBegins ==
    ASSUME TypeInv, NEW g \in Games,
           \/ \E i \in Invitations, c \in Players : Accept(i, c, g)
           \/ \E u, c \in Players : UpwardChallenge(u, c, g)
           \/ \E h \in Games : StartRevenge(h, g)
    PROVE  Begins(g)
<1>0. locked \in [Players -> Nat]
      BY DEF TypeInv, RankedTypeOK
<1>1. ASSUME NEW i \in Invitations, NEW c \in Players, Accept(i, c, g) PROVE Begins(g)
  <2> DEFINE u == request[i].by
             stake == request[i].stake
  <2>1. u \in Players /\ stake \in Nat
        BY <1>1 DEF Accept, Waiting, TypeInv, RankedTypeOK, PlayersNamed, Requests
  <2>2. c # u
        BY <1>1, <2>1, MayMeetTwo DEF Accept
  <2>3. NewGame(g, c, u, stake, stake, g) /\ MayMeet(c, u) /\ UNCHANGED <<right, tier>>
        BY <1>1 DEF Accept
  <2>4. \A v \in Players : locked'[v] >= locked[v]
    <3>1. locked' = [locked EXCEPT ![u] = @ + stake, ![c] = @ + stake]
          BY <1>1 DEF Accept
    <3> QED BY <1>0, <2>1, <2>2, <3>1
  <2> QED BY Zenon, <2>1, <2>2, <2>3, <2>4 DEF Begins
<1>2. ASSUME NEW u \in Players, NEW c \in Players, UpwardChallenge(u, c, g) PROVE Begins(g)
  <2>1. PICK stake \in Stakes : /\ NewGame(g, u, c, stake, 0, g)
                                /\ locked' = [locked EXCEPT ![u] = @ + stake]
        BY <1>2 DEF UpwardChallenge
  <2>2. stake \in Nat /\ 0 \in Nat
        BY DaysAssumption
  <2>3. MayMeet(u, c) /\ UNCHANGED <<right, tier>>
        BY <1>2 DEF UpwardChallenge
  <2>4. u # c
        BY <2>3, MayMeetTwo
  <2>5. \A v \in Players : locked'[v] >= locked[v]
        BY <1>0, <2>1, <2>2
  <2> QED BY Zenon, <2>1, <2>2, <2>3, <2>4, <2>5 DEF Begins
<1>3. ASSUME NEW h \in Games, StartRevenge(h, g) PROVE Begins(g)
  <2> DEFINE a == right[h].by
             d == right[h].against
             stake == right[h].stake
  <2>1. a \in Players /\ d \in Players /\ stake \in Nat /\ 0 \in Nat
        BY <1>3 DEF StartRevenge, TypeInv, RankedTypeOK, PlayersNamed, Rights
  <2>2. /\ NewGame(g, a, d, stake, 0, h) /\ MayMeet(a, d) /\ UNCHANGED tier
        /\ h # g /\ right[h].status = "AVAILABLE"
        /\ right' = [right EXCEPT ![h].status = "CLAIMED"]
        BY <1>3 DEF StartRevenge
  <2>3. a # d
        BY <2>1, <2>2, MayMeetTwo
  <2>4. \A v \in Players : locked'[v] >= locked[v]
    <3>1. locked' = [locked EXCEPT ![a] = @ + stake]
          BY <1>3 DEF StartRevenge
    <3> QED BY <1>0, <2>1, <3>1
  <2> QED BY Zenon, <2>1, <2>2, <2>3, <2>4 DEF Begins
<1> QED BY <1>1, <1>2, <1>3

(* The matches that end. *)
LEMMA StepConcludes ==
    ASSUME TypeInv, NEW g \in Games,
           \/ CancelGame(g)
           \/ \E wins \in BOOLEAN : SettleByScore(g, wins) \/ Forfeit(g, wins)
           \/ \E winner \in RevengeOutcomes : SettleRevenge(g, winner)
           \/ \E cheats \in SUBSET Parties(g) : ReviewCheating(g, cheats)
    PROVE  \E kind \in Endings : Concludes(g, kind)
<1>1. ASSUME NEW kind \in Endings, NEW toC, NEW toD, NEW burned, Ends(g, kind, toC, toD, burned)
      PROVE  /\ kind \notin game[g].paid
             /\ kind = "SETTLED" => "JUDGED" \notin game[g].paid
             /\ Closed(g, kind)
      BY <1>1 DEF Ends
<1>2. CASE CancelGame(g)
  <2>1. /\ game[g].status \notin {"NONE", "SETTLED", "CANCELLED"} /\ UNCHANGED <<right, tier>>
        /\ \E kind \in Endings : Ends(g, kind, game[g].cstake, game[g].dstake, 0)
        BY <1>2 DEF CancelGame, InPlay, Endings
  <2> QED BY <1>1, <2>1 DEF Concludes
<1>3. "SETTLED" \in Endings /\ "JUDGED" \in Endings
      BY DEF Endings
<1>4. ASSUME NEW wins \in BOOLEAN, PaysWinner(g, wins)
      PROVE  /\ \E toC, toD, burned : Ends(g, "SETTLED", toC, toD, burned)
             /\ UNCHANGED tier \/ (Unmoved(g) /\ Swap(g))
      BY <1>4 DEF PaysWinner
<1>5. ASSUME NEW wins \in BOOLEAN, SettleByScore(g, wins) PROVE Concludes(g, "SETTLED")
  <2> DEFINE loser == IF wins THEN game[g].defender ELSE game[g].challenger
             victor == IF wins THEN game[g].challenger ELSE game[g].defender
  <2>1. /\ game[g].status = "SUBMITTED" /\ game[g].uploads = 2 /\ ~IsRevenge(g)
        /\ PaysWinner(g, wins)
        BY <1>5 DEF SettleByScore
  <2>2. loser \in Players /\ victor \in Players /\ Parties(g) = {loser, victor}
        BY <2>1, TwoParties DEF Parties
  <2>3. right' = [right EXCEPT ![g] = [status |-> "AVAILABLE", by |-> loser,
                                       stake |-> 2 * game[g].cstake, against |-> victor]]
        BY Zenon, <1>5 DEF SettleByScore
  <2> HIDE DEF loser, victor
  <2>4. GrantsRevenge(g)
        BY Zenon, <2>2, <2>3 DEF GrantsRevenge
  <2> QED BY <1>1, <1>3, <1>4, <2>1, <2>4 DEF Concludes
<1>6. ASSUME NEW wins \in BOOLEAN, Forfeit(g, wins) PROVE Concludes(g, "SETTLED")
  <2>1. game[g].status \notin {"NONE", "SETTLED"} /\ PaysWinner(g, wins) /\ UNCHANGED right
        BY <1>6 DEF Forfeit, Undecided, InPlay
  <2> QED BY <1>1, <1>3, <1>4, <2>1 DEF Concludes
<1>7. ASSUME NEW winner \in RevengeOutcomes, SettleRevenge(g, winner) PROVE Concludes(g, "SETTLED")
  <2>1. /\ game[g].status \notin {"NONE", "SETTLED"} /\ IsRevenge(g) /\ Unmoved(g)
        /\ right' = [right EXCEPT ![game[g].source].status = "CONSUMED"]
        BY <1>7 DEF SettleRevenge, Undecided, InPlay
  <2>2. /\ \E toC, toD, burned : Ends(g, "SETTLED", toC, toD, burned)
        /\ UNCHANGED tier \/ Swap(g)
        BY <1>7 DEF SettleRevenge
  <2> QED BY <1>1, <1>3, <2>1, <2>2 DEF Concludes
<1>8. ASSUME NEW cheats \in SUBSET Parties(g), ReviewCheating(g, cheats) PROVE Concludes(g, "JUDGED")
  <2>1. /\ game[g].status = "HELD" /\ Unmoved(g) /\ UNCHANGED right
        /\ \E toC, toD, burned : Ends(g, "JUDGED", toC, toD, burned)
        /\ UNCHANGED tier \/ Swap(g)
        BY <1>8 DEF ReviewCheating
  <2> QED BY <1>1, <1>3, <2>1 DEF Concludes
<1> QED BY <1>2, <1>3, <1>5, <1>6, <1>7, <1>8

LEMMA StepGoesOn ==
    ASSUME TypeInv, NEW g \in Games, Upload(g) \/ Hold(g) \/ ReviewClear(g)
    PROVE  GoesOn(g)
<1>1. CASE Hold(g)
      BY <1>1, StatusTyped DEF Hold, Undecided, InPlay, GoesOn, PutOnHold
<1>2. CASE ReviewClear(g)
      BY <1>2, StatusTyped DEF ReviewClear, InPlay, GoesOn, Released
<1>3. CASE Upload(g)
      BY <1>3, UploadTyped DEF Upload, GoesOn, Uploaded
<1> QED BY <1>1, <1>2, <1>3

LEMMA GameChanges == TypeInv /\ [RankedNext]_rankedVars => GameChange
<1> SUFFICES ASSUME TypeInv, [RankedNext]_rankedVars PROVE GameChange
    OBVIOUS
<1>1. CASE UNCHANGED rankedVars \/ WeekGoesOn \/ JobDies \/ \E u \in Players : ConsumeDay(u)
      BY <1>1 DEF rankedVars, WeekGoesOn, JobDies, ConsumeDay, GameChange, GamesRest, gameVars, dayVars
<1>2. CASE JobStep
      BY <1>2
      DEF JobStep, JobBegins, PauseRequests, PauseOffers, AllResumed, ListDepleted, JobEnds,
          ResumeOffers, ResumeRequest, CancelListed, SkipCancelled, CancellationThrows,
          ListInvitations, GameChange, GamesRest, gameVars, dayVars
<1>3. ASSUME NEW i \in Invitations, InvitationStep(i) PROVE GameChange
  <2>1. CASE \E c \in Players, g \in Games : Accept(i, c, g)
        BY <2>1, StepBegins DEF GameChange
  <2>2. CASE ~\E c \in Players, g \in Games : Accept(i, c, g)
        BY <1>3, <2>2
        DEF InvitationStep, CancelInvitation, RefreshOffers, CreateInvitation, AnswerTooLate, Decline,
            GameChange, GamesRest, gameVars, dayVars
  <2> QED BY <2>1, <2>2
<1>4. ASSUME NEW g \in Games, GameStep(g) PROVE GameChange
  <2>1. CASE ForfeitRevenge(g)
    <3>1. GivenUp(g)
          BY <2>1 DEF ForfeitRevenge, GivenUp, dayVars
    <3> QED BY <3>1 DEF GameChange
  <2>2. CASE Upload(g) \/ Hold(g) \/ ReviewClear(g)
        BY <2>2, StepGoesOn DEF GameChange
  <2>3. CASE (\E u, c \in Players : UpwardChallenge(u, c, g)) \/ \E h \in Games : StartRevenge(h, g)
        BY <2>3, StepBegins DEF GameChange
  <2>4. CASE \/ CancelGame(g)
             \/ \E wins \in BOOLEAN : SettleByScore(g, wins) \/ Forfeit(g, wins)
             \/ \E winner \in RevengeOutcomes : SettleRevenge(g, winner)
             \/ \E cheats \in SUBSET Parties(g) : ReviewCheating(g, cheats)
        BY <2>4, StepConcludes DEF GameChange
  <2> QED BY <1>4, <2>1, <2>2, <2>3, <2>4 DEF GameStep
<1> QED BY <1>1, <1>2, <1>3, <1>4 DEF RankedNext

(***************************************************************************)
(* A revenge is played by the two of a settled match for twice its stake,  *)
(* no more than once, and never for a revenge.                             *)
(***************************************************************************)
RevengeOnce ==
    \A g \in Games : IsRevenge(g) =>
        LET h == game[g].source IN
        /\ game[h].status = "SETTLED" /\ ~IsRevenge(h)
        /\ Parties(g) = Parties(h) /\ game[g].challenger = right[h].by
        /\ game[g].cstake = 2 * game[h].cstake
        /\ right[h].status \in {"CLAIMED", "CONSUMED"}
        /\ \A k \in Games \ {g} : IsRevenge(k) => game[k].source # h

(***************************************************************************)
(* A match that has been scored can neither be put back in play, nothing   *)
(* being left to upload, nor be settled again.                             *)
(***************************************************************************)
Scored(h) ==
    game[h].status = "SETTLED" /\ game[h].uploads = 2 /\ "SETTLED" \in game[h].paid

(* A right comes of a match that was scored and is no revenge itself. *)
RightsInherited ==
    \A h \in Games : right[h].status # "NONE" =>
        /\ Scored(h) /\ ~IsRevenge(h)
        /\ right[h].stake = 2 * game[h].cstake
        /\ Parties(h) = {right[h].by, right[h].against}

RevengeInv == RevengeOnce /\ RightsInherited

LEMMA RevengeInit == RankedInit => RevengeInv
BY DEF RankedInit, RevengeInv, RevengeOnce, RightsInherited, IsRevenge, NoGame, NoRight

LEMMA RightStatus ==
    ASSUME TypeInv, NEW h \in Games, NEW status, right' = [right EXCEPT ![h].status = status]
    PROVE  /\ right'[h].status = status
           /\ right'[h].by = right[h].by /\ right'[h].against = right[h].against
           /\ right'[h].stake = right[h].stake
           /\ \A k \in Games : k # h => right'[k] = right[k]
<1> DEFINE q == [right[h] EXCEPT !.status = status]
<1>1. right \in [Games -> Rights] /\ right[h] \in Rights
      BY DEF TypeInv, RankedTypeOK
<1>2. q.status = status /\ q.by = right[h].by /\ q.against = right[h].against /\ q.stake = right[h].stake
      BY <1>1 DEF Rights
<1>3. right' = [right EXCEPT ![h] = q]
      BY <1>1
<1> HIDE DEF q
<1> QED BY <1>1, <1>2, <1>3

(* The terms of every match and the scored ones stay, and so do the rights, but for a status. *)
LEMMA RevengeKept ==
    ASSUME TypeInv, RevengeInv,
           \A g \in Games : SameTerms(g) /\ (Scored(g) => Scored(g)'),
           \A h \in Games :
               \/ right'[h] = right[h]
               \/ /\ right'[h].by = right[h].by /\ right'[h].against = right[h].against
                  /\ right'[h].stake = right[h].stake
                  /\ \/ right[h].status = "AVAILABLE"
                     \/ right[h].status # "NONE" /\ right'[h].status = "CONSUMED"
    PROVE  RevengeInv'
<1>1. \A g \in Games : game[g].source \in Games
      BY DEF TypeInv, RankedTypeOK, Matches
<1>2. \A g \in Games : /\ IsRevenge(g)' <=> IsRevenge(g)
                       /\ Parties(g)' = Parties(g)
      BY DEF IsRevenge, Parties, SameTerms
<1>3. \A h \in Games : /\ right'[h].status # "NONE" => right[h].status # "NONE"
                       /\ right'[h].by = right[h].by /\ right'[h].against = right[h].against
                       /\ right'[h].stake = right[h].stake
                       /\ right[h].status \in {"CLAIMED", "CONSUMED"}
                            => right'[h].status \in {"CLAIMED", "CONSUMED"}
      OBVIOUS
<1>4. RightsInherited'
      BY <1>2, <1>3 DEF RevengeInv, RightsInherited, SameTerms
<1>5. \A h \in Games : right[h].status # "NONE" => game'[h].status = "SETTLED"
      BY DEF RevengeInv, RightsInherited, Scored
<1>6. RevengeOnce'
      BY <1>1, <1>2, <1>3, <1>5 DEF RevengeInv, RevengeOnce, SameTerms
<1> QED BY <1>4, <1>6 DEF RevengeInv

(* What a match that ends leaves as it was. *)
LEMMA ConcludedTyped ==
    ASSUME TypeInv, NEW g \in Games, NEW kind \in Endings, Concludes(g, kind)
    PROVE  /\ game[g].status \notin {"NONE", "SETTLED"}
           /\ game'[g].status = Ending(kind) /\ game'[g].uploads = game[g].uploads
           /\ game'[g].paid = game[g].paid \cup {kind}
           /\ \A h \in Games : SameTerms(h)
           /\ \A h \in Games : h # g => game'[h] = game[h]
           /\ \A h \in Games : Scored(h) => h # g
BY ClosedTyped DEF Concludes, OnlyGame, SameTerms, Scored

LEMMA RevengeBegun ==
    ASSUME TypeInv, RevengeInv, NEW g \in Games, Begins(g)
    PROVE  RevengeInv'
<1>1. PICK c \in Players, u \in Players, cs \in Nat, ds \in Nat, h \in Games :
        /\ c # u /\ MayMeet(c, u)
        /\ NewGame(g, c, u, cs, ds, h)
        /\ UNCHANGED tier
        /\ \/ h = g /\ UNCHANGED right
           \/ /\ h # g /\ right[h].status = "AVAILABLE"
              /\ c = right[h].by /\ u = right[h].against /\ cs = right[h].stake
              /\ right' = [right EXCEPT ![h].status = "CLAIMED"]
      BY Zenon DEF Begins
<1>2. /\ game'[g].challenger = c /\ game'[g].defender = u /\ game'[g].source = h
      /\ game'[g].cstake = cs
      /\ \A k \in Games : k # g => game'[k] = game[k]
      /\ game[g].status = "NONE"
      BY <1>1, NewGameTyped
<1>3. right[g].status = "NONE" /\ \A k \in Games : IsRevenge(k) => game[k].source # g
      BY <1>2 DEF RevengeInv, RevengeOnce, RightsInherited, Scored
<1>4. \A k \in Games : k # g => (IsRevenge(k)' <=> IsRevenge(k)) /\ Parties(k)' = Parties(k)
      BY <1>2 DEF IsRevenge, Parties
<1>5. \A k \in Games : game[k].source \in Games
      BY DEF TypeInv, RankedTypeOK, Matches
<1>6. CASE h = g /\ UNCHANGED right
  <2>1. ~IsRevenge(g)'
        BY <1>2, <1>6 DEF IsRevenge
  <2>2. RightsInherited'
        BY <1>2, <1>3, <1>4, <1>6 DEF RevengeInv, RightsInherited, Scored
  <2>3. RevengeOnce'
        BY <1>2, <1>3, <1>4, <1>5, <1>6, <2>1 DEF RevengeInv, RevengeOnce
  <2> QED BY <2>2, <2>3 DEF RevengeInv
<1>7. CASE /\ h # g /\ right[h].status = "AVAILABLE"
           /\ c = right[h].by /\ u = right[h].against /\ cs = right[h].stake
           /\ right' = [right EXCEPT ![h].status = "CLAIMED"]
  <2>1. /\ right'[h].status = "CLAIMED"
        /\ right'[h].by = right[h].by /\ right'[h].against = right[h].against
        /\ right'[h].stake = right[h].stake
        /\ \A k \in Games : k # h => right'[k] = right[k]
        BY <1>7, RightStatus
  <2>2. \A k \in Games : IsRevenge(k) => game[k].source # h
        BY <1>7 DEF RevengeInv, RevengeOnce
  <2>3. /\ game[h].status = "SETTLED" /\ ~IsRevenge(h) /\ cs = 2 * game[h].cstake
        /\ Parties(h) = {c, u}
        BY <1>7 DEF RevengeInv, RightsInherited, Scored
  <2>4. Parties(g)' = {c, u}
        BY <1>2 DEF Parties
  <2>5. RightsInherited'
        BY <1>2, <1>3, <1>4, <1>7, <2>1 DEF RevengeInv, RightsInherited, Scored
  <2>6. ASSUME NEW k \in Games, IsRevenge(k)', NEW s \in Games, s = game'[k].source
        PROVE  /\ game'[s].status = "SETTLED" /\ ~IsRevenge(s)'
               /\ Parties(k)' = Parties(s)' /\ game'[k].challenger = right'[s].by
               /\ game'[k].cstake = 2 * game'[s].cstake
               /\ right'[s].status \in {"CLAIMED", "CONSUMED"}
               /\ \A j \in Games \ {k} : IsRevenge(j)' => game'[j].source # s
    <3>1. CASE k = g
      <4>1. s = h
            BY <1>2, <2>6, <3>1
      <4>2. game'[h] = game[h] /\ ~IsRevenge(h)' /\ Parties(h)' = {c, u} /\ Parties(k)' = {c, u}
            BY <1>2, <1>4, <1>7, <2>3, <2>4, <3>1
      <4>3. \A j \in Games \ {k} : IsRevenge(j)' => game'[j].source # h
            BY <1>2, <1>4, <2>2, <3>1
      <4> QED BY <1>2, <1>7, <2>1, <2>3, <3>1, <4>1, <4>2, <4>3
    <3>2. CASE k # g
      <4>1. IsRevenge(k) /\ game'[k] = game[k] /\ s = game[k].source
            BY <1>2, <1>4, <2>6, <3>2
      <4>2. s # g /\ s # h
            BY <1>3, <2>2, <4>1
      <4>3. /\ game[s].status = "SETTLED" /\ ~IsRevenge(s)
            /\ Parties(k) = Parties(s) /\ game[k].challenger = right[s].by
            /\ game[k].cstake = 2 * game[s].cstake
            /\ right[s].status \in {"CLAIMED", "CONSUMED"}
            /\ \A j \in Games \ {k} : IsRevenge(j) => game[j].source # s
            BY <4>1 DEF RevengeInv, RevengeOnce
      <4>4. game'[s] = game[s] /\ right'[s] = right[s] /\ Parties(s)' = Parties(s)
            /\ Parties(k)' = Parties(k) /\ ~IsRevenge(s)'
            BY <1>2, <1>4, <2>1, <3>2, <4>2, <4>3
      <4>5. \A j \in Games \ {k} : IsRevenge(j)' => game'[j].source # s
            BY <1>2, <1>4, <4>2, <4>3
      <4> QED BY <4>1, <4>3, <4>4, <4>5
    <3> QED BY <3>1, <3>2
  <2>7. \A k \in Games : game'[k].source \in Games
        BY <1>2, <1>5
  <2>8. RevengeOnce'
        BY <2>6, <2>7 DEF RevengeOnce
  <2> QED BY <2>5, <2>8 DEF RevengeInv
<1> QED BY <1>1, <1>6, <1>7

LEMMA RevengeConcluded ==
    ASSUME TypeInv, RevengeInv, NEW g \in Games, NEW kind \in Endings, Concludes(g, kind)
    PROVE  RevengeInv'
<1>1. /\ game[g].status \notin {"NONE", "SETTLED"}
      /\ game'[g].status = Ending(kind) /\ game'[g].uploads = game[g].uploads
      /\ game'[g].paid = game[g].paid \cup {kind}
      /\ \A h \in Games : SameTerms(h)
      /\ \A h \in Games : h # g => game'[h] = game[h]
      /\ \A h \in Games : Scored(h) => h # g
      BY ConcludedTyped
<1>2. \A h \in Games : Scored(h) => Scored(h)'
      BY <1>1 DEF Scored
<1>3. CASE UNCHANGED right
      BY <1>1, <1>2, <1>3, RevengeKept
<1>4. CASE IsRevenge(g) /\ right' = [right EXCEPT ![game[g].source].status = "CONSUMED"]
  <2> DEFINE h == game[g].source
  <2>1. h \in Games /\ right[h].status # "NONE"
        BY <1>4 DEF TypeInv, RankedTypeOK, Matches, RevengeInv, RevengeOnce
  <2>2. /\ right'[h].status = "CONSUMED"
        /\ right'[h].by = right[h].by /\ right'[h].against = right[h].against
        /\ right'[h].stake = right[h].stake
        /\ \A k \in Games : k # h => right'[k] = right[k]
        BY <1>4, <2>1, RightStatus
  <2> HIDE DEF h
  <2> QED BY <1>1, <1>2, <2>1, <2>2, RevengeKept
<1>5. CASE kind = "SETTLED" /\ game[g].uploads = 2 /\ ~IsRevenge(g) /\ GrantsRevenge(g)
  <2>1. PICK by \in Players, against \in Players :
          /\ Parties(g) = {by, against}
          /\ right' = [right EXCEPT ![g] = [status |-> "AVAILABLE", by |-> by,
                                            stake |-> 2 * game[g].cstake, against |-> against]]
        BY <1>5 DEF GrantsRevenge
  <2>2. /\ right'[g].status = "AVAILABLE" /\ right'[g].by = by /\ right'[g].against = against
        /\ right'[g].stake = 2 * game[g].cstake
        /\ \A k \in Games : k # g => right'[k] = right[k]
        BY <2>1 DEF TypeInv, RankedTypeOK
  <2>3. \A k \in Games : /\ IsRevenge(k)' <=> IsRevenge(k)
                         /\ Parties(k)' = Parties(k)
        BY <1>1 DEF IsRevenge, Parties, SameTerms
  <2>4. \A k \in Games : IsRevenge(k) => game[k].source # g
        BY <1>1 DEF RevengeInv, RevengeOnce
  <2>5. \A k \in Games : game[k].source \in Games
        BY DEF TypeInv, RankedTypeOK, Matches
  <2>6. RightsInherited'
    <3>1. Scored(g)'
          BY <1>1, <1>5 DEF Scored, Ending
    <3> QED BY <1>1, <1>2, <1>5, <2>1, <2>2, <2>3, <3>1 DEF RevengeInv, RightsInherited, SameTerms
  <2>7. RevengeOnce'
        BY <1>1, <2>2, <2>3, <2>4, <2>5 DEF RevengeInv, RevengeOnce, SameTerms
  <2> QED BY <2>6, <2>7 DEF RevengeInv
<1> QED BY <1>3, <1>4, <1>5 DEF Concludes

LEMMA RevengeStep == RevengeInv /\ TypeInv /\ [RankedNext]_rankedVars => RevengeInv'
<1> SUFFICES ASSUME RevengeInv, TypeInv, GameChange PROVE RevengeInv'
    BY GameChanges
<1>1. CASE GamesRest
      BY <1>1, RevengeKept DEF GamesRest, gameVars, SameTerms, Scored
<1>2. ASSUME NEW g \in Games, GoesOn(g) PROVE RevengeInv'
  <2>1. \A h \in Games : SameTerms(h) /\ (Scored(h) => Scored(h)')
        BY <1>2 DEF GoesOn, OnlyGame, SameTerms, Uploaded, PutOnHold, Released, Scored
  <2> QED BY <1>2, <2>1, RevengeKept DEF GoesOn, Uploaded, PutOnHold, Released
<1>3. ASSUME NEW h \in Games, GivenUp(h) PROVE RevengeInv'
  <2>1. /\ right'[h].by = right[h].by /\ right'[h].against = right[h].against
        /\ right'[h].stake = right[h].stake /\ right'[h].status = "FORFEITED"
        /\ \A k \in Games : k # h => right'[k] = right[k]
        BY <1>3, RightStatus DEF GivenUp
  <2>2. right[h].status = "AVAILABLE" /\ UNCHANGED game
        BY <1>3 DEF GivenUp
  <2>3. \A g \in Games : SameTerms(g) /\ (Scored(g) => Scored(g)')
        BY <2>2 DEF SameTerms, Scored
  <2>4. \A k \in Games :
               \/ right'[k] = right[k]
               \/ /\ right'[k].by = right[k].by /\ right'[k].against = right[k].against
                  /\ right'[k].stake = right[k].stake
                  /\ \/ right[k].status = "AVAILABLE"
                     \/ right[k].status # "NONE" /\ right'[k].status = "CONSUMED"
        BY <2>1, <2>2
  <2> QED BY <2>3, <2>4, RevengeKept
<1> QED BY <1>1, <1>2, <1>3, RevengeBegun, RevengeConcluded DEF GameChange

(***************************************************************************)
(* What is over stays over, but for what arrives late.  Only an upload     *)
(* changes a match that was settled, one that is missing, and not what has *)
(* been paid.  One that was cancelled may also be held, or be settled by a *)
(* decision that was taken before.  A match is ended in each way once, and *)
(* locked days go down only when one is ended.  And a right of revenge     *)
(* that was used or given up is not to be had again.                       *)
(***************************************************************************)
OverButForLateComers ==
    /\ \A g \in Games : game[g].status = "SETTLED" =>
        game'[g] = game[g] \/ (SameTerms(g) /\ Uploaded(g))
    /\ \A g \in Games : game[g].status = "CANCELLED" =>
        \/ game'[g] = game[g]
        \/ SameTerms(g) /\ (Uploaded(g) \/ PutOnHold(g))
        \/ SameTerms(g) /\ game'[g].status = "SETTLED" /\ game[g].paid \cap {"SETTLED", "JUDGED"} = {}
    /\ \A g \in Games :
        \/ game'[g].paid = game[g].paid
        \/ \E kind \in Endings \ game[g].paid :
                game'[g].paid = game[g].paid \cup {kind} /\ game'[g].status = Ending(kind)
    /\ (\A g \in Games : game'[g].paid = game[g].paid) => \A u \in Players : locked'[u] >= locked[u]
    /\ \A h \in Games :
        /\ right[h].status \in {"FORFEITED", "CONSUMED"} => right'[h] = right[h]
        /\ right[h].status = "CLAIMED" => right'[h].status \in {"CLAIMED", "CONSUMED"}

LEMMA OverStep ==
    RevengeInv /\ LockedInv /\ TypeInv /\ [RankedNext]_rankedVars => OverButForLateComers
<1> SUFFICES ASSUME RevengeInv, LockedInv, TypeInv, GameChange PROVE OverButForLateComers
    BY GameChanges
<1>0. /\ game \in [Games -> Matches] /\ right \in [Games -> Rights]
      /\ \A u \in Players : locked[u] >= locked[u]
      BY DEF TypeInv, RankedTypeOK
<1>1. CASE GamesRest
      BY <1>0, <1>1 DEF GamesRest, gameVars, OverButForLateComers
<1>2. ASSUME NEW g \in Games, Begins(g) PROVE OverButForLateComers
  <2>1. PICK c \in Players, u \in Players, cs \in Nat, ds \in Nat, h \in Games :
          /\ c # u /\ MayMeet(c, u)
          /\ NewGame(g, c, u, cs, ds, h)
          /\ UNCHANGED tier
          /\ \/ h = g /\ UNCHANGED right
             \/ /\ h # g /\ right[h].status = "AVAILABLE"
                /\ c = right[h].by /\ u = right[h].against /\ cs = right[h].stake
                /\ right' = [right EXCEPT ![h].status = "CLAIMED"]
        BY Zenon, <1>2 DEF Begins
  <2>2. /\ game[g].status = "NONE" /\ game'[g].paid = {}
        /\ \A k \in Games : k # g => game'[k] = game[k]
        BY <2>1, NewGameTyped
  <2>3. UNCHANGED right \/ (right[h].status = "AVAILABLE" /\ \A k \in Games : k # h => right'[k] = right[k])
        BY <1>0, <2>1
  <2>4. game[g].paid = {}
        BY <2>2 DEF LockedInv, PaidInv
  <2>5. \A u2 \in Players : locked'[u2] >= locked[u2]
        BY <1>2 DEF Begins
  <2> QED BY <2>2, <2>3, <2>4, <2>5 DEF OverButForLateComers
<1>3. ASSUME NEW g \in Games, GoesOn(g) PROVE OverButForLateComers
  <2>1. UNCHANGED <<right, locked>> /\ game'[g].paid = game[g].paid
        BY <1>3 DEF GoesOn, Uploaded, PutOnHold, Released, dayVars
  <2>2. \A h \in Games : h # g => game'[h] = game[h]
        BY <1>3 DEF GoesOn, OnlyGame
  <2>3. SameTerms(g) /\ (Uploaded(g) \/ PutOnHold(g) \/ Released(g))
        BY <1>3 DEF GoesOn, OnlyGame
  <2>4. game[g].status = "SETTLED" => Uploaded(g)
        BY <2>3 DEF PutOnHold, Released
  <2>5. game[g].status = "CANCELLED" => Uploaded(g) \/ PutOnHold(g)
        BY <2>3 DEF Released
  <2>6. \A u \in Players : locked'[u] >= locked[u]
        BY <1>0, <2>1
  <2> QED BY <2>1, <2>2, <2>3, <2>4, <2>5, <2>6 DEF OverButForLateComers
<1>4. ASSUME NEW h \in Games, GivenUp(h) PROVE OverButForLateComers
      BY <1>0, <1>4 DEF GivenUp, OverButForLateComers
<1>5. ASSUME NEW g \in Games, NEW kind \in Endings, Concludes(g, kind)
      PROVE  OverButForLateComers
  <2>1. /\ game[g].status # "SETTLED" /\ SameTerms(g)
        /\ game'[g].status = Ending(kind) /\ game'[g].paid = game[g].paid \cup {kind}
        /\ \A h \in Games : h # g => game'[h] = game[h]
        BY <1>5, ConcludedTyped
  <2>2. /\ kind \notin game[g].paid
        /\ game[g].status = "CANCELLED" =>
            game'[g].status = "SETTLED" /\ game[g].paid \cap {"SETTLED", "JUDGED"} = {}
        BY <1>5, <2>1 DEF Concludes, Ending
  <2>3. game'[g].paid # game[g].paid
        BY <2>1, <2>2
  <2>4. right[g].status = "NONE"
        BY <2>1 DEF RevengeInv, RightsInherited, Scored
  <2>5. ASSUME \A h \in Games :
                  /\ right[h].status \in {"FORFEITED", "CONSUMED"} => right'[h] = right[h]
                  /\ right[h].status = "CLAIMED" => right'[h].status \in {"CLAIMED", "CONSUMED"}
        PROVE  OverButForLateComers
        BY <2>1, <2>2, <2>3, <2>5 DEF OverButForLateComers
  <2>6. CASE UNCHANGED right
        BY <2>5, <2>6
  <2>7. CASE GrantsRevenge(g)
    <3>1. \A k \in Games : k # g => right'[k] = right[k]
          BY <1>0, <2>7 DEF GrantsRevenge
    <3> QED BY <2>4, <2>5, <3>1
  <2>8. CASE IsRevenge(g) /\ right' = [right EXCEPT ![game[g].source].status = "CONSUMED"]
    <3> DEFINE h == game[g].source
    <3>1. h \in Games
          BY <1>0 DEF Matches
    <3>2. /\ right'[h] = [right[h] EXCEPT !.status = "CONSUMED"]
          /\ \A k \in Games : k # h => right'[k] = right[k]
          BY <1>0, <2>8, <3>1
    <3>3. right[h] \in Rights
          BY <1>0, <3>1
    <3>4. right[h].status = "CONSUMED" => right'[h] = right[h]
          BY <3>2, <3>3 DEF Rights
    <3>5. right'[h].status = "CONSUMED"
          BY <3>2, <3>3 DEF Rights
    <3>6. right[h].status # "FORFEITED"
          BY <2>8 DEF RevengeInv, RevengeOnce
    <3> HIDE DEF h
    <3> QED BY <2>5, <3>2, <3>4, <3>5, <3>6
  <2> QED BY <1>5, <2>6, <2>7, <2>8 DEF Concludes
<1> QED BY <1>1, <1>2, <1>3, <1>4, <1>5 DEF GameChange

(***************************************************************************)
(* A match is made between two of whom the challenger is the lower, by no  *)
(* more than MaxGap tiers.                                                 *)
(***************************************************************************)
ChallengersLookUp ==
    \A g \in Games : game[g].status # "NONE" => game[g].dtier - game[g].ctier \in 1..MaxGap

LEMMA LookUpInit == RankedInit => ChallengersLookUp
BY DEF RankedInit, ChallengersLookUp, NoGame

LEMMA LookUpStep == ChallengersLookUp /\ TypeInv /\ [RankedNext]_rankedVars => ChallengersLookUp'
<1> SUFFICES ASSUME ChallengersLookUp, TypeInv, GameChange
             PROVE  ChallengersLookUp'
    BY GameChanges
<1>1. CASE GamesRest \/ \E h \in Games : GivenUp(h)
      BY <1>1 DEF GamesRest, gameVars, GivenUp, ChallengersLookUp
<1>2. ASSUME NEW g \in Games, Begins(g) PROVE ChallengersLookUp'
  <2>1. PICK c \in Players, u \in Players, cs \in Nat, ds \in Nat, h \in Games :
          c # u /\ MayMeet(c, u) /\ NewGame(g, c, u, cs, ds, h)
        BY Zenon, <1>2 DEF Begins
  <2>2. c # u /\ NewGame(g, c, u, cs, ds, h)
        BY <2>1
  <2>3. /\ game'[g].ctier = tier[c] /\ game'[g].dtier = tier[u]
        /\ \A k \in Games : k # g => game'[k] = game[k]
        BY SMTT(60), <2>2, NewGameTyped
  <2>4. game'[g].dtier - game'[g].ctier \in 1..MaxGap
        BY Zenon, <2>1, <2>3 DEF MayMeet, Gap
  <2> QED BY Zenon, <2>3, <2>4 DEF ChallengersLookUp
<1>3. ASSUME NEW g \in Games, GoesOn(g) PROVE ChallengersLookUp'
      BY <1>3 DEF GoesOn, OnlyGame, SameTerms, ChallengersLookUp
<1>4. ASSUME NEW g \in Games, NEW kind \in Endings, Concludes(g, kind)
      PROVE  ChallengersLookUp'
      BY <1>4, ConcludedTyped DEF SameTerms, ChallengersLookUp
<1> QED BY <1>1, <1>2, <1>3, <1>4 DEF GameChange

(***************************************************************************)
(* Tiers are exchanged by the settlement of a match and by nothing else,   *)
(* once in each way it can be settled: its challenger, who is the lower of *)
(* the two, rises to the tier of its defender and the defender falls to    *)
(* its, and nobody else moves.                                             *)
(***************************************************************************)
ExchangesTiers ==
    \E g \in Games :
        LET c == game[g].challenger
            d == game[g].defender
        IN
        /\ game[g].status # "NONE" /\ game'[g].status = "SETTLED"
        /\ \E kind \in {"SETTLED", "JUDGED"} \ game[g].paid : kind \in game'[g].paid
        /\ tier[c] < tier[d] /\ tier[d] <= tier[c] + MaxGap
        /\ tier' = [tier EXCEPT ![c] = tier[d], ![d] = tier[c]]

LEMMA ExchangeStep ==
    ChallengersLookUp /\ TypeInv /\ [RankedNext]_rankedVars => tier' = tier \/ ExchangesTiers
<1> SUFFICES ASSUME ChallengersLookUp, TypeInv, GameChange, tier' # tier PROVE ExchangesTiers
    BY GameChanges
<1>1. PICK g \in Games, kind \in Endings : Concludes(g, kind)
      BY DEF GameChange, GamesRest, gameVars, Begins, GoesOn, Uploaded, PutOnHold, Released, GivenUp
<1> DEFINE c == game[g].challenger
           d == game[g].defender
<1>2. /\ game[g].status # "NONE" /\ kind \in {"SETTLED", "JUDGED"} \ game[g].paid
      /\ Unmoved(g) /\ Swap(g)
      /\ game'[g].status = "SETTLED" /\ kind \in game'[g].paid
      BY <1>1, ConcludedTyped DEF Concludes, Ending
<1>3. tier[d] - tier[c] \in 1..MaxGap
      BY <1>2 DEF ChallengersLookUp, Unmoved
<1>4. tier[c] \in Int /\ tier[d] \in Int
  <2>1. c \in Players /\ d \in Players
        BY <1>2, TwoParties
  <2>2. tier \in [Players -> Tiers] /\ Tiers \subseteq Int
        BY DaysAssumption DEF TypeInv, RankedTypeOK
  <2> QED BY <2>1, <2>2
<1>5. tier[c] < tier[d] /\ tier[d] <= tier[c] + MaxGap
  <2> HIDE DEF c, d
  <2> QED BY <1>3, <1>4 DEF MaxGap
<1>6. tier' = [tier EXCEPT ![c] = tier[d], ![d] = tier[c]]
      BY Zenon, <1>2 DEF Swap
<1> QED BY <1>2, <1>5, <1>6 DEF ExchangesTiers

(* Those of a tier. *)
InTier(t) == {u \in Players : tier[u] = t}

(* Nobody's place is lost: a tier has as many players as it began with. *)
TiersKeepTheirSize ==
    \A t \in Tiers : Cardinality(InTier(t)) = Cardinality({u \in Players : StartingTier[u] = t})

LEMMA ExchangeKeepsSize ==
    ASSUME IsFiniteSet(Players), NEW c \in Players, NEW d \in Players, TypeInv, c # d,
           tier' = [tier EXCEPT ![c] = tier[d], ![d] = tier[c]], NEW t
    PROVE  Cardinality(InTier(t)') = Cardinality(InTier(t))
<1>1. tier \in [Players -> Tiers]
      BY DEF TypeInv, RankedTypeOK
<1>2. \A u \in Players : tier'[u] = IF u = c THEN tier[d] ELSE IF u = d THEN tier[c] ELSE tier[u]
      BY <1>1
<1>3. IsFiniteSet(InTier(t))
      BY FS_Subset DEF InTier
<1>4. ASSUME NEW a \in Players, NEW b \in Players, tier[a] = t, tier[b] # t,
             tier'[b] = t, tier'[a] # t,
             \A u \in Players \ {a, b} : tier'[u] = tier[u]
      PROVE  Cardinality(InTier(t)') = Cardinality(InTier(t))
  <2> DEFINE Rest == InTier(t) \ {a}
  <2>1. a \in InTier(t) /\ b \notin Rest /\ InTier(t)' = Rest \cup {b}
        BY <1>4 DEF InTier
  <2>2. IsFiniteSet(Rest) /\ Cardinality(Rest) = Cardinality(InTier(t)) - 1
        BY <1>3, <2>1, FS_RemoveElement
  <2>3. Cardinality(Rest \cup {b}) = Cardinality(Rest) + 1
        BY <2>1, <2>2, FS_AddElement
  <2>4. Cardinality(InTier(t)) \in Nat
        BY <1>3, FS_CardinalityType
  <2> HIDE DEF Rest
  <2> QED BY <2>1, <2>2, <2>3, <2>4
<1>0. /\ tier'[c] = tier[d] /\ tier'[d] = tier[c]
      /\ \A u \in Players \ {c, d} : tier'[u] = tier[u]
      /\ \A u \in Players \ {d, c} : tier'[u] = tier[u]
      BY <1>2
<1>5. CASE tier[c] = t /\ tier[d] # t
  <2>1. tier'[d] = t /\ tier'[c] # t
        BY <1>0, <1>5
  <2> QED BY <1>0, <1>4, <1>5, <2>1
<1>6. CASE tier[c] # t /\ tier[d] = t
  <2>1. tier'[c] = t /\ tier'[d] # t
        BY <1>0, <1>6
  <2> QED BY <1>0, <1>4, <1>6, <2>1
<1>7. CASE tier[c] = t <=> tier[d] = t
  <2>1. InTier(t)' = InTier(t)
        BY <1>2, <1>7 DEF InTier
  <2> QED BY <2>1
<1> QED BY <1>5, <1>6, <1>7

----------------------------------------------------------------------------
(* The days of all. *)

(***************************************************************************)
(* The days of all the players, in whatever pot they are, and those that   *)
(* were spent, are those they began with.                                  *)
(***************************************************************************)
DaysAddUp ==
    SumFunctionOnSet([u \in Players |-> Wealth(u)], Players) + spent
        = SumFunctionOnSet(StartingDays, Players)

LEMMA DaysAddUpInit ==
    ASSUME IsFiniteSet(Players)
    PROVE  RankedInit => DaysAddUp
<1> SUFFICES ASSUME RankedInit PROVE DaysAddUp
    OBVIOUS
<1> DEFINE f == [u \in Players |-> Wealth(u)]
<1>1. \A u \in Players : f[u] = StartingDays[u] /\ StartingDays[u] \in Int
      BY DaysAssumption DEF RankedInit, Wealth
<1>2. SumFunctionOnSet(f, Players) = SumFunctionOnSet(StartingDays, Players)
      BY <1>1, SumOfSame
<1>3. SumFunctionOnSet(StartingDays, Players) \in Int
      BY <1>1, SumIsInt
<1>4. spent = 0
      BY DEF RankedInit
<1> QED BY <1>2, <1>3, <1>4 DEF DaysAddUp

LEMMA DaysAddUpStep ==
    ASSUME IsFiniteSet(Players)
    PROVE  DaysAddUp /\ TypeInv /\ AttackerAloneStakes /\ [RankedNext]_rankedVars => DaysAddUp'
<1> SUFFICES ASSUME DaysAddUp, TypeInv, AttackerAloneStakes, [RankedNext]_rankedVars
             PROVE  DaysAddUp'
    OBVIOUS
<1> DEFINE f == [u \in Players |-> Wealth(u)]
           k == [u \in Players |-> Wealth(u)']
           Sum == SumFunctionOnSet(f, Players)
           SumNext == SumFunctionOnSet(k, Players)
<1>1. /\ available \in [Players -> Nat] /\ available' \in [Players -> Nat]
      /\ reserved \in [Players -> Nat] /\ reserved' \in [Players -> Nat]
      /\ locked \in [Players -> Nat] /\ locked' \in [Players -> Nat]
      /\ spent \in Nat /\ spent' \in Nat
      BY TypeStep DEF TypeInv, RankedTypeOK
<1>2. f \in [Players -> Int] /\ k \in [Players -> Int]
      BY <1>1 DEF Wealth
<1>3. Sum \in Int
      BY <1>2, SumIsInt
<1>4. \A u \in Players : f[u] = Wealth(u) /\ k[u] = Wealth(u)'
      OBVIOUS
<1>5. CASE UNCHANGED dayVars
  <2>1. k = f /\ UNCHANGED spent
        BY <1>5 DEF dayVars, Wealth
  <2> QED BY <2>1 DEF DaysAddUp
<1>6. ASSUME NEW a \in Players, BalancesOne(a) PROVE SumNext + spent' = Sum + spent
  <2>1. (\A u \in Players \ {a} : k[u] = f[u]) /\ k[a] + spent' = f[a] + spent
        BY <1>4, <1>6 DEF BalancesOne
  <2>2. SumNext = Sum + (k[a] - f[a])
        BY <1>2, <2>1, SumWithOneChanged
  <2>3. k[a] \in Int /\ f[a] \in Int
        BY <1>2
  <2> HIDE DEF f, k, Sum, SumNext
  <2> QED BY <1>1, <1>3, <2>1, <2>2, <2>3
<1>7. ASSUME NEW a \in Players, NEW b \in Players, a # b, BalancesTwo(a, b)
      PROVE  SumNext + spent' = Sum + spent
  <2>1. (\A u \in Players \ {a, b} : k[u] = f[u]) /\ k[a] + k[b] + spent' = f[a] + f[b] + spent
        BY <1>4, <1>7 DEF BalancesTwo
  <2>2. SumNext = Sum + (k[a] - f[a]) + (k[b] - f[b])
        BY <1>2, <1>7, <2>1, SumWithTwoChanged
  <2>3. k[a] \in Int /\ f[a] \in Int /\ k[b] \in Int /\ f[b] \in Int
        BY <1>2
  <2> HIDE DEF f, k, Sum, SumNext
  <2> QED BY <1>1, <1>3, <2>1, <2>2, <2>3
<1>8. CASE SumNext + spent' = Sum + spent
      BY <1>8 DEF DaysAddUp
<1> QED BY <1>5, <1>6, <1>7, <1>8, BalanceStep DEF Balanced

----------------------------------------------------------------------------
(* Theorems. *)

(***************************************************************************)
(* Every variable keeps its type: above all, no pot of days is negative.   *)
(***************************************************************************)
THEOREM TypeCorrect == RankedSpec => []RankedTypeOK
<1>1. TypeInv => RankedTypeOK
      BY DEF TypeInv
<1> QED BY TypeInit, TypeStep, <1>1, PTL DEF RankedSpec

(***************************************************************************)
(* What is locked of a player is what is at stake in the one match it      *)
(* plays, so that a settlement finds the days it pays out; unless the      *)
(* player is party to a match that a late upload or a late decision has    *)
(* brought back after it had been paid.                                    *)
(***************************************************************************)
THEOREM StakesAreLocked == RankedSpec => []StakeIsLocked
<1>1. LockedInv => StakeIsLocked
      BY DEF LockedInv
<1> QED BY <1>1, TypeInit, TypeStep, LockedInit, LockedStep, PTL DEF RankedSpec

(***************************************************************************)
(* No invitation that is over has an offer that can be answered or         *)
(* resumed, however the writes of the daily job and its deaths fall among  *)
(* the answers and the cancellations.                                      *)
(***************************************************************************)
THEOREM OffersEnd == RankedSpec => []OffersEndWithInvitation
<1>1. OfferInv => OffersEndWithInvitation
      BY DEF OfferInv
<1> QED BY TypeInit, TypeStep, OfferInit, OfferStep, <1>1, PTL DEF RankedSpec

(***************************************************************************)
(* Every step balances: learning days are moved, spent, charged or burned, *)
(* and never made or lost.                                                 *)
(***************************************************************************)
THEOREM DaysAreConserved == RankedSpec => DaysConserved
<1>1. [Balanced]_dayVars <=> [\/ \E a \in Players : BalancesOne(a)
                              \/ \E a, b \in Players : a # b /\ BalancesTwo(a, b)]_dayVars
      BY DEF Balanced
<1> QED BY TypeInit, TypeStep, AloneInit, AloneStep, BalanceStep, <1>1, PTL
        DEF RankedSpec, DaysConserved

(***************************************************************************)
(* As long as no pause has brought an invitation back from its end, the    *)
(* reserved days of a player are those its live invitations hold, however  *)
(* many there are: none are left over when the last one ends, and an       *)
(* acceptance takes nothing that another invitation holds.                 *)
(***************************************************************************)
THEOREM ReservationsStayBacked ==
    ASSUME IsFiniteSet(Invitations)
    PROVE  RankedSpec => []ReservationsAreBacked
<1>1. Backed => ReservationsAreBacked
      BY DEF Backed, HeldBy, ReservationsAreBacked
<1>2. Backed /\ TypeInv /\ [RankedNext]_rankedVars => Backed'
      BY BackedStep
<1> QED BY TypeInit, TypeStep, BackedInit, <1>1, <1>2, PTL DEF RankedSpec

(***************************************************************************)
(* Whatever is staked, reserved, won, refunded, charged or burned, and     *)
(* whenever the daily job dies: the days of all the players together with  *)
(* those that were spent are what they began with.                         *)
(***************************************************************************)
THEOREM AllDaysAreAccountedFor ==
    ASSUME IsFiniteSet(Players)
    PROVE  RankedSpec => []DaysAddUp
<1>1. RankedInit => DaysAddUp
      BY DaysAddUpInit
<1>2. DaysAddUp /\ TypeInv /\ AttackerAloneStakes /\ [RankedNext]_rankedVars => DaysAddUp'
      BY DaysAddUpStep
<1> QED BY TypeInit, TypeStep, AloneInit, AloneStep, <1>1, <1>2, PTL DEF RankedSpec

(***************************************************************************)
(* The loser of a match has one revenge at most, against the winner, for   *)
(* twice the stake, and there is no revenge for a revenge                  *)
(* (createMainRevengeMatch, settleMainNormalMatch).                        *)
(***************************************************************************)
THEOREM RevengeIsTakenOnce == RankedSpec => []RevengeOnce
<1>1. RevengeInv => RevengeOnce
      BY DEF RevengeInv
<1> QED BY TypeInit, TypeStep, RevengeInit, RevengeStep, <1>1, PTL DEF RankedSpec

(***************************************************************************)
(* Nobody changes a match that is over but who uploads what was missing,   *)
(* or decides upon what was read before a cancellation; no match is paid   *)
(* twice in the same way, and nothing else releases what is locked; and no *)
(* right of revenge comes back.                                            *)
(***************************************************************************)
THEOREM MatchesStayOver == RankedSpec => [][OverButForLateComers]_rankedVars
BY TypeInit, TypeStep, LockedInit, LockedStep, RevengeInit, RevengeStep, OverStep, PTL DEF RankedSpec

(***************************************************************************)
(* Tiers change hands only by a settlement that its challenger wins, and   *)
(* always upwards for it, by no more than three tiers (swapStandings).     *)
(***************************************************************************)
THEOREM WinnersRise == RankedSpec => [][ExchangesTiers]_tier
<1>1. ChallengersLookUp /\ TypeInv /\ [RankedNext]_rankedVars => [ExchangesTiers]_tier
      BY ExchangeStep
<1> QED BY TypeInit, TypeStep, LookUpInit, LookUpStep, <1>1, PTL DEF RankedSpec

(* However tiers are exchanged, each keeps as many players as it began with. *)
THEOREM TiersStayFilled ==
    ASSUME IsFiniteSet(Players)
    PROVE  RankedSpec => []TiersKeepTheirSize
<1>1. RankedInit => TiersKeepTheirSize
      BY DEF RankedInit, TiersKeepTheirSize, InTier
<1>2. TiersKeepTheirSize /\ ChallengersLookUp /\ TypeInv /\ [RankedNext]_rankedVars
          => TiersKeepTheirSize'
  <2> SUFFICES ASSUME TiersKeepTheirSize, ChallengersLookUp, TypeInv, [RankedNext]_rankedVars
               PROVE  TiersKeepTheirSize'
      OBVIOUS
  <2>1. CASE UNCHANGED tier
        BY <2>1 DEF TiersKeepTheirSize, InTier
  <2>2. CASE ExchangesTiers
    <3>1. PICK g \in Games :
            LET c == game[g].challenger
                d == game[g].defender
            IN
            /\ game[g].status # "NONE" /\ game'[g].status = "SETTLED"
            /\ \E kind \in {"SETTLED", "JUDGED"} \ game[g].paid : kind \in game'[g].paid
            /\ tier[c] < tier[d] /\ tier[d] <= tier[c] + MaxGap
            /\ tier' = [tier EXCEPT ![c] = tier[d], ![d] = tier[c]]
          BY <2>2 DEF ExchangesTiers
    <3>2. /\ game[g].challenger \in Players /\ game[g].defender \in Players
          /\ game[g].challenger # game[g].defender
          BY <3>1, TwoParties
    <3>3. \A t : Cardinality(InTier(t)') = Cardinality(InTier(t))
          BY <3>1, <3>2, ExchangeKeepsSize
    <3> QED BY <3>3 DEF TiersKeepTheirSize
  <2> QED BY <2>1, <2>2, ExchangeStep
<1> QED BY TypeInit, TypeStep, LookUpInit, LookUpStep, <1>1, <1>2, PTL
        DEF RankedSpec
=============================================================================
