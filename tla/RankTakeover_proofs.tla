------------------------ MODULE RankTakeover_proofs ------------------------
(***************************************************************************)
(* Proofs about RankTakeover, for any contenders, matches, stakes and      *)
(* workers, and any number of crashes.                                     *)
(*                                                                         *)
(* Three inductive invariants.  Contest: two engaged matches share nobody, *)
(* so that what one of them does to seats and balances does not concern    *)
(* another.  Rights: a right and a revenge are of a settled win, which     *)
(* stays one.  Scoring: where a worker is says what has happened to the    *)
(* match, and it stays true whatever other workers do to it meanwhile.     *)
(*                                                                         *)
(* From Contest it follows that takeovers implement the ladder of the      *)
(* arena, that no learning day is made or lost, and which steps move a     *)
(* seat or end a match for good.                                           *)
(*                                                                         *)
(* At the end, the answers to the commands: a receipt is written once, by  *)
(* the work itself or, when that was rolled back, by a second transaction, *)
(* and each looks for one first; and no request gives a final answer of    *)
(* its own, it reads that of the receipt.                                  *)
(***************************************************************************)
EXTENDS RankTakeoverLadder, CommandReceipt, SumTheorems, TLAPS

(* An engaged match is of two contenders, who are in no other. *)
Paired ==
    /\ \A m \in Takeovers : takeover[m].status # "NONE" =>
        /\ takeover[m].challenger \in Contenders
        /\ takeover[m].defender \in Contenders
        /\ takeover[m].challenger # takeover[m].defender
    /\ \A m, n \in Takeovers :
        IsEngaged(m) /\ IsEngaged(n) /\ m # n => Contestants(m) \cap Contestants(n) = {}
    /\ \A m \in Takeovers : takeover[m].type = "REVENGE" => takeover[m].stake >= RevengeBurn

Contest == TakeoverTypeOK /\ Paired /\ BaselinesHold /\ LockedIsStaked

-----------------------------------------------------------------------------
(* What a step may do to a match, to the seats and to the balances. *)

(* What is fixed with the request. *)
Kept(t, s) ==
    /\ t.challenger = s.challenger /\ t.defender = s.defender
    /\ t.type = s.type /\ t.source = s.source /\ t.stake = s.stake
    /\ t.challengerBefore = s.challengerBefore /\ t.defenderBefore = s.defenderBefore

Stays == UNCHANGED <<takeover, seat, freeDays, stakedDays>>

Advances(m) ==
    \E t \in TakeoverRecords :
        /\ takeover' = [takeover EXCEPT ![m] = t]
        /\ Kept(t, takeover[m])
        /\ takeover[m].status \in Engaged /\ t.status \in Engaged
        /\ UNCHANGED <<seat, freeDays, stakedDays>>

Won(m) == takeover[m].status = "RESOLVED" /\ takeover[m].winner = "CHALLENGER"

Finishes(m) ==
    \E t \in TakeoverRecords, u \in Contestants(m), paid \in Nat :
        /\ takeover' = [takeover EXCEPT ![m] = t]
        /\ Kept(t, takeover[m])
        /\ takeover[m].status \in Engaged /\ t.status \in {"SETTLED", "INVALID", "CANCELLED"}
        /\ stakedDays' = [stakedDays EXCEPT ![t.challenger] = @ - t.stake]
        /\ freeDays' = [freeDays EXCEPT ![u] = @ + paid]
        /\ paid + Burns(t) = t.stake
        /\ \/ seat' = seat
           \/ /\ t.status = "SETTLED" /\ Won(m)
              /\ seat' = [seat EXCEPT ![t.challenger] = t.defenderBefore,
                                      ![t.defender] = t.challengerBefore]

Requested(m) ==
    \E u, v \in Contenders, type \in {"NORMAL", "REVENGE"}, source \in Takeovers \cup {NoSource},
       cost \in Nat :
        /\ Challenges(m, u, v, type, source, cost)
        /\ cost > 0 /\ (type = "REVENGE" => cost >= RevengeBurn)

PlayEffect == Stays \/ \E m \in Takeovers : Advances(m) \/ Finishes(m)

LEMMA RoleNames == "CHALLENGER" \in Roles /\ "DEFENDER" \in Roles
BY DEF Roles

Reasons == {"NONE", "SCORED_RESULT", "CHALLENGER_NO_SHOW"}
ResolvedAs(s, winner, reason) ==
    [s EXCEPT !.status = "RESOLVED", !.winner = winner, !.reason = reason]

LEMMA ResolvedRecord ==
    ASSUME NEW s \in TakeoverRecords, NEW winner \in Roles \cup {"NONE"},
           NEW reason \in Reasons
    PROVE  /\ ResolvedAs(s, winner, reason) \in TakeoverRecords
           /\ Kept(ResolvedAs(s, winner, reason), s)
           /\ ResolvedAs(s, winner, reason).status = "RESOLVED"
           /\ ResolvedAs(s, winner, reason).reason = reason
           /\ ResolvedAs(s, winner, reason).started = s.started
           /\ ResolvedAs(s, winner, reason).results = s.results
           /\ ResolvedAs(s, winner, reason).held = s.held
<1> DEFINE t == [s EXCEPT !.status = "RESOLVED", !.winner = winner, !.reason = reason]
<1>1. "RESOLVED" \in Engaged
  BY DEF Engaged
<1>2. t \in TakeoverRecords
  BY ZenonT(60), <1>1 DEF TakeoverRecords, Reasons
<1>3. /\ Kept(t, s) /\ t.status = "RESOLVED" /\ t.reason = reason
      /\ t.started = s.started /\ t.results = s.results /\ t.held = s.held
  BY DEF TakeoverRecords, Kept
<1>4. t = ResolvedAs(s, winner, reason)
  BY DEF ResolvedAs
<1> HIDE DEF t
<1> QED BY <1>2, <1>3, <1>4

(* A record that replaces that of an engaged match, nothing else being changed. *)
LEMMA RecordAdvances ==
    ASSUME NEW m \in Takeovers, takeover[m].status \in Engaged,
           NEW t \in TakeoverRecords, Kept(t, takeover[m]), t.status \in Engaged,
           takeover' = [takeover EXCEPT ![m] = t],
           UNCHANGED <<seat, balanceVars>>
    PROVE  Advances(m)
BY DEF Advances, balanceVars

LEMMA RequestEffect ==
    ASSUME NEW m \in Takeovers,
           \/ \E u, v \in Contenders : RequestNormal(m, u, v)
           \/ Contest /\ \E s \in Takeovers : RequestRevenge(m, s)
    PROVE  Requested(m)
<1>1. CASE \E u, v \in Contenders : RequestNormal(m, u, v)
  BY <1>1, CostsAssumption DEF RequestNormal, Requested
<1>2. CASE Contest /\ \E s \in Takeovers : RequestRevenge(m, s)
  <2>1. PICK s \in Takeovers : RequestRevenge(m, s)
    BY <1>2
  <2>2. takeover[s].defender \in Contenders /\ takeover[s].challenger \in Contenders
    BY <1>2, <2>1 DEF Contest, Paired, RequestRevenge, EarnsRevenge
  <2>3. \A k \in RevengeCosts : k \in Nat /\ k > 0 /\ k >= RevengeBurn
    BY CostsAssumption
  <2> QED BY <2>1, <2>2, <2>3 DEF RequestRevenge, Requested
<1> QED BY <1>1, <1>2

LEMMA AcceptEffect ==
    ASSUME Contest, NEW m \in Takeovers, AcceptChallenge(m)
    PROVE  Advances(m)
<1> DEFINE t == [takeover[m] EXCEPT !.status = "READY"]
<1>1. takeover[m] \in TakeoverRecords
  BY DEF Contest, TakeoverTypeOK
<1>2. t \in TakeoverRecords /\ Kept(t, takeover[m]) /\ t.status = "READY"
  BY <1>1 DEF TakeoverRecords, Kept, Engaged
<1>3. takeover' = [takeover EXCEPT ![m] = t]
  BY DEF AcceptChallenge
<1> HIDE DEF t
<1> QED BY <1>2, <1>3, RecordAdvances DEF AcceptChallenge, Engaged

LEMMA StartEffect ==
    ASSUME Contest, NEW m \in Takeovers, NEW r \in Roles, StartMatch(m, r)
    PROVE  Advances(m)
<1> DEFINE t == [takeover[m] EXCEPT !.status = "IN_PROGRESS", !.started = @ \cup {r}]
<1>1. takeover[m] \in TakeoverRecords
  BY DEF Contest, TakeoverTypeOK
<1>2. t \in TakeoverRecords /\ Kept(t, takeover[m]) /\ t.status = "IN_PROGRESS"
  BY ZenonT(60), <1>1 DEF TakeoverRecords, Kept, Engaged
<1>3. takeover' = [takeover EXCEPT ![m] = t]
  BY DEF StartMatch
<1> HIDE DEF t
<1> QED BY <1>2, <1>3, RecordAdvances DEF StartMatch, Engaged

LEMMA AuthorityEffect ==
    ASSUME Contest, NEW m \in Takeovers,
           ChallengerNoShow(m) \/ HoldMatch(m) \/ \E winner \in Roles : ResolveHeld(m, winner)
    PROVE  Advances(m)
<1>1. takeover[m] \in TakeoverRecords
  BY DEF Contest, TakeoverTypeOK
<1>2. CASE ChallengerNoShow(m)
  <2> DEFINE t == ResolvedAs(takeover[m], "DEFENDER", "CHALLENGER_NO_SHOW")
  <2>1. "DEFENDER" \in Roles \cup {"NONE"} /\ "CHALLENGER_NO_SHOW" \in Reasons
    BY RoleNames DEF Reasons
  <2>2. takeover' = [takeover EXCEPT ![m] = t]
    BY <1>2 DEF ChallengerNoShow, ResolvedAs
  <2>3. t \in TakeoverRecords /\ Kept(t, takeover[m]) /\ t.status = "RESOLVED"
    BY <1>1, <2>1, ResolvedRecord
  <2> HIDE DEF t
  <2> QED BY <1>2, <2>2, <2>3, RecordAdvances DEF ChallengerNoShow, Engaged
<1>3. CASE HoldMatch(m)
  <2> DEFINE t == [takeover[m] EXCEPT !.status = "HELD", !.held = TRUE]
  <2>1. t \in TakeoverRecords /\ Kept(t, takeover[m]) /\ t.status = "HELD"
    BY ZenonT(60), <1>1 DEF TakeoverRecords, Kept, Engaged
  <2>2. takeover' = [takeover EXCEPT ![m] = t]
    BY <1>3 DEF HoldMatch
  <2> HIDE DEF t
  <2> QED BY <1>3, <2>1, <2>2, RecordAdvances DEF HoldMatch, Engaged
<1>4. ASSUME NEW winner \in Roles, ResolveHeld(m, winner) PROVE Advances(m)
  <2> DEFINE t == ResolvedAs(takeover[m], winner, "SCORED_RESULT")
  <2>1. winner \in Roles \cup {"NONE"} /\ "SCORED_RESULT" \in Reasons
    BY DEF Reasons
  <2>2. takeover' = [takeover EXCEPT ![m] = t]
    BY <1>4 DEF ResolveHeld, ResolvedAs
  <2>3. t \in TakeoverRecords /\ Kept(t, takeover[m]) /\ t.status = "RESOLVED"
    BY <1>1, <2>1, ResolvedRecord
  <2> HIDE DEF t
  <2> QED BY <1>4, <2>2, <2>3, RecordAdvances DEF ResolveHeld, Engaged
<1> QED BY <1>2, <1>3, <1>4

LEMMA ScoreEffect ==
    ASSUME Contest, NEW w \in Scorers, NEW m \in Takeovers, NEW r \in Roles,
           SubmitResult(w, m, r) \/ ResolveScored(w, m, r)
    PROVE  Stays \/ Advances(m)
<1>1. takeover[m] \in TakeoverRecords
  BY DEF Contest, TakeoverTypeOK
<1>2. CASE SubmitResult(w, m, r) /\ takeover[m].status = "IN_PROGRESS"
  <2> DEFINE results == takeover[m].results \cup {r}
  <2>1. results \in SUBSET Roles
    BY <1>1 DEF TakeoverRecords
  <2>2. CASE results = Roles
    <3>1. PICK verdict \in {"CHALLENGER", "DEFENDER", "TIE"} :
            takeover' = [takeover EXCEPT ![m].results = results, ![m].status = "SUBMITTED",
                                         ![m].verdict = verdict]
      BY <1>2, <2>2 DEF SubmitResult
    <3> DEFINE t == [takeover[m] EXCEPT !.results = results, !.status = "SUBMITTED",
                                        !.verdict = verdict]
    <3>2. t \in TakeoverRecords /\ Kept(t, takeover[m]) /\ t.status = "SUBMITTED"
      <4>1. verdict \in Roles \cup {"NONE", "TIE"} /\ "SUBMITTED" \in Engaged
        BY RoleNames DEF Engaged
      <4> HIDE DEF results
      <4>2. t \in TakeoverRecords
        BY ZenonT(60), <1>1, <2>1, <4>1 DEF TakeoverRecords
      <4>3. Kept(t, takeover[m]) /\ t.status = "SUBMITTED"
        BY <1>1 DEF TakeoverRecords, Kept
      <4> QED BY <4>2, <4>3
    <3>3. takeover' = [takeover EXCEPT ![m] = t]
      BY <3>1
    <3> HIDE DEF t
    <3> QED BY <1>2, <3>2, <3>3, RecordAdvances DEF SubmitResult, Engaged
  <2>3. CASE results # Roles
    <3> DEFINE t == [takeover[m] EXCEPT !.results = results]
    <3>1. t \in TakeoverRecords /\ Kept(t, takeover[m]) /\ t.status = takeover[m].status
      BY <1>1, <2>1 DEF TakeoverRecords, Kept
    <3>2. takeover' = [takeover EXCEPT ![m] = t]
      BY <1>2, <2>3 DEF SubmitResult
    <3> HIDE DEF t
    <3> QED BY <1>2, <3>1, <3>2, RecordAdvances DEF SubmitResult, Engaged
  <2> QED BY <2>2, <2>3
<1>3. CASE SubmitResult(w, m, r) /\ takeover[m].status # "IN_PROGRESS"
  BY <1>3 DEF SubmitResult, Stays, balanceVars
<1>4. CASE ResolveScored(w, m, r) /\ takeover[m].status = "SUBMITTED" /\ takeover[m].verdict # "TIE"
  <2> DEFINE t == ResolvedAs(takeover[m], takeover[m].verdict, "SCORED_RESULT")
  <2>1. takeover[m].verdict \in Roles \cup {"NONE"} /\ "SCORED_RESULT" \in Reasons
    BY <1>1, <1>4 DEF TakeoverRecords, Reasons
  <2>2. takeover' = [takeover EXCEPT ![m] = t]
    BY <1>4 DEF ResolveScored, ResolvedAs
  <2>3. t \in TakeoverRecords /\ Kept(t, takeover[m]) /\ t.status = "RESOLVED"
    BY <1>1, <2>1, ResolvedRecord
  <2> HIDE DEF t
  <2> QED BY <1>4, <2>2, <2>3, RecordAdvances DEF ResolveScored, Engaged
<1>5. CASE ResolveScored(w, m, r)
           /\ ~(takeover[m].status = "SUBMITTED" /\ takeover[m].verdict # "TIE")
  BY <1>5 DEF ResolveScored, Stays, balanceVars
<1> QED BY <1>2, <1>3, <1>4, <1>5

LEMMA UnlockEffect ==
    ASSUME Contest, NEW m \in Takeovers, IsEngaged(m), NEW status \in {"INVALID", "CANCELLED"},
           Unlocks(m, status)
    PROVE  Finishes(m)
<1> DEFINE t == [takeover[m] EXCEPT !.status = status]
<1>1. takeover[m] \in TakeoverRecords /\ takeover[m].stake \in Nat
  BY DEF Contest, TakeoverTypeOK, TakeoverRecords
<1>2. t \in TakeoverRecords /\ Kept(t, takeover[m]) /\ t.status = status
  BY <1>1 DEF TakeoverRecords, Kept
<1>3. /\ takeover' = [takeover EXCEPT ![m] = t]
      /\ stakedDays' = [stakedDays EXCEPT ![t.challenger] = @ - t.stake]
      /\ freeDays' = [freeDays EXCEPT ![takeover[m].challenger] = @ + takeover[m].stake]
      /\ seat' = seat
  BY <1>2 DEF Unlocks, Kept
<1>4. takeover[m].stake + Burns(t) = t.stake
  BY <1>1, <1>2 DEF Burns, Kept
<1> HIDE DEF t
<1> QED BY <1>1, <1>2, <1>3, <1>4 DEF Finishes, IsEngaged, Contestants

LEMMA SettleEffect ==
    ASSUME Contest, NEW m \in Takeovers, MaySettle(m), Settles(m)
    PROVE  Finishes(m)
<1> DEFINE t == [takeover[m] EXCEPT !.status = "SETTLED"]
           paid == IF takeover[m].winner = "CHALLENGER" THEN 0
                   ELSE takeover[m].stake - (IF takeover[m].type = "REVENGE" THEN RevengeBurn ELSE 0)
<1>1. /\ takeover[m] \in TakeoverRecords /\ takeover[m].stake \in Nat
      /\ takeover[m].type = "REVENGE" => takeover[m].stake >= RevengeBurn
  BY DEF Contest, TakeoverTypeOK, TakeoverRecords, Paired
<1>2. t \in TakeoverRecords /\ Kept(t, takeover[m]) /\ t.status = "SETTLED"
  BY <1>1 DEF TakeoverRecords, Kept
<1>3. paid \in Nat
  BY <1>1, CostsAssumption
<1>4. /\ takeover' = [takeover EXCEPT ![m] = t]
      /\ stakedDays' = [stakedDays EXCEPT ![t.challenger] = @ - t.stake]
      /\ freeDays' = [freeDays EXCEPT ![takeover[m].defender] = @ + paid]
      /\ \/ seat' = seat
         \/ /\ t.status = "SETTLED" /\ Won(m)
            /\ seat' = [seat EXCEPT ![t.challenger] = t.defenderBefore,
                                    ![t.defender] = t.challengerBefore]
  BY <1>2 DEF Settles, MaySettle, Won, Kept
<1>5. takeover[m].status \in Engaged
  BY DEF MaySettle, Engaged
<1>6. paid + Burns(t) = t.stake
  <2>1. t.winner = takeover[m].winner /\ t.type = takeover[m].type /\ t.stake = takeover[m].stake
    BY <1>1 DEF TakeoverRecords
  <2> QED BY <1>1, <1>2, <2>1, CostsAssumption DEF Burns
<1> HIDE DEF t, paid
<1> QED BY <1>2, <1>3, <1>4, <1>5, <1>6 DEF Finishes, Contestants

(* The steps that are not requests. *)
OtherStep ==
    \/ \E m \in Takeovers :
        \/ PlayStep(m)
        \/ AuthorityStep(m)
        \/ RightStep(m)
        \/ \E w \in Scorers, r \in Roles : DeliveryStep(w, m, r)
    \/ \E w \in Scorers : ScorerDies(w)

LEMMA OtherEffect ==
    ASSUME Contest, OtherStep
    PROVE  PlayEffect
<1> USE DEF PlayEffect
<1>1. ASSUME NEW m \in Takeovers, PlayStep(m) PROVE PlayEffect
  <2>1. CASE TimePasses(m)
    BY <2>1 DEF TimePasses, Stays, balanceVars
  <2>2. CASE AcceptChallenge(m)
    BY <2>2, AcceptEffect
  <2>3. CASE RejectChallenge(m)
    BY <2>3, UnlockEffect DEF RejectChallenge, IsEngaged, Engaged
  <2>4. ASSUME NEW r \in Roles, StartMatch(m, r) PROVE PlayEffect
    BY <2>4, StartEffect
  <2>5. ASSUME NEW r \in Roles, HandIn(m, r) PROVE PlayEffect
    BY <2>5 DEF HandIn, Stays, balanceVars
  <2> QED BY <1>1, <2>1, <2>2, <2>3, <2>4, <2>5 DEF PlayStep
<1>2. ASSUME NEW m \in Takeovers, AuthorityStep(m) PROVE PlayEffect
  <2>1. CASE ChallengerNoShow(m) \/ HoldMatch(m) \/ \E winner \in Roles : ResolveHeld(m, winner)
    BY <2>1, AuthorityEffect
  <2>2. CASE DefenderNoShow(m)
    BY <2>2, UnlockEffect DEF DefenderNoShow, IsEngaged, Engaged
  <2>3. CASE InvalidateHeld(m)
    BY <2>3, UnlockEffect DEF InvalidateHeld, IsEngaged, Engaged
  <2>4. CASE SettleResolved(m)
    BY <2>4, SettleEffect DEF SettleResolved
  <2> QED BY <1>2, <2>1, <2>2, <2>3, <2>4 DEF AuthorityStep
<1>3. ASSUME NEW m \in Takeovers, RightStep(m) PROVE PlayEffect
  BY <1>3 DEF RightStep, IssueRight, IssueNothing, RightExpires, Stays, balanceVars
<1>4. ASSUME NEW m \in Takeovers, NEW w \in Scorers, NEW r \in Roles, DeliveryStep(w, m, r)
      PROVE  PlayEffect
  <2>1. CASE SubmitResult(w, m, r) \/ ResolveScored(w, m, r)
    BY <2>1, ScoreEffect
  <2>2. CASE SettleScored(w, m, r)
    <3>1. CASE MaySettle(m)
      BY <2>2, <3>1, SettleEffect DEF SettleScored
    <3>2. CASE ~MaySettle(m)
      BY <2>2, <3>2 DEF SettleScored, Stays, balanceVars
    <3> QED BY <3>1, <3>2
  <2>3. CASE ClaimIntentOf(w, m, r) \/ SubmitAgain(w, m, r)
    BY <2>3 DEF ClaimIntentOf, SubmitAgain, Stays, balanceVars
  <2>4. CASE PublishIntentOf(w, m, r) \/ GiveUp(w, m, r) \/ TryLater(w, m, r) \/ DeliveryFails(w, m, r)
    BY <2>4 DEF PublishIntentOf, GiveUp, TryLater, DeliveryFails, EndsDelivery, Stays, balanceVars
  <2> QED BY <1>4, <2>1, <2>2, <2>3, <2>4 DEF DeliveryStep
<1>5. ASSUME NEW w \in Scorers, ScorerDies(w) PROVE PlayEffect
  BY <1>5 DEF ScorerDies, Stays, balanceVars
<1> QED BY <1>1, <1>2, <1>3, <1>4, <1>5 DEF OtherStep

-----------------------------------------------------------------------------
(* Contest is kept: by a request, by what goes on in a match, and by its end. *)

(* The variables a step has to keep typed besides the matches, the seats and the balances. *)
OthersTyped ==
    /\ clock \in [Takeovers -> {"START", "PLAY", "OVER"}]
    /\ revenge \in [Takeovers -> {"NONE", "AVAILABLE", "EXPIRED", "CONSUMED"}]
    /\ settledEvent \in [Takeovers -> {"NONE", "PENDING", "PUBLISHED", "DEAD"}]
    /\ handedIn \in [Takeovers -> SUBSET Roles]
    /\ intent \in [Takeovers -> [Roles -> IntentRecords]]
    /\ delivery \in [Scorers -> Deliveries]
    /\ mishaps \in Nat

LEMMA RequestKeeps ==
    ASSUME Contest, NEW m \in Takeovers, Requested(m), OthersTyped'
    PROVE  Contest'
<1>1. PICK u \in Contenders, v \in Contenders, type \in {"NORMAL", "REVENGE"},
           source \in Takeovers \cup {NoSource}, cost \in Nat :
        /\ Challenges(m, u, v, type, source, cost)
        /\ type = "REVENGE" => cost >= RevengeBurn
  BY DEF Requested
<1> DEFINE t == [NoTakeover EXCEPT !.status = "MATCHED", !.challenger = u, !.defender = v,
                                   !.type = type, !.source = source, !.stake = cost,
                                   !.challengerBefore = seat[u], !.defenderBefore = seat[v]]
<1>2. /\ takeover \in [Takeovers -> TakeoverRecords] /\ seat \in [Contenders -> Nat]
      /\ freeDays \in [Contenders -> Nat] /\ stakedDays \in [Contenders -> Nat]
  BY DEF Contest, TakeoverTypeOK
<1>3. /\ t.status = "MATCHED" /\ t.challenger = u /\ t.defender = v /\ t.type = type
      /\ t.source = source /\ t.stake = cost
      /\ t.challengerBefore = seat[u] /\ t.defenderBefore = seat[v]
  BY DEF NoTakeover
<1>4. t \in TakeoverRecords
  <2>1. seat[u] \in Nat /\ seat[v] \in Nat
    BY <1>2
  <2>2. NoTakeover \in TakeoverRecords
    BY DEF NoTakeover, TakeoverRecords, Engaged
  <2> QED BY ZenonT(60), <2>1, <2>2 DEF TakeoverRecords, Engaged
<1>5. takeover' = [takeover EXCEPT ![m] = t]
  BY <1>1 DEF Challenges
<1> HIDE DEF t
<1>6. /\ takeover'[m] = t /\ \A n \in Takeovers : n # m => takeover'[n] = takeover[n]
      /\ takeover' \in [Takeovers -> TakeoverRecords]
  BY <1>2, <1>4, <1>5
<1>7. /\ u # v /\ seat[v] < seat[u] /\ Unengaged(u, v) /\ takeover[m].status = "NONE"
      /\ freeDays[u] >= cost /\ seat' = seat
      /\ freeDays' = [freeDays EXCEPT ![u] = @ - cost]
      /\ stakedDays' = [stakedDays EXCEPT ![u] = @ + cost]
  BY <1>1 DEF Challenges
<1>8. /\ IsEngaged(m)' /\ ~IsEngaged(m) /\ Contestants(m)' = {u, v}
      /\ \A n \in Takeovers : n # m => /\ IsEngaged(n)' <=> IsEngaged(n)
                                       /\ Contestants(n)' = Contestants(n)
  BY <1>3, <1>6, <1>7 DEF IsEngaged, Engaged, Contestants
<1>9. TakeoverTypeOK'
  <2>1. freeDays[u] \in Nat /\ stakedDays[u] \in Nat
    BY <1>2
  <2>2. freeDays[u] - cost \in Nat /\ stakedDays[u] + cost \in Nat
    BY <1>7, <2>1
  <2>3. freeDays' \in [Contenders -> Nat] /\ stakedDays' \in [Contenders -> Nat]
    BY <1>2, <1>7, <2>2
  <2> QED BY <1>2, <1>6, <1>7, <2>3 DEF TakeoverTypeOK, OthersTyped
<1>10. Paired'
  <2>1. ASSUME NEW n \in Takeovers, takeover'[n].status # "NONE"
        PROVE  /\ takeover'[n].challenger \in Contenders
               /\ takeover'[n].defender \in Contenders
               /\ takeover'[n].challenger # takeover'[n].defender
    BY <2>1, <1>3, <1>6, <1>7 DEF Contest, Paired
  <2>2. ASSUME NEW n \in Takeovers, NEW k \in Takeovers, IsEngaged(n)', IsEngaged(k)', n # k
        PROVE  Contestants(n)' \cap Contestants(k)' = {}
    BY <2>2, <1>7, <1>8 DEF Contest, Paired, Unengaged
  <2>3. ASSUME NEW n \in Takeovers, takeover'[n].type = "REVENGE"
        PROVE  takeover'[n].stake >= RevengeBurn
    BY <2>3, <1>1, <1>3, <1>6 DEF Contest, Paired
  <2> QED BY <2>1, <2>2, <2>3 DEF Paired
<1>11. BaselinesHold'
  <2>1. ASSUME NEW n \in Takeovers, IsEngaged(n)'
        PROVE  /\ seat'[takeover'[n].challenger] = takeover'[n].challengerBefore
               /\ seat'[takeover'[n].defender] = takeover'[n].defenderBefore
               /\ takeover'[n].defenderBefore < takeover'[n].challengerBefore
    BY <2>1, <1>3, <1>6, <1>7, <1>8 DEF Contest, BaselinesHold
  <2> QED BY <2>1, <1>7 DEF Contest, BaselinesHold
<1>12. LockedIsStaked'
  <2> SUFFICES ASSUME NEW x \in Contenders
               PROVE  /\ \A n \in Takeovers :
                            IsEngaged(n)' /\ takeover'[n].challenger = x
                              => stakedDays'[x] = takeover'[n].stake
                      /\ (\A n \in Takeovers : ~(IsEngaged(n)' /\ takeover'[n].challenger = x))
                            => stakedDays'[x] = 0
    BY DEF LockedIsStaked
  <2>1. \A n \in Takeovers : IsEngaged(n) => takeover[n].challenger # u /\ takeover[n].challenger # v
    BY <1>7 DEF Unengaged, Contestants
  <2>2. CASE x = u
    <3>1. stakedDays[u] = 0
      BY <2>1 DEF Contest, LockedIsStaked
    <3>2. stakedDays'[u] = cost
      BY <1>2, <1>7, <3>1
    <3> QED BY <2>1, <2>2, <3>2, <1>3, <1>6, <1>8
  <2>3. CASE x # u
    <3>1. stakedDays'[x] = stakedDays[x]
      BY <1>2, <1>7, <2>3
    <3>2. \A n \in Takeovers : IsEngaged(n)' /\ takeover'[n].challenger = x
                                 <=> IsEngaged(n) /\ takeover[n].challenger = x
      BY <1>3, <1>6, <1>8, <2>3
    <3>3. \A n \in Takeovers : IsEngaged(n) /\ takeover[n].challenger = x
                                 => stakedDays[x] = takeover[n].stake /\ n # m
      BY <1>8 DEF Contest, LockedIsStaked
    <3>4. (\A n \in Takeovers : ~(IsEngaged(n) /\ takeover[n].challenger = x)) => stakedDays[x] = 0
      BY DEF Contest, LockedIsStaked
    <3> QED BY <3>1, <3>2, <3>3, <3>4, <1>6
  <2> QED BY <2>2, <2>3
<1> QED BY <1>9, <1>10, <1>11, <1>12 DEF Contest

LEMMA StayKeeps ==
    ASSUME Contest, Stays, OthersTyped'
    PROVE  Contest'
<1>1. \A n \in Takeovers : (IsEngaged(n)' <=> IsEngaged(n)) /\ Contestants(n)' = Contestants(n)
  BY DEF Stays, IsEngaged, Contestants
<1>2. TakeoverTypeOK'
  BY DEF Contest, TakeoverTypeOK, OthersTyped, Stays
<1>3. Paired'
  BY <1>1 DEF Contest, Paired, Stays
<1>4. BaselinesHold'
  BY <1>1 DEF Contest, BaselinesHold, Stays
<1>5. LockedIsStaked'
  BY <1>1 DEF Contest, LockedIsStaked, Stays
<1> QED BY <1>2, <1>3, <1>4, <1>5 DEF Contest

LEMMA AdvanceKeeps ==
    ASSUME Contest, NEW m \in Takeovers, Advances(m), OthersTyped'
    PROVE  Contest'
<1>1. PICK t \in TakeoverRecords :
        /\ takeover' = [takeover EXCEPT ![m] = t]
        /\ Kept(t, takeover[m])
        /\ takeover[m].status \in Engaged /\ t.status \in Engaged
        /\ UNCHANGED <<seat, freeDays, stakedDays>>
  BY DEF Advances
<1>2. /\ takeover'[m] = t /\ \A n \in Takeovers : n # m => takeover'[n] = takeover[n]
      /\ takeover' \in [Takeovers -> TakeoverRecords]
  BY <1>1 DEF Contest, TakeoverTypeOK
<1>3. \A n \in Takeovers : Kept(takeover'[n], takeover[n])
  BY <1>1, <1>2 DEF Kept
<1>4. \A n \in Takeovers :
        /\ IsEngaged(n)' <=> IsEngaged(n)
        /\ Contestants(n)' = Contestants(n)
        /\ takeover'[n].status # "NONE" => takeover[n].status # "NONE"
  BY <1>1, <1>2, <1>3 DEF IsEngaged, Contestants, Kept, Engaged
<1>5. TakeoverTypeOK'
  BY <1>1, <1>2 DEF Contest, TakeoverTypeOK, OthersTyped
<1>6. Paired'
  BY <1>3, <1>4 DEF Contest, Paired, Kept
<1>7. BaselinesHold'
  BY <1>1, <1>3, <1>4 DEF Contest, BaselinesHold, Kept
<1>8. LockedIsStaked'
  BY <1>1, <1>3, <1>4 DEF Contest, LockedIsStaked, Kept
<1> QED BY <1>5, <1>6, <1>7, <1>8 DEF Contest

LEMMA FinishKeeps ==
    ASSUME Contest, NEW m \in Takeovers, Finishes(m), OthersTyped'
    PROVE  Contest'
<1>1. PICK t \in TakeoverRecords, u \in Contestants(m), paid \in Nat :
        /\ takeover' = [takeover EXCEPT ![m] = t]
        /\ Kept(t, takeover[m])
        /\ takeover[m].status \in Engaged /\ t.status \in {"SETTLED", "INVALID", "CANCELLED"}
        /\ stakedDays' = [stakedDays EXCEPT ![t.challenger] = @ - t.stake]
        /\ freeDays' = [freeDays EXCEPT ![u] = @ + paid]
        /\ paid + Burns(t) = t.stake
        /\ \/ seat' = seat
           \/ /\ t.status = "SETTLED" /\ Won(m)
              /\ seat' = [seat EXCEPT ![t.challenger] = t.defenderBefore,
                                      ![t.defender] = t.challengerBefore]
  BY DEF Finishes
<1> DEFINE c == takeover[m].challenger
           d == takeover[m].defender
<1>2. /\ takeover'[m] = t /\ \A n \in Takeovers : n # m => takeover'[n] = takeover[n]
      /\ takeover \in [Takeovers -> TakeoverRecords]
      /\ takeover' \in [Takeovers -> TakeoverRecords]
      /\ seat \in [Contenders -> Nat] /\ freeDays \in [Contenders -> Nat]
      /\ stakedDays \in [Contenders -> Nat]
  BY <1>1 DEF Contest, TakeoverTypeOK
<1>3. \A n \in Takeovers : Kept(takeover'[n], takeover[n])
  BY <1>1, <1>2 DEF Kept
<1>4. /\ IsEngaged(m) /\ ~IsEngaged(m)'
      /\ \A n \in Takeovers :
            /\ n # m => (IsEngaged(n)' <=> IsEngaged(n))
            /\ Contestants(n)' = Contestants(n)
            /\ takeover'[n].status # "NONE" => takeover[n].status # "NONE"
  BY <1>1, <1>2, <1>3 DEF IsEngaged, Contestants, Kept, Engaged
<1>5. /\ c \in Contenders /\ d \in Contenders /\ c # d
      /\ t.challenger = c /\ t.defender = d /\ t.stake = takeover[m].stake
      /\ t.challengerBefore = seat[c] /\ t.defenderBefore = seat[d]
  BY <1>1, <1>4 DEF Contest, Paired, BaselinesHold, IsEngaged, Engaged, Kept
<1>6. stakedDays[c] = takeover[m].stake
  BY <1>4, <1>5 DEF Contest, LockedIsStaked
<1>7. /\ stakedDays' \in [Contenders -> Nat] /\ stakedDays'[c] = 0
      /\ \A x \in Contenders : x # c => stakedDays'[x] = stakedDays[x]
  <2>1. stakedDays[c] \in Nat /\ stakedDays[c] - stakedDays[c] = 0
    BY <1>2, <1>5
  <2>2. stakedDays' = [stakedDays EXCEPT ![c] = 0]
    BY <1>1, <1>5, <1>6, <2>1
  <2> QED BY <1>2, <1>5, <2>2
<1>8. freeDays' \in [Contenders -> Nat]
  <2>1. u \in Contenders
    BY <1>5 DEF Contestants
  <2>2. freeDays[u] + paid \in Nat
    BY <1>2, <2>1
  <2> QED BY <1>1, <1>2, <2>1, <2>2
<1>9. /\ seat' \in [Contenders -> Nat]
      /\ \A x \in Contenders \ {c, d} : seat'[x] = seat[x]
      /\ \A x, y \in Contenders : x # y => seat'[x] # seat'[y]
  <2>0. \A x, y \in Contenders : x # y => seat[x] # seat[y]
    BY DEF Contest, BaselinesHold
  <2>1. CASE seat' = seat
    BY <1>2, <2>0, <2>1
  <2>2. CASE seat' = [seat EXCEPT ![c] = seat[d], ![d] = seat[c]]
    BY <1>2, <1>5, <2>0, <2>2
  <2> QED BY <1>1, <1>5, <2>1, <2>2
<1>10. TakeoverTypeOK'
  BY <1>2, <1>7, <1>8, <1>9 DEF TakeoverTypeOK, OthersTyped
<1>11. Paired'
  BY <1>3, <1>4 DEF Contest, Paired, Kept
<1>12. ASSUME NEW n \in Takeovers, IsEngaged(n)'
       PROVE  /\ n # m /\ IsEngaged(n) /\ takeover'[n] = takeover[n]
              /\ takeover[n].challenger \in Contenders \ {c, d}
              /\ takeover[n].defender \in Contenders \ {c, d}
  <2>1. n # m /\ IsEngaged(n) /\ takeover'[n] = takeover[n]
    BY <1>2, <1>4, <1>12
  <2>2. Contestants(n) \cap {c, d} = {}
    BY <2>1, <1>4 DEF Contest, Paired, Contestants
  <2>3. takeover[n].challenger \in Contenders /\ takeover[n].defender \in Contenders
    BY <2>1 DEF Contest, Paired, IsEngaged, Engaged
  <2> QED BY <2>1, <2>2, <2>3 DEF Contestants
<1>13. BaselinesHold'
  <2>1. ASSUME NEW n \in Takeovers, IsEngaged(n)'
        PROVE  /\ seat'[takeover'[n].challenger] = takeover'[n].challengerBefore
               /\ seat'[takeover'[n].defender] = takeover'[n].defenderBefore
               /\ takeover'[n].defenderBefore < takeover'[n].challengerBefore
    BY <2>1, <1>9, <1>12 DEF Contest, BaselinesHold
  <2> QED BY <2>1, <1>9 DEF BaselinesHold
<1>14. LockedIsStaked'
  <2> SUFFICES ASSUME NEW x \in Contenders
               PROVE  /\ \A n \in Takeovers :
                            IsEngaged(n)' /\ takeover'[n].challenger = x
                              => stakedDays'[x] = takeover'[n].stake
                      /\ (\A n \in Takeovers : ~(IsEngaged(n)' /\ takeover'[n].challenger = x))
                            => stakedDays'[x] = 0
    BY DEF LockedIsStaked
  <2>1. CASE x = c
    BY <2>1, <1>7, <1>12
  <2>2. CASE x # c
    <3>1. stakedDays'[x] = stakedDays[x]
      BY <1>7, <2>2
    <3>2. \A n \in Takeovers : IsEngaged(n)' /\ takeover'[n].challenger = x
                                 <=> IsEngaged(n) /\ takeover[n].challenger = x
      BY <1>2, <1>4, <2>2
    <3>3. \A n \in Takeovers : IsEngaged(n) /\ takeover[n].challenger = x
                                 => stakedDays[x] = takeover[n].stake /\ takeover'[n] = takeover[n]
      BY <1>2, <1>4, <2>2 DEF Contest, LockedIsStaked
    <3>4. (\A n \in Takeovers : ~(IsEngaged(n) /\ takeover[n].challenger = x)) => stakedDays[x] = 0
      BY DEF Contest, LockedIsStaked
    <3> QED BY <3>1, <3>2, <3>3, <3>4
  <2> QED BY <2>1, <2>2
<1> QED BY <1>10, <1>11, <1>13, <1>14 DEF Contest

LEMMA OthersStayTyped ==
    ASSUME Contest, TakeoverNext
    PROVE  OthersTyped'
<1> USE DEF OthersTyped
<1>0. OthersTyped
  BY DEF Contest, TakeoverTypeOK
<1>1. ASSUME NEW m \in Takeovers,
             \/ \E u, v \in Contenders : RequestNormal(m, u, v)
             \/ \E s \in Takeovers : RequestRevenge(m, s)
      PROVE  OthersTyped'
  BY ZenonT(60), <1>0, <1>1 DEF RequestNormal, RequestRevenge, Challenges, scoringVars
<1>2. ASSUME NEW m \in Takeovers, PlayStep(m) PROVE OthersTyped'
  <2>1. CASE TimePasses(m)
    BY <1>0, <2>1 DEF TimePasses, scoringVars
  <2>2. CASE AcceptChallenge(m) \/ RejectChallenge(m) \/ \E r \in Roles : StartMatch(m, r)
    BY <1>0, <2>2 DEF AcceptChallenge, RejectChallenge, Unlocks, StartMatch, scoringVars
  <2>3. ASSUME NEW r \in Roles, HandIn(m, r) PROVE OthersTyped'
    <3>1. handedIn' \in [Takeovers -> SUBSET Roles]
      BY <1>0, <2>3 DEF HandIn
    <3> DEFINE i == [intent[m][r] EXCEPT !.status = "PENDING"]
    <3>2. i \in IntentRecords
      <4>1. intent[m][r] \in IntentRecords
        BY <1>0
      <4> QED BY <4>1 DEF IntentRecords
    <3>3. intent' = [intent EXCEPT ![m] = [intent[m] EXCEPT ![r] = i]]
      BY <2>3 DEF HandIn
    <3> HIDE DEF i
    <3>4. intent' \in [Takeovers -> [Roles -> IntentRecords]]
      BY <1>0, <3>2, <3>3
    <3> QED BY <1>0, <2>3, <3>1, <3>4 DEF HandIn
  <2> QED BY <1>2, <2>1, <2>2, <2>3 DEF PlayStep
<1>3. ASSUME NEW m \in Takeovers, AuthorityStep(m) PROVE OthersTyped'
  <2>1. CASE ChallengerNoShow(m) \/ HoldMatch(m) \/ \E winner \in Roles : ResolveHeld(m, winner)
    BY <1>0, <2>1 DEF ChallengerNoShow, HoldMatch, ResolveHeld, scoringVars
  <2>2. CASE DefenderNoShow(m) \/ InvalidateHeld(m)
    BY <1>0, <2>2 DEF DefenderNoShow, InvalidateHeld, Unlocks, scoringVars
  <2>3. CASE SettleResolved(m)
    BY <1>0, <2>3 DEF SettleResolved, Settles, scoringVars
  <2> QED BY <1>3, <2>1, <2>2, <2>3 DEF AuthorityStep
<1>4. ASSUME NEW m \in Takeovers, RightStep(m) PROVE OthersTyped'
  <2>1. CASE IssueRight(m)
    <3>1. revenge' \in [Takeovers -> {"NONE", "AVAILABLE", "EXPIRED", "CONSUMED"}]
      BY <1>0, <2>1 DEF IssueRight
    <3>2. settledEvent' \in [Takeovers -> {"NONE", "PENDING", "PUBLISHED", "DEAD"}]
      BY <1>0, <2>1 DEF IssueRight
    <3>3. mishaps' \in Nat
      BY <1>0, <2>1 DEF IssueRight
    <3> QED BY <1>0, <2>1, <3>1, <3>2, <3>3 DEF IssueRight
  <2>2. CASE IssueNothing(m) \/ RightExpires(m)
    BY <1>0, <2>2 DEF IssueNothing, RightExpires, scoringVars
  <2> QED BY <1>4, <2>1, <2>2 DEF RightStep
<1>5. ASSUME NEW w \in Scorers, NEW next \in {"RESOLVE", "SETTLE", "PUBLISH", "RETRY", "GIVE_UP"},
             Proceeds(w, next)
      PROVE  delivery' \in [Scorers -> Deliveries]
  <2> DEFINE q == [delivery[w] EXCEPT !.next = next]
  <2>1. q \in Deliveries
    BY ZenonT(60), <1>0 DEF Deliveries
  <2>2. delivery' = [delivery EXCEPT ![w] = q]
    BY <1>5 DEF Proceeds
  <2> HIDE DEF q
  <2> QED BY <1>0, <2>1, <2>2
<1>6. \A status : AfterStatus(status) \in {"RESOLVE", "SETTLE", "PUBLISH", "GIVE_UP"}
  BY DEF AfterStatus
<1>7. AtLeisure \in Deliveries
  BY RoleNames DEF AtLeisure, Deliveries
<1>8. ASSUME NEW m \in Takeovers, NEW w \in Scorers, NEW r \in Roles, DeliveryStep(w, m, r)
      PROVE  OthersTyped'
  <2>1. CASE ClaimIntentOf(w, m, r)
    <3> DEFINE i == [status |-> "PROCESSING", lockedBy |-> w,
                     tries |-> IF intent[m][r].tries < MaxTries THEN intent[m][r].tries + 1
                               ELSE MaxTries]
               q == [match |-> m, role |-> r, next |-> "SUBMIT"]
    <3>1. intent[m][r].tries \in 0..MaxTries /\ MaxTries \in Nat
      BY <1>0, BoundsAssumption DEF IntentRecords
    <3>2. i \in IntentRecords
      BY <3>1 DEF IntentRecords
    <3>3. q \in Deliveries
      BY DEF Deliveries
    <3>4. /\ intent' = [intent EXCEPT ![m] = [intent[m] EXCEPT ![r] = i]]
          /\ delivery' = [delivery EXCEPT ![w] = q]
      BY <2>1 DEF ClaimIntentOf
    <3> HIDE DEF i, q
    <3>5. /\ intent' \in [Takeovers -> [Roles -> IntentRecords]]
          /\ delivery' \in [Scorers -> Deliveries]
      BY <1>0, <3>2, <3>3, <3>4
    <3>6. mishaps' \in Nat
      BY <1>0, <2>1 DEF ClaimIntentOf
    <3> QED BY <1>0, <2>1, <3>5, <3>6 DEF ClaimIntentOf
  <2>2. CASE SubmitAgain(w, m, r)
    BY <1>0, <1>5, <1>6, <2>2 DEF SubmitAgain
  <2>3. CASE SubmitResult(w, m, r)
    BY <1>0, <1>5, <2>3 DEF SubmitResult
  <2>4. CASE ResolveScored(w, m, r)
    BY <1>0, <1>5, <1>6, <2>4 DEF ResolveScored
  <2>5. CASE SettleScored(w, m, r)
    BY <1>0, <1>5, <2>5 DEF SettleScored, Settles
  <2>6. ASSUME NEW status \in {"PUBLISHED", "DEAD", "PENDING"}, EndsDelivery(w, m, r, status),
               mishaps' \in Nat
        PROVE  OthersTyped'
    <3> DEFINE i == [intent[m][r] EXCEPT !.status = status]
    <3>1. i \in IntentRecords
      <4>1. intent[m][r] \in IntentRecords
        BY <1>0
      <4> QED BY <4>1 DEF IntentRecords
    <3>2. intent' = [intent EXCEPT ![m] = [intent[m] EXCEPT ![r] = i]] \/ intent' = intent
      BY <2>6 DEF EndsDelivery
    <3> HIDE DEF i
    <3>3. intent' \in [Takeovers -> [Roles -> IntentRecords]]
      <4>1. CASE intent' = [intent EXCEPT ![m] = [intent[m] EXCEPT ![r] = i]]
        <5>1. intent \in [Takeovers -> [Roles -> IntentRecords]]
          BY <1>0
        <5>2. [intent[m] EXCEPT ![r] = i] \in [Roles -> IntentRecords]
          BY <3>1, <5>1
        <5> QED BY <4>1, <5>1, <5>2
      <4>2. CASE intent' = intent
        BY <1>0, <4>2
      <4> QED BY <3>2, <4>1, <4>2
    <3>4. delivery' \in [Scorers -> Deliveries]
      BY <1>0, <1>7, <2>6 DEF EndsDelivery, Rest
    <3> QED BY <1>0, <2>6, <3>3, <3>4 DEF EndsDelivery
  <2>7. CASE PublishIntentOf(w, m, r) \/ GiveUp(w, m, r)
    BY <1>0, <2>6, <2>7 DEF PublishIntentOf, GiveUp
  <2>8. CASE TryLater(w, m, r) \/ DeliveryFails(w, m, r)
    BY <1>0, <2>6, <2>8 DEF TryLater, DeliveryFails, AgainOrDead
  <2> QED BY <1>8, <2>1, <2>2, <2>3, <2>4, <2>5, <2>7, <2>8 DEF DeliveryStep
<1>9. ASSUME NEW w \in Scorers, ScorerDies(w) PROVE OthersTyped'
  BY <1>0, <1>7, <1>9 DEF ScorerDies, Rest
<1> QED BY <1>1, <1>2, <1>3, <1>4, <1>8, <1>9 DEF TakeoverNext

LEMMA ContestInit == TakeoverInit => Contest
<1> SUFFICES ASSUME TakeoverInit PROVE Contest
  OBVIOUS
<1> USE DEF TakeoverInit
<1>1. NoTakeover \in TakeoverRecords
  BY DEF NoTakeover, TakeoverRecords, Engaged
<1>2. NoIntentYet \in IntentRecords
  BY BoundsAssumption DEF NoIntentYet, IntentRecords
<1>3. AtLeisure \in Deliveries
  BY RoleNames DEF AtLeisure, Deliveries
<1>4. TakeoverTypeOK
  BY <1>1, <1>2, <1>3, ContendersAssumption DEF TakeoverTypeOK
<1>5. \A m \in Takeovers : takeover[m].status = "NONE" /\ takeover[m].type = "NORMAL" /\ ~IsEngaged(m)
  BY DEF NoTakeover, IsEngaged, Engaged
<1>6. Paired
  BY <1>5 DEF Paired
<1>7. BaselinesHold
  BY <1>5, ContendersAssumption DEF BaselinesHold
<1>8. LockedIsStaked
  BY <1>5 DEF LockedIsStaked
<1> QED BY <1>4, <1>6, <1>7, <1>8 DEF Contest

LEMMA ContestStep == Contest /\ [TakeoverNext]_takeoverVars => Contest'
<1> SUFFICES ASSUME Contest, [TakeoverNext]_takeoverVars PROVE Contest'
  OBVIOUS
<1>1. CASE UNCHANGED takeoverVars
  <2>1. Stays
    BY <1>1 DEF takeoverVars, balanceVars, Stays
  <2>2. OthersTyped'
    BY <1>1 DEF takeoverVars, scoringVars, OthersTyped, Contest, TakeoverTypeOK
  <2> QED BY <2>1, <2>2, StayKeeps
<1>2. CASE TakeoverNext
  <2>1. OthersTyped'
    BY <1>2, OthersStayTyped
  <2>2. CASE OtherStep
    BY <2>1, <2>2, OtherEffect, StayKeeps, AdvanceKeeps, FinishKeeps DEF PlayEffect
  <2>3. ASSUME NEW m \in Takeovers,
               \/ \E u, v \in Contenders : RequestNormal(m, u, v)
               \/ \E s \in Takeovers : RequestRevenge(m, s)
        PROVE  Contest'
    BY <2>1, <2>3, RequestEffect, RequestKeeps
  <2> QED BY <1>2, <2>2, <2>3 DEF TakeoverNext, OtherStep
<1> QED BY <1>1, <1>2

LEMMA ContestHolds == TakeoverSpec => []Contest
BY ContestInit, ContestStep, PTL DEF TakeoverSpec

(***************************************************************************)
(* No balance goes below zero, and every field stays within its model.     *)
(***************************************************************************)
THEOREM TakeoverTypes == TakeoverSpec => []TakeoverTypeOK
<1>1. Contest => TakeoverTypeOK
  BY DEF Contest
<1> QED BY <1>1, ContestHolds, PTL

(***************************************************************************)
(* The seats of an engaged match are those of its request until it ends,   *)
(* so that swapArenaPositions never finds others, and seats stay distinct. *)
(***************************************************************************)
THEOREM SeatsAwaitSettlement == TakeoverSpec => []BaselinesHold
<1>1. Contest => BaselinesHold
  BY DEF Contest
<1> QED BY <1>1, ContestHolds, PTL

(***************************************************************************)
(* The locked balance of a contender is the stake of the match he has      *)
(* challenged with, and nothing when that has ended in any of the six ways.*)
(***************************************************************************)
THEOREM StakesReturn == TakeoverSpec => []LockedIsStaked
<1>1. Contest => LockedIsStaked
  BY DEF Contest
<1> QED BY <1>1, ContestHolds, PTL

-----------------------------------------------------------------------------
(* Takeovers implement the ladder. *)

LEMMA StepEffects ==
    ASSUME Contest, [TakeoverNext]_takeoverVars
    PROVE  PlayEffect \/ \E m \in Takeovers : Requested(m)
<1>1. CASE UNCHANGED takeoverVars
  BY <1>1 DEF takeoverVars, balanceVars, PlayEffect, Stays
<1>2. CASE TakeoverNext
  <2>1. CASE OtherStep
    BY <2>1, OtherEffect
  <2>2. ASSUME NEW m \in Takeovers,
               \/ \E u, v \in Contenders : RequestNormal(m, u, v)
               \/ \E s \in Takeovers : RequestRevenge(m, s)
        PROVE  Requested(m)
    BY <2>2, RequestEffect
  <2> QED BY <1>2, <2>1, <2>2 DEF TakeoverNext, OtherStep
<1> QED BY <1>1, <1>2

LEMMA RequestWrites ==
    ASSUME NEW m \in Takeovers, Requested(m)
    PROVE  /\ takeover[m].status = "NONE" /\ seat' = seat
           /\ \E t : takeover' = [takeover EXCEPT ![m] = t]
<1>1. PICK u \in Contenders, v \in Contenders, type \in {"NORMAL", "REVENGE"},
           source \in Takeovers \cup {NoSource}, cost \in Nat :
        Challenges(m, u, v, type, source, cost)
  BY DEF Requested
<1>2. takeover[m].status = "NONE" /\ seat' = seat
  BY <1>1 DEF Challenges
<1>3. \E t : takeover' = [takeover EXCEPT ![m] = t]
  BY Zenon, <1>1 DEF Challenges
<1> QED BY <1>2, <1>3

(* A match as the ladder sees it. *)
LEMMA DepositOfRecord ==
    ASSUME NEW t
    PROVE  /\ t.status = "NONE" => DepositOf(t) = Ladder!Free
           /\ t.status \in Engaged => DepositOf(t) = Ladder!Deposit(t.challenger, t.defender, t.stake)
           /\ t.status \in {"SETTLED", "INVALID", "CANCELLED"} => DepositOf(t) = Ladder!Closed
BY DEF DepositOf, NotOpen, Engaged, Ladder!Free, Ladder!Closed, Ladder!Deposit

LEMMA DepositChanges ==
    ASSUME Contest, NEW m \in Takeovers, NEW t, takeover' = [takeover EXCEPT ![m] = t]
    PROVE  /\ Deposits' = [Deposits EXCEPT ![m] = DepositOf(t)]
           /\ BurnedBy' = [BurnedBy EXCEPT ![m] = Burns(t)]
<1>1. takeover' = [n \in Takeovers |-> IF n = m THEN t ELSE takeover[n]]
  BY DEF Contest, TakeoverTypeOK
<1>2. \A n \in Takeovers : takeover'[n] = IF n = m THEN t ELSE takeover[n]
  BY <1>1
<1>3. /\ Deposits' = [n \in Takeovers |-> DepositOf(takeover'[n])]
      /\ Deposits = [n \in Takeovers |-> DepositOf(takeover[n])]
  BY DEF Deposits, DepositOf, NotOpen
<1>4. /\ BurnedBy' = [n \in Takeovers |-> Burns(takeover'[n])]
      /\ BurnedBy = [n \in Takeovers |-> Burns(takeover[n])]
  BY DEF BurnedBy, Burns
<1>5. Deposits' = [Deposits EXCEPT ![m] = DepositOf(t)]
  BY <1>2, <1>3
<1>6. BurnedBy' = [BurnedBy EXCEPT ![m] = Burns(t)]
  BY <1>2, <1>4
<1> QED BY <1>5, <1>6

LEMMA BurnsType ==
    ASSUME NEW t \in TakeoverRecords
    PROVE  Burns(t) \in Nat
BY CostsAssumption DEF Burns, TakeoverRecords

(* What has been burned grows by what the match burns that changes. *)
LEMMA BurnedGrows ==
    ASSUME Contest, IsFiniteSet(Takeovers), NEW m \in Takeovers, NEW t \in TakeoverRecords,
           takeover' = [takeover EXCEPT ![m] = t], takeover[m].status # "SETTLED"
    PROVE  /\ DaysBurned \in Int
           /\ DaysBurned' = DaysBurned + Burns(t)
<1>1. BurnedBy' = [BurnedBy EXCEPT ![m] = Burns(t)]
  BY DepositChanges
<1>2. \A n \in Takeovers : BurnedBy[n] \in Nat
  BY BurnsType DEF BurnedBy, Contest, TakeoverTypeOK
<1>3. BurnedBy[m] = 0 /\ Burns(t) \in Nat
  BY BurnsType DEF BurnedBy, Burns
<1> DEFINE f == BurnedBy
           k == [f EXCEPT ![m] = Burns(t)]
<1>4. /\ f \in [Takeovers -> Int] /\ k \in [Takeovers -> Int]
      /\ \A n \in Takeovers \ {m} : k[n] = f[n]
      /\ k[m] = Burns(t)
  BY <1>2, <1>3 DEF BurnedBy
<1>5. /\ SumFunctionOnSet(f, Takeovers) \in Int
      /\ SumFunctionOnSet(k, Takeovers) = SumFunctionOnSet(f, Takeovers) + (k[m] - f[m])
  <2> HIDE DEF f, k
  <2>1. SumFunctionOnSet(f, Takeovers) \in Int
    BY <1>4, SumIsInt
  <2>2. SumFunctionOnSet(k, Takeovers) = SumFunctionOnSet(f, Takeovers) + (k[m] - f[m])
    BY <1>4, SumWithOneChanged
  <2> QED BY <2>1, <2>2
<1>6. DaysBurned = SumFunctionOnSet(f, Takeovers) /\ DaysBurned' = SumFunctionOnSet(k, Takeovers)
  BY <1>1 DEF DaysBurned
<1>7. k[m] - f[m] = Burns(t)
  BY <1>3, <1>4
<1> QED BY <1>5, <1>6, <1>7

LEMMA BurnedStays ==
    ASSUME takeover' = takeover
    PROVE  UNCHANGED <<Deposits, DaysBurned>>
BY DEF Deposits, DepositOf, NotOpen, DaysBurned, BurnedBy, Burns

(* The ladder does not notice what goes on in a match. *)
LEMMA PlayIsUnnoticed ==
    ASSUME Contest, IsFiniteSet(Takeovers), Stays \/ \E m \in Takeovers : Advances(m)
    PROVE  UNCHANGED Ladder!vars
<1>1. CASE Stays
  BY <1>1, BurnedStays DEF Stays, Ladder!vars
<1>2. ASSUME NEW m \in Takeovers, Advances(m) PROVE UNCHANGED Ladder!vars
  <2>1. PICK t \in TakeoverRecords :
          /\ takeover' = [takeover EXCEPT ![m] = t]
          /\ Kept(t, takeover[m])
          /\ takeover[m].status \in Engaged /\ t.status \in Engaged
          /\ UNCHANGED <<seat, freeDays, stakedDays>>
    BY <1>2 DEF Advances
  <2>2. DepositOf(t) = DepositOf(takeover[m])
    BY <2>1, DepositOfRecord DEF Kept
  <2>3. Deposits[m] = DepositOf(takeover[m])
    BY DEF Deposits
  <2>4. Deposits' = Deposits
    <3>1. Deposits' = [Deposits EXCEPT ![m] = DepositOf(t)]
      BY <2>1, DepositChanges
    <3>2. Deposits = [n \in Takeovers |-> Deposits[n]]
      BY DEF Deposits
    <3> QED BY <2>2, <2>3, <3>1, <3>2
  <2>5. takeover[m].status # "SETTLED" /\ Burns(t) = 0
    BY <2>1 DEF Engaged, Burns
  <2>6. DaysBurned' = DaysBurned
    <3>1. DaysBurned \in Int /\ DaysBurned' = DaysBurned + Burns(t)
      BY <2>1, <2>5, BurnedGrows
    <3> QED BY <2>5, <3>1
  <2> QED BY <2>1, <2>4, <2>6 DEF Ladder!vars
<1> QED BY <1>1, <1>2

LEMMA RequestOpens ==
    ASSUME Contest, IsFiniteSet(Takeovers), NEW m \in Takeovers, Requested(m)
    PROVE  \E u, v \in Contenders : \E n \in 1..freeDays[u] : Ladder!Open(m, u, v, n)
<1>1. PICK u \in Contenders, v \in Contenders, type \in {"NORMAL", "REVENGE"},
           source \in Takeovers \cup {NoSource}, cost \in Nat :
        Challenges(m, u, v, type, source, cost) /\ cost > 0
  BY DEF Requested
<1> DEFINE t == [NoTakeover EXCEPT !.status = "MATCHED", !.challenger = u, !.defender = v,
                                   !.type = type, !.source = source, !.stake = cost,
                                   !.challengerBefore = seat[u], !.defenderBefore = seat[v]]
<1>2. /\ takeover[m].status = "NONE" /\ u # v /\ Unengaged(u, v) /\ freeDays[u] >= cost
      /\ takeover' = [takeover EXCEPT ![m] = t]
      /\ freeDays' = [freeDays EXCEPT ![u] = @ - cost]
      /\ stakedDays' = [stakedDays EXCEPT ![u] = @ + cost]
      /\ seat' = seat
  BY <1>1 DEF Challenges
<1>3. cost \in 1..freeDays[u]
  <2>1. freeDays[u] \in Nat
    BY DEF Contest, TakeoverTypeOK
  <2> QED BY <1>1, <1>2, <2>1
<1>4. t.status = "MATCHED" /\ t.challenger = u /\ t.defender = v /\ t.stake = cost
  BY DEF NoTakeover
<1>5. t \in TakeoverRecords
  <2>1. seat[u] \in Nat /\ seat[v] \in Nat
    BY DEF Contest, TakeoverTypeOK
  <2> QED BY <2>1 DEF NoTakeover, TakeoverRecords, Engaged
<1> HIDE DEF t
<1>6. Deposits[m] = Ladder!Free
  BY <1>2, DepositOfRecord DEF Deposits
<1>7. Deposits' = [Deposits EXCEPT ![m] = Ladder!Deposit(u, v, cost)]
  BY <1>2, <1>4, DepositChanges, DepositOfRecord DEF Engaged
<1>8. DaysBurned' = DaysBurned
  <2>1. Burns(t) = 0
    BY <1>4 DEF Burns
  <2>2. takeover[m].status # "SETTLED"
    BY <1>2
  <2>3. DaysBurned \in Int /\ DaysBurned' = DaysBurned + Burns(t)
    BY <1>2, <1>5, <2>2, BurnedGrows
  <2> QED BY <2>1, <2>3
<1>9. ASSUME NEW x \in {u, v} PROVE ~Ladder!Engaged(x)
  <2> SUFFICES ASSUME NEW n \in Takeovers, Deposits[n].state = "OPEN",
                      x \in {Deposits[n].owner, Deposits[n].rival}
               PROVE  FALSE
    BY DEF Ladder!Engaged
  <2>1. Deposits[n] = DepositOf(takeover[n])
    BY DEF Deposits
  <2>2. takeover[n].status \in Engaged
    <3>1. takeover[n].status \in Engaged \cup {"NONE", "SETTLED", "INVALID", "CANCELLED"}
      BY DEF Contest, TakeoverTypeOK, TakeoverRecords
    <3>2. Ladder!Free.state # "OPEN" /\ Ladder!Closed.state # "OPEN"
      BY DEF Ladder!Free, Ladder!Closed
    <3> QED BY <2>1, <3>1, <3>2, DepositOfRecord
  <2>3. x \in Contestants(n)
    BY <2>1, <2>2, DepositOfRecord DEF Contestants, Ladder!Deposit
  <2> QED BY <1>2, <2>2, <2>3 DEF Unengaged, IsEngaged
<1>10. Ladder!Open(m, u, v, cost)
  BY <1>2, <1>3, <1>6, <1>7, <1>8, <1>9 DEF Ladder!Open
<1> QED BY <1>3, <1>10

LEMMA FinishCloses ==
    ASSUME Contest, IsFiniteSet(Takeovers), NEW m \in Takeovers, Finishes(m)
    PROVE  Ladder!Close(m)
<1>1. PICK t \in TakeoverRecords, u \in Contestants(m), paid \in Nat :
        /\ takeover' = [takeover EXCEPT ![m] = t]
        /\ Kept(t, takeover[m])
        /\ takeover[m].status \in Engaged /\ t.status \in {"SETTLED", "INVALID", "CANCELLED"}
        /\ stakedDays' = [stakedDays EXCEPT ![t.challenger] = @ - t.stake]
        /\ freeDays' = [freeDays EXCEPT ![u] = @ + paid]
        /\ paid + Burns(t) = t.stake
        /\ \/ seat' = seat
           \/ /\ t.status = "SETTLED" /\ Won(m)
              /\ seat' = [seat EXCEPT ![t.challenger] = t.defenderBefore,
                                      ![t.defender] = t.challengerBefore]
  BY DEF Finishes
<1> DEFINE c == takeover[m].challenger
           d == takeover[m].defender
           n == takeover[m].stake
           burns == Burns(t)
<1>2. t.challenger = c /\ t.defender = d /\ t.stake = n /\ n \in Nat /\ burns \in Nat
  BY <1>1, BurnsType DEF Kept, TakeoverRecords
<1>3. /\ c \in Contenders /\ d \in Contenders /\ c # d /\ u \in {c, d}
      /\ t.challengerBefore = seat[c] /\ t.defenderBefore = seat[d]
  BY <1>1 DEF Contest, Paired, BaselinesHold, IsEngaged, Engaged, Kept, Contestants
<1>4. /\ Deposits[m].state = "OPEN" /\ Deposits[m].owner = c /\ Deposits[m].rival = d
      /\ Deposits[m].amount = n
  <2>1. Deposits[m] = Ladder!Deposit(c, d, n)
    BY <1>1, DepositOfRecord DEF Deposits
  <2> QED BY <2>1 DEF Ladder!Deposit
<1>5. Deposits' = [Deposits EXCEPT ![m] = Ladder!Closed]
  BY <1>1, DepositChanges, DepositOfRecord
<1>6. DaysBurned \in Int /\ DaysBurned' = DaysBurned + burns
  <2>1. takeover[m].status # "SETTLED"
    BY <1>1 DEF Engaged
  <2> QED BY <1>1, <2>1, BurnedGrows
<1>7. seat' \in {seat, [seat EXCEPT ![c] = seat[d], ![d] = seat[c]]}
  BY <1>1, <1>2, <1>3
<1>8. stakedDays' = [stakedDays EXCEPT ![c] = @ - n]
  BY <1>1, <1>2
<1>9. /\ freeDays \in [Contenders -> Nat] /\ freeDays' = [freeDays EXCEPT ![u] = @ + paid]
      /\ paid \in Nat /\ paid + burns = n
  BY <1>1, <1>2 DEF Contest, TakeoverTypeOK
<1> HIDE DEF c, d, n, burns
<1>10. Ladder!Divide(c, d, n)
  <2>1. freeDays[c] \in Nat /\ freeDays[d] \in Nat
    BY <1>3, <1>9
  <2>2. CASE u = c
    <3>1. freeDays' = [freeDays EXCEPT ![c] = @ + paid - 0, ![d] = @ + 0 - 0]
      <4>1. freeDays[c] + paid - 0 = freeDays[c] + paid /\ freeDays[d] + 0 - 0 = freeDays[d]
        BY <1>9, <2>1
      <4>2. freeDays' = [freeDays EXCEPT ![c] = freeDays[c] + paid, ![d] = freeDays[d]]
        BY <1>3, <1>9, <2>2
      <4> QED BY <4>1, <4>2
    <3>2. DaysBurned' = DaysBurned + (n - paid - 0) + 0 + 0
      BY <1>2, <1>6, <1>9
    <3>3. /\ paid \in 0..n /\ 0 \in 0..(n - paid)
          /\ 0 \in 0..(freeDays[c] + paid) /\ 0 \in 0..(freeDays[d] + 0)
      BY <1>2, <1>9, <2>1
    <3> QED BY <3>1, <3>2, <3>3 DEF Ladder!Divide
  <2>3. CASE u = d
    <3>1. freeDays' = [freeDays EXCEPT ![c] = @ + 0 - 0, ![d] = @ + paid - 0]
      <4>1. freeDays[c] + 0 - 0 = freeDays[c] /\ freeDays[d] + paid - 0 = freeDays[d] + paid
        BY <1>9, <2>1
      <4>2. freeDays' = [freeDays EXCEPT ![c] = freeDays[c], ![d] = freeDays[d] + paid]
        BY <1>3, <1>9, <2>3
      <4> QED BY <1>3, <1>9, <4>1, <4>2
    <3>2. DaysBurned' = DaysBurned + (n - 0 - paid) + 0 + 0
      BY <1>2, <1>6, <1>9
    <3>3. /\ 0 \in 0..n /\ paid \in 0..(n - 0)
          /\ 0 \in 0..(freeDays[c] + 0) /\ 0 \in 0..(freeDays[d] + paid)
      BY <1>2, <1>9, <2>1
    <3> QED BY <3>1, <3>2, <3>3 DEF Ladder!Divide
  <2> QED BY <1>3, <2>2, <2>3
<1> QED BY <1>4, <1>5, <1>7, <1>8, <1>10 DEF Ladder!Close

LEMMA LadderStep ==
    ASSUME IsFiniteSet(Takeovers), Contest, [TakeoverNext]_takeoverVars
    PROVE  [Ladder!Next]_(Ladder!vars)
<1>1. CASE \E m \in Takeovers : Requested(m)
  BY <1>1, RequestOpens DEF Ladder!Next
<1>2. CASE Stays \/ \E m \in Takeovers : Advances(m)
  BY <1>2, PlayIsUnnoticed
<1>3. CASE \E m \in Takeovers : Finishes(m)
  BY <1>3, FinishCloses DEF Ladder!Next
<1> QED BY <1>1, <1>2, <1>3, StepEffects DEF PlayEffect

(***************************************************************************)
(* Rank takeovers implement the ladder too, with any contenders, stakes    *)
(* and workers: every command is one opening or one closing of a deposit,  *)
(* or moves no seat and no day (requestChallenge, rejectChallenge,         *)
(* settleResolvedMatch, invalidateHeldMatch).                              *)
(***************************************************************************)
THEOREM TakeoversImplementLadder ==
    ASSUME IsFiniteSet(Takeovers)
    PROVE  TakeoverSpec => ImplementsLadder
<1>1. TakeoverInit => Ladder!Init
  <2> SUFFICES ASSUME TakeoverInit PROVE Ladder!Init
    OBVIOUS
  <2>1. \A m \in Takeovers : takeover[m].status = "NONE"
    BY DEF TakeoverInit, NoTakeover
  <2>2. Deposits = [m \in Takeovers |-> Ladder!Free]
    BY <2>1, DepositOfRecord DEF Deposits
  <2>3. DaysBurned = 0
    <3>1. \A m \in Takeovers : BurnedBy[m] = 0
      BY <2>1 DEF BurnedBy, Burns
    <3> QED BY <3>1, SumOfZeros DEF DaysBurned
  <2> QED BY <2>2, <2>3 DEF TakeoverInit, Ladder!Init
<1>2. Contest /\ [TakeoverNext]_takeoverVars => [Ladder!Next]_(Ladder!vars)
  BY LadderStep
<1> QED BY <1>1, <1>2, ContestHolds, PTL DEF TakeoverSpec, ImplementsLadder, Ladder!Spec

-----------------------------------------------------------------------------
(* Days, seats and records over a whole season. *)

Days == [u \in Contenders |-> freeDays[u] + stakedDays[u]]

(* What is free, what is staked and what was burned add up to what the season began with. *)
NoDayIsLost ==
    SumFunctionOnSet(Days, Contenders) + DaysBurned = SumFunctionOnSet(FirstDays, Contenders)

LEMMA DaysType == Contest => Days \in [Contenders -> Int]
BY DEF Contest, TakeoverTypeOK, Days

LEMMA CloseKeepsDays ==
    ASSUME Contest, IsFiniteSet(Takeovers), IsFiniteSet(Contenders),
           NEW m \in Takeovers, Finishes(m)
    PROVE  SumFunctionOnSet(Days, Contenders)' + DaysBurned'
             = SumFunctionOnSet(Days, Contenders) + DaysBurned
<1>1. PICK t \in TakeoverRecords, u \in Contestants(m), paid \in Nat :
        /\ takeover' = [takeover EXCEPT ![m] = t]
        /\ Kept(t, takeover[m])
        /\ takeover[m].status \in Engaged
        /\ stakedDays' = [stakedDays EXCEPT ![t.challenger] = @ - t.stake]
        /\ freeDays' = [freeDays EXCEPT ![u] = @ + paid]
        /\ paid + Burns(t) = t.stake
  BY DEF Finishes
<1> DEFINE c == takeover[m].challenger
           d == takeover[m].defender
           n == takeover[m].stake
           back == IF u = c THEN paid ELSE 0
<1>2. t.challenger = c /\ t.stake = n /\ n \in Nat /\ Burns(t) \in Nat
  BY <1>1, BurnsType DEF Kept, TakeoverRecords
<1>3. c \in Contenders /\ d \in Contenders /\ c # d /\ u \in {c, d}
  BY <1>1 DEF Contest, Paired, Engaged, Contestants
<1>4. DaysBurned \in Int /\ DaysBurned' = DaysBurned + Burns(t)
  <2>1. takeover[m].status # "SETTLED"
    BY <1>1 DEF Engaged
  <2> QED BY <1>1, <2>1, BurnedGrows
<1> HIDE DEF c, d, n
<1>5. /\ freeDays \in [Contenders -> Nat] /\ stakedDays \in [Contenders -> Nat]
      /\ freeDays' = [freeDays EXCEPT ![u] = @ + paid]
      /\ stakedDays' = [stakedDays EXCEPT ![c] = @ - n]
  BY <1>1, <1>2 DEF Contest, TakeoverTypeOK
<1>6. Days' = [x \in Contenders |-> freeDays'[x] + stakedDays'[x]]
  BY DEF Days
<1>7. /\ Days \in [Contenders -> Int] /\ Days' \in [Contenders -> Int]
      /\ Days'[c] - Days[c] = back - n
      /\ Days'[d] - Days[d] = paid - back
      /\ \A x \in Contenders \ {c, d} : Days'[x] = Days[x]
  <2>1. ASSUME NEW x \in Contenders
        PROVE  /\ Days[x] = freeDays[x] + stakedDays[x] /\ Days'[x] = freeDays'[x] + stakedDays'[x]
               /\ freeDays[x] \in Nat /\ stakedDays[x] \in Nat
               /\ freeDays'[x] = IF x = u THEN freeDays[x] + paid ELSE freeDays[x]
               /\ stakedDays'[x] = IF x = c THEN stakedDays[x] - n ELSE stakedDays[x]
    BY <1>5, <1>6 DEF Days
  <2>2. \A x \in Contenders : Days[x] \in Int /\ Days'[x] \in Int
    BY <1>2, <2>1
  <2>3. Days \in [Contenders -> Int] /\ Days' \in [Contenders -> Int]
    BY <1>6, <2>2 DEF Days
  <2> QED BY <1>2, <1>3, <2>1, <2>3
<1> HIDE DEF back
<1>8. SumFunctionOnSet(Days', Contenders)
        = SumFunctionOnSet(Days, Contenders) + (Days'[c] - Days[c]) + (Days'[d] - Days[d])
  BY <1>3, <1>7, SumWithTwoChanged
<1>9. SumFunctionOnSet(Days, Contenders) \in Int /\ back \in Int
  BY <1>7, SumIsInt DEF back
<1> QED BY <1>1, <1>2, <1>4, <1>7, <1>8, <1>9

LEMMA DaysStep ==
    ASSUME Contest, IsFiniteSet(Takeovers), IsFiniteSet(Contenders),
           NoDayIsLost, [TakeoverNext]_takeoverVars
    PROVE  NoDayIsLost'
<1>1. CASE Stays \/ \E m \in Takeovers : Advances(m)
  BY <1>1, PlayIsUnnoticed DEF Ladder!vars, NoDayIsLost, Days
<1>2. ASSUME NEW m \in Takeovers, Requested(m) PROVE NoDayIsLost'
  <2>1. PICK u \in Contenders, v \in Contenders, n \in Nat : Ladder!Open(m, u, v, n)
    <3>1. \A u \in Contenders : 1..freeDays[u] \subseteq Nat
      BY DEF Contest, TakeoverTypeOK
    <3> QED BY <1>2, <3>1, RequestOpens
  <2>2. /\ freeDays' = [freeDays EXCEPT ![u] = @ - n]
        /\ stakedDays' = [stakedDays EXCEPT ![u] = @ + n]
        /\ DaysBurned' = DaysBurned
    BY <2>1 DEF Ladder!Open
  <2>3. freeDays \in [Contenders -> Nat] /\ stakedDays \in [Contenders -> Nat] /\ n \in Int
    BY DEF Contest, TakeoverTypeOK
  <2>4. \A x \in Contenders : freeDays'[x] + stakedDays'[x] = freeDays[x] + stakedDays[x]
    BY <2>2, <2>3
  <2>5. Days' = Days
    BY <2>4 DEF Days
  <2> QED BY <2>2, <2>5 DEF NoDayIsLost
<1>3. ASSUME NEW m \in Takeovers, Finishes(m) PROVE NoDayIsLost'
  BY <1>3, CloseKeepsDays DEF NoDayIsLost
<1> QED BY <1>1, <1>2, <1>3, StepEffects DEF PlayEffect

(***************************************************************************)
(* No command makes a challenge day or loses one but by burning it, in     *)
(* however many matches a contender is one after the other: cancelled,     *)
(* invalid, won, lost and revenge matches together                         *)
(* (buildSettlementTransactions and the two balances of the access cycle). *)
(***************************************************************************)
THEOREM ChallengeDaysAreConserved ==
    ASSUME IsFiniteSet(Takeovers), IsFiniteSet(Contenders)
    PROVE  TakeoverSpec => []NoDayIsLost
<1>1. TakeoverInit => NoDayIsLost
  <2> SUFFICES ASSUME TakeoverInit PROVE NoDayIsLost
    OBVIOUS
  <2>1. DaysBurned = 0
    <3>1. \A m \in Takeovers : BurnedBy[m] = 0
      BY DEF TakeoverInit, NoTakeover, BurnedBy, Burns
    <3> QED BY <3>1, SumOfZeros DEF DaysBurned
  <2>2. Days = FirstDays
    BY ContendersAssumption DEF TakeoverInit, Days
  <2>3. SumFunctionOnSet(FirstDays, Contenders) \in Int
    BY ContendersAssumption, SumIsInt
  <2> QED BY <2>1, <2>2, <2>3 DEF NoDayIsLost
<1>2. Contest /\ NoDayIsLost /\ [TakeoverNext]_takeoverVars => NoDayIsLost'
  BY DaysStep
<1> QED BY <1>1, <1>2, ContestHolds, PTL DEF TakeoverSpec

(***************************************************************************)
(* A seat moves only when a resolved win of the challenger is settled: the *)
(* two exchange their seats, the winner goes up, and nobody else moves     *)
(* (swapArenaPositions, markArenaPositionsUnchanged).                      *)
(***************************************************************************)
OnlyWinsMoveSeats ==
    [][seat' # seat => \E m \in Takeovers :
           LET c == takeover[m].challenger
               d == takeover[m].defender
           IN
           /\ Won(m) /\ takeover'[m].status = "SETTLED"
           /\ seat[d] < seat[c]
           /\ seat' = [seat EXCEPT ![c] = seat[d], ![d] = seat[c]]]_takeoverVars

(* Every seat there was is somebody's. *)
NoSeatIsLost == {seat[u] : u \in Contenders} = {FirstSeat[u] : u \in Contenders}

LEMMA SeatsStep ==
    ASSUME Contest, [TakeoverNext]_takeoverVars, seat' # seat
    PROVE  \E m \in Takeovers :
             LET c == takeover[m].challenger
                 d == takeover[m].defender
             IN
             /\ Won(m) /\ takeover'[m].status = "SETTLED"
             /\ seat[d] < seat[c]
             /\ seat' = [seat EXCEPT ![c] = seat[d], ![d] = seat[c]]
<1>1. PICK m \in Takeovers : Finishes(m)
  <2>1. \A m \in Takeovers : Requested(m) => seat' = seat
    BY RequestWrites
  <2>2. \A m \in Takeovers : Advances(m) => seat' = seat
    BY DEF Advances
  <2> QED BY <2>1, <2>2, StepEffects DEF PlayEffect, Stays
<1>2. PICK t \in TakeoverRecords :
        /\ takeover' = [takeover EXCEPT ![m] = t]
        /\ Kept(t, takeover[m])
        /\ t.status = "SETTLED" /\ Won(m)
        /\ seat' = [seat EXCEPT ![t.challenger] = t.defenderBefore,
                                ![t.defender] = t.challengerBefore]
  BY <1>1 DEF Finishes
<1> DEFINE c == takeover[m].challenger
           d == takeover[m].defender
<1>3. IsEngaged(m)
  BY <1>2 DEF Won, IsEngaged, Engaged
<1>4. /\ t.challenger = c /\ t.defender = d
      /\ t.challengerBefore = seat[c] /\ t.defenderBefore = seat[d] /\ seat[d] < seat[c]
  BY <1>2, <1>3 DEF Contest, BaselinesHold, Kept
<1>5. takeover'[m].status = "SETTLED"
  BY <1>2 DEF Contest, TakeoverTypeOK
<1>6. seat' = [seat EXCEPT ![c] = seat[d], ![d] = seat[c]]
  BY <1>2, <1>4
<1> QED BY <1>2, <1>4, <1>5, <1>6

\* Nothing but a settled win moves a seat: not a hold, an abort, a deadline, a stalled
\* worker or a command given twice (swapArenaPositions).
THEOREM SeatsMoveByWins == TakeoverSpec => OnlyWinsMoveSeats
<1>1. Contest /\ [TakeoverNext]_takeoverVars
        => [seat' # seat => \E m \in Takeovers :
              LET c == takeover[m].challenger
                  d == takeover[m].defender
              IN
              /\ Won(m) /\ takeover'[m].status = "SETTLED"
              /\ seat[d] < seat[c]
              /\ seat' = [seat EXCEPT ![c] = seat[d], ![d] = seat[c]]]_takeoverVars
  BY SeatsStep
<1> QED BY <1>1, ContestHolds, PTL DEF TakeoverSpec, OnlyWinsMoveSeats

(***************************************************************************)
(* The seats are a permutation of those the season began with, whatever    *)
(* chains of wins and revenges exchange them: with BaselinesHold, which    *)
(* keeps them distinct, no seat is ever vacant or doubled.                 *)
(***************************************************************************)
THEOREM SeatsArePermuted == TakeoverSpec => []NoSeatIsLost
<1>1. TakeoverInit => NoSeatIsLost
  BY DEF TakeoverInit, NoSeatIsLost
<1>2. Contest /\ NoSeatIsLost /\ [TakeoverNext]_takeoverVars => NoSeatIsLost'
  <2> SUFFICES ASSUME Contest, NoSeatIsLost, [TakeoverNext]_takeoverVars, seat' # seat
               PROVE  NoSeatIsLost'
    BY DEF NoSeatIsLost
  <2>1. PICK m \in Takeovers :
          /\ Won(m)
          /\ seat' = [seat EXCEPT ![takeover[m].challenger] = seat[takeover[m].defender],
                                  ![takeover[m].defender] = seat[takeover[m].challenger]]
    BY SeatsStep
  <2> DEFINE c == takeover[m].challenger
             d == takeover[m].defender
  <2>2. c \in Contenders /\ d \in Contenders /\ c # d
    BY <2>1 DEF Won, Contest, Paired
  <2>3. seat \in [Contenders -> Nat] /\ seat' = [seat EXCEPT ![c] = seat[d], ![d] = seat[c]]
    BY <2>1 DEF Contest, TakeoverTypeOK
  <2> HIDE DEF c, d
  <2>4. \A u \in Contenders : seat'[u] = IF u = c THEN seat[d] ELSE IF u = d THEN seat[c] ELSE seat[u]
    BY <2>2, <2>3
  <2>5. {seat'[u] : u \in Contenders} = {seat[u] : u \in Contenders}
    <3>1. \A u \in Contenders : \E v \in Contenders : seat'[u] = seat[v]
      BY <2>2, <2>4
    <3>2. \A u \in Contenders : \E v \in Contenders : seat[u] = seat'[v]
      BY <2>2, <2>4
    <3> QED BY <3>1, <3>2
  <2> QED BY <2>5 DEF NoSeatIsLost
<1> QED BY <1>1, <1>2, ContestHolds, PTL DEF TakeoverSpec

-----------------------------------------------------------------------------
(* Revenge. *)

Earned(t) == t.status = "SETTLED" /\ t.winner = "CHALLENGER" /\ t.reason = "SCORED_RESULT"

Rights ==
    /\ RevengeIsOwed
    /\ \A m \in Takeovers : revenge[m] # "NONE" => Earned(takeover[m])

(* A match that has ended stays as it is, and whom a match is of does not change. *)
LEMMA EndedForGood ==
    ASSUME Contest, PlayEffect
    PROVE  \A n \in Takeovers :
             /\ Kept(takeover'[n], takeover[n])
             /\ Earned(takeover[n]) => Earned(takeover'[n])
<1>1. CASE Stays
  BY <1>1 DEF Stays, Kept, EarnsRevenge, Earned
<1>2. ASSUME NEW m \in Takeovers, Advances(m) \/ Finishes(m)
      PROVE  \A n \in Takeovers :
               /\ Kept(takeover'[n], takeover[n])
               /\ Earned(takeover[n]) => Earned(takeover'[n])
  <2>1. PICK t \in TakeoverRecords :
          /\ takeover' = [takeover EXCEPT ![m] = t]
          /\ Kept(t, takeover[m])
          /\ takeover[m].status \in Engaged
    BY <1>2 DEF Advances, Finishes
  <2>2. /\ takeover'[m] = t
        /\ \A n \in Takeovers : n # m => takeover'[n] = takeover[n]
    BY <2>1 DEF Contest, TakeoverTypeOK
  <2>3. ~Earned(takeover[m])
    BY <2>1 DEF EarnsRevenge, Earned, Engaged
  <2> QED BY <2>1, <2>2, <2>3 DEF Kept, EarnsRevenge, Earned
<1> QED BY <1>1, <1>2 DEF PlayEffect

(* A step that makes no revenge and issues no right but of a win. *)
LEMMA RightsKept ==
    ASSUME Contest, Rights,
           PlayEffect,
           \A n \in Takeovers :
             /\ revenge[n] = "CONSUMED" => revenge'[n] = "CONSUMED"
             /\ revenge'[n] # "NONE" => revenge[n] # "NONE" \/ Earned(takeover[n])
    PROVE  Rights'
<1>1. \A n \in Takeovers :
        /\ Kept(takeover'[n], takeover[n])
        /\ Earned(takeover[n]) => Earned(takeover'[n])
  BY EndedForGood
<1>2. \A n \in Takeovers : takeover[n].source \in Takeovers \cup {NoSource}
  BY DEF Contest, TakeoverTypeOK, TakeoverRecords
<1>3. RevengeIsOwed'
  <2> SUFFICES ASSUME NEW m \in Takeovers, takeover'[m].source # NoSource
               PROVE  /\ Earned(takeover'[takeover'[m].source])
                      /\ takeover'[m].challenger = takeover'[takeover'[m].source].defender
                      /\ takeover'[m].defender = takeover'[takeover'[m].source].challenger
                      /\ revenge'[takeover'[m].source] = "CONSUMED"
                      /\ \A n \in Takeovers : takeover'[n].source = takeover'[m].source => n = m
    BY DEF RevengeIsOwed, EarnsRevenge, Earned
  <2>1. takeover'[m].source = takeover[m].source /\ takeover[m].source \in Takeovers
    BY <1>1, <1>2 DEF Kept
  <2>2. /\ Earned(takeover[takeover[m].source])
        /\ takeover[m].challenger = takeover[takeover[m].source].defender
        /\ takeover[m].defender = takeover[takeover[m].source].challenger
        /\ revenge[takeover[m].source] = "CONSUMED"
        /\ \A n \in Takeovers : takeover[n].source = takeover[m].source => n = m
    BY <2>1 DEF Rights, RevengeIsOwed, EarnsRevenge, Earned
  <2> QED BY <1>1, <2>1, <2>2 DEF Kept
<1>4. \A m \in Takeovers : revenge'[m] # "NONE" => Earned(takeover'[m])
  BY <1>1 DEF Rights
<1> QED BY <1>3, <1>4 DEF Rights

(* A request, of a revenge or not. *)
LEMMA RightsRequested ==
    ASSUME Contest, Rights, NEW m \in Takeovers, NEW u \in Contenders, NEW v \in Contenders,
           NEW type, NEW source \in Takeovers \cup {NoSource}, NEW cost,
           Challenges(m, u, v, type, source, cost),
           \/ source = NoSource /\ UNCHANGED revenge
           \/ /\ source # NoSource /\ revenge[source] = "AVAILABLE" /\ Earned(takeover[source])
              /\ u = takeover[source].defender /\ v = takeover[source].challenger
              /\ revenge' = [revenge EXCEPT ![source] = "CONSUMED"]
    PROVE  Rights'
<1>1. /\ takeover'[m].source = source /\ takeover'[m].status = "MATCHED"
      /\ takeover'[m].challenger = u /\ takeover'[m].defender = v
      /\ \A n \in Takeovers : n # m => takeover'[n] = takeover[n]
  BY DEF Challenges, Contest, TakeoverTypeOK, NoTakeover
<1>2. \A n \in Takeovers : Earned(takeover[n]) => n # m /\ Earned(takeover'[n])
  BY <1>1 DEF Challenges, EarnsRevenge, Earned
<1>3. \A n \in Takeovers : takeover[n].source \in Takeovers \cup {NoSource}
  BY DEF Contest, TakeoverTypeOK, TakeoverRecords
<1>4. /\ \A n \in Takeovers : revenge[n] = "CONSUMED" => revenge'[n] = "CONSUMED"
      /\ \A n \in Takeovers : revenge'[n] # "NONE" => revenge[n] # "NONE"
      /\ source # NoSource => revenge'[source] = "CONSUMED" /\ revenge[source] # "CONSUMED"
  BY DEF Contest, TakeoverTypeOK
<1>5. RevengeIsOwed'
  <2> SUFFICES ASSUME NEW k \in Takeovers, takeover'[k].source # NoSource
               PROVE  /\ Earned(takeover'[takeover'[k].source])
                      /\ takeover'[k].challenger = takeover'[takeover'[k].source].defender
                      /\ takeover'[k].defender = takeover'[takeover'[k].source].challenger
                      /\ revenge'[takeover'[k].source] = "CONSUMED"
                      /\ \A n \in Takeovers : takeover'[n].source = takeover'[k].source => n = k
    BY DEF RevengeIsOwed, EarnsRevenge, Earned
  <2>0. \A n \in Takeovers : takeover[n].source # NoSource =>
          /\ takeover[n].source \in Takeovers
          /\ Earned(takeover[takeover[n].source])
          /\ takeover[n].challenger = takeover[takeover[n].source].defender
          /\ takeover[n].defender = takeover[takeover[n].source].challenger
          /\ revenge[takeover[n].source] = "CONSUMED"
          /\ \A j \in Takeovers : takeover[j].source = takeover[n].source => j = n
    BY <1>3 DEF Rights, RevengeIsOwed, EarnsRevenge, Earned
  <2>1. CASE k = m
    <3>1. source \in Takeovers /\ source # m /\ takeover'[source] = takeover[source]
      BY <1>1, <1>2, <2>1
    <3>2. \A n \in Takeovers : takeover'[n].source = source => n = m
      BY <1>1, <1>4, <2>0, <2>1
    <3> QED BY <1>1, <1>2, <1>4, <2>1, <3>1, <3>2
  <2>2. CASE k # m
    <3>1. takeover'[k] = takeover[k] /\ takeover[k].source \in Takeovers
      BY <1>1, <2>0, <2>2
    <3>2. takeover'[takeover[k].source] = takeover[takeover[k].source]
      BY <1>1, <1>2, <2>0, <3>1
    <3>3. source # takeover[k].source
      BY <1>4, <2>0, <3>1
    <3> QED BY <1>1, <1>2, <1>4, <2>0, <3>1, <3>2, <3>3
  <2> QED BY <2>1, <2>2
<1>6. \A n \in Takeovers : revenge'[n] # "NONE" => Earned(takeover'[n])
  BY <1>2, <1>4 DEF Rights
<1> QED BY <1>5, <1>6 DEF Rights

LEMMA RightsInit == TakeoverInit => Rights
BY DEF TakeoverInit, Rights, RevengeIsOwed, NoTakeover

(* Who changes a right: it is issued of a win, and it expires before it is consumed. *)
LEMMA RightChanges ==
    ASSUME Contest, OtherStep
    PROVE  \A n \in Takeovers :
             /\ revenge[n] \in {"CONSUMED", "EXPIRED"} => revenge'[n] = revenge[n]
             /\ revenge'[n] # "NONE" => revenge[n] # "NONE" \/ Earned(takeover[n])
<1>0. revenge \in [Takeovers -> {"NONE", "AVAILABLE", "EXPIRED", "CONSUMED"}]
  BY DEF Contest, TakeoverTypeOK
<1>1. ASSUME NEW m \in Takeovers, PlayStep(m) PROVE UNCHANGED revenge
  BY <1>1 DEF PlayStep, TimePasses, AcceptChallenge, RejectChallenge, Unlocks, StartMatch, HandIn
<1>2. ASSUME NEW m \in Takeovers, AuthorityStep(m) PROVE UNCHANGED revenge
  BY <1>2 DEF AuthorityStep, ChallengerNoShow, DefenderNoShow, HoldMatch, ResolveHeld,
              InvalidateHeld, SettleResolved, Unlocks, Settles
<1>3. ASSUME NEW m \in Takeovers, IssueRight(m)
      PROVE  \A n \in Takeovers :
               /\ revenge[n] \in {"CONSUMED", "EXPIRED"} => revenge'[n] = revenge[n]
               /\ revenge'[n] # "NONE" => revenge[n] # "NONE" \/ Earned(takeover[n])
  <2>1. Earned(takeover[m])
    BY <1>3 DEF IssueRight, EarnsRevenge, Earned
  <2>2. \A n \in Takeovers : n # m => revenge'[n] = revenge[n]
    BY <1>0, <1>3 DEF IssueRight
  <2>3. revenge[m] = "NONE" \/ revenge'[m] = revenge[m]
    BY <1>3 DEF IssueRight
  <2> QED BY <2>1, <2>2, <2>3
<1>4. ASSUME NEW m \in Takeovers, IssueNothing(m) PROVE UNCHANGED revenge
  BY <1>4 DEF IssueNothing
<1>5. ASSUME NEW m \in Takeovers, RightExpires(m)
      PROVE  \A n \in Takeovers :
               /\ revenge[n] \in {"CONSUMED", "EXPIRED"} => revenge'[n] = revenge[n]
               /\ revenge'[n] # "NONE" => revenge[n] # "NONE" \/ Earned(takeover[n])
  BY <1>0, <1>5 DEF RightExpires
<1>6. ASSUME NEW m \in Takeovers, NEW w \in Scorers, NEW r \in Roles, DeliveryStep(w, m, r)
      PROVE  UNCHANGED revenge
  BY <1>6 DEF DeliveryStep, ClaimIntentOf, SubmitAgain, SubmitResult, ResolveScored, SettleScored,
              Settles, PublishIntentOf, GiveUp, TryLater, DeliveryFails, EndsDelivery
<1>7. ASSUME NEW w \in Scorers, ScorerDies(w) PROVE UNCHANGED revenge
  BY <1>7 DEF ScorerDies
<1> QED BY <1>1, <1>2, <1>3, <1>4, <1>5, <1>6, <1>7 DEF OtherStep, RightStep

LEMMA RightsStep == Contest /\ Rights /\ [TakeoverNext]_takeoverVars => Rights'
<1> SUFFICES ASSUME Contest, Rights, [TakeoverNext]_takeoverVars PROVE Rights'
  OBVIOUS
<1>1. CASE UNCHANGED takeoverVars
  BY <1>1 DEF takeoverVars, Rights, RevengeIsOwed, EarnsRevenge
<1>2. CASE OtherStep
  BY <1>2, OtherEffect, RightChanges, RightsKept
<1>3. ASSUME NEW m \in Takeovers, NEW u \in Contenders, NEW v \in Contenders, RequestNormal(m, u, v)
      PROVE  Rights'
  BY <1>3, RightsRequested DEF RequestNormal
<1>4. ASSUME NEW m \in Takeovers, NEW s \in Takeovers, RequestRevenge(m, s)
      PROVE  Rights'
  <2>1. Earned(takeover[s]) /\ s # NoSource
    BY <1>4, BoundsAssumption DEF RequestRevenge, EarnsRevenge, Earned
  <2>2. takeover[s].defender \in Contenders /\ takeover[s].challenger \in Contenders
    BY <2>1 DEF Contest, Paired, Earned
  <2> QED BY <1>4, <2>1, <2>2, RightsRequested DEF RequestRevenge
<1> QED BY <1>1, <1>2, <1>3, <1>4 DEF TakeoverNext, OtherStep

(***************************************************************************)
(* A revenge is of who lost his seat, against who took it, and of one loss *)
(* there is one at most, however often the settled event is delivered and  *)
(* whether the right expires at the same time.                             *)
(***************************************************************************)
THEOREM RevengeOnce == TakeoverSpec => []RevengeIsOwed
<1>1. Rights => RevengeIsOwed
  BY DEF Rights
<1> QED BY <1>1, ContestHolds, RightsInit, RightsStep, PTL DEF TakeoverSpec

(***************************************************************************)
(* What has ended stays as it ended: no worker, authority or deadline      *)
(* writes to a match that is settled, invalid or cancelled, and a revenge  *)
(* right that is consumed or expired does not come back, however often the *)
(* settled event is delivered.                                             *)
(***************************************************************************)
EndedIsLeftAlone ==
    [][\A m \in Takeovers :
        /\ takeover[m].status \in {"SETTLED", "INVALID", "CANCELLED"} => takeover'[m] = takeover[m]
        /\ revenge[m] \in {"CONSUMED", "EXPIRED"} => revenge'[m] = revenge[m]]_takeoverVars

LEMMA EndedStep ==
    ASSUME Contest, [TakeoverNext]_takeoverVars, NEW n \in Takeovers
    PROVE  /\ takeover[n].status \in {"SETTLED", "INVALID", "CANCELLED"} => takeover'[n] = takeover[n]
           /\ revenge[n] \in {"CONSUMED", "EXPIRED"} => revenge'[n] = revenge[n]
<1>1. ASSUME takeover[n].status \in {"SETTLED", "INVALID", "CANCELLED"}
      PROVE  takeover'[n] = takeover[n]
  <2>1. CASE Stays
    BY <2>1 DEF Stays
  <2>2. ASSUME NEW m \in Takeovers, Advances(m) \/ Finishes(m) \/ Requested(m)
        PROVE  takeover'[n] = takeover[n]
    <3>1. \E t : takeover' = [takeover EXCEPT ![m] = t]
      <4>1. Advances(m) \/ Finishes(m) => \E t : takeover' = [takeover EXCEPT ![m] = t]
        BY Zenon DEF Advances, Finishes
      <4> QED BY <2>2, <4>1, RequestWrites
    <3>2. takeover[m].status \in Engaged \cup {"NONE"}
      <4>1. Advances(m) \/ Finishes(m) => takeover[m].status \in Engaged
        BY Zenon DEF Advances, Finishes
      <4> QED BY <2>2, <4>1, RequestWrites
    <3>3. n # m
      BY <1>1, <3>2 DEF Engaged
    <3> QED BY <3>1, <3>3 DEF Contest, TakeoverTypeOK
  <2> QED BY <2>1, <2>2, StepEffects DEF PlayEffect
<1>2. ASSUME revenge[n] \in {"CONSUMED", "EXPIRED"}
      PROVE  revenge'[n] = revenge[n]
  <2>1. CASE UNCHANGED takeoverVars
    BY <2>1 DEF takeoverVars
  <2>2. CASE OtherStep
    BY <1>2, <2>2, RightChanges
  <2>3. ASSUME NEW m \in Takeovers, NEW u \in Contenders, NEW v \in Contenders, RequestNormal(m, u, v)
        PROVE  revenge'[n] = revenge[n]
    BY <2>3 DEF RequestNormal
  <2>4. ASSUME NEW m \in Takeovers, NEW s \in Takeovers, RequestRevenge(m, s)
        PROVE  revenge'[n] = revenge[n]
    <3>1. s # n
      BY <1>2, <2>4 DEF RequestRevenge
    <3> QED BY <2>4, <3>1 DEF RequestRevenge, Contest, TakeoverTypeOK
  <2> QED BY <2>1, <2>2, <2>3, <2>4 DEF TakeoverNext, OtherStep
<1> QED BY <1>1, <1>2

\* A takeover that has ended is not touched again, by whatever worker or authority still
\* has it on hand, and a right of revenge that is used up or expired does not come back.
THEOREM TakeoversEndForGood == TakeoverSpec => EndedIsLeftAlone
<1>1. Contest /\ [TakeoverNext]_takeoverVars
        => [\A m \in Takeovers :
              /\ takeover[m].status \in {"SETTLED", "INVALID", "CANCELLED"}
                   => takeover'[m] = takeover[m]
              /\ revenge[m] \in {"CONSUMED", "EXPIRED"} => revenge'[m] = revenge[m]]_takeoverVars
  BY EndedStep
<1> QED BY <1>1, ContestHolds, PTL DEF TakeoverSpec, EndedIsLeftAlone

-----------------------------------------------------------------------------
(* Scoring: what a match, an intent and a worker say of one another. *)

(* The match was taken out of the hands of the scoring workers. *)
Upset(t) == t.held \/ t.reason = "CHALLENGER_NO_SHOW" \/ t.status \in {"INVALID", "CANCELLED"}
Complete == {"SUBMITTED", "RESOLVED", "SETTLED"}

Told(t, handed) ==
    /\ handed \subseteq t.started
    /\ t.started # {} => t.status \notin {"NONE", "MATCHED", "READY", "CANCELLED"}
    /\ t.status = "HELD" => t.held
    /\ t.reason = "CHALLENGER_NO_SHOW" => t.status \in {"RESOLVED", "SETTLED"}
    /\ t.status \in Complete /\ ~Upset(t) => t.results = Roles

Left(i, t, handed, r) ==
    /\ i.status # "NONE" => r \in handed
    /\ i.status = "PROCESSING" => i.lockedBy \in Scorers
    /\ i.status = "PUBLISHED" => r \in t.results
    /\ i.status = "DEAD" => i.tries >= MaxTries \/ Upset(t)

AtWork(next, t, i, r) ==
    /\ i.status # "NONE"
    /\ next \in {"RESOLVE", "SETTLE", "PUBLISH", "RETRY"} => r \in t.results
    /\ next = "RESOLVE" => t.status \in Complete \/ Upset(t)
    /\ next = "SETTLE" => t.status \in {"RESOLVED", "SETTLED"} \/ Upset(t)
    /\ next = "GIVE_UP" => Upset(t)

Story ==
    /\ \A m \in Takeovers : Told(takeover[m], handedIn[m])
    /\ \A m \in Takeovers, r \in Roles : Left(intent[m][r], takeover[m], handedIn[m], r)
    /\ \A w \in Scorers, m \in Takeovers, r \in Roles :
        Delivering(w, m, r) => AtWork(delivery[w].next, takeover[m], intent[m][r], r)

Scoring == Story /\ SomeoneSettles

(* What was true of a match for a worker, and still is. *)
Grows(t, s) ==
    \/ s.started = {}
    \/ /\ s.results \subseteq t.results
       /\ Upset(s) => Upset(t)
       /\ s.status \in Complete => t.status \in Complete \/ Upset(t)
       /\ s.status \in {"RESOLVED", "SETTLED"} => t.status \in {"RESOLVED", "SETTLED"} \/ Upset(t)

Awaits(t) ==
    t.status \in {"SUBMITTED", "RESOLVED"} /\ ~t.held /\ t.reason # "CHALLENGER_NO_SHOW"

LEMMA SomeoneSettlesAwaited ==
    SomeoneSettles <=> \A m \in Takeovers : Awaits(takeover[m]) => \E r \in Roles : WillSettle(m, r)
BY DEF SomeoneSettles, Awaits

(* The parts of the state, typed. *)
LEMMA ScoringTypes ==
    ASSUME Contest
    PROVE  /\ takeover \in [Takeovers -> TakeoverRecords]
           /\ handedIn \in [Takeovers -> SUBSET Roles]
           /\ intent \in [Takeovers -> [Roles -> IntentRecords]]
           /\ delivery \in [Scorers -> Deliveries]
BY DEF Contest, TakeoverTypeOK

(* A match that goes on while nothing is handed in and no worker moves. *)
LEMMA MatchGoesOn ==
    ASSUME Contest, Scoring, UNCHANGED <<handedIn, intent, delivery>>,
           NEW m \in Takeovers, NEW t, takeover' = [takeover EXCEPT ![m] = t],
           Grows(t, takeover[m]), Told(t, handedIn[m]), Awaits(t) => Awaits(takeover[m])
    PROVE  Scoring'
<1>1. takeover'[m] = t /\ \A n \in Takeovers : n # m => takeover'[n] = takeover[n]
  BY ScoringTypes
<1>2. ASSUME NEW r \in Roles PROVE Left(intent[m][r], t, handedIn[m], r)
  BY DEF Scoring, Story, Left, Told, Grows
<1>3. ASSUME NEW w \in Scorers, NEW r \in Roles, Delivering(w, m, r)
      PROVE  AtWork(delivery[w].next, t, intent[m][r], r)
  <2>1. /\ AtWork(delivery[w].next, takeover[m], intent[m][r], r)
        /\ Left(intent[m][r], takeover[m], handedIn[m], r)
        /\ Told(takeover[m], handedIn[m])
    BY <1>3 DEF Scoring, Story
  <2>2. takeover[m].started # {}
    BY <2>1 DEF AtWork, Left, Told
  <2> QED BY <2>1, <2>2 DEF AtWork, Grows
<1>4. Story'
  <2>1. \A n \in Takeovers : Told(takeover'[n], handedIn'[n])
    BY <1>1 DEF Scoring, Story
  <2>2. \A n \in Takeovers, r \in Roles : Left(intent'[n][r], takeover'[n], handedIn'[n], r)
    BY <1>1, <1>2 DEF Scoring, Story
  <2>3. \A w \in Scorers, n \in Takeovers, r \in Roles :
          delivery'[w].match = n /\ delivery'[w].role = r
            => AtWork(delivery'[w].next, takeover'[n], intent'[n][r], r)
    BY <1>1, <1>3 DEF Scoring, Story, Delivering
  <2> QED BY <2>1, <2>2, <2>3 DEF Story, Delivering
<1>5. SomeoneSettles'
  <2>1. ASSUME NEW n \in Takeovers, Awaits(takeover'[n])
        PROVE  \E r \in Roles : WillSettle(n, r)'
    <3>1. Awaits(takeover[n])
      BY <1>1, <2>1
    <3>2. PICK r \in Roles : WillSettle(n, r)
      BY <3>1, SomeoneSettlesAwaited DEF Scoring
    <3>3. WillSettle(n, r)'
      BY <3>2 DEF WillSettle, Delivering, TriedEnough
    <3> QED BY <3>3
  <2> QED BY <2>1 DEF SomeoneSettles, Awaits
<1> QED BY <1>4, <1>5 DEF Scoring

(* The record of a match of which only the status, or that and one thing more, changes. *)
LEMMA StatusFields ==
    ASSUME NEW s \in TakeoverRecords, NEW status
    PROVE  LET t == [s EXCEPT !.status = status] IN
           /\ t.status = status /\ t.started = s.started /\ t.results = s.results
           /\ t.held = s.held /\ t.reason = s.reason
BY DEF TakeoverRecords

LEMMA RequestScoring ==
    ASSUME Contest, Scoring, NEW m \in Takeovers, NEW u, NEW v, NEW type, NEW source, NEW cost,
           Challenges(m, u, v, type, source, cost)
    PROVE  Scoring'
<1> DEFINE t == [NoTakeover EXCEPT !.status = "MATCHED", !.challenger = u, !.defender = v,
                                   !.type = type, !.source = source, !.stake = cost,
                                   !.challengerBefore = seat[u], !.defenderBefore = seat[v]]
<1>1. t.status = "MATCHED" /\ t.started = {} /\ ~t.held /\ t.reason = "NONE"
  BY DEF NoTakeover
<1>2. takeover' = [takeover EXCEPT ![m] = t] /\ UNCHANGED <<handedIn, intent, delivery>>
  BY DEF Challenges, scoringVars
<1> HIDE DEF t
<1>3. takeover[m].started = {} /\ handedIn[m] = {}
  <2>1. takeover[m].status = "NONE" /\ Told(takeover[m], handedIn[m])
    BY DEF Challenges, Scoring, Story
  <2> QED BY <2>1 DEF Told
<1>4. Told(t, handedIn[m]) /\ Grows(t, takeover[m]) /\ ~Awaits(t)
  BY <1>1, <1>3 DEF Told, Grows, Awaits, Complete
<1> QED BY <1>2, <1>4, MatchGoesOn

LEMMA PlayScoring ==
    ASSUME Contest, Scoring, NEW m \in Takeovers,
           AcceptChallenge(m) \/ RejectChallenge(m) \/ \E r \in Roles : StartMatch(m, r)
    PROVE  Scoring'
<1>1. takeover[m] \in TakeoverRecords /\ Told(takeover[m], handedIn[m])
  BY ScoringTypes DEF Scoring, Story
<1>2. ASSUME NEW status \in {"READY", "CANCELLED"}, takeover[m].status = "MATCHED",
             takeover' = [takeover EXCEPT ![m].status = status],
             UNCHANGED <<handedIn, intent, delivery>>
      PROVE  Scoring'
  <2> DEFINE t == [takeover[m] EXCEPT !.status = status]
  <2>1. t.status = status /\ t.started = takeover[m].started /\ t.reason = takeover[m].reason
    BY <1>1, StatusFields
  <2>2. takeover' = [takeover EXCEPT ![m] = t]
    BY <1>2
  <2> HIDE DEF t
  <2>3. takeover[m].started = {} /\ takeover[m].reason # "CHALLENGER_NO_SHOW"
    BY <1>1, <1>2 DEF Told
  <2>4. Told(t, handedIn[m]) /\ Grows(t, takeover[m]) /\ ~Awaits(t)
    BY <1>1, <2>1, <2>3 DEF Told, Grows, Awaits, Complete
  <2> QED BY <1>2, <2>2, <2>4, MatchGoesOn
<1>3. CASE AcceptChallenge(m)
  BY <1>2, <1>3 DEF AcceptChallenge, scoringVars
<1>4. CASE RejectChallenge(m)
  BY <1>2, <1>4 DEF RejectChallenge, Unlocks, scoringVars
<1>5. ASSUME NEW r \in Roles, StartMatch(m, r) PROVE Scoring'
  <2> DEFINE t == [takeover[m] EXCEPT !.status = "IN_PROGRESS", !.started = @ \cup {r}]
  <2>1. /\ t.status = "IN_PROGRESS" /\ t.started = takeover[m].started \cup {r}
        /\ t.results = takeover[m].results /\ t.held = takeover[m].held
        /\ t.reason = takeover[m].reason
    BY <1>1 DEF TakeoverRecords
  <2>2. takeover' = [takeover EXCEPT ![m] = t] /\ UNCHANGED <<handedIn, intent, delivery>>
    BY <1>5 DEF StartMatch, scoringVars
  <2> HIDE DEF t
  <2>3. takeover[m].status \in {"READY", "IN_PROGRESS"}
    BY <1>5 DEF StartMatch
  <2>4. Told(t, handedIn[m]) /\ Grows(t, takeover[m]) /\ ~Awaits(t)
    BY <1>1, <2>1, <2>3 DEF Told, Grows, Awaits, Complete, Upset
  <2> QED BY <2>2, <2>4, MatchGoesOn
<1> QED BY <1>3, <1>4, <1>5

LEMMA AuthorityScoring ==
    ASSUME Contest, Scoring, NEW m \in Takeovers, AuthorityStep(m)
    PROVE  Scoring'
<1>1. takeover[m] \in TakeoverRecords /\ Told(takeover[m], handedIn[m])
  BY ScoringTypes DEF Scoring, Story
<1>2. CASE ChallengerNoShow(m)
  <2> DEFINE t == ResolvedAs(takeover[m], "DEFENDER", "CHALLENGER_NO_SHOW")
  <2>1. "DEFENDER" \in Roles \cup {"NONE"} /\ "CHALLENGER_NO_SHOW" \in Reasons
    BY RoleNames DEF Reasons
  <2>2. /\ t.status = "RESOLVED" /\ t.reason = "CHALLENGER_NO_SHOW"
        /\ t.started = takeover[m].started
    BY <1>1, <2>1, ResolvedRecord
  <2>3. takeover' = [takeover EXCEPT ![m] = t] /\ UNCHANGED <<handedIn, intent, delivery>>
    BY <1>2 DEF ChallengerNoShow, ResolvedAs, scoringVars
  <2> HIDE DEF t
  <2>5. t.results = takeover[m].results
    BY <1>1, <2>1, ResolvedRecord DEF t
  <2>6. Told(t, handedIn[m]) /\ Grows(t, takeover[m]) /\ ~Awaits(t)
    BY <1>1, <2>2, <2>5 DEF Told, Grows, Awaits, Upset
  <2> QED BY <2>3, <2>6, MatchGoesOn
<1>3. CASE HoldMatch(m)
  <2> DEFINE t == [takeover[m] EXCEPT !.status = "HELD", !.held = TRUE]
  <2>1. /\ t.status = "HELD" /\ t.held /\ t.started = takeover[m].started
        /\ t.results = takeover[m].results /\ t.reason = takeover[m].reason
    BY <1>1 DEF TakeoverRecords
  <2>2. takeover' = [takeover EXCEPT ![m] = t] /\ UNCHANGED <<handedIn, intent, delivery>>
    BY <1>3 DEF HoldMatch, scoringVars
  <2> HIDE DEF t
  <2>3. takeover[m].reason # "CHALLENGER_NO_SHOW"
    BY <1>1, <1>3 DEF HoldMatch, Told
  <2>4. Told(t, handedIn[m]) /\ Grows(t, takeover[m]) /\ ~Awaits(t)
    BY <1>1, <2>1, <2>3 DEF Told, Grows, Awaits, Upset, Complete
  <2> QED BY <2>2, <2>4, MatchGoesOn
<1>4. ASSUME NEW winner \in Roles, ResolveHeld(m, winner) PROVE Scoring'
  <2> DEFINE t == ResolvedAs(takeover[m], winner, "SCORED_RESULT")
  <2>1. winner \in Roles \cup {"NONE"} /\ "SCORED_RESULT" \in Reasons
    BY DEF Reasons
  <2>2. /\ t.status = "RESOLVED" /\ t.reason = "SCORED_RESULT" /\ t.held = takeover[m].held
        /\ t.started = takeover[m].started /\ t.results = takeover[m].results
    BY <1>1, <2>1, ResolvedRecord
  <2>3. takeover' = [takeover EXCEPT ![m] = t] /\ UNCHANGED <<handedIn, intent, delivery>>
    BY <1>4 DEF ResolveHeld, ResolvedAs, scoringVars
  <2> HIDE DEF t
  <2>4. takeover[m].held /\ takeover[m].status = "HELD"
    BY <1>1, <1>4 DEF ResolveHeld, Told
  <2>5. Told(t, handedIn[m]) /\ Grows(t, takeover[m]) /\ ~Awaits(t)
    BY <1>1, <2>2, <2>4 DEF Told, Grows, Awaits, Upset
  <2> QED BY <2>3, <2>5, MatchGoesOn
<1>5. ASSUME NEW status \in {"INVALID", "SETTLED"},
             takeover' = [takeover EXCEPT ![m].status = status],
             takeover[m].status \in {"MATCHED", "READY", "IN_PROGRESS", "HELD"} \/ status = "SETTLED",
             status = "SETTLED" => takeover[m].status = "RESOLVED",
             UNCHANGED <<handedIn, intent, delivery>>
      PROVE  Scoring'
  <2> DEFINE t == [takeover[m] EXCEPT !.status = status]
  <2>1. /\ t.status = status /\ t.started = takeover[m].started
        /\ t.results = takeover[m].results /\ t.held = takeover[m].held
        /\ t.reason = takeover[m].reason
    BY <1>1, StatusFields
  <2>2. takeover' = [takeover EXCEPT ![m] = t]
    BY <1>5
  <2> HIDE DEF t
  <2>3. Told(t, handedIn[m]) /\ Grows(t, takeover[m]) /\ ~Awaits(t)
    BY <1>1, <1>5, <2>1 DEF Told, Grows, Awaits, Upset, Complete
  <2> QED BY <1>5, <2>2, <2>3, MatchGoesOn
<1>6. CASE DefenderNoShow(m) \/ InvalidateHeld(m)
  BY <1>5, <1>6 DEF DefenderNoShow, InvalidateHeld, Unlocks, scoringVars
<1>7. CASE SettleResolved(m)
  BY <1>5, <1>7 DEF SettleResolved, MaySettle, Settles, scoringVars
<1> QED BY <1>2, <1>3, <1>4, <1>6, <1>7 DEF AuthorityStep

(* Steps that touch none of it. *)
LEMMA ScoringUntouched ==
    ASSUME Scoring, UNCHANGED <<takeover, handedIn, intent, delivery>>
    PROVE  Scoring'
<1>1. Story'
  BY DEF Scoring, Story, Delivering
<1>2. SomeoneSettles'
  BY DEF Scoring, SomeoneSettles, WillSettle, Delivering, TriedEnough
<1> QED BY <1>1, <1>2 DEF Scoring

(* Somebody hands in: there was no intent for it, and now one waits. *)
LEMMA HandInScoring ==
    ASSUME Contest, Scoring, NEW m \in Takeovers, NEW r \in Roles, HandIn(m, r)
    PROVE  Scoring'
<1>1. /\ takeover' = takeover /\ delivery' = delivery
      /\ handedIn' = [handedIn EXCEPT ![m] = @ \cup {r}]
      /\ r \in takeover[m].started /\ r \notin handedIn[m]
  BY DEF HandIn
<1> DEFINE i == [intent[m][r] EXCEPT !.status = "PENDING"]
<1>2. i.status = "PENDING" /\ i.tries = intent[m][r].tries
  BY ScoringTypes DEF IntentRecords
<1>3. intent' = [intent EXCEPT ![m] = [intent[m] EXCEPT ![r] = i]]
  BY DEF HandIn
<1> HIDE DEF i
<1>4. /\ intent'[m][r] = i
      /\ \A n \in Takeovers, k \in Roles : <<n, k>> # <<m, r>> => intent'[n][k] = intent[n][k]
  BY <1>3, ScoringTypes
<1>5. /\ handedIn'[m] = handedIn[m] \cup {r}
      /\ \A n \in Takeovers : n # m => handedIn'[n] = handedIn[n]
  BY <1>1, ScoringTypes
<1>6. intent[m][r].status = "NONE"
  BY <1>1 DEF Scoring, Story, Left
<1>7. Story'
  <2>1. \A n \in Takeovers : Told(takeover'[n], handedIn'[n])
    BY <1>1, <1>5 DEF Scoring, Story, Told
  <2>2. \A n \in Takeovers, k \in Roles : Left(intent'[n][k], takeover'[n], handedIn'[n], k)
    BY <1>1, <1>2, <1>4, <1>5 DEF Scoring, Story, Left
  <2>3. \A w \in Scorers, n \in Takeovers, k \in Roles :
          delivery'[w].match = n /\ delivery'[w].role = k
            => AtWork(delivery'[w].next, takeover'[n], intent'[n][k], k)
    BY <1>1, <1>4, <1>6 DEF Scoring, Story, Delivering, AtWork
  <2> QED BY <2>1, <2>2, <2>3 DEF Story, Delivering
<1>8. SomeoneSettles'
  <2>1. ASSUME NEW n \in Takeovers, Awaits(takeover'[n])
        PROVE  \E k \in Roles : WillSettle(n, k)'
    <3>1. PICK k \in Roles : WillSettle(n, k)
      BY <1>1, <2>1, SomeoneSettlesAwaited DEF Scoring
    <3>2. CASE n = m /\ k = r
      BY <1>2, <1>4, <3>2 DEF WillSettle
    <3>3. CASE ~(n = m /\ k = r)
      <4>1. intent'[n][k] = intent[n][k]
        BY <1>4, <3>3
      <4> QED BY <1>1, <3>1, <4>1 DEF WillSettle, Delivering, TriedEnough
    <3> QED BY <3>2, <3>3
  <2> QED BY <2>1 DEF SomeoneSettles, Awaits
<1> QED BY <1>7, <1>8 DEF Scoring

(* A worker goes on to what comes next, and the match may move with it. *)
LEMMA WorkerGoesOn ==
    ASSUME Contest, Scoring, NEW w \in Scorers, NEW m \in Takeovers, NEW r \in Roles,
           Delivering(w, m, r), NEW next, Proceeds(w, next), UNCHANGED <<handedIn, intent>>,
           NEW t, takeover' = [takeover EXCEPT ![m] = t],
           Grows(t, takeover[m]), Told(t, handedIn[m]), AtWork(next, t, intent[m][r], r),
           Awaits(t) => /\ Awaits(takeover[m]) \/ WillSettle(m, r)
                        /\ next \notin {"PUBLISH", "GIVE_UP"}
    PROVE  Scoring'
<1>1. takeover'[m] = t /\ \A n \in Takeovers : n # m => takeover'[n] = takeover[n]
  BY ScoringTypes
<1>2. /\ delivery'[w].next = next /\ delivery'[w].match = m /\ delivery'[w].role = r
      /\ \A v \in Scorers : v # w => delivery'[v] = delivery[v]
      /\ \A v \in Scorers : delivery'[v].match = delivery[v].match
                            /\ delivery'[v].role = delivery[v].role
  <2> DEFINE q == [delivery[w] EXCEPT !.next = next]
  <2>1. q.next = next /\ q.match = m /\ q.role = r
    BY ScoringTypes DEF Deliveries, Delivering
  <2>2. delivery' = [delivery EXCEPT ![w] = q]
    BY DEF Proceeds
  <2> HIDE DEF q
  <2> QED BY <2>1, <2>2, ScoringTypes DEF Delivering
<1>3. ASSUME NEW k \in Roles PROVE Left(intent[m][k], t, handedIn[m], k)
  BY DEF Scoring, Story, Left, Told, Grows
<1>4. ASSUME NEW v \in Scorers, NEW k \in Roles, Delivering(v, m, k)
      PROVE  AtWork(delivery[v].next, t, intent[m][k], k)
  <2>1. /\ AtWork(delivery[v].next, takeover[m], intent[m][k], k)
        /\ Left(intent[m][k], takeover[m], handedIn[m], k)
        /\ Told(takeover[m], handedIn[m])
    BY <1>4 DEF Scoring, Story
  <2>2. takeover[m].started # {}
    BY <2>1 DEF AtWork, Left, Told
  <2> QED BY <2>1, <2>2 DEF AtWork, Grows
<1>5. Story'
  <2>1. \A n \in Takeovers : Told(takeover'[n], handedIn'[n])
    BY <1>1 DEF Scoring, Story
  <2>2. \A n \in Takeovers, k \in Roles : Left(intent'[n][k], takeover'[n], handedIn'[n], k)
    BY <1>1, <1>3 DEF Scoring, Story
  <2>3. ASSUME NEW v \in Scorers, NEW n \in Takeovers, NEW k \in Roles,
               delivery'[v].match = n, delivery'[v].role = k
        PROVE  AtWork(delivery'[v].next, takeover'[n], intent'[n][k], k)
    <3>1. CASE v = w
      BY <1>1, <1>2, <2>3, <3>1
    <3>2. CASE v # w /\ n = m
      BY <1>1, <1>2, <1>4, <2>3, <3>2 DEF Delivering
    <3>3. CASE v # w /\ n # m
      BY <1>1, <1>2, <2>3, <3>3 DEF Scoring, Story, Delivering
    <3> QED BY <3>1, <3>2, <3>3
  <2> QED BY <2>1, <2>2, <2>3 DEF Story, Delivering
<1>6. SomeoneSettles'
  <2>1. ASSUME NEW n \in Takeovers, Awaits(takeover'[n])
        PROVE  \E k \in Roles : WillSettle(n, k)'
    <3>1. PICK k \in Roles : WillSettle(n, k)
      <4>1. CASE n = m /\ WillSettle(m, r)
        BY <4>1
      <4>2. CASE ~(n = m /\ WillSettle(m, r))
        BY <1>1, <2>1, <4>2, SomeoneSettlesAwaited DEF Scoring
      <4> QED BY <4>1, <4>2
    <3> DEFINE j == intent[n][k]
    <3>2. CASE j.status = "PENDING" \/ TriedEnough(n, k)
      BY <3>2 DEF WillSettle, TriedEnough
    <3>3. CASE j.status = "PROCESSING" /\ ~Delivering(j.lockedBy, n, k)
      <4>1. j.lockedBy # w \/ <<n, k>> # <<m, r>>
        BY <3>3
      <4>2. ~Delivering(j.lockedBy, n, k)'
        <5>1. CASE j.lockedBy = w
          BY <1>2, <4>1, <5>1 DEF Delivering
        <5>2. CASE j.lockedBy # w
          BY <3>3, <5>2 DEF Delivering, Proceeds
        <5> QED BY <5>1, <5>2
      <4> QED BY <3>3, <4>2 DEF WillSettle
    <3>4. CASE /\ j.status = "PROCESSING"
               /\ delivery[j.lockedBy].next \notin {"PUBLISH", "GIVE_UP"}
               /\ Delivering(j.lockedBy, n, k)
      <4>1. CASE j.lockedBy = w
        <5>1. n = m
          BY <3>4, <4>1 DEF Delivering
        <5>2. next \notin {"PUBLISH", "GIVE_UP"}
          BY <1>1, <2>1, <5>1
        <5> QED BY <1>2, <3>4, <4>1, <5>2 DEF WillSettle
      <4>2. CASE j.lockedBy # w
        <5>1. delivery'[j.lockedBy] = delivery[j.lockedBy]
          BY <4>2 DEF Proceeds
        <5> QED BY <3>4, <5>1 DEF WillSettle
      <4> QED BY <4>1, <4>2
    <3> QED BY <3>1, <3>2, <3>3, <3>4 DEF WillSettle
  <2> QED BY <2>1 DEF SomeoneSettles, Awaits
<1> QED BY <1>5, <1>6 DEF Scoring

(* What a worker at a match knows when it is about to do something. *)
LEMMA WorkerKnows ==
    ASSUME Contest, Scoring, NEW w \in Scorers, NEW m \in Takeovers, NEW r \in Roles, NEW next,
           Is(w, m, r, next)
    PROVE  /\ Delivering(w, m, r) /\ delivery[w].next = next
           /\ AtWork(next, takeover[m], intent[m][r], r)
           /\ Left(intent[m][r], takeover[m], handedIn[m], r)
           /\ Told(takeover[m], handedIn[m])
           /\ takeover[m].status \notin {"NONE", "MATCHED", "READY", "CANCELLED"}
           /\ takeover[m] \in TakeoverRecords
           /\ takeover = [takeover EXCEPT ![m] = takeover[m]]
<1>1. Delivering(w, m, r) /\ delivery[w].next = next
  BY DEF Is, Delivering
<1>2. /\ AtWork(next, takeover[m], intent[m][r], r)
      /\ Left(intent[m][r], takeover[m], handedIn[m], r)
      /\ Told(takeover[m], handedIn[m])
  BY <1>1 DEF Scoring, Story
<1>3. takeover[m].status \notin {"NONE", "MATCHED", "READY", "CANCELLED"}
  BY <1>2 DEF AtWork, Left, Told
<1> QED BY <1>1, <1>2, <1>3, ScoringTypes

(* Without a result of his the intent of a participant is not done with. *)
LEMMA WithoutResult ==
    ASSUME Contest, Scoring, NEW w \in Scorers, NEW m \in Takeovers, NEW r \in Roles,
           Is(w, m, r, "SUBMIT"), r \notin takeover[m].results, ~Upset(takeover[m])
    PROVE  WillSettle(m, r)
<1> DEFINE i == intent[m][r]
<1>1. i \in IntentRecords
  BY ScoringTypes
<1>2. /\ i.status # "NONE" /\ i.status # "PUBLISHED"
      /\ i.status = "DEAD" => i.tries >= MaxTries
      /\ i.status = "PROCESSING" => i.lockedBy \in Scorers
  BY WorkerKnows DEF AtWork, Left
<1>3. CASE i.status = "PROCESSING" /\ Delivering(i.lockedBy, m, r)
  <2>1. i.lockedBy \in Scorers
    BY <1>2, <1>3
  <2>2. AtWork(delivery[i.lockedBy].next, takeover[m], i, r)
    BY <1>3, <2>1 DEF Scoring, Story
  <2>3. delivery[i.lockedBy].next \notin {"PUBLISH", "GIVE_UP"}
    BY <2>2 DEF AtWork
  <2> QED BY <1>3, <2>3 DEF WillSettle
<1>4. CASE ~(i.status = "PROCESSING" /\ Delivering(i.lockedBy, m, r))
  BY <1>1, <1>2, <1>4 DEF WillSettle, TriedEnough, IntentRecords
<1> QED BY <1>3, <1>4

LEMMA SubmitAgainScoring ==
    ASSUME Contest, Scoring, NEW w \in Scorers, NEW m \in Takeovers, NEW r \in Roles,
           SubmitAgain(w, m, r)
    PROVE  Scoring'
<1> DEFINE t == takeover[m]
           next == AfterStatus(t.status)
<1>1. Is(w, m, r, "SUBMIT") /\ r \in t.results /\ Proceeds(w, next)
      /\ takeover' = takeover /\ UNCHANGED <<handedIn, intent>>
  BY DEF SubmitAgain
<1>2. /\ Delivering(w, m, r) /\ intent[m][r].status # "NONE" /\ Told(t, handedIn[m])
      /\ t.status \in {"IN_PROGRESS", "SUBMITTED", "HELD", "RESOLVED", "SETTLED", "INVALID"}
      /\ takeover = [takeover EXCEPT ![m] = t]
  BY <1>1, WorkerKnows DEF AtWork, TakeoverRecords, Engaged
<1>3. t.status \in {"HELD", "INVALID"} => Upset(t)
  BY <1>2 DEF Told, Upset
<1>4. AtWork(next, t, intent[m][r], r)
  BY <1>1, <1>2, <1>3 DEF AtWork, AfterStatus, Complete
<1>5. Awaits(t) => next \notin {"PUBLISH", "GIVE_UP"}
  BY DEF Awaits, AfterStatus
<1>6. Grows(t, t)
  BY DEF Grows
<1> HIDE DEF t, next
<1> QED BY <1>1, <1>2, <1>4, <1>5, <1>6, WorkerGoesOn DEF t

LEMMA SubmitResultScoring ==
    ASSUME Contest, Scoring, NEW w \in Scorers, NEW m \in Takeovers, NEW r \in Roles,
           SubmitResult(w, m, r)
    PROVE  Scoring'
<1>1. Is(w, m, r, "SUBMIT") /\ r \notin takeover[m].results /\ UNCHANGED <<handedIn, intent>>
  BY DEF SubmitResult
<1>2. /\ Delivering(w, m, r) /\ intent[m][r].status # "NONE" /\ Told(takeover[m], handedIn[m])
      /\ takeover[m].status \in {"IN_PROGRESS", "SUBMITTED", "HELD", "RESOLVED", "SETTLED", "INVALID"}
      /\ takeover[m] \in TakeoverRecords
      /\ takeover = [takeover EXCEPT ![m] = takeover[m]]
  BY <1>1, WorkerKnows DEF AtWork, TakeoverRecords, Engaged
<1>3. CASE takeover[m].status # "IN_PROGRESS"
  <2>1. Proceeds(w, "GIVE_UP") /\ takeover' = takeover
    BY <1>1, <1>3 DEF SubmitResult
  <2>2. Upset(takeover[m])
    BY <1>1, <1>2, <1>3 DEF Told, Upset, Complete
  <2>3. AtWork("GIVE_UP", takeover[m], intent[m][r], r)
    BY <1>2, <2>2 DEF AtWork
  <2>4. ~Awaits(takeover[m]) /\ Grows(takeover[m], takeover[m])
    BY <2>2 DEF Upset, Awaits, Grows
  <2> QED BY <1>1, <1>2, <2>1, <2>3, <2>4, WorkerGoesOn
<1>4. CASE takeover[m].status = "IN_PROGRESS"
  <2> DEFINE results == takeover[m].results \cup {r}
  <2>1. CASE results = Roles
    <3>1. PICK verdict \in {"CHALLENGER", "DEFENDER", "TIE"} :
            takeover' = [takeover EXCEPT ![m].results = results, ![m].status = "SUBMITTED",
                                         ![m].verdict = verdict]
      BY <1>4, <2>1 DEF SubmitResult
    <3> DEFINE t == [takeover[m] EXCEPT !.results = results, !.status = "SUBMITTED",
                                        !.verdict = verdict]
    <3>2. /\ t.status = "SUBMITTED" /\ t.results = results /\ t.started = takeover[m].started
          /\ t.held = takeover[m].held /\ t.reason = takeover[m].reason
      BY <1>2 DEF TakeoverRecords
    <3>3. takeover' = [takeover EXCEPT ![m] = t]
      BY <3>1
    <3>4. Proceeds(w, "RESOLVE")
      BY <1>4, <2>1 DEF SubmitResult
    <3> HIDE DEF t
    <3>5. Told(t, handedIn[m]) /\ Grows(t, takeover[m]) /\ AtWork("RESOLVE", t, intent[m][r], r)
      BY <1>2, <1>4, <2>1, <3>2 DEF Told, Grows, AtWork, Upset, Complete
    <3>6. Awaits(t) => ~Upset(takeover[m])
      BY <1>4, <3>2 DEF Awaits, Upset
    <3>7. Awaits(t) => WillSettle(m, r)
      BY <1>1, <3>6, WithoutResult
    <3> QED BY <1>1, <1>2, <3>3, <3>4, <3>5, <3>7, WorkerGoesOn
  <2>2. CASE results # Roles
    <3> DEFINE t == [takeover[m] EXCEPT !.results = results]
    <3>1. /\ t.status = "IN_PROGRESS" /\ t.results = results /\ t.started = takeover[m].started
          /\ t.held = takeover[m].held /\ t.reason = takeover[m].reason
      BY <1>2, <1>4 DEF TakeoverRecords
    <3>2. takeover' = [takeover EXCEPT ![m] = t] /\ Proceeds(w, "PUBLISH")
      BY <1>4, <2>2 DEF SubmitResult
    <3> HIDE DEF t
    <3>3. /\ Told(t, handedIn[m]) /\ Grows(t, takeover[m]) /\ ~Awaits(t)
          /\ AtWork("PUBLISH", t, intent[m][r], r)
      BY <1>2, <1>4, <3>1 DEF Told, Grows, AtWork, Upset, Complete, Awaits
    <3> QED BY <1>1, <1>2, <3>2, <3>3, WorkerGoesOn
  <2> QED BY <2>1, <2>2
<1> QED BY <1>3, <1>4

LEMMA ResolveScoring ==
    ASSUME Contest, Scoring, NEW w \in Scorers, NEW m \in Takeovers, NEW r \in Roles,
           ResolveScored(w, m, r)
    PROVE  Scoring'
<1>1. Is(w, m, r, "RESOLVE") /\ UNCHANGED <<handedIn, intent>>
  BY DEF ResolveScored
<1>2. /\ Delivering(w, m, r) /\ intent[m][r].status # "NONE" /\ Told(takeover[m], handedIn[m])
      /\ r \in takeover[m].results
      /\ takeover[m].status \in Complete \/ Upset(takeover[m])
      /\ takeover[m] \in TakeoverRecords
      /\ takeover = [takeover EXCEPT ![m] = takeover[m]]
  BY <1>1, WorkerKnows DEF AtWork
<1>3. CASE takeover[m].status = "SUBMITTED" /\ takeover[m].verdict # "TIE"
  <2>1. PICK verdict \in Roles \cup {"NONE"} : verdict = takeover[m].verdict
    BY <1>2, <1>3 DEF TakeoverRecords
  <2> DEFINE t == ResolvedAs(takeover[m], verdict, "SCORED_RESULT")
  <2>0. takeover[m] \in TakeoverRecords
    BY <1>2
  <2>2. /\ t.status = "RESOLVED" /\ t.reason = "SCORED_RESULT" /\ t.held = takeover[m].held
        /\ t.started = takeover[m].started /\ t.results = takeover[m].results
    BY <2>0, ResolvedRecord DEF Reasons
  <2>3. takeover' = [takeover EXCEPT ![m] = t] /\ Proceeds(w, "SETTLE")
    BY <1>3, <2>1 DEF ResolveScored, ResolvedAs
  <2> HIDE DEF t
  <2>4. /\ Told(t, handedIn[m]) /\ Grows(t, takeover[m])
        /\ AtWork("SETTLE", t, intent[m][r], r)
        /\ Awaits(t) => Awaits(takeover[m])
    BY <1>2, <1>3, <2>2 DEF Told, Grows, AtWork, Upset, Complete, Awaits
  <2> QED BY <1>1, <1>2, <2>3, <2>4, WorkerGoesOn
<1>4. CASE ~(takeover[m].status = "SUBMITTED" /\ takeover[m].verdict # "TIE")
  <2> DEFINE t == takeover[m]
             next == CASE t.status = "SUBMITTED" -> "RETRY"
                       [] t.status \in {"RESOLVED", "SETTLED"} -> AfterStatus(t.status)
                       [] OTHER -> "GIVE_UP"
  <2>1. takeover' = takeover /\ Proceeds(w, next)
    BY <1>4 DEF ResolveScored
  <2>2. AtWork(next, t, intent[m][r], r)
    <3>1. CASE t.status = "SUBMITTED"
      BY <1>2, <3>1 DEF AtWork
    <3>2. CASE t.status \in {"RESOLVED", "SETTLED"}
      <4>1. next \in {"SETTLE", "PUBLISH"}
        BY <3>2 DEF AfterStatus
      <4> QED BY <1>2, <3>2, <4>1 DEF AtWork
    <3>3. CASE t.status \notin Complete
      <4>1. next = "GIVE_UP" /\ Upset(t)
        BY <1>2, <3>3 DEF Complete
      <4> QED BY <1>2, <4>1 DEF AtWork
    <3> QED BY <3>1, <3>2, <3>3 DEF Complete
  <2>3. Awaits(t) => next \notin {"PUBLISH", "GIVE_UP"}
    BY DEF Awaits, AfterStatus
  <2>4. Grows(t, t)
    BY DEF Grows
  <2> HIDE DEF t, next
  <2> QED BY <1>1, <1>2, <2>1, <2>2, <2>3, <2>4, WorkerGoesOn DEF t
<1> QED BY <1>3, <1>4

(* A worker that finds the match resolved can settle it: the seats and the balance are as they were. *)
LEMMA SettleScoring ==
    ASSUME Contest, Scoring, NEW w \in Scorers, NEW m \in Takeovers, NEW r \in Roles,
           SettleScored(w, m, r)
    PROVE  Scoring'
<1>1. Is(w, m, r, "SETTLE") /\ UNCHANGED <<handedIn, intent>>
  BY DEF SettleScored
<1>2. /\ Delivering(w, m, r) /\ intent[m][r].status # "NONE" /\ Told(takeover[m], handedIn[m])
      /\ r \in takeover[m].results
      /\ takeover[m].status \in {"RESOLVED", "SETTLED"} \/ Upset(takeover[m])
      /\ takeover[m] \in TakeoverRecords
      /\ takeover = [takeover EXCEPT ![m] = takeover[m]]
  BY <1>1, WorkerKnows DEF AtWork
<1>3. CASE MaySettle(m)
  <2> DEFINE t == [takeover[m] EXCEPT !.status = "SETTLED"]
  <2>1. /\ t.status = "SETTLED" /\ t.started = takeover[m].started
        /\ t.results = takeover[m].results /\ t.held = takeover[m].held
        /\ t.reason = takeover[m].reason
    BY <1>2, StatusFields
  <2>2. takeover' = [takeover EXCEPT ![m] = t] /\ Proceeds(w, "PUBLISH")
    BY <1>3 DEF SettleScored, Settles
  <2> HIDE DEF t
  <2>3. takeover[m].status = "RESOLVED"
    BY <1>3 DEF MaySettle
  <2>4. /\ Told(t, handedIn[m]) /\ Grows(t, takeover[m]) /\ ~Awaits(t)
        /\ AtWork("PUBLISH", t, intent[m][r], r)
    BY <1>2, <2>1, <2>3 DEF Told, Grows, AtWork, Upset, Complete, Awaits
  <2> QED BY <1>1, <1>2, <2>2, <2>4, WorkerGoesOn
<1>4. CASE ~MaySettle(m)
  <2> DEFINE next == IF takeover[m].status = "SETTLED" THEN "PUBLISH" ELSE "GIVE_UP"
  <2>1. takeover' = takeover /\ Proceeds(w, next)
    BY <1>4 DEF SettleScored
  <2>2. takeover[m].status # "RESOLVED"
    <3>1. SUFFICES ASSUME takeover[m].status = "RESOLVED" PROVE FALSE
      OBVIOUS
    <3>2. IsEngaged(m) /\ takeover[m].challenger \in Contenders
      BY <3>1 DEF Contest, Paired, IsEngaged, Engaged
    <3>3. /\ seat[takeover[m].challenger] = takeover[m].challengerBefore
          /\ seat[takeover[m].defender] = takeover[m].defenderBefore
      BY <3>2 DEF Contest, BaselinesHold
    <3>4. stakedDays[takeover[m].challenger] = takeover[m].stake /\ takeover[m].stake \in Nat
      BY <3>2, <1>2 DEF Contest, LockedIsStaked, TakeoverRecords
    <3> QED BY <1>4, <3>1, <3>3, <3>4 DEF MaySettle
  <2>3. AtWork(next, takeover[m], intent[m][r], r)
    BY <1>2, <2>2 DEF AtWork
  <2>4. Awaits(takeover[m]) => next \notin {"PUBLISH", "GIVE_UP"}
    <3>1. ~Awaits(takeover[m])
      BY <1>2, <2>2 DEF Awaits, Upset
    <3> QED BY <3>1
  <2>5. Grows(takeover[m], takeover[m])
    BY DEF Grows
  <2> HIDE DEF next
  <2> QED BY <1>1, <1>2, <2>1, <2>3, <2>4, <2>5, WorkerGoesOn
<1> QED BY <1>3, <1>4

(* Claims, and what becomes of the intent in the end. *)

LEMMA ClaimScoring ==
    ASSUME Contest, Scoring, NEW w \in Scorers, NEW m \in Takeovers, NEW r \in Roles,
           ClaimIntentOf(w, m, r)
    PROVE  Scoring'
<1> DEFINE i == [status |-> "PROCESSING", lockedBy |-> w,
                 tries |-> IF intent[m][r].tries < MaxTries THEN intent[m][r].tries + 1
                           ELSE MaxTries]
           q == [match |-> m, role |-> r, next |-> "SUBMIT"]
<1>1. /\ i.status = "PROCESSING" /\ i.lockedBy = w
      /\ q.match = m /\ q.role = r /\ q.next = "SUBMIT"
  OBVIOUS
<1>2. /\ intent' = [intent EXCEPT ![m] = [intent[m] EXCEPT ![r] = i]]
      /\ delivery' = [delivery EXCEPT ![w] = q]
      /\ UNCHANGED <<takeover, handedIn>>
      /\ delivery[w] = AtLeisure /\ intent[m][r].status \in {"PENDING", "PROCESSING"}
  BY DEF ClaimIntentOf
<1> HIDE DEF i, q
<1>3. /\ intent'[m][r] = i /\ delivery'[w] = q
      /\ \A n \in Takeovers, k \in Roles : <<n, k>> # <<m, r>> => intent'[n][k] = intent[n][k]
      /\ \A v \in Scorers : v # w => delivery'[v] = delivery[v]
  BY <1>2, ScoringTypes
<1>4. Story'
  <2>1. \A n \in Takeovers : Told(takeover'[n], handedIn'[n])
    BY <1>2 DEF Scoring, Story
  <2>2. \A n \in Takeovers, k \in Roles : Left(intent'[n][k], takeover'[n], handedIn'[n], k)
    BY <1>1, <1>2, <1>3 DEF Scoring, Story, Left
  <2>3. ASSUME NEW v \in Scorers, NEW n \in Takeovers, NEW k \in Roles,
               delivery'[v].match = n, delivery'[v].role = k
        PROVE  AtWork(delivery'[v].next, takeover'[n], intent'[n][k], k)
    <3>1. CASE v = w
      BY <1>1, <1>3, <2>3, <3>1 DEF AtWork
    <3>2. CASE v # w
      <4>1. AtWork(delivery[v].next, takeover[n], intent[n][k], k) /\ delivery'[v] = delivery[v]
        BY <1>3, <2>3, <3>2 DEF Scoring, Story, Delivering
      <4> QED BY <1>1, <1>2, <1>3, <4>1 DEF AtWork
    <3> QED BY <3>1, <3>2
  <2> QED BY <2>1, <2>2, <2>3 DEF Story, Delivering
<1>5. SomeoneSettles'
  <2>1. ASSUME NEW n \in Takeovers, Awaits(takeover'[n])
        PROVE  \E k \in Roles : WillSettle(n, k)'
    <3>1. PICK k \in Roles : WillSettle(n, k)
      BY <1>2, <2>1, SomeoneSettlesAwaited DEF Scoring
    <3>2. CASE n = m /\ k = r
      BY <1>1, <1>3, <3>2 DEF WillSettle
    <3>3. CASE ~(n = m /\ k = r)
      <4>1. intent'[n][k] = intent[n][k]
        BY <1>3, <3>3
      <4>2. CASE intent[n][k].lockedBy = w
        <5>1. ~Delivering(w, n, k)'
          BY <1>1, <1>3, <3>3 DEF Delivering
        <5> QED BY <3>1, <4>1, <4>2, <5>1 DEF WillSettle, TriedEnough
      <4>3. CASE intent[n][k].lockedBy # w
        <5>1. delivery'[intent[n][k].lockedBy] = delivery[intent[n][k].lockedBy]
          BY <1>2, <4>3
        <5> QED BY ZenonT(60), <3>1, <4>1, <5>1 DEF WillSettle, Delivering, TriedEnough
      <4> QED BY <4>2, <4>3
    <3> QED BY <3>2, <3>3
  <2> QED BY <2>1 DEF SomeoneSettles, Awaits
<1> QED BY <1>4, <1>5 DEF Scoring

(* A worker that leaves a match behind, with the intent as it was or in a status that fits. *)
LEMMA WorkerLeaves ==
    ASSUME Contest, Scoring, NEW w \in Scorers, NEW m \in Takeovers, NEW r \in Roles,
           Rest(w), UNCHANGED <<takeover, handedIn>>,
           NEW i, i.tries = intent[m][r].tries, i.lockedBy = intent[m][r].lockedBy,
           i.status = "NONE" => intent[m][r].status = "NONE",
           Left(i, takeover[m], handedIn[m], r),
           intent' = [intent EXCEPT ![m] = [intent[m] EXCEPT ![r] = i]],
           \/ i = intent[m][r]
           \/ i.status = "PENDING" \/ i.tries >= MaxTries
           \/ Upset(takeover[m])
           \/ /\ intent[m][r].status = "PROCESSING" /\ intent[m][r].lockedBy = w
              /\ Delivering(w, m, r) /\ delivery[w].next = "PUBLISH"
    PROVE  Scoring'
<1>1. AtLeisure.match = NoSource /\ AtLeisure.next = "NONE"
  BY DEF AtLeisure
<1>2. /\ intent'[m][r] = i /\ delivery'[w] = AtLeisure
      /\ \A n \in Takeovers, k \in Roles : <<n, k>> # <<m, r>> => intent'[n][k] = intent[n][k]
      /\ \A v \in Scorers : v # w => delivery'[v] = delivery[v]
      /\ \A n \in Takeovers : n # NoSource
  BY ScoringTypes, BoundsAssumption DEF Rest
<1>3. Story'
  <2>1. \A n \in Takeovers : Told(takeover'[n], handedIn'[n])
    BY DEF Scoring, Story
  <2>2. \A n \in Takeovers, k \in Roles : Left(intent'[n][k], takeover'[n], handedIn'[n], k)
    BY <1>2 DEF Scoring, Story
  <2>3. ASSUME NEW v \in Scorers, NEW n \in Takeovers, NEW k \in Roles,
               delivery'[v].match = n, delivery'[v].role = k
        PROVE  AtWork(delivery'[v].next, takeover'[n], intent'[n][k], k)
    <3>1. v # w
      BY <1>1, <1>2, <2>3
    <3>2. AtWork(delivery[v].next, takeover[n], intent[n][k], k) /\ delivery'[v] = delivery[v]
      BY <1>2, <2>3, <3>1 DEF Scoring, Story, Delivering
    <3> QED BY <1>2, <3>2 DEF AtWork
  <2> QED BY <2>1, <2>2, <2>3 DEF Story, Delivering
<1>4. SomeoneSettles'
  <2>1. ASSUME NEW n \in Takeovers, Awaits(takeover'[n])
        PROVE  \E k \in Roles : WillSettle(n, k)'
    <3>1. PICK k \in Roles : WillSettle(n, k)
      BY <2>1, SomeoneSettlesAwaited DEF Scoring
    <3>2. Awaits(takeover[n]) /\ (n = m => ~Upset(takeover[m]))
      BY <2>1 DEF Awaits, Upset
    <3>3. CASE intent'[n][k] = intent[n][k]
      <4>1. CASE intent[n][k].lockedBy = w
        <5>1. ~Delivering(w, n, k)'
          BY <1>1, <1>2 DEF Delivering
        <5> QED BY <3>1, <3>3, <4>1, <5>1 DEF WillSettle, TriedEnough
      <4>2. CASE intent[n][k].lockedBy # w
        <5>1. delivery'[intent[n][k].lockedBy] = delivery[intent[n][k].lockedBy]
          BY <4>2 DEF Rest
        <5>2. Delivering(intent[n][k].lockedBy, n, k)' <=> Delivering(intent[n][k].lockedBy, n, k)
          BY <3>3, <5>1 DEF Delivering
        <5>3. WillSettle(n, k)'
          BY <3>1, <3>3, <5>1, <5>2 DEF WillSettle, TriedEnough
        <5> QED BY <5>3
      <4> QED BY <4>1, <4>2
    <3>4. CASE intent'[n][k] # intent[n][k]
      <4>1. n = m /\ k = r /\ i # intent[m][r]
        BY <1>2, <3>4
      <4>2. CASE i.status = "PENDING" \/ i.tries >= MaxTries
        BY <1>2, <4>1, <4>2 DEF WillSettle, TriedEnough
      <4>3. CASE /\ intent[m][r].status = "PROCESSING" /\ intent[m][r].lockedBy = w
                 /\ Delivering(w, m, r) /\ delivery[w].next = "PUBLISH"
        BY <1>2, <3>1, <4>1, <4>2, <4>3 DEF WillSettle, TriedEnough
      <4> QED BY <3>2, <4>1, <4>2, <4>3
    <3> QED BY <3>3, <3>4
  <2> QED BY <2>1 DEF SomeoneSettles, Awaits
<1> QED BY <1>3, <1>4 DEF Scoring

LEMMA EndScoring ==
    ASSUME Contest, Scoring, NEW w \in Scorers, NEW m \in Takeovers, NEW r \in Roles,
           NEW status \in {"PUBLISHED", "DEAD", "PENDING"}, EndsDelivery(w, m, r, status),
           Delivering(w, m, r),
           status = "PUBLISHED" => r \in takeover[m].results /\ delivery[w].next = "PUBLISH",
           status = "DEAD" => Upset(takeover[m]) \/ TriedEnough(m, r)
    PROVE  Scoring'
<1>1. Rest(w) /\ UNCHANGED <<takeover, handedIn>>
  BY DEF EndsDelivery
<1>2. Left(intent[m][r], takeover[m], handedIn[m], r)
  BY DEF Scoring, Story
<1>3. CASE intent[m][r].status = "PROCESSING" /\ intent[m][r].lockedBy = w
  <2> DEFINE i == [intent[m][r] EXCEPT !.status = status]
  <2>1. i.status = status /\ i.tries = intent[m][r].tries /\ i.lockedBy = intent[m][r].lockedBy
    BY ScoringTypes DEF IntentRecords
  <2>2. intent' = [intent EXCEPT ![m] = [intent[m] EXCEPT ![r] = i]]
    BY <1>3 DEF EndsDelivery
  <2> HIDE DEF i
  <2>3. Left(i, takeover[m], handedIn[m], r)
    BY <1>2, <1>3, <2>1 DEF Left, TriedEnough
  <2>4. i.status = "NONE" => intent[m][r].status = "NONE"
    BY <2>1
  <2>5. \/ i.status = "PENDING" \/ i.tries >= MaxTries
        \/ Upset(takeover[m])
        \/ /\ intent[m][r].status = "PROCESSING" /\ intent[m][r].lockedBy = w
           /\ Delivering(w, m, r) /\ delivery[w].next = "PUBLISH"
    BY <1>3, <2>1 DEF TriedEnough
  <2> QED BY <1>1, <2>1, <2>2, <2>3, <2>4, <2>5, WorkerLeaves
<1>4. CASE ~(intent[m][r].status = "PROCESSING" /\ intent[m][r].lockedBy = w)
  <2>1. intent' = [intent EXCEPT ![m] = [intent[m] EXCEPT ![r] = intent[m][r]]]
    BY <1>4, ScoringTypes DEF EndsDelivery
  <2> QED BY <1>1, <1>2, <2>1, WorkerLeaves
<1> QED BY <1>3, <1>4

LEMMA DeliveryScoring ==
    ASSUME Contest, Scoring, NEW w \in Scorers, NEW m \in Takeovers, NEW r \in Roles,
           DeliveryStep(w, m, r)
    PROVE  Scoring'
<1>1. CASE PublishIntentOf(w, m, r)
  <2>1. Delivering(w, m, r) /\ delivery[w].next = "PUBLISH" /\ r \in takeover[m].results
    BY <1>1, WorkerKnows DEF PublishIntentOf, AtWork
  <2> QED BY <1>1, <2>1, EndScoring DEF PublishIntentOf
<1>2. CASE GiveUp(w, m, r)
  <2>1. Delivering(w, m, r) /\ Upset(takeover[m])
    BY <1>2, WorkerKnows DEF GiveUp, AtWork
  <2> QED BY <1>2, <2>1, EndScoring DEF GiveUp
<1>3. CASE TryLater(w, m, r) \/ DeliveryFails(w, m, r)
  <2>1. Delivering(w, m, r) /\ EndsDelivery(w, m, r, AgainOrDead(m, r))
    BY <1>3, WorkerKnows DEF TryLater, DeliveryFails
  <2>2. \/ AgainOrDead(m, r) = "PENDING"
        \/ AgainOrDead(m, r) = "DEAD" /\ TriedEnough(m, r)
    BY DEF AgainOrDead
  <2> QED BY <2>1, <2>2, EndScoring
<1> QED BY <1>1, <1>2, <1>3, ClaimScoring, SubmitAgainScoring, SubmitResultScoring,
           ResolveScoring, SettleScoring
        DEF DeliveryStep

(* A worker that dies leaves its intent for another to claim. *)
LEMMA DeathScoring ==
    ASSUME Contest, Scoring, NEW w \in Scorers, ScorerDies(w)
    PROVE  Scoring'
<1>1. Rest(w) /\ UNCHANGED <<takeover, handedIn, intent>>
  BY DEF ScorerDies
<1>2. AtLeisure.match = NoSource
  BY DEF AtLeisure
<1>3. /\ delivery'[w] = AtLeisure /\ \A n \in Takeovers : n # NoSource
      /\ \A v \in Scorers : v # w => delivery'[v] = delivery[v]
  BY <1>1, ScoringTypes, BoundsAssumption DEF Rest
<1>4. Story'
  <2>1. \A v \in Scorers, n \in Takeovers, k \in Roles :
          delivery'[v].match = n /\ delivery'[v].role = k
            => AtWork(delivery'[v].next, takeover'[n], intent'[n][k], k)
    BY <1>1, <1>2, <1>3 DEF Scoring, Story, Delivering
  <2> QED BY <1>1, <2>1 DEF Scoring, Story, Delivering
<1>5. SomeoneSettles'
  <2>1. ASSUME NEW n \in Takeovers, Awaits(takeover'[n])
        PROVE  \E k \in Roles : WillSettle(n, k)'
    <3>1. PICK k \in Roles : WillSettle(n, k)
      BY <1>1, <2>1, SomeoneSettlesAwaited DEF Scoring
    <3>2. CASE intent[n][k].lockedBy = w
      <4>1. ~Delivering(w, n, k)'
        BY <1>2, <1>3 DEF Delivering
      <4> QED BY <1>1, <3>1, <3>2, <4>1 DEF WillSettle, TriedEnough
    <3>3. CASE intent[n][k].lockedBy # w
      <4>1. delivery'[intent[n][k].lockedBy] = delivery[intent[n][k].lockedBy]
        BY <1>1, <3>3 DEF Rest
      <4> QED BY <1>1, <3>1, <4>1 DEF WillSettle, Delivering, TriedEnough
    <3> QED BY <3>2, <3>3
  <2> QED BY <2>1 DEF SomeoneSettles, Awaits
<1> QED BY <1>4, <1>5 DEF Scoring

LEMMA ScoringInit == TakeoverInit => Scoring
<1> SUFFICES ASSUME TakeoverInit PROVE Scoring
  OBVIOUS
<1>1. \A m \in Takeovers : takeover[m].status = "NONE" /\ takeover[m].started = {}
                           /\ takeover[m].reason = "NONE" /\ handedIn[m] = {}
  BY DEF TakeoverInit, NoTakeover
<1>2. \A m \in Takeovers, r \in Roles : intent[m][r].status = "NONE"
  BY DEF TakeoverInit, NoIntentYet
<1>3. \A w \in Scorers, m \in Takeovers, r \in Roles : ~Delivering(w, m, r)
  BY BoundsAssumption DEF TakeoverInit, AtLeisure, Delivering
<1>4. Story
  BY <1>1, <1>2, <1>3 DEF Story, Told, Left, Complete
<1>5. SomeoneSettles
  BY <1>1 DEF SomeoneSettles
<1> QED BY <1>4, <1>5 DEF Scoring

LEMMA ScoringStep == Contest /\ Scoring /\ [TakeoverNext]_takeoverVars => Scoring'
<1> SUFFICES ASSUME Contest, Scoring, [TakeoverNext]_takeoverVars PROVE Scoring'
  OBVIOUS
<1>1. CASE UNCHANGED takeoverVars
  BY <1>1, ScoringUntouched DEF takeoverVars, scoringVars
<1>2. ASSUME NEW m \in Takeovers,
             \/ \E u, v \in Contenders : RequestNormal(m, u, v)
             \/ \E s \in Takeovers : RequestRevenge(m, s)
      PROVE  Scoring'
  BY <1>2, RequestScoring DEF RequestNormal, RequestRevenge
<1>3. ASSUME NEW m \in Takeovers, PlayStep(m) PROVE Scoring'
  <2>1. CASE TimePasses(m)
    BY <2>1, ScoringUntouched DEF TimePasses, scoringVars
  <2> QED BY <1>3, <2>1, PlayScoring, HandInScoring DEF PlayStep
<1>4. ASSUME NEW m \in Takeovers, RightStep(m) PROVE Scoring'
  BY <1>4, ScoringUntouched DEF RightStep, IssueRight, IssueNothing, RightExpires, scoringVars
<1> QED BY <1>1, <1>2, <1>3, <1>4, AuthorityScoring, DeliveryScoring, DeathScoring DEF TakeoverNext

(***************************************************************************)
(* Whatever workers die, stall and overtake one another, a match that has  *)
(* its two results and was left to them is settled, or an intent of it is  *)
(* still to be delivered, or its tries are used up.                        *)
(***************************************************************************)
THEOREM ScoredIsSettled == TakeoverSpec => []SomeoneSettles
<1>1. Scoring => SomeoneSettles
  BY DEF Scoring
<1> QED BY <1>1, ContestHolds, ScoringInit, ScoringStep, PTL DEF TakeoverSpec

-----------------------------------------------------------------------------
(* The answers to requests of one key *)

Stages == {"OBSERVE", "WORK", "FAILED", "STORE", "REPLAY", "END", "LOST"}
MayAnswer == Final \cup {Unknown, "LATER", "CONFLICT"}

CallRecords ==
    [at : Stages, failure : Refusals \cup {"LATER", Unknown}, answer : MayAnswer]

(* What a receipt holds, and when. *)
ReceiptIsTrue ==
    /\ receipt = NoReceipt => timesDone = 0
    /\ receipt # NoReceipt =>
        /\ receipt.answer \in Final
        /\ timesDone = IF receipt.answer = "DONE" THEN 1 ELSE 0

(* What a request may be told, and what it brings along from its failed work. *)
CallFollows(c) ==
    /\ call[c].answer \in Final => receipt # NoReceipt /\ receipt.answer = call[c].answer
    /\ call[c].at = "FAILED" => call[c].failure \in Refusals \cup {"LATER"}
    /\ call[c].at \in {"STORE", "REPLAY"} => call[c].failure \in Refusals
    /\ call[c].at = "REPLAY" => receipt # NoReceipt

ReceiptInv ==
    /\ call \in [Calls -> CallRecords]
    /\ ReceiptIsTrue
    /\ \A c \in Calls : CallFollows(c)

LEMMA ReceiptBegins == ReceiptInit => ReceiptInv
BY CallsAssumption
   DEF ReceiptInit, ReceiptInv, CallRecords, Stages, MayAnswer, Final, NotCalled, NoReceipt,
       ReceiptIsTrue, CallFollows

(* A request that reads the receipt is told what it holds, or of the conflict. *)
LEMMA ReplayIsTold ==
    ASSUME ReceiptInv, NEW c \in Calls, receipt # NoReceipt
    PROVE  /\ Replay(c) \in MayAnswer
           /\ Replay(c) \in Final => Replay(c) = receipt.answer
BY CallsAssumption DEF ReceiptInv, ReceiptIsTrue, Replay, Final, MayAnswer

(* A step of one request keeps what holds of all, if it does so for that one. *)
LEMMA ReceiptStays ==
    ASSUME ReceiptInv, NEW c \in Calls, NEW next \in CallRecords,
           call' = [call EXCEPT ![c] = next],
           receipt' = receipt, timesDone' = timesDone,
           CallFollows(c)'
    PROVE  ReceiptInv'
<1>1. call' \in [Calls -> CallRecords]
  BY DEF ReceiptInv
<1>2. ReceiptIsTrue'
  BY DEF ReceiptInv, ReceiptIsTrue, NoReceipt
<1>3. ASSUME NEW d \in Calls PROVE CallFollows(d)'
  <2>1. CASE d = c
    BY <2>1
  <2>2. CASE d # c
    <3>1. call'[d] = call[d]
      BY <2>2 DEF ReceiptInv
    <3> QED BY <3>1 DEF ReceiptInv, CallFollows, NoReceipt
  <2> QED BY <2>1, <2>2
<1> QED BY <1>1, <1>2, <1>3 DEF ReceiptInv

(* The same for a step that writes the receipt there was none of before. *)
LEMMA ReceiptIsWritten ==
    ASSUME ReceiptInv, NEW c \in Calls, NEW next \in CallRecords,
           receipt = NoReceipt, receipt' # NoReceipt, ReceiptIsTrue',
           call' = [call EXCEPT ![c] = next],
           CallFollows(c)'
    PROVE  ReceiptInv'
<1>1. call' \in [Calls -> CallRecords]
  BY DEF ReceiptInv
<1>2. ASSUME NEW d \in Calls PROVE CallFollows(d)'
  <2>1. CASE d = c
    BY <2>1
  <2>2. CASE d # c
    <3>1. call'[d] = call[d]
      BY <2>2 DEF ReceiptInv
    <3> QED BY <3>1 DEF ReceiptInv, CallFollows, NoReceipt
  <2> QED BY <2>1, <2>2
<1> QED BY <1>1, <1>2 DEF ReceiptInv

(* The forms of the two ways in which a request goes on. *)
LEMMA RepliesIsRecord ==
    ASSUME ReceiptInv, NEW c \in Calls, NEW answer \in MayAnswer, Replies(c, answer),
           receipt' = receipt, timesDone' = timesDone,
           answer \in Final => receipt # NoReceipt /\ receipt.answer = answer
    PROVE  ReceiptInv'
<1> DEFINE next == [call[c] EXCEPT !.at = "END", !.answer = answer]
<1>1. call[c] \in CallRecords
  BY DEF ReceiptInv
<1>2. next \in CallRecords
  BY <1>1 DEF CallRecords, Stages
<1>3. call' = [call EXCEPT ![c] = next] /\ call'[c] = next
  BY DEF Replies, ReceiptInv
<1>4. next.at = "END" /\ next.answer = answer
  BY <1>1 DEF CallRecords
<1>5. CallFollows(c)'
  BY <1>3, <1>4 DEF CallFollows, NoReceipt
<1> HIDE DEF next
<1> QED BY <1>2, <1>3, <1>5, ReceiptStays

LEMMA MovesIsRecord ==
    ASSUME ReceiptInv, NEW c \in Calls, NEW step \in Stages, MovesTo(c, step),
           receipt' = receipt, timesDone' = timesDone,
           step = "FAILED" => call[c].failure \in Refusals \cup {"LATER"},
           step \in {"STORE", "REPLAY"} => call[c].failure \in Refusals,
           step = "REPLAY" => receipt # NoReceipt
    PROVE  ReceiptInv'
<1> DEFINE next == [call[c] EXCEPT !.at = step]
<1>1. call[c] \in CallRecords /\ CallFollows(c)
  BY DEF ReceiptInv
<1>2. next \in CallRecords
  BY <1>1 DEF CallRecords
<1>3. call' = [call EXCEPT ![c] = next] /\ call'[c] = next
  BY DEF MovesTo, ReceiptInv
<1>4. next.at = step /\ next.answer = call[c].answer /\ next.failure = call[c].failure
  BY <1>1 DEF CallRecords
<1>5. CallFollows(c)'
  BY <1>1, <1>3, <1>4 DEF CallFollows, NoReceipt
<1> HIDE DEF next
<1> QED BY <1>2, <1>3, <1>5, ReceiptStays

-----------------------------------------------------------------------------
(* One lemma for each action. *)

LEMMA ObserveKeeps ==
    ASSUME ReceiptInv, NEW c \in Calls, Observe(c)
    PROVE  ReceiptInv'
<1>1. CASE HasReceipt
  BY <1>1, ReplayIsTold, RepliesIsRecord DEF Observe, HasReceipt
<1>2. CASE ~HasReceipt
  BY <1>2, MovesIsRecord DEF Observe, Stages
<1> QED BY <1>1, <1>2

LEMMA WorkKeeps ==
    ASSUME ReceiptInv, NEW c \in Calls, DoWork(c)
    PROVE  ReceiptInv'
<1>0. call[c] \in CallRecords /\ CallFollows(c)
  BY DEF ReceiptInv
<1>1. CASE HasReceipt
  BY <1>1, ReplayIsTold, RepliesIsRecord DEF DoWork, HasReceipt
<1>2. CASE ~HasReceipt /\ Succeeds(c)
  <2>1. receipt' # NoReceipt /\ receipt'.answer = "DONE" /\ timesDone' = 1
    BY <1>2, CallsAssumption DEF Succeeds, HasReceipt, NoReceipt, ReceiptInv, ReceiptIsTrue
  <2>2. ReceiptIsTrue'
    BY <2>1 DEF ReceiptIsTrue, Final, NoReceipt
  <2>3. CASE Replies(c, "DONE")
    <3> DEFINE next == [call[c] EXCEPT !.at = "END", !.answer = "DONE"]
    <3>1. next \in CallRecords /\ next.at = "END" /\ next.answer = "DONE"
      BY <1>0 DEF CallRecords, Stages, MayAnswer, Final
    <3>2. call' = [call EXCEPT ![c] = next] /\ call'[c] = next
      BY <2>3 DEF Replies, ReceiptInv
    <3>3. CallFollows(c)'
      BY <3>1, <3>2, <2>1 DEF CallFollows, NoReceipt
    <3> HIDE DEF next
    <3> QED BY <1>2, <2>1, <2>2, <3>1, <3>2, <3>3, ReceiptIsWritten DEF HasReceipt
  <2>4. CASE call' = [call EXCEPT ![c].at = "FAILED", ![c].failure = "LATER"]
    <3> DEFINE next == [call[c] EXCEPT !.at = "FAILED", !.failure = "LATER"]
    <3>1. /\ next \in CallRecords /\ next.at = "FAILED" /\ next.failure = "LATER"
          /\ next.answer = call[c].answer
      BY <1>0 DEF CallRecords, Stages
    <3>2. call' = [call EXCEPT ![c] = next] /\ call'[c] = next
      BY <2>4 DEF ReceiptInv
    <3>3. CallFollows(c)'
      BY <1>0, <1>2, <3>1, <3>2, <2>1 DEF CallFollows, HasReceipt, NoReceipt
    <3> HIDE DEF next
    <3> QED BY <1>2, <2>1, <2>2, <3>1, <3>2, <3>3, ReceiptIsWritten DEF HasReceipt
  <2> QED BY <1>2, <2>3, <2>4 DEF Succeeds
<1>3. ASSUME NEW failure \in Refusals \cup {"LATER"}, WorkFails(c, failure)
      PROVE  ReceiptInv'
  <2> DEFINE next == [call[c] EXCEPT !.at = "FAILED", !.failure = failure]
  <2>1. /\ next \in CallRecords /\ next.at = "FAILED" /\ next.failure = failure
        /\ next.answer = call[c].answer
    BY <1>0 DEF CallRecords, Stages
  <2>2. call' = [call EXCEPT ![c] = next] /\ call'[c] = next
    BY <1>3 DEF WorkFails, ReceiptInv
  <2>3. CallFollows(c)'
    BY <1>0, <1>3, <2>1, <2>2 DEF CallFollows, WorkFails, NoReceipt
  <2> HIDE DEF next
  <2> QED BY <1>3, <2>1, <2>2, <2>3, ReceiptStays DEF WorkFails
<1> QED BY <1>1, <1>2, <1>3 DEF DoWork

LEMMA AfterFailureKeeps ==
    ASSUME ReceiptInv, NEW c \in Calls, AfterFailure(c)
    PROVE  ReceiptInv'
<1>0. CallFollows(c) /\ call[c].at = "FAILED"
  BY DEF ReceiptInv, AfterFailure, StageIs
<1>1. CASE HasReceipt
  BY <1>1, ReplayIsTold, RepliesIsRecord DEF AfterFailure, HasReceipt
<1>2. CASE ~HasReceipt /\ call[c].failure = "LATER"
  <2>1. "LATER" \in MayAnswer /\ "LATER" \notin Final
    BY CallsAssumption DEF MayAnswer, Final
  <2> QED BY <1>2, <2>1, RepliesIsRecord DEF AfterFailure
<1>3. CASE ~HasReceipt /\ call[c].failure # "LATER"
  <2>1. call[c].failure \in Refusals
    BY <1>0, <1>3 DEF CallFollows
  <2> QED BY <1>3, <2>1, MovesIsRecord DEF AfterFailure, Stages
<1> QED BY <1>1, <1>2, <1>3

LEMMA StoreFailureKeeps ==
    ASSUME ReceiptInv, NEW c \in Calls, StoreFailure(c)
    PROVE  ReceiptInv'
<1>0. /\ call[c] \in CallRecords /\ CallFollows(c) /\ call[c].at = "STORE"
      /\ call[c].failure \in Refusals
  BY DEF ReceiptInv, CallFollows, StoreFailure, StageIs
<1>1. CASE HasReceipt /\ receipt.of = Fingerprint[c]
  BY <1>0, <1>1, MovesIsRecord DEF StoreFailure, HasReceipt, Stages
<1>2. CASE HasReceipt /\ receipt.of # Fingerprint[c]
  <2>1. "CONFLICT" \in MayAnswer /\ "CONFLICT" \notin Final
    BY CallsAssumption DEF MayAnswer, Final
  <2> QED BY <1>2, <2>1, RepliesIsRecord DEF StoreFailure
<1>3. CASE ~HasReceipt
  <2> DEFINE next == [call[c] EXCEPT !.at = "REPLAY"]
  <2>1. /\ next \in CallRecords /\ next.at = "REPLAY" /\ next.failure = call[c].failure
        /\ next.answer = call[c].answer
    BY <1>0 DEF CallRecords, Stages
  <2>2. call' = [call EXCEPT ![c] = next] /\ call'[c] = next
    BY <1>3 DEF StoreFailure, MovesTo, ReceiptInv
  <2>3. /\ receipt' # NoReceipt /\ receipt'.answer \in Final /\ receipt'.answer # "DONE"
        /\ timesDone' = 0
    BY <1>0, <1>3, CallsAssumption
       DEF StoreFailure, HasReceipt, NoReceipt, Final, ReceiptInv, ReceiptIsTrue
  <2>4. ReceiptIsTrue'
    BY <2>3 DEF ReceiptIsTrue, NoReceipt
  <2>5. CallFollows(c)'
    BY <1>0, <1>3, <2>1, <2>2, <2>3 DEF CallFollows, HasReceipt, NoReceipt
  <2> HIDE DEF next
  <2> QED BY <1>3, <2>1, <2>2, <2>3, <2>4, <2>5, ReceiptIsWritten DEF HasReceipt
<1> QED BY <1>1, <1>2, <1>3

LEMMA ReplayStoredKeeps ==
    ASSUME ReceiptInv, NEW c \in Calls, ReplayStored(c)
    PROVE  ReceiptInv'
<1>1. HasReceipt
  BY DEF ReceiptInv, CallFollows, ReplayStored, StageIs, HasReceipt
<1> QED BY <1>1, ReplayIsTold, RepliesIsRecord DEF ReplayStored, HasReceipt

LEMMA CallIsLostKeeps ==
    ASSUME ReceiptInv, NEW c \in Calls, CallIsLost(c)
    PROVE  ReceiptInv'
BY MovesIsRecord DEF CallIsLost, MovesTo, Stages

LEMMA ReceiptStepKeeps == ReceiptInv /\ [ReceiptNext]_receiptVars => ReceiptInv'
<1> SUFFICES ASSUME ReceiptInv, [ReceiptNext]_receiptVars PROVE ReceiptInv'
  OBVIOUS
<1>1. CASE UNCHANGED receiptVars
  BY <1>1 DEF receiptVars, ReceiptInv, ReceiptIsTrue, CallFollows, NoReceipt
<1>2. CASE ReceiptNext
  BY <1>2, ObserveKeeps, WorkKeeps, AfterFailureKeeps, StoreFailureKeeps, ReplayStoredKeeps,
     CallIsLostKeeps
     DEF ReceiptNext
<1> QED BY <1>1, <1>2

LEMMA ReceiptInvSuffices == ReceiptInv => AnswersAgree
<1> SUFFICES ASSUME ReceiptInv PROVE AnswersAgree
  OBVIOUS
<1>1. timesDone <= 1
  BY DEF ReceiptInv, ReceiptIsTrue
<1>2. ASSUME NEW c \in Calls, call[c].answer \in Final
      PROVE  call[c].answer = "DONE" <=> timesDone = 1
  BY <1>2 DEF ReceiptInv, ReceiptIsTrue, CallFollows
<1>3. ASSUME NEW c \in Calls, NEW d \in Calls, call[c].answer \in Final, call[d].answer \in Final
      PROVE  call[d].answer = call[c].answer
  BY <1>3 DEF ReceiptInv, CallFollows
<1> QED BY <1>1, <1>2, <1>3 DEF AnswersAgree

(***************************************************************************)
(* However many requests with one key overlap, fail, lose their answers or *)
(* die, the command takes effect once at most, and all that are told how   *)
(* it ended are told the same (executeCommand, replayCommandReceipt).      *)
(***************************************************************************)
THEOREM OneAnswerForAll == ReceiptSpec => []AnswersAgree
<1>1. ReceiptInit => ReceiptInv
  BY ReceiptBegins
<1>2. ReceiptInv /\ [ReceiptNext]_receiptVars => ReceiptInv'
  BY ReceiptStepKeeps
<1>3. ReceiptInv => AnswersAgree
  BY ReceiptInvSuffices
<1> QED BY <1>1, <1>2, <1>3, PTL DEF ReceiptSpec
=============================================================================
