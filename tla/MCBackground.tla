---------------------------- MODULE MCBackground ----------------------------
(***************************************************************************)
(* Instances of the components that work apart from the unranked matches,  *)
(* for TLC: the outbox of the arena, the ranked matches, the attendance,   *)
(* the rank takeovers and the receipts of their commands.  They share no   *)
(* state, so that in a behaviour one of them is at work, in one of the     *)
(* scopes; the others stand still.                                         *)
(***************************************************************************)
EXTENDS OutboxDelivery, RankedMatch, CycleAttendance, RankTakeover, CommandReceipt, TLC

CONSTANTS u1, u2, u3, u4, att1, att2, att3, submitted, resubmitted, call1, call2, call3, same, other

VARIABLE scope

vars == <<scope, outboxVars, rankedVars, attendanceVars, takeoverVars, receiptVars>>

OutboxScopes ==
    { "FAULTS",     \* two crashes, failures or stalls during a week
      "DAILY",      \* the daily recalculation, and one fault
      "SUNDAY",     \* a Sunday without faults
      "POISON" }    \* a third event, whose handler may always throw, and one worker's crash
RankedScopes ==
    { "GAMES",      \* all that can become of a match, one invitation among it
      "INVITES",    \* two invitations of one player
      "JOB" }       \* one invitation, and a job that dies
AttendanceScopes ==
    { "DAYS",       \* attempts of two days
      "SAMEDAY",    \* two attempts of one day
      "GIVEUP" }    \* two requests for one attempt, whose intent grows old
TakeoverScopes ==
    { "SCORING",    \* one match, and the workers that score it
      "ENDINGS",    \* one match, its deadlines, and the authorities that may end it
      "SEATS",      \* two matches among four contenders
      "REVENGE" }   \* three matches of two contenders

StartTier == (u1 :> 3) @@ (u2 :> 2) @@ (u3 :> 1)
StartDays == (u1 :> 5) @@ (u2 :> 3) @@ (u3 :> 3)
DateOfSource == (att1 :> 1) @@ (att2 :> 2) @@ (att3 :> 2)
SourcesAt == [DAYS |-> {att1, att2}, SAMEDAY |-> {att2, att3}, GIVEUP |-> {att1}]
LeastStake == [gap \in 1..MaxGap |-> 1]
FirstSeats == (u1 :> 1) @@ (u2 :> 2) @@ (u3 :> 3) @@ (u4 :> 4)
ChallengeDays == (u1 :> 4) @@ (u2 :> 3) @@ (u3 :> 2) @@ (u4 :> 1)
UsersOf == [SCORING |-> {u1, u2}, ENDINGS |-> {u1, u2}, SEATS |-> Contenders, REVENGE |-> {u1, u2}]
MatchesOf == [SCORING |-> {1}, ENDINGS |-> {1}, SEATS |-> {1, 2}, REVENGE |-> {1, 2, 3}]
AskedFor == (call1 :> same) @@ (call2 :> same) @@ (call3 :> other)

Init ==
    /\ OutboxInit
    /\ RankedInit
    /\ AttendanceInit
    /\ TakeoverInit
    /\ ReceiptInit
    /\ scope \in OutboxScopes \cup RankedScopes \cup AttendanceScopes \cup TakeoverScopes \cup {"RECEIPT"}
    /\ scope # "POISON" => poison = {}

OutboxStep ==
    /\ scope \in OutboxScopes
    /\ OutboxNext
    /\ scope # "SUNDAY" => day' = "WEEK"
    /\ scope = "SUNDAY" => faults' = 0
    /\ scope # "FAULTS" => faults' < 2
    /\ scope # "POISON" => outbox'[2] = "NONE"
    /\ scope \in {"FAULTS", "POISON"} => \A p \in Recalculators : ~calc'[p].reading
    /\ UNCHANGED <<scope, rankedVars, attendanceVars, takeoverVars, receiptVars>>

(* It does not matter which invitation and which match come first. *)
UsedInOrder ==
    /\ \A i, j \in Invitations :
        i < j /\ request'[j].status # "NONE" => request'[i].status # "NONE"
    /\ \A g, h \in Games :
        g < h /\ game'[h].status # "NONE" => game'[g].status # "NONE"

RankedStep ==
    /\ scope \in RankedScopes
    /\ \/ \E i \in Invitations : InvitationStep(i)
       \/ scope = "GAMES" /\ \E g \in Games : GameStep(g)
       \/ scope # "GAMES" /\ (WeekGoesOn \/ JobStep)
       \/ scope # "GAMES" /\ \E u \in Players : (scope = "JOB" \/ u = u1) /\ ConsumeDay(u)
       \/ scope = "JOB" /\ JobDies
    /\ scope # "JOB" => \A i \in Invitations : request'[i].by \in {NoOne, u1}
    /\ scope # "INVITES" => \A i \in Invitations \ {1} : request'[i] = NoRequest
    /\ scope = "GAMES" => \A u \in Players : available'[u] = 0 => reserved'[u] = 0
    /\ (\E g \in Games : EndedBefore(g))' => \A i \in Invitations : request'[i].status \in {"NONE", "MATCHED"}
    /\ scope = "INVITES" => spent' < 2
    /\ UsedInOrder
    /\ UNCHANGED <<scope, outboxVars, attendanceVars, takeoverVars, receiptVars>>

AttendanceStep ==
    /\ scope \in AttendanceScopes
    /\ AttendanceNext
    /\ \A s \in Sources \ SourcesAt[scope] : outboxRow'[s] = NoIntent
    /\ scope # "GIVEUP" => \A s \in Sources :
           submission'[s][resubmitted] = "NEW" /\ ~outboxRow'[s].old /\ failures' < 2
    /\ UNCHANGED <<scope, outboxVars, rankedVars, takeoverVars, receiptVars>>

TakeoverStep ==
    /\ scope \in TakeoverScopes
    /\ TakeoverNext
    /\ \A m \in Takeovers : takeover'[m].status # "NONE" =>
           /\ m \in MatchesOf[scope]
           /\ {takeover'[m].challenger, takeover'[m].defender} \subseteq UsersOf[scope]
    /\ \A m, n \in Takeovers :
           m < n /\ takeover'[n].status # "NONE" => takeover'[m].status # "NONE"
    /\ scope # "ENDINGS" => clock' = clock
    /\ scope = "SCORING" => \A m \in Takeovers : ~takeover'[m].held
    /\ scope \in {"ENDINGS", "SEATS"} => mishaps' = 0
    /\ scope = "REVENGE" => mishaps' < 2
    /\ scope \in {"SEATS", "REVENGE"} => \A m \in Takeovers : takeover'[m].started = {}
    /\ scope = "SCORING" => revenge' = revenge /\ \A m \in Takeovers : settledEvent'[m] # "PUBLISHED"
    /\ scope = "ENDINGS" => revenge' = revenge
    /\ UNCHANGED <<scope, outboxVars, rankedVars, attendanceVars, receiptVars>>

ReceiptStep ==
    /\ scope = "RECEIPT"
    /\ ReceiptNext
    /\ UNCHANGED <<scope, outboxVars, rankedVars, attendanceVars, takeoverVars>>

Next == OutboxStep \/ RankedStep \/ AttendanceStep \/ TakeoverStep \/ ReceiptStep

OthersRest(one) == UNCHANGED <<scope, one, attendanceVars, takeoverVars, receiptVars>>

(* The fairness of the component that is at work; attendance that is not has no step to take. *)
Fairness ==
    /\ \A w \in Workers :
        WF_vars(scope \in OutboxScopes /\ Pass(w) /\ OthersRest(rankedVars))
    /\ WF_vars(/\ scope \in OutboxScopes
               /\ \E e \in Events : ClaimRunsOut(e)
               /\ OthersRest(rankedVars))
    /\ WF_vars(scope \in {"INVITES", "JOB"} /\ WeekGoesOn /\ OthersRest(outboxVars))
    /\ WF_vars(scope \in {"INVITES", "JOB"} /\ JobStep /\ OthersRest(outboxVars))
    /\ AttendanceFairness

Spec == Init /\ [][Next]_vars /\ Fairness
=============================================================================
