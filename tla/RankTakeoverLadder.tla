------------------------- MODULE RankTakeoverLadder -------------------------
(***************************************************************************)
(* RankTakeover seen from the ladder.  The rank takeovers of the iPad keep *)
(* records, balances and seats of their own and share no line of code with *)
(* the matches of ArenaMatch; but an engaged takeover is an open deposit   *)
(* of its challenger against its defender just as an unsettled match is.   *)
(* What has been burned is stored nowhere: it is what the settled matches  *)
(* took and paid to nobody.                                                *)
(***************************************************************************)
EXTENDS RankTakeover, Functions

Burns(t) ==
    IF t.status # "SETTLED" THEN 0
    ELSE IF t.winner = "CHALLENGER" THEN t.stake
    ELSE IF t.type = "REVENGE" THEN RevengeBurn
    ELSE 0

BurnedBy == [m \in Takeovers |-> Burns(takeover[m])]
DaysBurned == SumFunctionOnSet(BurnedBy, Takeovers)

NotOpen(state) == [state |-> state, owner |-> Vacant, rival |-> Vacant, amount |-> 0]
DepositOf(t) ==
    IF t.status = "NONE" THEN NotOpen("FREE")
    ELSE IF t.status \in Engaged
         THEN [state |-> "OPEN", owner |-> t.challenger, rival |-> t.defender, amount |-> t.stake]
    ELSE NotOpen("CLOSED")

Deposits == [m \in Takeovers |-> DepositOf(takeover[m])]

Ladder == INSTANCE ArenaLadder WITH
    Users <- Contenders, Matches <- Takeovers, None <- Vacant,
    InitialSeat <- FirstSeat, InitialScore <- FirstDays,
    score <- freeDays, locked <- stakedDays, burned <- DaysBurned,
    deposit <- Deposits

\* Takeovers implement the ladder: whatever workers, authorities and deadlines do,
\* in whatever order and however often, a takeover takes its stake once, pays it
\* out once and in full, exchanges the two seats or none, and is over then.
ImplementsLadder == Ladder!Spec
=============================================================================
