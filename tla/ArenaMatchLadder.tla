-------------------------- MODULE ArenaMatchLadder --------------------------
(***************************************************************************)
(* ArenaMatch seen from the ladder: a match that is not settled is an open *)
(* deposit of its challenger against its defender.                         *)
(***************************************************************************)
EXTENDS ArenaMatch

Deposits == [m \in Matches |->
  IF status[m] = "NONE" THEN [state |-> "FREE", owner |-> None, rival |-> None, amount |-> 0]
  ELSE IF status[m] \in Ended
       THEN [state |-> "CLOSED", owner |-> None, rival |-> None, amount |-> 0]
  ELSE [state |-> "OPEN", owner |-> Challenger(m), rival |-> Defender(m),
        amount |-> StakeOf(m)]]

Ladder == INSTANCE ArenaLadder WITH deposit <- Deposits

\* Matches implement the ladder: whatever the participants, the sweeps, the
\* reviews and the clock do in between, a match takes its stake once, pays it out
\* once and in full, swaps two seats or none, and is over then.
ImplementsLadder == Ladder!Spec
=============================================================================
