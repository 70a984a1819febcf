---------------------------- MODULE MCArenaMatch ----------------------------
(***************************************************************************)
(* Small instances of ArenaMatch for TLC.                                  *)
(***************************************************************************)
EXTENDS ArenaMatchLadder

\* Three seats: seat 1 is SILVER, the others BRONZE, so that a same-tier attack,
\* an attack on the next tier, a refunded and a burned stake are all possible.
MCInitialSeat == [u \in Users |-> u]
MCTier        == [s \in Seats |-> IF s = 1 THEN 1 ELSE 0]
MCScore       == [u \in Users |-> 2]

NoRaces    == [m \in Matches |-> {}]
OldClock   == [m \in Matches |-> IF m = 1 THEN {"STRADDLE"} ELSE {}]
LateUpload == [m \in Matches |-> {"UPLOAD"}]
LateSweep  == [m \in Matches |-> {"UPLOAD", "SWEEP"}]
=============================================================================
