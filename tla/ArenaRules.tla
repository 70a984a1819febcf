----------------------------- MODULE ArenaRules -----------------------------
(***************************************************************************)
(* The rules of an Unranked ("SUB") GOAT Arena match that depend on        *)
(* nothing but their arguments: who may attack whom, and how every way of  *)
(* ending a match divides the payback score the challenger staked.         *)
(*                                                                         *)
(* Tiers are numbered from the bottom, 0 being BRONZE.  A place in the     *)
(* ladder (the tuple rank, position, GP, which always travels as a whole)  *)
(* is a seat, numbered from the top: seat 1 is the best one.               *)
(***************************************************************************)
EXTENDS Integers

Roles == {"CHALLENGER", "DEFENDER"}

Other(role) == IF role = "CHALLENGER" THEN "DEFENDER" ELSE "CHALLENGER"

Bronze == 0

NormalStake  == 1
RevengeStake == 2

Stake(kind) == IF kind = "REVENGE" THEN RevengeStake ELSE NormalStake

(***************************************************************************)
(* A plan: do the two participants swap their seats, and how much of the   *)
(* stake goes back to the challenger, to the defender, and to nobody.      *)
(***************************************************************************)
Plan(swap, toChallenger, toDefender, burn) ==
  [swap |-> swap, toChallenger |-> toChallenger,
   toDefender |-> toDefender, burn |-> burn]

Plans == [swap : BOOLEAN, toChallenger : 0..RevengeStake,
          toDefender : 0..RevengeStake, burn : 0..RevengeStake]

\* Defects the properties must notice: a refunded stake is burned as well, a stake
\* is both returned and burned, and a fine is rounded up past the balance.
NormalPlanBurnsRefund(winner, challengerTier) ==
  IF winner = "DEFENDER"          THEN Plan(FALSE, 0, 1, 0)
  ELSE IF challengerTier = Bronze THEN Plan(TRUE, 1, 0, 1)
  ELSE                                 Plan(TRUE, 0, 0, 1)
IntegrityPlanReturns(cheaters, stake) ==
  IF cheaters = {"DEFENDER"} THEN Plan(TRUE, stake, 0, 0) ELSE Plan(FALSE, stake, stake, 0)
PenaltyBurnPlusOne(balance) == (balance \div 3) + 1
\* Defect: the tier distance is taken without its direction.
TierDistanceAllowed(challengerTier, defenderTier) ==
  defenderTier \in {challengerTier - 1, challengerTier, challengerTier + 1}

\* A normal match: a winning challenger takes the defender's seat, and only a
\* BRONZE challenger gets the stake back; a losing one pays the defender.
NormalPlan(winner, challengerTier) ==
  IF winner = "DEFENDER"            THEN Plan(FALSE, 0, 1, 0)
  ELSE IF challengerTier = Bronze   THEN Plan(TRUE, 1, 0, 0)
  ELSE                                   Plan(TRUE, 0, 0, 1)

\* A revenge match: it always costs the avenger at least one of the two points.
RevengePlan(outcome) ==
  CASE outcome = "ATTACKER_WIN"     -> Plan(TRUE, 0, 0, 2)
    [] outcome = "DEFENDER_NO_SHOW" -> Plan(TRUE, 1, 0, 1)
    [] outcome = "DEFENDER_WIN"     -> Plan(FALSE, 0, 1, 1)
    [] outcome = "ATTACKER_NO_SHOW" -> Plan(FALSE, 0, 1, 1)
    [] OTHER                        -> Plan(FALSE, 0, 0, 2)   \* BOTH_NO_SHOW

\* An administrator confirmed that `cheaters` (one role or both) cheated.
IntegrityPlan(cheaters, stake) ==
  IF cheaters = {"DEFENDER"}        THEN Plan(TRUE, stake, 0, 0)
  ELSE IF cheaters = {"CHALLENGER"} THEN Plan(FALSE, 0, stake, 0)
  ELSE                                   Plan(FALSE, 0, 0, stake)

\* What a confirmed cheater loses of the score that is left: a third, rounded up.
PenaltyBurn(balance) == (balance + 2) \div 3

\* The tier pairs for which problems exist: the same tier or the next one up.
TierPairAllowed(challengerTier, defenderTier) ==
  defenderTier \in {challengerTier, challengerTier + 1}

\* Inside a tier a normal attack goes up the ladder.
UpwardDirection(challengerTier, challengerSeat, defenderTier, defenderSeat) ==
  challengerTier = defenderTier => defenderSeat < challengerSeat
=============================================================================
