SPECIFICATION Spec
CONSTANTS
  Users = {1, 2}
  Matches = {1, 2}
  None = None
  InitialSeat <- MCInitialSeat
  Tier <- MCTier
  InitialScore <- MCScore
  AttackLimit = 1
  DefenseLimit = 1
  Depletable = {}
  SweepLimit = 2
  Races <- NoRaces
PROPERTIES
  SundayFreeze
CHECK_DEADLOCK FALSE
