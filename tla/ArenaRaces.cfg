SPECIFICATION Spec
CONSTANTS
  Users = {1, 2}
  Matches = {1, 2}
  None = None
  InitialSeat <- MCInitialSeat
  Tier <- MCTier
  InitialScore <- MCScore
  AttackLimit = 1
  DefenseLimit = 1
  Depletable = {1}
  SweepLimit = 2
  Races <- LateSweep
INVARIANTS
  TypeOK SeatsDistinct LocksAreLive FlaggedEvidenceIsHeld BarredUsersHaveAReview
  ScoreConserved
PROPERTIES
  WinnerIsNotDemoted
CHECK_DEADLOCK FALSE
