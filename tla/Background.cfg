SPECIFICATION Spec
CONSTANTS
    Workers = {s1, s2}
    Recalculators = {daily}
    LastEvent = 3
    Triggers = {1, 3}
    Newcomers = {1}
    MaxFaults = 2
    Nobody = Nobody
    u1 = u1
    u2 = u2
    u3 = u3
    u4 = u4
    Players = {u1, u2, u3}
    Invitations = {1, 2}
    Games = {1, 2}
    NoOne = NoOne
    Tiers = {1, 2, 3}
    StartingTier <- StartTier
    StartingDays <- StartDays
    Stakes = {2}
    MinimumStake <- LeastStake
    AutomaticFee = 1
    ManualFee = 0
    RevengeFee = 1
    MaxSpent = 2
    MaxJobDeaths = 1
    att1 = att1
    att2 = att2
    att3 = att3
    submitted = submitted
    resubmitted = resubmitted
    Sources = {att1, att2, att3}
    Answers = {submitted, resubmitted}
    DateOf <- DateOfSource
    LastDate = 2
    Resynced = {att1}
    Servers = {s1, s2}
    Nothing = Nothing
    NeededEvents = 1
    MaxAttempts = 2
    MaxFailures = 2
    Contenders = {u1, u2, u3, u4}
    Vacant = Vacant
    FirstSeat <- FirstSeats
    FirstDays <- ChallengeDays
    Takeovers = {1, 2, 3}
    NormalCosts = {1}
    RevengeCosts = {2}
    RevengeBurn = 1
    Scorers = {s1, s2}
    MaxTries = 3
    MaxMishaps = 2
    call1 = call1
    call2 = call2
    call3 = call3
    same = same
    other = other
    Calls = {call1, call2, call3}
    Fingerprint <- AskedFor
    Refusals = {refused}
    Unknown = Unknown
INVARIANTS
    OneWorkerDelivers
    NoResultIsMissed
    StakeIsLocked
    ReservationsAreBacked
    OffersEndWithInvitation
    PublishedIsRecorded
    ProgressIsCurrent
    BaselinesHold
    LockedIsStaked
    RevengeIsOwed
    SomeoneSettles
    AnswersAgree
PROPERTIES
    DaysConserved
    DisplayStandsStill
    OutboxDrains
    PausesEnd
    DepletedGetDaysBack
    StoredIsRecorded
CHECK_DEADLOCK FALSE
