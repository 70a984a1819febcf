# Matths: a verification project

Matths is a mathematics-learning service: an Express/MongoDB web application
(`src/web`) and an iPad client (`src/ipad`). Its most intricate part is the *GOAT
Arena*, in which students stake part of what they paid on one-on-one matches and
exchange places on a ladder. This directory holds TLA+ models of it, the TLC
configurations that check them, and TLAPS proofs about them.

## 1. The system

### Components, state and operations

| Component (under `src/web/services`) | State it keeps | Operations |
| --- | --- | --- |
| Unranked match creation: `arenaMatchService`, `arenaRevengeService` | `ArenaMatch`, `ArenaMatchParticipantLock`, deposit in `AccessCycle` | create a normal match, claim or forfeit a revenge right |
| Match attempts: `arenaMatchAttemptService` | `ArenaMatchAttempt` (READY → IN_PROGRESS → EVIDENCE_REQUIRED → SUBMITTED) | start, answer, advance, submit on time-out |
| Match evidence: `arenaMatchEvidenceService` | `ArenaMatchEvidence`, match status, `ArenaAccessState.integrityStatus` | upload, screen the winner, sweep expired windows and starts, Sunday cut-off |
| Unranked settlement: `arenaMatchSettlementService`, `arenaDivisionRuleService` | `ArenaStanding`, `AccessCycle` balances, ledgers with unique keys, `ArenaRevengeRight` | settle by score, forfeit, cancel, settle revenge matches, hold |
| Integrity review: `arenaIntegrityRiskService` | match, evidence, access state, fines | CLEAR, confirm cheating, release or restrict accounts |
| Learning days: `accessCycleDailyService`, `accessCycleService`, `mainLearningDayService`, `arenaRenewalService` | `AccessCycle` | approve a payment, consume days, deplete, expire, renew |
| Card payments: `tossPaymentsService`, `checkoutService`, `paymentWebhookInboxService` | `CheckoutIntent`, inbox, `ArenaPackagePayment` | success redirect, webhook, package application |
| Payback payout: `paybackAccountService` | `PaybackPayoutRecord` | complete a payout |
| Leases and outbox: `schedulerLeaseService`, `arenaOutboxService`, `finalRankingOutboxService`, `finalRankingService` | `schedulerLeases`, `ArenaOutboxEvent`, `LiveFinalRankingProfile` | acquire, renew, release; claim, deliver, acknowledge; recalculate |
| Ranked (MAIN) matches: `mainArena*`, `mainFriendly*` | the Arena collections, with learning days as stake | invitations, offers, matches, settlement |
| Rank takeover (iPad): `rankTakeoverService`, `arenaRevengeRightService`, `arenaMatchScoringOutboxService`, `arenaTakeoverOutboxService`, … | `RankTakeoverMatch`, `ArenaProfile`, `ArenaRevengeRight`, `OutboxEvent`, `RankTakeoverCommandReceipt` | request, accept, reject, start, submit, resolve, hold, invalidate, settle; issue and consume a right; deliver scoring intents; replay a command |
| Attendance: `cycleAttendanceOutboxService`, `cycleAttendanceService` | `OutboxEvent`, `CycleAttendanceDay`, progress in `AccessCycle` | enqueue an intent, claim, record an event, refresh the progress, give up, revive |
| Standings, seasons, accounts, learning content, exams, community, store, administration, analytics | their own collections | mostly request/response over one user's documents |

### How the Arena's parts interact

A *challenger* deposits payback score from his access cycle and gets a match
against a *defender*; both are locked to it. Each starts, answers five questions
and then has sixty seconds to upload photographs of the work. The second upload
scores both sides and screens the evidence of the better one; a clean match is
`SUBMITTED`, a flagged one `HELD`, and both accounts are barred. The controller
then calls `settleArenaMatch` in a *separate* step. Beside the users there are

* the `ARENA_MATCH_TIMERS` loops (every 30 s, under a scheduler lease): submit
  expired attempts, decide matches with missing evidence or missing starts, hold
  whatever is in play from Sunday 15:00, settle expired revenge matches. Each loop
  reads documents, decides, and only then opens the transaction that carries the
  decision out;
* the administrator, who reviews `HELD` matches and may retry settlements;
* the daily job, which takes learning days and may end an access cycle;
* the clock: the start deadline, the evidence windows, Sunday 14:00 (no new
  requests or starts), Sunday 15:00 (the division is locked) and Monday 00:00.

Everything is shared through MongoDB. A transaction is atomic; what was read before
it is not protected, nor is what happens between two transactions.

### How the payments interact

A *checkout intent* fixes product, price and policy version for thirty minutes. The
student pays at the provider, whose page leads the browser back to the success address;
its handler asks the provider to confirm, which is when money is taken, and then
`recordVerifiedPayment` writes in three steps: the event in the webhook inbox, the package
transaction (payment, new cycle, end of the old cycle, ledger, access state, outbox), the
mark `PAID` of the intent. For mock examinations the last two are one transaction. The
provider also posts a webhook, again and again until it is answered with 200; its handler
looks the payment up and goes the same way. Returns, refreshes and webhooks of one order
run at once, and each may die between two writes. The cycle that was bought is then used
by the daily job and staked in the Arena.

### What is hard

Requests that read the clock before a deadline and commit after it; sweeps that act
on what they read earlier; two settlements of one match; settlements of two matches
that touch the same seats and balances; an upload for a match that is over; a crash
between the upload and the settlement; expiry of a cycle under a match; reviews of
two matches of one user; the weekly lock. For payments: two channels that record one
payment, a confirmation whose answer is lost, an order that expires meanwhile, a price that
changes between check and capture, a purchase that ends a cycle still in use. `PROJECT.json` lists each at its line.

What makes each part correct:

* *creation*: nobody is in two unsettled matches, the deposit exists, limits hold;
* *settlement*: a match ends once, pays exactly its stake, moves two seats or none;
* *evidence*: who uploads is not punished, flagged evidence decides nothing unseen;
* *review*: a bar or a penalty is lifted by what it was imposed for, and by nothing else;
* *timers*: no match stays in play for ever, and one bad match stops no other;
* *payments*: one approval, one package, whatever is retried; money that is taken buys
  something; the cycle under a deposit is not replaced;
* *leases and outbox*: one worker at a time, every event delivered, no stale result last;
* *attendance*: what was submitted counts, once, and the progress is what the days say;
* *rank takeover*: the seats a match is about wait for it, its stake comes back or is spent, a loss is
  avenged once, what both have handed in is settled, and a repeated command is not done twice.

## 2. The modules

| Module | What it is |
| --- | --- |
| `ArenaRules` | pure rules: stakes, the plan of every ending, the fine, tier pairs, direction |
| `ArenaMatch` | Unranked matches from creation to settlement: 20 state variables, about 30 actions |
| `ArenaLadder` | the abstract specification: an escrow of stakes beside a permutation of seats |
| `ArenaMatchLadder` | the refinement mapping, `ImplementsLadder` |
| `MCArenaMatch` | instances for TLC |
| `SumTheorems` | what `SumFunctionOnSet` of a finite set is: the lemmas on sums the balances need |
| `ArenaMatch_proofs` | theorems that need no assumption on overlaps |
| `ArenaOrdered_proofs` | theorems under `Ordered` (see 4), the refinement of the ladder among them |
| `CardPayment` | an order from the checkout to the cycle it buys, and the use of the cycle: 16 state variables, 16 actions |
| `MCCardPayment` | instances for TLC |
| `CardPayment_proofs` | theorems about payments, with no assumption on overlaps |
| `OutboxDelivery` | the scheduler lease, the delivery of the outbox and the final ranking it keeps up: 14 state variables, 22 actions |
| `OutboxDelivery_proofs` | theorems about them |
| `RankedMatch` | Ranked matches, invitations and the learning days staked on them: 13 state variables, about 30 actions |
| `RankedMatch_proofs` | theorems about them |
| `CycleAttendance` | from a submitted attempt to attendance: 8 state variables, 20 actions |
| `CycleAttendance_proofs` | theorems about it |
| `RankTakeover` | the takeover of a seat from the request to the settlement, its revenge, and the workers that score it: 11 state variables, 26 actions |
| `RankTakeoverLadder` | its refinement mapping to `ArenaLadder`: an engaged takeover is an open deposit |
| `RankTakeover_proofs` | theorems about it, that mapping and `CommandReceipt` |
| `CommandReceipt` | requests that carry one command key: 3 state variables, 6 actions |
| `MCBackground` | instances of the last five for TLC |

`CardPayment` and `ArenaMatch` meet in two places and each keeps its own view of the
other: the settlement of a match decides whether a cycle may end (`Pending`, in
`ArenaMatch` `PendingSettlement`), and whether a cycle is active decides who may play
(`MatchOpens`, in `ArenaMatch` `Eligible`). `RankedMatch` leaves to `ArenaMatch` what happens
inside a match: attempts, uploads and the screening of evidence are the same code for both
divisions. It keeps what they can do to a ranked match: an upload (`Upload`), which asks neither
for the division nor for the status of the match and so meets matches that are over as well,
holds and forfeits. `OutboxDelivery` sees the others as the transactions that write an event (`Commit`).

### `ArenaMatch` and the code

*State.* `status`, `integrity`, `winner`, `screened`, `terms` are fields of
`ArenaMatch` (`terms` is what creation fixes, with the seat snapshot `tupleBefore`);
`attempt` and `evidence` the statuses of the per-role documents; `ledger` the
versions of the unique settlement keys a match has written; `right` the revenge
right a match produced; `seat` the standing (the code moves rank, position and GP
always together, so a place is one value); `score` and `locked` the two balances of
the access cycle; `lock` the participant lock; `access` the account's integrity
status; `cycle` the access cycle. `phase`, `today`, `expired` are the clock: time is
not counted, a deadline is an event that may happen. `late` and `stale` are what a
process remembers from before its transaction: a request that read the clock in
time, a sweep's decision.

*Actions.* One action is one MongoDB transaction of a handler:

| Actions | Code |
| --- | --- |
| `CreateNormal`, `CreateRevenge`, `ForfeitRight` | `runCreateNormalMatchTransaction`, `createSubRevengeMatch`, `forfeitSubRevengeRight` |
| `StartAttempt`, `FinishQuestions` | `startArenaMatchAttempt`; `advanceArenaMatchQuestion` and `submitArenaMatchAttempt` at the last question, from the user or from `submitExpiredArenaAttempts` |
| `UploadFirst`, `UploadSecond` | `submitArenaMatchEvidence`, without and with the opponent's upload |
| `Settle` | `settleArenaMatch` (after an upload, after a review, or by `SETTLEMENT_RETRY`) |
| `SweepRead`, `SweepAct`, `SweepAbandon` | `holdExpiredEvidence`, `holdExpiredMatchStarts`, `settleExpiredSubRevengeMatches`; with the settlements they call: `Forfeit`, `CancelNoStart`, `RevengeNoShow`, `SettleByScore` |
| `SundayCutoff` | `holdSundayCutoffMatches` |
| `ReviewClear`, `ReviewCheating`, `PenaltyOver` | `reviewHeldArenaMatch` with `cancelClearedUnscorableMatch`, `settleConfirmedMatchCheating`, `resolveIntegrityAccessAfterMatchReview`; the expiry of a penalty in `loadMatchActorContext` |
| `Deplete`, `ExpireCycle` | `consumeDueDailyLearningDays`, `applyExpirationTransition` |
| `StartDeadline`, `EvidenceDeadline`, `LockRequests`, `LockDivision`, `Unlocked`, `NewDay` | the clock, `kstClockParts`, `isSunday...Locked`, `subMatchStartDeadline` |

*Abstractions.* Questions, answers and scores are reduced to which role scores
better (`best`, chosen freely, tie-breaks included); the anomaly detector to a free
Boolean. Thirty-second ticks, sixty-second windows and the 24-hour start limit become
deadline events in any order the code's checks allow.

*Overlaps.* The constant `Races` says, per match, which of three overlaps the
environment may produce: `UPLOAD` (an upload commits on a match that has ended),
`STRADDLE` (a request that read its clock in time commits after the deadline),
`SWEEP` (a sweep acts on an old decision). The code excludes none of them; the
constant exists to say which property needs which overlap excluded, and so what
exactly breaks when it happens.

### `CardPayment` and the code

*State.* `intent`, `open`, `product`, `quote` are the `CheckoutIntent` (status, whether
`expiresAt` has passed, product, policy version); `captured` and `approved` what the
provider knows (money taken, and the policy in force at `approvedAt`); `inbox` the
verified rows of `PaymentWebhookInbox`; `recorded` the idempotency key of the stored
`ArenaPackagePayment`; `grants` counts the cycles or periods an order has produced;
`cycle`, `started`, `days`, `inMatch` the `AccessCycle` it produced, the last standing for
the deposit and the unsettled match together; `stage` how far the handler of a request has
come; `refused` the orders a handler has answered with `PAYMENT_IDEMPOTENCY_CONFLICT`.
A request is an order and a channel: the return of the browser, its refresh, the webhook.

| Actions | Code |
| --- | --- |
| `CreateIntent`, `IntentExpires`, `PolicyChanges` | `createCheckoutIntent`, `CHECKOUT_TTL_MS`, `updateLearningPackagePrice` taking effect |
| `CheckIntent`, `Confirm` | `confirmPayment` before and at the call of the provider (`Capture`, external: it is idempotent per order by the `Idempotency-Key`) |
| `DeliverWebhook` | `processWebhook` up to `recordVerifiedPayment` |
| `Receive` | `receivePaymentWebhook` |
| `ApplyPackage` = `ReplayPackage`, `IssuePackage`, `RejectPackage` | `applyApprovedPackagePayment`: payment found, cycle issued, price or eligibility refused |
| `MarkPaid`, `ApplyMock` | the update that follows; `applyMockExamPayment` |
| `HandlerFails` | the process dies or a later call throws, at any stage |
| `ConsumeFirstDay`, `ConsumeDay`, `ExpireCycle` | `consumeFirstLearningDay`, `consumeDueDailyLearningDays`, `finalizeExpiredAccessCycle` |
| `MatchOpens`, `MatchSettles` | what `ArenaMatch` does to a cycle |

*Abstractions.* A policy version stands for its price, so a new version is a new price.
The same event id always comes with the same body. The first-day mode (before or after
20:00) is a free choice. An inactive account is not distinguished.

### `OutboxDelivery` and the code

*State.* `outbox`, `claim`, `stamp` are the `ArenaOutboxEvent` rows: status, whose
`processingToken` they carry while it is unexpired, and on which side of Sunday 15:00
`createdAt` lies; rows are numbered by `createdAt`, which is the order of claims, and committed
in any order. `lease` is the `schedulerLeases` row. `step` and `handling` say how far a server
has come in `processArenaOutboxEvents`; `calc` what a recalculation has read and not yet
written; `shown` and `staged` the placements that the published and the staged ranking know.
`poison`, `faults`, `stalled` and `tainted` are not in the code: they say which events always
throw, how many faults there were, whether a pass ran for a whole lease without a heartbeat, and
whether the last ranking was written over one that is newer.

| Actions | Code |
| --- | --- |
| `TakeLease`, `TakeLeaseTwice`, `Heartbeat`, `HeartbeatsStop` | `acquireSchedulerLease`, `renewSchedulerLease`, `releaseSchedulerLease` under the runner of the timer |
| `ClaimNext`, `ClaimOverrun`, `ClaimRunsOut` | `claimNextEvent`: the oldest unpublished event without a live claim |
| `HandlePlain`, `CheckLatest` | the handlers, and the question of the trigger's handler whether a later one waits |
| `ReadRows`, `WriteRows`; `BeginRecalculation`, `EndRecalculation`, `RecalculationFails` | `recalculateFinalRanking`, for a trigger, and for the daily job and a settlement |
| `Publish`, `HandlerThrows`, `PoisonThrows`, `PassEnds` | acknowledge, release after an error, the end of a pass |
| `Crash`, `SundayBegins`, `SundayEnds` | a server dies; the freeze begins and ends |

*Abstractions.* A ranking is the set of placements it takes into account. The limit of a
hundred claims of a pass is the choice to end it after any claim but the first.

### `RankedMatch` and the code

*State.* `available`, `reserved`, `locked` are the three buckets of learning days of an
`AccessCycle`, `spent` what has left them. `request` is `MainInvitationRequest` (its
`activeReservationKey` is `keyed`; `held` what it still holds of the inviter's reserved days),
`offer` the `MainInvitationOffer` of an invitation to a player, `game` the `ArenaMatch` with
its two participant locks, `right` the revenge right. A match remembers the number of its `uploads`
and in `paid` which of the four endings with ledger keys of their own it has had: settled, abandoned
because neither came, judged or cleared by a review. `job` is where the daily job is: it
reads lists and writes document after document, outside any transaction.

| Actions | Code |
| --- | --- |
| `CreateInvitation`, `CancelInvitation`, `RefreshOffers` | `createMainLowerInvitation`, `cancelMainInvitation`, `refreshMainInvitationOffers` |
| `Accept`, `AnswerTooLate`, `Decline` | `respondToMainInvitation` |
| `UpwardChallenge`, `StartRevenge`, `ForfeitRevenge` | `createMainUpwardChallenge`, `createMainRevengeMatch`, `forfeitMainRevengeRight` |
| `Upload` | `submitArenaMatchEvidence` |
| `SettleByScore`, `Forfeit`, `CancelGame`, `SettleRevenge` | `settleMainNormalMatch`, `cancelMainNormalNoStart` with `cancelClearedUnscorableMatch`, `settleMainRevengeOutcome` |
| `Hold`, `ReviewClear`, `ReviewCheating` | as in `ArenaMatch`, with fines in days |
| `JobBegins`, `PauseRequests`, `PauseOffers`, `ResumeOffers`, `ResumeRequest`, `AllResumed` | `runDailyAccessCycleSchedule` and the two halves of `synchronizeMainInvitationPauseState` |
| `ListDepleted`, `ListInvitations`, `CancelListed`, `SkipCancelled`, `CancellationThrows`, `JobEnds` | `cancelZeroAvailableMainInvitations` |
| `JobDies` | a crash, or a write that fails |
| `WeekGoesOn`, `ConsumeDay` | the clock; `consumeDueDailyLearningDays` |

*Abstractions.* A standing is its tier, so that `Unmoved` (the comparison of a standing with the
snapshot of the match) lets more pass than the code does. A candidate list is older than the transaction
that uses it, so any player of the wanted tier may be in it. Which deadline passes first is left
open, and so is what a sweep read before its transaction: a forfeit or a no-show may meet any match that
is in play, or cancelled meanwhile, since a settlement turns away no others than `SETTLED` and
`HELD` ones (`Undecided`). Whether a first upload puts its match back in play, which depends on where
the opponent is, is a choice.

*The second life of a match.* When an upload puts a match back in play that was over, its stakes have
been paid out and its participant locks are gone (`HasMatchLock`), so its players may begin another one.
`Ends` says what a second ending can do: it needs a ledger key that has not been used, the event of a
settlement must not exist, and as many days as were staked must be locked of both, *whatever match they
are locked for*. Only then does it pay. Friendly matches, seasons, renewals
and standings without a subscription are left out.

### `CycleAttendance` and the code

*State.* `outboxRow` is the `OutboxEvent` that names an attempt (its status, who has claimed it,
whether the lease is `live`, `attemptCount`, whether `createdAt` is a day ago, and whether
`lastError` says that the attempt was missing). `submission` is how far a request has come that
finishes the attempt, `stored` what the attempt holds (the code saves it without a condition, so
the last of two requests wins), `attendance` the `sourceEvents` of the day documents, `progress`
the streak in the `AccessCycle`, `worker` what a server remembers between two accesses of the
database. `late` and `failures` are not in the code: which attempts were stored when their intent
was a day old, and how many faults there were.

| Actions | Code |
| --- | --- |
| `AskForAttendance`, `StoreSource`, `RequestFails` | `persistLearningSourceWithAttendance`: first the intent, then the attempt |
| `SyncAgain` | `ensureIntent` of the iPad's synchronisation, for an event it has sent before |
| `ClaimIntent`, `LeaseExpires`, `LeaseOverrun`, `GrowsOld` | `claimNextAttendanceIntent`, the lease of a minute, the day of grace |
| `LoadSource` | `loadAttendanceSource` |
| `ReadDay`, `AddEvent` | `persistAttendanceEvent`: the reads, and the write conditional on `version` |
| `ReadCycle`, `ReadRecognized`, `WriteProgress` | `refreshCycleAttendanceProgress` |
| `PublishIntent`, `MarkFailed` | `markAttendanceIntentPublished`, `markAttendanceIntentFailed` |
| `DeliveryThrows`, `ServerDies` | a read or a write that throws (eight lost races included); a crash |

*Abstractions.* An event counts or does not; so many of them make a day. The `version` of a
document is its contents (events are only added), that of the cycle a flag which every other
write of the progress clears. The progress is the set of the days of the streak, of which the
code stores the number and the last one.

### `RankTakeover`, `CommandReceipt` and the code

*State.* `takeover` is `RankTakeoverMatch` with the seats of the request, `clock` says which of
its deadlines have passed, `seat` is `ArenaProfile.arenaPosition`, `freeDays` and `stakedDays` are
the available and the locked balance of the cycle, `revenge` is the `ArenaRevengeRight` of a match,
`settledEvent` its `TAKEOVER_SETTLED` event. `handedIn` are the attempts that are submitted, `intent`
their scoring intents (`OutboxEvent`), `delivery` where a worker is. `mishaps` counts crashes,
stalls and failures. In `CommandReceipt`, `receipt` is the `RankTakeoverCommandReceipt` of a key,
`call` what a request that carries it has done and been told, `timesDone` how often the command has
taken effect.

| Actions | Code |
| --- | --- |
| `RequestNormal`, `RequestRevenge` | `requestChallenge`; for a revenge with `resolveRevengeRight` and `consumeRevengeRight` |
| `AcceptChallenge`, `RejectChallenge`, `StartMatch` | the commands of these names |
| `HandIn` | `submitAttemptInTransaction`, `submitExpiredAttemptInTransaction` with `enqueueArenaMatchScoringIntent` |
| `ChallengerNoShow`, `DefenderNoShow` | `resolveNoShowMatch` |
| `HoldMatch`, `ResolveHeld`, `InvalidateHeld` | `holdMatch`, `resolveHeldMatch`, `invalidateHeldMatch` |
| `SettleResolved` | `settleResolvedMatch` as a command, with `swapArenaPositions` |
| `IssueRight`, `IssueNothing`, `RightExpires` | `handleTakeoverSettledOutboxEvent`, `issueFromSettledMatch`, `markExpiredDurably` |
| `ClaimIntentOf`, `PublishIntentOf`, `GiveUp`, `TryLater`, `DeliveryFails`, `ScorerDies` | `claimNextArenaScoringIntent`, `markArenaScoringIntentPublished`, `markArenaScoringIntentFailed`; a call that throws, a crash |
| `SubmitResult`, `SubmitAgain`, `ResolveScored`, `SettleScored` | `deliverClaimedArenaScoringIntent` at `submitResult`, `resolveScoredMatch`, `settleResolvedMatch` |
| `Observe`, `DoWork`, `AfterFailure`, `StoreFailure`, `ReplayStored` | `executeCommand`: the look before the transaction, the transaction, the look after its failure, the transaction that keeps the failure, the last look |
| `CallIsLost` | the process dies |

*Why a command is one step.* It is one transaction. Of two that interfere both write a common
document: the match (its `version` is checked by the model), or, of two requests, the unique index on
the participants of engaged matches and the access cycles. One of them is rolled back and run again.
The receipt of a key has a unique index as well. What is read outside of a transaction is a
step of its own: what the worker goes on with after each command, the looks at the receipt.

*Abstractions.* Two results are reduced to their comparison. Deadlines are passed at any time; who has
not shown up is decided by a resolver the service is given, so that the choice is free. A deadline on
handing in is one of the role's own, and the deadline worker hands in whatever has become of the match.
The status and the integrity of a cycle, caps, cooldown, protection and the weighted choice of a
defender only restrict which challenges there are, and are left out.

## 3. The runs

The `sub_` runs use `MCArenaMatch`: the best seat is SILVER, the others BRONZE (so same-tier and
next-tier attacks, refunded and burned stakes all occur), every user has a payback
score of 2 (a revenge stake is affordable once, and a second match can find the
balance empty), one attack and one defence a day. Two matches are enough for a
normal match and its revenge, or two matches whose participants, seats and
balances overlap, or a revived match beside its successor. `CHECK_DEADLOCK` is off
because the matches of an instance run out.

| Run | Result | What it shows |
| --- | --- | --- |
| `sub_ordered` (`ArenaOrdered.cfg`) | passes, 0.5 M states | Two users, `STRADDLE` on the first match, one cycle that may run out. `UnsettledMatchIsIntact`, `PaidOutOnce`, `EndedForGood`, `PenaltyIsServed`, `UploaderIsNotForfeited`; and `SweepNeverAborts`: whatever a sweep finds due it can carry out (the loops have no handler around one match, and the timer's promise has no catch). |
| `sub_races` (`ArenaRaces.cfg`) | passes, 0.8 M states | Two users, `UPLOAD` and `SWEEP` on both matches. What survives even that: `TypeOK` (no negative balance), `SeatsDistinct`, `LocksAreLive`, `FlaggedEvidenceIsHeld`, `BarredUsersHaveAReview`, `ScoreConserved`, `WinnerIsNotDemoted`. |
| `sub_ladder` (`ArenaLadder.cfg`) | passes, 0.7 M states | Three users, so that the two matches may share one user or none of the seats: `ImplementsLadder`. |
| `sub_live` (`ArenaLive.cfg`) | passes, 56 k states | `ComesToRest` and `MissingEvidenceIsDecided` under `LiveSpec`, with a batch of two attempts that leftovers may fill. |
| `sub_late_upload` (`ArenaLateUpload.cfg`) | violates `EndedForGood` | finding 1 |
| `sub_sunday` (`ArenaSunday.cfg`) | violates `SundayFreeze` | finding 2 |
| `sub_both_missing` (`ArenaBothMissing.cfg`) | violates `BothMissingIsCancelled` | finding 3 |
| `pay_live` (`CardLive.cfg`) | passes, 28 k states | One order, package or mock examinations, three requests at once, one price change: `TypeOK`, `GrantedOnce`, `PaidIsGranted`, and under `LiveSpec` `CaptureIsGranted`. |
| `pay_two` (`CardPayments.cfg`) | passes, 1.3 M states | Two package orders of one student, two requests each: `OneCycleHoldsTheDeposit`, `DaysAreUsedUp`. |
| `background` (`Background.cfg`) | passes, 0.46 M states | Of the outbox: `OneWorkerDelivers`, `NoResultIsMissed`, `DisplayStandsStill`, `OutboxDrains`. Of ranked matches: `StakeIsLocked`, `DaysConserved`, `ReservationsAreBacked`, `OffersEndWithInvitation`, `PausesEnd`, `DepletedGetDaysBack`. Of the attendance: `PublishedIsRecorded`, `ProgressIsCurrent`, `StoredIsRecorded`. Of the rank takeover: `BaselinesHold`, `LockedIsStaked`, `RevengeIsOwed`, `SomeoneSettles`; of its commands: `AnswersAgree`. |
| `pay_repeats` (`CardRepeats.cfg`) | violates `RepeatsAreAccepted` | finding 4 |
| `pay_days_remain` (`CardDaysRemain.cfg`) | violates `NoPaymentWhileDaysRemain` | finding 5 |

Two users suffice where the question is about one match and its successor; the third
user is needed only for seats that change hands beside a match, and that run leaves
out the overlaps and the depletion to stay small. At most one sweep decision is
outstanding at a time: a second one would only repeat a transaction that the ledger
key or the status check already rejects.

*Fairness.* `LiveSpec` assumes that deadlines pass (weak fairness per match) and two things of the
scheduler, whose ticks recur every thirty seconds. Of the evidence sweep: that it comes to a match that
needs it *as long as its batch holds every attempt there is to read* (`BatchHoldsAll`). It reads a
hundred expired attempts in no order, and skips those of matches that are held or over without closing
them, so that they stay in the batch for good; once they fill it, an attempt may never be reached, and
nothing is assumed any more. This is weak fairness: of the scheduler no more than that it does not
forget for ever what is waiting all the time. Of the Sunday cut-off: that it holds a match which is in
play on Sunday after Sunday (strong fairness, as the lock comes and goes). There the batch is no
obstacle: it reads five hundred matches by their status, a match it holds leaves that query, and the
lock lasts for a thousand ticks. Nothing is assumed of the loops for starts and revenge matches, of users, of
administrators, or of the settlement that follows an upload. `ComesToRest` is further conditional on
Sundays recurring. Rest includes `HELD`. `MissingEvidenceIsDecided` speaks of the time in which the batch
holds everything; without that escape TLC refutes it.

`SweepLimit`, the hundred of the code, is two in the instances. With two matches there are four
attempts, so that those of a held match fill the batch of the other one.

In `CardPayment`, a package of two days has a first and a last day, and the number of days
matters nowhere else; one order shows every overlap of its own requests, and a second
order is needed only for what a purchase does to the cycle before it. `CHECK_DEADLOCK` is
off because the orders of an instance run out. `LiveSpec` assumes that the provider repeats
its webhook until the purchase is granted (weak fairness: the controller answers an error
with a status other than 200 so that it is sent again), and that of handlers started over
and over some run reaches its next write (strong fairness of `Receive`, `ApplyPackage` and
`ApplyMock`). Nothing is assumed of the browser, the daily job or the matches.
`CaptureIsGranted` is about money taken at the price in force at the approval, and it
allows that the student, at some moment after the money was taken, has a cycle in use.

`background` checks five components that share no state, so in a behaviour one of them is at
work, in one of fifteen *scopes*; the properties are those of all. Their type invariants are proved
(section 4) and not checked again. Of the outbox: `FAULTS` (two
servers, the two triggers, two crashes, failures or stalls within a week), `DAILY` (one such fault,
and the recalculation of the daily job, which takes no lease), `SUNDAY` (the same without
faults, with Sundays coming and going) and `POISON` (a third event between the triggers whose
handler may always throw, and one fault). Two servers suffice, as
what a third could do it can only do after one of them has stopped; two triggers, as the
question is always whether an older or a newer one is calculated last; two faults, so that
the server that takes over can fail as well. Of ranked matches: `GAMES` (an invitation, an
upward challenge, two matches of three players in the tiers 3, 2 and 1, hence a match and its
revenge or two that compete for a player; one may be forfeited, go on with a late upload and end again out of what
is locked for the other; no day is consumed, the week stands still while holds may come at any time,
and while a match goes on after its end no invitation is open), `INVITES` (two invitations of one player, whose
reservations a pause, a resumption and a cancellation may mix up) and `JOB` (one invitation and
one death of the job). Five days for the inviter and stakes of two make two reservations
possible and a third not. Of the attendance: `DAYS` (attempts of two consecutive days, hence a
streak that grows in either order), `SAMEDAY` (two attempts that share a day document, one of
which an iPad may repeat) and `GIVEUP` (one attempt, two requests that store different
answers, and an intent that grows a day old). One event makes a day; two tries use up an intent; the
first two scopes have one fault, `GIVEUP` two. Of the rank
takeover: `SCORING` (one match, two workers, three tries of an intent and two mishaps: a worker is
overtaken by another that may die as well, and tries run out), `ENDINGS` (one match with its
deadlines and every authority that may end it), `SEATS` (two matches among four contenders, who may
meet in any role) and `REVENGE` (three matches of two contenders, a revenge and the revenge of it, and one
mishap of the event's delivery). A normal stake is one day and a revenge two, of which one is burned.
Of the receipts: `RECEIPT`, three requests of one key, of which one asks for something else, and
each may be lost. `CHECK_DEADLOCK` is off because the instances run
out of events, invitations, matches, attempts and requests.

*Its fairness.* `OutboxFairness`: every server keeps running passes (weak fairness of the
timer's steps) and a claim whose worker is gone runs out. Nothing is assumed of heartbeats,
and that faults stop is the bound `MaxFaults`. `RankedFairness`: the clock goes on and the
daily job gets its turns; nothing is assumed of players. `AttendanceFairness`: a delivery goes on
(weak fairness per server), leases run out, and intents whose attempt is stored are claimed
again and again (strong fairness: a worker looks every few seconds and takes the one with the
earliest `nextAttemptAt`, which every failure puts off, so that none is passed over for ever);
nothing is assumed of requests. Of the rank takeover and the receipts only safety is checked.
Liveness is stated in the form `[]<>`: "again and again all is
well" is the same as "what is wrong will be put right" where what is right stays so.
`OutboxDrains` excepts what stands behind an
event that always fails, `DepletedGetDaysBack` what a pause has brought back from its end.

### Findings

1. **An ended match comes back to life.** `submitArenaMatchEvidence` does not look at
   the status of the match and, when the opponent is in `EVIDENCE_REQUIRED`, writes
   `IN_PROGRESS`. If the opponent's window expired first and the sweep has settled the
   match, the winner's own upload reopens it. `sub_races` shows what is nevertheless
   preserved; `PaidOutOnce` and `UnsettledMatchIsIntact` are not. Once revived, every
   sweep of the match aborts on the duplicate ledger key, which is the case
   `SweepNeverAborts` is about. A Ranked match comes back in the same way, its locks gone and its
   stakes paid. The sweeps cannot settle it again; held on Sunday, it is an
   administrator's to clear or to judge, and if its players have meanwhile staked days on other
   matches, it is then paid a second time out of those.
   `StakeIsLocked` therefore excepts the players of such a match (see 4 for what remains true of them).
2. **Seats move after Sunday 15:00.** The lock is checked by settlements by score, not
   by forced ones.
3. **Two missing uploads are not always a cancellation.** The first window to expire
   decides, although the other player uploads nothing either.

4. **A repeated report of a payment is an error.** The return and the webhook record one
   payment under different idempotency keys, and the comparison that should recognise a
   replay demands equal keys: whichever comes second gets 409. Nothing is granted twice,
   but the provider's webhook is never accepted, and an order whose first handler died
   before the mark `PAID` keeps `AWAITING_PG`.
5. **Money is taken before eligibility is looked at.** An order can be created and confirmed
   while days of the current cycle are left; the package transaction refuses it after the
   capture, and no code gives the money back.

Not contradictions of any text, but worth knowing. If the price of the package changes
between the check of the intent and the provider's approval, the money is taken at the old
price and the package transaction refuses it for good. And a match held on Sunday with an
unstarted attempt and reviewed CLEAR stays `HELD` with integrity CLEAR; after its start
deadline no user, no sweep and no further review moves it, and its deposit stays
locked. And every forfeit for a missing upload, and every match that is held before one, leaves an attempt in
`EVIDENCE_REQUIRED` that `holdExpiredEvidence` reads again at every tick. Once there are a hundred of them it
may read nothing else, and missing uploads are decided no more until the Sunday cut-off holds the
match for an administrator.

From the outbox and the ranking:

* An event whose handler always throws is claimed again at once, as it stays the oldest, until the
  pass has made its hundred claims; nothing younger is delivered any more (the exception in
  `OutboxDrains`).
* Of two overlapping recalculations the one that read first may write last; its stale rows stay
  until the next one (the exception `tainted` in `NoResultIsMissed`).
* A trigger is calculated for the moment it was created at. One of Sunday delivered on Monday
  stages its result again, and one from before Sunday delivered on Sunday publishes during the
  freeze (the exception in `DisplayStandsStill`). `publishMondayFinalRanking` has no caller.

From ranked matches:

* The pause of Sunday writes `PAUSED` over whatever has become of the invitations it listed. One that
  was accepted or cancelled meanwhile comes back: it holds no days and no key, and once
  refreshed and accepted it takes the reservation of another invitation of the player
  (the exception `overwritten`). With nothing reserved its automatic cancellation throws, the
  loop has no handler around one invitation, and the rest of the daily job is not done.
* The loop over the invitations of a depleted player goes on after the first cancellation has
  given days back, and charges the fee of each.
* An answer between the two writes of a resumption is `SUPERSEDED`, and the candidate is not
  asked again.

From the attendance:

* The day of grace is counted from the creation of the intent, and neither `createdAt` nor
  `attemptCount` is reset when a request takes up a `DEAD` intent again. An attempt stored when its
  intent is a day old may find it given up, and is not attendance (the exception `late` in
  `StoredIsRecorded`); only the iPad repeats its reports.
* Tries while the attempt was missing count toward the 25: after a long wait one other error ends
  the intent at once (the exception `GivenUp`).
* Two requests that finish one attempt write it one after the other. If the first answer was
  recorded before the second was stored, the event keeps the first one, and a repeated delivery
  conflicts with it until it is given up.

From the rank takeover:

* Two results that compare equal go to a resolver of ties which nothing in the repository provides. The
  match stays `SUBMITTED`, and both contestants engaged, until an authority holds it; the intent is
  tried 25 times and is then `DEAD` (the exception `TriedEnough` in `SomeoneSettles`).
* `resolveNoShowMatch` and the commands on held matches have no caller in the repository, and neither has
  a settlement after them: a match resolved by a no-show or out of a hold is settled only by a
  command that somebody gives (which is why `SomeoneSettles` is about the others).
* An `INVALID` no-show writes a settled event which the handler of revenge rights takes for an error that
  no repetition helps: it ends `DEAD`. No right is lost by it.
* A failure that may pass leaves no receipt, so that one key may be told to come back and then
  be told of a success, or of a refusal; `AnswersAgree` is about the answers that are final.

## 4. What is proved

`ArenaMatch_proofs`, for every set of users and matches, every ladder, all balances
and limits and **every** value of `Races`:

* `TypeCorrect`, `SeatsStayDistinct`, `LocksStayLive`, `FlaggedEvidenceStaysHeld`,
  `BarredUsersAreReviewed`, `WinnersAreNotDemoted`; and, if there are finitely many users,
  `ScoreIsConserved` (`ScoreConserved`);
* `SeatsMoveByWins`, `SeatsArePermuted` and `SundayMovesAreUnplayed`.

`ArenaOrdered_proofs`, under `Ordered == \A m \in Matches : Races[m] \subseteq
{"STRADDLE"}`:

* `MatchesStayIntact`, `MatchesArePaidOutOnce`, `MatchesEndForGood`,
  `UploadersAreNotForfeited`, `PenaltiesAreServed`, `MatchesImplementLadder`
  (`ImplementsLadder`), `DueDecisionsAreExecutable`.

*Assumptions* are those on the constants in `ArenaMatch`: seats are distinct positive
numbers, a better seat is never of a lower tier, `None` is neither a user, a match nor a
role, match ids are naturals (TLC evaluates all of them). That `Users` is finite is a
hypothesis of `ScoreIsConserved` alone, which is about a sum over them; the second module uses
finite cardinalities of ledgers only.

*Argument.* The inductive invariant of the first module is

    IInv == TypeOK /\ MatchesOK /\ SeatsDistinct /\ LocksAreLive
                   /\ FlaggedEvidenceIsHeld /\ BarredUsersHaveAReview

None of the conjuncts is inductive alone. `LocksAreLive` needs `MatchesOK` (an existing
match has two distinct participants, a match not yet created has none) to know whom a
lock can belong to. `BarredUsersHaveAReview` needs `FlaggedEvidenceIsHeld`: flagged
evidence leaves a match only by a review, which releases the same users. A seat swap
keeps seats distinct because `SourceIntact` is tested in the same transaction. To avoid
treating thirty actions eleven times, `StepShapes` classifies a step once (opens a
match, plays, holds, ends it by a result, by a cancellation, by a review, moves the
clock, or touches a cycle), and `SettledBy` says what any ending does. `WinnersAreNotDemoted` adds the
invariant that the challenger of a normal match sits below its defender, which is where
the monotonicity of tiers is used.

The second module adds

    OInv == IInv /\ stale = {} /\ UnsettledMatchIsIntact /\ PaidOK

`UnsettledMatchIsIntact` is not inductive without the locks: the match created second
could otherwise take the seats or the deposit of the first. `PaidOK` gives the version
under which an ended match was paid and that others have an empty ledger. That a
restriction is never lifted early follows from `RestrictedIdle`: a restricted user is in
no unsettled match, and only participants' accounts are touched by a review or an upload.

*Who moves a seat.* `SeatMover` finds, for a step that changes `seat`, the match it is of: one
won by its challenger, whose two seats are exchanged (`WonBySwap`), and, while the division is locked,
one that was decided unplayed: by a confirmed cheat or for the absence of the defender of a normal
match. `ScoredTogether` (once both have uploaded, one of them scores better) tells whose win a
settlement by score is. So `SundayMovesAreUnplayed` says that finding 2 is the whole of it: there is
no third way to move a seat after Sunday 15:00. `SeatsArePermuted` is more than `SeatsDistinct`: no seat
falls vacant either, in any chain of matches, revenges and reviews.

*Sums.* `ScoreConserved` says that the scores and deposits of all users and what was burned add up to
what they began with, and is stated with the community modules' `SumFunctionOnSet`, a fold over a
recursive function. `SumTheorems` first shows that this function exists for a finite set
(`SumExists`) and that its value depends on nothing but the summands (`SumOfSame`), in whatever
order they are taken (`SumWithout`). The induction theorems of the library cannot be used with the
installed provers; `BySmallerSets` and `ByPredecessor` do induction by a minimal counterexample
instead, for which that < and strict inclusion are well-founded is enough. What a proof about a
balance then needs is `SumWithOneChanged`: a sum follows the one summand that changes.
`PlansDivide` says that every plan hands out exactly the stake, `ConcludedMoney` what an ending
does to the two accounts (their fines included, and that no fine exceeds the account), and
`ConcludedWorth` that what the two lose together is what is burned.

*The ladder.* `MatchesImplementLadder` maps a match to a deposit: free before it is created, open while
it is unsettled, closed when it has ended. `DepositsStay` says that what neither opens nor ends a match is a
stutter; `OpensDeposit` that a creation opens a deposit of a user who is engaged in no other one, for
which the locks are needed (an unsettled match holds the locks of both participants, a creation
asks that both be free); `ConcludedCloses` that an ending divides the whole deposit and
swaps the seats of the two or none. This needs `Ordered`: in `sub_late_upload` a match comes back
from its end, and a closed deposit never does.

*What stops a sweep.* `SweepNeverAborts` speaks of `ENABLED`, which is out of the prover's reach, and is
checked by TLC. `DueDecisionsAreExecutable` is its counterpart: `Executable(d)` collects, in
terms of the state before the step alone, what the transactions look at before they write, and
holds of every decision a loop finds due. `WritesCarryOut` shows that nothing else is looked at:
where it holds, the assignments of `Writes(d)`, each to a variable of its own, carry the decision out. Needed
besides `OInv` is `SubmittedTogether`: a match in play to which both have uploaded is `SUBMITTED`,
also after a review has put it back into play.

*Only model-checked*: `SweepNeverAborts` as it stands, and the two liveness properties.

`CardPayment_proofs`, for any students, orders, products, channels, number of days and of
policies: `PaymentTypes`, `PaymentGrantsOnce`, `PaymentPaidIsGranted`, `DepositIsHeld`,
`CyclesEndUsedUp`, from the assumptions on the constants in `CardPayment`. The first two
safety properties follow from `IInv == TypeOK /\ Agreement`: `OrderAgrees` says what intent,
stored payment and grant of an order say of each other (for a package the payment and the
grant are one write and the intent a later one; for mock examinations the intent and the
grant are one), and `HandlerAgrees` what a handler at a stage has left behind. Neither is
inductive without the other: `MarkPaid` is right only because its handler came through a
transaction that granted, and that transaction is right only because `Receive` came first.
`OneCycleHoldsTheDeposit` is inductive with `TypeOK`; `CycleSteps` first reduces the sixteen
actions to the three things that can happen to a cycle (a purchase, a use, a match), and
`DaysAreUsedUp` follows from the same lemma. `CaptureIsGranted` is model-checked only.
Three theorems say what remains where the code refuses or repeats. `PackagesKeepTheirPrice`: what
was recorded was paid for at the price of its quote, which was in force at the approval, although the
handler that records it may run when the price is another. `RefusalsComeLate`: who is answered with
`PAYMENT_IDEMPOTENCY_CONFLICT` (finding 4) already has what the money bought. `SalesAreForGood`:
what was captured, recorded, granted or marked stays so, and a cycle only loses days and ends.
They rest on `Sales`, which adds to `IInv` what a stored payment, a cycle and a refusal presuppose.

`OutboxDelivery_proofs`, for any servers, recalculators, events and number of faults:
`TypeCorrect`, `OneWorker` (`OneWorkerDelivers`), `NothingIsMissed` (`NoResultIsMissed`),
`SundayStandsStill` (`DisplayStandsStill`). `LeaseInv` adds to mutual exclusion that without a
stall the worker of a pass holds a live lease (`WorkerHasLease`), and that a claim belongs to
who works on the event or to nobody who works (`ClaimIsKept`). `RankingInv`
says that the ranking is up to date (or `tainted`) once no trigger waits, and that it will be once
the worker that is about to publish the last one has done so. A trigger is skipped only while a
later one waits, which is why skipping is right; that no second worker publishes that one
meanwhile is where `LeaseInv` is needed.

`RankedMatch_proofs`, for any players, tiers, stakes, fees and days: `TypeCorrect`
(no bucket is ever negative), `StakesAreLocked` (`StakeIsLocked`), `OffersEnd`
(`OffersEndWithInvitation`), `DaysAreConserved` (`DaysConserved`), and, for finitely many invitations,
`ReservationsStayBacked` (`ReservationsAreBacked`). `StakeIsLocked` excepts whoever is party to a match
that went on after its end (`EndedBefore`), and no one else: their opponents in other matches are
covered. It is inductive with the types, `PlayersNamed` (a match that exists has two different
players) and `PaidInv` (what is over has been paid, what does not exist has not): an undisturbed
player's unsettled matches are unpaid, so that the participant locks tell who is free, and an ending that pays
out of the wrong match makes both of its parties disturbed. `OfferInv` is
needed because the property alone does not survive the second write of a pause or of a
resumption: it says which offers the invitations on the job's list can have at each point
between its writes. `DaysAreConserved` needs `AttackerAloneStakes`: nothing is at stake for the
defender of a revenge, so that its settlement may ignore the defender's stake. `ReservationsAreBacked`
alone is not inductive: an acceptance takes the *stake* of the invitation out of the reservation, not what
the invitation holds, and would take what another one holds if the two differed. `Backed` therefore adds
`HoldsItsStake`: while no pause has overwritten an invitation that was over, each live one holds
exactly its stake. With the overwritten ones it is false, which is why the property
excludes them (see 3). The sums are those of `SumTheorems`.
For finitely many players, `AllDaysAreAccountedFor` joins the balances of all: what one loses another
gets or it is spent, also in a half-done daily job; two terms of the sum change at once, or one and `spent`
(`SumWithTwoChanged`). `RevengeIsTakenOnce` rests on `RevengeInv`, which follows a right from the match
that earned it to the one that used it: a right comes of a match that was `Scored`, to which nobody has
anything left to upload, so that no late upload can reach it. `MatchesStayOver` says, for *every* match,
what late uploads and outdated decisions can do to it after its end, and that this is all: each of the four
endings pays at most once (so a match is paid at most four times in all, and settled at most once),
staked days leave the locked ones only then, and rights do not come back. It uses the case distinction
`GameChange`: a step begins a match, lets one go on (`Uploaded`, `PutOnHold`, `Released`), ends one
(`Concludes`), gives a right up, or leaves the matches alone. `WinnersRise` needs `ChallengersLookUp`, which
is about the standings that the creation wrote down; that those are still what they were is
compared by every settlement (`Unmoved`), so that it holds in the second life of a match as well.
`TiersStayFilled` follows, for finitely many players: an exchange keeps the number of players of every tier.

`CycleAttendance_proofs`, for any attempts, answers, dates, servers, limits and number of faults:
`AttendanceTypes` (`AttendanceTypeOK`), `PublishedAreRecorded` (`PublishedIsRecorded`),
`ProgressFollowsDays` (`ProgressIsCurrent`). For the second, a worker past `AddEvent` has its event
in the day, where nothing is ever removed, and one about to add it has seen no other answer
of its attempt. For the third, streaks are ordered by `Behind` (part of the other, or ended
before it): as days are only added, what is derived later is never behind. `InOrder` says that the
progress is never ahead of the days, and that a worker whose reading of the cycle is still fresh
writes nothing behind it; `UpToDate` that while the progress is not what the days say, the delivery
of some recorded event has yet to see to it. That a streak has a last day at all is the
well-foundedness of the dates.
Two theorems account for the attempts, from `AccountInv`. `NoAttendanceWithoutAttempt`: an event in the
document of a day is of an attempt of that day and says what a request stored in it, though
the intent is written before the attempt and outlives a request that fails. `StoredIsAnsweredFor` is what
can be proved of `StoredIsRecorded`: what is stored is recorded or has an intent somebody will claim,
with the two exceptions of the liveness property. It needs `GraceKept`: who gives an intent up as missing
did not find the attempt when the intent was a day old, so that an attempt stored later is `late`.

`RankTakeover_proofs`, for any contenders, seats, days, stakes, matches, workers, tries and number of
faults: `TakeoverTypes`, `SeatsAwaitSettlement` (`BaselinesHold`), `StakesReturn` (`LockedIsStaked`),
`RevengeOnce` (`RevengeIsOwed`), `ScoredIsSettled` (`SomeoneSettles`). The assumptions are that the seats
a season begins with are distinct, that a stake is positive and that of a revenge above what it
burns. The first two invariants rest on `Contest`: two engaged matches share nobody (the unique index),
so that a settlement moves only seats no other match is about, and releases days no other match has
locked. `Rights` says what each state of a right means for the matches that came of it.
`Scoring` adds to `SomeoneSettles` what a worker that has come so far may rely on (`AtWork`), what an
intent that is through has left behind (`Left`), and what a match with so many results has behind it
(`Told`): these stay true whatever the other worker does, because results, decisions and settlements
are never taken back.

From `Contest` follow, for finitely many matches and (for the sum) contenders,
`TakeoversImplementLadder` and `ChallengeDaysAreConserved`, and without that `SeatsMoveByWins`,
`SeatsArePermuted` and `TakeoversEndForGood`. `RankTakeover` and `ArenaMatch` share no code, collections
or units, and implement one abstract specification, `ArenaLadder`. Here no `Ordered` is needed: every
command reads the match in the transaction that writes it. `StepEffects` reduces the actions of
commands, clock, workers and events to three effects: a request opens a deposit, a settlement,
cancellation or invalidation closes it (`Finishes`), and everything else moves no seat and no day.
What was burned is stored nowhere in the model, so the mapping derives it from the settled matches (`Burns`, `DaysBurned`), and
`SumTheorems` shows that each settlement adds its own.

Its last section is about `CommandReceipt`, for any requests, keys and failures:
`OneAnswerForAll` (`AnswersAgree`). A
receipt is written once; it says `DONE` exactly when the command has taken effect; and
a request gives a final answer only from a receipt, or when it has written one itself. That the last
answer of `executeCommand` (its own failure, without a receipt) is never given is part of the proof.

*Only model-checked*, in every component: what a fair scheduler brings about (`ComesToRest`,
`MissingEvidenceIsDecided`, `CaptureIsGranted`, `OutboxDrains`, `PausesEnd`, `DepletedGetDaysBack`,
`StoredIsRecorded`), because liveness under fairness is beyond the prover; and `SweepNeverAborts`.
Every other invariant and action property of a passing run is a theorem.

*Proved without a run of their own*: `SeatsMoveByWins`, `SeatsArePermuted` (twice each),
`SundayMovesAreUnplayed`, `PackagesKeepTheirPrice`, `RefusalsComeLate`, `SalesAreForGood`,
`AllDaysAreAccountedFor`, `RevengeIsTakenOnce`, `MatchesStayOver`, `WinnersRise`, `TiersStayFilled`,
`NoAttendanceWithoutAttempt`, `StoredIsAnsweredFor`, `TakeoversImplementLadder`,
`ChallengeDaysAreConserved`, `TakeoversEndForGood`. The formulas stand in the proof modules before their
theorems. The proofs cover the instances of the runs, and keep those short.

## 5. What is not modelled, and why

* In the modelled handlers: open risk cases of an account (they can only delay a release),
  the 24-hour block of a supplemental request, note reviews, the switch that pauses
  matchmaking, the defence-pool flag, the hold for a missing problem pack (a sealed pack is
  created in the same transaction as its match), the recalculation of the final ranking
  after a settlement, compensation of review time, seasons, the reset cancellation by an
  administrator, and that the Sunday cut-off preserves an integrity status it read a moment
  earlier.
* The branch of `submitArenaMatchEvidence` for a HELD match with a pending
  `ArenaEvidenceDeadline` to-do: no code in the repository creates such a to-do.
* In the payments: inactive accounts, the payment-instrument signal, what the package
  transaction writes to standings, access state, Ranked renewal and the outbox, signatures
  and conflicting bodies in the inbox, parent invitations. The recalculation of the ranking
  that follows a purchase appears only as a way for the handler to fail.
* In the outbox: the contents of a ranking, the change of the season, retiring profiles, the
  handlers that only notify, and what a recalculation read of itself while it was reading (the
  reads are one step).
* In ranked matches: friendly matches, the filters on candidates (recent opponents, rest, pools),
  attempts and the screening of evidence, the renewal of a depleted student, and the rest of the daily job.
* In the attendance: which sources count (the classification by status, duration and integrity),
  attempts that have expired, minutes and problems, the thirtieth day and the refund condition,
  a source whose cycle has changed between two requests (`ATTENDANCE_OUTBOX_CONFLICT`), review and
  reversal of a day, and an event dated after the clock of the worker.
* In the rank takeover: what only restricts who may be challenged when (caps, cooldown, protection,
  tier gaps, the weighted defender), accounts and cycles that change between request and
  settlement, questions and scores, the ledger of days and its reconciliation, the leases and
  fencing tokens of the device that plays an attempt, the audits, and the counters of a cycle.
* The components listed as `not_modelled` in `PROJECT.json`, each with its reason.

## 6. Plan

1. *Unranked matches* (done): rules, matches, ladder, refinement, proofs.
2. *`CardPayment`* (done): redirect and webhook on one order, provider idempotency, a crash
   after each write, expiry of the intent, use of the cycle, proofs.
3. *`OutboxDelivery`* (done): the scheduler lease and the final ranking; claims that run out,
   lost leases, poison events, overlapping recalculations, the Sunday freeze, proofs.
   *`RankedMatch`* (done): challenges, invitations with their offers, settlements, the daily job,
   proofs. *`CycleAttendance`* (done): intents, workers, documents of days, progress, proofs.
   *`RankTakeover`*, *`CommandReceipt`* (done): commands, revenge, scoring workers, receipts, proofs.
4. *Refinement proofs* of `ImplementsLadder`, for matches under `Ordered` and for takeovers; sums of
   balances; what remains true beside the findings (done). Left to TLC: `SweepNeverAborts` and liveness.
5. *`AccessCycle`*: expiry, grace and re-entry with the access state and Ranked renewal; days
   are conserved across the MAIN buckets.
6. *Later*: payback payouts, the fenced leases of a device that plays a takeover, friendly matches.
