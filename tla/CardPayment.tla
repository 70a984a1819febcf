---------------------------- MODULE CardPayment ----------------------------
(***************************************************************************)
(* A card payment from the order to the access it buys.                    *)
(*                                                                         *)
(* An order (CheckoutIntent) is paid at the payment provider.  The browser *)
(* comes back to the success address, whose handler asks the provider to   *)
(* confirm - that is when money moves - and then records what was bought;  *)
(* the provider also posts a webhook, repeated until it is answered with   *)
(* 200, whose handler records the same purchase from what it looks up.     *)
(* Both handlers are sequences of separate writes; each can die between    *)
(* two of them, and any number of them can run at once on one order.       *)
(*                                                                         *)
(* A PACKAGE order buys an access cycle of learning days, which the daily  *)
(* job uses up; a MOCK order buys a period of mock examinations.           *)
(***************************************************************************)
EXTENDS Naturals

CONSTANTS
    Users,
    Orders,
    Buyer,          \* Buyer[o]: the student the order is for
    Products,       \* what is on sale
    Channels,       \* the requests that may run at once for one order
    PackageDays,    \* initialLearningDays of the policy
    MaxPolicy       \* bound: the price of the package changes at most MaxPolicy - 1 times

ASSUME OrdersAssumption ==
    /\ Buyer \in [Orders -> Users]
    /\ Products \subseteq {"PACKAGE", "MOCK"}

ASSUME ChannelsAssumption == Channels \subseteq {"REDIRECT", "REFRESH", "WEBHOOK"}

ASSUME BoundsAssumption == PackageDays \in Nat \ {0} /\ MaxPolicy \in Nat \ {0}

VARIABLES
    policy,     \* the policy version in force, which fixes the price of the package
    intent,     \* status of the CheckoutIntent, "NONE" before it is created
    open,       \* expiresAt of the intent has not passed
    product,    \* productCode of the intent
    quote,      \* policy version the intent was priced by
    captured,   \* the provider has taken the money
    approved,   \* policy version in force at the provider's approvedAt
    stage,      \* how far the handler of a request has come
    inbox,      \* PaymentWebhookInbox: verified <<order, event>> pairs
    recorded,   \* event under which the ArenaPackagePayment of an order is stored
    grants,     \* how many cycles or periods an order has produced
    cycle,      \* status of the access cycle the order produced
    started,    \* firstDayConsumedAt of that cycle is set
    days,       \* availableLearningDays of that cycle
    inMatch,    \* a match entered under that cycle, deposit and all, is not settled
    refused     \* orders a handler has answered with PAYMENT_IDEMPOTENCY_CONFLICT

orderVars == <<intent, open, product, quote>>
providerVars == <<captured, approved>>
cycleVars == <<cycle, started, days, inMatch>>
vars == <<policy, orderVars, providerVars, stage, inbox, recorded, grants,
          cycleVars, refused>>

Requests == Orders \X Channels
Policies == 1..MaxPolicy
Stages == {"IDLE", "CHECKED", "CONFIRMED", "RECEIVED", "APPLIED"}

(***************************************************************************)
(* The event id a request records its purchase under: the provider's       *)
(* transmission id of a webhook, or an id derived from the payment key,    *)
(* the same for every return to the success address.                       *)
(***************************************************************************)
Event(r) == IF r[2] = "WEBHOOK" THEN "TRANSMISSION" ELSE "CONFIRM"
Events == {"TRANSMISSION", "CONFIRM"}

\* Defect: only a payment stored under the same event counts as stored.
ReplayedEvent(r) == recorded[r[1]] = Event(r)

(* A stored payment matches on any of event, order and payment key. *)
Replayed(r) == recorded[r[1]] # "NONE"

SameApproval(r) == recorded[r[1]] = Event(r)

CyclesOf(u) == {o \in Orders : Buyer[o] = u}
Active(u) == {o \in CyclesOf(u) : cycle[o] = "ACTIVE"}

(* A match of the student is not settled. *)
Pending(u) == \E o \in CyclesOf(u) : inMatch[o]

\* Defect: a purchase looks at the learning days only.
MayBuyDespiteMatch(u) == \A o \in Active(u) : days[o] = 0

\* Defect: a purchase looks at the matches only.
MayBuyAnyDay(u) == ~Pending(u)

(* Nothing is left of the current cycle and no match is waiting for its end. *)
MayBuy(u) ==
    /\ \A o \in Active(u) : days[o] = 0
    /\ ~Pending(u)

(* The approved amount is the price of the policy in force at the approval. *)
PriceHolds(o) == approved[o] = quote[o]

Init ==
    /\ policy = 1
    /\ intent = [o \in Orders |-> "NONE"]
    /\ open = [o \in Orders |-> FALSE]
    /\ product = [o \in Orders |-> "NONE"]
    /\ quote = [o \in Orders |-> 1]
    /\ captured = [o \in Orders |-> FALSE]
    /\ approved = [o \in Orders |-> 1]
    /\ stage = [r \in Requests |-> "IDLE"]
    /\ inbox = {}
    /\ recorded = [o \in Orders |-> "NONE"]
    /\ grants = [o \in Orders |-> 0]
    /\ cycle = [o \in Orders |-> "NONE"]
    /\ started = [o \in Orders |-> FALSE]
    /\ days = [o \in Orders |-> 0]
    /\ inMatch = [o \in Orders |-> FALSE]
    /\ refused = {}

----------------------------------------------------------------------------
(* The order. *)

CreateIntent(o) ==
    /\ intent[o] = "NONE"
    /\ intent' = [intent EXCEPT ![o] = "AWAITING_PG"]
    /\ open' = [open EXCEPT ![o] = TRUE]
    /\ \E code \in Products : product' = [product EXCEPT ![o] = code]
    /\ quote' = [quote EXCEPT ![o] = policy]
    /\ UNCHANGED <<policy, providerVars, stage, inbox, recorded, grants, cycleVars, refused>>

(* Thirty minutes pass. *)
IntentExpires(o) ==
    /\ open[o]
    /\ open' = [open EXCEPT ![o] = FALSE]
    /\ UNCHANGED <<policy, intent, product, quote, providerVars, stage, inbox, recorded, grants,
                   cycleVars, refused>>

(* A policy scheduled with notice comes into force. *)
PolicyChanges ==
    /\ policy < MaxPolicy
    /\ policy' = policy + 1
    /\ UNCHANGED <<orderVars, providerVars, stage, inbox, recorded, grants, cycleVars, refused>>

----------------------------------------------------------------------------
(* The handlers. *)

Goes(r, from, to) ==
    /\ stage[r] = from
    /\ stage' = [stage EXCEPT ![r] = to]

Payable(o) ==
    /\ intent[o] = "AWAITING_PG"
    /\ open[o]
    /\ product[o] = "PACKAGE" => quote[o] = policy

(***************************************************************************)
(* The browser returns.  What is not payable any more never reaches the    *)
(* provider, and an order that is paid is answered without another look.   *)
(***************************************************************************)
CheckIntent(r) ==
    /\ r[2] # "WEBHOOK"
    /\ Payable(r[1])
    /\ Goes(r, "IDLE", "CHECKED")
    /\ UNCHANGED <<policy, orderVars, providerVars, inbox, recorded, grants, cycleVars, refused>>

(* The provider takes the money once per order, however often it is asked. *)
Capture(o) ==
    /\ captured' = [captured EXCEPT ![o] = TRUE]
    /\ approved' = IF captured[o] THEN approved ELSE [approved EXCEPT ![o] = policy]

(* The handler asks the provider to confirm, and hears its answer or does not. *)
Confirm(r) ==
    /\ Capture(r[1])
    /\ Goes(r, "CHECKED", "CONFIRMED") \/ Goes(r, "CHECKED", "IDLE")
    /\ UNCHANGED <<policy, orderVars, inbox, recorded, grants, cycleVars, refused>>

\* Defect: the webhook, like the browser, is turned away once the order is not payable.
DeliverWhileOpen(r) ==
    /\ r[2] = "WEBHOOK"
    /\ captured[r[1]]
    /\ Payable(r[1])
    /\ Goes(r, "IDLE", "CONFIRMED")
    /\ UNCHANGED <<policy, orderVars, providerVars, inbox, recorded, grants, cycleVars, refused>>

(* The provider posts its webhook, and posts it again; the handler looks the payment up. *)
DeliverWebhook(r) ==
    /\ r[2] = "WEBHOOK"
    /\ captured[r[1]]
    /\ Goes(r, "IDLE", "CONFIRMED")
    /\ UNCHANGED <<policy, orderVars, providerVars, inbox, recorded, grants, cycleVars, refused>>

(* The event is noted; an event noted before is the same event again. *)
Receive(r) ==
    /\ Goes(r, "CONFIRMED", "RECEIVED")
    /\ inbox' = inbox \cup {<<r[1], Event(r)>>}
    /\ UNCHANGED <<policy, orderVars, providerVars, recorded, grants, cycleVars, refused>>

(* The current cycle of the student makes way for the one just bought. *)
Superseded(o) ==
    [p \in Orders |-> IF p = o THEN "ACTIVE"
                      ELSE IF p \in Active(Buyer[o]) THEN "EXPIRED" ELSE cycle[p]]

(***************************************************************************)
(* One transaction: the payment, the new cycle and the end of the old one. *)
(* Bought before the cut-off, the first day is used at once.               *)
(***************************************************************************)
IssuePackage(r, sameDay) ==
    LET o == r[1] IN
    /\ recorded' = [recorded EXCEPT ![o] = Event(r)]
    /\ grants' = [grants EXCEPT ![o] = @ + 1]
    /\ cycle' = Superseded(o)
    /\ started' = [started EXCEPT ![o] = sameDay]
    /\ days' = [days EXCEPT ![o] = IF sameDay THEN PackageDays - 1 ELSE PackageDays]
    /\ Goes(r, "RECEIVED", "APPLIED")
    /\ UNCHANGED <<policy, orderVars, providerVars, inbox, inMatch, refused>>

(* The payment was recorded before: under this event, or it is refused. *)
ReplayPackage(r) ==
    /\ \/ /\ SameApproval(r)
          /\ Goes(r, "RECEIVED", "APPLIED")
          /\ UNCHANGED refused
       \/ /\ ~SameApproval(r)
          /\ Goes(r, "RECEIVED", "IDLE")
          /\ refused' = refused \cup {r[1]}
    /\ UNCHANGED <<policy, orderVars, providerVars, inbox, recorded, grants, cycleVars>>

\* Defect: the handler goes on after a purchase that was turned down.
RejectionSwallowed(r) ==
    /\ ~(PriceHolds(r[1]) /\ MayBuy(Buyer[r[1]]))
    /\ Goes(r, "RECEIVED", "APPLIED")
    /\ UNCHANGED <<policy, orderVars, providerVars, inbox, recorded, grants, cycleVars, refused>>

(* The price has changed, or the buyer may not have another package: nothing is written. *)
RejectPackage(r) ==
    /\ ~(PriceHolds(r[1]) /\ MayBuy(Buyer[r[1]]))
    /\ Goes(r, "RECEIVED", "IDLE")
    /\ UNCHANGED <<policy, orderVars, providerVars, inbox, recorded, grants, cycleVars, refused>>

ApplyPackage(r) ==
    /\ product[r[1]] = "PACKAGE"
    /\ \/ Replayed(r) /\ ReplayPackage(r)
       \/ /\ ~Replayed(r)
          /\ PriceHolds(r[1])
          /\ MayBuy(Buyer[r[1]])
          /\ \E sameDay \in BOOLEAN : IssuePackage(r, sameDay)
       \/ ~Replayed(r) /\ RejectPackage(r)

(* The second write of a package handler, outside the transaction of the first. *)
MarkPaid(r) ==
    /\ Goes(r, "APPLIED", "IDLE")
    /\ intent' = [intent EXCEPT ![r[1]] = "PAID"]
    /\ UNCHANGED <<policy, open, product, quote, providerVars, inbox, recorded, grants, cycleVars, refused>>

MockUnpaid(o) == intent[o] = "AWAITING_PG"

(* One transaction: the period is added and the intent is paid, or it was paid before. *)
ApplyMock(r) ==
    /\ Goes(r, "RECEIVED", "IDLE")
    /\ product[r[1]] = "MOCK"
    /\ IF MockUnpaid(r[1])
       THEN /\ grants' = [grants EXCEPT ![r[1]] = @ + 1]
            /\ intent' = [intent EXCEPT ![r[1]] = "PAID"]
       ELSE UNCHANGED <<grants, intent>>
    /\ UNCHANGED <<policy, open, product, quote, providerVars, inbox, recorded, cycleVars, refused>>

(***************************************************************************)
(* The process dies, the database or the ranking recalculation that        *)
(* follows a purchase throws: the handler is gone, its writes stay.        *)
(***************************************************************************)
HandlerFails(r) ==
    /\ stage[r] # "IDLE"
    /\ stage' = [stage EXCEPT ![r] = "IDLE"]
    /\ UNCHANGED <<policy, orderVars, providerVars, inbox, recorded, grants, cycleVars, refused>>

----------------------------------------------------------------------------
(* The learning days. *)

ConsumeFirstDay(o) ==
    /\ cycle[o] = "ACTIVE"
    /\ ~started[o]
    /\ days[o] > 0
    /\ days' = [days EXCEPT ![o] = @ - 1]
    /\ started' = [started EXCEPT ![o] = TRUE]
    /\ UNCHANGED <<policy, orderVars, providerVars, stage, inbox, recorded, grants,
                   cycle, inMatch, refused>>

(* The cycle may end: nothing is left of it and no match waits for its deposit. *)
MayExpire(o, left) == left = 0 /\ ~Pending(Buyer[o])

\* Defect: the days that are due are taken off without asking how many are left.
ConsumeDayUnchecked(o) ==
    /\ cycle[o] = "ACTIVE"
    /\ started[o]
    /\ \E due \in 1..PackageDays :
        /\ days' = [days EXCEPT ![o] = @ - due]
        /\ cycle' = IF MayExpire(o, days[o] - due) THEN [cycle EXCEPT ![o] = "EXPIRED"] ELSE cycle
    /\ UNCHANGED <<policy, orderVars, providerVars, stage, inbox, recorded, grants,
                   started, inMatch, refused>>

(* The days that are due, at most those left: several after a pause of the job. *)
ConsumeDay(o) ==
    /\ cycle[o] = "ACTIVE"
    /\ started[o]
    /\ \E due \in 1..days[o] :
        /\ days' = [days EXCEPT ![o] = @ - due]
        /\ cycle' = IF MayExpire(o, days[o] - due) THEN [cycle EXCEPT ![o] = "EXPIRED"] ELSE cycle
    /\ UNCHANGED <<policy, orderVars, providerVars, stage, inbox, recorded, grants,
                   started, inMatch, refused>>

ExpireCycle(o) ==
    /\ cycle[o] = "ACTIVE"
    /\ MayExpire(o, days[o])
    /\ cycle' = [cycle EXCEPT ![o] = "EXPIRED"]
    /\ UNCHANGED <<policy, orderVars, providerVars, stage, inbox, recorded, grants,
                   started, days, inMatch, refused>>

(* The student enters a match of the Arena, and leaves it; see ArenaMatch. *)
MatchOpens(o) ==
    /\ cycle[o] = "ACTIVE"
    /\ days[o] > 0
    /\ ~Pending(Buyer[o])
    /\ inMatch' = [inMatch EXCEPT ![o] = TRUE]
    /\ UNCHANGED <<policy, orderVars, providerVars, stage, inbox, recorded, grants,
                   cycle, started, days, refused>>

MatchSettles(o) ==
    /\ inMatch[o]
    /\ inMatch' = [inMatch EXCEPT ![o] = FALSE]
    /\ UNCHANGED <<policy, orderVars, providerVars, stage, inbox, recorded, grants,
                   cycle, started, days, refused>>

----------------------------------------------------------------------------
Order(o) ==
    \/ CreateIntent(o) \/ IntentExpires(o)
    \/ ConsumeFirstDay(o) \/ ConsumeDay(o) \/ ExpireCycle(o)
    \/ MatchOpens(o) \/ MatchSettles(o)

Handler(r) ==
    \/ CheckIntent(r) \/ Confirm(r) \/ DeliverWebhook(r)
    \/ Receive(r) \/ ApplyPackage(r) \/ MarkPaid(r) \/ ApplyMock(r)
    \/ HandlerFails(r)

Next ==
    \/ PolicyChanges
    \/ \E o \in Orders : Order(o)
    \/ \E r \in Requests : Handler(r)

Spec == Init /\ [][Next]_vars

(***************************************************************************)
(* The provider repeats its webhook until it is accepted, and of a handler *)
(* that is started over and over some run gets to its next write.  Nothing *)
(* is assumed of the browser, of the daily job or of the matches.          *)
(***************************************************************************)
HandlerFairness(r) ==
    /\ WF_vars(grants[r[1]] = 0 /\ DeliverWebhook(r))
    /\ SF_vars(Receive(r))
    /\ SF_vars(ApplyPackage(r))
    /\ SF_vars(ApplyMock(r))

LiveSpec == Spec /\ \A r \in Requests : HandlerFairness(r)

----------------------------------------------------------------------------
(* Properties. *)

TypeOK ==
    /\ policy \in Policies
    /\ intent \in [Orders -> {"NONE", "AWAITING_PG", "PAID"}]
    /\ open \in [Orders -> BOOLEAN]
    /\ product \in [Orders -> Products \cup {"NONE"}]
    /\ quote \in [Orders -> Policies]
    /\ captured \in [Orders -> BOOLEAN]
    /\ approved \in [Orders -> Policies]
    /\ stage \in [Requests -> Stages]
    /\ inbox \subseteq Orders \X Events
    /\ recorded \in [Orders -> Events \cup {"NONE"}]
    /\ grants \in [Orders -> Nat]
    /\ cycle \in [Orders -> {"NONE", "ACTIVE", "EXPIRED"}]
    /\ started \in [Orders -> BOOLEAN]
    /\ days \in [Orders -> 0..PackageDays]
    /\ inMatch \in [Orders -> BOOLEAN]
    /\ refused \subseteq Orders

(***************************************************************************)
(* Redirects, refreshes and webhooks of one order, in any order and with   *)
(* any of them dying half-way, give what it bought once at most, and give  *)
(* nothing that was not captured and noted as an event of the provider.    *)
(***************************************************************************)
GrantedOnce ==
    \A o \in Orders :
        /\ grants[o] <= 1
        /\ grants[o] = 1 => captured[o] /\ \E e \in Events : <<o, e>> \in inbox

(* An order says PAID only if what it bought has been given. *)
PaidIsGranted == \A o \in Orders : intent[o] = "PAID" => grants[o] = 1

(***************************************************************************)
(* A student has one active cycle at most, and while a match of his is not *)
(* settled the cycle it was entered under is the active one: neither a     *)
(* purchase nor the daily job takes it from under the deposit.             *)
(***************************************************************************)
OneCycleHoldsTheDeposit ==
    /\ \A u \in Users : \A o, p \in Active(u) : o = p
    /\ \A o \in Orders : inMatch[o] => cycle[o] = "ACTIVE"

(* No cycle ends, by expiry or by the next purchase, while days of it are left. *)
EndsUsedUp(o) == (cycle[o] = "ACTIVE" /\ cycle'[o] # "ACTIVE") => days'[o] = 0
DaysAreUsedUp == [][\A o \in Orders : EndsUsedUp(o)]_vars

(* Money was taken, at the price that holds when it is taken. *)
Deserved(o) == captured[o] /\ (product[o] = "MOCK" \/ PriceHolds(o))

(***************************************************************************)
(* Money that was taken at the quoted price buys something in the end,     *)
(* even if every handler of the browser dies and the order has expired,    *)
(* unless the student has at some moment a cycle that is not used up.      *)
(***************************************************************************)
CaptureIsGranted ==
    \A o \in Orders :
        Deserved(o) ~> (grants[o] = 1 \/ ~MayBuy(Buyer[o]))

(***************************************************************************)
(* "Idempotent handling of payment webhooks and approval retries by three  *)
(* identifiers": the same payment reported again is never an error.        *)
(***************************************************************************)
RepeatsAreAccepted == refused = {}

(***************************************************************************)
(* "An additional package payment of an account with learning days left is *)
(* blocked": no money is taken for a package its buyer may not have.       *)
(***************************************************************************)
TakesFor(o) == product[o] = "PACKAGE" /\ ~captured[o] /\ captured'[o]
NoPaymentWhileDaysRemain == [][\A o \in Orders : TakesFor(o) => MayBuy(Buyer[o])]_vars
=============================================================================
