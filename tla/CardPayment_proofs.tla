------------------------- MODULE CardPayment_proofs -------------------------
(***************************************************************************)
(* Proofs about CardPayment, for any number of students, orders and        *)
(* requests at once.  The inductive invariant relates three places the     *)
(* code writes one after the other, in different transactions: the intent, *)
(* the stored payment with its cycle or period, and how far the handlers   *)
(* that write them have come.                                              *)
(***************************************************************************)
EXTENDS CardPayment, TLAPS

(* What the intent, the stored payment and the thing bought say of one order. *)
OrderAgrees(o) ==
    /\ grants[o] <= 1
    /\ intent[o] = "NONE" => product[o] = "NONE" /\ ~captured[o] /\ grants[o] = 0
    /\ intent[o] = "PAID" => grants[o] = 1
    /\ product[o] = "PACKAGE" => (recorded[o] # "NONE" <=> grants[o] = 1)
    /\ product[o] # "PACKAGE" => recorded[o] = "NONE"
    /\ product[o] = "MOCK" => (intent[o] = "PAID" <=> grants[o] = 1)
    /\ grants[o] = 1 => captured[o] /\ \E e \in Events : <<o, e>> \in inbox

(* What a handler that has come that far has left behind. *)
HandlerAgrees(r) ==
    /\ stage[r] # "IDLE" => intent[r[1]] # "NONE"
    /\ stage[r] \notin {"IDLE", "CHECKED"} => captured[r[1]]
    /\ stage[r] \in {"RECEIVED", "APPLIED"} => <<r[1], Event(r)>> \in inbox
    /\ stage[r] = "APPLIED" => grants[r[1]] = 1

Agreement ==
    /\ \A o \in Orders : OrderAgrees(o)
    /\ \A r \in Requests : HandlerAgrees(r)

IInv == TypeOK /\ Agreement

----------------------------------------------------------------------------
(* The parts of a request. *)
LEMMA RequestParts ==
    ASSUME NEW r \in Requests
    PROVE  r[1] \in Orders /\ r[2] \in Channels /\ Event(r) \in Events
BY DEF Requests, Event, Events

(* A move of a handler keeps the stages typed and is the only change of stage. *)
LEMMA GoesTyped ==
    ASSUME TypeOK, NEW r \in Requests, NEW from, NEW to \in Stages, Goes(r, from, to)
    PROVE  /\ stage' \in [Requests -> Stages]
           /\ stage[r] = from /\ stage'[r] = to
           /\ \A q \in Requests : q # r => stage'[q] = stage[q]
BY DEF TypeOK, Goes

(* Every action keeps the variables typed. *)
LEMMA TypeInit == Init => TypeOK
BY OrdersAssumption, BoundsAssumption DEF Init, TypeOK, Policies, Stages, Events

LEMMA TypeStep == TypeOK /\ [Next]_vars => TypeOK'
<1> SUFFICES ASSUME TypeOK, [Next]_vars PROVE TypeOK'
    OBVIOUS
<1> USE DEF TypeOK
<1>1. ASSUME NEW o \in Orders, Order(o) PROVE TypeOK'
  <2>1. CASE CreateIntent(o)
        BY <2>1 DEF CreateIntent, providerVars, cycleVars
  <2>2. CASE IntentExpires(o)
        BY <2>2 DEF IntentExpires, providerVars, cycleVars
  <2>3. CASE ConsumeFirstDay(o)
        BY <2>3, BoundsAssumption DEF ConsumeFirstDay, orderVars, providerVars
  <2>4. CASE ConsumeDay(o)
    <3>1. days' \in [Orders -> 0..PackageDays]
          BY <2>4, BoundsAssumption DEF ConsumeDay
    <3>2. cycle' \in [Orders -> {"NONE", "ACTIVE", "EXPIRED"}]
          BY <2>4 DEF ConsumeDay
    <3> QED BY <2>4, <3>1, <3>2 DEF ConsumeDay, orderVars, providerVars
  <2>5. CASE ExpireCycle(o)
        BY <2>5 DEF ExpireCycle, orderVars, providerVars
  <2>6. CASE MatchOpens(o)
        BY <2>6 DEF MatchOpens, orderVars, providerVars
  <2>7. CASE MatchSettles(o)
        BY <2>7 DEF MatchSettles, orderVars, providerVars
  <2> QED BY <1>1, <2>1, <2>2, <2>3, <2>4, <2>5, <2>6, <2>7 DEF Order
<1>2. ASSUME NEW r \in Requests, Handler(r) PROVE TypeOK'
  <2>0. r[1] \in Orders /\ Event(r) \in Events
        BY RequestParts
  <2>1. CASE CheckIntent(r)
        BY <2>1, GoesTyped DEF CheckIntent, orderVars, providerVars, cycleVars, Stages
  <2>2. CASE Confirm(r)
    <3>1. stage' \in [Requests -> Stages]
          BY <2>2, GoesTyped DEF Confirm, Stages
    <3>2. captured' \in [Orders -> BOOLEAN] /\ approved' \in [Orders -> Policies]
          BY <2>2 DEF Confirm, Capture
    <3> QED BY <2>2, <3>1, <3>2 DEF Confirm, orderVars, cycleVars
  <2>3. CASE DeliverWebhook(r)
        BY <2>3, GoesTyped DEF DeliverWebhook, orderVars, providerVars, cycleVars, Stages
  <2>4. CASE Receive(r)
        BY <2>0, <2>4, GoesTyped DEF Receive, orderVars, providerVars, cycleVars, Stages
  <2>5. CASE ApplyPackage(r)
    <3>1. CASE Replayed(r) /\ ReplayPackage(r)
          BY <2>0, <3>1, GoesTyped DEF ReplayPackage, orderVars, providerVars, cycleVars, Stages
    <3>2. ASSUME NEW sameDay \in BOOLEAN, IssuePackage(r, sameDay) PROVE TypeOK'
      <4>1. stage' \in [Requests -> Stages]
            BY <3>2, GoesTyped DEF IssuePackage, Stages
      <4>2. cycle' \in [Orders -> {"NONE", "ACTIVE", "EXPIRED"}]
            BY <3>2 DEF IssuePackage, Superseded
      <4>3. days' \in [Orders -> 0..PackageDays]
            BY <2>0, <3>2, BoundsAssumption DEF IssuePackage
      <4>4. /\ recorded' \in [Orders -> Events \cup {"NONE"}]
            /\ grants' \in [Orders -> Nat]
            /\ started' \in [Orders -> BOOLEAN]
            BY <2>0, <3>2 DEF IssuePackage
      <4> QED BY <3>2, <4>1, <4>2, <4>3, <4>4 DEF IssuePackage, orderVars, providerVars
    <3>3. CASE RejectPackage(r)
          BY <3>3, GoesTyped DEF RejectPackage, orderVars, providerVars, cycleVars, Stages
    <3> QED BY <2>5, <3>1, <3>2, <3>3 DEF ApplyPackage
  <2>6. CASE MarkPaid(r)
        BY <2>0, <2>6, GoesTyped DEF MarkPaid, providerVars, cycleVars, Stages
  <2>7. CASE ApplyMock(r)
    <3>1. stage' \in [Requests -> Stages]
          BY <2>7, GoesTyped DEF ApplyMock, Stages
    <3>2. /\ grants' \in [Orders -> Nat]
          /\ intent' \in [Orders -> {"NONE", "AWAITING_PG", "PAID"}]
          BY <2>0, <2>7 DEF ApplyMock
    <3> QED BY <2>7, <3>1, <3>2 DEF ApplyMock, providerVars, cycleVars
  <2>8. CASE HandlerFails(r)
        BY <2>8 DEF HandlerFails, orderVars, providerVars, cycleVars, Stages
  <2> QED BY <1>2, <2>1, <2>2, <2>3, <2>4, <2>5, <2>6, <2>7, <2>8 DEF Handler
<1>3. CASE PolicyChanges
      BY <1>3, BoundsAssumption DEF PolicyChanges, orderVars, providerVars, cycleVars, Policies
<1>4. CASE UNCHANGED vars
      BY <1>4 DEF vars, orderVars, providerVars, cycleVars
<1> QED BY <1>1, <1>2, <1>3, <1>4 DEF Next

(***************************************************************************)
(* The variables keep their types; in particular no cycle is ever left     *)
(* with less than no learning day.                                         *)
(***************************************************************************)
THEOREM PaymentTypes == Spec => []TypeOK
BY TypeInit, TypeStep, PTL DEF Spec

----------------------------------------------------------------------------
LEMMA GrantsZeroOrOne ==
    ASSUME IInv, NEW o \in Orders
    PROVE  grants[o] \in {0, 1}
  <1>1. grants[o] \in Nat
        BY DEF IInv, TypeOK
  <1>2. grants[o] <= 1
        BY DEF IInv, Agreement, OrderAgrees
  <1> QED BY <1>1, <1>2

(* The agreement of intent, payment and handlers is inductive. *)
LEMMA AgreementInit == Init => Agreement
BY RequestParts DEF Init, Agreement, OrderAgrees, HandlerAgrees

(* An action that leaves orders and payments alone, and starts no handler, keeps it. *)
LEMMA AgreementElsewhere ==
    ASSUME Agreement, UNCHANGED <<intent, product, captured, recorded, grants, stage, inbox>>
    PROVE  Agreement'
BY DEF Agreement, OrderAgrees, HandlerAgrees, Event

(***************************************************************************)
(* A handler moves to a stage whose writes are done; of the payment it has *)
(* changed nothing.                                                        *)
(***************************************************************************)
LEMMA AgreementGoes ==
    ASSUME IInv, NEW r \in Requests, NEW from, NEW to \in Stages, Goes(r, from, to),
           UNCHANGED <<intent, product, captured, recorded, grants, inbox>>,
           HandlerAgrees(r)'
    PROVE  Agreement'
  <1>1. ASSUME NEW o \in Orders PROVE OrderAgrees(o)'
        BY DEF IInv, Agreement, OrderAgrees
  <1>2. ASSUME NEW q \in Requests, q # r PROVE HandlerAgrees(q)'
        BY <1>2, GoesTyped DEF IInv, Agreement, HandlerAgrees, Event
  <1> QED BY <1>1, <1>2 DEF Agreement

(* The intent is created, the only step that gives an order its product. *)
LEMMA AgreementCreate ==
    ASSUME IInv, NEW o \in Orders, CreateIntent(o)
    PROVE  Agreement'
  <1> USE DEF IInv, TypeOK, CreateIntent, providerVars, Agreement
  <1>1. ASSUME NEW p \in Orders PROVE OrderAgrees(p)'
        BY <1>1 DEF OrderAgrees
  <1>2. ASSUME NEW q \in Requests PROVE HandlerAgrees(q)'
        BY <1>2, RequestParts DEF HandlerAgrees, Event
  <1> QED BY <1>1, <1>2

(* The provider takes the money of an order that exists. *)
LEMMA AgreementConfirm ==
    ASSUME IInv, NEW r \in Requests, Confirm(r)
    PROVE  Agreement'
  <1>0. r[1] \in Orders
        BY RequestParts
  <1>1. stage[r] = "CHECKED" /\ stage'[r] \in {"CONFIRMED", "IDLE"}
        BY GoesTyped DEF IInv, Confirm, Stages
  <1>2. \A q \in Requests : q # r => stage'[q] = stage[q]
        BY GoesTyped DEF IInv, Confirm, Stages
  <1>3. /\ captured'[r[1]]
        /\ \A o \in Orders : captured[o] => captured'[o]
        /\ \A o \in Orders \ {r[1]} : captured'[o] = captured[o]
        BY <1>0 DEF IInv, TypeOK, Confirm, Capture
  <1>4. UNCHANGED <<intent, product, recorded, grants, inbox>>
        BY DEF Confirm, orderVars
  <1>5. ASSUME NEW o \in Orders PROVE OrderAgrees(o)'
        BY ZenonT(60), <1>1, <1>3, <1>4 DEF IInv, Agreement, OrderAgrees, HandlerAgrees
  <1>6. ASSUME NEW q \in Requests PROVE HandlerAgrees(q)'
        BY <1>1, <1>2, <1>3, <1>4, RequestParts DEF IInv, Agreement, HandlerAgrees, Event
  <1> QED BY <1>5, <1>6 DEF Agreement

(* The event is in the inbox before anything else is written for it. *)
LEMMA AgreementReceive ==
    ASSUME IInv, NEW r \in Requests, Receive(r)
    PROVE  Agreement'
  <1>1. stage[r] = "CONFIRMED" /\ stage'[r] = "RECEIVED"
        BY GoesTyped DEF IInv, Receive, Stages
  <1>2. \A q \in Requests : q # r => stage'[q] = stage[q]
        BY GoesTyped DEF IInv, Receive, Stages
  <1>3. inbox' = inbox \cup {<<r[1], Event(r)>>}
        BY DEF Receive
  <1>4. UNCHANGED <<intent, product, captured, recorded, grants>>
        BY DEF Receive, orderVars, providerVars
  <1>5. ASSUME NEW o \in Orders PROVE OrderAgrees(o)'
        BY <1>3, <1>4 DEF IInv, Agreement, OrderAgrees
  <1>6. ASSUME NEW q \in Requests PROVE HandlerAgrees(q)'
        BY <1>1, <1>2, <1>3, <1>4 DEF IInv, Agreement, HandlerAgrees, Event
  <1> QED BY <1>5, <1>6 DEF Agreement

(* The package transaction issues a cycle for an order that has none. *)
LEMMA AgreementIssue ==
    ASSUME IInv, NEW r \in Requests, NEW sameDay \in BOOLEAN,
           product[r[1]] = "PACKAGE", ~Replayed(r), IssuePackage(r, sameDay)
    PROVE  Agreement'
  <1>0. r[1] \in Orders /\ Event(r) \in Events
        BY RequestParts
  <1>1. stage[r] = "RECEIVED" /\ stage'[r] = "APPLIED"
        BY GoesTyped DEF IInv, IssuePackage, Stages
  <1>2. \A q \in Requests : q # r => stage'[q] = stage[q]
        BY GoesTyped DEF IInv, IssuePackage, Stages
  <1>3. captured[r[1]] /\ <<r[1], Event(r)>> \in inbox
        BY <1>1 DEF IInv, Agreement, HandlerAgrees
  <1>a. grants[r[1]] = 0
    <2>1. grants[r[1]] # 1
          BY <1>0 DEF IInv, Agreement, OrderAgrees, Replayed
    <2> QED BY <1>0, <2>1, GrantsZeroOrOne
  <1>4. grants'[r[1]] = 1 /\ recorded'[r[1]] # "NONE"
        BY <1>0, <1>a DEF IInv, TypeOK, IssuePackage, Events
  <1>5. /\ \A o \in Orders \ {r[1]} : grants'[o] = grants[o] /\ recorded'[o] = recorded[o]
        /\ UNCHANGED <<intent, product, captured, inbox>>
        BY DEF IInv, TypeOK, IssuePackage, orderVars, providerVars
  <1>6. ASSUME NEW o \in Orders PROVE OrderAgrees(o)'
    <2>1. CASE o = r[1]
          BY <2>1, <1>0, <1>1, <1>3, <1>4, <1>5 DEF IInv, Agreement, OrderAgrees, HandlerAgrees
    <2>2. CASE o # r[1]
          BY <2>2, <1>5 DEF IInv, Agreement, OrderAgrees
    <2> QED BY <2>1, <2>2
  <1>7. ASSUME NEW q \in Requests PROVE HandlerAgrees(q)'
        BY <1>0, <1>1, <1>2, <1>3, <1>4, <1>5, RequestParts
        DEF IInv, Agreement, HandlerAgrees, Event
  <1> QED BY <1>6, <1>7 DEF Agreement

(* What is applied once is found applied, or turned down; nothing is granted again. *)
LEMMA AgreementApply ==
    ASSUME IInv, NEW r \in Requests, ApplyPackage(r)
    PROVE  Agreement'
  <1>0. r[1] \in Orders
        BY RequestParts
  <1>1. CASE Replayed(r) /\ ReplayPackage(r)
    <2>1. grants[r[1]] = 1
          BY <1>0, <1>1 DEF IInv, Agreement, OrderAgrees, ApplyPackage, Replayed
    <2>2. UNCHANGED <<intent, product, captured, recorded, grants, inbox>>
          BY <1>1 DEF ReplayPackage, orderVars, providerVars
    <2>3. CASE Goes(r, "RECEIVED", "APPLIED")
      <3>1. HandlerAgrees(r)'
            BY <2>1, <2>2, <2>3, GoesTyped DEF IInv, Agreement, HandlerAgrees, Event, Stages
      <3> QED BY <2>2, <2>3, <3>1, AgreementGoes DEF Stages
    <2>4. CASE Goes(r, "RECEIVED", "IDLE")
      <3>1. HandlerAgrees(r)'
            BY <2>2, <2>4, GoesTyped DEF IInv, HandlerAgrees, Stages
      <3> QED BY <2>2, <2>4, <3>1, AgreementGoes DEF Stages
    <2> QED BY <1>1, <2>3, <2>4 DEF ReplayPackage
  <1>2. CASE ~Replayed(r) /\ \E sameDay \in BOOLEAN : IssuePackage(r, sameDay)
        BY <1>2, AgreementIssue DEF ApplyPackage
  <1>3. CASE RejectPackage(r)
    <2>1. UNCHANGED <<intent, product, captured, recorded, grants, inbox>>
          BY <1>3 DEF RejectPackage, orderVars, providerVars
    <2>2. HandlerAgrees(r)'
          BY <1>3, <2>1, GoesTyped DEF IInv, HandlerAgrees, RejectPackage, Stages
    <2> QED BY <1>3, <2>1, <2>2, AgreementGoes DEF RejectPackage, Stages
  <1> QED BY <1>1, <1>2, <1>3 DEF ApplyPackage

(* An order is marked paid by a handler that found it granted. *)
LEMMA AgreementMarkPaid ==
    ASSUME IInv, NEW r \in Requests, MarkPaid(r)
    PROVE  Agreement'
  <1>0. r[1] \in Orders
        BY RequestParts
  <1>1. stage[r] = "APPLIED" /\ stage'[r] = "IDLE"
        BY GoesTyped DEF IInv, MarkPaid, Stages
  <1>2. \A q \in Requests : q # r => stage'[q] = stage[q]
        BY GoesTyped DEF IInv, MarkPaid, Stages
  <1>3. /\ intent'[r[1]] = "PAID"
        /\ \A o \in Orders \ {r[1]} : intent'[o] = intent[o]
        BY <1>0 DEF IInv, TypeOK, MarkPaid
  <1>4. UNCHANGED <<product, captured, recorded, grants, inbox>>
        BY DEF MarkPaid, providerVars
  <1>5. grants[r[1]] = 1
        BY <1>1 DEF IInv, Agreement, HandlerAgrees
  <1>6. ASSUME NEW o \in Orders PROVE OrderAgrees(o)'
        BY <1>3, <1>4, <1>5 DEF IInv, Agreement, OrderAgrees
  <1>7. ASSUME NEW q \in Requests PROVE HandlerAgrees(q)'
        BY <1>1, <1>2, <1>3, <1>4, RequestParts DEF IInv, Agreement, HandlerAgrees, Event
  <1> QED BY <1>6, <1>7 DEF Agreement

(* The period of mock examinations and the status of its order are one write. *)
LEMMA AgreementMock ==
    ASSUME IInv, NEW r \in Requests, ApplyMock(r)
    PROVE  Agreement'
  <1>0. r[1] \in Orders
        BY RequestParts
  <1>1. stage[r] = "RECEIVED" /\ stage'[r] = "IDLE" /\ product[r[1]] = "MOCK"
        BY GoesTyped DEF IInv, ApplyMock, Stages
  <1>2. \A q \in Requests : q # r => stage'[q] = stage[q]
        BY GoesTyped DEF IInv, ApplyMock, Stages
  <1>3. captured[r[1]] /\ <<r[1], Event(r)>> \in inbox
        BY <1>1 DEF IInv, Agreement, HandlerAgrees
  <1>4. UNCHANGED <<product, captured, recorded, inbox>>
        BY DEF ApplyMock, providerVars
  <1>5. CASE MockUnpaid(r[1])
    <2>1. grants[r[1]] = 0
      <3>1. grants[r[1]] # 1
            BY <1>0, <1>1, <1>5 DEF IInv, Agreement, OrderAgrees, MockUnpaid
      <3> QED BY <1>0, <3>1, GrantsZeroOrOne
    <2>2. /\ grants'[r[1]] = 1 /\ intent'[r[1]] = "PAID"
          /\ \A o \in Orders \ {r[1]} : grants'[o] = grants[o] /\ intent'[o] = intent[o]
          BY <1>0, <1>5, <2>1 DEF IInv, TypeOK, ApplyMock
    <2>3. ASSUME NEW o \in Orders PROVE OrderAgrees(o)'
      <3>1. CASE o = r[1]
            BY <3>1, <1>0, <1>1, <1>3, <1>4, <2>2, RequestParts
            DEF IInv, Agreement, OrderAgrees
      <3>2. CASE o # r[1]
            BY <3>2, <1>4, <2>2 DEF IInv, Agreement, OrderAgrees
      <3> QED BY <3>1, <3>2
    <2>4. ASSUME NEW q \in Requests PROVE HandlerAgrees(q)'
          BY <1>1, <1>2, <1>4, <2>2, RequestParts DEF IInv, Agreement, HandlerAgrees, Event
    <2> QED BY <2>3, <2>4 DEF Agreement
  <1>6. CASE ~MockUnpaid(r[1])
    <2>1. UNCHANGED <<intent, product, captured, recorded, grants, inbox>>
          BY <1>4, <1>6 DEF ApplyMock
    <2>2. HandlerAgrees(r)'
          BY <1>1 DEF HandlerAgrees
    <2>3. Goes(r, "RECEIVED", "IDLE")
          BY DEF ApplyMock
    <2> QED BY <2>1, <2>2, <2>3, AgreementGoes DEF Stages
  <1> QED BY <1>5, <1>6

LEMMA AgreementHandler ==
    ASSUME IInv, NEW r \in Requests, Handler(r)
    PROVE  Agreement'
  <1>0. r[1] \in Orders
        BY RequestParts
  <1>1. CASE CheckIntent(r)
    <2>1. UNCHANGED <<intent, product, captured, recorded, grants, inbox>>
          BY <1>1 DEF CheckIntent, orderVars, providerVars
    <2>2. HandlerAgrees(r)'
          BY <1>0, <1>1, <2>1, GoesTyped DEF IInv, HandlerAgrees, CheckIntent, Payable, Stages
    <2> QED BY <1>1, <2>1, <2>2, AgreementGoes DEF CheckIntent, Stages
  <1>2. CASE DeliverWebhook(r)
    <2>1. UNCHANGED <<intent, product, captured, recorded, grants, inbox>>
          BY <1>2 DEF DeliverWebhook, orderVars, providerVars
    <2>2. intent[r[1]] # "NONE"
          BY <1>0, <1>2 DEF IInv, Agreement, OrderAgrees, DeliverWebhook
    <2>3. HandlerAgrees(r)'
          BY <1>2, <2>1, <2>2, GoesTyped DEF IInv, HandlerAgrees, DeliverWebhook, Stages
    <2> QED BY <1>2, <2>1, <2>3, AgreementGoes DEF DeliverWebhook, Stages
  <1>3. CASE HandlerFails(r)
    <2>1. UNCHANGED <<intent, product, captured, recorded, grants, inbox>>
          BY <1>3 DEF HandlerFails, orderVars, providerVars
    <2>2. Goes(r, stage[r], "IDLE")
          BY <1>3 DEF HandlerFails, Goes
    <2>3. HandlerAgrees(r)'
          BY <2>1, <2>2, GoesTyped DEF IInv, HandlerAgrees, Stages
    <2> QED BY <2>1, <2>2, <2>3, AgreementGoes DEF Stages
  <1> QED BY <1>1, <1>2, <1>3, AgreementConfirm, AgreementReceive, AgreementApply,
             AgreementMarkPaid, AgreementMock DEF Handler

LEMMA AgreementStep == IInv /\ [Next]_vars => Agreement'
<1> SUFFICES ASSUME IInv, [Next]_vars PROVE Agreement'
    OBVIOUS
<1>1. ASSUME NEW o \in Orders, Order(o) PROVE Agreement'
  <2>1. CASE CreateIntent(o)
        BY <2>1, AgreementCreate
  <2>2. CASE ~CreateIntent(o)
    <3>1. UNCHANGED <<intent, product, captured, recorded, grants, stage, inbox>>
          BY <1>1, <2>2 DEF Order, IntentExpires, ConsumeFirstDay, ConsumeDay, ExpireCycle,
             MatchOpens, MatchSettles, orderVars, providerVars
    <3> QED BY <3>1, AgreementElsewhere DEF IInv
  <2> QED BY <2>1, <2>2
<1>2. CASE PolicyChanges \/ UNCHANGED vars
  <2>1. UNCHANGED <<intent, product, captured, recorded, grants, stage, inbox>>
        BY <1>2 DEF PolicyChanges, vars, orderVars, providerVars
  <2> QED BY <2>1, AgreementElsewhere DEF IInv
<1> QED BY <1>1, <1>2, AgreementHandler DEF Next

THEOREM PaymentInvariant == Spec => []IInv
<1>1. Init => IInv
      BY TypeInit, AgreementInit DEF IInv
<1>2. IInv /\ [Next]_vars => IInv'
      BY TypeStep, AgreementStep DEF IInv
<1> QED BY <1>1, <1>2, PTL DEF Spec

(***************************************************************************)
(* Whatever requests run at once on an order, and wherever they die, it is *)
(* given what it bought at most once, and only for captured money that an  *)
(* event in the inbox vouches for.                                         *)
(***************************************************************************)
THEOREM PaymentGrantsOnce == Spec => []GrantedOnce
<1>1. IInv => GrantedOnce
      BY DEF IInv, Agreement, OrderAgrees, GrantedOnce
<1> QED BY <1>1, PaymentInvariant, PTL

(* An order is PAID only if what it bought has been given. *)
THEOREM PaymentPaidIsGranted == Spec => []PaidIsGranted
<1>1. IInv => PaidIsGranted
      BY DEF IInv, Agreement, OrderAgrees, PaidIsGranted
<1> QED BY <1>1, PaymentInvariant, PTL

----------------------------------------------------------------------------
(***************************************************************************)
(* What a step does to the cycles: it leaves them and the matches alone,   *)
(* it is a purchase, or it touches the one cycle that is used or played.   *)
(***************************************************************************)
Purchase(r) ==
    /\ MayBuy(Buyer[r[1]])
    /\ cycle' = Superseded(r[1])
    /\ \A p \in Orders \ {r[1]} : days'[p] = days[p]
    /\ UNCHANGED inMatch

Uses(o) ==
    /\ cycle[o] = "ACTIVE"
    /\ \/ cycle' = cycle
       \/ /\ cycle' = [cycle EXCEPT ![o] = "EXPIRED"]
          /\ days'[o] = 0
          /\ ~Pending(Buyer[o])
    /\ UNCHANGED inMatch

Plays(o) ==
    /\ \/ cycle[o] = "ACTIVE" /\ inMatch' = [inMatch EXCEPT ![o] = TRUE]
       \/ inMatch' = [inMatch EXCEPT ![o] = FALSE]
    /\ UNCHANGED cycle

LEMMA CycleSteps ==
    ASSUME TypeOK, [Next]_vars
    PROVE  \/ UNCHANGED <<cycle, inMatch>>
           \/ \E r \in Requests : Purchase(r)
           \/ \E o \in Orders : Uses(o) \/ Plays(o)
<1>1. ASSUME NEW o \in Orders, Order(o)
      PROVE  UNCHANGED <<cycle, inMatch>> \/ Uses(o) \/ Plays(o)
  <2>1. CASE CreateIntent(o) \/ IntentExpires(o)
        BY <2>1 DEF CreateIntent, IntentExpires, cycleVars
  <2>2. CASE ConsumeFirstDay(o)
        BY <2>2 DEF ConsumeFirstDay
  <2>3. CASE ConsumeDay(o)
    <3>1. PICK due \in 1..days[o] :
            /\ days' = [days EXCEPT ![o] = @ - due]
            /\ cycle' = IF MayExpire(o, days[o] - due)
                        THEN [cycle EXCEPT ![o] = "EXPIRED"] ELSE cycle
          BY <2>3 DEF ConsumeDay
    <3>2. MayExpire(o, days[o] - due) => days'[o] = 0
          BY <3>1 DEF MayExpire, TypeOK
    <3> QED BY <2>3, <3>1, <3>2 DEF ConsumeDay, MayExpire, Uses
  <2>4. CASE ExpireCycle(o)
        BY <2>4 DEF ExpireCycle, MayExpire, Uses
  <2>5. CASE MatchOpens(o) \/ MatchSettles(o)
        BY <2>5 DEF MatchOpens, MatchSettles, Plays
  <2> QED BY <1>1, <2>1, <2>2, <2>3, <2>4, <2>5 DEF Order
<1>2. ASSUME NEW r \in Requests, Handler(r)
      PROVE  UNCHANGED <<cycle, inMatch>> \/ Purchase(r)
  <2>1. CASE ApplyPackage(r)
    <3>1. ASSUME NEW sameDay \in BOOLEAN, MayBuy(Buyer[r[1]]), IssuePackage(r, sameDay)
          PROVE  Purchase(r)
          BY <3>1 DEF IssuePackage, Purchase, TypeOK
    <3> QED BY <2>1, <3>1 DEF ApplyPackage, ReplayPackage, RejectPackage, cycleVars
  <2>2. CASE ~ApplyPackage(r)
        BY <1>2, <2>2 DEF Handler, CheckIntent, Confirm, DeliverWebhook, Receive, MarkPaid,
           ApplyMock, HandlerFails, cycleVars
  <2> QED BY <2>1, <2>2
<1> QED BY <1>1, <1>2 DEF Next, PolicyChanges, vars, cycleVars

LEMMA DepositInit == Init => OneCycleHoldsTheDeposit
BY DEF Init, OneCycleHoldsTheDeposit, Active, CyclesOf

LEMMA DepositStep ==
    TypeOK /\ OneCycleHoldsTheDeposit /\ [Next]_vars => OneCycleHoldsTheDeposit'
<1> SUFFICES ASSUME TypeOK, OneCycleHoldsTheDeposit, [Next]_vars
             PROVE  OneCycleHoldsTheDeposit'
    OBVIOUS
<1> USE DEF OneCycleHoldsTheDeposit, Active, CyclesOf
<1>1. CASE UNCHANGED <<cycle, inMatch>>
      BY <1>1
<1>2. ASSUME NEW r \in Requests, Purchase(r) PROVE OneCycleHoldsTheDeposit'
  <2>0. r[1] \in Orders
        BY RequestParts
  <2>1. ASSUME NEW o \in Orders, Buyer[o] = Buyer[r[1]], o # r[1]
        PROVE  cycle'[o] # "ACTIVE"
        BY <1>2, <2>1 DEF Purchase, Superseded
  <2>2. ASSUME NEW o \in Orders, Buyer[o] # Buyer[r[1]]
        PROVE  cycle'[o] = cycle[o]
        BY <1>2, <2>2 DEF Purchase, Superseded
  <2>3. ASSUME NEW o \in Orders, inMatch'[o]
        PROVE  Buyer[o] # Buyer[r[1]] /\ inMatch[o]
        BY <1>2, <2>3 DEF Purchase, MayBuy, Pending
  <2>4. ASSUME NEW u \in Users, NEW o \in Active(u)', NEW p \in Active(u)' PROVE o = p
        BY <2>0, <2>1, <2>2, <2>4
  <2>5. ASSUME NEW o \in Orders, inMatch'[o] PROVE cycle'[o] = "ACTIVE"
        BY <2>2, <2>3, <2>5
  <2> QED BY <2>4, <2>5
<1>3. ASSUME NEW o \in Orders, Uses(o) PROVE OneCycleHoldsTheDeposit'
  <2>1. CASE UNCHANGED cycle
        BY <1>3, <2>1 DEF Uses
  <2>2. CASE cycle' = [cycle EXCEPT ![o] = "EXPIRED"] /\ ~Pending(Buyer[o])
    <3>1. \A p \in Orders : cycle'[p] = "ACTIVE" <=> p # o /\ cycle[p] = "ACTIVE"
          BY <2>2 DEF TypeOK
    <3>2. \A p \in Orders : inMatch'[p] => p # o /\ inMatch[p]
          BY <1>3, <2>2 DEF Uses, Pending
    <3> QED BY <3>1, <3>2
  <2> QED BY <1>3, <2>1, <2>2 DEF Uses
<1>4. ASSUME NEW o \in Orders, Plays(o) PROVE OneCycleHoldsTheDeposit'
      BY <1>4 DEF Plays, TypeOK
<1> QED BY <1>1, <1>2, <1>3, <1>4, CycleSteps

(***************************************************************************)
(* However purchases, daily jobs and matches interleave, a student has one *)
(* active cycle at most, and never loses it while a match of his is open.  *)
(***************************************************************************)
THEOREM DepositIsHeld == Spec => []OneCycleHoldsTheDeposit
<1>1. Init => TypeOK /\ OneCycleHoldsTheDeposit
      BY TypeInit, DepositInit
<1>2. TypeOK /\ OneCycleHoldsTheDeposit /\ [Next]_vars => (TypeOK /\ OneCycleHoldsTheDeposit)'
      BY TypeStep, DepositStep
<1> QED BY <1>1, <1>2, PTL DEF Spec

LEMMA UsedUpStep == TypeOK /\ [Next]_vars => \A o \in Orders : EndsUsedUp(o)
<1> SUFFICES ASSUME TypeOK, [Next]_vars, NEW o \in Orders,
                    cycle[o] = "ACTIVE", cycle'[o] # "ACTIVE"
             PROVE  days'[o] = 0
    BY DEF EndsUsedUp
<1>1. ASSUME NEW r \in Requests, Purchase(r) PROVE days'[o] = 0
  <2>1. o # r[1] /\ o \in Active(Buyer[r[1]])
        BY <1>1 DEF Purchase, Superseded
  <2> QED BY <1>1, <2>1 DEF Purchase, MayBuy
<1>2. ASSUME NEW p \in Orders, Uses(p) PROVE days'[o] = 0
      BY <1>2 DEF Uses, TypeOK
<1> QED BY <1>1, <1>2, CycleSteps DEF Plays

(* No step ends a cycle, by expiry or by the next purchase, while days of it are left. *)
THEOREM CyclesEndUsedUp == Spec => DaysAreUsedUp
<1>1. TypeOK /\ [Next]_vars => [\A o \in Orders : EndsUsedUp(o)]_vars
      BY UsedUpStep
<1> QED BY <1>1, PaymentTypes, PTL DEF Spec, DaysAreUsedUp

----------------------------------------------------------------------------
(***************************************************************************)
(* What a purchase leaves behind.                                          *)
(***************************************************************************)
Sale(o) ==
    /\ recorded[o] # "NONE" => /\ intent[o] # "NONE" /\ captured[o]
                               /\ PriceHolds(o) /\ cycle[o] # "NONE"
    /\ cycle[o] # "NONE" => recorded[o] # "NONE"
    /\ o \in refused => recorded[o] # "NONE"

Sales == \A o \in Orders : Sale(o)

(***************************************************************************)
(* No write of a purchase is ever written over: what was captured, priced, *)
(* stored and paid stays so, no repetition gives days back and no ended    *)
(* cycle is active again.                                                  *)
(***************************************************************************)
SaleStands(o) ==
    /\ captured[o] => captured'[o] /\ approved'[o] = approved[o]
    /\ intent[o] # "NONE" => /\ intent'[o] \in {intent[o], "PAID"}
                             /\ product'[o] = product[o] /\ quote'[o] = quote[o]
    /\ grants[o] = 1 => grants'[o] = 1
    /\ recorded[o] # "NONE" => /\ recorded'[o] = recorded[o] /\ days'[o] <= days[o]
                               /\ cycle'[o] \in {cycle[o], "EXPIRED"}

(* What a step writes of an order, when it does not issue a package for it. *)
Keeps(o) ==
    /\ recorded'[o] = recorded[o] /\ days'[o] <= days[o]
    /\ cycle'[o] = cycle[o] \/ (cycle[o] = "ACTIVE" /\ cycle'[o] = "EXPIRED")

(* A cycle that is not current is not touched, and a current one ends at most. *)
LEMMA DaysOnlyFall ==
    ASSUME TypeOK, NEW p \in Orders, Order(p), NEW o \in Orders
    PROVE  Keeps(o)
<1>1. days[o] \in Nat
      BY BoundsAssumption DEF TypeOK
<1>2. CASE CreateIntent(p) \/ IntentExpires(p)
      BY <1>1, <1>2 DEF CreateIntent, IntentExpires, cycleVars, Keeps
<1>3. CASE ConsumeFirstDay(p)
      BY <1>1, <1>3 DEF ConsumeFirstDay, TypeOK, Keeps
<1>4. CASE ConsumeDay(p)
  <2>1. PICK due \in 1..days[p] :
          /\ days' = [days EXCEPT ![p] = @ - due]
          /\ cycle' = IF MayExpire(p, days[p] - due) THEN [cycle EXCEPT ![p] = "EXPIRED"] ELSE cycle
        BY <1>4 DEF ConsumeDay
  <2>2. days'[o] <= days[o]
        BY <1>1, <2>1 DEF TypeOK
  <2>3. cycle'[o] = cycle[o] \/ (cycle[o] = "ACTIVE" /\ cycle'[o] = "EXPIRED")
        BY <1>4, <2>1 DEF ConsumeDay, TypeOK
  <2> QED BY <1>4, <2>2, <2>3 DEF ConsumeDay, Keeps
<1>5. CASE ExpireCycle(p)
      BY <1>1, <1>5 DEF ExpireCycle, TypeOK, Keeps
<1>6. CASE MatchOpens(p) \/ MatchSettles(p)
      BY <1>1, <1>6 DEF MatchOpens, MatchSettles, Keeps
<1> QED BY <1>2, <1>3, <1>4, <1>5, <1>6 DEF Order

(* The next purchase ends the cycle that is current, and touches no other. *)
LEMMA IssueKeepsOthers ==
    ASSUME TypeOK, NEW r \in Requests, NEW sameDay \in BOOLEAN, IssuePackage(r, sameDay),
           NEW o \in Orders, o # r[1]
    PROVE  Keeps(o)
<1>1. days[o] \in Nat
      BY BoundsAssumption DEF TypeOK
<1> QED BY <1>1 DEF IssuePackage, Superseded, Active, CyclesOf, TypeOK, Keeps

(* Every other step of a handler leaves what was sold alone. *)
LEMMA HandlerKeeps ==
    ASSUME TypeOK, NEW r \in Requests, Handler(r), NEW o \in Orders
    PROVE  \/ Keeps(o)
           \/ /\ o = r[1] /\ recorded[o] = "NONE" /\ product[o] = "PACKAGE" /\ PriceHolds(o)
              /\ \E sameDay \in BOOLEAN : IssuePackage(r, sameDay)
<1>1. days[o] \in Nat
      BY BoundsAssumption DEF TypeOK
<1>2. CASE ApplyPackage(r)
  <2>1. CASE ReplayPackage(r) \/ RejectPackage(r)
        BY <1>1, <2>1 DEF ReplayPackage, RejectPackage, cycleVars, Keeps
  <2>2. CASE /\ ~Replayed(r) /\ PriceHolds(r[1])
             /\ \E sameDay \in BOOLEAN : IssuePackage(r, sameDay)
        BY <1>2, <2>2, IssueKeepsOthers DEF ApplyPackage, Replayed
  <2> QED BY <1>2, <2>1, <2>2 DEF ApplyPackage
<1>3. CASE ~ApplyPackage(r)
  <2>1. UNCHANGED <<recorded, cycleVars>>
        BY <1>3 DEF Handler, CheckIntent, Confirm, DeliverWebhook, Receive, MarkPaid, ApplyMock,
           HandlerFails
  <2> QED BY <1>1, <2>1 DEF cycleVars, Keeps
<1> QED BY <1>2, <1>3

(* Captured once, priced once, paid for good. *)
LEMMA OrderStands ==
    ASSUME IInv, [Next]_vars, NEW o \in Orders
    PROVE  /\ captured[o] => captured'[o] /\ approved'[o] = approved[o]
           /\ intent[o] # "NONE" => /\ intent'[o] \in {intent[o], "PAID"}
                                    /\ product'[o] = product[o] /\ quote'[o] = quote[o]
<1> USE DEF IInv, TypeOK
<1>1. ASSUME NEW p \in Orders, Order(p)
      PROVE  /\ UNCHANGED providerVars
             /\ intent[o] # "NONE" => UNCHANGED <<intent[o], product[o], quote[o]>>
      BY <1>1 DEF Order, CreateIntent, IntentExpires, ConsumeFirstDay, ConsumeDay, ExpireCycle,
         MatchOpens, MatchSettles, orderVars
<1>2. ASSUME NEW r \in Requests, Handler(r)
      PROVE  /\ captured[o] => captured'[o] /\ approved'[o] = approved[o]
             /\ UNCHANGED <<product, quote>> /\ intent'[o] \in {intent[o], "PAID"}
  <2>1. CASE Confirm(r)
        BY <2>1 DEF Confirm, Capture, orderVars
  <2>2. CASE MarkPaid(r)
        BY <2>2 DEF MarkPaid, providerVars
  <2>3. CASE ApplyMock(r)
        BY <2>3 DEF ApplyMock, providerVars
  <2>4. CASE ApplyPackage(r)
        BY <2>4 DEF ApplyPackage, ReplayPackage, IssuePackage, RejectPackage, orderVars, providerVars
  <2>5. CASE CheckIntent(r) \/ DeliverWebhook(r) \/ Receive(r) \/ HandlerFails(r)
        BY <2>5 DEF CheckIntent, DeliverWebhook, Receive, HandlerFails, orderVars, providerVars
  <2> QED BY <1>2, <2>1, <2>2, <2>3, <2>4, <2>5 DEF Handler
<1>3. CASE PolicyChanges \/ UNCHANGED vars
      BY <1>3 DEF PolicyChanges, vars, orderVars, providerVars
<1> QED BY <1>1, <1>2, <1>3 DEF Next, providerVars

LEMMA RecordStands ==
    ASSUME TypeOK, [Next]_vars, NEW o \in Orders
    PROVE  \/ Keeps(o)
           \/ \E r \in Requests :
                /\ o = r[1] /\ recorded[o] = "NONE" /\ product[o] = "PACKAGE" /\ PriceHolds(o)
                /\ \E sameDay \in BOOLEAN : IssuePackage(r, sameDay)
<1>1. days[o] \in Nat
      BY BoundsAssumption DEF TypeOK
<1>2. CASE PolicyChanges \/ UNCHANGED vars
      BY <1>1, <1>2 DEF PolicyChanges, vars, cycleVars, Keeps
<1>3. CASE \E p \in Orders : Order(p)
      BY <1>3, DaysOnlyFall
<1>4. CASE \E r \in Requests : Handler(r)
      BY <1>4, HandlerKeeps
<1> QED BY <1>2, <1>3, <1>4 DEF Next

(* Only the answer to a payment that is stored already is a refusal. *)
LEMMA RefusedStep ==
    ASSUME TypeOK, [Next]_vars, NEW o \in refused', o \notin refused
    PROVE  recorded[o] # "NONE"
<1>1. CASE \E r \in Requests : Handler(r)
  <2>1. PICK r \in Requests : Replayed(r) /\ refused' = refused \cup {r[1]}
    <3>1. PICK r \in Requests : Handler(r)
          BY <1>1
    <3>2. ApplyPackage(r)
          BY <3>1 DEF Handler, CheckIntent, Confirm, DeliverWebhook, Receive, MarkPaid, ApplyMock,
             HandlerFails
    <3> QED BY <3>2 DEF ApplyPackage, IssuePackage, RejectPackage, ReplayPackage
  <2> QED BY <2>1 DEF Replayed
<1>2. CASE \E p \in Orders : Order(p)
      BY <1>2 DEF Order, CreateIntent, IntentExpires, ConsumeFirstDay, ConsumeDay, ExpireCycle,
         MatchOpens, MatchSettles
<1>3. CASE PolicyChanges \/ UNCHANGED vars
      BY <1>3 DEF PolicyChanges, vars
<1> QED BY <1>1, <1>2, <1>3 DEF Next

LEMMA SalesStep ==
    ASSUME IInv, Sales, [Next]_vars
    PROVE  Sales'
<1> SUFFICES ASSUME NEW o \in Orders
             PROVE  Sale(o)'
    BY DEF Sales
<1>1. Sale(o)
      BY DEF Sales
<1>2. CASE Keeps(o)
  <2>1. recorded'[o] = recorded[o] /\ (cycle'[o] = "NONE" <=> cycle[o] = "NONE")
        BY <1>2 DEF Keeps
  <2>2. o \in refused' => recorded'[o] # "NONE"
        BY <1>1, <2>1, RefusedStep DEF Sale, IInv
  <2>3. recorded'[o] # "NONE" => intent'[o] # "NONE" /\ captured'[o] /\ PriceHolds(o)'
        BY <1>1, <2>1, OrderStands DEF Sale, PriceHolds
  <2> QED BY <1>1, <2>1, <2>2, <2>3 DEF Sale
<1>3. ASSUME NEW r \in Requests, o = r[1], PriceHolds(o),
             NEW sameDay \in BOOLEAN, IssuePackage(r, sameDay)
      PROVE  Sale(o)'
  <2>1. stage[r] = "RECEIVED"
        BY <1>3 DEF IssuePackage, Goes
  <2>2. captured[o] /\ intent[o] # "NONE"
        BY <1>3, <2>1 DEF IInv, Agreement, HandlerAgrees
  <2>3. UNCHANGED <<captured, approved, intent, quote>>
        BY <1>3 DEF IssuePackage, orderVars, providerVars
  <2>4. recorded'[o] # "NONE" /\ cycle'[o] = "ACTIVE"
        BY <1>3 DEF IssuePackage, Superseded, Event, IInv, TypeOK
  <2> QED BY <1>3, <2>2, <2>3, <2>4 DEF Sale, PriceHolds
<1> QED BY <1>2, <1>3, RecordStands DEF IInv

LEMMA SalesHold == Spec => []Sales
<1>1. Init => Sales
      BY DEF Init, Sales, Sale
<1>2. IInv /\ Sales /\ [Next]_vars => Sales'
      BY SalesStep
<1> QED BY <1>1, <1>2, PaymentInvariant, PTL DEF Spec

(* A package is given at the price of its order, which was the price on the day of the capture. *)
SoldAsQuoted == \A o \in Orders : recorded[o] # "NONE" => captured[o] /\ PriceHolds(o)

(***************************************************************************)
(* Whatever changes of the price overtake an order between its quote, its  *)
(* capture and the handlers that apply it, none of which asks for the      *)
(* price of the moment it runs at.                                         *)
(***************************************************************************)
THEOREM PackagesKeepTheirPrice == Spec => []SoldAsQuoted
<1>1. Sales => SoldAsQuoted
      BY DEF Sales, Sale, SoldAsQuoted
<1> QED BY <1>1, SalesHold, PTL

(* A report of a payment is refused only after the order has what it bought. *)
RefusedIsGranted == \A o \in refused : captured[o] /\ grants[o] = 1

(***************************************************************************)
(* What remains of RepeatsAreAccepted, which the code violates: the        *)
(* conflict answers the repetition of a payment that is applied, and never *)
(* one whose money bought nothing yet.                                     *)
(***************************************************************************)
THEOREM RefusalsComeLate == Spec => []RefusedIsGranted
<1>1. IInv /\ Sales => RefusedIsGranted
  <2> SUFFICES ASSUME IInv, Sales, NEW o \in refused
               PROVE  captured[o] /\ grants[o] = 1
      BY DEF RefusedIsGranted
  <2>1. o \in Orders
        BY DEF IInv, TypeOK
  <2> QED BY <2>1 DEF Sales, Sale, IInv, Agreement, OrderAgrees
<1> QED BY <1>1, PaymentInvariant, SalesHold, PTL

LEMMA GrantsGrow ==
    ASSUME TypeOK, [Next]_vars, NEW o \in Orders
    PROVE  grants'[o] \in {grants[o], grants[o] + 1}
<1> USE DEF TypeOK
<1>1. CASE \E r \in Requests : Handler(r)
  <2>1. PICK r \in Requests : Handler(r)
        BY <1>1
  <2>2. CASE ApplyMock(r)
        BY <2>2 DEF ApplyMock
  <2>3. CASE ApplyPackage(r)
        BY <2>3 DEF ApplyPackage, ReplayPackage, IssuePackage, RejectPackage
  <2>4. CASE ~ApplyMock(r) /\ ~ApplyPackage(r)
        BY <2>1, <2>4 DEF Handler, CheckIntent, Confirm, DeliverWebhook, Receive, MarkPaid, HandlerFails
  <2> QED BY <2>2, <2>3, <2>4
<1>2. CASE \E p \in Orders : Order(p)
      BY <1>2 DEF Order, CreateIntent, IntentExpires, ConsumeFirstDay, ConsumeDay, ExpireCycle,
         MatchOpens, MatchSettles
<1>3. CASE PolicyChanges \/ UNCHANGED vars
      BY <1>3 DEF PolicyChanges, vars
<1> QED BY <1>1, <1>2, <1>3 DEF Next

LEMMA SaleStandsStep == IInv /\ [Next]_vars => \A o \in Orders : SaleStands(o)
<1> SUFFICES ASSUME IInv, [Next]_vars, NEW o \in Orders
             PROVE  SaleStands(o)
    OBVIOUS
<1>1. grants[o] = 1 => grants'[o] = 1
  <2>1. grants'[o] <= 1
        BY AgreementStep DEF Agreement, OrderAgrees
  <2> QED BY <2>1, GrantsGrow DEF IInv
<1>2. recorded[o] # "NONE" => Keeps(o)
      BY RecordStands DEF IInv
<1> QED BY <1>1, <1>2, OrderStands DEF SaleStands, Keeps

(* Handlers that overlap, repeat and die never take back or redo what one of them wrote. *)
THEOREM SalesAreForGood == Spec => [][\A o \in Orders : SaleStands(o)]_vars
<1>1. IInv /\ [Next]_vars => [\A o \in Orders : SaleStands(o)]_vars
      BY SaleStandsStep
<1> QED BY <1>1, PaymentInvariant, PTL DEF Spec

=============================================================================
