-------------------------------- MODULE Desk --------------------------------
(***************************************************************************)
(* The pages a merchant works with orders on, in one tab: home, orders,    *)
(* an order with its message drafts, new orders, payment links, customers  *)
(* and the administrator's page, with the links' page buyers start from.   *)
(* Calls overlap and are lost, other tabs change the session, fulfil and   *)
(* decide, and the server's fulfillment handler reads before it writes. A  *)
(* step of the page is a state update with the render and the effects      *)
(* React runs for it.                                                      *)
(***************************************************************************)
EXTENDS Naturals, FiniteSets

CONSTANTS
  Orders,     \* orders that may exist
  Merchants,  \* merchants, with a user each
  Onboarded,  \* merchants whose onboarding is complete
  Worlds,     \* what happens around the tab, see World
  MaxCalls,   \* bound: calls under way when the page starts another
  None        \* no merchant or order

VARIABLES
  \* the server
  owner,    \* merchant of the order, None before it is created
  pay,      \* payment status of the order
  ful,      \* fulfillment status of the order
  draft,    \* the message draft last proposed for the order
  session,  \* merchant the browser is signed in as
  paid,     \* orders that were ever paid for
  shipped,  \* orders that were ever shipped
  world,    \* what happens around the tab in this behaviour
  \* the browser
  tab,      \* the page and its state
  calls     \* calls under way, equal ones counted once

orders == <<world, owner, pay, ful, draft, session, paid, shipped>>
vars   == <<orders, tab, calls>>

-----------------------------------------------------------------------------
Fulfillable == {"PAID", "LATE_PAYMENT"}
Pays        == {"AWAITING_PAYMENT", "NEEDS_REVIEW"} \cup Fulfillable
Fulfillment == {"UNFULFILLED", "PROCESSING", "SHIPPED", "DELIVERED", "CANCELLED"}
Drafts      == {"none", "pending", "decided"}

Row  == [order: Orders, pay: Pays, ful: Fulfillment]

\* "elsewhere": the checkout, onboarding or sign-in.
Lists == {"home", "orders", "links", "customers", "customer", "admin"}
Pages == Lists \cup {"order", "create", "miniapp", "link", "elsewhere"}

Tab == [page: Pages, order: Orders \cup {None},
        gate: BOOLEAN,                   \* waiting for /me
        loaded: BOOLEAN,
        view: SUBSET Row,                \* the rows last loaded
        busy: BOOLEAN,                   \* busy, loading
        form: BOOLEAN,                   \* shipOpen
        error: BOOLEAN,
        rows: BOOLEAN,                   \* pendingProposals is not empty
        sheet: {"none", "fresh", "checked", "terminal"},  \* activeProposal, digestOk
        open: BOOLEAN,                   \* proposalSheetOpen
        link: BOOLEAN,                   \* the address names the proposal
        suggesting: BOOLEAN, deciding: BOOLEAN]

Writes == {"patch", "create", "start", "suggest", "decide"}
Ops    == Writes \cup {"me", "list", "info", "order", "drafts", "draft", "save"}
Call   == [op: Ops, order: Orders \cup {None},
           arg: Fulfillment \cup Drafts,        \* status asked for, or proposal as read, or neither
           own: BOOLEAN,                  \* the action that made the page busy awaits it
           live: BOOLEAN,                 \* the page that made it is shown
           stage: {"sent", "read", "answered"},
           by: Merchants \cup {None},     \* merchant the handler found
           answer: SUBSET Row]

\* Whether the message gateway is configured, and what bounds the rest:
\* payment statuses that are given, fulfillment statuses other tabs ask for,
\* and sessions other tabs start.
World == [gateway: BOOLEAN, given: SUBSET Pays, wanted: SUBSET Fulfillment,
          users: SUBSET (Merchants \cup {None})]

ASSUME ConstantsAssumption ==
  /\ Onboarded \subseteq Merchants /\ Worlds \subseteq World /\ MaxCalls \in Nat \ {0}
  /\ None \notin Orders \cup Merchants

NewCall(op, o, arg, own) ==
  [op |-> op, order |-> o, arg |-> arg, own |-> own, live |-> TRUE, stage |-> "sent",
   by |-> None, answer |-> {}]

Room == Cardinality(calls) < MaxCalls

Goes(c, next) == (calls \ {c}) \cup next

NewTab(p, o, link) ==
  [page |-> p, order |-> o, gate |-> p \in {"home", "create"}, loaded |-> FALSE, view |-> {}, busy |-> FALSE,
   form |-> FALSE, error |-> FALSE, rows |-> FALSE, sheet |-> "none", open |-> FALSE,
   link |-> link, suggesting |-> FALSE, deciding |-> FALSE]

\* The effects of a page's first render.
FirstCalls(p, o) ==
  CASE p \in {"home", "create"}         -> {NewCall("me", None, "none", FALSE)}
    [] p \in Lists \ {"home"}           -> {NewCall("list", None, "none", FALSE)}
    [] p = "order"                      -> {NewCall("order", o, "none", FALSE)}
    [] p = "link"                       -> {NewCall("info", None, "none", FALSE)}
    [] p \in {"miniapp", "elsewhere"}   -> {}

Init ==
  /\ owner \in [Orders -> Merchants \cup {None}]
  /\ pay = [o \in Orders |-> "AWAITING_PAYMENT"]
  /\ ful = [o \in Orders |-> "UNFULFILLED"]
  /\ draft = [o \in Orders |-> "none"]
  /\ session \in Merchants
  /\ paid = {} /\ shipped = {}
  /\ world \in Worlds
  /\ tab = NewTab("home", None, FALSE)
  /\ calls = FirstCalls("home", None)

-----------------------------------------------------------------------------
\* The server.

Mine(o)  == session # None /\ owner[o] = session
RowOf(o) == [order |-> o, pay |-> pay[o], ful |-> ful[o]]

\* The worker and administrators.
MoneyMoves(o, st) ==
  /\ owner[o] # None /\ st # pay[o]
  /\ pay' = [pay EXCEPT ![o] = st]
  /\ paid' = IF st \in Fulfillable THEN paid \cup {o} ELSE paid
  /\ UNCHANGED <<world, owner, ful, draft, session, shipped, tab, calls>>

\* Another tab signs in or out.
SessionChanges(m) ==
  /\ m # session /\ session' = m
  /\ UNCHANGED <<world, owner, pay, ful, draft, paid, shipped, tab, calls>>

\* Another tab asks for a fulfillment status.
OthersPatch(o, to) ==
  /\ Room
  /\ calls' = calls \cup {[NewCall("patch", o, to, FALSE) EXCEPT !.live = FALSE]}
  /\ UNCHANGED <<orders, tab>>

\* The draft is decided on the gateway's page, or expires.
OthersDecide(o) ==
  /\ draft[o] = "pending"
  /\ draft' = [draft EXCEPT ![o] = "decided"]
  /\ UNCHANGED <<world, owner, pay, ful, session, paid, shipped, tab, calls>>

\* The handler of call c ends, as merchant m, with these rows.
Answered(c, m, arg, rows) ==
  calls' = Goes(c, IF c.live
                   THEN {[c EXCEPT !.stage = "answered", !.by = m, !.arg = arg, !.answer = rows]}
                   ELSE {})

CanTransition(from, to) ==
  \/ from = to
  \/ from = "UNFULFILLED" /\ to \in {"PROCESSING", "SHIPPED", "CANCELLED"}
  \/ from = "PROCESSING" /\ to \in {"UNFULFILLED", "SHIPPED", "CANCELLED"}
  \/ from = "SHIPPED" /\ to \in {"DELIVERED", "CANCELLED"}

\* Mutant: every status may follow every other.
Fulfills_AnyOrder(o, to) == to \notin {"CANCELLED", "UNFULFILLED"} => pay[o] \in Fulfillable

\* handlePatchFulfillment: the transition, and money for all but two statuses.
Fulfills(o, to) ==
  /\ CanTransition(ful[o], to)
  /\ to \notin {"CANCELLED", "UNFULFILLED"} => pay[o] \in Fulfillable

\* Mutant: the order is looked up by its id alone.
ReadForPatch_AnyMerchant(c) ==
  /\ c.op = "patch" /\ session # None /\ Fulfills(c.order, c.arg)
  /\ calls' = Goes(c, {[c EXCEPT !.stage = "read", !.by = session]})
  /\ UNCHANGED orders

\* handlePatchFulfillment reads and checks,
ReadForPatch(c) ==
  /\ c.op = "patch" /\ Mine(c.order) /\ Fulfills(c.order, c.arg)
  /\ calls' = Goes(c, {[c EXCEPT !.stage = "read", !.by = session]})
  /\ UNCHANGED orders

\* and then writes what it was asked for.
WritePatch(c) ==
  /\ c.op = "patch" /\ c.stage = "read"
  /\ ful' = [ful EXCEPT ![c.order] = c.arg]
  /\ shipped' = IF c.arg = "SHIPPED" THEN shipped \cup {c.order} ELSE shipped
  /\ Answered(c, c.by, c.arg, {[RowOf(c.order) EXCEPT !.ful = c.arg]})
  /\ UNCHANGED <<world, owner, pay, draft, session, paid>>

\* handleMe, and the lists' handlers: some of the merchant's orders.
AnswerRead(c) ==
  /\ \/ c.op = "me" /\ session # None /\ Answered(c, session, "none", {})
     \/ /\ c.op = "list" /\ session # None
        /\ \E rows \in SUBSET {RowOf(o) : o \in {o \in Orders : Mine(o)}} :
             Answered(c, session, "none", rows)
     \/ c.op = "info" /\ Answered(c, None, "none", {})
     \/ c.op = "order" /\ Mine(c.order) /\ Answered(c, session, "none", {RowOf(c.order)})
     \/ c.op \in {"drafts", "draft"} /\ Answered(c, None, draft[c.order], {})
  /\ UNCHANGED orders

\* handleCreateOrder; payment links and the mini app find the merchant
\* without the session.
AnswerCreate(c) ==
  /\ c.op \in {"create", "start"}
  /\ \E o \in Orders, m \in IF c.op = "create" THEN {session} \ {None} ELSE Merchants :
       /\ owner[o] = None
       /\ owner' = [owner EXCEPT ![o] = m]
       /\ Answered(c, m, "none", {RowOf(o)})
  /\ UNCHANGED <<world, pay, ful, draft, session, paid, shipped>>

\* Links, notes, tags, resolutions and retried deliveries.
AnswerSave(c) ==
  /\ c.op = "save" /\ session # None
  /\ Answered(c, session, "none", {})
  /\ UNCHANGED orders

\* handleSuggestFollowUp: a proposal, or the one of the same two minutes.
AnswerSuggest(c) ==
  /\ c.op = "suggest" /\ Mine(c.order)
  /\ \E st \in {"pending", draft[c.order]} \ {"none"} : draft' = [draft EXCEPT ![c.order] = st]
  /\ Answered(c, session, "none", {})
  /\ UNCHANGED <<world, owner, pay, ful, session, paid, shipped>>

\* The gateway confirms or rejects.
AnswerDecide(c) ==
  /\ c.op = "decide" /\ draft[c.order] = "pending"
  /\ draft' = [draft EXCEPT ![c.order] = "decided"]
  /\ Answered(c, None, "none", {})
  /\ UNCHANGED <<world, owner, pay, ful, session, paid, shipped>>

\* A call that is refused changes nothing and Fails.
Answer(c) ==
  /\ \/ WritePatch(c)
     \/ /\ c.stage = "sent"
        /\ \/ ReadForPatch(c) \/ AnswerRead(c) \/ AnswerCreate(c)
           \/ AnswerSave(c) \/ AnswerSuggest(c) \/ AnswerDecide(c)
  /\ UNCHANGED tab

-----------------------------------------------------------------------------
\* What an answer does to the page.

\* Navigation: reads of the page that is left are aborted or ignored.
Ignored(c) == [c EXCEPT !.live = FALSE, !.own = FALSE]
Left(cs) == {Ignored(c) : c \in {d \in cs : d.op \in Writes /\ d.stage # "answered"}}
Away(c) == tab' = NewTab("elsewhere", None, FALSE) /\ calls' = Left(calls \ {c})

\* Home: the gate opens for merchants who have onboarded, and home loads.
HomeOpens(c) ==
  /\ tab.page = "home" /\ c.op = "me"
  /\ IF c.by \notin Onboarded THEN Away(c)
     ELSE tab' = [tab EXCEPT !.gate = FALSE] /\ calls' = Goes(c, {NewCall("list", None, "none", FALSE)})

\* CreateOrderForm: the gate opens for merchants who have onboarded.
CreateOpens(c) ==
  /\ tab.page = "create" /\ c.op = "me"
  /\ IF c.by \notin Onboarded THEN Away(c)
     ELSE tab' = [tab EXCEPT !.gate = FALSE] /\ calls' = calls \ {c}

\* The rows a page keeps, with the error it goes on showing.
Listed(c, rows, error) ==
  /\ tab' = [tab EXCEPT !.loaded = TRUE, !.view = rows, !.busy = @ /\ ~c.own, !.error = error]
  /\ calls' = calls \ {c}

\* setData, setOrders, setItems, setCustomer, setLinks and the administrator's
\* lists; setInfo of the links' page buyers see.
HomeLoads(c, rows)      == tab.page = "home" /\ c.op = "list" /\ Listed(c, rows, FALSE)
OrdersLoad(c, rows)     == tab.page = "orders" /\ c.op = "list" /\ Listed(c, rows, FALSE)
CustomersLoad(c)  == tab.page = "customers" /\ c.op = "list" /\ Listed(c, {}, FALSE)
CustomerLoads(c, rows)  == tab.page = "customer" /\ c.op = "list" /\ Listed(c, rows, FALSE)
LinksLoad(c)      == tab.page = "links" /\ c.op = "list" /\ Listed(c, {}, tab.error)
AdminLoads(c)     == tab.page = "admin" /\ c.op = "list" /\ Listed(c, {}, tab.error)
LinkInfoArrives(c)      == tab.page = "link" /\ c.op = "info" /\ Listed(c, {}, FALSE)

\* OrderDetailPage.load; the effect on the order's id loads its proposals.
DeliverOrder(c, rows) ==
  /\ c.op = "order"
  /\ tab' = [tab EXCEPT !.loaded = TRUE, !.view = rows]
  /\ calls' = Goes(c, IF world.gateway /\ rows # {} /\ tab.view = {}
                      THEN {NewCall("drafts", tab.order, "none", FALSE)} ELSE {})

\* setFulfillment.
DeliverPatch(c, rows) ==
  /\ c.op = "patch"
  /\ tab' = [tab EXCEPT !.loaded = TRUE, !.view = rows, !.form = FALSE, !.busy = FALSE]
  /\ calls' = calls \ {c}

\* CreateOrderForm shows the link, and where to view the order.
OrderCreated(c, rows) == tab.page = "create" /\ c.op = "create" /\ Listed(c, rows, FALSE)

\* The mini app shows the links to share.
MiniCreated(c) == tab.page = "miniapp" /\ c.op = "start" /\ Listed(c, {}, FALSE)

\* A payment link's page goes on to the checkout.
LinkStarted(c) == tab.page = "link" /\ c.op = "start" /\ Away(c)

\* What is saved is loaded again, and awaited by who saved it.
Reloads(c) == UNCHANGED tab /\ calls' = Goes(c, {NewCall("list", None, "none", c.own)})

\* onCreate of payment links, notes and tags, and retried deliveries.
LinkCreated(c)     == tab.page = "links" /\ c.op = "save" /\ Reloads(c)
CustomerSaved(c)   == tab.page = "customer" /\ c.op = "save" /\ Reloads(c)
DeliveryRetried(c) == tab.page = "admin" /\ c.op = "save" /\ ~c.own /\ Reloads(c)

\* resolve throws on the form's reset, for React has cleared currentTarget
\* by then.
Resolved(c) ==
  /\ tab.page = "admin" /\ c.op = "save" /\ c.own
  /\ tab' = [tab EXCEPT !.error = TRUE, !.busy = FALSE]
  /\ calls' = calls \ {c}

\* loadProposals: the API lists none, so only the one the address names; it
\* is shown at once while it is pending.
DeliverDrafts(c) ==
  /\ c.op = "drafts"
  /\ LET shown == tab.link /\ c.arg = "pending"
     IN  tab' = [tab EXCEPT !.rows = shown, !.open = @ \/ shown, !.sheet = IF shown THEN "fresh" ELSE @]
  /\ calls' = calls \ {c}

\* suggestFollowUp asks the gateway for the proposal and opens it.
DeliverSuggest(c) ==
  \/ /\ c.op = "suggest"
     /\ calls' = Goes(c, {NewCall("draft", c.order, "none", FALSE)})
     /\ UNCHANGED tab
  \/ /\ c.op = "draft"
     /\ tab' = [tab EXCEPT !.rows = TRUE, !.open = TRUE, !.link = TRUE, !.suggesting = FALSE,
                           !.sheet = IF c.arg = "pending" THEN "fresh" ELSE "terminal"]
     /\ calls' = calls \ {c}

\* onApprove, onReject: onResolved loads both again, onClose closes.
DeliverDecide(c) ==
  /\ c.op = "decide"
  /\ tab' = [tab EXCEPT !.deciding = FALSE, !.open = FALSE]
  /\ calls' = Goes(c, {NewCall("drafts", c.order, "none", FALSE), NewCall("order", c.order, "none", FALSE)})

\* api() hands on {} for a body it cannot read.
Deliver(c) ==
  /\ c.live /\ c.stage = "answered"
  /\ \E rows \in {c.answer, {}} :
       \/ HomeOpens(c) \/ CreateOpens(c)
       \/ HomeLoads(c, rows) \/ OrdersLoad(c, rows) \/ CustomersLoad(c) \/ CustomerLoads(c, rows)
       \/ LinksLoad(c) \/ AdminLoads(c) \/ LinkInfoArrives(c)
       \/ OrderCreated(c, rows) \/ MiniCreated(c) \/ LinkStarted(c)
       \/ LinkCreated(c) \/ CustomerSaved(c) \/ DeliveryRetried(c) \/ Resolved(c)
       \/ DeliverOrder(c, rows) \/ DeliverPatch(c, rows)
       \/ DeliverDrafts(c) \/ DeliverSuggest(c) \/ DeliverDecide(c)
  /\ UNCHANGED orders

\* Mutant: busy is reset where the answer is used, and not when there is none.
Recovered_Busy(c) == [tab EXCEPT !.error = TRUE]

\* The catch and finally of whoever waits for c.
Recovered(c) ==
  [tab EXCEPT
     !.busy = @ /\ ~c.own,
     !.gate = @ /\ c.op # "me",
     !.error = @ \/ c.own \/ (c.op \in {"me", "list", "info"} /\ tab.page # "customer"),
     !.suggesting = @ /\ c.op \notin {"suggest", "draft"},
     !.deciding = @ /\ c.op # "decide"]

\* The call is refused, lost, or takes 15 seconds. What comes after it is not
\* done; the server may get it all the same.
Fail(c) ==
  /\ c.live
  /\ IF c.op = "me" /\ tab.page = "create" THEN Away(c)
     ELSE /\ tab' = Recovered(c)
          /\ \E late \in SUBSET Left({c}) : calls' = Goes(c, late)
  /\ UNCHANGED orders

\* A request nobody waits for is refused or lost.
Lose(c) ==
  /\ ~c.live
  /\ calls' = calls \ {c}
  /\ UNCHANGED <<orders, tab>>

-----------------------------------------------------------------------------
\* What the page offers, and what a click does.

Clicks(update, call) ==
  /\ Room
  /\ tab' = update /\ calls' = calls \cup {call}
  /\ UNCHANGED orders

\* The order page's part for fulfillment: paid, neither delivered nor cancelled.
ToFulfill == {r \in tab.view : r.pay \in Fulfillable /\ r.ful \notin {"DELIVERED", "CANCELLED"}}

\* Its buttons.
OffersFulfillment(to) ==
  /\ tab.page = "order" /\ ~tab.busy
  /\ \E r \in ToFulfill :
       \/ to = "PROCESSING" /\ r.ful = "UNFULFILLED" /\ ~tab.form
       \/ to = "DELIVERED" /\ r.ful = "SHIPPED" /\ ~tab.form
       \/ to = "SHIPPED" /\ tab.form

SetFulfillment(to) ==
  /\ OffersFulfillment(to)
  /\ Clicks([tab EXCEPT !.busy = TRUE], NewCall("patch", tab.order, to, TRUE))

\* setShipOpen.
ToggleForm ==
  /\ tab.page = "order" /\ (tab.form \/ ~tab.busy) /\ ToFulfill # {}
  /\ tab' = [tab EXCEPT !.form = ~@]
  /\ UNCHANGED <<orders, calls>>

SuggestFollowUp ==
  /\ tab.page = "order" /\ world.gateway /\ tab.view # {} /\ ~tab.suggesting
  /\ Clicks([tab EXCEPT !.suggesting = TRUE], NewCall("suggest", tab.order, "none", FALSE))

\* A row of the pending proposals, which may be the one the sheet has, and
\* the sheet's close.
ToggleSheet ==
  /\ tab.page = "order" /\ tab.loaded /\ (tab.open \/ tab.rows)
  /\ \E s \in IF tab.open \/ tab.sheet = "terminal" THEN {tab.sheet} ELSE {tab.sheet, "fresh"} :
       tab' = [tab EXCEPT !.open = ~@, !.sheet = s]
  /\ UNCHANGED <<orders, calls>>

\* The digest of the draft arrives: it leaves out the merchant, which the
\* gateway's has, so it is another one even for the text as proposed.
CheckDigest ==
  /\ tab.open /\ tab.sheet = "fresh"
  /\ tab' = [tab EXCEPT !.sheet = "checked"]
  /\ UNCHANGED <<orders, calls>>

\* onReject, or onApprove while digestOk still stands.
Decide ==
  /\ tab.open /\ ~tab.deciding /\ tab.sheet \in {"fresh", "checked"}
  /\ Clicks([tab EXCEPT !.deciding = TRUE], NewCall("decide", tab.order, "none", FALSE))

\* A form is sent, and its button disabled.
Sends(op) == ~tab.busy /\ Clicks([tab EXCEPT !.busy = TRUE, !.error = FALSE], NewCall(op, None, "none", TRUE))

\* The form of CreateOrderForm, of the mini app, of a payment link, of new
\* links, and the administrator's.
SubmitOrder == tab.page = "create" /\ ~tab.gate /\ ~tab.loaded /\ Sends("create")
SubmitMini  == tab.page = "miniapp" /\ ~tab.loaded /\ Sends("start")
SubmitStart == tab.page = "link" /\ tab.loaded /\ Sends("start")
SubmitLink  == tab.page = "links" /\ Sends("save")
Resolve     == tab.page = "admin" /\ Sends("save")

\* Notes and tags of a customer, and retries of deliveries, disable nothing.
SaveCustomer  == tab.page = "customer" /\ tab.loaded /\ Clicks(tab, NewCall("save", None, "none", FALSE))
RetryDelivery == tab.page = "admin" /\ tab.loaded /\ Clicks(tab, NewCall("save", None, "none", FALSE))

\* Payment events load home and orders again, searches and filters the lists.
ReloadHome      == tab.page = "home" /\ tab.loaded /\ Clicks(tab, NewCall("list", None, "none", FALSE))
ReloadOrders    == tab.page = "orders" /\ Clicks(tab, NewCall("list", None, "none", FALSE))
ReloadCustomers == tab.page = "customers" /\ Clicks(tab, NewCall("list", None, "none", FALSE))

\* usePaymentStatusPoll and events load the order again.
ReloadOrder ==
  /\ tab.page = "order" /\ tab.view # {}
  /\ Clicks(tab, NewCall("order", tab.order, "none", FALSE))

\* Another page, or the same again; an order's from a row or with a proposal
\* in its address.
Open(p, o, link) ==
  /\ tab' = NewTab(p, o, link)
  /\ calls' = Left(calls) \cup FirstCalls(p, o)
  /\ UNCHANGED orders

\* The rows that lead to an order: home's and the orders' once loaded, a
\* customer's recent orders, and the order just created.
HomeRows     == IF tab.page = "home" /\ ~tab.gate THEN tab.view ELSE {}
OrdersRows   == IF tab.page = "orders" THEN tab.view ELSE {}
CustomerRows == IF tab.page = "customer" THEN tab.view ELSE {}
CreatedRow   == IF tab.page = "create" THEN tab.view ELSE {}

OpenOrder(o, link) ==
  /\ link \/ \E r \in HomeRows \cup OrdersRows \cup CustomerRows \cup CreatedRow : r.order = o
  /\ Open("order", o, link)

\* A row of the customers.
OpenCustomer == tab.page = "customers" /\ tab.loaded /\ Open("customer", None, FALSE)

-----------------------------------------------------------------------------
Next ==
  \/ \E o \in Orders : \E st \in world.given : MoneyMoves(o, st)
  \/ \E m \in world.users : SessionChanges(m)
  \/ \E o \in Orders : OthersDecide(o) \/ \E to \in world.wanted : OthersPatch(o, to)
  \/ \E c \in calls : Answer(c) \/ Deliver(c) \/ Fail(c) \/ Lose(c)
  \/ \E to \in Fulfillment : SetFulfillment(to)
  \/ ToggleForm \/ SuggestFollowUp \/ ToggleSheet \/ CheckDigest \/ Decide
  \/ SubmitOrder \/ SubmitMini \/ SubmitStart \/ SubmitLink \/ Resolve \/ SaveCustomer \/ RetryDelivery
  \/ ReloadHome \/ ReloadOrders \/ ReloadCustomers \/ ReloadOrder
  \/ \E p \in Pages \ {"order", "customer", "elsewhere"} : Open(p, None, FALSE)
  \/ OpenCustomer
  \/ \E o \in Orders, link \in BOOLEAN : OpenOrder(o, link)

Spec == Init /\ [][Next]_vars

\* Calls of the mini app are made with fetch, and may hang.
OwnCallEnds ==
  \E c \in calls : c.own /\ c.live /\ tab.page # "miniapp" /\ (Deliver(c) \/ Fail(c))

\* api() ends every call.
FairSpec == Spec /\ WF_vars(OwnCallEnds)

-----------------------------------------------------------------------------
\* Type invariant: orders, the page and its calls keep their shapes.
TypeOK ==
  /\ owner \in [Orders -> Merchants \cup {None}]
  /\ pay \in [Orders -> Pays] /\ ful \in [Orders -> Fulfillment] /\ draft \in [Orders -> Drafts]
  /\ session \in Merchants \cup {None} /\ paid \subseteq Orders /\ shipped \subseteq Orders
  /\ tab \in Tab /\ calls \subseteq Call

\* However requests of several tabs overlap and whatever the pages they come
\* from show, goods leave only for orders that were paid, and arrive only
\* after they left (handlePatchFulfillment reads, checks and writes apart).
EarnedFulfillment ==
  \A o \in Orders :
    /\ ful[o] \in {"PROCESSING", "SHIPPED", "DELIVERED"} => o \in paid
    /\ ful[o] = "DELIVERED" => o \in shipped

\* What a handler writes or tells belongs to the merchant it found at its
\* start, although the session may have changed since the page was loaded and
\* may change again before the answer (merchantID, loadOrderForMerchant).
TenantsApart ==
  \A c \in calls : c.by # None =>
    /\ c.op = "patch" => owner[c.order] = c.by
    /\ \A r \in c.answer : owner[r.order] = c.by

\* A button that an action disables comes back, whether the action succeeds,
\* fails, or is not answered (setFulfillment, onSubmit, onCreate, resolve).
BusyEnds == tab.busy /\ tab.page # "miniapp" ~> ~tab.busy \/ tab.page = "miniapp"

=============================================================================
