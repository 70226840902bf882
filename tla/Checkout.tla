------------------------------ MODULE Checkout ------------------------------
(***************************************************************************)
(* The checkout page of one order against the API: loads, polls, events    *)
(* and the buyer's clicks start calls that overlap, are answered out of    *)
(* order, fail, or are answered with a body that is cut off; meanwhile the *)
(* worker moves the order, quotes lapse, networks are withdrawn and other  *)
(* tabs act. A step of the page is a state update with the render and the  *)
(* effects React runs for it.                                              *)
(***************************************************************************)
EXTENDS Naturals, FiniteSets

CONSTANTS
  Nets,       \* networks of the rails
  Flaky,      \* networks whose watcher may be unhealthy
  Given,      \* statuses the worker gives the order
  MaxCalls,   \* bound: calls of the page under way at once
  MaxQuotes,  \* bound: quotes of the order
  None        \* no option, network or answer

VARIABLES
  \* the server
  status,     \* status of the payment intent
  quote,      \* number of the current quote
  lapsed,     \* quotes past their deadline
  options,    \* payment options ever made
  offered,    \* effectiveCheckoutNetworks
  submitted,  \* no customer details are missing
  \* the page
  pref,       \* preferred network, kept by the browser
  pay,        \* the order as last loaded
  step,       \* which part of the checkout is shown
  selected,   \* option the buyer is to pay
  auto,       \* a network was chosen for the buyer
  armed,      \* the poller has a timer
  crashed,    \* rendering threw
  calls       \* calls under way, equal ones counted once

order == <<status, quote, lapsed, options, offered, submitted>>
view  == <<pay, step, selected, auto, armed, crashed>>
vars  == <<order, pref, view, calls>>

-----------------------------------------------------------------------------
Unpaid    == {"AWAITING_PAYMENT"}
InFlight  == {"SEEN", "CONFIRMING"}
Exception == {"UNDERPAID", "OVERPAID", "LATE_PAYMENT", "NEEDS_REVIEW", "DUPLICATE_PAYMENT"}
Statuses  == Unpaid \cup InFlight \cup Exception \cup {"PAID", "EXPIRED"}

\* moneyDetected.
Money(st) == st \in InFlight \cup Exception \cup {"PAID"}

\* shouldPollPaymentStatus.
Pollable(st) == st \in Unpaid \cup InFlight

Option   == [net: Nets, quote: 1..MaxQuotes]
Snapshot == [status: Statuses, quote: 1..MaxQuotes, options: SUBSET Option,
             offered: SUBSET Nets, submitted: BOOLEAN]

\* What api() returns for an answer whose body cannot be read.
Cut == [status |-> "", quote |-> 0, options |-> {}, offered |-> {}, submitted |-> TRUE]

Page   == [status: Statuses \cup {""}, offered: SUBSET Nets]
Ops    == {"load", "details", "choose", "refresh"}
Tags   == {"", "poll", "network"}
Call   == [op: Ops, tag: Tags, net: Nets \cup {None}, answered: BOOLEAN,
           answer: Snapshot \cup Option \cup {None}]

ASSUME ConstantsAssumption ==
  /\ Flaky \subseteq Nets /\ Given \subseteq Statuses \ Unpaid
  /\ {MaxQuotes, MaxCalls} \subseteq Nat \ {0}
  /\ None \notin Nets \cup Option \cup Snapshot \cup Page \cup Call

NewCall(op, tag, net) == [op |-> op, tag |-> tag, net |-> net, answered |-> FALSE, answer |-> None]
Load(tag) == NewCall("load", tag, None)

Busy == \E c \in calls : c.tag = "poll"

Start(c) == Cardinality(calls) < MaxCalls /\ calls' = calls \cup {c}
Goes(c, next) == (calls \ {c}) \cup next

Init ==
  /\ status = "AWAITING_PAYMENT" /\ quote = 1 /\ lapsed = {}
  /\ options = [net: Nets, quote: {1}] /\ offered = Nets
  /\ submitted \in BOOLEAN
  /\ pref \in Nets \cup {None}
  /\ pay = None /\ step = "details" /\ selected = None
  /\ auto = FALSE /\ armed = FALSE /\ crashed = FALSE
  /\ calls = {Load("")}

-----------------------------------------------------------------------------
\* The server.

\* Bound: the last quote does not lapse.
Lapse ==
  /\ quote \notin lapsed /\ quote < MaxQuotes
  /\ lapsed' = lapsed \cup {quote}
  /\ UNCHANGED <<status, quote, options, offered, submitted, pref, view, calls>>

\* The worker: money, confirmations, expiry, review. Buyers pay what a page
\* offers them, so not before their details are in.
WorkerMoves ==
  /\ \E st \in Given \ {status} :
       /\ st = "EXPIRED" => status \in Unpaid /\ quote \in lapsed
       /\ st # "EXPIRED" => submitted
       /\ status \in Exception \cup {"PAID"} => st \in Exception
       /\ status' = st
  /\ UNCHANGED <<quote, lapsed, options, offered, submitted, pref, view, calls>>

HealthChanges(n) ==
  /\ offered' = IF n \in offered THEN offered \ {n} ELSE offered \cup {n}
  /\ UNCHANGED <<status, quote, lapsed, options, submitted, pref, view, calls>>

\* hideUnhealthyCheckoutOptions.
Listed == IF status \in Unpaid THEN {o \in options : o.net \in offered} ELSE options

\* loadPublicBySlug; its statements are taken to see the order at one moment.
Snap == [status |-> status, quote |-> quote, options |-> Listed, offered |-> offered,
         submitted |-> submitted]

\* Mutant: a quote that is still running is replaced.
Refreshable_Running == ~Money(status)

\* handlePublicRefreshQuote: unpaid, and the quote is over.
Refreshable == ~Money(status) /\ (status = "EXPIRED" \/ quote \in lapsed)

RefreshQuote ==
  /\ Refreshable
  /\ offered # {}
  /\ quote < MaxQuotes
  /\ quote' = quote + 1
  /\ options' = options \cup [net: offered, quote: {quote + 1}]
  /\ status' = "AWAITING_PAYMENT"
  /\ UNCHANGED <<lapsed, offered, submitted>>

\* The next state of the order, as loaded by the answer.
SnapNext == [status |-> status', quote |-> quote',
             options |-> {o \in options' : o.net \in offered},
             offered |-> offered, submitted |-> submitted]

\* Another tab of the buyer refreshes the quote or sends the details.
OtherTab ==
  /\ \/ RefreshQuote
     \/ /\ ~submitted /\ submitted' = TRUE
        /\ UNCHANGED <<status, quote, lapsed, options, offered>>
  /\ UNCHANGED <<pref, view, calls>>

\* pickOptionByNetwork: the current option of the network, else another.
Picked(n) ==
  LET current == {o \in Listed : o.net = n /\ o.quote = quote}
      other   == {o \in Listed : o.net = n}
  IN  IF current # {} THEN current ELSE other

Answers(c, answer) == calls' = Goes(c, {[c EXCEPT !.answered = TRUE, !.answer = answer]})

\* The server handles a call. One that it refuses changes nothing and Fails.
Answer(c) ==
  /\ ~c.answered
  /\ \/ /\ c.op = "load"
        /\ Answers(c, Snap) /\ UNCHANGED order
     \/ /\ c.op = "details" /\ ~submitted
        /\ submitted' = TRUE
        /\ Answers(c, None)
        /\ UNCHANGED <<status, quote, lapsed, options, offered>>
     \/ /\ c.op = "choose" /\ c.net \in offered
        /\ \E o \in Picked(c.net) : Answers(c, o)
        /\ UNCHANGED order
     \/ /\ c.op = "refresh"
        /\ RefreshQuote /\ Answers(c, SnapNext)
  /\ UNCHANGED <<pref, view>>

-----------------------------------------------------------------------------
\* What is on the page.

Shown == IF pay = None \/ crashed THEN "" ELSE pay.status

\* canRefreshQuote; the browser's clock is taken to agree with the server's.
SheetExpired == Shown = "EXPIRED" \/ (Shown \in Unpaid /\ selected # None /\ selected.quote \in lapsed)

OnPayStep == pay # None /\ ~crashed /\ (step = "pay" \/ Money(Shown))

\* PooliPaySheet: the amount, the address and the pay button are there.
Offers == OnPayStep /\ Shown # "PAID" /\ Shown \notin Exception /\ ~SheetExpired /\ selected # None

\* PooliPaySheet, PaymentException: the refresh button is there.
OffersRefresh == OnPayStep /\ Shown \notin Exception \cup {"PAID"} /\ SheetExpired

OffersNetworks == pay # None /\ ~crashed /\ step = "network" /\ Shown # "PAID"

-----------------------------------------------------------------------------
\* Updates of the page.

\* Mutant: details that are missing are asked for only on the first load.
ResolveStep_Submitted(d, sel) == IF Money(d.status) \/ sel # None THEN "pay" ELSE "network"

\* resolveStep.
ResolveStep(d, sel) ==
  IF ~d.submitted THEN "details" ELSE IF Money(d.status) \/ sel # None THEN "pay" ELSE "network"

\* The option of an answer that stands for the selected one.
Rematched(d, sel) ==
  LET same    == {o \in d.options : o = sel}
      current == {o \in d.options : o.net = sel.net /\ o.quote = d.quote}
      any     == {o \in d.options : o.net = sel.net}
  IN  IF same # {} THEN same ELSE IF current # {} THEN current
      ELSE IF any # {} THEN any ELSE {sel}

\* hydrateOption: usable options first, then the preferred network.
Hydrated(d) ==
  LET usable == {o \in d.options : o.quote = d.quote}
      pool   == IF usable # {} THEN usable ELSE d.options
      wanted == {o \in pool : o.net = pref}
  IN  IF pool = {} THEN {None} ELSE IF wanted # {} THEN wanted ELSE pool

\* load: what may be selected after an answer.
Reselected(d) ==
  IF selected # None THEN Rematched(d, selected)
  ELSE IF Money(d.status) THEN Hydrated(d) ELSE {None}

\* The effect that chooses a network for the buyer, once.
AutoPick(d, st) ==
  IF auto \/ st # "network" \/ Money(d.status) THEN {}
  ELSE IF Cardinality(d.offered) = 1 THEN d.offered ELSE d.offered \cap {pref}

\* usePaymentStatusPoll: one poller while the status is pollable.
Poller(st) == armed' = Pollable(st)

\* A poller that stops forgets the reload it waits for.
Untagged(cs, st) == IF Pollable(st) THEN cs ELSE {[c EXCEPT !.tag = IF @ = "poll" THEN "" ELSE @] : c \in cs}

\* setPay, setSelected and setStep with the effects of the render; call c is
\* over, unless a network is chosen for the buyer.
Render(c, d, sel, st) ==
  LET picks == AutoPick(d, st)
  IN  /\ pay' = [status |-> d.status, offered |-> d.offered]
      /\ selected' = sel /\ step' = st
      /\ auto' = (auto \/ picks # {})
      /\ Poller(d.status)
      /\ calls' = Untagged(Goes(c, {NewCall("choose", "", n) : n \in picks}), d.status)
      /\ UNCHANGED <<pref, crashed>>

\* Rendering {} throws unless the sheet has an option to show.
Crash ==
  /\ crashed' = TRUE /\ armed' = FALSE
  /\ calls' = {}
  /\ UNCHANGED <<pay, step, selected, auto, pref>>

DeliverLoad(c, d) ==
  /\ c.op = "load"
  /\ \/ /\ d = Cut /\ ~(step = "pay" /\ selected # None)
        /\ Crash
     \/ /\ d = Cut => step = "pay" /\ selected # None
        /\ \E sel \in Reselected(d) :
             LET kept == step = "pay" /\ sel # None
             IN  Render(c, d, sel,
                        IF c.tag = "network" THEN "network"
                        ELSE IF kept \/ Money(d.status) THEN "pay" ELSE ResolveStep(d, sel))
  /\ UNCHANGED order

\* submitDetails ignores the answer, goes on to load, and then to the networks.
DeliverDetails(c) ==
  /\ c.op = "details"
  /\ calls' = Goes(c, {Load("network")})
  /\ UNCHANGED <<order, pref, view>>

\* chooseNetwork selects, remembers and goes on to load.
DeliverChoice(c, d) ==
  /\ c.op = "choose"
  /\ selected' = IF d = Cut THEN None ELSE d
  /\ pref' = c.net
  /\ step' = "pay"
  /\ calls' = Goes(c, {Load("")})
  /\ UNCHANGED <<order, pay, auto, armed, crashed>>

\* refreshQuote: the same network if it is still there, else any.
DeliverRefresh(c, d) ==
  LET active == {o \in d.options : o.quote = d.quote}
      opts   == IF active # {} THEN active ELSE d.options
      net    == IF selected # None THEN selected.net ELSE pref
      wanted == {o \in opts : o.net = net}
      next   == IF wanted # {} THEN wanted ELSE IF opts # {} THEN opts ELSE {None}
  IN  /\ c.op = "refresh"
      /\ \E sel \in next : Render(c, d, sel, IF sel # None THEN "pay" ELSE step)
      /\ UNCHANGED order

\* An answer arrives, or its head does and its body stalls or is no JSON.
Arrive(c, d) ==
  /\ c.answered
  /\ DeliverLoad(c, d) \/ DeliverDetails(c) \/ DeliverChoice(c, d) \/ DeliverRefresh(c, d)

Deliver(c) == Arrive(c, c.answer)
CutBody(c) == Arrive(c, Cut)

\* Mutant: a reload that fails leaves the poller without a timer.
Fail_Disarms(c) ==
  /\ calls' = calls \ {c}
  /\ armed' = (armed /\ c.tag # "poll")
  /\ UNCHANGED <<order, pref, pay, step, selected, auto, crashed>>

\* A request or its answer is lost, the server refuses, or api() gives up
\* after 15 seconds. What comes after in the call is not done.
Fail(c) ==
  /\ calls' = calls \ {c}
  /\ UNCHANGED <<order, pref, view>>

-----------------------------------------------------------------------------
\* What starts a call.

\* The poll timer: arm again first, then reload unless one is under
\* way. In a background tab it only arms again.
Tick ==
  /\ armed /\ ~Busy
  /\ Start(Load("poll"))
  /\ UNCHANGED <<order, pref, view>>

\* A payment event, perhaps late; the tab comes back, for which the poller and
\* onReturn reload; or "I've paid" in Telegram.
Reload ==
  /\ Shown # ""
  /\ Start(Load(""))
  /\ UNCHANGED <<order, pref, view>>

SubmitDetails ==
  /\ ~crashed /\ pay # None /\ step = "details"
  /\ Start(NewCall("details", "", None))
  /\ UNCHANGED <<order, pref, view>>

ChooseNetwork(n) ==
  /\ OffersNetworks /\ n \in pay.offered
  /\ Start(NewCall("choose", "", n))
  /\ UNCHANGED <<order, pref, view>>

ClickRefresh ==
  /\ OffersRefresh
  /\ \A c \in calls : c.op # "refresh"
  /\ Start(NewCall("refresh", "", None))
  /\ UNCHANGED <<order, pref, view>>

Reopen ==
  /\ pay' = None /\ step' = "details" /\ selected' = None
  /\ auto' = FALSE /\ armed' = FALSE /\ crashed' = FALSE
  /\ calls' = {Load("")}
  /\ UNCHANGED <<order, pref>>

-----------------------------------------------------------------------------
Next ==
  \/ Lapse \/ WorkerMoves \/ OtherTab
  \/ \E n \in Flaky : HealthChanges(n)
  \/ \E c \in calls : Answer(c) \/ Deliver(c) \/ CutBody(c) \/ Fail(c)
  \/ Tick \/ Reload \/ SubmitDetails \/ ClickRefresh \/ Reopen
  \/ \E n \in Nets : ChooseNetwork(n)

Spec == Init /\ [][Next]_vars

LoadIsAnswered == \E c \in calls : c.op = "load" /\ Answer(c)
LoadArrives    == \E c \in calls : c.op = "load" /\ Deliver(c)
CallEnds       == \E c \in calls : Deliver(c) \/ CutBody(c) \/ Fail(c)

\* api() ends every call, the tab is visible again and again, and loads are not
\* lost for ever.
FairSpec ==
  /\ Spec
  /\ WF_vars(CallEnds) /\ SF_vars(Tick)
  /\ SF_vars(LoadIsAnswered) /\ SF_vars(LoadArrives)

-----------------------------------------------------------------------------
\* Type invariant: orders, pages and calls keep their shapes.
TypeOK ==
  /\ status \in Statuses /\ quote \in 1..MaxQuotes /\ lapsed \subseteq 1..quote
  /\ options \subseteq Option /\ offered \subseteq Nets /\ submitted \in BOOLEAN
  /\ pref \in Nets \cup {None} /\ pay \in Page \cup {None}
  /\ step \in {"details", "network", "pay"} /\ selected \in Option \cup {None}
  /\ {auto, armed, crashed} \subseteq BOOLEAN
  /\ calls \subseteq Call

\* An option whose amount was given back is never offered for payment as
\* unpaid, whatever order answers arrive in and whoever refreshed the quote:
\* the amount may belong to another order by now (PooliPaySheet,
\* canRefreshQuote, handlePublicRefreshQuote).
SupersededNeverOffered == Offers /\ Shown \in Unpaid => selected.quote = quote

\* A buyer who owes details is not asked for money (CheckoutClient,
\* resolveStep, submitDetails).
DetailsComeFirst == Offers /\ Shown \in Unpaid => submitted

\* A page that polls leaves the pollable statuses once the order has left
\* them, although answers are lost and overtake each other
\* (createPaymentStatusPoller, usePaymentStatusPoll).
StopIsNoticed ==
  ~Pollable(status) /\ Pollable(Shown) ~> Pollable(status) \/ ~Pollable(Shown)

=============================================================================
