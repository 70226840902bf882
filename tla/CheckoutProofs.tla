--------------------------- MODULE CheckoutProofs ---------------------------
(***************************************************************************)
(* What the checkout page promises its buyer, for any networks, statuses   *)
(* the worker gives, quotes and calls under way. Answers are old: all that *)
(* is known of one is that the order has not gone back since. That is      *)
(* enough, for a quote that was replaced has lapsed, and details that were *)
(* sent stay sent.                                                         *)
(***************************************************************************)
EXTENDS Checkout, TLAPS

\* What an answer of the order tells is in the past of the order.
Past(d) ==
  /\ d.quote <= quote /\ \A o \in d.options : o.quote <= quote
  /\ d.submitted \/ Money(d.status) => submitted

\* A call's answer has the kind that its caller expects, and the calls that
\* follow the details are made after them.
Fits(c) ==
  /\ c.answered =>
       /\ c.op \in {"load", "refresh"} => c.answer \in Snapshot /\ Past(c.answer)
       /\ c.op = "choose" => c.answer \in Option /\ c.answer.quote <= quote
       /\ c.op = "details" => submitted
  /\ c.op \in {"choose", "refresh"} \/ c.tag = "network" => submitted

CallsFit == \A c \in calls : Fits(c)

\* The order: a quote that was replaced, and one that expired, has lapsed.
OrderInv ==
  /\ \A q \in 1..MaxQuotes : q < quote => q \in lapsed
  /\ status = "EXPIRED" => quote \in lapsed
  /\ \A o \in options : o.quote <= quote
  /\ Money(status) => submitted

\* The page: its option is one the order has had, and it is past the details
\* only if they are in.
PageInv ==
  /\ selected # None => selected.quote <= quote
  /\ step \in {"network", "pay"} => submitted

IInv == TypeOK /\ CallsFit /\ OrderInv /\ PageInv

-----------------------------------------------------------------------------
\* The invariant says what the theorems promise: an option of the past whose
\* quote has not lapsed is one of the present.
LEMMA Promised == IInv => TypeOK /\ SupersededNeverOffered /\ DetailsComeFirst
<1> SUFFICES ASSUME IInv
             PROVE  TypeOK /\ SupersededNeverOffered /\ DetailsComeFirst
  OBVIOUS
<1>1. SupersededNeverOffered
  <2> SUFFICES ASSUME Offers, Shown \in Unpaid
               PROVE  selected.quote = quote
    BY DEF SupersededNeverOffered
  <2>1. selected # None /\ selected \in Option /\ selected.quote \notin lapsed
    BY DEF Offers, SheetExpired, IInv, TypeOK
  <2>2. selected.quote \in 1..MaxQuotes /\ quote \in 1..MaxQuotes /\ selected.quote <= quote
    BY <2>1 DEF IInv, TypeOK, PageInv, Option
  <2> QED
    BY <2>1, <2>2, ConstantsAssumption DEF IInv, OrderInv
<1>2. DetailsComeFirst
  BY DEF DetailsComeFirst, Offers, OnPayStep, IInv, PageInv, Money, Unpaid, InFlight, Exception
<1> QED
  BY <1>1, <1>2 DEF IInv

LEMMA Bounds == MaxQuotes \in Nat /\ MaxQuotes >= 1
<1>1. MaxQuotes \in Nat \ {0}
  BY ConstantsAssumption
<1> QED
  BY <1>1

\* A call that starts is one, and has no answer.
LEMMA Started ==
  ASSUME NEW op \in Ops, NEW tag \in Tags, NEW net \in Nets \cup {None},
         op \in {"choose", "refresh"} \/ tag = "network" => submitted
  PROVE  NewCall(op, tag, net) \in Call /\ Fits(NewCall(op, tag, net))
<1>1. NewCall(op, tag, net) \in Call
  BY DEF NewCall, Call
<1>2. ~NewCall(op, tag, net).answered
  BY DEF NewCall
<1>3. NewCall(op, tag, net).op = op /\ NewCall(op, tag, net).tag = tag
  BY DEF NewCall
<1> QED
  BY <1>1, <1>2, <1>3 DEF Fits

LEMMA InitIInv == Init => IInv
<1> SUFFICES ASSUME Init PROVE IInv
  OBVIOUS
<1>1. calls \subseteq Call /\ CallsFit
  BY Started DEF Init, CallsFit, Load, Ops, Tags
<1>2. /\ status = "AWAITING_PAYMENT" /\ quote = 1 /\ lapsed = {}
      /\ options = [net: Nets, quote: {1}] /\ offered = Nets
      /\ submitted \in BOOLEAN /\ pref \in Nets \cup {None}
      /\ pay = None /\ step = "details" /\ selected = None
      /\ auto = FALSE /\ armed = FALSE /\ crashed = FALSE
  BY DEF Init
<1>3. options \subseteq Option /\ \A o \in options : o.quote <= quote
  BY <1>2, Bounds DEF Option
<1>4. status \in Statuses /\ quote \in 1..MaxQuotes /\ lapsed \subseteq 1..quote
  BY <1>2, Bounds DEF Statuses, Unpaid
<1>8. TypeOK
  BY <1>1, <1>2, <1>3, <1>4 DEF TypeOK
<1>5. ~Money(status)
  BY <1>2 DEF Money, InFlight, Exception
<1>6. OrderInv
  BY <1>2, <1>3, <1>5, Bounds DEF OrderInv
<1>7. PageInv
  BY <1>2 DEF PageInv
<1> QED
  BY <1>1, <1>6, <1>7, <1>8 DEF IInv

\* Nothing that fits the order stops to do so as the order moves on.
LEMMA FitsLater ==
  ASSUME NEW c, Fits(c), TypeOK, TypeOK', quote <= quote', submitted => submitted',
         c \in Call
  PROVE  Fits(c)'
<1>1. ASSUME NEW d \in Snapshot, Past(d) PROVE Past(d)'
  BY <1>1 DEF Past, TypeOK, Snapshot, Option
<1>2. quote \in Nat /\ quote' \in Nat
  BY ConstantsAssumption DEF TypeOK
<1>3. Fits(c)' <=> 
      ( /\ c.answered =>
             /\ c.op \in {"load", "refresh"} => c.answer \in Snapshot /\ Past(c.answer)'
             /\ c.op = "choose" => c.answer \in Option /\ c.answer.quote <= quote'
             /\ c.op = "details" => submitted'
        /\ c.op \in {"choose", "refresh"} \/ c.tag = "network" => submitted')
  BY DEF Fits, Past
<1> QED
  BY <1>1, <1>2, <1>3 DEF Fits, Option

-----------------------------------------------------------------------------
\* Steps of the server. The order only goes on.
Onward == quote <= quote' /\ (submitted => submitted')

LEMMA AnswersLater ==
  ASSUME IInv, TypeOK', Onward, calls' \subseteq calls
  PROVE  CallsFit'
BY FitsLater DEF IInv, CallsFit, Onward, TypeOK

\* The part of the type invariant that is about the order.
TypeOKOrder ==
  /\ status \in Statuses /\ quote \in 1..MaxQuotes /\ lapsed \subseteq 1..quote
  /\ options \subseteq Option /\ offered \subseteq Nets /\ submitted \in BOOLEAN

\* What every step of the order comes to.
OrderMoved == Onward /\ OrderInv' /\ TypeOKOrder'

LEMMA Still == ASSUME IInv, UNCHANGED order PROVE OrderMoved
BY Bounds DEF IInv, TypeOK, OrderInv, Money, order, OrderMoved, Onward, TypeOKOrder

LEMMA Sent ==
  ASSUME IInv, submitted' = TRUE, UNCHANGED <<status, quote, lapsed, options, offered>>
  PROVE  OrderMoved
BY Bounds DEF IInv, TypeOK, OrderInv, Money, OrderMoved, Onward, TypeOKOrder

\* The quote that is replaced has lapsed, and so had those before it.
LEMMA OrderMoves ==
  ASSUME IInv, RefreshQuote \/ ( /\ ~submitted /\ submitted' = TRUE
                                 /\ UNCHANGED <<status, quote, lapsed, options, offered>> )
  PROVE  OrderMoved
<1>1. quote \in 1..MaxQuotes /\ quote \in Nat /\ MaxQuotes \in Nat
  BY Bounds DEF IInv, TypeOK
<1>2. CASE RefreshQuote
  <2>1. quote \in lapsed /\ quote < MaxQuotes /\ quote' = quote + 1 /\ lapsed' = lapsed
    BY <1>2 DEF RefreshQuote, Refreshable, IInv, OrderInv
  <2>2. /\ options' = options \cup [net: offered, quote: {quote + 1}]
        /\ status' = "AWAITING_PAYMENT" /\ UNCHANGED <<offered, submitted>>
    BY <1>2 DEF RefreshQuote
  <2>3. TypeOKOrder'
    BY <1>1, <2>1, <2>2 DEF TypeOKOrder, IInv, TypeOK, Option, Statuses, Unpaid
  <2>4. \A q \in 1..MaxQuotes : q < quote + 1 => q \in lapsed
    BY <1>1, <2>1 DEF IInv, OrderInv
  <2>5. \A o \in options \cup [net: offered, quote: {quote + 1}] : o.quote <= quote + 1
    BY <1>1 DEF IInv, TypeOK, OrderInv, Option
  <2>6. ~Money(status)'
    BY <2>2 DEF Money, InFlight, Exception
  <2>7. OrderInv'
    BY <2>1, <2>2, <2>4, <2>5, <2>6 DEF OrderInv
  <2> QED
    BY <1>1, <2>1, <2>2, <2>3, <2>7 DEF OrderMoved, Onward
<1> QED
  BY <1>2, Sent

\* An option of the past stays one.
LEMMA SelectedLater ==
  ASSUME IInv, quote \in Nat, quote' \in Nat, quote <= quote', submitted => submitted',
         UNCHANGED <<selected, step>>
  PROVE  PageInv'
BY ConstantsAssumption DEF IInv, TypeOK, Option, PageInv

\* A step of the order that leaves the page alone, and the calls.
LEMMA ServerMoves ==
  ASSUME IInv, Lapse \/ WorkerMoves \/ (\E n \in Flaky : HealthChanges(n)) \/ OtherTab
  PROVE  IInv'
<1>1. quote \in Nat /\ quote >= 1
  BY Bounds DEF IInv, TypeOK
<1>2. CASE Lapse
  <2>1. TypeOK'
    BY <1>1, <1>2 DEF Lapse, IInv, TypeOK, view
  <2>2. Onward /\ calls' = calls
    BY <1>1, <1>2 DEF Lapse, Onward
  <2>3. OrderInv' /\ PageInv'
    BY <1>2 DEF Lapse, IInv, OrderInv, PageInv, view, Money
  <2> QED
    BY <2>1, <2>2, <2>3, AnswersLater DEF IInv
<1>3. CASE WorkerMoves
  <2> PICK st \in Given \ {status} :
        /\ st = "EXPIRED" => status \in Unpaid /\ quote \in lapsed
        /\ st # "EXPIRED" => submitted
        /\ status' = st
    BY <1>3 DEF WorkerMoves
  <2>0. UNCHANGED <<quote, lapsed, options, offered, submitted, pref, view, calls>>
    BY <1>3 DEF WorkerMoves
  <2>1. TypeOK'
    BY <2>0, ConstantsAssumption DEF IInv, TypeOK, view
  <2>2. Onward /\ calls' = calls
    BY <1>1, <2>0 DEF Onward
  <2>3. ~Money("EXPIRED")
    BY DEF Money, InFlight, Exception
  <2>4. OrderInv'
    BY <2>0, <2>3 DEF IInv, OrderInv, Money
  <2>5. PageInv'
    BY <2>0 DEF IInv, PageInv, view
  <2> QED
    BY <2>1, <2>2, <2>4, <2>5, AnswersLater DEF IInv
<1>4. ASSUME NEW n \in Flaky, HealthChanges(n)
      PROVE  IInv'
  <2>1. TypeOK'
    BY <1>4, ConstantsAssumption DEF HealthChanges, IInv, TypeOK, view
  <2>2. Onward /\ calls' = calls
    BY <1>1, <1>4 DEF HealthChanges, Onward
  <2>3. OrderInv' /\ PageInv'
    BY <1>4 DEF HealthChanges, IInv, OrderInv, PageInv, view, Money
  <2> QED
    BY <2>1, <2>2, <2>3, AnswersLater DEF IInv
<1>5. CASE OtherTab
  <2>1. UNCHANGED <<pref, view, calls>>
    BY <1>5 DEF OtherTab
  <2>2. OrderMoved
    BY <1>1, <1>5, OrderMoves DEF OtherTab
  <2>3. TypeOK'
    BY <2>1, <2>2 DEF IInv, TypeOK, OrderMoved, TypeOKOrder, view
  <2>4. PageInv'
    <3>1. quote' \in Nat /\ quote <= quote' /\ (submitted => submitted')
      BY <2>2, Bounds DEF OrderMoved, TypeOKOrder, Onward
    <3> QED
      BY <1>1, <2>1, <3>1, SelectedLater DEF IInv, view
  <2> QED
    BY <2>1, <2>2, <2>3, <2>4, AnswersLater DEF IInv, OrderMoved
<1> QED
  BY <1>2, <1>3, <1>4, <1>5

-----------------------------------------------------------------------------
\* What is in the past of the order after the step.
PastNext(d) ==
  /\ d.quote <= quote' /\ \A o \in d.options : o.quote <= quote'
  /\ d.submitted \/ Money(d.status) => submitted'

\* The server answers with what the order is, or has become.
LEMMA Answered ==
  ASSUME IInv, NEW c \in calls, Answer(c)
  PROVE  IInv'
<1>1. quote \in Nat /\ quote >= 1 /\ c \in Call /\ Fits(c)
  BY Bounds DEF IInv, TypeOK, CallsFit
<1>2. UNCHANGED <<pref, view>>
  BY DEF Answer
<1>3. ASSUME OrderMoved, NEW a, Answers(c, a),
             a \in Snapshot \cup Option \cup {None},
             c.op \in {"load", "refresh"} => a \in Snapshot /\ PastNext(a),
             c.op = "choose" => a \in Option /\ a.quote <= quote',
             c.op = "details" => submitted'
      PROVE  IInv'
  <2> DEFINE done == [c EXCEPT !.answered = TRUE, !.answer = a]
  <2>1. done \in Call /\ done.answered /\ done.op = c.op /\ done.tag = c.tag /\ done.answer = a
    BY <1>1, <1>3 DEF Call
  <2>2. calls' = (calls \ {c}) \cup {done}
    BY <1>3 DEF Answers, Goes
  <2>3. TypeOK'
    BY <1>2, <1>3, <2>1, <2>2 DEF IInv, TypeOK, OrderMoved, TypeOKOrder, view
  <2>4. Fits(done)'
    <3>1. Fits(done)' <=>
            ( /\ done.answered =>
                   /\ done.op \in {"load", "refresh"} => done.answer \in Snapshot /\ Past(done.answer)'
                   /\ done.op = "choose" => done.answer \in Option /\ done.answer.quote <= quote'
                   /\ done.op = "details" => submitted'
              /\ done.op \in {"choose", "refresh"} \/ done.tag = "network" => submitted')
      BY DEF Fits, Past
    <3>3. Past(a)' <=> PastNext(a)
      BY DEF Past, PastNext
    <3>2. c.op \in {"choose", "refresh"} \/ c.tag = "network" => submitted'
      BY <1>1, <1>3 DEF Fits, OrderMoved, Onward
    <3> HIDE DEF done
    <3> QED
      BY <1>3, <2>1, <3>1, <3>2, <3>3
  <2>5. \A k \in calls : Fits(k)'
    BY <1>3, <2>3, FitsLater DEF IInv, CallsFit, TypeOK, OrderMoved, Onward
  <2>6. CallsFit'
    BY <2>2, <2>4, <2>5 DEF CallsFit
  <2>7. PageInv'
    <3>1. quote' \in Nat /\ quote <= quote' /\ (submitted => submitted')
      BY <1>3, Bounds DEF OrderMoved, TypeOKOrder, Onward
    <3> QED
      BY <1>1, <1>2, <3>1, SelectedLater DEF IInv, view
  <2> QED
    BY <1>3, <2>3, <2>6, <2>7 DEF IInv, OrderMoved
<1>4. Snap \in Snapshot /\ Past(Snap)
  <2>1. Listed \subseteq options
    BY DEF Listed
  <2>2. Snap \in Snapshot
    BY <2>1 DEF Snap, Snapshot, IInv, TypeOK
  <2>3. Past(Snap)
    BY <1>1, <2>1 DEF Past, Snap, IInv, OrderInv
  <2> QED
    BY <2>2, <2>3
<1>5. CASE UNCHANGED order /\ c.op = "load" /\ Answers(c, Snap)
  <2>1. PICK a : a = Snap
    OBVIOUS
  <2>2. OrderMoved /\ a \in Snapshot /\ Answers(c, a)
    BY <1>4, <1>5, <2>1, Still
  <2>3. Past(a)
    BY <1>4, <2>1
  <2>4. PastNext(a)
    BY <1>5, <2>3 DEF order, Past, PastNext
  <2> QED
    BY <1>3, <1>5, <2>2, <2>4
<1>6. CASE /\ c.op = "details" /\ submitted' = TRUE /\ Answers(c, None)
           /\ UNCHANGED <<status, quote, lapsed, options, offered>>
  <2>1. OrderMoved
    BY <1>1, <1>6, Sent
  <2> QED
    BY <1>3, <1>6, <2>1
<1>7. ASSUME UNCHANGED order, c.op = "choose", NEW o \in Picked(c.net), Answers(c, o)
      PROVE  IInv'
  <2>1. o \in options
    BY <1>7 DEF Picked, Listed
  <2>2. o \in Option /\ o.quote <= quote /\ quote' = quote
    BY <1>7, <2>1 DEF IInv, TypeOK, OrderInv, order
  <2>3. OrderMoved
    BY <1>1, <1>7, Still
  <2> QED
    BY <1>3, <1>7, <2>2, <2>3
<1>8. CASE c.op = "refresh" /\ RefreshQuote /\ Answers(c, SnapNext)
  <2>1. OrderMoved /\ submitted' = submitted /\ offered' = offered
    BY <1>8, OrderMoves DEF RefreshQuote
  <2>2. submitted'
    BY <1>1, <1>8, <2>1 DEF Fits
  <2>3. quote' \in Nat /\ TypeOKOrder'
    BY <2>1, Bounds DEF OrderMoved, TypeOKOrder
  <2>4. SnapNext \in Snapshot
    BY <2>1, <2>3 DEF SnapNext, Snapshot, TypeOKOrder
  <2>5. \A o \in options' : o.quote <= quote'
    BY <2>1 DEF OrderMoved, OrderInv
  <2>6. PastNext(SnapNext)
    BY <2>1, <2>2, <2>3, <2>5 DEF PastNext, SnapNext
  <2>7. PICK a : a = SnapNext
    OBVIOUS
  <2>8. PastNext(a) /\ a \in Snapshot /\ Answers(c, a)
    BY <1>8, <2>4, <2>6, <2>7
  <2> QED
    BY <1>3, <1>8, <2>1, <2>8
<1> QED
  BY <1>5, <1>6, <1>7, <1>8 DEF Answer

-----------------------------------------------------------------------------
\* Steps of the page, which leave the order alone. What the page holds fits
\* the order, and so does what it asks for.
LEMMA PageMoves ==
  ASSUME IInv, UNCHANGED order, pref' \in Nets \cup {None}, pay' \in Page \cup {None},
         step' \in {"details", "network", "pay"}, selected' \in Option \cup {None},
         auto' \in BOOLEAN, armed' \in BOOLEAN, crashed' \in BOOLEAN,
         selected' # None => selected'.quote <= quote,
         step' \in {"network", "pay"} => submitted,
         \A c \in calls' : c \in Call /\ Fits(c)
  PROVE  IInv'
<1>1. TypeOK'
  BY DEF IInv, TypeOK, order
<1>2. CallsFit'
  BY DEF CallsFit, Fits, Past, order
<1>3. OrderInv' /\ PageInv'
  BY DEF IInv, OrderInv, PageInv, order, Money
<1> QED
  BY <1>1, <1>2, <1>3 DEF IInv

\* What the invariant says, for the steps that leave most of it alone.
LEMMA Standing ==
  ASSUME IInv
  PROVE  /\ pref \in Nets \cup {None} /\ pay \in Page \cup {None}
         /\ step \in {"details", "network", "pay"} /\ selected \in Option \cup {None}
         /\ auto \in BOOLEAN /\ armed \in BOOLEAN /\ crashed \in BOOLEAN
         /\ selected # None => selected.quote <= quote
         /\ step \in {"network", "pay"} => submitted
         /\ \A c \in calls : c \in Call /\ Fits(c)
BY DEF IInv, TypeOK, CallsFit, PageInv

\* A call may forget what it is for.
LEMMA Untags ==
  ASSUME NEW cs, NEW st, \A c \in cs : c \in Call /\ Fits(c)
  PROVE  \A c \in Untagged(cs, st) : c \in Call /\ Fits(c)
<1>1. ASSUME NEW c \in cs
      PROVE  LET k == [c EXCEPT !.tag = IF @ = "poll" THEN "" ELSE @] IN k \in Call /\ Fits(k)
  <2> DEFINE k == [c EXCEPT !.tag = IF @ = "poll" THEN "" ELSE @]
  <2>1. c \in Call /\ Fits(c)
    OBVIOUS
  <2>2. k \in Call
    BY <2>1 DEF Call, Tags
  <2>3. /\ k.op = c.op /\ k.answered = c.answered /\ k.answer = c.answer
        /\ k.tag = "network" => c.tag = "network"
    BY <2>1 DEF Call
  <2> HIDE DEF k
  <2>4. Fits(k)
    BY <2>1, <2>3 DEF Fits
  <2> QED
    BY <2>2, <2>4 DEF k
<1> QED
  BY <1>1 DEF Untagged

LEMMA Member == ASSUME NEW x, NEW S, NEW y, y = (x \in S) PROVE y \in BOOLEAN
OBVIOUS

\* A render with an option of the past, on a step that the details allow.
LEMMA Rendered ==
  ASSUME IInv, UNCHANGED order, NEW c \in calls, NEW d, NEW sel \in Option \cup {None},
         NEW st \in {"details", "network", "pay"},
         d.status \in Statuses \cup {""}, d.offered \subseteq Nets,
         sel # None => sel.quote <= quote,
         st \in {"network", "pay"} => submitted,
         Render(c, d, sel, st)
  PROVE  IInv'
<1> DEFINE picks == AutoPick(d, st)
<1>1. picks \subseteq Nets /\ (picks # {} => submitted)
  BY DEF AutoPick
<1>2. \A n \in picks : NewCall("choose", "", n) \in Call /\ Fits(NewCall("choose", "", n))
  <2> TAKE n \in picks
  <2>1. "choose" \in Ops /\ "" \in Tags /\ n \in Nets \cup {None} /\ submitted
    BY <1>1 DEF Ops, Tags
  <2> QED
    BY <2>1, Started
<1>3. /\ pay' = [status |-> d.status, offered |-> d.offered]
      /\ selected' = sel /\ step' = st
      /\ auto' = (auto \/ picks # {})
      /\ armed' = Pollable(d.status)
      /\ calls' = Untagged(Goes(c, {NewCall("choose", "", n) : n \in picks}), d.status)
      /\ UNCHANGED <<pref, crashed>>
  BY DEF Render, Poller
<1> HIDE DEF picks
<1>4. \A k \in Goes(c, {NewCall("choose", "", n) : n \in picks}) : k \in Call /\ Fits(k)
  BY <1>2, Standing DEF Goes
<1>5. \A k \in calls' : k \in Call /\ Fits(k)
  BY <1>3, <1>4, Untags
<1>6. pay' \in Page
  BY <1>3 DEF Page
<1>7. auto' \in BOOLEAN
  BY <1>3
<1>8. armed' \in BOOLEAN
  <2>1. armed' = (d.status \in Unpaid \cup InFlight)
    BY <1>3 DEF Pollable
  <2> QED
    BY <2>1, Member
<1> QED
  BY <1>3, <1>5, <1>6, <1>7, <1>8, Standing, PageMoves

\* What a page makes of an answer of the past is of the past.
LEMMA OfThePast ==
  ASSUME IInv, NEW d, d.options \subseteq Option, \A o \in d.options : o.quote <= quote
  PROVE  /\ \A sel \in Reselected(d) : sel \in Option \cup {None} /\ (sel # None => sel.quote <= quote)
         /\ selected # None => \A sel \in Reselected(d) : sel # None
<1>1. None \notin Option
  BY ConstantsAssumption
<1>2. CASE selected # None
  <2>1. Reselected(d) \subseteq d.options \cup {selected}
    BY <1>2 DEF Reselected, Rematched
  <2> QED
    BY <1>1, <1>2, <2>1, Standing
<1>3. CASE selected = None
  <2>1. Reselected(d) \subseteq d.options \cup {None}
    BY <1>3 DEF Reselected, Hydrated
  <2> QED
    BY <1>1, <1>3, <2>1
<1> QED
  BY <1>2, <1>3

\* The calls that are left fit, and so does one that is started.
LEMMA Continues ==
  ASSUME IInv, UNCHANGED order, UNCHANGED <<pay, auto, armed, crashed>>,
         pref' \in Nets \cup {None}, step' \in {"details", "network", "pay"},
         selected' \in Option \cup {None},
         selected' # None => selected'.quote <= quote,
         step' \in {"network", "pay"} => submitted,
         NEW op \in Ops, NEW tag \in Tags, NEW net \in Nets \cup {None},
         op \in {"choose", "refresh"} \/ tag = "network" => submitted,
         calls' \subseteq calls \cup {NewCall(op, tag, net)}
  PROVE  IInv'
<1>1. \A k \in calls' : k \in Call /\ Fits(k)
  BY Standing, Started
<1> QED
  BY <1>1, Standing, PageMoves

\* An answer in time, or one that is cut off.
LEMMA Arrived ==
  ASSUME IInv, NEW c \in calls, NEW d, d = c.answer \/ d = Cut, Arrive(c, d)
  PROVE  IInv'
<1>1. c \in Call /\ Fits(c) /\ c.answered
  BY Standing DEF Arrive
<1>2. c.op \in Ops /\ c.tag \in Tags /\ c.net \in Nets \cup {None}
  BY <1>1 DEF Call
<1>3. quote \in Nat /\ quote >= 1 /\ None \notin Option
  BY Bounds, ConstantsAssumption DEF IInv, TypeOK
<1>4. /\ Cut.options = {} /\ Cut.status = "" /\ Cut.offered = {} /\ Cut.submitted = TRUE
      /\ ~Money(Cut.status)
  BY DEF Cut, Money, InFlight, Exception
<1>5. ASSUME c.op \in {"load", "refresh"}
      PROVE  /\ d.options \subseteq Option /\ \A o \in d.options : o.quote <= quote
             /\ d.status \in Statuses \cup {""} /\ d.offered \subseteq Nets
             /\ d # Cut /\ (d.submitted \/ Money(d.status)) => submitted
  <2>1. CASE d = Cut
    BY <1>4, <2>1
  <2>2. CASE d = c.answer /\ d # Cut
    <3>1. d \in Snapshot /\ Past(d)
      BY <1>1, <1>5, <2>2 DEF Fits
    <3> QED
      BY <3>1 DEF Snapshot, Past
  <2> QED
    BY <2>1, <2>2
<1>6. CASE DeliverLoad(c, d)
  <2>1. c.op = "load" /\ UNCHANGED order
    BY <1>6 DEF DeliverLoad
  <2>2. CASE Crash
    BY <2>1, <2>2, Standing, PageMoves DEF Crash
  <2>3. ASSUME d = Cut => step = "pay" /\ selected # None,
               NEW sel \in Reselected(d), NEW st,
               st = IF c.tag = "network" THEN "network"
                    ELSE IF (step = "pay" /\ sel # None) \/ Money(d.status) THEN "pay"
                    ELSE ResolveStep(d, sel),
               Render(c, d, sel, st)
        PROVE  IInv'
    <3>1. sel \in Option \cup {None} /\ (sel # None => sel.quote <= quote)
      BY <1>5, <2>1, OfThePast
    <3>2. st \in {"details", "network", "pay"}
      BY <2>3 DEF ResolveStep
    <3>3. c.tag = "network" => submitted
      BY <1>1 DEF Fits
    <3>4. step = "pay" => submitted
      BY Standing
    <3>5. d = Cut => step = "pay" /\ sel # None
      BY <1>5, <2>1, <2>3, OfThePast
    <3>6. st \in {"network", "pay"} => submitted
      BY <1>5, <2>1, <2>3, <3>3, <3>4, <3>5 DEF ResolveStep
    <3> QED
      BY <1>5, <2>1, <2>3, <3>1, <3>2, <3>6, Rendered
  <2>4. ASSUME d = Cut => step = "pay" /\ selected # None,
               NEW sel \in Reselected(d),
               Render(c, d, sel, IF c.tag = "network" THEN "network"
                                 ELSE IF (step = "pay" /\ sel # None) \/ Money(d.status) THEN "pay"
                                 ELSE ResolveStep(d, sel))
        PROVE  IInv'
    <3>1. PICK st : st = IF c.tag = "network" THEN "network"
                         ELSE IF (step = "pay" /\ sel # None) \/ Money(d.status) THEN "pay"
                         ELSE ResolveStep(d, sel)
      OBVIOUS
    <3> QED
      BY <2>3, <2>4, <3>1
  <2> QED
    BY <1>6, <2>2, <2>4 DEF DeliverLoad
<1>7. CASE DeliverDetails(c)
  <2>1. submitted
    BY <1>1, <1>7 DEF Fits, DeliverDetails
  <2>2. calls' \subseteq calls \cup {NewCall("load", "network", None)}
    BY <1>7 DEF DeliverDetails, Goes, Load
  <2>3. "load" \in Ops /\ "network" \in Tags
    BY DEF Ops, Tags
  <2> QED
    BY <1>7, <2>1, <2>2, <2>3, Standing, Continues DEF DeliverDetails, view
<1>8. CASE DeliverChoice(c, d)
  <2>1. c.op = "choose" /\ submitted
    BY <1>1, <1>8 DEF DeliverChoice, Fits
  <2>2. selected' \in Option \cup {None} /\ (selected' # None => selected'.quote <= quote)
    BY <1>1, <1>8, <2>1 DEF DeliverChoice, Fits
  <2>3. calls' \subseteq calls \cup {NewCall("load", "", None)}
    BY <1>8 DEF DeliverChoice, Goes, Load
  <2>4. "load" \in Ops /\ "" \in Tags
    BY DEF Ops, Tags
  <2> QED
    BY <1>2, <1>8, <2>1, <2>2, <2>3, <2>4, Standing, Continues DEF DeliverChoice
<1>9. CASE DeliverRefresh(c, d)
  <2>1. c.op = "refresh" /\ UNCHANGED order
    BY <1>9 DEF DeliverRefresh
  <2>2. submitted
    BY <1>1, <2>1 DEF Fits
  <2>3. PICK sel \in d.options \cup {None} : Render(c, d, sel, IF sel # None THEN "pay" ELSE step)
    BY <1>9 DEF DeliverRefresh
  <2>4. sel \in Option \cup {None} /\ (sel # None => sel.quote <= quote)
    BY <1>3, <1>5, <2>1, <2>3
  <2>5. PICK st : st = IF sel # None THEN "pay" ELSE step
    OBVIOUS
  <2>6. st \in {"details", "network", "pay"} /\ Render(c, d, sel, st)
    BY <2>3, <2>5, Standing
  <2> QED
    BY <1>5, <2>1, <2>2, <2>4, <2>6, Rendered
<1> QED
  BY <1>6, <1>7, <1>8, <1>9 DEF Arrive

\* What the page does on its own, and when its buyer clicks.
LEMMA Clicked ==
  ASSUME IInv,
         \/ Tick \/ Reload \/ SubmitDetails \/ ClickRefresh
         \/ \E n \in Nets : ChooseNetwork(n)
         \/ \E c \in calls : Fail(c)
  PROVE  IInv'
<1> DEFINE Asks(op, tag, net) == calls' \subseteq calls \cup {NewCall(op, tag, net)}
<1>1. UNCHANGED <<order, pref, view>>
  BY DEF Tick, Reload, SubmitDetails, ClickRefresh, ChooseNetwork, Fail
<1>2. \A n \in Nets : ChooseNetwork(n) => submitted /\ Asks("choose", "", n)
  BY Standing DEF ChooseNetwork, OffersNetworks, Start
<1>3. ClickRefresh => submitted /\ Asks("refresh", "", None)
  <2>1. OffersRefresh => step = "pay"
    BY DEF OffersRefresh, OnPayStep, SheetExpired, Money, Unpaid, InFlight, Exception
  <2> QED
    BY <2>1, Standing DEF ClickRefresh, Start
<1>4. SubmitDetails => Asks("details", "", None)
  BY DEF SubmitDetails, Start
<1>5. Tick \/ Reload \/ (\E c \in calls : Fail(c)) => Asks("load", "poll", None) \/ Asks("load", "", None)
  BY DEF Tick, Reload, Fail, Start, Load
<1>6. \E op \in Ops : \E tag \in Tags : \E net \in Nets \cup {None} :
        Asks(op, tag, net) /\ (op \in {"choose", "refresh"} \/ tag = "network" => submitted)
  BY <1>2, <1>3, <1>4, <1>5 DEF Ops, Tags
<1> QED
  BY <1>1, <1>6, Standing, Continues DEF view

\* The page is opened again.
LEMMA Reopened == ASSUME IInv, Reopen PROVE IInv'
<1>1. \A k \in calls' : k \in Call /\ Fits(k)
  BY Started DEF Reopen, Load, Ops, Tags
<1>2. /\ pay' = None /\ step' = "details" /\ selected' = None
      /\ auto' = FALSE /\ armed' = FALSE /\ crashed' = FALSE /\ UNCHANGED <<order, pref>>
  BY DEF Reopen
<1> QED
  BY <1>1, <1>2, Standing, PageMoves

LEMMA Inductive == IInv /\ [Next]_vars => IInv'
<1> SUFFICES ASSUME IInv, [Next]_vars PROVE IInv'
  OBVIOUS
<1>1. CASE UNCHANGED vars
  BY <1>1, Standing, PageMoves DEF vars, view
<1>2. ASSUME NEW c \in calls, Deliver(c) PROVE IInv'
  BY <1>2, Arrived DEF Deliver
<1>3. ASSUME NEW c \in calls, CutBody(c) PROVE IInv'
  BY <1>3, Arrived DEF CutBody
<1> QED
  BY <1>1, <1>2, <1>3, ServerMoves, Answered, Clicked, Reopened DEF Next

-----------------------------------------------------------------------------
\* Orders, pages and calls keep their shapes, whatever is called and answered.
THEOREM TypeCorrect == Spec => []TypeOK
<1>1. Spec => []IInv
  BY InitIInv, Inductive, PTL DEF Spec
<1> QED
  BY <1>1, Promised, PTL

\* For any number of quotes, calls and tabs, no page offers an option as
\* unpaid that is not the current quote's (PooliPaySheet, canRefreshQuote,
\* handlePublicRefreshQuote).
THEOREM CurrentIsOffered == Spec => []SupersededNeverOffered
<1>1. Spec => []IInv
  BY InitIInv, Inductive, PTL DEF Spec
<1> QED
  BY <1>1, Promised, PTL

\* For any order of answers, cut off or not, no page asks for money before
\* the order has its details (CheckoutClient, resolveStep, submitDetails).
THEOREM DetailsFirst == Spec => []DetailsComeFirst
<1>1. Spec => []IInv
  BY InitIInv, Inductive, PTL DEF Spec
<1> QED
  BY <1>1, Promised, PTL
=============================================================================
