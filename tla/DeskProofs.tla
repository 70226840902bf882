----------------------------- MODULE DeskProofs -----------------------------
(***************************************************************************)
(* What the server keeps of a merchant's orders for any merchants, orders, *)
(* worlds and calls under way. The invariant says what a call on its way   *)
(* stands for: the merchant its handler found owns what it writes, and a   *)
(* fulfillment that was read as allowed is still earned when it is written.*)
(***************************************************************************)
EXTENDS Desk, TLAPS

\* Operations about the order of the page.
OrderOps == {"patch", "order", "drafts", "draft", "suggest", "decide"}

\* A call has its shape and an order if it is about one, the page that waits for
\* it has the order then, a fulfillment is asked for by its name, and rows come
\* with the answer.
Placed(c) ==
  /\ c \in Call
  /\ c.op = "patch" => c.arg \in Fulfillment
  /\ c.stage = "sent" => c.answer = {}
  /\ c.op \in OrderOps => c.order \in Orders /\ (c.live => tab.order \in Orders)

\* What its handler found belongs to the merchant it found.
Owned(c) ==
  c.by # None =>
    /\ c.op = "patch" => owner[c.order] = c.by
    /\ \A r \in c.answer : owner[r.order] = c.by

\* A fulfillment that was read as allowed is earned, whenever it is written.
Entitled(c) ==
  c.op = "patch" /\ c.stage = "read" =>
    /\ c.arg \in {"PROCESSING", "SHIPPED", "DELIVERED"} => c.order \in paid
    /\ c.arg = "DELIVERED" => c.order \in shipped

Good(c) == Placed(c) /\ Owned(c) /\ Entitled(c)

\* Orders keep their shapes, ...
OrdersOK ==
  /\ world \in Worlds
  /\ owner \in [Orders -> Merchants \cup {None}]
  /\ pay \in [Orders -> Pays] /\ ful \in [Orders -> Fulfillment] /\ draft \in [Orders -> Drafts]
  /\ session \in Merchants \cup {None} /\ paid \subseteq Orders /\ shipped \subseteq Orders

\* ... and goods are where the money was.
Earned ==
  \A o \in Orders :
    /\ pay[o] \in Fulfillable => o \in paid
    /\ ful[o] \in {"PROCESSING", "SHIPPED", "DELIVERED"} => o \in paid
    /\ ful[o] \in {"SHIPPED", "DELIVERED"} => o \in shipped

\* The page of an order has one.
PageOK == tab \in Tab /\ (tab.page = "order" \/ tab.open => tab.order \in Orders)

IInv == OrdersOK /\ Earned /\ PageOK /\ \A c \in calls : Good(c)

-----------------------------------------------------------------------------
\* A call that starts has its shape, ...
LEMMA Begins ==
  ASSUME NEW op \in Ops, NEW o \in Orders \cup {None}, NEW arg \in Fulfillment \cup Drafts,
         NEW own \in BOOLEAN
  PROVE  LET c == NewCall(op, o, arg, own)
         IN  /\ c \in Call /\ c.op = op /\ c.order = o /\ c.arg = arg /\ c.by = None
             /\ c.stage = "sent" /\ c.answer = {}
BY DEF NewCall, Call

\* ... and nothing else to account for.
LEMMA Begun ==
  ASSUME NEW op \in Ops, NEW o \in Orders \cup {None}, NEW arg \in Fulfillment \cup Drafts,
         NEW own \in BOOLEAN,
         op \in OrderOps => o \in Orders /\ tab.order \in Orders,
         op = "patch" => arg \in Fulfillment
  PROVE  Good(NewCall(op, o, arg, own))
<1> DEFINE c == NewCall(op, o, arg, own)
<1>1. /\ c \in Call /\ c.op = op /\ c.order = o /\ c.arg = arg /\ c.by = None
      /\ c.stage = "sent" /\ c.answer = {}
  BY Begins
<1> HIDE DEF c
<1>2. Good(c)
  BY <1>1 DEF Good, Placed, Owned, Entitled
<1> QED
  BY <1>2 DEF c

\* The calls left behind are calls that are no longer waited for.
LEMMA LeftAre ==
  ASSUME NEW cs, NEW k \in Left(cs)
  PROVE  \E c \in cs : k = Ignored(c)
BY DEF Left

\* A call left behind is still what it was.
LEMMA LeftBehind ==
  ASSUME NEW c, Good(c)
  PROVE  Good(Ignored(c)) /\ Ignored(c).live = FALSE
<1> DEFINE k == Ignored(c)
<1>1. c \in Call
  BY DEF Good, Placed
<1>2. /\ k \in Call /\ k.op = c.op /\ k.order = c.order /\ k.arg = c.arg /\ k.by = c.by
      /\ k.stage = c.stage /\ k.answer = c.answer /\ k.live = FALSE
  BY <1>1 DEF Ignored, Call
<1> HIDE DEF k
<1>3. Good(k)
  BY <1>2 DEF Good, Placed, Owned, Entitled
<1> QED
  BY <1>2, <1>3 DEF k

\* A page goes on with its order, and with calls that are good; the server is
\* left alone.
LEMMA GoesOn ==
  ASSUME IInv, UNCHANGED orders, tab' \in Tab, tab'.order = tab.order, tab'.page = tab.page,
         tab'.open => tab.open \/ tab.order \in Orders, \A k \in calls' : k \in calls \/ Good(k)
  PROVE  IInv'
<1>1. \A k : Good(k) => Good(k)'
  BY DEF Good, Placed, Owned, Entitled, orders
<1>2. PageOK'
  BY DEF IInv, PageOK
<1>3. OrdersOK' /\ Earned'
  BY DEF IInv, OrdersOK, Earned, orders
<1> QED
  BY <1>1, <1>2, <1>3 DEF IInv

\* Another page starts with calls of its own.
LEMMA Navigates ==
  ASSUME IInv, UNCHANGED orders, NEW p \in Pages, NEW o \in Orders \cup {None}, NEW link \in BOOLEAN,
         p = "order" => o \in Orders, NEW cs, cs \subseteq calls,
         tab' = NewTab(p, o, link), calls' = Left(cs) \cup FirstCalls(p, o)
  PROVE  IInv'
<1>1. tab' \in Tab /\ tab'.order = o /\ tab'.page = p /\ ~tab'.open
  BY DEF NewTab, Tab
<1>2. PageOK'
  BY <1>1 DEF PageOK
<1>3. OrdersOK' /\ Earned'
  BY DEF IInv, OrdersOK, Earned, orders
<1>4. ASSUME NEW k \in Left(cs) PROVE Good(k)'
  <2>1. PICK c \in cs : k = Ignored(c)
    BY <1>4, LeftAre
  <2>2. Good(c)
    BY DEF IInv
  <2>3. Good(k) /\ k.live = FALSE
    BY <2>1, <2>2, LeftBehind
  <2> QED
    BY <2>3 DEF Good, Placed, Owned, Entitled, orders
<1>5. ASSUME NEW k \in FirstCalls(p, o) PROVE Good(k)'
  <2>1. /\ k \in Call /\ k.by = None /\ k.stage = "sent" /\ k.answer = {}
        /\ k.op \in {"me", "list", "info", "order"}
        /\ k.op = "order" => k.order = o /\ p = "order"
    <3>1. CASE p \in {"home", "create"}
      <4>1. FirstCalls(p, o) = {NewCall("me", None, "none", FALSE)}
        BY <3>1 DEF FirstCalls, Lists
      <4>2. /\ NewCall("me", None, "none", FALSE) \in Call
            /\ NewCall("me", None, "none", FALSE).op = "me"
            /\ NewCall("me", None, "none", FALSE).order = None
            /\ NewCall("me", None, "none", FALSE).by = None
            /\ NewCall("me", None, "none", FALSE).stage = "sent"
            /\ NewCall("me", None, "none", FALSE).answer = {}
        BY <3>1 DEF NewCall, Call, Ops, Drafts
      <4> QED
        BY <1>5, <3>1, <4>1, <4>2
    <3>2. CASE p \in Lists \ {"home"}
      <4>1. FirstCalls(p, o) = {NewCall("list", None, "none", FALSE)}
        BY <3>2 DEF FirstCalls, Lists
      <4>2. /\ NewCall("list", None, "none", FALSE) \in Call
            /\ NewCall("list", None, "none", FALSE).op = "list"
            /\ NewCall("list", None, "none", FALSE).order = None
            /\ NewCall("list", None, "none", FALSE).by = None
            /\ NewCall("list", None, "none", FALSE).stage = "sent"
            /\ NewCall("list", None, "none", FALSE).answer = {}
        BY <3>2 DEF NewCall, Call, Ops, Drafts
      <4> QED
        BY <1>5, <3>2, <4>1, <4>2
    <3>3. CASE p = "order"
      <4>1. FirstCalls(p, o) = {NewCall("order", o, "none", FALSE)}
        BY <3>3 DEF FirstCalls, Lists
      <4>2. /\ NewCall("order", o, "none", FALSE) \in Call
            /\ NewCall("order", o, "none", FALSE).op = "order"
            /\ NewCall("order", o, "none", FALSE).order = o
            /\ NewCall("order", o, "none", FALSE).by = None
            /\ NewCall("order", o, "none", FALSE).stage = "sent"
            /\ NewCall("order", o, "none", FALSE).answer = {}
        BY <3>3 DEF NewCall, Call, Ops, Drafts
      <4> QED
        BY <1>5, <3>3, <4>1, <4>2
    <3>4. CASE p = "link"
      <4>1. FirstCalls(p, o) = {NewCall("info", None, "none", FALSE)}
        BY <3>4 DEF FirstCalls, Lists
      <4>2. /\ NewCall("info", None, "none", FALSE) \in Call
            /\ NewCall("info", None, "none", FALSE).op = "info"
            /\ NewCall("info", None, "none", FALSE).order = None
            /\ NewCall("info", None, "none", FALSE).by = None
            /\ NewCall("info", None, "none", FALSE).stage = "sent"
            /\ NewCall("info", None, "none", FALSE).answer = {}
        BY <3>4 DEF NewCall, Call, Ops, Drafts
      <4> QED
        BY <1>5, <3>4, <4>1, <4>2
    <3>5. CASE p \in {"miniapp", "elsewhere"}
      BY <1>5, <3>5 DEF FirstCalls, Lists
    <3> QED
      BY <3>1, <3>2, <3>3, <3>4, <3>5 DEF Pages, Lists
  <2>2. k.op \in OrderOps => k.order \in Orders /\ tab'.order \in Orders
    BY <1>1, <2>1 DEF OrderOps
  <2> QED
    BY <2>1, <2>2 DEF Good, Placed, Owned, Entitled
<1> QED
  BY <1>2, <1>3, <1>4, <1>5 DEF IInv

-----------------------------------------------------------------------------
\* The server's steps: an order keeps its merchant, what was paid or shipped
\* stays so, and the calls the step changes are good.
LEMMA ServerMoves ==
  ASSUME IInv, OrdersOK', Earned', tab' = tab, paid \subseteq paid', shipped \subseteq shipped',
         \A o \in Orders : owner[o] # None => owner'[o] = owner[o],
         \A k \in calls' : k \in calls \/ Good(k)'
  PROVE  IInv'
<1>1. ASSUME NEW k, Good(k) PROVE Good(k)'
  <2>1. k \in Call /\ (k.op = "patch" => k.order \in Orders)
    BY <1>1 DEF Good, Placed, OrderOps
  <2>2. \A r \in k.answer : r.order \in Orders
    BY <2>1 DEF Call, Row
  <2>3. Owned(k)'
    BY <1>1, <2>1, <2>2 DEF Good, Owned
  <2>4. Placed(k)' /\ Entitled(k)'
    BY <1>1 DEF Good, Placed, Entitled
  <2> QED
    BY <2>3, <2>4 DEF Good
<1>2. PageOK'
  BY DEF IInv, PageOK
<1> QED
  BY <1>1, <1>2 DEF IInv

\* Orders that a step leaves alone stay as they are.
LEMMA OrdersStay == ASSUME IInv, UNCHANGED orders PROVE OrdersOK' /\ Earned'
BY DEF IInv, OrdersOK, Earned, orders

\* An answer names rows of the merchant the handler found.
LEMMA AnsweredGood ==
  ASSUME IInv, NEW c \in calls, NEW m \in Merchants \cup {None},
         NEW arg \in Fulfillment \cup Drafts, NEW rows \in SUBSET Row,
         Answered(c, m, arg, rows), tab' = tab,
         c.op = "patch" => arg \in Fulfillment,
         m # None => /\ c.op = "patch" => owner'[c.order] = m
                     /\ \A r \in rows : owner'[r.order] = m
  PROVE  \A k \in calls' : k \in calls \/ Good(k)'
<1> DEFINE k == [c EXCEPT !.stage = "answered", !.by = m, !.arg = arg, !.answer = rows]
<1>1. c \in Call /\ Placed(c)
  BY DEF IInv, Good, Placed
<1>2. /\ k \in Call /\ k.op = c.op /\ k.order = c.order /\ k.arg = arg /\ k.by = m
      /\ k.stage = "answered" /\ k.answer = rows /\ k.live = c.live
  BY <1>1 DEF Call
<1>3. calls' \subseteq calls \cup {k}
  BY DEF Answered, Goes
<1> HIDE DEF k
<1>4. Placed(k)'
  BY <1>1, <1>2 DEF Placed
<1>5. Owned(k)' /\ Entitled(k)'
  BY <1>2 DEF Owned, Entitled
<1> QED
  BY <1>3, <1>4, <1>5 DEF Good

LEMMA MoneyMovesStep ==
  ASSUME IInv, NEW o \in Orders, NEW st \in world.given, MoneyMoves(o, st)
  PROVE  IInv'
<1>1. st \in Pays
  BY ConstantsAssumption DEF IInv, OrdersOK, World
<1>2. pay' = [pay EXCEPT ![o] = st] /\ pay \in [Orders -> Pays]
  BY DEF MoneyMoves, IInv, OrdersOK
<1>3. OrdersOK'
  BY <1>1, <1>2 DEF MoneyMoves, IInv, OrdersOK
<1>4. Earned'
  BY <1>2 DEF MoneyMoves, IInv, Earned
<1> QED
  BY <1>3, <1>4, ServerMoves DEF MoneyMoves

LEMMA OthersStep ==
  ASSUME IInv, \/ \E m \in world.users : SessionChanges(m)
               \/ \E o \in Orders : OthersDecide(o) \/ \E to \in world.wanted : OthersPatch(o, to)
  PROVE  IInv'
<1>1. world \in World
  BY ConstantsAssumption DEF IInv, OrdersOK
<1>2. ASSUME NEW m \in world.users, SessionChanges(m) PROVE IInv'
  <2>1. m \in Merchants \cup {None}
    BY <1>1 DEF World
  <2>2. OrdersOK' /\ Earned'
    BY <1>2, <2>1 DEF SessionChanges, IInv, OrdersOK, Earned
  <2> QED
    BY <1>2, <2>2, ServerMoves DEF SessionChanges
<1>3. ASSUME NEW o \in Orders, OthersDecide(o) PROVE IInv'
  <2>1. OrdersOK' /\ Earned'
    BY <1>3 DEF OthersDecide, IInv, OrdersOK, Earned, Drafts
  <2> QED
    BY <1>3, <2>1, ServerMoves DEF OthersDecide
<1>4. ASSUME NEW o \in Orders, NEW to \in world.wanted, OthersPatch(o, to) PROVE IInv'
  <2> DEFINE k == [NewCall("patch", o, to, FALSE) EXCEPT !.live = FALSE]
  <2>1. to \in Fulfillment
    BY <1>1 DEF World
  <2>2. /\ k \in Call /\ k.op = "patch" /\ k.order = o /\ k.arg = to /\ k.by = None
        /\ k.stage = "sent" /\ k.answer = {} /\ k.live = FALSE
    BY <2>1 DEF NewCall, Call, Ops, Writes
  <2>3. calls' = calls \cup {k}
    BY <1>4 DEF OthersPatch
  <2> HIDE DEF k
  <2>4. Good(k)'
    BY <2>1, <2>2 DEF Good, Placed, Owned, Entitled
  <2>5. UNCHANGED orders /\ tab' = tab
    BY <1>4 DEF OthersPatch
  <2> QED
    BY <2>3, <2>4, <2>5, OrdersStay, ServerMoves DEF orders
<1> QED
  BY <1>2, <1>3, <1>4

\* A row tells what the order is.
LEMMA Rows ==
  ASSUME IInv, NEW o \in Orders
  PROVE  RowOf(o) \in Row /\ RowOf(o).order = o
BY DEF RowOf, Row, IInv, OrdersOK

\* handlePatchFulfillment finds that what is asked for is earned,
LEMMA ReadForPatchStep ==
  ASSUME IInv, NEW c \in calls, c.stage = "sent", ReadForPatch(c), tab' = tab
  PROVE  IInv'
<1> PICK k : k = [c EXCEPT !.stage = "read", !.by = session]
  OBVIOUS
<1>1. c \in Call /\ Placed(c) /\ c.op = "patch" /\ c.order \in Orders /\ c.answer = {}
  BY DEF IInv, Good, Placed, ReadForPatch, OrderOps
<1>2. session \in Merchants /\ session # None /\ owner[c.order] = session /\ Fulfills(c.order, c.arg)
  BY DEF ReadForPatch, Mine, IInv, OrdersOK
<1>3. /\ k \in Call /\ k.op = c.op /\ k.order = c.order /\ k.arg = c.arg /\ k.by = session
      /\ k.stage = "read" /\ k.live = c.live /\ k.answer = {}
  BY <1>1, <1>2 DEF Call
<1>4. UNCHANGED orders /\ calls' \subseteq calls \cup {k}
  BY DEF ReadForPatch, Goes
<1>5. /\ c.arg \in {"PROCESSING", "SHIPPED", "DELIVERED"} => c.order \in paid
      /\ c.arg = "DELIVERED" => c.order \in shipped
  BY <1>1, <1>2 DEF Fulfills, CanTransition, IInv, Earned
<1>6. Placed(k)
  BY <1>1, <1>3 DEF Placed
<1>7. Owned(k) /\ Entitled(k)
  BY <1>1, <1>2, <1>3, <1>5 DEF Owned, Entitled
<1>8. Good(k)'
  BY <1>4, <1>6, <1>7 DEF Good, Placed, Owned, Entitled, orders
<1> QED
  BY <1>4, <1>8, OrdersStay, ServerMoves DEF orders

\* and writes it, whatever happened to the order and the session meanwhile.
LEMMA WritePatchStep ==
  ASSUME IInv, NEW c \in calls, WritePatch(c), tab' = tab
  PROVE  IInv'
<1> DEFINE row == [RowOf(c.order) EXCEPT !.ful = c.arg]
<1>1. /\ c \in Call /\ Owned(c) /\ Entitled(c) /\ c.op = "patch" /\ c.stage = "read"
      /\ c.order \in Orders /\ c.arg \in Fulfillment
  BY DEF IInv, Good, Placed, WritePatch, OrderOps
<1>2. /\ ful' = [ful EXCEPT ![c.order] = c.arg] /\ Answered(c, c.by, c.arg, {row})
      /\ shipped' = IF c.arg = "SHIPPED" THEN shipped \cup {c.order} ELSE shipped
      /\ UNCHANGED <<world, owner, pay, draft, session, paid>>
  BY DEF WritePatch
<1>3. OrdersOK'
  BY <1>1, <1>2 DEF IInv, OrdersOK
<1>4. Earned'
  BY <1>1, <1>2 DEF IInv, Earned, OrdersOK, Entitled
<1>5. row \in Row /\ row.order = c.order
  BY <1>1, Rows DEF Row
<1>6. c.by \in Merchants \cup {None}
  BY <1>1 DEF Call
<1> HIDE DEF row
<1>7. c.by # None => owner'[c.order] = c.by
  BY <1>1, <1>2 DEF Owned
<1>8. \A k \in calls' : k \in calls \/ Good(k)'
  BY <1>1, <1>2, <1>5, <1>6, <1>7, AnsweredGood
<1> QED
  BY <1>2, <1>3, <1>4, <1>8, ServerMoves

\* The other handlers that read tell of the order and rows they found.
LEMMA AnswerReadStep ==
  ASSUME IInv, NEW c \in calls, AnswerRead(c), tab' = tab
  PROVE  IInv'
<1>1. UNCHANGED orders /\ session \in Merchants \cup {None} /\ "none" \in Fulfillment \cup Drafts
  BY DEF AnswerRead, IInv, OrdersOK, Drafts
<1>2. c.op \in OrderOps => c.order \in Orders
  BY DEF IInv, Good, Placed
<1>3. ASSUME NEW m \in Merchants \cup {None}, NEW arg \in Fulfillment \cup Drafts, NEW rows \in SUBSET Row,
             Answered(c, m, arg, rows), c.op # "patch", m # None => \A r \in rows : owner[r.order] = m
      PROVE  IInv'
  <2>1. owner' = owner
    BY <1>1 DEF orders
  <2>2. \A k \in calls' : k \in calls \/ Good(k)'
    BY <1>3, <2>1, AnsweredGood
  <2> QED
    BY <1>1, <2>2, OrdersStay, ServerMoves DEF orders
<1>4. CASE c.op = "me" /\ Answered(c, session, "none", {})
  BY <1>1, <1>3, <1>4
<1>5. CASE c.op = "list" /\ \E rows \in SUBSET {RowOf(o) : o \in {o \in Orders : Mine(o)}} :
                             Answered(c, session, "none", rows)
  <2>1. PICK rows \in SUBSET {RowOf(o) : o \in {o \in Orders : Mine(o)}} : Answered(c, session, "none", rows)
    BY <1>5
  <2>2. ASSUME NEW r \in rows PROVE r \in Row /\ owner[r.order] = session
    <3>1. PICK o \in Orders : Mine(o) /\ r = RowOf(o)
      BY <2>1
    <3> QED
      BY <3>1, Rows DEF Mine
  <2> QED
    BY <1>1, <1>3, <1>5, <2>1, <2>2
<1>6. CASE c.op = "info" /\ Answered(c, None, "none", {})
  BY <1>1, <1>3, <1>6
<1>7. CASE c.op = "order" /\ Mine(c.order) /\ Answered(c, session, "none", {RowOf(c.order)})
  <2>1. RowOf(c.order) \in Row /\ RowOf(c.order).order = c.order /\ owner[c.order] = session
    BY <1>2, <1>7, Rows DEF OrderOps, Mine
  <2> QED
    BY <1>1, <1>3, <1>7, <2>1
<1>8. CASE c.op \in {"drafts", "draft"} /\ Answered(c, None, draft[c.order], {})
  <2>1. draft[c.order] \in Drafts
    BY <1>2, <1>8 DEF OrderOps, IInv, OrdersOK
  <2> QED
    BY <1>1, <1>3, <1>8, <2>1
<1> QED
  BY <1>4, <1>5, <1>6, <1>7, <1>8 DEF AnswerRead

\* A new order is its merchant's, and no call spoke of it before.
LEMMA AnswerCreateStep ==
  ASSUME IInv, NEW c \in calls, AnswerCreate(c), tab' = tab
  PROVE  IInv'
<1>1. PICK o \in Orders, m \in IF c.op = "create" THEN {session} \ {None} ELSE Merchants :
        /\ owner[o] = None /\ owner' = [owner EXCEPT ![o] = m] /\ Answered(c, m, "none", {RowOf(o)})
  BY DEF AnswerCreate
<1>2. /\ m \in Merchants /\ c.op # "patch" /\ UNCHANGED <<world, pay, ful, draft, session, paid, shipped>>
      /\ "none" \in Fulfillment \cup Drafts /\ owner \in [Orders -> Merchants \cup {None}]
  BY <1>1 DEF AnswerCreate, IInv, OrdersOK, Drafts
<1>3. OrdersOK' /\ Earned'
  BY <1>1, <1>2 DEF IInv, OrdersOK, Earned
<1>4. RowOf(o) \in Row /\ RowOf(o).order = o /\ owner'[o] = m
  BY <1>1, <1>2, Rows
<1>5. PICK row : row = RowOf(o)
  OBVIOUS
<1>6. \A r \in {row} : owner'[r.order] = m
  BY <1>4, <1>5
<1>7. \A k \in calls' : k \in calls \/ Good(k)'
  BY <1>1, <1>2, <1>4, <1>5, <1>6, AnsweredGood
<1>8. \A x \in Orders : owner[x] # None => owner'[x] = owner[x]
  BY <1>1, <1>2
<1> QED
  BY <1>2, <1>3, <1>7, <1>8, ServerMoves

\* Drafts are suggested and decided, and what is saved is no order.
LEMMA AnswerRestStep ==
  ASSUME IInv, NEW c \in calls, AnswerSave(c) \/ AnswerSuggest(c) \/ AnswerDecide(c), tab' = tab
  PROVE  IInv'
<1>1. /\ UNCHANGED <<world, owner, pay, ful, session, paid, shipped>> /\ c.op # "patch"
      /\ session \in Merchants \cup {None} /\ "none" \in Fulfillment \cup Drafts
      /\ \E m \in {session, None} : Answered(c, m, "none", {})
  BY DEF AnswerSave, AnswerSuggest, AnswerDecide, orders, IInv, OrdersOK, Drafts
<1>2. \A k \in calls' : k \in calls \/ Good(k)'
  BY <1>1, AnsweredGood
<1>3. draft' \in [Orders -> Drafts]
  BY DEF AnswerSave, AnswerSuggest, AnswerDecide, orders, IInv, OrdersOK, Drafts
<1>4. OrdersOK' /\ Earned'
  BY <1>1, <1>3 DEF IInv, OrdersOK, Earned
<1> QED
  BY <1>1, <1>2, <1>4, ServerMoves

LEMMA AnswerStep ==
  ASSUME IInv, NEW c \in calls, Answer(c)
  PROVE  IInv'
<1>1. tab' = tab
  BY DEF Answer
<1>2. CASE WritePatch(c)
  BY <1>1, <1>2, WritePatchStep
<1>3. CASE c.stage = "sent" /\ ReadForPatch(c)
  BY <1>1, <1>3, ReadForPatchStep
<1>4. CASE AnswerRead(c)
  BY <1>1, <1>4, AnswerReadStep
<1>5. CASE AnswerCreate(c)
  BY <1>1, <1>5, AnswerCreateStep
<1>6. CASE AnswerSave(c) \/ AnswerSuggest(c) \/ AnswerDecide(c)
  BY <1>1, <1>6, AnswerRestStep
<1> QED
  BY <1>2, <1>3, <1>4, <1>5, <1>6 DEF Answer

-----------------------------------------------------------------------------
\* The page's steps.

\* A call that is about no order, ...
LEMMA Asks ==
  ASSUME NEW op \in Ops \ OrderOps, NEW own \in BOOLEAN
  PROVE  Good(NewCall(op, None, "none", own))
BY Begun DEF OrderOps, Drafts

\* ... and one that is about the order of the page.
LEMMA AsksFor ==
  ASSUME NEW o \in Orders, tab.order \in Orders, NEW own \in BOOLEAN,
         NEW op \in {"order", "drafts", "draft", "suggest", "decide"}
  PROVE  Good(NewCall(op, o, "none", own))
BY Begun DEF OrderOps, Ops, Writes, Drafts

\* The page that is left sends its visitor elsewhere.
LEMMA Leaves == ASSUME IInv, UNCHANGED orders, NEW c, Away(c) PROVE IInv'
<1>1. /\ tab' = NewTab("elsewhere", None, FALSE)
      /\ calls' = Left(calls \ {c}) \cup FirstCalls("elsewhere", None)
  BY DEF Away, FirstCalls, Lists
<1> QED
  BY <1>1, Navigates DEF Pages

\* The page takes the rows of an answer, ...
LEMMA ListedStep ==
  ASSUME IInv, UNCHANGED orders, NEW c \in calls, NEW rows \in SUBSET Row, NEW error \in BOOLEAN,
         Listed(c, rows, error)
  PROVE  IInv'
<1> DEFINE t == [tab EXCEPT !.loaded = TRUE, !.view = rows, !.busy = @ /\ ~c.own, !.error = error]
<1>1. t \in Tab /\ t.order = tab.order /\ t.page = tab.page /\ t.open = tab.open
  BY DEF IInv, PageOK, Tab
<1>2. tab' = t /\ calls' \subseteq calls
  BY DEF Listed
<1> HIDE DEF t
<1> QED
  BY <1>1, <1>2, GoesOn DEF orders

\* ... or loads again what it has saved.
LEMMA ReloadsStep ==
  ASSUME IInv, UNCHANGED orders, NEW c \in calls, Reloads(c)
  PROVE  IInv'
<1>1. c.own \in BOOLEAN /\ "list" \in Ops \ OrderOps
  BY DEF IInv, Good, Placed, Call, Ops, OrderOps
<1>2. Good(NewCall("list", None, "none", c.own))
  BY <1>1, Asks
<1>3. /\ tab' = tab /\ tab \in Tab
      /\ calls' \subseteq calls \cup {NewCall("list", None, "none", c.own)}
  BY DEF Reloads, Goes, IInv, PageOK
<1> QED
  BY <1>2, <1>3, GoesOn DEF orders

\* The gates of home and of new orders.
LEMMA GateStep ==
  ASSUME IInv, UNCHANGED orders, NEW c \in calls, HomeOpens(c) \/ CreateOpens(c)
  PROVE  IInv'
<1>1. CASE Away(c)
  BY <1>1, Leaves
<1>2. CASE ~Away(c)
  <2> DEFINE t == [tab EXCEPT !.gate = FALSE]
  <2>1. t \in Tab /\ t.order = tab.order /\ t.page = tab.page /\ t.open = tab.open
    BY DEF IInv, PageOK, Tab
  <2>2. Good(NewCall("list", None, "none", FALSE))
    BY Asks DEF Ops, OrderOps
  <2>3. tab' = t /\ calls' \subseteq calls \cup {NewCall("list", None, "none", FALSE)}
    BY <1>2 DEF HomeOpens, CreateOpens, Goes
  <2> HIDE DEF t
  <2> QED
    BY <2>1, <2>2, <2>3, GoesOn
<1> QED
  BY <1>1, <1>2

\* Answers with rows, for each page that lists them.
LEMMA ListsStep ==
  ASSUME IInv, UNCHANGED orders, NEW c \in calls, NEW rows \in SUBSET Row,
         \/ HomeLoads(c, rows) \/ OrdersLoad(c, rows) \/ CustomersLoad(c) \/ CustomerLoads(c, rows)
         \/ LinksLoad(c) \/ AdminLoads(c) \/ LinkInfoArrives(c)
         \/ OrderCreated(c, rows) \/ MiniCreated(c)
  PROVE  IInv'
<1>1. tab.error \in BOOLEAN
  BY DEF IInv, PageOK, Tab
<1>2. \E r \in {rows, {}}, error \in {FALSE, tab.error} : Listed(c, r, error)
  BY DEF HomeLoads, OrdersLoad, CustomersLoad, CustomerLoads, LinksLoad, AdminLoads,
         LinkInfoArrives, OrderCreated, MiniCreated
<1> QED
  BY <1>1, <1>2, ListedStep

\* The administrator's form fails on its reset.
LEMMA ResolvedStep ==
  ASSUME IInv, UNCHANGED orders, NEW c \in calls, Resolved(c)
  PROVE  IInv'
<1> DEFINE t == [tab EXCEPT !.error = TRUE, !.busy = FALSE]
<1>1. t \in Tab /\ t.order = tab.order /\ t.page = tab.page /\ t.open = tab.open
  BY DEF IInv, PageOK, Tab
<1>2. tab' = t /\ calls' \subseteq calls
  BY DEF Resolved
<1> HIDE DEF t
<1> QED
  BY <1>1, <1>2, GoesOn

\* The order's page takes the order, and asks for its drafts when it is there
\* for the first time.
LEMMA OrderStep ==
  ASSUME IInv, UNCHANGED orders, NEW c \in calls, c.live, NEW rows \in SUBSET Row,
         DeliverOrder(c, rows) \/ DeliverPatch(c, rows)
  PROVE  IInv'
<1>1. tab \in Tab /\ tab.order \in Orders
  BY DEF IInv, PageOK, Good, Placed, DeliverOrder, DeliverPatch, OrderOps
<1>2. CASE DeliverOrder(c, rows)
  <2> DEFINE t == [tab EXCEPT !.loaded = TRUE, !.view = rows]
  <2>1. t \in Tab /\ t.order = tab.order /\ t.page = tab.page /\ t.open = tab.open
    BY <1>1 DEF Tab
  <2>2. Good(NewCall("drafts", tab.order, "none", FALSE))
    BY <1>1, AsksFor
  <2>3. tab' = t /\ calls' \subseteq calls \cup {NewCall("drafts", tab.order, "none", FALSE)}
    BY <1>2 DEF DeliverOrder, Goes
  <2> HIDE DEF t
  <2> QED
    BY <2>1, <2>2, <2>3, GoesOn
<1>3. CASE DeliverPatch(c, rows)
  <2> DEFINE t == [tab EXCEPT !.loaded = TRUE, !.view = rows, !.form = FALSE, !.busy = FALSE]
  <2>1. t \in Tab /\ t.order = tab.order /\ t.page = tab.page /\ t.open = tab.open
    BY <1>1 DEF Tab
  <2>2. tab' = t /\ calls' \subseteq calls
    BY <1>3 DEF DeliverPatch
  <2> HIDE DEF t
  <2> QED
    BY <2>1, <2>2, GoesOn
<1> QED
  BY <1>2, <1>3

\* The drafts of the order's page, suggested, shown and decided.
LEMMA DraftStep ==
  ASSUME IInv, UNCHANGED orders, NEW c \in calls, c.live,
         DeliverDrafts(c) \/ DeliverSuggest(c) \/ DeliverDecide(c)
  PROVE  IInv'
<1>1. tab \in Tab /\ tab.order \in Orders /\ c.order \in Orders
  BY DEF IInv, PageOK, Good, Placed, DeliverDrafts, DeliverSuggest, DeliverDecide, OrderOps
<1>2. /\ Good(NewCall("drafts", c.order, "none", FALSE))
      /\ Good(NewCall("draft", c.order, "none", FALSE))
      /\ Good(NewCall("order", c.order, "none", FALSE))
  BY <1>1, AsksFor
<1>3. tab' \in Tab /\ tab'.order = tab.order /\ tab'.page = tab.page
  <2>1. CASE DeliverDrafts(c)
    BY <1>1, <2>1 DEF DeliverDrafts, Tab
  <2>2. CASE DeliverSuggest(c)
    <3>1. CASE tab' = tab
      BY <1>1, <3>1
    <3>2. CASE tab' # tab
      <4>1. \E s \in {"fresh", "terminal"} :
              tab' = [tab EXCEPT !.rows = TRUE, !.open = TRUE, !.link = TRUE, !.suggesting = FALSE, !.sheet = s]
        BY <2>2, <3>2 DEF DeliverSuggest
      <4> QED
        BY <1>1, <4>1 DEF Tab
    <3> QED
      BY <3>1, <3>2
  <2>3. CASE DeliverDecide(c)
    BY <1>1, <2>3 DEF DeliverDecide, Tab
  <2> QED
    BY <2>1, <2>2, <2>3
<1>4. calls' \subseteq calls \cup {NewCall("drafts", c.order, "none", FALSE),
                                  NewCall("draft", c.order, "none", FALSE),
                                  NewCall("order", c.order, "none", FALSE)}
  BY DEF DeliverDrafts, DeliverSuggest, DeliverDecide, Goes
<1> QED
  BY <1>1, <1>2, <1>3, <1>4, GoesOn

LEMMA DeliverStep ==
  ASSUME IInv, NEW c \in calls, Deliver(c)
  PROVE  IInv'
<1>1. UNCHANGED orders /\ c.live
  BY DEF Deliver
<1>2. c.answer \in SUBSET Row
  BY DEF IInv, Good, Placed, Call
<1>3. PICK rows \in {c.answer, {}} :
       \/ HomeOpens(c) \/ CreateOpens(c)
       \/ HomeLoads(c, rows) \/ OrdersLoad(c, rows) \/ CustomersLoad(c) \/ CustomerLoads(c, rows)
       \/ LinksLoad(c) \/ AdminLoads(c) \/ LinkInfoArrives(c)
       \/ OrderCreated(c, rows) \/ MiniCreated(c) \/ LinkStarted(c)
       \/ LinkCreated(c) \/ CustomerSaved(c) \/ DeliveryRetried(c) \/ Resolved(c)
       \/ DeliverOrder(c, rows) \/ DeliverPatch(c, rows)
       \/ DeliverDrafts(c) \/ DeliverSuggest(c) \/ DeliverDecide(c)
  BY DEF Deliver
<1>4. rows \in SUBSET Row
  BY <1>2
<1>5. CASE HomeOpens(c) \/ CreateOpens(c)
  BY <1>1, <1>5, GateStep
<1>6. CASE \/ HomeLoads(c, rows) \/ OrdersLoad(c, rows) \/ CustomersLoad(c) \/ CustomerLoads(c, rows)
           \/ LinksLoad(c) \/ AdminLoads(c) \/ LinkInfoArrives(c)
           \/ OrderCreated(c, rows) \/ MiniCreated(c)
  BY <1>1, <1>4, <1>6, ListsStep
<1>7. CASE LinkStarted(c)
  BY <1>1, <1>7, Leaves DEF LinkStarted
<1>8. CASE LinkCreated(c) \/ CustomerSaved(c) \/ DeliveryRetried(c)
  BY <1>1, <1>8, ReloadsStep DEF LinkCreated, CustomerSaved, DeliveryRetried
<1>9. CASE Resolved(c)
  BY <1>1, <1>9, ResolvedStep
<1>10. CASE DeliverOrder(c, rows) \/ DeliverPatch(c, rows)
  BY <1>1, <1>4, <1>10, OrderStep
<1>11. CASE DeliverDrafts(c) \/ DeliverSuggest(c) \/ DeliverDecide(c)
  BY <1>1, <1>11, DraftStep
<1> QED
  BY <1>3, <1>5, <1>6, <1>7, <1>8, <1>9, <1>10, <1>11

\* A call that fails leaves the page where it was; the server may get it all
\* the same.
LEMMA FailStep ==
  ASSUME IInv, NEW c \in calls, Fail(c)
  PROVE  IInv'
<1>1. UNCHANGED orders
  BY DEF Fail
<1>2. CASE Away(c)
  BY <1>1, <1>2, Leaves
<1>3. CASE ~Away(c)
  <2>1. tab' = Recovered(c) /\ calls' \subseteq calls \cup Left({c})
    BY <1>3 DEF Fail, Goes
  <2>2. tab \in Tab /\ c.own \in BOOLEAN /\ Good(c)
    BY DEF IInv, PageOK, Good, Placed, Call
  <2>3. Recovered(c) \in Tab
    <3> DEFINE busy       == tab.busy /\ ~c.own
               gate       == tab.gate /\ c.op # "me"
               error      == tab.error \/ c.own \/ (c.op \in {"me", "list", "info"} /\ tab.page # "customer")
               suggesting == tab.suggesting /\ c.op \notin {"suggest", "draft"}
               deciding   == tab.deciding /\ c.op # "decide"
    <3>1. {busy, gate, error, suggesting, deciding} \subseteq BOOLEAN
      OBVIOUS
    <3>2. Recovered(c) = [tab EXCEPT !.busy = busy, !.gate = gate, !.error = error,
                                     !.suggesting = suggesting, !.deciding = deciding]
      BY Zenon DEF Recovered
    <3> HIDE DEF busy, gate, error, suggesting, deciding
    <3> QED
      BY <2>2, <3>1, <3>2 DEF Tab
  <2>4. /\ Recovered(c).order = tab.order /\ Recovered(c).page = tab.page
        /\ Recovered(c).open = tab.open
    BY <2>2 DEF Recovered, Tab
  <2>5. ASSUME NEW k \in Left({c}) PROVE Good(k)
    <3>1. PICK d \in {c} : k = Ignored(d)
      BY <2>5, LeftAre
    <3> QED
      BY <2>2, <3>1, LeftBehind
  <2> QED
    BY <1>1, <2>1, <2>3, <2>4, <2>5, GoesOn
<1> QED
  BY <1>2, <1>3

LEMMA LoseStep == ASSUME IInv, NEW c \in calls, Lose(c) PROVE IInv'
BY GoesOn DEF Lose, IInv, PageOK

\* A click changes what the page shows, and calls.
LEMMA ClickStep ==
  ASSUME IInv, NEW t \in Tab, NEW k, Good(k), Clicks(t, k),
         t.order = tab.order, t.page = tab.page, t.open = tab.open
  PROVE  IInv'
BY GoesOn DEF Clicks

\* Buttons and forms that stay disabled until their call is answered, ...
LEMMA SendsStep ==
  ASSUME IInv, NEW op \in {"create", "start", "save"}, Sends(op)
  PROVE  IInv'
<1> DEFINE t == [tab EXCEPT !.busy = TRUE, !.error = FALSE]
<1>1. t \in Tab /\ t.order = tab.order /\ t.page = tab.page /\ t.open = tab.open
  BY DEF IInv, PageOK, Tab
<1>2. Good(NewCall(op, None, "none", TRUE))
  BY Asks DEF Ops, Writes, OrderOps
<1>3. Clicks(t, NewCall(op, None, "none", TRUE))
  BY DEF Sends
<1> HIDE DEF t
<1> QED
  BY <1>1, <1>2, <1>3, ClickStep

\* ... those of the order's page, ...
LEMMA OrderPageStep ==
  ASSUME IInv, \/ \E to \in Fulfillment : SetFulfillment(to)
               \/ SuggestFollowUp \/ Decide \/ ReloadOrder
  PROVE  IInv'
<1>1. tab \in Tab /\ tab.order \in Orders
  BY DEF IInv, PageOK, SetFulfillment, OffersFulfillment, SuggestFollowUp, Decide, ReloadOrder
<1>2. ASSUME NEW to \in Fulfillment, SetFulfillment(to) PROVE IInv'
  <2> DEFINE t == [tab EXCEPT !.busy = TRUE]
  <2>1. t \in Tab /\ t.order = tab.order /\ t.page = tab.page /\ t.open = tab.open
    BY <1>1 DEF Tab
  <2>2. Good(NewCall("patch", tab.order, to, TRUE))
    BY <1>1, Begun DEF Ops, Writes
  <2>3. Clicks(t, NewCall("patch", tab.order, to, TRUE))
    BY <1>2 DEF SetFulfillment
  <2> HIDE DEF t
  <2> QED
    BY <2>1, <2>2, <2>3, ClickStep
<1>3. CASE SuggestFollowUp
  <2> DEFINE t == [tab EXCEPT !.suggesting = TRUE]
  <2>1. t \in Tab /\ t.order = tab.order /\ t.page = tab.page /\ t.open = tab.open
    BY <1>1 DEF Tab
  <2>2. Good(NewCall("suggest", tab.order, "none", FALSE))
    BY <1>1, AsksFor
  <2>3. Clicks(t, NewCall("suggest", tab.order, "none", FALSE))
    BY <1>3 DEF SuggestFollowUp
  <2> HIDE DEF t
  <2> QED
    BY <2>1, <2>2, <2>3, ClickStep
<1>4. CASE Decide
  <2> DEFINE t == [tab EXCEPT !.deciding = TRUE]
  <2>1. t \in Tab /\ t.order = tab.order /\ t.page = tab.page /\ t.open = tab.open
    BY <1>1 DEF Tab
  <2>2. Good(NewCall("decide", tab.order, "none", FALSE))
    BY <1>1, AsksFor
  <2>3. Clicks(t, NewCall("decide", tab.order, "none", FALSE))
    BY <1>4 DEF Decide
  <2> HIDE DEF t
  <2> QED
    BY <2>1, <2>2, <2>3, ClickStep
<1>5. CASE ReloadOrder
  <2>1. Good(NewCall("order", tab.order, "none", FALSE))
    BY <1>1, AsksFor
  <2> QED
    BY <1>1, <1>5, <2>1, ClickStep DEF ReloadOrder
<1> QED
  BY <1>2, <1>3, <1>4, <1>5

\* ... and those that disable nothing.
LEMMA FreeClickStep ==
  ASSUME IInv, SaveCustomer \/ RetryDelivery \/ ReloadHome \/ ReloadOrders \/ ReloadCustomers
  PROVE  IInv'
<1>1. Good(NewCall("save", None, "none", FALSE)) /\ Good(NewCall("list", None, "none", FALSE))
  BY Asks DEF Ops, OrderOps
<1>2. tab \in Tab
  BY DEF IInv, PageOK
<1>3. \E op \in {"save", "list"} : Clicks(tab, NewCall(op, None, "none", FALSE))
  BY DEF SaveCustomer, RetryDelivery, ReloadHome, ReloadOrders, ReloadCustomers
<1> QED
  BY <1>1, <1>2, <1>3, ClickStep

\* What the order's page shows without a call.
LEMMA ShowStep == ASSUME IInv, ToggleForm \/ ToggleSheet \/ CheckDigest PROVE IInv'
<1>1. /\ UNCHANGED <<orders, calls>> /\ tab \in Tab /\ (tab.page = "order" => tab.order \in Orders)
  BY Zenon DEF ToggleForm, ToggleSheet, CheckDigest, IInv, PageOK
<1>2. CASE ToggleForm
  BY <1>1, <1>2, GoesOn DEF ToggleForm, Tab
<1>3. CASE ToggleSheet
  <2>1. PICK s \in {tab.sheet, "fresh"} : tab' = [tab EXCEPT !.open = ~@, !.sheet = s]
    BY <1>3, Zenon DEF ToggleSheet
  <2>2. tab' \in Tab /\ tab'.order = tab.order /\ tab'.page = tab.page
    BY <1>1, <2>1 DEF Tab
  <2>3. tab.page = "order"
    BY <1>3, Zenon DEF ToggleSheet
  <2> QED
    BY <1>1, <2>2, <2>3, GoesOn
<1>4. CASE CheckDigest
  BY <1>1, <1>4, GoesOn DEF CheckDigest, Tab
<1> QED
  BY <1>2, <1>3, <1>4

\* Another page.
LEMMA OpenStep ==
  ASSUME IInv, \/ \E p \in Pages \ {"order", "customer", "elsewhere"} : Open(p, None, FALSE)
               \/ OpenCustomer
               \/ \E o \in Orders, link \in BOOLEAN : OpenOrder(o, link)
  PROVE  IInv'
<1>1. ASSUME NEW p \in Pages, NEW o \in Orders \cup {None}, NEW link \in BOOLEAN,
             p = "order" => o \in Orders, Open(p, o, link)
      PROVE  IInv'
  BY <1>1, Navigates DEF Open
<1>2. CASE \E p \in Pages \ {"order", "customer", "elsewhere"} : Open(p, None, FALSE)
  BY <1>1, <1>2
<1>3. CASE OpenCustomer
  BY <1>1, <1>3 DEF OpenCustomer, Pages, Lists
<1>4. CASE \E o \in Orders, link \in BOOLEAN : OpenOrder(o, link)
  BY <1>1, <1>4 DEF OpenOrder, Pages
<1> QED
  BY <1>2, <1>3, <1>4

-----------------------------------------------------------------------------
\* The invariant holds at first, and every step keeps it.
LEMMA InitIInv == Init => IInv
<1> SUFFICES ASSUME Init PROVE IInv
  OBVIOUS
<1>1. OrdersOK /\ Earned
  BY DEF Init, OrdersOK, Earned, Pays, Fulfillment, Drafts, Fulfillable
<1>2. PageOK
  BY DEF Init, PageOK, NewTab, Tab, Pages, Lists
<1>3. calls = {NewCall("me", None, "none", FALSE)}
  BY DEF Init, FirstCalls
<1>4. Good(NewCall("me", None, "none", FALSE))
  BY Asks DEF Ops, OrderOps
<1> QED
  BY <1>1, <1>2, <1>3, <1>4 DEF IInv

LEMMA NextIInv == IInv /\ [Next]_vars => IInv'
<1> SUFFICES ASSUME IInv, [Next]_vars PROVE IInv'
  OBVIOUS
<1>1. CASE \E o \in Orders : \E st \in world.given : MoneyMoves(o, st)
  BY <1>1, MoneyMovesStep
<1>2. CASE \/ \E m \in world.users : SessionChanges(m)
           \/ \E o \in Orders : OthersDecide(o) \/ \E to \in world.wanted : OthersPatch(o, to)
  BY <1>2, OthersStep
<1>3. CASE \E c \in calls : Answer(c) \/ Deliver(c) \/ Fail(c) \/ Lose(c)
  BY <1>3, AnswerStep, DeliverStep, FailStep, LoseStep
<1>4. CASE \/ \E to \in Fulfillment : SetFulfillment(to)
           \/ SuggestFollowUp \/ Decide \/ ReloadOrder
  BY <1>4, OrderPageStep
<1>5. CASE SubmitOrder \/ SubmitMini \/ SubmitStart \/ SubmitLink \/ Resolve
  BY <1>5, SendsStep DEF SubmitOrder, SubmitMini, SubmitStart, SubmitLink, Resolve
<1>6. CASE SaveCustomer \/ RetryDelivery \/ ReloadHome \/ ReloadOrders \/ ReloadCustomers
  BY <1>6, FreeClickStep
<1>7. CASE ToggleForm \/ ToggleSheet \/ CheckDigest
  BY <1>7, ShowStep
<1>8. CASE \/ \E p \in Pages \ {"order", "customer", "elsewhere"} : Open(p, None, FALSE)
           \/ OpenCustomer
           \/ \E o \in Orders, link \in BOOLEAN : OpenOrder(o, link)
  BY <1>8, OpenStep
<1>9. CASE UNCHANGED vars
  <2>1. UNCHANGED <<orders, tab, calls>>
    BY <1>9 DEF vars
  <2> QED
    BY <2>1, GoesOn DEF IInv, PageOK
<1> QED
  BY <1>1, <1>2, <1>3, <1>4, <1>5, <1>6, <1>7, <1>8, <1>9 DEF Next

\* What the invariant says of the properties.
LEMMA Promised == IInv => TypeOK /\ EarnedFulfillment /\ TenantsApart
BY DEF IInv, OrdersOK, Earned, PageOK, Good, Placed, Owned, TypeOK, EarnedFulfillment, TenantsApart

\* The invariant holds in every behaviour.
LEMMA IInvAlways == Spec => []IInv
BY InitIInv, NextIInv, PTL DEF Spec

\* Orders, the page and its calls keep their shapes whatever the pages call and
\* the server answers.
THEOREM TypeCorrect == Spec => []TypeOK
BY IInvAlways, Promised, PTL

\* However the requests of several tabs overlap, goods leave only for orders
\* that were paid and arrive only after they left: handlePatchFulfillment reads,
\* checks and writes apart, but what it checked of the money and the
\* shipment was true once, and that is what counts.
THEOREM EarnedAlways == Spec => []EarnedFulfillment
BY IInvAlways, Promised, PTL

\* What a handler writes or tells belongs to the merchant it found at its
\* start: orders never change hands, so a session that changes later, or the
\* page's own order, does no harm.
THEOREM TenantsStayApart == Spec => []TenantsApart
BY IInvAlways, Promised, PTL
=============================================================================
