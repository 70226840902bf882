--------------------------- MODULE PaymentsProofs ---------------------------
(* Theorems about Payments, for any orders, rails, transfers and bounds. *)
EXTENDS Payments, FiniteSetTheorems, TLAPS

\* What TypeOK needs to be inductive: a linked transfer has its row, the batch
\* holds exact matches, and an open transaction is about a transfer without one.
Recorded ==
  /\ \A e \in Events : match[e] # NoMatch => chain[e] # NoRow
  /\ batch \subseteq ExactMatches
  /\ tx # NoTx => batch = {} /\ chain[tx.event] = NoRow

TInv == TypeOK /\ Recorded

-----------------------------------------------------------------------------
\* What the helpers return.

\* A claim comes back with a natural number nobody holds on that rail.
LEMMA ClaimableAmount ==
  ASSUME NEW table, NEW r \in Rails, NEW base \in Bases, NEW a \in Claimable(table, r, base)
  PROVE  a \in Nat /\ ~HeldIn(table, r, a)
BY ConstantsAssumption DEF Claimable

\* Making a quote keeps the shape of the options.
LEMMA InsertPaymentOptionsType ==
  ASSUME TypeOK, NEW table \in [OptionIds -> Option], NEW o \in Orders, NEW expires \in Nat,
         InsertPaymentOptions(table, o, expires)
  PROVE  option' \in [OptionIds -> Option] /\ quotes' \in [Orders -> Nat]
<1>1. PICK R \in SUBSET RailsOf[o] \ {{}}, base \in Bases :
        \E amounts \in [R -> UNION {Claimable(table, r, base) : r \in R}] :
          /\ \A r \in R : amounts[r] \in Claimable(table, r, base)
          /\ option' = WithQuote(table, o, R, amounts, expires)
  BY DEF InsertPaymentOptions
<1>2. PICK amounts \in [R -> UNION {Claimable(table, r, base) : r \in R}] :
          /\ \A r \in R : amounts[r] \in Claimable(table, r, base)
          /\ option' = WithQuote(table, o, R, amounts, expires)
  BY <1>1
<1>3. R \subseteq Rails
  BY ConstantsAssumption
<1>4. \A r \in R : amounts[r] \in Nat
  BY <1>2, <1>3, ClaimableAmount
<1>5. option' \in [OptionIds -> Option]
  BY <1>2, <1>4 DEF WithQuote, Option, OptionStatus, ResStatus
<1>6. quotes' \in [Orders -> Nat]
  BY DEF InsertPaymentOptions, TypeOK
<1> QED
  BY <1>5, <1>6

\* Superseding a quote keeps the shape of the options.
LEMMA SupersededType ==
  ASSUME TypeOK, NEW o \in Orders
  PROVE  Superseded(o) \in [OptionIds -> Option]
BY DEF TypeOK, Superseded, Option, OptionStatus, ResStatus

\* Locking and settling an option keep the shape of the options.
LEMMA LockedType ==
  ASSUME NEW table \in [OptionIds -> Option], NEW q \in OptionIds
  PROVE  Locked(table, q) \in [OptionIds -> Option]
BY DEF Locked, Option, ResStatus

\* Settling an option, locked or not, keeps the shape of the options.
LEMMA SettledType ==
  ASSUME NEW table \in [OptionIds -> Option], NEW q \in OptionIds
  PROVE  Settled(table, q) \in [OptionIds -> Option]
BY DEF Settled, Option, ResStatus, OptionStatus

-----------------------------------------------------------------------------
\* Type correctness, action by action.

\* The empty tables have their shapes.
LEMMA InitType == Init => TypeOK
BY ConstantsAssumption DEF Init, TypeOK, NoOption, Option, OptionStatus, ResStatus, OrderStatus, PCs,
   IntentStatus, Unpaid, InFlight, Exceptions

\* Creating an intent with its first quote keeps every shape.
LEMMA CreateIntentType ==
  ASSUME TypeOK, NEW o \in Orders, CreateIntent(o)
  PROVE  TypeOK'
<1> DEFINE expires == Earlier(now + QuoteTTL, OrderExpiry[o])
<1>1. expires \in Nat
  BY ConstantsAssumption DEF TypeOK, Earlier
<1>2. option' \in [OptionIds -> Option] /\ quotes' \in [Orders -> Nat]
  BY <1>1, InsertPaymentOptionsType DEF CreateIntent, TypeOK
<1>3. intent' \in [Orders -> [status: IntentStatus \cup {"NONE"}, expires: Nat]]
  BY <1>1 DEF CreateIntent, TypeOK, IntentStatus, Unpaid
<1>4. order' \in [Orders -> OrderStatus]
  BY DEF CreateIntent, TypeOK, OrderStatus
<1> QED
  BY <1>2, <1>3, <1>4 DEF CreateIntent, worker, TypeOK

\* Superseding a quote and making the next one keeps every shape.
LEMMA RefreshQuoteType ==
  ASSUME TypeOK, NEW o \in Orders, RefreshQuote(o)
  PROVE  TypeOK'
<1>1. now + QuoteTTL \in Nat
  BY ConstantsAssumption DEF TypeOK
<1>2. option' \in [OptionIds -> Option] /\ quotes' \in [Orders -> Nat]
  BY <1>1, InsertPaymentOptionsType, SupersededType DEF RefreshQuote
<1>3. intent' \in [Orders -> [status: IntentStatus \cup {"NONE"}, expires: Nat]]
  BY <1>1 DEF RefreshQuote, TypeOK, IntentStatus, Unpaid
<1>4. order' \in [Orders -> OrderStatus]
  BY DEF RefreshQuote, TypeOK, OrderStatus
<1> QED
  BY <1>2, <1>3, <1>4 DEF RefreshQuote, worker, TypeOK

\* An admin writes only a status the table allows.
LEMMA AdminNeedsReviewType ==
  ASSUME TypeOK, NEW o \in Orders, AdminNeedsReview(o)
  PROVE  TypeOK'
<1>1. intent' \in [Orders -> [status: IntentStatus \cup {"NONE"}, expires: Nat]]
  BY DEF AdminNeedsReview, TypeOK, IntentStatus, Exceptions
<1> QED
  BY <1>1 DEF AdminNeedsReview, worker, TypeOK

\* What HeldPlan decides about a reservation is a plan.
LEMMA HeldPlanType ==
  ASSUME TypeOK, NEW q \in OptionIds, NEW row \in Row
  PROVE  HeldPlan(q, row) \in Plan /\ HeldPlan(q, row).type # "UNDECIDED"
BY DEF HeldPlan, DuplicatePlan, StatusFor, Plan, MatchType, IntentStatus, InFlight, Unpaid, Exceptions

\* The first reads of Ingest open a transaction whose plan, if any, is one.
LEMMA ReadHeldType ==
  ASSUME TypeOK, NEW e \in Events, NEW row \in Reportable, ReadHeld(e, row)
  PROVE  TypeOK'
<1>1. row \in Row
  <2>1. 0..now \subseteq Nat /\ 0..MaxConf \subseteq Nat /\ PaidAmounts \subseteq Nat
    BY ConstantsAssumption DEF TypeOK
  <2>2. row.amount \in PaidAmounts /\ row.at \in 0..now /\ row.confs \in 0..MaxConf
    BY DEF Reportable
  <2>3. row = [rail |-> row.rail, amount |-> row.amount, at |-> row.at, confs |-> row.confs] /\ row.rail \in Rails
    BY DEF Reportable
  <2> QED
    BY <2>1, <2>2, <2>3 DEF Row
<1>2. HeldFor(row) \subseteq OptionIds
  BY DEF HeldFor, Exactly
<1>3. CASE \E q \in HeldFor(row) :
             /\ tx' = [event |-> e, row |-> row, plan |-> HeldPlan(q, row)]
             /\ pc' = "commit"
  <2>1. PICK q \in HeldFor(row) :
             /\ tx' = [event |-> e, row |-> row, plan |-> HeldPlan(q, row)]
             /\ pc' = "commit"
    BY <1>3
  <2>2. tx' \in Tx /\ tx'.plan.type # "UNDECIDED"
    BY <1>1, <1>2, <2>1, HeldPlanType DEF Tx
  <2> QED
    BY <2>1, <2>2, ConstantsAssumption DEF ReadHeld, TypeOK, PCs
<1>4. CASE tx' = [event |-> e, row |-> row, plan |-> Undecided] /\ pc' = "late"
  <2>1. tx' \in Tx
    BY <1>1, <1>4 DEF Tx, Plan, Undecided
  <2> QED
    BY <1>4, <2>1, ConstantsAssumption DEF ReadHeld, TypeOK, PCs
<1> QED
  BY <1>3, <1>4 DEF ReadHeld

\* The worker's actions on an open transaction find one of type Tx.
LEMMA OpenTx ==
  ASSUME TypeOK, pc \in {"late", "near", "commit"}
  PROVE  tx \in Tx /\ tx # NoTx
BY ConstantsAssumption DEF TypeOK

\* Deciding an open transaction keeps its shape.
LEMMA DecideType ==
  ASSUME TypeOK, pc \in {"late", "near"}, NEW plan \in Plan, NEW next \in {"near", "commit"},
         next = "commit" => plan.type # "UNDECIDED", Decide(plan, next),
         UNCHANGED <<now, intent, order, quotes, option, chain, match, usage, batch>>
  PROVE  TypeOK'
<1>1. tx \in Tx
  BY DEF TypeOK
<1>2. tx' \in Tx /\ tx'.plan = plan
  BY <1>1 DEF Decide, Tx
<1> QED
  BY <1>2, ConstantsAssumption DEF Decide, TypeOK, PCs

\* Looking up released reservations leaves a transaction with a plan.
LEMMA ReadReleasedType ==
  ASSUME TypeOK, ReadReleased
  PROVE  TypeOK'
<1> DEFINE found == LateCandidates(tx.row)
           plan(q) == [option |-> q, type |-> "LATE_PAYMENT", next |-> "LATE_PAYMENT"]
<1>1. CASE Decide(Undecided, "near")
  BY <1>1, DecideType DEF ReadReleased, Plan, Undecided
<1>2. CASE \E q \in found : Decide(plan(q), "commit")
  <2>1. PICK q \in found : Decide(plan(q), "commit")
    BY <1>2
  <2>2. plan(q) \in Plan
    BY <2>1 DEF LateCandidates, Exactly, Plan, MatchType, IntentStatus, Exceptions
  <2> QED
    BY <2>1, <2>2, DecideType DEF ReadReleased
<1>3. CASE Decide(Ignored, "commit")
  BY <1>3, DecideType DEF ReadReleased, Plan, Ignored
<1> QED
  BY <1>1, <1>2, <1>3 DEF ReadReleased

\* Looking up near misses always decides the transaction.
LEMMA ReadNearType ==
  ASSUME TypeOK, ReadNear
  PROVE  TypeOK'
<1> DEFINE found == NearCandidates(tx.row)
           ambiguous(q) == [option |-> q, type |-> "AMBIGUOUS", next |-> "NEEDS_REVIEW"]
<1>1. CASE Decide(Ignored, "commit")
  BY <1>1, DecideType DEF ReadNear, Plan, Ignored
<1>2. CASE \E q \in found : Decide(NearPlan(q, tx.row), "commit")
  <2>1. PICK q \in found : Decide(NearPlan(q, tx.row), "commit")
    BY <1>2
  <2>2. NearPlan(q, tx.row) \in Plan /\ NearPlan(q, tx.row).type # "UNDECIDED"
    BY <2>1 DEF NearCandidates, NearPlan, Plan, MatchType, IntentStatus, Exceptions
  <2> QED
    BY <2>1, <2>2, DecideType DEF ReadNear
<1>3. CASE \E q \in found : Decide(ambiguous(q), "commit")
  <2>1. PICK q \in found : Decide(ambiguous(q), "commit")
    BY <1>3
  <2>2. ambiguous(q) \in Plan
    BY <2>1 DEF NearCandidates, Plan, MatchType, IntentStatus, Exceptions
  <2> QED
    BY <2>1, <2>2, DecideType DEF ReadNear
<1> QED
  BY <1>1, <1>2, <1>3 DEF ReadNear

\* A transaction that writes was decided, and its plan names what it writes.
LEMMA CommitPlan ==
  ASSUME TypeOK, pc = "commit"
  PROVE  /\ tx \in Tx
         /\ tx.plan.type # "IGNORED" =>
              /\ tx.plan.option \in OptionIds /\ tx.plan.type \in MatchType
              /\ tx.plan.next \in IntentStatus \cup {"KEEP"}
BY DEF TypeOK, Tx, Plan

\* Storing the transfer keeps the shape of chain_events and closes the transaction.
LEMMA EndIngestType ==
  ASSUME TypeOK, EndIngest
  PROVE  /\ chain' \in [Events -> Row \cup {NoRow}]
         /\ pc' = "watch" /\ tx' = NoTx
         /\ UNCHANGED <<now, quotes, batch>>
BY CommitPlan DEF EndIngest, TypeOK, Tx

\* Linking a transfer keeps the shapes of links and intents.
LEMMA RecordMatchType ==
  ASSUME TypeOK, pc = "commit", tx.plan.type # "IGNORED", RecordMatch(tx.plan)
  PROVE  /\ match' \in [Events -> Match \cup {NoMatch}]
         /\ intent' \in [Orders -> [status: IntentStatus \cup {"NONE"}, expires: Nat]]
<1>1. tx.event \in Events /\ tx.plan.option \in OptionIds /\ tx.plan.type \in MatchType
      /\ tx.plan.next \in IntentStatus \cup {"KEEP"} /\ tx.plan.option.order \in Orders
  BY CommitPlan DEF Tx, OptionIds
<1>2. match' \in [Events -> Match \cup {NoMatch}]
  BY <1>1 DEF RecordMatch, TypeOK, Match
<1>3. intent' \in [Orders -> [status: IntentStatus \cup {"NONE"}, expires: Nat]]
  BY <1>1 DEF RecordMatch, TypeOK
<1> QED
  BY <1>2, <1>3

\* Settling an order keeps the shapes of orders and of the usage counter.
LEMMA SettleOrderType ==
  ASSUME TypeOK, NEW o \in Orders, SettleOrder(o)
  PROVE  order' \in [Orders -> OrderStatus] /\ usage' \in Nat
BY DEF TypeOK, SettleOrder, OrderStatus

\* Whichever way Ingest commits, every table keeps its shape.
LEMMA CommitType ==
  ASSUME TypeOK, CommitIgnored \/ CommitException \/ CommitExact
  PROVE  TypeOK'
<1>1. /\ chain' \in [Events -> Row \cup {NoRow}]
      /\ pc' = "watch" /\ tx' = NoTx
      /\ UNCHANGED <<now, quotes, batch>>
      /\ pc = "commit"
  BY EndIngestType DEF CommitIgnored, CommitException, CommitExact, EndIngest
<1>2. CASE CommitIgnored
  BY <1>1, <1>2 DEF CommitIgnored, TypeOK, PCs
<1>3. CASE CommitException
  BY <1>1, <1>3, RecordMatchType DEF CommitException, TypeOK, PCs
<1>4. CASE CommitExact
  <2> DEFINE q == tx.plan.option
  <2>1. q \in OptionIds /\ q.order \in Orders
    BY <1>1, <1>4, CommitPlan DEF CommitExact, OptionIds
  <2>2. Locked(option, q) \in [OptionIds -> Option] /\ Settled(Locked(option, q), q) \in [OptionIds -> Option]
    BY <2>1, LockedType, SettledType DEF TypeOK
  <2>3. option' \in [OptionIds -> Option]
    BY <1>4, <2>2 DEF CommitExact
  <2>4. order' \in [Orders -> OrderStatus] /\ usage' \in Nat
    BY <1>4, <2>1, SettleOrderType DEF CommitExact, TypeOK
  <2>5. /\ match' \in [Events -> Match \cup {NoMatch}]
        /\ intent' \in [Orders -> [status: IntentStatus \cup {"NONE"}, expires: Nat]]
    BY <1>1, <1>4, RecordMatchType DEF CommitExact
  <2> QED
    BY <1>1, <2>3, <2>4, <2>5 DEF TypeOK, PCs
<1> QED
  BY <1>2, <1>3, <1>4

\* Applying confirmations keeps every shape: the transfers it reads are stored ones.
LEMMA ApplyType ==
  ASSUME TInv, NEW e \in Events, NEW c \in 0..MaxConf, Apply(e, c)
  PROVE  TypeOK'
<1> DEFINE o == IntentOf(e)
           next == AppliedStatus(e, c)
<1>1. e \in ExactMatches /\ chain[e] \in Row
  BY DEF Apply, TInv, TypeOK, Recorded, ExactMatches
<1>2. match[e] \in Match /\ match[e].option \in OptionIds /\ o \in Orders
  BY <1>1 DEF TInv, TypeOK, ExactMatches, IntentOf, Match, OptionIds
<1>3. c \in Nat /\ next \in {"PAID", "CONFIRMING"}
  BY DEF AppliedStatus
<1>4. chain' \in [Events -> Row \cup {NoRow}]
  <2>1. [chain[e] EXCEPT !.confs = c] \in Row
    BY <1>1, <1>3 DEF Row
  <2> QED
    BY <2>1 DEF Apply, TInv, TypeOK
<1>5. CASE Stands(intent[o].status, next) /\ UNCHANGED <<intent, order, option, usage>>
  BY <1>4, <1>5 DEF Apply, TInv, TypeOK
<1>6. CASE intent' = [intent EXCEPT ![o].status = next]
  <2>1. intent' \in [Orders -> [status: IntentStatus \cup {"NONE"}, expires: Nat]]
    BY <1>2, <1>3, <1>6 DEF TInv, TypeOK, IntentStatus, InFlight
  <2>2. CASE option' = Settled(option, match[e].option) /\ SettleOrder(o)
    <3>1. option' \in [OptionIds -> Option]
      BY <1>2, <2>2, SettledType DEF TInv, TypeOK
    <3>2. order' \in [Orders -> OrderStatus] /\ usage' \in Nat
      BY <1>2, <2>2, SettleOrderType DEF TInv
    <3> QED
      BY <1>4, <2>1, <3>1, <3>2 DEF Apply, TInv, TypeOK
  <2>3. CASE UNCHANGED <<order, option, usage>>
    BY <1>4, <2>1, <2>3 DEF Apply, TInv, TypeOK
  <2> QED
    BY <1>5, <1>6, <2>2, <2>3 DEF Apply
<1> QED
  BY <1>5, <1>6 DEF Apply

\* The three statements of expireIntents keep every shape.
LEMMA SweepType ==
  ASSUME TypeOK, Sweep
  PROVE  TypeOK'
<1>1. CASE StartSweep \/ SweepStatementFails
  BY <1>1 DEF StartSweep, SweepStatementFails, TypeOK, PCs
<1>2. CASE ExpireIntents
  <2>1. intent' \in [Orders -> [status: IntentStatus \cup {"NONE"}, expires: Nat]]
    BY <1>2 DEF ExpireIntents, TypeOK, IntentStatus, Unpaid
  <2> QED
    BY <1>2, <2>1 DEF ExpireIntents, TypeOK, PCs
<1>3. CASE ReleaseReservations
  <2>1. option' \in [OptionIds -> Option]
    BY <1>3 DEF ReleaseReservations, TypeOK, Option, ResStatus
  <2> QED
    BY <1>3, <2>1 DEF ReleaseReservations, TypeOK, PCs
<1>4. CASE ExpireOrders
  <2>1. order' \in [Orders -> OrderStatus]
    BY <1>4 DEF ExpireOrders, TypeOK, OrderStatus
  <2> QED
    BY <1>4, <2>1 DEF ExpireOrders, TypeOK, PCs
<1> QED
  BY <1>1, <1>2, <1>3, <1>4 DEF Sweep

\* Every step of the system keeps every shape.
LEMMA TypeStep == TInv /\ [Next]_vars => TypeOK'
<1> SUFFICES ASSUME TInv, [Next]_vars PROVE TypeOK'
  OBVIOUS
<1> USE DEF TInv
<1>1. CASE Tick
  BY <1>1, ConstantsAssumption DEF Tick, TypeOK, worker
<1>2. CASE Api
  BY <1>2, CreateIntentType, RefreshQuoteType, AdminNeedsReviewType DEF Api
<1>3. CASE Ingest
  BY <1>3, ReadHeldType, ReadReleasedType, ReadNearType, CommitType DEF Ingest
<1>4. CASE Confirm
  <2>1. CASE SelectBatch
    BY <2>1 DEF SelectBatch, Advancing, ExactMatches, TypeOK
  <2>2. ASSUME NEW e \in Events, SkipConfirmation(e)
        PROVE  TypeOK'
    BY <2>2 DEF SkipConfirmation, TypeOK
  <2> QED
    BY <1>4, <2>1, <2>2, ApplyType DEF Confirm
<1>5. CASE Sweep
  BY <1>5, SweepType
<1>6. CASE WorkerRestart
  BY <1>6, ConstantsAssumption DEF WorkerRestart, TypeOK, PCs
<1>7. CASE UNCHANGED vars
  BY <1>7 DEF vars, TypeOK
<1> QED
  BY <1>1, <1>2, <1>3, <1>4, <1>5, <1>6, <1>7 DEF Next

\* With no links and no batch, every linked transfer is a stored one.
LEMMA InitRecorded == Init => Recorded
BY DEF Init, Recorded

\* Steps that leave the chain rows, the links and the worker alone.
LEMMA ApiRecorded ==
  ASSUME TInv, Tick \/ Api
  PROVE  Recorded'
<1>1. UNCHANGED <<chain, match, batch, tx>>
  BY DEF Tick, Api, CreateIntent, RefreshQuote, AdminNeedsReview, worker
<1> QED
  BY <1>1 DEF TInv, Recorded, ExactMatches

\* Ingest stores a transfer in the step that links it.
LEMMA IngestRecorded ==
  ASSUME TInv, Ingest
  PROVE  Recorded'
<1> USE DEF TInv
<1>1. ASSUME NEW e \in Events, NEW row \in Reportable, ReadHeld(e, row)
      PROVE  Recorded'
  BY <1>1 DEF ReadHeld, Fresh, Recorded, ExactMatches
<1>2. CASE ReadReleased \/ ReadNear
  <2>1. UNCHANGED <<chain, match, batch>> /\ tx'.event = tx.event /\ tx # NoTx
    BY <1>2, OpenTx DEF ReadReleased, ReadNear, Decide, Tx
  <2> QED
    BY <2>1 DEF Recorded, ExactMatches
<1>3. CASE CommitIgnored \/ CommitException \/ CommitExact
  <2>1. EndIngest /\ tx \in Tx /\ tx # NoTx /\ tx' = NoTx /\ batch' = batch
    BY <1>3, OpenTx, EndIngestType DEF CommitIgnored, CommitException, CommitExact, EndIngest
  <2>2. batch' = {}
    BY <2>1 DEF Recorded
  <2>3. ASSUME NEW e \in Events, match'[e] # NoMatch
        PROVE  chain'[e] # NoRow
    <3>1. CASE e = tx.event
      BY <2>1, <3>1, ConstantsAssumption DEF EndIngest, TypeOK, Tx
    <3>2. CASE e # tx.event
      <4>1. match'[e] = match[e] /\ chain'[e] = chain[e]
        BY <1>3, <2>1, <3>2 DEF EndIngest, TypeOK, RecordMatch, CommitIgnored, CommitException, CommitExact
      <4> QED
        BY <2>3, <4>1 DEF Recorded
    <3> QED
      BY <3>1, <3>2
  <2> QED
    BY <2>1, <2>2, <2>3 DEF Recorded
<1> QED
  BY <1>1, <1>2, <1>3 DEF Ingest

\* Confirmations are asked only for linked transfers, which stay stored.
LEMMA ConfirmRecorded ==
  ASSUME TInv, Confirm
  PROVE  Recorded'
<1> USE DEF TInv
<1>1. CASE SelectBatch
  <2>1. tx = NoTx
    BY <1>1 DEF SelectBatch, TypeOK
  <2> QED
    BY <1>1, <2>1 DEF SelectBatch, Recorded, Advancing, ExactMatches
<1>2. ASSUME NEW e \in Events, SkipConfirmation(e)
      PROVE  Recorded'
  BY <1>2 DEF SkipConfirmation, Recorded, ExactMatches
<1>3. ASSUME NEW e \in Events, NEW c \in 0..MaxConf, Apply(e, c)
      PROVE  Recorded'
  <2>1. UNCHANGED <<match, tx>> /\ batch' \subseteq batch /\ tx = NoTx
    BY <1>3 DEF Apply, Recorded
  <2>2. ExactMatches' = ExactMatches
    BY <2>1 DEF ExactMatches
  <2>3. ASSUME NEW d \in Events, match[d] # NoMatch
        PROVE  chain'[d] # NoRow
    <3>1. TypeOK'
      BY <1>3, ApplyType
    <3>2. chain[d] \in Row
      BY <2>3 DEF Recorded, TypeOK
    <3>3. chain'[d] \in Row
      BY <1>3, <3>2 DEF Apply, TypeOK, Row
    <3> QED
      BY <3>3, ConstantsAssumption
  <2> QED
    BY <2>1, <2>2, <2>3 DEF Recorded
<1> QED
  BY <1>1, <1>2, <1>3 DEF Confirm

\* Sweeps and restarts leave links and stored transfers alone.
LEMMA SweepRecorded ==
  ASSUME TInv, Sweep \/ WorkerRestart
  PROVE  Recorded'
<1>1. UNCHANGED <<chain, match>>
  BY DEF Sweep, StartSweep, ExpireIntents, ReleaseReservations, ExpireOrders, SweepStatementFails, WorkerRestart
<1>2. CASE Sweep
  <2>1. UNCHANGED <<batch, tx>>
    BY <1>2 DEF Sweep, StartSweep, ExpireIntents, ReleaseReservations, ExpireOrders, SweepStatementFails
  <2> QED
    BY <1>1, <2>1 DEF TInv, Recorded, ExactMatches
<1>3. CASE WorkerRestart
  BY <1>1, <1>3 DEF WorkerRestart, TInv, Recorded
<1> QED
  BY <1>2, <1>3

\* The inductive invariant behind type correctness.
LEMMA RecordedAlways == Spec => []TInv
<1>1. Init => TInv
  BY InitType, InitRecorded DEF TInv
<1>2. TInv /\ [Next]_vars => TInv'
  <2> SUFFICES ASSUME TInv, [Next]_vars PROVE TInv'
    OBVIOUS
  <2>1. TypeOK'
    BY TypeStep
  <2>2. CASE UNCHANGED vars
    BY <2>2 DEF vars, TInv, Recorded, ExactMatches, TypeOK
  <2>3. Recorded'
    BY <2>2, ApiRecorded, IngestRecorded, ConfirmRecorded, SweepRecorded DEF Next, TInv
  <2> QED
    BY <2>1, <2>3 DEF TInv
<1> QED
  BY <1>1, <1>2, PTL DEF Spec

\* Whatever the buyers, the chain, the worker and the admins do, the tables keep
\* the shape the migrations give them and an Ingest writes only what it decided.
THEOREM TypeCorrect == Spec => []TypeOK
<1>1. TInv => TypeOK
  BY DEF TInv
<1> QED
  BY <1>1, RecordedAlways, PTL

-----------------------------------------------------------------------------
\* Uniqueness of the payable amounts.

\* HeldAmountUnique of any table of options.
UniqueIn(table) ==
  \A p, q \in OptionIds :
    /\ {table[p].res, table[q].res} \subseteq HeldStatus
    /\ p.rail = q.rail /\ table[p].amount = table[q].amount
    => p = q

\* table holds no amount that old does not hold for the same option.
HoldsLess(table, old) ==
  \A q \in OptionIds : table[q].res \in HeldStatus =>
    old[q].res \in HeldStatus /\ table[q].amount = old[q].amount

\* Amounts held once each stay so in a table that holds no more of them.
LEMMA HoldsLessUnique ==
  ASSUME NEW table, NEW old, UniqueIn(old), HoldsLess(table, old)
  PROVE  UniqueIn(table)
<1> SUFFICES ASSUME NEW p \in OptionIds, NEW q \in OptionIds,
                    table[p].res \in HeldStatus, table[q].res \in HeldStatus,
                    p.rail = q.rail, table[p].amount = table[q].amount
             PROVE  p = q
  BY DEF UniqueIn
<1>1. /\ old[p].res \in HeldStatus /\ old[q].res \in HeldStatus
      /\ old[p].amount = old[q].amount
  BY DEF HoldsLess
<1> QED
  BY <1>1 DEF UniqueIn

\* A quote takes only amounts nobody holds, and one per rail.
LEMMA InsertUnique ==
  ASSUME NEW table \in [OptionIds -> Option], UniqueIn(table),
         NEW o \in Orders, NEW expires, InsertPaymentOptions(table, o, expires)
  PROVE  UniqueIn(option')
<1>1. PICK R \in SUBSET RailsOf[o] \ {{}}, base \in Bases :
        \E amounts \in [R -> UNION {Claimable(table, r, base) : r \in R}] :
          /\ \A r \in R : amounts[r] \in Claimable(table, r, base)
          /\ option' = WithQuote(table, o, R, amounts, expires)
  BY DEF InsertPaymentOptions
<1>2. PICK amounts \in [R -> UNION {Claimable(table, r, base) : r \in R}] :
          /\ \A r \in R : amounts[r] \in Claimable(table, r, base)
          /\ option' = WithQuote(table, o, R, amounts, expires)
  BY <1>1
<1> DEFINE new(q) == q.order = o /\ q.quote = quotes[o] + 1 /\ q.rail \in R
<1>3. R \subseteq Rails
  BY ConstantsAssumption
<1>4. \A r \in R : ~HeldIn(table, r, amounts[r])
  BY <1>2, <1>3, ClaimableAmount
<1>5. \A q \in OptionIds : new(q) => option'[q].amount = amounts[q.rail]
  BY <1>2 DEF WithQuote
<1>6. \A q \in OptionIds : ~new(q) => option'[q] = table[q]
  BY <1>2 DEF WithQuote
<1> SUFFICES ASSUME NEW p \in OptionIds, NEW q \in OptionIds,
                    option'[p].res \in HeldStatus, option'[q].res \in HeldStatus,
                    p.rail = q.rail, option'[p].amount = option'[q].amount
             PROVE  p = q
  BY DEF UniqueIn
<1>7. CASE new(p) /\ new(q)
  BY <1>7 DEF OptionIds
<1>8. CASE new(p) /\ ~new(q)
  BY <1>4, <1>5, <1>6, <1>8 DEF HeldIn
<1>9. CASE ~new(p) /\ new(q)
  BY <1>4, <1>5, <1>6, <1>9 DEF HeldIn
<1>10. CASE ~new(p) /\ ~new(q)
  BY <1>6, <1>10 DEF UniqueIn
<1> QED
  BY <1>7, <1>8, <1>9, <1>10

\* Locking or settling an option makes no reservation held that was not.
LEMMA LockedHoldsLess ==
  ASSUME NEW table \in [OptionIds -> Option], NEW q \in OptionIds
  PROVE  HoldsLess(Locked(table, q), table) /\ HoldsLess(Settled(table, q), table)
BY DEF HoldsLess, Locked, Settled, HeldStatus, Option

\* A transfer of some amount can never pay either of two orders: the amount and
\* rail a reservation holds are its alone.
THEOREM HeldUnique == Spec => []HeldAmountUnique
<1>1. HeldAmountUnique <=> UniqueIn(option)
  BY DEF HeldAmountUnique, UniqueIn
<1>2. HeldAmountUnique' <=> UniqueIn(option')
  BY DEF HeldAmountUnique, UniqueIn
<1>3. Init => HeldAmountUnique
  BY DEF Init, HeldAmountUnique, NoOption, HeldStatus
<1>4. TInv /\ HeldAmountUnique /\ [Next]_vars => HeldAmountUnique'
  <2> SUFFICES ASSUME TInv, UniqueIn(option), [Next]_vars
               PROVE  UniqueIn(option')
    BY <1>1, <1>2
  <2> USE DEF TInv
  <2>1. ASSUME option' = option
        PROVE  UniqueIn(option')
    BY <2>1
  <2>2. ASSUME HoldsLess(option', option)
        PROVE  UniqueIn(option')
    BY <2>2, HoldsLessUnique
  <2>3. ASSUME NEW o \in Orders, CreateIntent(o)
        PROVE  UniqueIn(option')
    BY <2>3, InsertUnique DEF CreateIntent, TypeOK
  <2>4. ASSUME NEW o \in Orders, RefreshQuote(o)
        PROVE  UniqueIn(option')
    <3>1. Superseded(o) \in [OptionIds -> Option]
      BY SupersededType
    <3>2. HoldsLess(Superseded(o), option)
      BY DEF HoldsLess, Superseded, HeldStatus, TypeOK, Option
    <3>3. UniqueIn(Superseded(o))
      BY <3>2, HoldsLessUnique
    <3> QED
      BY <2>4, <3>1, <3>3, InsertUnique DEF RefreshQuote
  <2>5. CASE CommitExact
    <3> DEFINE q == tx.plan.option
    <3>1. q \in OptionIds
      BY <2>5, CommitPlan DEF CommitExact, EndIngest
    <3>2. UniqueIn(Locked(option, q)) /\ Locked(option, q) \in [OptionIds -> Option]
      BY <3>1, LockedHoldsLess, LockedType, HoldsLessUnique DEF TypeOK
    <3>3. UniqueIn(Settled(Locked(option, q), q))
      BY <3>1, <3>2, LockedHoldsLess, HoldsLessUnique
    <3> QED
      BY <2>5, <3>2, <3>3 DEF CommitExact
  <2>6. ASSUME NEW e \in Events, NEW c \in 0..MaxConf, Apply(e, c)
        PROVE  UniqueIn(option')
    <3>1. match[e].option \in OptionIds
      BY <2>6 DEF Apply, Recorded, ExactMatches, TypeOK, Match
    <3>2. option' = option \/ option' = Settled(option, match[e].option)
      BY <2>6 DEF Apply
    <3>3. HoldsLess(Settled(option, match[e].option), option)
      BY <3>1, LockedHoldsLess DEF TypeOK
    <3> QED
      BY <2>1, <3>2, <3>3, HoldsLessUnique
  <2>7. CASE ReleaseReservations
    BY <2>2, <2>7 DEF HoldsLess, ReleaseReservations, HeldStatus, TypeOK, Option
  <2> QED
    BY <2>1, <2>3, <2>4, <2>5, <2>6, <2>7
       DEF Next, vars, Tick, Api, AdminNeedsReview, Ingest, ReadHeld, ReadReleased, ReadNear, CommitIgnored,
           CommitException, Confirm, SelectBatch, SkipConfirmation, Sweep, StartSweep, ExpireIntents,
           ExpireOrders, SweepStatementFails, WorkerRestart
<1> QED
  BY <1>3, <1>4, RecordedAlways, PTL DEF Spec

-----------------------------------------------------------------------------
\* What settlement rests on.

\* An option that was never made has no row and no reservation; only current
\* quotes hold an active reservation; expired intents are past their deadline.
RowsLive ==
  /\ \A q \in OptionIds :
       /\ q.quote > quotes[q.order] => option[q].status = "none"
       /\ option[q].status = "none" => option[q].res = "none"
       /\ option[q].status # "none" => HasIntent(q.order)
       /\ option[q].res = "active" => option[q].status = "ACTIVE"
  /\ \A o \in Orders : intent[o].status = "EXPIRED" => intent[o].expires < now

\* Only options that were made are linked.
LinksLive == \A e \in Events : match[e] # NoMatch => option[match[e].option].status # "none"

\* What an Ingest that decided for an exact match may still count on when it
\* commits, though quotes are refreshed and admins intervene meanwhile.
ExactPlan(plan, row) ==
  LET q == plan.option
  IN  /\ plan.next \in InFlight \cup {"PAID"}
      /\ plan.next = "PAID" => row.confs >= Required[row.rail]
      /\ row.rail = q.rail /\ row.amount = option[q].amount
      /\ row.at <= intent[q.order].expires
      /\ intent[q.order].status \in Unpaid \cup Exceptions
      /\ option[q].status = "ACTIVE" => option[q].res = "active"

\* Likewise for one that decided for an exception: no status is kept that would
\* hide the transfer.
ExceptionPlan(plan) ==
  /\ plan.next \in Exceptions \cup {"KEEP"}
  /\ plan.next = "KEEP" => intent[plan.option.order].status \in Exceptions

PlanHolds ==
  (tx # NoTx /\ tx.plan.type \notin {"IGNORED", "UNDECIDED"}) =>
    /\ option[tx.plan.option].status # "none"
    /\ IF tx.plan.type = "EXACT" THEN ExactPlan(tx.plan, tx.row) ELSE ExceptionPlan(tx.plan)

\* A paid intent has a confirmed transfer that the worker will not touch again.
PaidStands ==
  \A o \in Orders : intent[o].status = "PAID" =>
    \E e \in ExactMatches \ batch : IntentOf(e) = o /\ chain[e].confs >= Required[chain[e].rail]

\* SettledByExactMatch, with what counting the settled options needs.
SettledOptions == {q \in OptionIds : option[q].status = "SETTLED"}
Counted == SettledByExactMatch /\ IsFiniteSet(SettledOptions)

Settlement ==
  /\ RowsLive /\ LinksLive /\ PlanHolds /\ PaidStands
  /\ ExactIsExactAndOnTime /\ UnpaidHasNoMatch /\ MatchedAmountLocked /\ Counted

SInv == TInv /\ Settlement

\* Nothing has happened yet.
LEMMA InitSettlement == Init => Settlement
<1> SUFFICES ASSUME Init PROVE Settlement
  OBVIOUS
<1>1. \A q \in OptionIds : option[q].status = "none" /\ option[q].res = "none"
  BY DEF Init, NoOption
<1>2. \A e \in Events : match[e] = NoMatch
  BY DEF Init
<1>3. SettledOptions = {} /\ Cardinality(SettledOptions) = 0 /\ IsFiniteSet(SettledOptions)
  <2>1. SettledOptions = {}
    BY <1>1 DEF SettledOptions
  <2> QED
    BY <2>1, FS_EmptySet
<1>4. RowsLive /\ LinksLive /\ PlanHolds /\ PaidStands
  BY <1>1, <1>2 DEF Init, RowsLive, LinksLive, PlanHolds, PaidStands
<1>5. ExactIsExactAndOnTime /\ UnpaidHasNoMatch /\ MatchedAmountLocked
  BY <1>1, <1>2 DEF Init, ExactIsExactAndOnTime, UnpaidHasNoMatch, MatchedAmountLocked, ExactMatches, MatchedTo
<1>6. Counted
  BY <1>1, <1>3 DEF Init, Counted, SettledByExactMatch, SettledOptions
<1> QED
  BY <1>4, <1>5, <1>6 DEF Settlement

\* Steps that only move the worker.
LEMMA TablesKept ==
  ASSUME Settlement, PlanHolds', PaidStands',
         UNCHANGED <<now, intent, order, quotes, option, chain, match, usage>>
  PROVE  Settlement'
<1>1. ExactMatches' = ExactMatches /\ SettledOptions' = SettledOptions
  BY DEF ExactMatches, SettledOptions
<1>2. RowsLive' /\ LinksLive'
  BY DEF Settlement, RowsLive, LinksLive, HasIntent
<1>3. ExactIsExactAndOnTime' /\ MatchedAmountLocked' /\ UnpaidHasNoMatch'
  BY <1>1 DEF Settlement, ExactIsExactAndOnTime, IntentOf, MatchedAmountLocked, UnpaidHasNoMatch, MatchedTo
<1>4. Counted'
  BY <1>1 DEF Settlement, Counted, SettledByExactMatch
<1> QED
  BY <1>2, <1>3, <1>4 DEF Settlement

\* The first reads of Ingest decide only what holds of the tables they read.
LEMMA ReadHeldPlan ==
  ASSUME SInv, NEW e \in Events, NEW row \in Reportable, ReadHeld(e, row)
  PROVE  PlanHolds'
<1> USE DEF SInv, TInv
<1>1. UNCHANGED <<intent, option>>
  BY DEF ReadHeld
<1>2. CASE tx' = [event |-> e, row |-> row, plan |-> Undecided]
  BY <1>2 DEF PlanHolds, Undecided
<1>3. ASSUME NEW q \in HeldFor(row), tx' = [event |-> e, row |-> row, plan |-> HeldPlan(q, row)]
      PROVE  PlanHolds'
  <2>1. q \in OptionIds /\ q.rail = row.rail /\ option[q].amount = row.amount /\ q.order \in Orders
    BY DEF HeldFor, Exactly, OptionIds
  <2>2. option[q].res \in {"active", "matched"}
    BY DEF HeldFor, Exactly
  <2>3. option[q].status # "none" /\ HasIntent(q.order)
    BY <2>1, <2>2 DEF Settlement, RowsLive
  <2>4. row.at \in Nat /\ row.confs \in Nat /\ Required[row.rail] \in Nat /\ row.rail \in Rails
    BY ConstantsAssumption DEF Reportable
  <2>5. intent[q.order].status \in IntentStatus /\ intent[q.order].expires \in Nat
    BY <2>1, <2>3 DEF TypeOK, HasIntent
  <2>6. CASE IsDuplicate(q)
    BY <1>1, <1>3, <2>3, <2>5, <2>6
       DEF PlanHolds, ExceptionPlan, HeldPlan, DuplicatePlan, InFlight, Exceptions
  <2>7. CASE ~IsDuplicate(q) /\ row.at > intent[q.order].expires
    BY <1>1, <1>3, <2>3, <2>7 DEF PlanHolds, ExceptionPlan, HeldPlan, Exceptions
  <2>8. CASE ~IsDuplicate(q) /\ ~(row.at > intent[q.order].expires)
    <3>1. tx'.plan = [option |-> q, type |-> "EXACT", next |-> StatusFor(row)] /\ tx'.row = row
      BY <1>3, <2>8 DEF HeldPlan
    <3>2. StatusFor(row) \in InFlight \cup {"PAID"}
          /\ (StatusFor(row) = "PAID" => row.confs >= Required[row.rail])
      BY DEF StatusFor, InFlight
    <3>3. intent[q.order].status \in Unpaid \cup Exceptions
      BY <2>5, <2>8 DEF IsDuplicate, IntentStatus
    <3>4. option[q].res = "active"
      BY <2>2, <2>8 DEF IsDuplicate
    <3>5. row.at <= intent[q.order].expires
      BY <2>4, <2>5, <2>8
    <3> QED
      BY <1>1, <2>1, <2>3, <3>1, <3>2, <3>3, <3>4, <3>5 DEF PlanHolds, ExactPlan
  <2> QED
    BY <2>6, <2>7, <2>8
<1> QED
  BY <1>2, <1>3 DEF ReadHeld

\* The later reads decide for an exception, about an option that was made.
LEMMA LaterReadsPlan ==
  ASSUME SInv, ReadReleased \/ ReadNear
  PROVE  PlanHolds'
<1> USE DEF SInv, TInv
<1>1. UNCHANGED <<intent, option>> /\ tx \in Tx
  BY OpenTx DEF ReadReleased, ReadNear
<1>2. ASSUME NEW plan, NEW next, Decide(plan, next)
      PROVE  tx'.plan = plan /\ tx'.row = tx.row
  BY <1>1, <1>2 DEF Decide, Tx
<1>3. ASSUME NEW next, Decide(Undecided, next) \/ Decide(Ignored, next)
      PROVE  PlanHolds'
  BY <1>2, <1>3 DEF PlanHolds, Undecided, Ignored
<1>4. ASSUME NEW q \in OptionIds, option[q].res # "none", NEW plan,
             Decide(plan, "commit"), plan.option = q, plan.type # "EXACT", plan.next \in Exceptions
      PROVE  PlanHolds'
  <2>1. option[q].status # "none"
    BY <1>4 DEF Settlement, RowsLive
  <2>2. tx'.plan = plan
    BY <1>2, <1>4
  <2> QED
    BY <1>1, <1>4, <2>1, <2>2 DEF PlanHolds, ExceptionPlan, Exceptions
<1>5. CASE ReadReleased
  <2> DEFINE plan(q) == [option |-> q, type |-> "LATE_PAYMENT", next |-> "LATE_PAYMENT"]
  <2>1. ASSUME NEW q \in LateCandidates(tx.row), Decide(plan(q), "commit")
        PROVE  PlanHolds'
    <3>1. q \in OptionIds /\ option[q].res # "none"
      BY DEF LateCandidates, Exactly
    <3>2. plan(q).option = q /\ plan(q).type # "EXACT" /\ plan(q).next \in Exceptions
      BY DEF Exceptions
    <3> QED
      BY <1>4, <2>1, <3>1, <3>2
  <2> QED
    BY <1>3, <1>5, <2>1 DEF ReadReleased
<1>6. CASE ReadNear
  <2> DEFINE ambiguous(q) == [option |-> q, type |-> "AMBIGUOUS", next |-> "NEEDS_REVIEW"]
  <2>1. \A q \in NearCandidates(tx.row) : q \in OptionIds /\ option[q].res # "none"
    BY DEF NearCandidates
  <2>2. ASSUME NEW q \in NearCandidates(tx.row), Decide(NearPlan(q, tx.row), "commit")
        PROVE  PlanHolds'
    <3>1. /\ NearPlan(q, tx.row).option = q /\ NearPlan(q, tx.row).type # "EXACT"
          /\ NearPlan(q, tx.row).next \in Exceptions
      BY DEF NearPlan, Exceptions
    <3> QED
      BY <1>4, <2>1, <2>2, <3>1
  <2>3. ASSUME NEW q \in NearCandidates(tx.row), Decide(ambiguous(q), "commit")
        PROVE  PlanHolds'
    <3>1. ambiguous(q).option = q /\ ambiguous(q).type # "EXACT" /\ ambiguous(q).next \in Exceptions
      BY DEF Exceptions
    <3> QED
      BY <1>4, <2>1, <2>3, <3>1
  <2> QED
    BY <1>3, <1>6, <2>2, <2>3 DEF ReadNear
<1> QED
  BY <1>5, <1>6

\* Steps that only move the worker and what it is about to write.
LEMMA WorkerSettlement ==
  ASSUME SInv,
         \/ \E e \in Events : \/ \E row \in Reportable : ReadHeld(e, row)
                              \/ SkipConfirmation(e)
         \/ ReadReleased \/ ReadNear \/ SelectBatch \/ StartSweep \/ SweepStatementFails
         \/ WorkerRestart \/ UNCHANGED vars
  PROVE  Settlement'
<1> USE DEF SInv, TInv
<1>1. UNCHANGED <<now, intent, order, quotes, option, chain, match, usage>>
  BY DEF ReadHeld, SkipConfirmation, ReadReleased, ReadNear, SelectBatch, StartSweep,
         SweepStatementFails, WorkerRestart, vars
<1>2. ExactMatches' = ExactMatches /\ \A e \in Events : IntentOf(e)' = IntentOf(e)
  BY <1>1 DEF ExactMatches, IntentOf
<1>3. PaidStands'
  <2>1. CASE SelectBatch
    <3>1. \A e \in batch' : intent[IntentOf(e)].status \in InFlight
      BY <2>1 DEF SelectBatch, Advancing
    <3>2. \A e \in batch' : intent[IntentOf(e)].status # "PAID"
      BY <3>1 DEF InFlight
    <3> QED
      BY <1>1, <1>2, <3>2 DEF Settlement, PaidStands, ExactMatches
  <2>2. CASE batch' \subseteq batch
    BY <1>1, <1>2, <2>2 DEF Settlement, PaidStands, ExactMatches
  <2> QED
    BY <2>1, <2>2 DEF ReadHeld, SkipConfirmation, ReadReleased, ReadNear, StartSweep,
         SweepStatementFails, WorkerRestart, vars
<1>4. PlanHolds'
  <2>1. CASE UNCHANGED tx
    BY <1>1, <2>1 DEF Settlement, PlanHolds, ExactPlan, ExceptionPlan
  <2>2. CASE WorkerRestart
    BY <2>2 DEF WorkerRestart, PlanHolds
  <2> QED
    BY <2>1, <2>2, ReadHeldPlan, LaterReadsPlan
       DEF SkipConfirmation, SelectBatch, StartSweep, SweepStatementFails, vars
<1> QED
  BY <1>1, <1>3, <1>4, TablesKept

\* What a commit of Ingest that links its transfer does to links and intents.
LEMMA LinkStep ==
  ASSUME TInv, EndIngest, tx.plan.type # "IGNORED", RecordMatch(tx.plan)
  PROVE  /\ tx.event \in Events /\ tx # NoTx /\ tx' = NoTx /\ batch = {} /\ batch' = {}
         /\ tx.plan.option \in OptionIds /\ tx.plan.type \in MatchType
         /\ match[tx.event] = NoMatch
         /\ match'[tx.event] # NoMatch
         /\ match'[tx.event].option = tx.plan.option /\ match'[tx.event].type = tx.plan.type
         /\ chain'[tx.event] = tx.row
         /\ \A e \in Events : e # tx.event => match'[e] = match[e] /\ chain'[e] = chain[e]
         /\ \A o \in Orders : intent'[o].expires = intent[o].expires
         /\ \A o \in Orders :
              intent'[o].status = IF tx.plan.next # "KEEP" /\ o = tx.plan.option.order
                                  THEN tx.plan.next ELSE intent[o].status
<1> USE DEF TInv
<1>1. pc = "commit" /\ tx \in Tx /\ tx # NoTx
  BY OpenTx DEF EndIngest
<1>2. tx.event \in Events /\ tx.plan.option \in OptionIds /\ tx.plan.type \in MatchType
  BY <1>1, CommitPlan DEF Tx
<1>3. tx' = NoTx /\ batch = {} /\ batch' = {}
  BY <1>1 DEF EndIngest, Recorded
<1>4. match[tx.event] = NoMatch
  BY <1>1, <1>2 DEF Recorded
<1>5. match' = [match EXCEPT ![tx.event] = [option |-> tx.plan.option, type |-> tx.plan.type]]
  BY DEF RecordMatch
<1>6. [option |-> tx.plan.option, type |-> tx.plan.type] \in Match
  BY <1>2 DEF Match
<1>7. match'[tx.event] = [option |-> tx.plan.option, type |-> tx.plan.type]
      /\ \A e \in Events : e # tx.event => match'[e] = match[e]
  BY <1>2, <1>5 DEF TypeOK
<1>8. chain'[tx.event] = tx.row /\ \A e \in Events : e # tx.event => chain'[e] = chain[e]
  BY <1>2 DEF EndIngest, TypeOK
<1>9. match'[tx.event] # NoMatch
  BY <1>6, <1>7, ConstantsAssumption
<1>10. \A o \in Orders : intent[o] \in [status: IntentStatus \cup {"NONE"}, expires: Nat]
  BY DEF TypeOK
<1>11. \A o \in Orders :
         /\ intent'[o].expires = intent[o].expires
         /\ intent'[o].status = IF tx.plan.next # "KEEP" /\ o = tx.plan.option.order
                                THEN tx.plan.next ELSE intent[o].status
  BY <1>10 DEF RecordMatch, TypeOK
<1> QED
  BY <1>1, <1>2, <1>3, <1>4, <1>7, <1>8, <1>9, <1>11

\* A transfer that is not an exact match is stored without touching options.
LEMMA CommitExceptionSettlement ==
  ASSUME SInv, CommitException
  PROVE  Settlement'
<1> USE DEF SInv, TInv
<1> DEFINE q == tx.plan.option
<1>1. EndIngest /\ RecordMatch(tx.plan) /\ tx.plan.type \notin {"IGNORED", "EXACT"} /\ UNCHANGED <<order, option, usage>>
  BY DEF CommitException
<1>2. tx.plan.type # "UNDECIDED" /\ UNCHANGED <<now, quotes>>
  BY <1>1 DEF EndIngest, TypeOK
<1>3. /\ tx.event \in Events /\ tx # NoTx /\ tx' = NoTx /\ batch = {} /\ batch' = {}
      /\ q \in OptionIds /\ q.order \in Orders
      /\ match[tx.event] = NoMatch /\ match'[tx.event] # NoMatch
      /\ match'[tx.event].option = q /\ match'[tx.event].type # "EXACT"
      /\ \A e \in Events : e # tx.event => match'[e] = match[e] /\ chain'[e] = chain[e]
      /\ \A o \in Orders : intent'[o].expires = intent[o].expires
  BY <1>1, LinkStep DEF OptionIds
<1>4. \A o \in Orders : intent'[o].status = intent[o].status \/ (o = q.order /\ intent'[o].status \in Exceptions)
  BY <1>1, <1>2, <1>3, LinkStep DEF Settlement, PlanHolds, ExceptionPlan
<1>5. intent'[q.order].status \in Exceptions /\ option[q].status # "none"
  BY <1>1, <1>2, <1>3, LinkStep DEF Settlement, PlanHolds, ExceptionPlan
<1>6. ExactMatches' = ExactMatches /\ \A e \in ExactMatches : e # tx.event /\ IntentOf(e)' = IntentOf(e)
  BY <1>3 DEF ExactMatches, IntentOf
<1>7. \A o \in Orders : intent'[o].status = intent[o].status \/ intent'[o].status \notin Unpaid \cup {"PAID", "NONE"}
  BY <1>4 DEF Exceptions, Unpaid
<1>8. RowsLive'
  BY <1>1, <1>2, <1>3, <1>7 DEF Settlement, RowsLive, HasIntent, OptionIds, Unpaid
<1>9. LinksLive' /\ PlanHolds'
  BY <1>1, <1>3, <1>5 DEF Settlement, LinksLive, PlanHolds
<1>10. PaidStands'
  BY <1>3, <1>6, <1>7 DEF Settlement, PaidStands, ExactMatches
<1>11. ExactIsExactAndOnTime'
  <2>1. \A e \in ExactMatches : IntentOf(e) \in Orders
    BY DEF ExactMatches, IntentOf, TypeOK, Match, OptionIds
  <2> QED
    BY <1>1, <1>3, <1>6, <2>1 DEF Settlement, ExactIsExactAndOnTime, IntentOf, ExactMatches
<1>12. UnpaidHasNoMatch'
  <2> SUFFICES ASSUME NEW o \in Orders, intent'[o].status \in Unpaid, NEW e \in Events,
                      match'[e] # NoMatch, match'[e].option.order = o
               PROVE  FALSE
    BY DEF UnpaidHasNoMatch, MatchedTo
  <2>1. o # q.order
    BY <1>5 DEF Exceptions, Unpaid
  <2>2. e # tx.event /\ match[e] = match'[e] /\ intent[o].status \in Unpaid
    BY <1>3, <1>4, <2>1
  <2> QED
    BY <2>2 DEF Settlement, UnpaidHasNoMatch, MatchedTo
<1>13. MatchedAmountLocked'
  BY <1>1, <1>3, <1>6 DEF Settlement, MatchedAmountLocked, ExactMatches
<1>14. Counted'
  <2>1. SettledOptions' = SettledOptions
    BY <1>1 DEF SettledOptions
  <2> QED
    BY <1>1, <1>3, <1>6, <2>1 DEF Settlement, Counted, SettledByExactMatch, ExactMatches
<1> QED
  BY <1>8, <1>9, <1>10, <1>11, <1>12, <1>13, <1>14 DEF Settlement

\* A transfer nobody asked for is stored and nothing else.
LEMMA CommitIgnoredSettlement ==
  ASSUME SInv, CommitIgnored
  PROVE  Settlement'
<1> USE DEF SInv, TInv
<1>1. UNCHANGED <<now, intent, order, quotes, option, match, usage, batch>> /\ tx' = NoTx
  BY DEF CommitIgnored, EndIngest
<1>2. tx.event \in Events /\ match[tx.event] = NoMatch /\ \A e \in Events : e # tx.event => chain'[e] = chain[e]
  BY OpenTx DEF CommitIgnored, EndIngest, TypeOK, Tx, Recorded
<1>3. ExactMatches' = ExactMatches /\ SettledOptions' = SettledOptions
      /\ \A e \in ExactMatches : chain'[e] = chain[e] /\ IntentOf(e)' = IntentOf(e)
  BY <1>1, <1>2 DEF ExactMatches, SettledOptions, IntentOf
<1>4. RowsLive' /\ LinksLive' /\ PlanHolds'
  BY <1>1 DEF Settlement, RowsLive, LinksLive, HasIntent, PlanHolds
<1>5. PaidStands' /\ ExactIsExactAndOnTime'
  BY <1>1, <1>3 DEF Settlement, PaidStands, ExactIsExactAndOnTime
<1>6. UnpaidHasNoMatch' /\ MatchedAmountLocked' /\ Counted'
  BY <1>1, <1>3 DEF Settlement, UnpaidHasNoMatch, MatchedTo, MatchedAmountLocked, Counted, SettledByExactMatch
<1> QED
  BY <1>4, <1>5, <1>6 DEF Settlement

\* Settling one option more raises their number by one at most.
LEMMA SettledCount ==
  ASSUME IsFiniteSet(SettledOptions), NEW q, SettledOptions' = SettledOptions \cup {q}
  PROVE  /\ IsFiniteSet(SettledOptions')
         /\ Cardinality(SettledOptions) \in Nat /\ Cardinality(SettledOptions') \in Nat
         /\ Cardinality(SettledOptions') <= Cardinality(SettledOptions) + 1
<1>1. Cardinality(SettledOptions) \in Nat
  BY FS_CardinalityType
<1>2. CASE q \in SettledOptions
  <2>1. SettledOptions' = SettledOptions
    BY <1>2
  <2> QED
    BY <1>1, <2>1
<1>3. CASE q \notin SettledOptions
  BY <1>1, <1>3, FS_AddElement
<1> QED
  BY <1>2, <1>3

\* Every option of the table is either unchanged or the one given.
OnlyOption(q) == \A p \in OptionIds : p # q => option'[p] = option[p]

\* settlePaid on an option with an exact match keeps the books.
LEMMA SettleCounted ==
  ASSUME SInv, TypeOK', NEW q \in OptionIds, OnlyOption(q),
         option'[q].status = "SETTLED" /\ SettleOrder(q.order),
         option'[q].res # "consumed" \/ option'[q].status = "SETTLED",
         \A p \in OptionIds : (\E e \in ExactMatches : match[e].option = p)
                                 => \E e \in ExactMatches' : match'[e].option = p,
         \E e \in ExactMatches' : match'[e].option = q
  PROVE  Counted'
<1> USE DEF SInv, TInv
<1>1. SettledOptions' = SettledOptions \cup {q}
  BY DEF SettledOptions, OnlyOption
<1>2. usage \in Nat /\ usage' = usage + 1
  BY DEF TypeOK, SettleOrder
<1>3. IsFiniteSet(SettledOptions') /\ Cardinality(SettledOptions') <= usage'
  <2>1. IsFiniteSet(SettledOptions) /\ Cardinality(SettledOptions) <= usage
    BY DEF Settlement, Counted, SettledByExactMatch, SettledOptions
  <2>2. /\ IsFiniteSet(SettledOptions')
        /\ Cardinality(SettledOptions) \in Nat /\ Cardinality(SettledOptions') \in Nat
        /\ Cardinality(SettledOptions') <= Cardinality(SettledOptions) + 1
    BY <1>1, <2>1, SettledCount
  <2> QED
    BY <1>2, <2>1, <2>2
<1>4. \A p \in OptionIds :
        /\ option'[p].res = "consumed" => option'[p].status = "SETTLED"
        /\ option'[p].status = "SETTLED" => \E e \in ExactMatches' : match'[e].option = p
  BY DEF OnlyOption, Settlement, Counted, SettledByExactMatch
<1>5. \A o \in Orders : order'[o] = "PAID" => \E p \in OptionIds : p.order = o /\ option'[p].status = "SETTLED"
  <2>1. \A o \in Orders : o # q.order => order'[o] = order[o]
    BY DEF SettleOrder, TypeOK
  <2> QED
    BY <2>1 DEF OnlyOption, Settlement, Counted, SettledByExactMatch
<1> QED
  BY <1>3, <1>4, <1>5 DEF Counted, SettledByExactMatch, SettledOptions

\* Locking an option locks an active reservation and leaves any other alone.
LEMMA LockedOption ==
  ASSUME TypeOK, NEW q \in OptionIds
  PROVE  /\ \A p \in OptionIds : p # q => Locked(option, q)[p] = option[p]
         /\ Locked(option, q)[q].res = IF option[q].res = "active" THEN "matched" ELSE option[q].res
         /\ Locked(option, q)[q].status = option[q].status
         /\ Locked(option, q)[q].amount = option[q].amount
BY DEF TypeOK, Locked, Option

\* A settled option is consumed, unless its amount was given back before.
LEMMA SettledOption ==
  ASSUME NEW table \in [OptionIds -> Option], NEW q \in OptionIds
  PROVE  /\ \A p \in OptionIds : p # q => Settled(table, q)[p] = table[p]
         /\ Settled(table, q)[q].res = IF table[q].res \in HeldStatus THEN "consumed" ELSE table[q].res
         /\ Settled(table, q)[q].status = "SETTLED"
         /\ Settled(table, q)[q].amount = table[q].amount
BY DEF Settled, Option

\* An exact match is linked, locks its amount and settles if it is confirmed.
LEMMA CommitExactSettlement ==
  ASSUME SInv, CommitExact
  PROVE  Settlement'
<1> USE DEF SInv, TInv
<1> DEFINE q == tx.plan.option
<1>1. EndIngest /\ RecordMatch(tx.plan) /\ tx.plan.type = "EXACT" /\ UNCHANGED <<now, quotes>> /\ TypeOK'
  BY CommitType DEF CommitExact, EndIngest
<1>2. /\ tx.event \in Events /\ tx # NoTx /\ tx' = NoTx /\ batch = {} /\ batch' = {}
      /\ q \in OptionIds /\ q.order \in Orders
      /\ match[tx.event] = NoMatch /\ match'[tx.event] # NoMatch
      /\ match'[tx.event].option = q /\ match'[tx.event].type = "EXACT" /\ chain'[tx.event] = tx.row
      /\ \A e \in Events : e # tx.event => match'[e] = match[e] /\ chain'[e] = chain[e]
      /\ \A o \in Orders : intent'[o].expires = intent[o].expires
  BY <1>1, LinkStep DEF OptionIds
<1>3. option[q].status # "none" /\ ExactPlan(tx.plan, tx.row)
  BY <1>1, <1>2 DEF Settlement, PlanHolds
<1>4. /\ intent'[q.order].status = tx.plan.next /\ tx.plan.next \in InFlight \cup {"PAID"}
      /\ \A o \in Orders : o # q.order => intent'[o].status = intent[o].status
  BY <1>1, <1>2, <1>3, LinkStep DEF ExactPlan, InFlight
<1>5. /\ ExactMatches' = ExactMatches \cup {tx.event} /\ tx.event \notin ExactMatches
      /\ \A e \in ExactMatches : IntentOf(e)' = IntentOf(e)
  <2>1. tx.event \notin ExactMatches
    BY <1>2 DEF ExactMatches
  <2>2. \A e \in Events : e \in ExactMatches' <=> e \in ExactMatches \cup {tx.event}
    BY <1>2, <2>1 DEF ExactMatches
  <2>3. ExactMatches' \subseteq Events /\ ExactMatches \subseteq Events
    BY DEF ExactMatches
  <2>4. ExactMatches' = ExactMatches \cup {tx.event}
    BY <1>2, <2>2, <2>3
  <2>5. \A e \in ExactMatches : IntentOf(e)' = IntentOf(e)
    BY <1>2, <2>1, <2>3 DEF IntentOf
  <2> QED
    BY <2>1, <2>4, <2>5
<1>6. /\ OnlyOption(q)
      /\ option'[q].amount = option[q].amount
      /\ \/ option'[q].status = "SETTLED" /\ option'[q].res \notin {"active", "matched"}
            /\ tx.plan.next = "PAID" /\ SettleOrder(q.order)
         \/ option'[q].status = option[q].status /\ tx.plan.next # "PAID" /\ UNCHANGED <<order, usage>>
            /\ option'[q].res = IF option[q].res = "active" THEN "matched" ELSE option[q].res
  <2>1. CASE tx.plan.next = "PAID"
    <3>1. option' = Settled(Locked(option, q), q) /\ SettleOrder(q.order)
      BY <2>1 DEF CommitExact
    <3>2. Locked(option, q) \in [OptionIds -> Option]
      BY <1>2, LockedType DEF TypeOK
    <3> QED
      BY <1>2, <2>1, <3>1, <3>2, LockedOption, SettledOption DEF OnlyOption, HeldStatus
  <2>2. CASE tx.plan.next # "PAID"
    <3>1. option' = Locked(option, q) /\ UNCHANGED <<order, usage>>
      BY <2>2 DEF CommitExact
    <3> QED
      BY <1>2, <2>2, <3>1, LockedOption DEF OnlyOption
  <2> QED
    BY <2>1, <2>2
<1>7. \A p \in OptionIds : option'[p].status # "none" <=> option[p].status # "none"
  BY <1>3, <1>6 DEF OnlyOption
<1>8. RowsLive'
  <2>1. \A o \in Orders : (intent[o].status # "NONE" => intent'[o].status # "NONE")
                          /\ (intent'[o].status = "EXPIRED" => intent[o].status = "EXPIRED")
    BY <1>4 DEF InFlight
  <2>2. \A p \in OptionIds : option'[p].res = "active" => option'[p].status = "ACTIVE"
    BY <1>6 DEF OnlyOption, Settlement, RowsLive
  <2>3. \A p \in OptionIds : option'[p].status = "none" => option'[p].res = "none"
    BY <1>3, <1>6 DEF OnlyOption, Settlement, RowsLive
  <2> QED
    BY <1>1, <1>2, <1>7, <2>1, <2>2, <2>3 DEF Settlement, RowsLive, HasIntent, OptionIds
<1>9. LinksLive' /\ PlanHolds'
  <2>1. \A e \in Events : match'[e] # NoMatch => match'[e].option \in OptionIds
    BY <1>1 DEF TypeOK, Match
  <2> QED
    BY <1>2, <1>3, <1>7, <2>1 DEF Settlement, LinksLive, PlanHolds
<1>10. PaidStands'
  <2> SUFFICES ASSUME NEW o \in Orders, intent'[o].status = "PAID"
               PROVE  \E e \in ExactMatches' \ batch' :
                        IntentOf(e)' = o /\ chain'[e].confs >= Required[chain'[e].rail]
    BY DEF PaidStands
  <2>1. CASE o = q.order
    <3>1. chain'[tx.event].confs >= Required[chain'[tx.event].rail]
      BY <1>2, <1>3, <1>4, <2>1 DEF ExactPlan
    <3> QED
      BY <1>2, <1>5, <2>1, <3>1 DEF IntentOf
  <2>2. CASE o # q.order
    BY <1>2, <1>4, <1>5, <2>2 DEF Settlement, PaidStands, ExactMatches
  <2> QED
    BY <2>1, <2>2
<1>11. ExactIsExactAndOnTime'
  <2>1. \A e \in ExactMatches : match[e].option \in OptionIds /\ IntentOf(e) \in Orders
    BY DEF ExactMatches, IntentOf, TypeOK, Match, OptionIds
  <2>2. \A p \in OptionIds : option'[p].amount = option[p].amount
    BY <1>6 DEF OnlyOption
  <2>3. \A e \in ExactMatches : e # tx.event /\ e \in Events
    BY <1>5 DEF ExactMatches
  <2>4. /\ chain'[tx.event].rail = match'[tx.event].option.rail
        /\ chain'[tx.event].amount = option'[match'[tx.event].option].amount
        /\ chain'[tx.event].at <= intent'[q.order].expires
    BY <1>2, <1>3, <2>2 DEF ExactPlan
  <2>5. ASSUME NEW e \in ExactMatches
        PROVE  /\ chain'[e].rail = match'[e].option.rail
               /\ chain'[e].amount = option'[match'[e].option].amount
               /\ chain'[e].at <= intent'[IntentOf(e)].expires
    BY <1>2, <2>1, <2>2, <2>3 DEF Settlement, ExactIsExactAndOnTime
  <2> QED
    BY <1>2, <1>5, <2>4, <2>5 DEF ExactIsExactAndOnTime, IntentOf
<1>12. UnpaidHasNoMatch'
  <2> SUFFICES ASSUME NEW o \in Orders, intent'[o].status \in Unpaid, NEW e \in Events,
                      match'[e] # NoMatch, match'[e].option.order = o
               PROVE  FALSE
    BY DEF UnpaidHasNoMatch, MatchedTo
  <2>1. o # q.order
    BY <1>4 DEF InFlight, Unpaid
  <2>2. e # tx.event /\ match[e] = match'[e] /\ intent[o].status \in Unpaid
    BY <1>2, <1>4, <2>1
  <2> QED
    BY <2>2 DEF Settlement, UnpaidHasNoMatch, MatchedTo
<1>13. MatchedAmountLocked'
  <2>1. \A e \in ExactMatches : match[e].option \in OptionIds /\ match'[e] = match[e]
    BY <1>2, <1>5 DEF ExactMatches, TypeOK, Match
  <2>2. \A e \in ExactMatches' : option'[match'[e].option].status = "ACTIVE" =>
           option'[match'[e].option].res = "matched"
    <3>1. option'[q].status = "ACTIVE" => option'[q].res = "matched"
      BY <1>3, <1>6 DEF ExactPlan
    <3> QED
      BY <1>2, <1>5, <1>6, <2>1, <3>1 DEF OnlyOption, Settlement, MatchedAmountLocked
  <2>3. \A p \in OptionIds : option'[p].res = "matched" => \E e \in ExactMatches' : match'[e].option = p
    BY <1>2, <1>5, <1>6, <2>1 DEF OnlyOption, Settlement, MatchedAmountLocked
  <2> QED
    BY <2>2, <2>3 DEF MatchedAmountLocked
<1>14. Counted'
  <2>1. \A p \in OptionIds : (\E e \in ExactMatches : match[e].option = p)
                                 => \E e \in ExactMatches' : match'[e].option = p
    BY <1>2, <1>5 DEF ExactMatches
  <2>2. \E e \in ExactMatches' : match'[e].option = q
    BY <1>2, <1>5
  <2>3. CASE option'[q].status = "SETTLED" /\ SettleOrder(q.order)
    BY <1>1, <1>2, <1>6, <2>1, <2>2, <2>3, SettleCounted
  <2>4. CASE option'[q].status = option[q].status /\ UNCHANGED <<order, usage>>
            /\ option'[q].res = IF option[q].res = "active" THEN "matched" ELSE option[q].res
    <3>1. SettledOptions' = SettledOptions
      BY <1>6, <2>4 DEF OnlyOption, SettledOptions
    <3>2. IsFiniteSet(SettledOptions') /\ Cardinality(SettledOptions') <= usage'
      BY <2>4, <3>1 DEF Settlement, Counted, SettledByExactMatch, SettledOptions
    <3>3. \A p \in OptionIds : option'[p].status = option[p].status
                             /\ (option'[p].res = "consumed" => option[p].res = "consumed")
      BY <1>6, <2>4 DEF OnlyOption
    <3>4. \A p \in OptionIds :
            /\ option'[p].res = "consumed" => option'[p].status = "SETTLED"
            /\ option'[p].status = "SETTLED" => \E e \in ExactMatches' : match'[e].option = p
      BY <2>1, <3>3 DEF Settlement, Counted, SettledByExactMatch
    <3>5. \A o \in Orders : order'[o] = "PAID" => \E p \in OptionIds : p.order = o /\ option'[p].status = "SETTLED"
      BY <2>4, <3>3 DEF Settlement, Counted, SettledByExactMatch
    <3> QED
      BY <3>2, <3>4, <3>5 DEF Counted, SettledByExactMatch, SettledOptions
  <2> QED
    BY <1>6, <2>3, <2>4
<1> QED
  BY <1>8, <1>9, <1>10, <1>11, <1>12, <1>13, <1>14 DEF Settlement

\* Confirmations settle what an exact match paid, whatever the intent shows by
\* then, and take no confirmed transfer away from another paid intent.
LEMMA ApplySettlement ==
  ASSUME SInv, NEW e \in Events, NEW c \in 0..MaxConf, Apply(e, c)
  PROVE  Settlement'
<1> USE DEF SInv, TInv
<1> DEFINE q == match[e].option
           o == q.order
           next == AppliedStatus(e, c)
<1>1. TypeOK' /\ UNCHANGED <<now, quotes, match, pc, tx>> /\ tx = NoTx /\ e \in batch /\ batch' = batch \ {e}
  BY ApplyType DEF Apply, Recorded
<1>2. e \in ExactMatches /\ q \in OptionIds /\ o \in Orders /\ IntentOf(e) = o /\ chain[e] \in Row
  BY <1>1 DEF Recorded, ExactMatches, TypeOK, Match, OptionIds, IntentOf
<1>3. ExactMatches' = ExactMatches /\ \A d \in Events : IntentOf(d)' = IntentOf(d)
  BY <1>1 DEF ExactMatches, IntentOf
<1>4. /\ chain'[e].rail = chain[e].rail /\ chain'[e].amount = chain[e].amount /\ chain'[e].at = chain[e].at
      /\ chain'[e].confs = c
      /\ \A d \in Events : d # e => chain'[d] = chain[d]
  <2>1. chain' = [chain EXCEPT ![e].confs = c]
    BY DEF Apply
  <2> QED
    BY <1>2, <2>1 DEF TypeOK, Row
<1>5. next \in {"PAID", "CONFIRMING"} /\ (next = "PAID" => c >= Required[chain[e].rail])
  BY DEF AppliedStatus
<1>6. /\ OnlyOption(q)
      /\ option'[q].amount = option[q].amount
      /\ \/ option' = option /\ UNCHANGED <<order, usage>>
         \/ option'[q].status = "SETTLED" /\ option'[q].res \notin {"active", "matched"} /\ SettleOrder(o)
  <2>1. CASE option' = Settled(option, q) /\ SettleOrder(o)
    BY <1>2, <2>1, SettledOption DEF OnlyOption, HeldStatus, TypeOK
  <2>2. CASE UNCHANGED <<order, option, usage>>
    BY <2>2 DEF OnlyOption
  <2> QED
    BY <1>2, <2>1, <2>2 DEF Apply
<1>7. /\ \A p \in Orders : intent'[p].expires = intent[p].expires
      /\ \A p \in Orders : p # o => intent'[p].status = intent[p].status
      /\ intent'[o].status = intent[o].status \/ intent'[o].status = next
  BY <1>2 DEF Apply, TypeOK
<1>8. option[q].status # "none" /\ intent[o].status \notin Unpaid \cup {"NONE"}
  <2>1. match[e] # NoMatch
    BY <1>2 DEF ExactMatches
  <2> QED
    BY <1>2, <2>1 DEF Settlement, LinksLive, RowsLive, HasIntent, UnpaidHasNoMatch, MatchedTo
<1>9. intent'[o].status \notin Unpaid \cup {"NONE"}
  BY <1>5, <1>7, <1>8 DEF Unpaid
<1>10. \A p \in OptionIds : option'[p].status # "none" <=> option[p].status # "none"
  BY <1>6, <1>8 DEF OnlyOption
<1>11. RowsLive'
  <2>1. \A p \in OptionIds : option'[p].res = "active" => option'[p].status = "ACTIVE"
    BY <1>6 DEF OnlyOption, Settlement, RowsLive
  <2>2. \A p \in OptionIds : option'[p].status = "none" => option'[p].res = "none"
    BY <1>6, <1>8 DEF OnlyOption, Settlement, RowsLive
  <2>3. \A p \in Orders : intent'[p].status = "EXPIRED" => intent'[p].expires < now'
    BY <1>1, <1>7, <1>9 DEF Settlement, RowsLive, Unpaid
  <2>4. \A p \in Orders : HasIntent(p) => HasIntent(p)'
    BY <1>7, <1>9 DEF HasIntent
  <2> QED
    BY <1>1, <1>10, <2>1, <2>2, <2>3, <2>4 DEF Settlement, RowsLive, OptionIds
<1>12. LinksLive' /\ PlanHolds'
  <2>1. \A d \in Events : match[d] # NoMatch => match[d].option \in OptionIds
    BY DEF TypeOK, Match
  <2> QED
    BY <1>1, <1>10, <2>1 DEF Settlement, LinksLive, PlanHolds
<1>13. PaidStands'
  <2> SUFFICES ASSUME NEW p \in Orders, intent'[p].status = "PAID"
               PROVE  \E d \in ExactMatches \ batch' :
                        IntentOf(d) = p /\ chain'[d].confs >= Required[chain'[d].rail]
    BY <1>3 DEF PaidStands, ExactMatches
  <2>1. CASE intent[p].status = "PAID"
    BY <1>1, <1>4, <2>1 DEF Settlement, PaidStands, ExactMatches
  <2>2. CASE intent[p].status # "PAID"
    <3>1. p = o /\ next = "PAID"
      BY <1>7, <2>2
    <3>2. chain'[e].confs >= Required[chain'[e].rail]
      BY <1>4, <1>5, <3>1
    <3> QED
      BY <1>1, <1>2, <3>1, <3>2
  <2> QED
    BY <2>1, <2>2
<1>14. ExactIsExactAndOnTime'
  <2> SUFFICES ASSUME NEW d \in ExactMatches
               PROVE  /\ chain'[d].rail = match[d].option.rail
                      /\ chain'[d].amount = option'[match[d].option].amount
                      /\ chain'[d].at <= intent'[IntentOf(d)].expires
    BY <1>1, <1>3 DEF ExactIsExactAndOnTime, ExactMatches
  <2>1. d \in Events /\ match[d].option \in OptionIds /\ IntentOf(d) \in Orders
    BY DEF ExactMatches, TypeOK, Match, IntentOf, OptionIds
  <2>2. option'[match[d].option].amount = option[match[d].option].amount
    BY <1>6, <2>1 DEF OnlyOption
  <2>3. chain'[d].rail = chain[d].rail /\ chain'[d].amount = chain[d].amount /\ chain'[d].at = chain[d].at
    BY <1>4, <2>1
  <2> QED
    BY <1>7, <2>1, <2>2, <2>3 DEF Settlement, ExactIsExactAndOnTime
<1>15. UnpaidHasNoMatch'
  <2>1. \A p \in Orders : intent'[p].status \in Unpaid => intent[p].status \in Unpaid
    BY <1>7, <1>9
  <2> QED
    BY <1>1, <2>1 DEF Settlement, UnpaidHasNoMatch, MatchedTo
<1>16. MatchedAmountLocked'
  <2>1. \A d \in ExactMatches : match[d].option \in OptionIds
    BY DEF ExactMatches, TypeOK, Match
  <2>2. \A p \in OptionIds : \/ option'[p] = option[p]
                             \/ option'[p].status # "ACTIVE" /\ option'[p].res # "matched"
    BY <1>6 DEF OnlyOption
  <2> QED
    BY <1>1, <1>3, <2>1, <2>2 DEF Settlement, MatchedAmountLocked
<1>17. Counted'
  <2>1. CASE option' = option /\ UNCHANGED <<order, usage>>
    <3>1. SettledOptions' = SettledOptions
      BY <2>1 DEF SettledOptions
    <3> QED
      BY <1>1, <1>3, <2>1, <3>1 DEF Settlement, Counted, SettledByExactMatch
  <2>2. CASE option'[q].status = "SETTLED" /\ SettleOrder(o)
    BY <1>1, <1>2, <1>3, <1>6, <2>2, SettleCounted
  <2> QED
    BY <1>6, <2>1, <2>2
<1> QED
  BY <1>11, <1>12, <1>13, <1>14, <1>15, <1>16, <1>17 DEF Settlement

\* The sweep hides no linked transfer and gives back no locked amount; nothing
\* is being ingested while it runs.
LEMMA SweepSettlement ==
  ASSUME SInv, ExpireIntents \/ ReleaseReservations \/ ExpireOrders
  PROVE  Settlement'
<1> USE DEF SInv, TInv
<1>1. tx = NoTx /\ UNCHANGED <<now, quotes, chain, match, usage, batch, tx>>
  BY DEF ExpireIntents, ReleaseReservations, ExpireOrders, TypeOK
<1>2. PlanHolds' /\ ExactMatches' = ExactMatches /\ \A e \in Events : IntentOf(e)' = IntentOf(e)
  BY <1>1 DEF PlanHolds, ExactMatches, IntentOf
<1>3. \A o \in Orders :
        /\ intent'[o].expires = intent[o].expires
        /\ \/ intent'[o].status = intent[o].status
           \/ /\ intent[o].status \in Unpaid /\ intent'[o].status = "EXPIRED"
              /\ intent[o].expires < now
  BY DEF ExpireIntents, ReleaseReservations, ExpireOrders, TypeOK, Unpaid
<1>4. \A q \in OptionIds :
        /\ option'[q].status = option[q].status /\ option'[q].amount = option[q].amount
        /\ \/ option'[q].res = option[q].res
           \/ option[q].res = "active" /\ option'[q].res = "released"
  BY DEF ExpireIntents, ReleaseReservations, ExpireOrders, TypeOK, Option
<1>5. \A o \in Orders : order'[o] = order[o] \/ order'[o] = "EXPIRED"
  BY DEF ExpireIntents, ReleaseReservations, ExpireOrders, TypeOK
<1>6. \A e \in Events : match[e] # NoMatch => match[e].option \in OptionIds /\ IntentOf(e) \in Orders
  BY DEF TypeOK, Match, OptionIds, IntentOf
<1>7. \A o \in Orders : intent'[o].status # "NONE" <=> intent[o].status # "NONE"
  BY <1>3 DEF Unpaid
<1>8. RowsLive'
  <2>1. \A q \in OptionIds : q.order \in Orders
    BY DEF OptionIds
  <2>2. \A q \in OptionIds : option[q].res = "active" => option[q].status = "ACTIVE"
    BY DEF Settlement, RowsLive
  <2>3. \A q \in OptionIds :
          /\ q.quote > quotes'[q.order] => option'[q].status = "none"
          /\ option'[q].status = "none" => option'[q].res = "none"
          /\ option'[q].status # "none" => HasIntent(q.order)'
          /\ option'[q].res = "active" => option'[q].status = "ACTIVE"
    BY <1>1, <1>4, <1>7, <2>1, <2>2 DEF Settlement, RowsLive, HasIntent
  <2>4. \A o \in Orders : intent'[o].status = "EXPIRED" => intent'[o].expires < now'
    BY <1>1, <1>3 DEF Settlement, RowsLive
  <2> QED
    BY <2>3, <2>4 DEF RowsLive
<1>9. LinksLive'
  BY <1>1, <1>4, <1>6 DEF Settlement, LinksLive
<1>10. PaidStands' /\ UnpaidHasNoMatch'
  <2>1. \A o \in Orders : intent'[o].status = "PAID" => intent[o].status = "PAID"
    BY <1>3
  <2>2. \A o \in Orders : intent'[o].status \in Unpaid => intent[o].status \in Unpaid
    BY <1>3
  <2> QED
    BY <1>1, <1>2, <2>1, <2>2 DEF Settlement, PaidStands, UnpaidHasNoMatch, MatchedTo, ExactMatches
<1>11. ExactIsExactAndOnTime'
  BY <1>1, <1>2, <1>3, <1>4, <1>6 DEF Settlement, ExactIsExactAndOnTime, ExactMatches
<1>12. MatchedAmountLocked'
  <2>1. \A e \in ExactMatches : match[e].option \in OptionIds
    BY <1>6 DEF ExactMatches
  <2> QED
    BY <1>1, <1>2, <1>4, <2>1 DEF Settlement, MatchedAmountLocked
<1>13. Counted'
  <2>1. SettledOptions' = SettledOptions
    BY <1>4 DEF SettledOptions
  <2>2. IsFiniteSet(SettledOptions') /\ Cardinality(SettledOptions') <= usage'
    BY <1>1, <2>1 DEF Settlement, Counted, SettledByExactMatch, SettledOptions
  <2>3. \A q \in OptionIds :
          /\ option'[q].res = "consumed" => option'[q].status = "SETTLED"
          /\ option'[q].status = "SETTLED" => \E e \in ExactMatches' : match'[e].option = q
    BY <1>1, <1>2, <1>4 DEF Settlement, Counted, SettledByExactMatch
  <2>4. \A o \in Orders : order'[o] = "PAID" => \E q \in OptionIds : q.order = o /\ option'[q].status = "SETTLED"
    BY <1>4, <1>5 DEF Settlement, Counted, SettledByExactMatch
  <2> QED
    BY <2>2, <2>3, <2>4 DEF Counted, SettledByExactMatch, SettledOptions
<1> QED
  BY <1>2, <1>8, <1>9, <1>10, <1>11, <1>12, <1>13 DEF Settlement

\* A quote only adds options under a number no option has yet.
LEMMA InsertShape ==
  ASSUME TypeOK, NEW table \in [OptionIds -> Option], NEW o \in Orders, NEW expires \in Nat,
         InsertPaymentOptions(table, o, expires)
  PROVE  /\ \A q \in OptionIds :
              \/ option'[q] = table[q]
              \/ /\ q.order = o /\ q.quote = quotes[o] + 1
                 /\ option'[q].status = "ACTIVE" /\ option'[q].res = "active"
         /\ quotes'[o] = quotes[o] + 1
         /\ \A p \in Orders : p # o => quotes'[p] = quotes[p]
<1>1. PICK R \in SUBSET RailsOf[o] \ {{}}, base \in Bases :
        \E amounts \in [R -> UNION {Claimable(table, r, base) : r \in R}] :
          option' = WithQuote(table, o, R, amounts, expires)
  BY DEF InsertPaymentOptions
<1>2. PICK amounts \in [R -> UNION {Claimable(table, r, base) : r \in R}] :
          option' = WithQuote(table, o, R, amounts, expires)
  BY <1>1
<1>3. \A q \in OptionIds :
         \/ option'[q] = table[q]
         \/ /\ q.order = o /\ q.quote = quotes[o] + 1
            /\ option'[q].status = "ACTIVE" /\ option'[q].res = "active"
  BY <1>2 DEF WithQuote
<1>4. quotes' = [quotes EXCEPT ![o] = @ + 1]
  BY DEF InsertPaymentOptions
<1>5. quotes'[o] = quotes[o] + 1 /\ \A p \in Orders : p # o => quotes'[p] = quotes[p]
  BY <1>4 DEF TypeOK
<1> QED
  BY <1>3, <1>5

\* Options of a quote being made.
NewOption(o, q) ==
  /\ q.order = o /\ q.quote = quotes[o] + 1
  /\ option'[q].status = "ACTIVE" /\ option'[q].res = "active"

\* Options of the quote that one replaces.
GivenBack(o, q) ==
  /\ q.order = o
  /\ option[q].status = "ACTIVE" /\ option'[q].status = "SUPERSEDED"
  /\ option'[q].amount = option[q].amount
  /\ option'[q].res = IF option[q].res = "active" THEN "released" ELSE option[q].res

\* A new quote, with or without giving back the old one, disturbs nothing that
\* was paid or that is being ingested.
LEMMA QuoteSettlement ==
  ASSUME SInv, TypeOK', NEW o \in Orders,
         UNCHANGED <<now, chain, match, usage, worker>>,
         order' = [order EXCEPT ![o] = "AWAITING_PAYMENT"],
         quotes'[o] = quotes[o] + 1, \A p \in Orders : p # o => quotes'[p] = quotes[p],
         \A q \in OptionIds : option'[q] = option[q] \/ NewOption(o, q) \/ GivenBack(o, q),
         \A p \in Orders : p # o => intent'[p] = intent[p],
         HasIntent(o)',
         \/ intent'[o] = intent[o]
         \/ /\ intent'[o].status = "AWAITING_PAYMENT"
            /\ MatchedTo(o) = {} /\ intent[o].status \in Unpaid \cup {"NONE"}
            /\ HasIntent(o) => intent[o].expires <= intent'[o].expires
  PROVE  Settlement'
<1> USE DEF SInv, TInv
<1>1. ExactMatches' = ExactMatches /\ \A e \in Events : IntentOf(e)' = IntentOf(e) /\ (match'[e] = match[e])
  BY DEF ExactMatches, IntentOf
<1>2. UNCHANGED <<tx, batch, pc>>
  BY DEF worker
<1>3. \A q \in OptionIds : NewOption(o, q) => option[q].status = "none" /\ option[q].res = "none"
  BY DEF NewOption, Settlement, RowsLive, TypeOK
<1>4. \A q \in OptionIds : option[q].status # "none" =>
        /\ option'[q].status # "none" /\ option'[q].amount = option[q].amount
        /\ option'[q].status = "ACTIVE" => option'[q] = option[q]
  BY <1>3 DEF GivenBack
<1>5. \A p \in Orders :
        /\ HasIntent(p) => HasIntent(p)' /\ intent[p].expires <= intent'[p].expires
        /\ intent[p].status \notin Unpaid \cup {"NONE"} => intent'[p].status = intent[p].status
        /\ intent'[p].status = intent[p].status \/ intent'[p].status = "AWAITING_PAYMENT"
        /\ intent'[p].status \in Unpaid => MatchedTo(p) = {}
  <2>1. \A p \in Orders : intent[p].expires \in Nat
    BY DEF TypeOK
  <2> QED
    BY <2>1 DEF HasIntent, Settlement, UnpaidHasNoMatch
<1>6. \A e \in Events : match[e] # NoMatch =>
        /\ match[e].option \in OptionIds /\ IntentOf(e) \in Orders
        /\ option[match[e].option].status # "none" /\ HasIntent(IntentOf(e))
  BY DEF TypeOK, Match, OptionIds, IntentOf, Settlement, LinksLive, RowsLive
<1>7. RowsLive'
  <2>1. \A q \in OptionIds : q.quote > quotes'[q.order] => option'[q].status = "none"
    <3> SUFFICES ASSUME NEW q \in OptionIds, q.quote > quotes'[q.order]
                 PROVE  option'[q].status = "none"
      OBVIOUS
    <3>1. q.order \in Orders /\ q.quote \in Nat /\ quotes[q.order] \in Nat
      BY ConstantsAssumption DEF OptionIds, TypeOK
    <3>2. q.quote > quotes[q.order] /\ ~NewOption(o, q)
      BY <3>1 DEF NewOption
    <3> QED
      BY <3>1, <3>2 DEF Settlement, RowsLive, GivenBack
  <2>2. \A q \in OptionIds : option'[q].status = "none" => option'[q].res = "none"
    BY DEF Settlement, RowsLive, NewOption, GivenBack
  <2>3. \A q \in OptionIds : option'[q].status # "none" => HasIntent(q.order)'
    <3>1. \A q \in OptionIds : q.order \in Orders
      BY DEF OptionIds
    <3> QED
      BY <1>5, <3>1 DEF Settlement, RowsLive, NewOption, GivenBack
  <2>4. \A q \in OptionIds : option'[q].res = "active" => option'[q].status = "ACTIVE"
    BY DEF Settlement, RowsLive, NewOption, GivenBack
  <2>5. \A p \in Orders : intent'[p].status = "EXPIRED" => intent'[p].expires < now'
    BY DEF Settlement, RowsLive
  <2> QED
    BY <2>1, <2>2, <2>3, <2>4, <2>5 DEF RowsLive
<1>8. LinksLive' /\ UnpaidHasNoMatch'
  BY <1>1, <1>4, <1>5, <1>6 DEF LinksLive, UnpaidHasNoMatch, MatchedTo
<1>9. PlanHolds'
  <2> SUFFICES ASSUME tx # NoTx, tx.plan.type \notin {"IGNORED", "UNDECIDED"}
               PROVE  /\ option'[tx.plan.option].status # "none"
                      /\ IF tx.plan.type = "EXACT" THEN ExactPlan(tx.plan, tx.row)'
                         ELSE ExceptionPlan(tx.plan)'
    BY <1>2 DEF PlanHolds
  <2> DEFINE q == tx.plan.option
  <2>1. tx \in Tx /\ q \in OptionIds /\ q.order \in Orders
    BY DEF TypeOK, Tx, Plan, OptionIds
  <2>2. option[q].status # "none" /\ HasIntent(q.order)
    BY <2>1 DEF Settlement, PlanHolds, RowsLive
  <2>3. CASE tx.plan.type = "EXACT"
    <3>1. ExactPlan(tx.plan, tx.row)
      BY <2>3 DEF Settlement, PlanHolds
    <3>2. tx.row.at \in Nat /\ intent[q.order].expires \in Nat /\ intent'[q.order].expires \in Nat
      BY <2>1 DEF Tx, Row, TypeOK
    <3>3. tx.row.at <= intent'[q.order].expires
      BY <1>5, <2>1, <2>2, <3>1, <3>2 DEF ExactPlan
    <3>4. intent'[q.order].status \in Unpaid \cup Exceptions
      BY <1>5, <2>1, <3>1 DEF ExactPlan, Unpaid
    <3> QED
      BY <1>2, <1>4, <2>1, <2>2, <2>3, <3>1, <3>3, <3>4 DEF ExactPlan
  <2>4. CASE tx.plan.type # "EXACT"
    <3>1. ExceptionPlan(tx.plan)
      BY <2>4 DEF Settlement, PlanHolds
    <3>2. intent[q.order].status \in Exceptions => intent'[q.order].status \in Exceptions
      BY <1>5, <2>1 DEF Exceptions, Unpaid
    <3> QED
      BY <1>2, <1>4, <2>1, <2>2, <2>4, <3>1, <3>2 DEF ExceptionPlan
  <2> QED
    BY <2>3, <2>4
<1>10. PaidStands'
  <2>1. \A p \in Orders : intent'[p].status = "PAID" => intent[p].status = "PAID"
    BY <1>5
  <2> QED
    BY <1>1, <1>2, <2>1 DEF Settlement, PaidStands, ExactMatches
<1>11. ExactIsExactAndOnTime'
  <2> SUFFICES ASSUME NEW e \in ExactMatches
               PROVE  /\ chain[e].rail = match[e].option.rail
                      /\ chain[e].amount = option'[match[e].option].amount
                      /\ chain[e].at <= intent'[IntentOf(e)].expires
    BY <1>1 DEF ExactIsExactAndOnTime, ExactMatches
  <2>1. e \in Events /\ match[e] # NoMatch
    BY DEF ExactMatches
  <2>2. chain[e].at \in Nat
    BY <2>1, ConstantsAssumption DEF Recorded, TypeOK, Row
  <2>3. intent[IntentOf(e)].expires \in Nat /\ intent'[IntentOf(e)].expires \in Nat
    BY <1>6, <2>1 DEF TypeOK
  <2> QED
    BY <1>4, <1>5, <1>6, <2>1, <2>2, <2>3 DEF Settlement, ExactIsExactAndOnTime
<1>12. MatchedAmountLocked'
  <2>1. \A e \in ExactMatches : match[e].option \in OptionIds /\ option[match[e].option].status # "none"
    BY <1>6 DEF ExactMatches
  <2>2. \A q \in OptionIds : option'[q].res = "matched" => option[q].res = "matched"
    BY DEF NewOption, GivenBack
  <2> QED
    BY <1>1, <1>4, <2>1, <2>2 DEF Settlement, MatchedAmountLocked
<1>13. Counted'
  <2>1. \A q \in OptionIds : option'[q].status = "SETTLED" <=> option[q].status = "SETTLED"
    BY <1>3 DEF NewOption, GivenBack
  <2>2. SettledOptions' = SettledOptions
    BY <2>1 DEF SettledOptions
  <2>3. IsFiniteSet(SettledOptions') /\ Cardinality(SettledOptions') <= usage'
    BY <2>2 DEF Settlement, Counted, SettledByExactMatch, SettledOptions
  <2>4. \A q \in OptionIds : option'[q].res = "consumed" => option[q].res = "consumed"
    BY DEF NewOption, GivenBack
  <2>5. \A q \in OptionIds :
          /\ option'[q].res = "consumed" => option'[q].status = "SETTLED"
          /\ option'[q].status = "SETTLED" => \E e \in ExactMatches' : match'[e].option = q
    BY <1>1, <2>1, <2>4 DEF Settlement, Counted, SettledByExactMatch
  <2>6. \A p \in Orders : order'[p] = "PAID" => order[p] = "PAID"
    BY DEF TypeOK
  <2>7. \A p \in Orders : order'[p] = "PAID" => \E q \in OptionIds : q.order = p /\ option'[q].status = "SETTLED"
    BY <2>1, <2>6 DEF Settlement, Counted, SettledByExactMatch
  <2> QED
    BY <2>3, <2>5, <2>7 DEF Counted, SettledByExactMatch, SettledOptions
<1> QED
  BY <1>7, <1>8, <1>9, <1>10, <1>11, <1>12, <1>13 DEF Settlement

\* An order without an intent has no linked transfer.
LEMMA NoIntentNoMatch ==
  ASSUME SInv, NEW o \in Orders, ~HasIntent(o)
  PROVE  MatchedTo(o) = {}
<1> SUFFICES ASSUME NEW e \in Events, match[e] # NoMatch, match[e].option.order = o
             PROVE  FALSE
  BY DEF MatchedTo
<1>1. match[e].option \in OptionIds
  BY DEF SInv, TInv, TypeOK, Match
<1> QED
  BY <1>1 DEF SInv, Settlement, LinksLive, RowsLive

\* Creating an intent, again or for the first time, only adds options.
LEMMA CreateIntentOptions ==
  ASSUME SInv, NEW o \in Orders, CreateIntent(o)
  PROVE  /\ \A q \in OptionIds : option'[q] = option[q] \/ NewOption(o, q)
         /\ quotes'[o] = quotes[o] + 1
         /\ \A p \in Orders : p # o => quotes'[p] = quotes[p]
<1> DEFINE expires == Earlier(now + QuoteTTL, OrderExpiry[o])
<1>1. expires \in Nat /\ option \in [OptionIds -> Option]
  BY ConstantsAssumption DEF SInv, TInv, TypeOK, Earlier
<1> QED
  BY <1>1, InsertShape DEF CreateIntent, SInv, TInv, NewOption

\* Likewise a refresh, which gives the old quote back.
LEMMA RefreshQuoteOptions ==
  ASSUME SInv, NEW o \in Orders, RefreshQuote(o)
  PROVE  /\ \A q \in OptionIds : option'[q] = option[q] \/ NewOption(o, q) \/ GivenBack(o, q)
         /\ quotes'[o] = quotes[o] + 1
         /\ \A p \in Orders : p # o => quotes'[p] = quotes[p]
<1> USE DEF SInv, TInv
<1>1. now + QuoteTTL \in Nat /\ Superseded(o) \in [OptionIds -> Option]
  BY ConstantsAssumption, SupersededType DEF TypeOK
<1>2. /\ \A q \in OptionIds : option'[q] = Superseded(o)[q] \/ NewOption(o, q)
      /\ quotes'[o] = quotes[o] + 1
      /\ \A p \in Orders : p # o => quotes'[p] = quotes[p]
  BY <1>1, InsertShape DEF RefreshQuote, NewOption
<1>3. ASSUME NEW q \in OptionIds, option'[q] = Superseded(o)[q]
      PROVE  option'[q] = option[q] \/ GivenBack(o, q)
  <2>1. option[q] \in Option /\ (option[q].res = "active" => option[q].status = "ACTIVE")
    BY DEF TypeOK, Settlement, RowsLive
  <2> QED
    BY <1>3, <2>1 DEF Superseded, GivenBack, Option
<1> QED
  BY <1>2, <1>3

\* The API and the clock.
LEMMA ApiSettlement ==
  ASSUME SInv, Tick \/ Api
  PROVE  Settlement'
<1> USE DEF SInv, TInv
<1>1. ASSUME NEW o \in Orders, CreateIntent(o)
      PROVE  Settlement'
  <2>1. TypeOK'
    BY <1>1, CreateIntentType
  <2>2. \A p \in Orders : p # o => intent'[p] = intent[p]
    BY <1>1 DEF CreateIntent, TypeOK
  <2>3. HasIntent(o)'
    BY <1>1 DEF CreateIntent, HasIntent, TypeOK
  <2>4. \/ intent'[o] = intent[o]
        \/ /\ intent'[o].status = "AWAITING_PAYMENT"
           /\ MatchedTo(o) = {} /\ intent[o].status \in Unpaid \cup {"NONE"}
           /\ HasIntent(o) => intent[o].expires <= intent'[o].expires
    BY <1>1, NoIntentNoMatch DEF CreateIntent, HasIntent, TypeOK
  <2> QED
    BY <1>1, <2>1, <2>2, <2>3, <2>4, CreateIntentOptions, QuoteSettlement DEF CreateIntent
<1>2. ASSUME NEW o \in Orders, RefreshQuote(o)
      PROVE  Settlement'
  <2>1. TypeOK'
    BY <1>2, RefreshQuoteType
  <2>2. intent'[o] = [status |-> "AWAITING_PAYMENT", expires |-> now + QuoteTTL]
        /\ \A p \in Orders : p # o => intent'[p] = intent[p]
    BY <1>2 DEF RefreshQuote, TypeOK
  <2>3. HasIntent(o)'
    BY <2>2 DEF HasIntent
  <2>4. intent[o].status \in Unpaid /\ MatchedTo(o) = {} /\ intent[o].expires < now
    BY <1>2 DEF RefreshQuote, Refreshable, Settlement, RowsLive
  <2>5. intent[o].expires <= intent'[o].expires
    BY <2>2, <2>4, ConstantsAssumption DEF TypeOK
  <2>6. /\ intent'[o].status = "AWAITING_PAYMENT"
        /\ MatchedTo(o) = {} /\ intent[o].status \in Unpaid \cup {"NONE"}
        /\ HasIntent(o) => intent[o].expires <= intent'[o].expires
    BY <2>2, <2>4, <2>5
  <2>7. UNCHANGED <<now, chain, match, usage, worker>> /\ order' = [order EXCEPT ![o] = "AWAITING_PAYMENT"]
    BY <1>2 DEF RefreshQuote
  <2>8. /\ \A q \in OptionIds : option'[q] = option[q] \/ NewOption(o, q) \/ GivenBack(o, q)
        /\ quotes'[o] = quotes[o] + 1
        /\ \A p \in Orders : p # o => quotes'[p] = quotes[p]
    BY <1>2, RefreshQuoteOptions
  <2> QED
    BY <2>1, <2>2, <2>3, <2>6, <2>7, <2>8, QuoteSettlement
<1>3. ASSUME NEW o \in Orders, AdminNeedsReview(o)
      PROVE  Settlement'
  <2>1. UNCHANGED <<now, order, quotes, option, chain, match, usage, pc, batch, tx>>
    BY <1>3 DEF AdminNeedsReview, worker
  <2>2. ExactMatches' = ExactMatches /\ SettledOptions' = SettledOptions
        /\ \A e \in Events : IntentOf(e)' = IntentOf(e)
    BY <2>1 DEF ExactMatches, SettledOptions, IntentOf
  <2>3. /\ HasIntent(o)
        /\ \A p \in Orders : intent'[p].expires = intent[p].expires
        /\ \A p \in Orders : intent'[p].status = IF p = o THEN "NEEDS_REVIEW" ELSE intent[p].status
    BY <1>3 DEF AdminNeedsReview, TypeOK
  <2>4. \A q \in OptionIds : q.order \in Orders
    BY DEF OptionIds
  <2>5. RowsLive' /\ LinksLive'
    BY <2>1, <2>3, <2>4 DEF Settlement, RowsLive, LinksLive, HasIntent
  <2>6. PaidStands'
    BY <2>1, <2>2, <2>3 DEF Settlement, PaidStands, ExactMatches
  <2>7. PlanHolds'
    <3>1. (tx # NoTx /\ tx.plan.type \notin {"IGNORED", "UNDECIDED"}) => tx.plan.option.order \in Orders
      BY DEF TypeOK, Tx, Plan, OptionIds
    <3> QED
      BY <2>1, <2>3, <3>1 DEF Settlement, PlanHolds, ExactPlan, ExceptionPlan, Exceptions
  <2>8. ExactIsExactAndOnTime'
    <3>1. \A e \in ExactMatches : IntentOf(e) \in Orders
      BY DEF ExactMatches, IntentOf, TypeOK, Match, OptionIds
    <3> QED
      BY <2>1, <2>2, <2>3, <3>1 DEF Settlement, ExactIsExactAndOnTime, ExactMatches
  <2>9. UnpaidHasNoMatch' /\ MatchedAmountLocked'
    BY <2>1, <2>2, <2>3 DEF Settlement, UnpaidHasNoMatch, MatchedTo, MatchedAmountLocked, Unpaid
  <2>10. Counted'
    BY <2>1, <2>2 DEF Settlement, Counted, SettledByExactMatch
  <2> QED
    BY <2>5, <2>6, <2>7, <2>8, <2>9, <2>10 DEF Settlement
<1>4. CASE Tick
  <2>1. UNCHANGED <<intent, order, quotes, option, chain, match, usage, pc, batch, tx>> /\ now' = now + 1
    BY <1>4 DEF Tick, worker
  <2>2. ExactMatches' = ExactMatches /\ SettledOptions' = SettledOptions
    BY <2>1 DEF ExactMatches, SettledOptions
  <2>3. RowsLive' /\ LinksLive'
    BY <2>1 DEF Settlement, RowsLive, LinksLive, HasIntent, TypeOK
  <2>4. PlanHolds' /\ PaidStands'
    BY <2>1, <2>2 DEF Settlement, PlanHolds, ExactPlan, ExceptionPlan, PaidStands, IntentOf
  <2>5. ExactIsExactAndOnTime' /\ UnpaidHasNoMatch' /\ MatchedAmountLocked'
    BY <2>1, <2>2 DEF Settlement, ExactIsExactAndOnTime, IntentOf, UnpaidHasNoMatch, MatchedTo, MatchedAmountLocked
  <2>6. Counted'
    BY <2>1, <2>2 DEF Settlement, Counted, SettledByExactMatch
  <2> QED
    BY <2>3, <2>4, <2>5, <2>6 DEF Settlement
<1> QED
  BY <1>1, <1>2, <1>3, <1>4 DEF Api

\* The inductive invariant behind settlement.
LEMMA SettlementAlways == Spec => []SInv
<1>1. Init => SInv
  BY InitType, InitRecorded, InitSettlement DEF SInv, TInv
<1>2. SInv /\ TInv' /\ [Next]_vars => SInv'
  <2> SUFFICES ASSUME SInv, [Next]_vars PROVE Settlement'
    BY DEF SInv
  <2>1. CASE Tick \/ Api
    BY <2>1, ApiSettlement
  <2>2. CASE Ingest
    BY <2>2, WorkerSettlement, CommitIgnoredSettlement, CommitExceptionSettlement, CommitExactSettlement
       DEF Ingest
  <2>3. CASE Confirm
    BY <2>3, WorkerSettlement, ApplySettlement DEF Confirm
  <2>4. CASE Sweep
    BY <2>4, WorkerSettlement, SweepSettlement DEF Sweep
  <2>5. CASE WorkerRestart \/ UNCHANGED vars
    BY <2>5, WorkerSettlement
  <2> QED
    BY <2>1, <2>2, <2>3, <2>4, <2>5 DEF Next
<1> QED
  BY <1>1, <1>2, RecordedAlways, PTL DEF Spec

\* A late or approximate transfer is never an exact match, for any deadlines,
\* tolerances and amounts, even when a refresh commits during Ingest.
THEOREM ExactAlways == Spec => []ExactIsExactAndOnTime
<1>1. SInv => ExactIsExactAndOnTime
  BY DEF SInv, Settlement
<1> QED
  BY <1>1, SettlementAlways, PTL

\* No sweep, refresh or repeated creation makes an intent look unpaid that has
\* a transfer linked to it.
THEOREM UnpaidNoMatch == Spec => []UnpaidHasNoMatch
<1>1. SInv => UnpaidHasNoMatch
  BY DEF SInv, Settlement
<1> QED
  BY <1>1, SettlementAlways, PTL

\* The amount of an exact match stays locked while its quote is current, and
\* only exact matches lock amounts.
THEOREM MatchedLocked == Spec => []MatchedAmountLocked
<1>1. SInv => MatchedAmountLocked
  BY DEF SInv, Settlement
<1> QED
  BY <1>1, SettlementAlways, PTL

\* PAID is shown only while an exact match of the intent has the confirmations
\* its rail requires, however confirmations move and whatever admins do.
THEOREM PaidConfirmed == Spec => []PaidIsConfirmed
<1>1. SInv => PaidIsConfirmed
  BY DEF SInv, Settlement, PaidStands, PaidIsConfirmed
<1> QED
  BY <1>1, SettlementAlways, PTL

\* Only exact matches settle options, paid orders have a settled option, and
\* the usage counter misses no settlement.
THEOREM SettledExactly == Spec => []SettledByExactMatch
<1>1. SInv => SettledByExactMatch
  BY DEF SInv, Settlement, Counted
<1> QED
  BY <1>1, SettlementAlways, PTL

\* A reservation only moves forward, in every step of every behaviour.
THEOREM MovesForward == Spec => ReservationMovesForward
<1> DEFINE Forward(from, to) == <<from, to>> \in
             {<<"none", "active">>, <<"active", "matched">>, <<"active", "released">>,
              <<"active", "consumed">>, <<"matched", "consumed">>}
           Moves == \A q \in OptionIds : option[q].res = option'[q].res \/ Forward(option[q].res, option'[q].res)
<1>1. SInv /\ [Next]_vars => Moves
  <2> SUFFICES ASSUME SInv, [Next]_vars PROVE Moves
    OBVIOUS
  <2> USE DEF SInv, TInv
  <2>1. CASE option' = option
    BY <2>1
  <2>2. ASSUME NEW o \in Orders, CreateIntent(o)
        PROVE  Moves
    BY <2>2, CreateIntentOptions DEF NewOption, Settlement, RowsLive, TypeOK
  <2>3. ASSUME NEW o \in Orders, RefreshQuote(o)
        PROVE  Moves
    BY <2>3, RefreshQuoteOptions DEF NewOption, GivenBack, Settlement, RowsLive, TypeOK
  <2>4. CASE CommitExact
    <3> DEFINE q == tx.plan.option
    <3>1. q \in OptionIds /\ Locked(option, q) \in [OptionIds -> Option]
      BY <2>4, CommitPlan, LockedType DEF CommitExact, EndIngest, TypeOK
    <3>2. option' = Locked(option, q) \/ option' = Settled(Locked(option, q), q)
      BY <2>4 DEF CommitExact
    <3> QED
      BY <3>1, <3>2, LockedOption, SettledOption DEF HeldStatus
  <2>5. ASSUME NEW e \in Events, NEW c \in 0..MaxConf, Apply(e, c)
        PROVE  Moves
    <3> DEFINE q == match[e].option
    <3>1. q \in OptionIds
      BY <2>5 DEF Apply, Recorded, ExactMatches, TypeOK, Match
    <3>2. option' = option \/ option' = Settled(option, q)
      BY <2>5 DEF Apply
    <3> QED
      BY <3>1, <3>2, SettledOption DEF HeldStatus, TypeOK
  <2>6. CASE ReleaseReservations
    BY <2>6 DEF ReleaseReservations, TypeOK, Option
  <2> QED
    BY <2>1, <2>2, <2>3, <2>4, <2>5, <2>6
       DEF Next, vars, Tick, Api, AdminNeedsReview, Ingest, ReadHeld, ReadReleased, ReadNear, CommitIgnored,
           CommitException, Confirm, SelectBatch, SkipConfirmation, Sweep, StartSweep, ExpireIntents,
           ExpireOrders, SweepStatementFails, WorkerRestart
<1>2. Moves => [\A q \in OptionIds :
                  LET from == option[q].res
                      to   == option'[q].res
                  IN  from # to => Forward(from, to)]_option
  OBVIOUS
<1> QED
  BY <1>1, <1>2, SettlementAlways, PTL DEF Spec, ReservationMovesForward

-----------------------------------------------------------------------------
\* The refinement of PaymentLifecycle.

\* What the lifecycle sees of the tables.
Stage    == [o \in Orders |-> StageOf(intent[o].status)]
Credited == [o \in Orders |-> {e \in ExactMatches : IntentOf(e) = o}]

\* The stage each status stands for.
LEMMA StageOfStatus ==
  /\ StageOf("NONE") = "none"
  /\ \A s \in Unpaid : StageOf(s) = "unpaid"
  /\ \A s \in InFlight : StageOf(s) = "inflight"
  /\ StageOf("PAID") = "paid"
  /\ \A s \in Exceptions : StageOf(s) = "review"
BY DEF StageOf, Unpaid, InFlight, Exceptions

\* A step that changes the status of one intent changes its stage only.
LEMMA OneStage ==
  ASSUME NEW o \in Orders, \A p \in Orders : p # o => intent'[p].status = intent[p].status
  PROVE  Stage' = [Stage EXCEPT ![o] = StageOf(intent'[o].status)]
BY DEF Stage

\* A step that keeps the stages and links is invisible.
LEMMA Invisible ==
  ASSUME \A o \in Orders : StageOf(intent'[o].status) = StageOf(intent[o].status), UNCHANGED match
  PROVE  UNCHANGED Lifecycle!vars
<1>1. Stage' = Stage
  BY DEF Stage
<1>2. Credited' = Credited
  BY DEF Credited, ExactMatches, IntentOf
<1> QED
  BY <1>1, <1>2 DEF Lifecycle!vars, Stage, Credited

\* A commit of Ingest that credits no transfer leaves the credits alone.
LEMMA SameCredits ==
  ASSUME ExactMatches' = ExactMatches, \A e \in ExactMatches : match'[e] = match[e]
  PROVE  Credited' = Credited
BY DEF Credited, IntentOf

\* The API opens the payment of an order and may call for review; a refresh
\* and a repeated creation show as nothing.
LEMMA ApiRefines ==
  ASSUME SInv, Api
  PROVE  [Lifecycle!Next]_(Lifecycle!vars)
<1> USE DEF SInv, TInv
<1>1. ASSUME NEW o \in Orders, CreateIntent(o)
      PROVE  Lifecycle!Next \/ UNCHANGED Lifecycle!vars
  <2>1. UNCHANGED match
    BY <1>1 DEF CreateIntent
  <2>2. CASE HasIntent(o)
    <3>1. UNCHANGED intent
      BY <1>1, <2>2 DEF CreateIntent
    <3> QED
      BY <2>1, <3>1, Invisible
  <2>3. CASE ~HasIntent(o)
    <3>1. /\ intent'[o].status = "AWAITING_PAYMENT"
          /\ \A p \in Orders : p # o => intent'[p].status = intent[p].status
      BY <1>1, <2>3 DEF CreateIntent, TypeOK
    <3>2. Stage[o] = "none" /\ Stage' = [Stage EXCEPT ![o] = "unpaid"]
      BY <2>3, <3>1, OneStage, StageOfStatus DEF Stage, HasIntent, Unpaid
    <3>3. Credited' = Credited
      BY <2>1 DEF Credited, ExactMatches, IntentOf
    <3>4. Lifecycle!Open(o)
      BY <3>2, <3>3 DEF Lifecycle!Open, Stage, Credited
    <3> QED
      BY <3>4 DEF Lifecycle!Next
  <2> QED
    BY <2>2, <2>3
<1>2. ASSUME NEW o \in Orders, RefreshQuote(o)
      PROVE  UNCHANGED Lifecycle!vars
  <2>1. UNCHANGED match /\ intent[o].status \in Unpaid
    BY <1>2 DEF RefreshQuote, Refreshable
  <2>2. /\ intent'[o].status \in Unpaid
        /\ \A p \in Orders : p # o => intent'[p].status = intent[p].status
    BY <1>2 DEF RefreshQuote, TypeOK, Unpaid
  <2> QED
    BY <2>1, <2>2, Invisible, StageOfStatus
<1>3. ASSUME NEW o \in Orders, AdminNeedsReview(o)
      PROVE  Lifecycle!Next
  <2>1. UNCHANGED match /\ HasIntent(o)
    BY <1>3 DEF AdminNeedsReview
  <2>2. /\ intent'[o].status \in Exceptions
        /\ \A p \in Orders : p # o => intent'[p].status = intent[p].status
    BY <1>3 DEF AdminNeedsReview, TypeOK, Exceptions
  <2>3. Stage[o] # "none" /\ Stage' = [Stage EXCEPT ![o] = "review"]
    <3>1. intent[o].status \in IntentStatus
      BY <2>1 DEF TypeOK, HasIntent
    <3>2. StageOf(intent[o].status) # "none"
      BY <3>1, StageOfStatus DEF IntentStatus
    <3> QED
      BY <2>2, <3>2, OneStage, StageOfStatus DEF Stage
  <2>4. Credited' = Credited
    BY <2>1 DEF Credited, ExactMatches, IntentOf
  <2>5. Lifecycle!Escalate(o)
    BY <2>3, <2>4 DEF Lifecycle!Escalate, Stage, Credited
  <2> QED
    BY <2>5 DEF Lifecycle!Next
<1> QED
  BY <1>1, <1>2, <1>3 DEF Api

\* An exception calls for review, unless that was shown already.
LEMMA CommitExceptionRefines ==
  ASSUME SInv, CommitException
  PROVE  [Lifecycle!Next]_(Lifecycle!vars)
<1> USE DEF SInv, TInv
<1> DEFINE q == tx.plan.option
           o == q.order
<1>1. EndIngest /\ RecordMatch(tx.plan) /\ tx.plan.type \notin {"IGNORED", "EXACT", "UNDECIDED"}
  BY DEF CommitException, EndIngest, TypeOK
<1>2. /\ tx.event \in Events /\ tx # NoTx /\ q \in OptionIds /\ o \in Orders
      /\ match[tx.event] = NoMatch
      /\ match'[tx.event].type # "EXACT"
      /\ \A e \in Events : e # tx.event => match'[e] = match[e]
      /\ \A p \in Orders :
           intent'[p].status = IF tx.plan.next # "KEEP" /\ p = o THEN tx.plan.next ELSE intent[p].status
  BY <1>1, LinkStep DEF OptionIds
<1>3. option[q].status # "none" /\ ExceptionPlan(tx.plan)
  BY <1>1, <1>2 DEF Settlement, PlanHolds
<1>4. ExactMatches' = ExactMatches /\ \A e \in ExactMatches : match'[e] = match[e]
  BY <1>2 DEF ExactMatches
<1>5. Credited' = Credited
  BY <1>4, SameCredits
<1>6. intent'[o].status \in Exceptions /\ \A p \in Orders : p # o => intent'[p].status = intent[p].status
  BY <1>2, <1>3 DEF ExceptionPlan
<1>7. Stage[o] # "none"
  <2>1. intent[o].status \in IntentStatus
    BY <1>2, <1>3 DEF Settlement, RowsLive, HasIntent, TypeOK
  <2>2. StageOf(intent[o].status) # "none"
    BY <2>1, StageOfStatus DEF IntentStatus
  <2> QED
    BY <1>2, <2>2 DEF Stage
<1>8. Stage' = [Stage EXCEPT ![o] = "review"]
  BY <1>2, <1>6, OneStage, StageOfStatus
<1>9. Lifecycle!Escalate(o)
  BY <1>5, <1>7, <1>8 DEF Lifecycle!Escalate, Stage, Credited
<1> QED
  BY <1>2, <1>9 DEF Lifecycle!Next

\* An exact match credits a transfer that no order was credited with.
LEMMA CommitExactRefines ==
  ASSUME SInv, CommitExact
  PROVE  [Lifecycle!Next]_(Lifecycle!vars)
<1> USE DEF SInv, TInv
<1> DEFINE q == tx.plan.option
           o == q.order
<1>1. EndIngest /\ RecordMatch(tx.plan) /\ tx.plan.type = "EXACT"
  BY DEF CommitExact
<1>2. /\ tx.event \in Events /\ tx # NoTx /\ q \in OptionIds /\ o \in Orders
      /\ match[tx.event] = NoMatch /\ match'[tx.event] # NoMatch
      /\ match'[tx.event].option = q /\ match'[tx.event].type = "EXACT"
      /\ \A e \in Events : e # tx.event => match'[e] = match[e]
      /\ \A p \in Orders :
           intent'[p].status = IF tx.plan.next # "KEEP" /\ p = o THEN tx.plan.next ELSE intent[p].status
  BY <1>1, LinkStep DEF OptionIds
<1>3. ExactPlan(tx.plan, tx.row)
  BY <1>1, <1>2 DEF Settlement, PlanHolds
<1>4. /\ intent'[o].status \in InFlight \cup {"PAID"}
      /\ \A p \in Orders : p # o => intent'[p].status = intent[p].status
  BY <1>2, <1>3 DEF ExactPlan, InFlight
<1>5. Stage[o] \in {"unpaid", "review"}
  BY <1>2, <1>3, StageOfStatus DEF ExactPlan, Stage
<1>6. \E s \in {"inflight", "paid"} : Stage' = [Stage EXCEPT ![o] = s]
  BY <1>2, <1>4, OneStage, StageOfStatus
<1>7. \A p \in Orders : tx.event \notin Credited[p]
  BY <1>2 DEF Credited, ExactMatches
<1>8. Credited' = [Credited EXCEPT ![o] = @ \cup {tx.event}]
  <2>1. ASSUME NEW p \in Orders
        PROVE  Credited'[p] = IF p = o THEN Credited[o] \cup {tx.event} ELSE Credited[p]
    <3>1. \A e \in Events : e \in Credited'[p] <=> e \in Credited[p] \/ (e = tx.event /\ p = o)
      BY <1>2 DEF Credited, ExactMatches, IntentOf
    <3>2. Credited'[p] \subseteq Events /\ Credited[p] \subseteq Events
      BY DEF Credited, ExactMatches
    <3> QED
      BY <1>2, <3>1, <3>2
  <2>2. /\ Credited = [p \in Orders |-> Credited[p]]
        /\ Credited' = [p \in Orders |-> Credited'[p]]
    BY DEF Credited
  <2> QED
    BY <1>2, <2>1, <2>2
<1>9. PICK p \in Orders, d \in Events : p = o /\ d = tx.event
  BY <1>2
<1>10. Lifecycle!Credit(p, d)
  BY <1>5, <1>6, <1>7, <1>8, <1>9 DEF Lifecycle!Credit, Stage, Credited
<1> QED
  BY <1>10 DEF Lifecycle!Next

\* Confirmations move only orders that were credited a transfer.
LEMMA ApplyRefines ==
  ASSUME SInv, NEW e \in Events, NEW c \in 0..MaxConf, Apply(e, c)
  PROVE  [Lifecycle!Next]_(Lifecycle!vars)
<1> USE DEF SInv, TInv
<1> DEFINE o == IntentOf(e)
           next == AppliedStatus(e, c)
<1>1. UNCHANGED match /\ e \in ExactMatches /\ o \in Orders /\ match[e] # NoMatch
  BY DEF Apply, Recorded, ExactMatches, TypeOK, Match, OptionIds, IntentOf
<1>2. CASE UNCHANGED intent
  BY <1>1, <1>2, Invisible
<1>3. CASE intent' = [intent EXCEPT ![o].status = next] /\ ~Stands(intent[o].status, next)
  <2>1. next \in InFlight \cup {"PAID"}
    BY DEF AppliedStatus, InFlight
  <2>2. /\ intent'[o].status = next
        /\ \A p \in Orders : p # o => intent'[p].status = intent[p].status
    BY <1>1, <1>3 DEF TypeOK
  <2>3. \E s \in {"inflight", "paid"} : Stage' = [Stage EXCEPT ![o] = s]
    BY <1>1, <2>1, <2>2, OneStage, StageOfStatus
  <2>4. intent[o].status \in IntentStatus \cup {"NONE"} /\ intent[o].status \notin Unpaid \cup {"NONE", "PAID"}
    <3>1. intent[o].status # "PAID"
      BY <1>3 DEF Stands
    <3>2. e \in MatchedTo(o)
      BY <1>1 DEF MatchedTo, IntentOf
    <3>3. intent[o].status \notin Unpaid \cup {"NONE"}
      <4>1. match[e].option \in OptionIds /\ option[match[e].option].status # "none"
        BY <1>1 DEF Settlement, LinksLive, TypeOK, Match
      <4> QED
        BY <1>1, <3>2, <4>1 DEF Settlement, RowsLive, HasIntent, UnpaidHasNoMatch, IntentOf
    <3> QED
      BY <1>1, <3>1, <3>3 DEF TypeOK
  <2>5. Stage[o] \in {"inflight", "review"}
    <3>1. intent[o].status \in InFlight \cup Exceptions
      BY <2>4 DEF IntentStatus
    <3> QED
      BY <1>1, <3>1, StageOfStatus DEF Stage
  <2>6. Credited[o] # {} /\ Credited' = Credited
    BY <1>1 DEF Credited, ExactMatches, IntentOf
  <2>7. Lifecycle!Confirm(o)
    BY <2>3, <2>5, <2>6 DEF Lifecycle!Confirm, Stage, Credited
  <2> QED
    BY <1>1, <2>7 DEF Lifecycle!Next
<1> QED
  BY <1>2, <1>3 DEF Apply

\* Sweeps change how long an unpaid intent is shown as such, which the lifecycle
\* does not see, nor anything the worker reads.
LEMMA OthersInvisible ==
  ASSUME SInv,
         \/ Tick \/ SelectBatch \/ ReadReleased \/ ReadNear \/ CommitIgnored \/ Sweep \/ WorkerRestart
         \/ \E e \in Events : SkipConfirmation(e) \/ \E row \in Reportable : ReadHeld(e, row)
  PROVE  UNCHANGED Lifecycle!vars
<1> USE DEF SInv, TInv
<1>1. UNCHANGED match
  BY DEF Tick, SelectBatch, ReadReleased, ReadNear, CommitIgnored, Sweep, StartSweep, ExpireIntents,
         ReleaseReservations, ExpireOrders, SweepStatementFails, WorkerRestart, SkipConfirmation, ReadHeld
<1>2. CASE ExpireIntents
  <2>1. \A o \in Orders : \/ intent'[o].status = intent[o].status
                          \/ intent[o].status \in Unpaid /\ intent'[o].status \in Unpaid
    BY <1>2 DEF ExpireIntents, TypeOK, Unpaid
  <2> QED
    BY <1>1, <2>1, Invisible, StageOfStatus
<1>3. CASE UNCHANGED intent
  BY <1>1, <1>3, Invisible
<1> QED
  BY <1>2, <1>3
     DEF Tick, SelectBatch, ReadReleased, ReadNear, CommitIgnored, Sweep, StartSweep,
         ReleaseReservations, ExpireOrders, SweepStatementFails, WorkerRestart, SkipConfirmation, ReadHeld

\* Whatever quotes, transfers, confirmations, sweeps, restarts and admins do to
\* the tables, buyers and merchants see the lifecycle they are promised: money
\* comes only from transfers, each credited once, and is never lost sight of.
THEOREM RefinesLifecycle == Spec => ImplementsLifecycle
<1>1. Init => Lifecycle!Init
  <2> SUFFICES ASSUME Init PROVE Lifecycle!Init
    OBVIOUS
  <2>1. \A o \in Orders : StageOf(intent[o].status) = "none"
    BY StageOfStatus DEF Init
  <2>2. ExactMatches = {}
    BY DEF Init, ExactMatches
  <2> QED
    BY <2>1, <2>2 DEF Lifecycle!Init
<1>2. SInv /\ [Next]_vars => [Lifecycle!Next]_(Lifecycle!vars)
  <2> SUFFICES ASSUME SInv, [Next]_vars PROVE [Lifecycle!Next]_(Lifecycle!vars)
    OBVIOUS
  <2>1. CASE UNCHANGED vars
    BY <2>1, Invisible DEF vars
  <2> QED
    BY <2>1, ApiRefines, CommitExceptionRefines, CommitExactRefines, ApplyRefines, OthersInvisible
       DEF Next, Ingest, Confirm
<1> QED
  BY <1>1, <1>2, SettlementAlways, PTL DEF Spec, ImplementsLifecycle, Lifecycle!Spec

\* What the lifecycle implies holds of the tables: an order is paid or has a
\* payment in flight only if a transfer was credited to it, and no transfer was
\* credited to two orders.
THEOREM CreditedOnce == Spec => []Lifecycle!PaidByCredit
<1> DEFINE Earned  == \A o \in Orders : Stage[o] \in {"inflight", "paid"} => Credited[o] # {}
           Unshared == \A o, p \in Orders : Credited[o] \cap Credited[p] # {} => o = p
<1>1. Lifecycle!PaidByCredit <=> Earned /\ Unshared
  BY DEF Lifecycle!PaidByCredit, Stage, Credited
<1>2. Lifecycle!Init => Earned /\ Unshared
  BY DEF Lifecycle!Init, Stage, Credited
<1>3. Earned /\ Unshared /\ [Lifecycle!Next]_(Lifecycle!vars) => Earned' /\ Unshared'
  <2> SUFFICES ASSUME Earned, Unshared, [Lifecycle!Next]_(Lifecycle!vars)
               PROVE  Earned' /\ Unshared'
    OBVIOUS
  <2>1. Stage = [o \in Orders |-> Stage[o]] /\ Credited = [o \in Orders |-> Credited[o]]
    BY DEF Stage, Credited
  <2>2. ASSUME NEW o \in Orders, Stage' = [Stage EXCEPT ![o] = "unpaid"], Credited' = Credited
        PROVE  Earned' /\ Unshared'
    BY <2>1, <2>2
  <2>3. ASSUME NEW o \in Orders, Credited[o] # {} \/ Stage'[o] = "review", Credited' = Credited,
               \E s \in {"inflight", "paid", "review"} : Stage' = [Stage EXCEPT ![o] = s]
        PROVE  Earned' /\ Unshared'
    BY <2>1, <2>3
  <2>4. ASSUME NEW o \in Orders, NEW e \in Events, \A p \in Orders : e \notin Credited[p],
               Credited' = [Credited EXCEPT ![o] = @ \cup {e}],
               \E s \in {"inflight", "paid"} : Stage' = [Stage EXCEPT ![o] = s]
        PROVE  Earned' /\ Unshared'
    <3>1. Credited'[o] = Credited[o] \cup {e} /\ \A p \in Orders : p # o => Credited'[p] = Credited[p]
      BY <2>1, <2>4
    <3>2. \A p \in Orders : p # o => Stage'[p] = Stage[p]
      BY <2>1, <2>4
    <3>3. Earned'
      BY <3>1, <3>2
    <3>4. ASSUME NEW p \in Orders, NEW r \in Orders, NEW d, d \in Credited'[p], d \in Credited'[r]
          PROVE  p = r
      BY <2>4, <3>1, <3>4
    <3> QED
      BY <3>3, <3>4
  <2>5. CASE Lifecycle!Next
    <3>1. PICK o \in Orders : Lifecycle!Open(o) \/ Lifecycle!Confirm(o) \/ Lifecycle!Escalate(o)
                                \/ \E e \in Events : Lifecycle!Credit(o, e)
      BY <2>5 DEF Lifecycle!Next
    <3>2. CASE Lifecycle!Open(o)
      BY <2>2, <3>2 DEF Lifecycle!Open, Stage, Credited
    <3>3. CASE Lifecycle!Confirm(o)
      BY <2>3, <3>3 DEF Lifecycle!Confirm, Stage, Credited
    <3>4. CASE Lifecycle!Escalate(o)
      <4>1. Stage' = [Stage EXCEPT ![o] = "review"] /\ Credited' = Credited
        BY <3>4 DEF Lifecycle!Escalate, Stage, Credited
      <4>2. Stage'[o] = "review"
        BY <2>1, <4>1
      <4> QED
        BY <2>3, <4>1, <4>2
    <3>5. ASSUME NEW e \in Events, Lifecycle!Credit(o, e)
          PROVE  Earned' /\ Unshared'
      BY <2>4, <3>5 DEF Lifecycle!Credit, Stage, Credited
    <3> QED
      BY <3>1, <3>2, <3>3, <3>4, <3>5
  <2>6. CASE UNCHANGED Lifecycle!vars
    BY <2>6 DEF Lifecycle!vars, Stage, Credited
  <2> QED
    BY <2>5, <2>6
<1>4. Spec => Lifecycle!Spec
  BY RefinesLifecycle DEF ImplementsLifecycle
<1> QED
  BY <1>1, <1>2, <1>3, <1>4, PTL DEF Lifecycle!Spec
=============================================================================
