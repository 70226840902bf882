------------------------------ MODULE Payments ------------------------------
(***************************************************************************)
(* Payment settlement of Pooli: the Postgres tables that hold orders,      *)
(* payment intents, payment options with their amount reservations, chain  *)
(* events and matched transactions, and every writer of them:              *)
(*   - the API (create an intent, refresh a quote, admin review),          *)
(*   - the chain-worker (Matcher.Ingest, Matcher.ApplyConfirmations and    *)
(*     the three statements of expireIntents).                             *)
(* Transactions run at READ COMMITTED without row locks in the matcher, so *)
(* an ingest is modelled as its reads followed by one committing write;    *)
(* API transactions may commit in between.                                 *)
(***************************************************************************)
EXTENDS Naturals, FiniteSets

CONSTANTS
  Orders,       \* orders, each with at most one payment intent
  Rails,        \* (destination address, network, token) triples
  Events,       \* identities of on-chain transfers (chain_events.event_id)
  RailsOf,      \* RailsOf[o]: the rails of the wallets of o's merchant
  Bases,        \* USDT base amounts a rate quote may produce
  PaidAmounts,  \* amounts a transfer may carry
  Required,     \* Required[r]: confirmations a rail asks for
  Tries,        \* sequential candidates base+1 .. base+Tries of a claim
  FarOffsets,   \* offsets a claim draws at random once those are taken
  Near,         \* near-miss tolerance in base units
  QuoteTTL,     \* lifetime of a quote
  LateWindow,   \* how long after expiry a released exact transfer is linked
  OrderExpiry,  \* OrderExpiry[o]: orders.expires_at
  NoRow,        \* absent chain_events row
  NoMatch,      \* absent matched_transactions row
  NoTx,         \* no ingest transaction open
  MaxQuotes,    \* bound: quotes per order
  MaxTime,      \* bound: clock
  MaxConf,      \* bound: confirmations reported
  MaxUsage      \* bound: settlements after which admins no longer intervene

VARIABLES
  now,     \* clock
  intent,  \* payment_intents: status and expires_at per order
  order,   \* orders.status
  quotes,  \* number of quotes (batches of payment_options) made for an order
  option,  \* payment_options joined with their amount_reservations row
  chain,   \* chain_events
  match,   \* matched_transactions
  usage,   \* usage_counters.verified_payments
  pc,      \* where the worker loop stands
  batch,   \* rows advanceConfirmations selected and has not applied yet
  tx       \* the worker's open Ingest transaction: event and decision

worker == <<pc, batch, tx>>
vars == <<now, intent, order, quotes, option, chain, match, usage, pc, batch, tx>>

-----------------------------------------------------------------------------
OptionIds == [order: Orders, quote: 1..MaxQuotes, rail: Rails]

InFlight     == {"SEEN", "CONFIRMING"}
Unpaid       == {"CREATED", "AWAITING_PAYMENT", "EXPIRED"}
Exceptions   == {"UNDERPAID", "OVERPAID", "LATE_PAYMENT", "NEEDS_REVIEW", "DUPLICATE_PAYMENT"}
IntentStatus == Unpaid \cup InFlight \cup {"PAID"} \cup Exceptions
OrderStatus  == {"CREATED", "AWAITING_PAYMENT", "PAID", "EXPIRED"}
OptionStatus == {"none", "ACTIVE", "SUPERSEDED", "SETTLED"}
ResStatus    == {"none", "active", "matched", "released", "consumed"}
MatchType    == {"EXACT", "DUPLICATE_PAYMENT", "LATE_PAYMENT", "AMBIGUOUS",
                 "UNDERPAID", "OVERPAID", "ROUNDED"}
HeldStatus   == {"active", "matched"}
PCs          == {"watch", "late", "near", "commit", "intents", "reservations", "orders"}

Option == [status: OptionStatus, amount: Nat, res: ResStatus, expires: Nat]
Row    == [rail: Rails, amount: Nat, at: Nat, confs: Nat]
Match  == [option: OptionIds, type: MatchType]
\* What an Ingest decided from what it read; "KEEP" writes no status.
Plan   == [option: OptionIds, type: MatchType, next: IntentStatus \cup {"KEEP"}]
            \cup [type: {"IGNORED", "UNDECIDED"}]
Tx     == [event: Events, row: Row, plan: Plan]

ASSUME ConstantsAssumption ==
  /\ IsFiniteSet(Orders) /\ IsFiniteSet(Rails) /\ IsFiniteSet(Events)
  /\ RailsOf \in [Orders -> SUBSET Rails]
  /\ Required \in [Rails -> Nat \ {0}]
  /\ OrderExpiry \in [Orders -> Nat]
  /\ Bases \subseteq Nat /\ PaidAmounts \subseteq Nat /\ FarOffsets \subseteq Nat
  /\ {Tries, Near, QuoteTTL, LateWindow, MaxQuotes, MaxTime, MaxConf, MaxUsage} \subseteq Nat
  /\ NoRow \notin Row /\ NoMatch \notin Match /\ NoTx \notin Tx

NoOption  == [status |-> "none", amount |-> 0, res |-> "none", expires |-> 0]
Ignored   == [type |-> "IGNORED"]
Undecided == [type |-> "UNDECIDED"]
HasIntent(o) == intent[o].status # "NONE"

Init ==
  /\ now = 0
  /\ intent = [o \in Orders |-> [status |-> "NONE", expires |-> 0]]
  /\ order = [o \in Orders |-> "CREATED"]
  /\ quotes = [o \in Orders |-> 0]
  /\ option = [q \in OptionIds |-> NoOption]
  /\ chain = [e \in Events |-> NoRow]
  /\ match = [e \in Events |-> NoMatch]
  /\ usage = 0
  /\ pc = "watch" /\ batch = {} /\ tx = NoTx

-----------------------------------------------------------------------------
\* Reservations.

\* Mutant: the index before migration 000003, over active reservations only.
HeldIn_ActiveOnly(table, r, a) ==
  \E q \in OptionIds : q.rail = r /\ table[q].res = "active" /\ table[q].amount = a

\* The partial unique index: an active or matched reservation has the amount.
HeldIn(table, r, a) ==
  \E q \in OptionIds : q.rail = r /\ table[q].res \in HeldStatus /\ table[q].amount = a

\* Amounts ClaimUniqueReservation may come back with for one rail.
Claimable(table, r, base) ==
  LET free(S)  == {a \in S : ~HeldIn(table, r, a)}
      sequence == free((base + 1)..(base + Tries))
  IN  IF sequence # {}
      THEN {a \in sequence : \A b \in sequence : a <= b}
      ELSE free({base + d : d \in FarOffsets})

\* insertPaymentOptions: one ACTIVE option with a claimed amount per rail of R.
WithQuote(table, o, R, amounts, expires) ==
  [q \in OptionIds |->
     IF q.order = o /\ q.quote = quotes[o] + 1 /\ q.rail \in R
     THEN [status |-> "ACTIVE", amount |-> amounts[q.rail], res |-> "active", expires |-> expires]
     ELSE table[q]]

\* R is what is left of the offered networks; none left rolls back (errNoWallets).
InsertPaymentOptions(table, o, expires) ==
  /\ quotes[o] < MaxQuotes
  /\ \E R \in SUBSET RailsOf[o] \ {{}}, base \in Bases :
       \E amounts \in [R -> UNION {Claimable(table, r, base) : r \in R}] :
         /\ \A r \in R : amounts[r] \in Claimable(table, r, base)
         /\ option' = WithQuote(table, o, R, amounts, expires)
  /\ quotes' = [quotes EXCEPT ![o] = @ + 1]

-----------------------------------------------------------------------------
\* API transactions.

Earlier(s, t) == IF s < t THEN s ELSE t

\* createPaymentIntentForOrder. For an order that has an intent already the
\* INSERT keeps that row, but the order and the options are written all the same.
CreateIntent(o) ==
  /\ LET expires == Earlier(now + QuoteTTL, OrderExpiry[o])
     IN  /\ InsertPaymentOptions(option, o, expires)
         /\ intent' = IF HasIntent(o) THEN intent
                      ELSE [intent EXCEPT ![o] = [status |-> "AWAITING_PAYMENT", expires |-> expires]]
  /\ order' = [order EXCEPT ![o] = "AWAITING_PAYMENT"]
  /\ UNCHANGED <<now, chain, match, usage, worker>>

MatchedTo(o) == {e \in Events : match[e] # NoMatch /\ match[e].option.order = o}

\* Mutant: exception states do not block a refresh, nor do linked transfers.
Refreshable_IgnoresExceptions(o) ==
  /\ intent[o].status \in Unpaid \cup Exceptions
  /\ intent[o].status = "EXPIRED" \/ intent[o].expires < now

\* What handlePublicRefreshQuote re-validates under its row lock.
Refreshable(o) ==
  /\ intent[o].status \in Unpaid
  /\ intent[o].status = "EXPIRED" \/ intent[o].expires < now
  /\ MatchedTo(o) = {}

\* The old quote's options once their amounts are given back.
Superseded(o) ==
  [q \in OptionIds |->
     IF q.order # o THEN option[q]
     ELSE [option[q] EXCEPT
             !.res = IF option[q].status # "SETTLED" /\ @ = "active" THEN "released" ELSE @,
             !.status = IF @ = "ACTIVE" THEN "SUPERSEDED" ELSE @]]

RefreshQuote(o) ==
  /\ Refreshable(o)
  /\ InsertPaymentOptions(Superseded(o), o, now + QuoteTTL)
  /\ intent' = [intent EXCEPT ![o] = [status |-> "AWAITING_PAYMENT", expires |-> now + QuoteTTL]]
  /\ order' = [order EXCEPT ![o] = "AWAITING_PAYMENT"]
  /\ UNCHANGED <<now, chain, match, usage, worker>>

\* handleAdminResolve with action needs_review; the other actions only audit.
AdminNeedsReview(o) ==
  /\ HasIntent(o)
  /\ usage < MaxUsage
  /\ intent' = [intent EXCEPT ![o].status = "NEEDS_REVIEW"]
  /\ UNCHANGED <<now, order, quotes, option, chain, match, usage, worker>>

Tick ==
  /\ now < MaxTime
  /\ now' = now + 1
  /\ UNCHANGED <<intent, order, quotes, option, chain, match, usage, worker>>

-----------------------------------------------------------------------------
\* Matcher.Ingest: the reads, then one committing write.

\* Reservations with the transfer's destination, network, token and amount.
Exactly(row, statuses) ==
  {q \in OptionIds : /\ q.rail = row.rail
                     /\ option[q].amount = row.amount
                     /\ option[q].res \in statuses}

StatusFor(row) == IF row.confs >= Required[row.rail] THEN "PAID"
                  ELSE IF row.confs > 0 THEN "CONFIRMING" ELSE "SEEN"

\* The lookup prefers an active reservation over a matched one.
HeldFor(row) == IF Exactly(row, {"active"}) # {} THEN Exactly(row, {"active"})
                ELSE Exactly(row, {"matched"})

\* Already locked or paid: the second transfer is a duplicate.
IsDuplicate(q) == option[q].res = "matched" \/ intent[q.order].status \in InFlight \cup {"PAID"}

DuplicatePlan(q) ==
  LET status == intent[q.order].status
      next   == IF status \in InFlight THEN "NEEDS_REVIEW" ELSE "DUPLICATE_PAYMENT"
  IN  [option |-> q, type |-> "DUPLICATE_PAYMENT",
       next |-> IF next = status THEN "KEEP" ELSE next]

\* Mutant: the deadline is not compared with the transfer's time.
HeldPlan_NoDeadline(q, row) ==
  IF IsDuplicate(q) THEN DuplicatePlan(q)
  ELSE [option |-> q, type |-> "EXACT", next |-> StatusFor(row)]

HeldPlan(q, row) ==
  IF IsDuplicate(q) THEN DuplicatePlan(q)
  ELSE IF row.at > intent[q.order].expires
       THEN [option |-> q, type |-> "LATE_PAYMENT", next |-> "LATE_PAYMENT"]
       ELSE [option |-> q, type |-> "EXACT", next |-> StatusFor(row)]

\* chain_events has no row with this event_id yet (ON CONFLICT DO NOTHING).
Fresh(e) == chain[e] = NoRow

\* The watcher delivers a verified transfer; a replayed one changes nothing.
ReadHeld(e, row) ==
  /\ pc = "watch" /\ batch = {}
  /\ Fresh(e)
  /\ \/ \E q \in HeldFor(row) :
          /\ tx' = [event |-> e, row |-> row, plan |-> HeldPlan(q, row)]
          /\ pc' = "commit"
     \/ /\ HeldFor(row) = {}
        /\ tx' = [event |-> e, row |-> row, plan |-> Undecided]
        /\ pc' = "late"
  /\ UNCHANGED <<now, intent, order, quotes, option, chain, match, usage, batch>>

\* Released reservations whose reconcile window holds the transfer's time.
LateCandidates(row) ==
  {q \in Exactly(row, {"released"}) :
     /\ intent[q.order].status # "PAID"
     /\ option[q].expires <= row.at
     /\ row.at <= option[q].expires + LateWindow}

Decide(plan, next) == tx' = [tx EXCEPT !.plan = plan] /\ pc' = next

\* reconcileReleasedExact: one candidate is linked, several are left unmatched.
ReadReleased ==
  /\ pc = "late"
  /\ LET found == LateCandidates(tx.row)
     IN  \/ found = {} /\ Decide(Undecided, "near")
         \/ \E q \in found :
              /\ found = {q}
              /\ Decide([option |-> q, type |-> "LATE_PAYMENT", next |-> "LATE_PAYMENT"], "commit")
         \/ Cardinality(found) > 1 /\ Decide(Ignored, "commit")
  /\ UNCHANGED <<now, intent, order, quotes, option, chain, match, usage, batch>>

Distance(a, b) == IF a < b THEN b - a ELSE a - b

NearCandidates(row) ==
  {q \in OptionIds : /\ q.rail = row.rail
                     /\ option[q].res = "active"
                     /\ Distance(option[q].amount, row.amount) <= Near
                     /\ intent[q.order].status \in {"CREATED", "AWAITING_PAYMENT"} \cup InFlight}

NearPlan(q, row) ==
  IF row.amount < option[q].amount
  THEN [option |-> q, type |-> "UNDERPAID", next |-> "UNDERPAID"]
  ELSE IF row.amount > option[q].amount
       THEN [option |-> q, type |-> "OVERPAID", next |-> "OVERPAID"]
       ELSE [option |-> q, type |-> "ROUNDED", next |-> "NEEDS_REVIEW"]

\* handleUnmatched: a near miss becomes an exception, never a settlement.
ReadNear ==
  /\ pc = "near"
  /\ LET found == NearCandidates(tx.row)
         off(q) == Distance(option[q].amount, tx.row.amount)
     IN  \/ found = {} /\ Decide(Ignored, "commit")
         \/ \E q \in found :
              /\ found = {q}
              /\ Decide(NearPlan(q, tx.row), "commit")
         \/ /\ Cardinality(found) > 1
            /\ \E q \in found :
                 /\ \A p \in found : off(q) <= off(p)
                 /\ Decide([option |-> q, type |-> "AMBIGUOUS", next |-> "NEEDS_REVIEW"], "commit")
  /\ UNCHANGED <<now, intent, order, quotes, option, chain, match, usage, batch>>

\* Mutant: the amount is not locked until settlement.
Locked_Never(table, q) == table

\* Mutant: the lock does not ask for an active reservation.
Locked_Unguarded(table, q) == [table EXCEPT ![q].res = "matched"]

\* Lock the payable amount: matched is not settled.
Locked(table, q) == [table EXCEPT ![q].res = IF @ = "active" THEN "matched" ELSE @]

\* Mutant: only the reservation is settled.
Settled_ReservationOnly(table, q) ==
  [table EXCEPT ![q].res = IF @ \in HeldStatus THEN "consumed" ELSE @]

\* settlePaid on the option.
Settled(table, q) == [table EXCEPT ![q].res = IF @ \in HeldStatus THEN "consumed" ELSE @,
                                   ![q].status = "SETTLED"]

\* settlePaid on the order and the merchant's usage counter.
SettleOrder(o) == order' = [order EXCEPT ![o] = "PAID"] /\ usage' = usage + 1

EndIngest ==
  /\ pc = "commit" /\ pc' = "watch"
  /\ tx' = NoTx
  /\ chain' = [chain EXCEPT ![tx.event] = tx.row]
  /\ UNCHANGED <<now, quotes, batch>>

RecordMatch(plan) ==
  /\ match' = [match EXCEPT ![tx.event] = [option |-> plan.option, type |-> plan.type]]
  /\ intent' = IF plan.next = "KEEP" THEN intent
               ELSE [intent EXCEPT ![plan.option.order].status = plan.next]

CommitIgnored ==
  /\ EndIngest
  /\ tx.plan.type = "IGNORED"
  /\ UNCHANGED <<intent, order, option, match, usage>>

CommitException ==
  /\ EndIngest
  /\ tx.plan.type \notin {"IGNORED", "EXACT"}
  /\ RecordMatch(tx.plan)
  /\ UNCHANGED <<order, option, usage>>

CommitExact ==
  /\ EndIngest
  /\ tx.plan.type = "EXACT"
  /\ RecordMatch(tx.plan)
  /\ LET q == tx.plan.option
     IN  \/ /\ tx.plan.next = "PAID"
            /\ option' = Settled(Locked(option, q), q)
            /\ SettleOrder(q.order)
         \/ /\ tx.plan.next # "PAID"
            /\ option' = Locked(option, q)
            /\ UNCHANGED <<order, usage>>

-----------------------------------------------------------------------------
\* advanceConfirmations and Matcher.ApplyConfirmations.

ExactMatches == {e \in Events : match[e] # NoMatch /\ match[e].type = "EXACT"}
IntentOf(e)  == match[e].option.order

\* Mutant: only transfers without confirmations yet are advanced.
Advancing_SeenOnly == {e \in ExactMatches : intent[IntentOf(e)].status = "SEEN"}

\* The rows the worker selects before it asks the chain about each of them.
Advancing == {e \in ExactMatches : intent[IntentOf(e)].status \in InFlight}

SelectBatch ==
  /\ pc = "watch" /\ batch = {}
  /\ Advancing # {}
  /\ batch' = Advancing
  /\ UNCHANGED <<now, intent, order, quotes, option, chain, match, usage, pc, tx>>

\* Mutant: one confirmation too few settles.
AppliedStatus_OffByOne(e, c) ==
  IF c + 1 >= Required[chain[e].rail] THEN "PAID" ELSE "CONFIRMING"

AppliedStatus(e, c) ==
  IF c >= Required[chain[e].rail] THEN "PAID" ELSE "CONFIRMING"

\* The status is read again, but only PAID and the target itself stop the update.
Stands(status, next) == status \in {"PAID", next}

Apply(e, c) ==
  LET o    == IntentOf(e)
      next == AppliedStatus(e, c)
  IN  /\ e \in batch
      /\ batch' = batch \ {e}
      /\ chain' = [chain EXCEPT ![e].confs = c]
      /\ \/ /\ Stands(intent[o].status, next)
            /\ UNCHANGED <<intent, order, option, usage>>
         \/ /\ ~Stands(intent[o].status, next)
            /\ intent' = [intent EXCEPT ![o].status = next]
            /\ \/ /\ next = "PAID"
                  /\ option' = Settled(option, match[e].option)
                  /\ SettleOrder(o)
               \/ next # "PAID" /\ UNCHANGED <<order, option, usage>>
      /\ UNCHANGED <<now, quotes, match, pc, tx>>

\* The chain did not answer or the transaction failed: logged and skipped.
SkipConfirmation(e) ==
  /\ e \in batch
  /\ batch' = batch \ {e}
  /\ UNCHANGED <<now, intent, order, quotes, option, chain, match, usage, pc, tx>>

-----------------------------------------------------------------------------
\* expireIntents: three statements, each its own transaction.

StartSweep ==
  /\ pc = "watch" /\ batch = {}
  /\ pc' = "intents"
  /\ UNCHANGED <<now, intent, order, quotes, option, chain, match, usage, batch, tx>>

\* Mutant: intents whose payment is in flight expire too.
ExpireIntents_InFlight ==
  /\ pc = "intents" /\ pc' = "reservations"
  /\ intent' = [o \in Orders |->
       IF intent[o].status \in {"CREATED", "AWAITING_PAYMENT"} \cup InFlight /\ intent[o].expires < now
       THEN [intent[o] EXCEPT !.status = "EXPIRED"] ELSE intent[o]]
  /\ UNCHANGED <<now, order, quotes, option, chain, match, usage, batch, tx>>

ExpireIntents ==
  /\ pc = "intents" /\ pc' = "reservations"
  /\ intent' = [o \in Orders |->
       IF intent[o].status \in {"CREATED", "AWAITING_PAYMENT"} /\ intent[o].expires < now
       THEN [intent[o] EXCEPT !.status = "EXPIRED"] ELSE intent[o]]
  /\ UNCHANGED <<now, order, quotes, option, chain, match, usage, batch, tx>>

\* Mutant: only reservations of expired intents are released.
ReleaseReservations_ExpiredIntents ==
  /\ pc = "reservations" /\ pc' = "orders"
  /\ option' = [q \in OptionIds |->
       IF option[q].res = "active" /\ option[q].expires < now /\ intent[q.order].status = "EXPIRED"
       THEN [option[q] EXCEPT !.res = "released"] ELSE option[q]]
  /\ UNCHANGED <<now, intent, order, quotes, chain, match, usage, batch, tx>>

ReleaseReservations ==
  /\ pc = "reservations" /\ pc' = "orders"
  /\ option' = [q \in OptionIds |->
       IF option[q].res = "active" /\ option[q].expires < now
       THEN [option[q] EXCEPT !.res = "released"] ELSE option[q]]
  /\ UNCHANGED <<now, intent, order, quotes, chain, match, usage, batch, tx>>

\* Mutant: orders follow their own deadline only.
ExpireOrders_OwnDeadline ==
  /\ pc = "orders" /\ pc' = "watch"
  /\ order' = [o \in Orders |->
       IF order[o] = "AWAITING_PAYMENT" /\ HasIntent(o) /\ OrderExpiry[o] < now
       THEN "EXPIRED" ELSE order[o]]
  /\ UNCHANGED <<now, intent, quotes, option, chain, match, usage, batch, tx>>

ExpireOrders ==
  /\ pc = "orders" /\ pc' = "watch"
  /\ order' = [o \in Orders |->
       IF /\ order[o] = "AWAITING_PAYMENT" /\ HasIntent(o)
          /\ intent[o].status = "EXPIRED" \/ OrderExpiry[o] < now
       THEN "EXPIRED" ELSE order[o]]
  /\ UNCHANGED <<now, intent, quotes, option, chain, match, usage, batch, tx>>

\* The error of a sweep statement is dropped and the next statement runs.
SweepStatementFails ==
  /\ \/ pc = "intents" /\ pc' = "reservations"
     \/ pc = "reservations" /\ pc' = "orders"
     \/ pc = "orders" /\ pc' = "watch"
  /\ UNCHANGED <<now, intent, order, quotes, option, chain, match, usage, batch, tx>>

\* The worker stops and starts again, or an ingest transaction rolls back.
WorkerRestart ==
  /\ pc' = "watch" /\ batch' = {} /\ tx' = NoTx
  /\ UNCHANGED <<now, intent, order, quotes, option, chain, match, usage>>

-----------------------------------------------------------------------------
\* Transfers the watcher may report now.
Reportable == [rail: Rails, amount: PaidAmounts, at: 0..now, confs: 0..MaxConf]

Api == \E o \in Orders : CreateIntent(o) \/ RefreshQuote(o) \/ AdminNeedsReview(o)

Ingest ==
  \/ \E e \in Events, row \in Reportable : ReadHeld(e, row)
  \/ ReadReleased \/ ReadNear
  \/ CommitIgnored \/ CommitException \/ CommitExact

Confirm ==
  \/ SelectBatch
  \/ \E e \in Events : SkipConfirmation(e) \/ \E c \in 0..MaxConf : Apply(e, c)

Sweep == StartSweep \/ ExpireIntents \/ ReleaseReservations \/ ExpireOrders \/ SweepStatementFails

Next == Tick \/ Api \/ Ingest \/ Confirm \/ Sweep \/ WorkerRestart

Spec == Init /\ [][Next]_vars

\* The loop runs a sweep and a confirmation pass on every tick and goes on after
\* a restart; statements and RPC calls do not fail for ever, and the chain
\* confirms what it included.
Fairness ==
  /\ WF_vars(ReadReleased \/ ReadNear \/ CommitIgnored \/ CommitException \/ CommitExact)
  /\ SF_vars(StartSweep) /\ SF_vars(ExpireIntents)
  /\ SF_vars(ReleaseReservations) /\ SF_vars(ExpireOrders)
  /\ SF_vars(SelectBatch)
  /\ \A e \in Events : SF_vars(Apply(e, MaxConf))

FairSpec == Spec /\ Fairness

-----------------------------------------------------------------------------
\* Properties.

\* Every table row has the shape the migrations give it; the worker's
\* transaction is open exactly while it is inside Ingest, and decided when it
\* writes.
TypeOK ==
  /\ now \in Nat /\ usage \in Nat
  /\ intent \in [Orders -> [status: IntentStatus \cup {"NONE"}, expires: Nat]]
  /\ order \in [Orders -> OrderStatus]
  /\ quotes \in [Orders -> Nat]
  /\ option \in [OptionIds -> Option]
  /\ chain \in [Events -> Row \cup {NoRow}]
  /\ match \in [Events -> Match \cup {NoMatch}]
  /\ pc \in PCs /\ batch \subseteq Events
  /\ tx \in Tx \cup {NoTx}
  /\ tx = NoTx <=> pc \in {"watch", "intents", "reservations", "orders"}
  /\ pc = "commit" => tx.plan.type # "UNDECIDED"

\* The payable amount of an option belongs to it alone while it is awaited or
\* awaiting confirmations, whatever is refreshed, swept or claimed concurrently:
\* otherwise one transfer could pay either of two orders.
HeldAmountUnique ==
  \A p, q \in OptionIds :
    /\ {option[p].res, option[q].res} \subseteq HeldStatus
    /\ p.rail = q.rail /\ option[p].amount = option[q].amount
    => p = q

\* A transfer pays an option only with its very amount on its very rail, and
\* only if it was made by the deadline its intent has: a late or approximate
\* transfer is never an EXACT match, even when a refresh commits during Ingest.
ExactIsExactAndOnTime ==
  \A e \in ExactMatches :
    /\ chain[e].rail = match[e].option.rail
    /\ chain[e].amount = option[match[e].option].amount
    /\ chain[e].at <= intent[IntentOf(e)].expires

\* PAID is reached only through a verified transfer: some EXACT match of the
\* intent carries at least the confirmations its rail requires, however the
\* confirmations read from the chain move and whatever admins did meanwhile.
PaidIsConfirmed ==
  \A o \in Orders : intent[o].status = "PAID" =>
    \E e \in ExactMatches : IntentOf(e) = o /\ chain[e].confs >= Required[chain[e].rail]

\* An intent that shows as unpaid has no transfer linked to it: no sweep, no
\* refresh and no second intent creation hides money that was recorded.
UnpaidHasNoMatch ==
  \A o \in Orders : intent[o].status \in Unpaid => MatchedTo(o) = {}

\* An option is settled, and a reservation consumed, only by an EXACT match on
\* that option, every settlement reached the merchant's usage counter, and an
\* order shows as paid only if one of its options was settled.
SettledByExactMatch ==
  /\ \A q \in OptionIds :
       /\ option[q].res = "consumed" => option[q].status = "SETTLED"
       /\ option[q].status = "SETTLED" => \E e \in ExactMatches : match[e].option = q
  /\ Cardinality({q \in OptionIds : option[q].status = "SETTLED"}) <= usage
  /\ \A o \in Orders : order[o] = "PAID" =>
       \E q \in OptionIds : q.order = o /\ option[q].status = "SETTLED"

\* A reservation only moves forward: an amount given back or consumed is never
\* held again by the same option, and one locked by a payment in flight is
\* never given back by the sweep or by a quote refresh.
ReservationMovesForward ==
  [][\A q \in OptionIds :
       LET from == option[q].res
           to   == option'[q].res
       IN  from # to => <<from, to>> \in
             {<<"none", "active">>, <<"active", "matched">>, <<"active", "released">>,
              <<"active", "consumed">>, <<"matched", "consumed">>}]_option

\* While the quote that a transfer matched exactly is current, its amount stays
\* locked until settlement, and nothing else locks an amount.
MatchedAmountLocked ==
  /\ \A e \in ExactMatches : option[match[e].option].status = "ACTIVE" =>
       option[match[e].option].res = "matched"
  /\ \A q \in OptionIds : option[q].res = "matched" =>
       \E e \in ExactMatches : match[e].option = q

\* The amount of a lapsed reservation is eventually given back or locked by a
\* payment: abandoned checkouts do not exhaust the amounts near a price.
LapsedIsReleased ==
  \A q \in OptionIds :
    (option[q].res = "active" /\ option[q].expires < now) ~> option[q].res # "active"

\* A payment in flight does not stay there: it is settled or escalated.
InFlightResolves ==
  \A o \in Orders : intent[o].status \in InFlight ~> intent[o].status \notin InFlight

\* An order does not keep waiting for payment behind an expired intent.
OrderFollowsIntent ==
  \A o \in Orders :
    (order[o] = "AWAITING_PAYMENT" /\ intent[o].status = "EXPIRED")
      ~> (order[o] # "AWAITING_PAYMENT" \/ intent[o].status # "EXPIRED")

-----------------------------------------------------------------------------
\* Payments implements the lifecycle a buyer and a merchant are promised.

StageOf(status) ==
  CASE status = "NONE"         -> "none"
    [] status \in Unpaid       -> "unpaid"
    [] status \in InFlight     -> "inflight"
    [] status = "PAID"         -> "paid"
    [] status \in Exceptions   -> "review"

Lifecycle == INSTANCE PaymentLifecycle WITH
  stage    <- [o \in Orders |-> StageOf(intent[o].status)],
  credited <- [o \in Orders |-> {e \in ExactMatches : IntentOf(e) = o}]

\* Every behaviour of the tables is one the lifecycle allows: each step is a
\* step of one order's lifecycle or invisible to it.
ImplementsLifecycle == Lifecycle!Spec

=============================================================================
