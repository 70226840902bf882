# Pooli in TLA+

A verification development kept beside Pooli: TLA+ modules translated from the
source, TLC runs that check them on small instances, and TLAPS proofs of what
matters most, for every value of the constants. `PROJECT.json` lists the
components, the runs, the source lines behind every definition, the mutants that
show each property can fail, the findings, the hazards and the theorems.

## The system

Pooli lets a merchant ask for a USDT payment on TRON or BNB Smart Chain without
holding the money. A Go API (`apps/api`, `internal/httpapi`) and a Go
chain-worker (`apps/chain-worker`) share one Postgres database; a TypeScript
action gateway (`apps/action-gateway`) lets an agent propose messages that an
operator confirms; a Next.js frontend (`apps/web`) is the page the buyer pays on
and the desk the merchant works at. The processes interact through the database,
HTTP calls, server-sent events, and the chains.

| Component | State | Operations | Hard behaviour | What makes it correct | Module |
|---|---|---|---|---|---|
| Amount reservations (`payment/reserve.go`) | `amount_reservations` | claim, release, lock, consume | concurrent claims, reuse of amounts given back | an amount on a rail belongs to one option at a time | `Payments` |
| Intents and quotes (`handlers_orders.go`, `handlers_public.go`) | `payment_intents`, `payment_options` | create, refresh | refresh during a payment, second creation | a recorded payment is never hidden | `Payments` |
| Matcher (`payment/matcher.go`) | `chain_events`, `matched_transactions` | ingest, apply confirmations | reads without locks, repeated deliveries, duplicates | PAID only by a confirmed exact transfer | `Payments` |
| Sweep (`expireIntents`) | the same tables | three statements | statements fail one by one | lapsed amounts come back, orders follow intents | `Payments` |
| Worker loop, BSC adapter (`apps/chain-worker`, `chain/evm.go`) | `watcher_cursors` | poll, deliver, save cursor, confirm | reorganisations, lagging nodes, lag past the catch-up limit | nothing but an ignored read error passes over a transfer silently | `BscWatcher` |
| Gaps, checkout health (`internal/ops`, `checkout_networks.go`) | `watcher_gaps` | gate, record, acknowledge | count and record are two statements | a snap spares the payments of live options | `BscWatcher` |
| Action gateway's domain (`action-gateway/src/domain`, `confirmation-api.ts`) | proposals, codes, limiter | propose, confirm, reject, execute | requests side by side, expiry, retries | one decision per proposal, told truthfully and executed | `Proposals` |
| Action gateway's transport (`oauth.mjs`, `server.mjs`, `mcp/server.ts`) | registrations, codes, tokens, two files, outbox | register, authorize, exchange, refresh, tools | overlap at `/token`, lost answers, restarts between memory and file | a token is exchanged once, a connection survives a restart | `Gateway` |
| The buyer's checkout page (`CheckoutClient.tsx`, `paymentPoll.ts`, public handlers) | the order as loaded, the option, a timer | load, poll, choose, refresh, submit details | answers out of order, lost or cut off; other tabs | what it offers is the current quote's | `Checkout` |
| Wallet handoff (`lib/payment-handoff`, `PooliPaySheet.tsx`) | sheet, provider, session | pick, pay, init, connect, switch chain, send | attempts side by side, a wallet that rejects, hangs or breaks its session | a broken session is replaced; a remembered wallet fits its network | `Handoff` |
| The merchant's desk (`app/app/orders`, `home`, `links`, `customers`, `admin`, `handlers_fulfillment.go`) | pages, calls, fulfillment, session | load, fulfil, suggest, decide, create, resolve | overlapping calls, other tabs, a session that changes hands | goods leave for paid orders; tenants stay apart; no button stays busy | `Desk` |
| The merchant's account (`login`, `register`, `onboarding`, `wallets`, `settings`, `otp/provider.go`, `handlers_wallets.go`, `handlers_telegram.go`, ...) | users, codes, slug, wallets, connect tokens | sign in, register, onboard, add, archive, connect | handlers that read and then write, other devices, redelivered updates | bounded guesses, names before opening, records of destinations | `Account` |
| SSE hub (`internal/sse`) | subscriptions | subscribe, publish | bounded queues | an event may be lost, polling tells | as an event of `Checkout` |
| TRON adapter (`chain/tron.go`) | timestamp cursor | observe, verify | overlap, paging | every transfer of an address is read | not modelled |
| Notifications (`internal/notify`, `commerce_hooks.go`) | `notification_deliveries` | emit, claim, send, mark | crash between commit, claim and send | at most one delivery per event | not modelled |
| Rates (`internal/rate`) | cached quote | fetch, fall back | stale quotes | no intent is priced with a stale quote | not modelled |
| Email, configuration, messages and marketing text, evaluations, deployment | | | | | not modelled |

## Modules

`PaymentLifecycle` is the abstract promise: an order is unpaid, in flight, paid
or under review, and only a credited transfer moves it on from unpaid.

`Payments` is the tables and all their writers: one action per API transaction
(`CreateIntent`, `RefreshQuote`, `AdminNeedsReview`) and per worker step. An
ingest is the only transaction split in two: its reads run at READ COMMITTED
without row locks, so `ReadHeld`, `ReadReleased` and `ReadNear` decide from what
they see, and `CommitIgnored`, `CommitException` or `CommitExact` writes later;
API transactions may commit in between. The refresh locks its rows `FOR UPDATE`
and is one step. `ApplyConfirmations` is one step although it too reads without
a lock: its writes do not depend on a value that the API changes between them.
The three statements of `expireIntents` are three actions, each of which may fail
alone. `WorkerRestart` rolls back an open ingest and forgets the batch.
`Lifecycle` instantiates `PaymentLifecycle`, with the status mapped to its stage
and the exact matches of an order as its credited transfers.

`BscWatcher` is what stands in front of it for BNB Smart Chain: blocks,
reorganisations and lagging nodes (the environment), the window of blocks a poll
asks for, the snap over blocks given up on with its gate, the delivery of what
was found, the cursor, the confirmation of stored transfers, and checkout, which
withholds the network while the watcher is unhealthy. Each transfer pays an
option of its own; matching is reduced to the status of that option.
`pollNetwork` ignores the errors of two reads, and so does the model: a poll may
be blind (`StartPoll` with `blind`: the cursor could not be read, the poll starts
cold and looks neither at the lag nor at the gate) and may watch some of the
wallets only (`watched`: nobody asks `rows.Err()`). `PassedOver` is what such a
poll loses; the history `passed` collects it. `VerifyTransfer` takes the block of
the receipt and measures it below a new head or, if the head cannot be had, keeps
the confirmations the log came with (`Verified`). Every call may be answered by a
node that lags (`Tips`, also for the logs).

`Proposals` is the action gateway's domain and the routes over it. Every
operation of `registry.ts` reads the store, awaits, and then decides and writes
without another await, so each is two actions (`StartConfirm` and one of
`ConfirmExpired`, `ConfirmRefused`, `ConfirmAccepted`, and so on) and the calls
of other requests come between. `call[c]` is what a request holds across that
await. The confirm route goes on to clear the limiter and execute. The clock is
read once to compare the deadline and again to stamp the entry (`Date.now()` in
`applied`), so `Swap` lets time pass between the two; a refusal of `confirm`
looks at the deadline a second time and may find the proposal expired by then
(`LateExpiry`).

`Gateway` is the same process seen from the agent: registrations, codes and
refresh tokens in memory, the two files, requests at `/token` and tool calls at
`/mcp`. An exchange is two steps, `Redeem` (the grant is burned before anything
else is checked) and `Issue`, because it awaits the signature; `WriteFails` is an
`Issue` whose file cannot be written. A registration whose file cannot be written
stays in memory (`Register`), and a request may leave out its client, which only
a client that is named and wrong makes fail (`Present`, `Redeem`). `Stop` loses memory and requests at any
await, `Boot` reads the files. `Lose` loses a request or its answer, and the
integration presents what it holds again. A tool call is `CallTool`,
`FetchSnapshot`, `Propose`, `Notify`, `ToolEnds`, with the order moving between.

`Checkout` is the page of one order against the API. `calls` is what is under
way: `Answer` is the server's handler, `Deliver` what the page makes of the
answer, `CutBody` an answer whose body cannot be read (`api()` hands on `{}`),
`Fail` a failure or the 15-second timeout. The worker, the clock, other tabs and
the health of networks move the order. A step of the page is a state update with
the render and the effects React runs for it.

`Handoff` is the pay sheet: attempts to pay that may overlap, the WalletConnect
provider they share (`cached`, `init`), and sessions that are opened, refused,
broken and dropped. `Respond` is whatever a wallet answers to the step an attempt
has reached.

`Desk` is one tab of the merchant's: `tab` is the page and its state, `calls` the
calls under way. `ReadForPatch` and `WritePatch` are the two statements of the
fulfillment handler. Other tabs patch, decide, sign in and out.

`Account` is the account's pages and handlers in the same style; the handlers
that read before they write (codes, wallets, registration, the webhook) do so in
two steps, with other devices and redelivered updates in between. Other devices
also archive and reactivate wallets by `PATCH` (`is_active`), which keeps the
default flag, and a registration may end without its session (`MakeMerchant`).

`MCPayments`, `MCBscWatcher`, `MCProposals`, `MCCheckout`, `MCHandoff`,
`MCGateway`, `MCDesk` and `MCAccount` hold the instances. The modules `*Proofs`
hold the theorems. A definition `X_Suffix` before `X` is a mutant: the same
definition with a plausible bug, which the property named in `PROJECT.json`
detects.

The modules compose at their interfaces: what `BscWatcher` stores is what
`Payments` may ingest, the statuses of `Payments` are the moves of `Checkout`'s
worker and of `Desk`'s money, `Proposals` decides what `Gateway` proposed, and
`Desk` shows what `Proposals` decided. Each assumes less of the others than they
promise: any status at any time, any answer lost, any event missed.

### Abstractions

- An option is identified by its order, the number of its quote and its rail; a
  rail is a destination address, network and token. Amounts are small numbers;
  the random offsets of `ClaimUniqueReservation` are a set.
- `orders.expires_at` may be NULL: a deadline beyond `MaxTime`.
- The watcher is over-approximated in `Payments`: it may report any transfer of
  `PaidAmounts` any number of times, in any order, with any confirmations, and
  run confirmation passes and sweeps in any order that the loop allows. The
  limits of a pass (50 rows) and of a lookup (5 rows) are not modelled.
- The simulator's endpoints and a second ingesting worker are not modelled.
- In `BscWatcher` the set of wallets is fixed, each transfer goes to one of its
  own, and an option has one transfer.
- In `Proposals` a digest stands for its payload, a link code is right or wrong
  and right only once it was delivered, and requests name proposals that exist.
  A retry whose key is found changes nothing and is no step. `registry.fail` has
  no caller. The clock may stand still between two readings but does not go back.
- In `Gateway` a file is written in one step, PKCE and signatures succeed or the
  grant is refused, and access tokens are one flag that lapses.
- In `Checkout`, equal calls under way count once; an event of the SSE hub is a
  load that may start at any time, or never; field contents, copying, QR codes,
  analytics and text are left out. The buyer's clock is taken to agree with the
  server's, and the statements of one answer to see the order at one moment: an
  intent and options read on either side of a refresh are not told apart.
- In `Handoff` there is one EVM chain, so `chain` is a step that a wallet may
  refuse; the QR code and analytics are left out; `missing_project_id` cannot be
  reached from the sheet; outside a mobile browser the sheet offers no button.
- In `Desk` the skeletons of reloads, sharing, the timeline and greetings are
  left out; the message gateway is configured or not (`World`).
- In `Account` addresses are model values on one network, field contents are
  abstracted to what handlers check, and the wait between codes, hourly limits,
  password hashes and OAuth's state parameter only refuse and are left out. A
  merchant's row and the row of its owner are made in one step: a merchant
  without an owner belongs to nobody and no handler finds it.

## Runs and bounds

| Run | Question | Instance |
|---|---|---|
| `payments_reuse` | Can an amount belong to two options, or a transfer match late or inexactly? | two orders on one rail, one candidate amount: every claim collides |
| `payments_refresh` | Can a refresh, sweep or second creation hide or lose a payment? Is PAID always confirmed and exact? Do the tables implement the lifecycle? | one order, two rails, two quotes, two transfers, falling confirmations |
| `payments_live` | Do amounts, payments in flight and orders make progress? | one order, one rail, two transfers, `FairSpec` |
| `bsc_watcher` | Is a transfer ever passed over silently, but for a read whose error is ignored? Do snaps spare live options? Is PAID deep? Does the cursor catch up? | one transfer, four blocks, overlap 1, span 1, catch-up limit 2, a head that may be revised, nodes one block behind, polls that miss the cursor or the wallet, `FairSpec` (204 000 states) |
| `bsc_vanished` (violation) | Does a transfer that a reorganisation removed still settle? | one transfer, seven blocks |
| `bsc_lost` (violation) | Do blocks stay unread without a gap although snaps are forbidden? | one transfer, five blocks, `AllowSnap` false |
| `proposals_races` | Do concurrent confirmations, rejections, retries and expiries leave one decision per proposal, taken in time? | two requests at a time, two ids, one key, two contents, two attempts per window, a life of two windows, `FairSpec` |
| `checkout` | Can the page offer a superseded amount, ask for money before details, or go on showing an order as payable? | two networks, one of them flaky, two quotes, two calls under way, `FairSpec` (360 000 states) |
| `handoff` | Is a broken session replaced, and a remembered wallet one of its network? | two options, two browsers, two attempts, two providers, `FairSpec` |
| `gateway` | Are codes and tokens exchanged once, does a connection survive restarts, are claims of payment true? | two registrations, a code, two refresh tokens, two requests, a tool call, one proposal (4.5 million states under symmetry) |
| `desk` | Do goods leave for paid orders only, do tenants stay apart, does every button come back? | one order, two merchants, two calls, two worlds: one with message drafts, one with money, other tabs and changing sessions (463 000 states) |
| `account` | Are guesses bounded, shops named, records kept, links used once, and does every part of a page come back? | nine worlds, each a situation with its pages and what others do; two wallets, one link, two chats, two guesses, two codes, two calls (438 000 states) |

The bounds are named in the modules (`MaxQuotes`, `MaxTime`, `MaxConf`,
`MaxUsage`, `MaxHead`, `MaxProposals`, `MaxCalls`, `MaxCodes`, `MaxAttempts`, and
the sets of attempts, providers, requests, codes and tokens). They are enough for
what the properties tell apart: two quotes give a superseded and a current one;
two transfers give a first match and a duplicate; time reaches past a deadline,
the late window and the sweep; four blocks with a catch-up limit of two and
a span of one give cold starts, overlaps, full windows, snaps and polls that miss their cursor; one
transfer is enough there, since transfers do not meet in the watcher but through
the gate, which counts the options of all, and the proofs are for any number; two requests at a time that come again
give every pair of races, a retry that finds its key taken, and more attempts
than the limiter grants; two calls under way overtake each other; two refresh
tokens give a used and a rotated one, and a restart between any two writes. The
worlds of `desk` and `account` part situations that do not meet (a merchant who
registers has no wallets yet), because their product does not fit a run.

The findings:

- `bsc_vanished`: ADR-006 says that a log that disappears before finality does
  not settle; `ConfirmationStatus` subtracts the stored block from the head and
  does not ask for the receipt again, so it does.
- `bsc_lost`: `config.go:76` says that `BSC_ALLOW_CURSOR_SNAP` must stay false
  until a gap audit is done and that blocks are skipped only after a
  `watcher_gaps` row. `main.go:192` discards the error of reading the cursor. The
  poll then starts `ColdLookback` blocks below the head and saves a cursor past
  everything the old one had still to read, with no row and no error. In the run
  the cursor goes from block 2 to block 5 and block 2 is read by nobody.

### Where code and documents are known to differ

These were met while modelling; the models contain the behaviour as the code has
it, and no run states the sentence that is not kept:

- A second exact transfer after settlement is stored without a link
  (`matcher.go:145`; ADR-002 calls a duplicate an exception state). After a
  duplicate, the first match is not advanced any more.
- A transfer made in time and ingested after the sweep released its reservation
  is not associated (`matcher.go:276`).
- A snap counts active options only, so it may skip the payment of an option
  that the same worker expired meanwhile (`gaps.go:47`).
- The pilot's guide (`docs/bsc-mainnet-pilot.md:107`) says `confirmations =
  latestBlock - txBlock + 1`. `VerifyTransfer` takes the block of the receipt
  and, when `eth_blockNumber` fails, keeps the confirmations of the log
  (`evm.go:305-311`). A transfer whose log was deep enough in an older block and
  that a reorganisation has put into a later one is then paid at a depth below
  the required one. It takes a failed call and a reorganisation as deep as the
  confirmations, of which production asks at least twelve (`config.go:282`). The
  model does it with `ReorgDepth = Confirmations = 2`; the run and `PaidDeep` are
  about chains that revise fewer blocks.
- The page recomputes the digest of a proposal without the merchant, so approval
  in the app stays disabled (`lib/action-gateway.ts:95`).
- Registering by phone verifies the code twice, and the second verification is
  refused (`register/page.tsx:103`).
- The page's polling ends at EXPIRED, although the intent may still become
  LATE_PAYMENT (`paymentPoll.ts:11`); a body that is cut off is handed on as an
  empty order and breaks the page (`lib/api.ts:21`).
- After a failure that is not a rejection the next handoff is tried, also when
  the transfer had been broadcast (`evm.ts:159`).
- A lost answer to a token rotation costs the connection (`oauth.mjs:314`); a
  retry of a proposal whose code was not delivered is told that it was
  (`internal-api.ts:83`); a deduplicated proposal keeps its text while the answer
  shows the new draft (`handlers_suggest_followup.go:87`).
- Overlapping patches leave a timeline that is not a path of allowed
  transitions (`handlers_fulfillment.go:115`); the answer of a patch and a load
  race (`orders/[id]/page.tsx:184`).
- An order may be priced at a wallet that is archived between the check and the
  update (`handlers_wallets.go:184`); two requests may leave two default wallets
  (`:93`). `RecordsKept` is what does hold: no record is lost.
- A user made without its merchant is not completed (`auth.go:130`); a crash
  between recording a Telegram update and using its token loses the connection
  (`handlers_telegram.go:131`).
- Saving the store before its fields were loaded wipes them
  (`settings/store/page.tsx:42`); resolving as administrator shows an error after
  it succeeded (`admin/page.tsx:56`).

Exposed to, but neither modelled nor covered: the idle drift and the paging limit
of the TRON cursor (`tron.go:107`, `:136`), deliveries claimed and not sent
(`delivery.go:13`), transitions lost by a crash after their commit
(`matcher.go:467`), the two age limits of a cached rate (`rate/cache.go:33`), a
torn write of an OAuth file (`oauth.mjs:116`), a proposal retried across the edge
of its minute (`mcp/server.ts:55`), proposals forgotten at a restart
(`store.ts:41`), orders created twice by a merchant who retries
(`create/page.tsx:93`), calls to the gateway and uploads without a timeout
(`lib/action-gateway.ts:50`, `lib/api.ts:37`), and two sessions from one code
(`otp/provider.go:139`).

### Fairness

`Payments`: the loop of `apps/chain-worker/main.go:118` runs a sweep and a
confirmation pass on each tick, errors are logged and the loop goes on, and the
process is restarted by its supervisor. So an open ingest goes on (weak
fairness), and sweeps, selections and the application of sufficient
confirmations happen infinitely often where they are possible infinitely often
(strong fairness: a restart or an error may disable them for a while). Nothing is
assumed of buyers or admins.

`BscWatcher`: polls are made and go on, unpaid options lapse, and steps of a sound
poll (`Sound`: it has read the cursor and every wallet and was told the head) are
taken infinitely often where they are possible infinitely often. Without the
last assumption a node that always lags, or a call that always fails, stops the
watcher. Nothing is assumed of the chain. With several
transfers a payment in flight also holds a snap back until it is confirmed, which
takes new blocks; the run has one. `ReadEventually` needs a window that reaches
beyond its overlap: with `BSC_MAX_LOG_RANGE` below the overlap of 32 blocks the
cursor never advances, and the configuration does not refuse it.

`Proposals`: the event loop goes on with each request it took. Nothing is
assumed of agents or humans.

`Checkout`: `api()` aborts each call after 15 seconds, so some call ends as long
as any is under way (weak fairness of `CallEnds`); the tab is visible again and
again, so the poller ticks (strong fairness of `Tick`); and loads are not lost
for ever (strong fairness of their answer and arrival), without which no page
could ever be told.

`Handoff`: wallets and relays resolve or reject at last, and so does the
initialisation of a provider. Nothing is assumed of the buyer, nor that a wallet
agrees.

`Desk` and `Account`: `api()` ends every call, so the calls that keep a page busy
end (weak fairness of `OwnCallEnds`, in `Account` for each flag and for reads and
writes apart). The mini app uses `fetch` without a timeout and the upload of a
logo has none: `BusyEnds` leaves both out. `Gateway` has safety properties alone.

## Proofs

Every theorem holds for all constants that satisfy the module's
`ConstantsAssumption`, `PaidDeep` and `NothingSkipped` under a further assumption
each on reorganisations and nodes, and is proved by an inductive invariant with a lemma for
each action or for a group of actions that disturb the same part of it.

Every invariant, every action property and the refinement that a run checks is
the subject of a theorem; what a run shows on its instance holds for any number
of orders, transfers, requests, calls and, under the assumptions named, settings.

`PaymentsProofs`
- `TypeCorrect`: `Spec => []TypeOK`. `TypeOK` alone is not inductive: applying
  confirmations updates a stored row only because a linked transfer is stored
  and the batch holds linked transfers. `Recorded` adds that, and
  `TInv == TypeOK /\ Recorded` is inductive (`RecordedAlways`).
- `HeldUnique`: `Spec => []HeldAmountUnique`. A quote takes amounts nobody holds
  on their rails (`InsertUnique`), superseding, locking, settling and releasing
  make no reservation held that was not (`HoldsLess`), and a table that holds
  less keeps uniqueness.
- `ExactAlways`, `UnpaidNoMatch`, `MatchedLocked`, `PaidConfirmed` and
  `SettledExactly`, the five invariants about money. They hold each other up, so
  they are proved together, as parts of `SInv == TInv /\ Settlement`. What
  `Settlement` adds: only an option that is ACTIVE holds an active reservation,
  one never made holds none, and an EXPIRED intent is past its deadline
  (`RowsLive`); only options that were made are linked (`LinksLive`); and above
  all `PlanHolds`, what an ingest decided is still so when it writes. Its reads take no locks, so this rests on what the API may
  write in between: a refresh takes an amount away only from an intent that is
  unpaid, which the commit looks at again, and a deadline that moves only moves
  on. `PaidStands` says that a PAID order has a confirmed match outside the batch
  the worker still has to write, so no later write can lower it, and `Counted`
  adds to `SettledByExactMatch` that there are finitely many settled options.
- `MovesForward`: the action property `ReservationMovesForward`, from `SInv`.
- `RefinesLifecycle`: `Spec => Lifecycle!Spec`. Every action is a step of one
  order's lifecycle or invisible to it; `UnpaidNoMatch` is what makes an order
  leave unpaid by a credit alone, and the uniqueness of links what lets a
  transfer be credited once. `CreditedOnce` carries the abstract invariant over.

`BscWatcherProofs`
- `TypeCorrect`.
- `PaidDeep`: `ReorgDepth < Confirmations` implies `Spec => []PaidIsDeep`. `Deep`
  adds the rows of payments in flight (a node that lags only reports a smaller
  depth) and `LogsAreDeep`: a log that came with enough confirmations is on the
  chain, that deep, and too deep to be revised, so that its confirmations may be
  kept when no new head can be had. Without the assumption the theorem is false
  (see above).
- `SnapSparesLive`: `[]SnapSparesLiveOptions`. `Spared` puts blocks for
  transfers: a payment is mined after the head at which its option was made
  (`PaidAfterBorn`), blocks given up, or about to be, are on the chain already
  (`SkipsThePast`), and once the gate has counted they are no later than the birth
  of any live option (`LiveAreYounger`): so an option that is made while the gap
  is being recorded is safe.
- `NothingSkipped`: `ReorgDepth <= Overlap` and `NodeLag <= Overlap` imply
  `Spec => []NothingSkippedSilently`, where `passed` excuses what a poll lost that
  could not read its cursor or all its wallets, and nothing else. `Covered` says where the leftovers may be
  while a poll runs: nothing behind the cursor is unaccounted for
  (`BehindCursor`), the blocks between cursor and window are in a gap before the
  logs are read (`SkipRecorded`), what the window held is being delivered
  (`InWindow`), and neither poll nor cursor is ahead of the chain (`NotAhead`),
  so that a block the chain revises is one the next poll reads again
  (`ReadAgain`). The assumption is the setting the overlap is there for: without
  it a transfer may move to a block the cursor has passed, or be asked of a node
  that has not got its block yet.

`ProposalsProofs` proves, for any number of requests, proposals, keys and
attempts, `TypeCorrect`, `ReadsPast` (`[]ReadsArePast`), `OnePerKey`
(`[]OneProposalPerKey`) and `OutcomeFinal` (the action property
`OutcomeIsFinal`). The inductive invariant is `IInv`, their conjunction:
`OneProposalPerKey` alone says nothing of a swap that writes a proposal read long
ago, and `ReadsArePast` says that if the version still matches, that proposal is
the stored one. `SameStore` and `Swapped` show it kept by the two kinds of steps
(`InsertStep` is the third), and `NextStoreStep` derives what a step may do to
the store. On it rest three more:
- `TrailLegal` (`[]TrailIsLegal`): `Trails` is kept since a write appends one
  entry to the stored proposal, legal from its state and not before the entries
  that are there; an expiry is stamped after the deadline was found to be past. A
  confirmation may be stamped at the deadline or after it, so that nothing is said
  of its stamp.
- `InTime` (`DecidedInTime`): what is promised of the deadline is that a human's
  decision begins before it. The action that writes the decision is the one that
  compared, so no invariant is needed but the version, which makes what was read
  what is stored.
- `AnswersStand` (`[]AnswersHold`): `Decided` says that what a request decided
  is upheld by the store as long as it may still answer, and that no two requests
  decided the same proposal: only one swap won.
- `GuessesLimited` (`[]GuessesBounded`): `Budgets` counts, for each proposal, the
  codes compared with the requests that were counted and have not compared yet,
  against what the windows so far have granted, and places the reset of the
  running window against the proposal's deadline, which bounds how many windows
  there were. The count of the running window alone is not enough, since a request
  counted in one may compare in the next.

`GatewayProofs` proves `TypeCorrect`, `OneExchange` (`[]ExchangedOnce`),
`ConnectionKept` (`[]ConnectionSurvives`) and `PaidIsTrue`
(`[]PaidClaimsAreTrue`), whenever the process stops. The invariant is about who
may still know a token: a grant is gone from memory while its successor is signed
and by one request only (`Burning`); one that was exchanged is gone from the file
too, so that no restart brings it back (`Spent`: `Issue` writes what memory
holds); a token that only an answer or the integration knows is in the file and,
while the process runs, in memory (`Safe`); who is registered in the file is so
in memory, and the integration knows of a registration only that is in the file
(`Known`); and what was compared with the order was so (`Checked`).

`CheckoutProofs` proves `TypeCorrect`, `CurrentIsOffered`
(`[]SupersededNeverOffered`) and `DetailsFirst` (`[]DetailsComeFirst`) for any
number of networks, quotes and calls. `OrderInv` says that replaced quotes and
expired ones have lapsed, `CallsFit` that every answer on its way is in the past
of the order, and `PageInv` that the page's option is one the order has had: an
option of the past whose quote has not lapsed is one of the present. The steps of
the server only move the order on (`Onward`), so the page may stay behind.

`AccountProofs` proves `RecordsStay` (`[]RecordsKept`), `NamedFirst`
(`[]NamedBeforeOpen`) and `OneChatPerLink` (`[]LinkConnectsOnce`). `CallsEarned`
says what a call between its two steps implies of the shop, `TabInv` that the
onboarding is at its wallets only under a name, `Fresh` that a token that can
still be used has connected nobody. `GuessesLimited` (`[]GuessesBounded`) is
about the race in `Verify`, which reads the tries and raises them later:
`Tallied` adds to the tries on the books one for each check that has read a code
and not written yet, and `Few` bounds the checks there are at once, since none
starts but where there is room. A check that reads does so below the limit, one
that writes turns a reader into a try, and so the sum never reaches the limit
with all calls on top. `TypeCorrect` (`[]TypeOK`) needs that bound, and what the
calls of each kind are about (`CallOK`).

`DeskProofs` proves `TypeCorrect` (`[]TypeOK`), `EarnedAlways`
(`[]EarnedFulfillment`) and `TenantsStayApart` (`[]TenantsApart`). A patch reads
in one step and writes in another, so the invariant says what the call in
between stands for (`Entitled`: an order it may ship was paid, one it may call
delivered was shipped, both for good) and whose it is (`Owned`: orders do not
change hands, whoever signs in meanwhile); `Placed` and `PageOK` are the shapes
of calls and page.

`HandoffProofs` proves `TypeCorrect` (`[]TypeOK`, by which no request is made of
a missing provider) and `PreferenceFits` (`[]PreferenceFitsNetwork`) for any
number of attempts and providers. The strengthening, `WaitsForFitting`, says that
an attempt that waits does so for WalletConnect or Trust and for an option that
is not on TRON, for the sheet may show another by the time the wallet answers.

Only model-checked: liveness (`LapsedIsReleased`, `InFlightResolves`,
`OrderFollowsIntent`, `ReadEventually`, `ConfirmedIsExecuted`, `StopIsNoticed`,
`BrokenIsReplaced`, and `BusyEnds` of `Desk` and of `Account`), since the prover
does not reason about fairness or enabledness here. The type invariants of
`Payments`, `BscWatcher`, `Proposals`, `Gateway`, `Checkout` and `Desk` are proved and not
checked again by the runs.

## Not modelled

The TRON adapter: its cursor is a timestamp and its pages TronGrid's, so a model
would rest on an external service's ordering that the code does not state.
Notifications: no state of the modelled parts depends on them. Rates: orders are
priced at a constant. Email, templates, the model provider's text, configuration,
the migration command, translations and marketing pages: formatting, one external
call, or text. The single-row settings of the merchant are in `Account` as far as
a page can be left busy by them. `PROJECT.json` gives the status of each part.

## What is left

1. `TronWatcher`: timestamp cursor, overlap and paging.
2. `Notify`: transitions after commit, claimed deliveries, retries and crashes,
   composed with the transitions of `Payments`.
3. An abstract specification of one decision that `Proposals` implements.
4. Proofs for what 1 to 3 add, and safety lemmas the liveness runs rest on: in
   which states an ingest, a sweep or a call that ends is still possible.
