----------------------------- MODULE BscWatcher -----------------------------
(***************************************************************************)
(* How the chain-worker reads BNB Smart Chain: the block cursor kept in    *)
(* watcher_cursors, the window of blocks each poll asks for, the snap over *)
(* blocks it gives up on with its gate and its watcher_gaps rows, the      *)
(* delivery of the transfers it found, and the checkout that is withheld   *)
(* while the watcher is unhealthy. Each transfer of the model pays an      *)
(* option of its own; what the matcher does with a transfer is the subject *)
(* of Payments and is reduced here to the status of that option.           *)
(***************************************************************************)
EXTENDS Naturals, FiniteSets

CONSTANTS
  Transfers,      \* transfers to the watched wallets, one per option
  Overlap,        \* blocks read again before the cursor
  Span,           \* BSC_MAX_LOG_RANGE
  MaxCatchup,     \* BSC_MAX_CATCHUP_BLOCKS
  ColdLookback,   \* blocks read before the head without a usable cursor
  Confirmations,  \* BSC_CONFIRMATIONS
  AllowSnap,      \* BSC_ALLOW_CURSOR_SNAP
  ReorgDepth,     \* blocks from the head that the chain may revise
  NodeLag,        \* blocks a node behind the RPC URL may be behind the head
  NoCursor,       \* no watcher_cursors row
  NoPoll,         \* no poll under way
  MaxHead         \* bound: last block

VARIABLES
  head,     \* last block of the chain
  mined,    \* block of each transfer, 0 while it is not on the chain
  option,   \* status of the option each transfer pays
  born,     \* head when that option was made
  cursor,   \* watcher_cursors.cursor_value: next block to read
  stale,    \* the cursor row is older than WATCHER_STALE_SECONDS
  since,    \* first block the watcher ever read (history)
  gaps,     \* watcher_gaps
  stored,   \* chain_events.block_number of each transfer, 0 without a row
  dropped,  \* transfers found by a poll that failed to verify or ingest (history)
  passed,   \* transfers a poll passed over because a read of it failed (history)
  pc,       \* where pollNetwork stands
  poll      \* the poll under way: window, skipped blocks, transfers found

chain == <<head, mined>>
shop  == <<option, born>>
cursors == <<cursor, stale, since>>
lost == <<dropped, passed>>
vars == <<chain, shop, cursors, gaps, stored, lost, pc, poll>>

-----------------------------------------------------------------------------
Blocks  == 1..MaxHead
PCs     == {"idle", "count", "record", "logs", "deliver"}
OptionStatus == {"none", "checked", "live", "inflight", "paid", "lapsed"}
Gap     == [blocks: SUBSET Blocks, open: BOOLEAN]
Poll    == [blind: BOOLEAN, watched: SUBSET Transfers, tip: Nat,
            from: Nat, to: Nat, skipped: SUBSET Nat,
            found: SUBSET Transfers, confs: [Transfers -> Nat]]

ASSUME ConstantsAssumption ==
  /\ {Overlap, MaxCatchup, ColdLookback, ReorgDepth, NodeLag} \subseteq Nat
  /\ {Span, Confirmations, MaxHead} \subseteq Nat \ {0}
  /\ AllowSnap \in BOOLEAN
  /\ NoCursor \notin Nat /\ NoPoll \notin Poll

Init ==
  /\ head = 1 /\ mined = [t \in Transfers |-> 0]
  /\ option = [t \in Transfers |-> "none"] /\ born = [t \in Transfers |-> 0]
  /\ cursor = NoCursor /\ stale = FALSE /\ since = NoCursor
  /\ gaps = {} /\ stored = [t \in Transfers |-> 0] /\ dropped = {} /\ passed = {}
  /\ pc = "idle" /\ poll = NoPoll

-----------------------------------------------------------------------------
\* The chain.

NewBlock ==
  /\ head < MaxHead
  /\ head' = head + 1
  /\ UNCHANGED <<mined, shop, cursors, gaps, stored, lost, pc, poll>>

Unsettled == {b \in Blocks : b <= head /\ head - b < ReorgDepth}

\* The buyer's transfer shows up in a recent block.
Mine(t) ==
  /\ option[t] \in {"live", "inflight", "paid", "lapsed"}
  /\ mined[t] = 0
  /\ \E b \in Unsettled : b > born[t] /\ mined' = [mined EXCEPT ![t] = b]
  /\ UNCHANGED <<head, shop, cursors, gaps, stored, lost, pc, poll>>

\* A reorganisation removes it; it may be mined again.
Reorg(t) ==
  /\ mined[t] \in Unsettled
  /\ mined' = [mined EXCEPT ![t] = 0]
  /\ UNCHANGED <<head, shop, cursors, gaps, stored, lost, pc, poll>>

\* Heads an RPC node may report: nodes behind one URL lag the head.
Tips == {h \in Blocks : h <= head /\ head - h <= NodeLag}

Depth(h, b) == IF h < b THEN 0 ELSE h - b + 1

-----------------------------------------------------------------------------
\* Checkout.

OpenGaps == {g \in gaps : g.open}

\* effectiveCheckoutNetworks: a stale cursor or an open gap hides the network.
Offered == OpenGaps = {} /\ ~stale

\* insertPaymentOptions looks at the networks on another connection first ...
CheckNetwork(t) ==
  /\ option[t] = "none"
  /\ Offered
  /\ option' = [option EXCEPT ![t] = "checked"]
  /\ UNCHANGED <<chain, born, cursors, gaps, stored, lost, pc, poll>>

\* ... and its option is there once the transaction commits.
CommitOption(t) ==
  /\ option[t] = "checked"
  /\ option' = [option EXCEPT ![t] = "live"]
  /\ born' = [born EXCEPT ![t] = head]
  /\ UNCHANGED <<chain, cursors, gaps, stored, lost, pc, poll>>

\* AcknowledgeWatcherGaps.
Acknowledge ==
  /\ OpenGaps # {}
  /\ gaps' = {[g EXCEPT !.open = FALSE] : g \in gaps}
  /\ UNCHANGED <<chain, shop, cursors, stored, lost, pc, poll>>

GoStale ==
  /\ cursor # NoCursor /\ ~stale
  /\ stale' = TRUE
  /\ UNCHANGED <<chain, shop, cursor, since, gaps, stored, lost, pc, poll>>

-----------------------------------------------------------------------------
\* pollNetwork and EVMAdapter.ObserveTransfers.

\* b - n, but not below block 0.
Back(b, n) == IF b > n THEN b - n ELSE 0

\* Mutant: the poll starts at the cursor itself.
Resume_NoOverlap == cursor

Resume == Back(cursor, Overlap)

\* PlanObserveRange for the head h. A poll that is blind could not read the
\* cursor, takes it for empty and starts cold, without any check of the lag.
Window(h, blind, watched) ==
  LET cold    == Back(h, ColdLookback)
      empty   == blind \/ cursor = NoCursor
      lagging == ~empty /\ h > Resume /\ h - Resume > MaxCatchup /\ cold > Resume
      from    == IF empty \/ lagging THEN cold ELSE Resume
  IN  [blind   |-> blind,
       watched |-> watched,
       tip     |-> h,
       from    |-> from,
       to      |-> IF h > from + Span THEN from + Span ELSE h,
       skipped |-> IF lagging THEN Resume..(cold - 1) ELSE {},
       found   |-> {},
       confs   |-> [t \in Transfers |-> 0]]

\* The errors of two reads are ignored: the list of wallets may be cut short, and
\* the cursor may be missed. Without AllowSnap a lag past MaxCatchup is an error
\* and nothing changes.
StartPoll(h, blind, watched) ==
  /\ pc = "idle"
  /\ blind => cursor # NoCursor
  /\ poll' = Window(h, blind, watched)
  /\ \/ poll'.skipped = {} /\ pc' = "logs"
     \/ poll'.skipped # {} /\ AllowSnap /\ pc' = "count"
  /\ UNCHANGED <<chain, shop, cursors, gaps, stored, lost>>

\* Mutant: options nobody has paid yet do not hold the snap back.
Active_InFlight == {t \in Transfers : option[t] = "inflight"}

\* CountActivePaymentOptions.
Active == {t \in Transfers : option[t] \in {"live", "inflight"}}

\* GateCursorSnap: refuse ...
RefuseSnap ==
  /\ pc = "count" /\ Active # {}
  /\ pc' = "idle" /\ poll' = NoPoll
  /\ UNCHANGED <<chain, shop, cursors, gaps, stored, lost>>

\* ... or, in a second statement, record what is skipped.
AllowTheSnap ==
  /\ pc = "count" /\ Active = {}
  /\ pc' = "record"
  /\ UNCHANGED <<chain, shop, cursors, gaps, stored, lost, poll>>

\* Mutant: the snap is only logged.
RecordGap_LogOnly ==
  /\ pc = "record" /\ pc' = "logs"
  /\ UNCHANGED <<chain, shop, cursors, gaps, stored, lost, poll>>

RecordGap ==
  /\ pc = "record" /\ pc' = "logs"
  /\ gaps' = gaps \cup {[blocks |-> poll.skipped \cap Blocks, open |-> TRUE]}
  /\ UNCHANGED <<chain, shop, cursors, stored, lost, poll>>

\* getTransferLogs over the window, from a node that has blocks up to n; each log
\* comes with the confirmations it has below the head the poll was told.
GetLogs(n) ==
  /\ pc = "logs" /\ pc' = "deliver"
  /\ LET logs == {t \in poll.watched : mined[t] # 0 /\ mined[t] <= n /\ mined[t] \in poll.from..poll.to}
     IN  poll' = [poll EXCEPT
           !.found = logs,
           !.confs = [t \in Transfers |-> IF t \in logs THEN Depth(poll.tip, mined[t]) ELSE 0]]
  /\ UNCHANGED <<chain, shop, cursors, gaps, stored, lost>>

\* Mutant: one block too few settles.
Matched_OffByOne(t, confs) ==
  IF option[t] # "live" THEN option[t]
  ELSE IF confs + 1 >= Confirmations THEN "paid" ELSE "inflight"

\* What the matcher makes of the option when its transfer arrives.
Matched(t, confs) ==
  IF option[t] # "live" THEN option[t]
  ELSE IF confs >= Confirmations THEN "paid" ELSE "inflight"

\* VerifyTransfer takes the block from the receipt. It measures that block below
\* a new head or, if it cannot get one, keeps the confirmations of the log.
Verified(t) == {Depth(h, mined[t]) : h \in Tips} \cup {poll.confs[t]}

\* The receipt was found; Ingest keeps the first row of a transfer.
Deliver(t) ==
  /\ pc = "deliver" /\ t \in poll.found
  /\ mined[t] # 0
  /\ poll' = [poll EXCEPT !.found = @ \ {t}]
  /\ \/ /\ stored[t] # 0
        /\ UNCHANGED <<stored, option>>
     \/ /\ stored[t] = 0
        /\ stored' = [stored EXCEPT ![t] = mined[t]]
        /\ \E confs \in Verified(t) : option' = [option EXCEPT ![t] = Matched(t, confs)]
  /\ UNCHANGED <<chain, born, cursors, gaps, lost, pc>>

\* The receipt is gone, or a call or the ingest failed: logged, and the poll goes on.
Drop(t) ==
  /\ pc = "deliver" /\ t \in poll.found
  /\ poll' = [poll EXCEPT !.found = @ \ {t}]
  /\ dropped' = dropped \cup {t}
  /\ UNCHANGED <<chain, shop, cursors, gaps, stored, passed, pc>>

\* Transfers the next poll will not see and this one did not, for want of the
\* cursor or of their wallets.
PassedOver ==
  {t \in Transfers :
     /\ mined[t] # 0 /\ mined[t] < Back(poll.to + 1, Overlap)
     /\ \/ poll.blind /\ Resume <= mined[t] /\ mined[t] < poll.from
        \/ t \notin poll.watched /\ mined[t] \in poll.from..poll.to}

SaveCursor ==
  /\ pc = "deliver" /\ poll.found = {}
  /\ cursor' = poll.to + 1 /\ stale' = FALSE
  /\ since' = IF cursor = NoCursor THEN poll.from ELSE since
  /\ passed' = passed \cup PassedOver
  /\ pc' = "idle" /\ poll' = NoPoll
  /\ UNCHANGED <<chain, shop, gaps, stored, dropped>>

\* A call to the node fails, the gate or the write of the cursor does, or the
\* worker restarts: the cursor stays.
PollFails ==
  /\ pc # "idle"
  /\ pc' = "idle" /\ poll' = NoPoll
  /\ UNCHANGED <<chain, shop, cursors, gaps, stored, lost>>

-----------------------------------------------------------------------------
\* advanceConfirmations and expireIntents run between polls.

\* Depth of the stored block; the receipt is not asked for again.
Confirm(t) ==
  /\ pc = "idle" /\ option[t] = "inflight"
  /\ \E h \in Tips : Depth(h, stored[t]) >= Confirmations
  /\ option' = [option EXCEPT ![t] = "paid"]
  /\ UNCHANGED <<chain, born, cursors, gaps, stored, lost, pc, poll>>

Lapse(t) ==
  /\ pc = "idle" /\ option[t] = "live"
  /\ option' = [option EXCEPT ![t] = "lapsed"]
  /\ UNCHANGED <<chain, born, cursors, gaps, stored, lost, pc, poll>>

-----------------------------------------------------------------------------
Chain    == NewBlock \/ \E t \in Transfers : Mine(t) \/ Reorg(t)
Checkout == Acknowledge \/ GoStale \/ \E t \in Transfers : CheckNetwork(t) \/ CommitOption(t)
PollNetwork ==
  \/ \E h \in Tips, blind \in BOOLEAN, watched \in SUBSET Transfers : StartPoll(h, blind, watched)
  \/ RefuseSnap \/ AllowTheSnap \/ RecordGap \/ SaveCursor \/ PollFails
  \/ \E n \in Tips : GetLogs(n)
  \/ \E t \in Transfers : Deliver(t) \/ Drop(t)
Upkeep   == \E t \in Transfers : Confirm(t) \/ Lapse(t)

Next == Chain \/ Checkout \/ PollNetwork \/ Upkeep

Spec == Init /\ [][Next]_vars

\* The worker polls on every tick and sweeps what lapsed, and it is not for ever
\* that a node it asks lags or a call or a read of a poll fails.
Sound == pc # "idle" /\ ~poll.blind /\ poll.watched = Transfers /\ poll.tip = head

Fairness ==
  /\ WF_vars(PollNetwork)
  /\ SF_vars(StartPoll(head, FALSE, Transfers))
  /\ SF_vars(Sound /\ AllowTheSnap) /\ SF_vars(Sound /\ RecordGap)
  /\ SF_vars(Sound /\ GetLogs(head)) /\ SF_vars(Sound /\ SaveCursor)
  /\ \A t \in Transfers : SF_vars(Deliver(t)) /\ SF_vars(Lapse(t))

FairSpec == Spec /\ Fairness

-----------------------------------------------------------------------------
\* Properties.

\* Cursor, gaps and poll have their shapes, and a poll is open exactly while
\* pollNetwork runs.
TypeOK ==
  /\ head \in Blocks /\ mined \in [Transfers -> 0..MaxHead]
  /\ option \in [Transfers -> OptionStatus] /\ born \in [Transfers -> 0..MaxHead]
  /\ cursor \in Nat \cup {NoCursor} /\ since \in Nat \cup {NoCursor} /\ stale \in BOOLEAN
  /\ gaps \subseteq Gap
  /\ stored \in [Transfers -> 0..MaxHead]
  /\ dropped \subseteq Transfers /\ passed \subseteq Transfers
  /\ pc \in PCs /\ poll \in Poll \cup {NoPoll}
  /\ poll = NoPoll <=> pc = "idle"

\* No transfer falls between two polls: one the watcher has not stored is still
\* ahead of it, or in a recorded gap, or was found and failed, or is older than
\* the watcher, or was passed over by a poll of which a read had failed. So
\* nothing but an ignored error of pollNetwork loses a transfer in silence. Blocks
\* that change behind the head, or that a node did not have yet, are covered by
\* the overlap.
NothingSkippedSilently ==
  cursor # NoCursor =>
    \A t \in Transfers :
      \/ mined[t] = 0 \/ stored[t] # 0 \/ t \in dropped \cup passed
      \/ \E g \in gaps : mined[t] \in g.blocks
      \/ mined[t] < since \/ mined[t] >= Resume

\* The blocks a snap gives up on hold no payment of an option that is live,
\* even when the option is made while the gate is deciding.
SnapSparesLiveOptions ==
  \A t \in Transfers, g \in gaps : option[t] = "live" => mined[t] \notin g.blocks

\* An option is paid only when the block its transfer was stored with is as deep
\* as the network requires, whichever node was asked and although that block and
\* its confirmations may come from two calls, between which the chain is revised.
PaidIsDeep ==
  \A t \in Transfers : option[t] = "paid" =>
    stored[t] # 0 /\ Depth(head, stored[t]) >= Confirmations

\* The watcher does not stand still: a transfer on the chain is eventually
\* stored, skipped on record, found to fail, passed over by a poll that lost a
\* read, or removed by a reorganisation, even if the chain stands still.
ReadEventually ==
  \A t \in Transfers :
    []<>(\/ mined[t] = 0 \/ stored[t] # 0 \/ t \in dropped \cup passed
         \/ since # NoCursor /\ mined[t] < since
         \/ \E g \in gaps : mined[t] \in g.blocks)

-----------------------------------------------------------------------------
\* What the repository says of itself and the code does not do.

\* docs/decisions/ADR-006-bsc-mainnet-rail.md:21: a log that disappears before
\* finality does not settle. So an option becomes paid while its transfer is
\* where it was stored.
VanishedDoesNotSettle ==
  [][\A t \in Transfers : option[t] = "inflight" /\ option'[t] = "paid" => mined[t] = stored[t]]_option

\* internal/config/config.go:76-77: BSC_ALLOW_CURSOR_SNAP "must stay false until a
\* gap audit is done. When true, a lag [...] may skip blocks only after a
\* watcher_gaps row". So a cursor that is saved leaves no block it had still to
\* read behind the poll without a gap.
SkipsAreRecorded ==
  [][cursor # NoCursor /\ cursor' # cursor =>
       \A b \in Blocks : cursor <= b /\ b < poll.from => \E g \in gaps : b \in g.blocks]_cursor

=============================================================================
