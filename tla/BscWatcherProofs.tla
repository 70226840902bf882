-------------------------- MODULE BscWatcherProofs --------------------------
(***************************************************************************)
(* What the watcher of BNB Smart Chain promises for any number of          *)
(* transfers: when the confirmations asked for outlast what the chain may  *)
(* revise, an option is paid only by a transfer deep enough; when the      *)
(* overlap covers that, and what a node may lag, no transfer falls between *)
(* two polls but by an error that pollNetwork ignores; and a snap spares   *)
(* the payments of live options.                                           *)
(***************************************************************************)
EXTENDS BscWatcher, TLAPS

\* Where the next poll starts once this one is saved.
After == Back(poll.to + 1, Overlap)

\* A transfer is stored, failed on record, in a recorded gap, or was passed over
\* by a poll of which a read had failed.
Accounted(t) ==
  stored[t] # 0 \/ t \in dropped \cup passed \/ \E g \in gaps : mined[t] \in g.blocks

\* Below the cursor nothing is left over, ...
BehindCursor ==
  cursor # NoCursor =>
    /\ since # NoCursor
    /\ \A t \in Transfers :
         mined[t] # 0 /\ mined[t] < Resume /\ mined[t] >= since => Accounted(t)

\* ... what the poll under way skips is recorded before it reads, ...
SkipRecorded ==
  /\ pc \in {"count", "record"} => cursor # NoCursor /\ poll.skipped = Resume..(poll.from - 1)
  /\ pc \in {"logs", "deliver"} /\ cursor # NoCursor /\ ~poll.blind =>
       \A b \in Blocks : b >= Resume /\ b < poll.from => \E g \in gaps : b \in g.blocks

\* ... and what it has read is accounted for but for what is being delivered.
InWindow ==
  pc = "deliver" => \A t \in Transfers :
    mined[t] # 0 /\ mined[t] < After /\ mined[t] >= poll.from =>
      Accounted(t) \/ t \in poll.found \/ t \notin poll.watched

\* A poll and the cursor it leaves are not ahead of the chain.
NotAhead ==
  /\ poll # NoPoll => poll.to <= head
  /\ cursor # NoCursor => cursor <= head + 1

Covered == NotAhead /\ BehindCursor /\ SkipRecorded /\ InWindow

\* What a log says to be deep enough is so, and stays where it is.
LogsAreDeep ==
  /\ poll # NoPoll => poll.tip <= head
  /\ pc = "deliver" => \A t \in poll.found : poll.confs[t] >= Confirmations =>
       mined[t] # 0 /\ Depth(head, mined[t]) >= Confirmations

\* The row of a payment in flight is there, and the one of a paid option is deep.
Deep ==
  /\ \A t \in Transfers : option[t] = "inflight" => stored[t] # 0
  /\ PaidIsDeep /\ LogsAreDeep

-----------------------------------------------------------------------------
\* The settings are numbers, and a range has a block.
LEMMA Bounds ==
  /\ Overlap \in Nat /\ MaxCatchup \in Nat /\ ColdLookback \in Nat /\ ReorgDepth \in Nat /\ NodeLag \in Nat
  /\ Span \in Nat \ {0} /\ Confirmations \in Nat \ {0} /\ MaxHead \in Nat \ {0}
  /\ NoCursor \notin Nat /\ NoPoll \notin Poll
BY ConstantsAssumption

\* Going back stops at block 0.
LEMMA BackInNat == ASSUME NEW b \in Nat, NEW n \in Nat PROVE Back(b, n) \in Nat /\ Back(b, n) <= b
BY DEF Back

\* The window a poll asks for.
LEMMA WindowInPoll ==
  ASSUME TypeOK, NEW h \in Tips, NEW blind \in BOOLEAN, NEW watched \in SUBSET Transfers
  PROVE  /\ Window(h, blind, watched) \in Poll
         /\ Window(h, blind, watched).to <= head /\ Window(h, blind, watched).tip <= head
<1>1. h \in Nat /\ h <= head /\ head \in Nat
  BY Bounds DEF Tips, TypeOK, Blocks
<1>2. cursor # NoCursor => Resume \in Nat
  BY Bounds, BackInNat DEF TypeOK, Resume
<1>3. Back(h, ColdLookback) \in Nat /\ Back(h, ColdLookback) <= h
  BY <1>1, Bounds, BackInNat
<1> DEFINE cold    == Back(h, ColdLookback)
           empty   == blind \/ cursor = NoCursor
           lagging == ~empty /\ h > Resume /\ h - Resume > MaxCatchup /\ cold > Resume
           from    == IF empty \/ lagging THEN cold ELSE Resume
           to      == IF h > from + Span THEN from + Span ELSE h
           skipped == IF lagging THEN Resume..(cold - 1) ELSE {}
<1>4. from \in Nat
  BY <1>2, <1>3
<1>5. to \in Nat /\ to <= h
  BY <1>1, <1>4, Bounds
<1>6. skipped \subseteq Nat
  BY <1>2, <1>3
<1>7. Window(h, blind, watched) =
        [blind |-> blind, watched |-> watched, tip |-> h, from |-> from, to |-> to,
         skipped |-> skipped, found |-> {}, confs |-> [t \in Transfers |-> 0]]
  BY DEF Window
<1> HIDE DEF from, to, skipped
<1> QED
  BY <1>1, <1>4, <1>5, <1>6, <1>7 DEF Poll

\* A depth is a number.
LEMMA DepthInNat == ASSUME NEW h \in Nat, NEW b \in Nat PROVE Depth(h, b) \in Nat
BY DEF Depth

\* A block lies deeper below a later head.
LEMMA Deepens ==
  ASSUME NEW h \in Nat, NEW i \in Nat, NEW b \in Nat, h <= i PROVE Depth(h, b) <= Depth(i, b)
BY DEF Depth

\* What a node reports is not ahead of the chain.
LEMMA TipInNat == ASSUME TypeOK, NEW h \in Tips PROVE h \in Nat /\ head \in Nat /\ h <= head
BY DEF Tips, TypeOK, Blocks

-----------------------------------------------------------------------------
\* Every step keeps the shapes of tables and poll.
LEMMA TypeInductive == TypeOK /\ [Next]_vars => TypeOK'
<1> SUFFICES ASSUME TypeOK, [Next]_vars PROVE TypeOK'
  OBVIOUS
<1> USE Bounds DEF TypeOK
<1>1. CASE UNCHANGED vars
  BY <1>1 DEF vars, chain, shop, cursors, lost
<1>2. CASE NewBlock
  BY <1>2 DEF NewBlock, shop, cursors, lost, Blocks
<1>3. ASSUME NEW t \in Transfers, Mine(t) \/ Reorg(t) PROVE TypeOK'
  BY <1>3 DEF Mine, Reorg, Unsettled, shop, cursors, lost, Blocks
<1>4. CASE Acknowledge
  <2>1. gaps' \subseteq Gap
    BY <1>4 DEF Acknowledge, Gap
  <2> QED
    BY <1>4, <2>1 DEF Acknowledge, chain, shop, cursors, lost
<1>5. CASE GoStale
  BY <1>5 DEF GoStale, chain, shop, lost
<1>6. ASSUME NEW t \in Transfers, CheckNetwork(t) \/ CommitOption(t) \/ Confirm(t) \/ Lapse(t) PROVE TypeOK'
  BY <1>6 DEF CheckNetwork, CommitOption, Confirm, Lapse, chain, cursors, lost, OptionStatus, Blocks
<1>7. ASSUME NEW h \in Tips, NEW blind \in BOOLEAN, NEW watched \in SUBSET Transfers,
             StartPoll(h, blind, watched)
      PROVE  TypeOK'
  <2>1. poll' \in Poll /\ poll' # NoPoll
    BY <1>7, WindowInPoll DEF StartPoll
  <2> QED
    BY <1>7, <2>1 DEF StartPoll, chain, shop, cursors, lost, PCs
<1>8. CASE RefuseSnap \/ AllowTheSnap \/ PollFails
  BY <1>8 DEF RefuseSnap, AllowTheSnap, PollFails, chain, shop, cursors, lost, PCs
<1>9. CASE RecordGap
  <2>1. [blocks |-> poll.skipped \cap Blocks, open |-> TRUE] \in Gap
    BY DEF Gap
  <2> QED
    BY <1>9, <2>1 DEF RecordGap, chain, shop, cursors, lost, PCs
<1>10. ASSUME NEW n \in Tips, GetLogs(n) PROVE TypeOK'
  <2>1. poll \in Poll
    BY <1>10 DEF GetLogs
  <2> DEFINE logs  == {t \in poll.watched : mined[t] # 0 /\ mined[t] <= n /\ mined[t] \in poll.from..poll.to}
             confs == [t \in Transfers |-> IF t \in logs THEN Depth(poll.tip, mined[t]) ELSE 0]
  <2>2. logs \subseteq Transfers /\ confs \in [Transfers -> Nat]
    <3>1. poll.watched \subseteq Transfers /\ poll.tip \in Nat
      BY <2>1 DEF Poll
    <3>2. ASSUME NEW t \in Transfers PROVE Depth(poll.tip, mined[t]) \in Nat
      <4>1. mined[t] \in Nat
        OBVIOUS
      <4> QED
        BY <3>1, <4>1, DepthInNat
    <3> QED
      BY <3>1, <3>2
  <2>3. poll' \in Poll
    <3>1. poll' = [poll EXCEPT !.found = logs, !.confs = confs]
      BY <1>10 DEF GetLogs
    <3> HIDE DEF logs, confs
    <3> QED
      BY <2>1, <2>2, <3>1 DEF Poll
  <2> QED
    BY <1>10, <2>3 DEF GetLogs, chain, shop, cursors, lost, PCs
<1>11. CASE SaveCursor
  <2>1. poll \in Poll
    BY <1>11 DEF SaveCursor
  <2>2. poll.from \in Nat /\ poll.to + 1 \in Nat
    BY <2>1 DEF Poll
  <2>3. cursor' \in Nat /\ stale' \in BOOLEAN /\ since' \in Nat \cup {NoCursor}
    BY <1>11, <2>2 DEF SaveCursor
  <2>4. pc' \in PCs /\ poll' = NoPoll /\ pc' = "idle"
    BY <1>11 DEF SaveCursor, PCs
  <2>5. UNCHANGED <<head, mined, option, born, gaps, stored, dropped>> /\ passed' \subseteq Transfers
    BY <1>11 DEF SaveCursor, PassedOver, chain, shop
  <2> QED
    BY <2>3, <2>4, <2>5
<1>12. ASSUME NEW t \in Transfers, Deliver(t) PROVE TypeOK'
  <2>1. poll \in Poll
    BY <1>12 DEF Deliver
  <2>2. poll' \in Poll
    BY <1>12, <2>1 DEF Deliver, Poll
  <2>3. \A confs : Matched(t, confs) \in OptionStatus
    BY DEF Matched, OptionStatus
  <2>4. option' \in [Transfers -> OptionStatus] /\ stored' \in [Transfers -> 0..MaxHead]
    BY <1>12, <2>3 DEF Deliver
  <2> QED
    BY <1>12, <2>2, <2>4 DEF Deliver, chain, cursors, lost
<1>13. ASSUME NEW t \in Transfers, Drop(t) PROVE TypeOK'
  <2>1. poll \in Poll
    BY <1>13 DEF Drop
  <2>2. poll' \in Poll
    BY <1>13, <2>1 DEF Drop, Poll
  <2> QED
    BY <1>13, <2>2 DEF Drop, chain, shop, cursors
<1> QED
  BY <1>1, <1>2, <1>3, <1>4, <1>5, <1>6, <1>7, <1>8, <1>9, <1>10, <1>11, <1>12, <1>13
  DEF Next, Chain, Checkout, PollNetwork, Upkeep

\* The shapes the argument about depth rests on.
LEMMA DeepShapes ==
  ASSUME TypeOK
  PROVE  /\ head \in Nat /\ Confirmations \in Nat /\ ReorgDepth \in Nat
         /\ \A t \in Transfers : stored[t] \in Nat /\ mined[t] \in Nat
         /\ stored \in [Transfers -> 0..MaxHead] /\ mined \in [Transfers -> 0..MaxHead]
         /\ option \in [Transfers -> OptionStatus]
         /\ poll # NoPoll => /\ poll \in Poll /\ poll.tip \in Nat
                             /\ \A t \in Transfers : poll.confs[t] \in Nat
         /\ poll = NoPoll <=> pc = "idle"
<1>1. /\ head \in Nat /\ \A t \in Transfers : stored[t] \in Nat /\ mined[t] \in Nat
  BY Bounds DEF TypeOK, Blocks
<1>2. \A p \in Poll : p.tip \in Nat /\ \A t \in Transfers : p.confs[t] \in Nat
  BY DEF Poll
<1> QED
  BY <1>1, <1>2, Bounds DEF TypeOK

\* What the logs told stays true when the chain only grows, ...
LEMMA LogsStay ==
  ASSUME TypeOK, LogsAreDeep, head' \in Nat, head' >= head, UNCHANGED mined,
         \/ UNCHANGED <<pc, poll>>
         \/ poll' = NoPoll /\ pc' = "idle"
         \/ pc' = pc /\ poll' # NoPoll /\ poll'.tip = poll.tip /\ poll'.found \subseteq poll.found
            /\ poll'.confs = poll.confs /\ poll # NoPoll
         \/ pc' # "deliver" /\ UNCHANGED poll
  PROVE  LogsAreDeep'
<1>1. \A t \in Transfers : Depth(head, mined[t]) \in Nat /\ Depth(head', mined[t]) \in Nat
                        /\ Depth(head, mined[t]) <= Depth(head', mined[t])
  BY DeepShapes, DepthInNat, Deepens
<1>2. pc # "idle" => poll.found \subseteq Transfers
  BY DEF TypeOK, Poll
<1>3. poll' # NoPoll => poll'.tip <= head'
  BY DeepShapes DEF LogsAreDeep
<1>4. ASSUME pc' = "deliver", NEW t \in poll'.found, poll'.confs[t] >= Confirmations
      PROVE  mined'[t] # 0 /\ Depth(head', mined'[t]) >= Confirmations
  <2>1. pc = "deliver" /\ t \in poll.found /\ poll.confs[t] >= Confirmations
    BY <1>4
  <2>2. mined[t] # 0 /\ Depth(head, mined[t]) >= Confirmations /\ t \in Transfers
    BY <1>2, <2>1 DEF LogsAreDeep
  <2> QED
    BY <1>1, <2>2, DeepShapes
<1> QED
  BY <1>3, <1>4 DEF LogsAreDeep

\* ... and the chain does not revise a block that deep.
LEMMA LogsSurviveReorgs ==
  ASSUME TypeOK, LogsAreDeep, ReorgDepth < Confirmations,
         NEW t \in Transfers, Mine(t) \/ Reorg(t)
  PROVE  LogsAreDeep'
<1>1. /\ UNCHANGED <<head, pc, poll>>
      /\ \A u \in Transfers \ {t} : mined'[u] = mined[u]
      /\ mined[t] = 0 \/ mined[t] \in Unsettled
  BY DeepShapes DEF Mine, Reorg
<1>2. mined[t] = 0 \/ Depth(head, mined[t]) < Confirmations
  BY <1>1, DeepShapes DEF Unsettled, Depth
<1>3. pc # "idle" => poll.found \subseteq Transfers
  BY DEF TypeOK, Poll
<1>4. \A u \in Transfers : Depth(head, mined[u]) \in Nat
  BY DeepShapes, DepthInNat
<1>5. ASSUME pc = "deliver", NEW u \in poll.found, poll.confs[u] >= Confirmations
      PROVE  mined'[u] # 0 /\ Depth(head, mined'[u]) >= Confirmations
  <2>1. u \in Transfers /\ mined[u] # 0 /\ Depth(head, mined[u]) >= Confirmations
    BY <1>3, <1>5 DEF LogsAreDeep
  <2>2. u # t
    BY <1>2, <1>4, <2>1, DeepShapes
  <2> QED
    BY <1>1, <2>1, <2>2
<1> QED
  BY <1>1, <1>5 DEF LogsAreDeep

\* Every step keeps what is said of logs, stored rows and paid options.
LEMMA DeepInductive ==
  ASSUME ReorgDepth < Confirmations PROVE TypeOK /\ Deep /\ [Next]_vars => Deep'
<1> SUFFICES ASSUME TypeOK, Deep, [Next]_vars PROVE Deep'
  OBVIOUS
<1>1. /\ head \in Nat /\ Confirmations \in Nat
      /\ \A t \in Transfers : stored[t] \in Nat /\ mined[t] \in Nat
  BY DeepShapes
<1>2. ASSUME UNCHANGED stored, head' \in Nat, head' >= head, LogsAreDeep',
             \A t \in Transfers : option'[t] \in {"inflight", "paid"} => option'[t] = option[t]
      PROVE  Deep'
  BY <1>1, <1>2, Deepens DEF Deep, PaidIsDeep, Depth
<1>3. CASE UNCHANGED vars
  BY <1>1, <1>2, <1>3, LogsStay DEF vars, chain, shop, Deep
<1>4. ASSUME NEW t \in Transfers, Mine(t) \/ Reorg(t) PROVE Deep'
  BY <1>1, <1>2, <1>4, LogsSurviveReorgs DEF Mine, Reorg, shop, Deep
<1>5. CASE NewBlock \/ Checkout
  <2>1. /\ UNCHANGED <<mined, stored, pc, poll>> /\ head' \in Nat /\ head' >= head
        /\ \A t \in Transfers : option'[t] \in {"inflight", "paid"} => option'[t] = option[t]
    BY <1>1, <1>5, DeepShapes
       DEF NewBlock, Checkout, Acknowledge, GoStale, CheckNetwork, CommitOption, chain, shop
  <2> QED
    BY <1>2, <2>1, LogsStay DEF Deep
<1>6. CASE PollNetwork
  <2>1. CASE UNCHANGED <<head, option, stored>> /\ LogsAreDeep'
    <3>1. head' = head /\ option' = option /\ stored' = stored
      BY <2>1
    <3>2. head' \in Nat /\ head' >= head
      BY <1>1, <3>1
    <3> QED
      BY <1>2, <2>1, <3>1, <3>2
  <2>2. CASE RefuseSnap \/ AllowTheSnap \/ RecordGap \/ SaveCursor \/ PollFails
    <3>1. UNCHANGED <<head, mined, option, stored>> /\ pc' # "deliver"
          /\ (UNCHANGED poll \/ (poll' = NoPoll /\ pc' = "idle"))
      BY <2>2 DEF RefuseSnap, AllowTheSnap, RecordGap, SaveCursor, PollFails, chain, shop
    <3> QED
      BY <1>1, <2>1, <3>1, LogsStay DEF Deep
  <2>3. ASSUME NEW h \in Tips, NEW blind \in BOOLEAN, NEW watched \in SUBSET Transfers,
               StartPoll(h, blind, watched)
        PROVE  Deep'
    <3>1. UNCHANGED <<head, mined, option, stored>> /\ pc' # "deliver"
          /\ poll' = Window(h, blind, watched)
      BY <2>3 DEF StartPoll, chain, shop
    <3>2. LogsAreDeep'
      BY <3>1, WindowInPoll DEF LogsAreDeep
    <3> QED
      BY <2>1, <3>1, <3>2
  <2>4. ASSUME NEW n \in Tips, GetLogs(n) PROVE Deep'
    <3>1. /\ UNCHANGED <<head, mined, option, stored>> /\ pc = "logs"
          /\ poll # NoPoll /\ poll \in Poll /\ poll.tip \in Nat /\ poll.tip <= head
      BY <2>4, DeepShapes DEF GetLogs, chain, shop, Deep, LogsAreDeep
    <3> DEFINE logs == {t \in poll.watched : mined[t] # 0 /\ mined[t] <= n /\ mined[t] \in poll.from..poll.to}
    <3>2. poll' = [poll EXCEPT !.found = logs,
             !.confs = [t \in Transfers |-> IF t \in logs THEN Depth(poll.tip, mined[t]) ELSE 0]]
      BY <2>4 DEF GetLogs
    <3>3. poll'.tip = poll.tip /\ poll'.found = logs
          /\ poll'.confs = [t \in Transfers |-> IF t \in logs THEN Depth(poll.tip, mined[t]) ELSE 0]
      BY <3>1, <3>2 DEF Poll
    <3>4. logs \subseteq Transfers
      BY <3>1 DEF Poll
    <3>5. \A t \in logs : /\ poll'.confs[t] = Depth(poll.tip, mined[t]) /\ mined[t] # 0
                         /\ Depth(poll.tip, mined[t]) <= Depth(head, mined[t])
                         /\ Depth(poll.tip, mined[t]) \in Nat /\ Depth(head, mined[t]) \in Nat
      BY <1>1, <3>1, <3>3, <3>4, Deepens, DepthInNat
    <3> HIDE DEF logs
    <3>6. LogsAreDeep'
      BY <1>1, <3>1, <3>3, <3>5 DEF LogsAreDeep
    <3> QED
      BY <2>1, <3>1, <3>6
  <2>5. ASSUME NEW t \in Transfers, Drop(t) PROVE Deep'
    <3>1. UNCHANGED <<head, mined, option, stored, pc>> /\ poll # NoPoll /\ poll \in Poll
          /\ poll' = [poll EXCEPT !.found = @ \ {t}]
      BY <2>5, DeepShapes DEF Drop, chain, shop
    <3>2. poll' \in Poll /\ poll'.tip = poll.tip /\ poll'.found = poll.found \ {t} /\ poll'.confs = poll.confs
      BY <3>1 DEF Poll
    <3>3. LogsAreDeep'
      BY <1>1, <3>1, <3>2, LogsStay, Bounds DEF Deep
    <3> QED
      BY <2>1, <3>1, <3>3
  <2>6. ASSUME NEW t \in Transfers, Deliver(t) PROVE Deep'
    <3>1. /\ UNCHANGED <<head, mined, pc>> /\ poll # NoPoll /\ poll \in Poll
          /\ pc = "deliver" /\ t \in poll.found /\ mined[t] # 0
          /\ poll' = [poll EXCEPT !.found = @ \ {t}]
      BY <2>6, DeepShapes DEF Deliver, chain
    <3>2. poll' \in Poll /\ poll'.tip = poll.tip /\ poll'.found = poll.found \ {t} /\ poll'.confs = poll.confs
      BY <3>1 DEF Poll
    <3>3. LogsAreDeep'
      BY <1>1, <3>1, <3>2, LogsStay, Bounds DEF Deep
    <3>4. CASE stored[t] # 0
      BY <2>1, <2>6, <3>1, <3>3, <3>4 DEF Deliver
    <3>5. CASE stored[t] = 0
      <4>1. PICK confs \in Verified(t) : option' = [option EXCEPT ![t] = Matched(t, confs)]
        BY <2>6, <3>5 DEF Deliver
      <4>2. stored' = [stored EXCEPT ![t] = mined[t]]
        BY <2>6, <3>5 DEF Deliver
      <4>3. option[t] \notin {"inflight", "paid"}
        BY <3>5 DEF Deep, PaidIsDeep
      <4>4. Depth(head, mined[t]) \in Nat
        BY <1>1, DepthInNat
      <4>5. confs >= Confirmations => Depth(head, mined[t]) >= Confirmations
        <5>1. CASE confs = poll.confs[t]
          BY <3>1, <5>1 DEF Deep, LogsAreDeep
        <5>2. ASSUME NEW h \in Tips, confs = Depth(h, mined[t])
              PROVE  confs >= Confirmations => Depth(head, mined[t]) >= Confirmations
          <6>1. h \in Nat /\ h <= head /\ mined[t] \in Nat /\ t \in Transfers
            BY <1>1, <2>6, <5>2, TipInNat
          <6>2. confs \in Nat /\ confs <= Depth(head, mined[t])
            BY <1>1, <5>2, <6>1, Deepens, DepthInNat
          <6> QED
            BY <1>1, <4>4, <6>2
        <5> QED
          BY <5>1, <5>2 DEF Verified
      <4>6. option'[t] = "paid" => Depth(head, mined[t]) >= Confirmations
        BY <4>1, <4>3, <4>5, DeepShapes DEF Matched
      <4>7. \A u \in Transfers : u # t => option'[u] = option[u] /\ stored'[u] = stored[u]
        BY <4>1, <4>2, DeepShapes
      <4>8. stored'[t] = mined[t]
        BY <4>2, DeepShapes
      <4> QED
        BY <3>1, <3>3, <4>6, <4>7, <4>8 DEF Deep, PaidIsDeep
    <3> QED
      BY <3>4, <3>5
  <2> QED
    BY <1>6, <2>2, <2>3, <2>4, <2>5, <2>6 DEF PollNetwork
<1>7. CASE Upkeep
  <2>1. UNCHANGED <<head, mined, pc, poll>>
    BY <1>7 DEF Upkeep, Confirm, Lapse, chain
  <2>2. LogsAreDeep'
    BY <1>1, <2>1, LogsStay DEF Deep
  <2>3. ASSUME NEW t \in Transfers, Confirm(t) PROVE Deep'
    <3>1. PICK h \in Tips : Depth(h, stored[t]) >= Confirmations
      BY <2>3 DEF Confirm
    <3>2. stored[t] # 0 /\ option' = [option EXCEPT ![t] = "paid"] /\ UNCHANGED <<head, stored>>
      BY <2>3 DEF Confirm, Deep, chain
    <3>3. Depth(head, stored[t]) >= Confirmations
      BY <1>1, <3>1, TipInNat DEF Depth
    <3> QED
      BY <2>2, <3>2, <3>3 DEF Deep, PaidIsDeep, TypeOK
  <2>4. ASSUME NEW t \in Transfers, Lapse(t) PROVE Deep'
    BY <1>1, <1>2, <2>2, <2>4 DEF Lapse, chain, TypeOK
  <2> QED
    BY <1>7, <2>3, <2>4 DEF Upkeep
<1> QED
  BY <1>3, <1>4, <1>5, <1>6, <1>7 DEF Next, Chain

\* Cursor, gaps and polls keep their shapes, whatever fails (pollNetwork).
THEOREM TypeCorrect == Spec => []TypeOK
<1>1. Init => TypeOK
  <2> SUFFICES ASSUME Init PROVE TypeOK
    OBVIOUS
  <2>1. head \in Blocks /\ pc \in PCs /\ poll = NoPoll /\ pc = "idle" /\ stale \in BOOLEAN
    <3>1. 1 \in Blocks
      BY Bounds DEF Blocks
    <3> QED
      BY <3>1 DEF Init, PCs
  <2>2. /\ mined \in [Transfers -> 0..MaxHead] /\ born \in [Transfers -> 0..MaxHead]
        /\ stored \in [Transfers -> 0..MaxHead] /\ option \in [Transfers -> OptionStatus]
    BY Bounds DEF Init, OptionStatus
  <2>3. cursor = NoCursor /\ since = NoCursor /\ gaps = {} /\ dropped = {} /\ passed = {}
    BY DEF Init
  <2> QED
    BY <2>1, <2>2, <2>3 DEF TypeOK
<1> QED
  BY <1>1, TypeInductive, PTL DEF Spec

\* When the confirmations asked for outlast what the chain may revise, as
\* config.go's minimum is there to see to, an option is paid only by a transfer
\* stored that deep, whatever the nodes lag and whichever call of VerifyTransfer
\* fails (VerifyTransfer, ConfirmationStatus, advanceConfirmations).
THEOREM PaidDeep ==
  ASSUME ReorgDepth < Confirmations PROVE Spec => []PaidIsDeep
<1>1. Init => Deep
  BY DEF Init, Deep, PaidIsDeep, LogsAreDeep
<1>2. Deep => PaidIsDeep
  BY DEF Deep
<1>3. TypeOK /\ Deep /\ [Next]_vars => Deep'
  BY DeepInductive
<1> QED
  BY <1>1, <1>2, <1>3, TypeCorrect, PTL DEF Spec

-----------------------------------------------------------------------------
\* No transfer falls between two polls.

\* The chain only changes blocks that the next poll reads again.
LEMMA ReadAgain ==
  ASSUME TypeOK, ReorgDepth <= Overlap, NEW b \in Unsettled, NEW n \in Nat, n <= head + 1
  PROVE  b >= Back(n, Overlap)
BY Bounds DEF TypeOK, Unsettled, Blocks, Back

\* So it does with the blocks that a lagging node may not have.
LEMMA NodeReadAgain ==
  ASSUME TypeOK, NodeLag <= Overlap, NEW n \in Tips, NEW b \in Nat, b > n, NEW m \in Nat, m <= head + 1
  PROVE  b >= Back(m, Overlap)
BY Bounds DEF TypeOK, Tips, Blocks, Back

\* The shapes the argument about leftovers rests on.
LEMMA CoveredShapes ==
  ASSUME TypeOK
  PROVE  /\ head \in Nat /\ \A t \in Transfers : mined[t] \in Nat /\ (mined[t] # 0 => mined[t] \in Blocks)
         /\ cursor # NoCursor => cursor \in Nat /\ Resume \in Nat
         /\ since # NoCursor => since \in Nat
         /\ pc # "idle" => /\ poll \in Poll /\ poll # NoPoll /\ poll.from \in Nat /\ poll.to \in Nat
                           /\ After \in Nat /\ After <= poll.to + 1
<1>1. /\ head \in Nat /\ \A t \in Transfers : mined[t] \in Nat /\ (mined[t] # 0 => mined[t] \in Blocks)
      /\ since # NoCursor => since \in Nat
  <2>1. head \in Nat
    BY Bounds DEF TypeOK, Blocks
  <2>2. ASSUME NEW t \in Transfers PROVE mined[t] \in Nat /\ (mined[t] # 0 => mined[t] \in Blocks)
    <3>1. mined[t] \in 0..MaxHead
      BY DEF TypeOK
    <3> QED
      BY <3>1, Bounds DEF Blocks
  <2>3. since # NoCursor => since \in Nat
    BY DEF TypeOK
  <2> QED
    BY <2>1, <2>2, <2>3
<1>2. cursor # NoCursor => cursor \in Nat /\ Resume \in Nat
  BY Bounds, BackInNat DEF TypeOK, Resume
<1>3. pc # "idle" => poll \in Poll /\ poll # NoPoll /\ poll.from \in Nat /\ poll.to \in Nat
  <2>1. pc # "idle" => poll \in Poll /\ poll # NoPoll
    BY DEF TypeOK
  <2>2. ASSUME NEW p \in Poll PROVE p.from \in Nat /\ p.to \in Nat
    BY DEF Poll
  <2> QED
    BY <2>1, <2>2
<1>4. pc # "idle" => After \in Nat /\ After <= poll.to + 1
  <2> SUFFICES ASSUME pc # "idle" PROVE After \in Nat /\ After <= poll.to + 1
    OBVIOUS
  <2>1. PICK n \in Nat : n = poll.to + 1
    BY <1>3
  <2>2. Back(n, Overlap) \in Nat /\ Back(n, Overlap) <= n
    BY Bounds, BackInNat
  <2> QED
    BY <2>1, <2>2 DEF After
<1> QED
  BY <1>1, <1>2, <1>3, <1>4

\* What is accounted for stays so.
LEMMA Accounts ==
  ASSUME NEW t \in Transfers, mined'[t] = mined[t], dropped \subseteq dropped', passed \subseteq passed',
         stored[t] # 0 => stored'[t] # 0,
         \A g \in gaps : \E h \in gaps' : h.blocks = g.blocks
  PROVE  Accounted(t) => Accounted(t)'
BY DEF Accounted

\* Every step accounts for the transfers it leaves behind.
LEMMA CoveredInductive ==
  ASSUME ReorgDepth <= Overlap, NodeLag <= Overlap
  PROVE  TypeOK /\ Covered /\ [Next]_vars => Covered'
<1> SUFFICES ASSUME TypeOK, Covered, [Next]_vars PROVE Covered'
  OBVIOUS
\* Steps of the chain.
<1>1. ASSUME NEW t \in Transfers, Mine(t) \/ Reorg(t) PROVE Covered'
  <2>1. /\ UNCHANGED <<head, cursors, gaps, stored, lost, pc, poll>>
        /\ \A u \in Transfers : u # t => mined'[u] = mined[u]
        /\ mined'[t] = 0 \/ mined'[t] \in Unsettled
    BY <1>1 DEF Mine, Reorg, TypeOK
  <2>2. UNCHANGED <<head, cursor, since, gaps, stored, dropped, passed, pc, poll>>
    BY <2>1 DEF cursors, lost
  <2>3. \A u \in Transfers : u # t => (Accounted(u) => Accounted(u)')
    BY <2>1, <2>2 DEF Accounted
  <2>4. cursor # NoCursor => (mined'[t] # 0 => mined'[t] >= Resume)
    BY <2>1, ReadAgain, CoveredShapes DEF Covered, NotAhead, Resume
  <2>5. pc # "idle" => (mined'[t] # 0 => mined'[t] >= After)
    <3> SUFFICES ASSUME pc # "idle", mined'[t] # 0 PROVE mined'[t] >= After
      OBVIOUS
    <3>1. poll.to + 1 \in Nat /\ poll.to + 1 <= head + 1
      BY CoveredShapes DEF Covered, NotAhead
    <3> QED
      BY <2>1, <3>1, ReadAgain DEF After
  <2>6. mined'[t] \in Nat
    BY <2>1, Bounds DEF Unsettled, Blocks
  <2>7. NotAhead' /\ SkipRecorded'
    BY <2>2 DEF Covered, NotAhead, SkipRecorded, Resume
  <2>8. BehindCursor'
    BY <2>1, <2>2, <2>3, <2>4, <2>6, CoveredShapes DEF Covered, BehindCursor, Resume
  <2>9. InWindow'
    BY <2>1, <2>2, <2>3, <2>5, <2>6, CoveredShapes DEF Covered, InWindow, After
  <2> QED
    BY <2>7, <2>8, <2>9 DEF Covered
\* Steps that leave the poll, or give it up.
<1>2. ASSUME UNCHANGED <<mined, cursor, since, stored, lost>>, head' \in Nat, head' >= head,
             \A g \in gaps : \E h \in gaps' : h.blocks = g.blocks,
             UNCHANGED <<pc, poll>> \/ (pc' = "idle" /\ poll' = NoPoll)
      PROVE  Covered'
  <2>1. \A t \in Transfers : Accounted(t) => Accounted(t)'
    BY <1>2, Accounts DEF lost
  <2>2. NotAhead'
    <3>1. poll # NoPoll => poll.to \in Nat
      BY CoveredShapes DEF TypeOK
    <3> QED
      BY <1>2, <3>1, CoveredShapes DEF Covered, NotAhead
  <2>3. BehindCursor'
    BY <1>2, <2>1 DEF Covered, BehindCursor, Resume
  <2>4. SkipRecorded' /\ InWindow'
    BY <1>2, <2>1 DEF Covered, SkipRecorded, InWindow, Resume, After
  <2> QED
    BY <2>2, <2>3, <2>4 DEF Covered
<1>3. CASE UNCHANGED vars \/ NewBlock \/ GoStale \/ Upkeep \/ RefuseSnap \/ PollFails
           \/ \E t \in Transfers : CheckNetwork(t) \/ CommitOption(t)
  BY <1>2, <1>3, CoveredShapes DEF vars, NewBlock, GoStale, Upkeep, Confirm, Lapse, RefuseSnap, PollFails,
     CheckNetwork, CommitOption, chain, shop, cursors
<1>4. CASE Acknowledge
  <2>1. \A g \in gaps : [g EXCEPT !.open = FALSE] \in gaps' /\ [g EXCEPT !.open = FALSE].blocks = g.blocks
    BY <1>4 DEF Acknowledge, TypeOK, Gap
  <2>2. \A g \in gaps : \E h \in gaps' : h.blocks = g.blocks
    BY <2>1
  <2>3. UNCHANGED <<head, mined, cursor, since, stored, lost, pc, poll>>
    BY <1>4 DEF Acknowledge, chain, cursors
  <2> QED
    BY <1>2, <2>2, <2>3, CoveredShapes
\* Steps of the poll.
<1>5. ASSUME NEW h \in Tips, NEW blind \in BOOLEAN, NEW watched \in SUBSET Transfers,
             StartPoll(h, blind, watched)
      PROVE  Covered'
  <2> DEFINE w == Window(h, blind, watched)
  <2>1. /\ poll' = w /\ pc' \in {"logs", "count"} /\ (pc' = "count" <=> w.skipped # {})
        /\ UNCHANGED <<head, mined, cursor, since, gaps, stored, dropped, passed>>
    BY <1>5 DEF StartPoll, chain, cursors, lost
  <2>2. w \in Poll /\ w.to <= head /\ w.from \in Nat /\ w.blind = blind
    <3>1. w \in Poll /\ w.to <= head
      BY WindowInPoll
    <3>2. w.blind = blind
      BY DEF Window
    <3>3. \A p \in Poll : p.from \in Nat
      BY DEF Poll
    <3> QED
      BY <3>1, <3>2, <3>3
  <2>3. cursor # NoCursor /\ ~blind /\ w.skipped = {} => w.from = Resume
    <3> SUFFICES ASSUME cursor # NoCursor, ~blind, w.skipped = {} PROVE w.from = Resume
      OBVIOUS
    <3>1. PICK cold : cold = Back(h, ColdLookback)
      OBVIOUS
    <3>2. cold \in Nat
      BY <3>1, TipInNat, Bounds, BackInNat
    <3>3. PICK lagging \in BOOLEAN : lagging <=> h > Resume /\ h - Resume > MaxCatchup /\ cold > Resume
      OBVIOUS
    <3>4. /\ w.from = IF lagging THEN cold ELSE Resume
          /\ w.skipped = IF lagging THEN Resume..(cold - 1) ELSE {}
      BY <3>1, <3>3 DEF Window
    <3>5. lagging => Resume \in Resume..(cold - 1)
      BY <3>2, <3>3, CoveredShapes
    <3> QED
      BY <3>4, <3>5
  <2>4. w.skipped # {} => cursor # NoCursor /\ w.skipped = Resume..(w.from - 1)
    BY DEF Window
  <2> HIDE DEF w
  <2>5. NotAhead'
    BY <2>1, <2>2 DEF Covered, NotAhead
  <2>6. BehindCursor'
    BY <2>1 DEF Covered, BehindCursor, Resume, Accounted
  <2>7. SkipRecorded'
    BY <2>1, <2>2, <2>3, <2>4, CoveredShapes, Bounds DEF SkipRecorded, Resume, Blocks
  <2>8. InWindow'
    BY <2>1 DEF InWindow
  <2> QED
    BY <2>5, <2>6, <2>7, <2>8 DEF Covered
<1>6. CASE AllowTheSnap
  BY <1>6 DEF AllowTheSnap, Covered, NotAhead, BehindCursor, SkipRecorded, InWindow, Resume, Accounted,
     chain, cursors, lost
<1>7. CASE RecordGap
  <2>1. /\ pc = "record" /\ pc' = "logs" /\ gaps \subseteq gaps'
        /\ [blocks |-> poll.skipped \cap Blocks, open |-> TRUE] \in gaps'
        /\ UNCHANGED <<head, mined, cursor, since, stored, dropped, passed, poll>>
    BY <1>7 DEF RecordGap, chain, cursors, lost
  <2>2. PICK g \in gaps' : g.blocks = poll.skipped \cap Blocks
    BY <2>1
  <2>3. \A t \in Transfers : Accounted(t) => Accounted(t)'
    BY <2>1 DEF Accounted
  <2>4. NotAhead' /\ BehindCursor'
    BY <2>1, <2>3 DEF Covered, NotAhead, BehindCursor, Resume
  <2>5. SkipRecorded'
    <3>1. \A b \in Blocks : b >= Resume /\ b < poll.from => b \in g.blocks
      BY <2>1, <2>2, CoveredShapes DEF Covered, SkipRecorded, Blocks
    <3> QED
      BY <2>1, <3>1 DEF SkipRecorded, Resume
  <2>6. InWindow'
    BY <2>1 DEF InWindow
  <2> QED
    BY <2>4, <2>5, <2>6 DEF Covered
<1>8. ASSUME NEW n \in Tips, GetLogs(n) PROVE Covered'
  <2> DEFINE logs == {t \in poll.watched : mined[t] # 0 /\ mined[t] <= n /\ mined[t] \in poll.from..poll.to}
  <2>1. /\ pc = "logs" /\ pc' = "deliver" /\ poll \in Poll /\ poll # NoPoll
        /\ UNCHANGED <<head, mined, cursor, since, gaps, stored, dropped, passed>>
        /\ poll' = [poll EXCEPT !.found = logs,
             !.confs = [t \in Transfers |-> IF t \in logs THEN Depth(poll.tip, mined[t]) ELSE 0]]
    BY <1>8, CoveredShapes DEF GetLogs, chain, cursors, lost
  <2>2. /\ poll'.from = poll.from /\ poll'.to = poll.to /\ poll'.blind = poll.blind
        /\ poll'.watched = poll.watched /\ poll'.found = logs
    BY <2>1 DEF Poll
  <2>3. NotAhead' /\ BehindCursor' /\ SkipRecorded'
    BY <2>1, <2>2 DEF Covered, NotAhead, BehindCursor, SkipRecorded, Resume, Accounted
  <2>4. ASSUME NEW t \in Transfers, mined[t] # 0, mined[t] < After, mined[t] >= poll.from, t \in poll.watched
        PROVE  t \in logs
    <3>1. mined[t] \in Nat /\ n \in Nat /\ poll.to \in Nat /\ poll.from \in Nat /\ After \in Nat
          /\ After <= poll.to + 1 /\ head \in Nat /\ poll.to <= head
      BY <2>1, CoveredShapes, TipInNat DEF Covered, NotAhead
    <3>2. mined[t] <= n
      <4>1. poll.to + 1 \in Nat /\ poll.to + 1 <= head + 1
        BY <3>1
      <4>2. mined[t] > n => mined[t] >= After
        BY <3>1, <4>1, NodeReadAgain DEF After
      <4> QED
        BY <2>4, <3>1, <4>2
    <3> QED
      BY <2>4, <3>1, <3>2
  <2> HIDE DEF logs
  <2>5. InWindow'
    BY <2>1, <2>2, <2>4 DEF InWindow, After
  <2> QED
    BY <2>3, <2>5 DEF Covered
<1>9. ASSUME NEW t \in Transfers, Deliver(t) \/ Drop(t) PROVE Covered'
  <2>1. /\ pc = "deliver" /\ pc' = pc /\ UNCHANGED <<head, mined, cursor, since, gaps>>
        /\ poll' = [poll EXCEPT !.found = @ \ {t}]
    BY <1>9 DEF Deliver, Drop, chain, cursors
  <2>2. /\ dropped \subseteq dropped' /\ passed' = passed /\ (stored'[t] # 0 \/ t \in dropped')
        /\ \A u \in Transfers : stored[u] # 0 => stored'[u] # 0
    BY <1>9 DEF Deliver, Drop, lost, TypeOK
  <2>3. /\ poll'.from = poll.from /\ poll'.to = poll.to /\ poll'.found = poll.found \ {t} /\ poll' # NoPoll
        /\ poll'.blind = poll.blind /\ poll'.watched = poll.watched
    <3>1. poll \in Poll
      BY <2>1, CoveredShapes
    <3>2. poll' \in Poll
      BY <2>1, <3>1 DEF Poll
    <3> QED
      BY <2>1, <3>1, <3>2, Bounds DEF Poll
  <2>4. \A u \in Transfers : (Accounted(u) \/ u = t) => Accounted(u)'
    BY <2>1, <2>2 DEF Accounted
  <2>5. NotAhead' /\ SkipRecorded'
    BY <2>1, <2>3, CoveredShapes DEF Covered, NotAhead, SkipRecorded, Resume
  <2>6. BehindCursor'
    BY <2>1, <2>4 DEF Covered, BehindCursor, Resume
  <2>7. InWindow'
    BY <2>1, <2>3, <2>4 DEF Covered, InWindow, After
  <2> QED
    BY <2>5, <2>6, <2>7 DEF Covered
<1>10. CASE SaveCursor
  <2>1. /\ pc = "deliver" /\ poll.found = {} /\ cursor' = poll.to + 1
        /\ since' = IF cursor = NoCursor THEN poll.from ELSE since
        /\ pc' = "idle" /\ poll' = NoPoll /\ passed' = passed \cup PassedOver
        /\ UNCHANGED <<head, mined, gaps, stored, dropped>>
    BY <1>10 DEF SaveCursor, chain, shop
  <2>2. Resume' = After
    BY <2>1 DEF Resume, After
  <2>3. \A t \in Transfers : Accounted(t) \/ t \in PassedOver => Accounted(t)'
    BY <2>1 DEF Accounted
  <2>4. NotAhead'
    BY <2>1, CoveredShapes DEF Covered, NotAhead
  <2>5. SkipRecorded' /\ InWindow'
    BY <2>1 DEF SkipRecorded, InWindow
  <2>6. since' # NoCursor /\ since' \in Nat
    BY <2>1, CoveredShapes, Bounds DEF Covered, BehindCursor
  <2>7. ASSUME NEW t \in Transfers, mined[t] # 0, mined[t] < After, mined[t] >= since'
        PROVE  Accounted(t) \/ t \in PassedOver
    <3>0. mined[t] \in Nat /\ mined[t] < Back(poll.to + 1, Overlap) /\ mined[t] <= poll.to
      BY <2>1, <2>7, CoveredShapes DEF After
    <3>1. CASE mined[t] >= poll.from
      <4>1. mined[t] \in poll.from..poll.to
        BY <2>1, <3>0, <3>1, CoveredShapes
      <4> QED
        BY <2>1, <2>7, <3>0, <3>1, <4>1 DEF Covered, InWindow, PassedOver
    <3>2. CASE mined[t] < poll.from
      <4>1. cursor # NoCursor /\ since' = since
        BY <2>1, <2>7, <3>2, CoveredShapes
      <4>2. CASE mined[t] < Resume
        BY <2>7, <4>1, <4>2 DEF Covered, BehindCursor
      <4>3. CASE mined[t] >= Resume
        <5>1. CASE poll.blind
          BY <2>7, <3>0, <3>2, <4>3, <5>1 DEF PassedOver
        <5>2. CASE ~poll.blind
          BY <2>1, <2>7, <3>2, <4>1, <4>3, <5>2, CoveredShapes DEF Covered, SkipRecorded, Accounted
        <5> QED
          BY <5>1, <5>2
      <4> QED
        BY <4>1, <4>2, <4>3, CoveredShapes
    <3> QED
      BY <2>1, <3>1, <3>2, CoveredShapes
  <2>8. BehindCursor'
    BY <2>1, <2>2, <2>3, <2>6, <2>7 DEF BehindCursor
  <2> QED
    BY <2>4, <2>5, <2>8 DEF Covered
<1> QED
  BY <1>1, <1>3, <1>4, <1>5, <1>6, <1>7, <1>8, <1>9, <1>10 DEF Next, Chain, Checkout, PollNetwork

\* When the overlap covers the blocks the chain may revise and those a node may
\* lag, no transfer falls between two polls but to one that could not read the
\* cursor or all the wallets and went on, whatever spans, snaps, other failures
\* and restarts there are (PlanObserveRange, GateCursorSnap, pollNetwork).
THEOREM NothingSkipped ==
  ASSUME ReorgDepth <= Overlap, NodeLag <= Overlap PROVE Spec => []NothingSkippedSilently
<1>1. Init => Covered
  BY DEF Init, Covered, NotAhead, BehindCursor, SkipRecorded, InWindow
<1>2. TypeOK /\ Covered => NothingSkippedSilently
  BY CoveredShapes DEF Covered, BehindCursor, NothingSkippedSilently, Accounted
<1>3. TypeOK /\ Covered /\ [Next]_vars => Covered'
  BY CoveredInductive
<1> QED
  BY <1>1, <1>2, <1>3, TypeCorrect, PTL DEF Spec

-----------------------------------------------------------------------------
\* Snaps and live options.

\* An option is paid after it was made, ...
PaidAfterBorn ==
  \A t \in Transfers :
    /\ option[t] \in {"none", "checked"} => mined[t] = 0
    /\ mined[t] # 0 => mined[t] > born[t]

\* ... what is given up, or is about to be, is on the chain already, ...
SkipsThePast ==
  /\ \A g \in gaps : \A b \in g.blocks : b <= head
  /\ pc \in {"count", "record"} => \A b \in poll.skipped : b <= head

\* ... and older than every live option, once the gate has counted them.
LiveAreYounger ==
  \A t \in Transfers : option[t] = "live" =>
    /\ \A g \in gaps : \A b \in g.blocks : b <= born[t]
    /\ pc = "record" => \A b \in poll.skipped : b <= born[t]

Spared == PaidAfterBorn /\ SkipsThePast /\ LiveAreYounger

\* What a poll gives up is behind the head it was told.
LEMMA SkippedInWindow ==
  ASSUME TypeOK, NEW h \in Tips, NEW blind \in BOOLEAN, NEW watched \in SUBSET Transfers,
         NEW b \in Window(h, blind, watched).skipped
  PROVE  b <= head
<1>1. h \in Nat /\ h <= head /\ head \in Nat
  BY TipInNat
<1> DEFINE cold == Back(h, ColdLookback)
<1>2. cold \in Nat /\ cold <= h
  BY <1>1, Bounds, BackInNat
<1>3. cursor # NoCursor => Resume \in Nat
  BY Bounds, BackInNat DEF TypeOK, Resume
<1>4. cursor # NoCursor /\ b \in Resume..(cold - 1)
  BY DEF Window
<1> HIDE DEF cold
<1> QED
  BY <1>1, <1>2, <1>3, <1>4

\* The shapes these steps rest on.
LEMMA SparedShapes ==
  ASSUME TypeOK
  PROVE  /\ head \in Nat
         /\ \A t \in Transfers : mined[t] \in Nat /\ born[t] \in Nat
         /\ \A g \in gaps : g.blocks \subseteq Nat
         /\ poll # NoPoll => poll.skipped \subseteq Nat
         /\ mined \in [Transfers -> 0..MaxHead] /\ born \in [Transfers -> 0..MaxHead]
         /\ option \in [Transfers -> OptionStatus]
BY Bounds DEF TypeOK, Blocks, Gap, Poll

\* A step that makes no option live, mines nothing, and gives up nothing.
LEMMA NothingNewSpared ==
  ASSUME TypeOK, Spared, UNCHANGED <<mined, born>>, head' = head,
         \A t \in Transfers : option'[t] = option[t] \/ option'[t] \notin {"none", "live"},
         \A t \in Transfers : option'[t] = "checked" => option[t] \in {"none", "checked"},
         \A g \in gaps' : \E h \in gaps : g.blocks = h.blocks,
         pc' \notin {"count", "record"} \/ UNCHANGED <<pc, poll>>
  PROVE  Spared'
<1>1. PaidAfterBorn'
  BY DEF Spared, PaidAfterBorn
<1>2. SkipsThePast'
  BY DEF Spared, SkipsThePast
<1>3. LiveAreYounger'
  BY DEF Spared, LiveAreYounger
<1> QED
  BY <1>1, <1>2, <1>3 DEF Spared

\* Every step keeps live options out of what was given up: those the gate counted
\* are none, and those made after it are younger than the blocks.
LEMMA SparedInductive == TypeOK /\ Spared /\ [Next]_vars => Spared'
<1> SUFFICES ASSUME TypeOK, Spared, [Next]_vars PROVE Spared'
  OBVIOUS
<1>0. \A g \in gaps : \E h \in gaps : g.blocks = h.blocks
  OBVIOUS
<1>1. CASE UNCHANGED vars \/ GoStale \/ RefuseSnap \/ SaveCursor \/ PollFails
           \/ \E n \in Tips : GetLogs(n)
  <2>1. UNCHANGED <<head, mined, option, born, gaps>> /\ (UNCHANGED <<pc, poll>> \/ pc' \notin {"count", "record"})
    BY <1>1 DEF vars, chain, shop, cursors, GoStale, RefuseSnap, GetLogs, SaveCursor, PollFails
  <2> QED
    BY <1>0, <2>1, NothingNewSpared
<1>2. CASE NewBlock
  <2>1. /\ head' = head + 1 /\ head \in Nat
        /\ UNCHANGED <<mined, option, born, gaps, pc, poll>>
    BY <1>2, SparedShapes DEF NewBlock, shop
  <2>2. \A g \in gaps : \A b \in g.blocks : b \in Nat
    BY SparedShapes
  <2>3. pc \in {"count", "record"} => \A b \in poll.skipped : b \in Nat
    BY SparedShapes DEF TypeOK
  <2>4. SkipsThePast'
    BY <2>1, <2>2, <2>3 DEF Spared, SkipsThePast
  <2> QED
    BY <2>1, <2>4 DEF Spared, PaidAfterBorn, LiveAreYounger
<1>3. ASSUME NEW t \in Transfers, Mine(t) \/ Reorg(t) PROVE Spared'
  <2>1. UNCHANGED <<head, option, born, gaps, pc, poll>>
    BY <1>3 DEF Mine, Reorg, shop
  <2>2. PaidAfterBorn'
    <3>1. \A u \in Transfers \ {t} : mined'[u] = mined[u]
      BY <1>3, SparedShapes DEF Mine, Reorg
    <3>2. CASE mined'[t] = 0
      BY <2>1, <3>1, <3>2 DEF Spared, PaidAfterBorn
    <3>3. CASE mined'[t] > born[t] /\ option[t] \notin {"none", "checked"}
      BY <2>1, <3>1, <3>3 DEF Spared, PaidAfterBorn
    <3> QED
      BY <1>3, <3>2, <3>3, SparedShapes DEF Mine, Reorg
  <2> QED
    BY <2>1, <2>2 DEF Spared, SkipsThePast, LiveAreYounger
<1>4. CASE Acknowledge
  <2>1. \A g \in gaps' : \E h \in gaps : g.blocks = h.blocks
    BY <1>4 DEF Acknowledge, TypeOK, Gap
  <2> QED
    BY <1>4, <2>1, NothingNewSpared DEF Acknowledge, chain, shop
<1>5. ASSUME NEW t \in Transfers, CommitOption(t) PROVE Spared'
  <2>1. /\ UNCHANGED <<head, mined, gaps, pc, poll>> /\ option[t] = "checked"
        /\ option'[t] = "live" /\ born'[t] = head
        /\ \A u \in Transfers \ {t} : option'[u] = option[u] /\ born'[u] = born[u]
    BY <1>5, SparedShapes DEF CommitOption, chain
  <2>2. PaidAfterBorn'
    BY <2>1 DEF Spared, PaidAfterBorn
  <2>3. LiveAreYounger'
    BY <2>1 DEF Spared, LiveAreYounger, SkipsThePast
  <2> QED
    BY <2>1, <2>2, <2>3 DEF Spared, SkipsThePast
<1>6. ASSUME NEW t \in Transfers,
             CheckNetwork(t) \/ Confirm(t) \/ Lapse(t) \/ Drop(t)
      PROVE  Spared'
  <2>1. /\ UNCHANGED <<mined, born, gaps, pc>> /\ head' = head
        /\ pc \notin {"count", "record"} \/ UNCHANGED poll
        /\ \A u \in Transfers : option'[u] = option[u] \/ option'[u] \notin {"none", "live"}
        /\ \A u \in Transfers : option'[u] = "checked" => option[u] \in {"none", "checked"}
    BY <1>6, SparedShapes DEF CheckNetwork, Confirm, Lapse, Drop, chain, shop
  <2> QED
    BY <1>0, <2>1, NothingNewSpared
<1>7. ASSUME NEW t \in Transfers, Deliver(t) PROVE Spared'
  <2>1. /\ UNCHANGED <<mined, born, gaps, pc>> /\ head' = head /\ pc = "deliver"
    BY <1>7 DEF Deliver, chain
  <2>2. \A u \in Transfers :
          option'[u] = option[u] \/ option'[u] \in {"paid", "inflight"}
    BY <1>7, SparedShapes DEF Deliver, Matched
  <2> QED
    BY <1>0, <2>1, <2>2, NothingNewSpared
<1>8. ASSUME NEW h \in Tips, NEW blind \in BOOLEAN, NEW watched \in SUBSET Transfers,
             StartPoll(h, blind, watched)
      PROVE  Spared'
  <2>1. /\ UNCHANGED <<head, mined, option, born, gaps>>
        /\ poll' = Window(h, blind, watched) /\ pc' # "record"
    BY <1>8 DEF StartPoll, chain, shop
  <2>2. SkipsThePast'
    BY <2>1, SkippedInWindow DEF Spared, SkipsThePast
  <2> QED
    BY <2>1, <2>2 DEF Spared, PaidAfterBorn, LiveAreYounger
<1>9. CASE AllowTheSnap
  <2>1. /\ UNCHANGED <<head, mined, option, born, gaps, poll>> /\ pc = "count"
        /\ \A t \in Transfers : option[t] # "live"
    BY <1>9 DEF AllowTheSnap, Active, chain, shop
  <2> QED
    BY <2>1 DEF Spared, PaidAfterBorn, SkipsThePast, LiveAreYounger
<1>10. CASE RecordGap
  <2>1. /\ UNCHANGED <<head, mined, option, born, poll>> /\ pc = "record" /\ pc' = "logs"
        /\ \A g \in gaps' : g \in gaps \/ g.blocks \subseteq poll.skipped
    BY <1>10 DEF RecordGap, chain, shop
  <2>2. SkipsThePast'
    BY <2>1 DEF Spared, SkipsThePast
  <2>3. LiveAreYounger'
    BY <2>1 DEF Spared, LiveAreYounger
  <2> QED
    BY <2>1, <2>2, <2>3 DEF Spared, PaidAfterBorn
<1> QED
  BY <1>1, <1>2, <1>3, <1>4, <1>5, <1>6, <1>7, <1>8, <1>9, <1>10
     DEF Next, Chain, Checkout, PollNetwork, Upkeep

\* The blocks a snap gives up hold no payment of a live option, although the
\* gate counts in one statement and records in another, and options are made
\* in between (GateCursorSnap, CountActivePaymentOptions).
THEOREM SnapSparesLive == Spec => []SnapSparesLiveOptions
<1>1. Init => Spared
  BY DEF Init, Spared, PaidAfterBorn, SkipsThePast, LiveAreYounger
<1>2. TypeOK /\ Spared => SnapSparesLiveOptions
  <2> SUFFICES ASSUME TypeOK, Spared, NEW t \in Transfers, NEW g \in gaps,
                      option[t] = "live", mined[t] \in g.blocks
               PROVE  FALSE
    BY DEF SnapSparesLiveOptions
  <2>1. mined[t] # 0 /\ mined[t] \in Nat /\ born[t] \in Nat
    BY SparedShapes DEF TypeOK, Gap, Blocks
  <2>2. mined[t] > born[t] /\ mined[t] <= born[t]
    BY <2>1 DEF Spared, PaidAfterBorn, LiveAreYounger
  <2> QED
    BY <2>1, <2>2
<1> QED
  BY <1>1, <1>2, TypeCorrect, SparedInductive, PTL DEF Spec
=============================================================================
