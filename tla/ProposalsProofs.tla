-------------------------- MODULE ProposalsProofs --------------------------
(***************************************************************************)
(* Theorems about Proposals for every number of requests, proposals, keys  *)
(* and attempts. The argument is that of optimistic concurrency: what a    *)
(* request read is a past version of the proposal, so a compare-and-swap   *)
(* that wins writes over exactly what was read.                            *)
(***************************************************************************)
EXTENDS Proposals, FiniteSetTheorems, SequenceTheorems, TLAPS

\* The inductive invariant behind the theorems.
IInv == TypeOK /\ ReadsArePast /\ OneProposalPerKey

\* A transition of the state machine yields a proposal of the next version that
\* keeps its key, contents and deadline.
LEMMA AppliedProposal ==
  ASSUME NEW p \in Proposal, NEW to \in ProposalState, now' \in Nat
  PROVE  /\ Applied(p, to) \in Proposal
         /\ Applied(p, to).version = p.version + 1
         /\ Applied(p, to).key = p.key
         /\ Applied(p, to).digest = p.digest
         /\ Applied(p, to).expires = p.expires
<1> DEFINE entry == [from |-> p.state, to |-> to, at |-> now']
<1>1. entry \in Transition /\ p.history \in Seq(Transition)
  BY DEF Proposal, Transition
<1>2. Append(p.history, entry) \in Seq(Transition)
  BY <1>1, AppendProperties
<1> QED
  BY <1>2 DEF Applied, Proposal

\* A new proposal has the shape of one.
LEMMA CreatedProposal ==
  ASSUME NEW key \in Keys, NEW digest \in Digests, now \in Nat
  PROVE  CreateProposal(key, digest) \in Proposal
         /\ CreateProposal(key, digest).key = key
<1> DEFINE entry == [from |-> "pending_confirmation", to |-> "pending_confirmation", at |-> now]
<1>1. entry \in Transition
  BY DEF Transition, ProposalState
<1>2. <<entry>> \in Seq(Transition)
  BY <1>1
<1>3. now + TTL \in Nat
  BY ConstantsAssumption
<1> QED
  BY <1>2, <1>3 DEF CreateProposal, Proposal, ProposalState

\* Counting an attempt keeps the counter within its limit.
LEMMA ConsumedType ==
  ASSUME NEW max \in Nat \ {0}, NEW a \in [count: 0..max, reset: Nat], now \in Nat
  PROVE  Consumed(a, max) \in [count: 0..max, reset: Nat]
BY ConstantsAssumption DEF Consumed, Allowed

\* A decision and its write take time.
LEMMA ClockGoesOn ==
  ASSUME TypeOK, NEW id, NEW read, NEW to, Swap(id, read, to)
  PROVE  now \in Nat /\ now' \in Nat /\ now <= now'
BY ConstantsAssumption DEF TypeOK, Swap

\* An expiry that a refusal finds at its second look.
LateSwap(k) == Wins(k.id, k.read) /\ Swap(k.id, k.read, "expired") /\ Due(k.read, now')

\* A stored proposal is one.
LEMMA StoredProposal ==
  ASSUME TypeOK, NEW id \in Stored
  PROVE  id \in Ids /\ store[id] \in Proposal
BY DEF TypeOK, Stored

\* The initial state satisfies the invariant.
LEMMA InitIInv == Init => IInv
BY ConstantsAssumption
   DEF Init, IInv, TypeOK, ReadsArePast, ReadIsPast, OneProposalPerKey, Stored, NoAttempts, Idle, Calls

\* A call that refers to the store as it is.
Current(k) ==
  /\ k.step \in {"deliver", "clear", "answered"} => k.id \in Stored
  /\ k.step \in {"confirm", "reject", "execute"} => k.id \in Stored /\ k.read = store[k.id]

\* A step that leaves the store alone and turns a caller to a call that refers
\* to it as it is keeps the invariant.
LEMMA SameStore ==
  ASSUME IInv, TypeOK', UNCHANGED store,
         NEW c \in Callers, NEW next \in Calls, Goto(c, next), Current(next)
  PROVE  IInv'
<1>1. \A d \in Callers : call'[d] = IF d = c THEN next ELSE call[d]
  BY DEF Goto, IInv, TypeOK
<1>2. \A k : ReadIsPast(k) => ReadIsPast(k)'
  BY DEF ReadIsPast, Stored
<1>3. ReadIsPast(next)
  BY StoredProposal DEF Current, ReadIsPast, IInv, Proposal
<1>4. ReadsArePast'
  BY <1>1, <1>2, <1>3 DEF IInv, ReadsArePast, ReadIsPast, Stored
<1>5. OneProposalPerKey'
  BY DEF IInv, OneProposalPerKey, Stored
<1> QED
  BY <1>4, <1>5 DEF IInv


\* A request that is deciding holds a proposal; if nobody wrote since, it holds
\* the stored one.
LEMMA HeldProposal ==
  ASSUME IInv, NEW c \in Callers, call[c].step \in {"confirm", "reject", "execute"}
  PROVE  /\ call[c].id \in Stored /\ call[c].read \in Proposal
         /\ Wins(call[c].id, call[c].read) => call[c].read = store[call[c].id]
<1>1. call[c] \in Calls
  BY DEF IInv, TypeOK
<1>2. call[c].read \in Proposal
  BY <1>1 DEF Calls
<1> QED
  BY <1>2 DEF IInv, ReadsArePast, ReadIsPast, Wins

\* A compare-and-swap that wins keeps the invariant.
LEMMA Swapped ==
  ASSUME IInv, TypeOK',
         NEW c \in Callers, call[c].step \in {"confirm", "reject", "execute"},
         NEW to \in ProposalState,
         Wins(call[c].id, call[c].read), Swap(call[c].id, call[c].read, to),
         NEW next \in Calls, Goto(c, next),
         next.step \notin {"confirm", "reject", "execute"},
         next.step \in {"deliver", "clear", "answered"} => next.id = call[c].id
  PROVE  IInv'
<1> DEFINE id == call[c].id
           old == store[id]
           new == Applied(old, to)
<1>1. id \in Ids /\ id \in Stored /\ old \in Proposal /\ call[c].read = old
  BY HeldProposal, StoredProposal DEF IInv
<1>2. now' \in Nat /\ store \in [Ids -> Proposal \cup {NoProposal}]
  BY DEF IInv, TypeOK
<1>3. /\ new \in Proposal /\ new.version = old.version + 1 /\ new.key = old.key
      /\ old.version \in Nat
  BY <1>1, <1>2, AppliedProposal DEF Proposal
<1> HIDE DEF new
<1>4. store' = [store EXCEPT ![id] = new]
  BY <1>1 DEF Swap, new
<1> HIDE DEF old, id
<1>5. /\ \A i \in Ids : store'[i] = IF i = id THEN new ELSE store[i]
      /\ Stored' = Stored
  BY <1>1, <1>2, <1>3, <1>4, ConstantsAssumption DEF Stored
<1>6. \A d \in Callers : call'[d] = IF d = c THEN next ELSE call[d]
  BY DEF Goto, IInv, TypeOK
<1>7. \A d \in Callers \ {c} : ReadIsPast(call[d])'
  <2> SUFFICES ASSUME NEW d \in Callers \ {c}
               PROVE  ReadIsPast(call[d])'
    OBVIOUS
  <2>1. call'[d] = call[d] /\ ReadIsPast(call[d])
    BY <1>6 DEF IInv, ReadsArePast
  <2>2. CASE call[d].step \in {"confirm", "reject", "execute"}
    <3>1. call[d].read \in Proposal /\ call[d].id \in Stored
      BY <2>2, HeldProposal
    <3>2. call[d].read.version \in Nat
      BY <3>1 DEF Proposal
    <3>3. call[d].id # id => store'[call[d].id] = store[call[d].id]
      BY <1>5, <3>1 DEF Stored
    <3>4. CASE call[d].id # id
      BY <1>5, <2>1, <2>2, <3>1, <3>3, <3>4 DEF ReadIsPast
    <3>5. CASE call[d].id = id
      <4>1. /\ call[d].read.key = old.key
            /\ call[d].read.version <= old.version
        BY <2>1, <2>2, <3>5 DEF ReadIsPast, old
      <4>2. store'[id] = new
        BY <1>1, <1>5
      <4>3. call[d].read.version < new.version
        BY <1>3, <3>2, <4>1
      <4> QED
        BY <1>1, <1>3, <1>5, <2>1, <2>2, <3>2, <3>5, <4>1, <4>2, <4>3 DEF ReadIsPast
    <3> QED
      BY <3>4, <3>5
  <2>3. CASE call[d].step \notin {"confirm", "reject", "execute"}
    BY <1>5, <2>1, <2>3 DEF ReadIsPast
  <2> QED
    BY <2>2, <2>3
<1>8. ReadIsPast(call[c])'
  BY <1>1, <1>5, <1>6 DEF ReadIsPast, id
<1>9. ReadsArePast'
  BY <1>7, <1>8 DEF ReadsArePast
<1>10. OneProposalPerKey'
  <2>1. \A i \in Stored : store'[i].key = store[i].key
    BY <1>3, <1>5 DEF Stored, old
  <2> QED
    BY <1>5, <2>1 DEF IInv, OneProposalPerKey
<1> QED
  BY <1>9, <1>10 DEF IInv

\* What a call carries at each step.
LEMMA CallFields ==
  ASSUME TypeOK, NEW c \in Callers
  PROVE  /\ call[c].step = "propose" => call[c].key \in Keys /\ call[c].digest \in Digests
         /\ call[c].step \in {"deliver", "clear"} => call[c].id \in Ids
         /\ call[c].step \in {"confirm", "reject", "execute"} =>
              call[c].id \in Ids /\ call[c].read \in Proposal
<1>1. call[c] \in Calls
  BY DEF TypeOK
<1> QED
  BY <1>1 DEF Calls

\* A caller that turns to another call has a call again.
LEMMA GotoType ==
  ASSUME TypeOK, NEW c \in Callers, NEW next \in Calls, Goto(c, next)
  PROVE  call' \in [Callers -> Calls]
BY DEF TypeOK, Goto

\* An idle caller carries nothing.
LEMMA IdleCall == Idle \in Calls /\ Current(Idle)
BY DEF Idle, Calls, Current

\* Every step of a request that proposes keeps the invariant.
LEMMA ProposeSteps ==
  ASSUME IInv, NEW c \in Callers,
         \/ \E key \in Keys, digest \in Digests : StartPropose(c, key, digest)
         \/ Deliver(c)
  PROVE  IInv'
<1>1. CASE \E key \in Keys, digest \in Digests : StartPropose(c, key, digest)
  <2>1. PICK key \in Keys, digest \in Digests : StartPropose(c, key, digest)
    BY <1>1
  <2> DEFINE next == [step |-> "propose", key |-> key, digest |-> digest]
  <2>2. next \in Calls /\ Current(next)
    BY DEF Calls, Current
  <2>3. TypeOK'
    BY <2>1, <2>2, GotoType DEF IInv, TypeOK, StartPropose, limits
  <2> QED
    BY <2>1, <2>2, <2>3, SameStore DEF StartPropose
<1>2. CASE Deliver(c)
  <2>1. TypeOK'
    BY <1>2, CallFields, IdleCall, GotoType DEF IInv, TypeOK, Deliver, limits
  <2> QED
    BY <1>2, <2>1, IdleCall, SameStore DEF Deliver
<1> QED
  BY <1>1, <1>2

\* Inserting a proposal adds one under a key that nobody has.
LEMMA InsertStep ==
  ASSUME IInv, NEW c \in Callers, InsertProposal(c)
  PROVE  IInv'
<1>1. CASE UNCHANGED store /\ Goto(c, Idle)
  <2>1. TypeOK'
    BY <1>1, IdleCall, GotoType DEF IInv, TypeOK, InsertProposal, limits
  <2> QED
    BY <1>1, <2>1, IdleCall, SameStore
<1>2. CASE \E id \in Ids :
             /\ Insertable(id, call[c].key)
             /\ store' = [store EXCEPT ![id] = CreateProposal(call[c].key, call[c].digest)]
             /\ Goto(c, [step |-> "deliver", id |-> id])
  <2>1. PICK id \in Ids :
          /\ Insertable(id, call[c].key)
          /\ store' = [store EXCEPT ![id] = CreateProposal(call[c].key, call[c].digest)]
          /\ Goto(c, [step |-> "deliver", id |-> id])
    BY <1>2
  <2> DEFINE new  == CreateProposal(call[c].key, call[c].digest)
             next == [step |-> "deliver", id |-> id]
  <2>2. new \in Proposal /\ new.key = call[c].key
    BY CallFields, CreatedProposal DEF IInv, TypeOK, InsertProposal
  <2>3. next \in Calls
    BY DEF Calls
  <2> HIDE DEF new
  <2>4. TypeOK'
    BY <2>1, <2>2, <2>3, GotoType DEF IInv, TypeOK, InsertProposal, limits, new
  <2>5. /\ \A i \in Ids : store'[i] = IF i = id THEN new ELSE store[i]
        /\ Stored' = Stored \cup {id} /\ id \notin Stored
    BY <2>1, <2>2, ConstantsAssumption DEF IInv, TypeOK, Stored, Insertable, new
  <2>6. \A d \in Callers : call'[d] = IF d = c THEN next ELSE call[d]
    BY <2>1 DEF Goto, IInv, TypeOK
  <2>7. \A d \in Callers : ReadIsPast(call[d])'
    <3> SUFFICES ASSUME NEW d \in Callers
                 PROVE  ReadIsPast(call[d])'
      OBVIOUS
    <3>1. CASE d = c
      BY <2>5, <2>6, <3>1 DEF ReadIsPast
    <3>2. CASE d # c
      <4>1. call'[d] = call[d] /\ ReadIsPast(call[d])
        BY <2>6, <3>2 DEF IInv, ReadsArePast
      <4>2. \A i \in Stored : i \in Stored' /\ store'[i] = store[i]
        BY <2>5 DEF Stored
      <4> QED
        BY <4>1, <4>2 DEF ReadIsPast
    <3> QED
      BY <3>1, <3>2
  <2>8. OneProposalPerKey'
    <3>1. \A i \in Stored : store'[i] = store[i] /\ store[i].key # new.key
      BY <2>1, <2>2, <2>5 DEF Insertable, KeyTaken, Stored
    <3> QED
      BY <2>5, <3>1 DEF IInv, OneProposalPerKey
  <2> QED
    BY <2>4, <2>7, <2>8 DEF IInv, ReadsArePast
<1> QED
  BY <1>1, <1>2 DEF InsertProposal

\* A request that reads the proposal it is about keeps the invariant.
LEMMA ReadSteps ==
  ASSUME IInv, NEW c \in Callers,
         \/ \E id \in Ids : StartReject(c, id)
         \/ \E id \in Ids, right \in BOOLEAN, seen \in Digests : StartConfirm(c, id, right, seen)
         \/ StartExecute(c)
  PROVE  IInv'
<1>1. CASE \E id \in Ids : StartReject(c, id)
  <2>1. PICK id \in Ids : StartReject(c, id)
    BY <1>1
  <2> DEFINE next == [step |-> "reject", id |-> id, read |-> store[id]]
  <2>2. next \in Calls /\ Current(next)
    BY <2>1, StoredProposal DEF IInv, Calls, Current, StartReject
  <2>3. TypeOK'
    BY <2>1, <2>2, GotoType DEF IInv, TypeOK, StartReject, limits
  <2> QED
    BY <2>1, <2>2, <2>3, SameStore DEF StartReject
<1>2. CASE \E id \in Ids, right \in BOOLEAN, seen \in Digests : StartConfirm(c, id, right, seen)
  <2>1. PICK id \in Ids, right \in BOOLEAN, seen \in Digests : StartConfirm(c, id, right, seen)
    BY <1>2
  <2> DEFINE next == [step |-> "confirm", id |-> id, read |-> store[id], right |-> right, seen |-> seen]
  <2>2. next \in Calls /\ Current(next)
    BY <2>1, StoredProposal DEF IInv, Calls, Current, StartConfirm
  <2>3. /\ Goto(c, next) \/ Goto(c, Idle)
        /\ UNCHANGED <<now, store, codes, guesses>>
    BY <2>1 DEF StartConfirm
  <2>4. /\ limiter' \in [Ids -> [count: 0..MaxAttempts, reset: Nat]]
        /\ global' \in [count: 0..GlobalAttempts, reset: Nat]
    BY <2>1, ConsumedType, ConstantsAssumption DEF IInv, TypeOK, StartConfirm
  <2>5. TypeOK'
    BY <2>2, <2>3, <2>4, GotoType, IdleCall DEF IInv, TypeOK
  <2> QED
    BY <2>2, <2>3, <2>5, IdleCall, SameStore
<1>3. CASE StartExecute(c)
  <2> DEFINE id   == call[c].id
             next == [step |-> "execute", id |-> id, read |-> store[id]]
  <2>1. id \in Stored
    BY <1>3 DEF IInv, ReadsArePast, ReadIsPast, StartExecute
  <2>2. next \in Calls /\ Current(next)
    BY <2>1, StoredProposal DEF IInv, Calls, Current
  <2>3. limiter' \in [Ids -> [count: 0..MaxAttempts, reset: Nat]]
    <3>1. NoAttempts \in [count: 0..MaxAttempts, reset: Nat]
      BY ConstantsAssumption DEF NoAttempts
    <3> QED
      BY <1>3, <3>1 DEF IInv, TypeOK, StartExecute
  <2>4. TypeOK'
    BY <1>3, <2>2, <2>3, GotoType DEF IInv, TypeOK, StartExecute
  <2> QED
    BY <1>3, <2>2, <2>4, SameStore DEF StartExecute
<1> QED
  BY <1>1, <1>2, <1>3

\* A request that is refused, and stores no expiry, keeps it.
LEMMA RefusedSteps ==
  ASSUME IInv, NEW c \in Callers, UNCHANGED <<now, store>>,
         ConfirmRefused(c) \/ ConcludeRefused(c) \/ ConfirmExpired(c)
  PROVE  IInv'
<1>1. /\ Goto(c, Idle)
      /\ UNCHANGED <<now, store, codes, limiter, global>>
  BY DEF ConfirmRefused, ConcludeRefused, ConfirmExpired, limits
<1>2. guesses' \in [Ids -> Nat]
  BY CallFields DEF IInv, TypeOK, ConfirmRefused, ConcludeRefused, ConfirmExpired
<1>3. TypeOK'
  BY <1>1, <1>2, GotoType, IdleCall DEF IInv, TypeOK
<1> QED
  BY <1>1, <1>3, IdleCall, SameStore

\* The type of the tables after a compare-and-swap.
LEMMA SwappedType ==
  ASSUME IInv, NEW c \in Callers, call[c].step \in {"confirm", "reject", "execute"},
         NEW to \in ProposalState, Swap(call[c].id, call[c].read, to),
         NEW next \in Calls, Goto(c, next),
         UNCHANGED <<codes, limiter, global>>, guesses' \in [Ids -> Nat]
  PROVE  TypeOK'
<1>1. call[c].id \in Ids /\ call[c].read \in Proposal
  BY CallFields DEF IInv
<1>2. Applied(call[c].read, to) \in Proposal
  BY <1>1, AppliedProposal, ClockGoesOn DEF IInv
<1>3. store' \in [Ids -> Proposal \cup {NoProposal}]
  BY <1>2 DEF IInv, TypeOK, Swap
<1> QED
  BY <1>3, GotoType, ClockGoesOn DEF IInv, TypeOK

\* The compare-and-swaps that win keep the invariant.
LEMMA WinningSteps ==
  ASSUME IInv, NEW c \in Callers,
         \/ ConfirmAccepted(c) \/ Conclude(c)
         \/ ConfirmExpired(c) /\ Wins(call[c].id, call[c].read)
         \/ ConfirmRefused(c) /\ LateSwap(call[c])
  PROVE  IInv'
<1> DEFINE k == call[c]
<1>0. guesses \in [Ids -> Nat] /\ (UNCHANGED guesses => guesses' \in [Ids -> Nat])
  BY DEF IInv, TypeOK
<1>1. CASE ConfirmAccepted(c)
  <2> DEFINE next == [step |-> "clear", id |-> k.id]
  <2>1. next \in Calls /\ "confirmed" \in ProposalState
    BY <1>1, CallFields DEF ConfirmAccepted, IInv, Calls, ProposalState
  <2>2. TypeOK'
    BY <1>0, <1>1, <2>1, SwappedType DEF ConfirmAccepted, limits
  <2> QED
    BY <1>1, <2>1, <2>2, Swapped DEF ConfirmAccepted
<1>2. CASE Conclude(c)
  <2> DEFINE to   == Outcome[k.step]
             next == [step |-> "answered", id |-> k.id, told |-> to]
  <2>1. k.step \in {"reject", "execute"} /\ to \in {"executed", "rejected"}
    BY <1>2 DEF Conclude, Outcome
  <2>2. next \in Calls /\ to \in ProposalState
    BY <2>1, CallFields DEF IInv, Calls, ProposalState
  <2>3. /\ Wins(k.id, k.read) /\ Swap(k.id, k.read, to) /\ Goto(c, next)
        /\ UNCHANGED <<codes, limiter, global, guesses>>
    BY <1>2 DEF Conclude, CanConclude, limits
  <2> HIDE DEF to
  <2>4. TypeOK'
    BY <1>0, <2>1, <2>2, <2>3, SwappedType
  <2> QED
    BY <2>1, <2>2, <2>3, <2>4, Swapped
<1>3. CASE ConfirmExpired(c) /\ Wins(k.id, k.read)
  <2>1. "expired" \in ProposalState
    BY DEF ProposalState
  <2>2. Swap(k.id, k.read, "expired") /\ k.step = "confirm"
    BY <1>3 DEF ConfirmExpired
  <2>3. TypeOK'
    BY <1>0, <1>3, <2>1, <2>2, IdleCall, SwappedType DEF ConfirmExpired, limits
  <2> QED
    BY <1>3, <2>1, <2>2, <2>3, IdleCall, Swapped DEF ConfirmExpired, Idle
<1>4. CASE ConfirmRefused(c) /\ LateSwap(k)
  <2>1. /\ "expired" \in ProposalState /\ k.step = "confirm" /\ Goto(c, Idle)
        /\ Wins(k.id, k.read) /\ Swap(k.id, k.read, "expired")
        /\ UNCHANGED <<codes, limiter, global>>
    BY <1>4 DEF ConfirmRefused, LateSwap, ProposalState, limits
  <2>2. guesses' \in [Ids -> Nat]
    BY <1>0, <1>4, CallFields DEF IInv, ConfirmRefused
  <2>3. TypeOK'
    BY <2>1, <2>2, IdleCall, SwappedType
  <2> QED
    BY <2>1, <2>3, IdleCall, Swapped DEF Idle
<1> QED
  BY <1>1, <1>2, <1>3, <1>4

\* Time passing, and nothing happening, keep the invariant.
LEMMA QuietSteps ==
  ASSUME IInv, Tick \/ UNCHANGED vars
  PROVE  IInv'
<1>1. TypeOK'
  BY DEF IInv, TypeOK, Tick, vars, limits
<1> QED
  BY <1>1 DEF IInv, ReadsArePast, ReadIsPast, OneProposalPerKey, Stored, Tick, vars

\* The invariant is inductive.
LEMMA NextIInv == IInv /\ [Next]_vars => IInv'
<1> SUFFICES ASSUME IInv, [Next]_vars
             PROVE  IInv'
  OBVIOUS
<1>1. CASE Tick \/ UNCHANGED vars
  BY <1>1, QuietSteps
<1>2. ASSUME NEW c \in Callers, Start(c)
      PROVE  IInv'
  BY <1>2, ProposeSteps, ReadSteps DEF Start
<1>3. ASSUME NEW c \in Callers, Proceed(c)
      PROVE  IInv'
  <2>1. ConfirmExpired(c) => UNCHANGED <<now, store>> \/ Wins(call[c].id, call[c].read)
    BY DEF ConfirmExpired
  <2>2. ConfirmRefused(c) => UNCHANGED <<now, store>> \/ LateSwap(call[c])
    BY DEF ConfirmRefused, LateExpiry, LateSwap
  <2>3. ConcludeRefused(c) => UNCHANGED <<now, store>>
    BY DEF ConcludeRefused
  <2> QED
    BY <1>3, <2>1, <2>2, <2>3, ProposeSteps, InsertStep, ReadSteps, RefusedSteps, WinningSteps DEF Proceed
<1> QED
  BY <1>1, <1>2, <1>3 DEF Next

\* The invariant always holds.
LEMMA IInvAlways == Spec => []IInv
BY InitIInv, NextIInv, PTL DEF Spec

-----------------------------------------------------------------------------
\* Every record, counter and call keeps its shape, and no counter passes its
\* limit, for any number of requests side by side.
THEOREM TypeCorrect == Spec => []TypeOK
<1>1. IInv => TypeOK
  BY DEF IInv
<1> QED
  BY <1>1, IInvAlways, PTL

\* A request never holds anything but a past version of its proposal: a
\* compare-and-swap that finds the version it read writes over what it read.
THEOREM ReadsPast == Spec => []ReadsArePast
<1>1. IInv => ReadsArePast
  BY DEF IInv
<1> QED
  BY <1>1, IInvAlways, PTL

\* However many requests retry a proposal at once, its key has one proposal.
THEOREM OnePerKey == Spec => []OneProposalPerKey
<1>1. IInv => OneProposalPerKey
  BY DEF IInv
<1> QED
  BY <1>1, IInvAlways, PTL

\* A step moves a proposal that is not decided by one legal transition, in time,
\* from what is stored, ...
Moves(id, to) ==
  /\ store[id].state \notin Terminal /\ to \in Legal[store[id].state]
  /\ to \in {"confirmed", "rejected"} => now < store[id].expires
  /\ to = "expired" => now' >= store[id].expires
  /\ store' = [store EXCEPT ![id] = Applied(store[id], to)]

\* ... or adds a pending proposal, or leaves them all alone.
StoreStep ==
  /\ now' \in Nat /\ now <= now'
  /\ \/ UNCHANGED store
     \/ \E id \in Ids \ Stored, key \in Keys, digest \in Digests :
          store' = [store EXCEPT ![id] = CreateProposal(key, digest)]
     \/ \E id \in Stored, to \in ProposalState : Moves(id, to)

\* Which transitions the state machine allows.
LEMMA LegalMoves ==
  ASSUME NEW s \in ProposalState, NEW to
  PROVE  /\ to \in Legal[s] <=>
              \/ s = "pending_confirmation" /\ to \in {"confirmed", "rejected", "expired"}
              \/ s = "confirmed" /\ to \in {"executed", "failed"}
         /\ to \in Legal[s] => s \notin Terminal
BY DEF Legal, ProposalState, Terminal

\* That is all a step of the gateway does to the stored proposals.
LEMMA NextStoreStep ==
  ASSUME IInv, Next
  PROVE  StoreStep
<1>0. now \in Nat /\ now <= now /\ (UNCHANGED now => now' \in Nat /\ now <= now')
  BY DEF IInv, TypeOK
<1>1. CASE Tick
  BY <1>0, <1>1 DEF Tick, StoreStep
<1>2. ASSUME NEW c \in Callers, Start(c)
      PROVE  StoreStep
  <2>1. UNCHANGED <<now, store>>
    BY <1>2 DEF Start, StartPropose, StartReject, StartConfirm
  <2> QED
    BY <1>0, <2>1 DEF StoreStep
<1>3. ASSUME NEW c \in Callers, Proceed(c)
      PROVE  StoreStep
  <2> DEFINE k == call[c]
  <2>1. CASE InsertProposal(c)
    <3>1. k.key \in Keys /\ k.digest \in Digests
      BY <2>1, CallFields DEF IInv, InsertProposal
    <3> QED
      BY <1>0, <2>1, <3>1 DEF InsertProposal, Insertable, StoreStep
  <2>2. ASSUME k.step \in {"confirm", "reject", "execute"}, NEW to \in ProposalState, May(k.read, to),
               to \in {"confirmed", "rejected"} => ~Due(k.read, now),
               Wins(k.id, k.read), Swap(k.id, k.read, to),
               to = "expired" => Due(k.read, now')
        PROVE  StoreStep
    <3>1. k.id \in Stored /\ k.read \in Proposal /\ k.read = store[k.id]
      BY <2>2, HeldProposal
    <3>2. now' \in Nat /\ now <= now'
      BY <2>2, ClockGoesOn DEF IInv
    <3>3. to \in {"confirmed", "rejected"} => now < store[k.id].expires
      <4>1. now \in Nat /\ k.read.expires \in Nat /\ k.read.state \in ProposalState
        BY <3>1 DEF IInv, TypeOK, Proposal
      <4>2. to \in {"confirmed", "rejected"} => k.read.state = "pending_confirmation"
        BY <2>2, <4>1, LegalMoves DEF May
      <4> QED
        BY <2>2, <3>1, <4>1, <4>2 DEF Due
    <3>4. to = "expired" => now' >= store[k.id].expires
      BY <2>2, <3>1 DEF Due
    <3>5. Moves(k.id, to)
      BY <2>2, <3>1, <3>3, <3>4 DEF Moves, Swap, May
    <3> QED
      BY <3>1, <3>2, <3>5 DEF StoreStep
  <2>3. CASE ConfirmAccepted(c)
    <3>1. "confirmed" \in ProposalState
      BY DEF ProposalState
    <3> QED
      BY <2>2, <2>3, <3>1 DEF ConfirmAccepted
  <2>4. CASE Conclude(c)
    <3>1. k.step \in {"reject", "execute"} /\ Outcome[k.step] \in ProposalState \ {"expired"}
      BY <2>4 DEF Conclude, Outcome, ProposalState
    <3> QED
      BY <2>2, <2>4, <3>1 DEF Conclude, CanConclude
  <2>5. ASSUME k.step = "confirm", LateSwap(k)
        PROVE  StoreStep
    <3>1. "expired" \in ProposalState /\ May(k.read, "expired")
      BY <2>5, LegalMoves DEF LateSwap, Due, May, ProposalState
    <3> QED
      BY <2>2, <2>5, <3>1 DEF LateSwap
  <2>6. CASE ConfirmExpired(c)
    <3>1. CASE UNCHANGED <<now, store>>
      BY <1>0, <3>1 DEF StoreStep
    <3>2. CASE Wins(k.id, k.read) /\ Swap(k.id, k.read, "expired")
      <4>1. k.step = "confirm" /\ Due(k.read, now) /\ k.read.expires \in Nat
        BY <2>6, CallFields DEF ConfirmExpired, IInv, Proposal
      <4>2. Due(k.read, now')
        BY <3>2, <4>1, ClockGoesOn DEF Due, IInv
      <4> QED
        BY <2>5, <3>2, <4>1, <4>2 DEF LateSwap
    <3> QED
      BY <2>6, <3>1, <3>2 DEF ConfirmExpired
  <2>7. CASE ConfirmRefused(c)
    <3>1. CASE UNCHANGED <<now, store>>
      BY <1>0, <3>1 DEF StoreStep
    <3>2. CASE LateSwap(k)
      BY <2>5, <2>7, <3>2 DEF ConfirmRefused
    <3> QED
      BY <2>7, <3>1, <3>2 DEF ConfirmRefused, LateExpiry, LateSwap
  <2>8. CASE Deliver(c) \/ StartExecute(c) \/ ConcludeRefused(c)
    <3>1. UNCHANGED <<now, store>>
      BY <2>8 DEF Deliver, StartExecute, ConcludeRefused
    <3> QED
      BY <1>0, <3>1 DEF StoreStep
  <2> QED
    BY <1>3, <2>1, <2>3, <2>4, <2>6, <2>7, <2>8 DEF Proceed
<1> QED
  BY <1>1, <1>2, <1>3 DEF Next

\* A human's decision of a proposal begins before the deadline of it, however
\* long before the proposal was read (confirm, reject and expireIfDue).
THEOREM InTime == Spec => DecidedInTime
<1> DEFINE Timely ==
      \A id \in Stored :
        store[id].state = "pending_confirmation" /\ store'[id].state \in {"confirmed", "rejected"}
          => now < store[id].expires
<1>1. IInv /\ [Next]_vars => [Timely]_store
  <2> SUFFICES ASSUME IInv, Next, NEW id \in Stored,
                      store[id].state = "pending_confirmation",
                      store'[id].state \in {"confirmed", "rejected"}
               PROVE  now < store[id].expires
    BY DEF vars
  <2>1. store \in [Ids -> Proposal \cup {NoProposal}] /\ id \in Ids
    BY DEF IInv, TypeOK, Stored
  <2>2. PICK j \in Stored, to \in ProposalState : Moves(j, to)
    <3>1. store'[id] # store[id]
      OBVIOUS
    <3>2. ASSUME NEW i \in Ids \ Stored, NEW p, store' = [store EXCEPT ![i] = p]
          PROVE  FALSE
      BY <2>1, <3>1, <3>2
    <3> QED
      BY <3>1, <3>2, NextStoreStep DEF StoreStep
  <2>3. j = id /\ store'[id] = Applied(store[id], to)
    BY <2>1, <2>2 DEF Moves
  <2>4. store'[id].state = to
    BY <2>3 DEF Applied
  <2> QED
    BY <2>2, <2>3, <2>4 DEF Moves
<1> QED
  BY <1>1, IInvAlways, PTL DEF Spec, DecidedInTime

\* A proposal that was rejected, expired, executed or failed never changes
\* again, whatever requests that read it before do afterwards; and no proposal
\* ever changes its key, its contents or its deadline.
THEOREM OutcomeFinal == Spec => OutcomeIsFinal
<1> DEFINE Final ==
      \A id \in Stored :
        /\ store[id].state \in Terminal => store'[id] = store[id]
        /\ store'[id].key = store[id].key /\ store'[id].digest = store[id].digest
        /\ store'[id].expires = store[id].expires
<1>1. IInv /\ [Next]_vars => [Final]_store
  <2> SUFFICES ASSUME IInv, Next
               PROVE  Final
    BY DEF vars
  <2>1. StoreStep
    BY NextStoreStep
  <2>2. store \in [Ids -> Proposal \cup {NoProposal}] /\ now' \in Nat
    BY <2>1 DEF IInv, TypeOK, StoreStep
  <2>3. CASE UNCHANGED store
    BY <2>3
  <2>4. ASSUME NEW id \in Ids \ Stored, NEW p, store' = [store EXCEPT ![id] = p]
        PROVE  Final
    BY <2>2, <2>4 DEF Stored
  <2>5. ASSUME NEW id \in Stored, NEW to \in ProposalState, store[id].state \notin Terminal,
               store' = [store EXCEPT ![id] = Applied(store[id], to)]
        PROVE  Final
    <3>1. store[id] \in Proposal
      BY StoredProposal DEF IInv
    <3>2. /\ Applied(store[id], to).key = store[id].key
          /\ Applied(store[id], to).digest = store[id].digest
          /\ Applied(store[id], to).expires = store[id].expires
      BY <2>2, <3>1, AppliedProposal
    <3> QED
      BY <2>2, <2>5, <3>2 DEF Stored
  <2> QED
    BY <2>1, <2>3, <2>4, <2>5 DEF StoreStep, Moves
<1> QED
  BY <1>1, IInvAlways, PTL DEF Spec, OutcomeIsFinal

-----------------------------------------------------------------------------
\* The audit trail of one proposal, which has an entry at least, and none that is
\* stamped after the time.
Trail(p, time) ==
  LET h == p.history
  IN  /\ p.version >= 1
      /\ Len(h) = p.version /\ h[Len(h)].to = p.state
      /\ h[1].to = "pending_confirmation" /\ h[Len(h)].at <= time
      /\ \A n \in 2..Len(h) :
           /\ h[n].from = h[n - 1].to /\ h[n].to \in Legal[h[n].from]
           /\ h[n - 1].at <= h[n].at
           /\ h[n].to = "expired" => h[n].at >= p.expires

\* The trail of every stored proposal is one.
Trails == \A id \in Stored : Trail(store[id], now)

\* A new proposal has a trail of one entry.
LEMMA CreatedTrail ==
  ASSUME NEW key, NEW digest, now \in Nat
  PROVE  Trail(CreateProposal(key, digest), now)
BY DEF Trail, CreateProposal

\* A trail stays one while the clock goes on.
LEMMA TrailKept ==
  ASSUME NEW p \in Proposal, NEW t \in Nat, NEW u \in Nat, t <= u, Trail(p, t)
  PROVE  Trail(p, u)
<1> DEFINE h == p.history
<1>1. h \in Seq(Transition) /\ Len(h) \in Nat /\ Len(h) >= 1
  BY DEF Proposal, Trail
<1>2. Len(h) \in 1..Len(h)
  BY <1>1
<1>3. h[Len(h)] \in Transition
  BY <1>1, <1>2, ElementOfSeq
<1>4. h[Len(h)].at \in Nat
  BY <1>3 DEF Transition
<1>5. h[Len(h)].at <= u
  BY <1>4 DEF Trail
<1> QED
  BY <1>5 DEF Trail

\* A legal transition continues the trail.
LEMMA AppliedTrail ==
  ASSUME NEW p \in Proposal, NEW to \in Legal[p.state], now \in Nat, now' \in Nat, now <= now',
         Trail(p, now), to = "expired" => now' >= p.expires
  PROVE  Trail(Applied(p, to), now')
<1> DEFINE h     == p.history
           entry == [from |-> p.state, to |-> to, at |-> now']
           g     == Append(h, entry)
           legal(k, n) ==
             /\ k[n].from = k[n - 1].to /\ k[n].to \in Legal[k[n].from]
             /\ k[n - 1].at <= k[n].at
             /\ k[n].to = "expired" => k[n].at >= p.expires
<1>1. p.state \in ProposalState /\ h \in Seq(Transition) /\ p.version \in Nat
  BY DEF Proposal
<1>2. entry \in Transition
  BY <1>1, LegalMoves DEF Transition, ProposalState
<1>3. /\ Len(h) = p.version /\ Len(h) >= 1 /\ Len(h) \in Nat
      /\ h[Len(h)].to = p.state /\ h[1].to = "pending_confirmation"
      /\ h[Len(h)].at <= now
      /\ \A n \in 2..Len(h) : legal(h, n)
  BY <1>1 DEF Trail
<1>4. h[Len(h)].at \in Nat
  <2>1. Len(h) \in 1..Len(h)
    BY <1>3
  <2>2. h[Len(h)] \in Transition
    BY <1>1, <2>1, ElementOfSeq
  <2> QED
    BY <2>2 DEF Transition
<1> HIDE DEF h
<1>5. /\ Len(g) = Len(h) + 1
      /\ \A n \in 1..Len(h) : g[n] = h[n]
      /\ g[Len(h) + 1] = entry
  BY <1>1, <1>2, AppendProperties
<1> HIDE DEF g
<1>6. /\ entry.from = p.state /\ entry.to = to /\ entry.at = now'
  OBVIOUS
<1> HIDE DEF entry
<1>7. ASSUME NEW n \in 2..Len(g)
      PROVE  legal(g, n)
  <2>1. CASE n = Len(h) + 1
    <3>1. n - 1 = Len(h) /\ Len(h) \in 1..Len(h)
      BY <1>3, <2>1
    <3>2. g[n] = entry /\ g[n - 1] = h[Len(h)]
      BY <1>5, <2>1, <3>1
    <3>3. h[Len(h)].at <= now'
      BY <1>3, <1>4
    <3> QED
      BY <1>3, <1>6, <3>2, <3>3
  <2>2. CASE n \in 2..Len(h)
    <3>1. g[n] = h[n] /\ g[n - 1] = h[n - 1]
      BY <1>3, <1>5, <2>2
    <3> QED
      BY <1>3, <2>2, <3>1
  <2> QED
    BY <1>3, <1>5, <2>1, <2>2
<1>8. g[Len(g)].to = to /\ g[1].to = "pending_confirmation" /\ g[Len(g)].at <= now'
  BY <1>3, <1>5, <1>6
<1> DEFINE q == Applied(p, to)
<1>9. q.history = g /\ q.version = p.version + 1 /\ q.state = to /\ q.expires = p.expires
  BY DEF Applied, g, h, entry
<1> HIDE DEF q
<1>10. q.version >= 1 /\ Len(q.history) = q.version
  BY <1>1, <1>3, <1>5, <1>9
<1>11. Trail(q, now')
  BY <1>7, <1>8, <1>9, <1>10 DEF Trail
<1> QED
  BY <1>11 DEF q

\* A step of the gateway keeps the trails.
LEMMA NextTrails == IInv /\ Trails /\ [Next]_vars => Trails'
<1> SUFFICES ASSUME IInv, Trails, [Next]_vars
             PROVE  Trails'
  OBVIOUS
<1>1. store \in [Ids -> Proposal \cup {NoProposal}] /\ now \in Nat
  BY DEF IInv, TypeOK
<1>2. StoreStep
  <2>1. UNCHANGED vars => now' \in Nat /\ now <= now' /\ UNCHANGED store
    BY <1>1 DEF vars
  <2> QED
    BY <2>1, NextStoreStep DEF StoreStep
<1>3. now' \in Nat /\ now <= now'
  BY <1>2 DEF StoreStep
<1>4. ASSUME NEW id \in Stored
      PROVE  store[id] \in Proposal /\ Trail(store[id], now) /\ Trail(store[id], now')
  BY <1>1, <1>3, StoredProposal, TrailKept DEF IInv, Trails
<1>5. CASE UNCHANGED store
  BY <1>4, <1>5 DEF Trails, Stored
<1>6. ASSUME NEW id \in Ids, NEW p, Trail(p, now'), store' = [store EXCEPT ![id] = p]
      PROVE  Trails'
  <2> SUFFICES ASSUME NEW i \in Stored'
               PROVE  Trail(store'[i], now')
    BY DEF Trails
  <2>1. CASE i = id
    BY <1>1, <1>6, <2>1
  <2>2. CASE i # id
    BY <1>1, <1>4, <1>6, <2>2 DEF Stored
  <2> QED
    BY <2>1, <2>2
<1>7. ASSUME NEW id \in Ids \ Stored, NEW key \in Keys, NEW digest \in Digests,
             store' = [store EXCEPT ![id] = CreateProposal(key, digest)]
      PROVE  Trails'
  <2>1. CreateProposal(key, digest) \in Proposal /\ Trail(CreateProposal(key, digest), now)
    BY <1>1, CreatedProposal, CreatedTrail
  <2>2. Trail(CreateProposal(key, digest), now')
    BY <1>1, <1>3, <2>1, TrailKept
  <2> QED
    BY <1>6, <1>7, <2>2
<1>8. ASSUME NEW id \in Stored, NEW to \in ProposalState, Moves(id, to)
      PROVE  Trails'
  <2>1. Trail(Applied(store[id], to), now')
    BY <1>1, <1>3, <1>4, <1>8, AppliedTrail DEF Moves
  <2> QED
    BY <1>6, <1>8, <2>1 DEF Moves, Stored
<1> QED
  BY <1>2, <1>5, <1>7, <1>8 DEF StoreStep

\* The audit trail of a proposal is its life, entry by entry legal and in the
\* order of time, however many requests write to it by compare-and-swap and
\* however long after its decision an entry is stamped.
THEOREM TrailLegal == Spec => []TrailIsLegal
<1>1. Init => Trails
  BY DEF Init, Trails, Stored
<1>2. Trails => TrailIsLegal
  BY DEF Trails, Trail, TrailIsLegal
<1> QED
  BY <1>1, <1>2, IInvAlways, NextTrails, PTL DEF Spec

-----------------------------------------------------------------------------
\* A request that decided a proposal, and goes on to execute it or has answered.
Decider(k) == k.step \in {"clear", "execute", "answered"}

\* What it decided is what is stored.
Upheld(k) ==
  /\ k.step \in {"clear", "execute"} => store[k.id].state = "confirmed"
  /\ k.step = "answered" => store[k.id].state = k.told

\* Every decision is upheld, and every proposal was decided by one request.
Decided ==
  /\ \A c \in Callers : Upheld(call[c])
  /\ \A c, d \in Callers :
       c # d /\ Decider(call[c]) /\ Decider(call[d]) => call[c].id # call[d].id

\* A decider's proposal is stored, and not pending any more.
LEMMA DeciderState ==
  ASSUME IInv, Decided, NEW c \in Callers, Decider(call[c])
  PROVE  /\ call[c].id \in Stored
         /\ store[call[c].id].state # "pending_confirmation"
<1>1. call[c] \in Calls
  BY DEF IInv, TypeOK
<1>2. call[c].step = "answered" => call[c].told \in {"executed", "rejected"}
  BY <1>1 DEF Calls
<1>3. ReadIsPast(call[c]) /\ Upheld(call[c])
  BY DEF IInv, ReadsArePast, Decided
<1> QED
  BY <1>2, <1>3 DEF ReadIsPast, Upheld, Decider

\* A step that leaves the proposals of the other deciders alone keeps the
\* decisions, if its own, should it have one, is upheld, and was its own before
\* or nobody's.
LEMMA OthersUpheld ==
  ASSUME IInv, Decided, NEW c \in Callers, NEW next, Goto(c, next),
         \A d \in Callers \ {c} : Decider(call[d]) => store'[call[d].id] = store[call[d].id],
         Decider(next) =>
           /\ Upheld(next)'
           /\ \/ Decider(call[c]) /\ call[c].id = next.id
              \/ store[next.id].state = "pending_confirmation"
  PROVE  Decided'
<1>1. \A d \in Callers : call'[d] = IF d = c THEN next ELSE call[d]
  BY DEF Goto, IInv, TypeOK
<1>2. ASSUME NEW d \in Callers
      PROVE  Upheld(call[d])'
  <2>1. CASE d = c
    BY <1>1, <2>1 DEF Upheld, Decider
  <2>2. CASE d # c
    BY <1>1, <2>2 DEF Decided, Upheld, Decider
  <2> QED
    BY <2>1, <2>2
<1>3. ASSUME NEW d \in Callers \ {c}, Decider(next), Decider(call[d])
      PROVE  call[d].id # next.id
  BY <1>3, DeciderState DEF Decided
<1>4. ASSUME NEW d \in Callers, NEW e \in Callers, d # e, Decider(call'[d]), Decider(call'[e])
      PROVE  call'[d].id # call'[e].id
  <2>1. CASE d = c
    BY <1>1, <1>3, <1>4, <2>1
  <2>2. CASE e = c
    BY <1>1, <1>3, <1>4, <2>2
  <2>3. CASE d # c /\ e # c
    BY <1>1, <1>4, <2>3 DEF Decided
  <2> QED
    BY <2>1, <2>2, <2>3
<1> QED
  BY <1>2, <1>4 DEF Decided, Decider

\* A compare-and-swap that wins decides what nobody decided before.
LEMMA SwapDecides ==
  ASSUME IInv, Decided, NEW c \in Callers, call[c].step \in {"confirm", "reject", "execute"},
         NEW to \in ProposalState, May(call[c].read, to),
         Wins(call[c].id, call[c].read), Swap(call[c].id, call[c].read, to),
         NEW next, Goto(c, next),
         call[c].step # "execute" => to \in {"confirmed", "rejected", "expired"},
         Decider(next) => /\ next.id = call[c].id
                          /\ next.step = "answered" => next.told = to
                          /\ next.step \in {"clear", "execute"} => to = "confirmed"
  PROVE  Decided'
<1> DEFINE id == call[c].id
<1>1. id \in Stored /\ call[c].read \in Proposal /\ call[c].read = store[id]
  BY HeldProposal
<1>2. store[id].state \in ProposalState /\ id \in Ids
  BY <1>1 DEF Proposal, Stored
<1>3. call[c].step # "execute" => store[id].state = "pending_confirmation"
  BY <1>1, <1>2, LegalMoves DEF May
<1>4. ASSUME NEW d \in Callers \ {c}, Decider(call[d])
      PROVE  call[d].id # id
  <2>1. CASE call[c].step = "execute"
    BY <1>4, <2>1 DEF Decided, Decider
  <2>2. CASE call[c].step # "execute"
    BY <1>3, <1>4, <2>2, DeciderState
  <2> QED
    BY <2>1, <2>2
<1>5. /\ store' = [store EXCEPT ![id] = Applied(store[id], to)]
      /\ store \in [Ids -> Proposal \cup {NoProposal}]
      /\ Applied(store[id], to).state = to
  BY <1>1 DEF Swap, Applied, IInv, TypeOK
<1> HIDE DEF id
<1>6. store'[id].state = to /\ \A i \in Ids \ {id} : store'[i] = store[i]
  BY <1>2, <1>5
<1>7. \A d \in Callers \ {c} : Decider(call[d]) => store'[call[d].id] = store[call[d].id]
  BY <1>4, <1>6, DeciderState DEF Stored
<1>8. Decider(next) => Upheld(next)'
  BY <1>6 DEF Upheld, Decider, id
<1>9. Decider(next) =>
        \/ Decider(call[c]) /\ call[c].id = next.id
        \/ store[next.id].state = "pending_confirmation"
  BY <1>3 DEF Decider, id
<1> QED
  BY <1>7, <1>8, <1>9, OthersUpheld

\* A step of the gateway keeps the decisions.
LEMMA NextDecided == IInv /\ Decided /\ [Next]_vars => Decided'
<1> SUFFICES ASSUME IInv, Decided, [Next]_vars
             PROVE  Decided'
  OBVIOUS
<1>1. CASE Tick \/ UNCHANGED vars
  BY <1>1 DEF Decided, Upheld, Decider, Tick, vars
<1>2. ASSUME NEW c \in Callers, UNCHANGED store, NEW next, Goto(c, next), ~Decider(next)
      PROVE  Decided'
  BY <1>2, OthersUpheld
<1>3. ~Decider(Idle)
  BY DEF Decider, Idle
<1>4. ASSUME NEW c \in Callers, Start(c)
      PROVE  Decided'
  <2>1. CASE \E key \in Keys, digest \in Digests : StartPropose(c, key, digest)
    BY <1>2, <2>1 DEF StartPropose, Decider
  <2>2. CASE \E id \in Ids : StartReject(c, id)
    BY <1>2, <2>2 DEF StartReject, Decider
  <2>3. CASE \E id \in Ids, right \in BOOLEAN, seen \in Digests : StartConfirm(c, id, right, seen)
    BY <1>2, <1>3, <2>3 DEF StartConfirm, Decider
  <2> QED
    BY <1>4, <2>1, <2>2, <2>3 DEF Start
<1>5. ASSUME NEW c \in Callers, Proceed(c)
      PROVE  Decided'
  <2> DEFINE k == call[c]
  <2>1. CASE InsertProposal(c)
    <3>1. CASE Goto(c, Idle) /\ UNCHANGED store
      BY <1>2, <1>3, <3>1
    <3>2. ASSUME NEW id \in Ids \ Stored, NEW p, store' = [store EXCEPT ![id] = p],
                 Goto(c, [step |-> "deliver", id |-> id])
          PROVE  Decided'
      <4>1. \A i \in Stored : store'[i] = store[i]
        BY <3>2 DEF Stored, IInv, TypeOK
      <4>2. \A d \in Callers : Decider(call[d]) => store'[call[d].id] = store[call[d].id]
        BY <4>1, DeciderState
      <4>3. ~Decider([step |-> "deliver", id |-> id])
        BY DEF Decider
      <4> QED
        BY <3>2, <4>2, <4>3, OthersUpheld
    <3> QED
      BY <2>1, <3>1, <3>2 DEF InsertProposal, Insertable
  <2>2. CASE Deliver(c) \/ ConcludeRefused(c)
    BY <1>2, <1>3, <2>2 DEF Deliver, ConcludeRefused
  <2>3. CASE ConfirmExpired(c) \/ ConfirmRefused(c)
    <3>1. CASE UNCHANGED store
      BY <1>2, <1>3, <2>3, <3>1 DEF ConfirmExpired, ConfirmRefused
    <3>2. CASE Wins(k.id, k.read) /\ Swap(k.id, k.read, "expired") /\ k.read.state = "pending_confirmation"
      <4>1. "expired" \in ProposalState /\ May(k.read, "expired")
        BY <3>2, LegalMoves DEF May, ProposalState
      <4> QED
        BY <1>3, <2>3, <3>2, <4>1, SwapDecides DEF ConfirmExpired, ConfirmRefused
    <3> QED
      BY <2>3, <3>1, <3>2 DEF ConfirmExpired, ConfirmRefused, LateExpiry, Due
  <2>4. CASE ConfirmAccepted(c)
    <3>1. "confirmed" \in ProposalState
      BY DEF ProposalState
    <3> QED
      BY <2>4, <3>1, SwapDecides DEF ConfirmAccepted, Decider
  <2>5. CASE StartExecute(c)
    <3>0. PICK next : next = [step |-> "execute", id |-> k.id, read |-> store[k.id]]
      OBVIOUS
    <3>1. Goto(c, next) /\ UNCHANGED store /\ k.step = "clear"
      BY <2>5, <3>0 DEF StartExecute
    <3>2. Upheld(next)' /\ Decider(k) /\ k.id = next.id
      BY <3>0, <3>1 DEF Upheld, Decider, Decided
    <3> QED
      BY <3>1, <3>2, OthersUpheld
  <2>6. CASE Conclude(c)
    <3> DEFINE to   == Outcome[k.step]
               next == [step |-> "answered", id |-> k.id, told |-> to]
    <3>1. /\ k.step \in {"reject", "execute"} /\ to \in ProposalState
          /\ k.step # "execute" => to = "rejected"
      BY <2>6 DEF Conclude, Outcome, ProposalState
    <3>2. Goto(c, next) /\ May(k.read, to) /\ Wins(k.id, k.read) /\ Swap(k.id, k.read, to)
      BY <2>6 DEF Conclude, CanConclude
    <3> HIDE DEF to
    <3> QED
      BY <3>1, <3>2, SwapDecides
  <2> QED
    BY <1>5, <2>1, <2>2, <2>3, <2>4, <2>5, <2>6 DEF Proceed
<1> QED
  BY <1>1, <1>4, <1>5 DEF Next

\* Nobody has decided anything in the beginning.
LEMMA InitDecided == Init => Decided
BY DEF Init, Decided, Upheld, Decider, Idle

\* What a human was told stays true and was told to nobody else: of any number
\* of confirmations and rejections of a proposal, one wins.
THEOREM AnswersStand == Spec => []AnswersHold
<1>1. Decided => AnswersHold
  BY DEF Decided, Upheld, Decider, AnswersHold
<1> QED
  BY <1>1, InitDecided, IInvAlways, NextDecided, PTL DEF Spec

-----------------------------------------------------------------------------
\* The windows that the life of a proposal can touch.
Windows == (TTL + LimitWindow - 1) \div LimitWindow

\* Requests that will compare a wrong code with the proposal, if time allows.
Comparing(id) ==
  {c \in Callers : /\ call[c].step = "confirm" /\ call[c].id = id /\ ~call[c].right
                   /\ call[c].read.state = "pending_confirmation"
                   /\ now < call[c].read.expires}

\* Wrong codes that were compared, and those that will be.
Used(id) == guesses[id] + Cardinality(Comparing(id))

\* The proposal can still be confirmed.
Open(id) == id \in Stored /\ store[id].state = "pending_confirmation" /\ now < store[id].expires

\* With w windows over and the present one, attempts a account for what was
\* used; each window began a full length after the one before, the first not
\* before the proposal did.
Accounts(used, a, expires, w) ==
  /\ used <= MaxAttempts * w + a.count
  /\ \/ a = NoAttempts /\ w = 0
     \/ a.reset + TTL >= expires + (w + 1) * LimitWindow

\* What is used of one proposal fits in its windows.
Budget(id) ==
  /\ IsFiniteSet(Comparing(id))
  /\ Used(id) <= MaxAttempts * Windows
  /\ limiter[id].reset <= now + LimitWindow
  /\ IF id \in Stored THEN store[id].expires <= now + TTL
     ELSE limiter[id] = NoAttempts /\ guesses[id] = 0
  /\ Open(id) => \E w \in Nat : Accounts(Used(id), limiter[id], store[id].expires, w)

\* The accounts of all proposals.
Budgets == \A id \in Ids : Budget(id)

\* Addition is monotone.
LEMMA PlusMonotone ==
  ASSUME NEW a \in Nat, NEW b \in Nat, NEW m \in Nat, a <= b
  PROVE  a + m <= b + m
OBVIOUS

\* Multiplication is monotone.
LEMMA TimesMonotone ==
  ASSUME NEW m \in Nat, NEW a \in Nat, NEW b \in Nat, a <= b
  PROVE  m * a <= m * b
OBVIOUS

\* A window that begins while the proposal lives is one of its windows.
LEMMA WindowsSuffice ==
  ASSUME NEW w \in Nat, w * LimitWindow < TTL
  PROVE  w + 1 <= Windows
<1>1. TTL \in Nat \ {0} /\ LimitWindow \in Nat \ {0}
  BY ConstantsAssumption
<1>2. Windows \in Nat /\ TTL + LimitWindow - 1 < LimitWindow * (Windows + 1)
  BY <1>1 DEF Windows
<1>3. LimitWindow * (Windows + 1) = LimitWindow * Windows + LimitWindow
  BY <1>1, <1>2
<1>4. LimitWindow * w = w * LimitWindow /\ LimitWindow * w \in Nat
  BY <1>1
<1>5. SUFFICES ASSUME Windows <= w
               PROVE  FALSE
  BY <1>2
<1>6. LimitWindow * Windows <= LimitWindow * w
  BY <1>1, <1>2, <1>5, TimesMonotone
<1> QED
  BY <1>1, <1>2, <1>3, <1>4, <1>6

\* The limits and what they add up to are numbers.
LEMMA Limits ==
  /\ TTL \in Nat \ {0} /\ LimitWindow \in Nat \ {0} /\ MaxAttempts \in Nat \ {0}
  /\ Windows \in Nat /\ MaxAttempts * Windows \in Nat
<1>1. TTL \in Nat \ {0} /\ LimitWindow \in Nat \ {0} /\ MaxAttempts \in Nat \ {0}
  BY ConstantsAssumption
<1> QED
  BY <1>1 DEF Windows

\* What the present window accounts for stays within the windows of the proposal.
LEMMA AccountFits ==
  ASSUME NEW used \in Nat, NEW a \in [count: 0..MaxAttempts, reset: Nat], NEW expires \in Nat,
         NEW t \in Nat, t < expires, a.reset <= t + LimitWindow,
         NEW w \in Nat, Accounts(used, a, expires, w)
  PROVE  used <= MaxAttempts * Windows
<1>1. a.count \in 0..MaxAttempts /\ a.reset \in Nat
  OBVIOUS
<1>2. CASE a = NoAttempts /\ w = 0
  BY <1>2, Limits DEF Accounts, NoAttempts
<1>3. CASE a.reset + TTL >= expires + (w + 1) * LimitWindow
  <2>1. (w + 1) * LimitWindow = w * LimitWindow + LimitWindow /\ w * LimitWindow \in Nat
    BY Limits
  <2>2. w * LimitWindow < TTL
    BY <1>1, <1>3, <2>1, Limits
  <2>3. MaxAttempts * (w + 1) <= MaxAttempts * Windows
    BY <2>2, Limits, WindowsSuffice, TimesMonotone
  <2>4. MaxAttempts * (w + 1) = MaxAttempts * w + MaxAttempts /\ MaxAttempts * w \in Nat
    BY Limits
  <2>5. used <= MaxAttempts * w + a.count
    BY DEF Accounts
  <2> QED
    BY <1>1, <2>3, <2>4, <2>5, Limits
<1> QED
  BY <1>2, <1>3 DEF Accounts

\* An attempt that the limiter allows is accounted for, in the present window or
\* in a new one.
LEMMA ConsumedAccounts ==
  ASSUME NEW used \in Nat, NEW a \in [count: 0..MaxAttempts, reset: Nat], NEW expires \in Nat,
         now \in Nat, expires <= now + TTL, Allowed(a, MaxAttempts),
         NEW w \in Nat, Accounts(used, a, expires, w)
  PROVE  \E v \in Nat : Accounts(used + 1, Consumed(a, MaxAttempts), expires, v)
<1>1. a.count \in 0..MaxAttempts /\ a.reset \in Nat /\ used <= MaxAttempts * w + a.count
  BY DEF Accounts
<1> DEFINE b == Consumed(a, MaxAttempts)
<1>2. CASE now >= a.reset
  <2>1. b.count = 1 /\ b.reset = now + LimitWindow
    BY <1>2 DEF Consumed
  <2> HIDE DEF b
  <2>2. CASE a = NoAttempts /\ w = 0
    <3>1. used = 0
      BY <1>1, <2>2, Limits DEF NoAttempts
    <3>2. (0 + 1) * LimitWindow = LimitWindow /\ MaxAttempts * 0 = 0
      BY Limits
    <3>3. Accounts(used + 1, b, expires, 0)
      BY <2>1, <3>1, <3>2, Limits DEF Accounts
    <3> QED
      BY <3>3 DEF b
  <2>3. CASE a.reset + TTL >= expires + (w + 1) * LimitWindow
    <3>1. /\ MaxAttempts * (w + 1) = MaxAttempts * w + MaxAttempts
          /\ ((w + 1) + 1) * LimitWindow = (w + 1) * LimitWindow + LimitWindow
          /\ MaxAttempts * w \in Nat /\ (w + 1) * LimitWindow \in Nat
      BY Limits
    <3>2. used + 1 <= MaxAttempts * (w + 1) + b.count
      BY <1>1, <2>1, <3>1, Limits
    <3>3. b.reset + TTL >= expires + ((w + 1) + 1) * LimitWindow
      BY <1>1, <1>2, <2>1, <2>3, <3>1, Limits
    <3>4. Accounts(used + 1, b, expires, w + 1) /\ w + 1 \in Nat
      BY <3>2, <3>3 DEF Accounts
    <3> QED
      BY <3>4 DEF b
  <2> QED
    BY <2>2, <2>3 DEF Accounts
<1>3. CASE ~(now >= a.reset)
  <2>1. b.count = a.count + 1 /\ b.reset = a.reset
    BY <1>1, <1>3 DEF Consumed, Allowed
  <2> HIDE DEF b
  <2>2. a # NoAttempts
    BY <1>3 DEF NoAttempts
  <2>3. used + 1 <= MaxAttempts * w + b.count
    <3>1. MaxAttempts * w \in Nat
      BY Limits
    <3> QED
      BY <1>1, <2>1, <3>1
  <2>4. Accounts(used + 1, b, expires, w)
    BY <2>1, <2>2, <2>3 DEF Accounts
  <2> QED
    BY <2>4 DEF b
<1> QED
  BY <1>2, <1>3

\* What is used is a number.
LEMMA UsedNumber ==
  ASSUME IInv, NEW id \in Ids, IsFiniteSet(Comparing(id))
  PROVE  /\ Used(id) \in Nat /\ Cardinality(Comparing(id)) \in Nat /\ guesses[id] \in Nat
         /\ Used(id) = guesses[id] + Cardinality(Comparing(id))
BY FS_CardinalityType DEF Used, IInv, TypeOK

\* A caller that turns to something else than a confirmation compares no more.
LEMMA LeavesComparing ==
  ASSUME IInv, NEW c \in Callers, NEW next, Goto(c, next), next.step # "confirm",
         now' \in Nat, now <= now', NEW id
  PROVE  Comparing(id)' \subseteq Comparing(id) \ {c}
<1>1. \A d \in Callers : call'[d] = IF d = c THEN next ELSE call[d]
  BY DEF Goto, IInv, TypeOK
<1> SUFFICES ASSUME NEW d \in Comparing(id)'
             PROVE  d \in Comparing(id) \ {c}
  OBVIOUS
<1>2. d \in Callers /\ d # c /\ call'[d] = call[d]
  BY <1>1 DEF Comparing
<1>3. /\ call[d].step = "confirm" /\ call[d].id = id /\ ~call[d].right
      /\ call[d].read.state = "pending_confirmation" /\ now' < call[d].read.expires
  BY <1>2 DEF Comparing
<1>4. call[d].read.expires \in Nat /\ now \in Nat
  BY <1>2, <1>3, HeldProposal DEF Proposal, IInv, TypeOK
<1> QED
  BY <1>2, <1>3, <1>4 DEF Comparing

\* A request that does not use more of a proposal, nor makes it open again, stays
\* within the budget; the limiter may be reset if the proposal is not open.
LEMMA EasedBudget ==
  ASSUME IInv, IInv', NEW id \in Stored, Budget(id), now <= now',
         IsFiniteSet(Comparing(id))', Used(id)' <= Used(id),
         id \in Stored', store'[id].expires = store[id].expires,
         Open(id)' => Open(id) /\ limiter'[id] = limiter[id],
         limiter'[id] = limiter[id] \/ limiter'[id].reset <= now' + LimitWindow
  PROVE  Budget(id)'
<1>1. /\ id \in Ids /\ now \in Nat /\ now' \in Nat /\ store[id].expires \in Nat
      /\ limiter[id] \in [count: 0..MaxAttempts, reset: Nat]
      /\ guesses'[id] \in Nat
  BY StoredProposal DEF IInv, TypeOK, Stored, Proposal
<1>2. Used(id) \in Nat /\ Used(id)' \in Nat
  <2>1. Cardinality(Comparing(id)') \in Nat
    BY FS_CardinalityType
  <2> QED
    BY <1>1, <2>1, UsedNumber DEF Budget, Used
<1>3. Used(id)' <= MaxAttempts * Windows
  BY <1>2, Limits DEF Budget
<1>4. /\ limiter'[id].reset <= now' + LimitWindow
      /\ store'[id].expires <= now' + TTL
  BY <1>1, Limits DEF Budget
<1>5. ASSUME Open(id)'
      PROVE  \E w \in Nat : Accounts(Used(id)', limiter'[id], store'[id].expires, w)
  <2>1. Open(id) /\ limiter'[id] = limiter[id]
    BY <1>5
  <2>2. PICK w \in Nat : Accounts(Used(id), limiter[id], store[id].expires, w)
    BY <2>1 DEF Budget
  <2>3. Used(id)' <= MaxAttempts * w + limiter[id].count
    <3>1. MaxAttempts * w \in Nat /\ limiter[id].count \in Nat
      BY <1>1, Limits
    <3> QED
      BY <1>2, <2>2, <3>1 DEF Accounts
  <2>4. Accounts(Used(id)', limiter'[id], store'[id].expires, w)
    BY <2>1, <2>2, <2>3 DEF Accounts
  <2> QED
    BY <2>4
<1> QED
  BY <1>3, <1>4, <1>5 DEF Budget

\* Nothing is used of a proposal that does not exist, and nothing of a new one.
LEMMA FreshBudget ==
  ASSUME IInv, IInv', NEW id \in Ids, id \notin Stored, Budget(id), now <= now',
         limiter'[id] = limiter[id], guesses'[id] = guesses[id],
         Comparing(id)' \subseteq Comparing(id),
         id \in Stored' => store'[id].expires <= now' + TTL
  PROVE  Budget(id)'
<1>1. Comparing(id) = {}
  BY DEF Comparing, IInv, ReadsArePast, ReadIsPast
<1>2. Comparing(id)' = {}
  BY <1>1
<1>3. IsFiniteSet(Comparing(id)') /\ Cardinality(Comparing(id)') = 0
  BY <1>2, FS_EmptySet
<1>4. limiter[id] = NoAttempts /\ guesses[id] = 0 /\ NoAttempts.reset = 0 /\ NoAttempts.count = 0
  BY DEF Budget, NoAttempts
<1>5. Used(id)' = 0
  BY <1>3, <1>4 DEF Used
<1>6. Accounts(Used(id)', limiter'[id], store'[id].expires, 0)
  <2>1. MaxAttempts * 0 = 0
    BY Limits
  <2> QED
    BY <1>4, <1>5, <2>1 DEF Accounts
<1>7. now' \in Nat
  BY DEF IInv, TypeOK
<1>8. limiter'[id].reset <= now' + LimitWindow /\ Used(id)' <= MaxAttempts * Windows
  BY <1>4, <1>5, <1>7, Limits
<1>9. Open(id)' => \E w \in Nat : Accounts(Used(id)', limiter'[id], store'[id].expires, w)
  BY <1>6
<1> QED
  BY <1>3, <1>4, <1>8, <1>9 DEF Budget

\* What a step does to one stored proposal: it stays, keeps its deadline, and
\* does not become pending again.
LEMMA StoredStays ==
  ASSUME IInv, StoreStep, NEW id \in Stored
  PROVE  /\ id \in Stored' /\ store'[id].expires = store[id].expires
         /\ store'[id].state = "pending_confirmation" => store[id].state = "pending_confirmation"
<1>1. /\ store \in [Ids -> Proposal \cup {NoProposal}] /\ now' \in Nat
      /\ id \in Ids /\ store[id] \in Proposal
  BY StoredProposal DEF IInv, TypeOK, StoreStep
<1>2. ASSUME NEW j \in Ids \ Stored, NEW p, store' = [store EXCEPT ![j] = p]
      PROVE  store'[id] = store[id]
  BY <1>1, <1>2
<1>3. ASSUME NEW j \in Stored, NEW to \in Legal[store[j].state],
             store' = [store EXCEPT ![j] = Applied(store[j], to)]
      PROVE  /\ id \in Stored' /\ store'[id].expires = store[id].expires
             /\ store'[id].state = "pending_confirmation" => store[id].state = "pending_confirmation"
  <2>1. CASE j = id
    <3>1. store[id].state \in ProposalState
      BY <1>1 DEF Proposal
    <3>2. to # "pending_confirmation" /\ to \in ProposalState
      BY <1>3, <2>1, <3>1, LegalMoves DEF ProposalState
    <3>3. Applied(store[id], to) \in Proposal
      BY <1>1, <3>2, AppliedProposal
    <3>4. store'[id] = Applied(store[id], to)
      BY <1>1, <1>3, <2>1
    <3>5. store'[id].state = to /\ store'[id].expires = store[id].expires
      BY <3>4 DEF Applied
    <3> QED
      BY <1>1, <3>2, <3>3, <3>4, <3>5, ConstantsAssumption DEF Stored
  <2>2. CASE j # id
    <3>1. store'[id] = store[id]
      BY <1>1, <1>3, <2>2
    <3> QED
      BY <3>1 DEF Stored
  <2> QED
    BY <2>1, <2>2
<1> QED
  BY <1>2, <1>3 DEF StoreStep, Moves, Stored

\* An id that becomes that of a proposal has the lifetime before it.
LEMMA NewExpires ==
  ASSUME IInv, StoreStep, NEW id \in Ids \ Stored, id \in Stored'
  PROVE  store'[id].expires = now + TTL
<1>1. store \in [Ids -> Proposal \cup {NoProposal}]
  BY DEF IInv, TypeOK
<1>2. store'[id] # store[id]
  BY DEF Stored
<1>3. PICK j \in Ids \ Stored, key \in Keys, digest \in Digests :
        store' = [store EXCEPT ![j] = CreateProposal(key, digest)]
  BY <1>1, <1>2 DEF StoreStep, Moves, Stored
<1>4. j = id /\ store'[id] = CreateProposal(key, digest)
  BY <1>1, <1>2, <1>3
<1> QED
  BY <1>4 DEF CreateProposal

\* A caller that turns to something else than a confirmation keeps the budgets:
\* the wrong code it may have compared was among those it would compare.
LEMMA LeaveBudget ==
  ASSUME IInv, IInv', NEW id \in Ids, Budget(id), StoreStep,
         NEW c \in Callers, NEW next, Goto(c, next), next.step # "confirm",
         \/ guesses'[id] = guesses[id]
         \/ guesses'[id] = guesses[id] + 1 /\ c \in Comparing(id),
         \/ limiter'[id] = limiter[id]
         \/ limiter'[id] = NoAttempts /\ id \in Stored /\ store[id].state = "confirmed"
  PROVE  Budget(id)'
<1>0. now \in Nat /\ now' \in Nat /\ now <= now'
  BY DEF IInv, TypeOK, StoreStep
<1>1. Comparing(id)' \subseteq Comparing(id) \ {c} /\ IsFiniteSet(Comparing(id))
  BY <1>0, LeavesComparing DEF Budget
<1>2. /\ guesses[id] \in Nat /\ Cardinality(Comparing(id)) \in Nat
      /\ Used(id) = guesses[id] + Cardinality(Comparing(id))
  BY <1>1, UsedNumber
<1>3. CASE id \notin Stored
  <2>1. c \notin Comparing(id)
    BY <1>3 DEF Comparing, IInv, ReadsArePast, ReadIsPast
  <2>2. id \in Stored' => store'[id].expires <= now' + TTL
    <3>1. now + TTL <= now' + TTL
      <4>1. TTL \in Nat
        BY Limits
      <4> QED
        BY <1>0, <4>1, PlusMonotone
    <3>2. id \in Stored' => store'[id].expires = now + TTL
      BY <1>3, NewExpires
    <3> QED
      BY <3>1, <3>2
  <2> QED
    BY <1>0, <1>1, <1>3, <2>1, <2>2, FreshBudget
<1>4. CASE id \in Stored
  <2>1. /\ IsFiniteSet(Comparing(id)')
        /\ Cardinality(Comparing(id)') <= Cardinality(Comparing(id))
        /\ Cardinality(Comparing(id)') \in Nat
        /\ c \in Comparing(id) => Cardinality(Comparing(id)') <= Cardinality(Comparing(id)) - 1
    <3>1. /\ IsFiniteSet(Comparing(id) \ {c})
          /\ Cardinality(Comparing(id) \ {c}) \in Nat
          /\ Cardinality(Comparing(id) \ {c}) <= Cardinality(Comparing(id))
          /\ c \in Comparing(id) => Cardinality(Comparing(id) \ {c}) = Cardinality(Comparing(id)) - 1
      BY <1>1, FS_RemoveElement, FS_Subset, FS_CardinalityType
    <3>2. /\ IsFiniteSet(Comparing(id)') /\ Cardinality(Comparing(id)') \in Nat
          /\ Cardinality(Comparing(id)') <= Cardinality(Comparing(id) \ {c})
      BY <1>1, <3>1, FS_Subset, FS_CardinalityType
    <3> QED
      BY <1>2, <3>1, <3>2
  <2>2. Used(id)' <= Used(id)
    <3>1. Used(id)' = guesses'[id] + Cardinality(Comparing(id)')
      BY DEF Used
    <3> QED
      BY <1>2, <2>1, <3>1
  <2>3. /\ id \in Stored' /\ store'[id].expires = store[id].expires
        /\ Open(id)' => Open(id)
    <3>1. store[id].expires \in Nat
      BY <1>4, StoredProposal DEF IInv, Proposal
    <3> QED
      BY <1>0, <1>4, <3>1, StoredStays DEF Open
  <2>4. Open(id)' => limiter'[id] = limiter[id]
    BY <1>4, StoredStays DEF Open
  <2>5. limiter'[id] = limiter[id] \/ limiter'[id].reset <= now' + LimitWindow
    BY <1>0, Limits DEF NoAttempts
  <2>6. Open(id)' => Open(id) /\ limiter'[id] = limiter[id]
    BY <2>3, <2>4
  <2> QED
    BY <1>0, <1>4, <2>1, <2>2, <2>3, <2>5, <2>6, EasedBudget
<1> QED
  BY <1>3, <1>4

\* The limiter's windows end at most one length from now.
LEMMA ConsumedReset ==
  ASSUME NEW a \in [count: 0..MaxAttempts, reset: Nat], now \in Nat,
         a.reset <= now + LimitWindow
  PROVE  Consumed(a, MaxAttempts).reset <= now + LimitWindow
BY Limits DEF Consumed, Allowed

\* A request to confirm counts on the limiter before it can compare a code.
LEMMA ConfirmBudget ==
  ASSUME IInv, IInv', Budgets, NEW c \in Callers, NEW id \in Ids,
         NEW right \in BOOLEAN, NEW seen \in Digests, StartConfirm(c, id, right, seen)
  PROVE  Budgets'
<1> DEFINE a    == limiter[id]
           b    == Consumed(a, MaxAttempts)
           next == [step |-> "confirm", id |-> id, read |-> store[id], right |-> right, seen |-> seen]
<1>1. /\ id \in Stored /\ Free(c) /\ UNCHANGED <<now, store, codes, guesses>>
      /\ Goto(c, Idle) \/ (Goto(c, next) /\ Allowed(a, MaxAttempts))
      /\ limiter' = [limiter EXCEPT ![id] = b]
  BY DEF StartConfirm
<1>2. /\ limiter \in [Ids -> [count: 0..MaxAttempts, reset: Nat]] /\ now \in Nat
      /\ a \in [count: 0..MaxAttempts, reset: Nat]
      /\ limiter' \in [Ids -> [count: 0..MaxAttempts, reset: Nat]]
  BY DEF IInv, TypeOK
<1>3. limiter'[id] = b /\ \A j \in Ids \ {id} : limiter'[j] = limiter[j]
  BY <1>1, <1>2
<1>4. b.reset <= now + LimitWindow
  BY <1>2, ConsumedReset DEF Budgets, Budget
<1> HIDE DEF a, b
<1>5. Stored' = Stored /\ \A j : Open(j)' = Open(j)
  BY <1>1 DEF Stored, Open
<1>6. /\ \A d \in Callers \ {c} : call'[d] = call[d]
      /\ \A j : c \notin Comparing(j)
  BY <1>1 DEF Goto, Free, Comparing, IInv, TypeOK
<1>7. ASSUME NEW j \in Ids, Comparing(j)' \subseteq Comparing(j), limiter'[j] = limiter[j] \/ ~Open(j)
      PROVE  Budget(j)'
  <2>1. IsFiniteSet(Comparing(j))
    BY DEF Budgets, Budget
  <2>2. /\ IsFiniteSet(Comparing(j)')
        /\ Cardinality(Comparing(j)') <= Cardinality(Comparing(j))
        /\ Cardinality(Comparing(j)') \in Nat
    BY <1>7, <2>1, FS_Subset, FS_CardinalityType
  <2>3. Used(j)' = guesses[j] + Cardinality(Comparing(j)')
    BY <1>1 DEF Used
  <2>4. Used(j)' <= Used(j)
    BY <2>1, <2>2, <2>3, UsedNumber
  <2>5. limiter'[j] = limiter[j] \/ limiter'[j].reset <= now' + LimitWindow
    BY <1>1, <1>3, <1>4
  <2>6. CASE j \in Stored
    BY <1>1, <1>2, <1>5, <1>7, <2>2, <2>4, <2>5, <2>6, EasedBudget DEF Budgets
  <2>7. CASE j \notin Stored
    <3>1. limiter'[j] = limiter[j]
      BY <1>1, <1>3, <2>7
    <3> QED
      BY <1>1, <1>2, <1>5, <1>7, <2>7, <3>1, FreshBudget DEF Budgets
  <2> QED
    BY <2>6, <2>7
<1>8. CASE Goto(c, Idle)
  <2>1. \A j : Comparing(j)' \subseteq Comparing(j)
    BY <1>1, <1>2, <1>8, LeavesComparing DEF Idle
  <2>2. ASSUME Open(id), limiter'[id] # limiter[id]
        PROVE  Budget(id)'
    <3>0. Idle.step # "confirm"
      BY DEF Idle
    <3>1. c \notin Comparing(id)' /\ c \notin Comparing(id) /\ IsFiniteSet(Comparing(id))
      BY <1>1, <1>2, <1>6, <1>8, <3>0, LeavesComparing DEF Budgets, Budget
    <3>2. Comparing(id)' = Comparing(id) /\ Used(id)' = Used(id)
      BY <1>1, <1>6, <3>1 DEF Used, Comparing
    <3>3. /\ Used(id) \in Nat /\ store[id].expires \in Nat
      BY <1>1, <3>1, UsedNumber, StoredProposal DEF IInv, Proposal
    <3>4. PICK w \in Nat : Accounts(Used(id), a, store[id].expires, w)
      BY <2>2 DEF Budgets, Budget, a
    <3>5. Allowed(a, MaxAttempts)
      BY <1>2, <1>3, <2>2 DEF Consumed, Allowed, a, b
    <3>6. store[id].expires <= now + TTL
      BY <1>1 DEF Budgets, Budget
    <3>7. PICK v \in Nat : Accounts(Used(id) + 1, b, store[id].expires, v)
      BY <1>2, <3>3, <3>4, <3>5, <3>6, ConsumedAccounts DEF b
    <3>8. Accounts(Used(id)', limiter'[id], store'[id].expires, v)
      <4>1. b.count \in Nat /\ MaxAttempts * v \in Nat
        BY <1>2, <1>3, Limits
      <4> QED
        BY <1>1, <1>3, <3>2, <3>3, <3>7, <4>1 DEF Accounts
    <3> QED
      BY <1>1, <1>3, <1>4, <1>5, <3>1, <3>2, <3>6, <3>8 DEF Budgets, Budget
  <2>3. Budget(id)'
    BY <1>7, <2>1, <2>2
  <2> QED
    BY <1>3, <1>7, <2>1, <2>3 DEF Budgets
<1>9. CASE Goto(c, next) /\ Allowed(a, MaxAttempts)
  <2>1. call'[c] = next
    BY <1>9 DEF Goto, IInv, TypeOK
  <2>2. \A j \in Ids : Comparing(j)' \subseteq Comparing(j) \cup {c}
    BY <1>1, <1>6 DEF Comparing
  <2>3. ASSUME NEW j \in Ids, j # id \/ ~Open(id)
        PROVE  Comparing(j)' \subseteq Comparing(j)
    <3>1. c \notin Comparing(j)'
      BY <1>1, <2>1, <2>3 DEF Comparing, Open
    <3> QED
      BY <2>2, <3>1
  <2>4. ASSUME Open(id)
        PROVE  Budget(id)'
    <3>1. IsFiniteSet(Comparing(id))
      BY DEF Budgets, Budget
    <3>2. /\ IsFiniteSet(Comparing(id) \cup {c})
          /\ Cardinality(Comparing(id) \cup {c}) = Cardinality(Comparing(id)) + 1
      BY <1>6, <3>1, FS_AddElement
    <3>3. /\ IsFiniteSet(Comparing(id)')
          /\ Cardinality(Comparing(id)') <= Cardinality(Comparing(id)) + 1
          /\ Cardinality(Comparing(id)') \in Nat
      BY <2>2, <3>2, FS_Subset, FS_CardinalityType
    <3>4. Used(id)' = guesses[id] + Cardinality(Comparing(id)')
      BY <1>1 DEF Used
    <3>5. Used(id) \in Nat /\ Used(id)' \in Nat /\ Used(id)' <= Used(id) + 1
      BY <3>1, <3>3, <3>4, UsedNumber
    <3>6. store[id].expires \in Nat /\ store[id].expires <= now + TTL /\ now < store[id].expires
      BY <1>1, <2>4, StoredProposal DEF IInv, Proposal, Open, Budgets, Budget
    <3>7. PICK w \in Nat : Accounts(Used(id), a, store[id].expires, w)
      BY <2>4 DEF Budgets, Budget, a
    <3>8. PICK v \in Nat : Accounts(Used(id) + 1, b, store[id].expires, v)
      BY <1>2, <1>9, <3>5, <3>6, <3>7, ConsumedAccounts DEF b
    <3>9. Accounts(Used(id)', b, store[id].expires, v)
      <4>1. b.count \in Nat /\ MaxAttempts * v \in Nat
        BY <1>2, <1>3, Limits
      <4> QED
        BY <3>5, <3>8, <4>1 DEF Accounts
    <3>10. b \in [count: 0..MaxAttempts, reset: Nat]
      BY <1>2, <1>3
    <3>11. Used(id)' <= MaxAttempts * Windows
      BY <1>2, <1>4, <3>5, <3>6, <3>9, <3>10, AccountFits
    <3> QED
      BY <1>1, <1>3, <1>4, <1>5, <3>3, <3>6, <3>9, <3>11 DEF Budget
  <2> QED
    BY <1>3, <1>7, <2>3, <2>4 DEF Budgets
<1> QED
  BY <1>1, <1>8, <1>9

\* Time only runs out on requests that compare.
LEMMA TickBudget ==
  ASSUME IInv, IInv', Budgets, Tick \/ UNCHANGED vars
  PROVE  Budgets'
<1>1. /\ UNCHANGED <<store, limiter, call, guesses>> /\ now <= now'
      /\ now \in Nat /\ now' \in Nat
  BY DEF Tick, vars, limits, IInv, TypeOK
<1> SUFFICES ASSUME NEW id \in Ids
             PROVE  Budget(id)'
  BY DEF Budgets
<1>2. Budget(id) /\ IsFiniteSet(Comparing(id))
  BY DEF Budgets, Budget
<1>3. Comparing(id)' \subseteq Comparing(id)
  <2> SUFFICES ASSUME NEW c \in Comparing(id)'
               PROVE  c \in Comparing(id)
    OBVIOUS
  <2>1. /\ c \in Callers /\ call[c].step = "confirm" /\ call[c].id = id /\ ~call[c].right
        /\ call[c].read.state = "pending_confirmation" /\ now' < call[c].read.expires
    BY <1>1 DEF Comparing
  <2>2. call[c].read.expires \in Nat
    BY <2>1, HeldProposal DEF Proposal
  <2> QED
    BY <1>1, <2>1, <2>2 DEF Comparing
<1>4. /\ IsFiniteSet(Comparing(id)')
      /\ Cardinality(Comparing(id)') <= Cardinality(Comparing(id))
      /\ Cardinality(Comparing(id)') \in Nat
  BY <1>2, <1>3, FS_Subset, FS_CardinalityType
<1>5. Used(id)' = guesses[id] + Cardinality(Comparing(id)')
  BY <1>1 DEF Used
<1>6. Used(id)' <= Used(id)
  BY <1>2, <1>4, <1>5, UsedNumber
<1>7. Stored' = Stored
  BY <1>1 DEF Stored
<1>8. CASE id \in Stored
  <2>1. store[id].expires \in Nat
    BY <1>8, StoredProposal DEF IInv, Proposal
  <2>2. Open(id)' => Open(id)
    BY <1>1, <1>7, <2>1 DEF Open
  <2> QED
    BY <1>1, <1>2, <1>4, <1>6, <1>7, <1>8, <2>2, EasedBudget
<1>9. CASE id \notin Stored
  BY <1>1, <1>2, <1>3, <1>7, <1>9, FreshBudget
<1> QED
  BY <1>8, <1>9

\* Every other step of a request keeps the budgets.
LEMMA ProceedBudget ==
  ASSUME IInv, IInv', Decided, Budgets, StoreStep, NEW c \in Callers,
         \/ Proceed(c)
         \/ \E key \in Keys, digest \in Digests : StartPropose(c, key, digest)
         \/ \E id \in Ids : StartReject(c, id)
  PROVE  Budgets'
<1> SUFFICES ASSUME NEW id \in Ids
             PROVE  Budget(id)'
  BY DEF Budgets
<1> DEFINE k == call[c]
<1>1. Budget(id)
  BY DEF Budgets
<1>2. CASE ConfirmRefused(c)
  <2>1. /\ Goto(c, Idle) /\ Idle.step # "confirm" /\ UNCHANGED limiter
        /\ k.step = "confirm" /\ ~Due(k.read, now)
    BY <1>2 DEF ConfirmRefused, Idle, limits
  <2>2. CASE UNCHANGED guesses
    BY <1>1, <2>1, <2>2, LeaveBudget
  <2>3. CASE May(k.read, "confirmed") /\ ~k.right /\ guesses' = [guesses EXCEPT ![k.id] = @ + 1]
    <3>1. k.read \in Proposal /\ k.id \in Ids /\ guesses \in [Ids -> Nat] /\ now \in Nat
      BY <2>1, CallFields DEF IInv, TypeOK
    <3>2. k.read.state = "pending_confirmation" /\ now < k.read.expires
      <4>1. k.read.state \in ProposalState /\ k.read.expires \in Nat
        BY <3>1 DEF Proposal
      <4>2. k.read.state = "pending_confirmation"
        BY <2>3, <4>1, LegalMoves DEF May
      <4> QED
        BY <2>1, <3>1, <4>1, <4>2 DEF Due
    <3>3. CASE id = k.id
      <4>1. c \in Comparing(id)
        BY <2>1, <2>3, <3>2, <3>3 DEF Comparing
      <4>2. guesses'[id] = guesses[id] + 1
        BY <2>3, <3>1, <3>3
      <4> QED
        BY <1>1, <2>1, <4>1, <4>2, LeaveBudget
    <3>4. CASE id # k.id
      <4>1. guesses'[id] = guesses[id]
        BY <2>3, <3>1, <3>4
      <4> QED
        BY <1>1, <2>1, <4>1, LeaveBudget
    <3> QED
      BY <3>3, <3>4
  <2> QED
    BY <1>2, <2>2, <2>3 DEF ConfirmRefused
<1>3. CASE StartExecute(c)
  <2>1. PICK next : next = [step |-> "execute", id |-> k.id, read |-> store[k.id]]
    OBVIOUS
  <2>2. /\ Goto(c, next) /\ next.step # "confirm" /\ UNCHANGED guesses
        /\ k.step = "clear" /\ limiter' = [limiter EXCEPT ![k.id] = NoAttempts]
    BY <1>3, <2>1 DEF StartExecute
  <2>3. k.id \in Stored /\ store[k.id].state = "confirmed"
    BY <2>2 DEF IInv, ReadsArePast, ReadIsPast, Decided, Upheld
  <2>4. \/ limiter'[id] = limiter[id]
        \/ limiter'[id] = NoAttempts /\ id \in Stored /\ store[id].state = "confirmed"
    BY <2>2, <2>3 DEF IInv, TypeOK
  <2> QED
    BY <1>1, <2>2, <2>4, LeaveBudget
<1>4. ASSUME NEW next, Goto(c, next), next.step # "confirm", UNCHANGED <<limiter, guesses>>
      PROVE  Budget(id)'
  BY <1>1, <1>4, LeaveBudget
<1>5. Idle.step # "confirm"
  BY DEF Idle
<1>6. CASE InsertProposal(c)
  BY <1>4, <1>5, <1>6 DEF InsertProposal, limits
<1>7. CASE Deliver(c) \/ ConfirmExpired(c) \/ ConcludeRefused(c)
  BY <1>4, <1>5, <1>7 DEF Deliver, ConfirmExpired, ConcludeRefused, limits
<1>8. CASE ConfirmAccepted(c)
  BY <1>4, <1>8 DEF ConfirmAccepted, limits
<1>9. CASE Conclude(c)
  BY <1>4, <1>9 DEF Conclude, limits
<1>10. CASE \E key \in Keys, digest \in Digests : StartPropose(c, key, digest)
  BY <1>4, <1>10 DEF StartPropose, limits
<1>11. CASE \E j \in Ids : StartReject(c, j)
  BY <1>4, <1>11 DEF StartReject, limits
<1> QED
  BY <1>2, <1>3, <1>6, <1>7, <1>8, <1>9, <1>10, <1>11 DEF Proceed

\* A step of the gateway keeps the budgets.
LEMMA NextBudgets == IInv /\ Decided /\ Budgets /\ [Next]_vars => Budgets'
<1> SUFFICES ASSUME IInv, Decided, Budgets, [Next]_vars
             PROVE  Budgets'
  OBVIOUS
<1>1. IInv'
  BY NextIInv
<1>2. Next => StoreStep
  BY NextStoreStep
<1>3. CASE Tick \/ UNCHANGED vars
  BY <1>1, <1>3, TickBudget
<1>4. ASSUME NEW c \in Callers, Start(c) \/ Proceed(c)
      PROVE  Budgets'
  BY <1>1, <1>2, <1>4, ConfirmBudget, ProceedBudget DEF Start, Next
<1> QED
  BY <1>3, <1>4 DEF Next

\* Nothing is used in the beginning.
LEMMA InitBudgets == Init => Budgets
<1> SUFFICES ASSUME Init, NEW id \in Ids
             PROVE  Budget(id)
  BY DEF Budgets
<1>1. Comparing(id) = {}
  BY DEF Init, Comparing, Idle
<1>2. IsFiniteSet(Comparing(id)) /\ Cardinality(Comparing(id)) = 0
  BY <1>1, FS_EmptySet
<1>3. Used(id) = 0 /\ id \notin Stored /\ guesses[id] = 0 /\ limiter[id] = NoAttempts /\ now = 0
  BY <1>2 DEF Init, Used, Stored
<1> QED
  BY <1>2, <1>3, Limits DEF Budget, Open, NoAttempts

\* The wrong codes that are compared with a proposal, over its whole life, are at
\* most the attempts of a window times the windows its life touches, whatever
\* number of requests are held up between being counted and comparing.
THEOREM GuessesLimited == Spec => []GuessesBounded
<1>1. IInv /\ Budgets => GuessesBounded
  <2> SUFFICES ASSUME IInv, Budgets, NEW id \in Ids
               PROVE  guesses[id] <= MaxAttempts * Windows
    BY DEF GuessesBounded, Windows
  <2>1. Used(id) <= MaxAttempts * Windows /\ IsFiniteSet(Comparing(id))
    BY DEF Budgets, Budget
  <2> QED
    BY <2>1, UsedNumber, Limits
<1> QED
  BY <1>1, InitDecided, InitBudgets, IInvAlways, NextDecided, NextBudgets, PTL DEF Spec
=============================================================================
