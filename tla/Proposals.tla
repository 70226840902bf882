----------------------------- MODULE Proposals -----------------------------
(***************************************************************************)
(* The action gateway: an agent proposes a message to a buyer, a human     *)
(* confirms or rejects it, and a confirmed proposal is executed once.      *)
(* Any number of requests run side by side. Each reads the stored proposal *)
(* (ProposalStore.get), and when that read is answered decides by the pure *)
(* state machine and writes by compare-and-swap on the version it read; so *)
(* a read and the decision with its write are separate actions, between    *)
(* which other requests run and time passes. A decision and its write are  *)
(* one action, but the clock they read goes on between them.               *)
(***************************************************************************)
EXTENDS Naturals, Sequences, FiniteSets

CONSTANTS
  Ids,             \* proposal ids (random UUIDs)
  Keys,            \* idempotency keys
  Digests,         \* digests of message payloads
  Callers,         \* HTTP and MCP requests under way side by side
  TTL,             \* lifetime of a proposal
  MaxAttempts,     \* confirmation attempts per proposal and window
  GlobalAttempts,  \* confirmation attempts over all proposals and window
  LimitWindow,     \* length of such a window
  NoProposal,      \* absent record
  MaxTime          \* bound: clock

VARIABLES
  now,      \* clock
  store,    \* InMemoryProposalStore: proposal by id
  codes,    \* proposals whose link code reached the human
  limiter,  \* attempts per proposal
  global,   \* attempts over all proposals
  call,     \* what each caller is doing
  guesses   \* wrong link codes compared so far, per proposal (history)

limits == <<limiter, global>>
vars == <<now, store, codes, limits, call, guesses>>

-----------------------------------------------------------------------------
ProposalState == {"pending_confirmation", "confirmed", "rejected", "expired", "executed", "failed"}
Terminal      == {"rejected", "expired", "executed", "failed"}

Legal == [pending_confirmation |-> {"confirmed", "rejected", "expired"},
          confirmed |-> {"executed", "failed"},
          rejected |-> {}, expired |-> {}, executed |-> {}, failed |-> {}]

Transition == [from: ProposalState, to: ProposalState, at: Nat]
Proposal   == [state: ProposalState, digest: Digests, key: Keys, expires: Nat,
               version: Nat, history: Seq(Transition)]
Attempts   == [count: Nat, reset: Nat]

Idle == [step |-> "idle"]
Calls == [step: {"idle"}]
  \cup [step: {"propose"}, key: Keys, digest: Digests]
  \cup [step: {"deliver", "clear"}, id: Ids]
  \cup [step: {"confirm"}, id: Ids, read: Proposal, right: BOOLEAN, seen: Digests]
  \cup [step: {"reject", "execute"}, id: Ids, read: Proposal]
  \cup [step: {"answered"}, id: Ids, told: {"executed", "rejected"}]

ASSUME ConstantsAssumption ==
  /\ {TTL, LimitWindow, MaxAttempts, GlobalAttempts} \subseteq Nat \ {0}
  /\ MaxTime \in Nat
  /\ NoProposal \notin Proposal

NoAttempts == [count |-> 0, reset |-> 0]

Init ==
  /\ now = 0
  /\ store = [id \in Ids |-> NoProposal]
  /\ codes = {}
  /\ limiter = [id \in Ids |-> NoAttempts] /\ global = NoAttempts
  /\ call = [c \in Callers |-> Idle]
  /\ guesses = [id \in Ids |-> 0]

Tick ==
  /\ now < MaxTime
  /\ now' = now + 1
  /\ UNCHANGED <<store, codes, limits, call, guesses>>

-----------------------------------------------------------------------------
\* The state machine.

Stored == {id \in Ids : store[id] # NoProposal}

CreateProposal(key, digest) ==
  [state |-> "pending_confirmation", digest |-> digest, key |-> key, expires |-> now + TTL,
   version |-> 1,
   history |-> <<[from |-> "pending_confirmation", to |-> "pending_confirmation", at |-> now]>>]

\* The entry is stamped by a reading of the clock of its own, later than the one
\* the decision was made by; the caller has said how far the clock has gone on.
Applied(p, to) ==
  [state |-> to, digest |-> p.digest, key |-> p.key, expires |-> p.expires,
   version |-> p.version + 1,
   history |-> Append(p.history, [from |-> p.state, to |-> to, at |-> now'])]

\* Mutant: the deadline itself still counts.
Due_Late(p, time) == p.state = "pending_confirmation" /\ time > p.expires

\* expireIfDue.
Due(p, time) == p.state = "pending_confirmation" /\ time >= p.expires

\* Mutant: only what is over is refused.
May_NotTerminal(p, to) == p.state \notin Terminal

\* guard.
May(p, to) == p.state \notin Terminal /\ to \in Legal[p.state]

\* Mutant: the version is not compared.
Wins_Always(id, read) == id \in Stored

\* compareAndSwap: nobody wrote since the read.
Wins(id, read) == id \in Stored /\ store[id].version = read.version

\* Meanwhile the clock goes on.
Swap(id, read, to) ==
  /\ now' \in now..MaxTime
  /\ store' = [store EXCEPT ![id] = Applied(read, to)]

Free(c) == call[c].step \in {"idle", "answered"}
Goto(c, next) == call' = [call EXCEPT ![c] = next]

-----------------------------------------------------------------------------
\* propose.

KeyTaken(key) == \E id \in Stored : store[id].key = key

\* A key that is found answers with its proposal and changes nothing.
StartPropose(c, key, digest) ==
  /\ Free(c)
  /\ ~KeyTaken(key)
  /\ Goto(c, [step |-> "propose", key |-> key, digest |-> digest])
  /\ UNCHANGED <<now, store, codes, limits, guesses>>

\* Mutant: insert looks at the id only.
Insertable_IdOnly(id, key) == id \notin Stored

Insertable(id, key) == id \notin Stored /\ ~KeyTaken(key)

InsertProposal(c) ==
  LET k == call[c]
  IN  /\ k.step = "propose"
      /\ \/ \E id \in Ids :
              /\ Insertable(id, k.key)
              /\ store' = [store EXCEPT ![id] = CreateProposal(k.key, k.digest)]
              /\ Goto(c, [step |-> "deliver", id |-> id])
         \/ KeyTaken(k.key) /\ Goto(c, Idle) /\ UNCHANGED store
      /\ UNCHANGED <<now, codes, limits, guesses>>

\* deliverLinkCode, which may fail; the proposal stays, without a code.
Deliver(c) ==
  /\ call[c].step = "deliver"
  /\ \/ codes' = codes \cup {call[c].id}
     \/ UNCHANGED codes
  /\ Goto(c, Idle)
  /\ UNCHANGED <<now, store, limits, guesses>>

-----------------------------------------------------------------------------
\* AttemptLimiter.

Allowed(a, max) == now >= a.reset \/ a.count < max

\* Mutant: every attempt starts a window of its own.
Consumed_Restarts(a, max) == [count |-> 1, reset |-> now + LimitWindow]

Consumed(a, max) ==
  IF now >= a.reset THEN [count |-> 1, reset |-> now + LimitWindow]
  ELSE IF Allowed(a, max) THEN [a EXCEPT !.count = @ + 1] ELSE a

-----------------------------------------------------------------------------
\* confirm, up to the execution that follows it.

\* The human has the code once it was delivered, and sees some payload.
StartConfirm(c, id, right, seen) ==
  LET allowed == Allowed(limiter[id], MaxAttempts)
  IN  /\ Free(c)
      /\ id \in Stored /\ (right => id \in codes)
      /\ limiter' = [limiter EXCEPT ![id] = Consumed(@, MaxAttempts)]
      /\ global' = IF allowed THEN Consumed(global, GlobalAttempts) ELSE global
      /\ \/ /\ allowed /\ Allowed(global, GlobalAttempts)
            /\ Goto(c, [step |-> "confirm", id |-> id, read |-> store[id], right |-> right, seen |-> seen])
         \/ /\ ~(allowed /\ Allowed(global, GlobalAttempts))
            /\ Goto(c, Idle)
      /\ UNCHANGED <<now, store, codes, guesses>>

\* An expiry found on the way is stored, if nobody wrote since.
ConfirmExpired(c) ==
  LET k == call[c]
  IN  /\ k.step = "confirm" /\ Due(k.read, now)
      /\ \/ Wins(k.id, k.read) /\ Swap(k.id, k.read, "expired")
         \/ ~Wins(k.id, k.read) /\ UNCHANGED <<now, store>>
      /\ Goto(c, Idle)
      /\ UNCHANGED <<codes, limits, guesses>>

\* A refusal looks at the clock once more; the deadline may have passed.
LateExpiry(k) ==
  \/ UNCHANGED <<now, store>>
  \/ Wins(k.id, k.read) /\ Swap(k.id, k.read, "expired") /\ Due(k.read, now')

\* Not pending any more, a wrong code, other contents, or a lost race.
ConfirmRefused(c) ==
  LET k == call[c]
  IN  /\ k.step = "confirm" /\ ~Due(k.read, now)
      /\ \/ ~May(k.read, "confirmed") /\ UNCHANGED <<now, store, guesses>>
         \/ /\ May(k.read, "confirmed") /\ ~k.right
            /\ guesses' = [guesses EXCEPT ![k.id] = @ + 1]
            /\ LateExpiry(k)
         \/ /\ May(k.read, "confirmed") /\ k.right /\ k.seen # k.read.digest
            /\ UNCHANGED guesses
            /\ LateExpiry(k)
         \/ /\ May(k.read, "confirmed") /\ k.right /\ k.seen = k.read.digest
            /\ ~Wins(k.id, k.read)
            /\ UNCHANGED <<now, store, guesses>>
      /\ Goto(c, Idle)
      /\ UNCHANGED <<codes, limits>>

ConfirmAccepted(c) ==
  LET k == call[c]
  IN  /\ k.step = "confirm" /\ ~Due(k.read, now)
      /\ May(k.read, "confirmed") /\ k.right /\ k.seen = k.read.digest
      /\ Wins(k.id, k.read)
      /\ Swap(k.id, k.read, "confirmed")
      /\ Goto(c, [step |-> "clear", id |-> k.id])
      /\ UNCHANGED <<codes, limits, guesses>>

\* Mutant: execute goes on with the record as it was first made.
StartExecute_Stale(c) ==
  LET k == call[c]
  IN  /\ k.step = "clear"
      /\ limiter' = [limiter EXCEPT ![k.id] = NoAttempts]
      /\ Goto(c, [step |-> "execute", id |-> k.id, read |-> [store[k.id] EXCEPT !.version = 1]])
      /\ UNCHANGED <<now, store, codes, global, guesses>>

\* The limiter is cleared, and execute reads the proposal again.
StartExecute(c) ==
  LET k == call[c]
  IN  /\ k.step = "clear"
      /\ limiter' = [limiter EXCEPT ![k.id] = NoAttempts]
      /\ Goto(c, [step |-> "execute", id |-> k.id, read |-> store[k.id]])
      /\ UNCHANGED <<now, store, codes, global, guesses>>

-----------------------------------------------------------------------------
\* reject needs no code. It and execute write what they were called for, if the
\* state machine allows it and nobody wrote since the read; an expiry that
\* reject finds is not stored.

StartReject(c, id) ==
  /\ Free(c)
  /\ id \in Stored
  /\ Goto(c, [step |-> "reject", id |-> id, read |-> store[id]])
  /\ UNCHANGED <<now, store, codes, limits, guesses>>

Outcome == [reject |-> "rejected", execute |-> "executed"]

CanConclude(k) == ~Due(k.read, now) /\ May(k.read, Outcome[k.step]) /\ Wins(k.id, k.read)

Conclude(c) ==
  LET k == call[c]
  IN  /\ k.step \in DOMAIN Outcome
      /\ CanConclude(k)
      /\ Swap(k.id, k.read, Outcome[k.step])
      /\ Goto(c, [step |-> "answered", id |-> k.id, told |-> Outcome[k.step]])
      /\ UNCHANGED <<codes, limits, guesses>>

ConcludeRefused(c) ==
  /\ call[c].step \in DOMAIN Outcome
  /\ ~CanConclude(call[c])
  /\ Goto(c, Idle)
  /\ UNCHANGED <<now, store, codes, limits, guesses>>

-----------------------------------------------------------------------------
Start(c) ==
  \/ \E key \in Keys, digest \in Digests : StartPropose(c, key, digest)
  \/ \E id \in Ids : StartReject(c, id)
  \/ \E id \in Ids, right \in BOOLEAN, seen \in Digests : StartConfirm(c, id, right, seen)

Proceed(c) ==
  \/ InsertProposal(c) \/ Deliver(c)
  \/ ConfirmExpired(c) \/ ConfirmRefused(c) \/ ConfirmAccepted(c)
  \/ StartExecute(c) \/ Conclude(c) \/ ConcludeRefused(c)

Next == Tick \/ \E c \in Callers : Start(c) \/ Proceed(c)

Spec == Init /\ [][Next]_vars

\* The event loop goes on with every request it took.
Fairness == \A c \in Callers : WF_vars(Proceed(c))

FairSpec == Spec /\ Fairness

-----------------------------------------------------------------------------
\* Properties.

\* Records, limits and calls have their shapes; a counter never passes its limit.
TypeOK ==
  /\ now \in Nat
  /\ store \in [Ids -> Proposal \cup {NoProposal}]
  /\ codes \subseteq Ids
  /\ limiter \in [Ids -> [count: 0..MaxAttempts, reset: Nat]]
  /\ global \in [count: 0..GlobalAttempts, reset: Nat]
  /\ call \in [Callers -> Calls]
  /\ guesses \in [Ids -> Nat]

\* What a request holds is what the proposal was at that version: it is the
\* proposal itself as long as the version is, and nobody reuses a version.
ReadIsPast(k) ==
  /\ k.step \in {"deliver", "clear", "answered"} => k.id \in Stored
  /\ k.step \in {"confirm", "reject", "execute"} =>
       /\ k.id \in Stored
       /\ k.read.key = store[k.id].key
       /\ k.read.version <= store[k.id].version
       /\ k.read.version = store[k.id].version => k.read = store[k.id]

\* Every request under way holds a past version of its proposal, however many
\* requests confirm, reject and execute it side by side.
ReadsArePast == \A c \in Callers : ReadIsPast(call[c])

\* A retried proposal never becomes a second one, even when the retry looks for
\* the key before the first insert: registry.propose finds and inserts in two steps.
OneProposalPerKey ==
  \A i, j \in Stored : store[i].key = store[j].key => i = j

\* The audit trail is the proposal's life: it starts with the proposal, each
\* entry follows from the one before by a legal transition and is not stamped
\* before it, an expiry is not stamped before the deadline, the last entry is the
\* state, and the version counts them.
TrailIsLegal ==
  \A id \in Stored :
    LET p == store[id]
        h == p.history
    IN  /\ Len(h) = p.version /\ h[Len(h)].to = p.state
        /\ h[1].to = "pending_confirmation"
        /\ \A n \in 2..Len(h) :
             /\ h[n].from = h[n - 1].to /\ h[n].to \in Legal[h[n].from]
             /\ h[n - 1].at <= h[n].at
             /\ h[n].to = "expired" => h[n].at >= p.expires

\* A human's decision begins before the deadline, however long before that the
\* proposal was read; its entry may be stamped later.
DecidedInTime ==
  [][\A id \in Stored :
       store[id].state = "pending_confirmation" /\ store'[id].state \in {"confirmed", "rejected"}
         => now < store[id].expires]_store

\* What a human was told stays true, and nobody else was told to have decided
\* the same proposal: of concurrent confirmations and rejections one wins.
AnswersHold ==
  \A c \in Callers : call[c].step = "answered" =>
    /\ store[call[c].id].state = call[c].told
    /\ \A d \in Callers \ {c} :
         call[d].step \in {"answered", "clear", "execute"} => call[d].id # call[c].id

\* A decided proposal does not change any more, whatever requests that read it
\* before do afterwards; nor does anything but its state ever change.
OutcomeIsFinal ==
  [][\A id \in Stored :
       /\ store[id].state \in Terminal => store'[id] = store[id]
       /\ store'[id].key = store[id].key /\ store'[id].digest = store[id].digest
       /\ store'[id].expires = store[id].expires]_store

\* Wrong codes compared over the whole life of a proposal stay below what the
\* limiter's windows add up to, although attempts are counted when a request
\* arrives and codes compared later, possibly in another window.
GuessesBounded ==
  LET windows == (TTL + LimitWindow - 1) \div LimitWindow
  IN  \A id \in Ids : guesses[id] <= MaxAttempts * windows

\* A confirmed proposal is executed: nothing can come between the two.
ConfirmedIsExecuted ==
  \A id \in Ids :
    (id \in Stored /\ store[id].state = "confirmed")
      ~> (id \in Stored /\ store[id].state = "executed")
=============================================================================
