--------------------------- MODULE GatewayProofs ----------------------------
(***************************************************************************)
(* What the gateway promises, for any clients, codes, tokens and requests, *)
(* and whenever the process stops. The argument is about who may still     *)
(* know a refresh token: one that was used is in no file, and one that no  *)
(* request presents is in the file and, while the process runs, in memory. *)
(***************************************************************************)
EXTENDS Gateway, TLAPS

Signing(r) == request[r] # None /\ request[r].step = "signing"
Answering(r) == request[r] # None /\ request[r].step \in Tokens

\* A grant is gone while its successor is signed for its client, by one request
\* and one process; one that was exchanged is gone for good.
Burning ==
  /\ \A r \in Requests : Signing(r) => up /\ Entry(request[r].grant) = None /\ request[r].client # None
  /\ \A r, s \in Requests : Signing(r) /\ Signing(s) /\ request[r].grant = request[s].grant => r = s

Spent ==
  \A g \in Grants : exchanged[g] > 0 =>
    /\ exchanged[g] = 1 /\ Entry(g) = None
    /\ g \in Tokens => files.refresh[g] = None
    /\ \A r \in Requests : Signing(r) => request[r].grant # g

\* A token of which only one answer, or the integration, knows.
Kept(t) ==
  /\ files.refresh[t] # None /\ (up => refresh[t] # None)
  /\ \A r \in Requests : request[r] # None => request[r].grant # t

Safe ==
  /\ \A r \in Requests : Answering(r) => Kept(request[r].step) /\ mine.token # request[r].step
  /\ \A r, s \in Requests : Answering(r) /\ Answering(s) /\ request[r].step = request[s].step => r = s
  /\ mine.token # None /\ ~mine.tried => Kept(mine.token)

\* Who is registered in the file is so in memory, and who holds something is.
Known ==
  /\ up => files.clients \subseteq clients
  /\ mine.client # None => mine.client \in files.clients
  /\ \/ mine.code # None \/ mine.token # None \/ mine.access
     \/ \E r \in Requests : request[r] # None
     => mine.client # None

\* What was checked against the order was so.
Checked ==
  /\ order.status = "PAID" => order.wasPaid
  /\ \A c \in ToolCalls : call[c] # None /\ call[c].step = "checked" /\ call[c].draft.status = "PAID" => order.wasPaid
  /\ PaidClaimsAreTrue

IInv == TypeOK /\ Burning /\ Spent /\ Safe /\ Known /\ Checked

-----------------------------------------------------------------------------
LEMMA NoneIsNothing ==
  /\ None \notin Clients /\ None \notin Codes /\ None \notin Tokens
  /\ None \notin Request /\ None \notin Call
  /\ "sent" \notin Tokens /\ "signing" \notin Tokens /\ "refused" \notin Tokens
  /\ Codes \cap Tokens = {}
BY ConstantsAssumption DEF Grants

LEMMA Promised == IInv => TypeOK /\ ExchangedOnce /\ ConnectionSurvives /\ PaidClaimsAreTrue
<1> SUFFICES ASSUME IInv PROVE TypeOK /\ ExchangedOnce /\ ConnectionSurvives /\ PaidClaimsAreTrue
  OBVIOUS
<1>1. ExchangedOnce
  BY DEF IInv, TypeOK, Spent, ExchangedOnce
<1>2. ConnectionSurvives
  BY DEF IInv, Safe, Known, Kept, ConnectionSurvives
<1> QED
  BY <1>1, <1>2 DEF IInv, Checked

LEMMA InitIInv == Init => IInv
<1> SUFFICES ASSUME Init PROVE IInv
  OBVIOUS
<1>1. TypeOK
  BY ConstantsAssumption DEF Init, TypeOK, Mine, Statuses, Grants
<1>2. Burning /\ Spent
  BY DEF Init, Burning, Spent, Signing
<1>3. Safe /\ Known
  BY DEF Init, Safe, Known, Answering
<1>4. Checked
  BY DEF Init, Checked, PaidClaimsAreTrue
<1> QED
  BY <1>1, <1>2, <1>3, <1>4 DEF IInv

-----------------------------------------------------------------------------
\* Tools and orders leave the grants alone, and the other way round.
LEMMA ToolMoves ==
  ASSUME IInv, UNCHANGED <<up, oauth, request, exchanged, mine>>, Checked',
         order' \in [status: Statuses, wasPaid: BOOLEAN], born' \in 0..MaxProposals,
         proposals' \subseteq Proposal, outbox' \subseteq 1..born',
         call' \in [ToolCalls -> Call \cup {None}]
  PROVE  IInv'
<1>1. TypeOK'
  BY DEF IInv, TypeOK, oauth
<1>2. Burning' /\ Spent' /\ Safe' /\ Known'
  BY DEF IInv, Burning, Spent, Safe, Known, Signing, Answering, Entry, Kept, oauth
<1> QED
  BY <1>1, <1>2 DEF IInv

LEMMA OrderMoved == IInv /\ OrderMoves => IInv'
<1> SUFFICES ASSUME IInv, OrderMoves PROVE IInv'
  OBVIOUS
<1>1. PICK st \in Statuses : order' = [status |-> st, wasPaid |-> order.wasPaid \/ st = "PAID"]
  BY DEF OrderMoves
<1>2. UNCHANGED <<up, oauth, request, exchanged, mine, agent>>
  BY DEF OrderMoves
<1>3. order'.status = st /\ order'.wasPaid = (order.wasPaid \/ st = "PAID")
  BY <1>1
<1>4. order' \in [status: Statuses, wasPaid: BOOLEAN]
  BY <1>1
<1>5. order.wasPaid => order'.wasPaid
  BY <1>3
<1>6. Checked'
  BY <1>2, <1>3, <1>5 DEF IInv, Checked, PaidClaimsAreTrue, agent
<1> QED
  BY <1>2, <1>4, <1>6, ToolMoves DEF IInv, TypeOK, agent

\* A call takes its next step.
LEMMA CallMoved ==
  ASSUME IInv, NEW c \in ToolCalls, UNCHANGED <<up, oauth, request, exchanged, mine, order>>,
         NEW k \in Call \cup {None}, call' = [call EXCEPT ![c] = k],
         k # None /\ k.step = "checked" /\ k.draft.status = "PAID" => order.wasPaid,
         born' \in 0..MaxProposals, proposals' \subseteq Proposal, outbox' \subseteq 1..born',
         \A p \in proposals' \ proposals : p.draft.claimsPaid => order.wasPaid
  PROVE  IInv'
<1>1. call' \in [ToolCalls -> Call \cup {None}]
  BY DEF IInv, TypeOK
<1>2. \A d \in ToolCalls : call'[d] = IF d = c THEN k ELSE call[d]
  BY DEF IInv, TypeOK
<1>3. Checked'
  BY <1>2 DEF IInv, Checked, PaidClaimsAreTrue
<1> QED
  BY <1>1, <1>3, ToolMoves DEF IInv, TypeOK

LEMMA ToolsMove ==
  ASSUME IInv, NEW c \in ToolCalls,
         CallTool(c) \/ FetchSnapshot(c) \/ Propose(c) \/ Notify(c) \/ ToolEnds(c)
  PROVE  IInv'
<1>1. /\ call[c] \in Call \cup {None} /\ mine.client \in Clients \cup {None}
      /\ born \in 0..MaxProposals /\ MaxProposals \in Nat
      /\ proposals \subseteq Proposal /\ outbox \subseteq 1..born
  BY ConstantsAssumption DEF IInv, TypeOK, Mine
<1>2. ASSUME NEW step \in {"asked", "checked", "notifying", "proposed", "error"},
             call[c] # None, Answered(c, step),
             step = "checked" /\ call[c].draft.status = "PAID" => order.wasPaid,
             UNCHANGED <<up, oauth, request, exchanged, mine, order>>,
             born' \in 0..MaxProposals, proposals' \subseteq Proposal, outbox' \subseteq 1..born',
             \A p \in proposals' \ proposals : p.draft.claimsPaid => order.wasPaid
      PROVE  IInv'
  <2>1. PICK k : k = [call[c] EXCEPT !.step = step]
    OBVIOUS
  <2>2. k \in Call /\ k.step = step /\ k.draft = call[c].draft
    BY <1>1, <1>2, <2>1 DEF Call
  <2>3. call' = [call EXCEPT ![c] = k]
    BY <1>2, <2>1 DEF Answered
  <2> QED
    BY <1>2, <2>2, <2>3, CallMoved
<1>3. CASE CallTool(c)
  <2>1. mine.client \in Clients
    BY <1>1, <1>3 DEF CallTool, IInv, Known
  <2>2. PICK st \in Statuses, claims \in BOOLEAN :
          call' = [call EXCEPT ![c] =
            [draft |-> [principal |-> mine.client, status |-> st, claimsPaid |-> claims], step |-> "asked"]]
    BY <1>3 DEF CallTool
  <2>3. PICK k : k = [draft |-> [principal |-> mine.client, status |-> st, claimsPaid |-> claims], step |-> "asked"]
    OBVIOUS
  <2>4. k \in Call /\ k.step = "asked"
    BY <2>1, <2>3 DEF Call, Draft
  <2> QED
    BY <1>1, <1>3, <2>2, <2>3, <2>4, CallMoved DEF CallTool
<1>4. CASE FetchSnapshot(c)
  <2>1. PICK step \in {"error"} \cup IF MatchesSnapshot(call[c].draft) THEN {"checked"} ELSE {} : Answered(c, step)
    BY <1>4 DEF FetchSnapshot
  <2>2. step \in {"error", "checked"} /\ (step = "checked" => call[c].draft.status = order.status)
    BY <2>1 DEF MatchesSnapshot
  <2> QED
    BY <1>1, <1>2, <1>4, <2>1, <2>2 DEF FetchSnapshot, IInv, Checked
<1>5. CASE Propose(c)
  <2>1. /\ call[c] # None /\ call[c].step = "checked" /\ call[c] \in Call
        /\ UNCHANGED <<up, oauth, request, exchanged, mine, order>>
    BY <1>1, <1>5 DEF Propose
  <2>2. CASE UNCHANGED <<proposals, born, outbox>> /\ (Answered(c, "error") \/ Answered(c, "proposed"))
    BY <1>1, <1>2, <2>1, <2>2
  <2>3. CASE /\ Valid(call[c].draft) /\ born < MaxProposals /\ born' = born + 1
             /\ proposals' = proposals \cup {[id |-> born + 1, draft |-> call[c].draft]}
             /\ DeliverLinkCode(c, born + 1)
    <3>1. born' \in 0..MaxProposals /\ born + 1 \in 1..MaxProposals
      BY <1>1, <2>3
    <3>2. proposals' \subseteq Proposal
      BY <1>1, <2>1, <2>3, <3>1 DEF Call, Proposal
    <3>3. outbox' \subseteq 1..born'
      <4>1. outbox' \subseteq outbox \cup {born + 1}
        BY <2>3 DEF DeliverLinkCode, Appended
      <4> QED
        BY <1>1, <2>3, <4>1
    <3>4. call[c].draft.claimsPaid => order.wasPaid
      BY <2>1, <2>3 DEF Valid, IInv, Checked
    <3>5. \A p \in proposals' \ proposals : p.draft.claimsPaid => order.wasPaid
      BY <2>3, <3>4
    <3>6. Answered(c, "notifying") \/ Answered(c, "error")
      BY <2>3 DEF DeliverLinkCode
    <3> QED
      BY <1>2, <2>1, <3>1, <3>2, <3>3, <3>5, <3>6
  <2> QED
    BY <1>5, <2>2, <2>3 DEF Propose
<1>6. CASE Notify(c)
  BY <1>1, <1>2, <1>6 DEF Notify
<1>7. CASE ToolEnds(c)
  BY <1>1, <1>7, CallMoved DEF ToolEnds
<1> QED
  BY <1>3, <1>4, <1>5, <1>6, <1>7

LEMMA DeviceCleared == IInv /\ ClearDevice => IInv'
<1> SUFFICES ASSUME IInv, ClearDevice PROVE IInv'
  OBVIOUS
<1>1. Checked'
  BY DEF ClearDevice, IInv, Checked, PaidClaimsAreTrue
<1> QED
  BY <1>1, ToolMoves DEF ClearDevice, IInv, TypeOK

-----------------------------------------------------------------------------
\* Grants leave tools and orders alone; the shapes of what they change.
LEMMA GrantMoves ==
  ASSUME IInv, UNCHANGED <<order, agent>>, Burning', Spent', Safe', Known',
         up' \in BOOLEAN, clients' \subseteq Clients, stale' \subseteq Codes,
         codes' \in [Codes -> Clients \cup {None}], refresh' \in [Tokens -> Clients \cup {None}],
         files' \in [clients: SUBSET Clients, refresh: [Tokens -> Clients \cup {None}]],
         request' \in [Requests -> Request \cup {None}], exchanged' \in [Grants -> Nat],
         mine' \in Mine
  PROVE  IInv'
<1>1. TypeOK'
  BY DEF IInv, TypeOK, agent
<1>2. Checked'
  BY DEF IInv, Checked, PaidClaimsAreTrue, agent
<1> QED
  BY <1>1, <1>2 DEF IInv

\* The shapes, and what is known of them, for the steps that leave most alone.
LEMMA Standing ==
  ASSUME IInv
  PROVE  /\ up \in BOOLEAN /\ clients \subseteq Clients /\ stale \subseteq Codes
         /\ codes \in [Codes -> Clients \cup {None}] /\ refresh \in [Tokens -> Clients \cup {None}]
         /\ files \in [clients: SUBSET Clients, refresh: [Tokens -> Clients \cup {None}]]
         /\ request \in [Requests -> Request \cup {None}] /\ exchanged \in [Grants -> Nat]
         /\ mine \in Mine /\ Burning /\ Spent /\ Safe /\ Known
BY DEF IInv, TypeOK

LEMMA Registers == ASSUME IInv, NEW c \in Clients, Register(c) PROVE IInv'
<1>1. /\ clients' = clients \cup {c} /\ up
      /\ \/ files' = [files EXCEPT !.clients = clients'] /\ mine' \in {mine, [mine EXCEPT !.client = c]}
         \/ UNCHANGED <<files, mine>>
      /\ UNCHANGED <<up, codes, stale, refresh, request, exchanged, order, agent>>
  BY DEF Register
<1>2. /\ files' \in [clients: SUBSET Clients, refresh: [Tokens -> Clients \cup {None}]]
      /\ files'.clients \in {clients', files.clients} /\ files'.refresh = files.refresh
  BY <1>1, Standing
<1>3. /\ mine' \in Mine /\ (mine'.client = mine.client \/ (mine'.client = c /\ files'.clients = clients'))
      /\ mine'.code = mine.code /\ mine'.token = mine.token /\ mine'.tried = mine.tried
      /\ mine'.access = mine.access
  BY <1>1, Standing DEF Mine
<1>4. Burning' /\ Spent' /\ Safe'
  BY <1>1, <1>2, <1>3, Standing DEF Burning, Spent, Safe, Signing, Answering, Entry, Kept
<1>5. Known'
  BY <1>1, <1>2, <1>3, Standing, NoneIsNothing DEF Known
<1> QED
  BY <1>1, <1>2, <1>3, <1>4, <1>5, Standing, GrantMoves

LEMMA Authorizes == ASSUME IInv, NEW k \in Codes, Authorize(k) PROVE IInv'
<1>1. /\ codes' = [codes EXCEPT ![k] = mine.client] /\ mine' = [mine EXCEPT !.code = k]
      /\ mine.client \in clients /\ exchanged[k] = 0
      /\ \A r \in Requests : request[r] # None => request[r].grant # k
      /\ UNCHANGED <<up, clients, stale, refresh, files, request, exchanged, order, agent>>
  BY DEF Authorize
<1>2. /\ mine' \in Mine /\ mine'.client = mine.client /\ mine'.token = mine.token
      /\ mine'.tried = mine.tried /\ mine'.access = mine.access
  BY <1>1, Standing DEF Mine
<1>3. codes' \in [Codes -> Clients \cup {None}]
  BY <1>1, Standing
<1>4. \A g \in Grants : g # k => Entry(g)' = Entry(g)
  BY <1>1, Standing DEF Entry, Grants
<1>5. \A r \in Requests : request[r] # None => request[r].grant \in Grants
  BY Standing DEF Request
<1>6. Burning' /\ Spent'
  BY <1>1, <1>4, <1>5, Standing DEF Burning, Spent, Signing
<1>7. Safe'
  BY <1>1, <1>2, Standing DEF Safe, Answering, Kept
<1>8. Known'
  BY <1>1, <1>2, Standing, NoneIsNothing DEF Known
<1> QED
  BY <1>1, <1>2, <1>3, <1>6, <1>7, <1>8, Standing, GrantMoves

LEMMA Lapses == ASSUME IInv, NEW k \in Codes, CodeLapses(k) PROVE IInv'
<1>1. /\ stale' = stale \cup {k}
      /\ UNCHANGED <<up, clients, codes, refresh, files, request, exchanged, mine, order, agent>>
  BY DEF CodeLapses
<1>2. Burning' /\ Spent' /\ Safe' /\ Known'
  BY <1>1, Standing DEF Burning, Spent, Safe, Known, Signing, Answering, Entry, Kept
<1> QED
  BY <1>1, <1>2, Standing, GrantMoves

LEMMA AccessEnds == IInv /\ AccessLapses => IInv'
<1> SUFFICES ASSUME IInv, AccessLapses PROVE IInv'
  OBVIOUS
<1>1. /\ mine' = [mine EXCEPT !.access = FALSE]
      /\ UNCHANGED <<up, oauth, request, exchanged, order, agent>>
  BY DEF AccessLapses
<1>2. /\ mine' \in Mine /\ mine'.client = mine.client /\ mine'.token = mine.token
      /\ mine'.code = mine.code /\ mine'.tried = mine.tried /\ ~mine'.access
  BY <1>1, Standing DEF Mine
<1>3. Burning' /\ Spent' /\ Safe' /\ Known'
  BY <1>1, <1>2, Standing DEF Burning, Spent, Safe, Known, Signing, Answering, Entry, Kept, oauth
<1> QED
  BY <1>1, <1>2, <1>3, Standing, GrantMoves DEF oauth

-----------------------------------------------------------------------------
\* Requests at /token.

\* A request that starts, goes on or ends; the other requests stay.
LEMMA RequestShape ==
  ASSUME IInv, NEW r \in Requests, NEW q \in Request \cup {None},
         request' = [request EXCEPT ![r] = q]
  PROVE  /\ request' \in [Requests -> Request \cup {None}]
         /\ \A s \in Requests : request'[s] = IF s = r THEN q ELSE request[s]
BY Standing

LEMMA StepShape ==
  ASSUME IInv, NEW r \in Requests, request[r] # None,
         NEW step \in {"sent", "signing", "refused"} \cup Tokens,
         request' = [request EXCEPT ![r].step = step]
  PROVE  \E q \in Request : /\ q.step = step /\ q.grant = request[r].grant /\ q.client = request[r].client
                            /\ request' = [request EXCEPT ![r] = q]
<1>1. request[r] \in Request
  BY Standing
<1> DEFINE q == [request[r] EXCEPT !.step = step]
<1>2. q \in Request /\ q.step = step /\ q.grant = request[r].grant /\ q.client = request[r].client
  BY <1>1 DEF Request
<1>3. request' = [request EXCEPT ![r] = q]
  OBVIOUS
<1> QED
  BY <1>2, <1>3

LEMMA Presents == ASSUME IInv, NEW r \in Requests, Present(r) PROVE IInv'
<1>1. PICK g \in {mine.code, mine.token} \ {None}, c \in {mine.client, None} :
        /\ request' = [request EXCEPT ![r] = [grant |-> g, client |-> c, step |-> "sent"]]
        /\ mine' = [mine EXCEPT !.tried = @ \/ g = mine.token]
  BY DEF Present
<1>2. UNCHANGED <<up, clients, codes, stale, refresh, files, exchanged, order, agent>> /\ request[r] = None
  BY DEF Present, oauth
<1>3. mine.client \in Clients /\ c \in Clients \cup {None} /\ g \in Grants /\ (g # mine.token => g \in Codes)
  BY <1>1, Standing DEF Known, Mine, Grants
<1>4. PICK q : q = [grant |-> g, client |-> c, step |-> "sent"]
  OBVIOUS
<1>5. q \in Request /\ q.grant = g /\ q.step = "sent"
  BY <1>3, <1>4 DEF Request
<1>6. /\ request' \in [Requests -> Request \cup {None}]
      /\ \A s \in Requests : request'[s] = IF s = r THEN q ELSE request[s]
  BY <1>1, <1>4, <1>5, RequestShape
<1>7. mine.tried \in BOOLEAN /\ (g = mine.token) \in BOOLEAN
  BY Standing DEF Mine
<1>8. /\ mine' \in Mine /\ mine'.client = mine.client /\ mine'.token = mine.token
      /\ mine'.code = mine.code /\ mine'.access = mine.access
      /\ ~mine'.tried => ~mine.tried /\ g # mine.token
  BY <1>1, <1>7, Standing DEF Mine
<1>9. Burning' /\ Spent'
  BY <1>2, <1>5, <1>6, Standing DEF Burning, Spent, Signing, Entry
<1>10. \A s \in Requests : Answering(s)' => Answering(s) /\ request'[s] = request[s]
  BY <1>5, <1>6, NoneIsNothing DEF Answering
<1>11. \A t \in Tokens : Kept(t) /\ g # t => Kept(t)'
  BY <1>2, <1>5, <1>6 DEF Kept
<1>12. Safe'
  <2>1. \A s \in Requests : Answering(s)' => Kept(request[s].step)' /\ mine'.token # request'[s].step
    <3> SUFFICES ASSUME NEW s \in Requests, Answering(s)'
                 PROVE  Kept(request[s].step)' /\ mine'.token # request'[s].step
      OBVIOUS
    <3>1. /\ Answering(s) /\ request'[s] = request[s] /\ request[s].step \in Tokens
          /\ Kept(request[s].step) /\ mine.token # request[s].step
      BY <1>10, Standing DEF Safe, Answering
    <3>2. g # request[s].step
      BY <1>3, <3>1, NoneIsNothing
    <3>3. PICK t \in Tokens : t = request[s].step
      BY <3>1
    <3>4. Kept(t)'
      BY <1>11, <3>1, <3>2, <3>3
    <3> QED
      BY <1>8, <3>1, <3>3, <3>4 DEF Kept
  <2>2. mine'.token # None /\ ~mine'.tried => Kept(mine.token)'
    <3> SUFFICES ASSUME mine'.token # None, ~mine'.tried PROVE Kept(mine.token)'
      OBVIOUS
    <3>1. Kept(mine.token) /\ mine.token \in Tokens /\ g # mine.token /\ mine'.token = mine.token
      BY <1>8, Standing DEF Safe, Mine
    <3>2. PICK t \in Tokens : t = mine.token
      BY <3>1
    <3>3. Kept(t)'
      BY <1>11, <3>1, <3>2
    <3> QED
      BY <3>1, <3>2, <3>3 DEF Kept
  <2> QED
    BY <1>10, <2>1, <2>2, Standing DEF Safe
<1>13. Known'
  BY <1>2, <1>3, <1>8, Standing, NoneIsNothing DEF Known
<1> QED
  BY <1>2, <1>6, <1>8, <1>9, <1>12, <1>13, Standing, GrantMoves

\* What is safe stays so when no token is lost, no request starts, and no
\* answer comes up.
LEMMA SafeStays ==
  ASSUME IInv, UNCHANGED mine,
         \A t \in Tokens : files.refresh[t] # None => files'.refresh[t] # None,
         up' => up /\ \A t \in Tokens : Kept(t) => refresh'[t] # None,
         \A s \in Requests : request'[s] # None =>
           /\ request[s] # None /\ request'[s].grant = request[s].grant
           /\ request'[s].step \in Tokens => request'[s].step = request[s].step
  PROVE  Safe'
<1>1. \A s \in Requests : Answering(s)' => Answering(s) /\ request'[s].step = request[s].step
  BY DEF Answering
<1>2. ASSUME NEW t \in Tokens, Kept(t) PROVE Kept(t)'
  BY <1>2 DEF Kept
<1>3. ASSUME NEW s \in Requests, Answering(s)'
      PROVE  Kept(request[s].step)' /\ mine'.token # request'[s].step
  <2>1. Kept(request[s].step) /\ mine.token # request[s].step /\ request[s].step \in Tokens
    BY <1>1, <1>3, Standing DEF Safe, Answering
  <2>2. PICK t \in Tokens : t = request[s].step
    BY <2>1
  <2>3. Kept(t)' /\ request'[s].step = t
    BY <1>1, <1>2, <1>3, <2>1, <2>2
  <2> QED
    BY <2>1, <2>2, <2>3 DEF Kept
<1>4. mine'.token # None /\ ~mine'.tried => Kept(mine.token)'
  <2> SUFFICES ASSUME mine.token # None, ~mine.tried PROVE Kept(mine.token)'
    OBVIOUS
  <2>1. Kept(mine.token) /\ mine.token \in Tokens
    BY Standing DEF Safe, Mine
  <2>2. PICK t \in Tokens : t = mine.token
    BY <2>1
  <2>3. Kept(t)'
    BY <1>2, <2>1, <2>2
  <2> QED
    BY <2>1, <2>2, <2>3 DEF Kept
<1> QED
  BY <1>1, <1>3, <1>4, Standing DEF Safe

\* Who is known stays so when files and holdings of the integration do.
LEMMA KnownStays ==
  ASSUME IInv, UNCHANGED mine, up' => files'.clients \subseteq clients', files'.clients = files.clients,
         \A s \in Requests : request'[s] # None => request[s] # None
  PROVE  Known'
BY Standing DEF Known

LEMMA Redeems == ASSUME IInv, NEW r \in Requests, Redeem(r) PROVE IInv'
<1>1. PICK g : g = request[r].grant
  OBVIOUS
<1>2. PICK good : good = (Entry(g) # None /\ request[r].client \in {Entry(g), None} /\ g \notin stale)
  OBVIOUS
<1>3. /\ up /\ request[r] # None /\ request[r].step = "sent" /\ Burned(g)
      /\ request' = [request EXCEPT ![r] =
           IF good THEN [request[r] EXCEPT !.step = "signing", !.client = Entry(g)]
           ELSE [request[r] EXCEPT !.step = "refused"]]
      /\ UNCHANGED <<up, clients, stale, files, exchanged, mine, order, agent>>
  BY <1>1, <1>2 DEF Redeem
<1>4. PICK q \in Request :
        /\ q.step \in {"signing", "refused"} /\ (q.step = "signing" => good /\ q.client # None)
        /\ q.grant = g /\ request' = [request EXCEPT ![r] = q]
  <2>1. request[r] \in Request /\ Entry(g) \in Clients \cup {None}
    BY <1>1, <1>3, Standing DEF Request, Entry, Grants
  <2>2. CASE good
    <3>1. PICK q : q = [request[r] EXCEPT !.step = "signing", !.client = Entry(g)]
      OBVIOUS
    <3>2. q \in Request /\ q.step = "signing" /\ q.grant = g /\ q.client = Entry(g)
      BY <1>1, <2>1, <3>1 DEF Request
    <3> QED
      BY <1>2, <1>3, <2>2, <3>1, <3>2
  <2>3. CASE ~good
    <3>1. PICK q : q = [request[r] EXCEPT !.step = "refused"]
      OBVIOUS
    <3>2. q \in Request /\ q.step = "refused" /\ q.grant = g
      BY <1>1, <2>1, <3>1 DEF Request
    <3> QED
      BY <1>3, <2>3, <3>1, <3>2
  <2> QED
    BY <2>2, <2>3
<1>5. /\ request' \in [Requests -> Request \cup {None}]
      /\ \A s \in Requests : request'[s] = IF s = r THEN q ELSE request[s]
  BY <1>4, RequestShape
<1>6. /\ codes' \in [Codes -> Clients \cup {None}] /\ refresh' \in [Tokens -> Clients \cup {None}]
      /\ \A t \in Tokens : refresh'[t] = IF t = g THEN None ELSE refresh[t]
      /\ \A k \in Codes : codes'[k] = IF k = g THEN None ELSE codes[k]
  BY <1>3, Standing DEF Burned
<1>7. /\ g \in Grants
      /\ \A s \in Requests : request[s] # None => request[s].grant \in Grants
  BY <1>1, <1>3, Standing DEF Request
<1>8. \A h \in Grants : Entry(h)' = IF h = g THEN None ELSE Entry(h)
  BY <1>6 DEF Entry, Grants
<1>9. good => Entry(g) # None
  BY <1>2, <1>7, NoneIsNothing
<1>10. \A s \in Requests : Signing(s)' =>
          \/ s = r /\ good /\ request'[s].grant = g /\ request'[s].client # None
          \/ s # r /\ Signing(s) /\ request'[s] = request[s]
  BY <1>4, <1>5 DEF Signing
<1>11. \A s \in Requests : Signing(s) => Entry(request[s].grant) = None /\ request[s].grant \in Grants
  BY <1>7, Standing DEF Burning, Signing
<1>12. Burning'
  <2>1. ASSUME NEW s \in Requests, Signing(s)' PROVE Entry(request[s].grant)' = None
    <3>1. PICK h \in Grants : h = request'[s].grant
      BY <1>7, <1>10, <1>11, <2>1
    <3>2. h = g \/ Entry(h) = None
      BY <1>10, <1>11, <2>1, <3>1
    <3>3. Entry(h)' = None
      BY <1>8, <3>2
    <3> QED
      BY <3>1, <3>3 DEF Entry
  <2>2. \A s \in Requests : Signing(s)' => up' /\ request'[s].client # None
    BY <1>3, <1>10, Standing DEF Burning
  <2>3. ASSUME NEW s \in Requests, NEW u \in Requests, Signing(s)', Signing(u)',
               request'[s].grant = request'[u].grant
        PROVE  s = u
    BY <1>9, <1>10, <1>11, <2>3, Standing DEF Burning
  <2> QED
    BY <2>1, <2>2, <2>3 DEF Burning
<1>13. Spent'
  <2> SUFFICES ASSUME NEW h \in Grants, exchanged[h] > 0
               PROVE  /\ exchanged[h] = 1 /\ Entry(h)' = None
                      /\ h \in Tokens => files.refresh[h] = None
                      /\ \A s \in Requests : Signing(s)' => request'[s].grant # h
    BY <1>3 DEF Spent
  <2>1. /\ exchanged[h] = 1 /\ Entry(h) = None /\ (h \in Tokens => files.refresh[h] = None)
        /\ \A s \in Requests : Signing(s) => request[s].grant # h
    BY Standing DEF Spent
  <2>2. \A s \in Requests : Signing(s)' => request'[s].grant # h
    BY <1>9, <1>10, <2>1
  <2> QED
    BY <1>8, <2>1, <2>2
<1>14. Safe'
  BY <1>1, <1>3, <1>4, <1>5, <1>6, NoneIsNothing, SafeStays DEF Kept
<1>15. Known'
  BY <1>3, <1>5, Standing, KnownStays DEF Known
<1> QED
  BY <1>3, <1>5, <1>6, <1>12, <1>13, <1>14, <1>15, Standing, GrantMoves

LEMMA Issues == ASSUME IInv, NEW r \in Requests, NEW t \in Tokens, Issue(r, t) PROVE IInv'
<1>1. PICK g : g = request[r].grant
  OBVIOUS
<1>2. /\ up /\ request[r] # None /\ request[r].step = "signing" /\ Unused(t)
      /\ refresh' = [refresh EXCEPT ![t] = request[r].client]
      /\ files' = [files EXCEPT !.refresh = refresh']
      /\ exchanged' = [exchanged EXCEPT ![g] = @ + 1]
      /\ request' = [request EXCEPT ![r].step = t]
      /\ UNCHANGED <<up, clients, codes, stale, mine, order, agent>>
  BY <1>1 DEF Issue
<1>3. PICK q \in Request :
        q.step = t /\ q.grant = g /\ q.client = request[r].client /\ request' = [request EXCEPT ![r] = q]
  BY <1>1, <1>2, StepShape
<1>4. /\ request' \in [Requests -> Request \cup {None}]
      /\ \A s \in Requests : request'[s] = IF s = r THEN q ELSE request[s]
  BY <1>3, RequestShape
<1>5. /\ g \in Grants /\ request[r].client \in Clients /\ request[r].client # None
      /\ \A s \in Requests : request[s] # None => request[s].grant \in Grants
  BY <1>1, <1>2, Standing, NoneIsNothing DEF Request, Burning, Signing
<1>6. /\ refresh' \in [Tokens -> Clients \cup {None}]
      /\ \A u \in Tokens : refresh'[u] = IF u = t THEN request[r].client ELSE refresh[u]
  BY <1>2, <1>5, Standing
<1>7. /\ files' \in [clients: SUBSET Clients, refresh: [Tokens -> Clients \cup {None}]]
      /\ files'.refresh = refresh' /\ files'.clients = files.clients
  BY <1>2, <1>6, Standing
<1>8. /\ exchanged' \in [Grants -> Nat]
      /\ \A h \in Grants : exchanged'[h] = IF h = g THEN exchanged[h] + 1 ELSE exchanged[h]
  BY <1>2, <1>5, Standing
<1>9. /\ exchanged[t] = 0 /\ mine.token # t /\ t \in Grants
      /\ \A s \in Requests : request[s] # None => request[s].grant # t /\ request[s].step # t
  BY <1>2 DEF Unused, Grants
<1>10. g # t /\ exchanged[g] = 0 /\ Entry(g) = None
  BY <1>1, <1>2, <1>5, <1>9, Standing DEF Spent, Burning, Signing
<1>11. \A h \in Grants : h # t => Entry(h)' = Entry(h)
  BY <1>2, <1>6 DEF Entry, Grants
<1>12. \A s \in Requests : Signing(s)' => Signing(s) /\ s # r /\ request'[s] = request[s]
  BY <1>3, <1>4, NoneIsNothing DEF Signing
<1>13. Burning'
  BY <1>2, <1>5, <1>9, <1>11, <1>12, Standing DEF Burning, Signing
<1>14. Spent'
  <2> SUFFICES ASSUME NEW h \in Grants, exchanged'[h] > 0
               PROVE  /\ exchanged'[h] = 1 /\ Entry(h)' = None
                      /\ h \in Tokens => files'.refresh[h] = None
                      /\ \A s \in Requests : Signing(s)' => request'[s].grant # h
    BY DEF Spent
  <2>1. h # t
    BY <1>8, <1>9, <1>10
  <2>2. exchanged'[h] = 1 /\ Entry(h)' = None
    BY <1>8, <1>10, <1>11, <2>1, Standing DEF Spent
  <2>3. h \in Tokens => files'.refresh[h] = None
    BY <1>7, <2>2, NoneIsNothing DEF Entry
  <2>4. \A s \in Requests : Signing(s)' => request'[s].grant # h
    <3> SUFFICES ASSUME NEW s \in Requests, Signing(s)' PROVE request'[s].grant # h
      OBVIOUS
    <3>1. CASE h = g
      BY <1>1, <1>2, <1>12, <3>1, Standing DEF Burning, Signing
    <3>2. CASE h # g
      BY <1>8, <1>12, <3>2, Standing DEF Spent
    <3> QED
      BY <3>1, <3>2
  <2> QED
    BY <2>2, <2>3, <2>4
<1>15. Safe'
  <2>1. ASSUME NEW u \in Tokens, u = t \/ Kept(u) PROVE Kept(u)'
    <3>1. refresh'[u] # None /\ files'.refresh[u] # None
      BY <1>2, <1>5, <1>6, <1>7, <2>1 DEF Kept
    <3>2. \A s \in Requests : request'[s] # None => request[s] # None /\ request'[s].grant = request[s].grant
      BY <1>1, <1>2, <1>3, <1>4
    <3>3. \A s \in Requests : request[s] # None => request[s].grant # u
      BY <1>9, <2>1 DEF Kept
    <3> QED
      BY <3>1, <3>2, <3>3 DEF Kept
  <2>2. \A s \in Requests : Answering(s)' => s = r \/ (Answering(s) /\ request'[s] = request[s])
    BY <1>4 DEF Answering
  <2>3. ASSUME NEW s \in Requests, Answering(s)'
        PROVE  Kept(request[s].step)' /\ mine'.token # request'[s].step
    <3>1. PICK u \in Tokens : u = request'[s].step
      BY <2>3 DEF Answering
    <3>2. (u = t \/ Kept(u)) /\ mine'.token # u
      BY <1>2, <1>3, <1>4, <1>9, <2>2, <2>3, <3>1, Standing DEF Safe, Answering
    <3> QED
      BY <2>1, <3>1, <3>2 DEF Kept
  <2>4. mine'.token # None /\ ~mine'.tried => Kept(mine.token)'
    <3> SUFFICES ASSUME mine.token # None, ~mine.tried PROVE Kept(mine.token)'
      BY <1>2
    <3>1. PICK u \in Tokens : u = mine.token /\ Kept(u)
      BY Standing DEF Safe, Mine
    <3> QED
      BY <1>2, <2>1, <3>1 DEF Kept
  <2>5. \A s, v \in Requests : Answering(s)' /\ Answering(v)' /\ request'[s].step = request'[v].step => s = v
    BY <1>3, <1>4, <1>9, <2>2, Standing DEF Safe, Answering
  <2> QED
    BY <2>3, <2>4, <2>5 DEF Safe
<1>16. Known'
  BY <1>2, <1>4, <1>7, Standing, KnownStays DEF Known
<1> QED
  BY <1>2, <1>4, <1>6, <1>7, <1>8, <1>13, <1>14, <1>15, <1>16, Standing, GrantMoves

LEMMA WritesFail == ASSUME IInv, NEW r \in Requests, NEW t \in Tokens, WriteFails(r, t) PROVE IInv'
<1>1. /\ up /\ request[r] # None /\ request[r].step = "signing" /\ Unused(t)
      /\ refresh' = [refresh EXCEPT ![t] = request[r].client]
      /\ request' = [request EXCEPT ![r] = None]
      /\ UNCHANGED <<up, clients, codes, stale, files, exchanged, mine, order, agent>>
  BY DEF WriteFails
<1>2. /\ request' \in [Requests -> Request \cup {None}]
      /\ \A s \in Requests : request'[s] = IF s = r THEN None ELSE request[s]
  BY <1>1, RequestShape
<1>3. /\ request[r].client \in Clients /\ request[r].client # None
      /\ \A s \in Requests : request[s] # None => request[s].grant \in Grants
  BY <1>1, Standing, NoneIsNothing DEF Request, Burning, Signing
<1>4. /\ refresh' \in [Tokens -> Clients \cup {None}]
      /\ \A u \in Tokens : refresh'[u] = IF u = t THEN request[r].client ELSE refresh[u]
  BY <1>1, <1>3, Standing
<1>5. /\ exchanged[t] = 0 /\ t \in Grants
      /\ \A s \in Requests : request[s] # None => request[s].grant # t
  BY <1>1 DEF Unused, Grants
<1>6. \A h \in Grants : h # t => Entry(h)' = Entry(h)
  BY <1>1, <1>4 DEF Entry, Grants
<1>7. \A s \in Requests : Signing(s)' => Signing(s) /\ request'[s] = request[s]
  BY <1>2 DEF Signing
<1>8. Burning'
  BY <1>1, <1>3, <1>5, <1>6, <1>7, Standing DEF Burning, Signing
<1>9. Spent'
  <2> SUFFICES ASSUME NEW h \in Grants, exchanged[h] > 0
               PROVE  /\ exchanged[h] = 1 /\ Entry(h)' = None
                      /\ h \in Tokens => files.refresh[h] = None
                      /\ \A s \in Requests : Signing(s)' => request'[s].grant # h
    BY <1>1 DEF Spent
  <2>1. h # t
    BY <1>5
  <2> QED
    BY <1>6, <1>7, <2>1, Standing DEF Spent
<1>10. Safe'
  BY <1>1, <1>2, <1>3, <1>4, Standing, SafeStays DEF Kept
<1>11. Known'
  BY <1>1, <1>2, Standing, KnownStays DEF Known
<1> QED
  BY <1>1, <1>2, <1>4, <1>8, <1>9, <1>10, <1>11, Standing, GrantMoves

LEMMA Receives == ASSUME IInv, NEW r \in Requests, Receive(r) PROVE IInv'
<1>1. PICK g : g = request[r].grant
  OBVIOUS
<1>2. PICK step : step = request[r].step
  OBVIOUS
<1>3. PICK rest : rest = [mine EXCEPT !.code = IF @ = g THEN None ELSE @, !.token = IF @ = g THEN None ELSE @]
  OBVIOUS
<1>4. /\ request[r] # None /\ step \in Tokens \cup {"refused"}
      /\ request' = [request EXCEPT ![r] = None]
      /\ mine' = IF step = "refused" THEN rest
                 ELSE [rest EXCEPT !.token = step, !.tried = FALSE, !.access = TRUE]
      /\ UNCHANGED <<up, oauth, exchanged, order, agent>>
  BY <1>1, <1>2, <1>3 DEF Receive
<1>5. UNCHANGED <<up, clients, codes, stale, refresh, files, exchanged, order, agent>>
  BY <1>4 DEF oauth
<1>6. /\ request' \in [Requests -> Request \cup {None}]
      /\ \A s \in Requests : request'[s] = IF s = r THEN None ELSE request[s]
  BY <1>4, RequestShape
<1>7. /\ rest \in Mine /\ rest.client = mine.client /\ rest.tried = mine.tried /\ rest.access = mine.access
      /\ rest.token \in {mine.token, None}
  BY <1>3, Standing DEF Mine
<1>8. /\ mine' \in Mine /\ mine'.client = mine.client
      /\ \/ mine'.token \in {mine.token, None} /\ mine'.tried = mine.tried
         \/ step \in Tokens /\ mine'.token = step
  BY <1>4, <1>7, NoneIsNothing DEF Mine
<1>9. mine.client # None
  BY <1>4, Standing DEF Known
<1>10. Burning' /\ Spent'
  BY <1>5, <1>6, Standing DEF Burning, Spent, Signing, Entry
<1>11. \A t \in Tokens : Kept(t) => Kept(t)'
  BY <1>5, <1>6 DEF Kept
<1>12. \A s \in Requests : Answering(s)' =>
          s # r /\ Answering(s) /\ request'[s] = request[s] /\ request[s].step \in Tokens
  BY <1>6 DEF Answering
<1>13. \A s \in Requests : Answering(s)' => Kept(request[s].step)' /\ mine'.token # request'[s].step
  <2> SUFFICES ASSUME NEW s \in Requests, Answering(s)'
               PROVE  Kept(request[s].step)' /\ mine'.token # request'[s].step
    OBVIOUS
  <2>1. PICK t \in Tokens : t = request[s].step
    BY <1>12
  <2>2. Kept(t) /\ mine.token # t /\ request'[s].step = t
    BY <1>12, <2>1, Standing DEF Safe
  <2>3. step \in Tokens => step # t
    BY <1>2, <1>4, <1>12, <2>1, Standing DEF Safe, Answering
  <2>4. mine'.token # t
    BY <1>8, <2>2, <2>3, NoneIsNothing
  <2>5. Kept(t)'
    BY <1>11, <2>2
  <2> QED
    BY <2>2, <2>4, <2>5 DEF Kept
<1>14. mine'.token # None /\ ~mine'.tried => Kept(mine.token)'
  <2> SUFFICES ASSUME mine'.token # None, ~mine'.tried PROVE Kept(mine.token)'
    OBVIOUS
  <2>1. PICK t : t = mine'.token
    OBVIOUS
  <2>2. t \in Tokens /\ Kept(t)
    <3>1. CASE mine'.token = mine.token /\ mine'.tried = mine.tried
      BY <2>1, <3>1, Standing DEF Safe, Mine
    <3>2. CASE step \in Tokens /\ mine'.token = step
      BY <1>2, <1>4, <2>1, <3>2, Standing DEF Safe, Answering
    <3> QED
      BY <1>8, <3>1, <3>2
  <2>3. Kept(t)'
    BY <1>11, <2>2
  <2> QED
    BY <2>1, <2>3 DEF Kept
<1>15. Safe'
  BY <1>12, <1>13, <1>14, Standing DEF Safe
<1>16. Known'
  BY <1>5, <1>8, <1>9, Standing DEF Known
<1> QED
  BY <1>5, <1>6, <1>8, <1>10, <1>15, <1>16, Standing, GrantMoves

LEMMA Loses == ASSUME IInv, NEW r \in Requests, Lose(r) PROVE IInv'
<1>1. /\ request' = [request EXCEPT ![r] = None]
      /\ UNCHANGED <<up, clients, codes, stale, refresh, files, exchanged, mine, order, agent>>
  BY DEF Lose, oauth
<1>2. /\ request' \in [Requests -> Request \cup {None}]
      /\ \A s \in Requests : request'[s] = IF s = r THEN None ELSE request[s]
  BY <1>1, RequestShape
<1>3. Burning' /\ Spent'
  BY <1>1, <1>2, Standing DEF Burning, Spent, Signing, Entry
<1>4. Safe'
  BY <1>1, <1>2, Standing, SafeStays DEF Kept
<1>5. Known'
  BY <1>1, <1>2, Standing, KnownStays DEF Known
<1> QED
  BY <1>1, <1>2, <1>3, <1>4, <1>5, Standing, GrantMoves

-----------------------------------------------------------------------------
\* Stop and start.
LEMMA Stops == IInv /\ Stop => IInv'
<1> SUFFICES ASSUME IInv, Stop PROVE IInv'
  OBVIOUS
<1>1. /\ up' = FALSE /\ clients' = {} /\ codes' = [k \in Codes |-> None] /\ refresh' = [t \in Tokens |-> None]
      /\ request' = [r \in Requests |->
           IF request[r] # None /\ request[r].step = "signing" THEN None ELSE request[r]]
      /\ proposals' = {} /\ call' = [c \in ToolCalls |-> None]
      /\ UNCHANGED <<stale, files, exchanged, mine, order, born, outbox>>
  BY DEF Stop
<1>2. \A r \in Requests : ~Signing(r)' /\ (request'[r] # None => request'[r] = request[r])
  BY <1>1 DEF Signing
<1>3. request' \in [Requests -> Request \cup {None}]
  BY <1>1, Standing
<1>4. \A g \in Grants : Entry(g)' = None
  BY <1>1 DEF Entry, Grants
<1>5. Burning' /\ Spent'
  BY <1>1, <1>2, <1>4, Standing DEF Burning, Spent
<1>6. Safe'
  BY <1>1, <1>2, Standing, SafeStays
<1>7. Known'
  BY <1>1, <1>2, Standing, KnownStays
<1>8. Checked'
  BY <1>1 DEF IInv, Checked, PaidClaimsAreTrue
<1>9. TypeOK'
  <2>1. /\ up' \in BOOLEAN /\ clients' \subseteq Clients /\ proposals' \subseteq Proposal
        /\ codes' \in [Codes -> Clients \cup {None}] /\ refresh' \in [Tokens -> Clients \cup {None}]
    BY <1>1
  <2>2. call' \in [ToolCalls -> Call \cup {None}]
    BY <1>1
  <2>3. /\ stale' \subseteq Codes /\ exchanged' \in [Grants -> Nat] /\ mine' \in Mine
        /\ files' \in [clients: SUBSET Clients, refresh: [Tokens -> Clients \cup {None}]]
    BY <1>1, Standing
  <2>4. /\ order' \in [status: Statuses, wasPaid: BOOLEAN] /\ born' \in 0..MaxProposals
        /\ outbox' \subseteq 1..born'
    BY <1>1 DEF IInv, TypeOK
  <2> QED
    BY <1>3, <2>1, <2>2, <2>3, <2>4 DEF TypeOK
<1> QED
  BY <1>5, <1>6, <1>7, <1>8, <1>9 DEF IInv

LEMMA Boots == IInv /\ Boot => IInv'
<1> SUFFICES ASSUME IInv, Boot PROVE IInv'
  OBVIOUS
<1>1. /\ ~up /\ up' /\ clients' = files.clients /\ refresh' = files.refresh
      /\ UNCHANGED <<codes, stale, files, request, exchanged, mine, order, agent>>
  BY DEF Boot
<1>2. Burning'
  BY <1>1, Standing DEF Burning, Signing
<1>3. Spent'
  BY <1>1, Standing DEF Spent, Signing, Entry, Grants
<1>4. Safe'
  <2>1. \A t \in Tokens : Kept(t) => Kept(t)'
    BY <1>1 DEF Kept
  <2>2. \A r \in Requests : Answering(r) => request[r].step \in Tokens
    BY DEF Answering
  <2>3. ASSUME NEW r \in Requests, Answering(r) PROVE Kept(request[r].step)'
    <3>1. PICK t \in Tokens : t = request[r].step
      BY <2>2, <2>3
    <3> QED
      BY <1>1, <2>1, <2>3, <3>1, Standing DEF Safe, Kept
  <2>4. mine.token # None /\ ~mine.tried => Kept(mine.token)'
    BY <1>1, <2>1, Standing DEF Safe, Mine, Kept
  <2> QED
    BY <1>1, <2>3, <2>4, Standing DEF Safe, Answering
<1>5. Known'
  BY <1>1, Standing DEF Known
<1>6. up' \in BOOLEAN
  BY <1>1
<1> QED
  BY <1>1, <1>2, <1>3, <1>4, <1>5, <1>6, Standing, GrantMoves

-----------------------------------------------------------------------------
LEMMA Inductive == IInv /\ [Next]_vars => IInv'
<1> SUFFICES ASSUME IInv, [Next]_vars PROVE IInv'
  OBVIOUS
<1>1. CASE UNCHANGED vars
  <2>1. UNCHANGED <<up, clients, codes, stale, refresh, files, request, exchanged, mine,
                    order, proposals, born, outbox, call>>
    BY <1>1 DEF vars, oauth, agent
  <2>2. TypeOK' /\ Checked'
    BY <2>1 DEF IInv, TypeOK, Checked, PaidClaimsAreTrue
  <2>3. Burning' /\ Spent' /\ Safe' /\ Known'
    BY <2>1, Standing DEF Burning, Spent, Safe, Known, Signing, Answering, Kept, Entry
  <2> QED
    BY <2>2, <2>3 DEF IInv
<1>2. CASE \E c \in Clients : Register(c)
  BY <1>2, Registers
<1>3. CASE \E k \in Codes : Authorize(k) \/ CodeLapses(k)
  BY <1>3, Authorizes, Lapses
<1>4. CASE \E r \in Requests :
             \/ Present(r) \/ Redeem(r) \/ Receive(r) \/ Lose(r)
             \/ \E t \in Tokens : Issue(r, t) \/ WriteFails(r, t)
  BY <1>4, Presents, Redeems, Receives, Loses, Issues, WritesFail
<1>5. CASE AccessLapses \/ OrderMoves \/ ClearDevice \/ Stop \/ Boot
  BY <1>5, AccessEnds, OrderMoved, DeviceCleared, Stops, Boots
<1>6. CASE \E c \in ToolCalls : CallTool(c) \/ FetchSnapshot(c) \/ Propose(c) \/ Notify(c) \/ ToolEnds(c)
  BY <1>6, ToolsMove
<1> QED
  BY <1>1, <1>2, <1>3, <1>4, <1>5, <1>6 DEF Next

LEMMA AlwaysIInv == Spec => []IInv
BY InitIInv, Inductive, PTL DEF Spec

\* OAuth state, files, requests and tool calls keep their shapes (oauth.mjs).
THEOREM TypeCorrect == Spec => []TypeOK
<1>1. IInv => TypeOK
  BY DEF IInv
<1> QED
  BY <1>1, AlwaysIInv, PTL

\* However requests overlap, are retried and are cut off by a restart, a code
\* or a refresh token is exchanged at most once (oauth.mjs, POST /token).
THEOREM OneExchange == Spec => []ExchangedOnce
<1>1. IInv => ExchangedOnce
  BY Promised
<1> QED
  BY <1>1, AlwaysIInv, PTL

\* The integration stays registered and its unused refresh token stays good
\* whenever the process stops (oauth.mjs, the two files).
THEOREM ConnectionKept == Spec => []ConnectionSurvives
<1>1. IInv => ConnectionSurvives
  BY Promised
<1> QED
  BY <1>1, AlwaysIInv, PTL

\* A stored draft that says the order is paid is about an order that was paid
\* (server.ts, validation.ts).
THEOREM PaidIsTrue == Spec => []PaidClaimsAreTrue
<1>1. IInv => PaidClaimsAreTrue
  BY Promised
<1> QED
  BY <1>1, AlwaysIInv, PTL
=============================================================================
