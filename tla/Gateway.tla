------------------------------ MODULE Gateway ------------------------------
(***************************************************************************)
(* The action gateway as one process: its OAuth server keeps registrations *)
(* and refresh tokens in memory and in files, codes and proposals in       *)
(* memory only. The process may stop at any await and start again; the     *)
(* integration connects, refreshes and calls tools, its requests overlap,  *)
(* and answers are lost.                                                   *)
(***************************************************************************)
EXTENDS Naturals, FiniteSets

CONSTANTS
  Clients,       \* bound: client ids /register makes
  Codes,         \* bound: authorization codes
  Tokens,        \* bound: refresh tokens
  Requests,      \* bound: requests under way at /token
  ToolCalls,     \* bound: calls under way at /mcp
  MaxProposals,  \* bound: proposals ever made
  None

VARIABLES
  up,          \* the process runs
  clients,     \* registrations
  codes,       \* client of each code
  stale,       \* codes older than CODE_TTL_MS
  refresh,     \* client of each refresh token
  files,       \* CLIENTFILE and REFRESHFILE
  request,     \* requests at /token
  exchanged,   \* how often each code or token was exchanged
  mine,        \* what the integration holds
  order,       \* payment status of the order, and whether it ever was PAID
  proposals,   \* proposals in memory
  born,        \* proposals ever made
  outbox,      \* proposals whose link code was delivered
  call         \* tool calls

oauth == <<clients, codes, stale, refresh, files>>
agent == <<proposals, born, outbox, call>>
vars  == <<up, oauth, request, exchanged, mine, order, agent>>

-----------------------------------------------------------------------------
Grants   == Codes \cup Tokens
Statuses == {"AWAITING_PAYMENT", "CONFIRMING", "PAID", "NEEDS_REVIEW"}

Request  == [grant: Grants, client: Clients \cup {None}, step: {"sent", "signing", "refused"} \cup Tokens]
Mine     == [client: Clients \cup {None}, code: Codes \cup {None}, token: Tokens \cup {None},
             tried: BOOLEAN, access: BOOLEAN]
Draft    == [principal: Clients, status: Statuses, claimsPaid: BOOLEAN]
Proposal == [id: 1..MaxProposals, draft: Draft]
Call     == [draft: Draft, step: {"asked", "checked", "notifying", "proposed", "error"}]

ASSUME ConstantsAssumption ==
  /\ Codes \cap Tokens = {} /\ MaxProposals \in Nat
  /\ None \notin Clients \cup Grants \cup Request \cup Call
  /\ {"sent", "signing", "refused"} \cap Tokens = {}

Init ==
  /\ up = TRUE
  /\ clients = {} /\ stale = {}
  /\ codes = [c \in Codes |-> None] /\ refresh = [t \in Tokens |-> None]
  /\ files = [clients |-> {}, refresh |-> refresh]
  /\ request = [r \in Requests |-> None] /\ exchanged = [g \in Grants |-> 0]
  /\ mine = [client |-> None, code |-> None, token |-> None, tried |-> FALSE, access |-> FALSE]
  /\ order = [status |-> "AWAITING_PAYMENT", wasPaid |-> FALSE]
  /\ proposals = {} /\ born = 0 /\ outbox = {} /\ call = [c \in ToolCalls |-> None]

-----------------------------------------------------------------------------
\* Connecting.

\* Mutant: registrations are kept in memory only.
Register_InMemory(c) ==
  /\ up /\ c \notin clients \cup files.clients
  /\ clients' = clients \cup {c}
  /\ mine' \in {mine, [mine EXCEPT !.client = c]}
  /\ UNCHANGED <<up, codes, stale, refresh, files, request, exchanged, order, agent>>

\* POST /register; the answer may be lost. If the file cannot be written the
\* answer is an error, and the registration is in memory only.
Register(c) ==
  /\ up /\ c \notin clients \cup files.clients
  /\ clients' = clients \cup {c}
  /\ \/ /\ files' = [files EXCEPT !.clients = clients']
        /\ mine' \in {mine, [mine EXCEPT !.client = c]}
     \/ UNCHANGED <<files, mine>>
  /\ UNCHANGED <<up, codes, stale, refresh, request, exchanged, order, agent>>

\* GET /authorize.
Authorize(k) ==
  /\ up /\ mine.client \in clients
  /\ codes[k] = None /\ exchanged[k] = 0 /\ k \notin stale /\ mine.code # k
  /\ ~\E r \in Requests : request[r] # None /\ request[r].grant = k
  /\ codes' = [codes EXCEPT ![k] = mine.client]
  /\ mine' = [mine EXCEPT !.code = k]
  /\ UNCHANGED <<up, clients, stale, refresh, files, request, exchanged, order, agent>>

CodeLapses(k) ==
  /\ codes[k] # None /\ k \notin stale
  /\ stale' = stale \cup {k}
  /\ UNCHANGED <<up, clients, codes, refresh, files, request, exchanged, mine, order, agent>>

-----------------------------------------------------------------------------
\* POST /token.

\* The integration exchanges what it holds, again when no answer came. It may
\* leave out who it is.
Present(r) ==
  /\ request[r] = None
  /\ \E g \in {mine.code, mine.token} \ {None}, c \in {mine.client, None} :
       /\ request' = [request EXCEPT ![r] = [grant |-> g, client |-> c, step |-> "sent"]]
       /\ mine' = [mine EXCEPT !.tried = @ \/ g = mine.token]
  /\ UNCHANGED <<up, oauth, exchanged, order, agent>>

Entry(g) == IF g \in Codes THEN codes[g] ELSE refresh[g]

\* Mutant: the grant is burned when its successor is issued.
Burned_Later(g) == UNCHANGED <<codes, refresh>>

Burned(g) ==
  /\ codes' = [k \in Codes |-> IF k = g THEN None ELSE codes[k]]
  /\ refresh' = [t \in Tokens |-> IF t = g THEN None ELSE refresh[t]]

\* Up to the signature: the grant is burned before anything else is checked,
\* a refresh token in memory only. Its successor is for the client it was made for.
Redeem(r) ==
  /\ up /\ request[r] # None /\ request[r].step = "sent"
  /\ LET q == request[r]
         owner == Entry(q.grant)
         good == owner # None /\ q.client \in {owner, None} /\ q.grant \notin stale
     IN  /\ Burned(q.grant)
         /\ request' = [request EXCEPT ![r] =
              IF good THEN [q EXCEPT !.step = "signing", !.client = owner]
              ELSE [q EXCEPT !.step = "refused"]]
  /\ UNCHANGED <<up, clients, stale, files, exchanged, mine, order, agent>>

Unused(t) ==
  /\ refresh[t] = None /\ files.refresh[t] = None /\ exchanged[t] = 0 /\ mine.token # t
  /\ ~\E r \in Requests : request[r] # None /\ t \in {request[r].grant, request[r].step}

\* issue: the rotated token is added and all of them are written.
Issue(r, t) ==
  /\ up /\ request[r] # None /\ request[r].step = "signing" /\ Unused(t)
  /\ refresh' = [refresh EXCEPT ![t] = request[r].client]
  /\ files' = [files EXCEPT !.refresh = refresh']
  /\ exchanged' = [exchanged EXCEPT ![request[r].grant] = @ + 1]
  /\ request' = [request EXCEPT ![r].step = t]
  /\ UNCHANGED <<up, clients, codes, stale, mine, order, agent>>

\* The file cannot be written: the answer is an error, the token stays in memory.
WriteFails(r, t) ==
  /\ up /\ request[r] # None /\ request[r].step = "signing" /\ Unused(t)
  /\ refresh' = [refresh EXCEPT ![t] = request[r].client]
  /\ request' = [request EXCEPT ![r] = None]
  /\ UNCHANGED <<up, clients, codes, stale, files, exchanged, mine, order, agent>>

\* The integration gets the answer: tokens, or a refusal that ends the grant.
Receive(r) ==
  /\ request[r] # None /\ request[r].step \in Tokens \cup {"refused"}
  /\ request' = [request EXCEPT ![r] = None]
  /\ LET g == request[r].grant
         rest == [mine EXCEPT !.code = IF @ = g THEN None ELSE @, !.token = IF @ = g THEN None ELSE @]
     IN  mine' = IF request[r].step = "refused" THEN rest
                 ELSE [rest EXCEPT !.token = request[r].step, !.tried = FALSE, !.access = TRUE]
  /\ UNCHANGED <<up, oauth, exchanged, order, agent>>

\* The request or its answer is lost.
Lose(r) ==
  /\ request[r] # None
  /\ request[r].step # "signing"
  /\ request' = [request EXCEPT ![r] = None]
  /\ UNCHANGED <<up, oauth, exchanged, mine, order, agent>>

\* After TOKEN_TTL_SECONDS.
AccessLapses ==
  /\ mine.access
  /\ mine' = [mine EXCEPT !.access = FALSE]
  /\ UNCHANGED <<up, oauth, request, exchanged, order, agent>>

-----------------------------------------------------------------------------
\* Tools.

OrderMoves ==
  /\ \E st \in Statuses \ {order.status} :
       /\ order.status \in {"PAID", "NEEDS_REVIEW"} => st \in {"PAID", "NEEDS_REVIEW"}
       /\ order' = [status |-> st, wasPaid |-> order.wasPaid \/ st = "PAID"]
  /\ UNCHANGED <<up, oauth, request, exchanged, mine, agent>>

Answered(c, step) == call' = [call EXCEPT ![c].step = step]

\* propose_buyer_message, behind requireToken; the agent passes what it likes.
CallTool(c) ==
  /\ up /\ mine.access /\ call[c] = None
  /\ \E st \in Statuses, claims \in BOOLEAN :
       call' = [call EXCEPT ![c] =
         [draft |-> [principal |-> mine.client, status |-> st, claimsPaid |-> claims], step |-> "asked"]]
  /\ UNCHANGED <<up, oauth, request, exchanged, mine, order, proposals, born, outbox>>

\* Mutant: the status the agent passes is not compared.
MatchesSnapshot_AnyStatus(d) == TRUE

MatchesSnapshot(d) == d.status = order.status

\* fetchOrderSnapshot answers, or does not in ten seconds.
FetchSnapshot(c) ==
  /\ up /\ call[c] # None /\ call[c].step = "asked"
  /\ \E step \in {"error"} \cup IF MatchesSnapshot(call[c].draft) THEN {"checked"} ELSE {} :
       Answered(c, step)
  /\ UNCHANGED <<up, oauth, request, exchanged, mine, order, proposals, born, outbox>>

\* validateMessageDraft, lintFalsePaidClaim.
Valid(d) ==
  /\ d.status \in {"AWAITING_PAYMENT", "PAID", "NEEDS_REVIEW"}
  /\ d.claimsPaid => d.status = "PAID"

Stored(d) == \E p \in proposals : p.draft = d

\* deliverOutOfBand.
Appended(id) == outbox' = outbox \cup {id}

\* deliverLinkCode: the outbox can be written, or not.
DeliverLinkCode(c, id) ==
  \/ Appended(id) /\ Answered(c, "notifying")
  \/ UNCHANGED outbox /\ Answered(c, "error")

\* registry.propose and, for a new proposal, deliverLinkCode: one turn. A draft
\* proposed before is found by idempotencyKeyFor unless its minute has passed.
Propose(c) ==
  /\ up /\ call[c] # None /\ call[c].step = "checked"
  /\ LET d == call[c].draft
     IN  \/ /\ ~Valid(d)
            /\ Answered(c, "error") /\ UNCHANGED <<proposals, born, outbox>>
         \/ /\ Valid(d) /\ Stored(d)
            /\ Answered(c, "proposed") /\ UNCHANGED <<proposals, born, outbox>>
         \/ /\ Valid(d) /\ born < MaxProposals
            /\ born' = born + 1
            /\ proposals' = proposals \cup {[id |-> born + 1, draft |-> d]}
            /\ DeliverLinkCode(c, born + 1)
  /\ UNCHANGED <<up, oauth, request, exchanged, mine, order>>

\* notifyPooliDraftReady: whatever comes of it, the tool answers.
Notify(c) ==
  /\ up /\ call[c] # None /\ call[c].step = "notifying"
  /\ Answered(c, "proposed")
  /\ UNCHANGED <<up, oauth, request, exchanged, mine, order, proposals, born, outbox>>

ToolEnds(c) ==
  /\ call[c] # None /\ call[c].step \in {"proposed", "error"}
  /\ call' = [call EXCEPT ![c] = None]
  /\ UNCHANGED <<up, oauth, request, exchanged, mine, order, proposals, born, outbox>>

\* POST /demo/device/clear.
ClearDevice ==
  /\ up /\ outbox # {}
  /\ outbox' = {}
  /\ UNCHANGED <<up, oauth, request, exchanged, mine, order, proposals, born, call>>

-----------------------------------------------------------------------------
\* The process stops: what it held in memory is gone, and every request it was
\* at; an answer that has left may still arrive.
Stop ==
  /\ up
  /\ up' = FALSE
  /\ clients' = {} /\ codes' = [k \in Codes |-> None] /\ refresh' = [t \in Tokens |-> None]
  /\ request' = [r \in Requests |->
       IF request[r] # None /\ request[r].step = "signing" THEN None ELSE request[r]]
  /\ proposals' = {} /\ call' = [c \in ToolCalls |-> None]
  /\ UNCHANGED <<stale, files, exchanged, mine, order, born, outbox>>

\* installOAuth reads the files.
Boot ==
  /\ ~up
  /\ up' = TRUE
  /\ clients' = files.clients /\ refresh' = files.refresh
  /\ UNCHANGED <<codes, stale, files, request, exchanged, mine, order, agent>>

Next ==
  \/ \E c \in Clients : Register(c)
  \/ \E k \in Codes : Authorize(k) \/ CodeLapses(k)
  \/ \E r \in Requests :
       \/ Present(r) \/ Redeem(r) \/ Receive(r) \/ Lose(r)
       \/ \E t \in Tokens : Issue(r, t) \/ WriteFails(r, t)
  \/ AccessLapses \/ OrderMoves \/ ClearDevice \/ Stop \/ Boot
  \/ \E c \in ToolCalls : CallTool(c) \/ FetchSnapshot(c) \/ Propose(c) \/ Notify(c) \/ ToolEnds(c)

Spec == Init /\ [][Next]_vars

-----------------------------------------------------------------------------
\* Type invariant: OAuth state, files, requests and tool calls keep their shapes.
TypeOK ==
  /\ up \in BOOLEAN /\ clients \subseteq Clients /\ stale \subseteq Codes
  /\ codes \in [Codes -> Clients \cup {None}] /\ refresh \in [Tokens -> Clients \cup {None}]
  /\ files \in [clients: SUBSET Clients, refresh: [Tokens -> Clients \cup {None}]]
  /\ request \in [Requests -> Request \cup {None}] /\ exchanged \in [Grants -> Nat]
  /\ mine \in Mine /\ order \in [status: Statuses, wasPaid: BOOLEAN]
  /\ born \in 0..MaxProposals
  /\ proposals \subseteq Proposal /\ outbox \subseteq 1..born
  /\ call \in [ToolCalls -> Call \cup {None}]

\* A code or a refresh token is exchanged for new tokens at most once, although
\* the exchange waits for a signature, is retried, and a restart brings back
\* tokens that were burned in memory only (oauth.mjs: "single-use codes").
ExchangedOnce == \A g \in Grants : exchanged[g] <= 1

\* The integration, once registered, is known after any restart, and a refresh
\* token it has not presented yet still works (oauth.mjs: "a restart inside
\* that hour must not force a human back through the connect flow").
ConnectionSurvives ==
  /\ mine.client # None => mine.client \in files.clients /\ (up => mine.client \in clients)
  /\ mine.token # None /\ ~mine.tried => files.refresh[mine.token] # None

\* A stored draft that says the order is paid is about an order that was paid,
\* although the agent writes both and the order moves (server.ts, validation.ts).
PaidClaimsAreTrue == \A p \in proposals : p.draft.claimsPaid => order.wasPaid
=============================================================================
