------------------------------ MODULE Account -------------------------------
(***************************************************************************)
(* A merchant's account: signing in and registering, one-time codes,       *)
(* onboarding, wallets, and the settings with the Telegram connection, in  *)
(* one tab, with what other devices and Telegram's webhook do meanwhile.   *)
(* The handlers that read before they write do so in two steps. A step of  *)
(* the page is a state update with the render and effects React runs.      *)
(***************************************************************************)
EXTENDS Naturals, FiniteSets

CONSTANTS
  Wallets,      \* receiving addresses, on one network
  Links,        \* Telegram connect links
  Chats,        \* Telegram chats
  Worlds,       \* what happens in a behaviour, see World
  MaxAttempts,  \* guesses at a one-time code
  MaxCodes,     \* bound: one-time codes sent for a purpose
  MaxCalls,     \* bound: calls under way when another starts, and more than are left behind
  None          \* no wallet, link or chat

VARIABLES
  world,
  account,  \* the users row and its merchant
  session,  \* whether the browser is signed in
  code,     \* the latest one-time code of each purpose
  slug,     \* the merchant's
  completed,                  \* onboarding_completed_at is set
  rows, active, default,      \* merchant_wallet_addresses
  priced, asked,              \* wallets orders were ever priced at, and are
  links, updates, chat,       \* connect tokens, telegram_updates, the connection
  joined,                     \* chats each link has connected
  tab, calls                  \* the page, and calls under way

people   == <<account, session, code>>
shop     == <<slug, completed, rows, active, default, priced, asked>>
telegram == <<links, updates, chat, joined>>
server   == <<world, people, shop, telegram>>
vars     == <<server, tab, calls>>

-----------------------------------------------------------------------------
Purposes == {"login", "register"}
Slugs    == {"unnamed", "reserved", "own"}
Flags    == {"page", "tg", "ig", "email"}        \* loading, tgBusy, igBusy, emailBusy

\* What an answer tells: wallets, or something of the merchant.
Fact == ({"active", "default"} \X Wallets)
          \cup ({"completed", "own", "connected", "ig", "igconnected", "email"} \X {None})

Pages == {"login", "register", "onboarding", "wallets", "settings", "notify", "store",
          "questions", "home", "elsewhere"}

Tab == [page: Pages, loaded: BOOLEAN, facts: SUBSET Fact,
        busy: SUBSET Flags,
        phone: BOOLEAN,                       \* phoneEnabled
        mode: {"email", "phone"}, otp: BOOLEAN,   \* phoneStep is otp
        step: 0..1, slug: Slugs,              \* the slug field
        draft: Wallets \cup {None},           \* the wallet to be confirmed
        mark: BOOLEAN,                        \* draft.is_default
        doomed: Wallets \cup {None},          \* archiveId
        waiting: BOOLEAN]                     \* awaitingTgConnect

Reads  == {"providers", "onboarding", "wallets", "me", "ig", "prefs", "defaults", "check"}
Makers == {"register", "google", "otpreg"}
Ops    == Reads \cup Makers \cup
          {"login", "logout", "send", "verify", "suggest", "merchant", "wallet", "setDefault",
           "archive", "complete", "link", "disconnect", "igcode", "igdrop", "save", "logo", "start"}

Call == [op: Ops, of: Wallets \cup Links \cup {None}, by: Chats \cup {None},
         arg: Purposes \cup Slugs \cup {"none", "next", "default", "focus", "archived", "on", "off"},
         guess: 0..MaxCodes, no: 0..MaxCodes,    \* code entered, 0 a wrong one, and code read
         own: Flags \cup {"none"},                   \* the flag its action resets
         live: BOOLEAN,                          \* the page that made it is shown
         stage: {"sent", "read", "checked", "made", "answered", "refused"},
         answer: SUBSET Fact]

\* The account at the start and the slug it has or will be given, whether
\* codes can be sent, the forms and pages that are used, what other tabs and
\* devices ask for, the default wallet there is, those pages add and archive,
\* and those orders are priced at.
World == [state: {"none", "merchant"}, slug: Slugs \ {"unnamed"}, phone: BOOLEAN,
          forms: SUBSET {"email", "phone"}, pages: SUBSET Pages, others: SUBSET (Ops \ {"start"}),
          has: Wallets \cup {None}, adds: SUBSET Wallets, drops: SUBSET Wallets, sells: SUBSET Wallets]

ASSUME ConstantsAssumption ==
  /\ Worlds \subseteq World
  /\ MaxAttempts \in Nat \ {0} /\ MaxCodes \in Nat \ {0} /\ MaxCalls \in Nat \ {0}
  /\ None \notin Wallets \cup Links \cup Chats

NewCall(op, of, arg, own) ==
  [op |-> op, of |-> of, by |-> None, arg |-> arg, guess |-> 0, no |-> 0, own |-> own,
   live |-> TRUE, stage |-> "sent", answer |-> {}]
Plain(op) == NewCall(op, None, "none", "none")

Goes(c, next) == (calls \ {c}) \cup next
Room == Cardinality(calls) < MaxCalls

NewTab(p) ==
  [page |-> p, loaded |-> FALSE, facts |-> {}, busy |-> {}, phone |-> FALSE,
   mode |-> "email", otp |-> FALSE, step |-> 0, slug |-> "unnamed", draft |-> None,
   mark |-> FALSE, doomed |-> None, waiting |-> FALSE]

\* The effects of a page's first render.
FirstCalls(p) ==
  {Plain(op) : op \in
     CASE p \in {"login", "register"} -> {"providers"}
       [] p \in {"onboarding", "wallets"} -> {p}
       [] p \in {"settings", "store"} -> {"me"}
       [] p = "notify" -> {"me", "ig", "prefs"}
       [] p = "questions" -> {"defaults"}
       [] OTHER -> {}}

NoCode == [no |-> 0, tries |-> 0, dead |-> FALSE]

Init ==
  /\ world \in Worlds
  /\ account = [state |-> world.state, by |-> IF world.phone THEN "phone" ELSE "email"]
  /\ session = (world.state = "merchant" /\ ~world.phone)
  /\ code = [p \in Purposes |-> NoCode]
  /\ slug = world.slug /\ completed = FALSE
  /\ rows = {world.has} \ {None} /\ active = rows /\ default = rows /\ priced = {} /\ asked = {}
  /\ links = [l \in Links |-> "none"] /\ updates = {} /\ chat = None
  /\ joined = [l \in Links |-> {}]
  /\ tab = NewTab("home") /\ calls = {}

-----------------------------------------------------------------------------
\* The server: people.

Signed == session /\ account.state = "merchant"

\* The handler of c is done, or answers with an error.
Answered(c, facts) ==
  calls' = Goes(c, IF c.live THEN {[c EXCEPT !.stage = "answered", !.answer = facts]} ELSE {})
Refused(c) ==
  calls' = Goes(c, IF c.live THEN {[c EXCEPT !.stage = "refused"]} ELSE {})
At(c, stage) == calls' = Goes(c, {[c EXCEPT !.stage = stage]})

\* handleOTPSend, Service.Send: a code of its own each time. The wait between
\* two codes and the hourly limit only refuse.
AnswerSend(c) ==
  /\ c.op = "send" /\ c.stage = "sent" /\ world.phone
  /\ (c.arg = "login") = (account.state # "none" /\ account.by = "phone")
  /\ code[c.arg].no < MaxCodes
  /\ code' = [code EXCEPT ![c.arg] = [NoCode EXCEPT !.no = code[c.arg].no + 1]]
  /\ Answered(c, {})
  /\ UNCHANGED <<world, account, session, shop, telegram>>

\* The time to enter a code runs out.
CodeExpires(p) ==
  /\ code[p].no > 0 /\ ~code[p].dead
  /\ code' = [code EXCEPT ![p].dead = TRUE]
  /\ UNCHANGED <<world, account, session, shop, telegram, tab, calls>>

Purpose(c) == IF c.op = "otpreg" THEN "register" ELSE c.arg

\* Mutant: attempts are counted and never compared.
ReadCode_Patient(c) ==
  /\ c.op \in {"verify", "otpreg"} /\ c.stage = "sent"
  /\ LET latest == code[Purpose(c)]
     IN  /\ latest.no > 0 /\ ~latest.dead
         /\ calls' = Goes(c, {[c EXCEPT !.stage = "read", !.no = latest.no]})
  /\ UNCHANGED server

\* Service.Verify reads the latest code, whether it was used and how often
\* it was tried,
ReadCode(c) ==
  /\ c.op \in {"verify", "otpreg"} /\ c.stage = "sent"
  /\ LET latest == code[Purpose(c)]
     IN  /\ latest.no > 0 /\ ~latest.dead /\ latest.tries < MaxAttempts
         /\ calls' = Goes(c, {[c EXCEPT !.stage = "read", !.no = latest.no]})
  /\ UNCHANGED server

\* and then counts the try or uses the code, whatever others wrote meanwhile;
\* a code that is no longer the latest is not read again. To log in is to get
\* a session.
WriteCode(c) ==
  /\ c.op \in {"verify", "otpreg"} /\ c.stage = "read"
  /\ LET p == Purpose(c)
         right == c.guess = c.no
     IN  /\ code' = IF code[p].no # c.no THEN code
                    ELSE IF right THEN [code EXCEPT ![p].dead = TRUE]
                    ELSE [code EXCEPT ![p].tries = @ + 1]
         /\ IF ~right THEN Refused(c) /\ UNCHANGED session
            ELSE IF c.op = "otpreg" THEN At(c, "checked") /\ UNCHANGED session
            ELSE /\ IF p = "login" /\ account.by # "phone" THEN Refused(c) ELSE Answered(c, {})
                 /\ session' = (session \/ (p = "login" /\ account.by = "phone"))
  /\ UNCHANGED <<world, account, shop, telegram>>

\* Service.Login, and Google for someone known: another tab's session counts
\* as much, for the cookie is shared.
AnswerLogin(c) ==
  /\ c.op \in {"login", "google"} /\ c.stage = "sent"
  /\ account.state # "none" /\ account.by = "email"
  /\ session' = TRUE /\ Answered(c, {})
  /\ UNCHANGED <<world, account, code, shop, telegram>>

\* Register, RegisterWithPhone, LoginOrRegisterWithGoogle: a user first,
MakeUser(c) ==
  /\ c.op \in Makers /\ c.stage = IF c.op = "otpreg" THEN "checked" ELSE "sent"
  /\ account.state = "none"
  /\ account' = [state |-> "user", by |-> IF c.op = "otpreg" THEN "phone" ELSE "email"]
  /\ At(c, "made")
  /\ UNCHANGED <<world, session, code, shop, telegram>>

\* and then a merchant, whose slug may be a reserved one, with its owner, and a
\* session, which may fail. A merchant whose owner was not written is nobody's.
MakeMerchant(c) ==
  /\ c.op \in Makers /\ c.stage = "made" /\ account.state = "user"
  /\ account' = [account EXCEPT !.state = "merchant"]
  /\ \/ session' = TRUE /\ Answered(c, {})
     \/ session' = session /\ Refused(c)
  /\ UNCHANGED <<world, code, shop, telegram>>

\* handleLogout.
AnswerLogout(c) ==
  /\ c.op = "logout" /\ c.stage = "sent"
  /\ session' = FALSE /\ Answered(c, {})
  /\ UNCHANGED <<world, account, code, shop, telegram>>

-----------------------------------------------------------------------------
\* The server: the shop.

WalletFacts == ({"active"} \X active) \cup ({"default"} \X default)

\* The handlers that only read, and those that write what no property is about.
AnswerRead(c) ==
  /\ c.op \in Reads \cup {"suggest", "igcode", "igdrop", "save", "logo"} /\ c.stage = "sent"
  /\ c.op = "providers" \/ Signed
  /\ \E shown \in SUBSET {"ig", "igconnected", "email"} :
       Answered(c,
         CASE c.op = "onboarding" -> WalletFacts
                                       \cup (IF completed THEN {<<"completed", None>>} ELSE {})
                                       \cup (IF slug = "own" THEN {<<"own", None>>} ELSE {})
           [] c.op = "wallets"    -> WalletFacts
           [] c.op = "me"         -> IF chat # None THEN {<<"connected", None>>} ELSE {}
           [] c.op = "ig"         -> (shown \cap {"ig", "igconnected"}) \X {None}
           [] c.op = "prefs"      -> (shown \cap {"email"}) \X {None}
           [] OTHER               -> {})
  /\ UNCHANGED server

\* Mutant: reserved slugs are only told when they are checked.
AnswerMerchant_AnySlug(c) ==
  /\ c.op = "merchant" /\ c.stage = "sent" /\ Signed /\ c.arg # "unnamed"
  /\ slug' = c.arg /\ Answered(c, {})
  /\ UNCHANGED <<world, people, completed, rows, active, default, priced, asked, telegram>>

\* Mutant: a slug is stored as it comes, an empty one too.
AnswerMerchant_Raw(c) ==
  /\ c.op = "merchant" /\ c.stage = "sent" /\ Signed /\ c.arg # "reserved"
  /\ slug' = c.arg /\ Answered(c, {})
  /\ UNCHANGED <<world, people, completed, rows, active, default, priced, asked, telegram>>

\* handlePatchMerchant, with a slug.
AnswerMerchant(c) ==
  /\ c.op = "merchant" /\ c.stage = "sent" /\ Signed /\ c.arg = "own"
  /\ slug' = "own" /\ Answered(c, {})
  /\ UNCHANGED <<world, people, completed, rows, active, default, priced, asked, telegram>>

\* handleCompleteOnboarding loads what there is,
ReadComplete(c) ==
  /\ c.op = "complete" /\ c.stage = "sent" /\ Signed
  /\ slug = "own" /\ active # {}
  /\ At(c, "read")
  /\ UNCHANGED server

\* and completes.
WriteComplete(c) ==
  /\ c.op = "complete" /\ c.stage = "read"
  /\ completed' = TRUE /\ Answered(c, {})
  /\ UNCHANGED <<world, people, slug, rows, active, default, priced, asked, telegram>>

\* handleCreateWallet and handlePatchWallet take the default away first; to switch
\* a wallet off, the latter looks for intents before,
TakeDefault(c) ==
  /\ c.op \in {"wallet", "setDefault"} /\ c.stage = "sent" /\ Signed
  /\ c.op = "setDefault" => c.of \in rows
  /\ c.arg = "off" => c.of \notin asked
  /\ default' = IF c.arg = "default" THEN {} ELSE default
  /\ At(c, "read")
  /\ UNCHANGED <<world, people, slug, completed, rows, active, priced, asked, telegram>>

\* and then add the row, unless there is one, archived or not, or patch it. What
\* is switched off stays the default.
WriteWallet(c) ==
  /\ c.op \in {"wallet", "setDefault"} /\ c.stage = "read"
  /\ IF c.op = "wallet" /\ c.of \in rows
     THEN Refused(c) /\ UNCHANGED <<rows, active, default>>
     ELSE /\ rows' = rows \cup {c.of}
          /\ active' = IF c.arg = "off" THEN active \ {c.of}
                       ELSE IF c.op = "wallet" \/ c.arg = "on" THEN active \cup {c.of} ELSE active
          /\ default' = IF c.arg = "default" THEN default \cup {c.of} ELSE default
          /\ Answered(c, {})
  /\ UNCHANGED <<world, people, slug, completed, priced, asked, telegram>>

\* handleDeleteWallet looks for intents,
ReadArchive(c) ==
  /\ c.op = "archive" /\ c.stage = "sent" /\ Signed
  /\ c.of \in rows \ asked
  /\ At(c, "read")
  /\ UNCHANGED server

\* Mutant: the row is deleted.
WriteArchive_Hard(c) ==
  /\ c.op = "archive" /\ c.stage = "read"
  /\ rows' = rows \ {c.of} /\ active' = active \ {c.of} /\ default' = default \ {c.of}
  /\ Answered(c, {})
  /\ UNCHANGED <<world, people, slug, completed, priced, asked, telegram>>

\* and archives.
WriteArchive(c) ==
  /\ c.op = "archive" /\ c.stage = "read"
  /\ active' = active \ {c.of} /\ default' = default \ {c.of}
  /\ Answered(c, {})
  /\ UNCHANGED <<world, people, slug, completed, rows, priced, asked, telegram>>

\* createOrder: the default wallet first.
Sell(w) ==
  /\ w \in world.sells \cap active
  /\ w \in default \/ default \cap active = {}
  /\ priced' = priced \cup {w} /\ asked' = asked \cup {w}
  /\ UNCHANGED <<world, people, slug, completed, rows, active, default, telegram, tab, calls>>

\* The last intent of the wallet ends.
Settle(w) ==
  /\ w \in asked /\ asked' = asked \ {w}
  /\ UNCHANGED <<world, people, slug, completed, rows, active, default, priced, telegram, tab, calls>>

-----------------------------------------------------------------------------
\* The server: Telegram.

\* handleTelegramConnectLink.
AnswerLink(c) ==
  /\ c.op = "link" /\ c.stage = "sent" /\ Signed
  /\ \E l \in Links :
       /\ links[l] = "none"
       /\ links' = [links EXCEPT ![l] = "sent"]
  /\ Answered(c, {})
  /\ UNCHANGED <<world, people, shop, updates, chat, joined>>

\* handleTelegramDisconnect.
AnswerDisconnect(c) ==
  /\ c.op = "disconnect" /\ c.stage = "sent" /\ Signed
  /\ chat' = None /\ Answered(c, {})
  /\ UNCHANGED <<world, people, shop, links, updates, joined>>

LinkExpires(l) ==
  /\ links[l] = "sent" /\ links' = [links EXCEPT ![l] = "dead"]
  /\ UNCHANGED <<world, people, shop, updates, chat, joined, tab, calls>>

\* Someone presses Start on the link's chat.
PressStart(l, ch) ==
  /\ links[l] # "none" /\ <<l, ch>> \notin updates
  /\ calls' = calls \cup {[NewCall("start", l, "none", "none") EXCEPT !.by = ch, !.live = FALSE]}
  /\ UNCHANGED <<server, tab>>

\* handleTelegramWebhook records the update and reads the token; an update
\* it has recorded, and a token that was used, end there.
ReadStart(c) ==
  /\ c.op = "start" /\ c.stage = "sent"
  /\ updates' = updates \cup {<<c.of, c.by>>}
  /\ IF <<c.of, c.by>> \in updates \/ links[c.of] # "sent" THEN Answered(c, {}) ELSE At(c, "read")
  /\ UNCHANGED <<world, people, shop, links, chat, joined>>

\* Mutant: the token was found unused a moment ago.
Connect_Unguarded(c) ==
  /\ c.op = "start" /\ c.stage = "read"
  /\ links' = [links EXCEPT ![c.of] = "dead"] /\ chat' = c.by
  /\ joined' = [joined EXCEPT ![c.of] = @ \cup {c.by}]
  /\ Answered(c, {})
  /\ UNCHANGED <<world, people, shop, updates>>

\* In one transaction it uses the token up, if it still can, and connects.
Connect(c) ==
  /\ c.op = "start" /\ c.stage = "read"
  /\ IF links[c.of] = "sent"
     THEN /\ links' = [links EXCEPT ![c.of] = "dead"] /\ chat' = c.by
          /\ joined' = [joined EXCEPT ![c.of] = @ \cup {c.by}]
     ELSE UNCHANGED <<links, chat, joined>>
  /\ Answered(c, {})
  /\ UNCHANGED <<world, people, shop, updates>>

\* The server stops in between, and Telegram delivers the update again.
Redeliver(c) ==
  /\ c.op = "start" /\ c.stage = "read"
  /\ At(c, "sent") /\ UNCHANGED <<server, tab>>

Answer(c) ==
  /\ \/ AnswerSend(c) \/ ReadCode(c) \/ WriteCode(c)
     \/ AnswerLogin(c) \/ MakeUser(c) \/ MakeMerchant(c) \/ AnswerLogout(c)
     \/ AnswerRead(c) \/ AnswerMerchant(c) \/ ReadComplete(c) \/ WriteComplete(c)
     \/ TakeDefault(c) \/ WriteWallet(c) \/ ReadArchive(c) \/ WriteArchive(c)
     \/ AnswerLink(c) \/ AnswerDisconnect(c) \/ ReadStart(c) \/ Connect(c)
  /\ UNCHANGED tab

-----------------------------------------------------------------------------
\* What an answer does to the page.

\* Navigation: reads of the page that is left are ignored, the rest goes on.
Ignored(c) == [c EXCEPT !.live = FALSE, !.own = "none"]
Left(cs) == {Ignored(c) : c \in {d \in cs : d.op \notin Reads /\ d.stage \notin {"answered", "refused"}}}
Go(p, c) == tab' = NewTab(p) /\ calls' = Left(calls \ {c}) \cup FirstCalls(p)

Free(c) == tab.busy \ {c.own}

Still(c, update) == tab' = update /\ calls' = calls \ {c}

\* The providers show whether codes are sent.
LoginProviders(c)    == tab.page = "login" /\ c.op = "providers" /\ Still(c, [tab EXCEPT !.phone = world.phone])
RegisterProviders(c) == tab.page = "register" /\ c.op = "providers" /\ Still(c, [tab EXCEPT !.phone = world.phone])

\* sendOtp and sendPhoneOtp ask for the code.
LoginCodeSent(c)    == tab.page = "login" /\ c.op = "send" /\ Still(c, [tab EXCEPT !.otp = TRUE, !.busy = Free(c)])
RegisterCodeSent(c) == tab.page = "register" /\ c.op = "send" /\ Still(c, [tab EXCEPT !.otp = TRUE, !.busy = Free(c)])

\* onEmailSubmit and verifyOtp of LoginPage, onEmailSubmit of RegisterPage.
LoggedIn(c)     == c.op = "login" /\ Go("home", c)
CodeLogsIn(c)   == c.op = "verify" /\ c.arg = "login" /\ Go("home", c)
Registered(c)   == c.op = "register" /\ Go("onboarding", c)

\* verifyPhoneRegister has a second call, which gives the server the code
\* that the first one used.
CodeRegisters(c) ==
  \/ /\ c.op = "verify" /\ c.arg = "register"
     /\ calls' = Goes(c, {[NewCall("otpreg", None, "none", c.own) EXCEPT !.guess = c.guess]})
     /\ UNCHANGED tab
  \/ c.op = "otpreg" /\ Go("onboarding", c)

LoggedOut(c) == c.op = "logout" /\ Go("login", c)

DeliverPeople(c) ==
  \/ LoginProviders(c) \/ RegisterProviders(c) \/ LoginCodeSent(c) \/ RegisterCodeSent(c)
  \/ LoggedIn(c) \/ CodeLogsIn(c) \/ Registered(c) \/ CodeRegisters(c) \/ LoggedOut(c)

\* OnboardingPage: load, and the rest of onNext or addWallet after it.
OnboardingLoads(c) ==
  /\ c.op = "onboarding"
  /\ IF <<"completed", None>> \in c.answer THEN Go("home", c)
     ELSE Still(c, [tab EXCEPT !.loaded = TRUE, !.facts = c.answer, !.busy = Free(c),
                               !.slug = IF <<"own", None>> \in c.answer THEN "own" ELSE "reserved",
                               !.step = IF c.arg = "next" THEN 1 ELSE @])

\* load has set the data by when it stumbles over it.
StumbleOnboarding(c) ==
  c.op = "onboarding" /\ Still(c, [tab EXCEPT !.loaded = TRUE, !.facts = {}, !.busy = Free(c)])

\* checkSlug takes what it is told, suggestSlug too; onNext goes on to save
\* the slug it was called with.
SlugChecked(c) == c.op = "check" /\ \E s \in {"own", tab.slug} : Still(c, [tab EXCEPT !.slug = s])

SlugSuggested(c) ==
  /\ c.op = "suggest"
  /\ tab' = [tab EXCEPT !.slug = "own"]
  /\ calls' = Goes(c, IF c.own = "none" THEN {} ELSE {NewCall("merchant", None, "unnamed", c.own)})

\* saveBusiness, and onNext loads; it ends at the first order.
BusinessSaved(c) ==
  c.op = "merchant" /\ calls' = Goes(c, {NewCall("onboarding", None, "next", c.own)}) /\ UNCHANGED tab

SetUpDone(c) == c.op = "complete" /\ Go("elsewhere", c)

\* addWallet of OnboardingPage.
WalletAdded(c) ==
  /\ tab.page = "onboarding" /\ c.op = "wallet"
  /\ calls' = Goes(c, {NewCall("onboarding", None, "none", c.own)}) /\ UNCHANGED tab

DeliverSetUp(c) ==
  \/ OnboardingLoads(c) \/ StumbleOnboarding(c) \/ SlugChecked(c) \/ SlugSuggested(c)
  \/ BusinessSaved(c) \/ SetUpDone(c) \/ WalletAdded(c)

\* WalletsPage: every change loads the wallets again.
WalletsLoad(c) ==
  c.op = "wallets" /\ Still(c, [tab EXCEPT !.loaded = TRUE, !.facts = c.answer, !.busy = Free(c),
                                           !.doomed = IF c.arg = "archived" THEN None ELSE @])

Again(c) == calls' = Goes(c, {NewCall("wallets", None, "none", c.own)})

\* confirmSave, setDefault and archive, which keeps its dialog.
WalletSaved(c) ==
  /\ tab.page = "wallets" /\ c.op = "wallet"
  /\ tab' = [tab EXCEPT !.draft = None, !.mark = FALSE] /\ Again(c)
DefaultSet(c)  == c.op = "setDefault" /\ UNCHANGED tab /\ Again(c)
Archived(c) ==
  /\ c.op = "archive" /\ UNCHANGED tab
  /\ calls' = Goes(c, {NewCall("wallets", None, "archived", c.own)})

DeliverWallets(c) == WalletsLoad(c) \/ WalletSaved(c) \/ DefaultSet(c) \/ Archived(c)

\* What an answer tells of one thing replaces what was told before.
Learned(about, c) == {f \in tab.facts : f[1] # about} \cup c.answer

\* The notifications page: /me as it is opened and when the browser comes
\* back from Telegram, Instagram's status, the email preferences.
MeArrives(c) ==
  c.op = "me" /\ tab.page = "notify" /\ c.arg = "none"
    /\ Still(c, [tab EXCEPT !.loaded = TRUE, !.facts = Learned("connected", c)])
FocusArrives(c) ==
  c.op = "me" /\ c.arg = "focus"
    /\ Still(c, [tab EXCEPT !.loaded = TRUE, !.facts = Learned("connected", c), !.waiting = @ /\ c.answer = {}])
IgArrives(c)   == c.op = "ig" /\ Still(c, [tab EXCEPT !.loaded = TRUE, !.facts = {f \in tab.facts : f[1] \notin {"ig", "igconnected"}} \cup c.answer])
PrefsArrive(c) == c.op = "prefs" /\ Still(c, [tab EXCEPT !.loaded = TRUE, !.facts = Learned("email", c)])

\* connectTelegram expects a link, and then that the merchant comes back.
LinkMade(c) ==
  c.op = "link" /\ \E read \in BOOLEAN : Still(c, [tab EXCEPT !.busy = Free(c), !.waiting = read])

Disconnected(c) ==
  c.op = "disconnect"
    /\ Still(c, [tab EXCEPT !.busy = Free(c), !.waiting = FALSE, !.facts = {f \in @ : f[1] # "connected"}])

\* requestIgCode and disconnectInstagram.
IgCodeArrives(c) == c.op = "igcode" /\ Still(c, [tab EXCEPT !.busy = Free(c)])
IgDropped(c) ==
  c.op = "igdrop" /\ Still(c, [tab EXCEPT !.busy = Free(c), !.facts = {f \in @ : f # <<"igconnected", None>>}])

\* sendTelegramTest and patchEmailPref.
TestSent(c)   == tab.page = "notify" /\ c.op = "save" /\ c.own = "tg" /\ Still(c, [tab EXCEPT !.busy = Free(c)])
EmailSaved(c) == tab.page = "notify" /\ c.op = "save" /\ c.own = "email" /\ Still(c, [tab EXCEPT !.busy = Free(c)])

DeliverNotify(c) ==
  \/ MeArrives(c) \/ FocusArrives(c) \/ IgArrives(c) \/ PrefsArrive(c) \/ LinkMade(c)
  \/ Disconnected(c) \/ IgCodeArrives(c) \/ IgDropped(c) \/ TestSent(c) \/ EmailSaved(c)

\* The settings, the store's and the buyers' questions.
SettingsKnow(c)     == tab.page = "settings" /\ c.op = "me" /\ Still(c, [tab EXCEPT !.loaded = TRUE])
StoreArrives(c)     == tab.page = "store" /\ c.op = "me" /\ Still(c, [tab EXCEPT !.loaded = TRUE])
StoreSaved(c)       == tab.page = "store" /\ c.op = "save" /\ Still(c, [tab EXCEPT !.busy = Free(c)])
LogoUploaded(c)     == c.op = "logo" /\ Still(c, [tab EXCEPT !.busy = Free(c)])
QuestionsArrive(c)  == c.op = "defaults" /\ Still(c, [tab EXCEPT !.loaded = TRUE])
QuestionsSaved(c)   == tab.page = "questions" /\ c.op = "save" /\ Still(c, [tab EXCEPT !.busy = Free(c)])

DeliverSettings(c) ==
  \/ SettingsKnow(c) \/ StoreArrives(c) \/ StoreSaved(c) \/ LogoUploaded(c)
  \/ QuestionsArrive(c) \/ QuestionsSaved(c)

\* Without the list it expects, WalletsPage and BuyerQuestionsPage do not
\* render at all.
Crash(c) ==
  /\ c.op \in {"wallets", "defaults"} \/ (c.op = "save" /\ tab.page = "questions")
  /\ Go("elsewhere", c)

\* api() hands on {} for a body it cannot read.
Deliver(c) ==
  /\ c.live /\ c.stage = "answered"
  /\ \/ DeliverPeople(c) \/ DeliverSetUp(c) \/ DeliverWallets(c)
     \/ DeliverNotify(c) \/ DeliverSettings(c) \/ Crash(c)
  /\ UNCHANGED server

\* Mutant: what comes after the answer resets the flag.
Recovered_Busy(c) == [tab EXCEPT !.waiting = @ /\ c.op # "link"]

\* The catch and finally of whoever waits for c; archive closes its dialog.
Recovered(c) ==
  [tab EXCEPT !.busy = Free(c),
              !.doomed = IF c.op = "archive" \/ c.arg = "archived" THEN None ELSE @,
              !.waiting = @ /\ c.op # "link"]

\* The call is refused, lost, or takes too long. What comes after it is not
\* done; the server may get it all the same.
Fail(c) ==
  /\ c.live
  /\ tab' = Recovered(c)
  /\ \E late \in SUBSET Left({c}) : calls' = Goes(c, late)
  /\ UNCHANGED server

\* A request nobody waits for is refused, or its server stops.
Lose(c) ==
  /\ ~c.live
  /\ calls' = calls \ {c}
  /\ UNCHANGED <<server, tab>>

-----------------------------------------------------------------------------
\* What the page offers, and what a click does.

Clicks(update, call) ==
  /\ Room
  /\ tab' = update /\ calls' = calls \cup {call}
  /\ UNCHANGED server

\* What makes the page busy in one of its parts, while it is not.
Acts(flag, call) ==
  /\ flag \notin tab.busy
  /\ Clicks([tab EXCEPT !.busy = @ \cup {flag}], [call EXCEPT !.own = flag])

\* The two ways to sign in, once the providers are known.
SwitchMode ==
  /\ tab.page \in {"login", "register"} /\ tab.phone
  /\ \E m \in {"email", "phone"} : tab' = [tab EXCEPT !.mode = m, !.otp = FALSE]
  /\ UNCHANGED <<server, calls>>

\* onEmailSubmit of both pages.
SubmitLogin    == tab.page = "login" /\ tab.mode = "email" /\ "email" \in world.forms /\ Acts("page", Plain("login"))
SubmitRegister == tab.page = "register" /\ tab.mode = "email" /\ "email" \in world.forms /\ Acts("page", Plain("register"))

\* GoogleAuthButton leaves for Google, which sends the browser back.
WithGoogle ==
  /\ tab.page \in {"login", "register"} /\ "email" \in world.forms /\ Cardinality(Left(calls)) < MaxCalls
  /\ tab' = NewTab("home")
  /\ calls' = Left(calls) \cup {[Plain("google") EXCEPT !.live = FALSE]}
  /\ UNCHANGED server

\* The forms that ask for a code, first or again, with a phone's number or
\* all of a new merchant's details.
AskCode(page) == tab.page = page /\ tab.mode = "phone" /\ Acts("page", NewCall("send", None, page, "none"))
AskLoginCode    == AskCode("login")
AskRegisterCode == AskCode("register")

\* The forms for the code: the latest one, or a wrong one.
EnterCode(page) ==
  /\ tab.page = page /\ tab.mode = "phone" /\ tab.otp
  /\ \E g \in {0, code[page].no} :
       Acts("page", [NewCall("verify", None, page, "none") EXCEPT !.guess = g])
EnterLoginCode    == EnterCode("login")
EnterRegisterCode == EnterCode("register")

\* The slug field, and what leaving the fields starts.
EditSlug ==
  /\ tab.page = "onboarding" /\ tab.loaded /\ tab.step = 0
  /\ \E s \in Slugs :
       Clicks([tab EXCEPT !.slug = s], Plain(IF s = "unnamed" THEN "suggest" ELSE "check"))

HasWallet == \E f \in tab.facts : f[1] = "active"

\* onNext.
NextStep ==
  /\ tab.page = "onboarding" /\ tab.loaded
  /\ Acts("page", IF tab.step = 0
                  THEN IF tab.slug = "unnamed" THEN Plain("suggest") ELSE NewCall("merchant", None, tab.slug, "none")
                  ELSE Plain("complete"))
  /\ tab.step = 1 => HasWallet

StepBack ==
  /\ tab.page = "onboarding" /\ tab.step = 1 /\ tab.busy = {}
  /\ tab' = [tab EXCEPT !.step = 0]
  /\ UNCHANGED <<server, calls>>

\* addWallet of the onboarding's second step.
AddWallet(w) ==
  /\ tab.page = "onboarding" /\ tab.loaded /\ tab.step = 1 /\ ~HasWallet /\ w \in world.adds
  /\ Acts("page", NewCall("wallet", w, "default", "none"))

\* onFormSubmit: the first active wallet it knows of is the default one.
Consider(w) ==
  /\ tab.page = "wallets" /\ tab.draft = None /\ tab.doomed = None /\ w \in world.adds
  /\ \E m \in IF HasWallet THEN BOOLEAN ELSE {TRUE} : tab' = [tab EXCEPT !.draft = w, !.mark = m]
  /\ UNCHANGED <<server, calls>>

\* Back.
Reconsider ==
  /\ tab.page = "wallets" /\ tab.draft # None /\ tab.doomed = None /\ tab.busy = {}
  /\ tab' = [tab EXCEPT !.draft = None, !.mark = FALSE]
  /\ UNCHANGED <<server, calls>>

\* confirmSave.
ConfirmSave ==
  /\ tab.page = "wallets" /\ tab.draft # None /\ tab.doomed = None
  /\ Acts("page", NewCall("wallet", tab.draft, IF tab.mark THEN "default" ELSE "none", "none"))

\* setDefault, of a wallet that is shown active and not the default.
SetDefault(w) ==
  /\ tab.page = "wallets" /\ tab.doomed = None
  /\ <<"active", w>> \in tab.facts /\ <<"default", w>> \notin tab.facts
  /\ Acts("page", NewCall("setDefault", w, "default", "none"))

\* setArchiveId, of a wallet that is shown active, opens a dialog over the
\* page; its cancel.
AskArchive(w) ==
  /\ tab.page = "wallets" /\ <<"active", w>> \in tab.facts /\ w \in world.drops
  /\ tab.busy = {} /\ tab.doomed = None
  /\ tab' = [tab EXCEPT !.doomed = w]
  /\ UNCHANGED <<server, calls>>

CancelArchive ==
  /\ tab.doomed # None /\ tab' = [tab EXCEPT !.doomed = None]
  /\ UNCHANGED <<server, calls>>

\* The dialog's confirmation, which nothing disables.
Archive ==
  /\ tab.doomed # None
  /\ Clicks([tab EXCEPT !.busy = @ \cup {"page"}],
            [NewCall("archive", tab.doomed, "none", "none") EXCEPT !.own = "page"])

Logout == tab.page = "settings" /\ Clicks(tab, Plain("logout"))

Connected == <<"connected", None>> \in tab.facts

\* The notifications page: Telegram, Instagram, email.
ConnectTelegram    == tab.page = "notify" /\ ~Connected /\ Acts("tg", Plain("link"))
DisconnectTelegram == tab.page = "notify" /\ Connected /\ Acts("tg", Plain("disconnect"))
TestTelegram       == tab.page = "notify" /\ Connected /\ Acts("tg", Plain("save"))
GetIgCode          == /\ tab.page = "notify" /\ <<"ig", None>> \in tab.facts
                      /\ <<"igconnected", None>> \notin tab.facts /\ Acts("ig", Plain("igcode"))
DropInstagram      == /\ tab.page = "notify" /\ {<<"ig", None>>, <<"igconnected", None>>} \subseteq tab.facts
                      /\ Acts("ig", Plain("igdrop"))
PatchEmail         == tab.page = "notify" /\ <<"email", None>> \in tab.facts /\ Acts("email", Plain("save"))

\* onFocus.
Focus == tab.page = "notify" /\ tab.waiting /\ Clicks(tab, NewCall("me", None, "focus", "none"))

\* saveStore and uploadLogo, and the buyers' questions once they are loaded.
SaveStore     == tab.page = "store" /\ \E op \in {"save", "logo"} : Acts("page", Plain(op))
SaveQuestions == tab.page = "questions" /\ tab.loaded /\ Acts("page", Plain("save"))

\* Another page, or the same again.
Open(p) ==
  /\ Cardinality(Left(calls)) < MaxCalls
  /\ tab' = NewTab(p)
  /\ calls' = Left(calls) \cup FirstCalls(p)
  /\ UNCHANGED server

\* Another tab or device asks the same of the server, or to switch a wallet on or
\* off, for which the pages have no control.
OthersAsk(op) ==
  /\ Room
  /\ \E w \in IF op \in {"wallet", "setDefault", "archive"} THEN Wallets ELSE {None},
        arg \in CASE op \in {"send", "verify"} -> {"login"}
                  [] op = "setDefault" -> {"default", "on", "off"} [] OTHER -> {"none"} :
       calls' = calls \cup {[NewCall(op, w, arg, "none") EXCEPT !.live = FALSE]}
  /\ UNCHANGED <<server, tab>>

-----------------------------------------------------------------------------
Next ==
  \/ \E c \in calls : Answer(c) \/ Deliver(c) \/ Fail(c) \/ Lose(c) \/ Redeliver(c)
  \/ \E p \in Purposes : CodeExpires(p)
  \/ \E w \in Wallets :
       Sell(w) \/ Settle(w) \/ AddWallet(w) \/ Consider(w) \/ SetDefault(w) \/ AskArchive(w)
  \/ \E l \in Links : LinkExpires(l) \/ \E ch \in Chats : PressStart(l, ch)
  \/ SwitchMode \/ SubmitLogin \/ SubmitRegister \/ WithGoogle
  \/ AskLoginCode \/ AskRegisterCode \/ EnterLoginCode \/ EnterRegisterCode
  \/ EditSlug \/ NextStep \/ StepBack \/ Reconsider \/ ConfirmSave \/ CancelArchive \/ Archive
  \/ Logout \/ ConnectTelegram \/ DisconnectTelegram \/ TestTelegram \/ GetIgCode \/ DropInstagram \/ PatchEmail
  \/ Focus \/ SaveStore \/ SaveQuestions
  \/ \E p \in world.pages : Open(p)
  \/ \E op \in world.others : OthersAsk(op)

Spec == Init /\ [][Next]_vars

\* apiMultipart, which uploads the logo, waits for as long as it takes.
Uploads == \E c \in calls : c.op = "logo" /\ c.live

OwnCallEnds(flag, ops) ==
  \E c \in calls : c.own = flag /\ c.live /\ c.op \in ops /\ (Deliver(c) \/ Fail(c))

\* api() ends every call, so some of those that read and some of those that
\* do something end, however many there are.
FairSpec ==
  Spec /\ \A flag \in Flags : \A ops \in {Reads, Ops \ (Reads \cup {"logo"})} : WF_vars(OwnCallEnds(flag, ops))

-----------------------------------------------------------------------------
\* Type invariant: tables, the page and its calls keep their shapes.
TypeOK ==
  /\ world \in Worlds
  /\ account \in [state: {"none", "user", "merchant"}, by: {"email", "phone"}]
  /\ session \in BOOLEAN /\ completed \in BOOLEAN /\ slug \in Slugs \ {"unnamed"}
  /\ code \in [Purposes -> [no: 0..MaxCodes, tries: 0..MaxAttempts + MaxCalls, dead: BOOLEAN]]
  /\ rows \subseteq Wallets /\ active \subseteq rows /\ default \subseteq rows
  /\ links \in [Links -> {"none", "sent", "dead"}]
  /\ chat \in Chats \cup {None} /\ updates \subseteq Links \X Chats
  /\ tab \in Tab /\ calls \subseteq Call

\* A one-time code takes MaxAttempts guesses, and no more than the checks
\* that overlap on top, for the count is read before it is raised (Verify).
GuessesBounded == \A p \in Purposes : code[p].tries < MaxAttempts + MaxCalls

\* Nobody gets to the wallets' step or to an open shop under a slug that the
\* site keeps for itself, although registration hands such slugs out
\* (createMerchantForUser, handlePatchMerchant, onNext).
NamedBeforeOpen ==
  completed \/ (tab.page = "onboarding" /\ tab.step = 1) => slug = "own"

\* Archiving keeps the record of every address orders were priced at, and of
\* the one that onboarding was completed with (handleDeleteWallet: "never
\* hard-delete historical destination records"), however it overlaps.
RecordsKept == priced \subseteq rows /\ (completed => rows # {})

\* A connect link connects one chat, whoever it was passed on to and however
\* often Telegram delivers their updates (handleTelegramWebhook).
LinkConnectsOnce == \A l \in Links : Cardinality(joined[l]) <= 1

\* A part of a page that an action disables comes back, whether the action
\* succeeds, fails or is not answered, unless a logo is being uploaded.
BusyEnds ==
  \A flag \in Flags : flag \in tab.busy /\ ~Uploads ~> flag \notin tab.busy \/ Uploads

=============================================================================
