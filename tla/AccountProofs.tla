--------------------------- MODULE AccountProofs ----------------------------
(***************************************************************************)
(* What the account's handlers promise, for any wallets, links, chats and  *)
(* worlds. The invariant says what a call that is under way stands for: a  *)
(* completion that was found possible, a name that was saved, a load that  *)
(* follows one.                                                            *)
(***************************************************************************)
EXTENDS Account, FiniteSetTheorems, TLAPS

\* A call and a page have their fields, whatever these hold.
CallFields == {"op", "of", "by", "arg", "guess", "no", "own", "live", "stage", "answer"}
Shaped(c) == c = [f \in CallFields |-> c[f]]

TabFields == {"page", "loaded", "facts", "busy", "phone", "mode", "otp", "step", "slug", "draft",
              "mark", "doomed", "waiting"}
Laid(t) == t = [f \in TabFields |-> t[f]]

\* What the calls on their way to a next step imply of the shop.
Earned(c) ==
  /\ c.op = "complete" /\ c.stage = "read" => rows # {} /\ slug = "own"
  /\ c.op = "merchant" /\ c.stage = "answered" => slug = "own"
  /\ c.op = "onboarding" /\ c.arg = "next" => slug = "own"

CallsEarned == \A c \in calls : Shaped(c) /\ Earned(c)

\* A shop has the record of each wallet, and it is open only under a name.
ShopInv ==
  /\ active \subseteq rows /\ priced \subseteq rows
  /\ completed => rows # {} /\ slug = "own"

\* The page of the onboarding is at its wallets only under a name.
TabInv == Laid(tab) /\ (tab.page = "onboarding" /\ tab.step = 1 => slug = "own")

\* A token that can still be used has connected nobody.
Fresh ==
  /\ links = [l \in Links |-> links[l]] /\ joined = [l \in Links |-> joined[l]]
  /\ \A l \in Links :
       /\ links[l] # "dead" => joined[l] = {}
       /\ joined[l] = {} \/ \E ch : joined[l] = {ch}

IInv == CallsEarned /\ ShopInv /\ TabInv /\ Fresh

-----------------------------------------------------------------------------
LEMMA InitIInv == Init => IInv
<1> SUFFICES ASSUME Init PROVE IInv
  OBVIOUS
<1>1. CallsEarned
  BY DEF Init, CallsEarned
<1>2. ShopInv
  BY DEF Init, ShopInv
<1>3. TabInv
  BY DEF Init, TabInv, NewTab, Laid, TabFields
<1>4. Fresh
  BY DEF Init, Fresh
<1> QED
  BY <1>1, <1>2, <1>3, <1>4 DEF IInv

LEMMA Promised == IInv => RecordsKept /\ NamedBeforeOpen /\ LinkConnectsOnce
<1> SUFFICES ASSUME IInv PROVE RecordsKept /\ NamedBeforeOpen /\ LinkConnectsOnce
  OBVIOUS
<1>1. RecordsKept /\ NamedBeforeOpen
  BY DEF IInv, ShopInv, TabInv, RecordsKept, NamedBeforeOpen
<1>2. LinkConnectsOnce
  <2> SUFFICES ASSUME NEW l \in Links PROVE Cardinality(joined[l]) <= 1
    BY DEF LinkConnectsOnce
  <2>1. CASE joined[l] = {}
    BY <2>1, FS_EmptySet
  <2>2. ASSUME NEW ch, joined[l] = {ch} PROVE Cardinality(joined[l]) <= 1
    BY <2>2, FS_Singleton
  <2> QED
    BY <2>1, <2>2 DEF IInv, Fresh
<1> QED
  BY <1>1, <1>2

-----------------------------------------------------------------------------
\* The shop only gains records, and keeps its name.
Grows == rows \subseteq rows' /\ (slug = "own" => slug' = "own")

\* The same call, later.
Moved(c, k) == Shaped(k) /\ k.op = c.op /\ k.arg = c.arg

\* What a handler does to its call.
Handles(c) ==
  \/ \E facts : Answered(c, facts)
  \/ Refused(c)
  \/ \E stage : At(c, stage)
  \/ \E no : calls' = Goes(c, {[c EXCEPT !.stage = "read", !.no = no]})

LEMMA Handled ==
  ASSUME NEW c, Shaped(c), Handles(c)
  PROVE  \E k : Moved(c, k) /\ calls' \subseteq (calls \ {c}) \cup {k}
<1>1. ASSUME NEW facts, Answered(c, facts) PROVE \E k : Moved(c, k) /\ calls' \subseteq (calls \ {c}) \cup {k}
  <2> DEFINE k == [c EXCEPT !.stage = "answered", !.answer = facts]
  <2>1. Moved(c, k)
    BY DEF Moved, Shaped, CallFields
  <2>2. calls' \subseteq (calls \ {c}) \cup {k}
    BY <1>1 DEF Answered, Goes
  <2> QED
    BY <2>1, <2>2
<1>2. ASSUME Refused(c) PROVE \E k : Moved(c, k) /\ calls' \subseteq (calls \ {c}) \cup {k}
  <2> DEFINE k == [c EXCEPT !.stage = "refused"]
  <2>1. Moved(c, k)
    BY DEF Moved, Shaped, CallFields
  <2>2. calls' \subseteq (calls \ {c}) \cup {k}
    BY <1>2 DEF Refused, Goes
  <2> QED
    BY <2>1, <2>2
<1>3. ASSUME NEW stage, At(c, stage) PROVE \E k : Moved(c, k) /\ calls' \subseteq (calls \ {c}) \cup {k}
  <2> DEFINE k == [c EXCEPT !.stage = stage]
  <2>1. Moved(c, k)
    BY DEF Moved, Shaped, CallFields
  <2>2. calls' \subseteq (calls \ {c}) \cup {k}
    BY <1>3 DEF At, Goes
  <2> QED
    BY <2>1, <2>2
<1>4. ASSUME NEW no, calls' = Goes(c, {[c EXCEPT !.stage = "read", !.no = no]})
      PROVE  \E k : Moved(c, k) /\ calls' \subseteq (calls \ {c}) \cup {k}
  <2> DEFINE k == [c EXCEPT !.stage = "read", !.no = no]
  <2>1. Moved(c, k)
    BY DEF Moved, Shaped, CallFields
  <2>2. calls' \subseteq (calls \ {c}) \cup {k}
    BY <1>4 DEF Goes
  <2> QED
    BY <2>1, <2>2
<1> QED
  BY <1>1, <1>2, <1>3, <1>4 DEF Handles

\* What was earned stays so, and a handler earns what its call needs.
LEMMA Advances ==
  ASSUME CallsEarned, NEW c \in calls, Handles(c), Grows,
         c.op = "merchant" => slug' = "own",
         c.op = "complete" => rows' # {} /\ slug' = "own"
  PROVE  CallsEarned'
<1>1. PICK k : Moved(c, k) /\ calls' \subseteq (calls \ {c}) \cup {k}
  BY Handled DEF CallsEarned
<1>2. \A d \in calls : Shaped(d) /\ Earned(d)'
  BY DEF CallsEarned, Earned, Grows
<1>3. Shaped(k) /\ Earned(k)'
  <2>1. c.op = "onboarding" /\ c.arg = "next" => slug' = "own"
    BY DEF CallsEarned, Earned, Grows
  <2> QED
    BY <1>1, <2>1 DEF Moved, Earned
<1> QED
  BY <1>1, <1>2, <1>3 DEF CallsEarned

\* A handler that leaves the shop and the links alone.
LEMMA Minds ==
  ASSUME IInv, NEW c \in calls, Handles(c), c.op \notin {"merchant", "complete"},
         UNCHANGED <<shop, telegram, tab>>
  PROVE  IInv'
<1>1. Grows
  BY DEF Grows, shop
<1>2. CallsEarned'
  BY <1>1, Advances DEF IInv
<1>3. ShopInv' /\ TabInv' /\ Fresh'
  BY DEF IInv, ShopInv, TabInv, Fresh, shop, telegram
<1> QED
  BY <1>2, <1>3 DEF IInv

\* The handlers of people, and those that only read.
LEMMA PeopleMove ==
  ASSUME IInv, UNCHANGED tab, NEW c \in calls,
         \/ AnswerSend(c) \/ ReadCode(c) \/ WriteCode(c) \/ AnswerLogin(c)
         \/ MakeUser(c) \/ MakeMerchant(c) \/ AnswerLogout(c) \/ AnswerRead(c)
  PROVE  IInv'
<1>1. CASE AnswerSend(c)
  BY <1>1, Minds DEF AnswerSend, Handles
<1>2. CASE ReadCode(c)
  <2>1. Handles(c)
    BY <1>2 DEF ReadCode, Handles
  <2> QED
    BY <1>2, <2>1, Minds DEF ReadCode, server
<1>3. CASE WriteCode(c)
  <2>1. Refused(c) \/ At(c, "checked") \/ Answered(c, {})
    BY <1>3 DEF WriteCode
  <2> QED
    BY <1>3, <2>1, Minds DEF WriteCode, Handles
<1>4. CASE AnswerLogin(c)
  BY <1>4, Minds DEF AnswerLogin, Handles
<1>5. CASE MakeUser(c)
  <2>1. Handles(c) /\ c.op \notin {"merchant", "complete"} /\ UNCHANGED <<shop, telegram>>
    BY <1>5 DEF MakeUser, Handles, Makers
  <2> QED
    BY <2>1, Minds
<1>6. CASE MakeMerchant(c)
  <2>1. Handles(c) /\ c.op \notin {"merchant", "complete"} /\ UNCHANGED <<shop, telegram>>
    BY <1>6 DEF MakeMerchant, Handles, Makers
  <2> QED
    BY <2>1, Minds
<1>7. CASE AnswerLogout(c)
  BY <1>7, Minds DEF AnswerLogout, Handles
<1>8. CASE AnswerRead(c)
  <2>1. \E facts : Answered(c, facts)
    BY <1>8 DEF AnswerRead
  <2>2. c.op \notin {"merchant", "complete"} /\ UNCHANGED <<shop, telegram>>
    BY <1>8 DEF AnswerRead, Reads, server
  <2> QED
    BY <2>1, <2>2, Minds DEF Handles
<1> QED
  BY <1>1, <1>2, <1>3, <1>4, <1>5, <1>6, <1>7, <1>8

\* The handlers of the shop.
LEMMA ShopMoves ==
  ASSUME IInv, UNCHANGED tab, NEW c \in calls,
         \/ AnswerMerchant(c) \/ ReadComplete(c) \/ WriteComplete(c) \/ TakeDefault(c)
         \/ WriteWallet(c) \/ ReadArchive(c) \/ WriteArchive(c)
  PROVE  IInv'
<1>1. ASSUME Handles(c), Grows, UNCHANGED telegram, ShopInv',
             c.op = "merchant" => slug' = "own",
             c.op = "complete" => rows' # {} /\ slug' = "own"
      PROVE  IInv'
  <2>1. CallsEarned'
    BY <1>1, Advances DEF IInv
  <2>2. TabInv' /\ Fresh'
    BY <1>1 DEF IInv, TabInv, Fresh, Grows, telegram
  <2> QED
    BY <1>1, <2>1, <2>2 DEF IInv
<1>2. CASE AnswerMerchant(c)
  BY <1>1, <1>2 DEF AnswerMerchant, Handles, Grows, IInv, ShopInv
<1>3. CASE ReadComplete(c)
  <2>1. Handles(c) /\ UNCHANGED <<shop, telegram>> /\ c.op = "complete" /\ slug = "own" /\ active # {}
    BY <1>3 DEF ReadComplete, Handles, server
  <2> QED
    BY <1>1, <2>1 DEF Grows, IInv, ShopInv, shop
<1>4. CASE WriteComplete(c)
  <2>1. c.op = "complete" /\ rows # {} /\ slug = "own"
    BY <1>4 DEF WriteComplete, IInv, CallsEarned, Earned
  <2> QED
    BY <1>1, <1>4, <2>1 DEF WriteComplete, Handles, Grows, IInv, ShopInv
<1>5. CASE TakeDefault(c)
  BY <1>1, <1>5 DEF TakeDefault, Handles, Grows, IInv, ShopInv
<1>6. CASE WriteWallet(c)
  <2>1. Refused(c) \/ Answered(c, {})
    BY <1>6 DEF WriteWallet
  <2>2. Handles(c) /\ c.op \notin {"merchant", "complete"} /\ UNCHANGED telegram
    BY <1>6, <2>1 DEF WriteWallet, Handles
  <2>3. Grows /\ ShopInv'
    BY <1>6 DEF WriteWallet, Grows, IInv, ShopInv
  <2> QED
    BY <1>1, <2>2, <2>3
<1>7. CASE ReadArchive(c)
  BY <1>7, Minds DEF ReadArchive, Handles, server
<1>8. CASE WriteArchive(c)
  BY <1>1, <1>8 DEF WriteArchive, Handles, Grows, IInv, ShopInv
<1> QED
  BY <1>2, <1>3, <1>4, <1>5, <1>6, <1>7, <1>8

\* The handlers of Telegram: only a token that has connected nobody connects.
LEMMA TelegramMoves ==
  ASSUME IInv, UNCHANGED tab, NEW c \in calls,
         AnswerLink(c) \/ AnswerDisconnect(c) \/ ReadStart(c) \/ Connect(c)
  PROVE  IInv'
<1>1. ASSUME Handles(c), c.op \notin {"merchant", "complete"}, UNCHANGED shop, Fresh'
      PROVE  IInv'
  <2>1. Grows
    BY <1>1 DEF Grows, shop
  <2>2. CallsEarned'
    BY <1>1, <2>1, Advances DEF IInv
  <2>3. ShopInv' /\ TabInv'
    BY <1>1 DEF IInv, ShopInv, TabInv, shop
  <2> QED
    BY <1>1, <2>2, <2>3 DEF IInv
<1>2. CASE AnswerLink(c)
  <2>1. Fresh'
    BY <1>2 DEF AnswerLink, IInv, Fresh
  <2> QED
    BY <1>1, <1>2, <2>1 DEF AnswerLink, Handles
<1>3. CASE AnswerDisconnect(c)
  <2>1. Fresh'
    BY <1>3 DEF AnswerDisconnect, IInv, Fresh
  <2> QED
    BY <1>1, <1>3, <2>1 DEF AnswerDisconnect, Handles
<1>4. CASE ReadStart(c)
  <2>1. Answered(c, {}) \/ At(c, "read")
    BY <1>4 DEF ReadStart
  <2> QED
    BY <1>1, <1>4, <2>1 DEF ReadStart, Handles, IInv, Fresh
<1>5. CASE Connect(c)
  <2>1. CASE links[c.of] = "sent"
    <3>1. links' = [links EXCEPT ![c.of] = "dead"] /\ joined' = [joined EXCEPT ![c.of] = @ \cup {c.by}]
      BY <1>5, <2>1 DEF Connect
    <3>2. c.of \in Links => joined[c.of] = {}
      BY <2>1 DEF IInv, Fresh
    <3>3. links' = [l \in Links |-> links'[l]] /\ joined' = [l \in Links |-> joined'[l]]
      BY <3>1 DEF IInv, Fresh
    <3>4. ASSUME NEW l \in Links
          PROVE  /\ links'[l] # "dead" => joined'[l] = {}
                 /\ joined'[l] = {} \/ \E ch : joined'[l] = {ch}
      <4>1. CASE l = c.of
        <5>1. links'[l] = "dead" /\ joined'[l] = {c.by}
          BY <3>1, <3>2, <4>1 DEF IInv, Fresh
        <5> QED
          BY <5>1
      <4>2. CASE l # c.of
        <5>1. links'[l] = links[l] /\ joined'[l] = joined[l]
          BY <3>1, <4>2 DEF IInv, Fresh
        <5> QED
          BY <5>1 DEF IInv, Fresh
      <4> QED
        BY <4>1, <4>2
    <3> QED
      BY <1>1, <1>5, <3>3, <3>4 DEF Connect, Handles, Fresh
  <2>2. CASE links[c.of] # "sent"
    BY <1>1, <1>5, <2>2 DEF Connect, Handles, IInv, Fresh
  <2> QED
    BY <2>1, <2>2
<1> QED
  BY <1>2, <1>3, <1>4, <1>5

-----------------------------------------------------------------------------
\* Steps of the page and of its buyer leave the server alone.
LEMMA PageMoves ==
  ASSUME IInv, UNCHANGED server, TabInv', \A k \in calls' : Shaped(k) /\ Earned(k)
  PROVE  IInv'
<1>1. CallsEarned'
  BY DEF CallsEarned, Shaped, Earned, server, shop
<1>2. ShopInv' /\ Fresh'
  BY DEF IInv, ShopInv, Fresh, server, shop, telegram
<1> QED
  BY <1>1, <1>2 DEF IInv

LEMMA Standing == IInv => Laid(tab) /\ TabInv /\ \A k \in calls : Shaped(k) /\ Earned(k)
BY DEF IInv, TabInv, CallsEarned

\* A call that starts has earned nothing, nor needs to.
LEMMA Begun ==
  ASSUME NEW op, NEW of, NEW arg, NEW own, op = "onboarding" /\ arg = "next" => slug = "own"
  PROVE  Shaped(NewCall(op, of, arg, own)) /\ Earned(NewCall(op, of, arg, own))
<1>1. Shaped(NewCall(op, of, arg, own))
  BY DEF NewCall, Shaped, CallFields
<1>2. /\ NewCall(op, of, arg, own).op = op /\ NewCall(op, of, arg, own).arg = arg
      /\ NewCall(op, of, arg, own).stage = "sent"
  BY DEF NewCall
<1> QED
  BY <1>1, <1>2 DEF Earned

LEMMA Left_Earned ==
  ASSUME NEW cs, \A k \in cs : Shaped(k) /\ Earned(k)
  PROVE  \A k \in Left(cs) : Shaped(k) /\ Earned(k)
<1>1. ASSUME NEW c \in cs
      PROVE  Shaped(Ignored(c)) /\ Earned(Ignored(c))
  <2> DEFINE k == Ignored(c)
  <2>1. Shaped(k) /\ k.op = c.op /\ k.arg = c.arg /\ k.stage = c.stage
    BY DEF Ignored, Shaped, CallFields
  <2> HIDE DEF k
  <2>2. Earned(k)
    BY <2>1 DEF Earned
  <2> QED
    BY <2>1, <2>2 DEF k
<1> QED
  BY <1>1 DEF Left

\* A page that is opened asks for what it shows.
LEMMA Opened ==
  ASSUME IInv, UNCHANGED server, NEW p, NEW cs, cs \subseteq calls,
         tab' = NewTab(p), calls' = Left(cs) \cup FirstCalls(p)
  PROVE  IInv'
<1>1. \A k \in FirstCalls(p) : Shaped(k) /\ Earned(k)
  <2>1. \A op : Shaped(Plain(op)) /\ Earned(Plain(op))
    BY Begun DEF Plain
  <2>2. \A k \in FirstCalls(p) : \E op : k = Plain(op)
    BY DEF FirstCalls
  <2> QED
    BY <2>1, <2>2
<1>2. \A k \in Left(cs) : Shaped(k) /\ Earned(k)
  BY Left_Earned, Standing
<1>3. TabInv'
  <2>1. Laid(NewTab(p)) /\ NewTab(p).step = 0
    BY DEF NewTab, Laid, TabFields
  <2> QED
    BY <2>1 DEF TabInv, Laid
<1> QED
  BY <1>1, <1>2, <1>3, PageMoves

\* The page is changed, but is the same and no further on.
Touched == Laid(tab') /\ tab'.page = tab.page /\ tab'.step \in {tab.step, 0}

LEMMA Touches ==
  ASSUME IInv, UNCHANGED server, Touched, NEW k, Shaped(k), Earned(k), calls' \subseteq calls \cup {k}
  PROVE  IInv'
<1>1. TabInv'
  BY DEF Touched, IInv, TabInv, server, shop
<1> QED
  BY <1>1, Standing, PageMoves

LEMMA Settles == ASSUME IInv, UNCHANGED server, Touched, calls' \subseteq calls PROVE IInv'
<1>1. TabInv'
  BY DEF Touched, IInv, TabInv, server, shop
<1> QED
  BY <1>1, Standing, PageMoves

\* The answers of the pages people sign in on.
LEMMA PeopleDelivered ==
  ASSUME IInv, UNCHANGED server, NEW c \in calls, DeliverPeople(c)
  PROVE  IInv'
<1>0. Laid(tab)
  BY Standing
<1>1. CASE LoginProviders(c) \/ RegisterProviders(c)
  BY <1>0, <1>1, Settles DEF LoginProviders, RegisterProviders, Still, Touched, Laid, TabFields
<1>2. CASE LoginCodeSent(c) \/ RegisterCodeSent(c)
  BY <1>0, <1>2, Settles DEF LoginCodeSent, RegisterCodeSent, Still, Touched, Laid, TabFields
<1>3. CASE LoggedIn(c) \/ CodeLogsIn(c) \/ Registered(c) \/ LoggedOut(c)
  BY <1>3, Opened DEF LoggedIn, CodeLogsIn, Registered, LoggedOut, Go
<1>4. CASE CodeRegisters(c)
  <2>1. CASE c.op = "otpreg" /\ Go("onboarding", c)
    BY <2>1, Opened DEF Go
  <2>2. CASE /\ calls' = Goes(c, {[NewCall("otpreg", None, "none", c.own) EXCEPT !.guess = c.guess]})
             /\ UNCHANGED tab
    <3> DEFINE k == [NewCall("otpreg", None, "none", c.own) EXCEPT !.guess = c.guess]
    <3>1. Shaped(k) /\ k.op = "otpreg"
      BY DEF NewCall, Shaped, CallFields
    <3>2. calls' \subseteq calls \cup {k}
      BY <2>2 DEF Goes
    <3> HIDE DEF k
    <3>3. Earned(k)
      BY <3>1 DEF Earned
    <3> QED
      BY <1>0, <2>2, <3>1, <3>2, <3>3, Touches DEF Touched
  <2> QED
    BY <1>4, <2>1, <2>2 DEF CodeRegisters
<1> QED
  BY <1>1, <1>2, <1>3, <1>4 DEF DeliverPeople

\* The onboarding's answers: it goes on with a load that follows a name.
LEMMA SetUpDelivered ==
  ASSUME IInv, UNCHANGED server, NEW c \in calls, c.stage = "answered", DeliverSetUp(c)
  PROVE  IInv'
<1>0. Laid(tab) /\ Earned(c)
  BY Standing
<1>1. CASE OnboardingLoads(c)
  <2>1. CASE Go("home", c)
    BY <2>1, Opened DEF Go
  <2>2. CASE /\ calls' = calls \ {c}
             /\ tab' = [tab EXCEPT !.loaded = TRUE, !.facts = c.answer, !.busy = Free(c),
                          !.slug = IF <<"own", None>> \in c.answer THEN "own" ELSE "reserved",
                          !.step = IF c.arg = "next" THEN 1 ELSE @]
    <3>1. Laid(tab') /\ tab'.page = tab.page
      BY <1>0, <2>2 DEF Laid, TabFields
    <3>2. tab'.step = IF c.arg = "next" THEN 1 ELSE tab.step
      BY <1>0, <2>2 DEF Laid, TabFields
    <3>3. c.arg = "next" => slug = "own"
      BY <1>0, <1>1 DEF OnboardingLoads, Earned
    <3>4. TabInv'
      BY <3>1, <3>2, <3>3 DEF IInv, TabInv, server, shop
    <3> QED
      BY <2>2, <3>4, Standing, PageMoves
  <2> QED
    BY <1>1, <2>1, <2>2 DEF OnboardingLoads, Still
<1>2. CASE StumbleOnboarding(c)
  BY <1>0, <1>2, Settles DEF StumbleOnboarding, Still, Touched, Laid, TabFields
<1>3. CASE SlugChecked(c)
  <2>1. PICK s \in {"own", tab.slug} : Still(c, [tab EXCEPT !.slug = s])
    BY <1>3 DEF SlugChecked
  <2> QED
    BY <1>0, <2>1, Settles DEF Still, Touched, Laid, TabFields
<1>4. CASE SlugSuggested(c)
  <2>1. Touched
    BY <1>0, <1>4 DEF SlugSuggested, Touched, Laid, TabFields
  <2>2. calls' \subseteq calls \cup {NewCall("merchant", None, "unnamed", c.own)}
    BY <1>4 DEF SlugSuggested, Goes
  <2> QED
    BY <2>1, <2>2, Begun, Touches
<1>5. CASE BusinessSaved(c)
  <2>1. slug = "own"
    BY <1>0, <1>5 DEF BusinessSaved, Earned
  <2>2. calls' \subseteq calls \cup {NewCall("onboarding", None, "next", c.own)} /\ UNCHANGED tab
    BY <1>5 DEF BusinessSaved, Goes
  <2> QED
    BY <1>0, <2>1, <2>2, Begun, Touches DEF Touched
<1>6. CASE SetUpDone(c)
  BY <1>6, Opened DEF SetUpDone, Go
<1>7. CASE WalletAdded(c)
  <2>1. calls' \subseteq calls \cup {NewCall("onboarding", None, "none", c.own)} /\ UNCHANGED tab
    BY <1>7 DEF WalletAdded, Goes
  <2> QED
    BY <1>0, <2>1, Begun, Touches DEF Touched
<1> QED
  BY <1>1, <1>2, <1>3, <1>4, <1>5, <1>6, <1>7 DEF DeliverSetUp

\* The answers of the wallets' page.
LEMMA WalletsDelivered ==
  ASSUME IInv, UNCHANGED server, NEW c \in calls, DeliverWallets(c)
  PROVE  IInv'
<1>0. Laid(tab)
  BY Standing
<1>1. CASE WalletsLoad(c)
  BY <1>0, <1>1, Settles DEF WalletsLoad, Still, Touched, Laid, TabFields
<1>2. ASSUME Touched, NEW arg, arg # "next", calls' = Goes(c, {NewCall("wallets", None, arg, c.own)})
      PROVE  IInv'
  <2>1. calls' \subseteq calls \cup {NewCall("wallets", None, arg, c.own)}
    BY <1>2 DEF Goes
  <2> QED
    BY <1>2, <2>1, Begun, Touches
<1>3. CASE WalletSaved(c)
  <2>1. Touched
    BY <1>0, <1>3 DEF WalletSaved, Touched, Laid, TabFields
  <2> QED
    BY <1>2, <1>3, <2>1 DEF WalletSaved, Again
<1>4. CASE DefaultSet(c) \/ Archived(c)
  BY <1>0, <1>2, <1>4 DEF DefaultSet, Archived, Again, Touched
<1> QED
  BY <1>1, <1>3, <1>4 DEF DeliverWallets

\* The answers of the notifications page and of the settings.
LEMMA NotifyDelivered ==
  ASSUME IInv, UNCHANGED server, NEW c \in calls, DeliverNotify(c) \/ DeliverSettings(c)
  PROVE  IInv'
<1>0. Laid(tab)
  BY Standing
<1>1. CASE MeArrives(c) \/ IgArrives(c) \/ PrefsArrive(c)
  BY <1>0, <1>1, Settles DEF MeArrives, IgArrives, PrefsArrive, Still, Touched, Laid, TabFields
<1>2. CASE FocusArrives(c)
  BY <1>0, <1>2, Settles DEF FocusArrives, Still, Touched, Laid, TabFields
<1>3. CASE LinkMade(c)
  BY <1>0, <1>3, Settles DEF LinkMade, Still, Touched, Laid, TabFields
<1>4. CASE Disconnected(c)
  BY <1>0, <1>4, Settles DEF Disconnected, Still, Touched, Laid, TabFields
<1>5. CASE IgCodeArrives(c) \/ IgDropped(c)
  BY <1>0, <1>5, Settles DEF IgCodeArrives, IgDropped, Still, Touched, Laid, TabFields
<1>6. CASE TestSent(c) \/ EmailSaved(c)
  BY <1>0, <1>6, Settles DEF TestSent, EmailSaved, Still, Touched, Laid, TabFields
<1>7. CASE SettingsKnow(c) \/ StoreArrives(c) \/ QuestionsArrive(c)
  BY <1>0, <1>7, Settles DEF SettingsKnow, StoreArrives, QuestionsArrive, Still, Touched, Laid, TabFields
<1>8. CASE StoreSaved(c) \/ LogoUploaded(c) \/ QuestionsSaved(c)
  BY <1>0, <1>8, Settles DEF StoreSaved, LogoUploaded, QuestionsSaved, Still, Touched, Laid, TabFields
<1> QED
  BY <1>1, <1>2, <1>3, <1>4, <1>5, <1>6, <1>7, <1>8 DEF DeliverNotify, DeliverSettings

LEMMA Delivered == ASSUME IInv, NEW c \in calls, Deliver(c) PROVE IInv'
<1>1. UNCHANGED server /\ c.stage = "answered"
  BY DEF Deliver
<1>2. CASE Crash(c)
  BY <1>1, <1>2, Opened DEF Crash, Go
<1> QED
  BY <1>1, <1>2, PeopleDelivered, SetUpDelivered, WalletsDelivered, NotifyDelivered DEF Deliver

\* A call that fails, or that nobody waits for.
LEMMA Failed == ASSUME IInv, NEW c \in calls, Fail(c) \/ Lose(c) PROVE IInv'
<1>0. Laid(tab)
  BY Standing
<1>1. CASE Fail(c)
  <2>1. Touched
    BY <1>0, <1>1 DEF Fail, Recovered, Touched, Laid, TabFields
  <2>2. \A k \in calls' : k \in calls \cup Left({c})
    BY <1>1 DEF Fail, Goes
  <2>3. \A k \in calls' : Shaped(k) /\ Earned(k)
    BY <2>2, Left_Earned, Standing
  <2>4. UNCHANGED server
    BY <1>1 DEF Fail
  <2>5. TabInv'
    BY <2>1, <2>4 DEF Touched, IInv, TabInv, server, shop
  <2> QED
    BY <2>3, <2>4, <2>5, PageMoves
<1>2. CASE Lose(c)
  BY <1>0, <1>2, Settles DEF Lose, Touched
<1> QED
  BY <1>1, <1>2

\* What orders, time, chats and other devices do.
LEMMA OthersMove ==
  ASSUME IInv,
         \/ \E c \in calls : Redeliver(c)
         \/ \E p \in Purposes : CodeExpires(p)
         \/ \E w \in Wallets : Sell(w) \/ Settle(w)
         \/ \E l \in Links : LinkExpires(l) \/ \E ch \in Chats : PressStart(l, ch)
         \/ \E op \in world.others : OthersAsk(op)
  PROVE  IInv'
<1>0. Laid(tab)
  BY Standing
<1>1. ASSUME NEW c \in calls, Redeliver(c) PROVE IInv'
  <2>1. At(c, "sent") /\ UNCHANGED <<shop, telegram, tab>> /\ c.op = "start"
    BY <1>1 DEF Redeliver, server
  <2> QED
    BY <2>1, Minds DEF Handles
<1>2. ASSUME UNCHANGED <<tab, calls, slug, rows>>, ShopInv', Fresh' PROVE IInv'
  BY <1>2 DEF IInv, CallsEarned, Shaped, Earned, TabInv, Laid
<1>3. ASSUME NEW p \in Purposes, CodeExpires(p) PROVE IInv'
  BY <1>2, <1>3 DEF CodeExpires, IInv, ShopInv, Fresh, shop, telegram
<1>4. ASSUME NEW w \in Wallets, Sell(w) \/ Settle(w) PROVE IInv'
  BY <1>2, <1>4 DEF Sell, Settle, IInv, ShopInv, Fresh, telegram
<1>5. ASSUME NEW l \in Links, LinkExpires(l) PROVE IInv'
  <2>1. Fresh'
    BY <1>5 DEF LinkExpires, IInv, Fresh
  <2> QED
    BY <1>2, <1>5, <2>1 DEF LinkExpires, IInv, ShopInv, shop
<1>6. ASSUME NEW l \in Links, NEW ch \in Chats, PressStart(l, ch) PROVE IInv'
  <2> DEFINE k == [NewCall("start", l, "none", "none") EXCEPT !.by = ch, !.live = FALSE]
  <2>1. Shaped(k) /\ k.op = "start"
    BY DEF NewCall, Shaped, CallFields
  <2>2. calls' \subseteq calls \cup {k} /\ UNCHANGED <<server, tab>>
    BY <1>6 DEF PressStart
  <2> HIDE DEF k
  <2>3. Earned(k)
    BY <2>1 DEF Earned
  <2> QED
    BY <1>0, <2>1, <2>2, <2>3, Touches DEF Touched
<1>7. ASSUME NEW op \in world.others, OthersAsk(op) PROVE IInv'
  <2>1. PICK w, arg :
          arg # "next" /\ calls' = calls \cup {[NewCall(op, w, arg, "none") EXCEPT !.live = FALSE]}
    BY <1>7 DEF OthersAsk
  <2> DEFINE k == [NewCall(op, w, arg, "none") EXCEPT !.live = FALSE]
  <2>2. Shaped(k) /\ k.arg = arg /\ k.stage = "sent"
    BY DEF NewCall, Shaped, CallFields
  <2>3. calls' \subseteq calls \cup {k} /\ UNCHANGED <<server, tab>>
    BY <1>7, <2>1 DEF OthersAsk
  <2> HIDE DEF k
  <2>4. Earned(k)
    BY <2>1, <2>2 DEF Earned
  <2> QED
    BY <1>0, <2>2, <2>3, <2>4, Touches DEF Touched
<1> QED
  BY <1>1, <1>3, <1>4, <1>5, <1>6, <1>7

\* A click updates the page and starts one call.
LEMMA Asked ==
  ASSUME IInv, NEW update, Laid(update), update.page = tab.page, update.step \in {tab.step, 0},
         NEW k, Shaped(k), Earned(k), Clicks(update, k)
  PROVE  IInv'
<1>1. UNCHANGED server /\ tab' = update /\ calls' \subseteq calls \cup {k}
  BY DEF Clicks
<1> QED
  BY <1>1, Touches DEF Touched

LEMMA Acted ==
  ASSUME IInv, NEW flag, NEW call, Shaped(call), Earned(call), Acts(flag, call)
  PROVE  IInv'
<1> DEFINE update == [tab EXCEPT !.busy = @ \cup {flag}]
           k == [call EXCEPT !.own = flag]
<1>1. Laid(update) /\ update.page = tab.page /\ update.step = tab.step
  BY Standing DEF Laid, TabFields
<1>2. Shaped(k) /\ k.op = call.op /\ k.arg = call.arg /\ k.stage = call.stage
  BY DEF Shaped, CallFields
<1>3. Clicks(update, k)
  BY DEF Acts
<1> HIDE DEF update, k
<1>4. Earned(k)
  BY <1>2 DEF Earned
<1> QED
  BY <1>1, <1>2, <1>3, <1>4, Asked

\* The buttons that make a part of the page busy.
LEMMA ButtonsMove ==
  ASSUME IInv,
         \/ SubmitLogin \/ SubmitRegister \/ AskLoginCode \/ AskRegisterCode
         \/ EnterLoginCode \/ EnterRegisterCode \/ NextStep \/ ConfirmSave
         \/ (\E w \in Wallets : AddWallet(w) \/ SetDefault(w))
         \/ ConnectTelegram \/ DisconnectTelegram \/ TestTelegram \/ GetIgCode \/ DropInstagram
         \/ PatchEmail \/ SaveStore \/ SaveQuestions
  PROVE  IInv'
<1>1. ASSUME NEW flag, NEW op, NEW of, NEW arg, arg # "next", Acts(flag, NewCall(op, of, arg, "none"))
      PROVE  IInv'
  BY <1>1, Begun, Acted
<1>2. ASSUME NEW flag, NEW op, Acts(flag, Plain(op)) PROVE IInv'
  BY <1>1, <1>2 DEF Plain
<1>3. CASE SubmitLogin \/ SubmitRegister \/ ConnectTelegram \/ DisconnectTelegram \/ TestTelegram
  BY <1>2, <1>3 DEF SubmitLogin, SubmitRegister, ConnectTelegram, DisconnectTelegram, TestTelegram
<1>4. CASE GetIgCode \/ DropInstagram \/ PatchEmail \/ SaveStore \/ SaveQuestions
  BY <1>2, <1>4 DEF GetIgCode, DropInstagram, PatchEmail, SaveStore, SaveQuestions
<1>5. CASE AskLoginCode \/ AskRegisterCode
  BY <1>1, <1>5 DEF AskLoginCode, AskRegisterCode, AskCode
<1>6. ASSUME NEW page, page # "next", EnterCode(page) PROVE IInv'
  <2>1. PICK g : Acts("page", [NewCall("verify", None, page, "none") EXCEPT !.guess = g])
    BY <1>6 DEF EnterCode
  <2> DEFINE k == [NewCall("verify", None, page, "none") EXCEPT !.guess = g]
  <2>2. Shaped(k) /\ k.op = "verify"
    BY DEF NewCall, Shaped, CallFields
  <2>3. Earned(k)
    BY <2>2 DEF Earned
  <2> QED
    BY <2>1, <2>2, <2>3, Acted
<1>7. CASE EnterLoginCode \/ EnterRegisterCode
  BY <1>6, <1>7 DEF EnterLoginCode, EnterRegisterCode
<1>8. CASE NextStep
  <2>1. PICK name : name = tab.slug
    OBVIOUS
  <2>2. ASSUME Acts("page", NewCall("merchant", None, name, "none")) PROVE IInv'
    BY <2>2, Begun, Acted
  <2> QED
    BY <1>2, <1>8, <2>1, <2>2 DEF NextStep
<1>9. CASE ConfirmSave
  <2>1. PICK w, arg : arg # "next" /\ Acts("page", NewCall("wallet", w, arg, "none"))
    BY <1>9 DEF ConfirmSave
  <2> QED
    BY <1>1, <2>1
<1>10. ASSUME NEW w \in Wallets, AddWallet(w) \/ SetDefault(w) PROVE IInv'
  BY <1>1, <1>10 DEF AddWallet, SetDefault
<1> QED
  BY <1>3, <1>4, <1>5, <1>7, <1>8, <1>9, <1>10

\* The rest of what a buyer does to the page.
LEMMA TabMoves ==
  ASSUME IInv,
         \/ SwitchMode \/ WithGoogle \/ EditSlug \/ StepBack \/ Reconsider \/ CancelArchive \/ Archive
         \/ (\E w \in Wallets : Consider(w) \/ AskArchive(w))
         \/ Logout \/ Focus \/ \E p \in world.pages : Open(p)
  PROVE  IInv'
<1>0. Laid(tab)
  BY Standing
<1>1. CASE SwitchMode
  BY <1>0, <1>1, Settles DEF SwitchMode, Touched, Laid, TabFields
<1>2. CASE WithGoogle
  <2> DEFINE k == [Plain("google") EXCEPT !.live = FALSE]
  <2>1. Shaped(k) /\ k.op = "google"
    BY DEF Plain, NewCall, Shaped, CallFields
  <2>2. Earned(k)
    BY <2>1 DEF Earned
  <2>3. \A c \in Left(calls) : Shaped(c) /\ Earned(c)
    BY Left_Earned, Standing
  <2>4. Laid(NewTab("home")) /\ NewTab("home").step = 0
    BY DEF NewTab, Laid, TabFields
  <2>5. UNCHANGED server /\ tab' = NewTab("home") /\ calls' = Left(calls) \cup {k}
    BY <1>2 DEF WithGoogle
  <2> HIDE DEF k
  <2>6. TabInv'
    BY <2>4, <2>5 DEF TabInv, Laid
  <2> QED
    BY <2>1, <2>2, <2>3, <2>5, <2>6, PageMoves
<1>3. CASE EditSlug
  <2>1. PICK name, op : Clicks([tab EXCEPT !.slug = name], Plain(op))
    BY <1>3 DEF EditSlug
  <2> DEFINE update == [tab EXCEPT !.slug = name]
  <2>2. Laid(update) /\ update.page = tab.page /\ update.step = tab.step
    BY <1>0 DEF Laid, TabFields
  <2>3. Shaped(Plain(op)) /\ Earned(Plain(op))
    BY Begun DEF Plain
  <2> HIDE DEF update
  <2> QED
    BY <2>1, <2>2, <2>3, Asked DEF update
<1>4. CASE StepBack \/ Reconsider \/ CancelArchive
  BY <1>0, <1>4, Settles DEF StepBack, Reconsider, CancelArchive, Touched, Laid, TabFields
<1>5. CASE Archive
  <2> DEFINE update == [tab EXCEPT !.busy = @ \cup {"page"}]
             k == [NewCall("archive", tab.doomed, "none", "none") EXCEPT !.own = "page"]
  <2>1. Laid(update) /\ update.page = tab.page /\ update.step = tab.step
    BY <1>0 DEF Laid, TabFields
  <2>2. Shaped(k) /\ k.op = "archive"
    BY DEF NewCall, Shaped, CallFields
  <2>3. Clicks(update, k)
    BY <1>5 DEF Archive
  <2> HIDE DEF update, k
  <2>4. Earned(k)
    BY <2>2 DEF Earned
  <2> QED
    BY <2>1, <2>2, <2>3, <2>4, Asked
<1>6. ASSUME NEW w \in Wallets, Consider(w) \/ AskArchive(w) PROVE IInv'
  BY <1>0, <1>6, Settles DEF Consider, AskArchive, Touched, Laid, TabFields
<1>7. CASE Logout \/ Focus
  <2>1. PICK op, arg : arg # "next" /\ Clicks(tab, NewCall(op, None, arg, "none"))
    BY <1>7 DEF Logout, Focus, Plain
  <2> QED
    BY <1>0, <2>1, Begun, Asked
<1>8. ASSUME NEW p \in world.pages, Open(p) PROVE IInv'
  BY <1>8, Opened DEF Open
<1> QED
  BY <1>1, <1>2, <1>3, <1>4, <1>5, <1>6, <1>7, <1>8

LEMMA Inductive == IInv /\ [Next]_vars => IInv'
<1> SUFFICES ASSUME IInv, [Next]_vars PROVE IInv'
  OBVIOUS
<1>1. CASE UNCHANGED vars
  BY <1>1, Standing, Settles DEF vars, Touched
<1>2. ASSUME NEW c \in calls, Answer(c) PROVE IInv'
  BY <1>2, PeopleMove, ShopMoves, TelegramMoves DEF Answer
<1> QED
  BY <1>1, <1>2, Delivered, Failed, OthersMove, ButtonsMove, TabMoves DEF Next

-----------------------------------------------------------------------------
\* However handlers overlap, the addresses that orders were priced at keep
\* their records, and so does a shop that was opened (handleDeleteWallet,
\* handleCreateWallet, handlePatchWallet, handleCompleteOnboarding).
THEOREM RecordsStay == Spec => []RecordsKept
<1>1. Spec => []IInv
  BY InitIInv, Inductive, PTL DEF Spec
<1> QED
  BY <1>1, Promised, PTL

\* However answers fail or are cut off, nobody opens a shop, or gets to its
\* wallets, under a name the site keeps (handlePatchMerchant, onNext).
THEOREM NamedFirst == Spec => []NamedBeforeOpen
<1>1. Spec => []IInv
  BY InitIInv, Inductive, PTL DEF Spec
<1> QED
  BY <1>1, Promised, PTL

\* Whatever chats press Start and Telegram delivers again, one link connects
\* one chat (handleTelegramWebhook).
THEOREM OneChatPerLink == Spec => []LinkConnectsOnce
<1>1. Spec => []IInv
  BY InitIInv, Inductive, PTL DEF Spec
<1> QED
  BY <1>1, Promised, PTL

-----------------------------------------------------------------------------
\* One-time codes: the checks under way, and those that have read the code.
CheckOps       == {"verify", "otpreg"}
Checks(cs)     == {c \in cs : c.op \in CheckOps}
Reading(cs, p) == {c \in Checks(cs) : c.stage = "read" /\ Purpose(c) = p}

\* There are never more checks than calls may be started, ...
Few == IsFiniteSet(calls) /\ Cardinality(Checks(calls)) <= MaxCalls

\* ... and the tries on the books, with those of the checks that have read
\* them, stay below the limit with all checks on top.
Tallied ==
  \A p \in Purposes :
    code[p].tries + Cardinality(Reading(calls, p)) < MaxAttempts + MaxCalls

CodesOK == code \in [Purposes -> [no: Nat, tries: Nat, dead: BOOLEAN]]

GInv == Few /\ CodesOK /\ Tallied

-----------------------------------------------------------------------------
\* A set that is covered by the image of a finite one is no larger.
LEMMA Covered ==
  ASSUME NEW S, IsFiniteSet(S), NEW f, NEW T, T \subseteq {f[x] : x \in S}
  PROVE  IsFiniteSet(T) /\ Cardinality(T) <= Cardinality(S)
<1> DEFINE I == {f[x] : x \in S}
           g == [x \in S |-> f[x]]
<1>1. g \in Surjection(S, I)
  BY DEF Surjection
<1>2. IsFiniteSet(I) /\ Cardinality(I) <= Cardinality(S)
  BY <1>1, FS_Surjection
<1>3. IsFiniteSet(T) /\ Cardinality(T) <= Cardinality(I)
  BY <1>2, FS_Subset
<1>4. Cardinality(S) \in Nat /\ Cardinality(I) \in Nat /\ Cardinality(T) \in Nat
  BY <1>2, <1>3, FS_CardinalityType
<1> QED
  BY <1>2, <1>3, <1>4

\* Checks are finitely many.
LEMMA Countable ==
  ASSUME NEW cs, IsFiniteSet(cs), NEW p
  PROVE  /\ IsFiniteSet(Checks(cs)) /\ Cardinality(Checks(cs)) \in Nat
         /\ IsFiniteSet(Reading(cs, p)) /\ Cardinality(Reading(cs, p)) \in Nat
         /\ Cardinality(Reading(cs, p)) <= Cardinality(Checks(cs))
<1>1. Checks(cs) \subseteq cs /\ Reading(cs, p) \subseteq Checks(cs)
  BY DEF Checks, Reading
<1>2. IsFiniteSet(Checks(cs))
  BY <1>1, FS_Subset
<1> QED
  BY <1>1, <1>2, FS_Subset, FS_CardinalityType

\* A step that turns each call into at most one, and adds none that check a
\* code, leaves no more checks than there were, ...
LEMMA ChecksKept ==
  ASSUME Few, NEW f, NEW N, IsFiniteSet(N), \A k \in N : k.op \notin CheckOps,
         calls' \subseteq {f[c] : c \in calls} \cup N,
         \A c \in calls : f[c].op \in CheckOps => c.op \in CheckOps
  PROVE  Few'
<1>1. Checks(calls)' \subseteq {f[c] : c \in Checks(calls)}
  BY DEF Checks
<1>2. IsFiniteSet({f[c] : c \in calls})
  BY Covered DEF Few
<1>3. IsFiniteSet(calls')
  BY <1>2, FS_Union, FS_Subset
<1>4. Cardinality(Checks(calls))' <= Cardinality(Checks(calls))
  BY <1>1, Countable, Covered DEF Few
<1>5. Cardinality(Checks(calls)) \in Nat /\ Cardinality(Checks(calls))' \in Nat
  BY <1>3, Countable DEF Few
<1> QED
  BY <1>3, <1>4, <1>5, ConstantsAssumption DEF Few

\* ... nor, if none of them goes on to read, more that have read.
LEMMA ReadingKept ==
  ASSUME Few, NEW f, NEW N, \A k \in N : k.op \notin CheckOps,
         calls' \subseteq {f[c] : c \in calls} \cup N, NEW p,
         \A c \in calls : f[c].op \in CheckOps /\ f[c].stage = "read" =>
           c.op \in CheckOps /\ c.stage = "read" /\ Purpose(f[c]) = Purpose(c)
  PROVE  Cardinality(Reading(calls, p))' <= Cardinality(Reading(calls, p))
<1>1. Reading(calls, p)' \subseteq {f[c] : c \in Reading(calls, p)}
  BY DEF Reading, Checks
<1> QED
  BY <1>1, Countable, Covered DEF Few

\* Both, ...
LEMMA CallsKept ==
  ASSUME Few, NEW f, NEW N, IsFiniteSet(N), \A k \in N : k.op \notin CheckOps,
         calls' \subseteq {f[c] : c \in calls} \cup N,
         \A c \in calls : f[c].op \in CheckOps =>
           /\ c.op \in CheckOps
           /\ f[c].stage = "read" => c.stage = "read" /\ Purpose(f[c]) = Purpose(c)
  PROVE  Few' /\ \A p : Cardinality(Reading(calls, p))' <= Cardinality(Reading(calls, p))
<1>1. Few'
  BY ChecksKept
<1>2. ASSUME NEW p PROVE Cardinality(Reading(calls, p))' <= Cardinality(Reading(calls, p))
  BY ReadingKept
<1> QED
  BY <1>1, <1>2

\* ... and so the tally stands while the codes do.
LEMMA Stands ==
  ASSUME GInv, code' = code, Few',
         \A p : Cardinality(Reading(calls, p))' <= Cardinality(Reading(calls, p))
  PROVE  GInv'
<1>1. ASSUME NEW p \in Purposes
      PROVE  code'[p].tries + Cardinality(Reading(calls, p))' < MaxAttempts + MaxCalls
  <2>1. Cardinality(Reading(calls, p))' <= Cardinality(Reading(calls, p))
    OBVIOUS
  <2>2. Cardinality(Reading(calls, p)) \in Nat /\ Cardinality(Reading(calls, p))' \in Nat
    BY Countable DEF GInv, Few
  <2>3. code[p].tries \in Nat /\ code[p].tries + Cardinality(Reading(calls, p)) < MaxAttempts + MaxCalls
    BY DEF GInv, CodesOK, Tallied
  <2> QED
    BY <2>1, <2>2, <2>3, ConstantsAssumption
<1>2. CodesOK'
  BY DEF GInv, CodesOK
<1> QED
  BY <1>1, <1>2 DEF GInv, Tallied

\* Calls that go, and others that check no code.
LEMMA Less ==
  ASSUME GInv, code' = code, NEW N, IsFiniteSet(N), \A k \in N : k.op \notin CheckOps,
         calls' \subseteq calls \cup N
  PROVE  GInv'
<1> DEFINE f == [c \in calls |-> c]
<1>1. calls' \subseteq {f[c] : c \in calls} \cup N /\ \A c \in calls : f[c] = c
  OBVIOUS
<1> HIDE DEF f
<1> QED
  BY <1>1, CallsKept, Stands DEF GInv

\* A call that becomes another, which does not go on to read a code.
LEMMA Becomes ==
  ASSUME Few, NEW c \in calls, NEW k, calls' \subseteq (calls \ {c}) \cup {k},
         k.op \in CheckOps => c.op \in CheckOps /\ k.stage # "read"
  PROVE  Few' /\ \A p : Cardinality(Reading(calls, p))' <= Cardinality(Reading(calls, p))
<1> DEFINE f == [d \in calls |-> IF d = c THEN k ELSE d]
<1>1. calls' \subseteq {f[d] : d \in calls} \cup {}
  <2>1. f[c] = k /\ \A d \in calls \ {c} : f[d] = d
    OBVIOUS
  <2> QED
    BY <2>1
<1>2. \A d \in calls : f[d].op \in CheckOps =>
        /\ d.op \in CheckOps
        /\ f[d].stage = "read" => d.stage = "read" /\ Purpose(f[d]) = Purpose(d)
  OBVIOUS
<1> HIDE DEF f
<1> QED
  BY <1>1, <1>2, CallsKept, FS_EmptySet

\* What a call that is left behind does is what it did before.
LEMMA Same ==
  ASSUME NEW c, Shaped(c)
  PROVE  /\ Ignored(c).op = c.op /\ Ignored(c).stage = c.stage
         /\ Purpose(Ignored(c)) = Purpose(c)
<1>1. Ignored(c).op = c.op /\ Ignored(c).stage = c.stage /\ Ignored(c).arg = c.arg
  BY DEF Ignored, Shaped, CallFields
<1> QED
  BY <1>1 DEF Purpose

LEMMA LeftAre == ASSUME NEW cs, NEW k \in Left(cs) PROVE \E c \in cs : k = Ignored(c)
BY DEF Left

\* A page that is left, with the calls another one starts.
LEMMA Departs ==
  ASSUME IInv, GInv, code' = code, NEW cs, cs \subseteq calls,
         NEW N, IsFiniteSet(N), \A k \in N : k.op \notin CheckOps, calls' \subseteq Left(cs) \cup N
  PROVE  GInv'
<1> DEFINE f == [c \in calls |-> Ignored(c)]
<1>1. calls' \subseteq {f[c] : c \in calls} \cup N
  BY LeftAre
<1>2. \A c \in calls : f[c] = Ignored(c) /\ Shaped(c)
  BY Standing
<1> HIDE DEF f
<1> QED
  BY <1>1, <1>2, Same, CallsKept, Stands DEF GInv

\* A call that fails, and may get to the server all the same.
LEMMA FailsStep == ASSUME IInv, GInv, NEW c \in calls, Fail(c) PROVE GInv'
<1> DEFINE f == [d \in calls |-> IF d = c THEN Ignored(c) ELSE d]
<1>1. calls' \subseteq (calls \ {c}) \cup Left({c}) /\ code' = code
  BY DEF Fail, Goes, server, people
<1>2. calls' \subseteq {f[d] : d \in calls} \cup {}
  <2>1. f[c] = Ignored(c) /\ \A d \in calls \ {c} : f[d] = d
    OBVIOUS
  <2>2. \A k \in Left({c}) : k = Ignored(c)
    BY LeftAre
  <2> QED
    BY <1>1, <2>1, <2>2
<1>3. \A d \in calls : f[d] = d \/ (f[d] = Ignored(d) /\ Shaped(d))
  BY Standing
<1> HIDE DEF f
<1> QED
  BY <1>1, <1>2, <1>3, Same, CallsKept, Stands, FS_EmptySet DEF GInv

\* There is room for a call that starts, whatever it is.
LEMMA Starts ==
  ASSUME GInv, code' = code, Room, NEW k, k.stage # "read", calls' = calls \cup {k}
  PROVE  GInv'
<1>1. IsFiniteSet(calls') /\ Cardinality(calls') <= Cardinality(calls) + 1 /\ Cardinality(calls) \in Nat
  <2>1. IsFiniteSet(calls) /\ Cardinality(calls) \in Nat
    BY FS_CardinalityType DEF GInv, Few
  <2>2. /\ IsFiniteSet(calls \cup {k})
        /\ Cardinality(calls \cup {k}) = IF k \in calls THEN Cardinality(calls) ELSE Cardinality(calls) + 1
    BY <2>1, FS_AddElement
  <2> QED
    BY <2>1, <2>2
<1>2. Cardinality(Checks(calls))' <= Cardinality(calls')
  <2>1. Checks(calls)' \subseteq calls'
    BY DEF Checks
  <2> QED
    BY <1>1, <2>1, FS_Subset
<1>3. Cardinality(calls') \in Nat /\ Cardinality(Checks(calls))' \in Nat
  BY <1>1, FS_CardinalityType, Countable
<1>4. Few'
  BY <1>1, <1>2, <1>3, ConstantsAssumption DEF Few, Room
<1>5. \A p : Reading(calls, p)' = Reading(calls, p)
  BY DEF Reading, Checks
<1>6. CodesOK' /\ Tallied'
  BY <1>5 DEF GInv, CodesOK, Tallied
<1> QED
  BY <1>4, <1>6 DEF GInv

-----------------------------------------------------------------------------
\* Service.Send: a new code has been tried by nobody.
LEMMA SendStep == ASSUME IInv, GInv, NEW c \in calls, AnswerSend(c) PROVE GInv'
<1>0. Handles(c)
  BY DEF AnswerSend, Handles
<1>1. PICK k : Moved(c, k) /\ calls' \subseteq (calls \ {c}) \cup {k}
  BY <1>0, Handled, Standing
<1>2. c.op = "send" /\ k.op = "send"
  BY <1>1 DEF AnswerSend, Moved
<1>3. Few' /\ \A p : Cardinality(Reading(calls, p))' <= Cardinality(Reading(calls, p))
  BY <1>1, <1>2, Becomes DEF GInv, CheckOps
<1>4. PICK n \in Nat : c.arg \in Purposes => n = code[c.arg].no + 1
  BY DEF GInv, CodesOK
<1>5. PICK new \in [no: Nat, tries: {0}, dead: BOOLEAN] :
        c.arg \in Purposes => new = [NoCode EXCEPT !.no = code[c.arg].no + 1]
  <2>1. [NoCode EXCEPT !.no = n] \in [no: Nat, tries: {0}, dead: BOOLEAN]
    BY DEF NoCode
  <2>2. c.arg \in Purposes => [NoCode EXCEPT !.no = n] = [NoCode EXCEPT !.no = code[c.arg].no + 1]
    BY <1>4, Zenon
  <2> DEFINE some == [NoCode EXCEPT !.no = n]
             next == [NoCode EXCEPT !.no = code[c.arg].no + 1]
  <2> HIDE DEF some, next
  <2>3. some \in [no: Nat, tries: {0}, dead: BOOLEAN] /\ (c.arg \in Purposes => some = next)
    BY <2>1, <2>2 DEF some, next
  <2>4. \E new \in [no: Nat, tries: {0}, dead: BOOLEAN] : c.arg \in Purposes => new = next
    BY <2>3
  <2> QED
    BY <2>4 DEF next
<1>6. CodesOK' /\ \A p \in Purposes : code'[p].tries = 0 \/ code'[p] = code[p]
  <2>1. code \in [Purposes -> [no: Nat, tries: Nat, dead: BOOLEAN]]
    BY DEF GInv, CodesOK
  <2>2. new \in [no: Nat, tries: Nat, dead: BOOLEAN] /\ new.tries = 0
    OBVIOUS
  <2>3. code' = [code EXCEPT ![c.arg] = [NoCode EXCEPT !.no = code[c.arg].no + 1]]
    BY DEF AnswerSend
  <2>4. CASE c.arg \in Purposes
    <3>1. code' = [code EXCEPT ![c.arg] = new]
      BY <1>5, <2>3, <2>4
    <3> QED
      BY <2>1, <2>2, <2>4, <3>1 DEF CodesOK
  <2>5. CASE c.arg \notin Purposes
    <3> DEFINE any == [NoCode EXCEPT !.no = code[c.arg].no + 1]
    <3>1. code' = [code EXCEPT ![c.arg] = any]
      BY <2>3
    <3> HIDE DEF any
    <3>2. code' = code
      BY <2>1, <2>5, <3>1
    <3> QED
      BY <2>1, <3>2 DEF CodesOK
  <2> QED
    BY <2>4, <2>5
<1>7. ASSUME NEW p \in Purposes
      PROVE  code'[p].tries + Cardinality(Reading(calls, p))' < MaxAttempts + MaxCalls
  <2>1. /\ Cardinality(Reading(calls, p)) \in Nat /\ Cardinality(Reading(calls, p))' \in Nat
        /\ Cardinality(Reading(calls, p))' <= Cardinality(Checks(calls))'
        /\ Cardinality(Checks(calls))' \in Nat
    BY <1>3, Countable DEF GInv, Few
  <2>2. CASE code'[p].tries = 0
    BY <1>3, <2>1, <2>2, ConstantsAssumption DEF Few
  <2>3. CASE code'[p] = code[p]
    <3>1. code[p].tries \in Nat /\ code[p].tries + Cardinality(Reading(calls, p)) < MaxAttempts + MaxCalls
      BY DEF GInv, CodesOK, Tallied
    <3> QED
      BY <1>3, <2>1, <2>3, <3>1, ConstantsAssumption
  <2> QED
    BY <1>6, <2>2, <2>3
<1> QED
  BY <1>3, <1>6, <1>7 DEF GInv, Tallied

\* Service.Verify reads a count that is below the limit.
LEMMA ReadStep == ASSUME IInv, GInv, NEW c \in calls, ReadCode(c) PROVE GInv'
<1> DEFINE p == Purpose(c)
<1>1. PICK k : k = [c EXCEPT !.stage = "read", !.no = code[p].no]
  OBVIOUS
<1>2. /\ c.op \in CheckOps /\ code' = code /\ code[p].tries < MaxAttempts
      /\ calls' \subseteq (calls \ {c}) \cup {k}
  BY <1>1 DEF ReadCode, CheckOps, Goes, server, people
<1>3. k.op = c.op /\ k.arg = c.arg /\ Purpose(k) = p
  <2>1. k.op = c.op /\ k.arg = c.arg
    BY <1>1, Standing DEF Shaped, CallFields
  <2> QED
    BY <2>1 DEF Purpose
<1> HIDE DEF p
<1>4. Few'
  <2> DEFINE f == [d \in calls |-> IF d = c THEN k ELSE d]
  <2>1. f[c] = k /\ \A d \in calls \ {c} : f[d] = d
    OBVIOUS
  <2>2. calls' \subseteq {f[d] : d \in calls} \cup {}
    BY <1>2, <2>1
  <2>3. \A d \in calls : f[d].op \in CheckOps => d.op \in CheckOps
    BY <1>2, <2>1
  <2> HIDE DEF f
  <2> QED
    BY <2>2, <2>3, ChecksKept, FS_EmptySet DEF GInv
<1>5. ASSUME NEW q \in Purposes
      PROVE  code'[q].tries + Cardinality(Reading(calls, q))' < MaxAttempts + MaxCalls
  <2>1. /\ Cardinality(Reading(calls, q)) \in Nat /\ Cardinality(Reading(calls, q))' \in Nat
        /\ Cardinality(Reading(calls, q))' <= Cardinality(Checks(calls))'
        /\ Cardinality(Checks(calls))' \in Nat
    BY <1>4, Countable DEF GInv, Few
  <2>2. code[q].tries \in Nat /\ code[q].tries + Cardinality(Reading(calls, q)) < MaxAttempts + MaxCalls
    BY DEF GInv, CodesOK, Tallied
  <2>3. CASE q = p
    BY <1>2, <1>4, <2>1, <2>2, <2>3, ConstantsAssumption DEF Few
  <2>4. CASE q # p
    <3>1. Reading(calls, q)' \subseteq Reading(calls, q)
      BY <1>2, <1>3, <2>4 DEF Reading, Checks
    <3>2. Cardinality(Reading(calls, q))' <= Cardinality(Reading(calls, q))
      BY <3>1, Countable, FS_Subset DEF GInv, Few
    <3> QED
      BY <1>2, <2>1, <2>2, <3>2, ConstantsAssumption
  <2> QED
    BY <2>3, <2>4
<1> QED
  BY <1>2, <1>4, <1>5 DEF GInv, CodesOK, Tallied

\* Service.Verify counts a wrong try once: its call has read, and reads no more.
LEMMA WriteStep == ASSUME IInv, GInv, NEW c \in calls, WriteCode(c) PROVE GInv'
<1> DEFINE p == Purpose(c)
<1>1. c.op \in CheckOps /\ c.stage = "read"
  BY DEF WriteCode, CheckOps
<1>2. PICK k : k.op = c.op /\ k.stage # "read" /\ calls' \subseteq (calls \ {c}) \cup {k}
  <2>1. Shaped(c)
    BY Standing
  <2>2. CASE Refused(c)
    <3>1. [c EXCEPT !.stage = "refused"].op = c.op /\ [c EXCEPT !.stage = "refused"].stage = "refused"
      BY <2>1 DEF Shaped, CallFields
    <3> QED
      BY <2>2, <3>1 DEF Refused, Goes
  <2>3. CASE At(c, "checked")
    <3>1. [c EXCEPT !.stage = "checked"].op = c.op /\ [c EXCEPT !.stage = "checked"].stage = "checked"
      BY <2>1 DEF Shaped, CallFields
    <3> QED
      BY <2>3, <3>1 DEF At, Goes
  <2>4. CASE Answered(c, {})
    <3> DEFINE k == [c EXCEPT !.stage = "answered", !.answer = {}]
    <3>1. k.op = c.op /\ k.stage = "answered"
      BY <2>1 DEF Shaped, CallFields
    <3>2. calls' \subseteq (calls \ {c}) \cup {k}
      BY <2>4 DEF Answered, Goes
    <3> HIDE DEF k
    <3> QED
      BY <3>1, <3>2
  <2> QED
    BY <2>2, <2>3, <2>4 DEF WriteCode
<1>3. Few'
  BY <1>1, <1>2, Becomes DEF GInv
<1>4. \A q \in Purposes : /\ (code'[q].tries = code[q].tries \/ (q = p /\ code'[q].tries = code[q].tries + 1))
                          /\ code'[q] \in [no: Nat, tries: Nat, dead: BOOLEAN]
  <2>1. code \in [Purposes -> [no: Nat, tries: Nat, dead: BOOLEAN]]
    BY DEF GInv, CodesOK
  <2>2. \/ code' = code \/ code' = [code EXCEPT ![p].dead = TRUE]
        \/ code' = [code EXCEPT ![p].tries = @ + 1]
    BY DEF WriteCode
  <2> HIDE DEF p
  <2>3. CASE code' = code
    BY <2>1, <2>3
  <2>4. CASE code' = [code EXCEPT ![p].dead = TRUE]
    BY <2>1, <2>4
  <2>5. CASE code' = [code EXCEPT ![p].tries = @ + 1]
    BY <2>1, <2>5
  <2> QED
    BY <2>2, <2>3, <2>4, <2>5
<1>5. CodesOK'
  <2>1. code' = [q \in Purposes |-> code'[q]]
    BY DEF WriteCode, GInv, CodesOK
  <2> QED
    BY <1>4, <2>1 DEF CodesOK
<1>6. ASSUME NEW q \in Purposes
      PROVE  code'[q].tries + Cardinality(Reading(calls, q))' < MaxAttempts + MaxCalls
  <2>1. /\ IsFiniteSet(Reading(calls, q)) /\ Cardinality(Reading(calls, q)) \in Nat
        /\ Cardinality(Reading(calls, q))' \in Nat
    BY <1>3, Countable DEF GInv, Few
  <2>2. code[q].tries \in Nat /\ code[q].tries + Cardinality(Reading(calls, q)) < MaxAttempts + MaxCalls
    BY DEF GInv, CodesOK, Tallied
  <2>3. Reading(calls, q)' \subseteq Reading(calls, q) \ {c}
    BY <1>2 DEF Reading, Checks
  <2>4. /\ Cardinality(Reading(calls, q))' <= Cardinality(Reading(calls, q) \ {c})
        /\ Cardinality(Reading(calls, q) \ {c}) \in Nat
    BY <2>1, <2>3, FS_RemoveElement, FS_Subset, FS_CardinalityType
  <2>5. Cardinality(Reading(calls, q) \ {c}) =
          IF c \in Reading(calls, q) THEN Cardinality(Reading(calls, q)) - 1 ELSE Cardinality(Reading(calls, q))
    BY <2>1, FS_RemoveElement
  <2>6. q = p => c \in Reading(calls, q)
    BY <1>1 DEF Reading, Checks
  <2> HIDE DEF p
  <2>7. code'[q].tries = code[q].tries \/ (q = p /\ code'[q].tries = code[q].tries + 1)
    BY <1>4
  <2> QED
    BY <2>1, <2>2, <2>4, <2>5, <2>6, <2>7, ConstantsAssumption
<1> QED
  BY <1>3, <1>5, <1>6 DEF GInv, Tallied

\* The other handlers read and count no codes.
LEMMA QuietStep ==
  ASSUME IInv, GInv, NEW c \in calls, code' = code, Handles(c), c.op \notin CheckOps
  PROVE  GInv'
<1>1. PICK k : Moved(c, k) /\ calls' \subseteq (calls \ {c}) \cup {k}
  BY Handled, Standing
<1> QED
  BY <1>1, Becomes, Stands DEF GInv, Moved

\* Registering with a phone goes on once the code was right.
LEMMA MakerStep == ASSUME IInv, GInv, NEW c \in calls, MakeUser(c) \/ MakeMerchant(c) PROVE GInv'
<1>1. code' = code /\ (At(c, "made") \/ Answered(c, {}) \/ Refused(c))
  BY DEF MakeUser, MakeMerchant
<1>2. PICK k : k.op = c.op /\ k.stage # "read" /\ calls' \subseteq (calls \ {c}) \cup {k}
  <2>1. Shaped(c)
    BY Standing
  <2>2. CASE At(c, "made")
    <3>1. [c EXCEPT !.stage = "made"].op = c.op /\ [c EXCEPT !.stage = "made"].stage = "made"
      BY <2>1 DEF Shaped, CallFields
    <3> QED
      BY <2>2, <3>1 DEF At, Goes
  <2>3. CASE Answered(c, {})
    <3> DEFINE k == [c EXCEPT !.stage = "answered", !.answer = {}]
    <3>1. k.op = c.op /\ k.stage = "answered"
      BY <2>1 DEF Shaped, CallFields
    <3>2. calls' \subseteq (calls \ {c}) \cup {k}
      BY <2>3 DEF Answered, Goes
    <3> HIDE DEF k
    <3> QED
      BY <3>1, <3>2
  <2>4. CASE Refused(c)
    <3> DEFINE k == [c EXCEPT !.stage = "refused"]
    <3>1. k.op = c.op /\ k.stage = "refused"
      BY <2>1 DEF Shaped, CallFields
    <3>2. calls' \subseteq (calls \ {c}) \cup {k}
      BY <2>4 DEF Refused, Goes
    <3> HIDE DEF k
    <3> QED
      BY <3>1, <3>2
  <2> QED
    BY <1>1, <2>2, <2>3, <2>4
<1> QED
  BY <1>1, <1>2, Becomes, Stands DEF GInv

\* Those that sign in or out, read, or keep the shop and its chat.
LEMMA OtherSteps ==
  ASSUME IInv, GInv, NEW c \in calls,
         \/ AnswerLogin(c) \/ AnswerLogout(c) \/ AnswerRead(c) \/ AnswerMerchant(c)
         \/ ReadComplete(c) \/ WriteComplete(c) \/ TakeDefault(c) \/ WriteWallet(c)
         \/ ReadArchive(c) \/ WriteArchive(c) \/ AnswerLink(c) \/ AnswerDisconnect(c)
         \/ ReadStart(c) \/ Connect(c) \/ Redeliver(c)
  PROVE  GInv'
<1>1. ASSUME \/ (\E facts : Answered(c, facts)) \/ Refused(c) \/ \E stage : At(c, stage),
             code' = code, c.op \notin CheckOps
      PROVE  GInv'
  <2>1. Handles(c)
    BY <1>1 DEF Handles
  <2> QED
    BY <1>1, <2>1, QuietStep
<1>2. CASE AnswerLogin(c) \/ AnswerLogout(c)
  BY <1>1, <1>2 DEF AnswerLogin, AnswerLogout, CheckOps
<1>3. CASE AnswerRead(c)
  <2>1. \E facts : Answered(c, facts)
    BY <1>3 DEF AnswerRead
  <2>2. code' = code /\ c.op \notin CheckOps
    BY <1>3 DEF AnswerRead, CheckOps, Reads, server, people
  <2> QED
    BY <1>1, <2>1, <2>2
<1>4. CASE AnswerMerchant(c) \/ ReadComplete(c) \/ WriteComplete(c)
  BY <1>1, <1>4 DEF AnswerMerchant, ReadComplete, WriteComplete, CheckOps, server, people
<1>5. CASE TakeDefault(c) \/ WriteWallet(c)
  BY <1>1, <1>5 DEF TakeDefault, WriteWallet, CheckOps, people
<1>6. CASE ReadArchive(c) \/ WriteArchive(c)
  BY <1>1, <1>6 DEF ReadArchive, WriteArchive, CheckOps, server, people
<1>7. CASE AnswerLink(c) \/ AnswerDisconnect(c)
  BY <1>1, <1>7 DEF AnswerLink, AnswerDisconnect, CheckOps, people
<1>8. CASE ReadStart(c) \/ Connect(c) \/ Redeliver(c)
  BY <1>1, <1>8 DEF ReadStart, Connect, Redeliver, CheckOps, server, people
<1> QED
  BY <1>2, <1>3, <1>4, <1>5, <1>6, <1>7, <1>8

-----------------------------------------------------------------------------
\* A call that follows another, and checks no code.
LEMMA FollowedStep ==
  ASSUME GInv, code' = code, NEW c \in calls, NEW op, op \notin CheckOps, NEW of, NEW arg, NEW own,
         calls' = Goes(c, {NewCall(op, of, arg, own)})
  PROVE  GInv'
<1> DEFINE k == NewCall(op, of, arg, own)
<1>1. k.op = op
  BY DEF NewCall
<1>2. calls' \subseteq calls \cup {k}
  BY DEF Goes
<1> HIDE DEF k
<1>3. IsFiniteSet({k})
  BY FS_Singleton
<1> QED
  BY <1>1, <1>2, <1>3, Less

\* A page's first render checks no code.
LEMMA FirstCallsAre == ASSUME NEW p PROVE IsFiniteSet(FirstCalls(p)) /\ \A k \in FirstCalls(p) : k.op \notin CheckOps
<1> DEFINE ops == CASE p \in {"login", "register"} -> {"providers"}
                    [] p \in {"onboarding", "wallets"} -> {p}
                    [] p \in {"settings", "store"} -> {"me"}
                    [] p = "notify" -> {"me", "ig", "prefs"}
                    [] p = "questions" -> {"defaults"}
                    [] OTHER -> {}
           all == {"providers"} \cup {"onboarding"} \cup {"wallets"} \cup {"me"} \cup {"ig"}
                    \cup {"prefs"} \cup {"defaults"}
           f == [op \in all |-> Plain(op)]
<1>1. ops \subseteq all
  OBVIOUS
<1>2. IsFiniteSet(all)
  BY FS_Singleton, FS_Union
<1>3. FirstCalls(p) = {Plain(op) : op \in ops}
  BY DEF FirstCalls
<1> HIDE DEF ops
<1>4. FirstCalls(p) \subseteq {f[op] : op \in all}
  BY <1>1, <1>3
<1>5. IsFiniteSet(FirstCalls(p))
  BY <1>2, <1>4, Covered
<1>6. \A op \in all : Plain(op).op = op /\ op \notin CheckOps
  BY DEF Plain, NewCall, CheckOps
<1> QED
  BY <1>1, <1>3, <1>5, <1>6

LEMMA GoesStep == ASSUME IInv, GInv, code' = code, NEW c, NEW p, Go(p, c) PROVE GInv'
BY FirstCallsAre, Departs DEF Go

LEMMA StillStep == ASSUME GInv, code' = code, NEW c, calls' \subseteq calls \ {c} PROVE GInv'
BY Less, FS_EmptySet

\* A registration goes on from a check that was right to the call that
\* registers, which checks the same code.
LEMMA RegistersStep == ASSUME IInv, GInv, code' = code, NEW c \in calls, CodeRegisters(c) PROVE GInv'
<1>1. CASE c.op = "otpreg" /\ Go("onboarding", c)
  BY <1>1, GoesStep
<1>2. CASE c.op = "verify" /\ calls' = Goes(c, {[NewCall("otpreg", None, "none", c.own) EXCEPT !.guess = c.guess]})
  <2> DEFINE k == [NewCall("otpreg", None, "none", c.own) EXCEPT !.guess = c.guess]
  <2>1. k.stage = "sent"
    BY DEF NewCall
  <2>2. calls' \subseteq (calls \ {c}) \cup {k}
    BY <1>2 DEF Goes
  <2> HIDE DEF k
  <2>3. c.op \in CheckOps
    BY <1>2 DEF CheckOps
  <2>4. Few' /\ \A p : Cardinality(Reading(calls, p))' <= Cardinality(Reading(calls, p))
    BY <2>1, <2>2, <2>3, Becomes DEF GInv
  <2> QED
    BY <2>4, Stands
<1> QED
  BY <1>1, <1>2 DEF CodeRegisters

\* What an answer does starts no other check.
LEMMA DeliversStep == ASSUME IInv, GInv, NEW c \in calls, Deliver(c) PROVE GInv'
<1>0. code' = code
  BY DEF Deliver, server, people
<1>1. ASSUME NEW p, Go(p, c) PROVE GInv'
  BY <1>0, <1>1, GoesStep
<1>2. ASSUME NEW update, Still(c, update) PROVE GInv'
  BY <1>0, <1>2, StillStep DEF Still
<1>3. ASSUME NEW op, op \notin CheckOps, NEW of, NEW arg, NEW own, calls' = Goes(c, {NewCall(op, of, arg, own)})
      PROVE  GInv'
  BY <1>0, <1>3, FollowedStep
<1>4. CASE LoginProviders(c) \/ RegisterProviders(c) \/ LoginCodeSent(c) \/ RegisterCodeSent(c)
  BY <1>2, <1>4 DEF LoginProviders, RegisterProviders, LoginCodeSent, RegisterCodeSent
<1>5. CASE LoggedIn(c) \/ CodeLogsIn(c) \/ Registered(c) \/ LoggedOut(c)
  BY <1>1, <1>5 DEF LoggedIn, CodeLogsIn, Registered, LoggedOut
<1>6. CASE CodeRegisters(c)
  BY <1>0, <1>6, RegistersStep
<1>7. CASE OnboardingLoads(c) \/ StumbleOnboarding(c) \/ SlugChecked(c) \/ SetUpDone(c)
  <2>1. (\E p : Go(p, c)) \/ calls' = calls \ {c}
    BY <1>7 DEF OnboardingLoads, StumbleOnboarding, SlugChecked, SetUpDone, Still
  <2> QED
    BY <1>0, <1>1, <2>1, StillStep
<1>8. CASE SlugSuggested(c) \/ BusinessSaved(c) \/ WalletAdded(c)
  <2>1. \/ calls' \subseteq calls \ {c}
        \/ \E op \in {"merchant", "onboarding"} : \E of, arg, own : calls' = Goes(c, {NewCall(op, of, arg, own)})
    BY <1>8 DEF SlugSuggested, BusinessSaved, WalletAdded, Goes
  <2> QED
    BY <1>0, <1>3, <2>1, StillStep DEF CheckOps
<1>9. CASE DeliverWallets(c)
  <2>1. \/ calls' \subseteq calls \ {c}
        \/ \E of, arg, own : calls' = Goes(c, {NewCall("wallets", of, arg, own)})
    BY <1>9 DEF DeliverWallets, WalletsLoad, WalletSaved, DefaultSet, Archived, Again, Still
  <2> QED
    BY <1>0, <1>3, <2>1, StillStep DEF CheckOps
<1>10. CASE DeliverNotify(c)
  <2>1. calls' \subseteq calls \ {c}
    BY <1>10 DEF DeliverNotify, MeArrives, FocusArrives, IgArrives, PrefsArrive, LinkMade,
                 Disconnected, IgCodeArrives, IgDropped, TestSent, EmailSaved, Still
  <2> QED
    BY <1>0, <2>1, StillStep
<1>11. CASE DeliverSettings(c)
  <2>1. calls' \subseteq calls \ {c}
    BY <1>11 DEF DeliverSettings, SettingsKnow, StoreArrives, StoreSaved, LogoUploaded,
                 QuestionsArrive, QuestionsSaved, Still
  <2> QED
    BY <1>0, <2>1, StillStep
<1>12. CASE Crash(c)
  BY <1>1, <1>12 DEF Crash
<1> QED
  BY <1>4, <1>5, <1>6, <1>7, <1>8, <1>9, <1>10, <1>11, <1>12 DEF Deliver, DeliverPeople, DeliverSetUp

\* Time, orders and chats check no code, and what others ask finds room.
LEMMA OthersStep ==
  ASSUME IInv, GInv,
         \/ \E c \in calls : Lose(c)
         \/ \E p \in Purposes : CodeExpires(p)
         \/ \E w \in Wallets : Sell(w) \/ Settle(w)
         \/ \E l \in Links : LinkExpires(l) \/ \E ch \in Chats : PressStart(l, ch)
         \/ \E op \in world.others : OthersAsk(op)
  PROVE  GInv'
<1>1. ASSUME NEW c \in calls, Lose(c) PROVE GInv'
  BY <1>1, StillStep DEF Lose, server, people
<1>2. ASSUME NEW p \in Purposes, CodeExpires(p) PROVE GInv'
  <2>1. code' = [code EXCEPT ![p].dead = TRUE] /\ calls' = calls
    BY <1>2 DEF CodeExpires
  <2>2. CodesOK' /\ \A q \in Purposes : code'[q].tries = code[q].tries
    BY <2>1 DEF GInv, CodesOK
  <2>3. Few' /\ \A q : Reading(calls, q)' = Reading(calls, q)
    BY <2>1 DEF GInv, Few, Reading, Checks
  <2> QED
    BY <2>2, <2>3 DEF GInv, Tallied
<1>3. ASSUME code' = code, calls' = calls PROVE GInv'
  BY <1>3, Less, FS_EmptySet
<1>4. ASSUME NEW w \in Wallets, Sell(w) \/ Settle(w) PROVE GInv'
  BY <1>3, <1>4 DEF Sell, Settle, people
<1>5. ASSUME NEW l \in Links, LinkExpires(l) PROVE GInv'
  BY <1>3, <1>5 DEF LinkExpires, people
<1>6. ASSUME NEW l \in Links, NEW ch \in Chats, PressStart(l, ch) PROVE GInv'
  <2> DEFINE k == [NewCall("start", l, "none", "none") EXCEPT !.by = ch, !.live = FALSE]
  <2>1. k.op \notin CheckOps
    BY DEF NewCall, CheckOps
  <2>2. calls' \subseteq calls \cup {k} /\ code' = code
    BY <1>6 DEF PressStart, server, people
  <2> HIDE DEF k
  <2>3. IsFiniteSet({k})
    BY FS_Singleton
  <2> QED
    BY <2>1, <2>2, <2>3, Less
<1>7. ASSUME NEW op \in world.others, OthersAsk(op) PROVE GInv'
  <2>1. PICK w, arg : calls' = calls \cup {[NewCall(op, w, arg, "none") EXCEPT !.live = FALSE]}
    BY <1>7 DEF OthersAsk
  <2> DEFINE k == [NewCall(op, w, arg, "none") EXCEPT !.live = FALSE]
  <2>2. k.stage = "sent"
    BY DEF NewCall
  <2>3. calls' = calls \cup {k} /\ Room /\ code' = code
    BY <1>7, <2>1 DEF OthersAsk, server, people
  <2> HIDE DEF k
  <2> QED
    BY <2>2, <2>3, Starts
<1> QED
  BY <1>1, <1>2, <1>4, <1>5, <1>6, <1>7

\* A click has room for the one call it starts.
LEMMA ClicksStep == ASSUME GInv, NEW update, NEW k, k.stage # "read", Clicks(update, k) PROVE GInv'
BY Starts DEF Clicks, server, people

LEMMA ActsStep ==
  ASSUME GInv, NEW flag, NEW call, Shaped(call), call.stage = "sent", Acts(flag, call)
  PROVE  GInv'
<1> DEFINE k == [call EXCEPT !.own = flag]
<1>1. k.stage = "sent"
  BY DEF Shaped, CallFields
<1>2. Clicks([tab EXCEPT !.busy = @ \cup {flag}], k)
  BY DEF Acts
<1> HIDE DEF k
<1> QED
  BY <1>1, <1>2, ClicksStep

\* The buttons that make a part of the page busy.
LEMMA ButtonsStep ==
  ASSUME GInv,
         \/ SubmitLogin \/ SubmitRegister \/ AskLoginCode \/ AskRegisterCode
         \/ EnterLoginCode \/ EnterRegisterCode \/ NextStep \/ ConfirmSave
         \/ (\E w \in Wallets : AddWallet(w) \/ SetDefault(w))
         \/ ConnectTelegram \/ DisconnectTelegram \/ TestTelegram \/ GetIgCode \/ DropInstagram
         \/ PatchEmail \/ SaveStore \/ SaveQuestions
  PROVE  GInv'
<1>1. ASSUME NEW flag, NEW op, NEW of, NEW arg, Acts(flag, NewCall(op, of, arg, "none")) PROVE GInv'
  <2>1. Shaped(NewCall(op, of, arg, "none")) /\ NewCall(op, of, arg, "none").stage = "sent"
    BY DEF NewCall, Shaped, CallFields
  <2> QED
    BY <1>1, <2>1, ActsStep
<1>2. ASSUME NEW flag, NEW op, Acts(flag, Plain(op)) PROVE GInv'
  BY <1>1, <1>2 DEF Plain
<1>3. CASE SubmitLogin \/ SubmitRegister \/ ConnectTelegram \/ DisconnectTelegram \/ TestTelegram
  BY <1>2, <1>3 DEF SubmitLogin, SubmitRegister, ConnectTelegram, DisconnectTelegram, TestTelegram
<1>4. CASE GetIgCode \/ DropInstagram \/ PatchEmail \/ SaveStore \/ SaveQuestions
  BY <1>2, <1>4 DEF GetIgCode, DropInstagram, PatchEmail, SaveStore, SaveQuestions
<1>5. CASE AskLoginCode \/ AskRegisterCode
  BY <1>1, <1>5 DEF AskLoginCode, AskRegisterCode, AskCode
<1>6. ASSUME NEW page, EnterCode(page) PROVE GInv'
  <2>1. PICK g : Acts("page", [NewCall("verify", None, page, "none") EXCEPT !.guess = g])
    BY <1>6 DEF EnterCode
  <2> DEFINE k == [NewCall("verify", None, page, "none") EXCEPT !.guess = g]
  <2>2. Shaped(k) /\ k.stage = "sent"
    BY DEF NewCall, Shaped, CallFields
  <2> HIDE DEF k
  <2>3. Acts("page", k)
    BY <2>1 DEF k
  <2> QED
    BY <2>2, <2>3, ActsStep
<1>7. CASE EnterLoginCode \/ EnterRegisterCode
  BY <1>6, <1>7 DEF EnterLoginCode, EnterRegisterCode
<1>8. CASE NextStep
  <2>1. PICK name : name = tab.slug
    OBVIOUS
  <2>2. Acts("page", NewCall("merchant", None, name, "none")) \/ \E op : Acts("page", Plain(op))
    BY <1>8, <2>1 DEF NextStep
  <2> QED
    BY <1>1, <1>2, <2>2
<1>9. CASE ConfirmSave
  <2>1. PICK w, arg : Acts("page", NewCall("wallet", w, arg, "none"))
    BY <1>9 DEF ConfirmSave
  <2> QED
    BY <1>1, <2>1
<1>10. ASSUME NEW w \in Wallets, AddWallet(w) \/ SetDefault(w) PROVE GInv'
  BY <1>1, <1>10 DEF AddWallet, SetDefault
<1> QED
  BY <1>3, <1>4, <1>5, <1>7, <1>8, <1>9, <1>10

\* The rest of what a merchant does to the page.
LEMMA TabStep ==
  ASSUME IInv, GInv,
         \/ SwitchMode \/ WithGoogle \/ EditSlug \/ StepBack \/ Reconsider \/ CancelArchive \/ Archive
         \/ (\E w \in Wallets : Consider(w) \/ AskArchive(w))
         \/ Logout \/ Focus \/ \E p \in world.pages : Open(p)
  PROVE  GInv'
<1>1. ASSUME UNCHANGED <<server, calls>> PROVE GInv'
  BY <1>1, Less, FS_EmptySet DEF server, people
<1>2. CASE SwitchMode \/ StepBack \/ Reconsider \/ CancelArchive
  BY <1>1, <1>2 DEF SwitchMode, StepBack, Reconsider, CancelArchive
<1>3. ASSUME NEW w \in Wallets, Consider(w) \/ AskArchive(w) PROVE GInv'
  BY <1>1, <1>3 DEF Consider, AskArchive
<1>4. CASE WithGoogle
  <2> DEFINE k == [Plain("google") EXCEPT !.live = FALSE]
  <2>1. k.op \notin CheckOps
    BY DEF Plain, NewCall, CheckOps
  <2>2. calls' \subseteq Left(calls) \cup {k} /\ code' = code
    BY <1>4 DEF WithGoogle, server, people
  <2> HIDE DEF k
  <2>3. IsFiniteSet({k})
    BY FS_Singleton
  <2> QED
    BY <2>1, <2>2, <2>3, Departs
<1>5. ASSUME NEW update, NEW op, NEW arg, Clicks(update, NewCall(op, None, arg, "none")) PROVE GInv'
  <2>1. NewCall(op, None, arg, "none").stage = "sent"
    BY DEF NewCall
  <2> QED
    BY <1>5, <2>1, ClicksStep
<1>6. CASE EditSlug
  <2>1. \E update, op : Clicks(update, Plain(op))
    BY <1>6 DEF EditSlug
  <2> QED
    BY <1>5, <2>1 DEF Plain
<1>7. CASE Archive
  <2> DEFINE update == [tab EXCEPT !.busy = @ \cup {"page"}]
             k == [NewCall("archive", tab.doomed, "none", "none") EXCEPT !.own = "page"]
  <2>1. k.stage = "sent"
    BY DEF NewCall
  <2>2. Clicks(update, k)
    BY <1>7 DEF Archive
  <2> HIDE DEF update, k
  <2> QED
    BY <2>1, <2>2, ClicksStep
<1>8. CASE Logout \/ Focus
  BY <1>5, <1>8 DEF Logout, Focus, Plain
<1>9. ASSUME NEW p \in world.pages, Open(p) PROVE GInv'
  BY <1>9, FirstCallsAre, Departs DEF Open, server, people
<1> QED
  BY <1>2, <1>3, <1>4, <1>6, <1>7, <1>8, <1>9

LEMMA InitGInv == Init => GInv
<1> SUFFICES ASSUME Init PROVE GInv
  OBVIOUS
<1>1. calls = {} /\ code = [p \in Purposes |-> NoCode]
  BY DEF Init
<1>2. Checks(calls) = {} /\ \A p : Reading(calls, p) = {}
  BY <1>1 DEF Checks, Reading
<1>3. Few /\ CodesOK
  BY <1>1, <1>2, FS_EmptySet, ConstantsAssumption DEF Few, CodesOK, NoCode
<1>4. ASSUME NEW p \in Purposes
      PROVE  code[p].tries + Cardinality(Reading(calls, p)) < MaxAttempts + MaxCalls
  <2>1. code[p].tries = 0 /\ Cardinality(Reading(calls, p)) = 0
    BY <1>1, <1>2, FS_EmptySet DEF NoCode
  <2> QED
    BY <2>1, ConstantsAssumption
<1> QED
  BY <1>3, <1>4 DEF GInv, Tallied

LEMMA NextGInv == IInv /\ GInv /\ [Next]_vars => GInv'
<1> SUFFICES ASSUME IInv, GInv, [Next]_vars PROVE GInv'
  OBVIOUS
<1>1. CASE UNCHANGED vars
  BY <1>1, Less, FS_EmptySet DEF vars, server, people
<1>2. ASSUME NEW c \in calls, Answer(c) \/ Redeliver(c) PROVE GInv'
  BY <1>2, SendStep, ReadStep, WriteStep, MakerStep, OtherSteps DEF Answer
<1>3. ASSUME NEW c \in calls, Deliver(c) \/ Fail(c) PROVE GInv'
  BY <1>3, DeliversStep, FailsStep
<1> QED
  BY <1>1, <1>2, <1>3, OthersStep, ButtonsStep, TabStep DEF Next

\* However checks of one code overlap, and though each reads the count before
\* it raises it, a code takes fewer guesses than the limit with all the calls
\* there may be on top (Service.Verify).
THEOREM GuessesLimited == Spec => []GuessesBounded
<1>1. Spec => [](IInv /\ GInv)
  BY InitIInv, InitGInv, Inductive, NextGInv, PTL DEF Spec
<1>2. GInv => GuessesBounded
  <2> SUFFICES ASSUME GInv, NEW p \in Purposes PROVE code[p].tries < MaxAttempts + MaxCalls
    BY DEF GuessesBounded
  <2>1. code[p].tries \in Nat /\ code[p].tries + Cardinality(Reading(calls, p)) < MaxAttempts + MaxCalls
    BY DEF GInv, CodesOK, Tallied
  <2>2. Cardinality(Reading(calls, p)) \in Nat
    BY Countable DEF GInv, Few
  <2> QED
    BY <2>1, <2>2, ConstantsAssumption
<1> QED
  BY <1>1, <1>2, PTL

-----------------------------------------------------------------------------
\* The types, field by field: those of a call say what its kind is about.
Stages == {"sent", "read", "checked", "made", "answered", "refused"}
Args   == Purposes \cup Slugs \cup {"none", "next", "default", "focus", "archived", "on", "off"}

CallOK(c) ==
  /\ c.op \in Ops /\ c.of \in Wallets \cup Links \cup {None} /\ c.by \in Chats \cup {None}
  /\ c.arg \in Args /\ c.guess \in 0..MaxCodes /\ c.no \in 0..MaxCodes
  /\ c.own \in Flags \cup {"none"} /\ c.live \in BOOLEAN /\ c.stage \in Stages /\ c.answer \subseteq Fact
  /\ c.op \in {"wallet", "setDefault"} => c.of \in Wallets
  /\ c.op = "start" => c.of \in Links /\ c.by \in Chats
  /\ c.op \in {"send", "verify"} => c.arg \in Purposes

CallsOK == \A c \in calls : CallOK(c)

TabOK(t) ==
  /\ t.page \in Pages /\ t.loaded \in BOOLEAN /\ t.facts \subseteq Fact /\ t.busy \subseteq Flags
  /\ t.phone \in BOOLEAN /\ t.mode \in {"email", "phone"} /\ t.otp \in BOOLEAN
  /\ t.step \in 0..1 /\ t.slug \in Slugs /\ t.draft \in Wallets \cup {None} /\ t.mark \in BOOLEAN
  /\ t.doomed \in Wallets \cup {None} /\ t.waiting \in BOOLEAN

PeopleOK ==
  /\ account \in [state: {"none", "user", "merchant"}, by: {"email", "phone"}]
  /\ session \in BOOLEAN
  /\ code \in [Purposes -> [no: 0..MaxCodes, tries: Nat, dead: BOOLEAN]]

ShopOK ==
  /\ world \in Worlds /\ completed \in BOOLEAN /\ slug \in Slugs \ {"unnamed"}
  /\ rows \subseteq Wallets /\ active \subseteq rows /\ default \subseteq rows

TelegramOK ==
  /\ links \in [Links -> {"none", "sent", "dead"}]
  /\ chat \in Chats \cup {None} /\ updates \subseteq Links \X Chats

ServerOK == PeopleOK /\ ShopOK /\ TelegramOK

KInv == ServerOK /\ TabOK(tab) /\ CallsOK

\* With their fields, calls and pages are of their types; and the tries of a
\* code are fewer than GuessesBounded says.
LEMMA Typed == IInv /\ GInv /\ KInv => TypeOK
<1> SUFFICES ASSUME IInv, GInv, KInv PROVE TypeOK
  OBVIOUS
<1>1. tab \in Tab
  <2>1. Laid(tab) /\ TabOK(tab)
    BY DEF IInv, TabInv, KInv
  <2> QED
    BY <2>1 DEF Laid, TabFields, TabOK, Tab
<1>2. ASSUME NEW c \in calls PROVE c \in Call
  <2>1. Shaped(c) /\ CallOK(c)
    BY DEF IInv, CallsEarned, KInv, CallsOK
  <2>2. c = [f \in CallFields |-> c[f]]
    BY <2>1 DEF Shaped
  <2> QED
    BY <2>1, <2>2 DEF CallFields, CallOK, Call, Args, Stages
<1>3. code \in [Purposes -> [no: 0..MaxCodes, tries: 0..MaxAttempts + MaxCalls, dead: BOOLEAN]]
  <2>1. code \in [Purposes -> [no: 0..MaxCodes, tries: Nat, dead: BOOLEAN]]
    BY DEF KInv, ServerOK, PeopleOK
  <2>2. ASSUME NEW p \in Purposes PROVE code[p].tries \in 0..MaxAttempts + MaxCalls
    <3>1. code[p].tries \in Nat /\ code[p].tries + Cardinality(Reading(calls, p)) < MaxAttempts + MaxCalls
      BY DEF GInv, CodesOK, Tallied
    <3>2. Cardinality(Reading(calls, p)) \in Nat
      BY Countable DEF GInv, Few
    <3> QED
      BY <3>1, <3>2, ConstantsAssumption
  <2> QED
    BY <2>1, <2>2
<1> QED
  BY <1>1, <1>2, <1>3 DEF TypeOK, KInv, ServerOK, PeopleOK, ShopOK, TelegramOK

\* A call that starts is typed, if its kind is about what it should be, ...
LEMMA NewOK ==
  ASSUME NEW op \in Ops, NEW of \in Wallets \cup Links \cup {None}, NEW arg \in Args,
         NEW own \in Flags \cup {"none"}, op # "start",
         op \in {"wallet", "setDefault"} => of \in Wallets, op \in {"send", "verify"} => arg \in Purposes
  PROVE  CallOK(NewCall(op, of, arg, own))
BY ConstantsAssumption DEF NewCall, CallOK, Stages

LEMMA PlainOK ==
  ASSUME NEW op \in Ops, op \notin {"start", "wallet", "setDefault", "send", "verify"}
  PROVE  CallOK(Plain(op))
BY NewOK DEF Plain, Args

\* ... so is one whose flag is another, ...
LEMMA OwnOK ==
  ASSUME NEW c, Shaped(c), CallOK(c), NEW own \in Flags \cup {"none"}
  PROVE  CallOK([c EXCEPT !.own = own])
BY DEF Shaped, CallFields, CallOK

\* ... and one that is left behind.
LEMMA LeftOK == ASSUME NEW c, Shaped(c), CallOK(c) PROVE CallOK(Ignored(c))
BY DEF Ignored, Shaped, CallFields, CallOK

\* A handler that answers, refuses or goes on keeps its call typed.
LEMMA EndsOK ==
  ASSUME IInv, CallsOK, NEW c \in calls,
         \/ \E facts \in SUBSET Fact : Answered(c, facts)
         \/ Refused(c)
         \/ \E stage \in Stages : At(c, stage)
  PROVE  CallsOK'
<1>0. Shaped(c) /\ CallOK(c)
  BY Standing DEF CallsOK
<1>1. ASSUME NEW k, CallOK(k), calls' \subseteq calls \cup {k} PROVE CallsOK'
  BY <1>1 DEF CallsOK
<1>2. ASSUME NEW facts \in SUBSET Fact, Answered(c, facts) PROVE CallsOK'
  <2> DEFINE k == [c EXCEPT !.stage = "answered", !.answer = facts]
  <2>1. CallOK(k)
    BY <1>0 DEF Shaped, CallFields, CallOK, Stages
  <2>2. calls' \subseteq calls \cup {k}
    BY <1>2 DEF Answered, Goes
  <2> HIDE DEF k
  <2> QED
    BY <1>1, <2>1, <2>2
<1>3. CASE Refused(c)
  <2> DEFINE k == [c EXCEPT !.stage = "refused"]
  <2>1. CallOK(k)
    BY <1>0 DEF Shaped, CallFields, CallOK, Stages
  <2>2. calls' \subseteq calls \cup {k}
    BY <1>3 DEF Refused, Goes
  <2> HIDE DEF k
  <2> QED
    BY <1>1, <2>1, <2>2
<1>4. ASSUME NEW stage \in Stages, At(c, stage) PROVE CallsOK'
  <2> DEFINE k == [c EXCEPT !.stage = stage]
  <2>1. CallOK(k)
    BY <1>0 DEF Shaped, CallFields, CallOK
  <2>2. calls' \subseteq calls \cup {k}
    BY <1>4 DEF At, Goes
  <2> HIDE DEF k
  <2> QED
    BY <1>1, <2>1, <2>2
<1> QED
  BY <1>2, <1>3, <1>4

\* A handler that writes only of people, and tells nothing.
LEMMA PeopleTyped ==
  ASSUME IInv, KInv, NEW c \in calls, UNCHANGED tab,
         \/ AnswerSend(c) \/ ReadCode(c) \/ WriteCode(c) \/ AnswerLogin(c)
         \/ MakeUser(c) \/ MakeMerchant(c) \/ AnswerLogout(c)
  PROVE  KInv'
<1>0. CallOK(c) /\ Shaped(c) /\ CallsOK /\ {} \in SUBSET Fact
  BY Standing DEF KInv, CallsOK
<1>1. ASSUME PeopleOK', UNCHANGED <<world, shop, telegram>>, CallsOK' PROVE KInv'
  BY <1>1 DEF KInv, ServerOK, ShopOK, TelegramOK, shop, telegram
<1>2. CASE AnswerSend(c)
  <2>1. CallsOK'
    BY <1>0, <1>2, EndsOK DEF AnswerSend
  <2>2. c.arg \in Purposes
    BY <1>0, <1>2 DEF AnswerSend, CallOK
  <2>3. code[c.arg] \in [no: 0..MaxCodes, tries: Nat, dead: BOOLEAN]
    BY <2>2 DEF KInv, ServerOK, PeopleOK
  <2>4. [NoCode EXCEPT !.no = code[c.arg].no + 1] \in [no: 0..MaxCodes, tries: Nat, dead: BOOLEAN]
    <3>1. PICK n : n = code[c.arg].no + 1
      OBVIOUS
    <3>2. n \in 0..MaxCodes
      BY <1>2, <2>3, <3>1, ConstantsAssumption DEF AnswerSend
    <3>3. [NoCode EXCEPT !.no = n] \in [no: 0..MaxCodes, tries: Nat, dead: BOOLEAN]
      BY <3>2 DEF NoCode
    <3> QED
      BY <3>1, <3>3
  <2> DEFINE new == [NoCode EXCEPT !.no = code[c.arg].no + 1]
  <2> HIDE DEF new
  <2>5. code' = [code EXCEPT ![c.arg] = new] /\ UNCHANGED <<account, session>>
    BY <1>2 DEF AnswerSend, new
  <2>6. PeopleOK'
    BY <2>2, <2>4, <2>5 DEF KInv, ServerOK, PeopleOK, new
  <2> QED
    BY <1>1, <1>2, <2>1, <2>6 DEF AnswerSend
<1>3. CASE ReadCode(c)
  <2> DEFINE p == Purpose(c)
             k == [c EXCEPT !.stage = "read", !.no = code[p].no]
  <2>1. p \in Purposes
    BY <1>0, <1>3 DEF ReadCode, Purpose, CallOK, Purposes
  <2>2. code[p].no \in 0..MaxCodes
    BY <2>1 DEF KInv, ServerOK, PeopleOK
  <2>3. CallOK(k)
    <3> HIDE DEF p
    <3>1. PICK n : n = code[p].no
      OBVIOUS
    <3>2. CallOK([c EXCEPT !.stage = "read", !.no = n])
      BY <1>0, <2>2, <3>1 DEF Shaped, CallFields, CallOK, Stages
    <3> QED
      BY <3>1, <3>2
  <2>4. calls' \subseteq calls \cup {k} /\ UNCHANGED server
    BY <1>3 DEF ReadCode, Goes
  <2> HIDE DEF k, p
  <2>5. CallsOK'
    BY <1>0, <2>3, <2>4 DEF CallsOK
  <2> QED
    BY <1>1, <2>4, <2>5 DEF KInv, ServerOK, PeopleOK, server, people
<1>4. CASE WriteCode(c)
  <2> DEFINE p == Purpose(c)
  <2>1. Refused(c) \/ At(c, "checked") \/ Answered(c, {})
    BY <1>4 DEF WriteCode
  <2>2. CallsOK'
    BY <1>0, <2>1, EndsOK DEF Stages
  <2>3. \/ code' = code \/ code' = [code EXCEPT ![p].dead = TRUE]
        \/ code' = [code EXCEPT ![p].tries = @ + 1]
    BY <1>4 DEF WriteCode
  <2>4. code \in [Purposes -> [no: 0..MaxCodes, tries: Nat, dead: BOOLEAN]]
    BY DEF KInv, ServerOK, PeopleOK
  <2> HIDE DEF p
  <2>5. code' \in [Purposes -> [no: 0..MaxCodes, tries: Nat, dead: BOOLEAN]]
    <3>1. CASE code' = [code EXCEPT ![p].dead = TRUE]
      BY <2>4, <3>1
    <3>2. CASE code' = [code EXCEPT ![p].tries = @ + 1]
      <4>1. code' = [q \in Purposes |-> code'[q]]
        BY <2>4, <3>2
      <4>2. ASSUME NEW q \in Purposes PROVE code'[q] \in [no: 0..MaxCodes, tries: Nat, dead: BOOLEAN]
        <5>1. code[q] \in [no: 0..MaxCodes, tries: Nat, dead: BOOLEAN]
          BY <2>4
        <5>2. code'[q] = IF q = p THEN [code[q] EXCEPT !.tries = @ + 1] ELSE code[q]
          BY <2>4, <3>2
        <5>3. PICK n : n = code[q].tries + 1
          OBVIOUS
        <5>4. [code[q] EXCEPT !.tries = n] \in [no: 0..MaxCodes, tries: Nat, dead: BOOLEAN]
          BY <5>1, <5>3
        <5> QED
          BY <5>1, <5>2, <5>3, <5>4
      <4> QED
        BY <4>1, <4>2
    <3> QED
      BY <2>3, <2>4, <3>1, <3>2
  <2>6. session' \in BOOLEAN /\ UNCHANGED <<world, account, shop, telegram>>
    BY <1>4 DEF WriteCode, KInv, ServerOK, PeopleOK
  <2>7. PeopleOK'
    BY <2>5, <2>6 DEF KInv, ServerOK, PeopleOK
  <2> QED
    BY <1>1, <2>2, <2>6, <2>7
<1>5. CASE AnswerLogin(c) \/ AnswerLogout(c)
  <2>1. CallsOK'
    BY <1>0, <1>5, EndsOK DEF AnswerLogin, AnswerLogout
  <2>2. PeopleOK'
    BY <1>5 DEF AnswerLogin, AnswerLogout, KInv, ServerOK, PeopleOK
  <2> QED
    BY <1>1, <1>5, <2>1, <2>2 DEF AnswerLogin, AnswerLogout
<1>6. CASE MakeUser(c) \/ MakeMerchant(c)
  <2>1. CallsOK'
    BY <1>0, <1>6, EndsOK DEF MakeUser, MakeMerchant, Stages
  <2>2. account' \in [state: {"none", "user", "merchant"}, by: {"email", "phone"}]
    <3>1. CASE MakeUser(c)
      <4>1. account' = [state |-> "user", by |-> "phone"] \/ account' = [state |-> "user", by |-> "email"]
        BY <3>1 DEF MakeUser
      <4> QED
        BY <4>1
    <3>2. CASE MakeMerchant(c)
      BY <3>2 DEF MakeMerchant, KInv, ServerOK, PeopleOK
    <3> QED
      BY <1>6, <3>1, <3>2
  <2>3. PeopleOK'
    BY <1>6, <2>2 DEF MakeUser, MakeMerchant, KInv, ServerOK, PeopleOK
  <2> QED
    BY <1>1, <1>6, <2>1, <2>3 DEF MakeUser, MakeMerchant
<1> QED
  BY <1>2, <1>3, <1>4, <1>5, <1>6

\* What a reading handler tells is of the wallets or of the merchant.
LEMMA ToldOK == ASSUME KInv, NEW c \in calls, AnswerRead(c) PROVE \E facts \in SUBSET Fact : Answered(c, facts)
<1>1. WalletFacts \subseteq Fact
  BY DEF WalletFacts, Fact, KInv, ServerOK, ShopOK
<1>2. PICK shown \in SUBSET {"ig", "igconnected", "email"} :
        Answered(c,
          CASE c.op = "onboarding" -> WalletFacts
                                        \cup (IF completed THEN {<<"completed", None>>} ELSE {})
                                        \cup (IF slug = "own" THEN {<<"own", None>>} ELSE {})
            [] c.op = "wallets"    -> WalletFacts
            [] c.op = "me"         -> IF chat # None THEN {<<"connected", None>>} ELSE {}
            [] c.op = "ig"         -> (shown \cap {"ig", "igconnected"}) \X {None}
            [] c.op = "prefs"      -> (shown \cap {"email"}) \X {None}
            [] OTHER               -> {})
  BY DEF AnswerRead
<1>3. /\ (IF completed THEN {<<"completed", None>>} ELSE {}) \subseteq Fact
      /\ (IF slug = "own" THEN {<<"own", None>>} ELSE {}) \subseteq Fact
      /\ (IF chat # None THEN {<<"connected", None>>} ELSE {}) \subseteq Fact
      /\ (shown \cap {"ig", "igconnected"}) \X {None} \subseteq Fact
      /\ (shown \cap {"email"}) \X {None} \subseteq Fact
  BY DEF Fact
<1>4. (WalletFacts \cup (IF completed THEN {<<"completed", None>>} ELSE {}))
        \cup (IF slug = "own" THEN {<<"own", None>>} ELSE {}) \subseteq Fact
  BY <1>1, <1>3
<1> QED
  BY <1>1, <1>2, <1>3, <1>4

LEMMA ShopTyped ==
  ASSUME IInv, KInv, NEW c \in calls, UNCHANGED tab,
         \/ AnswerRead(c) \/ AnswerMerchant(c) \/ ReadComplete(c) \/ WriteComplete(c)
         \/ TakeDefault(c) \/ WriteWallet(c) \/ ReadArchive(c) \/ WriteArchive(c)
  PROVE  KInv'
<1>0. CallOK(c) /\ CallsOK /\ {} \in SUBSET Fact /\ "read" \in Stages
  BY DEF KInv, CallsOK, Stages
<1>1. ASSUME ShopOK', UNCHANGED <<people, telegram>>, CallsOK' PROVE KInv'
  BY <1>1 DEF KInv, ServerOK, PeopleOK, TelegramOK, people, telegram
<1>2. ASSUME UNCHANGED server, CallsOK' PROVE KInv'
  BY <1>1, <1>2 DEF server, shop, KInv, ServerOK, ShopOK
<1>3. CASE AnswerRead(c)
  <2>1. CallsOK'
    BY <1>0, <1>3, ToldOK, EndsOK
  <2> QED
    BY <1>2, <1>3, <2>1 DEF AnswerRead
<1>4. CASE ReadComplete(c) \/ ReadArchive(c)
  <2>1. CallsOK'
    BY <1>0, <1>4, EndsOK DEF ReadComplete, ReadArchive
  <2> QED
    BY <1>2, <1>4, <2>1 DEF ReadComplete, ReadArchive
<1>5. CASE AnswerMerchant(c) \/ WriteComplete(c) \/ WriteArchive(c)
  <2>1. CallsOK'
    BY <1>0, <1>5, EndsOK DEF AnswerMerchant, WriteComplete, WriteArchive
  <2>2. ShopOK'
    BY <1>5 DEF AnswerMerchant, WriteComplete, WriteArchive, KInv, ServerOK, ShopOK, Slugs
  <2> QED
    BY <1>1, <1>5, <2>1, <2>2 DEF AnswerMerchant, WriteComplete, WriteArchive
<1>6. CASE TakeDefault(c)
  <2>1. CallsOK'
    BY <1>0, <1>6, EndsOK DEF TakeDefault
  <2>2. ShopOK'
    BY <1>6 DEF TakeDefault, KInv, ServerOK, ShopOK
  <2> QED
    BY <1>1, <1>6, <2>1, <2>2 DEF TakeDefault
<1>7. CASE WriteWallet(c)
  <2>1. CallsOK'
    <3>1. Refused(c) \/ Answered(c, {})
      BY <1>7 DEF WriteWallet
    <3> QED
      BY <1>0, <3>1, EndsOK
  <2>2. c.of \in Wallets
    BY <1>0, <1>7 DEF WriteWallet, CallOK
  <2>3. ShopOK'
    BY <1>7, <2>2 DEF WriteWallet, KInv, ServerOK, ShopOK
  <2> QED
    BY <1>1, <1>7, <2>1, <2>3 DEF WriteWallet
<1> QED
  BY <1>3, <1>4, <1>5, <1>6, <1>7

LEMMA TelegramTyped ==
  ASSUME IInv, KInv, NEW c \in calls, UNCHANGED tab,
         AnswerLink(c) \/ AnswerDisconnect(c) \/ ReadStart(c) \/ Connect(c) \/ Redeliver(c)
  PROVE  KInv'
<1>0. CallOK(c) /\ CallsOK /\ {} \in SUBSET Fact /\ {"sent", "read"} \subseteq Stages
  BY DEF KInv, CallsOK, Stages
<1>1. ASSUME TelegramOK', UNCHANGED <<world, people, shop>>, CallsOK' PROVE KInv'
  BY <1>1 DEF KInv, ServerOK, PeopleOK, ShopOK, people, shop
<1>2. CallsOK'
  <2>1. (\E facts \in SUBSET Fact : Answered(c, facts)) \/ \E stage \in Stages : At(c, stage)
    BY <1>0 DEF AnswerLink, AnswerDisconnect, ReadStart, Connect, Redeliver
  <2> QED
    BY <1>0, <2>1, EndsOK
<1>3. CASE AnswerLink(c)
  <2>1. TelegramOK'
    BY <1>3 DEF AnswerLink, KInv, ServerOK, TelegramOK
  <2> QED
    BY <1>1, <1>2, <1>3, <2>1 DEF AnswerLink
<1>4. CASE AnswerDisconnect(c)
  <2>1. TelegramOK'
    BY <1>4 DEF AnswerDisconnect, KInv, ServerOK, TelegramOK
  <2> QED
    BY <1>1, <1>2, <1>4, <2>1 DEF AnswerDisconnect
<1>5. CASE ReadStart(c)
  <2>1. TelegramOK'
    BY <1>0, <1>5 DEF ReadStart, KInv, ServerOK, TelegramOK, CallOK
  <2> QED
    BY <1>1, <1>2, <1>5, <2>1 DEF ReadStart
<1>6. CASE Connect(c)
  <2>1. TelegramOK'
    BY <1>0, <1>6 DEF Connect, KInv, ServerOK, TelegramOK, CallOK
  <2> QED
    BY <1>1, <1>2, <1>6, <2>1 DEF Connect
<1>7. CASE Redeliver(c)
  BY <1>1, <1>2, <1>7 DEF Redeliver, server, telegram, KInv, ServerOK, TelegramOK
<1> QED
  BY <1>3, <1>4, <1>5, <1>6, <1>7

-----------------------------------------------------------------------------
\* A step of the page alone, ...
LEMMA PageTyped == ASSUME KInv, UNCHANGED server, TabOK(tab'), CallsOK' PROVE KInv'
BY DEF KInv, ServerOK, PeopleOK, ShopOK, TelegramOK, server, people, shop, telegram

\* ... which keeps calls, leaves them behind, and starts others.
LEMMA CallsTyped ==
  ASSUME IInv, CallsOK, NEW N, \A k \in N : CallOK(k), calls' \subseteq calls \cup Left(calls) \cup N
  PROVE  CallsOK'
<1>1. \A k \in Left(calls) : CallOK(k)
  BY LeftAre, LeftOK, Standing DEF CallsOK
<1> QED
  BY <1>1 DEF CallsOK

LEMMA NewTabOK == ASSUME NEW p \in Pages PROVE TabOK(NewTab(p))
BY DEF NewTab, TabOK, Slugs

LEMMA FirstOK == ASSUME NEW p PROVE \A k \in FirstCalls(p) : CallOK(k)
<1>1. \A k \in FirstCalls(p) :
        \E op \in {"providers", "onboarding", "wallets", "me", "ig", "prefs", "defaults"} : k = Plain(op)
  BY DEF FirstCalls
<1> QED
  BY <1>1, PlainOK DEF Ops, Reads

LEMMA OpensTyped ==
  ASSUME IInv, KInv, UNCHANGED server, NEW p \in Pages, tab' = NewTab(p), NEW cs, cs \subseteq calls,
         calls' = Left(cs) \cup FirstCalls(p)
  PROVE  KInv'
<1>1. Left(cs) \subseteq Left(calls)
  BY DEF Left
<1>2. CallsOK'
  BY <1>1, FirstOK, CallsTyped DEF KInv
<1> QED
  BY <1>2, NewTabOK, PageTyped

\* The answers of the pages people sign in on.
LEMMA PeopleTold ==
  ASSUME IInv, KInv, UNCHANGED server, NEW c \in calls, DeliverPeople(c)
  PROVE  KInv'
<1>0. Laid(tab) /\ TabOK(tab) /\ CallOK(c) /\ CallsOK
  BY Standing DEF KInv, CallsOK
<1>1. CASE LoginProviders(c) \/ RegisterProviders(c) \/ LoginCodeSent(c) \/ RegisterCodeSent(c)
  <2>1. CallsOK'
    BY <1>0, <1>1 DEF LoginProviders, RegisterProviders, LoginCodeSent, RegisterCodeSent, Still, CallsOK
  <2>2. world.phone \in BOOLEAN
    BY ConstantsAssumption DEF KInv, ServerOK, ShopOK, World
  <2>3. TabOK(tab')
    BY <1>0, <1>1, <2>2 DEF LoginProviders, RegisterProviders, LoginCodeSent, RegisterCodeSent,
                            Still, Free, Laid, TabFields, TabOK
  <2> QED
    BY <2>1, <2>3, PageTyped
<1>2. CASE LoggedIn(c) \/ CodeLogsIn(c) \/ Registered(c) \/ LoggedOut(c)
  <2>1. \E p \in Pages : Go(p, c)
    BY <1>2 DEF LoggedIn, CodeLogsIn, Registered, LoggedOut, Pages
  <2> QED
    BY <2>1, OpensTyped DEF Go
<1>3. CASE CodeRegisters(c)
  <2>1. CASE Go("onboarding", c)
    BY <2>1, OpensTyped DEF Go, Pages
  <2>2. CASE /\ calls' = Goes(c, {[NewCall("otpreg", None, "none", c.own) EXCEPT !.guess = c.guess]})
             /\ UNCHANGED tab
    <3> DEFINE k == [NewCall("otpreg", None, "none", c.own) EXCEPT !.guess = c.guess]
    <3>1. CallOK(k)
      BY <1>0, ConstantsAssumption DEF NewCall, CallOK, Stages, Ops, Makers, Args
    <3>2. calls' \subseteq calls \cup {k}
      BY <2>2 DEF Goes
    <3> HIDE DEF k
    <3>3. CallsOK'
      BY <1>0, <3>1, <3>2 DEF CallsOK
    <3> QED
      BY <1>0, <2>2, <3>3, PageTyped
  <2> QED
    BY <1>3, <2>1, <2>2 DEF CodeRegisters
<1> QED
  BY <1>1, <1>2, <1>3 DEF DeliverPeople

\* A call that another follows, on the page as it is or updated.
LEMMA FollowedTyped ==
  ASSUME KInv, UNCHANGED server, TabOK(tab'), NEW c, NEW k, CallOK(k), calls' \subseteq Goes(c, {k})
  PROVE  KInv'
<1>1. CallsOK'
  BY DEF KInv, CallsOK, Goes
<1> QED
  BY <1>1, PageTyped

LEMMA StillTyped == ASSUME KInv, UNCHANGED server, NEW c, NEW update, TabOK(update), Still(c, update) PROVE KInv'
<1>1. CallsOK'
  BY DEF KInv, CallsOK, Still
<1> QED
  BY <1>1, PageTyped DEF Still

\* The onboarding's answers.
LEMMA SetUpTold ==
  ASSUME IInv, KInv, UNCHANGED server, NEW c \in calls, DeliverSetUp(c)
  PROVE  KInv'
<1>0. Laid(tab) /\ TabOK(tab) /\ CallOK(c)
  BY Standing DEF KInv, CallsOK
<1>1. CASE OnboardingLoads(c)
  <2>1. CASE Go("home", c)
    BY <2>1, OpensTyped DEF Go, Pages
  <2>2. CASE ~Go("home", c)
    <3> DEFINE update == [tab EXCEPT !.loaded = TRUE, !.facts = c.answer, !.busy = Free(c),
                                     !.slug = IF <<"own", None>> \in c.answer THEN "own" ELSE "reserved",
                                     !.step = IF c.arg = "next" THEN 1 ELSE @]
    <3>1. TabOK(update)
      BY <1>0 DEF Laid, TabFields, TabOK, CallOK, Free, Slugs
    <3>2. Still(c, update)
      BY <1>1, <2>2 DEF OnboardingLoads
    <3> HIDE DEF update
    <3> QED
      BY <3>1, <3>2, StillTyped
  <2> QED
    BY <2>1, <2>2
<1>2. CASE StumbleOnboarding(c)
  <2> DEFINE update == [tab EXCEPT !.loaded = TRUE, !.facts = {}, !.busy = Free(c)]
  <2>1. TabOK(update)
    BY <1>0 DEF Laid, TabFields, TabOK, Free
  <2>2. Still(c, update)
    BY <1>2 DEF StumbleOnboarding
  <2> HIDE DEF update
  <2> QED
    BY <2>1, <2>2, StillTyped
<1>3. CASE SlugChecked(c)
  <2>1. PICK s \in Slugs : Still(c, [tab EXCEPT !.slug = s])
    BY <1>0, <1>3 DEF SlugChecked, TabOK, Slugs
  <2>2. TabOK([tab EXCEPT !.slug = s])
    BY <1>0 DEF Laid, TabFields, TabOK
  <2> QED
    BY <2>1, <2>2, StillTyped
<1>4. CASE SlugSuggested(c)
  <2>1. TabOK(tab')
    BY <1>0, <1>4 DEF SlugSuggested, Laid, TabFields, TabOK, Slugs
  <2>2. CallOK(NewCall("merchant", None, "unnamed", c.own))
    BY <1>0, NewOK DEF CallOK, Ops, Args, Slugs
  <2>3. calls' \subseteq Goes(c, {NewCall("merchant", None, "unnamed", c.own)})
    BY <1>4 DEF SlugSuggested, Goes
  <2> QED
    BY <2>1, <2>2, <2>3, FollowedTyped
<1>5. CASE BusinessSaved(c) \/ WalletAdded(c)
  <2>1. PICK arg \in {"next", "none"} : calls' = Goes(c, {NewCall("onboarding", None, arg, c.own)})
    BY <1>5 DEF BusinessSaved, WalletAdded
  <2>2. CallOK(NewCall("onboarding", None, arg, c.own))
    BY <1>0, NewOK DEF CallOK, Ops, Reads, Args
  <2>3. TabOK(tab')
    BY <1>0, <1>5 DEF BusinessSaved, WalletAdded
  <2> QED
    BY <2>1, <2>2, <2>3, FollowedTyped
<1>6. CASE SetUpDone(c)
  BY <1>6, OpensTyped DEF SetUpDone, Go, Pages
<1> QED
  BY <1>1, <1>2, <1>3, <1>4, <1>5, <1>6 DEF DeliverSetUp

\* The wallets' answers.
LEMMA WalletsTold ==
  ASSUME IInv, KInv, UNCHANGED server, NEW c \in calls, DeliverWallets(c)
  PROVE  KInv'
<1>0. Laid(tab) /\ TabOK(tab) /\ CallOK(c)
  BY Standing DEF KInv, CallsOK
<1>1. CASE WalletsLoad(c)
  <2> DEFINE update == [tab EXCEPT !.loaded = TRUE, !.facts = c.answer, !.busy = Free(c),
                                   !.doomed = IF c.arg = "archived" THEN None ELSE @]
  <2>1. TabOK(update)
    BY <1>0 DEF Laid, TabFields, TabOK, CallOK, Free
  <2>2. Still(c, update)
    BY <1>1 DEF WalletsLoad
  <2> HIDE DEF update
  <2> QED
    BY <2>1, <2>2, StillTyped
<1>2. CASE WalletSaved(c) \/ DefaultSet(c) \/ Archived(c)
  <2>1. PICK arg \in {"none", "archived"} : calls' = Goes(c, {NewCall("wallets", None, arg, c.own)})
    BY <1>2 DEF WalletSaved, DefaultSet, Archived, Again
  <2>2. CallOK(NewCall("wallets", None, arg, c.own))
    BY <1>0, NewOK DEF CallOK, Ops, Reads, Args
  <2>3. TabOK(tab')
    BY <1>0, <1>2 DEF WalletSaved, DefaultSet, Archived, Laid, TabFields, TabOK
  <2> QED
    BY <2>1, <2>2, <2>3, FollowedTyped
<1> QED
  BY <1>1, <1>2 DEF DeliverWallets

\* The answers of the notifications' page, and of the settings.
LEMMA NotifyTold ==
  ASSUME IInv, KInv, UNCHANGED server, NEW c \in calls, DeliverNotify(c) \/ DeliverSettings(c)
  PROVE  KInv'
<1>0. Laid(tab) /\ TabOK(tab) /\ CallOK(c)
  BY Standing DEF KInv, CallsOK
<1>1. ASSUME TabOK(tab'), calls' = calls \ {c} PROVE KInv'
  BY <1>1, StillTyped DEF Still
<1>2. \A about : Learned(about, c) \subseteq Fact
  BY <1>0 DEF Learned, TabOK, CallOK
<1>3. CASE MeArrives(c) \/ PrefsArrive(c)
  <2>1. PICK facts \in SUBSET Fact : Still(c, [tab EXCEPT !.loaded = TRUE, !.facts = facts])
    BY <1>2, <1>3 DEF MeArrives, PrefsArrive
  <2>2. TabOK([tab EXCEPT !.loaded = TRUE, !.facts = facts])
    BY <1>0 DEF Laid, TabFields, TabOK
  <2> QED
    BY <2>1, <2>2, StillTyped
<1>4. CASE FocusArrives(c)
  BY <1>0, <1>1, <1>2, <1>4 DEF FocusArrives, Still, Laid, TabFields, TabOK
<1>5. CASE IgArrives(c)
  <2> DEFINE facts == {f \in tab.facts : f[1] \notin {"ig", "igconnected"}} \cup c.answer
             update == [tab EXCEPT !.loaded = TRUE, !.facts = facts]
  <2>1. facts \subseteq Fact
    BY <1>0 DEF TabOK, CallOK
  <2>2. Still(c, update)
    BY <1>5 DEF IgArrives
  <2> HIDE DEF facts
  <2>3. TabOK(update)
    BY <1>0, <2>1 DEF Laid, TabFields, TabOK
  <2> HIDE DEF update
  <2> QED
    BY <2>2, <2>3, StillTyped
<1>6. CASE LinkMade(c)
  BY <1>0, <1>1, <1>6 DEF LinkMade, Still, Free, Laid, TabFields, TabOK
<1>7. CASE Disconnected(c) \/ IgDropped(c)
  BY <1>0, <1>1, <1>7 DEF Disconnected, IgDropped, Still, Free, Laid, TabFields, TabOK
<1>8. CASE IgCodeArrives(c) \/ TestSent(c) \/ EmailSaved(c) \/ StoreSaved(c) \/ LogoUploaded(c) \/ QuestionsSaved(c)
  BY <1>0, <1>1, <1>8 DEF IgCodeArrives, TestSent, EmailSaved, StoreSaved, LogoUploaded, QuestionsSaved,
                          Still, Free, Laid, TabFields, TabOK
<1>9. CASE SettingsKnow(c) \/ StoreArrives(c) \/ QuestionsArrive(c)
  BY <1>0, <1>1, <1>9 DEF SettingsKnow, StoreArrives, QuestionsArrive, Still, Laid, TabFields, TabOK
<1> QED
  BY <1>3, <1>4, <1>5, <1>6, <1>7, <1>8, <1>9 DEF DeliverNotify, DeliverSettings

LEMMA Told == ASSUME IInv, KInv, NEW c \in calls, Deliver(c) PROVE KInv'
<1>1. UNCHANGED server
  BY DEF Deliver
<1>2. CASE Crash(c)
  BY <1>1, <1>2, OpensTyped DEF Crash, Go, Pages
<1> QED
  BY <1>1, <1>2, PeopleTold, SetUpTold, WalletsTold, NotifyTold DEF Deliver

\* A call that fails, or that nobody waits for.
LEMMA FailedTyped == ASSUME IInv, KInv, NEW c \in calls, Fail(c) \/ Lose(c) PROVE KInv'
<1>0. Laid(tab) /\ TabOK(tab)
  BY Standing DEF KInv
<1>1. CASE Fail(c)
  <2> DEFINE none == IF c.op = "archive" \/ c.arg = "archived" THEN None ELSE tab.doomed
             wait == tab.waiting /\ c.op # "link"
  <2>0. none \in Wallets \cup {None} /\ wait \in BOOLEAN /\ Free(c) \subseteq Flags
    BY <1>0 DEF TabOK, Free
  <2>1. TabOK(tab')
    <3>1. tab' = [tab EXCEPT !.busy = Free(c), !.doomed = none, !.waiting = wait]
      BY <1>1 DEF Fail, Recovered
    <3> HIDE DEF none, wait
    <3> QED
      BY <1>0, <2>0, <3>1 DEF Laid, TabFields, TabOK
  <2>2. Left({c}) \subseteq Left(calls)
    BY DEF Left
  <2>3. \E N : calls' \subseteq calls \cup Left(calls) \cup N /\ \A k \in N : CallOK(k)
    <3>1. calls' \subseteq calls \cup Left(calls)
      BY <1>1, <2>2 DEF Fail, Goes
    <3>2. PICK N : N = {}
      OBVIOUS
    <3>3. calls' \subseteq calls \cup Left(calls) \cup N /\ \A k \in N : CallOK(k)
      BY <3>1, <3>2
    <3> QED
      BY <3>3
  <2>4. CallsOK'
    BY <2>3, CallsTyped DEF KInv
  <2> QED
    BY <1>1, <2>1, <2>4, PageTyped DEF Fail
<1>2. CASE Lose(c)
  <2>1. CallsOK'
    BY <1>2 DEF Lose, KInv, CallsOK
  <2> QED
    BY <1>0, <1>2, <2>1, PageTyped DEF Lose
<1> QED
  BY <1>1, <1>2

\* What orders, time, chats and other devices do.
LEMMA OthersTyped ==
  ASSUME IInv, KInv,
         \/ \E p \in Purposes : CodeExpires(p)
         \/ \E w \in Wallets : Sell(w) \/ Settle(w)
         \/ \E l \in Links : LinkExpires(l) \/ \E ch \in Chats : PressStart(l, ch)
         \/ \E op \in world.others : OthersAsk(op)
  PROVE  KInv'
<1>0. TabOK(tab)
  BY DEF KInv
<1>1. ASSUME NEW k, CallOK(k), calls' = calls \cup {k}, UNCHANGED <<server, tab>> PROVE KInv'
  <2>1. CallsOK'
    BY <1>1 DEF KInv, CallsOK
  <2> QED
    BY <1>0, <1>1, <2>1, PageTyped
<1>2. ASSUME NEW p \in Purposes, CodeExpires(p) PROVE KInv'
  <2>1. PeopleOK'
    BY <1>2 DEF CodeExpires, KInv, ServerOK, PeopleOK
  <2> QED
    BY <1>2, <2>1 DEF CodeExpires, KInv, ServerOK, ShopOK, TelegramOK, shop, telegram, CallsOK
<1>3. ASSUME NEW w \in Wallets, Sell(w) \/ Settle(w) PROVE KInv'
  BY <1>3 DEF Sell, Settle, KInv, ServerOK, PeopleOK, ShopOK, TelegramOK, people, telegram, CallsOK
<1>4. ASSUME NEW l \in Links, LinkExpires(l) PROVE KInv'
  <2>1. TelegramOK'
    BY <1>4 DEF LinkExpires, KInv, ServerOK, TelegramOK
  <2> QED
    BY <1>4, <2>1 DEF LinkExpires, KInv, ServerOK, PeopleOK, ShopOK, people, shop, CallsOK
<1>5. ASSUME NEW l \in Links, NEW ch \in Chats, PressStart(l, ch) PROVE KInv'
  <2> DEFINE k == [NewCall("start", l, "none", "none") EXCEPT !.by = ch, !.live = FALSE]
  <2>1. CallOK(k)
    BY ConstantsAssumption DEF NewCall, CallOK, Stages, Ops, Args
  <2>2. calls' = calls \cup {k} /\ UNCHANGED <<server, tab>>
    BY <1>5 DEF PressStart
  <2> HIDE DEF k
  <2> QED
    BY <1>1, <2>1, <2>2
<1>6. ASSUME NEW op \in world.others, OthersAsk(op) PROVE KInv'
  <2>1. op \in Ops \ {"start"}
    BY ConstantsAssumption DEF KInv, ServerOK, ShopOK, World
  <2>2. PICK w \in IF op \in {"wallet", "setDefault", "archive"} THEN Wallets ELSE {None},
             arg \in CASE op \in {"send", "verify"} -> {"login"}
                       [] op = "setDefault" -> {"default", "on", "off"} [] OTHER -> {"none"} :
          calls' = calls \cup {[NewCall(op, w, arg, "none") EXCEPT !.live = FALSE]}
    BY <1>6 DEF OthersAsk
  <2>3. arg \in {"login", "default", "on", "off", "none"} /\ (op \in {"send", "verify"} => arg = "login")
    BY <2>2
  <2> DEFINE k == [NewCall(op, w, arg, "none") EXCEPT !.live = FALSE]
  <2>4. arg \in Args /\ (op \in {"send", "verify"} => arg \in Purposes)
    BY <2>3 DEF Args, Purposes
  <2>5. CallOK(k)
    BY <2>1, <2>2, <2>4, ConstantsAssumption DEF NewCall, CallOK, Stages
  <2>6. calls' = calls \cup {k} /\ UNCHANGED <<server, tab>>
    BY <1>6, <2>2, <2>3 DEF OthersAsk
  <2> HIDE DEF k
  <2> QED
    BY <1>1, <2>5, <2>6
<1> QED
  BY <1>2, <1>3, <1>4, <1>5, <1>6

\* A click updates the page and starts one call.
LEMMA ClicksTyped ==
  ASSUME KInv, NEW update, TabOK(update), NEW k, CallOK(k), Clicks(update, k)
  PROVE  KInv'
<1>1. CallsOK'
  BY DEF Clicks, KInv, CallsOK
<1> QED
  BY <1>1, PageTyped DEF Clicks

LEMMA BusyOK == ASSUME IInv, KInv, NEW flag \in Flags PROVE TabOK([tab EXCEPT !.busy = @ \cup {flag}])
BY Standing DEF KInv, Laid, TabFields, TabOK

LEMMA ActsTyped ==
  ASSUME IInv, KInv, NEW flag \in Flags, NEW call, Shaped(call), CallOK(call), Acts(flag, call)
  PROVE  KInv'
<1> DEFINE update == [tab EXCEPT !.busy = @ \cup {flag}]
           k == [call EXCEPT !.own = flag]
<1>1. TabOK(update) /\ CallOK(k)
  BY BusyOK, OwnOK
<1>2. Clicks(update, k)
  BY DEF Acts
<1> HIDE DEF update, k
<1> QED
  BY <1>1, <1>2, ClicksTyped

\* The buttons that make a part of the page busy.
LEMMA ButtonsTyped ==
  ASSUME IInv, KInv,
         \/ SubmitLogin \/ SubmitRegister \/ AskLoginCode \/ AskRegisterCode
         \/ EnterLoginCode \/ EnterRegisterCode \/ NextStep \/ ConfirmSave
         \/ (\E w \in Wallets : AddWallet(w) \/ SetDefault(w))
         \/ ConnectTelegram \/ DisconnectTelegram \/ TestTelegram \/ GetIgCode \/ DropInstagram
         \/ PatchEmail \/ SaveStore \/ SaveQuestions
  PROVE  KInv'
<1>0. TabOK(tab)
  BY DEF KInv
<1>1. ASSUME NEW flag \in Flags, NEW op \in Ops, NEW of \in Wallets \cup Links \cup {None}, NEW arg \in Args,
             op # "start", op \in {"wallet", "setDefault"} => of \in Wallets,
             op \in {"send", "verify"} => arg \in Purposes, Acts(flag, NewCall(op, of, arg, "none"))
      PROVE  KInv'
  <2>1. Shaped(NewCall(op, of, arg, "none"))
    BY DEF NewCall, Shaped, CallFields
  <2>2. CallOK(NewCall(op, of, arg, "none"))
    BY <1>1, NewOK
  <2> QED
    BY <1>1, <2>1, <2>2, ActsTyped
<1>2. ASSUME NEW flag \in Flags, NEW op \in Ops \ {"start", "wallet", "setDefault", "send", "verify"}, Acts(flag, Plain(op))
      PROVE  KInv'
  BY <1>1, <1>2 DEF Plain, Args
<1>3. CASE SubmitLogin \/ SubmitRegister \/ ConnectTelegram \/ DisconnectTelegram \/ TestTelegram
  <2>1. \E flag \in {"page", "tg"}, op \in {"login", "register", "link", "disconnect", "save"} : Acts(flag, Plain(op))
    BY <1>3 DEF SubmitLogin, SubmitRegister, ConnectTelegram, DisconnectTelegram, TestTelegram
  <2> QED
    BY <1>2, <2>1 DEF Flags, Ops, Makers
<1>4. CASE GetIgCode \/ DropInstagram \/ PatchEmail \/ SaveStore \/ SaveQuestions
  <2>1. \E flag \in {"page", "ig", "email"}, op \in {"igcode", "igdrop", "save", "logo"} : Acts(flag, Plain(op))
    BY <1>4 DEF GetIgCode, DropInstagram, PatchEmail, SaveStore, SaveQuestions
  <2> QED
    BY <1>2, <2>1 DEF Flags, Ops
<1>5. CASE AskLoginCode \/ AskRegisterCode
  <2>1. \E page \in Purposes : Acts("page", NewCall("send", None, page, "none"))
    BY <1>5 DEF AskLoginCode, AskRegisterCode, AskCode, Purposes
  <2> QED
    BY <1>1, <2>1 DEF Flags, Ops, Args
<1>6. CASE EnterLoginCode \/ EnterRegisterCode
  <2>0. PICK page \in Purposes : EnterCode(page)
    BY <1>6 DEF EnterLoginCode, EnterRegisterCode, Purposes
  <2>1. PICK g \in {0, code[page].no} : Acts("page", [NewCall("verify", None, page, "none") EXCEPT !.guess = g])
    BY <2>0 DEF EnterCode
  <2>2. g \in 0..MaxCodes
    BY <2>1, ConstantsAssumption DEF KInv, ServerOK, PeopleOK
  <2> DEFINE k == [NewCall("verify", None, page, "none") EXCEPT !.guess = g]
  <2>3. Shaped(k) /\ CallOK(k)
    <3>1. CallOK(NewCall("verify", None, page, "none"))
      BY NewOK DEF Ops, Args
    <3>2. Shaped(NewCall("verify", None, page, "none"))
      BY DEF NewCall, Shaped, CallFields
    <3> QED
      BY <2>2, <3>1, <3>2 DEF Shaped, CallFields, CallOK
  <2> HIDE DEF k
  <2>4. Acts("page", k)
    BY <2>1 DEF k
  <2> QED
    BY <2>3, <2>4, ActsTyped DEF Flags
<1>7. CASE NextStep
  <2>1. PICK name \in Slugs : name = tab.slug
    BY <1>0 DEF TabOK
  <2>2. \/ Acts("page", NewCall("merchant", None, name, "none"))
        \/ \E op \in {"suggest", "complete"} : Acts("page", Plain(op))
    BY <1>7, <2>1 DEF NextStep
  <2> QED
    BY <1>1, <1>2, <2>2 DEF Flags, Ops, Args
<1>8. CASE ConfirmSave
  <2>1. PICK w, arg : /\ w = tab.draft /\ arg \in {"default", "none"}
                     /\ Acts("page", NewCall("wallet", w, arg, "none"))
    BY <1>8 DEF ConfirmSave
  <2>2. w \in Wallets
    BY <1>0, <1>8, <2>1 DEF ConfirmSave, TabOK
  <2> QED
    BY <1>1, <2>1, <2>2 DEF Flags, Ops, Args
<1>9. ASSUME NEW w \in Wallets, AddWallet(w) \/ SetDefault(w) PROVE KInv'
  <2>1. \E op \in {"wallet", "setDefault"} : Acts("page", NewCall(op, w, "default", "none"))
    BY <1>9 DEF AddWallet, SetDefault
  <2> QED
    BY <1>1, <2>1 DEF Flags, Ops, Args
<1> QED
  BY <1>3, <1>4, <1>5, <1>6, <1>7, <1>8, <1>9

\* The rest of what a merchant does to the page.
LEMMA TabTyped ==
  ASSUME IInv, KInv,
         \/ SwitchMode \/ WithGoogle \/ EditSlug \/ StepBack \/ Reconsider \/ CancelArchive \/ Archive
         \/ (\E w \in Wallets : Consider(w) \/ AskArchive(w))
         \/ Logout \/ Focus \/ \E p \in world.pages : Open(p)
  PROVE  KInv'
<1>0. Laid(tab) /\ TabOK(tab)
  BY Standing DEF KInv
<1>1. ASSUME TabOK(tab'), UNCHANGED <<server, calls>> PROVE KInv'
  <2>1. CallsOK'
    BY <1>1 DEF KInv, CallsOK
  <2> QED
    BY <1>1, <2>1, PageTyped
<1>2. CASE SwitchMode
  BY <1>0, <1>1, <1>2 DEF SwitchMode, Laid, TabFields, TabOK
<1>3. CASE StepBack \/ Reconsider \/ CancelArchive
  <2>1. TabOK(tab')
    <3>1. CASE StepBack
      BY <1>0, <3>1 DEF StepBack, Laid, TabFields, TabOK
    <3>2. CASE Reconsider
      BY <1>0, <3>2 DEF Reconsider, Laid, TabFields, TabOK
    <3>3. CASE CancelArchive
      BY <1>0, <3>3 DEF CancelArchive, Laid, TabFields, TabOK
    <3> QED
      BY <1>3, <3>1, <3>2, <3>3
  <2> QED
    BY <1>1, <1>3, <2>1 DEF StepBack, Reconsider, CancelArchive
<1>4. ASSUME NEW w \in Wallets, Consider(w) \/ AskArchive(w) PROVE KInv'
  <2>1. TabOK(tab')
    BY <1>0, <1>4 DEF Consider, AskArchive, Laid, TabFields, TabOK
  <2> QED
    BY <1>1, <1>4, <2>1 DEF Consider, AskArchive
<1>5. CASE WithGoogle
  <2> DEFINE k == [Plain("google") EXCEPT !.live = FALSE]
  <2>1. CallOK(k)
    BY ConstantsAssumption DEF Plain, NewCall, CallOK, Stages, Ops, Makers, Args
  <2>2. calls' \subseteq calls \cup Left(calls) \cup {k} /\ UNCHANGED server /\ tab' = NewTab("home")
    BY <1>5 DEF WithGoogle
  <2> HIDE DEF k
  <2>3. CallsOK'
    <3>1. PICK N : N = {k}
      OBVIOUS
    <3>2. calls' \subseteq calls \cup Left(calls) \cup N /\ \A c \in N : CallOK(c)
      BY <2>1, <2>2, <3>1
    <3> QED
      BY <3>2, CallsTyped DEF KInv
  <2>4. TabOK(tab')
    BY <2>2, NewTabOK DEF Pages
  <2> QED
    BY <2>2, <2>3, <2>4, PageTyped
<1>6. CASE EditSlug
  <2>1. PICK s \in Slugs, op \in {"suggest", "check"} : Clicks([tab EXCEPT !.slug = s], Plain(op))
    BY <1>6 DEF EditSlug
  <2>2. TabOK([tab EXCEPT !.slug = s])
    BY <1>0 DEF Laid, TabFields, TabOK
  <2>3. CallOK(Plain(op))
    BY PlainOK DEF Ops, Reads
  <2> QED
    BY <2>1, <2>2, <2>3, ClicksTyped
<1>7. CASE Archive
  <2> DEFINE update == [tab EXCEPT !.busy = @ \cup {"page"}]
             k == [NewCall("archive", tab.doomed, "none", "none") EXCEPT !.own = "page"]
  <2>1. TabOK(update)
    BY BusyOK DEF Flags
  <2>2. Shaped(NewCall("archive", tab.doomed, "none", "none"))
    BY DEF NewCall, Shaped, CallFields
  <2>3. CallOK(NewCall("archive", tab.doomed, "none", "none"))
    BY <1>0, NewOK DEF TabOK, Ops, Args
  <2>4. CallOK(k)
    BY <2>2, <2>3, OwnOK DEF Flags
  <2>5. Clicks(update, k)
    BY <1>7 DEF Archive
  <2> HIDE DEF update, k
  <2> QED
    BY <2>1, <2>4, <2>5, ClicksTyped
<1>8. CASE Logout \/ Focus
  <2>1. PICK op \in {"logout", "me"}, arg \in {"none", "focus"} : Clicks(tab, NewCall(op, None, arg, "none"))
    BY <1>8 DEF Logout, Focus, Plain
  <2>2. CallOK(NewCall(op, None, arg, "none"))
    BY NewOK DEF Ops, Reads, Args
  <2> QED
    BY <1>0, <2>1, <2>2, ClicksTyped
<1>9. ASSUME NEW p \in world.pages, Open(p) PROVE KInv'
  <2>1. p \in Pages
    BY ConstantsAssumption DEF KInv, ServerOK, ShopOK, World
  <2> QED
    BY <1>9, <2>1, OpensTyped DEF Open
<1> QED
  BY <1>2, <1>3, <1>4, <1>5, <1>6, <1>7, <1>8, <1>9

LEMMA InitKInv == Init => KInv
<1> SUFFICES ASSUME Init PROVE KInv
  OBVIOUS
<1>1. world \in World
  BY ConstantsAssumption DEF Init
<1>2. PeopleOK
  <2>1. account \in [state: {"none", "user", "merchant"}, by: {"email", "phone"}]
    <3>1. account.state \in {"none", "merchant"} /\ account = [state |-> account.state, by |-> account.by]
          /\ account.by \in {"email", "phone"}
      BY <1>1 DEF Init, World
    <3> QED
      BY <3>1
  <2>2. session \in BOOLEAN
    BY DEF Init
  <2>3. code \in [Purposes -> [no: 0..MaxCodes, tries: Nat, dead: BOOLEAN]]
    BY ConstantsAssumption DEF Init, NoCode
  <2> QED
    BY <2>1, <2>2, <2>3 DEF PeopleOK
<1>3. ShopOK
  BY <1>1 DEF Init, ShopOK, World
<1>4. TelegramOK
  BY DEF Init, TelegramOK
<1>5. TabOK(tab)
  BY NewTabOK DEF Init, Pages
<1>6. CallsOK
  BY DEF Init, CallsOK
<1> QED
  BY <1>2, <1>3, <1>4, <1>5, <1>6 DEF KInv, ServerOK

LEMMA NextKInv == IInv /\ KInv /\ [Next]_vars => KInv'
<1> SUFFICES ASSUME IInv, KInv, [Next]_vars PROVE KInv'
  OBVIOUS
<1>1. CASE UNCHANGED vars
  <2>1. CallsOK' /\ TabOK(tab')
    BY <1>1 DEF vars, KInv, CallsOK
  <2> QED
    BY <1>1, <2>1, PageTyped DEF vars
<1>2. ASSUME NEW c \in calls, Answer(c) \/ Redeliver(c) PROVE KInv'
  <2>1. UNCHANGED tab
    BY <1>2 DEF Answer, Redeliver
  <2> QED
    BY <1>2, <2>1, PeopleTyped, ShopTyped, TelegramTyped DEF Answer
<1>3. ASSUME NEW c \in calls, Deliver(c) \/ Fail(c) \/ Lose(c) PROVE KInv'
  BY <1>3, Told, FailedTyped
<1> QED
  BY <1>1, <1>2, <1>3, OthersTyped, ButtonsTyped, TabTyped DEF Next

\* Tables, the page and its calls keep their shapes, whatever is called,
\* answered, lost and delivered again.
THEOREM TypeCorrect == Spec => []TypeOK
<1>1. Spec => [](IInv /\ GInv /\ KInv)
  BY InitIInv, InitGInv, InitKInv, Inductive, NextGInv, NextKInv, PTL DEF Spec
<1> QED
  BY <1>1, Typed, PTL
=============================================================================
