------------------------------ MODULE Handoff ------------------------------
(***************************************************************************)
(* The pay sheet hands the buyer over to a wallet: a payment URI that is   *)
(* opened, or a WalletConnect session in which the wallet is asked for the *)
(* transfer. Attempts may run side by side (the wallet picker starts one   *)
(* whatever is under way), share the session of the module, and come back  *)
(* after the page has moved on to another option.                          *)
(***************************************************************************)
EXTENDS Naturals, FiniteSets

CONSTANTS
  Options,    \* payment options the sheet may be given
  Tron,       \* the ones on TRON; the others are on BNB Smart Chain
  WithUri,    \* the ones that have a payment URI
  Devices,    \* browsers of buyers
  Attempts,   \* bound: attempts to pay under way at once
  Providers,  \* bound: WalletConnect providers the page holds at once
  None        \* no provider, wallet or attempt

VARIABLES
  device,     \* what detectBrowserEnv found, and whether a project id is set
  option,     \* the option the sheet shows
  stored,     \* wallet last used, per network, kept by the browser
  preferred,  \* the wallet the sheet prefers
  sheet,      \* busyPay, pickerOpen, handoffTrouble
  attempt,    \* attempts to pay
  cached,     \* cachedWC
  init,       \* provider that providerInit resolves to
  session     \* state of each provider

page == <<device, option>>
wc   == <<cached, init, session>>
vars == <<page, stored, preferred, sheet, attempt, wc>>

-----------------------------------------------------------------------------
Nets    == {"tron", "bsc"}
Wallets == {"tronlink", "walletconnect", "trust", "other"}

Device  == [mobile: BOOLEAN, inApp: BOOLEAN, projectId: BOOLEAN]
Sheet   == [busy: BOOLEAN, picker: BOOLEAN, trouble: BOOLEAN]
Steps   == {"init", "connect", "chain", "send", "noprovider"}
Attempt == [wallet: Wallets, option: Options, step: Steps, provider: Providers \cup {None}]
States  == {"none", "pending", "live", "broken", "dropped"}

ASSUME ConstantsAssumption ==
  /\ Tron \subseteq Options /\ WithUri \subseteq Options /\ Devices \subseteq Device
  /\ None \notin Providers \cup Wallets \cup Attempt

NetOf(o) == IF o \in Tron THEN "tron" ELSE "bsc"

Init ==
  /\ device \in Devices /\ option \in Options
  /\ stored = [n \in Nets |-> None] /\ preferred = None
  /\ sheet = [busy |-> FALSE, picker |-> FALSE, trouble |-> FALSE]
  /\ attempt = [a \in Attempts |-> None]
  /\ cached = None /\ init = None /\ session = [p \in Providers |-> "none"]

-----------------------------------------------------------------------------
\* buildHandoffPlan.

\* The wallets of the picker.
Listed(o) ==
  {"other"} \cup (IF o \in Tron THEN {"tronlink"}
                  ELSE IF device.projectId THEN {"walletconnect", "trust"} ELSE {})

\* The wallet of the pay button: the preferred one, the recommended one, any.
Primary(o) ==
  IF preferred \in Listed(o) THEN preferred
  ELSE IF o \in Tron THEN "tronlink"
  ELSE IF device.projectId THEN "walletconnect" ELSE "other"

-----------------------------------------------------------------------------
\* The sheet.

\* Mutant: the wallet is remembered for the network shown by now.
Finish_ShownNetwork(a, o, wallet, result) ==
  /\ stored' = [stored EXCEPT ![NetOf(option)] = wallet] /\ preferred' = wallet
  /\ sheet' = [sheet EXCEPT !.busy = FALSE, !.picker = FALSE]
  /\ attempt' = [attempt EXCEPT ![a] = None]

\* The end of pay(). Its option is the one the buyer clicked on.
Finish(a, o, wallet, result) ==
  /\ stored' = [stored EXCEPT ![NetOf(o)] = wallet] /\ preferred' = wallet
  /\ sheet' = [sheet EXCEPT
       !.busy = FALSE, !.picker = FALSE,
       !.trouble = @ \/ (result # "ok" /\ (device.inApp \/ result \in {"failed", "unsupported"}))]
  /\ attempt' = [attempt EXCEPT ![a] = None]

\* launchEip681, launchTronHandoff on a phone: the URI, or TronLink, opens or
\* the browser refuses.
UriResults(o) == IF o \in Tron \cup WithUri THEN {"ok", "failed"} ELSE {"unsupported"}

Clicked == [sheet EXCEPT !.busy = TRUE, !.trouble = FALSE]

Began(a, wallet, step, p) ==
  attempt' = [attempt EXCEPT ![a] = [wallet |-> wallet, option |-> option, step |-> step, provider |-> p]]

Held(p) == p = cached \/ p = init \/ \E a \in Attempts : attempt[a] # None /\ attempt[a].provider = p

\* getWalletConnectProvider, up to its first await.
GetProvider(a, wallet) ==
  \/ /\ cached # None
     /\ Began(a, wallet, "connect", cached) /\ UNCHANGED wc
  \/ /\ cached = None /\ init # None
     /\ Began(a, wallet, IF session[init] = "pending" THEN "init" ELSE "connect", init)
     /\ UNCHANGED wc
  \/ /\ cached = None /\ init = None
     /\ \E p \in Providers :
          /\ ~Held(p)
          /\ init' = p /\ session' = [session EXCEPT ![p] = "pending"]
          /\ Began(a, wallet, "init", p)
     /\ UNCHANGED cached

\* pay(), launchWalletHandoff: everything up to the first await.
Pay(a, wallet) ==
  /\ attempt[a] = None
  /\ IF option \notin Tron /\ wallet \in {"walletconnect", "trust"}
     THEN /\ sheet' = Clicked
          /\ GetProvider(a, wallet)
          /\ UNCHANGED <<stored, preferred>>
     ELSE /\ \E r \in UriResults(option) : Finish(a, option, wallet, r)
          /\ UNCHANGED wc
  /\ UNCHANGED page

\* The pay button, which a payment under way disables.
PayButton(a) ==
  /\ device.mobile /\ ~sheet.busy
  /\ Pay(a, Primary(option))

OpenPicker ==
  /\ device.mobile /\ ~sheet.picker
  /\ sheet' = [sheet EXCEPT !.picker = TRUE]
  /\ UNCHANGED <<page, stored, preferred, attempt, wc>>

ClosePicker ==
  /\ sheet.picker
  /\ sheet' = [sheet EXCEPT !.picker = FALSE]
  /\ UNCHANGED <<page, stored, preferred, attempt, wc>>

\* WalletPickerSheet: onSelect asks nobody whether a payment is under way.
PickWallet(a, wallet) ==
  /\ sheet.picker /\ wallet \in Listed(option)
  /\ Pay(a, wallet)

\* The page gives the sheet an option: the same one loaded again, that of a new
\* quote or of another network.
OptionChanges ==
  /\ option' \in Options
  /\ preferred' = stored[NetOf(option')]
  /\ UNCHANGED <<device, stored, sheet, attempt, wc>>

-----------------------------------------------------------------------------
\* WalletConnect.

\* EthereumProvider.init of p resolves; whoever waits for it goes on.
InitDone(p) ==
  /\ session[p] = "pending"
  /\ session' = [session EXCEPT ![p] = "live"]
  /\ cached' = p
  /\ attempt' = [a \in Attempts |->
       IF attempt[a] # None /\ attempt[a].provider = p
       THEN [attempt[a] EXCEPT !.step = "connect"] ELSE attempt[a]]
  /\ UNCHANGED <<page, stored, preferred, sheet, init>>

\* Mutant: the missing provider is used.
InitFails_Unnoticed(p) ==
  /\ session[p] = "pending"
  /\ session' = [session EXCEPT ![p] = "none"]
  /\ cached' = None /\ init' = None
  /\ attempt' = [a \in Attempts |->
       IF attempt[a] # None /\ attempt[a].provider = p
       THEN [attempt[a] EXCEPT !.provider = None, !.step = "connect"] ELSE attempt[a]]
  /\ UNCHANGED <<page, stored, preferred, sheet>>

InitFails(p) ==
  /\ session[p] = "pending"
  /\ session' = [session EXCEPT ![p] = "none"]
  /\ cached' = None /\ init' = None
  /\ attempt' = [a \in Attempts |->
       IF attempt[a] # None /\ attempt[a].provider = p
       THEN [attempt[a] EXCEPT !.step = "noprovider", !.provider = None] ELSE attempt[a]]
  /\ UNCHANGED <<page, stored, preferred, sheet>>

\* The wallet or the relay ends the session.
SessionBreaks(p) ==
  /\ session[p] = "live"
  /\ session' = [session EXCEPT ![p] = "broken"]
  /\ UNCHANGED <<page, stored, preferred, sheet, attempt, cached, init>>

\* connect, ensureChain and eth_accounts: the wallet agrees.
After == [connect |-> "chain", chain |-> "send"]

Agree(a) ==
  /\ attempt[a] # None /\ attempt[a].step \in {"connect", "chain"}
  /\ session[attempt[a].provider] = "live"
  /\ attempt' = [attempt EXCEPT ![a].step = After[@]]
  /\ UNCHANGED <<page, stored, preferred, sheet, wc>>

\* eth_sendTransaction: the buyer confirms it in the wallet.
Send(a) ==
  /\ attempt[a] # None /\ attempt[a].step = "send"
  /\ session[attempt[a].provider] = "live"
  /\ Finish(a, attempt[a].option, attempt[a].wallet, "ok")
  /\ UNCHANGED <<page, wc>>

\* The buyer rejects one of the requests: nothing else is opened.
Reject(a) ==
  /\ attempt[a] # None /\ attempt[a].step \in {"connect", "chain", "send"}
  /\ session[attempt[a].provider] = "live"
  /\ Finish(a, attempt[a].option, attempt[a].wallet, "user_rejected")
  /\ UNCHANGED <<page, wc>>

\* The session has no account: nothing is dropped, the URI is opened.
NoAccount(a) ==
  /\ attempt[a] # None /\ attempt[a].step = "send"
  /\ session[attempt[a].provider] = "live"
  /\ \E r \in UriResults(attempt[a].option) :
       Finish(a, attempt[a].option, attempt[a].wallet, IF r = "ok" THEN r ELSE "failed")
  /\ UNCHANGED <<page, wc>>

\* Mutant: nothing is dropped.
Drop_Nothing == UNCHANGED wc

\* dropWalletConnectProvider disconnects what is cached by now.
Drop ==
  /\ cached' = None /\ init' = None
  /\ session' = [p \in Providers |-> IF p = cached THEN "dropped" ELSE session[p]]

\* A request fails otherwise, perhaps after the wallet has broadcast the
\* transfer: drop the session and open the URI instead.
RequestFails(a) ==
  /\ attempt[a] # None /\ attempt[a].step \in {"connect", "chain", "send"}
  /\ Drop
  /\ \E r \in UriResults(attempt[a].option) :
       Finish(a, attempt[a].option, attempt[a].wallet, IF r = "ok" THEN r ELSE "failed")
  /\ UNCHANGED page

NoProvider(a) ==
  /\ attempt[a] # None /\ attempt[a].step = "noprovider"
  /\ \E r \in UriResults(attempt[a].option) :
       Finish(a, attempt[a].option, attempt[a].wallet, IF r = "ok" THEN r ELSE "failed")
  /\ UNCHANGED <<page, wc>>

-----------------------------------------------------------------------------
Respond(a) == Agree(a) \/ Send(a) \/ Reject(a) \/ NoAccount(a) \/ RequestFails(a) \/ NoProvider(a)

Next ==
  \/ OpenPicker \/ ClosePicker \/ OptionChanges
  \/ \E p \in Providers : InitDone(p) \/ InitFails(p) \/ SessionBreaks(p)
  \/ \E a \in Attempts :
       \/ PayButton(a) \/ Respond(a)
       \/ \E w \in Wallets : PickWallet(a, w)

Spec == Init /\ [][Next]_vars

\* Wallets and relays answer at last: they resolve or reject.
FairSpec ==
  /\ Spec
  /\ \A a \in Attempts : WF_vars(Respond(a))
  /\ \A p \in Providers : WF_vars(InitDone(p) \/ InitFails(p))

-----------------------------------------------------------------------------
\* Type invariant: the sheet, its attempts and the sessions keep their shapes.
TypeOK ==
  /\ device \in Device /\ option \in Options /\ sheet \in Sheet
  /\ stored \in [Nets -> Wallets \cup {None}] /\ preferred \in Wallets \cup {None}
  /\ attempt \in [Attempts -> Attempt \cup {None}]
  /\ \A a \in Attempts : attempt[a] # None => (attempt[a].provider = None <=> attempt[a].step = "noprovider")
  /\ {cached, init} \subseteq Providers \cup {None} /\ session \in [Providers -> States]

\* The wallet remembered for a network can pay on it, although the buyer may
\* have gone to another network before the wallet answered (pay, registry.ts:
\* "Never lists TronLink on EVM").
PreferenceFitsNetwork ==
  /\ stored["tron"] \in {"tronlink", "other", None}
  /\ stored["bsc"] \in {"walletconnect", "trust", "other", None}

\* A broken session that is used is dropped, "so the next attempt can re-init
\* cleanly" (payWithWalletConnect).
BrokenIsReplaced ==
  \A a \in Attempts, p \in Providers :
    attempt[a] # None /\ attempt[a].provider = p /\ cached = p /\ session[p] = "broken" ~> cached # p
=============================================================================
