---------------------------- MODULE HandoffProofs ----------------------------
(***************************************************************************)
(* What the sheet remembers of wallets, for any options, browsers,         *)
(* attempts and WalletConnect providers. The invariant says what an        *)
(* attempt under way stands for: a WalletConnect wallet, on the network of *)
(* the option the buyer clicked on, with a provider until there is none.   *)
(***************************************************************************)
EXTENDS Handoff, TLAPS

\* The wallets that can pay an option.
Fits(o) == IF o \in Tron THEN {"tronlink", "other"} ELSE {"walletconnect", "trust", "other"}

\* An attempt that waits for a wallet waits for one that can pay its option.
WaitsForFitting ==
  \A a \in Attempts : attempt[a] # None =>
    /\ attempt[a].wallet \in {"walletconnect", "trust"} /\ attempt[a].option \notin Tron

IInv == TypeOK /\ PreferenceFitsNetwork /\ WaitsForFitting

-----------------------------------------------------------------------------
\* The end of an attempt remembers its wallet for its own network, which may
\* not be the one shown by now.
LEMMA Finishes ==
  ASSUME IInv, NEW a \in Attempts, NEW o \in Options, NEW wallet \in Fits(o), NEW result,
         Finish(a, o, wallet, result), UNCHANGED page,
         {cached', init'} \subseteq Providers \cup {None}, session' \in [Providers -> States]
  PROVE  IInv'
<1>1. wallet \in Wallets /\ NetOf(o) \in Nets
  BY DEF Fits, Wallets, NetOf, Nets
<1>2. stored' \in [Nets -> Wallets \cup {None}] /\ preferred' \in Wallets \cup {None}
  BY <1>1 DEF Finish, IInv, TypeOK
<1>3. sheet' \in Sheet
  <2> DEFINE trouble == sheet.trouble \/ (result # "ok" /\ (device.inApp \/ result \in {"failed", "unsupported"}))
  <2>1. trouble \in BOOLEAN
    OBVIOUS
  <2>2. sheet' = [sheet EXCEPT !.busy = FALSE, !.picker = FALSE, !.trouble = trouble]
    BY Zenon DEF Finish
  <2> HIDE DEF trouble
  <2> QED
    BY <2>1, <2>2 DEF IInv, TypeOK, Sheet
<1>4. /\ attempt' = [attempt EXCEPT ![a] = None] /\ attempt' \in [Attempts -> Attempt \cup {None}]
      /\ \A b \in Attempts : attempt'[b] # None => attempt'[b] = attempt[b]
  BY DEF Finish, IInv, TypeOK
<1>5. TypeOK'
  BY <1>2, <1>3, <1>4 DEF IInv, TypeOK, page
<1>6. PreferenceFitsNetwork'
  BY <1>1 DEF Finish, IInv, TypeOK, PreferenceFitsNetwork, Fits, NetOf, Nets
<1>7. WaitsForFitting'
  BY <1>4 DEF IInv, WaitsForFitting
<1> QED
  BY <1>5, <1>6, <1>7 DEF IInv

\* An attempt that begins waits for a provider.
LEMMA Begins ==
  ASSUME IInv, NEW a \in Attempts, NEW wallet \in {"walletconnect", "trust"}, option \notin Tron,
         sheet' = Clicked, GetProvider(a, wallet), UNCHANGED <<page, stored, preferred>>
  PROVE  IInv'
<1>1. PICK step \in {"init", "connect"}, p \in Providers : Began(a, wallet, step, p)
  <2>1. {cached, init} \subseteq Providers \cup {None}
    BY DEF IInv, TypeOK
  <2> QED
    BY <2>1 DEF GetProvider
<1>2. {cached', init'} \subseteq Providers \cup {None} /\ session' \in [Providers -> States]
  BY DEF GetProvider, wc, IInv, TypeOK, States
<1>3. sheet' \in Sheet
  BY DEF Clicked, IInv, TypeOK, Sheet
<1>4. PICK new : new = [wallet |-> wallet, option |-> option, step |-> step, provider |-> p]
  OBVIOUS
<1>5. /\ new \in Attempt /\ new.provider = p /\ new.step = step /\ new.wallet = wallet /\ new.option = option
      /\ p # None
  BY <1>4, ConstantsAssumption DEF IInv, TypeOK, Attempt, Steps, Wallets
<1>6. attempt' = [attempt EXCEPT ![a] = new]
  BY <1>1, <1>4 DEF Began
<1>7. TypeOK'
  BY <1>2, <1>3, <1>5, <1>6 DEF IInv, TypeOK, page
<1>8. PreferenceFitsNetwork'
  BY DEF IInv, PreferenceFitsNetwork
<1>9. WaitsForFitting'
  BY <1>5, <1>6 DEF IInv, TypeOK, WaitsForFitting
<1> QED
  BY <1>7, <1>8, <1>9 DEF IInv

\* The buyer pays with a wallet that can pay what is shown.
LEMMA PayStep ==
  ASSUME IInv, NEW a \in Attempts, NEW wallet \in Fits(option), Pay(a, wallet)
  PROVE  IInv'
<1>1. UNCHANGED page
  BY DEF Pay
<1>2. CASE option \notin Tron /\ wallet \in {"walletconnect", "trust"}
  BY <1>1, <1>2, Begins DEF Pay
<1>3. CASE ~(option \notin Tron /\ wallet \in {"walletconnect", "trust"})
  <2>1. PICK r : Finish(a, option, wallet, r)
    BY <1>3 DEF Pay
  <2>2. option \in Options /\ UNCHANGED wc
    BY <1>3 DEF Pay, IInv, TypeOK
  <2> QED
    BY <1>1, <2>1, <2>2, Finishes DEF wc, IInv, TypeOK
<1> QED
  BY <1>2, <1>3

\* The pay button's wallet and those of the picker can.
LEMMA Offered == Primary(option) \in Fits(option) /\ Listed(option) \subseteq Fits(option)
BY DEF Primary, Listed, Fits

\* Steps that leave attempts, wallets and what is shown alone.
LEMMA SheetStep == ASSUME IInv, OpenPicker \/ ClosePicker \/ OptionChanges PROVE IInv'
<1>1. UNCHANGED <<device, stored, attempt, wc>>
  BY DEF OpenPicker, ClosePicker, OptionChanges, page
<1>2. option' \in Options /\ preferred' \in Wallets \cup {None}
  BY DEF OpenPicker, ClosePicker, OptionChanges, page, IInv, TypeOK, NetOf, Nets
<1>3. sheet' \in Sheet
  BY DEF OpenPicker, ClosePicker, OptionChanges, IInv, TypeOK, Sheet
<1>4. TypeOK'
  BY <1>1, <1>2, <1>3 DEF IInv, TypeOK, wc
<1> QED
  BY <1>1, <1>4 DEF IInv, PreferenceFitsNetwork, WaitsForFitting

\* A provider is there for all that wait for it, or the session breaks.
LEMMA DoneStep == ASSUME IInv, NEW p \in Providers, InitDone(p) \/ SessionBreaks(p) PROVE IInv'
<1> DEFINE Ready(b) == [b EXCEPT !.step = "connect"]
<1>1. \A b \in Attempt : /\ Ready(b) \in Attempt /\ Ready(b).step = "connect" /\ Ready(b).wallet = b.wallet
                         /\ Ready(b).option = b.option /\ Ready(b).provider = b.provider
  BY DEF Attempt, Steps
<1>2. CASE SessionBreaks(p)
  BY <1>2 DEF SessionBreaks, page, IInv, TypeOK, States, PreferenceFitsNetwork, WaitsForFitting
<1>3. CASE InitDone(p)
  <2>1. attempt' = [a \in Attempts |-> IF attempt[a] # None /\ attempt[a].provider = p
                                       THEN Ready(attempt[a]) ELSE attempt[a]]
    BY <1>3, Zenon DEF InitDone
  <2>2. /\ UNCHANGED <<page, stored, preferred, sheet, init>> /\ cached' = p
        /\ session' = [session EXCEPT ![p] = "live"]
    BY <1>3, Zenon DEF InitDone
  <2> HIDE DEF Ready
  <2>3. TypeOK'
    BY <1>1, <2>1, <2>2, ConstantsAssumption DEF IInv, TypeOK, page, States
  <2>4. WaitsForFitting'
    BY <1>1, <2>1 DEF IInv, TypeOK, WaitsForFitting
  <2> QED
    BY <2>2, <2>3, <2>4 DEF IInv, PreferenceFitsNetwork
<1> QED
  BY <1>2, <1>3

\* A provider is not there, for all that wait for it.
LEMMA FailsStep == ASSUME IInv, NEW p \in Providers, InitFails(p) PROVE IInv'
<1> DEFINE Stuck(b) == [b EXCEPT !.step = "noprovider", !.provider = None]
<1>1. \A b \in Attempt : /\ Stuck(b) \in Attempt /\ Stuck(b).step = "noprovider" /\ Stuck(b).wallet = b.wallet
                         /\ Stuck(b).option = b.option /\ Stuck(b).provider = None
  BY DEF Attempt, Steps
<1>2. attempt' = [a \in Attempts |-> IF attempt[a] # None /\ attempt[a].provider = p
                                     THEN Stuck(attempt[a]) ELSE attempt[a]]
  BY Zenon DEF InitFails
<1>3. /\ UNCHANGED <<page, stored, preferred, sheet>> /\ cached' = None /\ init' = None
      /\ session' = [session EXCEPT ![p] = "none"]
  BY Zenon DEF InitFails
<1> HIDE DEF Stuck
<1>4. TypeOK'
  BY <1>1, <1>2, <1>3, ConstantsAssumption DEF IInv, TypeOK, page, States
<1>5. WaitsForFitting'
  BY <1>1, <1>2 DEF IInv, TypeOK, WaitsForFitting
<1> QED
  BY <1>3, <1>4, <1>5 DEF IInv, PreferenceFitsNetwork

\* The wallet agrees to the next request.
LEMMA AgreeStep == ASSUME IInv, NEW a \in Attempts, Agree(a) PROVE IInv'
<1>1. attempt[a] \in Attempt /\ attempt[a].step \in {"connect", "chain"}
  BY DEF Agree, IInv, TypeOK
<1>2. PICK step \in {"chain", "send"} : attempt' = [attempt EXCEPT ![a].step = step]
  <2>1. After[attempt[a].step] \in {"chain", "send"}
    BY <1>1 DEF After
  <2> QED
    BY <2>1 DEF Agree
<1>3. PICK new : new = [attempt[a] EXCEPT !.step = step]
  OBVIOUS
<1>4. /\ new \in Attempt /\ new.provider = attempt[a].provider /\ new.step = step
      /\ new.wallet = attempt[a].wallet /\ new.option = attempt[a].option
  BY <1>1, <1>3 DEF Attempt, Steps
<1>5. attempt' = [attempt EXCEPT ![a] = new]
  BY <1>2, <1>3 DEF IInv, TypeOK
<1>6. UNCHANGED <<page, stored, preferred, sheet, wc>> /\ attempt[a] # None
  BY DEF Agree
<1>7. TypeOK'
  BY <1>1, <1>4, <1>5, <1>6 DEF IInv, TypeOK, page, wc
<1> QED
  BY <1>4, <1>5, <1>6, <1>7 DEF IInv, TypeOK, PreferenceFitsNetwork, WaitsForFitting

\* The other answers end the attempt.
LEMMA EndStep ==
  ASSUME IInv, NEW a \in Attempts,
         Send(a) \/ Reject(a) \/ NoAccount(a) \/ RequestFails(a) \/ NoProvider(a)
  PROVE  IInv'
<1>1. attempt[a] # None /\ UNCHANGED page
  BY DEF Send, Reject, NoAccount, RequestFails, NoProvider
<1>2. attempt[a].option \in Options /\ attempt[a].wallet \in Fits(attempt[a].option)
  BY <1>1 DEF IInv, TypeOK, Attempt, WaitsForFitting, Fits
<1>3. PICK r : Finish(a, attempt[a].option, attempt[a].wallet, r)
  BY DEF Send, Reject, NoAccount, RequestFails, NoProvider
<1>4. {cached', init'} \subseteq Providers \cup {None} /\ session' \in [Providers -> States]
  BY DEF Send, Reject, NoAccount, RequestFails, NoProvider, Drop, wc, IInv, TypeOK, States
<1> QED
  BY <1>1, <1>2, <1>3, <1>4, Finishes

\* The invariant holds at first, and every step keeps it.
LEMMA InitIInv == Init => IInv
BY ConstantsAssumption
   DEF Init, IInv, TypeOK, PreferenceFitsNetwork, WaitsForFitting, Sheet, Nets, States

LEMMA NextIInv == IInv /\ [Next]_vars => IInv'
<1> SUFFICES ASSUME IInv, [Next]_vars PROVE IInv'
  OBVIOUS
<1>1. CASE OpenPicker \/ ClosePicker \/ OptionChanges
  BY <1>1, SheetStep
<1>2. CASE \E p \in Providers : InitDone(p) \/ InitFails(p) \/ SessionBreaks(p)
  BY <1>2, DoneStep, FailsStep
<1>3. CASE \E a \in Attempts : PayButton(a) \/ \E w \in Wallets : PickWallet(a, w)
  BY <1>3, Offered, PayStep DEF PayButton, PickWallet
<1>4. CASE \E a \in Attempts : Respond(a)
  BY <1>4, AgreeStep, EndStep DEF Respond
<1>5. CASE UNCHANGED vars
  BY <1>5 DEF vars, page, wc, IInv, TypeOK, PreferenceFitsNetwork, WaitsForFitting
<1> QED
  BY <1>1, <1>2, <1>3, <1>4, <1>5 DEF Next

\* The sheet, its attempts and the sessions keep their shapes: an attempt has a
\* provider unless it knows that there is none, so no request is made of a
\* missing one (getWalletConnectProvider, payWithWalletConnect).
THEOREM TypeCorrect == Spec => []TypeOK
<1>1. IInv => TypeOK
  BY DEF IInv
<1> QED
  BY <1>1, InitIInv, NextIInv, PTL DEF Spec

\* The wallet remembered for a network can pay on it, although the sheet may
\* show another network by the time the wallet answers (pay, setPreferredWallet).
THEOREM PreferenceFits == Spec => []PreferenceFitsNetwork
<1>1. IInv => PreferenceFitsNetwork
  BY DEF IInv
<1> QED
  BY <1>1, InitIInv, NextIInv, PTL DEF Spec
=============================================================================
