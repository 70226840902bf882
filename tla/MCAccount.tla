----------------------------- MODULE MCAccount ------------------------------
EXTENDS Account
CONSTANTS w1, w2, l1, a, b

MCWallets == {w1, w2}
MCLinks == {l1}
MCChats == {a, b}

W(state, name, phone, form, pages, others) ==
  [state |-> state, slug |-> name, phone |-> phone, forms |-> {form}, pages |-> pages,
   others |-> others, has |-> None, adds |-> {w1, w2}, drops |-> {}, sells |-> {}]

MCWorlds ==
  {W("none", "own", TRUE, "phone", {"register"}, {}),
   W("merchant", "own", TRUE, "phone", {"login"}, {"verify"}),
   W("none", "reserved", FALSE, "email", {"register"}, {}),
   W("merchant", "reserved", FALSE, "email", {"onboarding"}, {"archive"}),
   [W("merchant", "own", FALSE, "email", {"wallets"}, {}) EXCEPT !.has = w1, !.adds = {w2}],
   [W("merchant", "own", FALSE, "email", {"wallets"}, {}) EXCEPT !.has = w1, !.adds = {w1}, !.drops = {w1}],
   [W("merchant", "own", FALSE, "email", {"home"}, {"wallet", "setDefault", "archive", "complete"})
      EXCEPT !.sells = {w1, w2}],
   W("merchant", "own", FALSE, "email", {"notify"}, {}),
   W("merchant", "own", FALSE, "email", {"login", "store", "questions", "settings"}, {})}
=============================================================================
