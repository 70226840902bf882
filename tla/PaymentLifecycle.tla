-------------------------- MODULE PaymentLifecycle --------------------------
(***************************************************************************)
(* What Pooli promises about the payment of an order, without the tables:  *)
(* an order is unpaid, has a payment in flight, is paid, or needs a person *)
(* to look at it; it becomes in flight or paid only through a transfer     *)
(* credited to it, no transfer is credited twice, and an order that has    *)
(* shown any sign of money never looks unpaid again.                       *)
(***************************************************************************)
CONSTANTS Orders, Events

VARIABLES
  stage,    \* stage[o]: what the order's payment looks like
  credited  \* credited[o]: exact transfers credited to the order

vars == <<stage, credited>>

Stages == {"none", "unpaid", "inflight", "paid", "review"}

TypeOK ==
  /\ stage \in [Orders -> Stages]
  /\ credited \in [Orders -> SUBSET Events]

Init ==
  /\ stage = [o \in Orders |-> "none"]
  /\ credited = [o \in Orders |-> {}]

\* The order is quoted for the first time.
Open(o) ==
  /\ stage[o] = "none"
  /\ stage' = [stage EXCEPT ![o] = "unpaid"]
  /\ UNCHANGED credited

\* A transfer of the exact amount is credited, confirmed already or not.
Credit(o, e) ==
  /\ stage[o] \in {"unpaid", "review"}
  /\ \A p \in Orders : e \notin credited[p]
  /\ credited' = [credited EXCEPT ![o] = @ \cup {e}]
  /\ \E s \in {"inflight", "paid"} : stage' = [stage EXCEPT ![o] = s]

\* Confirmations of a credited transfer came in.
Confirm(o) ==
  /\ stage[o] \in {"inflight", "review"}
  /\ credited[o] # {}
  /\ \E s \in {"inflight", "paid"} : stage' = [stage EXCEPT ![o] = s]
  /\ UNCHANGED credited

\* Late, approximate or second transfers, or an operator, call for review.
Escalate(o) ==
  /\ stage[o] # "none"
  /\ stage' = [stage EXCEPT ![o] = "review"]
  /\ UNCHANGED credited

Next == \E o \in Orders :
          Open(o) \/ Confirm(o) \/ Escalate(o) \/ \E e \in Events : Credit(o, e)

Spec == Init /\ [][Next]_vars

\* Only a credited transfer makes an order paid or in flight, and none counts
\* for two orders.
PaidByCredit ==
  /\ \A o \in Orders : stage[o] \in {"inflight", "paid"} => credited[o] # {}
  /\ \A o, p \in Orders : credited[o] \cap credited[p] # {} => o = p
=============================================================================
