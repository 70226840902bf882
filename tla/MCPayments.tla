----------------------------- MODULE MCPayments -----------------------------
(* Instances of Payments for TLC. *)
EXTENDS Payments, TLC

CONSTANTS o1, o2, tron, bsc

AllRails      == [o \in Orders |-> Rails]
MCRequired    == [r \in Rails |-> IF r = tron THEN 1 ELSE 2]
ShortExpiry   == [o \in Orders |-> 1]
LongExpiry    == [o \in Orders |-> 9]
Symmetry      == Permutations(Events) \cup Permutations(Orders)
=============================================================================
