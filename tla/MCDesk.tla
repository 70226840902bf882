------------------------------- MODULE MCDesk -------------------------------
EXTENDS Desk
CONSTANTS m1, m2

MCMerchants == {m1, m2}
MCOnboarded == {m1}
MCWorlds ==
  {[gateway |-> TRUE, given |-> {}, wanted |-> {}, users |-> {m1}],
   [gateway |-> FALSE, given |-> {"PAID"}, wanted |-> {"SHIPPED", "DELIVERED", "CANCELLED"}, users |-> {m1, m2}]}
=============================================================================
