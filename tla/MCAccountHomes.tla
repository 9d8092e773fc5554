--------------------------- MODULE MCAccountHomes ----------------------------
(* AccountHomes for TLC: the account that is there and the next one look the  *)
(* same in the list, and so do the later ones and the user's own login.       *)
EXTENDS AccountHomes

MCLook == [k \in 1..(MaxOps + 2) |-> k \div 3]
==============================================================================
