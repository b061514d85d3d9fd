----------------------------- MODULE MCCommerce -----------------------------
(* A small instance of Commerce for TLC: one list, one order. *)
EXTENDS Commerce, TLC

CONSTANTS h1, h2
OneListOf == [o \in Orders |-> "l1"]
OneHome   == [c \in Channels |-> "l1"]
OneWanted == [o \in Orders |-> 2]
Symmetry  == Permutations({h1, h2})
=============================================================================
