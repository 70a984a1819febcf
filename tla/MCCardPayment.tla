--------------------------- MODULE MCCardPayment ---------------------------
(* Instances of CardPayment for TLC. *)
EXTENDS CardPayment

OneStudent == [o \in Orders |-> "u1"]
=============================================================================
