---------------------------- MODULE MCPixDeposit ----------------------------
(***************************************************************************)
(* PixDeposit on a few events: two allocations at two destinations, a      *)
(* third sharing a destination whose payload the pool cannot read.         *)
(***************************************************************************)
EXTENDS PixDeposit

CONSTANTS i1, i2, d1, d2

MCEvent == {[id |-> i1, dest |-> d1, amount |-> 1, readable |-> TRUE],
            [id |-> i2, dest |-> d2, amount |-> 2, readable |-> TRUE],
            [id |-> i2, dest |-> d1, amount |-> 1, readable |-> FALSE]}

OneEvent == {[id |-> i1, dest |-> d1, amount |-> 1, readable |-> TRUE]}
=============================================================================
