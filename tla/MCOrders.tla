------------------------------ MODULE MCOrders -------------------------------
(***************************************************************************)
(* Orders on small instances: one or two orders of one product in one      *)
(* storage, with one handler at a time or two that overlap.                *)
(***************************************************************************)
EXTENDS Orders, TLC

CONSTANTS l1, p1, r1, r2

(* Request slots are interchangeable. *)
RequestSymmetry == Permutations({r1, r2})
=============================================================================
