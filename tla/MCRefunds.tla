------------------------------ MODULE MCRefunds ------------------------------
(***************************************************************************)
(* Two handlers of interchangeable identity on the refunds of one order.   *)
(***************************************************************************)
EXTENDS Refunds, TLC

CONSTANTS h1, h2

HandlerSymmetry == Permutations(Handlers)
=============================================================================
