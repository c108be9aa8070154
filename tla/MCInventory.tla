----------------------------- MODULE MCInventory -----------------------------
(***************************************************************************)
(* Inventory on two storages, one of them a pickup counter.                *)
(***************************************************************************)
EXTENDS Inventory

CONSTANTS l1, l2, p1
=============================================================================
