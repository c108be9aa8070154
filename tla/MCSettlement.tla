----------------------------- MODULE MCSettlement ----------------------------
(***************************************************************************)
(* Two transactions over the books of three orders: the second has goods   *)
(* already taken, the others are all on hold, and the first two use both   *)
(* storages, so that their locks can be taken in opposite orders.          *)
(***************************************************************************)
EXTENDS Settlement, TLC

CONSTANTS l1, l2, p1, t1, t2

Hold(o, l, n, status) ==
  [order |-> o, cell |-> <<l, p1>>, quantity |-> n, status |-> status]

MCRows ==
  <<Hold(1, l1, 1, "reserved"), Hold(1, l2, 2, "reserved"),
    Hold(2, l2, 1, "reserved"), Hold(2, l1, 1, "reserved"),
    Hold(2, l1, 1, "confirmed"), Hold(3, l1, 1, "reserved")>>

MCStartBooks ==
  LET q == (<<l1, p1>> :> 4) @@ (<<l2, p1>> :> 3)
  IN  [quantity |-> q,
       reserved |-> (<<l1, p1>> :> 3) @@ (<<l2, p1>> :> 3),
       rsv |-> MCRows, ledger |-> q]

(* Each transaction works on an order of its own. *)
MCDistinctOrders == {j \in [Txs -> Job] : \A t, u \in Txs : j[t].order = j[u].order => t = u}
=============================================================================
