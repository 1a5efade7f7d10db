--------------------------- MODULE MCOrderManager ---------------------------
(* OrderManager for TLC: two orders.                                        *)
EXTENDS OrderManager, TLC
CONSTANTS o1, o2

TwoOrders == {o1, o2}
=============================================================================
