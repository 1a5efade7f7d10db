--------------------------- MODULE MCOrderExecutor ---------------------------
(* OrderExecutor for TLC: two closing calls.                                *)
EXTENDS OrderExecutor, TLC
CONSTANTS c1, c2

TwoClosers == {c1, c2}
\* The exchange closes by the one direction or by the other.
AnyDirection == Direction
=============================================================================
