------------------------- MODULE MCPositionMonitor -------------------------
(* PositionMonitor for TLC: positions entered at spread 1, a market that    *)
(* converges (0) or doubles (2).                                            *)
EXTENDS PositionMonitor, TLC
CONSTANTS p1, p2

TwoPositions == {p1, p2}
Widths == {0, 1, 2}
EntryWidth == {1}
=============================================================================
