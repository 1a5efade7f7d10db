------------------------------ MODULE MCBookFeed ------------------------------
(* BookFeed for TLC.                                                          *)
EXTENDS BookFeed

\* Three levels of one side: a removal may break the order of the rest.
MCPrices == [side \in Sides |-> IF side = "bids" THEN {1, 3, 5} ELSE {2}]

\* No level and a level; of the asks one whose volume is gone but whose orders are not.
MCSizes == [side \in Sides |-> {<<0, 0>>, IF side = "asks" THEN <<0, 1>> ELSE <<1, 1>>}]
==============================================================================
