--------------------------- MODULE MCSymbolFunnel ---------------------------
(* SymbolFunnel for TLC: two listings, and a symbol whose short side is more *)
(* limited than its long side.                                               *)
EXTENDS SymbolFunnel
CONSTANTS s1, s2, task
MCListings == {{s2}, {s1, s2}}
MCScores == [s \in Symbols |-> IF s = s1 THEN {0, 2} ELSE {1}]
MCMaxLeverages ==
  [s \in Symbols |-> [long |-> 3, short |-> IF s = s1 THEN 1 ELSE 3]]
MCFirstLeverages ==
  [s \in Symbols |-> IF s = s1 THEN [long |-> 3, short |-> 1] ELSE [long |-> 2, short |-> 2]]
=============================================================================
