----------------------------- MODULE MCSymbolPools -----------------------------
(* SymbolPools for TLC: an exchange lists all symbols or is not known yet.  Of  *)
(* three symbols, in batches of two, one manager trades two (which may leave    *)
(* the position two past the end), the other shares one of them with it.        *)
EXTENDS SymbolPools, TLC
CONSTANTS manager, assistant, selector, task

MCAbout == [m \in Managers |-> IF m = manager THEN {1, 2} ELSE {1}]
MCLists == {Symbols}
MCWatchlists == {{}}
================================================================================
