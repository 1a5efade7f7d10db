----------------------------- MODULE MCRiskGate -----------------------------
(* RiskGate for TLC: two traders, four symbols, two configurations.         *)
EXTENDS RiskGate, TLC
CONSTANTS t1, t2, s1, s2, s3, s4
MCTraders == {t1, t2}
MCSymbols == {s1, s2, s3, s4}
Strict == [concurrent |-> 2, position |-> 1, exposure |-> 3, cooldown |-> 1]
Loose == [concurrent |-> 2, position |-> 2, exposure |-> 1, cooldown |-> 0]
MCConfigs == {Strict, Loose}
Symmetry == Permutations(MCTraders) \cup Permutations(MCSymbols)
=============================================================================
