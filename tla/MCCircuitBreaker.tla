-------------------------- MODULE MCCircuitBreaker --------------------------
(* CircuitBreaker for TLC: two threads.                                     *)
EXTENDS CircuitBreaker
CONSTANTS t1, t2

TwoTraders == {t1, t2}
=============================================================================
