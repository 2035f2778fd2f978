----------------------------- MODULE MCPairing -----------------------------
(* Model-checking instance of Pairing: the requests are interchangeable.   *)
EXTENDS Pairing, TLC

CONSTANTS r1, r2, main

RequestSymmetry == Permutations(Request)
=============================================================================
