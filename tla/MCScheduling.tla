---------------------------- MODULE MCScheduling ----------------------------
(* An instance of Scheduling for TLC. *)
EXTENDS Scheduling, TLC

CONSTANTS e1, e2, r1, r2, r3, r4, k1, k2, b1, b2, h1, h2

(* Requests run the same code. *)
Symmetry == Permutations(Authors)
==============================================================================
