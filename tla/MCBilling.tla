------------------------------ MODULE MCBilling ------------------------------
(* Instances of Billing for TLC. *)
EXTENDS Billing, TLC

CONSTANTS r1, r2, l1, l2, l3, w1, w2, v1, h1

(* References, rows, workers and requests are named apart and no more. *)
Symmetry ==
    Permutations(Refs) \cup Permutations(Logs) \cup Permutations(Workers)
==============================================================================
