------------------------------ MODULE MCTenancy ------------------------------
(* An instance of Tenancy for TLC. *)
EXTENDS Tenancy, TLC

CONSTANTS u1, u2, o1, o2, o3, s1, s2, s3, p1, p2, p3, a, b, r1, r2, q1, m1, m2

(* Requests and clients run the same code, and bear the same names. *)
Symmetry == Permutations(Importers)
==============================================================================
