------------------------------ MODULE MCStudio ------------------------------
(* An instance of Studio for TLC. *)
EXTENDS Studio, TLC

CONSTANTS w1, w2, p1, p2, r1, f1, f2, f3, q1, q2, x1, x2, x3

(* Two pages, of two networks. *)
MCNetwork == q1 :> "FACEBOOK" @@ q2 :> "TWITTER"

(* monthlyCredits of the plans, scaled down, in half credits. *)
MCMonthly == [CREATOR |-> 4, BUSINESS |-> 22, ROCKET |-> 30]

(* Runs and requests run the same code, and bear the same names, and so do *)
(* the posts of the snapshots.                                             *)
Symmetry == Permutations(Runners) \cup Permutations(Sent)
==============================================================================
