---------------------------- MODULE MCMembership ----------------------------
(* Instances of Membership for TLC. *)
EXTENDS Membership, TLC

CONSTANTS founder, bob, carol, i1, i2, i3, h1, h2

(* Requests, invitations and the people other than the founder are alike. *)
Symmetry == Permutations(Handlers) \cup Permutations(Rows)
              \cup Permutations(People \ {Founder})
==============================================================================
