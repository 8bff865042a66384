------------------------------ MODULE MCInbox ------------------------------
(* An instance of Inbox for TLC. *)
EXTENDS Inbox, TLC

CONSTANTS w1, w2, a1, m1, m2

(* Workers run the same code, and messages are alike. *)
Symmetry == Permutations(Workers) \cup Permutations(Messages)
==============================================================================
