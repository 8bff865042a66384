-------------------------- MODULE MCCommentReplies --------------------------
(* Instances of CommentReplies for TLC. *)
EXTENDS CommentReplies, TLC

CONSTANTS w1, w2, h1, h2

(* Workers run the same code, and so do requests. *)
Symmetry == Permutations(Workers) \cup Permutations(Handlers)
==============================================================================
