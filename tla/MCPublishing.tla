---------------------------- MODULE MCPublishing ----------------------------
(* Instances of Publishing for TLC: a Twitter destination with a thread of *)
(* two tweets, one on Facebook and one on Instagram.                       *)
EXTENDS Publishing, TLC

CONSTANTS twitter, facebook, instagram, w1, w2, h1, h2, r1, t1, t2

MCReplies == [d \in Dests |-> IF d = twitter THEN 1 ELSE 0]

(* Workers run the same code; only safety runs use it. *)
Symmetry == Permutations(Workers)
==============================================================================
