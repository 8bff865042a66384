------------------------------ MODULE Delivery ------------------------------
(***************************************************************************)
(* What publishing promises for each destination of a post, with no job,   *)
(* worker or request in sight: it goes from attempt to attempt, one at a   *)
(* time; an attempt puts at most one post up and succeeds only if it did,  *)
(* or where a post whose media are taken away is passed for published.     *)
(* An abandoned attempt, whose process died or lost the database, is never *)
(* taken up again: that is what the code promises, good or not.            *)
(***************************************************************************)
EXTENDS Naturals

CONSTANTS Dests,
          Lenient  \* where a post without media is passed for published

VARIABLES bare,    \* the post's media were taken away at some time
          phase,   \* of the destination
          fresh,   \* the attempt under way has put a post up
          copies   \* posts put up so far

vars == <<bare, phase, fresh, copies>>

Phases == {"none", "waiting", "sending", "abandoned", "failed", "delivered", "gone"}

DeliveryTypeOK ==
    /\ bare \in BOOLEAN
    /\ phase \in [Dests -> Phases]
    /\ fresh \in [Dests -> BOOLEAN]
    /\ copies \in [Dests -> Nat]

Init ==
    /\ bare = FALSE
    /\ phase = [d \in Dests |-> "none"]
    /\ fresh = [d \in Dests |-> FALSE]
    /\ copies = [d \in Dests |-> 0]

Move(d, from, to) ==
    /\ phase[d] \in from
    /\ phase' = [phase EXCEPT ![d] = to]
    /\ fresh' = [fresh EXCEPT ![d] = FALSE]
    /\ UNCHANGED <<bare, copies>>

Plan ==
    /\ \A d \in Dests : phase[d] = "none"
    /\ phase' = [d \in Dests |-> "waiting"]
    /\ UNCHANGED <<bare, fresh, copies>>

Attempt(d) == Move(d, {"waiting", "failed"}, "sending")

Accept(d) ==
    /\ phase[d] = "sending" /\ ~fresh[d]
    /\ fresh' = [fresh EXCEPT ![d] = TRUE]
    /\ copies' = [copies EXCEPT ![d] = @ + 1]
    /\ UNCHANGED <<bare, phase>>

Deliver(d) ==
    /\ fresh[d] \/ (bare /\ d \in Lenient)
    /\ Move(d, {"sending"}, "delivered")

Fail(d) == Move(d, {"sending"}, "failed")

Abandon(d) == Move(d, {"sending"}, "abandoned")

(* The user has the content deleted from the network; the destination is   *)
(* recorded as failed, and is due again if the post is.                    *)
Withdraw(d) == Move(d, {"delivered"}, "failed")

Strip ==
    /\ bare' = TRUE
    /\ UNCHANGED <<phase, fresh, copies>>

(* The post is deleted, also under an attempt, which may still go through. *)
Drop ==
    /\ \E d \in Dests : phase[d] # "none"
    /\ phase' = [d \in Dests |-> "gone"]
    /\ fresh' = [d \in Dests |-> FALSE]
    /\ UNCHANGED <<bare, copies>>

AcceptLate(d) ==
    /\ phase[d] = "gone"
    /\ copies' = [copies EXCEPT ![d] = @ + 1]
    /\ UNCHANGED <<bare, phase, fresh>>

Next ==
    \/ Plan \/ Strip \/ Drop
    \/ \E d \in Dests : \/ Attempt(d) \/ Accept(d) \/ Deliver(d) \/ Fail(d)
                        \/ Abandon(d) \/ Withdraw(d) \/ AcceptLate(d)

Spec == Init /\ [][Next]_vars
==============================================================================
