----------------------------- MODULE Scheduling -----------------------------
(***************************************************************************)
(* What lies between writing a post and its job: the slots of the queue,   *)
(* the search for a free one, the posts of a thread, the rules of the      *)
(* networks and the splitting of a text.  The five parts share no state    *)
(* that another one's claims depend on, so that a behaviour of this        *)
(* specification is one of them with the others at rest: what holds here   *)
(* of each holds of all together.                                          *)
(***************************************************************************)
EXTENDS QueueSlots, SlotSearch, PostThreads, Composing, TweetSplit

VARIABLE part

parts == <<part, slotVars, searchVars, threadVars, composeVars, splitVars>>

ScheduleInit ==
    /\ part \in {"slots", "search", "threads", "compose", "split"}
    /\ SlotsInit
    /\ IF part = "search" THEN SearchInit
       ELSE ask = (CHOOSE a \in Asks : TRUE) /\ found = Nothing
    /\ ThreadsInit
    /\ IF part = "compose" THEN ComposeInit ELSE ComposeInit /\ net = "TWITTER"
    /\ IF part = "split" THEN SplitInit ELSE text = <<>> /\ thread = Pending

ScheduleNext ==
    /\ UNCHANGED part
    /\ \/ /\ part = "slots" /\ SlotsNext
          /\ UNCHANGED <<searchVars, threadVars, composeVars, splitVars>>
       \/ /\ part = "search" /\ Search
          /\ UNCHANGED <<slotVars, threadVars, composeVars, splitVars>>
       \/ /\ part = "threads" /\ ThreadsNext
          /\ UNCHANGED <<slotVars, searchVars, composeVars, splitVars>>
       \/ /\ part = "compose" /\ ComposeNext
          /\ UNCHANGED <<slotVars, searchVars, threadVars, splitVars>>
       \/ /\ part = "split" /\ Split
          /\ UNCHANGED <<slotVars, searchVars, threadVars, composeVars>>

ScheduleSpec == ScheduleInit /\ [][ScheduleNext]_parts
==============================================================================
