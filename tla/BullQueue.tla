------------------------------ MODULE BullQueue ------------------------------
(***************************************************************************)
(* One BullMQ job, addressed by a custom jobId, as the services use it.    *)
(* BullMQ is a library outside this repository: the operators below model  *)
(* the documented effect of the calls the code makes on it.                *)
(*                                                                         *)
(*   state   absent   no job has this id                                   *)
(*           waiting  delayed, backing off or ready to be taken            *)
(*           active   locked by the worker `owner'                         *)
(*           failed   kept, and its id with it                             *)
(*   tries   attempts that ended in an error                               *)
(*   stalls  times the lock was lost while active                          *)
(*   due     the time the job was added for                                *)
(***************************************************************************)
EXTENDS Naturals

CONSTANTS Workers,       \* processes that may run the job
          NoWorker,      \* owner of a job nobody runs
          Slots,         \* publication times
          NoSlot,        \* no publication time
          MaxAttempts,   \* the `attempts' option of add()
          MaxStalled     \* BullMQ's maxStalledCount, 1 when not configured

ASSUME QueueAssumption ==
    /\ NoWorker \notin Workers
    /\ NoSlot \notin Slots
    /\ MaxAttempts \in Nat \ {0}
    /\ MaxStalled \in Nat

JobStates == {"absent", "waiting", "active", "failed"}

Job == [state  : JobStates,
        tries  : 0 .. MaxAttempts,
        stalls : 0 .. MaxStalled,
        owner  : Workers \cup {NoWorker},
        due    : Slots \cup {NoSlot}]

NoJob == [state |-> "absent", tries |-> 0, stalls |-> 0,
          owner |-> NoWorker, due |-> NoSlot]

(* add(name, data, {jobId}): an id that already exists makes it a no-op. *)
Added(j, at) ==
    IF j.state = "absent" THEN [j EXCEPT !.state = "waiting", !.due = at] ELSE j

(* Variant for the mutation runs: removal regardless of the lock. *)
RemovableAnyway(j) == TRUE

(* job.remove() throws when a worker holds the job's lock. *)
Removable(j) == j.state # "active"

(* A worker takes the job and its lock. *)
Taken(j, w) == [j EXCEPT !.state = "active", !.owner = w]

(* The processor returned.  A worker that lost the lock changes nothing;  *)
(* removeOnComplete drops the job and frees its id.                       *)
Completed(j, w) == IF j.state = "active" /\ j.owner = w THEN NoJob ELSE j

(* The processor threw: the job backs off, or it has used up its attempts. *)
Thrown(j, w) ==
    IF j.state = "active" /\ j.owner = w
    THEN [j EXCEPT !.tries = @ + 1, !.owner = NoWorker,
                   !.state = IF j.tries + 1 < MaxAttempts
                             THEN "waiting" ELSE "failed"]
    ELSE j

(* Variants for the mutation runs: stalls uncounted, and one too many.     *)
StalledAgain(j) == [j EXCEPT !.state = "waiting", !.owner = NoWorker]
StalledOnceMore(j) ==
    IF j.stalls <= MaxStalled
    THEN [j EXCEPT !.state = "waiting", !.owner = NoWorker, !.stalls = @ + 1]
    ELSE [j EXCEPT !.state = "failed", !.owner = NoWorker]

(* The lock of an active job expired: the stalled-job check hands the job  *)
(* out again, and gives up on it after MaxStalled times.                   *)
Stalled(j) ==
    IF j.stalls < MaxStalled
    THEN [j EXCEPT !.state = "waiting", !.owner = NoWorker, !.stalls = @ + 1]
    ELSE [j EXCEPT !.state = "failed", !.owner = NoWorker]
==============================================================================
