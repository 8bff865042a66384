--------------------------- MODULE BullQueueProofs ---------------------------
(***************************************************************************)
(* The queue's operators keep a job a job, with its counters in their      *)
(* limits, for every set of workers and all limits.                        *)
(***************************************************************************)
EXTENDS BullQueue, TLAPS

(* what the type invariants of the modules that use a job say of it *)
Fit(j) == j \in Job /\ (j.state # "failed" => j.tries < MaxAttempts)

LEMMA NoJobFit == Fit(NoJob)
BY QueueAssumption DEF QueueAssumption, Fit, Job, NoJob, JobStates

LEMMA AddedFit ==
    ASSUME NEW j, Fit(j), NEW t \in Slots \cup {NoSlot}
    PROVE  Fit(Added(j, t))
<1>. j \in Job
  BY DEF Fit
<1>1. [j EXCEPT !.state = "waiting", !.due = t] \in Job
  BY DEF Job, JobStates
<1>2. [j EXCEPT !.state = "waiting", !.due = t].tries = j.tries
  BY DEF Job
<1>. QED BY <1>1, <1>2 DEF Added, Fit

LEMMA TakenFit ==
    ASSUME NEW j, Fit(j), j.state = "waiting", NEW w \in Workers
    PROVE  Fit(Taken(j, w))
<1>. j \in Job
  BY DEF Fit
<1>1. Taken(j, w) \in Job /\ Taken(j, w).tries = j.tries
  BY DEF Taken, Job, JobStates
<1>. QED BY <1>1 DEF Fit

LEMMA ThrownFit ==
    ASSUME NEW j, Fit(j), NEW w \in Workers
    PROVE  Fit(Thrown(j, w))
<1>. j \in Job
  BY DEF Fit
<1>1. CASE j.state = "active" /\ j.owner = w
  <2>1. j.tries \in Nat /\ j.tries + 1 \in 0 .. MaxAttempts
    BY <1>1, QueueAssumption DEF Fit, Job, QueueAssumption
  <2>2. Thrown(j, w) \in Job
    BY <1>1, <2>1 DEF Thrown, Job, JobStates
  <2>3. /\ Thrown(j, w).tries = j.tries + 1
        /\ Thrown(j, w).state = IF j.tries + 1 < MaxAttempts
                                 THEN "waiting" ELSE "failed"
    BY <1>1 DEF Thrown, Job
  <2>. QED BY <2>2, <2>3 DEF Fit
<1>2. CASE ~(j.state = "active" /\ j.owner = w)
  BY <1>2 DEF Thrown
<1>. QED BY <1>1, <1>2

LEMMA CompletedFit ==
    ASSUME NEW j, Fit(j), NEW w \in Workers
    PROVE  Fit(Completed(j, w))
BY NoJobFit DEF Completed

LEMMA StalledFit ==
    ASSUME NEW j, Fit(j), j.state = "active"
    PROVE  Fit(Stalled(j))
<1>. j \in Job
  BY DEF Fit
<1>1. CASE j.stalls < MaxStalled
  <2>1. j.stalls + 1 \in 0 .. MaxStalled
    BY <1>1, QueueAssumption DEF Job, QueueAssumption
  <2>2. Stalled(j) \in Job /\ Stalled(j).tries = j.tries
    BY <1>1, <2>1 DEF Stalled, Job, JobStates
  <2>. QED BY <2>2 DEF Fit
<1>2. CASE ~(j.stalls < MaxStalled)
  <2>1. Stalled(j) \in Job /\ Stalled(j).state = "failed"
    BY <1>2 DEF Stalled, Job, JobStates
  <2>. QED BY <2>1 DEF Fit
<1>. QED BY <1>1, <1>2
==============================================================================
