---------------------------- MODULE PostThreads ----------------------------
(***************************************************************************)
(* A thread scheduled in bulk: a chain of posts, each the parent of the    *)
(* next, the first of which stands for the thread.  Its destinations carry *)
(* every tweet of the thread, and so do the destinations of every other    *)
(* post of the chain: whichever post's job runs publishes the whole.       *)
(*                                                                         *)
(* Requests edit, delete and clear the posts while jobs run.  What a job   *)
(* does in detail is the subject of module Publishing: here it is a step.  *)
(***************************************************************************)
EXTENDS Integers, FiniteSets

CONSTANTS Authors,   \* concurrent requests on the thread's posts
          LastPost,  \* the posts are 0 .. LastPost
          Moments    \* a post's date; 0 is null

ASSUME PostThreadsAssumption ==
    /\ LastPost \in Nat
    /\ Moments \subseteq Nat \ {0}

VARIABLES
    tstatus,   \* Post.status; ABSENT before creation, GONE after deletion
    tdate,     \* Post.scheduledAt
    tjob,      \* posts that have a job
    adding,    \* bulkSchedulePosts has committed and not added its job yet
    touched,   \* history: posts with a parent given a date of their own
    hpc,       \* where each request stands
    hpost,     \* the post it is about
    hdate,     \* the date it sets
    hids       \* the posts it has listed

threadVars == <<tstatus, tdate, tjob, adding, touched,
                hpc, hpost, hdate, hids>>
rows     == <<tstatus, tdate>>
requests == <<hpc, hpost, hdate, hids>>

Chain == 0 .. LastPost
MaybeDate == Moments \cup {0}

ThreadsTypeOK ==
    /\ tstatus \in [Chain -> {"ABSENT", "DRAFT", "SCHEDULED", "PUBLISHED", "GONE"}]
    /\ tdate \in [Chain -> MaybeDate]
    /\ tjob \subseteq Chain /\ touched \subseteq Chain
    /\ adding \in BOOLEAN
    /\ hpc \in [Authors -> {"idle", "commit", "sync", "unqueue", "delete", "reset"}]
    /\ hpost \in [Authors -> Chain]
    /\ hdate \in [Authors -> MaybeDate]
    /\ hids \in [Authors -> SUBSET Chain]

ThreadsInit ==
    /\ tstatus = [p \in Chain |-> "ABSENT"]
    /\ tdate = [p \in Chain |-> 0]
    /\ tjob = {} /\ touched = {}
    /\ adding = FALSE
    /\ hpc = [h \in Authors |-> "idle"]
    /\ hpost = [h \in Authors |-> 0]
    /\ hdate = [h \in Authors |-> 0]
    /\ hids = [h \in Authors |-> {}]

Live == {p \in Chain : tstatus[p] \notin {"ABSENT", "GONE"}}
Children(p) == {q \in Live : q = p + 1}
Descendants(p) == {q \in Live : q > p}
StatusOf(d) == IF d = 0 THEN "DRAFT" ELSE "SCHEDULED"

Erase(gone) ==
    /\ tstatus' = [p \in Chain |-> IF p \in gone THEN "GONE" ELSE tstatus[p]]
    /\ tdate' = [p \in Chain |-> IF p \in gone THEN 0 ELSE tdate[p]]

Rest(h) ==
    /\ hpc' = [hpc EXCEPT ![h] = "idle"]
    /\ hpost' = [hpost EXCEPT ![h] = 0]
    /\ hdate' = [hdate EXCEPT ![h] = 0]
    /\ hids' = [hids EXCEPT ![h] = {}]
Move(h, pc) == hpc' = [hpc EXCEPT ![h] = pc]

-----------------------------------------------------------------------------
(* bulkSchedulePosts: the whole chain in one transaction, with the first   *)
(* post's status and date; then a job for every post without a parent.     *)
CreateThread(d) ==
    /\ \A p \in Chain : tstatus[p] = "ABSENT"
    /\ tstatus' = [p \in Chain |-> StatusOf(d)]
    /\ tdate' = [p \in Chain |-> d]
    /\ adding' = (d # 0)
    /\ UNCHANGED <<tjob, touched, requests>>

AddJob ==
    /\ adding
    /\ tjob' = tjob \cup {0}
    /\ adding' = FALSE
    /\ UNCHANGED <<rows, touched, requests>>

(* The server dies between the two.                                        *)
JobLost ==
    /\ adding
    /\ adding' = FALSE
    /\ UNCHANGED <<rows, tjob, touched, requests>>

(* updatePost: the post is read; it and the children of a first post are   *)
(* written; its job is added, if it has none, or removed.                  *)
ReadPost(h, p, d) ==
    /\ hpc[h] = "idle"
    /\ p \in Live /\ tstatus[p] # "PUBLISHED"
    /\ Move(h, "commit")
    /\ hpost' = [hpost EXCEPT ![h] = p]
    /\ hdate' = [hdate EXCEPT ![h] = d]
    /\ UNCHANGED <<rows, tjob, adding, touched, hids>>

CommitPost(h) ==
    LET p == hpost[h]
        d == hdate[h]
        moved == {p} \cup (IF d # 0 /\ p = 0 THEN Children(p) ELSE {})
    IN  /\ hpc[h] = "commit"
        /\ IF p \in Live
             THEN /\ tstatus' = [tstatus EXCEPT ![p] = StatusOf(d)]
                  /\ tdate' = [q \in Chain |-> IF q \in moved THEN d ELSE tdate[q]]
                  /\ touched' = touched \cup (IF d = 0 \/ p = 0 THEN {} ELSE {p})
                  /\ Move(h, "sync") /\ UNCHANGED <<hpost, hdate, hids>>
             ELSE Rest(h) /\ UNCHANGED <<rows, touched>>
        /\ UNCHANGED <<tjob, adding>>

SyncJob(h) ==
    /\ hpc[h] = "sync"
    /\ tjob' = IF hdate[h] # 0 THEN tjob \cup {hpost[h]} ELSE tjob \ {hpost[h]}
    /\ Rest(h)
    /\ UNCHANGED <<rows, adding, touched>>

(* deletePost: a post that has a parent stands for its parent, be it the   *)
(* first of the thread or not; the job of that one is removed, and what    *)
(* descends from it is deleted with it.                                    *)
ReadDoomed(h, p) ==
    /\ hpc[h] = "idle" /\ p \in Live
    /\ Move(h, "unqueue")
    /\ hpost' = [hpost EXCEPT ![h] = IF p = 0 THEN 0 ELSE p - 1]
    /\ UNCHANGED <<rows, tjob, adding, touched, hdate, hids>>

Unqueue(h) ==
    /\ hpc[h] = "unqueue"
    /\ tjob' = tjob \ {hpost[h]}
    /\ Move(h, "delete")
    /\ UNCHANGED <<rows, adding, touched, hpost, hdate, hids>>

(* Variant for the mutation runs: only the children are collected.         *)
DeleteChildren(h) ==
    /\ hpc[h] = "delete"
    /\ Erase({hpost[h]} \cup Children(hpost[h]))
    /\ Rest(h)
    /\ UNCHANGED <<tjob, adding, touched>>

DeletePosts(h) ==
    /\ hpc[h] = "delete"
    /\ Erase({hpost[h]} \cup Descendants(hpost[h]))
    /\ Rest(h)
    /\ UNCHANGED <<tjob, adding, touched>>

(* clearQueue: the posts to come are listed, then written, whatever they   *)
(* have become; their jobs are left.  The dates before `today' are past.   *)
ListQueue(h, today) ==
    LET due == {p \in Live : tstatus[p] = "SCHEDULED" /\ tdate[p] >= today}
    IN  /\ hpc[h] = "idle" /\ due # {}
        /\ Move(h, "reset")
        /\ hids' = [hids EXCEPT ![h] = due]
        /\ UNCHANGED <<rows, tjob, adding, touched, hpost, hdate>>

ResetQueue(h) ==
    /\ hpc[h] = "reset"
    /\ tstatus' = [p \in Chain |-> IF p \in hids[h] \cap Live THEN "DRAFT" ELSE tstatus[p]]
    /\ tdate' = [p \in Chain |-> IF p \in hids[h] \cap Live THEN 0 ELSE tdate[p]]
    /\ Rest(h)
    /\ UNCHANGED <<tjob, adding, touched>>

(* A job runs.  It does not look at the post's status, only at its         *)
(* destinations, and makes nothing of a post that is gone.                 *)
RunJob(p) ==
    /\ p \in tjob
    /\ tjob' = tjob \ {p}
    /\ tstatus' = [q \in Chain |-> IF q = p /\ p \in Live THEN "PUBLISHED" ELSE tstatus[q]]
    /\ UNCHANGED <<tdate, adding, touched, requests>>

AuthorSteps(h) ==
    \/ \E p \in Chain, d \in MaybeDate : ReadPost(h, p, d)
    \/ CommitPost(h) \/ SyncJob(h)
    \/ \E p \in Chain : ReadDoomed(h, p)
    \/ Unqueue(h) \/ DeletePosts(h)
    \/ \E today \in Moments : ListQueue(h, today)
    \/ ResetQueue(h)

ThreadsNext ==
    \/ \E d \in MaybeDate : CreateThread(d)
    \/ AddJob \/ JobLost
    \/ \E p \in Chain : RunJob(p)
    \/ \E h \in Authors : AuthorSteps(h)

ThreadsSpec == ThreadsInit /\ [][ThreadsNext]_threadVars

-----------------------------------------------------------------------------
(* The thread goes out once, by its first post, and once more for every    *)
(* other post of the chain that somebody gave a date: no job is made for   *)
(* it otherwise.                                                           *)
OneJobPerThread == tjob \subseteq {0} \cup touched

(* What is left of a thread is its beginning, and a tweet that waits with  *)
(* the first post waits for the same date.  This is said of the second     *)
(* post only: updatePost moves the children of the first post, and the     *)
(* third post is not one of them.                                          *)
ThreadWhole ==
    /\ \A p \in Chain \ {0} : p \in Live => p - 1 \in Live
    /\ LastPost > 0 /\ tstatus[0] = "SCHEDULED" /\ tstatus[1] = "SCHEDULED"
            /\ 1 \notin touched
         => tdate[1] = tdate[0]

(* Both together: the chain is one thread, sent by its first post.         *)
ThreadKept == OneJobPerThread /\ ThreadWhole
==============================================================================
