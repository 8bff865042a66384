----------------------------- MODULE Publishing -----------------------------
(***************************************************************************)
(* The life of one post: the API handlers that create, reschedule, clear,  *)
(* delete and withdraw it, the one BullMQ job that publishes it, and the   *)
(* publish-post processor, run by any number of worker processes.          *)
(*                                                                         *)
(* Posts share no state with each other, so one post stands for all.  Each *)
(* awaited database or queue call is one step; the calls of one prisma     *)
(* transaction are a single step.  Contents, credentials and events are    *)
(* left out.  The clock is left out too: a waiting job may be taken at any *)
(* moment, which covers every relation between `due' and now.              *)
(***************************************************************************)
EXTENDS BullQueue, FiniteSets

CONSTANTS Dests,      \* the post's destinations, one per social profile
          NoDest,
          Replies,    \* [Dests -> Nat]: tweets that follow the first one
          Facebook,   \* the destinations remote deletion is offered for
          Instagram,  \* those whose provider may return and not publish
          Handlers,   \* concurrent API requests on the post
          Removers,   \* concurrent remote-deletion requests
          Ops,        \* the operations the requests may be
          Faults,     \* what may go wrong
          MaxEdits    \* bound on the requests that rewrite the post

ASSUME PublishingAssumption ==
    /\ NoDest \notin Dests
    /\ Replies \in [Dests -> Nat]
    /\ Facebook \subseteq Dests /\ Instagram \subseteq Dests
    /\ Ops \subseteq {"update", "delete", "clear", "file"}
    /\ Faults \subseteq {"crash", "restart", "stall", "net", "db"}
    /\ MaxEdits \in Nat

VARIABLES
    post,     \* Post.status, "ABSENT" before creation, "GONE" after deletion
    at,       \* Post.scheduledAt
    media,    \* PostMedia: whether Instagram's provider has a route for it,
              \* and whether it ever had none
    dest,     \* PostDestination.status; the rows come and go with the post
    job,      \* the job whose id is the post's
    wpc,      \* where each worker stands in process()
    todo,     \* destinations of the loaded post still to be handled
    cur,      \* the destination a worker is publishing
    sent,     \* how much of its thread the network has accepted
    routed,   \* whether the media it has loaded have a route
    was,      \* the post status recomputeMasterPostStatus read
    verdict,  \* the post status it computed
    hpc,      \* where each API request stands
    hat,      \* the publication time it resolved
    rpc,      \* where each remote-deletion request stands
    rtodo,    \* the loaded destinations it still has to delete
    rcur,     \* the one it is deleting
    edits,    \* rewriting requests accepted so far
    copies,   \* history: root posts the network accepted
    orphans,  \* history: attempts recorded FAILED with content already up
    removed   \* history: the user had the published content deleted

workerVars  == <<wpc, todo, cur, sent, routed, was, verdict>>
handlerVars == <<hpc, hat, edits>>
removerVars == <<rpc, rtodo, rcur>>
history     == <<copies, orphans, removed>>
vars == <<post, at, media, dest, job, workerVars, handlerVars, removerVars, history>>

PostStatus   == {"ABSENT", "DRAFT", "SCHEDULED", "PUBLISHING", "PUBLISHED",
                 "PARTIAL", "FAILED", "GONE"}
MediaStatus  == {"routed", "bare", "restored"}
Verdicts     == {"PUBLISHING", "PUBLISHED", "PARTIAL", "FAILED"}
DestStatus   == {"ABSENT", "SCHEDULED", "PUBLISHING", "SUCCESS", "FAILED",
                 "GONE"}
WorkerPoints == {"idle", "load", "loop", "send", "persist", "save", "catch",
                 "counts", "write", "done", "throw"}
HandlerPoints == {"idle", "enqueue", "commit", "sync", "unqueue", "drop",
                  "reset"}

TypeOK ==
    /\ post \in PostStatus
    /\ at \in Slots \cup {NoSlot}
    /\ media \in MediaStatus
    /\ dest \in [Dests -> DestStatus]
    /\ job \in Job
    /\ job.state # "failed" => job.tries < MaxAttempts
    /\ wpc \in [Workers -> WorkerPoints]
    /\ todo \in [Workers -> SUBSET Dests]
    /\ cur \in [Workers -> Dests \cup {NoDest}]
    /\ sent \in [Workers -> Nat]
    /\ routed \in [Workers -> BOOLEAN]
    /\ was \in [Workers -> PostStatus]
    /\ verdict \in [Workers -> Verdicts]
    /\ hpc \in [Handlers -> HandlerPoints]
    /\ hat \in [Handlers -> Slots \cup {NoSlot}]
    /\ edits \in Nat
    /\ rpc \in [Removers -> {"idle", "loop", "mark"}]
    /\ rtodo \in [Removers -> SUBSET Dests]
    /\ rcur \in [Removers -> Dests \cup {NoDest}]
    /\ copies \in [Dests -> Nat]
    /\ orphans \in [Dests -> Nat]
    /\ removed \in [Dests -> BOOLEAN]

Init ==
    /\ post = "ABSENT"
    /\ at = NoSlot
    /\ media = "routed"
    /\ dest = [d \in Dests |-> "ABSENT"]
    /\ job = NoJob
    /\ wpc = [w \in Workers |-> "idle"]
    /\ todo = [w \in Workers |-> {}]
    /\ cur = [w \in Workers |-> NoDest]
    /\ sent = [w \in Workers |-> 0]
    /\ routed = [w \in Workers |-> TRUE]
    /\ was = [w \in Workers |-> "ABSENT"]
    /\ verdict = [w \in Workers |-> "PUBLISHING"]
    /\ hpc = [h \in Handlers |-> "idle"]
    /\ hat = [h \in Handlers |-> NoSlot]
    /\ edits = 0
    /\ rpc = [r \in Removers |-> "idle"]
    /\ rtodo = [r \in Removers |-> {}]
    /\ rcur = [r \in Removers |-> NoDest]
    /\ copies = [d \in Dests |-> 0]
    /\ orphans = [d \in Dests |-> 0]
    /\ removed = [d \in Dests |-> FALSE]

Exists == post \notin {"ABSENT", "GONE"}

-----------------------------------------------------------------------------
(* API requests. *)

(* status of a post that needs no approval, from its publication time *)
StatusFor(t) == IF t = NoSlot THEN "DRAFT" ELSE "SCHEDULED"

(* The request has been answered. *)
Answer(h) ==
    /\ hpc' = [hpc EXCEPT ![h] = "idle"]
    /\ hat' = [hat EXCEPT ![h] = NoSlot]

(* createPost: the transaction inserts the post and its destinations.  The *)
(* rules of the networks have let it in: Instagram has a route for it.     *)
Create(h) ==
    /\ hpc[h] = "idle" /\ post = "ABSENT"
    /\ \E t \in Slots \cup {NoSlot} :
        /\ post' = StatusFor(t)
        /\ at' = t
        /\ hat' = [hat EXCEPT ![h] = t]
        /\ hpc' = [hpc EXCEPT ![h] = IF t = NoSlot THEN "idle" ELSE "enqueue"]
    /\ dest' = [d \in Dests |-> "SCHEDULED"]
    /\ UNCHANGED <<media, job, edits, workerVars, removerVars, history>>

(* ... and after the commit a scheduled post gets its job. *)
Enqueue(h) ==
    /\ hpc[h] = "enqueue"
    /\ job' = Added(job, hat[h])
    /\ Answer(h)
    /\ UNCHANGED <<post, at, media, dest, edits, workerVars, removerVars, history>>

(* updatePost reads the status, refuses a post in progress and resolves   *)
(* the new publication time.                                              *)
UpdateRead(h) ==
    /\ "update" \in Ops /\ edits < MaxEdits
    /\ hpc[h] = "idle" /\ Exists
    /\ post \notin {"PUBLISHING", "PUBLISHED"}
    /\ \E t \in Slots \cup {NoSlot} : hat' = [hat EXCEPT ![h] = t]
    /\ hpc' = [hpc EXCEPT ![h] = "commit"]
    /\ edits' = edits + 1
    /\ UNCHANGED <<post, at, media, dest, job, workerVars, removerVars, history>>

(* Its transaction fails on a post deleted since.  It writes the media the *)
(* request names, none when it names none, and checks them for no network. *)
UpdateCommit(h) ==
    /\ hpc[h] = "commit"
    /\ IF Exists
       THEN /\ post' = StatusFor(hat[h])
            /\ at' = hat[h]
            /\ media' \in {"bare", IF media = "bare" THEN "restored" ELSE media}
            /\ hpc' = [hpc EXCEPT ![h] = "sync"]
            /\ UNCHANGED hat
       ELSE /\ Answer(h)
            /\ UNCHANGED <<post, at, media>>
    /\ UNCHANGED <<dest, job, edits, workerVars, removerVars, history>>

(* Removing an active job throws; the row is committed by then. *)
UpdateSync(h) ==
    /\ hpc[h] = "sync"
    /\ job' = IF hat[h] # NoSlot THEN Added(job, hat[h])
              ELSE IF Removable(job) THEN NoJob ELSE job
    /\ Answer(h)
    /\ UNCHANGED <<post, at, media, dest, edits, workerVars, removerVars, history>>

(* deleteFile: a file that goes from the library goes from the posts that  *)
(* show it (onDelete: Cascade).                                            *)
DeleteFile ==
    /\ "file" \in Ops
    /\ Exists
    /\ media' = "bare"
    /\ UNCHANGED <<post, at, dest, job, workerVars, handlerVars, removerVars, history>>

(* deletePost: any status is accepted ... *)
DeleteRead(h) ==
    /\ "delete" \in Ops
    /\ hpc[h] = "idle" /\ Exists
    /\ hpc' = [hpc EXCEPT ![h] = "unqueue"]
    /\ UNCHANGED <<post, at, media, dest, job, hat, edits, workerVars, removerVars, history>>

(* ... the job goes first, and an active one makes the request fail ... *)
DeleteUnqueue(h) ==
    /\ hpc[h] = "unqueue"
    /\ IF Removable(job)
       THEN /\ job' = NoJob
            /\ hpc' = [hpc EXCEPT ![h] = "drop"]
       ELSE /\ hpc' = [hpc EXCEPT ![h] = "idle"]
            /\ UNCHANGED job
    /\ UNCHANGED <<post, at, media, dest, hat, edits, workerVars, removerVars, history>>

(* ... then the row, its destinations cascading. *)
DeleteDrop(h) ==
    /\ hpc[h] = "drop"
    /\ post' = "GONE"
    /\ at' = NoSlot
    /\ dest' = [d \in Dests |-> "GONE"]
    /\ hpc' = [hpc EXCEPT ![h] = "idle"]
    /\ UNCHANGED <<media, job, hat, edits, workerVars, removerVars, history>>

(* clearQueue collects the ids of the scheduled posts ... *)
ClearRead(h) ==
    /\ "clear" \in Ops /\ edits < MaxEdits
    /\ hpc[h] = "idle" /\ post = "SCHEDULED"
    /\ hpc' = [hpc EXCEPT ![h] = "reset"]
    /\ edits' = edits + 1
    /\ UNCHANGED <<post, at, media, dest, job, hat, workerVars, removerVars, history>>

(* ... and turns them into drafts by id, whatever they have become since. *)
ClearReset(h) ==
    /\ hpc[h] = "reset"
    /\ IF Exists
       THEN post' = "DRAFT" /\ at' = NoSlot
       ELSE UNCHANGED <<post, at>>
    /\ hpc' = [hpc EXCEPT ![h] = "idle"]
    /\ UNCHANGED <<media, dest, job, hat, edits, workerVars, removerVars, history>>

(* The API process dies between two awaits of a request. *)
HandlerCrash(h) ==
    /\ "restart" \in Faults
    /\ hpc[h] # "idle"
    /\ Answer(h)
    /\ UNCHANGED <<post, at, media, dest, job, edits, workerVars, removerVars, history>>

-----------------------------------------------------------------------------
(* deletePublishedPost takes published content off the network. *)

RemoveRead(r) ==
    /\ rpc[r] = "idle" /\ post = "PUBLISHED"
    /\ rtodo' = [rtodo EXCEPT ![r] = {d \in Facebook : dest[d] = "SUCCESS"}]
    /\ rpc' = [rpc EXCEPT ![r] = "loop"]
    /\ UNCHANGED <<post, at, media, dest, job, rcur, workerVars, handlerVars, history>>

(* deleteContent on one destination: it succeeds, or the error is noted. *)
RemoveCall(r) ==
    /\ rpc[r] = "loop"
    /\ \E d \in rtodo[r] :
        /\ rtodo' = [rtodo EXCEPT ![r] = @ \ {d}]
        /\ \/ /\ rpc' = [rpc EXCEPT ![r] = "mark"]
              /\ rcur' = [rcur EXCEPT ![r] = d]
              /\ removed' = [removed EXCEPT ![d] = TRUE]
           \/ UNCHANGED <<rpc, rcur, removed>>
    /\ UNCHANGED <<post, at, media, dest, job, workerVars, handlerVars, copies, orphans>>

(* The destination is marked FAILED, by id; a row that is gone throws. *)
RemoveMark(r) ==
    /\ rpc[r] = "mark"
    /\ rpc' = [rpc EXCEPT ![r] = "loop"]
    /\ dest' = IF dest[rcur[r]] = "GONE" THEN dest
               ELSE [dest EXCEPT ![rcur[r]] = "FAILED"]
    /\ rcur' = [rcur EXCEPT ![r] = NoDest]
    /\ UNCHANGED <<post, at, media, job, rtodo, workerVars, handlerVars, history>>

RemoveReturn(r) ==
    /\ rpc[r] = "loop" /\ rtodo[r] = {}
    /\ rpc' = [rpc EXCEPT ![r] = "idle"]
    /\ UNCHANGED <<post, at, media, dest, job, rtodo, rcur, workerVars, handlerVars, history>>

(* The API process dies between two awaits. *)
RemoveCrash(r) ==
    /\ "restart" \in Faults
    /\ rpc[r] # "idle"
    /\ rpc' = [rpc EXCEPT ![r] = "idle"]
    /\ rtodo' = [rtodo EXCEPT ![r] = {}]
    /\ rcur' = [rcur EXCEPT ![r] = NoDest]
    /\ UNCHANGED <<post, at, media, dest, job, workerVars, handlerVars, history>>

-----------------------------------------------------------------------------
(* PublishPostProcessor.process *)

(* process() ends, and its locals with it. *)
Leave(w) ==
    /\ wpc' = [wpc EXCEPT ![w] = "idle"]
    /\ todo' = [todo EXCEPT ![w] = {}]
    /\ cur' = [cur EXCEPT ![w] = NoDest]
    /\ sent' = [sent EXCEPT ![w] = 0]
    /\ routed' = [routed EXCEPT ![w] = TRUE]
    /\ was' = [was EXCEPT ![w] = "ABSENT"]
    /\ verdict' = [verdict EXCEPT ![w] = "PUBLISHING"]

(* publishOneDestination ends. *)
NextDest(w) ==
    /\ wpc' = [wpc EXCEPT ![w] = "loop"]
    /\ cur' = [cur EXCEPT ![w] = NoDest]
    /\ sent' = [sent EXCEPT ![w] = 0]

Take(w) ==
    /\ wpc[w] = "idle" /\ job.state = "waiting"
    /\ job' = Taken(job, w)
    /\ wpc' = [wpc EXCEPT ![w] = "load"]
    /\ UNCHANGED <<post, at, media, dest, todo, cur, sent, routed, was, verdict,
                   handlerVars, removerVars, history>>

(* The post is loaded once, with its media, whatever its status; a        *)
(* destination loaded as SUCCESS is skipped.                              *)
Load(w) ==
    /\ wpc[w] = "load"
    /\ IF Exists
       THEN /\ todo' = [todo EXCEPT ![w] = {d \in Dests : dest[d] # "SUCCESS"}]
            /\ routed' = [routed EXCEPT ![w] = media # "bare"]
            /\ wpc' = [wpc EXCEPT ![w] = "loop"]
       ELSE /\ wpc' = [wpc EXCEPT ![w] = "done"]
            /\ UNCHANGED <<todo, routed>>
    /\ UNCHANGED <<post, at, media, dest, job, cur, sent, was, verdict,
                   handlerVars, removerVars, history>>

(* Variants for the mutation runs: claims that look at the status less. *)
ClaimableBusy == {"SCHEDULED", "FAILED", "PUBLISHING"}
ClaimableDone == {"SCHEDULED", "FAILED", "SUCCESS"}

(* the statuses the claim's where clause admits *)
Claimable == {"SCHEDULED", "FAILED"}

(* publishOneDestination: the conditional update is the claim. *)
Claim(w) ==
    /\ wpc[w] = "loop"
    /\ \E d \in todo[w] :
        /\ dest[d] \in Claimable
        /\ dest' = [dest EXCEPT ![d] = "PUBLISHING"]
        /\ todo' = [todo EXCEPT ![w] = @ \ {d}]
        /\ cur' = [cur EXCEPT ![w] = d]
    /\ wpc' = [wpc EXCEPT ![w] = "send"]
    /\ UNCHANGED <<post, at, media, job, sent, routed, was, verdict,
                   handlerVars, removerVars, history>>

(* It updated no row: somebody else has the destination. *)
ClaimRefused(w) ==
    /\ wpc[w] = "loop"
    /\ \E d \in todo[w] :
        /\ dest[d] \notin Claimable
        /\ todo' = [todo EXCEPT ![w] = @ \ {d}]
    /\ UNCHANGED <<post, at, media, dest, job, wpc, cur, sent, routed, was, verdict,
                   handlerVars, removerVars, history>>

(* The post's media have been without a route at some time. *)
Stripped == media # "routed"

(* w's copy of the post can be published where it is at. *)
HasRoute(w) == cur[w] \in Instagram => routed[w]

(* The network takes the next piece of w's current destination. *)
Accepted(w) ==
    /\ wpc[w] = "send" /\ HasRoute(w)
    /\ sent' = [sent EXCEPT ![w] = @ + 1]
    /\ copies' = IF sent[w] = 0 THEN [copies EXCEPT ![cur[w]] = @ + 1] ELSE copies

(* provider.publish() returned an id.  After the first tweet of a thread  *)
(* its id is stored before the replies go out.                            *)
Send(w) ==
    /\ Accepted(w)
    /\ wpc' = [wpc EXCEPT ![w] =
                 IF sent[w] = Replies[cur[w]] THEN "save"
                 ELSE IF sent[w] = 0 THEN "persist" ELSE "send"]
    /\ UNCHANGED <<post, at, media, dest, job, todo, cur, routed, was, verdict,
                   handlerVars, removerVars, orphans, removed>>

(* Instagram's provider knows no route for a feed post without a picture   *)
(* or a video: it returns, nothing published and nothing thrown.           *)
NoRoute(w) ==
    /\ wpc[w] = "send" /\ ~HasRoute(w)
    /\ wpc' = [wpc EXCEPT ![w] = "save"]
    /\ UNCHANGED <<post, at, media, dest, job, todo, cur, sent, routed, was, verdict,
                   handlerVars, removerVars, history>>

(* Variant for the mutation runs: a refusal that is returned, not thrown. *)
RejectedSilently(w) ==
    /\ wpc[w] = "send"
    /\ NextDest(w)
    /\ UNCHANGED <<post, at, media, dest, job, todo, routed, was, verdict,
                   handlerVars, removerVars, history>>

(* The network refuses the piece, or credentials are missing. *)
Rejected(w) ==
    /\ wpc[w] = "send"
    /\ wpc' = [wpc EXCEPT ![w] = "catch"]
    /\ UNCHANGED <<post, at, media, dest, job, todo, cur, sent, routed, was, verdict,
                   handlerVars, removerVars, history>>

(* The network takes the piece and the answer is lost. *)
AnswerLost(w) ==
    /\ "net" \in Faults
    /\ Accepted(w)
    /\ wpc' = [wpc EXCEPT ![w] = "catch"]
    /\ UNCHANGED <<post, at, media, dest, job, todo, cur, routed, was, verdict,
                   handlerVars, removerVars, orphans, removed>>

(* prisma.update throws when the row is gone. *)
Persist(w) ==
    /\ wpc[w] = "persist"
    /\ wpc' = [wpc EXCEPT ![w] = IF dest[cur[w]] = "GONE" THEN "catch" ELSE "send"]
    /\ UNCHANGED <<post, at, media, dest, job, todo, cur, sent, routed, was, verdict,
                   handlerVars, removerVars, history>>

(* The destination is recorded as published. *)
Save(w) ==
    /\ wpc[w] = "save"
    /\ IF dest[cur[w]] = "GONE"
       THEN /\ wpc' = [wpc EXCEPT ![w] = "catch"]
            /\ UNCHANGED <<dest, cur, sent>>
       ELSE /\ dest' = [dest EXCEPT ![cur[w]] = "SUCCESS"]
            /\ NextDest(w)
    /\ UNCHANGED <<post, at, media, job, todo, routed, was, verdict,
                   handlerVars, removerVars, history>>

(* The catch block records the failure and rethrows; process() goes on    *)
(* with the next destination.                                             *)
Catch(w) ==
    /\ wpc[w] = "catch"
    /\ IF dest[cur[w]] = "GONE"
       THEN UNCHANGED <<dest, orphans>>
       ELSE /\ dest' = [dest EXCEPT ![cur[w]] = "FAILED"]
            /\ orphans' = IF sent[w] > 0
                          THEN [orphans EXCEPT ![cur[w]] = @ + 1] ELSE orphans
    /\ NextDest(w)
    /\ UNCHANGED <<post, at, media, job, todo, routed, was, verdict,
                   handlerVars, removerVars, copies, removed>>

(* recomputeMasterPostStatus reads the status ... *)
ReadStatus(w) ==
    /\ wpc[w] = "loop" /\ todo[w] = {}
    /\ was' = [was EXCEPT ![w] = post]
    /\ wpc' = [wpc EXCEPT ![w] = IF Exists THEN "counts" ELSE "done"]
    /\ UNCHANGED <<post, at, media, dest, job, todo, cur, sent, routed, verdict,
                   handlerVars, removerVars, history>>

(* Variants for the mutation runs: failures are ignored, or awaited. *)
VerdictLax(s) ==
    LET found == {s[d] : d \in Dests}
    IN  IF found \cap {"SCHEDULED", "PUBLISHING"} # {} THEN "PUBLISHING"
        ELSE IF "SUCCESS" \in found THEN "PUBLISHED" ELSE "FAILED"
VerdictOpen(s) ==
    IF \A d \in Dests : s[d] = "SUCCESS" THEN "PUBLISHED" ELSE "PUBLISHING"

(* the status the destinations' statuses add up to *)
Verdict(s) ==
    LET found == {s[d] : d \in Dests}
    IN  IF found \cap {"SCHEDULED", "PUBLISHING"} # {} THEN "PUBLISHING"
        ELSE IF "SUCCESS" \notin found THEN "FAILED"
        ELSE IF "FAILED" \in found THEN "PARTIAL" ELSE "PUBLISHED"

(* ... then groups the destinations, and writes only on a change ... *)
Count(w) ==
    /\ wpc[w] = "counts"
    /\ verdict' = [verdict EXCEPT ![w] = Verdict(dest)]
    /\ wpc' = [wpc EXCEPT ![w] = IF Verdict(dest) = was[w] THEN "done" ELSE "write"]
    /\ UNCHANGED <<post, at, media, dest, job, todo, cur, sent, routed, was,
                   handlerVars, removerVars, history>>

(* ... against the status read before. *)
Write(w) ==
    /\ wpc[w] = "write"
    /\ IF Exists
       THEN post' = verdict[w] /\ wpc' = [wpc EXCEPT ![w] = "done"]
       ELSE wpc' = [wpc EXCEPT ![w] = "throw"] /\ UNCHANGED post
    /\ UNCHANGED <<at, media, dest, job, todo, cur, sent, routed, was, verdict,
                   handlerVars, removerVars, history>>

Finish(w) ==
    /\ wpc[w] = "done"
    /\ job' = Completed(job, w)
    /\ Leave(w)
    /\ UNCHANGED <<post, at, media, dest, handlerVars, removerVars, history>>

Throw(w) ==
    /\ wpc[w] = "throw"
    /\ job' = Thrown(job, w)
    /\ Leave(w)
    /\ UNCHANGED <<post, at, media, dest, handlerVars, removerVars, history>>

-----------------------------------------------------------------------------
(* What goes wrong under a worker. *)

(* A database call throws.  Inside the try block it leads to the catch     *)
(* block, in the catch block or the claim to the next destination, and     *)
(* elsewhere out of process().                                             *)
DbError(w) ==
    /\ "db" \in Faults
    /\ \/ /\ wpc[w] \in {"persist", "save"}
          /\ wpc' = [wpc EXCEPT ![w] = "catch"]
          /\ UNCHANGED <<todo, cur, sent>>
       \/ /\ wpc[w] = "catch"
          /\ NextDest(w)
          /\ UNCHANGED todo
       \/ /\ wpc[w] = "loop"
          /\ \E d \in todo[w] : todo' = [todo EXCEPT ![w] = @ \ {d}]
          /\ UNCHANGED <<wpc, cur, sent>>
       \/ /\ \/ wpc[w] \in {"load", "counts", "write"}
             \/ wpc[w] = "loop" /\ todo[w] = {}
          /\ wpc' = [wpc EXCEPT ![w] = "throw"]
          /\ UNCHANGED <<todo, cur, sent>>
    /\ UNCHANGED <<post, at, media, dest, job, routed, was, verdict,
                   handlerVars, removerVars, history>>

(* The worker process dies; whatever it had claimed stays as it is. *)
WorkerCrash(w) ==
    /\ "crash" \in Faults
    /\ wpc[w] # "idle"
    /\ Leave(w)
    /\ UNCHANGED <<post, at, media, dest, job, handlerVars, removerVars, history>>

(* The job's lock expires: its owner died, or is alive but did not renew. *)
LockExpires ==
    /\ job.state = "active"
    /\ "stall" \in Faults \/ wpc[job.owner] = "idle"
    /\ job' = Stalled(job)
    /\ UNCHANGED <<post, at, media, dest, workerVars, handlerVars, removerVars, history>>

-----------------------------------------------------------------------------
Request(h) ==
    \/ Create(h) \/ Enqueue(h)
    \/ UpdateRead(h) \/ UpdateCommit(h) \/ UpdateSync(h)
    \/ DeleteRead(h) \/ DeleteUnqueue(h) \/ DeleteDrop(h)
    \/ ClearRead(h) \/ ClearReset(h)

Removal(r) == RemoveRead(r) \/ RemoveCall(r) \/ RemoveMark(r) \/ RemoveReturn(r)

Process(w) ==
    \/ Take(w) \/ Load(w) \/ Claim(w) \/ ClaimRefused(w)
    \/ Send(w) \/ NoRoute(w) \/ Rejected(w) \/ Persist(w) \/ Save(w) \/ Catch(w)
    \/ ReadStatus(w) \/ Count(w) \/ Write(w) \/ Finish(w) \/ Throw(w)

Next ==
    \/ \E h \in Handlers : Request(h) \/ HandlerCrash(h)
    \/ \E r \in Removers : Removal(r) \/ RemoveCrash(r)
    \/ \E w \in Workers : Process(w) \/ AnswerLost(w) \/ DbError(w) \/ WorkerCrash(w)
    \/ DeleteFile \/ LockExpires

Spec == Init /\ [][Next]_vars

(* Node runs every ready continuation, the network answers one way or the  *)
(* other, and every worker looks for waiting and for stalled jobs.         *)
Fairness ==
    /\ \A h \in Handlers : WF_vars(Request(h) /\ hpc[h] # "idle")
    /\ \A r \in Removers : WF_vars(Removal(r) /\ rpc[r] # "idle")
    /\ \A w \in Workers : WF_vars(Process(w))
    /\ WF_vars(LockExpires)

FairSpec == Spec /\ Fairness

-----------------------------------------------------------------------------
(* Properties *)

(* w won the claim on d and has not recorded how its attempt ended. *)
Holds(w, d) == wpc[w] \in {"send", "persist", "save", "catch"} /\ cur[w] = d

(* The conditional update of publishOneDestination lets one worker at a    *)
(* time publish a destination, although a stalled job runs twice at once.  *)
(* Remote deletion is excepted: it writes FAILED over whatever it finds.   *)
ClaimExclusive ==
    \A d \in Dests : ~removed[d] =>
        \A v, w \in Workers : Holds(v, d) /\ Holds(w, d) => v = w

(* However often the job is retried, handed out again or scheduled anew,   *)
(* a destination gets one post, plus one for every attempt that was        *)
(* recorded FAILED after the network had accepted its first piece.         *)
CopiesAccounted ==
    \A d \in Dests : ~removed[d] => copies[d] <= orphans[d] + 1

(* recomputeMasterPostStatus calls a post PUBLISHED only when each of its  *)
(* destinations is up, though the statuses it counted may have moved on.   *)
(* Instagram is excepted once the post's media have been taken away.       *)
PublishedTruthful ==
    post = "PUBLISHED" =>
        \A d \in Dests : /\ copies[d] > 0 \/ (d \in Instagram /\ Stripped)
                         /\ dest[d] = "SUCCESS" \/ removed[d]

(* When process() returns, the status it computed from a count taken       *)
(* earlier tells what became of the destinations.  It needs the lock to be *)
(* kept: two overlapping runs of a job overwrite each other's verdict.     *)
VerdictTrue ==
    (\E w \in Workers : wpc[w] = "done") /\ (\A d \in Dests : ~removed[d]) =>
        LET up   == {d \in Dests : dest[d] = "SUCCESS"}
            down == {d \in Dests : dest[d] = "FAILED"}
        IN  /\ post = "PUBLISHED" => up = Dests
            /\ post = "PARTIAL" => up # {} /\ down # {} /\ up \cup down = Dests
            /\ post = "FAILED" => down = Dests
            /\ post = "PUBLISHING" => up \cup down # Dests

(* A destination recorded SUCCESS is never published again nor recorded as *)
(* failed, whatever stale copy of the post a worker is going through; only *)
(* remote deletion and the deletion of the post touch it.                  *)
SuccessFinal ==
    [][\A d \in Dests : dest[d] = "SUCCESS" =>
          dest'[d] \in {"SUCCESS", "GONE"} \/ removed[d]]_vars

(* deletePost drops the job before the row, and fails on an active job, so *)
(* a worker never publishes a post that is no longer there.  It takes one  *)
(* request at a time: an updatePost between the two adds the job back.     *)
GoneNotSent ==
    post = "GONE" => \A w \in Workers, d \in Dests : ~Holds(w, d)

(* Attempts and stalls are bounded, so the job always comes to an end, for *)
(* good or into the failed set, whatever fails under its workers.          *)
JobSettles == []<>(job.state \in {"absent", "failed"})

(* A claim is always given up, as SUCCESS or FAILED, by a worker that stays *)
(* alive and reaches the database: nobody else would ever release it.       *)
ClaimReleased ==
    \A d \in Dests : dest[d] = "PUBLISHING" ~> dest[d] # "PUBLISHING"

(* A scheduled post comes to its final status and keeps it, even when      *)
(* networks refuse it and answers are lost, if no lock ever is: of two     *)
(* overlapping runs the older may write its verdict last.                  *)
ScheduledSettles ==
    [](job.stalls = 0) =>
        (post = "SCHEDULED" ~> [](post \in {"PUBLISHED", "PARTIAL", "FAILED"}))

-----------------------------------------------------------------------------
(* The contract of Delivery, under the refinement mapping below: an        *)
(* attempt is under way while a worker holds the claim, and a PUBLISHING   *)
(* row nobody holds is an abandoned one.                                   *)
PhaseOf(d) ==
    CASE dest[d] = "ABSENT"     -> "none"
      [] dest[d] = "SCHEDULED"  -> "waiting"
      [] dest[d] = "PUBLISHING" -> IF \E w \in Workers : Holds(w, d)
                                   THEN "sending" ELSE "abandoned"
      [] dest[d] = "SUCCESS"    -> "delivered"
      [] dest[d] = "FAILED"     -> "failed"
      [] dest[d] = "GONE"       -> "gone"

Contract == INSTANCE Delivery WITH
    Lenient <- Instagram,
    bare <- Stripped,
    phase <- [d \in Dests |-> PhaseOf(d)],
    fresh <- [d \in Dests |-> dest[d] = "PUBLISHING"
                               /\ \E w \in Workers : Holds(w, d) /\ sent[w] > 0]

(* Jobs, workers, retries, stalls and requests together do for each        *)
(* destination only what the contract allows.  It takes one remote-deletion *)
(* request at a time.                                                      *)
DeliveryContract == Contract!Spec
==============================================================================
