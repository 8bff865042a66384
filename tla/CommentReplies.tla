--------------------------- MODULE CommentReplies ---------------------------
(***************************************************************************)
(* One reply an agent writes to a comment: the request that stores and     *)
(* queues it, the jobs that post it, the retries a failed one is offered,  *)
(* and the network's webhook, which echoes every comment on the page, the  *)
(* page's own included.                                                    *)
(*                                                                         *)
(* Replies share no state, so one stands for all.  Each awaited call is a  *)
(* step.  The network numbers the copies of the reply it has accepted, and *)
(* these numbers are its comment ids.  The retries' job ids end in         *)
(* Date.now() and are numbered too; job 0 is the first.                    *)
(***************************************************************************)
EXTENDS BullQueue

CONSTANTS Handlers,    \* concurrent API requests on the reply
          Platforms,   \* where it may go: "META", "SILENT" or "OTHER"
          Faults,      \* what may go wrong
          MaxRetries,  \* bound on the retries
          MaxCopies    \* bound on the copies

ASSUME RepliesAssumption ==
    /\ Platforms \subseteq {"META", "SILENT", "OTHER"}
    /\ Faults \subseteq {"crash", "stall", "net", "db"}
    /\ MaxRetries \in Nat /\ MaxCopies \in Nat
    /\ MaxAttempts = 1                      \* what every add() here says

VARIABLES
    status,    \* Comment.status; "ABSENT" before creation, "GONE" after deletion
    ext,       \* externalCommentId: a copy's number, or 0 for `pending_...'
    platform,  \* where the reply goes
    job,       \* its jobs
    failing,   \* jobs whose `failed' event handler is under way
    wpc,       \* where each worker stands in process()
    wjob,      \* the job it runs
    wid,       \* the id the network has answered with
    hpc,       \* where each request stands
    hjob,      \* the job it is to add
    retries,   \* retries so far
    echoed,    \* copies stored a second time, as comments by somebody
    copies,    \* history: copies the network has accepted
    orphans,   \* history: accepted, and not recorded
    raced,     \* history: two runs, or a run and a late request or handler, met
    forgotten  \* history: a crash or an error dropped the next step

workerVars  == <<wpc, wjob, wid>>
handlerVars == <<hpc, hjob, retries>>
history     == <<copies, orphans, raced, forgotten>>
vars == <<status, ext, platform, job, failing, workerVars, handlerVars, echoed, history>>

Jobs == 0 .. MaxRetries

TypeOK ==
    /\ status \in {"ABSENT", "QUEUED", "FAILED", "VISIBLE", "GONE"}
    /\ ext \in Nat
    /\ platform \in {"META", "SILENT", "OTHER"}
    /\ job \in [Jobs -> Job]
    /\ \A j \in Jobs : job[j].state # "failed" => job[j].tries < MaxAttempts
    /\ failing \subseteq Jobs
    /\ wpc \in [Workers -> {"idle", "load", "send", "mark", "done", "throw"}]
    /\ wjob \in [Workers -> Jobs]
    /\ wid \in [Workers -> Nat]
    /\ hpc \in [Handlers -> {"idle", "requeue", "add"}]
    /\ hjob \in [Handlers -> Jobs]
    /\ retries \in 0 .. MaxRetries
    /\ echoed \subseteq 1 .. copies
    /\ copies \in Nat /\ orphans \in Nat
    /\ raced \in BOOLEAN /\ forgotten \in BOOLEAN

Init ==
    /\ status = "ABSENT"
    /\ ext = 0
    /\ platform \in Platforms
    /\ job = [j \in Jobs |-> NoJob]
    /\ failing = {}
    /\ wpc = [w \in Workers |-> "idle"]
    /\ wjob = [w \in Workers |-> 0]
    /\ wid = [w \in Workers |-> 0]
    /\ hpc = [h \in Handlers |-> "idle"]
    /\ hjob = [h \in Handlers |-> 0]
    /\ retries = 0
    /\ echoed = {}
    /\ copies = 0 /\ orphans = 0
    /\ raced = FALSE /\ forgotten = FALSE

Exists == status \notin {"ABSENT", "GONE"}

-----------------------------------------------------------------------------
(* API requests. *)

(* sendCommentReply stores the reply with a pending id ... *)
Create(h) ==
    /\ hpc[h] = "idle" /\ status = "ABSENT"
    /\ status' = "QUEUED"
    /\ hpc' = [hpc EXCEPT ![h] = "add"]
    /\ hjob' = [hjob EXCEPT ![h] = 0]
    /\ UNCHANGED <<ext, platform, job, failing, workerVars, retries, echoed, history>>

(* ... and queues its job; retryCommentReply ends the same way. *)
Add(h) ==
    /\ hpc[h] = "add"
    /\ job' = [job EXCEPT ![hjob[h]] = Added(@, NoSlot)]
    /\ hpc' = [hpc EXCEPT ![h] = "idle"]
    /\ hjob' = [hjob EXCEPT ![h] = 0]
    /\ UNCHANGED <<status, ext, platform, failing, workerVars, retries, echoed, history>>

(* retryCommentReply is for a reply that is FAILED when read ... *)
RetryRead(h) ==
    /\ hpc[h] = "idle" /\ status = "FAILED" /\ retries < MaxRetries
    /\ retries' = retries + 1
    /\ hjob' = [hjob EXCEPT ![h] = retries + 1]
    /\ hpc' = [hpc EXCEPT ![h] = "requeue"]
    /\ UNCHANGED <<status, ext, platform, job, failing, workerVars, echoed, history>>

(* ... and sets it QUEUED whatever it has become. *)
RetryMark(h) ==
    /\ hpc[h] = "requeue"
    /\ IF Exists
       THEN /\ status' = "QUEUED"
            /\ hpc' = [hpc EXCEPT ![h] = "add"]
            /\ raced' = (raced \/ ext # 0)
            /\ UNCHANGED hjob
       ELSE /\ hpc' = [hpc EXCEPT ![h] = "idle"]
            /\ hjob' = [hjob EXCEPT ![h] = 0]
            /\ UNCHANGED <<status, raced>>
    /\ UNCHANGED <<ext, platform, job, failing, workerVars, retries, echoed,
                   copies, orphans, forgotten>>

(* The API process dies between two awaits. *)
HandlerCrash(h) ==
    /\ "crash" \in Faults
    /\ hpc[h] # "idle"
    /\ hpc' = [hpc EXCEPT ![h] = "idle"]
    /\ hjob' = [hjob EXCEPT ![h] = 0]
    /\ forgotten' = (forgotten \/ hpc[h] = "add")
    /\ UNCHANGED <<status, ext, platform, job, failing, workerVars, retries, echoed,
                   copies, orphans, raced>>

(* The rows go with their post; the jobs stay. *)
Cascade ==
    /\ Exists
    /\ status' = "GONE"
    /\ ext' = 0
    /\ echoed' = {}
    /\ UNCHANGED <<platform, job, failing, workerVars, handlerVars, history>>

-----------------------------------------------------------------------------
(* OutboundMessagesProcessor.processOutboundComment *)

Leave(w) ==
    /\ wpc' = [wpc EXCEPT ![w] = "idle"]
    /\ wjob' = [wjob EXCEPT ![w] = 0]
    /\ wid' = [wid EXCEPT ![w] = 0]

(* the runs that have found the reply unsent *)
Sending == {w \in Workers : wpc[w] \in {"send", "mark"}}

Goto(w, point) ==
    /\ wpc' = [wpc EXCEPT ![w] = point]
    /\ UNCHANGED <<wjob, wid>>

Take(w) ==
    /\ wpc[w] = "idle"
    /\ \E j \in Jobs :
        /\ job[j].state = "waiting"
        /\ job' = [job EXCEPT ![j] = Taken(@, w)]
        /\ wjob' = [wjob EXCEPT ![w] = j]
    /\ wpc' = [wpc EXCEPT ![w] = "load"]
    /\ UNCHANGED <<status, ext, platform, failing, wid, handlerVars, echoed, history>>

(* Variant for the mutation runs: the idempotency check is forgotten. *)
SettledAnyway == ~Exists

(* nothing is left to send, by the row the job loads *)
Settled == ~Exists \/ ext # 0

(* The reply is loaded and routed: the senders for LinkedIn and X are      *)
(* commented out, other platforms throw.                                   *)
Load(w) ==
    /\ wpc[w] = "load"
    /\ IF Settled \/ platform = "SILENT"
       THEN Goto(w, "done") /\ UNCHANGED raced
       ELSE IF platform = "OTHER"
       THEN Goto(w, "throw") /\ UNCHANGED raced
       ELSE Goto(w, "send") /\ raced' = (raced \/ Sending # {} \/ failing # {})
    /\ UNCHANGED <<status, ext, platform, job, failing, handlerVars, echoed,
                   copies, orphans, forgotten>>

(* The network takes the reply and answers with its id ... *)
Send(w) ==
    /\ wpc[w] = "send" /\ copies < MaxCopies
    /\ copies' = copies + 1
    /\ wid' = [wid EXCEPT ![w] = copies + 1]
    /\ wpc' = [wpc EXCEPT ![w] = "mark"]
    /\ UNCHANGED <<status, ext, platform, job, failing, wjob, handlerVars, echoed,
                   orphans, raced, forgotten>>

(* ... or refuses it, or the token is missing ... *)
Rejected(w) ==
    /\ wpc[w] = "send"
    /\ Goto(w, "throw")
    /\ UNCHANGED <<status, ext, platform, job, failing, handlerVars, echoed, history>>

(* ... or takes it and the answer is lost. *)
AnswerLost(w) ==
    /\ "net" \in Faults
    /\ wpc[w] = "send" /\ copies < MaxCopies
    /\ copies' = copies + 1
    /\ orphans' = orphans + 1
    /\ Goto(w, "throw")
    /\ UNCHANGED <<status, ext, platform, job, failing, handlerVars, echoed,
                   raced, forgotten>>

(* An id the echo has already stored breaks @@unique([platform,            *)
(* externalCommentId]).                                                    *)
Markable(w) == Exists /\ wid[w] \notin echoed

(* Variant for the mutation runs: the status is left as it was. *)
MarkIdOnly(w) ==
    /\ wpc[w] = "mark"
    /\ Markable(w)
    /\ ext' = wid[w]
    /\ Goto(w, "done")
    /\ UNCHANGED <<status, platform, job, failing, handlerVars, echoed, history>>

(* markCommentSuccess overwrites the pending id. *)
Mark(w) ==
    /\ wpc[w] = "mark"
    /\ Markable(w)
    /\ ext' = wid[w]
    /\ status' = "VISIBLE"
    /\ Goto(w, "done")
    /\ UNCHANGED <<platform, job, failing, handlerVars, echoed, history>>

MarkFails(w) ==
    /\ wpc[w] = "mark"
    /\ ~Markable(w) \/ "db" \in Faults
    /\ orphans' = orphans + 1
    /\ Goto(w, "throw")
    /\ UNCHANGED <<status, ext, platform, job, failing, handlerVars, echoed,
                   copies, raced, forgotten>>

Finish(w) ==
    /\ wpc[w] = "done"
    /\ job' = [job EXCEPT ![wjob[w]] = Completed(@, w)]
    /\ Leave(w)
    /\ UNCHANGED <<status, ext, platform, failing, handlerVars, echoed, history>>

Alive(j) == \E w \in Workers : job[j].owner = w /\ wjob[w] = j /\ wpc[w] # "idle"

(* Job j comes to be new; once it has failed the event handler is called,  *)
(* too late if the reply is up since an earlier run, or by another one.    *)
Becomes(j, new, overlap) ==
    LET fails == new.state = "failed" /\ job[j].state # "failed"
    IN  /\ job' = [job EXCEPT ![j] = new]
        /\ failing' = IF fails THEN failing \cup {j} ELSE failing
        /\ raced' = (raced \/ overlap \/ (fails /\ (ext # 0 \/ Sending # {})))

(* process() throws; a worker that has lost its lock changes nothing. *)
Throw(w) ==
    /\ wpc[w] = "throw"
    /\ Becomes(wjob[w], Thrown(job[wjob[w]], w), FALSE)
    /\ Leave(w)
    /\ UNCHANGED <<status, ext, platform, handlerVars, echoed,
                   copies, orphans, forgotten>>

(* Variant for the mutation runs: the handler records nothing. *)
FailedIgnored(j) ==
    /\ j \in failing
    /\ failing' = failing \ {j}
    /\ UNCHANGED <<status, ext, platform, job, workerVars, handlerVars, echoed, history>>

(* onFailed writes FAILED by id, whatever the reply has become. *)
Failed(j) ==
    /\ j \in failing
    /\ failing' = failing \ {j}
    /\ status' = IF Exists THEN "FAILED" ELSE status
    /\ UNCHANGED <<ext, platform, job, workerVars, handlerVars, echoed, history>>

-----------------------------------------------------------------------------
(* What goes wrong under a worker. *)

(* The handler's update fails, or its process dies first. *)
FailedLost(j) ==
    /\ Faults \cap {"crash", "db"} # {}
    /\ j \in failing
    /\ failing' = failing \ {j}
    /\ forgotten' = TRUE
    /\ UNCHANGED <<status, ext, platform, job, workerVars, handlerVars, echoed,
                   copies, orphans, raced>>

LoadFails(w) ==
    /\ "db" \in Faults
    /\ wpc[w] = "load"
    /\ Goto(w, "throw")
    /\ UNCHANGED <<status, ext, platform, job, failing, handlerVars, echoed, history>>

WorkerCrash(w) ==
    /\ "crash" \in Faults
    /\ wpc[w] # "idle"
    /\ orphans' = IF wpc[w] = "mark" THEN orphans + 1 ELSE orphans
    /\ Leave(w)
    /\ UNCHANGED <<status, ext, platform, job, failing, handlerVars, echoed,
                   copies, raced, forgotten>>

(* The lock of a job expires; the worker that finds it stalled once too    *)
(* often fails it and calls the event handler.                             *)
LockExpires(j) ==
    /\ job[j].state = "active"
    /\ "stall" \in Faults \/ ~Alive(j)
    /\ Becomes(j, Stalled(job[j]), Alive(j))
    /\ UNCHANGED <<status, ext, platform, workerVars, handlerVars, echoed,
                   copies, orphans, forgotten>>

(* ingestInboundComment, for the echo of copy i: an upsert by its id. *)
Echo(i) ==
    /\ Exists /\ i # ext
    /\ echoed' = echoed \cup {i}
    /\ UNCHANGED <<status, ext, platform, job, failing, workerVars, handlerVars, history>>

-----------------------------------------------------------------------------
Request(h) == Create(h) \/ Add(h) \/ RetryRead(h) \/ RetryMark(h)

Process(w) ==
    \/ Take(w) \/ Load(w) \/ Send(w) \/ Rejected(w) \/ Mark(w) \/ MarkFails(w)
    \/ Finish(w) \/ Throw(w)

Next ==
    \/ \E h \in Handlers : Request(h) \/ HandlerCrash(h)
    \/ \E w \in Workers : Process(w) \/ AnswerLost(w) \/ LoadFails(w) \/ WorkerCrash(w)
    \/ \E j \in Jobs : Failed(j) \/ FailedLost(j) \/ LockExpires(j)
    \/ \E i \in 1 .. copies : Echo(i)
    \/ Cascade

Spec == Init /\ [][Next]_vars

-----------------------------------------------------------------------------
(* Properties *)

(* The pending id is looked at when the reply is loaded, well before it is *)
(* sent and replaced.  Unless runs meet, each copy but one is a send whose *)
(* outcome could not be recorded, and which was then tried again.          *)
CopiesAccounted == ~raced => copies <= orphans + 1

(* markCommentSuccess and the failure handler of another attempt both      *)
(* write the status by id.  Unless runs meet, a reply that is up and known *)
(* by its id is shown as sent, not as failed or on its way.                *)
UpIsShown == ext # 0 /\ ~raced => status \in {"VISIBLE", "GONE"}

(* A reply shown as on its way is on its way: some request, job or handler *)
(* is still going to settle it.  A dropped step is never made up for.      *)
QueuedAttended ==
    status = "QUEUED" /\ platform # "SILENT" /\ ~raced /\ ~forgotten =>
        \/ \E h \in Handlers : hpc[h] = "add"
        \/ \E j \in Jobs : job[j].state \in {"waiting", "active"}
        \/ failing # {}
==============================================================================
