------------------------------- MODULE Inbox -------------------------------
(***************************************************************************)
(* One conversation of the shared inbox: the messages a customer writes,   *)
(* which come by webhook job or by polling, in any order and any number of *)
(* times; the agents who read and archive it; and one reply, which a job   *)
(* delivers to the network part by part (its text, then each attachment).  *)
(*                                                                         *)
(* `now' numbers the instants at which somebody reads a clock; 0 stands    *)
(* for null.  A clock is read before the transaction that writes what it   *)
(* said.  Ingestion is one transaction whose first writes lock the contact *)
(* and the conversation, hence one step.  Only Meta conversations exist:   *)
(* no route queues the jobs that would create others.                      *)
(***************************************************************************)
EXTENDS BullQueue

CONSTANTS Agents,      \* workspace members with the inbox open
          Messages,    \* what the customer writes
          NoAgent,     \* author of a reply not yet written
          NParts,      \* text and attachments of the reply
          Faults,      \* what may go wrong
          MaxNow       \* bound on the instants

ASSUME InboxAssumption ==
    /\ NParts \in Nat \ {0}
    /\ NoAgent \notin Agents
    /\ Faults \subseteq {"crash", "stall", "net", "db"}
    /\ MaxNow \in Nat
    /\ MaxAttempts = 1                   \* sendReply's add() says so

VARIABLES
    now,        \* the last instant
    sentAt,     \* when the customer sent each message, by the provider's clock
    hook,       \* the webhook job of each message
    accepted,   \* history: messages whose webhook was answered 200
    stored,     \* messages that have a row
    last,       \* InboxConversation.lastMessageAt; 0 before the row exists
    peak,       \* history: the latest lastMessageAt there has been
    archived,   \* InboxConversation.archivedAt is set
    shelved,    \* history: the messages there when it was archived
    readAt,     \* ConversationReadState.lastReadAt, per agent
    asked,      \* the request each agent has under way
    stamp,      \* the instant each request or run has read off the clock
    status,     \* deliveryStatus of the reply; "ABSENT" before it is written
    author,     \* the agent who writes it
    adding,     \* sendReply has committed, its add() is still to come
    job,        \* its job
    wpc,        \* where each worker stands in processOutboundMessage
    wpart,      \* parts the worker has got through
    got,        \* history: the parts the customer has received
    unheard,    \* history: an outcome was lost on its way to the row
    raced,      \* history: two runs of the job overlapped
    forgotten   \* history: a run ended in a place that records nothing

thread  == <<last, peak, archived, shelved, readAt>>
asking  == <<asked, stamp>>
inbound == <<sentAt, hook, accepted, stored>>
reply   == <<status, author, adding>>
runs    == <<job, wpc, wpart>>
history == <<got, unheard, raced, forgotten>>
vars    == <<now, inbound, thread, asking, reply, runs, history>>

Parts == 1 .. NParts

(* Where a run may stand. *)
Points == {"idle", "load", "mark", "send", "stamp", "record", "fail", "done", "throw"}

TypeOK ==
    /\ now \in 0 .. MaxNow
    /\ sentAt \in [Messages -> 0 .. MaxNow]
    /\ hook \in [Messages -> {"none", "waiting", "failed"}]
    /\ accepted \subseteq Messages
    /\ stored \subseteq Messages /\ shelved \subseteq Messages
    /\ last \in 0 .. MaxNow /\ peak \in 0 .. MaxNow
    /\ archived \in BOOLEAN
    /\ readAt \in [Agents -> 0 .. MaxNow]
    /\ asked \in [Agents -> {"none", "read", "reply"}]
    /\ stamp \in [Agents \cup Workers -> 0 .. MaxNow]
    /\ status \in {"ABSENT", "QUEUED", "SENDING", "SENT", "FAILED"}
    /\ author \in Agents \cup {NoAgent}
    /\ adding \in BOOLEAN
    /\ job \in Job
    /\ wpc \in [Workers -> Points]
    /\ wpart \in [Workers -> 0 .. NParts]
    /\ got \subseteq Parts
    /\ unheard \in BOOLEAN /\ raced \in BOOLEAN /\ forgotten \in BOOLEAN

Init ==
    /\ now = 0
    /\ sentAt = [m \in Messages |-> 0]
    /\ hook = [m \in Messages |-> "none"]
    /\ accepted = {}
    /\ stored = {} /\ shelved = {}
    /\ last = 0 /\ peak = 0 /\ archived = FALSE
    /\ readAt = [a \in Agents |-> 0]
    /\ asked = [a \in Agents |-> "none"]
    /\ stamp = [x \in Agents \cup Workers |-> 0]
    /\ status = "ABSENT" /\ author = NoAgent /\ adding = FALSE
    /\ job = NoJob
    /\ wpc = [w \in Workers |-> "idle"]
    /\ wpart = [w \in Workers |-> 0]
    /\ got = {}
    /\ unheard = FALSE /\ raced = FALSE /\ forgotten = FALSE

Clock == now < MaxNow /\ now' = now + 1

(* The clock is read, and what it says kept until the transaction. *)
ReadClock(x) == Clock /\ stamp' = [stamp EXCEPT ![x] = now']
Used(x) == stamp' = [stamp EXCEPT ![x] = 0]

MoveTo(t) == last' = t /\ peak' = IF t > peak THEN t ELSE peak

-----------------------------------------------------------------------------
(* From the customer to the inbox. *)

CustomerWrites(m) ==
    /\ sentAt[m] = 0
    /\ Clock
    /\ sentAt' = [sentAt EXCEPT ![m] = now']
    /\ UNCHANGED <<hook, accepted, stored, thread, asking, reply, runs, history>>

(* The webhook's job is named after the message: while one of that name    *)
(* exists, be it failed, another is not added.                             *)
Webhook(m) ==
    /\ sentAt[m] # 0
    /\ hook' = [hook EXCEPT ![m] = IF @ = "none" THEN "waiting" ELSE @]
    /\ accepted' = accepted \cup {m}
    /\ UNCHANGED <<now, sentAt, stored, thread, asking, reply, runs, history>>

(* Variant for the mutation runs: only the first sight of a message        *)
(* touches the conversation that is there.                                 *)
StoreQuietly(m) ==
    /\ stored' = stored \cup {m}
    /\ IF last = 0 THEN MoveTo(sentAt[m]) ELSE UNCHANGED <<last, peak>>
    /\ UNCHANGED <<now, archived, shelved, readAt, asking>>

(* ingestInboundMessage.  The conversation is moved to the message's own   *)
(* time and unarchived, be the message new, late or here already.          *)
Store(m) ==
    /\ stored' = stored \cup {m}
    /\ MoveTo(sentAt[m])
    /\ archived' = FALSE /\ shelved' = {}
    /\ UNCHANGED <<now, readAt, asking>>

Ingest(m) ==
    /\ hook[m] = "waiting"
    /\ Store(m)
    /\ hook' = [hook EXCEPT ![m] = "none"]
    /\ UNCHANGED <<sentAt, accepted, reply, runs, history>>

(* Variant for the mutation runs: a job that cannot be resolved returns. *)
IngestGivesUp(m) ==
    /\ hook[m] = "waiting"
    /\ hook' = [hook EXCEPT ![m] = "none"]
    /\ UNCHANGED <<now, sentAt, accepted, stored, thread, asking, reply, runs, history>>

(* No profile resolves, or the database errs, and for the fifth time. *)
IngestFails(m) ==
    /\ hook[m] = "waiting"
    /\ hook' = [hook EXCEPT ![m] = "failed"]
    /\ UNCHANGED <<now, sentAt, accepted, stored, thread, asking, reply, runs, history>>

(* The sync job fetches the latest messages and ingests them one by one. *)
Poll(m) ==
    /\ sentAt[m] # 0
    /\ Store(m)
    /\ UNCHANGED <<sentAt, hook, accepted, reply, runs, history>>

-----------------------------------------------------------------------------
(* Agents. *)

(* listConversations *)
IsRead(a) == readAt[a] # 0 /\ readAt[a] >= last

(* markRead and sendReply find the conversation and read the clock. *)
Ask(a, what) ==
    /\ last # 0 /\ asked[a] = "none"
    /\ ReadClock(a)
    /\ asked' = [asked EXCEPT ![a] = what]
    /\ UNCHANGED <<inbound, thread, reply, runs, history>>

AskRead(a) == Ask(a, "read")

(* One reply is followed. *)
AskReply(a) ==
    /\ status = "ABSENT" /\ \A b \in Agents : asked[b] # "reply"
    /\ Ask(a, "reply")

Answered(a) == asked' = [asked EXCEPT ![a] = "none"] /\ Used(a)

(* markRead's upsert *)
MarkRead(a) ==
    /\ asked[a] = "read"
    /\ readAt' = [readAt EXCEPT ![a] = stamp[a]]
    /\ Answered(a)
    /\ UNCHANGED <<now, inbound, last, peak, archived, shelved, reply, runs, history>>

(* sendReply's transaction stores the reply, moves the conversation to the *)
(* instant read before it, and counts it as read by its author ...         *)
Reply(a) ==
    /\ asked[a] = "reply"
    /\ status' = "QUEUED" /\ author' = a /\ adding' = TRUE
    /\ MoveTo(stamp[a])
    /\ readAt' = [readAt EXCEPT ![a] = stamp[a]]
    /\ Answered(a)
    /\ UNCHANGED <<now, inbound, archived, shelved, runs, history>>

(* The write fails, or the process ends before it. *)
RequestLost(a) ==
    /\ Faults \cap {"crash", "db"} # {}
    /\ asked[a] # "none"
    /\ Answered(a)
    /\ UNCHANGED <<now, inbound, thread, reply, runs, history>>

(* updateConversation *)
Archive ==
    /\ last # 0
    /\ \/ archived' = TRUE /\ shelved' = stored
       \/ archived' = FALSE /\ shelved' = {}
    /\ UNCHANGED <<now, inbound, last, peak, readAt, asking, reply, runs, history>>

(* ... and queues its job. *)
Enqueue ==
    /\ adding
    /\ adding' = FALSE
    /\ job' = Added(job, NoSlot)
    /\ UNCHANGED <<now, inbound, thread, asking, status, author, wpc, wpart, history>>

EnqueueLost ==
    /\ "crash" \in Faults
    /\ adding
    /\ adding' = FALSE
    /\ forgotten' = TRUE
    /\ UNCHANGED <<now, inbound, thread, asking, status, author, runs, got, unheard, raced>>

-----------------------------------------------------------------------------
(* OutboundMessagesProcessor.processOutboundMessage *)

Goto(w, point) == wpc' = [wpc EXCEPT ![w] = point] /\ UNCHANGED <<job, wpart>>

(* A part has failed, or what came of them cannot be recorded. *)
GiveUp(w) ==
    /\ wpc' = [wpc EXCEPT ![w] = "fail"]
    /\ wpart' = [wpart EXCEPT ![w] = 0]
    /\ UNCHANGED job

Leave(w) ==
    /\ wpc' = [wpc EXCEPT ![w] = "idle"]
    /\ wpart' = [wpart EXCEPT ![w] = 0]

Take(w) ==
    /\ wpc[w] = "idle" /\ job.state = "waiting"
    /\ job' = Taken(job, w)
    /\ wpc' = [wpc EXCEPT ![w] = "load"]
    /\ raced' = (raced \/ \E v \in Workers : wpc[v] # "idle")
    /\ UNCHANGED <<now, inbound, thread, asking, reply, wpart, got, unheard, forgotten>>

Load(w) ==
    /\ wpc[w] = "load"
    /\ Goto(w, IF status = "SENT" THEN "done" ELSE "mark")
    /\ UNCHANGED <<now, inbound, thread, asking, reply, history>>

MarkSending(w) ==
    /\ wpc[w] = "mark"
    /\ status' = "SENDING"
    /\ Goto(w, "send")
    /\ UNCHANGED <<now, inbound, thread, asking, author, adding, history>>

(* Before the try block of sendMetaMessage: no token, or it cannot be      *)
(* decrypted; nothing records the error.                                   *)
NotReady(w) ==
    /\ wpc[w] = "send" /\ wpart[w] = 0
    /\ Goto(w, "throw")
    /\ forgotten' = TRUE
    /\ UNCHANGED <<now, inbound, thread, asking, reply, got, unheard, raced>>

(* Variants for the mutation runs: the loop stops one part early or late. *)
IsLastEarly(p) == p + 1 >= NParts
IsLastLate(p) == p > NParts

IsLast(p) == p = NParts

(* The network takes the next part ... *)
SendPart(w) ==
    /\ wpc[w] = "send"
    /\ LET p == wpart[w] + 1
       IN  /\ got' = got \cup {p}
           /\ wpart' = [wpart EXCEPT ![w] = p]
           /\ wpc' = [wpc EXCEPT ![w] = IF IsLast(p) THEN "stamp" ELSE "send"]
    /\ UNCHANGED <<now, inbound, thread, asking, reply, job, unheard, raced, forgotten>>

(* ... or refuses it ... *)
PartRefused(w) ==
    /\ wpc[w] = "send"
    /\ GiveUp(w)
    /\ UNCHANGED <<now, inbound, thread, asking, reply, history>>

(* ... or takes it and the answer is lost. *)
AnswerLost(w) ==
    /\ "net" \in Faults
    /\ wpc[w] = "send"
    /\ got' = got \cup {wpart[w] + 1}
    /\ unheard' = TRUE
    /\ GiveUp(w)
    /\ UNCHANGED <<now, inbound, thread, asking, reply, raced, forgotten>>

(* updateMessageSuccess reads the clock ... *)
Stamp(w) ==
    /\ wpc[w] = "stamp"
    /\ ReadClock(w)
    /\ Goto(w, "record")
    /\ UNCHANGED <<inbound, thread, asked, reply, history>>

(* ... and moves the conversation to what it said, which counts as read by *)
(* the author.                                                             *)
Record(w) ==
    /\ wpc[w] = "record"
    /\ status' = "SENT"
    /\ MoveTo(stamp[w])
    /\ readAt' = [readAt EXCEPT ![author] = stamp[w]]
    /\ Used(w)
    /\ Goto(w, "done")
    /\ UNCHANGED <<now, inbound, archived, shelved, asked, author, adding, history>>

RecordFails(w) ==
    /\ "db" \in Faults
    /\ wpc[w] = "record"
    /\ unheard' = TRUE
    /\ Used(w)
    /\ GiveUp(w)
    /\ UNCHANGED <<now, inbound, thread, asked, reply, got, raced, forgotten>>

(* Variant for the mutation runs: the error is only thrown. *)
HandleNothing(w) ==
    /\ wpc[w] = "fail"
    /\ Goto(w, "throw")
    /\ UNCHANGED <<now, inbound, thread, asking, reply, history>>

HandleFailure(w) ==
    /\ wpc[w] = "fail"
    /\ status' = "FAILED"
    /\ Goto(w, "throw")
    /\ UNCHANGED <<now, inbound, thread, asking, author, adding, history>>

Finish(w) ==
    /\ wpc[w] = "done"
    /\ job' = Completed(job, w)
    /\ Leave(w)
    /\ UNCHANGED <<now, inbound, thread, asking, reply, history>>

(* onFailed is for comments only. *)
Throw(w) ==
    /\ wpc[w] = "throw"
    /\ job' = Thrown(job, w)
    /\ Leave(w)
    /\ UNCHANGED <<now, inbound, thread, asking, reply, history>>

(* A query of the processor fails where no handler records it. *)
DbError(w) ==
    /\ "db" \in Faults
    /\ wpc[w] \in {"load", "mark", "fail"}
    /\ Goto(w, "throw")
    /\ forgotten' = TRUE
    /\ UNCHANGED <<now, inbound, thread, asking, reply, got, unheard, raced>>

WorkerCrash(w) ==
    /\ "crash" \in Faults
    /\ wpc[w] # "idle"
    /\ Leave(w) /\ Used(w)
    /\ forgotten' = (forgotten \/ job.owner # w)
    /\ unheard' = (unheard \/ wpc[w] \in {"stamp", "record"})
    /\ UNCHANGED <<now, inbound, thread, asked, reply, job, got, raced>>

Alive == \E w \in Workers : job.owner = w /\ wpc[w] # "idle"

(* The lock expires under a dead worker or a stalled one; the second time  *)
(* the job is failed.                                                      *)
LockExpires ==
    /\ job.state = "active"
    /\ "stall" \in Faults \/ ~Alive
    /\ job' = Stalled(job)
    /\ forgotten' = (forgotten \/ job'.state = "failed")
    /\ UNCHANGED <<now, inbound, thread, asking, reply, wpc, wpart, got, unheard, raced>>

-----------------------------------------------------------------------------
Customer(m) == CustomerWrites(m) \/ Webhook(m) \/ Ingest(m) \/ IngestFails(m) \/ Poll(m)

Agent(a) == AskRead(a) \/ AskReply(a) \/ MarkRead(a) \/ Reply(a) \/ RequestLost(a)

Process(w) ==
    \/ Take(w) \/ Load(w) \/ MarkSending(w) \/ NotReady(w) \/ SendPart(w) \/ PartRefused(w)
    \/ AnswerLost(w) \/ Stamp(w) \/ Record(w) \/ RecordFails(w) \/ HandleFailure(w)
    \/ Finish(w) \/ Throw(w) \/ DbError(w) \/ WorkerCrash(w)

Next ==
    \/ \E m \in Messages : Customer(m)
    \/ \E a \in Agents : Agent(a)
    \/ \E w \in Workers : Process(w)
    \/ Archive \/ Enqueue \/ EnqueueLost \/ LockExpires

Spec == Init /\ [][Next]_vars

-----------------------------------------------------------------------------
(* Properties *)

(* The webhook is answered before anything is stored, and its job's id     *)
(* keeps redeliveries out.  What was answered 200 is nevertheless stored,  *)
(* or its job is still to run or kept as failed.                           *)
AcceptedKept ==
    \A m \in accepted : m \in stored \/ hook[m] \in {"waiting", "failed"}

(* lastMessageAt has four writers, and unread is told from it alone.       *)
(* While it stands where it was latest (a late or repeated message, and a  *)
(* reply stored or sent while one came in, set it back), whatever was sent *)
(* after an agent's last reading shows the conversation to that agent, as  *)
(* unread; unless the conversation was archived with the message in it.    *)
UnreadShown ==
    last = peak =>
        \A m \in stored \ shelved, a \in Agents :
            sentAt[m] > readAt[a] => ~IsRead(a) /\ ~archived

(* A reply shown as sent reached the customer whole, whichever of several  *)
(* runs recorded it.  One shown as failed did not, so that writing it      *)
(* again repeats at most a part; unless an outcome was lost or two runs    *)
(* overlapped.                                                             *)
OutcomeTrue ==
    /\ status = "SENT" => got = Parts
    /\ status = "FAILED" /\ ~unheard /\ ~raced => got # Parts

(* A reply shown as on its way is on its way, unless a run ended where     *)
(* nothing records it.                                                     *)
ReplyAttended ==
    status \in {"QUEUED", "SENDING"} /\ ~forgotten =>
        \/ adding \/ job.state \in {"waiting", "active"}
        \/ \E w \in Workers : wpc[w] # "idle"
==============================================================================
