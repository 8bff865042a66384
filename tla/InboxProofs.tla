---------------------------- MODULE InboxProofs ----------------------------
(***************************************************************************)
(* Proofs about Inbox for every number of workers, agents and messages,    *)
(* every length of the reply and every combination of faults.              *)
(***************************************************************************)
EXTENDS Inbox, BullQueueProofs

-----------------------------------------------------------------------------
(* The invariants. *)

(* The reply's job is owned while it is active, and nobody is at a part    *)
(* the reply has not got.                                                  *)
Runs == {"load", "mark", "send", "stamp", "record", "fail"}

RunsSound ==
    /\ Fit(job)
    /\ job.owner # NoWorker <=> job.state = "active"
    /\ \A w \in Workers :
          /\ wpc[w] \in {"idle", "load", "mark"} => wpart[w] = 0
          /\ wpc[w] = "send" => wpart[w] < NParts
          /\ wpc[w] \in {"stamp", "record"} => wpart[w] = NParts

TypeInv == TypeOK /\ RunsSound

(* What is here was sent; the conversation has stood at least at each      *)
(* message stored, and is archived only with all of them in it.            *)
ThreadInv ==
    /\ \A m \in Messages : hook[m] # "none" \/ m \in stored => sentAt[m] # 0
    /\ \A m \in stored : sentAt[m] <= peak
    /\ archived => stored \subseteq shelved
    /\ AcceptedKept

(* One request writes the reply.  Before it is queued nobody runs; what a  *)
(* run has got through has arrived.                                        *)
NotBegun ==
    /\ job.state = "absent"
    /\ \A w \in Workers : wpc[w] = "idle"

Arrived ==
    /\ \A a, b \in Agents : asked[a] = "reply" =>
          status = "ABSENT" /\ (asked[b] = "reply" => a = b)
    /\ status = "ABSENT" => ~adding /\ NotBegun /\ got = {}
    /\ adding => NotBegun
    /\ \A w \in Workers, p \in Parts :
          p <= wpart[w] /\ wpc[w] \in {"send", "stamp", "record"} => p \in got
    /\ status = "SENT" => got = Parts

(* While no runs have overlapped, one run at a time has found the reply    *)
(* unsent, and the last part, if it has arrived and no outcome was lost,   *)
(* is in its hands or recorded.                                            *)
OneRun ==
    ~raced =>
        /\ \A v, w \in Workers : wpc[v] # "idle" /\ wpc[w] # "idle" => v = w
        /\ \A w \in Workers :
              /\ wpc[w] = "mark" => status # "SENT"
              /\ wpc[w] \in {"send", "stamp", "record", "fail"} => status = "SENDING"
        /\ ~unheard /\ NParts \in got =>
              status = "SENT" \/ \E w \in Workers : wpc[w] \in {"stamp", "record"}

(* A reply on its way is about to be queued, queued, in the hands of a run *)
(* that has not ended it, or of one that died and holds the lock.          *)
Attended ==
    status \in {"QUEUED", "SENDING"} /\ ~forgotten =>
        \/ adding \/ job.state = "waiting"
        \/ job.state = "active" /\ wpc[job.owner] = "idle"
        \/ \E w \in Workers : wpc[w] \in Runs

ReplyInv == TypeInv /\ Arrived /\ OneRun /\ Attended

-----------------------------------------------------------------------------
(* Where an operation of the queue leaves the job.                         *)
LEMMA JobMoves ==
    ASSUME NEW j, Fit(j), j.owner # NoWorker <=> j.state = "active", NEW w \in Workers
    PROVE  /\ Taken(j, w).state = "active" /\ Taken(j, w).owner = w
           /\ j.state = "active" /\ j.owner = w =>
                 /\ Completed(j, w).state = "absent" /\ Completed(j, w).owner = NoWorker
                 /\ Thrown(j, w).state \in {"waiting", "failed"}
                 /\ Thrown(j, w).owner = NoWorker
           /\ ~(j.state = "active" /\ j.owner = w) => Completed(j, w) = j /\ Thrown(j, w) = j
           /\ Stalled(j).state \in {"waiting", "failed"} /\ Stalled(j).owner = NoWorker
           /\ Added(j, NoSlot).owner = j.owner
           /\ j.state = "absent" => Added(j, NoSlot).state = "waiting"
           /\ j.state # "absent" => Added(j, NoSlot) = j
  <1> j \in Job
    BY DEF Fit
  <1> QED BY DEF Taken, Completed, Thrown, Stalled, Added, NoJob, Job

LEMMA TypeStart == Init => TypeInv
  <1> SUFFICES ASSUME Init PROVE TypeInv
    OBVIOUS
  <1>1. Fit(job) /\ job.owner = NoWorker /\ job.state = "absent"
    BY NoJobFit DEF Init, NoJob
  <1>2. RunsSound
    BY <1>1 DEF Init, RunsSound
  <1>3. 0 \in 0 .. MaxNow /\ 0 \in 0 .. NParts
    BY InboxAssumption DEF InboxAssumption
  <1>4. TypeOK
    BY <1>1, <1>3 DEF Init, TypeOK, Fit, Points
  <1> QED BY <1>2, <1>4 DEF TypeInv

(* Instants keep their bounds.                                             *)
LEMMA Instants ==
    ASSUME TypeInv, NEW x \in Agents \cup Workers
    PROVE  /\ stamp[x] \in 0 .. MaxNow
           /\ ReadClock(x) => /\ now' \in 0 .. MaxNow
                              /\ stamp' \in [Agents \cup Workers -> 0 .. MaxNow]
           /\ Used(x) => stamp' \in [Agents \cup Workers -> 0 .. MaxNow]
           /\ \A t \in 0 .. MaxNow : MoveTo(t) => last' \in 0 .. MaxNow /\ peak' \in 0 .. MaxNow
  <1> USE InboxAssumption DEF InboxAssumption, TypeInv, TypeOK
  <1>1. stamp[x] \in 0 .. MaxNow
    OBVIOUS
  <1>2. ASSUME ReadClock(x)
        PROVE  now' \in 0 .. MaxNow /\ stamp' \in [Agents \cup Workers -> 0 .. MaxNow]
    <2>1. now' \in 0 .. MaxNow
      BY <1>2 DEF ReadClock, Clock
    <2> QED BY <1>2, <2>1 DEF ReadClock
  <1>3. Used(x) => stamp' \in [Agents \cup Workers -> 0 .. MaxNow]
    BY DEF Used
  <1>4. \A t \in 0 .. MaxNow : MoveTo(t) => last' \in 0 .. MaxNow /\ peak' \in 0 .. MaxNow
    BY DEF MoveTo
  <1> QED BY <1>1, <1>2, <1>3, <1>4

LEMMA StoreTyped ==
    ASSUME TypeInv, NEW m \in Messages, Store(m)
    PROVE  /\ stored' \subseteq Messages /\ shelved' \subseteq Messages
           /\ last' \in 0 .. MaxNow /\ peak' \in 0 .. MaxNow /\ archived' \in BOOLEAN
           /\ UNCHANGED <<now, readAt, asked, stamp>>
BY DEF Store, MoveTo, asking, TypeInv, TypeOK

LEMMA TypeStep == TypeInv /\ [Next]_vars => TypeInv'
  <1> SUFFICES ASSUME TypeInv, [Next]_vars PROVE TypeInv'
    OBVIOUS
  <1> USE InboxAssumption
      DEF InboxAssumption, TypeInv, TypeOK, RunsSound, Clock, Goto, Leave, GiveUp, Points,
          inbound, thread, asking, reply, runs, history
  <1> job \in Job
    OBVIOUS
  <1>1. ASSUME NEW m \in Messages, Customer(m) PROVE TypeInv'
    <2>1. CASE CustomerWrites(m)
      BY <2>1 DEF CustomerWrites
    <2>2. CASE Webhook(m)
      BY <2>2 DEF Webhook
    <2>3. CASE Ingest(m)
      BY <2>3, StoreTyped DEF Ingest
    <2>4. CASE IngestFails(m)
      BY <2>4 DEF IngestFails
    <2>5. CASE Poll(m)
      BY <2>5, StoreTyped DEF Poll
    <2> QED BY <1>1, <2>1, <2>2, <2>3, <2>4, <2>5 DEF Customer
  <1>2. ASSUME NEW a \in Agents, Agent(a) PROVE TypeInv'
    <2>0. a \in Agents \cup Workers /\ RunsSound' /\ UNCHANGED <<inbound, runs, history>>
      BY <1>2 DEF Agent, AskRead, AskReply, Ask, MarkRead, Reply, RequestLost
    <2>1. CASE AskRead(a) \/ AskReply(a)
      BY <2>0, <2>1, Instants DEF AskRead, AskReply, Ask
    <2>2. CASE MarkRead(a)
      BY <2>0, <2>2, Instants DEF MarkRead, Answered
    <2>3. CASE Reply(a)
      <3>1. /\ last' \in 0 .. MaxNow /\ peak' \in 0 .. MaxNow
            /\ readAt' \in [Agents -> 0 .. MaxNow]
        BY <2>0, <2>3, Instants DEF Reply
      <3> QED BY <2>0, <2>3, <3>1, Instants DEF Reply, Answered
    <2>4. CASE RequestLost(a)
      BY <2>0, <2>4, Instants DEF RequestLost, Answered
    <2> QED BY <1>2, <2>1, <2>2, <2>3, <2>4 DEF Agent
  <1>3. ASSUME NEW w \in Workers, Take(w) PROVE TypeInv'
    BY <1>3, TakenFit, JobMoves, QueueAssumption DEF Take, Fit
  <1>4. ASSUME NEW w \in Workers, Load(w) PROVE TypeInv'
    BY <1>4 DEF Load
  <1>5. ASSUME NEW w \in Workers, MarkSending(w) PROVE TypeInv'
    BY <1>5 DEF MarkSending
  <1>6. ASSUME NEW w \in Workers, NotReady(w) PROVE TypeInv'
    BY <1>6 DEF NotReady
  <1>7. ASSUME NEW w \in Workers, SendPart(w) PROVE TypeInv'
    <2>1. wpc[w] = "send" /\ wpart[w] < NParts /\ wpart[w] \in 0 .. NParts
      BY <1>7 DEF SendPart
    <2>2. wpart[w] + 1 \in Parts
      BY <2>1 DEF Parts
    <2>3. got' \subseteq Parts
      BY <1>7, <2>2 DEF SendPart
    <2>4. /\ wpart' = [wpart EXCEPT ![w] = wpart[w] + 1]
          /\ wpc' = [wpc EXCEPT ![w] = IF IsLast(wpart[w] + 1) THEN "stamp" ELSE "send"]
      BY <1>7 DEF SendPart
    <2>5. wpart' \in [Workers -> 0 .. NParts] /\ wpc' \in [Workers -> Points] /\ RunsSound'
      BY <1>7, <2>1, <2>2, <2>4 DEF SendPart, IsLast, Parts
    <2> QED BY <1>7, <2>3, <2>5 DEF SendPart
  <1>8. ASSUME NEW w \in Workers, PartRefused(w) \/ AnswerLost(w) PROVE TypeInv'
    <2>1. RunsSound'
      BY <1>8 DEF PartRefused, AnswerLost
    <2>2. got' \subseteq Parts
      <3>1. wpc[w] = "send" /\ wpart[w] < NParts /\ wpart[w] \in 0 .. NParts
        BY <1>8 DEF PartRefused, AnswerLost
      <3>2. wpart[w] + 1 \in Parts
        BY <3>1 DEF Parts
      <3> QED BY <1>8, <3>2 DEF PartRefused, AnswerLost
    <2>3. wpart' \in [Workers -> 0 .. NParts]
      BY <1>8 DEF PartRefused, AnswerLost
    <2> QED BY <1>8, <2>1, <2>2, <2>3 DEF PartRefused, AnswerLost
  <1>9. ASSUME NEW w \in Workers, Stamp(w) \/ Record(w) PROVE TypeInv'
    <2>1. w \in Agents \cup Workers
      OBVIOUS
    <2>2. RunsSound'
      BY <1>9 DEF Stamp, Record
    <2>3. CASE Stamp(w)
      BY <2>1, <2>2, <2>3, Instants DEF Stamp
    <2>4. CASE Record(w)
      <3>1. /\ last' \in 0 .. MaxNow /\ peak' \in 0 .. MaxNow
            /\ readAt' \in [Agents -> 0 .. MaxNow]
        BY <2>1, <2>4, Instants DEF Record
      <3> QED BY <2>1, <2>2, <2>4, <3>1, Instants DEF Record
    <2> QED BY <1>9, <2>3, <2>4
  <1>10. ASSUME NEW w \in Workers, RecordFails(w) \/ HandleFailure(w) \/ DbError(w)
         PROVE  TypeInv'
    <2>1. w \in Agents \cup Workers
      OBVIOUS
    <2>2. RunsSound'
      BY <1>10 DEF RecordFails, HandleFailure, DbError
    <2>3. wpart' \in [Workers -> 0 .. NParts]
      BY <1>10 DEF RecordFails, HandleFailure, DbError
    <2> QED BY <1>10, <2>1, <2>2, <2>3, Instants DEF RecordFails, HandleFailure, DbError
  <1>11. ASSUME NEW w \in Workers, Finish(w) PROVE TypeInv'
    BY <1>11, CompletedFit, JobMoves DEF Finish, Fit
  <1>12. ASSUME NEW w \in Workers, Throw(w) PROVE TypeInv'
    BY <1>12, ThrownFit, JobMoves DEF Throw, Fit
  <1>13. ASSUME NEW w \in Workers, WorkerCrash(w) PROVE TypeInv'
    <2>1. stamp' \in [Agents \cup Workers -> 0 .. MaxNow]
      BY <1>13, Instants DEF WorkerCrash
    <2>2. RunsSound' /\ wpc' \in [Workers -> Points] /\ wpart' \in [Workers -> 0 .. NParts]
      BY <1>13 DEF WorkerCrash
    <2> QED BY <1>13, <2>1, <2>2 DEF WorkerCrash
  <1>14. ASSUME Archive PROVE TypeInv'
    BY <1>14 DEF Archive
  <1>15. ASSUME Enqueue PROVE TypeInv'
    <2>1. Fit(job') /\ (job'.owner # NoWorker <=> job'.state = "active")
      BY <1>15, AddedFit, QueueAssumption DEF Enqueue, Added, Fit, Job
    <2> QED BY <1>15, <2>1 DEF Enqueue, Fit
  <1>16. ASSUME EnqueueLost PROVE TypeInv'
    BY <1>16 DEF EnqueueLost
  <1>17. ASSUME LockExpires PROVE TypeInv'
    <2>1. Fit(job') /\ job'.owner = NoWorker /\ job'.state # "active"
      BY <1>17, StalledFit DEF LockExpires, Stalled, Fit, Job
    <2> QED BY <1>17, <2>1 DEF LockExpires, Fit
  <1>18. CASE UNCHANGED vars
    BY <1>18 DEF vars
  <1> QED BY <1>1, <1>2, <1>3, <1>4, <1>5, <1>6, <1>7, <1>8, <1>9, <1>10, <1>11, <1>12,
             <1>13, <1>14, <1>15, <1>16, <1>17, <1>18 DEF Next, Process

(* Every variable keeps its type, and the job its counters.                *)
THEOREM TypeCorrect == Spec => []TypeOK
  <1>1. TypeInv => TypeOK
    BY DEF TypeInv
  <1> QED BY <1>1, TypeStart, TypeStep, PTL DEF Spec

-----------------------------------------------------------------------------
(* The conversation. *)

LEMMA ThreadStart == Init => ThreadInv
BY DEF Init, ThreadInv, AcceptedKept

(* Only the customer, the agents and a recorded success touch the          *)
(* conversation and what was sent, stored and accepted.                    *)
LEMMA ThreadStays ==
    ThreadInv /\ UNCHANGED <<inbound, peak, archived, shelved>> => ThreadInv'
BY DEF ThreadInv, AcceptedKept, inbound

(* The latest instant only grows.                                          *)
LEMMA PeakGrows ==
    ASSUME TypeInv, NEW t \in 0 .. MaxNow, MoveTo(t)
    PROVE  t <= peak' /\ peak <= peak' /\ peak \in Nat /\ peak' \in Nat
BY InboxAssumption DEF InboxAssumption, MoveTo, TypeInv, TypeOK

(* Storing a message moves the conversation to it.                         *)
LEMMA StoreKeeps ==
    ASSUME TypeInv, ThreadInv, NEW m \in Messages, sentAt[m] # 0, Store(m),
           UNCHANGED <<sentAt, accepted>>,
           hook' = hook \/ hook' = [hook EXCEPT ![m] = "none"]
    PROVE  ThreadInv'
  <1> USE DEF TypeInv, TypeOK, ThreadInv, AcceptedKept, Store
  <1>1. \A n \in Messages : sentAt[n] \in Nat /\ sentAt[n] \in 0 .. MaxNow
    BY InboxAssumption DEF InboxAssumption
  <1>2. sentAt[m] <= peak' /\ peak <= peak' /\ peak \in Nat /\ peak' \in Nat
    BY <1>1, PeakGrows
  <1>3. \A n \in Messages : hook'[n] # "none" \/ n \in stored' => sentAt'[n] # 0
    OBVIOUS
  <1>4. \A n \in stored' : sentAt'[n] <= peak'
    BY <1>1, <1>2
  <1>5. AcceptedKept'
    OBVIOUS
  <1> QED BY <1>3, <1>4, <1>5

LEMMA ThreadStep == TypeInv /\ ThreadInv /\ [Next]_vars => ThreadInv'
  <1> SUFFICES ASSUME TypeInv, ThreadInv, [Next]_vars PROVE ThreadInv'
    OBVIOUS
  <1>0. /\ sentAt \in [Messages -> Nat] /\ peak \in Nat
        /\ hook \in [Messages -> {"none", "waiting", "failed"}]
        /\ \A x \in Agents \cup Workers : stamp[x] \in 0 .. MaxNow
    BY InboxAssumption DEF InboxAssumption, TypeInv, TypeOK
  <1>1. ASSUME NEW m \in Messages, Customer(m) PROVE ThreadInv'
    <2>1. CASE CustomerWrites(m)
      BY <2>1, <1>0, InboxAssumption DEF CustomerWrites, Clock, thread, ThreadInv, AcceptedKept,
         InboxAssumption, TypeInv, TypeOK
    <2>2. CASE Webhook(m)
      BY <2>2, <1>0 DEF Webhook, thread, ThreadInv, AcceptedKept
    <2>3. CASE Ingest(m)
      BY <2>3, StoreKeeps DEF Ingest, ThreadInv
    <2>4. CASE IngestFails(m)
      BY <2>4, <1>0 DEF IngestFails, thread, ThreadInv, AcceptedKept
    <2>5. CASE Poll(m)
      BY <2>5, StoreKeeps DEF Poll
    <2> QED BY <1>1, <2>1, <2>2, <2>3, <2>4, <2>5 DEF Customer
  <1>2. ASSUME NEW t \in 0 .. MaxNow, MoveTo(t), UNCHANGED <<inbound, archived, shelved>>
        PROVE  ThreadInv'
    <2>1. peak <= peak' /\ peak' \in Nat
      BY <1>2, PeakGrows
    <2>2. \A m \in stored : sentAt[m] \in Nat /\ sentAt[m] <= peak
      BY <1>0 DEF ThreadInv, TypeInv, TypeOK
    <2>3. \A m \in stored : sentAt[m] <= peak'
      BY <1>0, <2>1, <2>2
    <2> QED BY <1>2, <2>3 DEF inbound, ThreadInv, AcceptedKept
  <1>3. ASSUME NEW a \in Agents, Agent(a) PROVE ThreadInv'
    <2>1. CASE Reply(a)
      BY <1>0, <1>2, <2>1 DEF Reply
    <2>2. CASE ~Reply(a)
      <3>1. UNCHANGED <<inbound, peak, archived, shelved>>
        BY <1>3, <2>2 DEF Agent, AskRead, AskReply, Ask, MarkRead, RequestLost, thread
      <3> QED BY <3>1, ThreadStays
    <2> QED BY <2>1, <2>2
  <1>4. ASSUME NEW w \in Workers, Process(w) PROVE ThreadInv'
    <2>1. CASE Record(w)
      BY <1>0, <1>2, <2>1 DEF Record
    <2>2. CASE ~Record(w)
      <3>1. UNCHANGED <<inbound, thread>>
        BY <1>4, <2>2 DEF Process, Take, Load, MarkSending, NotReady, SendPart, PartRefused,
           AnswerLost, Stamp, RecordFails, HandleFailure, Finish, Throw, DbError, WorkerCrash
      <3> QED BY <3>1, ThreadStays DEF thread
    <2> QED BY <2>1, <2>2
  <1>5. ASSUME Archive PROVE ThreadInv'
    BY <1>5, <1>0 DEF Archive, inbound, ThreadInv, AcceptedKept
  <1>6. ASSUME Enqueue \/ EnqueueLost \/ LockExpires PROVE ThreadInv'
    BY <1>6, ThreadStays DEF Enqueue, EnqueueLost, LockExpires, thread
  <1>7. CASE UNCHANGED vars
    BY <1>7, ThreadStays DEF vars, thread
  <1> QED BY <1>1, <1>3, <1>4, <1>5, <1>6, <1>7 DEF Next

LEMMA ThreadHolds == Spec => [](TypeInv /\ ThreadInv)
BY TypeStart, TypeStep, ThreadStart, ThreadStep, PTL DEF Spec

(* However often, late or in whatever order the webhooks come, what one of *)
(* them was answered 200 for is stored or its job is kept.                 *)
THEOREM AcceptedIsKept == Spec => []AcceptedKept
  <1>1. ThreadInv => AcceptedKept
    BY DEF ThreadInv
  <1> QED BY <1>1, ThreadHolds, PTL

(* While lastMessageAt is the latest it has been, no message sent after an *)
(* agent's last reading is shown to that agent as read, or lies in an      *)
(* archive that was closed before it came.                                 *)
THEOREM UnreadIsShown == Spec => []UnreadShown
  <1>1. TypeInv /\ ThreadInv => UnreadShown
    <2> SUFFICES ASSUME TypeInv, ThreadInv, last = peak, NEW m \in stored \ shelved,
                        NEW a \in Agents, sentAt[m] > readAt[a]
                 PROVE  ~IsRead(a) /\ ~archived
      BY DEF UnreadShown
    <2>1. sentAt[m] \in Nat /\ readAt[a] \in Nat /\ last \in Nat
      BY InboxAssumption DEF InboxAssumption, TypeInv, TypeOK
    <2>2. ~archived /\ sentAt[m] <= last
      BY <2>1 DEF ThreadInv
    <2> QED BY <2>1, <2>2 DEF IsRead
  <1> QED BY <1>1, ThreadHolds, PTL

-----------------------------------------------------------------------------
(* The reply. *)

LEMMA ReplyStart == Init => Arrived /\ OneRun /\ Attended
  <1> SUFFICES ASSUME Init PROVE Arrived /\ OneRun /\ Attended
    OBVIOUS
  <1>1. job.state = "absent"
    BY DEF Init, NoJob
  <1>2. NParts \in Parts /\ got = {} /\ \A a \in Agents : asked[a] = "none"
    BY InboxAssumption DEF InboxAssumption, Init, Parts
  <1>3. Arrived
    BY <1>1, <1>2 DEF Init, Arrived, NotBegun
  <1>4. OneRun
    BY <1>2 DEF Init, OneRun
  <1>5. Attended
    BY DEF Init, Attended
  <1> QED BY <1>3, <1>4, <1>5

(* What the customer, the readers and the archive do leaves the reply and  *)
(* its job alone.                                                          *)
LEMMA ReplyStays == OneRun /\ Attended /\ UNCHANGED <<reply, runs, history>> => (OneRun /\ Attended)'
BY DEF OneRun, Attended, reply, runs, history

LEMMA OthersLeaveReply ==
    /\ \A m \in Messages : Customer(m) => UNCHANGED <<asked, reply, runs, history>>
    /\ \A a \in Agents : Agent(a) /\ ~Reply(a) => UNCHANGED <<reply, runs, history>>
    /\ Archive => UNCHANGED <<asked, reply, runs, history>>
  <1>1. ASSUME NEW m \in Messages, Customer(m) PROVE UNCHANGED <<asked, reply, runs, history>>
    BY <1>1 DEF Customer, CustomerWrites, Webhook, Ingest, IngestFails, Poll, Store, asking
  <1>2. ASSUME NEW a \in Agents, Agent(a), ~Reply(a) PROVE UNCHANGED <<reply, runs, history>>
    BY <1>2 DEF Agent, AskRead, AskReply, Ask, MarkRead, RequestLost
  <1>3. Archive => UNCHANGED <<asked, reply, runs, history>>
    BY DEF Archive, asking
  <1> QED BY <1>1, <1>2, <1>3

(* Nobody runs before there is a job.                                      *)
LEMMA RunsBegin ==
    ASSUME TypeInv, Arrived, NEW w \in Workers, Process(w)
    PROVE  status # "ABSENT" /\ ~adding
  <1>1. wpc[w] # "idle" \/ job.state = "waiting"
    BY DEF Process, Take, Load, MarkSending, NotReady, SendPart, PartRefused, AnswerLost, Stamp,
       Record, RecordFails, HandleFailure, Finish, Throw, DbError, WorkerCrash
  <1> QED BY <1>1 DEF Arrived, NotBegun

LEMMA ArrivedStep == TypeInv /\ Arrived /\ [Next]_vars => Arrived'
  <1> SUFFICES ASSUME TypeInv, Arrived, [Next]_vars PROVE Arrived'
    OBVIOUS
  <1> USE DEF Points
  <1>0. /\ wpc \in [Workers -> Points]
        /\ wpart \in [Workers -> Nat] /\ got \subseteq Parts
        /\ asked \in [Agents -> {"none", "read", "reply"}]
        /\ \A w \in Workers :
              /\ wpc[w] \in {"idle", "load", "mark"} => wpart[w] = 0
              /\ wpc[w] = "send" => wpart[w] < NParts
              /\ wpc[w] \in {"stamp", "record"} => wpart[w] = NParts
    BY InboxAssumption DEF InboxAssumption, TypeInv, TypeOK, RunsSound
  <1>1. got' \subseteq Parts
    BY TypeStep DEF TypeInv, TypeOK
  <1>2. ASSUME NEW w \in Workers, Process(w) PROVE Arrived'
    <2> DEFINE Has(v, p) == p <= wpart[v] /\ wpc[v] \in {"send", "stamp", "record"}
    <2>1. /\ status # "ABSENT" /\ ~adding /\ adding' = adding
          /\ asked' = asked /\ \A a \in Agents : asked[a] # "reply"
      <3>1. status # "ABSENT" /\ ~adding
        BY <1>2, RunsBegin
      <3>2. adding' = adding /\ asked' = asked
        BY <1>2 DEF Process, Take, Load, MarkSending, NotReady, SendPart, PartRefused,
           AnswerLost, Stamp, Record, RecordFails, HandleFailure, Finish, Throw, DbError,
           WorkerCrash, reply, asking
      <3> QED BY <3>1, <3>2 DEF Arrived
    <2>2. got \subseteq got'
      BY <1>2 DEF Process, Take, Load, MarkSending, NotReady, SendPart, PartRefused,
         AnswerLost, Stamp, Record, RecordFails, HandleFailure, Finish, Throw, DbError,
         WorkerCrash, history
    <2>3. CASE SendPart(w)
      <3>1. /\ wpart[w] + 1 \in Parts /\ wpc[w] = "send" /\ wpart[w] + 1 \in got'
            /\ wpart' = [wpart EXCEPT ![w] = wpart[w] + 1]
            /\ \A v \in Workers \ {w} : wpc'[v] = wpc[v]
        BY <2>3, <1>0, InboxAssumption DEF SendPart, InboxAssumption, Parts
      <3>2. ASSUME NEW v \in Workers, NEW p \in Parts, Has(v, p)' PROVE p \in got'
        <4>1. CASE v # w
          BY <2>2, <3>1, <3>2, <4>1, <1>0 DEF Arrived
        <4>2. CASE v = w /\ p = wpart[w] + 1
          BY <3>1, <4>2
        <4>3. CASE v = w /\ p # wpart[w] + 1
          <5>1. p <= wpart[w]
            BY <3>1, <3>2, <4>3, <1>0 DEF Parts
          <5> QED BY <2>2, <3>1, <5>1, <1>0 DEF Arrived
        <4> QED BY <4>1, <4>2, <4>3
      <3>3. status' = status
        BY <2>3 DEF SendPart, reply
      <3> QED BY <1>1, <2>1, <2>2, <3>2, <3>3 DEF Arrived
    <2>4. CASE Record(w)
      <3>1. Parts \subseteq got
        BY <2>4, <1>0 DEF Record, Arrived, Parts
      <3>2. got = Parts /\ got' = got /\ wpart' = wpart /\ status' = "SENT"
        BY <2>4, <1>0, <3>1 DEF Record, Goto, history
      <3>3. \A v \in Workers, p \in Parts : p \in got'
        BY <3>2
      <3> QED BY <2>1, <3>2, <3>3 DEF Arrived
    <2>5. CASE ~SendPart(w) /\ ~Record(w)
      <3>1. ASSUME NEW v \in Workers, NEW p \in Parts, Has(v, p)' PROVE Has(v, p)
        <4>1. CASE MarkSending(w)
          BY <3>1, <4>1, <1>0 DEF MarkSending, Goto, Parts
        <4>2. CASE ~MarkSending(w)
          BY <1>2, <2>5, <3>1, <4>2, <1>0 DEF Process, Take, Load, NotReady, PartRefused,
             AnswerLost, Stamp, RecordFails, HandleFailure, Finish, Throw, DbError, WorkerCrash,
             Goto, GiveUp, Leave, runs
        <4> QED BY <4>1, <4>2
      <3>2. status' \in {status, "SENDING", "FAILED"}
        BY <1>2, <2>5 DEF Process, Take, Load, MarkSending, NotReady, PartRefused, AnswerLost,
           Stamp, RecordFails, HandleFailure, Finish, Throw, DbError, WorkerCrash, reply
      <3>3. status' # "ABSENT" /\ (status' = "SENT" => status = "SENT")
        BY <2>1, <3>2
      <3>4. \A v \in Workers, p \in Parts : Has(v, p)' => p \in got'
        <4>1. ASSUME NEW v \in Workers, NEW p \in Parts, Has(v, p)' PROVE p \in got'
          BY <2>2, <3>1, <4>1 DEF Arrived
        <4> QED BY <4>1
      <3> QED BY <1>1, <2>1, <2>2, <3>3, <3>4 DEF Arrived
    <2> QED BY <2>3, <2>4, <2>5
  <1>3. ASSUME NEW a \in Agents, Agent(a) PROVE Arrived'
    <2>1. CASE AskReply(a)
      BY <1>0, <2>1 DEF AskReply, Ask, Arrived, NotBegun, reply, runs, history
    <2>2. CASE Reply(a)
      <3>1. /\ status = "ABSENT" /\ status' = "QUEUED" /\ asked' = [asked EXCEPT ![a] = "none"]
            /\ \A b \in Agents : asked[b] = "reply" => b = a
            /\ UNCHANGED <<runs, history>>
        BY <2>2 DEF Reply, Answered, Arrived
      <3>2. \A b \in Agents : asked'[b] # "reply"
        BY <1>0, <3>1
      <3> QED BY <3>1, <3>2 DEF Arrived, NotBegun, runs, history
    <2>3. CASE ~AskReply(a) /\ ~Reply(a)
      <3>1. /\ UNCHANGED <<reply, runs, history>>
            /\ \A b \in Agents : asked'[b] = "reply" => asked[b] = "reply"
        BY <1>0, <1>3, <2>3 DEF Agent, AskRead, Ask, MarkRead, RequestLost, Answered
      <3> QED BY <3>1 DEF Arrived, NotBegun, reply, runs, history
    <2> QED BY <2>1, <2>2, <2>3
  <1>4. ASSUME Enqueue PROVE Arrived'
    BY <1>4 DEF Enqueue, Arrived, NotBegun, history, asking
  <1>5. ASSUME EnqueueLost PROVE Arrived'
    BY <1>5 DEF EnqueueLost, Arrived, NotBegun, runs, asking
  <1>6. ASSUME LockExpires PROVE Arrived'
    BY <1>6 DEF LockExpires, Arrived, NotBegun, reply, asking
  <1>7. ASSUME UNCHANGED <<asked, reply, runs, history>> PROVE Arrived'
    BY <1>7 DEF Arrived, NotBegun, reply, runs, history
  <1> QED BY <1>2, <1>3, <1>4, <1>5, <1>6, <1>7, OthersLeaveReply DEF Next, vars, asking

(* The run that is not alone sets raced; the one that is decides alone.    *)
LEMMA OneRunStep == TypeInv /\ Arrived /\ OneRun /\ [Next]_vars => OneRun'
  <1> SUFFICES ASSUME TypeInv, Arrived, OneRun, [Next]_vars, ~raced' PROVE OneRun'
    BY DEF OneRun
  <1> USE DEF Points
  <1>0. /\ wpc \in [Workers -> Points]
        /\ wpart \in [Workers -> 0 .. NParts] /\ got \subseteq Parts
        /\ NParts \in Parts /\ NParts > 0
    BY InboxAssumption DEF InboxAssumption, TypeInv, TypeOK, RunsSound, Parts
  <1>1. ~raced
    BY DEF Next, Customer, CustomerWrites, Webhook, Ingest, IngestFails, Poll, Agent, AskRead,
       AskReply, Ask, MarkRead, Reply, RequestLost, Process, Take, Load, MarkSending, NotReady,
       SendPart, PartRefused, AnswerLost, Stamp, Record, RecordFails, HandleFailure, Finish, Throw, DbError, WorkerCrash, Archive,
       Enqueue, EnqueueLost, LockExpires, vars, history
  <1>2. ASSUME NEW w \in Workers, Process(w) PROVE OneRun'
    <2>1. CASE Take(w)
      <3>1. /\ \A v \in Workers : wpc[v] = "idle"
            /\ wpc' = [wpc EXCEPT ![w] = "load"] /\ UNCHANGED <<status, got, unheard>>
        BY <2>1 DEF Take, reply
      <3> QED BY <1>0, <1>1, <3>1 DEF OneRun
    <2>2. CASE ~Take(w)
      <3>1. wpc[w] # "idle"
        BY <1>2, <2>2 DEF Process, Load, MarkSending, NotReady, SendPart, PartRefused,
           AnswerLost, Stamp, Record, RecordFails, HandleFailure, Finish, Throw, DbError, WorkerCrash
      <3>2. \A v \in Workers \ {w} : wpc[v] = "idle"
        BY <1>1, <3>1 DEF OneRun
      <3>3. PICK point \in Points :
               wpc' = [wpc EXCEPT ![w] = point]
        BY <1>2, <2>2 DEF Process, Load, MarkSending, NotReady, SendPart, PartRefused,
           AnswerLost, Stamp, Record, RecordFails, HandleFailure, Finish, Throw, DbError, WorkerCrash,
           Goto, GiveUp, Leave
      <3>4. /\ wpc'[w] = point
            /\ \A v \in Workers \ {w} : wpc'[v] = "idle"
        BY <1>0, <3>2, <3>3
      <3>5. /\ point = "mark" => status' # "SENT"
            /\ point \in {"send", "stamp", "record", "fail"} => status' = "SENDING"
        BY <1>0, <1>1, <1>2, <2>2, <3>3, <3>4 DEF OneRun, Process, Load, MarkSending, NotReady,
           SendPart, PartRefused, AnswerLost, Stamp, Record, RecordFails, HandleFailure, Finish, Throw,
           DbError, WorkerCrash, Goto, GiveUp, Leave, reply
      <3>6. ASSUME ~unheard', NParts \in got', status' # "SENT" PROVE point \in {"stamp", "record"}
        <4>1. ~unheard
          BY <1>2, <2>2, <3>6 DEF Process, Load, MarkSending, NotReady, SendPart, PartRefused,
             AnswerLost, Stamp, Record, RecordFails, HandleFailure, Finish, Throw, DbError,
             WorkerCrash, history
        <4>2. CASE SendPart(w)
          <5>1. CASE IsLast(wpart[w] + 1)
            BY <3>4, <4>2, <5>1, <1>0 DEF SendPart
          <5>2. CASE ~IsLast(wpart[w] + 1)
            <6>1. NParts \in got /\ wpc[w] = "send" /\ status' = status
              BY <3>6, <4>2, <5>2, <1>0 DEF SendPart, IsLast, reply
            <6> QED BY <1>1, <3>2, <3>6, <4>1, <6>1 DEF OneRun
          <5> QED BY <5>1, <5>2
        <4>3. CASE ~SendPart(w)
          <5>1. got' = got /\ ~Record(w) /\ ~AnswerLost(w) /\ ~RecordFails(w)
            BY <1>2, <2>2, <3>6, <4>3 DEF Process, Load, MarkSending, NotReady, PartRefused,
               AnswerLost, Stamp, Record, RecordFails, HandleFailure, Finish, Throw, DbError,
               WorkerCrash, history
          <5>2. status # "SENT"
            BY <1>0, <1>1, <1>2, <2>2, <3>6, <4>3, <5>1 DEF OneRun, Process, Load, MarkSending,
               NotReady, PartRefused, Stamp, HandleFailure, Finish, Throw, DbError, WorkerCrash, reply
          <5>3. wpc[w] \in {"stamp", "record"}
            BY <1>1, <3>2, <3>6, <4>1, <5>1, <5>2 DEF OneRun
          <5>4. Stamp(w) \/ WorkerCrash(w)
            BY <1>2, <2>2, <4>3, <5>1, <5>3 DEF Process, Load, MarkSending, NotReady,
               PartRefused, HandleFailure, Finish, Throw, DbError
          <5>5. ~WorkerCrash(w)
            BY <3>6, <5>3 DEF WorkerCrash
          <5>6. wpc' = [wpc EXCEPT ![w] = "record"]
            BY <5>4, <5>5 DEF Stamp, Goto
          <5> QED BY <1>0, <3>4, <5>6
        <4> QED BY <4>2, <4>3
      <3>7. ASSUME ~unheard', NParts \in got'
            PROVE  status' = "SENT" \/ wpc'[w] \in {"stamp", "record"}
        BY <3>4, <3>6, <3>7
      <3> QED BY <3>4, <3>5, <3>7 DEF OneRun
    <2> QED BY <2>1, <2>2
  <1>3. ASSUME NEW a \in Agents, Reply(a) PROVE OneRun'
    <2>1. \A w \in Workers : wpc[w] = "idle"
      BY <1>3 DEF Reply, Arrived, NotBegun
    <2>2. NParts \notin got
      BY <1>0, <1>3 DEF Reply, Arrived
    <2> QED BY <1>3, <2>1, <2>2 DEF Reply, OneRun, runs, history
  <1>4. ASSUME Enqueue \/ EnqueueLost \/ LockExpires PROVE OneRun'
    BY <1>1, <1>4 DEF OneRun, Enqueue, EnqueueLost, LockExpires, reply, runs, history
  <1>5. ASSUME UNCHANGED <<reply, runs, history>> PROVE OneRun'
    BY <1>5 DEF OneRun, reply, runs, history
  <1> QED BY <1>2, <1>3, <1>4, <1>5, OthersLeaveReply DEF Next, vars

(* Each run hands the reply on, ends it, or is forgotten.                  *)
LEMMA AttendedStep == TypeInv /\ Arrived /\ Attended /\ [Next]_vars => Attended'
  <1> SUFFICES ASSUME TypeInv, Arrived, Attended, [Next]_vars,
                      status' \in {"QUEUED", "SENDING"}, ~forgotten'
               PROVE  Attended'
    BY DEF Attended
  <1> DEFINE Asleep == job.state = "active" /\ wpc[job.owner] = "idle"
  <1> USE DEF Points
  <1>0. /\ wpc \in [Workers -> Points]
        /\ Fit(job) /\ (job.owner # NoWorker <=> job.state = "active")
        /\ NoWorker \notin Workers
        /\ job \in Job
    BY QueueAssumption DEF QueueAssumption, TypeInv, TypeOK, RunsSound
  <1>1. ASSUME NEW w \in Workers, Process(w) PROVE Attended'
    <2>1. CASE Take(w)
      <3>1. wpc'[w] = "load"
        BY <1>0, <2>1 DEF Take
      <3> QED BY <3>1 DEF Attended, Runs
    <2>2. CASE Load(w)
      <3>1. wpc'[w] = "mark"
        BY <1>0, <2>2 DEF Load, Goto, reply
      <3> QED BY <3>1 DEF Attended, Runs
    <2>3. CASE MarkSending(w)
      <3>1. wpc'[w] = "send"
        BY <1>0, <2>3 DEF MarkSending, Goto
      <3> QED BY <3>1 DEF Attended, Runs
    <2>4. CASE SendPart(w)
      <3>1. wpc'[w] \in {"send", "stamp"}
        BY <1>0, <2>4 DEF SendPart
      <3> QED BY <3>1 DEF Attended, Runs
    <2>5. CASE PartRefused(w) \/ AnswerLost(w) \/ Stamp(w) \/ RecordFails(w)
      <3>1. wpc'[w] \in {"fail", "record"}
        BY <1>0, <2>5 DEF PartRefused, AnswerLost, Stamp, RecordFails, Goto, GiveUp
      <3> QED BY <3>1 DEF Attended, Runs
    <2>6. CASE NotReady(w) \/ DbError(w) \/ Record(w) \/ HandleFailure(w)
      BY <2>6 DEF NotReady, DbError, Record, HandleFailure
    <2>7. CASE Finish(w) \/ Throw(w)
      <3>1. /\ UNCHANGED <<status, adding, forgotten>> /\ wpc[w] \in {"done", "throw"}
            /\ wpc' = [wpc EXCEPT ![w] = "idle"]
            /\ job' = Completed(job, w) \/ job' = Thrown(job, w)
        BY <2>7 DEF Finish, Throw, Leave, reply, history
      <3>2. CASE adding
        BY <3>1, <3>2 DEF Attended
      <3>3. CASE job.state = "waiting"
        <4>1. job' = job
          BY <1>0, <3>1, <3>3, JobMoves
        <4> QED BY <3>3, <4>1 DEF Attended
      <3>4. CASE Asleep
        <4>1. job.owner # w
          BY <3>1, <3>4
        <4>2. job' = job /\ wpc'[job.owner] = "idle"
          BY <1>0, <3>1, <3>4, <4>1, JobMoves
        <4> QED BY <3>4, <4>2 DEF Attended
      <3>5. ASSUME NEW v \in Workers, wpc[v] \in Runs PROVE Attended'
        <4>1. wpc'[v] \in Runs
          BY <1>0, <3>1, <3>5 DEF Runs
        <4> QED BY <4>1 DEF Attended
      <3> QED BY <3>1, <3>2, <3>3, <3>4, <3>5 DEF Attended
    <2>8. CASE WorkerCrash(w)
      <3>1. /\ job.owner = w /\ job' = job
            /\ wpc' = [wpc EXCEPT ![w] = "idle"]
        BY <2>8 DEF WorkerCrash, Leave
      <3>2. job.state = "active" /\ wpc'[job.owner] = "idle"
        BY <1>0, <3>1
      <3> QED BY <3>1, <3>2 DEF Attended
    <2> QED BY <1>1, <2>1, <2>2, <2>3, <2>4, <2>5, <2>6, <2>7, <2>8 DEF Process
  <1>2. ASSUME NEW a \in Agents, Reply(a) PROVE Attended'
    BY <1>2 DEF Reply, Attended
  <1>3. ASSUME Enqueue PROVE Attended'
    <2>1. job.state = "absent" /\ job' = Added(job, NoSlot)
      BY <1>3 DEF Enqueue, Arrived, NotBegun
    <2>2. job'.state = "waiting"
      BY <1>0, <2>1 DEF Added, Job
    <2> QED BY <2>2 DEF Attended
  <1>4. ASSUME EnqueueLost PROVE Attended'
    BY <1>4 DEF EnqueueLost
  <1>5. ASSUME LockExpires PROVE Attended'
    <2>1. job' = Stalled(job) /\ job'.state # "failed"
      BY <1>5 DEF LockExpires
    <2>2. job'.state = "waiting"
      BY <1>0, <2>1 DEF Stalled, Job
    <2> QED BY <2>2 DEF Attended
  <1>6. ASSUME UNCHANGED <<reply, runs, history>> PROVE Attended'
    BY <1>6 DEF Attended, reply, runs, history
  <1> QED BY <1>1, <1>2, <1>3, <1>4, <1>5, <1>6, OthersLeaveReply DEF Next, vars

LEMMA ReplyHolds == Spec => []ReplyInv
  <1>1. Init => ReplyInv
    BY TypeStart, ReplyStart DEF ReplyInv
  <1>2. ReplyInv /\ [Next]_vars => ReplyInv'
    BY TypeStep, ArrivedStep, OneRunStep, AttendedStep DEF ReplyInv
  <1> QED BY <1>1, <1>2, PTL DEF Spec

(* A reply is shown as sent only when each of its parts has arrived; and,  *)
(* unless an outcome was lost or runs overlapped, as failed only when its  *)
(* last part has not.                                                      *)
THEOREM OutcomeIsTrue == Spec => []OutcomeTrue
  <1>1. ReplyInv => OutcomeTrue
    <2> SUFFICES ASSUME ReplyInv PROVE OutcomeTrue
      OBVIOUS
    <2>1. NParts \in Parts
      BY InboxAssumption DEF InboxAssumption, Parts
    <2>2. ASSUME status = "FAILED", ~unheard, ~raced PROVE NParts \notin got
      BY <2>2 DEF ReplyInv, OneRun
    <2> QED BY <2>1, <2>2 DEF OutcomeTrue, ReplyInv, Arrived
  <1> QED BY <1>1, ReplyHolds, PTL

(* A reply shown as on its way has an add() to come, a job that will be    *)
(* run or a run; unless one ended where nothing records it.                *)
THEOREM ReplyIsAttended == Spec => []ReplyAttended
  <1>1. ReplyInv => ReplyAttended
    BY DEF ReplyInv, Attended, ReplyAttended, Runs
  <1> QED BY <1>1, ReplyHolds, PTL
==============================================================================
