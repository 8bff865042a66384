------------------------ MODULE CommentRepliesProofs ------------------------
(***************************************************************************)
(* Proofs about CommentReplies for every number of workers, requests,      *)
(* retries and copies, and every combination of faults.                    *)
(***************************************************************************)
EXTENDS CommentReplies, BullQueueProofs

-----------------------------------------------------------------------------
(* The invariants. *)

(* While no runs have met, one run at a time has found the reply unsent,   *)
(* it is unsent indeed, and no failure handler is about to judge it.       *)
OneRun ==
    ~raced =>
        /\ \A v, w \in Sending : v = w
        /\ Sending # {} \/ failing # {} => ext = 0
        /\ Sending = {} \/ failing = {}

(* A copy in a worker's hands is the only one nobody has accounted for.    *)
Accounted ==
    ~raced =>
        /\ copies <= orphans + 1
        /\ (\E w \in Workers : wpc[w] = "send") => copies <= orphans
        /\ ext = 0 /\ status # "GONE" /\ (\A w \in Workers : wpc[w] # "mark")
               => copies <= orphans

(* A deleted reply, or one not yet created, has no network id. *)
IdExists == ext # 0 => Exists

(* A run that ends without an error, where the platform has a sender, has  *)
(* seen the reply sent or deleted.                                         *)
DoneSettled ==
    \A w \in Workers : wpc[w] = "done" /\ platform # "SILENT" =>
        ext # 0 \/ status = "GONE"

(* The job a request is to add, and any job of a later retry, is new.      *)
JobsNew ==
    /\ \A j \in Jobs : j > retries => job[j].state = "absent"
    /\ \A h \in Handlers : hpc[h] # "idle" =>
           hjob[h] <= retries /\ job[hjob[h]].state = "absent"
    /\ \A g, h \in Handlers : hpc[g] # "idle" /\ hpc[h] # "idle" /\ g # h =>
           hjob[g] # hjob[h]
    /\ status = "ABSENT" =>
           /\ \A h \in Handlers : hpc[h] = "idle"
           /\ \A w \in Workers : wpc[w] = "idle"
           /\ \A j \in Jobs : job[j].state = "absent"
           /\ retries = 0

(* A network id is a copy's number. *)
IdsReal == \A w \in Workers : wpc[w] = "mark" => wid[w] # 0

RunInv == TypeOK /\ IdsReal /\ IdExists /\ OneRun /\ Accounted /\ UpIsShown

JobInv == RunInv /\ DoneSettled /\ JobsNew /\ QueuedAttended

-----------------------------------------------------------------------------
(* Every variable keeps its type. *)

LEMMA TypeInit == Init => TypeOK
<1>. SUFFICES ASSUME Init PROVE TypeOK
  OBVIOUS
<1>1. 0 \in Jobs /\ 0 \in 0 .. MaxRetries
  BY RepliesAssumption DEF RepliesAssumption, Jobs
<1>2. /\ job \in [Jobs -> Job]
      /\ \A j \in Jobs : job[j].state # "failed" => job[j].tries < MaxAttempts
  BY NoJobFit DEF Init, Fit
<1>3. platform \in {"META", "SILENT", "OTHER"}
  BY RepliesAssumption DEF RepliesAssumption, Init
<1>. QED BY <1>1, <1>2, <1>3 DEF Init, TypeOK

LEMMA TypeStep == TypeOK /\ [Next]_vars => TypeOK'
<1>. SUFFICES ASSUME TypeOK, [Next]_vars PROVE TypeOK'
  OBVIOUS
<1>. \A j \in Jobs : Fit(job[j])
  BY DEF TypeOK, Fit
<1>. MaxRetries \in Nat /\ 0 \in Jobs /\ retries \in Jobs
  BY RepliesAssumption DEF RepliesAssumption, Jobs, TypeOK
<1>. USE DEF TypeOK, workerVars, handlerVars, history
<1>1. ASSUME NEW h \in Handlers, Create(h) PROVE TypeOK'
  BY <1>1 DEF Create
<1>2. ASSUME NEW h \in Handlers, Add(h) PROVE TypeOK'
  BY <1>2, AddedFit DEF Add, Fit
<1>3. ASSUME NEW h \in Handlers, RetryRead(h) PROVE TypeOK'
  BY <1>3 DEF RetryRead, Jobs
<1>4. ASSUME NEW h \in Handlers, RetryMark(h) PROVE TypeOK'
  BY <1>4 DEF RetryMark, Exists
<1>5. ASSUME NEW h \in Handlers, HandlerCrash(h) PROVE TypeOK'
  BY <1>5 DEF HandlerCrash
<1>6. ASSUME NEW w \in Workers, Take(w) PROVE TypeOK'
  BY <1>6, TakenFit DEF Take, Fit
<1>7. ASSUME NEW w \in Workers, Load(w) PROVE TypeOK'
  BY <1>7 DEF Load, Goto, Settled, Exists
<1>8. ASSUME NEW w \in Workers, Send(w) PROVE TypeOK'
  BY <1>8 DEF Send
<1>9. ASSUME NEW w \in Workers, Rejected(w) PROVE TypeOK'
  BY <1>9 DEF Rejected, Goto
<1>10. ASSUME NEW w \in Workers, Mark(w) PROVE TypeOK'
  BY <1>10 DEF Mark, Goto, Markable, Exists
<1>11. ASSUME NEW w \in Workers, MarkFails(w) PROVE TypeOK'
  BY <1>11 DEF MarkFails, Goto
<1>12. ASSUME NEW w \in Workers, Finish(w) PROVE TypeOK'
  BY <1>12, CompletedFit DEF Finish, Leave, Fit
<1>13. ASSUME NEW w \in Workers, Throw(w) PROVE TypeOK'
  BY <1>13, ThrownFit DEF Throw, Leave, Becomes, Fit
<1>14. ASSUME NEW w \in Workers, AnswerLost(w) PROVE TypeOK'
  BY <1>14 DEF AnswerLost, Goto
<1>15. ASSUME NEW w \in Workers, LoadFails(w) PROVE TypeOK'
  BY <1>15 DEF LoadFails, Goto
<1>16. ASSUME NEW w \in Workers, WorkerCrash(w) PROVE TypeOK'
  BY <1>16 DEF WorkerCrash, Leave
<1>17. ASSUME NEW j \in Jobs, Failed(j) PROVE TypeOK'
  BY <1>17 DEF Failed, Exists
<1>18. ASSUME NEW j \in Jobs, FailedLost(j) PROVE TypeOK'
  BY <1>18 DEF FailedLost
<1>19. ASSUME NEW j \in Jobs, LockExpires(j) PROVE TypeOK'
  BY <1>19, StalledFit DEF LockExpires, Becomes, Fit
<1>20. ASSUME NEW i \in 1 .. copies, Echo(i) PROVE TypeOK'
  BY <1>20 DEF Echo, Exists
<1>21. ASSUME Cascade PROVE TypeOK'
  BY <1>21 DEF Cascade, Exists
<1>22. ASSUME UNCHANGED vars PROVE TypeOK'
  BY <1>22 DEF vars
<1>. QED BY <1>1, <1>2, <1>3, <1>4, <1>5, <1>6, <1>7, <1>8, <1>9, <1>10, <1>11, <1>12,
            <1>13, <1>14, <1>15, <1>16, <1>17, <1>18, <1>19, <1>20, <1>21, <1>22 DEF Next,
            Request, Process

(* The counters of every job stay in their limits, and what requests and  *)
(* runs hold are jobs and numbers there are.                               *)
THEOREM TypeCorrect == Spec => []TypeOK
<1>. QED BY TypeInit, TypeStep, PTL DEF Spec

-----------------------------------------------------------------------------
(* Copies and what is shown of them. *)

LEMMA RunInit == Init => RunInv
<1>. SUFFICES ASSUME Init PROVE RunInv
  OBVIOUS
<1>1. TypeOK
  BY TypeInit
<1>. QED BY <1>1 DEF Init, RunInv, IdsReal, IdExists, OneRun, Accounted, UpIsShown,
                    Sending, Exists

LEMMA RunStep == RunInv /\ [Next]_vars => RunInv'
<1>. SUFFICES ASSUME RunInv, [Next]_vars PROVE RunInv'
  OBVIOUS
<1>. TypeOK /\ TypeOK'
  BY TypeStep DEF RunInv
<1>. USE DEF TypeOK, RunInv, IdsReal, IdExists, OneRun, Accounted, UpIsShown, Sending, Exists,
             workerVars, handlerVars, history
<1>1. ASSUME NEW h \in Handlers, Create(h) PROVE RunInv'
  BY <1>1 DEF Create
<1>2. ASSUME NEW h \in Handlers, Add(h) PROVE RunInv'
  BY <1>2 DEF Add
<1>3. ASSUME NEW h \in Handlers, RetryRead(h) PROVE RunInv'
  BY <1>3 DEF RetryRead
<1>4. ASSUME NEW h \in Handlers, RetryMark(h) PROVE RunInv'
  BY <1>4 DEF RetryMark, Exists
<1>5. ASSUME NEW h \in Handlers, HandlerCrash(h) PROVE RunInv'
  BY <1>5 DEF HandlerCrash
<1>6. ASSUME NEW w \in Workers, Take(w) PROVE RunInv'
  BY <1>6 DEF Take
<1>7. ASSUME NEW w \in Workers, Load(w) PROVE RunInv'
  BY <1>7 DEF Load, Goto, Settled, Exists
<1>8. ASSUME NEW w \in Workers, Send(w) PROVE RunInv'
  BY <1>8 DEF Send
<1>9. ASSUME NEW w \in Workers, Rejected(w) PROVE RunInv'
  BY <1>9 DEF Rejected, Goto
<1>10. ASSUME NEW w \in Workers, Mark(w) PROVE RunInv'
  BY <1>10 DEF Mark, Goto, Markable, Exists
<1>11. ASSUME NEW w \in Workers, MarkFails(w) PROVE RunInv'
  BY <1>11 DEF MarkFails, Goto
<1>12. ASSUME NEW w \in Workers, Finish(w) PROVE RunInv'
  BY <1>12 DEF Finish, Leave
<1>13. ASSUME NEW w \in Workers, Throw(w) PROVE RunInv'
  <2>1. \A v \in Workers : wpc'[v] = IF v = w THEN "idle" ELSE wpc[v]
    BY <1>13 DEF Throw, Leave
  <2>2. Sending' = Sending
    BY <1>13, <2>1 DEF Throw
  <2>3. UNCHANGED <<status, ext, copies, orphans>>
    BY <1>13 DEF Throw
  <2>4. OneRun' /\ (~raced' => ~raced)
    <3>1. ~raced' => ~raced /\ (failing' = failing \/ (ext = 0 /\ Sending = {}))
      BY <1>13 DEF Throw, Becomes
    <3>. QED BY <2>2, <2>3, <3>1
  <2>5. IdsReal' /\ Accounted'
    BY <1>13, <2>1, <2>3, <2>4 DEF Throw, Leave
  <2>. QED BY <2>2, <2>3, <2>4, <2>5
<1>14. ASSUME NEW w \in Workers, AnswerLost(w) PROVE RunInv'
  BY <1>14 DEF AnswerLost, Goto
<1>15. ASSUME NEW w \in Workers, LoadFails(w) PROVE RunInv'
  BY <1>15 DEF LoadFails, Goto
<1>16. ASSUME NEW w \in Workers, WorkerCrash(w) PROVE RunInv'
  BY <1>16 DEF WorkerCrash, Leave
<1>17. ASSUME NEW j \in Jobs, Failed(j) PROVE RunInv'
  BY <1>17 DEF Failed, Exists
<1>18. ASSUME NEW j \in Jobs, FailedLost(j) PROVE RunInv'
  BY <1>18 DEF FailedLost
<1>19. ASSUME NEW j \in Jobs, LockExpires(j) PROVE RunInv'
  BY <1>19 DEF LockExpires, Becomes
<1>20. ASSUME NEW i \in 1 .. copies, Echo(i) PROVE RunInv'
  BY <1>20 DEF Echo, Exists
<1>21. ASSUME Cascade PROVE RunInv'
  BY <1>21 DEF Cascade, Exists
<1>22. ASSUME UNCHANGED vars PROVE RunInv'
  BY <1>22 DEF vars
<1>. QED BY <1>1, <1>2, <1>3, <1>4, <1>5, <1>6, <1>7, <1>8, <1>9, <1>10, <1>11, <1>12,
            <1>13, <1>14, <1>15, <1>16, <1>17, <1>18, <1>19, <1>20, <1>21, <1>22 DEF Next,
            Request, Process

(* However many requests retry, workers run and copies are lost: unless    *)
(* runs meet, each copy but one was accepted and not recorded.             *)
THEOREM CopiesBounded == Spec => []CopiesAccounted
<1>1. RunInv => CopiesAccounted
  BY DEF RunInv, Accounted, CopiesAccounted
<1>. QED BY <1>1, RunInit, RunStep, PTL DEF Spec

(* Unless runs meet, no step of anybody shows a reply that is up as failed *)
(* or on its way.                                                          *)
THEOREM UpAndShown == Spec => []UpIsShown
<1>1. RunInv => UpIsShown
  BY DEF RunInv
<1>. QED BY <1>1, RunInit, RunStep, PTL DEF Spec

-----------------------------------------------------------------------------
(* Nobody forgets a reply on its way. *)

(* Where an operation of the queue leaves the job. *)
LEMMA JobMoves ==
    ASSUME NEW j \in Job, NEW w \in Workers
    PROVE  /\ Taken(j, w).state = "active"
           /\ Completed(j, w) = j \/ Completed(j, w).state = "absent"
           /\ \/ Thrown(j, w) = j
              \/ j.state = "active" /\ Thrown(j, w).state \in {"waiting", "failed"}
BY DEF Taken, Completed, Thrown, NoJob, Job

LEMMA AddedMoves ==
    ASSUME NEW j \in Job, j.state = "absent"
    PROVE  Added(j, NoSlot).state = "waiting"
BY DEF Added, Job

LEMMA StalledMoves ==
    ASSUME NEW j \in Job
    PROVE  Stalled(j).state \in {"waiting", "failed"}
BY DEF Stalled, Job

LEMMA JobInit == Init => JobInv
<1>. SUFFICES ASSUME Init PROVE JobInv
  OBVIOUS
<1>1. RunInv
  BY RunInit
<1>. QED BY <1>1 DEF Init, JobInv, DoneSettled, JobsNew, QueuedAttended, NoJob

(* A step of the queue leaves alone whether a job exists, but for its add. *)
LEMMA NewStep == JobInv /\ [Next]_vars => JobsNew'
<1>. SUFFICES ASSUME JobInv, [Next]_vars PROVE JobsNew'
  OBVIOUS
<1>. TypeOK /\ TypeOK'
  BY TypeStep DEF JobInv, RunInv
<1>. \A j \in Jobs : job[j] \in Job
  BY DEF TypeOK
<1>. USE DEF TypeOK, JobInv, JobsNew, Exists, Jobs, workerVars, handlerVars, history
<1>1. ASSUME NEW h \in Handlers, Create(h) PROVE JobsNew'
  BY <1>1 DEF Create
<1>2. ASSUME NEW h \in Handlers, Add(h) PROVE JobsNew'
  BY <1>2, AddedMoves DEF Add
<1>3. ASSUME NEW h \in Handlers, RetryRead(h) PROVE JobsNew'
  BY <1>3 DEF RetryRead
<1>4. ASSUME NEW h \in Handlers, RetryMark(h) PROVE JobsNew'
  <2>1. CASE Exists
    BY <1>4, <2>1 DEF RetryMark
  <2>2. CASE ~Exists
    <3>1. /\ UNCHANGED <<status, job, retries, wpc>>
          /\ hpc' = [hpc EXCEPT ![h] = "idle"]
          /\ hjob' = [hjob EXCEPT ![h] = 0]
      BY <1>4, <2>2 DEF RetryMark
    <3>2. status # "ABSENT"
      BY <1>4 DEF RetryMark
    <3>3. \A g \in Handlers : hpc'[g] # "idle" => hpc[g] # "idle" /\ hjob'[g] = hjob[g]
      BY <3>1
    <3>. QED BY <3>1, <3>2, <3>3
  <2>. QED BY <2>1, <2>2
<1>5. ASSUME NEW h \in Handlers, HandlerCrash(h) PROVE JobsNew'
  BY <1>5 DEF HandlerCrash
<1>6. ASSUME NEW w \in Workers, Take(w) PROVE JobsNew'
  BY <1>6, JobMoves DEF Take
<1>7. ASSUME NEW w \in Workers, Load(w) PROVE JobsNew'
  BY <1>7 DEF Load, Goto, Settled, Exists
<1>8. ASSUME NEW w \in Workers, Send(w) PROVE JobsNew'
  BY <1>8 DEF Send
<1>9. ASSUME NEW w \in Workers, Rejected(w) PROVE JobsNew'
  BY <1>9 DEF Rejected, Goto
<1>10. ASSUME NEW w \in Workers, Mark(w) PROVE JobsNew'
  BY <1>10 DEF Mark, Goto, Markable, Exists
<1>11. ASSUME NEW w \in Workers, MarkFails(w) PROVE JobsNew'
  BY <1>11 DEF MarkFails, Goto
<1>12. ASSUME NEW w \in Workers, Finish(w) PROVE JobsNew'
  BY <1>12, JobMoves DEF Finish, Leave
<1>13. ASSUME NEW w \in Workers, Throw(w) PROVE JobsNew'
  <2>1. job' = [job EXCEPT ![wjob[w]] = Thrown(job[wjob[w]], w)]
    BY <1>13 DEF Throw, Becomes
  <2>2. \A i \in Jobs : job[i].state = "absent" => job'[i].state = "absent"
    BY <2>1, JobMoves
  <2>. QED BY <1>13, <2>2 DEF Throw, Leave
<1>14. ASSUME NEW w \in Workers, AnswerLost(w) PROVE JobsNew'
  BY <1>14 DEF AnswerLost, Goto
<1>15. ASSUME NEW w \in Workers, LoadFails(w) PROVE JobsNew'
  BY <1>15 DEF LoadFails, Goto
<1>16. ASSUME NEW w \in Workers, WorkerCrash(w) PROVE JobsNew'
  BY <1>16 DEF WorkerCrash, Leave
<1>17. ASSUME NEW j \in Jobs, Failed(j) PROVE JobsNew'
  BY <1>17 DEF Failed, Exists
<1>18. ASSUME NEW j \in Jobs, FailedLost(j) PROVE JobsNew'
  BY <1>18 DEF FailedLost
<1>19. ASSUME NEW j \in Jobs, LockExpires(j) PROVE JobsNew'
  BY <1>19, StalledMoves DEF LockExpires, Becomes
<1>20. ASSUME NEW i \in 1 .. copies, Echo(i) PROVE JobsNew'
  BY <1>20 DEF Echo, Exists
<1>21. ASSUME Cascade PROVE JobsNew'
  BY <1>21 DEF Cascade, Exists
<1>22. ASSUME UNCHANGED vars PROVE JobsNew'
  BY <1>22 DEF vars
<1>. QED BY <1>1, <1>2, <1>3, <1>4, <1>5, <1>6, <1>7, <1>8, <1>9, <1>10, <1>11, <1>12,
            <1>13, <1>14, <1>15, <1>16, <1>17, <1>18, <1>19, <1>20, <1>21, <1>22 DEF Next,
            Request, Process

LEMMA DoneStep == JobInv /\ [Next]_vars => DoneSettled'
<1>. SUFFICES ASSUME JobInv, [Next]_vars PROVE DoneSettled'
  OBVIOUS
<1>. TypeOK /\ IdsReal /\ IdExists /\ JobsNew /\ DoneSettled
  BY DEF JobInv, RunInv
<1>. USE DEF TypeOK, JobsNew, DoneSettled, IdsReal, IdExists, Exists,
             workerVars, handlerVars, history
<1>1. ASSUME NEW h \in Handlers, Create(h) PROVE DoneSettled'
  BY <1>1 DEF Create
<1>2. ASSUME NEW h \in Handlers, Add(h) PROVE DoneSettled'
  BY <1>2 DEF Add
<1>3. ASSUME NEW h \in Handlers, RetryRead(h) PROVE DoneSettled'
  BY <1>3 DEF RetryRead
<1>4. ASSUME NEW h \in Handlers, RetryMark(h) PROVE DoneSettled'
  BY <1>4 DEF RetryMark, Exists
<1>5. ASSUME NEW h \in Handlers, HandlerCrash(h) PROVE DoneSettled'
  BY <1>5 DEF HandlerCrash
<1>6. ASSUME NEW w \in Workers, Take(w) PROVE DoneSettled'
  BY <1>6 DEF Take
<1>7. ASSUME NEW w \in Workers, Load(w) PROVE DoneSettled'
  BY <1>7 DEF Load, Goto, Settled, Exists
<1>8. ASSUME NEW w \in Workers, Send(w) PROVE DoneSettled'
  BY <1>8 DEF Send
<1>9. ASSUME NEW w \in Workers, Rejected(w) PROVE DoneSettled'
  BY <1>9 DEF Rejected, Goto
<1>10. ASSUME NEW w \in Workers, Mark(w) PROVE DoneSettled'
  BY <1>10 DEF Mark, Goto, Markable, Exists
<1>11. ASSUME NEW w \in Workers, MarkFails(w) PROVE DoneSettled'
  BY <1>11 DEF MarkFails, Goto
<1>12. ASSUME NEW w \in Workers, Finish(w) PROVE DoneSettled'
  BY <1>12 DEF Finish, Leave
<1>13. ASSUME NEW w \in Workers, Throw(w) PROVE DoneSettled'
  BY <1>13 DEF Throw, Leave, Becomes
<1>14. ASSUME NEW w \in Workers, AnswerLost(w) PROVE DoneSettled'
  BY <1>14 DEF AnswerLost, Goto
<1>15. ASSUME NEW w \in Workers, LoadFails(w) PROVE DoneSettled'
  BY <1>15 DEF LoadFails, Goto
<1>16. ASSUME NEW w \in Workers, WorkerCrash(w) PROVE DoneSettled'
  BY <1>16 DEF WorkerCrash, Leave
<1>17. ASSUME NEW j \in Jobs, Failed(j) PROVE DoneSettled'
  BY <1>17 DEF Failed, Exists
<1>18. ASSUME NEW j \in Jobs, FailedLost(j) PROVE DoneSettled'
  BY <1>18 DEF FailedLost
<1>19. ASSUME NEW j \in Jobs, LockExpires(j) PROVE DoneSettled'
  BY <1>19 DEF LockExpires, Becomes
<1>20. ASSUME NEW i \in 1 .. copies, Echo(i) PROVE DoneSettled'
  BY <1>20 DEF Echo, Exists
<1>21. ASSUME Cascade PROVE DoneSettled'
  BY <1>21 DEF Cascade, Exists
<1>22. ASSUME UNCHANGED vars PROVE DoneSettled'
  BY <1>22 DEF vars
<1>. QED BY <1>1, <1>2, <1>3, <1>4, <1>5, <1>6, <1>7, <1>8, <1>9, <1>10, <1>11, <1>12,
            <1>13, <1>14, <1>15, <1>16, <1>17, <1>18, <1>19, <1>20, <1>21, <1>22 DEF Next,
            Request, Process

LEMMA AttendedStep == JobInv /\ [Next]_vars => QueuedAttended'
<1>. SUFFICES ASSUME JobInv, [Next]_vars PROVE QueuedAttended'
  OBVIOUS
<1>. TypeOK /\ DoneSettled /\ JobsNew /\ QueuedAttended /\ UpIsShown /\ IdExists
  BY DEF JobInv, RunInv
<1>. \A j \in Jobs : job[j] \in Job
  BY DEF TypeOK
<1>. USE DEF TypeOK, JobsNew, QueuedAttended, Exists, workerVars, handlerVars, history
<1>1. ASSUME NEW h \in Handlers, Create(h) PROVE QueuedAttended'
  BY <1>1 DEF Create
<1>2. ASSUME NEW h \in Handlers, Add(h) PROVE QueuedAttended'
  <2>1. hjob[h] \in Jobs /\ job[hjob[h]].state = "absent"
    BY <1>2 DEF Add
  <2>2. job'[hjob[h]].state = "waiting"
    BY <1>2, <2>1, AddedMoves DEF Add
  <2>. QED BY <2>1, <2>2
<1>3. ASSUME NEW h \in Handlers, RetryRead(h) PROVE QueuedAttended'
  BY <1>3 DEF RetryRead
<1>4. ASSUME NEW h \in Handlers, RetryMark(h) PROVE QueuedAttended'
  BY <1>4 DEF RetryMark, Exists
<1>5. ASSUME NEW h \in Handlers, HandlerCrash(h) PROVE QueuedAttended'
  BY <1>5 DEF HandlerCrash
<1>6. ASSUME NEW w \in Workers, Take(w) PROVE QueuedAttended'
  <2>1. PICK j \in Jobs : job' = [job EXCEPT ![j] = Taken(job[j], w)]
    BY <1>6 DEF Take
  <2>2. job'[j].state = "active"
    BY <2>1, JobMoves
  <2>. QED BY <2>2
<1>7. ASSUME NEW w \in Workers, Load(w) PROVE QueuedAttended'
  BY <1>7 DEF Load, Goto, Settled, Exists
<1>8. ASSUME NEW w \in Workers, Send(w) PROVE QueuedAttended'
  BY <1>8 DEF Send
<1>9. ASSUME NEW w \in Workers, Rejected(w) PROVE QueuedAttended'
  BY <1>9 DEF Rejected, Goto
<1>10. ASSUME NEW w \in Workers, Mark(w) PROVE QueuedAttended'
  BY <1>10 DEF Mark, Goto, Markable, Exists
<1>11. ASSUME NEW w \in Workers, MarkFails(w) PROVE QueuedAttended'
  BY <1>11 DEF MarkFails, Goto
<1>12. ASSUME NEW w \in Workers, Finish(w) PROVE QueuedAttended'
  BY <1>12, JobMoves DEF Finish, Leave, DoneSettled, UpIsShown
<1>13. ASSUME NEW w \in Workers, Throw(w) PROVE QueuedAttended'
  <2>1. wjob[w] \in Jobs
    BY DEF TypeOK
  <2>2. CASE job' = job
    <3>1. failing' = failing /\ raced' = raced
      BY <1>13, <2>1, <2>2 DEF Throw, Becomes
    <3>. QED BY <1>13, <2>2, <3>1 DEF Throw
  <2>3. CASE job' # job
    <3>1. /\ job[wjob[w]].state = "active"
          /\ job'[wjob[w]].state \in {"waiting", "failed"}
      BY <1>13, <2>1, <2>3, JobMoves DEF Throw, Becomes
    <3>2. job'[wjob[w]].state = "failed" => failing' # {}
      <4>1. job'[wjob[w]] = Thrown(job[wjob[w]], w)
        BY <1>13, <2>1 DEF Throw, Becomes
      <4>. QED BY <1>13, <3>1, <4>1 DEF Throw, Becomes
    <3>. QED BY <2>1, <3>1, <3>2
  <2>. QED BY <2>2, <2>3
<1>14. ASSUME NEW w \in Workers, AnswerLost(w) PROVE QueuedAttended'
  BY <1>14 DEF AnswerLost, Goto
<1>15. ASSUME NEW w \in Workers, LoadFails(w) PROVE QueuedAttended'
  BY <1>15 DEF LoadFails, Goto
<1>16. ASSUME NEW w \in Workers, WorkerCrash(w) PROVE QueuedAttended'
  BY <1>16 DEF WorkerCrash, Leave
<1>17. ASSUME NEW j \in Jobs, Failed(j) PROVE QueuedAttended'
  BY <1>17 DEF Failed, Exists
<1>18. ASSUME NEW j \in Jobs, FailedLost(j) PROVE QueuedAttended'
  BY <1>18 DEF FailedLost
<1>19. ASSUME NEW j \in Jobs, LockExpires(j) PROVE QueuedAttended'
  <2>1. job'[j].state = "failed" => failing' # {}
    BY <1>19 DEF LockExpires, Becomes
  <2>2. job'[j].state \in {"waiting", "failed"}
    BY <1>19, StalledMoves DEF LockExpires, Becomes
  <2>. QED BY <2>1, <2>2
<1>20. ASSUME NEW i \in 1 .. copies, Echo(i) PROVE QueuedAttended'
  BY <1>20 DEF Echo, Exists
<1>21. ASSUME Cascade PROVE QueuedAttended'
  BY <1>21 DEF Cascade, Exists
<1>22. ASSUME UNCHANGED vars PROVE QueuedAttended'
  BY <1>22 DEF vars
<1>. QED BY <1>1, <1>2, <1>3, <1>4, <1>5, <1>6, <1>7, <1>8, <1>9, <1>10, <1>11, <1>12,
            <1>13, <1>14, <1>15, <1>16, <1>17, <1>18, <1>19, <1>20, <1>21, <1>22 DEF Next,
            Request, Process

LEMMA JobStep == JobInv /\ [Next]_vars => JobInv'
BY RunStep, NewStep, DoneStep, AttendedStep DEF JobInv

(* Whatever crashes, is lost or runs late: a reply shown as on its way has *)
(* a request, a job or a handler to settle it, unless runs meet, a step    *)
(* was dropped, or its platform has no sender.                             *)
THEOREM QueuedIsAttended == Spec => []QueuedAttended
<1>1. JobInv => QueuedAttended
  BY DEF JobInv
<1>. QED BY <1>1, JobInit, JobStep, PTL DEF Spec
=============================================================================
