-------------------------- MODULE PublishingProofs --------------------------
(***************************************************************************)
(* Proofs about Publishing for every number of workers, requests and       *)
(* destinations, every thread length, retry and stall limit, and every     *)
(* combination of faults.                                                  *)
(***************************************************************************)
EXTENDS Publishing, BullQueueProofs

-----------------------------------------------------------------------------
(* Every variable keeps its type. *)

LEMMA VerdictType == ASSUME NEW s PROVE Verdict(s) \in Verdicts
BY DEF Verdict, Verdicts

LEMMA TypeInit == Init => TypeOK
BY NoJobFit DEF Init, TypeOK, Fit, PostStatus, MediaStatus, Verdicts, DestStatus, WorkerPoints, HandlerPoints

LEMMA AcceptedType ==
    ASSUME TypeOK, NEW w \in Workers, Accepted(w)
    PROVE  /\ sent' \in [Workers -> Nat]
           /\ copies' \in [Dests -> Nat]
<1>1. sent' \in [Workers -> Nat]
  BY DEF TypeOK, Accepted
<1>2. ASSUME NEW d \in Dests PROVE copies[d] + 1 \in Nat
  BY DEF TypeOK
<1>3. [copies EXCEPT ![cur[w]] = @ + 1] \in [Dests -> Nat]
  BY <1>2 DEF TypeOK
<1>. QED BY <1>1, <1>3 DEF TypeOK, Accepted

LEMMA TypeStep == TypeOK /\ [Next]_vars => TypeOK'
<1>. SUFFICES ASSUME TypeOK, [Next]_vars PROVE TypeOK'
  OBVIOUS
<1>. Fit(job)
  BY DEF TypeOK, Fit
<1>. USE DEF TypeOK, PostStatus, MediaStatus, Verdicts, DestStatus, WorkerPoints, HandlerPoints,
             workerVars, handlerVars, removerVars, history
<1>1. ASSUME NEW h \in Handlers, Create(h) PROVE TypeOK'
  BY <1>1 DEF Create, Answer, StatusFor
<1>2. ASSUME NEW h \in Handlers, Enqueue(h) PROVE TypeOK'
  BY <1>2, AddedFit DEF Enqueue, Answer, Fit
<1>3. ASSUME NEW h \in Handlers, UpdateRead(h) PROVE TypeOK'
  BY <1>3 DEF UpdateRead
<1>4. ASSUME NEW h \in Handlers, UpdateCommit(h) PROVE TypeOK'
  BY <1>4 DEF UpdateCommit, Answer, StatusFor
<1>5. ASSUME NEW h \in Handlers, UpdateSync(h) PROVE TypeOK'
  BY <1>5, AddedFit, NoJobFit DEF UpdateSync, Answer, Fit
<1>6. ASSUME NEW h \in Handlers, DeleteRead(h) PROVE TypeOK'
  BY <1>6 DEF DeleteRead
<1>7. ASSUME NEW h \in Handlers, DeleteUnqueue(h) PROVE TypeOK'
  BY <1>7, NoJobFit DEF DeleteUnqueue, Answer, Fit
<1>8. ASSUME NEW h \in Handlers, DeleteDrop(h) PROVE TypeOK'
  BY <1>8 DEF DeleteDrop, Answer
<1>9. ASSUME NEW h \in Handlers, ClearRead(h) PROVE TypeOK'
  BY <1>9 DEF ClearRead
<1>10. ASSUME NEW h \in Handlers, ClearReset(h) PROVE TypeOK'
  BY <1>10 DEF ClearReset, Answer
<1>11. ASSUME NEW h \in Handlers, HandlerCrash(h) PROVE TypeOK'
  BY <1>11 DEF HandlerCrash, Answer
<1>12. ASSUME NEW r \in Removers, RemoveRead(r) PROVE TypeOK'
  <2>1. {d \in Facebook : dest[d] = "SUCCESS"} \in SUBSET Dests
    BY PublishingAssumption DEF PublishingAssumption
  <2>. QED BY <1>12, <2>1 DEF RemoveRead
<1>13. ASSUME NEW r \in Removers, RemoveCall(r) PROVE TypeOK'
  <2>1. PICK d \in rtodo[r] :
            /\ rtodo' = [rtodo EXCEPT ![r] = @ \ {d}]
            /\ \/ /\ rpc' = [rpc EXCEPT ![r] = "mark"]
                  /\ rcur' = [rcur EXCEPT ![r] = d]
                  /\ removed' = [removed EXCEPT ![d] = TRUE]
               \/ UNCHANGED <<rpc, rcur, removed>>
    BY <1>13 DEF RemoveCall
  <2>2. d \in Dests
    OBVIOUS
  <2>3. rtodo[r] \ {d} \in SUBSET Dests
    OBVIOUS
  <2>4. rtodo' \in [Removers -> SUBSET Dests]
    BY <2>1, <2>3
  <2>5. rpc' \in [Removers -> {"idle", "loop", "mark"}]
    BY <2>1
  <2>6. rcur' \in [Removers -> Dests \cup {NoDest}]
    BY <2>1, <2>2
  <2>7. removed' \in [Dests -> BOOLEAN]
    BY <2>1, <2>2
  <2>. QED BY <1>13, <2>4, <2>5, <2>6, <2>7 DEF RemoveCall
<1>14. ASSUME NEW r \in Removers, RemoveMark(r) PROVE TypeOK'
  BY <1>14 DEF RemoveMark
<1>15. ASSUME NEW r \in Removers, RemoveReturn(r) PROVE TypeOK'
  BY <1>15 DEF RemoveReturn
<1>16. ASSUME NEW r \in Removers, RemoveCrash(r) PROVE TypeOK'
  BY <1>16 DEF RemoveCrash
<1>17. ASSUME NEW w \in Workers, Take(w) PROVE TypeOK'
  BY <1>17, TakenFit DEF Take, Fit
<1>18. ASSUME NEW w \in Workers, Load(w) PROVE TypeOK'
  <2>1. (media # "bare") \in BOOLEAN
    OBVIOUS
  <2>2. routed' \in [Workers -> BOOLEAN]
    BY <1>18, <2>1 DEF Load
  <2>3. todo' \in [Workers -> SUBSET Dests]
    BY <1>18 DEF Load
  <2>. QED BY <1>18, <2>2, <2>3 DEF Load
<1>19. ASSUME NEW w \in Workers, Claim(w) PROVE TypeOK'
  BY <1>19 DEF Claim
<1>20. ASSUME NEW w \in Workers, ClaimRefused(w) PROVE TypeOK'
  BY <1>20 DEF ClaimRefused
<1>21. ASSUME NEW w \in Workers, Send(w) PROVE TypeOK'
  BY <1>21, AcceptedType DEF Send
<1>37. ASSUME NEW w \in Workers, NoRoute(w) PROVE TypeOK'
  BY <1>37 DEF NoRoute
<1>22. ASSUME NEW w \in Workers, Rejected(w) PROVE TypeOK'
  BY <1>22 DEF Rejected
<1>23. ASSUME NEW w \in Workers, AnswerLost(w) PROVE TypeOK'
  BY <1>23, AcceptedType DEF AnswerLost
<1>24. ASSUME NEW w \in Workers, Persist(w) PROVE TypeOK'
  BY <1>24 DEF Persist
<1>25. ASSUME NEW w \in Workers, Save(w) PROVE TypeOK'
  BY <1>25, SMTT(30) DEF Save, NextDest
<1>26. ASSUME NEW w \in Workers, Catch(w) PROVE TypeOK'
  BY <1>26 DEF Catch, NextDest
<1>27. ASSUME NEW w \in Workers, ReadStatus(w) PROVE TypeOK'
  BY <1>27 DEF ReadStatus
<1>28. ASSUME NEW w \in Workers, Count(w) PROVE TypeOK'
  BY <1>28, VerdictType DEF Count
<1>29. ASSUME NEW w \in Workers, Write(w) PROVE TypeOK'
  BY <1>29 DEF Write
<1>30. ASSUME NEW w \in Workers, Finish(w) PROVE TypeOK'
  BY <1>30, CompletedFit DEF Finish, Leave, Fit
<1>31. ASSUME NEW w \in Workers, Throw(w) PROVE TypeOK'
  BY <1>31, ThrownFit DEF Throw, Leave, Fit
<1>32. ASSUME NEW w \in Workers, DbError(w) PROVE TypeOK'
  BY <1>32 DEF DbError, NextDest
<1>33. ASSUME NEW w \in Workers, WorkerCrash(w) PROVE TypeOK'
  BY <1>33 DEF WorkerCrash, Leave
<1>34. CASE LockExpires
  BY <1>34, StalledFit DEF LockExpires, Fit
<1>36. CASE DeleteFile
  BY <1>36 DEF DeleteFile
<1>35. CASE UNCHANGED vars
  BY <1>35 DEF vars
<1>. QED
  BY <1>1, <1>2, <1>3, <1>4, <1>5, <1>6, <1>7, <1>8, <1>9, <1>10, <1>11,
     <1>12, <1>13, <1>14, <1>15, <1>16, <1>17, <1>18, <1>19, <1>20, <1>21,
     <1>22, <1>23, <1>24, <1>25, <1>26, <1>27, <1>28, <1>29, <1>30, <1>31,
     <1>32, <1>33, <1>34, <1>35, <1>36, <1>37 DEF Next, Request, Removal, Process

(* TypeOK holds in every reachable state. *)
THEOREM TypeCorrect == Spec => []TypeOK
BY TypeInit, TypeStep, PTL DEF Spec

-----------------------------------------------------------------------------
(* The inductive invariant behind the claim.  Every part speaks of one     *)
(* destination, so that a step has to be looked at for one destination.    *)

ClaimPoints == {"send", "persist", "save", "catch"}

(* A worker at work on a claim knows on which, and a request that is about *)
(* to record a remote deletion has had the content deleted.                *)
LocalsSound ==
    /\ \A w \in Workers : wpc[w] \in ClaimPoints => cur[w] \in Dests
    /\ \A r \in Removers : rpc[r] = "mark" => rcur[r] \in Dests /\ removed[rcur[r]]

(* A claim keeps the destination out of everybody else's reach. *)
HeldBusy(d) ==
    \A w \in Workers : Holds(w, d) => dest[d] \in {"PUBLISHING", "GONE"}

HeldOnce(d) == \A v, w \in Workers : Holds(v, d) /\ Holds(w, d) => v = w

(* No post is up but those accounted for: always but for one, and for all  *)
(* when the destination is open to a claim, or its holder has sent nothing.*)
Accounted(d) ==
    /\ copies[d] <= orphans[d] + 1
    /\ dest[d] \in {"ABSENT", "SCHEDULED", "FAILED"} => copies[d] <= orphans[d]
    /\ \A w \in Workers : Holds(w, d) /\ sent[w] = 0 => copies[d] <= orphans[d]

DestInv(d) == ~removed[d] => HeldBusy(d) /\ HeldOnce(d) /\ Accounted(d)

(* The destinations come and go with the post, and nothing is under way    *)
(* before it is created.                                                   *)
RowsTogether ==
    /\ \A d \in Dests : (dest[d] = "ABSENT") <=> (post = "ABSENT")
    /\ \A d \in Dests : (dest[d] = "GONE") <=> (post = "GONE")
    /\ post = "ABSENT" => /\ job.state = "absent"
                          /\ \A h \in Handlers : hpc[h] = "idle"
                          /\ \A r \in Removers : rpc[r] = "idle"
                          /\ \A w \in Workers : wpc[w] = "idle"

ClaimInv ==
    /\ TypeOK
    /\ LocalsSound
    /\ RowsTogether
    /\ \A d \in Dests : DestInv(d)

(* What PUBLISHED stands for, and who may be about to write it. *)
Shown(d) == copies[d] > 0 \/ (d \in Instagram /\ Stripped)
Up(d) == Shown(d) /\ (dest[d] = "SUCCESS" \/ removed[d])

SendsSound ==
    /\ \A w \in Workers : wpc[w] \notin ClaimPoints => sent[w] = 0
    /\ \A w \in Workers : ~routed[w] => Stripped
    /\ \A w \in Workers : wpc[w] = "persist" => sent[w] > 0
    /\ \A w \in Workers : wpc[w] = "save" /\ sent[w] = 0 => cur[w] \in Instagram /\ Stripped
    /\ \A w \in Workers : wpc[w] \in ClaimPoints /\ sent[w] > 0 => copies[cur[w]] > 0

CopiesSound ==
    /\ \A d \in Dests : dest[d] = "SUCCESS" \/ removed[d] => Shown(d)
    /\ \A r \in Removers : \A d \in rtodo[r] : Shown(d)

VerdictSound ==
    /\ post \notin {"ABSENT", "GONE"} =>
          \A w \in Workers : wpc[w] = "write" /\ verdict[w] = "PUBLISHED" =>
              \A d \in Dests : Up(d)
    /\ post = "PUBLISHED" => \A d \in Dests : Up(d)

PublishedInv == ClaimInv /\ SendsSound /\ CopiesSound /\ VerdictSound

(* What the steps of each kind of process leave alone. *)

LEMMA RequestFrame ==
    ASSUME NEW h \in Handlers, Request(h) \/ HandlerCrash(h)
    PROVE  UNCHANGED <<workerVars, removerVars, history>>
BY DEF Request, Create, Enqueue, UpdateRead, UpdateCommit, UpdateSync, DeleteRead,
       DeleteUnqueue, DeleteDrop, ClearRead, ClearReset, HandlerCrash,
       workerVars, removerVars, history

LEMMA RemovalFrame ==
    ASSUME NEW r \in Removers, Removal(r) \/ RemoveCrash(r)
    PROVE  UNCHANGED <<post, media, workerVars, handlerVars, copies, orphans>>
BY DEF Removal, RemoveRead, RemoveCall, RemoveMark, RemoveReturn, RemoveCrash,
       workerVars, handlerVars, history

Work(w) == Process(w) \/ AnswerLost(w) \/ DbError(w) \/ WorkerCrash(w)

LEMMA WorkFrame ==
    ASSUME NEW w \in Workers, Work(w)
    PROVE  UNCHANGED <<at, media, removerVars, handlerVars, removed>>
BY DEF Work, Process, Take, Load, Claim, ClaimRefused, Send, NoRoute, Rejected, AnswerLost, Persist, Save, Catch, ReadStatus, Count, Write, Finish, Throw, DbError, WorkerCrash,
       removerVars, handlerVars, history

LEMMA LocalsStep == TypeOK /\ LocalsSound /\ [Next]_vars => LocalsSound'
<1>. SUFFICES ASSUME TypeOK, LocalsSound, [Next]_vars PROVE LocalsSound'
  OBVIOUS
<1>1. ASSUME NEW h \in Handlers, Request(h) \/ HandlerCrash(h) PROVE LocalsSound'
  BY <1>1, RequestFrame DEF LocalsSound, workerVars, removerVars, history
<1>2. ASSUME NEW r \in Removers, Removal(r) \/ RemoveCrash(r) PROVE LocalsSound'
  <2>1. \A w \in Workers : wpc'[w] \in ClaimPoints => cur'[w] \in Dests
    BY <1>2, RemovalFrame DEF LocalsSound, workerVars
  <2>2. ASSUME NEW q \in Removers, rpc'[q] = "mark"
        PROVE  rcur'[q] \in Dests /\ removed'[rcur'[q]]
    BY <1>2, <2>2 DEF LocalsSound, TypeOK, Removal, RemoveRead, RemoveCall,
       RemoveMark, RemoveReturn, RemoveCrash, history
  <2>. QED BY <2>1, <2>2 DEF LocalsSound
<1>3. ASSUME NEW w \in Workers, Work(w) PROVE LocalsSound'
  <2>1. \A r \in Removers : rpc'[r] = "mark" => rcur'[r] \in Dests /\ removed'[rcur'[r]]
    BY <1>3, WorkFrame DEF LocalsSound, removerVars
  <2>2. ASSUME NEW v \in Workers, wpc'[v] \in ClaimPoints PROVE cur'[v] \in Dests
    BY <1>3, <2>2 DEF LocalsSound, TypeOK, ClaimPoints, Work, Process,
       Take, Load, Claim, ClaimRefused, Send, NoRoute, Rejected, AnswerLost, Persist, Save, Catch, ReadStatus, Count, Write, Finish, Throw, DbError, WorkerCrash,
       Accepted, NextDest, Leave
  <2>. QED BY <2>1, <2>2 DEF LocalsSound
<1>4. CASE DeleteFile \/ LockExpires \/ UNCHANGED vars
  BY <1>4 DEF LocalsSound, DeleteFile, LockExpires, vars, workerVars, removerVars, history
<1>. QED BY <1>1, <1>2, <1>3, <1>4 DEF Next, Work

LEMMA RowsStep == TypeOK /\ RowsTogether /\ [Next]_vars => RowsTogether'
<1>. SUFFICES ASSUME TypeOK, RowsTogether, [Next]_vars PROVE RowsTogether'
  OBVIOUS
<1>1. ASSUME NEW h \in Handlers, Request(h) \/ HandlerCrash(h) PROVE RowsTogether'
  <2>1. post' # "ABSENT"
    BY <1>1 DEF RowsTogether, TypeOK, Exists, StatusFor, Request, Create, Enqueue, UpdateRead, UpdateCommit, UpdateSync, DeleteRead,
       DeleteUnqueue, DeleteDrop, ClearRead, ClearReset, HandlerCrash, Answer
  <2>2. CASE Create(h) \/ DeleteDrop(h)
    BY <2>1, <2>2 DEF RowsTogether, TypeOK, Create, DeleteDrop, StatusFor
  <2>3. CASE UpdateCommit(h) \/ ClearReset(h)
    BY <2>1, <2>3 DEF RowsTogether, TypeOK, Exists, StatusFor, UpdateCommit, ClearReset
  <2>4. CASE ~(Create(h) \/ DeleteDrop(h) \/ UpdateCommit(h) \/ ClearReset(h))
    <3>1. UNCHANGED <<post, dest>>
      BY <1>1, <2>4 DEF Request, Enqueue, UpdateRead, UpdateSync,
       DeleteRead, DeleteUnqueue, ClearRead, HandlerCrash
    <3>. QED BY <2>1, <3>1 DEF RowsTogether
  <2>. QED BY <2>2, <2>3, <2>4
<1>2. ASSUME NEW r \in Removers, Removal(r) \/ RemoveCrash(r) PROVE RowsTogether'
  <2>1. post' = post /\ post # "ABSENT"
    BY <1>2 DEF RowsTogether, Removal, RemoveRead, RemoveCall, RemoveMark,
       RemoveReturn, RemoveCrash
  <2>2. ASSUME NEW d \in Dests
        PROVE  dest'[d] # "ABSENT" /\ (dest'[d] = "GONE" <=> post' = "GONE")
    <3>1. dest' = dest \/ RemoveMark(r)
      BY <1>2 DEF Removal, RemoveRead, RemoveCall, RemoveReturn, RemoveCrash
    <3>2. dest[d] # "ABSENT" /\ (dest[d] = "GONE" <=> post = "GONE")
      BY <2>1 DEF RowsTogether
    <3>3. RemoveMark(r) => dest' = dest \/ (dest[rcur[r]] # "GONE"
                             /\ dest' = [dest EXCEPT ![rcur[r]] = "FAILED"])
      BY DEF RemoveMark
    <3>. QED BY <2>1, <3>1, <3>2, <3>3 DEF TypeOK
  <2>. QED BY <2>1, <2>2 DEF RowsTogether
<1>3. ASSUME NEW w \in Workers, Work(w) PROVE RowsTogether'
  <2>1. post # "ABSENT"
    BY <1>3 DEF RowsTogether, Work, Process, Take, Load, Claim, ClaimRefused, Send,
       NoRoute, Rejected, AnswerLost, Persist, Save, Catch, ReadStatus, Count, Write, Finish,
       Throw, DbError, WorkerCrash, Accepted
  <2>2. post' = post \/ (post # "GONE" /\ post' \in Verdicts)
    BY <1>3 DEF TypeOK, Exists, Work, Process, Take, Load, Claim, ClaimRefused, Send,
       NoRoute, Rejected, AnswerLost, Persist, Save, Catch, ReadStatus, Count, Write, Finish,
       Throw, DbError, WorkerCrash
  <2>3. dest' = dest \/ Claim(w) \/ Save(w) \/ Catch(w)
    BY <1>3 DEF Work, Process, Take, Load, ClaimRefused, Send, NoRoute, Rejected,
       AnswerLost, Persist, ReadStatus, Count, Write, Finish, Throw, DbError, WorkerCrash
  <2>4. ASSUME NEW d \in Dests
        PROVE  dest'[d] # "ABSENT" /\ (dest'[d] = "GONE" <=> dest[d] = "GONE")
    <3>1. dest[d] # "ABSENT"
      BY <2>1 DEF RowsTogether
    <3>2. CASE Claim(w)
      BY <3>1, <3>2 DEF TypeOK, Claim, Claimable
    <3>3. CASE Save(w) \/ Catch(w)
      <4>1. dest' = dest \/ \E s \in {"SUCCESS", "FAILED"} :
                dest[cur[w]] # "GONE" /\ dest' = [dest EXCEPT ![cur[w]] = s]
        BY <3>3 DEF Save, Catch
      <4>. QED BY <3>1, <4>1 DEF TypeOK
    <3>. QED BY <2>3, <3>1, <3>2, <3>3
  <2>5. post' # "ABSENT" /\ (post' = "GONE" <=> post = "GONE")
    BY <2>1, <2>2 DEF Verdicts
  <2>6. \A d \in Dests : dest[d] = "GONE" <=> post = "GONE"
    BY DEF RowsTogether
  <2>. QED BY <2>4, <2>5, <2>6 DEF RowsTogether
<1>4. CASE DeleteFile \/ LockExpires \/ UNCHANGED vars
  BY <1>4 DEF RowsTogether, DeleteFile, LockExpires, vars, workerVars, removerVars, handlerVars
<1>. QED BY <1>1, <1>2, <1>3, <1>4 DEF Next, Work

(* A step that neither touches the destination nor lets anybody in keeps   *)
(* DestInv; leaving is allowed.                                            *)
LEMMA DestFrame ==
    ASSUME NEW d \in Dests, DestInv(d),
           dest'[d] = dest[d], copies'[d] = copies[d], orphans'[d] = orphans[d],
           removed[d] => removed'[d],
           \A v \in Workers : Holds(v, d)' =>
               Holds(v, d) /\ (sent'[v] = 0 => sent[v] = 0)
    PROVE  DestInv(d)'
BY DEF DestInv, HeldBusy, HeldOnce, Accounted

LEMMA DestStep ==
    ASSUME TypeOK, LocalsSound, RowsTogether, [Next]_vars, NEW d \in Dests, DestInv(d)
    PROVE  DestInv(d)'
<1>1. ASSUME NEW h \in Handlers, Request(h) \/ HandlerCrash(h) PROVE DestInv(d)'
  <2>. UNCHANGED <<wpc, cur, sent, copies, orphans, removed>>
    BY <1>1, RequestFrame DEF workerVars, history
  <2>1. CASE Create(h)
    <3>1. dest[d] = "ABSENT" /\ \A w \in Workers : ~Holds(w, d)
      BY <2>1 DEF Create, RowsTogether, Holds
    <3>2. dest'[d] = "SCHEDULED"
      BY <2>1 DEF Create
    <3>. QED BY <3>1, <3>2 DEF DestInv, HeldBusy, HeldOnce, Accounted, Holds
  <2>2. CASE DeleteDrop(h)
    <3>1. dest'[d] = "GONE"
      BY <2>2 DEF DeleteDrop
    <3>. QED BY <3>1 DEF DestInv, HeldBusy, HeldOnce, Accounted, Holds
  <2>3. CASE ~(Create(h) \/ DeleteDrop(h))
    <3>1. dest' = dest
      BY <1>1, <2>3 DEF Request, Enqueue, UpdateRead, UpdateCommit, UpdateSync,
         DeleteRead, DeleteUnqueue, ClearRead, ClearReset, HandlerCrash
    <3>. QED BY <3>1, DestFrame DEF Holds
  <2>. QED BY <2>1, <2>2, <2>3
<1>2. ASSUME NEW r \in Removers, Removal(r) \/ RemoveCrash(r) PROVE DestInv(d)'
  <2>. UNCHANGED <<wpc, cur, sent, copies, orphans>>
    BY <1>2, RemovalFrame DEF workerVars
  <2>1. removed[d] => removed'[d]
    BY <1>2 DEF TypeOK, Removal, RemoveRead, RemoveCall, RemoveMark, RemoveReturn,
       RemoveCrash, history
  <2>2. CASE removed'[d]
    BY <2>2 DEF DestInv
  <2>3. CASE ~removed'[d]
    <3>1. dest'[d] = dest[d]
      BY <1>2, <2>1, <2>3 DEF TypeOK, LocalsSound, Removal, RemoveRead, RemoveCall,
         RemoveMark, RemoveReturn, RemoveCrash
    <3>. QED BY <2>1, <3>1, DestFrame DEF Holds
  <2>. QED BY <2>2, <2>3
<1>3. ASSUME NEW w \in Workers, Work(w) PROVE DestInv(d)'
  <2>. removed' = removed
    BY <1>3, WorkFrame
  <2>. SUFFICES ASSUME ~removed[d] PROVE DestInv(d)'
    BY DEF DestInv
  <2>1. ASSUME NEW v \in Workers, v # w
        PROVE  wpc'[v] = wpc[v] /\ cur'[v] = cur[v] /\ sent'[v] = sent[v]
    BY <1>3, <2>1 DEF TypeOK, Work, Process, Take, Load, Claim, ClaimRefused, Send,
       NoRoute, Rejected, AnswerLost, Persist, Save, Catch, ReadStatus, Count, Write, Finish,
       Throw, DbError, WorkerCrash, Accepted, NextDest, Leave
  <2>2. ASSUME NEW v \in Workers, v # w
        PROVE  Holds(v, d)' <=> Holds(v, d)
    BY <2>1, <2>2 DEF Holds
  <2>3. CASE Claim(w)
    <3>1. PICK e \in todo[w] :
              /\ dest[e] \in Claimable
              /\ dest' = [dest EXCEPT ![e] = "PUBLISHING"]
              /\ cur' = [cur EXCEPT ![w] = e]
      BY <2>3 DEF Claim
    <3>2. e \in Dests
      BY DEF TypeOK
    <3>3. UNCHANGED <<sent, copies, orphans>>
      BY <2>3 DEF Claim, history
    <3>4. CASE e = d
      <4>1. \A v \in Workers : ~Holds(v, d)
        BY <3>1, <3>4 DEF DestInv, HeldBusy, Claimable
      <4>2. copies[d] <= orphans[d]
        BY <3>1, <3>4 DEF DestInv, Accounted, Claimable
      <4>3. dest'[d] = "PUBLISHING"
        BY <3>1, <3>4 DEF TypeOK
      <4>4. \A v \in Workers : Holds(v, d)' => v = w
        BY <2>2, <4>1
      <4>. QED BY <3>3, <4>2, <4>3, <4>4
               DEF DestInv, HeldBusy, HeldOnce, Accounted, TypeOK
    <3>5. CASE e # d
      <4>1. dest'[d] = dest[d]
        BY <3>1, <3>5 DEF TypeOK
      <4>2. ~Holds(w, d)'
        BY <3>1, <3>5 DEF Holds, TypeOK
      <4>. QED BY <2>2, <3>3, <4>1, <4>2, DestFrame
    <3>. QED BY <3>4, <3>5
  <2>4. CASE Send(w) \/ AnswerLost(w)
    <3>1. Accepted(w) /\ UNCHANGED <<dest, cur, orphans>>
      BY <2>4 DEF Send, AnswerLost
    <3>2. sent'[w] > 0 /\ wpc[w] = "send"
      BY <3>1 DEF Accepted, TypeOK
    <3>3. CASE cur[w] = d /\ sent[w] = 0
      <4>1. Holds(w, d)
        BY <3>2, <3>3 DEF Holds
      <4>2. copies[d] <= orphans[d] /\ copies'[d] = copies[d] + 1
        BY <3>1, <3>3, <4>1 DEF Accepted, DestInv, Accounted, TypeOK
      <4>3. \A v \in Workers : Holds(v, d)' => v = w
        BY <2>2, <4>1 DEF DestInv, HeldOnce
      <4>4. dest'[d] \in {"PUBLISHING", "GONE"}
        BY <3>1, <4>1 DEF DestInv, HeldBusy
      <4>. QED BY <3>1, <3>2, <4>2, <4>3, <4>4
               DEF DestInv, HeldBusy, HeldOnce, Accounted, TypeOK
    <3>4. CASE ~(cur[w] = d /\ sent[w] = 0)
      <4>1. copies'[d] = copies[d]
        BY <3>1, <3>4 DEF Accepted, TypeOK
      <4>2. Holds(w, d)' => Holds(w, d)
        BY <3>1, <3>2 DEF Holds
      <4>. QED BY <2>1, <2>2, <3>1, <3>2, <4>1, <4>2, DestFrame
    <3>. QED BY <3>3, <3>4
  <2>5. CASE Save(w) \/ Catch(w)
    <3>1. UNCHANGED copies /\ wpc[w] \in {"save", "catch"}
      BY <2>5 DEF Save, Catch, history
    <3>2. CASE cur[w] = d
      <4>1. Holds(w, d)
        BY <3>1, <3>2 DEF Holds
      <4>2. \A v \in Workers : v # w => ~Holds(v, d)'
        BY <2>2, <4>1 DEF DestInv, HeldOnce
      <4>3. CASE dest[d] = "GONE"
        <5>1. /\ UNCHANGED <<dest, orphans>>
              /\ Holds(w, d)' => sent' = sent
          BY <2>5, <3>2, <4>3 DEF Save, Catch, NextDest, Holds, TypeOK, history
        <5>2. Holds(w, d)' => sent'[w] = sent[w]
          BY <5>1
        <5>. QED BY <2>2, <3>1, <4>1, <4>2, <5>1, <5>2, DestFrame
      <4>4. CASE dest[d] # "GONE"
        <5>1. ~Holds(w, d)'
          BY <2>5, <3>2, <4>4 DEF Save, Catch, NextDest, Holds, TypeOK
        <5>2. CASE Save(w)
          <6>1. dest'[d] = "SUCCESS" /\ orphans' = orphans
            BY <5>2, <3>2, <4>4 DEF Save, TypeOK, history
          <6>. QED BY <3>1, <4>2, <5>1, <6>1 DEF DestInv, HeldBusy, HeldOnce, Accounted
        <5>3. CASE Catch(w)
          <6>1. copies[d] <= (IF sent[w] > 0 THEN orphans[d] + 1 ELSE orphans[d])
            BY <4>1 DEF DestInv, Accounted, TypeOK
          <6>2. /\ dest'[d] = "FAILED"
                /\ orphans'[d] = IF sent[w] > 0 THEN orphans[d] + 1 ELSE orphans[d]
            BY <5>3, <3>2, <4>4 DEF Catch, TypeOK
          <6>. QED BY <3>1, <4>2, <5>1, <6>1, <6>2
                   DEF DestInv, HeldBusy, HeldOnce, Accounted, TypeOK
        <5>. QED BY <2>5, <5>2, <5>3
      <4>. QED BY <4>3, <4>4
    <3>3. CASE cur[w] # d
      <4>1. dest'[d] = dest[d] /\ orphans'[d] = orphans[d]
        BY <2>5, <3>3 DEF Save, Catch, TypeOK, history
      <4>2. ~Holds(w, d)'
        BY <2>5, <3>3 DEF Save, Catch, NextDest, Holds, TypeOK
      <4>. QED BY <2>1, <2>2, <3>1, <4>1, <4>2, DestFrame
    <3>. QED BY <3>2, <3>3
  <2>6. CASE ~(Claim(w) \/ Send(w) \/ AnswerLost(w) \/ Save(w) \/ Catch(w))
    <3>1. UNCHANGED <<dest, copies, orphans>>
      BY <1>3, <2>6 DEF Work, Process, Take, Load, ClaimRefused, NoRoute, Rejected, Persist,
         ReadStatus, Count, Write, Finish, Throw, DbError, WorkerCrash, history
    <3>2. Holds(w, d)' => Holds(w, d) /\ sent'[w] = sent[w]
      BY <1>3, <2>6 DEF TypeOK, Holds, Work, Process, Take, Load, ClaimRefused,
         NoRoute, Rejected, Persist, ReadStatus, Count, Write, Finish, Throw, DbError,
         WorkerCrash, NextDest, Leave
    <3>. QED BY <2>1, <2>2, <3>1, <3>2, DestFrame
  <2>. QED BY <2>3, <2>4, <2>5, <2>6
<1>4. CASE DeleteFile \/ LockExpires \/ UNCHANGED vars
  <2>1. UNCHANGED <<dest, wpc, cur, sent, copies, orphans, removed>>
    BY <1>4 DEF DeleteFile, LockExpires, vars, workerVars, history
  <2>. QED BY <2>1, DestFrame DEF Holds
<1>. QED BY <1>1, <1>2, <1>3, <1>4 DEF Next, Work

LEMMA ClaimInit == Init => ClaimInv
<1>. SUFFICES ASSUME Init PROVE ClaimInv
  OBVIOUS
<1>1. LocalsSound /\ RowsTogether
  BY DEF Init, LocalsSound, RowsTogether, ClaimPoints, NoJob
<1>2. \A d \in Dests : DestInv(d)
  BY DEF Init, DestInv, HeldBusy, HeldOnce, Accounted, Holds
<1>. QED BY <1>1, <1>2, TypeInit DEF ClaimInv

LEMMA ClaimStep == ClaimInv /\ [Next]_vars => ClaimInv'
BY TypeStep, LocalsStep, RowsStep, DestStep DEF ClaimInv

LEMMA ClaimInvariant == Spec => []ClaimInv
BY ClaimInit, ClaimStep, PTL DEF Spec

(* One worker at a time publishes a destination, for any number of workers *)
(* and stalls.                                                             *)
THEOREM ClaimsExclusive == Spec => []ClaimExclusive
<1>1. ClaimInv => ClaimExclusive
  BY DEF ClaimInv, DestInv, HeldOnce, ClaimExclusive
<1>. QED BY <1>1, ClaimInvariant, PTL

(* No destination is published more often than its failures account for.   *)
THEOREM CopiesBounded == Spec => []CopiesAccounted
<1>1. ClaimInv => CopiesAccounted
  BY DEF ClaimInv, DestInv, Accounted, CopiesAccounted
<1>. QED BY <1>1, ClaimInvariant, PTL

-----------------------------------------------------------------------------
(* A destination that is up stays up until the post is deleted.            *)

LEMMA StrippedStays == [Next]_vars => (Stripped => Stripped')
<1>. SUFFICES ASSUME [Next]_vars PROVE Stripped => Stripped'
  OBVIOUS
<1>1. ASSUME NEW h \in Handlers, Request(h) \/ HandlerCrash(h) PROVE Stripped => Stripped'
  BY <1>1 DEF Stripped, Request, Create, Enqueue, UpdateRead, UpdateCommit, UpdateSync,
     DeleteRead, DeleteUnqueue, DeleteDrop, ClearRead, ClearReset, HandlerCrash
<1>. QED BY <1>1, RemovalFrame, WorkFrame
         DEF Next, Work, Stripped, DeleteFile, LockExpires, vars

LEMMA HistoryGrows ==
    ASSUME TypeOK, [Next]_vars, NEW d \in Dests
    PROVE  /\ copies[d] > 0 => copies'[d] > 0
           /\ removed[d] => removed'[d]
<1>1. ASSUME NEW h \in Handlers, Request(h) \/ HandlerCrash(h)
      PROVE  copies' = copies /\ removed' = removed
  BY <1>1, RequestFrame DEF history
<1>2. ASSUME NEW r \in Removers, Removal(r) \/ RemoveCrash(r)
      PROVE  copies' = copies /\ (removed[d] => removed'[d])
  BY <1>2 DEF TypeOK, Removal, RemoveRead, RemoveCall, RemoveMark, RemoveReturn,
     RemoveCrash, history
<1>3. ASSUME NEW w \in Workers, Work(w)
      PROVE  removed' = removed /\ (copies[d] > 0 => copies'[d] > 0)
  <2>1. removed' = removed
    BY <1>3, WorkFrame
  <2>2. copies' = copies \/ copies' = [copies EXCEPT ![cur[w]] = @ + 1]
    BY <1>3 DEF Work, Process, Take, Load, Claim, ClaimRefused, Send, NoRoute, Rejected,
       AnswerLost, Persist, Save, Catch, ReadStatus, Count, Write, Finish, Throw,
       DbError, WorkerCrash, Accepted, history
  <2>3. copies[d] \in Nat /\ copies \in [Dests -> Nat]
    BY DEF TypeOK
  <2>. QED BY <2>1, <2>2, <2>3
<1>4. CASE DeleteFile \/ LockExpires \/ UNCHANGED vars
  BY <1>4 DEF DeleteFile, LockExpires, vars, history
<1>. QED BY <1>1, <1>2, <1>3, <1>4 DEF Next, Work

(* SuccessFinal, for one destination and one step. *)
LEMMA SuccessStays ==
    ASSUME ClaimInv, [Next]_vars, NEW d \in Dests, dest[d] = "SUCCESS", ~removed[d]
    PROVE  dest'[d] = "SUCCESS" \/ (dest'[d] = "GONE" /\ post' = "GONE")
<1>. TypeOK /\ LocalsSound /\ RowsTogether /\ HeldBusy(d)
  BY DEF ClaimInv, DestInv
<1>1. ASSUME NEW h \in Handlers, Request(h) \/ HandlerCrash(h)
      PROVE  dest'[d] = "SUCCESS" \/ (dest'[d] = "GONE" /\ post' = "GONE")
  <2>1. ~Create(h)
    BY DEF Create, RowsTogether
  <2>. QED BY <1>1, <2>1 DEF Request, Enqueue, UpdateRead, UpdateCommit, UpdateSync,
           DeleteRead, DeleteUnqueue, DeleteDrop, ClearRead, ClearReset, HandlerCrash
<1>2. ASSUME NEW r \in Removers, Removal(r) \/ RemoveCrash(r) PROVE dest'[d] = dest[d]
  BY <1>2 DEF TypeOK, LocalsSound, Removal, RemoveRead, RemoveCall, RemoveMark,
     RemoveReturn, RemoveCrash
<1>3. ASSUME NEW w \in Workers, Work(w) PROVE dest'[d] = dest[d]
  <2>1. ~Holds(w, d)
    BY DEF HeldBusy
  <2>2. CASE Claim(w)
    BY <2>2 DEF Claim, Claimable, TypeOK
  <2>3. CASE Save(w) \/ Catch(w)
    BY <2>1, <2>3 DEF Save, Catch, Holds, TypeOK
  <2>4. CASE ~(Claim(w) \/ Save(w) \/ Catch(w))
    BY <1>3, <2>4 DEF Work, Process, Take, Load, ClaimRefused, Send, NoRoute, Rejected,
       AnswerLost, Persist, ReadStatus, Count, Write, Finish, Throw, DbError,
       WorkerCrash
  <2>. QED BY <2>2, <2>3, <2>4
<1>4. CASE DeleteFile \/ LockExpires \/ UNCHANGED vars
  BY <1>4 DEF DeleteFile, LockExpires, vars
<1>. QED BY <1>1, <1>2, <1>3, <1>4 DEF Next, Work

LEMMA UpStays ==
    ASSUME ClaimInv, [Next]_vars, NEW d \in Dests, Up(d), post' # "GONE"
    PROVE  Up(d)'
<1>. TypeOK
  BY DEF ClaimInv
<1>. QED BY HistoryGrows, StrippedStays, SuccessStays DEF Up, Shown

LEMMA SendsStep == ClaimInv /\ SendsSound /\ [Next]_vars => SendsSound'
<1>. SUFFICES ASSUME ClaimInv, SendsSound, [Next]_vars PROVE SendsSound'
  OBVIOUS
<1>. TypeOK /\ LocalsSound
  BY DEF ClaimInv
<1>1. ASSUME NEW w \in Workers, Work(w) PROVE SendsSound'
  <2>1. ASSUME NEW v \in Workers, v # w
        PROVE  wpc'[v] = wpc[v] /\ cur'[v] = cur[v] /\ sent'[v] = sent[v]
    BY <1>1, <2>1 DEF TypeOK, Work, Process, Take, Load, Claim, ClaimRefused, Send, NoRoute, Rejected,
       AnswerLost, Persist, Save, Catch, ReadStatus, Count, Write, Finish, Throw,
       DbError, WorkerCrash, Accepted, NextDest, Leave
  <2>2. ASSUME NEW v \in Workers, v # w, wpc[v] \in ClaimPoints, sent[v] > 0
        PROVE  copies'[cur[v]] > 0
    BY <2>2, HistoryGrows DEF SendsSound, LocalsSound
  <2>3. wpc'[w] \notin ClaimPoints => sent'[w] = 0
    BY <1>1 DEF SendsSound, ClaimPoints, TypeOK, Work, Process, Take, Load, Claim, ClaimRefused, Send, NoRoute, Rejected,
       AnswerLost, Persist, Save, Catch, ReadStatus, Count, Write, Finish, Throw,
       DbError, WorkerCrash, Accepted, NextDest, Leave
  <2>4. /\ wpc'[w] = "persist" => sent'[w] > 0
        /\ wpc'[w] = "save" /\ sent'[w] = 0 => cur'[w] \in Instagram /\ Stripped
    BY <1>1 DEF SendsSound, HasRoute, ClaimPoints, TypeOK, Work, Process, Take, Load, Claim, ClaimRefused, Send, NoRoute, Rejected,
       AnswerLost, Persist, Save, Catch, ReadStatus, Count, Write, Finish, Throw,
       DbError, WorkerCrash, Accepted, NextDest, Leave
  <2>6. ASSUME NEW v \in Workers, ~routed'[v] PROVE Stripped
    BY <1>1, <2>6 DEF SendsSound, Stripped, TypeOK, Work, Process, Take, Load, Claim, ClaimRefused, Send, NoRoute, Rejected,
       AnswerLost, Persist, Save, Catch, ReadStatus, Count, Write, Finish, Throw,
       DbError, WorkerCrash, Accepted, NextDest, Leave
  <2>7. Stripped' <=> Stripped
    BY <1>1, WorkFrame DEF Stripped
  <2>5. wpc'[w] \in ClaimPoints /\ sent'[w] > 0 => copies'[cur'[w]] > 0
    <3>1. CASE Send(w) \/ AnswerLost(w)
      <4>1. /\ cur' = cur /\ cur[w] \in Dests
            /\ copies' = IF sent[w] = 0 THEN [copies EXCEPT ![cur[w]] = @ + 1]
                         ELSE copies
        BY <3>1 DEF Send, AnswerLost, Accepted, LocalsSound, ClaimPoints
      <4>2. sent[w] # 0 => copies[cur[w]] > 0
        BY <3>1 DEF Send, AnswerLost, Accepted, SendsSound, ClaimPoints, TypeOK
      <4>. QED BY <4>1, <4>2 DEF TypeOK
    <3>2. CASE ~(Send(w) \/ AnswerLost(w))
      <4>1. wpc'[w] \in ClaimPoints /\ sent'[w] > 0 =>
                wpc[w] \in ClaimPoints /\ sent[w] > 0 /\ cur'[w] = cur[w]
        BY <1>1, <3>2 DEF SendsSound, ClaimPoints, TypeOK, Work, Process, Take, Load,
           Claim, ClaimRefused, NoRoute, Rejected, Persist, Save, Catch, ReadStatus, Count,
           Write, Finish, Throw, DbError, WorkerCrash, NextDest, Leave
      <4>2. copies' = copies
        BY <1>1, <3>2 DEF Work, Process, Take, Load, Claim, ClaimRefused, NoRoute, Rejected,
           Persist, Save, Catch, ReadStatus, Count, Write, Finish, Throw, DbError,
           WorkerCrash, history
      <4>. QED BY <4>1, <4>2 DEF SendsSound
    <3>. QED BY <3>1, <3>2
  <2>. QED BY <2>1, <2>2, <2>3, <2>4, <2>5, <2>6, <2>7 DEF SendsSound
<1>2. CASE UNCHANGED <<wpc, cur, sent, routed, copies>> /\ (Stripped => Stripped')
  BY <1>2 DEF SendsSound
<1>3. Stripped => Stripped'
  BY StrippedStays
<1>. QED
  BY <1>1, <1>2, <1>3, RequestFrame, RemovalFrame
     DEF Next, Work, DeleteFile, LockExpires, vars, workerVars, history

LEMMA CopiesStep ==
    ClaimInv /\ SendsSound /\ CopiesSound /\ [Next]_vars => CopiesSound'
<1>. SUFFICES ASSUME ClaimInv, SendsSound, CopiesSound, [Next]_vars PROVE CopiesSound'
  OBVIOUS
<1>. TypeOK /\ LocalsSound /\ RowsTogether
  BY DEF ClaimInv
<1>1. ASSUME NEW d \in Dests, dest'[d] = "SUCCESS", dest[d] # "SUCCESS"
      PROVE  Shown(d)
  <2>1. PICK w \in Workers : Save(w) /\ dest' = [dest EXCEPT ![cur[w]] = "SUCCESS"]
    <3>1. ASSUME NEW h \in Handlers, Request(h) \/ HandlerCrash(h) PROVE FALSE
      BY <1>1, <3>1 DEF Request, Create, Enqueue, UpdateRead, UpdateCommit, UpdateSync,
         DeleteRead, DeleteUnqueue, DeleteDrop, ClearRead, ClearReset, HandlerCrash
    <3>2. ASSUME NEW r \in Removers, Removal(r) \/ RemoveCrash(r) PROVE FALSE
      BY <1>1, <3>2 DEF TypeOK, Removal, RemoveRead, RemoveCall, RemoveMark,
         RemoveReturn, RemoveCrash
    <3>3. ASSUME NEW w \in Workers, Work(w), ~Save(w) PROVE FALSE
      BY <1>1, <3>3 DEF TypeOK, Work, Process, Take, Load, Claim, ClaimRefused, Send,
         NoRoute, Rejected, AnswerLost, Persist, Catch, ReadStatus, Count, Write, Finish,
         Throw, DbError, WorkerCrash
    <3>4. ~(DeleteFile \/ LockExpires \/ UNCHANGED vars)
      BY <1>1 DEF DeleteFile, LockExpires, vars
    <3>. QED BY <1>1, <3>1, <3>2, <3>3, <3>4 DEF Next, Work, Save
  <2>2. cur[w] = d /\ wpc[w] = "save"
    BY <1>1, <2>1 DEF Save, TypeOK
  <2>. QED BY <2>2 DEF SendsSound, ClaimPoints, Shown, TypeOK
<1>2. ASSUME NEW d \in Dests, removed'[d], ~removed[d]
      PROVE  Shown(d)
  <2>1. PICK r \in Removers : RemoveCall(r)
    BY <1>2, RequestFrame, WorkFrame
       DEF Next, Work, Removal, RemoveRead, RemoveMark, RemoveReturn, RemoveCrash,
           DeleteFile, LockExpires, vars, history
  <2>2. \E d0 \in rtodo[r] : d0 = d
    BY <1>2, <2>1 DEF RemoveCall, TypeOK
  <2>. QED BY <2>2 DEF CopiesSound
<1>3. ASSUME NEW r \in Removers, NEW d \in rtodo'[r]
      PROVE  d \in rtodo[r] \/ (d \in Dests /\ dest[d] = "SUCCESS")
  <2>1. ASSUME NEW q \in Removers, Removal(q) \/ RemoveCrash(q)
        PROVE  d \in rtodo[r] \/ (d \in Facebook /\ dest[d] = "SUCCESS")
    BY <2>1 DEF TypeOK, Removal, RemoveRead, RemoveCall, RemoveMark, RemoveReturn,
       RemoveCrash
  <2>2. CASE rtodo' = rtodo
    BY <2>2
  <2>. QED BY <2>1, <2>2, RequestFrame, WorkFrame, PublishingAssumption
           DEF Next, Work, DeleteFile, LockExpires, vars, removerVars, PublishingAssumption
<1>6. ASSUME NEW d \in Dests, Shown(d) PROVE Shown(d)'
  BY <1>6, HistoryGrows, StrippedStays DEF Shown
<1>4. ASSUME NEW d \in Dests, dest'[d] = "SUCCESS" \/ removed'[d] PROVE Shown(d)'
  <2>1. Shown(d)
    BY <1>1, <1>2, <1>4 DEF CopiesSound
  <2>. QED BY <2>1, <1>6
<1>5. ASSUME NEW r \in Removers, NEW d \in rtodo'[r] PROVE Shown(d)'
  <2>1. Shown(d) /\ d \in Dests
    BY <1>3 DEF CopiesSound, TypeOK
  <2>. QED BY <2>1, <1>6
<1>. QED BY <1>4, <1>5 DEF CopiesSound

LEMMA VerdictMeans ==
    ASSUME TypeOK, RowsTogether, post \notin {"ABSENT", "GONE"},
           Verdict(dest) = "PUBLISHED", NEW d \in Dests
    PROVE  dest[d] = "SUCCESS"
<1>1. dest[d] \in {dest[e] : e \in Dests}
  OBVIOUS
<1>2. dest[d] \notin {"SCHEDULED", "PUBLISHING", "FAILED"}
  BY <1>1 DEF Verdict
<1>3. dest[d] \notin {"ABSENT", "GONE"}
  BY DEF RowsTogether
<1>. QED BY <1>2, <1>3 DEF TypeOK, DestStatus

LEMMA VerdictStep == PublishedInv /\ [Next]_vars => VerdictSound'
<1>. SUFFICES ASSUME PublishedInv, [Next]_vars PROVE VerdictSound'
  OBVIOUS
<1>. ClaimInv /\ TypeOK /\ RowsTogether /\ CopiesSound /\ VerdictSound
  BY DEF PublishedInv, ClaimInv
<1>1. ASSUME NEW w \in Workers, wpc'[w] = "write", verdict'[w] = "PUBLISHED",
             post' \notin {"ABSENT", "GONE"}, NEW d \in Dests
      PROVE  Up(d)'
  <2>1. CASE wpc[w] = "write" /\ verdict[w] = "PUBLISHED" /\ post \notin {"ABSENT", "GONE"}
    BY <1>1, <2>1, UpStays DEF VerdictSound
  <2>2. CASE Count(w)
    <3>1. Verdict(dest) = "PUBLISHED"
      BY <1>1, <2>2 DEF Count, TypeOK
    <3>2. post' = post
      BY <2>2 DEF Count
    <3>3. dest[d] = "SUCCESS" /\ Shown(d)
      BY <1>1, <3>1, <3>2, VerdictMeans DEF CopiesSound
    <3>. QED BY <1>1, <3>3, UpStays DEF Up
  <2>3. post \notin {"ABSENT", "GONE"}
    <3>1. ASSUME NEW h \in Handlers, Request(h) \/ HandlerCrash(h) PROVE post # "GONE"
      BY <1>1, <3>1 DEF Exists, Request, Create, Enqueue, UpdateRead, UpdateCommit,
         UpdateSync, DeleteRead, DeleteUnqueue, DeleteDrop, ClearRead, ClearReset,
         HandlerCrash
    <3>2. ASSUME NEW v \in Workers, Work(v) PROVE post # "GONE"
      BY <1>1, <3>2 DEF Exists, Work, Process, Take, Load, Claim, ClaimRefused, Send,
         NoRoute, Rejected, AnswerLost, Persist, Save, Catch, ReadStatus, Count, Write, Finish,
         Throw, DbError, WorkerCrash
    <3>3. post # "GONE"
      BY <1>1, <3>1, <3>2, RemovalFrame DEF Next, Work, DeleteFile, LockExpires, vars
    <3>4. post # "ABSENT"
      <4>1. wpc[w] \notin {"idle", "load"}
        BY <1>1 DEF TypeOK, Next, Request, Removal, RemoveRead, RemoveCall, RemoveMark,
           RemoveReturn, RemoveCrash, Create, Enqueue, UpdateRead, UpdateCommit,
           UpdateSync, DeleteRead, DeleteUnqueue, DeleteDrop, ClearRead, ClearReset,
           HandlerCrash, DeleteFile, LockExpires, vars, workerVars, Process, Take, Load, Claim,
           ClaimRefused, Send, NoRoute, Rejected, AnswerLost, Persist, Save, Catch, ReadStatus,
           Count, Write, Finish, Throw, DbError, WorkerCrash, NextDest, Leave
      <4>. QED BY <4>1 DEF RowsTogether
    <3>. QED BY <3>3, <3>4
  <2>4. Count(w) \/ (wpc[w] = "write" /\ verdict[w] = "PUBLISHED")
    <3>1. ASSUME NEW v \in Workers, Work(v)
          PROVE  Count(w) \/ (wpc[w] = "write" /\ verdict[w] = "PUBLISHED")
      BY <1>1, <3>1 DEF TypeOK, Work, Process, Take, Load, Claim, ClaimRefused, Send,
         NoRoute, Rejected, AnswerLost, Persist, Save, Catch, ReadStatus, Count, Write, Finish,
         Throw, DbError, WorkerCrash, NextDest, Leave
    <3>. QED BY <1>1, <3>1, RequestFrame, RemovalFrame
             DEF Next, Work, DeleteFile, LockExpires, vars, workerVars
  <2>. QED BY <2>1, <2>2, <2>3, <2>4
<1>2. ASSUME post' = "PUBLISHED", NEW d \in Dests PROVE Up(d)'
  <2>1. CASE post = "PUBLISHED"
    BY <1>2, <2>1, UpStays DEF VerdictSound
  <2>2. CASE post # "PUBLISHED"
    <3>1. PICK w \in Workers : Write(w)
      <4>1. ASSUME NEW h \in Handlers, Request(h) \/ HandlerCrash(h) PROVE FALSE
        BY <1>2, <2>2, <4>1 DEF StatusFor, Request, Create, Enqueue, UpdateRead,
           UpdateCommit, UpdateSync, DeleteRead, DeleteUnqueue, DeleteDrop, ClearRead,
           ClearReset, HandlerCrash
      <4>2. ASSUME NEW w \in Workers, Work(w), ~Write(w) PROVE FALSE
        BY <1>2, <2>2, <4>2 DEF Work, Process, Take, Load, Claim, ClaimRefused, Send,
           NoRoute, Rejected, AnswerLost, Persist, Save, Catch, ReadStatus, Count, Finish,
           Throw, DbError, WorkerCrash
      <4>. QED BY <1>2, <2>2, <4>1, <4>2, RemovalFrame DEF Next, Work, DeleteFile, LockExpires, vars
    <3>2. post \notin {"ABSENT", "GONE"} /\ wpc[w] = "write" /\ verdict[w] = "PUBLISHED"
      BY <1>2, <2>2, <3>1 DEF Write, Exists
    <3>3. Up(d)
      BY <3>2 DEF VerdictSound
    <3>. QED BY <1>2, <3>3, UpStays
  <2>. QED BY <2>1, <2>2
<1>. QED BY <1>1, <1>2 DEF VerdictSound

LEMMA PublishedInit == Init => PublishedInv
<1>. SUFFICES ASSUME Init PROVE PublishedInv
  OBVIOUS
<1>1. SendsSound /\ CopiesSound /\ VerdictSound
  BY DEF Init, SendsSound, CopiesSound, VerdictSound, ClaimPoints, Shown
<1>. QED BY <1>1, ClaimInit DEF PublishedInv

LEMMA PublishedStep == PublishedInv /\ [Next]_vars => PublishedInv'
BY ClaimStep, SendsStep, CopiesStep, VerdictStep DEF PublishedInv

(* A post is called PUBLISHED only when each destination is up, however    *)
(* stale the count it was concluded from.                                  *)
THEOREM PublishedIsTrue == Spec => []PublishedTruthful
<1>1. PublishedInv => PublishedTruthful
  BY DEF PublishedInv, VerdictSound, Up, Shown, PublishedTruthful
<1>. QED BY <1>1, PublishedInit, PublishedStep, PTL DEF Spec

(* Nothing but a deletion undoes a success. *)
THEOREM SuccessIsFinal == Spec => SuccessFinal
<1>1. ClaimInv /\ [Next]_vars =>
          [\A d \in Dests : dest[d] = "SUCCESS" =>
              dest'[d] \in {"SUCCESS", "GONE"} \/ removed[d]]_vars
  BY SuccessStays
<1>. QED BY <1>1, ClaimInvariant, PTL DEF Spec, SuccessFinal

-----------------------------------------------------------------------------
(* Publishing implements Delivery, with at most one remote-deletion        *)
(* request: two of them would both have the content deleted, and the later *)
(* one records its FAILED over whatever came of the first.                 *)

OneRemover == \A q, r \in Removers : q = r

(* What the request still has to delete, or to record, is still up.        *)
RemovalsSound ==
    \A r \in Removers :
        /\ \A d \in rtodo[r] : dest[d] \in {"SUCCESS", "GONE"}
        /\ rpc[r] = "mark" => /\ dest[rcur[r]] \in {"SUCCESS", "GONE"}
                              /\ rcur[r] \notin rtodo[r]

(* so that the claim needs no exception any more                           *)
Exclusive(d) == HeldBusy(d) /\ HeldOnce(d)

ContractInv ==
    /\ ClaimInv /\ SendsSound
    /\ RemovalsSound
    /\ \A d \in Dests : Exclusive(d)

(* What is up changes by its removal, or by the deletion of the post.      *)
LEMMA UpChanges ==
    ASSUME ContractInv, [Next]_vars, NEW d \in Dests, dest[d] \in {"SUCCESS", "GONE"}
    PROVE  \/ dest'[d] \in {"SUCCESS", "GONE"}
           \/ \E r \in Removers : RemoveMark(r) /\ rcur[r] = d
<1>. TypeOK /\ LocalsSound /\ RowsTogether /\ HeldBusy(d)
  BY DEF ContractInv, ClaimInv, Exclusive
<1>1. ASSUME NEW h \in Handlers, Request(h) \/ HandlerCrash(h)
      PROVE  dest'[d] \in {"SUCCESS", "GONE"}
  <2>1. ~Create(h)
    BY DEF Create, RowsTogether
  <2>. QED BY <1>1, <2>1 DEF Request, Enqueue, UpdateRead, UpdateCommit, UpdateSync,
           DeleteRead, DeleteUnqueue, DeleteDrop, ClearRead, ClearReset, HandlerCrash
<1>2. ASSUME NEW r \in Removers, Removal(r) \/ RemoveCrash(r), ~(RemoveMark(r) /\ rcur[r] = d)
      PROVE  dest'[d] = dest[d]
  BY <1>2 DEF TypeOK, LocalsSound, Removal, RemoveRead, RemoveCall, RemoveMark,
     RemoveReturn, RemoveCrash
<1>3. ASSUME NEW w \in Workers, Work(w) PROVE dest'[d] \in {"SUCCESS", "GONE"}
  <2>1. CASE Claim(w)
    BY <2>1 DEF Claim, Claimable, TypeOK
  <2>2. CASE Save(w)
    BY <2>2 DEF Save, TypeOK
  <2>3. CASE Catch(w)
    <3>1. cur[w] # d \/ dest[d] = "GONE"
      BY <2>3 DEF Catch, HeldBusy, Holds
    <3>. QED BY <2>3, <3>1 DEF Catch, TypeOK
  <2>4. CASE ~(Claim(w) \/ Save(w) \/ Catch(w))
    BY <1>3, <2>4 DEF Work, Process, Take, Load, ClaimRefused, Send, NoRoute, Rejected,
       AnswerLost, Persist, ReadStatus, Count, Write, Finish, Throw, DbError,
       WorkerCrash
  <2>. QED BY <2>1, <2>2, <2>3, <2>4
<1>4. CASE DeleteFile \/ LockExpires \/ UNCHANGED vars
  BY <1>4 DEF DeleteFile, LockExpires, vars
<1>. QED BY <1>1, <1>2, <1>3, <1>4 DEF Next, Work

LEMMA RemovalsStep == ASSUME OneRemover, ContractInv, [Next]_vars PROVE RemovalsSound'
<1>. TypeOK /\ LocalsSound /\ RemovalsSound
  BY DEF ContractInv, ClaimInv
<1>1. ASSUME NEW r \in Removers, Removal(r) \/ RemoveCrash(r) PROVE RemovalsSound'
  <2>1. \A q \in Removers : q = r
    BY DEF OneRemover
  <2>2. CASE RemoveRead(r)
    BY <2>1, <2>2 DEF RemoveRead, RemovalsSound, TypeOK
  <2>3. CASE RemoveCall(r)
    <3>1. PICK d \in rtodo[r] :
            /\ rtodo' = [rtodo EXCEPT ![r] = @ \ {d}]
            /\ \/ rpc' = [rpc EXCEPT ![r] = "mark"] /\ rcur' = [rcur EXCEPT ![r] = d]
               \/ UNCHANGED <<rpc, rcur>>
      BY <2>3 DEF RemoveCall
    <3>2. dest' = dest /\ rpc[r] = "loop"
      BY <2>3 DEF RemoveCall
    <3>. QED BY <2>1, <3>1, <3>2 DEF RemovalsSound, TypeOK
  <2>4. CASE RemoveMark(r)
    <3>1. /\ rpc' = [rpc EXCEPT ![r] = "loop"] /\ rtodo' = rtodo
          /\ rcur[r] \notin rtodo[r]
          /\ \A d \in Dests : d # rcur[r] => dest'[d] = dest[d]
      BY <2>4 DEF RemoveMark, RemovalsSound, LocalsSound, TypeOK
    <3>. QED BY <2>1, <3>1 DEF RemovalsSound, TypeOK
  <2>5. CASE RemoveReturn(r) \/ RemoveCrash(r)
    BY <2>1, <2>5 DEF RemoveReturn, RemoveCrash, RemovalsSound, TypeOK
  <2>. QED BY <1>1, <2>2, <2>3, <2>4, <2>5 DEF Removal
<1>2. CASE UNCHANGED removerVars /\ \A r \in Removers : ~RemoveMark(r)
  BY <1>2, UpChanges DEF RemovalsSound, LocalsSound, TypeOK, removerVars
<1>3. \A r \in Removers : RemoveMark(r) => Removal(r)
  BY DEF Removal
<1>. QED BY <1>1, <1>2, <1>3, RequestFrame, WorkFrame DEF Next, Work, DeleteFile, LockExpires, vars

LEMMA ExclusiveStep ==
    ASSUME OneRemover, ContractInv, [Next]_vars, NEW d \in Dests
    PROVE  Exclusive(d)'
<1>. TypeOK /\ LocalsSound /\ RowsTogether /\ RemovalsSound /\ HeldBusy(d) /\ HeldOnce(d)
  BY DEF ContractInv, ClaimInv, Exclusive
<1>1. CASE /\ dest'[d] = dest[d] \/ dest'[d] = "GONE" \/ \A w \in Workers : ~Holds(w, d)
           /\ \A w \in Workers : Holds(w, d)' => Holds(w, d)
  BY <1>1 DEF Exclusive, HeldBusy, HeldOnce
<1>2. ASSUME NEW h \in Handlers, Request(h) \/ HandlerCrash(h) PROVE Exclusive(d)'
  <2>1. \A w \in Workers : Holds(w, d)' => Holds(w, d)
    BY <1>2, RequestFrame DEF workerVars, Holds
  <2>2. CASE Create(h)
    BY <1>1, <2>1, <2>2 DEF Create, RowsTogether, Holds
  <2>3. CASE ~Create(h)
    <3>1. dest'[d] = dest[d] \/ dest'[d] = "GONE"
      BY <1>2, <2>3 DEF Request, Enqueue, UpdateRead, UpdateCommit, UpdateSync,
         DeleteRead, DeleteUnqueue, DeleteDrop, ClearRead, ClearReset, HandlerCrash
    <3>. QED BY <1>1, <2>1, <3>1
  <2>. QED BY <2>2, <2>3
<1>3. ASSUME NEW r \in Removers, Removal(r) \/ RemoveCrash(r) PROVE Exclusive(d)'
  <2>1. \A w \in Workers : Holds(w, d)' => Holds(w, d)
    BY <1>3, RemovalFrame DEF workerVars, Holds
  <2>2. dest'[d] = dest[d] \/ (RemoveMark(r) /\ rcur[r] = d)
    BY <1>3 DEF TypeOK, Removal, RemoveRead, RemoveCall, RemoveMark, RemoveReturn,
       RemoveCrash
  <2>3. RemoveMark(r) /\ rcur[r] = d =>
            dest'[d] = dest[d] \/ \A w \in Workers : ~Holds(w, d)
    BY DEF RemoveMark, RemovalsSound, HeldBusy, TypeOK
  <2>. QED BY <1>1, <2>1, <2>2, <2>3
<1>4. ASSUME NEW w \in Workers, Work(w) PROVE Exclusive(d)'
  <2>1. ASSUME NEW v \in Workers, v # w
        PROVE  Holds(v, d)' <=> Holds(v, d)
    BY <1>4, <2>1 DEF TypeOK, Holds, Work, Process, Take, Load, Claim, ClaimRefused, Send,
       NoRoute, Rejected, AnswerLost, Persist, Save, Catch, ReadStatus, Count, Write, Finish,
       Throw, DbError, WorkerCrash, Accepted, NextDest, Leave
  <2>2. CASE Claim(w)
    <3>1. PICK e \in todo[w] :
              /\ dest[e] \in Claimable
              /\ dest' = [dest EXCEPT ![e] = "PUBLISHING"]
              /\ cur' = [cur EXCEPT ![w] = e]
      BY <2>2 DEF Claim
    <3>2. CASE e = d
      <4>1. \A v \in Workers : ~Holds(v, d)
        BY <3>1, <3>2 DEF HeldBusy, Claimable
      <4>2. dest'[d] = "PUBLISHING"
        BY <3>1, <3>2 DEF TypeOK
      <4>. QED BY <2>1, <4>1, <4>2 DEF Exclusive, HeldBusy, HeldOnce
    <3>3. CASE e # d
      <4>1. dest'[d] = dest[d] /\ ~Holds(w, d)'
        BY <3>1, <3>3 DEF Holds, TypeOK
      <4>. QED BY <1>1, <2>1, <4>1
    <3>. QED BY <3>2, <3>3
  <2>3. CASE ~Claim(w)
    <3>1. Holds(w, d)' => Holds(w, d)
      BY <1>4, <2>3 DEF TypeOK, Holds, Work, Process, Take, Load, ClaimRefused, Send,
         NoRoute, Rejected, AnswerLost, Persist, Save, Catch, ReadStatus, Count, Write, Finish,
         Throw, DbError, WorkerCrash, Accepted, NextDest, Leave
    <3>2. CASE dest'[d] = dest[d]
      BY <1>1, <2>1, <3>1, <3>2
    <3>3. CASE dest'[d] # dest[d]
      <4>1. Save(w) \/ Catch(w)
        BY <1>4, <2>3, <3>3 DEF Work, Process, Take, Load, ClaimRefused, Send, NoRoute, Rejected,
           AnswerLost, Persist, ReadStatus, Count, Write, Finish, Throw, DbError,
           WorkerCrash
      <4>2. Holds(w, d) /\ ~Holds(w, d)'
        BY <3>3, <4>1 DEF Save, Catch, NextDest, Holds, TypeOK
      <4>3. \A v \in Workers : ~Holds(v, d)'
        BY <2>1, <4>2 DEF HeldOnce
      <4>. QED BY <4>3 DEF Exclusive, HeldBusy, HeldOnce
    <3>. QED BY <3>2, <3>3
  <2>. QED BY <2>2, <2>3
<1>5. CASE DeleteFile \/ LockExpires \/ UNCHANGED vars
  <2>1. UNCHANGED <<dest, wpc, cur>>
    BY <1>5 DEF DeleteFile, LockExpires, vars, workerVars
  <2>. QED BY <1>1, <2>1 DEF Holds
<1>. QED BY <1>2, <1>3, <1>4, <1>5 DEF Next, Work

LEMMA ContractStart == Init => ContractInv
<1>. SUFFICES ASSUME Init PROVE ContractInv
  OBVIOUS
<1>1. RemovalsSound /\ \A d \in Dests : Exclusive(d)
  BY DEF Init, RemovalsSound, Exclusive, HeldBusy, HeldOnce, Holds
<1>. QED BY <1>1, PublishedInit DEF PublishedInv, ContractInv

LEMMA ContractStep == ASSUME OneRemover, ContractInv, [Next]_vars PROVE ContractInv'
BY ClaimStep, SendsStep, RemovalsStep, ExclusiveStep DEF ContractInv

(* A post has gone up in the attempt under way. *)
Fresh(d) == dest[d] = "PUBLISHING" /\ \E w \in Workers : Holds(w, d) /\ sent[w] > 0

(* What the mapping shows of d.                                            *)
LEMMA PhaseIs ==
    ASSUME TypeOK, NEW d \in Dests
    PROVE  /\ dest[d] = "ABSENT" => PhaseOf(d) = "none"
           /\ dest[d] = "SCHEDULED" => PhaseOf(d) = "waiting"
           /\ dest[d] = "SUCCESS" => PhaseOf(d) = "delivered"
           /\ dest[d] = "FAILED" => PhaseOf(d) = "failed"
           /\ dest[d] = "GONE" => PhaseOf(d) = "gone"
           /\ dest[d] = "PUBLISHING" =>
                 PhaseOf(d) = IF \E w \in Workers : Holds(w, d) THEN "sending" ELSE "abandoned"
BY DEF PhaseOf, TypeOK, DestStatus

(* Who does not touch d shows nothing of it. *)
SameView(d) ==
    /\ dest'[d] = dest[d]
    /\ dest[d] = "PUBLISHING" => \A w \in Workers :
          /\ Holds(w, d)' <=> Holds(w, d)
          /\ Holds(w, d) => (sent'[w] > 0 <=> sent[w] > 0)

LEMMA ViewStays ==
    ASSUME TypeOK, TypeOK', NEW d \in Dests, SameView(d)
    PROVE  PhaseOf(d)' = PhaseOf(d) /\ Fresh(d)' = Fresh(d)
<1>1. CASE dest[d] # "PUBLISHING"
  <2>1. dest'[d] = dest[d]
    BY DEF SameView
  <2>2. PhaseOf(d)' = PhaseOf(d)
    BY <1>1, <2>1, PhaseIs DEF TypeOK, DestStatus, PhaseOf
  <2>. QED BY <1>1, <2>1, <2>2 DEF Fresh
<1>2. CASE dest[d] = "PUBLISHING"
  <2>1. dest'[d] = dest[d] /\ \A w \in Workers :
          /\ Holds(w, d)' <=> Holds(w, d)
          /\ Holds(w, d) => (sent'[w] > 0 <=> sent[w] > 0)
    BY <1>2 DEF SameView
  <2>2. (\E w \in Workers : Holds(w, d))' <=> \E w \in Workers : Holds(w, d)
    BY <2>1
  <2>3. PhaseOf(d)' = PhaseOf(d)
    <3>1. CASE \E w \in Workers : Holds(w, d)
      <4>1. PhaseOf(d) = "sending"
        BY <1>2, <3>1, PhaseIs
      <4>2. PhaseOf(d)' = "sending"
        BY <1>2, <2>1, <2>2, <3>1 DEF PhaseOf
      <4>. QED BY <4>1, <4>2
    <3>2. CASE ~\E w \in Workers : Holds(w, d)
      <4>1. PhaseOf(d) = "abandoned"
        BY <1>2, <3>2, PhaseIs
      <4>2. PhaseOf(d)' = "abandoned"
        BY <1>2, <2>1, <2>2, <3>2 DEF PhaseOf
      <4>. QED BY <4>1, <4>2
    <3>. QED BY <3>1, <3>2
  <2>4. Fresh(d)' <=> Fresh(d)
    BY <1>2, <2>1 DEF Fresh
  <2>. QED BY <2>3, <2>4 DEF Fresh
<1>. QED BY <1>1, <1>2

LEMMA StutterMaps ==
    ASSUME TypeOK, TypeOK', copies' = copies, Stripped' = Stripped,
           \A d \in Dests : SameView(d)
    PROVE  UNCHANGED Contract!vars
<1>1. \A d \in Dests : PhaseOf(d)' = PhaseOf(d) /\ Fresh(d)' = Fresh(d)
  BY ViewStays
<1>. QED BY <1>1 DEF Contract!vars, Fresh

(* A step that moves d in Delivery, and shows no other destination. *)
LEMMA MoveMaps ==
    ASSUME TypeOK, TypeOK', NEW d \in Dests, NEW from, NEW to,
           PhaseOf(d) \in from, PhaseOf(d)' = to, ~Fresh(d)', copies' = copies,
           Stripped' = Stripped,
           \A e \in Dests \ {d} : SameView(e)
    PROVE  Contract!Move(d, from, to)
<1>1. \A e \in Dests \ {d} : PhaseOf(e)' = PhaseOf(e) /\ Fresh(e)' = Fresh(e)
  BY ViewStays
<1>2. Fresh(d)' = FALSE
  BY DEF Fresh
<1>. QED BY <1>1, <1>2 DEF Contract!Move, Fresh

(* The media are lost, or replaced, and nothing else shows. *)
LEMMA StripMaps ==
    ASSUME TypeOK, TypeOK', [Next]_vars, UNCHANGED <<dest, wpc, cur, sent, copies>>
    PROVE  [Contract!Next]_(Contract!vars)
<1>1. \A d \in Dests : SameView(d)
  BY DEF SameView, Holds
<1>2. CASE Stripped' = Stripped
  BY <1>1, <1>2, StutterMaps
<1>3. CASE Stripped' = TRUE
  <2>1. \A d \in Dests : PhaseOf(d)' = PhaseOf(d) /\ Fresh(d)' = Fresh(d)
    BY <1>1, ViewStays
  <2>2. Contract!Strip
    BY <1>3, <2>1 DEF Contract!Strip, Fresh
  <2>. QED BY <2>2 DEF Contract!Next
<1>. QED BY <1>2, <1>3, StrippedStays DEF Stripped

LEMMA RequestMaps ==
    ASSUME ContractInv, ContractInv', NEW h \in Handlers, Request(h) \/ HandlerCrash(h)
    PROVE  [Contract!Next]_(Contract!vars)
<1>. TypeOK /\ TypeOK' /\ RowsTogether
  BY DEF ContractInv, ClaimInv
<1>. UNCHANGED <<wpc, cur, sent, copies>>
  BY RequestFrame DEF workerVars, history
<1>1. CASE Create(h)
  <2>1. \A d \in Dests : PhaseOf(d) = "none" /\ ~Fresh(d)
    BY <1>1, PhaseIs DEF Create, RowsTogether, Fresh
  <2>2. \A d \in Dests : dest'[d] = "SCHEDULED"
    BY <1>1 DEF Create
  <2>3. \A d \in Dests : PhaseOf(d)' = "waiting" /\ ~Fresh(d)'
    BY <2>2 DEF PhaseOf, Fresh
  <2>5. Stripped' = Stripped
    BY <1>1 DEF Create, Stripped
  <2>4. Contract!Plan
    BY <2>1, <2>3, <2>5 DEF Contract!Plan, Fresh
  <2>. QED BY <2>4 DEF Contract!Next
<1>2. CASE DeleteDrop(h)
  <2>1. \A d \in Dests : PhaseOf(d) # "none"
    <3>1. ASSUME NEW d \in Dests PROVE dest[d] # "ABSENT"
      BY <1>2 DEF DeleteDrop, RowsTogether
    <3>. QED BY <3>1, PhaseIs DEF TypeOK, DestStatus
  <2>2. \A d \in Dests : PhaseOf(d)' = "gone" /\ ~Fresh(d)'
    BY <1>2 DEF DeleteDrop, PhaseOf, Fresh
  <2>5. Stripped' = Stripped
    BY <1>2 DEF DeleteDrop, Stripped
  <2>3. CASE Dests = {}
    BY <2>3, <2>5 DEF Contract!vars
  <2>4. CASE Dests # {}
    <3>1. Contract!Drop
      BY <2>1, <2>2, <2>4, <2>5 DEF Contract!Drop, Fresh
    <3>. QED BY <3>1 DEF Contract!Next
  <2>. QED BY <2>3, <2>4
<1>4. CASE UpdateCommit(h)
  <2>1. dest' = dest
    BY <1>4 DEF UpdateCommit
  <2>2. Next
    BY <1>4 DEF Next, Request
  <2>. QED BY <2>1, <2>2, StripMaps
<1>3. CASE ~(Create(h) \/ DeleteDrop(h) \/ UpdateCommit(h))
  <2>1. dest' = dest
    BY <1>3 DEF Request, Enqueue, UpdateRead, UpdateSync,
       DeleteRead, DeleteUnqueue, ClearRead, ClearReset, HandlerCrash
  <2>2. \A d \in Dests : SameView(d)
    BY <2>1 DEF SameView, Holds
  <2>3. Stripped' = Stripped
    BY <1>3 DEF Request, Enqueue, UpdateRead, UpdateSync, DeleteRead, DeleteUnqueue,
       ClearRead, ClearReset, HandlerCrash, Stripped
  <2>. QED BY <2>2, <2>3, StutterMaps
<1>. QED BY <1>1, <1>2, <1>3, <1>4

LEMMA RemovalMaps ==
    ASSUME ContractInv, ContractInv', NEW r \in Removers, Removal(r) \/ RemoveCrash(r)
    PROVE  [Contract!Next]_(Contract!vars)
<1>. TypeOK /\ TypeOK' /\ LocalsSound /\ RemovalsSound
  BY DEF ContractInv, ClaimInv
<1>. UNCHANGED <<wpc, cur, sent, copies>> /\ Stripped' = Stripped
  BY RemovalFrame DEF workerVars, Stripped
<1>1. CASE RemoveMark(r) /\ dest[rcur[r]] # "GONE"
  <2>1. PICK d \in Dests : dest[d] = "SUCCESS" /\ dest' = [dest EXCEPT ![d] = "FAILED"]
    BY <1>1 DEF RemoveMark, LocalsSound, RemovalsSound
  <2>2. PhaseOf(d) = "delivered"
    BY <2>1, PhaseIs
  <2>3. dest'[d] = "FAILED"
    BY <2>1 DEF TypeOK
  <2>4. PhaseOf(d)' = "failed" /\ ~Fresh(d)'
    BY <2>3 DEF PhaseOf, Fresh
  <2>5. \A e \in Dests \ {d} : SameView(e)
    BY <2>1 DEF SameView, Holds, TypeOK
  <2>6. Contract!Withdraw(d)
    BY <2>1, <2>2, <2>4, <2>5, MoveMaps DEF Contract!Withdraw
  <2>. QED BY <2>1, <2>6 DEF Contract!Next
<1>2. CASE ~(RemoveMark(r) /\ dest[rcur[r]] # "GONE")
  <2>1. dest' = dest
    BY <1>2 DEF Removal, RemoveRead, RemoveCall, RemoveMark, RemoveReturn, RemoveCrash
  <2>2. \A d \in Dests : SameView(d)
    BY <2>1 DEF SameView, Holds
  <2>. QED BY <2>2, StutterMaps
<1>. QED BY <1>1, <1>2

(* A worker's step shows only in the destination it works on.              *)
LEMMA WorkView ==
    ASSUME TypeOK, NEW w \in Workers, Work(w), NEW d \in Dests, dest'[d] = dest[d],
           Holds(w, d)' <=> Holds(w, d),
           Holds(w, d) => (sent'[w] > 0 <=> sent[w] > 0)
    PROVE  SameView(d)
<1>1. ASSUME NEW v \in Workers, v # w
      PROVE  wpc'[v] = wpc[v] /\ cur'[v] = cur[v] /\ sent'[v] = sent[v]
  BY <1>1 DEF TypeOK, Work, Process, Take, Load, Claim, ClaimRefused, Send, NoRoute, Rejected,
     AnswerLost, Persist, Save, Catch, ReadStatus, Count, Write, Finish, Throw,
     DbError, WorkerCrash, Accepted, NextDest, Leave
<1>2. ASSUME NEW v \in Workers, v # w
      PROVE  (Holds(v, d)' <=> Holds(v, d)) /\ sent'[v] = sent[v]
  BY <1>1, <1>2 DEF Holds
<1>. QED BY <1>2 DEF SameView

LEMMA WorkStrips == ASSUME NEW w \in Workers, Work(w) PROVE Stripped' = Stripped
BY WorkFrame DEF Stripped

LEMMA ClaimMaps ==
    ASSUME ContractInv, ContractInv', NEW w \in Workers, Claim(w)
    PROVE  [Contract!Next]_(Contract!vars)
<1>. TypeOK /\ TypeOK' /\ Work(w)
  BY DEF ContractInv, ClaimInv, Work, Process
<1>1. PICK d \in todo[w] : /\ dest[d] \in Claimable
                           /\ dest' = [dest EXCEPT ![d] = "PUBLISHING"]
                           /\ cur' = [cur EXCEPT ![w] = d]
  BY DEF Claim
<1>2. /\ d \in Dests /\ wpc[w] = "loop" /\ wpc'[w] = "send"
      /\ sent[w] = 0 /\ sent' = sent /\ copies' = copies
  BY DEF Claim, TypeOK, ContractInv, SendsSound, ClaimPoints, history
<1>3. PhaseOf(d) \in {"waiting", "failed"}
  BY <1>1, <1>2, PhaseIs DEF Claimable
<1>4. dest'[d] = "PUBLISHING" /\ Holds(w, d)'
  BY <1>1, <1>2 DEF Holds, TypeOK
<1>5. \A v \in Workers : Holds(v, d)' => v = w
  BY <1>2, <1>4 DEF ContractInv, Exclusive, HeldOnce
<1>6. PhaseOf(d)' = "sending" /\ ~Fresh(d)'
  BY <1>2, <1>4, <1>5 DEF PhaseOf, Fresh
<1>7. ASSUME NEW e \in Dests \ {d} PROVE SameView(e)
  <2>1. dest'[e] = dest[e] /\ ~Holds(w, e) /\ ~Holds(w, e)'
    BY <1>1, <1>2 DEF Holds, TypeOK
  <2>. QED BY <2>1, WorkView
<1>8. Contract!Attempt(d)
  BY <1>2, <1>3, <1>6, <1>7, MoveMaps, WorkStrips DEF Contract!Attempt
<1>. QED BY <1>2, <1>8 DEF Contract!Next

LEMMA AcceptMaps ==
    ASSUME ContractInv, ContractInv', NEW w \in Workers, Send(w) \/ AnswerLost(w)
    PROVE  [Contract!Next]_(Contract!vars)
<1>. TypeOK /\ TypeOK' /\ LocalsSound /\ Work(w)
  BY DEF ContractInv, ClaimInv, Work, Process
<1>1. /\ Accepted(w) /\ dest' = dest /\ cur' = cur /\ wpc[w] = "send"
      /\ wpc'[w] \in ClaimPoints
  BY DEF Send, AnswerLost, Accepted, TypeOK, ClaimPoints
<1>2. PICK d \in Dests : cur[w] = d
  BY <1>1 DEF LocalsSound, ClaimPoints
<1>3. /\ Holds(w, d) /\ sent'[w] > 0
      /\ \A e \in Dests : Holds(w, e)' <=> Holds(w, e)
  BY <1>1, <1>2 DEF Holds, Accepted, TypeOK, ClaimPoints
<1>4. \A e \in Dests \ {d} : SameView(e)
  BY <1>1, <1>2, <1>3, WorkView DEF Holds
<1>5. CASE sent[w] > 0
  <2>1. SameView(d) /\ copies' = copies
    BY <1>1, <1>3, <1>5, WorkView DEF Accepted
  <2>. QED BY <1>4, <2>1, StutterMaps, WorkStrips
<1>6. CASE ~(sent[w] > 0)
  <2>1. copies' = [copies EXCEPT ![d] = @ + 1]
    BY <1>1, <1>2, <1>6 DEF Accepted, TypeOK
  <2>2. \A e \in Dests \ {d} : PhaseOf(e)' = PhaseOf(e) /\ Fresh(e)' = Fresh(e)
    BY <1>4, ViewStays
  <2>3. CASE dest[d] = "GONE"
    <3>1. PhaseOf(d) = "gone" /\ ~Fresh(d)
      BY <2>3, PhaseIs DEF Fresh
    <3>2. PhaseOf(d)' = "gone" /\ ~Fresh(d)'
      BY <1>1, <2>3 DEF PhaseOf, Fresh
    <3>3. Contract!AcceptLate(d)
      BY <2>1, <2>2, <3>1, <3>2, WorkStrips DEF Contract!AcceptLate, Fresh
    <3>. QED BY <3>3 DEF Contract!Next
  <2>4. CASE dest[d] = "PUBLISHING"
    <3>1. PhaseOf(d) = "sending"
      BY <1>3, <2>4, PhaseIs
    <3>2. ~Fresh(d)
      BY <1>3, <1>6 DEF Fresh, ContractInv, Exclusive, HeldOnce
    <3>3. dest'[d] = "PUBLISHING" /\ Holds(w, d)'
      BY <1>1, <1>3, <2>4
    <3>4. PhaseOf(d)' = "sending" /\ Fresh(d)'
      BY <1>3, <3>3 DEF PhaseOf, Fresh
    <3>5. Contract!Accept(d)
      BY <2>1, <2>2, <3>1, <3>2, <3>4, WorkStrips DEF Contract!Accept, Fresh
    <3>. QED BY <3>5 DEF Contract!Next
  <2>. QED BY <1>3, <2>3, <2>4 DEF ContractInv, Exclusive, HeldBusy
<1>. QED BY <1>5, <1>6

(* w lets go of its destination, which it leaves as `to'.                  *)
LEMMA ReleaseMaps ==
    ASSUME ContractInv, ContractInv', NEW w \in Workers, Work(w),
           wpc[w] \in ClaimPoints, wpc'[w] \notin ClaimPoints, copies' = copies,
           dest' = dest \/ \E s \in {"SUCCESS", "FAILED"} :
               /\ dest[cur[w]] # "GONE" /\ dest' = [dest EXCEPT ![cur[w]] = s]
               /\ s = "SUCCESS" => sent[w] > 0 \/ (cur[w] \in Instagram /\ Stripped)
    PROVE  [Contract!Next]_(Contract!vars)
<1>. TypeOK /\ TypeOK' /\ LocalsSound /\ Stripped' = Stripped
  BY WorkStrips DEF ContractInv, ClaimInv
<1>1. PICK d \in Dests : cur[w] = d
  BY DEF LocalsSound
<1>2. Holds(w, d) /\ \A e \in Dests : ~Holds(w, e)' /\ (e # d => ~Holds(w, e))
  BY <1>1 DEF Holds, ClaimPoints
<1>3. \A e \in Dests \ {d} : SameView(e)
  BY <1>1, <1>2, WorkView DEF TypeOK
<1>4. CASE dest[d] = "GONE"
  <2>1. dest' = dest
    BY <1>1, <1>4
  <2>2. SameView(d)
    BY <1>4, <2>1 DEF SameView
  <2>. QED BY <1>3, <2>2, StutterMaps
<1>5. CASE dest[d] = "PUBLISHING"
  <2>1. PhaseOf(d) = "sending"
    BY <1>2, <1>5, PhaseIs
  <2>2. \A v \in Workers : ~Holds(v, d)'
    <3>1. ASSUME NEW v \in Workers, v # w PROVE ~Holds(v, d)'
      <4>1. ~Holds(v, d)
        BY <1>2, <3>1 DEF ContractInv, Exclusive, HeldOnce
      <4>2. wpc'[v] = wpc[v] /\ cur'[v] = cur[v]
        BY <3>1 DEF TypeOK, Work, Process, Take, Load, Claim, ClaimRefused, Send, NoRoute, Rejected,
           AnswerLost, Persist, Save, Catch, ReadStatus, Count, Write, Finish, Throw,
           DbError, WorkerCrash, Accepted, NextDest, Leave
      <4>. QED BY <4>1, <4>2 DEF Holds
    <3>. QED BY <1>2, <3>1
  <2>3. ~Fresh(d)'
    BY <2>2 DEF Fresh
  <2>4. CASE dest' = dest
    <3>1. PhaseOf(d)' = "abandoned"
      BY <1>5, <2>2, <2>4 DEF PhaseOf
    <3>2. Contract!Abandon(d)
      BY <1>3, <2>1, <2>3, <3>1, MoveMaps DEF Contract!Abandon
    <3>. QED BY <3>2 DEF Contract!Next
  <2>5. CASE dest' = [dest EXCEPT ![d] = "FAILED"]
    <3>1. PhaseOf(d)' = "failed"
      BY <2>5 DEF PhaseOf, TypeOK
    <3>2. Contract!Fail(d)
      BY <1>3, <2>1, <2>3, <3>1, MoveMaps DEF Contract!Fail
    <3>. QED BY <3>2 DEF Contract!Next
  <2>6. CASE /\ dest' = [dest EXCEPT ![d] = "SUCCESS"]
             /\ sent[w] > 0 \/ (d \in Instagram /\ Stripped)
    <3>1. PhaseOf(d)' = "delivered"
      BY <2>6 DEF PhaseOf, TypeOK
    <3>2. Fresh(d) \/ (Stripped /\ d \in Instagram)
      BY <1>2, <1>5, <2>6 DEF Fresh
    <3>3. Contract!Move(d, {"sending"}, "delivered")
      BY <1>3, <2>1, <2>3, <3>1, MoveMaps
    <3>4. Contract!Deliver(d)
      BY <3>2, <3>3 DEF Contract!Deliver, Fresh
    <3>. QED BY <3>4 DEF Contract!Next
  <2>. QED BY <1>1, <2>4, <2>5, <2>6
<1>. QED BY <1>2, <1>4, <1>5 DEF ContractInv, Exclusive, HeldBusy

LEMMA WorkMaps ==
    ASSUME ContractInv, ContractInv', NEW w \in Workers, Work(w)
    PROVE  [Contract!Next]_(Contract!vars)
<1>. TypeOK /\ TypeOK' /\ LocalsSound /\ SendsSound
  BY DEF ContractInv, ClaimInv
<1>1. CASE Claim(w)
  BY <1>1, ClaimMaps
<1>2. CASE Send(w) \/ AnswerLost(w)
  BY <1>2, AcceptMaps
<1>3. CASE wpc[w] \in ClaimPoints /\ wpc'[w] \notin ClaimPoints
  <2>1. Save(w) \/ Catch(w) \/ DbError(w) \/ WorkerCrash(w)
    BY <1>3 DEF TypeOK, ClaimPoints, Work, Process, Take, Load, Claim, ClaimRefused, Send,
       NoRoute, Rejected, AnswerLost, Persist, ReadStatus, Count, Write, Finish, Throw
  <2>2. copies' = copies
    BY <2>1 DEF Save, Catch, DbError, WorkerCrash, history
  <2>3. dest' = dest \/ \E s \in {"SUCCESS", "FAILED"} :
               /\ dest[cur[w]] # "GONE" /\ dest' = [dest EXCEPT ![cur[w]] = s]
               /\ s = "SUCCESS" => sent[w] > 0 \/ (cur[w] \in Instagram /\ Stripped)
    BY <2>1 DEF TypeOK, Save, Catch, DbError, WorkerCrash, SendsSound
  <2>. QED BY <1>3, <2>2, <2>3, ReleaseMaps
<1>4. CASE ~(Claim(w) \/ Send(w) \/ AnswerLost(w))
           /\ ~(wpc[w] \in ClaimPoints /\ wpc'[w] \notin ClaimPoints)
  <2>1. dest' = dest /\ copies' = copies
    BY <1>4 DEF TypeOK, ClaimPoints, Work, Process, Take, Load, ClaimRefused, NoRoute, Rejected,
       Persist, Save, Catch, ReadStatus, Count, Write, Finish, Throw, DbError,
       WorkerCrash, NextDest, Leave, history
  <2>2. ASSUME NEW d \in Dests
        PROVE  (Holds(w, d)' <=> Holds(w, d)) /\ (Holds(w, d) => sent'[w] = sent[w])
    BY <1>4 DEF TypeOK, Holds, ClaimPoints, Work, Process, Take, Load, ClaimRefused, NoRoute, Rejected,
       Persist, Save, Catch, ReadStatus, Count, Write, Finish, Throw, DbError,
       WorkerCrash, NextDest, Leave
  <2>3. \A d \in Dests : SameView(d)
    BY <2>1, <2>2, WorkView
  <2>. QED BY <2>1, <2>3, StutterMaps, WorkStrips
<1>. QED BY <1>1, <1>2, <1>3, <1>4

LEMMA ContractMaps ==
    ASSUME ContractInv, ContractInv', [Next]_vars
    PROVE  [Contract!Next]_(Contract!vars)
<1>1. CASE DeleteFile \/ LockExpires \/ UNCHANGED vars
  <2>1. UNCHANGED <<dest, wpc, cur, sent, copies>>
    BY <1>1 DEF DeleteFile, LockExpires, vars, workerVars, history
  <2>. QED BY <2>1, StripMaps DEF ContractInv, ClaimInv
<1>. QED BY <1>1, RequestMaps, RemovalMaps, WorkMaps DEF Next, Work

LEMMA ContractInit == Init => Contract!Init
<1>. SUFFICES ASSUME Init PROVE Contract!Init
  OBVIOUS
<1>1. \A d \in Dests : PhaseOf(d) = "none" /\ ~Fresh(d)
  BY DEF Init, PhaseOf, Fresh
<1>. QED BY <1>1 DEF Init, Contract!Init, Fresh, Stripped

(* Jobs, workers, retries, stalls, crashes and requests do for each        *)
(* destination only what Delivery allows, whatever their numbers, with at  *)
(* most one request for remote deletion at a time.                         *)
THEOREM DeliveryIsKept == OneRemover => (Spec => DeliveryContract)
<1>. SUFFICES ASSUME OneRemover PROVE Spec => DeliveryContract
  OBVIOUS
<1>1. ContractInv /\ [Next]_vars => ContractInv'
  BY ContractStep
<1>2. ContractInv /\ ContractInv' /\ [Next]_vars => [Contract!Next]_(Contract!vars)
  BY ContractMaps
<1>. QED BY <1>1, <1>2, ContractStart, ContractInit, PTL
         DEF Spec, DeliveryContract, Contract!Spec

-----------------------------------------------------------------------------
(* While locks are kept, a run is alone.                                   *)

LockKept == "stall" \notin Faults

OwnRun == \A w \in Workers : wpc[w] # "idle" => job.state = "active" /\ job.owner = w

RunInv == ClaimInv /\ OwnRun

LEMMA OwnRunStep == ASSUME LockKept, RunInv, [Next]_vars PROVE OwnRun'
<1>. TypeOK /\ OwnRun /\ job \in Job
  BY DEF RunInv, ClaimInv, TypeOK
<1>1. ASSUME NEW h \in Handlers, Request(h) \/ HandlerCrash(h) PROVE OwnRun'
  <2>1. wpc' = wpc
    BY <1>1, RequestFrame DEF workerVars
  <2>2. job.state = "active" => job' = job
    BY <1>1 DEF Request, Create, Enqueue, UpdateRead, UpdateCommit, UpdateSync, DeleteRead,
       DeleteUnqueue, DeleteDrop, ClearRead, ClearReset, HandlerCrash, Added, Removable
  <2>. QED BY <2>1, <2>2 DEF OwnRun
<1>2. ASSUME NEW r \in Removers, Removal(r) \/ RemoveCrash(r) PROVE OwnRun'
  <2>1. wpc' = wpc /\ job' = job
    BY <1>2, RemovalFrame DEF workerVars, Removal, RemoveRead, RemoveCall, RemoveMark,
       RemoveReturn, RemoveCrash
  <2>. QED BY <2>1 DEF OwnRun
<1>3. ASSUME NEW w \in Workers, Work(w) PROVE OwnRun'
  <2>1. ASSUME NEW v \in Workers, v # w PROVE wpc'[v] = wpc[v]
    BY <1>3, <2>1 DEF TypeOK, Work, Process, Take, Load, Claim, ClaimRefused, Send, NoRoute, Rejected,
       AnswerLost, Persist, Save, Catch, ReadStatus, Count, Write, Finish, Throw,
       DbError, WorkerCrash, NextDest, Leave
  <2>2. \A v \in Workers : v # w => wpc[v] = "idle"
    BY <1>3 DEF OwnRun, Work, Process, Take, Load, Claim, ClaimRefused, Send, NoRoute, Rejected,
       AnswerLost, Persist, Save, Catch, ReadStatus, Count, Write, Finish, Throw,
       DbError, WorkerCrash, Accepted
  <2>3. CASE Take(w)
    BY <2>1, <2>2, <2>3 DEF OwnRun, Take, Taken, Job
  <2>4. CASE Finish(w) \/ Throw(w)
    <3>1. wpc'[w] = "idle"
      BY <2>4 DEF Finish, Throw, Leave, TypeOK
    <3>. QED BY <2>1, <2>2, <3>1 DEF OwnRun
  <2>5. CASE ~(Take(w) \/ Finish(w) \/ Throw(w))
    <3>1. job' = job /\ wpc[w] # "idle"
      BY <1>3, <2>5 DEF Work, Process, Load, Claim, ClaimRefused, Send, NoRoute, Rejected,
         AnswerLost, Persist, Save, Catch, ReadStatus, Count, Write, DbError, WorkerCrash,
         Accepted
    <3>. QED BY <2>1, <2>2, <3>1 DEF OwnRun
  <2>. QED BY <2>3, <2>4, <2>5
<1>4. CASE LockExpires
  <2>1. wpc[job.owner] = "idle" /\ wpc' = wpc
    BY <1>4 DEF DeleteFile, LockExpires, LockKept, workerVars
  <2>. QED BY <2>1 DEF OwnRun
<1>5. CASE DeleteFile \/ UNCHANGED vars
  BY <1>5 DEF OwnRun, DeleteFile, vars, workerVars
<1>. QED BY <1>1, <1>2, <1>3, <1>4, <1>5 DEF Next, Work

LEMMA RunStart == Init => RunInv
BY ClaimInit DEF Init, RunInv, OwnRun

LEMMA RunStep == ASSUME LockKept, RunInv, [Next]_vars PROVE RunInv'
BY ClaimStep, OwnRunStep DEF RunInv

(* From the reading of the status to the end of the run only requests      *)
(* touch it, and nobody the destinations; unless content is removed.       *)
Planned == {"DRAFT", "SCHEDULED"}

Judged ==
    (\A d \in Dests : ~removed[d]) /\ post # "GONE" =>
        \A w \in Workers :
            /\ wpc[w] = "counts" => post \in Planned \cup {was[w]}
            /\ wpc[w] = "write" => verdict[w] = Verdict(dest)
            /\ wpc[w] = "done" => post \in Planned \cup {Verdict(dest)}

LEMMA JudgedStep == ASSUME RunInv, Judged, [Next]_vars PROVE Judged'
<1>. SUFFICES ASSUME \A d \in Dests : ~removed'[d], post' # "GONE", NEW w \in Workers
     PROVE  /\ wpc'[w] = "counts" => post' \in Planned \cup {was'[w]}
            /\ wpc'[w] = "write" => verdict'[w] = Verdict(dest)'
            /\ wpc'[w] = "done" => post' \in Planned \cup {Verdict(dest)'}
  BY DEF Judged
<1>. TypeOK /\ LocalsSound /\ RowsTogether /\ OwnRun
  BY DEF RunInv, ClaimInv
<1>1. \A d \in Dests : ~removed[d]
  BY HistoryGrows
<1>. DEFINE Goal == /\ wpc'[w] = "counts" => post' \in Planned \cup {was'[w]}
                    /\ wpc'[w] = "write" => verdict'[w] = Verdict(dest)'
                    /\ wpc'[w] = "done" => post' \in Planned \cup {Verdict(dest)'}
<1>2. ASSUME NEW h \in Handlers, Request(h) \/ HandlerCrash(h) PROVE Goal
  <2>1. wpc' = wpc /\ was' = was /\ verdict' = verdict
    BY <1>2, RequestFrame DEF workerVars
  <2>2. CASE Create(h)
    BY <2>1, <2>2 DEF Create, RowsTogether
  <2>3. CASE ~Create(h)
    <3>1. post # "GONE" /\ dest' = dest /\ (post' = post \/ post' \in Planned)
      BY <1>2, <2>3 DEF Request, Enqueue, UpdateRead, UpdateCommit, UpdateSync, DeleteRead,
         DeleteUnqueue, DeleteDrop, ClearRead, ClearReset, HandlerCrash, Exists, StatusFor,
         Planned
    <3>. QED BY <1>1, <2>1, <3>1 DEF Judged
  <2>. QED BY <2>2, <2>3
<1>3. ASSUME NEW r \in Removers, Removal(r) \/ RemoveCrash(r) PROVE Goal
  <2>1. UNCHANGED <<post, wpc, was, verdict>>
    BY <1>3, RemovalFrame DEF workerVars
  <2>2. dest' = dest
    BY <1>1, <1>3 DEF LocalsSound, Removal, RemoveRead, RemoveCall, RemoveMark,
       RemoveReturn, RemoveCrash
  <2>. QED BY <1>1, <2>1, <2>2 DEF Judged
<1>4. ASSUME NEW v \in Workers, Work(v) PROVE Goal
  <2>1. CASE v # w
    <3>1. Take(v) \/ wpc[v] # "idle"
      BY <1>4 DEF Work, Process, Load, Claim, ClaimRefused, Send, NoRoute, Rejected,
         AnswerLost, Persist, Save, Catch, ReadStatus, Count, Write, Finish, Throw,
         DbError, WorkerCrash, Accepted
    <3>2. wpc[w] = "idle"
      BY <2>1, <3>1 DEF OwnRun, Take
    <3>3. wpc'[w] = wpc[w]
      BY <1>4, <2>1 DEF TypeOK, Work, Process, Take, Load, Claim, ClaimRefused, Send,
         NoRoute, Rejected, AnswerLost, Persist, Save, Catch, ReadStatus, Count, Write, Finish,
         Throw, DbError, WorkerCrash, NextDest, Leave
    <3>. QED BY <3>2, <3>3
  <2>2. CASE v = w
    <3>1. wpc[w] # "idle" => post # "ABSENT"
      BY DEF RowsTogether
    <3>2. CASE Load(w)
      BY <3>1, <3>2 DEF Load, Exists, TypeOK
    <3>3. CASE ReadStatus(w)
      BY <3>1, <3>3 DEF ReadStatus, Exists, TypeOK
    <3>4. CASE Count(w)
      <4>1. /\ wpc[w] = "counts" /\ post' = post /\ dest' = dest
            /\ verdict'[w] = Verdict(dest)
            /\ wpc'[w] = IF Verdict(dest) = was[w] THEN "done" ELSE "write"
        BY <3>4, VerdictType DEF Count, TypeOK
      <4>. QED BY <1>1, <4>1 DEF Judged
    <3>5. CASE Write(w)
      <4>1. /\ wpc[w] = "write" /\ dest' = dest
            /\ wpc'[w] = "throw" \/ (wpc'[w] = "done" /\ post' = verdict[w] /\ Exists)
        BY <3>5 DEF Write, TypeOK
      <4>. QED BY <1>1, <4>1 DEF Judged, Exists
    <3>6. CASE ~(Load(w) \/ ReadStatus(w) \/ Count(w) \/ Write(w))
      BY <1>4, <2>2, <3>6 DEF TypeOK, Work, Process, Take, Claim, ClaimRefused, Send,
         NoRoute, Rejected, AnswerLost, Persist, Save, Catch, Finish, Throw, DbError, WorkerCrash,
         NextDest, Leave
    <3>. QED BY <3>2, <3>3, <3>4, <3>5, <3>6
  <2>. QED BY <2>1, <2>2
<1>5. CASE DeleteFile \/ LockExpires \/ UNCHANGED vars
  <2>1. UNCHANGED <<post, dest, wpc, was, verdict>>
    BY <1>5 DEF DeleteFile, LockExpires, vars, workerVars
  <2>. QED BY <1>1, <2>1 DEF Judged
<1>. QED BY <1>2, <1>3, <1>4, <1>5 DEF Next, Work

(* When a run ends without having lost its lock, the post's status tells   *)
(* what became of its destinations, whatever requests came in between.     *)
THEOREM VerdictIsTrue == LockKept => (Spec => []VerdictTrue)
<1>. SUFFICES ASSUME LockKept PROVE Spec => []VerdictTrue
  OBVIOUS
<1>1. Init => RunInv /\ Judged
  BY RunStart DEF Init, Judged
<1>2. RunInv /\ Judged /\ [Next]_vars => (RunInv /\ Judged)'
  BY RunStep, JudgedStep
<1>3. RunInv /\ Judged => VerdictTrue
  <2>. SUFFICES ASSUME RunInv, Judged, NEW w \in Workers, wpc[w] = "done",
                       \A d \in Dests : ~removed[d],
                       post \in {"PUBLISHED", "PARTIAL", "FAILED", "PUBLISHING"}
                PROVE  VerdictTrue
    BY DEF VerdictTrue
  <2>1. post = Verdict(dest)
    BY DEF Judged, Planned
  <2>2. \A d \in Dests : dest[d] \in {"SCHEDULED", "PUBLISHING", "SUCCESS", "FAILED"}
    BY DEF RunInv, ClaimInv, RowsTogether, TypeOK, DestStatus
  <2>3. \A s : s \in {dest[d] : d \in Dests} <=> \E d \in Dests : dest[d] = s
    OBVIOUS
  <2>4. /\ post = "PUBLISHED" => \A d \in Dests : dest[d] = "SUCCESS"
        /\ post = "FAILED" => \A d \in Dests : dest[d] = "FAILED"
        /\ post = "PUBLISHING" => \E d \in Dests : dest[d] \in {"SCHEDULED", "PUBLISHING"}
        /\ post = "PARTIAL" => \E d, e \in Dests : dest[d] = "SUCCESS" /\ dest[e] = "FAILED"
        /\ post = "PARTIAL" => \A d \in Dests : dest[d] \in {"SUCCESS", "FAILED"}
    BY <2>1, <2>2, <2>3 DEF Verdict
  <2>. QED BY <2>4 DEF VerdictTrue
<1>. QED BY <1>1, <1>2, <1>3, PTL DEF Spec

(* With one request at a time, what is deleted has no job and no run.      *)
OneHandler == \A g, h \in Handlers : g = h

Dropped ==
    /\ post = "GONE" => job.state = "absent" /\ \A h \in Handlers : hpc[h] = "idle"
    /\ \A h \in Handlers : hpc[h] = "drop" => job.state = "absent"

LEMMA DroppedStep == ASSUME OneHandler, RunInv, Dropped, [Next]_vars PROVE Dropped'
<1>. TypeOK /\ OwnRun /\ job \in Job
  BY DEF RunInv, ClaimInv, TypeOK
<1>1. ASSUME NEW h \in Handlers, Request(h) \/ HandlerCrash(h) PROVE Dropped'
  <2>1. \A g \in Handlers : g = h
    BY DEF OneHandler
  <2>2. CASE hpc[h] = "drop"
    BY <1>1, <2>1, <2>2 DEF TypeOK, Dropped, Request, Create, Enqueue, UpdateRead, UpdateCommit,
       UpdateSync, DeleteRead, DeleteUnqueue, DeleteDrop, ClearRead, ClearReset, HandlerCrash,
       Answer
  <2>3. CASE hpc[h] = "unqueue"
    BY <1>1, <2>1, <2>3 DEF TypeOK, Dropped, Request, Create, Enqueue, UpdateRead, UpdateCommit,
       UpdateSync, DeleteRead, DeleteUnqueue, DeleteDrop, ClearRead, ClearReset, HandlerCrash,
       Answer, NoJob
  <2>4. CASE hpc[h] \notin {"drop", "unqueue"}
    <3>1. post # "GONE" /\ post' # "GONE" /\ hpc'[h] # "drop"
      BY <1>1, <2>4 DEF TypeOK, Dropped, Request, Create, Enqueue, UpdateRead, UpdateCommit,
         UpdateSync, DeleteRead, DeleteUnqueue, DeleteDrop, ClearRead, ClearReset, HandlerCrash,
         Answer, Exists, StatusFor
    <3>. QED BY <2>1, <3>1 DEF Dropped
  <2>. QED BY <2>2, <2>3, <2>4
<1>2. ASSUME NEW r \in Removers, Removal(r) \/ RemoveCrash(r) PROVE Dropped'
  <2>1. UNCHANGED <<post, job, hpc>>
    BY <1>2, RemovalFrame DEF handlerVars, Removal, RemoveRead, RemoveCall, RemoveMark,
       RemoveReturn, RemoveCrash
  <2>. QED BY <2>1 DEF Dropped
<1>3. ASSUME NEW w \in Workers, Work(w) PROVE Dropped'
  <2>1. job.state \in {"waiting", "active"}
    BY <1>3 DEF OwnRun, Work, Process, Take, Load, Claim, ClaimRefused, Send, NoRoute, Rejected,
       AnswerLost, Persist, Save, Catch, ReadStatus, Count, Write, Finish, Throw,
       DbError, WorkerCrash, Accepted
  <2>2. hpc' = hpc
    BY <1>3, WorkFrame DEF handlerVars
  <2>3. post' = post \/ post' \in Verdicts
    BY <1>3 DEF TypeOK, Work, Process, Take, Load, Claim, ClaimRefused, Send, NoRoute, Rejected,
       AnswerLost, Persist, Save, Catch, ReadStatus, Count, Write, Finish, Throw,
       DbError, WorkerCrash
  <2>. QED BY <2>1, <2>2, <2>3 DEF Dropped, Verdicts
<1>4. CASE DeleteFile \/ LockExpires \/ UNCHANGED vars
  BY <1>4 DEF Dropped, DeleteFile, LockExpires, vars, handlerVars
<1>. QED BY <1>1, <1>2, <1>3, <1>4 DEF Next, Work

(* While locks are kept and requests come one at a time, nothing of a      *)
(* deleted post is being published.                                        *)
THEOREM GoneIsNotSent == LockKept /\ OneHandler => (Spec => []GoneNotSent)
<1>. SUFFICES ASSUME LockKept, OneHandler PROVE Spec => []GoneNotSent
  OBVIOUS
<1>1. Init => RunInv /\ Dropped
  BY RunStart DEF Init, Dropped
<1>2. RunInv /\ Dropped /\ [Next]_vars => (RunInv /\ Dropped)'
  BY RunStep, DroppedStep
<1>3. RunInv /\ Dropped => GoneNotSent
  BY DEF RunInv, OwnRun, Dropped, GoneNotSent, Holds
<1>. QED BY <1>1, <1>2, <1>3, PTL DEF Spec
==============================================================================
