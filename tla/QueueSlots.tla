----------------------------- MODULE QueueSlots -----------------------------
(***************************************************************************)
(* The weekly queue slots of one workspace, edited by concurrent requests. *)
(* A slot is due on a day, at a time, for a platform: a key.  No unique    *)
(* index guards the keys, and no lock the plan's limit: each request       *)
(* counts, looks for a twin and writes in three awaits.                    *)
(*                                                                         *)
(* Editing a slot rebuilds the queue once the row is written.  The rebuild *)
(* writes nothing: without posts it has nothing to do, and with posts it   *)
(* refuses (module SlotSearch says why), so that the request is answered   *)
(* 400 although its row has changed.  Row ids are used again here and not  *)
(* by the database: the model allows more, never less.                     *)
(***************************************************************************)
EXTENDS Integers, FiniteSets

CONSTANTS Editors,    \* concurrent requests on slots
          Rows,       \* ids of slot rows
          Keys,       \* day, time and platform
          NoKey, NoRow,
          MaxSlots    \* TIER_LIMITS[tier].maxQueueSlots

ASSUME QueueSlotsAssumption ==
    /\ IsFiniteSet(Editors) /\ IsFiniteSet(Rows)
    /\ NoKey \notin Keys
    /\ NoRow \notin Rows
    /\ MaxSlots \in Nat

VARIABLES
    key,      \* QueueSlot by id: its key, or NoKey when there is no row
    epc,      \* where each request stands
    ekey,     \* the key it was given
    erow      \* the row it edits, NoRow when it creates one

slotVars == <<key, epc, ekey, erow>>

SlotsTypeOK ==
    /\ key \in [Rows -> Keys \cup {NoKey}]
    /\ epc \in [Editors -> {"idle", "counted", "free", "rebuild"}]
    /\ ekey \in [Editors -> Keys \cup {NoKey}]
    /\ erow \in [Editors -> Rows \cup {NoRow}]

SlotsInit ==
    /\ key = [r \in Rows |-> NoKey]
    /\ epc = [e \in Editors |-> "idle"]
    /\ ekey = [e \in Editors |-> NoKey]
    /\ erow = [e \in Editors |-> NoRow]

Slots == {r \in Rows : key[r] # NoKey}
Twins(k) == {r \in Rows : key[r] = k}

(* Variant for the mutation runs: the limit is off by one.                 *)
FullLate == Cardinality(Slots) > MaxSlots

(* checked against TIER_LIMITS[tier].maxQueueSlots                         *)
Full == Cardinality(Slots) >= MaxSlots

(* The end of request `e'.                                                 *)
Return(e) ==
    /\ epc' = [epc EXCEPT ![e] = "idle"]
    /\ ekey' = [ekey EXCEPT ![e] = NoKey]
    /\ erow' = [erow EXCEPT ![e] = NoRow]

-----------------------------------------------------------------------------
(* createQueueSlot: the count, the look for a twin, the insertion.         *)
CountSlots(e, k) ==
    /\ epc[e] = "idle"
    /\ IF Full
         THEN Return(e)
         ELSE /\ epc' = [epc EXCEPT ![e] = "counted"]
              /\ ekey' = [ekey EXCEPT ![e] = k]
              /\ UNCHANGED erow
    /\ UNCHANGED key

SeekTwin(e) ==
    /\ epc[e] = "counted"
    /\ IF Twins(ekey[e]) # {}
         THEN Return(e)
         ELSE /\ epc' = [epc EXCEPT ![e] = "free"]
              /\ UNCHANGED <<ekey, erow>>
    /\ UNCHANGED key

InsertSlot(e) ==
    /\ epc[e] = "free" /\ erow[e] = NoRow
    /\ \E r \in Rows \ Slots : key' = [key EXCEPT ![r] = ekey[e]]
    /\ Return(e)

(* updateQueueSlot: the row is read and its new key sought among the other *)
(* rows, then it is written, if it is still there.                         *)
SeekOther(e, r, k) ==
    /\ epc[e] = "idle" /\ r \in Slots
    /\ IF Twins(k) \ {r} # {}
         THEN Return(e)
         ELSE /\ epc' = [epc EXCEPT ![e] = "free"]
              /\ ekey' = [ekey EXCEPT ![e] = k]
              /\ erow' = [erow EXCEPT ![e] = r]
    /\ UNCHANGED key

WriteSlot(e) ==
    /\ epc[e] = "free" /\ erow[e] # NoRow
    /\ IF erow[e] \in Slots
         THEN /\ key' = [key EXCEPT ![erow[e]] = ekey[e]]
              /\ epc' = [epc EXCEPT ![e] = "rebuild"]
              /\ ekey' = [ekey EXCEPT ![e] = NoKey]
              /\ UNCHANGED erow
         ELSE Return(e) /\ UNCHANGED key

(* deleteQueueSlot: of two deletions of a row the second finds it gone.    *)
DropSlot(e, r) ==
    /\ epc[e] = "idle" /\ r \in Slots
    /\ key' = [key EXCEPT ![r] = NoKey]
    /\ epc' = [epc EXCEPT ![e] = "rebuild"]
    /\ erow' = [erow EXCEPT ![e] = r]
    /\ UNCHANGED ekey

(* rebuildQueue, at the end of an update and of a deletion.                *)
Rebuild(e) ==
    /\ epc[e] = "rebuild"
    /\ Return(e)
    /\ UNCHANGED key

EditorSteps(e) ==
    \/ \E k \in Keys : CountSlots(e, k)
    \/ SeekTwin(e) \/ InsertSlot(e)
    \/ \E r \in Rows, k \in Keys : SeekOther(e, r, k)
    \/ WriteSlot(e)
    \/ \E r \in Rows : DropSlot(e, r)
    \/ Rebuild(e)

SlotsNext == \E e \in Editors : EditorSteps(e)

SlotsSpec == SlotsInit /\ [][SlotsNext]_slotVars

-----------------------------------------------------------------------------
(* Nothing serialises the requests, so that the limit can be passed and a  *)
(* key be held twice, but only by requests that overlap: there are never   *)
(* more slots than the limit and the other requests in flight, nor more    *)
(* holders of a key than requests.  One request at a time does neither.    *)
SlotsBounded ==
    /\ \/ Cardinality(Slots) <= MaxSlots + Cardinality(Editors) - 1
       \/ Slots = {}
    /\ \A k \in Keys : Cardinality(Twins(k)) <= Cardinality(Editors)
==============================================================================
