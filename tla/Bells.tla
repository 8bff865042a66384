-------------------------------- MODULE Bells --------------------------------
(***************************************************************************)
(* The notifications of a workspace.  A domain event is handled by a       *)
(* subscriber nobody waits for: it reads the conversation or the post,     *)
(* decides whom to notify, lists the members where it is everybody, and    *)
(* writes a row for each of them at once.  Events come again, when a       *)
(* message or a job is processed twice, and are handled side by side; the  *)
(* rows are unique by member and event.                                    *)
(*                                                                         *)
(* A behaviour is about one event, as different events have rows of their  *)
(* own.  What is caught is logged and lost.  Assignments of a conversation *)
(* have a handler that no code emits to, and notifications no route to     *)
(* delete.                                                                 *)
(***************************************************************************)
EXTENDS FiniteSets

CONSTANTS Ringers,    \* handlings of events
          Mates,      \* members of the workspace; an id is not used again
          NoMate

(* A message, or a reply that failed, of one conversation; a comment; the  *)
(* outcome of a post's destination.                                        *)
EventKinds == {"message", "comment", "post"}

ASSUME BellsAssumption == NoMate \notin Mates

VARIABLES
    mates,      \* WorkspaceMember rows
    leavers,    \* history: members removed
    assignee,   \* InboxConversation.assignedMemberId
    author,     \* the member the post's author is, or was
    event,      \* the kind of the event
    notes,      \* members with a Notification row of the event
    unread,     \* those whose readAt is null
    npc,        \* where each handling stands
    nto,        \* the recipients it has read
    ndue,       \* history: who was to be told when it began
    nshift,     \* history: members or the assignment have changed since
    owed        \* history: who was to be told by handlings that are done

bellVars == <<mates, leavers, assignee, author, event, notes, unread,
              npc, nto, ndue, nshift, owed>>
mateVars == <<mates, leavers, assignee, author, event>>
handling == <<npc, nto, ndue, nshift>>

Busy == {h \in Ringers : npc[h] # "idle"}

BellsInit ==
    /\ mates = {} /\ leavers = {}
    /\ assignee = NoMate
    /\ event \in EventKinds
    /\ author \in Mates \cup {NoMate}
    /\ event = "post" \/ author = NoMate
    /\ notes = {} /\ unread = {} /\ owed = {}
    /\ npc = [h \in Ringers |-> "idle"]
    /\ nto = [h \in Ringers |-> {}]
    /\ ndue = [h \in Ringers |-> {}]
    /\ nshift = [h \in Ringers |-> FALSE]

Shift == nshift' = [h \in Ringers |-> nshift[h] \/ h \in Busy]

Idle(h) ==
    /\ npc' = [npc EXCEPT ![h] = "idle"]
    /\ nto' = [nto EXCEPT ![h] = {}]
    /\ ndue' = [ndue EXCEPT ![h] = {}]
    /\ nshift' = [nshift EXCEPT ![h] = FALSE]

-----------------------------------------------------------------------------
Join(m) ==
    /\ m \notin mates \cup leavers
    /\ mates' = mates \cup {m}
    /\ Shift
    /\ UNCHANGED <<leavers, assignee, author, event, notes, unread, npc, nto, ndue, owed>>

(* His rows go with him, and the conversation has nobody assigned.         *)
Remove(m) ==
    /\ m \in mates
    /\ mates' = mates \ {m} /\ leavers' = leavers \cup {m}
    /\ assignee' = IF assignee = m THEN NoMate ELSE assignee
    /\ notes' = notes \ {m} /\ unread' = unread \ {m}
    /\ Shift
    /\ UNCHANGED <<author, event, npc, nto, ndue, owed>>

Assign(m) ==
    /\ m \in mates \cup {NoMate} /\ m # assignee
    /\ assignee' = m
    /\ Shift
    /\ UNCHANGED <<mates, leavers, author, event, notes, unread, npc, nto, ndue, owed>>

-----------------------------------------------------------------------------
Due == CASE event = "message" -> IF assignee # NoMate THEN {assignee} ELSE mates
         [] event = "comment" -> mates
         [] event = "post"    -> IF author \in mates THEN {author} ELSE mates

Handle(h, kind, pc, to) ==
    /\ npc[h] = "idle" /\ event = kind
    /\ npc' = [npc EXCEPT ![h] = pc]
    /\ nto' = [nto EXCEPT ![h] = to]
    /\ ndue' = [ndue EXCEPT ![h] = Due]
    /\ UNCHANGED <<mateVars, notes, unread, nshift, owed>>

(* onInboxMessageCreated and onInboxMessageStatusUpdated read the          *)
(* conversation.                                                           *)
OnInboxMessage(h) ==
    IF assignee # NoMate THEN Handle(h, "message", "write", {assignee})
                         ELSE Handle(h, "message", "list", {})

OnInboxCommentCreated(h) == Handle(h, "comment", "list", {})

(* notifyPostEvent reads the post, then whether its author is a member.    *)
NotifyPostEvent(h) == Handle(h, "post", "author", {})

FindAuthor(h) ==
    /\ npc[h] = "author"
    /\ IF author \in mates
       THEN npc' = [npc EXCEPT ![h] = "write"] /\ nto' = [nto EXCEPT ![h] = {author}]
       ELSE npc' = [npc EXCEPT ![h] = "list"] /\ UNCHANGED nto
    /\ UNCHANGED <<mateVars, notes, unread, ndue, nshift, owed>>

(* listWorkspaceMemberIds *)
ListMembers(h) ==
    /\ npc[h] = "list"
    /\ npc' = [npc EXCEPT ![h] = "write"]
    /\ nto' = [nto EXCEPT ![h] = mates]
    /\ UNCHANGED <<mateVars, notes, unread, ndue, nshift, owed>>

Settled(h) == owed' = IF nshift[h] THEN owed ELSE owed \cup ndue[h]

(* createMany: one statement, that skips the rows there are, and is        *)
(* refused when one of the recipients is gone.                             *)
CreateMany(h) ==
    /\ npc[h] = "write"
    /\ IF nto[h] \subseteq mates
       THEN notes' = notes \cup nto[h] /\ unread' = unread \cup (nto[h] \ notes)
       ELSE UNCHANGED <<notes, unread>>
    /\ Settled(h)
    /\ Idle(h)
    /\ UNCHANGED mateVars

(* A query throws and is logged, or the process dies.                      *)
HandlingLost(h) ==
    /\ npc[h] # "idle"
    /\ Idle(h)
    /\ UNCHANGED <<mateVars, notes, unread, owed>>

(* markRead and markAllRead *)
MarkNotesRead(m) ==
    /\ m \in unread
    /\ unread' = unread \ {m}
    /\ UNCHANGED <<mateVars, notes, handling, owed>>

BellsNext ==
    \/ \E m \in Mates : Join(m) \/ Remove(m) \/ Assign(m) \/ MarkNotesRead(m)
    \/ Assign(NoMate)
    \/ \E h \in Ringers :
          \/ OnInboxMessage(h) \/ OnInboxCommentCreated(h) \/ NotifyPostEvent(h)
          \/ FindAuthor(h) \/ ListMembers(h) \/ CreateMany(h) \/ HandlingLost(h)

BellsSpec == BellsInit /\ [][BellsNext]_bellVars

-----------------------------------------------------------------------------
(* Whoever was to be told of an event when its handling began has a row,   *)
(* once it is done, unless he has left, a fault cut it off, or a member    *)
(* came, went or was assigned meanwhile: one who leaves then has the       *)
(* others left out too.                                                    *)
EveryoneTold == owed \cap mates \subseteq notes

(* Only members have rows, and a conversation's assignee is one.           *)
NotesOfMembers ==
    /\ unread \subseteq notes /\ notes \subseteq mates
    /\ assignee \in mates \cup {NoMate}

BellsKept == EveryoneTold /\ NotesOfMembers
==============================================================================
