----------------------------- MODULE Snapshots -----------------------------
(***************************************************************************)
(* The second half of an analytics run: the figures of a profile's posts.  *)
(* The ids of the posts go to the network in chunks, the answers come back *)
(* for some of them, in any order, and a row per post and day is written   *)
(* for each.  A chunk that fails is answered by nothing, a row that can    *)
(* not be written is passed over.                                          *)
(***************************************************************************)
EXTENDS Integers, FiniteSets

CONSTANTS Fetchers,      \* runs of processPosts and of testFetch
          Sent,          \* the destinations with a post at the network
          SnapDays,      \* days are 0 .. SnapDays
          MaxLikes,      \* bound on a post's figure
          NoFigure,      \* no answer, no row
          Sites          \* the networks

ASSUME SnapshotsAssumption ==
    /\ SnapDays \in Nat /\ MaxLikes \in Nat
    /\ Sites \subseteq {"LINKEDIN_PAGE", "LINKEDIN_PERSON", "FACEBOOK", "INSTAGRAM", "TWITTER"}

VARIABLES
    site,       \* the network of the profile
    day,
    likes,      \* the figure at the network: it only grows here
    withdrawn,  \* posts withdrawn at the network, FAILED in our rows
    snapshot,   \* PostAnalyticsSnapshot by destination and day
    spc,        \* where each run stands
    asked,      \* getPostsForUpdate: the posts it has yet to ask for
    answers,    \* rawPosts: an answer names the post it is about
    since,      \* history: the day on which it has asked first
    aged        \* history: posts written from an answer of an earlier day

snapVars == <<site, day, likes, withdrawn, snapshot, spc, asked, answers, since, aged>>

Figures == 0 .. MaxLikes
Answers == [Sent -> Figures \cup {NoFigure}]
Unanswered == [p \in Sent |-> NoFigure]

SnapshotsInit ==
    /\ site \in Sites
    /\ day = 0
    /\ likes = [p \in Sent |-> 0]
    /\ withdrawn = {} /\ aged = {}
    /\ snapshot = [p \in Sent |-> [d \in 0 .. SnapDays |-> NoFigure]]
    /\ spc = [w \in Fetchers |-> "idle"]
    /\ asked = [w \in Fetchers |-> {}]
    /\ answers = [w \in Fetchers |-> Unanswered]
    /\ since = [w \in Fetchers |-> 0]

outside == <<site, day, likes, withdrawn>>

-----------------------------------------------------------------------------
(* getPostsForUpdate: the destinations that are SUCCESS.                   *)
AskPosts(w) ==
    /\ spc[w] = "idle"
    /\ asked' = [asked EXCEPT ![w] = Sent \ withdrawn]
    /\ spc' = [spc EXCEPT ![w] = "asking"]
    /\ since' = [since EXCEPT ![w] = day]
    /\ UNCHANGED <<outside, snapshot, answers, aged>>

(* What one call may answer of the posts it asks for.  One that fails      *)
(* answers nothing: each chunk is caught on its own.  Meta's calls know    *)
(* all posts of the chunk or fail, X leaves out what is withdrawn, a page  *)
(* of LinkedIn any post it has nothing to say of, and a member's posts are *)
(* asked for one by one, where four figures are answered or none.          *)
FacebookAnswers(chunk) == {{}} \cup (IF chunk \cap withdrawn = {} THEN {chunk} ELSE {})
InstagramAnswers(chunk) == {{}} \cup (IF chunk \cap withdrawn = {} THEN {chunk} ELSE {})
TwitterAnswers(chunk) == {{}, chunk \ withdrawn}
PageAnswers(chunk) == SUBSET (chunk \ withdrawn)
PersonAnswers(chunk) == IF Cardinality(chunk) = 1 THEN {{}, chunk \ withdrawn} ELSE {}

AnswersTo(chunk) == CASE site = "FACEBOOK"        -> FacebookAnswers(chunk)
                      [] site = "INSTAGRAM"       -> InstagramAnswers(chunk)
                      [] site = "TWITTER"         -> TwitterAnswers(chunk)
                      [] site = "LINKEDIN_PAGE"   -> PageAnswers(chunk)
                      [] site = "LINKEDIN_PERSON" -> PersonAnswers(chunk)

(* getPostStats: one chunk of the ids.                                     *)
Chunk(w, chunk, told) ==
    /\ spc[w] = "asking"
    /\ chunk # {} /\ chunk \subseteq asked[w]
    /\ told \in AnswersTo(chunk)
    /\ answers' = [answers EXCEPT ![w] =
                     [p \in Sent |-> IF p \in told THEN likes[p] ELSE @[p]]]
    /\ asked' = [asked EXCEPT ![w] = @ \ chunk]
    /\ UNCHANGED <<outside, snapshot, spc, since, aged>>

AllAsked(w) ==
    /\ spc[w] = "asking" /\ asked[w] = {}
    /\ spc' = [spc EXCEPT ![w] = "saving"]
    /\ UNCHANGED <<outside, snapshot, asked, answers, since, aged>>

(* postMap finds the destination by the id of the answer;                  *)
(* normalizePostStats and savePostSnapshot: an upsert by the day it is.    *)
SaveSnapshot(w, p) ==
    /\ spc[w] = "saving" /\ answers[w][p] # NoFigure
    /\ snapshot' = [snapshot EXCEPT ![p][day] = answers[w][p]]
    /\ aged' = IF since[w] # day THEN aged \cup {p} ELSE aged
    /\ answers' = [answers EXCEPT ![w][p] = NoFigure]
    /\ UNCHANGED <<outside, spc, asked, since>>

(* The upsert throws: the others are written all the same.                 *)
PassOver(w, p) ==
    /\ spc[w] = "saving" /\ answers[w][p] # NoFigure
    /\ answers' = [answers EXCEPT ![w][p] = NoFigure]
    /\ UNCHANGED <<outside, snapshot, spc, asked, since, aged>>

EndRun(w) ==
    /\ spc[w] = "saving" /\ answers[w] = Unanswered
    /\ spc' = [spc EXCEPT ![w] = "idle"]
    /\ since' = [since EXCEPT ![w] = 0]
    /\ UNCHANGED <<outside, snapshot, asked, answers, aged>>

NextDay ==
    /\ day < SnapDays
    /\ day' = day + 1
    /\ UNCHANGED <<site, likes, withdrawn, snapshot, spc, asked, answers, since, aged>>

Like(p) ==
    /\ p \notin withdrawn /\ likes[p] < MaxLikes
    /\ likes' = [likes EXCEPT ![p] = @ + 1]
    /\ UNCHANGED <<site, day, withdrawn, snapshot, spc, asked, answers, since, aged>>

Withdraw(p) ==
    /\ withdrawn' = withdrawn \cup {p}
    /\ p \notin withdrawn
    /\ UNCHANGED <<site, day, likes, snapshot, spc, asked, answers, since, aged>>

SnapshotsNext ==
    \/ NextDay
    \/ \E p \in Sent : Like(p) \/ Withdraw(p)
    \/ \E w \in Fetchers :
          \/ AskPosts(w) \/ AllAsked(w) \/ EndRun(w)
          \/ \E chunk, told \in SUBSET Sent : Chunk(w, chunk, told)
          \/ \E p \in Sent : SaveSnapshot(w, p) \/ PassOver(w, p)

SnapshotsSpec == SnapshotsInit /\ [][SnapshotsNext]_snapVars

-----------------------------------------------------------------------------
(* A post's rows are its own and in the order of time: a figure that only  *)
(* grows does not shrink from a day to a later one, and no row is ahead of *)
(* the network, unless a run that began on an earlier day wrote one.       *)
SnapshotsTrue ==
    \A p \in Sent \ aged : \A d \in 0 .. SnapDays :
        snapshot[p][d] # NoFigure =>
            /\ snapshot[p][d] <= likes[p]
            /\ \A e \in 0 .. d : snapshot[p][e] # NoFigure
                                   => snapshot[p][e] <= snapshot[p][d]
==============================================================================
