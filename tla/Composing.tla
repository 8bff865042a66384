----------------------------- MODULE Composing -----------------------------
(***************************************************************************)
(* One destination of a post, from what its author asks to what the        *)
(* network shows: the rules of PlatformRulesService admit the post, an     *)
(* edit may change its media afterwards, unchecked, and the provider of    *)
(* the network checks once more and publishes in several calls.            *)
(*                                                                         *)
(* Media are counted by type; `fit' says that every item keeps the format  *)
(* rules of the network (type, size, duration, shape).  Text is measured   *)
(* in steps: 0 none, 1 one tweet, 2 a caption, 3 a LinkedIn post, 4 more.  *)
(* The uploads of a post are one call, which fails if one of them does.    *)
(***************************************************************************)
EXTENDS Integers, Sequences

CONSTANTS MediaCounts,  \* how many items of a type
          Replies,      \* how many tweets may follow the first
          MaxTries      \* publishContainer's attempts; in the code 10

ASSUME ComposingAssumption ==
    /\ MediaCounts \subseteq Nat /\ 0 \in MediaCounts
    /\ Replies \subseteq Nat /\ 0 \in Replies
    /\ MaxTries \in Nat \ {0}

VARIABLES
    net,     \* the profile's platform
    post,    \* what is to be published there
    edited,  \* the post was changed after its creation
    phase,   \* where the post stands
    todo,    \* the calls the provider still has to make
    tries,   \* attempts made at the present call
    shown,   \* posts the network shows
    unheard, \* history: an answer of the network was lost
    refused  \* history: the provider itself threw, before any call

composeVars == <<net, post, edited, phase, todo, tries, shown, unheard, refused>>

Nets == {"TWITTER", "LINKEDIN", "FACEBOOK", "INSTAGRAM"}
ContentType == {"POST", "REEL", "STORY", "THREAD"}
Calls == {"upload", "wait", "post", "container", "read", "queue"}

Post == [kind : ContentType, text : 0 .. 4, fit : BOOLEAN, replies : Replies,
         image : MediaCounts, video : MediaCounts, pdf : MediaCounts]
NoPost == [kind |-> "POST", text |-> 0, fit |-> TRUE, replies |-> 0,
          image |-> 0, video |-> 0, pdf |-> 0]

Total(p) == p.image + p.video + p.pdf

(* The posts the network is to show: a text too long for a tweet is split  *)
(* into several (module TweetSplit), `text' of them here.                  *)
Shares(n, p) == IF n # "TWITTER" THEN 1
                ELSE IF p.replies = 0 /\ p.text > 1 THEN p.text ELSE p.replies + 1

ComposeTypeOK ==
    /\ net \in Nets /\ post \in Post
    /\ edited \in BOOLEAN /\ unheard \in BOOLEAN /\ refused \in BOOLEAN
    /\ phase \in {"new", "ready", "calling", "ok", "thrown"}
    /\ todo \in Seq(Calls)
    /\ tries \in 0 .. MaxTries /\ shown \in Nat

ComposeInit ==
    /\ net \in Nets
    /\ post = NoPost /\ edited = FALSE
    /\ phase = "new" /\ todo = <<>> /\ tries = 0
    /\ shown = 0 /\ unheard = FALSE /\ refused = FALSE

-----------------------------------------------------------------------------
(* What preparePayloads admits.                                            *)

(* A text that is no valid tweet is split, and an empty one is split into  *)
(* no tweets; with explicit replies it must be one.                        *)
AdmitsX(p) == Total(p) <= 4 /\ (p.replies > 0 => p.text = 1)

AdmitsInstagram(p) ==
    /\ p.text <= 2
    /\ Total(p) > 0 /\ p.pdf = 0
    /\ IF p.kind = "REEL" THEN p.video = 1 /\ p.image = 0 ELSE Total(p) <= 10

AdmitsFacebook(p) ==
    IF Total(p) = 0 THEN p.text > 0
    ELSE /\ p.kind = "POST" => Total(p) <= 10
         /\ p.kind \in {"STORY", "REEL"} => Total(p) <= 1 /\ p.fit
         /\ p.kind = "REEL" => p.image = 0
         /\ p.pdf = 0

(* Variant for the mutation runs: a document may come with other media.    *)
AdmitsMixedPdf(p) ==
    /\ p.text <= 3
    /\ p.pdf <= 1 /\ p.video <= 1 /\ p.image <= 9
    /\ p.fit

AdmitsLinkedIn(p) ==
    /\ p.text <= 3
    /\ p.pdf > 0 => p.video = 0 /\ p.image = 0
    /\ p.pdf <= 1 /\ p.video <= 1 /\ p.image <= 9
    /\ p.fit

Admits(n, p) == CASE n = "TWITTER"   -> AdmitsX(p)
                  [] n = "LINKEDIN"  -> AdmitsLinkedIn(p)
                  [] n = "FACEBOOK"  -> AdmitsFacebook(p)
                  [] n = "INSTAGRAM" -> AdmitsInstagram(p)

-----------------------------------------------------------------------------
(* What the providers refuse, and the calls they make otherwise.           *)

RefusesFacebook(p) ==
    CASE p.kind = "REEL"  -> p.video # 1
      [] p.kind = "STORY" -> Total(p) # 1
      [] OTHER            -> p.video > 1 \/ (p.video > 0 /\ p.image > 0)

RefusesInstagram(p) ==
    CASE p.kind = "REEL"  -> p.video # 1
      [] p.kind = "STORY" -> Total(p) # 1
      [] OTHER            -> Total(p) > 10

RefusesLinkedIn(p) ==
    \/ p.pdf > 0 /\ p.video + p.image > 0
    \/ p.pdf > 1 \/ p.video > 1

(* publishTwitterThreadForOneDestination                                   *)
RefusesX(p) == p.text = 0

Refuses(n, p) == CASE n = "TWITTER"   -> RefusesX(p)
                   [] n = "LINKEDIN"  -> RefusesLinkedIn(p)
                   [] n = "FACEBOOK"  -> RefusesFacebook(p)
                   [] n = "INSTAGRAM" -> RefusesInstagram(p)

UploadsOf(n) == IF n > 0 THEN <<"upload">> ELSE <<>>

(* Reels and stories are started, filled and finished, several photos are  *)
(* uploaded unpublished; one video or photo is a single call.  The number  *)
(* of a video that is still processed is looked for by a job.              *)
FacebookReel == <<"upload", "post", "queue">>
FacebookStory == <<"upload", "post">>
FacebookVideo == <<"post", "queue">>
FacebookPhotos(n) == IF n > 1 THEN <<"upload", "post">> ELSE <<"post">>

CallsFacebook(p) ==
    CASE p.kind = "REEL"  -> FacebookReel
      [] p.kind = "STORY" -> FacebookStory
      [] OTHER -> IF p.video = 1 THEN FacebookVideo ELSE FacebookPhotos(p.image)

(* Containers are made and waited for, then published; the permalink is    *)
(* read last.  A feed post without an image or a video, be it that of a    *)
(* lone document, matches no route: publish makes no call and returns.     *)
CreateContainer == <<"upload", "wait">>
Carousel == CreateContainer \o <<"upload">>
PublishContainer == <<"wait", "container", "read">>

CallsInstagram(p) ==
    LET feed == p.kind \notin {"REEL", "STORY"}
    IN  IF feed /\ Total(p) > 1 THEN Carousel \o PublishContainer
        ELSE IF feed /\ p.pdf = Total(p) THEN <<>>
        ELSE CreateContainer \o PublishContainer

UploadImages(p) == UploadsOf(p.image)
UploadVideo(p) == UploadsOf(p.video)
UploadDocument(p) == UploadsOf(p.pdf)
CallsLinkedIn(p) == UploadImages(p) \o UploadVideo(p) \o UploadDocument(p) \o <<"post">>

UploadMedia(p) == UploadsOf(Total(p))
CallsX(p) == UploadMedia(p) \o [i \in 1 .. Shares("TWITTER", p) |-> "post"]

CallsOf(n, p) == CASE n = "TWITTER"   -> CallsX(p)
                   [] n = "LINKEDIN"  -> CallsLinkedIn(p)
                   [] n = "FACEBOOK"  -> CallsFacebook(p)
                   [] n = "INSTAGRAM" -> CallsInstagram(p)

-----------------------------------------------------------------------------
Create(p) ==
    /\ phase = "new" /\ Admits(net, p)
    /\ (p.replies > 0 => net = "TWITTER")
    /\ post' = p
    /\ phase' = "ready"
    /\ UNCHANGED <<net, edited, todo, tries, shown, unheard, refused>>

(* updatePost writes the media it is given, and none when it is given none *)
(* (the DTO's default is an empty list).  The text goes to Post.content,   *)
(* which the destination's own text hides.  Deleting a media file takes it *)
(* out of the post too (PostMedia cascades), which leaves fewer of a type. *)
EditMedia(i, v, d) ==
    /\ phase = "ready"
    /\ post' = [post EXCEPT !.image = i, !.video = v, !.pdf = d]
    /\ edited' = TRUE
    /\ UNCHANGED <<net, phase, todo, tries, shown, unheard, refused>>

Publish ==
    /\ phase = "ready"
    /\ IF Refuses(net, post)
         THEN phase' = "thrown" /\ refused' = TRUE /\ UNCHANGED todo
         ELSE phase' = "calling" /\ todo' = CallsOf(net, post) /\ UNCHANGED refused
    /\ UNCHANGED <<net, post, edited, tries, shown, unheard>>

Visible == {"post", "container"}

(* A call is answered well.                                                *)
CallSucceeds ==
    /\ phase = "calling" /\ todo # <<>>
    /\ todo' = Tail(todo) /\ tries' = 0
    /\ shown' = IF Head(todo) \in Visible THEN shown + 1 ELSE shown
    /\ UNCHANGED <<net, post, edited, phase, unheard, refused>>

(* The network refuses the call, or, when it has done it, the answer is    *)
(* lost: the provider throws in both cases.                                *)
CallFails ==
    /\ phase = "calling" /\ todo # <<>>
    /\ phase' = "thrown"
    /\ \/ UNCHANGED <<shown, unheard>>
       \/ Head(todo) \in Visible /\ shown' = shown + 1 /\ unheard' = TRUE
    /\ UNCHANGED <<net, post, edited, todo, tries, refused>>

(* Variant for the mutation runs: any error is taken for "not ready".      *)
RetryAnything ==
    /\ phase = "calling" /\ todo # <<>> /\ Head(todo) = "container"
    /\ tries < MaxTries - 1 /\ tries' = tries + 1
    /\ shown' \in {shown, shown + 1}
    /\ UNCHANGED <<net, post, edited, phase, todo, unheard, refused>>

(* publishContainer: the network says that the media are not ready (9007). *)
NotReadyYet ==
    /\ phase = "calling" /\ todo # <<>> /\ Head(todo) = "container"
    /\ tries < MaxTries - 1 /\ tries' = tries + 1
    /\ UNCHANGED <<net, post, edited, phase, todo, shown, unheard, refused>>

(* publish() returns, and the destination is marked SUCCESS.               *)
Published ==
    /\ phase = "calling" /\ todo = <<>>
    /\ phase' = "ok"
    /\ UNCHANGED <<net, post, edited, todo, tries, shown, unheard, refused>>

ComposeNext ==
    \/ \E p \in Post : Create(p)
    \/ \E i, v, d \in MediaCounts : EditMedia(i, v, d)
    \/ Publish \/ CallSucceeds \/ CallFails \/ NotReadyYet \/ Published

ComposeSpec == ComposeInit /\ [][ComposeNext]_composeVars

-----------------------------------------------------------------------------
(* What an attempt reports and what the network shows.  A destination is   *)
(* marked SUCCESS when its post is there, once, with every reply: except   *)
(* on Instagram, where a post that an edit has left without media, or with *)
(* one document, is marked and not sent.  An attempt that throws has left  *)
(* something behind only when the network's answer was lost, when a call   *)
(* after the visible one failed (Instagram's permalink, Facebook's job),   *)
(* or within a thread.                                                     *)
ShownTruthfully ==
    /\ phase = "ok" =>
         \/ shown = Shares(net, post)
         \/ /\ net = "INSTAGRAM" /\ edited /\ shown = 0
            /\ post.kind \notin {"REEL", "STORY"}
            /\ Total(post) = post.pdf /\ post.pdf <= 1
    /\ phase = "thrown" /\ shown > 0 =>
         \/ unheard
         \/ todo # <<>> /\ Head(todo) \in {"read", "queue"}
         \/ Shares(net, post) > 1

(* The rules and the provider agree: a post the rules admit and nobody has *)
(* edited is not refused by the provider, but for these, which fail when   *)
(* they are due instead of when they are written.                          *)
AdmittedSent ==
    refused /\ ~edited =>
        \/ net = "TWITTER" /\ post.text = 0
        \/ net = "INSTAGRAM" /\ post.kind = "STORY" /\ Total(post) > 1
        \/ net = "FACEBOOK" /\ post.kind \in {"STORY", "REEL"} /\ Total(post) = 0
        \/ net = "FACEBOOK" /\ post.kind \in {"POST", "THREAD"} /\ post.video > 0
              /\ Total(post) > 1
==============================================================================
