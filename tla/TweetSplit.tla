----------------------------- MODULE TweetSplit -----------------------------
(***************************************************************************)
(* How a text too long for one tweet becomes a thread.  A text is a        *)
(* sequence of characters, of which it matters whether they are blank and  *)
(* whether the network takes them; each weighs one.  A chunk is an         *)
(* interval <<from, to>> of the text, empty when to < from.                *)
(*                                                                         *)
(* The code aims at SafeLimit and tightens it while a chunk is invalid:    *)
(* with SafeLimit <= TweetLimit, only a character no limit can cure makes  *)
(* one invalid, so that every further attempt ends like the first.         *)
(***************************************************************************)
EXTENDS Integers, Sequences, FiniteSets, FiniteSetsExt, SequencesExt

CONSTANTS TweetLimit,   \* what a tweet may weigh; 280
          SafeLimit,    \* X_SAFE_LIMIT; 260
          MaxTweets,    \* X_MAX_THREAD_TWEETS; 20
          MaxText,      \* bound on the length of a text
          MaxBad        \* bound on the characters in it that no tweet takes

ASSUME TweetSplitAssumption ==
    /\ SafeLimit \in Nat \ {0} /\ TweetLimit \in Nat
    /\ SafeLimit <= TweetLimit
    /\ MaxTweets \in Nat \ {0} /\ MaxText \in Nat /\ MaxBad \in Nat

VARIABLES text, thread   \* what is given and what comes of it

splitVars == <<text, thread>>

Chars == {"letter", "blank", "bad"}
Refused == <<<<0, 0>>>>

Blank(t, i) == t[i] = "blank"
Weight(c) == c[2] - c[1] + 1

(* twitter.parseTweet(...).valid                                           *)
Valid(t, c) ==
    c[1] > 0 /\ Weight(c) \in 1 .. TweetLimit /\ \A i \in c[1] .. c[2] : t[i] # "bad"

(* content.split(/(\s+)/): the runs of blanks and of other characters.     *)
Tokens(t) ==
    LET run(i) == {j \in i .. Len(t) : \A k \in i .. j : Blank(t, k) = Blank(t, i)}
        after[i \in 1 .. Len(t) + 1] ==
          IF i > Len(t) THEN <<>>
          ELSE <<<<i, Max(run(i))>>>> \o after[Max(run(i)) + 1]
    IN  after[1]

(* hardSplitTokenForX: as much as is valid, from the left.                 *)
HardSplit(t, token) ==
    LET cut[i \in token[1] .. token[2] + 1] ==
          IF i > token[2] THEN <<>>
          ELSE LET ends == {j \in i .. token[2] : Valid(t, <<i, j>>)}
               IN  IF ends = {} THEN Refused
                   ELSE <<<<i, Max(ends)>>>> \o cut[Max(ends) + 1]
    IN  cut[token[1]]

(* Variant for the mutation runs: the text held back is forgotten when a   *)
(* long word is cut.                                                       *)
AddForgetful(t, s, token) ==
    IF token[2] - s.from + 1 <= SafeLimit THEN [s EXCEPT !.to = token[2]]
    ELSE LET cut == Weight(token) > SafeLimit
         IN  [out  |-> s.out \o (IF cut THEN HardSplit(t, token)
                                 ELSE IF s.to >= s.from THEN <<<<s.from, s.to>>>> ELSE <<>>),
              from |-> IF cut THEN token[2] + 1 ELSE token[1],
              to   |-> token[2]]

(* One turn of the loop: the token joins the buffer, or the buffer becomes *)
(* a chunk and the token the new buffer, or is itself cut.                 *)
AddToken(t, s, token) ==
    IF token[2] - s.from + 1 <= SafeLimit THEN [s EXCEPT !.to = token[2]]
    ELSE LET cut == Weight(token) > SafeLimit
             held == IF s.to >= s.from THEN <<<<s.from, s.to>>>> ELSE <<>>
         IN  [out  |-> s.out \o held \o (IF cut THEN HardSplit(t, token) ELSE <<>>),
              from |-> IF cut THEN token[2] + 1 ELSE token[1],
              to   |-> token[2]]

(* chunk.trim().length > 0                                                 *)
Shows(t, c) == \E i \in c[1] .. c[2] : i \notin DOMAIN t \/ ~Blank(t, i)

SplitByWeight(t) ==
    LET end == FoldLeft(LAMBDA s, token : AddToken(t, s, token),
                        [out |-> <<>>, from |-> 1, to |-> 0], Tokens(t))
        all == IF end.to >= end.from THEN Append(end.out, <<end.from, end.to>>) ELSE end.out
    IN  FoldLeft(LAMBDA kept, c : IF Shows(t, c) THEN Append(kept, c) ELSE kept, <<>>, all)

(* processTwitter, of a text that has been trimmed.                        *)
Transform(t) ==
    LET chunks == SplitByWeight(t)
    IN  IF Valid(t, <<1, Len(t)>>) THEN <<<<1, Len(t)>>>>
        ELSE IF Len(chunks) > MaxTweets \/ \E i \in DOMAIN chunks :
                                             ~Valid(t, chunks[i]) THEN Refused
        ELSE chunks

-----------------------------------------------------------------------------
Trimmed(t) == t = <<>> \/ (~Blank(t, 1) /\ ~Blank(t, Len(t)))
Texts == {t \in UNION {[1 .. n -> Chars] : n \in 0 .. MaxText} :
            Trimmed(t) /\ Cardinality({i \in DOMAIN t : t[i] = "bad"}) <= MaxBad}

Pending == <<<<-1, -1>>>>

SplitInit == text \in Texts /\ thread = Pending
Split == thread = Pending /\ thread' = Transform(text) /\ UNCHANGED text

SplitSpec == SplitInit /\ [][Split]_splitVars

(* Every tweet of the thread is one the network takes, none is blank, they *)
(* stand in the order of the text and leave out nothing but blanks; a text *)
(* is refused only for a bad character or for its length.                  *)
SplitKeepsText ==
    LET in == UNION {thread[i][1] .. thread[i][2] : i \in DOMAIN thread}
    IN  /\ thread \notin {Pending, Refused} =>
             /\ Len(thread) <= MaxTweets
             /\ \A i \in DOMAIN thread : Valid(text, thread[i])
             /\ \A i \in DOMAIN thread : \E j \in thread[i][1] .. thread[i][2] : ~Blank(text, j)
             /\ \A i \in 2 .. Len(thread) : thread[i - 1][2] < thread[i][1]
             /\ \A i \in DOMAIN text : i \in in \/ Blank(text, i)
        /\ thread = Refused =>
             \/ \E i \in DOMAIN text : text[i] = "bad"
             \/ 3 * Len(text) > MaxTweets * SafeLimit
==============================================================================
