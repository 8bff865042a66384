------------------------------ MODULE Sessions ------------------------------
(***************************************************************************)
(* The sessions of one user.  The row holds the hash of one refresh token, *)
(* so that the clients of a user share one session: whoever is given a     *)
(* token last keeps it.  Tokens name the version of the row they were      *)
(* made for, and a password reset moves it on.                             *)
(*                                                                         *)
(* A request reads the row, and writes the hash of its new token several   *)
(* awaits later; the answer may be lost.  Who switches workspaces or       *)
(* onboards is let in by the guard on the version of an access token, and  *)
(* the version of the new token is read by a later statement.  What a      *)
(* token says about the workspace is left out.  Two tokens differ, as two  *)
(* made in one second for one workspace do not.                            *)
(***************************************************************************)
EXTENDS Integers, FiniteSets

CONSTANTS Clients,    \* browsers of the user
          MaxTokens,  \* bound on the tokens that are issued
          MaxResets,  \* bound on the password resets
          NoToken

ASSUME SessionsAssumption ==
    /\ MaxTokens \in Nat /\ MaxResets \in Nat
    /\ NoToken \notin Nat

VARIABLES
    known,      \* the user has a row
    hash,       \* User.refreshToken
    version,    \* User.refreshTokenVersion
    resets,     \* history: passwords set so far
    issued,     \* the tokens are 1 .. issued
    ver,        \* a token's version
    proof,      \* history: the password that the token goes back to
    cpc,        \* where each client's request stands
    held,       \* the refresh token a client holds
    mine,       \* the token its request has been given
    cver,       \* the version its request has read
    cproof,     \* history: the password it goes back to
    outdated,   \* history: clients whose request was overtaken by a reset
    carried,    \* history: an overtaken request has read the new version
    disturbed,  \* history: clients whose session another one has ended
    signedOut   \* history: logged out, and nobody has signed in since

sessionVars == <<known, hash, version, resets, issued, ver, proof, cpc, held, mine,
                 cver, cproof, outdated, carried, disturbed, signedOut>>
tokens == <<issued, ver, proof>>

Tokens == 1 .. MaxTokens
Writing == {"login", "renew", "admitted"}
Underway == Writing \cup {"register", "switch", "onboard"}
Reading == Underway \cup {"expel"}

SessionsInit ==
    /\ known = FALSE
    /\ hash = NoToken /\ version = 0 /\ resets = 0
    /\ issued = 0
    /\ ver = [t \in Tokens |-> 0] /\ proof = [t \in Tokens |-> 0]
    /\ cpc = [c \in Clients |-> "idle"]
    /\ held = [c \in Clients |-> NoToken]
    /\ mine = [c \in Clients |-> NoToken]
    /\ cver = [c \in Clients |-> 0] /\ cproof = [c \in Clients |-> 0]
    /\ outdated = {} /\ carried = FALSE /\ disturbed = {}
    /\ signedOut = TRUE

Rest(c) ==
    /\ cpc' = [cpc EXCEPT ![c] = "idle"]
    /\ mine' = [mine EXCEPT ![c] = NoToken]
    /\ cver' = [cver EXCEPT ![c] = 0] /\ cproof' = [cproof EXCEPT ![c] = 0]
    /\ outdated' = outdated \ {c}

Begin(c, pc, password) ==
    /\ cpc' = [cpc EXCEPT ![c] = pc]
    /\ cver' = [cver EXCEPT ![c] = version]
    /\ cproof' = [cproof EXCEPT ![c] = password]
    /\ UNCHANGED <<known, hash, version, resets, tokens, held, mine, outdated, carried,
                   disturbed>>

-----------------------------------------------------------------------------
(* login: the row is read and the user is who he says.                    *)
Login(c) ==
    /\ cpc[c] = "idle" /\ known
    /\ Begin(c, "login", resets)
    /\ signedOut' = FALSE

(* register, when the address is not found.                                *)
Register(c) ==
    /\ cpc[c] = "idle" /\ ~known
    /\ Begin(c, "register", resets)
    /\ signedOut' = FALSE

(* handleSocialLogin: a row that is found is read, another is created.     *)
SocialLogin(c) ==
    /\ cpc[c] = "idle"
    /\ Begin(c, IF known THEN "login" ELSE "register", resets)
    /\ signedOut' = FALSE

(* The address is unique: of two that register it the second is refused.   *)
CreateUser(c) ==
    /\ cpc[c] = "register" /\ ~known
    /\ known' = TRUE
    /\ cpc' = [cpc EXCEPT ![c] = "login"]
    /\ UNCHANGED <<hash, version, resets, tokens, held, mine, cver, cproof,
                   outdated, carried, disturbed, signedOut>>

(* refreshTokens, up to the comparison with the hash.                      *)
Refresh(c) ==
    LET t == held[c]
    IN  /\ cpc[c] = "idle" /\ t # NoToken
        /\ hash # NoToken /\ version = ver[t]
        /\ Begin(c, IF hash = t THEN "renew" ELSE "expel", proof[t])
        /\ UNCHANGED signedOut

(* It is refused without a session, or with a token of an older version.   *)
Refused(c) ==
    LET t == held[c]
    IN  /\ cpc[c] = "idle" /\ t # NoToken
        /\ hash = NoToken \/ version # ver[t]
        /\ held' = [held EXCEPT ![c] = NoToken]
        /\ disturbed' = disturbed \ {c}
        /\ UNCHANGED <<known, hash, version, resets, tokens, cpc, mine, cver, cproof,
                       outdated, carried, signedOut>>

(* A token that is not the one on record ends the session for everybody.   *)
Expel(c) ==
    /\ cpc[c] = "expel"
    /\ hash' = NoToken
    /\ held' = [held EXCEPT ![c] = NoToken]
    /\ disturbed' = Clients \ {c}
    /\ Rest(c)
    /\ UNCHANGED <<known, version, resets, tokens, carried, signedOut>>

(* The guard lets in whoever holds an access token of this version; it     *)
(* outlives a logout.                                                      *)
LetIn(c, pc) ==
    /\ cpc[c] = "idle" /\ held[c] # NoToken
    /\ ver[held[c]] = version
    /\ Begin(c, pc, proof[held[c]])
    /\ signedOut' = FALSE

(* switchWorkspace, and userOnboarding, which may be called again.         *)
Switch(c) == LetIn(c, "switch")
Onboard(c) == LetIn(c, "onboard")

(* The version of the new token is the one the update of the user returns, *)
(* be it of a password that came after the guard.                          *)
ReadVersion(c, pc) ==
    /\ cpc[c] = pc
    /\ cpc' = [cpc EXCEPT ![c] = "admitted"]
    /\ cver' = [cver EXCEPT ![c] = version]
    /\ carried' = (carried \/ c \in outdated)
    /\ outdated' = outdated \ {c}
    /\ UNCHANGED <<known, hash, version, resets, tokens, held, mine, cproof, disturbed,
                   signedOut>>

CommitSwitch(c) == ReadVersion(c, "switch")
CommitOnboarding(c) == ReadVersion(c, "onboard")

(* Variant for the mutation runs: the token is made for the version of the *)
(* row when it is written.                                                 *)
WriteCurrent(c) ==
    LET t == issued + 1
    IN  /\ cpc[c] \in Writing /\ issued < MaxTokens
        /\ issued' = t
        /\ ver' = [ver EXCEPT ![t] = version]
        /\ proof' = [proof EXCEPT ![t] = cproof[c]]
        /\ hash' = t
        /\ mine' = [mine EXCEPT ![c] = t]
        /\ cpc' = [cpc EXCEPT ![c] = "answer"]
        /\ disturbed' = (Clients \ {c}) \cup (outdated \cap {c})
        /\ UNCHANGED <<known, version, resets, held, cver, cproof, outdated, carried, signedOut>>

(* generateTokens with the version that was read, and updateRefreshToken.  *)
Write(c) ==
    LET t == issued + 1
    IN  /\ cpc[c] \in Writing /\ issued < MaxTokens
        /\ issued' = t
        /\ ver' = [ver EXCEPT ![t] = cver[c]]
        /\ proof' = [proof EXCEPT ![t] = cproof[c]]
        /\ hash' = t
        /\ mine' = [mine EXCEPT ![c] = t]
        /\ cpc' = [cpc EXCEPT ![c] = "answer"]
        /\ disturbed' = (Clients \ {c}) \cup (outdated \cap {c})
        /\ UNCHANGED <<known, version, resets, held, cver, cproof, outdated, carried, signedOut>>

Answered(c) ==
    /\ cpc[c] = "answer"
    /\ held' = [held EXCEPT ![c] = mine[c]]
    /\ Rest(c)
    /\ UNCHANGED <<known, hash, version, resets, tokens, carried, disturbed, signedOut>>

(* The update of the last workspace or the initialisation of a payment     *)
(* fails after the hash is written, or the answer does not arrive: the     *)
(* client is left with the token of before.                                *)
AnswerMissed(c) ==
    /\ cpc[c] = "answer"
    /\ disturbed' = disturbed \cup {c}
    /\ Rest(c)
    /\ UNCHANGED <<known, hash, version, resets, tokens, held, carried, signedOut>>

(* A query throws before anything is written.                              *)
GiveUp(c) ==
    /\ cpc[c] \in Reading
    /\ Rest(c)
    /\ UNCHANGED <<known, hash, version, resets, tokens, held, carried, disturbed, signedOut>>

Logout(c) ==
    /\ cpc[c] = "idle" /\ held[c] # NoToken /\ ver[held[c]] = version
    /\ hash' = NoToken
    /\ held' = [held EXCEPT ![c] = NoToken]
    /\ disturbed' = Clients \ {c}
    /\ signedOut' = (\A d \in Clients : cpc[d] \notin Underway)
    /\ UNCHANGED <<known, version, resets, tokens, cpc, mine, cver, cproof, outdated, carried>>

(* The version moves on.  resetPassword leaves the hash, changePassword    *)
(* takes it away.                                                          *)
NewPassword ==
    /\ known /\ resets < MaxResets
    /\ version' = version + 1 /\ resets' = resets + 1
    /\ disturbed' = Clients
    /\ outdated' = {c \in Clients : cpc[c] # "idle"} /\ carried' = FALSE
    /\ UNCHANGED <<known, tokens, cpc, held, mine, cver, cproof, signedOut>>

ResetPassword == NewPassword /\ UNCHANGED hash
ChangePassword == NewPassword /\ hash' = NoToken

SessionsNext ==
    \/ ResetPassword \/ ChangePassword
    \/ \E c \in Clients :
          \/ Login(c) \/ Register(c) \/ SocialLogin(c) \/ CreateUser(c)
          \/ Switch(c) \/ CommitSwitch(c) \/ Onboard(c) \/ CommitOnboarding(c)
          \/ Refresh(c) \/ Refused(c) \/ Expel(c) \/ Write(c) \/ Answered(c) \/ AnswerMissed(c) \/ GiveUp(c) \/ Logout(c)

SessionsSpec == SessionsInit /\ [][SessionsNext]_sessionVars

-----------------------------------------------------------------------------
Accepted(t) == hash = t /\ version = ver[t]

(* Who holds a token can refresh with it, unless another client was given  *)
(* one since or logged out, the password was reset, or the answer with his *)
(* newer token was lost.                                                   *)
SignedIn ==
    \A c \in Clients : cpc[c] = "idle" /\ held[c] # NoToken /\ c \notin disturbed
        => Accepted(held[c])

(* A token that is accepted goes back to the password in force, though a   *)
(* request that has read the row before a reset writes its hash after it;  *)
(* unless a switch or an onboarding had been let in before the reset and   *)
(* read its version after.                                                 *)
ResetRevokes ==
    \A t \in 1 .. issued : Accepted(t) => proof[t] = resets \/ carried

(* After a logout there is no session until somebody signs in, unless a    *)
(* request was about to write its token while the user logged out.         *)
LogoutHolds == signedOut => hash = NoToken

SessionsKept == SignedIn /\ ResetRevokes /\ LogoutHolds
==============================================================================
