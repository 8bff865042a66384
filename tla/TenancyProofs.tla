---------------------------- MODULE TenancyProofs ----------------------------
(***************************************************************************)
(* Proofs about the organization's parts, for any number of requests,      *)
(* clients, workspaces, roles, pages and members.  Each part has an        *)
(* inductive invariant of its own; the steps of the others leave it alone. *)
(***************************************************************************)
EXTENDS Tenancy, FiniteSetTheorems, TLAPS

-----------------------------------------------------------------------------
(* Sessions.  The version of the row counts the passwords.  A token or a   *)
(* request that has its present value goes back to the present password,   *)
(* unless that version was carried over a reset.                           *)
SessionShape ==
    /\ issued \in 0 .. MaxTokens /\ version \in Nat /\ resets \in Nat
    /\ hash \in Tokens \cup {NoToken}
    /\ ver \in [Tokens -> Nat] /\ proof \in [Tokens -> Nat]
    /\ cpc \in [Clients -> Reading \cup {"idle", "answer"}]
    /\ held \in [Clients -> Tokens \cup {NoToken}]
    /\ mine \in [Clients -> Tokens \cup {NoToken}]
    /\ cver \in [Clients -> Nat] /\ cproof \in [Clients -> Nat]

Versions ==
    /\ version = resets
    /\ \A t \in Tokens :
          /\ ver[t] <= version
          /\ ver[t] = version => proof[t] = resets \/ carried
    /\ \A c \in Clients :
          /\ cver[c] <= version
          /\ cver[c] = version => cproof[c] = resets \/ carried

Issued ==
    /\ \A c \in Clients : held[c] = NoToken \/ held[c] <= issued
    /\ \A c \in Clients : mine[c] = NoToken \/ mine[c] <= issued
    /\ hash = NoToken \/ hash <= issued

Holding ==
    \A c \in Clients :
        /\ cpc[c] \in Reading /\ c \notin outdated => cver[c] = version
        /\ cpc[c] # "answer" /\ held[c] # NoToken /\ c \notin disturbed
              => Accepted(held[c])
        /\ cpc[c] = "answer" /\ c \notin disturbed
              => mine[c] # NoToken /\ Accepted(mine[c])

SignedOutHolds ==
    signedOut => hash = NoToken /\ \A c \in Clients : cpc[c] \notin Underway

SessionsInv == SessionShape /\ Versions /\ Issued /\ Holding /\ SignedOutHolds

LEMMA SessionsStart == SessionsInit => SessionsInv
  <1> SUFFICES ASSUME SessionsInit PROVE SessionsInv
    OBVIOUS
  <1>1. SessionShape
    BY SessionsAssumption DEF SessionsInit, SessionShape, Tokens, Reading, Underway
  <1>2. Versions /\ Issued /\ SignedOutHolds
    BY DEF SessionsInit, Versions, Issued, SignedOutHolds, Underway, Writing
  <1>3. Holding
    BY DEF SessionsInit, Holding, Reading, Underway, Writing
  <1> QED BY <1>1, <1>2, <1>3 DEF SessionsInv

(* A request that begins carries the version that counts.                  *)
LEMMA Begins ==
    ASSUME SessionsInv, NEW c \in Clients, NEW pc \in Reading, NEW password \in Nat,
           Begin(c, pc, password), cpc[c] = "idle", password = version \/ carried,
           ~signedOut'
    PROVE  SessionsInv'
  <1> USE SessionsAssumption DEF SessionsInv, Reading, Underway, Writing, Tokens, tokens, Begin
  <1>1. SessionShape'
    BY DEF SessionShape
  <1>2. Versions' /\ Issued' /\ SignedOutHolds'
    BY DEF Versions, Issued, SignedOutHolds, SessionShape
  <1>3. Holding'
    BY DEF Holding, SessionShape, Accepted
  <1> QED BY <1>1, <1>2, <1>3

LEMMA SessionsStep == SessionsInv /\ [SessionsNext]_sessionVars => SessionsInv'
  <1> SUFFICES ASSUME SessionsInv, [SessionsNext]_sessionVars PROVE SessionsInv'
    OBVIOUS
  <1> USE SessionsAssumption DEF SessionsInv, Reading, Underway, Writing, Tokens, tokens
  <1>1. ASSUME NewPassword, hash' \in {hash, NoToken} PROVE SessionsInv'
    <2> USE <1>1 DEF NewPassword
    <2>1. SessionShape'
      BY SMTT(30) DEF SessionShape
    <2>2. Versions' /\ Issued' /\ SignedOutHolds'
      BY DEF Versions, Issued, SignedOutHolds, SessionShape
    <2>3. Holding'
      BY DEF Holding, SessionShape
    <2> QED BY <2>1, <2>2, <2>3
  <1>3. ASSUME NEW c \in Clients, Login(c) \/ Register(c) \/ SocialLogin(c) PROVE SessionsInv'
    <2>1. /\ Begin(c, "login", resets) \/ Begin(c, "register", resets)
          /\ cpc[c] = "idle" /\ ~signedOut'
      BY <1>3 DEF Login, Register, SocialLogin
    <2>2. resets \in Nat /\ resets = version
      BY DEF SessionShape, Versions
    <2>3. "login" \in Reading /\ "register" \in Reading
      OBVIOUS
    <2> QED BY <2>1, <2>2, <2>3, Begins
  <1>4. ASSUME NEW c \in Clients, Switch(c) \/ Onboard(c) \/ Refresh(c) PROVE SessionsInv'
    <2> DEFINE password == proof[held[c]]
    <2>1. /\ \/ Begin(c, "switch", password) \/ Begin(c, "onboard", password)
             \/ Begin(c, "renew", password) \/ Begin(c, "expel", password)
          /\ cpc[c] = "idle" /\ held[c] # NoToken /\ ver[held[c]] = version
      BY <1>4 DEF Switch, Onboard, LetIn, Refresh
    <2>2. ~signedOut'
      BY <1>4 DEF Switch, Onboard, LetIn, Refresh, SignedOutHolds
    <2>3. held[c] \in Tokens
      BY <2>1 DEF SessionShape
    <2>4. (password = version \/ carried) /\ password \in Nat
      BY <2>1, <2>3 DEF SessionShape, Versions
    <2>5. {"switch", "onboard", "renew", "expel"} \subseteq Reading
      OBVIOUS
    <2> HIDE DEF password
    <2> QED BY <2>1, <2>2, <2>4, <2>5, Begins
  <1>6. ASSUME NEW c \in Clients, CreateUser(c) PROVE SessionsInv'
    <2> USE <1>6 DEF CreateUser
    <2>1. SessionShape'
      BY DEF SessionShape
    <2>2. Versions' /\ Issued' /\ SignedOutHolds'
      BY DEF Versions, Issued, SignedOutHolds, SessionShape
    <2>3. Holding'
      BY DEF Holding, SessionShape, Accepted
    <2> QED BY <2>1, <2>2, <2>3
  <1>7. ASSUME NEW c \in Clients, CommitSwitch(c) \/ CommitOnboarding(c)
        PROVE  SessionsInv'
    <2> USE <1>7 DEF CommitSwitch, CommitOnboarding, ReadVersion
    <2>1. SessionShape'
      BY DEF SessionShape
    <2>2. Versions' /\ Issued' /\ SignedOutHolds'
      <3>1. c \notin outdated => cver[c] = version
        BY DEF Holding
      <3>2. cproof[c] = resets \/ carried'
        BY <3>1 DEF Versions
      <3>3. /\ c \in Clients
            /\ cver' = [cver EXCEPT ![c] = version] /\ cver \in [Clients -> Nat]
            /\ carried => carried' /\ version \in Nat
            /\ UNCHANGED <<version, resets, ver, proof, cproof>>
        BY DEF SessionShape
      <3>4. \A t \in Tokens : ver'[t] = version' => proof'[t] = resets' \/ carried'
        BY <3>3 DEF Versions
      <3>5. \A d \in Clients : /\ cver'[d] <= version'
                               /\ cver'[d] = version' => cproof'[d] = resets' \/ carried'
        <4>1. ASSUME NEW d \in Clients
              PROVE  /\ cver'[d] <= version'
                     /\ cver'[d] = version' => cproof'[d] = resets' \/ carried'
          <5>1. CASE d = c
            <6>1. version' = version /\ version \in Nat
              BY DEF SessionShape
            <6>0. cver'[c] = version
              BY ONLY <3>3
            <6>2. cproof'[c] = resets' \/ carried'
              BY ONLY <3>2, <3>3
            <6> QED BY ONLY <5>1, <6>0, <6>1, <6>2
          <5>2. CASE d # c
            BY <3>3, <5>2 DEF Versions
          <5> QED BY <5>1, <5>2
        <4> QED BY <4>1
      <3>6. Versions'
        BY <3>3, <3>4, <3>5 DEF Versions
      <3> QED BY <3>6 DEF Issued, SignedOutHolds, SessionShape
    <2>3. Holding'
      BY DEF Holding, SessionShape, Accepted
    <2> QED BY <2>1, <2>2, <2>3
  <1>8. ASSUME NEW c \in Clients, Refused(c) PROVE SessionsInv'
    <2> USE <1>8 DEF Refused
    <2>1. SessionShape'
      BY DEF SessionShape
    <2>2. Versions' /\ Issued' /\ SignedOutHolds'
      BY DEF Versions, Issued, SignedOutHolds, SessionShape
    <2>3. Holding'
      BY DEF Holding, SessionShape, Accepted
    <2> QED BY <2>1, <2>2, <2>3
  <1>9. ASSUME NEW c \in Clients, Expel(c) PROVE SessionsInv'
    <2> USE <1>9 DEF Expel, Rest
    <2>1. SessionShape'
      BY DEF SessionShape
    <2>2. Versions' /\ Issued' /\ SignedOutHolds'
      BY DEF Versions, Issued, SignedOutHolds, SessionShape
    <2>3. Holding'
      BY DEF Holding, SessionShape, Accepted
    <2> QED BY <2>1, <2>2, <2>3
  <1>10. ASSUME NEW c \in Clients, Write(c) PROVE SessionsInv'
    <2> DEFINE t == issued + 1
    <2> USE <1>10 DEF Write
    <2>1. t \in Tokens /\ t # NoToken /\ issued' = t /\ hash' = t
      BY DEF SessionShape
    <2>2. SessionShape'
      BY <2>1 DEF SessionShape
    <2>3. Versions' /\ Issued'
      <3>1. /\ ver' = [ver EXCEPT ![t] = cver[c]] /\ proof' = [proof EXCEPT ![t] = cproof[c]]
            /\ ver \in [Tokens -> Nat] /\ proof \in [Tokens -> Nat]
            /\ UNCHANGED <<version, resets, cver, cproof, carried>>
        BY DEF SessionShape
      <3>2. \A u \in Tokens : /\ ver'[u] <= version'
                              /\ ver'[u] = version' => proof'[u] = resets' \/ carried'
        <4>1. ASSUME NEW u \in Tokens
              PROVE  /\ ver'[u] <= version'
                     /\ ver'[u] = version' => proof'[u] = resets' \/ carried'
          <5>1. CASE u = t
            BY <3>1, <5>1 DEF Versions
          <5>2. CASE u # t
            BY <3>1, <5>2 DEF Versions
          <5> QED BY <5>1, <5>2
        <4> QED BY <4>1
      <3>3. Versions'
        BY <3>1, <3>2 DEF Versions
      <3>4. Issued'
        BY <2>1 DEF Issued, SessionShape
      <3> QED BY <3>3, <3>4
    <2>4. SignedOutHolds'
      BY DEF SignedOutHolds
    <2>5. Holding'
      BY <2>1 DEF Holding, SessionShape, Accepted
    <2> QED BY <2>2, <2>3, <2>4, <2>5
  <1>11. ASSUME NEW c \in Clients, Answered(c) PROVE SessionsInv'
    <2> USE <1>11 DEF Answered, Rest
    <2>1. SessionShape'
      BY DEF SessionShape
    <2>2. Versions' /\ Issued' /\ SignedOutHolds'
      BY DEF Versions, Issued, SignedOutHolds, SessionShape
    <2>3. Holding'
      BY DEF Holding, SessionShape, Accepted
    <2> QED BY <2>1, <2>2, <2>3
  <1>12. ASSUME NEW c \in Clients, AnswerMissed(c) PROVE SessionsInv'
    <2> USE <1>12 DEF AnswerMissed, Rest
    <2>1. SessionShape'
      BY DEF SessionShape
    <2>2. Versions' /\ Issued' /\ SignedOutHolds'
      BY DEF Versions, Issued, SignedOutHolds, SessionShape
    <2>3. Holding'
      BY DEF Holding, SessionShape, Accepted
    <2> QED BY <2>1, <2>2, <2>3
  <1>13. ASSUME NEW c \in Clients, GiveUp(c) PROVE SessionsInv'
    <2> USE <1>13 DEF GiveUp, Rest
    <2>1. SessionShape'
      BY DEF SessionShape
    <2>2. Versions' /\ Issued' /\ SignedOutHolds'
      BY DEF Versions, Issued, SignedOutHolds, SessionShape
    <2>3. Holding'
      BY DEF Holding, SessionShape, Accepted
    <2> QED BY <2>1, <2>2, <2>3
  <1>14. ASSUME NEW c \in Clients, Logout(c) PROVE SessionsInv'
    <2> USE <1>14 DEF Logout
    <2>1. SessionShape'
      BY DEF SessionShape
    <2>2. Versions' /\ Issued' /\ SignedOutHolds'
      BY DEF Versions, Issued, SignedOutHolds, SessionShape
    <2>3. Holding'
      BY DEF Holding, SessionShape, Accepted
    <2> QED BY <2>1, <2>2, <2>3
  <1>15. CASE UNCHANGED sessionVars
    BY <1>15 DEF sessionVars, SessionShape, Versions, Issued, Holding, SignedOutHolds, Accepted
  <1>16. CASE ResetPassword \/ ChangePassword
    BY <1>1, <1>16 DEF ResetPassword, ChangePassword
  <1> QED
    BY <1>3, <1>4, <1>6, <1>7, <1>8, <1>9, <1>10, <1>11, <1>12, <1>13, <1>14,
       <1>15, <1>16 DEF SessionsNext

LEMMA SessionsHold == SessionsInv => SessionsKept
  <1> SUFFICES ASSUME SessionsInv PROVE SessionsKept
    OBVIOUS
  <1>1. SignedIn /\ LogoutHolds
    BY DEF SessionsInv, Holding, SignedIn, SignedOutHolds, LogoutHolds
  <1>2. 1 .. issued \subseteq Tokens
    BY SessionsAssumption DEF SessionsInv, SessionShape, Tokens
  <1>3. ASSUME NEW t \in 1 .. issued, Accepted(t) PROVE proof[t] = resets \/ carried
    BY <1>2, <1>3 DEF SessionsInv, Versions, Accepted
  <1> QED BY <1>1, <1>3 DEF SessionsKept, ResetRevokes

-----------------------------------------------------------------------------
(* Workspaces.  Who may create one was told so while there was room; who   *)
(* deletes one has seen two; who removes an owner has seen another.        *)
Creating == {a \in Admins : apc[a] = "create"}

SpacesInv ==
    /\ SpacesTypeOK
    /\ seen \in [Admins -> SUBSET (Spaces \cup Team)]
    /\ Cardinality(spaces) + Cardinality(Creating)
          <= MaxWorkspaces + Cardinality(Admins) - 1
    /\ \A a \in Admins : apc[a] = "idle" => seen[a] = {}
    /\ \A a \in Admins : apc[a] = "delete" => \E s, t \in seen[a] : s # t
    /\ \A a \in Admins : apc[a] \in {"explicit", "inherited", "remove"} => atarget[a] \in Team
    /\ \A a \in Admins : apc[a] \in {"inherited", "remove"} => atarget[a] \notin seen[a]
    /\ LastSpaceKept /\ BossKept

LEMMA SpacesStart == WorkspacesInit => SpacesInv
  <1> SUFFICES ASSUME WorkspacesInit PROVE SpacesInv
    OBVIOUS
  <1> USE WorkspacesAssumption DEF WorkspacesInit
  <1>1. SpacesTypeOK /\ seen \in [Admins -> SUBSET (Spaces \cup Team)]
    BY DEF SpacesTypeOK
  <1>2. Cardinality(spaces) + Cardinality(Creating) <= MaxWorkspaces + Cardinality(Admins) - 1
    <2>1. Cardinality(spaces) = 1 /\ Cardinality(Creating) = 0
      BY FS_Singleton, FS_EmptySet DEF Creating
    <2>2. Cardinality(Admins) \in Nat /\ Cardinality(Admins) # 0
      BY FS_CardinalityType, FS_EmptySet
    <2> QED BY <2>1, <2>2
  <1>3. LastSpaceKept /\ BossKept
    BY DEF LastSpaceKept, BossKept
  <1> QED BY <1>1, <1>2, <1>3 DEF SpacesInv

LEMMA SpacesFinite ==
    ASSUME SpacesInv
    PROVE  /\ IsFiniteSet(spaces) /\ IsFiniteSet(Creating)
           /\ Cardinality(spaces) \in Nat /\ Cardinality(Creating) \in Nat
           /\ Cardinality(Admins) \in Nat
  <1>1. IsFiniteSet(spaces) /\ IsFiniteSet(Creating)
    BY WorkspacesAssumption, FS_Subset DEF SpacesInv, SpacesTypeOK, Creating
  <1> QED BY <1>1, WorkspacesAssumption, FS_CardinalityType

(* Fewer workspaces, and fewer that may create one, keep the limit.        *)
LEMMA LimitStays ==
    ASSUME SpacesInv, spaces' \subseteq spaces, Creating' \subseteq Creating
    PROVE  Cardinality(spaces') + Cardinality(Creating')
              <= MaxWorkspaces + Cardinality(Admins) - 1
  <1>1. /\ IsFiniteSet(spaces') /\ Cardinality(spaces') <= Cardinality(spaces)
        /\ IsFiniteSet(Creating') /\ Cardinality(Creating') <= Cardinality(Creating)
    BY SpacesFinite, FS_Subset
  <1>2. Cardinality(spaces') \in Nat /\ Cardinality(Creating') \in Nat
    BY <1>1, FS_CardinalityType
  <1> QED BY <1>1, <1>2, SpacesFinite, WorkspacesAssumption DEF SpacesInv

LEMMA SpacesStep == SpacesInv /\ [WorkspacesNext]_spaceVars => SpacesInv'
  <1> SUFFICES ASSUME SpacesInv, [WorkspacesNext]_spaceVars PROVE SpacesInv'
    OBVIOUS
  <1> USE WorkspacesAssumption DEF Goto, Over, arequest, history, LastSpaceKept
  <1> DEFINE Shape == SpacesTypeOK /\ seen \in [Admins -> SUBSET (Spaces \cup Team)]
             Sights == /\ \A a \in Admins : apc[a] = "idle" => seen[a] = {}
                       /\ \A a \in Admins : apc[a] = "delete" => \E s, t \in seen[a] : s # t
                       /\ \A a \in Admins : apc[a] \in {"explicit", "inherited", "remove"}
                             => atarget[a] \in Team
                       /\ \A a \in Admins : apc[a] \in {"inherited", "remove"}
                             => atarget[a] \notin seen[a]
             Limit == Cardinality(spaces) + Cardinality(Creating)
                         <= MaxWorkspaces + Cardinality(Admins) - 1
  <1>0. SpacesInv <=> Shape /\ Sights /\ Limit /\ LastSpaceKept /\ BossKept
    BY DEF SpacesInv
  <1>00. SpacesInv' <=> Shape' /\ Sights' /\ Limit' /\ LastSpaceKept' /\ BossKept'
    BY DEF SpacesInv
  <1>1. ASSUME NEW a \in Admins, CheckLimit(a) PROVE SpacesInv'
    <2>1. Shape' /\ Sights'
      BY <1>0, <1>1 DEF CheckLimit, SpacesTypeOK
    <2>2. Creating' \subseteq Admins /\ spaces' = spaces
      BY <1>1 DEF CheckLimit, Creating
    <2>3. /\ IsFiniteSet(Creating') /\ Cardinality(Creating') <= Cardinality(Admins)
          /\ Cardinality(Creating') \in Nat
      BY <2>2, FS_Subset, FS_CardinalityType
    <2>4. Cardinality(spaces) <= MaxWorkspaces - 1
      BY <1>1, SpacesFinite DEF CheckLimit, HasSpace
    <2>5. Limit'
      BY <2>2, <2>3, <2>4, SpacesFinite
    <2>6. LastSpaceKept' /\ BossKept'
      BY <1>0, <1>1 DEF CheckLimit, BossKept, Bosses
    <2> QED BY <1>00, <2>1, <2>5, <2>6
  <1>2. ASSUME NEW a \in Admins, CreateSpace(a) PROVE SpacesInv'
    <2>1. PICK s \in Spaces \ spaces : spaces' = spaces \cup {s}
      BY <1>2 DEF CreateSpace
    <2>2. Shape' /\ Sights'
      BY <1>0, <1>2 DEF CreateSpace, SpacesTypeOK
    <2>3. Creating' = Creating \ {a} /\ a \in Creating
      BY <1>0, <1>2 DEF CreateSpace, SpacesTypeOK, Creating
    <2>4. Cardinality(spaces \cup {s}) = Cardinality(spaces) + 1
      BY <2>1, SpacesFinite, FS_AddElement
    <2>5. Cardinality(Creating \ {a}) = Cardinality(Creating) - 1
      BY <2>3, SpacesFinite, FS_RemoveElement
    <2>6. Limit'
      BY <1>0, <2>1, <2>3, <2>4, <2>5, SpacesFinite
    <2>7. LastSpaceKept' /\ BossKept'
      BY <1>0, <1>2, <2>1 DEF CreateSpace, BossKept, Bosses
    <2> QED BY <1>00, <2>2, <2>6, <2>7
  <1>3. ASSUME NEW a \in Admins, NEW s \in Spaces, ReadSpace(a, s) PROVE SpacesInv'
    <2>1. Shape' /\ Sights'
      BY <1>0, <1>3 DEF ReadSpace, SpacesTypeOK
    <2>2. spaces' \subseteq spaces /\ Creating' \subseteq Creating
      BY <1>0, <1>3 DEF ReadSpace, SpacesTypeOK, Creating
    <2>3. LastSpaceKept' /\ BossKept'
      BY <1>0, <1>3 DEF ReadSpace, BossKept, Bosses
    <2> QED BY <1>00, <2>1, <2>2, <2>3, LimitStays
  <1>4. ASSUME NEW a \in Admins, CountSpaces(a) PROVE SpacesInv'
    <2>1. \E s, t \in spaces : s # t
      <3>1. spaces # {}
        BY <1>4, FS_EmptySet DEF CountSpaces
      <3>2. PICK s \in spaces : TRUE
        BY <3>1
      <3>3. Cardinality({s}) = 1
        BY FS_Singleton
      <3>4. spaces # {s}
        BY <1>4, <3>3 DEF CountSpaces
      <3> QED BY <3>2, <3>4
    <2>2. Shape' /\ Sights'
      BY <1>0, <1>4, <2>1 DEF CountSpaces, SpacesTypeOK
    <2>3. spaces' \subseteq spaces /\ Creating' \subseteq Creating
      BY <1>0, <1>4 DEF CountSpaces, SpacesTypeOK, Creating
    <2>4. LastSpaceKept' /\ BossKept'
      BY <1>0, <1>4 DEF CountSpaces, BossKept, Bosses
    <2> QED BY <1>00, <2>2, <2>3, <2>4, LimitStays
  <1>5. ASSUME NEW a \in Admins, DeleteSpace(a) PROVE SpacesInv'
    <2>1. Shape' /\ Sights'
      BY <1>0, <1>5 DEF DeleteSpace, SpacesTypeOK
    <2>2. spaces' \subseteq spaces /\ Creating' \subseteq Creating
      BY <1>0, <1>5 DEF DeleteSpace, SpacesTypeOK, Creating
    <2>3. LastSpaceKept'
      <3>1. CASE emptied'
        BY <3>1
      <3>2. CASE ~emptied'
        <4>1. seen[a] \subseteq spaces /\ apc[a] = "delete"
          BY <1>5, <3>2 DEF DeleteSpace
        <4>2. PICK s, t \in seen[a] : s # t
          BY <1>0, <4>1
        <4> QED BY <1>5, <4>1, <4>2 DEF DeleteSpace
      <3> QED BY <3>1, <3>2
    <2>4. BossKept'
      BY <1>0, <1>5 DEF DeleteSpace, BossKept, Bosses
    <2> QED BY <1>00, <2>1, <2>2, <2>3, <2>4, LimitStays
  <1>6. ASSUME NEW p \in Team, NEW role \in RolesOf, AddMember(p, role) \/ UpdateRole(p, role)
        PROVE  SpacesInv'
    <2>1. Shape' /\ Sights'
      <3>1. CASE AddMember(p, role)
        BY <1>0, <3>1 DEF AddMember, SpacesTypeOK
      <3>2. CASE UpdateRole(p, role)
        BY <1>0, <3>2 DEF UpdateRole, SpacesTypeOK
      <3> QED BY <1>6, <3>1, <3>2
    <2>2. spaces' \subseteq spaces /\ Creating' \subseteq Creating
      BY <1>6 DEF AddMember, UpdateRole, Creating
    <2>3. disowned' \/ Bosses \subseteq Bosses'
      BY <1>0, <1>6 DEF AddMember, UpdateRole, SpacesTypeOK, Bosses, IsBoss
    <2>4. LastSpaceKept' /\ BossKept'
      BY <1>0, <1>6, <2>3 DEF AddMember, UpdateRole, BossKept
    <2> QED BY <1>00, <2>1, <2>2, <2>4, LimitStays
  <1>7. ASSUME NEW a \in Admins, NEW p \in Team, ReadMember(a, p) PROVE SpacesInv'
    <2>1. Shape' /\ Sights'
      BY <1>0, <1>7 DEF ReadMember, SpacesTypeOK
    <2>2. spaces' \subseteq spaces /\ Creating' \subseteq Creating
      BY <1>0, <1>7 DEF ReadMember, SpacesTypeOK, Creating
    <2>3. LastSpaceKept' /\ BossKept'
      BY <1>0, <1>7 DEF ReadMember, BossKept, Bosses
    <2> QED BY <1>00, <2>1, <2>2, <2>3, LimitStays
  <1>8. ASSUME NEW a \in Admins, CountExplicit(a) \/ CountInherited(a) PROVE SpacesInv'
    <2>1. Shape' /\ Sights'
      BY <1>0, <1>8 DEF CountExplicit, CountInherited, SpacesTypeOK
    <2>2. spaces' \subseteq spaces /\ Creating' \subseteq Creating
      BY <1>0, <1>8 DEF CountExplicit, CountInherited, SpacesTypeOK, Creating
    <2>3. LastSpaceKept' /\ BossKept'
      BY <1>0, <1>8 DEF CountExplicit, CountInherited, BossKept, Bosses
    <2> QED BY <1>00, <2>1, <2>2, <2>3, LimitStays
  <1>9. ASSUME NEW a \in Admins, RemoveMember(a) PROVE SpacesInv'
    <2>1. Shape' /\ Sights'
      BY <1>0, <1>9 DEF RemoveMember, SpacesTypeOK, RolesOf
    <2>2. spaces' \subseteq spaces /\ Creating' \subseteq Creating
      BY <1>0, <1>9 DEF RemoveMember, SpacesTypeOK, Creating
    <2>3. Bosses' = Bosses \ {atarget[a]}
      BY <1>0, <1>9 DEF RemoveMember, SpacesTypeOK, Bosses, IsBoss
    <2>4. BossKept'
      <3>1. CASE disowned'
        BY <3>1 DEF BossKept
      <3>2. CASE ~disowned' /\ seen[a] = {}
        BY <1>0, <1>9, <2>3, <3>2 DEF RemoveMember, Overtaken, Bosses, BossKept
      <3>3. CASE ~disowned' /\ seen[a] # {}
        BY <1>0, <1>9, <2>3, <3>3 DEF RemoveMember, Overtaken, BossKept
      <3> QED BY <3>1, <3>2, <3>3
    <2>5. LastSpaceKept'
      BY <1>0, <1>9 DEF RemoveMember
    <2> QED BY <1>00, <2>1, <2>2, <2>4, <2>5, LimitStays
  <1>10. ASSUME NEW a \in Admins, AdminGivesUp(a) PROVE SpacesInv'
    <2>1. Shape' /\ Sights'
      BY <1>0, <1>10 DEF AdminGivesUp, SpacesTypeOK
    <2>2. spaces' \subseteq spaces /\ Creating' \subseteq Creating
      BY <1>0, <1>10 DEF AdminGivesUp, SpacesTypeOK, Creating
    <2>3. LastSpaceKept' /\ BossKept'
      BY <1>0, <1>10 DEF AdminGivesUp, BossKept, Bosses
    <2> QED BY <1>00, <2>1, <2>2, <2>3, LimitStays
  <1>11. ASSUME NEW p \in Team, LeaveOrganization(p) PROVE SpacesInv'
    <2>1. Shape' /\ Sights'
      BY <1>0, <1>11 DEF LeaveOrganization, SpacesTypeOK, RolesOf
    <2>2. spaces' \subseteq spaces /\ Creating' \subseteq Creating
      BY <1>11 DEF LeaveOrganization, Creating
    <2>3. disowned' \/ Bosses \subseteq Bosses'
      BY <1>0, <1>11 DEF LeaveOrganization, SpacesTypeOK, Bosses
    <2>4. LastSpaceKept' /\ BossKept'
      BY <1>0, <1>11, <2>3 DEF LeaveOrganization, BossKept
    <2> QED BY <1>00, <2>1, <2>2, <2>4, LimitStays
  <1>12. CASE UNCHANGED spaceVars
    BY <1>0, <1>12 DEF spaceVars, SpacesInv, SpacesTypeOK, Creating, BossKept, Bosses
  <1> QED
    BY <1>1, <1>2, <1>3, <1>4, <1>5, <1>6, <1>7, <1>8, <1>9, <1>10, <1>11, <1>12
    DEF WorkspacesNext, AdminSteps

LEMMA SpacesHold == SpacesInv => WorkspacesKept
  BY SpacesFinite, WorkspacesAssumption DEF SpacesInv, WorkspacesKept, LimitHeld

-----------------------------------------------------------------------------
(* Founding.  Who waits for his payment, or undoes it, has his slug.       *)
FoundingInv ==
    /\ org \in [Slugs -> Founders \cup {NoFounder}]
    /\ fpc \in [Founders -> {"idle", "look", "commit", "pay", "undo", "refused", "answered"}]
    /\ fslug \in [Founders -> Slugs]
    /\ \A f \in Founders : fpc[f] \in {"pay", "undo", "answered"} => org[fslug[f]] = f
    /\ FoundingKept

LEMMA FoundingStart == FoundingInit => FoundingInv
  BY FoundingAssumption DEF FoundingInit, FoundingInv, FoundingKept, Slugs

LEMMA FoundingStep == FoundingInv /\ [FoundingNext]_foundVars => FoundingInv'
  <1> SUFFICES ASSUME FoundingInv, [FoundingNext]_foundVars PROVE FoundingInv'
    OBVIOUS
  <1> USE FoundingAssumption DEF FoundingInv, FoundingKept, Step
  <1>1. ASSUME NEW f \in Founders, BeginFounding(f) PROVE FoundingInv'
    BY <1>1 DEF BeginFounding, Slugs
  <1>2. ASSUME NEW f \in Founders, LookForSlug(f) PROVE FoundingInv'
    <2>1. fslug[f] \in Slugs /\ (fslug[f] < LastSlug => fslug[f] + 1 \in Slugs)
      BY DEF Slugs
    <2>2. fpc[f] = "look"
      BY <1>2 DEF LookForSlug
    <2> QED BY <1>2, <2>1, <2>2 DEF LookForSlug
  <1>3. ASSUME NEW f \in Founders, CommitOrg(f) PROVE FoundingInv'
    BY <1>3 DEF CommitOrg
  <1>4. ASSUME NEW f \in Founders, InitPayment(f) \/ PaymentFails(f) PROVE FoundingInv'
    BY <1>4 DEF InitPayment, PaymentFails
  <1>5. ASSUME NEW f \in Founders, Compensate(f) \/ CompensateFails(f) PROVE FoundingInv'
    BY <1>5 DEF Compensate, CompensateFails
  <1>6. ASSUME NEW f \in Founders, FoundingCrash(f) PROVE FoundingInv'
    BY <1>6 DEF FoundingCrash
  <1>7. CASE UNCHANGED foundVars
    BY <1>7 DEF foundVars
  <1> QED BY <1>1, <1>2, <1>3, <1>4, <1>5, <1>6, <1>7 DEF FoundingNext

-----------------------------------------------------------------------------
(* Roles.  Whoever is not overtaken has cleared all there is to clear.     *)
RoleShape ==
    /\ roles \subseteq made /\ made \subseteq RoleIds
    /\ perms \in [RoleIds -> SUBSET Permissions]
    /\ granted \in [RoleIds -> SUBSET Permissions]
    /\ ypc \in [Keepers -> {"idle", "create", "update", "insert", "set", "fill", "drop"}]
    /\ yrole \in [Keepers -> RoleIds \cup {NoRole}]
    /\ yperms \in [Keepers -> SUBSET Permissions]
    /\ ydefault \in [Keepers -> BOOLEAN]
    /\ ycleared \in [Keepers -> SUBSET (RoleIds \cup Permissions)]
    /\ default \subseteq RoleIds
    /\ \A y \in Keepers : ypc[y] # "idle" => yrole[y] \in RoleIds

Unrivalled == defaults \/ \A s, t \in default : s = t

Cleared ==
    \A y \in Keepers : y \notin overrun =>
        /\ ypc[y] \in {"insert", "set"} /\ ydefault[y] => default \subseteq ycleared[y]
        /\ ypc[y] = "fill" => perms[yrole[y]] \subseteq ycleared[y]

RolesInv ==
    /\ RoleShape /\ Unrivalled /\ Cleared
    /\ \A s \in roles \ mixed : perms[s] = granted[s]
    /\ worn \subseteq roles

LEMMA RolesStart == RolesInit => RolesInv
  BY DEF RolesInit, RolesInv, RoleShape, Unrivalled, Cleared

LEMMA RolesStep == RolesInv /\ [RolesNext]_roleVars => RolesInv'
  <1> SUFFICES ASSUME RolesInv, [RolesNext]_roleVars PROVE RolesInv'
    OBVIOUS
  <1> USE RolesAssumption DEF RolesInv, Call, Return, yhistory, yrequest
  <1>1. ASSUME NEW y \in Keepers, NEW s \in RoleIds, NEW isDefault \in BOOLEAN,
               NEW given \in SUBSET Permissions,
               BeginCreate(y, s, given, isDefault) \/ BeginUpdate(y, s, isDefault)
        PROVE  RolesInv'
    <2>1. RoleShape'
      BY <1>1 DEF BeginCreate, BeginUpdate, RoleShape
    <2>2. Unrivalled' /\ Cleared'
      BY <1>1 DEF BeginCreate, BeginUpdate, RoleShape, Unrivalled, Cleared
    <2> QED BY <1>1, <2>1, <2>2 DEF BeginCreate, BeginUpdate
  <1>2. ASSUME NEW y \in Keepers, ClearDefaults(y) PROVE RolesInv'
    <2>1. RoleShape'
      BY <1>2 DEF ClearDefaults, RoleShape
    <2>2. Unrivalled' /\ Cleared'
      BY <1>2 DEF ClearDefaults, RoleShape, Unrivalled, Cleared
    <2> QED BY <1>2, <2>1, <2>2 DEF ClearDefaults
  <1>3. ASSUME NEW y \in Keepers, InsertRole(y) PROVE RolesInv'
    <2> DEFINE s == yrole[y]
    <2>0. s \in RoleIds /\ s \notin roles
      BY <1>3 DEF InsertRole, RoleShape
    <2>1. RoleShape'
      BY <1>3, <2>0 DEF InsertRole, RoleShape
    <2>2. Unrivalled'
      BY <1>3 DEF InsertRole, RoleShape, Unrivalled, Cleared
    <2>3. Cleared'
      BY <1>3 DEF InsertRole, RoleShape, Cleared, Overtake
    <2>4. \A t \in roles' \ mixed' : perms'[t] = granted'[t]
      BY <1>3, <2>0 DEF InsertRole, RoleShape
    <2> QED BY <1>3, <2>1, <2>2, <2>3, <2>4 DEF InsertRole
  <1>4. ASSUME NEW y \in Keepers, SetDefault(y) PROVE RolesInv'
    <2>1. RoleShape'
      BY <1>4 DEF SetDefault, RoleShape
    <2>2. Unrivalled'
      BY <1>4 DEF SetDefault, RoleShape, Unrivalled, Cleared
    <2>3. Cleared'
      BY <1>4 DEF SetDefault, RoleShape, Cleared, Overtake
    <2> QED BY <1>4, <2>1, <2>2, <2>3 DEF SetDefault
  <1>5. ASSUME NEW y \in Keepers, NEW s \in RoleIds, NEW given \in SUBSET Permissions,
               DeleteGrants(y, s, given)
        PROVE  RolesInv'
    <2>1. RoleShape'
      BY <1>5 DEF DeleteGrants, RoleShape
    <2>2. Unrivalled' /\ Cleared'
      BY <1>5 DEF DeleteGrants, RoleShape, Unrivalled, Cleared
    <2> QED BY <1>5, <2>1, <2>2 DEF DeleteGrants
  <1>6. ASSUME NEW y \in Keepers, InsertGrants(y) PROVE RolesInv'
    <2> DEFINE s == yrole[y]
    <2>0. s \in RoleIds
      BY <1>6 DEF InsertGrants, RoleShape
    <2>1. RoleShape'
      BY <1>6, <2>0 DEF InsertGrants, RoleShape
    <2>2. Unrivalled' /\ Cleared'
      BY <1>6 DEF InsertGrants, RoleShape, Unrivalled, Cleared, Overtake
    <2>3. y \notin overrun => perms'[s] = granted'[s]
      BY <1>6, <2>0 DEF InsertGrants, RoleShape, Cleared
    <2>4. \A t \in roles \ {s} : perms'[t] = perms[t] /\ granted'[t] = granted[t]
      BY <1>6, <2>0 DEF InsertGrants, RoleShape
    <2>5. \A t \in roles' \ mixed' : perms'[t] = granted'[t]
      BY <1>6, <2>3, <2>4 DEF InsertGrants
    <2> QED BY <1>6, <2>1, <2>2, <2>5 DEF InsertGrants
  <1>7. ASSUME NEW y \in Keepers, NEW s \in RoleIds, CountWearers(y, s) PROVE RolesInv'
    <2>1. RoleShape'
      BY <1>7 DEF CountWearers, RoleShape
    <2>2. Unrivalled' /\ Cleared'
      BY <1>7 DEF CountWearers, RoleShape, Unrivalled, Cleared
    <2> QED BY <1>7, <2>1, <2>2 DEF CountWearers
  <1>8. ASSUME NEW y \in Keepers, DropRole(y) PROVE RolesInv'
    <2>0. yrole[y] \in RoleIds
      BY <1>8 DEF DropRole, RoleShape
    <2>1. RoleShape'
      BY <1>8, <2>0 DEF DropRole, RoleShape
    <2>2. Unrivalled' /\ Cleared'
      BY <1>8 DEF DropRole, RoleShape, Unrivalled, Cleared, Overtake
    <2>3. \A t \in roles' \ mixed' : perms'[t] = granted'[t]
      BY <1>8, <2>0 DEF DropRole, RoleShape
    <2> QED BY <1>8, <2>1, <2>2, <2>3 DEF DropRole
  <1>9. ASSUME NEW y \in Keepers, KeeperFails(y) PROVE RolesInv'
    <2>1. RoleShape'
      BY <1>9 DEF KeeperFails, RoleShape
    <2>2. Unrivalled' /\ Cleared'
      BY <1>9 DEF KeeperFails, RoleShape, Unrivalled, Cleared
    <2> QED BY <1>9, <2>1, <2>2 DEF KeeperFails
  <1>10. ASSUME NEW s \in RoleIds, Wear(s) PROVE RolesInv'
    BY <1>10 DEF Wear, RoleShape, Unrivalled, Cleared
  <1>11. CASE UNCHANGED roleVars
    BY <1>11 DEF roleVars, RoleShape, Unrivalled, Cleared
  <1> QED
    BY <1>1, <1>2, <1>3, <1>4, <1>5, <1>6, <1>7, <1>8, <1>9, <1>10, <1>11
    DEF RolesNext, KeeperSteps

LEMMA RolesHold == RolesInv => RolesKept
  <1> SUFFICES ASSUME RolesInv PROVE defaults \/ Cardinality(default) <= 1
    BY DEF RolesInv, RolesKept
  <1>1. CASE default = {}
    BY <1>1, FS_EmptySet
  <1>2. ASSUME NEW s \in default, ~defaults PROVE Cardinality(default) <= 1
    <2>1. default = {s}
      BY <1>2 DEF RolesInv, Unrivalled
    <2> QED BY <2>1, FS_Singleton
  <1> QED BY <1>1, <1>2

-----------------------------------------------------------------------------
(* Connections.  A request that finds a page in two workspaces, its own    *)
(* among them, finds one that two requests took.                           *)
LinkShape ==
    /\ link \in {"CONNECTED", "DISCONNECTED"}
    /\ prof \in [Places -> [Pages -> Status]]
    /\ kpc \in [Importers -> {"idle", "pages", "count", "look", "upsert", "hook", "unlink"}]
    /\ kplace \in [Importers -> Places \cup {NoPlace}]
    /\ kwant \in [Importers -> SUBSET Pages]
    /\ kpage \in [Importers -> Pages \cup {NoPage}]
    /\ kalone \in [Importers -> BOOLEAN]
    /\ \A k \in Importers :
          /\ kpc[k] \in {"pages", "count", "look", "upsert", "hook"} => kplace[k] \in Places
          /\ kpc[k] = "upsert" => kpage[k] \in Pages

LinksInv ==
    /\ LinkShape
    /\ \A p \in Pages \ crossed : \A v, w \in Owners(p) : v = w
    /\ \A k \in Importers : kpc[k] = "upsert" /\ ~kalone[k] => kpage[k] \in crossed
    /\ PausedTogether

LEMMA LinksStart == ConnectionsInit => LinksInv
  BY DEF ConnectionsInit, LinksInv, LinkShape, Owners, PausedTogether, Status

LEMMA LinksStep == LinksInv /\ [ConnectionsNext]_linkVars => LinksInv'
  <1> SUFFICES ASSUME LinksInv, [ConnectionsNext]_linkVars PROVE LinksInv'
    OBVIOUS
  <1> USE ConnectionsAssumption DEF LinksInv, At, Done, krequest, PausedTogether, Owners, Status
  <1>1. ASSUME NEW k \in Importers, NEW w \in Places, NEW wanted \in SUBSET Pages,
               ReadRoom(k, w, wanted)
        PROVE  LinksInv'
    BY <1>1 DEF ReadRoom, LinkShape
  <1>2. ASSUME NEW k \in Importers, FetchPages(k) \/ CountNew(k) PROVE LinksInv'
    BY <1>2 DEF FetchPages, CountNew, LinkShape
  <1>3. ASSUME NEW k \in Importers, NEW p \in Pages, LookForOwner(k, p) PROVE LinksInv'
    <2>1. LinkShape'
      BY <1>3 DEF LookForOwner, LinkShape
    <2>2. ~kalone'[k] => p \in crossed
      BY <1>3 DEF LookForOwner, LinkShape
    <2>3. \A j \in Importers : kpc'[j] = "upsert" /\ ~kalone'[j] => kpage'[j] \in crossed'
      BY <1>3, <2>2 DEF LookForOwner, LinkShape
    <2>4. UNCHANGED <<link, prof, crossed, after>>
      BY <1>3 DEF LookForOwner
    <2> QED BY <2>1, <2>3, <2>4
  <1>4. ASSUME NEW k \in Importers, UpsertPage(k) PROVE LinksInv'
    <2>1. kplace[k] \in Places /\ kpage[k] \in Pages
      BY <1>4 DEF UpsertPage, LinkShape
    <2>2. LinkShape'
      BY <1>4, <2>1 DEF UpsertPage, LinkShape
    <2>3. \A p \in Pages, w \in Places :
             prof'[w][p] = IF w = kplace[k] /\ p = kpage[k] THEN "CONNECTED" ELSE prof[w][p]
      BY <1>4, <2>1 DEF UpsertPage, LinkShape
    <2>4. \A p \in Pages \ crossed' : \A v, w \in Owners(p)' : v = w
      BY <1>4, <2>1, <2>3 DEF UpsertPage, LinkShape
    <2>5. \A j \in Importers : kpc'[j] = "upsert" /\ ~kalone'[j] => kpage'[j] \in crossed'
      BY <1>4 DEF UpsertPage, LinkShape
    <2>6. PausedTogether'
      BY <1>4, <2>1, <2>3 DEF UpsertPage, LinkShape
    <2> QED BY <2>2, <2>4, <2>5, <2>6
  <1>5. ASSUME NEW k \in Importers, NextPage(k) PROVE LinksInv'
    <2>1. LinkShape'
      <3>1. CASE Done(k)
        BY <1>5, <3>1 DEF NextPage, LinkShape
      <3>2. CASE At(k, "look")
        <4>1. /\ kwant' = [kwant EXCEPT ![k] = @ \ {kpage[k]}]
              /\ kpage' = [kpage EXCEPT ![k] = NoPage]
              /\ kalone' = [kalone EXCEPT ![k] = FALSE]
              /\ kplace' = kplace
          BY <1>5, <3>2 DEF NextPage, LinkShape
        <4>2. kplace[k] \in Places
          BY <1>5 DEF NextPage, LinkShape
        <4> QED BY <1>5, <3>2, <4>1, <4>2 DEF NextPage, LinkShape
      <3> QED BY <1>5, <3>1, <3>2 DEF NextPage
    <2>2. \A j \in Importers : kpc'[j] = "upsert" /\ ~kalone'[j] => kpage'[j] \in crossed'
      BY <1>5 DEF NextPage, LinkShape
    <2>3. UNCHANGED <<link, prof, crossed, after>>
      BY <1>5 DEF NextPage
    <2> QED BY <2>1, <2>2, <2>3
  <1>6. ASSUME NEW k \in Importers, ImportFails(k) PROVE LinksInv'
    BY <1>6 DEF ImportFails, LinkShape
  <1>7. ASSUME NEW w \in Places, NEW p \in Pages, RemoveProfile(w, p) PROVE LinksInv'
    BY <1>7 DEF RemoveProfile, LinkShape
  <1>8. ASSUME NEW k \in Importers, Disconnect(k) PROVE LinksInv'
    BY <1>8 DEF Disconnect, LinkShape
  <1>9. ASSUME NEW k \in Importers, Unlink(k) PROVE LinksInv'
    BY <1>9 DEF Unlink, LinkShape
  <1>10. CASE Reconnect
    BY <1>10 DEF Reconnect, LinkShape
  <1>11. CASE UNCHANGED linkVars
    BY <1>11 DEF linkVars, LinkShape
  <1> QED
    BY <1>1, <1>2, <1>3, <1>4, <1>5, <1>6, <1>7, <1>8, <1>9, <1>10, <1>11
    DEF ConnectionsNext, ImporterSteps

LEMMA LinksHold == LinksInv => OneOwner /\ PausedTogether
  <1> SUFFICES ASSUME LinksInv, NEW p \in Pages \ crossed PROVE Cardinality(Owners(p)) <= 1
    BY DEF LinksInv, OneOwner
  <1>1. CASE Owners(p) = {}
    BY <1>1, FS_EmptySet
  <1>2. ASSUME NEW w \in Owners(p) PROVE Cardinality(Owners(p)) <= 1
    <2>1. Owners(p) = {w}
      BY <1>2 DEF LinksInv
    <2>2. Cardinality({w}) = 1
      BY FS_Singleton
    <2> QED BY <2>1, <2>2
  <1> QED BY <1>1, <1>2

-----------------------------------------------------------------------------
(* The room of a workspace.  A request that has read its room may still    *)
(* add as many pages as it read, and later those it has yet to add: its    *)
(* lot.  The rows with all lots never pass the room of every request: a    *)
(* request draws no lot but from the room that is left, or draws none.     *)
Lot(k, w) ==
    IF kplace[k] # w THEN {}
    ELSE IF kpc[k] \in {"pages", "count"} THEN 1 .. kroom[k]
    ELSE IF kpc[k] \in {"look", "upsert", "hook"} THEN kwant[k] \ Rows(w)
    ELSE {}

Tickets == (1 .. Room) \cup Pages
Drawn(w) == {t \in Importers \X Tickets : t[2] \in Lot(t[1], w)}

RoomShape ==
    /\ kroom \in [Importers -> 0 .. Room]
    /\ \A k \in Importers : kpc[k] = "upsert" => kpage[k] \in kwant[k]

Fits(w) ==
    /\ \A k \in Importers : Cardinality(Lot(k, w)) <= Room
    /\ Cardinality(Rows(w)) + Cardinality(Drawn(w)) <= Room * Cardinality(Importers)

RoomInv == RoomShape /\ \A w \in Places : Fits(w)

(* Lots of at most so many tickets are together at most the product.       *)
LEMMA LotsBounded ==
    ASSUME NEW n \in Nat, NEW S, NEW T, IsFiniteSet(S), NEW P \in SUBSET (S \X T), NEW L,
           \A k \in S : IsFiniteSet(L[k]) /\ Cardinality(L[k]) <= n,
           \A t \in P : t[2] \in L[t[1]]
    PROVE  IsFiniteSet(P) /\ Cardinality(P) <= n * Cardinality(S)
  <1> DEFINE Into(k) == Injection(L[k], 1 .. n)
             g == [k \in S |-> CHOOSE f : f \in Into(k)]
             h == [t \in P |-> <<t[1], g[t[1]][t[2]]>>]
  <1>1. ASSUME NEW k \in S PROVE \E f : f \in Into(k)
    <2> DEFINE c == Cardinality(L[k])
    <2>1. c \in Nat /\ c <= n
      BY FS_CardinalityType
    <2>2. IsFiniteSet(1 .. c) /\ Cardinality(1 .. c) = c
      BY <2>1, FS_Interval
    <2> HIDE DEF c
    <2>3. ExistsBijection(L[k], 1 .. c)
      BY <2>2, FS_SameCardinalityBij DEF c
    <2>4. PICK f : f \in Bijection(L[k], 1 .. c)
      BY <2>3 DEF ExistsBijection
    <2>5. f \in Injection(L[k], 1 .. n)
      BY <2>1, <2>4 DEF Bijection, Injection
    <2> QED BY <2>5
  <1>2. \A k \in S : g[k] \in Into(k)
    BY <1>1
  <1> HIDE DEF g
  <1>3. \A k \in S : /\ g[k] \in [L[k] -> 1 .. n]
                     /\ \A x, y \in L[k] : g[k][x] = g[k][y] => x = y
    BY <1>2 DEF Injection, IsInjective
  <1>4. \A t \in P : t[1] \in S /\ t[2] \in L[t[1]] /\ t = <<t[1], t[2]>>
    OBVIOUS
  <1>5. h \in [P -> S \X (1 .. n)]
    BY <1>3, <1>4
  <1>6. \A t, u \in P : h[t] = h[u] => t = u
    BY <1>3, <1>4
  <1>7. h \in Injection(P, S \X (1 .. n))
    BY <1>5, <1>6 DEF Injection, IsInjective
  <1>8. IsFiniteSet(1 .. n) /\ Cardinality(1 .. n) = n
    BY FS_Interval
  <1>9. /\ IsFiniteSet(S \X (1 .. n))
        /\ Cardinality(S \X (1 .. n)) = Cardinality(S) * n
    BY <1>8, FS_Product
  <1>10. IsFiniteSet(P) /\ Cardinality(P) <= Cardinality(S) * n
    BY <1>7, <1>9, FS_Injection
  <1> QED BY <1>10, FS_CardinalityType

(* Some of a set exchanged for others.                                     *)
LEMMA Exchanged ==
    ASSUME NEW P, NEW D, NEW N, IsFiniteSet(P), IsFiniteSet(N),
           D \subseteq P, (P \ D) \cap N = {}
    PROVE  /\ IsFiniteSet((P \ D) \cup N)
           /\ Cardinality((P \ D) \cup N) = Cardinality(P) - Cardinality(D) + Cardinality(N)
  <1> DEFINE R == P \ D
  <1>1. P \cap D = D
    OBVIOUS
  <1>2. IsFiniteSet(R) /\ Cardinality(R) = Cardinality(P) - Cardinality(P \cap D)
    BY FS_Difference
  <1>3. R \cap N = {}
    OBVIOUS
  <1> HIDE DEF R
  <1>4. /\ IsFiniteSet(R \cup N)
        /\ Cardinality(R \cup N) = Cardinality(R) + Cardinality(N) - Cardinality(R \cap N)
    BY <1>2, FS_Union
  <1>5. Cardinality({}) = 0
    BY FS_EmptySet
  <1>6. Cardinality(R \cap N) = 0 /\ Cardinality(P \cap D) = Cardinality(D)
    BY <1>1, <1>3, <1>5
  <1>7. IsFiniteSet(D) /\ Cardinality(R) \in Nat
    BY <1>2, FS_Subset, FS_CardinalityType
  <1>8. Cardinality(P) \in Nat /\ Cardinality(D) \in Nat /\ Cardinality(N) \in Nat
    BY <1>7, FS_CardinalityType
  <1>9. Cardinality(R \cup N) = Cardinality(P) - Cardinality(D) + Cardinality(N)
    BY <1>2, <1>4, <1>6, <1>7, <1>8
  <1> QED BY <1>4, <1>9 DEF R

LEMMA LotHeld ==
    ASSUME NEW k, NEW L, IsFiniteSet(L)
    PROVE  IsFiniteSet({k} \X L) /\ Cardinality({k} \X L) = Cardinality(L)
  <1>1. IsFiniteSet({k}) /\ Cardinality({k}) = 1
    BY FS_Singleton
  <1>2. IsFiniteSet({k} \X L) /\ Cardinality({k} \X L) = Cardinality({k}) * Cardinality(L)
    BY <1>1, FS_Product
  <1>3. Cardinality(L) \in Nat
    BY FS_CardinalityType
  <1> QED BY <1>1, <1>2, <1>3

LEMMA LotsFinite ==
    ASSUME LinkShape, RoomShape, NEW w
    PROVE  /\ IsFiniteSet(Rows(w)) /\ Cardinality(Rows(w)) \in Nat
           /\ \A k \in Importers : /\ IsFiniteSet(Lot(k, w)) /\ Lot(k, w) \subseteq Tickets
                                   /\ Cardinality(Lot(k, w)) \in Nat
  <1>1. IsFiniteSet(Rows(w)) /\ Cardinality(Rows(w)) \in Nat
    BY ConnectionsAssumption, FS_Subset, FS_CardinalityType DEF Rows
  <1>2. ASSUME NEW k \in Importers PROVE IsFiniteSet(Lot(k, w)) /\ Lot(k, w) \subseteq Tickets
    <2>1. kroom[k] \in 0 .. Room /\ kwant[k] \subseteq Pages
      BY DEF LinkShape, RoomShape
    <2>2. IsFiniteSet(1 .. kroom[k]) /\ 1 .. kroom[k] \subseteq Tickets
      <3>1. kroom[k] \in Int /\ 1 .. kroom[k] \subseteq 1 .. Room
        BY <2>1, ConnectionsAssumption
      <3>2. IsFiniteSet(1 .. kroom[k])
        BY <3>1, FS_Interval
      <3> QED BY <3>1, <3>2 DEF Tickets
    <2>3. IsFiniteSet(kwant[k] \ Rows(w)) /\ kwant[k] \ Rows(w) \subseteq Tickets
      BY <2>1, FS_Subset, ConnectionsAssumption DEF Tickets
    <2>4. IsFiniteSet({})
      BY FS_EmptySet
    <2> QED BY <2>2, <2>3, <2>4 DEF Lot
  <1> QED BY <1>1, <1>2, FS_CardinalityType

(* The tickets that some of the requests hold.                             *)
LEMMA DrawnBounded ==
    ASSUME LinkShape, RoomShape, NEW w, NEW S \in SUBSET Importers,
           \A k \in Importers : Cardinality(Lot(k, w)) <= Room,
           \A k \in Importers \ S : Lot(k, w) = {}
    PROVE  /\ IsFiniteSet(Drawn(w)) /\ Cardinality(Drawn(w)) \in Nat
           /\ Cardinality(Drawn(w)) <= Room * Cardinality(S)
  <1> DEFINE L == [k \in S |-> Lot(k, w)]
  <1>1. IsFiniteSet(S) /\ Room \in Nat
    BY ConnectionsAssumption, FS_Subset
  <1>2. \A t \in Drawn(w) : t[1] \in S /\ t[2] \in L[t[1]]
    BY DEF Drawn
  <1>3. Drawn(w) \in SUBSET (S \X Tickets)
    BY <1>2 DEF Drawn
  <1>4. \A k \in S : IsFiniteSet(L[k]) /\ Cardinality(L[k]) <= Room
    BY LotsFinite
  <1> HIDE DEF L
  <1>5. IsFiniteSet(Drawn(w)) /\ Cardinality(Drawn(w)) <= Room * Cardinality(S)
    BY <1>1, <1>2, <1>3, <1>4, LotsBounded
  <1> QED BY <1>5, FS_CardinalityType

(* No row is added and no lot drawn.                                       *)
LEMMA FitsStill ==
    ASSUME LinkShape, RoomShape, LinkShape', RoomShape', NEW w, Fits(w), Rows(w)' = Rows(w),
           \A k \in Importers : Lot(k, w)' \subseteq Lot(k, w)
    PROVE  Fits(w)'
  <1>1. /\ IsFiniteSet(Drawn(w)) /\ Cardinality(Drawn(w)) \in Nat
        /\ \A k \in Importers : IsFiniteSet(Lot(k, w)) /\ Cardinality(Lot(k, w)) \in Nat
        /\ Cardinality(Rows(w)) \in Nat
    <2>1. \A k \in Importers \ Importers : Lot(k, w) = {}
      OBVIOUS
    <2> QED BY <2>1, LotsFinite, DrawnBounded DEF Fits
  <1>2. Drawn(w)' \subseteq Drawn(w)
    BY DEF Drawn, Tickets
  <1>3. IsFiniteSet(Drawn(w)') /\ Cardinality(Drawn(w)') <= Cardinality(Drawn(w))
    BY <1>1, <1>2, FS_Subset
  <1>4. Cardinality(Drawn(w)') \in Nat
    BY <1>3, FS_CardinalityType
  <1>5. ASSUME NEW k \in Importers PROVE Cardinality(Lot(k, w)') <= Room
    <2>1. Cardinality(Lot(k, w)') <= Cardinality(Lot(k, w)) /\ IsFiniteSet(Lot(k, w)')
      BY <1>1, FS_Subset
    <2>2. Cardinality(Lot(k, w)') \in Nat
      BY <2>1, FS_CardinalityType
    <2> QED BY <1>1, <2>1, <2>2, ConnectionsAssumption DEF Fits
  <1>6. Cardinality(Importers) \in Nat /\ Room * Cardinality(Importers) \in Nat
    BY FS_CardinalityType, ConnectionsAssumption
  <1>7. Cardinality(Rows(w)) + Cardinality(Drawn(w)') <= Room * Cardinality(Importers)
    BY <1>1, <1>3, <1>4, <1>6 DEF Fits
  <1> QED BY <1>5, <1>7 DEF Fits

(* One request exchanges its lot, which is all it does.                    *)
LEMMA FitsExchanged ==
    ASSUME LinkShape, RoomShape, LinkShape', RoomShape', NEW w, Fits(w), Rows(w)' = Rows(w),
           NEW k \in Importers, Cardinality(Lot(k, w)') <= Room,
           \A j \in Importers \ {k} : Lot(j, w)' = Lot(j, w),
           \/ Cardinality(Lot(k, w)') <= Cardinality(Lot(k, w))
           \/ /\ Lot(k, w) = {}
              /\ Cardinality(Rows(w)) + Cardinality(Lot(k, w)') <= Room
    PROVE  Fits(w)'
  <1> DEFINE N == Cardinality(Importers)
             d == Cardinality(Drawn(w))
             r == Cardinality(Rows(w))
             l == Cardinality(Lot(k, w))
             m == Cardinality(Lot(k, w)')
  <1>1. /\ IsFiniteSet(Lot(k, w)) /\ IsFiniteSet(Lot(k, w)')
        /\ l \in Nat /\ m \in Nat /\ r \in Nat
    <2>1. IsFiniteSet(Lot(k, w)) /\ l \in Nat /\ r \in Nat
      BY LotsFinite
    <2>2. IsFiniteSet(Rows(w)')
      BY LotsFinite
    <2>3. IsFiniteSet(Lot(k, w)')
      <3>1. kroom'[k] \in 0 .. Room /\ kwant'[k] \subseteq Pages
        BY DEF LinkShape, RoomShape
      <3>2. kroom'[k] \in Int
        BY <3>1, ConnectionsAssumption
      <3>3. IsFiniteSet(1 .. kroom'[k])
        BY <3>2, FS_Interval
      <3>4. IsFiniteSet(kwant'[k] \ Rows(w)')
        BY <3>1, FS_Subset, ConnectionsAssumption
      <3>5. IsFiniteSet({})
        BY FS_EmptySet
      <3> QED BY <3>3, <3>4, <3>5 DEF Lot
    <2> QED BY <2>1, <2>3, FS_CardinalityType
  <1>2. IsFiniteSet(Drawn(w)) /\ d \in Nat
    <2>1. \A j \in Importers \ Importers : Lot(j, w) = {}
      OBVIOUS
    <2> QED BY <2>1, DrawnBounded DEF Fits
  <1>3. \A j \in Importers : Lot(j, w) \subseteq Tickets
    BY LotsFinite
  <1>4. Lot(k, w)' \subseteq Tickets
    BY ConnectionsAssumption DEF Lot, Tickets, LinkShape, RoomShape
  <1>5. {k} \X Lot(k, w) \subseteq Drawn(w)
    BY <1>3 DEF Drawn
  <1>6. \A t \in Drawn(w) : t[1] = k => t \in {k} \X Lot(k, w)
    BY DEF Drawn
  <1>7. Drawn(w)' = (Drawn(w) \ ({k} \X Lot(k, w))) \cup ({k} \X Lot(k, w)')
    <2>1. ASSUME NEW t \in Drawn(w)', t \notin {k} \X Lot(k, w)'
          PROVE  t \in Drawn(w) /\ t[1] # k
      <3>1. t \in Importers \X Tickets /\ t[2] \in Lot(t[1], w)'
        BY DEF Drawn, Tickets
      <3>2. t[1] # k
        BY <2>1, <3>1
      <3>3. Lot(t[1], w)' = Lot(t[1], w)
        BY <3>1, <3>2
      <3> QED BY <3>1, <3>2, <3>3 DEF Drawn
    <2>2. \A t \in {k} \X Lot(k, w)' : t \in Drawn(w)'
      BY <1>4 DEF Drawn, Tickets
    <2>3. \A t \in Drawn(w) : t[1] # k => t \in Drawn(w)'
      BY DEF Drawn, Tickets
    <2>4. \A t \in {k} \X Lot(k, w) : t[1] = k
      OBVIOUS
    <2> QED BY <1>6, <2>1, <2>2, <2>3, <2>4
  <1>8. Cardinality(Drawn(w)') = d - l + m
    <2> DEFINE P == Drawn(w)
               D == {k} \X Lot(k, w)
               M == {k} \X Lot(k, w)'
    <2>1. /\ IsFiniteSet(D) /\ Cardinality(D) = l
          /\ IsFiniteSet(M) /\ Cardinality(M) = m
      BY <1>1, LotHeld
    <2>2. D \subseteq P
      BY <1>5
    <2>3. (P \ D) \cap M = {}
      BY <1>6
    <2>4. Drawn(w)' = (P \ D) \cup M
      BY <1>7
    <2> HIDE DEF P, D, M
    <2>5. IsFiniteSet(P) /\ Cardinality(P) = d
      BY <1>2 DEF P
    <2>6. Cardinality((P \ D) \cup M) = Cardinality(P) - Cardinality(D) + Cardinality(M)
      BY <2>1, <2>2, <2>3, <2>5, Exchanged
    <2> QED BY <2>1, <2>4, <2>5, <2>6
  <1>9. N \in Nat /\ Room \in Nat /\ r + d <= Room * N /\ Room * N \in Nat
    BY FS_CardinalityType, ConnectionsAssumption DEF Fits
  <1>10. \A j \in Importers : Cardinality(Lot(j, w)') <= Room
    BY DEF Fits
  <1>11. r + Cardinality(Drawn(w)') <= Room * N
    <2>1. CASE m <= l
      BY <1>1, <1>2, <1>8, <1>9, <2>1
    <2>2. CASE Lot(k, w) = {} /\ r + m <= Room
      <3> DEFINE S == Importers \ {k}
      <3>1. \A j \in Importers \ S : Lot(j, w) = {}
        BY <2>2
      <3>2. d <= Room * Cardinality(S)
        BY <3>1, DrawnBounded DEF Fits
      <3>3. Cardinality(S) = N - 1
        BY FS_RemoveElement, ConnectionsAssumption
      <3>4. l = 0
        BY <2>2, FS_EmptySet
      <3>5. Room * (N - 1) = Room * N - Room
        BY <1>9
      <3> HIDE DEF S
      <3> QED BY <1>1, <1>2, <1>8, <1>9, <2>2, <3>2, <3>3, <3>4, <3>5
    <2> QED BY <2>1, <2>2
  <1> QED BY <1>10, <1>11 DEF Fits

LEMMA RoomStart == ConnectionsInit /\ LinkShape => RoomInv
  <1> SUFFICES ASSUME ConnectionsInit, LinkShape PROVE RoomInv
    OBVIOUS
  <1>1. RoomShape
    BY ConnectionsAssumption DEF ConnectionsInit, RoomShape
  <1>2. ASSUME NEW w \in Places PROVE Fits(w)
    <2>1. Rows(w) = {} /\ Drawn(w) = {}
      BY <1>2, ConnectionsAssumption DEF ConnectionsInit, Rows, Drawn, Lot
    <2>2. \A k \in Importers : Lot(k, w) = {}
      BY <1>2, ConnectionsAssumption DEF ConnectionsInit, Lot
    <2>3. Cardinality({}) = 0
      BY FS_EmptySet
    <2>4. Room * Cardinality(Importers) \in Nat
      BY FS_CardinalityType, ConnectionsAssumption
    <2>5. \A k \in Importers : Cardinality(Lot(k, w)) = 0
      BY <2>2, <2>3
    <2>6. Cardinality(Rows(w)) = 0 /\ Cardinality(Drawn(w)) = 0
      BY <2>1, <2>3
    <2> QED BY <2>4, <2>5, <2>6, ConnectionsAssumption DEF Fits
  <1> QED BY <1>1, <1>2 DEF RoomInv

LEMMA RoomStep ==
    LinkShape /\ RoomInv /\ [ConnectionsNext]_linkVars /\ LinkShape' => RoomInv'
  <1> SUFFICES ASSUME LinkShape, RoomInv, [ConnectionsNext]_linkVars, LinkShape' PROVE RoomInv'
    OBVIOUS
  <1> USE DEF At, Done, krequest
  <1>0. RoomShape /\ \A w \in Places : Fits(w)
    BY DEF RoomInv
  <1>1. ASSUME RoomShape', NEW w \in Places, Rows(w)' = Rows(w),
               \A k \in Importers : Lot(k, w)' \subseteq Lot(k, w)
        PROVE  Fits(w)'
    BY <1>0, <1>1, FitsStill
  <1>2. ASSUME NEW k \in Importers, NEW v \in Places, NEW wanted \in SUBSET Pages,
               ReadRoom(k, v, wanted)
        PROVE  RoomInv'
    <2> DEFINE free == Room - Cardinality(Rows(v))
    <2>1. free \in Int /\ free <= Room
      BY <1>0, LotsFinite, ConnectionsAssumption
    <2>2. /\ kroom' = [kroom EXCEPT ![k] = IF free < 0 THEN 0 ELSE free]
          /\ kpc[k] = "idle" /\ kpc' = [kpc EXCEPT ![k] = "pages"]
          /\ kplace' = [kplace EXCEPT ![k] = v]
          /\ kwant' = [kwant EXCEPT ![k] = wanted]
          /\ prof' = prof /\ kpage' = kpage
      BY <1>2 DEF ReadRoom
    <2> HIDE DEF free
    <2>3. RoomShape'
      BY <1>0, <2>1, <2>2, ConnectionsAssumption DEF RoomShape, LinkShape
    <2>4. ASSUME NEW w \in Places PROVE Fits(w)'
      <3>1. Rows(w)' = Rows(w)
        BY <2>2 DEF Rows
      <3>2. \A j \in Importers \ {k} : Lot(j, w)' = Lot(j, w)
        BY <2>2, <3>1 DEF Lot, LinkShape, RoomShape
      <3>3. Lot(k, w) = {}
        BY <2>2 DEF Lot
      <3>4. CASE w # v
        <4>1. Lot(k, w)' = {}
          BY <2>2, <3>4 DEF Lot, LinkShape
        <4> QED BY <1>1, <2>3, <3>1, <3>2, <3>3, <4>1
      <3>5. CASE w = v
        <4>1. Lot(k, w)' = 1 .. kroom'[k]
          BY <2>2, <3>5 DEF Lot, LinkShape
        <4>2. kroom'[k] = IF free < 0 THEN 0 ELSE free
          BY <1>0, <2>2 DEF RoomShape
        <4>3. kroom'[k] \in 0 .. Room
          BY <2>1, <4>2, ConnectionsAssumption
        <4>4. Cardinality(Lot(k, w)') = kroom'[k]
          BY <4>1, <4>3, FS_Interval, ConnectionsAssumption
        <4>5. Cardinality(Rows(w)) \in Nat
          BY <1>0, LotsFinite
        <4>6. \/ Cardinality(Lot(k, w)') <= Cardinality(Lot(k, w))
              \/ Cardinality(Rows(w)) + Cardinality(Lot(k, w)') <= Room
          <5>1. CASE free < 0
            <6>1. Cardinality(Lot(k, w)) = 0
              BY <3>3, FS_EmptySet
            <6> QED BY <4>2, <4>4, <5>1, <6>1
          <5>2. CASE ~(free < 0)
            BY <3>5, <4>2, <4>4, <4>5, <5>2, ConnectionsAssumption DEF free
          <5> QED BY <5>1, <5>2
        <4>7. Cardinality(Lot(k, w)') <= Room
          BY <4>3, <4>4, ConnectionsAssumption
        <4> QED BY <1>0, <2>3, <3>1, <3>2, <3>3, <4>6, <4>7, FitsExchanged
      <3> QED BY <3>4, <3>5
    <2> QED BY <2>3, <2>4 DEF RoomInv
  <1>3. ASSUME NEW k \in Importers, CountNew(k) PROVE RoomInv'
    <2>1. RoomShape'
      BY <1>0, <1>3, ConnectionsAssumption DEF CountNew, RoomShape, LinkShape
    <2>2. ASSUME NEW w \in Places PROVE Fits(w)'
      <3>1. Rows(w)' = Rows(w)
        BY <1>3 DEF CountNew, Rows
      <3>2. \A j \in Importers \ {k} : Lot(j, w)' = Lot(j, w)
        BY <1>3, <3>1 DEF CountNew, Lot, LinkShape, RoomShape
      <3>3. CASE kplace[k] # w
        <4>1. Lot(k, w)' = {}
          BY <1>3, <3>3 DEF CountNew, Lot
        <4> QED BY <1>1, <2>1, <3>1, <3>2, <4>1
      <3>4. CASE kplace[k] = w
        <4>1. Lot(k, w) = 1 .. kroom[k] /\ Lot(k, w)' = kwant[k] \ Rows(w)
          BY <1>3, <3>1, <3>4 DEF CountNew, Lot, LinkShape
        <4>2. kroom[k] \in 0 .. Room
          BY <1>0 DEF RoomShape
        <4>3. Cardinality(1 .. kroom[k]) = kroom[k]
          BY <4>2, FS_Interval, ConnectionsAssumption
        <4>4. Cardinality(kwant[k] \ Rows(w)) <= kroom[k]
          BY <1>3, <3>4 DEF CountNew
        <4>5. Cardinality(kwant[k] \ Rows(w)) \in Nat
          <5>1. IsFiniteSet(kwant[k] \ Rows(w))
            BY ConnectionsAssumption, FS_Subset DEF LinkShape
          <5> QED BY <5>1, FS_CardinalityType
        <4>6. /\ Cardinality(Lot(k, w)') <= Cardinality(Lot(k, w))
              /\ Cardinality(Lot(k, w)') <= Room
          BY <4>1, <4>2, <4>3, <4>4, <4>5, ConnectionsAssumption
        <4> QED BY <1>0, <2>1, <3>1, <3>2, <4>6, FitsExchanged
      <3> QED BY <3>3, <3>4
    <2> QED BY <2>1, <2>2 DEF RoomInv
  <1>4. ASSUME NEW k \in Importers, UpsertPage(k) PROVE RoomInv'
    <2> DEFINE v == kplace[k]
               p == kpage[k]
    <2>1. v \in Places /\ p \in Pages /\ p \in kwant[k] /\ kpc[k] = "upsert"
      BY <1>0, <1>4 DEF UpsertPage, LinkShape, RoomShape
    <2>2. /\ prof' = [prof EXCEPT ![v][p] = "CONNECTED"]
          /\ kpc' = [kpc EXCEPT ![k] = "hook"]
          /\ UNCHANGED <<kplace, kwant, kroom, kpage>>
      BY <1>4 DEF UpsertPage
    <2>3. RoomShape'
      BY <1>0, <2>2 DEF RoomShape, LinkShape
    <2>4. \A w \in Places : Rows(w)' = IF w = v THEN Rows(w) \cup {p} ELSE Rows(w)
      BY <2>1, <2>2 DEF Rows, LinkShape
    <2> HIDE DEF v, p
    <2>5. \A w \in Places, j \in Importers : Lot(j, w)' \subseteq Lot(j, w)
      BY <2>1, <2>2, <2>4 DEF Lot, LinkShape
    <2>6. ASSUME NEW w \in Places PROVE Fits(w)'
      <3>1. CASE Rows(w)' = Rows(w)
        BY <1>1, <2>3, <2>5, <3>1
      <3>2. CASE Rows(w)' # Rows(w)
        <4>1. w = v /\ p \notin Rows(w) /\ Rows(w)' = Rows(w) \cup {p}
          BY <2>4, <3>2
        <4>2. p \in Lot(k, w) /\ p \notin Lot(k, w)'
          BY <2>1, <2>2, <4>1 DEF Lot, LinkShape, v
        <4>3. <<k, p>> \in Drawn(w) /\ <<k, p>> \notin Drawn(w)'
          BY <2>1, <4>2 DEF Drawn, Tickets
        <4>4. Drawn(w)' \subseteq Drawn(w) \ {<<k, p>>}
          BY <2>5, <4>3 DEF Drawn, Tickets
        <4>5. IsFiniteSet(Drawn(w)) /\ Cardinality(Drawn(w)) \in Nat
          <5>1. \A j \in Importers \ Importers : Lot(j, w) = {}
            OBVIOUS
          <5> QED BY <1>0, <5>1, DrawnBounded DEF Fits
        <4>6. /\ IsFiniteSet(Drawn(w) \ {<<k, p>>})
              /\ Cardinality(Drawn(w) \ {<<k, p>>}) = Cardinality(Drawn(w)) - 1
          BY <4>3, <4>5, FS_RemoveElement
        <4>7. /\ Cardinality(Drawn(w)') <= Cardinality(Drawn(w)) - 1
              /\ Cardinality(Drawn(w)') \in Nat
          <5>1. /\ IsFiniteSet(Drawn(w)')
                /\ Cardinality(Drawn(w)') <= Cardinality(Drawn(w) \ {<<k, p>>})
            BY <4>4, <4>6, FS_Subset
          <5>2. Cardinality(Drawn(w)') \in Nat
            BY <5>1, FS_CardinalityType
          <5> QED BY <4>6, <5>1, <5>2
        <4>8. IsFiniteSet(Rows(w)) /\ Cardinality(Rows(w)) \in Nat
          BY <1>0, LotsFinite
        <4>9. Cardinality(Rows(w)') = Cardinality(Rows(w)) + 1
          BY <4>1, <4>8, FS_AddElement
        <4>10. /\ Cardinality(Rows(w)) + Cardinality(Drawn(w)) <= Room * Cardinality(Importers)
               /\ Room * Cardinality(Importers) \in Nat
          BY <1>0, FS_CardinalityType, ConnectionsAssumption DEF Fits
        <4>11. Cardinality(Rows(w)') + Cardinality(Drawn(w)') <= Room * Cardinality(Importers)
          BY <4>5, <4>7, <4>8, <4>9, <4>10
        <4>12. ASSUME NEW j \in Importers PROVE Cardinality(Lot(j, w)') <= Room
          <5>1. /\ IsFiniteSet(Lot(j, w)) /\ Cardinality(Lot(j, w)) \in Nat
                /\ Cardinality(Lot(j, w)) <= Room /\ Lot(j, w)' \subseteq Lot(j, w)
            BY <1>0, <2>5, LotsFinite DEF Fits
          <5>2. IsFiniteSet(Lot(j, w)') /\ Cardinality(Lot(j, w)') <= Cardinality(Lot(j, w))
            BY <5>1, FS_Subset
          <5>3. Cardinality(Lot(j, w)') \in Nat
            BY <5>2, FS_CardinalityType
          <5> QED BY <5>1, <5>2, <5>3, ConnectionsAssumption
        <4> QED BY <4>11, <4>12 DEF Fits
      <3> QED BY <3>1, <3>2
    <2> QED BY <2>3, <2>6 DEF RoomInv
  <1>5. ASSUME RoomShape', \A w \in Places : Rows(w)' = Rows(w),
               \A w \in Places, k \in Importers : Lot(k, w)' \subseteq Lot(k, w)
        PROVE  RoomInv'
    BY <1>1, <1>5 DEF RoomInv
  <1>6. ASSUME NEW k \in Importers,
               \/ FetchPages(k) \/ NextPage(k) \/ ImportFails(k)
               \/ Disconnect(k) \/ Unlink(k)
        PROVE  RoomInv'
    <2>1. \A w \in Places : Rows(w)' = Rows(w)
      BY <1>6 DEF FetchPages, NextPage, ImportFails, Disconnect, Unlink, Rows, LinkShape
    <2>2. RoomShape'
      BY <1>0, <1>6, ConnectionsAssumption
      DEF FetchPages, NextPage, ImportFails, Disconnect, Unlink, RoomShape, LinkShape
    <2>3. \A w \in Places, j \in Importers : Lot(j, w)' \subseteq Lot(j, w)
      BY <1>0, <1>6, <2>1, ConnectionsAssumption
      DEF FetchPages, NextPage, ImportFails, Disconnect, Unlink, Lot, RoomShape, LinkShape
    <2> QED BY <1>5, <2>1, <2>2, <2>3
  <1>7. ASSUME NEW k \in Importers, NEW p \in Pages, LookForOwner(k, p) PROVE RoomInv'
    <2>1. \A w \in Places : Rows(w)' = Rows(w)
      BY <1>7 DEF LookForOwner, Rows
    <2>2. RoomShape'
      BY <1>0, <1>7 DEF LookForOwner, RoomShape, LinkShape
    <2>3. \A w \in Places, j \in Importers : Lot(j, w)' \subseteq Lot(j, w)
      BY <1>7, <2>1 DEF LookForOwner, Lot, LinkShape
    <2> QED BY <1>5, <2>1, <2>2, <2>3
  <1>8. ASSUME NEW w \in Places, NEW p \in Pages, RemoveProfile(w, p) PROVE RoomInv'
    <2>1. \A v \in Places : Rows(v)' = Rows(v)
      BY <1>8 DEF RemoveProfile, Rows, LinkShape
    <2>2. RoomShape'
      BY <1>0, <1>8 DEF RemoveProfile, RoomShape
    <2>3. \A v \in Places, j \in Importers : Lot(j, v)' \subseteq Lot(j, v)
      BY <1>8, <2>1 DEF RemoveProfile, Lot
    <2> QED BY <1>5, <2>1, <2>2, <2>3
  <1>9. ASSUME Reconnect \/ UNCHANGED linkVars PROVE RoomInv'
    <2>1. \A w \in Places : Rows(w)' = Rows(w)
      BY <1>9 DEF Reconnect, linkVars, Rows
    <2>2. RoomShape'
      BY <1>0, <1>9 DEF Reconnect, linkVars, RoomShape
    <2>3. \A w \in Places, j \in Importers : Lot(j, w)' \subseteq Lot(j, w)
      BY <1>9, <2>1 DEF Reconnect, linkVars, Lot
    <2> QED BY <1>5, <2>1, <2>2, <2>3
  <1> QED
    BY <1>2, <1>3, <1>4, <1>6, <1>7, <1>8, <1>9 DEF ConnectionsNext, ImporterSteps

LEMMA RoomHolds == LinkShape /\ RoomInv => RoomHeld
  <1> SUFFICES ASSUME LinkShape, RoomInv, NEW w \in Places
               PROVE  Cardinality(Rows(w)) <= Room * Cardinality(Importers)
    BY DEF RoomHeld
  <1>1. Cardinality(Rows(w)) \in Nat
    BY LotsFinite DEF RoomInv
  <1>2. Cardinality(Drawn(w)) \in Nat
    <2>1. \A k \in Importers \ Importers : Lot(k, w) = {}
      OBVIOUS
    <2> QED BY <2>1, DrawnBounded DEF RoomInv, Fits
  <1>3. Room * Cardinality(Importers) \in Nat
    BY FS_CardinalityType, ConnectionsAssumption
  <1> QED BY <1>1, <1>2, <1>3 DEF RoomInv, Fits

-----------------------------------------------------------------------------
(* Bells.  A handling that nothing has disturbed is about to tell those    *)
(* who were to be told.                                                    *)
BellsShape ==
    /\ mates \subseteq Mates
    /\ event \in EventKinds
    /\ npc \in [Ringers -> {"idle", "author", "list", "write"}]
    /\ nto \in [Ringers -> SUBSET Mates] /\ ndue \in [Ringers -> SUBSET Mates]
    /\ nshift \in [Ringers -> BOOLEAN]

Telling ==
    \A h \in Busy : ~nshift[h] =>
        /\ ndue[h] \subseteq mates
        /\ npc[h] = "author" => event = "post" /\ ndue[h] = Due
        /\ npc[h] = "list" => ndue[h] = mates
        /\ npc[h] = "write" => nto[h] = ndue[h]

BellsInv ==
    /\ BellsShape /\ Telling
    /\ owed \subseteq mates \cup leavers
    /\ BellsKept

LEMMA BellsStart == BellsInit => BellsInv
  BY DEF BellsInit, BellsInv, BellsShape, Telling, Busy, BellsKept, EveryoneTold, NotesOfMembers

LEMMA BellsStep == BellsInv /\ [BellsNext]_bellVars => BellsInv'
  <1> SUFFICES ASSUME BellsInv, [BellsNext]_bellVars PROVE BellsInv'
    OBVIOUS
  <1> USE BellsAssumption DEF BellsInv, BellsKept, EveryoneTold, NotesOfMembers, Busy
  <1>1. ASSUME NEW m \in Mates, Join(m) \/ Remove(m) PROVE BellsInv'
    <2>1. BellsShape'
      BY <1>1 DEF BellsShape, Join, Remove, Shift
    <2>2. Telling'
      BY <1>1 DEF BellsShape, Telling, Join, Remove, Shift
    <2>3. (owed \subseteq mates \cup leavers /\ BellsKept)'
      BY <1>1 DEF Join, Remove
    <2> QED BY <2>1, <2>2, <2>3
  <1>2. ASSUME NEW m \in Mates \cup {NoMate}, Assign(m) PROVE BellsInv'
    <2>1. BellsShape'
      BY <1>2 DEF BellsShape, Assign, Shift
    <2>2. Telling'
      BY <1>2 DEF BellsShape, Telling, Assign, Shift
    <2>3. (owed \subseteq mates \cup leavers /\ BellsKept)'
      BY <1>2 DEF Assign
    <2> QED BY <2>1, <2>2, <2>3
  <1>3. ASSUME NEW h \in Ringers,
               OnInboxMessage(h) \/ OnInboxCommentCreated(h) \/ NotifyPostEvent(h)
        PROVE  BellsInv'
    <2> USE <1>3 DEF OnInboxMessage, OnInboxCommentCreated, NotifyPostEvent, Handle, mateVars
    <2>1. Due \in SUBSET mates /\ Due' = Due
      BY DEF BellsShape, EventKinds, Due
    <2>2. BellsShape'
      BY <2>1 DEF BellsShape
    <2>3. /\ npc'[h] = "author" => event = "post"
          /\ npc'[h] = "list" => Due = mates
          /\ npc'[h] = "write" => nto'[h] = Due
          /\ npc'[h] # "idle" /\ ndue'[h] = Due
      <3>1. CASE OnInboxMessage(h)
        BY <3>1 DEF BellsShape, Due
      <3>2. CASE OnInboxCommentCreated(h)
        BY <3>2 DEF BellsShape, Due
      <3>3. CASE NotifyPostEvent(h)
        BY <3>3 DEF BellsShape
      <3> QED BY <3>1, <3>2, <3>3
    <2>4. /\ UNCHANGED <<mates, event, nshift>>
          /\ \A g \in Ringers \ {h} : npc'[g] = npc[g] /\ nto'[g] = nto[g] /\ ndue'[g] = ndue[g]
      BY DEF BellsShape
    <2>5. Telling'
      BY ONLY BellsInv, <2>1, <2>3, <2>4 DEF BellsInv, Telling, Busy
    <2>6. UNCHANGED <<mates, leavers, assignee, notes, unread, owed>>
      OBVIOUS
    <2> QED BY ONLY BellsInv, <2>2, <2>5, <2>6
  <1>4. ASSUME NEW h \in Ringers, FindAuthor(h) PROVE BellsInv'
    <2>1. BellsShape'
      BY <1>4 DEF BellsShape, FindAuthor, mateVars
    <2>2. Telling'
      BY <1>4 DEF BellsShape, Telling, FindAuthor, mateVars, Due
    <2> QED BY <1>4, <2>1, <2>2 DEF FindAuthor, mateVars
  <1>5. ASSUME NEW h \in Ringers, ListMembers(h) PROVE BellsInv'
    <2>1. BellsShape'
      BY <1>5 DEF BellsShape, ListMembers, mateVars
    <2>2. Telling'
      BY <1>5 DEF BellsShape, Telling, ListMembers, mateVars, Due
    <2> QED BY <1>5, <2>1, <2>2 DEF ListMembers, mateVars
  <1>6. ASSUME NEW h \in Ringers, CreateMany(h) PROVE BellsInv'
    <2>1. BellsShape'
      BY <1>6 DEF BellsShape, CreateMany, Idle, mateVars
    <2>2. Telling'
      BY <1>6 DEF BellsShape, Telling, CreateMany, Idle, mateVars, Due
    <2>3. ~nshift[h] => ndue[h] \subseteq mates /\ nto[h] = ndue[h]
      BY <1>6 DEF BellsShape, Telling, CreateMany
    <2>4. (owed \subseteq mates \cup leavers /\ BellsKept)'
      BY <1>6, <2>3 DEF CreateMany, Settled, mateVars
    <2> QED BY <2>1, <2>2, <2>4
  <1>7. ASSUME NEW h \in Ringers, HandlingLost(h) PROVE BellsInv'
    <2>1. BellsShape' /\ Telling'
      BY <1>7 DEF BellsShape, Telling, HandlingLost, Idle, mateVars, Due
    <2> QED BY <1>7, <2>1 DEF HandlingLost, mateVars
  <1>8. ASSUME NEW m \in Mates, MarkNotesRead(m) PROVE BellsInv'
    <2>1. BellsShape' /\ Telling'
      BY <1>8 DEF BellsShape, Telling, MarkNotesRead, handling, mateVars, Due
    <2> QED BY <1>8, <2>1 DEF MarkNotesRead, mateVars
  <1>9. CASE UNCHANGED bellVars
    <2>1. Due' = Due
      BY <1>9 DEF bellVars, Due
    <2>2. BellsShape' /\ Telling'
      BY <1>9, <2>1 DEF bellVars, BellsShape, Telling
    <2> QED BY <1>9, <2>2 DEF bellVars
  <1> QED BY <1>1, <1>2, <1>3, <1>4, <1>5, <1>6, <1>7, <1>8, <1>9 DEF BellsNext

-----------------------------------------------------------------------------
(* All of them. *)
TenancyInv == SessionsInv /\ SpacesInv /\ FoundingInv /\ RolesInv /\ LinksInv /\ RoomInv /\ BellsInv

LEMMA TenancyHolds == Spec => []TenancyInv
  <1>1. Init => TenancyInv
    BY SessionsStart, SpacesStart, FoundingStart, RolesStart, LinksStart, RoomStart, BellsStart
    DEF Init, TenancyInv, LinksInv
  <1>2. TenancyInv /\ [Next]_vars => TenancyInv'
    <2> SUFFICES ASSUME TenancyInv, [Next]_vars PROVE TenancyInv'
      OBVIOUS
    <2>1. /\ [SessionsNext]_sessionVars /\ [WorkspacesNext]_spaceVars
          /\ [FoundingNext]_foundVars /\ [RolesNext]_roleVars
          /\ [ConnectionsNext]_linkVars /\ [BellsNext]_bellVars
      BY DEF Next, vars
    <2>2. LinksInv' /\ RoomInv'
      BY <2>1, LinksStep, RoomStep DEF TenancyInv, LinksInv
    <2> QED
      BY <2>1, <2>2, SessionsStep, SpacesStep, FoundingStep, RolesStep, BellsStep
      DEF TenancyInv
  <1> QED BY <1>1, <1>2, PTL DEF Spec

(* A client that has not been disturbed can renew its session, a password  *)
(* that is replaced ends the sessions it began, though a request that has  *)
(* read the row before writes its token after, and a logout holds: for any *)
(* number of clients, tokens and resets.                                   *)
THEOREM SessionsAreKept == Spec => []SessionsKept
  <1>1. TenancyInv => SessionsKept
    BY SessionsHold DEF TenancyInv
  <1> QED BY <1>1, TenancyHolds, PTL

(* An organization keeps its slug, a workspace, an owner, one default role *)
(* and the grants of its roles, its plan's limit is passed by no more than *)
(* the requests in flight less one, and its members hear of what concerns  *)
(* them, but for the crossings that the properties name: for any number of *)
(* requests, members, workspaces, roles and slugs.                         *)
THEOREM OrganizationsAreKept == Spec => []OrganizationsKept
  <1>1. TenancyInv => OrganizationsKept
    BY SpacesHold, RolesHold DEF TenancyInv, FoundingInv, BellsInv, OrganizationsKept
  <1> QED BY <1>1, TenancyHolds, PTL

(* A page is connected in one workspace unless two requests took it at     *)
(* once, a workspace has no more pages than its room times the requests,   *)
(* and a connection that is gone has no connected page but those of        *)
(* requests that had their list before: for any number of workspaces,      *)
(* pages and requests.                                                     *)
THEOREM PagesAreKept == Spec => []ConnectionsKept
  <1>1. TenancyInv => ConnectionsKept
    BY LinksHold, RoomHolds DEF TenancyInv, LinksInv, ConnectionsKept
  <1> QED BY <1>1, TenancyHolds, PTL
==============================================================================
