----------------------------- MODULE Connections -----------------------------
(***************************************************************************)
(* One social connection of an organization, and the pages that its        *)
(* workspaces import from it.  A page belongs to one workspace at a time,  *)
(* a workspace has room for so many pages, and a connection that is gone   *)
(* pauses its pages.  addProfilesToWorkspace checks the three in awaits of *)
(* their own and goes through the pages one by one: what fails half way    *)
(* leaves the pages before it added.                                       *)
(***************************************************************************)
EXTENDS Integers, FiniteSets

CONSTANTS Importers,  \* concurrent requests
          Places,     \* the workspaces of the organization
          Pages,      \* the pages of the account
          Room,       \* maxSocialProfilesPerWorkspace
          MaxImport,  \* bound on the pages of one request
          NoPlace, NoPage

ASSUME ConnectionsAssumption ==
    /\ IsFiniteSet(Importers) /\ IsFiniteSet(Pages) /\ Room \in Nat
    /\ NoPlace \notin Places /\ NoPage \notin Pages

VARIABLES
    link,      \* SocialConnection.status
    prof,      \* SocialProfile.status by workspace and page
    kpc,       \* where each request stands
    kplace,    \* the workspace it adds to
    kwant,     \* the pages it has yet to add
    kroom,     \* the room it has read
    kpage,     \* the page it is at
    kalone,    \* history: nobody else had that page when it looked
    crossed,   \* history: pages that two requests took at once
    after      \* history: pages added when the connection was gone already

linkVars == <<link, prof, kpc, kplace, kwant, kroom, kpage, kalone, crossed, after>>
krequest == <<kplace, kwant, kroom, kpage, kalone>>
Status == {"NONE", "CONNECTED", "DISCONNECTED"}

ConnectionsInit ==
    /\ link = "CONNECTED"
    /\ prof = [w \in Places |-> [p \in Pages |-> "NONE"]]
    /\ kpc = [k \in Importers |-> "idle"]
    /\ kplace = [k \in Importers |-> NoPlace]
    /\ kwant = [k \in Importers |-> {}]
    /\ kroom = [k \in Importers |-> 0]
    /\ kpage = [k \in Importers |-> NoPage]
    /\ kalone = [k \in Importers |-> FALSE]
    /\ crossed = {} /\ after = {}

Owners(p) == {w \in Places : prof[w][p] = "CONNECTED"}
Rows(w) == {p \in Pages : prof[w][p] # "NONE"}

At(k, pc) == kpc' = [kpc EXCEPT ![k] = pc]
Done(k) ==
    /\ At(k, "idle")
    /\ kplace' = [kplace EXCEPT ![k] = NoPlace]
    /\ kwant' = [kwant EXCEPT ![k] = {}]
    /\ kroom' = [kroom EXCEPT ![k] = 0]
    /\ kpage' = [kpage EXCEPT ![k] = NoPage]
    /\ kalone' = [kalone EXCEPT ![k] = FALSE]

-----------------------------------------------------------------------------
(* getWorkspaceLimitInfo counts every row, the paused ones too.            *)
ReadRoom(k, w, wanted) ==
    LET free == Room - Cardinality(Rows(w))
    IN  /\ kpc[k] = "idle" /\ wanted # {} /\ Cardinality(wanted) <= MaxImport
        /\ At(k, "pages")
        /\ kplace' = [kplace EXCEPT ![k] = w]
        /\ kwant' = [kwant EXCEPT ![k] = wanted]
        /\ kroom' = [kroom EXCEPT ![k] = IF free < 0 THEN 0 ELSE free]
        /\ UNCHANGED <<link, prof, kpage, kalone, crossed, after>>

(* getImportablePages; an error of the network makes an empty list, and    *)
(* then the first page is not found.                                       *)
FetchPages(k) ==
    /\ kpc[k] = "pages" /\ link = "CONNECTED"
    /\ At(k, "count")
    /\ UNCHANGED <<link, prof, krequest, crossed, after>>

CountNew(k) ==
    /\ kpc[k] = "count"
    /\ Cardinality(kwant[k] \ Rows(kplace[k])) <= kroom[k]
    /\ At(k, "look")
    /\ kroom' = [kroom EXCEPT ![k] = 0]
    /\ UNCHANGED <<link, prof, kplace, kwant, kpage, kalone, crossed, after>>

(* Variant for the mutation runs: the owner is not looked for.             *)
LookAway(k, p) ==
    /\ kpc[k] = "look" /\ p \in kwant[k]
    /\ At(k, "upsert")
    /\ kpage' = [kpage EXCEPT ![k] = p]
    /\ kalone' = [kalone EXCEPT ![k] = Owners(p) \subseteq {kplace[k]}]
    /\ UNCHANGED <<link, prof, kplace, kwant, kroom, crossed, after>>

(* Any one owner is looked at: of two, it may be this workspace.           *)
LookForOwner(k, p) ==
    /\ kpc[k] = "look" /\ p \in kwant[k]
    /\ Owners(p) = {} \/ kplace[k] \in Owners(p)
    /\ At(k, "upsert")
    /\ kpage' = [kpage EXCEPT ![k] = p]
    /\ kalone' = [kalone EXCEPT ![k] = Owners(p) \subseteq {kplace[k]}]
    /\ UNCHANGED <<link, prof, kplace, kwant, kroom, crossed, after>>

UpsertPage(k) ==
    LET w == kplace[k]
        p == kpage[k]
    IN  /\ kpc[k] = "upsert"
        /\ prof' = [prof EXCEPT ![w][p] = "CONNECTED"]
        /\ crossed' = IF kalone[k] /\ ~(Owners(p) \subseteq {w})
                        THEN crossed \cup {p} ELSE crossed
        /\ after' = IF link = "DISCONNECTED" THEN after \cup {<<w, p>>} ELSE after
        /\ At(k, "hook")
        /\ UNCHANGED <<link, krequest>>

(* subscribePage is done, or the network has no webhooks.                  *)
NextPage(k) ==
    /\ kpc[k] = "hook"
    /\ IF kwant[k] = {kpage[k]} THEN Done(k)
       ELSE /\ At(k, "look")
            /\ kwant' = [kwant EXCEPT ![k] = @ \ {kpage[k]}]
            /\ kpage' = [kpage EXCEPT ![k] = NoPage]
            /\ kalone' = [kalone EXCEPT ![k] = FALSE]
            /\ UNCHANGED <<kplace, kroom>>
    /\ UNCHANGED <<link, prof, crossed, after>>

(* A check refuses, a query or the subscription fails, the process dies.   *)
ImportFails(k) ==
    /\ kpc[k] # "idle"
    /\ Done(k)
    /\ UNCHANGED <<link, prof, crossed, after>>

(* removeProfile *)
RemoveProfile(w, p) ==
    /\ prof[w][p] # "NONE"
    /\ prof' = [prof EXCEPT ![w][p] = "DISCONNECTED"]
    /\ after' = after \ {<<w, p>>}
    /\ UNCHANGED <<link, kpc, krequest, crossed>>

(* disconnect: the row is read, the token revoked, errors swallowed, and   *)
(* the connection paused with its pages.                                   *)
Disconnect(k) ==
    /\ kpc[k] = "idle" /\ link = "CONNECTED"
    /\ At(k, "unlink")
    /\ UNCHANGED <<link, prof, krequest, crossed, after>>

Unlink(k) ==
    /\ kpc[k] = "unlink"
    /\ link' = "DISCONNECTED"
    /\ prof' = [w \in Places |-> [p \in Pages |->
                  IF prof[w][p] = "NONE" THEN "NONE" ELSE "DISCONNECTED"]]
    /\ after' = {}
    /\ Done(k)
    /\ UNCHANGED crossed

(* handleCallback: the connection is back, its pages stay paused.          *)
Reconnect ==
    /\ link' = "CONNECTED"
    /\ after' = {}
    /\ UNCHANGED <<prof, kpc, krequest, crossed>>

ImporterSteps(k) ==
    \/ \E w \in Places, wanted \in SUBSET Pages : ReadRoom(k, w, wanted)
    \/ FetchPages(k) \/ CountNew(k)
    \/ \E p \in Pages : LookForOwner(k, p)
    \/ UpsertPage(k) \/ NextPage(k) \/ ImportFails(k)
    \/ Disconnect(k) \/ Unlink(k)

ConnectionsNext ==
    \/ Reconnect
    \/ \E w \in Places, p \in Pages : RemoveProfile(w, p)
    \/ \E k \in Importers : ImporterSteps(k)

ConnectionsSpec == ConnectionsInit /\ [][ConnectionsNext]_linkVars

-----------------------------------------------------------------------------
(* A page is connected in one workspace, unless two requests found it free *)
(* and took it one after the other.                                        *)
OneOwner == \A p \in Pages \ crossed : Cardinality(Owners(p)) <= 1

(* Every request has read its room once: together they take it no more     *)
(* than that many times.                                                   *)
RoomHeld == \A w \in Places : Cardinality(Rows(w)) <= Room * Cardinality(Importers)

(* A connection that is gone has no connected page, unless the page was    *)
(* added by a request that had its list before.                            *)
PausedTogether ==
    link = "DISCONNECTED" =>
        \A w \in Places, p \in Pages : prof[w][p] = "CONNECTED" => <<w, p>> \in after

ConnectionsKept == OneOwner /\ RoomHeld /\ PausedTogether
==============================================================================
