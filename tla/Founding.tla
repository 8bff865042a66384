------------------------------ MODULE Founding ------------------------------
(***************************************************************************)
(* Users found organizations of one name.  createOrganization takes the    *)
(* slug of the name, and deletes the organization again when its payment   *)
(* can not be initialised; userOnboarding tries the slug with a number     *)
(* until one is free, and deletes nothing.  The look and the insert are    *)
(* apart; a unique index decides.                                          *)
(***************************************************************************)
EXTENDS Integers

CONSTANTS Founders,   \* concurrent requests
          LastSlug,   \* the slugs are name, name-1 .. name-LastSlug
          NoFounder

ASSUME FoundingAssumption == LastSlug \in Nat /\ NoFounder \notin Founders

VARIABLES
    org,       \* Organization by slug: the request that founded it
    fpc,       \* where each request stands
    fkind,     \* createOrganization or userOnboarding
    fslug,     \* the slug it tries
    unpaid     \* history: slugs left behind without a payment

foundVars == <<org, fpc, fkind, fslug, unpaid>>
Slugs == 0 .. LastSlug

FoundingInit ==
    /\ org = [s \in Slugs |-> NoFounder]
    /\ fpc = [f \in Founders |-> "idle"]
    /\ fkind \in [Founders -> {"create", "onboard"}]
    /\ fslug = [f \in Founders |-> 0]
    /\ unpaid = {}

Step(f, pc) == fpc' = [fpc EXCEPT ![f] = pc]

(* The first look at the slug of the name.                                 *)
BeginFounding(f) ==
    /\ fpc[f] \in {"idle", "refused"}
    /\ Step(f, "look")
    /\ fslug' = [fslug EXCEPT ![f] = 0]
    /\ UNCHANGED <<org, fkind, unpaid>>

(* It is free; or it is taken, and generateUniqueOrgSlug tries the next    *)
(* where createOrganization refuses.                                       *)
LookForSlug(f) ==
    /\ fpc[f] = "look"
    /\ IF org[fslug[f]] = NoFounder THEN Step(f, "commit") /\ UNCHANGED fslug
       ELSE IF fkind[f] = "create" THEN Step(f, "refused") /\ UNCHANGED fslug
       ELSE /\ fslug[f] < LastSlug
            /\ fslug' = [fslug EXCEPT ![f] = @ + 1]
            /\ UNCHANGED fpc
    /\ UNCHANGED <<org, fkind, unpaid>>

(* Variant for the mutation runs: the slug's row is deleted once more by   *)
(* a request that was refused its commit.                                  *)
CommitOrUndo(f) ==
    /\ fpc[f] = "commit"
    /\ IF org[fslug[f]] = NoFounder
         THEN org' = [org EXCEPT ![fslug[f]] = f] /\ Step(f, "pay")
         ELSE Step(f, "undo") /\ UNCHANGED org
    /\ UNCHANGED <<fkind, fslug, unpaid>>

(* The transaction: the organization, its owner, and for onboarding the    *)
(* first workspace and an incomplete subscription.                         *)
CommitOrg(f) ==
    /\ fpc[f] = "commit"
    /\ IF org[fslug[f]] = NoFounder
         THEN org' = [org EXCEPT ![fslug[f]] = f] /\ Step(f, "pay")
         ELSE Step(f, "refused") /\ UNCHANGED org
    /\ UNCHANGED <<fkind, fslug, unpaid>>

(* initializePayment *)
InitPayment(f) ==
    /\ fpc[f] = "pay"
    /\ Step(f, "answered")
    /\ UNCHANGED <<org, fkind, fslug, unpaid>>

PaymentFails(f) ==
    /\ fpc[f] = "pay"
    /\ IF fkind[f] = "create"
         THEN Step(f, "undo") /\ UNCHANGED unpaid
         ELSE Step(f, "refused") /\ unpaid' = unpaid \cup {fslug[f]}
    /\ UNCHANGED <<org, fkind, fslug>>

(* The compensating delete; its own failure is swallowed.                  *)
Compensate(f) ==
    /\ fpc[f] = "undo"
    /\ org' = [org EXCEPT ![fslug[f]] = NoFounder]
    /\ Step(f, "refused")
    /\ UNCHANGED <<fkind, fslug, unpaid>>

CompensateFails(f) ==
    /\ fpc[f] = "undo"
    /\ Step(f, "refused")
    /\ unpaid' = unpaid \cup {fslug[f]}
    /\ UNCHANGED <<org, fkind, fslug>>

(* The server dies.                                                        *)
FoundingCrash(f) ==
    /\ fpc[f] \in {"look", "commit", "pay", "undo"}
    /\ unpaid' = IF fpc[f] \in {"pay", "undo"} THEN unpaid \cup {fslug[f]} ELSE unpaid
    /\ Step(f, "refused")
    /\ UNCHANGED <<org, fkind, fslug>>

FoundingNext ==
    \E f \in Founders :
        \/ BeginFounding(f) \/ LookForSlug(f) \/ CommitOrg(f) \/ InitPayment(f)
        \/ PaymentFails(f) \/ Compensate(f) \/ CompensateFails(f) \/ FoundingCrash(f)

FoundingSpec == FoundingInit /\ [][FoundingNext]_foundVars

-----------------------------------------------------------------------------
(* Whoever was shown a payment page has the organization he pays for, and  *)
(* a slug is taken by an organization that is paid for or being founded,   *)
(* unless a crash, a failed delete or onboarding left it behind.           *)
FoundingKept ==
    /\ \A f \in Founders : fpc[f] = "answered" => org[fslug[f]] = f
    /\ \A s \in Slugs \ unpaid : org[s] # NoFounder
            => fslug[org[s]] = s /\ fpc[org[s]] \in {"pay", "undo", "answered"}
==============================================================================
