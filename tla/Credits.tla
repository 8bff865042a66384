------------------------------- MODULE Credits -------------------------------
(***************************************************************************)
(* The AI credits of an organization for a month.  A request checks that   *)
(* its cost fits into what is left, asks the provider, and records the     *)
(* cost when it has the answer.  Costs are counted here in half credits:   *)
(* every further item of a batch costs one half, and the column holds      *)
(* whole credits only, so that a record with a half is refused after the   *)
(* provider has answered.  The plan stays the same within the month.       *)
(***************************************************************************)
EXTENDS Integers

CONSTANTS Callers,   \* concurrent requests
          Monthly,   \* monthlyCredits of a plan, in half credits
          Batches    \* platforms of VARIANTS, items of BULK

Tiers == {"CREATOR", "BUSINESS", "ROCKET"}

ASSUME CreditsAssumption ==
    /\ Monthly \in [Tiers -> Nat]
    /\ Batches \subseteq 1 .. 30

VARIABLES
    tier,       \* of the plan of the organization
    used,       \* sum of AiGeneration.creditCost since the first of the month
    gpc,        \* where each request stands
    gfor,       \* its feature and count
    gseen,      \* history: what was used when it checked
    overtaken   \* history: a record was made that another one had outdated

creditVars == <<tier, used, gpc, gfor, gseen, overtaken>>

Base == [CAPTION |-> 2, VARIANTS |-> 4, REPURPOSE |-> 6, IMAGE |-> 20, BULK |-> 30,
         HOLIDAY_POST |-> 2]
Features == DOMAIN Base
NoUse == [feature |-> "CAPTION", n |-> 1]

FeatureCost(f, n) == IF f \in {"BULK", "VARIANTS"} THEN Base[f] + (n - 1) ELSE Base[f] * n

MaxPlatforms == [CREATOR |-> 1, BUSINESS |-> 4, ROCKET |-> 10]
CanRepurpose == {"BUSINESS", "ROCKET"}
CanBulk == {"ROCKET"}

CreditsInit ==
    /\ tier \in Tiers
    /\ used = 0
    /\ gpc = [g \in Callers |-> "idle"]
    /\ gfor = [g \in Callers |-> NoUse]
    /\ gseen = [g \in Callers |-> 0]
    /\ overtaken = FALSE

(* Variant for the mutation runs: what the request costs is forgotten.     *)
AssertSome(f, n) == used < Monthly[tier]

AssertCanUse(f, n) == used + FeatureCost(f, n) <= Monthly[tier]

(* The request has been let through and asks the provider.                 *)
LetThrough(g, pc, f, n) ==
    /\ gpc[g] = "idle"
    /\ gpc' = [gpc EXCEPT ![g] = pc]
    /\ gfor' = [gfor EXCEPT ![g] = [feature |-> f, n |-> n]]
    /\ gseen' = [gseen EXCEPT ![g] = used]
    /\ UNCHANGED <<tier, used, overtaken>>

Settle(g) ==
    /\ gpc' = [gpc EXCEPT ![g] = "idle"]
    /\ gfor' = [gfor EXCEPT ![g] = NoUse]
    /\ gseen' = [gseen EXCEPT ![g] = 0]

-----------------------------------------------------------------------------
GenerateCaption(g) == AssertCanUse("CAPTION", 1) /\ LetThrough(g, "asked", "CAPTION", 1)

GeneratePlatformVariants(g, n) ==
    /\ n <= MaxPlatforms[tier]
    /\ AssertCanUse("VARIANTS", n)
    /\ LetThrough(g, "asked", "VARIANTS", n)

RepurposeContent(g) ==
    /\ tier \in CanRepurpose
    /\ AssertCanUse("REPURPOSE", 1)
    /\ LetThrough(g, "asked", "REPURPOSE", 1)

(* A batch is checked at the price of one item.                            *)
GenerateBulk(g, n) ==
    /\ tier \in CanBulk
    /\ AssertCanUse("BULK", 1)
    /\ LetThrough(g, "asked", "BULK", n)

GeneratePostImage(g) ==
    /\ tier # "CREATOR"
    /\ AssertCanUse("IMAGE", 1)
    /\ LetThrough(g, "asked", "IMAGE", 1)

(* These two are checked as captions and record nothing.                   *)
GenerateHashtags(g) == AssertCanUse("CAPTION", 1) /\ LetThrough(g, "free", "CAPTION", 1)
OptimizeContent(g) == AssertCanUse("CAPTION", 1) /\ LetThrough(g, "free", "CAPTION", 1)

GenerateHolidayPost(g) == AssertCanUse("HOLIDAY_POST", 1) /\ LetThrough(g, "asked", "HOLIDAY_POST", 1)

LogGeneration(g) ==
    LET cost == FeatureCost(gfor[g].feature, gfor[g].n)
    IN  /\ gpc[g] = "asked" /\ cost % 2 = 0
        /\ used' = used + cost
        /\ overtaken' = (overtaken \/ used > gseen[g])
        /\ Settle(g)
        /\ UNCHANGED tier

(* Nothing is to be recorded; the provider or the brand kit fails; the     *)
(* record is refused; the process dies.                                    *)
NothingLogged(g) ==
    /\ gpc[g] # "idle"
    /\ Settle(g)
    /\ UNCHANGED <<tier, used, overtaken>>

NewMonth ==
    /\ used > 0
    /\ used' = 0 /\ overtaken' = FALSE
    /\ UNCHANGED <<tier, gpc, gfor, gseen>>

CreditsNext ==
    \/ NewMonth
    \/ \E g \in Callers :
          \/ GenerateCaption(g) \/ RepurposeContent(g) \/ GeneratePostImage(g)
          \/ GenerateHashtags(g) \/ OptimizeContent(g) \/ GenerateHolidayPost(g)
          \/ \E n \in Batches : GeneratePlatformVariants(g, n) \/ GenerateBulk(g, n)
          \/ LogGeneration(g) \/ NothingLogged(g)

CreditsSpec == CreditsInit /\ [][CreditsNext]_creditVars

-----------------------------------------------------------------------------
(* No more is recorded in a month than the plan gives, unless a record was *)
(* made by a request whose check another one had outdated.  A plan with    *)
(* batches, which are checked at the price of one item, may exceed it by   *)
(* the further items of one batch.  The sum is whole.                      *)
CreditsKept ==
    /\ \/ overtaken
       \/ used <= Monthly[tier]
       \/ tier \in CanBulk /\ \E n \in Batches : used <= Monthly[tier] + (n - 1)
    /\ used % 2 = 0
==============================================================================
