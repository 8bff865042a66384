---------------------------- MODULE StudioProofs ----------------------------
(***************************************************************************)
(* Proofs about what an organization makes and measures, for any number of *)
(* requests, runs, rows and dates: its credits (module Credits), campaigns *)
(* and media files (Content), the figures of its profiles (Insights) and   *)
(* posts (Snapshots), and what the dashboards make of them (Dashboards).   *)
(***************************************************************************)
EXTENDS Studio, SchedulingProofs

-----------------------------------------------------------------------------
(* Credits. *)

(* The costs are numbers, and a batch costs the further items more than    *)
(* one.                                                                    *)
LEMMA CostOf ==
    /\ \A f \in Features, n \in 1 .. 30 : FeatureCost(f, n) \in Nat
    /\ \A n \in 1 .. 30 : FeatureCost("BULK", n) = FeatureCost("BULK", 1) + (n - 1)
    /\ Features = {"CAPTION", "VARIANTS", "REPURPOSE", "IMAGE", "BULK", "HOLIDAY_POST"}
  <1>1. Features = {"CAPTION", "VARIANTS", "REPURPOSE", "IMAGE", "BULK", "HOLIDAY_POST"}
    BY DEF Features, Base
  <1>2. \A f \in Features : Base[f] \in Nat
    BY <1>1 DEF Base
  <1>3. \A f \in Features, n \in 1 .. 30 : FeatureCost(f, n) \in Nat
    BY <1>2 DEF FeatureCost
  <1>4. \A n \in 1 .. 30 : FeatureCost("BULK", n) = FeatureCost("BULK", 1) + (n - 1)
    BY <1>1, <1>2 DEF FeatureCost
  <1> QED BY <1>1, <1>3, <1>4

Uses == [feature : Features, n : 1 .. 30]

CreditsTypeOK ==
    /\ tier \in Tiers
    /\ used \in Nat
    /\ gpc \in [Callers -> {"idle", "asked", "free"}]
    /\ gfor \in [Callers -> Uses]
    /\ gseen \in [Callers -> Nat]
    /\ overtaken \in BOOLEAN

(* Who may record was let through when its cost, or that of the first item *)
(* of its batch, did fit.                                                  *)
Fitted(g) ==
    LET f == gfor[g].feature
        n == gfor[g].n
    IN  IF f = "BULK"
          THEN /\ tier \in CanBulk /\ n \in Batches
               /\ gseen[g] + FeatureCost("BULK", 1) <= Monthly[tier]
          ELSE gseen[g] + FeatureCost(f, n) <= Monthly[tier]

CreditsInv ==
    /\ CreditsTypeOK
    /\ \A g \in Callers : gpc[g] = "asked" => Fitted(g)
    /\ CreditsKept

LEMMA CreditsStart == CreditsInit => CreditsInv
  <1> SUFFICES ASSUME CreditsInit PROVE CreditsInv
    OBVIOUS
  <1>1. NoUse \in Uses
    BY CostOf DEF NoUse, Uses
  <1>2. CreditsTypeOK
    BY <1>1 DEF CreditsInit, CreditsTypeOK
  <1>3. CreditsKept
    BY CreditsAssumption DEF CreditsInit, CreditsKept
  <1> QED BY <1>2, <1>3 DEF CreditsInit, CreditsInv

(* A request that is let through: what its check has seen is put on        *)
(* record, and nothing is spent yet.                                       *)
LEMMA LetThroughKeeps ==
    ASSUME CreditsInv, NEW g \in Callers, NEW pc \in {"asked", "free"},
           NEW f \in Features, NEW n \in 1 .. 30,
           LetThrough(g, pc, f, n),
           pc = "asked" =>
              IF f = "BULK"
                THEN /\ tier \in CanBulk /\ n \in Batches
                     /\ used + FeatureCost("BULK", 1) <= Monthly[tier]
                ELSE used + FeatureCost(f, n) <= Monthly[tier]
    PROVE  CreditsInv'
  <1> DEFINE use == [feature |-> f, n |-> n]
  <1>1. use \in Uses /\ use.feature = f /\ use.n = n
    BY DEF Uses
  <1>2. CreditsTypeOK'
    BY <1>1 DEF CreditsInv, CreditsTypeOK, LetThrough
  <1>3. ASSUME NEW h \in Callers, gpc'[h] = "asked" PROVE Fitted(h)'
    <2>1. CASE h = g
      <3>1. gfor'[h] = use /\ gseen'[h] = used /\ tier' = tier /\ pc = "asked"
        BY <1>3, <2>1 DEF CreditsInv, CreditsTypeOK, LetThrough
      <3> QED BY <3>1, <1>1 DEF Fitted
    <2>2. CASE h # g
      <3>1. gfor'[h] = gfor[h] /\ gseen'[h] = gseen[h] /\ tier' = tier /\ gpc[h] = "asked"
        BY <1>3, <2>2 DEF CreditsInv, CreditsTypeOK, LetThrough
      <3> QED BY <3>1 DEF Fitted, CreditsInv
    <2> QED BY <2>1, <2>2
  <1>4. CreditsKept'
    BY DEF CreditsInv, CreditsKept, LetThrough
  <1> QED BY <1>2, <1>3, <1>4 DEF CreditsInv

(* What a request settles or a new month clears leaves the other requests  *)
(* as they are.                                                            *)
LEMMA SettleKeeps ==
    ASSUME CreditsInv, NEW g \in Callers, Settle(g), tier' = tier
    PROVE  \A h \in Callers : gpc'[h] = "asked" => Fitted(h)'
  <1> SUFFICES ASSUME NEW h \in Callers, gpc'[h] = "asked" PROVE Fitted(h)'
    OBVIOUS
  <1>1. h # g /\ gpc[h] = "asked" /\ gfor'[h] = gfor[h] /\ gseen'[h] = gseen[h]
    BY DEF CreditsInv, CreditsTypeOK, Settle
  <1> QED BY <1>1 DEF CreditsInv, Fitted

LEMMA SettleTypes ==
    ASSUME CreditsInv, NEW g \in Callers, Settle(g)
    PROVE  /\ gpc' \in [Callers -> {"idle", "asked", "free"}]
           /\ gfor' \in [Callers -> Uses]
           /\ gseen' \in [Callers -> Nat]
  <1>1. NoUse \in Uses
    BY CostOf DEF NoUse, Uses
  <1> QED BY <1>1 DEF CreditsInv, CreditsTypeOK, Settle

(* The record is made by a request whose check is still true, or the       *)
(* history says that it was overtaken.                                     *)
LEMMA LogKeeps ==
    ASSUME CreditsInv, NEW g \in Callers, LogGeneration(g)
    PROVE  CreditsInv'
  <1> DEFINE f == gfor[g].feature
             n == gfor[g].n
             cost == FeatureCost(f, n)
  <1>1. f \in Features /\ n \in 1 .. 30
    BY DEF CreditsInv, CreditsTypeOK, Uses
  <1>2. cost \in Nat /\ used \in Nat /\ gseen[g] \in Nat /\ Monthly[tier] \in Nat
    BY <1>1, CostOf, CreditsAssumption DEF CreditsInv, CreditsTypeOK
  <1>3. gpc[g] = "asked" /\ cost % 2 = 0 /\ used' = used + cost /\ tier' = tier
        /\ overtaken' = (overtaken \/ used > gseen[g]) /\ Settle(g)
    BY DEF LogGeneration
  <1>4. CreditsTypeOK'
    BY <1>2, <1>3, SettleTypes DEF CreditsInv, CreditsTypeOK
  <1>5. \A h \in Callers : gpc'[h] = "asked" => Fitted(h)'
    BY <1>3, SettleKeeps
  <1>6. used' % 2 = 0
    <2>1. used % 2 = 0
      BY DEF CreditsInv, CreditsKept
    <2> HIDE DEF cost
    <2> QED BY <2>1, <1>2, <1>3
  <1>7. Fitted(g)
    BY <1>3 DEF CreditsInv
  <1>8. CASE overtaken'
    BY <1>4, <1>5, <1>6, <1>8 DEF CreditsInv, CreditsKept
  <1>9. CASE ~overtaken'
    <2>1. used <= gseen[g]
      <3>1. ~(used > gseen[g])
        BY <1>3, <1>9, Zenon
      <3> QED BY <1>2, <3>1
    <2>2. CASE f = "BULK"
      <3>1. tier \in CanBulk /\ n \in Batches /\ gseen[g] + FeatureCost("BULK", 1) <= Monthly[tier]
        BY <1>7, <2>2 DEF Fitted
      <3>2. cost = FeatureCost("BULK", 1) + (n - 1) /\ FeatureCost("BULK", 1) \in Nat
        BY <1>1, <2>2, CostOf
      <3>3. used' <= Monthly[tier] + (n - 1)
        <4> HIDE DEF cost, n
        <4> QED BY <1>1, <1>2, <1>3, <2>1, <3>1, <3>2
      <3> QED BY <1>3, <1>4, <1>5, <1>6, <3>1, <3>3 DEF CreditsInv, CreditsKept
    <2>3. CASE f # "BULK"
      <3>1. gseen[g] + cost <= Monthly[tier]
        BY <1>7, <2>3 DEF Fitted
      <3>2. used' <= Monthly[tier]
        <4> HIDE DEF cost
        <4> QED BY <1>2, <1>3, <2>1, <3>1
      <3> QED BY <1>3, <1>4, <1>5, <1>6, <3>2 DEF CreditsInv, CreditsKept
    <2> QED BY <2>2, <2>3
  <1> QED BY <1>8, <1>9

LEMMA CreditsStep == CreditsInv /\ [CreditsNext]_creditVars => CreditsInv'
  <1> SUFFICES ASSUME CreditsInv, [CreditsNext]_creditVars PROVE CreditsInv'
    OBVIOUS
  <1>1. ASSUME NewMonth PROVE CreditsInv'
    <2>1. CreditsTypeOK'
      BY <1>1 DEF CreditsInv, CreditsTypeOK, NewMonth
    <2>2. CreditsKept'
      BY <1>1, CreditsAssumption DEF CreditsInv, CreditsTypeOK, CreditsKept, NewMonth
    <2>3. \A h \in Callers : gpc'[h] = "asked" => Fitted(h)'
      BY <1>1 DEF CreditsInv, NewMonth, Fitted
    <2> QED BY <2>1, <2>2, <2>3 DEF CreditsInv
  <1>2. ASSUME NEW g \in Callers, GenerateCaption(g) PROVE CreditsInv'
    BY <1>2, CostOf, LetThroughKeeps, SMTT(30) DEF GenerateCaption, AssertCanUse
  <1>3. ASSUME NEW g \in Callers, RepurposeContent(g) PROVE CreditsInv'
    BY <1>3, CostOf, LetThroughKeeps, SMTT(30) DEF RepurposeContent, AssertCanUse
  <1>4. ASSUME NEW g \in Callers, GeneratePostImage(g) PROVE CreditsInv'
    BY <1>4, CostOf, LetThroughKeeps, SMTT(30) DEF GeneratePostImage, AssertCanUse
  <1>5. ASSUME NEW g \in Callers, GenerateHashtags(g) PROVE CreditsInv'
    BY <1>5, CostOf, LetThroughKeeps DEF GenerateHashtags, AssertCanUse
  <1>6. ASSUME NEW g \in Callers, OptimizeContent(g) PROVE CreditsInv'
    BY <1>6, CostOf, LetThroughKeeps, SMTT(30) DEF OptimizeContent, AssertCanUse
  <1>7. ASSUME NEW g \in Callers, GenerateHolidayPost(g) PROVE CreditsInv'
    BY <1>7, CostOf, LetThroughKeeps, SMTT(30) DEF GenerateHolidayPost, AssertCanUse
  <1>8. ASSUME NEW g \in Callers, NEW n \in Batches, GeneratePlatformVariants(g, n)
        PROVE CreditsInv'
    BY <1>8, CostOf, CreditsAssumption, LetThroughKeeps DEF GeneratePlatformVariants, AssertCanUse
  <1>9. ASSUME NEW g \in Callers, NEW n \in Batches, GenerateBulk(g, n) PROVE CreditsInv'
    BY <1>9, CostOf, CreditsAssumption, LetThroughKeeps DEF GenerateBulk, AssertCanUse
  <1>10. ASSUME NEW g \in Callers, LogGeneration(g) PROVE CreditsInv'
    BY <1>10, LogKeeps
  <1>11. ASSUME NEW g \in Callers, NothingLogged(g) PROVE CreditsInv'
    <2>1. Settle(g) /\ UNCHANGED <<tier, used, overtaken>>
      BY <1>11 DEF NothingLogged
    <2>2. CreditsTypeOK'
      BY <2>1, SettleTypes DEF CreditsInv, CreditsTypeOK
    <2>3. CreditsKept'
      BY <2>1 DEF CreditsInv, CreditsKept
    <2> QED BY <2>1, <2>2, <2>3, SettleKeeps DEF CreditsInv
  <1>12. CASE UNCHANGED creditVars
    <2>1. CreditsTypeOK' /\ CreditsKept'
      BY <1>12 DEF creditVars, CreditsInv, CreditsTypeOK, CreditsKept
    <2> QED BY <1>12, <2>1 DEF creditVars, CreditsInv, Fitted
  <1> QED BY <1>1, <1>2, <1>3, <1>4, <1>5, <1>6, <1>7, <1>8, <1>9, <1>10, <1>11, <1>12
          DEF CreditsNext

(* No more is recorded in a month than the plan gives, but for the further *)
(* items of one batch, unless a request was overtaken between its check    *)
(* and its record: for any number of requests, any allowance and any       *)
(* batches.                                                                *)
THEOREM CreditsAreKept == CreditsSpec => []CreditsKept
  <1>1. CreditsInv => CreditsKept
    BY DEF CreditsInv
  <1> QED BY <1>1, CreditsStart, CreditsStep, PTL DEF CreditsSpec

-----------------------------------------------------------------------------
(* An update that nobody has crossed leaves the dates in order when it is  *)
(* written, because the row is still the one it was checked against; an id *)
(* is not used again.                                                      *)
CampaignsInv ==
    /\ camp \in [Camps -> [there : BOOLEAN, start : CampDays, end : CampDays \cup {0}]]
    /\ born \subseteq Camps /\ redated \subseteq Camps /\ moved \subseteq Planners
    /\ xpc \in [Planners -> {"idle", "write", "delete"}]
    /\ xrow \in [Planners -> Camps \cup {NoCamp}]
    /\ xgiven \in [Planners -> SUBSET {"start", "end"}]
    /\ xdates \in [Planners -> Dates]
    /\ \A r \in Camps : camp[r].there => r \in born
    /\ \A x \in Planners : xpc[x] # "idle" => xrow[x] \in born
    /\ \A x \in Planners :
          xpc[x] = "write" /\ camp[xrow[x]].there /\ x \notin moved
             => Ordered(Merged(camp[xrow[x]], xgiven[x], xdates[x]))
    /\ DatesKept

LEMMA MergedType ==
    ASSUME NEW row \in [there : BOOLEAN, start : CampDays, end : CampDays \cup {0}],
           NEW given \in SUBSET {"start", "end"}, NEW d \in Dates
    PROVE  Merged(row, given, d) \in [there : BOOLEAN, start : CampDays, end : CampDays \cup {0}]
  BY DEF Merged, Dates

LEMMA CampaignsStart == CampaignsInit => CampaignsInv
  <1> SUFFICES ASSUME CampaignsInit PROVE CampaignsInv
    OBVIOUS
  <1>1. Gone \in [there : BOOLEAN, start : CampDays, end : CampDays \cup {0}]
        /\ NoDates \in Dates /\ Ordered(Gone)
    BY CampaignsAssumption DEF Gone, NoDates, Dates, CampDays, Ordered
  <1> QED BY <1>1 DEF CampaignsInit, CampaignsInv, DatesKept, Gone

LEMMA CampaignsStep == CampaignsInv /\ [CampaignsNext]_campVars => CampaignsInv'
  <1> SUFFICES ASSUME CampaignsInv, [CampaignsNext]_campVars PROVE CampaignsInv'
    OBVIOUS
  <1> USE DEF Ask, Leave, xrequest
  <1>0. Gone \in [there : BOOLEAN, start : CampDays, end : CampDays \cup {0}]
        /\ NoDates \in Dates /\ Ordered(Gone) /\ ~Gone.there
    BY CampaignsAssumption DEF Gone, NoDates, Dates, CampDays, Ordered
  <1>1. ASSUME NEW r \in Camps, PostFor(r) PROVE CampaignsInv'
    BY <1>1 DEF PostFor, CampaignsInv, DatesKept
  <1>2. ASSUME NEW r \in Camps, NEW d \in Dates, CreateCampaign(r, d) PROVE CampaignsInv'
    <2> DEFINE new == Merged(Gone, {"start", "end"}, d)
    <2>1. new \in [there : BOOLEAN, start : CampDays, end : CampDays \cup {0}]
      BY <1>0, MergedType
    <2>2. Ordered(new)
      BY <1>2 DEF CreateCampaign, Merged, Ordered, Dates
    <2>3. camp' = [camp EXCEPT ![r] = new] /\ born' = born \cup {r} /\ r \notin born
          /\ UNCHANGED <<posted, xpc, xrow, xgiven, xdates, moved, redated>>
      BY <1>2 DEF CreateCampaign
    <2> HIDE DEF new
    <2>4. \A x \in Planners : xpc[x] # "idle" => camp'[xrow[x]] = camp[xrow[x]]
      BY <2>3 DEF CampaignsInv
    <2> QED BY <2>1, <2>2, <2>3, <2>4 DEF CampaignsInv, DatesKept
  <1>3. ASSUME NEW x \in Planners, NEW r \in Camps, NEW p \in Patches,
               CheckDates(x, r, p.given, p.dates)
        PROVE  CampaignsInv'
    <2>1. p.given \in SUBSET {"start", "end"} /\ p.dates \in Dates
      BY DEF Patches
    <2> QED BY <1>3, <2>1 DEF CheckDates, CampaignsInv, DatesKept
  <1>4. ASSUME NEW x \in Planners, NEW r \in Camps, NEW mode \in {"detach", "block"},
               CountPosts(x, r, mode)
        PROVE  CampaignsInv'
    BY <1>0, <1>4 DEF CountPosts, CampaignsInv, DatesKept
  <1>5. ASSUME NEW x \in Planners, WriteDates(x) PROVE CampaignsInv'
    <2> DEFINE r == xrow[x]
               new == Merged(camp[r], xgiven[x], xdates[x])
    <2>1. r \in Camps /\ r \in born
      BY <1>5 DEF WriteDates, CampaignsInv
    <2>2. new \in [there : BOOLEAN, start : CampDays, end : CampDays \cup {0}]
      BY <2>1, MergedType DEF CampaignsInv
    <2>3. x \in moved \/ Ordered(new)
      BY <1>5 DEF WriteDates, CampaignsInv
    <2>4. camp' = [camp EXCEPT ![r] = new] /\ UNCHANGED <<born, posted>> /\ Leave(x)
          /\ redated' = (IF x \in moved THEN redated \cup {r} ELSE redated)
          /\ moved' = (moved \ {x}) \cup {y \in Planners \ {x} : xrow[y] = r}
      BY <1>5 DEF WriteDates
    <2> HIDE DEF new
    <2>5. DatesKept'
      BY <2>1, <2>3, <2>4 DEF DatesKept, CampaignsInv
    <2> QED BY <1>0, <2>1, <2>2, <2>4, <2>5 DEF CampaignsInv
  <1>6. ASSUME NEW x \in Planners, DeleteCampaign(x) PROVE CampaignsInv'
    BY <1>0, <1>6 DEF DeleteCampaign, CampaignsInv, DatesKept
  <1>7. ASSUME NEW x \in Planners, PlannerFails(x) PROVE CampaignsInv'
    BY <1>0, <1>7 DEF PlannerFails, CampaignsInv, DatesKept
  <1>8. CASE UNCHANGED campVars
    BY <1>8 DEF campVars, CampaignsInv, DatesKept
  <1> QED BY <1>1, <1>2, <1>3, <1>4, <1>5, <1>6, <1>7, <1>8 DEF CampaignsNext, PlannerSteps

(* No campaign ends before it starts, unless two updates of it crossed or  *)
(* it is gone: for any number of requests and campaigns.                   *)
THEOREM DatesAreKept == CampaignsSpec => []DatesKept
  <1>1. CampaignsInv => DatesKept
    BY DEF CampaignsInv
  <1> QED BY <1>1, CampaignsStart, CampaignsStep, PTL DEF CampaignsSpec

-----------------------------------------------------------------------------
(* The file a request has uploaded is its own until it is linked: nobody   *)
(* has read it as an avatar, and only who deletes it by its id holds it    *)
(* too.  A file that is destroyed was asked to be, or is no avatar any     *)
(* longer, and does not become one again, because every upload has an id   *)
(* of its own.                                                             *)
Carrying(z) == zpc[z] \in {"file", "link"}
Doomed(z) == zpc[z] \in {"destroy", "unfile"}

MediaTypeOK ==
    /\ spent \subseteq Files /\ filed \subseteq spent
    /\ avatar \in spent \cup {NoFile}
    /\ zpc \in [Uploaders -> {"idle", "store", "file", "link", "destroy", "unfile"}]
    /\ zfile \in [Uploaders -> spent \cup {NoFile}]
    /\ zold \in [Uploaders -> spent \cup {NoFile}]
    /\ zwhy \in [Uploaders -> {"upload", "avatar", "delete"}]

OwnFile(z) ==
    /\ zfile[z] # NoFile /\ zfile[z] # avatar
    /\ \A y \in Uploaders : zold[y] # zfile[z]
    /\ \A y \in Uploaders \ {z} : zfile[y] = zfile[z] => Doomed(y) /\ zwhy[y] = "delete"
    /\ zpc[z] = "file" => zfile[z] \in blobs \ filed
    /\ zpc[z] = "link" => zfile[z] \in blobs \cup dropped

Condemned(z) ==
    /\ zfile[z] # NoFile
    /\ \/ zwhy[z] = "delete" /\ zfile[z] \in dropped
       \/ zwhy[z] = "avatar" /\ zfile[z] # avatar

MediaInv ==
    /\ MediaTypeOK
    /\ \A z \in Uploaders : zpc[z] \in {"idle", "store"} => zfile[z] = NoFile
    /\ \A z \in Uploaders : Carrying(z) => OwnFile(z)
    /\ \A z \in Uploaders : Doomed(z) => Condemned(z)
    /\ FilesKept

LEMMA MediaStart == MediaInit => MediaInv
  BY DEF MediaInit, MediaInv, MediaTypeOK, Carrying, Doomed, FilesKept, RowsHaveBlobs, AvatarShown

(* A request that ends, or begins anew without a file.                     *)
LEMMA PassKeeps ==
    ASSUME MediaInv, NEW z \in Uploaders, NEW pc \in {"idle", "store"},
           NEW old \in {NoFile, avatar}, NEW why \in {"upload", "avatar", "delete"},
           Pass(z, pc, NoFile, old, why),
           UNCHANGED <<blobs, filed, avatar, spent, dropped>>,
           halved' = (IF zpc[z] = "unfile" THEN halved \cup {zfile[z]} ELSE halved)
    PROVE  MediaInv'
  <1> USE DEF Pass, Carrying, Doomed
  <1>1. MediaTypeOK'
    BY DEF MediaInv, MediaTypeOK
  <1>2. \A y \in Uploaders : zpc'[y] \in {"idle", "store"} => zfile'[y] = NoFile
    BY DEF MediaInv, MediaTypeOK
  <1>3. \A y \in Uploaders : Carrying(y)' => OwnFile(y)'
    BY DEF MediaInv, MediaTypeOK, OwnFile
  <1>4. \A y \in Uploaders : Doomed(y)' => Condemned(y)'
    BY DEF MediaInv, MediaTypeOK, Condemned
  <1>5. RowsHaveBlobs'
    BY DEF MediaInv, MediaTypeOK, FilesKept, RowsHaveBlobs
  <1>6. AvatarShown'
    BY DEF MediaInv, FilesKept, AvatarShown
  <1> QED BY <1>1, <1>2, <1>3, <1>4, <1>5, <1>6 DEF MediaInv, FilesKept

LEMMA MediaStep == MediaInv /\ [MediaNext]_fileVars => MediaInv'
  <1> SUFFICES ASSUME MediaInv, [MediaNext]_fileVars PROVE MediaInv'
    OBVIOUS
  <1> USE DEF Pass, Stop, On, Carrying, Doomed, zrequest, fhistory
  <1>1. ASSUME NEW z \in Uploaders, UploadFile(z) PROVE MediaInv'
    BY <1>1, PassKeeps DEF UploadFile, BeginUpload, MediaInv, MediaTypeOK
  <1>2. ASSUME NEW z \in Uploaders, UploadAiGeneratedBuffer(z) PROVE MediaInv'
    BY <1>2, PassKeeps DEF UploadAiGeneratedBuffer, BeginUpload, MediaInv, MediaTypeOK
  <1>3. ASSUME NEW z \in Uploaders, UpdateUserAvatar(z) PROVE MediaInv'
    BY <1>3, PassKeeps DEF UpdateUserAvatar, BeginUpload, MediaInv, MediaTypeOK
  <1>4. ASSUME NEW z \in Uploaders, StoreBlob(z) PROVE MediaInv'
    <2>1. PICK f \in Files \ spent :
             /\ blobs' = blobs \cup {f} /\ spent' = spent \cup {f}
             /\ Pass(z, "file", f, zold[z], zwhy[z])
      BY <1>4 DEF StoreBlob
    <2>2. UNCHANGED <<filed, avatar, halved, dropped>> /\ f # NoFile /\ zpc[z] = "store"
      BY <1>4, MediaFilesAssumption DEF StoreBlob
    <2>3. MediaTypeOK'
      BY <2>1, <2>2 DEF MediaInv, MediaTypeOK
    <2>4. \A y \in Uploaders : zpc'[y] \in {"idle", "store"} => zfile'[y] = NoFile
      BY <2>1, <2>2 DEF MediaInv, MediaTypeOK
    <2>5. \A y \in Uploaders : zfile[y] # f /\ zold[y] # f
      BY <2>2 DEF MediaInv, MediaTypeOK
    <2>6. f \notin filed /\ f # avatar
      BY <2>2 DEF MediaInv, MediaTypeOK
    <2>7. \A y \in Uploaders : Carrying(y)' => OwnFile(y)'
      BY <2>1, <2>2, <2>5, <2>6 DEF MediaInv, MediaTypeOK, OwnFile
    <2>8. \A y \in Uploaders : Doomed(y)' => Condemned(y)'
      BY <2>1, <2>2 DEF MediaInv, MediaTypeOK, Condemned
    <2>9. FilesKept'
      BY <2>1, <2>2 DEF MediaInv, MediaTypeOK, FilesKept, RowsHaveBlobs, AvatarShown
    <2> QED BY <2>3, <2>4, <2>7, <2>8, <2>9 DEF MediaInv
  <1>5. ASSUME NEW z \in Uploaders, FileBlob(z) PROVE MediaInv'
    <2>1. OwnFile(z) /\ zfile[z] \in blobs /\ zfile[z] \in spent
      BY <1>5 DEF FileBlob, MediaInv, MediaTypeOK, OwnFile
    <2>2. CASE zwhy[z] = "avatar"
      <3>1. MediaTypeOK' /\ \A y \in Uploaders : zpc'[y] \in {"idle", "store"} => zfile'[y] = NoFile
        BY <1>5, <2>1, <2>2 DEF FileBlob, MediaInv, MediaTypeOK
      <3>2. \A y \in Uploaders : Carrying(y)' => OwnFile(y)'
        BY <1>5, <2>1, <2>2 DEF FileBlob, MediaInv, MediaTypeOK, OwnFile
      <3>3. \A y \in Uploaders : Doomed(y)' => Condemned(y)'
        BY <1>5, <2>2 DEF FileBlob, MediaInv, MediaTypeOK, Condemned
      <3>4. FilesKept'
        BY <1>5, <2>1, <2>2 DEF FileBlob, MediaInv, MediaTypeOK, FilesKept, RowsHaveBlobs, AvatarShown
      <3> QED BY <3>1, <3>2, <3>3, <3>4 DEF MediaInv
    <2>3. CASE zwhy[z] # "avatar"
      <3>1. MediaTypeOK' /\ \A y \in Uploaders : zpc'[y] \in {"idle", "store"} => zfile'[y] = NoFile
        BY <1>5, <2>1, <2>3 DEF FileBlob, MediaInv, MediaTypeOK
      <3>2. \A y \in Uploaders : Carrying(y)' => OwnFile(y)'
        BY <1>5, <2>1, <2>3 DEF FileBlob, MediaInv, MediaTypeOK, OwnFile
      <3>3. \A y \in Uploaders : Doomed(y)' => Condemned(y)'
        BY <1>5, <2>3 DEF FileBlob, MediaInv, MediaTypeOK, Condemned
      <3>4. FilesKept'
        BY <1>5, <2>1, <2>3 DEF FileBlob, MediaInv, MediaTypeOK, FilesKept, RowsHaveBlobs, AvatarShown
      <3> QED BY <3>1, <3>2, <3>3, <3>4 DEF MediaInv
    <2> QED BY <2>2, <2>3
  <1>6. ASSUME NEW z \in Uploaders, LinkAvatar(z) PROVE MediaInv'
    <2> DEFINE f == zfile[z]
    <2>1. OwnFile(z) /\ f \in filed /\ f # NoFile /\ f \in blobs \cup dropped /\ avatar' = f
          /\ UNCHANGED <<blobs, filed, spent, halved, dropped>>
      BY <1>6 DEF LinkAvatar, MediaInv, OwnFile
    <2>2. RowsHaveBlobs' /\ AvatarShown'
      BY <1>6, <2>1 DEF LinkAvatar, MediaInv, MediaTypeOK, FilesKept, RowsHaveBlobs, AvatarShown
    <2>3. \A y \in Uploaders \ {z} : Carrying(y) => zfile[y] # f
      BY <2>1 DEF OwnFile
    <2>4. \A y \in Uploaders \ {z} : Doomed(y) /\ zwhy[y] = "avatar" => zfile[y] # f
      BY <2>1 DEF OwnFile
    <2>5. CASE zold[z] = NoFile
      <3>1. MediaTypeOK' /\ \A y \in Uploaders : zpc'[y] \in {"idle", "store"} => zfile'[y] = NoFile
        BY <1>6, <2>1, <2>5 DEF LinkAvatar, MediaInv, MediaTypeOK
      <3>2. \A y \in Uploaders : Carrying(y)' => OwnFile(y)'
        BY <1>6, <2>1, <2>3, <2>5 DEF LinkAvatar, MediaInv, MediaTypeOK, OwnFile
      <3>3. \A y \in Uploaders : Doomed(y)' => Condemned(y)'
        BY <1>6, <2>1, <2>4, <2>5 DEF LinkAvatar, MediaInv, MediaTypeOK, Condemned
      <3> QED BY <2>2, <3>1, <3>2, <3>3 DEF MediaInv, FilesKept
    <2>6. CASE zold[z] # NoFile
      <3>1. Pass(z, "destroy", zold[z], NoFile, "avatar") /\ zold[z] # f
        BY <1>6, <2>1, <2>6 DEF LinkAvatar, OwnFile
      <3>2. MediaTypeOK' /\ \A y \in Uploaders : zpc'[y] \in {"idle", "store"} => zfile'[y] = NoFile
        BY <2>1, <3>1 DEF MediaInv, MediaTypeOK
      <3>3. \A y \in Uploaders : Carrying(y)' => OwnFile(y)'
        BY <2>1, <2>3, <3>1 DEF MediaInv, MediaTypeOK, OwnFile
      <3>4. \A y \in Uploaders : Doomed(y)' => Condemned(y)'
        BY <2>1, <2>4, <2>6, <3>1 DEF MediaInv, MediaTypeOK, Condemned
      <3> QED BY <2>2, <3>2, <3>3, <3>4 DEF MediaInv, FilesKept
    <2> QED BY <2>5, <2>6
  <1>7. ASSUME NEW z \in Uploaders, NEW f \in Files, BeginDelete(z, f) PROVE MediaInv'
    <2>1. f \in spent /\ f # NoFile /\ f \in filed /\ dropped' = dropped \cup {f}
          /\ Pass(z, "destroy", f, NoFile, "delete") /\ zpc[z] = "idle"
          /\ UNCHANGED <<blobs, filed, avatar, spent, halved>>
      BY <1>7, MediaFilesAssumption DEF BeginDelete, MediaInv, MediaTypeOK
    <2>2. MediaTypeOK' /\ \A y \in Uploaders : zpc'[y] \in {"idle", "store"} => zfile'[y] = NoFile
      BY <2>1 DEF MediaInv, MediaTypeOK
    <2>3. \A y \in Uploaders : Carrying(y)' => OwnFile(y)'
      BY <2>1 DEF MediaInv, MediaTypeOK, OwnFile
    <2>4. \A y \in Uploaders : Doomed(y)' => Condemned(y)'
      BY <2>1 DEF MediaInv, MediaTypeOK, Condemned
    <2>5. FilesKept'
      BY <2>1 DEF MediaInv, MediaTypeOK, FilesKept, RowsHaveBlobs, AvatarShown
    <2> QED BY <2>2, <2>3, <2>4, <2>5 DEF MediaInv
  <1>8. ASSUME NEW z \in Uploaders, DestroyBlob(z) PROVE MediaInv'
    <2>1. Condemned(z) /\ zfile[z] \in filed /\ blobs' = blobs \ {zfile[z]}
          /\ On(z, "unfile") /\ UNCHANGED <<filed, avatar, spent, halved, dropped>>
      BY <1>8 DEF DestroyBlob, MediaInv
    <2>2. MediaTypeOK' /\ \A y \in Uploaders : zpc'[y] \in {"idle", "store"} => zfile'[y] = NoFile
      BY <2>1 DEF MediaInv, MediaTypeOK
    <2>3. \A y \in Uploaders \ {z} : Carrying(y) /\ zfile[y] = zfile[z]
                                    => zpc[y] = "link" /\ zfile[z] \in dropped
      BY <2>1 DEF MediaInv, MediaTypeOK, OwnFile, Condemned
    <2>4. \A y \in Uploaders : Carrying(y)' => OwnFile(y)'
      BY <1>8, <2>1, <2>3 DEF DestroyBlob, MediaInv, MediaTypeOK, OwnFile
    <2>5. \A y \in Uploaders : Doomed(y)' => Condemned(y)'
      BY <1>8, <2>1 DEF DestroyBlob, MediaInv, MediaTypeOK, Condemned
    <2>6. FilesKept'
      BY <1>8, <2>1 DEF DestroyBlob, MediaInv, MediaTypeOK, FilesKept, RowsHaveBlobs, AvatarShown,
            Condemned
    <2> QED BY <2>2, <2>4, <2>5, <2>6 DEF MediaInv
  <1>9. ASSUME NEW z \in Uploaders, Unfile(z) PROVE MediaInv'
    <2>1. MediaTypeOK' /\ \A y \in Uploaders : zpc'[y] \in {"idle", "store"} => zfile'[y] = NoFile
      BY <1>9 DEF Unfile, MediaInv, MediaTypeOK
    <2>2. \A y \in Uploaders : Carrying(y)' => OwnFile(y)'
      BY <1>9 DEF Unfile, MediaInv, MediaTypeOK, OwnFile
    <2>3. \A y \in Uploaders : Doomed(y)' => Condemned(y)'
      BY <1>9 DEF Unfile, MediaInv, MediaTypeOK, Condemned
    <2>4. FilesKept'
      BY <1>9 DEF Unfile, MediaInv, MediaTypeOK, FilesKept, RowsHaveBlobs, AvatarShown
    <2> QED BY <2>1, <2>2, <2>3, <2>4 DEF MediaInv
  <1>10. ASSUME NEW z \in Uploaders, UploaderFails(z) PROVE MediaInv'
    BY <1>10, PassKeeps DEF UploaderFails
  <1>11. ASSUME NEW batch \in SUBSET Uploaders, UploadMany(batch) PROVE MediaInv'
    <2>1. MediaTypeOK' /\ \A y \in Uploaders : zpc'[y] \in {"idle", "store"} => zfile'[y] = NoFile
      BY <1>11 DEF UploadMany, MediaInv, MediaTypeOK
    <2>2. \A y \in Uploaders : Carrying(y)' => OwnFile(y)'
      BY <1>11 DEF UploadMany, MediaInv, MediaTypeOK, OwnFile
    <2>3. \A y \in Uploaders : Doomed(y)' => Condemned(y)'
      BY <1>11 DEF UploadMany, MediaInv, MediaTypeOK, Condemned
    <2>4. FilesKept'
      BY <1>11 DEF UploadMany, MediaInv, MediaTypeOK, FilesKept, RowsHaveBlobs, AvatarShown
    <2> QED BY <2>1, <2>2, <2>3, <2>4 DEF MediaInv
  <1>12. CASE UNCHANGED fileVars
    BY <1>12 DEF fileVars, MediaInv, MediaTypeOK, OwnFile, Condemned, FilesKept, RowsHaveBlobs,
          AvatarShown
  <1> QED BY <1>1, <1>2, <1>3, <1>4, <1>5, <1>6, <1>7, <1>8, <1>9, <1>10, <1>11, <1>12
          DEF MediaNext, UploaderSteps

(* A row names a blob unless its deletion is under way or was cut off, and *)
(* the avatar can be shown unless it was asked to be deleted: for any      *)
(* number of uploads, replacements, deletions and failures.                *)
THEOREM FilesAreKept == MediaSpec => []FilesKept
  <1>1. MediaInv => FilesKept
    BY DEF MediaInv
  <1> QED BY <1>1, MediaStart, MediaStep, PTL DEF MediaSpec

(* Both together, for campaigns and media files edited side by side.       *)
THEOREM ContentIsKept == CampaignsSpec /\ MediaSpec => []ContentKept
  <1>1. DatesKept /\ FilesKept => ContentKept
    BY DEF ContentKept
  <1> QED BY <1>1, DatesAreKept, FilesAreKept, PTL

-----------------------------------------------------------------------------
(* The figures of posts.  Nothing is written ahead of its day, and what a  *)
(* run has been answered is no more than the figure at the network, and,   *)
(* on the day it asked, no less than any row of an earlier day.            *)
Written(p) == {d \in 0 .. SnapDays : snapshot[p][d] # NoFigure}

SnapShape ==
    /\ day \in 0 .. SnapDays
    /\ likes \in [Sent -> Figures]
    /\ snapshot \in [Sent -> [0 .. SnapDays -> Figures \cup {NoFigure}]]
    /\ spc \in [Fetchers -> {"idle", "asking", "saving"}]
    /\ answers \in [Fetchers -> Answers]
    /\ since \in [Fetchers -> 0 .. day]
    /\ \A w \in Fetchers : spc[w] = "idle" => answers[w] = Unanswered

Timely ==
    \A p \in Sent \ aged : \A d \in Written(p) : d <= day /\ snapshot[p][d] <= likes[p]

InOrder ==
    \A p \in Sent \ aged : \A d, e \in Written(p) : e <= d => snapshot[p][e] <= snapshot[p][d]

Answered ==
    \A w \in Fetchers, p \in Sent : answers[w][p] # NoFigure =>
        /\ answers[w][p] <= likes[p]
        /\ since[w] = day /\ p \notin aged =>
              \A e \in Written(p) : e < day => snapshot[p][e] <= answers[w][p]

SnapshotsInv == SnapShape /\ Timely /\ InOrder /\ Answered

LEMMA SnapshotsStart == SnapshotsInit => SnapshotsInv
  <1> SUFFICES ASSUME SnapshotsInit PROVE SnapshotsInv
    OBVIOUS
  <1>1. \A p \in Sent : Written(p) = {}
    BY DEF SnapshotsInit, Written
  <1>2. SnapShape
    BY SnapshotsAssumption
    DEF SnapshotsAssumption, SnapshotsInit, SnapShape, Answers, Unanswered, Figures
  <1>3. Answered
    BY DEF SnapshotsInit, Answered, Unanswered
  <1> QED BY <1>1, <1>2, <1>3 DEF SnapshotsInv, Timely, InOrder

LEMMA SnapshotsStep == SnapshotsInv /\ [SnapshotsNext]_snapVars => SnapshotsInv'
  <1> SUFFICES ASSUME SnapshotsInv, [SnapshotsNext]_snapVars PROVE SnapshotsInv'
    OBVIOUS
  <1>0. /\ SnapShape /\ Timely /\ InOrder /\ Answered
        /\ SnapDays \in Nat /\ Figures \subseteq Nat
        /\ \A q \in Sent : /\ Written(q) \subseteq 0 .. SnapDays
                           /\ likes[q] \in Nat
                           /\ \A d \in Written(q) : snapshot[q][d] \in Nat
        /\ day \in Nat
    <2>1. SnapShape /\ SnapDays \in Nat /\ Figures \subseteq Nat
      BY SnapshotsAssumption DEF SnapshotsInv, SnapshotsAssumption, Figures
    <2>2. ASSUME NEW q \in Sent PROVE Written(q) \subseteq 0 .. SnapDays /\ likes[q] \in Nat
      BY <2>1 DEF SnapShape, Written
    <2>3. ASSUME NEW q \in Sent, NEW d \in Written(q) PROVE snapshot[q][d] \in Nat
      <3>1. d \in 0 .. SnapDays /\ snapshot[q][d] # NoFigure
        BY DEF Written
      <3>2. snapshot[q][d] \in Figures \cup {NoFigure}
        BY <2>1, <3>1 DEF SnapShape
      <3> QED BY <2>1, <3>1, <3>2
    <2>4. day \in Nat
      BY <2>1 DEF SnapShape
    <2> QED BY <2>1, <2>2, <2>3, <2>4 DEF SnapshotsInv
  <1>1. ASSUME NEW w \in Fetchers, AskPosts(w) PROVE SnapshotsInv'
    <2>1. answers[w] = Unanswered
      BY <1>0, <1>1 DEF AskPosts, SnapShape
    <2>2. SnapShape'
      BY <1>0, <1>1 DEF AskPosts, SnapShape, outside
    <2>3. \A p \in Sent : answers'[w][p] = NoFigure
      BY <1>1, <2>1 DEF AskPosts, Unanswered
    <2>4. Answered'
      BY <1>0, <1>1, <2>3 DEF AskPosts, outside, Answered, Written, SnapShape
    <2> QED BY <1>0, <1>1, <2>2, <2>4 DEF AskPosts, outside, SnapshotsInv, Timely, InOrder, Written
  <1>2. ASSUME NEW w \in Fetchers, NEW chunk \in SUBSET Sent, NEW told \in SUBSET Sent,
               Chunk(w, chunk, told)
        PROVE  SnapshotsInv'
    <2>1. \A v \in Fetchers, p \in Sent : answers'[v][p] = IF v = w /\ p \in told THEN likes[p]
                                                          ELSE answers[v][p]
      BY <1>0, <1>2 DEF Chunk, SnapShape, Answers
    <2>2. SnapShape'
      BY <1>0, <1>2 DEF Chunk, SnapShape, outside, Answers
    <2>3. Answered'
      <3> SUFFICES ASSUME NEW v \in Fetchers, NEW p \in Sent, answers'[v][p] # NoFigure
                   PROVE  /\ answers'[v][p] <= likes[p]
                          /\ since[v] = day /\ p \notin aged =>
                                \A e \in Written(p) : e < day => snapshot[p][e] <= answers'[v][p]
        BY <1>2 DEF Chunk, outside, Answered, Written
      <3>1. CASE v = w /\ p \in told
        BY <1>0, <2>1, <3>1 DEF Timely
      <3>2. CASE ~(v = w /\ p \in told)
        BY <1>0, <2>1, <3>2 DEF Answered
      <3> QED BY <3>1, <3>2
    <2> QED BY <1>0, <1>2, <2>2, <2>3 DEF Chunk, outside, SnapshotsInv, Timely, InOrder, Written
  <1>3. ASSUME NEW w \in Fetchers, AllAsked(w) PROVE SnapshotsInv'
    BY <1>0, <1>3
    DEF AllAsked, outside, SnapshotsInv, SnapShape, Timely, InOrder, Answered, Written
  <1>4. ASSUME NEW w \in Fetchers, NEW p \in Sent, SaveSnapshot(w, p) PROVE SnapshotsInv'
    <2> DEFINE a == answers[w][p]
    <2>1. a \in Figures /\ a # NoFigure /\ a <= likes[p]
      BY <1>0, <1>4 DEF SaveSnapshot, SnapShape, Answers, Answered
    <2>2. /\ \A q \in Sent, d \in 0 .. SnapDays :
                snapshot'[q][d] = IF q = p /\ d = day THEN a ELSE snapshot[q][d]
          /\ \A v \in Fetchers, q \in Sent :
                answers'[v][q] = IF v = w /\ q = p THEN NoFigure ELSE answers[v][q]
      BY <1>0, <1>4 DEF SaveSnapshot, SnapShape, Answers
    <2>3. SnapShape'
      <3>1. answers' \in [Fetchers -> Answers]
        BY <1>0, <1>4 DEF SaveSnapshot, SnapShape, Answers
      <3>2. snapshot' \in [Sent -> [0 .. SnapDays -> Figures \cup {NoFigure}]]
        BY <1>0, <1>4, <2>1 DEF SaveSnapshot, SnapShape
      <3> QED BY <1>0, <1>4, <3>1, <3>2 DEF SaveSnapshot, SnapShape, outside
    <2>4. UNCHANGED <<day, likes, since>> /\ aged \subseteq aged'
          /\ (p \notin aged' => since[w] = day)
      BY <1>4 DEF SaveSnapshot, outside
    <2>5. /\ \A q \in Sent \ {p} : Written(q)' = Written(q)
          /\ Written(p)' = Written(p) \cup {day}
      <3>1. day \in 0 .. SnapDays
        BY <1>0 DEF SnapShape
      <3>2. ASSUME NEW q \in Sent \ {p} PROVE Written(q)' = Written(q)
        BY <2>2 DEF Written
      <3>3. ASSUME NEW d \in 0 .. SnapDays
            PROVE  d \in Written(p)' <=> d \in Written(p) \cup {day}
        BY <2>1, <2>2, <3>1 DEF Written
      <3>4. Written(p)' \subseteq 0 .. SnapDays /\ Written(p) \cup {day} \subseteq 0 .. SnapDays
        BY <3>1 DEF Written
      <3> QED BY <3>2, <3>3, <3>4
    <2>6. p \notin aged' => \A e \in Written(p) : e < day => snapshot[p][e] <= a
      BY <1>0, <2>1, <2>4 DEF Answered
    <2>7. \A q \in Sent : Written(q)' \subseteq 0 .. SnapDays
      BY DEF Written
    <2> HIDE DEF a
    <2>8. Timely'
      <3> SUFFICES ASSUME NEW q \in Sent \ aged', NEW d \in Written(q)'
                   PROVE  d <= day /\ snapshot'[q][d] <= likes[q]
        BY <2>4 DEF Timely
      <3>1. CASE q = p /\ d = day
        BY <1>0, <2>1, <2>2, <2>7, <3>1
      <3>2. CASE ~(q = p /\ d = day)
        <4>1. d \in Written(q) /\ snapshot'[q][d] = snapshot[q][d] /\ q \notin aged
          BY <2>2, <2>4, <2>5, <2>7, <3>2
        <4> QED BY <4>1, <1>0 DEF Timely
      <3> QED BY <3>1, <3>2
    <2>9. InOrder'
      <3> SUFFICES ASSUME NEW q \in Sent \ aged', NEW d \in Written(q)', NEW e \in Written(q)',
                          e <= d
                   PROVE  snapshot'[q][e] <= snapshot'[q][d]
        BY DEF InOrder
      <3>1. CASE q # p
        BY <1>0, <2>2, <2>4, <2>5, <2>7, <3>1 DEF InOrder
      <3>2. CASE q = p /\ d = day /\ e = day
        <4>1. snapshot'[q][day] = a
          BY <2>2, <2>7, <3>2
        <4>2. a \in Nat
          BY <1>0, <2>1
        <4>3. snapshot'[q][e] = a /\ snapshot'[q][d] = a
          BY <3>2, <4>1
        <4> QED BY <4>2, <4>3
      <3>3. CASE q = p /\ d = day /\ e # day
        BY <1>0, <2>2, <2>5, <2>6, <2>7, <3>3 DEF SnapShape
      <3>4. CASE q = p /\ d # day /\ e = day
        BY <1>0, <2>4, <2>5, <2>7, <3>4 DEF Timely, SnapShape
      <3>5. CASE q = p /\ d # day /\ e # day
        BY <1>0, <2>2, <2>4, <2>5, <2>7, <3>5 DEF InOrder
      <3> QED BY <3>1, <3>2, <3>3, <3>4, <3>5
    <2>10. Answered'
      <3> SUFFICES ASSUME NEW v \in Fetchers, NEW q \in Sent, answers'[v][q] # NoFigure
                   PROVE  /\ answers'[v][q] <= likes[q]
                          /\ since[v] = day /\ q \notin aged' =>
                                \A e \in Written(q)' : e < day => snapshot'[q][e] <= answers'[v][q]
        BY <2>4 DEF Answered
      <3>1. answers'[v][q] = answers[v][q] /\ ~(v = w /\ q = p)
        BY <2>2
      <3>2. \A e \in Written(q)' : e < day => e \in Written(q) /\ snapshot'[q][e] = snapshot[q][e]
        BY <1>0, <2>2, <2>5, <2>7 DEF SnapShape
      <3> QED BY <1>0, <2>4, <3>1, <3>2 DEF Answered
    <2> QED BY <2>3, <2>8, <2>9, <2>10 DEF SnapshotsInv
  <1>5. ASSUME NEW w \in Fetchers, NEW p \in Sent, PassOver(w, p) PROVE SnapshotsInv'
    <2>1. \A v \in Fetchers, q \in Sent :
             answers'[v][q] = IF v = w /\ q = p THEN NoFigure ELSE answers[v][q]
      BY <1>0, <1>5 DEF PassOver, SnapShape, Answers
    <2>2. SnapShape'
      BY <1>0, <1>5 DEF PassOver, SnapShape, Answers, outside
    <2>3. Answered'
      BY <1>0, <1>5, <2>1 DEF PassOver, outside, Answered, Written
    <2> QED BY <1>0, <1>5, <2>2, <2>3 DEF PassOver, outside, SnapshotsInv, Timely, InOrder, Written
  <1>6. ASSUME NEW w \in Fetchers, EndRun(w) PROVE SnapshotsInv'
    <2>1. SnapShape'
      BY <1>0, <1>6 DEF EndRun, SnapShape, outside
    <2>2. \A p \in Sent : answers'[w][p] = NoFigure
      BY <1>6 DEF EndRun, Unanswered
    <2>3. Answered'
      BY <1>0, <1>6, <2>2 DEF EndRun, outside, Answered, Written, SnapShape
    <2> QED BY <1>0, <1>6, <2>1, <2>3 DEF EndRun, outside, SnapshotsInv, Timely, InOrder, Written
  <1>7. CASE NextDay
    <2>1. SnapShape'
      BY <1>0, <1>7 DEF NextDay, SnapShape
    <2>2. day' = day + 1 /\ day \in Nat /\ UNCHANGED <<likes, snapshot, answers, since, aged>>
      BY <1>0, <1>7 DEF NextDay, SnapShape
    <2>3. \A w \in Fetchers : since[w] # day'
      BY <1>0, <2>2 DEF SnapShape
    <2>4. Timely' /\ InOrder'
      BY <1>0, <2>2 DEF Timely, InOrder, Written
    <2>5. Answered'
      BY <1>0, <2>2, <2>3 DEF Answered
    <2> QED BY <2>1, <2>4, <2>5 DEF SnapshotsInv
  <1>8. ASSUME NEW p \in Sent, Like(p) PROVE SnapshotsInv'
    <2>1. /\ \A q \in Sent : likes[q] \in Figures /\ likes'[q] \in Figures /\ likes[q] <= likes'[q]
          /\ likes' \in [Sent -> Figures]
          /\ UNCHANGED <<day, snapshot, spc, answers, since, aged>>
      BY <1>0, <1>8, SnapshotsAssumption DEF Like, SnapShape, Figures, SnapshotsAssumption
    <2>2. SnapShape'
      BY <1>0, <2>1 DEF SnapShape, Answers, Unanswered
    <2>3. \A q \in Sent : Written(q)' = Written(q)
      BY <2>1 DEF Written
    <2>4. Timely'
      <3> SUFFICES ASSUME NEW q \in Sent \ aged, NEW d \in Written(q)
                   PROVE  d <= day /\ snapshot[q][d] <= likes'[q]
        BY <2>1, <2>3 DEF Timely
      <3>1. d <= day /\ snapshot[q][d] <= likes[q]
        BY <1>0 DEF Timely
      <3>2. likes[q] <= likes'[q] /\ likes'[q] \in Nat
        BY <1>0, <2>1
      <3> QED BY <1>0, <3>1, <3>2
    <2>5. InOrder'
      BY <1>0, <2>1, <2>3 DEF InOrder
    <2>6. ASSUME NEW w \in Fetchers, NEW q \in Sent, answers[w][q] # NoFigure
          PROVE  answers[w][q] \in Nat
      <3>1. answers[w] \in [Sent -> Figures \cup {NoFigure}]
        BY <1>0 DEF SnapShape, Answers
      <3> QED BY <1>0, <2>6, <3>1
    <2>7. Answered'
      <3> SUFFICES ASSUME NEW w \in Fetchers, NEW q \in Sent, answers[w][q] # NoFigure
                   PROVE  /\ answers[w][q] <= likes'[q]
                          /\ since[w] = day /\ q \notin aged =>
                                \A e \in Written(q) : e < day => snapshot[q][e] <= answers[w][q]
        BY <2>1, <2>3 DEF Answered
      <3>1. /\ answers[w][q] <= likes[q] /\ answers[w][q] \in Nat
            /\ since[w] = day /\ q \notin aged =>
                  \A e \in Written(q) : e < day => snapshot[q][e] <= answers[w][q]
        BY <1>0, <2>6 DEF Answered
      <3>2. likes[q] <= likes'[q] /\ likes'[q] \in Nat
        BY <1>0, <2>1
      <3> QED BY <1>0, <3>1, <3>2
    <2> QED BY <2>2, <2>4, <2>5, <2>7 DEF SnapshotsInv
  <1>9. ASSUME UNCHANGED <<day, likes, snapshot, spc, answers, since, aged>> PROVE SnapshotsInv'
    BY <1>0, <1>9 DEF SnapshotsInv, SnapShape, Timely, InOrder, Answered, Written
  <1>10. ASSUME NEW p \in Sent, Withdraw(p) PROVE SnapshotsInv'
    BY <1>9, <1>10 DEF Withdraw
  <1>11. CASE UNCHANGED snapVars
    BY <1>9, <1>11 DEF snapVars
  <1> QED
    BY <1>1, <1>2, <1>3, <1>4, <1>5, <1>6, <1>7, <1>8, <1>10, <1>11 DEF SnapshotsNext

LEMMA SnapshotsHold == SnapshotsInv => SnapshotsTrue
  <1> SUFFICES ASSUME SnapshotsInv, NEW p \in Sent \ aged, NEW d \in 0 .. SnapDays,
                      snapshot[p][d] # NoFigure
               PROVE  /\ snapshot[p][d] <= likes[p]
                      /\ \A e \in 0 .. d : snapshot[p][e] # NoFigure
                                              => snapshot[p][e] <= snapshot[p][d]
    BY DEF SnapshotsTrue
  <1>1. SnapDays \in Nat
    BY SnapshotsAssumption DEF SnapshotsAssumption
  <1>2. d \in Written(p) /\ \A e \in 0 .. d : snapshot[p][e] # NoFigure => e \in Written(p) /\ e <= d
    BY <1>1 DEF Written
  <1> QED BY <1>2 DEF SnapshotsInv, Timely, InOrder

(* The rows of a post are in the order of time and not ahead of the        *)
(* network, unless a run that began on an earlier day wrote one of them:   *)
(* for any number of posts, days, runs and any order of the answers.       *)
THEOREM SnapshotsAreTrue == SnapshotsSpec => []SnapshotsTrue
  BY SnapshotsStart, SnapshotsStep, SnapshotsHold, PTL DEF SnapshotsSpec

-----------------------------------------------------------------------------
(* The figures of profiles. *)

(* e is the last day before d that has a row.                              *)
IsLast(e, d) == /\ e < d /\ daily[e] # NoDay
                /\ \A x \in Days : x < d /\ daily[x] # NoDay => x <= e

Row == [total : Nat, gained : Nat, lost : Nat]

(* No row is ahead of today.                                               *)
InsightsType ==
    /\ kind \in Kinds /\ today \in Days
    /\ followers \in Nat /\ had \subseteq Nat /\ followers \in had
    /\ daily \in [Days -> Row \cup {NoDay}]
    /\ ipc \in [Runners -> {"idle", "fetched", "read", "stamped"}]
    /\ icount \in [Runners -> Nat]
    /\ ibase \in [Runners -> Nat \cup {NoDay}]
    /\ iday \in [Runners -> 0 .. today]
    /\ late \subseteq Days
    /\ \A d \in Days : d > today => daily[d] = NoDay

(* What a run was answered is a count the network has had.                 *)
AnswersTrue == kind # "LINKEDIN_PAGE" => \A w \in Runners : ipc[w] # "idle" => icount[w] \in had

(* A run that is about to write today's row was compared with the last row *)
(* before today, unless midnight overtook it or that row.                  *)
ComparedTrue ==
    \A w \in Runners : \A e \in Days :
        /\ ipc[w] \in {"read", "stamped"} /\ iday[w] = today /\ today \notin late
        /\ IsLast(e, today) /\ e \notin late
        => ibase[w] = daily[e].total

(* What a row says was gained and lost is the difference to the row before *)
(* it, unless midnight overtook one of the two.                            *)
RowsTrue ==
    \A d, e \in Days :
        daily[d] # NoDay /\ d \notin late /\ IsLast(e, d) /\ e \notin late
        => daily[d].gained - daily[d].lost = daily[d].total - daily[e].total

(* Growth is what the rows say because each row is: the invariant speaks   *)
(* of a row and the one before it, and sums come in only after it.         *)
InsightsInv == InsightsType /\ TotalsTrue /\ AnswersTrue /\ ComparedTrue /\ RowsTrue

LEMMA InsightsStart == InsightsInit => InsightsInv
  <1> SUFFICES ASSUME InsightsInit PROVE InsightsInv
    OBVIOUS
  <1> USE InsightsAssumption DEF InsightsInit, Days, Counts
  <1>1. InsightsType
    BY DEF InsightsType
  <1> QED BY <1>1 DEF InsightsInv, TotalsTrue, AnswersTrue, ComparedTrue, RowsTrue

(* What the query for the row before today returns.                        *)
LEMMA LastIs ==
    ASSUME InsightsType, NEW e \in Days, IsLast(e, today)
    PROVE  LastBefore(today) = daily[e].total
  <1> DEFINE past == {x \in Days : x < today /\ daily[x] # NoDay}
  <1>1. e \in past /\ past \in SUBSET Int /\ \A x \in past : x <= e
    BY InsightsAssumption DEF InsightsType, IsLast, Days
  <1>2. Max(past) = e
    BY <1>1 DEF Max
  <1> QED BY <1>1, <1>2 DEF LastBefore

LEMMA InsightsStep == InsightsInv /\ [InsightsNext]_insightVars => InsightsInv'
  <1> SUFFICES ASSUME InsightsInv, [InsightsNext]_insightVars PROVE InsightsInv'
    OBVIOUS
  <1> USE InsightsAssumption DEF InsightsInv, network
  <1>1. CASE ScheduleDaily
    BY <1>1 DEF ScheduleDaily, InsightsType, TotalsTrue, AnswersTrue, ComparedTrue, RowsTrue, IsLast
  <1>2. CASE Midnight
    <2>1. InsightsType'
      BY <1>2 DEF Midnight, InsightsType, Days
    <2>2. ComparedTrue'
      BY <1>2 DEF Midnight, InsightsType, ComparedTrue, Days
    <2>3. RowsTrue'
      BY <1>2 DEF Midnight, RowsTrue, IsLast
    <2> QED BY <1>2, <2>1, <2>2, <2>3 DEF Midnight, TotalsTrue, AnswersTrue
  <1>3. ASSUME NEW n \in Counts, Follow(n) PROVE InsightsInv'
    <2>0. n \in Nat
      BY DEF Counts
    <2>1. InsightsType'
      BY <1>3, <2>0 DEF Follow, InsightsType
    <2> QED BY <1>3, <2>1 DEF Follow, TotalsTrue, AnswersTrue, ComparedTrue, RowsTrue, IsLast
  <1>4. ASSUME NEW w \in Runners, NEW failed \in SUBSET Stats.asks, NEW queued \in BOOLEAN,
        Fetch(w, failed, queued)
        PROVE  InsightsInv'
    <2>1. ReadTotal(failed) \in Nat
      BY DEF ReadTotal, InsightsType
    <2>2. kind # "LINKEDIN_PAGE" => ReadTotal(failed) \in had
      <3>1. ASSUME kind # "LINKEDIN_PAGE" PROVE "followers" \in Stats.needs
        BY <3>1 DEF InsightsType, Stats, PersonStats, FacebookStats, InstagramStats, TwitterStats
      <3> QED BY <1>4, <3>1 DEF Fetch, ReadTotal, InsightsType
    <2>3. InsightsType'
      BY <1>4, <2>1 DEF Fetch, InsightsType
    <2>4. AnswersTrue' /\ TotalsTrue'
      BY <1>4, <2>2 DEF Fetch, InsightsType, AnswersTrue, TotalsTrue
    <2>5. ComparedTrue' /\ RowsTrue'
      BY <1>4 DEF Fetch, InsightsType, ComparedTrue, RowsTrue, IsLast
    <2> QED BY <2>3, <2>4, <2>5
  <1>5. ASSUME NEW w \in Runners, Compare(w) PROVE InsightsInv'
    <2>1. LastBefore(today) \in Nat \cup {NoDay}
      <3> DEFINE past == {x \in Days : x < today /\ daily[x] # NoDay}
      <3>0. IsFiniteSet(Days) /\ Days \in SUBSET Int
        <4>1. LastDay \in Int /\ 0 \in Int
          BY DEF InsightsAssumption
        <4>2. IsFiniteSet(0 .. LastDay)
          BY <4>1, FS_Interval
        <4> QED BY <4>1, <4>2 DEF Days
      <3>1. past \in SUBSET Int /\ IsFiniteSet(past)
        BY <3>0, FS_Subset
      <3>2. past # {} => Max(past) \in past
        BY <3>1, SetHasMax
      <3>3. \A x \in past : daily[x].total \in Nat
        BY DEF InsightsType, Row
      <3> QED BY <3>2, <3>3 DEF LastBefore
    <2>2. InsightsType'
      BY <1>5, <2>1 DEF Compare, InsightsType, Days
    <2>3. ComparedTrue'
      BY <1>5, LastIs DEF Compare, ComparedTrue, InsightsType, IsLast
    <2> QED BY <1>5, <2>2, <2>3 DEF Compare, InsightsType, TotalsTrue, AnswersTrue, RowsTrue, IsLast
  <1>6. ASSUME NEW w \in Runners, Stamp(w) PROVE InsightsInv'
    <2>1. InsightsType'
      BY <1>6 DEF Stamp, InsightsType, Days
    <2>2. ComparedTrue'
      BY <1>6 DEF Stamp, ComparedTrue, InsightsType, IsLast
    <2> QED BY <1>6, <2>1, <2>2 DEF Stamp, InsightsType, TotalsTrue, AnswersTrue, RowsTrue, IsLast
  <1>7. ASSUME NEW w \in Runners, SaveRow(w) PROVE InsightsInv'
    <2> DEFINE new == Delta(icount[w], ibase[w])
    <2>1. new \in Row /\ new # NoDay /\ new.total = icount[w]
      BY DEF Delta, Row, InsightsType
    <2>2. ibase[w] \in Nat => new.gained - new.lost = icount[w] - ibase[w]
      BY DEF Delta, InsightsType
    <2> HIDE DEF new
    <2>3. iday[w] \in Days /\ iday[w] <= today /\ daily' = [daily EXCEPT ![iday[w]] = new]
      BY <1>7 DEF SaveRow, new, InsightsType, Days
    <2>3a. 0 \in 0 .. today /\ \A d \in Days : d > today => d # iday[w]
      BY <2>3 DEF InsightsType, Days
    <2>4. InsightsType'
      BY <2>3a, <1>7, <2>1, <2>3 DEF SaveRow, Free, InsightsType
    <2>5. TotalsTrue' /\ AnswersTrue'
      BY <1>7, <2>1, <2>3 DEF SaveRow, Free, InsightsType, TotalsTrue, AnswersTrue
    <2>6. \A e, d \in Days : e # iday[w] /\ IsLast(e, d)' => IsLast(e, d) /\ daily'[e] = daily[e]
      BY <2>1, <2>3 DEF IsLast, InsightsType
    <2>7. \A e \in Days : e \notin late' => e \notin late /\ (e = iday[w] => iday[w] = today)
      BY <1>7 DEF SaveRow
    <2>8. ComparedTrue'
      <3> SUFFICES ASSUME NEW v \in Runners, NEW e \in Days,
                          ipc'[v] \in {"read", "stamped"}, iday'[v] = today', today' \notin late',
                          IsLast(e, today)', e \notin late'
                   PROVE  ibase'[v] = daily'[e].total
        BY Zenon DEF ComparedTrue
      <3>1. v # w /\ ipc'[v] = ipc[v] /\ iday'[v] = iday[v] /\ ibase'[v] = ibase[v] /\ today' = today
        BY <1>7 DEF SaveRow, Free, InsightsType
      <3>2. today \in Days /\ today \in Int /\ e \in Int
        BY DEF InsightsType, Days
      <3>3. e < today
        BY <3>1 DEF IsLast
      <3>4. e # iday[w] /\ today \notin late /\ e \notin late
        <4>1. today \notin late'
          BY <3>1
        <4>2. today \notin late /\ e \notin late
          BY <2>7, <3>2, <4>1
        <4>3. e # iday[w]
          BY <2>7, <3>2, <3>3
        <4> QED BY <4>2, <4>3
      <3>5. IsLast(e, today) /\ daily'[e] = daily[e]
        <4>1. IsLast(e, today)' => \A d \in Days : d = today' => IsLast(e, d)'
          BY DEF IsLast
        <4> QED BY <2>6, <3>1, <3>2, <3>4, <4>1
      <3> QED BY <3>1, <3>4, <3>5 DEF ComparedTrue
    <2>9. RowsTrue'
      <3> SUFFICES ASSUME NEW d \in Days, NEW e \in Days,
                          daily'[d] # NoDay, d \notin late', IsLast(e, d)', e \notin late'
                   PROVE  daily'[d].gained - daily'[d].lost = daily'[d].total - daily'[e].total
        BY Zenon DEF RowsTrue
      <3>1. e < d /\ d <= today
        <4>1. e < d
          BY DEF IsLast
        <4>2. today' = today /\ today \in Int /\ d \in Int
          BY <1>7 DEF SaveRow, InsightsType, Days
        <4> QED BY <2>4, <4>1, <4>2 DEF InsightsType
      <3>2. e # iday[w]
        BY <2>7, <3>1 DEF InsightsType, Days
      <3>3. IsLast(e, d) /\ daily'[e] = daily[e]
        BY <2>6, <3>2
      <3>4. CASE d # iday[w]
        BY <2>3, <2>7, <3>3, <3>4 DEF RowsTrue, InsightsType
      <3>5. CASE d = iday[w]
        <4>1. d = today /\ today \notin late /\ ipc[w] = "stamped" /\ daily'[d] = new
          BY <1>7, <2>3, <2>7, <3>5 DEF SaveRow, InsightsType
        <4>2. ibase[w] = daily[e].total
          BY <2>7, <3>3, <3>5, <4>1 DEF ComparedTrue
        <4>3. daily[e] \in Row
          BY <3>3 DEF IsLast, InsightsType
        <4> QED BY <2>1, <2>2, <3>3, <4>1, <4>2, <4>3 DEF Row
      <3> QED BY <3>4, <3>5
    <2> QED BY <2>4, <2>5, <2>8, <2>9
  <1>8. ASSUME NEW w \in Runners, RunFails(w) PROVE InsightsInv'
    <2>0. 0 \in 0 .. today
      BY DEF InsightsType, Days
    <2>1. InsightsType'
      BY <1>8, <2>0 DEF RunFails, Free, InsightsType
    <2>2. ComparedTrue' /\ AnswersTrue'
      BY <1>8 DEF RunFails, Free, ComparedTrue, AnswersTrue, InsightsType, IsLast
    <2> QED BY <1>8, <2>1, <2>2 DEF RunFails, TotalsTrue, RowsTrue, IsLast
  <1>9. CASE UNCHANGED insightVars
    BY <1>9 DEF insightVars, InsightsType, TotalsTrue, AnswersTrue, ComparedTrue, RowsTrue, IsLast
  <1> QED BY <1>1, <1>2, <1>3, <1>4, <1>5, <1>6, <1>7, <1>8, <1>9 DEF InsightsNext

(* What the row of a day adds.                                             *)
Change == [d \in Days |-> IF daily[d] = NoDay THEN 0 ELSE daily[d].gained - daily[d].lost]

(* The days of a window that ends before n.                                *)
Before(start, n) == {d \in Days : start <= d /\ d < n /\ daily[d] # NoDay}

Telescopes(W) == W # {} /\ W \cap late = {} =>
      FollowerGrowth(W) = SumFunctionOnSet(Change, W \ {Min(W)})

(* It is a finite set of days, with a first and a last.                    *)
LEMMA WindowOf ==
   ASSUME InsightsInv, NEW start \in Days, NEW n
   PROVE  LET W == Before(start, n) IN
          /\ W \in SUBSET Days /\ W \in SUBSET Int /\ IsFiniteSet(W)
          /\ \A d \in W : Change[d] \in Int /\ daily[d] \in Row
                /\ Change[d] = daily[d].gained - daily[d].lost
          /\ W # {} => /\ Max(W) \in W /\ \A y \in W : y <= Max(W)
                       /\ Min(W) \in W /\ \A y \in W : Min(W) <= y
  <1> DEFINE W == Before(start, n)
  <1>1. IsFiniteSet(Days) /\ Days \in SUBSET Int
    BY InsightsAssumption, FS_Interval DEF Days
  <1>2. W \in SUBSET Days /\ W \in SUBSET Int /\ \A d \in W : daily[d] # NoDay
    BY <1>1 DEF Before
  <1>3. IsFiniteSet(W)
    BY <1>1, <1>2, FS_Subset
  <1>4. \A d \in W : Change[d] \in Int /\ daily[d] \in Row
        /\ Change[d] = daily[d].gained - daily[d].lost
    BY <1>2 DEF Change, InsightsInv, InsightsType, Row
  <1> HIDE DEF W
  <1> QED BY <1>2, <1>3, <1>4, SetHasMax DEF W

(* The differences of neighbours add up to that of the ends: by induction  *)
(* over the end of the window.                                             *)
LEMMA GrowthTelescopes ==
   ASSUME InsightsInv, NEW start \in Days
   PROVE  \A n \in Nat : Telescopes(Before(start, n))
  <1> DEFINE G == {n \in Nat : Telescopes(Before(start, n))}
  <1>1. 0 \in G
    <2>1. Before(start, 0) = {}
      BY InsightsAssumption DEF Before, Days
    <2> QED BY <2>1 DEF Telescopes
  <1>2. ASSUME NEW n \in Nat, n \in G PROVE n + 1 \in G
    <2> DEFINE V == Before(start, n)
               W == Before(start, n + 1)
    <2>1. CASE n \notin W
      <3>1. W = V
        BY <2>1 DEF Before, Days
      <3> QED BY <1>2, <3>1
    <2>2. CASE n \in W
      <3> SUFFICES ASSUME W \cap late = {} PROVE FollowerGrowth(W)
            = SumFunctionOnSet(Change, W \ {Min(W)})
        BY DEF Telescopes
      <3>1. W = V \cup {n} /\ n \notin V /\ \A y \in W : y <= n
        BY <2>2 DEF Before, Days
      <3>2. /\ IsFiniteSet(W) /\ \A d \in W : Change[d] \in Int /\ daily[d] \in Row
                /\ Change[d] = daily[d].gained - daily[d].lost
            /\ Max(W) \in W /\ \A y \in W : y <= Max(W) 
            /\ Min(W) \in W /\ \A y \in W : Min(W) <= y
            /\ W \in SUBSET Int /\ W \in SUBSET Days
        BY WindowOf, <2>2
      <3>3. Max(W) = n
        BY <2>2, <3>1, <3>2
      <3>4. CASE V = {}
        <4>1. W = {n} /\ Min(W) = n
          BY <3>1, <3>2, <3>4
        <4>2. W \ {Min(W)} = {}
          BY <4>1
        <4>3. SumFunctionOnSet(Change, W \ {Min(W)}) = 0
          BY <4>2, SumNone
        <4>4. FollowerGrowth(W) = 0
          BY <3>2, <3>3, <4>1 DEF FollowerGrowth, Row
        <4> QED BY <4>3, <4>4
      <3>5. CASE V # {}
        <4>1. /\ IsFiniteSet(V) /\ \A d \in V : Change[d] \in Int /\ daily[d] \in Row
              /\ Max(V) \in V /\ \A y \in V : y <= Max(V) 
              /\ Min(V) \in V /\ \A y \in V : Min(V) <= y
          BY WindowOf, <3>5
        <4>2. Min(W) = Min(V) /\ Min(V) # n
          BY <3>1, <3>2, <4>1
        <4>3. FollowerGrowth(V) = SumFunctionOnSet(Change, V \ {Min(V)})
          BY <1>2, <3>1, <3>5 DEF Telescopes
        <4>4. IsLast(Max(V), n)
          <5>1. Max(V) < n /\ start <= Max(V) /\ daily[Max(V)] # NoDay
            BY <4>1 DEF Before
          <5>2. ASSUME NEW x \in Days, x < n, daily[x] # NoDay PROVE x <= Max(V)
            <6>1. x \in Int /\ start \in Int /\ Max(V) \in Int
              BY <3>1, <3>2, <4>1 DEF Days
            <6>2. CASE start <= x
              BY <4>1, <5>2, <6>2 DEF Before
            <6>3. CASE x < start
              BY <5>1, <6>1, <6>3
            <6> QED BY <6>1, <6>2, <6>3
          <5> QED BY <5>1, <5>2 DEF IsLast
        <4>5. Change[n] = daily[n].total - daily[Max(V)].total
          <5>1. n \in Days /\ Max(V) \in Days /\ n \notin late /\ Max(V) \notin late /\ daily[n] # NoDay
            BY <2>2, <3>1, <3>2, <4>1 DEF Before
          <5> QED BY <2>2, <3>2, <4>4, <5>1 DEF InsightsInv, RowsTrue
        <4> DEFINE R == W \ {Min(W)}
        <4>6. IsFiniteSet(R) /\ n \in R /\ (\A d \in R : Change[d] \in Int) /\ R \ {n} = V \ {Min(V)}
          BY <3>1, <3>2, <4>2, FS_RemoveElement
        <4> HIDE DEF R, V, W
        <4>7. SumFunctionOnSet(Change, R) = Change[n] + SumFunctionOnSet(Change, V \ {Min(V)})
          <5>1. SumFunctionOnSet(Change, R) = Change[n] + SumFunctionOnSet(Change, R \ {n})
            BY <4>6, SumAdd
          <5> QED BY <4>6, <5>1
        <4>8. daily[n].total \in Int /\ daily[Max(V)].total \in Int /\ daily[Min(V)].total \in Int
          BY <2>2, <3>2, <4>1 DEF Row
        <4> QED BY <3>3, <4>2, <4>3, <4>5, <4>7, <4>8 DEF FollowerGrowth, R
      <3> QED BY <3>4, <3>5
    <2> QED BY <2>1, <2>2
  <1> HIDE DEF G
  <1>3. \A n \in Nat : n \in G
    BY <1>1, <1>2, NatInd
  <1> QED BY <1>3 DEF G

(* ... and GrowthAdds speaks of such windows.                              *)
LEMMA GrowthHolds == InsightsInv => GrowthAdds
  <1> SUFFICES ASSUME InsightsInv, NEW start \in Days, NEW end \in Days, Window(start, end) # {},
        Window(start, end) \cap late = {}
      PROVE FollowerGrowth(Window(start, end))
            = SumFunction([d \in Window(start,
                  end) \ {Min(Window(start, end))} |-> daily[d].gained - daily[d].lost])
    BY DEF GrowthAdds
  <1> DEFINE W == Window(start, end)
             R == W \ {Min(W)}
             f == [d \in R |-> daily[d].gained - daily[d].lost]
  <1>1. W = Before(start, end + 1) /\ end + 1 \in Nat
    BY InsightsAssumption DEF Window, Before, Days
  <1>2. FollowerGrowth(W) = SumFunctionOnSet(Change, R)
    BY <1>1, GrowthTelescopes DEF Telescopes
  <1>3. IsFiniteSet(R) /\ \A d \in R : Change[d] \in Int /\ Change[d] = f[d]
    BY <1>1, WindowOf, FS_RemoveElement
  <1>4. SumFunction(f) = SumFunctionOnSet(f, R)
    BY DEF SumFunction
  <1> HIDE DEF f, R
  <1>5. SumFunctionOnSet(Change, R) = SumFunctionOnSet(f, R)
    BY <1>3, SumSame
  <1> QED BY <1>2, <1>4, <1>5 DEF f, R

(* The growth shown for a window is what its rows say was gained and lost, *)
(* unless midnight overtook a run, and a total on record is one the        *)
(* network has had: for any number of days, runs and followers.            *)
THEOREM InsightsAreTrue == InsightsSpec => []InsightsTrue
  <1>1. InsightsInv => InsightsTrue
    BY GrowthHolds DEF InsightsTrue, InsightsInv
  <1> QED BY <1>1, InsightsStart, InsightsStep, PTL DEF InsightsSpec

-----------------------------------------------------------------------------
(* The dashboards. *)

(* The rows and marks are numbers where they are there.                    *)
BoardsType ==
  /\ counts \in [Pages -> [BoardDates -> Nat \cup {NoCount}]]
  /\ live \subseteq Pages
  /\ marks \in [Pieces -> [MarkDates -> Nat \cup {NoCount}]]
  /\ hour \in [Pieces -> Hours]

LEMMA BoardsStart == DashboardsInit => BoardsType
  BY DEF DashboardsInit, BoardsType

LEMMA BoardsStep == BoardsType /\ [DashboardsNext]_boardVars => BoardsType'
  <1> SUFFICES ASSUME BoardsType, [DashboardsNext]_boardVars PROVE BoardsType'
    OBVIOUS
  <1>1. ASSUME NEW p \in Pages, SetLive(p) PROVE BoardsType'
    BY <1>1 DEF SetLive, BoardsType
  <1>2. ASSUME NEW p \in Pages, NEW d \in BoardDates, NEW n \in 0 .. MaxCount, SaveCount(p, d, n)
        PROVE BoardsType'
    <2>1. n \in Nat
      BY DashboardsAssumption
    <2> QED BY <1>2, <2>1 DEF SaveCount, BoardsType
  <1>3. ASSUME NEW x \in Pieces, NEW d \in MarkDates, NEW n \in 0 .. MaxCount, SaveMark(x, d, n)
        PROVE BoardsType'
    <2>1. n \in Nat
      BY DashboardsAssumption
    <2> QED BY <1>3, <2>1 DEF SaveMark, BoardsType
  <1>4. CASE UNCHANGED boardVars
    BY <1>4 DEF boardVars, BoardsType
  <1> QED BY <1>1, <1>2, <1>3, <1>4 DEF DashboardsNext

(* The ticks of computePeriods come down to days.                          *)
LEMMA PeriodIs ==
  ASSUME NEW from \in Int, NEW to \in Int
  PROVE  /\ Period(from, to) = from .. to
         /\ PreviousOf(from, to) = (2 * from - 1 - to) .. (from - 1)
  <1>1. StartOf(2 * from) = 2 * from /\ EndOf(2 * to) = 2 * to + 1
    BY DEF StartOf, EndOf
  <1>2. Period(from, to) = from .. to
    BY <1>1 DEF Period, DaysIn
  <1>3. PrevEnd(2 * from) = 2 * from - 1
    BY DEF PrevEnd, EndOf, StartOf
  <1>4. DiffInDays(2 * from, 2 * to + 1) = to - from + 1
    BY DEF DiffInDays
  <1>5. PrevStart(2 * from, 2 * to + 1) = 2 * (2 * from - 1 - to)
    BY <1>3, <1>4 DEF PrevStart, StartOf
  <1>6. DaysIn(2 * (2 * from - 1 - to), 2 * from - 1) = (2 * from - 1 - to) .. (from - 1)
    BY DEF DaysIn
  <1> QED BY <1>1, <1>2, <1>3, <1>5, <1>6 DEF PreviousOf

(* The period before is as long and ends the day before, for every range.  *)
LEMMA Adjoining == PeriodsAdjoin
  <1>0. BoardDates \in SUBSET Int
    BY DashboardsAssumption DEF BoardDates
  <1>1. ASSUME NEW from \in Int, NEW to \in Int
        PROVE  /\ Cardinality(Period(from, to)) = Cardinality(PreviousOf(from, to))
               /\ Period(from, to) # {} => Max(PreviousOf(from, to)) = Min(Period(from, to)) - 1
    <2>1. Cardinality(from .. to) = Cardinality((2 * from - 1 - to) .. (from - 1))
      <3>1. Cardinality(from .. to) = IF from > to THEN 0 ELSE to - from + 1
        BY FS_Interval
      <3> DEFINE k == 2 * from - 1 - to
      <3>2. k \in Int /\ from - 1 \in Int
        OBVIOUS
      <3> HIDE DEF k
      <3>3. Cardinality(k .. (from - 1)) = IF k > from - 1 THEN 0 ELSE (from - 1) - k + 1
        BY <3>2, FS_Interval
      <3> QED BY <3>1, <3>3 DEF k
    <2>2. ASSUME from <= to PROVE Max((2 * from - 1 - to) .. (from - 1)) = from - 1
          /\ Min(from .. to) = from
      <3> DEFINE k == 2 * from - 1 - to
      <3>2. k \in Int /\ from - 1 \in Int /\ k <= from - 1
        BY <2>2
      <3> HIDE DEF k
      <3>3. Max(k .. (from - 1)) = from - 1
        BY <3>2, MaxOf
      <3> QED BY <2>2, <3>3, MaxOf DEF k
    <2>3. from .. to # {} => from <= to
      OBVIOUS
    <2> QED BY <2>1, <2>2, <2>3, PeriodIs
  <1>2. ASSUME NEW s \in Spans
        PROVE  /\ Cardinality(Period(s[1], s[2])) = Cardinality(PreviousOf(s[1], s[2]))
               /\ Period(s[1], s[2]) = s[1] .. s[2]
               /\ (Period(s[1], s[2]) # {} => Max(PreviousOf(s[1], s[2])) = Min(Period(s[1], s[2])) - 1)
    <2>1. s[1] \in Int /\ s[2] \in Int
      BY <1>0 DEF Spans
    <2> QED BY <1>1, <2>1, PeriodIs
  <1>3. ASSUME NEW now \in BoardDates, NEW n \in 1 .. LastDate
        PROVE  Cardinality(Lookback(now, n)) = n /\ now \in Lookback(now, n)
    <2>1. now \in Int /\ n \in Int /\ n >= 1 /\ now - (n - 1) \in Int
      BY <1>0, DashboardsAssumption
    <2>2. Lookback(now, n) = (now - (n - 1)) .. now
      BY <2>1, PeriodIs DEF Lookback
    <2>3. Cardinality((now - (n - 1)) .. now) = IF now - (n - 1) > now THEN 0
          ELSE now - (now - (n - 1)) + 1
      BY <2>1, FS_Interval
    <2> QED BY <2>1, <2>2, <2>3
  <1>4. ASSUME NEW now \in BoardDates
        PROVE  /\ Pulse(now) \cap PulseBefore(now) = {now - 7}
               /\ Cardinality(Pulse(now)) = Cardinality(PulseBefore(now))
    <2>1. now \in Int /\ now - 7 \in Int /\ now - 14 \in Int
      BY <1>0
    <2>2. Pulse(now) = (now - 7) .. now /\ PulseBefore(now) = (now - 14) .. (now - 7)
      BY <2>1, PeriodIs DEF Pulse, PulseBefore
    <2>3. Cardinality((now - 7) .. now) = IF now - 7 > now THEN 0 ELSE now - (now - 7) + 1
      BY <2>1, FS_Interval
    <2>4. Cardinality((now - 14) .. (now - 7)) = IF now - 14 > now - 7 THEN 0
          ELSE (now - 7) - (now - 14) + 1
      BY <2>1, FS_Interval
    <2> QED BY <2>1, <2>2, <2>3, <2>4
  <1> QED BY <1>2, <1>3, <1>4 DEF PeriodsAdjoin

(* A page's rows in a window are finitely many numbers, with a total.      *)
LEMMA RowsAre ==
  ASSUME BoardsType, NEW p \in Pages, NEW dates
  PROVE  /\ RowDates(p, dates) \in SUBSET Int /\ RowDates(p, dates) \in SUBSET BoardDates
             /\ IsFiniteSet(RowDates(p, dates))
         /\ \A d \in RowDates(p, dates) : counts[p][d] \in Nat
         /\ OfPage(p, dates) \in Nat
         /\ RowDates(p, dates) = {} => OfPage(p, dates) = 0
  <1>0. BoardDates \in SUBSET Int /\ IsFiniteSet(BoardDates)
    BY DashboardsAssumption, FS_Interval DEF BoardDates
  <1>1. RowDates(p, dates) \in SUBSET BoardDates /\ \A d \in RowDates(p, dates) : counts[p][d] \in Nat
    BY DEF RowDates, BoardsType
  <1>2. IsFiniteSet(RowDates(p, dates))
    BY <1>0, <1>1, FS_Subset
  <1>3. OfPage(p, dates) \in Nat
    BY <1>1, <1>2, SumNat DEF OfPage
  <1>4. RowDates(p, dates) = {} => OfPage(p, dates) = 0
    BY SumNone DEF OfPage
  <1> QED BY <1>0, <1>1, <1>2, <1>3, <1>4

(* So is the total of some pages.                                          *)
LEMMA TotalIs ==
  ASSUME BoardsType, NEW ids \in SUBSET Pages, NEW dates
  PROVE  EngagementTotal(ids, dates) \in Nat
  <1> DEFINE f == [p \in ids |-> OfPage(p, dates)]
  <1>1. (\A p \in ids : f[p] \in Nat) /\ IsFiniteSet(ids)
    BY RowsAre, DashboardsAssumption, FS_Subset
  <1>2. EngagementTotal(ids, dates) = SumFunctionOnSet(f, ids)
    BY DEF EngagementTotal, SumFunction
  <1> HIDE DEF f
  <1> QED BY <1>1, <1>2, SumNat

(* Growth, rounded down, has the sign of the change.                       *)
LEMMA GrowthIs ==
  ASSUME NEW current \in Nat, NEW previous \in Nat
  PROVE  /\ Growth(current, previous) > 0 => current > previous
         /\ Growth(current, previous) < 0 => current < previous
         /\ Growth(current, previous) >= -100
  <1>1. CASE previous > 0
    <2> DEFINE g == ((current - previous) * 100) \div previous
    <2>1. g \in Int /\ previous * g <= (current - previous) * 100
          /\ (current - previous) * 100 < previous * g + previous
      BY <1>1, Quotient
    <2>2. Growth(current, previous) = g
      BY <1>1 DEF Growth
    <2> HIDE DEF g
    <2>3. g > 0 => previous * g > 0
      BY <1>1, <2>1
    <2>4. g < 0 => previous * g + previous <= 0
      BY <1>1, <2>1
    <2>5. g < -100 => previous * g + previous <= (-100) * previous
      BY <1>1, <2>1
    <2> QED BY <1>1, <2>1, <2>2, <2>3, <2>4, <2>5
  <1>2. CASE previous = 0
    BY <1>2 DEF Growth
  <1> QED BY <1>1, <1>2

(* Hence on every board.                                                   *)
LEMMA GrowthSignHolds == BoardsType => GrowthTrue
  <1> SUFFICES ASSUME BoardsType, NEW s \in Spans
               PROVE LET now == EngagementTotal(live, Period(s[1], s[2]))
            before == EngagementTotal(live, PreviousOf(s[1], s[2]))
        IN  /\ Growth(now, before) > 0 => now > before
            /\ Growth(now, before) < 0 => now < before
            /\ Growth(now, before) >= -100
    BY DEF GrowthTrue
  <1>1. EngagementTotal(live, Period(s[1], s[2])) \in Nat
        /\ EngagementTotal(live, PreviousOf(s[1], s[2])) \in Nat
    BY TotalIs DEF BoardsType
  <1> QED BY <1>1, GrowthIs

(* The rows as a table, a missing one as 0.                                *)
Tally == [p \in Pages |-> [d \in BoardDates |-> IF counts[p][d] = NoCount THEN 0 ELSE counts[p][d]]]

(* The chart takes the table by dates and the total takes it by pages.     *)
LEMMA ChartSums ==
  ASSUME BoardsType, NEW ids \in SUBSET Pages, NEW dates
  PROVE  SumFunction(DailyEngagement(ids, dates)) = EngagementTotal(ids, dates)
  <1> DEFINE D == UNION {RowDates(p, dates) : p \in ids}
             chart == DailyEngagement(ids, dates)
             u == [p \in ids |-> OfPage(p, dates)]
             t == [p \in ids |-> [d \in D |-> Tally[p][d]]]
  <1>0. IsFiniteSet(BoardDates)
    BY DashboardsAssumption, FS_Interval DEF BoardDates
  <1>1. IsFiniteSet(ids) /\ IsFiniteSet(BoardDates)
    BY <1>0, DashboardsAssumption, FS_Subset
  <1>2. D \in SUBSET BoardDates /\ \A p \in ids : RowDates(p, dates) \in SUBSET D
    BY RowsAre
  <1>3. IsFiniteSet(D)
    BY <1>1, <1>2, FS_Subset
  <1>4. DOMAIN chart = D /\ SumFunction(chart) = SumFunctionOnSet(chart, D)
    BY DEF DailyEngagement, Grouped, SumFunction
  <1>5. EngagementTotal(ids, dates) = SumFunctionOnSet(u, ids)
    BY DEF EngagementTotal, SumFunction
  <1>6. ASSUME NEW p \in ids, NEW d \in D PROVE t[p][d] \in Int
    BY <1>2 DEF Tally, BoardsType
  <1>7. ASSUME NEW p \in ids PROVE u[p] = SumFunctionOnSet(t[p], D)
    <2>1. \A d \in RowDates(p, dates) : counts[p][d] \in Int /\ t[p][d] = counts[p][d]
      BY <1>2, RowsAre DEF Tally, BoardsType, RowDates
    <2>2. \A d \in D \ RowDates(p, dates) : t[p][d] = 0
      <3> SUFFICES ASSUME NEW d \in D, d \notin RowDates(p, dates) PROVE t[p][d] = 0
        OBVIOUS
      <3>1. d \in BoardDates /\ d \in dates
        BY <1>2 DEF RowDates
      <3> QED BY <3>1 DEF RowDates, Tally
    <2>3. RowDates(p, dates) \in SUBSET D
      BY <1>2
    <2> HIDE DEF t, D
    <2>4. SumFunctionOnSet(counts[p], RowDates(p, dates)) = SumFunctionOnSet(t[p], D)
      BY <1>3, <2>1, <2>2, <2>3, SumPart
    <2> QED BY <2>4 DEF OfPage
  <1>8. ASSUME NEW d \in D PROVE chart[d] = SumFunctionOnSet([p \in ids |-> t[p][d]], ids)
    <2> DEFINE R == {q \in ids : counts[q][d] # NoCount}
               f == [p \in R |-> counts[p][d]]
               g == [p \in ids |-> t[p][d]]
    <2>1. chart[d] = SumFunctionOnSet(f, R)
      BY DEF DailyEngagement, Grouped, SumFunction
    <2>2. R \in SUBSET ids
      OBVIOUS
    <2>3. \A x \in R : f[x] \in Int /\ g[x] = f[x]
      BY <1>2 DEF Tally, BoardsType
    <2>4. \A x \in ids \ R : g[x] = 0
      BY <1>2 DEF Tally, BoardsType
    <2> HIDE DEF R, f, g
    <2>5. SumFunctionOnSet(f, R) = SumFunctionOnSet(g, ids)
      BY <1>1, <2>2, <2>3, <2>4, SumPart
    <2> QED BY <2>1, <2>5 DEF g
  <1> HIDE DEF D, chart, u, t
  <1>9. SumFunctionOnSet(u, ids) = SumFunctionOnSet(chart, D)
    <2>1. Table(ids, D, t, u, chart)
      BY <1>1, <1>3, <1>6, <1>7, <1>8 DEF Table
    <2> QED BY <2>1, SumSwap
  <1> QED BY <1>4, <1>5, <1>9 DEF chart

(* The breakdown takes it by networks, of which a page has one.            *)
LEMMA BreakdownSums ==
  ASSUME BoardsType, NEW dates
  PROVE  SumFunction(PlatformBreakdown(dates)) = EngagementTotal(Pages, dates)
  <1> DEFINE Q == {q \in Pages : RowDates(q, dates) # {}}
             N == {Network[p] : p \in Q}
             split == PlatformBreakdown(dates)
             u == [p \in Pages |-> OfPage(p, dates)]
             t == [n \in N |-> [p \in Pages |-> IF Network[p] = n THEN OfPage(p, dates) ELSE 0]]
  <1>1. IsFiniteSet(Pages) /\ IsFiniteSet(Q)
    BY DashboardsAssumption, FS_Subset
  <1>2. IsFiniteSet(N)
    <2> DEFINE h == [p \in Q |-> Network[p]]
    <2>1. h \in Surjection(Q, N)
      BY DEF Surjection
    <2> HIDE DEF h, Q, N
    <2> QED BY <1>1, <2>1, FS_Surjection
  <1>3. DOMAIN split = N /\ SumFunction(split) = SumFunctionOnSet(split, N)
    BY DEF PlatformBreakdown, SumFunction
  <1>4. EngagementTotal(Pages, dates) = SumFunctionOnSet(u, Pages)
    BY DEF EngagementTotal, SumFunction
  <1>5. ASSUME NEW n \in N, NEW p \in Pages PROVE t[n][p] \in Int
    BY RowsAre
  <1>6. ASSUME NEW n \in N PROVE split[n] = SumFunctionOnSet(t[n], Pages)
    <2> DEFINE R == {q \in Pages : Network[q] = n}
               f == [p \in R |-> OfPage(p, dates)]
    <2>1. split[n] = SumFunctionOnSet(f, R)
      BY DEF PlatformBreakdown, SumFunction
    <2>2. R \in SUBSET Pages
      OBVIOUS
    <2>3. \A x \in R : f[x] \in Int /\ t[n][x] = f[x]
      BY RowsAre
    <2>4. \A x \in Pages \ R : t[n][x] = 0
      OBVIOUS
    <2> HIDE DEF R, f, t
    <2>5. SumFunctionOnSet(f, R) = SumFunctionOnSet(t[n], Pages)
      BY <1>1, <2>2, <2>3, <2>4, SumPart
    <2> QED BY <2>1, <2>5
  <1>7. ASSUME NEW p \in Pages PROVE u[p] = SumFunctionOnSet([n \in N |-> t[n][p]], N)
    <2> DEFINE g == [n \in N |-> t[n][p]]
               R == N \cap {Network[p]}
               f == [n \in R |-> u[p]]
    <2>1. \A n \in N : g[n] = IF n = Network[p] THEN u[p] ELSE 0
      OBVIOUS
    <2>2. u[p] \in Int /\ (RowDates(p, dates) = {} => u[p] = 0)
      BY RowsAre
    <2>3. R = {Network[p]} \/ (R = {} /\ u[p] = 0)
      BY <2>2
    <2>4. SumFunctionOnSet(f, R) = u[p]
      <3>1. CASE R = {} /\ u[p] = 0
        BY <3>1, SumNone
      <3>2. CASE R = {Network[p]}
        <4> DEFINE n == Network[p]
        <4>1. IsFiniteSet(R) /\ n \in R /\ f[n] = u[p] /\ (\A x \in R : f[x] \in Int) /\ R \ {n} = {}
          BY <2>2, <3>2, FS_Singleton
        <4> HIDE DEF n, f, R, u
        <4>2. SumFunctionOnSet(f, R) = f[n] + SumFunctionOnSet(f, R \ {n})
          BY <4>1, SumAdd
        <4>3. SumFunctionOnSet(f, R \ {n}) = 0
          BY <4>1, SumNone
        <4> QED BY <2>2, <4>1, <4>2, <4>3
      <3> QED BY <2>3, <3>1, <3>2
    <2>5. R \in SUBSET N /\ (\A x \in R : f[x] \in Int /\ g[x] = f[x]) /\ \A x \in N \ R : g[x] = 0
      BY <2>1, <2>2
    <2> HIDE DEF R, f, g, N
    <2>6. SumFunctionOnSet(f, R) = SumFunctionOnSet(g, N)
      BY <1>2, <2>5, SumPart
    <2> QED BY <2>4, <2>6 DEF g
  <1> HIDE DEF N, split, u, t
  <1>8. SumFunctionOnSet(split, N) = SumFunctionOnSet(u, Pages)
    <2>1. Table(N, Pages, t, split, u)
      BY <1>1, <1>2, <1>5, <1>6, <1>7 DEF Table
    <2> QED BY <2>1, SumSwap
  <1> QED BY <1>3, <1>4, <1>8 DEF split

(* More pages have no smaller total.                                       *)
LEMMA TotalsCompare ==
  ASSUME BoardsType, NEW ids \in SUBSET Pages, NEW dates
  PROVE  /\ EngagementTotal(ids, dates) <= EngagementTotal(Pages, dates)
         /\ (\A p \in Pages \ ids : RowDates(p, dates) = {})
               => EngagementTotal(ids, dates) = EngagementTotal(Pages, dates)
  <1> DEFINE f == [p \in ids |-> OfPage(p, dates)]
             g == [p \in Pages |-> OfPage(p, dates)]
             T == Pages \ ids
  <1>1. IsFiniteSet(Pages) /\ IsFiniteSet(ids) /\ IsFiniteSet(T)
    BY DashboardsAssumption, FS_Subset
  <1>2. EngagementTotal(ids, dates) = SumFunctionOnSet(f, ids)
        /\ EngagementTotal(Pages, dates) = SumFunctionOnSet(g, Pages)
    BY DEF EngagementTotal, SumFunction
  <1>3. (\A p \in ids : f[p] \in Int /\ f[p] = g[p]) /\ (\A p \in T : g[p] \in Nat)
        /\ \A p \in Pages : g[p] \in Int
    BY RowsAre
  <1>4. (\A p \in T : RowDates(p, dates) = {}) => \A p \in T : g[p] = 0
    BY RowsAre
  <1> HIDE DEF f, g
  <1>5. SumFunctionOnSet(f, ids) = SumFunctionOnSet(g, ids)
    BY <1>1, <1>3, SumSame
  <1>6. /\ SumFunctionOnSet(g, Pages) = SumFunctionOnSet(g, ids) + SumFunctionOnSet(g, T)
        /\ SumFunctionOnSet(g, Pages) \in Int /\ SumFunctionOnSet(g, ids) \in Int
    BY <1>1, <1>3, SumSplit
  <1> HIDE DEF T
  <1>7. SumFunctionOnSet(g, T) \in Nat
    BY <1>1, <1>3, SumNat
  <1>8. (\A p \in T : RowDates(p, dates) = {}) => SumFunctionOnSet(g, T) = 0
    BY <1>1, <1>4, SumZero
  <1>9. SumFunctionOnSet(f, ids) <= SumFunctionOnSet(g, Pages)
    BY <1>5, <1>6, <1>7
  <1>10. (\A p \in T : RowDates(p, dates) = {}) => SumFunctionOnSet(f, ids) = SumFunctionOnSet(g, Pages)
    BY <1>5, <1>6, <1>8
  <1> QED BY <1>2, <1>9, <1>10 DEF T

(* The last row of a page.                                                 *)
LEMMA LastOf ==
  ASSUME BoardsType, NEW p \in Pages
  PROVE  /\ RowDates(p, BoardDates) # {} => /\ Max(RowDates(p, BoardDates)) \in BoardDates
                                        /\ counts[p][Max(RowDates(p, BoardDates))] \in Nat
         /\ LastDate \in RowDates(p, BoardDates) => Max(RowDates(p, BoardDates)) = LastDate
  <1> DEFINE R == RowDates(p, BoardDates)
  <1>1. R \in SUBSET Int /\ IsFiniteSet(R) /\ R \in SUBSET BoardDates
        /\ \A d \in R : counts[p][d] \in Nat
    BY RowsAre
  <1>2. \A d \in R : d <= LastDate /\ d \in Int
    BY <1>1, DashboardsAssumption DEF BoardDates
  <1> HIDE DEF R
  <1>3. R # {} => Max(R) \in R /\ \A y \in R : y <= Max(R)
    BY <1>1, SetHasMax
  <1>4. LastDate \in R => Max(R) = LastDate
    BY <1>2, <1>3
  <1> QED BY <1>1, <1>3, <1>4 DEF R

(* Where every page has a row on the last day, the chart ends at the       *)
(* total.                                                                  *)
LEMMA LastDayShown ==
  ASSUME BoardsType, NEW dates, LastDate \in dates, live # {}, \A p \in live :
        LastDate \in RowDates(p, dates)
  PROVE  /\ FollowerSeries(live, dates)[LastDate] = LatestFollowers(live)
         /\ \A r \in Demographics(live) : r[2] = LastDate
  <1> DEFINE R == {q \in live : counts[q][LastDate] # NoCount}
             Q == {q \in live : RowDates(q, BoardDates) # {}}
             f == [p \in R |-> counts[p][LastDate]]
             g == [p \in Q |-> counts[p][Max(RowDates(p, BoardDates))]]
  <1>1. \A p \in live : p \in Pages /\ LastDate \in RowDates(p, BoardDates)
        /\ counts[p][LastDate] \in Nat /\ counts[p][LastDate] # NoCount
    BY DashboardsAssumption DEF RowDates, BoardsType
  <1>2. \A p \in live : Max(RowDates(p, BoardDates)) = LastDate
    BY <1>1, LastOf
  <1>3. R = live /\ Q = live /\ (\A p \in live : f[p] = g[p] /\ f[p] \in Int)
    BY <1>1, <1>2
  <1>4. LastDate \in UNION {RowDates(p, dates) : p \in live}
    OBVIOUS
  <1>5. FollowerSeries(live, dates)[LastDate] = SumFunctionOnSet(f, R)
    BY <1>4 DEF FollowerSeries, Grouped, SumFunction
  <1>6. LatestFollowers(live) = SumFunctionOnSet(g, Q)
    BY DEF LatestFollowers, SumFunction
  <1>7. IsFiniteSet(live)
    BY DashboardsAssumption, FS_Subset DEF BoardsType
  <1> HIDE DEF f, g, Q, R
  <1>8. SumFunctionOnSet(f, live) = SumFunctionOnSet(g, live)
    BY <1>3, <1>7, SumSame
  <1>9. \A r \in Demographics(live) : r[2] = LastDate
    BY <1>2 DEF Demographics
  <1> QED BY <1>3, <1>5, <1>6, <1>8, <1>9

(* A window of the last day alone has no more followers than there are.    *)
LEMMA EarliestBelow ==
  ASSUME BoardsType
  PROVE  EarliestFollowers(live, LastDate .. LastDate) <= LatestFollowers(live)
  <1> DEFINE dates == LastDate .. LastDate
             R == {q \in live : RowDates(q, dates) # {}}
             Q == {q \in live : RowDates(q, BoardDates) # {}}
             f == [p \in R |-> counts[p][Min(RowDates(p, dates))]]
             g == [p \in Q |-> counts[p][Max(RowDates(p, BoardDates))]]
             T == Q \ R
  <1>1. dates = {LastDate} /\ LastDate \in BoardDates
    BY DashboardsAssumption DEF BoardDates
  <1>2. \A p \in R : p \in Pages /\ RowDates(p, dates) = {LastDate}
        /\ LastDate \in RowDates(p, BoardDates)
    BY <1>1 DEF RowDates, BoardsType
  <1>3. Min({LastDate}) = LastDate
    BY DashboardsAssumption DEF Min
  <1>4. R \in SUBSET Q
    BY <1>2
  <1>5. \A p \in Q : g[p] \in Nat
    BY LastOf DEF BoardsType
  <1>6. \A p \in R : f[p] = g[p] /\ f[p] \in Int
    <2> TAKE p \in R
    <2>1. f[p] = counts[p][LastDate] /\ p \in Q /\ p \in Pages
      BY <1>2, <1>3, <1>4
    <2>2. g[p] = counts[p][LastDate] /\ g[p] \in Nat
      BY <1>2, <1>5, <2>1, LastOf
    <2>3. g[p] \in Int
      BY <2>2
    <2> HIDE DEF f, g, R, Q
    <2> QED BY <2>1, <2>2, <2>3
  <1>7. IsFiniteSet(Q) /\ IsFiniteSet(T)
    <2>1. IsFiniteSet(live)
      BY DashboardsAssumption, FS_Subset DEF BoardsType
    <2> QED BY <2>1, FS_Subset
  <1>8. EarliestFollowers(live, dates) = SumFunctionOnSet(f, R)
        /\ LatestFollowers(live) = SumFunctionOnSet(g, Q)
    BY DEF EarliestFollowers, LatestFollowers, SumFunction
  <1>9. IsFiniteSet(R)
    BY <1>4, <1>7, FS_Subset
  <1> HIDE DEF f, g, R, Q
  <1>10. (\A p \in T : g[p] \in Nat) /\ \A p \in Q : g[p] \in Int
    BY <1>5
  <1>11. SumFunctionOnSet(f, R) = SumFunctionOnSet(g, R)
    BY <1>6, <1>9, SumSame
  <1>12. /\ SumFunctionOnSet(g, Q) = SumFunctionOnSet(g, R) + SumFunctionOnSet(g, T)
         /\ SumFunctionOnSet(g, R) \in Int
    BY <1>4, <1>7, <1>10, SumSplit
  <1> HIDE DEF T
  <1>13. SumFunctionOnSet(g, T) \in Nat
    BY <1>7, <1>10, SumNat
  <1>14. SumFunctionOnSet(f, R) <= SumFunctionOnSet(g, Q)
    BY <1>11, <1>12, <1>13
  <1> QED BY <1>8, <1>14

(* Together: the charts add up in every state the rows can be in.          *)
LEMMA ChartsHold == BoardsType => ChartsAddUp
  <1> SUFFICES ASSUME BoardsType, NEW s \in Spans
      PROVE LET
            dates == s[1] .. s[2]
            chart == DailyEngagement(live, dates)
            split == PlatformBreakdown(dates)
            all == SumFunction(split)
        IN  /\ SumFunction(chart) = EngagementTotal(live, dates)
            /\ AggregatedMetrics(live, dates) <= all
            /\ (\A p \in Pages \ live : RowDates(p, dates) = {})
                  => AggregatedMetrics(live, dates) = all
            /\ live # {} /\ s[2] = LastDate /\ s[1] <= s[2]
                 /\ (\A p \in live : LastDate \in RowDates(p, dates))
                 => /\ FollowerSeries(live, dates)[LastDate] = LatestFollowers(live)
                    /\ \A r \in Demographics(live) : r[2] = LastDate
            /\ s[1] = s[2] /\ s[2] = LastDate
                 => EarliestFollowers(live, dates) <= LatestFollowers(live)
    BY DEF ChartsAddUp
  <1> DEFINE dates == s[1] .. s[2]
  <1>1. live \in SUBSET Pages
    BY DEF BoardsType
  <1>2. SumFunction(DailyEngagement(live, dates)) = EngagementTotal(live, dates)
    BY <1>1, ChartSums
  <1>3. SumFunction(PlatformBreakdown(dates)) = EngagementTotal(Pages, dates)
    BY BreakdownSums
  <1>4. /\ AggregatedMetrics(live, dates) <= SumFunction(PlatformBreakdown(dates))
        /\ (\A p \in Pages \ live : RowDates(p, dates) = {})
              => AggregatedMetrics(live, dates) = SumFunction(PlatformBreakdown(dates))
    BY <1>1, <1>3, TotalsCompare DEF AggregatedMetrics
  <1>5. ASSUME live # {}, s[2] = LastDate, s[1] <= s[2], \A p \in live : LastDate \in RowDates(p, dates)
        PROVE  /\ FollowerSeries(live, dates)[LastDate] = LatestFollowers(live)
               /\ \A r \in Demographics(live) : r[2] = LastDate
    <2>1. LastDate \in dates
      BY <1>5 DEF RowDates
    <2> HIDE DEF dates
    <2> QED BY <2>1, <1>5, LastDayShown
  <1>6. s[1] = s[2] /\ s[2] = LastDate => EarliestFollowers(live, dates) <= LatestFollowers(live)
    BY EarliestBelow
  <1> QED BY <1>2, <1>4, <1>5, <1>6

(* The last mark of a piece is a number, 0 when there is none.             *)
LEMMA MarkIs ==
  ASSUME BoardsType, NEW x \in Pieces
  PROVE  LastMark(x) \in Nat
  <1> DEFINE R == MarkedOn(x, MarkDates)
  <1>0. IsFiniteSet(0 .. LastDate) /\ 0 .. LastDate \in SUBSET Int
    BY DashboardsAssumption, FS_Interval
  <1>1. R \in SUBSET (0 .. LastDate) /\ \A d \in R : marks[x][d] \in Nat
    BY DashboardsAssumption DEF MarkedOn, BoardsType
  <1>2. IsFiniteSet(R) /\ R \in SUBSET Int
    BY <1>0, <1>1, FS_Subset
  <1>3. LastMark(x) = IF R = {} THEN 0 ELSE marks[x][Max(R)]
    BY DEF LastMark
  <1> HIDE DEF R
  <1>4. CASE R = {}
    BY <1>3, <1>4
  <1>5. CASE R # {}
    <2>1. Max(R) \in R
      BY <1>2, <1>5, SetHasMax
    <2> QED BY <1>1, <1>3, <1>5, <2>1
  <1> QED BY <1>4, <1>5

(* An average above 0 has a mark above 0.                                  *)
LEMMA AverageIs ==
  ASSUME BoardsType, NEW h
  PROVE  /\ Average(h) \in Nat
         /\ Average(h) > 0 => \E x \in PublishedAt(h) : LastMark(x) > 0
  <1>1. CASE PublishedAt(h) = {}
    BY <1>1 DEF Average
  <1>2. CASE PublishedAt(h) # {}
    <2> DEFINE f == [x \in PublishedAt(h) |-> LastMark(x)]
               t == SumFunctionOnSet(f, PublishedAt(h))
               k == Cardinality(PublishedAt(h))
    <2>1. IsFiniteSet(PublishedAt(h)) /\ \A x \in PublishedAt(h) : f[x] \in Nat /\ f[x] = LastMark(x)
      BY DashboardsAssumption, MarkIs, FS_Subset DEF PublishedAt
    <2>2. k \in Nat /\ k # 0
      BY <1>2, <2>1, FS_CardinalityType, FS_EmptySet
    <2>3. Average(h) = (200 * t + k) \div (2 * k)
      BY <1>2 DEF Average, SumFunction
    <2> HIDE DEF f, t, k
    <2>4. t \in Nat
      BY <2>1, SumNat DEF t
    <2>5. (\A x \in PublishedAt(h) : f[x] = 0) => t = 0
      BY <2>1, SumZero DEF t
    <2> DEFINE a == 200 * t + k
               b == 2 * k
    <2>6. a \in Int /\ b \in Nat \ {0} /\ a >= 0 /\ (t = 0 => a < b)
      BY <2>2, <2>4
    <2> HIDE DEF a, b
    <2>7. a \div b \in Int /\ b * (a \div b) <= a /\ a < b * (a \div b) + b
      BY <2>6, Quotient
    <2>8. a \div b >= 0 /\ (t = 0 => a \div b <= 0)
      <3>1. ASSUME a \div b < 0 PROVE FALSE
        <4>1. b * (a \div b) + b <= 0
          BY <2>6, <2>7, <3>1
        <4> QED BY <2>6, <2>7, <4>1
      <3>2. ASSUME t = 0, a \div b > 0 PROVE FALSE
        <4>1. b * (a \div b) >= b
          BY <2>6, <2>7, <3>2
        <4> QED BY <2>6, <2>7, <3>2, <4>1
      <3> QED BY <3>1, <3>2, <2>7
    <2>9. Average(h) = a \div b
      BY <2>3 DEF a, b
    <2>10. (\A x \in PublishedAt(h) : ~(LastMark(x) > 0)) => \A x \in PublishedAt(h) : f[x] = 0
      BY <2>1
    <2> QED BY <2>5, <2>7, <2>8, <2>9, <2>10
  <1> QED BY <1>1, <1>2

(* The best hour is one that no other exceeds, and the first of them.      *)
LEMMA BestTimeHolds == BoardsType => BestTimeTrue
  <1> SUFFICES ASSUME BoardsType PROVE BestTimeTrue
    OBVIOUS
  <1> DEFINE f == [h \in Hours |-> Average(h)]
             A == {Average(h) : h \in Hours}
             B == {h \in Hours : Average(h) = MaxAverage}
  <1>0. \A h \in Hours : Average(h) \in Int
    BY AverageIs
  <1>1. A \in SUBSET Int /\ A # {}
    BY <1>0, DashboardsAssumption
  <1>1a. A = {f[h] : h \in Hours}
    OBVIOUS
  <1>2. IsFiniteSet(A)
    <2>1. IsFiniteSet(Hours)
      BY DashboardsAssumption
    <2> HIDE DEF f, A
    <2> QED BY <1>1a, <2>1, ImageFinite
  <1>3. MaxAverage = Max(A)
    BY DEF MaxAverage
  <1> HIDE DEF f, A
  <1>4. MaxAverage \in A /\ \A y \in A : y <= MaxAverage
    BY <1>1, <1>2, <1>3, SetHasMax
  <1>5. B # {} /\ B \in SUBSET Int /\ IsFiniteSet(B)
    BY <1>4, DashboardsAssumption, FS_Subset DEF A
  <1>6. BestTime = Min(B)
    BY DEF BestTime
  <1>7. BestTime \in B
    BY <1>5, <1>6, SetHasMax
  <1>8. BestTime \in Hours /\ Average(BestTime) = MaxAverage
    BY <1>7
  <1>9. \A h \in Hours : Average(h) <= Average(BestTime)
    BY <1>4, <1>8 DEF A
  <1>10. ASSUME MaxAverage > 0
         PROVE  /\ PublishedAt(BestTime) # {}
                /\ Intensity(Average(BestTime), MaxAverage) = 4
                /\ \E x \in PublishedAt(BestTime) : LastMark(x) > 0
    <2>1. \E x \in PublishedAt(BestTime) : LastMark(x) > 0
      BY <1>8, <1>10, AverageIs
    <2>2. MaxAverage \in Nat
      BY <1>8, AverageIs
    <2>3. Intensity(MaxAverage, MaxAverage) = 4
      BY <2>2, <1>10 DEF Intensity
    <2> QED BY <1>8, <2>1, <2>3
  <1> QED BY <1>9, <1>10 DEF BestTimeTrue

(* The snapshots of a window are finitely many, each with a mark.          *)
LEMMA SnapshotsAre ==
  ASSUME BoardsType, NEW dates
  PROVE  /\ IsFiniteSet(SnapshotsOf(dates))
         /\ \A s \in SnapshotsOf(dates) : MarkOf(s) \in Nat
  <1>1. IsFiniteSet(MarkDates)
    <2>1. IsFiniteSet(0 .. LastDate)
      BY DashboardsAssumption, FS_Interval
    <2>2. MarkDates \subseteq 0 .. LastDate
      BY DashboardsAssumption
    <2> QED BY <2>1, <2>2, FS_Subset
  <1>2. IsFiniteSet(Pieces \X MarkDates)
    BY <1>1, DashboardsAssumption, FS_Product
  <1>3. IsFiniteSet(SnapshotsOf(dates))
    BY <1>2, FS_Subset DEF SnapshotsOf
  <1> QED BY <1>3 DEF SnapshotsOf, MarkOf, MarkedOn, BoardsType

(* The best mark of a piece among some snapshots.                          *)
LEMMA BestIs ==
  ASSUME NEW S, IsFiniteSet(S), \A s \in S : MarkOf(s) \in Nat, NEW x \in PieceOf(S)
  PROVE  /\ BestIn(S, x) \in Nat
         /\ \E s \in S : s[1] = x /\ MarkOf(s) = BestIn(S, x)
         /\ \A s \in S : s[1] = x => MarkOf(s) <= BestIn(S, x)
  <1> DEFINE R == {t \in S : t[1] = x}
             f == [s \in R |-> MarkOf(s)]
             M == {MarkOf(s) : s \in R}
  <1>1. IsFiniteSet(R) /\ R # {}
    BY FS_Subset DEF PieceOf
  <1>1a. \A s \in R : MarkOf(s) \in Int
    OBVIOUS
  <1>1b. M = {f[s] : s \in R}
    OBVIOUS
  <1>1c. M # {} /\ M \in SUBSET Int
    BY <1>1, <1>1a
  <1>2. M = {f[s] : s \in R} /\ M # {} /\ M \in SUBSET Int
    BY <1>1b, <1>1c
  <1>3. BestIn(S, x) = Max(M)
    BY DEF BestIn
  <1> HIDE DEF f, M
  <1>4. IsFiniteSet(M)
    BY <1>1, <1>2, ImageFinite
  <1>5. Max(M) \in M /\ \A y \in M : y <= Max(M)
    BY <1>2, <1>4, SetHasMax
  <1> QED BY <1>3, <1>5 DEF M

(* What taking the n highest gives.                                        *)
LEMMA HighestIs ==
  ASSUME NEW mark, NEW n, NEW T \in Highest(n, mark)
  PROVE  /\ T \in SUBSET DOMAIN mark
         /\ Cardinality(T) = Min({n, Cardinality(DOMAIN mark)})
         /\ \A s \in T, t \in DOMAIN mark \ T : mark[s] >= mark[t]
  BY DEF Highest

(* The buffer holds the best snapshots, hence the best of every piece in   *)
(* it, and what it leaves out is no better than anything it holds.         *)
LEMMA TopPostsHold == BoardsType => TopPostsTrue
  <1> DEFINE Good(dates, top) ==
               LET made == SnapshotsOf(dates)
               IN  /\ \A x \in DOMAIN top : top[x] = BestIn(made, x)
                   /\ \A x \in DOMAIN top, y \in PieceOf(made) \ DOMAIN top :
                         top[x] >= BestIn(made, y)
                   /\ \/ Cardinality(DOMAIN top) >= Min({TopTake, Cardinality(PieceOf(made))})
                      \/ Cardinality({t \in made : t[1] \in DOMAIN top}) >= TopBuffer
  <1> SUFFICES ASSUME BoardsType, NEW s \in Spans,
                      NEW F \in Fetched(s[1] .. s[2]), NEW L \in Listings(F)
               PROVE  Good(s[1] .. s[2], [x \in L |-> BestIn(F, x)])
    <2> SUFFICES ASSUME BoardsType, NEW q \in Spans, NEW top \in TopPosts(q[1] .. q[2])
                 PROVE  Good(q[1] .. q[2], top)
      BY DEF TopPostsTrue
    <2>1. PICK E \in Fetched(q[1] .. q[2]) :
                 top \in {[x \in listed |-> BestIn(E, x)] : listed \in Listings(E)}
      BY DEF TopPosts
    <2>2. PICK M \in Listings(E) : top = [x \in M |-> BestIn(E, x)]
      BY <2>1
    <2> HIDE DEF Good
    <2> QED BY <2>2
  <1> DEFINE made == SnapshotsOf(s[1] .. s[2])
             mark == [t \in made |-> MarkOf(t)]
             best == [x \in PieceOf(F) |-> BestIn(F, x)]
  <1>1. IsFiniteSet(made) /\ \A t \in made : MarkOf(t) \in Nat
    BY SnapshotsAre
  <1>2. /\ F \in SUBSET made
        /\ Cardinality(F) = Min({TopBuffer, Cardinality(made)})
        /\ \A u \in F, t \in made \ F : MarkOf(u) >= MarkOf(t)
    <2>1. F \in Highest(TopBuffer, mark)
      BY DEF Fetched
    <2>2. DOMAIN mark = made /\ \A t \in made : mark[t] = MarkOf(t)
      OBVIOUS
    <2> HIDE DEF mark, made
    <2> QED BY <2>1, <2>2, HighestIs, SMTT(30)
  <1>3. /\ L \in SUBSET PieceOf(F)
        /\ Cardinality(L) = Min({TopTake, Cardinality(PieceOf(F))})
        /\ \A x \in L, y \in PieceOf(F) \ L : BestIn(F, x) >= BestIn(F, y)
    <2>1. L \in Highest(TopTake, best)
      BY DEF Listings
    <2>2. DOMAIN best = PieceOf(F) /\ \A x \in PieceOf(F) : best[x] = BestIn(F, x)
      OBVIOUS
    <2> HIDE DEF best
    <2> QED BY <2>1, <2>2, HighestIs
  <1> HIDE DEF made, mark, best
  <1>4. IsFiniteSet(F) /\ \A t \in F : MarkOf(t) \in Nat
    BY <1>1, <1>2, FS_Subset
  <1>5. PieceOf(F) \subseteq PieceOf(made)
    BY <1>2 DEF PieceOf
  <1>6. ASSUME NEW x \in PieceOf(F) PROVE BestIn(F, x) = BestIn(made, x)
    <2>1. /\ BestIn(F, x) \in Nat
          /\ \E t \in F : t[1] = x /\ MarkOf(t) = BestIn(F, x)
          /\ \A t \in F : t[1] = x => MarkOf(t) <= BestIn(F, x)
      BY <1>4, BestIs
    <2>2. /\ BestIn(made, x) \in Nat
          /\ \E t \in made : t[1] = x /\ MarkOf(t) = BestIn(made, x)
          /\ \A t \in made : t[1] = x => MarkOf(t) <= BestIn(made, x)
      BY <1>1, <1>5, BestIs
    <2>3. BestIn(F, x) <= BestIn(made, x)
      BY <1>2, <2>1, <2>2
    <2>4. BestIn(made, x) <= BestIn(F, x)
      <3>1. PICK t \in made : t[1] = x /\ MarkOf(t) = BestIn(made, x)
        BY <2>2
      <3>2. PICK u \in F : u[1] = x /\ MarkOf(u) = BestIn(F, x)
        BY <2>1
      <3>3. CASE t \in F
        BY <2>1, <3>1, <3>3
      <3>4. CASE t \notin F
        BY <1>2, <2>1, <2>2, <3>1, <3>2, <3>4
      <3> QED BY <3>3, <3>4
    <2> QED BY <2>1, <2>2, <2>3, <2>4
  <1>7. ASSUME NEW x \in L, NEW y \in PieceOf(made) \ L PROVE BestIn(F, x) >= BestIn(made, y)
    <2>1. CASE y \in PieceOf(F)
      BY <1>3, <1>6, <2>1
    <2>2. CASE y \notin PieceOf(F)
      <3>1. PICK t \in made : t[1] = y /\ MarkOf(t) = BestIn(made, y)
        BY <1>1, BestIs
      <3>2. PICK u \in F : u[1] = x /\ MarkOf(u) = BestIn(F, x)
        BY <1>3, <1>4, BestIs
      <3>3. t \notin F
        BY <2>2, <3>1 DEF PieceOf
      <3> QED BY <1>2, <3>1, <3>2, <3>3
    <2> QED BY <2>1, <2>2
  <1> DEFINE given == {t \in made : t[1] \in L}
  <1>8. \/ Cardinality(L) >= Min({TopTake, Cardinality(PieceOf(made))})
        \/ Cardinality(given) >= TopBuffer
    <2>1. /\ Cardinality(F) \in Nat /\ Cardinality(made) \in Nat /\ TopTake \in Nat /\ TopBuffer \in Nat
      BY <1>1, <1>4, FS_CardinalityType, DashboardsAssumption
    <2>2. IsFiniteSet(PieceOf(F)) /\ IsFiniteSet(PieceOf(made))
      <3> DEFINE first(S) == [t \in S |-> t[1]]
      <3>1. PieceOf(F) = {first(F)[t] : t \in F} /\ PieceOf(made) = {first(made)[t] : t \in made}
        BY DEF PieceOf
      <3> HIDE DEF first
      <3> QED BY <1>1, <1>4, <3>1, ImageFinite
    <2>3. Cardinality(PieceOf(F)) \in Nat /\ Cardinality(PieceOf(made)) \in Nat
      BY <2>2, FS_CardinalityType
    <2> DEFINE all == Cardinality(PieceOf(F))
    <2>3a. Cardinality(L) \in {TopTake, all} /\ Cardinality(L) <= TopTake /\ Cardinality(L) <= all
          /\ all \in Nat
      <3>1. TopTake \in Int /\ all \in Int
        BY <2>1, <2>3
      <3>2. Cardinality(L) = Min({TopTake, all})
        BY <1>3
      <3> HIDE DEF all
      <3>3. Min({TopTake, all}) \in {TopTake, all} /\ Min({TopTake, all}) <= TopTake
            /\ Min({TopTake, all}) <= all
        BY <3>1, PairMin
      <3> QED BY <3>2, <3>3, <2>3 DEF all
    <2>3b. Min({TopTake, Cardinality(PieceOf(made))}) <= TopTake
      <3> DEFINE k == Cardinality(PieceOf(made))
      <3>1. TopTake \in Int /\ k \in Int
        BY <2>1, <2>3
      <3> HIDE DEF k
      <3>2. Min({TopTake, k}) <= TopTake
        BY <3>1, PairMin
      <3> QED BY <3>2 DEF k
    <2>3c. Cardinality(F) = TopBuffer \/ Cardinality(F) = Cardinality(made)
      <3> DEFINE k == Cardinality(made)
      <3>1. TopBuffer \in Int /\ k \in Int
        BY <2>1
      <3>2. Cardinality(F) = Min({TopBuffer, k})
        BY <1>2
      <3> HIDE DEF k
      <3>3. Min({TopBuffer, k}) \in {TopBuffer, k}
        BY <3>1, PairMin
      <3> QED BY <3>2, <3>3 DEF k
    <2> HIDE DEF all
    <2>4. CASE F = made
      <3>1. Cardinality(L) = Min({TopTake, Cardinality(PieceOf(made))})
        BY <1>3, <2>4
      <3> QED BY <2>1, <2>3a, <3>1
    <2>5. CASE F # made
      <3>1. Cardinality(F) # Cardinality(made)
        BY <1>1, <1>2, <2>5, FS_Subset
      <3>2. Cardinality(F) = TopBuffer
        BY <2>3c, <3>1
      <3>3. CASE Cardinality(L) = TopTake
        BY <2>3b, <3>3
      <3>4. CASE Cardinality(L) = all
        <4>1. L = PieceOf(F)
          BY <1>3, <2>2, <3>4, FS_Subset DEF all
        <4>2. F \in SUBSET given /\ given \in SUBSET made
          BY <1>2, <4>1 DEF PieceOf
        <4>3. IsFiniteSet(given)
          BY <1>1, <4>2, FS_Subset
        <4> HIDE DEF given
        <4>4. Cardinality(F) <= Cardinality(given) /\ Cardinality(given) \in Nat
          BY <4>2, <4>3, FS_Subset, FS_CardinalityType
        <4> QED BY <2>1, <3>2, <4>4
      <3> QED BY <2>3a, <3>3, <3>4
    <2> QED BY <2>4, <2>5
  <1>9. \A x \in L : BestIn(F, x) = BestIn(made, x)
    BY <1>3, <1>6
  <1> QED BY <1>7, <1>8, <1>9 DEF made

(* All of them follow from the types alone: in every state the rows can be *)
(* in, whatever was saved before.                                          *)
LEMMA BoardsHold == BoardsType => DashboardsTrue
  BY Adjoining, GrowthSignHolds, ChartsHold, BestTimeHolds, TopPostsHold DEF DashboardsTrue

(* The dashboards agree with each other and with the rows: for every       *)
(* number of pages, posts and dates, and all rows.                         *)
THEOREM DashboardsAreTrue == DashboardsSpec => []DashboardsTrue
  <1>1. DashboardsInit => BoardsType
    BY BoardsStart
  <1>2. BoardsType /\ [DashboardsNext]_boardVars => BoardsType'
    BY BoardsStep
  <1>3. BoardsType => DashboardsTrue
    BY BoardsHold
  <1> QED BY <1>1, <1>2, <1>3, PTL DEF DashboardsSpec

-----------------------------------------------------------------------------
(* The figures an organization is shown are true: those of its profiles,   *)
(* of its posts and of its dashboards, for any number of each.             *)
THEOREM FiguresAreTrue == Spec => []FiguresTrue
  <1> DEFINE FiguresInv == InsightsInv /\ SnapshotsInv /\ BoardsType
  <1>1. Init => FiguresInv
    BY InsightsStart, SnapshotsStart, BoardsStart DEF Init
  <1>2. FiguresInv /\ [Next]_vars => FiguresInv'
    <2>1. [Next]_vars =>
            [InsightsNext]_insightVars /\ [SnapshotsNext]_snapVars /\ [DashboardsNext]_boardVars
      BY DEF Next, vars
    <2> QED BY <2>1, InsightsStep, SnapshotsStep, BoardsStep
  <1>3. FiguresInv => FiguresTrue
    <2>1. InsightsInv => InsightsTrue
      BY GrowthHolds DEF InsightsTrue, InsightsInv
    <2> QED BY <2>1, SnapshotsHold, BoardsHold DEF FiguresTrue
  <1> QED BY <1>1, <1>2, <1>3, PTL DEF Spec

-----------------------------------------------------------------------------
(* The parts together.                                                     *)
StudioInv == /\ InsightsInv /\ SnapshotsInv /\ BoardsType
             /\ CreditsInv /\ CampaignsInv /\ MediaInv

(* All that is claimed of what an organization makes and measures holds of *)
(* the specification that composes its parts.                              *)
THEOREM StudioIsSound == Spec => [](FiguresTrue /\ ContentKept /\ CreditsKept)
  <1>1. Init => StudioInv
    BY InsightsStart, SnapshotsStart, BoardsStart, CreditsStart, CampaignsStart, MediaStart
       DEF Init, StudioInv
  <1>2. StudioInv /\ [Next]_vars => StudioInv'
    <2>1. [Next]_vars =>
            /\ [InsightsNext]_insightVars /\ [SnapshotsNext]_snapVars /\ [DashboardsNext]_boardVars
            /\ [CreditsNext]_creditVars /\ [CampaignsNext]_campVars /\ [MediaNext]_fileVars
      BY DEF Next, vars
    <2> QED BY <2>1, InsightsStep, SnapshotsStep, BoardsStep, CreditsStep, CampaignsStep, MediaStep
            DEF StudioInv
  <1>3. StudioInv => ContentKept /\ CreditsKept
    BY DEF StudioInv, CampaignsInv, MediaInv, CreditsInv, ContentKept
  <1>4. Spec => []FiguresTrue
    BY FiguresAreTrue
  <1> QED BY <1>1, <1>2, <1>3, <1>4, PTL DEF Spec
==============================================================================
