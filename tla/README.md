# Rooli backend: a TLA+ development

Rooli is a multi-tenant social-media backend (NestJS, Prisma on PostgreSQL,
BullMQ on Redis): organizations own workspaces, workspaces connect social
profiles, posts are scheduled and published to them, and the inbox collects what
comes back.  This directory holds TLA+ models of its parts that hold state and
interleave, TLC configurations that check them on small instances, and proofs,
checked by TLAPS, that hold for every instance.

All source paths below are relative to `src/src/`.

    tlc -workers 2 -config PublishingStalls.cfg MCPublishing    # check a model
    tlapm PublishingProofs.tla                                  # check the proofs

Sections 1 and 2 are the inventory and the plan; 3 to 10 take the models one by
one (3 Publishing, 4 Membership, 5 CommentReplies, 6 Billing, 7 Inbox,
8 Scheduling, 9 Tenancy, 10 Studio); 11 lists where the code and its own words
part; 12 says what is not modelled and why.

## 1. Inventory

| Component | State | Operations | Hard behaviour | Models |
|---|---|---|---|---|
| Posts, `post/` | `Post.status`, `scheduledAt`, one `PostDestination` per profile, approvals | create, update, delete, bulk schedule, edit and delete of published content, approvals | row and job change in separate awaits; requests race with the worker | `Publishing`, `PostThreads`, `Composing`, `TweetSplit` |
| Publishing worker, `worker/processors/publish-post.processor.ts` | claim in `PostDestination.status`; locals of `process()` | load, claim, publish (thread), save, catch, recompute | retries, stalled jobs handed out twice, crashes, lost answers, stale copies | `Publishing` refines `Delivery` |
| BullMQ (external) | jobs by id: state, attempts, stalls | add, remove, take, complete, fail, stall | at-least-once execution, add is ignored when the id exists | `BullQueue` |
| Queue slots, `queue/` | `QueueSlot` rows, posts' slots | slot CRUD, next free slot, auto-schedule, rebuild, clear | limit and free slot are read before they are taken | `QueueSlots`, `SlotSearch`, `PostThreads` (clear) |
| Organizations, `organizations/` | `Organization`, `OrganizationMember`, `Invitation`, subscription limits | create, update role, remove, leave, invite, accept, resend, revoke | check-then-act on owners and seats, compensation | `Membership`, `Founding` |
| Workspaces, `workspace/` | `Workspace`, `WorkspaceMember` | CRUD, members | last workspace, plan limit, last owner | `Workspaces` |
| Billing, `billing/`, and payment webhooks, `webhook/` | `Subscription`, `Transaction`, `WebhookLog` | initialise, verify, activate, cancel, fail, expire | duplicated and reordered webhooks against renewals | `Billing` |
| Inbox, `messages/`, `meta-webhooks/`, `polling/`, inbound and outbound workers | conversations, messages, comments, read state | ingest, reply, comment reply, retry, mark read, archive | duplicates, out-of-order delivery, retries of sends that succeeded | `Inbox`, `CommentReplies` |
| Notifications and events, `notifications/`, `events/` | `Notification` | fan-out on domain events, mark read | deduplication, members who come and go | `Bells` |
| Authentication, `auth/` | `User` (refresh hash and version, codes) | register, login, social login, refresh, switch, onboard, logout, reset | one hash for all clients, overtaken requests | `Sessions` |
| AI generation, `ai/` | `AiGeneration` | check, generate, charge | checked before, charged after | `Credits` |
| Social connections and profiles, `social-connection/`, `social-profile/` | `SocialConnection`, `SocialProfile` | OAuth, import, remove, disconnect | one owner per page, limit, cascade | `Connections` |
| Social providers, `social/` | none, but Instagram polls a container | publish, reply, delete content | calls that partly succeed | `Composing`, `Publishing` |
| Campaigns and calendar, `campaigns/`, `calendar/` | `Campaign` | create, update, delete | partial updates that cross | `Campaigns` |
| Analytics, `analytics/`, and its worker | `AccountAnalytics`, `PostAnalyticsSnapshot` | daily job, run on demand, dashboards | retries, midnight, partial answers | `Insights`, `Snapshots`, `Dashboards` |
| Media, brand kit, mail | `MediaFile`, blobs at the store, `User.avatarId` | upload, many, avatar, delete | two stores, no transaction | `MediaFiles` |
| RBAC, guards, audit, `rbac/` | `Role`, `RolePermission` | create, update, replace permissions, delete | transactions that clear the same rows | `Roles` |
| Support tickets and administration; users; infrastructure | rows, clients, configuration | CRUD | little that interleaves | none |

How they interact.  API handlers write Postgres through Prisma and add or remove
BullMQ jobs; the worker process takes jobs and writes Postgres; the networks and
the payment provider are called from both and call back through webhooks, which
are queued to workers as well; domain events fan out in process to notifications
and sockets.  Nothing but single statements and `$transaction` blocks is atomic:
two awaits of one handler may have anything between them.  All `@Cron`
decorators in the repository are commented out, so only requests, jobs and
webhooks act.

What makes each correct:

- *Posts and publishing*: one attempt at a time per destination; no second copy
  of what was published; statuses that tell the truth; a deleted post is not
  published; every scheduled post comes to an end; a thread is sent once and
  whole; what is admitted can be sent, and a split text loses nothing.
- *Queue slots*: the plan's limit, no slot with more posts than it holds, no
  free slot passed over.
- *Organizations and workspaces*: an owner remains, the seats and workspaces of
  the plan are not exceeded, an invitation is used once, a founder who is asked
  to pay has the organization he pays for, a role grants what it was given.
- *Billing*: an organization is active exactly when a payment says so, whatever
  the order of webhooks, verification and renewal.
- *Inbox*: what was accepted is kept, an unread message shows, each reply is
  sent at most once and never lost silently.
- *Notifications*: everybody who is concerned is told once.
- *Authentication*: a token that is accepted goes back to the password in force;
  a logout ends the session; nobody is thrown out for nothing.
- *Connections*: a page is connected in one workspace, within the room of the
  plan, and not after its connection is gone.
- *Analytics*: figures are counts the network had, growth adds up, charts agree
  with totals.
- *Credits, campaigns, media*: nothing beyond the plan is recorded, dates stay in
  order, a row names a file that is there.

`PROJECT.json` lists the hazards line by line.

## 2. Plan

Done, in this order:

1. `BullQueue` (constant-level: the state of one job) and `BullQueueProofs`,
   `Delivery` (abstract: what a destination goes through), `Publishing` (composes
   `BullQueue`, refines `Delivery`), `PublishingProofs`.
2. `Membership`, and its half of `OrganizationProofs`.
3. `CommentReplies` (on `BullQueue` again), `CommentRepliesProofs`.
4. `Billing` (on `BullQueue`), the other half of `OrganizationProofs`.
5. `Inbox` (on `BullQueue`): ingestion, reading, archiving, a direct message;
   `InboxProofs`.
6. `Scheduling` = `QueueSlots`, `SlotSearch`, `PostThreads`, `Composing`,
   `TweetSplit`; `SchedulingProofs`.
7. `Tenancy` = `Sessions`, `Workspaces`, `Founding`, `Roles`, `Connections`,
   `Bells`; `TenancyProofs`.
8. `Studio` = `Insights`, `Snapshots`, `Dashboards`, `Content` (`Campaigns`,
   `MediaFiles`), `Credits`; `StudioProofs`, on the library of sums and
   recursion at the head of `SchedulingProofs`.

Left:

9. Composition of a post's life with its slot: the search reads dates that
   requests write, which is a step of its own here (`SlotSearch` takes any
   dates as given).

Each module takes its sets of requests, workers, rows and limits as CONSTANTS
with named assumptions, has one action per awaited step, and states invariants as
conjunctions, so that its proofs go action by action.

`Scheduling`, `Tenancy` and `Studio` are composed of parts that write rows of
their own and read no other's while they do.  A behaviour of the composition
is one part with the others at rest: interleaving independent parts
adds states, and nothing to what a claim about one of them says.

## 3. Publishing

### The model and the code

`Publishing.tla` is the life of one post.  Posts share no state, so one stands
for all.

| Module state | Code |
|---|---|
| `post`, `at` | `Post.status`, `Post.scheduledAt`; "ABSENT" and "GONE" are a missing row |
| `media` | the `PostMedia` rows, as Instagram's provider sees them: it has a route for them ("routed"), has none ("bare"), or has one again ("restored") |
| `dest` | `PostDestination.status`, rows cascading with the post |
| `job` | the BullMQ job whose `jobId` is the post's id |
| `wpc`, `todo`, `cur`, `sent`, `routed`, `was`, `verdict` | where a worker stands in `process()`, the loaded destinations left, the one being published, the tweets accepted, whether the loaded media have a route, the status read and the verdict computed in `recomputeMasterPostStatus` |
| `hpc`, `hat` | where an API request stands and the time it resolved |
| `rpc`, `rtodo`, `rcur` | `deletePublishedPost` and its loop |
| `copies`, `orphans`, `removed` | history: root posts accepted by the network, attempts recorded FAILED with content up, content the user had deleted |

Every awaited call is a step.  The API side is `Create`/`Enqueue`,
`UpdateRead`/`UpdateCommit`/`UpdateSync`, `DeleteRead`/`DeleteUnqueue`/`DeleteDrop`,
`ClearRead`/`ClearReset`, `DeleteFile` (of the media library), `RemoveRead`/`RemoveCall`/`RemoveMark`/`RemoveReturn`.
The worker is `Take`, `Load`, `Claim`/`ClaimRefused` (the conditional
`updateMany`), `Send`/`Rejected`/`AnswerLost` (the network), `NoRoute` (Instagram's
`publish` returns without a call), `Persist` (the early
save of a thread's first tweet), `Save`, `Catch`, `ReadStatus`/`Count`/`Write`,
`Finish`/`Throw`.  `DbError`, `WorkerCrash`, `HandlerCrash`, `RemoveCrash` and
`LockExpires` are what goes wrong; the constant `Faults` switches them on.

`BullQueue.tla` is BullMQ as the code uses it: `add` with a job id that exists is
ignored, an active job can not be removed, a thrown processor is retried up to
`attempts`, a job whose lock expired is handed out again up to `maxStalledCount`
times, a completed job is removed.

Abstractions.  A tweet that follows the first in a thread counts only for when
the attempt ends; a thread without replies has its early save merged into
`Save`, which writes the same row next.  `removed` is set with the network call,
before the row is marked.  There is no clock: a waiting job may be taken at any
time, and the job's due time is kept only to compare it with the post's.
Which media a network takes is `Composing`'s subject; here it matters only that
`updatePost` may leave a post without any (it checks nothing), that a deleted
file takes its `PostMedia` rows along, and that Instagram's provider then
returns `undefined`, which is recorded as SUCCESS.
Texts, credentials, events, `editPublishedPost` (which changes texts
only) and approvals are left out.  Approvals can not be requested in this code:
`createApproval` inserts `user.id`, which the JWT strategy does not set.

`Delivery.tla` is the abstract specification: a destination waits, is attempted,
and ends delivered or failed; a failed or waiting one may be attempted again,
a delivered one never is; only withdrawal and deletion touch it.  Delivered
means that the attempt has put a post up, except, on a `Lenient` network, for a
post that was stripped of its media.
`Publishing`'s refinement mapping (`PhaseOf`) calls a PUBLISHING row "sending"
while a worker holds it, and "abandoned" when nobody does.

### Runs

| Run | Instance | Shows |
|---|---|---|
| `PublishingStalls` | 2 workers, a Twitter thread of two and an Instagram post, 1 request that reschedules and may take the media away; crashes and lost locks (665,000 states) | `ClaimExclusive`, `CopiesAccounted`, `PublishedTruthful`, `SuccessFinal`, and the refinement `DeliveryContract` |
| `PublishingRequests` | 2 workers, a Facebook and an Instagram post, all requests, one at a time, a remover, files deleted; crashes of workers and of the API, lost answers, database errors; locks kept (4.5 million states) | `VerdictTrue`, `GoneNotSent` |
| `PublishingLive` | 2 workers under fairness; refusals, lost answers, lost locks (30,000 states) | `JobSettles`, `ClaimReleased`, `ScheduledSettles` |

Bounds.  Two workers are what a lost lock needs; a third would only be a third
owner of the same job, and the proofs cover any number.  Two destinations are
enough for PARTIAL, and for one to be handled while another is not.  A thread of
two tweets has an accepted first and a refused second.  `MaxAttempts` is 2 (the
code's 3 adds one more equal attempt), `MaxStalled` is BullMQ's default 1,
`MaxEdits` 1 allows one rewrite while everything else goes on.  Symmetry over
workers is used in the safety runs only.

Deadlock is not checked: with the post deleted, or failed with its job used up,
the system really stops.

Conditions that are part of what the runs show:

- `PublishedTruthful` excepts Instagram once the post's media have been taken
  away: the code does call such a post PUBLISHED with nothing up.
- `ScheduledSettles` says that the final status stays, and for that needs the
  lock to be kept, for the same reason as `VerdictTrue`: an overlapping run may
  write PUBLISHING last, and nobody computes the status again.
- `VerdictTrue` needs the lock to be kept: two overlapping runs of one job
  compute their verdicts from counts of different moments, and the older may be
  written last.  TLC refutes it at once when "stall" is added.
- `GoneNotSent` needs one request at a time: an `updatePost` that read the post
  before `deletePost` removed the job adds the job back, and a worker that
  loaded the post before the row went away publishes it.
- `DeliveryContract` needs one remover: with two, the second writes FAILED over
  a row the worker has claimed again in between.
- `ClaimExclusive`, `CopiesAccounted` and `SuccessFinal` except destinations
  whose content the user had removed, for the same reason.  `PublishingStalls` has
  no remover; that these hold of the other destinations beside one is proved.

Fairness.  Node runs every continuation that is ready, so a request or processor
that has started goes on; a network call answers one way or the other (with an
error after its timeout); workers keep asking BullMQ for waiting jobs and for
stalled ones.  Nothing is assumed of users, of crashes or of networks accepting
anything.  The liveness properties hold for worker processes that stay alive and
reach their database: a crash between claim and outcome leaves the claim taken
for good ("abandoned" in `Delivery`), and every later claim of it is refused.

### What is proved

`PublishingProofs.tla`, for every number of workers, destinations, requests and
removers, every thread length, every limit and every combination of faults:

- `TypeCorrect`: `Spec => []TypeOK`, from one lemma per queue operation on the
  job's counters (in `BullQueueProofs`: `AddedFit`, `TakenFit`, `ThrownFit`, `StalledFit` ...).
- `ClaimsExclusive` and `CopiesBounded`.  `ClaimExclusive` is not inductive: it
  says nothing about a second claim.  `ClaimInv` adds that the locals are sound
  (`LocalsSound`), that rows come and go together (`RowsTogether`), that a held
  destination is PUBLISHING and so out of `Claimable` (`HeldBusy`), and the
  count of copies against the destination's status (`Accounted`).  One step per
  action of `Next` (`DestStep`) shows it is kept.
- `PublishedIsTrue`.  `PublishedInv` extends `ClaimInv` by what has been sent
  (`SendsSound`: an attempt about to be saved without a copy is Instagram's, of a
  post stripped of its media), what a SUCCESS row says of copies (`CopiesSound`), and by what
  a verdict that is still to be written stands for (`VerdictSound`): a computed
  PUBLISHED stays true until it is written because SUCCESS rows are left alone.
- `SuccessIsFinal`: the action property, from `ClaimInv`.

- `DeliveryIsKept`, with at most one remover: `Publishing` implements
  `Delivery`.  `ContractInv` is the claim's invariant without its exception
  (`Exclusive`), which one remover affords since what it still has to delete
  stays up (`RemovalsSound`).  The steps are mapped kind by kind (`RequestMaps`,
  `RemovalMaps`, `ClaimMaps`, `AcceptMaps`, `ReleaseMaps`); each shows in at most
  one destination (`SameView`, `WorkView`) or is `Plan`, `Strip` or `Drop`.
- `VerdictIsTrue`, while locks are kept, for any number of requests.  Then a run
  is alone (`OwnRun`); from its reading of the status on, only requests touch the
  post, and nobody its destinations (`Judged`).
- `GoneIsNotSent`, while locks are kept and with one request at a time: what is
  deleted has no job (`Dropped`), and without a job nobody runs.  With more
  requests it does not hold, as said above.

Liveness is checked by TLC only, as TLAPS has no support for it here.

## 4. Membership

### The model and the code

`Membership.tla` is one organization: `role` (the `OrganizationMember` rows),
`invite` (the `Invitation` rows), and for each concurrent request what it is and
what it has read so far.  `updateRole`, `remove` and `leave` are
`MemberRead`, `AssertNotLast`, `MemberWrite`; `inviteUser` is `InviteRead`,
`CountMembers`, `CountPending` (both of `checkSeatLimit`), `InviteClear` and
`InviteCommit` (its transaction's read and its writes); `resendInvitation` is
`ResendRead`, the two counts, `ResendCommit`; `acceptInvite` is `AcceptRead`,
`AcceptCommit`.  `RevokeInvitation` is one update.  `GiveUp` is every other
refusal, error or crash: none of them leaves anything behind.
`updateRole` finds the member by id and counts the owners of the organization in
its path, without comparing the two: a demotion may be "stray", let in and
checked against another organization.
`Clashes` is the unique key on (email, organization, workspace), under which
null workspaces never clash.

The history variable `stale` marks a request that was overtaken by a change it
has not reckoned with; `ownerRaced` and `seatRaced` record that such a request
went through.

### Runs

`Membership` runs two concurrent requests on three people, two invitation rows
and two seats, everything interleaved: two is what a race takes, three people
leave a member, an invitee and somebody else, and two seats are reached after
one invitation.  Invitations grant the owner role or, through a workspace, the
member role, so that both kinds of member arise.

- `OwnerKept`: the last owner is lost only to a request overtaken by another one
  that takes an owner away, or to a stray demotion.
- `SeatsKept`: the seats are exceeded only by an overtaken invitation, or by one
  accepted after it was revoked.  An acceptance between the two counts is in
  neither of them, and counts as overtaking the request.

### What is proved

`OrganizationProofs.tla`, for every set of people, rows and requests, every
founder, set of grants and limit:

- `MembersTypeCorrect`: types proper (`Types`) and what a request holds (`Held`) are
  kept together, each by its own lemma.
- `AnOwnerRemains`: `OwnerInv` adds to the goal that a request which passed the
  check, is not stray and was not overtaken, still leaves another owner (`CheckGood`).
- `SeatsAreKept`: `SeatInv` adds that a member count taken by a request not
  overtaken still bounds the members (`Counted`) and that a request which was
  let in, and not overtaken, still has its seat (`RoomLeft`); it rests on
  `RowsInv` (the rows a transaction replaces are invitations of the same person)
  and on cardinalities of the sets of invitees (`InviteesBounded`, `TwoCounts`).

## 5. CommentReplies

### The model and the code

`CommentReplies.tla` is one reply an agent writes to a comment: `status`, `ext`
and `platform` are its `Comment` row (`ext` is 0 while `externalCommentId`
starts with `pending_`), `job` its BullMQ jobs, one for `sendCommentReply` and
one per retry, whose ids differ.  `sendCommentReply` is `Create`, `Add`;
`retryCommentReply` is `RetryRead`, `RetryMark`, `Add`; `processOutboundComment`
is `Take`, `Load` (the idempotency check and the route), `Send`, `Rejected` or
`AnswerLost`, `Mark` or `MarkFails` (`markCommentSuccess`), `Finish` or `Throw`.
`onFailed` is an event handler that runs after the job was given up, so it is a
step of its own (`Failed`, for the jobs in `failing`).  `Echo` is
`ingestInboundComment`, which the webhook and the poller call for every comment
under the post, the page's own included: it does not look at who wrote it, and
stores a second row under the same network id.  `Cascade` deletes the row.

`platform` is "META" for Facebook and Instagram, "SILENT" for LinkedIn and X,
whose senders are commented out, so that the job completes having done nothing,
and "OTHER" for what throws.

History: `copies` counts what the network accepted; `orphans` the accepted
copies whose outcome was not recorded; `raced` says that two runs met, or a run
and a late retry or handler; `forgotten` that a crash or a failed update dropped
a step that nothing makes up for (the add of a job after the row was committed,
or the handler's update).

### Runs

`CommentReplies`: two workers, two requests, two retries (so three jobs), two
copies, all faults.  Two requests are what two concurrent retries take, and two
workers what running both at once takes.  With two copies a copy too many can be
seen; a worker about to send a third may still be refused.  `MaxAttempts` is 1,
as in the code, `MaxStalled` BullMQ's default 1.

- `CopiesAccounted`: unless runs meet, each copy but one is a send whose outcome
  could not be recorded.  Runs do meet when two requests retry at once, or when a
  job is handed out again while its worker is alive.
- `UpIsShown`: unless runs meet, a reply that is up and has its network id is
  not shown as failed or on its way.
- `QueuedAttended`: a reply shown as on its way is being worked on, except after
  a forgotten step and on the silent platforms, where it stays QUEUED for good.

Deadlock is not checked: a reply that was sent or deleted needs nothing more.

### What is proved

`CommentRepliesProofs.tla`, for every number of workers, requests, retries and
copies and every combination of faults (`attempts` is 1, as the code has it):

- `TypeCorrect`, from the queue's lemmas in `BullQueueProofs`.
- `CopiesBounded` and `UpAndShown`, from `RunInv`: while no runs have met, at
  most one run has found the reply unsent, it is unsent, and no failure handler
  is pending beside it (`OneRun`); what is not accounted for is the copy in that
  run's hands (`Accounted`).
- `QueuedIsAttended`, from `JobInv`, which adds that a run that ends without an
  error has seen the reply sent or deleted (`DoneSettled`) and that a request
  about to add a job adds a new one (`JobsNew`), so that BullMQ does not ignore
  the add.

## 6. Billing

### The model and the code

`Billing.tla` is the subscription of one organization.  One stands for all, as
each is taken to have a billing address of its own (which `userOnboarding` does
not ensure: it is the user's mail, also of a second organization).

| Module state | Code |
|---|---|
| `status`, `saved` | `Subscription.status` ("none" without a row), `paystackSubscriptionCode` |
| `billingEmail` | whether `Organization.billingEmail` is set: `userOnboarding` sets it and creates the row, `createOrganization` does neither |
| `txn` | `Transaction.status` per reference, which is unique |
| `event`, `log` | the `WebhookLog` rows |
| `adding` | rows whose request has not added the job yet |
| `job` | the row's job in the queue `webhooks` |
| `wpc`, `wlog` | where a worker stands in `process()`, and for which row |
| `vpc`, `vref`; `cpc`, `ccode` | where each `verifyPayment` and `cancelSubscription` stands, and what it holds |
| `charge`, `anonymous`, `live`, `sent` | Paystack (external): payments, those whose events name no organization or no known plan, subscriptions it goes on charging, events it reports |
| `applied`, `dropped`, `crossed` | history: activations per payment, rows whose request died, payments made while a subscription was live or being cancelled |

`handlePaystack` is `Receive`, `Add` (or `ReceiveCrash` in between).
`WebhooksProcessor` is `Take`, `Check` (the idempotency check), `Activate` or
`Ignore` (its early returns, after which the row is PROCESSED all the same),
`SaveDetails` or `MarkAsExpired`, `Processed`; or `Throws`, `Failed`, `Throw`;
then `Finish`.  A duplicate completes and its row stays PENDING.  `Activate` is
one step, as its `$transaction` is; `Throws` is the same transaction breaking on
the unique reference.  `verifyPayment` is `VerifyAbandoned`, `VerifyRecord`;
`cancelSubscription` is `CancelRead`, `CancelCall` (or `CancelLost`,
`CancelRefused`), `CancelWrite` (or `CancelCrash`).  Paystack reports an event
any number of times, in any order, and names a subscription by the reference of
the payment that began it.  `initializePayment` keeps nothing here: `Checkout`
is the payment it opens at Paystack.

`handleExpiredSubscriptions` has no caller.  Plans, periods, amounts, mails and
the activation of profiles are left out.

### Runs

- `BillingCharges`: one payment, two rows, two workers, three attempts, as in
  the code; crashes, lost locks, database errors; a concurrent `verifyPayment`.
  Two rows are a delivery and its repetition, two workers run them, or one of
  them twice, at once.  `ChargedOnce`: the check for a duplicate looks for a
  status written after the payment is applied, and it is the unique reference
  that keeps a second run out.  `ProcessedApplied` is what the check relies on; it
  and `ChargeNotLost` speak of payments whose events name their organization and
  plan, as the code drops the others.  `ChargeNotLost`: a row put aside as a duplicate, or after its last attempt, has
  left a transaction; a request that died before it added the job (Paystack, not
  answered, reports again), a job given up because its lock was lost, and one
  that failed for the database are left out.
- `BillingCancel`: two payments, so that a renewal and a second subscription can
  happen, and three rows: a charge, and the codes of both subscriptions in either
  order.  `CancelStopsBilling` leaves out a subscription paid for while another
  was live or being cancelled: there is one row and one code, so that the other
  one can not be cancelled by this code.
- `FoundPayment` refutes `PaymentHonored` ("RENEWAL or NEW SIGNUP: This is the
  most important one."), without any fault: `verifyPayment` is called before the
  customer has paid, and records the payment as failed under its reference; when
  it is paid after all, every attempt to activate breaks on that row.

Deadlock is not checked: when the rows are used up the instance stops.

### What is proved

`OrganizationProofs.tla`, for every number of payments, rows, workers and requests,
every limit and combination of faults:

- `TypeCorrect`, with `RowsThere`: a run is at a row that is there, and a row
  about to be queued has no job yet.
- `AppliedOnce`, `ProcessedIsApplied`, `NoChargeLost`, from `ChargeInv`, which
  adds what a run knows at each point (`RunsSound`): about to mark, it has
  applied; about to complete, or to fail with the database up, it has seen a
  transaction of the payment.  `ChargeNotLost` alone is not inductive: it says
  nothing of rows whose job still runs.
- `CancelledIsNotCharged`, from `CancelInv`, which adds that only payments that
  were made are reported and applied (`Truthful`), and that nothing is live when
  a cancellation is about to be written (`OneLive`).

## 7. Inbox

### The model and the code

`Inbox.tla` is one conversation.  Only Meta conversations exist (no route queues
the jobs that would create others), and neither conversations nor messages are
ever deleted.

| Module state | Code |
|---|---|
| `now`, `sentAt` | instants at which somebody reads a clock; the provider's time of each message |
| `asked`, `stamp` | an agent's request between the clock and the write; what each request or run read off the clock |
| `hook`, `accepted` | the webhook job of each message, whose id is the message's; history: webhooks answered 200 |
| `stored`, `last`, `archived`, `readAt` | `InboxMessage` rows, `lastMessageAt`, whether `archivedAt` is set, `ConversationReadState.lastReadAt` |
| `status`, `author`, `adding` | one reply: `deliveryStatus`, its author, `sendReply` between its commit and its `add` |
| `job`, `wpc`, `wpart` | its job (`BullQueue`), where each worker stands in `processOutboundMessage`, the parts it has got through |
| `got`, `unheard`, `raced`, `forgotten`, `peak`, `shelved` | history; `peak` is the latest `last` there was, `shelved` what the archive holds |

`Ingest` (webhook) and `Poll` (the sync job) call the same `Store`,
`ingestInboundMessage`: one transaction whose first writes lock the rows, hence
one step.  It sets `lastMessageAt` to the message's own time whether the message
is new, late or here already; polling for Instagram ingests the newest first, so
that `last` often falls behind `peak`.  `markRead`, `sendReply` and
`updateMessageSuccess` read the clock before they write (`AskRead`, `AskReply`,
`Stamp`), and write what it said (`MarkRead`, `Reply`, `Record`): a message that
comes in between is newer than the time the conversation is moved to.  A reply is sent part by part, its text and each
attachment a call of its own.

### Run

`Inbox`: two workers, one agent, two messages, a reply of two parts, four
instants, all faults (crashes, lost locks, lost answers, database errors): 2.2
million states.  Two messages are a late one and a newer one; the agent both
reads and replies, as agents share nothing but the conversation, which the
workers write too; two parts are the first that is accepted and the second that
is not; four instants are those of two messages and two of the three writers, in
any order.  Symmetry over workers and messages.

- `AcceptedKept`: a webhook answered 200 leaves a row, a job to come, or a failed
  job.  (The failed job keeps its id, and redeliveries are ignored then.)
- `UnreadShown`: unread is told from `lastMessageAt` alone, which has four
  writers; the property relates it to the messages.  It is claimed while the
  conversation stands where it was latest: a late message, a reply stored and a
  reply sent each set it back, and the code then shows as read what nobody saw
  (TLC refutes the property without this condition, by `Reply` and by `Record`).
  A message sent before but stored after an agent's reading counts as read: it
  is not claimed otherwise.
- `OutcomeTrue`: SENT means all parts arrived; FAILED means not all of them did,
  unless an outcome was lost or two runs overlapped.
- `ReplyAttended`: QUEUED and SENDING are on their way, unless a run ended where
  nothing records it: before the try block of `sendMetaMessage`, or with a query
  that failed (`onFailed` is for comments only).

### Proved (`InboxProofs.tla`)

For any number of workers, agents, messages and parts, any bound on the instants
and every combination of faults (the job has one attempt, as `sendReply` says):

- `TypeCorrect`, by `TypeInv`, which adds that a job is owned while it is active
  and that a worker is at a part the reply has.
- `AcceptedIsKept` and `UnreadIsShown`, from `ThreadInv`: what is stored was
  sent, the conversation has stood at least at each message stored, and it is
  archived only with all of them in it.  `UnreadShown` alone says nothing of
  messages older than the last reading, which a later `Store` moves the
  conversation back to.
- `OutcomeIsTrue` and `ReplyIsAttended`, from `ReplyInv`: what a run has got
  through has arrived (`Arrived`); while no runs overlapped, the one that runs
  found the reply unsent and holds or has recorded its last part (`OneRun`); and
  whatever is on its way is in somebody's hands (`Attended`), where the property
  as it stands also counts runs that are over.

## 8. Scheduling

`Scheduling.tla` composes five parts, one run checks all of them.

| Module | Models | Property |
|---|---|---|
| `QueueSlots` | `queue.service.ts`: create, update and delete of slots by concurrent requests; each counts, looks for a twin, writes | `SlotsBounded` |
| `SlotSearch` | `findNextFreeCandidate`, `planScheduleForPosts`, `getNextAvailableSlots`, as operators | `SearchSound` |
| `PostThreads` | `bulkSchedulePosts`, `updatePost`, `deletePost`, `clearQueue` on a chain of posts, with their jobs | `ThreadKept` |
| `Composing` | `platform-rules.service.ts` against the four providers' `publish` | `ShownTruthfully`, `AdmittedSent` |
| `TweetSplit` | `processTwitter`: `splitNumberAndStabilizeX`, `splitForXByWeightedLimit`, `hardSplitTokenForX` | `SplitKeepsText` |

- `SlotsBounded`: no lock guards the plan's limit and no index the keys.
  Requests that overlap may pass the limit, but by no more than there are
  requests besides one, and no key has more holders than requests.
- `SearchSound` compares the day-by-day loops with a definition over absolute
  time: what is planned has room, respects the spacing, and skips nothing that is
  free.  The window's last day is searched to its end, beyond the window, where
  taken slots are not counted; the claim is for the window.  `Capacities` holds
  `Undefined` because the server's query does not select a capacity: with it no
  slot is free, so that in the code as it is the search finds none.
- `ThreadKept`: the thread is sent by the first post's job, except for posts
  somebody gave a date of their own; what is left of it is a beginning; the
  second post waits for the first one's date.  The third post is not moved.
- `ShownTruthfully`: SUCCESS means the network shows the post, with all replies,
  once, but for the Instagram feed post that an edit has left without media or
  with one document: no route of the provider takes it; an attempt that throws left something behind only in the listed cases.
- `AdmittedSent`: what the rules admit, unedited, is not refused by the provider
  when it is due, but for the four cases it names.
- `SplitKeepsText`: all tweets valid, in order, nothing left out but blanks; a
  refusal has a reason: a character no tweet takes, or more text than a third of
  `SafeLimit` for each tweet a thread may have.

`getNextAvailableSlots` visits the slots of each day in the order of their time;
`Offer` folds over the visits, the latest taken last.  Of two at one tick either may
come first, in the code by the order of the rows; `last` is a CHOOSE, of which TLC
takes one outcome and the proof holds for each.

Bounds: two editors, four rows, two keys, limit 2 (so that it can be passed and
a row stay free); a week of two days of two ticks, one or two slots, two posts
(`Booked`) that hold dates, a plan for one or three; two authors, a chain of three posts, two
dates; 0, 1 or 10 items of a medium (none, one, too many with another), two
replies, two attempts at a container; a tweet of 3 characters filled up to 2,
three tweets, texts up to 8 characters, with one bad one at most (`MaxBad`).  What a text or a set of
slots can do wrong at a boundary it does at a small one: each limit is reached
and passed.  Deadlock is not checked: pure computations end, and so does a thread
that was sent.  Symmetry over authors.

Proved (`SchedulingProofs.tla`), all six properties, each for its part's
specification, and together for `ScheduleSpec` (`SchedulingIsSound`), for every
value of the constants:

- `SlotsAreBounded`.  `SlotsBounded` is not inductive.  `RoomKept` counts
  the rows together with the requests that were told there is room; `KeyKept`
  counts, for every subset of a key's holders, those holders together with the
  requests that were told the key is free and edit none of them.  The subset is
  needed because a row that moves away frees the requests that were cleared
  against it.
- `ThreadIsKept`, for every length of the chain.  Its invariant adds `Dated`: a
  request about to add a job has given its post a date, so that the job is the
  first post's or that of a post somebody dated.
- `ShownIsTrue` and `AdmittedIsSent`, for any counts of media and replies and any
  number of attempts.  `ShownTruthfully` needs `Underway`: what is shown and the
  visible calls that are left make the post, and after a visible call come only
  visible calls, the permalink and the job for the video.  `CallsFit` shows it of
  the calls of each provider, by concatenation, but for Instagram's without a
  route (`NoRoute`); `Fresh`, that what was refused had
  been admitted or edited, gives `AdmittedSent`.
- `SearchesAreSound`, for weeks, days, slots, posts and windows of any size.
  `NextFreeIs`: the recursion over the days answers the first free tick, which
  needs that ticks of a later day are later (`AtIs`, `DayMonotone`).  The loops
  are folds with an invariant each: `PlanOK` (the dates so far are sound, the map
  is right beyond the cursor, and a turn that found nothing had nothing to find)
  and `OfferOK` (the map counts the posts and what was given, no slot was given
  more than it holds, and while dates are wanted every slot visited that had room
  was given).
- `ThreadsKeepText`, for texts and limits of any size.  `TokensTile` and
  `HardSplitTiles`: tokens, and the pieces of a word that is cut, tile what they
  were made of, without gap or overlap.  `SplitOK` is the invariant of the loop:
  what is out and what is held back tile the text so far, or a piece was refused
  for a bad character; and what is out has cost no more than the text pays for
  (`BudgetKept`, `BudgetCut`).  This budget corrected the property: it used to
  excuse a refusal for more than half a `SafeLimit` a tweet, which the small
  instance did not refute.  But a short word, a word just above the limit, and so
  on, take three tweets for little more than one limit of text: with the code's
  260 and 20, some 1,800 characters may be too many.

The computations are recursive functions and folds.  What one of them computes
is proved by induction, without the library's schemes, which take an operator as
a parameter: a set of natural numbers has a least element (`NatHasMin`), and so
has a set of finite sets (`FewestOf`); from these follow that a recursive
definition whose measure descends has a solution (`Recursion`), so that the
CHOOSE it stands for is one, that folds are such (`FoldExists`, `LoopExists`), and
what sums are (`SumRec`, `SumAdd`, `SumSwap`).

## 9. Tenancy

`Tenancy.tla` composes six parts, one run checks them.

| Module | Models | State and steps |
|---|---|---|
| `Sessions` | `auth.service.ts` for one user with several clients | row (`known`, `hash`, `version`), tokens issued, one request per client: read (or the guard of `JwtStrategy`, and the reading of the version after it), write of the new hash, answer or lost answer |
| `Workspaces` | `workspace.service.ts` | workspaces, members of one; limit check and creation, read, count and deletion, both owner counts and removal; leaving the organization, which cascades |
| `Founding` | `createOrganization`, `userOnboarding` | slugs; look, commit, payment, compensating delete and its failure, crash |
| `Roles` | `rbac.service.ts` | roles, default, permissions; each transaction's two statements at read-committed isolation |
| `Connections` | `addProfilesToWorkspace`, `removeProfile`, `disconnect`, `handleCallback` | connection, profiles by workspace and page; room, list, count, look, upsert, webhook |
| `Bells` | `notifications.subscriber.ts` | members, assignee, notification rows of one event; read, list, write |

Each rule of these is a check in one await and a write in another.  The
properties say what is left of the rule under interleaving, with history
variables that name exactly the requests that were overtaken:

- `SessionsKept`: `SignedIn` (who holds a token can refresh with it, unless
  another client was given one since or logged out, the password changed or an
  answer was lost), `ResetRevokes` (an accepted token goes back to the password
  in force, though a request may write its hash after a reset, because the token
  names the version that was read; except where a switch or an onboarding read
  the version after a reset that came after its guard, `carried`: the code does
  accept that token), `LogoutHolds`.
- `OrganizationsKept`: `WorkspacesKept` (limit passed by at most the other
  requests; a workspace remains unless requests crossed, an owner unless they did
  or one was demoted or left the organization),
  `FoundingKept` (who was asked to pay has his organization; a slug is taken by
  a living organization unless a crash or failed delete left it), `RolesKept`
  (one default, a role grants what was given last, unless two transactions
  cleared the same rows; no member has a role that is gone), `BellsKept` (who was
  to be told when a handling began has a row when it is done, unless membership
  or assignment changed meanwhile).
- `ConnectionsKept`: `OneOwner`, `RoomHeld`, `PausedTogether`.

Bounds (2.0 million states): two clients, four tokens, two resets; two requests
on three workspaces with limit 2, two members; three founders and three slugs;
two roles, one permission; two workspaces, three pages, room 1; two handlings,
two members.  Two of each actor are what a race takes; three founders let a third
meet what two left behind; four tokens let both clients be replaced.
Symmetry over requests; deadlock is not checked, as tokens run out.

Proved (`TenancyProofs.tla`) over the whole specification, for all values of the
constants: `SessionsAreKept`, `OrganizationsAreKept`, `PagesAreKept`, the three
properties of the run.  One inductive invariant per part, kept by the part's steps
and untouched by the others':

- `SessionsInv`: the version counts the passwords, and each token and request
  that has the row's version goes back to the present password, unless that
  version was carried over a reset; a request not outdated carries the row's
  version; who waits for an answer is given an accepted token.
- `SpacesInv`: workspaces and admitted requests together stay within the bound;
  who is about to delete has seen two workspaces; who is about to remove an
  owner has not counted him.
- `FoundingInv`: between commit and undo a request's slug is its own.
- `RolesInv`: who was not overtaken has cleared all there is to clear.
- `LinksInv`: who is about to take a page that was not alone takes one that two
  requests took already.
- `RoomInv`, for `RoomHeld`, which is a sum over requests: each holds a lot, first
  the room it read, then the pages it has yet to add, one ticket for each.  The
  rows with all tickets stay within the room of all requests: a new lot is drawn
  from room that is left, or is empty, and a row that is added uses up a ticket.
- `BellsInv`: a handling nothing has disturbed is about to tell those who were
  to be told.

## 10. Studio

`Studio.tla` composes six parts, one run checks them.

| Module | Models | Property |
|---|---|---|
| `Insights` | the daily job and `testFetch`: fetch, compare with the last earlier row, stamp, upsert; retries, failed requests, midnight | `InsightsTrue` in `FiguresTrue` |
| `Snapshots` | `getPostsForUpdate`, chunks of ids, answers for some, upsert by day | `SnapshotsTrue` in `FiguresTrue` |
| `Dashboards` | the queries of `analytics.service.ts` as operators over any rows: periods, totals, series, breakdown, growth, best time, top posts | `DashboardsTrue` in `FiguresTrue` |
| `Campaigns` | create, partial update, delete | `DatesKept` in `ContentKept` |
| `MediaFiles` | upload, many, AI image, avatar, delete: the blob and the row are two stores | `FilesKept` in `ContentKept` |
| `Credits` | `quota.service.ts` and the generators of `ai.service.ts` | `CreditsKept` |

- `InsightsTrue`: the growth a dashboard gets by subtracting totals equals what
  the rows say was gained and lost, however often and in whatever order the days
  were fetched, unless midnight overtook a run; a total is a count the network
  has had.  A LinkedIn page is left out of the second, because its requests
  settle one by one and a failed one is recorded as 0.
- `SnapshotsTrue`: rows are their post's own and in the order of time.
- `DashboardsTrue`: periods adjoin and are equally long; charts add up to the
  totals beside them; growth has the sign of the change; the best hour is one
  with the highest average; the top posts are the best, and a short list has
  a reason.
- `DatesKept`, `FilesKept`: as above, unless two updates crossed; a row names a
  blob, and the avatar can be shown though another request replaces it.
- `CreditsKept`: a month's record stays within the plan, unless a check was
  outdated by another record; a batch, checked at the price of one item, may
  pass it by its further items.

Bounds (2.1 million states): two runs, three days, followers 0 and 1, one
attempt, one network that fails as a whole and one that fails by parts; two
posts over two days; two pages of two networks over three dates and three posts
over two, figures 0 and 1, two hours, top 2 of a buffer of 2; two requests on a
campaign over three days; two on three files; two callers, plans scaled to 4, 22
and 30 half credits so that both the price of an item and the limit are met.
A column of a table stands for all, as the queries treat them alike.  Symmetry
over requests and posts; deadlock is not checked.

Proved (`StudioProofs.tla`), all three properties, for `Spec` (`StudioIsSound`) and
all values of the constants:

- `CreditsAreKept`: a request under way was let in with what it saw (`Fitted`).
- `ContentIsKept`, from `DatesAreKept` (an update nobody has overtaken is
  still in order when merged with the row as it is now) and `FilesAreKept` (a file
  being uploaded is nobody else's, `OwnFile`; what is about to be destroyed is not
  shown, `Condemned`).
- `FiguresAreTrue`, from three parts.  `InsightsAreTrue`: the invariant relates a
  row to the row before it (`RowsTrue`) and a run that is about to write to what
  it compared with (`ComparedTrue`); that growth over a window is the sum of what
  its rows say follows by induction over the end of the window
  (`GrowthTelescopes`).  `SnapshotsAreTrue`: an answer is no less than any row of a
  day before the one on which it was asked for (`Answered`).  `DashboardsAreTrue`
  needs the types only: charts, totals and breakdowns add up one table by dates,
  by pages and by networks (`ChartSums`, `BreakdownSums`, by `SumSwap`), and the
  highest of a buffer are the highest of all (`TopPostsHold`).

## 11. Where the code and its own words part

`FoundPayment` is a run.  The others were met while modelling; the runs above
state their properties around them, so that each shows in a condition of a
property or in a history variable.

Posts and queue.  `clearQueue`, "Unschedule all queued posts immediately"
(`queue/queue.service.ts:680`), leaves the jobs, which publish the drafts.
Rescheduling adds a job under an id that exists; BullMQ ignores it and the post
goes out at the old time (`post/services/post.service.ts:846`).  `updatePost`
moves a first post's children only, while bulk scheduling builds a chain; dating
a child adds a job that sends the thread again; deleting a middle tweet deletes
its rows but the first post still publishes the rest.  An update without media
deletes them (the DTO's default is an empty list), and so does the deletion of
their files; with none, or with one document, an Instagram feed post matches no
route (`social/providers/instagram.provider.ts:83`), `publish` returns nothing and
the destination is SUCCESS (`worker/processors/publish-post.processor.ts:294`).
The splitting of a text that "preserves whitespace exactly"
(`post/services/platform-rules.service.ts:148`) drops chunks of blanks (182).  Instagram's permalink
and Facebook's verification job are asked for after the post is up, and their
failure is taken for the post's.  Facebook stories and reels without media, mixed
posts of a video and other media, several items in an Instagram story and an
empty text on X are admitted and refused when due.  The column `capacity` is not
selected, so that no queue slot is ever free.

Organizations.  `assertNotLastOrgOwner` (`organizations/organizations.service.ts:381`)
is passed by two owners who leave, or demote each other, at the same time.
`updateRole` counts the owners of the organization in its path for a member it
finds by id alone (278), who may be the last owner of another.
`updateMemberRole` of a workspace checks no owner at all, and `remove` and `leave`
of the organization take a workspace's last owner along by cascade (331, 365).  A role that a pending
invitation names is not counted, and its deletion fails on the key.

Inbox.  "enqueue job so retries don't double-send" does not hold for comment
replies: an echo stored first makes the worker's update break the unique key, the
reply is FAILED though it is up, and its retry posts it again
(`messages/services/inbox-comments.service.ts:106`, `messages/outbound-service/comments.service.ts:92`).  A webhook job that failed for good keeps its id, and
redeliveries are ignored.  `lastMessageAt` is set to a clock read before the
transaction, by a reply that is stored (`messages/services/inbox-message.service.ts:327`)
and by one that was sent (`messages/outbound-service/messages.service.ts:103`), and to
an older message's own time by its late arrival; what came in between is shown as
read.  `inbox.conversation.assigned` has a handler and no
emitter.

Sessions.  A password reset is to "Logout all other sessions"
(`auth/auth.service.ts:662`), but a switch of workspaces or an onboarding that the
guard let in before it reads the version after it (`workspace/workspace.service.ts:325`,
`auth/auth.service.ts:212`), and its session goes on.  A logout leaves access tokens valid.  Two clients that refresh at once
end both sessions; a refresh whose later update fails has already replaced the
hash.  Onboarding can be repeated, and takes nothing back when the payment can
not be initialised.

Connections.  The limit counts paused rows; reconnecting leaves the profiles
paused; a subscription that fails leaves a profile connected without webhooks.

Analytics.  A failed follower request of a LinkedIn page is recorded as 0.  The
windows of the home page share a day.  The platform breakdown counts pages that
are paused.  "Top 3 best performing posts for EACH platform"
(`analytics/services/analytics.service.ts:1276`) may be fewer, when one post's snapshots fill
the fifteen that are fetched.

AI.  A batch is checked at the price of one item and charged for all.  Even-sized
batches cost half credits, which the integer column refuses after the provider has
answered.  Hashtags and optimisation are never charged.

Approvals can not be requested: `createApproval` inserts `user.id`, which the JWT
strategy does not set.

## 12. Not modelled

- *Support tickets and administration.*  The controller hands `createTicket` the
  user's id as requester, a foreign key to `WorkspaceMember`, so that creating a
  ticket is always refused; `AdminTicketsService` has no route.  What remains is
  the administrators' sign-in, which issues one token and stores nothing.
- *Users*: single updates of a row.  *Infrastructure*: clients, configuration.
- *Calendar, brand kit, mail, audit, guards, folders of media*: single statements, templates,
  or refusals, which the models leave to requests that give up.
- *Provider protocols*: HTTP, OAuth, signatures and the mapping of the networks'
  payloads to rows (`meta.adapter.ts`) carry data the properties do not tell
  apart.  Sockets are I/O.
- `handleExpiredSubscriptions`, the schedulers and everything else behind a
  commented-out `@Cron` have no caller.
- In modelled components: `editPublishedPost` (texts only), approvals (see
  above), plans' prices and periods, listing and paging.

Out of TLAPS' reach and left to TLC: the liveness properties of `PublishingLive`,
which need fairness and ENABLED.  Every safety property that a passing run checks
is also proved; `VerdictTrue`, `GoneNotSent` and `DeliveryContract` under the
conditions section 3 names, which their runs fulfil.
