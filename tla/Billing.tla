------------------------------- MODULE Billing -------------------------------
(***************************************************************************)
(* The subscription of one organization: payments taken by Paystack, the   *)
(* webhooks that report them, which the controller logs and queues, the    *)
(* worker that applies them, the payment check the front end calls, and    *)
(* the customer's cancellation.                                            *)
(*                                                                         *)
(* Each organization is taken to have a billing address of its own, so     *)
(* that one stands for all.  Each awaited call is a step, a $transaction   *)
(* is one.  Paystack is outside this        *)
(* repository: it takes payments, reports each event at least once and in  *)
(* any order, and names a subscription by the payment that began it.       *)
(* Plans, amounts, periods and mails are left out.                         *)
(***************************************************************************)
EXTENDS BullQueue

CONSTANTS Refs,        \* references of payments, and codes of subscriptions
          NoRef,       \* none of them
          Logs,        \* rows of WebhookLog, each with its job
          NoEvent,     \* event of a row that is not there
          Verifiers,   \* concurrent calls of verifyPayment
          Cancellers,  \* concurrent calls of cancelSubscription
          Reported,    \* the kinds of events Paystack is set up to report
          Faults       \* what may go wrong

ASSUME BillingAssumption ==
    /\ NoRef \notin Refs
    /\ NoEvent \notin [kind : {"charge", "create", "disable"}, of : Refs]
    /\ Reported \subseteq {"charge", "create", "disable"}
    /\ Faults \subseteq {"crash", "stall", "db", "cancel"}

VARIABLES
    charge,       \* a payment, as Paystack has it
    anonymous,    \* payments whose events name no organization or plan of ours
    live,         \* subscriptions Paystack goes on charging
    sent,         \* events Paystack reports
    status,       \* Subscription.status, "none" without a row
    billingEmail, \* is Organization.billingEmail set
    saved,        \* Subscription.paystackSubscriptionCode
    txn,          \* Transaction.status of each reference, "none" without a row
    event, log,   \* WebhookLog: the event and the status
    adding,       \* rows whose request has not added the job yet
    job,          \* the jobs
    wpc, wlog,    \* where each worker stands in process(), and for which row
    vpc, vref,    \* where each verifyPayment stands, and for which payment
    cpc, ccode,   \* where each cancelSubscription stands, and the code it read
    applied,      \* history: how often a payment has activated the subscription
    dropped,      \* history: rows whose request died before it added the job
    crossed       \* history: paid for while a subscription was live or being cancelled

provider == <<charge, anonymous, live, sent>>
database == <<status, billingEmail, saved, txn>>
webhooks == <<event, log, adding>>
workers  == <<wpc, wlog>>
requests == <<vpc, vref, cpc, ccode>>
history  == <<applied, dropped, crossed>>
vars == <<provider, database, webhooks, job, workers, requests, history>>

Event == [kind : {"charge", "create", "disable"}, of : Refs]

TypeOK ==
    /\ charge \in [Refs -> {"none", "open", "paid"}]
    /\ anonymous \subseteq Refs /\ live \subseteq Refs
    /\ sent \subseteq Event
    /\ status \in {"none", "incomplete", "active", "past_due", "cancelled"}
    /\ billingEmail \in BOOLEAN
    /\ saved \in Refs \cup {NoRef}
    /\ txn \in [Refs -> {"none", "failed", "successful"}]
    /\ event \in [Logs -> Event \cup {NoEvent}]
    /\ log \in [Logs -> {"NONE", "PENDING", "FAILED", "PROCESSED"}]
    /\ adding \subseteq Logs
    /\ job \in [Logs -> Job]
    /\ \A l \in Logs : job[l].state # "failed" => job[l].tries < MaxAttempts
    /\ wpc \in [Workers -> {"idle", "check", "apply", "mark", "fail", "done", "throw"}]
    /\ wlog \in [Workers -> Logs \cup {NoEvent}]
    /\ vpc \in [Verifiers -> {"idle", "record"}]
    /\ vref \in [Verifiers -> Refs \cup {NoRef}]
    /\ cpc \in [Cancellers -> {"idle", "call", "write"}]
    /\ ccode \in [Cancellers -> Refs \cup {NoRef}]
    /\ applied \in [Refs -> Nat]
    /\ dropped \subseteq Logs
    /\ crossed \in BOOLEAN

(* userOnboarding creates the row and sets the billing address,            *)
(* createOrganization does neither.                                        *)
Init ==
    /\ charge = [r \in Refs |-> "none"]
    /\ anonymous = {} /\ live = {} /\ sent = {}
    /\ \/ status = "incomplete" /\ billingEmail = TRUE
       \/ status = "none" /\ billingEmail = FALSE
    /\ saved = NoRef
    /\ txn = [r \in Refs |-> "none"]
    /\ event = [l \in Logs |-> NoEvent]
    /\ log = [l \in Logs |-> "NONE"]
    /\ adding = {}
    /\ job = [l \in Logs |-> NoJob]
    /\ wpc = [w \in Workers |-> "idle"]
    /\ wlog = [w \in Workers |-> NoEvent]
    /\ vpc = [v \in Verifiers |-> "idle"]
    /\ vref = [v \in Verifiers |-> NoRef]
    /\ cpc = [h \in Cancellers |-> "idle"]
    /\ ccode = [h \in Cancellers |-> NoRef]
    /\ applied = [r \in Refs |-> 0]
    /\ dropped = {}
    /\ crossed = FALSE

-----------------------------------------------------------------------------
(* Paystack and its customer. *)

Reports(kinds, r) == sent' = sent \cup [kind : kinds \cap Reported, of : {r}]

(* initializePayment opens a payment under a new reference. *)
Checkout(r) ==
    /\ charge[r] = "none"
    /\ charge' = [charge EXCEPT ![r] = "open"]
    /\ UNCHANGED <<anonymous, live, sent, database, webhooks, job, workers,
                   requests, history>>

(* A payment is taken, and may have lost what initializePayment gave it:   *)
(* its organization, or a plan the code knows.                             *)
Taking(r) ==
    /\ charge' = [charge EXCEPT ![r] = "paid"]
    /\ anonymous' \in {anonymous, anonymous \cup {r}}

(* The customer pays, however long after, and a subscription begins. *)
Pay(r) ==
    /\ charge[r] = "open"
    /\ Taking(r)
    /\ live' = live \cup {r}
    /\ Reports({"charge", "create"}, r)
    /\ crossed' = (crossed \/ live # {} \/ \E h \in Cancellers : cpc[h] # "idle")
    /\ UNCHANGED <<database, webhooks, job, workers, requests, applied, dropped>>

(* The next period of a live subscription is charged. *)
Renew(r) ==
    /\ charge[r] = "none" /\ live # {}
    /\ Taking(r)
    /\ Reports({"charge"}, r)
    /\ UNCHANGED <<live, database, webhooks, job, workers, requests, history>>

(* Paystack stops charging: the customer cancelled, or payments failed. *)
Stops(c) ==
    /\ live' = live \ {c}
    /\ Reports({"disable"}, c)
    /\ UNCHANGED <<charge, anonymous>>

Lapse(c) ==
    /\ c \in live
    /\ Stops(c)
    /\ UNCHANGED <<database, webhooks, job, workers, requests, history>>

-----------------------------------------------------------------------------
(* WebhookController.handlePaystack *)

(* The event is logged ... *)
Receive(l) ==
    /\ log[l] = "NONE"
    /\ \E e \in sent : event' = [event EXCEPT ![l] = e]
    /\ log' = [log EXCEPT ![l] = "PENDING"]
    /\ adding' = adding \cup {l}
    /\ UNCHANGED <<provider, database, job, workers, requests, history>>

(* ... and queued. *)
Add(l) ==
    /\ l \in adding
    /\ adding' = adding \ {l}
    /\ job' = [job EXCEPT ![l] = Added(@, NoSlot)]
    /\ UNCHANGED <<provider, database, event, log, workers, requests, history>>

(* The request dies in between; Paystack, unanswered, sends the event again. *)
ReceiveCrash(l) ==
    /\ "crash" \in Faults
    /\ l \in adding
    /\ adding' = adding \ {l}
    /\ dropped' = dropped \cup {l}
    /\ UNCHANGED <<provider, database, event, log, job, workers, requests,
                   applied, crossed>>

-----------------------------------------------------------------------------
(* WebhooksProcessor.process, processPaystack *)

Goto(w, point) ==
    /\ wpc' = [wpc EXCEPT ![w] = point]
    /\ UNCHANGED wlog

Leave(w) ==
    /\ wpc' = [wpc EXCEPT ![w] = "idle"]
    /\ wlog' = [wlog EXCEPT ![w] = NoEvent]

Handled(w) == event[wlog[w]]

Take(w) ==
    /\ wpc[w] = "idle"
    /\ \E l \in Logs :
        /\ job[l].state = "waiting"
        /\ job' = [job EXCEPT ![l] = Taken(@, w)]
        /\ wlog' = [wlog EXCEPT ![w] = l]
    /\ wpc' = [wpc EXCEPT ![w] = "check"]
    /\ UNCHANGED <<provider, database, webhooks, requests, history>>

(* Variant for the mutation runs: any other row counts, whatever its status. *)
DuplicateOfAny(l) ==
    /\ event[l].kind = "charge"
    /\ \E other \in Logs \ {l} : event[other] = event[l]

(* Another row of this reference is PROCESSED; only charges carry one.     *)
Duplicate(l) ==
    /\ event[l].kind = "charge"
    /\ \E other \in Logs \ {l} : event[other] = event[l] /\ log[other] = "PROCESSED"

(* A duplicate is left PENDING and its job completes. *)
Check(w) ==
    /\ wpc[w] = "check"
    /\ Goto(w, IF Duplicate(wlog[w]) THEN "done" ELSE "apply")
    /\ UNCHANGED <<provider, database, webhooks, job, requests, history>>

(* Variant for the mutation runs: the reference is not unique. *)
RecordedNever(r) == FALSE

(* Transaction.txRef is unique: a row of the reference, of whatever status *)
(* it is, makes the transaction that activates roll back.                  *)
Recorded(r) == txn[r] # "none"

(* activateSubscription looks for the organization and the plan, and       *)
(* returns without them: the row is PROCESSED all the same ...             *)
Ignore(w) ==
    /\ wpc[w] = "apply" /\ Handled(w).kind = "charge"
    /\ Handled(w).of \in anonymous
    /\ Goto(w, "mark")
    /\ UNCHANGED <<provider, database, webhooks, job, requests, history>>

(* ... or activates in one transaction.                                    *)
Activate(w) ==
    LET r == Handled(w).of
    IN  /\ wpc[w] = "apply" /\ Handled(w).kind = "charge"
        /\ r \notin anonymous /\ ~Recorded(r)
        /\ status' = "active"
        /\ txn' = [txn EXCEPT ![r] = "successful"]
        /\ applied' = [applied EXCEPT ![r] = @ + 1]
        /\ Goto(w, "mark")
        /\ UNCHANGED <<provider, billingEmail, saved, webhooks, job, requests,
                       dropped, crossed>>

(* saveSubscriptionDetails finds the organization by its billing address,  *)
(* which no later request sets: without one nothing is saved.              *)
SaveDetails(w) ==
    /\ wpc[w] = "apply" /\ Handled(w).kind = "create"
    /\ saved' = IF billingEmail THEN Handled(w).of ELSE saved
    /\ Goto(w, "mark")
    /\ UNCHANGED <<provider, status, billingEmail, txn, webhooks, job, requests,
                   history>>

(* markAsExpired *)
MarkAsExpired(w) ==
    /\ wpc[w] = "apply" /\ Handled(w).kind = "disable"
    /\ status' = IF saved = Handled(w).of THEN "past_due" ELSE status
    /\ Goto(w, "mark")
    /\ UNCHANGED <<provider, billingEmail, saved, txn, webhooks, job, requests,
                   history>>

(* The transaction throws on a reference that is not new. *)
Throws(w) ==
    /\ wpc[w] = "apply"
    /\ Handled(w).kind = "charge"
    /\ Handled(w).of \notin anonymous /\ Recorded(Handled(w).of)
    /\ Goto(w, "fail")
    /\ UNCHANGED <<provider, database, webhooks, job, requests, history>>

Processed(w) ==
    /\ wpc[w] = "mark"
    /\ log' = [log EXCEPT ![wlog[w]] = "PROCESSED"]
    /\ Goto(w, "done")
    /\ UNCHANGED <<provider, database, event, adding, job, requests, history>>

(* Variant for the mutation runs: the row is closed on the way out. *)
FailedClosed(w) ==
    /\ wpc[w] = "fail"
    /\ log' = [log EXCEPT ![wlog[w]] = "PROCESSED"]
    /\ Goto(w, "throw")
    /\ UNCHANGED <<provider, database, event, adding, job, requests, history>>

(* process() records the failure and throws it on for a retry. *)
Failed(w) ==
    /\ wpc[w] = "fail"
    /\ log' = [log EXCEPT ![wlog[w]] = "FAILED"]
    /\ Goto(w, "throw")
    /\ UNCHANGED <<provider, database, event, adding, job, requests, history>>

Finish(w) ==
    /\ wpc[w] = "done"
    /\ job' = [job EXCEPT ![wlog[w]] = Completed(@, w)]
    /\ Leave(w)
    /\ UNCHANGED <<provider, database, webhooks, requests, history>>

Throw(w) ==
    /\ wpc[w] = "throw"
    /\ job' = [job EXCEPT ![wlog[w]] = Thrown(@, w)]
    /\ Leave(w)
    /\ UNCHANGED <<provider, database, webhooks, requests, history>>

(* A statement fails; in process() itself the row stays as it is. *)
DbError(w) ==
    /\ "db" \in Faults
    /\ \/ wpc[w] \in {"check", "apply", "mark"} /\ Goto(w, "fail")
       \/ wpc[w] = "fail" /\ Goto(w, "throw")
    /\ UNCHANGED <<provider, database, webhooks, job, requests, history>>

WorkerCrash(w) ==
    /\ "crash" \in Faults
    /\ wpc[w] # "idle"
    /\ Leave(w)
    /\ UNCHANGED <<provider, database, webhooks, job, requests, history>>

Alive(l) == \E w \in Workers : job[l].owner = w /\ wlog[w] = l

LockExpires(l) ==
    /\ job[l].state = "active"
    /\ "stall" \in Faults \/ ~Alive(l)
    /\ job' = [job EXCEPT ![l] = Stalled(@)]
    /\ UNCHANGED <<provider, database, webhooks, workers, requests, history>>

-----------------------------------------------------------------------------
(* BillingService.verifyPayment *)

(* Paystack is asked about a payment, and calls one that is not taken      *)
(* failed, or abandoned.  Any other answer, and a payment on the books as  *)
(* successful, which is looked up before, changes nothing.                 *)
VerifyAbandoned(v) ==
    /\ vpc[v] = "idle"
    /\ \E r \in Refs :
        /\ charge[r] = "open" /\ txn[r] # "successful"
        /\ vref' = [vref EXCEPT ![v] = r]
    /\ vpc' = [vpc EXCEPT ![v] = "record"]
    /\ UNCHANGED <<provider, database, webhooks, job, workers, cpc, ccode, history>>

(* handleFailedPayment inserts a row, or breaks the unique reference. *)
VerifyRecord(v) ==
    /\ vpc[v] = "record"
    /\ txn' = IF Recorded(vref[v]) THEN txn ELSE [txn EXCEPT ![vref[v]] = "failed"]
    /\ vpc' = [vpc EXCEPT ![v] = "idle"]
    /\ vref' = [vref EXCEPT ![v] = NoRef]
    /\ UNCHANGED <<provider, status, billingEmail, saved, webhooks, job, workers,
                   cpc, ccode, history>>

-----------------------------------------------------------------------------
(* BillingService.cancelSubscription *)

CancelReturn(h) ==
    /\ cpc' = [cpc EXCEPT ![h] = "idle"]
    /\ ccode' = [ccode EXCEPT ![h] = NoRef]
    /\ UNCHANGED <<vpc, vref>>

CancelRead(h) ==
    /\ cpc[h] = "idle" /\ saved # NoRef
    /\ cpc' = [cpc EXCEPT ![h] = "call"]
    /\ ccode' = [ccode EXCEPT ![h] = saved]
    /\ UNCHANGED <<provider, database, webhooks, job, workers, vpc, vref, history>>

(* Paystack stops the subscription ... *)
CancelCall(h) ==
    /\ cpc[h] = "call" /\ ccode[h] \in live
    /\ Stops(ccode[h])
    /\ cpc' = [cpc EXCEPT ![h] = "write"]
    /\ UNCHANGED <<database, webhooks, job, workers, vpc, vref, ccode, history>>

(* ... and the answer may be lost, which is reported as a failure ... *)
CancelLost(h) ==
    /\ "cancel" \in Faults
    /\ cpc[h] = "call" /\ ccode[h] \in live
    /\ Stops(ccode[h])
    /\ CancelReturn(h)
    /\ UNCHANGED <<database, webhooks, job, workers, history>>

(* Variant for the mutation runs: the refusal is logged and passed over. *)
CancelRefusedLogged(h) ==
    /\ cpc[h] = "call"
    /\ cpc' = [cpc EXCEPT ![h] = "write"]
    /\ UNCHANGED <<provider, database, webhooks, job, workers, vpc, vref, ccode,
                   history>>

(* ... or it refuses. *)
CancelRefused(h) ==
    /\ cpc[h] = "call"
    /\ CancelReturn(h)
    /\ UNCHANGED <<provider, database, webhooks, job, workers, history>>

CancelWrite(h) ==
    /\ cpc[h] = "write"
    /\ status' = "cancelled"
    /\ CancelReturn(h)
    /\ UNCHANGED <<provider, billingEmail, saved, txn, webhooks, job, workers, history>>

(* The request dies, or its update fails. *)
CancelCrash(h) ==
    /\ "cancel" \in Faults
    /\ cpc[h] # "idle"
    /\ CancelReturn(h)
    /\ UNCHANGED <<provider, database, webhooks, job, workers, history>>

-----------------------------------------------------------------------------
Paystack ==
    \/ \E r \in Refs : Checkout(r) \/ Pay(r) \/ Renew(r) \/ Lapse(r)
    \/ \E l \in Logs : Receive(l) \/ Add(l) \/ ReceiveCrash(l) \/ LockExpires(l)

Process(w) ==
    \/ Take(w) \/ Check(w) \/ Ignore(w) \/ Activate(w) \/ SaveDetails(w)
    \/ MarkAsExpired(w) \/ Throws(w) \/ Processed(w) \/ Failed(w) \/ Finish(w) \/ Throw(w)
    \/ DbError(w) \/ WorkerCrash(w)

Verify(v) == VerifyAbandoned(v) \/ VerifyRecord(v)

Cancel(h) ==
    \/ CancelRead(h) \/ CancelCall(h) \/ CancelLost(h) \/ CancelRefused(h)
    \/ CancelWrite(h) \/ CancelCrash(h)

Next ==
    \/ Paystack
    \/ \E w \in Workers : Process(w)
    \/ \E v \in Verifiers : Verify(v)
    \/ \E h \in Cancellers : Cancel(h)

Spec == Init /\ [][Next]_vars

-----------------------------------------------------------------------------
(* Properties *)

(* Webhooks come twice, jobs run twice, and the check for a duplicate      *)
(* reads a status that is written later.  A payment activates the          *)
(* subscription once, and then it is on the books as successful.           *)
ChargedOnce ==
    \A r \in Refs : applied[r] = IF txn[r] = "successful" THEN 1 ELSE 0

(* reports a payment that names its organization and a plan *)
Charges(l) ==
    event[l] # NoEvent /\ event[l].kind = "charge" /\ event[l].of \notin anonymous

(* processPaystack marks a row last.  A payment logged as PROCESSED has    *)
(* been applied, whichever run of whichever row has marked it.             *)
ProcessedApplied ==
    \A l \in Logs : Charges(l) /\ log[l] = "PROCESSED" =>
        txn[event[l].of] = "successful"

(* nobody is going to look at this row again *)
AtRest(l) == l \notin adding /\ job[l].state \in {"absent", "failed"}

(* its request died, its last run lost the lock, or the database is down *)
CutOff(l) ==
    \/ l \in dropped
    \/ job[l].state = "failed" /\ (job[l].tries < MaxAttempts \/ "db" \in Faults)

(* A row put aside, as a duplicate or after its last attempt, leaves its   *)
(* payment on the books, unless it was cut off.                            *)
ChargeNotLost ==
    \A l \in Logs : Charges(l) /\ AtRest(l) =>
        txn[event[l].of] # "none" \/ CutOff(l)

(* cancelSubscription acts on a code it read before the call, and writes   *)
(* the status whatever has come in since.  A customer shown as cancelled   *)
(* is not charged for a subscription that was active, unless one was paid  *)
(* for while another was live or being cancelled.                          *)
CancelStopsBilling ==
    status = "cancelled" /\ ~crossed => \A c \in live : txn[c] # "successful"

(* processPaystack: "RENEWAL or NEW SIGNUP: This is the most important     *)
(* one."  Once all is done for a payment taken, it has been applied.       *)
PaymentHonored ==
    \A l \in Logs : Charges(l) /\ AtRest(l) =>
        txn[event[l].of] = "successful" \/ CutOff(l)
==============================================================================
