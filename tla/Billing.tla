------------------------------ MODULE Billing ------------------------------
(***************************************************************************)
(* Invoices, payments and the plan of one organization in                  *)
(* internal/billing: checkout, the gateway's callbacks, the settlement     *)
(* transaction, the administrator's operations and the background jobs.    *)
(*                                                                         *)
(* The settlement locks the invoice row and nothing else.  Every other     *)
(* writer reads the invoice, decides, and later writes its whole header    *)
(* back.  A handler's copy is kept in proc[p].                             *)
(***************************************************************************)
EXTENDS Naturals, FiniteSets

CONSTANTS
    Invoices,
    NoInvoice,
    Requests,   \* handlers and worker tasks in flight
    NoRequest,
    MaxRank,    \* paid plans are 1..MaxRank by planRank, 0 is free
    MaxTime,    \* bound: the clock, in billing intervals
    MaxNumber   \* bound: invoice numbers

ASSUME BillingAssumption ==
    /\ NoInvoice \notin Invoices
    /\ NoRequest \notin Requests
    /\ IsFiniteSet(Invoices)
    /\ MaxRank \in Nat
    /\ MaxTime \in Nat
    /\ MaxNumber \in Nat

VARIABLES
    now,
    org,         \* plan and plan_expires_at of the organization
    plan,        \* the plan an invoice's line item buys, 0 for a custom invoice
    inv,         \* the header of each invoice: status and number
    pay,         \* status of the gateway payment of each invoice
    manual,      \* invoices with a manual payment recorded
    captured,    \* gateway: invoices whose payment it has confirmed
    lock,        \* the transaction holding the row lock of an invoice
    jobs,        \* receipt jobs put in the queue, which may run each again and again
    proc,
    activations, \* history: settlements that applied the invoice's plan
    start        \* history: the expiry the organization began with

moneyVars == <<pay, manual, captured>>
historyVars == <<activations, start>>
vars == <<now, org, plan, inv, pay, manual, captured, lock, jobs, proc,
          activations, start>>

-----------------------------------------------------------------------------

Plans == 0..MaxRank

\* The clock, and every interval that may have been bought on top of it.
Times == Nat

Payable == {"draft", "pending"}
Statuses == {"none", "paid", "canceled", "expired", "refunded"} \cup Payable

Header == [status : Statuses, number : 0..MaxNumber]
Org == [plan : Plans, expiry : Times]

Stages == {"idle", "number", "create", "request", "payment", "verify", "fail",
           "succeed", "manual", "lock", "commit", "post", "save", "flip"}

Handler == [at : Stages, inv : Invoices \cup {NoInvoice}, buy : Plans, copy : Header,
            org : Org, verdict : {"failed", "canceled"}]

Blank == [status |-> "none", number |-> 0]

Idle == [at |-> "idle", inv |-> NoInvoice, buy |-> 0, copy |-> Blank,
         org |-> [plan |-> 0, expiry |-> 0], verdict |-> "failed"]

TypeOK ==
    /\ now \in 0..MaxTime
    /\ org \in Org
    /\ plan \in [Invoices -> Plans]
    /\ inv \in [Invoices -> Header]
    /\ pay \in [Invoices -> {"none", "pending", "succeeded", "failed", "canceled"}]
    /\ manual \subseteq Invoices
    /\ captured \subseteq Invoices
    /\ lock \in [Invoices -> Requests \cup {NoRequest}]
    /\ jobs \subseteq Invoices
    /\ proc \in [Requests -> Handler]
    /\ activations \in [Invoices -> Nat]
    /\ start \in Times

Init ==
    /\ now = 0
    /\ org \in {[plan |-> 0, expiry |-> 0]} \cup [plan : 1..MaxRank, expiry : 0..1]
    /\ plan = [i \in Invoices |-> 0]
    /\ inv = [i \in Invoices |-> Blank]
    /\ pay = [i \in Invoices |-> "none"]
    /\ manual = {}
    /\ captured = {}
    /\ lock = [i \in Invoices |-> NoRequest]
    /\ jobs = {}
    /\ proc = [p \in Requests |-> Idle]
    /\ activations = [i \in Invoices |-> 0]
    /\ start = org.expiry

-----------------------------------------------------------------------------
(* Plans *)

\* EffectiveEntitlements: an expired plan counts as free.
Effective(o) == IF now > o.expiry THEN 0 ELSE o.plan

\* NextPlanState refuses a downgrade while a paid plan is active, ...
Allowed(o, buy) == buy >= Effective(o)

\* ... extends the same plan from its expiry, and any other from now.
NextPlanState(o, buy) ==
    [plan |-> buy,
     expiry |-> (IF buy = Effective(o) /\ buy # 0 /\ o.expiry > now
                 THEN o.expiry ELSE now) + 1]

-----------------------------------------------------------------------------
(* Helpers *)

Begin(p, stage, i) ==
    /\ proc[p] = Idle
    /\ proc' = [proc EXCEPT ![p].at = stage, ![p].inv = i, ![p].copy = inv[i]]

At(p, stage)     == proc[p].at = stage
MoveTo(p, stage) == proc' = [proc EXCEPT ![p].at = stage]
Finish(p)        == proc' = [proc EXCEPT ![p] = Idle]

\* An UPDATE of a row waits for the transaction that locked it.
Unlocked(i) == lock[i] = NoRequest

Numbers == {inv[i].number : i \in Invoices}
NextSequence == 1 + CHOOSE n \in Numbers \cup {0} : \A m \in Numbers : m <= n

-----------------------------------------------------------------------------
(* Checkout *)

Checkout(p, i, buy) ==
    /\ inv[i] = Blank
    /\ \A q \in Requests : proc[q].inv # i
    /\ buy # 0
    /\ Allowed(org, buy)
    /\ proc[p] = Idle
    /\ proc' = [proc EXCEPT ![p].at = "number", ![p].inv = i, ![p].buy = buy]
    /\ UNCHANGED <<now, org, plan, inv, moneyVars, lock, jobs, historyVars>>

\* NextInvoiceSequence is a query of its own, for Checkout and IssueInvoice.
AssignNumber(p) ==
    /\ At(p, "number")
    /\ NextSequence \in 1..MaxNumber
    /\ proc' = [proc EXCEPT
            ![p].at = IF proc[p].copy.status = "draft" THEN "save" ELSE "create",
            ![p].copy = [status |-> "pending", number |-> NextSequence]]
    /\ UNCHANGED <<now, org, plan, inv, moneyVars, lock, jobs, historyVars>>

\* The unique index on the number refuses the second of two equal ones.
CreateInvoice(p) ==
    /\ At(p, "create")
    /\ LET i == proc[p].inv IN
       \/ /\ proc[p].copy.number \notin Numbers
          /\ inv' = [inv EXCEPT ![i] = proc[p].copy]
          /\ plan' = [plan EXCEPT ![i] = proc[p].buy]
          /\ MoveTo(p, "request")
       \/ /\ proc[p].copy.number \in Numbers
          /\ UNCHANGED <<inv, plan>>
          /\ Finish(p)
    /\ UNCHANGED <<now, org, moneyVars, lock, jobs, historyVars>>

\* The gateway opens an attempt, or the pending invoice is left without one.
RequestPayment(p) ==
    /\ At(p, "request")
    /\ MoveTo(p, "payment") \/ Finish(p)
    /\ UNCHANGED <<now, org, plan, inv, moneyVars, lock, jobs, historyVars>>

CreatePayment(p) ==
    /\ At(p, "payment")
    /\ pay' = [pay EXCEPT ![proc[p].inv] = "pending"]
    /\ Finish(p)
    /\ UNCHANGED <<now, org, plan, inv, manual, captured, lock, jobs, historyVars>>

-----------------------------------------------------------------------------
(* HandleCallback *)

\* The browser comes back with OK or NOK, as often as its user likes.
HandleCallback(p, i) ==
    /\ pay[i] # "none"
    /\ \/ Begin(p, "verify", i)
       \/ /\ proc[p] = Idle
          /\ proc' = [proc EXCEPT ![p].at = "fail", ![p].inv = i, ![p].verdict = "canceled"]
    /\ UNCHANGED <<now, org, plan, inv, moneyVars, lock, jobs, historyVars>>

\* variant: an OK in the redirect is taken for a payment
TrustRedirect(p) ==
    /\ At(p, "verify")
    /\ captured' = captured
    /\ MoveTo(p, "succeed")
    /\ UNCHANGED <<now, org, plan, inv, pay, manual, lock, jobs, historyVars>>

\* Verify confirms the money of a payer who has paid by now, refuses one who
\* has not, which a confirmed one never is again, or does not answer.
Verify(p) ==
    /\ At(p, "verify")
    /\ LET i == proc[p].inv IN
       \/ captured' = captured \cup {i} /\ MoveTo(p, "succeed")
       \/ i \notin captured /\ captured' = captured /\ MoveTo(p, "fail")
       \/ captured' = captured /\ Finish(p)
    /\ UNCHANGED <<now, org, plan, inv, pay, manual, lock, jobs, historyVars>>

\* variant: the redirect's word is stored in place of a payment status
StoreRedirectStatus(p) ==
    /\ At(p, "fail")
    /\ pay' = [pay EXCEPT ![proc[p].inv] = IF proc[p].verdict = "canceled" THEN "NOK" ELSE "OK"]
    /\ Finish(p)
    /\ UNCHANGED <<now, org, plan, inv, manual, captured, lock, jobs, historyVars>>

\* failPayment writes the attempt it read, whatever it has become since.
FailPayment(p) ==
    /\ At(p, "fail")
    /\ pay' = [pay EXCEPT ![proc[p].inv] = proc[p].verdict]
    /\ Finish(p)
    /\ UNCHANGED <<now, org, plan, inv, manual, captured, lock, jobs, historyVars>>

Succeed(p) ==
    /\ At(p, "succeed")
    /\ pay' = [pay EXCEPT ![proc[p].inv] = "succeeded"]
    /\ MoveTo(p, "lock")
    /\ UNCHANGED <<now, org, plan, inv, manual, captured, lock, jobs, historyVars>>

-----------------------------------------------------------------------------
(* markPaidAndActivate *)

\* variant: the status is read without the row lock
ReadWithoutLock(p) ==
    /\ At(p, "lock")
    /\ LET i == proc[p].inv IN
       /\ inv[i].status \in Payable
       /\ Allowed(org, plan[i])
       /\ proc' = [proc EXCEPT ![p].at = "commit", ![p].copy = inv[i],
                      ![p].org = IF plan[i] = 0 THEN org ELSE NextPlanState(org, plan[i])]
    /\ UNCHANGED <<now, org, plan, inv, moneyVars, lock, jobs, historyVars>>

\* SELECT ... FOR UPDATE of the invoice, and a plain read of the organization.
\* A paid invoice is a no-op; one that is not payable, or a downgrade, an error.
LockInvoice(p) ==
    /\ At(p, "lock")
    /\ LET i == proc[p].inv
           open == inv[i].status \in Payable /\ (plan[i] # 0 => Allowed(org, plan[i])) IN
       /\ Unlocked(i)
       /\ \/ /\ open
             /\ lock' = [lock EXCEPT ![i] = p]
             /\ proc' = [proc EXCEPT ![p].at = "commit", ![p].copy = inv[i],
                            ![p].org = IF plan[i] = 0 THEN org ELSE NextPlanState(org, plan[i])]
          \/ ~open /\ Finish(p) /\ UNCHANGED lock
    /\ UNCHANGED <<now, org, plan, inv, moneyVars, jobs, historyVars>>

\* UpdatePlan and UpdateInvoice take effect together when the transaction commits.
Commit(p) ==
    /\ At(p, "commit")
    /\ LET i == proc[p].inv IN
       /\ inv' = [inv EXCEPT ![i] = [proc[p].copy EXCEPT !.status = "paid"]]
       /\ lock' = [lock EXCEPT ![i] = NoRequest]
       /\ IF plan[i] # 0
          THEN org' = proc[p].org /\ activations' = [activations EXCEPT ![i] = @ + 1]
          ELSE UNCHANGED <<org, activations>>
    /\ MoveTo(p, "post")
    /\ UNCHANGED <<now, plan, moneyVars, jobs, start>>

\* After the commit: the receipt job, which may fail to be queued.
PostCommit(p) ==
    /\ At(p, "post")
    /\ jobs' \in {jobs, jobs \cup {proc[p].inv}}
    /\ Finish(p)
    /\ UNCHANGED <<now, org, plan, inv, moneyVars, lock, historyVars>>

-----------------------------------------------------------------------------
(* The administrator and the worker *)

\* CreateInvoice of the admin service: a draft without a plan line.
CreateDraft(i) ==
    /\ inv[i] = Blank
    /\ \A q \in Requests : proc[q].inv # i
    /\ inv' = [inv EXCEPT ![i].status = "draft"]
    /\ UNCHANGED <<now, org, plan, moneyVars, lock, jobs, proc, historyVars>>

\* variant: a pending invoice may be issued again
IssueAgain(p, i) ==
    /\ inv[i].status \in Payable
    /\ proc[p] = Idle
    /\ proc' = [proc EXCEPT ![p].at = "number", ![p].inv = i,
                            ![p].copy = [inv[i] EXCEPT !.status = "draft"]]
    /\ UNCHANGED <<now, org, plan, inv, moneyVars, lock, jobs, historyVars>>

IssueInvoice(p, i) ==
    /\ inv[i].status = "draft"
    /\ Begin(p, "number", i)
    /\ UNCHANGED <<now, org, plan, inv, moneyVars, lock, jobs, historyVars>>

\* The handlers that change the status of the copy they have read.
Rewrite(p, i, from, to) ==
    /\ inv[i].status \in from
    /\ proc[p] = Idle
    /\ proc' = [proc EXCEPT ![p].at = "save", ![p].inv = i,
                            ![p].copy = [inv[i] EXCEPT !.status = to]]

\* variant: the administrator's payment is saved like any other change of status
MarkPaidBySaving(p, i) ==
    /\ Rewrite(p, i, Payable, "paid")
    /\ UNCHANGED <<now, org, plan, inv, moneyVars, lock, jobs, historyVars>>

MarkPaid(p, i) ==
    /\ inv[i].status \in Payable
    /\ Begin(p, "manual", i)
    /\ UNCHANGED <<now, org, plan, inv, moneyVars, lock, jobs, historyVars>>

CreateManualPayment(p) ==
    /\ At(p, "manual")
    /\ manual' = manual \cup {proc[p].inv}
    /\ MoveTo(p, "lock")
    /\ UNCHANGED <<now, org, plan, inv, pay, captured, lock, jobs, historyVars>>

CancelInvoice(p, i) ==
    /\ Rewrite(p, i, {"draft", "pending", "canceled", "expired"}, "canceled")
    /\ UNCHANGED <<now, org, plan, inv, moneyVars, lock, jobs, historyVars>>

RefundInvoice(p, i) ==
    /\ Rewrite(p, i, {"paid"}, "refunded")
    /\ UNCHANGED <<now, org, plan, inv, moneyVars, lock, jobs, historyVars>>

\* GeneratePDF renders a paid invoice and saves its header to keep the key.
GeneratePDF(p, i) ==
    /\ i \in jobs
    /\ Rewrite(p, i, {"paid"}, "paid")
    /\ UNCHANGED <<now, org, plan, inv, moneyVars, lock, jobs, historyVars>>

\* UpdateInvoice writes every column of the header.
SaveHeader(p) ==
    /\ At(p, "save")
    /\ LET i == proc[p].inv
           taken == {inv[j].number : j \in Invoices \ {i}} IN
       /\ Unlocked(i)
       /\ IF proc[p].copy.number \in taken \ {0} THEN inv' = inv
          ELSE inv' = [inv EXCEPT ![i] = proc[p].copy]
    /\ Finish(p)
    /\ UNCHANGED <<now, org, plan, moneyVars, lock, jobs, historyVars>>

\* ExpirePendingInvoices finds the pending invoices past their deadline, ...
ExpireFind(p, i) ==
    /\ inv[i].status = "pending"
    /\ Begin(p, "flip", i)
    /\ UNCHANGED <<now, org, plan, inv, moneyVars, lock, jobs, historyVars>>

\* ... and expires them by their IDs, whatever their status is by then.
ExpireFlip(p) ==
    /\ At(p, "flip")
    /\ Unlocked(proc[p].inv)
    /\ inv' = [inv EXCEPT ![proc[p].inv].status = "expired"]
    /\ Finish(p)
    /\ UNCHANGED <<now, org, plan, moneyVars, lock, jobs, historyVars>>

-----------------------------------------------------------------------------
(* Time, and processes that die *)

Tick ==
    /\ now < MaxTime
    /\ now' = now + 1
    /\ UNCHANGED <<org, plan, inv, moneyVars, lock, jobs, proc, historyVars>>

\* The transaction of a process that dies is rolled back and its lock released.
Crash(p) ==
    /\ proc[p] # Idle
    /\ Finish(p)
    /\ lock' = [i \in Invoices |-> IF lock[i] = p THEN NoRequest ELSE lock[i]]
    /\ UNCHANGED <<now, org, plan, inv, moneyVars, jobs, historyVars>>

-----------------------------------------------------------------------------

Continue(p) ==
    \/ AssignNumber(p) \/ CreateInvoice(p) \/ RequestPayment(p) \/ CreatePayment(p)
    \/ Verify(p) \/ FailPayment(p) \/ Succeed(p)
    \/ LockInvoice(p) \/ Commit(p) \/ PostCommit(p)
    \/ CreateManualPayment(p) \/ SaveHeader(p) \/ ExpireFlip(p) \/ Crash(p)

Next ==
    \/ \E p \in Requests : Continue(p)
    \/ \E p \in Requests, i \in Invoices :
        \/ \E buy \in Plans : Checkout(p, i, buy)
        \/ HandleCallback(p, i) \/ IssueInvoice(p, i) \/ MarkPaid(p, i)
        \/ CancelInvoice(p, i) \/ RefundInvoice(p, i) \/ GeneratePDF(p, i)
        \/ ExpireFind(p, i)
    \/ \E i \in Invoices : CreateDraft(i)
    \/ Tick

Spec == Init /\ [][Next]_vars

-----------------------------------------------------------------------------
(* Properties *)

\* "A duplicate callback cannot double-extend": however many callbacks, manual
\* payments and stale writes race, an invoice applies its plan at most once.
ActivatedOnce == \A i \in Invoices : activations[i] <= 1

\* Whoever is told that an invoice of a plan is paid has the plan: a process that
\* dies in the settlement, and every stale header saved around it, leave the
\* status and what it stands for in agreement.
PaidMeansGranted ==
    \A i \in Invoices :
        plan[i] # 0 /\ inv[i].status \in {"paid", "refunded"} => activations[i] # 0

\* The invoices somebody has paid for, by the gateway's word or an admin's.
Funded == {i \in Invoices : plan[i] # 0 /\ i \in captured \cup manual}

\* The organization never gets more time than was paid for: not from a forged
\* or repeated redirect, not from two settlements that read the same plan.
NeverOverGranted ==
    org.expiry <= (IF start > now THEN start ELSE now) + Cardinality(Funded)

\* An invoice from a checkout that was once settled, canceled or expired never
\* becomes payable again, though every writer saves a header it read earlier.
PlanInvoiceClosesOnce ==
    [][\A i \in Invoices : plan[i] # 0 /\ inv[i].status \notin Payable \cup {"none"}
            => inv'[i].status \notin Payable]_vars

\* What an invoice of a plan is to the one who sells it.
Phase == [i \in Invoices |->
    IF plan[i] = 0 THEN "none"
    ELSE IF inv[i].status \in Payable THEN "open"
    ELSE IF inv[i].status = "paid" THEN "paid" ELSE "closed"]

Purchases == INSTANCE PlanPurchases
    WITH Tiers <- 1..MaxRank, tier <- org.plan, buys <- plan, phase <- Phase, paid <- captured \cup manual,
         settled <- {i \in Invoices : activations[i] # 0}

\* The handlers keep the promise of PlanPurchases: the organization's plan changes only
\* when an open invoice whose money somebody saw is settled, once, and to the plan that
\* the invoice buys, whichever stale headers are saved before and after.
ImplementsPurchases == Purchases!Spec

\* "Same tier & still active -> extend from current expiry ... lower tier while
\* active -> ErrDowngradeNotAllowed": what is settled improves the plan.
PurchaseImproves ==
    [][\A i \in Invoices : activations'[i] > activations[i] =>
        \/ org'.plan > Effective(org)
        \/ org'.plan = Effective(org) /\ org'.expiry > org.expiry]_vars
=============================================================================
