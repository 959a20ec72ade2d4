--------------------------- MODULE BillingProofs ---------------------------
(***************************************************************************)
(* Proofs about Billing for any handlers, plans and bounds and any finite  *)
(* set of invoices: an invoice applies its plan at most once and says      *)
(* "paid" of a plan only after that, a plan invoice that is closed stays   *)
(* closed, and nobody gets unpaid time.  The row lock keeps a payable      *)
(* invoice payable from the locking read to the commit, and what the other *)
(* writers hold in their stale copies of a plan invoice is never payable.  *)
(***************************************************************************)
EXTENDS Billing, FiniteSetTheorems, TLAPS

-----------------------------------------------------------------------------
(* The inductive invariant *)

\* Only an invoice that was created buys a plan, and a draft never does.
DraftsBuyNothing ==
    \A i \in Invoices : inv[i].status \in {"none", "draft"} => plan[i] = 0

\* An invoice that has applied its plan is a plan invoice and is closed.
ActivatedIsClosed ==
    \A i \in Invoices : activations[i] # 0 =>
        /\ activations[i] = 1
        /\ plan[i] # 0
        /\ inv[i].status \notin Payable \cup {"none"}

\* A Checkout whose invoice is not in yet.
Creating(p) == At(p, "create") \/ (At(p, "number") /\ proc[p].copy.status = "none")

\* The invoice of a Checkout is nobody else's to create.
CreatorsAlone ==
    /\ \A p \in Requests : Creating(p) =>
        inv[proc[p].inv].status = "none" /\ proc[p].buy # 0
    /\ \A p, q \in Requests :
        Creating(p) /\ Creating(q) /\ proc[p].inv = proc[q].inv => p = q

\* A copy that will be saved is of an invoice that exists, and it does not make
\* a plan invoice payable.
Knows(p) ==
    /\ At(p, "idle") => proc[p] = Idle
    /\ ~At(p, "idle") => proc[p].inv \in Invoices
    /\ At(p, "number") => proc[p].copy.status \in {"none", "draft"}
    /\ At(p, "number") /\ proc[p].copy.status = "draft" =>
          inv[proc[p].inv].status # "none" /\ plan[proc[p].inv] = 0
    /\ At(p, "create") => proc[p].copy.status = "pending"
    /\ At(p, "save") =>
          /\ inv[proc[p].inv].status # "none"
          /\ proc[p].copy.status \notin {"none", "draft"}
          /\ plan[proc[p].inv] # 0 => proc[p].copy.status # "pending"
    /\ At(p, "flip") => inv[proc[p].inv].status # "none"

CopiesKeepClosed == \A p \in Requests : Knows(p)

\* From the locking read to the commit the invoice is locked and payable.
LockedIsPayable ==
    \A p \in Requests : At(p, "commit") =>
        lock[proc[p].inv] = p /\ inv[proc[p].inv].status \in Payable

IndInv ==
    /\ TypeOK
    /\ DraftsBuyNothing
    /\ ActivatedIsClosed
    /\ CreatorsAlone
    /\ CopiesKeepClosed
    /\ LockedIsPayable

-----------------------------------------------------------------------------
(* The initial state *)

LEMMA IdleType == Idle \in Handler
BY BillingAssumption DEF Idle, Handler, Stages, Plans, Header, Statuses, Payable, Blank, Org, Times

LEMMA IndInit == Init => IndInv
<1> SUFFICES ASSUME Init PROVE IndInv
  OBVIOUS
<1> USE BillingAssumption DEF Init
<1>1. org \in Org
  BY DEF Org, Plans, Times
<1>2. Blank \in Header
  BY DEF Blank, Header, Statuses
<1>3. TypeOK
  BY <1>1, <1>2, IdleType DEF TypeOK, Plans, Org, Times
<1>4. DraftsBuyNothing /\ ActivatedIsClosed
  BY DEF DraftsBuyNothing, ActivatedIsClosed
<1>5. CreatorsAlone /\ CopiesKeepClosed /\ LockedIsPayable
  BY DEF CreatorsAlone, CopiesKeepClosed, LockedIsPayable, Creating, At, Idle, Knows
<1> QED
  BY <1>3, <1>4, <1>5 DEF IndInv

LEMMA FinishType ==
    ASSUME TypeOK, NEW p \in Requests, Finish(p)
    PROVE  proc' \in [Requests -> Handler]
BY IdleType DEF TypeOK, Finish

LEMMA MoveToType ==
    ASSUME TypeOK, NEW p \in Requests, NEW s \in Stages, MoveTo(p, s)
    PROVE  proc' \in [Requests -> Handler]
BY DEF TypeOK, MoveTo, Handler

LEMMA CopyType ==
    ASSUME TypeOK, NEW p \in Requests, NEW s \in Stages, NEW i \in Invoices, NEW c \in Header
    PROVE  [proc EXCEPT ![p].at = s, ![p].inv = i, ![p].copy = c] \in [Requests -> Handler]
<1>1. proc \in [Requests -> Handler]
  BY DEF TypeOK
<1>2. [proc[p] EXCEPT !.at = s, !.inv = i, !.copy = c] \in Handler
  BY <1>1 DEF Handler
<1>3. [proc EXCEPT ![p] = [proc[p] EXCEPT !.at = s, !.inv = i, !.copy = c]]
        \in [Requests -> Handler]
  BY <1>1, <1>2
<1> QED
  BY <1>3

LEMMA BeginType ==
    ASSUME TypeOK, NEW p \in Requests, NEW s \in Stages, NEW i \in Invoices, Begin(p, s, i)
    PROVE  proc' \in [Requests -> Handler]
<1>1. inv[i] \in Header
  BY DEF TypeOK
<1> QED
  BY <1>1, CopyType DEF Begin

-----------------------------------------------------------------------------
(* The steps *)

\* A step of p that writes no invoice, plan or lock and creates nothing.
LEMMA Frame ==
    ASSUME IndInv, TypeOK', NEW p \in Requests,
           UNCHANGED <<plan, inv, lock, activations>>,
           \A q \in Requests \ {p} : proc'[q] = proc[q],
           Knows(p)',
           Creating(p)' => /\ Creating(p)
                           /\ proc'[p].inv = proc[p].inv
                           /\ proc'[p].buy = proc[p].buy,
           ~At(p, "commit")'
    PROVE  IndInv'
<1> USE DEF IndInv
<1>1. DraftsBuyNothing' /\ ActivatedIsClosed'
  BY DEF DraftsBuyNothing, ActivatedIsClosed
<1>2. \A q \in Requests \ {p} : /\ Creating(q)' = Creating(q)
                                 /\ Knows(q)' = Knows(q)
                                 /\ \A s : At(q, s)' = At(q, s)
  BY DEF Creating, Knows, At
<1>3. CreatorsAlone'
  BY <1>2 DEF CreatorsAlone
<1>4. CopiesKeepClosed'
  BY <1>2 DEF CopiesKeepClosed
<1>5. LockedIsPayable'
  BY <1>2 DEF LockedIsPayable
<1> QED
  BY <1>1, <1>3, <1>4, <1>5
\* The steps of a payment, and of a receipt.
LEMMA PaymentSteps ==
    ASSUME IndInv, NEW p \in Requests,
           \/ RequestPayment(p) \/ CreatePayment(p) \/ Verify(p) \/ FailPayment(p)
           \/ Succeed(p) \/ CreateManualPayment(p) \/ PostCommit(p)
    PROVE  IndInv'
<1> USE DEF IndInv
<1>1. /\ ~At(p, "idle")
      /\ UNCHANGED <<now, org, plan, inv, lock, activations, start>>
      /\ pay' \in [Invoices -> {"none", "pending", "succeeded", "failed", "canceled"}]
      /\ manual' \subseteq Invoices
      /\ captured' \subseteq Invoices
      /\ jobs' \subseteq Invoices
  <2>1. ~At(p, "idle") /\ proc[p].inv \in Invoices /\ proc[p].verdict \in {"failed", "canceled"}
    BY DEF RequestPayment, CreatePayment, Verify, FailPayment, Succeed, CreateManualPayment,
           PostCommit, At, CopiesKeepClosed, Knows, TypeOK, Handler
  <2> QED
    BY <2>1 DEF RequestPayment, CreatePayment, Verify, FailPayment, Succeed,
                CreateManualPayment, PostCommit, TypeOK, moneyVars, historyVars
<1>2. Finish(p) \/ MoveTo(p, "payment") \/ MoveTo(p, "succeed") \/ MoveTo(p, "fail") \/ MoveTo(p, "lock")
  BY DEF RequestPayment, CreatePayment, Verify, FailPayment, Succeed, CreateManualPayment, PostCommit
<1>3. proc' \in [Requests -> Handler]
  BY <1>2, FinishType, MoveToType DEF Stages
<1>4. TypeOK'
  BY <1>1, <1>3 DEF TypeOK
<1>5. /\ \A q \in Requests \ {p} : proc'[q] = proc[q]
      /\ \/ proc'[p] = Idle
         \/ proc'[p].at \in {"payment", "succeed", "fail", "lock"} /\ proc'[p].inv = proc[p].inv
  BY <1>2 DEF Finish, MoveTo, TypeOK, Handler
<1>6. Knows(p)' /\ ~Creating(p)' /\ ~At(p, "commit")'
  BY <1>1, <1>5 DEF CopiesKeepClosed, Knows, Creating, At, Idle
<1> QED
  BY <1>1, <1>4, <1>5, <1>6, Frame

\* The handlers that read an invoice and keep a copy of its header.
LEMMA ReadSteps ==
    ASSUME IndInv, NEW p \in Requests, NEW i \in Invoices,
           \/ HandleCallback(p, i) \/ IssueInvoice(p, i) \/ MarkPaid(p, i)
           \/ CancelInvoice(p, i) \/ RefundInvoice(p, i) \/ GeneratePDF(p, i)
           \/ ExpireFind(p, i)
    PROVE  IndInv'
<1> USE DEF IndInv
<1>1. /\ proc[p] = Idle
      /\ UNCHANGED <<now, org, plan, inv, pay, manual, captured, lock, jobs, activations, start>>
  BY DEF HandleCallback, IssueInvoice, MarkPaid, CancelInvoice, RefundInvoice, GeneratePDF,
         ExpireFind, Begin, Rewrite, moneyVars, historyVars
<1>2. /\ proc' \in [Requests -> Handler]
      /\ \A q \in Requests \ {p} : proc'[q] = proc[q]
      /\ proc'[p].inv = i
      /\ \/ proc'[p].at \in {"verify", "fail", "manual"}
         \/ /\ proc'[p].at = "number"
            /\ proc'[p].copy.status = "draft"
            /\ inv[i].status = "draft"
         \/ /\ proc'[p].at = "save"
            /\ proc'[p].copy.status \in {"canceled", "refunded", "paid"}
            /\ inv[i].status # "none"
         \/ /\ proc'[p].at = "flip"
            /\ inv[i].status # "none"
  <2>1. CASE \/ HandleCallback(p, i) /\ Begin(p, "verify", i)
             \/ IssueInvoice(p, i) \/ MarkPaid(p, i) \/ ExpireFind(p, i)
    <3>1. PICK s \in Stages :
             /\ Begin(p, s, i)
             /\ s \in {"verify", "manual"} \/ (s = "number" /\ inv[i].status = "draft")
                   \/ (s = "flip" /\ inv[i].status = "pending")
      BY <2>1 DEF IssueInvoice, MarkPaid, ExpireFind, Stages
    <3> QED
      BY <3>1, BeginType DEF Begin, TypeOK, Handler
  <2>2. CASE proc' = [proc EXCEPT ![p].at = "fail", ![p].inv = i, ![p].verdict = "canceled"]
    <3>1. proc \in [Requests -> Handler] /\ "fail" \in Stages
      BY DEF TypeOK, Stages
    <3>2. [proc[p] EXCEPT !.at = "fail", !.inv = i, !.verdict = "canceled"] \in Handler
      BY <3>1 DEF Handler
    <3> QED
      BY <2>2, <3>1, <3>2
  <2>3. CASE CancelInvoice(p, i) \/ RefundInvoice(p, i) \/ GeneratePDF(p, i)
    <3>1. PICK to \in {"canceled", "refunded", "paid"} :
             /\ inv[i].status # "none"
             /\ proc' = [proc EXCEPT ![p].at = "save", ![p].inv = i,
                                     ![p].copy = [inv[i] EXCEPT !.status = to]]
      BY <2>3 DEF CancelInvoice, RefundInvoice, GeneratePDF, Rewrite
    <3>2. [inv[i] EXCEPT !.status = to] \in Header
      BY DEF TypeOK, Header, Statuses
    <3>3. [inv[i] EXCEPT !.status = to].status = to
      BY DEF TypeOK, Header
    <3>4. proc \in [Requests -> Handler] /\ "save" \in Stages
      BY DEF TypeOK, Stages
    <3>5. proc' \in [Requests -> Handler]
      BY <3>1, <3>2, <3>4, CopyType
    <3>6. /\ \A q \in Requests \ {p} : proc'[q] = proc[q]
          /\ proc'[p].inv = i
          /\ proc'[p].at = "save"
          /\ proc'[p].copy = [inv[i] EXCEPT !.status = to]
      BY <3>1, <3>4 DEF Handler
    <3> QED
      BY <3>1, <3>3, <3>5, <3>6
  <2> QED
    BY <2>1, <2>2, <2>3 DEF HandleCallback
<1>3. TypeOK'
  BY <1>1, <1>2 DEF TypeOK
<1>4. Knows(p)' /\ ~Creating(p)' /\ ~At(p, "commit")'
  <2>1. plan' = plan /\ inv' = inv /\ proc'[p].inv \in Invoices
    BY <1>1, <1>2
  <2>2. inv[i].status = "draft" => plan[i] = 0
    BY DEF DraftsBuyNothing
  <2> QED
    BY <1>2, <2>1, <2>2 DEF Knows, Creating, At
<1> QED
  BY <1>1, <1>2, <1>3, <1>4, Frame
LEMMA CheckoutStep ==
    ASSUME IndInv, NEW p \in Requests, NEW i \in Invoices, NEW buy \in Plans, Checkout(p, i, buy)
    PROVE  IndInv'
<1> USE DEF IndInv
<1>1. /\ proc[p] = Idle
      /\ inv[i] = Blank
      /\ buy # 0
      /\ \A q \in Requests : proc[q].inv # i
      /\ UNCHANGED <<now, org, plan, inv, pay, manual, captured, lock, jobs, activations, start>>
      /\ proc' = [proc EXCEPT ![p].at = "number", ![p].inv = i, ![p].buy = buy]
  BY DEF Checkout, moneyVars, historyVars
<1>2. /\ proc \in [Requests -> Handler]
      /\ "number" \in Stages
  BY DEF TypeOK, Stages
<1>3. /\ proc' \in [Requests -> Handler]
      /\ \A q \in Requests \ {p} : proc'[q] = proc[q]
      /\ proc'[p].at = "number" /\ proc'[p].inv = i /\ proc'[p].buy = buy
      /\ proc'[p].copy = proc[p].copy
  BY <1>1, <1>2 DEF Handler
<1>4. TypeOK'
  BY <1>1, <1>3 DEF TypeOK
<1>5. proc'[p].copy.status = "none" /\ inv[i].status = "none"
  BY <1>1, <1>3 DEF Idle, Blank
<1>6. DraftsBuyNothing' /\ ActivatedIsClosed'
  BY <1>1 DEF DraftsBuyNothing, ActivatedIsClosed
<1>7. \A q \in Requests \ {p} : Creating(q)' = Creating(q) /\ Knows(q)' = Knows(q)
  BY <1>1, <1>3 DEF Creating, Knows, At
<1>8. CreatorsAlone'
  BY <1>1, <1>3, <1>5, <1>7 DEF CreatorsAlone
<1>9. CopiesKeepClosed'
  BY <1>3, <1>5, <1>7 DEF CopiesKeepClosed, Knows, At
<1>10. LockedIsPayable'
  BY <1>1, <1>3 DEF LockedIsPayable, At
<1> QED
  BY <1>4, <1>6, <1>8, <1>9, <1>10

LEMMA AssignNumberStep ==
    ASSUME IndInv, NEW p \in Requests, AssignNumber(p)
    PROVE  IndInv'
<1> USE DEF IndInv
<1>1. /\ proc[p].at = "number"
      /\ NextSequence \in 0..MaxNumber
      /\ UNCHANGED <<now, org, plan, inv, pay, manual, captured, lock, jobs, activations, start>>
  BY BillingAssumption DEF AssignNumber, At, moneyVars, historyVars
<1> DEFINE new == [status |-> "pending", number |-> NextSequence]
<1>2. new \in Header
  BY <1>1 DEF Header, Statuses, Payable
<1>3. PICK s \in {"save", "create"} :
        /\ s = "save" <=> proc[p].copy.status = "draft"
        /\ proc' = [proc EXCEPT ![p].at = s, ![p].copy = new]
  BY DEF AssignNumber
<1>4. proc \in [Requests -> Handler] /\ s \in Stages
  BY DEF TypeOK, Stages
<1>5. new.status = "pending"
  OBVIOUS
<1> HIDE DEF new
<1>6. /\ proc' \in [Requests -> Handler]
      /\ \A q \in Requests \ {p} : proc'[q] = proc[q]
      /\ proc'[p].at = s
      /\ proc'[p].copy = new
      /\ proc'[p].inv = proc[p].inv
      /\ proc'[p].buy = proc[p].buy
  BY <1>2, <1>3, <1>4 DEF Handler
<1>7. TypeOK'
  BY <1>1, <1>6 DEF TypeOK
<1>8. Knows(p)' /\ ~At(p, "commit")'
  BY <1>1, <1>3, <1>5, <1>6 DEF CopiesKeepClosed, Knows, At
<1>9. Creating(p)' => Creating(p)
  BY <1>1, <1>3, <1>6 DEF CopiesKeepClosed, Knows, Creating, At
<1> QED
  BY <1>1, <1>6, <1>7, <1>8, <1>9, Frame

\* A settlement takes the lock that nobody holds, or finds nothing to settle.
LEMMA LockInvoiceStep ==
    ASSUME IndInv, NEW p \in Requests, LockInvoice(p)
    PROVE  IndInv'
<1> USE DEF IndInv
<1> DEFINE i == proc[p].inv
<1>1. /\ proc[p].at = "lock"
      /\ i \in Invoices
      /\ lock[i] = NoRequest
      /\ UNCHANGED <<now, org, plan, inv, pay, manual, captured, jobs, activations, start>>
  BY DEF LockInvoice, At, Unlocked, CopiesKeepClosed, Knows, moneyVars, historyVars
<1>2. CASE Finish(p) /\ UNCHANGED lock
  <2>1. TypeOK'
    BY <1>1, <1>2, FinishType DEF TypeOK
  <2>2. (\A q \in Requests \ {p} : proc'[q] = proc[q]) /\ proc'[p] = Idle
    BY <1>2 DEF Finish, TypeOK
  <2>3. Knows(p)' /\ ~Creating(p)' /\ ~At(p, "commit")'
    BY <2>2 DEF Knows, Creating, At, Idle
  <2> QED
    BY <1>1, <1>2, <2>1, <2>2, <2>3, Frame
<1>3. CASE /\ inv[i].status \in Payable
           /\ lock' = [lock EXCEPT ![i] = p]
           /\ proc' = [proc EXCEPT ![p].at = "commit", ![p].copy = inv[i],
                          ![p].org = IF plan[i] = 0 THEN org ELSE NextPlanState(org, plan[i])]
  <2>1. PICK o \in Org :
          proc' = [proc EXCEPT ![p].at = "commit", ![p].copy = inv[i], ![p].org = o]
    <3>1. org \in Org /\ NextPlanState(org, plan[i]) \in Org
      BY <1>1, BillingAssumption DEF TypeOK, NextPlanState, Org, Times
    <3> QED
      BY <1>3, <3>1
  <2>2. proc \in [Requests -> Handler] /\ inv[i] \in Header /\ "commit" \in Stages
    BY <1>1 DEF TypeOK, Stages
  <2>3. /\ proc' \in [Requests -> Handler]
        /\ \A q \in Requests \ {p} : proc'[q] = proc[q]
        /\ proc'[p].at = "commit"
        /\ proc'[p].inv = i
    <3>1. [proc[p] EXCEPT !.at = "commit", !.copy = inv[i], !.org = o] \in Handler
      BY <2>2 DEF Handler
    <3>2. proc[p].inv = i /\ proc[p] \in Handler
      BY <2>2
    <3>3. proc' = [proc EXCEPT ![p] =
                     [proc[p] EXCEPT !.at = "commit", !.copy = inv[i], !.org = o]]
      BY <2>1, <2>2
    <3>4. /\ proc' \in [Requests -> Handler]
          /\ \A q \in Requests \ {p} : proc'[q] = proc[q]
      BY <2>2, <3>1, <3>3
    <3> QED
      BY <2>2, <3>2, <3>3, <3>4 DEF Handler
  <2>4. lock' \in [Invoices -> Requests \cup {NoRequest}]
        /\ lock'[i] = p
        /\ \A j \in Invoices \ {i} : lock'[j] = lock[j]
    BY <1>1, <1>3 DEF TypeOK
  <2>5. TypeOK'
    BY <1>1, <2>3, <2>4 DEF TypeOK
  <2>6. DraftsBuyNothing' /\ ActivatedIsClosed'
    BY <1>1 DEF DraftsBuyNothing, ActivatedIsClosed
  <2>7. \A q \in Requests \ {p} : Creating(q)' = Creating(q) /\ Knows(q)' = Knows(q)
    BY <1>1, <2>3 DEF Creating, Knows, At
  <2>8. CreatorsAlone'
    BY <1>1, <2>3, <2>7 DEF CreatorsAlone, Creating, At
  <2>9. CopiesKeepClosed'
    BY <1>1, <2>3, <2>7 DEF CopiesKeepClosed, Knows, At
  <2>10. LockedIsPayable'
    <3>1. \A q \in Requests : At(q, "commit") => lock[proc[q].inv] \in Requests /\ proc[q].inv \in Invoices
      BY DEF LockedIsPayable, CopiesKeepClosed, Knows, At
    <3>2. \A q \in Requests : At(q, "commit") => proc[q].inv # i
      BY <1>1, <3>1, BillingAssumption
    <3> QED
      BY <1>1, <1>3, <2>3, <2>4, <3>1, <3>2 DEF LockedIsPayable, At
  <2> QED
    BY <2>5, <2>6, <2>8, <2>9, <2>10
<1> QED
  BY <1>2, <1>3 DEF LockInvoice
\* A step of p that ends with a write to an invoice that exists: no commit of
\* another handler is under way there, and a plan invoice becomes not payable.
LEMMA WriteFrame ==
    ASSUME IndInv, TypeOK', NEW p \in Requests, NEW i \in Invoices,
           UNCHANGED plan,
           inv[i].status # "none",
           inv'[i].status \notin {"none", "draft"},
           plan[i] # 0 => inv'[i].status # "pending",
           \A j \in Invoices \ {i} : inv'[j] = inv[j],
           \A j \in Invoices : \/ activations'[j] = activations[j]
                               \/ j = i /\ plan[i] # 0 /\ activations'[i] = 1,
           \A q \in Requests \ {p} : At(q, "commit") =>
               proc[q].inv # i /\ lock'[proc[q].inv] = lock[proc[q].inv],
           \A q \in Requests \ {p} : proc'[q] = proc[q],
           proc'[p].at \in {"idle", "post"},
           Knows(p)'
    PROVE  IndInv'
<1> USE DEF IndInv
<1>1. DraftsBuyNothing'
  BY DEF DraftsBuyNothing
<1>2. ActivatedIsClosed'
  BY DEF ActivatedIsClosed, Payable
<1>3. \A q \in Requests \ {p} : ~At(q, "idle") => proc[q].inv \in Invoices
  BY DEF CopiesKeepClosed, Knows
<1>4. CreatorsAlone'
  <2>1. ~Creating(p)'
    BY DEF Creating, At
  <2>2. \A q \in Requests \ {p} : Creating(q)' = Creating(q)
    BY DEF Creating, At
  <2>3. \A q \in Requests \ {p} : Creating(q) => proc[q].inv \in Invoices \ {i}
    BY <1>3 DEF CreatorsAlone, Creating, At
  <2> QED
    BY <2>1, <2>2, <2>3 DEF CreatorsAlone
<1>5. CopiesKeepClosed'
  <2>1. ASSUME NEW q \in Requests \ {p} PROVE Knows(q)'
    <3>1. Knows(q) /\ proc'[q] = proc[q]
      BY DEF CopiesKeepClosed
    <3>2. \A j \in Invoices : inv[j].status # "none" => inv'[j].status # "none"
      OBVIOUS
    <3> QED
      BY <3>1, <3>2 DEF Knows, At
  <2> QED
    BY <2>1 DEF CopiesKeepClosed
<1>6. LockedIsPayable'
  BY <1>3 DEF LockedIsPayable, At
<1> QED
  BY <1>1, <1>2, <1>4, <1>5, <1>6

\* While a commit is under way the row lock keeps every other writer waiting.
LEMMA CommitHoldsLock ==
    ASSUME IndInv, NEW q \in Requests, At(q, "commit")
    PROVE  /\ proc[q].inv \in Invoices
           /\ lock[proc[q].inv] = q
           /\ ~Unlocked(proc[q].inv)
BY BillingAssumption DEF IndInv, LockedIsPayable, CopiesKeepClosed, Knows, At, Unlocked

LEMMA IdleKnows ==
    ASSUME NEW p \in Requests, proc'[p] = Idle
    PROVE  Knows(p)'
BY DEF Knows, At, Idle

LEMMA SaveHeaderStep ==
    ASSUME IndInv, NEW p \in Requests, SaveHeader(p)
    PROVE  IndInv'
<1> USE DEF IndInv
<1> DEFINE i == proc[p].inv
<1>1. /\ i \in Invoices
      /\ inv[i].status # "none"
      /\ proc[p].copy.status \notin {"none", "draft"}
      /\ plan[i] # 0 => proc[p].copy.status # "pending"
      /\ proc[p].copy \in Header
      /\ Unlocked(i)
      /\ UNCHANGED <<now, org, plan, pay, manual, captured, lock, jobs, activations, start>>
  BY DEF SaveHeader, CopiesKeepClosed, Knows, At, TypeOK, Handler, moneyVars, historyVars
<1>2. /\ proc' \in [Requests -> Handler]
      /\ proc'[p] = Idle
      /\ \A q \in Requests \ {p} : proc'[q] = proc[q]
  BY FinishType DEF SaveHeader, Finish, TypeOK
<1>3. CASE inv' = inv
  <2>1. TypeOK'
    BY <1>1, <1>2, <1>3 DEF TypeOK
  <2>2. ~Creating(p)' /\ ~At(p, "commit")'
    BY <1>2 DEF Creating, At, Idle
  <2> QED
    BY <1>1, <1>2, <1>3, <2>1, <2>2, IdleKnows, Frame
<1>4. CASE inv' = [inv EXCEPT ![i] = proc[p].copy]
  <2>1. /\ inv' \in [Invoices -> Header]
        /\ inv'[i] = proc[p].copy
        /\ \A j \in Invoices \ {i} : inv'[j] = inv[j]
    BY <1>1, <1>4 DEF TypeOK
  <2>2. TypeOK'
    BY <1>1, <1>2, <2>1 DEF TypeOK
  <2>3. \A q \in Requests \ {p} : At(q, "commit") => proc[q].inv # i
    BY <1>1, CommitHoldsLock
  <2>4. proc'[p].at = "idle"
    BY <1>2 DEF Idle
  <2> QED
    BY <1>1, <1>2, <2>1, <2>2, <2>3, <2>4, IdleKnows, WriteFrame
<1> QED
  BY <1>3, <1>4 DEF SaveHeader

LEMMA ExpireFlipStep ==
    ASSUME IndInv, NEW p \in Requests, ExpireFlip(p)
    PROVE  IndInv'
<1> USE DEF IndInv
<1> DEFINE i == proc[p].inv
<1>1. /\ i \in Invoices
      /\ inv[i].status # "none"
      /\ Unlocked(i)
      /\ UNCHANGED <<now, org, plan, pay, manual, captured, lock, jobs, activations, start>>
      /\ inv' = [inv EXCEPT ![i].status = "expired"]
  BY DEF ExpireFlip, CopiesKeepClosed, Knows, At, moneyVars, historyVars
<1>2. /\ proc' \in [Requests -> Handler]
      /\ proc'[p] = Idle
      /\ \A q \in Requests \ {p} : proc'[q] = proc[q]
  BY FinishType DEF ExpireFlip, Finish, TypeOK
<1>3. inv \in [Invoices -> Header] /\ "expired" \in Statuses
  BY DEF TypeOK, Statuses
<1>4. /\ inv' \in [Invoices -> Header]
      /\ inv'[i].status = "expired"
      /\ \A j \in Invoices \ {i} : inv'[j] = inv[j]
  BY <1>1, <1>3 DEF Header
<1>5. TypeOK'
  BY <1>1, <1>2, <1>4 DEF TypeOK
<1>6. \A q \in Requests \ {p} : At(q, "commit") => proc[q].inv # i
  BY <1>1, CommitHoldsLock
<1>7. proc'[p].at = "idle"
  BY <1>2 DEF Idle
<1> QED
  BY <1>1, <1>2, <1>4, <1>5, <1>6, <1>7, IdleKnows, WriteFrame

LEMMA CommitStep ==
    ASSUME IndInv, NEW p \in Requests, Commit(p)
    PROVE  IndInv'
<1> USE DEF IndInv
<1> DEFINE i == proc[p].inv
<1>1. /\ i \in Invoices
      /\ lock[i] = p
      /\ inv[i].status \in Payable
      /\ proc[p].copy \in Header
      /\ proc[p].org \in Org
      /\ UNCHANGED <<now, plan, pay, manual, captured, jobs, start>>
  BY DEF Commit, CopiesKeepClosed, LockedIsPayable, Knows, At, TypeOK, Handler, moneyVars
<1>2. activations[i] = 0
  BY <1>1 DEF ActivatedIsClosed
<1>3. /\ activations' \in [Invoices -> Nat]
      /\ \A j \in Invoices : \/ activations'[j] = activations[j]
                             \/ j = i /\ plan[i] # 0 /\ activations'[i] = 1
      /\ org' \in Org
  BY <1>1, <1>2 DEF Commit, TypeOK
<1>4. /\ proc' \in [Requests -> Handler]
      /\ proc'[p].at = "post"
      /\ proc'[p].inv = i
      /\ \A q \in Requests \ {p} : proc'[q] = proc[q]
  <2>1. proc \in [Requests -> Handler] /\ "post" \in Stages
    BY DEF TypeOK, Stages
  <2> QED
    BY <2>1, MoveToType DEF Commit, MoveTo, Handler
<1>5. /\ inv' \in [Invoices -> Header]
      /\ inv'[i].status = "paid"
      /\ \A j \in Invoices \ {i} : inv'[j] = inv[j]
  <2>1. inv \in [Invoices -> Header] /\ "paid" \in Statuses
    BY DEF TypeOK, Statuses
  <2> QED
    BY <1>1, <2>1 DEF Commit, Header
<1>6. /\ lock' \in [Invoices -> Requests \cup {NoRequest}]
      /\ \A j \in Invoices \ {i} : lock'[j] = lock[j]
  BY <1>1 DEF Commit, TypeOK
<1>7. TypeOK'
  BY <1>1, <1>3, <1>4, <1>5, <1>6 DEF TypeOK
<1>8. \A q \in Requests \ {p} : At(q, "commit") =>
          proc[q].inv # i /\ lock'[proc[q].inv] = lock[proc[q].inv]
  BY <1>1, <1>6, CommitHoldsLock
<1>9. Knows(p)'
  BY <1>1, <1>4 DEF Knows, At
<1> QED
  BY <1>1, <1>3, <1>4, <1>5, <1>7, <1>8, <1>9, WriteFrame DEF Payable
LEMMA CreateInvoiceStep ==
    ASSUME IndInv, NEW p \in Requests, CreateInvoice(p)
    PROVE  IndInv'
<1> USE DEF IndInv
<1> DEFINE i == proc[p].inv
<1>1. /\ Creating(p)
      /\ i \in Invoices
      /\ inv[i].status = "none"
      /\ proc[p].buy \in Plans \ {0}
      /\ proc[p].copy \in Header
      /\ proc[p].copy.status = "pending"
      /\ UNCHANGED <<now, org, pay, manual, captured, lock, jobs, activations, start>>
  BY DEF CreateInvoice, CopiesKeepClosed, CreatorsAlone, Creating, Knows, At, TypeOK, Handler,
         moneyVars, historyVars
<1>2. CASE UNCHANGED <<inv, plan>> /\ Finish(p)
  <2>1. TypeOK'
    BY <1>1, <1>2, FinishType DEF TypeOK
  <2>2. (\A q \in Requests \ {p} : proc'[q] = proc[q]) /\ proc'[p] = Idle
    BY <1>2 DEF Finish, TypeOK
  <2>3. ~Creating(p)' /\ ~At(p, "commit")'
    BY <2>2 DEF Creating, At, Idle
  <2> QED
    BY <1>1, <1>2, <2>1, <2>2, <2>3, IdleKnows, Frame
<1>3. CASE /\ inv' = [inv EXCEPT ![i] = proc[p].copy]
           /\ plan' = [plan EXCEPT ![i] = proc[p].buy]
           /\ MoveTo(p, "request")
  <2>1. proc \in [Requests -> Handler] /\ "request" \in Stages
    BY DEF TypeOK, Stages
  <2>2. /\ proc' \in [Requests -> Handler]
        /\ proc'[p].at = "request"
        /\ proc'[p].inv = i
        /\ \A q \in Requests \ {p} : proc'[q] = proc[q]
    BY <1>3, <2>1, MoveToType DEF MoveTo, Handler
  <2>3. /\ inv' \in [Invoices -> Header]
        /\ plan' \in [Invoices -> Plans]
        /\ inv'[i].status = "pending" /\ plan'[i] # 0
        /\ \A j \in Invoices \ {i} : inv'[j] = inv[j] /\ plan'[j] = plan[j]
    BY <1>1, <1>3 DEF TypeOK
  <2>4. TypeOK'
    BY <1>1, <2>2, <2>3 DEF TypeOK
  <2>5. DraftsBuyNothing'
    BY <2>3 DEF DraftsBuyNothing
  <2>6. ActivatedIsClosed'
    BY <1>1, <2>3 DEF ActivatedIsClosed
  <2>7. CreatorsAlone'
    <3>1. ~Creating(p)'
      BY <2>2 DEF Creating, At
    <3>2. \A q \in Requests \ {p} : Creating(q)' = Creating(q)
      BY <2>2 DEF Creating, At
    <3>3. \A q \in Requests \ {p} : Creating(q) => proc[q].inv \in Invoices \ {i}
      BY <1>1 DEF CreatorsAlone, CopiesKeepClosed, Knows, Creating, At
    <3> QED
      BY <2>2, <2>3, <3>1, <3>2, <3>3 DEF CreatorsAlone
  <2>8. CopiesKeepClosed'
    <3>1. Knows(p)'
      BY <1>1, <2>2 DEF Knows, At
    <3>2. ASSUME NEW q \in Requests \ {p} PROVE Knows(q)'
      <4>1. Knows(q) /\ proc'[q] = proc[q]
        BY <2>2 DEF CopiesKeepClosed
      <4>2. \A j \in Invoices : inv[j].status # "none" => inv'[j] = inv[j] /\ plan'[j] = plan[j]
        BY <1>1, <2>3
      <4> QED
        BY <4>1, <4>2 DEF Knows, At
    <3> QED
      BY <3>1, <3>2 DEF CopiesKeepClosed
  <2>9. LockedIsPayable'
    <3>1. \A q \in Requests : At(q, "commit") => proc[q].inv \in Invoices \ {i}
      BY <1>1 DEF LockedIsPayable, CopiesKeepClosed, Knows, At, Payable
    <3> QED
      BY <1>1, <2>2, <2>3, <3>1 DEF LockedIsPayable, At
  <2> QED
    BY <2>4, <2>5, <2>6, <2>7, <2>8, <2>9
<1> QED
  BY <1>2, <1>3 DEF CreateInvoice

LEMMA CreateDraftStep ==
    ASSUME IndInv, NEW i \in Invoices, CreateDraft(i)
    PROVE  IndInv'
<1> USE DEF IndInv
<1>1. /\ inv[i] = Blank
      /\ \A q \in Requests : proc[q].inv # i
      /\ inv' = [inv EXCEPT ![i].status = "draft"]
      /\ UNCHANGED <<now, org, plan, pay, manual, captured, lock, jobs, proc, activations, start>>
  BY DEF CreateDraft, moneyVars, historyVars
<1>2. inv \in [Invoices -> Header] /\ "draft" \in Statuses
  BY DEF TypeOK, Statuses, Payable
<1>3. /\ inv' \in [Invoices -> Header]
      /\ inv'[i].status = "draft"
      /\ \A j \in Invoices \ {i} : inv'[j] = inv[j]
  BY <1>1, <1>2 DEF Header
<1>4. TypeOK'
  BY <1>1, <1>3 DEF TypeOK
<1>5. inv[i].status = "none" /\ plan[i] = 0
  BY <1>1 DEF Blank, DraftsBuyNothing
<1>6. DraftsBuyNothing' /\ ActivatedIsClosed'
  BY <1>1, <1>3, <1>5 DEF DraftsBuyNothing, ActivatedIsClosed
<1>7. ASSUME NEW q \in Requests
      PROVE  Creating(q)' = Creating(q) /\ inv'[proc[q].inv] = inv[proc[q].inv]
  BY <1>1, <1>2 DEF Creating, At
<1>8. CreatorsAlone' /\ CopiesKeepClosed' /\ LockedIsPayable'
  BY <1>1, <1>7 DEF CreatorsAlone, CopiesKeepClosed, LockedIsPayable, Knows, At
<1> QED
  BY <1>4, <1>6, <1>8

LEMMA CrashStep ==
    ASSUME IndInv, NEW p \in Requests, Crash(p)
    PROVE  IndInv'
<1> USE DEF IndInv
<1>1. /\ UNCHANGED <<now, org, plan, inv, pay, manual, captured, jobs, activations, start>>
      /\ lock' = [i \in Invoices |-> IF lock[i] = p THEN NoRequest ELSE lock[i]]
  BY DEF Crash, moneyVars, historyVars
<1>2. /\ proc' \in [Requests -> Handler]
      /\ proc'[p] = Idle
      /\ \A q \in Requests \ {p} : proc'[q] = proc[q]
  BY FinishType DEF Crash, Finish, TypeOK
<1>3. TypeOK'
  BY <1>1, <1>2 DEF TypeOK
<1>4. DraftsBuyNothing' /\ ActivatedIsClosed'
  BY <1>1 DEF DraftsBuyNothing, ActivatedIsClosed
<1>5. ~Creating(p)' /\ ~At(p, "commit")' /\ Knows(p)'
  BY <1>2, IdleKnows DEF Creating, At, Idle
<1>6. \A q \in Requests \ {p} : Creating(q)' = Creating(q) /\ Knows(q)' = Knows(q)
  BY <1>1, <1>2 DEF Creating, Knows, At
<1>7. CreatorsAlone' /\ CopiesKeepClosed'
  BY <1>1, <1>2, <1>5, <1>6 DEF CreatorsAlone, CopiesKeepClosed
<1>8. LockedIsPayable'
  <2>1. \A q \in Requests \ {p} : At(q, "commit") => lock'[proc[q].inv] = q
    BY <1>1, CommitHoldsLock
  <2> QED
    BY <1>1, <1>2, <1>5, <2>1 DEF LockedIsPayable, At
<1> QED
  BY <1>3, <1>4, <1>7, <1>8

LEMMA NothingStep ==
    ASSUME IndInv, Tick \/ UNCHANGED vars
    PROVE  IndInv'
<1>1. /\ UNCHANGED <<org, plan, inv, pay, manual, captured, lock, jobs, proc, activations, start>>
      /\ now' \in 0..MaxTime
  BY BillingAssumption DEF Tick, vars, moneyVars, historyVars, IndInv, TypeOK
<1> QED
  BY <1>1 DEF IndInv, TypeOK, DraftsBuyNothing, ActivatedIsClosed, CreatorsAlone,
              CopiesKeepClosed, LockedIsPayable, Creating, Knows, At

LEMMA IndNext == IndInv /\ [Next]_vars => IndInv'
BY PaymentSteps, ReadSteps, CheckoutStep, AssignNumberStep, LockInvoiceStep, SaveHeaderStep,
   ExpireFlipStep, CommitStep, CreateInvoiceStep, CreateDraftStep, CrashStep, NothingStep
   DEF Next, Continue

-----------------------------------------------------------------------------
(* The theorems *)

THEOREM Inductive == Spec => []IndInv
BY IndInit, IndNext, PTL DEF Spec

\* Every variable and every handler in flight keeps its type.
THEOREM TypeCorrect == Spec => []TypeOK
<1>1. IndInv => TypeOK
  BY DEF IndInv
<1> QED
  BY <1>1, Inductive, PTL

\* However many callbacks, manual payments and stale saves race, an invoice
\* applies its plan to the organization at most once.
THEOREM AppliedOnce == Spec => []ActivatedOnce
<1>1. IndInv => ActivatedOnce
  BY DEF IndInv, ActivatedIsClosed, TypeOK, ActivatedOnce
<1> QED
  BY <1>1, Inductive, PTL

\* The steps that write an invoice.
LEMMA InvoiceSteps ==
    ASSUME [Next]_vars
    PROVE  \/ UNCHANGED inv
           \/ \E p \in Requests : CreateInvoice(p) \/ Commit(p) \/ SaveHeader(p) \/ ExpireFlip(p)
           \/ \E i \in Invoices : CreateDraft(i)
<1>1. CASE \E p \in Requests : Continue(p)
  BY <1>1 DEF Continue, AssignNumber, RequestPayment, CreatePayment, Verify, FailPayment,
     Succeed, LockInvoice, PostCommit, CreateManualPayment, Crash
<1>2. CASE \E p \in Requests, i \in Invoices :
             \/ \E buy \in Plans : Checkout(p, i, buy)
             \/ HandleCallback(p, i) \/ IssueInvoice(p, i) \/ MarkPaid(p, i)
             \/ CancelInvoice(p, i) \/ RefundInvoice(p, i) \/ GeneratePDF(p, i)
             \/ ExpireFind(p, i)
  BY <1>2 DEF Checkout, HandleCallback, IssueInvoice, MarkPaid, CancelInvoice, RefundInvoice,
     GeneratePDF, ExpireFind
<1>3. CASE Tick \/ UNCHANGED vars
  BY <1>3 DEF Tick, vars
<1> QED
  BY <1>1, <1>2, <1>3 DEF Next

\* A closed invoice of a checkout never becomes payable again, whichever stale
\* header is saved over it.
THEOREM ClosedForGood == Spec => PlanInvoiceClosesOnce
<1> DEFINE Closed(i) == plan[i] # 0 /\ inv[i].status \notin Payable \cup {"none"}
<1>1. ASSUME IndInv, [Next]_vars, NEW i \in Invoices, Closed(i)
      PROVE  inv'[i].status \notin Payable
  <2> USE DEF IndInv
  <2>1. inv[i].status \notin Payable \cup {"none"} /\ inv \in [Invoices -> Header]
    BY <1>1 DEF TypeOK
  <2>2. CASE UNCHANGED inv
    BY <2>1, <2>2
  <2>3. ASSUME NEW p \in Requests, CreateInvoice(p) PROVE inv'[i].status \notin Payable
    <3>1. inv[proc[p].inv].status = "none"
      BY <1>1, <2>3 DEF CreateInvoice, CreatorsAlone, Creating
    <3> QED
      BY <2>1, <2>3, <3>1 DEF CreateInvoice
  <2>4. ASSUME NEW p \in Requests, Commit(p) PROVE inv'[i].status \notin Payable
    <3>1. proc[p].copy \in Header
      BY <1>1 DEF TypeOK, Handler
    <3> QED
      BY <2>1, <2>4, <3>1 DEF Commit, Header, Payable
  <2>5. ASSUME NEW p \in Requests, SaveHeader(p) PROVE inv'[i].status \notin Payable
    <3>1. plan[proc[p].inv] # 0 => proc[p].copy.status \notin Payable
      BY <1>1, <2>5 DEF SaveHeader, CopiesKeepClosed, Knows, Payable
    <3> QED
      BY <1>1, <2>1, <2>5, <3>1 DEF SaveHeader
  <2>6. ASSUME NEW p \in Requests, ExpireFlip(p) PROVE inv'[i].status \notin Payable
    BY <2>1, <2>6 DEF ExpireFlip, Header, Payable
  <2>7. ASSUME NEW j \in Invoices, CreateDraft(j) PROVE inv'[i].status \notin Payable
    BY <2>1, <2>7 DEF CreateDraft, Blank
  <2> QED
    BY <1>1, <2>2, <2>3, <2>4, <2>5, <2>6, <2>7, InvoiceSteps
<1>2. IndInv /\ [Next]_vars => [\A i \in Invoices : Closed(i) => inv'[i].status \notin Payable]_vars
  BY <1>1
<1> QED
  BY <1>2, Inductive, PTL DEF Spec, PlanInvoiceClosesOnce

-----------------------------------------------------------------------------
(* What "paid" stands for *)

\* A copy says "paid" only of a plan that has been applied.
PaidCopies ==
    \A p \in Requests :
        At(p, "save") /\ plan[proc[p].inv] # 0 /\ proc[p].copy.status \in {"paid", "refunded"}
            => activations[proc[p].inv] # 0

LEMMA PaidInit == Init => PaidMeansGranted /\ PaidCopies
BY DEF Init, PaidMeansGranted, PaidCopies, At, Idle

\* The handlers that go on to save a copy.
LEMMA SaveSteps ==
    ASSUME IndInv, [Next]_vars, NEW p \in Requests, At(p, "save")'
    PROVE  \/ proc'[p] = proc[p]
           \/ proc'[p].copy.status = "pending"
           \/ /\ proc'[p].inv \in Invoices
              /\ \/ proc'[p].copy.status = "canceled"
                 \/ /\ inv[proc'[p].inv].status = "paid"
                    /\ proc'[p].copy.status \in {"paid", "refunded"}
<1> USE DEF IndInv, TypeOK, Handler
<1>1. proc \in [Requests -> Handler]
  OBVIOUS
<1>2. CASE \E q \in Requests : AssignNumber(q)
  BY <1>1, <1>2 DEF AssignNumber, At
<1>3. CASE \E q \in Requests, i \in Invoices : CancelInvoice(q, i) \/ RefundInvoice(q, i) \/ GeneratePDF(q, i)
  <2>1. PICK q \in Requests, i \in Invoices : CancelInvoice(q, i) \/ RefundInvoice(q, i) \/ GeneratePDF(q, i)
    BY <1>3
  <2>2. inv[i] \in Header
    OBVIOUS
  <2>3. CASE q = p
    BY <1>1, <2>1, <2>2, <2>3 DEF CancelInvoice, RefundInvoice, GeneratePDF, Rewrite, Header
  <2>4. CASE q # p
    BY <1>1, <2>1, <2>4 DEF CancelInvoice, RefundInvoice, GeneratePDF, Rewrite
  <2> QED
    BY <2>3, <2>4
<1>4. CASE \E q \in Requests :
             \/ CreateInvoice(q) \/ RequestPayment(q) \/ CreatePayment(q) \/ Verify(q)
             \/ FailPayment(q) \/ Succeed(q) \/ LockInvoice(q) \/ Commit(q) \/ PostCommit(q)
             \/ CreateManualPayment(q) \/ SaveHeader(q) \/ ExpireFlip(q) \/ Crash(q)
  <2>1. CASE \E q \in Requests :
               \/ CreateInvoice(q) \/ RequestPayment(q) \/ CreatePayment(q) \/ Verify(q)
               \/ FailPayment(q) \/ Succeed(q)
    BY <1>1, <2>1 DEF CreateInvoice, RequestPayment, CreatePayment, Verify, FailPayment,
       Succeed, Finish, MoveTo, At, Idle
  <2>2. CASE \E q \in Requests : LockInvoice(q) \/ Commit(q) \/ PostCommit(q)
    BY <1>1, <2>2 DEF LockInvoice, Commit, PostCommit, Finish, MoveTo, At, Idle
  <2>3. CASE \E q \in Requests :
               CreateManualPayment(q) \/ SaveHeader(q) \/ ExpireFlip(q) \/ Crash(q)
    BY <1>1, <2>3 DEF CreateManualPayment, SaveHeader, ExpireFlip, Crash, Finish, MoveTo, At, Idle
  <2> QED
    BY <1>4, <2>1, <2>2, <2>3
<1>5. CASE \E q \in Requests, i \in Invoices :
             \/ \E buy \in Plans : Checkout(q, i, buy)
             \/ HandleCallback(q, i) \/ IssueInvoice(q, i) \/ MarkPaid(q, i) \/ ExpireFind(q, i)
  BY <1>1, <1>5 DEF Checkout, HandleCallback, IssueInvoice, MarkPaid, ExpireFind, Begin, At
<1>6. CASE UNCHANGED vars \/ Tick \/ \E i \in Invoices : CreateDraft(i)
  BY <1>6 DEF vars, Tick, CreateDraft
<1> QED
  BY <1>2, <1>3, <1>4, <1>5, <1>6 DEF Next, Continue

\* The steps that apply a plan, or change the plan of an invoice.
LEMMA PlanSteps ==
    ASSUME IndInv, [Next]_vars, NEW i \in Invoices
    PROVE  /\ activations[i] # 0 => activations'[i] # 0
           /\ plan'[i] # plan[i] => inv[i].status = "none"
<1> USE DEF IndInv, TypeOK
<1>1. CASE \E q \in Requests : CreateInvoice(q)
  BY <1>1 DEF CreateInvoice, CreatorsAlone, Creating, historyVars
<1>2. CASE \E q \in Requests : Commit(q)
  BY <1>2 DEF Commit
<1>3. CASE UNCHANGED <<plan, activations>>
  BY <1>3
<1>4. ASSUME NEW q \in Requests,
             \/ AssignNumber(q) \/ RequestPayment(q) \/ CreatePayment(q) \/ Verify(q)
             \/ FailPayment(q) \/ Succeed(q) \/ LockInvoice(q) \/ PostCommit(q)
             \/ CreateManualPayment(q) \/ SaveHeader(q) \/ ExpireFlip(q) \/ Crash(q)
      PROVE  UNCHANGED <<plan, activations>>
  BY <1>4 DEF AssignNumber, RequestPayment, CreatePayment, Verify, FailPayment, Succeed,
     LockInvoice, PostCommit, CreateManualPayment, SaveHeader, ExpireFlip, Crash, historyVars
<1>5. ASSUME NEW q \in Requests, NEW j \in Invoices,
             \/ \E buy \in Plans : Checkout(q, j, buy)
             \/ HandleCallback(q, j) \/ IssueInvoice(q, j) \/ MarkPaid(q, j)
             \/ CancelInvoice(q, j) \/ RefundInvoice(q, j) \/ GeneratePDF(q, j)
             \/ ExpireFind(q, j)
      PROVE  UNCHANGED <<plan, activations>>
  BY <1>5 DEF Checkout, HandleCallback, IssueInvoice, MarkPaid, CancelInvoice, RefundInvoice,
     GeneratePDF, ExpireFind, historyVars
<1>6. CASE UNCHANGED vars \/ Tick \/ \E j \in Invoices : CreateDraft(j)
  BY <1>6 DEF vars, Tick, CreateDraft, historyVars
<1> QED
  BY <1>1, <1>2, <1>3, <1>4, <1>5, <1>6 DEF Next, Continue

LEMMA PaidNext ==
    IndInv /\ PaidMeansGranted /\ PaidCopies /\ [Next]_vars => PaidMeansGranted' /\ PaidCopies'
<1> SUFFICES ASSUME IndInv, PaidMeansGranted, PaidCopies, [Next]_vars
             PROVE  PaidMeansGranted' /\ PaidCopies'
  OBVIOUS
<1>1. PaidMeansGranted'
  <2> SUFFICES ASSUME NEW i \in Invoices, plan'[i] # 0, inv'[i].status \in {"paid", "refunded"}
               PROVE  activations'[i] # 0
    BY DEF PaidMeansGranted
  <2> USE DEF IndInv, TypeOK
  <2>1. CASE inv'[i] = inv[i]
    BY <2>1, PlanSteps DEF PaidMeansGranted
  <2>2. ASSUME NEW p \in Requests, CreateInvoice(p), inv'[i] # inv[i] PROVE FALSE
    BY <2>2 DEF CreateInvoice, CopiesKeepClosed, Knows, At
  <2>3. ASSUME NEW p \in Requests, Commit(p), inv'[i] # inv[i] PROVE activations'[i] # 0
    BY <2>3 DEF Commit
  <2>4. ASSUME NEW p \in Requests, SaveHeader(p), inv'[i] # inv[i] PROVE activations'[i] # 0
    BY <2>4, PlanSteps DEF SaveHeader, PaidCopies
  <2>5. ASSUME NEW p \in Requests, ExpireFlip(p), inv'[i] # inv[i] PROVE FALSE
    BY <2>5 DEF ExpireFlip, Header
  <2>6. ASSUME NEW j \in Invoices, CreateDraft(j), inv'[i] # inv[i] PROVE FALSE
    BY <2>6 DEF CreateDraft, Header
  <2> QED
    BY <2>1, <2>2, <2>3, <2>4, <2>5, <2>6, InvoiceSteps
<1>2. PaidCopies'
  <2> SUFFICES ASSUME NEW p \in Requests, At(p, "save")', plan'[proc'[p].inv] # 0,
                      proc'[p].copy.status \in {"paid", "refunded"}
               PROVE  activations'[proc'[p].inv] # 0
    BY DEF PaidCopies
  <2>1. PICK i : i = proc'[p].inv
    OBVIOUS
  <2>2. CASE proc'[p] = proc[p]
    <3>1. i \in Invoices /\ inv[i].status # "none" /\ At(p, "save")
      BY <2>1, <2>2 DEF IndInv, CopiesKeepClosed, Knows, At
    <3> QED
      BY <2>1, <2>2, <3>1, PlanSteps DEF PaidCopies
  <2>3. CASE i \in Invoices /\ inv[i].status = "paid"
    BY <2>1, <2>3, PlanSteps DEF PaidMeansGranted
  <2> QED
    BY <2>1, <2>2, <2>3, SaveSteps
<1> QED
  BY <1>1, <1>2

\* A plan invoice that says "paid" has applied its plan, whoever died or saved
\* a stale header around the settlement.
THEOREM PaidIsGranted == Spec => []PaidMeansGranted
BY PaidInit, PaidNext, Inductive, PTL DEF Spec

-----------------------------------------------------------------------------
(* Time that was paid for *)

\* Whoever settles an invoice has seen its money.
SettlersWerePaid ==
    \A p \in Requests :
        /\ At(p, "succeed") => proc[p].inv \in captured
        /\ At(p, "lock") \/ At(p, "commit") => proc[p].inv \in captured \cup manual

Applied == {i \in Invoices : activations[i] # 0}

AppliedWerePaid == Applied \subseteq captured \cup manual

Base == IF start > now THEN start ELSE now

\* Each applied plan is worth one interval, and a commit under way, whose
\* invoice is not among them yet, one more than what it has read.
TimeCounted ==
    /\ org.expiry <= Base + Cardinality(Applied)
    /\ \A p \in Requests :
        At(p, "commit") => proc[p].org.expiry <= Base + Cardinality(Applied) + 1

GrantInv == SettlersWerePaid /\ AppliedWerePaid /\ TimeCounted

LEMMA GrantTypes ==
    ASSUME TypeOK
    PROVE  /\ Applied \subseteq Invoices
           /\ IsFiniteSet(Applied) /\ Cardinality(Applied) \in Nat
           /\ now \in Nat /\ start \in Nat /\ Base \in Nat /\ org.expiry \in Nat
           /\ \A p \in Requests : proc[p].org.expiry \in Nat
<1>1. Applied \subseteq Invoices /\ IsFiniteSet(Applied)
  BY BillingAssumption, FS_Subset DEF Applied
<1>2. now \in Nat /\ start \in Nat /\ org.expiry \in Nat
  BY BillingAssumption DEF TypeOK, Org, Times
<1>3. \A p \in Requests : proc[p].org.expiry \in Nat
  BY DEF TypeOK, Handler, Org, Times
<1> QED
  BY <1>1, <1>2, <1>3, FS_CardinalityType DEF Base

LEMMA GrantInit == Init => GrantInv
<1> SUFFICES ASSUME Init PROVE GrantInv
  OBVIOUS
<1>1. TypeOK
  BY IndInit DEF IndInv
<1>2. SettlersWerePaid /\ AppliedWerePaid
  BY DEF Init, SettlersWerePaid, AppliedWerePaid, Applied, At, Idle
<1>3. org.expiry = start /\ \A p \in Requests : ~At(p, "commit")
  BY DEF Init, At, Idle
<1> QED
  BY <1>1, <1>2, <1>3, GrantTypes DEF GrantInv, TimeCounted, Base

\* A step that applies no plan and brings nobody nearer to it without money.
LEMMA GrantFrame ==
    ASSUME IndInv, IndInv', GrantInv,
           UNCHANGED <<org, activations, start>>,
           now' >= now,
           captured \subseteq captured', manual \subseteq manual',
           \A q \in Requests :
               \/ proc'[q] = proc[q]
               \/ proc'[q].at \notin {"succeed", "lock", "commit"}
               \/ proc'[q].at = "succeed" /\ proc'[q].inv \in captured'
               \/ proc'[q].at = "lock" /\ proc'[q].inv \in captured' \cup manual'
    PROVE  GrantInv'
<1>1. SettlersWerePaid'
  BY DEF GrantInv, SettlersWerePaid, At
<1>2. Applied' = Applied /\ AppliedWerePaid'
  BY DEF GrantInv, AppliedWerePaid, Applied
<1>3. Base' >= Base /\ Base \in Nat /\ Base' \in Nat /\ Cardinality(Applied) \in Nat
  <2>1. now \in Nat /\ now' \in Nat /\ start \in Nat
    BY BillingAssumption DEF IndInv, TypeOK, Times
  <2> QED
    BY <2>1, GrantTypes DEF Base, IndInv
<1>4. \A q \in Requests : At(q, "commit")' => At(q, "commit") /\ proc'[q] = proc[q]
  BY DEF At
<1>5. TimeCounted'
  BY <1>2, <1>3, <1>4, GrantTypes DEF GrantInv, TimeCounted, IndInv
<1> QED
  BY <1>1, <1>2, <1>5 DEF GrantInv

\* NextPlanState adds one interval to the later of the expiry and now.
LEMMA GrantLock ==
    ASSUME IndInv, IndInv', GrantInv, NEW p \in Requests, LockInvoice(p)
    PROVE  GrantInv'
<1> DEFINE i == proc[p].inv
<1>1. /\ proc[p].at = "lock"
      /\ i \in Invoices
      /\ UNCHANGED <<now, org, captured, manual, activations, start>>
  BY DEF LockInvoice, At, IndInv, CopiesKeepClosed, Knows, moneyVars, historyVars
<1>2. CASE Finish(p)
  <2>1. \A q \in Requests : proc'[q] = proc[q] \/ proc'[q].at = "idle"
    BY <1>2 DEF Finish, IndInv, TypeOK, Idle
  <2> QED
    BY <1>1, <2>1, GrantFrame, GrantTypes DEF IndInv
<1>3. CASE proc' = [proc EXCEPT ![p].at = "commit", ![p].copy = inv[i],
                       ![p].org = IF plan[i] = 0 THEN org ELSE NextPlanState(org, plan[i])]
  <2> DEFINE o == IF plan[i] = 0 THEN org ELSE NextPlanState(org, plan[i])
  <2>1. o.expiry <= Base + Cardinality(Applied) + 1
    <3>1. NextPlanState(org, plan[i]).expiry \in {org.expiry + 1, now + 1}
      BY DEF NextPlanState
    <3> QED
      BY <3>1, GrantTypes DEF GrantInv, TimeCounted, Base, IndInv
  <2> HIDE DEF o
  <2>2. /\ \A q \in Requests \ {p} : proc'[q] = proc[q]
        /\ proc'[p].at = "commit"
        /\ proc'[p].inv = i
        /\ proc'[p].org = o
    <3>1. proc' = [proc EXCEPT ![p].at = "commit", ![p].copy = inv[i], ![p].org = o]
      BY <1>3 DEF o
    <3>2. proc \in [Requests -> Handler]
      BY DEF IndInv, TypeOK
    <3> QED
      BY <3>1, <3>2 DEF Handler
  <2>3. Applied' = Applied /\ Base' = Base
    BY <1>1 DEF Applied, Base
  <2>4. SettlersWerePaid' /\ AppliedWerePaid'
    BY <1>1, <2>2, <2>3 DEF GrantInv, SettlersWerePaid, AppliedWerePaid, At
  <2>5. TimeCounted'
    BY <1>1, <2>1, <2>2, <2>3 DEF GrantInv, TimeCounted, At
  <2> QED
    BY <2>4, <2>5 DEF GrantInv
<1> QED
  BY <1>2, <1>3 DEF LockInvoice

\* The commit takes its one interval more and is counted with it.
LEMMA GrantCommit ==
    ASSUME IndInv, IndInv', GrantInv, NEW p \in Requests, Commit(p)
    PROVE  GrantInv'
<1> DEFINE i == proc[p].inv
<1>1. /\ proc[p].at = "commit"
      /\ i \in Invoices
      /\ inv[i].status \in Payable
      /\ activations[i] = 0
      /\ UNCHANGED <<now, captured, manual, start>>
  BY DEF Commit, At, IndInv, CopiesKeepClosed, LockedIsPayable, ActivatedIsClosed, Knows,
         moneyVars
<1>2. /\ \A q \in Requests \ {p} : proc'[q] = proc[q]
      /\ proc'[p].at = "post"
      /\ proc'[p].inv = i
  <2>1. proc \in [Requests -> Handler]
    BY DEF IndInv, TypeOK
  <2> QED
    BY <2>1 DEF Commit, MoveTo, Handler
<1>3. Base' = Base
  BY <1>1 DEF Base
<1>4. CASE plan[i] = 0
  <2>1. UNCHANGED <<org, activations>>
    BY <1>4 DEF Commit
  <2> QED
    BY <1>1, <1>2, <2>1, GrantFrame, GrantTypes DEF IndInv
<1>5. CASE plan[i] # 0
  <2>1. org' = proc[p].org /\ activations' = [activations EXCEPT ![i] = @ + 1]
    BY <1>5 DEF Commit
  <2>2. i \notin Applied /\ Applied' = Applied \cup {i}
    BY <1>1, <2>1 DEF Applied, IndInv, TypeOK
  <2>3. Cardinality(Applied') = Cardinality(Applied) + 1
    BY <2>2, GrantTypes, FS_AddElement DEF IndInv
  <2>4. SettlersWerePaid'
    BY <1>1, <1>2 DEF GrantInv, SettlersWerePaid, At
  <2>5. AppliedWerePaid'
    BY <1>1, <2>2 DEF GrantInv, AppliedWerePaid, SettlersWerePaid, At
  <2>6. org'.expiry <= Base' + Cardinality(Applied')
    BY <1>1, <1>3, <2>1, <2>3, GrantTypes DEF GrantInv, TimeCounted, At, IndInv
  <2>7. \A q \in Requests : At(q, "commit")' =>
            proc'[q].org.expiry <= Base' + Cardinality(Applied') + 1
    <3>1. \A q \in Requests : At(q, "commit")' => At(q, "commit") /\ proc'[q] = proc[q]
      BY <1>2 DEF At
    <3> QED
      BY <1>3, <2>3, <3>1, GrantTypes DEF GrantInv, TimeCounted, IndInv
  <2> QED
    BY <2>4, <2>5, <2>6, <2>7 DEF GrantInv, TimeCounted
<1> QED
  BY <1>4, <1>5

\* The steps that move on with a payment.
LEMMA GrantPayment ==
    ASSUME IndInv, IndInv', GrantInv, NEW p \in Requests,
           Verify(p) \/ Succeed(p) \/ CreateManualPayment(p)
    PROVE  GrantInv'
<1>1. /\ UNCHANGED <<now, org, activations, start>>
      /\ captured \subseteq captured' /\ manual \subseteq manual'
  BY DEF Verify, Succeed, CreateManualPayment, historyVars
<1>2. proc \in [Requests -> Handler]
  BY DEF IndInv, TypeOK
<1>3. CASE Verify(p)
  BY <1>1, <1>2, <1>3, GrantFrame, GrantTypes DEF Verify, MoveTo, Finish, Handler, Idle, IndInv
<1>4. CASE Succeed(p)
  BY <1>1, <1>2, <1>4, GrantFrame, GrantTypes
     DEF Succeed, MoveTo, Handler, IndInv, GrantInv, SettlersWerePaid
<1>5. CASE CreateManualPayment(p)
  BY <1>1, <1>2, <1>5, GrantFrame, GrantTypes DEF CreateManualPayment, MoveTo, Handler, IndInv
<1> QED
  BY <1>3, <1>4, <1>5
LEMMA GrantNext == IndInv /\ IndInv' /\ GrantInv /\ [Next]_vars => GrantInv'
<1> SUFFICES ASSUME IndInv, IndInv', GrantInv, [Next]_vars PROVE GrantInv'
  OBVIOUS
<1>1. proc \in [Requests -> Handler] /\ now \in Nat
  BY GrantTypes DEF IndInv, TypeOK
<1>2. CASE Tick \/ UNCHANGED vars \/ \E i \in Invoices : CreateDraft(i)
  <2>1. UNCHANGED <<org, captured, manual, proc, activations, start>> /\ now' >= now
    BY <1>1, <1>2 DEF Tick, vars, CreateDraft, moneyVars, historyVars
  <2> QED
    BY <2>1, GrantFrame
<1>3. ASSUME NEW p \in Requests,
             \/ \E i \in Invoices, buy \in Plans : Checkout(p, i, buy)
             \/ \E i \in Invoices :
                  \/ HandleCallback(p, i) \/ IssueInvoice(p, i) \/ MarkPaid(p, i)
                  \/ CancelInvoice(p, i) \/ RefundInvoice(p, i) \/ GeneratePDF(p, i)
                  \/ ExpireFind(p, i)
             \/ AssignNumber(p)
      PROVE  GrantInv'
  <2>1. UNCHANGED <<now, org, captured, manual, activations, start>>
    BY <1>3 DEF Checkout, HandleCallback, IssueInvoice, MarkPaid, CancelInvoice, RefundInvoice,
                GeneratePDF, ExpireFind, AssignNumber, moneyVars, historyVars
  <2>2. /\ \A q \in Requests \ {p} : proc'[q] = proc[q]
        /\ proc'[p].at \in {"number", "verify", "fail", "manual", "save", "flip", "create"}
    <3>1. CASE \E i \in Invoices, buy \in Plans : Checkout(p, i, buy)
      BY <1>1, <3>1 DEF Checkout, Handler
    <3>2. CASE AssignNumber(p)
      BY <1>1, <3>2 DEF AssignNumber, Handler
    <3>3. ASSUME NEW i \in Invoices, NEW s \in {"verify", "number", "manual", "flip"}, Begin(p, s, i)
          PROVE  (\A q \in Requests \ {p} : proc'[q] = proc[q]) /\ proc'[p].at = s
      BY <1>1, <3>3 DEF Begin, Handler
    <3>4. CASE \E i \in Invoices :
                  proc' = [proc EXCEPT ![p].at = "fail", ![p].inv = i, ![p].verdict = "canceled"]
      BY <1>1, <3>4 DEF Handler
    <3>5. CASE \E i \in Invoices : CancelInvoice(p, i) \/ RefundInvoice(p, i) \/ GeneratePDF(p, i)
      BY <1>1, <3>5 DEF CancelInvoice, RefundInvoice, GeneratePDF, Rewrite, Handler
    <3> QED
      BY <1>3, <3>1, <3>2, <3>3, <3>4, <3>5 DEF HandleCallback, IssueInvoice, MarkPaid, ExpireFind
  <2> QED
    BY <1>1, <2>1, <2>2, GrantFrame
<1>4. ASSUME NEW p \in Requests,
             \/ CreateInvoice(p) \/ RequestPayment(p) \/ CreatePayment(p) \/ FailPayment(p)
             \/ PostCommit(p) \/ SaveHeader(p) \/ ExpireFlip(p) \/ Crash(p)
      PROVE  GrantInv'
  <2>1. UNCHANGED <<now, org, captured, manual, activations, start>>
    BY <1>4 DEF CreateInvoice, RequestPayment, CreatePayment, FailPayment, PostCommit, SaveHeader,
                ExpireFlip, Crash, moneyVars, historyVars
  <2>2. Finish(p) \/ MoveTo(p, "request") \/ MoveTo(p, "payment")
    BY <1>4 DEF CreateInvoice, RequestPayment, CreatePayment, FailPayment, PostCommit, SaveHeader,
                ExpireFlip, Crash
  <2>3. /\ \A q \in Requests \ {p} : proc'[q] = proc[q]
        /\ proc'[p].at \in {"idle", "request", "payment"}
    BY <1>1, <2>2 DEF Finish, MoveTo, Handler, Idle
  <2> QED
    BY <1>1, <2>1, <2>3, GrantFrame
<1> QED
  BY <1>2, <1>3, <1>4, GrantLock, GrantCommit, GrantPayment DEF Next, Continue

\* The organization never has more time than what it began with and one interval
\* for every plan invoice whose money somebody confirmed.
THEOREM OnlyPaidTime == Spec => []NeverOverGranted
<1>1. IndInv /\ GrantInv => NeverOverGranted
  <2> SUFFICES ASSUME IndInv, GrantInv PROVE NeverOverGranted
    OBVIOUS
  <2>1. Applied \subseteq Funded
    BY DEF Applied, Funded, GrantInv, AppliedWerePaid, IndInv, ActivatedIsClosed
  <2>2. IsFiniteSet(Funded)
    BY BillingAssumption, FS_Subset DEF Funded
  <2>3. /\ Cardinality(Applied) <= Cardinality(Funded)
        /\ Cardinality(Applied) \in Nat /\ Cardinality(Funded) \in Nat
    BY <2>1, <2>2, FS_Subset, FS_CardinalityType
  <2> QED
    BY <2>3, GrantTypes DEF NeverOverGranted, GrantInv, TimeCounted, Base, IndInv
<1> QED
  BY <1>1, GrantInit, GrantNext, Inductive, PTL DEF Spec

-----------------------------------------------------------------------------
(* The refinement of PlanPurchases *)

\* A settlement that is about to commit brings the plan its invoice buys.
CommitBuys ==
    \A p \in Requests :
        At(p, "commit") /\ plan[proc[p].inv] # 0 => proc[p].org.plan = plan[proc[p].inv]

\* Only the locking read brings a handler to its commit.
LEMMA CommitSteps ==
    ASSUME IndInv, [Next]_vars, NEW p \in Requests, At(p, "commit")'
    PROVE  proc'[p] = proc[p] \/ LockInvoice(p)
<1> USE DEF IndInv, TypeOK, Handler
<1>1. proc \in [Requests -> Handler]
  OBVIOUS
<1>2. ASSUME NEW q \in Requests,
             \/ CreateInvoice(q) \/ RequestPayment(q) \/ CreatePayment(q) \/ Verify(q)
             \/ FailPayment(q) \/ Succeed(q) \/ AssignNumber(q)
      PROVE  proc'[p] = proc[p]
  BY <1>1, <1>2 DEF CreateInvoice, RequestPayment, CreatePayment, Verify, FailPayment, Succeed,
     AssignNumber, Finish, MoveTo, At, Idle
<1>3. ASSUME NEW q \in Requests,
             \/ Commit(q) \/ PostCommit(q) \/ CreateManualPayment(q) \/ SaveHeader(q)
             \/ ExpireFlip(q) \/ Crash(q)
      PROVE  proc'[p] = proc[p]
  BY <1>1, <1>3 DEF Commit, PostCommit, CreateManualPayment, SaveHeader, ExpireFlip, Crash,
     Finish, MoveTo, At, Idle
<1>4. ASSUME NEW q \in Requests, LockInvoice(q), q # p PROVE proc'[p] = proc[p]
  BY <1>1, <1>4 DEF LockInvoice, Finish
<1>5. ASSUME NEW q \in Requests, NEW i \in Invoices,
             \/ \E buy \in Plans : Checkout(q, i, buy)
             \/ HandleCallback(q, i) \/ IssueInvoice(q, i) \/ MarkPaid(q, i)
             \/ CancelInvoice(q, i) \/ RefundInvoice(q, i) \/ GeneratePDF(q, i)
             \/ ExpireFind(q, i)
      PROVE  proc'[p] = proc[p]
  BY <1>1, <1>5 DEF Checkout, HandleCallback, IssueInvoice, MarkPaid, CancelInvoice, RefundInvoice,
     GeneratePDF, ExpireFind, Rewrite, Begin, At
<1>6. CASE UNCHANGED vars \/ Tick \/ \E i \in Invoices : CreateDraft(i)
  BY <1>6 DEF vars, Tick, CreateDraft
<1> QED
  BY <1>2, <1>3, <1>4, <1>5, <1>6 DEF Next, Continue

LEMMA CommitBuysNext == IndInv /\ CommitBuys /\ [Next]_vars => CommitBuys'
<1> SUFFICES ASSUME IndInv, CommitBuys, [Next]_vars, NEW p \in Requests, At(p, "commit")',
                    plan'[proc'[p].inv] # 0
             PROVE  proc'[p].org.plan = plan'[proc'[p].inv]
  BY DEF CommitBuys
<1>1. CASE proc'[p] = proc[p]
  <2> DEFINE i == proc[p].inv
  <2>1. At(p, "commit")
    BY <1>1 DEF At
  <2>2. i \in Invoices /\ inv[i].status # "none"
    BY <2>1 DEF IndInv, CopiesKeepClosed, Knows, LockedIsPayable, At, Payable
  <2>3. plan'[i] = plan[i]
    BY <2>2, PlanSteps
  <2> QED
    BY <1>1, <2>1, <2>3 DEF CommitBuys
<1>2. CASE LockInvoice(p)
  <2> DEFINE i == proc[p].inv
  <2>1. plan' = plan /\ ~Finish(p)
    BY <1>2 DEF LockInvoice, Finish, At, Idle, IndInv, TypeOK
  <2>2. proc' = [proc EXCEPT ![p].at = "commit", ![p].copy = inv[i],
                     ![p].org = IF plan[i] = 0 THEN org ELSE NextPlanState(org, plan[i])]
    BY <1>2, <2>1 DEF LockInvoice
  <2>3. proc'[p].inv = i
    BY <2>2 DEF IndInv, TypeOK, Handler
  <2>4. proc'[p].org = IF plan[i] = 0 THEN org ELSE NextPlanState(org, plan[i])
    BY <2>2 DEF IndInv, TypeOK, Handler
  <2> QED
    BY <2>1, <2>3, <2>4 DEF NextPlanState
<1> QED
  BY <1>1, <1>2, CommitSteps

Settled == {i \in Invoices : activations[i] # 0}

Sells == [Purchases!Next]_<<org.plan, plan, Phase, captured \cup manual, Settled>>

\* A header is changed to a status nobody can pay any more.
LEMMA SellLabel ==
    ASSUME IndInv, NEW i \in Invoices, NEW s \in {"paid", "canceled", "expired", "refunded"},
           NEW h \in Header, h.status = s, inv' = [inv EXCEPT ![i] = h],
           plan[i] # 0 /\ s = "paid" => activations[i] # 0,
           UNCHANGED <<org, plan, captured, manual, activations>>
    PROVE  Sells
<1>1. \A j \in Invoices \ {i} : Phase'[j] = Phase[j]
  BY DEF Phase, IndInv, TypeOK
<1>2. inv'[i].status = s
  BY DEF IndInv, TypeOK
<1>3. UNCHANGED <<org.plan, plan, captured \cup manual, Settled>>
  BY DEF Settled
<1>4. CASE plan[i] = 0
  <2>1. Phase'[i] = Phase[i]
    BY <1>4 DEF Phase
  <2>2. Phase' = Phase
    BY <1>1, <2>1 DEF Phase
  <2> QED
    BY <1>3, <2>2 DEF Sells
<1>5. CASE plan[i] # 0
  <2>1. Phase'[i] = IF s = "paid" THEN "paid" ELSE "closed"
    BY <1>2, <1>5 DEF Phase, Payable
  <2>2. Phase[i] \in {"open", "paid", "closed"}
    BY <1>5 DEF Phase
  <2>3. s = "paid" => i \in Settled /\ Phase[i] # "open"
    BY <1>5 DEF Settled, Phase, IndInv, ActivatedIsClosed
  <2>4. CASE Phase'[i] = Phase[i]
    <3>1. Phase' = Phase
      BY <1>1, <2>4 DEF Phase
    <3> QED
      BY <1>3, <3>1 DEF Sells
  <2>5. CASE Phase'[i] # Phase[i]
    <3>1. \A j \in Invoices : Phase'[j] = IF j = i THEN Phase'[i] ELSE Phase[j]
      BY <1>1
    <3>2. Phase = [j \in Invoices |-> Phase[j]] /\ Phase' = [j \in Invoices |-> Phase'[j]]
      BY DEF Phase
    <3>3. Phase' = [Phase EXCEPT ![i] = Phase'[i]]
      BY <3>1, <3>2
    <3>4. CASE s = "paid"
      BY <1>3, <2>1, <2>2, <2>3, <2>5, <3>3, <3>4 DEF Sells, Settled, Purchases!Next, Purchases!Recall
    <3>5. CASE s # "paid"
      BY <1>3, <2>1, <2>2, <2>5, <3>3, <3>5 DEF Sells, Settled, Purchases!Next, Purchases!Close
    <3> QED
      BY <3>4, <3>5
  <2> QED
    BY <2>4, <2>5
<1> QED
  BY <1>4, <1>5

LEMMA SellCreate ==
    ASSUME IndInv, NEW p \in Requests, CreateInvoice(p)
    PROVE  Sells
<1> DEFINE i == proc[p].inv
           b == proc[p].buy
<1>1. /\ i \in Invoices /\ b \in 1..MaxRank
      /\ inv[i].status = "none" /\ plan[i] = 0
      /\ proc[p].copy \in Header /\ proc[p].copy.status = "pending"
      /\ UNCHANGED <<org, captured, manual, activations>>
  BY BillingAssumption DEF CreateInvoice, At, IndInv, TypeOK, Handler, Plans, CopiesKeepClosed, Knows,
     CreatorsAlone, Creating, DraftsBuyNothing, moneyVars, historyVars
<1>2. CASE UNCHANGED <<inv, plan>>
  BY <1>1, <1>2 DEF Sells, Settled, Phase
<1>3. CASE inv' = [inv EXCEPT ![i] = proc[p].copy] /\ plan' = [plan EXCEPT ![i] = b]
  <2>1. Phase[i] = "none"
    BY <1>1 DEF Phase
  <2>2. Phase'[i] = "open"
    BY <1>1, <1>3 DEF Phase, Payable, IndInv, TypeOK
  <2>3. \A j \in Invoices \ {i} : Phase'[j] = Phase[j]
    BY <1>1, <1>3 DEF Phase, IndInv, TypeOK
  <2>4. \A j \in Invoices : Phase'[j] = IF j = i THEN "open" ELSE Phase[j]
    BY <2>2, <2>3
  <2>5. Phase = [j \in Invoices |-> Phase[j]] /\ Phase' = [j \in Invoices |-> Phase'[j]]
    BY DEF Phase
  <2>6. Phase' = [Phase EXCEPT ![i] = "open"]
    BY <2>4, <2>5
  <2>7. Purchases!Open(i)
    BY <1>1, <1>3, <2>1, <2>6 DEF Purchases!Open
  <2> QED
    BY <1>1, <2>7 DEF Sells, Purchases!Next
<1> QED
  BY <1>2, <1>3 DEF CreateInvoice

LEMMA SellCommit ==
    ASSUME IndInv, GrantInv, CommitBuys, NEW p \in Requests, Commit(p)
    PROVE  Sells
<1>0. PICK i \in Invoices : i = proc[p].inv
  BY DEF Commit, At, IndInv, CopiesKeepClosed, Knows
<1>h. PICK h : h = [proc[p].copy EXCEPT !.status = "paid"]
  OBVIOUS
<1>1. /\ inv[i].status \in Payable /\ activations[i] = 0
      /\ i \in captured \cup manual
      /\ plan[i] # 0 => proc[p].org.plan = plan[i]
      /\ inv' = [inv EXCEPT ![i] = h]
      /\ UNCHANGED <<plan, captured, manual>>
  BY <1>0, <1>h DEF Commit, At, IndInv, TypeOK, CopiesKeepClosed, Knows, LockedIsPayable,
     ActivatedIsClosed, GrantInv, SettlersWerePaid, CommitBuys, moneyVars
<1>2. h \in Header /\ h.status = "paid"
  BY <1>h DEF IndInv, TypeOK, Handler, Header, Statuses
<1>3. CASE plan[i] = 0
  <2>1. UNCHANGED <<org, activations>>
    BY <1>0, <1>3 DEF Commit
  <2> QED
    BY <1>1, <1>2, <1>3, <2>1, SellLabel
<1>4. CASE plan[i] # 0
  <2>1. org'.plan = plan[i] /\ activations' = [activations EXCEPT ![i] = @ + 1]
    BY <1>0, <1>1, <1>4 DEF Commit
  <2>2. i \notin Settled /\ Settled' = Settled \cup {i}
    BY <1>1, <2>1 DEF Settled, IndInv, TypeOK
  <2>3. inv'[i].status = "paid"
    BY <1>1, <1>2 DEF IndInv, TypeOK
  <2>4. Phase[i] = "open" /\ Phase'[i] = "paid"
    BY <1>1, <1>4, <2>3 DEF Phase, Payable
  <2>5. \A j \in Invoices : Phase'[j] = IF j = i THEN "paid" ELSE Phase[j]
    BY <1>1, <2>4 DEF Phase, IndInv, TypeOK
  <2>6. Phase = [j \in Invoices |-> Phase[j]] /\ Phase' = [j \in Invoices |-> Phase'[j]]
    BY DEF Phase
  <2>7. Phase' = [Phase EXCEPT ![i] = "paid"]
    BY <2>5, <2>6
  <2>8. Purchases!Settle(i)
    BY <1>1, <2>1, <2>2, <2>4, <2>7 DEF Purchases!Settle, Settled
  <2> QED
    BY <2>8 DEF Sells, Purchases!Next
<1> QED
  BY <1>3, <1>4

LEMMA SellSave ==
    ASSUME IndInv, PaidCopies, NEW p \in Requests, SaveHeader(p)
    PROVE  Sells
<1> DEFINE i == proc[p].inv
<1>1. /\ i \in Invoices /\ proc[p].copy \in Header
      /\ proc[p].copy.status \notin {"none", "draft"}
      /\ plan[i] # 0 => proc[p].copy.status # "pending"
      /\ plan[i] # 0 /\ proc[p].copy.status = "paid" => activations[i] # 0
      /\ inv' = inv \/ inv' = [inv EXCEPT ![i] = proc[p].copy]
      /\ UNCHANGED <<org, plan, captured, manual, activations>>
  BY DEF SaveHeader, At, IndInv, TypeOK, Handler, CopiesKeepClosed, Knows, PaidCopies, moneyVars,
     historyVars
<1>2. CASE inv' = inv
  BY <1>1, <1>2 DEF Sells, Settled, Phase
<1>3. CASE inv' = [inv EXCEPT ![i] = proc[p].copy] /\ plan[i] = 0
  <2>1. Phase' = Phase
    BY <1>1, <1>3 DEF Phase, IndInv, TypeOK
  <2> QED
    BY <1>1, <2>1 DEF Sells, Settled
<1>4. CASE inv' = [inv EXCEPT ![i] = proc[p].copy] /\ plan[i] # 0
  <2>1. proc[p].copy.status \in {"paid", "canceled", "expired", "refunded"}
    BY <1>1, <1>4 DEF Header, Statuses, Payable
  <2> QED
    BY <1>1, <1>4, <2>1, SellLabel
<1> QED
  BY <1>1, <1>2, <1>3, <1>4

LEMMA SellExpire ==
    ASSUME IndInv, NEW p \in Requests, ExpireFlip(p)
    PROVE  Sells
<1> DEFINE i == proc[p].inv
           h == [inv[i] EXCEPT !.status = "expired"]
<1>1. /\ i \in Invoices /\ inv' = [inv EXCEPT ![i] = h]
      /\ UNCHANGED <<org, plan, captured, manual, activations>>
  BY DEF ExpireFlip, At, IndInv, TypeOK, CopiesKeepClosed, Knows, moneyVars, historyVars
<1>2. h \in Header /\ h.status = "expired"
  BY <1>1 DEF IndInv, TypeOK, Header, Statuses
<1> QED
  BY <1>1, <1>2, SellLabel

\* What nobody outside sees, and a payment.
LEMMA SellOthers ==
    ASSUME IndInv, UNCHANGED <<org, plan, inv, activations>>,
           \/ UNCHANGED <<captured, manual>>
           \/ \E i \in Invoices : captured' = captured \cup {i} /\ manual' = manual
           \/ \E i \in Invoices : manual' = manual \cup {i} /\ captured' = captured
    PROVE  Sells
<1>1. UNCHANGED <<org.plan, plan, Phase, Settled>>
  BY DEF Phase, Settled
<1>2. CASE UNCHANGED <<captured, manual>>
  BY <1>1, <1>2 DEF Sells
<1>3. ASSUME NEW i \in Invoices, (captured \cup manual)' = (captured \cup manual) \cup {i} PROVE Sells
  BY <1>1, <1>3 DEF Sells, Settled, Purchases!Next, Purchases!Pay
<1> QED
  BY <1>2, <1>3

LEMMA SellNext ==
    ASSUME IndInv, PaidCopies, GrantInv, CommitBuys, [Next]_vars
    PROVE  Sells
<1>1. ASSUME NEW p \in Requests,
             \/ AssignNumber(p) \/ RequestPayment(p) \/ CreatePayment(p) \/ FailPayment(p)
             \/ Succeed(p) \/ LockInvoice(p) \/ PostCommit(p) \/ Crash(p)
      PROVE  Sells
  BY <1>1, SellOthers DEF AssignNumber, RequestPayment, CreatePayment, FailPayment, Succeed,
     LockInvoice, PostCommit, Crash, moneyVars, historyVars
<1>2. ASSUME NEW p \in Requests, Verify(p) \/ CreateManualPayment(p) PROVE Sells
  <2>1. proc[p].inv \in Invoices
    BY <1>2 DEF Verify, CreateManualPayment, At, IndInv, CopiesKeepClosed, Knows
  <2> QED
    BY <1>2, <2>1, SellOthers DEF Verify, CreateManualPayment, historyVars
<1>3. ASSUME NEW q \in Requests, NEW i \in Invoices,
             \/ \E buy \in Plans : Checkout(q, i, buy)
             \/ HandleCallback(q, i) \/ IssueInvoice(q, i) \/ MarkPaid(q, i)
             \/ CancelInvoice(q, i) \/ RefundInvoice(q, i) \/ GeneratePDF(q, i)
             \/ ExpireFind(q, i)
      PROVE  Sells
  BY <1>3, SellOthers DEF Checkout, HandleCallback, IssueInvoice, MarkPaid, CancelInvoice,
     RefundInvoice, GeneratePDF, ExpireFind, moneyVars, historyVars
<1>4. ASSUME NEW i \in Invoices, CreateDraft(i) PROVE Sells
  <2>1. plan[i] = 0
    BY <1>4 DEF CreateDraft, Blank, IndInv, DraftsBuyNothing
  <2>2. Phase' = Phase
    BY <1>4, <2>1 DEF CreateDraft, Phase, IndInv, TypeOK
  <2> QED
    BY <1>4, <2>2 DEF CreateDraft, Sells, Settled, moneyVars, historyVars
<1>5. CASE Tick \/ UNCHANGED vars
  BY <1>5, SellOthers DEF Tick, vars, moneyVars, historyVars
<1> QED
  BY <1>1, <1>2, <1>3, <1>4, <1>5, SellCreate, SellCommit, SellSave, SellExpire DEF Next, Continue

\* The sale of plans implements PlanPurchases: one settlement of an open invoice whose
\* money was seen is all that changes the plan, and no stale header undoes or repeats it.
THEOREM Refinement == Spec => ImplementsPurchases
<1>1. Init => Purchases!Init
  BY DEF Init, Purchases!Init, Phase
<1>2. Init => CommitBuys
  BY DEF Init, CommitBuys, At, Idle
<1>3. IndInv /\ PaidCopies /\ GrantInv /\ CommitBuys /\ [Next]_vars
        => [Purchases!Next]_(Purchases!vars)
  BY SellNext DEF Sells, Settled, Purchases!vars
<1> QED
  BY <1>1, <1>2, <1>3, CommitBuysNext, PaidInit, PaidNext, GrantInit, GrantNext, Inductive, PTL
     DEF Spec, ImplementsPurchases, Purchases!Spec
=============================================================================
