--------------------------- MODULE PlanPurchases ---------------------------
(***************************************************************************)
(* What the sale of plans promises: an organization's plan is the one of   *)
(* the last invoice it settled, an invoice is settled at most once, while  *)
(* it is open, and only when somebody has seen its money.  What is closed  *)
(* is never open again, and it is not called paid before it is settled.    *)
(***************************************************************************)
CONSTANTS
    Invoices,
    Tiers      \* what an invoice can buy

VARIABLES
    tier,     \* the organization's plan
    buys,     \* the tier each invoice buys, 0 while it buys none
    phase,    \* "none", "open", "paid" or "closed"
    paid,     \* the invoices whose money has been seen
    settled   \* the invoices that have been settled

vars == <<tier, buys, phase, paid, settled>>

Init ==
    /\ buys = [i \in Invoices |-> 0]
    /\ phase = [i \in Invoices |-> "none"]
    /\ paid = {}
    /\ settled = {}

Open(i) ==
    /\ phase[i] = "none"
    /\ phase' = [phase EXCEPT ![i] = "open"]
    /\ \E b \in Tiers : buys' = [buys EXCEPT ![i] = b]
    /\ UNCHANGED <<tier, paid, settled>>

Pay(i) ==
    /\ paid' = paid \cup {i}
    /\ UNCHANGED <<tier, buys, phase, settled>>

Settle(i) ==
    /\ phase[i] = "open"
    /\ i \in paid \ settled
    /\ phase' = [phase EXCEPT ![i] = "paid"]
    /\ settled' = settled \cup {i}
    /\ tier' = buys[i]
    /\ UNCHANGED <<buys, paid>>

\* Canceled or expired, or refunded after it was paid.
Close(i) ==
    /\ phase[i] \in {"open", "paid"}
    /\ phase' = [phase EXCEPT ![i] = "closed"]
    /\ UNCHANGED <<tier, buys, paid, settled>>

\* A closed invoice that was settled may be called paid again.
Recall(i) ==
    /\ phase[i] = "closed" /\ i \in settled
    /\ phase' = [phase EXCEPT ![i] = "paid"]
    /\ UNCHANGED <<tier, buys, paid, settled>>

Next == \E i \in Invoices : Open(i) \/ Pay(i) \/ Settle(i) \/ Close(i) \/ Recall(i)

Spec == Init /\ [][Next]_vars
=============================================================================
