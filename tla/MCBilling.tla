----------------------------- MODULE MCBilling -----------------------------
(* Billing for TLC: invoices and handlers are interchangeable, and states   *)
(* are one that differ only in what no later step reads: the verdict on a   *)
(* payment, and what a handler still holds of a row past its last use of it. *)
EXTENDS Billing, TLC

Symmetry == Permutations(Requests) \cup Permutations(Invoices)

InUse(h) ==
    [h EXCEPT !.verdict = "failed",
              !.buy  = IF h.at \in {"number", "create"} THEN h.buy ELSE 0,
              !.copy = IF h.at \in {"number", "create", "commit", "save"} THEN h.copy ELSE Blank,
              !.org  = IF h.at = "commit" THEN h.org ELSE Idle.org]

Read == <<now, org, plan, inv, {i \in Invoices : pay[i] # "none"}, manual, captured,
          lock, jobs, [p \in Requests |-> InUse(proc[p])], activations, start>>
=============================================================================
