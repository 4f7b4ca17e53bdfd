------------------------------ MODULE Payments ------------------------------
(***************************************************************************)
(* What the outgoing side of the wallet promises to a business: each order *)
(* it has authorised is paid on the chain at most once, and an order is    *)
(* reported as paid only when it has been.  A report may be repeated.      *)
(***************************************************************************)
EXTENDS SequencesExt

CONSTANT Orders

VARIABLES
    paid,         \* orders paid on the chain, in chain order
    reported      \* orders reported to the business

payVars == <<paid, reported>>

Init == paid = <<>> /\ reported = {}

Pay ==
    /\ \E order \in Orders \ ToSet(paid) : paid' = Append(paid, order)
    /\ UNCHANGED reported

Report ==
    /\ \E orders \in SUBSET ToSet(paid) : reported' = reported \union orders
    /\ UNCHANGED paid

Next == Pay \/ Report

Spec == Init /\ [][Next]_payVars

=============================================================================
