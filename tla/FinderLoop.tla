----------------------------- MODULE FinderLoop -----------------------------
(***************************************************************************)
(* The Finder's goroutine (worker/finder.go) seen from the channel it      *)
(* reads: it receives one batch at a time, and handleBatch either records  *)
(* it in one database transaction or fails, which ends the goroutine for   *)
(* good while the process runs on; so does a tick of handleConfirmations   *)
(* that cannot read the businesses.                                        *)
(***************************************************************************)
EXTENDS Sequences

VARIABLES
    finder,       \* "select" | "busy" | "dead"
    inHand,       \* batch given to handleBatch
    recorded      \* transfers recorded in the database, in commit order

finderVars == <<finder, inHand, recorded>>

FinderReceive(sent) ==
    /\ finder = "select"
    /\ finder' = "busy" /\ inHand' = sent
    /\ UNCHANGED recorded

HandleBatch ==
    /\ finder = "busy"
    /\ recorded' = recorded \o inHand
    /\ finder' = "select" /\ inHand' = <<>>

\* An RPC error, a transaction the node does not know, no business in the
\* table, or ten failed attempts of the database transaction.
HandleBatchFails ==
    /\ finder = "busy"
    /\ finder' = "dead" /\ inHand' = <<>>
    /\ UNCHANGED recorded

\* The businesses cannot be read for a tick of the confirmations.
ConfirmationsFail ==
    /\ finder = "select"
    /\ finder' = "dead" /\ inHand' = <<>>
    /\ UNCHANGED recorded

FinderForget ==
    /\ finder' = "select" /\ inHand' = <<>>
    /\ UNCHANGED recorded

FinderIdle == finder = "select" /\ inHand = <<>>

=============================================================================
