------------------------------- MODULE MCLoop -------------------------------
(***************************************************************************)
(* Small instances of Loop: a channel, a timer and the ticker of the loop. *)
(***************************************************************************)
EXTENDS Loop

CONSTANTS after, timer, ticker

=============================================================================
