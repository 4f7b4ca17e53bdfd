---------------------------- MODULE MCLifecycle ----------------------------
(***************************************************************************)
(* Three workers: one that reports errors, as the Finder and Internal do,  *)
(* one that swallows them, as Withdraw, and one that logs them, as the     *)
(* Fallback and the Notifier.                                              *)
(***************************************************************************)
EXTENDS Lifecycle

MCSwallows == {2}
MCLogs == {3}

=============================================================================
