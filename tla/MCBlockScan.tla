---------------------------- MODULE MCBlockScan ----------------------------
(***************************************************************************)
(* Small instances of BlockScan: which blocks carry business transactions. *)
(***************************************************************************)
EXTENDS BlockScan

CONSTANT BusinessHeights   \* heights whose blocks carry them, on any branch

MCBusinessBlocks == {<<n, b>> : n \in BusinessHeights, b \in 0..MaxReorgs}

=============================================================================
