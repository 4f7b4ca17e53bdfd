----------------------------- MODULE ChainNode -----------------------------
(***************************************************************************)
(* The blockchain as the wallet sees it through rpcclient (client.go): a   *)
(* canonical chain of headers that grows at the tip and whose last blocks  *)
(* may be replaced (a reorganisation).  The node is outside the            *)
(* repository; it is modelled from how GetBlockHeader and GetBlockInfo     *)
(* read it.                                                                *)
(*                                                                         *)
(* A block is named by its number and the branch it was mined on, and that *)
(* pair stands for its hash: every reorganisation opens a fresh branch, so *)
(* two blocks have the same hash only when they are the same block.        *)
(***************************************************************************)
EXTENDS Integers, SequencesExt

CONSTANTS
    InitHeight,   \* tip of the chain when the model starts
    MaxHeight,    \* bound: the chain is not mined beyond this height
    MaxReorgs,    \* bound: number of reorganisations
    MaxDepth,     \* a reorganisation replaces at most this many blocks
    None          \* Go's nil header

ASSUME ChainAssumption ==
    /\ InitHeight \in Nat \ {0}
    /\ MaxHeight \in Nat
    /\ MaxReorgs \in Nat
    /\ MaxDepth \in Nat

VARIABLES
    chain,        \* chain[n] is the branch of the canonical block number n
    branch        \* branch new blocks are mined on

chainVars == <<chain, branch>>

Height == Len(chain)

BlockHash == Nat \X Nat
Header == [number : Nat, hash : BlockHash, parent : BlockHash]

ASSUME NoneAssumption == None \notin Header

\* The genesis block, number 0, is never replaced.
HashAt(n) == IF n = 0 THEN <<0, 0>> ELSE <<n, chain[n]>>

HeaderAt(n) == [number |-> n, hash |-> HashAt(n), parent |-> HashAt(n - 1)]

\* GetBlockHeader(number): a nil number is sent as height 0, so a request for
\* block 0 cannot be told from a request for the latest block.
GetBlockHeader(number) == HeaderAt(IF number = 0 THEN Height ELSE number)

ChainInit ==
    /\ chain = [n \in 1..InitHeight |-> 0]
    /\ branch = 0

Mine ==
    /\ Height < MaxHeight
    /\ chain' = Append(chain, branch)
    /\ UNCHANGED branch

\* The last depth blocks give way to as many of a fresh branch.  A branch
\* that wins by being longer is this step followed by Mine.
Reorg ==
    /\ branch < MaxReorgs
    /\ \E depth \in 1..MaxDepth :
           /\ depth <= Height
           /\ chain' = [n \in 1..Height |->
                            IF n > Height - depth THEN branch + 1 ELSE chain[n]]
    /\ branch' = branch + 1

ChainTypeOK ==
    /\ chain \in Seq(Nat)
    /\ Height >= InitHeight
    /\ branch \in Nat

=============================================================================
