----------------------------- MODULE BlockFeed -----------------------------
(***************************************************************************)
(* What the scanning pipeline promises when the confirmed part of the      *)
(* chain does not change: it reads an append-only log of blocks from left  *)
(* to right.  Every block is taken once; those with business transactions  *)
(* pass through a short queue and are recorded in log order; a failure can *)
(* only drop what is in the queue, and what it drops is never read again.  *)
(***************************************************************************)
EXTENDS Integers, SequencesExt, Lists

CONSTANTS
    Begin,             \* number of the block before the first one to read
    BlockSet,          \* the blocks
    Business           \* the blocks with business transactions

VARIABLES
    log,               \* the confirmed chain
    position,          \* number of the last block taken
    queue,             \* business blocks taken and not recorded yet
    done               \* business blocks recorded, in order

feedVars == <<log, position, queue, done>>

Init ==
    /\ log \in Seq(BlockSet)
    /\ position = Begin
    /\ queue = <<>> /\ done = <<>>

\* The chain confirms one more block.
Confirm ==
    /\ log' # <<>> /\ Front(log') = log /\ Last(log') \in BlockSet
    /\ UNCHANGED <<position, queue, done>>

\* Take the blocks up to number n.
Take ==
    /\ \E n \in (position + 1)..Len(log) :
           /\ position' = n
           /\ queue' = queue \o Chosen(SubSeq(log, position + 1, n), Business)
    /\ UNCHANGED <<log, done>>

Record ==
    /\ \E k \in 1..Len(queue) :
           /\ done' = done \o SubSeq(queue, 1, k)
           /\ queue' = SubSeq(queue, k + 1, Len(queue))
    /\ UNCHANGED <<log, position>>

Lose ==
    /\ \E k \in 1..Len(queue) : queue' = SubSeq(queue, k + 1, Len(queue))
    /\ UNCHANGED <<log, position, done>>

Next == Confirm \/ Take \/ Record \/ Lose

Spec == Init /\ [][Next]_feedVars

=============================================================================
