----------------------------- MODULE BlockScan -----------------------------
(***************************************************************************)
(* The scanning pipeline: the chain, the synchronizer, the Fallback task   *)
(* and the Finder's loop running side by side (worker/entry.go starts      *)
(* them), with failures of the node and the database and with the death    *)
(* and restart of the process, which keeps only what the database holds.   *)
(***************************************************************************)
EXTENDS Fallback, FinderLoop

vars == <<chainVars, dbVars, sharedVars, frameVars, up, faults, fbVars, finderVars>>

Init == ChainInit /\ SyncInit /\ FallbackIdle /\ FinderIdle /\ recorded = <<>>

-----------------------------------------------------------------------------
ChainStep ==
    /\ Mine \/ Reorg
    /\ UNCHANGED <<dbVars, sharedVars, frameVars, up, faults, fbVars, finderVars>>

SyncStep ==
    /\ \/ TickFetch \/ FetchHeader \/ FetchLastHeader \/ FetchReorg
       \/ MarkFallback \/ MarkFallbackHeader \/ AlreadyMarked
       \/ TickRetry \/ ScanBlock \/ StoreBlocks \/ StoreConflict
    /\ UNCHANGED <<chainVars, fbVars, finderVars>>

SyncFault ==
    /\ FetchError \/ ScanBlockEmpty \/ ProcessError \/ StoreLostAck
    /\ UNCHANGED <<chainVars, fbVars, finderVars>>

\* The unbuffered channel: sender and receiver proceed together.
PushBatch ==
    /\ SendBatch /\ FinderReceive(batch)
    /\ UNCHANGED <<chainVars, fbVars>>

FinderStep ==
    /\ up /\ HandleBatch
    /\ UNCHANGED <<chainVars, dbVars, sharedVars, frameVars, up, faults, fbVars>>

FinderFault ==
    /\ up /\ (HandleBatchFails \/ ConfirmationsFail) /\ Fault("finder_error")
    /\ UNCHANGED <<chainVars, dbVars, sharedVars, frameVars, up, fbVars>>

FallbackStep ==
    /\ \/ FallbackTick \/ ReadChainBlock \/ ReadRow \/ ReadRowMissing
       \/ PersistFallback \/ PersistConflict
       \/ (ReadNewest /\ UNCHANGED faults)
       \/ SwapBatchBlock \/ ClearFlag \/ ClearHeader
    /\ UNCHANGED <<chainVars, finderVars>>

FallbackFault ==
    /\ FallbackError \/ (ReadNewest /\ faults' # faults)
    /\ UNCHANGED <<chainVars, finderVars>>

-----------------------------------------------------------------------------
\* The process goes down with all its memory.
ProcessExit ==
    /\ up /\ up' = FALSE
    /\ SyncForget /\ FallbackForget /\ FinderForget
    /\ UNCHANGED <<chainVars, dbVars>>

Crash == Fault("crash") /\ ProcessExit

\* A reply with ReturnCode_ERROR makes GetBlockHeader return (nil, nil), which
\* NextHeaders and findFallbackEntry dereference.
NilHeaderPanic ==
    /\ spc = "fetch" \/ fpc = "chain"
    /\ Fault("code_error")
    /\ ProcessExit

\* The flag is up and the header is not there: the panic is recovered by
\* tasks.Group, whose HandleCrit shuts the process down.
NilFallbackPanic ==
    /\ fpc = "wait" /\ isFallback /\ fallbackHeader = None
    /\ UNCHANGED faults
    /\ ProcessExit

\* The supervisor starts the process again.
Start ==
    /\ NewSynchronizer
    /\ UNCHANGED <<chainVars, fbVars, finderVars>>

Next ==
    \/ ChainStep \/ SyncStep \/ SyncFault \/ PushBatch
    \/ FinderStep \/ FinderFault \/ FallbackStep \/ FallbackFault
    \/ Crash \/ NilHeaderPanic \/ NilFallbackPanic \/ Start

Spec == Init /\ [][Next]_vars

\* The loops of the process run on timers and on a channel, independent of one
\* another, and a supervisor restarts it.  Nothing is asked of the chain.
Fairness ==
    /\ WF_vars(Start)
    /\ WF_vars(SyncStep)
    /\ WF_vars(PushBatch)
    /\ WF_vars(FinderStep)
    /\ WF_vars(FallbackStep \/ NilFallbackPanic)

FairSpec == Spec /\ Fairness

-----------------------------------------------------------------------------
\* Type correctness of every variable of the pipeline.
TypeOK ==
    /\ ChainTypeOK /\ SyncTypeOK /\ FallbackTypeOK
    /\ finder \in {"select", "busy", "dead"}
    /\ inHand \in Seq(Transfer) /\ recorded \in Seq(Transfer)

\* The circumstances the confirmations are meant for: reorganisations no deeper
\* than they are, a configured height to start from that is out of their reach,
\* and a node that answers or fails, without error codes.
Settled ==
    /\ MaxDepth <= Confirmations
    /\ StartHeight > 0 /\ StartHeight + MaxDepth <= InitHeight
    /\ "code_error" \notin Faults

\* With reorganisations no deeper than the confirmations, what the scan has
\* stored is, number by number without a gap, a stretch of the canonical chain.
CanonicalStore ==
    /\ \A b \in blocks :
           /\ b.number \in 1..ConfirmedHeight
           /\ b = HeaderAt(b.number)
    /\ \A b, c \in blocks : \A n \in b.number..c.number :
           \E d \in blocks : d.number = n

\* In the same circumstances no reorganisation is ever flagged.
NeverFallback == ~isFallback /\ fallbackHeader = None

\* Whatever the reorganisations, a recorded transfer belongs to a block that
\* blocks or reorg_blocks knows: processBatch stores before it pushes.
Known(hash) == \E b \in blocks \union reorgBlocks : b.hash = hash
RecordedIsKnown == \A i \in DOMAIN recorded : Known(recorded[i].block)

\* A block is recorded again only after a fallback has deleted it.
RecordedOncePerStore ==
    \A i, j \in DOMAIN recorded :
        i < j /\ recorded[i].block = recorded[j].block
            => \E b \in reorgBlocks : b.hash = recorded[i].block

\* The transactions recorded under a block are the transactions of that block.
RecordedFromItsBlock ==
    \A i \in DOMAIN recorded : recorded[i].block = recorded[i].source

\* A block with business transactions is stored after its push to the Finder.
PushedBeforeStored ==
    \A b \in blocks :
        b.hash \in BusinessBlocks
            => \E t \in ToSet(inHand) \union ToSet(recorded) : t.block = b.hash

\* Once both writes of tick are done, the flag has its header.
FlagKeepsHeader == isFallback /\ spc # "markHeader" => fallbackHeader # None

\* What a fallback deletes is no longer part of the chain.
DeletedIsOrphan ==
    [][\A b \in blocks \ blocks' : b # HeaderAt(b.number)]_vars

\* Rows the chain has given up find their place in reorg_blocks.
BackupFits ==
    /\ fpc = "persist"
    /\ \A row \in rows : row # HeaderAt(row.number)
    => ~UniqueViolation(reorgBlocks, rows)

\* A flag raised is taken down again, whatever becomes of the fallback.
FallbackServed == isFallback ~> ~isFallback

Stored(n) == \E b \in blocks : b.number = n

\* A block deep enough is stored in the end, unless the Finder has died: the
\* process then runs on with nobody to read the channel.
CaughtUp ==
    \A n \in (StartHeight + 1)..MaxHeight :
        n + Confirmations <= Height ~> Stored(n) \/ finder = "dead"

\* The transactions of a block in hand are recorded whatever has to be retried,
\* as long as neither the process nor the Finder dies.
TakenIsRecorded ==
    \A hash \in BusinessBlocks :
        (\E header \in ToSet(headers) : header.hash = hash)
            ~> \/ \E t \in ToSet(recorded) : t.block = hash
               \/ ~up \/ finder = "dead"

-----------------------------------------------------------------------------
\* The pipeline as a reader of the confirmed chain.
ConfirmedChain == [n \in 1..ConfirmedHeight |-> HashAt(n)]
BlocksOf(transfers) == [i \in DOMAIN transfers |-> transfers[i].block]
InFlight == inHand \o (IF spc = "send" THEN batch ELSE <<>>)

Feed == INSTANCE BlockFeed WITH
    Begin <- StartHeight,
    BlockSet <- BlockHash,
    Business <- BusinessBlocks,
    log <- ConfirmedChain,
    position <- IF blocks = {} THEN StartHeight ELSE LatestBlock.number,
    queue <- BlocksOf(InFlight),
    done <- BlocksOf(recorded)

\* With reorganisations no deeper than the confirmations the pipeline reads
\* the confirmed chain as BlockFeed does: in order, once, losing at most what
\* was in flight when the process or the Finder died.
ReadsConfirmedChain == Feed!Spec

=============================================================================
