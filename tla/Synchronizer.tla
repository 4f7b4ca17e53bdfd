---------------------------- MODULE Synchronizer ----------------------------
(***************************************************************************)
(* BaseSynchronizer (worker/synchronizer.go) and the BatchBlock it scans   *)
(* with (rpcclient/batch_block.go): one loop that, on every tick, retries  *)
(* the batch of headers it holds or fetches the next one, reads the        *)
(* transactions of each block, stores the headers and pushes the batch to  *)
(* the Finder.  Each RPC call, database call and unlocked write to a field *)
(* shared with the Fallback task is a step of its own.                     *)
(*                                                                         *)
(* The tables blocks and reorg_blocks are declared here; both carry the    *)
(* constraints of migrations/00001_create_schema.sql.                      *)
(***************************************************************************)
EXTENDS ChainNode

CONSTANTS
    StartHeight,     \* chain_node.starting_height, 0 when not configured
    Confirmations,   \* chain_node.confirmations
    BlocksStep,      \* chain_node.blocks_step, headers fetched per tick
    BusinessBlocks,  \* hashes of the blocks with transactions of a business
    Faults,          \* kinds of failure the environment may inject
    MaxFaults        \* bound: number of failures injected

ASSUME SyncAssumption ==
    /\ StartHeight \in 0..InitHeight
    /\ Confirmations \in Nat
    /\ BlocksStep \in Nat \ {0}
    /\ BusinessBlocks \subseteq BlockHash
    /\ Faults \subseteq {"rpc_error", "code_error", "db_error", "lost_ack",
                         "finder_error", "crash"}
    /\ MaxFaults \in Nat

VARIABLES
    blocks,          \* table blocks: the headers the scan has stored
    reorgBlocks,     \* table reorg_blocks: headers backed up by a fallback
    up,              \* is the process running
    spc,             \* what the synchronizer's goroutine is about to do
    lastTraversed,   \* blockBatch.lastTraversedHeader
    isFallback,      \* shared with the Fallback task, no lock
    fallbackHeader,  \* fallbackBlockHeader, shared likewise
    headers,         \* syncer.headers, kept until they are processed
    fetch,           \* frame of NextHeaders: the object and range it works on
    got,             \* frame of NextHeaders: headers fetched so far
    scanned,         \* frame of processBatch: number of blocks read
    batch,           \* frame of processBatch: transactions for the Finder
    faults           \* failures injected so far

dbVars == <<blocks, reorgBlocks>>
sharedVars == <<lastTraversed, isFallback, fallbackHeader>>
frameVars == <<spc, headers, fetch, got, scanned, batch>>

Fault(kind) ==
    /\ kind \in Faults
    /\ faults < MaxFaults
    /\ faults' = faults + 1

-----------------------------------------------------------------------------
\* The goroutine's frame outside a tick; what outlives a tick is headers.

NoFetch == [last |-> None, next |-> 0, end |-> 0, current |-> FALSE]

EndTick ==
    /\ spc' = "idle"
    /\ fetch' = NoFetch /\ got' = <<>>
    /\ scanned' = 0 /\ batch' = <<>>

-----------------------------------------------------------------------------
\* The tables.

\* hash is the primary key, parent_hash and number are UNIQUE.
UniqueViolation(table, rows) ==
    \E row \in table, new \in rows :
        \/ row.hash = new.hash
        \/ row.parent = new.parent
        \/ row.number = new.number

\* LatestBlocks: the row with the highest number, nil when there is none.
LatestBlock ==
    IF blocks = {} THEN None
    ELSE CHOOSE row \in blocks : \A other \in blocks : other.number <= row.number

-----------------------------------------------------------------------------
\* NextHeaders.

Clamp(start, end, size) ==
    IF end - start + 1 <= size THEN end ELSE start + size - 1

\* Mutant: the confirmations are not taken off.
AnyHeight == Height

\* endHeight before it is clamped.
ConfirmedHeight == Height - Confirmations

\* Mutant: off by one.
NextHeightSkips(last) == IF last = None THEN 0 ELSE last.number + 2

\* nil lastTraversedHeader starts the scan at height 0.
NextHeight(last) == IF last = None THEN 0 ELSE last.number + 1

\* The header the next one must name as its parent, None when nothing is known.
Predecessor == IF got = <<>> THEN fetch.last ELSE Last(got)

Fetched == GetBlockHeader(fetch.next + Len(got))

IsLinked(header) == Predecessor # None => header.parent = Predecessor.hash

\* A tick with no batch in hand loads syncer.blockBatch and asks for the tip.
\* Too short a chain, nothing new and a tip behind the scan all end the tick
\* with nothing changed, as does an error of this first call.
TickFetch ==
    LET end == ConfirmedHeight
        next == NextHeight(lastTraversed)
    IN  /\ up /\ spc = "idle" /\ headers = <<>>
        /\ end >= 0
        /\ lastTraversed # None => lastTraversed.number < end
        /\ fetch' = [last |-> lastTraversed, next |-> next,
                     end |-> Clamp(next, end, BlocksStep), current |-> TRUE]
        /\ got' = <<>>
        /\ spc' = "fetch"
        /\ UNCHANGED <<headers, scanned, batch, faults>>
        /\ UNCHANGED <<sharedVars, dbVars, up>>

FetchHeader ==
    /\ up /\ spc = "fetch"
    /\ fetch.next + Len(got) < fetch.end
    /\ IsLinked(Fetched)
    /\ got' = Append(got, Fetched)
    /\ UNCHANGED <<spc, headers, fetch, scanned, batch, faults>>
    /\ UNCHANGED <<sharedVars, dbVars, up>>

\* The last header of the range: the BatchBlock NextHeaders runs on remembers
\* it, which is lost on the synchronizer if Fallback has replaced the object.
FetchLastHeader ==
    /\ up /\ spc = "fetch"
    /\ fetch.next + Len(got) = fetch.end
    /\ IsLinked(Fetched)
    /\ headers' = Append(got, Fetched)
    /\ lastTraversed' = IF fetch.current THEN Fetched ELSE lastTraversed
    /\ spc' = "scan" /\ fetch' = NoFetch /\ got' = <<>>
    /\ UNCHANGED <<scanned, batch, isFallback, fallbackHeader, faults>>
    /\ UNCHANGED <<dbVars, up>>

\* ErrBlockFallBack: the header fetched does not follow its predecessor.
FetchReorg ==
    /\ up /\ spc = "fetch"
    /\ ~IsLinked(Fetched)
    /\ got' = <<Fetched>>
    /\ spc' = "mark"
    /\ UNCHANGED <<headers, fetch, scanned, batch, faults>>
    /\ UNCHANGED <<sharedVars, dbVars, up>>

FetchError ==
    /\ up /\ spc = "fetch"
    /\ Fault("rpc_error")
    /\ EndTick
    /\ UNCHANGED headers
    /\ UNCHANGED <<sharedVars, dbVars, up>>

-----------------------------------------------------------------------------
\* The rest of tick: the two unlocked writes that hand a reorganisation over.

MarkFallback ==
    /\ up /\ spc = "mark"
    /\ ~isFallback
    /\ isFallback' = TRUE
    /\ spc' = "markHeader"
    /\ UNCHANGED <<headers, fetch, got, scanned, batch, faults>>
    /\ UNCHANGED <<lastTraversed, fallbackHeader, dbVars, up>>

MarkFallbackHeader ==
    /\ up /\ spc = "markHeader"
    /\ fallbackHeader' = got[1]
    /\ EndTick
    /\ UNCHANGED <<headers, faults>>
    /\ UNCHANGED <<lastTraversed, isFallback, dbVars, up>>

AlreadyMarked ==
    /\ up /\ spc = "mark"
    /\ isFallback
    /\ EndTick
    /\ UNCHANGED <<headers, faults>>
    /\ UNCHANGED <<sharedVars, dbVars, up>>

\* "retrying previous batch"
TickRetry ==
    /\ up /\ spc = "idle" /\ headers # <<>>
    /\ spc' = "scan"
    /\ UNCHANGED <<headers, fetch, got, scanned, batch, faults>>
    /\ UNCHANGED <<sharedVars, dbVars, up>>

-----------------------------------------------------------------------------
\* processBatch.

\* Mutant: the map entry is overwritten, not appended to.
ScanBlockOverwrites ==
    /\ up /\ spc = "scan" /\ scanned < Len(headers)
    /\ LET header == headers[scanned + 1]
           source == HashAt(header.number)
       IN  batch' = IF source \in BusinessBlocks
                    THEN <<[block |-> header.hash, source |-> source]>>
                    ELSE batch
    /\ scanned' = scanned + 1
    /\ UNCHANGED <<spc, headers, fetch, got, faults>>
    /\ UNCHANGED <<sharedVars, dbVars, up>>

\* GetBlockInfo asks for a number, not a hash: the transactions are those of
\* the block that is canonical now, recorded under the header in hand.
ScanBlock ==
    /\ up /\ spc = "scan" /\ scanned < Len(headers)
    /\ LET header == headers[scanned + 1]
           source == HashAt(header.number)
       IN  batch' = IF source \in BusinessBlocks
                    THEN Append(batch, [block |-> header.hash, source |-> source])
                    ELSE batch
    /\ scanned' = scanned + 1
    /\ UNCHANGED <<spc, headers, fetch, got, faults>>
    /\ UNCHANGED <<sharedVars, dbVars, up>>

\* GetBlockInfo answers (nil, nil) for ReturnCode_ERROR: the block is taken
\* for one without transactions.
ScanBlockEmpty ==
    /\ up /\ spc = "scan" /\ scanned < Len(headers)
    /\ Fault("code_error")
    /\ scanned' = scanned + 1
    /\ UNCHANGED <<spc, headers, fetch, got, batch>>
    /\ UNCHANGED <<sharedVars, dbVars, up>>

\* An error of GetBlockInfo, QueryBusinessList or StoreBlocks ends the tick
\* and keeps the headers for the next one.
ProcessError ==
    /\ up /\ spc = "scan"
    /\ Fault(IF scanned < Len(headers) THEN "rpc_error" ELSE "db_error")
    /\ EndTick
    /\ UNCHANGED headers
    /\ UNCHANGED <<sharedVars, dbVars, up>>

\* Mutant: INSERT ... ON CONFLICT DO NOTHING.
StoreBlocksUpsert ==
    /\ up /\ spc = "scan" /\ scanned = Len(headers)
    /\ blocks' = blocks \union ToSet(headers)
    /\ IF batch = <<>>
       THEN EndTick /\ headers' = <<>>
       ELSE spc' = "send" /\ UNCHANGED <<headers, fetch, got, scanned, batch>>
    /\ UNCHANGED <<sharedVars, reorgBlocks, up, faults>>

\* One INSERT for the whole batch.  Without transactions the batch is done;
\* otherwise the goroutine goes on to the unbuffered channel.
StoreBlocks ==
    /\ up /\ spc = "scan" /\ scanned = Len(headers)
    /\ ~UniqueViolation(blocks, ToSet(headers))
    /\ blocks' = blocks \union ToSet(headers)
    /\ IF batch = <<>>
       THEN EndTick /\ headers' = <<>>
       ELSE spc' = "send" /\ UNCHANGED <<headers, fetch, got, scanned, batch>>
    /\ UNCHANGED <<sharedVars, reorgBlocks, up, faults>>

StoreConflict ==
    /\ up /\ spc = "scan" /\ scanned = Len(headers)
    /\ UniqueViolation(blocks, ToSet(headers))
    /\ EndTick
    /\ UNCHANGED <<headers, faults>>
    /\ UNCHANGED <<sharedVars, dbVars, up>>

\* The INSERT commits but the connection fails before the reply.
StoreLostAck ==
    /\ up /\ spc = "scan" /\ scanned = Len(headers)
    /\ ~UniqueViolation(blocks, ToSet(headers))
    /\ Fault("lost_ack")
    /\ blocks' = blocks \union ToSet(headers)
    /\ EndTick
    /\ UNCHANGED headers
    /\ UNCHANGED <<sharedVars, reorgBlocks, up>>

\* Mutant: syncer.headers is not cleared.
SendBatchKeepsHeaders ==
    /\ up /\ spc = "send"
    /\ EndTick
    /\ UNCHANGED <<headers, faults>>
    /\ UNCHANGED <<sharedVars, dbVars, up>>

\* The send completes with the Finder's receive; the tick ends and the batch
\* is cleared.
SendBatch ==
    /\ up /\ spc = "send"
    /\ EndTick
    /\ headers' = <<>>
    /\ UNCHANGED faults
    /\ UNCHANGED <<sharedVars, dbVars, up>>

-----------------------------------------------------------------------------
\* Start and loss of the synchronizer's memory.

SyncForget ==
    /\ EndTick
    /\ headers' = <<>> /\ lastTraversed' = None
    /\ isFallback' = FALSE /\ fallbackHeader' = None

SyncIdle ==
    /\ spc = "idle" /\ headers = <<>> /\ got = <<>> /\ batch = <<>>
    /\ scanned = 0 /\ isFallback = FALSE /\ fallbackHeader = None
    /\ lastTraversed = None
    /\ fetch = NoFetch

\* NewSynchronizer: resume from the newest stored block, else begin after the
\* configured one, else after the tip.
FromHeader ==
    IF blocks # {} THEN LatestBlock
    ELSE IF StartHeight > 0 THEN GetBlockHeader(StartHeight) ELSE GetBlockHeader(0)

\* What an error code of the node leaves NewSynchronizer with is nil.
NewSynchronizer ==
    /\ ~up /\ up' = TRUE
    /\ \/ lastTraversed' = FromHeader /\ UNCHANGED faults
       \/ blocks = {} /\ Fault("code_error") /\ lastTraversed' = None
    /\ UNCHANGED <<isFallback, fallbackHeader, frameVars, dbVars>>

SyncInit ==
    /\ SyncIdle
    /\ blocks = {} /\ reorgBlocks = {}
    /\ up = FALSE /\ faults = 0

Transfer == [block : BlockHash, source : BlockHash]

SyncTypeOK ==
    /\ blocks \subseteq Header /\ reorgBlocks \subseteq Header
    /\ up \in BOOLEAN
    /\ spc \in {"idle", "fetch", "mark", "markHeader", "scan", "send"}
    /\ lastTraversed \in Header \union {None}
    /\ isFallback \in BOOLEAN
    /\ fallbackHeader \in Header \union {None}
    /\ headers \in Seq(Header) /\ got \in Seq(Header)
    /\ fetch \in [last : Header \union {None}, next : Nat, end : Nat,
                  current : BOOLEAN]
    /\ scanned \in Nat
    /\ batch \in Seq(Transfer)
    /\ faults \in Nat

=============================================================================
