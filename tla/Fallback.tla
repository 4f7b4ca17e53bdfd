------------------------------ MODULE Fallback ------------------------------
(***************************************************************************)
(* The Fallback task (worker/fallback.go): a loop on a three second ticker *)
(* that, when the synchronizer has flagged a reorganisation, walks back    *)
(* from the flagged header, backs the reorganised rows up in reorg_blocks, *)
(* deletes them from blocks and gives the synchronizer a new BatchBlock.   *)
(* It holds a pointer to the synchronizer and reads and writes its fields  *)
(* without a lock, hence EXTENDS and one step per access.                  *)
(*                                                                         *)
(* The same database transaction marks the rows of deposits, withdraws,    *)
(* internals and transactions and reverts balances; those tables are not   *)
(* part of this module.                                                    *)
(***************************************************************************)
EXTENDS Synchronizer

VARIABLES
    fpc,          \* what the fallback goroutine is about to do
    cursor,       \* frame of findFallbackEntry: lastBlockHeader
    onChain,      \* frame of findFallbackEntry: chainBlockHeader
    rows,         \* frame of findFallbackEntry: rows to back up and delete
    newest        \* frame of the loop: dbLatestBlockHeader

fbVars == <<fpc, cursor, onChain, rows, newest>>

\* The goroutine's frame between two ticks.
FallbackForget ==
    /\ fpc' = "wait"
    /\ cursor' = None /\ onChain' = None /\ newest' = None /\ rows' = {}

\* The ticker fires with the flag up; the header is read without a check.
FallbackTick ==
    /\ up /\ fpc = "wait"
    /\ isFallback /\ fallbackHeader # None
    /\ cursor' = fallbackHeader
    /\ fpc' = "chain"
    /\ UNCHANGED <<onChain, rows, newest>>
    /\ UNCHANGED <<sharedVars, frameVars, dbVars, up, faults>>

\* findFallbackEntry reads the predecessor of its cursor on the chain ...
ReadChainBlock ==
    /\ up /\ fpc = "chain"
    /\ onChain' = GetBlockHeader(cursor.number - 1)
    /\ fpc' = "row"
    /\ UNCHANGED <<cursor, rows, newest>>
    /\ UNCHANGED <<sharedVars, frameVars, dbVars, up, faults>>

RowsAt(number) == {row \in blocks : row.number = number}

\* ... and in the table, and stops where the cursor follows the chain.
ReadRow ==
    /\ up /\ fpc = "row"
    /\ RowsAt(cursor.number - 1) # {}
    /\ rows' = rows \union RowsAt(cursor.number - 1)
    /\ cursor' = onChain
    /\ fpc' = IF cursor.parent = onChain.hash THEN "persist" ELSE "chain"
    /\ UNCHANGED <<onChain, newest>>
    /\ UNCHANGED <<sharedVars, frameVars, dbVars, up, faults>>

\* Mutant: an error goes straight on to the next tick.
ReadRowMissingContinues ==
    /\ up /\ fpc = "row"
    /\ RowsAt(cursor.number - 1) = {}
    /\ FallbackForget
    /\ UNCHANGED <<sharedVars, frameVars, dbVars, up, faults>>

\* "record not found": onFallback fails, which the loop only logs.
ReadRowMissing ==
    /\ up /\ fpc = "row"
    /\ RowsAt(cursor.number - 1) = {}
    /\ fpc' = "latest"
    /\ UNCHANGED <<cursor, onChain, rows, newest>>
    /\ UNCHANGED <<sharedVars, frameVars, dbVars, up, faults>>

\* Mutant: rows are deleted without a backup.
PersistFallbackNoBackup ==
    /\ up /\ fpc = "persist"
    /\ ~UniqueViolation(reorgBlocks, rows)
    /\ blocks' = {b \in blocks : \A row \in rows : b.number # row.number}
    /\ fpc' = "latest"
    /\ UNCHANGED <<reorgBlocks, cursor, onChain, rows, newest>>
    /\ UNCHANGED <<sharedVars, frameVars, up, faults>>

\* The database transaction: back up, then delete by number.
PersistFallback ==
    /\ up /\ fpc = "persist"
    /\ ~UniqueViolation(reorgBlocks, rows)
    /\ reorgBlocks' = reorgBlocks \union rows
    /\ blocks' = {b \in blocks : \A row \in rows : b.number # row.number}
    /\ fpc' = "latest"
    /\ UNCHANGED <<cursor, onChain, rows, newest>>
    /\ UNCHANGED <<sharedVars, frameVars, up, faults>>

\* A backup that collides with an older one fails every attempt of the ten.
PersistConflict ==
    /\ up /\ fpc = "persist"
    /\ UniqueViolation(reorgBlocks, rows)
    /\ fpc' = "latest"
    /\ UNCHANGED <<cursor, onChain, rows, newest>>
    /\ UNCHANGED <<sharedVars, frameVars, dbVars, up, faults>>

\* Any other error on the way ends onFallback and is logged likewise.
FallbackError ==
    /\ up /\ fpc \in {"chain", "row", "persist"}
    /\ Fault(IF fpc = "chain" THEN "rpc_error" ELSE "db_error")
    /\ fpc' = "latest"
    /\ UNCHANGED <<cursor, onChain, rows, newest>>
    /\ UNCHANGED <<sharedVars, frameVars, dbVars, up>>

\* LatestBlocks, whose error leaves the header nil.
ReadNewest ==
    /\ up /\ fpc = "latest"
    /\ \/ newest' = LatestBlock /\ UNCHANGED faults
       \/ newest' = None /\ Fault("db_error")
    /\ fpc' = "swap"
    /\ UNCHANGED <<cursor, onChain, rows>>
    /\ UNCHANGED <<sharedVars, frameVars, dbVars, up>>

\* A new BatchBlock; a NextHeaders under way goes on with the old one.
SwapBatchBlock ==
    /\ up /\ fpc = "swap"
    /\ lastTraversed' = newest
    /\ fetch' = [fetch EXCEPT !.current = FALSE]
    /\ fpc' = "clear"
    /\ UNCHANGED <<cursor, onChain, rows, newest>>
    /\ UNCHANGED <<spc, headers, got, scanned, batch>>
    /\ UNCHANGED <<isFallback, fallbackHeader, dbVars, up, faults>>

ClearFlag ==
    /\ up /\ fpc = "clear"
    /\ isFallback' = FALSE
    /\ fpc' = "clearHeader"
    /\ UNCHANGED <<cursor, onChain, rows, newest>>
    /\ UNCHANGED <<lastTraversed, fallbackHeader, frameVars, dbVars, up, faults>>

ClearHeader ==
    /\ up /\ fpc = "clearHeader"
    /\ fallbackHeader' = None
    /\ FallbackForget
    /\ UNCHANGED <<lastTraversed, isFallback, frameVars, dbVars, up, faults>>

FallbackIdle ==
    /\ fpc = "wait"
    /\ cursor = None /\ onChain = None /\ newest = None
    /\ rows = {}

FallbackTypeOK ==
    /\ fpc \in {"wait", "chain", "row", "persist", "latest", "swap", "clear",
                "clearHeader"}
    /\ cursor \in Header \union {None}
    /\ onChain \in Header \union {None}
    /\ newest \in Header \union {None}
    /\ rows \subseteq Header

=============================================================================
