------------------------------- MODULE Ledger -------------------------------
(***************************************************************************)
(* What becomes of the transfers the scan discovers: the Finder records    *)
(* them in deposits_<business>, transactions_<business> and                *)
(* balances_<business> (worker/finder.go), confirms the deposits, the      *)
(* Notifier reports them (worker/notifier.go), and a fallback takes them   *)
(* back (the tables' part of onFallback in worker/fallback.go).            *)
(*                                                                         *)
(* The scan is that of BlockScan taken block by block: it stores a         *)
(* confirmed block that links up, hands its transfers to the Finder over   *)
(* the unbuffered channel, and flags a header that does not link up.  The  *)
(* withdrawals and internal transfers a batch completes are in Outbound.   *)
(***************************************************************************)
EXTENDS ChainNode, Balances, Lists

CONSTANTS
    Business,         \* the registered businesses
    Confirmations,    \* confirmations a block needs before it is scanned
    Content,          \* Content[hash]: transfers a block would mine, classified
    Faults,           \* kinds of failure the environment may inject
    MaxFaults         \* bound: number of failures injected

\* A transfer belongs to the business of one of its addresses; tx stands for
\* the hash, which it keeps when it moves to another block.
IsTransfer(t) ==
    /\ t.business \in Business /\ t.type \in Types
    /\ t.from \in Account /\ t.to \in Account /\ t.amount \in Nat

Minable ==
    UNION {{Content[hash][i] : i \in DOMAIN Content[hash]} : hash \in DOMAIN Content}
BatchOf == [number : 2..MaxHeight, transfers : Seq(Minable)]

ASSUME LedgerAssumption ==
    /\ InitHeight <= MaxHeight /\ Confirmations \in Nat /\ MaxFaults \in Nat
    /\ DOMAIN Content = (0..MaxHeight) \X (0..MaxReorgs)
    /\ \A hash \in DOMAIN Content :
           Content[hash] \in Seq(Minable) /\ IsInjective(Content[hash])
    /\ \A t \in Minable : IsTransfer(t)
    /\ None \notin BatchOf
    /\ Faults \subseteq {"rpc_error", "db_error", "lost_ack", "notify_error", "crash"}

VARIABLES
    blocks,        \* table blocks: the hash stored at each height
    backedUp,      \* heights of the rows of reorg_blocks
    flag,          \* fallbackBlockHeader, None when isFallback is down
    ready,         \* batch that waits to be pushed, or None
    finder,        \* what the Finder is about to do
    inHand,        \* batch it handles, or None
    todo,          \* businesses it has still to handle
    pending,       \* deposits it has read to confirm them
    deposits,      \* rows of deposits_*, in the order of insertion
    flows,         \* rows of transactions_*, likewise
    balances,      \* balances_*: by business and account
    fpc,           \* what the Fallback task is about to do
    entry,         \* lowest height it is going to roll back
    undo,          \* rows of transactions_* it is going to revert
    npc,           \* what the Notifier is about to do
    addressee,     \* business it works for
    letter,        \* transactions it reports
    posted,        \* transactions the businesses have received
    faults         \* failures injected so far

scanVars == <<blocks, backedUp, flag, ready>>
finderVars == <<finder, inHand, todo, pending>>
tables == <<deposits, flows, balances>>
fallbackVars == <<fpc, entry, undo>>
notifyVars == <<npc, addressee, letter, posted>>
vars == <<chainVars, scanVars, finderVars, tables, fallbackVars, notifyVars, faults>>

Fault(kind) ==
    /\ kind \in Faults
    /\ faults < MaxFaults
    /\ faults' = faults + 1

\* A block does not mine what one of its ancestors has mined already.
IsMinedBelow(tx, n) ==
    \E m \in 1..(n - 1) : \E i \in DOMAIN Content[HashAt(m)] : Content[HashAt(m)][i].tx = tx
TransfersAt(n) ==
    LET mined == Content[HashAt(n)]
    IN  Picked(mined, {i \in DOMAIN mined : ~IsMinedBelow(mined[i].tx, n)})

\* A batch has the transfers of one block, grouped by business.
Batch(n) == [number |-> n, transfers |-> TransfersAt(n)]
OfBusiness(transfers, b) ==
    Picked(transfers, {i \in DOMAIN transfers : transfers[i].business = b})
Of(business, batch) == OfBusiness(batch.transfers, business)
Involved(batch) == {b \in Business : Of(b, batch) # <<>>}

Marked(rows, indices, status) ==
    [i \in DOMAIN rows |->
        IF i \in indices THEN [rows[i] EXCEPT !.status = status] ELSE rows[i]]

Init ==
    /\ ChainInit
    /\ blocks = <<HashAt(1)>> /\ backedUp = {}
    /\ flag = None /\ ready = None
    /\ finder = "select" /\ inHand = None /\ todo = {} /\ pending = {}
    /\ deposits = <<>> /\ flows = <<>>
    /\ balances = [b \in Business |-> [a \in Account |-> NoRow]]
    /\ fpc = "wait" /\ entry = 0 /\ undo = <<>>
    /\ npc = "wait" /\ addressee = None /\ letter = {} /\ posted = {}
    /\ faults = 0

-----------------------------------------------------------------------------
\* The node and the scan.

NextHeader == HeaderAt(Len(blocks) + 1)

\* Mutant: the confirmations are forgotten.
ScannableAtOnce ==
    /\ blocks # <<>> /\ ready = None
    /\ Len(blocks) + 1 <= Height

Scannable ==
    /\ blocks # <<>> /\ ready = None
    /\ Len(blocks) + 1 + Confirmations <= Height

IsLinked == NextHeader.parent = blocks[Len(blocks)]

\* NextHeaders, processBatch and StoreBlocks for one block: the transfers of
\* the businesses wait for the Finder.
ScanBlock ==
    /\ Scannable /\ IsLinked
    /\ blocks' = Append(blocks, NextHeader.hash)
    /\ ready' = IF TransfersAt(NextHeader.number) = <<>> THEN None
                ELSE Batch(NextHeader.number)
    /\ UNCHANGED <<chainVars, backedUp, flag, finderVars, tables, fallbackVars,
                   notifyVars, faults>>

FlagReorg ==
    /\ Scannable /\ ~IsLinked /\ flag = None
    /\ flag' = NextHeader
    /\ UNCHANGED <<chainVars, blocks, backedUp, ready, finderVars, tables,
                   fallbackVars, notifyVars, faults>>

ChainStep ==
    /\ Mine \/ Reorg
    /\ UNCHANGED <<scanVars, finderVars, tables, fallbackVars, notifyVars, faults>>

-----------------------------------------------------------------------------
\* The Finder: handleBatch.

FinderReceive ==
    /\ finder = "select" /\ ready # None
    /\ finder' = "record"
    /\ inHand' = ready /\ todo' = Involved(ready) /\ ready' = None
    /\ UNCHANGED <<chainVars, blocks, backedUp, flag, pending, tables,
                   fallbackVars, notifyVars, faults>>

\* The next business, or back to the select.
BusinessDone(b) ==
    /\ todo' = todo \ {b}
    /\ IF todo = {b} THEN finder' = "select" /\ inHand' = None
                     ELSE UNCHANGED <<finder, inHand>>

FinderDies == finder' = "dead" /\ inHand' = None /\ todo' = {}

\* BuildTransaction, HandleDeposit: a row is born with status success.
NewRows(transfers) ==
    [i \in DOMAIN transfers |->
        [transfer |-> transfers[i], number |-> inHand.number, status |-> "success"]]

IsDeposit(t) == t.type = "deposit"
DepositsIn(transfers) ==
    Picked(transfers, {i \in DOMAIN transfers : IsDeposit(transfers[i])})

Refused(b) == UpdateOrCreate(balances[b], Of(b, inHand)) = NoRow

\* The transaction of one business: deposits, balances and flow together.
Recorded(b) ==
    /\ deposits' = deposits \o NewRows(DepositsIn(Of(b, inHand)))
    /\ flows' = flows \o NewRows(Of(b, inHand))
    /\ balances' = [balances EXCEPT ![b] = UpdateOrCreate(@, Of(b, inHand))]
    /\ balances'[b] # NoRow

HandleBatch(b) ==
    /\ finder = "record" /\ b \in todo
    /\ Recorded(b) /\ BusinessDone(b)
    /\ UNCHANGED <<chainVars, scanVars, pending, fallbackVars, notifyVars, faults>>

\* Mutant: the deposits are stored outside the transaction.
HandleBatchFailsHalf(b) ==
    /\ finder = "record" /\ b \in todo
    /\ deposits' = deposits \o NewRows(DepositsIn(Of(b, inHand)))
    /\ UNCHANGED <<flows, balances>> /\ Fault("db_error")
    /\ FinderDies
    /\ UNCHANGED <<chainVars, scanVars, pending, fallbackVars, notifyVars>>

\* Mutant: the guids are made anew for every attempt.
HandleBatchFailsAnew(b) ==
    /\ finder = "record" /\ b \in todo
    /\ Recorded(b) /\ Fault("lost_ack")
    /\ UNCHANGED <<chainVars, scanVars, finderVars, fallbackVars, notifyVars>>

\* An error of the node, or ten failed attempts.  After a commit whose reply is
\* lost all further attempts fail on the guids, which are made only once.
HandleBatchFails(b) ==
    /\ finder = "record" /\ b \in todo
    /\ \/ UNCHANGED tables /\ (Fault("rpc_error") \/ Fault("db_error"))
       \/ Refused(b) /\ UNCHANGED <<tables, faults>>
       \/ Recorded(b) /\ Fault("lost_ack")
    /\ FinderDies
    /\ UNCHANGED <<chainVars, scanVars, pending, fallbackVars, notifyVars>>

-----------------------------------------------------------------------------
\* The Finder: handleConfirmations.

Unconfirmed(b) ==
    {i \in DOMAIN deposits : /\ deposits[i].transfer.business = b
                             /\ deposits[i].status = "success"}

\* A tick that finds no deposit to confirm changes nothing and is left out.
ConfirmTick ==
    /\ finder = "select"
    /\ \E b \in Business : Unconfirmed(b) # {}
    /\ finder' = "confirm" /\ todo' = {b \in Business : Unconfirmed(b) # {}}
    /\ UNCHANGED <<chainVars, scanVars, inHand, pending, tables, fallbackVars,
                   notifyVars, faults>>

\* The businesses cannot be read at the head of handleConfirmations, with or
\* without a deposit to confirm: the Finder ends.
ConfirmTickFails ==
    /\ finder = "select" /\ Fault("db_error")
    /\ FinderDies
    /\ UNCHANGED <<chainVars, scanVars, pending, tables, fallbackVars, notifyVars>>

\* Rows with too few confirmations are saved with their new count, which is of
\* no consequence here.
ConfirmRead(b) ==
    /\ finder = "confirm" /\ b \in todo
    /\ pending' = {i \in Unconfirmed(b) : deposits[i].number + Confirmations <= Height}
    /\ todo' = todo \ {b}
    /\ finder' = "save"
    /\ UNCHANGED <<chainVars, scanVars, inHand, tables, fallbackVars, notifyVars, faults>>

AfterConfirm ==
    /\ pending' = {}
    /\ finder' = IF todo = {} THEN "select" ELSE "confirm"

\* The rows are saved as they were read, whatever has become of them since.
ConfirmSave ==
    /\ finder = "save"
    /\ \/ deposits' = Marked(deposits, pending, "wallet_done") /\ UNCHANGED faults
       \/ UNCHANGED deposits /\ (Fault("db_error") \/ Fault("rpc_error"))
    /\ AfterConfirm
    /\ UNCHANGED <<chainVars, scanVars, inHand, todo, flows, balances,
                   fallbackVars, notifyVars>>

-----------------------------------------------------------------------------
\* The Fallback task.

\* findFallbackEntry deletes the row below the flagged header and, if the chain
\* has changed again since the header was flagged, the row below that too.
Entry ==
    IF flag.parent = HashAt(flag.number - 1) THEN flag.number - 1 ELSE flag.number - 2

InRange(rows, lo, hi) ==
    {i \in DOMAIN rows : rows[i].number \in lo..hi /\ rows[i].status = "success"}

\* Heights of business b up to the first one without a row.
Reached(rows, b, lo, hi) ==
    {n \in lo..hi : \A m \in lo..n : \E i \in DOMAIN rows :
        rows[i].transfer.business = b /\ rows[i].number = m}

\* HandleFallBackDeposits and HandleFallBackTransactions: at each height one
\* row, whichever the database returns and whatever its status, is marked.
FallBackRows(rows, lo, hi) ==
    LET Spots == {spot \in Business \X (lo..hi) : spot[2] \in Reached(rows, spot[1], lo, hi)}
        Fits(spot, i) == rows[i].transfer.business = spot[1] /\ rows[i].number = spot[2]
    IN  {Marked(rows, {pick[spot] : spot \in Spots}, "fallback") :
            pick \in {p \in [Spots -> DOMAIN rows] : \A spot \in Spots : Fits(spot, p[spot])}}

\* The rows to revert are read before the transaction starts, in any order.
ReadFallbackRows ==
    /\ fpc = "wait" /\ flag # None /\ Entry > 0
    /\ entry' = Entry
    /\ undo' \in SetToSeqs(InRange(flows, Entry, flag.number))
    /\ fpc' = "persist"
    /\ UNCHANGED <<chainVars, scanVars, finderVars, tables, notifyVars, faults>>

\* The flag comes down and the scan resumes from the newest row in any case.
EndFallback == fpc' = "wait" /\ entry' = 0 /\ undo' = <<>> /\ flag' = None

Reverted(b) ==
    UpdateFallBackBalance(balances[b], [i \in DOMAIN undo |-> flows[undo[i]].transfer])

BackupFits == (entry..(flag.number - 1)) \intersect backedUp = {}

\* Mutant: the flow keeps its status.
FallBackMarksDeposits(lo, hi) ==
    /\ deposits' \in FallBackRows(deposits, lo, hi)
    /\ UNCHANGED flows

FallBackMarks(lo, hi) ==
    /\ deposits' \in FallBackRows(deposits, lo, hi)
    /\ flows' \in FallBackRows(flows, lo, hi)

\* The transaction of onFallback for all businesses.  The list of rows to
\* revert is that of all businesses and is applied to the table of each.
PersistFallback ==
    /\ fpc = "persist"
    /\ BackupFits /\ \A b \in Business : Reverted(b) # NoRow
    /\ blocks' = SubSeq(blocks, 1, entry - 1)
    /\ backedUp' = backedUp \union (entry..(flag.number - 1))
    /\ FallBackMarks(entry, flag.number)
    /\ balances' = [b \in Business |-> Reverted(b)]
    /\ EndFallback
    /\ UNCHANGED <<chainVars, ready, finderVars, notifyVars, faults>>

\* A number that reorg_blocks has already, a balance below zero, an error.
PersistFails ==
    /\ fpc = "persist"
    /\ \/ ~BackupFits /\ UNCHANGED faults
       \/ (\E b \in Business : Reverted(b) = NoRow) /\ UNCHANGED faults
       \/ Fault("db_error")
    /\ EndFallback
    /\ UNCHANGED <<chainVars, blocks, backedUp, ready, finderVars, tables, notifyVars>>

-----------------------------------------------------------------------------
\* The Notifier, for the deposits.

Due(b) == {i \in DOMAIN deposits : /\ deposits[i].transfer.business = b
                                   /\ deposits[i].status = "wallet_done"}

NotifierTick(b) ==
    /\ npc = "wait" /\ Due(b) # {}
    /\ addressee' = b
    /\ letter' = {deposits[i].transfer.tx : i \in Due(b)}
    /\ npc' = "post"
    /\ UNCHANGED <<chainVars, scanVars, finderVars, tables, fallbackVars, posted, faults>>

Rest == npc' = "wait" /\ addressee' = None /\ letter' = {}

\* Without success AfterNotify returns at once.
PostFailed == Rest

Post ==
    /\ npc = "post"
    /\ \/ /\ posted' = posted \union letter
          /\ npc' = "after"
          /\ UNCHANGED <<addressee, letter, faults>>
       \/ posted' \in {posted, posted \union letter} /\ PostFailed /\ Fault("notify_error")
    /\ UNCHANGED <<chainVars, scanVars, finderVars, tables, fallbackVars>>

\* Mutant: only rows that are not yet confirmed.
NotifiedRowsUnconfirmed ==
    Marked(deposits,
           {i \in Unconfirmed(addressee) : deposits[i].transfer.tx \in letter},
           "notified")

\* UpdateDepositsStatusByTxHash: every row with one of the hashes.
NotifiedRows ==
    Marked(deposits,
           {i \in DOMAIN deposits : /\ deposits[i].transfer.business = addressee
                                    /\ deposits[i].transfer.tx \in letter},
           "notified")

AfterNotify ==
    /\ npc = "after"
    /\ \/ deposits' = NotifiedRows /\ Rest /\ UNCHANGED faults
       \/ deposits' = NotifiedRows /\ UNCHANGED <<npc, addressee, letter>> /\ Fault("lost_ack")
       \/ UNCHANGED deposits /\ Rest /\ Fault("db_error")
    /\ UNCHANGED <<chainVars, scanVars, finderVars, flows, balances, fallbackVars, posted>>

-----------------------------------------------------------------------------
\* The process dies and starts again: the frames and the batch are gone.
Crash ==
    /\ Fault("crash")
    /\ flag' = None /\ ready' = None
    /\ finder' = "select" /\ inHand' = None /\ todo' = {} /\ pending' = {}
    /\ fpc' = "wait" /\ entry' = 0 /\ undo' = <<>>
    /\ Rest
    /\ UNCHANGED <<chainVars, blocks, backedUp, tables, posted>>

RecordStep == \E b \in Business : HandleBatch(b) \/ HandleBatchFails(b)
ConfirmStep == ConfirmTick \/ ConfirmSave \/ \E b \in Business : ConfirmRead(b)
FinderStep == FinderReceive \/ RecordStep \/ ConfirmStep
ScanStep == ScanBlock \/ FlagReorg
FallbackStep == ReadFallbackRows \/ PersistFallback \/ PersistFails
NotifierStep == Post \/ AfterNotify \/ \E b \in Business : NotifierTick(b)

Next ==
    \/ ChainStep \/ ScanStep \/ FinderStep \/ ConfirmTickFails
    \/ FallbackStep \/ NotifierStep \/ Crash

Spec == Init /\ [][Next]_vars

\* The scan, the Fallback task and the Notifier run on tickers; the Finder
\* selects between its channel and its ticker.
Fairness ==
    WF_vars(ScanStep) /\ WF_vars(FinderStep) /\ WF_vars(FallbackStep) /\ WF_vars(NotifierStep)

FairSpec == Spec /\ Fairness

-----------------------------------------------------------------------------
\* Type correctness: every row is of a known transfer and height, the marks of
\* what the goroutines have read point into the tables, no balance is below zero.
Status == {"success", "wallet_done", "notified", "fallback"}
IsRow(row) ==
    /\ row.number \in 2..MaxHeight /\ row.status \in Status
    /\ row.transfer \in Minable

TypeOK ==
    /\ ChainTypeOK
    /\ blocks \in Seq(DOMAIN Content) /\ Len(blocks) <= Height
    /\ backedUp \subseteq 1..MaxHeight
    /\ flag # None => flag.number \in 2..MaxHeight
    /\ ready \in BatchOf \union {None} /\ inHand \in BatchOf \union {None}
    /\ finder \in {"select", "record", "confirm", "save", "dead"}
    /\ finder = "record" <=> inHand # None
    /\ todo \subseteq Business
    /\ pending \subseteq DOMAIN deposits
    /\ \A i \in DOMAIN deposits : IsRow(deposits[i]) /\ IsDeposit(deposits[i].transfer)
    /\ \A i \in DOMAIN flows : IsRow(flows[i]) /\ flows[i].status \in {"success", "fallback"}
    /\ balances \in [Business -> [Account -> Nat \union {NoRow}]]
    /\ fpc \in {"wait", "persist"} /\ \A i \in DOMAIN undo : undo[i] \in DOMAIN flows
    /\ npc \in {"wait", "post", "after"}
    /\ npc # "wait" => addressee \in Business
    /\ faults \in Nat

Transfers(rows) == [i \in DOMAIN rows |-> rows[i].transfer]
Statement(b) == OfBusiness(Transfers(flows), b)

\* The books of the businesses, as Accounts specifies them.
Promise ==
    INSTANCE Accounts WITH
        statement <- [b \in Business |-> Statement(b)],
        book <- [b \in Business |-> [a \in Account |-> BalanceOf(balances[b], a)]],
        reported <- posted

Live(rows, b) ==
    {i \in DOMAIN rows : rows[i].transfer.business = b /\ rows[i].status # "fallback"}

\* The balance of an account is what its recorded transfers add up to, however
\* the Finder's batches, its failures and the restarts interleave.
BalancesMatchFlow ==
    \A b \in Business, a \in Account :
        BalanceOf(balances[b], a)
            = Promise!EffectOfAll(Picked(Transfers(flows), Live(flows, b)), a)

DepositTxs == {t.tx : t \in {u \in Minable : IsDeposit(u)}}

Occurrences(rows, tx) == {i \in DOMAIN rows : rows[i].transfer.tx = tx}

\* deposits_ has the deposits of transactions_, in their order: batches are
\* recorded whole, also when the Finder dies of the next one.
DepositsMatchFlow == Transfers(deposits) = DepositsIn(Transfers(flows))

OnChain(tx, n) == \E i \in DOMAIN TransfersAt(n) : TransfersAt(n)[i].tx = tx

\* What a business is told of, the confirmed chain holds and keeps.
ReportedIsFinal ==
    \A tx \in posted : \E n \in 1..(Height - Confirmations) : OnChain(tx, n)

\* As long as reorganisations stay within the confirmations, the pipeline keeps
\* the books Accounts promises: nothing twice although transactions move between
\* blocks, attempts are repeated and the process restarts, and nothing taken back.
ImplementsAccounts == Promise!Spec

IsRecorded(tx) == Occurrences(deposits, tx) # {}
\* A recorded deposit is reported in the end, whatever fails on the way, as long
\* as the Finder lives to confirm it.
DepositIsReported ==
    \A tx \in DepositTxs : IsRecorded(tx) ~> tx \in posted \/ finder = "dead"

\* A rollback of one row at most that holds all there is to revert: nothing has
\* been recorded in its blocks since the rows were read.
QuietRollback ==
    /\ fpc = "persist" /\ fpc' = "wait"
    /\ Len(undo) <= 1
    /\ ToSet(undo) = InRange(flows, entry, flag.number)

\* Such a rollback leaves the balances what the flow adds up to, whatever the
\* Finder and the Notifier are at.  It holds of a deposit past the confirmations,
\* or reported already, as of any other: UpdateFallBackBalance asks for neither,
\* so that the amount is taken back, although the comment of handleFallBackDeposit
\* and DEVSTEPS.md say that it stays (ConfirmedIsKept).
RollbackKeepsBooks ==
    [][QuietRollback /\ BalancesMatchFlow => BalancesMatchFlow']_vars

\* A rollback marks every transfer of its blocks that was recorded when the rows
\* to revert were read.
RollbackIsComplete ==
    [][fpc = "persist" /\ backedUp' # backedUp
        => \A i \in ToSet(undo) : flows'[i].status = "fallback"]_vars

-----------------------------------------------------------------------------
\* What the code does not keep; rollback_limits.cfg has the counterexamples.

\* Deposits past the confirmations are not taken back from their users, as the
\* comment of handleFallBackDeposit and DEVSTEPS.md say.
IsConfirmed(transfer) ==
    \E j \in DOMAIN deposits : /\ deposits[j].transfer = transfer
                               /\ deposits[j].status \in {"wallet_done", "notified"}
ConfirmedIsKept ==
    [][backedUp' # backedUp /\ (\A i \in ToSet(undo) : IsConfirmed(flows[i].transfer))
        => balances' = balances]_vars

\* A rollback of one row at most leaves the balances what the flow adds up to,
\* also when the Finder has recorded more since the row was read.
RollbackAddsUp ==
    [][backedUp' # backedUp /\ Len(undo) <= 1 /\ BalancesMatchFlow
        => BalancesMatchFlow']_vars

=============================================================================
