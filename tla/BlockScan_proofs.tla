-------------------------- MODULE BlockScan_proofs --------------------------
(***************************************************************************)
(* Proofs about the scanning pipeline, for every value of its constants.   *)
(***************************************************************************)
EXTENDS BlockScan, Lists_proofs

\* Headers of blocks the chain has reached.
SeenHeader == {h \in Header : h.number \in 1..Height}

\* The strengthening that makes TypeOK inductive: every header in memory or in
\* the database was read from the chain, the frames of NextHeaders and of
\* findFallbackEntry point inside it.
TypeInv ==
    /\ TypeOK
    /\ blocks \subseteq SeenHeader /\ rows \subseteq SeenHeader
    /\ \A i \in 1..Len(headers) : headers[i] \in SeenHeader
    /\ \A i \in 1..Len(got) : got[i] \in SeenHeader
    /\ lastTraversed \in SeenHeader \union {None}
    /\ fallbackHeader \in SeenHeader \union {None}
    /\ fetch.last \in SeenHeader \union {None}
    /\ cursor \in SeenHeader \union {None}
    /\ onChain \in SeenHeader \union {None}
    /\ newest \in SeenHeader \union {None}
    /\ spc = "fetch" => fetch.end <= Height /\ fetch.next + Len(got) <= fetch.end
    /\ spc \in {"mark", "markHeader"} => got # <<>>
    /\ spc = "scan" => scanned <= Len(headers)
    /\ spc \in {"idle", "fetch", "mark", "markHeader"} => scanned = 0
    /\ fpc \in {"chain", "row"} => cursor # None
    /\ fpc = "row" => onChain # None

USE ChainAssumption, NoneAssumption, SyncAssumption

\* A chain that grows or reorganises keeps every header seen.
LEMMA ChainGrows ==
    ASSUME ChainTypeOK, Mine \/ Reorg
    PROVE  ChainTypeOK' /\ Height' >= Height
<1>1. CASE Mine
  BY <1>1 DEF Mine, ChainTypeOK, Height
<1>2. CASE Reorg
  <2>1. chain' \in [1..Height -> Nat]
    BY <1>2 DEF Reorg, ChainTypeOK, Height
  <2>2. chain' \in Seq(Nat) /\ Len(chain') = Height
    BY <2>1 DEF ChainTypeOK, Height
  <2> QED
    BY <1>2, <2>2 DEF Reorg, ChainTypeOK, Height
<1> QED
  BY <1>1, <1>2

LEMMA AppendIn ==
    ASSUME NEW S, NEW s \in Seq(S), NEW e \in S
    PROVE  Append(s, e) \in Seq(S)
OBVIOUS

\* Every number up to the tip has a hash.
LEMMA HashSeen ==
    ASSUME ChainTypeOK, NEW n \in 0..Height
    PROVE  HashAt(n) \in BlockHash
BY DEF HashAt, BlockHash, ChainTypeOK, Height

\* What a request inside the chain returns.
LEMMA HeaderSeen ==
    ASSUME ChainTypeOK, NEW n \in 0..Height
    PROVE  GetBlockHeader(n) \in SeenHeader
<1>1. Height \in Nat /\ Height >= 1
  BY DEF ChainTypeOK, Height
<1> DEFINE m == IF n = 0 THEN Height ELSE n
<1>2. m \in 1..Height
  BY <1>1
<1>4. HashAt(m) \in BlockHash /\ HashAt(m - 1) \in BlockHash
  BY <1>1, <1>2, HashSeen
<1>5. GetBlockHeader(n) = HeaderAt(m)
  BY DEF GetBlockHeader
<1> QED
  BY <1>1, <1>2, <1>4, <1>5 DEF HeaderAt, SeenHeader, Header

\* A table whose numbers are bounded has a newest row.
LEMMA LatestIsNewest ==
    ASSUME NEW N \in Nat, blocks # {},
           \A b \in blocks : b.number \in 0..N
    PROVE  /\ LatestBlock \in blocks
           /\ \A b \in blocks : b.number <= LatestBlock.number
<1> DEFINE R == OpToRel(<, Nat)
           T == {N - b.number : b \in blocks}
<1>1. T \subseteq Nat /\ T # {}
  OBVIOUS
<1>2. \E x \in T : \A y \in T : ~ (<<y, x>> \in R)
  <2> HIDE DEF T, R
  <2>1. IsWellFoundedOn(R, Nat)
    BY NatLessThanWellFounded DEF R
  <2> QED
    BY <1>1, <2>1, WFMin
<1>3. PICK row \in blocks : \A y \in T : ~ (<<y, N - row.number>> \in R)
  BY <1>2
<1>4. \A b \in blocks : b.number <= row.number
  <2> TAKE b \in blocks
  <2>1. N - b.number \in Nat /\ N - row.number \in Nat
    OBVIOUS
  <2>2. ~ (N - b.number < N - row.number)
    BY <1>3, <2>1 DEF OpToRel
  <2> QED
    BY <2>2
<1> QED
  BY <1>4 DEF LatestBlock

-----------------------------------------------------------------------------
\* Type correctness.

LEMMA TypeInit == Init => TypeInv
<1> SUFFICES ASSUME Init PROVE TypeInv
  OBVIOUS
<1>1. ChainTypeOK
  <2>1. chain \in [1..InitHeight -> Nat]
    BY DEF Init, ChainInit
  <2>2. chain \in Seq(Nat) /\ Len(chain) = InitHeight
    BY <2>1
  <2> QED
    BY <2>2 DEF ChainTypeOK, Height, Init, ChainInit
<1>2. SyncTypeOK /\ FallbackTypeOK
  <2>1. /\ spc = "idle" /\ headers = <<>> /\ got = <<>> /\ batch = <<>>
        /\ scanned = 0 /\ lastTraversed = None /\ faults = 0
    BY DEF Init, SyncInit, SyncIdle
  <2>2. headers \in Seq(Header) /\ got \in Seq(Header) /\ batch \in Seq(Transfer)
    BY <2>1
  <2>3. fetch \in [last : Header \union {None}, next : Nat, end : Nat, current : BOOLEAN]
    BY DEF Init, SyncInit, SyncIdle, NoFetch
  <2>4. SyncTypeOK
    <3>1. up \in BOOLEAN /\ isFallback \in BOOLEAN
      BY DEF Init, SyncInit, SyncIdle
    <3>2. blocks = {} /\ reorgBlocks = {} /\ fallbackHeader = None
      BY DEF Init, SyncInit, SyncIdle
    <3> QED
      BY <2>1, <2>2, <2>3, <3>1, <3>2 DEF SyncTypeOK
  <2>5. FallbackTypeOK
    BY DEF Init, FallbackIdle, FallbackTypeOK
  <2> QED
    BY <2>4, <2>5
<1>3. TypeOK
  BY <1>1, <1>2 DEF TypeOK, Init, FinderIdle
<1> QED
  BY <1>3 DEF TypeInv, Init, SyncInit, SyncIdle, NoFetch, FallbackIdle

LEMMA TypeChainStep == TypeInv /\ ChainStep => TypeInv'
<1> SUFFICES ASSUME TypeInv, ChainStep PROVE TypeInv'
  OBVIOUS
<1> USE DEF TypeInv, TypeOK
<1>1. ChainTypeOK' /\ Height' >= Height
  BY ChainGrows DEF ChainStep
<1>2. SeenHeader \subseteq SeenHeader'
  BY <1>1 DEF SeenHeader, ChainTypeOK, Height
<1>3. SyncTypeOK' /\ FallbackTypeOK'
  BY DEF ChainStep, SyncTypeOK, FallbackTypeOK, dbVars, sharedVars, frameVars, fbVars
<1>4. spc' = "fetch" => fetch'.end <= Height' /\ fetch'.next + Len(got') <= fetch'.end
  BY <1>1 DEF ChainStep, frameVars, SyncTypeOK, ChainTypeOK, Height
<1> QED
  BY <1>1, <1>2, <1>3, <1>4
     DEF ChainStep, dbVars, sharedVars, frameVars, fbVars, finderVars

\* TickFetch asks for a non-empty range that ends at the confirmed height.
LEMMA TypeTickFetch ==
    ASSUME TypeInv, TickFetch, UNCHANGED <<chainVars, fbVars, finderVars>>
    PROVE  TypeInv'
<1> USE DEF TypeInv, TypeOK, dbVars, sharedVars, frameVars, chainVars, fbVars, finderVars
<1> DEFINE next == NextHeight(lastTraversed)
           end == Clamp(next, ConfirmedHeight, BlocksStep)
<1>1. Height \in Nat /\ Height' = Height /\ SeenHeader' = SeenHeader
  BY DEF ChainTypeOK, Height, SeenHeader
<1>2. next \in Nat /\ end \in Nat /\ next <= end /\ end <= Height
  <2>1. next \in Nat /\ next <= ConfirmedHeight
    BY <1>1 DEF TickFetch, NextHeight, SeenHeader, Header, ConfirmedHeight
  <2> QED
    BY <1>1, <2>1 DEF Clamp, ConfirmedHeight
<1>3. fetch' = [last |-> lastTraversed, next |-> next, end |-> end, current |-> TRUE]
      /\ got' = <<>> /\ spc' = "fetch"
  BY DEF TickFetch
<1>4. SyncTypeOK' /\ FallbackTypeOK' /\ ChainTypeOK'
  BY <1>1, <1>2, <1>3 DEF TickFetch, SyncTypeOK, FallbackTypeOK, ChainTypeOK
<1> QED
  BY <1>1, <1>2, <1>3, <1>4 DEF TickFetch, SyncTypeOK

\* The header NextHeaders reads next, in the state "fetch".
LEMMA FetchedSeen ==
    ASSUME TypeInv, spc = "fetch"
    PROVE  Fetched \in SeenHeader
<1>1. fetch.next + Len(got) \in 0..Height
  <2>1. fetch.next \in Nat /\ Len(got) \in Nat
    BY DEF TypeInv, TypeOK, SyncTypeOK
  <2>2. fetch.next + Len(got) <= Height /\ Height \in Nat
    BY DEF TypeInv, TypeOK, SyncTypeOK, ChainTypeOK, Height
  <2> QED
    BY <2>1, <2>2
<1> QED
  BY <1>1, HeaderSeen DEF Fetched, TypeInv, TypeOK

\* The steps of one tick from the fetch to the end of NextHeaders.
LEMMA TypeFetch ==
    ASSUME TypeInv, UNCHANGED <<chainVars, fbVars, finderVars>>,
           \/ FetchHeader \/ FetchLastHeader \/ FetchReorg \/ FetchError
    PROVE  TypeInv'
<1> USE DEF TypeInv, TypeOK, dbVars, sharedVars, frameVars, chainVars, fbVars,
            finderVars, SyncTypeOK
<1>1. Height' = Height /\ SeenHeader' = SeenHeader /\ Height \in Nat
  BY DEF ChainTypeOK, Height, SeenHeader
<1>2. FallbackTypeOK' /\ ChainTypeOK'
  BY <1>1 DEF FallbackTypeOK, ChainTypeOK
<1>3. SeenHeader \subseteq Header
  BY DEF SeenHeader
<1>4. CASE FetchHeader
  <2>1. Fetched \in SeenHeader /\ got' = Append(got, Fetched)
    BY <1>4, FetchedSeen DEF FetchHeader
  <2>2. got' \in Seq(Header) /\ Len(got') = Len(got) + 1
        /\ \A i \in 1..Len(got') : got'[i] \in SeenHeader
    BY <1>3, <2>1
  <2> QED
    BY <1>1, <1>2, <1>4, <2>1, <2>2 DEF FetchHeader
<1>5. CASE FetchLastHeader
  <2>1. Fetched \in SeenHeader /\ headers' = Append(got, Fetched)
    BY <1>5, FetchedSeen DEF FetchLastHeader
  <2>2. headers' \in Seq(Header)
        /\ \A i \in 1..Len(headers') : headers'[i] \in SeenHeader
    BY <1>3, <2>1
  <2>3. lastTraversed' \in SeenHeader \union {None} /\ fetch' = NoFetch
        /\ got' = <<>> /\ spc' = "scan"
    BY <1>5, <2>1 DEF FetchLastHeader
  <2> QED
    BY <1>1, <1>2, <1>3, <1>5, <2>2, <2>3 DEF FetchLastHeader, NoFetch
<1>6. CASE FetchReorg
  <2>1. Fetched \in SeenHeader /\ got' = <<Fetched>> /\ spc' = "mark"
    BY <1>6, FetchedSeen DEF FetchReorg
  <2>2. got' \in Seq(Header) /\ got' # <<>>
        /\ \A i \in 1..Len(got') : got'[i] \in SeenHeader
    BY <1>3, <2>1
  <2> QED
    BY <1>1, <1>2, <1>6, <2>1, <2>2 DEF FetchReorg
<1>7. CASE FetchError
  BY <1>1, <1>2, <1>7 DEF FetchError, EndTick, NoFetch, Fault
<1> QED
  BY <1>4, <1>5, <1>6, <1>7

\* Handing a reorganisation over, and processBatch.
LEMMA TypeProcess ==
    ASSUME TypeInv, UNCHANGED <<chainVars, fbVars>>,
           \/ MarkFallback \/ MarkFallbackHeader \/ AlreadyMarked \/ TickRetry
           \/ ScanBlock \/ ScanBlockEmpty \/ ProcessError
           \/ StoreBlocks \/ StoreConflict \/ StoreLostAck \/ SendBatch,
           \/ UNCHANGED finderVars
           \/ FinderReceive(batch)
    PROVE  TypeInv'
<1> USE DEF TypeInv, TypeOK, dbVars, sharedVars, frameVars, chainVars, fbVars,
            finderVars, SyncTypeOK
<1>1. Height' = Height /\ SeenHeader' = SeenHeader /\ Height \in Nat
  BY DEF ChainTypeOK, Height, SeenHeader
<1>2. FallbackTypeOK' /\ ChainTypeOK'
  BY <1>1 DEF FallbackTypeOK, ChainTypeOK
<1>3. SeenHeader \subseteq Header
  BY DEF SeenHeader
<1>4. finder' \in {"select", "busy", "dead"} /\ inHand' \in Seq(Transfer)
      /\ recorded' \in Seq(Transfer)
  BY DEF FinderReceive
<1>5. CASE MarkFallback
  BY <1>1, <1>2, <1>4, <1>5 DEF MarkFallback
<1>6. CASE MarkFallbackHeader
  <2>1. got[1] \in SeenHeader
    <3>1. got # <<>> /\ got \in Seq(Header)
      BY <1>6 DEF MarkFallbackHeader
    <3>2. 1 \in 1..Len(got)
      BY <3>1
    <3> QED
      BY <3>2
  <2> QED
    BY <1>1, <1>2, <1>3, <1>4, <1>6, <2>1 DEF MarkFallbackHeader, EndTick, NoFetch
<1>7. CASE AlreadyMarked
  BY <1>1, <1>2, <1>4, <1>7 DEF AlreadyMarked, EndTick, NoFetch
<1>8. CASE TickRetry
  BY <1>1, <1>2, <1>4, <1>8 DEF TickRetry
<1>9. CASE ScanBlock
  <2> DEFINE header == headers[scanned + 1]
             item == [block |-> header.hash, source |-> HashAt(header.number)]
  <2>1. header \in SeenHeader /\ scanned + 1 <= Len(headers)
    BY <1>9 DEF ScanBlock
  <2>2. item \in Transfer
    <3>1. header.hash \in BlockHash /\ header.number \in 1..Height
      BY <2>1 DEF SeenHeader, Header
    <3>2. HashAt(header.number) \in BlockHash
      <4>1. header.number \in 0..Height
        BY <1>1, <3>1
      <4> QED
        BY <4>1, HashSeen
    <3> QED
      BY <3>1, <3>2 DEF Transfer
  <2>3. batch' = Append(batch, item) \/ batch' = batch
    BY <1>9 DEF ScanBlock
  <2>4. batch' \in Seq(Transfer)
    <3>1. batch \in Seq(Transfer)
      OBVIOUS
    <3>2. Append(batch, item) \in Seq(Transfer)
      BY <2>2, <3>1, AppendIn
    <3> QED
      BY <2>3, <3>1, <3>2
  <2> QED
    BY <1>1, <1>2, <1>4, <1>9, <2>1, <2>4 DEF ScanBlock
<1>10. CASE ScanBlockEmpty
  BY <1>1, <1>2, <1>4, <1>10 DEF ScanBlockEmpty, Fault
<1>11. CASE ProcessError
  BY <1>1, <1>2, <1>4, <1>11 DEF ProcessError, Fault, EndTick, NoFetch
<1>12. CASE StoreBlocks \/ StoreLostAck
  <2>1. ToSet(headers) \subseteq SeenHeader
    BY DEF ToSet
  <2>2. blocks' \subseteq SeenHeader
    BY <1>12, <2>1 DEF StoreBlocks, StoreLostAck
  <2>3. CASE StoreBlocks
    <3>1. \/ EndTick /\ headers' = <<>>
          \/ spc' = "send" /\ UNCHANGED <<headers, fetch, got, scanned, batch>>
      BY <2>3 DEF StoreBlocks
    <3>2. blocks' \subseteq Header /\ UNCHANGED <<sharedVars, reorgBlocks, up, faults>>
      BY <1>3, <2>2, <2>3 DEF StoreBlocks
    <3>3. CASE EndTick /\ headers' = <<>>
      BY <1>1, <1>2, <1>4, <2>2, <3>2, <3>3 DEF EndTick, NoFetch
    <3>4. CASE spc' = "send" /\ UNCHANGED <<headers, fetch, got, scanned, batch>>
      BY <1>1, <1>2, <1>4, <2>2, <3>2, <3>4
    <3> QED
      BY <3>1, <3>3, <3>4
  <2>4. CASE StoreLostAck
    BY <1>1, <1>2, <1>3, <1>4, <2>2, <2>4 DEF StoreLostAck, EndTick, NoFetch, Fault
  <2> QED
    BY <1>12, <2>3, <2>4
<1>13. CASE StoreConflict
  BY <1>1, <1>2, <1>4, <1>13 DEF StoreConflict, EndTick, NoFetch
<1>14. CASE SendBatch
  BY <1>1, <1>2, <1>4, <1>14 DEF SendBatch, EndTick, NoFetch
<1> QED
  BY <1>5, <1>6, <1>7, <1>8, <1>9, <1>10, <1>11, <1>12, <1>13, <1>14

\* LatestBlocks returns a row of the table.
LEMMA LatestSeen ==
    ASSUME TypeInv
    PROVE  /\ blocks # {} => LatestBlock \in blocks
           /\ LatestBlock \in SeenHeader \union {None}
<1>1. Height \in Nat
  BY DEF TypeInv, TypeOK, ChainTypeOK, Height
<1>2. \A b \in blocks : b \in SeenHeader /\ b.number \in 0..Height
  BY <1>1 DEF TypeInv, SeenHeader
<1>3. CASE blocks # {}
  BY <1>1, <1>2, <1>3, LatestIsNewest
<1>4. CASE blocks = {}
  BY <1>4 DEF LatestBlock
<1> QED
  BY <1>2, <1>3, <1>4

LEMMA TypeFallback ==
    ASSUME TypeInv, UNCHANGED <<chainVars, finderVars>>,
           \/ FallbackTick \/ ReadChainBlock \/ ReadRow \/ ReadRowMissing
           \/ PersistFallback \/ PersistConflict \/ ReadNewest \/ FallbackError
           \/ SwapBatchBlock \/ ClearFlag \/ ClearHeader
    PROVE  TypeInv'
<1> USE DEF TypeInv, TypeOK, dbVars, sharedVars, frameVars, chainVars, fbVars,
            finderVars, SyncTypeOK, FallbackTypeOK
<1>1. Height' = Height /\ SeenHeader' = SeenHeader /\ Height \in Nat
  BY DEF ChainTypeOK, Height, SeenHeader
<1>2. ChainTypeOK'
  BY <1>1 DEF ChainTypeOK
<1>3. SeenHeader \subseteq Header
  BY DEF SeenHeader
<1>4. CASE FallbackTick
  BY <1>1, <1>2, <1>3, <1>4 DEF FallbackTick
<1>5. CASE ReadChainBlock
  <2>1. cursor \in SeenHeader
    BY <1>5 DEF ReadChainBlock
  <2>2. cursor.number - 1 \in 0..Height
    BY <1>1, <2>1 DEF SeenHeader, Header
  <2>3. onChain' \in SeenHeader /\ onChain' # None
    BY <1>3, <1>5, <2>2, HeaderSeen DEF ReadChainBlock
  <2> QED
    BY <1>1, <1>2, <1>3, <1>5, <2>3 DEF ReadChainBlock
<1>6. CASE ReadRow
  <2>1. rows' \subseteq SeenHeader
    BY <1>6 DEF ReadRow, RowsAt
  <2>2. cursor' = onChain /\ onChain \in SeenHeader /\ fpc' \in {"persist", "chain"}
    BY <1>6 DEF ReadRow
  <2> QED
    BY <1>1, <1>2, <1>3, <1>6, <2>1, <2>2 DEF ReadRow
<1>7. CASE ReadRowMissing
  BY <1>1, <1>2, <1>7 DEF ReadRowMissing
<1>8. CASE PersistFallback
  <2>1. blocks' \subseteq blocks /\ reorgBlocks' \subseteq Header
    BY <1>8 DEF PersistFallback
  <2> QED
    BY <1>1, <1>2, <1>8, <2>1 DEF PersistFallback
<1>9. CASE PersistConflict
  BY <1>1, <1>2, <1>9 DEF PersistConflict
<1>10. CASE ReadNewest
  <2>1. newest' \in SeenHeader \union {None}
    BY <1>10, LatestSeen DEF ReadNewest
  <2>2. faults' \in Nat
    BY <1>10 DEF ReadNewest, Fault
  <2> QED
    BY <1>1, <1>2, <1>3, <1>10, <2>1, <2>2 DEF ReadNewest
<1>11. CASE FallbackError
  BY <1>1, <1>2, <1>11 DEF FallbackError, Fault
<1>12. CASE SwapBatchBlock
  <2>1. fetch' \in [last : Header \union {None}, next : Nat, end : Nat,
                    current : BOOLEAN]
        /\ fetch'.last = fetch.last /\ fetch'.next = fetch.next
        /\ fetch'.end = fetch.end
    BY <1>12 DEF SwapBatchBlock
  <2>2. FallbackTypeOK' /\ lastTraversed' \in SeenHeader \union {None}
    BY <1>12 DEF SwapBatchBlock
  <2>3. /\ UNCHANGED <<blocks, reorgBlocks, up, spc, isFallback, fallbackHeader, headers, got,
                       scanned, batch, faults, rows, cursor, onChain, newest, finderVars>>
        /\ fpc' = "clear"
    BY <1>12 DEF SwapBatchBlock
  <2>4. SyncTypeOK'
    BY <1>3, <2>1, <2>2, <2>3
  <2> HIDE DEF SyncTypeOK, FallbackTypeOK, ChainTypeOK
  <2>5. TypeOK'
    BY <1>2, <2>2, <2>3, <2>4
  <2> QED
    BY <1>1, <2>1, <2>2, <2>3, <2>5
<1>13. CASE ClearFlag
  <2>1. isFallback' \in BOOLEAN
    BY <1>13 DEF ClearFlag
  <2> QED
    BY <1>1, <1>2, <1>13, <2>1 DEF ClearFlag
<1>14. CASE ClearHeader
  BY <1>1, <1>2, <1>3, <1>14 DEF ClearHeader, FallbackForget
<1> QED
  BY <1>4, <1>5, <1>6, <1>7, <1>8, <1>9, <1>10, <1>11, <1>12, <1>13, <1>14

\* The Finder's steps, the end of the process and its start.
LEMMA TypeOther ==
    ASSUME TypeInv,
           \/ FinderStep \/ FinderFault
           \/ Crash \/ NilHeaderPanic \/ NilFallbackPanic \/ Start
    PROVE  TypeInv'
<1> USE DEF TypeInv, TypeOK, dbVars, sharedVars, frameVars, chainVars, fbVars,
            finderVars, SyncTypeOK, FallbackTypeOK
<1>1. UNCHANGED chainVars
  BY DEF FinderStep, FinderFault, Crash, NilHeaderPanic, NilFallbackPanic,
         ProcessExit, Start
<1>2. Height' = Height /\ SeenHeader' = SeenHeader /\ ChainTypeOK' /\ Height \in Nat
  BY <1>1 DEF ChainTypeOK, Height, SeenHeader
<1>3. CASE FinderStep
  BY <1>2, <1>3 DEF FinderStep, HandleBatch
<1>4. CASE FinderFault
  <2>1. /\ finder' = "dead" /\ inHand' = <<>> /\ recorded' = recorded /\ faults' = faults + 1
        /\ UNCHANGED <<chainVars, dbVars, sharedVars, frameVars, up, fbVars>>
    BY <1>4 DEF FinderFault, HandleBatchFails, ConfirmationsFail, Fault
  <2> QED BY <1>2, <2>1
<1>5. CASE Crash \/ NilHeaderPanic \/ NilFallbackPanic
  <2>1. ProcessExit /\ faults' \in Nat
    BY <1>5 DEF Crash, NilHeaderPanic, NilFallbackPanic, Fault
  <2>2. up' \in BOOLEAN /\ isFallback' \in BOOLEAN
    BY <2>1 DEF ProcessExit, SyncForget
  <2>3. fetch' \in [last : Header \union {None}, next : Nat, end : Nat,
                    current : BOOLEAN] /\ fetch'.last = None
    BY <2>1 DEF ProcessExit, SyncForget, EndTick, NoFetch
  <2>4. /\ spc' = "idle" /\ headers' = <<>> /\ got' = <<>> /\ batch' = <<>>
        /\ scanned' = 0 /\ lastTraversed' = None /\ fallbackHeader' = None
        /\ UNCHANGED dbVars
    BY <2>1 DEF ProcessExit, SyncForget, EndTick
  <2>5. /\ fpc' = "wait" /\ cursor' = None /\ onChain' = None /\ newest' = None
        /\ rows' = {} /\ finder' = "select" /\ inHand' = <<>>
        /\ recorded' = recorded
    BY <2>1 DEF ProcessExit, FallbackForget, FinderForget
  <2> QED
    BY <1>2, <2>1, <2>2, <2>3, <2>4, <2>5
<1>6. CASE Start
  <2>1. FromHeader \in SeenHeader \union {None}
    <3>1. StartHeight \in 0..Height /\ 0 \in 0..Height
      BY <1>2 DEF ChainTypeOK
    <3> QED
      BY <3>1, HeaderSeen, LatestSeen DEF FromHeader
  <2>2. lastTraversed' \in SeenHeader \union {None} /\ faults' \in Nat /\ up' \in BOOLEAN
    BY <1>6, <2>1 DEF Start, NewSynchronizer, Fault
  <2>3. lastTraversed' \in Header \union {None}
    BY <2>2, <1>2 DEF SeenHeader
  <2> QED
    BY <1>2, <1>6, <2>2, <2>3 DEF Start, NewSynchronizer
<1> QED
  BY <1>3, <1>4, <1>5, <1>6

LEMMA TypeNext == TypeInv /\ [Next]_vars => TypeInv'
<1> SUFFICES ASSUME TypeInv, [Next]_vars PROVE TypeInv'
  OBVIOUS
<1>1. CASE ChainStep
  BY <1>1, TypeChainStep
<1>2. CASE SyncStep
  BY <1>2, TypeTickFetch, TypeFetch, TypeProcess DEF SyncStep
<1>3. CASE SyncFault
  BY <1>3, TypeFetch, TypeProcess DEF SyncFault
<1>4. CASE PushBatch
  BY <1>4, TypeProcess DEF PushBatch
<1>5. CASE FallbackStep \/ FallbackFault
  BY <1>5, TypeFallback DEF FallbackStep, FallbackFault
<1>6. CASE FinderStep \/ FinderFault \/ Crash \/ NilHeaderPanic \/ NilFallbackPanic
           \/ Start
  BY <1>6, TypeOther
<1>7. CASE UNCHANGED vars
  <2> USE <1>7 DEF TypeInv, TypeOK, vars, dbVars, sharedVars, frameVars, chainVars,
          fbVars, finderVars
  <2>1. Height' = Height /\ SeenHeader' = SeenHeader
    BY DEF Height, SeenHeader
  <2>2. ChainTypeOK' /\ SyncTypeOK' /\ FallbackTypeOK'
    BY <2>1 DEF ChainTypeOK, SyncTypeOK, FallbackTypeOK
  <2> QED
    BY <2>1, <2>2
<1> QED
  BY <1>1, <1>2, <1>3, <1>4, <1>5, <1>6, <1>7 DEF Next

\* Every variable of the pipeline keeps its type, for any chain, any schedule of
\* the loops and any failures.
THEOREM TypeCorrect == Spec => []TypeOK
<1>1. TypeInv => TypeOK
  BY DEF TypeInv
<1> QED
  BY <1>1, TypeInit, TypeNext, PTL DEF Spec

-----------------------------------------------------------------------------
(***************************************************************************)
(* What the Finder records, whatever reorganisations, failures and crashes *)
(* do to the scan: transfers of blocks the tables know, and those of one   *)
(* block again only after a fallback has backed that block up.             *)
(***************************************************************************)
BlocksIn(transfers) == {transfers[i].block : i \in 1..Len(transfers)}
HashesUpTo(seq, n) == {seq[k].hash : k \in 1..n}

KnownHashes == {b.hash : b \in blocks \union reorgBlocks}
BackedHashes == {b.hash : b \in reorgBlocks}

\* Headers as the chain gives them, one number after the other.
IsRun(seq) ==
    /\ \A i \in 1..Len(seq) :
           /\ seq[i].hash[1] = seq[i].number
           /\ seq[i].parent[1] = seq[i].number - 1
    /\ \A i \in 1..Len(seq) : seq[i].number = seq[1].number + i - 1

\* The blocks of two places are different ones, or have been backed up.
Apart(transfers) ==
    \A i, j \in 1..Len(transfers) :
        i < j /\ transfers[i].block = transfers[j].block
            => transfers[i].block \in BackedHashes
Disjoint(before, after) == BlocksIn(before) \intersect BlocksIn(after) \subseteq BackedHashes

Runs == IsRun(got) /\ IsRun(headers)

\* The rows a fallback has read are in the table until it deletes them, and
\* nobody else has their numbers.
Rows ==
    /\ \A b, c \in blocks : b.number = c.number => b = c
    /\ fpc \in {"chain", "row", "persist"} => rows \subseteq blocks
    /\ fpc = "wait" => rows = {}

\* The batch is drawn from the headers read so far, each block once.
BatchDrawn ==
    /\ spc \notin {"scan", "send"} => batch = <<>>
    /\ spc \in {"scan", "send"} => scanned <= Len(headers)
    /\ BlocksIn(batch) \subseteq HashesUpTo(headers, scanned)
    /\ \A i, j \in 1..Len(batch) : i < j => batch[i].block # batch[j].block

\* Where transfers travel: the stored batch, the Finder's hand, the tables.
Travel ==
    /\ finder # "busy" => inHand = <<>>
    /\ BlocksIn(recorded) \subseteq KnownHashes
    /\ BlocksIn(inHand) \subseteq KnownHashes
    /\ spc = "send" => BlocksIn(batch) \subseteq KnownHashes
    /\ Apart(recorded) /\ Apart(inHand)
    /\ Disjoint(recorded, inHand)
    /\ spc = "send" => Disjoint(recorded, batch) /\ Disjoint(inHand, batch)

RecordedInv == Runs /\ Rows /\ BatchDrawn /\ Travel

-----------------------------------------------------------------------------
\* A header of the chain carries its number in its hash, and the one before it
\* in its parent.
LEMMA HeaderShape ==
    ASSUME ChainTypeOK, NEW n \in 0..Height
    PROVE  LET h == GetBlockHeader(n)
           IN  h.hash[1] = h.number /\ h.parent[1] = h.number - 1
<1>1. Height \in Nat /\ Height >= 1
  BY DEF ChainTypeOK, Height
<1> DEFINE m == IF n = 0 THEN Height ELSE n
<1>2. m \in 1..Height
  BY <1>1
<1>3. HashAt(m)[1] = m /\ HashAt(m - 1)[1] = m - 1
  BY <1>1, <1>2 DEF HashAt
<1>4. GetBlockHeader(n) = HeaderAt(m)
  BY DEF GetBlockHeader
<1> QED
  BY <1>3, <1>4 DEF HeaderAt

LEMMA HeaderIn ==
    ASSUME NEW seq \in Seq(Header), NEW i \in 1..Len(seq)
    PROVE  seq[i] \in Header /\ seq[i].number \in Nat
<1>1. seq[i] \in Header
  OBVIOUS
<1> QED
  BY <1>1 DEF Header

\* A header that names the last of a run as its parent continues it.
LEMMA RunGrows ==
    ASSUME NEW seq \in Seq(Header), IsRun(seq), NEW h \in Header,
           h.hash[1] = h.number, h.parent[1] = h.number - 1,
           seq # <<>> => h.parent = seq[Len(seq)].hash
    PROVE  IsRun(Append(seq, h))
<1> DEFINE new == Append(seq, h)
<1>1. /\ new \in Seq(Header) /\ Len(new) = Len(seq) + 1 /\ Len(seq) \in Nat
      /\ new[Len(seq) + 1] = h
      /\ \A i \in 1..Len(seq) : new[i] = seq[i]
  OBVIOUS
<1>2. \A i \in 1..Len(seq) : seq[i] \in Header /\ seq[i].number \in Nat
  BY HeaderIn
<1>3. h.number \in Nat
  BY DEF Header
<1>4. h.number = new[1].number + Len(seq)
  <2>1. CASE seq = <<>>
    BY <1>1, <1>3, <2>1
  <2>2. CASE seq # <<>>
    <3>1. Len(seq) \in 1..Len(seq) /\ 1 \in 1..Len(seq)
      BY <2>2
    <3>2. h.parent[1] = seq[Len(seq)].number
      BY <2>2, <3>1 DEF IsRun
    <3>3. seq[Len(seq)].number = seq[1].number + Len(seq) - 1
      BY <3>1 DEF IsRun
    <3>4. /\ h.parent[1] = h.number - 1 /\ new[1] = seq[1]
          /\ seq[1].number \in Nat /\ Len(seq) \in Nat
      BY <1>1, <1>2, <3>1
    <3> QED
      BY <1>3, <3>2, <3>3, <3>4
  <2> QED
    BY <2>1, <2>2
<1>5. ASSUME NEW i \in 1..Len(new)
      PROVE  /\ new[i].hash[1] = new[i].number /\ new[i].parent[1] = new[i].number - 1
             /\ new[i].number = new[1].number + i - 1
  <2>1. CASE i \in 1..Len(seq)
    <3>1. 1 \in 1..Len(seq)
      BY <2>1, <1>1
    <3> QED
      BY <1>1, <2>1, <3>1 DEF IsRun
  <2>2. CASE i = Len(seq) + 1
    <3>1. new[1].number \in Nat
      <4>1. 1 \in 1..Len(new)
        BY <1>1
      <4> QED
        BY <1>1, <4>1, HeaderIn
    <3> QED
      BY <1>1, <1>3, <1>4, <2>2, <3>1
  <2> QED
    BY <1>1, <2>1, <2>2
<1> QED
  BY <1>5 DEF IsRun

\* No number appears twice in a run.
LEMMA RunNumbers ==
    ASSUME NEW seq \in Seq(Header), IsRun(seq), NEW i \in 1..Len(seq), NEW j \in 1..Len(seq),
           seq[i].number = seq[j].number
    PROVE  i = j
<1>1. seq[1].number \in Nat /\ Len(seq) \in Nat
  <2>1. Len(seq) \in Nat
    OBVIOUS
  <2>2. 1 \in 1..Len(seq)
    BY <2>1
  <2> QED
    BY <2>1, <2>2, HeaderIn
<1>2. seq[1].number + i - 1 = seq[1].number + j - 1
  BY DEF IsRun
<1>3. \A n, len \in Nat : \A k, l \in 1..len : n + k - 1 = n + l - 1 => k = l
  OBVIOUS
<1> QED
  BY <1>1, <1>2, <1>3

LEMMA EmptyRun == IsRun(<<>>)
  BY DEF IsRun

LEMMA SingleRun ==
    ASSUME NEW h \in Header, h.hash[1] = h.number, h.parent[1] = h.number - 1
    PROVE  IsRun(<<h>>)
<1>1. Len(<<h>>) = 1 /\ <<h>>[1] = h /\ h.number \in Nat
  BY DEF Header
<1> QED
  BY <1>1 DEF IsRun

LEMMA RecordedInit == Init => RecordedInv
<1> SUFFICES ASSUME Init PROVE RecordedInv
  OBVIOUS
<1>1. Runs
  BY EmptyRun DEF Init, SyncInit, SyncIdle, Runs
<1>2. Rows
  BY DEF Init, SyncInit, FallbackIdle, Rows
<1>3. BatchDrawn
  BY DEF Init, SyncInit, SyncIdle, BatchDrawn, BlocksIn
<1>4. Travel
  BY DEF Init, SyncInit, SyncIdle, FinderIdle, Travel, Apart, Disjoint, BlocksIn
<1> QED
  BY <1>1, <1>2, <1>3, <1>4 DEF RecordedInv

-----------------------------------------------------------------------------
\* The runs.

LEMMA RunsStep == TypeInv /\ Runs /\ [Next]_vars => Runs'
<1> SUFFICES ASSUME TypeInv, Runs, [Next]_vars PROVE Runs'
  OBVIOUS
<1> USE DEF vars, frameVars, dbVars, sharedVars
<1>0. /\ got \in Seq(Header) /\ headers \in Seq(Header)
      /\ IsRun(got) /\ IsRun(headers)
  BY DEF TypeInv, TypeOK, SyncTypeOK, Runs
<1>1. CASE UNCHANGED <<got, headers>>
  BY <1>0, <1>1 DEF Runs, IsRun
<1>2. CASE got' = <<>> /\ headers' \in {headers, <<>>}
  BY <1>0, <1>2, EmptyRun DEF Runs, IsRun
<1>3. CASE FetchHeader \/ FetchLastHeader \/ FetchReorg
  <2>1. spc = "fetch"
    BY <1>3 DEF FetchHeader, FetchLastHeader, FetchReorg
  <2>2. /\ Fetched \in Header /\ Fetched.hash[1] = Fetched.number
        /\ Fetched.parent[1] = Fetched.number - 1
    <3>1. fetch.next + Len(got) \in 0..Height /\ ChainTypeOK
      <4>1. ChainTypeOK /\ got \in Seq(Header) /\ fetch.next \in Nat /\ fetch.end \in Nat
            /\ fetch.end <= Height /\ fetch.next + Len(got) <= fetch.end
        BY <2>1 DEF TypeInv, TypeOK, SyncTypeOK
      <4>2. Height \in Nat /\ Len(got) \in Nat
        BY <4>1 DEF ChainTypeOK, Height
      <4> QED
        BY <4>1, <4>2
    <3> QED
      BY <2>1, <3>1, FetchedSeen, HeaderShape DEF Fetched, SeenHeader
  <2>3. CASE FetchReorg
    <3>1. got' = <<Fetched>> /\ headers' = headers
      BY <2>3 DEF FetchReorg
    <3> QED
      BY <1>0, <2>2, <3>1, SingleRun DEF Runs
  <2>4. CASE FetchHeader \/ FetchLastHeader
    <3>1. got # <<>> => Fetched.parent = got[Len(got)].hash
      <4>1. IsLinked(Fetched)
        BY <2>4 DEF FetchHeader, FetchLastHeader
      <4>2. ASSUME got # <<>> PROVE Predecessor = got[Len(got)] /\ got[Len(got)] \in Header
        BY <1>0, <4>2 DEF Predecessor, Last
      <4> QED
        BY <4>1, <4>2 DEF IsLinked
    <3>2. IsRun(Append(got, Fetched))
      BY <1>0, <2>2, <3>1, RunGrows
    <3>3. \/ got' = Append(got, Fetched) /\ headers' = headers
          \/ got' = <<>> /\ headers' = Append(got, Fetched)
      BY <2>4 DEF FetchHeader, FetchLastHeader
    <3> QED
      BY <1>0, <3>2, <3>3, EmptyRun DEF Runs
  <2> QED
    BY <1>3, <2>3, <2>4
<1>4. CASE ChainStep \/ FinderStep \/ FinderFault \/ FallbackStep \/ FallbackFault
           \/ Start \/ UNCHANGED vars
  <2>1. UNCHANGED <<got, headers>>
    BY <1>4 DEF ChainStep, FinderStep, FinderFault, FallbackStep, FallbackFault, Start,
         NewSynchronizer, FallbackTick, ReadChainBlock, ReadRow, ReadRowMissing,
         PersistFallback, PersistConflict, ReadNewest, SwapBatchBlock, ClearFlag,
         ClearHeader, FallbackError
  <2> QED
    BY <1>1, <2>1
<1>5. CASE Crash \/ NilHeaderPanic \/ NilFallbackPanic
  BY <1>2, <1>5 DEF Crash, NilHeaderPanic, NilFallbackPanic, ProcessExit, SyncForget, EndTick
<1>6. CASE SyncStep
  <2>1. CASE TickFetch
    BY <1>2, <2>1 DEF TickFetch
  <2>2. CASE MarkFallback \/ TickRetry \/ ScanBlock
    BY <1>1, <2>2 DEF MarkFallback, TickRetry, ScanBlock
  <2>3. CASE MarkFallbackHeader \/ AlreadyMarked \/ StoreConflict
    BY <1>2, <2>3 DEF MarkFallbackHeader, AlreadyMarked, StoreConflict, EndTick
  <2>4. CASE StoreBlocks
    BY <1>1, <1>2, <2>4 DEF StoreBlocks, EndTick
  <2> QED
    BY <1>3, <1>6, <2>1, <2>2, <2>3, <2>4 DEF SyncStep
<1>7. CASE SyncFault
  <2>1. CASE ScanBlockEmpty
    BY <1>1, <2>1 DEF ScanBlockEmpty
  <2>2. CASE FetchError \/ ProcessError \/ StoreLostAck
    BY <1>2, <2>2 DEF FetchError, ProcessError, StoreLostAck, EndTick
  <2> QED
    BY <1>7, <2>1, <2>2 DEF SyncFault
<1>8. CASE PushBatch
  BY <1>2, <1>8 DEF PushBatch, SendBatch, EndTick
<1> QED
  BY <1>4, <1>5, <1>6, <1>7, <1>8 DEF Next

-----------------------------------------------------------------------------
\* The table and the rows a fallback has read from it.

LEMMA HeadersOnce ==
    ASSUME TypeInv, Runs
    PROVE  \A b, c \in ToSet(headers) : b.number = c.number => b = c
<1>1. headers \in Seq(Header) /\ IsRun(headers)
  BY DEF TypeInv, TypeOK, SyncTypeOK, Runs
<1> SUFFICES ASSUME NEW b \in ToSet(headers), NEW c \in ToSet(headers), b.number = c.number
             PROVE  b = c
  OBVIOUS
<1>2. PICK i \in 1..Len(headers) : b = headers[i]
  BY <1>1 DEF ToSet
<1>3. PICK j \in 1..Len(headers) : c = headers[j]
  BY <1>1 DEF ToSet
<1> QED
  BY <1>1, <1>2, <1>3, RunNumbers

LEMMA RowsStep == TypeInv /\ Runs /\ Rows /\ [Next]_vars => Rows'
<1> SUFFICES ASSUME TypeInv, Runs, Rows, [Next]_vars PROVE Rows'
  OBVIOUS
<1> USE DEF vars, dbVars, fbVars
<1>1. CASE UNCHANGED <<fpc, rows, blocks>>
  BY <1>1 DEF Rows
<1>2. CASE UNCHANGED <<fpc, rows>> /\ ~UniqueViolation(blocks, ToSet(headers))
           /\ blocks' = blocks \union ToSet(headers)
  <2>1. \A b, c \in blocks' : b.number = c.number => b = c
    BY <1>2, HeadersOnce DEF Rows, UniqueViolation
  <2> QED
    BY <1>2, <2>1 DEF Rows
<1>3. CASE ChainStep \/ FinderStep \/ FinderFault \/ PushBatch \/ Start \/ UNCHANGED vars
  BY <1>1, <1>3 DEF ChainStep, FinderStep, FinderFault, PushBatch, SendBatch, Start,
     NewSynchronizer
<1>4. CASE Crash \/ NilHeaderPanic \/ NilFallbackPanic
  BY <1>4 DEF Crash, NilHeaderPanic, NilFallbackPanic, ProcessExit, FallbackForget, Rows
<1>5. CASE SyncStep \/ SyncFault
  <2>1. CASE StoreBlocks \/ StoreLostAck
    BY <1>2, <1>5, <2>1 DEF SyncStep, SyncFault, StoreBlocks, StoreLostAck
  <2>2. CASE ~(StoreBlocks \/ StoreLostAck)
    BY <1>1, <1>5, <2>2 DEF SyncStep, SyncFault, TickFetch, FetchHeader, FetchLastHeader,
       FetchReorg, MarkFallback, MarkFallbackHeader, AlreadyMarked, TickRetry, ScanBlock,
       StoreConflict, FetchError, ScanBlockEmpty, ProcessError
  <2> QED
    BY <2>1, <2>2
<1>6. CASE FallbackStep \/ FallbackFault
  <2>1. CASE FallbackTick
    BY <2>1 DEF FallbackTick, Rows
  <2>2. CASE ReadChainBlock
    BY <2>2 DEF ReadChainBlock, Rows
  <2>3. CASE ReadRow
    BY <2>3 DEF ReadRow, RowsAt, Rows
  <2>4. CASE PersistFallback
    BY <2>4 DEF PersistFallback, Rows
  <2>5. CASE ReadRowMissing \/ PersistConflict \/ FallbackError \/ ReadNewest
             \/ SwapBatchBlock \/ ClearFlag
    BY <2>5 DEF ReadRowMissing, PersistConflict, FallbackError, ReadNewest, SwapBatchBlock,
       ClearFlag, Rows
  <2>6. CASE ClearHeader
    BY <2>6 DEF ClearHeader, FallbackForget, Rows
  <2> QED
    BY <1>6, <2>1, <2>2, <2>3, <2>4, <2>5, <2>6 DEF FallbackStep, FallbackFault
<1> QED
  BY <1>3, <1>4, <1>5, <1>6 DEF Next

-----------------------------------------------------------------------------
\* The batch.

LEMMA AppendedBlocks ==
    ASSUME NEW seq \in Seq(Transfer), NEW t \in Transfer
    PROVE  /\ BlocksIn(Append(seq, t)) = BlocksIn(seq) \union {t.block}
           /\ \A i, j \in 1..Len(Append(seq, t)) :
                  i < j => \/ j \in 1..Len(seq) /\ i \in 1..Len(seq)
                              /\ Append(seq, t)[i] = seq[i] /\ Append(seq, t)[j] = seq[j]
                           \/ i \in 1..Len(seq) /\ Append(seq, t)[i] = seq[i]
                              /\ Append(seq, t)[j] = t
<1> DEFINE new == Append(seq, t)
<1>1. /\ Len(new) = Len(seq) + 1 /\ Len(seq) \in Nat /\ new[Len(seq) + 1] = t
      /\ \A i \in 1..Len(seq) : new[i] = seq[i]
  OBVIOUS
<1> HIDE DEF new
<1>2. 1..Len(new) = 1..Len(seq) \union {Len(seq) + 1}
  BY <1>1
<1>3. BlocksIn(new) = BlocksIn(seq) \union {t.block}
  BY <1>1, <1>2 DEF BlocksIn
<1>4. ASSUME NEW i \in 1..Len(new), NEW j \in 1..Len(new), i < j
      PROVE  /\ i \in 1..Len(seq) /\ new[i] = seq[i]
             /\ (j \in 1..Len(seq) /\ new[j] = seq[j]) \/ new[j] = t
  <2>1. i \in 1..Len(seq)
    BY <1>1, <1>4
  <2>2. j \in 1..Len(seq) \/ j = Len(seq) + 1
    BY <1>2
  <2> QED
    BY <1>1, <2>1, <2>2
<1> QED
  BY <1>3, <1>4 DEF new

LEMMA DrawnScan ==
    ASSUME TypeInv, Runs, BatchDrawn, ScanBlock
    PROVE  BatchDrawn'
<1> DEFINE header == headers[scanned + 1]
           source == HashAt(header.number)
           item == [block |-> header.hash, source |-> source]
<1>1. /\ spc = "scan" /\ spc' = "scan" /\ headers' = headers /\ scanned' = scanned + 1
      /\ scanned \in Nat /\ scanned < Len(headers) /\ headers \in Seq(Header)
      /\ Len(headers) \in Nat /\ batch \in Seq(Transfer)
      /\ IsRun(headers)
  BY DEF ScanBlock, TypeInv, TypeOK, SyncTypeOK, Runs
<1>2. batch' = batch \/ batch' = Append(batch, item)
  BY DEF ScanBlock
<1>3. /\ scanned' \in Nat /\ scanned' <= Len(headers) /\ scanned + 1 \in 1..Len(headers)
      /\ HashesUpTo(headers, scanned') = HashesUpTo(headers, scanned) \union {header.hash}
  <2>1. 1..scanned' = 1..scanned \union {scanned + 1}
    BY <1>1
  <2> QED
    BY <1>1, <2>1 DEF HashesUpTo
<1>4. CASE batch' = batch
  BY <1>1, <1>3, <1>4 DEF BatchDrawn
<1>5. CASE batch' = Append(batch, item)
  <2>1. header \in SeenHeader /\ ChainTypeOK
    BY <1>3 DEF TypeInv, TypeOK
  <2>2. item \in Transfer
    <3>1. Height \in Nat /\ header.hash \in BlockHash /\ header.number \in 1..Height
      BY <2>1 DEF SeenHeader, Header, ChainTypeOK, Height
    <3>2. header.number \in 0..Height
      BY <3>1
    <3> QED
      BY <2>1, <3>1, <3>2, HashSeen DEF Transfer
  <2>3. header.hash \notin HashesUpTo(headers, scanned)
    <3> SUFFICES ASSUME NEW k \in 1..scanned, headers[k].hash = header.hash PROVE FALSE
      BY DEF HashesUpTo
    <3>1. k \in 1..Len(headers) /\ k # scanned + 1
      BY <1>1
    <3>2. headers[k].number = header.number
      BY <1>1, <1>3, <3>1 DEF IsRun
    <3> QED
      BY <1>1, <1>3, <3>1, <3>2, RunNumbers
  <2> HIDE DEF item
  <2>4. item.block = header.hash
    BY DEF item
  <2>5. BlocksIn(batch') \subseteq HashesUpTo(headers, scanned')
    BY <1>1, <1>3, <1>5, <2>2, <2>4, AppendedBlocks DEF BatchDrawn
  <2>6. ASSUME NEW i \in 1..Len(batch'), NEW j \in 1..Len(batch'), i < j
        PROVE  batch'[i].block # batch'[j].block
    <3>1. CASE j \in 1..Len(batch) /\ i \in 1..Len(batch)
               /\ batch'[i] = batch[i] /\ batch'[j] = batch[j]
      BY <2>6, <3>1 DEF BatchDrawn
    <3>2. CASE i \in 1..Len(batch) /\ batch'[i] = batch[i] /\ batch'[j] = item
      <4>1. batch[i].block \in BlocksIn(batch)
        BY <3>2 DEF BlocksIn
      <4> QED
        BY <2>3, <2>4, <3>2, <4>1 DEF BatchDrawn
    <3>3. /\ Len(batch') = Len(batch) + 1 /\ batch'[Len(batch) + 1] = item
          /\ \A k \in 1..Len(batch) : batch'[k] = batch[k]
      BY <1>5, <2>2, AppendedBlocks
    <3>4. Len(batch) \in Nat /\ i \in 1..Len(batch) /\ (j \in 1..Len(batch) \/ j = Len(batch) + 1)
      BY <2>6, <3>3
    <3> QED
      BY <3>1, <3>2, <3>3, <3>4
  <2> QED
    BY <1>1, <1>3, <2>5, <2>6 DEF BatchDrawn
<1> QED
  BY <1>2, <1>4, <1>5

LEMMA DrawnStep == TypeInv /\ Runs /\ BatchDrawn /\ [Next]_vars => BatchDrawn'
<1> SUFFICES ASSUME TypeInv, Runs, BatchDrawn, [Next]_vars PROVE BatchDrawn'
  OBVIOUS
<1> USE DEF vars, frameVars
<1>0. /\ scanned \in Nat /\ Len(headers) \in Nat /\ headers \in Seq(Header)
      /\ got \in Seq(Header)
      /\ spc \in {"idle", "fetch", "mark", "markHeader", "scan", "send"}
      /\ spc \notin {"scan", "send"} => scanned = 0
      /\ BlocksIn(<<>>) = {}
  BY DEF TypeInv, TypeOK, SyncTypeOK, BlocksIn
<1>1. CASE UNCHANGED <<spc, headers, scanned, batch>>
  BY <1>1 DEF BatchDrawn
<1>2. CASE spc' = "idle" /\ batch' = <<>>
  BY <1>0, <1>2 DEF BatchDrawn, BlocksIn
<1>3. CASE spc \notin {"scan", "send"} /\ UNCHANGED <<scanned, batch>>
           /\ (spc' \in {"scan", "send"} => Len(headers') \in Nat)
  <2>1. batch' = <<>> /\ scanned' = 0
    BY <1>0, <1>3 DEF BatchDrawn
  <2> QED
    BY <1>3, <2>1 DEF BatchDrawn, BlocksIn
<1>4. CASE spc = "scan" /\ spc' = "send" /\ UNCHANGED <<headers, scanned, batch>>
  BY <1>4 DEF BatchDrawn
<1>5. CASE ChainStep \/ FinderStep \/ FinderFault \/ FallbackStep \/ FallbackFault
           \/ Start \/ UNCHANGED vars
  <2>1. UNCHANGED <<spc, headers, scanned, batch>>
    BY <1>5 DEF ChainStep, FinderStep, FinderFault, FallbackStep, FallbackFault, Start,
         NewSynchronizer, FallbackTick, ReadChainBlock, ReadRow, ReadRowMissing,
         PersistFallback, PersistConflict, ReadNewest, SwapBatchBlock, ClearFlag,
         ClearHeader, FallbackError
  <2> QED
    BY <1>1, <2>1
<1>6. CASE Crash \/ NilHeaderPanic \/ NilFallbackPanic
  BY <1>2, <1>6 DEF Crash, NilHeaderPanic, NilFallbackPanic, ProcessExit, SyncForget, EndTick
<1>7. CASE PushBatch
  BY <1>2, <1>7 DEF PushBatch, SendBatch, EndTick
<1>8. CASE SyncStep
  <2>1. CASE TickFetch \/ FetchHeader \/ FetchReorg \/ MarkFallback \/ TickRetry
    BY <1>0, <1>3, <2>1 DEF TickFetch, FetchHeader, FetchReorg, MarkFallback, TickRetry
  <2>2. CASE FetchLastHeader
    <3>1. Fetched \in Header
      BY <2>2, FetchedSeen DEF FetchLastHeader, SeenHeader
    <3>2. Len(Append(got, Fetched)) \in Nat
      BY <1>0, <3>1
    <3> QED
      BY <1>3, <2>2, <3>2 DEF FetchLastHeader
  <2>3. CASE MarkFallbackHeader \/ AlreadyMarked \/ StoreConflict
    BY <1>2, <2>3 DEF MarkFallbackHeader, AlreadyMarked, StoreConflict, EndTick
  <2>4. CASE ScanBlock
    BY <2>4, DrawnScan
  <2>5. CASE StoreBlocks
    BY <1>2, <1>4, <2>5 DEF StoreBlocks, EndTick
  <2> QED
    BY <1>8, <2>1, <2>2, <2>3, <2>4, <2>5 DEF SyncStep
<1>9. CASE SyncFault
  <2>1. CASE ScanBlockEmpty
    <3>1. /\ spc' = spc /\ spc = "scan" /\ scanned' = scanned + 1 /\ scanned < Len(headers)
          /\ UNCHANGED <<headers, batch>>
      BY <2>1 DEF ScanBlockEmpty
    <3>2. 1..scanned \subseteq 1..scanned' /\ scanned' <= Len(headers)
      BY <1>0, <3>1
    <3>3. HashesUpTo(headers, scanned) \subseteq HashesUpTo(headers, scanned')
      BY <3>2 DEF HashesUpTo
    <3> QED
      BY <3>1, <3>2, <3>3 DEF BatchDrawn
  <2>2. CASE FetchError \/ ProcessError \/ StoreLostAck
    BY <1>2, <2>2 DEF FetchError, ProcessError, StoreLostAck, EndTick
  <2> QED
    BY <1>9, <2>1, <2>2 DEF SyncFault
<1> QED
  BY <1>5, <1>6, <1>7, <1>8, <1>9 DEF Next

-----------------------------------------------------------------------------
\* The transfers on their way.

\* The tables may grow, and the batch may go, while nobody takes or records one.
LEMMA TravelRests ==
    ASSUME Travel, UNCHANGED finderVars,
           KnownHashes \subseteq KnownHashes', BackedHashes \subseteq BackedHashes',
           spc' = "send" => spc = "send" /\ batch' = batch
    PROVE  Travel'
  BY DEF Travel, Apart, Disjoint, finderVars

\* Stored blocks stay known, backed ones backed.
LEMMA TablesKeep ==
    ASSUME TypeInv, Rows, [Next]_vars
    PROVE  KnownHashes \subseteq KnownHashes' /\ BackedHashes \subseteq BackedHashes'
<1> USE DEF vars, dbVars
<1>1. CASE blocks \subseteq blocks' /\ reorgBlocks \subseteq reorgBlocks'
  BY <1>1 DEF KnownHashes, BackedHashes
<1>2. CASE ChainStep \/ FinderStep \/ FinderFault \/ PushBatch \/ Start \/ UNCHANGED vars
           \/ Crash \/ NilHeaderPanic \/ NilFallbackPanic
  BY <1>1, <1>2 DEF ChainStep, FinderStep, FinderFault, PushBatch, SendBatch, Start,
     NewSynchronizer, Crash, NilHeaderPanic, NilFallbackPanic, ProcessExit
<1>3. CASE SyncStep \/ SyncFault
  BY <1>1, <1>3 DEF SyncStep, SyncFault, TickFetch, FetchHeader, FetchLastHeader,
     FetchReorg, MarkFallback, MarkFallbackHeader, AlreadyMarked, TickRetry, ScanBlock,
     StoreConflict, FetchError, ScanBlockEmpty, ProcessError, StoreBlocks, StoreLostAck
<1>4. CASE FallbackStep \/ FallbackFault
  <2>1. CASE PersistFallback
    <3>1. ASSUME NEW b \in blocks PROVE b \in blocks' \/ b \in reorgBlocks'
      BY <2>1 DEF PersistFallback, Rows
    <3>2. reorgBlocks \subseteq reorgBlocks'
      BY <2>1 DEF PersistFallback
    <3> QED
      BY <3>1, <3>2 DEF KnownHashes, BackedHashes
  <2>2. CASE ~PersistFallback
    BY <1>1, <1>4, <2>2 DEF FallbackStep, FallbackFault, FallbackTick, ReadChainBlock, ReadRow,
       ReadRowMissing, PersistConflict, FallbackError, ReadNewest, SwapBatchBlock, ClearFlag,
       ClearHeader
  <2> QED
    BY <2>1, <2>2
<1> QED
  BY <1>2, <1>3, <1>4 DEF Next

\* A batch that is stored holds new blocks only, or backed ones.
LEMMA TravelStore ==
    ASSUME TypeInv, Rows, BatchDrawn, Travel, StoreBlocks, UNCHANGED finderVars,
           KnownHashes \subseteq KnownHashes', BackedHashes \subseteq BackedHashes'
    PROVE  Travel'
<1>1. CASE spc' # "send"
  BY <1>1, TravelRests
<1>2. CASE spc' = "send"
  <2>1. /\ spc = "scan" /\ scanned = Len(headers) /\ batch' = batch
        /\ blocks' = blocks \union ToSet(headers) /\ reorgBlocks' = reorgBlocks
        /\ ~UniqueViolation(blocks, ToSet(headers)) /\ headers \in Seq(Header)
    BY <1>2 DEF StoreBlocks, EndTick, TypeInv, TypeOK, SyncTypeOK
  <2>2. ASSUME NEW hash \in BlocksIn(batch)
        PROVE  hash \in KnownHashes' /\ (hash \in KnownHashes => hash \in BackedHashes)
    <3>1. PICK k \in 1..Len(headers) : hash = headers[k].hash
      BY <2>1 DEF BatchDrawn, HashesUpTo
    <3>2. headers[k] \in ToSet(headers)
      BY <2>1 DEF ToSet
    <3> QED
      BY <2>1, <3>1, <3>2 DEF KnownHashes, BackedHashes, UniqueViolation
  <2>3. BlocksIn(batch') = BlocksIn(batch) /\ BackedHashes' = BackedHashes
    BY <2>1 DEF BackedHashes
  <2>4. Disjoint(recorded, batch)' /\ Disjoint(inHand, batch)'
    BY <2>2, <2>3 DEF Travel, Disjoint, finderVars
  <2>5. BlocksIn(batch') \subseteq KnownHashes'
    BY <2>2, <2>3
  <2> QED
    BY <2>3, <2>4, <2>5 DEF Travel, Apart, Disjoint, finderVars
<1> QED
  BY <1>1, <1>2

\* The Finder takes the batch.
LEMMA TravelPush ==
    ASSUME BatchDrawn, Travel, PushBatch,
           KnownHashes \subseteq KnownHashes', BackedHashes \subseteq BackedHashes'
    PROVE  Travel'
<1>1. /\ spc = "send" /\ spc' = "idle" /\ inHand' = batch /\ recorded' = recorded
      /\ finder' = "busy"
  BY DEF PushBatch, SendBatch, EndTick, FinderReceive
<1>2. Apart(inHand)'
  BY <1>1 DEF BatchDrawn, Apart
<1> QED
  BY <1>1, <1>2 DEF Travel, Apart, Disjoint

\* The Finder records what it holds.
LEMMA TravelRecord ==
    ASSUME TypeInv, Travel, FinderStep,
           KnownHashes \subseteq KnownHashes', BackedHashes \subseteq BackedHashes'
    PROVE  Travel'
<1>1. /\ inHand \in Seq(Transfer) /\ recorded \in Seq(Transfer)
      /\ recorded' = recorded \o inHand /\ inHand' = <<>> /\ finder' = "select"
      /\ spc' = spc /\ batch' = batch
  BY DEF FinderStep, HandleBatch, frameVars, TypeInv, TypeOK
<1>2. /\ Len(recorded) \in Nat /\ Len(inHand) \in Nat
      /\ Len(recorded') = Len(recorded) + Len(inHand)
      /\ \A i \in 1..Len(recorded) : recorded'[i] = recorded[i]
      /\ \A i \in 1..Len(inHand) : recorded'[Len(recorded) + i] = inHand[i]
  BY <1>1
<1>3. \A i \in 1..Len(recorded') :
          \/ i \in 1..Len(recorded)
          \/ /\ i - Len(recorded) \in 1..Len(inHand)
             /\ recorded'[i] = inHand[i - Len(recorded)]
  <2> TAKE i \in 1..Len(recorded')
  <2>1. CASE i \in 1..Len(recorded)
    BY <2>1
  <2>2. CASE i \notin 1..Len(recorded)
    <3>1. i - Len(recorded) \in 1..Len(inHand) /\ Len(recorded) + (i - Len(recorded)) = i
      BY <1>2, <2>2
    <3> QED
      BY <1>2, <3>1
  <2> QED
    BY <2>1, <2>2
<1>4. BlocksIn(recorded') \subseteq BlocksIn(recorded) \union BlocksIn(inHand)
  BY <1>2, <1>3 DEF BlocksIn
<1>5. BlocksIn(<<>>) = {} /\ Apart(<<>>)
  BY DEF BlocksIn, Apart
<1>6. Apart(recorded)'
  <2> SUFFICES ASSUME NEW i \in 1..Len(recorded'), NEW j \in 1..Len(recorded'),
                      i < j, recorded'[i].block = recorded'[j].block
               PROVE  recorded'[i].block \in BackedHashes
    BY DEF Apart
  <2>1. CASE j \in 1..Len(recorded)
    <3>1. i \in 1..Len(recorded)
      BY <1>2, <2>1
    <3> QED
      BY <1>2, <2>1, <3>1 DEF Travel, Apart
  <2>2. CASE i \in 1..Len(recorded) /\ j \notin 1..Len(recorded)
    <3>1. recorded'[i].block \in BlocksIn(recorded) /\ recorded'[j].block \in BlocksIn(inHand)
      BY <1>2, <1>3, <2>2 DEF BlocksIn
    <3> QED
      BY <3>1 DEF Travel, Disjoint
  <2>3. CASE i \notin 1..Len(recorded) /\ j \notin 1..Len(recorded)
    <3> DEFINE k == i - Len(recorded)
               l == j - Len(recorded)
    <3>1. /\ k \in 1..Len(inHand) /\ l \in 1..Len(inHand) /\ k < l
          /\ recorded'[i] = inHand[k] /\ recorded'[j] = inHand[l]
      BY <1>2, <1>3, <2>3
    <3> QED
      BY <3>1 DEF Travel, Apart
  <2> QED
    BY <2>1, <2>2, <2>3
<1>7. BackedHashes' = BackedHashes /\ KnownHashes' = KnownHashes
  BY DEF FinderStep, dbVars, BackedHashes, KnownHashes
<1>8. Disjoint(recorded, batch)' \/ spc' # "send"
  BY <1>1, <1>4, <1>7 DEF Travel, Disjoint
<1> QED
  BY <1>1, <1>4, <1>5, <1>6, <1>7, <1>8 DEF Travel, Disjoint, Apart

\* The Finder's batch is gone with its goroutine or the process.
LEMMA TravelLoses ==
    ASSUME Travel, inHand' = <<>>, recorded' = recorded,
           KnownHashes \subseteq KnownHashes', BackedHashes \subseteq BackedHashes',
           spc' = "send" => spc = "send" /\ batch' = batch
    PROVE  Travel'
<1>1. BlocksIn(<<>>) = {} /\ Apart(<<>>)
  BY DEF BlocksIn, Apart
<1> QED
  BY <1>1 DEF Travel, Apart, Disjoint

LEMMA TravelStep == TypeInv /\ Rows /\ BatchDrawn /\ Travel /\ [Next]_vars => Travel'
<1> SUFFICES ASSUME TypeInv, Rows, BatchDrawn, Travel, [Next]_vars PROVE Travel'
  OBVIOUS
<1> USE DEF vars, frameVars
<1>0. KnownHashes \subseteq KnownHashes' /\ BackedHashes \subseteq BackedHashes'
  BY TablesKeep
<1>1. CASE ChainStep \/ FallbackStep \/ FallbackFault \/ Start \/ UNCHANGED vars
  <2>1. UNCHANGED <<finderVars, spc, batch>>
    BY <1>1 DEF ChainStep, FallbackStep, FallbackFault, Start,
         NewSynchronizer, FallbackTick, ReadChainBlock, ReadRow, ReadRowMissing,
         PersistFallback, PersistConflict, ReadNewest, SwapBatchBlock, ClearFlag,
         ClearHeader, FallbackError
  <2> QED
    BY <1>0, <2>1, TravelRests
<1>2. CASE Crash \/ NilHeaderPanic \/ NilFallbackPanic
  <2>1. inHand' = <<>> /\ recorded' = recorded /\ spc' = "idle"
    BY <1>2 DEF Crash, NilHeaderPanic, NilFallbackPanic, ProcessExit, SyncForget, EndTick,
       FinderForget
  <2> QED
    BY <1>0, <2>1, TravelLoses
<1>3. CASE FinderStep
  BY <1>0, <1>3, TravelRecord
<1>4. CASE FinderFault
  BY <1>0, <1>4, TravelLoses DEF FinderFault, HandleBatchFails, ConfirmationsFail
<1>5. CASE PushBatch
  BY <1>0, <1>5, TravelPush
<1>6. CASE SyncStep
  <2>1. CASE StoreBlocks
    BY <1>0, <1>6, <2>1, TravelStore DEF SyncStep
  <2>2. CASE ~StoreBlocks
    <3>1. UNCHANGED finderVars /\ (spc' = "send" => spc = "send" /\ batch' = batch)
      BY <1>6, <2>2 DEF SyncStep, TickFetch, FetchHeader, FetchLastHeader, FetchReorg,
         MarkFallback, MarkFallbackHeader, AlreadyMarked, TickRetry, ScanBlock,
         StoreConflict, EndTick
    <3> QED
      BY <1>0, <3>1, TravelRests
  <2> QED
    BY <2>1, <2>2
<1>7. CASE SyncFault
  <2>1. UNCHANGED finderVars /\ (spc' = "send" => spc = "send" /\ batch' = batch)
    BY <1>7 DEF SyncFault, FetchError, ScanBlockEmpty, ProcessError, StoreLostAck, EndTick
  <2> QED
    BY <1>0, <2>1, TravelRests
<1> QED
  BY <1>1, <1>2, <1>3, <1>4, <1>5, <1>6, <1>7 DEF Next

-----------------------------------------------------------------------------

LEMMA RecordedAlways == Spec => [](TypeInv /\ RecordedInv)
<1>1. Init => TypeInv /\ RecordedInv
  BY TypeInit, RecordedInit
<1>2. TypeInv /\ RecordedInv /\ [Next]_vars => (TypeInv /\ RecordedInv)'
  BY TypeNext, RunsStep, RowsStep, DrawnStep, TravelStep DEF RecordedInv
<1> QED
  BY <1>1, <1>2, PTL DEF Spec

\* A recorded transfer belongs to a block the tables know, whatever
\* reorganisations, fallbacks, failures and crashes come between.
THEOREM RecordedAreKnown == Spec => []RecordedIsKnown
<1>1. TypeInv /\ RecordedInv => RecordedIsKnown
  <2> SUFFICES ASSUME TypeInv, RecordedInv, NEW i \in DOMAIN recorded
               PROVE  Known(recorded[i].block)
    BY DEF RecordedIsKnown
  <2>1. recorded \in Seq(Transfer)
    BY DEF TypeInv, TypeOK
  <2>2. recorded[i].block \in KnownHashes
    BY <2>1 DEF RecordedInv, Travel, BlocksIn
  <2> QED
    BY <2>2 DEF KnownHashes, Known
<1> QED
  BY <1>1, RecordedAlways, PTL

\* The transfers of a block are recorded a second time only after a fallback has
\* backed the block up, however often the scan repeats itself.
THEOREM RecordedOnce == Spec => []RecordedOncePerStore
<1>1. TypeInv /\ RecordedInv => RecordedOncePerStore
  <2> SUFFICES ASSUME TypeInv, RecordedInv,
                      NEW i \in DOMAIN recorded, NEW j \in DOMAIN recorded,
                      i < j, recorded[i].block = recorded[j].block
               PROVE  \E b \in reorgBlocks : b.hash = recorded[i].block
    BY DEF RecordedOncePerStore
  <2>1. recorded \in Seq(Transfer)
    BY DEF TypeInv, TypeOK
  <2>2. recorded[i].block \in BackedHashes
    BY <2>1 DEF RecordedInv, Travel, Apart
  <2> QED
    BY <2>2 DEF BackedHashes
<1> QED
  BY <1>1, RecordedAlways, PTL

-----------------------------------------------------------------------------
(***************************************************************************)
(* The scanning pipeline when reorganisations are no deeper than the       *)
(* confirmations and the node answers without error codes: no fallback is  *)
(* ever flagged and the table blocks is a gapless stretch of the canonical *)
(* chain, whatever the other failures and however often the process dies.  *)
(***************************************************************************)

\* A block no reorganisation reaches any more.
IsSettled(h) ==
    /\ h.number \in Nat \ {0}
    /\ h.number + MaxDepth <= Height
    /\ h = HeaderAt(h.number)

IsStorable(h) == IsSettled(h) /\ h.number \in (StartHeight + 1)..ConfirmedHeight

StoredUpTo(n) == \A m \in (StartHeight + 1)..n : Stored(m)

\* The Fallback task has nothing to do.
Quiet == fpc = "wait" /\ ~isFallback /\ fallbackHeader = None

\* The last block traversed is settled, and every block before the ones in hand
\* is stored.
Position ==
    /\ up => /\ lastTraversed # None
             /\ IsSettled(lastTraversed) /\ lastTraversed.number >= StartHeight
    /\ ~up => spc = "idle" /\ headers = <<>>
    /\ up /\ (headers = <<>> \/ spc = "send") => StoredUpTo(lastTraversed.number)
    /\ headers # <<>> => StoredUpTo(headers[1].number - 1)

\* The headers in hand are a stretch that ends at the last block traversed.
InHandOk ==
    /\ \A i \in 1..Len(headers) :
           /\ IsStorable(headers[i])
           /\ headers[i].number = headers[1].number + i - 1
    /\ headers # <<>> => lastTraversed = headers[Len(headers)]

\* NextHeaders fetches a stretch that follows the last block traversed.
FetchOk ==
    spc = "fetch" =>
        /\ headers = <<>>
        /\ fetch.last = lastTraversed /\ fetch.current
        /\ fetch.next = lastTraversed.number + 1
        /\ fetch.end <= ConfirmedHeight
        /\ \A i \in 1..Len(got) : got[i] = HeaderAt(fetch.next + i - 1)

StoreOk ==
    /\ \A b \in blocks : IsStorable(b)
    /\ \A b \in blocks : StoredUpTo(b.number)

SettledInv ==
    /\ Quiet /\ Position /\ InHandOk /\ FetchOk /\ StoreOk
    /\ spc \in {"idle", "fetch", "scan", "send"}
    /\ spc \in {"scan", "send"} => headers # <<>>

-----------------------------------------------------------------------------
USE DEF Settled

LEMMA SettledInit == Settled /\ Init => SettledInv
BY DEF Init, SyncInit, SyncIdle, FallbackIdle, SettledInv, Quiet, Position, InHandOk,
       FetchOk, StoreOk

\* A chain that grows or reorganises keeps its settled blocks.
LEMMA SettledStays ==
    ASSUME Settled, TypeInv, ChainStep,
           NEW n \in Nat, n + MaxDepth <= Height
    PROVE  HashAt(n)' = HashAt(n) /\ n + MaxDepth <= Height'
<1>1. /\ chain \in Seq(Nat) /\ Height = Len(chain) /\ Height \in Nat
      /\ Height' = Len(chain')
  BY DEF TypeInv, TypeOK, ChainTypeOK, Height
<1>2. CASE Mine
  <2>1. Len(chain') = Len(chain) + 1 /\ \A m \in 1..Len(chain) : chain'[m] = chain[m]
    BY <1>1, <1>2 DEF Mine
  <2>2. MaxDepth \in Nat /\ n <= Len(chain)
    BY <1>1
  <2>3. HashAt(n)' = HashAt(n)
    BY <1>1, <2>1, <2>2 DEF HashAt
  <2> QED
    BY <1>1, <2>1, <2>2, <2>3
<1>3. CASE Reorg
  <2>1. PICK depth \in 1..MaxDepth :
            chain' = [m \in 1..Height |->
                         IF m > Height - depth THEN branch + 1 ELSE chain[m]]
    BY <1>3 DEF Reorg
  <2>2. Height' >= Height
    BY <1>3, ChainGrows DEF TypeInv, TypeOK
  <2>3. ChainTypeOK'
    BY <1>3, ChainGrows DEF TypeInv, TypeOK
  <2>4. Height' \in Nat
    BY <2>3 DEF ChainTypeOK, Height
  <2>5. n # 0 => chain'[n] = chain[n]
    BY <1>1, <2>1
  <2> QED
    BY <1>1, <2>2, <2>4, <2>5 DEF HashAt
<1> QED
  BY <1>2, <1>3 DEF ChainStep

LEMMA HeaderAtStays ==
    ASSUME Settled, TypeInv, ChainStep,
           NEW n \in Nat \ {0}, n + MaxDepth <= Height
    PROVE  HeaderAt(n)' = HeaderAt(n)
<1>1. HashAt(n)' = HashAt(n)
  BY SettledStays
<1>2. n - 1 \in Nat /\ (n - 1) + MaxDepth <= Height
  BY DEF TypeInv, TypeOK, ChainTypeOK, Height
<1>3. HashAt(n - 1)' = HashAt(n - 1)
  BY <1>2, SettledStays
<1> QED
  BY <1>1, <1>3 DEF HeaderAt

LEMMA HeaderStays ==
    ASSUME Settled, TypeInv, ChainStep, NEW h, IsSettled(h)
    PROVE  IsSettled(h)' /\ (h.number <= ConfirmedHeight => h.number <= ConfirmedHeight')
<1>1. h.number \in Nat \ {0} /\ h.number + MaxDepth <= Height /\ h = HeaderAt(h.number)
  BY DEF IsSettled
<1>2. HeaderAt(h.number)' = HeaderAt(h.number) /\ h.number + MaxDepth <= Height'
  BY <1>1, SettledStays, HeaderAtStays
<1>3. Height \in Nat /\ Height' \in Nat /\ Height' >= Height
  BY ChainGrows DEF ChainStep, TypeInv, TypeOK, ChainTypeOK, Height
<1> QED
  BY <1>1, <1>2, <1>3 DEF IsSettled, ConfirmedHeight

LEMMA SettledChainStep ==
    ASSUME Settled, TypeInv, SettledInv, ChainStep
    PROVE  SettledInv'
<1> USE DEF ChainStep, dbVars, sharedVars, frameVars, fbVars, finderVars
<1>1. Quiet'
  BY DEF SettledInv, Quiet
<1>2. Position'
  <2>1. up' => /\ lastTraversed' # None
               /\ IsSettled(lastTraversed)' /\ lastTraversed'.number >= StartHeight
    BY HeaderStays DEF SettledInv, Position, IsSettled, HeaderAt, HashAt, Height
  <2> QED
    BY <2>1 DEF SettledInv, Position, StoredUpTo, Stored
<1>3. \A h : IsStorable(h) => IsStorable(h)'
  <2> SUFFICES ASSUME NEW h, IsStorable(h) PROVE IsStorable(h)'
    OBVIOUS
  <2>1. IsSettled(h)' /\ h.number <= ConfirmedHeight'
    <3>1. h.number <= ConfirmedHeight
      BY DEF IsStorable
    <3> QED
      BY <3>1, HeaderStays DEF IsStorable
  <2>2. ConfirmedHeight' \in Int
    BY ChainGrows DEF TypeInv, TypeOK, ChainTypeOK, ConfirmedHeight, Height
  <2> QED
    BY <2>1, <2>2 DEF IsStorable
<1>4. InHandOk'
  <2>1. \A i \in 1..Len(headers) : IsStorable(headers[i])
    BY DEF SettledInv, InHandOk
  <2>2. (\A i \in 1..Len(headers) : IsStorable(headers[i]))'
    BY <1>3, <2>1 DEF IsStorable, IsSettled, HeaderAt, HashAt, Height, ConfirmedHeight
  <2> QED
    BY <2>2 DEF SettledInv, InHandOk
<1>5. FetchOk'
  <2> SUFFICES ASSUME spc = "fetch" PROVE FetchOk'
    BY DEF FetchOk
  <2>1. /\ fetch.next \in Nat \ {0} /\ fetch.end \in Nat /\ fetch.end <= ConfirmedHeight
        /\ fetch.next + Len(got) <= fetch.end /\ Height \in Nat /\ Height' \in Nat
        /\ Height' >= Height
    <3>1. lastTraversed.number \in Nat
      BY DEF SettledInv, Position, IsSettled
    <3>2. Height \in Nat /\ Height' \in Nat /\ Height' >= Height
      BY ChainGrows DEF TypeInv, TypeOK, ChainTypeOK, Height
    <3> QED
      BY <3>1, <3>2 DEF SettledInv, FetchOk, TypeInv, TypeOK, SyncTypeOK
  <2>2. ASSUME NEW m \in Nat \ {0}, m <= fetch.end
        PROVE  HeaderAt(m)' = HeaderAt(m)
    <3>1. m + MaxDepth <= Height
      BY <2>1, <2>2 DEF ConfirmedHeight
    <3> QED
      BY <2>2, <3>1, HeaderAtStays
  <2>3. fetch.end <= ConfirmedHeight'
    BY <2>1 DEF ConfirmedHeight
  <2>4. ASSUME NEW i \in 1..Len(got)
        PROVE  (got[i] = HeaderAt(fetch.next + i - 1))'
    <3>1. got[i] = HeaderAt(fetch.next + i - 1)
      BY DEF SettledInv, FetchOk
    <3>2. fetch.next + i - 1 \in Nat \ {0} /\ fetch.next + i - 1 <= fetch.end
      BY <2>1 DEF TypeInv, TypeOK, SyncTypeOK
    <3>3. PICK m \in Nat \ {0} : m = fetch.next + i - 1 /\ m <= fetch.end
      BY <3>2
    <3>4. got[i] = HeaderAt(m)'
      BY <2>2, <3>1, <3>3
    <3> QED
      BY <3>3, <3>4
  <2> QED
    BY <2>3, <2>4 DEF SettledInv, FetchOk
<1>6. StoreOk'
  BY <1>3 DEF SettledInv, StoreOk, StoredUpTo, Stored
<1> QED
  BY <1>1, <1>2, <1>4, <1>5, <1>6 DEF SettledInv

\* The next header NextHeaders asks for is storable and follows the last one.
LEMMA FetchedFollows ==
    ASSUME Settled, TypeInv, SettledInv, spc = "fetch"
    PROVE  LET k == fetch.next + Len(got)
           IN  /\ Fetched = HeaderAt(k) /\ IsStorable(Fetched) /\ Fetched.number = k
               /\ IsLinked(Fetched)
<1> DEFINE k == fetch.next + Len(got)
<1>1. up /\ IsSettled(lastTraversed) /\ lastTraversed.number >= StartHeight
      /\ fetch.last = lastTraversed /\ fetch.next = lastTraversed.number + 1
      /\ fetch.last # None
  BY DEF SettledInv, Position, FetchOk
<1>2. Height \in Nat /\ lastTraversed.number \in Nat \ {0} /\ Len(got) \in Nat
      /\ lastTraversed = HeaderAt(lastTraversed.number) /\ got \in Seq(Header)
  <2>1. lastTraversed.number \in Nat \ {0}
        /\ lastTraversed = HeaderAt(lastTraversed.number)
    BY <1>1 DEF IsSettled
  <2>2. Height \in Nat
    BY DEF TypeInv, TypeOK, ChainTypeOK, Height
  <2>3. got \in Seq(Header)
    BY DEF TypeInv, TypeOK, SyncTypeOK
  <2> QED
    BY <2>1, <2>2, <2>3
<1>3. k \in Nat /\ k > 1 /\ k > StartHeight /\ k <= ConfirmedHeight
  <2>1. k <= fetch.end /\ fetch.end <= ConfirmedHeight /\ fetch.end \in Nat
    BY DEF SettledInv, FetchOk, TypeInv, TypeOK, SyncTypeOK
  <2> QED
    BY <1>1, <1>2, <2>1 DEF ConfirmedHeight
<1>4. Fetched = HeaderAt(k) /\ Fetched.number = k
  BY <1>3 DEF Fetched, GetBlockHeader, HeaderAt
<1>5. IsStorable(Fetched)
  BY <1>2, <1>3, <1>4 DEF IsStorable, IsSettled, ConfirmedHeight
<1>6. Predecessor = HeaderAt(k - 1)
  <2>1. CASE got = <<>>
    BY <1>1, <1>2, <2>1 DEF Predecessor
  <2>2. CASE got # <<>>
    <3>1. Last(got) = got[Len(got)] /\ Len(got) \in 1..Len(got)
      BY <1>2, <2>2 DEF Last
    <3>2. got[Len(got)] = HeaderAt(fetch.next + Len(got) - 1)
      BY <3>1 DEF SettledInv, FetchOk
    <3>3. Predecessor = got[Len(got)]
      BY <2>2, <3>1 DEF Predecessor
    <3>4. fetch.next + Len(got) - 1 = k - 1
      BY <1>1, <1>2
    <3> QED
      BY <3>2, <3>3, <3>4
  <2> QED
    BY <2>1, <2>2
<1>7. IsLinked(Fetched)
  BY <1>4, <1>6 DEF IsLinked, HeaderAt
<1> QED
  BY <1>4, <1>5, <1>7

\* TickFetch asks for storable blocks from the one after the last traversed.
LEMMA SettledTickFetch ==
    ASSUME Settled, TypeInv, SettledInv, TickFetch,
           UNCHANGED <<chainVars, fbVars, finderVars>>
    PROVE  SettledInv'
<1> USE DEF dbVars, sharedVars, frameVars, chainVars, fbVars, finderVars
<1>1. lastTraversed # None /\ lastTraversed.number \in Nat /\ Height \in Nat
      /\ lastTraversed.number < ConfirmedHeight /\ headers = <<>>
  <2>1. up
    BY DEF TickFetch
  <2> QED
    BY <2>1 DEF SettledInv, Position, IsSettled, TickFetch, TypeInv, TypeOK,
                ChainTypeOK, Height
<1>2. /\ fetch' = [last |-> lastTraversed, next |-> lastTraversed.number + 1,
                   end |-> Clamp(lastTraversed.number + 1, ConfirmedHeight, BlocksStep),
                   current |-> TRUE]
      /\ got' = <<>> /\ spc' = "fetch"
  BY <1>1 DEF TickFetch, NextHeight
<1>3. fetch'.end <= ConfirmedHeight
  BY <1>1, <1>2 DEF Clamp, ConfirmedHeight
<1>4. FetchOk'
  BY <1>1, <1>2, <1>3 DEF FetchOk, TickFetch, ConfirmedHeight, Height
<1>5. UNCHANGED <<chain, blocks, headers, lastTraversed, up, isFallback, fallbackHeader, fpc>>
  BY DEF TickFetch
<1>6. Quiet' /\ Position' /\ InHandOk' /\ StoreOk'
  BY <1>1, <1>2, <1>5
     DEF SettledInv, Quiet, Position, InHandOk, StoreOk, IsStorable, IsSettled,
         HeaderAt, HashAt, ConfirmedHeight, Height, StoredUpTo, Stored, TickFetch
<1> QED
  BY <1>2, <1>4, <1>6 DEF SettledInv

\* The steps of NextHeaders: the header fetched follows, so no fallback.
LEMMA SettledFetch ==
    ASSUME Settled, TypeInv, SettledInv, UNCHANGED <<chainVars, fbVars, finderVars>>,
           \/ FetchHeader \/ FetchLastHeader \/ FetchReorg \/ FetchError
    PROVE  SettledInv'
<1> USE DEF dbVars, sharedVars, frameVars, chainVars, fbVars, finderVars
<1>1. /\ spc = "fetch" /\ up /\ headers = <<>> /\ got \in Seq(Header)
      /\ fetch.next \in Nat /\ Fetched = HeaderAt(fetch.next + Len(got))
      /\ IsStorable(Fetched) /\ IsLinked(Fetched)
      /\ Fetched.number = fetch.next + Len(got)
      /\ fetch.next = lastTraversed.number + 1 /\ StoredUpTo(lastTraversed.number)
  <2>1. spc = "fetch" /\ up
    BY DEF FetchHeader, FetchLastHeader, FetchReorg, FetchError
  <2>2. headers = <<>> /\ fetch.next = lastTraversed.number + 1
    BY <2>1 DEF SettledInv, FetchOk
  <2>3. got \in Seq(Header) /\ fetch.next \in Nat
    BY DEF TypeInv, TypeOK, SyncTypeOK
  <2>4. StoredUpTo(lastTraversed.number)
    BY <2>1, <2>2 DEF SettledInv, Position
  <2> QED
    BY <2>1, <2>2, <2>3, <2>4, FetchedFollows
<1>2. UNCHANGED <<chain, blocks, up, isFallback, fallbackHeader, fpc>>
  BY <1>1 DEF FetchHeader, FetchLastHeader, FetchReorg, FetchError
<1>8. \A m : HeaderAt(m)' = HeaderAt(m)
  BY <1>2 DEF HeaderAt, HashAt
<1>3. Quiet' /\ StoreOk'
  BY <1>2 DEF SettledInv, Quiet, StoreOk, IsStorable, IsSettled,
              HeaderAt, HashAt, ConfirmedHeight, Height, StoredUpTo, Stored
<1>4. CASE FetchHeader
  <2>1. got' = Append(got, Fetched) /\ UNCHANGED <<spc, headers, fetch, lastTraversed>>
    BY <1>4 DEF FetchHeader
  <2>2. ASSUME NEW i \in 1..Len(got')
        PROVE  got'[i] = HeaderAt(fetch.next + i - 1)
    <3>1. CASE i = Len(got) + 1
      BY <1>1, <2>1, <3>1
    <3>2. CASE i # Len(got) + 1
      <4>1. i \in 1..Len(got) /\ got'[i] = got[i]
        BY <1>1, <2>1, <3>2
      <4> QED
        BY <1>1, <4>1 DEF SettledInv, FetchOk
    <3> QED
      BY <3>1, <3>2
  <2>3. FetchOk'
    <3>1. (\A i \in 1..Len(got) : got[i] = HeaderAt(fetch.next + i - 1))'
      BY <1>8, <2>1, <2>2
    <3>2. /\ headers' = <<>> /\ fetch'.last = lastTraversed' /\ fetch'.current
          /\ fetch'.next = lastTraversed'.number + 1 /\ fetch'.end <= ConfirmedHeight'
      BY <1>1, <1>2, <2>1 DEF SettledInv, FetchOk, ConfirmedHeight, Height
    <3> QED
      BY <3>1, <3>2 DEF FetchOk
  <2>4. Position' /\ InHandOk'
    BY <1>1, <1>2, <2>1
       DEF SettledInv, Position, InHandOk, IsStorable, IsSettled, HeaderAt, HashAt,
           ConfirmedHeight, Height, StoredUpTo, Stored
  <2> QED
    BY <1>1, <1>3, <2>1, <2>3, <2>4 DEF SettledInv
<1>5. CASE FetchLastHeader
  <2>1. /\ headers' = Append(got, Fetched) /\ lastTraversed' = Fetched
        /\ spc' = "scan" /\ got' = <<>>
    BY <1>1, <1>5 DEF FetchLastHeader, SettledInv, FetchOk
  <2>2. ASSUME NEW i \in 1..Len(got)
        PROVE  IsStorable(got[i]) /\ got[i].number = fetch.next + i - 1
    <3> DEFINE n == fetch.next + i - 1
    <3>1. got[i] = HeaderAt(n)
      BY <1>1 DEF SettledInv, FetchOk
    <3>2. Height \in Nat
      BY DEF TypeInv, TypeOK, ChainTypeOK, Height
    <3>3. lastTraversed.number \in Nat /\ lastTraversed.number >= StartHeight
      BY <1>1 DEF SettledInv, Position, IsSettled
    <3>4. n \in Nat \ {0} /\ n > StartHeight /\ n <= fetch.next + Len(got)
      <4>1. Len(got) \in Nat /\ fetch.next = lastTraversed.number + 1
        BY <1>1
      <4> QED
        BY <3>3, <4>1
    <3>5. fetch.next + Len(got) <= ConfirmedHeight
      BY <1>1 DEF IsStorable
    <3>6. n <= ConfirmedHeight
      BY <1>1, <3>2, <3>4, <3>5 DEF ConfirmedHeight
    <3>7. got[i].number = n
      BY <3>1 DEF HeaderAt
    <3> HIDE DEF n
    <3>8. IsStorable(got[i])
      BY <3>1, <3>2, <3>4, <3>6, <3>7 DEF IsStorable, IsSettled, ConfirmedHeight
    <3> QED
      BY <3>7, <3>8 DEF n
  <2>3. ASSUME NEW i \in 1..Len(headers')
        PROVE  IsStorable(headers'[i]) /\ headers'[i].number = fetch.next + i - 1
    <3>1. CASE i = Len(got) + 1
      BY <1>1, <2>1, <3>1
    <3>2. CASE i # Len(got) + 1
      <4>1. i \in 1..Len(got) /\ headers'[i] = got[i]
        BY <1>1, <2>1, <3>2
      <4> QED
        BY <2>2, <4>1
    <3> QED
      BY <3>1, <3>2
  <2>4. headers' # <<>> /\ Len(headers') = Len(got) + 1 /\ headers'[Len(headers')] = Fetched
        /\ headers'[1].number = fetch.next
    <3>1. headers' # <<>> /\ Len(headers') = Len(got) + 1 /\ headers'[Len(headers')] = Fetched
      BY <1>1, <2>1
    <3>2. 1 \in 1..Len(headers')
      BY <1>1, <3>1
    <3> QED
      BY <1>1, <2>3, <3>1, <3>2
  <2>5. InHandOk'
    <3>1. (\A i \in 1..Len(headers) : IsStorable(headers[i]))'
      BY <1>2, <2>3
         DEF IsStorable, IsSettled, HeaderAt, HashAt, ConfirmedHeight, Height
    <3>2. (\A i \in 1..Len(headers) : headers[i].number = headers[1].number + i - 1)'
      BY <2>3, <2>4
    <3> QED
      BY <2>1, <2>4, <3>1, <3>2 DEF InHandOk
  <2>6. Position'
    <3>1. IsSettled(Fetched) /\ Fetched.number \in Nat /\ Fetched.number >= StartHeight
      BY <1>1 DEF IsStorable, IsSettled, ConfirmedHeight
    <3>2. Fetched # None
      <4>1. Fetched \in SeenHeader
        BY <1>1, FetchedSeen
      <4> QED
        BY <4>1 DEF SeenHeader
    <3>3. headers'[1].number - 1 = lastTraversed.number
      <4>1. lastTraversed.number \in Nat
        BY <1>1 DEF SettledInv, Position, IsSettled
      <4> QED
        BY <1>1, <2>4, <4>1
    <3> QED
      BY <1>1, <1>2, <2>1, <2>4, <3>1, <3>2, <3>3
         DEF Position, IsSettled, HeaderAt, HashAt, Height, StoredUpTo, Stored
  <2> QED
    BY <1>3, <2>1, <2>4, <2>5, <2>6 DEF SettledInv, FetchOk
<1>6. CASE FetchReorg
  BY <1>1, <1>6 DEF FetchReorg
<1>7. CASE FetchError
  BY <1>1, <1>2, <1>3, <1>7
     DEF FetchError, EndTick, SettledInv, Position, InHandOk, FetchOk, IsStorable,
         IsSettled, HeaderAt, HashAt, ConfirmedHeight, Height, StoredUpTo, Stored
<1> QED
  BY <1>4, <1>5, <1>6, <1>7

\* Storing the headers in hand extends the stretch up to the last traversed.
LEMMA SettledStore ==
    ASSUME Settled, TypeInv, SettledInv, headers # <<>>, up,
           UNCHANGED chain, blocks' = blocks \union ToSet(headers)
    PROVE  StoreOk' /\ \A m \in (StartHeight + 1)..lastTraversed.number : Stored(m)'
<1>1. headers \in Seq(Header) /\ Len(headers) \in Nat \ {0}
      /\ \A i \in 1..Len(headers) : headers[i].number \in Nat
  <2>1. headers \in Seq(Header)
    BY DEF TypeInv, TypeOK, SyncTypeOK
  <2>2. \A i \in 1..Len(headers) : headers[i] \in Header
    BY <2>1
  <2> QED
    BY <2>1, <2>2 DEF Header
<1>2. /\ \A i \in 1..Len(headers) : headers[i].number = headers[1].number + i - 1
      /\ lastTraversed = headers[Len(headers)] /\ StoredUpTo(headers[1].number - 1)
  BY DEF SettledInv, InHandOk, Position
<1>3. lastTraversed.number = headers[1].number + Len(headers) - 1
      /\ headers[1].number \in Nat
  BY <1>1, <1>2
<1>4. \A m \in (StartHeight + 1)..lastTraversed.number : Stored(m)'
  <2> SUFFICES ASSUME NEW m \in (StartHeight + 1)..lastTraversed.number
               PROVE  Stored(m)'
    OBVIOUS
  <2>1. CASE m < headers[1].number
    <3>1. m \in (StartHeight + 1)..(headers[1].number - 1)
      BY <1>3, <2>1
    <3> QED
      BY <1>2, <3>1 DEF StoredUpTo, Stored
  <2>2. CASE m >= headers[1].number
    <3> DEFINE i == m - headers[1].number + 1
    <3>1. i \in 1..Len(headers) /\ headers[1].number + i - 1 = m
      BY <1>1, <1>3, <2>2
    <3>2. headers[i] \in ToSet(headers) /\ headers[i].number = m
      BY <1>2, <3>1 DEF ToSet
    <3> QED
      BY <3>2 DEF Stored
  <2> QED
    BY <1>3, <2>1, <2>2
<1>5. ASSUME NEW b \in blocks'
      PROVE  IsStorable(b)' /\ \A m \in (StartHeight + 1)..b.number : Stored(m)'
  <2>1. CASE b \in blocks
    BY <2>1 DEF SettledInv, StoreOk, StoredUpTo, Stored, IsStorable, IsSettled, HeaderAt,
                HashAt, ConfirmedHeight, Height
  <2>2. CASE b \in ToSet(headers)
    <3>1. PICK i \in 1..Len(headers) : b = headers[i]
      BY <2>2 DEF ToSet
    <3>2. IsStorable(b)
      BY <3>1 DEF SettledInv, InHandOk
    <3>3. b.number \in Nat /\ b.number <= lastTraversed.number
      BY <1>1, <1>2, <1>3, <3>1
    <3>4. IsStorable(b)'
      BY <3>2 DEF IsStorable, IsSettled, HeaderAt, HashAt, ConfirmedHeight, Height
    <3>5. \A m \in (StartHeight + 1)..b.number : Stored(m)'
      BY <1>1, <1>3, <1>4, <3>3
    <3> QED
      BY <3>4, <3>5
  <2> QED
    BY <2>1, <2>2
<1>6. StoreOk'
  BY <1>5 DEF StoreOk, StoredUpTo
<1> QED
  BY <1>4, <1>6

\* processBatch, with the push to the Finder.
LEMMA SettledProcess ==
    ASSUME Settled, TypeInv, SettledInv, UNCHANGED <<chainVars, fbVars>>,
           \/ MarkFallback \/ MarkFallbackHeader \/ AlreadyMarked \/ TickRetry
           \/ ScanBlock \/ ScanBlockEmpty \/ ProcessError
           \/ StoreBlocks \/ StoreConflict \/ StoreLostAck \/ SendBatch
    PROVE  SettledInv'
<1> USE DEF dbVars, sharedVars, frameVars, chainVars, fbVars
<1>1. UNCHANGED <<chain, lastTraversed, up, isFallback, fallbackHeader, fpc>> /\ up
      /\ spc \in {"idle", "scan", "send"}
  BY DEF SettledInv, MarkFallback, MarkFallbackHeader, AlreadyMarked, TickRetry,
         ScanBlock, ScanBlockEmpty, ProcessError, StoreBlocks, StoreConflict,
         StoreLostAck, SendBatch
<1>2. Quiet'
  BY <1>1 DEF SettledInv, Quiet
<1>3. CASE UNCHANGED <<headers, blocks>> /\ spc' \in {"idle", "scan"} /\ headers # <<>>
           /\ spc # "send"
  <2>1. Height' = Height /\ ConfirmedHeight' = ConfirmedHeight
        /\ \A n : HeaderAt(n)' = HeaderAt(n)
    BY <1>1 DEF Height, ConfirmedHeight, HeaderAt, HashAt
  <2>2. (\A h : IsSettled(h)' <=> IsSettled(h)) /\ (\A h : IsStorable(h)' <=> IsStorable(h))
    BY <2>1 DEF IsSettled, IsStorable
  <2>3. \A n : StoredUpTo(n)' <=> StoredUpTo(n)
    BY <1>3, <2>1 DEF StoredUpTo, Stored
  <2>4. InHandOk' /\ StoreOk'
    BY <1>1, <1>3, <2>2, <2>3 DEF SettledInv, InHandOk, StoreOk
  <2>5. Position'
    BY <1>1, <1>3, <2>2, <2>3 DEF SettledInv, Position
  <2> QED
    BY <1>2, <1>3, <2>4, <2>5 DEF SettledInv, FetchOk
<1>4. CASE TickRetry \/ ScanBlock \/ ScanBlockEmpty \/ ProcessError \/ StoreConflict
  <2>1. UNCHANGED <<headers, blocks>> /\ spc' \in {"idle", "scan"} /\ headers # <<>>
        /\ spc # "send"
    BY <1>4 DEF TickRetry, ScanBlock, ScanBlockEmpty, ProcessError, StoreConflict,
                EndTick, SettledInv
  <2> QED
    BY <1>3, <2>1
<1>5. CASE StoreBlocks \/ StoreLostAck
  <2>1. headers # <<>> /\ blocks' = blocks \union ToSet(headers)
    BY <1>5 DEF SettledInv, StoreBlocks, StoreLostAck
  <2>2. StoreOk' /\ \A m \in (StartHeight + 1)..lastTraversed.number : Stored(m)'
    BY <1>1, <2>1, SettledStore
  <2>3. \/ headers' = <<>> /\ spc' = "idle"
        \/ headers' = headers /\ spc' \in {"idle", "send"}
    BY <1>5 DEF StoreBlocks, StoreLostAck, EndTick
  <2>4. InHandOk'
    <3>1. \A h : IsStorable(h)' <=> IsStorable(h)
      BY <1>1 DEF IsStorable, IsSettled, HeaderAt, HashAt, ConfirmedHeight, Height
    <3>2. CASE headers' = <<>>
      BY <3>2 DEF InHandOk
    <3>3. CASE headers' = headers
      BY <1>1, <3>1, <3>3 DEF SettledInv, InHandOk
    <3> QED
      BY <2>3, <3>2, <3>3
  <2>5. Position'
    <3>1. StoredUpTo(lastTraversed.number)'
      BY <1>1, <2>2 DEF StoredUpTo
    <3>2. headers' # <<>> => StoredUpTo(headers[1].number - 1)'
      BY <2>1, <2>3 DEF SettledInv, Position, StoredUpTo, Stored
    <3> QED
      BY <1>1, <2>3, <3>1, <3>2
         DEF SettledInv, Position, IsSettled, HeaderAt, HashAt, Height
  <2> QED
    BY <1>2, <2>1, <2>2, <2>3, <2>4, <2>5 DEF SettledInv, FetchOk
<1>6. CASE SendBatch
  <2>1. UNCHANGED blocks /\ spc' = "idle" /\ headers' = <<>>
    BY <1>6 DEF SendBatch, EndTick
  <2>2. (\A h : IsSettled(h)' <=> IsSettled(h)) /\ (\A h : IsStorable(h)' <=> IsStorable(h))
    BY <1>1 DEF IsStorable, IsSettled, HeaderAt, HashAt, ConfirmedHeight, Height
  <2>3. \A n : StoredUpTo(n)' <=> StoredUpTo(n)
    BY <1>1, <2>1 DEF StoredUpTo, Stored, HeaderAt, HashAt
  <2>4. StoreOk'
    BY <2>1, <2>2, <2>3 DEF SettledInv, StoreOk
  <2>5. Position'
    <3>1. up /\ up' /\ spc = "send" /\ lastTraversed' = lastTraversed
      BY <1>1, <1>6 DEF SendBatch
    <3>2. /\ lastTraversed # None /\ IsSettled(lastTraversed)
          /\ lastTraversed.number >= StartHeight /\ StoredUpTo(lastTraversed.number)
      BY <3>1 DEF SettledInv, Position
    <3>3. IsSettled(lastTraversed)' /\ StoredUpTo(lastTraversed.number)'
      BY <2>2, <2>3, <3>1, <3>2
    <3> QED
      BY <2>1, <3>1, <3>2, <3>3 DEF Position
  <2>6. InHandOk' /\ FetchOk'
    BY <2>1 DEF InHandOk, FetchOk
  <2> QED
    BY <1>2, <2>1, <2>4, <2>5, <2>6 DEF SettledInv
<1> QED
  BY <1>1, <1>4, <1>5, <1>6 DEF MarkFallback, MarkFallbackHeader, AlreadyMarked

\* The end of the process loses the position; its start finds it in the table.
LEMMA SettledExitOrStart ==
    ASSUME Settled, TypeInv, SettledInv,
           ProcessExit \/ Start
    PROVE  SettledInv'
<1> USE DEF dbVars, sharedVars, frameVars, chainVars, fbVars, finderVars
<1>1. UNCHANGED <<chain, blocks>>
  BY DEF ProcessExit, Start, NewSynchronizer
<1>2. StoreOk'
  BY <1>1 DEF SettledInv, StoreOk, IsStorable, IsSettled, HeaderAt, HashAt,
              ConfirmedHeight, Height, StoredUpTo, Stored
<1>3. CASE ProcessExit
  BY <1>2, <1>3 DEF ProcessExit, SyncForget, EndTick, FallbackForget, SettledInv, Quiet,
                    Position, InHandOk, FetchOk
<1>4. CASE Start
  <2>1. /\ up' /\ lastTraversed' = FromHeader /\ spc' = "idle" /\ headers' = <<>>
        /\ UNCHANGED <<isFallback, fallbackHeader, fpc>>
    BY <1>4 DEF Start, NewSynchronizer, Fault, SettledInv, Position
  <2>2. Height \in Nat /\ Height >= InitHeight
    BY DEF TypeInv, TypeOK, ChainTypeOK, Height
  <2>3. /\ FromHeader # None /\ IsSettled(FromHeader) /\ FromHeader.number >= StartHeight
        /\ StoredUpTo(FromHeader.number)
    <3>1. CASE blocks # {}
      <4>1. LatestBlock \in blocks
        BY <3>1, LatestSeen
      <4>2. LatestBlock # None
        BY <4>1 DEF TypeInv, SeenHeader
      <4> QED
        BY <2>2, <3>1, <4>1, <4>2
           DEF FromHeader, SettledInv, StoreOk, IsStorable, ConfirmedHeight
    <3>2. CASE blocks = {}
      <4>1. FromHeader = HeaderAt(StartHeight)
        BY <3>2 DEF FromHeader, GetBlockHeader
      <4>2. FromHeader # None
        <5>1. StartHeight \in 0..Height /\ GetBlockHeader(StartHeight) \in SeenHeader
          BY <2>2, HeaderSeen DEF TypeInv, TypeOK
        <5> QED
          BY <3>2, <5>1 DEF FromHeader, SeenHeader
      <4>3. FromHeader.number = StartHeight
        BY <4>1 DEF HeaderAt
      <4> QED
        BY <2>2, <4>1, <4>2, <4>3 DEF IsSettled, StoredUpTo
    <3> QED
      BY <3>1, <3>2
  <2>4. IsSettled(lastTraversed)' /\ StoredUpTo(lastTraversed.number)'
        /\ lastTraversed' # None /\ lastTraversed'.number >= StartHeight
    BY <1>1, <2>1, <2>3 DEF IsSettled, HeaderAt, HashAt, Height, StoredUpTo, Stored
  <2> QED
    BY <1>2, <2>1, <2>4 DEF SettledInv, Quiet, Position, InHandOk, FetchOk
<1> QED
  BY <1>3, <1>4

LEMMA SettledNext == Settled /\ TypeInv /\ SettledInv /\ [Next]_vars => SettledInv'
<1> SUFFICES ASSUME Settled, TypeInv, SettledInv, [Next]_vars PROVE SettledInv'
  OBVIOUS
<1>1. CASE ChainStep
  BY <1>1, SettledChainStep
<1>2. CASE SyncStep \/ SyncFault \/ PushBatch
  BY <1>2, SettledTickFetch, SettledFetch, SettledProcess DEF SyncStep, SyncFault, PushBatch
<1>3. CASE UNCHANGED <<chainVars, dbVars, sharedVars, frameVars, up, fbVars>>
  <2>1. UNCHANGED <<chain, branch, blocks, lastTraversed, isFallback, fallbackHeader, headers,
                    fetch, got, spc, up, fpc>>
    BY <1>3 DEF chainVars, dbVars, sharedVars, frameVars, fbVars
  <2>2. (\A h : IsSettled(h)' <=> IsSettled(h)) /\ (\A h : IsStorable(h)' <=> IsStorable(h))
    BY <2>1 DEF IsStorable, IsSettled, HeaderAt, HashAt, ConfirmedHeight, Height
  <2>3. \A n : StoredUpTo(n)' <=> StoredUpTo(n)
    BY <2>1 DEF StoredUpTo, Stored, HeaderAt, HashAt
  <2>4. StoreOk' /\ InHandOk' /\ Position' /\ Quiet'
    BY <2>1, <2>2, <2>3 DEF SettledInv, StoreOk, InHandOk, Position, Quiet
  <2>5. FetchOk'
    BY <2>1 DEF SettledInv, FetchOk, HeaderAt, HashAt, ConfirmedHeight, Height
  <2> QED
    BY <2>1, <2>4, <2>5 DEF SettledInv
<1>4. CASE FinderStep \/ FinderFault \/ UNCHANGED vars
  BY <1>3, <1>4 DEF FinderStep, FinderFault, vars
<1>5. CASE FallbackStep \/ FallbackFault
  BY <1>5 DEF FallbackStep, FallbackFault, FallbackTick, ReadChainBlock, ReadRow,
              ReadRowMissing, PersistFallback, PersistConflict, ReadNewest,
              SwapBatchBlock, ClearFlag, ClearHeader, FallbackError, SettledInv, Quiet
<1>6. CASE Crash \/ NilHeaderPanic \/ NilFallbackPanic \/ Start
  BY <1>6, SettledExitOrStart
     DEF Crash, NilHeaderPanic, NilFallbackPanic, Fault
<1> QED
  BY <1>1, <1>2, <1>4, <1>5, <1>6 DEF Next

LEMMA SettledInvariant == Settled => (Spec => [](TypeInv /\ SettledInv))
<1> SUFFICES ASSUME Settled PROVE Spec => [](TypeInv /\ SettledInv)
  OBVIOUS
<1>1. Init => TypeInv /\ SettledInv
  BY TypeInit, SettledInit
<1>2. TypeInv /\ SettledInv /\ [Next]_vars => (TypeInv /\ SettledInv)'
  BY TypeNext, SettledNext
<1> QED
  BY <1>1, <1>2, PTL DEF Spec

\* When the confirmations cover every reorganisation, the scan stores only
\* canonical, confirmed blocks and leaves no gap, across failures and restarts.
THEOREM StoreIsCanonical == Settled => (Spec => []CanonicalStore)
<1> SUFFICES ASSUME Settled PROVE Spec => []CanonicalStore
  OBVIOUS
<1>1. TypeInv /\ SettledInv => CanonicalStore
  <2> SUFFICES ASSUME TypeInv, SettledInv PROVE CanonicalStore
    OBVIOUS
  <2>1. \A b \in blocks : IsStorable(b)
    BY DEF SettledInv, StoreOk
  <2>2. \A b \in blocks : b.number \in 1..ConfirmedHeight /\ b = HeaderAt(b.number)
    BY <2>1 DEF IsStorable, IsSettled
  <2>3. ASSUME NEW b \in blocks, NEW c \in blocks, NEW n \in b.number..c.number
        PROVE  Stored(n)
    <3>1. n \in (StartHeight + 1)..c.number
      BY <2>1 DEF IsStorable, IsSettled, ConfirmedHeight
    <3> QED
      BY <3>1 DEF SettledInv, StoreOk, StoredUpTo
  <2> QED
    BY <2>2, <2>3 DEF CanonicalStore, Stored
<1> QED
  BY <1>1, SettledInvariant, PTL

\* In the same circumstances no reorganisation is ever flagged, so the Fallback
\* task never runs.
THEOREM FallbackIsNeverNeeded == Settled => (Spec => []NeverFallback)
<1> SUFFICES ASSUME Settled PROVE Spec => []NeverFallback
  OBVIOUS
<1>1. SettledInv => NeverFallback
  BY DEF SettledInv, Quiet, NeverFallback
<1> QED
  BY <1>1, SettledInvariant, PTL

-----------------------------------------------------------------------------
(***************************************************************************)
(* The pipeline reads the confirmed chain as BlockFeed does.               *)
(***************************************************************************)

\* The hashes of the first k of a sequence of headers.
FirstHashes(seq, k) == [i \in 1..k |-> seq[i].hash]

\* What the batch under way holds: the blocks read so far that have business
\* transactions, each named by the hash of the header in hand.
Held == spc = "scan" => BlocksOf(batch) = Chosen(FirstHashes(headers, scanned), BusinessBlocks)

FeedInv == TypeInv /\ RecordedInv /\ SettledInv /\ Held

\* The two parts of FeedInv the steps below use most.
LEMMA FlightIsKnown ==
    ASSUME FeedInv
    PROVE  /\ finder # "busy" => inHand = <<>>
           /\ spc \notin {"scan", "send"} => batch = <<>> /\ scanned = 0
           /\ spc \in {"idle", "fetch", "scan", "send"}
           /\ fpc = "wait" /\ ~isFallback
           /\ inHand \in Seq(Transfer) /\ batch \in Seq(Transfer) /\ recorded \in Seq(Transfer)
BY DEF FeedInv, RecordedInv, Travel, BatchDrawn, SettledInv, Quiet, TypeInv, TypeOK, SyncTypeOK

LEMMA NextFirstHash ==
    ASSUME NEW seq \in Seq(Header), NEW k \in Nat, k < Len(seq)
    PROVE  /\ FirstHashes(seq, k) \in Seq(BlockHash)
           /\ FirstHashes(seq, k + 1) = Append(FirstHashes(seq, k), seq[k + 1].hash)
<1>1. \A i \in 1..(k + 1) : i \in 1..Len(seq) /\ seq[i].hash \in BlockHash
  <2> TAKE i \in 1..(k + 1)
  <2>1. i \in 1..Len(seq)
    OBVIOUS
  <2>2. seq[i] \in Header
    BY <2>1
  <2> QED
    BY <2>1, <2>2 DEF Header
<1> DEFINE s == FirstHashes(seq, k)
           e == seq[k + 1].hash
           t == FirstHashes(seq, k + 1)
<1>2. /\ s \in Seq(BlockHash) /\ Len(s) = k /\ \A i \in 1..k : s[i] = seq[i].hash
      /\ t \in Seq(BlockHash) /\ Len(t) = k + 1 /\ \A i \in 1..(k + 1) : t[i] = seq[i].hash
  <2>1. \A i \in 1..k : i \in 1..(k + 1)
    OBVIOUS
  <2> QED
    BY <1>1, <2>1 DEF FirstHashes
<1>3. e \in BlockHash
  BY <1>1
<1> HIDE DEF s, t, e
<1>4. /\ Append(s, e) \in Seq(BlockHash) /\ Len(Append(s, e)) = k + 1
      /\ \A i \in 1..(k + 1) : Append(s, e)[i] = IF i = k + 1 THEN e ELSE s[i]
  <2>1. \A i \in 1..(k + 1) : i = k + 1 \/ i \in 1..k
    OBVIOUS
  <2> QED
    BY <1>2, <1>3, <2>1, AppendProperties
<1>5. \A i \in 1..(k + 1) : t[i] = Append(s, e)[i]
  <2> TAKE i \in 1..(k + 1)
  <2>1. CASE i = k + 1
    BY <1>2, <1>4, <2>1 DEF e
  <2>2. CASE i # k + 1
    <3>1. i \in 1..k
      BY <2>2
    <3> QED
      BY <1>2, <1>4, <2>2, <3>1
  <2> QED
    BY <2>1, <2>2
<1>6. t = Append(s, e)
  BY <1>2, <1>4, <1>5, SeqEqual
<1> QED
  BY <1>2, <1>6 DEF s, t, e

\* The blocks of transfers, one after the other.
LEMMA BlocksOfSeq ==
    ASSUME NEW s \in Seq(Transfer)
    PROVE  /\ BlocksOf(s) \in Seq(BlockHash) /\ Len(BlocksOf(s)) = Len(s)
           /\ \A i \in 1..Len(s) : BlocksOf(s)[i] = s[i].block
<1>1. DOMAIN s = 1..Len(s) /\ Len(s) \in Nat /\ \A i \in 1..Len(s) : s[i] \in Transfer
  OBVIOUS
<1>2. \A i \in 1..Len(s) : s[i].block \in BlockHash
  BY <1>1 DEF Transfer
<1> QED
  BY <1>1, <1>2 DEF BlocksOf

LEMMA BlocksOfConcat ==
    ASSUME NEW s \in Seq(Transfer), NEW t \in Seq(Transfer)
    PROVE  BlocksOf(s \o t) = BlocksOf(s) \o BlocksOf(t)
<1> DEFINE u == s \o t
           x == BlocksOf(s)
           y == BlocksOf(t)
<1>1. /\ u \in Seq(Transfer) /\ Len(u) = Len(s) + Len(t) /\ Len(s) \in Nat /\ Len(t) \in Nat
      /\ \A i \in 1..(Len(s) + Len(t)) : u[i] = IF i <= Len(s) THEN s[i] ELSE t[i - Len(s)]
  BY ConcatProperties
<1>2. /\ x \in Seq(BlockHash) /\ Len(x) = Len(s) /\ \A i \in 1..Len(s) : x[i] = s[i].block
      /\ y \in Seq(BlockHash) /\ Len(y) = Len(t) /\ \A i \in 1..Len(t) : y[i] = t[i].block
  BY BlocksOfSeq
<1> HIDE DEF u, x, y
<1>3. /\ BlocksOf(u) \in Seq(BlockHash) /\ Len(BlocksOf(u)) = Len(s) + Len(t)
      /\ \A i \in 1..(Len(s) + Len(t)) : BlocksOf(u)[i] = u[i].block
  BY <1>1, BlocksOfSeq
<1>4. /\ x \o y \in Seq(BlockHash) /\ Len(x \o y) = Len(s) + Len(t)
      /\ \A i \in 1..(Len(s) + Len(t)) :
             (x \o y)[i] = IF i <= Len(s) THEN x[i] ELSE y[i - Len(s)]
  <2>1. /\ x \o y \in Seq(BlockHash) /\ Len(x \o y) = Len(x) + Len(y)
        /\ \A i \in 1..(Len(x) + Len(y)) :
               (x \o y)[i] = IF i <= Len(x) THEN x[i] ELSE y[i - Len(x)]
    <3>1. x \in Seq(BlockHash) /\ y \in Seq(BlockHash)
      BY <1>2
    <3> QED
      BY <3>1, ConcatProperties
  <2>2. Len(x) = Len(s) /\ Len(y) = Len(t)
    BY <1>2
  <2> QED
    BY <2>1, <2>2, Zenon
<1>5. \A i \in 1..(Len(s) + Len(t)) : BlocksOf(u)[i] = (x \o y)[i]
  <2> TAKE i \in 1..(Len(s) + Len(t))
  <2>1. CASE i <= Len(s)
    <3>1. i \in 1..Len(s)
      BY <1>1, <2>1
    <3> QED
      BY <1>1, <1>2, <1>3, <1>4, <2>1, <3>1
  <2>2. CASE ~(i <= Len(s))
    <3>1. i - Len(s) \in 1..Len(t)
      BY <1>1, <2>2
    <3> QED
      BY <1>1, <1>2, <1>3, <1>4, <2>2, <3>1
  <2> QED
    BY <2>1, <2>2
<1>6. BlocksOf(u) = x \o y
  <2>1. Len(BlocksOf(u)) = Len(x \o y)
    BY <1>3, <1>4
  <2> QED
    BY <1>1, <1>3, <1>4, <1>5, <2>1, SeqEqual
<1> QED
  BY <1>6 DEF u, x, y

LEMMA BlocksOfNone == BlocksOf(<<>>) = <<>>
BY DEF BlocksOf

-----------------------------------------------------------------------------
\* Reading a block adds it to what the batch holds: it is the block in hand,
\* which no reorganisation reaches.
LEMMA HeldScan ==
    ASSUME Settled, FeedInv, ScanBlock
    PROVE  Held'
<1> DEFINE header == headers[scanned + 1]
           source == HashAt(header.number)
           item == [block |-> header.hash, source |-> source]
           read == FirstHashes(headers, scanned)
<1>1. /\ headers \in Seq(Header) /\ scanned \in Nat /\ scanned < Len(headers) /\ spc = "scan"
      /\ batch \in Seq(Transfer) /\ headers' = headers /\ scanned' = scanned + 1
      /\ scanned + 1 \in 1..Len(headers)
      /\ BlocksOf(batch) = Chosen(read, BusinessBlocks)
  BY DEF ScanBlock, FeedInv, TypeInv, TypeOK, SyncTypeOK, Held
<1>2. source = header.hash
  <2>1. IsSettled(header)
    BY <1>1 DEF FeedInv, SettledInv, InHandOk, IsStorable
  <2> QED
    BY <2>1 DEF IsSettled, HeaderAt
<1>3. header.hash \in BlockHash
  <2>1. header \in Header
    BY <1>1
  <2> QED
    BY <2>1 DEF Header
<1>4. /\ read \in Seq(BlockHash)
      /\ FirstHashes(headers, scanned + 1) = Append(read, header.hash)
  BY <1>1, NextFirstHash
<1>5. batch' = IF source \in BusinessBlocks THEN Append(batch, item) ELSE batch
  BY DEF ScanBlock
<1>6. Chosen(Append(read, header.hash), BusinessBlocks)
          = IF header.hash \in BusinessBlocks
            THEN Append(Chosen(read, BusinessBlocks), header.hash)
            ELSE Chosen(read, BusinessBlocks)
  <2> DEFINE name == header.hash
  <2>1. name \in BlockHash /\ read \in Seq(BlockHash)
    BY <1>3, <1>4
  <2> HIDE DEF read, name
  <2>2. Chosen(Append(read, name), BusinessBlocks)
            = IF name \in BusinessBlocks THEN Append(Chosen(read, BusinessBlocks), name)
              ELSE Chosen(read, BusinessBlocks)
    BY <2>1, ChosenAppend
  <2> QED
    BY <2>2 DEF name
<1>7. BlocksOf(Append(batch, item)) = Append(BlocksOf(batch), header.hash)
  <2> DEFINE one == <<item>>
             name == header.hash
  <2>1. item \in Transfer /\ one \in Seq(Transfer)
    BY <1>2, <1>3 DEF Transfer
  <2>2. BlocksOf(one) = <<name>>
    BY DEF BlocksOf
  <2>3. Append(batch, item) = batch \o one
    <3> HIDE DEF item
    <3> QED
      BY <1>1, <2>1, AppendIsConcat
  <2>4. BlocksOf(batch) \in Seq(BlockHash) /\ name \in BlockHash
    BY <1>1, <1>3, BlocksOfSeq
  <2> HIDE DEF one, name
  <2>5. BlocksOf(batch \o one) = BlocksOf(batch) \o BlocksOf(one)
    BY <1>1, <2>1, BlocksOfConcat
  <2>6. BlocksOf(batch) \o <<name>> = Append(BlocksOf(batch), name)
    BY <2>4, AppendIsConcat
  <2> QED
    BY <2>2, <2>3, <2>5, <2>6 DEF name
<1> HIDE DEF item, source, header, read
<1>8. BlocksOf(batch') = Chosen(FirstHashes(headers, scanned + 1), BusinessBlocks)
  BY <1>1, <1>2, <1>4, <1>5, <1>6, <1>7
<1>9. BlocksOf(batch)' = BlocksOf(batch')
  BY DEF BlocksOf
<1> QED
  BY <1>1, <1>8, <1>9 DEF Held, FirstHashes

LEMMA HeldStep == Settled /\ FeedInv /\ [Next]_vars => Held'
<1> SUFFICES ASSUME Settled, FeedInv, [Next]_vars PROVE Held'
  OBVIOUS
<1> USE DEF vars, frameVars
<1>0. /\ spc \in {"idle", "fetch", "scan", "send"} /\ fpc = "wait" /\ ~isFallback
      /\ spc \notin {"scan", "send"} => batch = <<>> /\ scanned = 0
  BY FlightIsKnown
<1>1. CASE UNCHANGED <<spc, headers, scanned, batch>>
  BY <1>1 DEF FeedInv, Held, FirstHashes, BlocksOf
<1>2. CASE spc' # "scan"
  BY <1>2 DEF Held
<1>3. CASE batch' = <<>> /\ scanned' = 0
  <2>1. BlocksOf(batch)' = <<>>
    BY <1>3 DEF BlocksOf
  <2>2. FirstHashes(headers, scanned)' = <<>>
    BY <1>3 DEF FirstHashes
  <2>3. Chosen(<<>>, BusinessBlocks) = <<>>
    BY ChosenNone
  <2>4. Held' = ((spc' = "scan") => BlocksOf(batch)' = Chosen(FirstHashes(headers, scanned)', BusinessBlocks))
    BY DEF Held
  <2> QED
    BY <2>1, <2>2, <2>3, <2>4
<1>4. CASE ChainStep \/ FinderStep \/ FinderFault \/ FallbackStep \/ FallbackFault
           \/ Start \/ UNCHANGED vars
  <2>1. UNCHANGED <<spc, headers, scanned, batch>>
    BY <1>4 DEF ChainStep, FinderStep, FinderFault, FallbackStep, FallbackFault, Start,
         NewSynchronizer, FallbackTick, ReadChainBlock, ReadRow, ReadRowMissing,
         PersistFallback, PersistConflict, ReadNewest, SwapBatchBlock, ClearFlag,
         ClearHeader, FallbackError
  <2> QED
    BY <1>1, <2>1
<1>5. CASE Crash \/ NilHeaderPanic \/ NilFallbackPanic
  BY <1>2, <1>5 DEF Crash, NilHeaderPanic, NilFallbackPanic, ProcessExit, SyncForget, EndTick
<1>6. CASE PushBatch
  BY <1>2, <1>6 DEF PushBatch, SendBatch, EndTick
<1>7. CASE SyncStep
  <2>1. CASE TickFetch \/ FetchHeader \/ FetchReorg \/ MarkFallback \/ MarkFallbackHeader
             \/ AlreadyMarked \/ StoreBlocks \/ StoreConflict
    BY <1>0, <1>2, <2>1 DEF TickFetch, FetchHeader, FetchReorg, MarkFallback,
         MarkFallbackHeader, AlreadyMarked, StoreBlocks, StoreConflict, EndTick
  <2>2. CASE FetchLastHeader \/ TickRetry
    BY <1>0, <1>3, <2>2 DEF FetchLastHeader, TickRetry
  <2>3. CASE ScanBlock
    BY <2>3, HeldScan
  <2> QED
    BY <1>7, <2>1, <2>2, <2>3 DEF SyncStep
<1>8. CASE SyncFault
  BY <1>2, <1>8 DEF SyncFault, FetchError, ProcessError, StoreLostAck, ScanBlockEmpty,
                    Fault, EndTick
<1> QED
  BY <1>4, <1>5, <1>6, <1>7, <1>8 DEF Next

LEMMA FeedInvariant == Settled => (Spec => []FeedInv)
<1> SUFFICES ASSUME Settled PROVE Spec => []FeedInv
  OBVIOUS
<1>1. Init => Held
  BY DEF Init, SyncInit, SyncIdle, Held
<1>2. FeedInv /\ [Next]_vars => Held'
  BY HeldStep
<1>3. TypeInv /\ RecordedInv /\ SettledInv /\ Held => FeedInv
  BY DEF FeedInv
<1> QED
  BY <1>1, <1>2, <1>3, RecordedAlways, SettledInvariant, PTL DEF Spec

-----------------------------------------------------------------------------
\* The mapping.

\* The number of the newest of some rows.
NewestOf(rs) ==
    IF rs = {} THEN StartHeight
    ELSE (CHOOSE row \in rs : \A other \in rs : other.number <= row.number).number

LEMMA NewestIs ==
    ASSUME NEW rs, NEW r \in rs,
           \A b \in rs : b.number \in Nat /\ b.number <= r.number
    PROVE  NewestOf(rs) = r.number
<1> DEFINE c == CHOOSE row \in rs : \A other \in rs : other.number <= row.number
<1>1. c \in rs /\ \A other \in rs : other.number <= c.number
  OBVIOUS
<1> HIDE DEF c
<1>2. c.number = r.number
  BY <1>1
<1> QED
  BY <1>2 DEF NewestOf, c

\* The confirmed part of a chain.
ConfirmedOf(c) == [n \in 1..(Len(c) - Confirmations) |-> <<n, c[n]>>]

LEMMA ConfirmedIs ==
    ASSUME NEW c \in Seq(Nat)
    PROVE  LET m == IF Len(c) > Confirmations THEN Len(c) - Confirmations ELSE 0
           IN  /\ ConfirmedOf(c) \in Seq(BlockHash) /\ Len(ConfirmedOf(c)) = m
               /\ \A n \in 1..m : ConfirmedOf(c)[n] = <<n, c[n]>>
<1> DEFINE m == IF Len(c) > Confirmations THEN Len(c) - Confirmations ELSE 0
<1>1. m \in Nat /\ 1..(Len(c) - Confirmations) = 1..m
  OBVIOUS
<1>2. \A n \in 1..m : <<n, c[n]>> \in BlockHash
  BY DEF BlockHash
<1> HIDE DEF m
<1>3. ConfirmedOf(c) = [n \in 1..m |-> <<n, c[n]>>]
  BY <1>1 DEF ConfirmedOf
<1>4. ConfirmedOf(c) \in Seq(BlockHash) /\ Len(ConfirmedOf(c)) = m
      /\ \A n \in 1..m : ConfirmedOf(c)[n] = <<n, c[n]>>
  BY <1>1, <1>2, <1>3
<1> QED
  BY <1>4 DEF m

\* The state BlockFeed sees.
LEMMA Mapped ==
    /\ ConfirmedChain = ConfirmedOf(chain)
    /\ (IF blocks = {} THEN StartHeight ELSE LatestBlock.number) = NewestOf(blocks)
<1>1. \A n \in 1..(Len(chain) - Confirmations) : HashAt(n) = <<n, chain[n]>>
  BY DEF HashAt
<1>2. ConfirmedHeight = Len(chain) - Confirmations
  BY DEF ConfirmedHeight, Height
<1>3. ConfirmedChain = ConfirmedOf(chain)
  BY <1>1, <1>2 DEF ConfirmedChain, ConfirmedOf
<1> QED
  BY <1>3 DEF NewestOf, LatestBlock

\* Steps that neither move the transfers nor change the chain or the table.
LEMMA FeedRests ==
    ASSUME UNCHANGED <<chain, blocks, inHand, recorded>>,
           spc = "send" <=> spc' = "send", spc = "send" => batch' = batch
    PROVE  UNCHANGED Feed!feedVars
<1>1. InFlight' = InFlight
  BY DEF InFlight
<1>2. ConfirmedChain' = ConfirmedChain
  BY DEF ConfirmedChain, ConfirmedHeight, Height, HashAt
<1> QED
  BY <1>1, <1>2 DEF Feed!feedVars, BlocksOf, LatestBlock

-----------------------------------------------------------------------------
\* The confirmed chain grows by one block at a time, at its end.
LEMMA FeedChain ==
    ASSUME Settled, FeedInv, ChainStep
    PROVE  Feed!Confirm \/ UNCHANGED Feed!feedVars
<1> DEFINE log == ConfirmedOf(chain)
           next == ConfirmedOf(chain')
           m == IF Len(chain) > Confirmations THEN Len(chain) - Confirmations ELSE 0
           k == IF Len(chain') > Confirmations THEN Len(chain') - Confirmations ELSE 0
<1>0. chain \in Seq(Nat) /\ chain' \in Seq(Nat) /\ branch \in Nat
  BY ChainGrows DEF ChainStep, FeedInv, TypeInv, TypeOK, ChainTypeOK
<1>1. /\ log \in Seq(BlockHash) /\ Len(log) = m
      /\ \A n \in 1..m : log[n] = <<n, chain[n]>>
      /\ next \in Seq(BlockHash) /\ Len(next) = k
      /\ \A n \in 1..k : next[n] = <<n, chain'[n]>>
  BY <1>0, ConfirmedIs
<1>2. UNCHANGED <<blocks, inHand, recorded, spc, batch>>
  BY DEF ChainStep, dbVars, frameVars, finderVars
<1>3. /\ ConfirmedChain = log /\ ConfirmedChain' = next
      /\ InFlight' = InFlight /\ BlocksOf(InFlight)' = BlocksOf(InFlight)
      /\ BlocksOf(recorded)' = BlocksOf(recorded)
      /\ (IF blocks = {} THEN StartHeight ELSE LatestBlock.number)'
             = IF blocks = {} THEN StartHeight ELSE LatestBlock.number
  <2>1. ConfirmedChain = log
    BY Mapped
  <2>2. ConfirmedChain' = next
    <3>1. \A n \in 1..(Len(chain') - Confirmations) : HashAt(n)' = <<n, chain'[n]>>
      BY DEF HashAt
    <3> QED
      BY <3>1 DEF ConfirmedChain, ConfirmedOf, ConfirmedHeight, Height
  <2> QED
    BY <1>2, <2>1, <2>2 DEF InFlight, BlocksOf, LatestBlock
<1>n. Len(chain) \in Nat /\ m \in Nat /\ k \in Nat
  BY <1>0
<1>4. CASE Mine
  <2>1. Len(chain') = Len(chain) + 1 /\ \A n \in 1..Len(chain) : chain'[n] = chain[n]
    BY <1>0, <1>4 DEF Mine
  <2>2. CASE k = 0
    <3>1. m = 0
      BY <1>n, <2>1, <2>2
    <3>2. log = <<>> /\ next = <<>>
      <4> HIDE DEF log, next, m, k
      <4> QED
        BY <1>1, <2>2, <3>1
    <3>3. ConfirmedChain' = ConfirmedChain
      BY <1>3, <3>2
    <3> HIDE DEF log, next, m, k
    <3> QED
      BY <1>3, <3>3 DEF Feed!feedVars
  <2>3. CASE k # 0
    <3>1. k = m + 1 /\ m \in Nat /\ m < Len(chain) + 1
      BY <1>0, <2>1, <2>3
    <3> HIDE DEF log, next, m, k
    <3>2. \A n \in 1..m : n \in 1..Len(chain) /\ n \in 1..k
      BY <1>n, <3>1
    <3>3. \A n \in 1..m : next[n] = log[n]
      BY <1>1, <2>1, <3>2
    <3>4. next # <<>> /\ Front(next) = SubSeq(next, 1, m) /\ Last(next) = next[k]
      BY <1>1, <3>1 DEF Front, Last
    <3>5. next[k] \in BlockHash
      BY <1>1, <3>1
    <3>6. SubSeq(next, 1, m) = log
      <4>1. /\ SubSeq(next, 1, m) \in Seq(BlockHash) /\ Len(SubSeq(next, 1, m)) = m
            /\ \A n \in 1..m : SubSeq(next, 1, m)[n] = next[n]
        BY <1>1, <3>1, <3>2
      <4> QED
        BY <1>1, <3>3, <4>1, SeqEqual
    <3>7. Feed!Confirm
      BY <1>3, <3>4, <3>5, <3>6 DEF Feed!Confirm, Feed!Front, Feed!Last, Front, Last
    <3> QED
      BY <3>7
  <2> QED
    BY <2>2, <2>3
<1>5. CASE Reorg
  <2>1. PICK depth \in 1..MaxDepth :
            chain' = [n \in 1..Height |->
                         IF n > Height - depth THEN branch + 1 ELSE chain[n]]
    BY <1>5 DEF Reorg
  <2>2. Height = Len(chain) /\ Len(chain') = Len(chain) /\ k = m
    BY <1>0, <2>1 DEF Height
  <2>3. \A n \in 1..m : n \in 1..Len(chain) /\ ~(n > Len(chain) - depth)
    BY <1>0, <2>1
  <2>4. \A n \in 1..m : chain'[n] = chain[n]
    <3> HIDE DEF m, k
    <3> QED
      BY <2>1, <2>2, <2>3
  <2> HIDE DEF log, next, m, k
  <2>5. log = next
    BY <1>n, <1>1, <2>2, <2>4, SeqEqual
  <2> QED
    BY <1>3, <2>5 DEF Feed!feedVars
<1> QED
  BY <1>4, <1>5 DEF ChainStep

\* Storing the headers in hand takes their blocks.
LEMMA FeedStore ==
    ASSUME Settled, FeedInv, StoreBlocks,
           UNCHANGED <<chainVars, fbVars, finderVars>>
    PROVE  Feed!Take
<1> DEFINE K == Len(headers)
           first == headers[1].number
           last == headers[K].number
           hashes == FirstHashes(headers, K)
<1>1. /\ spc = "scan" /\ scanned = K /\ headers \in Seq(Header) /\ headers # <<>>
      /\ blocks' = blocks \union ToSet(headers) /\ ~UniqueViolation(blocks, ToSet(headers))
      /\ batch \in Seq(Transfer) /\ inHand \in Seq(Transfer)
      /\ UNCHANGED <<chain, inHand, recorded>>
      /\ BlocksOf(batch) = Chosen(hashes, BusinessBlocks)
  BY DEF StoreBlocks, FeedInv, SettledInv, TypeInv, TypeOK, SyncTypeOK, Held, chainVars,
         finderVars
<1>2. K \in Nat /\ K >= 1 /\ 1 \in 1..K /\ K \in 1..K
  BY <1>1
<1>3. \A i \in 1..K : /\ IsStorable(headers[i]) /\ headers[i].number = first + i - 1
                      /\ headers[i] \in ToSet(headers)
  BY <1>1 DEF FeedInv, SettledInv, InHandOk, ToSet
<1>4. \A i \in 1..K : /\ headers[i].number \in Nat /\ headers[i].number > StartHeight
                      /\ headers[i].number <= ConfirmedHeight
                      /\ headers[i].hash = HashAt(headers[i].number)
  <2> TAKE i \in 1..K
  <2>1. IsSettled(headers[i]) /\ headers[i].number \in (StartHeight + 1)..ConfirmedHeight
    BY <1>3 DEF IsStorable
  <2>2. headers[i] = HeaderAt(headers[i].number) /\ headers[i].number \in Nat
    BY <2>1 DEF IsSettled
  <2>3. HeaderAt(headers[i].number).hash = HashAt(headers[i].number)
    BY DEF HeaderAt
  <2>4. ConfirmedHeight \in Int
    BY DEF FeedInv, TypeInv, TypeOK, ChainTypeOK, ConfirmedHeight, Height
  <2> QED
    BY <2>1, <2>2, <2>3, <2>4
<1>5. /\ first \in Nat /\ last \in Nat /\ last = first + K - 1 /\ first > StartHeight
      /\ last <= ConfirmedHeight /\ ConfirmedHeight \in Nat
  <2>1. ConfirmedHeight \in Int
    BY DEF FeedInv, TypeInv, TypeOK, ChainTypeOK, ConfirmedHeight, Height
  <2> QED
    BY <1>2, <1>3, <1>4, <2>1
<1>6. \A b \in blocks : b.number \in Nat /\ b.number < first /\ b.number > StartHeight
  <2> TAKE b \in blocks
  <2>1. IsStorable(b) /\ StoredUpTo(b.number)
    BY DEF FeedInv, SettledInv, StoreOk
  <2>2. b.number \in Nat /\ b.number > StartHeight
    BY <1>5, <2>1 DEF IsStorable, IsSettled
  <2>3. ASSUME b.number >= first PROVE FALSE
    <3>1. first \in (StartHeight + 1)..b.number
      BY <1>5, <2>2, <2>3
    <3>2. PICK d \in blocks : d.number = first
      BY <2>1, <3>1 DEF StoredUpTo, Stored
    <3>3. headers[1] \in ToSet(headers)
      BY <1>2, <1>3
    <3> QED
      BY <1>1, <3>2, <3>3 DEF UniqueViolation
  <2> QED
    BY <1>5, <2>2, <2>3
<1>7. NewestOf(blocks) = first - 1
  <2>1. CASE blocks = {}
    <3>1. StoredUpTo(first - 1)
      BY <1>1 DEF FeedInv, SettledInv, Position
    <3>2. ~(StartHeight + 1 \in (StartHeight + 1)..(first - 1))
      BY <2>1, <3>1 DEF StoredUpTo, Stored
    <3>3. first - 1 = StartHeight
      BY <1>5, <3>2
    <3> QED
      BY <2>1, <3>3 DEF NewestOf
  <2>2. CASE blocks # {}
    <3>1. StoredUpTo(first - 1)
      BY <1>1 DEF FeedInv, SettledInv, Position
    <3>2. PICK b \in blocks : TRUE
      BY <2>2
    <3>0. b.number \in Nat /\ b.number < first /\ b.number > StartHeight
      BY <1>6, <3>2
    <3>3. first - 1 \in (StartHeight + 1)..(first - 1)
      <4> HIDE DEF first
      <4> QED
        BY <1>5, <3>0
    <3>4. PICK d \in blocks : d.number = first - 1
      BY <3>1, <3>3 DEF StoredUpTo, Stored
    <3>5. \A c \in blocks : c.number \in Nat /\ c.number <= d.number
      BY <1>5, <1>6, <3>4
    <3> QED
      BY <3>4, <3>5, NewestIs
  <2> QED
    BY <2>1, <2>2
<1>8. NewestOf(blocks') = last
  <2>1. headers[K] \in blocks'
    BY <1>1, <1>2, <1>3
  <2>2. \A b \in blocks' : b.number \in Nat /\ b.number <= headers[K].number
    <3> TAKE b \in blocks'
    <3>1. CASE b \in blocks
      BY <1>2, <1>5, <1>6, <3>1
    <3>2. CASE b \in ToSet(headers)
      <4>1. PICK i \in 1..K : b = headers[i]
        BY <3>2 DEF ToSet
      <4> QED
        BY <1>2, <1>3, <1>5, <4>1
    <3> QED
      BY <1>1, <3>1, <3>2
  <2> QED
    BY <2>1, <2>2, NewestIs
<1>9. /\ ConfirmedChain \in Seq(BlockHash) /\ Len(ConfirmedChain) = ConfirmedHeight
      /\ \A n \in 1..ConfirmedHeight : ConfirmedChain[n] = HashAt(n)
      /\ ConfirmedChain' = ConfirmedChain
  <2>1. \A n \in 1..ConfirmedHeight : HashAt(n) \in BlockHash
    <3>1. \A n \in 1..ConfirmedHeight : n \in 0..Height
      BY <1>5 DEF ConfirmedHeight, FeedInv, TypeInv, TypeOK, ChainTypeOK, Height
    <3> QED
      BY <3>1, HashSeen DEF FeedInv, TypeInv, TypeOK
  <2>2. ConfirmedChain' = ConfirmedChain
    BY <1>1 DEF ConfirmedChain, ConfirmedHeight, Height, HashAt
  <2> DEFINE N == ConfirmedHeight
  <2>3. N \in Nat /\ \A n \in 1..N : HashAt(n) \in BlockHash
    BY <1>5, <2>1
  <2>4. ConfirmedChain = [n \in 1..N |-> HashAt(n)]
    BY DEF ConfirmedChain
  <2> HIDE DEF N
  <2>5. /\ ConfirmedChain \in Seq(BlockHash) /\ Len(ConfirmedChain) = N
        /\ \A n \in 1..N : ConfirmedChain[n] = HashAt(n)
    BY <2>3, <2>4
  <2> QED
    BY <2>2, <2>5 DEF N
<1>10. SubSeq(ConfirmedChain, first, last) = hashes
  <2> DEFINE log == ConfirmedChain
             part == SubSeq(log, first, last)
  <2>0. log \in Seq(BlockHash) /\ Len(log) = ConfirmedHeight
    BY <1>9
  <2>1. first \in 1..(Len(log) + 1) /\ last \in (first - 1)..Len(log) /\ last - first + 1 = K
    <3> HIDE DEF log, first, last, K
    <3> QED
      BY <1>2, <1>5, <2>0
  <2>2. /\ part \in Seq(BlockHash) /\ Len(part) = K
        /\ \A i \in 1..K : part[i] = log[first + i - 1]
    <3> HIDE DEF log, first, last, K
    <3> QED
      BY <2>0, <2>1, SubSeqProperties
  <2>3. /\ hashes \in Seq(BlockHash) /\ Len(hashes) = K
        /\ \A i \in 1..K : hashes[i] = headers[i].hash
    <3>1. \A i \in 1..K : headers[i].hash \in BlockHash
      <4> TAKE i \in 1..K
      <4>1. headers[i] \in Header
        BY <1>1
      <4> QED
        BY <4>1 DEF Header
    <3> QED
      BY <1>2, <3>1 DEF FirstHashes
  <2>4. \A i \in 1..K : part[i] = hashes[i]
    <3> TAKE i \in 1..K
    <3>1. first + i - 1 \in 1..ConfirmedHeight /\ headers[i].number = first + i - 1
      BY <1>3, <1>4, <1>5
    <3>2. log[first + i - 1] = HashAt(first + i - 1)
      BY <1>9, <3>1
    <3> QED
      BY <1>4, <2>2, <2>3, <3>1, <3>2
  <2> HIDE DEF part, hashes, K
  <2> QED
    BY <1>2, <2>2, <2>3, <2>4, SeqEqual DEF part
<1>11. InFlight = inHand /\ InFlight' = inHand \o batch
  <2>1. inHand \o <<>> = inHand
    BY <1>1, ConcatEmptySeq
  <2>2. InFlight = inHand
    BY <1>1, <2>1 DEF InFlight
  <2>3. InFlight' = inHand \o batch
    <3>1. CASE batch = <<>>
      BY <1>1, <3>1 DEF StoreBlocks, EndTick, InFlight
    <3>2. CASE batch # <<>>
      BY <1>1, <3>2 DEF StoreBlocks, InFlight
    <3> QED
      BY <3>1, <3>2
  <2> QED
    BY <2>2, <2>3
<1>12. BlocksOf(InFlight)' = BlocksOf(InFlight) \o Chosen(SubSeq(ConfirmedChain, first, last), BusinessBlocks)
  <2>1. BlocksOf(inHand \o batch) = BlocksOf(inHand) \o BlocksOf(batch)
    BY <1>1, BlocksOfConcat
  <2>2. BlocksOf(InFlight)' = BlocksOf(inHand \o batch)
    BY <1>11 DEF BlocksOf
  <2> HIDE DEF hashes, first, last
  <2> QED
    BY <1>1, <1>10, <1>11, <2>1, <2>2
<1>13. BlocksOf(recorded)' = BlocksOf(recorded)
  BY <1>1 DEF BlocksOf
<1>14. /\ (IF blocks = {} THEN StartHeight ELSE LatestBlock.number) = first - 1
       /\ (IF blocks = {} THEN StartHeight ELSE LatestBlock.number)' = last
  <2> HIDE DEF first, last
  <2> QED
    BY <1>7, <1>8 DEF NewestOf, LatestBlock
<1>15. last \in ((first - 1) + 1)..Len(ConfirmedChain) /\ (first - 1) + 1 = first
  BY <1>2, <1>5, <1>9
<1>16. \A s, S : Feed!Chosen(s, S) = Chosen(s, S)
  BY DEF Feed!Chosen, Feed!Picked, Chosen, Picked
<1> HIDE DEF first, last
<1> QED
  BY <1>9, <1>12, <1>13, <1>14, <1>15, <1>16 DEF Feed!Take

\* What the Finder records is what it has in hand; what it drops likewise.
LEMMA FeedHand ==
    ASSUME Settled, FeedInv, UNCHANGED <<chain, blocks, spc, batch>>, inHand' = <<>>,
           recorded' = recorded \o inHand \/ recorded' = recorded
    PROVE  Feed!Record \/ Feed!Lose \/ UNCHANGED Feed!feedVars
<1> DEFINE sent == IF spc = "send" THEN batch ELSE <<>>
           x == BlocksOf(inHand)
           y == BlocksOf(sent)
           k == Len(inHand)
<1>1. inHand \in Seq(Transfer) /\ batch \in Seq(Transfer) /\ recorded \in Seq(Transfer)
      /\ sent \in Seq(Transfer) /\ k \in Nat
  BY FlightIsKnown
<1>2. InFlight = inHand \o sent /\ InFlight' = <<>> \o sent /\ <<>> \o sent = sent
  BY <1>1, ConcatEmptySeq DEF InFlight
<1>3. BlocksOf(InFlight) = x \o y /\ BlocksOf(InFlight)' = y
  <2>1. BlocksOf(inHand \o sent) = x \o y
    BY <1>1, BlocksOfConcat
  <2>2. BlocksOf(InFlight)' = BlocksOf(sent)
    BY <1>2 DEF BlocksOf
  <2> HIDE DEF sent
  <2> QED
    BY <1>2, <2>1, <2>2
<1>4. /\ x \in Seq(BlockHash) /\ Len(x) = k /\ y \in Seq(BlockHash)
      /\ x \o y \in Seq(BlockHash) /\ Len(x \o y) = k + Len(y) /\ Len(y) \in Nat
  <2>1. x \in Seq(BlockHash) /\ Len(x) = k /\ y \in Seq(BlockHash)
    <3> HIDE DEF sent
    <3> QED
      BY <1>1, BlocksOfSeq
  <2> HIDE DEF x, y, k
  <2>2. x \o y \in Seq(BlockHash) /\ Len(x \o y) = Len(x) + Len(y)
    BY <2>1, ConcatProperties
  <2>3. Len(y) \in Nat
    BY <2>1
  <2> QED
    BY <2>1, <2>2, <2>3
<1>5. SubSeq(x \o y, 1, k) = x /\ SubSeq(x \o y, k + 1, Len(x \o y)) = y
  <2> HIDE DEF x, y, k
  <2>1. \A i \in 1..(k + Len(y)) : (x \o y)[i] = IF i <= k THEN x[i] ELSE y[i - k]
    BY <1>4, ConcatProperties
  <2>2. SubSeq(x \o y, 1, k) = x
    <3> DEFINE z == SubSeq(x \o y, 1, k)
    <3>1. z \in Seq(BlockHash) /\ Len(z) = k /\ \A i \in 1..k : z[i] = (x \o y)[i]
      BY <1>1, <1>4
    <3> HIDE DEF z
    <3>2. \A i \in 1..k : z[i] = x[i]
      <4> TAKE i \in 1..k
      <4>1. i \in 1..(k + Len(y)) /\ i <= k
        BY <1>1, <1>4
      <4> QED
        BY <2>1, <3>1, <4>1
    <3>3. z = x
      BY <1>1, <1>4, <3>1, <3>2, SeqEqual
    <3> QED
      BY <3>3 DEF z
  <2>3. SubSeq(x \o y, k + 1, k + Len(y)) = y
    <3> DEFINE N == Len(y)
               w == x \o y
               from == k + 1
               to == k + N
               z == SubSeq(w, from, to)
    <3>1. z \in Seq(BlockHash) /\ Len(z) = N /\ \A i \in 1..N : z[i] = (x \o y)[k + i]
      <4>1. w \in Seq(BlockHash) /\ from \in 1..(Len(w) + 1) /\ to \in (from - 1)..Len(w)
            /\ to - from + 1 = N
        BY <1>1, <1>4
      <4>2. /\ z \in Seq(BlockHash) /\ Len(z) = N
            /\ \A i \in 1..N : z[i] = w[from + i - 1]
        <5> HIDE DEF N, w, from, to
        <5> QED
          BY <4>1, SubSeqProperties
      <4>3. \A i \in 1..N : (k + 1) + i - 1 = k + i
        BY <1>1
      <4> HIDE DEF z, N
      <4> QED
        BY <4>2, <4>3
    <3> HIDE DEF z
    <3>2. \A i \in 1..N : z[i] = y[i]
      <4> TAKE i \in 1..N
      <4>1. k + i \in 1..(k + N) /\ ~(k + i <= k) /\ (k + i) - k = i
        BY <1>1, <1>4
      <4> QED
        BY <2>1, <3>1, <4>1
    <3>3. z = y
      BY <1>4, <3>1, <3>2, SeqEqual
    <3> QED
      BY <3>3 DEF z
  <2> QED
    BY <1>4, <2>2, <2>3
<1>6. /\ ConfirmedChain' = ConfirmedChain
      /\ (IF blocks = {} THEN StartHeight ELSE LatestBlock.number)'
             = IF blocks = {} THEN StartHeight ELSE LatestBlock.number
  BY DEF ConfirmedChain, ConfirmedHeight, Height, HashAt, LatestBlock
<1>7. CASE k = 0
  <2>1. inHand = <<>> /\ recorded \o <<>> = recorded
    BY <1>1, <1>7, ConcatEmptySeq
  <2>2. InFlight' = InFlight /\ recorded' = recorded
    BY <2>1 DEF InFlight
  <2> QED
    BY <1>6, <2>2 DEF Feed!feedVars, BlocksOf
<1>8. CASE k # 0
  <2>1. k \in 1..Len(x \o y)
    BY <1>1, <1>4, <1>8
  <2> HIDE DEF x, y, k, sent
  <2>2. CASE recorded' = recorded \o inHand
    <3>1. BlocksOf(recorded)' = BlocksOf(recorded) \o x
      <4>1. BlocksOf(recorded \o inHand) = BlocksOf(recorded) \o BlocksOf(inHand)
        BY <1>1, BlocksOfConcat
      <4>2. BlocksOf(recorded)' = BlocksOf(recorded \o inHand)
        BY <2>2 DEF BlocksOf
      <4> QED
        BY <4>1, <4>2 DEF x
    <3> QED
      BY <1>3, <1>5, <1>6, <2>1, <3>1 DEF Feed!Record
  <2>3. CASE recorded' = recorded
    <3>1. BlocksOf(recorded)' = BlocksOf(recorded)
      BY <2>3 DEF BlocksOf
    <3> QED
      BY <1>3, <1>5, <1>6, <2>1, <3>1 DEF Feed!Lose
  <2> QED
    BY <2>2, <2>3
<1> QED
  BY <1>7, <1>8

\* The end of the process drops all that was in flight.
LEMMA FeedExit ==
    ASSUME Settled, FeedInv, ProcessExit
    PROVE  Feed!Lose \/ UNCHANGED Feed!feedVars
<1> DEFINE q == BlocksOf(InFlight)
           k == Len(q)
<1>1. /\ UNCHANGED <<chain, blocks, recorded>> /\ inHand' = <<>> /\ spc' = "idle"
  BY DEF ProcessExit, SyncForget, EndTick, FinderForget, chainVars, dbVars
<1>2. InFlight' = <<>> /\ BlocksOf(InFlight)' = <<>>
  BY <1>1 DEF InFlight, BlocksOf
<1>3. InFlight \in Seq(Transfer)
  <2>1. inHand \in Seq(Transfer) /\ (IF spc = "send" THEN batch ELSE <<>>) \in Seq(Transfer)
    BY FlightIsKnown
  <2> QED
    BY <2>1, ConcatProperties DEF InFlight
<1>4. q \in Seq(BlockHash) /\ k \in Nat
  BY <1>3, BlocksOfSeq
<1>5. /\ ConfirmedChain' = ConfirmedChain /\ BlocksOf(recorded)' = BlocksOf(recorded)
      /\ (IF blocks = {} THEN StartHeight ELSE LatestBlock.number)'
             = IF blocks = {} THEN StartHeight ELSE LatestBlock.number
  BY <1>1 DEF ConfirmedChain, ConfirmedHeight, Height, HashAt, LatestBlock, BlocksOf
<1>6. SubSeq(q, k + 1, k) = <<>>
  <2> HIDE DEF q
  <2> QED
    BY <1>4
<1>7. CASE k = 0
  <2>1. q = <<>>
    <3> HIDE DEF q
    <3> QED
      BY <1>4, <1>7
  <2> QED
    BY <1>2, <1>5, <2>1 DEF Feed!feedVars
<1>8. CASE k # 0
  <2>1. k \in 1..Len(q)
    BY <1>4, <1>8
  <2> QED
    BY <1>2, <1>5, <1>6, <2>1 DEF Feed!Lose
<1> QED
  BY <1>7, <1>8

\* The push hands the batch over.
LEMMA FeedPush ==
    ASSUME FeedInv, PushBatch
    PROVE  UNCHANGED Feed!feedVars
<1>1. /\ UNCHANGED <<chain, blocks, recorded>> /\ spc = "send" /\ spc' = "idle"
      /\ inHand = <<>> /\ inHand' = batch /\ batch \in Seq(Transfer)
  BY FlightIsKnown DEF PushBatch, SendBatch, EndTick, FinderReceive, chainVars, dbVars
<1>2. InFlight = batch /\ InFlight' = batch
  BY <1>1, ConcatEmptySeq DEF InFlight
<1>3. /\ ConfirmedChain' = ConfirmedChain /\ BlocksOf(recorded)' = BlocksOf(recorded)
      /\ (IF blocks = {} THEN StartHeight ELSE LatestBlock.number)'
             = IF blocks = {} THEN StartHeight ELSE LatestBlock.number
      /\ BlocksOf(InFlight)' = BlocksOf(InFlight)
  BY <1>1, <1>2 DEF ConfirmedChain, ConfirmedHeight, Height, HashAt, LatestBlock, BlocksOf
<1> QED
  BY <1>3 DEF Feed!feedVars

LEMMA FeedStep ==
    Settled /\ "lost_ack" \notin Faults /\ FeedInv /\ [Next]_vars
        => [Feed!Next]_(Feed!feedVars)
<1> SUFFICES ASSUME Settled, "lost_ack" \notin Faults, FeedInv, [Next]_vars
             PROVE  Feed!Next \/ UNCHANGED Feed!feedVars
  OBVIOUS
<1> USE DEF chainVars, dbVars, frameVars, finderVars
<1>0. /\ spc \in {"idle", "fetch", "scan", "send"} /\ fpc = "wait" /\ ~isFallback
      /\ finder # "busy" => inHand = <<>>
  BY FlightIsKnown
<1>1. CASE ChainStep
  BY <1>1, FeedChain DEF Feed!Next
<1>2. CASE SyncStep
  <2>1. CASE StoreBlocks
    BY <1>2, <2>1, FeedStore DEF Feed!Next, SyncStep
  <2>2. CASE ~StoreBlocks
    <3>1. /\ UNCHANGED <<chain, blocks, inHand, recorded>>
          /\ spc # "send" /\ spc' # "send"
      BY <1>0, <1>2, <2>2
         DEF SyncStep, TickFetch, FetchHeader, FetchLastHeader, FetchReorg, MarkFallback,
             MarkFallbackHeader, AlreadyMarked, TickRetry, ScanBlock, StoreConflict, EndTick
    <3> QED
      BY <3>1, FeedRests
  <2> QED
    BY <2>1, <2>2
<1>3. CASE SyncFault
  <2>1. /\ UNCHANGED <<chain, blocks, inHand, recorded>>
        /\ spc # "send" /\ spc' # "send"
    BY <1>3 DEF SyncFault, FetchError, ScanBlockEmpty, ProcessError, StoreLostAck, Fault,
                EndTick
  <2> QED
    BY <2>1, FeedRests
<1>4. CASE PushBatch
  BY <1>4, FeedPush
<1>5. CASE FinderStep \/ FinderFault
  <2>1. /\ UNCHANGED <<chain, blocks, spc, batch>> /\ inHand' = <<>>
        /\ recorded' = recorded \o inHand \/ recorded' = recorded
    BY <1>5 DEF FinderStep, FinderFault, HandleBatch, HandleBatchFails, ConfirmationsFail
  <2> QED
    BY <2>1, FeedHand DEF Feed!Next
<1>6. CASE FallbackStep \/ FallbackFault
  BY <1>0, <1>6 DEF FallbackStep, FallbackFault, FallbackTick, ReadChainBlock, ReadRow,
              ReadRowMissing, PersistFallback, PersistConflict, ReadNewest,
              SwapBatchBlock, ClearFlag, ClearHeader, FallbackError
<1>7. CASE Crash \/ NilHeaderPanic \/ NilFallbackPanic
  BY <1>7, FeedExit DEF Crash, NilHeaderPanic, NilFallbackPanic, Feed!Next
<1>8. CASE Start
  <2>1. UNCHANGED <<chain, blocks, inHand, recorded, spc, batch>>
    BY <1>8 DEF Start, NewSynchronizer
  <2> QED
    BY <2>1, FeedRests
<1>9. CASE UNCHANGED vars
  <2>1. UNCHANGED <<chain, blocks, inHand, recorded, spc, batch>>
    BY <1>9 DEF vars
  <2> QED
    BY <2>1, FeedRests
<1> QED
  BY <1>1, <1>2, <1>3, <1>4, <1>5, <1>6, <1>7, <1>8, <1>9 DEF Next

LEMMA FeedInit == Init => Feed!Init
<1> SUFFICES ASSUME Init PROVE Feed!Init
  OBVIOUS
<1>1. chain \in Seq(Nat)
  BY DEF Init, ChainInit
<1>2. ConfirmedChain \in Seq(BlockHash)
  BY <1>1, Mapped, ConfirmedIs
<1>3. InFlight = <<>> /\ BlocksOf(InFlight) = <<>> /\ recorded = <<>> /\ blocks = {}
      /\ BlocksOf(recorded) = <<>>
  BY DEF Init, SyncInit, SyncIdle, FinderIdle, InFlight, BlocksOf
<1> QED
  BY <1>2, <1>3 DEF Feed!Init

\* While reorganisations stay within the confirmations, no error code comes from
\* the node and no commit loses its reply, every step of the pipeline is a step
\* of BlockFeed or none: blocks are taken in the order of the confirmed chain,
\* each once, and recorded in that order or lost with the process or the Finder.
THEOREM PipelineIsFeed ==
    Settled /\ "lost_ack" \notin Faults => (Spec => ReadsConfirmedChain)
<1> SUFFICES ASSUME Settled, "lost_ack" \notin Faults PROVE Spec => ReadsConfirmedChain
  OBVIOUS
<1>1. Init => Feed!Init
  BY FeedInit
<1>2. FeedInv /\ [Next]_vars => [Feed!Next]_(Feed!feedVars)
  BY FeedStep
<1> QED
  BY <1>1, <1>2, FeedInvariant, PTL DEF Spec, ReadsConfirmedChain, Feed!Spec

=============================================================================
