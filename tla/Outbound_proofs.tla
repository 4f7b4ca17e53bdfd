-------------------------- MODULE Outbound_proofs --------------------------
(***************************************************************************)
(* Outbound for any number of orders, addresses, signings and failures:    *)
(* types, payment at most once, notification only of what was posted, and  *)
(* the implementation of module Payments.                                  *)
(***************************************************************************)
EXTENDS Outbound, TLAPS

USE OutboundAssumption

-----------------------------------------------------------------------------
\* The inductive invariant.

\* What the workers hold: a row that is not there has no payload, a signed row
\* has a transaction, and the structs of a worker's list, which is of its own
\* table, are those of rows that were built signed.
Frames ==
    /\ \A o \in Orders : /\ rows[o].status = "none" => payload[o] = None
                         /\ rows[o].status = "signed" => rows[o].tx # None
    /\ \A w \in Workers :
           /\ todo[w] \subseteq list[w]
           /\ list[w] \subseteq Table(w)
           /\ \A o \in list[w] : /\ rows[o].tx # None /\ copy[o].tx # None
                                 /\ copy[o].status \in {"signed", "broadcasted"}

\* Every transaction built signed carries the signature of the one payload.
Signatures ==
    \A o \in Orders : /\ rows[o].tx # None => rows[o].tx.signature = payload[o]
                      /\ copy[o].tx # None => copy[o].tx.signature = payload[o]

\* What the node accepted has the nonce of the one payload, and a nonce of an
\* address is mined once, in order.
IsPaidWith(t) == t.nonce = t.signature /\ payload[t.order] = t.signature

Chain ==
    /\ \A t \in pool : IsPaidWith(t) /\ t.nonce >= nextNonce[From[t.order]]
    /\ \A t, u \in pool : SameSlot(t, u) => t = u
    /\ \A i \in DOMAIN mined :
           IsPaidWith(mined[i]) /\ mined[i].nonce < nextNonce[From[mined[i].order]]
    /\ \A i, j \in DOMAIN mined : SameSlot(mined[i], mined[j]) => i = j

\* A row is done, and its hash in a letter, when the chain has its transaction.
Found ==
    /\ \A o \in Orders : rows[o].status \in Done => rows[o].hash \in ToSet(mined)
    /\ letter \subseteq ToSet(mined)

\* The business has had every letter that is being marked.
Notices ==
    /\ npc = "after" => \A t \in letter : t.order \in posted
    /\ NotifiedIsPosted
    /\ posted \subseteq {t.order : t \in ToSet(mined)}

IInv == TypeOK /\ Frames /\ Signatures /\ Chain /\ Found /\ Notices

-----------------------------------------------------------------------------
\* Types.

\* What TypeOK says of the rows and of the structs.
RowsOK(table) ==
    /\ table \in [Orders -> Row]
    /\ \A o \in Orders : IsOwn(table[o].tx, o) /\ IsOwn(table[o].hash, o)

\* A row of order o.
RowOf(r, o) == r \in Row /\ IsOwn(r.tx, o) /\ IsOwn(r.hash, o)

\* A table is well typed when each of its rows is.
LEMMA RowsOKByRow ==
    ASSUME NEW table, DOMAIN table = Orders, table = [o \in Orders |-> table[o]],
           \A o \in Orders : RowOf(table[o], o)
    PROVE  RowsOK(table)
BY DEF RowsOK, RowOf

\* The rows and the structs have the types that TypeOK gives them.
LEMMA RowTypes ==
    ASSUME TypeOK, NEW o \in Orders
    PROVE  /\ RowOf(rows[o], o) /\ RowOf(copy[o], o)
           /\ RowsOK(rows) /\ RowsOK(copy)
BY DEF TypeOK, RowsOK, RowOf

\* A row stays one with another status or another hash.
LEMMA RowUpdate ==
    ASSUME NEW o, NEW r, RowOf(r, o), NEW status \in Status,
           NEW h, RowOf([status |-> status, tx |-> None, hash |-> h], o)
    PROVE  /\ RowOf([r EXCEPT !.status = status], o)
           /\ RowOf([r EXCEPT !.status = status, !.hash = h], o)
BY DEF RowOf, Row, IsOwn

\* A nonce the node answers with is a number.
LEMMA SequencesType ==
    ASSUME TypeOK, NEW o \in Orders
    PROVE  Sequences(From[o]) \subseteq Nat
BY DEF TypeOK, Sequences, SignedTx

\* The tables of the two workers have no row in common.
LEMMA OwnTable ==
    ASSUME Frames, NEW w \in Workers, NEW v \in Workers, NEW o \in list[w], o \in list[v]
    PROVE  w = v
BY DEF Frames, Table, Workers

-----------------------------------------------------------------------------
\* What a step may do to a row.

RowBuilt(o) ==
    \E n \in Nat : rows'[o] = [rows[o] EXCEPT !.status = "signed", !.tx = BuildSignedTx(o, n)]

RowFound(o, status) ==
    /\ rows[o].hash \in ToSet(mined)
    /\ rows'[o] = [rows[o] EXCEPT !.status = status]

RowStep(o) ==
    \/ rows'[o] = rows[o]
    \/ rows[o].status = "none" /\ rows'[o] = [rows[o] EXCEPT !.status = "create_unsign"]
    \/ payload[o] # None /\ payload' = payload /\ RowBuilt(o)
    \/ /\ \E w \in Workers : o \in list[w]
       /\ rows'[o] = [rows[o] EXCEPT !.status = copy[o].status, !.hash = copy[o].hash]
    \/ RowFound(o, "wallet_done")
    \/ o \in posted /\ RowFound(o, "notified")

RowSteps ==
    /\ rows' = [o \in Orders |-> rows'[o]]
    /\ \A o \in Orders : RowStep(o)

\* Rows that stay as they are take a permitted step.
LEMMA RowsKept == TypeOK /\ UNCHANGED rows => RowSteps
BY DEF TypeOK, RowSteps, RowStep

\* A worker that writes back its list takes a permitted step on every row.
LEMMA PersistedSteps ==
    ASSUME TypeOK, NEW w \in Workers, rows' = Persisted(w)
    PROVE  RowSteps
<1>1. rows' = [o \in Orders |-> rows'[o]]
  BY DEF Persisted
<1>2. ASSUME NEW o \in Orders PROVE RowStep(o)
  <2>1. CASE o \in list[w]
    BY <2>1 DEF Persisted, RowStep
  <2>2. CASE o \notin list[w]
    BY <2>2 DEF Persisted, RowStep
  <2> QED
    BY <2>1, <2>2
<1> QED
  BY <1>1, <1>2 DEF RowSteps

\* Marking by hash is a permitted step when the hashes are those of mined
\* transactions, and of posted ones when the status is notified.
LEMMA ByHashSteps ==
    ASSUME TypeOK, NEW hashes \in SUBSET ToSet(mined), NEW status,
           rows' = StatusByHash(hashes, status),
           \/ status = "wallet_done"
           \/ status = "notified" /\ \A t \in hashes : t.order \in posted
    PROVE  RowSteps
<1>1. rows' = [o \in Orders |-> rows'[o]]
  BY DEF StatusByHash
<1>2. ASSUME NEW o \in Orders PROVE RowStep(o)
  <2>1. CASE rows[o].hash \in hashes
    <3>1. ToSet(mined) \subseteq SignedTx
      BY DEF ToSet, TypeOK
    <3>2. rows[o].hash.order = o
      BY <2>1, <3>1 DEF TypeOK, IsOwn
    <3>3. rows'[o] = [rows[o] EXCEPT !.status = status]
      BY <2>1 DEF StatusByHash
    <3> QED
      BY <2>1, <3>2, <3>3 DEF RowStep, RowFound
  <2>2. CASE rows[o].hash \notin hashes
    BY <2>2 DEF StatusByHash, RowStep
  <2> QED
    BY <2>1, <2>2
<1> QED
  BY <1>1, <1>2 DEF RowSteps

\* Every step of the system is a permitted step on every row.
LEMMA RowsStep == IInv /\ [Next]_vars => RowSteps
<1> SUFFICES ASSUME IInv, [Next]_vars PROVE RowSteps
  OBVIOUS
<1> USE DEF IInv
<1>1. CASE UNCHANGED rows
  BY <1>1, RowsKept
<1>2. CASE Discover
  <2>1. mined[seen + 1] \in ToSet(mined)
    BY <1>2 DEF Discover, TypeOK, ToSet
  <2> QED
    BY <1>2, <2>1, ByHashSteps DEF Discover
<1>3. CASE AfterNotify
  <2>1. letter \in SUBSET ToSet(mined) /\ \A t \in letter : t.order \in posted
    BY <1>3 DEF Found, Notices, AfterNotify
  <2> QED
    BY <1>1, <1>3, <2>1, ByHashSteps DEF AfterNotify, NotifiedRows
<1>4. ASSUME NEW o \in Orders, BuildUnSign(o) PROVE RowSteps
  <2>1. rows' = [rows EXCEPT ![o] = [rows[o] EXCEPT !.status = "create_unsign"]]
    BY <1>4 DEF BuildUnSign
  <2>2. rows \in [Orders -> Row] /\ rows[o].status = "none"
    BY <1>4 DEF TypeOK, BuildUnSign
  <2> QED
    BY <2>1, <2>2 DEF RowSteps, RowStep
<1>5. ASSUME NEW o \in Orders, BuildSigned(o) PROVE RowSteps
  <2>1. PICK n \in Nat :
            rows' = [rows EXCEPT ![o] = [rows[o] EXCEPT !.status = "signed",
                                                       !.tx = BuildSignedTx(o, n)]]
    BY <1>5, SequencesType DEF BuildSigned
  <2>2. rows \in [Orders -> Row] /\ payload[o] # None /\ payload' = payload
    BY <1>5 DEF TypeOK, BuildSigned
  <2> QED
    BY <2>1, <2>2 DEF RowSteps, RowStep, RowBuilt
<1>6. ASSUME NEW w \in Workers, Persist(w) \/ PersistLostAck(w) PROVE RowSteps
  BY <1>6, PersistedSteps DEF Persist, PersistLostAck
<1> QED
  <2>1. Mine \/ Post \/ NotifierTick \/ Crash => UNCHANGED rows
    BY DEF Mine, Post, NotifierTick, Crash
  <2>2. ASSUME NEW w \in Workers, WorkerTick(w) \/ Send(w) \/ PersistFails(w)
        PROVE  UNCHANGED rows
    BY <2>2 DEF WorkerTick, Send, PersistFails
  <2>3. UNCHANGED vars => UNCHANGED rows
    BY DEF vars
  <2> QED
    BY <1>1, <1>2, <1>3, <1>4, <1>5, <1>6, <2>1, <2>2, <2>3
       DEF Next, NotifierStep, WorkerStep, WorkerFault

-----------------------------------------------------------------------------
\* What a step may do to a struct and to a payload.

CopyStep(o) ==
    \/ copy'[o] = copy[o]
    \/ copy'[o] = NoRow
    \/ rows[o].status = "signed" /\ copy'[o] = rows[o]
    \/ \E h \in {None, copy[o].tx} :
           copy'[o] = [copy[o] EXCEPT !.status = "broadcasted", !.hash = h]

CopySteps ==
    /\ copy' = [o \in Orders |-> copy'[o]]
    /\ \A o \in Orders : CopyStep(o)

PayloadStep(o) ==
    \/ payload'[o] = payload[o]
    \/ payload[o] = None /\ payload'[o] \in Nat /\ rows'[o].status = "create_unsign"

PayloadSteps ==
    /\ payload' = [o \in Orders |-> payload'[o]]
    /\ \A o \in Orders : PayloadStep(o)

\* A struct whose transaction was sent takes a permitted step.
LEMMA BroadcastedSteps ==
    ASSUME TypeOK, NEW o \in Orders, NEW h \in {None, copy[o].tx}, Broadcasted(o, h)
    PROVE  CopySteps
<1>1. copy' = [copy EXCEPT ![o] = [copy[o] EXCEPT !.status = "broadcasted", !.hash = h]]
  BY DEF Broadcasted
<1>2. copy \in [Orders -> Row]
  BY DEF TypeOK
<1> QED
  BY <1>1, <1>2 DEF CopySteps, CopyStep

\* Every step of the system is a permitted step on every struct.
LEMMA CopyStepped == TypeOK /\ [Next]_vars => CopySteps
<1> SUFFICES ASSUME TypeOK, [Next]_vars PROVE CopySteps
  OBVIOUS
<1>1. CASE UNCHANGED copy
  BY <1>1 DEF TypeOK, CopySteps, CopyStep
<1>2. CASE Crash
  BY <1>2 DEF Crash, CopySteps, CopyStep
<1>3. ASSUME NEW w \in Workers, Forget(w) PROVE CopySteps
  BY <1>3 DEF Forget, CopySteps, CopyStep
<1>4. ASSUME NEW w \in Workers, WorkerTick(w) PROVE CopySteps
  <2>1. copy' = [o \in Orders |-> IF o \in UnSendList(w) THEN rows[o] ELSE copy[o]]
    BY <1>4 DEF WorkerTick
  <2> QED
    BY <2>1 DEF UnSendList, CopySteps, CopyStep
<1>5. ASSUME NEW w \in Workers, Send(w) PROVE CopySteps
  <2>1. PICK o \in todo[w] : SendAccepted(o) \/ SendRejected(o)
    BY <1>5 DEF Send
  <2>2. o \in Orders
    BY <2>1 DEF TypeOK
  <2> QED
    BY <1>1, <2>1, <2>2, BroadcastedSteps DEF SendAccepted, SendRejected
<1>6. Mine \/ Discover \/ NotifierStep => UNCHANGED copy
  BY DEF Mine, Discover, NotifierStep, NotifierTick, Post, AfterNotify, workerVars
<1>7. ASSUME NEW o \in Orders, BuildUnSign(o) \/ BuildSigned(o) PROVE UNCHANGED copy
  BY <1>7 DEF BuildUnSign, BuildSigned, workerVars
<1>8. ASSUME NEW w \in Workers, Persist(w) \/ WorkerFault(w)
      PROVE  UNCHANGED copy \/ Forget(w)
  BY <1>8 DEF Persist, WorkerFault, PersistFails, PersistLostAck, workerVars
<1>9. UNCHANGED vars => UNCHANGED copy
  BY DEF vars, workerVars
<1> QED
  BY <1>1, <1>2, <1>3, <1>4, <1>5, <1>6, <1>7, <1>8, <1>9 DEF Next, WorkerStep

\* Only a row that has just been created gets a payload.
LEMMA PayloadStepped == IInv /\ [Next]_vars => PayloadSteps
<1> SUFFICES ASSUME IInv, [Next]_vars PROVE PayloadSteps
  OBVIOUS
<1> USE DEF IInv
<1>1. CASE UNCHANGED payload
  BY <1>1 DEF TypeOK, PayloadSteps, PayloadStep
<1>2. ASSUME NEW o \in Orders, BuildUnSign(o) PROVE PayloadSteps
  <2>1. PICK n \in Nat : payload' = [payload EXCEPT ![o] = n] \/ UNCHANGED payload
    BY <1>2, SequencesType DEF BuildUnSign
  <2>2. payload[o] = None
    BY <1>2 DEF BuildUnSign, Frames
  <2>3. rows'[o].status = "create_unsign"
    BY <1>2 DEF BuildUnSign, TypeOK, Row
  <2>4. payload \in [Orders -> Nat \union {None}]
    BY DEF TypeOK
  <2> QED
    BY <1>1, <2>1, <2>2, <2>3, <2>4 DEF PayloadSteps, PayloadStep
<1>3. Mine \/ Discover \/ NotifierStep \/ Crash => UNCHANGED payload
  BY DEF Mine, Discover, NotifierStep, NotifierTick, Post, AfterNotify, Crash, clientVars
<1>4. ASSUME NEW o \in Orders, BuildSigned(o) PROVE UNCHANGED payload
  BY <1>4 DEF BuildSigned
<1>5. ASSUME NEW w \in Workers, WorkerStep(w) \/ WorkerFault(w) PROVE UNCHANGED payload
  BY <1>5 DEF WorkerStep, WorkerTick, Send, Persist, WorkerFault, PersistFails,
              PersistLostAck, clientVars
<1>6. UNCHANGED vars => UNCHANGED payload
  BY DEF vars, clientVars
<1> QED
  BY <1>1, <1>2, <1>3, <1>4, <1>5, <1>6 DEF Next

-----------------------------------------------------------------------------
\* What the permitted steps preserve.

\* A permitted step leaves a row of its order.
LEMMA RowStepType ==
    ASSUME IInv, NEW o \in Orders, RowStep(o)
    PROVE  RowOf(rows'[o], o)
<1>0. RowOf(rows[o], o) /\ RowOf(copy[o], o) /\ payload[o] \in Nat \union {None}
  BY RowTypes DEF IInv, TypeOK
<1>1. CASE rows'[o] = rows[o]
  BY <1>0, <1>1
<1>2. ASSUME NEW status \in Status, rows'[o] = [rows[o] EXCEPT !.status = status]
      PROVE  RowOf(rows'[o], o)
  BY <1>0, <1>2 DEF RowOf, Row, IsOwn
<1>3. CASE payload[o] # None /\ RowBuilt(o)
  <2>1. PICK n \in Nat : rows'[o] = [rows[o] EXCEPT !.status = "signed",
                                                    !.tx = BuildSignedTx(o, n)]
    BY <1>3 DEF RowBuilt
  <2>2. BuildSignedTx(o, n) \in SignedTx /\ BuildSignedTx(o, n).order = o
    BY <1>0, <1>3 DEF BuildSignedTx, SignedTx
  <2> HIDE DEF BuildSignedTx
  <2> QED
    BY <1>0, <2>1, <2>2 DEF RowOf, Row, IsOwn, Status
<1>4. CASE rows'[o] = [rows[o] EXCEPT !.status = copy[o].status, !.hash = copy[o].hash]
  BY <1>0, <1>4 DEF RowOf, Row, IsOwn
<1> QED
  BY <1>1, <1>2, <1>3, <1>4 DEF RowStep, RowFound, Status

\* A permitted step leaves a struct of its order.
LEMMA CopyStepType ==
    ASSUME TypeOK, NEW o \in Orders, CopyStep(o)
    PROVE  RowOf(copy'[o], o)
<1>0. RowOf(rows[o], o) /\ RowOf(copy[o], o)
  BY RowTypes
<1>1. CASE copy'[o] = NoRow
  BY <1>1 DEF NoRow, RowOf, Row, IsOwn, Status
<1>2. ASSUME NEW h \in {None, copy[o].tx},
             copy'[o] = [copy[o] EXCEPT !.status = "broadcasted", !.hash = h]
      PROVE  RowOf(copy'[o], o)
  BY <1>0, <1>2 DEF RowOf, Row, IsOwn, Status
<1> QED
  BY <1>0, <1>1, <1>2 DEF CopyStep

\* Rows are typed after a step.
LEMMA RowsType == IInv /\ RowSteps => RowsOK(rows')
<1> SUFFICES ASSUME IInv, RowSteps PROVE RowsOK(rows')
  OBVIOUS
<1>1. \A o \in Orders : RowOf(rows'[o], o)
  BY RowStepType DEF RowSteps
<1>2. rows' = [o \in Orders |-> rows'[o]]
  BY DEF RowSteps
<1> QED
  BY <1>1, <1>2 DEF RowsOK, RowOf

\* Structs are typed after a step.
LEMMA CopyType == TypeOK /\ CopySteps => RowsOK(copy')
<1> SUFFICES ASSUME TypeOK, CopySteps PROVE RowsOK(copy')
  OBVIOUS
<1>1. \A o \in Orders : RowOf(copy'[o], o)
  BY CopyStepType DEF CopySteps
<1>2. copy' = [o \in Orders |-> copy'[o]]
  BY DEF CopySteps
<1> QED
  BY <1>1, <1>2 DEF RowsOK, RowOf

\* A payload that is there stays; payloads are typed after a step.
LEMMA PayloadType ==
    ASSUME IInv, PayloadSteps
    PROVE  /\ payload' \in [Orders -> Nat \union {None}]
           /\ \A o \in Orders : payload[o] # None => payload'[o] = payload[o]
<1>1. \A o \in Orders : payload'[o] \in Nat \union {None}
  BY DEF PayloadSteps, PayloadStep, IInv, TypeOK
<1> QED
  BY <1>1 DEF PayloadSteps, PayloadStep

\* A row with a transaction has a payload; so has a struct.
LEMMA HasPayload ==
    ASSUME IInv, NEW o \in Orders
    PROVE  /\ rows[o].tx # None => payload[o] # None
           /\ copy[o].tx # None => payload[o] # None
BY RowTypes DEF IInv, Signatures, RowOf, Row, SignedTx

\* Every transaction built signed keeps the signature of the one payload.
LEMMA SignaturesStep == IInv /\ RowSteps /\ CopySteps /\ PayloadSteps => Signatures'
<1> SUFFICES ASSUME IInv, RowSteps, CopySteps, PayloadSteps, NEW o \in Orders
             PROVE  /\ rows'[o].tx # None => rows'[o].tx.signature = payload'[o]
                    /\ copy'[o].tx # None => copy'[o].tx.signature = payload'[o]
  BY DEF Signatures
<1>0. RowOf(rows[o], o) /\ RowOf(copy[o], o)
  BY RowTypes DEF IInv
<1>1. payload[o] # None => payload'[o] = payload[o]
  BY PayloadType
<1>2. /\ rows[o].tx # None => rows[o].tx.signature = payload[o]
      /\ copy[o].tx # None => copy[o].tx.signature = payload[o]
  BY DEF IInv, Signatures
<1>3. rows'[o].tx # None => rows'[o].tx.signature = payload'[o]
  <2>1. CASE rows'[o].tx = rows[o].tx
    BY <2>1, <1>1, <1>2, HasPayload
  <2>2. CASE payload[o] # None /\ RowBuilt(o)
    BY <2>2, <1>0, <1>1 DEF RowBuilt, BuildSignedTx, RowOf, Row
  <2> QED
    BY <1>0, <2>1, <2>2 DEF RowSteps, RowStep, RowFound, RowOf, Row
<1>4. copy'[o].tx # None => copy'[o].tx.signature = payload'[o]
  <2>1. copy'[o].tx \in {copy[o].tx, None, rows[o].tx}
    <3>1. CASE copy'[o] = NoRow
      BY <3>1 DEF NoRow
    <3>2. ASSUME NEW h, copy'[o] = [copy[o] EXCEPT !.status = "broadcasted", !.hash = h]
          PROVE  copy'[o].tx = copy[o].tx
      BY <3>2, <1>0 DEF RowOf, Row
    <3> QED
      BY <3>1, <3>2 DEF CopySteps, CopyStep
  <2> QED
    BY <2>1, <1>1, <1>2, HasPayload
<1> QED
  BY <1>3, <1>4

\* A row does not lose its transaction; it is there when the row is signed, and
\* a row that is not there has no payload.
LEMMA RowFacts ==
    ASSUME IInv, RowSteps, PayloadSteps, NEW o \in Orders
    PROVE  /\ rows[o].tx # None => rows'[o].tx # None
           /\ rows'[o].status = "signed" => rows'[o].tx # None
           /\ rows'[o].status = "none" => payload'[o] = None
<1>0. RowOf(rows[o], o) /\ payload[o] \in Nat \union {None} /\ PayloadStep(o) /\ RowStep(o)
  BY RowTypes DEF IInv, TypeOK, PayloadSteps, RowSteps
<1>1. CASE rows'[o] = rows[o]
  BY <1>0, <1>1 DEF IInv, Frames, PayloadStep
<1>2. ASSUME NEW status \in {"create_unsign", "wallet_done", "notified"},
             rows'[o] = [rows[o] EXCEPT !.status = status]
      PROVE  rows'[o].tx = rows[o].tx /\ rows'[o].status = status
  BY <1>0, <1>2 DEF RowOf, Row
<1>3. CASE payload[o] # None /\ RowBuilt(o)
  <2>1. PICK n \in Nat : rows'[o] = [rows[o] EXCEPT !.status = "signed",
                                                    !.tx = BuildSignedTx(o, n)]
    BY <1>3 DEF RowBuilt
  <2>2. BuildSignedTx(o, n) # None
    BY <1>0, <1>3 DEF BuildSignedTx, SignedTx
  <2>3. rows'[o].status = "signed" /\ rows'[o].tx = BuildSignedTx(o, n)
    BY <1>0, <2>1 DEF RowOf, Row
  <2> QED
    BY <2>2, <2>3
<1>4. ASSUME NEW w \in Workers, o \in list[w],
             rows'[o] = [rows[o] EXCEPT !.status = copy[o].status, !.hash = copy[o].hash]
      PROVE  rows'[o].tx # None /\ rows'[o].status \in {"signed", "broadcasted"}
  BY <1>0, <1>4 DEF RowOf, Row, IInv, Frames
<1> QED
  BY <1>0, <1>1, <1>2, <1>3, <1>4 DEF RowStep, RowFound

\* The frames of worker w.
Frame(w) ==
    /\ todo[w] \subseteq list[w]
    /\ list[w] \subseteq Table(w)
    /\ \A o \in list[w] : /\ rows[o].tx # None /\ copy[o].tx # None
                          /\ copy[o].status \in {"signed", "broadcasted"}

\* A frame is kept while its structs are.
LEMMA FrameKept ==
    ASSUME IInv, RowSteps, PayloadSteps, NEW w \in Workers,
           list'[w] = list[w], todo'[w] \subseteq todo[w],
           \A o \in list[w] : /\ copy'[o].tx = copy[o].tx
                              /\ copy'[o].status \in {copy[o].status, "broadcasted"}
    PROVE  Frame(w)'
<1>1. \A o \in list[w] : o \in Orders
  BY DEF IInv, TypeOK
<1> QED
  BY <1>1, RowFacts DEF Frame, IInv, Frames

\* A worker's step leaves the frame of the other worker alone.
LEMMA OtherFrame ==
    ASSUME IInv, RowSteps, PayloadSteps, NEW w \in Workers, NEW v \in Workers, v # w,
           list'[v] = list[v], todo'[v] = todo[v],
           NEW S \in SUBSET Table(w),
           \A o \in Orders \ S : copy'[o] = copy[o]
    PROVE  Frame(v)'
<1>1. \A o \in list[v] : o \in Orders \ S
  BY DEF IInv, TypeOK, Frames, Table, Workers
<1> QED
  BY <1>1, FrameKept

\* The frames are kept by every step.
LEMMA FramesKept ==
    ASSUME IInv, [Next]_vars, RowSteps, PayloadSteps, NEW v \in Workers
    PROVE  Frame(v)'
<1>0. /\ list \in [Workers -> SUBSET Orders] /\ todo \in [Workers -> SUBSET Orders]
      /\ copy \in [Orders -> Row] /\ rows \in [Orders -> Row]
  BY DEF IInv, TypeOK
<1>1. CASE UNCHANGED <<list, todo, copy>>
  BY <1>1, FrameKept
<1>2. CASE Crash
  BY <1>2 DEF Crash, Frame
<1>3. ASSUME NEW w \in Workers, Forget(w) PROVE Frame(v)'
  <2>1. CASE v = w
    BY <1>0, <1>3, <2>1 DEF Forget, Frame
  <2>2. CASE v # w
    <3>1. list[w] \in SUBSET Table(w) /\ list'[v] = list[v] /\ todo'[v] = todo[v]
      BY <1>0, <1>3, <2>2 DEF IInv, Frames, Forget
    <3>2. \A o \in Orders \ list[w] : copy'[o] = copy[o]
      BY <1>3 DEF Forget
    <3> QED
      BY <2>2, <3>1, <3>2, OtherFrame
  <2> QED
    BY <2>1, <2>2
<1>4. ASSUME NEW w \in Workers, WorkerTick(w) PROVE Frame(v)'
  <2>0. UnSendList(w) \in SUBSET Table(w) /\ UnSendList(w) \subseteq Orders
    BY DEF UnSendList, Table, Orders
  <2>1. CASE v = w
    <3>1. list'[v] = UnSendList(w) /\ todo'[v] = UnSendList(w) /\ rows' = rows
      BY <1>0, <1>4, <2>1 DEF WorkerTick
    <3>2. ASSUME NEW o \in UnSendList(w)
          PROVE  copy'[o] = rows[o] /\ rows[o].status = "signed" /\ rows[o].tx # None
      BY <1>4, <2>0, <3>2 DEF WorkerTick, UnSendList, IInv, Frames
    <3> QED
      BY <2>0, <2>1, <3>1, <3>2 DEF Frame
  <2>2. CASE v # w
    <3>1. list'[v] = list[v] /\ todo'[v] = todo[v]
      BY <1>0, <1>4, <2>2 DEF WorkerTick
    <3>2. \A o \in Orders \ UnSendList(w) : copy'[o] = copy[o]
      BY <1>4 DEF WorkerTick
    <3> QED
      BY <2>0, <2>2, <3>1, <3>2, OtherFrame
  <2> QED
    BY <2>1, <2>2
<1>5. ASSUME NEW w \in Workers, Send(w) PROVE Frame(v)'
  <2>1. PICK o \in todo[w] : /\ SendAccepted(o) \/ SendRejected(o)
                             /\ todo' = [todo EXCEPT ![w] = @ \ {o}]
    BY <1>5 DEF Send
  <2>2. list'[v] = list[v] /\ todo'[v] \subseteq todo[v] /\ o \in Orders
    BY <1>0, <1>5, <2>1 DEF Send
  <2>3. ASSUME NEW h, Broadcasted(o, h), NEW q \in list[v]
        PROVE  copy'[q].tx = copy[q].tx /\ copy'[q].status \in {copy[q].status, "broadcasted"}
    <3>1. copy' = [copy EXCEPT ![o] = [copy[o] EXCEPT !.status = "broadcasted", !.hash = h]]
      BY <2>3 DEF Broadcasted
    <3>2. q \in Orders /\ copy[q] \in Row
      BY <1>0, <2>3
    <3>3. CASE q = o
      <4>1. copy'[q] = [copy[q] EXCEPT !.status = "broadcasted", !.hash = h]
        BY <1>0, <3>1, <3>2, <3>3
      <4> QED
        BY <3>2, <4>1 DEF Row
    <3>4. CASE q # o
      BY <1>0, <3>1, <3>2, <3>4
    <3> QED
      BY <3>3, <3>4
  <2>4. UNCHANGED copy \/ \E h : Broadcasted(o, h)
    BY <2>1 DEF SendAccepted, SendRejected
  <2> QED
    BY <2>2, <2>3, <2>4, FrameKept
<1>6. Mine \/ Discover \/ NotifierStep => UNCHANGED <<list, todo, copy>>
  BY DEF Mine, Discover, NotifierStep, NotifierTick, Post, AfterNotify, workerVars
<1>7. ASSUME NEW o \in Orders, BuildUnSign(o) \/ BuildSigned(o)
      PROVE  UNCHANGED <<list, todo, copy>>
  BY <1>7 DEF BuildUnSign, BuildSigned, workerVars
<1>8. ASSUME NEW w \in Workers, Persist(w) \/ WorkerFault(w)
      PROVE  UNCHANGED <<list, todo, copy>> \/ Forget(w)
  BY <1>8 DEF Persist, WorkerFault, PersistFails, PersistLostAck, workerVars
<1>9. UNCHANGED vars => UNCHANGED <<list, todo, copy>>
  BY DEF vars, workerVars
<1> QED
  BY <1>1, <1>2, <1>3, <1>4, <1>5, <1>6, <1>7, <1>8, <1>9 DEF Next, WorkerStep

\* Frames as a whole is kept by every step.
LEMMA FramesStep == IInv /\ [Next]_vars => Frames'
<1> SUFFICES ASSUME IInv, [Next]_vars PROVE Frames'
  OBVIOUS
<1>1. RowSteps /\ PayloadSteps
  BY RowsStep, PayloadStepped
<1>2. \A w \in Workers : Frame(w)'
  BY <1>1, FramesKept
<1>3. \A o \in Orders : /\ rows'[o].status = "none" => payload'[o] = None
                        /\ rows'[o].status = "signed" => rows'[o].tx # None
  BY <1>1, RowFacts
<1> QED
  BY <1>2, <1>3 DEF Frames, Frame

-----------------------------------------------------------------------------
\* The node and the Finder.

\* The transaction a worker sends is one that was built signed.
LEMMA SentIsSigned ==
    ASSUME IInv, NEW w \in Workers, NEW o \in todo[w]
    PROVE  /\ o \in Orders /\ copy[o].tx \in SignedTx /\ copy[o].tx.order = o
           /\ copy[o].tx.signature = payload[o]
BY RowTypes DEF IInv, TypeOK, Frames, Signatures, RowOf, Row, IsOwn

\* What a step may do to the node: nothing, take in a transaction built signed,
\* or mine one.
PoolGrows ==
    /\ mined' = mined /\ nextNonce' = nextNonce
    /\ \E t \in SignedTx : /\ Accepts(t) /\ t.signature = payload[t.order]
                           /\ pool' = pool \union {t}

NodeStep == UNCHANGED nodeVars \/ PoolGrows \/ Mine

\* Every step is one of these for the node.
LEMMA NodeStepped == IInv /\ [Next]_vars => NodeStep
<1> SUFFICES ASSUME IInv, [Next]_vars PROVE NodeStep
  OBVIOUS
<1>1. Discover \/ NotifierStep \/ Crash => UNCHANGED nodeVars
  BY DEF Discover, NotifierStep, NotifierTick, Post, AfterNotify, Crash
<1>2. ASSUME NEW o \in Orders, BuildUnSign(o) \/ BuildSigned(o) PROVE UNCHANGED nodeVars
  BY <1>2 DEF BuildUnSign, BuildSigned
<1>3. ASSUME NEW w \in Workers, WorkerTick(w) \/ Persist(w) \/ WorkerFault(w)
      PROVE  UNCHANGED nodeVars
  BY <1>3 DEF WorkerTick, Persist, WorkerFault, PersistFails, PersistLostAck
<1>4. ASSUME NEW w \in Workers, Send(w) PROVE NodeStep
  <2>1. PICK o \in todo[w] : SendAccepted(o) \/ SendRejected(o)
    BY <1>4 DEF Send
  <2>2. mined' = mined /\ nextNonce' = nextNonce
    BY <1>4 DEF Send
  <2>3. CASE SendAccepted(o)
    BY <2>2, <2>3, SentIsSigned DEF SendAccepted, NodeStep, PoolGrows
  <2>4. CASE SendRejected(o)
    BY <2>2, <2>4 DEF SendRejected, NodeStep, nodeVars
  <2> QED
    BY <2>1, <2>3, <2>4
<1>5. UNCHANGED vars => UNCHANGED nodeVars
  BY DEF vars, nodeVars
<1> QED
  BY <1>1, <1>2, <1>3, <1>4, <1>5 DEF Next, WorkerStep, NodeStep

\* What Mine appends.
LEMMA MineAppends ==
    ASSUME IInv, Mine
    PROVE  \E t \in pool : /\ t \in SignedTx /\ t.order \in Orders
                           /\ t.nonce = nextNonce[From[t.order]]
                           /\ mined' = Append(mined, t)
                           /\ pool' = pool \ {t}
                           /\ Len(mined') = Len(mined) + 1
                           /\ mined'[Len(mined) + 1] = t
                           /\ \A i \in 1..Len(mined) : mined'[i] = mined[i]
                           /\ DOMAIN mined = 1..Len(mined)
                           /\ DOMAIN mined' = 1..(Len(mined) + 1)
                           /\ nextNonce' = [nextNonce EXCEPT ![From[t.order]] = @ + 1]
<1>1. PICK t \in pool : /\ t.nonce = nextNonce[From[t.order]]
                        /\ mined' = Append(mined, t)
                        /\ pool' = pool \ {t}
                        /\ nextNonce' = [nextNonce EXCEPT ![From[t.order]] = @ + 1]
  BY DEF Mine
<1>2. t \in SignedTx /\ t.order \in Orders /\ mined \in Seq(SignedTx)
  BY DEF IInv, TypeOK, SignedTx
<1>3. /\ Len(mined') = Len(mined) + 1
      /\ mined'[Len(mined) + 1] = t
      /\ \A i \in 1..Len(mined) : mined'[i] = mined[i]
  BY <1>1, <1>2
<1>4. DOMAIN mined = 1..Len(mined)
  BY <1>2
<1>5. DOMAIN mined' = 1..(Len(mined) + 1)
  <2>1. mined' \in Seq(SignedTx)
    BY <1>1, <1>2
  <2> QED
    BY <2>1, <1>3
<1> QED
  BY <1>1, <1>2, <1>3, <1>4, <1>5

\* Nothing is ever taken back from the chain.
LEMMA MinedGrows ==
    ASSUME IInv, NodeStep
    PROVE  ToSet(mined) \subseteq ToSet(mined')
<1>1. CASE Mine
  BY <1>1, MineAppends DEF ToSet
<1> QED
  BY <1>1 DEF NodeStep, PoolGrows, nodeVars

\* The node's variables are typed after a step.
LEMMA NodeType ==
    ASSUME IInv, NodeStep
    PROVE  /\ pool' \subseteq SignedTx /\ mined' \in Seq(SignedTx)
           /\ nextNonce' \in [Address -> Nat] /\ Len(mined') >= Len(mined)
<1>0. pool \subseteq SignedTx /\ mined \in Seq(SignedTx) /\ nextNonce \in [Address -> Nat]
  BY DEF IInv, TypeOK
<1>1. CASE Mine
  <2>1. PICK t \in pool : /\ t \in SignedTx /\ t.order \in Orders
                          /\ mined' = Append(mined, t)
                          /\ pool' = pool \ {t}
                          /\ nextNonce' = [nextNonce EXCEPT ![From[t.order]] = @ + 1]
    BY <1>1, MineAppends
  <2> QED
    BY <1>0, <2>1
<1>2. CASE PoolGrows
  BY <1>0, <1>2 DEF PoolGrows
<1> QED
  BY <1>0, <1>1, <1>2 DEF NodeStep, nodeVars

\* Nonces are mined once and in order, with the one payload of their order.
LEMMA ChainStep == IInv /\ NodeStep /\ PayloadSteps => Chain'
<1> SUFFICES ASSUME IInv, NodeStep, PayloadSteps PROVE Chain'
  OBVIOUS
<1>0. /\ pool \subseteq SignedTx /\ mined \in Seq(SignedTx) /\ nextNonce \in [Address -> Nat]
      /\ Chain
  BY DEF IInv, TypeOK
<1>1. ASSUME NEW t \in SignedTx, IsPaidWith(t) PROVE IsPaidWith(t)'
  BY <1>1, PayloadType DEF IsPaidWith, SignedTx
<1>2. CASE UNCHANGED nodeVars
  BY <1>0, <1>1, <1>2 DEF Chain, nodeVars, SameSlot
<1>3. CASE PoolGrows
  <2>1. PICK t \in SignedTx : /\ Accepts(t) /\ t.signature = payload[t.order]
                              /\ pool' = pool \union {t}
    BY <1>3 DEF PoolGrows
  <2>2. IsPaidWith(t) /\ t.nonce >= nextNonce[From[t.order]]
    BY <2>1 DEF IsPaidWith, Accepts
  <2>3. mined' = mined /\ nextNonce' = nextNonce
    BY <1>3 DEF PoolGrows
  <2>4. \A p \in pool' : IsPaidWith(p)' /\ p.nonce >= nextNonce'[From[p.order]]
    BY <1>0, <1>1, <2>1, <2>2, <2>3 DEF Chain
  <2>5. \A p, q \in pool' : SameSlot(p, q) => p = q
    <3>1. \A p \in pool : ~SameSlot(p, t) /\ ~SameSlot(t, p)
      BY <2>1 DEF Accepts, SameSlot
    <3> QED
      BY <1>0, <2>1, <3>1 DEF Chain
  <2>6. \A i \in DOMAIN mined : mined[i] \in SignedTx
    BY <1>0
  <2>7. \A i \in DOMAIN mined' : /\ IsPaidWith(mined[i])'
                                 /\ mined'[i].nonce < nextNonce'[From[mined'[i].order]]
    BY <1>0, <1>1, <2>3, <2>6 DEF Chain
  <2>8. \A i, j \in DOMAIN mined' : SameSlot(mined'[i], mined'[j]) => i = j
    BY <1>0, <2>3 DEF Chain
  <2> QED
    BY <2>4, <2>5, <2>7, <2>8 DEF Chain, SameSlot
<1>4. CASE Mine
  <2>1. PICK t \in pool : /\ t \in SignedTx /\ t.order \in Orders
                          /\ t.nonce = nextNonce[From[t.order]]
                          /\ pool' = pool \ {t}
                          /\ mined'[Len(mined) + 1] = t
                          /\ \A i \in 1..Len(mined) : mined'[i] = mined[i]
                          /\ DOMAIN mined = 1..Len(mined)
                          /\ DOMAIN mined' = 1..(Len(mined) + 1)
                          /\ nextNonce' = [nextNonce EXCEPT ![From[t.order]] = @ + 1]
    BY <1>4, MineAppends
  <2>2. IsPaidWith(t)
    BY <1>0 DEF Chain
  <2>3. Len(mined) \in Nat
    BY <1>0
  <2>4. ASSUME NEW p \in pool'
        PROVE  IsPaidWith(p)' /\ p.nonce >= nextNonce'[From[p.order]]
    <3>1. /\ p \in SignedTx /\ IsPaidWith(p)
          /\ p.nonce >= nextNonce[From[p.order]] /\ ~SameSlot(p, t)
      BY <1>0, <2>1, <2>4 DEF Chain
    <3>2. p.nonce \in Nat /\ p.order \in Orders
      BY <3>1 DEF SignedTx
    <3>3. CASE From[p.order] = From[t.order]
      BY <1>0, <1>1, <2>1, <3>1, <3>2, <3>3 DEF SameSlot
    <3>4. CASE From[p.order] # From[t.order]
      BY <1>0, <1>1, <2>1, <3>1, <3>2, <3>4
    <3> QED
      BY <3>3, <3>4
  <2>5. ASSUME NEW i \in DOMAIN mined'
        PROVE  IsPaidWith(mined[i])' /\ mined'[i].nonce < nextNonce'[From[mined'[i].order]]
    <3>1. CASE i = Len(mined) + 1
      BY <1>0, <1>1, <2>1, <2>2, <3>1 DEF SignedTx
    <3>2. CASE i # Len(mined) + 1
      <4>1. i \in DOMAIN mined /\ mined'[i] = mined[i]
        BY <2>1, <2>3, <2>5, <3>2
      <4>2. /\ mined[i] \in SignedTx /\ IsPaidWith(mined[i])
            /\ mined[i].nonce < nextNonce[From[mined[i].order]]
        BY <1>0, <4>1 DEF Chain
      <4> QED
        BY <1>0, <1>1, <2>1, <4>1, <4>2 DEF SignedTx
    <3> QED
      BY <3>1, <3>2
  <2>6. ASSUME NEW i \in DOMAIN mined', NEW j \in DOMAIN mined', SameSlot(mined'[i], mined'[j])
        PROVE  i = j
    <3>1. ASSUME NEW k \in DOMAIN mined PROVE ~SameSlot(mined[k], t) /\ ~SameSlot(t, mined[k])
      <4>1. mined[k] \in SignedTx /\ mined[k].nonce < nextNonce[From[mined[k].order]]
        BY <1>0, <3>1 DEF Chain
      <4> QED
        BY <1>0, <2>1, <4>1 DEF SameSlot, SignedTx
    <3>2. \A k \in DOMAIN mined' : k = Len(mined) + 1 \/ k \in DOMAIN mined
      BY <2>1, <2>3
    <3> QED
      BY <1>0, <2>1, <2>6, <3>1, <3>2 DEF Chain
  <2>7. \A p, q \in pool' : SameSlot(p, q) => p = q
    BY <1>0, <2>1 DEF Chain
  <2> QED
    BY <2>4, <2>5, <2>6, <2>7 DEF Chain, SameSlot
<1> QED
  BY <1>2, <1>3, <1>4 DEF NodeStep

-----------------------------------------------------------------------------
\* The Notifier.

\* What a step may do to the Notifier: nothing, take up or lay down a letter,
\* post it, or go on marking it.
TakesUp == npc' = "post" /\ letter' = {rows[o].hash : o \in DueNotices} /\ posted' = posted
LaysDown == npc' = "wait" /\ letter' = {} /\ posted' \in {posted, Received}
HasPosted == npc' = "after" /\ letter' = letter /\ posted' = Received

NotifyStep == UNCHANGED notifyVars \/ TakesUp \/ LaysDown \/ HasPosted

\* Every step is one of these for the Notifier.
LEMMA NotifyStepped == [Next]_vars => NotifyStep
<1> SUFFICES ASSUME [Next]_vars PROVE NotifyStep
  OBVIOUS
<1>1. Mine \/ Discover => UNCHANGED notifyVars
  BY DEF Mine, Discover
<1>2. Crash => LaysDown
  BY DEF Crash, LaysDown
<1>3. NotifierTick => TakesUp
  BY DEF NotifierTick, TakesUp
<1>4. Post => HasPosted \/ LaysDown
  BY DEF Post, AfterPostFailure, HasPosted, LaysDown
<1>5. AfterNotify => LaysDown \/ UNCHANGED notifyVars
  BY DEF AfterNotify, LaysDown, notifyVars
<1>6. ASSUME NEW o \in Orders, BuildUnSign(o) \/ BuildSigned(o) PROVE UNCHANGED notifyVars
  BY <1>6 DEF BuildUnSign, BuildSigned
<1>7. ASSUME NEW w \in Workers, WorkerStep(w) \/ WorkerFault(w) PROVE UNCHANGED notifyVars
  BY <1>7 DEF WorkerStep, WorkerTick, Send, Persist, WorkerFault, PersistFails, PersistLostAck
<1>8. UNCHANGED vars => UNCHANGED notifyVars
  BY DEF vars
<1> QED
  BY <1>1, <1>2, <1>3, <1>4, <1>5, <1>6, <1>7, <1>8 DEF Next, NotifierStep, NotifyStep

\* The Notifier's variables are typed after a step, and a letter holds mined
\* transactions only.
LEMMA NotifyType ==
    ASSUME IInv, NotifyStep, NodeStep
    PROVE  /\ npc' \in {"wait", "post", "after"} /\ posted' \subseteq Orders
           /\ letter' \subseteq ToSet(mined')
<1>1. \A o \in DueNotices : rows[o].hash \in ToSet(mined)
  BY DEF DueNotices, IInv, Found, Done
<1>2. letter \subseteq ToSet(mined) /\ posted \subseteq Orders /\ npc \in {"wait", "post", "after"}
  BY DEF IInv, Found, TypeOK
<1>3. letter' \subseteq ToSet(mined)
  BY <1>1, <1>2 DEF NotifyStep, TakesUp, LaysDown, HasPosted, notifyVars
<1>4. posted' \subseteq Orders
  BY <1>2 DEF NotifyStep, TakesUp, LaysDown, HasPosted, Received, notifyVars
<1> QED
  BY <1>2, <1>3, <1>4, MinedGrows DEF NotifyStep, TakesUp, LaysDown, HasPosted, notifyVars

\* A row is done only when its transaction is on the chain.
LEMMA FoundStep == IInv /\ RowSteps /\ NotifyStep /\ NodeStep => Found'
<1> SUFFICES ASSUME IInv, RowSteps, NotifyStep, NodeStep PROVE Found'
  OBVIOUS
<1>1. ASSUME NEW o \in Orders, rows'[o].status \in Done
      PROVE  rows'[o].hash \in ToSet(mined)
  <2>0. rows[o] \in Row /\ RowStep(o)
    BY RowTypes DEF RowSteps, IInv, RowOf
  <2>1. ASSUME NEW status, rows'[o] = [rows[o] EXCEPT !.status = status]
        PROVE  rows'[o].status = status /\ rows'[o].hash = rows[o].hash
    BY <2>0, <2>1 DEF Row
  <2>2. CASE rows'[o] = rows[o]
    BY <1>1, <2>2 DEF IInv, Found
  <2>3. CASE RowBuilt(o)
    BY <1>1, <2>0, <2>3 DEF RowBuilt, Row, Done
  <2>4. ASSUME NEW w \in Workers, o \in list[w],
               rows'[o] = [rows[o] EXCEPT !.status = copy[o].status, !.hash = copy[o].hash]
        PROVE  FALSE
    BY <1>1, <2>0, <2>4 DEF Row, Done, IInv, Frames
  <2> QED
    BY <1>1, <2>0, <2>1, <2>2, <2>3, <2>4 DEF RowStep, RowFound, Done
<1> QED
  BY <1>1, MinedGrows, NotifyType DEF Found

\* A row is marked notified only after its letter was posted.
LEMMA NoticesStep == IInv /\ RowSteps /\ NotifyStep /\ NodeStep => Notices'
<1> SUFFICES ASSUME IInv, RowSteps, NotifyStep, NodeStep PROVE Notices'
  OBVIOUS
<1>1. posted \subseteq posted'
  BY DEF NotifyStep, TakesUp, LaysDown, HasPosted, Received, notifyVars
<1>2. ASSUME NEW o \in Orders, rows'[o].status = "notified"
      PROVE  o \in posted
  <2>0. rows[o] \in Row /\ RowStep(o)
    BY RowTypes DEF RowSteps, IInv, RowOf
  <2>1. ASSUME NEW status, rows'[o] = [rows[o] EXCEPT !.status = status]
        PROVE  rows'[o].status = status
    BY <2>0, <2>1 DEF Row
  <2>2. CASE rows'[o] = rows[o]
    BY <1>2, <2>2 DEF IInv, Notices, NotifiedIsPosted
  <2>3. CASE RowBuilt(o)
    BY <1>2, <2>0, <2>3 DEF RowBuilt, Row
  <2>4. ASSUME NEW w \in Workers, o \in list[w],
               rows'[o] = [rows[o] EXCEPT !.status = copy[o].status, !.hash = copy[o].hash]
        PROVE  FALSE
    BY <1>2, <2>0, <2>4 DEF Row, IInv, Frames
  <2> QED
    BY <1>2, <2>0, <2>1, <2>2, <2>3, <2>4 DEF RowStep, RowFound
<1>3. ASSUME npc' = "after", NEW t \in letter' PROVE t.order \in posted'
  <2>1. CASE HasPosted
    <3>1. t \in letter /\ posted' = Received
      BY <1>3, <2>1 DEF HasPosted
    <3>2. t.order \in Orders
      BY <3>1 DEF IInv, TypeOK, SignedTx
    <3> QED
      BY <3>1, <3>2 DEF Received
  <2> QED
    BY <1>3, <2>1 DEF NotifyStep, TakesUp, LaysDown, notifyVars, IInv, Notices
<1>4. posted' \subseteq {t.order : t \in ToSet(mined')}
  <2>1. Received \subseteq {t.order : t \in ToSet(mined)}
    BY DEF Received, IInv, Found, Notices
  <2>2. posted' \subseteq {t.order : t \in ToSet(mined)}
    BY <2>1 DEF NotifyStep, TakesUp, LaysDown, HasPosted, notifyVars, IInv, Notices
  <2> QED
    BY <2>2, MinedGrows
<1> QED
  BY <1>1, <1>2, <1>3, <1>4 DEF Notices, NotifiedIsPosted

-----------------------------------------------------------------------------
\* The remaining types, and the theorems.

\* Counters, frames and program counters keep their types.
LEMMA ControlType ==
    ASSUME IInv, [Next]_vars, NodeStep
    PROVE  /\ signings' \in [Orders -> Nat] /\ faults' \in Nat
           /\ seen' \in 0..Len(mined')
           /\ wpc' \in [Workers -> {"idle", "send", "persist", "dead"}]
           /\ list' \in [Workers -> SUBSET Orders] /\ todo' \in [Workers -> SUBSET Orders]
<1> USE DEF IInv
<1>0. /\ signings \in [Orders -> Nat] /\ faults \in Nat /\ seen \in 0..Len(mined)
      /\ wpc \in [Workers -> {"idle", "send", "persist", "dead"}]
      /\ list \in [Workers -> SUBSET Orders] /\ todo \in [Workers -> SUBSET Orders]
      /\ Len(mined) \in Nat /\ Len(mined') \in Nat /\ Len(mined') >= Len(mined)
  <2>1. mined \in Seq(SignedTx) /\ mined' \in Seq(SignedTx)
    BY NodeType DEF TypeOK
  <2> QED
    BY <2>1, NodeType DEF TypeOK
<1>1. CASE Mine
  BY <1>0, <1>1 DEF Mine, clientVars, workerVars
<1>2. CASE Discover
  BY <1>0, <1>2 DEF Discover, clientVars, workerVars
<1>3. CASE NotifierStep
  BY <1>0, <1>3 DEF NotifierStep, NotifierTick, Post, AfterNotify, Fault, clientVars, workerVars
<1>4. CASE Crash
  BY <1>0, <1>4 DEF Crash, Fault, InFlight, clientVars
<1>5. ASSUME NEW o \in Orders, BuildUnSign(o) \/ BuildSigned(o)
      PROVE  /\ signings' \in [Orders -> Nat] /\ faults' \in Nat
             /\ UNCHANGED <<seen, wpc, list, todo>>
  BY <1>0, <1>5 DEF BuildUnSign, BuildSigned, Fault, workerVars
<1>6. ASSUME NEW w \in Workers, WorkerStep(w) \/ WorkerFault(w)
      PROVE  /\ UNCHANGED <<signings, seen>> /\ faults' \in Nat
             /\ wpc' \in [Workers -> {"idle", "send", "persist", "dead"}]
             /\ list' \in [Workers -> SUBSET Orders] /\ todo' \in [Workers -> SUBSET Orders]
  <2>0. UnSendList(w) \subseteq Orders
    BY DEF UnSendList, Table, Orders
  <2>1. CASE WorkerTick(w)
    BY <1>0, <2>0, <2>1 DEF WorkerTick, clientVars
  <2>2. CASE Send(w)
    BY <1>0, <2>2 DEF Send, SendAccepted, SendRejected, Fault, clientVars
  <2>3. CASE Persist(w)
    BY <1>0, <2>3 DEF Persist, Forget, clientVars
  <2>4. CASE PersistFails(w)
    BY <1>0, <2>4 DEF PersistFails, AfterFailure, Forget, Fault, clientVars
  <2>5. CASE PersistLostAck(w)
    <3>1. UNCHANGED <<signings, seen>> /\ faults' \in Nat
      BY <1>0, <2>5 DEF PersistLostAck, Fault, clientVars
    <3>2. CASE w = "withdraw"
      BY <1>0, <2>5, <3>1, <3>2 DEF PersistLostAck, Forget
    <3>3. CASE w # "withdraw"
      <4>1. UNCHANGED <<wpc, list, todo>>
        BY <2>5, <3>3 DEF PersistLostAck, workerVars
      <4> QED
        BY <1>0, <3>1, <4>1
    <3> QED
      BY <3>2, <3>3
  <2> QED
    BY <1>6, <2>1, <2>2, <2>3, <2>4, <2>5 DEF WorkerStep, WorkerFault
<1>7. UNCHANGED vars => UNCHANGED <<signings, faults, seen, wpc, list, todo>>
  BY DEF vars, clientVars, workerVars
<1> QED
  BY <1>0, <1>1, <1>2, <1>3, <1>4, <1>5, <1>6, <1>7 DEF Next

\* The invariant holds in the initial state.
LEMMA InitIInv == Init => IInv
<1> SUFFICES ASSUME Init PROVE IInv
  OBVIOUS
<1>1. TypeOK
  BY DEF Init, TypeOK, Row, Status, NoRow, IsOwn, Workers
<1>2. ToSet(mined) = {} /\ DOMAIN mined = {}
  BY DEF Init, ToSet
<1> QED
  BY <1>1, <1>2 DEF Init, IInv, Frames, Signatures, Chain, Found, Notices, NotifiedIsPosted,
                    NoRow, Done

\* The invariant is kept by every step.
LEMMA NextIInv == IInv /\ [Next]_vars => IInv'
<1> SUFFICES ASSUME IInv, [Next]_vars PROVE IInv'
  OBVIOUS
<1>1. RowSteps /\ CopySteps /\ PayloadSteps /\ NodeStep /\ NotifyStep
  BY RowsStep, CopyStepped, PayloadStepped, NodeStepped, NotifyStepped DEF IInv
<1>2. Frames' /\ Signatures' /\ Chain' /\ Found' /\ Notices'
  BY <1>1, FramesStep, SignaturesStep, ChainStep, FoundStep, NoticesStep
<1>3. TypeOK'
  <2>1. RowsOK(rows') /\ RowsOK(copy')
    BY <1>1, RowsType, CopyType DEF IInv
  <2>2. letter' \subseteq SignedTx
    BY <1>1, NotifyType, NodeType DEF ToSet
  <2>3. payload' \in [Orders -> Nat \union {None}]
    BY <1>1, PayloadType
  <2>4. pool' \subseteq SignedTx /\ mined' \in Seq(SignedTx) /\ nextNonce' \in [Address -> Nat]
    BY <1>1, NodeType
  <2>5. npc' \in {"wait", "post", "after"} /\ posted' \subseteq Orders
    BY <1>1, NotifyType
  <2>6. /\ signings' \in [Orders -> Nat] /\ faults' \in Nat /\ seen' \in 0..Len(mined')
        /\ wpc' \in [Workers -> {"idle", "send", "persist", "dead"}]
        /\ list' \in [Workers -> SUBSET Orders] /\ todo' \in [Workers -> SUBSET Orders]
    BY <1>1, ControlType
  <2> QED
    BY <2>1, <2>2, <2>3, <2>4, <2>5, <2>6 DEF TypeOK, RowsOK
<1> QED
  BY <1>2, <1>3 DEF IInv

\* The invariant holds in every behaviour of the workers, the Finder, the
\* Notifier and the node.
THEOREM Invariance == Spec => []IInv
  BY InitIInv, NextIInv, PTL DEF Spec

\* Every row, struct and transaction belongs to its order, whatever the numbers
\* of orders, addresses, repeated signings and failures.
THEOREM OrdersAreTyped == Spec => []TypeOK
<1>1. IInv => TypeOK
  BY DEF IInv
<1> QED
  BY <1>1, Invariance, PTL

\* The chain pays an order at most once, however often it is built signed and
\* sent: all its transactions carry the signature of one payload, the node takes
\* none whose nonce is another, and it mines a nonce of an address once.
THEOREM OrdersArePaidOnce == Spec => []PaidOnce
<1>1. IInv => PaidOnce
  <2> SUFFICES ASSUME IInv, NEW i \in DOMAIN mined, NEW j \in DOMAIN mined,
                      mined[i].order = mined[j].order
               PROVE  i = j
    BY DEF PaidOnce
  <2> QED
    BY DEF IInv, Chain, IsPaidWith, SameSlot
<1> QED
  BY <1>1, Invariance, PTL

\* A row is marked notified only when the business was told, whatever the
\* Notifier loses to crashes, failed posts and failed transactions.
THEOREM NotifiedWasPosted == Spec => []NotifiedIsPosted
<1>1. IInv => NotifiedIsPosted
  BY DEF IInv, Notices
<1> QED
  BY <1>1, Invariance, PTL

-----------------------------------------------------------------------------
\* The implementation of module Payments.

Paid == [i \in DOMAIN mined |-> OrderOf(mined[i])]

\* The orders of the mined transactions are those of the abstract payments.
LEMMA PaidOrders ==
    ASSUME TypeOK
    PROVE  /\ {t.order : t \in ToSet(mined)} = {Paid[i] : i \in DOMAIN Paid}
           /\ Paid \in Seq(Orders)
<1>1. mined \in Seq(SignedTx)
  BY DEF TypeOK
<1>2. \A i \in DOMAIN mined : OrderOf(mined[i]) \in Orders
  <2> SUFFICES ASSUME NEW i \in DOMAIN mined PROVE mined[i].order \in Orders
    BY DEF OrderOf
  <2>1. mined[i] \in SignedTx
    BY <1>1
  <2> QED
    BY <2>1 DEF SignedTx
<1>3. DOMAIN mined = 1..Len(mined) /\ Len(mined) \in Nat
  BY <1>1
<1>4. Paid \in Seq(Orders)
  BY <1>2, <1>3 DEF Paid
<1> QED
  BY <1>4 DEF Paid, OrderOf, ToSet

\* Mine pays an order that has not been paid.
LEMMA MinePays == IInv /\ Mine => Promise!Pay
<1> SUFFICES ASSUME IInv, Mine PROVE Promise!Pay
  OBVIOUS
<1>1. PICK t \in pool : /\ t \in SignedTx /\ t.order \in Orders
                        /\ t.nonce = nextNonce[From[t.order]]
                        /\ mined'[Len(mined) + 1] = t
                        /\ \A i \in 1..Len(mined) : mined'[i] = mined[i]
                        /\ DOMAIN mined = 1..Len(mined)
                        /\ DOMAIN mined' = 1..(Len(mined) + 1)
  BY MineAppends
<1>2. Paid \in Seq(Orders) /\ Len(mined) \in Nat
  BY PaidOrders DEF IInv, TypeOK
<1>3. Len(Paid) = Len(mined) /\ DOMAIN Paid = 1..Len(mined)
  BY <1>1, <1>2 DEF Paid
<1>4. t.order \notin {Paid[i] : i \in DOMAIN Paid}
  <2> SUFFICES ASSUME NEW i \in DOMAIN mined, mined[i].order = t.order PROVE FALSE
    BY <1>1, <1>3 DEF Paid, OrderOf
  <2>1. mined[i] \in SignedTx
    BY DEF IInv, TypeOK
  <2>2. mined[i].nonce = t.nonce /\ mined[i].nonce < nextNonce[From[t.order]]
    BY DEF IInv, Chain, IsPaidWith
  <2>3. t.nonce \in Nat
    BY <1>1 DEF SignedTx
  <2> QED
    BY <1>1, <2>2, <2>3
<1>5. Paid' = Append(Paid, t.order)
  <2>1. Paid' = [i \in 1..(Len(mined) + 1) |-> OrderOf(mined'[i])]
    BY <1>1 DEF Paid
  <2>2. Append(Paid, t.order) \in Seq(Orders) /\ Len(Append(Paid, t.order)) = Len(mined) + 1
    BY <1>1, <1>2, <1>3
  <2>3. DOMAIN Append(Paid, t.order) = 1..(Len(mined) + 1)
    BY <2>2
  <2>4. \A i \in 1..(Len(mined) + 1) : Append(Paid, t.order)[i] = OrderOf(mined'[i])
    <3> SUFFICES ASSUME NEW i \in 1..(Len(mined) + 1)
                 PROVE  Append(Paid, t.order)[i] = OrderOf(mined'[i])
      OBVIOUS
    <3>1. CASE i = Len(mined) + 1
      BY <1>1, <1>2, <1>3, <3>1 DEF OrderOf
    <3>2. CASE i # Len(mined) + 1
      <4>1. i \in 1..Len(mined)
        BY <1>2, <3>2
      <4>2. Append(Paid, t.order)[i] = Paid[i]
        BY <1>2, <1>3, <4>1
      <4> QED
        BY <1>1, <4>1, <4>2 DEF Paid
    <3> QED
      BY <3>1, <3>2
  <2> QED
    BY <2>1, <2>2, <2>3, <2>4
<1>6. posted' = posted
  BY DEF Mine, notifyVars
<1> QED
  BY <1>1, <1>4, <1>5, <1>6 DEF Promise!Pay, Promise!ToSet, Paid

\* What the business is told of has been paid.
LEMMA NotifyReports ==
    ASSUME IInv, NotifyStep, UNCHANGED mined
    PROVE  Promise!Next \/ UNCHANGED Promise!payVars
<1>1. Paid' = Paid
  BY DEF Paid
<1>2. CASE posted' = posted
  BY <1>1, <1>2 DEF Promise!payVars, Paid
<1>3. CASE posted' = Received
  <2> DEFINE told == {o \in Orders : \E t \in letter : t.order = o}
  <2>1. told \subseteq {Paid[i] : i \in DOMAIN Paid}
    BY PaidOrders DEF IInv, Found
  <2>2. told \in SUBSET {Paid[i] : i \in DOMAIN Paid} /\ posted' = posted \union told
    BY <1>3, <2>1 DEF Received
  <2> QED
    BY <1>1, <2>2 DEF Promise!Next, Promise!Report, Promise!ToSet, Paid
<1> QED
  BY <1>2, <1>3 DEF NotifyStep, TakesUp, LaysDown, HasPosted, notifyVars

\* The orders of a business are paid at most once and reported only when they
\* have been paid: the workers, the Finder, the Notifier and the node together
\* implement module Payments.
THEOREM OrdersImplementPayments == Spec => ImplementsPayments
<1>1. Init => Promise!Init
  <2> SUFFICES ASSUME Init PROVE Promise!Init
    OBVIOUS
  <2>1. Paid = <<>>
    BY DEF Init, Paid
  <2> QED
    BY <2>1 DEF Init, Promise!Init, Paid
<1>2. IInv /\ [Next]_vars => [Promise!Next]_(Promise!payVars)
  <2> SUFFICES ASSUME IInv, [Next]_vars PROVE Promise!Next \/ UNCHANGED Promise!payVars
    OBVIOUS
  <2>1. CASE Mine
    BY <2>1, MinePays DEF Promise!Next
  <2>2. CASE UNCHANGED mined
    BY <2>2, NotifyStepped, NotifyReports
  <2> QED
    BY <2>1, <2>2, NodeStepped DEF NodeStep, PoolGrows, nodeVars
<1> QED
  BY <1>1, <1>2, Invariance, PTL DEF Spec, ImplementsPayments, Promise!Spec

-----------------------------------------------------------------------------
\* A withdrawal that is built signed once.

\* Before it is signed it is not in flight; from then on it is signed, without a
\* hash, for as long as the worker has it in its list; a struct that was not sent
\* has no hash either.
SignedOnce(o) ==
    /\ signings[o] = 0 => rows[o].status \in {"none", "create_unsign"} /\ rows[o].hash = None
    /\ signings[o] <= 1 =>
           /\ rows[o].status = "signed" => rows[o].hash = None
           /\ o \in list["withdraw"] =>
                  /\ rows[o].status = "signed"
                  /\ copy[o].status = "signed" => copy[o].hash = None

\* It stays so when its row does and the worker gets on with it or drops it.
LEMMA OnceKept ==
    ASSUME NEW o \in Withdrawals, SignedOnce(o),
           rows'[o] = rows[o], signings'[o] = signings[o],
           \/ o \notin list'["withdraw"]
           \/ /\ o \in list["withdraw"]
              /\ copy'[o] = copy[o] \/ copy'[o].status = "broadcasted"
    PROVE  SignedOnce(o)'
BY DEF SignedOnce

\* So it does when the Finder or the Notifier marks it by its hash.
LEMMA OnceMarked ==
    ASSUME IInv, NEW o \in Withdrawals, SignedOnce(o),
           NEW hashes \in SUBSET ToSet(mined), NEW status \in {"wallet_done", "notified"},
           rows' = StatusByHash(hashes, status), signings' = signings, list' = list, copy' = copy
    PROVE  SignedOnce(o)'
<1>0. rows[o] \in Row /\ o \in Orders /\ signings[o] \in Nat
  BY DEF IInv, TypeOK, Orders
<1>1. None \notin hashes
  BY DEF IInv, TypeOK, ToSet
<1>2. CASE rows[o].hash \notin hashes
  <2>1. rows'[o] = rows[o]
    BY <1>0, <1>2 DEF StatusByHash
  <2> QED
    BY <2>1, OnceKept
<1>3. CASE rows[o].hash \in hashes
  <2>1. rows'[o].status = status /\ rows[o].hash # None
    BY <1>0, <1>1, <1>3 DEF StatusByHash, Row
  <2> QED
    BY <1>0, <2>1 DEF SignedOnce
<1> QED
  BY <1>2, <1>3

\* And when the worker writes its list back, which ends its work on the list.
LEMMA OncePersisted ==
    ASSUME IInv, NEW o \in Withdrawals, SignedOnce(o),
           rows' = Persisted("withdraw"), signings' = signings, list'["withdraw"] = {}
    PROVE  SignedOnce(o)'
<1>0. rows[o] \in Row /\ copy[o] \in Row /\ o \in Orders /\ signings[o] \in Nat
  BY DEF IInv, TypeOK, Orders
<1>1. CASE o \notin list["withdraw"]
  <2>1. rows'[o] = rows[o]
    BY <1>0, <1>1 DEF Persisted
  <2> QED
    BY <2>1, OnceKept
<1>2. CASE o \in list["withdraw"]
  <2>1. rows'[o].status = copy[o].status /\ rows'[o].hash = copy[o].hash
    BY <1>0, <1>2 DEF Persisted, Row
  <2> QED
    BY <1>0, <1>2, <2>1 DEF SignedOnce
<1> QED
  BY <1>1, <1>2

\* Every step keeps it.
LEMMA OnceStep ==
    ASSUME IInv, [Next]_vars, NEW o \in Withdrawals, SignedOnce(o)
    PROVE  SignedOnce(o)'
<1>0. /\ rows \in [Orders -> Row] /\ copy \in [Orders -> Row] /\ o \in Orders
      /\ signings \in [Orders -> Nat] /\ list \in [Workers -> SUBSET Orders]
      /\ todo \in [Workers -> SUBSET Orders]
      /\ "withdraw" \in Workers /\ "internal" \in Workers
      /\ o \notin list["internal"] /\ \A w \in Workers : w # "internal" => w = "withdraw"
  BY DEF IInv, TypeOK, Orders, Frames, Table, Workers
<1>1. ASSUME UNCHANGED <<rows, signings, list, copy>> PROVE SignedOnce(o)'
  BY <1>1 DEF SignedOnce
<1>2. CASE Mine \/ NotifierTick \/ Post \/ UNCHANGED vars
  BY <1>1, <1>2 DEF Mine, NotifierTick, Post, vars, clientVars, workerVars
<1>3. CASE Discover
  <2>1. mined[seen + 1] \in ToSet(mined)
    BY <1>3 DEF Discover, IInv, TypeOK, ToSet
  <2> QED
    BY <1>3, <2>1, OnceMarked DEF Discover, clientVars, workerVars
<1>4. CASE AfterNotify
  <2>1. letter \in SUBSET ToSet(mined)
    BY DEF IInv, Found
  <2> QED
    BY <1>1, <1>4, <2>1, OnceMarked DEF AfterNotify, NotifiedRows, clientVars, workerVars
<1>5. CASE Crash
  BY <1>0, <1>5, OnceKept DEF Crash, clientVars
<1>6. ASSUME NEW p \in Orders, BuildUnSign(p) PROVE SignedOnce(o)'
  <2>1. /\ UNCHANGED <<signings, list, copy>>
        /\ rows' = [rows EXCEPT ![p] = [rows[p] EXCEPT !.status = "create_unsign"]]
        /\ rows[p].status = "none"
    BY <1>6 DEF BuildUnSign, workerVars
  <2>2. CASE p = o
    <3>1. rows'[o].status = "create_unsign" /\ rows'[o].hash = rows[o].hash
      BY <1>0, <2>1, <2>2 DEF Row
    <3> QED
      BY <2>1, <2>2, <3>1 DEF SignedOnce
  <2>3. CASE p # o
    BY <1>0, <2>1, <2>3, OnceKept
  <2> QED
    BY <2>2, <2>3
<1>7. ASSUME NEW p \in Orders, BuildSigned(p) PROVE SignedOnce(o)'
  <2>1. PICK n \in Nat : rows' = [rows EXCEPT ![p] = [rows[p] EXCEPT !.status = "signed",
                                                              !.tx = BuildSignedTx(p, n)]]
    BY <1>7, SequencesType DEF BuildSigned, IInv
  <2>2. signings' = [signings EXCEPT ![p] = signings[p] + 1] /\ UNCHANGED <<list, copy>>
    BY <1>7 DEF BuildSigned, workerVars
  <2>3. CASE p = o
    <3>1. rows'[o].hash = rows[o].hash /\ signings'[o] = signings[o] + 1
      BY <1>0, <2>1, <2>2, <2>3 DEF Row
    <3>2. signings'[o] <= 1 => signings[o] = 0
      BY <1>0, <3>1
    <3>3. signings'[o] # 0
      BY <1>0, <3>1
    <3> QED
      BY <2>2, <3>1, <3>2, <3>3 DEF SignedOnce
  <2>4. CASE p # o
    BY <1>0, <2>1, <2>2, <2>4, OnceKept
  <2> QED
    BY <2>3, <2>4
<1>8. ASSUME NEW w \in Workers, WorkerTick(w) PROVE SignedOnce(o)'
  <2>1. /\ UNCHANGED <<rows, signings>>
        /\ list' = [list EXCEPT ![w] = UnSendList(w)]
        /\ copy'[o] = IF o \in UnSendList(w) THEN rows[o] ELSE copy[o]
    BY <1>0, <1>8 DEF WorkerTick, clientVars
  <2>2. CASE o \in UnSendList("withdraw") /\ w = "withdraw"
    BY <1>0, <2>1, <2>2 DEF SignedOnce, UnSendList
  <2>3. CASE w = "withdraw" /\ o \notin UnSendList("withdraw")
    BY <1>0, <2>1, <2>3, OnceKept
  <2>4. CASE w = "internal"
    <3>1. o \notin UnSendList(w)
      BY <2>4 DEF UnSendList, Table
    <3> QED
      BY <1>0, <2>1, <2>4, <3>1, OnceKept
  <2> QED
    BY <1>0, <2>2, <2>3, <2>4
<1>9. ASSUME NEW w \in Workers, Send(w) PROVE SignedOnce(o)'
  <2>1. PICK p \in todo[w] : SendAccepted(p) \/ SendRejected(p)
    BY <1>9 DEF Send
  <2>2. UNCHANGED <<rows, signings, list>>
    BY <1>9 DEF Send, clientVars
  <2>3. UNCHANGED copy \/ \E h : Broadcasted(p, h)
    BY <2>1 DEF SendAccepted, SendRejected
  <2>4. copy'[o] = copy[o] \/ copy'[o].status = "broadcasted"
    <3>1. ASSUME NEW h, Broadcasted(p, h)
          PROVE  copy'[o] = copy[o] \/ copy'[o].status = "broadcasted"
      <4>1. copy' = [copy EXCEPT ![p] = [copy[p] EXCEPT !.status = "broadcasted", !.hash = h]]
        BY <3>1 DEF Broadcasted
      <4>2. copy[o] \in Row
        BY <1>0
      <4> QED
        BY <1>0, <4>1, <4>2 DEF Row
    <3> QED
      BY <2>3, <3>1
  <2> QED
    BY <2>2, <2>4, OnceKept
<1>10. ASSUME NEW w \in Workers, Forget(w), signings' = signings,
              rows' = Persisted(w) \/ UNCHANGED rows
       PROVE  SignedOnce(o)'
  <2>1. CASE w = "withdraw"
    <3>1. list'["withdraw"] = {}
      BY <1>0, <1>10, <2>1 DEF Forget
    <3> QED
      BY <1>10, <2>1, <3>1, OncePersisted, OnceKept
  <2>2. CASE w = "internal"
    <3>1. rows'[o] = rows[o]
      BY <1>0, <1>10, <2>2 DEF Persisted
    <3>2. list'["withdraw"] = list["withdraw"] /\ copy'[o] = copy[o]
      BY <1>0, <1>10, <2>2 DEF Forget
    <3> QED
      BY <1>10, <3>1, <3>2, OnceKept
  <2> QED
    BY <1>0, <2>1, <2>2
<1>11. ASSUME NEW w \in Workers, Persist(w) \/ WorkerFault(w) PROVE SignedOnce(o)'
  <2>1. CASE Forget(w)
    BY <1>10, <1>11, <2>1 DEF Persist, WorkerFault, PersistFails, PersistLostAck, clientVars
  <2>2. CASE PersistLostAck("internal") /\ UNCHANGED workerVars
    <3>1. rows'[o] = rows[o] /\ UNCHANGED <<signings, list, copy>>
      BY <1>0, <2>2 DEF PersistLostAck, Persisted, clientVars, workerVars
    <3> QED
      BY <3>1, OnceKept
  <2> QED
    BY <1>0, <1>11, <2>1, <2>2 DEF Persist, WorkerFault, PersistFails, PersistLostAck
<1> QED
  BY <1>2, <1>3, <1>4, <1>5, <1>6, <1>7, <1>8, <1>9, <1>11
     DEF Next, NotifierStep, WorkerStep

\* An order is never built signed less often than it was.
LEMMA SigningsGrow ==
    ASSUME TypeOK, [Next]_vars, NEW o \in Orders
    PROVE  signings[o] <= signings'[o]
<1>0. signings \in [Orders -> Nat]
  BY DEF TypeOK
<1>1. CASE UNCHANGED signings
  BY <1>0, <1>1
<1>2. ASSUME NEW p \in Orders, BuildSigned(p) PROVE signings[o] <= signings'[o]
  BY <1>0, <1>2 DEF BuildSigned
<1>3. ASSUME NEW p \in Orders, BuildUnSign(p) PROVE UNCHANGED signings
  BY <1>3 DEF BuildUnSign
<1>4. ASSUME NEW w \in Workers, WorkerStep(w) \/ WorkerFault(w) PROVE UNCHANGED signings
  BY <1>4 DEF WorkerStep, WorkerTick, Send, Persist, WorkerFault, PersistFails,
              PersistLostAck, clientVars
<1>5. Mine \/ Discover \/ NotifierStep \/ Crash \/ UNCHANGED vars => UNCHANGED signings
  BY DEF Mine, Discover, NotifierStep, NotifierTick, Post, AfterNotify, Crash, vars, clientVars
<1> QED
  BY <1>1, <1>2, <1>3, <1>4, <1>5 DEF Next

\* Every withdrawal is in such a state in every behaviour.
LEMMA AlwaysSignedOnce == Spec => [](IInv /\ \A o \in Withdrawals : SignedOnce(o))
<1>1. Init => \A o \in Withdrawals : SignedOnce(o)
  BY DEF Init, SignedOnce, NoRow, Orders, Workers
<1>2. /\ IInv /\ \A o \in Withdrawals : SignedOnce(o)
      /\ [Next]_vars
      => (\A o \in Withdrawals : SignedOnce(o))'
  BY OnceStep
<1> QED
  BY <1>1, <1>2, InitIInv, NextIInv, PTL DEF Spec

\* A withdrawal built signed once stays done, for any number of withdrawals and
\* failures: what a worker writes back is of rows that are not done, for a row is
\* listed only while it is signed and is signed only before it has a hash
\* (worker/withdraw.go:57-97).
THEOREM DoneIsForGood == Spec => DoneStaysDone
<1>1. ASSUME IInv, \A o \in Withdrawals : SignedOnce(o), [Next]_vars, NEW o \in Withdrawals,
             signings'[o] <= 1, rows[o].status \in Done
      PROVE  rows'[o].status \in Done
  <2>0. /\ o \in Orders /\ rows[o] \in Row /\ signings[o] \in Nat /\ SignedOnce(o)
        /\ SignedOnce(o)'
    BY <1>1, OnceStep DEF IInv, TypeOK, Orders
  <2>1. rows[o].hash # None
    <3>1. None \notin ToSet(mined)
      BY <1>1 DEF IInv, TypeOK, ToSet
    <3> QED
      BY <1>1, <2>0, <3>1 DEF IInv, Found
  <2>2. RowStep(o)
    BY <1>1, <2>0, RowsStep DEF RowSteps
  <2>3. ASSUME NEW n \in Nat,
               rows'[o] = [rows[o] EXCEPT !.status = "signed", !.tx = BuildSignedTx(o, n)]
        PROVE  FALSE
    <3>1. rows'[o].status = "signed" /\ rows'[o].hash = rows[o].hash
      BY <2>0, <2>3 DEF Row
    <3> QED
      BY <1>1, <2>0, <2>1, <3>1 DEF SignedOnce
  <2>4. CASE RowFound(o, "wallet_done") \/ RowFound(o, "notified")
    BY <2>0, <2>4 DEF RowFound, Row, Done
  <2>5. signings[o] <= 1
    <3>1. signings[o] <= signings'[o] /\ signings'[o] <= 1
      BY <1>1, <2>0, SigningsGrow DEF IInv
    <3>2. signings'[o] \in Nat
      BY <1>1, <2>0, NextIInv DEF IInv, TypeOK
    <3> QED
      BY <2>0, <3>1, <3>2
  <2>6. ASSUME NEW w \in Workers, o \in list[w] PROVE FALSE
    <3>1. w = "withdraw"
      BY <1>1, <2>0, <2>6 DEF IInv, Frames, Table, Workers
    <3> QED
      BY <1>1, <2>0, <2>5, <2>6, <3>1 DEF SignedOnce, Done
  <2> QED
    BY <1>1, <2>2, <2>3, <2>4, <2>6 DEF RowStep, RowBuilt, Done
<1>2. ASSUME IInv, \A o \in Withdrawals : SignedOnce(o), [Next]_vars
      PROVE  [\A o \in Withdrawals : signings'[o] <= 1 /\ rows[o].status \in Done
                                          => rows'[o].status \in Done]_vars
  BY <1>1, <1>2
<1> QED
  BY <1>2, AlwaysSignedOnce, PTL DEF Spec, DoneStaysDone

=============================================================================
