------------------------------ MODULE Outbound ------------------------------
(***************************************************************************)
(* The orders a business hands to the wallet: withdrawals and internal     *)
(* transfers (collection, hot to cold, cold to hot) of one business, from  *)
(* the request for an unsigned transaction (services/handler.go) over the  *)
(* workers that send it (worker/withdraw.go, worker/internal.go) to its    *)
(* discovery by the Finder and the notification (worker/notifier.go).      *)
(*                                                                         *)
(* The chain mines what the node has accepted, one transaction per address *)
(* and nonce; mined holds what is confirmed and reaches the Finder once    *)
(* and in order, which is what module BlockFeed promises.  Balances and    *)
(* rollbacks are not part of this module: a fallback marks rows by a block *)
(* number that the rows of orders never get (todo of finder.go:254,262).   *)
(***************************************************************************)
EXTENDS Integers, SequencesExt

CONSTANTS
    Withdrawals,   \* guids of rows of withdraws_<business>
    Internals,     \* guids of rows of internals_<business>
    Address,       \* sending addresses
    From,          \* From[o] is the sending address of order o
    MaxSignings,   \* bound: times the business asks to build an order signed
    Faults,        \* kinds of failure the environment may inject
    MaxFaults,     \* bound: number of failures injected
    None           \* no transaction; as a hash, the zero hash

Orders == Withdrawals \union Internals
Workers == {"withdraw", "internal"}
Table(w) == IF w = "withdraw" THEN Withdrawals ELSE Internals

\* A transaction with the nonce it was built with and the nonce of the payload
\* its signature was made for.  It stands for its hash as well.
SignedTx == [order : Orders, nonce : Nat, signature : Nat]

ASSUME OutboundAssumption ==
    /\ Withdrawals \intersect Internals = {}
    /\ From \in [Orders -> Address]
    /\ MaxSignings \in Nat /\ MaxFaults \in Nat
    /\ Faults \subseteq {"rpc_error", "rpc_lost", "code_error", "db_error",
                         "lost_ack", "notify_error", "crash"}
    /\ None \notin SignedTx /\ None \notin Nat

VARIABLES
    rows,          \* tables withdraws and internals, status "none" without a row
    payload,       \* nonce of the payload the business has signed, or None
    signings,      \* times it has asked to build the order signed
    pool,          \* transactions the node has accepted and not mined yet
    mined,         \* transactions of the confirmed chain, in order
    nextNonce,     \* nonce of an address on the chain
    seen,          \* number of mined transactions the Finder is past
    wpc,           \* what each worker is about to do
    list,          \* frame of a worker: rows it is working on
    todo,          \* frame of a worker: rows it has still to send
    copy,          \* frame of the workers: the structs of the rows
    npc,           \* what the Notifier is about to do
    letter,        \* frame of the Notifier: hashes to notify
    posted,        \* orders the business has received a notification of
    faults         \* failures injected so far

clientVars == <<payload, signings>>
nodeVars == <<pool, mined, nextNonce>>
workerVars == <<wpc, list, todo, copy>>
notifyVars == <<npc, letter, posted>>
vars == <<rows, clientVars, nodeVars, seen, workerVars, notifyVars, faults>>

Fault(kind) ==
    /\ kind \in Faults
    /\ faults < MaxFaults
    /\ faults' = faults + 1

NoRow == [status |-> "none", tx |-> None, hash |-> None]

Init ==
    /\ rows = [o \in Orders |-> NoRow]
    /\ payload = [o \in Orders |-> None]
    /\ signings = [o \in Orders |-> 0]
    /\ pool = {} /\ mined = <<>>
    /\ nextNonce = [a \in Address |-> 0]
    /\ seen = 0
    /\ wpc = [w \in Workers |-> "idle"]
    /\ list = [w \in Workers |-> {}] /\ todo = [w \in Workers |-> {}]
    /\ copy = [o \in Orders |-> NoRow]
    /\ npc = "wait" /\ letter = {} /\ posted = {}
    /\ faults = 0

-----------------------------------------------------------------------------
\* The node.

SameSlot(t, u) == From[t.order] = From[u.order] /\ t.nonce = u.nonce

\* A signature made for another nonce recovers to another, penniless sender.
Accepts(t) ==
    /\ t.nonce = t.signature
    /\ t.nonce >= nextNonce[From[t.order]]
    /\ \A p \in pool : ~SameSlot(p, t)

\* GetAccount: the node counts the transactions of its pool or leaves them out.
Sequences(a) ==
    {nextNonce[a]} \union {p.nonce + 1 : p \in {q \in pool : From[q.order] = a}}

Mine ==
    /\ \E t \in pool :
           /\ t.nonce = nextNonce[From[t.order]]
           /\ mined' = Append(mined, t)
           /\ pool' = pool \ {t}
           /\ nextNonce' = [nextNonce EXCEPT ![From[t.order]] = @ + 1]
    /\ UNCHANGED <<rows, clientVars, seen, workerVars, notifyVars, faults>>

-----------------------------------------------------------------------------
\* The services.  A handler reads the nonce and writes the row in two calls,
\* taken in one step: a nonce that goes stale in between has the effect of one
\* that goes stale after the write.

\* BuildUnSignTransaction: the row is stored before the node builds the payload;
\* if the node fails then, the business never learns the id of the row.
BuildUnSign(o) ==
    /\ rows[o].status = "none"
    /\ rows' = [rows EXCEPT ![o].status = "create_unsign"]
    /\ \/ \E n \in Sequences(From[o]) : payload' = [payload EXCEPT ![o] = n]
          /\ UNCHANGED faults
       \/ Fault("rpc_error") /\ UNCHANGED payload
    /\ UNCHANGED <<signings, nodeVars, seen, workerVars, notifyVars>>

\* Mutant: the wallet signs the transaction it has built itself.
BuildSignedTxSelfSigned(o, n) == [order |-> o, nonce |-> n, signature |-> n]

\* The transaction is built anew, with the nonce the account has now.
BuildSignedTx(o, n) == [order |-> o, nonce |-> n, signature |-> payload[o]]

\* BuildSignedTransaction, whatever the status of the row.  The business may
\* repeat the call, for instance after a reply that was lost.
BuildSigned(o) ==
    /\ payload[o] # None
    /\ signings[o] < MaxSignings
    /\ signings' = [signings EXCEPT ![o] = @ + 1]
    /\ \E n \in Sequences(From[o]) :
           rows' = [rows EXCEPT ![o].status = "signed",
                                ![o].tx = BuildSignedTx(o, n)]
    /\ UNCHANGED <<payload, nodeVars, seen, workerVars, notifyVars, faults>>

-----------------------------------------------------------------------------
\* The workers: Withdraw and Internal, the same loop over two tables.

Forget(w) ==
    /\ list' = [list EXCEPT ![w] = {}]
    /\ todo' = [todo EXCEPT ![w] = {}]
    /\ copy' = [o \in Orders |-> IF o \in list[w] THEN NoRow ELSE copy[o]]

\* Mutant: broadcast rows are sent again until they are done.
UnSendListAgain(w) ==
    {o \in Table(w) : rows[o].status \in {"signed", "broadcasted"}}

\* UnSendWithdrawsList, UnSendInternalsList
UnSendList(w) == {o \in Table(w) : rows[o].status = "signed"}

WorkerTick(w) ==
    /\ wpc[w] = "idle"
    /\ UnSendList(w) # {}
    /\ list' = [list EXCEPT ![w] = UnSendList(w)]
    /\ todo' = [todo EXCEPT ![w] = UnSendList(w)]
    /\ copy' = [o \in Orders |-> IF o \in UnSendList(w) THEN rows[o] ELSE copy[o]]
    /\ wpc' = [wpc EXCEPT ![w] = "send"]
    /\ UNCHANGED <<rows, clientVars, nodeVars, seen, notifyVars, faults>>

\* SendTx has returned without an error: the struct takes the hash it returned.
Broadcasted(o, hash) ==
    copy' = [copy EXCEPT ![o].status = "broadcasted", ![o].hash = hash]

\* Replies of SendTx.  An error code is not an error: it comes with hash "".
SendAccepted(o) ==
    /\ Accepts(copy[o].tx)
    /\ pool' = pool \union {copy[o].tx}
    /\ \/ Broadcasted(o, copy[o].tx) /\ UNCHANGED faults
       \/ UNCHANGED copy /\ Fault("rpc_lost")

SendRejected(o) ==
    /\ \/ ~Accepts(copy[o].tx) /\ (UNCHANGED copy \/ Broadcasted(o, None))
          /\ UNCHANGED faults
       \/ UNCHANGED copy /\ Fault("rpc_error")
       \/ Broadcasted(o, None) /\ Fault("code_error")
    /\ UNCHANGED pool

Send(w) ==
    /\ wpc[w] = "send"
    /\ \E o \in todo[w] :
           /\ SendAccepted(o) \/ SendRejected(o)
           /\ todo' = [todo EXCEPT ![w] = @ \ {o}]
           /\ wpc' = IF todo[w] = {o} THEN [wpc EXCEPT ![w] = "persist"] ELSE wpc
    /\ UNCHANGED <<rows, clientVars, mined, nextNonce, seen, list, notifyVars>>

\* UpdateWithdrawListById, UpdateInternalListById: status and hash of every
\* row of the list, sent or not, as they stand in the structs.
Persisted(w) ==
    [o \in Orders |-> IF o \in list[w]
                      THEN [rows[o] EXCEPT !.status = copy[o].status,
                                           !.hash = copy[o].hash]
                      ELSE rows[o]]

Persist(w) ==
    /\ wpc[w] = "persist"
    /\ rows' = Persisted(w)
    /\ wpc' = [wpc EXCEPT ![w] = "idle"]
    /\ Forget(w)
    /\ UNCHANGED <<clientVars, nodeVars, seen, notifyVars, faults>>

\* Mutant: both workers hand the failure on, which ends the goroutine.
AfterFailureDies(w) == "dead"

\* Withdraw swallows the failure of its transaction (return err, nil); Internal
\* retries it and returns from the goroutine after ten attempts.
AfterFailure(w) == IF w = "withdraw" THEN "idle" ELSE "dead"

PersistFails(w) ==
    /\ wpc[w] = "persist"
    /\ Fault("db_error")
    /\ wpc' = [wpc EXCEPT ![w] = AfterFailure(w)]
    /\ Forget(w)
    /\ UNCHANGED <<rows, clientVars, nodeVars, seen, notifyVars>>

\* The transaction commits but the reply is lost, and Internal tries again.
PersistLostAck(w) ==
    /\ wpc[w] = "persist"
    /\ Fault("lost_ack")
    /\ rows' = Persisted(w)
    /\ IF w = "withdraw"
       THEN wpc' = [wpc EXCEPT ![w] = "idle"] /\ Forget(w)
       ELSE UNCHANGED workerVars
    /\ UNCHANGED <<clientVars, nodeVars, seen, notifyVars>>

-----------------------------------------------------------------------------
\* The Finder: UpdateWithdrawStatusByTxHash and UpdateInternalStatusByTxHash,
\* which update no row when none has the hash.
StatusByHash(hashes, status) ==
    [o \in Orders |-> IF rows[o].hash \in hashes
                      THEN [rows[o] EXCEPT !.status = status] ELSE rows[o]]

Discover ==
    /\ seen < Len(mined)
    /\ rows' = StatusByHash({mined[seen + 1]}, "wallet_done")
    /\ seen' = seen + 1
    /\ UNCHANGED <<clientVars, nodeVars, workerVars, notifyVars, faults>>

-----------------------------------------------------------------------------
\* The Notifier.

\* Mutant: a notification of broadcast orders, as they had been paid.
DueNoticesEarly ==
    {o \in Orders : rows[o].status \in {"broadcasted", "wallet_done"} /\ rows[o].hash # None}

\* QueryNotifyWithdraws and QueryNotifyInternal
DueNotices == {o \in Orders : rows[o].status = "wallet_done"}

NotifierTick ==
    /\ npc = "wait"
    /\ DueNotices # {}
    /\ letter' = {rows[o].hash : o \in DueNotices}
    /\ npc' = "post"
    /\ UNCHANGED <<rows, clientVars, nodeVars, seen, workerVars, posted, faults>>

Received == posted \union {o \in Orders : \E t \in letter : t.order = o}

\* Mutant: AfterNotify whatever the answer.
AfterPostFailureMarks == npc' = "after" /\ UNCHANGED letter

\* Without success AfterNotify returns at once; the next tick starts afresh.
AfterPostFailure == npc' = "wait" /\ letter' = {}

\* The POST, its answer, and a failure before or after it reached the business.
Post ==
    /\ npc = "post"
    /\ \/ posted' = Received /\ npc' = "after" /\ UNCHANGED <<letter, faults>>
       \/ posted' \in {posted, Received} /\ AfterPostFailure /\ Fault("notify_error")
    /\ UNCHANGED <<rows, clientVars, nodeVars, seen, workerVars>>

\* Mutant: internal transfers are left out.
NotifiedRowsWithdraws ==
    [o \in Orders |-> IF o \in Withdrawals /\ rows[o].hash \in letter
                      THEN [rows[o] EXCEPT !.status = "notified"] ELSE rows[o]]

NotifiedRows == StatusByHash(letter, "notified")

\* One transaction of up to ten attempts, whose failure is only logged.
AfterNotify ==
    /\ npc = "after"
    /\ \/ rows' = NotifiedRows /\ npc' = "wait" /\ letter' = {} /\ UNCHANGED faults
       \/ rows' = NotifiedRows /\ UNCHANGED <<npc, letter>> /\ Fault("lost_ack")
       \/ UNCHANGED rows /\ npc' = "wait" /\ letter' = {} /\ Fault("db_error")
    /\ UNCHANGED <<clientVars, nodeVars, seen, workerVars, posted>>

-----------------------------------------------------------------------------
\* What a crash takes from the Finder is the batch in its hands, if it has one.
InFlight == {seen, IF seen < Len(mined) THEN seen + 1 ELSE seen}

\* The process dies and is started again with what the database holds.
Crash ==
    /\ Fault("crash")
    /\ wpc' = [w \in Workers |-> "idle"]
    /\ list' = [w \in Workers |-> {}] /\ todo' = [w \in Workers |-> {}]
    /\ copy' = [o \in Orders |-> NoRow]
    /\ npc' = "wait" /\ letter' = {}
    /\ seen' \in InFlight
    /\ UNCHANGED <<rows, clientVars, nodeVars, posted>>

WorkerStep(w) == WorkerTick(w) \/ Send(w) \/ Persist(w)
WorkerFault(w) == PersistFails(w) \/ PersistLostAck(w)
NotifierStep == NotifierTick \/ Post \/ AfterNotify

Next ==
    \/ Mine \/ Discover \/ NotifierStep \/ Crash
    \/ \E o \in Orders : BuildUnSign(o) \/ BuildSigned(o)
    \/ \E w \in Workers : WorkerStep(w) \/ WorkerFault(w)

Spec == Init /\ [][Next]_vars

\* The workers and the Notifier run on tickers, the Finder on its channel.
Fairness ==
    /\ \A w \in Workers : WF_vars(WorkerStep(w))
    /\ WF_vars(Discover)
    /\ WF_vars(NotifierStep)

FairSpec == Spec /\ Fairness

-----------------------------------------------------------------------------
\* Type correctness: every row, struct and transaction belongs to its order,
\* and the Finder is never past the end of the chain.
Status == {"none", "create_unsign", "signed", "broadcasted", "wallet_done",
           "notified"}
Row == [status : Status, tx : SignedTx \union {None}, hash : SignedTx \union {None}]
IsOwn(t, o) == t # None => t.order = o

TypeOK ==
    /\ rows \in [Orders -> Row] /\ copy \in [Orders -> Row]
    /\ \A o \in Orders : /\ IsOwn(rows[o].tx, o) /\ IsOwn(rows[o].hash, o)
                         /\ IsOwn(copy[o].tx, o) /\ IsOwn(copy[o].hash, o)
    /\ payload \in [Orders -> Nat \union {None}]
    /\ signings \in [Orders -> Nat]
    /\ pool \subseteq SignedTx /\ mined \in Seq(SignedTx)
    /\ nextNonce \in [Address -> Nat]
    /\ seen \in 0..Len(mined)
    /\ wpc \in [Workers -> {"idle", "send", "persist", "dead"}]
    /\ list \in [Workers -> SUBSET Orders] /\ todo \in [Workers -> SUBSET Orders]
    /\ npc \in {"wait", "post", "after"}
    /\ letter \subseteq SignedTx
    /\ posted \subseteq Orders
    /\ faults \in Nat

\* However often an order is built signed and sent again, after crashes, lost
\* replies and failed transactions, the chain pays it at most once.
PaidOnce ==
    \A i, j \in DOMAIN mined : mined[i].order = mined[j].order => i = j

\* A row is marked notified only when the business has had the notification.
NotifiedIsPosted ==
    \A o \in Orders : rows[o].status = "notified" => o \in posted

Done == {"wallet_done", "notified"}

\* A withdrawal that was built signed once never leaves wallet_done and
\* notified again, although the worker writes statuses it read earlier.
DoneStaysDone ==
    [][\A o \in Withdrawals :
           signings'[o] <= 1 /\ rows[o].status \in Done
               => rows'[o].status \in Done]_vars

\* A signed withdrawal that the node would accept does not stay unsent: no
\* failure on the way ends the worker.
SignedIsSent ==
    \A o \in Withdrawals :
        rows[o].status = "signed" /\ Accepts(rows[o].tx)
            ~> ~(rows[o].status = "signed" /\ Accepts(rows[o].tx))

\* A finished order does not stay unreported.
DoneIsReported ==
    \A o \in Orders : rows[o].status = "wallet_done" ~> rows[o].status # "wallet_done"

\* The transaction built signed is the one the business was asked to sign.
SignedAsRequested ==
    \A o \in Orders : rows[o].tx # None => rows[o].tx.nonce = rows[o].tx.signature

\* An order is broadcasted when its transaction has been sent to the network.
BroadcastedIsSent ==
    \A o \in Orders :
        rows[o].status = "broadcasted"
            => rows[o].tx \in pool \union ToSet(mined)

\* An order that the chain has paid is found and done in the end.
PaidIsDone ==
    \A o \in Orders :
        (\E t \in ToSet(mined) : t.order = o) ~> rows[o].status \in Done

-----------------------------------------------------------------------------
OrderOf(t) == t.order

Promise == INSTANCE Payments WITH
    paid <- [i \in DOMAIN mined |-> OrderOf(mined[i])],
    reported <- posted

\* Seen from the business, orders are paid at most once and reported only when
\* they have been paid.
ImplementsPayments == Promise!Spec

=============================================================================
