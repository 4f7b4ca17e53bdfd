------------------------------ MODULE Services ------------------------------
(***************************************************************************)
(* The process that serves the businesses (runRpc of cmd, services): how   *)
(* it comes up and goes down, and the calls it handles at the same time to *)
(* build an order unsigned, to build it signed and to set tokens.  Every   *)
(* statement of a handler that leaves the process is a step of its own,    *)
(* and between two of them the other calls, a panic and the end of the     *)
(* process may come.                                                       *)
(*                                                                         *)
(* Nonces, and what becomes of a signed row, are in module Outbound;       *)
(* registration and the export of addresses are in module Registration.    *)
(***************************************************************************)
EXTENDS Integers

CONSTANTS
    Call,          \* calls; that of an order stands for the guid of its row
    Business,      \* businesses with tables
    Address,       \* well-formed addresses
    Malformed,     \* texts of a request that are no well-formed address
    Zero,          \* the zero address
    Native,        \* the contract address "0x00" of a request
    AddressOf,     \* HexToAddress: what a text is read as
    Chains,        \* ids of chains that a request may name
    Fees,          \* what the node may say: base fee, tip and multiplier
    Junk,          \* text that is no number
    Absent,        \* nothing: an empty string, no answer
    MaxUint256,    \* the largest value of domain UINT256
    MaxAttempts,   \* of retry.Do in NewDB
    Faults,        \* kinds of failure the environment may inject
    MaxFaults      \* bound: number of failures injected once NewDB is through

TxTypes == {"deposit", "withdraw", "collection", "hot2cold", "cold2hot"}

\* Messages of the service, with the fields the handlers read.
Text == Address \union Malformed \union {Native, Absent}
UnSignRequest == [method : {"unsign"}, business : Business, type : TxTypes \union {"unknow"},
                  chain : Chains, from : Text, to : Text, value : Int \union {Junk, Absent},
                  contract : Text]
SignRequest == [method : {"sign"}, business : Business, type : TxTypes \union {"unknow"},
                chain : Chains, id : Call]
TokenRequest == [method : {"token"}, business : Business, token : Text,
                 amount : Int \union {Junk}]

\* What the node is asked to build (Eip1559DynamicFeeTx, without the nonce).
Tx == [chain : Chains, from : Text, to : Text, amount : Int, gas : Nat, maxFee : Int,
       tip : Int, contract : Text]

\* The answers of the service.
Refused == [code |-> "error"]
UnSignAnswer == [code : {"success"}, tx : Tx \union {Absent}]
SignAnswer == [code : {"success"}, tx : Tx \union {Absent}]
TokenAnswer == [code : {"success"}]

Request == UnSignRequest \union SignRequest \union TokenRequest
Answer == {Refused} \union UnSignAnswer \union SignAnswer \union TokenAnswer

\* Rows of deposits, withdraws and internals, each named by its call, with the
\* columns that make up an order: the id of the chain is none of them.
Order == [from : Address, to : Address, amount : Int, gas : Nat, maxFee : Int,
          tip : Int, contract : Address]
Row == [table : {"deposits", "withdraws", "internals"}, business : Business, tx : Order,
        status : {"create_unsign", "signed"}, hex : Tx \union {Absent}]
TokenRow == [business : Business, token : Address, amount : Int]

\* What the node says of fees.
FeeResponse == [base : Nat, tip : Nat, mult : Nat]

CONSTANTS
    Requests,      \* what the businesses ask for, but to build a row signed
    SignTypes      \* types they name when they do

ASSUME ServicesAssumption ==
    /\ Fees \subseteq FeeResponse
    /\ Requests \subseteq UnSignRequest \union TokenRequest
    /\ SignTypes \subseteq TxTypes \union {"unknow"}
    /\ Zero \in Address /\ Native \notin Address
    /\ AddressOf \in [Text -> Address] /\ \A a \in Address : AddressOf[a] = a
    /\ AddressOf[Native] = Zero /\ AddressOf[Absent] = Zero
    /\ Absent \notin Address \union Int \union Tx \union Row /\ Junk \notin Int
    /\ Absent \notin Request /\ Absent \notin Answer
    /\ MaxUint256 \in Nat /\ MaxAttempts \in Nat \ {0} /\ MaxFaults \in Nat
    /\ Faults \subseteq {"db_error", "lost_ack", "rpc_error", "code_error", "panic",
                         "listen_error", "serve_error", "stop"}

VARIABLES
    server,        \* how far the process is
    attempt,       \* of retry.Do in NewDB
    stopped,       \* flag of WalletBusinessService
    pc,            \* what the handler of each call is about to do
    req,           \* request of each call
    draft,         \* frame of a handler: the transaction it is building
    signature,     \* frame of a handler: signed transaction the node has answered
    answer,        \* what each call was answered
    rows,          \* tables deposits, withdraws and internals, by guid
    tokens,        \* table tokens
    asked,         \* history: what each call asked the node to sign
    faults         \* failures injected so far

processVars == <<server, attempt, stopped>>
callVars == <<pc, req, draft, signature, answer>>
bookVars == <<rows, tokens, asked>>
vars == <<processVars, callVars, bookVars, faults>>

Fault(kind) ==
    /\ kind \in Faults
    /\ faults < MaxFaults
    /\ faults' = faults + 1

Init ==
    /\ server = "db" /\ attempt = 0 /\ stopped = FALSE
    /\ pc = [c \in Call |-> "none"]
    /\ req = [c \in Call |-> Absent] /\ draft = [c \in Call |-> Absent]
    /\ signature = [c \in Call |-> Absent] /\ answer = [c \in Call |-> Absent]
    /\ rows = [c \in Call |-> Absent] /\ tokens = {} /\ asked = {}
    /\ faults = 0

-----------------------------------------------------------------------------
\* The process.

\* NewDB tries MaxAttempts times, with pauses that nothing cuts short.
OpenDB ==
    /\ server = "db"
    /\ \/ server' = "client" /\ attempt' = 0 /\ UNCHANGED faults
       \/ /\ "db_error" \in Faults /\ UNCHANGED faults
          /\ IF attempt + 1 = MaxAttempts THEN server' = "ended" /\ attempt' = 0
             ELSE attempt' = attempt + 1 /\ UNCHANGED server
    /\ UNCHANGED <<stopped, callVars, bookVars>>

\* The clients of the node connect lazily; Start returns at once and leaves the
\* listening to a goroutine.
Start ==
    /\ server = "client"
    /\ server' = "listen"
    /\ UNCHANGED <<attempt, stopped, callVars, bookVars, faults>>

InFlight(c) == pc[c] \notin {"none", "done", "cut"}

\* The process ends, with the calls in flight.
Ends ==
    /\ server' = "ended"
    /\ pc' = [c \in Call |-> IF InFlight(c) THEN "cut" ELSE pc[c]]
    /\ UNCHANGED <<req, draft, signature, answer>>

\* A failure to listen is logged, and Serve(nil) panics outside of any call.
Listen ==
    /\ server = "listen"
    /\ \/ server' = "serving" /\ UNCHANGED <<callVars, faults>>
       \/ Fault("listen_error") /\ Ends
    /\ UNCHANGED <<attempt, stopped, bookVars>>

\* Once Accept fails, Serve returns an error that is logged, and so does its
\* goroutine: the process stays up without a port, and goes on with the calls on
\* the connections it has.
ServeFails ==
    /\ server = "serving"
    /\ Fault("serve_error")
    /\ server' = "detached"
    /\ UNCHANGED <<attempt, stopped, callVars, bookVars>>

\* Stop sets a flag; the server goes on until the process has ended.
Stop ==
    /\ server \in {"listen", "serving", "detached"} /\ ~stopped
    /\ Fault("stop")
    /\ stopped' = TRUE
    /\ UNCHANGED <<server, attempt, callVars, bookVars>>

Exit ==
    /\ stopped /\ server # "ended"
    /\ Ends
    /\ UNCHANGED <<attempt, stopped, bookVars, faults>>

Restart ==
    /\ server = "ended"
    /\ server' = "db" /\ stopped' = FALSE
    /\ UNCHANGED <<attempt, callVars, bookVars, faults>>

-----------------------------------------------------------------------------
\* Calls.

Up == server \in {"serving", "detached"}
At(c, label) == Up /\ pc[c] = label
Goto(c, label) == pc' = [pc EXCEPT ![c] = label]

Answers(c, a) == Goto(c, "done") /\ answer' = [answer EXCEPT ![c] = a]
Refuse(c) == Answers(c, Refused)

\* The generated handlers of the service: the request of a fresh call is decoded
\* and goes through the interceptor to its method.
Receive(c, r) ==
    /\ Up /\ pc[c] = "none"
    /\ req' = [req EXCEPT ![c] = r]
    /\ Goto(c, CASE r.method = "unsign" -> "validate"
                 [] r.method = "sign" -> "query"
                 [] r.method = "token" -> "token")
    /\ UNCHANGED <<processVars, draft, signature, answer, bookVars, faults>>

\* The business knows the guid of a row from the answer.
Known(c) == answer[c] # Absent /\ answer[c].code = "success" /\ req[c].method = "unsign"

ReceiveSign(c) ==
    \E i \in Call, b \in Business, t \in SignTypes, n \in Chains :
        /\ Known(i)
        /\ Receive(c, [method |-> "sign", business |-> b, type |-> t, chain |-> n, id |-> i])

\* Mutant: the panic of a handler is nobody's.
PanicEndsProcess(c) ==
    /\ Up /\ InFlight(c) /\ Fault("panic")
    /\ Ends
    /\ UNCHANGED <<attempt, stopped, bookVars>>

\* Mutant: the interceptor recovers and answers nothing.
PanicUnanswered(c) ==
    /\ Up /\ InFlight(c) /\ Fault("panic")
    /\ Goto(c, "recovered") /\ UNCHANGED answer
    /\ UNCHANGED <<processVars, req, draft, signature, bookVars>>

\* WrapPanicInterceptor turns the panic of a handler into an error of its call.
Panic(c) ==
    /\ Up /\ InFlight(c) /\ Fault("panic")
    /\ Refuse(c)
    /\ UNCHANGED <<processVars, req, draft, signature, bookVars>>

-----------------------------------------------------------------------------
\* BuildUnSignTransaction.

\* validateRequest, which takes any text but the empty one for an address,
\* ParseTransactionType and SetString, which takes a sign.
IsValid(r) ==
    /\ r.from # Absent /\ r.to # Absent
    /\ r.type \in TxTypes
    /\ r.value \in Int

Validate(c) ==
    /\ At(c, "validate")
    /\ IF IsValid(req[c]) THEN Goto(c, "nonce") /\ UNCHANGED answer ELSE Refuse(c)
    /\ UNCHANGED <<processVars, req, draft, signature, bookVars, faults>>

\* getAccountNonce, by both builders.  An error code comes with a sequence that
\* is no number.
GetAccount(c) ==
    /\ At(c, "nonce")
    /\ \/ /\ Goto(c, IF req[c].method = "unsign" THEN "fee" ELSE "sign")
          /\ UNCHANGED <<answer, faults>>
       \/ (Fault("rpc_error") \/ Fault("code_error")) /\ Refuse(c)
    /\ UNCHANGED <<processVars, req, draft, signature, bookVars>>

\* ParseFastFee
ParseFastFee(f) == [tip |-> f.tip * f.mult, maxFee |-> f.base + 2 * (f.tip * f.mult)]

\* getGasAndContractInfo, in units of 60000
GasLimit(contract) == IF contract = Native THEN 1 ELSE 2

DynamicFeeTx(r, fee) ==
    [chain |-> r.chain, from |-> r.from, to |-> r.to, amount |-> r.value,
     gas |-> GasLimit(r.contract), maxFee |-> fee.maxFee, tip |-> fee.tip,
     contract |-> r.contract]

\* getFeeInfo.  An error code comes without a fee to parse.
GetFee(c) ==
    /\ At(c, "fee")
    /\ \/ /\ \E f \in Fees :
                 draft' = [draft EXCEPT ![c] = DynamicFeeTx(req[c], ParseFastFee(f))]
          /\ Goto(c, "store")
          /\ UNCHANGED <<answer, faults>>
       \/ (Fault("rpc_error") \/ Fault("code_error")) /\ Refuse(c) /\ UNCHANGED draft
    /\ UNCHANGED <<processVars, req, signature, bookVars>>

TableOf(type) ==
    CASE type = "deposit" -> "deposits"
      [] type = "withdraw" -> "withdraws"
      [] OTHER -> "internals"

\* What a row keeps of a transaction: what HexToAddress makes of its addresses,
\* and no chain.
OrderOf(tx) ==
    [from |-> AddressOf[tx.from], to |-> AddressOf[tx.to], amount |-> tx.amount,
     gas |-> tx.gas, maxFee |-> tx.maxFee, tip |-> tx.tip, contract |-> AddressOf[tx.contract]]

\* Mutant: the row keeps the tip for both fees.
NewRowTipTwice(c) ==
    [table |-> TableOf(req[c].type), business |-> req[c].business,
     tx |-> [OrderOf(draft[c]) EXCEPT !.maxFee = draft[c].tip],
     status |-> "create_unsign", hex |-> Absent]

\* StoreDeposits, storeWithdraw and storeInternal
NewRow(c) ==
    [table |-> TableOf(req[c].type), business |-> req[c].business,
     tx |-> OrderOf(draft[c]), status |-> "create_unsign", hex |-> Absent]

FitsUint256(n) == n \in 0..MaxUint256

\* Mutant: the row is stored after the answer of the node, its failure logged.
StoreNothing(c) ==
    /\ At(c, "store")
    /\ Goto(c, "build")
    /\ \/ rows' = [rows EXCEPT ![c] = NewRow(c)] /\ UNCHANGED faults
       \/ UNCHANGED rows /\ Fault("db_error")
    /\ UNCHANGED <<processVars, req, draft, signature, answer, tokens, asked>>

\* The row is there before the node is asked: it stays if the node fails.
Store(c) ==
    /\ At(c, "store")
    /\ \/ /\ FitsUint256(draft[c].amount)
          /\ rows' = [rows EXCEPT ![c] = NewRow(c)]
          /\ \/ Goto(c, "build") /\ UNCHANGED <<answer, faults>>
             \/ Fault("lost_ack") /\ Refuse(c)
       \/ /\ UNCHANGED rows /\ Refuse(c)
          /\ IF FitsUint256(draft[c].amount) THEN Fault("db_error") ELSE UNCHANGED faults
    /\ UNCHANGED <<processVars, req, draft, signature, tokens, asked>>

\* The code of the reply is not looked at: an error code is answered as success
\* with an empty payload.
Build(c) ==
    /\ At(c, "build")
    /\ \/ Answers(c, [code |-> "success", tx |-> draft[c]]) /\ UNCHANGED faults
       \/ Answers(c, [code |-> "success", tx |-> Absent]) /\ Fault("code_error")
       \/ Refuse(c) /\ Fault("rpc_error")
    /\ UNCHANGED <<processVars, req, draft, signature, bookVars>>

-----------------------------------------------------------------------------
\* BuildSignedTransaction.

\* Mutant: one table of orders for all types.
FoundAnywhere(r) == rows[r.id] # Absent

\* QueryDepositsById, QueryWithdrawsById, QueryInternalsById: the table is that
\* of the type the request names.
Found(r) ==
    /\ rows[r.id] # Absent
    /\ rows[r.id].business = r.business
    /\ rows[r.id].table = TableOf(r.type)

\* The transaction to sign: what the row orders, on the chain that this second
\* request names.
OnChain(order, chain) ==
    [chain |-> chain, from |-> order.from, to |-> order.to, amount |-> order.amount,
     gas |-> order.gas, maxFee |-> order.maxFee, tip |-> order.tip, contract |-> order.contract]

Query(c) ==
    /\ At(c, "query")
    /\ \/ /\ req[c].type \in TxTypes /\ Found(req[c])
          /\ draft' = [draft EXCEPT ![c] = OnChain(rows[req[c].id].tx, req[c].chain)]
          /\ Goto(c, "nonce") /\ UNCHANGED <<answer, faults>>
       \/ /\ ~(req[c].type \in TxTypes /\ Found(req[c]))
          /\ Refuse(c) /\ UNCHANGED <<draft, faults>>
       \/ Fault("db_error") /\ Refuse(c) /\ UNCHANGED draft
    /\ UNCHANGED <<processVars, req, signature, bookVars>>

\* Here, too, the code of the reply is not looked at.
Sign(c) ==
    /\ At(c, "sign")
    /\ asked' = asked \union {[call |-> c, tx |-> draft[c]]}
    /\ \/ /\ signature' = [signature EXCEPT ![c] = draft[c]]
          /\ Goto(c, "update") /\ UNCHANGED <<answer, faults>>
       \/ Fault("code_error") /\ Goto(c, "update") /\ UNCHANGED <<signature, answer>>
       \/ Fault("rpc_error") /\ Refuse(c) /\ UNCHANGED signature
    /\ UNCHANGED <<processVars, req, draft, rows, tokens>>

\* Mutant: what the node answers is written as it is.
SignedRowAnyHex(row, hex) == [row EXCEPT !.status = "signed", !.hex = hex]

\* UpdateDepositById, UpdateWithdrawById, UpdateInternalById: an empty transaction
\* does not overwrite that of a withdrawal or of an internal transfer.
SignedRow(row, hex) ==
    IF hex = Absent /\ row.table # "deposits" THEN [row EXCEPT !.status = "signed"]
                                              ELSE [row EXCEPT !.status = "signed", !.hex = hex]

Update(c) ==
    /\ At(c, "update")
    /\ \/ /\ rows' = [rows EXCEPT ![req[c].id] = SignedRow(@, signature[c])]
          /\ \/ Answers(c, [code |-> "success", tx |-> signature[c]]) /\ UNCHANGED faults
             \/ Refuse(c) /\ Fault("lost_ack")
       \/ UNCHANGED rows /\ Refuse(c) /\ Fault("db_error")
    /\ UNCHANGED <<processVars, req, draft, signature, tokens, asked>>

-----------------------------------------------------------------------------
\* SetTokenAddress: an amount that is no number becomes NULL, which the table
\* refuses.
NewToken(r) == [business |-> r.business, token |-> AddressOf[r.token], amount |-> r.amount]

SetToken(c) ==
    /\ At(c, "token")
    /\ IF req[c].amount \in Int /\ FitsUint256(req[c].amount)
       THEN \/ /\ tokens' = tokens \union {NewToken(req[c])}
               /\ \/ Answers(c, [code |-> "success"]) /\ UNCHANGED faults
                  \/ Refuse(c) /\ Fault("lost_ack")
            \/ UNCHANGED tokens /\ Refuse(c) /\ Fault("db_error")
       ELSE UNCHANGED <<tokens, faults>> /\ Refuse(c)
    /\ UNCHANGED <<processVars, req, draft, signature, rows, asked>>

-----------------------------------------------------------------------------
Process == OpenDB \/ Start \/ Listen \/ Exit
Handle(c) ==
    \/ Validate(c) \/ GetAccount(c) \/ GetFee(c) \/ Store(c) \/ Build(c)
    \/ Query(c) \/ Sign(c) \/ Update(c) \/ SetToken(c)

Next ==
    \/ Process \/ ServeFails \/ Stop \/ Restart
    \/ \E c \in Call :
           Handle(c) \/ Panic(c) \/ ReceiveSign(c) \/ \E r \in Requests : Receive(c, r)

Spec == Init /\ [][Next]_vars

\* Goroutines that are not blocked go on, and every call to the node or to the
\* database returns.
FairSpec == Spec /\ WF_vars(Process) /\ \A c \in Call : WF_vars(Handle(c))

-----------------------------------------------------------------------------
\* Type correctness: requests, rows, transactions under construction and answers
\* are of the messages and tables of the service, and only calls that were
\* received have any.
AnswersTo(r) ==
    CASE r \in UnSignRequest -> UnSignAnswer
      [] r \in SignRequest -> SignAnswer
      [] OTHER -> TokenAnswer

TypeOK ==
    /\ server \in {"db", "client", "listen", "serving", "detached", "ended"}
    /\ attempt \in 0..(MaxAttempts - 1) /\ stopped \in BOOLEAN
    /\ pc \in [Call -> {"none", "validate", "nonce", "fee", "store", "build", "query", "sign",
                        "update", "token", "done", "cut"}]
    /\ req \in [Call -> Request \union {Absent}]
    /\ draft \in [Call -> Tx \union {Absent}] /\ signature \in [Call -> Tx \union {Absent}]
    /\ DOMAIN answer = Call /\ rows \in [Call -> Row \union {Absent}]
    /\ \A c \in Call :
           /\ (req[c] = Absent) <=> (pc[c] = "none")
           /\ (answer[c] = Absent) <=> (pc[c] # "done")
           /\ answer[c] \in {Refused, Absent} \union AnswersTo(req[c])
    /\ tokens \subseteq TokenRow
    /\ asked \subseteq [call : Call, tx : Tx]
    /\ faults \in 0..MaxFaults

\* What the node is asked to sign for a row is what the business was given to
\* sign, down to the gas and the fees, however the fees of the node move between
\* the two calls (handler.go:193-203, 307-317, service.go:118-170).  Two things
\* are not taken from what was given: sender, recipient and contract are what
\* HexToAddress reads in its texts, and the chain is that of the second request,
\* which nothing compares with the first.
SignedAsOrdered ==
    \A a \in asked :
        LET signing == req[a.call]
            given == answer[signing.id].tx
        IN  given # Absent => a.tx = OnChain(OrderOf(given), signing.chain)

\* A success is backed by the database, whatever has failed or ended since: an
\* order built unsigned has its row in the table of its type, with the recipient
\* that HexToAddress reads in it, one built signed is signed there, and the token
\* is in its table (handler.go:171-190, 336-356, 379-389).
AnsweredIsStored ==
    \A c \in Call :
        answer[c] # Absent /\ answer[c].code = "success" =>
            CASE req[c].method = "unsign" ->
                     /\ rows[c] # Absent
                     /\ rows[c].table = TableOf(req[c].type)
                     /\ rows[c].business = req[c].business
                     /\ rows[c].tx.to = AddressOf[req[c].to]
                     /\ rows[c].tx.amount = req[c].value
              [] req[c].method = "sign" -> rows[req[c].id].status = "signed"
              [] req[c].method = "token" -> NewToken(req[c]) \in tokens

\* A withdrawal or an internal transfer whose signed transaction was answered
\* still has one to send, though it is built signed again, by several calls at a
\* time, and the node answers one of them with an error code and nothing signed
\* (withdraws.go:101-106, internals.go:134-140).  A deposit does not
\* (deposit.go:109): it loses what it had.
SignedIsHeld ==
    \A c \in Call :
        /\ answer[c] # Absent /\ answer[c].code = "success"
        /\ req[c].method = "sign" /\ answer[c].tx # Absent
        /\ rows[req[c].id].table # "deposits"
        => rows[req[c].id].hex # Absent

\* A row keeps its order for good, and is signed by no other call than one that
\* names its business and its kind of transaction (handler.go:240-294, 336-349).
SignedByItsCall ==
    [][\A i \in Call :
          rows[i] # Absent =>
              /\ rows'[i] # Absent
              /\ rows'[i].table = rows[i].table /\ rows'[i].business = rows[i].business
              /\ rows'[i].tx = rows[i].tx
              /\ rows'[i].status # rows[i].status =>
                     \E c \in Call : /\ pc[c] = "update" /\ req[c].id = i
                                    /\ req[c].business = rows[i].business
                                    /\ TableOf(req[c].type) = rows[i].table]_vars

\* A call is cut short by nothing but the end of a process that was told to
\* stop: the panic of one call leaves the others alone (service.go:92-106).
CutByStopOnly ==
    [][\A c \in Call : pc[c] # "cut" /\ pc'[c] = "cut" => stopped]_vars

\* Every call is answered, or cut by the end of the process.
CallsEnd == \A c \in Call : InFlight(c) ~> ~InFlight(c)

\* What the code does not promise.  A transaction is signed on the chain its
\* business was given it for (handler.go:194, 308).
SignedOnItsChain ==
    \A a \in asked :
        LET given == answer[req[a.call].id].tx
        IN  given # Absent => a.tx.chain = given.chain

\* It pays whom the request names, in these very letters (handler.go:449, 486).
PaysWhomItNames ==
    \A a \in asked :
        LET given == answer[req[a.call].id].tx
        IN  given # Absent => a.tx.to = given.to

\* A process that has lost its port ends (service.go:61-63).
PortLostEnds == server = "detached" ~> server = "ended"
=============================================================================
