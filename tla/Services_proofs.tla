--------------------------- MODULE Services_proofs ---------------------------
(***************************************************************************)
(* Proofs about the calls to build and to sign orders, for any number of   *)
(* calls, any requests, any fees of the node and any failures.             *)
(***************************************************************************)
EXTENDS Services, TLAPS

\* The row of an order is what its handler was building.
RowOf(c) ==
    /\ req[c] \in UnSignRequest
    /\ draft[c] \in Tx /\ draft[c].to = req[c].to /\ draft[c].amount = req[c].value
    /\ rows[c].tx = OrderOf(draft[c])
    /\ rows[c].table = TableOf(req[c].type)
    /\ rows[c].business = req[c].business

\* Each handler is at a step of its method, and an order it builds is valid.
Method(c) ==
    /\ pc[c] \in {"validate", "fee", "store", "build"} => req[c] \in UnSignRequest
    /\ pc[c] \in {"query", "sign", "update"} => req[c] \in SignRequest
    /\ pc[c] = "nonce" => req[c] \in UnSignRequest \union SignRequest
    /\ pc[c] = "token" => req[c] \in TokenRequest
    /\ req[c] \in UnSignRequest /\ pc[c] \in {"nonce", "fee", "store", "build"} => IsValid(req[c])

\* An order: its row is there before the node is asked, and stays.
Unsigned(c) ==
    /\ pc[c] = "store" =>
           draft[c] \in Tx /\ draft[c].to = req[c].to /\ draft[c].amount = req[c].value
    /\ pc[c] = "build" \/ Known(c) => rows[c] # Absent
    /\ rows[c] # Absent => RowOf(c) /\ pc[c] \in {"build", "done", "cut"}
    /\ Known(c) => answer[c].tx \in {Absent, draft[c]}

\* Row i, if it is no deposit, has a signed transaction.
Held(i) == rows[i].table # "deposits" => rows[i].hex # Absent

\* A signature: it is for a row that is known, and made of that row.
Signing(c) ==
    req[c] \in SignRequest =>
        /\ Known(req[c].id)
        /\ pc[c] \in {"nonce", "sign", "update"} =>
               /\ Found(req[c])
               /\ draft[c] = OnChain(rows[req[c].id].tx, req[c].chain)
        /\ answer[c] # Absent /\ answer[c].code = "success" =>
               /\ rows[req[c].id].status = "signed"
               /\ answer[c].tx # Absent => Held(req[c].id)

Token(c) ==
    req[c] \in TokenRequest /\ answer[c] # Absent /\ answer[c].code = "success" =>
        NewToken(req[c]) \in tokens

CallInv(c) == Method(c) /\ Unsigned(c) /\ Signing(c) /\ Token(c)

\* What call c asked the node to sign is the row it names.
OfItsRow(c, tx) ==
    /\ req[c] \in SignRequest /\ Known(req[c].id) /\ rows[req[c].id] # Absent
    /\ tx = OnChain(rows[req[c].id].tx, req[c].chain)
AskedInv == \A a \in asked : OfItsRow(a.call, a.tx)

\* Only a process that serves has calls in flight.
ServerInv == server \notin {"serving", "detached"} => \A c \in Call : ~InFlight(c)

IInv == TypeOK /\ ServerInv /\ AskedInv /\ \A c \in Call : CallInv(c)

USE ServicesAssumption DEF Request, Answer, Held

-----------------------------------------------------------------------------
\* Requests and answers.

\* The three kinds of requests are told apart by their method.
LEMMA Kinds ==
    ASSUME NEW r \in Request
    PROVE  /\ r.method \in {"unsign", "sign", "token"}
           /\ r \in UnSignRequest <=> r.method = "unsign"
           /\ r \in SignRequest <=> r.method = "sign"
           /\ r \in TokenRequest <=> r.method = "token"
BY DEF UnSignRequest, SignRequest, TokenRequest

LEMMA RefusedIsNoSuccess == Refused.code # "success" /\ Refused # Absent
BY DEF Refused

LEMMA ProductIsNat ==
    ASSUME NEW a \in Nat, NEW b \in Nat PROVE a * b \in Nat
OBVIOUS

\* What is built from a valid request and a fee of the node.
LEMMA DraftIsTx ==
    ASSUME NEW r \in UnSignRequest, IsValid(r), NEW f \in Fees
    PROVE  /\ DynamicFeeTx(r, ParseFastFee(f)) \in Tx
           /\ DynamicFeeTx(r, ParseFastFee(f)).to = r.to
           /\ DynamicFeeTx(r, ParseFastFee(f)).amount = r.value
<1>1. f \in FeeResponse /\ f.base \in Nat /\ f.tip \in Nat /\ f.mult \in Nat
  BY DEF FeeResponse
<1> DEFINE p == f.tip * f.mult
<1>2. p \in Nat
  BY <1>1, ProductIsNat
<1> HIDE DEF p
<1>3. p \in Int /\ f.base + 2 * p \in Int
  BY <1>1, <1>2
<1>4. ParseFastFee(f) = [tip |-> p, maxFee |-> f.base + 2 * p]
  BY DEF ParseFastFee, p
<1>5. /\ r.from \in Text /\ r.to \in Text /\ r.value \in Int
      /\ r.contract \in Text /\ r.chain \in Chains
  BY DEF IsValid, UnSignRequest
<1>6. GasLimit(r.contract) \in Nat
  BY DEF GasLimit
<1> QED
  BY <1>3, <1>4, <1>5, <1>6 DEF DynamicFeeTx, Tx

\* What a row keeps of a transaction is an order.
LEMMA OrderOfTx ==
    ASSUME NEW tx \in Tx
    PROVE  OrderOf(tx) \in Order
<1>1. \A t \in Text : AddressOf[t] \in Address
  OBVIOUS
<1> QED
  BY <1>1 DEF OrderOf, Order, Tx

\* What is built of an order is a transaction.
LEMMA OnChainIsTx ==
    ASSUME NEW order \in Order, NEW chain \in Chains
    PROVE  OnChain(order, chain) \in Tx
<1>1. \A a \in Address : a \in Text
  BY DEF Text
<1> QED
  BY <1>1 DEF OnChain, Tx, Order

\* Its row is a row of the table of its type.
LEMMA NewRowIsRow ==
    ASSUME NEW c \in Call, req[c] \in UnSignRequest, IsValid(req[c]), draft[c] \in Tx
    PROVE  /\ NewRow(c) \in Row /\ NewRow(c) # Absent
           /\ NewRow(c).tx = OrderOf(draft[c])
           /\ NewRow(c).table = TableOf(req[c].type)
           /\ NewRow(c).business = req[c].business
<1>1. /\ TableOf(req[c].type) \in {"deposits", "withdraws", "internals"}
      /\ req[c].business \in Business
  BY DEF IsValid, TxTypes, TableOf, UnSignRequest
<1> DEFINE order == OrderOf(draft[c])
<1>2. order \in Order
  BY OrderOfTx
<1>3. NewRow(c) = [table |-> TableOf(req[c].type), business |-> req[c].business, tx |-> order,
                   status |-> "create_unsign", hex |-> Absent]
  BY DEF NewRow
<1> HIDE DEF order
<1>4. NewRow(c) \in Row
  BY <1>1, <1>2, <1>3 DEF Row
<1>5. NewRow(c) # Absent
  BY <1>4
<1> QED
  BY <1>1, <1>3, <1>4, <1>5 DEF order

-----------------------------------------------------------------------------
\* A step of call c that leaves the other calls alone: rows may be added for c
\* and signed for others.
CallMoves(c) ==
    /\ Up /\ UNCHANGED processVars
    /\ pc[c] \notin {"done", "cut"}
    /\ req[c] # Absent => req'[c] = req[c]
    /\ \A d \in Call \ {c} :
           /\ pc'[d] = pc[d] /\ req'[d] = req[d] /\ draft'[d] = draft[d]
           /\ answer'[d] = answer[d]
    /\ \A i \in Call : rows[i] # Absent =>
           /\ rows'[i] # Absent
           /\ rows'[i].tx = rows[i].tx /\ rows'[i].table = rows[i].table
           /\ rows'[i].business = rows[i].business
           /\ rows[i].status = "signed" => rows'[i].status = "signed"
           /\ Held(i) => Held(i)'
    /\ \A i \in Call \ {c} : rows[i] = Absent => rows'[i] = Absent
    /\ tokens \subseteq tokens'

LEMMA KnownStays ==
    ASSUME TypeOK, NEW c \in Call, CallMoves(c), NEW i \in Call, Known(i)
    PROVE  Known(i)' /\ i # c /\ answer'[i] = answer[i] /\ req'[i] = req[i] /\ draft'[i] = draft[i]
<1>1. i # c
  BY DEF Known, TypeOK, CallMoves
<1> QED
  BY <1>1 DEF Known, CallMoves

LEMMA OthersKeep ==
    ASSUME IInv, NEW c \in Call, CallMoves(c), NEW d \in Call \ {c}
    PROVE  CallInv(d)'
<1>1. /\ pc'[d] = pc[d] /\ req'[d] = req[d] /\ draft'[d] = draft[d] /\ answer'[d] = answer[d]
  BY DEF CallMoves
<1>2. CallInv(d)
  BY DEF IInv
<1>3. Method(d)'
  BY <1>1, <1>2 DEF CallInv, Method
<1>4. rows[d] = Absent => rows'[d] = Absent
  BY DEF CallMoves
<1>5. rows[d] # Absent => rows'[d] # Absent /\ RowOf(d)'
  BY <1>1, <1>2 DEF CallInv, Unsigned, RowOf, CallMoves
<1>6. Unsigned(d)'
  BY <1>1, <1>2, <1>4, <1>5 DEF CallInv, Unsigned, Known
<1>7. ASSUME req[d] \in SignRequest PROVE Signing(d)'
  <2>1. Known(req[d].id) /\ req[d].id \in Call
    BY <1>2, <1>7 DEF CallInv, Signing, SignRequest
  <2>2. Known(req[d].id)'
    BY <2>1, KnownStays, <1>1 DEF IInv
  <2>3. rows[req[d].id] # Absent
    BY <2>1 DEF IInv, CallInv, Unsigned
  <2> QED
    BY <1>1, <1>2, <1>7, <2>1, <2>2, <2>3 DEF CallInv, Signing, Found, CallMoves
<1>8. Signing(d)'
  BY <1>1, <1>7 DEF Signing
<1>9. Token(d)'
  BY <1>1, <1>2 DEF CallInv, Token, CallMoves
<1> QED
  BY <1>3, <1>6, <1>8, <1>9 DEF CallInv

LEMMA AskedStays ==
    ASSUME IInv, NEW c \in Call, CallMoves(c), NEW d \in Call, NEW tx, OfItsRow(d, tx)
    PROVE  OfItsRow(d, tx)'
<1>1. req'[d] = req[d]
  BY DEF OfItsRow, CallMoves
<1>2. req[d].id \in Call
  BY DEF OfItsRow, SignRequest
<1>3. Known(req[d].id)'
  BY <1>1, <1>2, KnownStays DEF IInv, OfItsRow
<1>4. rows'[req[d].id] # Absent /\ rows'[req[d].id].tx = rows[req[d].id].tx
  BY <1>2 DEF OfItsRow, CallMoves
<1> QED
  BY <1>1, <1>3, <1>4 DEF OfItsRow, Known

LEMMA MovePreserves ==
    ASSUME IInv, NEW c \in Call, CallMoves(c), TypeOK', CallInv(c)', asked' = asked
    PROVE  IInv'
<1>1. \A d \in Call : CallInv(d)'
  BY OthersKeep
<1>2. ServerInv'
  BY DEF CallMoves, Up, processVars, ServerInv
<1>3. AskedInv'
  <2> SUFFICES ASSUME NEW a \in asked PROVE OfItsRow(a.call, a.tx)'
    BY DEF AskedInv
  <2> QED
    BY AskedStays DEF IInv, AskedInv, TypeOK
<1> QED
  BY <1>1, <1>2, <1>3 DEF IInv

-----------------------------------------------------------------------------
\* The steps of a handler.

\* A call that ends with an error.
LEMMA RefuseMoves ==
    ASSUME IInv, NEW c \in Call, Up, pc[c] \notin {"none", "done", "cut"}, Refuse(c),
           UNCHANGED processVars, UNCHANGED req, UNCHANGED draft,
           tokens \subseteq tokens', tokens' \subseteq TokenRow,
           faults' \in 0..MaxFaults, asked' \subseteq [call : Call, tx : Tx],
           signature' \in [Call -> Tx \union {Absent}],
           rows' \in [Call -> Row \union {Absent}],
           rows'[c] # Absent => RowOf(c)',
           \A i \in Call : rows[i] # Absent =>
               /\ rows'[i] # Absent
               /\ rows'[i].tx = rows[i].tx /\ rows'[i].table = rows[i].table
               /\ rows'[i].business = rows[i].business
               /\ rows[i].status = "signed" => rows'[i].status = "signed"
               /\ Held(i) => Held(i)',
           \A i \in Call \ {c} : rows[i] = Absent => rows'[i] = Absent
    PROVE  TypeOK' /\ CallMoves(c) /\ CallInv(c)'
<1>0. TypeOK /\ CallInv(c)
  BY DEF IInv
<1>1. /\ answer'[c] = Refused /\ pc'[c] = "done"
      /\ \A d \in Call \ {c} : answer'[d] = answer[d] /\ pc'[d] = pc[d]
  BY <1>0 DEF Refuse, Answers, Goto, TypeOK
<1>2. TypeOK'
  <2>1. /\ pc' \in [Call -> {"none", "validate", "nonce", "fee", "store", "build", "query",
                             "sign", "update", "token", "done", "cut"}]
        /\ DOMAIN answer' = Call
    BY <1>0 DEF Refuse, Answers, Goto, TypeOK
  <2>2. \A d \in Call :
           /\ (req'[d] = Absent) <=> (pc'[d] = "none")
           /\ (answer'[d] = Absent) <=> (pc'[d] # "done")
           /\ answer'[d] \in {Refused, Absent} \union AnswersTo(req'[d])
    BY <1>0, <1>1, RefusedIsNoSuccess DEF TypeOK
  <2> QED
    BY <1>0, <2>1, <2>2 DEF TypeOK, processVars
<1>3. CallMoves(c)
  BY <1>1 DEF CallMoves
<1>4. Method(c)'
  BY <1>1 DEF Method
<1>5. Unsigned(c)'
  BY <1>1, RefusedIsNoSuccess DEF Unsigned, Known
<1>6. Signing(c)'
  <2> SUFFICES ASSUME req'[c] \in SignRequest PROVE Signing(c)'
    BY DEF Signing
  <2>1. Known(req[c].id) /\ req[c].id \in Call
    BY <1>0 DEF CallInv, Signing, SignRequest
  <2>2. Known(req[c].id)'
    BY <1>0, <1>3, <2>1, KnownStays
  <2> QED
    BY <1>1, <2>2, RefusedIsNoSuccess DEF Signing
<1>7. Token(c)'
  BY <1>1, RefusedIsNoSuccess DEF Token
<1> QED
  BY <1>2, <1>3, <1>4, <1>5, <1>6, <1>7 DEF CallInv

\* A call that ends with an error and leaves the tables alone.
LEMMA RefusePreserves ==
    ASSUME IInv, NEW c \in Call, Up, pc[c] \notin {"none", "done", "cut"}, Refuse(c),
           UNCHANGED processVars, UNCHANGED req, UNCHANGED draft, UNCHANGED signature,
           UNCHANGED rows, UNCHANGED tokens, UNCHANGED asked,
           faults' \in 0..MaxFaults
    PROVE  IInv'
<1>1. rows'[c] # Absent => RowOf(c)'
  BY DEF IInv, CallInv, Unsigned, RowOf
<1>2. TypeOK' /\ CallMoves(c) /\ CallInv(c)'
  BY <1>1, RefuseMoves DEF IInv, TypeOK
<1> QED
  BY <1>2, MovePreserves

LEMMA FaultIsCounted ==
    ASSUME TypeOK, NEW kind, Fault(kind)
    PROVE  faults' \in 0..MaxFaults
BY DEF Fault, TypeOK

LEMMA PanicPreserves ==
    ASSUME IInv, NEW c \in Call, Panic(c)
    PROVE  IInv'
BY RefusePreserves, FaultIsCounted DEF Panic, InFlight, bookVars, IInv

Drafts(c, d) == draft' = [draft EXCEPT ![c] = d]

\* A call that goes on.
LEMMA GoMoves ==
    ASSUME IInv, NEW c \in Call, Up, pc[c] \notin {"none", "done", "cut"},
           NEW label \in {"validate", "nonce", "fee", "store", "build", "query", "sign", "update",
                         "token"},
           Goto(c, label), UNCHANGED processVars, UNCHANGED req, UNCHANGED answer,
           UNCHANGED tokens, faults' \in 0..MaxFaults,
           asked' \subseteq [call : Call, tx : Tx],
           NEW d \in Tx \union {Absent}, Drafts(c, d),
           signature' \in [Call -> Tx \union {Absent}],
           rows' \in [Call -> Row \union {Absent}],
           \A i \in Call : rows[i] # Absent => rows'[i] = rows[i],
           \A i \in Call \ {c} : rows[i] = Absent => rows'[i] = Absent
    PROVE  TypeOK' /\ CallMoves(c) /\ pc'[c] = label /\ draft'[c] = d /\ answer'[c] = Absent
<1>0. TypeOK
  BY DEF IInv
<1>1. pc'[c] = label /\ \A e \in Call \ {c} : pc'[e] = pc[e]
  BY <1>0 DEF Goto, TypeOK
<1>2. draft'[c] = d /\ \A e \in Call \ {c} : draft'[e] = draft[e]
  BY <1>0 DEF Drafts, TypeOK
<1>3. answer[c] = Absent /\ req[c] # Absent
  BY <1>0 DEF TypeOK
<1>4. TypeOK'
  <2>1. /\ pc' \in [Call -> {"none", "validate", "nonce", "fee", "store", "build", "query",
                             "sign", "update", "token", "done", "cut"}]
        /\ draft' \in [Call -> Tx \union {Absent}]
    BY <1>0 DEF Goto, Drafts, TypeOK
  <2>2. \A e \in Call :
           /\ (req'[e] = Absent) <=> (pc'[e] = "none")
           /\ (answer'[e] = Absent) <=> (pc'[e] # "done")
           /\ answer'[e] \in {Refused, Absent} \union AnswersTo(req'[e])
    BY <1>0, <1>1, <1>3 DEF TypeOK
  <2> QED
    BY <1>0, <2>1, <2>2 DEF TypeOK, processVars
<1>5. CallMoves(c)
  BY <1>1, <1>2 DEF CallMoves
<1> QED
  BY <1>1, <1>2, <1>3, <1>4, <1>5

\* A call that goes on and leaves the tables alone.
LEMMA GoOnMoves ==
    ASSUME IInv, NEW c \in Call, Up, pc[c] \notin {"none", "done", "cut"},
           NEW label \in {"validate", "nonce", "fee", "store", "build", "query", "sign", "update",
                         "token"},
           Goto(c, label), UNCHANGED processVars, UNCHANGED req, UNCHANGED answer,
           UNCHANGED signature, UNCHANGED bookVars, UNCHANGED faults,
           NEW d \in Tx \union {Absent}, Drafts(c, d)
    PROVE  TypeOK' /\ CallMoves(c) /\ pc'[c] = label /\ draft'[c] = d /\ answer'[c] = Absent
<1>1. /\ signature' \in [Call -> Tx \union {Absent}] /\ rows' \in [Call -> Row \union {Absent}]
      /\ asked' \subseteq [call : Call, tx : Tx] /\ rows' = rows /\ tokens' = tokens
      /\ faults' \in 0..MaxFaults
  BY DEF IInv, TypeOK, bookVars
<1> QED
  BY <1>1, GoMoves

LEMMA ValidatePreserves ==
    ASSUME IInv, NEW c \in Call, Validate(c)
    PROVE  IInv'
<1>0. TypeOK /\ CallInv(c)
  BY DEF IInv
<1>1. CASE Refuse(c)
  BY <1>0, <1>1, RefusePreserves DEF Validate, At, bookVars, TypeOK
<1>2. CASE IsValid(req[c]) /\ Goto(c, "nonce") /\ UNCHANGED answer
  <2>1. Drafts(c, draft[c]) /\ draft[c] \in Tx \union {Absent}
    BY <1>0 DEF Validate, Drafts, TypeOK
  <2>2. TypeOK' /\ CallMoves(c) /\ pc'[c] = "nonce" /\ answer'[c] = Absent
    BY <1>2, <2>1, GoOnMoves DEF Validate, At
  <2>3. req[c] \in UnSignRequest /\ pc[c] = "validate"
    BY <1>0 DEF Validate, At, CallInv, Method
  <2>4. req[c] \notin SignRequest \union TokenRequest
    BY <2>3, Kinds
  <2>5. CallInv(c)'
    BY <1>0, <1>2, <2>2, <2>3, <2>4
       DEF Validate, bookVars, CallInv, Method, Unsigned, Signing, Token, Known
  <2> QED
    BY <2>2, <2>5, MovePreserves DEF Validate, bookVars
<1> QED
  BY <1>1, <1>2 DEF Validate

LEMMA GetAccountPreserves ==
    ASSUME IInv, NEW c \in Call, GetAccount(c)
    PROVE  IInv'
<1>0. TypeOK /\ CallInv(c) /\ pc[c] = "nonce" /\ Up
  BY DEF IInv, GetAccount, At
<1>1. CASE (Fault("rpc_error") \/ Fault("code_error")) /\ Refuse(c)
  BY <1>0, <1>1, RefusePreserves, FaultIsCounted DEF GetAccount, bookVars
<1>2. CASE /\ Goto(c, IF req[c].method = "unsign" THEN "fee" ELSE "sign")
           /\ UNCHANGED <<answer, faults>>
  <2> DEFINE label == IF req[c].method = "unsign" THEN "fee" ELSE "sign"
  <2>0. label \in {"fee", "sign"} /\ Goto(c, label)
    BY <1>2
  <2> HIDE DEF label
  <2>1. Drafts(c, draft[c]) /\ draft[c] \in Tx \union {Absent}
    BY <1>0 DEF GetAccount, Drafts, TypeOK
  <2>2. TypeOK' /\ CallMoves(c) /\ pc'[c] = label /\ draft'[c] = draft[c] /\ answer'[c] = Absent
    BY <1>0, <1>2, <2>0, <2>1, GoOnMoves DEF GetAccount
  <2>3. CASE req[c] \in UnSignRequest
    <3>1. label = "fee" /\ req[c] \notin SignRequest \union TokenRequest
      BY <2>3, Kinds DEF label
    <3>2. CallInv(c)'
      BY <1>0, <2>2, <2>3, <3>1
         DEF GetAccount, bookVars, CallInv, Method, Unsigned, Signing, Token, Known
    <3> QED
      BY <2>2, <3>2, MovePreserves DEF GetAccount, bookVars
  <2>4. CASE req[c] \in SignRequest
    <3>1. label = "sign" /\ req[c] \notin UnSignRequest \union TokenRequest
      BY <2>4, Kinds DEF label
    <3>2. Known(req[c].id) /\ req[c].id \in Call
      BY <1>0, <2>4 DEF CallInv, Signing, SignRequest
    <3>3. Known(req[c].id)'
      BY <1>0, <2>2, <3>2, KnownStays DEF GetAccount
    <3>4. CallInv(c)'
      BY <1>0, <2>2, <2>4, <3>1, <3>2, <3>3
         DEF GetAccount, bookVars, CallInv, Method, Unsigned, Signing, Token, Known, Found
    <3> QED
      BY <2>2, <3>4, MovePreserves DEF GetAccount, bookVars
  <2> QED
    BY <1>0, <2>3, <2>4 DEF CallInv, Method
<1> QED
  BY <1>1, <1>2 DEF GetAccount

LEMMA GetFeePreserves ==
    ASSUME IInv, NEW c \in Call, GetFee(c)
    PROVE  IInv'
<1>0. TypeOK /\ CallInv(c) /\ pc[c] = "fee" /\ Up
  BY DEF IInv, GetFee, At
<1>1. CASE (Fault("rpc_error") \/ Fault("code_error")) /\ Refuse(c) /\ UNCHANGED draft
  BY <1>0, <1>1, RefusePreserves, FaultIsCounted DEF GetFee, bookVars
<1>2. ASSUME NEW f \in Fees, draft' = [draft EXCEPT ![c] = DynamicFeeTx(req[c], ParseFastFee(f))],
             Goto(c, "store"), UNCHANGED <<answer, faults>>
      PROVE  IInv'
  <2>1. req[c] \in UnSignRequest /\ IsValid(req[c])
    BY <1>0 DEF CallInv, Method
  <2>2. req[c] \notin SignRequest \union TokenRequest
    BY <2>1, Kinds
  <2> DEFINE d == DynamicFeeTx(req[c], ParseFastFee(f))
  <2>3. d \in Tx /\ d.to = req[c].to /\ d.amount = req[c].value /\ Drafts(c, d)
    BY <1>2, <2>1, DraftIsTx DEF Drafts
  <2> HIDE DEF d
  <2>4. TypeOK' /\ CallMoves(c) /\ pc'[c] = "store" /\ draft'[c] = d /\ answer'[c] = Absent
    BY <1>0, <1>2, <2>3, GoOnMoves DEF GetFee
  <2>5. CallInv(c)'
    BY <1>0, <2>1, <2>2, <2>3, <2>4
       DEF GetFee, bookVars, CallInv, Method, Unsigned, Signing, Token, Known
  <2> QED
    BY <2>4, <2>5, MovePreserves DEF GetFee, bookVars
<1> QED
  BY <1>1, <1>2 DEF GetFee

LEMMA StorePreserves ==
    ASSUME IInv, NEW c \in Call, Store(c)
    PROVE  IInv'
<1>0. TypeOK /\ CallInv(c) /\ pc[c] = "store" /\ Up
  BY DEF IInv, Store, At
<1>1. /\ req[c] \in UnSignRequest /\ IsValid(req[c]) /\ draft[c] \in Tx
      /\ draft[c].to = req[c].to /\ draft[c].amount = req[c].value /\ rows[c] = Absent
  BY <1>0 DEF CallInv, Method, Unsigned
<1>2. CASE UNCHANGED rows /\ Refuse(c)
  <2>1. faults' \in 0..MaxFaults
    BY <1>0, FaultIsCounted DEF Store, TypeOK
  <2> QED
    BY <1>0, <1>2, <2>1, RefusePreserves DEF Store
<1>3. CASE rows' = [rows EXCEPT ![c] = NewRow(c)]
  <2>1. /\ NewRow(c) \in Row /\ NewRow(c) # Absent
        /\ NewRow(c).tx = OrderOf(draft[c])
        /\ NewRow(c).table = TableOf(req[c].type) /\ NewRow(c).business = req[c].business
    BY <1>1, NewRowIsRow
  <2>2. /\ rows' \in [Call -> Row \union {Absent}]
        /\ rows'[c] = NewRow(c) /\ \A i \in Call \ {c} : rows'[i] = rows[i]
    BY <1>0, <1>3, <2>1 DEF TypeOK
  <2>3. UNCHANGED <<processVars, req, draft, signature, tokens, asked>>
    BY DEF Store
  <2>4. RowOf(c)'
    BY <1>1, <2>1, <2>2, <2>3 DEF RowOf
  <2>5. /\ signature' \in [Call -> Tx \union {Absent}] /\ asked' \subseteq [call : Call, tx : Tx]
        /\ Drafts(c, draft[c]) /\ tokens' \subseteq TokenRow /\ faults \in 0..MaxFaults
    BY <1>0, <2>3 DEF Drafts, TypeOK
  <2>6. \A i \in Call : rows[i] # Absent => rows'[i] = rows[i]
    BY <1>1, <2>2
  <2>7. CASE Goto(c, "build") /\ UNCHANGED <<answer, faults>>
    <3>1. TypeOK' /\ CallMoves(c) /\ pc'[c] = "build" /\ answer'[c] = Absent
      BY <1>0, <1>1, <2>2, <2>3, <2>5, <2>6, <2>7, GoMoves
    <3>2. req[c] \notin SignRequest \union TokenRequest
      BY <1>1, Kinds
    <3>3. CallInv(c)'
      BY <1>1, <2>1, <2>2, <2>3, <2>4, <3>1, <3>2
         DEF CallInv, Method, Unsigned, Signing, Token, Known
    <3> QED
      BY <2>3, <3>1, <3>3, MovePreserves
  <2>8. CASE Fault("lost_ack") /\ Refuse(c)
    <3>1. faults' \in 0..MaxFaults
      BY <1>0, <2>8, FaultIsCounted
    <3>2. TypeOK' /\ CallMoves(c) /\ CallInv(c)'
      BY <1>0, <2>2, <2>3, <2>4, <2>5, <2>6, <2>8, <3>1, RefuseMoves
    <3> QED
      BY <2>3, <3>2, MovePreserves
  <2> QED
    BY <1>2, <1>3, <2>7, <2>8 DEF Store
<1> QED
  BY <1>2, <1>3 DEF Store

\* A call that is answered with success.
LEMMA AnswerMoves ==
    ASSUME IInv, NEW c \in Call, Up, pc[c] \notin {"none", "done", "cut"},
           NEW a \in AnswersTo(req[c]), a # Absent, Answers(c, a),
           UNCHANGED processVars, UNCHANGED req, UNCHANGED draft, UNCHANGED signature,
           UNCHANGED asked,
           faults' \in 0..MaxFaults, rows' \in [Call -> Row \union {Absent}],
           tokens \subseteq tokens', tokens' \subseteq TokenRow,
           \A i \in Call : rows[i] # Absent =>
               /\ rows'[i] # Absent
               /\ rows'[i].tx = rows[i].tx /\ rows'[i].table = rows[i].table
               /\ rows'[i].business = rows[i].business
               /\ rows[i].status = "signed" => rows'[i].status = "signed"
               /\ Held(i) => Held(i)',
           \A i \in Call : rows[i] = Absent => rows'[i] = Absent
    PROVE  TypeOK' /\ CallMoves(c) /\ Method(c)' /\ pc'[c] = "done" /\ answer'[c] = a
<1>0. TypeOK
  BY DEF IInv
<1>1. /\ answer'[c] = a /\ pc'[c] = "done"
      /\ \A d \in Call \ {c} : answer'[d] = answer[d] /\ pc'[d] = pc[d]
  BY <1>0 DEF Answers, Goto, TypeOK
<1>2. TypeOK'
  <2>1. /\ pc' \in [Call -> {"none", "validate", "nonce", "fee", "store", "build", "query",
                             "sign", "update", "token", "done", "cut"}]
        /\ DOMAIN answer' = Call
    BY <1>0 DEF Answers, Goto, TypeOK
  <2>2. \A d \in Call :
           /\ (req'[d] = Absent) <=> (pc'[d] = "none")
           /\ (answer'[d] = Absent) <=> (pc'[d] # "done")
           /\ answer'[d] \in {Refused, Absent} \union AnswersTo(req'[d])
    BY <1>0, <1>1 DEF TypeOK
  <2> QED
    BY <1>0, <2>1, <2>2 DEF TypeOK, processVars
<1>3. CallMoves(c)
  BY <1>1 DEF CallMoves
<1>4. Method(c)'
  BY <1>1 DEF Method
<1> QED
  BY <1>1, <1>2, <1>3, <1>4

LEMMA BuildPreserves ==
    ASSUME IInv, NEW c \in Call, Build(c)
    PROVE  IInv'
<1>0. TypeOK /\ CallInv(c) /\ pc[c] = "build" /\ Up
  BY DEF IInv, Build, At
<1>1. req[c] \in UnSignRequest /\ rows[c] # Absent /\ draft[c] \in Tx
  BY <1>0 DEF CallInv, Method, Unsigned, RowOf
<1>2. req[c] \notin SignRequest \union TokenRequest
  BY <1>1, Kinds
<1>3. UNCHANGED <<processVars, req, draft, signature, rows, tokens, asked>>
  BY DEF Build, bookVars
<1>4. CASE Refuse(c) /\ Fault("rpc_error")
  BY <1>0, <1>3, <1>4, RefusePreserves, FaultIsCounted
<1>5. ASSUME NEW tx \in Tx \union {Absent}, tx \in {Absent, draft[c]},
             Answers(c, [code |-> "success", tx |-> tx]), faults' \in 0..MaxFaults
      PROVE  IInv'
  <2> DEFINE a == [code |-> "success", tx |-> tx]
  <2>1. a \in UnSignAnswer /\ a \in AnswersTo(req[c]) /\ a # Absent /\ a.tx = tx
    <3>1. a \in UnSignAnswer /\ a.tx = tx
      BY DEF UnSignAnswer
    <3>2. AnswersTo(req[c]) = UnSignAnswer
      BY <1>1, <1>2 DEF AnswersTo
    <3>3. Absent \notin UnSignAnswer
      BY DEF UnSignAnswer
    <3> QED
      BY <3>1, <3>2, <3>3
  <2>2. Answers(c, a)
    BY <1>5
  <2> HIDE DEF a
  <2>3. TypeOK' /\ CallMoves(c) /\ Method(c)' /\ pc'[c] = "done" /\ answer'[c] = a
    BY <1>0, <1>3, <1>5, <2>1, <2>2, AnswerMoves DEF TypeOK
  <2>4. CallInv(c)'
    BY <1>0, <1>1, <1>2, <1>3, <1>5, <2>1, <2>3
       DEF CallInv, Unsigned, RowOf, Signing, Token, Known
  <2> QED
    BY <1>3, <2>3, <2>4, MovePreserves
<1> QED
  BY <1>0, <1>1, <1>4, <1>5, FaultIsCounted DEF Build, TypeOK

\* The row that is looked up is known.
LEMMA KnownRow ==
    ASSUME IInv, NEW c \in Call, req[c] \in SignRequest
    PROVE  /\ req[c].id \in Call /\ req[c].id # c /\ Known(req[c].id)
           /\ rows[req[c].id] \in Row /\ rows[req[c].id] # Absent
           /\ rows[req[c].id].tx \in Order /\ req[c].chain \in Chains
           /\ OnChain(rows[req[c].id].tx, req[c].chain) \in Tx
<1>1. req[c].id \in Call /\ Known(req[c].id)
  BY DEF IInv, CallInv, Signing, SignRequest
<1>2. rows[req[c].id] # Absent /\ req[req[c].id].method = "unsign"
  BY <1>1 DEF IInv, CallInv, Unsigned, Known
<1>3. req[c].method = "sign"
  BY Kinds
<1>4. rows[req[c].id] \in Row
  BY <1>1, <1>2 DEF IInv, TypeOK
<1>5. rows[req[c].id].tx \in Order
  BY <1>4 DEF Row
<1>6. req[c].chain \in Chains
  BY DEF SignRequest
<1>7. OnChain(rows[req[c].id].tx, req[c].chain) \in Tx
  BY <1>5, <1>6, OnChainIsTx
<1> QED
  BY <1>1, <1>2, <1>3, <1>4, <1>5, <1>6, <1>7

LEMMA QueryPreserves ==
    ASSUME IInv, NEW c \in Call, Query(c)
    PROVE  IInv'
<1>0. TypeOK /\ CallInv(c) /\ pc[c] = "query" /\ Up
  BY DEF IInv, Query, At
<1>1. req[c] \in SignRequest /\ req[c] \notin UnSignRequest \union TokenRequest
  BY <1>0, Kinds DEF CallInv, Method
<1>2. CASE Refuse(c) /\ UNCHANGED draft
  <2>1. faults' \in 0..MaxFaults
    BY <1>0, FaultIsCounted DEF Query, TypeOK
  <2> QED
    BY <1>0, <1>2, <2>1, RefusePreserves DEF Query, bookVars
<1>3. CASE /\ req[c].type \in TxTypes /\ Found(req[c])
           /\ draft' = [draft EXCEPT ![c] = OnChain(rows[req[c].id].tx, req[c].chain)]
           /\ Goto(c, "nonce") /\ UNCHANGED <<answer, faults>>
  <2> DEFINE d == OnChain(rows[req[c].id].tx, req[c].chain)
  <2>1. d \in Tx \union {Absent} /\ Drafts(c, d)
    BY <1>1, <1>3, KnownRow DEF Drafts
  <2> HIDE DEF d
  <2>2. TypeOK' /\ CallMoves(c) /\ pc'[c] = "nonce" /\ draft'[c] = d /\ answer'[c] = Absent
    BY <1>0, <1>3, <2>1, GoOnMoves DEF Query
  <2>3. UNCHANGED <<req, rows, tokens, asked>>
    BY DEF Query, bookVars
  <2>4. Known(req[c].id)'
    BY <1>0, <1>1, <2>2, <2>3, KnownRow, KnownStays
  <2>5. rows[c] = Absent
    BY <1>0 DEF CallInv, Unsigned
  <2>6. CallInv(c)'
    BY <1>1, <1>3, <2>2, <2>3, <2>4, <2>5
       DEF CallInv, Method, Unsigned, Signing, Token, Known, Found, d
  <2> QED
    BY <2>2, <2>3, <2>6, MovePreserves
<1> QED
  BY <1>2, <1>3 DEF Query

LEMMA SignPreserves ==
    ASSUME IInv, NEW c \in Call, Sign(c)
    PROVE  IInv'
<1>0. TypeOK /\ CallInv(c) /\ pc[c] = "sign" /\ Up
  BY DEF IInv, Sign, At
<1>1. req[c] \in SignRequest /\ req[c] \notin UnSignRequest \union TokenRequest
  BY <1>0, Kinds DEF CallInv, Method
<1>2. /\ Found(req[c]) /\ draft[c] = OnChain(rows[req[c].id].tx, req[c].chain)
      /\ draft[c] \in Tx /\ rows[c] = Absent
      /\ Drafts(c, draft[c]) /\ UNCHANGED <<processVars, req, draft, rows, tokens>>
  BY <1>0, <1>1, KnownRow DEF CallInv, Signing, Unsigned, Sign, Drafts, TypeOK
<1>3. /\ asked' = asked \union {[call |-> c, tx |-> draft[c]]}
      /\ asked' \subseteq [call : Call, tx : Tx]
  BY <1>0, <1>1, <1>2, KnownRow DEF Sign, TypeOK
<1>4. signature' \in [Call -> Tx \union {Absent}]
  BY <1>0, <1>2 DEF Sign, TypeOK
<1>5. faults' \in 0..MaxFaults
  BY <1>0, FaultIsCounted DEF Sign, TypeOK
<1>6. TypeOK' /\ CallMoves(c) /\ CallInv(c)'
  <2>1. CASE Goto(c, "update") /\ UNCHANGED answer
    <3>1. /\ TypeOK' /\ CallMoves(c)
          /\ pc'[c] = "update" /\ draft'[c] = draft[c] /\ answer'[c] = Absent
      <4>1. rows \in [Call -> Row \union {Absent}] /\ draft[c] \in Tx \union {Absent}
        BY <1>0, <1>2 DEF TypeOK
      <4> QED
        BY <1>0, <1>2, <1>3, <1>4, <1>5, <2>1, <4>1, GoMoves
    <3>2. Known(req[c].id)'
      BY <1>0, <1>1, <1>2, <3>1, KnownRow, KnownStays
    <3>3. CallInv(c)'
      BY <1>1, <1>2, <3>1, <3>2 DEF CallInv, Method, Unsigned, Signing, Token, Known, Found
    <3> QED
      BY <3>1, <3>3
  <2>2. CASE Refuse(c)
    <3>1. tokens \subseteq TokenRow /\ rows \in [Call -> Row \union {Absent}]
      BY <1>0 DEF TypeOK
    <3> QED
      BY <1>0, <1>2, <1>3, <1>4, <1>5, <2>2, <3>1, RefuseMoves
  <2> QED
    BY <2>1, <2>2 DEF Sign
<1>7. \A d \in Call : CallInv(d)'
  BY <1>6, OthersKeep
<1>8. ServerInv'
  BY <1>6 DEF CallMoves, Up, processVars, ServerInv
<1>9. AskedInv'
  <2>1. ASSUME NEW a \in asked PROVE OfItsRow(a.call, a.tx)'
    BY <1>6, AskedStays DEF IInv, AskedInv, TypeOK
  <2>2. OfItsRow(c, draft[c])
    BY <1>1, <1>2, KnownRow DEF OfItsRow
  <2>3. ASSUME NEW tx, tx = draft[c] PROVE OfItsRow(c, tx)'
    BY <1>6, <2>2, <2>3, AskedStays
  <2>4. ASSUME NEW a \in asked' PROVE OfItsRow(a.call, a.tx)'
    <3>1. a \in asked \/ (a.call = c /\ a.tx = draft[c])
      BY <1>3
    <3>2. CASE a.call = c /\ a.tx = draft[c]
      BY <2>3, <3>2
    <3> QED
      BY <2>1, <3>1, <3>2
  <2> QED
    BY <2>4 DEF AskedInv
<1> QED
  BY <1>6, <1>7, <1>8, <1>9 DEF IInv

LEMMA UpdatePreserves ==
    ASSUME IInv, NEW c \in Call, Update(c)
    PROVE  IInv'
<1>0. TypeOK /\ CallInv(c) /\ pc[c] = "update" /\ Up
  BY DEF IInv, Update, At
<1>1. req[c] \in SignRequest /\ req[c] \notin UnSignRequest \union TokenRequest
  BY <1>0, Kinds DEF CallInv, Method
<1>2. UNCHANGED <<processVars, req, draft, signature, tokens, asked>>
  BY DEF Update
<1>3. faults' \in 0..MaxFaults
  BY <1>0, FaultIsCounted DEF Update, TypeOK
<1>4. CASE UNCHANGED rows /\ Refuse(c)
  BY <1>0, <1>2, <1>3, <1>4, RefusePreserves
<1>5. CASE rows' = [rows EXCEPT ![req[c].id] = SignedRow(@, signature[c])]
  <2> DEFINE i == req[c].id
             row == SignedRow(rows[i], signature[c])
  <2>1. i \in Call /\ i # c /\ Known(i) /\ rows[i] \in Row /\ rows[i] # Absent
    BY <1>1, KnownRow
  <2> HIDE DEF i
  <2>2. /\ row \in Row /\ row.tx = rows[i].tx /\ row.table = rows[i].table
        /\ row.business = rows[i].business /\ row.status = "signed"
        /\ row.table # "deposits" /\ signature[c] = Absent => row.hex = rows[i].hex
        /\ signature[c] # Absent => row.hex = signature[c]
    <3>1. signature[c] \in Tx \union {Absent}
      BY <1>0 DEF TypeOK
    <3>2. /\ rows[i].table \in {"deposits", "withdraws", "internals"}
          /\ rows[i] = [table |-> rows[i].table, business |-> rows[i].business,
                        tx |-> rows[i].tx, status |-> rows[i].status, hex |-> rows[i].hex]
          /\ rows[i].business \in Business /\ rows[i].tx \in Order
          /\ rows[i].hex \in Tx \union {Absent}
      BY <2>1 DEF Row
    <3>3. PICK hex \in Tx \union {Absent} :
              /\ row = [rows[i] EXCEPT !.status = "signed", !.hex = hex]
              /\ rows[i].table # "deposits" /\ signature[c] = Absent => hex = rows[i].hex
              /\ signature[c] # Absent => hex = signature[c]
      <4>1. CASE signature[c] = Absent /\ rows[i].table # "deposits"
        <5>1. row = [rows[i] EXCEPT !.status = "signed", !.hex = rows[i].hex]
          BY <3>2, <4>1 DEF SignedRow
        <5> QED
          BY <3>2, <4>1, <5>1
      <4>2. CASE ~(signature[c] = Absent /\ rows[i].table # "deposits")
        BY <3>1, <4>2 DEF SignedRow
      <4> QED
        BY <4>1, <4>2
    <3>4. row = [table |-> rows[i].table, business |-> rows[i].business, tx |-> rows[i].tx,
                 status |-> "signed", hex |-> hex]
      BY <3>2, <3>3
    <3> HIDE DEF row
    <3> QED
      BY <3>2, <3>3, <3>4 DEF Row
  <2>3. row # Absent
    BY <2>2
  <2>4. rows' = [rows EXCEPT ![i] = row]
    BY <1>5 DEF i
  <2> HIDE DEF row
  <2>5. /\ rows' \in [Call -> Row \union {Absent}] /\ rows'[i] = row
        /\ \A j \in Call \ {i} : rows'[j] = rows[j]
    BY <1>0, <2>1, <2>2, <2>4 DEF TypeOK
  <2>6. \A j \in Call : rows[j] # Absent =>
           /\ rows'[j] # Absent
           /\ rows'[j].tx = rows[j].tx /\ rows'[j].table = rows[j].table
           /\ rows'[j].business = rows[j].business
           /\ rows[j].status = "signed" => rows'[j].status = "signed"
           /\ Held(j) => Held(j)'
    BY <2>1, <2>2, <2>3, <2>5
  <2>7. \A j \in Call : rows[j] = Absent => rows'[j] = Absent
    BY <2>1, <2>5
  <2>8. rows[c] = Absent /\ rows'[c] = Absent
    BY <1>0, <2>7 DEF CallInv, Unsigned
  <2>9. CASE Refuse(c)
    <3>1. TypeOK' /\ CallMoves(c) /\ CallInv(c)'
      BY <1>0, <1>2, <1>3, <2>5, <2>6, <2>7, <2>8, <2>9, RefuseMoves DEF TypeOK
    <3> QED
      BY <1>2, <3>1, MovePreserves
  <2>10. CASE Answers(c, [code |-> "success", tx |-> signature[c]])
    <3> DEFINE a == [code |-> "success", tx |-> signature[c]]
    <3>1. a \in SignAnswer /\ a.tx = signature[c]
      BY <1>0 DEF SignAnswer, TypeOK
    <3>2. AnswersTo(req[c]) = SignAnswer
      BY <1>1 DEF AnswersTo
    <3>3. Absent \notin SignAnswer
      BY DEF SignAnswer
    <3>4. Answers(c, a)
      BY <2>10
    <3> HIDE DEF a
    <3>5. TypeOK' /\ CallMoves(c) /\ Method(c)' /\ pc'[c] = "done" /\ answer'[c] = a
      BY <1>0, <1>2, <1>3, <2>5, <2>6, <2>7, <3>1, <3>2, <3>3, <3>4, AnswerMoves DEF TypeOK
    <3>6. Known(req[c].id)' /\ req'[c].id = i
      BY <1>0, <1>2, <2>1, <3>5, KnownStays DEF i
    <3>7. req'[c].method = "sign"
      BY <1>1, <1>2, Kinds
    <3>8. Unsigned(c)'
      BY <2>8, <3>5, <3>7 DEF Unsigned, Known
    <3>9. Signing(c)'
      BY <2>2, <2>5, <3>1, <3>5, <3>6 DEF Signing
    <3>10. Token(c)'
      BY <1>1, <1>2 DEF Token
    <3> QED
      BY <1>2, <3>5, <3>8, <3>9, <3>10, MovePreserves DEF CallInv
  <2> QED
    BY <1>4, <2>9, <2>10 DEF Update
<1> QED
  BY <1>4, <1>5 DEF Update

LEMMA SetTokenPreserves ==
    ASSUME IInv, NEW c \in Call, SetToken(c)
    PROVE  IInv'
<1>0. TypeOK /\ CallInv(c) /\ pc[c] = "token" /\ Up
  BY DEF IInv, SetToken, At
<1>1. req[c] \in TokenRequest /\ req[c] \notin UnSignRequest \union SignRequest
  BY <1>0, Kinds DEF CallInv, Method
<1>2. UNCHANGED <<processVars, req, draft, signature, rows, asked>>
  BY DEF SetToken
<1>3. faults' \in 0..MaxFaults
  BY <1>0, FaultIsCounted DEF SetToken, TypeOK
<1>4. tokens \subseteq tokens' /\ tokens' \subseteq TokenRow /\ rows[c] = Absent
  <2>1. ASSUME req[c].amount \in Int PROVE NewToken(req[c]) \in TokenRow
    <3>1. AddressOf[req[c].token] \in Address /\ req[c].business \in Business
      BY <1>1 DEF TokenRequest
    <3> QED
      BY <2>1, <3>1 DEF NewToken, TokenRow
  <2>2. tokens' = tokens \/ (req[c].amount \in Int /\ tokens' = tokens \union {NewToken(req[c])})
    BY DEF SetToken
  <2>3. rows[c] = Absent /\ tokens \subseteq TokenRow
    BY <1>0 DEF TypeOK, CallInv, Unsigned
  <2> QED
    BY <2>1, <2>2, <2>3
<1>5. TypeOK' /\ CallMoves(c) /\ CallInv(c)'
  <2>1. CASE Refuse(c)
    BY <1>0, <1>2, <1>3, <1>4, <2>1, RefuseMoves DEF TypeOK
  <2>2. CASE Answers(c, [code |-> "success"]) /\ NewToken(req[c]) \in tokens'
    <3> DEFINE a == [code |-> "success"]
    <3>1. a \in TokenAnswer
      BY DEF TokenAnswer
    <3>2. AnswersTo(req[c]) = TokenAnswer
      BY <1>1 DEF AnswersTo
    <3>3. Absent \notin TokenAnswer
      BY DEF TokenAnswer
    <3>4. Answers(c, a)
      BY <2>2
    <3> HIDE DEF a
    <3>5. TypeOK' /\ CallMoves(c) /\ Method(c)' /\ pc'[c] = "done" /\ answer'[c] = a
      BY <1>0, <1>2, <1>3, <1>4, <3>1, <3>2, <3>3, <3>4, AnswerMoves DEF TypeOK
    <3>6. req'[c].method = "token"
      BY <1>1, <1>2, Kinds
    <3>7. Unsigned(c)' /\ Signing(c)' /\ Token(c)'
      BY <1>1, <1>2, <1>4, <2>2, <3>5, <3>6 DEF Unsigned, Signing, Token, Known
    <3> QED
      BY <3>5, <3>7 DEF CallInv
  <2> QED
    BY <2>1, <2>2 DEF SetToken
<1> QED
  BY <1>2, <1>5, MovePreserves

LEMMA ReceivePreserves ==
    ASSUME IInv, NEW c \in Call, NEW r \in Request, r \in SignRequest => Known(r.id),
           Receive(c, r)
    PROVE  IInv'
<1>0. /\ TypeOK /\ CallInv(c) /\ pc[c] = "none" /\ Up
      /\ answer[c] = Absent /\ rows[c] = Absent /\ req[c] = Absent
  BY DEF IInv, Receive, TypeOK, CallInv, Unsigned
<1>1. UNCHANGED <<processVars, draft, signature, answer, rows, tokens, asked, faults>>
  BY DEF Receive, bookVars
<1>2. /\ req' \in [Call -> Request \union {Absent}] /\ req'[c] = r
      /\ \A d \in Call \ {c} : req'[d] = req[d]
  BY <1>0 DEF Receive, TypeOK
<1>3. PICK label : label = CASE r.method = "unsign" -> "validate"
                             [] r.method = "sign" -> "query"
                             [] r.method = "token" -> "token"
  OBVIOUS
<1>4. /\ label \in {"validate", "query", "token"}
      /\ label = "validate" <=> r \in UnSignRequest
      /\ label = "query" <=> r \in SignRequest
      /\ label = "token" <=> r \in TokenRequest
  BY <1>3, Kinds
<1>5. /\ pc' \in [Call -> {"none", "validate", "nonce", "fee", "store", "build", "query",
                           "sign", "update", "token", "done", "cut"}]
      /\ pc'[c] = label /\ \A d \in Call \ {c} : pc'[d] = pc[d]
  BY <1>0, <1>3, <1>4 DEF Receive, Goto, TypeOK
<1>6. \A d \in Call :
         /\ (req'[d] = Absent) <=> (pc'[d] = "none")
         /\ (answer'[d] = Absent) <=> (pc'[d] # "done")
         /\ answer'[d] \in {Refused, Absent} \union AnswersTo(req'[d])
  BY <1>0, <1>1, <1>2, <1>4, <1>5 DEF TypeOK
<1>7. TypeOK'
  BY <1>0, <1>1, <1>2, <1>5, <1>6 DEF TypeOK, processVars
<1>8. CallMoves(c)
  BY <1>0, <1>1, <1>2, <1>5 DEF CallMoves
<1>9. r \in SignRequest => Known(r.id)'
  BY <1>0, <1>8, KnownStays DEF SignRequest
<1>10. CallInv(c)'
  BY <1>0, <1>1, <1>2, <1>4, <1>5, <1>9
     DEF CallInv, Method, Unsigned, Signing, Token, Known
<1> QED
  BY <1>1, <1>7, <1>8, <1>10, MovePreserves

LEMMA ReceiveSignPreserves ==
    ASSUME IInv, NEW c \in Call, ReceiveSign(c)
    PROVE  IInv'
<1>1. PICK i \in Call, b \in Business, t \in SignTypes, n \in Chains :
          /\ Known(i)
          /\ Receive(c, [method |-> "sign", business |-> b, type |-> t, chain |-> n, id |-> i])
  BY DEF ReceiveSign
<1> DEFINE r == [method |-> "sign", business |-> b, type |-> t, chain |-> n, id |-> i]
<1>2. r \in Request /\ r.id = i
  BY DEF SignRequest
<1> HIDE DEF r
<1>3. Receive(c, r) /\ Known(r.id)
  BY <1>1, <1>2 DEF r
<1> QED
  BY <1>2, <1>3, ReceivePreserves

-----------------------------------------------------------------------------
\* The steps of the process.

\* A step that leaves calls and tables alone, and does not end what serves.
LEMMA ProcessPreserves ==
    ASSUME IInv, UNCHANGED callVars, UNCHANGED bookVars, faults' \in 0..MaxFaults,
           server' \in {"db", "client", "listen", "serving", "detached", "ended"},
           attempt' \in 0..(MaxAttempts - 1), stopped' \in BOOLEAN,
           server \in {"serving", "detached"} => server' \in {"serving", "detached"}
    PROVE  IInv'
<1>1. TypeOK'
  BY DEF IInv, TypeOK, callVars, bookVars
<1>2. ServerInv'
  BY DEF IInv, ServerInv, callVars, InFlight
<1>3. AskedInv'
  BY DEF IInv, AskedInv, OfItsRow, Known, callVars, bookVars
<1>4. ASSUME NEW c \in Call PROVE CallInv(c)'
  <2>1. CallInv(c)
    BY DEF IInv
  <2>2. Method(c)' /\ Token(c)'
    BY <2>1 DEF CallInv, Method, Token, callVars, bookVars
  <2>3. Unsigned(c)'
    BY <2>1 DEF CallInv, Unsigned, RowOf, Known, callVars, bookVars
  <2>4. Signing(c)'
    BY <2>1 DEF CallInv, Signing, Found, Known, callVars, bookVars
  <2> QED
    BY <2>2, <2>3, <2>4 DEF CallInv
<1> QED
  BY <1>1, <1>2, <1>3, <1>4 DEF IInv

\* A step that ends the process with the calls in flight.
LEMMA EndsPreserves ==
    ASSUME IInv, Ends, UNCHANGED bookVars, faults' \in 0..MaxFaults, UNCHANGED attempt,
           UNCHANGED stopped
    PROVE  IInv'
<1>1. /\ server' = "ended" /\ UNCHANGED <<req, draft, signature, answer, rows, tokens, asked>>
      /\ \A c \in Call : pc'[c] = IF InFlight(c) THEN "cut" ELSE pc[c]
  BY DEF Ends, bookVars
<1>2. \A c \in Call : pc'[c] = "cut" \/ (pc'[c] = pc[c] /\ pc[c] \in {"none", "done"})
  BY <1>1 DEF InFlight
<1>3. TypeOK'
  <2>1. pc' \in [Call -> {"none", "validate", "nonce", "fee", "store", "build", "query",
                         "sign", "update", "token", "done", "cut"}]
    BY <1>2 DEF Ends
  <2>2. \A c \in Call : pc'[c] = "none" <=> pc[c] = "none"
    BY <1>1 DEF InFlight
  <2>3. \A c \in Call : pc'[c] = "done" <=> pc[c] = "done"
    BY <1>1 DEF InFlight
  <2> QED
    BY <1>1, <2>1, <2>2, <2>3 DEF IInv, TypeOK
<1>4. ServerInv'
  BY <1>2 DEF ServerInv, InFlight
<1>5. AskedInv'
  BY <1>1 DEF IInv, AskedInv, OfItsRow, Known
<1>6. ASSUME NEW c \in Call PROVE CallInv(c)'
  <2>1. CallInv(c)
    BY DEF IInv
  <2>2. pc'[c] = "cut" \/ (pc'[c] = pc[c] /\ pc[c] \in {"none", "done"})
    BY <1>2
  <2>3. Method(c)' /\ Token(c)'
    BY <1>1, <2>1, <2>2 DEF CallInv, Method, Token
  <2>4. Unsigned(c)'
    BY <1>1, <2>1, <2>2 DEF CallInv, Unsigned, RowOf, Known
  <2>5. Signing(c)'
    BY <1>1, <2>1, <2>2 DEF CallInv, Signing, Found, Known
  <2> QED
    BY <2>3, <2>4, <2>5 DEF CallInv
<1> QED
  BY <1>3, <1>4, <1>5, <1>6 DEF IInv

LEMMA ProcessStepsPreserve ==
    ASSUME IInv, Process \/ ServeFails \/ Stop \/ Restart
    PROVE  IInv'
<1>0. TypeOK
  BY DEF IInv
<1>1. CASE OpenDB
  BY <1>0, <1>1, ProcessPreserves DEF OpenDB, TypeOK
<1>2. CASE Start
  BY <1>0, <1>2, ProcessPreserves DEF Start, TypeOK
<1>3. CASE Listen
  <2>1. faults' \in 0..MaxFaults
    BY <1>0, <1>3, FaultIsCounted DEF Listen, TypeOK
  <2>2. CASE server' = "serving" /\ UNCHANGED callVars
    BY <1>0, <1>3, <2>1, <2>2, ProcessPreserves DEF Listen, TypeOK
  <2>3. CASE Ends
    BY <1>3, <2>1, <2>3, EndsPreserves DEF Listen
  <2> QED
    BY <1>3, <2>2, <2>3 DEF Listen
<1>4. CASE Exit
  BY <1>0, <1>4, EndsPreserves DEF Exit, TypeOK
<1>5. CASE Stop
  <2>1. faults' \in 0..MaxFaults
    BY <1>0, <1>5, FaultIsCounted DEF Stop
  <2> QED
    BY <1>0, <1>5, <2>1, ProcessPreserves DEF Stop, TypeOK
<1>6. CASE Restart
  BY <1>0, <1>6, ProcessPreserves DEF Restart, TypeOK
<1>7. CASE ServeFails
  <2>1. faults' \in 0..MaxFaults
    BY <1>0, <1>7, FaultIsCounted DEF ServeFails
  <2> QED
    BY <1>0, <1>7, <2>1, ProcessPreserves DEF ServeFails, TypeOK
<1> QED
  BY <1>1, <1>2, <1>3, <1>4, <1>5, <1>6, <1>7 DEF Process

-----------------------------------------------------------------------------
\* The invariant.

LEMMA InitIInv == Init => IInv
<1> SUFFICES ASSUME Init PROVE IInv
  OBVIOUS
<1>1. TypeOK
  <2>1. /\ server \in {"db", "client", "listen", "serving", "detached", "ended"}
        /\ attempt \in 0..(MaxAttempts - 1) /\ stopped \in BOOLEAN
        /\ faults \in 0..MaxFaults
    <3>1. server = "db" /\ attempt = 0 /\ stopped = FALSE /\ faults = 0
      BY DEF Init
    <3>2. MaxAttempts \in Nat /\ MaxAttempts > 0 /\ MaxFaults \in Nat
      OBVIOUS
    <3>3. attempt \in 0..(MaxAttempts - 1)
      BY <3>1, <3>2
    <3>4. stopped \in BOOLEAN
      BY <3>1
    <3>5. faults \in 0..MaxFaults
      BY <3>1, <3>2
    <3> QED
      BY <3>1, <3>3, <3>4, <3>5
  <2>2. /\ pc \in [Call -> {"none", "validate", "nonce", "fee", "store", "build", "query",
                            "sign", "update", "token", "done", "cut"}]
        /\ req \in [Call -> Request \union {Absent}] /\ rows \in [Call -> Row \union {Absent}]
        /\ draft \in [Call -> Tx \union {Absent}] /\ signature \in [Call -> Tx \union {Absent}]
        /\ DOMAIN answer = Call
    <3>1. ASSUME NEW S PROVE [c \in Call |-> Absent] \in [Call -> S \union {Absent}]
      OBVIOUS
    <3>2. /\ pc = [c \in Call |-> "none"] /\ req = [c \in Call |-> Absent]
          /\ draft = [c \in Call |-> Absent] /\ signature = [c \in Call |-> Absent]
          /\ answer = [c \in Call |-> Absent] /\ rows = [c \in Call |-> Absent]
      BY DEF Init
    <3> HIDE DEF Request
    <3> QED
      BY <3>1, <3>2
  <2>3. \A c \in Call : pc[c] = "none" /\ req[c] = Absent /\ answer[c] = Absent
    BY DEF Init
  <2>4. tokens \subseteq TokenRow /\ asked \subseteq [call : Call, tx : Tx]
    BY DEF Init
  <2> QED
    BY <2>1, <2>2, <2>3, <2>4 DEF TypeOK
<1>2. \A c \in Call : CallInv(c)
  <2> SUFFICES ASSUME NEW c \in Call PROVE CallInv(c)
    OBVIOUS
  <2>1. /\ pc[c] = "none" /\ req[c] = Absent /\ answer[c] = Absent /\ rows[c] = Absent
    BY DEF Init
  <2>2. Absent \notin UnSignRequest \union SignRequest \union TokenRequest
    OBVIOUS
  <2> QED
    BY <2>1, <2>2 DEF CallInv, Method, Unsigned, Signing, Token, Known
<1>3. ServerInv /\ AskedInv
  BY DEF Init, ServerInv, AskedInv, InFlight
<1> QED
  BY <1>1, <1>2, <1>3 DEF IInv

LEMMA NextIInv ==
    ASSUME IInv, [Next]_vars
    PROVE  IInv'
<1>1. CASE Process \/ ServeFails \/ Stop \/ Restart
  BY <1>1, ProcessStepsPreserve
<1>2. ASSUME NEW c \in Call, Handle(c) PROVE IInv'
  BY <1>2, ValidatePreserves, GetAccountPreserves, GetFeePreserves, StorePreserves,
     BuildPreserves, QueryPreserves, SignPreserves, UpdatePreserves, SetTokenPreserves
     DEF Handle
<1>3. ASSUME NEW c \in Call, Panic(c) PROVE IInv'
  BY <1>3, PanicPreserves
<1>4. ASSUME NEW c \in Call, ReceiveSign(c) PROVE IInv'
  BY <1>4, ReceiveSignPreserves
<1>5. ASSUME NEW c \in Call, NEW r \in Requests, Receive(c, r) PROVE IInv'
  <2>1. r \in Request /\ r \notin SignRequest
    <3>1. r \in UnSignRequest \union TokenRequest
      OBVIOUS
    <3> QED
      BY <3>1, Kinds
  <2> QED
    BY <1>5, <2>1, ReceivePreserves
<1>6. CASE UNCHANGED vars
  <2>1. UNCHANGED callVars /\ UNCHANGED bookVars /\ UNCHANGED processVars /\ UNCHANGED faults
    BY <1>6 DEF vars
  <2> QED
    BY <2>1, ProcessPreserves DEF processVars, IInv, TypeOK
<1> QED
  BY <1>1, <1>2, <1>3, <1>4, <1>5, <1>6 DEF Next

LEMMA AlwaysIInv == Spec => []IInv
BY InitIInv, NextIInv, PTL DEF Spec

\* Whatever is asked and whatever fails, requests, rows and answers are of the
\* messages and tables of the service (exchange-wallet.proto, handler.go).
THEOREM TypeCorrect == Spec => []TypeOK
<1>1. IInv => TypeOK
  BY DEF IInv
<1> QED
  BY <1>1, AlwaysIInv, PTL

\* For any requests, texts of addresses, chains and fees, however the calls
\* interleave, what the node is asked to sign is what the business was given, but
\* for two things: its addresses are what HexToAddress reads in the texts given,
\* and its chain is the one the request to sign names, whether or not it is the
\* chain of the request to build (handler.go:193-203, 307-317).
THEOREM SignsAsOrdered == Spec => []SignedAsOrdered
<1>1. ASSUME IInv PROVE SignedAsOrdered
  <2> SUFFICES ASSUME NEW a \in asked, answer[req[a.call].id].tx # Absent
               PROVE  a.tx = OnChain(OrderOf(answer[req[a.call].id].tx), req[a.call].chain)
    BY DEF SignedAsOrdered
  <2> DEFINE i == req[a.call].id
  <2>1. /\ i \in Call /\ Known(i) /\ rows[i] # Absent
        /\ a.tx = OnChain(rows[i].tx, req[a.call].chain)
    BY <1>1 DEF IInv, AskedInv, OfItsRow, SignRequest
  <2> HIDE DEF i
  <2>2. RowOf(i) /\ answer[i].tx \in {Absent, draft[i]}
    BY <1>1, <2>1 DEF IInv, CallInv, Unsigned
  <2>3. rows[i].tx = OrderOf(draft[i])
    BY <2>2 DEF RowOf
  <2> QED
    BY <2>1, <2>2, <2>3 DEF i
<1> QED
  BY <1>1, AlwaysIInv, PTL

\* A withdrawal or an internal transfer whose signed transaction was answered
\* has one to send for good, however often it is built signed again and whatever
\* the node answers (withdraws.go:101-106, internals.go:134-140).
THEOREM SignedIsHeldForGood == Spec => []SignedIsHeld
<1>1. ASSUME IInv PROVE SignedIsHeld
  <2> SUFFICES ASSUME NEW c \in Call, answer[c] # Absent, answer[c].code = "success",
                      req[c].method = "sign", answer[c].tx # Absent
               PROVE  Held(req[c].id)
    BY DEF SignedIsHeld
  <2>1. Signing(c) /\ req[c] \in Request
    BY <1>1 DEF IInv, CallInv, TypeOK
  <2>2. req[c] \in SignRequest
    BY <2>1, Kinds
  <2> QED
    BY <2>1, <2>2 DEF Signing
<1> QED
  BY <1>1, AlwaysIInv, PTL

\* Every success that was answered is in the tables, even if the process has
\* ended since (handler.go:171-190, 336-356, 379-389).
THEOREM SuccessIsStored == Spec => []AnsweredIsStored
<1>1. ASSUME IInv PROVE AnsweredIsStored
  <2> SUFFICES ASSUME NEW c \in Call, answer[c] # Absent, answer[c].code = "success"
               PROVE  CASE req[c].method = "unsign" ->
                              /\ rows[c] # Absent
                              /\ rows[c].table = TableOf(req[c].type)
                              /\ rows[c].business = req[c].business
                              /\ rows[c].tx.to = AddressOf[req[c].to]
                              /\ rows[c].tx.amount = req[c].value
                        [] req[c].method = "sign" -> rows[req[c].id].status = "signed"
                        [] req[c].method = "token" -> NewToken(req[c]) \in tokens
    BY DEF AnsweredIsStored
  <2>1. CallInv(c) /\ TypeOK
    BY <1>1 DEF IInv
  <2>2. req[c] \in Request
    BY <2>1 DEF TypeOK
  <2>3. CASE req[c].method = "unsign"
    <3>1. RowOf(c) /\ rows[c] # Absent
      BY <2>1, <2>3 DEF CallInv, Unsigned, Known
    <3>2. draft[c].to = req[c].to /\ draft[c].amount = req[c].value
          /\ rows[c].tx = OrderOf(draft[c])
      BY <3>1 DEF RowOf
    <3>3. rows[c].tx.to = AddressOf[draft[c].to] /\ rows[c].tx.amount = draft[c].amount
      BY <3>2 DEF OrderOf
    <3> QED
      BY <2>3, <3>1, <3>2, <3>3 DEF RowOf
  <2>4. CASE req[c].method = "sign"
    BY <2>1, <2>2, <2>4, Kinds DEF CallInv, Signing
  <2>5. CASE req[c].method = "token"
    BY <2>1, <2>2, <2>5, Kinds DEF CallInv, Token
  <2> QED
    BY <2>2, <2>3, <2>4, <2>5, Kinds
<1> QED
  BY <1>1, AlwaysIInv, PTL

\* No step of a handler but Update touches a row that is there.
LEMMA RowsKept ==
    ASSUME IInv, NEW i \in Call, rows[i] # Absent, [Next]_vars
    PROVE  \/ rows'[i] = rows[i]
           \/ \E c \in Call : Update(c)
<1>1. ASSUME NEW c \in Call, Store(c) PROVE rows'[i] = rows[i]
  <2>1. rows[c] = Absent /\ DOMAIN rows = Call
    BY <1>1 DEF Store, At, IInv, CallInv, Unsigned, TypeOK
  <2> QED
    BY <1>1, <2>1 DEF Store
<1>2. CASE UNCHANGED rows
  BY <1>2
<1>3. CASE Process \/ ServeFails \/ Stop \/ Restart \/ UNCHANGED vars
  BY <1>2, <1>3
     DEF Process, OpenDB, Start, Listen, ServeFails, Exit, Stop, Restart, vars, bookVars
<1>4. ASSUME NEW c \in Call, NEW r, Receive(c, r) PROVE UNCHANGED rows
  BY <1>4 DEF Receive, bookVars
<1>5. ASSUME NEW c \in Call, Panic(c) \/ ReceiveSign(c) PROVE UNCHANGED rows
  BY <1>4, <1>5 DEF Panic, ReceiveSign, bookVars
<1>6. ASSUME NEW c \in Call,
             Validate(c) \/ GetAccount(c) \/ GetFee(c) \/ Build(c) \/ Query(c) \/ Sign(c)
                 \/ SetToken(c)
      PROVE  UNCHANGED rows
  BY <1>6 DEF Validate, GetAccount, GetFee, Build, Query, Sign, SetToken, bookVars
<1> QED
  BY <1>1, <1>2, <1>3, <1>4, <1>5, <1>6 DEF Next, Handle

\* A row is signed by a call for its own business and table, and keeps what it
\* orders, in every interleaving (handler.go:240-294, 336-349).
THEOREM SignedByItsCallOnly == Spec => SignedByItsCall
<1> DEFINE Kept(i) ==
              rows[i] # Absent =>
                  /\ rows'[i] # Absent
                  /\ rows'[i].table = rows[i].table /\ rows'[i].business = rows[i].business
                  /\ rows'[i].tx = rows[i].tx
                  /\ rows'[i].status # rows[i].status =>
                         \E c \in Call : /\ pc[c] = "update" /\ req[c].id = i
                                        /\ req[c].business = rows[i].business
                                        /\ TableOf(req[c].type) = rows[i].table
<1>1. ASSUME IInv, [Next]_vars PROVE \A i \in Call : Kept(i)
  <2> SUFFICES ASSUME NEW i \in Call, rows[i] # Absent PROVE Kept(i)
    OBVIOUS
  <2>1. CASE rows'[i] = rows[i]
    BY <2>1
  <2>2. ASSUME NEW c \in Call, Update(c), rows'[i] # rows[i] PROVE Kept(i)
    <3>1. TypeOK /\ CallInv(c) /\ pc[c] = "update" /\ req[c] \in SignRequest
      BY <1>1, <2>2 DEF IInv, Update, At, CallInv, Method
    <3>2. i = req[c].id /\ rows'[i] = SignedRow(rows[i], signature[c])
      BY <2>2, <3>1 DEF Update, TypeOK
    <3>3. rows[i] \in Row
      BY <3>1 DEF TypeOK
    <3>4. /\ SignedRow(rows[i], signature[c]) \in Row
          /\ SignedRow(rows[i], signature[c]).tx = rows[i].tx
          /\ SignedRow(rows[i], signature[c]).table = rows[i].table
          /\ SignedRow(rows[i], signature[c]).business = rows[i].business
      BY <3>1, <3>3 DEF SignedRow, Row, TypeOK
    <3>5. Found(req[c])
      BY <3>1 DEF CallInv, Signing
    <3>6. rows'[i] # Absent
      BY <3>2, <3>4
    <3> QED
      BY <3>1, <3>2, <3>4, <3>5, <3>6 DEF Found
  <2> QED
    BY <1>1, <2>1, <2>2, RowsKept
<1>2. ASSUME IInv, [Next]_vars PROVE [\A i \in Call : Kept(i)]_vars
  BY <1>1, <1>2
<1> QED
  BY <1>2, AlwaysIInv, PTL DEF Spec, SignedByItsCall

\* No call is cut but by the end of a process that was told to stop: the panic
\* of one handler leaves the other calls alone (service.go:92-106).
THEOREM CutOnlyByStop == Spec => CutByStopOnly
<1>1. ASSUME IInv, [Next]_vars PROVE \A c \in Call : pc[c] # "cut" /\ pc'[c] = "cut" => stopped
  <2> SUFFICES ASSUME NEW c \in Call, pc[c] # "cut", pc'[c] = "cut" PROVE stopped
    OBVIOUS
  <2>0. pc \in [Call -> {"none", "validate", "nonce", "fee", "store", "build", "query",
                         "sign", "update", "token", "done", "cut"}]
    BY <1>1 DEF IInv, TypeOK
  <2>1. CASE UNCHANGED pc
    BY <2>1
  <2>2. ASSUME NEW d \in Call, NEW label, label # "cut", Goto(d, label) PROVE FALSE
    BY <2>0, <2>2 DEF Goto
  <2>3. ASSUME NEW d \in Call, NEW a, Answers(d, a) PROVE FALSE
    BY <2>2, <2>3 DEF Answers
  <2>4. CASE Process \/ ServeFails \/ Stop \/ Restart \/ UNCHANGED vars
    <3>1. ASSUME Listen, Ends PROVE FALSE
      BY <1>1, <2>0, <3>1 DEF Listen, Ends, IInv, ServerInv
    <3> QED
      BY <2>1, <2>4, <3>1
         DEF Process, OpenDB, Start, Listen, ServeFails, Exit, Stop, Restart, vars, callVars
  <2>5. ASSUME NEW d \in Call, NEW r \in Request, Receive(d, r) PROVE FALSE
    <3>1. /\ r.method = "unsign" => Goto(d, "validate")
          /\ r.method = "sign" => Goto(d, "query")
          /\ r.method = "token" => Goto(d, "token")
      BY <2>5 DEF Receive
    <3> QED
      BY <2>2, <2>5, <3>1, Kinds
  <2>6. ASSUME NEW d \in Call, ReceiveSign(d) PROVE FALSE
    <3>1. PICK i \in Call, b \in Business, t \in SignTypes, n \in Chains :
              Receive(d, [method |-> "sign", business |-> b, type |-> t, chain |-> n, id |-> i])
      BY <2>6 DEF ReceiveSign
    <3>2. [method |-> "sign", business |-> b, type |-> t, chain |-> n, id |-> i] \in Request
      BY DEF SignRequest
    <3> QED
      BY <2>5, <3>1, <3>2
  <2>7. ASSUME NEW d \in Call, Panic(d) PROVE FALSE
    BY <2>3, <2>7 DEF Panic, Refuse
  <2>8. ASSUME NEW d \in Call, Handle(d) PROVE FALSE
    <3>1. GetAccount(d) => Refuse(d) \/ Goto(d, "fee") \/ Goto(d, "sign")
      BY DEF GetAccount
    <3> QED
      BY <2>2, <2>3, <2>8, <3>1
         DEF Handle, Validate, GetFee, Store, Build, Query, Sign, Update, SetToken, Refuse
  <2>9. Requests \subseteq Request
    OBVIOUS
  <2> QED
    BY <1>1, <2>4, <2>5, <2>6, <2>7, <2>8, <2>9 DEF Next
<1>2. ASSUME IInv, [Next]_vars
      PROVE  [\A c \in Call : pc[c] # "cut" /\ pc'[c] = "cut" => stopped]_vars
  BY <1>1, <1>2
<1> QED
  BY <1>2, AlwaysIInv, PTL DEF Spec, CutByStopOnly
=============================================================================
