----------------------------- MODULE MCServices -----------------------------
(***************************************************************************)
(* Module Services on three calls: a withdrawal of the coin with valid     *)
(* amount, an internal transfer of a token to a recipient whose address is *)
(* padded, a request that is refused, one the table refuses, and tokens;   *)
(* the node names one of two fees, the business one of two chains.         *)
(***************************************************************************)
EXTENDS Services

CONSTANTS hot, user, erc20, padded, biz, other, one, two, c1, c2, c3

MCCall == {c1, c2, c3}
MCBusiness == {biz, other}
MCAddress == {hot, user, erc20, Zero}
MCMalformed == {padded}
MCChains == {one, two}
MCFees == {[base |-> 1, tip |-> 1, mult |-> 2], [base |-> 3, tip |-> 1, mult |-> 1]}

MCAddressOf ==
    [t \in Text |-> IF t \in Address THEN t ELSE IF t = padded THEN user ELSE Zero]

AnOrder(type, to, value, contract) ==
    [method |-> "unsign", business |-> biz, type |-> type, chain |-> one, from |-> hot,
     to |-> to, value |-> value, contract |-> contract]
MCRequests ==
    {AnOrder("withdraw", user, 1, Native), AnOrder("collection", padded, 1, erc20),
     AnOrder("unknow", user, 1, Native), AnOrder("withdraw", user, -1, Native),
     [method |-> "token", business |-> biz, token |-> erc20, amount |-> 1],
     [method |-> "token", business |-> biz, token |-> erc20, amount |-> Junk]}
MCSignTypes == {"withdraw", "hot2cold"}
=============================================================================
