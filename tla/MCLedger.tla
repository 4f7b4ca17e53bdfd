------------------------------ MODULE MCLedger ------------------------------
(***************************************************************************)
(* Small instances of Ledger: what the blocks of each branch hold.         *)
(***************************************************************************)
EXTENDS Ledger

CONSTANTS b1, b2, user, hot, outside

Transfer(tx, business, type, from, to, amount) ==
    [tx |-> tx, business |-> business, type |-> type,
     from |-> from, to |-> to, amount |-> amount]

Deposit(tx, business, amount) ==
    Transfer(tx, business, "deposit", outside, user, amount)

\* Two businesses; the deposit t3 moves from block 3 to block 4 when block 3
\* is replaced, and is left out by one branch.
MCContent ==
    [hash \in (0..MaxHeight) \X (0..MaxReorgs) |->
        CASE hash = <<2, 0>> -> <<Deposit("t1", b1, 2), Deposit("t2", b2, 1)>>
          [] hash = <<3, 0>> -> <<Deposit("t3", b2, 1),
                                  Transfer("t4", b1, "collection", user, hot, 2),
                                  Transfer("t5", b1, "withdraw", hot, outside, 1)>>
          [] hash \in {<<3, 1>>, <<4, 2>>} ->
                 <<Transfer("t4", b1, "collection", user, hot, 2)>>
          [] hash \in {<<4, 0>>, <<4, 1>>} ->
                 <<Deposit("t3", b2, 1),
                   Transfer("t6", b1, "withdraw", hot, outside, 2)>>
          [] OTHER -> <<>>]

\* One transfer in a block: the deposit t1 moves up a block on branch 1.
MCOnePerBlock ==
    [hash \in (0..MaxHeight) \X (0..MaxReorgs) |->
        CASE hash = <<2, 0>> \/ hash = <<3, 1>> -> <<Deposit("t1", b1, 2)>>
          [] hash = <<3, 0>> -> <<Transfer("t2", b1, "collection", user, hot, 1)>>
          [] hash = <<3, 2>> \/ hash = <<4, 0>> -> <<Deposit("t3", b1, 1)>>
          [] OTHER -> <<>>]

\* A deposit of each of two businesses, of which the second is rolled back.
MCBothDeposit ==
    [hash \in (0..MaxHeight) \X (0..MaxReorgs) |->
        CASE hash = <<2, 0>> -> <<Deposit("t1", b2, 2)>>
          [] hash = <<3, 0>> -> <<Deposit("t2", b1, 1)>>
          [] OTHER -> <<>>]

=============================================================================
