------------------------------ MODULE Balances ------------------------------
(***************************************************************************)
(* The balance table of a business (database/balances.go) as a function:   *)
(* what a recorded transfer does to it, and what a fallback does to undo   *)
(* one.  An account is an address with a token.  A statement the table     *)
(* refuses, because the balance would leave the range of UINT256 at zero,  *)
(* makes the whole transaction fail, here the result NoRow.                *)
(***************************************************************************)
EXTENDS Integers, Sequences

CONSTANTS
    Account,      \* pairs of address and token address
    NoRow         \* no row; as a table, the failure of the transaction

ASSUME BalancesAssumption ==
    NoRow \notin Int /\ NoRow \notin [Account -> Nat \union {NoRow}]

Types == {"deposit", "withdraw", "collection", "hot2cold", "cold2hot"}

Credit(account, amount) == [account |-> account, amount |-> amount]
Debit(account, amount) == [account |-> account, amount |-> -amount]

\* QueryWalletBalanceByTokenAndAddress: a missing row is created with zero.
BalanceOf(table, account) == IF table[account] = NoRow THEN 0 ELSE table[account]

\* Mutant: a column that takes negative numbers.
SaveUnchecked(table, entry) ==
    IF table = NoRow THEN NoRow
    ELSE [table EXCEPT ![entry.account] =
              BalanceOf(table, entry.account) + entry.amount]

\* Mutant: a missing row is left missing, as the early return of the code says.
SaveExisting(table, entry) ==
    IF table = NoRow \/ BalanceOf(table, entry.account) + entry.amount < 0
    THEN NoRow
    ELSE IF table[entry.account] = NoRow THEN table
    ELSE [table EXCEPT ![entry.account] = @ + entry.amount]

\* UpdateAndSaveBalance on a row that was read a moment before.
Save(table, entry) ==
    IF table = NoRow \/ BalanceOf(table, entry.account) + entry.amount < 0
    THEN NoRow
    ELSE [table EXCEPT ![entry.account] =
              IF @ = NoRow THEN entry.amount ELSE @ + entry.amount]

-----------------------------------------------------------------------------
\* What each type of transfer does, in the order of its statements.

HandleDeposit(t) == <<Credit(t.to, t.amount)>>

HandleWithdraw(t) == <<Debit(t.from, t.amount)>>

HandleCollection(t) == <<Debit(t.from, t.amount), Credit(t.to, t.amount)>>

HandleHotToCold(t) == <<Debit(t.from, t.amount), Credit(t.to, t.amount)>>

HandleColdToHot(t) == <<Debit(t.from, t.amount), Credit(t.to, t.amount)>>

\* handleBalanceUpdate
BalanceUpdate(t) ==
    CASE t.type = "deposit" -> HandleDeposit(t)
      [] t.type = "withdraw" -> HandleWithdraw(t)
      [] t.type = "collection" -> HandleCollection(t)
      [] t.type = "hot2cold" -> HandleHotToCold(t)
      [] t.type = "cold2hot" -> HandleColdToHot(t)

Perform(table, entries) ==
    LET upTo[n \in 0..Len(entries)] ==
            IF n = 0 THEN table ELSE Save(upTo[n - 1], entries[n])
    IN  upTo[Len(entries)]

\* UpdateOrCreate: all transfers of the list, one after the other.
UpdateOrCreate(table, transfers) ==
    LET upTo[n \in 0..Len(transfers)] ==
            IF n = 0 THEN table ELSE Perform(upTo[n - 1], BalanceUpdate(transfers[n]))
    IN  upTo[Len(transfers)]

-----------------------------------------------------------------------------
\* The reversals.

HandleFallBackDeposit(t) == <<Debit(t.to, t.amount)>>

HandleFallBackWithdraw(t) == <<Credit(t.from, t.amount)>>

HandleFallBackCollection(t) == <<Credit(t.from, t.amount), Debit(t.to, t.amount)>>

HandleFallBackHotToCold(t) == <<Credit(t.from, t.amount), Debit(t.to, t.amount)>>

HandleFallBackColdToHot(t) == <<Credit(t.from, t.amount), Debit(t.to, t.amount)>>

\* The switch of UpdateFallBackBalance.
Reversal(t) ==
    CASE t.type = "deposit" -> HandleFallBackDeposit(t)
      [] t.type = "withdraw" -> HandleFallBackWithdraw(t)
      [] t.type = "collection" -> HandleFallBackCollection(t)
      [] t.type = "hot2cold" -> HandleFallBackHotToCold(t)
      [] t.type = "cold2hot" -> HandleFallBackColdToHot(t)

\* UpdateFallBackBalance: its loop returns from within the first iteration.
UpdateFallBackBalance(table, transfers) ==
    IF transfers = <<>> THEN table ELSE Perform(table, Reversal(Head(transfers)))

=============================================================================
