------------------------------ MODULE Accounts ------------------------------
(***************************************************************************)
(* What the books of the businesses promise while the chain keeps what the *)
(* scan has read: each business has a statement to which transfers are     *)
(* only ever added, each once; its accounts hold what the statement adds   *)
(* up to and are never overdrawn; and a business is told only of what is   *)
(* on its statement.                                                       *)
(***************************************************************************)
EXTENDS Integers, SequencesExt

CONSTANTS Business, Account

VARIABLES
    statement,    \* per business the transfers entered, oldest first
    book,         \* per business and account its balance
    reported      \* transactions a business has been told of

vars == <<statement, book, reported>>

\* What a transfer means for an account: money comes in with everything but a
\* withdrawal and goes out with everything but a deposit.
Effect(t, account) ==
    (IF t.type # "withdraw" /\ t.to = account THEN t.amount ELSE 0)
        - (IF t.type # "deposit" /\ t.from = account THEN t.amount ELSE 0)

EffectOfAll(transfers, account) ==
    LET upTo[n \in 0..Len(transfers)] ==
            IF n = 0 THEN 0 ELSE upTo[n - 1] + Effect(transfers[n], account)
    IN  upTo[Len(transfers)]

Entered == UNION {{statement[b][i].tx : i \in DOMAIN statement[b]} : b \in Business}

Init ==
    /\ statement = [b \in Business |-> <<>>]
    /\ book = [b \in Business |-> [a \in Account |-> 0]]
    /\ reported = {}

\* The transfers of a block, at least one, new to the business.
Enter(b, more) ==
    /\ more # <<>> /\ IsInjective(more)
    /\ \A i \in DOMAIN more : /\ more[i].business = b
                              /\ more[i] \notin ToSet(statement[b])
    /\ statement' = [statement EXCEPT ![b] = @ \o more]
    /\ \A a \in Account : book[b][a] + EffectOfAll(more, a) >= 0
    /\ book' = [book EXCEPT ![b] = [a \in Account |-> @[a] + EffectOfAll(more, a)]]
    /\ UNCHANGED reported

Report ==
    /\ reported' \subseteq Entered /\ reported \subseteq reported'
    /\ UNCHANGED <<statement, book>>

\* What is added is what the statement has more after the step than before it.
Entry(b) == SubSeq(statement'[b], Len(statement[b]) + 1, Len(statement'[b]))

Next == Report \/ \E b \in Business : Enter(b, Entry(b))

Spec == Init /\ [][Next]_vars

=============================================================================
