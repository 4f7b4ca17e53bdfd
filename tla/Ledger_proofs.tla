--------------------------- MODULE Ledger_proofs ---------------------------
(***************************************************************************)
(* Proofs about Ledger, for any chain, any blocks and any number of        *)
(* businesses, failures and restarts: types, deposits that follow the      *)
(* transactions, and, while reorganisations stay within the confirmations, *)
(* that reports are final, that balances add up, and that the books are    *)
(* those Accounts specifies.  When reorganisations reach one block more,   *)
(* which the scan may have stored: when a rollback is complete, and when   *)
(* it keeps the books.                                                     *)
(***************************************************************************)
EXTENDS Ledger, Lists_proofs, FiniteSetTheorems

-----------------------------------------------------------------------------
(***************************************************************************)
(* What the recorded transfers do to the balances.                         *)
(***************************************************************************)

Table == [Account -> Nat \union {NoRow}]

Entries == [account : Account, amount : Int]

\* The transaction failed, or each account changed by so much.
Outcome(result, table, change) ==
    \/ result = NoRow
    \/ /\ table \in Table /\ result \in Table
       /\ \A a \in Account : BalanceOf(result, a) = BalanceOf(table, a) + change[a]

ByEntry(e) == [a \in Account |-> IF a = e.account THEN e.amount ELSE 0]

\* A balance is a natural number.
LEMMA BalanceIsNat ==
    ASSUME NEW table \in Table, NEW a \in Account
    PROVE  BalanceOf(table, a) \in Nat
BY DEF BalanceOf, Table

LEMMA NoRowIsNoTable == NoRow \notin Table /\ NoRow \notin Int
BY BalancesAssumption DEF Table

LEMMA SaveOutcome ==
    ASSUME NEW table \in Table \union {NoRow}, NEW e \in Entries
    PROVE  /\ Save(table, e) \in Table \union {NoRow}
           /\ Outcome(Save(table, e), table, ByEntry(e))
<1> DEFINE acc == e.account
           amount == e.amount
           new == IF table[acc] = NoRow THEN amount ELSE table[acc] + amount
<1>0. acc \in Account /\ amount \in Int
  BY DEF Entries
<1>1. CASE table = NoRow \/ BalanceOf(table, acc) + amount < 0
  BY <1>1 DEF Save, Outcome
<1>2. CASE ~(table = NoRow \/ BalanceOf(table, acc) + amount < 0)
  <2>0. table \in Table /\ BalanceOf(table, acc) \in Nat /\ BalanceOf(table, acc) + amount >= 0
    BY <1>0, <1>2, BalanceIsNat
  <2>1. new = BalanceOf(table, acc) + amount
    <3>1. CASE table[acc] = NoRow
      BY <1>0, <3>1 DEF BalanceOf
    <3>2. CASE table[acc] # NoRow
      BY <1>0, <3>2 DEF BalanceOf
    <3> QED BY <3>1, <3>2
  <2>2. new \in Nat /\ new # NoRow
    BY <1>0, <2>0, <2>1, NoRowIsNoTable
  <2>3. Save(table, e) = [table EXCEPT ![acc] = new]
    BY <1>2 DEF Save
  <2> HIDE DEF new
  <2>4. Save(table, e) \in Table
    BY <1>0, <2>0, <2>2, <2>3 DEF Table
  <2>5. ASSUME NEW a \in Account
        PROVE  BalanceOf(Save(table, e), a) = BalanceOf(table, a) + ByEntry(e)[a]
    <3>1. CASE a = acc
      <4>1. Save(table, e)[a] = new
        BY <1>0, <2>0, <2>3, <3>1 DEF Table
      <4>2. BalanceOf(Save(table, e), a) = new
        BY <2>2, <4>1 DEF BalanceOf
      <4> QED BY <2>1, <3>1, <4>2 DEF ByEntry
    <3>2. CASE a # acc
      <4>1. Save(table, e)[a] = table[a]
        BY <1>0, <2>0, <2>3, <3>2 DEF Table
      <4>2. BalanceOf(Save(table, e), a) = BalanceOf(table, a) /\ BalanceOf(table, a) \in Nat
        BY <2>0, <4>1, BalanceIsNat DEF BalanceOf
      <4>3. ByEntry(e)[a] = 0
        BY <3>2 DEF ByEntry
      <4> QED BY <4>2, <4>3
    <3> QED BY <3>1, <3>2
  <2> QED BY <2>0, <2>4, <2>5 DEF Outcome
<1> QED
  BY <1>1, <1>2

\* Two outcomes one after the other.
LEMMA OutcomesAdd ==
    ASSUME NEW table, NEW middle, NEW result,
           NEW c1 \in [Account -> Int], NEW c2 \in [Account -> Int],
           Outcome(middle, table, c1), Outcome(result, middle, c2)
    PROVE  Outcome(result, table, [a \in Account |-> c1[a] + c2[a]])
<1>1. CASE result = NoRow
  BY <1>1 DEF Outcome
<1>2. CASE result # NoRow
  <2>1. /\ middle \in Table /\ result \in Table
        /\ \A a \in Account : BalanceOf(result, a) = BalanceOf(middle, a) + c2[a]
    BY <1>2 DEF Outcome
  <2>2. /\ table \in Table
        /\ \A a \in Account : BalanceOf(middle, a) = BalanceOf(table, a) + c1[a]
    BY <2>1, NoRowIsNoTable DEF Outcome
  <2>3. ASSUME NEW a \in Account
        PROVE  BalanceOf(result, a)
                   = BalanceOf(table, a) + [x \in Account |-> c1[x] + c2[x]][a]
    <3>1. BalanceOf(table, a) \in Int /\ c1[a] \in Int /\ c2[a] \in Int
      BY <2>2, BalanceIsNat
    <3> QED BY <2>1, <2>2, <3>1
  <2> QED BY <2>1, <2>2, <2>3 DEF Outcome
<1> QED
  BY <1>1, <1>2

\* Perform, statement by statement.
LEMMA PerformSteps ==
    ASSUME NEW table \in Table \union {NoRow}, NEW entries \in Seq(Entries)
    PROVE  \E g : /\ g[0] = table /\ Perform(table, entries) = g[Len(entries)]
                  /\ \A n \in 1..Len(entries) : g[n] = Save(g[n - 1], entries[n])
<1> DEFINE N == Len(entries)
           D == Table \union {NoRow}
           Body(f) == [n \in 0..N |-> IF n = 0 THEN table ELSE Save(f[n - 1], entries[n])]
           step == [p \in D \X (1..N) |-> Save(p[1], entries[p[2]])]
<1>1. N \in Nat /\ \A n \in 1..N : entries[n] \in Entries
  OBVIOUS
<1>2. step \in [D \X (1..N) -> D]
  <2> SUFFICES ASSUME NEW t \in D, NEW n \in 1..N PROVE Save(t, entries[n]) \in D
    OBVIOUS
  <2> QED BY <1>1, SaveOutcome
<1>3. PICK f \in [0..N -> D] : f[0] = table /\ \A n \in 1..N : f[n] = step[<<f[n - 1], n>>]
  <2>1. N \in Nat /\ table \in D /\ step \in [D \X (1..N) -> D]
    BY <1>1, <1>2
  <2> HIDE DEF step, N, D
  <2>2. \E f \in [0..N -> D] : Solves(f, table, step, N)
    BY <2>1, Solvable
  <2> QED BY <2>2 DEF Solves
<1>4. \A n \in 1..N : n - 1 \in 0..N /\ f[n] = Save(f[n - 1], entries[n])
  <2> TAKE n \in 1..N
  <2>1. n - 1 \in 0..N
    BY <1>1
  <2>2. f[n - 1] \in D
    BY <1>3, <2>1
  <2>3. \A t \in D, m \in 1..N : step[<<t, m>>] = Save(t, entries[m])
    OBVIOUS
  <2> HIDE DEF step, D
  <2>4. f[n] = step[<<f[n - 1], n>>]
    BY <1>3
  <2> QED BY <2>1, <2>2, <2>3, <2>4
<1>5. f = Body(f)
  <2>1. \A n \in 0..N : n = 0 \/ n \in 1..N
    BY <1>1
  <2>2. \A n \in 0..N : f[n] = Body(f)[n]
    BY <1>3, <1>4, <2>1
  <2>3. f = [n \in 0..N |-> f[n]] /\ Body(f) = [n \in 0..N |-> Body(f)[n]]
    BY <1>3
  <2> HIDE DEF Body, step
  <2> QED BY <2>2, <2>3
<1> DEFINE g == CHOOSE h : h = Body(h)
<1>6. g = Body(g) /\ Perform(table, entries) = g[N]
  BY <1>5 DEF Perform
<1> HIDE DEF g
<1>7. /\ g[0] = table
      /\ \A n \in 1..N : g[n] = Save(g[n - 1], entries[n])
  <2>1. 0 \in 0..N /\ \A n \in 1..N : n \in 0..N /\ n # 0
    BY <1>1
  <2> QED BY <1>6, <2>1
<1> QED
  BY <1>6, <1>7

\* One statement, or two.
LEMMA PerformOne ==
    ASSUME NEW table \in Table \union {NoRow}, NEW e \in Entries
    PROVE  Perform(table, <<e>>) = Save(table, e)
<1> DEFINE entries == <<e>>
<1>1. entries \in Seq(Entries) /\ Len(entries) = 1 /\ entries[1] = e
  OBVIOUS
<1> HIDE DEF entries
<1>2. PICK g : /\ g[0] = table /\ Perform(table, entries) = g[Len(entries)]
               /\ \A n \in 1..Len(entries) : g[n] = Save(g[n - 1], entries[n])
  BY <1>1, PerformSteps
<1>3. g[1] = Save(g[1 - 1], entries[1]) /\ 1 - 1 = 0
  BY <1>1, <1>2
<1> QED
  BY <1>1, <1>2, <1>3 DEF entries

LEMMA PerformTwo ==
    ASSUME NEW table \in Table \union {NoRow}, NEW e1 \in Entries, NEW e2 \in Entries
    PROVE  Perform(table, <<e1, e2>>) = Save(Save(table, e1), e2)
<1> DEFINE entries == <<e1, e2>>
<1>1. entries \in Seq(Entries) /\ Len(entries) = 2 /\ entries[1] = e1 /\ entries[2] = e2
  OBVIOUS
<1> HIDE DEF entries
<1>2. PICK g : /\ g[0] = table /\ Perform(table, entries) = g[Len(entries)]
               /\ \A n \in 1..Len(entries) : g[n] = Save(g[n - 1], entries[n])
  BY <1>1, PerformSteps
<1>3. g[1] = Save(g[0], entries[1]) /\ g[2] = Save(g[1], entries[2])
  <2>1. 1 \in 1..2 /\ 2 \in 1..2 /\ 1 - 1 = 0 /\ 2 - 1 = 1
    OBVIOUS
  <2> QED BY <1>1, <1>2, <2>1
<1> QED
  BY <1>1, <1>2, <1>3 DEF entries

MayBeTable == Table \union {NoRow}

LEMMA PerformOneOutcome ==
    ASSUME NEW table \in MayBeTable, NEW e \in Entries
    PROVE  /\ Perform(table, <<e>>) \in MayBeTable
           /\ Outcome(Perform(table, <<e>>), table, ByEntry(e))
BY PerformOne, SaveOutcome DEF MayBeTable

LEMMA PerformTwoOutcome ==
    ASSUME NEW table \in MayBeTable, NEW e1 \in Entries, NEW e2 \in Entries
    PROVE  /\ Perform(table, <<e1, e2>>) \in MayBeTable
           /\ Outcome(Perform(table, <<e1, e2>>), table,
                      [a \in Account |-> ByEntry(e1)[a] + ByEntry(e2)[a]])
<1> DEFINE middle == Save(table, e1)
           result == Save(middle, e2)
<1>1. middle \in MayBeTable /\ Outcome(middle, table, ByEntry(e1))
  BY SaveOutcome DEF MayBeTable
<1>2. ByEntry(e1) \in [Account -> Int] /\ ByEntry(e2) \in [Account -> Int]
  BY DEF ByEntry, Entries
<1>3. Perform(table, <<e1, e2>>) = result
  BY PerformTwo DEF MayBeTable
<1> HIDE DEF middle
<1>4. result \in MayBeTable /\ Outcome(result, middle, ByEntry(e2))
  BY <1>1, SaveOutcome DEF MayBeTable
<1> HIDE DEF result
<1>5. Outcome(result, table, [a \in Account |-> ByEntry(e1)[a] + ByEntry(e2)[a]])
  BY <1>1, <1>2, <1>4, OutcomesAdd
<1> QED
  BY <1>3, <1>4, <1>5

ByTransfer(t) == [a \in Account |-> Promise!Effect(t, a)]

LEMMA MinableIsTransfer ==
    ASSUME NEW t \in Minable
    PROVE  /\ t.business \in Business /\ t.type \in Types
           /\ t.from \in Account /\ t.to \in Account /\ t.amount \in Nat
BY LedgerAssumption DEF IsTransfer

LEMMA DebitCredit ==
    ASSUME NEW a \in Account, NEW n \in Nat
    PROVE  Debit(a, n) \in Entries /\ Credit(a, n) \in Entries
BY DEF Debit, Credit, Entries

LEMMA ByTransferIsInt ==
    ASSUME NEW t \in Minable
    PROVE  ByTransfer(t) \in [Account -> Int]
<1>1. t.amount \in Nat
  BY MinableIsTransfer
<1> QED
  BY <1>1 DEF ByTransfer, Promise!Effect

\* A transfer changes the balances by what it means, or the table refuses it.
LEMMA BalanceUpdateOutcome ==
    ASSUME NEW table \in MayBeTable, NEW t \in Minable
    PROVE  /\ Perform(table, BalanceUpdate(t)) \in MayBeTable
           /\ Outcome(Perform(table, BalanceUpdate(t)), table, ByTransfer(t))
<1> DEFINE d == Debit(t.from, t.amount)
           c == Credit(t.to, t.amount)
<1>1. d \in Entries /\ c \in Entries /\ t.type \in Types /\ t.amount \in Nat
  BY MinableIsTransfer, DebitCredit
<1>2. CASE t.type = "deposit"
  <2>1. BalanceUpdate(t) = <<c>>
    BY <1>2 DEF BalanceUpdate, HandleDeposit
  <2>2. ByEntry(c) = ByTransfer(t)
    BY <1>1, <1>2 DEF ByEntry, ByTransfer, Credit, Promise!Effect
  <2> HIDE DEF c
  <2> QED BY <1>1, <2>1, <2>2, PerformOneOutcome
<1>3. CASE t.type = "withdraw"
  <2>1. BalanceUpdate(t) = <<d>>
    BY <1>3 DEF BalanceUpdate, HandleWithdraw
  <2>2. ByEntry(d) = ByTransfer(t)
    BY <1>1, <1>3 DEF ByEntry, ByTransfer, Debit, Promise!Effect
  <2> HIDE DEF d
  <2> QED BY <1>1, <2>1, <2>2, PerformOneOutcome
<1>4. CASE t.type \in {"collection", "hot2cold", "cold2hot"}
  <2>1. BalanceUpdate(t) = <<d, c>>
    BY <1>4 DEF BalanceUpdate, HandleCollection, HandleHotToCold, HandleColdToHot
  <2>2. [a \in Account |-> ByEntry(d)[a] + ByEntry(c)[a]] = ByTransfer(t)
    BY <1>1, <1>4 DEF ByEntry, ByTransfer, Debit, Credit, Promise!Effect
  <2> HIDE DEF c, d
  <2> QED BY <1>1, <2>1, <2>2, PerformTwoOutcome
<1> QED
  BY <1>1, <1>2, <1>3, <1>4 DEF Types

\* A reversal leaves a table or fails.
LEMMA ReversalIsTable ==
    ASSUME NEW table \in MayBeTable, NEW t \in Minable
    PROVE  Perform(table, Reversal(t)) \in MayBeTable
<1> DEFINE d == Debit(t.to, t.amount)
           c == Credit(t.from, t.amount)
<1>1. d \in Entries /\ c \in Entries /\ t.type \in Types
  BY MinableIsTransfer, DebitCredit
<1>2. Reversal(t) \in {<<d>>, <<c>>, <<c, d>>}
  BY <1>1 DEF Types, Reversal, HandleFallBackDeposit, HandleFallBackWithdraw,
              HandleFallBackCollection, HandleFallBackHotToCold, HandleFallBackColdToHot
<1> HIDE DEF c, d
<1> QED
  BY <1>1, <1>2, PerformOneOutcome, PerformTwoOutcome

\* EffectOfAll, transfer by transfer.
IsTally(f, transfers, a) ==
    /\ f[0] = 0
    /\ \A n \in 1..Len(transfers) : f[n] = f[n - 1] + Promise!Effect(transfers[n], a)

LEMMA EffectSteps ==
    ASSUME NEW transfers \in Seq(Minable), NEW a \in Account
    PROVE  \E f \in [0..Len(transfers) -> Int] :
               IsTally(f, transfers, a) /\ Promise!EffectOfAll(transfers, a) = f[Len(transfers)]
<1> DEFINE N == Len(transfers)
           E(n) == Promise!Effect(transfers[n], a)
           Body(f) == [n \in 0..N |-> IF n = 0 THEN 0 ELSE f[n - 1] + E(n)]
           step == [p \in Int \X (1..N) |-> p[1] + E(p[2])]
<1>1. N \in Nat /\ \A n \in 1..N : transfers[n] \in Minable
  OBVIOUS
<1>2. \A n \in 1..N : E(n) \in Int
  <2> TAKE n \in 1..N
  <2>1. ByTransfer(transfers[n])[a] \in Int
    BY <1>1, ByTransferIsInt
  <2> QED BY <2>1 DEF ByTransfer
<1>0. Promise!EffectOfAll(transfers, a) = (CHOOSE h : h = Body(h))[N]
  BY DEF Promise!EffectOfAll
<1> HIDE DEF E
<1>3. step \in [Int \X (1..N) -> Int]
  BY <1>2
<1>4. PICK f \in [0..N -> Int] : f[0] = 0 /\ \A n \in 1..N : f[n] = step[<<f[n - 1], n>>]
  <2>1. N \in Nat /\ 0 \in Int /\ step \in [Int \X (1..N) -> Int]
    BY <1>1, <1>3
  <2> HIDE DEF step, N
  <2>2. \E f \in [0..N -> Int] : Solves(f, 0, step, N)
    BY <2>1, Solvable
  <2> QED BY <2>2 DEF Solves
<1>5. \A n \in 1..N : n - 1 \in 0..N /\ f[n] = f[n - 1] + E(n)
  <2> TAKE n \in 1..N
  <2>1. n - 1 \in 0..N
    BY <1>1
  <2>2. f[n - 1] \in Int
    BY <1>4, <2>1
  <2>3. \A t \in Int, m \in 1..N : step[<<t, m>>] = t + E(m)
    OBVIOUS
  <2> HIDE DEF step
  <2>4. f[n] = step[<<f[n - 1], n>>]
    BY <1>4
  <2> QED BY <2>1, <2>2, <2>3, <2>4
<1>6. f = Body(f)
  <2>1. \A n \in 0..N : n = 0 \/ n \in 1..N
    BY <1>1
  <2>2. \A n \in 0..N : f[n] = Body(f)[n]
    BY <1>4, <1>5, <2>1
  <2>3. f = [n \in 0..N |-> f[n]] /\ Body(f) = [n \in 0..N |-> Body(f)[n]]
    BY <1>4
  <2> HIDE DEF Body, step
  <2> QED BY <2>2, <2>3
<1> DEFINE g == CHOOSE h : h = Body(h)
<1>7. g = Body(g) /\ Promise!EffectOfAll(transfers, a) = g[N]
  BY <1>0, <1>6
<1> HIDE DEF g
<1>8. /\ DOMAIN g = 0..N /\ g[0] = 0
      /\ \A n \in 1..N : g[n] = g[n - 1] + E(n)
  <2>1. 0 \in 0..N /\ \A n \in 1..N : n \in 0..N /\ n # 0
    BY <1>1
  <2> QED BY <1>7, <2>1
<1> DEFINE P == {n \in 0..N : g[n] \in Int}
<1>9. \A n \in 0..N : n \in P
  <2>1. 0 \in P
    BY <1>1, <1>8
  <2>2. ASSUME NEW n \in 0..N, n < N, n \in P PROVE n + 1 \in P
    <3>1. n + 1 \in 0..N /\ n + 1 \in 1..N /\ (n + 1) - 1 = n
      BY <1>1, <2>2
    <3>2. g[n + 1] = g[n] + E(n + 1) /\ E(n + 1) \in Int
      BY <1>2, <1>8, <3>1
    <3> QED BY <2>2, <3>1, <3>2
  <2> HIDE DEF P, N
  <2> QED BY <1>1, <2>1, <2>2, UpTo
<1>10. g \in [0..N -> Int]
  <2>1. g = [n \in 0..N |-> g[n]]
    BY <1>7, <1>8
  <2>2. \A n \in 0..N : g[n] \in Int
    BY <1>9
  <2> QED BY <2>1, <2>2
<1>11. IsTally(g, transfers, a)
  BY <1>8 DEF IsTally, E
<1> QED
  BY <1>7, <1>10, <1>11

LEMMA EffectIsInt ==
    ASSUME NEW transfers \in Seq(Minable), NEW a \in Account
    PROVE  Promise!EffectOfAll(transfers, a) \in Int
<1>1. Len(transfers) \in Nat /\ Len(transfers) \in 0..Len(transfers)
  OBVIOUS
<1> QED
  BY <1>1, EffectSteps

\* The effect of a list and its continuation is the sum of both.
LEMMA EffectConcat ==
    ASSUME NEW s \in Seq(Minable), NEW t \in Seq(Minable), NEW a \in Account
    PROVE  Promise!EffectOfAll(s \o t, a)
               = Promise!EffectOfAll(s, a) + Promise!EffectOfAll(t, a)
<1> DEFINE K == Len(s)
           N == Len(t)
           u == s \o t
           E(x) == Promise!Effect(x, a)
<1>n. K \in Nat /\ N \in Nat
  OBVIOUS
<1>c. /\ u \in Seq(Minable) /\ Len(u) = K + N
      /\ \A i \in 1..(K + N) : u[i] = IF i <= K THEN s[i] ELSE t[i - K]
  BY ConcatProperties
<1> HIDE DEF u
<1>1. PICK f \in [0..Len(u) -> Int] :
          IsTally(f, u, a) /\ Promise!EffectOfAll(u, a) = f[Len(u)]
  BY <1>c, EffectSteps
<1>2. PICK g \in [0..K -> Int] : IsTally(g, s, a) /\ Promise!EffectOfAll(s, a) = g[K]
  BY EffectSteps
<1>3. PICK h \in [0..N -> Int] : IsTally(h, t, a) /\ Promise!EffectOfAll(t, a) = h[N]
  BY EffectSteps
<1>f. \A i \in 1..(K + N) : f[i] = f[i - 1] + E(u[i])
  BY <1>1, <1>c DEF IsTally
<1>g. \A i \in 1..K : g[i] = g[i - 1] + E(s[i])
  BY <1>2 DEF IsTally
<1>h. \A i \in 1..N : h[i] = h[i - 1] + E(t[i])
  BY <1>3 DEF IsTally
<1>0. f[0] = 0 /\ g[0] = 0 /\ h[0] = 0
  BY <1>1, <1>2, <1>3 DEF IsTally
<1> HIDE DEF E
<1> DEFINE P == {n \in 0..K : f[n] = g[n]}
           Q == {n \in 0..N : f[K + n] = g[K] + h[n]}
<1>4. K \in P
  <2>1. 0 \in P
    BY <1>n, <1>0
  <2>2. ASSUME NEW n \in 0..K, n < K, n \in P PROVE n + 1 \in P
    <3>1. n + 1 \in 0..K /\ n + 1 \in 1..K /\ (n + 1) - 1 = n /\ n + 1 \in 1..(K + N) /\ n + 1 <= K
      BY <1>n, <2>2
    <3>2. u[n + 1] = s[n + 1]
      BY <1>c, <3>1
    <3>3. f[n + 1] = f[n] + E(s[n + 1]) /\ g[n + 1] = g[n] + E(s[n + 1])
      BY <1>f, <1>g, <3>1, <3>2
    <3> QED BY <2>2, <3>1, <3>3
  <2> HIDE DEF P, K
  <2>3. \A n \in 0..K : n \in P
    BY <1>n, <2>1, <2>2, UpTo
  <2> QED BY <1>n, <2>3
<1>k. f[K] = g[K] /\ g[K] \in Int
  <2>1. K \in 0..K
    BY <1>n
  <2> QED BY <1>2, <1>4, <2>1
<1>5. N \in Q
  <2>1. 0 \in Q
    BY <1>n, <1>0, <1>k
  <2>2. ASSUME NEW n \in 0..N, n < N, n \in Q PROVE n + 1 \in Q
    <3>1. n + 1 \in 0..N /\ n + 1 \in 1..N /\ (n + 1) - 1 = n /\ (K + (n + 1)) - 1 = K + n
      BY <1>n, <2>2
    <3>2. K + (n + 1) \in 1..(K + N) /\ ~(K + (n + 1) <= K) /\ (K + (n + 1)) - K = n + 1
      BY <1>n, <2>2
    <3>3. u[K + (n + 1)] = t[n + 1]
      BY <1>c, <3>2
    <3>4. f[K + (n + 1)] = f[K + n] + E(t[n + 1])
      BY <1>f, <3>1, <3>2, <3>3
    <3>5. h[n + 1] = h[n] + E(t[n + 1])
      BY <1>h, <3>1
    <3>6. h[n] \in Int
      BY <1>3
    <3>7. E(t[n + 1]) \in Int
      <4>1. t[n + 1] \in Minable
        BY <3>1
      <4>2. ByTransfer(t[n + 1])[a] \in Int
        BY <4>1, ByTransferIsInt
      <4> QED BY <4>2 DEF ByTransfer, E
    <3>8. f[K + n] = g[K] + h[n]
      BY <2>2
    <3>9. f[K + (n + 1)] = g[K] + h[n + 1]
      BY <1>k, <3>4, <3>5, <3>6, <3>7, <3>8
    <3> QED BY <3>1, <3>9
  <2> HIDE DEF Q, N
  <2>3. \A n \in 0..N : n \in Q
    BY <1>n, <2>1, <2>2, UpTo
  <2> QED BY <1>n, <2>3
<1> QED
  BY <1>c, <1>1, <1>2, <1>3, <1>5 DEF u

LEMMA UpdateSteps ==
    ASSUME NEW table \in MayBeTable, NEW transfers \in Seq(Minable)
    PROVE  \E g : /\ g[0] = table /\ UpdateOrCreate(table, transfers) = g[Len(transfers)]
                  /\ \A n \in 1..Len(transfers) :
                         g[n] = Perform(g[n - 1], BalanceUpdate(transfers[n]))
<1> DEFINE N == Len(transfers)
           D == MayBeTable
           Do(t, n) == Perform(t, BalanceUpdate(transfers[n]))
           Body(f) == [n \in 0..N |-> IF n = 0 THEN table ELSE Do(f[n - 1], n)]
           step == [p \in D \X (1..N) |-> Do(p[1], p[2])]
<1>1. N \in Nat /\ \A n \in 1..N : transfers[n] \in Minable
  OBVIOUS
<1>0. UpdateOrCreate(table, transfers) = (CHOOSE h : h = Body(h))[N]
  BY DEF UpdateOrCreate
<1>d. \A t \in D, n \in 1..N : Do(t, n) \in D
  BY <1>1, BalanceUpdateOutcome
<1>e. \A t, n : Do(t, n) = Perform(t, BalanceUpdate(transfers[n]))
  OBVIOUS
<1> HIDE DEF Do
<1>2. step \in [D \X (1..N) -> D]
  BY <1>d
<1>3. PICK f \in [0..N -> D] : f[0] = table /\ \A n \in 1..N : f[n] = step[<<f[n - 1], n>>]
  <2>1. N \in Nat /\ table \in D /\ step \in [D \X (1..N) -> D]
    BY <1>1, <1>2
  <2> HIDE DEF step, N, D
  <2>2. \E f \in [0..N -> D] : Solves(f, table, step, N)
    BY <2>1, Solvable
  <2> QED BY <2>2 DEF Solves
<1>4. \A n \in 1..N : n - 1 \in 0..N /\ f[n] = Do(f[n - 1], n)
  <2> TAKE n \in 1..N
  <2>1. n - 1 \in 0..N
    BY <1>1
  <2>2. f[n - 1] \in D
    BY <1>3, <2>1
  <2>3. \A t \in D, m \in 1..N : step[<<t, m>>] = Do(t, m)
    OBVIOUS
  <2> HIDE DEF step, D
  <2>4. f[n] = step[<<f[n - 1], n>>]
    BY <1>3
  <2> QED BY <2>1, <2>2, <2>3, <2>4
<1>5. f = Body(f)
  <2>1. \A n \in 0..N : n = 0 \/ n \in 1..N
    BY <1>1
  <2>2. \A n \in 0..N : f[n] = Body(f)[n]
    BY <1>3, <1>4, <2>1
  <2>3. f = [n \in 0..N |-> f[n]] /\ Body(f) = [n \in 0..N |-> Body(f)[n]]
    BY <1>3
  <2> HIDE DEF Body, step
  <2> QED BY <2>2, <2>3
<1> DEFINE g == CHOOSE h : h = Body(h)
<1>6. g = Body(g) /\ UpdateOrCreate(table, transfers) = g[N]
  BY <1>0, <1>5
<1> HIDE DEF g
<1>7. /\ g[0] = table
      /\ \A n \in 1..N : g[n] = Do(g[n - 1], n)
  <2>1. 0 \in 0..N /\ \A n \in 1..N : n \in 0..N /\ n # 0
    BY <1>1
  <2> QED BY <1>6, <2>1
<1> QED
  BY <1>6, <1>7, <1>e

\* The transfers of a list are booked whole, each account by what they add up to,
\* or not at all.
LEMMA UpdateOutcome ==
    ASSUME NEW table \in MayBeTable, NEW transfers \in Seq(Minable)
    PROVE  LET result == UpdateOrCreate(table, transfers)
           IN  /\ result \in MayBeTable
               /\ \A a \in Account :
                      \/ result = NoRow
                      \/ table \in Table /\ BalanceOf(result, a)
                             = BalanceOf(table, a) + Promise!EffectOfAll(transfers, a)
<1> DEFINE N == Len(transfers)
           result == UpdateOrCreate(table, transfers)
<1>1. N \in Nat /\ \A n \in 1..N : transfers[n] \in Minable
  OBVIOUS
<1>2. PICK g : /\ g[0] = table /\ result = g[N]
               /\ \A n \in 1..N : g[n] = Perform(g[n - 1], BalanceUpdate(transfers[n]))
  BY UpdateSteps
<1>a. ASSUME NEW n \in 0..N, n < N, g[n] \in MayBeTable
      PROVE  /\ n + 1 \in 1..N /\ n + 1 \in 0..N /\ transfers[n + 1] \in Minable
             /\ g[n + 1] \in MayBeTable
             /\ Outcome(g[n + 1], g[n], ByTransfer(transfers[n + 1]))
  <2>1. n + 1 \in 1..N /\ n + 1 \in 0..N /\ (n + 1) - 1 = n
    BY <1>1, <1>a
  <2>2. g[n + 1] = Perform(g[n], BalanceUpdate(transfers[n + 1])) /\ transfers[n + 1] \in Minable
    BY <1>1, <1>2, <2>1
  <2> HIDE DEF N
  <2> QED BY <1>a, <2>1, <2>2, BalanceUpdateOutcome
<1> HIDE DEF result
<1>3. result \in MayBeTable
  <2> DEFINE P == {n \in 0..N : g[n] \in MayBeTable}
  <2>1. 0 \in P
    BY <1>1, <1>2
  <2>2. ASSUME NEW n \in 0..N, n < N, n \in P PROVE n + 1 \in P
    BY <1>a, <2>2
  <2> HIDE DEF P, N
  <2>3. \A n \in 0..N : n \in P
    BY <1>1, <2>1, <2>2, UpTo
  <2> QED BY <1>1, <1>2, <2>3 DEF P
<1>4. ASSUME NEW a \in Account
      PROVE  \/ result = NoRow
             \/ table \in Table /\ BalanceOf(result, a)
                    = BalanceOf(table, a) + Promise!EffectOfAll(transfers, a)
  <2>1. PICK f \in [0..N -> Int] :
            IsTally(f, transfers, a) /\ Promise!EffectOfAll(transfers, a) = f[N]
    BY EffectSteps
  <2>0. f[0] = 0 /\ \A n \in 1..N : f[n] = f[n - 1] + Promise!Effect(transfers[n], a)
    BY <2>1 DEF IsTally
  <2> DEFINE Good(n) == \/ g[n] = NoRow
                        \/ table \in Table /\ BalanceOf(g[n], a) = BalanceOf(table, a) + f[n]
             P == {n \in 0..N : g[n] \in MayBeTable /\ Good(n)}
  <2>2. 0 \in P
    <3>1. CASE table = NoRow
      BY <1>1, <1>2, <3>1
    <3>2. CASE table \in Table
      <4>1. BalanceOf(table, a) \in Nat
        BY <3>2, BalanceIsNat
      <4> QED BY <1>1, <1>2, <2>0, <3>2, <4>1
    <3> QED BY <3>1, <3>2 DEF MayBeTable
  <2>3. ASSUME NEW n \in 0..N, n < N, n \in P PROVE n + 1 \in P
    <3> DEFINE t == transfers[n + 1]
    <3>1. /\ n + 1 \in 1..N /\ n + 1 \in 0..N /\ t \in Minable
          /\ g[n + 1] \in MayBeTable /\ Outcome(g[n + 1], g[n], ByTransfer(t))
      BY <1>a, <2>3
    <3>2. CASE g[n + 1] = NoRow
      BY <3>1, <3>2
    <3>3. CASE g[n + 1] # NoRow
      <4>1. g[n] \in Table /\ BalanceOf(g[n + 1], a) = BalanceOf(g[n], a) + ByTransfer(t)[a]
        BY <3>1, <3>3 DEF Outcome
      <4>2. table \in Table /\ BalanceOf(g[n], a) = BalanceOf(table, a) + f[n]
        BY <2>3, <4>1, NoRowIsNoTable
      <4>3. f[n + 1] = f[n] + ByTransfer(t)[a]
        <5>1. (n + 1) - 1 = n
          BY <1>1
        <5> QED BY <2>0, <3>1, <5>1 DEF ByTransfer
      <4>4. BalanceOf(table, a) \in Int /\ f[n] \in Int /\ ByTransfer(t)[a] \in Int
        BY <2>1, <3>1, <4>2, BalanceIsNat, ByTransferIsInt
      <4>5. BalanceOf(g[n + 1], a) = BalanceOf(table, a) + f[n + 1]
        <5> HIDE DEF t
        <5> QED BY <4>1, <4>2, <4>3, <4>4
      <4> QED BY <3>1, <4>2, <4>5
    <3> QED BY <3>2, <3>3
  <2> HIDE DEF P, N
  <2>4. \A n \in 0..N : n \in P
    BY <1>1, <2>2, <2>3, UpTo
  <2> QED BY <1>1, <1>2, <2>1, <2>4 DEF P
<1> QED
  BY <1>3, <1>4 DEF result

-----------------------------------------------------------------------------
(***************************************************************************)
(* Blocks, batches and rows.                                               *)
(***************************************************************************)

Row == [transfer : Minable, number : 2..MaxHeight, status : Status]

ChainPart ==
    /\ chain \in Seq(0..MaxReorgs) /\ branch \in 0..MaxReorgs
    /\ InitHeight <= Height /\ Height <= MaxHeight

LEMMA Bounds ==
    /\ InitHeight \in Nat /\ InitHeight > 0 /\ MaxHeight \in Nat /\ MaxReorgs \in Nat
    /\ MaxDepth \in Nat /\ Confirmations \in Nat /\ MaxFaults \in Nat
BY ChainAssumption, LedgerAssumption

LEMMA HashKnown ==
    ASSUME ChainPart, NEW n \in 0..Height
    PROVE  HashAt(n) \in DOMAIN Content
<1>1. DOMAIN Content = (0..MaxHeight) \X (0..MaxReorgs) /\ MaxReorgs \in Nat /\ MaxHeight \in Nat
  BY LedgerAssumption, Bounds
<1>2. Height \in Nat /\ Height <= MaxHeight
  BY DEF ChainPart, Height
<1>3. CASE n = 0
  BY <1>1, <1>2, <1>3 DEF HashAt
<1>4. CASE n # 0
  <2>1. n \in 1..Len(chain) /\ n \in 0..MaxHeight
    BY <1>1, <1>2, <1>4 DEF Height
  <2>2. chain[n] \in 0..MaxReorgs
    <3>1. chain \in Seq(0..MaxReorgs)
      BY DEF ChainPart
    <3> QED BY <2>1, <3>1, ElementOfSeq
  <2> QED BY <1>1, <1>4, <2>1, <2>2 DEF HashAt
<1> QED
  BY <1>3, <1>4

LEMMA TransfersTyped ==
    ASSUME ChainPart, NEW n \in 0..Height
    PROVE  TransfersAt(n) \in Seq(Minable)
<1>1. Content[HashAt(n)] \in Seq(Minable)
  BY HashKnown, LedgerAssumption
<1> QED
  BY <1>1, PickedIsSeq DEF TransfersAt

LEMMA OfBusinessTyped ==
    ASSUME NEW s \in Seq(Minable), NEW b
    PROVE  /\ OfBusiness(s, b) \in Seq(Minable)
           /\ \A i \in 1..Len(OfBusiness(s, b)) : OfBusiness(s, b)[i].business = b
<1> DEFINE places == {i \in DOMAIN s : s[i].business = b}
           p == Picked(s, places)
<1>1. OfBusiness(s, b) = p
  BY DEF OfBusiness
<1>2. p \in Seq(Minable)
  BY PickedIsSeq
<1>3. \A i \in places : s[i].business = b
  OBVIOUS
<1>4. PICK h : Places(h, p, s, places, Len(s))
  BY PickedPlaces
<1> HIDE DEF p, places
<1>5. \A i \in 1..Len(p) : p[i].business = b
  BY <1>3, <1>4 DEF Places
<1> QED
  BY <1>1, <1>2, <1>5

LEMMA DepositsInTyped ==
    ASSUME NEW s \in Seq(Minable)
    PROVE  /\ DepositsIn(s) \in Seq(Minable)
           /\ \A i \in 1..Len(DepositsIn(s)) : IsDeposit(DepositsIn(s)[i])
<1> DEFINE places == {i \in DOMAIN s : IsDeposit(s[i])}
           p == Picked(s, places)
<1>1. DepositsIn(s) = p
  BY DEF DepositsIn
<1>2. p \in Seq(Minable)
  BY PickedIsSeq
<1>3. \A i \in places : IsDeposit(s[i])
  OBVIOUS
<1>4. PICK h : Places(h, p, s, places, Len(s))
  BY PickedPlaces
<1> HIDE DEF p, places
<1>5. \A i \in 1..Len(p) : IsDeposit(p[i])
  BY <1>3, <1>4 DEF Places
<1> QED
  BY <1>1, <1>2, <1>5

LEMMA TransfersOfRows ==
    ASSUME NEW rows \in Seq(Row)
    PROVE  /\ Transfers(rows) \in Seq(Minable) /\ Len(Transfers(rows)) = Len(rows)
           /\ DOMAIN rows = 1..Len(rows) /\ Len(rows) \in Nat
           /\ \A i \in 1..Len(rows) : /\ rows[i] \in Row
                                      /\ Transfers(rows)[i] = rows[i].transfer
<1>1. Len(rows) \in Nat /\ DOMAIN rows = 1..Len(rows) /\ \A i \in 1..Len(rows) : rows[i] \in Row
  OBVIOUS
<1>2. \A row \in Row : row.transfer \in Minable
  BY DEF Row
<1> QED
  BY <1>1, <1>2 DEF Transfers

LEMMA NewRowsTyped ==
    ASSUME NEW s \in Seq(Minable), inHand \in BatchOf
    PROVE  /\ NewRows(s) \in Seq(Row) /\ Len(NewRows(s)) = Len(s)
           /\ \A i \in 1..Len(s) : /\ NewRows(s)[i].transfer = s[i]
                                   /\ NewRows(s)[i].number = inHand.number
                                   /\ NewRows(s)[i].status = "success"
<1>1. Len(s) \in Nat /\ DOMAIN s = 1..Len(s) /\ \A i \in 1..Len(s) : s[i] \in Minable
  OBVIOUS
<1>2. inHand.number \in 2..MaxHeight
  BY DEF BatchOf
<1> QED
  BY <1>1, <1>2 DEF NewRows, Row, Status

\* The transfers of rows that are added to.
LEMMA TransfersConcat ==
    ASSUME NEW rows \in Seq(Row), NEW s \in Seq(Minable), inHand \in BatchOf
    PROVE  /\ rows \o NewRows(s) \in Seq(Row)
           /\ Len(rows \o NewRows(s)) = Len(rows) + Len(s)
           /\ \A i \in 1..Len(rows) : (rows \o NewRows(s))[i] = rows[i]
           /\ \A i \in 1..Len(s) : (rows \o NewRows(s))[Len(rows) + i] = NewRows(s)[i]
           /\ Transfers(rows \o NewRows(s)) = Transfers(rows) \o s
<1> DEFINE q == NewRows(s)
           u == rows \o q
           K == Len(rows)
           N == Len(s)
<1>1. q \in Seq(Row) /\ Len(q) = N /\ K \in Nat /\ N \in Nat
      /\ \A i \in 1..N : q[i].transfer = s[i]
  BY NewRowsTyped
<1> HIDE DEF q
<1>2. u \in Seq(Row) /\ Len(u) = K + N
      /\ \A i \in 1..(K + N) : u[i] = IF i <= K THEN rows[i] ELSE q[i - K]
  <2>1. q \in Seq(Row)
    BY <1>1
  <2>2. u \in Seq(Row) /\ Len(u) = K + Len(q)
        /\ \A i \in 1..(K + Len(q)) : u[i] = IF i <= K THEN rows[i] ELSE q[i - K]
    BY <2>1, ConcatProperties
  <2> QED BY <1>1, <2>2
<1> HIDE DEF u
<1>3. \A i \in 1..K : u[i] = rows[i]
  BY <1>1, <1>2
<1>4. \A i \in 1..N : u[K + i] = q[i]
  <2> TAKE i \in 1..N
  <2>1. K + i \in 1..(K + N) /\ ~(K + i <= K) /\ (K + i) - K = i
    BY <1>1
  <2> QED BY <1>2, <2>1
<1>5. Transfers(u) = Transfers(rows) \o s
  <2> DEFINE T == Transfers(u)
             R == Transfers(rows)
             W == R \o s
  <2>1. R \in Seq(Minable) /\ Len(R) = K /\ \A i \in 1..K : R[i] = rows[i].transfer
    BY TransfersOfRows
  <2>2. T \in Seq(Minable) /\ Len(T) = K + N /\ \A i \in 1..(K + N) : T[i] = u[i].transfer
    BY <1>2, TransfersOfRows
  <2> HIDE DEF R, T
  <2>3. W \in Seq(Minable) /\ Len(W) = K + N
        /\ \A i \in 1..(K + N) : W[i] = IF i <= K THEN R[i] ELSE s[i - K]
    <3>1. R \in Seq(Minable)
      BY <2>1
    <3>2. W \in Seq(Minable) /\ Len(W) = Len(R) + N
          /\ \A i \in 1..(Len(R) + N) : W[i] = IF i <= Len(R) THEN R[i] ELSE s[i - Len(R)]
      BY <3>1, ConcatProperties
    <3>3. Len(R) = K
      BY <2>1
    <3> QED BY <3>2, <3>3
  <2> HIDE DEF W, K, N
  <2>4. ASSUME NEW i \in 1..(K + N) PROVE T[i] = W[i]
    <3>1. CASE i <= K
      <4>1. i \in 1..K
        BY <1>1, <3>1
      <4> QED BY <1>2, <2>1, <2>2, <2>3, <3>1, <4>1
    <3>2. CASE ~(i <= K)
      <4>1. i - K \in 1..N
        BY <1>1, <3>2
      <4> QED BY <1>1, <1>2, <2>2, <2>3, <3>2, <4>1
    <3> QED BY <3>1, <3>2
  <2>5. T = W
    BY <2>2, <2>3, <2>4, SeqEqual
  <2> QED BY <2>5 DEF T, R, W
<1> QED
  BY <1>2, <1>3, <1>4, <1>5 DEF u, q

\* To mark rows changes no transfer and no number.
LEMMA MarkedRows ==
    ASSUME NEW rows \in Seq(Row), NEW places, NEW mark \in Status
    PROVE  LET marked == Marked(rows, places, mark)
           IN  /\ marked \in Seq(Row) /\ Len(marked) = Len(rows)
               /\ DOMAIN marked = DOMAIN rows
               /\ Transfers(marked) = Transfers(rows)
               /\ \A i \in DOMAIN rows :
                      /\ marked[i].transfer = rows[i].transfer
                      /\ marked[i].number = rows[i].number
                      /\ marked[i].status = IF i \in places THEN mark ELSE rows[i].status
<1> DEFINE marked == Marked(rows, places, mark)
           N == Len(rows)
<1>1. N \in Nat /\ DOMAIN rows = 1..N /\ \A i \in 1..N : rows[i] \in Row
  OBVIOUS
<1>2. marked = [i \in 1..N |-> IF i \in places THEN [rows[i] EXCEPT !.status = mark]
                               ELSE rows[i]]
  BY <1>1 DEF Marked
<1> HIDE DEF marked, N
<1>3. \A i \in 1..N : /\ marked[i] \in Row /\ marked[i].transfer = rows[i].transfer
                      /\ marked[i].number = rows[i].number
                      /\ marked[i].status = IF i \in places THEN mark ELSE rows[i].status
  <2> TAKE i \in 1..N
  <2>1. rows[i] \in Row
    BY <1>1
  <2>2. CASE i \in places
    <3>1. marked[i] = [rows[i] EXCEPT !.status = mark]
      BY <1>2, <2>2
    <3> QED BY <2>1, <2>2, <3>1 DEF Row
  <2>3. CASE i \notin places
    <3>1. marked[i] = rows[i]
      BY <1>2, <2>3
    <3> QED BY <2>1, <2>3, <3>1
  <2> QED BY <2>2, <2>3
<1>4. marked \in Seq(Row) /\ Len(marked) = N /\ DOMAIN marked = 1..N
  <2> HIDE DEF Row
  <2>1. DOMAIN marked = 1..N /\ \A i \in 1..N : marked[i] \in Row
    BY <1>2, <1>3
  <2>2. marked \in [1..N -> Row]
    <3>1. marked = [i \in 1..N |-> marked[i]]
      BY <1>2
    <3> QED BY <2>1, <3>1
  <2> QED BY <1>1, <2>1, <2>2
<1>5. Transfers(marked) = Transfers(rows)
  BY <1>1, <1>3, <1>4 DEF Transfers
<1> QED
  BY <1>1, <1>3, <1>4, <1>5 DEF marked, N

BusinessSplits(s, t, b) == OfBusiness(s \o t, b) = OfBusiness(s, b) \o OfBusiness(t, b)
DepositsSplit(s, t) == DepositsIn(s \o t) = DepositsIn(s) \o DepositsIn(t)

LEMMA OfBusinessConcat ==
    ASSUME NEW s \in Seq(Minable), NEW t \in Seq(Minable), NEW b
    PROVE  BusinessSplits(s, t, b)
<1> DEFINE kind == {m \in Minable : m.business = b}
           at(q) == {i \in DOMAIN q : q[i] \in kind}
<1>1. \A q \in Seq(Minable) : OfBusiness(q, b) = Picked(q, at(q))
  <2> TAKE q \in Seq(Minable)
  <2>1. \A i \in DOMAIN q : q[i] \in Minable
    OBVIOUS
  <2>2. at(q) = {i \in DOMAIN q : q[i].business = b}
    BY <2>1
  <2> HIDE DEF at
  <2> QED BY <2>2 DEF OfBusiness
<1>2. s \o t \in Seq(Minable)
  BY ConcatProperties
<1>3. /\ \A i \in 1..Len(s) : i \in at(s \o t) <=> i \in at(s)
      /\ \A i \in 1..Len(t) : Len(s) + i \in at(s \o t) <=> i \in at(t)
  <2> HIDE DEF kind
  <2> QED BY PlacesSplit
<1> HIDE DEF at
<1>4. PickSplits(s, t, at(s \o t), at(s), at(t))
  BY <1>3, PickedSplits
<1> QED
  BY <1>1, <1>2, <1>4 DEF PickSplits, BusinessSplits

LEMMA DepositsInConcat ==
    ASSUME NEW s \in Seq(Minable), NEW t \in Seq(Minable)
    PROVE  DepositsSplit(s, t)
<1> DEFINE kind == {m \in Minable : IsDeposit(m)}
           at(q) == {i \in DOMAIN q : q[i] \in kind}
<1>1. \A q \in Seq(Minable) : DepositsIn(q) = Picked(q, at(q))
  <2> TAKE q \in Seq(Minable)
  <2>1. \A i \in DOMAIN q : q[i] \in Minable
    OBVIOUS
  <2>2. at(q) = {i \in DOMAIN q : IsDeposit(q[i])}
    BY <2>1
  <2> HIDE DEF at
  <2> QED BY <2>2 DEF DepositsIn
<1>2. s \o t \in Seq(Minable)
  BY ConcatProperties
<1>3. /\ \A i \in 1..Len(s) : i \in at(s \o t) <=> i \in at(s)
      /\ \A i \in 1..Len(t) : Len(s) + i \in at(s \o t) <=> i \in at(t)
  <2> HIDE DEF kind
  <2> QED BY PlacesSplit
<1> HIDE DEF at
<1>4. PickSplits(s, t, at(s \o t), at(s), at(t))
  BY <1>3, PickedSplits
<1> QED
  BY <1>1, <1>2, <1>4 DEF PickSplits, DepositsSplit

\* What is of one business already, and what is of another one.
LEMMA OfBusinessAll ==
    ASSUME NEW s \in Seq(Minable), NEW b, \A i \in 1..Len(s) : s[i].business = b
    PROVE  OfBusiness(s, b) = s
<1> DEFINE places == {i \in DOMAIN s : s[i].business = b}
<1>1. \A i \in 1..Len(s) : i \in places
  OBVIOUS
<1>2. OfBusiness(s, b) = Picked(s, places)
  BY DEF OfBusiness
<1> HIDE DEF places
<1>3. Picked(s, places) = s
  BY <1>1, PickedAll
<1> QED
  BY <1>2, <1>3

LEMMA OfBusinessNone ==
    ASSUME NEW s \in Seq(Minable), NEW b, \A i \in 1..Len(s) : s[i].business # b
    PROVE  OfBusiness(s, b) = <<>>
<1> DEFINE places == {i \in DOMAIN s : s[i].business = b}
<1>1. \A i \in 1..Len(s) : i \notin places
  OBVIOUS
<1>2. OfBusiness(s, b) = Picked(s, places)
  BY DEF OfBusiness
<1> HIDE DEF places
<1>3. Picked(s, places) = <<>>
  BY <1>1, PickedNone
<1> QED
  BY <1>2, <1>3

-----------------------------------------------------------------------------
(***************************************************************************)
(* The types, whatever happens: the invariant TypeOK needs says moreover   *)
(* that branches and heights stay within their bounds, that the flag is    *)
(* above the stored blocks by one at most, and that a rollback has its     *)
(* flag and its rows.                                                      *)
(***************************************************************************)

ScanPart ==
    /\ blocks \in Seq(DOMAIN Content) /\ Len(blocks) <= Height
    /\ backedUp \subseteq 1..MaxHeight
    /\ flag # None => flag.number \in 2..MaxHeight /\ flag.number <= Len(blocks) + 1
    /\ ready \in BatchOf \union {None}

FinderPart ==
    /\ inHand \in BatchOf \union {None}
    /\ finder \in {"select", "record", "confirm", "save", "dead"}
    /\ finder = "record" <=> inHand # None
    /\ todo \subseteq Business

DepositsPart ==
    /\ deposits \in Seq(Row)
    /\ \A i \in DOMAIN deposits : IsDeposit(deposits[i].transfer)
    /\ pending \subseteq DOMAIN deposits

FlowsPart ==
    /\ flows \in Seq(Row)
    /\ \A i \in DOMAIN flows : flows[i].status \in {"success", "fallback"}

RollbackPart ==
    /\ fpc \in {"wait", "persist"}
    /\ fpc = "persist" => flag # None /\ entry \in 1..(flag.number - 1)
    /\ undo \in Seq(Nat) /\ \A i \in DOMAIN undo : undo[i] \in DOMAIN flows

NotifierPart ==
    /\ npc \in {"wait", "post", "after"}
    /\ npc # "wait" => addressee \in Business

BalancesPart == balances \in [Business -> Table]

TypeInv ==
    /\ ChainPart /\ ScanPart /\ FinderPart /\ DepositsPart /\ FlowsPart
    /\ RollbackPart /\ NotifierPart /\ BalancesPart /\ faults \in Nat

LEMMA TypeInvImpliesTypeOK == TypeInv => TypeOK
<1> SUFFICES ASSUME TypeInv PROVE TypeOK
  OBVIOUS
<1>1. ChainTypeOK
  <2>1. chain \in Seq(0..MaxReorgs) /\ branch \in 0..MaxReorgs /\ Height >= InitHeight
    BY Bounds DEF TypeInv, ChainPart, Height
  <2>2. chain \in Seq(Nat)
    <3>1. Len(chain) \in Nat /\ \A i \in 1..Len(chain) : chain[i] \in Nat
      BY <2>1, Bounds
    <3> QED BY <2>1, <3>1
  <2> QED BY <2>1, <2>2, Bounds DEF ChainTypeOK
<1>2. \A i \in DOMAIN deposits : IsRow(deposits[i]) /\ IsDeposit(deposits[i].transfer)
  <2>1. \A row \in Row : IsRow(row)
    BY DEF IsRow, Row
  <2>2. deposits \in Seq(Row)
    BY DEF TypeInv, DepositsPart
  <2>3. \A i \in DOMAIN deposits : deposits[i] \in Row
    BY <2>2
  <2> QED BY <2>1, <2>3 DEF TypeInv, DepositsPart
<1>3. \A i \in DOMAIN flows : IsRow(flows[i]) /\ flows[i].status \in {"success", "fallback"}
  <2>1. \A row \in Row : IsRow(row)
    BY DEF IsRow, Row
  <2>2. flows \in Seq(Row)
    BY DEF TypeInv, FlowsPart
  <2>3. \A i \in DOMAIN flows : flows[i] \in Row
    BY <2>2
  <2> QED BY <2>1, <2>3 DEF TypeInv, FlowsPart
<1> QED
  BY <1>1, <1>2, <1>3 DEF TypeInv, TypeOK, ScanPart, FinderPart, DepositsPart, RollbackPart,
     NotifierPart, BalancesPart, Table

LEMMA InitTypeInv == Init => TypeInv
<1> SUFFICES ASSUME Init PROVE TypeInv
  OBVIOUS
<1>1. ChainPart /\ 1 \in 0..Height
  <2>1. chain = [n \in 1..InitHeight |-> 0] /\ branch = 0
    BY DEF Init, ChainInit
  <2>2. Len(chain) = InitHeight /\ chain \in Seq(0..MaxReorgs)
    BY <2>1, Bounds
  <2> QED BY <2>1, <2>2, Bounds, LedgerAssumption DEF ChainPart, Height
<1>2. blocks \in Seq(DOMAIN Content) /\ Len(blocks) = 1
  <2>1. HashAt(1) \in DOMAIN Content /\ blocks = <<HashAt(1)>>
    BY <1>1, HashKnown DEF Init
  <2> QED BY <2>1
<1>3. ScanPart
  BY <1>1, <1>2 DEF Init, ScanPart, ChainPart, Height
<1>4. FinderPart
  BY DEF Init, FinderPart
<1>5. DepositsPart /\ FlowsPart
  BY DEF Init, DepositsPart, FlowsPart
<1>6. RollbackPart /\ NotifierPart /\ faults \in Nat
  BY DEF Init, RollbackPart, NotifierPart
<1>7. BalancesPart
  BY DEF Init, BalancesPart, Table
<1> QED
  BY <1>1, <1>3, <1>4, <1>5, <1>6, <1>7 DEF TypeInv

\* What the chain does: it keeps its height or grows, and what has MaxDepth blocks
\* on top of it stays.
LEMMA ChainSteps ==
    ASSUME ChainPart, Mine \/ Reorg
    PROVE  /\ ChainPart' /\ Height <= Height'
           /\ \A n \in 1..Height : n + MaxDepth <= Height => chain'[n] = chain[n]
<1>0. /\ chain \in Seq(0..MaxReorgs) /\ branch \in 0..MaxReorgs /\ Height \in Nat
      /\ InitHeight <= Height /\ Height <= MaxHeight
  BY DEF ChainPart, Height
<1>1. CASE Mine
  <2>1. chain' = Append(chain, branch) /\ branch' = branch /\ Height < MaxHeight
    BY <1>1 DEF Mine
  <2>2. /\ chain' \in Seq(0..MaxReorgs) /\ Len(chain') = Len(chain) + 1
        /\ \A n \in 1..Len(chain) : chain'[n] = chain[n]
    BY <1>0, <2>1, AppendProperties
  <2> QED BY <1>0, <2>1, <2>2, Bounds DEF ChainPart, Height
<1>2. CASE Reorg
  <2>1. PICK depth \in 1..MaxDepth :
            chain' = [n \in 1..Height |-> IF n > Height - depth THEN branch + 1 ELSE chain[n]]
    BY <1>2 DEF Reorg
  <2>2. branch' = branch + 1 /\ branch + 1 \in 0..MaxReorgs
    BY <1>0, <1>2, Bounds DEF Reorg
  <2>3. \A n \in 1..Height : chain[n] \in 0..MaxReorgs
    BY <1>0, ElementOfSeq DEF Height
  <2>4. chain' \in [1..Height -> 0..MaxReorgs]
    BY <2>1, <2>2, <2>3
  <2>5. chain' \in Seq(0..MaxReorgs) /\ Len(chain') = Height
    <3>1. \A S, H : H \in Nat => \A f \in [1..H -> S] : f \in Seq(S) /\ Len(f) = H
      OBVIOUS
    <3> QED BY <1>0, <2>4, <3>1
  <2>6. \A n \in 1..Height : n + MaxDepth <= Height => ~(n > Height - depth)
    BY <1>0, Bounds
  <2> QED BY <1>0, <2>1, <2>2, <2>5, <2>6 DEF ChainPart, Height
<1> QED
  BY <1>1, <1>2

\* Rows that are added to: the old ones stay, the new ones are of the batch.
LEMMA AddedRows ==
    ASSUME NEW rows \in Seq(Row), NEW s \in Seq(Minable), inHand \in BatchOf
    PROVE  LET all == rows \o NewRows(s)
           IN  /\ all \in Seq(Row) /\ DOMAIN rows \subseteq DOMAIN all
               /\ \A i \in DOMAIN rows : all[i] = rows[i]
               /\ \A i \in DOMAIN all : i \notin DOMAIN rows =>
                      /\ \E j \in 1..Len(s) : all[i].transfer = s[j]
                      /\ all[i].number = inHand.number /\ all[i].status = "success"
<1> DEFINE all == rows \o NewRows(s)
           K == Len(rows)
           N == Len(s)
<1>1. /\ K \in Nat /\ N \in Nat /\ DOMAIN rows = 1..K
      /\ all \in Seq(Row) /\ Len(all) = K + N
      /\ \A i \in 1..K : all[i] = rows[i]
      /\ \A i \in 1..N : all[K + i] = NewRows(s)[i]
  <2>1. K \in Nat /\ N \in Nat /\ DOMAIN rows = 1..K
    OBVIOUS
  <2>2. /\ all \in Seq(Row) /\ Len(all) = K + N
        /\ \A i \in 1..K : all[i] = rows[i]
        /\ \A i \in 1..N : all[K + i] = NewRows(s)[i]
    BY TransfersConcat
  <2> QED BY <2>1, <2>2
<1>2. \A i \in 1..N : /\ NewRows(s)[i].transfer = s[i] /\ NewRows(s)[i].status = "success"
                      /\ NewRows(s)[i].number = inHand.number
  BY NewRowsTyped
<1>3. DOMAIN all = 1..(K + N)
  BY <1>1
<1> HIDE DEF all, K, N
<1>4. \A i \in 1..K : i \in 1..(K + N)
  BY <1>1
<1>5. ASSUME NEW i \in 1..(K + N), i \notin 1..K
      PROVE  /\ \E j \in 1..N : all[i].transfer = s[j]
             /\ all[i].number = inHand.number /\ all[i].status = "success"
  <2>1. i - K \in 1..N /\ K + (i - K) = i
    BY <1>1, <1>5
  <2>2. all[i] = NewRows(s)[i - K]
    BY <1>1, <2>1
  <2> QED BY <1>2, <2>1, <2>2
<1> QED
  BY <1>1, <1>3, <1>4, <1>5 DEF all, K, N

LEMMA OfTyped ==
    ASSUME NEW batch \in BatchOf, NEW b
    PROVE  /\ Of(b, batch) \in Seq(Minable)
           /\ \A i \in 1..Len(Of(b, batch)) : Of(b, batch)[i].business = b
<1>1. batch.transfers \in Seq(Minable)
  BY DEF BatchOf
<1> QED
  BY <1>1, OfBusinessTyped DEF Of

\* A recorded batch leaves tables of the right types.
LEMMA RecordedTypes ==
    ASSUME TypeInv, NEW b \in Business, inHand \in BatchOf, Recorded(b), pending' = pending
    PROVE  DepositsPart' /\ FlowsPart' /\ BalancesPart' /\ DOMAIN flows \subseteq DOMAIN flows'
<1> DEFINE m == Of(b, inHand)
           d == DepositsIn(m)
<1>1. m \in Seq(Minable)
  BY OfTyped
<1>2. deposits \in Seq(Row) /\ flows \in Seq(Row)
  BY DEF TypeInv, DepositsPart, FlowsPart
<1>3. /\ deposits' = deposits \o NewRows(d) /\ flows' = flows \o NewRows(m)
      /\ balances' = [balances EXCEPT ![b] = UpdateOrCreate(@, m)] /\ balances'[b] # NoRow
  BY DEF Recorded
<1> HIDE DEF m
<1>4. d \in Seq(Minable) /\ \A i \in 1..Len(d) : IsDeposit(d[i])
  BY <1>1, DepositsInTyped
<1> HIDE DEF d
<1>5. /\ deposits' \in Seq(Row) /\ DOMAIN deposits \subseteq DOMAIN deposits'
      /\ \A i \in DOMAIN deposits : deposits'[i] = deposits[i]
      /\ \A i \in DOMAIN deposits' : i \notin DOMAIN deposits =>
             \E j \in 1..Len(d) : deposits'[i].transfer = d[j]
  BY <1>2, <1>3, <1>4, AddedRows
<1>6. DepositsPart'
  <2>1. ASSUME NEW i \in DOMAIN deposits' PROVE IsDeposit(deposits'[i].transfer)
    <3>1. CASE i \in DOMAIN deposits
      BY <1>5, <3>1 DEF TypeInv, DepositsPart
    <3>2. CASE i \notin DOMAIN deposits
      BY <1>4, <1>5, <3>2
    <3> QED BY <3>1, <3>2
  <2> QED BY <1>5, <2>1 DEF TypeInv, DepositsPart
<1>7. /\ flows' \in Seq(Row) /\ DOMAIN flows \subseteq DOMAIN flows'
      /\ \A i \in DOMAIN flows : flows'[i] = flows[i]
      /\ \A i \in DOMAIN flows' : i \notin DOMAIN flows => flows'[i].status = "success"
  BY <1>1, <1>2, <1>3, AddedRows
<1>8. FlowsPart'
  <2>1. ASSUME NEW i \in DOMAIN flows' PROVE flows'[i].status \in {"success", "fallback"}
    <3>1. CASE i \in DOMAIN flows
      BY <1>7, <3>1 DEF TypeInv, FlowsPart
    <3>2. CASE i \notin DOMAIN flows
      BY <1>7, <3>2
    <3> QED BY <3>1, <3>2
  <2> QED BY <1>7, <2>1 DEF FlowsPart
<1>9. BalancesPart'
  <2>1. balances \in [Business -> Table]
    BY DEF TypeInv, BalancesPart
  <2>2. UpdateOrCreate(balances[b], m) \in MayBeTable
    BY <1>1, <2>1, UpdateOutcome DEF MayBeTable
  <2>3. balances'[b] = UpdateOrCreate(balances[b], m)
    BY <1>3, <2>1
  <2>4. UpdateOrCreate(balances[b], m) \in Table
    BY <1>3, <2>2, <2>3 DEF MayBeTable
  <2> QED BY <1>3, <2>1, <2>4 DEF BalancesPart
<1> QED
  BY <1>6, <1>7, <1>8, <1>9

\* A rollback marks rows.
LEMMA FallBackMarksRows ==
    ASSUME NEW rows, NEW lo, NEW hi, NEW new \in FallBackRows(rows, lo, hi)
    PROVE  \E places : new = Marked(rows, places, "fallback")
BY DEF FallBackRows

LEMMA RevertedTyped ==
    ASSUME TypeInv, NEW b \in Business
    PROVE  Reverted(b) \in MayBeTable
<1> DEFINE transfers == [i \in DOMAIN undo |-> flows[undo[i]].transfer]
<1>1. balances[b] \in MayBeTable
  BY DEF TypeInv, BalancesPart, MayBeTable
<1>2. transfers \in Seq(Minable)
  <2>1. /\ Len(undo) \in Nat /\ DOMAIN undo = 1..Len(undo)
        /\ \A i \in DOMAIN undo : undo[i] \in DOMAIN flows
    BY DEF TypeInv, RollbackPart
  <2>2. flows \in Seq(Row)
    BY DEF TypeInv, FlowsPart
  <2>3. \A i \in DOMAIN flows : flows[i].transfer \in Minable
    BY <2>2, TransfersOfRows DEF Row
  <2>4. transfers \in [1..Len(undo) -> Minable]
    BY <2>1, <2>3
  <2> HIDE DEF transfers
  <2> QED BY <2>1, <2>4
<1>3. Reverted(b) = UpdateFallBackBalance(balances[b], transfers)
  BY DEF Reverted
<1> HIDE DEF transfers
<1>4. CASE transfers = <<>>
  BY <1>1, <1>3, <1>4 DEF UpdateFallBackBalance
<1>5. CASE transfers # <<>>
  <2>1. Head(transfers) \in Minable
    BY <1>2, <1>5
  <2>2. Reverted(b) = Perform(balances[b], Reversal(Head(transfers)))
    BY <1>3, <1>5 DEF UpdateFallBackBalance
  <2> QED BY <1>1, <2>1, <2>2, ReversalIsTable
<1> QED
  BY <1>4, <1>5

-----------------------------------------------------------------------------
\* The types, step by step.

LEMMA TypeChainStep == TypeInv /\ ChainStep => TypeInv'
<1> SUFFICES ASSUME TypeInv, ChainStep PROVE TypeInv'
  OBVIOUS
<1>1. ChainPart' /\ Height <= Height'
  BY ChainSteps DEF TypeInv, ChainStep
<1>2. ScanPart'
  <2>1. blocks \in Seq(DOMAIN Content) /\ Len(blocks) <= Height
    BY DEF TypeInv, ScanPart
  <2>2. Len(blocks) \in Nat /\ Height \in Nat /\ Height' \in Nat
    BY <1>1, <2>1 DEF TypeInv, ChainPart, Height
  <2>3. Len(blocks) <= Height'
    BY <1>1, <2>1, <2>2
  <2> QED BY <2>1, <2>3 DEF TypeInv, ScanPart, ChainStep, scanVars
<1>3. FinderPart' /\ DepositsPart' /\ FlowsPart' /\ RollbackPart' /\ NotifierPart' /\ BalancesPart'
  BY DEF TypeInv, FinderPart, DepositsPart, FlowsPart, RollbackPart, NotifierPart, BalancesPart,
     ChainStep, scanVars, finderVars, tables, fallbackVars, notifyVars
<1> QED
  BY <1>1, <1>2, <1>3 DEF TypeInv, ChainStep

\* The next header is of a known block.
LEMMA NextHeaderKnown ==
    ASSUME TypeInv, Scannable
    PROVE  LET n == Len(blocks) + 1
           IN  /\ n \in 2..MaxHeight /\ n \in 0..Height /\ n + Confirmations <= Height
               /\ blocks \in Seq(DOMAIN Content) /\ Len(blocks) \in Nat /\ blocks # <<>>
               /\ NextHeader = HeaderAt(n) /\ NextHeader.number = n
               /\ NextHeader.hash = HashAt(n) /\ NextHeader.hash \in DOMAIN Content
               /\ NextHeader.parent = HashAt(Len(blocks))
<1>1. blocks \in Seq(DOMAIN Content) /\ blocks # <<>> /\ Len(blocks) + 1 + Confirmations <= Height
  BY DEF TypeInv, ScanPart, Scannable
<1>2. Len(blocks) \in Nat /\ Len(blocks) # 0 /\ Height \in Nat /\ Height <= MaxHeight
  BY <1>1 DEF TypeInv, ChainPart, Height
<1>3. Len(blocks) + 1 \in 2..MaxHeight /\ Len(blocks) + 1 \in 0..Height
      /\ (Len(blocks) + 1) - 1 = Len(blocks) /\ (Len(blocks) + 1) + Confirmations <= Height
  BY <1>1, <1>2, Bounds
<1>4. HashAt(Len(blocks) + 1) \in DOMAIN Content
  BY <1>3, HashKnown DEF TypeInv
<1> QED
  BY <1>1, <1>2, <1>3, <1>4 DEF NextHeader, HeaderAt

LEMMA TypeScanBlock == TypeInv /\ ScanBlock => TypeInv'
<1> SUFFICES ASSUME TypeInv, ScanBlock PROVE TypeInv'
  OBVIOUS
<1> DEFINE n == Len(blocks) + 1
<1>1. /\ n \in 2..MaxHeight /\ n \in 0..Height /\ n + Confirmations <= Height
      /\ blocks \in Seq(DOMAIN Content) /\ Len(blocks) \in Nat
      /\ NextHeader.number = n /\ NextHeader.hash \in DOMAIN Content
  BY NextHeaderKnown DEF ScanBlock
<1>2. blocks' \in Seq(DOMAIN Content) /\ Len(blocks') = n
  BY <1>1, AppendProperties DEF ScanBlock
<1>3. ready' \in BatchOf \union {None}
  <2>1. Batch(n) \in BatchOf
    BY <1>1, TransfersTyped DEF TypeInv, Batch, BatchOf
  <2> QED BY <1>1, <2>1 DEF ScanBlock
<1>4. ChainPart' /\ Height' = Height
  BY DEF TypeInv, ScanBlock, chainVars, ChainPart, Height
<1>5. ScanPart'
  <2>1. n <= Height /\ Len(blocks) + 1 <= n + 1
    BY <1>1
  <2>2. flag' # None => flag'.number \in 2..MaxHeight /\ flag'.number <= n + 1
    BY <1>1, Bounds DEF TypeInv, ScanPart, ScanBlock
  <2> HIDE DEF n
  <2>3. Len(blocks') <= Height' /\ (flag' # None => flag'.number <= Len(blocks') + 1)
    BY <1>2, <1>4, <2>1, <2>2
  <2> QED BY <1>2, <1>3, <2>2, <2>3 DEF TypeInv, ScanPart, ScanBlock
<1>6. FinderPart' /\ DepositsPart' /\ FlowsPart' /\ RollbackPart' /\ NotifierPart' /\ BalancesPart'
  BY DEF TypeInv, FinderPart, DepositsPart, FlowsPart, RollbackPart, NotifierPart, BalancesPart,
     ScanBlock, finderVars, tables, fallbackVars, notifyVars
<1> QED
  BY <1>4, <1>5, <1>6 DEF TypeInv, ScanBlock

LEMMA TypeFlagReorg == TypeInv /\ FlagReorg => TypeInv'
<1> SUFFICES ASSUME TypeInv, FlagReorg PROVE TypeInv'
  OBVIOUS
<1>1. Len(blocks) + 1 \in 2..MaxHeight /\ NextHeader.number = Len(blocks) + 1
  BY NextHeaderKnown DEF FlagReorg
<1>2. ChainPart' /\ ScanPart'
  <2>1. flag'.number \in 2..MaxHeight /\ flag'.number <= Len(blocks) + 1
    BY <1>1, Bounds DEF FlagReorg
  <2> QED BY <2>1 DEF TypeInv, FlagReorg, chainVars, ChainPart, Height, ScanPart
<1>3. RollbackPart'
  <2>1. fpc = "wait"
    BY DEF TypeInv, RollbackPart, FlagReorg
  <2> QED BY <2>1 DEF TypeInv, RollbackPart, FlagReorg, fallbackVars, tables
<1>4. FinderPart' /\ DepositsPart' /\ FlowsPart' /\ NotifierPart' /\ BalancesPart'
  BY DEF TypeInv, FinderPart, DepositsPart, FlowsPart, NotifierPart, BalancesPart,
     FlagReorg, finderVars, tables, notifyVars
<1> QED
  BY <1>2, <1>3, <1>4 DEF TypeInv, FlagReorg

LEMMA TypeFinderReceive == TypeInv /\ FinderReceive => TypeInv'
<1> SUFFICES ASSUME TypeInv, FinderReceive PROVE TypeInv'
  OBVIOUS
<1>1. ChainPart' /\ ScanPart'
  BY DEF TypeInv, ChainPart, ScanPart, FinderReceive, chainVars, Height
<1>2. FinderPart'
  <2>1. Involved(ready) \subseteq Business
    BY DEF Involved
  <2> QED BY <2>1 DEF TypeInv, ScanPart, FinderPart, FinderReceive
<1>3. DepositsPart' /\ FlowsPart' /\ RollbackPart' /\ NotifierPart' /\ BalancesPart'
  BY DEF TypeInv, DepositsPart, FlowsPart, RollbackPart, NotifierPart, BalancesPart,
     FinderReceive, tables, fallbackVars, notifyVars
<1> QED
  BY <1>1, <1>2, <1>3 DEF TypeInv, FinderReceive

LEMMA TypeHandleBatch ==
    ASSUME TypeInv, NEW b \in Business, HandleBatch(b)
    PROVE  TypeInv'
<1>1. inHand \in BatchOf /\ Recorded(b) /\ pending' = pending
  BY DEF TypeInv, FinderPart, HandleBatch
<1>2. DepositsPart' /\ FlowsPart' /\ BalancesPart' /\ DOMAIN flows \subseteq DOMAIN flows'
  BY <1>1, RecordedTypes
<1>3. ChainPart' /\ ScanPart'
  BY DEF TypeInv, ChainPart, ScanPart, HandleBatch, chainVars, scanVars, Height
<1>4. FinderPart'
  BY DEF TypeInv, FinderPart, HandleBatch, BusinessDone
<1>5. RollbackPart'
  BY <1>2 DEF TypeInv, RollbackPart, HandleBatch, fallbackVars, scanVars
<1>6. NotifierPart'
  BY DEF TypeInv, NotifierPart, HandleBatch, notifyVars
<1> QED
  BY <1>2, <1>3, <1>4, <1>5, <1>6 DEF TypeInv, HandleBatch

LEMMA FaultsCounted ==
    ASSUME TypeInv, NEW kind, Fault(kind)
    PROVE  faults' \in Nat
BY DEF TypeInv, Fault

LEMMA TypeHandleBatchFails ==
    ASSUME TypeInv, NEW b \in Business, HandleBatchFails(b)
    PROVE  TypeInv'
<1>1. inHand \in BatchOf /\ pending' = pending /\ (Recorded(b) \/ UNCHANGED tables)
  BY DEF TypeInv, FinderPart, HandleBatchFails
<1>2. DepositsPart' /\ FlowsPart' /\ BalancesPart' /\ DOMAIN flows \subseteq DOMAIN flows'
  <2>1. CASE Recorded(b)
    BY <1>1, <2>1, RecordedTypes
  <2>2. CASE UNCHANGED tables
    BY <1>1, <2>2 DEF TypeInv, DepositsPart, FlowsPart, BalancesPart, tables
  <2> QED BY <1>1, <2>1, <2>2
<1>3. ChainPart' /\ ScanPart'
  BY DEF TypeInv, ChainPart, ScanPart, HandleBatchFails, chainVars, scanVars, Height
<1>4. FinderPart'
  BY DEF TypeInv, FinderPart, HandleBatchFails, FinderDies
<1>5. RollbackPart'
  BY <1>2 DEF TypeInv, RollbackPart, HandleBatchFails, fallbackVars, scanVars
<1>6. NotifierPart'
  BY DEF TypeInv, NotifierPart, HandleBatchFails, notifyVars
<1>7. faults' \in Nat
  BY FaultsCounted DEF TypeInv, HandleBatchFails
<1> QED
  BY <1>2, <1>3, <1>4, <1>5, <1>6, <1>7 DEF TypeInv

LEMMA TypeConfirmTickFails == TypeInv /\ ConfirmTickFails => TypeInv'
<1> SUFFICES ASSUME TypeInv, ConfirmTickFails PROVE TypeInv'
  OBVIOUS
<1>1. UNCHANGED <<chainVars, scanVars, pending, tables, fallbackVars, notifyVars>>
  BY DEF ConfirmTickFails
<1>2. ChainPart' /\ ScanPart'
  BY <1>1 DEF TypeInv, ChainPart, ScanPart, chainVars, scanVars, Height
<1>3. FinderPart'
  BY DEF TypeInv, FinderPart, ConfirmTickFails, FinderDies
<1>4. DepositsPart' /\ FlowsPart' /\ BalancesPart'
  BY <1>1 DEF TypeInv, DepositsPart, FlowsPart, BalancesPart, tables
<1>5. RollbackPart'
  BY <1>1 DEF TypeInv, RollbackPart, fallbackVars, tables, scanVars
<1>6. NotifierPart'
  BY <1>1 DEF TypeInv, NotifierPart, notifyVars
<1>7. faults' \in Nat
  BY FaultsCounted DEF ConfirmTickFails
<1> QED
  BY <1>2, <1>3, <1>4, <1>5, <1>6, <1>7 DEF TypeInv

LEMMA TypeConfirm ==
    ASSUME TypeInv, ConfirmTick \/ \E b \in Business : ConfirmRead(b)
    PROVE  TypeInv'
<1>1. UNCHANGED <<chainVars, scanVars, inHand, tables, fallbackVars, notifyVars, faults>>
  BY DEF ConfirmTick, ConfirmRead
<1>2. ChainPart' /\ ScanPart'
  BY <1>1 DEF TypeInv, ChainPart, ScanPart, chainVars, scanVars, Height
<1>3. FinderPart'
  BY <1>1 DEF TypeInv, FinderPart, ConfirmTick, ConfirmRead
<1>4. DepositsPart'
  <2>1. pending' \subseteq DOMAIN deposits
    BY DEF TypeInv, DepositsPart, ConfirmTick, ConfirmRead, Unconfirmed
  <2> QED BY <1>1, <2>1 DEF TypeInv, DepositsPart, tables
<1>5. FlowsPart' /\ RollbackPart' /\ NotifierPart' /\ BalancesPart' /\ faults' \in Nat
  BY <1>1 DEF TypeInv, FlowsPart, RollbackPart, NotifierPart, BalancesPart, tables,
     fallbackVars, notifyVars, scanVars
<1> QED
  BY <1>2, <1>3, <1>4, <1>5 DEF TypeInv

\* To mark deposits leaves the types.
LEMMA MarkedDeposits ==
    ASSUME TypeInv, NEW places, NEW mark \in Status,
           deposits' = Marked(deposits, places, mark), pending' \subseteq DOMAIN deposits
    PROVE  DepositsPart'
<1>1. deposits \in Seq(Row)
  BY DEF TypeInv, DepositsPart
<1>2. /\ deposits' \in Seq(Row) /\ DOMAIN deposits' = DOMAIN deposits
      /\ \A i \in DOMAIN deposits : deposits'[i].transfer = deposits[i].transfer
  BY <1>1, MarkedRows
<1> QED
  BY <1>2 DEF TypeInv, DepositsPart

LEMMA TypeConfirmSave == TypeInv /\ ConfirmSave => TypeInv'
<1> SUFFICES ASSUME TypeInv, ConfirmSave PROVE TypeInv'
  OBVIOUS
<1>1. UNCHANGED <<chainVars, scanVars, inHand, todo, flows, balances, fallbackVars, notifyVars>>
  BY DEF ConfirmSave
<1>2. ChainPart' /\ ScanPart'
  BY <1>1 DEF TypeInv, ChainPart, ScanPart, chainVars, scanVars, Height
<1>3. FinderPart'
  BY <1>1 DEF TypeInv, FinderPart, ConfirmSave, AfterConfirm
<1>4. DepositsPart'
  <2>1. pending' = {} /\ "wallet_done" \in Status
    BY DEF ConfirmSave, AfterConfirm, Status
  <2>2. CASE deposits' = deposits
    BY <2>1, <2>2 DEF TypeInv, DepositsPart
  <2>3. CASE deposits' = Marked(deposits, pending, "wallet_done")
    BY <2>1, <2>3, MarkedDeposits
  <2> QED BY <2>2, <2>3 DEF ConfirmSave
<1>5. FlowsPart' /\ RollbackPart' /\ NotifierPart' /\ BalancesPart'
  BY <1>1 DEF TypeInv, FlowsPart, RollbackPart, NotifierPart, BalancesPart,
     fallbackVars, notifyVars, scanVars
<1>6. faults' \in Nat
  BY FaultsCounted DEF TypeInv, ConfirmSave
<1> QED
  BY <1>2, <1>3, <1>4, <1>5, <1>6 DEF TypeInv

LEMMA TypeReadFallbackRows == TypeInv /\ ReadFallbackRows => TypeInv'
<1> SUFFICES ASSUME TypeInv, ReadFallbackRows PROVE TypeInv'
  OBVIOUS
<1>1. UNCHANGED <<chainVars, scanVars, finderVars, tables, notifyVars, faults>>
  BY DEF ReadFallbackRows
<1>2. flag # None /\ flag.number \in 2..MaxHeight /\ entry' = Entry /\ Entry > 0
  BY DEF TypeInv, ScanPart, ReadFallbackRows
<1>3. entry' \in 1..(flag.number - 1)
  <2>1. Entry \in {flag.number - 1, flag.number - 2}
    BY DEF Entry
  <2> QED BY <1>2, <2>1, Bounds
<1>4. undo' \in Seq(Nat) /\ \A i \in DOMAIN undo' : undo'[i] \in DOMAIN flows
  <2> DEFINE rows == InRange(flows, Entry, flag.number)
  <2>1. Len(flows) \in Nat /\ DOMAIN flows = 1..Len(flows)
    BY DEF TypeInv, FlowsPart
  <2>2. rows \subseteq DOMAIN flows
    BY DEF InRange
  <2>3. undo' \in SetToSeqs(rows)
    BY DEF ReadFallbackRows
  <2> HIDE DEF rows
  <2>4. IsFiniteSet(1..Len(flows))
    BY <2>1, FS_Interval
  <2>5. IsFiniteSet(rows)
    BY <2>1, <2>2, <2>4, FS_Subset
  <2>6. Cardinality(rows) \in Nat
    BY <2>5, FS_CardinalityType
  <2>7. undo' \in [1..Cardinality(rows) -> rows]
    BY <2>3 DEF SetToSeqs
  <2>8. rows \subseteq Nat
    BY <2>1, <2>2
  <2>9. \A S, H : H \in Nat => \A f \in [1..H -> S] : f \in Seq(S) /\ DOMAIN f = 1..H
    OBVIOUS
  <2>10. undo' \in [1..Cardinality(rows) -> Nat]
    BY <2>7, <2>8
  <2> QED BY <2>2, <2>6, <2>7, <2>9, <2>10
<1>5. RollbackPart'
  BY <1>1, <1>2, <1>3, <1>4 DEF RollbackPart, ReadFallbackRows, scanVars, tables
<1>6. ChainPart' /\ ScanPart' /\ FinderPart' /\ DepositsPart' /\ FlowsPart' /\ NotifierPart'
      /\ BalancesPart' /\ faults' \in Nat
  BY <1>1 DEF TypeInv, ChainPart, ScanPart, FinderPart, DepositsPart, FlowsPart, NotifierPart,
     BalancesPart, chainVars, scanVars, finderVars, tables, notifyVars, Height
<1> QED
  BY <1>5, <1>6 DEF TypeInv

LEMMA TypePersistFallback == TypeInv /\ PersistFallback => TypeInv'
<1> SUFFICES ASSUME TypeInv, PersistFallback PROVE TypeInv'
  OBVIOUS
<1>1. /\ UNCHANGED <<chainVars, ready, finderVars, notifyVars, faults>>
      /\ fpc' = "wait" /\ undo' = <<>> /\ flag' = None
  BY DEF PersistFallback, EndFallback
<1>2. /\ flag.number \in 2..MaxHeight /\ flag.number <= Len(blocks) + 1
      /\ entry \in 1..(flag.number - 1) /\ blocks \in Seq(DOMAIN Content) /\ Len(blocks) <= Height
  BY DEF TypeInv, RollbackPart, ScanPart, PersistFallback
<1>3. /\ Len(blocks) \in Nat /\ Height \in Nat
      /\ entry - 1 \in 0..Len(blocks) /\ 1 \in 1..(Len(blocks) + 1)
  <2>1. Len(blocks) \in Nat /\ Height \in Nat
    BY <1>2 DEF TypeInv, ChainPart, Height
  <2>2. flag.number \in Int /\ entry \in Int /\ 1 <= entry /\ entry <= flag.number - 1
    BY <1>2, Bounds
  <2>3. flag.number <= Len(blocks) + 1
    BY <1>2
  <2> QED BY <2>1, <2>2, <2>3
<1>4. blocks' \in Seq(DOMAIN Content) /\ Len(blocks') <= Height
  <2>1. blocks' = SubSeq(blocks, 1, entry - 1)
    BY DEF PersistFallback
  <2>2. \A i \in 1..(entry - 1) : i \in 1..Len(blocks)
    BY <1>2, <1>3
  <2>3. blocks' \in Seq(DOMAIN Content) /\ Len(blocks') = entry - 1
    <3>1. \A S : \A s \in Seq(S) : \A k \in 0..Len(s) :
              SubSeq(s, 1, k) \in Seq(S) /\ Len(SubSeq(s, 1, k)) = k
      OBVIOUS
    <3> QED BY <1>2, <1>3, <2>1, <3>1
  <2> QED BY <1>2, <1>3, <2>3
<1>5. ChainPart' /\ ScanPart'
  <2>1. backedUp' \subseteq 1..MaxHeight
    <3>1. entry..(flag.number - 1) \subseteq 1..MaxHeight
      BY <1>2, Bounds
    <3> QED BY <3>1 DEF PersistFallback, TypeInv, ScanPart
  <2> QED BY <1>1, <1>4, <2>1 DEF TypeInv, ChainPart, ScanPart, chainVars, Height
<1>6. PICK pd, pf : /\ deposits' = Marked(deposits, pd, "fallback")
                    /\ flows' = Marked(flows, pf, "fallback")
  BY FallBackMarksRows DEF PersistFallback, FallBackMarks
<1>7. DepositsPart'
  BY <1>1, <1>6, MarkedDeposits DEF Status, finderVars, TypeInv, DepositsPart
<1>8. FlowsPart' /\ DOMAIN flows' = DOMAIN flows
  <2>1. flows \in Seq(Row) /\ "fallback" \in Status
    BY DEF TypeInv, FlowsPart, Status
  <2>2. /\ flows' \in Seq(Row) /\ DOMAIN flows' = DOMAIN flows
        /\ \A i \in DOMAIN flows :
               flows'[i].status = IF i \in pf THEN "fallback" ELSE flows[i].status
    BY <1>6, <2>1, MarkedRows
  <2> QED BY <2>2 DEF TypeInv, FlowsPart
<1>9. BalancesPart'
  <2>1. \A b \in Business : Reverted(b) \in MayBeTable /\ Reverted(b) # NoRow
    BY RevertedTyped DEF PersistFallback
  <2>2. \A b \in Business : Reverted(b) \in Table
    BY <2>1 DEF MayBeTable
  <2> QED BY <2>2 DEF PersistFallback, BalancesPart
<1>10. RollbackPart'
  BY <1>1 DEF RollbackPart
<1>11. FinderPart' /\ NotifierPart' /\ faults' \in Nat
  BY <1>1 DEF TypeInv, FinderPart, NotifierPart, finderVars, notifyVars
<1> QED
  BY <1>5, <1>7, <1>8, <1>9, <1>10, <1>11 DEF TypeInv

LEMMA TypePersistFails == TypeInv /\ PersistFails => TypeInv'
<1> SUFFICES ASSUME TypeInv, PersistFails PROVE TypeInv'
  OBVIOUS
<1>1. /\ UNCHANGED <<chainVars, blocks, backedUp, ready, finderVars, tables, notifyVars>>
      /\ fpc' = "wait" /\ undo' = <<>> /\ flag' = None
  BY DEF PersistFails, EndFallback
<1>2. faults' \in Nat
  BY FaultsCounted DEF TypeInv, PersistFails
<1>3. RollbackPart'
  BY <1>1 DEF RollbackPart
<1>4. ChainPart' /\ ScanPart' /\ FinderPart' /\ DepositsPart' /\ FlowsPart' /\ NotifierPart'
      /\ BalancesPart'
  BY <1>1 DEF TypeInv, ChainPart, ScanPart, FinderPart, DepositsPart, FlowsPart, NotifierPart,
     BalancesPart, chainVars, finderVars, tables, notifyVars, Height
<1> QED
  BY <1>2, <1>3, <1>4 DEF TypeInv

LEMMA TypeNotifier ==
    ASSUME TypeInv, Post \/ AfterNotify \/ \E b \in Business : NotifierTick(b)
    PROVE  TypeInv'
<1>1. /\ UNCHANGED <<chainVars, scanVars, finderVars, flows, balances, fallbackVars>>
      /\ faults' \in Nat
  BY FaultsCounted DEF TypeInv, Post, AfterNotify, NotifierTick, tables
<1>2. \/ deposits' = deposits
      \/ \E places : deposits' = Marked(deposits, places, "notified")
  BY DEF Post, AfterNotify, NotifierTick, tables, NotifiedRows
<1>3. DepositsPart'
  <2>1. CASE deposits' = deposits
    BY <1>1, <2>1 DEF TypeInv, DepositsPart, finderVars
  <2>2. CASE \E places : deposits' = Marked(deposits, places, "notified")
    BY <1>1, <2>2, MarkedDeposits DEF Status, TypeInv, DepositsPart, finderVars
  <2> QED BY <1>2, <2>1, <2>2
<1>4. NotifierPart'
  BY DEF TypeInv, NotifierPart, Post, AfterNotify, NotifierTick, Rest, PostFailed
<1>5. ChainPart' /\ ScanPart' /\ FinderPart' /\ FlowsPart' /\ RollbackPart' /\ BalancesPart'
  BY <1>1 DEF TypeInv, ChainPart, ScanPart, FinderPart, FlowsPart, RollbackPart, BalancesPart,
     chainVars, scanVars, finderVars, fallbackVars, Height
<1> QED
  BY <1>1, <1>3, <1>4, <1>5 DEF TypeInv

LEMMA TypeCrash == TypeInv /\ Crash => TypeInv'
<1> SUFFICES ASSUME TypeInv, Crash PROVE TypeInv'
  OBVIOUS
<1>1. UNCHANGED <<chainVars, blocks, backedUp, tables>> /\ faults' \in Nat
  BY FaultsCounted DEF Crash
<1>2. ChainPart' /\ ScanPart'
  BY <1>1 DEF TypeInv, ChainPart, ScanPart, chainVars, Crash, Height
<1>3. FinderPart' /\ RollbackPart' /\ NotifierPart'
  BY DEF Crash, FinderPart, RollbackPart, NotifierPart, Rest
<1>4. DepositsPart' /\ FlowsPart' /\ BalancesPart'
  BY <1>1 DEF TypeInv, DepositsPart, FlowsPart, BalancesPart, tables, Crash
<1> QED
  BY <1>1, <1>2, <1>3, <1>4 DEF TypeInv

LEMMA TypeStep == TypeInv /\ [Next]_vars => TypeInv'
<1> SUFFICES ASSUME TypeInv, [Next]_vars PROVE TypeInv'
  OBVIOUS
<1>1. CASE ChainStep
  BY <1>1, TypeChainStep
<1>2. CASE ScanStep
  BY <1>2, TypeScanBlock, TypeFlagReorg DEF ScanStep
<1>3. CASE FinderStep
  BY <1>3, TypeFinderReceive, TypeHandleBatch, TypeHandleBatchFails, TypeConfirm, TypeConfirmSave
     DEF FinderStep, RecordStep, ConfirmStep
<1>4. CASE FallbackStep
  BY <1>4, TypeReadFallbackRows, TypePersistFallback, TypePersistFails DEF FallbackStep
<1>5. CASE NotifierStep
  BY <1>5, TypeNotifier DEF NotifierStep
<1>6. CASE Crash
  BY <1>6, TypeCrash
<1>7. CASE UNCHANGED vars
  BY <1>7 DEF TypeInv, ChainPart, ScanPart, FinderPart, DepositsPart, FlowsPart, RollbackPart,
     NotifierPart, BalancesPart, vars, chainVars, scanVars, finderVars, tables, fallbackVars,
     notifyVars, Height
<1>8. CASE ConfirmTickFails
  BY <1>8, TypeConfirmTickFails
<1> QED
  BY <1>1, <1>2, <1>3, <1>4, <1>5, <1>6, <1>7, <1>8 DEF Next

\* Whatever the chain does, wherever the goroutines are interrupted: rows,
\* batches and marks are of the right types, and no balance is below zero.
THEOREM TypeCorrect == Spec => []TypeOK
<1>1. Init => TypeInv
  BY InitTypeInv
<1>2. TypeInv /\ [Next]_vars => TypeInv'
  BY TypeStep
<1>3. TypeInv => TypeOK
  BY TypeInvImpliesTypeOK
<1> QED
  BY <1>1, <1>2, <1>3, PTL DEF Spec

-----------------------------------------------------------------------------
(***************************************************************************)
(* The tables of deposits and of transactions: a step that records a batch *)
(* adds to both, and no other step changes a transfer of either.           *)
(***************************************************************************)

RecordsNow(b) ==
    /\ b \in Business /\ finder = "record" /\ b \in todo
    /\ inHand \in BatchOf /\ Recorded(b) /\ posted' = posted

SameTransfers ==
    /\ Transfers(deposits') = Transfers(deposits)
    /\ Transfers(flows') = Transfers(flows)

LEMMA MarkedSame ==
    ASSUME NEW rows \in Seq(Row), NEW places, NEW mark \in Status, NEW new,
           new = rows \/ new = Marked(rows, places, mark)
    PROVE  Transfers(new) = Transfers(rows)
BY MarkedRows

LEMMA TablesStep ==
    ASSUME TypeInv, [Next]_vars
    PROVE  (\E b \in Business : RecordsNow(b)) \/ SameTransfers
<1>0. deposits \in Seq(Row) /\ flows \in Seq(Row)
  BY DEF TypeInv, DepositsPart, FlowsPart
<1>1. CASE RecordStep
  <2>1. PICK b \in Business : HandleBatch(b) \/ HandleBatchFails(b)
    BY <1>1 DEF RecordStep
  <2>2. finder = "record" /\ b \in todo /\ inHand \in BatchOf
    BY <2>1 DEF HandleBatch, HandleBatchFails, TypeInv, FinderPart
  <2>3. CASE Recorded(b)
    BY <2>1, <2>2, <2>3 DEF RecordsNow, HandleBatch, HandleBatchFails, notifyVars
  <2>4. CASE UNCHANGED tables
    BY <2>4 DEF SameTransfers, tables
  <2> QED BY <2>1, <2>3, <2>4 DEF HandleBatch, HandleBatchFails
<1>2. CASE ConfirmSave
  <2>1. flows' = flows /\ "wallet_done" \in Status
    BY <1>2 DEF ConfirmSave, Status
  <2>2. deposits' = deposits \/ deposits' = Marked(deposits, pending, "wallet_done")
    BY <1>2 DEF ConfirmSave
  <2>3. Transfers(deposits') = Transfers(deposits)
    BY <1>0, <2>1, <2>2, MarkedSame
  <2> QED BY <2>1, <2>3 DEF SameTransfers
<1>3. CASE PersistFallback
  <2>1. PICK pd, pf : /\ deposits' = Marked(deposits, pd, "fallback")
                      /\ flows' = Marked(flows, pf, "fallback")
    BY <1>3, FallBackMarksRows DEF PersistFallback, FallBackMarks
  <2>2. "fallback" \in Status
    BY DEF Status
  <2>3. Transfers(deposits') = Transfers(deposits) /\ Transfers(flows') = Transfers(flows)
    BY <1>0, <2>1, <2>2, MarkedSame
  <2> QED BY <2>3 DEF SameTransfers
<1>4. CASE AfterNotify
  <2>1. flows' = flows /\ "notified" \in Status
    BY <1>4 DEF AfterNotify, Status
  <2>2. deposits' = deposits \/ \E places : deposits' = Marked(deposits, places, "notified")
    BY <1>4 DEF AfterNotify, NotifiedRows
  <2>3. Transfers(deposits') = Transfers(deposits)
    BY <1>0, <2>1, <2>2, MarkedSame
  <2> QED BY <2>1, <2>3 DEF SameTransfers
<1>5. CASE UNCHANGED tables
  BY <1>5 DEF SameTransfers, tables
<1>6. \/ RecordStep \/ ConfirmSave \/ PersistFallback \/ AfterNotify \/ UNCHANGED tables
  <2>1. CASE ChainStep \/ ScanStep \/ ConfirmTickFails \/ Crash
    BY <2>1 DEF ChainStep, ScanStep, ScanBlock, FlagReorg, ConfirmTickFails, Crash
  <2>2. CASE FinderStep
    BY <2>2 DEF FinderStep, FinderReceive, ConfirmStep, ConfirmTick, ConfirmRead
  <2>3. CASE FallbackStep
    BY <2>3 DEF FallbackStep, ReadFallbackRows, PersistFails
  <2>4. CASE NotifierStep
    BY <2>4 DEF NotifierStep, Post, NotifierTick
  <2>5. CASE UNCHANGED vars
    BY <2>5 DEF vars
  <2> QED BY <2>1, <2>2, <2>3, <2>4, <2>5 DEF Next
<1> QED
  BY <1>1, <1>2, <1>3, <1>4, <1>5, <1>6

\* What a recorded batch adds to the transfers of both tables.
Extends(new, old, more) == new = old \o more

LEMMA RecordedTransfers ==
    ASSUME TypeInv, NEW b \in Business, RecordsNow(b)
    PROVE  /\ Of(b, inHand) \in Seq(Minable)
           /\ Extends(Transfers(deposits'), Transfers(deposits), DepositsIn(Of(b, inHand)))
           /\ Extends(Transfers(flows'), Transfers(flows), Of(b, inHand))
<1> DEFINE m == Of(b, inHand)
           d == DepositsIn(m)
<1>1. inHand \in BatchOf /\ deposits' = deposits \o NewRows(d) /\ flows' = flows \o NewRows(m)
  BY DEF RecordsNow, Recorded
<1>2. m \in Seq(Minable)
  BY <1>1, OfTyped
<1> HIDE DEF m
<1>3. d \in Seq(Minable)
  BY <1>2, DepositsInTyped
<1> HIDE DEF d
<1>4. deposits \in Seq(Row) /\ flows \in Seq(Row)
  BY DEF TypeInv, DepositsPart, FlowsPart
<1>5. Transfers(deposits \o NewRows(d)) = Transfers(deposits) \o d
  BY <1>1, <1>3, <1>4, TransfersConcat
<1>6. Transfers(flows \o NewRows(m)) = Transfers(flows) \o m
  BY <1>1, <1>2, <1>4, TransfersConcat
<1> QED
  BY <1>1, <1>2, <1>5, <1>6 DEF Extends, m, d

LEMMA InitMatch == Init => DepositsMatchFlow
<1> SUFFICES ASSUME Init PROVE Transfers(deposits) = DepositsIn(Transfers(flows))
  BY DEF DepositsMatchFlow
<1>1. Transfers(deposits) = <<>> /\ Transfers(flows) = <<>>
  BY DEF Init, Transfers
<1>2. DepositsIn(<<>>) = <<>>
  <2>1. /\ <<>> \in Seq(Minable)
        /\ \A i \in 1..Len(<<>>) : i \notin {j \in DOMAIN <<>> : IsDeposit(<<>>[j])}
    OBVIOUS
  <2>2. Picked(<<>>, {j \in DOMAIN <<>> : IsDeposit(<<>>[j])}) = <<>>
    BY <2>1, PickedNone
  <2> QED BY <2>2 DEF DepositsIn
<1> QED
  BY <1>1, <1>2

LEMMA MatchStep == TypeInv /\ DepositsMatchFlow /\ [Next]_vars => DepositsMatchFlow'
<1> SUFFICES ASSUME TypeInv, DepositsMatchFlow, [Next]_vars
             PROVE  Transfers(deposits') = DepositsIn(Transfers(flows'))
  BY DEF DepositsMatchFlow
<1>0. Transfers(deposits) = DepositsIn(Transfers(flows))
  BY DEF DepositsMatchFlow
<1>1. CASE SameTransfers
  BY <1>0, <1>1 DEF SameTransfers
<1>2. CASE \E b \in Business : RecordsNow(b)
  <2>1. PICK b \in Business : RecordsNow(b)
    BY <1>2
  <2> DEFINE m == Of(b, inHand)
             s == Transfers(flows)
  <2>2. /\ m \in Seq(Minable)
        /\ Extends(Transfers(deposits'), Transfers(deposits), DepositsIn(m))
        /\ Extends(Transfers(flows'), s, m)
    BY <2>1, RecordedTransfers
  <2>3. s \in Seq(Minable)
    BY TransfersOfRows DEF TypeInv, FlowsPart
  <2> HIDE DEF m, s
  <2>4. DepositsSplit(s, m)
    BY <2>2, <2>3, DepositsInConcat
  <2> QED BY <1>0, <2>2, <2>4 DEF Extends, DepositsSplit, s
<1> QED
  BY <1>1, <1>2, TablesStep

\* deposits_<business> holds the deposits of transactions_<business>, in their
\* order: the transaction of a batch writes both, and neither a failure, a restart
\* nor a rollback separates them.
THEOREM DepositsFollowFlow == Spec => []DepositsMatchFlow
<1>1. Init => TypeInv /\ DepositsMatchFlow
  BY InitTypeInv, InitMatch
<1>2. TypeInv /\ DepositsMatchFlow /\ [Next]_vars => TypeInv' /\ DepositsMatchFlow'
  BY TypeStep, MatchStep
<1> QED
  BY <1>1, <1>2, PTL DEF Spec

-----------------------------------------------------------------------------
(***************************************************************************)
(* The books while reorganisations stay within the confirmations.          *)
(***************************************************************************)

\* No reorganisation reaches a block the scan may store, nor the first one.
ShortReorgs == MaxDepth <= Confirmations /\ MaxDepth < InitHeight

\* The blocks below n are of no concern to a reorganisation.
IsStable(n) == n \in 0..Height /\ n + MaxDepth <= Height

Mined(t, n) == \E j \in DOMAIN TransfersAt(n) : TransfersAt(n)[j] = t

\* Stored blocks are stable and canonical, and no fallback is ever flagged.
SettledScan ==
    /\ blocks # <<>> /\ flag = None /\ fpc = "wait"
    /\ \A n \in 1..Len(blocks) : n + MaxDepth <= Height /\ blocks[n] = HashAt(n)

\* Rows are of transfers their blocks hold.
IsSettledRow(row) == \E n \in 1..Len(blocks) : row.number = n /\ Mined(row.transfer, n)

SettledRows ==
    /\ \A i \in DOMAIN flows : flows[i].status = "success" /\ IsSettledRow(flows[i])
    /\ \A i \in DOMAIN deposits : IsSettledRow(deposits[i])

\* A batch is that of a stored block above all that is recorded; of the batch in
\* hand, what is recorded is of businesses that are done.
IsSettledBatch(batch) == \E n \in 1..Len(blocks) : batch = Batch(n)

SettledReady ==
    ready # None =>
        /\ IsSettledBatch(ready)
        /\ \A i \in DOMAIN flows : flows[i].number < ready.number
        /\ inHand # None => inHand.number < ready.number

SettledInHand ==
    inHand # None =>
        /\ IsSettledBatch(inHand) /\ todo \subseteq Involved(inHand)
        /\ \A i \in DOMAIN flows :
               /\ flows[i].number <= inHand.number
               /\ flows[i].number = inHand.number => flows[i].transfer.business \notin todo

\* A deposit that is confirmed, about to be, or reported has its confirmations.
HasConfirmations(row) == row.number + Confirmations <= Height

IsTold(tx) ==
    \E i \in DOMAIN deposits : deposits[i].transfer.tx = tx /\ HasConfirmations(deposits[i])

SettledReports ==
    /\ \A i \in pending : HasConfirmations(deposits[i])
    /\ \A i \in DOMAIN deposits : deposits[i].status # "success" => HasConfirmations(deposits[i])
    /\ \A i \in DOMAIN deposits : deposits[i].status # "fallback"
    /\ \A tx \in letter \union posted : IsTold(tx)

\* The balances are what the statements add up to.
SettledSums ==
    \A b \in Business, a \in Account :
        BalanceOf(balances[b], a) = Promise!EffectOfAll(Statement(b), a)

SettledInv ==
    /\ TypeInv /\ DepositsMatchFlow
    /\ SettledScan /\ SettledRows /\ SettledReady /\ SettledInHand /\ SettledReports
    /\ SettledSums

\* A transfer of a block is of its content, and none of an ancestor's.
LEMMA TransfersAtMeaning ==
    ASSUME ChainPart, NEW n \in 0..Height, NEW t, Mined(t, n)
    PROVE  /\ \E k \in DOMAIN Content[HashAt(n)] : Content[HashAt(n)][k] = t
           /\ ~IsMinedBelow(t.tx, n) /\ t \in Minable
<1> DEFINE mined == Content[HashAt(n)]
           places == {i \in DOMAIN mined : ~IsMinedBelow(mined[i].tx, n)}
           p == Picked(mined, places)
<1>1. mined \in Seq(Minable) /\ DOMAIN mined = 1..Len(mined)
  BY HashKnown, LedgerAssumption
<1>2. TransfersAt(n) = p
  BY DEF TransfersAt
<1>3. \A i \in places : ~IsMinedBelow(mined[i].tx, n)
  OBVIOUS
<1> HIDE DEF mined, places
<1>4. PICK h : Places(h, p, mined, places, Len(mined))
  BY <1>1, PickedPlaces
<1>5. p \in Seq(Minable)
  BY <1>1, PickedIsSeq
<1> HIDE DEF p
<1>6. PICK j \in DOMAIN p : p[j] = t
  BY <1>2 DEF Mined
<1>7. j \in 1..Len(p)
  BY <1>5, <1>6
<1>8. h[j] \in 1..Len(mined) /\ h[j] \in places /\ p[j] = mined[h[j]]
  BY <1>4, <1>7 DEF Places
<1>9. ~IsMinedBelow(t.tx, n) /\ mined[h[j]] = t /\ h[j] \in DOMAIN mined
  BY <1>1, <1>3, <1>6, <1>8
<1>10. t \in Minable
  BY <1>1, <1>8, <1>9
<1> QED
  BY <1>9, <1>10 DEF mined

\* A transaction is mined at one height only.
LEMMA MinedOnce ==
    ASSUME ChainPart, NEW n \in 1..Height, NEW m \in 1..Height, NEW t, NEW u,
           Mined(t, m), Mined(u, n), t.tx = u.tx
    PROVE  m = n
<1>0. Height \in Nat /\ m \in 0..Height /\ n \in 0..Height
  BY DEF ChainPart, Height
<1>1. \A k \in 1..Height, l \in 1..Height : k < l => k \in 1..(l - 1)
  BY <1>0
<1>2. ASSUME NEW k \in 1..Height, NEW l \in 1..Height, k < l, NEW x, NEW y,
             Mined(x, k), Mined(y, l), x.tx = y.tx
      PROVE  FALSE
  <2>0. k \in 0..Height /\ l \in 0..Height
    BY <1>0
  <2>1. PICK i \in DOMAIN Content[HashAt(k)] : Content[HashAt(k)][i] = x
    BY <1>2, <2>0, TransfersAtMeaning
  <2>2. IsMinedBelow(x.tx, l)
    BY <1>1, <1>2, <2>1 DEF IsMinedBelow
  <2>3. ~IsMinedBelow(y.tx, l)
    BY <1>2, <2>0, TransfersAtMeaning
  <2> QED BY <1>2, <2>2, <2>3
<1>3. m = n \/ m < n \/ n < m
  BY <1>0
<1> QED
  BY <1>2, <1>3

LEMMA ChainOrSame == [Next]_vars => ChainStep \/ UNCHANGED chainVars
<1> SUFFICES ASSUME [Next]_vars PROVE ChainStep \/ UNCHANGED chainVars
  OBVIOUS
<1>1. CASE ScanStep \/ ConfirmTickFails \/ Crash
  BY <1>1 DEF ScanStep, ScanBlock, FlagReorg, ConfirmTickFails, Crash
<1>2. CASE FinderStep
  BY <1>2 DEF FinderStep, FinderReceive, RecordStep, HandleBatch, HandleBatchFails,
     ConfirmStep, ConfirmTick, ConfirmRead, ConfirmSave
<1>3. CASE FallbackStep
  BY <1>3 DEF FallbackStep, ReadFallbackRows, PersistFallback, PersistFails
<1>4. CASE NotifierStep
  BY <1>4 DEF NotifierStep, Post, NotifierTick, AfterNotify
<1>5. CASE UNCHANGED vars
  BY <1>5 DEF vars
<1> QED
  BY <1>1, <1>2, <1>3, <1>4, <1>5 DEF Next

\* What is stable stays as it is.
LEMMA StableStays ==
    ASSUME TypeInv, [Next]_vars, NEW n, IsStable(n)
    PROVE  /\ IsStable(n)' /\ HashAt(n)' = HashAt(n)
           /\ TransfersAt(n)' = TransfersAt(n)
<1>0. Height \in Nat /\ n \in 0..Height /\ n + MaxDepth <= Height /\ MaxDepth \in Nat
  BY Bounds DEF TypeInv, ChainPart, Height, IsStable
<1>1. /\ Height <= Height' /\ Height' \in Nat
      /\ \A m \in 1..Height : m + MaxDepth <= Height => chain'[m] = chain[m]
  <2>1. CASE ChainStep
    <3>1. /\ ChainPart' /\ Height <= Height'
          /\ \A m \in 1..Height : m + MaxDepth <= Height => chain'[m] = chain[m]
      BY <2>1, ChainSteps DEF TypeInv, ChainStep
    <3> QED BY <3>1 DEF ChainPart, Height
  <2>2. CASE UNCHANGED chainVars
    BY <1>0, <2>2 DEF chainVars, Height
  <2> QED BY <2>1, <2>2, ChainOrSame
<1>2. \A m \in 0..n : HashAt(m)' = HashAt(m)
  <2> TAKE m \in 0..n
  <2>1. m = 0 \/ (m \in 1..Height /\ m + MaxDepth <= Height)
    BY <1>0
  <2> QED BY <1>1, <2>1 DEF HashAt
<1>3. HashAt(n)' = HashAt(n)
  BY <1>0, <1>2
<1>4. \A tx : IsMinedBelow(tx, n)' = IsMinedBelow(tx, n)
  <2>1. \A m \in 1..(n - 1) : m \in 0..n
    BY <1>0
  <2> QED BY <1>2, <2>1 DEF IsMinedBelow
<1>5. TransfersAt(n)' = TransfersAt(n)
  BY <1>3, <1>4 DEF TransfersAt
<1>6. IsStable(n)'
  <2>1. n \in 0..Height' /\ n + MaxDepth <= Height'
    BY <1>0, <1>1
  <2> QED BY <2>1 DEF IsStable
<1> QED
  BY <1>3, <1>5, <1>6

LEMMA SettledInit == ShortReorgs /\ Init => SettledInv
<1> SUFFICES ASSUME ShortReorgs, Init PROVE SettledInv
  OBVIOUS
<1>1. TypeInv /\ DepositsMatchFlow
  BY InitTypeInv, InitMatch
<1>2. SettledScan
  <2>1. Height = InitHeight
    <3>1. chain = [n \in 1..InitHeight |-> 0]
      BY DEF Init, ChainInit
    <3> QED BY <3>1, Bounds DEF Height
  <2>2. blocks = <<HashAt(1)>> /\ Len(blocks) = 1 /\ blocks[1] = HashAt(1)
    BY DEF Init
  <2>3. \A n \in 1..1 : n + MaxDepth <= Height /\ blocks[n] = HashAt(n)
    BY <2>1, <2>2, Bounds DEF ShortReorgs
  <2> QED BY <2>2, <2>3 DEF SettledScan, Init
<1>3. SettledRows /\ SettledReady /\ SettledInHand /\ SettledReports
  BY DEF Init, SettledRows, SettledReady, SettledInHand, SettledReports
<1>4. SettledSums
  <2> SUFFICES ASSUME NEW b \in Business, NEW a \in Account
               PROVE  BalanceOf(balances[b], a) = Promise!EffectOfAll(Statement(b), a)
    BY DEF SettledSums
  <2>1. BalanceOf(balances[b], a) = 0
    BY DEF Init, BalanceOf
  <2>2. Transfers(flows) = <<>>
    BY DEF Init, Transfers
  <2>3. Statement(b) = <<>>
    <3>1. <<>> \in Seq(Minable) /\ \A i \in 1..Len(<<>>) : <<>>[i].business # b
      OBVIOUS
    <3>2. OfBusiness(<<>>, b) = <<>>
      BY <3>1, OfBusinessNone
    <3> QED BY <2>2, <3>2 DEF Statement
  <2>4. Promise!EffectOfAll(<<>>, a) = 0
    <3> DEFINE none == <<>>
    <3>1. none \in Seq(Minable) /\ Len(none) = 0
      OBVIOUS
    <3> HIDE DEF none
    <3>2. PICK f \in [0..Len(none) -> Int] :
              IsTally(f, none, a) /\ Promise!EffectOfAll(none, a) = f[Len(none)]
      BY <3>1, EffectSteps
    <3>3. Promise!EffectOfAll(none, a) = 0
      BY <3>1, <3>2 DEF IsTally
    <3> QED BY <3>3 DEF none
  <2> QED BY <2>1, <2>3, <2>4
<1> QED
  BY <1>1, <1>2, <1>3, <1>4 DEF SettledInv

\* Every stored block is stable.
LEMMA StoredIsStable ==
    ASSUME SettledInv
    PROVE  /\ Len(blocks) \in Nat /\ blocks \in Seq(DOMAIN Content) /\ Height \in Nat
           /\ Len(blocks) <= Height
           /\ \A n \in 1..Len(blocks) :
                  IsStable(n) /\ n \in 1..Height /\ n \in 0..Height /\ blocks[n] = HashAt(n)
<1>1. /\ blocks \in Seq(DOMAIN Content) /\ Len(blocks) <= Height
      /\ Height \in Nat /\ Len(blocks) \in Nat
  BY DEF SettledInv, TypeInv, ScanPart, ChainPart, Height
<1>2. \A n \in 1..Len(blocks) : n \in 1..Height /\ n \in 0..Height
  BY <1>1
<1> QED
  BY <1>1, <1>2 DEF IsStable, SettledInv, SettledScan

\* The scan only stores blocks that stay, and there is nothing to roll back.
LEMMA SettledScanStep ==
    ASSUME ShortReorgs, SettledInv, [Next]_vars
    PROVE  /\ SettledScan' /\ ~FlagReorg /\ ~FallbackStep
           /\ Len(blocks) <= Len(blocks') /\ Len(blocks') \in Nat
           /\ \A n \in 1..Len(blocks) : n \in 1..Len(blocks')
<1>1. Len(blocks) \in Nat /\ Height \in Nat
      /\ \A n \in 1..Len(blocks) : IsStable(n) /\ blocks[n] = HashAt(n)
  BY StoredIsStable
<1>2. ~FallbackStep
  BY DEF SettledInv, SettledScan, FallbackStep, ReadFallbackRows, PersistFallback, PersistFails
<1>3. ~FlagReorg
  <2> SUFFICES ASSUME FlagReorg PROVE FALSE
    OBVIOUS
  <2>1. blocks # <<>> /\ NextHeader.parent = HashAt(Len(blocks)) /\ blocks \in Seq(DOMAIN Content)
    BY NextHeaderKnown DEF SettledInv, FlagReorg
  <2>2. Len(blocks) \in 1..Len(blocks)
    BY <1>1, <2>1
  <2>3. NextHeader.parent = blocks[Len(blocks)]
    BY <1>1, <2>1, <2>2
  <2> QED BY <2>3 DEF FlagReorg, IsLinked
<1>4. \A n \in 1..Len(blocks) : IsStable(n)' /\ HashAt(n)' = HashAt(n)
  BY <1>1, StableStays DEF SettledInv
<1>5. CASE ScanBlock
  <2>0. PICK n : n = Len(blocks) + 1
    OBVIOUS
  <2>1. /\ n \in 0..Height /\ n + Confirmations <= Height /\ blocks \in Seq(DOMAIN Content)
        /\ NextHeader.hash = HashAt(n) /\ NextHeader.hash \in DOMAIN Content
    BY <1>5, <2>0, NextHeaderKnown DEF SettledInv, ScanBlock
  <2>2. /\ blocks' = Append(blocks, HashAt(n)) /\ UNCHANGED <<chainVars, flag, fpc>>
    BY <1>5, <2>1 DEF ScanBlock, fallbackVars
  <2>3. /\ Len(blocks') = n /\ blocks'[n] = HashAt(n) /\ blocks' # <<>>
        /\ \A m \in 1..Len(blocks) : blocks'[m] = blocks[m]
    BY <2>0, <2>1, <2>2, AppendProperties
  <2>4. IsStable(n)
    BY <1>1, <2>1, Bounds DEF ShortReorgs, IsStable
  <2>5. IsStable(n)' /\ HashAt(n)' = HashAt(n)
    BY <2>4, StableStays DEF SettledInv
  <2>6. \A m \in 1..n : m = n \/ m \in 1..Len(blocks)
    BY <1>1, <2>0
  <2>7. \A m \in 1..Len(blocks') : (m + MaxDepth <= Height)' /\ blocks'[m] = HashAt(m)'
    BY <1>1, <1>4, <2>3, <2>5, <2>6 DEF IsStable
  <2>8. SettledScan'
    BY <2>2, <2>3, <2>7 DEF SettledScan, SettledInv
  <2>9. n \in Nat /\ Len(blocks) <= n /\ \A m \in 1..Len(blocks) : m \in 1..n
    BY <1>1, <2>0
  <2> QED BY <1>2, <1>3, <2>3, <2>8, <2>9
<1>6. CASE UNCHANGED blocks /\ flag' \in {flag, None} /\ fpc' \in {fpc, "wait"}
  <2>1. SettledScan'
    BY <1>1, <1>4, <1>6 DEF SettledScan, SettledInv, IsStable
  <2> QED BY <1>1, <1>2, <1>3, <1>6, <2>1
<1>7. ScanBlock \/ (UNCHANGED blocks /\ flag' \in {flag, None} /\ fpc' \in {fpc, "wait"})
  <2>1. CASE ChainStep
    BY <2>1 DEF ChainStep, scanVars, fallbackVars
  <2>2. CASE ScanStep
    BY <1>3, <2>2 DEF ScanStep
  <2>3. CASE FinderStep
    BY <2>3 DEF FinderStep, FinderReceive, RecordStep, HandleBatch, HandleBatchFails,
       ConfirmStep, ConfirmTick, ConfirmRead, ConfirmSave, scanVars, fallbackVars
  <2>4. CASE NotifierStep
    BY <2>4 DEF NotifierStep, Post, NotifierTick, AfterNotify, scanVars, fallbackVars
  <2>5. CASE Crash
    BY <2>5 DEF Crash
  <2>6. CASE ConfirmTickFails \/ UNCHANGED vars
    BY <2>6 DEF ConfirmTickFails, vars, scanVars, fallbackVars
  <2> QED BY <1>2, <2>1, <2>2, <2>3, <2>4, <2>5, <2>6 DEF Next
<1> QED
  BY <1>5, <1>6, <1>7

LEMMA StoredStays ==
    ASSUME ShortReorgs, SettledInv, [Next]_vars
    PROVE  \A n \in 1..Len(blocks) :
               /\ n \in 1..Len(blocks') /\ HashAt(n)' = HashAt(n)
               /\ TransfersAt(n)' = TransfersAt(n)
BY StoredIsStable, SettledScanStep, StableStays DEF SettledInv

\* What is picked of a list is on the list.
LEMMA OfBusinessMembers ==
    ASSUME NEW s \in Seq(Minable), NEW b
    PROVE  \A i \in 1..Len(OfBusiness(s, b)) : \E k \in DOMAIN s : OfBusiness(s, b)[i] = s[k]
<1> DEFINE places == {i \in DOMAIN s : s[i].business = b}
           p == Picked(s, places)
<1>1. OfBusiness(s, b) = p
  BY DEF OfBusiness
<1>2. PICK h : Places(h, p, s, places, Len(s))
  BY PickedPlaces
<1>3. DOMAIN s = 1..Len(s)
  OBVIOUS
<1> HIDE DEF p, places
<1> QED
  BY <1>1, <1>2, <1>3 DEF Places

LEMMA DepositsInMembers ==
    ASSUME NEW s \in Seq(Minable)
    PROVE  \A i \in 1..Len(DepositsIn(s)) : \E k \in DOMAIN s : DepositsIn(s)[i] = s[k]
<1> DEFINE places == {i \in DOMAIN s : IsDeposit(s[i])}
           p == Picked(s, places)
<1>1. DepositsIn(s) = p
  BY DEF DepositsIn
<1>2. PICK h : Places(h, p, s, places, Len(s))
  BY PickedPlaces
<1>3. DOMAIN s = 1..Len(s)
  OBVIOUS
<1> HIDE DEF p, places
<1> QED
  BY <1>1, <1>2, <1>3 DEF Places

\* What a step does to the tables: it records a batch, or it marks deposits.
MarksDeposits ==
    /\ flows' = flows /\ balances' = balances
    /\ \/ deposits' = deposits
       \/ finder = "save" /\ deposits' = Marked(deposits, pending, "wallet_done")
       \/ deposits' = NotifiedRows

LEMMA SettledTables ==
    ASSUME ShortReorgs, SettledInv, [Next]_vars
    PROVE  (\E b \in Business : RecordsNow(b)) \/ MarksDeposits
<1>1. CASE ChainStep \/ ScanStep \/ ConfirmTickFails \/ Crash \/ UNCHANGED vars
  BY <1>1 DEF ChainStep, ScanStep, ScanBlock, FlagReorg, ConfirmTickFails, Crash, tables, vars,
     MarksDeposits
<1>2. CASE RecordStep
  <2>1. PICK b \in Business : HandleBatch(b) \/ HandleBatchFails(b)
    BY <1>2 DEF RecordStep
  <2>2. finder = "record" /\ b \in todo /\ inHand \in BatchOf
    BY <2>1 DEF HandleBatch, HandleBatchFails, SettledInv, TypeInv, FinderPart
  <2>3. CASE Recorded(b)
    BY <2>1, <2>2, <2>3 DEF RecordsNow, HandleBatch, HandleBatchFails, notifyVars
  <2>4. CASE UNCHANGED tables
    BY <2>4 DEF MarksDeposits, tables
  <2> QED BY <2>1, <2>3, <2>4 DEF HandleBatch, HandleBatchFails
<1>3. CASE FinderReceive \/ ConfirmStep
  BY <1>3 DEF FinderReceive, ConfirmStep, ConfirmTick, ConfirmRead, ConfirmSave, tables,
     MarksDeposits
<1>4. CASE NotifierStep
  BY <1>4 DEF NotifierStep, Post, NotifierTick, AfterNotify, tables, MarksDeposits
<1>5. ~FallbackStep
  BY SettledScanStep
<1> QED
  BY <1>1, <1>2, <1>3, <1>4, <1>5 DEF Next, FinderStep

\* What a recorded batch adds is of its block.
LEMMA RecordedRows ==
    ASSUME SettledInv, NEW b \in Business, RecordsNow(b)
    PROVE  \E n \in 1..Len(blocks) :
               /\ inHand = Batch(n) /\ inHand.number = n
               /\ \A i \in DOMAIN flows : i \in DOMAIN flows' /\ flows'[i] = flows[i]
               /\ \A i \in DOMAIN flows' : i \notin DOMAIN flows =>
                      /\ flows'[i].number = n /\ flows'[i].status = "success"
                      /\ Mined(flows'[i].transfer, n) /\ flows'[i].transfer.business = b
               /\ \A i \in DOMAIN deposits : i \in DOMAIN deposits' /\ deposits'[i] = deposits[i]
               /\ \A i \in DOMAIN deposits' : i \notin DOMAIN deposits =>
                      /\ deposits'[i].number = n /\ deposits'[i].status = "success"
                      /\ Mined(deposits'[i].transfer, n)
<1> DEFINE m == Of(b, inHand)
           d == DepositsIn(m)
<1>1. inHand \in BatchOf /\ deposits' = deposits \o NewRows(d) /\ flows' = flows \o NewRows(m)
  BY DEF RecordsNow, Recorded
<1>2. inHand # None
  BY <1>1, LedgerAssumption
<1>3. PICK n \in 1..Len(blocks) : inHand = Batch(n)
  BY <1>2 DEF SettledInv, SettledInHand, IsSettledBatch
<1>4. inHand.number = n /\ inHand.transfers = TransfersAt(n)
  BY <1>3 DEF Batch
<1>5. m \in Seq(Minable) /\ \A j \in 1..Len(m) : m[j].business = b
  BY <1>1, OfTyped
<1>6. inHand.transfers \in Seq(Minable)
  BY <1>1 DEF BatchOf
<1>7. \A j \in 1..Len(m) : Mined(m[j], n)
  <2>1. \A j \in 1..Len(m) : \E k \in DOMAIN inHand.transfers : m[j] = inHand.transfers[k]
    BY <1>6, OfBusinessMembers DEF Of
  <2> QED BY <1>4, <2>1 DEF Mined
<1> HIDE DEF m
<1>8. d \in Seq(Minable) /\ \A j \in 1..Len(d) : \E k \in DOMAIN m : d[j] = m[k]
  BY <1>5, DepositsInTyped, DepositsInMembers
<1>9. \A j \in 1..Len(d) : Mined(d[j], n)
  <2>1. DOMAIN m = 1..Len(m)
    BY <1>5
  <2> QED BY <1>7, <1>8, <2>1
<1> HIDE DEF d
<1>10. deposits \in Seq(Row) /\ flows \in Seq(Row)
  BY DEF SettledInv, TypeInv, DepositsPart, FlowsPart
<1>11. /\ DOMAIN flows \subseteq DOMAIN flows'
       /\ \A i \in DOMAIN flows : flows'[i] = flows[i]
       /\ \A i \in DOMAIN flows' : i \notin DOMAIN flows =>
              /\ \E j \in 1..Len(m) : flows'[i].transfer = m[j]
              /\ flows'[i].number = n /\ flows'[i].status = "success"
  BY <1>1, <1>4, <1>5, <1>10, AddedRows
<1>12. /\ DOMAIN deposits \subseteq DOMAIN deposits'
       /\ \A i \in DOMAIN deposits : deposits'[i] = deposits[i]
       /\ \A i \in DOMAIN deposits' : i \notin DOMAIN deposits =>
              /\ \E j \in 1..Len(d) : deposits'[i].transfer = d[j]
              /\ deposits'[i].number = n /\ deposits'[i].status = "success"
  BY <1>1, <1>4, <1>8, <1>10, AddedRows
<1>13. \A i \in DOMAIN flows' : i \notin DOMAIN flows =>
           Mined(flows'[i].transfer, n) /\ flows'[i].transfer.business = b
  BY <1>5, <1>7, <1>11
<1>14. \A i \in DOMAIN deposits' : i \notin DOMAIN deposits => Mined(deposits'[i].transfer, n)
  BY <1>9, <1>12
<1> QED
  BY <1>3, <1>4, <1>11, <1>12, <1>13, <1>14

\* What marking does to the deposits.
LEMMA SettledMarks ==
    ASSUME SettledInv, MarksDeposits
    PROVE  /\ DOMAIN deposits' = DOMAIN deposits
           /\ \A i \in DOMAIN deposits :
                  /\ deposits'[i].transfer = deposits[i].transfer
                  /\ deposits'[i].number = deposits[i].number
                  /\ \/ deposits'[i].status = deposits[i].status
                     \/ deposits'[i].status = "wallet_done" /\ i \in pending
                     \/ deposits'[i].status = "notified" /\ deposits[i].transfer.tx \in letter
<1>1. deposits \in Seq(Row) /\ "wallet_done" \in Status /\ "notified" \in Status
  BY DEF SettledInv, TypeInv, DepositsPart, Status
<1>2. CASE deposits' = deposits
  BY <1>2
<1>3. CASE deposits' = Marked(deposits, pending, "wallet_done")
  BY <1>1, <1>3, MarkedRows
<1>4. CASE deposits' = NotifiedRows
  <2> DEFINE places == {i \in DOMAIN deposits : /\ deposits[i].transfer.business = addressee
                                                /\ deposits[i].transfer.tx \in letter}
  <2>1. deposits' = Marked(deposits, places, "notified")
    BY <1>4 DEF NotifiedRows
  <2>2. \A i \in places : deposits[i].transfer.tx \in letter
    OBVIOUS
  <2> HIDE DEF places
  <2> QED BY <1>1, <2>1, <2>2, MarkedRows
<1> QED
  BY <1>2, <1>3, <1>4 DEF MarksDeposits

LEMMA SettledRowsStep ==
    ASSUME ShortReorgs, SettledInv, [Next]_vars
    PROVE  SettledRows'
<1>0. \A n \in 1..Len(blocks) : n \in 1..Len(blocks') /\ TransfersAt(n)' = TransfersAt(n)
  BY StoredStays
<1>1. \A i \in DOMAIN flows :
          /\ flows[i].status = "success"
          /\ \E n \in 1..Len(blocks) : flows[i].number = n /\ Mined(flows[i].transfer, n)
  BY DEF SettledInv, SettledRows, IsSettledRow
<1>2. \A i \in DOMAIN deposits :
          \E n \in 1..Len(blocks) : deposits[i].number = n /\ Mined(deposits[i].transfer, n)
  BY DEF SettledInv, SettledRows, IsSettledRow
<1>3. /\ \A i \in DOMAIN flows' :
             /\ flows'[i].status = "success"
             /\ \E n \in 1..Len(blocks) : flows'[i].number = n /\ Mined(flows'[i].transfer, n)
      /\ \A i \in DOMAIN deposits' :
             \E n \in 1..Len(blocks) : deposits'[i].number = n /\ Mined(deposits'[i].transfer, n)
  <2>1. CASE MarksDeposits
    <3>1. flows' = flows /\ DOMAIN deposits' = DOMAIN deposits
      BY <2>1, SettledMarks DEF MarksDeposits
    <3>2. \A i \in DOMAIN deposits : /\ deposits'[i].transfer = deposits[i].transfer
                                     /\ deposits'[i].number = deposits[i].number
      BY <2>1, SettledMarks
    <3> QED BY <1>1, <1>2, <3>1, <3>2
  <2>2. CASE \E b \in Business : RecordsNow(b)
    <3>1. PICK b \in Business : RecordsNow(b)
      BY <2>2
    <3>2. PICK n \in 1..Len(blocks) :
              /\ \A i \in DOMAIN flows : i \in DOMAIN flows' /\ flows'[i] = flows[i]
              /\ \A i \in DOMAIN flows' : i \notin DOMAIN flows =>
                     /\ flows'[i].number = n /\ flows'[i].status = "success"
                     /\ Mined(flows'[i].transfer, n)
              /\ \A i \in DOMAIN deposits : i \in DOMAIN deposits' /\ deposits'[i] = deposits[i]
              /\ \A i \in DOMAIN deposits' : i \notin DOMAIN deposits =>
                     deposits'[i].number = n /\ Mined(deposits'[i].transfer, n)
      BY <3>1, RecordedRows
    <3>3. ASSUME NEW i \in DOMAIN flows'
          PROVE  /\ flows'[i].status = "success"
                 /\ \E k \in 1..Len(blocks) : flows'[i].number = k /\ Mined(flows'[i].transfer, k)
      <4>1. CASE i \in DOMAIN flows
        BY <1>1, <3>2, <4>1
      <4>2. CASE i \notin DOMAIN flows
        BY <3>2, <4>2
      <4> QED BY <4>1, <4>2
    <3>4. ASSUME NEW i \in DOMAIN deposits'
          PROVE  \E k \in 1..Len(blocks) :
                     deposits'[i].number = k /\ Mined(deposits'[i].transfer, k)
      <4>1. CASE i \in DOMAIN deposits
        BY <1>2, <3>2, <4>1
      <4>2. CASE i \notin DOMAIN deposits
        BY <3>2, <4>2
      <4> QED BY <4>1, <4>2
    <3> QED BY <3>3, <3>4
  <2> QED BY <2>1, <2>2, SettledTables
<1>4. ASSUME NEW row, \E n \in 1..Len(blocks) : row.number = n /\ Mined(row.transfer, n)
      PROVE  \E n \in 1..Len(blocks') :
                 /\ row.number = n
                 /\ \E j \in DOMAIN TransfersAt(n)' : TransfersAt(n)'[j] = row.transfer
  BY <1>0, <1>4 DEF Mined
<1>5. ASSUME NEW i \in DOMAIN flows'
      PROVE  flows'[i].status = "success" /\ IsSettledRow(flows[i])'
  BY <1>3, <1>4 DEF IsSettledRow, Mined
<1>6. ASSUME NEW i \in DOMAIN deposits' PROVE IsSettledRow(deposits[i])'
  BY <1>3, <1>4 DEF IsSettledRow, Mined
<1> QED
  BY <1>5, <1>6 DEF SettledRows

\* A batch of a stored block stays that of its block.
LEMMA BatchStays ==
    ASSUME ShortReorgs, SettledInv, [Next]_vars, NEW batch, IsSettledBatch(batch)
    PROVE  \E n \in 1..Len(blocks') : batch = [number |-> n, transfers |-> TransfersAt(n)']
<1>1. PICK n \in 1..Len(blocks) : batch = Batch(n)
  BY DEF IsSettledBatch
<1>2. n \in 1..Len(blocks') /\ TransfersAt(n)' = TransfersAt(n)
  BY StoredStays
<1> QED
  BY <1>1, <1>2 DEF Batch

LEMMA SettledReadyStep ==
    ASSUME ShortReorgs, SettledInv, [Next]_vars
    PROVE  SettledReady'
<1> SUFFICES ASSUME ready' # None
             PROVE  /\ IsSettledBatch(ready)'
                    /\ \A i \in DOMAIN flows' : flows'[i].number < ready'.number
                    /\ inHand' # None => inHand'.number < ready'.number
  BY DEF SettledReady
<1>0. Len(blocks) \in Nat /\ Height \in Nat
  BY StoredIsStable
<1>r. flows \in Seq(Row)
  BY DEF SettledInv, TypeInv, FlowsPart
<1>1. CASE ScanBlock
  <2>1. PICK n : n = Len(blocks) + 1
    OBVIOUS
  <2>2. Scannable /\ NextHeader.number = n /\ n \in 0..Height /\ n + Confirmations <= Height
    BY <1>1, <2>1, NextHeaderKnown DEF SettledInv, ScanBlock
  <2>3. ready' = Batch(n) /\ flows' = flows /\ inHand' = inHand /\ Len(blocks') = n
    <3>1. blocks' = Append(blocks, NextHeader.hash) /\ NextHeader.hash \in DOMAIN Content
          /\ blocks \in Seq(DOMAIN Content)
      BY <1>1, NextHeaderKnown DEF SettledInv, ScanBlock
    <3>2. Len(blocks') = n
      BY <2>1, <3>1, AppendProperties
    <3> QED BY <1>1, <2>2, <3>2 DEF ScanBlock, tables, finderVars
  <2>4. IsStable(n)
    BY <1>0, <2>1, <2>2, Bounds DEF ShortReorgs, IsStable
  <2>5. TransfersAt(n)' = TransfersAt(n)
    BY <2>4, StableStays DEF SettledInv
  <2>6. n \in 1..Len(blocks')
    BY <1>0, <2>1, <2>3
  <2>7. IsSettledBatch(ready)'
    <3>1. ready' = [number |-> n, transfers |-> TransfersAt(n)']
      BY <2>3, <2>5 DEF Batch
    <3> QED BY <2>6, <3>1 DEF IsSettledBatch, Batch
  <2>8. ready'.number = n
    BY <2>3 DEF Batch
  <2>9. \A k \in 1..Len(blocks) : k < n
    BY <1>0, <2>1
  <2>10. \A i \in DOMAIN flows : flows[i].number < n
    <3>1. \A i \in DOMAIN flows : \E k \in 1..Len(blocks) : flows[i].number = k
      BY DEF SettledInv, SettledRows, IsSettledRow
    <3> QED BY <2>9, <3>1
  <2>11. inHand # None => inHand.number < n
    <3>1. inHand # None => \E k \in 1..Len(blocks) : inHand.number = k
      BY DEF SettledInv, SettledInHand, IsSettledBatch, Batch
    <3> QED BY <2>9, <3>1
  <2> QED BY <2>3, <2>7, <2>8, <2>10, <2>11
<1>2. CASE ready' = ready
  <2>1. /\ IsSettledBatch(ready) /\ \A i \in DOMAIN flows : flows[i].number < ready.number
        /\ inHand # None => inHand.number < ready.number
    BY <1>2 DEF SettledInv, SettledReady
  <2>2. IsSettledBatch(ready)'
    <3>1. \E n \in 1..Len(blocks') : ready = [number |-> n, transfers |-> TransfersAt(n)']
      BY <2>1, BatchStays
    <3> QED BY <1>2, <3>1 DEF IsSettledBatch, Batch
  <2>3. inHand' # None => inHand' = inHand
    <3>1. CASE ChainStep \/ ScanStep \/ NotifierStep \/ UNCHANGED vars
      BY <3>1 DEF ChainStep, ScanStep, ScanBlock, FlagReorg, NotifierStep, Post, NotifierTick,
         AfterNotify, vars, finderVars
    <3>2. CASE FinderStep
      BY <1>2, <3>2 DEF FinderStep, FinderReceive, RecordStep, HandleBatch, HandleBatchFails,
         ConfirmStep, ConfirmTick, ConfirmRead, ConfirmSave, BusinessDone, FinderDies
    <3>3. CASE ConfirmTickFails \/ Crash
      BY <3>3 DEF ConfirmTickFails, FinderDies, Crash
    <3> QED BY <3>1, <3>2, <3>3, SettledScanStep DEF Next
  <2>4. \A i \in DOMAIN flows' : flows'[i].number < ready.number
    <3>1. CASE MarksDeposits
      BY <2>1, <3>1 DEF MarksDeposits
    <3>2. CASE \E b \in Business : RecordsNow(b)
      <4>1. PICK b \in Business : RecordsNow(b)
        BY <3>2
      <4>2. inHand # None
        BY <4>1, LedgerAssumption DEF RecordsNow
      <4>3. PICK n \in 1..Len(blocks) :
                /\ inHand.number = n
                /\ \A i \in DOMAIN flows : flows'[i] = flows[i]
                /\ \A i \in DOMAIN flows' : i \notin DOMAIN flows => flows'[i].number = n
        BY <4>1, RecordedRows
      <4> QED BY <2>1, <4>2, <4>3
    <3> QED BY <3>1, <3>2, SettledTables
  <2> QED BY <1>2, <2>1, <2>2, <2>3, <2>4
<1>3. ScanBlock \/ ready' = ready \/ ready' = None
  <2>1. CASE ChainStep \/ ScanStep \/ NotifierStep \/ UNCHANGED vars
    BY <2>1 DEF ChainStep, ScanStep, FlagReorg, NotifierStep, Post, NotifierTick,
       AfterNotify, vars, scanVars
  <2>2. CASE FinderStep
    BY <2>2 DEF FinderStep, FinderReceive, RecordStep, HandleBatch, HandleBatchFails,
       ConfirmStep, ConfirmTick, ConfirmRead, ConfirmSave, scanVars
  <2>3. CASE ConfirmTickFails \/ Crash
    BY <2>3 DEF ConfirmTickFails, Crash, scanVars
  <2> QED BY <2>1, <2>2, <2>3, SettledScanStep DEF Next
<1> QED
  BY <1>1, <1>2, <1>3

LEMMA SettledInHandStep ==
    ASSUME ShortReorgs, SettledInv, [Next]_vars
    PROVE  SettledInHand'
<1> SUFFICES ASSUME inHand' # None
             PROVE  /\ IsSettledBatch(inHand)' /\ (todo \subseteq Involved(inHand))'
                    /\ \A i \in DOMAIN flows' :
                           /\ flows'[i].number <= inHand'.number
                           /\ flows'[i].number = inHand'.number
                                  => flows'[i].transfer.business \notin todo'
  BY DEF SettledInHand
<1>0. \A i \in DOMAIN flows : flows[i].number \in Nat
  <2>1. \A i \in DOMAIN flows : \E k \in 1..Len(blocks) : flows[i].number = k
    BY DEF SettledInv, SettledRows, IsSettledRow
  <2> QED BY <2>1, StoredIsStable
<1>1. CASE FinderReceive
  <2>1. ready # None /\ inHand' = ready /\ todo' = Involved(ready) /\ flows' = flows
    BY <1>1 DEF FinderReceive, tables
  <2>2. IsSettledBatch(ready) /\ \A i \in DOMAIN flows : flows[i].number < ready.number
    BY <2>1 DEF SettledInv, SettledReady
  <2>3. \E n \in 1..Len(blocks') : ready = [number |-> n, transfers |-> TransfersAt(n)']
    BY <2>2, BatchStays
  <2>4. IsSettledBatch(inHand)'
    BY <2>1, <2>3 DEF IsSettledBatch, Batch
  <2>5. (todo \subseteq Involved(inHand))'
    BY <2>1 DEF Involved, Of
  <2>6. ready.number \in Nat
    BY <2>2, StoredIsStable DEF IsSettledBatch, Batch
  <2>7. \A i \in DOMAIN flows : flows[i].number <= ready.number /\ flows[i].number # ready.number
    BY <1>0, <2>2, <2>6
  <2> QED BY <2>1, <2>4, <2>5, <2>7
<1>2. CASE \E b \in Business : HandleBatch(b)
  <2>1. PICK b \in Business : HandleBatch(b)
    BY <1>2
  <2>2. inHand' = inHand /\ inHand # None /\ todo' = todo \ {b} /\ b \in todo
    BY <2>1 DEF HandleBatch, BusinessDone
  <2>3. RecordsNow(b)
    BY <2>1 DEF HandleBatch, RecordsNow, SettledInv, TypeInv, FinderPart, notifyVars
  <2>4. /\ IsSettledBatch(inHand) /\ todo \subseteq Involved(inHand)
        /\ \A i \in DOMAIN flows :
               /\ flows[i].number <= inHand.number
               /\ flows[i].number = inHand.number => flows[i].transfer.business \notin todo
    BY <2>2 DEF SettledInv, SettledInHand
  <2>5. \E n \in 1..Len(blocks') : inHand = [number |-> n, transfers |-> TransfersAt(n)']
    BY <2>4, BatchStays
  <2>6. IsSettledBatch(inHand)'
    BY <2>2, <2>5 DEF IsSettledBatch, Batch
  <2>7. (todo \subseteq Involved(inHand))'
    BY <2>2, <2>4 DEF Involved, Of
  <2>8. PICK n \in 1..Len(blocks) :
            /\ inHand.number = n
            /\ \A i \in DOMAIN flows : flows'[i] = flows[i]
            /\ \A i \in DOMAIN flows' : i \notin DOMAIN flows =>
                   flows'[i].number = n /\ flows'[i].transfer.business = b
    BY <2>3, RecordedRows
  <2>9. ASSUME NEW i \in DOMAIN flows'
        PROVE  /\ flows'[i].number <= inHand.number
               /\ flows'[i].number = inHand.number => flows'[i].transfer.business \notin todo'
    <3>1. CASE i \in DOMAIN flows
      BY <2>2, <2>4, <2>8, <3>1
    <3>2. CASE i \notin DOMAIN flows
      BY <2>2, <2>8, <3>2
    <3> QED BY <3>1, <3>2
  <2> QED BY <2>2, <2>6, <2>7, <2>9
<1>3. CASE UNCHANGED <<inHand, todo, flows>>
  <2>1. /\ IsSettledBatch(inHand) /\ todo \subseteq Involved(inHand)
        /\ \A i \in DOMAIN flows :
               /\ flows[i].number <= inHand.number
               /\ flows[i].number = inHand.number => flows[i].transfer.business \notin todo
    BY <1>3 DEF SettledInv, SettledInHand
  <2>2. \E n \in 1..Len(blocks') : inHand = [number |-> n, transfers |-> TransfersAt(n)']
    BY <2>1, BatchStays
  <2>3. IsSettledBatch(inHand)'
    BY <1>3, <2>2 DEF IsSettledBatch, Batch
  <2>4. (todo \subseteq Involved(inHand))'
    BY <1>3, <2>1 DEF Involved, Of
  <2> QED BY <1>3, <2>1, <2>3, <2>4
<1>4. FinderReceive \/ (\E b \in Business : HandleBatch(b)) \/ UNCHANGED <<inHand, todo, flows>>
  <2>1. CASE ChainStep \/ ScanStep \/ NotifierStep \/ UNCHANGED vars
    BY <2>1 DEF ChainStep, ScanStep, ScanBlock, FlagReorg, NotifierStep, Post, NotifierTick,
       AfterNotify, vars, finderVars, tables
  <2>2. CASE RecordStep
    <3>1. ASSUME NEW b \in Business, HandleBatchFails(b) PROVE FALSE
      BY <3>1 DEF HandleBatchFails, FinderDies
    <3> QED BY <2>2, <3>1 DEF RecordStep
  <2>3. CASE ConfirmStep
    <3>1. inHand' = inHand /\ finder # "record"
      BY <2>3 DEF ConfirmStep, ConfirmTick, ConfirmRead, ConfirmSave
    <3> QED BY <3>1 DEF SettledInv, TypeInv, FinderPart
  <2>4. ~Crash /\ ~ConfirmTickFails
    BY DEF Crash, ConfirmTickFails, FinderDies
  <2> QED BY <2>1, <2>2, <2>3, <2>4, SettledScanStep DEF Next, FinderStep
<1> QED
  BY <1>1, <1>2, <1>3, <1>4

\* Deposits of the same transaction are of the same block.
LEMMA SameTxSameBlock ==
    ASSUME SettledInv, NEW i \in DOMAIN deposits, NEW j \in DOMAIN deposits,
           deposits[i].transfer.tx = deposits[j].transfer.tx
    PROVE  deposits[i].number = deposits[j].number
<1>1. PICK m \in 1..Len(blocks) : deposits[i].number = m /\ Mined(deposits[i].transfer, m)
  BY DEF SettledInv, SettledRows, IsSettledRow
<1>2. PICK n \in 1..Len(blocks) : deposits[j].number = n /\ Mined(deposits[j].transfer, n)
  BY DEF SettledInv, SettledRows, IsSettledRow
<1>3. m \in 1..Height /\ n \in 1..Height
  BY StoredIsStable
<1>4. m = n
  BY <1>1, <1>2, <1>3, MinedOnce DEF SettledInv, TypeInv
<1> QED
  BY <1>1, <1>2, <1>4

LEMMA HeightGrows ==
    ASSUME TypeInv, [Next]_vars
    PROVE  Height \in Nat /\ Height' \in Nat /\ Height <= Height'
<1>1. Height \in Nat
  BY DEF TypeInv, ChainPart, Height
<1>2. CASE ChainStep
  <2>1. ChainPart' /\ Height <= Height'
    BY <1>2, ChainSteps DEF TypeInv, ChainStep
  <2> QED BY <1>1, <2>1 DEF ChainPart, Height
<1>3. CASE UNCHANGED chainVars
  BY <1>1, <1>3 DEF chainVars, Height
<1> QED
  BY <1>2, <1>3, ChainOrSame

\* What the letter becomes, and what has been sent.
LEMMA LetterStep ==
    ASSUME [Next]_vars, NEW tx \in letter' \union posted'
    PROVE  \/ tx \in letter \union posted
           \/ \E i \in DOMAIN deposits : /\ deposits[i].transfer.tx = tx
                                         /\ deposits[i].status = "wallet_done"
<1>1. CASE ChainStep \/ ScanStep \/ FinderStep \/ ConfirmTickFails \/ FallbackStep \/ UNCHANGED vars
  BY <1>1 DEF ChainStep, ScanStep, ScanBlock, FlagReorg, FinderStep, FinderReceive, RecordStep,
     HandleBatch, HandleBatchFails, ConfirmStep, ConfirmTick, ConfirmRead, ConfirmSave,
     ConfirmTickFails, FallbackStep, ReadFallbackRows, PersistFallback, PersistFails, vars,
     notifyVars
<1>2. CASE Post
  BY <1>2 DEF Post, PostFailed, Rest
<1>3. CASE AfterNotify
  BY <1>3 DEF AfterNotify, Rest
<1>4. CASE \E b \in Business : NotifierTick(b)
  BY <1>4 DEF NotifierTick, Due
<1>5. CASE Crash
  BY <1>5 DEF Crash, Rest
<1> QED
  BY <1>1, <1>2, <1>3, <1>4, <1>5 DEF Next, NotifierStep

\* What the Finder is about to confirm.
LEMMA PendingStep ==
    ASSUME SettledInv, [Next]_vars, NEW i \in pending'
    PROVE  i \in DOMAIN deposits /\ HasConfirmations(deposits[i])
<1>0. ASSUME i \in pending PROVE i \in DOMAIN deposits /\ HasConfirmations(deposits[i])
  BY <1>0 DEF SettledInv, TypeInv, DepositsPart, SettledReports
<1>1. CASE \E b \in Business : ConfirmRead(b)
  BY <1>1 DEF ConfirmRead, Unconfirmed, HasConfirmations
<1>2. CASE pending' \subseteq pending
  BY <1>0, <1>2
<1>3. (\E b \in Business : ConfirmRead(b)) \/ pending' \subseteq pending
  <2>1. CASE ChainStep \/ ScanStep \/ FallbackStep \/ NotifierStep \/ UNCHANGED vars
    BY <2>1 DEF ChainStep, ScanStep, ScanBlock, FlagReorg, FallbackStep, ReadFallbackRows,
       PersistFallback, PersistFails, NotifierStep, Post, AfterNotify, NotifierTick, vars,
       finderVars
  <2>2. CASE FinderStep
    BY <2>2 DEF FinderStep, FinderReceive, RecordStep, HandleBatch, HandleBatchFails,
       ConfirmStep, ConfirmTick, ConfirmSave, AfterConfirm
  <2>3. CASE ConfirmTickFails \/ Crash
    BY <2>3 DEF ConfirmTickFails, Crash
  <2> QED BY <2>1, <2>2, <2>3 DEF Next
<1> QED
  BY <1>1, <1>2, <1>3

LEMMA SettledReportsStep ==
    ASSUME ShortReorgs, SettledInv, [Next]_vars
    PROVE  SettledReports'
<1>h. Height \in Nat /\ Height' \in Nat /\ Height <= Height' /\ Confirmations \in Nat
  BY HeightGrows, Bounds DEF SettledInv
<1>n. \A i \in DOMAIN deposits : deposits[i].number \in Nat
  <2>1. \A i \in DOMAIN deposits : \E k \in 1..Len(blocks) : deposits[i].number = k
    BY DEF SettledInv, SettledRows, IsSettledRow
  <2> QED BY <2>1, StoredIsStable
<1>1. \A i \in DOMAIN deposits : /\ i \in DOMAIN deposits'
                                 /\ deposits'[i].transfer = deposits[i].transfer
                                 /\ deposits'[i].number = deposits[i].number
  <2>1. CASE MarksDeposits
    BY <2>1, SettledMarks
  <2>2. CASE \E b \in Business : RecordsNow(b)
    BY <2>2, RecordedRows
  <2> QED BY <2>1, <2>2, SettledTables
<1>2. \A i \in DOMAIN deposits : HasConfirmations(deposits[i]) => HasConfirmations(deposits[i])'
  BY <1>h, <1>n, <1>1 DEF HasConfirmations
<1>3. \A i \in pending' : HasConfirmations(deposits[i])'
  BY <1>2, PendingStep
<1>4. \A tx \in letter \union posted : IsTold(tx)
  BY DEF SettledInv, SettledReports
<1>5. ASSUME NEW i \in DOMAIN deposits'
      PROVE  /\ deposits'[i].status # "fallback"
             /\ deposits'[i].status # "success" => HasConfirmations(deposits[i])'
  <2>0. i \in DOMAIN deposits => /\ deposits[i].status # "fallback"
                                 /\ deposits[i].status # "success" => HasConfirmations(deposits[i])
    BY DEF SettledInv, SettledReports
  <2>1. CASE MarksDeposits
    <3>1. i \in DOMAIN deposits
      BY <2>1, SettledMarks
    <3>2. \/ deposits'[i].status = deposits[i].status
          \/ deposits'[i].status = "wallet_done" /\ i \in pending
          \/ deposits'[i].status = "notified" /\ deposits[i].transfer.tx \in letter
      BY <2>1, <3>1, SettledMarks
    <3>3. i \in pending => HasConfirmations(deposits[i])
      BY DEF SettledInv, SettledReports
    <3>4. deposits[i].transfer.tx \in letter => HasConfirmations(deposits[i])
      <4> SUFFICES ASSUME deposits[i].transfer.tx \in letter PROVE HasConfirmations(deposits[i])
        OBVIOUS
      <4>1. PICK j \in DOMAIN deposits : /\ deposits[j].transfer.tx = deposits[i].transfer.tx
                                         /\ HasConfirmations(deposits[j])
        BY <1>4 DEF IsTold
      <4>2. deposits[i].number = deposits[j].number
        BY <3>1, <4>1, SameTxSameBlock
      <4> QED BY <4>1, <4>2 DEF HasConfirmations
    <3> QED BY <1>2, <2>0, <3>1, <3>2, <3>3, <3>4
  <2>2. CASE \E b \in Business : RecordsNow(b)
    <3>1. CASE i \in DOMAIN deposits
      <4>1. deposits'[i] = deposits[i]
        BY <2>2, <3>1, RecordedRows
      <4> QED BY <1>2, <2>0, <3>1, <4>1
    <3>2. CASE i \notin DOMAIN deposits
      <4>1. deposits'[i].status = "success"
        BY <2>2, <3>2, RecordedRows
      <4> QED BY <4>1
    <3> QED BY <3>1, <3>2
  <2> QED BY <2>1, <2>2, SettledTables
<1>6. ASSUME NEW tx \in letter' \union posted' PROVE IsTold(tx)'
  <2>1. IsTold(tx)
    <3>1. CASE tx \in letter \union posted
      BY <1>4, <3>1
    <3>2. CASE \E i \in DOMAIN deposits : /\ deposits[i].transfer.tx = tx
                                          /\ deposits[i].status = "wallet_done"
      BY <3>2 DEF SettledInv, SettledReports, IsTold
    <3> QED BY <3>1, <3>2, LetterStep
  <2>2. PICK i \in DOMAIN deposits : deposits[i].transfer.tx = tx /\ HasConfirmations(deposits[i])
    BY <2>1 DEF IsTold
  <2>3. i \in DOMAIN deposits' /\ deposits'[i].transfer.tx = tx /\ HasConfirmations(deposits[i])'
    BY <1>1, <1>2, <2>2
  <2> QED BY <2>3 DEF IsTold
<1> QED
  BY <1>3, <1>5, <1>6 DEF SettledReports

\* A recorded batch is added to the statement of its business and to its balances.
LEMMA RecordedStatement ==
    ASSUME TypeInv, NEW b \in Business, RecordsNow(b)
    PROVE  /\ Extends(Statement(b)', Statement(b), Of(b, inHand))
           /\ \A c \in Business : c # b => Statement(c)' = Statement(c)
<1> DEFINE m == Of(b, inHand)
           s == Transfers(flows)
           new == Transfers(flows')
<1>1. m \in Seq(Minable) /\ Extends(new, s, m)
  BY RecordedTransfers
<1>2. s \in Seq(Minable)
  BY TransfersOfRows DEF TypeInv, FlowsPart
<1>3. \A i \in 1..Len(m) : m[i].business = b
  BY OfTyped DEF RecordsNow
<1>4. \A c : Statement(c)' = OfBusiness(new, c) /\ Statement(c) = OfBusiness(s, c)
  BY DEF Statement
<1> HIDE DEF m, s, new
<1>5. \A c : BusinessSplits(s, m, c)
  BY <1>1, <1>2, OfBusinessConcat
<1>6. OfBusiness(m, b) = m
  BY <1>1, <1>3, OfBusinessAll
<1>7. Extends(Statement(b)', Statement(b), m)
  BY <1>1, <1>4, <1>5, <1>6 DEF Extends, BusinessSplits
<1>8. ASSUME NEW c \in Business, c # b PROVE Statement(c)' = Statement(c)
  <2>1. \A i \in 1..Len(m) : m[i].business # c
    BY <1>3, <1>8
  <2>2. OfBusiness(m, c) = <<>>
    BY <1>1, <2>1, OfBusinessNone
  <2>3. Statement(c)' = OfBusiness(s, c) \o <<>>
    BY <1>1, <1>4, <1>5, <2>2 DEF Extends, BusinessSplits
  <2>4. OfBusiness(s, c) \in Seq(Minable)
    BY <1>2, OfBusinessTyped
  <2>5. OfBusiness(s, c) \o <<>> = OfBusiness(s, c)
    BY <2>4, ConcatEmptySeq
  <2> QED BY <1>4, <2>3, <2>5
<1> QED
  BY <1>7, <1>8 DEF m

LEMMA RecordedBalances ==
    ASSUME TypeInv, NEW b \in Business, RecordsNow(b)
    PROVE  /\ \A a \in Account :
                  /\ BalanceOf(balances'[b], a) \in Nat
                  /\ BalanceOf(balances'[b], a)
                         = BalanceOf(balances[b], a) + Promise!EffectOfAll(Of(b, inHand), a)
           /\ \A c \in Business : c # b => balances'[c] = balances[c]
<1> DEFINE m == Of(b, inHand)
           result == UpdateOrCreate(balances[b], m)
<1>1. m \in Seq(Minable)
  BY RecordedTransfers
<1>2. balances \in [Business -> Table]
  BY DEF TypeInv, BalancesPart
<1>3. balances' = [balances EXCEPT ![b] = result] /\ balances'[b] # NoRow
  BY DEF RecordsNow, Recorded
<1> HIDE DEF m
<1>4. /\ result \in MayBeTable
      /\ \A a \in Account :
             \/ result = NoRow
             \/ BalanceOf(result, a) = BalanceOf(balances[b], a) + Promise!EffectOfAll(m, a)
  BY <1>1, <1>2, UpdateOutcome DEF MayBeTable
<1> HIDE DEF result
<1>5. balances'[b] = result /\ result # NoRow /\ result \in Table
  BY <1>2, <1>3, <1>4 DEF MayBeTable
<1>6. \A a \in Account : BalanceOf(result, a) \in Nat
  BY <1>5, BalanceIsNat
<1>7. \A c \in Business : c # b => balances'[c] = balances[c]
  BY <1>2, <1>3
<1> QED
  BY <1>4, <1>5, <1>6, <1>7 DEF m

LEMMA StatementTyped ==
    ASSUME TypeInv, NEW b
    PROVE  /\ Statement(b) \in Seq(Minable)
           /\ \A i \in 1..Len(Statement(b)) : Statement(b)[i].business = b
<1>1. Transfers(flows) \in Seq(Minable)
  BY TransfersOfRows DEF TypeInv, FlowsPart
<1> QED
  BY <1>1, OfBusinessTyped DEF Statement

LEMMA SettledSumsStep ==
    ASSUME ShortReorgs, SettledInv, [Next]_vars
    PROVE  SettledSums'
<1> SUFFICES ASSUME NEW c \in Business, NEW a \in Account
             PROVE  BalanceOf(balances'[c], a) = Promise!EffectOfAll(Statement(c)', a)
  BY DEF SettledSums, Promise!EffectOfAll, Promise!Effect, BalanceOf
<1>1. BalanceOf(balances[c], a) = Promise!EffectOfAll(Statement(c), a)
  BY DEF SettledInv, SettledSums
<1>2. CASE MarksDeposits
  <2>1. Statement(c)' = Statement(c) /\ balances' = balances
    BY <1>2 DEF MarksDeposits, Statement, Transfers
  <2> QED BY <1>1, <2>1
<1>3. CASE \E b \in Business : RecordsNow(b)
  <2>1. PICK b \in Business : RecordsNow(b)
    BY <1>3
  <2>2. CASE c # b
    <3>1. Statement(c)' = Statement(c) /\ balances'[c] = balances[c]
      BY <2>1, <2>2, RecordedStatement, RecordedBalances DEF SettledInv
    <3> QED BY <1>1, <3>1
  <2>3. CASE c = b
    <3> DEFINE m == Of(b, inHand)
               s == Statement(b)
    <3>1. /\ Extends(Statement(b)', s, m)
          /\ BalanceOf(balances'[b], a) = BalanceOf(balances[b], a) + Promise!EffectOfAll(m, a)
      BY <2>1, RecordedStatement, RecordedBalances DEF SettledInv
    <3>2. s \in Seq(Minable) /\ m \in Seq(Minable)
      BY <2>1, StatementTyped, RecordedTransfers DEF SettledInv
    <3>0. BalanceOf(balances[b], a) = Promise!EffectOfAll(s, a)
      BY <1>1, <2>3
    <3> HIDE DEF m, s
    <3>3. Promise!EffectOfAll(s \o m, a)
              = Promise!EffectOfAll(s, a) + Promise!EffectOfAll(m, a)
      BY <3>2, EffectConcat
    <3> QED BY <2>3, <3>0, <3>1, <3>3 DEF Extends
  <2> QED BY <2>2, <2>3
<1> QED
  BY <1>2, <1>3, SettledTables

LEMMA SettledStep == ShortReorgs /\ SettledInv /\ [Next]_vars => SettledInv'
<1> SUFFICES ASSUME ShortReorgs, SettledInv, [Next]_vars PROVE SettledInv'
  OBVIOUS
<1>1. TypeInv' /\ DepositsMatchFlow'
  BY TypeStep, MatchStep DEF SettledInv
<1>2. SettledScan' /\ SettledRows' /\ SettledReady' /\ SettledInHand'
  BY SettledScanStep, SettledRowsStep, SettledReadyStep, SettledInHandStep
<1>3. SettledReports' /\ SettledSums'
  BY SettledReportsStep, SettledSumsStep
<1> QED
  BY <1>1, <1>2, <1>3 DEF SettledInv

LEMMA ReportedFinal == SettledInv => ReportedIsFinal
<1> SUFFICES ASSUME SettledInv, NEW tx \in posted
             PROVE  \E n \in 1..(Height - Confirmations) : OnChain(tx, n)
  BY DEF ReportedIsFinal
<1>1. PICK i \in DOMAIN deposits : deposits[i].transfer.tx = tx /\ HasConfirmations(deposits[i])
  BY DEF SettledInv, SettledReports, IsTold
<1>2. PICK n \in 1..Len(blocks) : deposits[i].number = n /\ Mined(deposits[i].transfer, n)
  BY DEF SettledInv, SettledRows, IsSettledRow
<1>3. n \in 1..(Height - Confirmations)
  <2>1. Height \in Nat /\ Confirmations \in Nat /\ Len(blocks) \in Nat
    BY StoredIsStable, Bounds
  <2>2. n + Confirmations <= Height
    BY <1>1, <1>2 DEF HasConfirmations
  <2> QED BY <2>1, <2>2
<1>4. OnChain(tx, n)
  BY <1>1, <1>2 DEF OnChain, Mined
<1> QED
  BY <1>3, <1>4

\* As long as reorganisations stay within the confirmations, a business is told
\* only of transactions that the confirmed part of the chain holds: whatever the
\* Finder and the Notifier read before a failure, a restart or a further block.
THEOREM ReportsAreFinal == ShortReorgs /\ Spec => []ReportedIsFinal
<1>1. CASE ShortReorgs
  <2>1. Init => SettledInv
    BY <1>1, SettledInit
  <2>2. SettledInv /\ [Next]_vars => SettledInv'
    BY <1>1, SettledStep
  <2>3. SettledInv => ReportedIsFinal
    BY ReportedFinal
  <2> QED BY <2>1, <2>2, <2>3, PTL DEF Spec
<1> QED
  BY <1>1

LEMMA SumsMatch == SettledInv => BalancesMatchFlow
<1> SUFFICES ASSUME SettledInv, NEW b \in Business, NEW a \in Account
             PROVE  BalanceOf(balances[b], a)
                        = Promise!EffectOfAll(Picked(Transfers(flows), Live(flows, b)), a)
  BY DEF BalancesMatchFlow
<1> DEFINE s == Transfers(flows)
<1>1. Live(flows, b) = {i \in DOMAIN s : s[i].business = b}
  <2>1. \A i \in DOMAIN flows : flows[i].status # "fallback"
    BY DEF SettledInv, SettledRows
  <2>2. DOMAIN s = DOMAIN flows /\ \A i \in DOMAIN flows : s[i] = flows[i].transfer
    BY DEF Transfers
  <2> QED BY <2>1, <2>2 DEF Live
<1>2. Statement(b) = Picked(s, Live(flows, b))
  BY <1>1 DEF Statement, OfBusiness
<1>3. BalanceOf(balances[b], a) = Promise!EffectOfAll(Statement(b), a)
  BY DEF SettledInv, SettledSums
<1> QED
  BY <1>2, <1>3

\* As long as reorganisations stay within the confirmations, every balance is
\* what the recorded transfers of its business add up to.
THEOREM BalancesAddUp == ShortReorgs /\ Spec => []BalancesMatchFlow
<1>1. CASE ShortReorgs
  <2>1. Init => SettledInv
    BY <1>1, SettledInit
  <2>2. SettledInv /\ [Next]_vars => SettledInv'
    BY <1>1, SettledStep
  <2>3. SettledInv => BalancesMatchFlow
    BY SumsMatch
  <2> QED BY <2>1, <2>2, <2>3, PTL DEF Spec
<1> QED
  BY <1>1

-----------------------------------------------------------------------------
(***************************************************************************)
(* While reorganisations stay within the confirmations, the books are as   *)
(* Accounts specifies them: recording a batch enters its transfers on the  *)
(* statement of a business, every other step tells businesses of some that *)
(* are entered, or changes nothing of the books.                           *)
(***************************************************************************)

LEMMA TailOfConcat ==
    ASSUME NEW S, NEW s \in Seq(S), NEW t \in Seq(S)
    PROVE  SubSeq(s \o t, Len(s) + 1, Len(s \o t)) = t
<1>1. /\ s \o t \in Seq(S) /\ Len(s \o t) = Len(s) + Len(t)
      /\ Len(s) \in Nat /\ Len(t) \in Nat
  BY ConcatProperties
<1>2. \A i \in 1..Len(t) : (s \o t)[Len(s) + i] = t[i] /\ t[i] \in S
  BY <1>1, ConcatProperties
<1> DEFINE u == SubSeq(s \o t, Len(s) + 1, Len(s \o t))
<1>3. u \in Seq(S) /\ Len(u) = Len(t) /\ \A i \in 1..Len(u) : u[i] = t[i]
  BY <1>1, <1>2, SubSeqProperties
<1> HIDE DEF u
<1>4. u = t
  BY <1>3, SeqEqual
<1> QED
  BY <1>4 DEF u

LEMMA PickedInjective ==
    ASSUME NEW S, NEW seq \in Seq(S), NEW places, IsInjective(seq)
    PROVE  IsInjective(Picked(seq, places))
<1> DEFINE p == Picked(seq, places)
<1>1. PICK h : Places(h, p, seq, places, Len(seq))
  BY PickedPlaces
<1>2. p \in Seq(S)
  BY PickedIsSeq
<1> HIDE DEF p
<1>3. DOMAIN p = 1..Len(p) /\ DOMAIN seq = 1..Len(seq)
  BY <1>2
<1>4. \A k \in DOMAIN p : p[k] = seq[h[k]] /\ h[k] \in DOMAIN seq
  BY <1>1, <1>3 DEF Places
<1>5. \A i, j \in DOMAIN seq : seq[i] = seq[j] => i = j
  BY DEF IsInjective
<1>6. \A k, l \in DOMAIN p : h[k] = h[l] => k = l
  BY <1>1, <1>3 DEF Places
<1>7. \A k, l \in DOMAIN p : p[k] = p[l] => k = l
  BY <1>4, <1>5, <1>6
<1>8. IsInjective(p)
  BY <1>7 DEF IsInjective
<1> QED
  BY <1>8 DEF p

\* A batch has each of its transfers once.
LEMMA BatchInjective ==
    ASSUME ChainPart, NEW n \in 0..Height, NEW b
    PROVE  IsInjective(OfBusiness(TransfersAt(n), b))
<1>1. Content[HashAt(n)] \in Seq(Minable) /\ IsInjective(Content[HashAt(n)])
  BY HashKnown, LedgerAssumption
<1>2. IsInjective(TransfersAt(n))
  BY <1>1, PickedInjective DEF TransfersAt
<1>3. TransfersAt(n) \in Seq(Minable)
  BY TransfersTyped
<1> QED
  BY <1>2, <1>3, PickedInjective DEF OfBusiness

\* What is on a list is on the list of its business.
LEMMA OfBusinessHas ==
    ASSUME NEW s \in Seq(Minable), NEW k \in DOMAIN s
    PROVE  \E j \in DOMAIN OfBusiness(s, s[k].business) : OfBusiness(s, s[k].business)[j] = s[k]
<1> DEFINE b == s[k].business
           places == {i \in DOMAIN s : s[i].business = b}
           p == Picked(s, places)
<1>1. OfBusiness(s, b) = p /\ k \in places
  BY DEF OfBusiness
<1>2. PICK h : Places(h, p, s, places, Len(s))
  BY PickedPlaces
<1>3. p \in Seq(Minable)
  BY PickedIsSeq
<1>4. k \in 1..Len(s)
  OBVIOUS
<1> HIDE DEF p, places
<1>5. PICK j \in 1..Len(p) : h[j] = k
  BY <1>1, <1>2, <1>4 DEF Places
<1>6. j \in DOMAIN p /\ p[j] = s[k]
  BY <1>2, <1>3, <1>5 DEF Places
<1> QED
  BY <1>1, <1>6

\* What a batch adds to the statement of a business is new to it.
LEMMA RecordedIsNew ==
    ASSUME SettledInv, NEW b \in Business, RecordsNow(b)
    PROVE  /\ Of(b, inHand) # <<>> /\ IsInjective(Of(b, inHand))
           /\ \A i \in DOMAIN Of(b, inHand) : /\ Of(b, inHand)[i].business = b
                                              /\ Of(b, inHand)[i] \notin ToSet(Statement(b))
<1>1. inHand \in BatchOf /\ inHand # None /\ b \in todo
  BY LedgerAssumption DEF RecordsNow
<1>2. Of(b, inHand) # <<>>
  BY <1>1 DEF SettledInv, SettledInHand, Involved
<1>3. PICK n \in 1..Len(blocks) : inHand = Batch(n)
  BY <1>1 DEF SettledInv, SettledInHand, IsSettledBatch
<1>4. inHand.number = n /\ inHand.transfers = TransfersAt(n) /\ n \in 1..Height /\ n \in 0..Height
  BY <1>3, StoredIsStable DEF Batch
<1>5. IsInjective(Of(b, inHand))
  BY <1>4, BatchInjective DEF SettledInv, TypeInv, Of
<1> DEFINE m == Of(b, inHand)
           s == Transfers(flows)
<1>6. m \in Seq(Minable) /\ \A i \in 1..Len(m) : m[i].business = b
  BY <1>1, OfTyped
<1>7. DOMAIN m = 1..Len(m)
  BY <1>6
<1>8. \A i \in DOMAIN m : Mined(m[i], n)
  <2>1. TransfersAt(n) \in Seq(Minable)
    BY <1>4, TransfersTyped DEF SettledInv, TypeInv
  <2>2. m = OfBusiness(TransfersAt(n), b)
    BY <1>4 DEF Of
  <2>3. \A i \in DOMAIN m : \E k \in DOMAIN TransfersAt(n) : m[i] = TransfersAt(n)[k]
    BY <1>7, <2>1, <2>2, OfBusinessMembers
  <2> QED BY <2>3 DEF Mined
<1>9. /\ s \in Seq(Minable) /\ DOMAIN s = DOMAIN flows
      /\ \A l \in DOMAIN flows : s[l] = flows[l].transfer
  BY TransfersOfRows DEF SettledInv, TypeInv, FlowsPart, Transfers
<1>10. Statement(b) \in Seq(Minable) /\ \A k \in 1..Len(Statement(b)) : Statement(b)[k].business = b
  BY StatementTyped DEF SettledInv
<1> HIDE DEF m, s
<1>11. ASSUME NEW i \in DOMAIN m, m[i] \in ToSet(Statement(b)) PROVE FALSE
  <2>1. PICK k \in 1..Len(Statement(b)) : Statement(b)[k] = m[i]
    BY <1>10, <1>11 DEF ToSet
  <2>2. PICK l \in DOMAIN s : Statement(b)[k] = s[l]
    BY <1>9, OfBusinessMembers DEF Statement, s
  <2>3. l \in DOMAIN flows /\ flows[l].transfer = m[i] /\ flows[l].transfer.business = b
    BY <1>9, <1>10, <2>1, <2>2
  <2>4. PICK o \in 1..Len(blocks) : flows[l].number = o /\ Mined(flows[l].transfer, o)
    BY <2>3 DEF SettledInv, SettledRows, IsSettledRow
  <2>5. o \in 1..Height
    BY StoredIsStable
  <2>6. o = n
    BY <1>4, <1>8, <2>3, <2>4, <2>5, MinedOnce DEF SettledInv, TypeInv
  <2>7. flows[l].transfer.business \notin todo
    BY <1>1, <1>4, <2>3, <2>4, <2>6 DEF SettledInv, SettledInHand
  <2> QED BY <1>1, <2>3, <2>7
<1> QED
  BY <1>2, <1>5, <1>6, <1>7, <1>11 DEF m

\* What a business has been told of, or is going to be, is on its statement.
LEMMA ToldIsEntered ==
    ASSUME SettledInv, NEW tx, IsTold(tx)
    PROVE  tx \in Promise!Entered
<1> DEFINE s == Transfers(flows)
<1>1. PICK i \in DOMAIN deposits : deposits[i].transfer.tx = tx
  BY DEF IsTold
<1>2. s \in Seq(Minable)
  BY TransfersOfRows DEF SettledInv, TypeInv, FlowsPart
<1>3. Transfers(deposits)[i] = deposits[i].transfer /\ i \in 1..Len(Transfers(deposits))
  BY TransfersOfRows DEF SettledInv, TypeInv, DepositsPart
<1>4. Transfers(deposits) = DepositsIn(s)
  BY DEF SettledInv, DepositsMatchFlow
<1> HIDE DEF s
<1>5. PICK k \in DOMAIN s : DepositsIn(s)[i] = s[k]
  BY <1>2, <1>3, <1>4, DepositsInMembers
<1>6. s[k].tx = tx /\ s[k] \in Minable
  BY <1>1, <1>2, <1>3, <1>4, <1>5
<1> DEFINE c == s[k].business
<1>7. c \in Business
  BY <1>6, MinableIsTransfer
<1>8. PICK j \in DOMAIN OfBusiness(s, c) : OfBusiness(s, c)[j] = s[k]
  BY <1>2, OfBusinessHas
<1> HIDE DEF c
<1>9. j \in DOMAIN Statement(c) /\ Statement(c)[j].tx = tx
  BY <1>6, <1>8 DEF Statement, s
<1> QED
  BY <1>7, <1>9 DEF Promise!Entered

\* Recording a batch enters its transfers.
LEMMA RecordsEnters ==
    ASSUME SettledInv, NEW b \in Business, RecordsNow(b)
    PROVE  Promise!Enter(b, Promise!Entry(b))
<1> DEFINE more == Of(b, inHand)
<1>1. /\ more \in Seq(Minable)
      /\ Statement(b) \in Seq(Minable)
  BY RecordedTransfers, StatementTyped DEF SettledInv
<1>2. /\ Statement(b)' = Statement(b) \o more
      /\ \A c \in Business : c # b => Statement(c)' = Statement(c)
  BY RecordedStatement DEF SettledInv, Extends
<1>3. /\ more # <<>> /\ IsInjective(more)
      /\ \A i \in DOMAIN more : more[i].business = b /\ more[i] \notin ToSet(Statement(b))
  BY RecordedIsNew
<1>4. /\ \A a \in Account :
             /\ BalanceOf(balances'[b], a) \in Nat
             /\ BalanceOf(balances'[b], a)
                    = BalanceOf(balances[b], a) + Promise!EffectOfAll(more, a)
      /\ \A c \in Business : c # b => balances'[c] = balances[c]
  BY RecordedBalances DEF SettledInv
<1> HIDE DEF more
<1>5. Promise!Entry(b) = more
  <2>1. SubSeq(Statement(b) \o more, Len(Statement(b)) + 1, Len(Statement(b) \o more)) = more
    BY <1>1, TailOfConcat
  <2>2. Promise!Entry(b) = SubSeq(Statement(b)', Len(Statement(b)) + 1, Len(Statement(b)'))
    BY DEF Promise!Entry
  <2> QED BY <1>2, <2>1, <2>2
<1> DEFINE statements == [c \in Business |-> Statement(c)]
           books == [c \in Business |-> [a \in Account |-> BalanceOf(balances[c], a)]]
<1>6. statements' = [statements EXCEPT ![b] = @ \o more]
  BY <1>2
<1>7. books' = [books EXCEPT ![b] = [a \in Account |-> @[a] + Promise!EffectOfAll(more, a)]]
  <2>1. books'[b] = [a \in Account |-> books[b][a] + Promise!EffectOfAll(more, a)]
    BY <1>4
  <2>2. \A c \in Business : c # b => books'[c] = books[c]
    BY <1>4 DEF BalanceOf
  <2> QED BY <2>1, <2>2
<1>8. \A a \in Account : books[b][a] + Promise!EffectOfAll(more, a) >= 0
  BY <1>4
<1>9. /\ Promise!IsInjective(more)
      /\ \A i \in DOMAIN more :
             more[i].business = b /\ more[i] \notin Promise!ToSet(statements[b])
  <2>1. Promise!IsInjective(more)
    BY <1>3 DEF IsInjective, Promise!IsInjective
  <2>2. Promise!ToSet(statements[b]) = ToSet(Statement(b))
    BY DEF ToSet, Promise!ToSet
  <2> QED BY <1>3, <2>1, <2>2
<1>10. posted' = posted
  BY DEF RecordsNow
<1>11. Promise!Enter(b, more)
  BY <1>3, <1>6, <1>7, <1>8, <1>9, <1>10 DEF Promise!Enter
<1> QED
  BY <1>5, <1>11

LEMMA PostedGrows == [Next]_vars => posted \subseteq posted'
<1> SUFFICES ASSUME [Next]_vars PROVE posted \subseteq posted'
  OBVIOUS
<1>1. CASE \/ ChainStep \/ ScanStep \/ FinderStep \/ ConfirmTickFails \/ FallbackStep \/ Crash
           \/ UNCHANGED vars
  BY <1>1 DEF ChainStep, ScanStep, ScanBlock, FlagReorg, FinderStep, FinderReceive, RecordStep,
     HandleBatch, HandleBatchFails, ConfirmStep, ConfirmTick, ConfirmRead, ConfirmSave,
     ConfirmTickFails, FallbackStep, ReadFallbackRows, PersistFallback, PersistFails, Crash, vars,
     notifyVars
<1>2. CASE NotifierStep
  BY <1>2 DEF NotifierStep, Post, AfterNotify, NotifierTick
<1> QED
  BY <1>1, <1>2 DEF Next

\* A step that only marks deposits tells of entered transfers, if of any.
LEMMA MarksReports ==
    ASSUME SettledInv, [Next]_vars, MarksDeposits
    PROVE  Promise!Report
<1>1. Transfers(flows)' = Transfers(flows) /\ balances' = balances
  BY DEF MarksDeposits, Transfers
<1>2. \A c \in Business : Statement(c)' = Statement(c)
  BY <1>1 DEF Statement
<1>3. ASSUME NEW tx \in posted' PROVE tx \in Promise!Entered
  <2>1. CASE tx \in letter \union posted
    BY <2>1, ToldIsEntered DEF SettledInv, SettledReports
  <2>2. CASE \E i \in DOMAIN deposits : /\ deposits[i].transfer.tx = tx
                                        /\ deposits[i].status = "wallet_done"
    BY <2>2, ToldIsEntered DEF SettledInv, SettledReports, IsTold
  <2> QED BY <2>1, <2>2, LetterStep
<1>4. posted' \subseteq Promise!Entered /\ posted \subseteq posted'
  BY <1>3, PostedGrows
<1>5. \A c \in Business, a \in Account : BalanceOf(balances'[c], a) = BalanceOf(balances[c], a)
  BY <1>1
<1> QED
  BY <1>2, <1>4, <1>5 DEF Promise!Report

LEMMA AccountsInit == Init => Promise!Init
<1> SUFFICES ASSUME Init PROVE Promise!Init
  OBVIOUS
<1>1. \A b \in Business, a \in Account : BalanceOf(balances[b], a) = 0
  BY DEF Init, BalanceOf
<1>2. \A b \in Business : Statement(b) = <<>>
  <2> TAKE b \in Business
  <2>1. Transfers(flows) = <<>>
    BY DEF Init, Transfers
  <2>2. <<>> \in Seq(Minable) /\ \A i \in 1..Len(<<>>) : <<>>[i].business # b
    OBVIOUS
  <2>3. OfBusiness(<<>>, b) = <<>>
    BY <2>2, OfBusinessNone
  <2> QED BY <2>1, <2>3 DEF Statement
<1>3. posted = {}
  BY DEF Init
<1> QED
  BY <1>1, <1>2, <1>3 DEF Promise!Init

LEMMA AccountsStep ==
    ASSUME ShortReorgs, SettledInv, [Next]_vars
    PROVE  Promise!Next
<1>1. CASE \E b \in Business : RecordsNow(b)
  BY <1>1, RecordsEnters DEF Promise!Next
<1>2. CASE MarksDeposits
  BY <1>2, MarksReports DEF Promise!Next
<1> QED
  BY <1>1, <1>2, SettledTables

\* As long as reorganisations stay within the confirmations, the Finder, the
\* Notifier and their failures keep the books Accounts specifies: each transfer is
\* entered once, no account is overdrawn, nothing is taken back, and a business is
\* told only of what is on its statement.
THEOREM KeepsAccounts == ShortReorgs /\ Spec => ImplementsAccounts
<1>1. CASE ShortReorgs
  <2>1. Init => SettledInv /\ Promise!Init
    BY <1>1, SettledInit, AccountsInit
  <2>2. SettledInv /\ [Next]_vars => SettledInv'
    BY <1>1, SettledStep
  <2>3. SettledInv /\ [Next]_vars => [Promise!Next]_(Promise!vars)
    BY <1>1, AccountsStep
  <2> QED BY <2>1, <2>2, <2>3, PTL DEF Spec, ImplementsAccounts, Promise!Spec
<1> QED
  BY <1>1

-----------------------------------------------------------------------------
(***************************************************************************)
(* The books under a rollback, when no reorganisation reaches more than    *)
(* the newest block the scan may have stored.                              *)
(***************************************************************************)

\* A reversal takes a transfer's meaning back, or the table refuses it.
LEMMA ReversalOutcome ==
    ASSUME NEW table \in MayBeTable, NEW t \in Minable
    PROVE  Outcome(Perform(table, Reversal(t)), table,
                   [a \in Account |-> -Promise!Effect(t, a)])
<1> DEFINE d == Debit(t.to, t.amount)
           c == Credit(t.from, t.amount)
           change == [a \in Account |-> -Promise!Effect(t, a)]
<1>1. d \in Entries /\ c \in Entries /\ t.type \in Types /\ t.amount \in Nat
  BY MinableIsTransfer, DebitCredit
<1>2. CASE t.type = "deposit"
  <2>1. Reversal(t) = <<d>>
    BY <1>2 DEF Reversal, HandleFallBackDeposit
  <2>2. ByEntry(d) = change
    BY <1>1, <1>2 DEF ByEntry, Debit, Promise!Effect
  <2> HIDE DEF d
  <2> QED BY <1>1, <2>1, <2>2, PerformOneOutcome
<1>3. CASE t.type = "withdraw"
  <2>1. Reversal(t) = <<c>>
    BY <1>3 DEF Reversal, HandleFallBackWithdraw
  <2>2. ByEntry(c) = change
    BY <1>1, <1>3 DEF ByEntry, Credit, Promise!Effect
  <2> HIDE DEF c
  <2> QED BY <1>1, <2>1, <2>2, PerformOneOutcome
<1>4. CASE t.type \in {"collection", "hot2cold", "cold2hot"}
  <2>1. Reversal(t) = <<c, d>>
    BY <1>4 DEF Reversal, HandleFallBackCollection, HandleFallBackHotToCold,
       HandleFallBackColdToHot
  <2>2. [a \in Account |-> ByEntry(c)[a] + ByEntry(d)[a]] = change
    BY <1>1, <1>4 DEF ByEntry, Debit, Credit, Promise!Effect
  <2> HIDE DEF c, d
  <2> QED BY <1>1, <2>1, <2>2, PerformTwoOutcome
<1> QED
  BY <1>1, <1>2, <1>3, <1>4 DEF Types

\* What the transfers at some places add up to, place by place.
IsPartTally(f, s, places, a) ==
    /\ f[0] = 0
    /\ \A n \in 1..Len(s) :
           f[n] = f[n - 1] + (IF n \in places THEN Promise!Effect(s[n], a) ELSE 0)

LEMMA EffectOfOne ==
    ASSUME NEW t \in Minable, NEW a \in Account
    PROVE  /\ <<t>> \in Seq(Minable) /\ Promise!Effect(t, a) \in Int
           /\ Promise!EffectOfAll(<<t>>, a) = Promise!Effect(t, a)
<1> DEFINE one == <<t>>
<1>1. one \in Seq(Minable) /\ Len(one) = 1 /\ one[1] = t
  OBVIOUS
<1>2. Promise!Effect(t, a) \in Int
  <2>1. ByTransfer(t)[a] \in Int
    BY ByTransferIsInt
  <2> QED BY <2>1 DEF ByTransfer
<1> HIDE DEF one
<1>3. PICK f \in [0..Len(one) -> Int] :
          IsTally(f, one, a) /\ Promise!EffectOfAll(one, a) = f[Len(one)]
  BY <1>1, EffectSteps
<1>4. f[0] = 0 /\ f[1] = f[1 - 1] + Promise!Effect(one[1], a) /\ 1 - 1 = 0
  BY <1>1, <1>3 DEF IsTally
<1>5. Promise!EffectOfAll(one, a) = 0 + Promise!Effect(t, a)
  BY <1>1, <1>3, <1>4
<1> QED
  BY <1>1, <1>2, <1>5 DEF one

LEMMA EffectOfNone ==
    ASSUME NEW a \in Account
    PROVE  Promise!EffectOfAll(<<>>, a) = 0
<1> DEFINE none == <<>>
<1>1. none \in Seq(Minable) /\ Len(none) = 0
  OBVIOUS
<1> HIDE DEF none
<1>2. PICK f \in [0..Len(none) -> Int] :
          IsTally(f, none, a) /\ Promise!EffectOfAll(none, a) = f[Len(none)]
  BY <1>1, EffectSteps
<1>3. Promise!EffectOfAll(none, a) = 0
  BY <1>1, <1>2 DEF IsTally
<1> QED
  BY <1>3 DEF none

LEMMA PartTally ==
    ASSUME NEW s \in Seq(Minable), NEW places, NEW a \in Account
    PROVE  \E f \in [0..Len(s) -> Int] :
               IsPartTally(f, s, places, a) /\ Promise!EffectOfAll(Picked(s, places), a) = f[Len(s)]
<1> DEFINE N == Len(s)
           All(q) == Promise!EffectOfAll(q, a)
<1>1. N \in Nat /\ \A n \in 1..N : s[n] \in Minable
  OBVIOUS
<1>2. PICK g \in [0..N -> Seq(Minable)] : IsPicking(g, s, places) /\ Picked(s, places) = g[N]
  BY PickedSteps
<1> DEFINE f == [n \in 0..N |-> All(g[n])]
<1>3. \A q \in Seq(Minable) : All(q) \in Int
  BY EffectIsInt
<1>4. f \in [0..N -> Int]
  <2> HIDE DEF All
  <2> QED BY <1>2, <1>3
<1>5. f[0] = 0
  <2>1. g[0] = <<>> /\ 0 \in 0..N
    BY <1>1, <1>2 DEF IsPicking
  <2> QED BY <2>1, EffectOfNone
<1>6. ASSUME NEW n \in 1..N
      PROVE  f[n] = f[n - 1] + (IF n \in places THEN Promise!Effect(s[n], a) ELSE 0)
  <2>1. n \in 0..N /\ n - 1 \in 0..N
    BY <1>1
  <2>2. g[n] = IF n \in places THEN Append(g[n - 1], s[n]) ELSE g[n - 1]
    BY <1>2 DEF IsPicking
  <2>3. f[n] = All(g[n]) /\ f[n - 1] = All(g[n - 1]) /\ g[n - 1] \in Seq(Minable)
    BY <1>2, <2>1
  <2>4. CASE n \in places
    <3>1. s[n] \in Minable
      BY <1>1
    <3>2. Append(g[n - 1], s[n]) = g[n - 1] \o <<s[n]>>
      BY <2>3, <3>1
    <3> DEFINE one == <<s[n]>>
    <3>3. one \in Seq(Minable) /\ All(one) = Promise!Effect(s[n], a)
      BY <3>1, EffectOfOne
    <3>4. g[n] = g[n - 1] \o one
      BY <2>2, <2>4, <3>2
    <3> HIDE DEF one
    <3>5. All(g[n - 1] \o one) = All(g[n - 1]) + All(one)
      BY <2>3, <3>3, EffectConcat
    <3>6. All(g[n]) = All(g[n - 1]) + Promise!Effect(s[n], a)
      BY <3>3, <3>4, <3>5
    <3> HIDE DEF All, f
    <3> QED BY <2>3, <2>4, <3>6
  <2>5. CASE n \notin places
    <3>1. All(g[n - 1]) \in Int
      BY <1>3, <2>3
    <3> HIDE DEF All, f
    <3> QED BY <2>2, <2>3, <2>5, <3>1
  <2> QED BY <2>4, <2>5
<1>7. Promise!EffectOfAll(Picked(s, places), a) = f[N]
  <2>1. N \in 0..N
    BY <1>1
  <2> QED BY <1>2, <2>1
<1> HIDE DEF f
<1> QED
  BY <1>4, <1>5, <1>6, <1>7 DEF IsPartTally

\* A place less takes the effect of its transfer away.
LEMMA EffectWithout ==
    ASSUME NEW s \in Seq(Minable), NEW places, NEW i \in 1..Len(s), i \in places, NEW a \in Account
    PROVE  Promise!EffectOfAll(Picked(s, places), a)
               = Promise!EffectOfAll(Picked(s, places \ {i}), a) + Promise!Effect(s[i], a)
<1> DEFINE N == Len(s)
           E(n) == Promise!Effect(s[n], a)
<1>1. N \in Nat /\ i \in 1..N /\ \A n \in 1..N : E(n) \in Int
  <2>1. \A n \in 1..N : s[n] \in Minable
    OBVIOUS
  <2>2. \A n \in 1..N : E(n) \in Int
    BY <2>1, EffectOfOne
  <2> QED BY <2>2
<1>2. PICK f \in [0..N -> Int] :
          IsPartTally(f, s, places, a) /\ Promise!EffectOfAll(Picked(s, places), a) = f[N]
  BY PartTally
<1>3. PICK g \in [0..N -> Int] :
          /\ IsPartTally(g, s, places \ {i}, a)
          /\ Promise!EffectOfAll(Picked(s, places \ {i}), a) = g[N]
  BY PartTally
<1>4. /\ f[0] = 0 /\ g[0] = 0
      /\ \A n \in 1..N : f[n] = f[n - 1] + (IF n \in places THEN E(n) ELSE 0)
      /\ \A n \in 1..N : g[n] = g[n - 1] + (IF n \in places \ {i} THEN E(n) ELSE 0)
  BY <1>2, <1>3 DEF IsPartTally
<1> DEFINE P == {n \in 0..N : f[n] = g[n] + (IF i <= n THEN E(i) ELSE 0)}
<1> HIDE DEF E, N, P
<1>5. 0 \in P
  <2>1. 0 \in 0..N /\ ~(i <= 0)
    BY <1>1
  <2> QED BY <1>4, <2>1 DEF P
<1>6. ASSUME NEW n \in 0..N, n < N, n \in P PROVE n + 1 \in P
  <2>1. n + 1 \in 1..N /\ (n + 1) - 1 = n /\ n + 1 \in 0..N
    BY <1>1, <1>6
  <2>2. /\ f[n + 1] = f[n] + (IF n + 1 \in places THEN E(n + 1) ELSE 0)
        /\ g[n + 1] = g[n] + (IF n + 1 \in places \ {i} THEN E(n + 1) ELSE 0)
    BY <1>4, <2>1
  <2>3. f[n] \in Int /\ g[n] \in Int /\ E(n + 1) \in Int /\ E(i) \in Int
    BY <1>1, <1>2, <1>3, <2>1
  <2>4. f[n] = g[n] + (IF i <= n THEN E(i) ELSE 0)
    BY <1>6 DEF P
  <2>5. CASE n + 1 = i
    <3>0. n + 1 \in places /\ n + 1 \notin places \ {i}
      BY <2>5
    <3>1. ~(i <= n) /\ i <= n + 1
      BY <1>1, <2>1, <2>5
    <3>2. f[n + 1] = f[n] + E(n + 1)
      BY <2>2, <3>0
    <3>3. g[n + 1] = g[n] + 0
      BY <2>2, <3>0
    <3>4. f[n] = g[n] + 0
      BY <2>4, <3>1
    <3>5. f[n + 1] = g[n + 1] + E(n + 1)
      BY <2>3, <3>2, <3>3, <3>4
    <3>6. E(n + 1) = E(i)
      BY <2>5
    <3> QED BY <2>1, <3>1, <3>5, <3>6 DEF P
  <2>6. CASE n + 1 # i
    <3>1. n + 1 \in places <=> n + 1 \in places \ {i}
      BY <2>6
    <3>2. i <= n + 1 <=> i <= n
      BY <1>1, <2>6
    <3> DEFINE more == IF n + 1 \in places THEN E(n + 1) ELSE 0
               past == IF i <= n THEN E(i) ELSE 0
    <3>3. f[n + 1] = f[n] + more /\ g[n + 1] = g[n] + more /\ f[n] = g[n] + past
      BY <2>2, <2>4, <3>1 DEF more, past
    <3>4. more \in Int /\ past \in Int
      BY <2>3
    <3>5. past = IF i <= n + 1 THEN E(i) ELSE 0
      BY <3>2
    <3> HIDE DEF more, past
    <3>6. f[n + 1] = g[n + 1] + past
      BY <2>3, <3>3, <3>4
    <3> QED BY <2>1, <3>5, <3>6 DEF P
  <2> QED BY <2>5, <2>6
<1>7. \A n \in 0..N : n \in P
  BY <1>1, <1>5, <1>6, UpTo
<1>8. N \in 0..N /\ i <= N
  BY <1>1
<1>9. f[N] = g[N] + E(i)
  BY <1>7, <1>8 DEF P
<1> QED
  BY <1>2, <1>3, <1>9 DEF E

-----------------------------------------------------------------------------
\* A reorganisation reaches at most the newest block the scan may have stored.
ShallowReorgs == MaxDepth <= Confirmations + 1

\* A flagged header is the one after the stored blocks, whose newest block has
\* lost its place for good: it has too many blocks on top to change again.
FlagIsFinal ==
    flag # None =>
        /\ blocks # <<>> /\ flag.number = Len(blocks) + 1
        /\ flag.number + Confirmations <= Height
        /\ flag.parent = HashAt(Len(blocks)) /\ blocks[Len(blocks)] # HashAt(Len(blocks))

\* So a rollback is of the newest stored block.
EntryIsNewest == fpc = "persist" => entry = Len(blocks)

\* Heights of which transfers are recorded, or on their way to the tables.
IsTaken(m) ==
    \/ \E i \in DOMAIN flows : flows[i].number = m
    \/ ready # None /\ ready.number = m
    \/ inHand # None /\ inHand.number = m

\* What is taken of a block was taken on top of a stored block that is still
\* canonical, unless that block has been rolled back, too.
HasParent(m) ==
    /\ m - 1 \in 1..Len(blocks) /\ m + Confirmations <= Height
    /\ blocks[m - 1] = HashAt(m - 1)

TakenHasParent == \A m \in 2..MaxHeight : IsTaken(m) => m - 1 \in backedUp \/ HasParent(m)

\* No row is marked but those of blocks that have been rolled back.
MarkedIsBackedUp ==
    \A i \in DOMAIN flows : flows[i].status = "fallback" => flows[i].number \in backedUp

RollbackInv ==
    /\ TypeInv
    /\ FlagIsFinal /\ EntryIsNewest /\ TakenHasParent /\ MarkedIsBackedUp

\* The rows of flows, their heights, and the heights of the batches.
LEMMA TakenHeights ==
    ASSUME TypeInv
    PROVE  /\ \A i \in DOMAIN flows : flows[i].number \in 2..MaxHeight /\ IsTaken(flows[i].number)
           /\ Len(blocks) \in Nat /\ Height \in Nat /\ Len(blocks) <= Height
<1>1. flows \in Seq(Row)
  BY DEF TypeInv, FlowsPart
<1>2. \A i \in DOMAIN flows : flows[i].number \in 2..MaxHeight
  BY <1>1, TransfersOfRows DEF Row
<1>3. Len(blocks) \in Nat /\ Height \in Nat /\ Len(blocks) <= Height
  BY DEF TypeInv, ScanPart, ChainPart, Height
<1> QED
  BY <1>2, <1>3 DEF IsTaken

LEMMA RollbackInit == Init => RollbackInv
<1> SUFFICES ASSUME Init PROVE RollbackInv
  OBVIOUS
<1>1. TypeInv
  BY InitTypeInv
<1>2. FlagIsFinal /\ EntryIsNewest /\ MarkedIsBackedUp
  BY DEF Init, FlagIsFinal, EntryIsNewest, MarkedIsBackedUp
<1>3. TakenHasParent
  BY DEF Init, TakenHasParent, IsTaken
<1> QED
  BY <1>1, <1>2, <1>3 DEF RollbackInv

\* A block with Confirmations blocks on top of its child stays.
LEMMA ChildStays ==
    ASSUME ShallowReorgs, TypeInv, ChainStep, NEW m \in Nat, m + Confirmations <= Height, m > 0
    PROVE  HashAt(m - 1)' = HashAt(m - 1) /\ m + Confirmations <= Height'
<1>1. /\ Height <= Height' /\ Height' \in Nat
      /\ \A n \in 1..Height : n + MaxDepth <= Height => chain'[n] = chain[n]
  BY ChainSteps DEF TypeInv, ChainStep, ChainPart, Height
<1>2. Height \in Nat /\ Confirmations \in Nat /\ MaxDepth \in Nat
  BY Bounds DEF TypeInv, ChainPart, Height
<1>3. m - 1 = 0 \/ (m - 1 \in 1..Height /\ (m - 1) + MaxDepth <= Height)
  BY <1>2 DEF ShallowReorgs
<1> QED
  BY <1>1, <1>2, <1>3 DEF HashAt

LEMMA RollbackChainStep == ShallowReorgs /\ RollbackInv /\ ChainStep => RollbackInv'
<1> SUFFICES ASSUME ShallowReorgs, RollbackInv, ChainStep PROVE RollbackInv'
  OBVIOUS
<1>1. UNCHANGED <<scanVars, finderVars, tables, fallbackVars>>
  BY DEF ChainStep
<1>2. TypeInv'
  BY TypeStep DEF RollbackInv, Next
<1>3. FlagIsFinal'
  <2> SUFFICES ASSUME flag # None PROVE FlagIsFinal'
    BY <1>1 DEF FlagIsFinal, scanVars
  <2>1. /\ blocks # <<>> /\ flag.number = Len(blocks) + 1
        /\ flag.number + Confirmations <= Height
        /\ flag.parent = HashAt(Len(blocks)) /\ blocks[Len(blocks)] # HashAt(Len(blocks))
    BY DEF RollbackInv, FlagIsFinal
  <2>2. Len(blocks) \in Nat /\ flag.number \in Nat /\ flag.number > 0
        /\ flag.number - 1 = Len(blocks)
    BY <2>1, TakenHeights DEF RollbackInv
  <2>3. HashAt(flag.number - 1)' = HashAt(flag.number - 1) /\ flag.number + Confirmations <= Height'
    <3>1. HashAt(flag.number - 1)' = [HashAt(flag.number - 1) EXCEPT ![1] = @] \/ TRUE
      OBVIOUS
    <3> QED BY <1>1, <2>1, <2>2, ChildStays DEF RollbackInv, HashAt, scanVars
  <2> QED BY <1>1, <2>1, <2>2, <2>3 DEF FlagIsFinal, scanVars, HashAt
<1>4. TakenHasParent'
  <2> SUFFICES ASSUME NEW m \in 2..MaxHeight, IsTaken(m)'
               PROVE  m - 1 \in backedUp' \/ HasParent(m)'
    BY DEF TakenHasParent
  <2>1. IsTaken(m) /\ backedUp' = backedUp /\ blocks' = blocks
    BY <1>1 DEF IsTaken, scanVars, finderVars, tables
  <2>2. CASE HasParent(m)
    <3>1. m \in Nat /\ m > 0 /\ m + Confirmations <= Height
      BY <2>2, Bounds DEF HasParent
    <3>2. HashAt(m - 1)' = HashAt(m - 1) /\ m + Confirmations <= Height'
      BY <3>1, ChildStays DEF RollbackInv
    <3> QED BY <2>1, <2>2, <3>2 DEF HasParent
  <2> QED BY <2>1, <2>2 DEF RollbackInv, TakenHasParent
<1>5. EntryIsNewest' /\ MarkedIsBackedUp'
  BY <1>1 DEF RollbackInv, EntryIsNewest, MarkedIsBackedUp, scanVars, tables, fallbackVars
<1> QED
  BY <1>2, <1>3, <1>4, <1>5 DEF RollbackInv

LEMMA RollbackScanBlock == RollbackInv /\ ScanBlock => RollbackInv'
<1> SUFFICES ASSUME RollbackInv, ScanBlock PROVE RollbackInv'
  OBVIOUS
<1> DEFINE k == Len(blocks)
<1>1. /\ k \in Nat /\ k + 1 \in 2..MaxHeight /\ k + 1 + Confirmations <= Height
      /\ blocks \in Seq(DOMAIN Content) /\ NextHeader.hash \in DOMAIN Content
      /\ NextHeader.number = k + 1 /\ NextHeader.parent = HashAt(k) /\ blocks # <<>>
  BY NextHeaderKnown DEF RollbackInv, ScanBlock
<1>2. blocks[k] = HashAt(k)
  BY <1>1 DEF ScanBlock, IsLinked
<1>3. flag = None
  BY <1>2 DEF RollbackInv, FlagIsFinal
<1>4. /\ blocks' = Append(blocks, NextHeader.hash) /\ Len(blocks') = k + 1
      /\ \A n \in 1..k : blocks'[n] = blocks[n]
  BY <1>1, AppendProperties DEF ScanBlock
<1>5. UNCHANGED <<chainVars, backedUp, flag, inHand, flows, fpc, entry>>
  BY DEF ScanBlock, finderVars, tables, fallbackVars
<1>6. TypeInv'
  BY TypeScanBlock DEF RollbackInv
<1>7. FlagIsFinal' /\ EntryIsNewest'
  <2>1. fpc # "persist"
    BY <1>3 DEF RollbackInv, TypeInv, RollbackPart
  <2> QED BY <1>3, <1>5, <2>1 DEF FlagIsFinal, EntryIsNewest
<1>8. TakenHasParent'
  <2> SUFFICES ASSUME NEW m \in 2..MaxHeight, IsTaken(m)', m - 1 \notin backedUp
               PROVE  HasParent(m)'
    BY <1>5 DEF TakenHasParent
  <2>1. CASE IsTaken(m)
    <3>1. HasParent(m)
      BY <2>1 DEF RollbackInv, TakenHasParent
    <3>2. m - 1 \in 1..k /\ m - 1 \in 1..(k + 1)
      BY <1>1, <3>1 DEF HasParent
    <3> QED BY <1>4, <1>5, <3>1, <3>2 DEF HasParent, chainVars, Height, HashAt
  <2>2. CASE ~IsTaken(m)
    <3>1. ready' # None /\ ready'.number = m
      BY <1>5, <2>2 DEF IsTaken
    <3>2. ready' = Batch(k + 1)
      BY <1>1, <3>1 DEF ScanBlock
    <3>3. m = k + 1
      BY <3>1, <3>2 DEF Batch
    <3>4. m - 1 = k /\ k \in 1..(k + 1) /\ k \in 1..k /\ m + Confirmations <= Height
      BY <1>1, <3>3
    <3>5. HashAt(m - 1)' = HashAt(m - 1) /\ Height' = Height
      BY <1>5 DEF chainVars, HashAt, Height
    <3>6. blocks'[m - 1] = HashAt(m - 1)
      BY <1>2, <1>4, <3>4
    <3> QED BY <1>4, <3>4, <3>5, <3>6 DEF HasParent
  <2> QED BY <2>1, <2>2
<1>9. MarkedIsBackedUp'
  BY <1>5 DEF RollbackInv, MarkedIsBackedUp
<1> QED
  BY <1>6, <1>7, <1>8, <1>9 DEF RollbackInv

LEMMA RollbackFlagReorg == RollbackInv /\ FlagReorg => RollbackInv'
<1> SUFFICES ASSUME RollbackInv, FlagReorg PROVE RollbackInv'
  OBVIOUS
<1> DEFINE k == Len(blocks)
<1>1. /\ k \in Nat /\ k + 1 + Confirmations <= Height
      /\ NextHeader.number = k + 1 /\ NextHeader.parent = HashAt(k) /\ blocks # <<>>
  BY NextHeaderKnown DEF RollbackInv, FlagReorg
<1>2. blocks[k] # HashAt(k) /\ flag' = NextHeader /\ flag = None
  BY <1>1 DEF FlagReorg, IsLinked
<1>3. UNCHANGED <<chainVars, blocks, backedUp, ready, inHand, flows, fpc, entry>>
  BY DEF FlagReorg, finderVars, tables, fallbackVars
<1>4. TypeInv'
  BY TypeFlagReorg DEF RollbackInv
<1>5. FlagIsFinal'
  <2>1. HashAt(k)' = HashAt(k) /\ Height' = Height
    BY <1>3 DEF chainVars, HashAt, Height
  <2> QED BY <1>1, <1>2, <1>3, <2>1 DEF FlagIsFinal
<1>6. EntryIsNewest' /\ TakenHasParent' /\ MarkedIsBackedUp'
  BY <1>3 DEF RollbackInv, EntryIsNewest, TakenHasParent, MarkedIsBackedUp, IsTaken, HasParent,
     chainVars, HashAt, Height
<1> QED
  BY <1>4, <1>5, <1>6 DEF RollbackInv

\* A step that takes nothing more of any block, and rolls nothing back.
TakesNoMore ==
    /\ UNCHANGED <<chainVars, blocks, backedUp>>
    /\ flag' \in {flag, None}
    /\ fpc' = "persist" => entry' = Len(blocks)
    /\ \A m \in 2..MaxHeight : IsTaken(m)' => IsTaken(m)
    /\ \A i \in DOMAIN flows' :
           flows'[i].status = "fallback" => i \in DOMAIN flows /\ flows'[i] = flows[i]

LEMMA RollbackRest ==
    ASSUME RollbackInv, TypeInv', TakesNoMore
    PROVE  RollbackInv'
<1>1. /\ UNCHANGED <<chain, branch, blocks, backedUp>> /\ Height' = Height
      /\ \A n : HashAt(n)' = HashAt(n)
  BY DEF TakesNoMore, chainVars, Height, HashAt
<1>2. FlagIsFinal'
  <2> SUFFICES ASSUME flag' # None PROVE FlagIsFinal'
    BY DEF FlagIsFinal
  <2>1. flag' = flag
    BY DEF TakesNoMore
  <2> QED BY <1>1, <2>1 DEF RollbackInv, FlagIsFinal, HashAt
<1>3. EntryIsNewest'
  BY <1>1 DEF TakesNoMore, EntryIsNewest
<1>4. TakenHasParent'
  <2> SUFFICES ASSUME NEW m \in 2..MaxHeight, IsTaken(m)', m - 1 \notin backedUp
               PROVE  HasParent(m)'
    BY <1>1 DEF TakenHasParent
  <2>1. HasParent(m)
    BY DEF TakesNoMore, RollbackInv, TakenHasParent
  <2> QED BY <1>1, <2>1 DEF HasParent
<1>5. MarkedIsBackedUp'
  BY <1>1 DEF TakesNoMore, RollbackInv, MarkedIsBackedUp
<1> QED
  BY <1>2, <1>3, <1>4, <1>5 DEF RollbackInv

\* Rows that are added are of the height of the batch, and not marked.
LEMMA RecordsTakeNoMore ==
    ASSUME TypeInv, NEW b \in Business, finder = "record", Recorded(b), NEW m \in 2..MaxHeight,
           \E i \in DOMAIN flows' : flows'[i].number = m
    PROVE  IsTaken(m)
<1> DEFINE s == Of(b, inHand)
<1>1. inHand \in BatchOf /\ inHand # None /\ flows \in Seq(Row)
  BY DEF TypeInv, FinderPart, FlowsPart
<1>2. s \in Seq(Minable) /\ flows' = flows \o NewRows(s)
  BY <1>1, OfTyped DEF Recorded
<1> HIDE DEF s
<1>3. /\ \A i \in DOMAIN flows : flows'[i] = flows[i]
      /\ \A i \in DOMAIN flows' : i \notin DOMAIN flows => flows'[i].number = inHand.number
  BY <1>1, <1>2, AddedRows
<1> QED
  BY <1>1, <1>3 DEF IsTaken

LEMMA RecordsMarkNone ==
    ASSUME TypeInv, NEW b \in Business, finder = "record", Recorded(b), NEW i \in DOMAIN flows',
           flows'[i].status = "fallback"
    PROVE  i \in DOMAIN flows /\ flows'[i] = flows[i]
<1> DEFINE s == Of(b, inHand)
<1>1. inHand \in BatchOf /\ flows \in Seq(Row)
  BY DEF TypeInv, FinderPart, FlowsPart
<1>2. s \in Seq(Minable) /\ flows' = flows \o NewRows(s)
  BY <1>1, OfTyped DEF Recorded
<1> HIDE DEF s
<1>3. /\ \A j \in DOMAIN flows : flows'[j] = flows[j]
      /\ \A j \in DOMAIN flows' : j \notin DOMAIN flows => flows'[j].status = "success"
  BY <1>1, <1>2, AddedRows
<1> QED
  BY <1>3

LEMMA RecordTakesNoMore == RollbackInv /\ RecordStep => TakesNoMore
<1> SUFFICES ASSUME RollbackInv, NEW b \in Business, HandleBatch(b) \/ HandleBatchFails(b)
             PROVE  TakesNoMore
  BY DEF RecordStep
<1>1. /\ UNCHANGED <<chainVars, scanVars, fallbackVars>> /\ finder = "record"
      /\ inHand' \in {inHand, None}
      /\ Recorded(b) \/ UNCHANGED tables
  BY DEF HandleBatch, HandleBatchFails, BusinessDone, FinderDies
<1>2. UNCHANGED <<blocks, backedUp, flag, ready, fpc, entry>>
  BY <1>1 DEF scanVars, fallbackVars
<1>3. ASSUME NEW m \in 2..MaxHeight, IsTaken(m)' PROVE IsTaken(m)
  <2>1. CASE \E i \in DOMAIN flows' : flows'[i].number = m
    <3>1. CASE Recorded(b)
      BY <1>1, <2>1, <3>1, RecordsTakeNoMore DEF RollbackInv
    <3>2. CASE UNCHANGED tables
      BY <2>1, <3>2 DEF tables, IsTaken
    <3> QED BY <1>1, <3>1, <3>2
  <2>2. CASE ~\E i \in DOMAIN flows' : flows'[i].number = m
    BY <1>1, <1>2, <1>3, <2>2 DEF IsTaken
  <2> QED BY <2>1, <2>2
<1>4. ASSUME NEW i \in DOMAIN flows', flows'[i].status = "fallback"
      PROVE  i \in DOMAIN flows /\ flows'[i] = flows[i]
  <2>1. CASE Recorded(b)
    BY <1>1, <1>4, <2>1, RecordsMarkNone DEF RollbackInv
  <2>2. CASE UNCHANGED tables
    BY <1>4, <2>2 DEF tables
  <2> QED BY <1>1, <2>1, <2>2
<1>5. fpc' = "persist" => entry' = Len(blocks)
  BY <1>2 DEF RollbackInv, EntryIsNewest
<1> QED
  BY <1>1, <1>2, <1>3, <1>4, <1>5 DEF TakesNoMore

\* The rows to revert are those of the newest stored block and the one after it.
LEMMA EntryOfFlag ==
    ASSUME RollbackInv, flag # None
    PROVE  Entry = Len(blocks)
<1>1. /\ flag.number = Len(blocks) + 1 /\ flag.parent = HashAt(Len(blocks))
      /\ Len(blocks) \in Nat
  BY TakenHeights DEF RollbackInv, FlagIsFinal
<1>2. flag.number - 1 = Len(blocks)
  BY <1>1
<1> QED
  BY <1>1, <1>2 DEF Entry

LEMMA ReadTakesNoMore == RollbackInv /\ ReadFallbackRows => TakesNoMore
<1> SUFFICES ASSUME RollbackInv, ReadFallbackRows PROVE TakesNoMore
  OBVIOUS
<1>1. /\ UNCHANGED <<chainVars, scanVars, finderVars, tables>>
      /\ entry' = Entry /\ flag # None
  BY DEF ReadFallbackRows
<1>2. entry' = Len(blocks)
  BY <1>1, EntryOfFlag
<1> QED
  BY <1>1, <1>2 DEF TakesNoMore, IsTaken, scanVars, finderVars, tables

LEMMA OthersTakeNoMore ==
    ASSUME RollbackInv,
           \/ FinderReceive \/ ConfirmStep \/ ConfirmTickFails \/ PersistFails \/ NotifierStep
           \/ Crash \/ UNCHANGED vars
    PROVE  TakesNoMore
<1>1. UNCHANGED <<chainVars, blocks, backedUp, flows>> /\ flag' \in {flag, None}
  <2>1. CASE FinderReceive \/ ConfirmStep \/ ConfirmTickFails
    BY <2>1 DEF FinderReceive, ConfirmStep, ConfirmTick, ConfirmRead, ConfirmSave,
       ConfirmTickFails, scanVars, tables
  <2>2. CASE PersistFails \/ Crash
    BY <2>2 DEF PersistFails, Crash, EndFallback, tables
  <2>3. CASE NotifierStep \/ UNCHANGED vars
    BY <2>3 DEF NotifierStep, NotifierTick, Post, AfterNotify, vars, scanVars, tables
  <2> QED BY <2>1, <2>2, <2>3
<1>2. fpc' = "wait" \/ UNCHANGED <<fpc, entry>>
  BY DEF FinderReceive, ConfirmStep, ConfirmTick, ConfirmRead, ConfirmSave, ConfirmTickFails,
     PersistFails, EndFallback, Crash, NotifierStep, NotifierTick, Post, AfterNotify, vars,
     fallbackVars
<1>3. \/ ready' = None /\ inHand' \in {ready, None}
      \/ ready' = ready /\ inHand' \in {inHand, None}
  BY DEF FinderReceive, ConfirmStep, ConfirmTick, ConfirmRead, ConfirmSave, ConfirmTickFails,
     FinderDies, PersistFails, Crash, NotifierStep, NotifierTick, Post, AfterNotify, vars,
     scanVars, finderVars
<1> QED
  BY <1>1, <1>2, <1>3 DEF TakesNoMore, IsTaken, RollbackInv, EntryIsNewest

\* What a fallback marks: rows of the range, one at least of each business at each
\* height it reaches.
MarksPlaces(places, rows, lo, hi) ==
    /\ \A i \in places : i \in DOMAIN rows /\ rows[i].number \in lo..hi
    /\ \A b \in Business, n \in lo..hi :
           n \in Reached(rows, b, lo, hi)
               => \E i \in places : rows[i].transfer.business = b /\ rows[i].number = n

LEMMA FallBackPlaces ==
    ASSUME NEW rows, NEW lo, NEW hi, NEW new \in FallBackRows(rows, lo, hi)
    PROVE  \E places : new = Marked(rows, places, "fallback") /\ MarksPlaces(places, rows, lo, hi)
<1> DEFINE Spots == {spot \in Business \X (lo..hi) : spot[2] \in Reached(rows, spot[1], lo, hi)}
           Fits(spot, i) == rows[i].transfer.business = spot[1] /\ rows[i].number = spot[2]
<1>1. PICK pick \in [Spots -> DOMAIN rows] :
          /\ \A spot \in Spots : Fits(spot, pick[spot])
          /\ new = Marked(rows, {pick[spot] : spot \in Spots}, "fallback")
  BY DEF FallBackRows
<1> DEFINE places == {pick[spot] : spot \in Spots}
<1>2. ASSUME NEW i \in places PROVE i \in DOMAIN rows /\ rows[i].number \in lo..hi
  <2>1. PICK spot \in Spots : i = pick[spot]
    OBVIOUS
  <2>2. spot[2] \in lo..hi /\ rows[i].number = spot[2] /\ i \in DOMAIN rows
    BY <1>1, <2>1
  <2> QED BY <2>2
<1>3. ASSUME NEW b \in Business, NEW n \in lo..hi, n \in Reached(rows, b, lo, hi)
      PROVE  \E i \in places : rows[i].transfer.business = b /\ rows[i].number = n
  <2>1. <<b, n>> \in Spots
    BY <1>3
  <2>2. Fits(<<b, n>>, pick[<<b, n>>]) /\ pick[<<b, n>>] \in places
    BY <1>1, <2>1
  <2> HIDE DEF Spots, places
  <2> QED BY <2>2
<1> QED
  BY <1>1, <1>2, <1>3 DEF MarksPlaces

\* A rollback that its backup does not stop: it is of the newest stored block, no
\* row is of the block after it, and none of the block has been marked.
LEMMA PersistFacts ==
    ASSUME RollbackInv, fpc = "persist", BackupFits
    PROVE  /\ Len(blocks) \in Nat /\ Len(blocks) > 0
           /\ entry = Len(blocks) /\ flag.number = Len(blocks) + 1
           /\ Len(blocks) \notin backedUp
           /\ ~IsTaken(Len(blocks) + 1)
           /\ \A i \in DOMAIN flows :
                  /\ flows[i].number # Len(blocks) + 1
                  /\ flows[i].number = Len(blocks) => flows[i].status = "success"
<1> DEFINE k == Len(blocks)
<1>1. /\ flag # None /\ entry = k /\ k \in Nat /\ flag.number \in 2..MaxHeight
      /\ \A i \in DOMAIN flows : flows[i].number \in 2..MaxHeight /\ IsTaken(flows[i].number)
      /\ \A i \in DOMAIN flows : flows[i].status \in {"success", "fallback"}
  BY TakenHeights DEF RollbackInv, EntryIsNewest, TypeInv, RollbackPart, ScanPart, FlowsPart
<1>2. flag.number = k + 1 /\ blocks[k] # HashAt(k)
  BY <1>1 DEF RollbackInv, FlagIsFinal
<1>3. k > 0 /\ k \in k..((k + 1) - 1) /\ k + 1 \in 2..MaxHeight /\ (k + 1) - 1 = k
  BY <1>1, <1>2, Bounds
<1>4. k \notin backedUp
  BY <1>1, <1>2, <1>3 DEF BackupFits
<1>5. ~IsTaken(k + 1)
  <2> SUFFICES ASSUME IsTaken(k + 1) PROVE FALSE
    OBVIOUS
  <2>1. HasParent(k + 1)
    BY <1>3, <1>4 DEF RollbackInv, TakenHasParent
  <2>2. blocks[k] = HashAt(k)
    BY <1>3, <2>1 DEF HasParent
  <2> QED BY <1>2, <2>2
<1>6. ASSUME NEW i \in DOMAIN flows, flows[i].number = k
      PROVE  flows[i].status = "success"
  BY <1>1, <1>4, <1>6 DEF RollbackInv, MarkedIsBackedUp
<1> QED
  BY <1>1, <1>2, <1>3, <1>4, <1>5, <1>6

LEMMA RollbackPersist == RollbackInv /\ PersistFallback => RollbackInv'
<1> SUFFICES ASSUME RollbackInv, PersistFallback PROVE RollbackInv'
  OBVIOUS
<1>1. PICK k \in Nat : k = Len(blocks)
  BY TakenHeights DEF RollbackInv
<1>2. /\ k > 0 /\ entry = k /\ flag.number = k + 1
      /\ \A i \in DOMAIN flows : flows[i].number # k + 1
  BY <1>1, PersistFacts DEF PersistFallback
<1>3. /\ UNCHANGED <<chainVars, ready, inHand>> /\ flag' = None /\ fpc' = "wait"
      /\ blocks' = SubSeq(blocks, 1, k - 1) /\ backedUp' = backedUp \union {k}
  <2>1. k..((k + 1) - 1) = {k}
    OBVIOUS
  <2> QED BY <1>2, <2>1 DEF PersistFallback, EndFallback, finderVars
<1>4. PICK places : /\ flows' = Marked(flows, places, "fallback")
                    /\ MarksPlaces(places, flows, k, k + 1)
  BY <1>2, FallBackPlaces DEF PersistFallback, FallBackMarks
<1>5. /\ DOMAIN flows' = DOMAIN flows
      /\ \A i \in DOMAIN flows :
             /\ flows'[i].number = flows[i].number
             /\ flows'[i].status = IF i \in places THEN "fallback" ELSE flows[i].status
  BY <1>4, MarkedRows DEF RollbackInv, TypeInv, FlowsPart, Status
<1>6. TypeInv'
  BY TypePersistFallback DEF RollbackInv
<1>7. FlagIsFinal' /\ EntryIsNewest'
  BY <1>3 DEF FlagIsFinal, EntryIsNewest
<1>8. TakenHasParent'
  <2> SUFFICES ASSUME NEW m \in 2..MaxHeight, IsTaken(m)', m - 1 \notin backedUp'
               PROVE  HasParent(m)'
    BY DEF TakenHasParent
  <2>1. IsTaken(m)
    BY <1>3, <1>5 DEF IsTaken
  <2>2. HasParent(m) /\ m - 1 # k
    BY <1>3, <2>1 DEF RollbackInv, TakenHasParent
  <2>3. m - 1 \in 1..(k - 1) /\ m + Confirmations <= Height
    BY <1>1, <2>2 DEF HasParent
  <2>4. Len(blocks') = k - 1 /\ blocks'[m - 1] = blocks[m - 1]
    <3>1. blocks \in Seq(DOMAIN Content)
      BY DEF RollbackInv, TypeInv, ScanPart
    <3>2. \A S : \A s \in Seq(S) : \A n \in 0..Len(s) :
              /\ Len(SubSeq(s, 1, n)) = n
              /\ \A j \in 1..n : SubSeq(s, 1, n)[j] = s[j]
      OBVIOUS
    <3>3. k - 1 \in 0..Len(blocks)
      BY <1>1, <1>2
    <3> QED BY <1>3, <2>3, <3>1, <3>2, <3>3
  <2>5. Height' = Height /\ HashAt(m - 1)' = HashAt(m - 1)
    BY <1>3 DEF chainVars, Height, HashAt
  <2> QED BY <2>2, <2>3, <2>4, <2>5 DEF HasParent
<1>9. MarkedIsBackedUp'
  <2> SUFFICES ASSUME NEW i \in DOMAIN flows, flows'[i].status = "fallback"
               PROVE  flows[i].number \in backedUp \union {k}
    BY <1>3, <1>5 DEF MarkedIsBackedUp
  <2>1. CASE i \in places
    <3>1. flows[i].number \in k..(k + 1) /\ flows[i].number # k + 1
      BY <1>2, <1>4, <2>1 DEF MarksPlaces
    <3> QED BY <3>1
  <2>2. CASE i \notin places
    BY <1>5, <2>2 DEF RollbackInv, MarkedIsBackedUp
  <2> QED BY <2>1, <2>2
<1> QED
  BY <1>6, <1>7, <1>8, <1>9 DEF RollbackInv

LEMMA RollbackStep == ShallowReorgs /\ RollbackInv /\ [Next]_vars => RollbackInv'
<1> SUFFICES ASSUME ShallowReorgs, RollbackInv, [Next]_vars PROVE RollbackInv'
  OBVIOUS
<1>1. TypeInv'
  BY TypeStep DEF RollbackInv
<1>2. CASE ChainStep
  BY <1>2, RollbackChainStep
<1>3. CASE ScanStep
  BY <1>3, RollbackScanBlock, RollbackFlagReorg DEF ScanStep
<1>4. CASE FinderStep
  BY <1>1, <1>4, RecordTakesNoMore, OthersTakeNoMore, RollbackRest DEF FinderStep
<1>5. CASE FallbackStep
  BY <1>1, <1>5, ReadTakesNoMore, RollbackPersist, OthersTakeNoMore, RollbackRest DEF FallbackStep
<1>6. CASE ConfirmTickFails \/ NotifierStep \/ Crash \/ UNCHANGED vars
  BY <1>1, <1>6, OthersTakeNoMore, RollbackRest
<1> QED
  BY <1>2, <1>3, <1>4, <1>5, <1>6 DEF Next

\* The list of rows to revert is applied to the tables of all businesses: only
\* with one business is what it reverts its own.
OneBusiness == \A b, c \in Business : b = c

\* What a quiet rollback marks is what it reverts: one transfer, or none.
LEMMA QuietMarks ==
    ASSUME OneBusiness, RollbackInv, QuietRollback, PersistFallback
    PROVE  \E places : /\ flows' = Marked(flows, places, "fallback")
                       /\ places \subseteq DOMAIN flows
                       /\ \A i \in places : flows[i].status = "success"
                       /\ \/ undo = <<>> /\ places = {}
                          \/ Len(undo) = 1 /\ places = {undo[1]}
<1>1. PICK k \in Nat : k = Len(blocks)
  BY TakenHeights DEF RollbackInv
<1>2. /\ entry = k /\ flag.number = k + 1
      /\ \A i \in DOMAIN flows : /\ flows[i].number # k + 1
                                 /\ flows[i].number = k => flows[i].status = "success"
  BY <1>1, PersistFacts DEF PersistFallback
<1>3. PICK places : /\ flows' = Marked(flows, places, "fallback")
                    /\ MarksPlaces(places, flows, k, k + 1)
  BY <1>2, FallBackPlaces DEF PersistFallback, FallBackMarks
<1>4. \A n : n \in k..(k + 1) <=> n = k \/ n = k + 1
  BY <1>1
<1>5. \A i \in DOMAIN flows : i \in ToSet(undo) <=> flows[i].number = k
  <2>1. ToSet(undo) = {i \in DOMAIN flows : flows[i].number \in k..(k + 1)
                                             /\ flows[i].status = "success"}
    BY <1>2 DEF QuietRollback, InRange
  <2> QED BY <1>2, <1>4, <2>1
<1>6. \A i \in places : i \in DOMAIN flows /\ flows[i].number = k /\ i \in ToSet(undo)
  BY <1>2, <1>3, <1>4, <1>5 DEF MarksPlaces
<1>7. undo \in Seq(Nat) /\ Len(undo) <= 1 /\ \A i \in DOMAIN undo : undo[i] \in DOMAIN flows
  BY DEF QuietRollback, RollbackInv, TypeInv, RollbackPart
<1>8. CASE Len(undo) = 0
  <2>1. undo = <<>>
    BY <1>7, <1>8
  <2>2. ToSet(undo) = {}
    BY <2>1 DEF ToSet
  <2> QED BY <1>3, <1>6, <2>1, <2>2
<1>9. CASE Len(undo) = 1
  <2> DEFINE i == undo[1]
  <2>1. DOMAIN undo = {1}
    BY <1>7, <1>9
  <2>2. i \in DOMAIN flows /\ ToSet(undo) = {i}
    BY <1>7, <2>1 DEF ToSet
  <2>3. flows[i].number = k /\ \A j \in DOMAIN flows : flows[j].number = k => j = i
    BY <1>5, <2>2
  <2>4. flows[i].transfer.business \in Business
    <3>1. flows[i].transfer \in Minable
      BY <2>2, TransfersOfRows DEF RollbackInv, TypeInv, FlowsPart, Row
    <3> QED BY <3>1, MinableIsTransfer
  <2>5. k \in k..(k + 1) /\ \A n \in k..k : n = k
    BY <1>1
  <2>6. k \in Reached(flows, flows[i].transfer.business, k, k + 1)
    BY <2>2, <2>3, <2>5 DEF Reached
  <2>7. \E j \in places : flows[j].number = k
    BY <1>3, <2>4, <2>5, <2>6 DEF MarksPlaces
  <2>8. places = {i}
    BY <1>6, <2>3, <2>7
  <2>9. flows[i].status = "success"
    BY <1>2, <2>2, <2>3
  <2> HIDE DEF i
  <2>10. places \subseteq DOMAIN flows /\ \A j \in places : flows[j].status = "success"
    BY <2>2, <2>8, <2>9
  <2> QED BY <1>3, <1>9, <2>8, <2>10 DEF i
<1>10. Len(undo) = 0 \/ Len(undo) = 1
  <2>1. PICK n \in Nat : n = Len(undo)
    BY <1>7
  <2>2. n <= 1
    BY <1>7, <2>1
  <2>3. n = 0 \/ n = 1
    BY <2>2
  <2> QED BY <2>1, <2>3
<1> QED
  BY <1>8, <1>9, <1>10

\* What it does to a balance.
LEMMA QuietReverts ==
    ASSUME RollbackInv, PersistFallback, NEW b \in Business, NEW a \in Account
    PROVE  /\ undo = <<>> => BalanceOf(balances'[b], a) = BalanceOf(balances[b], a)
           /\ Len(undo) = 1 =>
                  BalanceOf(balances'[b], a)
                      = BalanceOf(balances[b], a) - Promise!Effect(flows[undo[1]].transfer, a)
           /\ BalanceOf(balances[b], a) \in Nat
<1> DEFINE list == [i \in DOMAIN undo |-> flows[undo[i]].transfer]
<1>1. balances[b] \in Table /\ BalanceOf(balances[b], a) \in Nat
  BY BalanceIsNat DEF RollbackInv, TypeInv, BalancesPart
<1>2. balances'[b] = Reverted(b) /\ Reverted(b) # NoRow
  BY DEF PersistFallback
<1>3. Reverted(b) = UpdateFallBackBalance(balances[b], list)
  BY DEF Reverted
<1>4. /\ undo \in Seq(Nat) /\ \A i \in DOMAIN undo : undo[i] \in DOMAIN flows
      /\ flows \in Seq(Row)
  BY DEF RollbackInv, TypeInv, RollbackPart, FlowsPart
<1>5. CASE undo = <<>>
  <2>1. list = <<>>
    BY <1>5
  <2>2. Reverted(b) = balances[b]
    BY <1>3, <2>1 DEF UpdateFallBackBalance
  <2>3. ~(Len(undo) = 1)
    BY <1>5
  <2> QED BY <1>1, <1>2, <2>2, <2>3
<1>6. CASE undo # <<>>
  <2> DEFINE t == flows[undo[1]].transfer
  <2>1. undo[1] \in DOMAIN flows /\ 1 \in DOMAIN undo
    BY <1>4, <1>6
  <2>2. t \in Minable
    BY <1>4, <2>1, TransfersOfRows DEF Row
  <2>3. list # <<>> /\ Head(list) = t
    <3>1. list[1] = t /\ list \in [1..Len(undo) -> {flows[undo[i]].transfer : i \in DOMAIN undo}]
      BY <1>4, <2>1
    <3>2. Len(undo) \in Nat /\ Len(undo) > 0
      BY <1>4, <1>6
    <3>3. \A S, N : N \in Nat /\ N > 0 => \A f \in [1..N -> S] : f # <<>> /\ Head(f) = f[1]
      OBVIOUS
    <3> QED BY <3>1, <3>2, <3>3
  <2> HIDE DEF t, list
  <2>4. Reverted(b) = Perform(balances[b], Reversal(t))
    BY <1>3, <2>3 DEF UpdateFallBackBalance
  <2>5. Outcome(Reverted(b), balances[b], [c \in Account |-> -Promise!Effect(t, c)])
    BY <1>1, <2>2, <2>4, ReversalOutcome DEF MayBeTable
  <2>6. BalanceOf(Reverted(b), a) = BalanceOf(balances[b], a) + (-Promise!Effect(t, a))
    BY <1>2, <2>5 DEF Outcome
  <2>7. Promise!Effect(t, a) \in Int
    BY <2>2, EffectOfOne
  <2>8. BalanceOf(Reverted(b), a) = BalanceOf(balances[b], a) - Promise!Effect(t, a)
    BY <1>1, <2>6, <2>7
  <2> QED BY <1>1, <1>2, <1>6, <2>8 DEF t
<1> QED
  BY <1>5, <1>6

LEMMA QuietKeepsBooks ==
    ASSUME OneBusiness, RollbackInv, QuietRollback, PersistFallback, BalancesMatchFlow
    PROVE  BalancesMatchFlow'
<1> SUFFICES ASSUME NEW b \in Business, NEW a \in Account
             PROVE  BalanceOf(balances'[b], a)
                        = Promise!EffectOfAll(Picked(Transfers(flows'), Live(flows', b)), a)
  BY DEF BalancesMatchFlow, BalanceOf, Promise!EffectOfAll, Promise!Effect
<1> DEFINE s == Transfers(flows)
           live == Live(flows, b)
<1>1. BalanceOf(balances[b], a) = Promise!EffectOfAll(Picked(s, live), a)
  BY DEF BalancesMatchFlow
<1>2. PICK places : /\ flows' = Marked(flows, places, "fallback")
                    /\ places \subseteq DOMAIN flows
                    /\ \A i \in places : flows[i].status = "success"
                    /\ \/ undo = <<>> /\ places = {}
                       \/ Len(undo) = 1 /\ places = {undo[1]}
  BY QuietMarks
<1>3. flows \in Seq(Row)
  BY DEF RollbackInv, TypeInv, FlowsPart
<1>4. /\ s \in Seq(Minable) /\ Len(s) = Len(flows) /\ DOMAIN flows = 1..Len(flows)
      /\ \A i \in 1..Len(flows) : flows[i] \in Row /\ s[i] = flows[i].transfer
  BY <1>3, TransfersOfRows
<1>5. /\ Transfers(flows') = s /\ DOMAIN flows' = DOMAIN flows
      /\ \A i \in DOMAIN flows :
             /\ flows'[i].transfer = flows[i].transfer
             /\ flows'[i].status = IF i \in places THEN "fallback" ELSE flows[i].status
  BY <1>2, <1>3, MarkedRows DEF Status
<1>6. Live(flows', b) = live \ places
  BY <1>5 DEF Live
<1>7. places \subseteq live
  <2>1. ASSUME NEW i \in places PROVE i \in live
    <3>1. i \in DOMAIN flows /\ flows[i].transfer \in Minable
      BY <1>2, <1>4 DEF Row
    <3>2. flows[i].transfer.business = b
      BY <3>1, MinableIsTransfer DEF OneBusiness
    <3> QED BY <1>2, <3>1, <3>2 DEF Live
  <2> QED BY <2>1
<1> HIDE DEF s, live
<1>8. CASE undo = <<>> /\ places = {}
  <2>1. Live(flows', b) = live
    BY <1>6, <1>8
  <2> QED BY <1>1, <1>5, <1>8, <2>1, QuietReverts
<1>9. CASE Len(undo) = 1 /\ places = {undo[1]}
  <2>1. PICK i \in 1..Len(s) : places = {i} /\ undo[1] = i /\ i \in live
    BY <1>2, <1>4, <1>7, <1>9
  <2>2. Promise!EffectOfAll(Picked(s, live), a)
            = Promise!EffectOfAll(Picked(s, live \ {i}), a) + Promise!Effect(s[i], a)
    BY <1>4, <2>1, EffectWithout
  <2>3. BalanceOf(balances'[b], a) = BalanceOf(balances[b], a) - Promise!Effect(s[i], a)
    BY <1>4, <1>9, <2>1, QuietReverts
  <2>4. Promise!EffectOfAll(Picked(s, live \ {i}), a) \in Int /\ Promise!Effect(s[i], a) \in Int
    <3>1. Picked(s, live \ {i}) \in Seq(Minable) /\ s[i] \in Minable
      BY <1>4, <2>1, PickedIsSeq
    <3> QED BY <3>1, EffectIsInt, EffectOfOne
  <2>5. BalanceOf(balances'[b], a) = Promise!EffectOfAll(Picked(s, live \ {i}), a)
    BY <1>1, <2>2, <2>3, <2>4
  <2>6. Live(flows', b) = live \ {i}
    BY <1>6, <2>1
  <2> QED BY <1>5, <2>5, <2>6
<1> QED
  BY <1>2, <1>8, <1>9

\* Of one business, a rollback of the newest stored block that reverts all it has
\* read, one transfer at most, leaves every balance what the unmarked flow adds up
\* to, whatever the Finder has recorded late or the chain has done since the flag.
THEOREM ShallowRollbacksKeepBooks ==
    OneBusiness /\ ShallowReorgs /\ Spec => RollbackKeepsBooks
<1>1. CASE OneBusiness /\ ShallowReorgs
  <2>1. Init => RollbackInv
    BY RollbackInit
  <2>2. RollbackInv /\ [Next]_vars => RollbackInv'
    BY <1>1, RollbackStep
  <2>3. RollbackInv /\ [Next]_vars
            => [QuietRollback /\ BalancesMatchFlow => BalancesMatchFlow']_vars
    <3> SUFFICES ASSUME RollbackInv, Next, QuietRollback, BalancesMatchFlow
                 PROVE  BalancesMatchFlow'
      OBVIOUS
    <3>1. CASE PersistFallback
      BY <1>1, <3>1, QuietKeepsBooks
    <3>2. CASE PersistFails \/ Crash
      <4>1. UNCHANGED <<flows, balances>>
        BY <3>2 DEF PersistFails, Crash, tables
      <4> SUFFICES ASSUME NEW b \in Business, NEW a \in Account
                   PROVE  BalanceOf(balances'[b], a)
                              = Promise!EffectOfAll(Picked(Transfers(flows'), Live(flows', b)), a)
        BY DEF BalancesMatchFlow, BalanceOf, Promise!EffectOfAll, Promise!Effect
      <4> QED BY <4>1 DEF BalancesMatchFlow
    <3>3. fpc = "persist" /\ fpc' = "wait"
      BY DEF QuietRollback
    <3>4. PersistFallback \/ PersistFails \/ Crash
      BY <3>3 DEF Next, ChainStep, ScanStep, ScanBlock, FlagReorg, FinderStep, FinderReceive,
         RecordStep, HandleBatch, HandleBatchFails, ConfirmStep, ConfirmTick, ConfirmRead,
         ConfirmSave, ConfirmTickFails, FallbackStep, ReadFallbackRows, NotifierStep,
         NotifierTick, Post, AfterNotify, fallbackVars
    <3> QED BY <3>1, <3>2, <3>4
  <2> QED BY <2>1, <2>2, <2>3, PTL DEF Spec, RollbackKeepsBooks
<1> QED
  BY <1>1

-----------------------------------------------------------------------------
(***************************************************************************)
(* A rollback is complete when no block has two transfers of one business. *)
(***************************************************************************)

HasOneEach(list) ==
    \A i, j \in DOMAIN list : list[i].business = list[j].business => i = j

OneTransferEach == \A hash \in DOMAIN Content : HasOneEach(Content[hash])

\* Of a height that has not been rolled back, the flow has one row of a business.
RowsAreSole ==
    \A i, j \in DOMAIN flows :
        /\ flows[i].number = flows[j].number
        /\ flows[i].transfer.business = flows[j].transfer.business
        => i = j \/ flows[i].number \in backedUp

\* Of the batch that waits nothing is recorded, of the one in hand nothing that is
\* still to do, unless their heights have been rolled back.
ReadyIsNew ==
    ready # None =>
        /\ HasOneEach(ready.transfers)
        /\ \/ ready.number \in backedUp
           \/ /\ \A i \in DOMAIN flows : flows[i].number # ready.number
              /\ inHand # None => inHand.number # ready.number

InHandIsNew ==
    inHand # None =>
        /\ HasOneEach(inHand.transfers)
        /\ \/ inHand.number \in backedUp
           \/ \A i \in DOMAIN flows :
                  flows[i].number = inHand.number => flows[i].transfer.business \notin todo

TakenIsStored == \A m \in 2..MaxHeight : IsTaken(m) => m \in backedUp \/ m <= Len(blocks)

\* What is going to be reverted is of the newest stored block, or above it.
UndoIsNewest ==
    fpc = "persist" =>
        \A i \in DOMAIN undo : flows[undo[i]].number \in {Len(blocks), Len(blocks) + 1}

SoleInv == RowsAreSole /\ ReadyIsNew /\ InHandIsNew /\ TakenIsStored /\ UndoIsNewest

\* Items picked from a list with one of each business.
LEMMA PickedHasOneEach ==
    ASSUME NEW s \in Seq(Minable), NEW places, HasOneEach(s)
    PROVE  HasOneEach(Picked(s, places))
<1> DEFINE p == Picked(s, places)
<1>1. p \in Seq(Minable) /\ DOMAIN s = 1..Len(s)
  BY PickedIsSeq
<1>2. PICK h : Places(h, p, s, places, Len(s))
  BY PickedPlaces
<1>3. DOMAIN p = 1..Len(p)
  BY <1>1
<1> HIDE DEF p
<1>4. ASSUME NEW k \in 1..Len(p), NEW l \in 1..Len(p), p[k].business = p[l].business
      PROVE  k = l
  <2>1. /\ h[k] \in DOMAIN s /\ h[l] \in DOMAIN s /\ p[k] = s[h[k]] /\ p[l] = s[h[l]]
        /\ h[k] = h[l] => k = l
    BY <1>1, <1>2 DEF Places
  <2> QED BY <1>4, <2>1 DEF HasOneEach
<1> QED
  BY <1>3, <1>4 DEF p, HasOneEach

LEMMA BatchHasOneEach ==
    ASSUME OneTransferEach, ChainPart, NEW n \in 0..Height
    PROVE  HasOneEach(Batch(n).transfers)
<1>1. HashAt(n) \in DOMAIN Content
  BY HashKnown
<1>2. Content[HashAt(n)] \in Seq(Minable) /\ HasOneEach(Content[HashAt(n)])
  BY <1>1, LedgerAssumption DEF OneTransferEach
<1> QED
  BY <1>2, PickedHasOneEach DEF Batch, TransfersAt

\* So a business has one transfer of the batch at most.
LEMMA OfHasOne ==
    ASSUME NEW batch \in BatchOf, HasOneEach(batch.transfers), NEW b
    PROVE  \A i, j \in 1..Len(Of(b, batch)) : i = j
<1> DEFINE s == Of(b, batch)
<1>1. s \in Seq(Minable) /\ \A i \in 1..Len(s) : s[i].business = b
  BY OfTyped
<1>2. HasOneEach(s)
  <2>1. batch.transfers \in Seq(Minable)
    BY DEF BatchOf
  <2> QED BY <2>1, PickedHasOneEach DEF Of, OfBusiness
<1> HIDE DEF s
<1>3. \A i, j \in 1..Len(s) : i = j
  BY <1>1, <1>2 DEF HasOneEach
<1> QED
  BY <1>3 DEF s

LEMMA SoleInit == Init => SoleInv
<1> SUFFICES ASSUME Init PROVE SoleInv
  OBVIOUS
<1> QED
  BY DEF Init, SoleInv, RowsAreSole, ReadyIsNew, InHandIsNew, TakenIsStored, IsTaken, UndoIsNewest

\* A step that records nothing and rolls nothing back.
RecordsNone ==
    /\ UNCHANGED <<blocks, backedUp, flows>>
    /\ \/ ready' = ready
       \/ ready' = None
    /\ \/ inHand' = None
       \/ inHand' = inHand /\ todo' \subseteq todo
    /\ fpc' = "persist" => fpc = "persist" /\ undo' = undo

LEMMA SoleRest == SoleInv /\ RecordsNone => SoleInv'
<1> SUFFICES ASSUME SoleInv, RecordsNone PROVE SoleInv'
  OBVIOUS
<1>1. UNCHANGED <<blocks, backedUp, flows>>
  BY DEF RecordsNone
<1>2. RowsAreSole'
  BY <1>1 DEF SoleInv, RowsAreSole
<1>3. ReadyIsNew' /\ InHandIsNew'
  BY <1>1 DEF SoleInv, RecordsNone, ReadyIsNew, InHandIsNew
<1>4. TakenIsStored'
  BY <1>1 DEF SoleInv, RecordsNone, TakenIsStored, IsTaken
<1>5. UndoIsNewest'
  BY <1>1 DEF SoleInv, RecordsNone, UndoIsNewest
<1> QED
  BY <1>2, <1>3, <1>4, <1>5 DEF SoleInv

LEMMA OthersRecordNone ==
    ASSUME TypeInv,
           \/ ChainStep \/ FlagReorg \/ ConfirmStep \/ ConfirmTickFails \/ PersistFails
           \/ NotifierStep \/ Crash \/ UNCHANGED vars
    PROVE  RecordsNone
<1>1. finder # "record" <=> inHand = None
  BY DEF TypeInv, FinderPart
<1>2. CASE ChainStep \/ FlagReorg \/ UNCHANGED vars
  BY <1>2 DEF ChainStep, FlagReorg, vars, RecordsNone, scanVars, finderVars, tables, fallbackVars
<1>3. CASE ConfirmStep \/ ConfirmTickFails
  BY <1>1, <1>3 DEF ConfirmStep, ConfirmTick, ConfirmRead, ConfirmSave, ConfirmTickFails,
     FinderDies, RecordsNone, scanVars, tables, fallbackVars
<1>4. CASE PersistFails \/ Crash
  BY <1>4 DEF PersistFails, Crash, EndFallback, RecordsNone, finderVars, tables
<1>5. CASE NotifierStep
  BY <1>5 DEF NotifierStep, NotifierTick, Post, AfterNotify, RecordsNone, scanVars, finderVars,
     tables, fallbackVars
<1> QED
  BY <1>2, <1>3, <1>4, <1>5

LEMMA SoleScanBlock == OneTransferEach /\ RollbackInv /\ SoleInv /\ ScanBlock => SoleInv'
<1> SUFFICES ASSUME OneTransferEach, RollbackInv, SoleInv, ScanBlock PROVE SoleInv'
  OBVIOUS
<1>1. PICK k \in Nat : k = Len(blocks)
  BY TakenHeights DEF RollbackInv
<1>2. /\ k + 1 \in 2..MaxHeight /\ k + 1 \in 0..Height
      /\ blocks \in Seq(DOMAIN Content) /\ NextHeader.hash \in DOMAIN Content
      /\ NextHeader.number = k + 1 /\ NextHeader.parent = HashAt(k)
  BY <1>1, NextHeaderKnown DEF RollbackInv, ScanBlock
<1>3. /\ Len(blocks') = k + 1 /\ UNCHANGED <<backedUp, flag, inHand, todo, flows, fpc, undo>>
      /\ ready' \in {None, Batch(k + 1)}
  BY <1>1, <1>2, AppendProperties DEF ScanBlock, finderVars, tables, fallbackVars
<1>4. k + 1 \in backedUp \/ ~IsTaken(k + 1)
  <2>1. ~(k + 1 <= k)
    OBVIOUS
  <2> QED BY <1>1, <1>2, <2>1 DEF SoleInv, TakenIsStored
<1>5. HasOneEach(Batch(k + 1).transfers) /\ Batch(k + 1).number = k + 1
  BY <1>2, BatchHasOneEach DEF RollbackInv, TypeInv, Batch
<1>6. ReadyIsNew'
  BY <1>3, <1>4, <1>5 DEF ReadyIsNew, IsTaken
<1>7. RowsAreSole' /\ InHandIsNew'
  BY <1>3 DEF SoleInv, RowsAreSole, InHandIsNew
<1>8. TakenIsStored'
  <2> SUFFICES ASSUME NEW m \in 2..MaxHeight, IsTaken(m)', m \notin backedUp
               PROVE  m <= k + 1
    BY <1>3 DEF TakenIsStored
  <2>1. CASE IsTaken(m)
    <3>1. m <= k /\ m \in Nat
      BY <1>1, <2>1, Bounds DEF SoleInv, TakenIsStored
    <3> QED BY <3>1
  <2>2. CASE ~IsTaken(m)
    <3>1. m = k + 1
      BY <1>3, <1>5, <2>2 DEF IsTaken
    <3> QED BY <3>1
  <2> QED BY <2>1, <2>2
<1>9. UndoIsNewest'
  <2>1. blocks[k] = HashAt(k)
    BY <1>1, <1>2 DEF ScanBlock, IsLinked
  <2>2. flag = None
    BY <1>1, <2>1 DEF RollbackInv, FlagIsFinal
  <2>3. fpc # "persist"
    BY <2>2 DEF RollbackInv, TypeInv, RollbackPart
  <2> QED BY <1>3, <2>3 DEF UndoIsNewest
<1> QED
  BY <1>6, <1>7, <1>8, <1>9 DEF SoleInv

LEMMA SoleReceive == TypeInv /\ SoleInv /\ FinderReceive => SoleInv'
<1> SUFFICES ASSUME TypeInv, SoleInv, FinderReceive PROVE SoleInv'
  OBVIOUS
<1>1. /\ UNCHANGED <<blocks, backedUp, flows, fpc, undo>>
      /\ ready # None /\ ready' = None /\ inHand' = ready
  BY DEF FinderReceive, tables, fallbackVars
<1>2. RowsAreSole' /\ UndoIsNewest'
  BY <1>1 DEF SoleInv, RowsAreSole, UndoIsNewest
<1>3. ReadyIsNew' /\ InHandIsNew'
  BY <1>1 DEF SoleInv, ReadyIsNew, InHandIsNew
<1>4. TakenIsStored'
  BY <1>1 DEF SoleInv, TakenIsStored, IsTaken
<1> QED
  BY <1>2, <1>3, <1>4 DEF SoleInv

\* The rows after a batch has been recorded: the old ones, and one more at most.
LEMMA SoleRows ==
    ASSUME TypeInv, SoleInv, NEW b \in Business, inHand # None, Recorded(b)
    PROVE  /\ \A i \in DOMAIN flows : i \in DOMAIN flows' /\ flows'[i] = flows[i]
           /\ \A i \in DOMAIN flows' : i \notin DOMAIN flows =>
                  flows'[i].number = inHand.number /\ flows'[i].transfer.business = b
           /\ \A i, j \in DOMAIN flows' : i \notin DOMAIN flows /\ j \notin DOMAIN flows => i = j
<1> DEFINE s == Of(b, inHand)
           all == flows \o NewRows(s)
<1>1. inHand \in BatchOf /\ flows \in Seq(Row)
  BY DEF TypeInv, FinderPart, FlowsPart
<1>2. /\ s \in Seq(Minable) /\ \A i \in 1..Len(s) : s[i].business = b
      /\ \A i, j \in 1..Len(s) : i = j
  BY <1>1, OfTyped, OfHasOne DEF SoleInv, InHandIsNew
<1>3. flows' = all
  BY DEF Recorded
<1> HIDE DEF s
<1>4. /\ DOMAIN flows \subseteq DOMAIN all
      /\ \A i \in DOMAIN flows : all[i] = flows[i]
      /\ \A i \in DOMAIN all : i \notin DOMAIN flows =>
             (\E j \in 1..Len(s) : all[i].transfer = s[j]) /\ all[i].number = inHand.number
  BY <1>1, <1>2, AddedRows
<1>5. /\ Len(all) = Len(flows) + Len(s) /\ all \in Seq(Row)
  BY <1>1, <1>2, TransfersConcat
<1>6. ASSUME NEW i \in DOMAIN all, NEW j \in DOMAIN all, i \notin DOMAIN flows, j \notin DOMAIN flows
      PROVE  i = j
  <2>1. /\ Len(flows) \in Nat /\ Len(s) \in Nat
        /\ DOMAIN flows = 1..Len(flows) /\ DOMAIN all = 1..(Len(flows) + Len(s))
    <3> HIDE DEF all
    <3> QED BY <1>1, <1>2, <1>5
  <2> HIDE DEF all
  <2>2. i - Len(flows) \in 1..Len(s) /\ j - Len(flows) \in 1..Len(s)
    BY <1>6, <2>1
  <2>3. i - Len(flows) = j - Len(flows)
    BY <1>2, <2>2
  <2> QED BY <2>1, <2>3
<1> HIDE DEF all
<1> QED
  BY <1>2, <1>3, <1>4, <1>6

LEMMA SoleRecord == TypeInv /\ SoleInv /\ RecordStep => SoleInv'
<1> SUFFICES ASSUME TypeInv, SoleInv, NEW b \in Business, HandleBatch(b) \/ HandleBatchFails(b)
             PROVE  SoleInv'
  BY DEF RecordStep
<1>1. /\ UNCHANGED <<blocks, backedUp, ready, fpc, undo>> /\ b \in todo
      /\ inHand # None
      /\ inHand' = None \/ (inHand' = inHand /\ todo' = todo \ {b})
      /\ Recorded(b) \/ UNCHANGED tables
  BY DEF HandleBatch, HandleBatchFails, BusinessDone, FinderDies, scanVars, fallbackVars,
     TypeInv, FinderPart
<1>2. CASE UNCHANGED tables
  <2>1. RecordsNone
    BY <1>1, <1>2 DEF RecordsNone, tables
  <2> QED BY <2>1, SoleRest
<1>3. CASE Recorded(b)
  <2>1. /\ \A i \in DOMAIN flows : i \in DOMAIN flows' /\ flows'[i] = flows[i]
        /\ \A i \in DOMAIN flows' : i \notin DOMAIN flows =>
               flows'[i].number = inHand.number /\ flows'[i].transfer.business = b
        /\ \A i, j \in DOMAIN flows' : i \notin DOMAIN flows /\ j \notin DOMAIN flows => i = j
    BY <1>1, <1>3, SoleRows
  <2>2. \/ inHand.number \in backedUp
        \/ \A i \in DOMAIN flows :
               flows[i].number = inHand.number => flows[i].transfer.business \notin todo
    BY <1>1 DEF SoleInv, InHandIsNew
  <2>3. RowsAreSole'
    <3> SUFFICES ASSUME NEW i \in DOMAIN flows', NEW j \in DOMAIN flows',
                        flows'[i].number = flows'[j].number,
                        flows'[i].transfer.business = flows'[j].transfer.business,
                        flows'[i].number \notin backedUp
                 PROVE  i = j
      BY <1>1 DEF RowsAreSole
    <3>1. CASE i \in DOMAIN flows /\ j \in DOMAIN flows
      BY <2>1, <3>1 DEF SoleInv, RowsAreSole
    <3>2. CASE i \in DOMAIN flows /\ j \notin DOMAIN flows
      BY <1>1, <2>1, <2>2, <3>2
    <3>3. CASE i \notin DOMAIN flows /\ j \in DOMAIN flows
      BY <1>1, <2>1, <2>2, <3>3
    <3>4. CASE i \notin DOMAIN flows /\ j \notin DOMAIN flows
      BY <2>1, <3>4
    <3> QED BY <3>1, <3>2, <3>3, <3>4
  <2>4. ReadyIsNew'
    BY <1>1, <2>1 DEF SoleInv, ReadyIsNew
  <2>5. InHandIsNew'
    <3> SUFFICES ASSUME inHand' = inHand, todo' = todo \ {b} PROVE InHandIsNew'
      BY <1>1 DEF InHandIsNew
    <3>1. ASSUME inHand.number \notin backedUp, NEW i \in DOMAIN flows',
                 flows'[i].number = inHand.number
          PROVE  flows'[i].transfer.business \notin todo \ {b}
      BY <2>1, <2>2, <3>1
    <3> QED BY <1>1, <3>1 DEF SoleInv, InHandIsNew
  <2>6. TakenIsStored'
    <3> SUFFICES ASSUME NEW m \in 2..MaxHeight, IsTaken(m)'
                 PROVE  m \in backedUp \/ m <= Len(blocks)
      BY <1>1 DEF TakenIsStored
    <3>1. IsTaken(m)
      BY <1>1, <2>1 DEF IsTaken
    <3> QED BY <3>1 DEF SoleInv, TakenIsStored
  <2>7. UndoIsNewest'
    BY <1>1, <2>1 DEF SoleInv, UndoIsNewest, TypeInv, RollbackPart
  <2> QED BY <2>3, <2>4, <2>5, <2>6, <2>7 DEF SoleInv
<1> QED
  BY <1>1, <1>2, <1>3

LEMMA SoleRead == RollbackInv /\ SoleInv /\ ReadFallbackRows => SoleInv'
<1> SUFFICES ASSUME RollbackInv, SoleInv, ReadFallbackRows PROVE SoleInv'
  OBVIOUS
<1>1. UNCHANGED <<blocks, backedUp, ready, inHand, todo, flows>> /\ flag # None
  BY DEF ReadFallbackRows, scanVars, finderVars, tables
<1>2. RowsAreSole' /\ ReadyIsNew' /\ InHandIsNew' /\ TakenIsStored'
  BY <1>1 DEF SoleInv, RowsAreSole, ReadyIsNew, InHandIsNew, TakenIsStored, IsTaken
<1>3. UndoIsNewest'
  <2>1. PICK k \in Nat : k = Len(blocks)
    BY TakenHeights DEF RollbackInv
  <2>2. Entry = k /\ flag.number = k + 1
    BY <1>1, <2>1, EntryOfFlag DEF RollbackInv, FlagIsFinal
  <2> DEFINE rows == InRange(flows, k, k + 1)
  <2>3. undo' \in SetToSeqs(rows)
    BY <2>2 DEF ReadFallbackRows
  <2>4. \A i \in rows : flows[i].number \in {k, k + 1}
    BY DEF InRange
  <2> HIDE DEF rows
  <2>5. undo' \in [1..Cardinality(rows) -> rows]
    BY <2>3 DEF SetToSeqs
  <2>6. \A i \in DOMAIN undo' : undo'[i] \in rows
    BY <2>5
  <2> QED BY <1>1, <2>1, <2>4, <2>6 DEF UndoIsNewest
<1> QED
  BY <1>2, <1>3 DEF SoleInv

LEMMA SolePersist == RollbackInv /\ SoleInv /\ PersistFallback => SoleInv'
<1> SUFFICES ASSUME RollbackInv, SoleInv, PersistFallback PROVE SoleInv'
  OBVIOUS
<1>1. PICK k \in Nat : k = Len(blocks)
  BY TakenHeights DEF RollbackInv
<1>2. k > 0 /\ entry = k /\ flag.number = k + 1
  BY <1>1, PersistFacts DEF PersistFallback
<1>3. /\ UNCHANGED <<ready, inHand, todo>> /\ fpc' = "wait"
      /\ blocks' = SubSeq(blocks, 1, k - 1) /\ backedUp' = backedUp \union {k}
  <2>1. k..((k + 1) - 1) = {k}
    OBVIOUS
  <2> QED BY <1>2, <2>1 DEF PersistFallback, EndFallback, finderVars
<1>4. PICK places : flows' = Marked(flows, places, "fallback")
  BY FallBackMarksRows DEF PersistFallback, FallBackMarks
<1>5. /\ DOMAIN flows' = DOMAIN flows
      /\ \A i \in DOMAIN flows : /\ flows'[i].number = flows[i].number
                                 /\ flows'[i].transfer = flows[i].transfer
  BY <1>4, MarkedRows DEF RollbackInv, TypeInv, FlowsPart, Status
<1>6. RowsAreSole'
  BY <1>3, <1>5 DEF SoleInv, RowsAreSole
<1>7. ReadyIsNew' /\ InHandIsNew'
  BY <1>3, <1>5 DEF SoleInv, ReadyIsNew, InHandIsNew
<1>8. TakenIsStored'
  <2> SUFFICES ASSUME NEW m \in 2..MaxHeight, IsTaken(m)', m \notin backedUp, m # k
               PROVE  m <= Len(blocks')
    BY <1>3 DEF TakenIsStored
  <2>1. m <= k /\ m \in Nat
    BY <1>1, <1>3, <1>5, Bounds DEF IsTaken, SoleInv, TakenIsStored
  <2>2. Len(blocks') = k - 1
    <3>1. blocks \in Seq(DOMAIN Content)
      BY DEF RollbackInv, TypeInv, ScanPart
    <3>2. \A S : \A s \in Seq(S) : \A n \in 0..Len(s) : Len(SubSeq(s, 1, n)) = n
      OBVIOUS
    <3> QED BY <1>1, <1>2, <1>3, <3>1, <3>2
  <2> QED BY <2>1, <2>2
<1>9. UndoIsNewest'
  BY <1>3 DEF UndoIsNewest
<1> QED
  BY <1>6, <1>7, <1>8, <1>9 DEF SoleInv

LEMMA SoleStep == OneTransferEach /\ RollbackInv /\ SoleInv /\ [Next]_vars => SoleInv'
<1> SUFFICES ASSUME OneTransferEach, RollbackInv, SoleInv, [Next]_vars PROVE SoleInv'
  OBVIOUS
<1>1. TypeInv
  BY DEF RollbackInv
<1>2. CASE ScanBlock
  BY <1>2, SoleScanBlock
<1>3. CASE FinderReceive \/ RecordStep
  BY <1>1, <1>3, SoleReceive, SoleRecord
<1>4. CASE ReadFallbackRows \/ PersistFallback
  BY <1>4, SoleRead, SolePersist
<1>5. CASE \/ ChainStep \/ FlagReorg \/ ConfirmStep \/ ConfirmTickFails \/ PersistFails
           \/ NotifierStep \/ Crash \/ UNCHANGED vars
  BY <1>1, <1>5, OthersRecordNone, SoleRest
<1> QED
  BY <1>2, <1>3, <1>4, <1>5 DEF Next, ScanStep, FinderStep, FallbackStep

\* Every row that is reverted is marked.
LEMMA RevertedIsMarked ==
    ASSUME RollbackInv, SoleInv, PersistFallback, NEW i \in ToSet(undo)
    PROVE  flows'[i].status = "fallback"
<1>1. PICK k \in Nat : k = Len(blocks)
  BY TakenHeights DEF RollbackInv
<1>2. /\ entry = k /\ flag.number = k + 1 /\ k \notin backedUp /\ fpc = "persist"
      /\ \A j \in DOMAIN flows : flows[j].number # k + 1
  BY <1>1, PersistFacts DEF PersistFallback
<1>3. i \in DOMAIN flows /\ flows[i].number = k
  <2>1. PICK n \in DOMAIN undo : i = undo[n]
    BY DEF ToSet
  <2>2. i \in DOMAIN flows /\ flows[i].number \in {k, k + 1}
    BY <1>1, <1>2, <2>1 DEF RollbackInv, TypeInv, RollbackPart, SoleInv, UndoIsNewest
  <2> QED BY <1>2, <2>2
<1>4. PICK places : /\ flows' = Marked(flows, places, "fallback")
                    /\ MarksPlaces(places, flows, k, k + 1)
  BY <1>2, FallBackPlaces DEF PersistFallback, FallBackMarks
<1>5. flows[i].transfer.business \in Business
  <2>1. flows[i].transfer \in Minable
    BY <1>3, TransfersOfRows DEF RollbackInv, TypeInv, FlowsPart, Row
  <2> QED BY <2>1, MinableIsTransfer
<1>6. k \in k..(k + 1) /\ \A n \in k..k : n = k
  OBVIOUS
<1>7. k \in Reached(flows, flows[i].transfer.business, k, k + 1)
  BY <1>3, <1>6 DEF Reached
<1>8. PICK j \in places : /\ flows[j].transfer.business = flows[i].transfer.business
                          /\ flows[j].number = k
  BY <1>4, <1>5, <1>6, <1>7 DEF MarksPlaces
<1>9. j = i
  BY <1>2, <1>3, <1>4, <1>8 DEF MarksPlaces, SoleInv, RowsAreSole
<1> QED
  BY <1>3, <1>4, <1>8, <1>9, MarkedRows DEF RollbackInv, TypeInv, FlowsPart, Status

\* With one transfer of a business in a block at most, a rollback of the newest
\* stored block marks every transfer it reverts, whichever rows the database returns.
THEOREM SoleTransfersAreRolledBack ==
    OneTransferEach /\ ShallowReorgs /\ Spec => RollbackIsComplete
<1>1. CASE OneTransferEach /\ ShallowReorgs
  <2>1. Init => RollbackInv /\ SoleInv
    BY RollbackInit, SoleInit
  <2>2. RollbackInv /\ SoleInv /\ [Next]_vars => RollbackInv' /\ SoleInv'
    BY <1>1, RollbackStep, SoleStep
  <2>3. RollbackInv /\ SoleInv /\ [Next]_vars
            => [fpc = "persist" /\ backedUp' # backedUp
                    => \A i \in ToSet(undo) : flows'[i].status = "fallback"]_vars
    <3> SUFFICES ASSUME RollbackInv, SoleInv, Next, backedUp' # backedUp, NEW i \in ToSet(undo)
                 PROVE  flows'[i].status = "fallback"
      OBVIOUS
    <3>1. PersistFallback
      BY DEF Next, ChainStep, ScanStep, ScanBlock, FlagReorg, FinderStep, FinderReceive,
         RecordStep, HandleBatch, HandleBatchFails, ConfirmStep, ConfirmTick, ConfirmRead,
         ConfirmSave, ConfirmTickFails, FallbackStep, ReadFallbackRows, PersistFails,
         NotifierStep, NotifierTick, Post, AfterNotify, Crash, scanVars
    <3> QED BY <3>1, RevertedIsMarked
  <2> QED BY <2>1, <2>2, <2>3, PTL DEF Spec, RollbackIsComplete
<1> QED
  BY <1>1
=============================================================================
