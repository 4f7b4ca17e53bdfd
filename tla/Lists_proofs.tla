---------------------------- MODULE Lists_proofs ----------------------------
(***************************************************************************)
(* Induction over the natural numbers, and what Picked and Chosen return   *)
(* for any sequence.                                                       *)
(***************************************************************************)
EXTENDS Lists, SequenceTheorems, WellFoundedInduction, TLAPS

\* A set of numbers with 0 and the successor of each of its members has them all.
LEMMA NatIsAll ==
    ASSUME NEW P, 0 \in P, \A n \in Nat : n \in P => n + 1 \in P
    PROVE  \A n \in Nat : n \in P
<1> DEFINE R == OpToRel(<, Nat)
           T == {n \in Nat : n \notin P}
<1> SUFFICES ASSUME T # {} PROVE FALSE
  OBVIOUS
<1>1. \E x \in T : \A y \in T : ~ (<<y, x>> \in R)
  <2>1. T \subseteq Nat
    OBVIOUS
  <2> HIDE DEF T, R
  <2>2. IsWellFoundedOn(R, Nat)
    BY NatLessThanWellFounded DEF R
  <2> QED
    BY <2>1, <2>2, WFMin
<1>2. PICK x \in T : \A y \in T : ~ (<<y, x>> \in R)
  BY <1>1
<1>3. x \in Nat /\ x # 0
  OBVIOUS
<1>4. x - 1 \in Nat /\ x - 1 < x /\ (x - 1) + 1 = x
  BY <1>3
<1>5. <<x - 1, x>> \in R
  BY <1>3, <1>4 DEF OpToRel
<1>6. x - 1 \in P
  BY <1>2, <1>4, <1>5
<1> QED
  BY <1>4, <1>6

\* What is true at 0 and carries over from each number below N to the next, is
\* true up to N.
LEMMA UpTo ==
    ASSUME NEW N \in Nat, NEW P, 0 \in P,
           \A n \in 0..N : n < N /\ n \in P => n + 1 \in P
    PROVE  \A n \in 0..N : n \in P
<1> DEFINE Q == {n \in Nat : n <= N => n \in P}
<1>1. 0 \in Q
  OBVIOUS
<1>2. \A n \in Nat : n \in Q => n + 1 \in Q
  <2> SUFFICES ASSUME NEW n \in Nat, n \in Q, n + 1 <= N PROVE n + 1 \in P
    OBVIOUS
  <2>1. n \in 0..N /\ n < N /\ n \in P
    OBVIOUS
  <2> QED
    BY <2>1
<1>3. \A n \in Nat : n \in Q
  <2> HIDE DEF Q
  <2> QED BY <1>1, <1>2, NatIsAll
<1> QED
  BY <1>3

\* f starts so and goes on by these steps, as far as m.
Solves(f, start, step, m) ==
    f[0] = start /\ \A n \in 1..m : f[n] = step[<<f[n - 1], n>>]

\* A recursion over 0..N has a solution.
LEMMA Solvable ==
    ASSUME NEW N \in Nat, NEW D, NEW start \in D, NEW step \in [D \X (1..N) -> D]
    PROVE  \E f \in [0..N -> D] : Solves(f, start, step, N)
<1> DEFINE P == {m \in 0..N : \E f \in [0..N -> D] : Solves(f, start, step, m)}
<1>1. 0 \in P
  <2> DEFINE g == [n \in 0..N |-> start]
  <2>1. g \in [0..N -> D] /\ Solves(g, start, step, 0) /\ 0 \in 0..N
    BY DEF Solves
  <2> HIDE DEF g
  <2> QED BY <2>1
<1>2. ASSUME NEW m \in 0..N, m < N, m \in P PROVE m + 1 \in P
  <2>1. PICK f \in [0..N -> D] : Solves(f, start, step, m)
    BY <1>2
  <2> DEFINE g == [f EXCEPT ![m + 1] = step[<<f[m], m + 1>>]]
  <2>2. m + 1 \in 1..N /\ m \in 0..N
    BY <1>2
  <2>3. g \in [0..N -> D]
    BY <2>2
  <2>4. g[0] = start
    BY <2>1, <2>2 DEF Solves
  <2>5. ASSUME NEW n \in 1..(m + 1) PROVE g[n] = step[<<g[n - 1], n>>]
    <3>1. n \in 0..N /\ n - 1 \in 0..N /\ n - 1 # m + 1
      BY <2>2
    <3>2. g[n - 1] = f[n - 1]
      BY <3>1
    <3>3. CASE n = m + 1
      <4>1. g[n] = step[<<f[m], n>>] /\ n - 1 = m
        BY <2>2, <3>3
      <4> QED BY <3>2, <4>1
    <3>4. CASE n # m + 1
      <4>1. n \in 1..m /\ g[n] = f[n]
        BY <3>1, <3>4
      <4> QED BY <2>1, <3>2, <4>1 DEF Solves
    <3> QED BY <3>3, <3>4
  <2>6. Solves(g, start, step, m + 1)
    BY <2>4, <2>5 DEF Solves
  <2> HIDE DEF g
  <2> QED
    BY <2>2, <2>3, <2>6
<1>3. N \in P
  <2> HIDE DEF P
  <2>1. \A m \in 0..N : m \in P
    BY <1>1, <1>2, UpTo
  <2> QED BY <2>1
<1> QED
  BY <1>3

\* Picked, item by item.
IsPicking(f, seq, places) ==
    /\ DOMAIN f = 0..Len(seq) /\ f[0] = <<>>
    /\ \A n \in 1..Len(seq) :
           f[n] = IF n \in places THEN Append(f[n - 1], seq[n]) ELSE f[n - 1]

LEMMA PickedSteps ==
    ASSUME NEW S, NEW seq \in Seq(S), NEW places
    PROVE  \E f \in [0..Len(seq) -> Seq(S)] :
               IsPicking(f, seq, places) /\ Picked(seq, places) = f[Len(seq)]
<1> DEFINE N == Len(seq)
           Body(f) == [n \in 0..N |->
                          IF n = 0 THEN <<>>
                          ELSE IF n \in places THEN Append(f[n - 1], seq[n]) ELSE f[n - 1]]
           step == [p \in Seq(S) \X (1..N) |->
                       IF p[2] \in places THEN Append(p[1], seq[p[2]]) ELSE p[1]]
<1>1. N \in Nat /\ <<>> \in Seq(S) /\ \A n \in 1..N : seq[n] \in S
  OBVIOUS
<1>2. step \in [Seq(S) \X (1..N) -> Seq(S)]
  <2> SUFFICES ASSUME NEW s \in Seq(S), NEW n \in 1..N
               PROVE  (IF n \in places THEN Append(s, seq[n]) ELSE s) \in Seq(S)
    OBVIOUS
  <2> QED BY <1>1, AppendProperties
<1>3. PICK f \in [0..N -> Seq(S)] :
          f[0] = <<>> /\ \A n \in 1..N : f[n] = step[<<f[n - 1], n>>]
  <2> DEFINE D == Seq(S)
             start == <<>>
  <2>1. N \in Nat /\ start \in D /\ step \in [D \X (1..N) -> D]
    BY <1>1, <1>2
  <2> HIDE DEF step, N, D, start
  <2>2. \E f \in [0..N -> D] : Solves(f, start, step, N)
    BY <2>1, Solvable
  <2> QED BY <2>2 DEF D, start, Solves
<1>4. \A n \in 1..N : /\ n - 1 \in 0..N
                      /\ f[n] = IF n \in places THEN Append(f[n - 1], seq[n]) ELSE f[n - 1]
  <2> TAKE n \in 1..N
  <2>1. n - 1 \in 0..N
    BY <1>1
  <2>2. f[n - 1] \in Seq(S)
    BY <1>3, <2>1
  <2>3. \A s \in Seq(S), m \in 1..N :
            step[<<s, m>>] = IF m \in places THEN Append(s, seq[m]) ELSE s
    OBVIOUS
  <2> HIDE DEF step
  <2>4. f[n] = step[<<f[n - 1], n>>]
    BY <1>3
  <2> QED BY <2>1, <2>2, <2>3, <2>4
<1>5. f = Body(f)
  <2>1. \A n \in 0..N : n = 0 \/ n \in 1..N
    BY <1>1
  <2>2. \A n \in 0..N : f[n] = Body(f)[n]
    BY <1>3, <1>4, <2>1
  <2>3. f = [n \in 0..N |-> f[n]] /\ Body(f) = [n \in 0..N |-> Body(f)[n]]
    BY <1>3
  <2> HIDE DEF Body, step
  <2> QED BY <2>2, <2>3
<1> DEFINE g == CHOOSE h : h = Body(h)
<1>6. g = Body(g) /\ Picked(seq, places) = g[N]
  BY <1>5 DEF Picked
<1> HIDE DEF g
<1>7. \A n \in 0..N : n \in {m \in 0..N : g[m] = f[m]}
  <2> DEFINE P == {m \in 0..N : g[m] = f[m]}
  <2>0. \A n \in 0..N : g[n] = IF n = 0 THEN <<>>
                              ELSE IF n \in places THEN Append(g[n - 1], seq[n]) ELSE g[n - 1]
    BY <1>6
  <2>1. 0 \in P
    BY <1>1, <1>3, <2>0
  <2>2. ASSUME NEW n \in 0..N, n < N, n \in P PROVE n + 1 \in P
    <3>1. n + 1 \in 1..N /\ (n + 1) - 1 = n /\ n + 1 # 0 /\ n + 1 \in 0..N
      BY <1>1, <2>2
    <3> QED BY <1>4, <2>0, <2>2, <3>1
  <2> HIDE DEF P
  <2>3. \A n \in 0..N : n \in P
    BY <1>1, <2>1, <2>2, UpTo
  <2> QED BY <2>3 DEF P
<1>8. Picked(seq, places) = f[N]
  BY <1>1, <1>6, <1>7
<1> QED
  BY <1>3, <1>4, <1>8 DEF IsPicking

LEMMA PickedIsSeq ==
    ASSUME NEW S, NEW seq \in Seq(S), NEW places
    PROVE  Picked(seq, places) \in Seq(S)
<1>1. Len(seq) \in Nat
  OBVIOUS
<1> QED
  BY <1>1, PickedSteps

\* What is picked comes from the places, each of which is picked once.
Places(h, picked, seq, places, n) ==
    /\ DOMAIN h = 1..Len(picked)
    /\ \A k \in 1..Len(picked) : h[k] \in 1..n /\ h[k] \in places /\ picked[k] = seq[h[k]]
    /\ \A i \in 1..n : i \in places => \E k \in 1..Len(picked) : h[k] = i
    /\ \A k, l \in 1..Len(picked) : h[k] = h[l] => k = l

LEMMA PickedPlaces ==
    ASSUME NEW S, NEW seq \in Seq(S), NEW places
    PROVE  \E h : Places(h, Picked(seq, places), seq, places, Len(seq))
<1> DEFINE N == Len(seq)
<1>0. N \in Nat /\ \A n \in 1..N : seq[n] \in S
  OBVIOUS
<1>1. PICK f \in [0..N -> Seq(S)] :
          IsPicking(f, seq, places) /\ Picked(seq, places) = f[N]
  BY PickedSteps
<1> DEFINE P == {n \in 0..N : \E h : Places(h, f[n], seq, places, n)}
<1>2. 0 \in P
  <2> DEFINE h == [k \in 1..0 |-> 0]
  <2>1. Places(h, <<>>, seq, places, 0)
    BY DEF Places
  <2> HIDE DEF h
  <2> QED BY <1>0, <1>1, <2>1 DEF IsPicking
<1>3. ASSUME NEW n \in 0..N, n < N, n \in P PROVE n + 1 \in P
  <2>1. PICK h : Places(h, f[n], seq, places, n)
    BY <1>3
  <2>2. n + 1 \in 0..N /\ n + 1 \in 1..N /\ (n + 1) - 1 = n /\ n \in Nat
    BY <1>0, <1>3
  <2>3. f[n + 1] = IF n + 1 \in places THEN Append(f[n], seq[n + 1]) ELSE f[n]
    BY <1>1, <2>2 DEF IsPicking
  <2>4. CASE n + 1 \notin places
    <3>1. \A i \in 1..(n + 1) : i \in places => i \in 1..n
      BY <2>2, <2>4
    <3>2. \A i \in 1..n : i \in 1..(n + 1)
      BY <2>2
    <3>3. Places(h, f[n + 1], seq, places, n + 1)
      BY <2>1, <2>3, <2>4, <3>1, <3>2 DEF Places
    <3> QED BY <2>2, <3>3
  <2>5. CASE n + 1 \in places
    <3> DEFINE L == Len(f[n])
               g == [k \in 1..(L + 1) |-> IF k = L + 1 THEN n + 1 ELSE h[k]]
    <3>1. f[n] \in Seq(S) /\ L \in Nat /\ seq[n + 1] \in S
      BY <1>0, <1>1, <2>2
    <3>2. /\ Len(f[n + 1]) = L + 1 /\ f[n + 1][L + 1] = seq[n + 1]
          /\ \A k \in 1..L : f[n + 1][k] = f[n][k]
      BY <2>3, <2>5, <3>1, AppendProperties
    <3>3. /\ DOMAIN g = 1..(L + 1) /\ g[L + 1] = n + 1 /\ L + 1 \in 1..(L + 1)
          /\ \A k \in 1..L : k \in 1..(L + 1) /\ g[k] = h[k] /\ h[k] \in 1..n
      <4>1. L + 1 \in 1..(L + 1) /\ \A k \in 1..L : k \in 1..(L + 1) /\ k # L + 1
        BY <3>1
      <4> QED BY <2>1, <4>1 DEF Places
    <3> HIDE DEF g
    <3>4. \A k \in 1..(L + 1) : k = L + 1 \/ k \in 1..L
      BY <3>1
    <3>5. \A i \in 1..(n + 1) : i = n + 1 \/ i \in 1..n
      BY <2>2
    <3>6. n + 1 \in 1..(n + 1) /\ n + 1 \notin 1..n /\ \A i \in 1..n : i \in 1..(n + 1)
      BY <2>2
    <3>7. \A k \in 1..(L + 1) : g[k] \in 1..(n + 1) /\ g[k] \in places /\ f[n + 1][k] = seq[g[k]]
      BY <2>1, <2>5, <3>2, <3>3, <3>4, <3>6 DEF Places
    <3>8. \A i \in 1..(n + 1) : i \in places => \E k \in 1..(L + 1) : g[k] = i
      BY <2>1, <3>3, <3>5 DEF Places
    <3>9. \A k, l \in 1..(L + 1) : g[k] = g[l] => k = l
      BY <2>1, <3>3, <3>4, <3>6 DEF Places
    <3>10. Places(g, f[n + 1], seq, places, n + 1)
      BY <3>2, <3>3, <3>7, <3>8, <3>9 DEF Places
    <3> QED BY <2>2, <3>10
  <2> QED BY <2>4, <2>5
<1>4. N \in P
  <2> HIDE DEF P
  <2>1. \A n \in 0..N : n \in P
    BY <1>0, <1>2, <1>3, UpTo
  <2> QED BY <1>0, <2>1
<1> QED
  BY <1>1, <1>4

AppendMoves(s, t, e) == Append(s \o t, e) = s \o Append(t, e)

LEMMA AppendToConcat ==
    ASSUME NEW S, NEW s \in Seq(S), NEW t \in Seq(S), NEW e \in S
    PROVE  AppendMoves(s, t, e)
<1>1. <<e>> \in Seq(S)
  OBVIOUS
<1>2. s \o t \in Seq(S)
  BY ConcatProperties
<1>3. Append(s \o t, e) = (s \o t) \o <<e>>
  BY <1>2, AppendIsConcat
<1>4. Append(t, e) = t \o <<e>>
  BY AppendIsConcat
<1>5. (s \o t) \o <<e>> = s \o (t \o <<e>>)
  BY <1>1, ConcatAssociative
<1> QED
  BY <1>3, <1>4, <1>5 DEF AppendMoves

\* To pick from a sequence and its continuation is to pick from each.
LEMMA PickedConcat ==
    ASSUME NEW S, NEW s \in Seq(S), NEW t \in Seq(S), NEW places, NEW left, NEW right,
           \A i \in 1..Len(s) : i \in places <=> i \in left,
           \A i \in 1..Len(t) : Len(s) + i \in places <=> i \in right
    PROVE  Picked(s \o t, places) = Picked(s, left) \o Picked(t, right)
<1> DEFINE K == Len(s)
           N == Len(t)
           u == s \o t
<1>n. K \in Nat /\ N \in Nat /\ \A i \in 1..N : t[i] \in S
  OBVIOUS
<1>c. /\ u \in Seq(S) /\ Len(u) = K + N
      /\ \A i \in 1..(K + N) : u[i] = IF i <= K THEN s[i] ELSE t[i - K]
  BY ConcatProperties
<1>0. /\ K \in Nat /\ N \in Nat /\ u \in Seq(S) /\ Len(u) = K + N
      /\ \A i \in 1..K : u[i] = s[i] /\ i \in 1..Len(u)
      /\ \A i \in 1..N : u[K + i] = t[i] /\ t[i] \in S /\ K + i \in 1..Len(u)
  <2> HIDE DEF u, K, N
  <2>1. \A i \in 1..K : u[i] = s[i] /\ i \in 1..Len(u)
    <3>1. \A i \in 1..K : i \in 1..(K + N) /\ i <= K
      BY <1>n
    <3> QED BY <1>c, <3>1
  <2>2. \A i \in 1..N : u[K + i] = t[i] /\ t[i] \in S /\ K + i \in 1..Len(u)
    <3>1. \A i \in 1..N : K + i \in 1..(K + N) /\ ~(K + i <= K) /\ (K + i) - K = i
      BY <1>n
    <3> QED BY <1>n, <1>c, <3>1
  <2> QED BY <1>n, <1>c, <2>1, <2>2
<1>1. PICK f \in [0..Len(u) -> Seq(S)] :
          IsPicking(f, u, places) /\ Picked(u, places) = f[Len(u)]
  <2>1. u \in Seq(S)
    BY <1>c
  <2> HIDE DEF u
  <2> QED BY <2>1, PickedSteps
<1>2. PICK g \in [0..K -> Seq(S)] : IsPicking(g, s, left) /\ Picked(s, left) = g[K]
  BY PickedSteps
<1>3. PICK h \in [0..N -> Seq(S)] : IsPicking(h, t, right) /\ Picked(t, right) = h[N]
  BY PickedSteps
<1> HIDE DEF u
<1> DEFINE P == {n \in 0..K : f[n] = g[n]}
           Q == {n \in 0..N : f[K + n] = g[K] \o h[n]}
<1>4. K \in P
  <2>1. 0 \in P
    BY <1>0, <1>1, <1>2 DEF IsPicking
  <2>2. ASSUME NEW n \in 0..K, n < K, n \in P PROVE n + 1 \in P
    <3>1. n + 1 \in 0..K /\ n + 1 \in 1..K /\ (n + 1) - 1 = n
      BY <1>0, <2>2
    <3>2. f[n + 1] = IF n + 1 \in places THEN Append(f[n], u[n + 1]) ELSE f[n]
      BY <1>0, <1>1, <3>1 DEF IsPicking
    <3>3. g[n + 1] = IF n + 1 \in left THEN Append(g[n], s[n + 1]) ELSE g[n]
      BY <1>2, <3>1 DEF IsPicking
    <3> QED BY <1>0, <2>2, <3>1, <3>2, <3>3
  <2> HIDE DEF P
  <2>3. \A n \in 0..K : n \in P
    BY <1>0, <2>1, <2>2, UpTo
  <2> QED BY <1>0, <2>3
<1>5. N \in Q
  <2>1. 0 \in Q
    <3>1. h[0] = <<>> /\ g[K] \in Seq(S) /\ f[K] = g[K] /\ K + 0 = K
      BY <1>0, <1>2, <1>3, <1>4 DEF IsPicking
    <3>2. g[K] \o <<>> = g[K]
      BY <3>1, ConcatEmptySeq
    <3> QED BY <1>0, <3>1, <3>2
  <2>2. ASSUME NEW n \in 0..N, n < N, n \in Q PROVE n + 1 \in Q
    <3>1. n + 1 \in 0..N /\ n + 1 \in 1..N /\ (n + 1) - 1 = n /\ (K + (n + 1)) - 1 = K + n
      BY <1>n, <2>2
    <3>0. K + (n + 1) \in 1..Len(u)
      BY <1>0, <3>1
    <3>2. f[K + (n + 1)] = IF K + (n + 1) \in places THEN Append(f[K + n], u[K + (n + 1)])
                           ELSE f[K + n]
      <4>1. f[K + (n + 1)] = IF K + (n + 1) \in places
                             THEN Append(f[(K + (n + 1)) - 1], u[K + (n + 1)])
                             ELSE f[(K + (n + 1)) - 1]
        BY <1>1, <3>0 DEF IsPicking
      <4> QED BY <3>1, <4>1
    <3>3. h[n + 1] = IF n + 1 \in right THEN Append(h[n], t[n + 1]) ELSE h[n]
      BY <1>3, <3>1 DEF IsPicking
    <3>4. g[K] \in Seq(S) /\ h[n] \in Seq(S) /\ t[n + 1] \in S
      <4>1. K \in 0..K /\ n \in 0..N
        BY <1>0, <2>2
      <4> QED BY <1>0, <1>2, <1>3, <3>1, <4>1
    <3>5. Append(g[K] \o h[n], t[n + 1]) = g[K] \o Append(h[n], t[n + 1])
      <4>1. AppendMoves(g[K], h[n], t[n + 1])
        BY <3>4, AppendToConcat
      <4> QED BY <4>1 DEF AppendMoves
    <3>6. f[K + n] = g[K] \o h[n] /\ u[K + (n + 1)] = t[n + 1]
          /\ (K + (n + 1) \in places <=> n + 1 \in right)
      BY <1>0, <2>2, <3>1
    <3>7. f[K + (n + 1)] = g[K] \o h[n + 1]
      <4>1. CASE n + 1 \in right
        BY <3>2, <3>3, <3>5, <3>6, <4>1
      <4>2. CASE n + 1 \notin right
        BY <3>2, <3>3, <3>6, <4>2
      <4> QED BY <4>1, <4>2
    <3> QED BY <3>1, <3>7
  <2> HIDE DEF Q
  <2>3. \A n \in 0..N : n \in Q
    BY <1>0, <2>1, <2>2, UpTo
  <2> QED BY <1>0, <2>3
<1> QED
  BY <1>0, <1>1, <1>2, <1>3, <1>5 DEF u

LEMMA PickedAll ==
    ASSUME NEW S, NEW seq \in Seq(S), NEW places, \A i \in 1..Len(seq) : i \in places
    PROVE  Picked(seq, places) = seq
<1> DEFINE N == Len(seq)
<1>0. N \in Nat /\ \A n \in 1..N : seq[n] \in S
  OBVIOUS
<1>1. PICK f \in [0..N -> Seq(S)] :
          IsPicking(f, seq, places) /\ Picked(seq, places) = f[N]
  BY PickedSteps
<1> DEFINE P == {n \in 0..N : Len(f[n]) = n /\ \A i \in 1..n : f[n][i] = seq[i]}
<1>2. 0 \in P
  BY <1>0, <1>1 DEF IsPicking
<1>3. ASSUME NEW n \in 0..N, n < N, n \in P PROVE n + 1 \in P
  <2>1. n + 1 \in 0..N /\ n + 1 \in 1..N /\ (n + 1) - 1 = n
    BY <1>0, <1>3
  <2>2. f[n] \in Seq(S) /\ seq[n + 1] \in S /\ f[n + 1] = Append(f[n], seq[n + 1])
    BY <1>0, <1>1, <2>1 DEF IsPicking
  <2>3. Len(f[n + 1]) = n + 1 /\ f[n + 1][n + 1] = seq[n + 1]
        /\ \A i \in 1..n : f[n + 1][i] = seq[i]
    BY <1>3, <2>2, AppendProperties
  <2>4. \A i \in 1..(n + 1) : i \in 1..n \/ i = n + 1
    BY <2>1
  <2> QED BY <2>1, <2>3, <2>4
<1>4. N \in P
  <2> HIDE DEF P
  <2>1. \A n \in 0..N : n \in P
    BY <1>0, <1>2, <1>3, UpTo
  <2> QED BY <1>0, <2>1
<1>5. Picked(seq, places) \in Seq(S)
  BY PickedIsSeq
<1> QED
  BY <1>0, <1>1, <1>4, <1>5, SeqEqual

LEMMA PickedNone ==
    ASSUME NEW S, NEW seq \in Seq(S), NEW places, \A i \in 1..Len(seq) : i \notin places
    PROVE  Picked(seq, places) = <<>>
<1> DEFINE p == Picked(seq, places)
<1>1. PICK h : Places(h, p, seq, places, Len(seq))
  BY PickedPlaces
<1>2. p \in Seq(S)
  BY PickedIsSeq
<1> HIDE DEF p
<1>3. ~(1 \in 1..Len(p))
  BY <1>1 DEF Places
<1> QED
  BY <1>2, <1>3 DEF p

PickSplits(s, t, places, left, right) ==
    Picked(s \o t, places) = Picked(s, left) \o Picked(t, right)

LEMMA PickedSplits ==
    ASSUME NEW S, NEW s \in Seq(S), NEW t \in Seq(S), NEW places, NEW left, NEW right,
           \A i \in 1..Len(s) : i \in places <=> i \in left,
           \A i \in 1..Len(t) : Len(s) + i \in places <=> i \in right
    PROVE  PickSplits(s, t, places, left, right)
BY PickedConcat DEF PickSplits

\* Places of a sequence and of its continuation.
LEMMA PlacesSplit ==
    ASSUME NEW S, NEW s \in Seq(S), NEW t \in Seq(S), NEW kind
    PROVE  LET at(q) == {i \in DOMAIN q : q[i] \in kind}
           IN  /\ \A i \in 1..Len(s) : i \in at(s \o t) <=> i \in at(s)
               /\ \A i \in 1..Len(t) : Len(s) + i \in at(s \o t) <=> i \in at(t)
<1> DEFINE u == s \o t
           K == Len(s)
           N == Len(t)
<1>1. K \in Nat /\ N \in Nat /\ DOMAIN s = 1..K /\ DOMAIN t = 1..N
  OBVIOUS
<1>2. u \in Seq(S) /\ Len(u) = K + N
      /\ \A i \in 1..(K + N) : u[i] = IF i <= K THEN s[i] ELSE t[i - K]
  BY ConcatProperties
<1> HIDE DEF u
<1>3. DOMAIN u = 1..(K + N)
  BY <1>2
<1> HIDE DEF K, N
<1>4. \A i \in 1..K : i \in 1..(K + N) /\ u[i] = s[i]
  <2> TAKE i \in 1..K
  <2>1. i \in 1..(K + N) /\ i <= K
    BY <1>1
  <2> QED BY <1>2, <2>1
<1>5. \A i \in 1..N : K + i \in 1..(K + N) /\ u[K + i] = t[i]
  <2> TAKE i \in 1..N
  <2>1. K + i \in 1..(K + N) /\ ~(K + i <= K) /\ (K + i) - K = i
    BY <1>1
  <2> QED BY <1>2, <2>1
<1> QED
  BY <1>1, <1>3, <1>4, <1>5 DEF u, K, N

ChoiceSplits(s, t, S) == Chosen(s \o t, S) = Chosen(s, S) \o Chosen(t, S)

LEMMA ChosenConcat ==
    ASSUME NEW T, NEW S, NEW s \in Seq(T), NEW t \in Seq(T)
    PROVE  ChoiceSplits(s, t, S)
<1> DEFINE at(q) == {i \in DOMAIN q : q[i] \in S}
<1>0. s \o t \in Seq(T)
  BY ConcatProperties
<1>1. /\ \A i \in 1..Len(s) : i \in at(s \o t) <=> i \in at(s)
      /\ \A i \in 1..Len(t) : Len(s) + i \in at(s \o t) <=> i \in at(t)
  BY PlacesSplit
<1>2. \A q \in Seq(T) : Chosen(q, S) = Picked(q, at(q))
  BY DEF Chosen
<1> HIDE DEF at
<1>3. PickSplits(s, t, at(s \o t), at(s), at(t))
  BY <1>1, PickedSplits
<1> QED
  BY <1>0, <1>2, <1>3 DEF PickSplits, ChoiceSplits

\* The next item is chosen or left, after those before it.
LEMMA ChosenAppend ==
    ASSUME NEW T, NEW S, NEW seq \in Seq(T), NEW e \in T
    PROVE  Chosen(Append(seq, e), S)
               = IF e \in S THEN Append(Chosen(seq, S), e) ELSE Chosen(seq, S)
<1> DEFINE one == <<e>>
           first == {i \in DOMAIN one : one[i] \in S}
<1>1. one \in Seq(T) /\ Len(one) = 1 /\ one[1] = e /\ DOMAIN one = 1..1
  OBVIOUS
<1>2. Chosen(one, S) = IF e \in S THEN one ELSE <<>>
  <2>1. Chosen(one, S) = Picked(one, first)
    BY DEF Chosen
  <2>2. \A i \in 1..Len(one) : i \in first <=> e \in S
    <3> HIDE DEF one
    <3> QED BY <1>1
  <2> HIDE DEF first, one
  <2>3. CASE e \in S
    BY <1>1, <2>1, <2>2, <2>3, PickedAll
  <2>4. CASE e \notin S
    BY <1>1, <2>1, <2>2, <2>4, PickedNone
  <2> QED BY <2>3, <2>4
<1>3. Append(seq, e) = seq \o one
  BY AppendIsConcat
<1>4. Chosen(seq, S) \in Seq(T)
  BY PickedIsSeq DEF Chosen
<1>5. Append(Chosen(seq, S), e) = Chosen(seq, S) \o one /\ Chosen(seq, S) \o <<>> = Chosen(seq, S)
  BY <1>4, AppendIsConcat, ConcatEmptySeq
<1>6. Chosen(seq \o one, S) = Chosen(seq, S) \o Chosen(one, S)
  <2> HIDE DEF one
  <2> QED BY <1>1, ChosenConcat DEF ChoiceSplits
<1> QED
  BY <1>2, <1>3, <1>5, <1>6

LEMMA ChosenIsSeq ==
    ASSUME NEW T, NEW S, NEW seq \in Seq(T)
    PROVE  Chosen(seq, S) \in Seq(T)
BY PickedIsSeq DEF Chosen

LEMMA ChosenNone ==
    ASSUME NEW S
    PROVE  Chosen(<<>>, S) = <<>>
<1> DEFINE none == <<>>
           places == {i \in DOMAIN none : none[i] \in S}
<1>1. none \in Seq(Nat) /\ \A i \in 1..Len(none) : i \notin places
  <2>1. none \in Seq(Nat) /\ Len(none) = 0
    OBVIOUS
  <2> HIDE DEF none
  <2> QED BY <2>1
<1>2. Picked(none, places) = <<>>
  <2> HIDE DEF none, places
  <2> QED BY <1>1, PickedNone
<1> QED
  BY <1>2 DEF Chosen

=============================================================================
