---------------------------- MODULE Query_proofs -----------------------------
(***************************************************************************)
(* What a query answers and what a client that turns pages sees, for every *)
(* set of DNs, classes and queries and for any predicate as the filter.    *)
(* A list of the answer is compared with what it should hold by the keys   *)
(* of its entries: which root, and which MO in the scope of it.            *)
(*                                                                         *)
(* At the end: that the parser of filters is right, for every text, every  *)
(* way to nest expressions and every object.                               *)
(***************************************************************************)
EXTENDS Query, Filter, MITStore_proofs

-----------------------------------------------------------------------------
(* Places in lists *)

(* f numbers n things by different places up to m, in the same order.      *)
Increasing(f, n, m) ==
  /\ f \in [1..n -> 1..m]
  /\ \A i, j \in 1..n : i < j => f[i] < f[j]

LEMMA IncreasingAbove ==
  ASSUME NEW n \in Nat, NEW m \in Nat, NEW f, Increasing(f, n, m)
  PROVE  \A i \in 1..n : i <= f[i]
<1>. DEFINE S == {k \in 0..n : k = 0 \/ k <= f[k]}
<1>1. 0 \in S
  OBVIOUS
<1>2. ASSUME NEW k \in 0..(n - 1), k \in S PROVE k + 1 \in S
  <2>1. k + 1 \in 1..n /\ f[k + 1] \in 1..m
    BY DEF Increasing
  <2>2. CASE k = 0
    BY <2>1, <2>2
  <2>3. CASE k # 0
    <3>1. k \in 1..n /\ k < k + 1 /\ f[k] \in 1..m /\ k <= f[k]
      BY <1>2, <2>3 DEF Increasing
    <3>2. f[k] < f[k + 1]
      BY <2>1, <3>1 DEF Increasing
    <3>3. QED
      BY <2>1, <3>1, <3>2
  <2>4. QED
    BY <2>2, <2>3
<1>. HIDE DEF S
<1>3. 0..n \subseteq S
  BY <1>1, <1>2, BoundedInduction
<1>4. QED
  BY <1>3 DEF S

(* What is picked from a list, turn by turn.                               *)
IsPicking(u, s, P) ==
  /\ u[0] = <<>>
  /\ \A i \in 1..Len(s) : u[i] = IF s[i] \in P THEN Append(u[i - 1], s[i]) ELSE u[i - 1]
  /\ Picked(s, P) = u[Len(s)]

LEMMA PickedLoop ==
  ASSUME NEW S, NEW s \in Seq(S), NEW P
  PROVE  \E u : IsPicking(u, s, P) /\ \A i \in 0..Len(s) : u[i] \in Seq(S)
<1>. DEFINE D == Seq(S)
            n == Len(s)
            Turn(x, i) == IF s[i] \in P THEN Append(x, s[i]) ELSE x
            step == [x \in D \X (1..n) |-> Turn(x[1], x[2])]
            F(f) == [i \in 0..Len(s) |->
                       IF i = 0 THEN <<>>
                       ELSE IF s[i] \in P THEN Append(f[i - 1], s[i]) ELSE f[i - 1]]
            u == CHOOSE f : f = F(f)
<1>1. n \in Nat /\ \A i \in 1..n : s[i] \in S
  OBVIOUS
<1>2. <<>> \in D /\ step \in [D \X (1..n) -> D]
  <2>1. ASSUME NEW x \in D \X (1..n)
        PROVE  Turn(x[1], x[2]) \in D
    <3>1. x[1] \in D /\ x[2] \in 1..n /\ s[x[2]] \in S
      BY <1>1
    <3>2. Append(x[1], s[x[2]]) \in D
      BY <3>1
    <3>3. QED
      BY <3>1, <3>2
  <2>2. QED
    BY <2>1
<1>. HIDE DEF D, n, step, u
<1>3. PICK f : IsLoop(f, D, <<>>, n, step)
  BY <1>1, <1>2, LoopExists
<1>4. \A i \in 1..n : f[i] = Turn(f[i - 1], i)
  <2>1. ASSUME NEW i \in 1..n
        PROVE  f[i] = Turn(f[i - 1], i)
    <3>1. <<f[i - 1], i>> \in D \X (1..n) /\ f[i] = step[<<f[i - 1], i>>]
      BY <1>1, <1>3 DEF IsLoop
    <3>2. QED
      BY <3>1 DEF step
  <2>2. QED
    BY <2>1
<1>5. f = F(f)
  <2>. HIDE DEF Turn
  <2>1. \A i \in 0..n : f[i] = IF i = 0 THEN <<>> ELSE Turn(f[i - 1], i)
    BY <1>1, <1>3, <1>4 DEF IsLoop
  <2>2. f = [i \in 0..n |-> IF i = 0 THEN <<>> ELSE Turn(f[i - 1], i)]
    BY <1>3, <2>1 DEF IsLoop
  <2>3. QED
    BY <2>2 DEF Turn, n
<1>6. u = F(u)
  <2>. HIDE DEF F
  <2>1. \E g : g = F(g)
    BY <1>5
  <2>2. QED
    BY <2>1 DEF u
<1>7. u[0] = <<>> /\ \A i \in 1..n : u[i] = Turn(u[i - 1], i)
  <2>1. u = [i \in 0..n |-> IF i = 0 THEN <<>> ELSE Turn(u[i - 1], i)]
    BY <1>6 DEF n
  <2>. HIDE DEF Turn, F
  <2>2. QED
    BY <1>1, <2>1
<1>8. \A i \in 0..n : u[i] \in D
  <2>1. ASSUME NEW i \in 0..(n - 1), u[i] \in D
        PROVE  u[i + 1] \in D
    <3>1. i + 1 \in 1..n /\ (i + 1) - 1 = i
      BY <1>1
    <3>2. u[i + 1] = step[<<u[i], i + 1>>] /\ <<u[i], i + 1>> \in D \X (1..n)
      BY <1>7, <2>1, <3>1 DEF step
    <3>3. QED
      BY <1>2, <3>2
  <2>2. u[0] \in D
    BY <1>2, <1>7
  <2>3. QED
    BY <1>1, <2>1, <2>2, LoopInvariant
<1>9. Picked(s, P) = u[n]
  BY DEF Picked, u, n
<1>10. QED
  BY <1>7, <1>8, <1>9 DEF n, D, IsPicking

(* g numbers the entries of s that are in P and among the first k, and t   *)
(* lists them.                                                             *)
Numbered(t, s, P, k, g) ==
  /\ Increasing(g, Len(t), k)
  /\ \A i \in 1..Len(t) : t[i] = s[g[i]] /\ t[i] \in P
  /\ \A j \in 1..k : s[j] \in P => \E i \in 1..Len(t) : g[i] = j

LEMMA PickedFacts ==
  ASSUME NEW S, NEW s \in Seq(S), NEW P
  PROVE  Picked(s, P) \in Seq(S) /\ \E g : Numbered(Picked(s, P), s, P, Len(s), g)
<1>1. PICK u : IsPicking(u, s, P) /\ \A i \in 0..Len(s) : u[i] \in Seq(S)
  BY PickedLoop
<1>. DEFINE n == Len(s)
            T == {k \in 0..n : \E g : Numbered(u[k], s, P, k, g)}
<1>2. n \in Nat /\ \A i \in 1..n : s[i] \in S
  OBVIOUS
<1>3. 0 \in T
  <2>. DEFINE g == [i \in 1..0 |-> 0]
  <2>1. u[0] = <<>> /\ Len(<<>>) = 0
    BY <1>1 DEF IsPicking
  <2>2. Numbered(<<>>, s, P, 0, g)
    BY DEF Numbered, Increasing
  <2>. HIDE DEF g
  <2>3. QED
    BY <1>2, <2>1, <2>2
<1>4. ASSUME NEW k \in 0..(n - 1), k \in T PROVE k + 1 \in T
  <2>1. PICK g : Numbered(u[k], s, P, k, g)
    BY <1>4
  <2>2. k + 1 \in 1..n /\ k + 1 \in 0..n /\ k \in 0..n /\ (k + 1) - 1 = k
    BY <1>2
  <2>3. u[k + 1] = IF s[k + 1] \in P THEN Append(u[k], s[k + 1]) ELSE u[k]
    BY <1>1, <2>2 DEF IsPicking
  <2>. DEFINE t == u[k]
              m == Len(t)
  <2>4. t \in Seq(S) /\ m \in Nat
    BY <1>1, <2>2
  <2>5. CASE s[k + 1] \notin P
    <3>1. Numbered(t, s, P, k + 1, g)
      <4>. HIDE DEF t
      <4>1. Numbered(t, s, P, k, g)
        BY <2>1 DEF t
      <4>2. \A j \in 1..(k + 1) : s[j] \in P => j \in 1..k
        BY <2>2, <2>5
      <4>3. QED
        BY <2>2, <2>4, <4>1, <4>2 DEF Numbered, Increasing
    <3>2. QED
      BY <2>2, <2>3, <2>5, <3>1
  <2>6. CASE s[k + 1] \in P
    <3>. DEFINE v == Append(t, s[k + 1])
                h == [i \in 1..(m + 1) |-> IF i = m + 1 THEN k + 1 ELSE g[i]]
    <3>1. /\ Len(v) = m + 1 /\ v[m + 1] = s[k + 1]
          /\ \A i \in 1..m : v[i] = t[i]
      BY <1>2, <2>2, <2>4
    <3>2. Numbered(t, s, P, k, g)
      BY <2>1
    <3>. HIDE DEF v, t, m
    <3>3. /\ h \in [1..(m + 1) -> 1..(k + 1)] /\ h[m + 1] = k + 1
          /\ \A i \in 1..m : h[i] = g[i] /\ g[i] \in 1..k
      <4>1. g \in [1..m -> 1..k]
        BY <3>2 DEF Numbered, Increasing, m
      <4>2. \A i \in 1..(m + 1) : i = m + 1 \/ (i \in 1..m /\ i # m + 1 /\ g[i] \in 1..k)
        BY <2>4, <4>1
      <4>3. k + 1 \in 1..(k + 1) /\ 1..k \subseteq 1..(k + 1)
        BY <2>2
      <4>4. \A i \in 1..m : i \in 1..(m + 1) /\ i # m + 1
        BY <2>4
      <4>5. m + 1 \in 1..(m + 1)
        BY <2>4
      <4>6. h \in [1..(m + 1) -> 1..(k + 1)]
        BY <4>2, <4>3
      <4>7. QED
        BY <4>1, <4>4, <4>5, <4>6
    <3>. HIDE DEF h
    <3>4. \A i \in 1..(m + 1) : i = m + 1 \/ i \in 1..m
      BY <2>4
    <3>5. Increasing(h, m + 1, k + 1)
      <4>1. ASSUME NEW i \in 1..(m + 1), NEW j \in 1..(m + 1), i < j
            PROVE  h[i] < h[j]
        <5>1. i \in 1..m /\ h[i] = g[i] /\ g[i] \in 1..k
          BY <2>4, <3>3, <4>1
        <5>2. CASE j = m + 1
          BY <2>2, <3>3, <5>1, <5>2
        <5>3. CASE j \in 1..m
          BY <3>2, <3>3, <4>1, <5>1, <5>3 DEF Numbered, Increasing, m
        <5>4. QED
          BY <3>4, <5>2, <5>3
      <4>2. QED
        BY <3>3, <4>1 DEF Increasing
    <3>6. \A i \in 1..(m + 1) : v[i] = s[h[i]] /\ v[i] \in P
      BY <2>6, <3>1, <3>2, <3>3, <3>4 DEF Numbered, m
    <3>7. ASSUME NEW j \in 1..(k + 1), s[j] \in P
          PROVE  \E i \in 1..(m + 1) : h[i] = j
      <4>1. CASE j = k + 1
        <5>1. m + 1 \in 1..(m + 1)
          BY <2>4
        <5>2. QED
          BY <3>3, <4>1, <5>1
      <4>2. CASE j # k + 1
        <5>1. j \in 1..k
          BY <2>2, <4>2
        <5>2. PICK i \in 1..m : g[i] = j
          BY <3>2, <3>7, <5>1 DEF Numbered, m
        <5>3. i \in 1..(m + 1) /\ h[i] = j
          BY <2>4, <3>3, <5>2
        <5>4. QED
          BY <5>3
      <4>3. QED
        BY <4>1, <4>2
    <3>8. Numbered(v, s, P, k + 1, h)
      BY <3>1, <3>5, <3>6, <3>7 DEF Numbered
    <3>9. u[k + 1] = v
      BY <2>3, <2>6 DEF v, t
    <3>10. QED
      BY <2>2, <3>8, <3>9
  <2>7. QED
    BY <2>5, <2>6
<1>. HIDE DEF T
<1>5. 0..n \subseteq T
  BY <1>2, <1>3, <1>4, BoundedInduction
<1>6. Picked(s, P) = u[n] /\ u[n] \in Seq(S)
  BY <1>1, <1>2 DEF IsPicking
<1>7. \E g : Numbered(u[n], s, P, n, g)
  BY <1>2, <1>5 DEF T
<1>8. QED
  BY <1>6, <1>7

-----------------------------------------------------------------------------
(* What a list holds and in which order *)

(* s lists the members of K, and R puts each place before the later ones.  *)
Sorted(s, K, R) ==
  /\ s \in Seq(K)
  /\ \A x \in K : \E i \in 1..Len(s) : s[i] = x
  /\ \A i, j \in 1..Len(s) : i < j => <<s[i], s[j]>> \in R

LEMMA SortedPlaces ==
  ASSUME NEW s, NEW K, NEW R, Sorted(s, K, R)
  PROVE  Len(s) \in Nat /\ DOMAIN s = 1..Len(s) /\ ToSet(s) = K /\ \A i \in 1..Len(s) : s[i] \in K
<1>1. s \in Seq(K) /\ Len(s) \in Nat /\ DOMAIN s = 1..Len(s) /\ \A i \in 1..Len(s) : s[i] \in K
  BY DEF Sorted
<1>2. \A x \in K : \E i \in 1..Len(s) : s[i] = x
  BY DEF Sorted
<1>3. QED
  BY <1>1, <1>2 DEF ToSet

LEMMA EmptySorted ==
  ASSUME NEW K, NEW R, K = {}
  PROVE  Sorted(<<>>, K, R)
BY DEF Sorted

LEMMA OneSorted ==
  ASSUME NEW x, NEW R
  PROVE  Sorted(<<x>>, {x}, R)
<1>1. <<x>> \in Seq({x}) /\ Len(<<x>>) = 1 /\ <<x>>[1] = x /\ 1..1 = {1}
  OBVIOUS
<1>2. QED
  BY <1>1 DEF Sorted

LEMMA ConcatSorted ==
  ASSUME NEW s, NEW t, NEW K, NEW L, NEW R, Sorted(s, K, R), Sorted(t, L, R), K \X L \subseteq R
  PROVE  Sorted(s \o t, K \cup L, R)
<1>. DEFINE M == K \cup L
            m == Len(s)
            n == Len(t)
            c == s \o t
<1>1. /\ s \in Seq(M) /\ t \in Seq(M) /\ m \in Nat /\ n \in Nat
      /\ \A i \in 1..m : s[i] \in K
      /\ \A i \in 1..n : t[i] \in L
  BY DEF Sorted
<1>2. /\ c \in Seq(M) /\ Len(c) = m + n
      /\ \A i \in 1..m : i \in 1..(m + n) /\ c[i] = s[i]
      /\ \A i \in 1..n : m + i \in 1..(m + n) /\ c[m + i] = t[i]
      /\ \A i \in 1..(m + n) : ~ i \in 1..m => i - m \in 1..n /\ c[i] = t[i - m]
  BY <1>1
<1>. HIDE DEF c, m, n
<1>3. ASSUME NEW x \in M
      PROVE  \E i \in 1..(m + n) : c[i] = x
  <2>1. CASE x \in K
    <3>1. PICK i \in 1..m : s[i] = x
      BY <2>1 DEF Sorted, m
    <3>2. QED
      BY <1>2, <3>1
  <2>2. CASE x \in L
    <3>1. PICK i \in 1..n : t[i] = x
      BY <2>2 DEF Sorted, n
    <3>2. m + i \in 1..(m + n) /\ c[m + i] = x
      BY <1>2, <3>1
    <3>3. QED
      BY <3>2
  <2>3. QED
    BY <2>1, <2>2
<1>4. ASSUME NEW i \in 1..(m + n), NEW j \in 1..(m + n), i < j
      PROVE  <<c[i], c[j]>> \in R
  <2>1. CASE j \in 1..m
    <3>1. i \in 1..m
      BY <1>1, <1>4, <2>1
    <3>2. <<s[i], s[j]>> \in R
      BY <1>4, <2>1, <3>1 DEF Sorted, m
    <3>3. QED
      BY <1>2, <2>1, <3>1, <3>2
  <2>2. CASE ~ j \in 1..m /\ i \in 1..m
    <3>1. c[i] \in K
      BY <1>1, <1>2, <2>2
    <3>2. c[j] \in L
      BY <1>1, <1>2, <2>2
    <3>3. QED
      BY <3>1, <3>2
  <2>3. CASE ~ j \in 1..m /\ ~ i \in 1..m
    <3>. DEFINE a == i - m
                b == j - m
    <3>1. a \in 1..n /\ b \in 1..n /\ c[i] = t[a] /\ c[j] = t[b]
      BY <1>2, <2>3
    <3>2. a < b
      BY <1>1, <1>4
    <3>. HIDE DEF a, b
    <3>3. <<t[a], t[b]>> \in R
      BY <3>1, <3>2 DEF Sorted, n
    <3>4. QED
      BY <3>1, <3>3
  <2>4. QED
    BY <2>1, <2>2, <2>3
<1>5. Sorted(c, M, R)
  BY <1>2, <1>3, <1>4 DEF Sorted
<1>6. QED
  BY <1>5 DEF c

LEMMA NumberedSorted ==
  ASSUME NEW s, NEW K, NEW R, Sorted(s, K, R), NEW P, NEW m \in Nat, NEW g, Increasing(g, m, Len(s)),
         \A i \in 1..m : s[g[i]] \in P,
         \A j \in 1..Len(s) : s[j] \in P => \E i \in 1..m : g[i] = j
  PROVE  Sorted([i \in 1..m |-> s[g[i]]], K \cap P, R)
<1>. DEFINE t == [i \in 1..m |-> s[g[i]]]
<1>1. s \in Seq(K) /\ Len(s) \in Nat /\ \A i \in 1..Len(s) : s[i] \in K
  BY DEF Sorted
<1>2. \A i \in 1..m : g[i] \in 1..Len(s) /\ t[i] = s[g[i]] /\ t[i] \in K \cap P
  BY <1>1 DEF Increasing
<1>3. t \in Seq(K \cap P) /\ Len(t) = m
  BY <1>2
<1>. HIDE DEF t
<1>4. ASSUME NEW x \in K \cap P
      PROVE  \E i \in 1..Len(t) : t[i] = x
  <2>1. PICK j \in 1..Len(s) : s[j] = x
    BY DEF Sorted
  <2>2. PICK i \in 1..m : g[i] = j
    BY <1>4, <2>1
  <2>3. QED
    BY <1>2, <1>3, <2>1, <2>2
<1>5. ASSUME NEW i \in 1..Len(t), NEW j \in 1..Len(t), i < j
      PROVE  <<t[i], t[j]>> \in R
  <2>1. g[i] < g[j]
    BY <1>3, <1>5 DEF Increasing
  <2>2. <<s[g[i]], s[g[j]]>> \in R
    BY <1>2, <1>3, <2>1 DEF Sorted
  <2>3. QED
    BY <1>2, <1>3, <2>2
<1>6. QED
  BY <1>3, <1>4, <1>5 DEF Sorted, t

LEMMA PickedSorted ==
  ASSUME NEW s, NEW K, NEW R, NEW P, Sorted(s, K, R)
  PROVE  Sorted(Picked(s, P), K \cap P, R)
<1>. DEFINE t == Picked(s, P)
<1>1. s \in Seq(K)
  BY DEF Sorted
<1>2. t \in Seq(K) /\ \E g : Numbered(t, s, P, Len(s), g)
  BY <1>1, PickedFacts
<1>3. PICK g : Numbered(t, s, P, Len(s), g)
  BY <1>2
<1>. HIDE DEF t
<1>4. Len(t) \in Nat /\ t = [i \in 1..Len(t) |-> t[i]]
  BY <1>2
<1>5. /\ Increasing(g, Len(t), Len(s))
      /\ \A i \in 1..Len(t) : t[i] = s[g[i]]
      /\ \A i \in 1..Len(t) : s[g[i]] \in P
      /\ \A j \in 1..Len(s) : s[j] \in P => \E i \in 1..Len(t) : g[i] = j
  BY <1>3 DEF Numbered
<1>6. Sorted([i \in 1..Len(t) |-> s[g[i]]], K \cap P, R)
  BY <1>4, <1>5, NumberedSorted
<1>7. t = [i \in 1..Len(t) |-> s[g[i]]]
  BY <1>4, <1>5
<1>8. QED
  BY <1>6, <1>7 DEF t

-----------------------------------------------------------------------------
(* Lists of entries that have keys: the root of each, and the MO it shows  *)

Lists(s, K, R) == \E key : Sorted(key, K, R) /\ s = [i \in 1..Len(key) |-> key[i][2]]

(* By root first.                                                          *)
ByRoot(D, B, A) ==
  {e \in (D \X D) \X (D \X D) :
     \/ <<e[1][1], e[2][1]>> \in B
     \/ e[1][1] = e[2][1] /\ <<e[1][2], e[2][2]>> \in A}

LEMMA EmptyLists ==
  ASSUME NEW K, NEW R, K = {}
  PROVE  Lists(<<>>, K, R)
<1>1. Sorted(<<>>, K, R)
  BY EmptySorted
<1>2. <<>> = [i \in 1..Len(<<>>) |-> <<>>[i][2]]
  OBVIOUS
<1>3. QED
  BY <1>1, <1>2 DEF Lists

LEMMA ConcatLists ==
  ASSUME NEW s, NEW t, NEW K, NEW L, NEW R, Lists(s, K, R), Lists(t, L, R), K \X L \subseteq R
  PROVE  Lists(s \o t, K \cup L, R)
<1>1. PICK a : Sorted(a, K, R) /\ s = [i \in 1..Len(a) |-> a[i][2]]
  BY DEF Lists
<1>2. PICK b : Sorted(b, L, R) /\ t = [i \in 1..Len(b) |-> b[i][2]]
  BY DEF Lists
<1>. DEFINE c == a \o b
<1>3. Sorted(c, K \cup L, R)
  BY <1>1, <1>2, ConcatSorted
<1>4. s \o t = [i \in 1..Len(c) |-> c[i][2]]
  <2>1. a \in Seq(K \cup L) /\ b \in Seq(K \cup L) /\ Len(a) \in Nat /\ Len(b) \in Nat
    BY <1>1, <1>2 DEF Sorted
  <2>. DEFINE U == {e[2] : e \in K \cup L}
              m == Len(a)
              n == Len(b)
  <2>2. /\ c \in Seq(K \cup L) /\ Len(c) = m + n
        /\ \A i \in 1..(m + n) : c[i] = IF i <= m THEN a[i] ELSE b[i - m]
    BY <2>1
  <2>3. s \in Seq(U) /\ t \in Seq(U) /\ Len(s) = m /\ Len(t) = n
    <3>1. \A i \in 1..m : a[i] \in K \cup L
      BY <2>1
    <3>2. \A i \in 1..n : b[i] \in K \cup L
      BY <2>1
    <3>3. \A i \in 1..m : a[i][2] \in U
      BY <3>1
    <3>4. \A i \in 1..n : b[i][2] \in U
      BY <3>2
    <3>. HIDE DEF U
    <3>5. QED
      BY <1>1, <1>2, <2>1, <3>3, <3>4
  <2>. HIDE DEF U, c
  <2>4. /\ s \o t \in Seq(U) /\ Len(s \o t) = m + n
        /\ \A i \in 1..(m + n) : (s \o t)[i] = IF i <= m THEN s[i] ELSE t[i - m]
    BY <2>1, <2>3
  <2>5. \A i \in 1..m : s[i] = a[i][2]
    BY <1>1
  <2>6. \A i \in 1..n : t[i] = b[i][2]
    BY <1>2
  <2>. HIDE DEF m, n
  <2>7. \A i \in 1..(m + n) : (i <= m => i \in 1..m) /\ (~ i <= m => i - m \in 1..n)
    BY <2>1 DEF m, n
  <2>8. \A i \in 1..(m + n) : (s \o t)[i] = c[i][2]
    BY <2>2, <2>4, <2>5, <2>6, <2>7
  <2>. DEFINE v == s \o t
  <2>. HIDE DEF v
  <2>9. v \in Seq(U) /\ Len(v) = m + n
    BY <2>4 DEF v
  <2>10. v = [i \in 1..(m + n) |-> v[i]]
    BY <2>9
  <2>11. \A i \in 1..(m + n) : v[i] = c[i][2]
    BY <2>8 DEF v
  <2>12. v = [i \in 1..Len(c) |-> c[i][2]]
    BY <2>2, <2>10, <2>11
  <2>13. QED
    BY <2>12 DEF v
<1>. HIDE DEF c
<1>5. QED
  BY <1>3, <1>4 DEF Lists

LEMMA PickedLists ==
  ASSUME NEW s, NEW K, NEW R, NEW P, Lists(s, K, R)
  PROVE  Lists(Picked(s, P), {e \in K : e[2] \in P}, R)
<1>1. PICK key : Sorted(key, K, R) /\ s = [i \in 1..Len(key) |-> key[i][2]]
  BY DEF Lists
<1>. DEFINE U == {e[2] : e \in K}
            Q == {e \in K : e[2] \in P}
            t == Picked(s, P)
<1>2. Len(key) \in Nat /\ \A i \in 1..Len(key) : key[i] \in K /\ key[i][2] \in U
  BY <1>1 DEF Sorted
<1>. HIDE DEF U
<1>3. s \in Seq(U) /\ Len(s) = Len(key) /\ \A i \in 1..Len(s) : s[i] = key[i][2]
  BY <1>1, <1>2
<1>4. t \in Seq(U) /\ \E g : Numbered(t, s, P, Len(s), g)
  BY <1>3, PickedFacts
<1>5. PICK g : Numbered(t, s, P, Len(s), g)
  BY <1>4
<1>. HIDE DEF t
<1>6. Len(t) \in Nat /\ t = [i \in 1..Len(t) |-> t[i]]
  BY <1>4
<1>7. /\ Increasing(g, Len(t), Len(key))
      /\ \A i \in 1..Len(t) : t[i] = s[g[i]] /\ t[i] \in P
      /\ \A j \in 1..Len(key) : s[j] \in P => \E i \in 1..Len(t) : g[i] = j
  BY <1>3, <1>5 DEF Numbered
<1>8. \A i \in 1..Len(t) : g[i] \in 1..Len(key)
  BY <1>7 DEF Increasing
<1>9. \A i \in 1..Len(t) : t[i] = key[g[i]][2] /\ key[g[i]] \in Q
  BY <1>2, <1>3, <1>7, <1>8
<1>10. \A j \in 1..Len(key) : key[j] \in Q => \E i \in 1..Len(t) : g[i] = j
  BY <1>3, <1>7
<1>. DEFINE new == [i \in 1..Len(t) |-> key[g[i]]]
<1>11. Sorted(new, K \cap Q, R)
  <2>. HIDE DEF Q
  <2>. DEFINE m == Len(t)
  <2>1. m \in Nat /\ new = [i \in 1..m |-> key[g[i]]]
    BY <1>6
  <2>2. Increasing(g, m, Len(key)) /\ \A i \in 1..m : key[g[i]] \in Q
    BY <1>7, <1>9
  <2>3. \A j \in 1..Len(key) : key[j] \in Q => \E i \in 1..m : g[i] = j
    BY <1>10
  <2>. HIDE DEF m, new
  <2>4. Sorted([i \in 1..m |-> key[g[i]]], K \cap Q, R)
    BY <1>1, <2>1, <2>2, <2>3, NumberedSorted
  <2>5. QED
    BY <2>1, <2>4
<1>12. K \cap Q = Q
  OBVIOUS
<1>13. t = [i \in 1..Len(new) |-> new[i][2]]
  <2>1. Len(new) = Len(t)
    BY <1>6
  <2>2. \A i \in 1..Len(t) : new[i] = key[g[i]]
    OBVIOUS
  <2>. HIDE DEF new
  <2>3. QED
    BY <1>6, <1>9, <2>1, <2>2
<1>. HIDE DEF new, Q
<1>14. Lists(t, Q, R)
  BY <1>11, <1>12, <1>13 DEF Lists
<1>15. QED
  BY <1>14 DEF t, Q

(* The parts of a list, put together turn by turn.                         *)
IsFlattening(u, ps) ==
  /\ u[0] = <<>>
  /\ \A i \in 1..Len(ps) : u[i] = u[i - 1] \o ps[i]
  /\ FlattenSeq(ps) = u[Len(ps)]

LEMMA FlattenLoop ==
  ASSUME NEW S, NEW ps \in Seq(Seq(S))
  PROVE  \E u : IsFlattening(u, ps) /\ \A i \in 0..Len(ps) : u[i] \in Seq(S)
<1>. DEFINE D == Seq(S)
            n == Len(ps)
            step == [x \in D \X (1..n) |-> x[1] \o ps[x[2]]]
            F(f) == [i \in 1..Len(ps) |-> IF i = 1 THEN ps[i] ELSE f[i - 1] \o ps[i]]
            u == CHOOSE f : f = F(f)
<1>1. n \in Nat /\ (\A i \in 1..n : ps[i] \in D) /\ (n = 0 => ps = <<>>)
  OBVIOUS
<1>2. <<>> \in D /\ step \in [D \X (1..n) -> D]
  <2>1. ASSUME NEW x \in D \X (1..n)
        PROVE  x[1] \o ps[x[2]] \in D
    <3>1. x[1] \in D /\ ps[x[2]] \in D
      BY <1>1
    <3>2. QED
      BY <3>1
  <2>2. QED
    BY <2>1
<1>. HIDE DEF D, step, n, u
<1>3. PICK f : IsLoop(f, D, <<>>, n, step)
  BY <1>1, <1>2, LoopExists
<1>4. f[0] = <<>> /\ \A i \in 1..n : f[i] = f[i - 1] \o ps[i]
  <2>1. ASSUME NEW i \in 1..n
        PROVE  f[i] = f[i - 1] \o ps[i]
    <3>1. <<f[i - 1], i>> \in D \X (1..n) /\ f[i] = step[<<f[i - 1], i>>]
      BY <1>1, <1>3 DEF IsLoop
    <3>2. QED
      BY <3>1 DEF step
  <2>2. QED
    BY <1>3, <2>1 DEF IsLoop
<1>5. \A i \in 0..n : f[i] \in Seq(S)
  BY <1>3 DEF IsLoop, D
<1>6. n > 0 => f[1] = ps[1]
  <2>1. SUFFICES ASSUME n > 0
                 PROVE  f[1] = ps[1]
    OBVIOUS
  <2>2. 1 \in 1..n /\ 1 - 1 = 0
    BY <1>1, <2>1
  <2>3. f[1] = f[0] \o ps[1]
    BY <1>4, <2>2
  <2>4. ps[1] \in Seq(S)
    BY <1>1, <2>2 DEF D
  <2>5. <<>> \o ps[1] = ps[1]
    BY <2>4
  <2>6. QED
    BY <1>4, <2>3, <2>5
<1>7. CASE n = 0
  <2>1. FlattenSeq(ps) = <<>>
    BY <1>1, <1>7 DEF FlattenSeq, n
  <2>2. IsFlattening(f, ps)
    BY <1>4, <1>7, <2>1 DEF IsFlattening, n
  <2>3. QED
    BY <1>5, <2>2 DEF n
<1>8. CASE n # 0
  <2>. DEFINE g == [i \in 1..n |-> f[i]]
  <2>1. g = F(g)
    <3>1. ASSUME NEW i \in 1..n
          PROVE  g[i] = IF i = 1 THEN ps[i] ELSE g[i - 1] \o ps[i]
      <4>1. CASE i = 1
        BY <1>1, <1>6, <4>1
      <4>2. CASE i # 1
        <5>1. i - 1 \in 1..n
          BY <1>1, <4>2
        <5>2. QED
          BY <1>4, <4>2, <5>1
      <4>3. QED
        BY <4>1, <4>2
    <3>2. g = [i \in 1..n |-> g[i]]
      OBVIOUS
    <3>. HIDE DEF g
    <3>3. QED
      BY <3>1, <3>2 DEF n
  <2>2. u = F(u)
    <3>. HIDE DEF F, g
    <3>1. \E h : h = F(h)
      BY <2>1
    <3>2. QED
      BY <3>1 DEF u
  <2>3. \A i \in 1..n : u[i] = IF i = 1 THEN ps[i] ELSE u[i - 1] \o ps[i]
    <3>1. u = [i \in 1..n |-> IF i = 1 THEN ps[i] ELSE u[i - 1] \o ps[i]]
      BY <2>2 DEF n
    <3>. HIDE DEF F
    <3>2. QED
      BY <3>1
  <2>. HIDE DEF g, F
  <2>. DEFINE T == {i \in 0..n : i = 0 \/ u[i] = f[i]}
  <2>4. ASSUME NEW i \in 0..(n - 1), i \in T
        PROVE  i + 1 \in T
    <3>1. i + 1 \in 1..n /\ i + 1 \in 0..n /\ (i + 1) - 1 = i
      BY <1>1
    <3>2. CASE i = 0
      <4>1. 1 \in 1..n /\ n > 0
        BY <1>1, <3>1, <3>2
      <4>2. f[1] = ps[1] /\ u[1] = ps[1]
        BY <1>6, <2>3, <4>1
      <4>3. QED
        BY <3>1, <3>2, <4>2
    <3>3. CASE i # 0
      <4>1. u[i] = f[i] /\ i + 1 # 1
        BY <2>4, <3>3
      <4>2. u[i + 1] = u[i] \o ps[i + 1] /\ f[i + 1] = f[i] \o ps[i + 1]
        BY <1>4, <2>3, <3>1, <4>1
      <4>3. QED
        BY <3>1, <4>1, <4>2
    <3>4. QED
      BY <3>2, <3>3
  <2>. HIDE DEF T
  <2>5. 0 \in T
    BY <1>1 DEF T
  <2>6. 0..n \subseteq T
    BY <1>1, <2>4, <2>5, BoundedInduction
  <2>7. u[n] = f[n]
    BY <1>1, <1>8, <2>6 DEF T
  <2>8. FlattenSeq(ps) = u[n]
    BY <1>8 DEF FlattenSeq, u, n, F
  <2>9. IsFlattening(f, ps)
    BY <1>4, <2>7, <2>8 DEF IsFlattening, n
  <2>10. QED
    BY <1>5, <2>9 DEF n
<1>9. QED
  BY <1>7, <1>8

LEMMA TaggedLists ==
  ASSUME NEW D, NEW p, NEW X \in SUBSET D, NEW A, Sorted(p, X, A), NEW r \in D, NEW B
  PROVE  Lists(p, {e \in D \X D : e[1] = r /\ e[2] \in X}, ByRoot(D, B, A))
<1>. DEFINE K == {e \in D \X D : e[1] = r /\ e[2] \in X}
            key == [i \in 1..Len(p) |-> <<r, p[i]>>]
            R == ByRoot(D, B, A)
<1>1. Len(p) \in Nat /\ p \in Seq(X) /\ \A i \in 1..Len(p) : p[i] \in X /\ p[i] \in D
  BY DEF Sorted
<1>2. \A i \in 1..Len(p) : key[i] = <<r, p[i]>> /\ key[i] \in K /\ key[i] \in D \X D
  BY <1>1
<1>3. Len(key) = Len(p) /\ key = [i \in 1..Len(p) |-> key[i]]
  BY <1>1
<1>. HIDE DEF key
<1>4. Sorted(key, K, R)
  <2>1. key \in Seq(K)
    <3>. HIDE DEF K
    <3>1. QED
      BY <1>1, <1>2, <1>3
  <2>2. ASSUME NEW e \in K
        PROVE  \E i \in 1..Len(key) : key[i] = e
    <3>1. e = <<r, e[2]>> /\ e[2] \in X
      OBVIOUS
    <3>2. PICK i \in 1..Len(p) : p[i] = e[2]
      BY <3>1 DEF Sorted
    <3>3. QED
      BY <1>2, <1>3, <3>1, <3>2
  <2>3. ASSUME NEW i \in 1..Len(key), NEW j \in 1..Len(key), i < j
        PROVE  <<key[i], key[j]>> \in R
    <3>1. <<p[i], p[j]>> \in A
      BY <1>3, <2>3 DEF Sorted
    <3>2. key[i] = <<r, p[i]>> /\ key[j] = <<r, p[j]>> /\ key[i] \in D \X D /\ key[j] \in D \X D
      BY <1>2, <1>3
    <3>3. QED
      BY <3>1, <3>2 DEF ByRoot
  <2>4. QED
    BY <2>1, <2>2, <2>3 DEF Sorted
<1>5. p = [i \in 1..Len(key) |-> key[i][2]]
  <2>1. \A i \in 1..Len(p) : p[i] = key[i][2]
    BY <1>2
  <2>2. p = [i \in 1..Len(p) |-> p[i]]
    BY <1>1
  <2>3. QED
    BY <1>3, <2>1, <2>2
<1>6. QED
  BY <1>4, <1>5 DEF Lists

(* One part per root, in the order of the roots, each in its own order.    *)
LEMMA FlattenLists ==
  ASSUME NEW D, NEW roots, NEW RS \in SUBSET D, NEW B, Sorted(roots, RS, B),
         NEW scope \in [D -> SUBSET D], NEW A,
         NEW ps \in Seq(Seq(D)), Len(ps) = Len(roots),
         \A i \in 1..Len(roots) : Sorted(ps[i], scope[roots[i]], A)
  PROVE  Lists(FlattenSeq(ps), {e \in D \X D : e[1] \in RS /\ e[2] \in scope[e[1]]}, ByRoot(D, B, A))
<1>. DEFINE n == Len(ps)
            R == ByRoot(D, B, A)
            K(k) == {e \in D \X D : (\E i \in 1..k : roots[i] = e[1]) /\ e[2] \in scope[e[1]]}
            P(k) == {e \in D \X D : e[1] = roots[k] /\ e[2] \in scope[roots[k]]}
<1>1. n \in Nat /\ \A i \in 1..n : roots[i] \in RS /\ roots[i] \in D /\ scope[roots[i]] \in SUBSET D
  BY DEF Sorted
<1>2. PICK u : IsFlattening(u, ps) /\ \A i \in 0..Len(ps) : u[i] \in Seq(D)
  BY FlattenLoop
<1>. DEFINE S == {k \in 0..n : Lists(u[k], K(k), R)}
<1>3. 0 \in S
  <2>1. K(0) = {}
    OBVIOUS
  <2>. HIDE DEF K, R
  <2>2. Lists(<<>>, K(0), R)
    BY <2>1, EmptyLists
  <2>3. u[0] = <<>>
    BY <1>2 DEF IsFlattening
  <2>4. QED
    BY <1>1, <2>2, <2>3
<1>4. ASSUME NEW k \in 0..(n - 1), k \in S
      PROVE  k + 1 \in S
  <2>1. k + 1 \in 1..n /\ k + 1 \in 0..n /\ k \in 0..n /\ (k + 1) - 1 = k
    BY <1>1
  <2>2. u[k + 1] = u[k] \o ps[k + 1]
    BY <1>2, <2>1 DEF IsFlattening
  <2>3. Lists(u[k], K(k), R)
    BY <1>4
  <2>4. Lists(ps[k + 1], P(k + 1), R)
    <3>1. Sorted(ps[k + 1], scope[roots[k + 1]], A)
      BY <2>1
    <3>2. QED
      BY <1>1, <2>1, <3>1, TaggedLists
  <2>5. K(k) \X P(k + 1) \subseteq R
    <3>1. ASSUME NEW e \in K(k), NEW l \in P(k + 1)
          PROVE  <<e, l>> \in R
      <4>1. PICK i \in 1..k : roots[i] = e[1]
        OBVIOUS
      <4>2. i \in 1..Len(roots) /\ k + 1 \in 1..Len(roots) /\ i < k + 1
        BY <1>1, <2>1
      <4>3. <<roots[i], roots[k + 1]>> \in B
        BY <4>2 DEF Sorted
      <4>4. <<e[1], l[1]>> \in B /\ e \in D \X D /\ l \in D \X D
        BY <4>1, <4>3
      <4>5. <<e, l>> \in (D \X D) \X (D \X D)
        BY <4>4
      <4>6. QED
        BY <4>4, <4>5 DEF ByRoot
    <3>. HIDE DEF K, P, R
    <3>2. QED
      BY <3>1
  <2>6. K(k) \cup P(k + 1) = K(k + 1)
    <3>1. \A i \in 1..(k + 1) : i \in 1..k \/ i = k + 1
      BY <2>1
    <3>2. \A i : (i \in 1..k \/ i = k + 1) => i \in 1..(k + 1)
      BY <2>1
    <3>3. \A d : (\E i \in 1..(k + 1) : roots[i] = d) <=> (\E i \in 1..k : roots[i] = d) \/ roots[k + 1] = d
      BY <3>1, <3>2
    <3>4. QED
      BY <3>3
  <2>. HIDE DEF K, P, R
  <2>7. Lists(u[k] \o ps[k + 1], K(k) \cup P(k + 1), R)
    BY <2>3, <2>4, <2>5, ConcatLists
  <2>8. QED
    BY <2>1, <2>2, <2>6, <2>7
<1>. HIDE DEF S, n
<1>5. 0..n \subseteq S
  <2>1. n \in Nat
    BY <1>1
  <2>2. \A k \in 0..(n - 1) : k \in S => k + 1 \in S
    BY <1>4
  <2>3. QED
    BY <1>3, <2>1, <2>2, BoundedInduction, Zenon
<1>6. Lists(u[n], K(n), R)
  <2>. HIDE DEF K, R
  <2>1. n \in 0..n
    BY <1>1
  <2>2. QED
    BY <1>5, <2>1 DEF S
<1>7. K(n) = {e \in D \X D : e[1] \in RS /\ e[2] \in scope[e[1]]}
  <2>1. \A d \in RS : \E i \in 1..n : roots[i] = d
    BY DEF Sorted, n
  <2>2. QED
    BY <1>1, <2>1
<1>8. FlattenSeq(ps) = u[n]
  BY <1>2 DEF IsFlattening, n
<1>9. QED
  BY <1>6, <1>7, <1>8

-----------------------------------------------------------------------------
(* The order of a walk                                                     *)

LEMMA BelowBelow ==
  ASSUME NEW z \in Dn, NEW y \in Below(z), NEW x \in Below(y)
  PROVE  x \in Below(z)
<1>1. /\ x \in Seq(Rn) /\ y \in Seq(Rn) /\ z \in Seq(Rn)
      /\ Len(z) \in Nat /\ Len(y) \in Nat /\ Len(x) \in Nat
      /\ Len(z) <= Len(y) /\ Len(y) <= Len(x)
      /\ SubSeq(y, 1, Len(z)) = z /\ SubSeq(x, 1, Len(y)) = y
  BY DnAssumption DEF Below
<1>2. \A n \in 1..Len(z) : z[n] = x[n]
  <2>1. \A n \in 1..Len(z) : SubSeq(y, 1, Len(z))[n] = y[n]
    BY <1>1
  <2>2. \A n \in 1..Len(y) : SubSeq(x, 1, Len(y))[n] = x[n]
    BY <1>1
  <2>3. \A n \in 1..Len(z) : n \in 1..Len(y)
    BY <1>1
  <2>4. QED
    BY <1>1, <2>1, <2>2, <2>3
<1>3. SubSeq(x, 1, Len(z)) = z
  <2>1. SubSeq(x, 1, Len(z)) = [n \in 1..Len(z) |-> x[n]]
    BY <1>1
  <2>2. z = [n \in 1..Len(z) |-> z[n]]
    BY <1>1
  <2>3. QED
    BY <1>2, <2>1, <2>2
<1>4. QED
  BY <1>1, <1>3 DEF Below

(* Two DNs above the same one are above one another.                       *)
LEMMA BelowBoth ==
  ASSUME NEW a \in Dn, NEW b \in Dn, NEW x \in Below(a), x \in Below(b), Len(a) <= Len(b)
  PROVE  b \in Below(a) /\ (Len(a) = Len(b) => a = b)
<1>1. /\ x \in Seq(Rn) /\ a \in Seq(Rn) /\ b \in Seq(Rn)
      /\ Len(a) \in Nat /\ Len(b) \in Nat /\ Len(x) \in Nat
      /\ Len(a) <= Len(x) /\ Len(b) <= Len(x)
      /\ SubSeq(x, 1, Len(a)) = a /\ SubSeq(x, 1, Len(b)) = b
  BY DnAssumption DEF Below
<1>2. \A n \in 1..Len(a) : a[n] = x[n]
  <2>1. \A n \in 1..Len(a) : SubSeq(x, 1, Len(a))[n] = x[n]
    BY <1>1
  <2>2. QED
    BY <1>1, <2>1
<1>3. \A n \in 1..Len(b) : b[n] = x[n]
  <2>1. \A n \in 1..Len(b) : SubSeq(x, 1, Len(b))[n] = x[n]
    BY <1>1
  <2>2. QED
    BY <1>1, <2>1
<1>4. SubSeq(b, 1, Len(a)) = a
  <2>1. SubSeq(b, 1, Len(a)) = [n \in 1..Len(a) |-> b[n]]
    BY <1>1
  <2>2. a = [n \in 1..Len(a) |-> a[n]]
    BY <1>1
  <2>3. \A n \in 1..Len(a) : n \in 1..Len(b)
    BY <1>1
  <2>4. \A n \in 1..Len(a) : a[n] = b[n]
    BY <1>2, <1>3, <2>3
  <2>5. QED
    BY <2>1, <2>2, <2>4
<1>5. b \in Below(a)
  BY <1>1, <1>4 DEF Below
<1>6. ASSUME Len(a) = Len(b)
      PROVE  a = b
  BY <1>1, <1>6
<1>7. QED
  BY <1>5, <1>6

LEMMA BelowSelf ==
  ASSUME NEW d \in Dn
  PROVE  d \in Below(d)
<1>1. d \in Seq(Rn) /\ Len(d) \in Nat
  BY DnAssumption
<1>2. SubSeq(d, 1, Len(d)) = d
  BY <1>1
<1>3. QED
  BY <1>1, <1>2 DEF Below

LEMMA BelowLonger ==
  ASSUME NEW d \in Dn, NEW x \in Below(d), x # d
  PROVE  Len(d) \in Nat /\ Len(x) \in Nat /\ Len(d) < Len(x) /\ x \in Dn
<1>1. /\ x \in Seq(Rn) /\ d \in Seq(Rn) /\ Len(d) \in Nat /\ Len(x) \in Nat /\ x \in Dn
      /\ Len(d) <= Len(x) /\ SubSeq(x, 1, Len(d)) = d
  BY DnAssumption DEF Below
<1>2. CASE Len(d) = Len(x)
  <2>1. SubSeq(x, 1, Len(x)) = x
    BY <1>1
  <2>2. QED
    BY <1>1, <1>2, <2>1
<1>3. QED
  BY <1>1, <1>2

(* x comes before y in a walk: y is below x, or an ancestor of x comes     *)
(* before one of y in the list of the same parent.                         *)
Ahead(st) ==
  {e \in Dn \X Dn :
     \/ e[2] \in Below(e[1]) \ {e[1]}
     \/ \E p \in Dn : \E i, j \in 1..Len(st.kids[p]) :
          i < j /\ e[1] \in Below(st.kids[p][i]) /\ e[2] \in Below(st.kids[p][j])}

LEMMA KidsFacts ==
  ASSUME NEW st \in Store, Inv(st), NEW p \in Dn
  PROVE  /\ st.kids[p] \in Seq(Dn) /\ Len(st.kids[p]) \in Nat
         /\ \A i \in 1..Len(st.kids[p]) :
              /\ st.kids[p][i] \in Dn /\ ~ IsTop(st.kids[p][i]) /\ parent_dn(st.kids[p][i]) = p
              /\ Len(st.kids[p][i]) = Len(p) + 1 /\ Len(p) \in Nat
              /\ st.kids[p][i] \in Below(p) \ {p}
         /\ \A i, j \in 1..Len(st.kids[p]) : st.kids[p][i] = st.kids[p][j] => i = j
<1>1. st.kids[p] \in Seq(Dn)
  BY DEF Store
<1>2. ASSUME NEW i \in 1..Len(st.kids[p])
      PROVE  /\ st.kids[p][i] \in Dn /\ ~ IsTop(st.kids[p][i]) /\ parent_dn(st.kids[p][i]) = p
             /\ Len(st.kids[p][i]) = Len(p) + 1 /\ Len(p) \in Nat
             /\ st.kids[p][i] \in Below(p) \ {p}
  <2>. DEFINE c == st.kids[p][i]
  <2>1. c \in Dn /\ ~ IsTop(c) /\ parent_dn(c) = p
    BY <1>1 DEF Inv, LinksOK
  <2>. HIDE DEF c
  <2>2. Len(c) = Len(p) + 1 /\ Len(p) \in Nat
    BY <2>1, ParentDn, DnAssumption
  <2>3. c \in Below(p)
    BY <2>1, BelowSelf, BelowTransitive
  <2>4. QED
    BY <2>1, <2>2, <2>3 DEF c
<1>3. \A i, j \in 1..Len(st.kids[p]) : st.kids[p][i] = st.kids[p][j] => i = j
  BY DEF Inv, LinksOK
<1>4. QED
  BY <1>1, <1>2, <1>3

(* x and y are in lists of the same parent, x in an earlier one.           *)
Parts(st, p, i, j, x, y) ==
  /\ i \in 1..Len(st.kids[p]) /\ j \in 1..Len(st.kids[p]) /\ i < j
  /\ x \in Below(st.kids[p][i]) /\ y \in Below(st.kids[p][j])

LEMMA PartsLower ==
  ASSUME NEW st \in Store, Inv(st), NEW x \in Dn, NEW y \in Dn,
         NEW p \in Dn, NEW i, NEW j, Parts(st, p, i, j, x, y),
         NEW o \in Dn, NEW k, NEW l, k \in 1..Len(st.kids[o]), l \in 1..Len(st.kids[o]),
         x \in Below(st.kids[o][k]), y \in Below(st.kids[o][l])
  PROVE  Len(o) <= Len(p)
<1>. DEFINE a == st.kids[p][i]
            b == st.kids[p][j]
            c == st.kids[o][k]
            d == st.kids[o][l]
<1>1. /\ a \in Dn /\ Len(a) = Len(p) + 1 /\ Len(p) \in Nat /\ x \in Below(a)
      /\ b \in Dn /\ Len(b) = Len(p) + 1 /\ y \in Below(b)
  BY KidsFacts DEF Parts
<1>2. /\ c \in Below(o) /\ x \in Below(c) /\ Len(o) \in Nat
      /\ d \in Below(o) /\ y \in Below(d)
  BY KidsFacts
<1>3. Below(a) \cap Below(b) = {}
  <2>1. i \in 1..Len(st.kids[p]) /\ j \in 1..Len(st.kids[p]) /\ i # j
    BY KidsFacts DEF Parts
  <2>2. QED
    BY <2>1, BelowApart
<1>. HIDE DEF a, b, c, d
<1>4. SUFFICES ASSUME Len(p) < Len(o)
               PROVE  FALSE
  BY <1>1, <1>2
<1>5. x \in Below(o) /\ y \in Below(o)
  BY <1>2, BelowBelow
<1>6. Len(a) <= Len(o) /\ Len(b) <= Len(o)
  BY <1>1, <1>2, <1>4
<1>7. o \in Below(a)
  BY <1>1, <1>5, <1>6, BelowBoth
<1>8. o \in Below(b)
  BY <1>1, <1>5, <1>6, BelowBoth
<1>9. QED
  BY <1>3, <1>7, <1>8

LEMMA AheadStrict ==
  ASSUME NEW st \in Store, Inv(st), NEW x, NEW y, <<x, y>> \in Ahead(st)
  PROVE  <<y, x>> \notin Ahead(st)
<1>1. x \in Dn /\ y \in Dn
  BY DEF Ahead
<1>2. \A u, v : <<u, v>> \in Ahead(st) =>
        \/ v \in Below(u) \ {u}
        \/ \E p \in Dn : \E i, j : Parts(st, p, i, j, u, v)
  BY DEF Ahead, Parts
<1>3. ASSUME NEW u \in Dn, NEW v \in Dn, v \in Below(u) \ {u},
             NEW p \in Dn, NEW i, NEW j, Parts(st, p, i, j, u, v) \/ Parts(st, p, i, j, v, u)
      PROVE  FALSE
  <2>. DEFINE a == st.kids[p][i]
              b == st.kids[p][j]
  <2>1. i \in 1..Len(st.kids[p]) /\ j \in 1..Len(st.kids[p]) /\ i # j
    BY <1>3, KidsFacts DEF Parts
  <2>2. a \in Dn /\ b \in Dn
    BY <2>1, KidsFacts
  <2>3. Below(a) \cap Below(b) = {}
    BY <2>1, BelowApart
  <2>4. (u \in Below(a) /\ v \in Below(b)) \/ (v \in Below(a) /\ u \in Below(b))
    BY <1>3 DEF Parts
  <2>. HIDE DEF a, b
  <2>5. CASE u \in Below(a) /\ v \in Below(b)
    <3>1. v \in Below(a)
      BY <1>3, <2>2, <2>5, BelowBelow
    <3>2. QED
      BY <2>3, <2>5, <3>1
  <2>6. CASE v \in Below(a) /\ u \in Below(b)
    <3>1. v \in Below(b)
      BY <1>3, <2>2, <2>6, BelowBelow
    <3>2. QED
      BY <2>3, <2>6, <3>1
  <2>7. QED
    BY <2>4, <2>5, <2>6
<1>4. SUFFICES ASSUME <<y, x>> \in Ahead(st)
               PROVE  FALSE
  OBVIOUS
<1>5. ~ (y \in Below(x) \ {x} /\ x \in Below(y) \ {y})
  <2>1. SUFFICES ASSUME y \in Below(x) \ {x}, x \in Below(y) \ {y}
                 PROVE  FALSE
    OBVIOUS
  <2>2. Len(x) < Len(y) /\ Len(y) < Len(x) /\ Len(x) \in Nat /\ Len(y) \in Nat
    BY <1>1, <2>1, BelowLonger
  <2>3. QED
    BY <2>2
<1>6. \A p \in Dn : \A i, j : ~ (y \in Below(x) \ {x} /\ Parts(st, p, i, j, y, x))
  BY <1>1, <1>3
<1>7. \A p \in Dn : \A i, j : ~ (x \in Below(y) \ {y} /\ Parts(st, p, i, j, x, y))
  BY <1>1, <1>3
<1>8. ASSUME NEW p \in Dn, NEW i, NEW j, Parts(st, p, i, j, x, y),
             NEW o \in Dn, NEW k, NEW l, Parts(st, o, k, l, y, x)
      PROVE  FALSE
  <2>1. /\ i \in 1..Len(st.kids[p]) /\ j \in 1..Len(st.kids[p]) /\ i < j
        /\ x \in Below(st.kids[p][i]) /\ y \in Below(st.kids[p][j])
    BY <1>8 DEF Parts
  <2>2. /\ k \in 1..Len(st.kids[o]) /\ l \in 1..Len(st.kids[o]) /\ k < l
        /\ y \in Below(st.kids[o][k]) /\ x \in Below(st.kids[o][l])
    BY <1>8 DEF Parts
  <2>3. Len(o) <= Len(p)
    BY <1>1, <1>8, <2>2, PartsLower
  <2>4. Len(p) <= Len(o)
    BY <1>1, <1>8, <2>1, PartsLower
  <2>. DEFINE a == st.kids[p][i]
              b == st.kids[p][j]
              c == st.kids[o][k]
              d == st.kids[o][l]
  <2>5. /\ a \in Dn /\ b \in Dn /\ Len(a) = Len(p) + 1 /\ Len(b) = Len(p) + 1 /\ Len(p) \in Nat
        /\ parent_dn(a) = p
    BY <2>1, KidsFacts
  <2>6. /\ c \in Dn /\ d \in Dn /\ Len(c) = Len(o) + 1 /\ Len(d) = Len(o) + 1 /\ Len(o) \in Nat
        /\ parent_dn(d) = o
    BY <2>2, KidsFacts
  <2>. HIDE DEF a, b, c, d
  <2>7. Len(a) = Len(d) /\ Len(b) = Len(c) /\ Len(a) <= Len(d) /\ Len(b) <= Len(c)
    BY <2>3, <2>4, <2>5, <2>6
  <2>8. a = d
    <3>1. x \in Below(a) /\ x \in Below(d)
      BY <2>1, <2>2 DEF a, d
    <3>2. QED
      BY <2>5, <2>6, <2>7, <3>1, BelowBoth
  <2>9. b = c
    <3>1. y \in Below(b) /\ y \in Below(c)
      BY <2>1, <2>2 DEF b, c
    <3>2. QED
      BY <2>5, <2>6, <2>7, <3>1, BelowBoth
  <2>10. o = p
    BY <2>5, <2>6, <2>8
  <2>11. i = l /\ j = k
    BY <2>1, <2>2, <2>8, <2>9, <2>10, KidsFacts DEF a, b, c, d
  <2>12. i \in Int /\ j \in Int
    BY <2>1
  <2>13. QED
    BY <2>1, <2>2, <2>11, <2>12
<1>9. QED
  BY <1>2, <1>4, <1>5, <1>6, <1>7, <1>8

(* A change of the store that keeps the order of what stays keeps that of  *)
(* the walks.                                                              *)
LEMMA AheadKept ==
  ASSUME NEW st \in Store, Inv(st), NEW new \in Store, Inv(new), KeepsOrder(st, new),
         NEW x \in Present(new), NEW y \in Present(new), <<x, y>> \in Ahead(st)
  PROVE  <<x, y>> \in Ahead(new)
<1>1. x \in Dn /\ y \in Dn
  BY DEF Present
<1>2. CASE y \in Below(x) \ {x}
  BY <1>1, <1>2 DEF Ahead
<1>3. ASSUME NEW p \in Dn, NEW i \in 1..Len(st.kids[p]), NEW j \in 1..Len(st.kids[p]), i < j,
             x \in Below(st.kids[p][i]), y \in Below(st.kids[p][j])
      PROVE  <<x, y>> \in Ahead(new)
  <2>. DEFINE a == st.kids[p][i]
              b == st.kids[p][j]
  <2>1. a \in Dn /\ ~ IsTop(a) /\ parent_dn(a) = p /\ b \in Dn /\ ~ IsTop(b) /\ parent_dn(b) = p
    BY KidsFacts
  <2>2. x \in Below(a) /\ y \in Below(b)
    BY <1>3
  <2>. HIDE DEF a, b
  <2>3. x \in Below(p) \ {p} /\ Towards(p, x) = a
    BY <2>1, <2>2, AboveParent
  <2>4. y \in Below(p) \ {p} /\ Towards(p, y) = b
    BY <2>1, <2>2, AboveParent
  <2>5. PICK k \in 1..Len(new.kids[p]) : new.kids[p][k] = a
    BY <2>3, TowardsLinked
  <2>6. PICK l \in 1..Len(new.kids[p]) : new.kids[p][l] = b
    BY <2>4, TowardsLinked
  <2>7. k < l
    <3>1. SameOrder(st.kids[p], new.kids[p])
      BY DEF KeepsOrder
    <3>2. st.kids[p][i] = new.kids[p][k] /\ st.kids[p][j] = new.kids[p][l]
      BY <2>5, <2>6 DEF a, b
    <3>3. QED
      BY <1>3, <3>1, <3>2 DEF SameOrder
  <2>8. x \in Below(new.kids[p][k]) /\ y \in Below(new.kids[p][l])
    BY <2>2, <2>5, <2>6
  <2>9. QED
    BY <1>1, <2>7, <2>8 DEF Ahead
<1>4. QED
  BY <1>2, <1>3 DEF Ahead

-----------------------------------------------------------------------------
(* What the reads of the store list                                        *)

Inside(st, d) == Present(st) \cap (Below(d) \ {d})

LEMMA WalkSorted ==
  ASSUME NEW st \in Store, Inv(st), NEW walk, NEW p \in Dn,
         \A i \in 1..Len(st.kids[p]) :
           Sorted(walk[st.kids[p][i]], Inside(st, st.kids[p][i]), Ahead(st))
  PROVE  Sorted(Walked(st, walk, p), Inside(st, p), Ahead(st))
<1>. DEFINE n == Len(st.kids[p])
            c(i) == st.kids[p][i]
            A == Ahead(st)
            Shown(k) == {x \in Present(st) : \E i \in 1..k : x \in Below(c(i))}
<1>1. /\ n \in Nat
      /\ \A i \in 1..n : c(i) \in Dn /\ c(i) \in Below(c(i)) /\ c(i) \in Below(p) \ {p}
  BY KidsFacts, BelowSelf
<1>2. \A i \in 1..n : walk[c(i)] \in Seq(Dn)
  <2>1. \A i \in 1..n : walk[c(i)] \in Seq(Inside(st, c(i)))
    BY DEF Sorted
  <2>2. \A i \in 1..n : Inside(st, c(i)) \subseteq Dn
    BY DEF Inside, Present
  <2>3. QED
    BY <2>1, <2>2
<1>3. PICK u : IsWalk(u, st, walk, p)
  BY <1>2, WalkedLoop
<1>. DEFINE S == {k \in 0..n : Sorted(u[k], Shown(k), A)}
<1>4. 0 \in S
  <2>1. Shown(0) = {}
    OBVIOUS
  <2>2. u[0] = <<>>
    BY <1>3 DEF IsWalk
  <2>. HIDE DEF Shown, A
  <2>3. Sorted(<<>>, Shown(0), A)
    BY <2>1, EmptySorted
  <2>4. QED
    BY <1>1, <2>2, <2>3
<1>5. ASSUME NEW k \in 0..(n - 1), k \in S
      PROVE  k + 1 \in S
  <2>1. k + 1 \in 1..n /\ k + 1 \in 0..n /\ k \in 0..n /\ (k + 1) - 1 = k /\ k \in Nat
    BY <1>1
  <2>. DEFINE e == c(k + 1)
  <2>2. u[k + 1] = u[k] \o Own(st, e) \o walk[e]
    BY <1>3, <2>1 DEF IsWalk
  <2>3. Sorted(u[k], Shown(k), A)
    BY <1>5
  <2>4. Sorted(walk[e], Inside(st, e), A)
    BY <2>1
  <2>5. e \in Dn /\ e \in Below(e)
    BY <1>1, <2>1
  <2>6. \A x \in Shown(k) : \A y \in Below(e) : y \in Dn => <<x, y>> \in A
    <3>1. ASSUME NEW x \in Shown(k), NEW y \in Below(e), y \in Dn
          PROVE  <<x, y>> \in A
      <4>1. PICK i \in 1..k : x \in Below(c(i))
        OBVIOUS
      <4>2. i \in 1..n /\ i < k + 1
        BY <1>1, <2>1
      <4>3. x \in Dn
        BY DEF Present
      <4>4. QED
        BY <2>1, <3>1, <4>1, <4>2, <4>3 DEF Ahead
    <3>2. QED
      BY <3>1
  <2>. HIDE DEF e, A
  <2>7. Sorted(Own(st, e), {e} \cap Present(st), A)
    <3>1. CASE e \in Present(st)
      <4>1. Own(st, e) = <<e>> /\ {e} \cap Present(st) = {e}
        BY <3>1 DEF Own
      <4>2. QED
        BY <4>1, OneSorted
    <3>2. CASE e \notin Present(st)
      <4>1. Own(st, e) = <<>> /\ {e} \cap Present(st) = {}
        BY <3>2 DEF Own
      <4>2. QED
        BY <4>1, EmptySorted
    <3>3. QED
      BY <3>1, <3>2
  <2>. DEFINE I == {e} \cap Present(st)
  <2>8. Shown(k) \X I \subseteq A
    BY <2>5, <2>6
  <2>9. (Shown(k) \cup I) \X Inside(st, e) \subseteq A
    <3>1. Inside(st, e) \subseteq Below(e) /\ Inside(st, e) \subseteq Dn /\ Inside(st, e) \subseteq Below(e) \ {e}
      BY DEF Inside, Present
    <3>2. \A y \in Inside(st, e) : <<e, y>> \in A
      BY <2>5, <3>1 DEF A, Ahead
    <3>. HIDE DEF Shown
    <3>3. QED
      BY <2>6, <3>1, <3>2
  <2>10. (Shown(k) \cup I) \cup Inside(st, e) = Shown(k + 1)
    <3>1. I \cup Inside(st, e) = {x \in Present(st) : x \in Below(e)}
      BY <2>5 DEF Inside
    <3>2. \A i : i \in 1..(k + 1) <=> i \in 1..k \/ i = k + 1
      BY <2>1
    <3>3. Shown(k + 1) = Shown(k) \cup {x \in Present(st) : x \in Below(e)}
      BY <3>2 DEF e
    <3>. HIDE DEF Shown, I
    <3>4. QED
      BY <3>1, <3>3
  <2>. HIDE DEF Shown, I
  <2>11. Sorted(u[k] \o Own(st, e), Shown(k) \cup I, A)
    BY <2>3, <2>7, <2>8, ConcatSorted DEF I
  <2>12. Sorted((u[k] \o Own(st, e)) \o walk[e], (Shown(k) \cup I) \cup Inside(st, e), A)
    BY <2>4, <2>9, <2>11, ConcatSorted
  <2>13. Sorted(u[k + 1], Shown(k + 1), A)
    BY <2>2, <2>10, <2>12
  <2>14. QED
    BY <2>1, <2>13
<1>. HIDE DEF S, n
<1>6. 0..n \subseteq S
  <2>1. n \in Nat
    BY <1>1
  <2>2. \A k \in 0..(n - 1) : k \in S => k + 1 \in S
    BY <1>5
  <2>3. QED
    BY <1>4, <2>1, <2>2, BoundedInduction, Zenon
<1>7. Sorted(u[n], Shown(n), A)
  <2>1. n \in 0..n
    BY <1>1
  <2>. HIDE DEF Shown, A
  <2>2. QED
    BY <1>6, <2>1 DEF S
<1>8. Shown(n) = Inside(st, p)
  <2>1. UNION {({c(i)} \cap Present(st)) \cup (Present(st) \cap (Below(c(i)) \ {c(i)})) : i \in 1..n}
          = Inside(st, p)
    BY BelowChildren DEF Inside, n
  <2>2. \A i \in 1..n : ({c(i)} \cap Present(st)) \cup (Present(st) \cap (Below(c(i)) \ {c(i)}))
                          = Present(st) \cap Below(c(i))
    BY <1>1
  <2>3. Shown(n) = UNION {Present(st) \cap Below(c(i)) : i \in 1..n}
    OBVIOUS
  <2>4. QED
    BY <2>1, <2>2, <2>3
<1>9. Walked(st, walk, p) = u[n]
  BY <1>3 DEF IsWalk, n
<1>10. QED
  BY <1>7, <1>8, <1>9

LEMMA SubtreeSorted ==
  ASSUME NEW st \in Store, Inv(st), Small(st), NEW d \in Dn
  PROVE  Sorted(Subtree(st, d), Inside(st, d), Ahead(st))
<1>1. PICK walk : /\ \A p \in Dn : Subtree(st, p) = walk[p]
                  /\ \A p \in Dn : walk[p] = Walked(st, walk, p)
  BY SubtreeUnfolds
<1>. DEFINE R == {p \in Dn : Sorted(walk[p], Inside(st, p), Ahead(st))}
<1>2. ASSUME NEW p \in Dn, \A i \in 1..Len(st.kids[p]) : st.kids[p][i] \in R
      PROVE  p \in R
  <2>1. Sorted(Walked(st, walk, p), Inside(st, p), Ahead(st))
    BY <1>2, WalkSorted
  <2>2. QED
    BY <1>1, <2>1
<1>. HIDE DEF R
<1>3. Dn \subseteq R
  BY <1>2, HeightInduction
<1>4. QED
  BY <1>1, <1>3 DEF R

LEMMA ChildrenSorted ==
  ASSUME NEW st \in Store, Inv(st), NEW d \in Dn
  PROVE  Sorted(Children(st, d), {x \in Present(st) : ~ IsTop(x) /\ parent_dn(x) = d}, Ahead(st))
<1>. DEFINE s == st.kids[d]
            K == {s[i] : i \in 1..Len(s)}
<1>1. /\ s \in Seq(Dn) /\ Len(s) \in Nat
      /\ \A i \in 1..Len(s) : s[i] \in Dn /\ s[i] \in Below(s[i]) /\ ~ IsTop(s[i]) /\ parent_dn(s[i]) = d
  BY KidsFacts, BelowSelf
<1>2. Sorted(s, K, Ahead(st))
  <2>1. s \in Seq(K)
    BY <1>1
  <2>2. \A i, j \in 1..Len(s) : i < j => <<s[i], s[j]>> \in Ahead(st)
    BY <1>1 DEF Ahead
  <2>. HIDE DEF s
  <2>3. QED
    BY <2>1, <2>2 DEF Sorted
<1>3. Sorted(Children(st, d), K \cap Present(st), Ahead(st))
  <2>. HIDE DEF K
  <2>1. QED
    BY <1>2, PickedSorted DEF Children
<1>4. K \cap Present(st) = {x \in Present(st) : ~ IsTop(x) /\ parent_dn(x) = d}
  <2>1. ASSUME NEW x \in Present(st), ~ IsTop(x), parent_dn(x) = d
        PROVE  x \in K
    <3>1. x \in Dn
      BY DEF Present
    <3>2. \E i \in 1..Len(st.kids[parent_dn(x)]) : st.kids[parent_dn(x)][i] = x
      BY <2>1, <3>1 DEF Inv, ChainOK
    <3>3. QED
      BY <2>1, <3>2
  <2>2. QED
    BY <1>1, <2>1
<1>5. QED
  BY <1>3, <1>4

LEMMA RootsSorted ==
  ASSUME NEW st \in Store, Inv(st), Small(st), NEW q \in Params
  PROVE  Sorted(Roots(st, q), RootSet(st, q), st.before)
<1>1. Sorted(InsertionOrder(st), Present(st), st.before)
  <2>. DEFINE o == InsertionOrder(st)
  <2>1. /\ o \in Seq(Present(st)) /\ \A d \in Present(st) : \E i \in 1..Len(o) : o[i] = d
        /\ \A i, j \in 1..Len(o) : i < j <=> <<o[i], o[j]>> \in st.before
    BY OrderListed
  <2>. HIDE DEF o
  <2>2. Sorted(o, Present(st), st.before)
    BY <2>1 DEF Sorted
  <2>3. QED
    BY <2>2 DEF o
<1>2. q.kind \in {"class", "mo", "node"}
  BY DEF Params
<1>3. CASE q.kind = "mo"
  <2>1. RootSet(st, q) = {q.dn} \cap Present(st)
    BY <1>3 DEF RootSet
  <2>2. Roots(st, q) = IF q.dn \in Present(st) THEN <<q.dn>> ELSE <<>>
    BY <1>3 DEF Roots
  <2>3. CASE q.dn \in Present(st)
    <3>1. RootSet(st, q) = {q.dn} /\ Roots(st, q) = <<q.dn>>
      BY <2>1, <2>2, <2>3
    <3>2. QED
      BY <3>1, OneSorted
  <2>4. CASE q.dn \notin Present(st)
    <3>1. RootSet(st, q) = {} /\ Roots(st, q) = <<>>
      BY <2>1, <2>2, <2>4
    <3>2. QED
      BY <3>1, EmptySorted
  <2>5. QED
    BY <2>3, <2>4
<1>4. CASE q.kind = "class"
  <2>1. RootSet(st, q) = Present(st) \cap OfClass(st, q)
    BY <1>4 DEF RootSet, OfClass
  <2>2. Roots(st, q) = Picked(InsertionOrder(st), OfClass(st, q))
    BY <1>4 DEF Roots
  <2>3. QED
    BY <1>1, <2>1, <2>2, PickedSorted
<1>5. CASE q.kind = "node"
  <2>. DEFINE P == OfClass(st, q) \cap (Below(q.dn) \ {q.dn})
  <2>1. RootSet(st, q) = Present(st) \cap P
    BY <1>5 DEF RootSet, OfClass
  <2>2. Roots(st, q) = Picked(InsertionOrder(st), P)
    BY <1>5 DEF Roots
  <2>. HIDE DEF P
  <2>3. QED
    BY <1>1, <2>1, <2>2, PickedSorted
<1>6. QED
  BY <1>2, <1>3, <1>4, <1>5

(* The keys of an answer: each root with each MO that is shown on its account. *)
Keys(st, q) == {e \in Dn \X Dn : e[1] \in RootSet(st, q) /\ Shows(st, q, e[1], e[2])}

Order(st) == ByRoot(Dn, st.before, Ahead(st))

(* What a root has in its scope, whatever the classes and the filter.      *)
Spans(st, q) ==
  [r \in Dn |-> IF q.target = "subtree" THEN Present(st) \cap Below(r)
                 ELSE {x \in Present(st) : ~ IsTop(x) /\ parent_dn(x) = r}]

LEMMA InScopeSorted ==
  ASSUME NEW st \in Store, Inv(st), Small(st), NEW q \in Params, NEW r \in Present(st)
  PROVE  Sorted(InScope(st, q, r), Spans(st, q)[r], Ahead(st)) /\ InScope(st, q, r) \in Seq(Dn)
<1>1. r \in Dn /\ r \in Below(r)
  BY BelowSelf DEF Present
<1>2. CASE q.target = "subtree"
  <2>1. Sorted(<<r>>, {r}, Ahead(st))
    BY OneSorted
  <2>2. Sorted(Subtree(st, r), Inside(st, r), Ahead(st))
    BY <1>1, SubtreeSorted
  <2>3. {r} \X Inside(st, r) \subseteq Ahead(st)
    <3>1. \A x \in Inside(st, r) : x \in Dn /\ x \in Below(r) \ {r}
      BY DEF Inside, Present
    <3>2. QED
      BY <1>1, <3>1 DEF Ahead
  <2>4. Sorted(<<r>> \o Subtree(st, r), {r} \cup Inside(st, r), Ahead(st))
    BY <2>1, <2>2, <2>3, ConcatSorted
  <2>5. {r} \cup Inside(st, r) = Present(st) \cap Below(r)
    BY <1>1 DEF Inside
  <2>6. Spans(st, q)[r] = Present(st) \cap Below(r)
    BY <1>1, <1>2 DEF Spans
  <2>7. InScope(st, q, r) = <<r>> \o Subtree(st, r)
    BY <1>2 DEF InScope
  <2>8. Sorted(InScope(st, q, r), Present(st) \cap Below(r), Ahead(st))
    BY <2>4, <2>5, <2>7
  <2>9. InScope(st, q, r) \in Seq(Present(st) \cap Below(r)) /\ Present(st) \cap Below(r) \subseteq Dn
    BY <2>8 DEF Sorted, Present
  <2>10. QED
    BY <2>6, <2>8, <2>9
<1>3. CASE q.target # "subtree"
  <2>. DEFINE K == {x \in Present(st) : ~ IsTop(x) /\ parent_dn(x) = r}
  <2>1. Sorted(Children(st, r), K, Ahead(st))
    BY <1>1, ChildrenSorted
  <2>2. Spans(st, q)[r] = K /\ InScope(st, q, r) = Children(st, r)
    BY <1>1, <1>3 DEF Spans, InScope
  <2>3. K \subseteq Dn
    BY DEF Present
  <2>. HIDE DEF K
  <2>4. Children(st, r) \in Seq(K)
    BY <2>1 DEF Sorted
  <2>5. QED
    BY <2>1, <2>2, <2>3, <2>4
<1>4. QED
  BY <1>2, <1>3

LEMMA SelfLists ==
  ASSUME NEW D, NEW s, NEW K \in SUBSET D, NEW B, Sorted(s, K, B), NEW A
  PROVE  Lists(s, {e \in D \X D : e[1] \in K /\ e[2] = e[1]}, ByRoot(D, B, A))
<1>. DEFINE L == {e \in D \X D : e[1] \in K /\ e[2] = e[1]}
            key == [i \in 1..Len(s) |-> <<s[i], s[i]>>]
            R == ByRoot(D, B, A)
<1>1. Len(s) \in Nat /\ s \in Seq(K) /\ \A i \in 1..Len(s) : s[i] \in K /\ s[i] \in D
  BY DEF Sorted
<1>2. \A i \in 1..Len(s) : key[i] = <<s[i], s[i]>> /\ key[i] \in L /\ key[i] \in D \X D
  BY <1>1
<1>3. Len(key) = Len(s) /\ key = [i \in 1..Len(s) |-> key[i]]
  BY <1>1
<1>. HIDE DEF key
<1>4. Sorted(key, L, R)
  <2>1. key \in Seq(L)
    <3>. HIDE DEF L
    <3>1. QED
      BY <1>1, <1>2, <1>3
  <2>2. ASSUME NEW e \in L
        PROVE  \E i \in 1..Len(key) : key[i] = e
    <3>1. e = <<e[1], e[1]>> /\ e[1] \in K
      OBVIOUS
    <3>2. PICK i \in 1..Len(s) : s[i] = e[1]
      BY <3>1 DEF Sorted
    <3>3. QED
      BY <1>2, <1>3, <3>1, <3>2
  <2>3. ASSUME NEW i \in 1..Len(key), NEW j \in 1..Len(key), i < j
        PROVE  <<key[i], key[j]>> \in R
    <3>1. <<s[i], s[j]>> \in B
      BY <1>3, <2>3 DEF Sorted
    <3>2. key[i] = <<s[i], s[i]>> /\ key[j] = <<s[j], s[j]>> /\ key[i] \in D \X D /\ key[j] \in D \X D
      BY <1>2, <1>3
    <3>3. QED
      BY <3>1, <3>2 DEF ByRoot
  <2>4. QED
    BY <2>1, <2>2, <2>3 DEF Sorted
<1>5. s = [i \in 1..Len(key) |-> key[i][2]]
  <2>1. \A i \in 1..Len(s) : s[i] = key[i][2]
    BY <1>2
  <2>2. s = [i \in 1..Len(s) |-> s[i]]
    BY <1>1
  <2>3. QED
    BY <1>3, <2>1, <2>2
<1>6. QED
  BY <1>4, <1>5 DEF Lists

(* An answer lists, by root and then in the order of the walk, exactly     *)
(* what DN prefixes, classes and the filter say.                           *)
LEMMA ScopeLists ==
  ASSUME NEW st \in Store, Inv(st), Small(st), NEW q \in Params
  PROVE  Lists(Scope(st, q), Keys(st, q), Order(st))
<1>. DEFINE roots == Roots(st, q)
            RS == RootSet(st, q)
<1>1. Sorted(roots, RS, st.before)
  BY RootsSorted
<1>2. RS \subseteq Present(st) /\ RS \subseteq Dn
  BY DEF RootSet, Present
<1>3. CASE ~ Flat(q)
  <2>. DEFINE M == RS \cap Matching(st, q)
  <2>1. Scope(st, q) = Picked(roots, Matching(st, q))
    BY <1>3 DEF Scope
  <2>2. Sorted(Picked(roots, Matching(st, q)), M, st.before)
    BY <1>1, PickedSorted
  <2>3. M \in SUBSET Dn
    BY <1>2
  <2>4. Keys(st, q) = {e \in Dn \X Dn : e[1] \in M /\ e[2] = e[1]}
    <3>1. \A e \in Dn \X Dn : (e[1] \in RS /\ Shows(st, q, e[1], e[2])) <=> (e[1] \in M /\ e[2] = e[1])
      BY <1>2, <1>3 DEF Shows, Matching
    <3>. HIDE DEF M, RS
    <3>2. {e \in Dn \X Dn : e[1] \in RS /\ Shows(st, q, e[1], e[2])} = {e \in Dn \X Dn : e[1] \in M /\ e[2] = e[1]}
      BY <3>1
    <3>3. QED
      BY <3>2 DEF Keys, RS
  <2>. HIDE DEF M, RS, roots
  <2>5. Lists(Picked(roots, Matching(st, q)), {e \in Dn \X Dn : e[1] \in M /\ e[2] = e[1]}, Order(st))
    BY <2>2, <2>3, SelfLists DEF Order
  <2>6. QED
    BY <2>1, <2>4, <2>5
<1>4. CASE Flat(q)
  <2>. DEFINE ps == [i \in DOMAIN roots |-> InScope(st, q, roots[i])]
              P == Wanted(st, q) \cap Matching(st, q)
              K == {e \in Dn \X Dn : e[1] \in RS /\ e[2] \in Spans(st, q)[e[1]]}
  <2>1. Scope(st, q) = Picked(FlattenSeq(ps), P)
    BY <1>4 DEF Scope
  <2>2. Len(roots) \in Nat /\ DOMAIN roots = 1..Len(roots) /\ \A i \in 1..Len(roots) : roots[i] \in Present(st)
    <3>. HIDE DEF roots, RS
    <3>1. QED
      BY <1>1, <1>2, SortedPlaces
  <2>3. \A i \in 1..Len(roots) : /\ Sorted(InScope(st, q, roots[i]), Spans(st, q)[roots[i]], Ahead(st))
                                  /\ InScope(st, q, roots[i]) \in Seq(Dn)
    <3>. HIDE DEF roots
    <3>1. QED
      BY <2>2, InScopeSorted
  <2>4. /\ ps \in Seq(Seq(Dn)) /\ Len(ps) = Len(roots)
        /\ \A i \in 1..Len(roots) : Sorted(ps[i], Spans(st, q)[roots[i]], Ahead(st))
    <3>. HIDE DEF roots
    <3>1. ps = [i \in 1..Len(roots) |-> InScope(st, q, roots[i])]
      BY <2>2
    <3>2. \A i \in 1..Len(roots) : ps[i] = InScope(st, q, roots[i])
      BY <3>1
    <3>. HIDE DEF ps
    <3>3. ps \in [1..Len(roots) -> Seq(Dn)]
      BY <2>3, <3>1, <3>2
    <3>4. QED
      BY <2>2, <2>3, <3>2, <3>3
  <2>5. Spans(st, q) \in [Dn -> SUBSET Dn]
    <3>1. \A r \in Dn : Present(st) \cap Below(r) \in SUBSET Dn
      BY DEF Present
    <3>2. \A r \in Dn : {x \in Present(st) : ~ IsTop(x) /\ parent_dn(x) = r} \in SUBSET Dn
      BY DEF Present
    <3>3. QED
      BY <3>1, <3>2 DEF Spans
  <2>6. RS \in SUBSET Dn
    BY <1>2
  <2>. HIDE DEF ps, roots, RS
  <2>7. Lists(FlattenSeq(ps), K, Order(st))
    BY <1>1, <2>4, <2>5, <2>6, FlattenLists DEF Order
  <2>. HIDE DEF K
  <2>8. Lists(Picked(FlattenSeq(ps), P), {e \in K : e[2] \in P}, Order(st))
    BY <2>7, PickedLists
  <2>9. {e \in K : e[2] \in P} = Keys(st, q)
    <3>1. q.target \in {"subtree", "children"}
      BY <1>4 DEF Flat, Params
    <3>2. ASSUME NEW e \in Dn \X Dn
          PROVE  (e[2] \in Spans(st, q)[e[1]] /\ e[2] \in P) <=> Shows(st, q, e[1], e[2])
      <4>1. CASE q.target = "subtree"
        <5>1. Spans(st, q)[e[1]] = Present(st) \cap Below(e[1])
          BY <3>2, <4>1 DEF Spans
        <5>2. Shows(st, q, e[1], e[2]) <=> e[2] \in Present(st) /\ Hit(st, q, e[2]) /\ e[2] \in Below(e[1])
          BY <1>4, <4>1 DEF Shows
        <5>3. QED
          BY <5>1, <5>2 DEF Hit, Wanted, Matching
      <4>2. CASE q.target = "children"
        <5>1. Spans(st, q)[e[1]] = {x \in Present(st) : ~ IsTop(x) /\ parent_dn(x) = e[1]}
          BY <3>2, <4>2 DEF Spans
        <5>2. Shows(st, q, e[1], e[2]) <=>
                e[2] \in Present(st) /\ Hit(st, q, e[2]) /\ ~ IsTop(e[2]) /\ parent_dn(e[2]) = e[1]
          BY <1>4, <4>2 DEF Shows
        <5>3. QED
          BY <5>1, <5>2 DEF Hit, Wanted, Matching
      <4>3. QED
        BY <3>1, <4>1, <4>2
    <3>. HIDE DEF P
    <3>3. QED
      BY <3>2 DEF K, Keys, RS
  <2>10. QED
    BY <2>1, <2>8, <2>9
<1>5. QED
  BY <1>3, <1>4

LEMMA RankStrict ==
  ASSUME NEW st \in Store, Inv(st), NEW k, NEW l, <<k, l>> \in Order(st)
  PROVE  <<l, k>> \notin Order(st)
<1>1. \A a, b : ~ (<<a, b>> \in st.before /\ <<b, a>> \in st.before)
  BY DEF Inv, OrderOK
<1>2. \A e \in Order(st) :
        \/ <<e[1][1], e[2][1]>> \in st.before
        \/ e[1][1] = e[2][1] /\ <<e[1][2], e[2][2]>> \in Ahead(st)
  BY DEF Order, ByRoot
<1>3. SUFFICES ASSUME <<l, k>> \in Order(st)
               PROVE  FALSE
  OBVIOUS
<1>. DEFINE a == k[1]
            b == l[1]
<1>4. \/ <<a, b>> \in st.before
      \/ a = b /\ <<k[2], l[2]>> \in Ahead(st)
  BY <1>2
<1>5. \/ <<b, a>> \in st.before
      \/ b = a /\ <<l[2], k[2]>> \in Ahead(st)
  BY <1>2, <1>3
<1>. HIDE DEF a, b
<1>6. ~ (<<k[2], l[2]>> \in Ahead(st) /\ <<l[2], k[2]>> \in Ahead(st))
  BY AheadStrict
<1>7. QED
  BY <1>1, <1>4, <1>5, <1>6

-----------------------------------------------------------------------------
(* What a write does to the answer of a query                              *)

(* The entries of s stand in t, in the same order.                         *)
Embeds(s, t) ==
  \E f : Increasing(f, Len(s), Len(t)) /\ \A i \in 1..Len(s) : t[f[i]] = s[i]

LEMMA SortedEmbeds ==
  ASSUME NEW s, NEW K, NEW R, Sorted(s, K, R), NEW t, NEW L, NEW Q, Sorted(t, L, Q),
         K \subseteq L, \A x, y \in K : <<x, y>> \in R => <<x, y>> \in Q,
         \A x, y : <<x, y>> \in Q => <<y, x>> \notin Q
  PROVE  Embeds(s, t)
<1>1. /\ Len(s) \in Nat /\ Len(t) \in Nat
      /\ \A i \in 1..Len(s) : s[i] \in K
      /\ \A x \in L : \E j \in 1..Len(t) : t[j] = x
  BY SortedPlaces DEF Sorted
<1>. DEFINE f == [i \in 1..Len(s) |-> CHOOSE j \in 1..Len(t) : t[j] = s[i]]
<1>2. \A i \in 1..Len(s) : f[i] \in 1..Len(t) /\ t[f[i]] = s[i]
  BY <1>1
<1>3. f \in [1..Len(s) -> 1..Len(t)]
  BY <1>2
<1>. HIDE DEF f
<1>4. ASSUME NEW i \in 1..Len(s), NEW j \in 1..Len(s), i < j
      PROVE  f[i] < f[j]
  <2>1. <<s[i], s[j]>> \in R
    BY <1>4 DEF Sorted
  <2>2. <<t[f[i]], t[f[j]]>> \in Q
    BY <1>1, <1>2, <2>1
  <2>3. f[i] # f[j]
    BY <2>2
  <2>4. ~ (f[j] < f[i])
    <3>1. SUFFICES ASSUME f[j] < f[i]
                   PROVE  FALSE
      OBVIOUS
    <3>2. <<t[f[j]], t[f[i]]>> \in Q
      BY <1>2, <3>1 DEF Sorted
    <3>3. QED
      BY <2>2, <3>2
  <2>5. f[i] \in Int /\ f[j] \in Int
    BY <1>2
  <2>6. QED
    BY <2>3, <2>4, <2>5
<1>5. QED
  BY <1>2, <1>3, <1>4 DEF Embeds, Increasing

LEMMA ListsEmbed ==
  ASSUME NEW s, NEW K, NEW R, Lists(s, K, R), NEW t, NEW L, NEW Q, Lists(t, L, Q),
         K \subseteq L, \A x, y \in K : <<x, y>> \in R => <<x, y>> \in Q,
         \A x, y : <<x, y>> \in Q => <<y, x>> \notin Q
  PROVE  Embeds(s, t)
<1>1. PICK a : Sorted(a, K, R) /\ s = [i \in 1..Len(a) |-> a[i][2]]
  BY DEF Lists
<1>2. PICK b : Sorted(b, L, Q) /\ t = [i \in 1..Len(b) |-> b[i][2]]
  BY DEF Lists
<1>3. Embeds(a, b)
  BY <1>1, <1>2, SortedEmbeds
<1>4. PICK f : Increasing(f, Len(a), Len(b)) /\ \A i \in 1..Len(a) : b[f[i]] = a[i]
  BY <1>3 DEF Embeds
<1>5. Len(a) \in Nat /\ Len(b) \in Nat
  BY <1>1, <1>2 DEF Sorted
<1>6. Len(s) = Len(a) /\ Len(t) = Len(b)
  BY <1>1, <1>2, <1>5
<1>7. \A i \in 1..Len(a) : f[i] \in 1..Len(b)
  BY <1>4 DEF Increasing
<1>8. \A i \in 1..Len(a) : t[f[i]] = s[i]
  BY <1>1, <1>2, <1>4, <1>7
<1>9. QED
  BY <1>4, <1>6, <1>8 DEF Embeds

LEMMA EmbedsLater ==
  ASSUME NEW s, NEW t, Len(s) \in Nat, Len(t) \in Nat, Embeds(s, t), NEW i \in 1..Len(s)
  PROVE  \E j \in 1..Len(t) : i <= j /\ t[j] = s[i]
<1>1. PICK f : Increasing(f, Len(s), Len(t)) /\ \A k \in 1..Len(s) : t[f[k]] = s[k]
  BY DEF Embeds
<1>2. i <= f[i]
  BY <1>1, IncreasingAbove
<1>3. f[i] \in 1..Len(t)
  BY <1>1 DEF Increasing
<1>4. QED
  BY <1>1, <1>2, <1>3

LEMMA ListsSet ==
  ASSUME NEW s, NEW K, NEW R, Lists(s, K, R)
  PROVE  /\ Len(s) \in Nat /\ DOMAIN s = 1..Len(s)
         /\ ToSet(s) = {e[2] : e \in K}
<1>1. PICK a : Sorted(a, K, R) /\ s = [i \in 1..Len(a) |-> a[i][2]]
  BY DEF Lists
<1>2. Len(a) \in Nat /\ (\A i \in 1..Len(a) : a[i] \in K) /\ \A x \in K : \E i \in 1..Len(a) : a[i] = x
  BY <1>1 DEF Sorted
<1>3. Len(s) = Len(a) /\ DOMAIN s = 1..Len(a) /\ \A i \in 1..Len(a) : s[i] = a[i][2]
  BY <1>1, <1>2
<1>4. ToSet(s) \subseteq {e[2] : e \in K}
  BY <1>2, <1>3 DEF ToSet
<1>5. ASSUME NEW e \in K
      PROVE  e[2] \in ToSet(s)
  <2>1. PICK i \in 1..Len(a) : a[i] = e
    BY <1>2
  <2>2. s[i] = e[2]
    BY <1>3, <2>1
  <2>3. QED
    BY <1>3, <2>2 DEF ToSet
<1>6. QED
  BY <1>2, <1>3, <1>4, <1>5

(* What a write to the store does: it keeps the order and the classes of   *)
(* what stays, takes nothing from above it, and puts new MOs at the end.   *)
Changes(st, new) ==
  /\ KeepsOrder(st, new)
  /\ \A x \in Present(st) \cap Present(new) : new.mo[x].class = st.mo[x].class
  /\ \A x \in Present(st) \cap Present(new) : \A r \in Present(st) : x \in Below(r) => r \in Present(new)
  /\ \A x \in Present(st) \cap Present(new) : \A y : <<y, x>> \in new.before => y \in Present(st)

LEMMA UpsertChanges ==
  ASSUME NEW st \in Store, Inv(st), NEW d \in Dn, NEW m \in MO
  PROVE  Changes(st, UpsertOne(st, d, m))
<1>. DEFINE new == UpsertOne(st, d, m)
<1>1. KeepsOrder(st, new)
  BY UpsertOneOrder
<1>2. \A a, b : <<a, b>> \in st.before => a \in Present(st) /\ b \in Present(st)
  BY DEF Inv, OrderOK
<1>3. st.mo \in [Dn -> MO \cup {NoMO}]
  BY DEF Store
<1>4. CASE d \in Present(st)
  <2>1. new = [st EXCEPT !.mo[d].val = IF m.val = Unset THEN @ ELSE m.val]
    BY <1>4 DEF UpsertOne
  <2>2. new.before = st.before
    BY <2>1
  <2>3. st.mo[d] \in MO
    BY <1>3, <1>4 DEF Present
  <2>4. \A x \in Dn : x # d => new.mo[x] = st.mo[x]
    BY <1>3, <2>1 DEF Store
  <2>5. new.mo[d].class = st.mo[d].class
    BY <1>3, <1>4, <2>1, <2>3 DEF Store, MO, Present
  <2>6. new.mo[d] \in MO /\ DOMAIN new.mo = Dn
    <3>1. new \in Store
      BY UpsertOneInv
    <3>2. new.mo[d] = [st.mo[d] EXCEPT !.val = IF m.val = Unset THEN @ ELSE m.val]
      BY <1>3, <2>1 DEF Store
    <3>3. QED
      BY <2>3, <3>1, <3>2 DEF Store, MO
  <2>7. Present(new) = Present(st)
    BY <1>4, <2>4, <2>6, NoMOAssumption DEF Present
  <2>. HIDE DEF new
  <2>8. \A x \in Present(st) : new.mo[x].class = st.mo[x].class
    BY <2>4, <2>5 DEF Present
  <2>9. QED
    BY <1>1, <1>2, <2>2, <2>7, <2>8 DEF Changes, new
<1>5. CASE d \notin Present(st)
  <2>1. new = AddOne(st, d, m)
    BY <1>5 DEF UpsertOne
  <2>2. new.before = st.before \cup (Present(st) \X {d}) /\ new.mo = [st.mo EXCEPT ![d] = m]
    BY <1>5, <2>1 DEF AddOne, Inserted
  <2>3. \A x \in Dn : x # d => new.mo[x] = st.mo[x]
    BY <1>3, <2>2
  <2>. HIDE DEF new
  <2>4. \A x \in Present(st) : x # d /\ x \in Dn /\ new.mo[x] = st.mo[x] /\ x \in Present(new)
    BY <1>5, <2>3 DEF Present
  <2>5. \A x \in Present(st) : \A y : <<y, x>> \in new.before => y \in Present(st)
    BY <1>2, <2>2, <2>4
  <2>6. QED
    BY <1>1, <2>4, <2>5 DEF Changes, new
<1>6. QED
  BY <1>4, <1>5

LEMMA RemoveChanges ==
  ASSUME NEW st \in Store, Inv(st), NEW d \in Dn
  PROVE  Changes(st, RemoveSubtree(st, d))
<1>. DEFINE new == RemoveSubtree(st, d)
<1>1. KeepsOrder(st, new)
  BY RemoveSubtreeOrder
<1>2. \A a, b : <<a, b>> \in st.before => a \in Present(st) /\ b \in Present(st)
  BY DEF Inv, OrderOK
<1>3. new.mo = [x \in Dn |-> IF x \in Below(d) THEN NoMO ELSE st.mo[x]]
  BY RemoveSubtreeInv
<1>4. new.before \subseteq st.before
  BY DEF RemoveSubtree
<1>. HIDE DEF new
<1>5. \A x \in Dn : x \in Present(new) <=> x \in Present(st) /\ x \notin Below(d)
  BY <1>3 DEF Present
<1>6. \A x \in Present(new) : x \in Dn /\ new.mo[x] = st.mo[x]
  BY <1>3, <1>5 DEF Present
<1>7. ASSUME NEW x \in Present(st) \cap Present(new), NEW r \in Present(st), x \in Below(r)
      PROVE  r \in Present(new)
  <2>1. x \in Dn /\ r \in Dn /\ x \notin Below(d)
    BY <1>5 DEF Present
  <2>2. r \notin Below(d)
    BY <1>7, <2>1, BelowBelow
  <2>3. QED
    BY <1>5, <2>1, <2>2
<1>8. QED
  BY <1>1, <1>2, <1>4, <1>6, <1>7 DEF Changes, new

LEMMA KeysKept ==
  ASSUME NEW st \in Store, Inv(st), Small(st), NEW new \in Store, Inv(new), Small(new),
         Changes(st, new), NEW q \in Params,
         ToSet(Scope(st, q)) \subseteq ToSet(Scope(new, q))
  PROVE  Keys(st, q) \subseteq Keys(new, q)
<1>1. /\ ToSet(Scope(st, q)) = {e[2] : e \in Keys(st, q)}
      /\ ToSet(Scope(new, q)) = {e[2] : e \in Keys(new, q)}
  BY ScopeLists, ListsSet
<1>2. SUFFICES ASSUME NEW e \in Keys(st, q)
               PROVE  e \in Keys(new, q)
  OBVIOUS
<1>. DEFINE r == e[1]
            x == e[2]
<1>3. e \in Dn \X Dn /\ r \in Dn /\ x \in Dn /\ r \in RootSet(st, q) /\ Shows(st, q, r, x)
  BY DEF Keys
<1>4. PICK l \in Keys(new, q) : l[2] = x
  BY <1>1
<1>5. Shows(new, q, l[1], x)
  BY <1>4 DEF Keys
<1>. HIDE DEF r, x
<1>6. x \in Present(st) /\ x \in Present(new) /\ r \in Present(st)
  BY <1>3, <1>5 DEF Shows, RootSet
<1>7. q.target \in {"none", "subtree", "children"}
  BY DEF Params
<1>8. x \in Below(r)
  <2>1. CASE ~ Flat(q)
    BY <1>3, <2>1, BelowSelf DEF Shows
  <2>2. CASE Flat(q) /\ q.target = "subtree"
    BY <1>3, <2>2 DEF Shows
  <2>3. CASE Flat(q) /\ q.target = "children"
    <3>1. ~ IsTop(x) /\ parent_dn(x) = r
      BY <1>3, <2>3 DEF Shows
    <3>2. x \in Below(x)
      BY <1>3, BelowSelf
    <3>3. QED
      BY <1>3, <3>1, <3>2, AboveParent
  <2>4. QED
    BY <1>7, <2>1, <2>2, <2>3 DEF Flat
<1>9. r \in Present(new) /\ new.mo[r].class = st.mo[r].class
  <2>1. r \in Present(new)
    BY <1>6, <1>8 DEF Changes
  <2>2. QED
    BY <1>6, <2>1 DEF Changes
<1>10. r \in RootSet(new, q)
  BY <1>3, <1>9 DEF RootSet
<1>11. Shows(new, q, r, x)
  BY <1>3, <1>5 DEF Shows
<1>12. QED
  BY <1>3, <1>10, <1>11 DEF Keys, r, x

(* If no MO leaves a listing, those in it keep their order, and none comes *)
(* nearer to its start.                                                    *)
LEMMA ScopeEmbeds ==
  ASSUME NEW st \in Store, Inv(st), Small(st), NEW new \in Store, Inv(new), Small(new),
         Changes(st, new), NEW q \in Params,
         ToSet(Scope(st, q)) \subseteq ToSet(Scope(new, q))
  PROVE  Embeds(Scope(st, q), Scope(new, q))
<1>1. Keys(st, q) \subseteq Keys(new, q)
  BY KeysKept
<1>2. Lists(Scope(st, q), Keys(st, q), Order(st)) /\ Lists(Scope(new, q), Keys(new, q), Order(new))
  BY ScopeLists
<1>3. \A x, y : <<x, y>> \in Order(new) => <<y, x>> \notin Order(new)
  BY RankStrict
<1>4. ASSUME NEW e \in Keys(st, q), NEW l \in Keys(st, q), <<e, l>> \in Order(st)
      PROVE  <<e, l>> \in Order(new)
  <2>1. e \in Keys(new, q) /\ l \in Keys(new, q)
    BY <1>1
  <2>2. /\ e \in Dn \X Dn /\ e[1] \in Present(st) /\ e[1] \in Present(new) /\ e[2] \in Present(new)
        /\ l \in Dn \X Dn /\ l[1] \in Present(st) /\ l[1] \in Present(new) /\ l[2] \in Present(new)
    BY <2>1 DEF Keys, RootSet, Shows
  <2>3. \/ <<e[1], l[1]>> \in st.before
        \/ e[1] = l[1] /\ <<e[2], l[2]>> \in Ahead(st)
    BY <1>4 DEF Order, ByRoot
  <2>4. KeepsOrder(st, new)
    BY DEF Changes
  <2>5. <<e, l>> \in (Dn \X Dn) \X (Dn \X Dn)
    BY <2>2
  <2>6. CASE <<e[1], l[1]>> \in st.before
    <3>1. <<e[1], l[1]>> \in new.before
      BY <2>2, <2>4, <2>6 DEF KeepsOrder
    <3>2. QED
      BY <2>5, <3>1 DEF Order, ByRoot
  <2>7. CASE e[1] = l[1] /\ <<e[2], l[2]>> \in Ahead(st)
    <3>1. <<e[2], l[2]>> \in Ahead(new)
      BY <2>2, <2>4, <2>7, AheadKept
    <3>2. QED
      BY <2>5, <2>7, <3>1 DEF Order, ByRoot
  <2>8. QED
    BY <2>3, <2>6, <2>7
<1>5. QED
  BY <1>1, <1>2, <1>3, <1>4, ListsEmbed

LEMMA ScopeTyped ==
  ASSUME NEW st \in Store, Inv(st), Small(st), NEW q \in Params
  PROVE  /\ Scope(st, q) \in Seq(Dn) /\ Len(Scope(st, q)) \in Nat
         /\ \A i \in 1..Len(Scope(st, q)) : Scope(st, q)[i] \in Present(st)
<1>1. PICK key : /\ Sorted(key, Keys(st, q), Order(st))
                 /\ Scope(st, q) = [i \in 1..Len(key) |-> key[i][2]]
  BY ScopeLists DEF Lists
<1>2. Len(key) \in Nat /\ \A i \in 1..Len(key) : key[i] \in Keys(st, q)
  BY <1>1 DEF Sorted
<1>3. \A i \in 1..Len(key) : key[i][2] \in Dn /\ key[i][2] \in Present(st)
  BY <1>2 DEF Keys, Shows
<1>4. QED
  BY <1>1, <1>2, <1>3

LEMMA UnfilteredSorted ==
  ASSUME NEW st \in Store, Inv(st), Small(st), NEW q \in Params, Unfiltered(q)
  PROVE  Sorted(Scope(st, q), RootSet(st, q), st.before)
<1>1. ~ Flat(q) /\ q.filter = NoFilter
  BY DEF Unfiltered, Flat
<1>2. Scope(st, q) = Picked(Roots(st, q), Matching(st, q))
  BY <1>1 DEF Scope
<1>3. Sorted(Scope(st, q), RootSet(st, q) \cap Matching(st, q), st.before)
  BY <1>2, RootsSorted, PickedSorted
<1>4. RootSet(st, q) \subseteq Matching(st, q)
  <2>1. \A d \in Present(st) : st.mo[d] \in MO
    BY DEF Present, Store
  <2>2. \A d \in Present(st) : FilterHolds(q.filter, st.mo[d])
    BY <1>1, <2>1, FilterAssumption
  <2>3. QED
    BY <2>2 DEF RootSet, Matching
<1>5. RootSet(st, q) \cap Matching(st, q) = RootSet(st, q)
  BY <1>4
<1>6. QED
  BY <1>3, <1>5

LEMMA PlaceFalls ==
  ASSUME NEW st \in Store, Inv(st), Small(st), NEW new \in Store, Inv(new), Small(new),
         Changes(st, new), NEW q \in Params, Unfiltered(q),
         NEW i \in 1..Len(Scope(st, q)), NEW j \in 1..Len(Scope(new, q)),
         Scope(st, q)[i] = Scope(new, q)[j]
  PROVE  j <= i
<1>. DEFINE s == Scope(st, q)
            t == Scope(new, q)
<1>1. Sorted(s, RootSet(st, q), st.before) /\ Sorted(t, RootSet(new, q), new.before)
  BY UnfilteredSorted
<1>2. i \in 1..Len(s) /\ j \in 1..Len(t) /\ s[i] = t[j]
  OBVIOUS
<1>. HIDE DEF s, t
<1>3. /\ Len(s) \in Nat /\ Len(t) \in Nat
      /\ \A k \in 1..Len(s) : s[k] \in RootSet(st, q)
      /\ \A k \in 1..Len(t) : t[k] \in RootSet(new, q)
  BY <1>1, SortedPlaces
<1>4. RootSet(st, q) \subseteq Present(st) /\ RootSet(new, q) \subseteq Present(new)
  BY DEF RootSet
<1>5. t[j] \in Present(st) \cap Present(new)
  BY <1>2, <1>3, <1>4
<1>. DEFINE u == [k \in 1..j |-> t[k]]
            K == {t[k] : k \in 1..j}
<1>6. \A k \in 1..j : k \in 1..Len(t)
  BY <1>2, <1>3
<1>7. \A k \in 1..j : t[k] \in Present(st)
  <2>1. \A k \in 1..j : k # j => <<t[k], t[j]>> \in new.before
    <3>1. \A k \in 1..j : k # j => k < j
      BY <1>2
    <3>2. QED
      BY <1>1, <1>2, <1>6, <3>1 DEF Sorted
  <2>2. QED
    BY <1>5, <2>1 DEF Changes
<1>8. K \subseteq RootSet(st, q)
  <2>1. ASSUME NEW k \in 1..j
        PROVE  t[k] \in RootSet(st, q)
    <3>. DEFINE x == t[k]
    <3>1. x \in RootSet(new, q) /\ x \in Present(st) /\ x \in Present(new)
      BY <1>3, <1>4, <1>6, <1>7
    <3>. HIDE DEF x
    <3>2. new.mo[x].class = st.mo[x].class
      BY <3>1 DEF Changes
    <3>3. x \in RootSet(st, q)
      BY <3>1, <3>2 DEF RootSet
    <3>4. QED
      BY <3>3 DEF x
  <2>2. QED
    BY <2>1
<1>9. Sorted(u, K, new.before)
  <2>1. u \in Seq(K) /\ Len(u) = j /\ \A k \in 1..j : u[k] = t[k]
    BY <1>2
  <2>2. \A k, l \in 1..j : k < l => <<t[k], t[l]>> \in new.before
    BY <1>1, <1>6 DEF Sorted
  <2>3. \A x \in K : \E k \in 1..j : u[k] = x
    BY <2>1
  <2>. HIDE DEF u, K
  <2>4. QED
    BY <2>1, <2>2, <2>3 DEF Sorted
<1>10. \A x, y \in K : <<x, y>> \in new.before => <<x, y>> \in st.before
  <2>1. \A x \in K : x \in Present(st) /\ x \in Present(new)
    BY <1>3, <1>4, <1>6, <1>7
  <2>. HIDE DEF K
  <2>2. QED
    BY <2>1 DEF Changes, KeepsOrder
<1>11. \A x, y : <<x, y>> \in st.before => <<y, x>> \notin st.before
  BY DEF Inv, OrderOK
<1>12. Len(u) = j /\ u[j] = t[j]
  BY <1>2
<1>. HIDE DEF u, K
<1>13. Embeds(u, s)
  BY <1>1, <1>8, <1>9, <1>10, <1>11, SortedEmbeds
<1>14. PICK f : Increasing(f, j, Len(s)) /\ s[f[j]] = t[j]
  <2>1. PICK f : Increasing(f, Len(u), Len(s)) /\ \A k \in 1..Len(u) : s[f[k]] = u[k]
    BY <1>13 DEF Embeds
  <2>2. j \in 1..Len(u)
    BY <1>2, <1>12
  <2>3. QED
    BY <1>12, <2>1, <2>2
<1>15. j \in 1..j /\ j \in Nat
  BY <1>2
<1>16. f[j] \in 1..Len(s) /\ j <= f[j]
  BY <1>3, <1>14, <1>15, IncreasingAbove DEF Increasing
<1>17. f[j] = i
  <2>1. ~ (f[j] < i) /\ ~ (i < f[j])
    <3>1. \A a, b \in 1..Len(s) : a < b => <<s[a], s[b]>> \in st.before
      BY <1>1 DEF Sorted
    <3>2. s[f[j]] = s[i]
      BY <1>2, <1>14
    <3>3. QED
      BY <1>2, <1>11, <1>16, <3>1, <3>2
  <2>2. QED
    BY <1>2, <1>16, <2>1
<1>18. QED
  BY <1>16, <1>17

-----------------------------------------------------------------------------
(* Pages *)

LEMMA PaginateFacts ==
  ASSUME NEW S, NEW s \in Seq(S), NEW p \in Nat, NEW z \in Nat \ {0}
  PROVE  /\ p * z \in Nat /\ (p + 1) * z = p * z + z
         /\ Paginate(s, p, z) \in Seq(S) /\ Len(Paginate(s, p, z)) \in Nat
         /\ Len(Paginate(s, p, z)) < z <=> Len(s) < (p + 1) * z
         /\ \A k \in 1..Len(Paginate(s, p, z)) :
              /\ p * z + k \in 1..Len(s) /\ p * z + k <= (p + 1) * z
              /\ Paginate(s, p, z)[k] = s[p * z + k]
         /\ \A i \in 1..Len(s) : p * z < i /\ i <= (p + 1) * z =>
              i - p * z \in 1..Len(Paginate(s, p, z))
<1>. DEFINE a == p * z
            b == (p + 1) * z
            m == IF b > Len(s) THEN Len(s) ELSE b
            c == SubSeq(s, a + 1, m)
<1>1. a \in Nat /\ b = a + z
  OBVIOUS
<1>2. Paginate(s, p, z) = c
  BY DEF Paginate
<1>. HIDE DEF a, b
<1>3. Len(s) \in Nat /\ m \in Nat /\ m <= Len(s)
  BY <1>1
<1>. DEFINE n == IF a + 1 <= m THEN m - a ELSE 0
<1>4. c \in Seq(S) /\ Len(c) = n /\ \A k \in 1..n : c[k] = s[a + k]
  <2>. HIDE DEF m
  <2>1. c = [k \in 1..(1 + m - (a + 1)) |-> s[(a + 1) + k - 1]]
    BY <1>1, <1>3
  <2>2. 1..(1 + m - (a + 1)) = 1..n
    BY <1>1, <1>3
  <2>3. \A k \in 1..n : (a + 1) + k - 1 = a + k /\ a + k \in 1..Len(s)
    BY <1>1, <1>3
  <2>4. c = [k \in 1..n |-> s[a + k]]
    BY <2>1, <2>2, <2>3
  <2>5. n \in Nat /\ \A k \in 1..n : s[a + k] \in S
    BY <1>1, <1>3, <2>3
  <2>. HIDE DEF c, n
  <2>6. QED
    BY <2>4, <2>5
<1>. HIDE DEF c
<1>5. n \in Nat /\ (n < z <=> Len(s) < b)
  BY <1>1, <1>3
<1>6. \A k \in 1..n : a + k \in 1..Len(s) /\ a + k <= b
  BY <1>1, <1>3
<1>7. \A i \in 1..Len(s) : a < i /\ i <= b => i - a \in 1..n
  BY <1>1, <1>3
<1>. HIDE DEF n
<1>8. /\ a \in Nat /\ b = a + z
      /\ c \in Seq(S) /\ Len(c) \in Nat
      /\ Len(c) < z <=> Len(s) < b
      /\ \A k \in 1..Len(c) : a + k \in 1..Len(s) /\ a + k <= b /\ c[k] = s[a + k]
      /\ \A i \in 1..Len(s) : a < i /\ i <= b => i - a \in 1..Len(c)
  BY <1>1, <1>4, <1>5, <1>6, <1>7
<1>9. QED
  BY <1>2, <1>8 DEF a, b

LEMMA PageIs ==
  ASSUME NEW st, NEW q, NEW p \in Nat, NEW S, Scope(st, q) \in Seq(S), Size(q) \in Nat \ {0}
  PROVE  /\ Dns(Answer(st, q, p).imdata) = Paginate(Scope(st, q), p, Size(q))
         /\ Answer(st, q, p).total = Len(Scope(st, q))
<1>. DEFINE cut == Paginate(Scope(st, q), p, Size(q))
            es == [i \in 1..Len(cut) |-> Entry(st, q, cut[i])]
<1>1. cut \in Seq(S) /\ Len(cut) \in Nat
  BY PaginateFacts
<1>2. Answer(st, q, p).imdata = es /\ Answer(st, q, p).total = Len(Scope(st, q))
  BY DEF Answer
<1>. HIDE DEF cut
<1>3. Len(es) = Len(cut) /\ \A i \in 1..Len(cut) : es[i] = Entry(st, q, cut[i])
  BY <1>1
<1>4. \A i \in 1..Len(cut) : Entry(st, q, cut[i]).dn = cut[i]
  BY DEF Entry
<1>. HIDE DEF es
<1>5. Dns(es) = [i \in 1..Len(cut) |-> es[i].dn]
  BY <1>3 DEF Dns
<1>6. \A i \in 1..Len(cut) : es[i].dn = cut[i]
  BY <1>3, <1>4
<1>7. cut = [i \in 1..Len(cut) |-> cut[i]]
  BY <1>1
<1>8. Dns(es) = cut
  BY <1>5, <1>6, <1>7
<1>9. QED
  BY <1>2, <1>8 DEF cut

-----------------------------------------------------------------------------
(* A client that turns pages                                               *)

(* How many entries of the listing its pages so far have covered.          *)
Seen(l) == (l.page + 1) * Size(l.q)

OnceOf(s, d) == \A i, j \in 1..Len(s) : s[i] = d /\ s[j] = d => i = j

(* What was there throughout has been shown or is on a page to come.       *)
NothingMissed(st, l) ==
  ~ l.lost =>
    \A d \in l.kept :
      \/ d \in ToSet(l.got)
      \/ ~ l.done /\ \E i \in 1..Len(Scope(st, l.q)) : Seen(l) < i /\ Scope(st, l.q)[i] = d

(* What has been shown is on the pages that are over.                      *)
NothingTwice(st, l) ==
  Unfiltered(l.q) =>
    \A d \in l.kept :
      /\ OnceOf(l.got, d)
      /\ d \in ToSet(l.got) => \E i \in 1..Len(Scope(st, l.q)) : i <= Seen(l) /\ Scope(st, l.q)[i] = d

ReadInv(st, l) ==
  /\ l \in Listing
  /\ Size(l.q) \in Nat \ {0}
  /\ l.kept \subseteq ToSet(Scope(st, l.q))
  /\ NothingMissed(st, l)
  /\ NothingTwice(st, l)

StoreInv(st) == st \in Store /\ Inv(st) /\ Small(st)

LEMMA ReadThroughWrite ==
  ASSUME NEW st, StoreInv(st), NEW new, StoreInv(new), Changes(st, new), NEW l, ReadInv(st, l), NEW k,
         k = [l EXCEPT !.kept = @ \cap ToSet(Scope(new, l.q)),
                       !.lost = @ \/ ~ ToSet(Scope(st, l.q)) \subseteq ToSet(Scope(new, l.q))]
  PROVE  ReadInv(new, k)
<1>. DEFINE s == Scope(st, l.q)
            t == Scope(new, l.q)
<1>1. l \in Listing /\ l.q \in Params
  BY QueryAssumption DEF ReadInv, Listing
<1>2. /\ s \in Seq(Dn) /\ Len(s) \in Nat /\ t \in Seq(Dn) /\ Len(t) \in Nat
  BY <1>1, ScopeTyped DEF StoreInv
<1>3. /\ k.q = l.q /\ k.page = l.page /\ k.got = l.got /\ k.done = l.done
      /\ k.kept = l.kept \cap ToSet(t)
      /\ k.lost = (l.lost \/ ~ ToSet(s) \subseteq ToSet(t))
  BY <1>1 DEF Listing
<1>4. k \in Listing
  <2>1. l.lost \in BOOLEAN /\ l.kept \in SUBSET Dn
    BY <1>1 DEF Listing
  <2>2. (l.lost \/ ~ ToSet(s) \subseteq ToSet(t)) \in BOOLEAN /\ l.kept \cap ToSet(t) \in SUBSET Dn
    BY <2>1
  <2>. HIDE DEF s, t
  <2>3. k = [l EXCEPT !.kept = l.kept \cap ToSet(t), !.lost = (l.lost \/ ~ ToSet(s) \subseteq ToSet(t))]
    BY <1>1 DEF Listing, s, t
  <2>4. QED
    BY <1>1, <2>2, <2>3 DEF Listing
<1>5. Seen(k) = Seen(l)
  BY <1>3 DEF Seen
<1>6. k.kept \subseteq l.kept /\ k.kept \subseteq ToSet(t)
  BY <1>3
<1>. DEFINE a == Seen(l)
<1>7. a \in Nat
  <2>1. l.page \in Nat /\ Size(l.q) \in Nat
    BY <1>1 DEF ReadInv, Listing
  <2>2. QED
    BY <2>1 DEF Seen
<1>8. NothingMissed(new, k)
  <2>1. SUFFICES ASSUME ~ k.lost, NEW d \in k.kept, d \notin ToSet(k.got)
                 PROVE  ~ k.done /\ \E i \in 1..Len(t) : a < i /\ t[i] = d
    BY <1>3, <1>5 DEF NothingMissed
  <2>2. ~ l.lost /\ ToSet(s) \subseteq ToSet(t)
    BY <1>3, <2>1
  <2>3. ~ l.done /\ \E i \in 1..Len(s) : a < i /\ s[i] = d
    BY <1>3, <1>6, <2>1, <2>2 DEF ReadInv, NothingMissed
  <2>4. Embeds(s, t)
    BY <1>1, <2>2, ScopeEmbeds DEF StoreInv
  <2>. HIDE DEF s, t, a
  <2>5. PICK i \in 1..Len(s) : a < i /\ s[i] = d
    BY <2>3
  <2>6. PICK j \in 1..Len(t) : i <= j /\ t[j] = s[i]
    BY <1>2, <2>4, EmbedsLater
  <2>7. a < j /\ t[j] = d
    BY <1>2, <1>7, <2>5, <2>6
  <2>8. QED
    BY <1>3, <2>3, <2>7
<1>9. NothingTwice(new, k)
  <2>1. SUFFICES ASSUME Unfiltered(l.q), NEW d \in k.kept
                 PROVE  OnceOf(l.got, d) /\ (d \in ToSet(l.got) => \E j \in 1..Len(t) : j <= a /\ t[j] = d)
    BY <1>3, <1>5 DEF NothingTwice
  <2>2. OnceOf(l.got, d) /\ (d \in ToSet(l.got) => \E i \in 1..Len(s) : i <= a /\ s[i] = d)
    BY <1>6, <2>1 DEF ReadInv, NothingTwice
  <2>3. \E j \in 1..Len(t) : t[j] = d
    <3>. HIDE DEF t
    <3>1. QED
      BY <1>2, <1>6 DEF ToSet
  <2>4. \A i \in 1..Len(s) : \A j \in 1..Len(t) : s[i] = t[j] => j <= i
    BY <1>1, <2>1, PlaceFalls DEF StoreInv
  <2>. HIDE DEF s, t, a
  <2>5. ASSUME d \in ToSet(l.got)
        PROVE  \E j \in 1..Len(t) : j <= a /\ t[j] = d
    <3>1. PICK i \in 1..Len(s) : i <= a /\ s[i] = d
      BY <2>2, <2>5
    <3>2. PICK j \in 1..Len(t) : t[j] = d
      BY <2>3
    <3>3. j <= i
      BY <2>4, <3>1, <3>2
    <3>4. j <= a
      BY <1>2, <1>7, <3>1, <3>2, <3>3
    <3>5. QED
      BY <3>2, <3>4
  <2>6. QED
    BY <2>2, <2>5
<1>10. QED
  BY <1>3, <1>4, <1>6, <1>8, <1>9 DEF ReadInv

LEMMA ToSetPlaces ==
  ASSUME NEW S, NEW s \in Seq(S)
  PROVE  \A x : x \in ToSet(s) <=> \E k \in 1..Len(s) : s[k] = x
<1>1. DOMAIN s = 1..Len(s)
  OBVIOUS
<1>2. QED
  BY <1>1 DEF ToSet

(* What page p, of z entries, does for d when it comes after got.          *)
KeepsUp(st, q, z, p, got, page, d) ==
  LET s == Scope(st, q)
      shown == got \o page
  IN  /\ d \in ToSet(got) => d \in ToSet(shown)
      /\ (\E i \in 1..Len(s) : p * z < i /\ s[i] = d) =>
           \/ d \in ToSet(shown)
           \/ ~ Len(page) < z /\ \E i \in 1..Len(s) : (p + 1) * z < i /\ s[i] = d
      /\ /\ Unfiltered(q) /\ OnceOf(got, d)
         /\ d \in ToSet(got) => \E i \in 1..Len(s) : i <= p * z /\ s[i] = d
         => /\ OnceOf(shown, d)
            /\ d \in ToSet(shown) => \E i \in 1..Len(s) : i <= (p + 1) * z /\ s[i] = d

LEMMA ReadPage ==
  ASSUME NEW st, StoreInv(st), NEW q \in Params, NEW z \in Nat \ {0}, NEW p \in Nat,
         NEW got \in Seq(Dn), NEW d \in ToSet(Scope(st, q))
  PROVE  KeepsUp(st, q, z, p, got, Paginate(Scope(st, q), p, z), d)
<1>. DEFINE s    == Scope(st, q)
            page == Paginate(s, p, z)
            a    == p * z
            b    == (p + 1) * z
            all  == got \o page
            m    == Len(got)
            n    == Len(page)
<1>1. s \in Seq(Dn) /\ Len(s) \in Nat
  BY ScopeTyped DEF StoreInv
<1>. HIDE DEF s
<1>2. /\ a \in Nat /\ b = a + z
      /\ page \in Seq(Dn) /\ n \in Nat
      /\ n < z <=> Len(s) < b
      /\ \A k \in 1..n : a + k \in 1..Len(s) /\ a + k <= b /\ page[k] = s[a + k]
      /\ \A i \in 1..Len(s) : a < i /\ i <= b => i - a \in 1..n
  BY <1>1, PaginateFacts
<1>. HIDE DEF page, a, b
<1>3. /\ all \in Seq(Dn) /\ Len(all) = m + n /\ m \in Nat
      /\ \A k \in 1..m : k \in 1..Len(all) /\ all[k] = got[k]
      /\ \A k \in 1..n : m + k \in 1..Len(all) /\ all[m + k] = page[k]
      /\ \A k \in 1..Len(all) : ~ k \in 1..m => k - m \in 1..n /\ all[k] = page[k - m]
  BY <1>2
<1>. HIDE DEF all, m, n
<1>4. /\ \A x : x \in ToSet(got) <=> \E k \in 1..m : got[k] = x
      /\ \A x : x \in ToSet(all) <=> \E k \in 1..Len(all) : all[k] = x
      /\ \A x : x \in ToSet(s) <=> \E k \in 1..Len(s) : s[k] = x
  <2>1. \A x : x \in ToSet(got) <=> \E k \in 1..m : got[k] = x
    BY ToSetPlaces DEF m
  <2>2. \A x : x \in ToSet(all) <=> \E k \in 1..Len(all) : all[k] = x
    BY <1>3, ToSetPlaces
  <2>3. \A x : x \in ToSet(s) <=> \E k \in 1..Len(s) : s[k] = x
    BY <1>1, ToSetPlaces
  <2>4. QED
    BY <2>1, <2>2, <2>3
<1>5. d \in ToSet(got) => d \in ToSet(all)
  BY <1>3, <1>4
<1>6. ASSUME NEW i \in 1..Len(s), a < i, s[i] = d
      PROVE  \/ d \in ToSet(all)
             \/ ~ n < z /\ \E j \in 1..Len(s) : b < j /\ s[j] = d
  <2>1. CASE i <= b
    <3>. DEFINE k == i - a
    <3>1. k \in 1..n /\ a + k = i
      BY <1>1, <1>2, <1>6, <2>1
    <3>. HIDE DEF k
    <3>2. all[m + k] = d /\ m + k \in 1..Len(all)
      BY <1>2, <1>3, <1>6, <3>1
    <3>3. QED
      BY <1>4, <3>2
  <2>2. CASE ~ i <= b
    BY <1>1, <1>2, <1>6, <2>2
  <2>3. QED
    BY <2>1, <2>2
<1>7. ASSUME Unfiltered(q), OnceOf(got, d),
             d \in ToSet(got) => \E i \in 1..Len(s) : i <= a /\ s[i] = d
      PROVE  /\ OnceOf(all, d)
             /\ d \in ToSet(all) => \E i \in 1..Len(s) : i <= b /\ s[i] = d
  <2>1. \A i, j \in 1..Len(s) : s[i] = s[j] => i = j
    <3>1. Sorted(s, RootSet(st, q), st.before)
      BY <1>7, UnfilteredSorted DEF StoreInv, s
    <3>2. \A x, y : <<x, y>> \in st.before => <<y, x>> \notin st.before
      BY DEF StoreInv, Inv, OrderOK
    <3>3. \A i, j \in 1..Len(s) : i < j => s[i] # s[j]
      BY <3>1, <3>2 DEF Sorted
    <3>4. QED
      BY <1>1, <3>3
  <2>2. ASSUME NEW k \in 1..n, page[k] = d
        PROVE  /\ \A l \in 1..n : page[l] = d => l = k
               /\ d \notin ToSet(got)
               /\ \E i \in 1..Len(s) : i <= b /\ s[i] = d
    <3>1. a + k \in 1..Len(s) /\ a + k <= b /\ s[a + k] = d
      BY <1>2, <2>2
    <3>2. ASSUME NEW l \in 1..n, page[l] = d
          PROVE  l = k
      <4>1. a + l \in 1..Len(s) /\ s[a + l] = d
        BY <1>2, <3>2
      <4>2. a + l = a + k
        BY <2>1, <3>1, <4>1
      <4>3. QED
        BY <1>2, <4>2
    <3>3. ASSUME d \in ToSet(got)
          PROVE  FALSE
      <4>1. PICK i \in 1..Len(s) : i <= a /\ s[i] = d
        BY <1>7, <3>3
      <4>2. i = a + k
        BY <2>1, <3>1, <4>1
      <4>3. QED
        BY <1>2, <4>1, <4>2
    <3>4. QED
      BY <3>1, <3>2, <3>3
  <2>3. ASSUME NEW i \in 1..Len(all), NEW j \in 1..Len(all), all[i] = d, all[j] = d
        PROVE  i = j
    <3>1. CASE i \in 1..m /\ j \in 1..m
      BY <1>3, <1>7, <2>3, <3>1 DEF OnceOf, m
    <3>2. CASE i \in 1..m /\ ~ j \in 1..m
      <4>1. d \in ToSet(got)
        BY <1>3, <1>4, <2>3, <3>2
      <4>2. j - m \in 1..n /\ page[j - m] = d
        BY <1>3, <2>3, <3>2
      <4>3. QED
        BY <2>2, <4>1, <4>2
    <3>3. CASE ~ i \in 1..m /\ j \in 1..m
      <4>1. d \in ToSet(got)
        BY <1>3, <1>4, <2>3, <3>3
      <4>2. i - m \in 1..n /\ page[i - m] = d
        BY <1>3, <2>3, <3>3
      <4>3. QED
        BY <2>2, <4>1, <4>2
    <3>4. CASE ~ i \in 1..m /\ ~ j \in 1..m
      <4>1. /\ i - m \in 1..n /\ page[i - m] = d
            /\ j - m \in 1..n /\ page[j - m] = d
        BY <1>3, <2>3, <3>4
      <4>2. j - m = i - m
        BY <2>2, <4>1
      <4>3. QED
        BY <1>3, <4>2
    <3>5. QED
      BY <3>1, <3>2, <3>3, <3>4
  <2>4. ASSUME NEW k \in 1..Len(all), all[k] = d
        PROVE  \E i \in 1..Len(s) : i <= b /\ s[i] = d
    <3>1. CASE k \in 1..m
      <4>1. d \in ToSet(got)
        BY <1>3, <1>4, <2>4, <3>1
      <4>2. PICK i \in 1..Len(s) : i <= a /\ s[i] = d
        BY <1>7, <4>1
      <4>3. i <= b
        BY <1>2, <4>2
      <4>4. QED
        BY <4>2, <4>3
    <3>2. CASE ~ k \in 1..m
      <4>1. k - m \in 1..n /\ page[k - m] = d
        BY <1>3, <2>4, <3>2
      <4>2. QED
        BY <2>2, <4>1
    <3>3. QED
      BY <3>1, <3>2
  <2>5. OnceOf(all, d)
    BY <2>3 DEF OnceOf
  <2>6. QED
    BY <1>4, <2>4, <2>5
<1>8. QED
  BY <1>5, <1>6, <1>7 DEF KeepsUp, all, page, n, a, b, s

(* getFirst and getNext                                                    *)
PageOf(st, q, p) == Dns(Answer(st, q, p).imdata)

FirstPage(st, q) ==
  [q |-> q, page |-> 0, got |-> PageOf(st, q, 0), done |-> Len(PageOf(st, q, 0)) < Size(q),
   kept |-> ToSet(Scope(st, q)), lost |-> FALSE]

NextPage(st, l) ==
  LET page == PageOf(st, l.q, l.page + 1)
  IN  [l EXCEPT !.page = @ + 1, !.got = @ \o page, !.done = Len(page) < Size(l.q)]

LEMMA ReadFirst ==
  ASSUME NEW st, StoreInv(st), NEW q \in Paged, Size(q) \in Nat \ {0}
  PROVE  ReadInv(st, FirstPage(st, q))
<1>. DEFINE l == FirstPage(st, q)
            page == PageOf(st, q, 0)
            s == Scope(st, q)
            z == Size(q)
            p == 0
<1>1. q \in Params
  BY QueryAssumption
<1>2. s \in Seq(Dn) /\ Len(s) \in Nat
  BY <1>1, ScopeTyped DEF StoreInv
<1>3. page = Paginate(s, p, z) /\ p \in Nat /\ p + 1 = 1
  BY <1>2, PageIs DEF PageOf
<1>4. p * z = 0 /\ page \in Seq(Dn) /\ Len(page) \in Nat
  BY <1>2, <1>3, PaginateFacts
<1>9. l = [q |-> q, page |-> 0, got |-> page, done |-> Len(page) < z, kept |-> ToSet(s), lost |-> FALSE]
  BY DEF FirstPage
<1>. HIDE DEF l, page
<1>5. <<>> \o page = page /\ <<>> \in Seq(Dn) /\ ToSet(<<>>) = {} /\ Len(<<>>) = 0
  BY <1>4 DEF ToSet
<1>6. ASSUME NEW d \in ToSet(s)
      PROVE  /\ \/ d \in ToSet(page)
                \/ ~ Len(page) < z /\ \E i \in 1..Len(s) : (p + 1) * z < i /\ s[i] = d
             /\ Unfiltered(q) => /\ OnceOf(page, d)
                                 /\ d \in ToSet(page) => \E i \in 1..Len(s) : i <= (p + 1) * z /\ s[i] = d
  <2>. DEFINE none == <<>>
  <2>. HIDE DEF none, s, z, p
  <2>1. none \o page = page /\ none \in Seq(Dn) /\ ToSet(none) = {} /\ OnceOf(none, d)
    BY <1>5 DEF none, OnceOf
  <2>6. d \in ToSet(Scope(st, q)) /\ z \in Nat \ {0} /\ page = Paginate(Scope(st, q), p, z) /\ p \in Nat
    BY <1>3, <1>6 DEF s, z
  <2>2. PICK i \in 1..Len(s) : s[i] = d
    BY <1>2, <1>6, ToSetPlaces
  <2>3. p * z < i
    BY <1>2, <1>4, <2>2
  <2>4. KeepsUp(st, q, z, p, none, page, d)
    BY <1>1, <2>1, <2>6, ReadPage
  <2>5. QED
    BY <2>1, <2>2, <2>3, <2>4 DEF KeepsUp, s
<1>7. l \in Listing
  <2>1. ToSet(s) \in SUBSET Dn
    <3>. HIDE DEF s
    <3>1. QED
      BY <1>2 DEF ToSet
  <2>2. QED
    BY <1>4, <1>9, <2>1 DEF Listing
<1>. HIDE DEF s, z
<1>8. /\ l.q = q /\ l.page = p /\ l.got = page /\ l.done = (Len(page) < z)
      /\ l.kept = ToSet(s) /\ Seen(l) = (p + 1) * z
  BY <1>9 DEF Seen, z
<1>. HIDE DEF p
<1>11. NothingMissed(st, l)
  BY <1>6, <1>8 DEF NothingMissed, s
<1>10. NothingTwice(st, l)
  BY <1>6, <1>8 DEF NothingTwice, s
<1>12. QED
  BY <1>7, <1>8, <1>10, <1>11 DEF ReadInv, s, z, l

LEMMA ReadNext ==
  ASSUME NEW st, StoreInv(st), NEW l, ReadInv(st, l), ~ l.done
  PROVE  ReadInv(st, NextPage(st, l))
<1>. DEFINE k == NextPage(st, l)
            page == PageOf(st, l.q, l.page + 1)
            q == l.q
            s == Scope(st, q)
            z == Size(q)
            p == l.page + 1
<1>1. /\ l \in Listing /\ q \in Params /\ p \in Nat /\ z \in Nat \ {0}
      /\ l.got \in Seq(Dn) /\ l.kept \subseteq ToSet(s)
  BY QueryAssumption DEF ReadInv, Listing
<1>2. s \in Seq(Dn) /\ Len(s) \in Nat
  BY <1>1, ScopeTyped DEF StoreInv
<1>3. page = Paginate(s, p, z)
  BY <1>1, <1>2, PageIs DEF PageOf
<1>4. page \in Seq(Dn) /\ Len(page) \in Nat
  BY <1>1, <1>2, <1>3, PaginateFacts
<1>12. k = [l EXCEPT !.page = p, !.got = l.got \o page, !.done = (Len(page) < z)]
  BY <1>1 DEF Listing, NextPage
<1>. HIDE DEF k, page
<1>5. /\ k.q = q /\ k.page = p /\ k.got = l.got \o page /\ k.done = (Len(page) < z)
      /\ k.kept = l.kept /\ k.lost = l.lost
  BY <1>1, <1>12 DEF Listing
<1>6. Seen(l) = p * z /\ Seen(k) = (p + 1) * z
  BY <1>5 DEF Seen
<1>7. k \in Listing
  <2>1. l.got \o page \in Seq(Dn) /\ (Len(page) < z) \in BOOLEAN
    BY <1>1, <1>4
  <2>2. QED
    BY <1>1, <1>12, <2>1 DEF Listing
<1>. DEFINE got == l.got
<1>. HIDE DEF s, z, p, q, got
<1>8. ASSUME NEW d \in l.kept
      PROVE  KeepsUp(st, q, z, p, got, page, d)
  <2>1. d \in ToSet(Scope(st, q)) /\ got \in Seq(Dn)
    BY <1>1, <1>8 DEF s, got
  <2>2. page = Paginate(Scope(st, q), p, z)
    BY <1>3 DEF s
  <2>3. QED
    BY <1>1, <2>1, <2>2, ReadPage
<1>9. NothingMissed(st, k)
  <2>1. NothingMissed(st, l)
    BY DEF ReadInv
  <2>. DEFINE new == got \o page
  <2>5. Seen(k) = (p + 1) * z /\ k.got = new /\ k.kept = l.kept /\ (k.done <=> Len(page) < z) /\ Scope(st, k.q) = s
    BY <1>5, <1>6 DEF s, got
  <2>. HIDE DEF new
  <2>2. SUFFICES ASSUME ~ k.lost, NEW d \in l.kept
                 PROVE  \/ d \in ToSet(new)
                        \/ ~ Len(page) < z /\ \E i \in 1..Len(s) : (p + 1) * z < i /\ s[i] = d
    BY <2>5 DEF NothingMissed
  <2>3. d \in ToSet(got) \/ \E i \in 1..Len(s) : p * z < i /\ s[i] = d
    BY <1>5, <1>6, <2>1, <2>2 DEF NothingMissed, s, got, q
  <2>4. QED
    BY <1>8, <2>2, <2>3 DEF KeepsUp, s, new
<1>10. NothingTwice(st, k)
  <2>1. NothingTwice(st, l)
    BY DEF ReadInv
  <2>2. SUFFICES ASSUME Unfiltered(q), NEW d \in l.kept
                 PROVE  /\ OnceOf(got \o page, d)
                        /\ d \in ToSet(got \o page) => \E i \in 1..Len(s) : i <= (p + 1) * z /\ s[i] = d
    BY <1>5, <1>6 DEF NothingTwice, s, got
  <2>3. OnceOf(got, d) /\ (d \in ToSet(got) => \E i \in 1..Len(s) : i <= p * z /\ s[i] = d)
    BY <1>6, <2>1, <2>2 DEF NothingTwice, s, got, q
  <2>4. QED
    BY <1>8, <2>2, <2>3 DEF KeepsUp, s
<1>11. QED
  BY <1>1, <1>5, <1>7, <1>9, <1>10 DEF ReadInv, s, z, q, k

(* The store is sound, and so is what a client has read so far.            *)
ReadingInv ==
  /\ StoreInv(store)
  /\ listing \in Listing \cup {NoListing}
  /\ listing # NoListing => ReadInv(store, listing)

LEMMA ReadingInit == QueryInit => ReadingInv
<1>. SUFFICES ASSUME QueryInit
              PROVE  ReadingInv
  OBVIOUS
<1>. DEFINE m == [class |-> ClassOf[Root], val |-> Unset]
<1>1. m \in MO /\ Root \in Dn
  BY SiteAssumption DEF MO
<1>2. EmptyStore \in Store /\ Inv(EmptyStore)
  BY EmptyInv
<1>3. Small(EmptyStore)
  <2>1. Present(EmptyStore) = {} /\ \A p \in Dn : EmptyStore.kids[p] = <<>>
    BY DEF EmptyStore, Present
  <2>2. QED
    BY <2>1, FS_EmptySet DEF Small
<1>4. store = AddOne(EmptyStore, Root, m) /\ listing = NoListing
  BY DEF QueryInit
<1>. HIDE DEF m
<1>5. StoreInv(store)
  BY <1>1, <1>2, <1>3, <1>4, AddOneInv, SmallAdd DEF StoreInv
<1>6. QED
  BY <1>4, <1>5 DEF ReadingInv

(* Another client's write, which a listing is watched through.             *)
LEMMA ReadingWrite ==
  ASSUME ReadingInv, StoreInv(store'), Changes(store, store'), listing' = Watched(store')
  PROVE  ReadingInv'
<1>1. CASE listing = NoListing
  <2>1. listing' = NoListing
    BY <1>1 DEF Watched
  <2>2. QED
    BY <2>1 DEF ReadingInv
<1>2. CASE listing # NoListing
  <2>. DEFINE k == [listing EXCEPT !.kept = @ \cap ToSet(Scope(store', listing.q)),
                                   !.lost = @ \/ ~ ToSet(Scope(store, listing.q)) \subseteq ToSet(Scope(store', listing.q))]
  <2>1. listing' = k
    BY <1>2 DEF Watched
  <2>2. StoreInv(store) /\ ReadInv(store, listing)
    BY <1>2 DEF ReadingInv
  <2>3. ReadInv(store', k)
    BY <2>2, ReadThroughWrite
  <2>. HIDE DEF k
  <2>4. k \in Listing
    BY <2>3 DEF ReadInv
  <2>5. k # NoListing
    BY <2>4, NoListingAssumption
  <2>6. QED
    BY <2>1, <2>3, <2>4, <2>5 DEF ReadingInv
<1>3. QED
  BY <1>1, <1>2

LEMMA ReadingNext ==
  ASSUME ReadingInv, [QueryNext]_queryVars
  PROVE  ReadingInv'
<1>1. StoreInv(store) /\ store \in Store /\ Inv(store) /\ Small(store)
  BY DEF ReadingInv, StoreInv
<1>2. ASSUME NEW d \in Dn, NEW v \in Writable[d], write(d, v)
      PROVE  ReadingInv'
  <2>. DEFINE m == [class |-> ClassOf[d], val |-> v]
  <2>1. m \in MO
    BY SiteAssumption DEF MO
  <2>2. store' = UpsertOne(store, d, m) /\ listing' = Watched(store')
    BY <1>2 DEF write, upsert
  <2>. HIDE DEF m
  <2>3. StoreInv(store') /\ Changes(store, store')
    BY <1>1, <2>1, <2>2, UpsertOneInv, SmallUpsert, UpsertChanges DEF StoreInv
  <2>4. QED
    BY <2>2, <2>3, ReadingWrite
<1>3. ASSUME NEW d \in Dn, remove(d)
      PROVE  ReadingInv'
  <2>1. store' = RemoveSubtree(store, d) /\ listing' = Watched(store')
    BY <1>3 DEF remove, delete
  <2>2. StoreInv(store') /\ Changes(store, store')
    BY <1>1, <2>1, RemoveSubtreeInv, SmallRemove, RemoveChanges DEF StoreInv
  <2>3. QED
    BY <2>1, <2>2, ReadingWrite
<1>4. ASSUME NEW q \in Paged, getFirst(q)
      PROVE  ReadingInv'
  <2>1. store' = store /\ listing' = FirstPage(store, q) /\ ~ Refused(store, q)
    BY <1>4 DEF getFirst, FirstPage, PageOf
  <2>2. Size(q) \in Nat \ {0}
    <3>1. q.size \in Int /\ ~ q.size < 1
      BY <2>1, QueryAssumption DEF Refused, Params
    <3>2. QED
      BY <3>1, SiteAssumption DEF Size
  <2>3. ReadInv(store, FirstPage(store, q))
    BY <1>1, <2>2, ReadFirst
  <2>4. FirstPage(store, q) \in Listing
    BY <2>3 DEF ReadInv
  <2>5. QED
    BY <1>1, <2>1, <2>3, <2>4 DEF ReadingInv
<1>5. CASE getNext
  <2>1. store' = store /\ listing # NoListing /\ ~ listing.done /\ listing' = NextPage(store, listing)
    BY <1>5 DEF getNext, NextPage, PageOf
  <2>2. ReadInv(store, listing)
    BY <2>1 DEF ReadingInv
  <2>3. ReadInv(store, NextPage(store, listing))
    BY <1>1, <2>1, <2>2, ReadNext
  <2>4. NextPage(store, listing) \in Listing
    BY <2>3 DEF ReadInv
  <2>5. QED
    BY <1>1, <2>1, <2>3, <2>4 DEF ReadingInv
<1>6. CASE leave
  BY <1>1, <1>6 DEF leave, ReadingInv
<1>7. CASE UNCHANGED queryVars
  BY <1>7 DEF queryVars, ReadingInv
<1>8. CASE \E q \in Query : getRefused(q)
  BY <1>7, <1>8 DEF getRefused
<1>9. QED
  BY <1>2, <1>3, <1>4, <1>5, <1>6, <1>7, <1>8 DEF QueryNext

LEMMA AlwaysReading == QuerySpec => []ReadingInv
BY ReadingInit, ReadingNext, PTL DEF QuerySpec

LEMMA CopiesOnce ==
  ASSUME NEW S, NEW s \in Seq(S), NEW d, OnceOf(s, d)
  PROVE  Copies(s, d) <= 1
<1>. DEFINE P == {i \in DOMAIN s : s[i] = d}
<1>1. DOMAIN s = 1..Len(s)
  OBVIOUS
<1>2. CASE P = {}
  BY <1>2, FS_EmptySet DEF Copies
<1>3. ASSUME NEW k \in P
      PROVE  Copies(s, d) <= 1
  <2>1. P = {k}
    BY <1>1, <1>3 DEF OnceOf
  <2>2. Copies(s, d) = Cardinality({k})
    BY <2>1 DEF Copies
  <2>3. Cardinality({k}) = 1
    BY FS_Singleton
  <2>4. QED
    BY <2>2, <2>3
<1>4. QED
  BY <1>2, <1>3

(* What a client that turns pages until a short one can rely on: if no MO  *)
(* left the listing it has missed none of those that were in it, and of a  *)
(* listing without a filter it has seen none of them twice.                *)
THEOREM PagesCorrect == QuerySpec => []PagesExact
<1>1. ReadingInv => PagesExact
  <2>1. SUFFICES ASSUME ReadingInv, listing # NoListing
                 PROVE  /\ listing.done /\ ~ listing.lost => listing.kept \subseteq ToSet(listing.got)
                        /\ Unfiltered(listing.q) => \A d \in listing.kept : Copies(listing.got, d) <= 1
    BY DEF PagesExact
  <2>2. ReadInv(store, listing)
    BY <2>1 DEF ReadingInv
  <2>3. ASSUME listing.done, ~ listing.lost
        PROVE  listing.kept \subseteq ToSet(listing.got)
    BY <2>2, <2>3 DEF ReadInv, NothingMissed
  <2>4. ASSUME Unfiltered(listing.q), NEW d \in listing.kept
        PROVE  Copies(listing.got, d) <= 1
    <3>1. listing.got \in Seq(Dn)
      BY <2>2 DEF ReadInv, Listing
    <3>2. OnceOf(listing.got, d)
      BY <2>2, <2>4 DEF ReadInv, NothingTwice
    <3>3. QED
      BY <3>1, <3>2, CopiesOnce
  <2>5. QED
    BY <2>3, <2>4
<1>2. QED
  BY <1>1, AlwaysReading, PTL

-----------------------------------------------------------------------------
(* A flat answer: how often each MO is in it, and its pages                *)

LEMMA CopiesDue ==
  ASSUME NEW st, StoreInv(st), NEW q \in Params, NEW d \in Dn
  PROVE  Copies(Scope(st, q), d) = Due(st, q, d)
<1>. DEFINE s == Scope(st, q)
<1>1. PICK key : Sorted(key, Keys(st, q), Order(st)) /\ s = [i \in 1..Len(key) |-> key[i][2]]
  BY ScopeLists DEF Lists, StoreInv
<1>. HIDE DEF s
<1>. DEFINE n == Len(key)
            P == {i \in 1..n : key[i][2] = d}
            Q == {r \in RootSet(st, q) : Shows(st, q, r, d)}
            f == [i \in P |-> key[i][1]]
<1>2. /\ n \in Nat /\ DOMAIN s = 1..n /\ \A i \in 1..n : s[i] = key[i][2]
      /\ \A i \in 1..n : /\ key[i] \in Dn \X Dn /\ key[i][1] \in RootSet(st, q)
                          /\ Shows(st, q, key[i][1], key[i][2])
  BY <1>1, SortedPlaces DEF Keys
<1>3. \A i, j \in 1..n : key[i] = key[j] => i = j
  <2>1. \A i, j \in 1..n : i < j => key[i] # key[j]
    <3>1. \A i, j \in 1..n : i < j => <<key[i], key[j]>> \in Order(st)
      BY <1>1 DEF Sorted
    <3>2. \A k, l : <<k, l>> \in Order(st) => k # l
      BY RankStrict DEF StoreInv
    <3>3. QED
      BY <3>1, <3>2
  <2>2. QED
    BY <1>2, <2>1
<1>4. \A i \in P : f[i] = key[i][1] /\ f[i] \in Q
  BY <1>2
<1>5. f \in [P -> Q]
  BY <1>4
<1>6. \A i, j \in P : f[i] = f[j] => i = j
  <2>1. ASSUME NEW i \in P, NEW j \in P, f[i] = f[j]
        PROVE  i = j
    <3>1. key[i][1] = key[j][1] /\ key[i][2] = key[j][2] /\ key[i] \in Dn \X Dn /\ key[j] \in Dn \X Dn
      BY <1>2, <1>4, <2>1
    <3>2. key[i] = key[j]
      BY <3>1
    <3>3. QED
      BY <1>3, <3>2
  <2>2. QED
    BY <2>1
<1>7. \A r \in Q : \E i \in P : f[i] = r
  <2>1. ASSUME NEW r \in Q
        PROVE  \E i \in P : f[i] = r
    <3>1. r \in Dn
      BY DEF RootSet, Present
    <3>2. <<r, d>> \in Keys(st, q)
      BY <3>1 DEF Keys
    <3>3. PICK i \in 1..n : key[i] = <<r, d>>
      BY <1>1, <3>2 DEF Sorted
    <3>4. i \in P /\ key[i][1] = r
      BY <3>3
    <3>5. QED
      BY <1>4, <3>4
  <2>2. QED
    BY <2>1
<1>. HIDE DEF f, P, Q
<1>8. ExistsBijection(P, Q)
  <2>1. f \in Bijection(P, Q)
    BY <1>5, <1>6, <1>7 DEF Bijection, Injection, Surjection, IsInjective
  <2>2. QED
    BY <2>1 DEF ExistsBijection
<1>9. IsFiniteSet(P)
  <2>1. IsFiniteSet(1..n)
    BY <1>2, FS_Interval
  <2>2. P \in SUBSET (1..n)
    BY DEF P
  <2>3. QED
    BY <2>1, <2>2, FS_Subset
<1>10. Cardinality(Q) = Cardinality(P)
  BY <1>8, <1>9, FS_Bijection
<1>11. Copies(s, d) = Cardinality(P)
  <2>1. {i \in DOMAIN s : s[i] = d} = P
    BY <1>2 DEF P
  <2>2. QED
    BY <2>1 DEF Copies
<1>12. QED
  BY <1>10, <1>11 DEF Due, Q, s

(* The pages up to the total count make up the list.                       *)
LEMMA PagesFlatten ==
  ASSUME NEW S, NEW s \in Seq(S), NEW z \in Nat \ {0}
  PROVE  FlattenSeq([i \in 1..Len(s) |-> Paginate(s, i - 1, z)]) = s
<1>. DEFINE n == Len(s)
            ps == [i \in 1..n |-> Paginate(s, i - 1, z)]
<1>1. n \in Nat
  OBVIOUS
<1>2. \A i \in 1..n : i - 1 \in Nat /\ ps[i] = Paginate(s, i - 1, z) /\ ps[i] \in Seq(S)
  BY PaginateFacts
<1>3. ps \in Seq(Seq(S)) /\ Len(ps) = n
  BY <1>1, <1>2
<1>. HIDE DEF ps, n
<1>4. PICK u : IsFlattening(u, ps) /\ \A i \in 0..Len(ps) : u[i] \in Seq(S)
  BY <1>3, FlattenLoop
<1>. DEFINE Lim(k) == IF k * z > n THEN n ELSE k * z
            Is(w, m) == w \in Seq(S) /\ Len(w) = m /\ \A i \in 1..m : w[i] = s[i]
            T == {k \in 0..n : Is(u[k], Lim(k))}
<1>5. 0 \in T
  <2>1. u[0] = <<>> /\ Lim(0) = 0
    BY <1>1, <1>4 DEF IsFlattening
  <2>. HIDE DEF Lim
  <2>2. Is(<<>>, 0)
    OBVIOUS
  <2>. HIDE DEF Is
  <2>3. Is(u[0], Lim(0)) /\ 0 \in 0..n
    BY <1>1, <2>1, <2>2
  <2>4. QED
    BY <2>3
<1>6. ASSUME NEW k \in 0..(n - 1), k \in T
      PROVE  k + 1 \in T
  <2>1. k \in Nat /\ k + 1 \in 1..n /\ k + 1 \in 0..n /\ (k + 1) - 1 = k
    BY <1>1
  <2>. DEFINE a == k * z
              b == (k + 1) * z
              page == Paginate(s, k, z)
              l == Len(page)
              c == Lim(k)
              w == u[k]
  <2>2. /\ a \in Nat /\ b = a + z
        /\ page \in Seq(S) /\ l \in Nat
        /\ \A i \in 1..l : a + i \in 1..n /\ a + i <= b /\ page[i] = s[a + i]
        /\ \A i \in 1..n : a < i /\ i <= b => i - a \in 1..l
    <3>1. a \in Nat /\ b = a + z /\ page \in Seq(S) /\ l \in Nat
      BY <2>1, PaginateFacts
    <3>2. /\ \A i \in 1..l : a + i \in 1..Len(s) /\ a + i <= b /\ page[i] = s[a + i]
          /\ \A i \in 1..Len(s) : a < i /\ i <= b => i - a \in 1..l
      BY <2>1, PaginateFacts
    <3>. HIDE DEF a, b, page, l
    <3>3. QED
      BY <3>1, <3>2 DEF n
  <2>3. u[k + 1] = w \o page
    BY <1>2, <1>3, <1>4, <2>1 DEF IsFlattening
  <2>4. Is(w, c)
    BY <1>6
  <2>5. c = (IF a > n THEN n ELSE a) /\ Lim(k + 1) = (IF b > n THEN n ELSE b)
    OBVIOUS
  <2>. HIDE DEF a, b, page, l, c, w, Lim
  <2>6. c \in Nat /\ c <= n /\ (l > 0 => c = a)
    <3>1. l > 0 => a + 1 \in 1..n
      BY <2>2
    <3>2. QED
      BY <1>1, <2>2, <2>5, <3>1
  <2>7. Lim(k + 1) = c + l
    <3>1. CASE a >= n
      <4>1. l = 0
        <5>1. ~ l > 0
          <6>1. l > 0 => a + 1 \in 1..n
            BY <2>2
          <6>2. QED
            BY <1>1, <2>2, <3>1, <6>1
        <5>2. QED
          BY <2>2, <5>1
      <4>2. QED
        BY <1>1, <2>2, <2>5, <3>1, <4>1
    <3>2. CASE a < n
      <4>. DEFINE e == IF b > n THEN n ELSE b
      <4>1. e \in 1..n /\ a < e /\ e <= b
        BY <1>1, <2>2, <3>2
      <4>2. e - a \in 1..l
        BY <2>2, <4>1
      <4>3. l \in 1..l
        <5>1. \A m \in 1..l : l >= 1
          BY <2>2
        <5>2. l >= 1
          BY <4>2, <5>1
        <5>3. QED
          BY <2>2, <5>2
      <4>4. a + l <= n /\ a + l <= b
        <5>1. a + l \in 1..n /\ a + l <= b
          BY <2>2, <4>3
        <5>2. QED
          BY <1>1, <5>1
      <4>5. QED
        BY <1>1, <2>2, <2>5, <3>2, <4>2, <4>4
    <3>3. QED
      BY <1>1, <2>2, <3>1, <3>2
  <2>8. /\ w \o page \in Seq(S) /\ Len(w \o page) = c + l
        /\ \A i \in 1..(c + l) : (w \o page)[i] = IF i <= c THEN w[i] ELSE page[i - c]
    BY <2>2, <2>4 DEF l
  <2>9. ASSUME NEW i \in 1..(c + l)
        PROVE  (w \o page)[i] = s[i]
    <3>1. CASE i <= c
      <4>1. i \in 1..c
        BY <2>6, <3>1
      <4>2. QED
        BY <2>4, <2>8, <3>1, <4>1
    <3>2. CASE ~ i <= c
      <4>1. i - c \in 1..l /\ l > 0
        BY <2>2, <2>6, <3>2
      <4>2. c = a /\ page[i - a] = s[a + (i - a)] /\ a + (i - a) = i
        BY <2>2, <2>6, <4>1
      <4>3. QED
        BY <2>8, <3>2, <4>2
    <3>3. QED
      BY <3>1, <3>2
  <2>10. Is(w \o page, c + l)
    BY <2>8, <2>9
  <2>11. QED
    BY <2>1, <2>3, <2>7, <2>10
<1>. HIDE DEF T
<1>7. 0..n \subseteq T
  BY <1>1, <1>5, <1>6, BoundedInduction
<1>8. Lim(n) = n
  <2>1. n * z >= n
    BY <1>1
  <2>2. n * z \in Nat
    BY <1>1
  <2>3. QED
    BY <1>1, <2>1, <2>2
<1>. HIDE DEF Lim
<1>9. Is(u[n], n)
  BY <1>1, <1>7, <1>8 DEF T
<1>10. u[n] = s
  <2>1. s = [i \in 1..n |-> s[i]]
    BY DEF n
  <2>2. u[n] = [i \in 1..n |-> u[n][i]]
    BY <1>9
  <2>3. QED
    BY <1>9, <2>1, <2>2
<1>11. FlattenSeq(ps) = u[n]
  BY <1>3, <1>4 DEF IsFlattening
<1>12. QED
  BY <1>10, <1>11 DEF ps, n

LEMMA PagesMakeAnswer ==
  ASSUME NEW st, StoreInv(st), NEW q \in Params, Size(q) \in Nat \ {0}
  PROVE  FlattenSeq([i \in 1..Answer(st, q, 0).total |-> Dns(Answer(st, q, i - 1).imdata)]) = Scope(st, q)
<1>. DEFINE s == Scope(st, q)
            z == Size(q)
<1>1. s \in Seq(Dn) /\ Len(s) \in Nat
  BY ScopeTyped DEF StoreInv
<1>2. Answer(st, q, 0).total = Len(s)
  BY DEF Answer
<1>3. \A i \in 1..Len(s) : i - 1 \in Nat
  BY <1>1
<1>4. \A i \in 1..Len(s) : Dns(Answer(st, q, i - 1).imdata) = Paginate(s, i - 1, z)
  BY <1>1, <1>3, PageIs
<1>5. FlattenSeq([i \in 1..Len(s) |-> Paginate(s, i - 1, z)]) = s
  <2>. HIDE DEF s, z
  <2>1. z \in Nat \ {0}
    BY DEF z
  <2>2. QED
    BY <1>1, <2>1, PagesFlatten
<1>. HIDE DEF s, z
<1>6. [i \in 1..Answer(st, q, 0).total |-> Dns(Answer(st, q, i - 1).imdata)]
        = [i \in 1..Len(s) |-> Paginate(s, i - 1, z)]
  BY <1>2, <1>4
<1>7. QED
  BY <1>5, <1>6 DEF s

-----------------------------------------------------------------------------
(* A nested answer                                                         *)

LEMMA FlattenSorted ==
  ASSUME NEW S, NEW ps \in Seq(Seq(S)), NEW K, NEW R,
         \A i \in 1..Len(ps) : Sorted(ps[i], K[i], R),
         \A i, j \in 1..Len(ps) : i < j => K[i] \X K[j] \subseteq R
  PROVE  Sorted(FlattenSeq(ps), UNION {K[i] : i \in 1..Len(ps)}, R)
<1>. DEFINE n == Len(ps)
            U(k) == UNION {K[i] : i \in 1..k}
<1>1. n \in Nat
  OBVIOUS
<1>2. PICK u : IsFlattening(u, ps) /\ \A i \in 0..Len(ps) : u[i] \in Seq(S)
  BY FlattenLoop
<1>. DEFINE T == {k \in 0..n : Sorted(u[k], U(k), R)}
<1>3. 0 \in T
  <2>1. U(0) = {}
    OBVIOUS
  <2>. HIDE DEF U
  <2>2. Sorted(<<>>, U(0), R)
    BY <2>1, EmptySorted
  <2>3. u[0] = <<>>
    BY <1>2 DEF IsFlattening
  <2>4. QED
    BY <1>1, <2>2, <2>3
<1>4. ASSUME NEW k \in 0..(n - 1), k \in T
      PROVE  k + 1 \in T
  <2>1. k + 1 \in 1..n /\ k + 1 \in 0..n /\ k \in 0..n /\ (k + 1) - 1 = k
    BY <1>1
  <2>2. u[k + 1] = u[k] \o ps[k + 1]
    BY <1>2, <2>1 DEF IsFlattening
  <2>3. Sorted(u[k], U(k), R) /\ Sorted(ps[k + 1], K[k + 1], R)
    BY <1>4, <2>1
  <2>4. \A i \in 1..k : i \in 1..n /\ i < k + 1
    BY <1>1, <2>1
  <2>5. U(k) \X K[k + 1] \subseteq R
    <3>1. \A i \in 1..k : K[i] \X K[k + 1] \subseteq R
      BY <2>1, <2>4
    <3>2. QED
      BY <3>1
  <2>6. U(k) \cup K[k + 1] = U(k + 1)
    <3>1. \A i : i \in 1..(k + 1) <=> i \in 1..k \/ i = k + 1
      BY <2>1
    <3>2. QED
      BY <3>1
  <2>. HIDE DEF U
  <2>7. Sorted(u[k] \o ps[k + 1], U(k) \cup K[k + 1], R)
    BY <2>3, <2>5, ConcatSorted
  <2>8. QED
    BY <2>1, <2>2, <2>6, <2>7
<1>. HIDE DEF T, n
<1>5. 0..n \subseteq T
  <2>1. n \in Nat
    BY <1>1
  <2>2. \A k \in 0..(n - 1) : k \in T => k + 1 \in T
    BY <1>4
  <2>3. QED
    BY <1>3, <2>1, <2>2, BoundedInduction, Zenon
<1>6. Sorted(u[n], U(n), R)
  <2>. HIDE DEF U
  <2>1. n \in 0..n
    BY <1>1
  <2>2. QED
    BY <1>5, <2>1 DEF T
<1>7. FlattenSeq(ps) = u[n]
  BY <1>2 DEF IsFlattening, n
<1>8. QED
  BY <1>6, <1>7 DEF n

LEMMA FlattenTyped ==
  ASSUME NEW S, NEW ps \in Seq(Seq(S))
  PROVE  FlattenSeq(ps) \in Seq(S)
<1>1. PICK u : IsFlattening(u, ps) /\ \A i \in 0..Len(ps) : u[i] \in Seq(S)
  BY FlattenLoop
<1>2. Len(ps) \in 0..Len(ps)
  OBVIOUS
<1>3. QED
  BY <1>1, <1>2 DEF IsFlattening

(* The lists of all entries come from one function.                        *)
LEMMA NestedUnfolds ==
  ASSUME NEW st \in Store, Inv(st), Small(st), NEW q \in Params
  PROVE  \E nest :
           /\ \A d \in Dn : Nested(st, q, d) = nest[<<d, d>>]
           /\ \A e \in Dn \X Dn : nest[e] = Nesting(st, q, nest, e)
<1>1. PICK n \in Nat : \E h : Heights(st, n, h)
  BY HeightsExist
<1>2. PICK h : Heights(st, n, h)
  BY <1>1
<1>. DEFINE D == Dn \X Dn
            V == Seq(Dn \X Dn)
            high == [e \in D |-> h[e[2]]]
            step == [f \in [D -> V] |-> [e \in D |-> Nesting(st, q, f, e)]]
<1>3. high \in [D -> 0..n]
  BY <1>2 DEF Heights
<1>4. ASSUME NEW e \in D, NEW i \in 1..Len(st.kids[e[2]])
      PROVE  /\ st.kids[e[2]][i] \in Dn /\ Len(st.kids[e[2]]) \in Nat
             /\ <<e[1], st.kids[e[2]][i]>> \in D /\ <<st.kids[e[2]][i], st.kids[e[2]][i]>> \in D
             /\ high[<<e[1], st.kids[e[2]][i]>>] < high[e]
             /\ high[<<st.kids[e[2]][i], st.kids[e[2]][i]>>] < high[e]
  <2>1. st.kids[e[2]][i] \in Dn /\ h[st.kids[e[2]][i]] < h[e[2]] /\ e[1] \in Dn /\ e[2] \in Dn
    BY <1>2 DEF Heights
  <2>2. Len(st.kids[e[2]]) \in Nat
    BY <2>1, KidsFacts
  <2>. DEFINE c == st.kids[e[2]][i]
  <2>. HIDE DEF c
  <2>3. <<e[1], c>> \in D /\ <<c, c>> \in D /\ high[<<e[1], c>>] = h[c] /\ high[<<c, c>>] = h[c]
    BY <2>1 DEF c
  <2>4. QED
    BY <2>1, <2>2, <2>3 DEF c
<1>5. step \in [[D -> V] -> [D -> V]]
  <2>1. ASSUME NEW f \in [D -> V], NEW e \in D
        PROVE  Nesting(st, q, f, e) \in V
    <3>. DEFINE ps == [i \in 1..Len(st.kids[e[2]]) |-> Emitted(st, q, f, e[1], st.kids[e[2]][i])]
    <3>1. ASSUME NEW i \in 1..Len(st.kids[e[2]])
          PROVE  Emitted(st, q, f, e[1], st.kids[e[2]][i]) \in V
      <4>. DEFINE c == st.kids[e[2]][i]
      <4>1. <<e[1], c>> \in D /\ <<c, c>> \in D
        BY <1>4
      <4>. HIDE DEF c
      <4>2. f[<<e[1], c>>] \in V /\ f[<<c, c>>] \in V /\ << <<e[1], c>> >> \in V /\ <<>> \in V
        BY <4>1
      <4>3. << <<e[1], c>> >> \o f[<<c, c>>] \in V
        BY <4>2
      <4>4. QED
        BY <4>2, <4>3 DEF Emitted, c
    <3>2. ps \in Seq(V)
      <4>1. Len(st.kids[e[2]]) \in Nat
        BY KidsFacts
      <4>. HIDE DEF V
      <4>2. QED
        BY <3>1, <4>1
    <3>. HIDE DEF ps
    <3>3. FlattenSeq(ps) \in V
      BY <3>2, FlattenTyped
    <3>4. QED
      BY <3>3 DEF Nesting, ps
  <2>. HIDE DEF D, V
  <2>2. QED
    BY <2>1
<1>6. IsRecursion(step, D, [D -> V], high, n)
  <2>1. ASSUME NEW f \in [D -> V], NEW g \in [D -> V], NEW e \in D,
               \A y \in D : high[y] < high[e] => f[y] = g[y]
        PROVE  step[f][e] = step[g][e]
    <3>1. ASSUME NEW i \in 1..Len(st.kids[e[2]])
          PROVE  Emitted(st, q, f, e[1], st.kids[e[2]][i]) = Emitted(st, q, g, e[1], st.kids[e[2]][i])
      <4>1. /\ f[<<e[1], st.kids[e[2]][i]>>] = g[<<e[1], st.kids[e[2]][i]>>]
            /\ f[<<st.kids[e[2]][i], st.kids[e[2]][i]>>] = g[<<st.kids[e[2]][i], st.kids[e[2]][i]>>]
        <5>. HIDE DEF high, D
        <5>1. QED
          BY <1>4, <2>1
      <4>2. QED
        BY <4>1 DEF Emitted
    <3>2. Nesting(st, q, f, e) = Nesting(st, q, g, e)
      BY <3>1 DEF Nesting
    <3>3. QED
      BY <3>2
  <2>. HIDE DEF D, V, step, high
  <2>2. Descends(step, D, [D -> V], high)
    BY <2>1 DEF Descends
  <2>3. \A f \in [D -> V] : f = [x \in D |-> f[x]]
    OBVIOUS
  <2>4. QED
    BY <1>3, <1>5, <2>2, <2>3 DEF IsRecursion
<1>7. PICK f \in [D -> V] : f = [e \in D |-> Nesting(st, q, f, e)]
  <2>1. [x \in D |-> <<>>] \in [D -> V]
    OBVIOUS
  <2>2. \A f \in [D -> V] : step[f] = [e \in D |-> Nesting(st, q, f, e)]
    OBVIOUS
  <2>. HIDE DEF D, V, step, high
  <2>. DEFINE F == [D -> V]
              start == [x \in D |-> <<>>]
  <2>3. start \in F /\ IsRecursion(step, D, F, high, n)
    BY <1>6, <2>1
  <2>. HIDE DEF F, start
  <2>4. \E f \in F : f = step[f]
    BY <1>1, <2>3, RecursionExists
  <2>5. QED
    BY <2>2, <2>4 DEF F
<1>. DEFINE nest == CHOOSE g : g = [e \in Dn \X Dn |-> Nesting(st, q, g, e)]
<1>8. nest = [e \in Dn \X Dn |-> Nesting(st, q, nest, e)]
  BY <1>7
<1>9. \A d \in Dn : Nested(st, q, d) = nest[<<d, d>>]
  BY DEF Nested
<1>. HIDE DEF nest
<1>10. \A e \in Dn \X Dn : nest[e] = Nesting(st, q, nest, e)
  BY <1>8
<1>11. QED
  BY <1>9, <1>10

(* The MOs inside p that x is below.                                       *)
Uppers(st, p, x) == {m \in Inside(st, p) : x \in Below(m) \ {m}}

(* b is the innermost of U, or a if there is none.                         *)
Innermost(U, a, b) ==
  \/ b \in U /\ \A m \in U : Len(m) <= Len(b)
  \/ U = {} /\ b = a

LEMMA InnermostExists ==
  ASSUME NEW x \in Dn, NEW U \in SUBSET Dn, \A m \in U : x \in Below(m) \ {m}, NEW a \in Dn
  PROVE  \E b \in Dn : Innermost(U, a, b)
<1>1. CASE U = {}
  BY <1>1 DEF Innermost
<1>2. CASE U # {}
  <2>. DEFINE S == {Len(x) - Len(m) : m \in U}
  <2>1. \A m \in U : Len(m) \in Nat /\ Len(x) \in Nat /\ Len(m) < Len(x)
    BY BelowLonger
  <2>2. S \in SUBSET Nat /\ S # {}
    BY <1>2, <2>1
  <2>. HIDE DEF S
  <2>3. PICK n \in S : \A k \in S : n <= k
    BY <2>2, LeastElement
  <2>4. PICK b \in U : n = Len(x) - Len(b)
    BY <2>3 DEF S
  <2>5. \A m \in U : Len(m) <= Len(b)
    <3>1. \A m \in U : Len(x) - Len(b) <= Len(x) - Len(m)
      BY <2>3, <2>4 DEF S
    <3>2. QED
      BY <2>1, <3>1
  <2>6. QED
    BY <2>5 DEF Innermost
<1>3. QED
  BY <1>1, <1>2

(* A child c of p adds itself to what is above a DN below it.              *)
LEMMA UppersOfChild ==
  ASSUME NEW st, NEW p \in Dn, NEW c \in Below(p) \ {p}, Len(c) = Len(p) + 1
  PROVE  /\ Uppers(st, p, c) = {}
         /\ \A x \in Below(c) \ {c} : Uppers(st, p, x) = Uppers(st, c, x) \cup ({c} \cap Present(st))
<1>1. Len(p) \in Nat /\ Len(c) \in Nat /\ c \in Dn
  BY BelowLonger
<1>2. Uppers(st, p, c) = {}
  <2>1. ASSUME NEW m \in Uppers(st, p, c)
        PROVE  FALSE
    <3>1. m \in Dn /\ m \in Below(p) \ {p} /\ c \in Below(m) \ {m}
      BY DEF Uppers, Inside, Present
    <3>2. Len(m) \in Nat /\ Len(p) < Len(m) /\ Len(m) < Len(c)
      BY <3>1, BelowLonger
    <3>3. QED
      BY <1>1, <3>2
  <2>2. QED
    BY <2>1
<1>3. ASSUME NEW x \in Below(c) \ {c}
      PROVE  Uppers(st, p, x) = Uppers(st, c, x) \cup ({c} \cap Present(st))
  <2>1. x \in Dn
    BY <1>1, BelowLonger
  <2>2. ASSUME NEW m \in Uppers(st, p, x)
        PROVE  m \in Uppers(st, c, x) \/ m \in {c} \cap Present(st)
    <3>1. m \in Dn /\ m \in Present(st) /\ m \in Below(p) \ {p} /\ x \in Below(m) \ {m}
      BY DEF Uppers, Inside, Present
    <3>2. Len(m) \in Nat /\ Len(p) < Len(m)
      BY <3>1, BelowLonger
    <3>3. Len(c) <= Len(m)
      BY <1>1, <3>2
    <3>4. m \in Below(c)
      BY <1>1, <3>1, <3>3, BelowBoth
    <3>5. QED
      BY <3>1, <3>4 DEF Uppers, Inside
  <2>3. ASSUME NEW m \in Uppers(st, c, x)
        PROVE  m \in Uppers(st, p, x)
    <3>1. m \in Dn /\ m \in Present(st) /\ m \in Below(c) \ {c} /\ x \in Below(m) \ {m}
      BY DEF Uppers, Inside, Present
    <3>2. m \in Below(p)
      BY <1>1, <3>1, BelowBelow
    <3>3. m # p
      BY <1>1, <3>1, BelowLonger
    <3>4. QED
      BY <3>1, <3>2, <3>3 DEF Uppers, Inside
  <2>4. c \in Present(st) => c \in Uppers(st, p, x)
    BY DEF Uppers, Inside
  <2>5. QED
    BY <2>2, <2>3, <2>4
<1>4. QED
  BY <1>2, <1>3

(* The class of x, or of something below it, is wanted.                    *)
Wants(st, q, x) == \E y \in Present(st) \cap Below(x) : Wanting(q, st.mo[y].class)

(* What the child list of e[2] yields for the entry of e[1], each node     *)
(* with the entry it is in.                                                *)
NestKeys(st, q, e) ==
  {k \in Dn \X Dn : /\ k[2] \in Inside(st, e[2]) /\ Wants(st, q, k[2])
                    /\ Innermost(Uppers(st, e[2], k[2]), e[1], k[1])}

NestRank(st) == {r \in (Dn \X Dn) \X (Dn \X Dn) : <<r[1][2], r[2][2]>> \in Ahead(st)}

(* The part of it that comes from c.                                       *)
NestPart(st, q, e, c) == {k \in NestKeys(st, q, e) : k[2] \in Below(c)}

(* An MO has something emitted for it if its class is wanted or something  *)
(* below it is emitted.                                                    *)
LEMMA WantsBelow ==
  ASSUME NEW st \in Store, NEW q \in Params, NEW c \in Present(st)
  PROVE  Wants(st, q, c) <=> c \in Wanted(st, q) \/ NestKeys(st, q, <<c, c>>) # {}
<1>1. c \in Dn /\ c \in Below(c)
  BY BelowSelf DEF Present
<1>2. ASSUME Wants(st, q, c), c \notin Wanted(st, q)
      PROVE  NestKeys(st, q, <<c, c>>) # {}
  <2>1. PICK y \in Present(st) \cap Below(c) : Wanting(q, st.mo[y].class)
    BY <1>2 DEF Wants
  <2>2. y # c /\ y \in Dn /\ y \in Below(y)
    BY <1>2, <2>1, BelowSelf DEF Wanted, Present
  <2>3. y \in Inside(st, c) /\ Wants(st, q, y)
    BY <2>1, <2>2 DEF Inside, Wants
  <2>4. PICK b \in Dn : Innermost(Uppers(st, c, y), c, b)
    <3>. DEFINE U == Uppers(st, c, y)
    <3>1. U \in SUBSET Dn /\ \A m \in U : y \in Below(m) \ {m}
      BY DEF Uppers, Inside, Present
    <3>. HIDE DEF U
    <3>2. \E b \in Dn : Innermost(U, c, b)
      BY <1>1, <2>2, <3>1, InnermostExists
    <3>3. QED
      BY <3>2 DEF U
  <2>5. <<b, y>> \in NestKeys(st, q, <<c, c>>)
    BY <2>2, <2>3, <2>4 DEF NestKeys
  <2>6. QED
    BY <2>5
<1>3. ASSUME c \in Wanted(st, q)
      PROVE  Wants(st, q, c)
  BY <1>1, <1>3 DEF Wanted, Wants
<1>4. ASSUME NEW k \in NestKeys(st, q, <<c, c>>)
      PROVE  Wants(st, q, c)
  <2>1. k[2] \in Below(c) /\ Wants(st, q, k[2])
    BY DEF NestKeys, Inside
  <2>2. PICK y \in Present(st) \cap Below(k[2]) : Wanting(q, st.mo[y].class)
    BY <2>1 DEF Wants
  <2>3. y \in Below(c)
    BY <1>1, <2>1, <2>2, BelowBelow
  <2>4. QED
    BY <2>2, <2>3 DEF Wants
<1>5. QED
  BY <1>2, <1>3, <1>4

(* What a child contributes is what it yields itself: for the same entry   *)
(* if it has no MO, otherwise for its own, behind itself.                  *)
LEMMA NestPartIs ==
  ASSUME NEW st \in Store, NEW q \in Params, NEW a \in Dn, NEW p \in Dn,
         NEW c \in Below(p) \ {p}, Len(c) = Len(p) + 1
  PROVE  LET part == NestPart(st, q, <<a, p>>, c)
         IN  /\ c \notin Present(st) => part = NestKeys(st, q, <<a, c>>)
             /\ c \in Present(st) /\ Wants(st, q, c) =>
                  part = {<<a, c>>} \cup NestKeys(st, q, <<c, c>>)
             /\ ~ Wants(st, q, c) => part = {}
<1>. DEFINE part == NestPart(st, q, <<a, p>>, c)
<1>1. Len(p) \in Nat /\ Len(c) \in Nat /\ c \in Dn /\ c \in Below(c)
  BY BelowLonger, BelowSelf
<1>2. \A k \in Dn \X Dn : k \in part <=>
        /\ k[2] \in Present(st) /\ k[2] \in Below(c) /\ Wants(st, q, k[2])
        /\ Innermost(Uppers(st, p, k[2]), a, k[1])
  <2>1. ASSUME NEW x \in Present(st), x \in Below(c)
        PROVE  x \in Inside(st, p)
    <3>1. x \in Dn /\ x \in Below(p)
      BY <1>1, <2>1, BelowBelow DEF Present
    <3>2. x # p
      BY <1>1, <2>1, <3>1, BelowLonger
    <3>3. QED
      BY <3>1, <3>2 DEF Inside
  <2>2. QED
    BY <2>1 DEF NestPart, NestKeys, Inside
<1>3. part \subseteq Dn \X Dn
  BY DEF NestPart, NestKeys
<1>. HIDE DEF part
<1>4. ASSUME NEW b \in Dn
      PROVE  \A k \in Dn \X Dn : k \in NestKeys(st, q, <<b, c>>) <=>
               /\ k[2] \in Present(st) /\ k[2] \in Below(c) \ {c} /\ Wants(st, q, k[2])
               /\ Innermost(Uppers(st, c, k[2]), b, k[1])
  BY DEF NestKeys, Inside
<1>5. \A b : NestKeys(st, q, <<b, c>>) \subseteq Dn \X Dn
  BY DEF NestKeys
<1>6. \A x \in Below(c) \ {c} : Uppers(st, p, x) = Uppers(st, c, x) \cup ({c} \cap Present(st))
  BY UppersOfChild
<1>7. ASSUME c \notin Present(st)
      PROVE  part = NestKeys(st, q, <<a, c>>)
  <2>1. ASSUME NEW k \in Dn \X Dn
        PROVE  k \in part <=> k \in NestKeys(st, q, <<a, c>>)
    <3>1. k[2] \in Below(c) \ {c} => Uppers(st, p, k[2]) = Uppers(st, c, k[2])
      BY <1>6, <1>7
    <3>2. k[2] \in Present(st) => k[2] # c
      BY <1>7
    <3>3. QED
      BY <1>2, <1>4, <3>1, <3>2
  <2>2. QED
    BY <1>3, <1>5, <2>1
<1>8. ASSUME c \in Present(st), Wants(st, q, c)
      PROVE  part = {<<a, c>>} \cup NestKeys(st, q, <<c, c>>)
  <2>1. ASSUME NEW b \in Dn
        PROVE  <<b, c>> \in part <=> b = a
    <3>1. Uppers(st, p, c) = {}
      BY UppersOfChild
    <3>2. Innermost(Uppers(st, p, c), a, b) <=> b = a
      BY <3>1 DEF Innermost
    <3>3. QED
      BY <1>1, <1>2, <1>8, <3>2
  <2>2. ASSUME NEW k \in Dn \X Dn, k[2] # c
        PROVE  k \in part <=> k \in NestKeys(st, q, <<c, c>>)
    <3>. DEFINE U == Uppers(st, c, k[2])
    <3>1. ASSUME k[2] \in Below(c)
          PROVE  Innermost(Uppers(st, p, k[2]), a, k[1]) <=> Innermost(U, c, k[1])
      <4>1. Uppers(st, p, k[2]) = U \cup {c}
        BY <1>6, <1>8, <2>2, <3>1
      <4>2. \A m \in U : Len(m) \in Nat /\ Len(c) < Len(m)
        <5>1. \A m \in U : m \in Dn /\ m \in Below(c) /\ m # c
          BY DEF Uppers, Inside, Present
        <5>2. QED
          BY <1>1, <5>1, BelowLonger
      <4>. HIDE DEF U
      <4>3. QED
        BY <1>1, <4>1, <4>2 DEF Innermost
    <3>2. QED
      BY <1>1, <1>2, <1>4, <2>2, <3>1
  <2>3. ASSUME NEW k \in Dn \X Dn
        PROVE  k \in part <=> k = <<a, c>> \/ k \in NestKeys(st, q, <<c, c>>)
    <3>1. CASE k[2] = c
      <4>1. k = <<k[1], c>> /\ k[1] \in Dn
        BY <3>1
      <4>2. k \in part <=> k[1] = a
        BY <2>1, <4>1
      <4>3. k \notin NestKeys(st, q, <<c, c>>)
        BY <1>1, <1>4, <3>1
      <4>4. QED
        BY <4>1, <4>2, <4>3
    <3>2. CASE k[2] # c
      BY <2>2, <3>2
    <3>3. QED
      BY <3>1, <3>2
  <2>4. QED
    BY <1>1, <1>3, <1>5, <2>3
<1>9. ASSUME ~ Wants(st, q, c)
      PROVE  part = {}
  <2>1. ASSUME NEW k \in part
        PROVE  FALSE
    <3>1. k[2] \in Below(c) /\ Wants(st, q, k[2])
      BY <1>2, <1>3
    <3>2. PICK y \in Present(st) \cap Below(k[2]) : Wanting(q, st.mo[y].class)
      BY <3>1 DEF Wants
    <3>3. y \in Below(c)
      BY <1>1, <3>1, <3>2, BelowBelow
    <3>4. QED
      BY <1>9, <3>2, <3>3 DEF Wants
  <2>2. QED
    BY <2>1
<1>10. QED
  BY <1>7, <1>8, <1>9 DEF part

(* The lists of the children make up the list of their parent.             *)
LEMMA NestingSorted ==
  ASSUME NEW st \in Store, Inv(st), NEW q \in Params, NEW nest, NEW a \in Dn, NEW p \in Dn,
         \A i \in 1..Len(st.kids[p]) : \A b \in Dn :
           Sorted(nest[<<b, st.kids[p][i]>>], NestKeys(st, q, <<b, st.kids[p][i]>>), NestRank(st))
  PROVE  Sorted(Nesting(st, q, nest, <<a, p>>), NestKeys(st, q, <<a, p>>), NestRank(st))
<1>. DEFINE n == Len(st.kids[p])
            c(i) == st.kids[p][i]
            A == NestRank(st)
            D == Dn \X Dn
            ps == [i \in 1..n |-> Emitted(st, q, nest, a, c(i))]
            K == [i \in 1..n |-> NestPart(st, q, <<a, p>>, c(i))]
<1>1. /\ n \in Nat
      /\ \A i \in 1..n : /\ c(i) \in Dn /\ c(i) \in Below(c(i)) /\ c(i) \in Below(p) \ {p}
                         /\ Len(c(i)) = Len(p) + 1
  BY KidsFacts, BelowSelf
<1>2. ASSUME NEW i \in 1..n
      PROVE  Sorted(ps[i], K[i], A)
  <2>. DEFINE e == c(i)
              part == NestPart(st, q, <<a, p>>, e)
              own == NestKeys(st, q, <<e, e>>)
  <2>1. e \in Dn /\ e \in Below(p) \ {p} /\ Len(e) = Len(p) + 1
    BY <1>1
  <2>2. ps[i] = Emitted(st, q, nest, a, e) /\ K[i] = part
    OBVIOUS
  <2>3. \A b \in Dn : Sorted(nest[<<b, e>>], NestKeys(st, q, <<b, e>>), A)
    OBVIOUS
  <2>. HIDE DEF e, A, ps, K
  <2>4. /\ e \notin Present(st) => part = NestKeys(st, q, <<a, e>>)
        /\ e \in Present(st) /\ Wants(st, q, e) => part = {<<a, e>>} \cup own
        /\ ~ Wants(st, q, e) => part = {}
    BY <2>1, NestPartIs
  <2>5. nest[<<e, e>>] # <<>> <=> own # {}
    <3>1. Sorted(nest[<<e, e>>], own, A)
      BY <2>1, <2>3
    <3>. HIDE DEF own
    <3>2. QED
      BY <3>1 DEF Sorted
  <2>. HIDE DEF part
  <2>6. CASE e \notin Present(st)
    <3>1. Emitted(st, q, nest, a, e) = nest[<<a, e>>]
      BY <2>6 DEF Emitted
    <3>2. QED
      BY <2>2, <2>3, <2>4, <2>6, <3>1
  <2>7. CASE e \in Present(st) /\ Wants(st, q, e)
    <3>1. e \in Wanted(st, q) \/ nest[<<e, e>>] # <<>>
      BY <2>5, <2>7, WantsBelow
    <3>2. Emitted(st, q, nest, a, e) = << <<a, e>> >> \o nest[<<e, e>>]
      BY <2>7, <3>1 DEF Emitted
    <3>3. {<<a, e>>} \X own \subseteq A
      <4>1. ASSUME NEW k \in own
            PROVE  << <<a, e>>, k >> \in A
        <5>1. k \in Dn \X Dn /\ k[2] \in Below(e) \ {e}
          BY DEF NestKeys, Inside
        <5>2. <<e, k[2]>> \in Ahead(st)
          BY <2>1, <5>1 DEF Ahead
        <5>3. QED
          BY <2>1, <5>1, <5>2 DEF NestRank, A
      <4>. HIDE DEF own
      <4>2. QED
        BY <4>1
    <3>4. Sorted(<< <<a, e>> >>, {<<a, e>>}, A)
      BY OneSorted
    <3>5. Sorted(nest[<<e, e>>], own, A)
      BY <2>1, <2>3
    <3>. HIDE DEF own
    <3>6. Sorted(<< <<a, e>> >> \o nest[<<e, e>>], {<<a, e>>} \cup own, A)
      BY <3>3, <3>4, <3>5, ConcatSorted
    <3>7. QED
      BY <2>2, <2>4, <2>7, <3>2, <3>6
  <2>8. CASE e \in Present(st) /\ ~ Wants(st, q, e)
    <3>1. ~ (e \in Wanted(st, q) \/ nest[<<e, e>>] # <<>>)
      BY <2>5, <2>8, WantsBelow
    <3>2. Emitted(st, q, nest, a, e) = <<>>
      BY <2>8, <3>1 DEF Emitted
    <3>3. QED
      BY <2>2, <2>4, <2>8, <3>2, EmptySorted
  <2>9. QED
    BY <2>6, <2>7, <2>8
<1>3. ASSUME NEW i \in 1..n, NEW j \in 1..n, i < j
      PROVE  K[i] \X K[j] \subseteq A
  <2>1. ASSUME NEW k \in K[i], NEW l \in K[j]
        PROVE  <<k, l>> \in A
    <3>1. /\ k \in D /\ l \in D /\ k[2] \in Below(c(i)) /\ l[2] \in Below(c(j))
      BY DEF NestPart, NestKeys
    <3>2. k[2] \in Dn /\ l[2] \in Dn
      BY <3>1
    <3>3. <<k[2], l[2]>> \in Ahead(st)
      BY <1>3, <3>1, <3>2 DEF Ahead
    <3>4. QED
      BY <3>1, <3>3 DEF NestRank
  <2>. HIDE DEF K, A
  <2>2. QED
    BY <2>1
<1>4. ps \in Seq(Seq(D)) /\ Len(ps) = n
  <2>1. ASSUME NEW i \in 1..n
        PROVE  ps[i] \in Seq(D)
    <3>1. K[i] \subseteq D
      BY DEF NestPart, NestKeys
    <3>2. ps[i] \in Seq(K[i])
      BY <1>2 DEF Sorted
    <3>. HIDE DEF K, D, ps
    <3>3. QED
      BY <3>1, <3>2
  <2>. DEFINE V == Seq(D)
  <2>2. \A i \in 1..n : Emitted(st, q, nest, a, c(i)) \in V
    BY <2>1
  <2>. HIDE DEF V
  <2>3. ps \in Seq(V) /\ Len(ps) = n
    BY <1>1, <2>2
  <2>4. QED
    BY <2>3 DEF V
<1>. DEFINE U == UNION {K[i] : i \in 1..n}
<1>5. U = NestKeys(st, q, <<a, p>>)
  <2>1. ASSUME NEW k \in NestKeys(st, q, <<a, p>>)
        PROVE  \E i \in 1..n : k[2] \in Below(c(i))
    <3>1. k[2] \in Present(st) \cap (Below(p) \ {p})
      BY DEF NestKeys, Inside
    <3>2. PICK i \in 1..n : k[2] \in ({c(i)} \cap Present(st)) \cup (Present(st) \cap (Below(c(i)) \ {c(i)}))
      BY <3>1, BelowChildren
    <3>3. QED
      BY <1>1, <3>2
  <2>2. \A i \in 1..n : K[i] = {k \in NestKeys(st, q, <<a, p>>) : k[2] \in Below(c(i))}
    BY DEF NestPart
  <2>. HIDE DEF K
  <2>3. QED
    BY <2>1, <2>2
<1>6. Nesting(st, q, nest, <<a, p>>) = FlattenSeq(ps)
  BY DEF Nesting
<1>. HIDE DEF ps, K, A, D, n
<1>7. Sorted(FlattenSeq(ps), U, A)
  <2>1. \A i \in 1..Len(ps) : Sorted(ps[i], K[i], A)
    BY <1>2, <1>4
  <2>2. \A i, j \in 1..Len(ps) : i < j => K[i] \X K[j] \subseteq A
    BY <1>3, <1>4
  <2>3. Sorted(FlattenSeq(ps), UNION {K[i] : i \in 1..Len(ps)}, A)
    BY <1>4, <2>1, <2>2, FlattenSorted
  <2>4. QED
    BY <1>4, <2>3
<1>8. QED
  BY <1>5, <1>6, <1>7 DEF A

LEMMA NestedSorted ==
  ASSUME NEW st \in Store, Inv(st), Small(st), NEW q \in Params, NEW d \in Dn
  PROVE  Sorted(Nested(st, q, d), NestKeys(st, q, <<d, d>>), NestRank(st))
<1>1. PICK nest : /\ \A x \in Dn : Nested(st, q, x) = nest[<<x, x>>]
                  /\ \A e \in Dn \X Dn : nest[e] = Nesting(st, q, nest, e)
  BY NestedUnfolds
<1>. DEFINE R == {p \in Dn : \A a \in Dn : Sorted(nest[<<a, p>>], NestKeys(st, q, <<a, p>>), NestRank(st))}
<1>2. ASSUME NEW p \in Dn, \A i \in 1..Len(st.kids[p]) : st.kids[p][i] \in R
      PROVE  p \in R
  <2>1. ASSUME NEW a \in Dn
        PROVE  Sorted(nest[<<a, p>>], NestKeys(st, q, <<a, p>>), NestRank(st))
    <3>1. \A i \in 1..Len(st.kids[p]) : \A b \in Dn :
            Sorted(nest[<<b, st.kids[p][i]>>], NestKeys(st, q, <<b, st.kids[p][i]>>), NestRank(st))
      BY <1>2
    <3>2. Sorted(Nesting(st, q, nest, <<a, p>>), NestKeys(st, q, <<a, p>>), NestRank(st))
      BY <3>1, NestingSorted
    <3>3. nest[<<a, p>>] = Nesting(st, q, nest, <<a, p>>)
      BY <1>1
    <3>4. QED
      BY <3>2, <3>3
  <2>2. QED
    BY <2>1
<1>. HIDE DEF R
<1>3. Dn \subseteq R
  BY <1>2, HeightInduction
<1>4. QED
  BY <1>1, <1>3 DEF R

(* What encloses x in the entry of d is the nearest MO above x.            *)
LEMMA NearestIs ==
  ASSUME NEW st, NEW d \in Present(st), NEW x \in Inside(st, d), NEW b \in Dn,
         Innermost(Uppers(st, d, x), d, b)
  PROVE  Nearest(st, d, x) = b
<1>. DEFINE Above(y) == y \in Present(st) /\ x \in Below(y) \ {y}
            Near(p) == /\ x \in Below(p) \ {p}
                       /\ \A y \in Present(st) : x \in Below(y) \ {y} => Len(y) <= Len(p)
<1>1. d \in Dn /\ x \in Dn /\ x \in Below(d) \ {d} /\ d \in Below(d)
  BY BelowSelf DEF Inside, Present
<1>2. \A y : Above(y) => y \in Dn /\ Len(y) \in Nat /\ Len(x) \in Nat /\ Len(y) < Len(x)
  <2>1. \A y : Above(y) => y \in Dn
    BY DEF Present
  <2>2. QED
    BY <2>1, BelowLonger
<1>3. Len(d) \in Nat
  BY <1>1, BelowLonger
<1>4. ASSUME NEW y, Above(y), ~ Len(y) <= Len(d)
      PROVE  y \in Uppers(st, d, x)
  <2>1. Len(d) <= Len(y) /\ y \in Dn /\ y # d
    BY <1>2, <1>3, <1>4
  <2>2. y \in Below(d)
    BY <1>1, <1>4, <2>1, BelowBoth
  <2>3. QED
    BY <1>4, <2>1, <2>2 DEF Uppers, Inside
<1>5. b \in Present(st) /\ b \in Below(d) /\ Near(b)
  <2>1. CASE b \in Uppers(st, d, x) /\ \A m \in Uppers(st, d, x) : Len(m) <= Len(b)
    <3>1. Above(b) /\ b \in Below(d) \ {d}
      BY <2>1 DEF Uppers, Inside
    <3>2. Len(b) \in Nat /\ Len(d) < Len(b)
      BY <1>1, <1>2, <3>1, BelowLonger
    <3>3. ASSUME NEW y, Above(y)
          PROVE  Len(y) <= Len(b)
      <4>1. CASE Len(y) <= Len(d)
        BY <1>2, <1>3, <3>2, <3>3, <4>1
      <4>2. CASE ~ Len(y) <= Len(d)
        BY <1>4, <2>1, <3>3, <4>2
      <4>3. QED
        BY <4>1, <4>2
    <3>4. QED
      BY <3>1, <3>3
  <2>2. CASE Uppers(st, d, x) = {} /\ b = d
    <3>1. \A y : Above(y) => Len(y) <= Len(d)
      BY <1>4, <2>2
    <3>2. QED
      BY <1>1, <2>2, <3>1
  <2>3. QED
    BY <2>1, <2>2 DEF Innermost
<1>6. ASSUME NEW p \in Present(st) \cap Below(d), Near(p)
      PROVE  p = b
  <2>1. Above(p) /\ Above(b)
    BY <1>5, <1>6
  <2>2. Len(p) <= Len(b) /\ Len(b) <= Len(p)
    BY <1>5, <1>6, <2>1
  <2>3. p \in Dn /\ b \in Dn /\ Len(p) = Len(b)
    BY <1>2, <2>1, <2>2
  <2>4. x \in Below(p) /\ x \in Below(b)
    BY <2>1
  <2>5. QED
    BY <2>3, <2>4, BelowBoth
<1>7. Nearest(st, d, x) = CHOOSE p \in Present(st) \cap Below(d) : Near(p)
  BY DEF Nearest
<1>. HIDE DEF Near
<1>8. QED
  BY <1>5, <1>6, <1>7

LEMMA NestedFull ==
  ASSUME NEW st, StoreInv(st), NEW q \in Params, q.rsp = "full", NEW d \in Present(st)
  PROVE  NestedRight(st, q, d)
<1>. DEFINE nested == Nested(st, q, d)
            inside == (Below(d) \ {d}) \cap Present(st)
            emit == {x \in inside : \E y \in inside \cap Below(x) : Wanting(q, st.mo[y].class)}
            K == NestKeys(st, q, <<d, d>>)
<1>1. d \in Dn /\ st \in Store /\ Inv(st) /\ Small(st)
  BY DEF Present, StoreInv
<1>2. Sorted(nested, K, NestRank(st))
  BY <1>1, NestedSorted
<1>3. inside = Inside(st, d) /\ inside \subseteq Dn
  BY DEF Inside, Present
<1>4. ASSUME NEW x \in inside
      PROVE  x \in emit <=> Wants(st, q, x)
  <2>1. \A y \in Present(st) \cap Below(x) : y \in inside
    <3>1. ASSUME NEW y \in Present(st) \cap Below(x)
          PROVE  y \in inside
      <4>1. x \in Dn /\ y \in Dn /\ y \in Below(d)
        BY <1>1, <1>3, BelowBelow DEF Present
      <4>2. Len(d) < Len(x) /\ Len(d) \in Nat /\ Len(x) \in Nat /\ (y = x \/ Len(x) < Len(y))
        BY <1>1, <4>1, BelowLonger
      <4>3. Len(y) \in Nat
        BY <4>1, DnAssumption
      <4>4. y # d
        BY <4>2, <4>3
      <4>5. QED
        BY <4>1, <4>4
    <3>2. QED
      BY <3>1
  <2>2. QED
    BY <2>1 DEF Wants
<1>5. \A k \in Dn \X Dn : k \in K <=>
        k[2] \in inside /\ Wants(st, q, k[2]) /\ Innermost(Uppers(st, d, k[2]), d, k[1])
  BY <1>1, <1>3 DEF NestKeys
<1>6. K \subseteq Dn \X Dn
  BY DEF NestKeys
<1>. HIDE DEF K, nested
<1>7. ASSUME NEW x \in inside
      PROVE  \E b \in Dn : Innermost(Uppers(st, d, x), d, b)
  <2>. DEFINE U == Uppers(st, d, x)
  <2>1. U \in SUBSET Dn /\ \A m \in U : x \in Below(m) \ {m}
    BY DEF Uppers, Inside, Present
  <2>2. x \in Dn
    BY <1>3
  <2>. HIDE DEF U
  <2>3. \E b \in Dn : Innermost(U, d, b)
    BY <1>1, <2>1, <2>2, InnermostExists
  <2>4. QED
    BY <2>3 DEF U
<1>8. \A x \in inside : \A b \in Dn : Innermost(Uppers(st, d, x), d, b) => Nearest(st, d, x) = b
  BY <1>3, NearestIs
<1>9. ToSet(nested) = {<<Nearest(st, d, x), x>> : x \in emit}
  <2>1. ToSet(nested) = K
    BY <1>2, SortedPlaces
  <2>2. ASSUME NEW k \in K
        PROVE  k[2] \in emit /\ k = <<Nearest(st, d, k[2]), k[2]>>
    <3>1. k \in Dn \X Dn
      BY <1>6
    <3>2. k[2] \in inside /\ Wants(st, q, k[2]) /\ Innermost(Uppers(st, d, k[2]), d, k[1])
      BY <1>5, <3>1
    <3>3. Nearest(st, d, k[2]) = k[1]
      BY <1>8, <3>1, <3>2
    <3>4. k[2] \in emit
      BY <1>4, <3>2
    <3>5. QED
      BY <3>1, <3>3, <3>4
  <2>3. ASSUME NEW x \in emit
        PROVE  <<Nearest(st, d, x), x>> \in K
    <3>1. x \in inside /\ Wants(st, q, x) /\ x \in Dn
      BY <1>3, <1>4
    <3>2. PICK b \in Dn : Innermost(Uppers(st, d, x), d, b)
      BY <1>7, <3>1
    <3>3. Nearest(st, d, x) = b
      BY <1>8, <3>1, <3>2
    <3>4. <<b, x>> \in K
      BY <1>5, <3>1, <3>2
    <3>5. QED
      BY <3>3, <3>4
  <2>. HIDE DEF emit, inside
  <2>4. QED
    BY <2>1, <2>2, <2>3
<1>10. \A i, j \in DOMAIN nested : nested[i][2] = nested[j][2] => i = j
  <2>1. DOMAIN nested = 1..Len(nested) /\ Len(nested) \in Nat
    BY <1>2, SortedPlaces
  <2>2. \A i, j \in 1..Len(nested) : i < j => <<nested[i][2], nested[j][2]>> \in Ahead(st)
    BY <1>2 DEF Sorted, NestRank
  <2>3. \A x : <<x, x>> \notin Ahead(st)
    BY <1>1, AheadStrict
  <2>4. \A i, j \in 1..Len(nested) : i < j => nested[i][2] # nested[j][2]
    BY <2>2, <2>3
  <2>5. QED
    BY <2>1, <2>4
<1>11. Entry(st, q, d).nested = nested
  BY DEF Entry, nested
<1>12. QED
  BY <1>9, <1>10, <1>11 DEF NestedRight

LEMMA NestedChildren ==
  ASSUME NEW st, StoreInv(st), NEW q \in Params, q.rsp = "children", NEW d \in Present(st)
  PROVE  NestedRight(st, q, d)
<1>. DEFINE kids == {x \in Present(st) : ~ IsTop(x) /\ parent_dn(x) = d}
            cs == Picked(Children(st, d), Wanted(st, q))
            K == kids \cap Wanted(st, q)
            nested == [i \in 1..Len(cs) |-> <<d, cs[i]>>]
            inside == (Below(d) \ {d}) \cap Present(st)
            emit == {x \in inside : Len(x) = Len(d) + 1 /\ Wanting(q, st.mo[x].class)}
<1>1. d \in Dn /\ d \in Below(d) /\ st \in Store /\ Inv(st) /\ Small(st)
  BY BelowSelf DEF Present, StoreInv
<1>2. Sorted(cs, K, Ahead(st))
  <2>1. Sorted(Children(st, d), kids, Ahead(st))
    BY <1>1, ChildrenSorted
  <2>. HIDE DEF kids
  <2>2. QED
    BY <2>1, PickedSorted
<1>3. \A x \in Present(st) : x \in kids <=> x \in inside /\ Len(x) = Len(d) + 1
  <2>1. ASSUME NEW x \in kids
        PROVE  x \in inside /\ Len(x) = Len(d) + 1
    <3>1. x \in Dn /\ ~ IsTop(x) /\ parent_dn(x) = d /\ x \in Present(st)
      BY DEF Present
    <3>2. x \in Below(d)
      BY <1>1, <3>1, BelowTransitive
    <3>3. Len(x) \in Nat /\ Len(d) = Len(x) - 1
      BY <3>1, ParentDn
    <3>4. x # d /\ Len(x) = Len(d) + 1
      BY <3>3
    <3>5. QED
      BY <3>1, <3>2, <3>4
  <2>2. ASSUME NEW x \in inside, Len(x) = Len(d) + 1
        PROVE  x \in kids
    <3>1. x \in Present(st) /\ x \in Dn /\ x \in Below(d) /\ x # d
      BY DEF Present
    <3>2. ~ IsTop(x) /\ parent_dn(x) \in Below(d)
      BY <1>1, <3>1, BelowParent
    <3>3. Len(parent_dn(x)) = Len(x) - 1 /\ Len(x) \in Nat /\ Len(d) \in Nat
      BY <1>1, <3>1, <3>2, ParentDn, BelowLonger
    <3>4. parent_dn(x) = d
      <4>1. Len(parent_dn(x)) = Len(d)
        BY <2>2, <3>3
      <4>2. QED
        BY <1>1, <3>2, <3>3, <4>1, BelowLonger
    <3>5. QED
      BY <3>1, <3>2, <3>4
  <2>3. QED
    BY <2>1, <2>2
<1>4. K = emit
  BY <1>3 DEF Wanted
<1>5. ASSUME NEW x \in emit
      PROVE  Nearest(st, d, x) = d
  <2>1. x \in Inside(st, d) /\ x \in Below(d) \ {d} /\ Len(x) = Len(d) + 1
    BY DEF Inside
  <2>2. Uppers(st, d, x) = {}
    BY <1>1, <2>1, UppersOfChild
  <2>3. Innermost(Uppers(st, d, x), d, d)
    BY <2>2 DEF Innermost
  <2>4. QED
    BY <1>1, <2>1, <2>3, NearestIs
<1>. HIDE DEF K, cs, emit
<1>6. /\ Len(cs) \in Nat /\ DOMAIN nested = 1..Len(cs)
      /\ \A i \in 1..Len(cs) : nested[i] = <<d, cs[i]>> /\ cs[i] \in K
      /\ \A x \in K : \E i \in 1..Len(cs) : cs[i] = x
  BY <1>2, SortedPlaces DEF Sorted
<1>. HIDE DEF nested
<1>7. ToSet(nested) = {<<Nearest(st, d, x), x>> : x \in emit}
  <2>1. ToSet(nested) = {nested[i] : i \in 1..Len(cs)}
    BY <1>6 DEF ToSet
  <2>. DEFINE all == {<<Nearest(st, d, x), x>> : x \in emit}
  <2>2. ASSUME NEW i \in 1..Len(cs)
        PROVE  nested[i] \in all
    <3>1. cs[i] \in emit /\ nested[i] = <<d, cs[i]>>
      BY <1>4, <1>6
    <3>2. nested[i] = <<Nearest(st, d, cs[i]), cs[i]>>
      BY <1>5, <3>1
    <3>3. QED
      BY <3>1, <3>2
  <2>3. ASSUME NEW k \in all
        PROVE  \E i \in 1..Len(cs) : nested[i] = k
    <3>1. PICK x \in emit : k = <<d, x>>
      BY <1>5
    <3>2. PICK i \in 1..Len(cs) : cs[i] = x
      BY <1>4, <1>6
    <3>3. QED
      BY <1>6, <3>1, <3>2
  <2>. HIDE DEF all
  <2>4. ToSet(nested) = all
    BY <2>1, <2>2, <2>3
  <2>5. QED
    BY <2>4 DEF all
<1>8. \A i, j \in DOMAIN nested : nested[i][2] = nested[j][2] => i = j
  <2>1. \A i, j \in 1..Len(cs) : i < j => cs[i] # cs[j]
    <3>1. \A x : <<x, x>> \notin Ahead(st)
      BY <1>1, AheadStrict
    <3>2. \A i, j \in 1..Len(cs) : i < j => <<cs[i], cs[j]>> \in Ahead(st)
      BY <1>2 DEF Sorted
    <3>3. QED
      BY <3>1, <3>2
  <2>2. QED
    BY <1>6, <2>1
<1>9. Entry(st, q, d).nested = nested
  BY DEF Entry, nested, cs
<1>10. QED
  BY <1>7, <1>8, <1>9 DEF NestedRight, emit

(* AnswerExact, of QuerySpec: a flat answer has each MO once for each root *)
(* it is in scope of, a nested one each wanted descendant once below its   *)
(* nearest ancestor that has an MO, and the pages make up the listing, on  *)
(* every store that writes lead to (engine.py _build_result).              *)
THEOREM AnswerCorrect == QuerySpec => []AnswerExact
<1>1. ReadingInv => AnswerExact
  <2>1. SUFFICES ASSUME ReadingInv, NEW q \in Query, ~ Refused(store, q)
                 PROVE  LET all == Scope(store, q)
                        IN  /\ \A d \in Dn : Copies(all, d) = Due(store, q, d)
                            /\ FlattenSeq([i \in 1..Answer(store, q, 0).total |->
                                             Dns(Answer(store, q, i - 1).imdata)]) = all
                            /\ q.rsp # "none" => \A i \in DOMAIN all : NestedRight(store, q, all[i])
    BY DEF AnswerExact
  <2>2. StoreInv(store) /\ q \in Params
    BY <2>1, QueryAssumption DEF ReadingInv
  <2>3. Size(q) \in Nat \ {0}
    <3>1. q.size \in Int /\ ~ q.size < 1
      BY <2>1, <2>2 DEF Refused, Params
    <3>2. MaxSize \in Nat \ {0}
      BY SiteAssumption
    <3>3. QED
      BY <3>1, <3>2 DEF Size
  <2>4. ASSUME q.rsp # "none", NEW i \in DOMAIN Scope(store, q)
        PROVE  NestedRight(store, q, Scope(store, q)[i])
    <3>1. DOMAIN Scope(store, q) = 1..Len(Scope(store, q)) /\ Scope(store, q)[i] \in Present(store)
      BY <2>2, ScopeTyped DEF StoreInv
    <3>2. q.rsp = "full" \/ q.rsp = "children"
      BY <2>2, <2>4 DEF Params
    <3>3. QED
      BY <2>2, <3>1, <3>2, NestedFull, NestedChildren
  <2>5. QED
    BY <2>2, <2>3, <2>4, CopiesDue, PagesMakeAnswer
<1>2. QED
  BY <1>1, AlwaysReading, PTL

-----------------------------------------------------------------------------
(* The chart of a text *)

(* What can be said of the part of a text from p on; an expression is      *)
(* before its arguments.                                                   *)
Outcome(ts, kind, p, r) ==
  /\ r \in [ok : BOOLEAN, pos : 1..(Len(ts) + 1), args : Seq(1..Len(ts))]
  /\ r.ok => r.pos > p
  /\ ~ r.ok => r.args = <<>>
  /\ \A i \in 1..Len(r.args) : r.args[i] >= p /\ (kind = "expr" => r.args[i] > p)

ChartStep(ts, f, e) ==
  IF e[1] = "expr" THEN Expression(ts, f, e[2]) ELSE Arguments(ts, f, e[2])

Charts(ts) == {f \in [Place(ts) -> [ok : BOOLEAN, pos : 1..(Len(ts) + 1), args : Seq(1..Len(ts))]] :
                 \A e \in Place(ts) : Outcome(ts, e[1], e[2], f[e])}

LEMMA CommaDiffers == Comma \notin Connective \cup Binary \cup {"bw", "(", ")"}
  BY Zenon DEF Comma, Connective, Binary

LEMMA ErrorOutcome ==
  ASSUME NEW ts \in Seq(Token), NEW kind, NEW p \in Nat
  PROVE  Outcome(ts, kind, p, Error)
  BY DEF Outcome, Error

LEMMA ShapeFacts ==
  ASSUME NEW op
  PROVE  LET s == Shape(op)
         IN  /\ op = "bw" => Len(s) = 7 /\ s[7] = ")"
             /\ op # "bw" => Len(s) = 5 /\ s[5] = ")"
             /\ Len(s) \in {5, 7} /\ s[Len(s)] = ")" /\ s[1] = "("
<1>1. CASE op = "bw"
  BY <1>1 DEF Shape
<1>2. CASE op # "bw"
  BY <1>2 DEF Shape
<1>3. QED
  BY <1>1, <1>2

(* Whether a comparison is there, and what it begins and ends with.        *)
Compares(ts, p) ==
  \A k \in 1..Len(Shape(ts[p])) : p + k <= Len(ts) /\ Shape(ts[p])[k] \in {AnyToken, ts[p + k]}

LEMMA ComparisonFacts ==
  ASSUME NEW ts \in Seq(Token), NEW p \in 1..Len(ts)
  PROVE  LET n == Len(Shape(ts[p])) + 1
         IN  /\ n \in {6, 8}
             /\ ~ Compares(ts, p) => Comparison(ts, p) = Error
             /\ Compares(ts, p) => /\ Comparison(ts, p) = Parsed(p + n, <<>>)
                                   /\ p + n <= Len(ts) + 1
                                   /\ ts[p + 1] = "(" /\ ts[p + n - 1] = ")"
<1>. DEFINE s == Shape(ts[p])
            l == Len(s)
<1>1. l \in {5, 7} /\ s[1] = "(" /\ s[l] = ")"
  BY ShapeFacts
<1>2. ~ Compares(ts, p) => Comparison(ts, p) = Error
  BY DEF Comparison, Compares
<1>3. Compares(ts, p) => Comparison(ts, p) = Parsed(p + l + 1, <<>>)
  BY DEF Comparison, Compares
<1>4. ASSUME Compares(ts, p)
      PROVE  p + l <= Len(ts) /\ ts[p + 1] = "(" /\ ts[p + l] = ")"
  <2>1. \A k \in 1..l : p + k <= Len(ts) /\ s[k] \in {AnyToken, ts[p + k]}
    BY <1>4 DEF Compares
  <2>. HIDE DEF l, s
  <2>2. 1 \in 1..l /\ l \in 1..l
    BY <1>1
  <2>3. p + l <= Len(ts) /\ s[1] \in {AnyToken, ts[p + 1]} /\ s[l] \in {AnyToken, ts[p + l]}
    BY <2>1, <2>2
  <2>4. QED
    BY <1>1, <2>3 DEF AnyToken
<1>. HIDE DEF l, s
<1>5. l + 1 \in {6, 8} /\ p + (l + 1) = p + l + 1 /\ p + (l + 1) - 1 = p + l
  BY <1>1
<1>6. p + l <= Len(ts) => p + (l + 1) <= Len(ts) + 1
  BY <1>1
<1>7. QED
  BY <1>2, <1>3, <1>4, <1>5, <1>6 DEF l, s

LEMMA CombinationFacts ==
  ASSUME NEW ts \in Seq(Token), NEW f \in Charts(ts), NEW p \in 1..Len(ts)
  PROVE  LET r == f[<<"args", p + 2>>]
         IN  \/ Combination(ts, f, p) = Error
             \/ /\ Combination(ts, f, p) = r /\ p + 2 \in 1..(Len(ts) + 1) /\ ts[p + 1] = "("
                /\ <<"args", p + 2>> \in Place(ts) /\ Outcome(ts, "args", p + 2, r) /\ r.ok /\ r.args # <<>>
<1>. DEFINE r == f[<<"args", p + 2>>]
<1>1. CASE p < Len(ts) /\ ts[p + 1] = "(" /\ r.args # <<>>
  <2>1. p + 2 \in 1..(Len(ts) + 1) /\ <<"args", p + 2>> \in Place(ts)
    BY <1>1 DEF Place
  <2>2. Outcome(ts, "args", p + 2, r)
    BY <2>1 DEF Charts
  <2>3. r.ok
    BY <1>1, <2>2 DEF Outcome
  <2>4. QED
    BY <1>1, <2>1, <2>2, <2>3 DEF Combination
<1>2. CASE ~ (p < Len(ts) /\ ts[p + 1] = "(" /\ r.args # <<>>)
  BY <1>2 DEF Combination
<1>3. QED
  BY <1>1, <1>2

LEMMA ExpressionOutcome ==
  ASSUME NEW ts \in Seq(Token), NEW f \in Charts(ts), NEW p \in 1..(Len(ts) + 1)
  PROVE  Outcome(ts, "expr", p, Expression(ts, f, p))
<1>1. Outcome(ts, "expr", p, Error)
  BY ErrorOutcome
<1>2. CASE p <= Len(ts) /\ ts[p] \in Connective
  <2>. DEFINE r == f[<<"args", p + 2>>]
  <2>1. Expression(ts, f, p) = Combination(ts, f, p)
    <3>1. ts[p] \notin Binary \cup {"bw"}
      BY <1>2 DEF Connective, Binary
    <3>2. QED
      BY <1>2, <3>1 DEF Expression
  <2>. HIDE DEF r
  <2>2. Outcome(ts, "args", p + 2, r) /\ r.ok => Outcome(ts, "expr", p, r)
    BY DEF Outcome
  <2>3. Combination(ts, f, p) = Error \/ (Combination(ts, f, p) = r /\ Outcome(ts, "args", p + 2, r) /\ r.ok)
    BY <1>2, CombinationFacts DEF r
  <2>4. QED
    BY <1>1, <2>1, <2>2, <2>3
<1>3. CASE p <= Len(ts) /\ ts[p] \in Binary \cup {"bw"}
  <2>. DEFINE n == Len(Shape(ts[p])) + 1
  <2>1. Expression(ts, f, p) = Comparison(ts, p)
    <3>1. ts[p] \notin Connective
      BY <1>3 DEF Connective, Binary
    <3>2. QED
      BY <1>3, <3>1 DEF Expression
  <2>2. /\ n \in {6, 8}
        /\ Comparison(ts, p) = Error \/ (Comparison(ts, p) = Parsed(p + n, <<>>) /\ p + n <= Len(ts) + 1)
    BY <1>3, ComparisonFacts
  <2>. HIDE DEF n
  <2>3. p + n <= Len(ts) + 1 => Outcome(ts, "expr", p, Parsed(p + n, <<>>))
    BY <2>2 DEF Outcome, Parsed
  <2>4. QED
    BY <1>1, <2>1, <2>2, <2>3
<1>4. CASE ~ (p <= Len(ts) /\ ts[p] \in Connective) /\ ~ (p <= Len(ts) /\ ts[p] \in Binary \cup {"bw"})
  BY <1>1, <1>4 DEF Expression
<1>5. QED
  BY <1>2, <1>3, <1>4

(* The cases of the loop over arguments.                                   *)
ArgumentsAre(ts, f, p, r) ==
  LET first == f[<<"expr", p>>]
      rest  == f[<<"args", first.pos>>]
  IN  \/ r = Error
      \/ p <= Len(ts) /\ ts[p] = ")" /\ r = Parsed(p + 1, <<>>)
      \/ /\ p <= Len(ts) /\ ts[p] = Comma /\ r = f[<<"args", p + 1>>]
         /\ <<"args", p + 1>> \in Place(ts) /\ Outcome(ts, "args", p + 1, r)
      \/ /\ p <= Len(ts) /\ ts[p] # ")" /\ ts[p] # Comma /\ first.ok /\ rest.ok
         /\ r = Parsed(rest.pos, <<p>> \o rest.args)
         /\ <<"expr", p>> \in Place(ts) /\ Outcome(ts, "expr", p, first)
         /\ <<"args", first.pos>> \in Place(ts) /\ Outcome(ts, "args", first.pos, rest)

LEMMA ArgumentsFacts ==
  ASSUME NEW ts \in Seq(Token), NEW f \in Charts(ts), NEW p \in 1..(Len(ts) + 1)
  PROVE  ArgumentsAre(ts, f, p, Arguments(ts, f, p))
<1>. DEFINE first == f[<<"expr", p>>]
            rest  == f[<<"args", first.pos>>]
<1>1. <<"expr", p>> \in Place(ts) /\ Outcome(ts, "expr", p, first)
  BY DEF Place, Charts
<1>2. <<"args", first.pos>> \in Place(ts) /\ Outcome(ts, "args", first.pos, rest)
  <2>1. <<"args", first.pos>> \in Place(ts)
    BY <1>1 DEF Place, Outcome
  <2>2. QED
    BY <2>1 DEF Charts
<1>3. p <= Len(ts) => <<"args", p + 1>> \in Place(ts) /\ Outcome(ts, "args", p + 1, f[<<"args", p + 1>>])
  BY DEF Place, Charts
<1>4. CASE p > Len(ts)
  <2>1. ~ p <= Len(ts)
    BY <1>4
  <2>2. Arguments(ts, f, p) = Error
    BY <1>4, <2>1 DEF Arguments
  <2>3. QED
    BY <2>2 DEF ArgumentsAre
<1>5. CASE p <= Len(ts) /\ ts[p] = ")"
  <2>1. ~ p > Len(ts) /\ ts[p] # Comma
    BY <1>5, CommaDiffers
  <2>2. Arguments(ts, f, p) = Parsed(p + 1, <<>>)
    BY <1>5, <2>1 DEF Arguments
  <2>3. QED
    BY <1>5, <2>2 DEF ArgumentsAre
<1>6. CASE p <= Len(ts) /\ ts[p] = Comma
  BY <1>3, <1>6 DEF Arguments, ArgumentsAre
<1>7. CASE p <= Len(ts) /\ ts[p] # ")" /\ ts[p] # Comma
  <2>1. Arguments(ts, f, p) = IF first.ok /\ rest.ok THEN Parsed(rest.pos, <<p>> \o rest.args) ELSE Error
    BY <1>7 DEF Arguments
  <2>2. QED
    BY <1>1, <1>2, <1>7, <2>1 DEF ArgumentsAre
<1>8. QED
  BY <1>4, <1>5, <1>6, <1>7

LEMMA ArgumentsOutcome ==
  ASSUME NEW ts \in Seq(Token), NEW f \in Charts(ts), NEW p \in 1..(Len(ts) + 1)
  PROVE  Outcome(ts, "args", p, Arguments(ts, f, p))
<1>. DEFINE first == f[<<"expr", p>>]
            rest  == f[<<"args", first.pos>>]
            r     == Arguments(ts, f, p)
<1>1. ArgumentsAre(ts, f, p, r) /\ p \in Nat
  BY ArgumentsFacts
<1>. HIDE DEF first, rest, r
<1>. SUFFICES Outcome(ts, "args", p, r)
  BY DEF r
<1>2. CASE r = Error
  BY <1>1, <1>2, ErrorOutcome
<1>3. CASE p <= Len(ts) /\ r = Parsed(p + 1, <<>>)
  <2>1. Outcome(ts, "args", p, Parsed(p + 1, <<>>))
    BY <1>3 DEF Outcome, Parsed
  <2>2. QED
    BY <1>3, <2>1
<1>4. CASE Outcome(ts, "args", p + 1, r)
  BY <1>4 DEF Outcome
<1>5. CASE /\ p <= Len(ts) /\ first.ok /\ rest.ok /\ r = Parsed(rest.pos, <<p>> \o rest.args)
           /\ Outcome(ts, "expr", p, first) /\ Outcome(ts, "args", first.pos, rest)
  <2>1. rest.args \in Seq(1..Len(ts)) /\ rest.pos \in 1..(Len(ts) + 1) /\ rest.pos > first.pos /\ first.pos > p
        /\ first.pos \in 1..(Len(ts) + 1) /\ \A i \in 1..Len(rest.args) : rest.args[i] >= first.pos
    BY <1>5 DEF Outcome
  <2>2. p \in 1..Len(ts)
    BY <1>5
  <2>3. <<p>> \o rest.args \in Seq(1..Len(ts))
    BY <2>1, <2>2
  <2>4. ASSUME NEW i \in 1..Len(<<p>> \o rest.args)
        PROVE  (<<p>> \o rest.args)[i] >= p
    <3>1. Len(rest.args) \in Nat /\ i \in 1..(Len(rest.args) + 1)
      BY <2>1, <2>2, <2>4
    <3>2. CASE i = 1
      BY <2>1, <2>2, <3>2
    <3>3. CASE i # 1
      <4>1. i - 1 \in 1..Len(rest.args) /\ (<<p>> \o rest.args)[i] = rest.args[i - 1]
        BY <2>1, <2>2, <3>1, <3>3
      <4>2. rest.args[i - 1] >= first.pos /\ rest.args[i - 1] \in Int
        BY <2>1, <4>1
      <4>3. QED
        BY <2>1, <2>2, <4>1, <4>2
    <3>4. QED
      BY <3>2, <3>3
  <2>. DEFINE args == <<p>> \o rest.args
  <2>5. /\ args \in Seq(1..Len(ts)) /\ r = Parsed(rest.pos, args)
        /\ \A i \in 1..Len(args) : args[i] >= p
    BY <1>5, <2>3, <2>4
  <2>. HIDE DEF args
  <2>6. Outcome(ts, "args", p, Parsed(rest.pos, args))
    BY <2>1, <2>2, <2>5 DEF Outcome, Parsed
  <2>7. QED
    BY <2>5, <2>6
<1>6. QED
  BY <1>1, <1>2, <1>3, <1>4, <1>5 DEF ArgumentsAre, first, rest

ChartHeight(ts) == [e \in Place(ts) |-> 2 * (Len(ts) + 1 - e[2]) + (IF e[1] = "args" THEN 1 ELSE 0)]

LEMMA HeightFacts ==
  ASSUME NEW ts \in Seq(Token)
  PROVE  /\ \A p \in 1..(Len(ts) + 1) :
              /\ ChartHeight(ts)[<<"expr", p>>] = 2 * (Len(ts) + 1 - p)
              /\ ChartHeight(ts)[<<"args", p>>] = 2 * (Len(ts) + 1 - p) + 1
         /\ ChartHeight(ts) \in [Place(ts) -> 0..(2 * Len(ts) + 1)]
<1>1. \A p \in 1..(Len(ts) + 1) : <<"expr", p>> \in Place(ts) /\ <<"args", p>> \in Place(ts)
  BY DEF Place
<1>2. \A e \in Place(ts) : e[1] \in {"expr", "args"} /\ e[2] \in 1..(Len(ts) + 1)
  BY DEF Place
<1>3. QED
  BY <1>1, <1>2 DEF ChartHeight

LEMMA ChartStepSame ==
  ASSUME NEW ts \in Seq(Token), NEW f \in Charts(ts), NEW g, NEW e \in Place(ts),
         \A y \in Place(ts) : ChartHeight(ts)[y] < ChartHeight(ts)[e] => f[y] = g[y]
  PROVE  ChartStep(ts, f, e) = ChartStep(ts, g, e)
<1>. DEFINE p == e[2]
            L == Len(ts)
            h == ChartHeight(ts)
<1>1. L \in Nat /\ p \in 1..(L + 1) /\ e[1] \in {"expr", "args"} /\ e = <<e[1], p>>
  BY DEF Place
<1>2. /\ \A q \in 1..(L + 1) : <<"expr", q>> \in Place(ts) /\ <<"args", q>> \in Place(ts)
      /\ \A q \in 1..(L + 1) : h[<<"expr", q>>] = 2 * (L + 1 - q) /\ h[<<"args", q>>] = 2 * (L + 1 - q) + 1
  BY HeightFacts DEF Place
<1>3. \A q \in 1..(L + 1) : q > p => f[<<"expr", q>>] = g[<<"expr", q>>] /\ f[<<"args", q>>] = g[<<"args", q>>]
  <2>1. SUFFICES ASSUME NEW q \in 1..(L + 1), q > p
                 PROVE  f[<<"expr", q>>] = g[<<"expr", q>>] /\ f[<<"args", q>>] = g[<<"args", q>>]
    OBVIOUS
  <2>. HIDE DEF h, p, L
  <2>2. h[e] = 2 * (L + 1 - p) \/ h[e] = 2 * (L + 1 - p) + 1
    <3>1. e = <<"expr", p>> \/ e = <<"args", p>>
      BY <1>1
    <3>2. QED
      BY <1>1, <1>2, <3>1
  <2>3. h[<<"expr", q>>] < h[e] /\ h[<<"args", q>>] < h[e]
    BY <1>1, <1>2, <2>1, <2>2
  <2>4. <<"expr", q>> \in Place(ts) /\ <<"args", q>> \in Place(ts)
    BY <1>2
  <2>5. \A y \in Place(ts) : h[y] < h[e] => f[y] = g[y]
    BY DEF h
  <2>6. QED
    BY <2>3, <2>4, <2>5
<1>4. CASE e[1] = "expr"
  <2>1. p < L => f[<<"args", p + 2>>] = g[<<"args", p + 2>>]
    <3>. HIDE DEF p, L
    <3>1. p < L => p + 2 \in 1..(L + 1) /\ p + 2 > p
      BY <1>1
    <3>2. QED
      BY <1>3, <3>1
  <2>2. Combination(ts, f, p) = Combination(ts, g, p)
    <3>1. CASE p < L
      BY <2>1, <3>1 DEF Combination
    <3>2. CASE ~ p < L
      BY <3>2 DEF Combination
    <3>3. QED
      BY <3>1, <3>2
  <2>3. Expression(ts, f, p) = Expression(ts, g, p)
    BY <2>2 DEF Expression
  <2>4. QED
    BY <1>4, <2>3 DEF ChartStep
<1>5. CASE e[1] = "args"
  <2>1. f[<<"expr", p>>] = g[<<"expr", p>>]
    <3>. HIDE DEF h, p, L
    <3>1. h[<<"expr", p>>] < h[e]
      BY <1>1, <1>2, <1>5
    <3>2. QED
      BY <1>1, <1>2, <3>1 DEF h
  <2>. DEFINE first == f[<<"expr", p>>]
  <2>2. Outcome(ts, "expr", p, first)
    BY <1>1, <1>2 DEF Charts
  <2>. HIDE DEF first
  <2>3. first.ok => f[<<"args", first.pos>>] = g[<<"args", first.pos>>]
    BY <1>1, <1>3, <2>2 DEF Outcome
  <2>. DEFINE fr == f[<<"args", first.pos>>]
              gr == g[<<"args", first.pos>>]
  <2>. HIDE DEF fr, gr
  <2>4. (IF first.ok /\ fr.ok THEN Parsed(fr.pos, <<p>> \o fr.args) ELSE Error)
        = (IF first.ok /\ gr.ok THEN Parsed(gr.pos, <<p>> \o gr.args) ELSE Error)
    <3>1. first.ok => fr = gr
      BY <2>3 DEF fr, gr
    <3>2. CASE first.ok
      BY <3>1, <3>2
    <3>3. CASE ~ first.ok
      BY <3>3
    <3>4. QED
      BY <3>2, <3>3
  <2>5. p <= L => f[<<"args", p + 1>>] = g[<<"args", p + 1>>]
    <3>. HIDE DEF p, L
    <3>1. p <= L => p + 1 \in 1..(L + 1) /\ p + 1 > p
      BY <1>1
    <3>2. QED
      BY <1>3, <3>1
  <2>6. Arguments(ts, f, p) = Arguments(ts, g, p)
    <3>1. CASE p > L
      <4>1. ~ p <= L
        BY <1>1, <3>1
      <4>2. Arguments(ts, f, p) = Error /\ Arguments(ts, g, p) = Error
        BY <3>1, <4>1 DEF Arguments
      <4>3. QED
        BY <4>2
    <3>2. CASE p <= L /\ ts[p] = ")"
      <4>1. ~ p > L /\ ts[p] # Comma
        BY <1>1, <3>2, CommaDiffers
      <4>2. Arguments(ts, f, p) = Parsed(p + 1, <<>>) /\ Arguments(ts, g, p) = Parsed(p + 1, <<>>)
        BY <3>2, <4>1 DEF Arguments
      <4>3. QED
        BY <4>2
    <3>3. CASE p <= L /\ ts[p] = Comma
      <4>1. ~ p > L /\ ts[p] # ")"
        BY <1>1, <3>3, CommaDiffers
      <4>2. Arguments(ts, f, p) = f[<<"args", p + 1>>] /\ Arguments(ts, g, p) = g[<<"args", p + 1>>]
        BY <3>3, <4>1 DEF Arguments
      <4>3. QED
        BY <2>5, <3>3, <4>2
    <3>4. CASE p <= L /\ ts[p] # ")" /\ ts[p] # Comma
      <4>1. ~ p > L
        BY <1>1, <3>4
      <4>2. /\ Arguments(ts, f, p) = IF first.ok /\ fr.ok THEN Parsed(fr.pos, <<p>> \o fr.args) ELSE Error
            /\ Arguments(ts, g, p) = IF first.ok /\ gr.ok THEN Parsed(gr.pos, <<p>> \o gr.args) ELSE Error
        BY <2>1, <3>4, <4>1 DEF Arguments, first, fr, gr
      <4>3. QED
        BY <2>4, <4>2
    <3>5. QED
      BY <1>1, <3>1, <3>2, <3>3, <3>4
  <2>7. QED
    BY <1>5, <2>6 DEF ChartStep
<1>6. QED
  BY <1>1, <1>4, <1>5

(* The chart of a text is what its definition says.                        *)
LEMMA ChartUnfolds ==
  ASSUME NEW ts \in Seq(Token)
  PROVE  /\ Chart(ts) \in Charts(ts)
         /\ \A p \in 1..(Len(ts) + 1) : /\ Chart(ts)[<<"expr", p>>] = Expression(ts, Chart(ts), p)
                                        /\ Chart(ts)[<<"args", p>>] = Arguments(ts, Chart(ts), p)
<1>. DEFINE D == Place(ts)
            F == Charts(ts)
            h == ChartHeight(ts)
            n == 2 * Len(ts) + 1
            step == [f \in F |-> [e \in D |-> ChartStep(ts, f, e)]]
            start == [e \in D |-> Error]
<1>1. \A e \in D : e[1] \in {"expr", "args"} /\ e[2] \in 1..(Len(ts) + 1)
  BY DEF Place
<1>2. \A f \in F : f = [e \in D |-> f[e]]
  BY DEF Charts
<1>3. ASSUME NEW f, f = [e \in D |-> f[e]], \A e \in D : Outcome(ts, e[1], e[2], f[e])
      PROVE  f \in F
  <2>1. \A e \in D : f[e] \in [ok : BOOLEAN, pos : 1..(Len(ts) + 1), args : Seq(1..Len(ts))]
    BY <1>3 DEF Outcome
  <2>2. QED
    BY <1>3, <2>1 DEF Charts
<1>4. start \in F
  <2>1. \A e \in D : Outcome(ts, e[1], e[2], start[e])
    BY <1>1, ErrorOutcome
  <2>2. start = [e \in D |-> start[e]]
    OBVIOUS
  <2>. HIDE DEF start, F, D
  <2>3. QED
    BY <1>3, <2>1, <2>2
<1>5. ASSUME NEW f \in F
      PROVE  [e \in D |-> ChartStep(ts, f, e)] \in F
  <2>. DEFINE g == [e \in D |-> ChartStep(ts, f, e)]
  <2>1. \A e \in D : Outcome(ts, e[1], e[2], ChartStep(ts, f, e))
    BY <1>1, ExpressionOutcome, ArgumentsOutcome DEF ChartStep
  <2>2. g = [e \in D |-> g[e]] /\ \A e \in D : g[e] = ChartStep(ts, f, e)
    OBVIOUS
  <2>. HIDE DEF g, F, D
  <2>3. g \in F
    BY <1>3, <2>1, <2>2
  <2>4. QED
    BY <2>3 DEF g
<1>6. step \in [F -> F]
  BY <1>5
<1>7. Descends(step, D, F, h)
  <2>1. ASSUME NEW f \in F, NEW g \in F, NEW e \in D, \A y \in D : h[y] < h[e] => f[y] = g[y]
        PROVE  step[f][e] = step[g][e]
    BY <2>1, ChartStepSame
  <2>. HIDE DEF step, D, F, h
  <2>2. QED
    BY <2>1 DEF Descends
<1>8. h \in [D -> 0..n] /\ n \in Nat
  BY HeightFacts
<1>9. \A f \in F : step[f] = [e \in D |-> ChartStep(ts, f, e)]
  OBVIOUS
<1>. HIDE DEF step, h, n, start, D, F
<1>10. IsRecursion(step, D, F, h, n)
  BY <1>2, <1>6, <1>7, <1>8 DEF IsRecursion
<1>11. \E f \in F : f = step[f]
  BY <1>4, <1>8, <1>10, RecursionExists
<1>12. PICK f \in F : f = [e \in D |-> ChartStep(ts, f, e)]
  BY <1>9, <1>11
<1>13. Chart(ts) = [e \in D |-> ChartStep(ts, Chart(ts), e)]
  <2>1. Chart(ts) = CHOOSE c : c = [e \in D |-> ChartStep(ts, c, e)]
    BY DEF Chart, ChartStep, D
  <2>2. QED
    BY <1>12, <2>1
<1>. DEFINE c == Chart(ts)
            S == {m \in 0..(n + 1) : \A e \in D : h[e] < m => f[e] = c[e]}
<1>14. f \in F /\ \A e \in D : f[e] = ChartStep(ts, f, e) /\ h[e] \in 0..n
  BY <1>8, <1>12
<1>15. \A e \in D : c[e] = ChartStep(ts, c, e)
  BY <1>13
<1>16. c = [e \in D |-> c[e]]
  BY <1>13
<1>. HIDE DEF c
<1>17. 0 \in S
  BY <1>8, <1>14
<1>18. ASSUME NEW m \in 0..((n + 1) - 1), m \in S
       PROVE  m + 1 \in S
  <2>1. SUFFICES ASSUME NEW e \in D, h[e] < m + 1
                 PROVE  f[e] = c[e]
    BY <1>8
  <2>2. \A y \in D : h[y] < h[e] => f[y] = c[y]
    BY <1>8, <1>14, <1>18, <2>1
  <2>3. ChartStep(ts, f, e) = ChartStep(ts, c, e)
    BY <1>14, <2>1, <2>2, ChartStepSame DEF D, F, h
  <2>4. QED
    BY <1>14, <1>15, <2>1, <2>3
<1>. HIDE DEF S
<1>19. 0..(n + 1) \subseteq S
  <2>1. n + 1 \in Nat
    BY <1>8
  <2>2. QED
    BY <1>17, <1>18, <2>1, BoundedInduction
<1>20. \A e \in D : f[e] = c[e]
  <2>1. n + 1 \in S
    BY <1>8, <1>19
  <2>2. QED
    BY <1>8, <1>14, <2>1 DEF S
<1>21. c = f
  <2>1. f = [e \in D |-> f[e]]
    BY <1>12, <1>14
  <2>2. QED
    BY <1>16, <1>20, <2>1
<1>22. \A p \in 1..(Len(ts) + 1) : <<"expr", p>> \in D /\ <<"args", p>> \in D
  BY DEF D, Place
<1>23. ASSUME NEW p \in 1..(Len(ts) + 1)
       PROVE  c[<<"expr", p>>] = Expression(ts, c, p) /\ c[<<"args", p>>] = Arguments(ts, c, p)
  BY <1>15, <1>22 DEF ChartStep
<1>24. QED
  BY <1>14, <1>21, <1>23 DEF c, F

(* The cases of an expression that is there.                               *)
ExpressionIs(ts, f, p, r) ==
  LET n == Len(Shape(ts[p])) + 1
  IN  /\ p \in 1..Len(ts) /\ Outcome(ts, "expr", p, r)
      /\ \/ /\ ts[p] \in Connective /\ ts[p + 1] = "(" /\ r.args # <<>>
            /\ r = f[<<"args", p + 2>>] /\ p + 2 \in 1..(Len(ts) + 1)
         \/ /\ ts[p] \in Binary \cup {"bw"} /\ Compares(ts, p) /\ r = Parsed(p + n, <<>>)
            /\ n \in {6, 8} /\ p + n <= Len(ts) + 1 /\ ts[p + 1] = "(" /\ ts[p + n - 1] = ")"

LEMMA ExpressionFacts ==
  ASSUME NEW ts \in Seq(Token), NEW f \in Charts(ts), NEW p \in 1..(Len(ts) + 1), Expression(ts, f, p).ok
  PROVE  ExpressionIs(ts, f, p, Expression(ts, f, p))
<1>0. ~ Error.ok
  BY DEF Error
<1>. DEFINE r == Expression(ts, f, p)
            n == Len(Shape(ts[p])) + 1
<1>1. Outcome(ts, "expr", p, r)
  BY ExpressionOutcome
<1>2. CASE p <= Len(ts) /\ ts[p] \in Connective
  <2>1. ts[p] \notin Binary \cup {"bw"} /\ p \in 1..Len(ts)
    BY <1>2 DEF Connective, Binary
  <2>2. r = Combination(ts, f, p)
    BY <1>2, <2>1 DEF Expression
  <2>. HIDE DEF r
  <2>3. r # Error
    BY <1>0 DEF r
  <2>4. /\ r = f[<<"args", p + 2>>] /\ p + 2 \in 1..(Len(ts) + 1) /\ ts[p + 1] = "("
        /\ r.args # <<>>
    BY <2>1, <2>2, <2>3, CombinationFacts
  <2>5. ExpressionIs(ts, f, p, r)
    BY <1>1, <1>2, <2>1, <2>4 DEF ExpressionIs
  <2>6. QED
    BY <2>5 DEF r
<1>3. CASE p <= Len(ts) /\ ts[p] \in Binary \cup {"bw"}
  <2>1. ts[p] \notin Connective /\ p \in 1..Len(ts)
    BY <1>3 DEF Connective, Binary
  <2>2. r = Comparison(ts, p)
    BY <1>3, <2>1 DEF Expression
  <2>. HIDE DEF r
  <2>3. r # Error
    BY <1>0 DEF r
  <2>4. /\ Compares(ts, p) /\ r = Parsed(p + n, <<>>) /\ n \in {6, 8}
        /\ p + n <= Len(ts) + 1 /\ ts[p + 1] = "(" /\ ts[p + n - 1] = ")"
    BY <2>1, <2>2, <2>3, ComparisonFacts
  <2>5. ExpressionIs(ts, f, p, r)
    BY <1>1, <1>3, <2>1, <2>4 DEF ExpressionIs
  <2>6. QED
    BY <2>5 DEF r
<1>4. CASE ~ (p <= Len(ts) /\ ts[p] \in Connective) /\ ~ (p <= Len(ts) /\ ts[p] \in Binary \cup {"bw"})
  BY <1>0, <1>4 DEF Expression
<1>5. QED
  BY <1>2, <1>3, <1>4

LEMMA ChartFacts ==
  ASSUME NEW ts \in Seq(Token), NEW p \in 1..(Len(ts) + 1)
  PROVE  /\ Outcome(ts, "expr", p, Chart(ts)[<<"expr", p>>]) /\ Outcome(ts, "args", p, Chart(ts)[<<"args", p>>])
         /\ Chart(ts)[<<"expr", p>>].ok => ExpressionIs(ts, Chart(ts), p, Chart(ts)[<<"expr", p>>])
         /\ ArgumentsAre(ts, Chart(ts), p, Chart(ts)[<<"args", p>>])
<1>. DEFINE c == Chart(ts)
<1>1. /\ c \in Charts(ts)
      /\ c[<<"expr", p>>] = Expression(ts, c, p) /\ c[<<"args", p>>] = Arguments(ts, c, p)
  BY ChartUnfolds
<1>. HIDE DEF c
<1>2. Outcome(ts, "expr", p, Expression(ts, c, p)) /\ Outcome(ts, "args", p, Arguments(ts, c, p))
  BY <1>1, ExpressionOutcome, ArgumentsOutcome
<1>3. Expression(ts, c, p).ok => ExpressionIs(ts, c, p, Expression(ts, c, p))
  BY <1>1, ExpressionFacts
<1>4. ArgumentsAre(ts, c, p, Arguments(ts, c, p))
  BY <1>1, ArgumentsFacts
<1>5. QED
  BY <1>1, <1>2, <1>3, <1>4 DEF c

-----------------------------------------------------------------------------
(* From the end of a text to its beginning *)

LEMMA Downward ==
  ASSUME NEW n \in Nat, NEW S, \A p \in 1..n : (\A q \in 1..n : q > p => q \in S) => p \in S
  PROVE  1..n \subseteq S
<1>. DEFINE T == {m \in 0..n : \A p \in 1..n : p > n - m => p \in S}
<1>1. 0 \in T
  OBVIOUS
<1>2. ASSUME NEW m \in 0..(n - 1), m \in T
      PROVE  m + 1 \in T
  <2>1. SUFFICES ASSUME NEW p \in 1..n, p > n - (m + 1)
                 PROVE  p \in S
    OBVIOUS
  <2>2. \A q \in 1..n : q > p => q \in S
    BY <1>2, <2>1
  <2>3. QED
    BY <2>2
<1>. HIDE DEF T
<1>3. 0..n \subseteq T
  BY <1>1, <1>2, BoundedInduction
<1>4. n \in T
  BY <1>3
<1>5. QED
  BY <1>4 DEF T

(* A recursion that looks at the arguments of an expression.               *)
LEMMA ArgsLater ==
  ASSUME NEW ts \in Seq(Token), NEW p \in 1..Len(ts), NEW a \in ToSet(Chart(ts)[<<"expr", p>>].args)
  PROVE  a \in 1..Len(ts) /\ a > p
<1>. DEFINE r == Chart(ts)[<<"expr", p>>]
<1>0. p \in 1..(Len(ts) + 1)
  OBVIOUS
<1>1. Outcome(ts, "expr", p, r)
  BY <1>0, ChartFacts
<1>2. a \in ToSet(r.args)
  OBVIOUS
<1>. HIDE DEF r
<1>3. r.args \in Seq(1..Len(ts)) /\ \A i \in 1..Len(r.args) : r.args[i] > p
  BY <1>1 DEF Outcome
<1>4. PICK i \in 1..Len(r.args) : r.args[i] = a
  BY <1>2, <1>3 DEF ToSet
<1>5. QED
  BY <1>3, <1>4

LooksLater(n, V, step) ==
  /\ n \in Nat /\ V # {} /\ step \in [[1..n -> V] -> [1..n -> V]]
  /\ \A f \in [1..n -> V] : \A g \in [1..n -> V] : \A p \in 1..n :
        (\A q \in 1..n : q > p => f[q] = g[q]) => step[f][p] = step[g][p]

LEMMA LaterExists ==
  ASSUME NEW n, NEW V, NEW step, LooksLater(n, V, step)
  PROVE  \E f \in [1..n -> V] : f = step[f]
<1>0. n \in Nat /\ V # {} /\ step \in [[1..n -> V] -> [1..n -> V]]
  BY DEF LooksLater
<1>. PICK some \in V : TRUE
  BY <1>0
<1>. DEFINE D == 1..n
            F == [D -> V]
            h == [p \in D |-> n - p]
            start == [p \in D |-> some]
<1>1. n \in Nat /\ start \in F /\ h \in [D -> 0..n] /\ \A f \in F : f = [p \in D |-> f[p]]
  BY <1>0
<1>2. Descends(step, D, F, h)
  <2>1. ASSUME NEW f \in F, NEW g \in F, NEW p \in D, \A y \in D : h[y] < h[p] => f[y] = g[y]
        PROVE  step[f][p] = step[g][p]
    <3>1. \A q \in 1..n : q > p => f[q] = g[q]
      BY <1>0, <2>1
    <3>2. QED
      BY <3>1 DEF LooksLater
  <2>. HIDE DEF D, F, h
  <2>2. QED
    BY <2>1 DEF Descends
<1>3. step \in [F -> F]
  BY <1>0
<1>. HIDE DEF D, F, h, start
<1>4. IsRecursion(step, D, F, h, n)
  BY <1>1, <1>2, <1>3 DEF IsRecursion
<1>5. \E f \in F : f = step[f]
  BY <1>1, <1>4, RecursionExists
<1>6. QED
  BY <1>5 DEF F, D

LEMMA NodesUnfold ==
  ASSUME NEW ts \in Seq(Token)
  PROVE  \A p \in 1..Len(ts) :
           Nodes(ts)[p] = {p} \cup UNION {Nodes(ts)[a] : a \in ToSet(Chart(ts)[<<"expr", p>>].args)}
<1>. DEFINE L == Len(ts)
            V == SUBSET (1..L)
            args(p) == ToSet(Chart(ts)[<<"expr", p>>].args)
            all(f, p) == {p} \cup UNION {f[a] : a \in args(p)}
            step == [f \in [1..L -> V] |-> [p \in 1..L |-> all(f, p)]]
<1>1. L \in Nat /\ \A p \in 1..L : \A a \in args(p) : a \in 1..L /\ a > p
  BY ArgsLater
<1>2. Nodes(ts) = CHOOSE f : f = [p \in 1..L |-> all(f, p)]
  BY DEF Nodes
<1>. HIDE DEF args, L
<1>3. ASSUME NEW f \in [1..L -> V], NEW p \in 1..L
      PROVE  all(f, p) \in V
  BY <1>1
<1>4. step \in [[1..L -> V] -> [1..L -> V]]
  BY <1>3
<1>5. ASSUME NEW f \in [1..L -> V], NEW g \in [1..L -> V], NEW p \in 1..L,
             \A q \in 1..L : q > p => f[q] = g[q]
      PROVE  all(f, p) = all(g, p)
  <2>1. \A a \in args(p) : f[a] = g[a]
    BY <1>1, <1>5
  <2>2. {f[a] : a \in args(p)} = {g[a] : a \in args(p)}
    BY <2>1
  <2>3. QED
    BY <2>2
<1>6. {} \in V /\ \A f \in [1..L -> V] : step[f] = [p \in 1..L |-> all(f, p)]
  OBVIOUS
<1>. HIDE DEF V, step, all
<1>7. \A f \in [1..L -> V], p \in 1..L : step[f][p] = all(f, p)
  BY <1>6
<1>8. LooksLater(L, V, step)
  <2>1. ASSUME NEW f \in [1..L -> V], NEW g \in [1..L -> V], NEW p \in 1..L,
               \A q \in 1..L : q > p => f[q] = g[q]
        PROVE  step[f][p] = step[g][p]
    <3>1. all(f, p) = all(g, p)
      BY <1>5, <2>1
    <3>2. QED
      BY <1>7, <3>1
  <2>2. L \in Nat /\ V # {}
    BY <1>1, <1>6
  <2>3. QED
    BY <1>4, <2>1, <2>2 DEF LooksLater
<1>9. \E f \in [1..L -> V] : f = step[f]
  BY <1>8, LaterExists
<1>10. \E f : f = [p \in 1..L |-> all(f, p)]
  BY <1>6, <1>9
<1>11. Nodes(ts) = [p \in 1..L |-> all(Nodes(ts), p)]
  BY <1>2, <1>10
<1>12. \A p \in 1..L : Nodes(ts)[p] = all(Nodes(ts), p)
  BY <1>11
<1>13. QED
  BY <1>12 DEF all, args, L

-----------------------------------------------------------------------------
(* What a parser that accepts has accounted for *)

(* The expressions N account for the tokens from a to b.                   *)
Covers(ts, N, a, b) ==
  /\ \A n \in N : OwnTokens(Chart(ts), n) \subseteq a..b
  /\ \A k \in a..b : ts[k] # Comma => \E n \in N : k \in OwnTokens(Chart(ts), n)
  /\ \A n, o \in N : n # o => OwnTokens(Chart(ts), n) \cap OwnTokens(Chart(ts), o) = {}
  /\ \A n \in N : ts[n + 1] = "(" /\ ts[Chart(ts)[<<"expr", n>>].pos - 1] = ")"

NodesOf(ts, args) == UNION {Nodes(ts)[a] : a \in ToSet(args)}

LEMMA CoversJoin ==
  ASSUME NEW ts, NEW N, NEW M, NEW a \in Int, NEW b \in Int, NEW d \in Int, a <= b + 1, b <= d,
         Covers(ts, N, a, b), Covers(ts, M, b + 1, d)
  PROVE  Covers(ts, N \cup M, a, d)
<1>. DEFINE own(n) == OwnTokens(Chart(ts), n)
<1>1. /\ \A n \in N : own(n) \subseteq a..b
      /\ \A n \in M : own(n) \subseteq (b + 1)..d
      /\ \A n, o \in N : n # o => own(n) \cap own(o) = {}
      /\ \A n, o \in M : n # o => own(n) \cap own(o) = {}
  BY DEF Covers
<1>2. /\ \A k \in a..b : ts[k] # Comma => \E n \in N : k \in own(n)
      /\ \A k \in (b + 1)..d : ts[k] # Comma => \E n \in M : k \in own(n)
  BY DEF Covers
<1>3. \A n \in N \cup M : ts[n + 1] = "(" /\ ts[Chart(ts)[<<"expr", n>>].pos - 1] = ")"
  BY DEF Covers
<1>. HIDE DEF own
<1>4. a..d = (a..b) \cup ((b + 1)..d) /\ (a..b) \cap ((b + 1)..d) = {}
  OBVIOUS
<1>5. \A n \in N \cup M : own(n) \subseteq a..d
  BY <1>1, <1>4
<1>6. \A k \in a..d : ts[k] # Comma => \E n \in N \cup M : k \in own(n)
  BY <1>2, <1>4
<1>7. \A n \in N, o \in M : own(n) \cap own(o) = {}
  BY <1>1, <1>4
<1>8. \A n, o \in N \cup M : n # o => own(n) \cap own(o) = {}
  <2>1. SUFFICES ASSUME NEW n \in N \cup M, NEW o \in N \cup M, n # o
                 PROVE  own(n) \cap own(o) = {}
    OBVIOUS
  <2>2. CASE n \in N /\ o \in N
    BY <1>1, <2>1, <2>2
  <2>3. CASE n \in M /\ o \in M
    BY <1>1, <2>1, <2>3
  <2>4. CASE n \in N /\ o \in M
    BY <1>7, <2>4
  <2>5. CASE n \in M /\ o \in N
    BY <1>7, <2>5
  <2>6. QED
    BY <2>1, <2>2, <2>3, <2>4, <2>5
<1>9. QED
  BY <1>3, <1>5, <1>6, <1>8 DEF Covers, own

LEMMA CoversComma ==
  ASSUME NEW ts, NEW N, NEW a \in Int, NEW b \in Int, ts[a] = Comma, Covers(ts, N, a + 1, b)
  PROVE  Covers(ts, N, a, b)
<1>. DEFINE own(n) == OwnTokens(Chart(ts), n)
<1>1. \A n \in N : own(n) \subseteq (a + 1)..b
  BY DEF Covers
<1>2. \A k \in (a + 1)..b : ts[k] # Comma => \E n \in N : k \in own(n)
  BY DEF Covers
<1>. HIDE DEF own
<1>3. \A k \in a..b : k = a \/ k \in (a + 1)..b
  OBVIOUS
<1>4. (a + 1)..b \subseteq a..b
  OBVIOUS
<1>5. \A n \in N : own(n) \subseteq a..b
  BY <1>1, <1>4
<1>6. \A k \in a..b : ts[k] # Comma => \E n \in N : k \in own(n)
  BY <1>2, <1>3
<1>7. QED
  BY <1>5, <1>6 DEF Covers, own

LEMMA CoversNone ==
  ASSUME NEW ts, NEW a \in Int
  PROVE  Covers(ts, {}, a, a - 1)
BY DEF Covers

LEMMA CoversComparison ==
  ASSUME NEW ts, NEW p \in Int, NEW b \in Int, Chart(ts)[<<"expr", p>>] = Parsed(b + 1, <<>>),
         ts[p + 1] = "(", ts[b] = ")"
  PROVE  Covers(ts, {p}, p, b)
<1>1. OwnTokens(Chart(ts), p) = p..b /\ Chart(ts)[<<"expr", p>>].pos - 1 = b
  BY DEF OwnTokens, Parsed
<1>2. QED
  BY <1>1 DEF Covers

LEMMA CoversCombination ==
  ASSUME NEW ts, NEW N, NEW p \in Int, NEW b \in Int, p + 2 <= b,
         Chart(ts)[<<"expr", p>>].pos = b + 1, Chart(ts)[<<"expr", p>>].args # <<>>,
         ts[p + 1] = "(", ts[b] = ")", Covers(ts, N, p + 2, b - 1)
  PROVE  Covers(ts, {p} \cup N, p, b)
<1>. DEFINE own(n) == OwnTokens(Chart(ts), n)
<1>1. own(p) = {p, p + 1, b} /\ Chart(ts)[<<"expr", p>>].pos - 1 = b
  BY DEF OwnTokens
<1>2. /\ \A n \in N : own(n) \subseteq (p + 2)..(b - 1)
      /\ \A n, o \in N : n # o => own(n) \cap own(o) = {}
  BY DEF Covers
<1>3. \A k \in (p + 2)..(b - 1) : ts[k] # Comma => \E n \in N : k \in own(n)
  BY DEF Covers
<1>4. \A n \in {p} \cup N : ts[n + 1] = "(" /\ ts[Chart(ts)[<<"expr", n>>].pos - 1] = ")"
  BY <1>1 DEF Covers
<1>. HIDE DEF own
<1>5. /\ p..b = {p, p + 1, b} \cup ((p + 2)..(b - 1))
      /\ {p, p + 1, b} \cap ((p + 2)..(b - 1)) = {}
  OBVIOUS
<1>6. \A n \in {p} \cup N : own(n) \subseteq p..b
  BY <1>1, <1>2, <1>5
<1>7. \A k \in p..b : ts[k] # Comma => \E n \in {p} \cup N : k \in own(n)
  BY <1>1, <1>3, <1>5
<1>8. \A n \in N : own(n) \cap own(p) = {} /\ own(p) \cap own(n) = {}
  BY <1>1, <1>2, <1>5
<1>9. \A n, o \in {p} \cup N : n # o => own(n) \cap own(o) = {}
  <2>1. SUFFICES ASSUME NEW n \in {p} \cup N, NEW o \in {p} \cup N, n # o
                 PROVE  own(n) \cap own(o) = {}
    OBVIOUS
  <2>2. CASE n = p
    BY <1>8, <2>1, <2>2
  <2>3. CASE o = p
    BY <1>8, <2>1, <2>3
  <2>4. CASE n # p /\ o # p
    BY <1>2, <2>1, <2>4
  <2>5. QED
    BY <2>2, <2>3, <2>4
<1>10. QED
  BY <1>4, <1>6, <1>7, <1>9 DEF Covers, own

(* The first of a list of arguments and the others.                        *)
LEMMA ToSetCons ==
  ASSUME NEW V, NEW p \in V, NEW args \in Seq(V)
  PROVE  ToSet(<<p>> \o args) = {p} \cup ToSet(args) /\ <<p>> \o args # <<>>
<1>. DEFINE all == <<p>> \o args
<1>1. /\ Len(args) \in Nat /\ Len(all) = Len(args) + 1 /\ all[1] = p
      /\ \A i \in 1..Len(args) : all[i + 1] = args[i]
      /\ DOMAIN all = 1..Len(all) /\ DOMAIN args = 1..Len(args)
  OBVIOUS
<1>. HIDE DEF all
<1>2. ASSUME NEW x \in ToSet(all)
      PROVE  x \in {p} \cup ToSet(args)
  <2>1. PICK i \in 1..Len(all) : all[i] = x
    BY <1>1 DEF ToSet
  <2>2. CASE i = 1
    BY <1>1, <2>1, <2>2
  <2>3. CASE i # 1
    <3>1. i - 1 \in 1..Len(args) /\ (i - 1) + 1 = i
      BY <1>1, <2>3
    <3>2. args[i - 1] = x
      BY <1>1, <2>1, <3>1
    <3>3. QED
      BY <1>1, <3>1, <3>2 DEF ToSet
  <2>4. QED
    BY <2>2, <2>3
<1>3. ASSUME NEW x \in {p} \cup ToSet(args)
      PROVE  x \in ToSet(all)
  <2>1. CASE x = p
    <3>1. 1 \in 1..Len(all)
      BY <1>1
    <3>2. QED
      BY <1>1, <2>1, <3>1 DEF ToSet
  <2>2. CASE x \in ToSet(args)
    <3>1. PICK i \in 1..Len(args) : args[i] = x
      BY <1>1, <2>2 DEF ToSet
    <3>2. i + 1 \in 1..Len(all)
      BY <1>1
    <3>3. QED
      BY <1>1, <3>1, <3>2 DEF ToSet
  <2>3. QED
    BY <2>1, <2>2
<1>4. QED
  BY <1>2, <1>3 DEF all

LEMMA NodesOfFacts ==
  ASSUME NEW ts \in Seq(Token), NEW p \in 1..Len(ts), NEW args \in Seq(1..Len(ts))
  PROVE  /\ NodesOf(ts, <<>>) = {}
         /\ NodesOf(ts, <<p>> \o args) = Nodes(ts)[p] \cup NodesOf(ts, args)
<1>1. ToSet(<<>>) = {}
  BY DEF ToSet
<1>2. ToSet(<<p>> \o args) = {p} \cup ToSet(args)
  BY ToSetCons
<1>3. QED
  BY <1>1, <1>2 DEF NodesOf

(* What is parsed from p on is accounted for up to where it ends.          *)
ExpressionCovered(ts, p) ==
  LET r == Chart(ts)[<<"expr", p>>]
  IN  r.ok => p \in 1..Len(ts) /\ Covers(ts, Nodes(ts)[p], p, r.pos - 1)

ArgumentsCovered(ts, p) ==
  LET r == Chart(ts)[<<"args", p>>]
  IN  r.ok => ts[r.pos - 1] = ")" /\ Covers(ts, NodesOf(ts, r.args), p, r.pos - 2)

LEMMA ExpressionIsCovered ==
  ASSUME NEW ts \in Seq(Token), NEW p \in 1..(Len(ts) + 1),
         \A q \in 1..(Len(ts) + 1) : q > p => ArgumentsCovered(ts, q)
  PROVE  ExpressionCovered(ts, p)
<1>. DEFINE c == Chart(ts)
            r == c[<<"expr", p>>]
            n == Len(Shape(ts[p])) + 1
<1>1. SUFFICES ASSUME r.ok
               PROVE  p \in 1..Len(ts) /\ Covers(ts, Nodes(ts)[p], p, r.pos - 1)
  BY DEF ExpressionCovered
<1>2. ExpressionIs(ts, c, p, r)
  BY <1>1, ChartFacts
<1>3. /\ p \in 1..Len(ts)
      /\ r.args \in Seq(1..Len(ts)) /\ r.pos \in 1..(Len(ts) + 1)
  BY <1>2 DEF ExpressionIs, Outcome
<1>4. Nodes(ts)[p] = {p} \cup NodesOf(ts, r.args)
  BY <1>3, NodesUnfold DEF NodesOf
<1>5. CASE /\ ts[p + 1] = "(" /\ r.args # <<>>
           /\ r = c[<<"args", p + 2>>] /\ p + 2 \in 1..(Len(ts) + 1)
  <2>1. ArgumentsCovered(ts, p + 2) /\ Outcome(ts, "args", p + 2, r)
    <3>1. p + 2 > p
      OBVIOUS
    <3>2. QED
      BY <1>5, <3>1, ChartFacts
  <2>2. r.pos > p + 2
    BY <1>1, <2>1 DEF Outcome
  <2>3. ts[r.pos - 1] = ")" /\ Covers(ts, NodesOf(ts, r.args), p + 2, r.pos - 2)
    BY <1>1, <1>5, <2>1 DEF ArgumentsCovered
  <2>. DEFINE b == r.pos - 1
  <2>4. p \in Int /\ b \in Int /\ p + 2 <= b /\ r.pos = b + 1 /\ r.pos - 2 = b - 1
    BY <1>3, <2>2
  <2>5. c[<<"expr", p>>].pos = b + 1 /\ c[<<"expr", p>>].args # <<>>
    BY <1>5, <2>4
  <2>6. Covers(ts, NodesOf(ts, r.args), p + 2, b - 1)
    BY <2>3, <2>4
  <2>7. ts[b] = ")"
    BY <2>3
  <2>. HIDE DEF b, r
  <2>8. Covers(ts, {p} \cup NodesOf(ts, r.args), p, b)
    BY <1>5, <2>4, <2>5, <2>6, <2>7, CoversCombination
  <2>9. QED
    BY <1>3, <1>4, <2>8 DEF b
<1>6. CASE r = Parsed(p + n, <<>>) /\ n \in {6, 8} /\ ts[p + 1] = "(" /\ ts[p + n - 1] = ")"
  <2>. HIDE DEF n
  <2>. DEFINE b == p + n - 1
  <2>1. p \in Int /\ b \in Int /\ b + 1 = p + n
    BY <1>6
  <2>2. c[<<"expr", p>>] = Parsed(b + 1, <<>>) /\ ts[b] = ")"
    BY <1>6, <2>1
  <2>. HIDE DEF b
  <2>3. Covers(ts, {p}, p, b)
    BY <1>6, <2>1, <2>2, CoversComparison
  <2>4. r.args = <<>> /\ r.pos - 1 = b
    BY <2>1, <2>2 DEF Parsed
  <2>5. NodesOf(ts, r.args) = {}
    <3>1. NodesOf(ts, <<>>) = {}
      BY <1>3, NodesOfFacts
    <3>2. QED
      BY <2>4, <3>1
  <2>6. QED
    BY <1>3, <1>4, <2>3, <2>4, <2>5
<1>7. QED
  BY <1>2, <1>5, <1>6 DEF ExpressionIs

LEMMA ArgumentsAreCovered ==
  ASSUME NEW ts \in Seq(Token), NEW p \in 1..(Len(ts) + 1), ExpressionCovered(ts, p),
         \A q \in 1..(Len(ts) + 1) : q > p => ArgumentsCovered(ts, q)
  PROVE  ArgumentsCovered(ts, p)
<1>. DEFINE c     == Chart(ts)
            r     == c[<<"args", p>>]
            first == c[<<"expr", p>>]
            rest  == c[<<"args", first.pos>>]
<1>1. SUFFICES ASSUME r.ok
               PROVE  ts[r.pos - 1] = ")" /\ Covers(ts, NodesOf(ts, r.args), p, r.pos - 2)
  BY DEF ArgumentsCovered
<1>2. ArgumentsAre(ts, c, p, r)
  BY ChartFacts
<1>3. r # Error
  BY <1>1 DEF Error
<1>4. CASE p <= Len(ts) /\ ts[p] = ")" /\ r = Parsed(p + 1, <<>>)
  <2>1. Covers(ts, {}, p, p - 1)
    BY CoversNone
  <2>2. r.pos - 1 = p /\ r.pos - 2 = p - 1 /\ r.args = <<>>
    BY <1>4 DEF Parsed
  <2>3. NodesOf(ts, <<>>) = {}
    <3>1. p \in 1..Len(ts) /\ <<>> \in Seq(1..Len(ts))
      BY <1>4
    <3>2. QED
      BY <3>1, NodesOfFacts
  <2>4. QED
    BY <1>4, <2>1, <2>2, <2>3
<1>5. CASE /\ p <= Len(ts) /\ ts[p] = Comma /\ r = c[<<"args", p + 1>>] /\ Outcome(ts, "args", p + 1, r)
  <2>1. ArgumentsCovered(ts, p + 1)
    <3>1. p + 1 \in 1..(Len(ts) + 1) /\ p + 1 > p
      BY <1>5
    <3>2. QED
      BY <3>1
  <2>2. ts[r.pos - 1] = ")" /\ Covers(ts, NodesOf(ts, r.args), p + 1, r.pos - 2)
    BY <1>1, <1>5, <2>1 DEF ArgumentsCovered
  <2>3. r.pos - 2 \in Int /\ p \in Int
    BY <1>5 DEF Outcome
  <2>. HIDE DEF r
  <2>4. Covers(ts, NodesOf(ts, r.args), p, r.pos - 2)
    BY <1>5, <2>2, <2>3, CoversComma
  <2>5. QED
    BY <2>2, <2>4
<1>6. CASE /\ p <= Len(ts) /\ first.ok /\ rest.ok
           /\ r = Parsed(rest.pos, <<p>> \o rest.args)
           /\ Outcome(ts, "expr", p, first) /\ Outcome(ts, "args", first.pos, rest)
  <2>. DEFINE b == first.pos - 1
              d == rest.pos - 2
  <2>1. /\ first.pos \in 1..(Len(ts) + 1) /\ first.pos > p
        /\ rest.pos \in 1..(Len(ts) + 1) /\ rest.pos > first.pos /\ rest.args \in Seq(1..Len(ts))
    BY <1>6 DEF Outcome
  <2>2. ArgumentsCovered(ts, first.pos)
    BY <2>1
  <2>3. p \in 1..Len(ts) /\ Covers(ts, Nodes(ts)[p], p, b)
    BY <1>6 DEF ExpressionCovered
  <2>4. ts[rest.pos - 1] = ")" /\ Covers(ts, NodesOf(ts, rest.args), first.pos, d)
    BY <1>6, <2>2 DEF ArgumentsCovered
  <2>5. NodesOf(ts, <<p>> \o rest.args) = Nodes(ts)[p] \cup NodesOf(ts, rest.args)
    BY <2>1, <2>3, NodesOfFacts
  <2>6. r.pos = rest.pos /\ r.args = <<p>> \o rest.args
    BY <1>6 DEF Parsed
  <2>7. b \in Int /\ d \in Int /\ p <= b + 1 /\ b <= d /\ first.pos = b + 1
    <3>. DEFINE s == first.pos
                e == rest.pos
                m == Len(ts)
    <3>1. s \in 1..(m + 1) /\ s > p /\ e \in 1..(m + 1) /\ e > s /\ p \in 1..(m + 1)
      BY <2>1
    <3>. HIDE DEF s, e, m
    <3>2. s - 1 \in Int /\ e - 2 \in Int /\ p <= (s - 1) + 1 /\ s - 1 <= e - 2 /\ s = (s - 1) + 1
      BY <3>1
    <3>3. QED
      BY <3>2 DEF s, e
  <2>8. Covers(ts, NodesOf(ts, rest.args), b + 1, d)
    BY <2>4, <2>7
  <2>. DEFINE N == Nodes(ts)[p]
              M == NodesOf(ts, rest.args)
  <2>9. Covers(ts, N \cup M, p, d)
    <3>1. Covers(ts, N, p, b) /\ Covers(ts, M, b + 1, d) /\ p \in Int
      BY <2>3, <2>8
    <3>. HIDE DEF b, d, N, M
    <3>2. QED
      BY <3>1, <2>7, CoversJoin
  <2>. HIDE DEF b, d, N, M
  <2>10. r.pos - 2 = d /\ NodesOf(ts, r.args) = N \cup M
    BY <2>5, <2>6 DEF d, N, M
  <2>11. QED
    BY <2>4, <2>6, <2>9, <2>10
<1>7. QED
  BY <1>2, <1>3, <1>4, <1>5, <1>6 DEF ArgumentsAre

LEMMA ChartCovered ==
  ASSUME NEW ts \in Seq(Token), NEW p \in 1..(Len(ts) + 1)
  PROVE  ExpressionCovered(ts, p) /\ ArgumentsCovered(ts, p)
<1>. DEFINE S == {q \in 1..(Len(ts) + 1) : ExpressionCovered(ts, q) /\ ArgumentsCovered(ts, q)}
            n == Len(ts) + 1
<1>1. ASSUME NEW q \in 1..n, \A o \in 1..n : o > q => o \in S
      PROVE  q \in S
  <2>1. \A o \in 1..(Len(ts) + 1) : o > q => ArgumentsCovered(ts, o)
    BY <1>1
  <2>2. ExpressionCovered(ts, q)
    BY <2>1, ExpressionIsCovered
  <2>3. ArgumentsCovered(ts, q)
    BY <2>1, <2>2, ArgumentsAreCovered
  <2>4. QED
    BY <2>2, <2>3
<1>2. n \in Nat
  OBVIOUS
<1>. HIDE DEF S, n
<1>3. 1..n \subseteq S
  BY <1>1, <1>2, Downward
<1>4. QED
  BY <1>3 DEF S, n

LEMMA AcceptedIsAccounted ==
  ASSUME NEW ts \in Seq(Token), ParseFilter(ts)
  PROVE  Accounted(ts, Chart(ts), Nodes(ts)[1])
<1>1. ExpressionCovered(ts, 1)
  BY ChartCovered
<1>2. Covers(ts, Nodes(ts)[1], 1, Len(ts))
  BY <1>1 DEF ParseFilter, ExpressionCovered
<1>3. QED
  BY <1>2 DEF Covers, Accounted

-----------------------------------------------------------------------------
(* What is written by the grammar is parsed, wherever it stands *)

(* The tokens T are in the text us, from the one behind o on.              *)
Stands(T, us, o) == \A i \in 1..Len(T) : o + i <= Len(us) /\ us[o + i] = T[i]

LEMMA StandsConcat ==
  ASSUME NEW T \in Seq(Token), NEW U \in Seq(Token), NEW us, NEW o \in Nat
  PROVE  Stands(T \o U, us, o) <=> Stands(T, us, o) /\ Stands(U, us, o + Len(T))
<1>. DEFINE W == T \o U
            t == Len(T)
            u == Len(U)
<1>1. /\ t \in Nat /\ u \in Nat /\ Len(W) = t + u
      /\ \A i \in 1..t : W[i] = T[i]
      /\ \A i \in 1..u : W[t + i] = U[i]
  OBVIOUS
<1>. HIDE DEF W, t, u
<1>2. ASSUME \A i \in 1..(t + u) : o + i <= Len(us) /\ us[o + i] = W[i]
      PROVE  /\ \A i \in 1..t : o + i <= Len(us) /\ us[o + i] = T[i]
             /\ \A i \in 1..u : (o + t) + i <= Len(us) /\ us[(o + t) + i] = U[i]
  <2>1. ASSUME NEW i \in 1..t
        PROVE  o + i <= Len(us) /\ us[o + i] = T[i]
    BY <1>1, <1>2
  <2>2. ASSUME NEW i \in 1..u
        PROVE  (o + t) + i <= Len(us) /\ us[(o + t) + i] = U[i]
    <3>1. t + i \in 1..(t + u) /\ o + (t + i) = (o + t) + i
      BY <1>1
    <3>2. QED
      BY <1>1, <1>2, <3>1
  <2>3. QED
    BY <2>1, <2>2
<1>3. ASSUME \A i \in 1..t : o + i <= Len(us) /\ us[o + i] = T[i],
             \A i \in 1..u : (o + t) + i <= Len(us) /\ us[(o + t) + i] = U[i],
             NEW i \in 1..(t + u)
      PROVE  o + i <= Len(us) /\ us[o + i] = W[i]
  <2>1. CASE i <= t
    BY <1>1, <1>3, <2>1
  <2>2. CASE i > t
    <3>1. i - t \in 1..u /\ t + (i - t) = i /\ (o + t) + (i - t) = o + i
      BY <1>1, <2>2
    <3>2. us[(o + t) + (i - t)] = U[i - t] /\ W[t + (i - t)] = U[i - t] /\ (o + t) + (i - t) <= Len(us)
      BY <1>1, <1>3, <3>1
    <3>3. QED
      BY <3>1, <3>2
  <2>3. QED
    BY <1>1, <2>1, <2>2
<1>4. Stands(W, us, o) <=> (\A i \in 1..(t + u) : o + i <= Len(us) /\ us[o + i] = W[i])
  BY <1>1 DEF Stands
<1>5. /\ Stands(T, us, o) <=> (\A i \in 1..t : o + i <= Len(us) /\ us[o + i] = T[i])
      /\ Stands(U, us, o + t) <=> (\A i \in 1..u : (o + t) + i <= Len(us) /\ us[(o + t) + i] = U[i])
  BY DEF Stands, t, u
<1>6. QED
  BY <1>2, <1>3, <1>4, <1>5 DEF W, t

(* The parser, where it succeeds.                                          *)
LEMMA ParsesList ==
  ASSUME NEW ts \in Seq(Token), NEW p \in 1..Len(ts)
  PROVE  LET c     == Chart(ts)
             first == c[<<"expr", p>>]
             rest  == c[<<"args", first.pos>>]
         IN  /\ ts[p] = ")" => c[<<"args", p>>] = Parsed(p + 1, <<>>)
             /\ ts[p] = Comma => c[<<"args", p>>] = c[<<"args", p + 1>>]
             /\ ts[p] # ")" /\ ts[p] # Comma /\ first.ok /\ rest.ok =>
                  c[<<"args", p>>] = Parsed(rest.pos, <<p>> \o rest.args)
<1>. DEFINE c     == Chart(ts)
            first == c[<<"expr", p>>]
            rest  == c[<<"args", first.pos>>]
<1>1. c[<<"args", p>>] = Arguments(ts, c, p)
  <2>1. p \in 1..(Len(ts) + 1)
    OBVIOUS
  <2>2. QED
    BY <2>1, ChartUnfolds
<1>2. p <= Len(ts) /\ ~ p > Len(ts)
  OBVIOUS
<1>. HIDE DEF c
<1>3. CASE ts[p] = ")"
  <2>1. ts[p] # Comma
    BY <1>3, CommaDiffers
  <2>2. Arguments(ts, c, p) = Parsed(p + 1, <<>>)
    BY <1>2, <1>3, <2>1 DEF Arguments
  <2>3. QED
    BY <1>1, <1>3, <2>1, <2>2 DEF c
<1>4. CASE ts[p] = Comma
  <2>1. ts[p] # ")"
    BY <1>4, CommaDiffers
  <2>2. Arguments(ts, c, p) = c[<<"args", p + 1>>]
    BY <1>2, <1>4, <2>1 DEF Arguments
  <2>3. QED
    BY <1>1, <1>4, <2>1, <2>2 DEF c
<1>5. CASE ts[p] # ")" /\ ts[p] # Comma
  <2>1. Arguments(ts, c, p) = IF first.ok /\ rest.ok THEN Parsed(rest.pos, <<p>> \o rest.args) ELSE Error
    BY <1>2, <1>5 DEF Arguments
  <2>2. QED
    BY <1>1, <1>5, <2>1 DEF c
<1>6. QED
  BY <1>3, <1>4, <1>5 DEF c

LEMMA ParsesExpression ==
  ASSUME NEW ts \in Seq(Token), NEW p \in 1..Len(ts)
  PROVE  LET c == Chart(ts)
             r == c[<<"args", p + 2>>]
         IN  /\ ts[p] \in Connective /\ p < Len(ts) /\ ts[p + 1] = "(" /\ r.args # <<>> =>
                  c[<<"expr", p>>] = r
             /\ ts[p] \in Binary \cup {"bw"} /\ Compares(ts, p) =>
                  c[<<"expr", p>>] = Parsed(p + Len(Shape(ts[p])) + 1, <<>>)
<1>. DEFINE c == Chart(ts)
            r == c[<<"args", p + 2>>]
<1>1. c[<<"expr", p>>] = Expression(ts, c, p)
  <2>1. p \in 1..(Len(ts) + 1)
    OBVIOUS
  <2>2. QED
    BY <2>1, ChartUnfolds
<1>2. p <= Len(ts)
  OBVIOUS
<1>. HIDE DEF c
<1>3. ASSUME ts[p] \in Connective, p < Len(ts), ts[p + 1] = "(", r.args # <<>>
      PROVE  c[<<"expr", p>>] = r
  <2>1. ts[p] \notin Binary \cup {"bw"}
    BY <1>3 DEF Connective, Binary
  <2>2. Expression(ts, c, p) = Combination(ts, c, p)
    BY <1>2, <1>3, <2>1 DEF Expression
  <2>3. QED
    BY <1>1, <1>3, <2>2 DEF Combination
<1>4. ASSUME ts[p] \in Binary \cup {"bw"}, Compares(ts, p)
      PROVE  c[<<"expr", p>>] = Parsed(p + Len(Shape(ts[p])) + 1, <<>>)
  <2>1. ts[p] \notin Connective
    BY <1>4 DEF Connective, Binary
  <2>2. Expression(ts, c, p) = Comparison(ts, p)
    BY <1>2, <1>4, <2>1 DEF Expression
  <2>3. QED
    BY <1>1, <1>4, <2>2 DEF Comparison, Compares
<1>5. QED
  BY <1>3, <1>4 DEF c

LEMMA HoldsUnfolds ==
  ASSUME NEW ts \in Seq(Token), NEW m, NEW p \in 1..Len(ts)
  PROVE  Holds(ts, m)[p] = Predicate(ts, Chart(ts), Holds(ts, m), m, p)
<1>. DEFINE L == Len(ts)
            V == BOOLEAN \cup {Says(ts[q], ts[q + 2], ts[q + 4], ts[q + 6], m) : q \in 1..L}
            step == [f \in [1..L -> V] |-> [q \in 1..L |-> Predicate(ts, Chart(ts), f, m, q)]]
            args(q) == ToSet(Chart(ts)[<<"expr", q>>].args)
<1>1. L \in Nat /\ \A q \in 1..L : \A a \in args(q) : a \in 1..L /\ a > q
  BY ArgsLater
<1>2. Holds(ts, m) = CHOOSE f : f = [q \in 1..L |-> Predicate(ts, Chart(ts), f, m, q)]
  BY DEF Holds
<1>3. ASSUME NEW f \in [1..L -> V], NEW q \in 1..L
      PROVE  Predicate(ts, Chart(ts), f, m, q) \in V
  <2>1. CASE ts[q] = "and"
    <3>1. Predicate(ts, Chart(ts), f, m, q) = (\A a \in args(q) : f[a])
      BY <2>1 DEF Predicate
    <3>2. QED
      BY <3>1
  <2>2. CASE ts[q] = "or"
    <3>1. Predicate(ts, Chart(ts), f, m, q) = (\E a \in args(q) : f[a])
      BY <2>2 DEF Predicate
    <3>2. QED
      BY <3>1
  <2>3. CASE ts[q] # "and" /\ ts[q] # "or"
    <3>1. Predicate(ts, Chart(ts), f, m, q) = Says(ts[q], ts[q + 2], ts[q + 4], ts[q + 6], m)
      BY <2>3 DEF Predicate
    <3>2. QED
      BY <3>1
  <2>4. QED
    BY <2>1, <2>2, <2>3
<1>4. step \in [[1..L -> V] -> [1..L -> V]]
  BY <1>3
<1>5. ASSUME NEW f \in [1..L -> V], NEW g \in [1..L -> V], NEW q \in 1..L,
             \A o \in 1..L : o > q => f[o] = g[o]
      PROVE  Predicate(ts, Chart(ts), f, m, q) = Predicate(ts, Chart(ts), g, m, q)
  <2>1. \A a \in args(q) : f[a] = g[a]
    BY <1>1, <1>5
  <2>2. (\A a \in args(q) : f[a]) = (\A a \in args(q) : g[a])
    BY <2>1
  <2>3. (\E a \in args(q) : f[a]) = (\E a \in args(q) : g[a])
    BY <2>1
  <2>4. QED
    BY <2>2, <2>3 DEF Predicate
<1>6. TRUE \in V /\ \A f \in [1..L -> V] : step[f] = [q \in 1..L |-> Predicate(ts, Chart(ts), f, m, q)]
  OBVIOUS
<1>. HIDE DEF V, step, L
<1>7. \A f \in [1..L -> V], q \in 1..L : step[f][q] = Predicate(ts, Chart(ts), f, m, q)
  BY <1>6
<1>8. LooksLater(L, V, step)
  <2>1. ASSUME NEW f \in [1..L -> V], NEW g \in [1..L -> V], NEW q \in 1..L,
               \A o \in 1..L : o > q => f[o] = g[o]
        PROVE  step[f][q] = step[g][q]
    <3>1. Predicate(ts, Chart(ts), f, m, q) = Predicate(ts, Chart(ts), g, m, q)
      BY <1>5, <2>1
    <3>2. QED
      BY <1>7, <3>1
  <2>2. L \in Nat /\ V # {}
    BY <1>1, <1>6
  <2>3. QED
    BY <1>4, <2>1, <2>2 DEF LooksLater
<1>9. \E f \in [1..L -> V] : f = step[f]
  BY <1>8, LaterExists
<1>10. \E f : f = [q \in 1..L |-> Predicate(ts, Chart(ts), f, m, q)]
  BY <1>6, <1>9
<1>11. Holds(ts, m) = [q \in 1..L |-> Predicate(ts, Chart(ts), Holds(ts, m), m, q)]
  BY <1>2, <1>10
<1>12. p \in 1..L
  BY DEF L
<1>13. QED
  BY <1>11, <1>12

(* Wherever the tokens T are in a text, the parser takes them for an       *)
(* expression that holds of the objects M.                                 *)
ReadsAt(us, o, T, M) ==
  LET r == Chart(us)[<<"expr", o + 1>>]
  IN  /\ r.ok /\ r.pos = o + Len(T) + 1
      /\ \A m \in Object : Holds(us, m)[o + 1] <=> m \in M

Reads(T, M) == \A us \in Seq(Token), o \in Nat : Stands(T, us, o) => ReadsAt(us, o, T, M)

(* The arguments from p to e, which all hold, and one of which holds, of   *)
(* those objects.                                                          *)
ListIs(us, p, e, all, any) ==
  LET r == Chart(us)[<<"args", p>>]
  IN  /\ r.ok /\ r.pos = e
      /\ \A m \in Object : /\ (\A a \in ToSet(r.args) : Holds(us, m)[a]) <=> m \in all
                           /\ (\E a \in ToSet(r.args) : Holds(us, m)[a]) <=> m \in any

(* Wherever A and a parenthesis are, the parser takes them for the rest of *)
(* such a list.                                                            *)
ReadsListAt(us, o, A, all, any) ==
  /\ ListIs(us, o + 1, o + Len(A) + 2, all, any)
  /\ A # <<>> => Chart(us)[<<"args", o + 1>>].args # <<>>

ReadsList(A, all, any) ==
  \A us \in Seq(Token), o \in Nat : Stands(A \o <<")">>, us, o) => ReadsListAt(us, o, A, all, any)

LEMMA SaysHigh ==
  ASSUME NEW op, NEW attr, NEW low, NEW h1, NEW h2, NEW m, op # "bw"
  PROVE  Says(op, attr, low, h1, m) = Says(op, attr, low, h2, m)
BY DEF Says

LEMMA WrittenFacts ==
  ASSUME NEW c \in Comparisons
  PROVE  LET T == Written(c)
         IN  /\ c.op \in Binary \cup {"bw"} /\ T \in Seq(Token) /\ Len(T) = Len(Shape(c.op)) + 1
             /\ T[1] = c.op /\ T[3] = c.attr /\ T[5] = c.low /\ (c.op = "bw" => T[7] = c.high)
             /\ \A k \in 1..Len(Shape(c.op)) : Shape(c.op)[k] \in {AnyToken, T[k + 1]}
<1>. DEFINE T == Written(c)
<1>1. /\ c.op \in Binary \cup {"bw"}
      /\ c.op \in Token /\ c.attr \in Token /\ c.low \in Token /\ c.high \in Token
      /\ "(" \in Token /\ ")" \in Token /\ Comma \in Token /\ "bw" \in Token
  BY ComparisonAssumption, TokenAssumption
<1>2. CASE c.op = "bw"
  <2>1. T = <<"bw", "(", c.attr, Comma, c.low, Comma, c.high, ")">>
    BY <1>2 DEF Written
  <2>2. Shape(c.op) = <<"(", AnyToken, Comma, AnyToken, Comma, AnyToken, ")">>
    BY <1>2 DEF Shape
  <2>3. T \in Seq(Token) /\ Len(T) = 8 /\ Len(Shape(c.op)) = 7
    BY <1>1, <2>1, <2>2
  <2>. HIDE DEF T
  <2>4. \A k \in 1..7 : Shape(c.op)[k] \in {AnyToken, T[k + 1]}
    <3>. DEFINE s == Shape(c.op)
    <3>1. /\ s[1] = "(" /\ s[2] = AnyToken /\ s[3] = Comma /\ s[4] = AnyToken /\ s[5] = Comma
          /\ s[6] = AnyToken /\ s[7] = ")"
      BY <2>2
    <3>2. T[2] = "(" /\ T[4] = Comma /\ T[6] = Comma /\ T[8] = ")"
      BY <2>1
    <3>. HIDE DEF s
    <3>3. \A k \in 1..7 : k = 1 \/ k = 2 \/ k = 3 \/ k = 4 \/ k = 5 \/ k = 6 \/ k = 7
      OBVIOUS
    <3>4. \A k \in 1..7 : s[k] \in {AnyToken, T[k + 1]}
      BY <3>1, <3>2, <3>3
    <3>5. QED
      BY <3>4 DEF s
  <2>5. T[1] = "bw" /\ T[3] = c.attr /\ T[5] = c.low /\ T[7] = c.high
    BY <2>1
  <2>6. Len(T) = Len(Shape(c.op)) + 1 /\ T \in Seq(Token)
    BY <2>3
  <2>7. \A k \in 1..Len(Shape(c.op)) : Shape(c.op)[k] \in {AnyToken, T[k + 1]}
    BY <2>3, <2>4
  <2>8. T[1] = c.op /\ (c.op = "bw" => T[7] = c.high)
    BY <1>2, <2>5
  <2>9. QED
    BY <1>1, <2>5, <2>6, <2>7, <2>8 DEF T
<1>3. CASE c.op # "bw"
  <2>1. T = <<c.op, "(", c.attr, Comma, c.low, ")">>
    BY <1>3 DEF Written
  <2>2. Shape(c.op) = <<"(", AnyToken, Comma, AnyToken, ")">>
    BY <1>3 DEF Shape
  <2>3. T \in Seq(Token) /\ Len(T) = 6 /\ Len(Shape(c.op)) = 5
    BY <1>1, <2>1, <2>2
  <2>. HIDE DEF T
  <2>4. \A k \in 1..5 : Shape(c.op)[k] \in {AnyToken, T[k + 1]}
    BY <2>1, <2>2
  <2>5. QED
    BY <1>1, <1>3, <2>1, <2>3, <2>4 DEF T
<1>4. QED
  BY <1>2, <1>3

LEMMA WrittenReads ==
  ASSUME NEW c \in Comparisons
  PROVE  Reads(Written(c), {m \in Object : Says(c.op, c.attr, c.low, c.high, m)})
<1>. DEFINE T == Written(c)
            M == {m \in Object : Says(c.op, c.attr, c.low, c.high, m)}
            l == Len(Shape(c.op))
<1>1. SUFFICES ASSUME NEW us \in Seq(Token), NEW o \in Nat, Stands(T, us, o)
               PROVE  ReadsAt(us, o, T, M)
  BY DEF Reads
<1>2. /\ c.op \in Binary \cup {"bw"} /\ Len(T) = l + 1
      /\ T[1] = c.op /\ T[3] = c.attr /\ T[5] = c.low /\ (c.op = "bw" => T[7] = c.high)
      /\ \A k \in 1..l : Shape(c.op)[k] \in {AnyToken, T[k + 1]}
  BY WrittenFacts
<1>3. /\ l \in {5, 7} /\ (c.op = "bw" => l = 7)
      /\ \A i \in 1..(l + 1) : o + i <= Len(us) /\ us[o + i] = T[i]
  <2>1. \A i \in 1..Len(T) : o + i <= Len(us) /\ us[o + i] = T[i]
    BY <1>1 DEF Stands
  <2>2. l \in {5, 7} /\ (c.op = "bw" => l = 7)
    BY ShapeFacts
  <2>. HIDE DEF T, l
  <2>3. QED
    BY <1>2, <2>1, <2>2
<1>. HIDE DEF T, l
<1>. DEFINE p == o + 1
<1>4. /\ p \in 1..Len(us) /\ us[p] = c.op /\ us[p + 2] = c.attr /\ us[p + 4] = c.low
      /\ c.op = "bw" => us[p + 6] = c.high
  <2>1. p + 2 = o + 3 /\ p + 4 = o + 5 /\ p + 6 = o + 7 /\ p \in Nat /\ p >= 1
    OBVIOUS
  <2>2. 1 \in 1..(l + 1) /\ 3 \in 1..(l + 1) /\ 5 \in 1..(l + 1) /\ (c.op = "bw" => 7 \in 1..(l + 1))
    BY <1>3
  <2>3. o + 1 <= Len(us) /\ us[o + 1] = T[1] /\ us[o + 3] = T[3] /\ us[o + 5] = T[5]
        /\ (c.op = "bw" => us[o + 7] = T[7])
    BY <1>3, <2>2
  <2>4. QED
    BY <1>2, <2>1, <2>3
<1>5. Compares(us, p)
  <2>1. ASSUME NEW k \in 1..l
        PROVE  p + k <= Len(us) /\ Shape(c.op)[k] \in {AnyToken, us[p + k]}
    <3>1. k + 1 \in 1..(l + 1) /\ o + (k + 1) = p + k
      BY <1>3
    <3>2. p + k <= Len(us) /\ us[p + k] = T[k + 1]
      BY <1>3, <3>1
    <3>3. QED
      BY <1>2, <3>2
  <2>. HIDE DEF p
  <2>2. QED
    BY <1>4, <2>1 DEF Compares, l
<1>. DEFINE r == Chart(us)[<<"expr", p>>]
<1>6. r = Parsed(p + l + 1, <<>>)
  <2>. HIDE DEF p
  <2>1. us[p] \in Binary \cup {"bw"} /\ us[p] = c.op
    BY <1>2, <1>4
  <2>2. r = Parsed(p + Len(Shape(us[p])) + 1, <<>>)
    BY <1>4, <1>5, <2>1, ParsesExpression
  <2>3. QED
    BY <2>1, <2>2 DEF l
<1>7. r.ok /\ r.pos = o + Len(T) + 1
  BY <1>2, <1>3, <1>6 DEF Parsed
<1>8. ASSUME NEW m \in Object
      PROVE  Holds(us, m)[p] <=> m \in M
  <2>. HIDE DEF p
  <2>1. us[p] # "and" /\ us[p] # "or"
    BY <1>2, <1>4 DEF Binary
  <2>2. Predicate(us, Chart(us), Holds(us, m), m, p) = Says(us[p], us[p + 2], us[p + 4], us[p + 6], m)
    BY <2>1 DEF Predicate
  <2>3. Holds(us, m)[p] = Says(c.op, c.attr, c.low, us[p + 6], m)
    BY <1>4, <2>2, HoldsUnfolds
  <2>4. Says(c.op, c.attr, c.low, us[p + 6], m) = Says(c.op, c.attr, c.low, c.high, m)
    BY <1>4, SaysHigh
  <2>5. QED
    BY <2>3, <2>4
<1>9. QED
  BY <1>7, <1>8 DEF ReadsAt

(* A list that is closed is an expression.                                 *)
LEMMA ClosedReads ==
  ASSUME NEW A \in Seq(Token), NEW all, NEW any, NEW op \in Connective, A # <<>>, ReadsList(A, all, any)
  PROVE  Reads(<<op, "(">> \o A \o <<")">>, IF op = "and" THEN all ELSE any)
<1>. DEFINE W == <<op, "(">>
            U == A \o <<")">>
            T == <<op, "(">> \o A \o <<")">>
            M == IF op = "and" THEN all ELSE any
<1>1. SUFFICES ASSUME NEW us \in Seq(Token), NEW o \in Nat, Stands(T, us, o)
               PROVE  ReadsAt(us, o, T, M)
  BY DEF Reads
<1>2. /\ op \in Token /\ "(" \in Token /\ ")" \in Token
      /\ op = "and" \/ op = "or"
  BY TokenAssumption DEF Connective
<1>3. /\ W \in Seq(Token) /\ Len(W) = 2 /\ W[1] = op /\ W[2] = "("
      /\ U \in Seq(Token) /\ Len(U) = Len(A) + 1 /\ T = W \o U /\ Len(T) = Len(A) + 3
      /\ Len(A) \in Nat
  BY <1>2
<1>. HIDE DEF W, U, T
<1>4. Stands(W, us, o) /\ Stands(U, us, o + 2)
  BY <1>1, <1>3, StandsConcat
<1>5. us[o + 1] = op /\ us[o + 2] = "(" /\ o + 2 <= Len(us)
  <2>1. 1 \in 1..2 /\ 2 \in 1..2
    OBVIOUS
  <2>2. QED
    BY <1>3, <1>4, <2>1 DEF Stands
<1>. DEFINE p == o + 1
            r == Chart(us)[<<"args", p + 2>>]
<1>6. ReadsListAt(us, o + 2, A, all, any)
  <2>1. o + 2 \in Nat
    OBVIOUS
  <2>2. QED
    BY <1>4, <2>1 DEF ReadsList, U
<1>7. p + 2 = (o + 2) + 1 /\ p + 1 = o + 2 /\ p \in 1..Len(us) /\ p < Len(us)
  BY <1>5
<1>8. /\ r.ok /\ r.pos = (o + 2) + Len(A) + 2 /\ r.args # <<>>
      /\ \A m \in Object : /\ (\A a \in ToSet(r.args) : Holds(us, m)[a]) <=> m \in all
                           /\ (\E a \in ToSet(r.args) : Holds(us, m)[a]) <=> m \in any
  BY <1>6, <1>7 DEF ReadsListAt, ListIs
<1>. HIDE DEF p
<1>9. us[p] = op /\ us[p + 1] = "("
  BY <1>5, <1>7 DEF p
<1>10. Chart(us)[<<"expr", p>>] = r
  BY <1>7, <1>8, <1>9, ParsesExpression
<1>. HIDE DEF r
<1>11. r.ok /\ r.pos = o + Len(T) + 1
  BY <1>3, <1>8
<1>12. ASSUME NEW m \in Object
       PROVE  Holds(us, m)[p] <=> m \in M
  <2>1. Holds(us, m)[p] = Predicate(us, Chart(us), Holds(us, m), m, p)
    BY <1>7, HoldsUnfolds
  <2>2. CASE op = "and"
    <3>1. Predicate(us, Chart(us), Holds(us, m), m, p) = (\A a \in ToSet(r.args) : Holds(us, m)[a])
      BY <1>9, <1>10, <2>2 DEF Predicate
    <3>2. QED
      BY <1>8, <2>1, <2>2, <3>1
  <2>3. CASE op = "or"
    <3>1. Predicate(us, Chart(us), Holds(us, m), m, p) = (\E a \in ToSet(r.args) : Holds(us, m)[a])
      BY <1>9, <1>10, <2>3 DEF Predicate
    <3>2. QED
      BY <1>8, <2>1, <2>3, <3>1
  <2>4. QED
    BY <1>2, <2>2, <2>3
<1>13. QED
  BY <1>10, <1>11, <1>12 DEF ReadsAt, p

(* A list that has been opened.                                            *)
LEMMA OpenReads == ReadsList(<<>>, Object, {})
<1>1. SUFFICES ASSUME NEW us \in Seq(Token), NEW o \in Nat, Stands(<<>> \o <<")">>, us, o)
               PROVE  ReadsListAt(us, o, <<>>, Object, {})
  BY DEF ReadsList
<1>2. o + 1 <= Len(us) /\ us[o + 1] = ")"
  <2>. DEFINE s == <<>> \o <<")">>
  <2>1. s = <<")">>
    OBVIOUS
  <2>2. Len(s) = 1 /\ s[1] = ")" /\ 1 \in 1..1
    BY <2>1
  <2>. HIDE DEF s
  <2>3. Stands(s, us, o)
    BY <1>1 DEF s
  <2>4. QED
    BY <2>2, <2>3 DEF Stands
<1>. DEFINE p == o + 1
            r == Chart(us)[<<"args", p>>]
<1>3. p \in 1..Len(us) /\ us[p] = ")"
  BY <1>2
<1>. HIDE DEF p
<1>4. r = Parsed(p + 1, <<>>)
  BY <1>3, ParsesList
<1>. HIDE DEF r
<1>5. r.ok /\ r.pos = p + 1 /\ r.args = <<>> /\ ToSet(r.args) = {}
  BY <1>4 DEF Parsed, ToSet
<1>6. r.pos = o + Len(<<>>) + 2
  BY <1>5 DEF p
<1>7. QED
  BY <1>5, <1>6 DEF ReadsListAt, ListIs, r, p

(* The argument before those that are there.                               *)
LEMMA ArgumentJoins ==
  ASSUME NEW us \in Seq(Token), NEW o \in Nat, NEW T \in Seq(Token), T # <<>>, NEW M,
         ReadsAt(us, o, T, M), o + 1 <= Len(us),
         NEW e, NEW all, NEW any, ListIs(us, o + Len(T) + 1, e, all, any)
  PROVE  ListIs(us, o + 1, e, all \cap M, any \cup M) /\ Chart(us)[<<"args", o + 1>>].args # <<>>
<1>. DEFINE c == Chart(us)
            p == o + 1
            first == c[<<"expr", p>>]
            q == o + Len(T) + 1
            rest == c[<<"args", q>>]
            r == c[<<"args", p>>]
<1>1. /\ first.ok /\ first.pos = q /\ rest.ok /\ rest.pos = e
      /\ p \in 1..Len(us) /\ q \in Nat
  BY DEF ReadsAt, ListIs
<1>2. \A m \in Object : /\ Holds(us, m)[p] <=> m \in M
                        /\ (\A a \in ToSet(rest.args) : Holds(us, m)[a]) <=> m \in all
                        /\ (\E a \in ToSet(rest.args) : Holds(us, m)[a]) <=> m \in any
  BY DEF ReadsAt, ListIs
<1>. HIDE DEF p, q
<1>3. ExpressionIs(us, c, p, first) /\ q \in 1..(Len(us) + 1)
  <2>1. p \in 1..(Len(us) + 1)
    BY <1>1
  <2>2. ExpressionIs(us, c, p, first) /\ Outcome(us, "expr", p, first)
    BY <1>1, <2>1, ChartFacts
  <2>3. QED
    BY <1>1, <2>2 DEF Outcome
<1>4. us[p] # ")" /\ us[p] # Comma
  <2>1. us[p] \in Connective \cup Binary \cup {"bw"}
    BY <1>3 DEF ExpressionIs
  <2>2. us[p] # Comma
    BY <2>1, CommaDiffers
  <2>3. us[p] # ")"
    BY <2>1 DEF Connective, Binary
  <2>4. QED
    BY <2>2, <2>3
<1>5. rest.args \in Seq(1..Len(us))
  <2>1. Outcome(us, "args", q, rest)
    BY <1>3, ChartFacts
  <2>2. QED
    BY <2>1 DEF Outcome
<1>6. r = Parsed(rest.pos, <<p>> \o rest.args)
  BY <1>1, <1>4, ParsesList
<1>7. ToSet(<<p>> \o rest.args) = {p} \cup ToSet(rest.args) /\ <<p>> \o rest.args # <<>>
  <2>. DEFINE V == 1..Len(us)
              args == rest.args
  <2>1. p \in V /\ args \in Seq(V)
    BY <1>1, <1>5
  <2>. HIDE DEF V, args
  <2>2. ToSet(<<p>> \o args) = {p} \cup ToSet(args) /\ <<p>> \o args # <<>>
    BY <2>1, ToSetCons
  <2>3. QED
    BY <2>2 DEF args
<1>. HIDE DEF first, rest, c
<1>8. r.ok /\ r.pos = e /\ r.args # <<>> /\ ToSet(r.args) = {p} \cup ToSet(rest.args)
  BY <1>1, <1>6, <1>7 DEF Parsed
<1>. HIDE DEF r
<1>9. ASSUME NEW m \in Object
      PROVE  /\ (\A a \in ToSet(r.args) : Holds(us, m)[a]) <=> m \in all \cap M
             /\ (\E a \in ToSet(r.args) : Holds(us, m)[a]) <=> m \in any \cup M
  <2>1. /\ (\A a \in ToSet(r.args) : Holds(us, m)[a])
             <=> Holds(us, m)[p] /\ \A a \in ToSet(rest.args) : Holds(us, m)[a]
        /\ (\E a \in ToSet(r.args) : Holds(us, m)[a])
             <=> Holds(us, m)[p] \/ \E a \in ToSet(rest.args) : Holds(us, m)[a]
    BY <1>8
  <2>2. QED
    BY <1>2, <2>1
<1>10. QED
  BY <1>8, <1>9 DEF ListIs, r, c, p

LEMMA ArgumentReads ==
  ASSUME NEW T \in Seq(Token), NEW A \in Seq(Token), NEW M, NEW all, NEW any, T # <<>>,
         Reads(T, M), ReadsList(A, all, any)
  PROVE  ReadsList(IF A = <<>> THEN T ELSE T \o <<Comma>> \o A, all \cap M, any \cup M)
<1>. DEFINE W == IF A = <<>> THEN T ELSE T \o <<Comma>> \o A
<1>1. SUFFICES ASSUME NEW us \in Seq(Token), NEW o \in Nat, Stands(W \o <<")">>, us, o)
               PROVE  ReadsListAt(us, o, W, all \cap M, any \cup M)
  BY DEF ReadsList
<1>2. /\ Comma \in Token /\ ")" \in Token /\ <<Comma>> \in Seq(Token) /\ <<")">> \in Seq(Token)
      /\ Len(<<Comma>>) = 1 /\ Len(<<")">>) = 1 /\ Len(T) \in Nat \ {0} /\ Len(A) \in Nat
  BY TokenAssumption
<1>. DEFINE end == <<")">>
            sep == <<Comma>>
            q == o + Len(T)
<1>3. Stands(T, us, o) /\ q \in Nat
  <2>1. CASE A = <<>>
    <3>1. Stands(T \o end, us, o)
      BY <1>1, <2>1
    <3>. HIDE DEF end
    <3>2. end \in Seq(Token)
      BY <1>2 DEF end
    <3>3. Stands(T, us, o)
      BY <3>1, <3>2, StandsConcat
    <3>4. QED
      BY <1>2, <3>3
  <2>2. CASE A # <<>>
    <3>. DEFINE X == (sep \o A) \o end
    <3>1. (T \o sep \o A) \o end = T \o X /\ X \in Seq(Token)
      BY <1>2
    <3>2. Stands(T \o X, us, o)
      BY <1>1, <2>2, <3>1
    <3>. HIDE DEF X
    <3>3. Stands(T, us, o)
      BY <3>1, <3>2, StandsConcat
    <3>4. QED
      BY <1>2, <3>3
  <2>3. QED
    BY <2>1, <2>2
<1>4. ReadsAt(us, o, T, M) /\ o + 1 <= Len(us)
  <2>1. 1 \in 1..Len(T)
    BY <1>2
  <2>2. QED
    BY <1>3, <2>1 DEF Reads, Stands
<1>. DEFINE e == o + Len(W) + 2
<1>5. ListIs(us, q + 1, e, all, any)
  <2>1. CASE A = <<>>
    <3>1. Stands(T \o end, us, o) /\ A \o end = end /\ Len(W) = Len(T) /\ Len(A) = 0
      BY <1>1, <1>2, <2>1
    <3>2. Stands(A \o end, us, q)
      <4>1. end \in Seq(Token)
        BY <1>2
      <4>. HIDE DEF end
      <4>2. Stands(end, us, q)
        BY <3>1, <4>1, StandsConcat
      <4>3. QED
        BY <3>1, <4>2
    <3>3. ReadsListAt(us, q, A, all, any)
      BY <1>3, <3>2 DEF ReadsList
    <3>4. q + Len(A) + 2 = e
      BY <1>2, <3>1
    <3>. HIDE DEF q, e
    <3>5. QED
      BY <3>3, <3>4 DEF ReadsListAt
  <2>2. CASE A # <<>>
    <3>. DEFINE Y == A \o end
                X == sep \o Y
    <3>1. /\ W \o end = T \o X /\ X \in Seq(Token) /\ Y \in Seq(Token) /\ sep \in Seq(Token)
          /\ Len(W) = Len(T) + Len(A) + 1
      BY <1>2, <2>2
    <3>2. Len(sep) = 1 /\ sep[1] = Comma
      BY <1>2
    <3>3. Stands(T \o X, us, o)
      BY <1>1, <3>1
    <3>. HIDE DEF X, Y, W, sep
    <3>4. Stands(X, us, q)
      BY <3>1, <3>3, StandsConcat
    <3>. HIDE DEF q
    <3>5. Stands(sep, us, q) /\ Stands(Y, us, q + 1)
      BY <1>3, <3>1, <3>2, <3>4, StandsConcat DEF X
    <3>6. q + 1 <= Len(us) /\ us[q + 1] = Comma
      <4>1. 1 \in 1..1
        OBVIOUS
      <4>2. QED
        BY <3>2, <3>5, <4>1 DEF Stands
    <3>7. ReadsListAt(us, q + 1, A, all, any)
      <4>1. q + 1 \in Nat /\ Stands(A \o <<")">>, us, q + 1)
        BY <1>3, <3>5 DEF Y
      <4>2. QED
        BY <4>1 DEF ReadsList
    <3>8. Chart(us)[<<"args", q + 1>>] = Chart(us)[<<"args", (q + 1) + 1>>]
      <4>1. q + 1 \in 1..Len(us)
        BY <1>3, <3>6
      <4>2. QED
        BY <3>6, <4>1, ParsesList
    <3>9. (q + 1) + Len(A) + 2 = e
      BY <1>2, <3>1 DEF q
    <3>. HIDE DEF e
    <3>10. ListIs(us, (q + 1) + 1, e, all, any)
      BY <3>7, <3>9 DEF ReadsListAt
    <3>11. QED
      BY <3>8, <3>10 DEF ListIs
  <2>3. QED
    BY <2>1, <2>2
<1>6. ListIs(us, o + 1, e, all \cap M, any \cup M) /\ Chart(us)[<<"args", o + 1>>].args # <<>>
  <2>1. ListIs(us, o + Len(T) + 1, e, all, any)
    BY <1>5
  <2>. HIDE DEF e, q, W
  <2>2. QED
    BY <1>4, <2>1, ArgumentJoins
<1>7. QED
  BY <1>6 DEF ReadsListAt

-----------------------------------------------------------------------------
(* The client that writes *)

ListType == [text : Seq(Token), all : SUBSET Object, any : SUBSET Object]

FilterInv ==
  /\ filter \in [lists : Seq(ListType), text : Seq(Token), means : SUBSET Object, slip : BOOLEAN]
  /\ ~ filter.slip => /\ filter.text # <<>> => Reads(filter.text, filter.means)
                      /\ \A i \in 1..Len(filter.lists) :
                           LET a == filter.lists[i] IN ReadsList(a.text, a.all, a.any)

LEMMA FilterInvInit == FilterInit => FilterInv
BY DEF FilterInit, Nothing, FilterInv

LEMMA SlipsTyped ==
  ASSUME NEW ts \in Seq(Token)
  PROVE  Slips(ts) \subseteq Seq(Token)
<1>1. ASSUME NEW i \in DOMAIN ts
      PROVE  RemoveAt(ts, i) \in Seq(Token)
  <2>1. i \in 1..Len(ts) /\ Len(ts) \in Nat
    OBVIOUS
  <2>2. SubSeq(ts, 1, i - 1) \in Seq(Token) /\ SubSeq(ts, i + 1, Len(ts)) \in Seq(Token)
    BY <2>1
  <2>3. QED
    BY <2>2 DEF RemoveAt
<1>2. ASSUME NEW i \in DOMAIN ts, NEW t \in Token
      PROVE  ReplaceAt(ts, i, t) \in Seq(Token)
  BY DEF ReplaceAt
<1>3. ASSUME NEW i \in 1..(Len(ts) + 1), NEW t \in Token
      PROVE  InsertAt(ts, i, t) \in Seq(Token)
  <2>1. SubSeq(ts, 1, i - 1) \in Seq(Token) /\ SubSeq(ts, i, Len(ts)) \in Seq(Token) /\ <<t>> \in Seq(Token)
    OBVIOUS
  <2>2. QED
    BY <2>1 DEF InsertAt
<1>4. QED
  BY <1>1, <1>2, <1>3 DEF Slips

LEMMA ListCons ==
  ASSUME NEW V, NEW l \in Seq(V), NEW a \in V
  PROVE  LET u == <<a>> \o l
         IN  /\ u \in Seq(V)
             /\ \A i \in 1..Len(u) : u[i] = a \/ \E j \in 1..Len(l) : u[i] = l[j]
<1>. DEFINE u == <<a>> \o l
<1>1. /\ u \in Seq(V) /\ Len(u) = Len(l) + 1 /\ Len(l) \in Nat
      /\ u[1] = a /\ \A j \in 1..Len(l) : u[j + 1] = l[j]
  OBVIOUS
<1>. HIDE DEF u
<1>2. ASSUME NEW i \in 1..Len(u), u[i] # a
      PROVE  \E j \in 1..Len(l) : u[i] = l[j]
  <2>1. i - 1 \in 1..Len(l) /\ (i - 1) + 1 = i
    BY <1>1, <1>2
  <2>2. u[i] = l[i - 1]
    BY <1>1, <2>1
  <2>3. QED
    BY <2>1, <2>2
<1>3. QED
  BY <1>1, <1>2 DEF u

LEMMA FilterInvNext ==
  ASSUME FilterInv, FilterNext
  PROVE  FilterInv'
<1>1. /\ filter \in [lists : Seq(ListType), text : Seq(Token), means : SUBSET Object, slip : BOOLEAN]
      /\ DOMAIN filter = {"lists", "text", "means", "slip"}
  BY DEF FilterInv
<1>2. ~ filter.slip => /\ filter.text # <<>> => Reads(filter.text, filter.means)
                       /\ \A i \in 1..Len(filter.lists) :
                            ReadsList(filter.lists[i].text, filter.lists[i].all, filter.lists[i].any)
  BY DEF FilterInv
<1>3. \A l : (l \in Seq(ListType) /\ l # <<>>) =>
        /\ Head(l) \in ListType /\ Head(l) = l[1] /\ 1 \in 1..Len(l) /\ Tail(l) \in Seq(ListType)
        /\ \A i \in 1..Len(Tail(l)) : Tail(l)[i] = l[i + 1] /\ i + 1 \in 1..Len(l)
  OBVIOUS
<1>4. ASSUME NEW c \in Comparisons, compare(c)
      PROVE  FilterInv'
  <2>. DEFINE T == Written(c)
              M == {m \in Object : Says(c.op, c.attr, c.low, c.high, m)}
  <2>1. T \in Seq(Token) /\ Reads(T, M) /\ M \in SUBSET Object
    BY WrittenFacts, WrittenReads
  <2>2. filter' = [filter EXCEPT !.text = T, !.means = M]
    BY <1>4 DEF compare
  <2>. HIDE DEF T, M
  <2>3. /\ filter' \in [lists : Seq(ListType), text : Seq(Token), means : SUBSET Object, slip : BOOLEAN]
        /\ filter'.text = T /\ filter'.means = M /\ filter'.lists = filter.lists /\ filter'.slip = filter.slip
    BY <1>1, <2>1, <2>2
  <2>4. QED
    BY <1>2, <2>1, <2>3 DEF FilterInv
<1>5. ASSUME openList
      PROVE  FilterInv'
  <2>. DEFINE a == [text |-> <<>>, all |-> Object, any |-> {}]
              l == <<a>> \o filter.lists
  <2>1. filter.text = <<>> /\ filter' = [filter EXCEPT !.lists = l]
    BY <1>5 DEF openList
  <2>2. a \in ListType /\ ReadsList(a.text, a.all, a.any)
    BY OpenReads DEF ListType
  <2>. HIDE DEF a
  <2>3. /\ l \in Seq(ListType)
        /\ \A i \in 1..Len(l) : l[i] = a \/ \E j \in 1..Len(filter.lists) : l[i] = filter.lists[j]
    BY <1>1, <2>2, ListCons
  <2>. HIDE DEF l
  <2>4. /\ filter' \in [lists : Seq(ListType), text : Seq(Token), means : SUBSET Object, slip : BOOLEAN]
        /\ filter'.text = <<>> /\ filter'.lists = l /\ filter'.slip = filter.slip
    BY <1>1, <2>1, <2>3
  <2>5. ~ filter.slip => \A i \in 1..Len(l) : ReadsList(l[i].text, l[i].all, l[i].any)
    BY <1>2, <2>2, <2>3
  <2>6. QED
    BY <2>4, <2>5 DEF FilterInv
<1>6. ASSUME addArgument
      PROVE  FilterInv'
  <2>. DEFINE b == Head(filter.lists)
              more == IF b.text = <<>> THEN filter.text ELSE filter.text \o <<Comma>> \o b.text
              a == [text |-> more, all |-> b.all \cap filter.means, any |-> b.any \cup filter.means]
              k == Tail(filter.lists)
              l == <<a>> \o k
  <2>1. /\ filter.text # <<>> /\ filter.lists # <<>>
        /\ filter' = [filter EXCEPT !.lists = l, !.text = <<>>, !.means = {}]
    BY <1>6 DEF addArgument
  <2>2. /\ b \in ListType /\ b = filter.lists[1] /\ 1 \in 1..Len(filter.lists) /\ k \in Seq(ListType)
        /\ \A i \in 1..Len(k) : \E j \in 1..Len(filter.lists) : k[i] = filter.lists[j]
    BY <1>1, <1>3, <2>1
  <2>. HIDE DEF b, k
  <2>3. /\ b.text \in Seq(Token) /\ b.all \in SUBSET Object /\ b.any \in SUBSET Object
        /\ filter.text \in Seq(Token) /\ filter.means \in SUBSET Object
    BY <1>1, <2>2 DEF ListType
  <2>4. more \in Seq(Token)
    <3>1. <<Comma>> \in Seq(Token)
      BY TokenAssumption
    <3>2. QED
      BY <2>3, <3>1
  <2>5. ~ filter.slip => ReadsList(more, b.all \cap filter.means, b.any \cup filter.means)
    <3>1. ~ filter.slip => Reads(filter.text, filter.means) /\ ReadsList(b.text, b.all, b.any)
      BY <1>2, <2>1, <2>2
    <3>2. QED
      BY <2>1, <2>3, <3>1, ArgumentReads
  <2>. HIDE DEF more
  <2>6. /\ a \in ListType /\ a.text = more /\ a.all = b.all \cap filter.means
        /\ a.any = b.any \cup filter.means
    BY <2>3, <2>4 DEF ListType
  <2>. HIDE DEF a
  <2>7. /\ l \in Seq(ListType)
        /\ \A i \in 1..Len(l) : l[i] = a \/ \E j \in 1..Len(k) : l[i] = k[j]
    BY <2>2, <2>6, ListCons
  <2>. HIDE DEF l
  <2>8. /\ filter' \in [lists : Seq(ListType), text : Seq(Token), means : SUBSET Object, slip : BOOLEAN]
        /\ filter'.text = <<>> /\ filter'.lists = l /\ filter'.slip = filter.slip
    <3>1. {} \in SUBSET Object /\ <<>> \in Seq(Token) /\ l \in Seq(ListType)
      BY <2>7
    <3>2. QED
      BY <1>1, <2>1, <3>1
  <2>9. ASSUME ~ filter.slip, NEW i \in 1..Len(l)
        PROVE  ReadsList(l[i].text, l[i].all, l[i].any)
    <3>1. CASE l[i] = a
      BY <2>5, <2>6, <2>9, <3>1
    <3>2. CASE l[i] # a
      <4>1. PICK j \in 1..Len(k) : l[i] = k[j]
        BY <2>7, <3>2
      <4>2. PICK n \in 1..Len(filter.lists) : k[j] = filter.lists[n]
        BY <2>2
      <4>3. ReadsList(filter.lists[n].text, filter.lists[n].all, filter.lists[n].any)
        BY <1>2, <2>9
      <4>4. QED
        BY <4>1, <4>2, <4>3
    <3>3. QED
      BY <3>1, <3>2
  <2>10. QED
    BY <2>8, <2>9 DEF FilterInv
<1>7. ASSUME NEW op \in Connective, closeList(op)
      PROVE  FilterInv'
  <2>. DEFINE b == Head(filter.lists)
              k == Tail(filter.lists)
              T == <<op, "(">> \o b.text \o <<")">>
              M == IF op = "and" THEN b.all ELSE b.any
  <2>1. /\ filter.lists # <<>> /\ b.text # <<>>
        /\ filter' = [filter EXCEPT !.lists = k, !.text = T, !.means = M]
    BY <1>7 DEF closeList
  <2>2. /\ b \in ListType /\ b = filter.lists[1] /\ 1 \in 1..Len(filter.lists) /\ k \in Seq(ListType)
        /\ \A i \in 1..Len(k) : \E j \in 1..Len(filter.lists) : k[i] = filter.lists[j]
    BY <1>1, <1>3, <2>1
  <2>. HIDE DEF b, k
  <2>3. b.text \in Seq(Token) /\ b.all \in SUBSET Object /\ b.any \in SUBSET Object
    BY <2>2 DEF ListType
  <2>4. T \in Seq(Token) /\ M \in SUBSET Object
    <3>1. op \in Token /\ "(" \in Token /\ ")" \in Token
      BY TokenAssumption
    <3>2. QED
      BY <2>3, <3>1
  <2>5. ~ filter.slip => Reads(T, M)
    <3>1. ~ filter.slip => ReadsList(b.text, b.all, b.any)
      BY <1>2, <2>2
    <3>2. QED
      BY <2>1, <2>3, <3>1, ClosedReads
  <2>. HIDE DEF T, M
  <2>6. /\ filter' \in [lists : Seq(ListType), text : Seq(Token), means : SUBSET Object, slip : BOOLEAN]
        /\ filter'.text = T /\ filter'.means = M /\ filter'.lists = k /\ filter'.slip = filter.slip
    BY <1>1, <2>1, <2>2, <2>4
  <2>7. ASSUME ~ filter.slip, NEW i \in 1..Len(k)
        PROVE  ReadsList(k[i].text, k[i].all, k[i].any)
    <3>1. PICK n \in 1..Len(filter.lists) : k[i] = filter.lists[n]
      BY <2>2
    <3>2. QED
      BY <1>2, <2>7, <3>1
  <2>8. QED
    BY <2>5, <2>6, <2>7 DEF FilterInv
<1>8. ASSUME NEW ts \in Slips(filter.text), slip(ts)
      PROVE  FilterInv'
  <2>1. ts \in Seq(Token)
    BY <1>1, SlipsTyped
  <2>2. filter' = [filter EXCEPT !.text = ts, !.slip = TRUE]
    BY <1>8 DEF slip
  <2>3. /\ filter' \in [lists : Seq(ListType), text : Seq(Token), means : SUBSET Object, slip : BOOLEAN]
        /\ filter'.slip
    BY <1>1, <2>1, <2>2
  <2>4. QED
    BY <2>3 DEF FilterInv
<1>9. ASSUME drop
       PROVE  FilterInv'
  <2>1. filter' = Nothing
    BY <1>9 DEF drop
  <2>2. QED
    BY <2>1 DEF Nothing, FilterInv
<1>10. QED
  BY <1>4, <1>5, <1>6, <1>7, <1>8, <1>9 DEF FilterNext

LEMMA FilterInvExact == FilterInv => FilterExact
<1>. DEFINE ts == filter.text
<1>1. SUFFICES ASSUME FilterInv, ts # <<>>
               PROVE  /\ ParseFilter(ts) => Accounted(ts, Chart(ts), Nodes(ts)[1])
                      /\ ~ filter.slip => /\ ParseFilter(ts)
                                          /\ \A m \in Object : Pred(ts, m) <=> m \in filter.means
  BY DEF FilterExact
<1>2. ts \in Seq(Token)
  BY <1>1 DEF FilterInv
<1>3. ASSUME ~ filter.slip
      PROVE  ParseFilter(ts) /\ \A m \in Object : Pred(ts, m) <=> m \in filter.means
  <2>1. Reads(ts, filter.means)
    BY <1>1, <1>3 DEF FilterInv
  <2>. HIDE DEF ts
  <2>2. Stands(ts, ts, 0)
    BY <1>2 DEF Stands
  <2>3. ReadsAt(ts, 0, ts, filter.means)
    BY <1>2, <2>1, <2>2 DEF Reads
  <2>4. 0 + 1 = 1 /\ 0 + Len(ts) + 1 = Len(ts) + 1
    BY <1>2
  <2>5. QED
    BY <1>1, <2>3, <2>4 DEF ReadsAt, ParseFilter, Pred
<1>4. QED
  BY <1>2, <1>3, AcceptedIsAccounted

(* The parser of query-target-filter (filters.py parse_filter) is right    *)
(* for every text and every way to nest: FilterExact always holds.         *)
THEOREM FilterCorrect == FilterSpec => []FilterExact
<1>1. FilterInit => FilterInv
  BY FilterInvInit
<1>2. FilterInv /\ [FilterNext]_filter => FilterInv'
  <2>1. FilterInv /\ UNCHANGED filter => FilterInv'
    BY DEF FilterInv
  <2>2. QED
    BY <2>1, FilterInvNext
<1>3. FilterInv => FilterExact
  BY FilterInvExact
<1>4. QED
  BY <1>1, <1>2, <1>3, PTL DEF FilterSpec

=============================================================================
