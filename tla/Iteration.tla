----------------------------- MODULE Iteration ------------------------------
(***************************************************************************)
(* Induction and recursion over data, for the provers at hand: the         *)
(* library's theorems take a predicate or an operator, which they cannot   *)
(* instantiate, so here the predicate is the set of those that have it,    *)
(* and the step of a loop is a function.  A loop of a module is a          *)
(* recursive function of the number of turns it has taken; that such a     *)
(* function exists, and stays in a set its step stays in, follows from     *)
(* LoopExists by giving it that step.                                      *)
(***************************************************************************)
EXTENDS Integers, SequencesExt, SequenceTheorems, WellFoundedInduction, TLAPS

(* Every nonempty set of naturals has a least element.                     *)
LEMMA LeastElement ==
  ASSUME NEW S \in SUBSET Nat, S # {}
  PROVE  \E n \in S : \A m \in S : n <= m
<1>. DEFINE R == OpToRel(<, Nat)
<1>1. IsWellFoundedOn(R, Nat)
  BY NatLessThanWellFounded
<1>2. \A m, n \in Nat : m < n => <<m, n>> \in R
  BY DEF OpToRel
<1>. HIDE DEF R
<1>3. S \subseteq Nat
  OBVIOUS
<1>4. \E n \in S : \A m \in S : ~ (<<m, n>> \in R)
  BY <1>1, <1>3, WFMin, Zenon
<1>5. PICK n \in S : \A m \in S : ~ (<<m, n>> \in R)
  BY <1>4
<1>6. ASSUME NEW m \in S PROVE n <= m
  <2>1. m \in Nat /\ n \in Nat /\ ~ (<<m, n>> \in R)
    BY <1>3, <1>5
  <2>2. ~ (m < n)
    BY <1>2, <2>1
  <2>3. QED
    BY <2>1, <2>2
<1>7. QED
  BY <1>5, <1>6

(* Induction: what holds of 0 and passes from n to n + 1 holds of all.     *)
LEMMA SetInduction ==
  ASSUME NEW S, 0 \in S, \A n \in Nat : n \in S => n + 1 \in S
  PROVE  Nat \subseteq S
<1>1. SUFFICES ASSUME Nat \ S # {} PROVE FALSE
  OBVIOUS
<1>2. PICK n \in Nat \ S : \A m \in Nat \ S : n <= m
  BY <1>1, LeastElement
<1>3. n # 0 /\ n - 1 \in Nat
  BY <1>2
<1>4. n - 1 \in S
  BY <1>2, <1>3
<1>5. QED
  BY <1>2, <1>3, <1>4

(* The same up to a bound.                                                 *)
LEMMA BoundedInduction ==
  ASSUME NEW S, NEW n \in Nat, 0 \in S, \A i \in 0..(n - 1) : i \in S => i + 1 \in S
  PROVE  0..n \subseteq S
<1>. DEFINE T == {i \in Nat : i <= n => i \in S}
<1>1. 0 \in T
  OBVIOUS
<1>2. \A i \in Nat : i \in T => i + 1 \in T
  OBVIOUS
<1>. HIDE DEF T
<1>3. Nat \subseteq T
  BY <1>1, <1>2, SetInduction
<1>4. QED
  BY <1>3 DEF T

(* A loop of n turns over values of D: f[i] is what it holds after i.      *)
IsLoop(f, D, start, n, step) ==
  /\ f \in [0..n -> D]
  /\ f[0] = start
  /\ \A i \in 1..n : f[i] = step[<<f[i - 1], i>>]

LEMMA LoopExists ==
  ASSUME NEW D, NEW start \in D, NEW n \in Nat, NEW step \in [D \X (1..n) -> D]
  PROVE  \E f : IsLoop(f, D, start, n, step)
<1>. DEFINE Ok(f, m) == f[0] = start /\ \A i \in 1..m : f[i] = step[<<f[i - 1], i>>]
            S == {m \in 0..n : \E f \in [0..m -> D] : Ok(f, m)}
<1>1. 0 \in S
  <2>. DEFINE f == [i \in 0..0 |-> start]
  <2>1. f \in [0..0 -> D] /\ f[0] = start
    OBVIOUS
  <2>. HIDE DEF f
  <2>2. Ok(f, 0)
    BY <2>1
  <2>3. QED
    BY <2>1, <2>2
<1>2. ASSUME NEW m \in 0..(n - 1), m \in S
      PROVE  m + 1 \in S
  <2>1. PICK f \in [0..m -> D] : Ok(f, m)
    BY <1>2
  <2>2. m + 1 \in 1..n /\ m + 1 \in 0..n /\ step[<<f[m], m + 1>>] \in D
    BY <2>1
  <2>. DEFINE g == [i \in 0..(m + 1) |-> IF i = m + 1 THEN step[<<f[m], m + 1>>] ELSE f[i]]
  <2>3. g \in [0..(m + 1) -> D]
    BY <2>1, <2>2
  <2>4. g[0] = start /\ \A i \in 1..(m + 1) : g[i] = step[<<g[i - 1], i>>]
    <3>1. \A i \in 0..m : g[i] = f[i]
      OBVIOUS
    <3>2. g[m + 1] = step[<<f[m], m + 1>>]
      OBVIOUS
    <3>3. 0 \in 0..m /\ m \in 0..m /\ f[0] = start
      BY <2>1
    <3>. HIDE DEF g
    <3>4. \A i \in 1..m : i \in 0..m /\ i - 1 \in 0..m /\ f[i] = step[<<f[i - 1], i>>]
      BY <2>1
    <3>5. \A i \in 1..m : g[i] = step[<<g[i - 1], i>>]
      BY <3>1, <3>4
    <3>6. g[m + 1] = step[<<g[(m + 1) - 1], m + 1>>] /\ g[0] = start
      BY <3>1, <3>2, <3>3
    <3>7. QED
      BY <3>5, <3>6
  <2>. HIDE DEF g
  <2>5. Ok(g, m + 1)
    BY <2>4
  <2>. HIDE DEF Ok
  <2>6. QED
    BY <2>2, <2>3, <2>5
<1>. HIDE DEF S
<1>3. n \in S
  BY <1>1, <1>2, BoundedInduction
<1>4. PICK f \in [0..n -> D] : Ok(f, n)
  BY <1>3 DEF S
<1>5. IsLoop(f, D, start, n, step)
  BY <1>4 DEF IsLoop
<1>6. QED
  BY <1>5

(* What the turns of a loop preserve.                                      *)
LEMMA LoopInvariant ==
  ASSUME NEW D, NEW n \in Nat, NEW f, f[0] \in D,
         \A i \in 0..(n - 1) : f[i] \in D => f[i + 1] \in D
  PROVE  \A i \in 0..n : f[i] \in D
<1>. DEFINE S == {i \in 0..n : f[i] \in D}
<1>1. 0 \in S /\ \A i \in 0..(n - 1) : i \in S => i + 1 \in S
  OBVIOUS
<1>. HIDE DEF S
<1>2. 0..n \subseteq S
  BY <1>1, BoundedInduction
<1>3. QED
  BY <1>2 DEF S

-----------------------------------------------------------------------------
(* Places in a list                                                         *)

LEMMA LeastPlace ==
  ASSUME NEW S \in SUBSET Nat, S # {}
  PROVE  Min(S) \in S /\ \A m \in S : Min(S) <= m
<1>1. \E n \in S : \A m \in S : n <= m
  BY LeastElement
<1>2. QED
  BY <1>1 DEF Min

(* A list without the entry at place k.                                    *)
LEMMA RemoveAtFacts ==
  ASSUME NEW S, NEW s \in Seq(S), NEW k \in 1..Len(s)
  PROVE  /\ RemoveAt(s, k) \in Seq(S) /\ Len(RemoveAt(s, k)) = Len(s) - 1
         /\ \A i \in 1..(k - 1) : RemoveAt(s, k)[i] = s[i]
         /\ \A i \in k..(Len(s) - 1) : RemoveAt(s, k)[i] = s[i + 1]
<1>. DEFINE before == SubSeq(s, 1, k - 1)
            after  == SubSeq(s, k + 1, Len(s))
<1>1. /\ before \in Seq(S) /\ Len(before) = k - 1
      /\ \A i \in 1..(k - 1) : before[i] = s[i]
  OBVIOUS
<1>2. /\ after \in Seq(S) /\ Len(after) = Len(s) - k
      /\ \A i \in 1..(Len(s) - k) : after[i] = s[k + i]
  OBVIOUS
<1>3. RemoveAt(s, k) = before \o after
  BY DEF RemoveAt
<1>. HIDE DEF before, after
<1>4. RemoveAt(s, k) \in Seq(S) /\ Len(RemoveAt(s, k)) = Len(s) - 1
  BY <1>1, <1>2, <1>3
<1>5. \A i \in 1..(k - 1) : RemoveAt(s, k)[i] = s[i]
  BY <1>1, <1>2, <1>3
<1>6. ASSUME NEW i \in k..(Len(s) - 1)
      PROVE  RemoveAt(s, k)[i] = s[i + 1]
  <2>1. i - (k - 1) \in 1..(Len(s) - k) /\ k + (i - (k - 1)) = i + 1
    OBVIOUS
  <2>2. RemoveAt(s, k)[i] = after[i - (k - 1)]
    BY <1>1, <1>2, <1>3, <2>1
  <2>3. QED
    BY <1>2, <2>1, <2>2
<1>7. QED
  BY <1>4, <1>5, <1>6

(* A recursion on x in D, among the functions F on D, that only looks      *)
(* where the height h is less.                                             *)
Descends(step, D, F, h) ==
  \A f, g \in F : \A x \in D :
    (\A y \in D : h[y] < h[x] => f[y] = g[y]) => step[f][x] = step[g][x]

IsRecursion(step, D, F, h, n) ==
  /\ \A f \in F : f = [x \in D |-> f[x]]
  /\ h \in [D -> 0..n]
  /\ step \in [F -> F]
  /\ Descends(step, D, F, h)

(* Such a recursion has a function that meets it.                          *)
LEMMA RecursionExists ==
  ASSUME NEW n \in Nat, NEW D, NEW F, NEW start \in F, NEW h, NEW step, IsRecursion(step, D, F, h, n)
  PROVE  \E f \in F : f = step[f]
<1>. USE DEF IsRecursion
<1>. DEFINE Good(f, m) == \A x \in D : h[x] < m => f[x] = step[f][x]
            S == {m \in 0..(n + 1) : \E f \in F : Good(f, m)}
<1>1. \A x \in D : h[x] \in 0..n
  OBVIOUS
<1>2. 0 \in S
  <2>1. Good(start, 0)
    BY <1>1
  <2>. HIDE DEF Good
  <2>2. QED
    BY <2>1
<1>3. ASSUME NEW m \in 0..n, m \in S
      PROVE  m + 1 \in S
  <2>1. PICK f \in F : Good(f, m)
    BY <1>3
  <2>. DEFINE g == step[f]
  <2>2. g \in F
    OBVIOUS
  <2>3. ASSUME NEW x \in D, h[x] < m + 1
        PROVE  g[x] = step[g][x]
    <3>1. \A y \in D : h[y] < h[x] => f[y] = g[y]
      <4>1. \A y \in D : h[y] < h[x] => h[y] < m
        BY <1>1, <2>3
      <4>2. QED
        BY <2>1, <4>1
    <3>. HIDE DEF g
    <3>2. step[f][x] = step[g][x]
      BY <2>2, <3>1 DEF Descends
    <3>3. QED
      BY <3>2 DEF g
  <2>. HIDE DEF g
  <2>4. Good(g, m + 1)
    BY <2>3
  <2>. HIDE DEF Good
  <2>5. QED
    BY <2>2, <2>4
<1>. HIDE DEF S
<1>4. n + 1 \in S
  <2>1. n + 1 \in Nat /\ \A m \in 0..((n + 1) - 1) : m \in S => m + 1 \in S
    BY <1>3
  <2>2. 0..(n + 1) \subseteq S
    BY <1>2, <2>1, BoundedInduction
  <2>3. QED
    BY <2>1, <2>2
<1>5. PICK f \in F : Good(f, n + 1)
  BY <1>4 DEF S
<1>6. \A x \in D : f[x] = step[f][x]
  BY <1>1, <1>5
<1>7. step[f] \in F
  OBVIOUS
<1>8. QED
  BY <1>5, <1>6, <1>7

=============================================================================
