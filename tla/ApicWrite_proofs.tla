-------------------------- MODULE ApicWrite_proofs --------------------------
(***************************************************************************)
(* A write to one site's store, for every set of DNs and of bodies: a      *)
(* malformed body changes nothing, a DELETE pushes what disappears, a POST *)
(* reports what it did so that a client can follow, its reactions have     *)
(* happened when it returns, and posting a body of configuration again is  *)
(* idle.                                                                   *)
(***************************************************************************)
EXTENDS ApicWrite, Iteration, FiniteSetTheorems, TLAPS

M == INSTANCE MITStore_proofs

-----------------------------------------------------------------------------
(* The store's operations, under the name they have in ApicWrite, and the  *)
(* same ones under the name they have where they are proved about.         *)

LEMMA SameNames ==
  /\ T!MO = M!MO /\ T!Store = M!Store /\ T!EmptyStore = M!EmptyStore
  /\ \A st : T!Present(st) = M!Present(st)
  /\ \A d : T!Below(d) = M!Below(d)
<1>1. T!MO = M!MO
  BY DEF T!MO, M!MO
<1>2. T!Store = M!Store
  BY <1>1, Zenon DEF T!Store, M!Store
<1>3. T!EmptyStore = M!EmptyStore
  BY Zenon DEF T!EmptyStore, M!EmptyStore
<1>4. ASSUME NEW st PROVE T!Present(st) = M!Present(st)
  BY Zenon DEF T!Present, M!Present
<1>5. ASSUME NEW d PROVE T!Below(d) = M!Below(d)
  BY Zenon DEF T!Below, M!Below
<1>6. QED
  BY <1>1, <1>2, <1>3, <1>4, <1>5, Zenon

LEMMA SameUpsert ==
  ASSUME NEW st, NEW d, NEW m
  PROVE  T!UpsertOne(st, d, m) = M!UpsertOne(st, d, m)
<1>1. T!Present(st) = M!Present(st)
  BY SameNames, Zenon
<1>2. ASSUME NEW s, NEW e PROVE T!Contains(s, e) = M!Contains(s, e)
  BY Zenon DEF T!Contains, M!Contains
<1>3. ASSUME NEW p PROVE T!Below(p) = M!Below(p) /\ T!Towards(p, d) = M!Towards(p, d)
  <2>1. T!Below(p) = M!Below(p)
    BY SameNames, Zenon
  <2>2. T!Towards(p, d) = M!Towards(p, d)
    BY DEF T!Towards, M!Towards
  <2>3. QED
    BY <2>1, <2>2, Zenon
<1>4. T!Register(st.kids, d) = M!Register(st.kids, d)
  <2>. DEFINE linked(p) == IF d \in M!Below(p) \ {p} /\ ~ M!Contains(st.kids[p], M!Towards(p, d))
                             THEN Append(st.kids[p], M!Towards(p, d)) ELSE st.kids[p]
  <2>1. T!Register(st.kids, d) = [p \in Dn |-> linked(p)]
    BY <1>2, <1>3 DEF T!Register
  <2>2. M!Register(st.kids, d) = [p \in Dn |-> linked(p)]
    BY DEF M!Register
  <2>3. QED
    BY <2>1, <2>2, Zenon
<1>5. T!Inserted(st, d) = M!Inserted(st, d)
  BY <1>1, Zenon DEF T!Inserted, M!Inserted
<1>6. T!AddOne(st, d, m) = M!AddOne(st, d, m)
  BY <1>4, <1>5, Zenon DEF T!AddOne, M!AddOne
<1>7. QED
  BY <1>1, <1>6, Zenon DEF T!UpsertOne, M!UpsertOne

LEMMA SameRemove ==
  ASSUME NEW st, NEW d
  PROVE  T!RemoveSubtree(st, d) = M!RemoveSubtree(st, d)
<1>1. ASSUME NEW s, NEW e PROVE T!RemoveFirst(s, e) = M!RemoveFirst(s, e)
  BY Zenon DEF T!RemoveFirst, M!RemoveFirst, T!RemoveAt, M!RemoveAt,
               T!SelectInSeq, M!SelectInSeq, T!Min, M!Min
<1>2. T!Reach(st.kids, d) = M!Reach(st.kids, d)
  BY Zenon DEF T!Reach, M!Reach, T!Closed, M!Closed, T!Linked, M!Linked, T!ToSet, M!ToSet
<1>3. QED
  BY <1>1, <1>2, Zenon DEF T!RemoveSubtree, M!RemoveSubtree, T!IsTop, M!IsTop,
                           T!parent_dn, M!parent_dn

LEMMA SameSubtree ==
  ASSUME NEW st, NEW d
  PROVE  T!Subtree(st, d) = M!Subtree(st, d)
BY DEF T!Subtree, M!Subtree, T!Walked, M!Walked, T!Present, M!Present

-----------------------------------------------------------------------------
(* What the store's operations do to a store that is sound.                *)

LEMMA StoreAssumptions ==
  /\ Dn \subseteq Seq(Rn) \ {<<>>}
  /\ \A d \in Dn : \A n \in 1..Len(d) : SubSeq(d, 1, n) \in Dn
  /\ NoMO \notin M!MO /\ Unset \notin Val
BY StoreAssumption, SameNames, Zenon

(* Both dictionaries are of their type and agree, and the store is finite. *)
Sound(st) == st \in T!Store /\ M!Inv(st) /\ M!Small(st)

LEMMA EmptySound == Sound(T!EmptyStore)
<1>1. M!EmptyStore \in M!Store /\ M!Inv(M!EmptyStore)
  BY M!EmptyInv, StoreAssumptions, Zenon
<1>2. M!Present(M!EmptyStore) = {} /\ \A p \in Dn : M!EmptyStore.kids[p] = <<>>
  <2>1. M!EmptyStore.mo = [d \in Dn |-> NoMO] /\ M!EmptyStore.kids = [d \in Dn |-> <<>>]
    BY DEF M!EmptyStore
  <2>2. QED
    BY <2>1 DEF M!Present
<1>3. M!Small(M!EmptyStore)
  <2>1. M!IsFiniteSet(M!Present(M!EmptyStore))
    BY <1>2, FS_EmptySet, Zenon DEF IsFiniteSet, M!IsFiniteSet
  <2>2. 0 \in Nat /\ \A p \in Dn : M!EmptyStore.kids[p] # <<>> => Len(p) <= 0
    BY <1>2
  <2>3. QED
    BY <2>1, <2>2, Zenon DEF M!Small
<1>4. QED
  BY <1>1, <1>3, SameNames, Zenon DEF Sound

(* What the entry of d is once m has been merged into it.                  *)
Merged(old, m) ==
  IF old = NoMO THEN m
  ELSE [class |-> old.class, val |-> IF m.val = Unset THEN old.val ELSE m.val]

LEMMA UpsertFacts ==
  ASSUME NEW st, Sound(st), NEW d \in Dn, NEW m \in T!MO
  PROVE  /\ Sound(T!UpsertOne(st, d, m))
         /\ T!UpsertOne(st, d, m).mo =
              [x \in Dn |-> IF x = d THEN Merged(st.mo[d], m) ELSE st.mo[x]]
<1>1. st \in M!Store /\ m \in M!MO /\ M!Inv(st) /\ M!Small(st)
  BY SameNames, Zenon DEF Sound
<1>2. M!UpsertOne(st, d, m) \in M!Store /\ M!Inv(M!UpsertOne(st, d, m))
  BY <1>1, M!UpsertOneInv, StoreAssumptions, Zenon
<1>3. M!Small(M!UpsertOne(st, d, m))
  BY <1>1, M!SmallUpsert, StoreAssumptions, Zenon
<1>4. Sound(T!UpsertOne(st, d, m))
  BY <1>2, <1>3, SameUpsert, SameNames, Zenon DEF Sound
<1>5. st.mo \in [Dn -> M!MO \cup {NoMO}]
  BY <1>1 DEF M!Store
<1>6. CASE d \in T!Present(st)
  <2>1. st.mo[d] # NoMO /\ st.mo[d] \in M!MO
    BY <1>5, <1>6 DEF T!Present
  <2>2. T!UpsertOne(st, d, m).mo =
          [st.mo EXCEPT ![d].val = IF m.val = Unset THEN st.mo[d].val ELSE m.val]
    BY <1>1, <1>6 DEF T!UpsertOne, M!Store
  <2>3. Merged(st.mo[d], m) =
          [st.mo[d] EXCEPT !.val = IF m.val = Unset THEN st.mo[d].val ELSE m.val]
    BY <2>1 DEF Merged, M!MO
  <2>4. QED
    BY <1>4, <1>5, <2>2, <2>3
<1>7. CASE d \notin T!Present(st)
  <2>1. st.mo[d] = NoMO
    BY <1>7 DEF T!Present
  <2>2. T!UpsertOne(st, d, m).mo = [st.mo EXCEPT ![d] = m]
    BY <1>7 DEF T!UpsertOne, T!AddOne
  <2>3. QED
    BY <1>4, <1>5, <2>1, <2>2 DEF Merged
<1>8. QED
  BY <1>6, <1>7

LEMMA RemoveFacts ==
  ASSUME NEW st, Sound(st), NEW d \in Dn
  PROVE  /\ Sound(T!RemoveSubtree(st, d))
         /\ T!RemoveSubtree(st, d).mo =
              [x \in Dn |-> IF x \in T!Below(d) THEN NoMO ELSE st.mo[x]]
<1>1. st \in M!Store /\ M!Inv(st) /\ M!Small(st)
  BY SameNames, Zenon DEF Sound
<1>2. /\ M!RemoveSubtree(st, d) \in M!Store /\ M!Inv(M!RemoveSubtree(st, d))
      /\ M!RemoveSubtree(st, d).mo =
           [x \in Dn |-> IF x \in M!Below(d) THEN NoMO ELSE st.mo[x]]
  BY <1>1, M!RemoveSubtreeInv, StoreAssumptions, Zenon
<1>3. M!Small(M!RemoveSubtree(st, d))
  BY <1>1, M!SmallRemove, StoreAssumptions, Zenon
<1>4. T!RemoveSubtree(st, d) = M!RemoveSubtree(st, d) /\ T!Below(d) = M!Below(d)
  BY SameRemove, SameNames, Zenon
<1>5. QED
  BY <1>2, <1>3, <1>4, SameNames, Zenon DEF Sound

LEMMA SubtreeFacts ==
  ASSUME NEW st, Sound(st), NEW d \in Dn
  PROVE  /\ ToSet(T!Subtree(st, d)) = T!Present(st) \cap (T!Below(d) \ {d})
         /\ T!Subtree(st, d) \in Seq(Dn) /\ M!Once(T!Subtree(st, d))
<1>1. st \in M!Store /\ M!Inv(st) /\ M!Small(st)
  BY SameNames, Zenon DEF Sound
<1>2. /\ M!ToSet(M!Subtree(st, d)) = M!Present(st) \cap (M!Below(d) \ {d})
      /\ M!Subtree(st, d) \in Seq(Dn) /\ M!Once(M!Subtree(st, d))
  BY <1>1, M!SubtreeSet, StoreAssumptions, Zenon
<1>3. T!Subtree(st, d) = M!Subtree(st, d)
  BY SameSubtree, Zenon
<1>4. ASSUME NEW s PROVE M!ToSet(s) = ToSet(s)
  BY DEF M!ToSet, ToSet
<1>5. QED
  BY <1>2, <1>3, <1>4, SameNames, Zenon
-----------------------------------------------------------------------------
(* Planning                                                                *)

(* A node is planned if it is the root, or if its parent is and stays.     *)
Wanted(b, S, i) ==
  \/ b[i].parent = 0
  \/ b[i].parent \in S /\ ~ b[b[i].parent].deleted

IsPlan(u, b) ==
  /\ u[0] = {}
  /\ \A i \in 1..Len(b) : u[i] = IF Wanted(b, u[i - 1], i) THEN u[i - 1] \cup {i} ELSE u[i - 1]
  /\ Planned(b) = u[Len(b)]

LEMMA PlanLoop ==
  ASSUME NEW b \in Body
  PROVE  \E u : IsPlan(u, b)
<1>. DEFINE n == Len(b)
            D == SUBSET (1..n)
            Turn(s, i) == IF Wanted(b, s, i) THEN s \cup {i} ELSE s
            step == [x \in D \X (1..n) |-> Turn(x[1], x[2])]
            F(f) == [i \in 0..Len(b) |->
                       IF i = 0 THEN {}
                       ELSE IF \/ b[i].parent = 0
                               \/ b[i].parent \in f[i - 1] /\ ~ b[b[i].parent].deleted
                         THEN f[i - 1] \cup {i}
                         ELSE f[i - 1]]
            upto == CHOOSE f : f = F(f)
<1>1. n \in Nat
  BY BodyAssumption
<1>2. {} \in D
  OBVIOUS
<1>3. Planned(b) = upto[n]
  BY DEF Planned
<1>4. ASSUME NEW s \in D, NEW i \in 1..n
      PROVE  Turn(s, i) \in D
  OBVIOUS
<1>. HIDE DEF upto, D, n, Turn
<1>5. step \in [D \X (1..n) -> D]
  <2>1. ASSUME NEW x \in D \X (1..n)
        PROVE  Turn(x[1], x[2]) \in D
    BY <1>4
  <2>2. QED
    BY <2>1
<1>. HIDE DEF step
<1>6. PICK f : IsLoop(f, D, {}, n, step)
  BY <1>1, <1>2, <1>5, LoopExists
<1>7. ASSUME NEW i \in 1..n
      PROVE  f[i] = Turn(f[i - 1], i)
  <2>1. <<f[i - 1], i>> \in D \X (1..n) /\ f[i] = step[<<f[i - 1], i>>]
    BY <1>1, <1>6 DEF IsLoop
  <2>2. QED
    BY <2>1 DEF step
<1>8. f = F(f)
  <2>1. \A i \in 0..n : f[i] = IF i = 0 THEN {} ELSE Turn(f[i - 1], i)
    BY <1>1, <1>6, <1>7 DEF IsLoop
  <2>2. f = [i \in 0..n |-> IF i = 0 THEN {} ELSE Turn(f[i - 1], i)]
    BY <1>6, <2>1 DEF IsLoop
  <2>3. QED
    BY <2>2, Zenon DEF Turn, Wanted, n
<1>9. upto = F(upto)
  <2>. HIDE DEF F
  <2>1. \E g : g = F(g)
    BY <1>8
  <2>2. QED
    BY <2>1 DEF upto
<1>10. upto[0] = {} /\ \A i \in 1..n : upto[i] = Turn(upto[i - 1], i)
  <2>1. upto = [i \in 0..n |-> IF i = 0 THEN {} ELSE Turn(upto[i - 1], i)]
    BY <1>9, Zenon DEF Turn, Wanted, n
  <2>2. \A i \in 0..n : upto[i] = IF i = 0 THEN {} ELSE Turn(upto[i - 1], i)
    BY <2>1
  <2>3. QED
    BY <1>1, <2>2
<1>11. IsPlan(upto, b)
  BY <1>3, <1>10 DEF IsPlan, Turn, n
<1>12. QED
  BY <1>11

LEMMA PlannedFacts ==
  ASSUME NEW b \in Body
  PROVE  /\ Planned(b) \subseteq 1..Len(b)
         /\ \A i \in 1..Len(b) : Wanted(b, Planned(b), i) => i \in Planned(b)
<1>. DEFINE n == Len(b)
<1>1. PICK u : IsPlan(u, b)
  BY PlanLoop
<1>2. n \in Nat
  BY BodyAssumption
<1>3. \A i \in 1..n : u[i] = IF Wanted(b, u[i - 1], i) THEN u[i - 1] \cup {i} ELSE u[i - 1]
  BY <1>1 DEF IsPlan
<1>4. u[0] = {} /\ Planned(b) = u[n]
  BY <1>1 DEF IsPlan
<1>5. \A i \in 1..n : b[i].parent \in 0..(i - 1)
  <2>1. b[1].parent = 0 /\ \A i \in 2..n : b[i].parent \in 1..(i - 1)
    BY BodyAssumption
  <2>2. ASSUME NEW i \in 1..n PROVE i = 1 \/ i \in 2..n
    OBVIOUS
  <2>3. QED
    BY <2>1, <2>2
<1>. HIDE DEF n
<1>. DEFINE S == {k \in 0..n : /\ u[k] \subseteq 1..k
                               /\ \A j \in 0..k : \A i \in u[k] : i <= j => i \in u[j]
                               /\ \A j \in 0..k : u[j] \subseteq u[k]}
<1>6. 0 \in S
  BY <1>2, <1>4
<1>7. ASSUME NEW k \in 0..(n - 1), k \in S
      PROVE  k + 1 \in S
  <2>1. k + 1 \in 1..n /\ k + 1 \in 0..n /\ (k + 1) - 1 = k /\ k \in Nat
    BY <1>2
  <2>2. u[k + 1] = u[k] \/ u[k + 1] = u[k] \cup {k + 1}
    BY <1>3, <2>1
  <2>3. u[k] \subseteq 1..k /\ \A j \in 0..k : u[j] \subseteq u[k]
    BY <1>7
  <2>4. u[k + 1] \subseteq 1..(k + 1)
    BY <2>1, <2>2, <2>3
  <2>5. ASSUME NEW j \in 0..(k + 1)
        PROVE  u[j] \subseteq u[k + 1]
    <3>1. j = k + 1 \/ j \in 0..k
      BY <2>1
    <3>2. QED
      BY <2>2, <2>3, <3>1
  <2>6. ASSUME NEW j \in 0..(k + 1), NEW i \in u[k + 1], i <= j
        PROVE  i \in u[j]
    <3>1. CASE j = k + 1
      BY <2>6, <3>1
    <3>2. CASE j # k + 1
      <4>1. j \in 0..k
        BY <2>1, <3>2
      <4>2. i \in u[k]
        BY <2>1, <2>2, <2>6, <4>1
      <4>3. QED
        BY <1>7, <2>6, <4>1, <4>2
    <3>3. QED
      BY <3>1, <3>2
  <2>7. QED
    BY <2>1, <2>4, <2>5, <2>6
<1>. HIDE DEF S
<1>8. 0..n \subseteq S
  BY <1>2, <1>6, <1>7, BoundedInduction
<1>9. n \in S
  BY <1>2, <1>8
<1>10. u[n] \subseteq 1..n
  BY <1>9 DEF S
<1>11. ASSUME NEW i \in 1..n, Wanted(b, u[n], i)
       PROVE  i \in u[n]
  <2>1. i - 1 \in 0..n /\ i \in 0..n /\ b[i].parent \in 0..(i - 1)
    BY <1>2, <1>5
  <2>2. b[i].parent \in u[n] => b[i].parent \in u[i - 1]
    <3>1. b[i].parent <= i - 1
      BY <2>1
    <3>2. QED
      BY <1>9, <2>1, <3>1 DEF S
  <2>3. Wanted(b, u[i - 1], i)
    BY <1>11, <2>2 DEF Wanted
  <2>4. i \in u[i]
    BY <1>3, <2>3
  <2>5. QED
    BY <1>9, <2>1, <2>4 DEF S
<1>12. QED
  BY <1>4, <1>10, <1>11 DEF n

(* What is not nested in a deleted node is planned.                        *)
LEMMA PlannedUnlessNested ==
  ASSUME NEW b \in Body, NEW i \in 1..Len(b), \A j \in Around(b, i) : ~ b[j].deleted
  PROVE  i \in Planned(b)
<1>. DEFINE n == Len(b)
            Kept(k) == \A j \in Around(b, k) : ~ b[j].deleted
            S == {m \in 0..n : \A k \in 1..m : Kept(k) => k \in Planned(b)}
<1>1. n \in Nat
  BY BodyAssumption
<1>2. \A k \in 1..n : k = 1 \/ k \in 2..n
  BY <1>1
<1>3. b[1].parent = 0 /\ \A k \in 2..n : b[k].parent \in 1..(k - 1)
  BY BodyAssumption
<1>4. \A k \in 1..n : Wanted(b, Planned(b), k) => k \in Planned(b)
  BY PlannedFacts
<1>5. \A k \in 1..n : k \in Around(b, k)
  BY DEF Around
<1>6. ASSUME NEW k \in 2..n
      PROVE  Around(b, b[k].parent) \subseteq Around(b, k)
  <2>1. k \in 1..n /\ b[k].parent # 0
    BY <1>1, <1>3
  <2>2. QED
    BY <2>1 DEF Around
<1>. HIDE DEF n
<1>7. 0 \in S
  BY <1>1
<1>8. ASSUME NEW m \in 0..(n - 1), m \in S
      PROVE  m + 1 \in S
  <2>. DEFINE k == m + 1
  <2>1. k \in 0..n /\ k \in 1..n /\ k - 1 = m /\ \A j \in 1..k : j = k \/ j \in 1..m
    BY <1>1
  <2>. HIDE DEF k
  <2>2. SUFFICES ASSUME Kept(k) PROVE k \in Planned(b)
    BY <1>8, <2>1 DEF k
  <2>3. CASE k = 1
    <3>1. Wanted(b, Planned(b), k)
      BY <1>3, <2>3 DEF Wanted
    <3>2. QED
      BY <1>4, <2>1, <3>1
  <2>4. CASE k \in 2..n
    <3>1. b[k].parent \in 1..m
      BY <1>3, <2>1, <2>4
    <3>2. Kept(b[k].parent)
      BY <1>6, <2>2, <2>4
    <3>3. b[k].parent \in Planned(b)
      BY <1>8, <3>1, <3>2
    <3>4. ~ b[b[k].parent].deleted
      <4>1. b[k].parent \in 1..n
        BY <1>1, <3>1
      <4>2. QED
        BY <1>5, <3>2, <4>1
    <3>5. QED
      BY <1>4, <2>1, <3>3, <3>4 DEF Wanted
  <2>5. QED
    BY <1>2, <2>1, <2>3, <2>4
<1>. HIDE DEF S
<1>9. 0..n \subseteq S
  BY <1>1, <1>7, <1>8, BoundedInduction
<1>10. n \in S
  BY <1>1, <1>9
<1>11. QED
  BY <1>10 DEF S, n

-----------------------------------------------------------------------------
(* Commit, as a loop over the nodes of the body.                           *)

Outcome == [cls : Class, dn : Dn, val : Val \cup {Unset}, deleted : BOOLEAN,
            status : {"created", "modified", "deleted", "unchanged"}]

Progress == [st : {s \in T!Store : Sound(s)}, results : Seq(Outcome), raised : BOOLEAN]

LEMMA NodeFacts ==
  ASSUME NEW b \in Body
  PROVE  /\ Len(b) \in Nat /\ b \in Seq(Node)
         /\ \A i \in 1..Len(b) : b[i] \in Node /\ DnOf(b)[i] \in Dn
         /\ Planned(b) \subseteq 1..Len(b)
<1>1. b \in Seq(Node)
  BY BodyAssumption
<1>2. \A i \in 1..Len(b) : b[i] \in Node
  BY <1>1
<1>3. QED
  BY <1>1, <1>2, DnOfAssumption, PlannedFacts

LEMMA WrittenFacts ==
  ASSUME NEW st, Sound(st), NEW d \in Dn, NEW node \in Node
  PROVE  Written(st, d, node) \in T!MO
BY ValueAssumption DEF Written, Node, T!MO

LEMMA StatusFacts ==
  ASSUME NEW st, NEW d, NEW node
  PROVE  Status(st, d, node) \in {"created", "modified", "deleted", "unchanged"}
BY DEF Status

LEMMA WriteFacts ==
  ASSUME NEW st, Sound(st), NEW d \in Dn, NEW node \in Node
  PROVE  /\ Sound(Write(st, d, node))
         /\ Write(st, d, node).mo =
              IF node.deleted
                THEN [x \in Dn |-> IF x \in T!Below(d) THEN NoMO ELSE st.mo[x]]
                ELSE [x \in Dn |-> IF x = d THEN Merged(st.mo[d], Written(st, d, node))
                                            ELSE st.mo[x]]
<1>1. CASE node.deleted
  <2>1. Write(st, d, node) = T!RemoveSubtree(st, d)
    BY <1>1 DEF Write
  <2>2. /\ Sound(T!RemoveSubtree(st, d))
        /\ T!RemoveSubtree(st, d).mo =
             [x \in Dn |-> IF x \in T!Below(d) THEN NoMO ELSE st.mo[x]]
    BY RemoveFacts, Zenon
  <2>3. QED
    BY <1>1, <2>1, <2>2
<1>2. CASE ~ node.deleted
  <2>. DEFINE m == Written(st, d, node)
  <2>1. Write(st, d, node) = T!UpsertOne(st, d, m) /\ m \in T!MO
    BY <1>2, WrittenFacts DEF Write
  <2>. HIDE DEF m
  <2>2. /\ Sound(T!UpsertOne(st, d, m))
        /\ T!UpsertOne(st, d, m).mo =
             [x \in Dn |-> IF x = d THEN Merged(st.mo[d], m) ELSE st.mo[x]]
    BY <2>1, UpsertFacts, ZenonT(30)
  <2>3. QED
    BY <1>2, <2>1, <2>2 DEF m
<1>3. QED
  BY <1>1, <1>2

LEMMA CommitNodeFacts ==
  ASSUME NEW acc \in Progress, NEW b \in Body, NEW n \in 1..Len(b)
  PROVE  CommitNode(acc, b, n) \in Progress
<1>. DEFINE d == DnOf(b)[n]
<1>1. b[n] \in Node /\ d \in Dn
  BY NodeFacts
<1>2. acc.st \in T!Store /\ Sound(acc.st) /\ acc.results \in Seq(Outcome)
  BY DEF Progress
<1>. HIDE DEF d
<1>3. CASE acc.raised \/ n \notin Planned(b)
  BY <1>3 DEF CommitNode
<1>4. CASE ~ (acc.raised \/ n \notin Planned(b)) /\ b[n].flaw = "name"
  BY <1>4 DEF CommitNode, Progress
<1>5. CASE ~ (acc.raised \/ n \notin Planned(b)) /\ b[n].flaw # "name"
  <2>. DEFINE out == [cls |-> b[n].cls, dn |-> d, val |-> b[n].val,
                      deleted |-> b[n].deleted, status |-> Status(acc.st, d, b[n])]
  <2>1. out \in Outcome
    BY <1>1, StatusFacts DEF Outcome, Node
  <2>2. Sound(Write(acc.st, d, b[n])) /\ Write(acc.st, d, b[n]) \in T!Store
    BY <1>1, <1>2, WriteFacts DEF Sound
  <2>3. CommitNode(acc, b, n) =
          [st |-> Write(acc.st, d, b[n]), results |-> Append(acc.results, out), raised |-> FALSE]
    BY <1>5 DEF CommitNode, d
  <2>. HIDE DEF out
  <2>4. Append(acc.results, out) \in Seq(Outcome)
    BY <1>2, <2>1
  <2>5. QED
    BY <2>2, <2>3, <2>4 DEF Progress
<1>6. QED
  BY <1>3, <1>4, <1>5

(* What Commit has done after n nodes, for every n                         *)
IsCommit(f, st, b) ==
  /\ f \in [0..Len(b) -> Progress]
  /\ f[0] = [st |-> st, results |-> <<>>, raised |-> FALSE]
  /\ \A i \in 1..Len(b) : f[i] = CommitNode(f[i - 1], b, i)
  /\ Commit(st, b) = f[Len(b)]

LEMMA CommitLoop ==
  ASSUME NEW st, Sound(st), NEW b \in Body
  PROVE  \E f : IsCommit(f, st, b)
<1>. DEFINE n == Len(b)
            start == [st |-> st, results |-> <<>>, raised |-> FALSE]
            step == [x \in Progress \X (1..n) |-> CommitNode(x[1], b, x[2])]
            F(f) == [i \in 0..Len(b) |->
                       IF i = 0 THEN [st |-> st, results |-> <<>>, raised |-> FALSE]
                       ELSE CommitNode(f[i - 1], b, i)]
            upto == CHOOSE f : f = F(f)
<1>1. n \in Nat
  BY NodeFacts
<1>2. start \in Progress
  BY DEF Sound, Progress
<1>3. Commit(st, b) = upto[n]
  BY DEF Commit
<1>. HIDE DEF upto
<1>4. step \in [Progress \X (1..n) -> Progress]
  <2>1. ASSUME NEW x \in Progress \X (1..n)
        PROVE  CommitNode(x[1], b, x[2]) \in Progress
    BY CommitNodeFacts
  <2>2. QED
    BY <2>1
<1>. HIDE DEF step, start
<1>5. PICK f : IsLoop(f, Progress, start, n, step)
  BY <1>1, <1>2, <1>4, LoopExists
<1>6. ASSUME NEW i \in 1..n
      PROVE  f[i] = CommitNode(f[i - 1], b, i)
  <2>1. <<f[i - 1], i>> \in Progress \X (1..n) /\ f[i] = step[<<f[i - 1], i>>]
    BY <1>1, <1>5 DEF IsLoop
  <2>2. QED
    BY <2>1 DEF step
<1>7. f = F(f)
  <2>1. \A i \in 0..n : f[i] = IF i = 0 THEN start ELSE CommitNode(f[i - 1], b, i)
    BY <1>1, <1>5, <1>6 DEF IsLoop
  <2>2. f = [i \in 0..n |-> IF i = 0 THEN start ELSE CommitNode(f[i - 1], b, i)]
    BY <1>5, <2>1 DEF IsLoop
  <2>3. QED
    BY <2>2 DEF start
<1>8. upto = F(upto)
  <2>. HIDE DEF F
  <2>1. \E g : g = F(g)
    BY <1>7
  <2>2. QED
    BY <2>1 DEF upto
<1>9. upto[0] = start /\ \A i \in 1..n : upto[i] = CommitNode(upto[i - 1], b, i)
  <2>1. upto = [i \in 0..n |-> IF i = 0 THEN start ELSE CommitNode(upto[i - 1], b, i)]
    BY <1>8 DEF start
  <2>. HIDE DEF n
  <2>2. \A i \in 0..n : upto[i] = IF i = 0 THEN start ELSE CommitNode(upto[i - 1], b, i)
    BY <2>1
  <2>3. QED
    BY <1>1, <2>2
<1>10. upto \in [0..n -> Progress]
  <2>1. upto[0] \in Progress
    BY <1>2, <1>9
  <2>2. \A i \in 0..(n - 1) : upto[i] \in Progress => upto[i + 1] \in Progress
    BY <1>1, <1>9, CommitNodeFacts
  <2>3. \A i \in 0..n : upto[i] \in Progress
    BY <1>1, <2>1, <2>2, LoopInvariant
  <2>4. upto = [i \in 0..n |-> upto[i]]
    BY <1>8
  <2>5. QED
    BY <2>3, <2>4
<1>11. IsCommit(upto, st, b)
  BY <1>3, <1>9, <1>10 DEF IsCommit, start
<1>12. QED
  BY <1>11
-----------------------------------------------------------------------------
(* Every result comes from a planned node, and every planned node has one. *)

Matches(r, b, i) ==
  /\ r.cls = b[i].cls /\ r.dn = DnOf(b)[i]
  /\ r.val = b[i].val /\ r.deleted = b[i].deleted

Matched(results, b, n) ==
  /\ \A k \in 1..Len(results) : \E i \in Planned(b) : i <= n /\ Matches(results[k], b, i)
  /\ \A i \in Planned(b) : i <= n => \E k \in 1..Len(results) : Matches(results[k], b, i)

LEMMA AppendFacts ==
  ASSUME NEW S, NEW s \in Seq(S), NEW e \in S
  PROVE  /\ Append(s, e) \in Seq(S) /\ Len(Append(s, e)) = Len(s) + 1
         /\ \A i \in 1..Len(s) : Append(s, e)[i] = s[i]
         /\ Append(s, e)[Len(s) + 1] = e
OBVIOUS

(* What the turn of node n does if it is one that is written.              *)
LEMMA TurnFacts ==
  ASSUME NEW acc \in Progress, NEW b \in Body, NEW n \in 1..Len(b),
         ~ CommitNode(acc, b, n).raised
  PROVE  LET new == CommitNode(acc, b, n)
             d   == DnOf(b)[n]
         IN  /\ ~ acc.raised
             /\ n \notin Planned(b) => new = acc
             /\ n \in Planned(b) =>
                  \E out \in Outcome :
                    /\ Matches(out, b, n) /\ out.status = Status(acc.st, d, b[n])
                    /\ new.results = Append(acc.results, out)
                    /\ new.st = Write(acc.st, d, b[n])
<1>. DEFINE d == DnOf(b)[n]
            out == [cls |-> b[n].cls, dn |-> d, val |-> b[n].val,
                    deleted |-> b[n].deleted, status |-> Status(acc.st, d, b[n])]
<1>1. b[n] \in Node /\ d \in Dn
  BY NodeFacts
<1>2. out \in Outcome
  BY <1>1, StatusFacts DEF Outcome, Node
<1>3. Matches(out, b, n) /\ out.status = Status(acc.st, d, b[n])
  BY DEF Matches
<1>4. CASE acc.raised \/ n \notin Planned(b)
  BY <1>4 DEF CommitNode
<1>5. CASE ~ (acc.raised \/ n \notin Planned(b)) /\ b[n].flaw = "name"
  BY <1>5 DEF CommitNode, Progress
<1>6. CASE ~ (acc.raised \/ n \notin Planned(b)) /\ b[n].flaw # "name"
  <2>1. CommitNode(acc, b, n) =
          [st |-> Write(acc.st, d, b[n]), results |-> Append(acc.results, out), raised |-> FALSE]
    BY <1>6 DEF CommitNode
  <2>. HIDE DEF out
  <2>2. QED
    BY <1>2, <1>3, <1>6, <2>1
<1>7. QED
  BY <1>4, <1>5, <1>6

LEMMA MatchedStep ==
  ASSUME NEW results \in Seq(Outcome), NEW b \in Body, NEW n \in Nat, n + 1 \in Planned(b),
         Matched(results, b, n), NEW out \in Outcome, Matches(out, b, n + 1)
  PROVE  Matched(Append(results, out), b, n + 1)
<1>. DEFINE new == Append(results, out)
<1>1. /\ Len(new) = Len(results) + 1 /\ Len(results) \in Nat
      /\ \A i \in 1..Len(results) : new[i] = results[i]
      /\ new[Len(results) + 1] = out
  BY AppendFacts
<1>2. Planned(b) \subseteq Nat
  BY NodeFacts
<1>. HIDE DEF new
<1>3. ASSUME NEW k \in 1..Len(new)
      PROVE  \E i \in Planned(b) : i <= n + 1 /\ Matches(new[k], b, i)
  <2>1. CASE k = Len(results) + 1
    <3>1. new[k] = out
      BY <1>1, <2>1
    <3>2. QED
      BY <3>1
  <2>2. CASE k # Len(results) + 1
    <3>1. k \in 1..Len(results) /\ new[k] = results[k]
      BY <1>1, <2>2
    <3>2. PICK i \in Planned(b) : i <= n /\ Matches(results[k], b, i)
      BY <3>1 DEF Matched
    <3>3. i <= n + 1 /\ Matches(new[k], b, i)
      BY <1>2, <3>1, <3>2
    <3>4. QED
      BY <3>3
  <2>3. QED
    BY <2>1, <2>2
<1>4. ASSUME NEW i \in Planned(b), i <= n + 1
      PROVE  \E k \in 1..Len(new) : Matches(new[k], b, i)
  <2>1. CASE i = n + 1
    <3>1. Len(results) + 1 \in 1..Len(new) /\ new[Len(results) + 1] = out
      BY <1>1
    <3>2. QED
      BY <2>1, <3>1
  <2>2. CASE i # n + 1
    <3>1. i <= n
      BY <1>2, <1>4, <2>2
    <3>2. PICK k \in 1..Len(results) : Matches(results[k], b, i)
      BY <3>1 DEF Matched
    <3>3. k \in 1..Len(new) /\ new[k] = results[k]
      BY <1>1
    <3>4. QED
      BY <3>2, <3>3
  <2>3. QED
    BY <2>1, <2>2
<1>5. QED
  BY <1>3, <1>4 DEF Matched, new

LEMMA CommitMatches ==
  ASSUME NEW st, Sound(st), NEW b \in Body
  PROVE  /\ Commit(st, b) \in Progress
         /\ ~ Commit(st, b).raised => Matched(Commit(st, b).results, b, Len(b))
<1>1. PICK f : IsCommit(f, st, b)
  BY CommitLoop
<1>. DEFINE n == Len(b)
            S == {i \in 0..n : ~ f[i].raised => Matched(f[i].results, b, i)}
<1>2. n \in Nat /\ Planned(b) \subseteq 1..n
  BY NodeFacts
<1>3. \A i \in 0..n : f[i] \in Progress
  BY <1>1 DEF IsCommit
<1>4. 0 \in S
  <2>1. f[0].results = <<>>
    BY <1>1 DEF IsCommit
  <2>2. Matched(<<>>, b, 0)
    BY <1>2 DEF Matched
  <2>3. QED
    BY <1>2, <2>1, <2>2
<1>5. ASSUME NEW i \in 0..(n - 1), i \in S
      PROVE  i + 1 \in S
  <2>1. i + 1 \in 1..n /\ i \in Nat /\ (i + 1) - 1 = i
    BY <1>2
  <2>2. f[i + 1] = CommitNode(f[i], b, i + 1) /\ f[i] \in Progress
    BY <1>1, <1>2, <1>3, <2>1 DEF IsCommit
  <2>3. SUFFICES ASSUME ~ f[i + 1].raised PROVE Matched(f[i + 1].results, b, i + 1)
    BY <2>1
  <2>4. ~ f[i].raised
    BY <2>1, <2>2, <2>3, TurnFacts
  <2>5. Matched(f[i].results, b, i)
    BY <1>5, <2>4
  <2>6. CASE i + 1 \notin Planned(b)
    <3>1. f[i + 1] = f[i]
      BY <2>1, <2>2, <2>3, <2>6, TurnFacts
    <3>2. \A j \in Planned(b) : j <= i + 1 <=> j <= i
      BY <1>2, <2>6
    <3>3. QED
      BY <2>5, <3>1, <3>2 DEF Matched
  <2>7. CASE i + 1 \in Planned(b)
    <3>1. PICK out \in Outcome : /\ Matches(out, b, i + 1)
                                 /\ f[i + 1].results = Append(f[i].results, out)
      BY <2>1, <2>2, <2>3, <2>7, TurnFacts
    <3>2. f[i].results \in Seq(Outcome)
      BY <2>2 DEF Progress
    <3>3. QED
      BY <2>1, <2>5, <2>7, <3>1, <3>2, MatchedStep
  <2>8. QED
    BY <2>6, <2>7
<1>. HIDE DEF S
<1>6. 0..n \subseteq S
  BY <1>2, <1>4, <1>5, BoundedInduction
<1>7. n \in S
  BY <1>2, <1>6
<1>8. Commit(st, b) = f[n]
  BY <1>1 DEF IsCommit
<1>9. QED
  BY <1>2, <1>3, <1>7, <1>8 DEF S
-----------------------------------------------------------------------------
(* Reactions                                                               *)

(* The child lists of a DN that is not shorter than what is written stay.  *)
LEMMA UpsertKids ==
  ASSUME NEW st, Sound(st), NEW d \in Dn, NEW m \in T!MO, NEW p \in Dn, Len(p) >= Len(d)
  PROVE  T!UpsertOne(st, d, m).kids[p] = st.kids[p]
<1>1. st.kids \in [Dn -> Seq(Dn)]
  BY DEF Sound, T!Store
<1>2. ~ (d \in T!Below(p) \ {p})
  <2>1. SUFFICES ASSUME d \in T!Below(p) PROVE d = p
    OBVIOUS
  <2>2. Len(p) <= Len(d) /\ SubSeq(d, 1, Len(p)) = p
    BY <2>1, Zenon DEF T!Below
  <2>3. d \in Seq(Rn) /\ p \in Seq(Rn)
    BY StoreAssumptions
  <2>4. Len(p) = Len(d)
    BY <2>2, <2>3
  <2>5. QED
    BY <2>2, <2>3, <2>4
<1>3. T!Register(st.kids, d)[p] = st.kids[p]
  BY <1>2 DEF T!Register
<1>4. QED
  BY <1>3 DEF T!UpsertOne, T!AddOne

(* What a reaction may do to a store: nothing goes, and nothing changes    *)
(* but below topology.                                                     *)
Grown(st, new) ==
  /\ Sound(new)
  /\ \A x \in Dn : /\ st.mo[x] # NoMO => new.mo[x] # NoMO
                   /\ x[1] # "topology" => new.mo[x] = st.mo[x]

LEMMA GrownTransitive ==
  ASSUME NEW a, NEW b, NEW c, Grown(a, b), Grown(b, c)
  PROVE  Grown(a, c)
BY DEF Grown

LEMMA UpsertGrows ==
  ASSUME NEW st, Sound(st), NEW d \in Dn, d[1] = "topology", NEW m \in T!MO
  PROVE  Grown(st, T!UpsertOne(st, d, m)) /\ T!UpsertOne(st, d, m).mo[d] # NoMO
<1>. DEFINE new == T!UpsertOne(st, d, m)
<1>1. Sound(new) /\ new.mo = [x \in Dn |-> IF x = d THEN Merged(st.mo[d], m) ELSE st.mo[x]]
  BY UpsertFacts
<1>. HIDE DEF new
<1>2. st.mo \in [Dn -> T!MO \cup {NoMO}]
  BY DEF Sound, T!Store
<1>3. Merged(st.mo[d], m) \in T!MO
  BY <1>2 DEF Merged, T!MO
<1>4. Merged(st.mo[d], m) # NoMO
  BY <1>3, StoreAssumption
<1>5. QED
  BY <1>1, <1>4 DEF Grown, new

LEMMA RegisterNodeFacts ==
  ASSUME NEW st, Sound(st), NEW r \in Outcome, IsNode(r)
  PROVE  /\ Grown(st, RegisterNode(st, r))
         /\ RegisterNode(st, r).mo[NodeDn[RnOf(r.dn)]] # NoMO
<1>. DEFINE d    == NodeDn[RnOf(r.dn)]
            name == IF r.val = Unset THEN LeafName ELSE r.val
            m    == [class |-> "fabricNode", val |-> name]
            sys  == [class |-> "topSystem", val |-> name]
            row  == T!UpsertOne(st, d, m)
            new  == T!UpsertOne(row, Append(d, "sys"), sys)
<1>1. /\ d \in Dn /\ d[1] = "topology" /\ Append(d, "sys") \in Dn
      /\ {"fabricNode", "topSystem"} \subseteq Class
  BY ReactionAssumption DEF IsNode
<1>2. m \in T!MO /\ sys \in T!MO
  BY <1>1, ValueAssumption DEF Outcome, T!MO
<1>3. Append(d, "sys")[1] = "topology"
  <2>1. d \in Seq(Rn) /\ d # <<>>
    BY <1>1, StoreAssumption
  <2>2. QED
    BY <1>1, <2>1
<1>4. RegisterNode(st, r) = new
  BY DEF RegisterNode
<1>. HIDE DEF d, m, sys
<1>5. Grown(st, row) /\ row.mo[d] # NoMO
  BY <1>1, <1>2, UpsertGrows
<1>. HIDE DEF row
<1>6. Grown(row, new)
  BY <1>1, <1>2, <1>3, <1>5, UpsertGrows DEF Grown
<1>. HIDE DEF new
<1>7. Grown(st, new) /\ new.mo[d] # NoMO
  BY <1>1, <1>5, <1>6, GrownTransitive DEF Grown
<1>8. QED
  BY <1>4, <1>7 DEF d

(* What RegisterNodes has done after n results, for every n                *)
IsRegistration(f, st, results) ==
  /\ f[0] = st
  /\ \A i \in 1..Len(results) : f[i] = IF IsNode(results[i]) THEN RegisterNode(f[i - 1], results[i])
                                       ELSE f[i - 1]
  /\ RegisterNodes(st, results) = f[Len(results)]

LEMMA RegistrationLoop ==
  ASSUME NEW st, Sound(st), NEW results \in Seq(Outcome)
  PROVE  \E f : IsRegistration(f, st, results)
<1>. DEFINE n == Len(results)
            D == {s \in T!Store : Sound(s)}
            Turn(s, i) == IF IsNode(results[i]) THEN RegisterNode(s, results[i]) ELSE s
            step == [x \in D \X (1..n) |-> Turn(x[1], x[2])]
            F(f) == [i \in 0..Len(results) |->
                       IF i = 0 THEN st
                       ELSE IF IsNode(results[i]) THEN RegisterNode(f[i - 1], results[i])
                       ELSE f[i - 1]]
            upto == CHOOSE f : f = F(f)
<1>1. n \in Nat /\ \A i \in 1..n : results[i] \in Outcome
  OBVIOUS
<1>2. st \in D
  BY DEF Sound
<1>3. RegisterNodes(st, results) = upto[n]
  BY DEF RegisterNodes
<1>4. ASSUME NEW s \in D, NEW i \in 1..n
      PROVE  Turn(s, i) \in D
  <2>1. Sound(s) /\ results[i] \in Outcome
    BY <1>1
  <2>2. IsNode(results[i]) => Sound(RegisterNode(s, results[i]))
    BY <2>1, RegisterNodeFacts DEF Grown
  <2>3. QED
    BY <2>2 DEF Sound
<1>. HIDE DEF upto, D, n, Turn
<1>5. step \in [D \X (1..n) -> D]
  <2>1. ASSUME NEW x \in D \X (1..n)
        PROVE  Turn(x[1], x[2]) \in D
    BY <1>4
  <2>2. QED
    BY <2>1
<1>. HIDE DEF step
<1>6. PICK f : IsLoop(f, D, st, n, step)
  BY <1>1, <1>2, <1>5, LoopExists
<1>7. ASSUME NEW i \in 1..n
      PROVE  f[i] = Turn(f[i - 1], i)
  <2>1. <<f[i - 1], i>> \in D \X (1..n) /\ f[i] = step[<<f[i - 1], i>>]
    BY <1>1, <1>6 DEF IsLoop
  <2>2. QED
    BY <2>1 DEF step
<1>8. f = F(f)
  <2>1. \A i \in 0..n : f[i] = IF i = 0 THEN st ELSE Turn(f[i - 1], i)
    BY <1>1, <1>6, <1>7 DEF IsLoop
  <2>2. f = [i \in 0..n |-> IF i = 0 THEN st ELSE Turn(f[i - 1], i)]
    BY <1>6, <2>1 DEF IsLoop
  <2>3. QED
    BY <2>2 DEF Turn, n
<1>9. upto = F(upto)
  <2>. HIDE DEF F
  <2>1. \E g : g = F(g)
    BY <1>8
  <2>2. QED
    BY <2>1 DEF upto
<1>10. upto[0] = st /\ \A i \in 1..n : upto[i] = Turn(upto[i - 1], i)
  <2>1. upto = [i \in 0..n |-> IF i = 0 THEN st ELSE Turn(upto[i - 1], i)]
    BY <1>9 DEF Turn, n
  <2>2. \A i \in 0..n : upto[i] = IF i = 0 THEN st ELSE Turn(upto[i - 1], i)
    BY <2>1
  <2>3. QED
    BY <1>1, <2>2
<1>11. IsRegistration(upto, st, results)
  BY <1>3, <1>10 DEF IsRegistration, Turn, n
<1>12. QED
  BY <1>11

LEMMA RegisterNodesFacts ==
  ASSUME NEW st, Sound(st), NEW results \in Seq(Outcome)
  PROVE  /\ Grown(st, RegisterNodes(st, results))
         /\ \A k \in 1..Len(results) : IsNode(results[k]) =>
              RegisterNodes(st, results).mo[NodeDn[RnOf(results[k].dn)]] # NoMO
<1>1. PICK f : IsRegistration(f, st, results)
  BY RegistrationLoop
<1>. DEFINE n == Len(results)
            Done(i, k) == IsNode(results[k]) => f[i].mo[NodeDn[RnOf(results[k].dn)]] # NoMO
            S == {i \in 0..n : Grown(st, f[i]) /\ \A k \in 1..i : Done(i, k)}
<1>2. n \in Nat /\ \A i \in 1..n : results[i] \in Outcome
  OBVIOUS
<1>3. 0 \in S
  BY <1>1, <1>2 DEF IsRegistration, Grown
<1>4. ASSUME NEW i \in 0..(n - 1), i \in S
      PROVE  i + 1 \in S
  <2>. DEFINE j == i + 1
  <2>1. j \in 1..n /\ j - 1 = i /\ j \in 0..n /\ \A k \in 1..j : k = j \/ k \in 1..i
    BY <1>2
  <2>. HIDE DEF j
  <2>2. f[j] = IF IsNode(results[j]) THEN RegisterNode(f[i], results[j]) ELSE f[i]
    BY <1>1, <2>1 DEF IsRegistration
  <2>3. Sound(f[i]) /\ results[j] \in Outcome
    BY <1>2, <1>4, <2>1 DEF Grown
  <2>4. Grown(f[i], f[j]) /\ Done(j, j)
    <3>1. CASE IsNode(results[j])
      BY <2>2, <2>3, <3>1, RegisterNodeFacts
    <3>2. CASE ~ IsNode(results[j])
      BY <2>2, <2>3, <3>2 DEF Grown
    <3>3. QED
      BY <3>1, <3>2
  <2>5. Grown(st, f[j])
    BY <1>4, <2>4, GrownTransitive
  <2>6. ASSUME NEW k \in 1..i PROVE Done(j, k)
    <3>1. Done(i, k) /\ results[k] \in Outcome
      BY <1>2, <1>4
    <3>2. IsNode(results[k]) => NodeDn[RnOf(results[k].dn)] \in Dn
      BY ReactionAssumption DEF IsNode
    <3>3. QED
      BY <2>4, <3>1, <3>2 DEF Grown
  <2>7. QED
    BY <2>1, <2>4, <2>5, <2>6 DEF j
<1>. HIDE DEF S
<1>5. 0..n \subseteq S
  BY <1>2, <1>3, <1>4, BoundedInduction
<1>6. n \in S
  BY <1>2, <1>5
<1>7. QED
  BY <1>1, <1>6 DEF S, IsRegistration
-----------------------------------------------------------------------------
(* The sessions of the peers                                               *)

(* What VrfOf reads: the children of an L3Out.                             *)
SameOuts(st, new) ==
  /\ \A x \in Dn : Len(x) = 4 => new.mo[x] = st.mo[x]
  /\ \A p \in Dn : Len(p) = 3 => new.kids[p] = st.kids[p]

LEMMA OutOf ==
  ASSUME NEW d \in Dn, Len(d) >= 4
  PROVE  SubSeq(d, 1, 3) \in Dn /\ Len(SubSeq(d, 1, 3)) = 3
<1>1. d \in Seq(Rn)
  BY StoreAssumption
<1>2. 3 \in 1..Len(d)
  BY <1>1
<1>3. SubSeq(d, 1, 3) \in Dn
  BY <1>2, StoreAssumption
<1>4. QED
  BY <1>1, <1>3

LEMMA KidsFacts ==
  ASSUME NEW st, Sound(st), NEW p \in Dn
  PROVE  /\ st.kids[p] \in Seq(Dn)
         /\ \A i \in 1..Len(st.kids[p]) : Len(st.kids[p][i]) = Len(p) + 1
<1>1. st.kids[p] \in Seq(Dn)
  BY DEF Sound, T!Store
<1>2. ASSUME NEW i \in 1..Len(st.kids[p])
      PROVE  Len(st.kids[p][i]) = Len(p) + 1
  <2>. DEFINE c == st.kids[p][i]
  <2>1. c \in Dn
    BY <1>1
  <2>2. M!parent_dn(c) = p /\ ~ M!IsTop(c)
    BY DEF Sound, M!Inv, M!LinksOK
  <2>. HIDE DEF c
  <2>3. SubSeq(c, 1, Len(c) - 1) = p /\ ~ (Len(c) <= 1)
    BY <2>2 DEF M!parent_dn, M!IsTop
  <2>4. c \in Seq(Rn)
    BY <2>1, StoreAssumption
  <2>5. Len(c) = Len(p) + 1
    BY <2>3, <2>4
  <2>6. QED
    BY <2>5 DEF c
<1>3. QED
  BY <1>1, <1>2

LEMMA VrfSame ==
  ASSUME NEW st, Sound(st), NEW new, SameOuts(st, new), NEW d \in Dn, Len(d) >= 4
  PROVE  VrfOf(new, d) = VrfOf(st, d)
<1>. DEFINE kids == st.kids[SubSeq(d, 1, 3)]
            Named(s) == {i \in 1..Len(kids) : /\ kids[i] \in T!Present(s)
                                              /\ s.mo[kids[i]].class = "l3extRsEctx"
                                              /\ s.mo[kids[i]].val \notin {Unset, Blank}}
<1>1. SubSeq(d, 1, 3) \in Dn /\ Len(SubSeq(d, 1, 3)) = 3
  BY OutOf
<1>2. new.kids[SubSeq(d, 1, 3)] = kids
  BY <1>1 DEF SameOuts
<1>3. kids \in Seq(Dn) /\ \A i \in 1..Len(kids) : Len(kids[i]) = 4
  <2>. DEFINE out == SubSeq(d, 1, 3)
  <2>1. out \in Dn /\ Len(out) = 3
    BY <1>1
  <2>. HIDE DEF out
  <2>2. /\ st.kids[out] \in Seq(Dn)
        /\ \A i \in 1..Len(st.kids[out]) : Len(st.kids[out][i]) = Len(out) + 1
    BY <2>1, KidsFacts, Zenon
  <2>3. Len(out) + 1 = 4
    BY <2>1
  <2>4. QED
    BY <2>2, <2>3 DEF out
<1>4. /\ VrfOf(st, d) = IF Named(st) = {} THEN Blank ELSE st.mo[kids[Min(Named(st))]].val
      /\ VrfOf(new, d) = IF Named(new) = {} THEN Blank ELSE new.mo[kids[Min(Named(new))]].val
  BY <1>2 DEF VrfOf
<1>. HIDE DEF kids
<1>5. \A i \in 1..Len(kids) : kids[i] \in Dn /\ new.mo[kids[i]] = st.mo[kids[i]]
  BY <1>3 DEF SameOuts
<1>6. \A i \in 1..Len(kids) : kids[i] \in T!Present(new) <=> kids[i] \in T!Present(st)
  BY <1>5 DEF T!Present
<1>7. Named(new) = Named(st)
  BY <1>5, <1>6
<1>8. Named(st) # {} => Min(Named(st)) \in 1..Len(kids)
  <2>1. Named(st) \in SUBSET Nat /\ Named(st) \subseteq 1..Len(kids)
    OBVIOUS
  <2>. HIDE DEF Named
  <2>2. QED
    BY <2>1, LeastPlace
<1>. HIDE DEF Named
<1>9. QED
  BY <1>4, <1>5, <1>7, <1>8

LEMMA VrfType ==
  ASSUME NEW st, Sound(st), NEW d \in Dn, Len(d) >= 4
  PROVE  VrfOf(st, d) \in Val
<1>. DEFINE kids == st.kids[SubSeq(d, 1, 3)]
            named == {i \in 1..Len(kids) : /\ kids[i] \in T!Present(st)
                                           /\ st.mo[kids[i]].class = "l3extRsEctx"
                                           /\ st.mo[kids[i]].val \notin {Unset, Blank}}
<1>1. SubSeq(d, 1, 3) \in Dn
  BY OutOf
<1>2. kids \in Seq(Dn)
  BY <1>1, KidsFacts
<1>3. VrfOf(st, d) = IF named = {} THEN Blank ELSE st.mo[kids[Min(named)]].val
  BY DEF VrfOf
<1>. HIDE DEF kids
<1>4. ASSUME NEW i \in named
      PROVE  st.mo[kids[i]].val \in Val
  <2>1. kids[i] \in Dn /\ st.mo[kids[i]] # NoMO /\ st.mo[kids[i]].val # Unset
    BY <1>2 DEF T!Present
  <2>2. st.mo[kids[i]] \in T!MO
    BY <2>1 DEF Sound, T!Store
  <2>3. QED
    BY <2>1, <2>2 DEF T!MO
<1>5. named # {} => Min(named) \in named
  <2>1. named \in SUBSET Nat
    OBVIOUS
  <2>. HIDE DEF named
  <2>2. QED
    BY <2>1, LeastPlace
<1>. HIDE DEF named
<1>6. QED
  BY <1>3, <1>4, <1>5, ValueAssumption

LEMMA AsnType ==
  ASSUME NEW results \in Seq(Outcome), NEW d \in Dn
  PROVE  AsnIn(results, d) \in Val
<1>. DEFINE below == {k \in 1..Len(results) : /\ results[k].cls = "bgpAsP"
                                              /\ results[k].dn \in T!Below(d) \ {d}}
<1>1. AsnIn(results, d) = IF below = {} \/ results[Min(below)].val = Unset THEN Blank
                          ELSE results[Min(below)].val
  BY DEF AsnIn
<1>2. below # {} => Min(below) \in 1..Len(results)
  <2>1. below \in SUBSET Nat /\ below \subseteq 1..Len(results)
    OBVIOUS
  <2>. HIDE DEF below
  <2>2. QED
    BY <2>1, LeastPlace
<1>. HIDE DEF below
<1>3. \A k \in 1..Len(results) : results[k].val \in Val \cup {Unset}
  <2>1. \A k \in 1..Len(results) : results[k] \in Outcome
    OBVIOUS
  <2>2. QED
    BY <2>1 DEF Outcome
<1>4. QED
  BY <1>1, <1>2, <1>3, ValueAssumption

(* A peer whose session MOs are in play.                                   *)
PeerOK(d) ==
  /\ {"bgpInst", "bgpDom", "bgpPeer"} \subseteq Class
  /\ \A v \in Val \ {Blank} : SessionDn(d, v) \in Dn

(* One upsert of a session MO.                                             *)
LEMMA SessionUpsert ==
  ASSUME NEW st, Sound(st), NEW d \in Dn, d[1] = "topology", Len(d) <= 3, NEW m \in T!MO
  PROVE  LET new == T!UpsertOne(st, d, m)
         IN  Grown(st, new) /\ SameOuts(st, new) /\ new.mo[d] # NoMO
<1>. DEFINE new == T!UpsertOne(st, d, m)
<1>1. Grown(st, new) /\ new.mo[d] # NoMO
  BY UpsertGrows
<1>2. new.mo = [x \in Dn |-> IF x = d THEN Merged(st.mo[d], m) ELSE st.mo[x]]
  BY UpsertFacts
<1>3. Len(d) \in Nat
  BY StoreAssumption
<1>4. ASSUME NEW p \in Dn, Len(p) = 3
      PROVE  new.kids[p] = st.kids[p]
  BY <1>3, <1>4, UpsertKids
<1>. HIDE DEF new
<1>5. \A x \in Dn : Len(x) = 4 => x # d
  BY <1>3
<1>6. \A x \in Dn : Len(x) = 4 => new.mo[x] = st.mo[x]
  BY <1>2, <1>5
<1>7. QED
  BY <1>1, <1>4, <1>6 DEF SameOuts, new

LEMMA SameOutsTransitive ==
  ASSUME NEW a, NEW b, NEW c, SameOuts(a, b), SameOuts(b, c)
  PROVE  SameOuts(a, c)
BY DEF SameOuts

LEMMA RegisterSessionFacts ==
  ASSUME NEW st, Sound(st), NEW d \in Dn, PeerOK(d), NEW asn \in Val
  PROVE  LET new == RegisterSession(st, d, asn)
         IN  /\ Grown(st, new) /\ SameOuts(st, new)
             /\ Len(d) >= 4 /\ VrfOf(st, d) # Blank => new.mo[SessionDn(d, VrfOf(st, d))] # NoMO
<1>. DEFINE vrf  == VrfOf(st, d)
            s    == SessionDn(d, vrf)
            inst == T!UpsertOne(st, SubSeq(s, 1, 1), [class |-> "bgpInst", val |-> Unset])
            dom  == T!UpsertOne(inst, SubSeq(s, 1, 2), [class |-> "bgpDom", val |-> vrf])
            new  == T!UpsertOne(dom, s, [class |-> "bgpPeer", val |-> asn])
<1>1. Len(d) \in Nat
  BY StoreAssumption
<1>2. CASE Len(d) < 4 \/ vrf = Blank
  <2>1. RegisterSession(st, d, asn) = st
    BY <1>2 DEF RegisterSession
  <2>2. QED
    BY <1>1, <1>2, <2>1 DEF Grown, SameOuts
<1>3. CASE ~ (Len(d) < 4 \/ vrf = Blank)
  <2>1. vrf \in Val \ {Blank} /\ s \in Dn
    BY <1>1, <1>3, VrfType DEF PeerOK
  <2>2. RegisterSession(st, d, asn) = new
    BY <1>3 DEF RegisterSession
  <2>3. s = <<"topology", vrf, RnOf(d)>>
    BY DEF SessionDn
  <2>. HIDE DEF vrf, s
  <2>4. s \in Seq(Rn) /\ Len(s) = 3 /\ s[1] = "topology"
    BY <2>1, <2>3, StoreAssumption
  <2>5. /\ SubSeq(s, 1, 1) \in Dn /\ Len(SubSeq(s, 1, 1)) <= 3 /\ SubSeq(s, 1, 1)[1] = "topology"
        /\ SubSeq(s, 1, 2) \in Dn /\ Len(SubSeq(s, 1, 2)) <= 3 /\ SubSeq(s, 1, 2)[1] = "topology"
    <3>1. 1 \in 1..Len(s) /\ 2 \in 1..Len(s)
      BY <2>4
    <3>2. SubSeq(s, 1, 1) \in Dn /\ SubSeq(s, 1, 2) \in Dn
      BY <2>1, <3>1, StoreAssumption
    <3>3. QED
      BY <2>4, <3>2
  <2>6. /\ [class |-> "bgpInst", val |-> Unset] \in T!MO
        /\ [class |-> "bgpDom", val |-> vrf] \in T!MO
        /\ [class |-> "bgpPeer", val |-> asn] \in T!MO
    BY <2>1 DEF PeerOK, T!MO
  <2>7. Grown(st, inst) /\ SameOuts(st, inst)
    BY <2>5, <2>6, SessionUpsert
  <2>. HIDE DEF inst
  <2>8. Grown(inst, dom) /\ SameOuts(inst, dom)
    BY <2>5, <2>6, <2>7, SessionUpsert DEF Grown
  <2>. HIDE DEF dom
  <2>9. Grown(dom, new) /\ SameOuts(dom, new) /\ new.mo[s] # NoMO
    <3>. DEFINE m == [class |-> "bgpPeer", val |-> asn]
    <3>1. Sound(dom) /\ Len(s) <= 3 /\ m \in T!MO
      BY <2>4, <2>6, <2>8 DEF Grown
    <3>. HIDE DEF m
    <3>2. LET x == T!UpsertOne(dom, s, m)
          IN  Grown(dom, x) /\ SameOuts(dom, x) /\ x.mo[s] # NoMO
      BY <2>1, <2>4, <3>1, SessionUpsert
    <3>3. QED
      BY <3>2 DEF m
  <2>. HIDE DEF new
  <2>10. Grown(st, new) /\ SameOuts(st, new)
    BY <2>7, <2>8, <2>9, GrownTransitive, SameOutsTransitive
  <2>11. QED
    BY <2>2, <2>9, <2>10 DEF s, vrf
<1>4. QED
  BY <1>2, <1>3
PeersOK(results) == \A k \in 1..Len(results) : IsPeer(results[k]) => PeerOK(results[k].dn)

(* One turn of the second loop of apply                                    *)
PeerTurn(s, results, i) ==
  IF IsPeer(results[i]) THEN RegisterSession(s, results[i].dn, AsnIn(results, results[i].dn)) ELSE s

LEMMA PeerTurnFacts ==
  ASSUME NEW st, Sound(st), NEW results \in Seq(Outcome), PeersOK(results), NEW i \in 1..Len(results)
  PROVE  LET new == PeerTurn(st, results, i)
             d   == results[i].dn
         IN  /\ Grown(st, new) /\ SameOuts(st, new)
             /\ IsPeer(results[i]) /\ Len(d) >= 4 /\ VrfOf(st, d) # Blank
                  => new.mo[SessionDn(d, VrfOf(st, d))] # NoMO
<1>. DEFINE d   == results[i].dn
            asn == AsnIn(results, d)
<1>1. d \in Dn
  <2>1. results[i] \in Outcome
    OBVIOUS
  <2>2. QED
    BY <2>1 DEF Outcome
<1>2. asn \in Val
  BY <1>1, AsnType
<1>3. PeerTurn(st, results, i) = IF IsPeer(results[i]) THEN RegisterSession(st, d, asn) ELSE st
  BY DEF PeerTurn
<1>4. IsPeer(results[i]) => PeerOK(d)
  BY DEF PeersOK
<1>. HIDE DEF d, asn
<1>5. CASE IsPeer(results[i])
  <2>. DEFINE new == RegisterSession(st, d, asn)
  <2>1. /\ Grown(st, new) /\ SameOuts(st, new)
        /\ Len(d) >= 4 /\ VrfOf(st, d) # Blank => new.mo[SessionDn(d, VrfOf(st, d))] # NoMO
    BY <1>1, <1>2, <1>4, <1>5, RegisterSessionFacts, Zenon
  <2>. HIDE DEF new
  <2>2. PeerTurn(st, results, i) = new
    BY <1>3, <1>5 DEF new
  <2>3. QED
    BY <2>1, <2>2 DEF d
<1>6. CASE ~ IsPeer(results[i])
  BY <1>3, <1>6 DEF Grown, SameOuts
<1>7. QED
  BY <1>5, <1>6

IsPeering(f, st, results) ==
  /\ f[0] = st
  /\ \A i \in 1..Len(results) : f[i] = PeerTurn(f[i - 1], results, i)
  /\ RegisterPeers(st, results) = f[Len(results)]

LEMMA PeeringLoop ==
  ASSUME NEW st, Sound(st), NEW results \in Seq(Outcome), PeersOK(results)
  PROVE  \E f : IsPeering(f, st, results)
<1>. DEFINE n == Len(results)
            D == {s \in T!Store : Sound(s)}
            step == [x \in D \X (1..n) |-> PeerTurn(x[1], results, x[2])]
            F(f) == [i \in 0..Len(results) |->
                       IF i = 0 THEN st
                       ELSE IF IsPeer(results[i])
                         THEN RegisterSession(f[i - 1], results[i].dn, AsnIn(results, results[i].dn))
                       ELSE f[i - 1]]
            upto == CHOOSE f : f = F(f)
<1>1. n \in Nat
  OBVIOUS
<1>2. st \in D
  BY DEF Sound
<1>3. RegisterPeers(st, results) = upto[n]
  BY DEF RegisterPeers
<1>4. ASSUME NEW s \in D, NEW i \in 1..n
      PROVE  PeerTurn(s, results, i) \in D
  BY PeerTurnFacts DEF Grown, Sound
<1>. HIDE DEF upto, D, n
<1>5. step \in [D \X (1..n) -> D]
  <2>1. ASSUME NEW x \in D \X (1..n)
        PROVE  PeerTurn(x[1], results, x[2]) \in D
    BY <1>4
  <2>2. QED
    BY <2>1
<1>. HIDE DEF step
<1>6. PICK f : IsLoop(f, D, st, n, step)
  BY <1>1, <1>2, <1>5, LoopExists
<1>7. ASSUME NEW i \in 1..n
      PROVE  f[i] = PeerTurn(f[i - 1], results, i)
  <2>1. <<f[i - 1], i>> \in D \X (1..n) /\ f[i] = step[<<f[i - 1], i>>]
    BY <1>1, <1>6 DEF IsLoop
  <2>2. QED
    BY <2>1 DEF step
<1>8. f = F(f)
  <2>1. \A i \in 0..n : f[i] = IF i = 0 THEN st ELSE PeerTurn(f[i - 1], results, i)
    BY <1>1, <1>6, <1>7 DEF IsLoop
  <2>2. f = [i \in 0..n |-> IF i = 0 THEN st ELSE PeerTurn(f[i - 1], results, i)]
    BY <1>6, <2>1 DEF IsLoop
  <2>3. QED
    BY <2>2 DEF PeerTurn, n
<1>9. upto = F(upto)
  <2>. HIDE DEF F
  <2>1. \E g : g = F(g)
    BY <1>8
  <2>2. QED
    BY <2>1 DEF upto
<1>10. upto[0] = st /\ \A i \in 1..n : upto[i] = PeerTurn(upto[i - 1], results, i)
  <2>1. upto = [i \in 0..n |-> IF i = 0 THEN st ELSE PeerTurn(upto[i - 1], results, i)]
    BY <1>9 DEF PeerTurn, n
  <2>2. \A i \in 0..n : upto[i] = IF i = 0 THEN st ELSE PeerTurn(upto[i - 1], results, i)
    BY <2>1
  <2>3. QED
    BY <1>1, <2>2
<1>11. IsPeering(upto, st, results)
  BY <1>3, <1>10 DEF IsPeering, n
<1>12. QED
  BY <1>11

LEMMA RegisterPeersFacts ==
  ASSUME NEW st, Sound(st), NEW results \in Seq(Outcome), PeersOK(results)
  PROVE  LET new == RegisterPeers(st, results)
         IN  /\ Grown(st, new) /\ SameOuts(st, new)
             /\ \A k \in 1..Len(results) :
                  LET d == results[k].dn
                  IN  IsPeer(results[k]) /\ Len(d) >= 4 /\ VrfOf(new, d) # Blank
                        => new.mo[SessionDn(d, VrfOf(new, d))] # NoMO
<1>1. PICK f : IsPeering(f, st, results)
  BY PeeringLoop
<1>. DEFINE n == Len(results)
            dn(k) == results[k].dn
            Due(k) == IsPeer(results[k]) /\ Len(dn(k)) >= 4 /\ VrfOf(st, dn(k)) # Blank
            Done(i, k) == Due(k) => f[i].mo[SessionDn(dn(k), VrfOf(st, dn(k)))] # NoMO
            S == {i \in 0..n : Grown(st, f[i]) /\ SameOuts(st, f[i]) /\ \A k \in 1..i : Done(i, k)}
<1>2. n \in Nat /\ \A i \in 1..n : results[i] \in Outcome
  OBVIOUS
<1>3. ASSUME NEW k \in 1..n
      PROVE  dn(k) \in Dn
  BY <1>2 DEF Outcome
<1>4. 0 \in S
  BY <1>1, <1>2 DEF IsPeering, Grown, SameOuts
<1>. HIDE DEF dn
<1>5. ASSUME NEW i \in 0..(n - 1), i \in S
      PROVE  i + 1 \in S
  <2>. DEFINE j == i + 1
  <2>1. j \in 1..n /\ j - 1 = i /\ j \in 0..n /\ \A k \in 1..j : k = j \/ k \in 1..i
    BY <1>2
  <2>. HIDE DEF j
  <2>2. f[j] = PeerTurn(f[i], results, j)
    BY <1>1, <2>1 DEF IsPeering
  <2>3. Sound(f[i]) /\ Grown(st, f[i]) /\ SameOuts(st, f[i])
    BY <1>5 DEF Grown
  <2>4. /\ Grown(f[i], f[j]) /\ SameOuts(f[i], f[j])
        /\ IsPeer(results[j]) /\ Len(dn(j)) >= 4 /\ VrfOf(f[i], dn(j)) # Blank
             => f[j].mo[SessionDn(dn(j), VrfOf(f[i], dn(j)))] # NoMO
    BY <2>1, <2>2, <2>3, PeerTurnFacts DEF dn
  <2>5. Grown(st, f[j]) /\ SameOuts(st, f[j])
    BY <2>3, <2>4, GrownTransitive, SameOutsTransitive
  <2>6. Done(j, j)
    <3>1. Len(dn(j)) >= 4 => VrfOf(f[i], dn(j)) = VrfOf(st, dn(j))
      BY <1>3, <2>1, <2>3, VrfSame
    <3>2. QED
      BY <2>4, <3>1
  <2>7. ASSUME NEW k \in 1..i PROVE Done(j, k)
    <3>1. SUFFICES ASSUME Due(k) PROVE f[j].mo[SessionDn(dn(k), VrfOf(st, dn(k)))] # NoMO
      OBVIOUS
    <3>2. k \in 1..n /\ dn(k) \in Dn
      BY <1>2, <1>3
    <3>3. SessionDn(dn(k), VrfOf(st, dn(k))) \in Dn
      BY <3>1, <3>2, VrfType DEF PeersOK, PeerOK, dn
    <3>4. f[i].mo[SessionDn(dn(k), VrfOf(st, dn(k)))] # NoMO
      BY <1>5, <3>1
    <3>5. QED
      BY <2>4, <3>3, <3>4 DEF Grown
  <2>8. QED
    BY <2>1, <2>5, <2>6, <2>7 DEF j
<1>. HIDE DEF S
<1>6. 0..n \subseteq S
  BY <1>2, <1>4, <1>5, BoundedInduction
<1>7. n \in S
  BY <1>2, <1>6
<1>. DEFINE new == RegisterPeers(st, results)
<1>8. new = f[n]
  BY <1>1 DEF IsPeering
<1>. HIDE DEF new
<1>9. Grown(st, new) /\ SameOuts(st, new) /\ \A k \in 1..n : Done(n, k)
  BY <1>7, <1>8 DEF S
<1>10. ASSUME NEW k \in 1..n, IsPeer(results[k]), Len(dn(k)) >= 4, VrfOf(new, dn(k)) # Blank
       PROVE  new.mo[SessionDn(dn(k), VrfOf(new, dn(k)))] # NoMO
  <2>1. VrfOf(new, dn(k)) = VrfOf(st, dn(k))
    BY <1>3, <1>9, <1>10, VrfSame
  <2>2. QED
    BY <1>8, <1>9, <1>10, <2>1
<1>11. QED
  BY <1>9, <1>10 DEF new, dn

LEMMA ReactFacts ==
  ASSUME NEW st, Sound(st), NEW results \in Seq(Outcome), PeersOK(results)
  PROVE  LET new == React(st, results)
         IN  /\ Grown(st, new)
             /\ \A k \in 1..Len(results) :
                  LET d == results[k].dn
                  IN  /\ IsNode(results[k]) => new.mo[NodeDn[RnOf(d)]] # NoMO
                      /\ IsPeer(results[k]) /\ Len(d) >= 4 /\ VrfOf(new, d) # Blank
                           => new.mo[SessionDn(d, VrfOf(new, d))] # NoMO
<1>. DEFINE mid == RegisterNodes(st, results)
            new == RegisterPeers(mid, results)
<1>1. React(st, results) = new
  BY DEF React
<1>2. /\ Grown(st, mid)
      /\ \A k \in 1..Len(results) : IsNode(results[k]) => mid.mo[NodeDn[RnOf(results[k].dn)]] # NoMO
  BY RegisterNodesFacts
<1>. HIDE DEF mid
<1>3. Sound(mid)
  BY <1>2 DEF Grown
<1>4. /\ Grown(mid, new)
      /\ \A k \in 1..Len(results) :
           LET d == results[k].dn
           IN  IsPeer(results[k]) /\ Len(d) >= 4 /\ VrfOf(new, d) # Blank
                 => new.mo[SessionDn(d, VrfOf(new, d))] # NoMO
  BY <1>3, RegisterPeersFacts
<1>. HIDE DEF new
<1>5. Grown(st, new)
  BY <1>2, <1>4, GrownTransitive
<1>6. ASSUME NEW k \in 1..Len(results), IsNode(results[k])
      PROVE  new.mo[NodeDn[RnOf(results[k].dn)]] # NoMO
  <2>1. NodeDn[RnOf(results[k].dn)] \in Dn
    BY <1>6, ReactionAssumption DEF IsNode
  <2>2. QED
    BY <1>2, <1>4, <1>6, <2>1 DEF Grown
<1>7. QED
  BY <1>1, <1>4, <1>5, <1>6
-----------------------------------------------------------------------------
(* The store is sound after every request                                  *)

LEMMA PeersOfBody ==
  ASSUME NEW st, Sound(st), NEW b \in Body, ~ Commit(st, b).raised
  PROVE  PeersOK(Commit(st, b).results)
<1>. DEFINE results == Commit(st, b).results
<1>1. Matched(results, b, Len(b))
  BY CommitMatches
<1>. HIDE DEF results
<1>2. ASSUME NEW k \in 1..Len(results), IsPeer(results[k])
      PROVE  PeerOK(results[k].dn)
  <2>1. PICK i \in Planned(b) : Matches(results[k], b, i)
    BY <1>1 DEF Matched
  <2>2. i \in 1..Len(b) /\ b[i].cls = "bgpPeerP" /\ results[k].dn = DnOf(b)[i]
    BY <1>2, <2>1, NodeFacts DEF IsPeer, Matches
  <2>3. QED
    BY <2>2, ReactionAssumption DEF PeerOK
<1>3. QED
  BY <1>2 DEF PeersOK, results

(* What post does, in terms of the lemmas above.                           *)
LEMMA PostFacts ==
  ASSUME Sound(store), NEW b \in Body, NEW rsp, post(b, rsp)
  PROVE  LET done == Commit(store, b)
         IN  /\ Sound(done.st) /\ done.results \in Seq(Outcome) /\ ~ done.raised
             /\ Matched(done.results, b, Len(b)) /\ PeersOK(done.results)
             /\ store' = React(done.st, done.results) /\ Grown(done.st, store')
<1>. DEFINE done == Commit(store, b)
<1>1. ~ done.raised /\ store' = React(done.st, done.results)
  BY DEF post
<1>2. done \in Progress /\ Matched(done.results, b, Len(b)) /\ PeersOK(done.results)
  BY <1>1, CommitMatches, PeersOfBody
<1>. HIDE DEF done
<1>3. Sound(done.st) /\ done.results \in Seq(Outcome)
  BY <1>2 DEF Progress
<1>4. Grown(done.st, store')
  BY <1>1, <1>2, <1>3, ReactFacts
<1>5. QED
  BY <1>1, <1>2, <1>3, <1>4 DEF done

LEMMA NextSound ==
  ASSUME Sound(store), [Next]_vars
  PROVE  Sound(store')
<1>1. ASSUME NEW d \in Target, deleteMo(d)
      PROVE  Sound(store')
  <2>1. d \in Dn /\ store' = T!RemoveSubtree(store, d)
    BY <1>1, BodyAssumption DEF deleteMo
  <2>2. QED
    BY <2>1, RemoveFacts
<1>2. ASSUME NEW b \in Body, postRefused(b)
      PROVE  Sound(store')
  BY <1>2 DEF postRefused
<1>3. ASSUME NEW b \in Body, postRaised(b)
      PROVE  Sound(store')
  <2>1. store' = Commit(store, b).st
    BY <1>3 DEF postRaised
  <2>2. QED
    BY <2>1, CommitMatches DEF Progress
<1>4. ASSUME NEW b \in Body, NEW rsp, post(b, rsp)
      PROVE  Sound(store')
  BY <1>4, PostFacts DEF Grown
<1>5. CASE UNCHANGED vars
  BY <1>5 DEF vars
<1>6. QED
  BY <1>1, <1>2, <1>3, <1>4, <1>5 DEF Next

LEMMA AlwaysSound == Spec => []Sound(store)
<1>1. Init => Sound(store)
  BY EmptySound DEF Init
<1>2. Sound(store) /\ [Next]_vars => Sound(store)'
  BY NextSound
<1>3. QED
  BY <1>1, <1>2, PTL DEF Spec

-----------------------------------------------------------------------------
(* Deletions                                                               *)

(* A list without repetitions is as long as the set it lists.              *)
LEMMA OnceCounts ==
  ASSUME NEW S, NEW s \in Seq(S), M!Once(s)
  PROVE  Cardinality(ToSet(s)) = Len(s)
<1>. DEFINE n == Len(s)
            T0 == ToSet(s)
<1>1. n \in Nat /\ DOMAIN s = 1..n
  OBVIOUS
<1>2. s \in [1..n -> T0] /\ (\A i, j \in 1..n : s[i] = s[j] => i = j)
      /\ (\A x \in T0 : \E i \in 1..n : s[i] = x)
  BY <1>1 DEF M!Once, ToSet
<1>. HIDE DEF n, T0
<1>3. s \in Bijection(1..n, T0)
  BY <1>2 DEF Bijection, Injection, Surjection, IsInjective
<1>4. ExistsBijection(1..n, T0)
  BY <1>3 DEF ExistsBijection
<1>5. Cardinality(T0) = n
  BY <1>1, <1>4, FS_CountingElements
<1>6. QED
  BY <1>5 DEF n, T0

LEMMA GoneFacts ==
  ASSUME NEW st, Sound(st), NEW d \in Dn
  PROVE  LET gone == (IF d \in T!Present(st) THEN <<d>> ELSE <<>>) \o T!Subtree(st, d)
         IN  /\ gone \in Seq(Dn) /\ M!Once(gone)
             /\ ToSet(gone) = T!Present(st) \cap T!Below(d)
<1>. DEFINE own  == IF d \in T!Present(st) THEN <<d>> ELSE <<>>
            rest == T!Subtree(st, d)
<1>1. rest \in Seq(Dn) /\ M!Once(rest) /\ ToSet(rest) = T!Present(st) \cap (T!Below(d) \ {d})
  BY SubtreeFacts
<1>2. own \in Seq(Dn) /\ M!Once(own) /\ ToSet(own) = T!Present(st) \cap {d}
  BY DEF M!Once, ToSet
<1>3. d \in T!Below(d)
  BY StoreAssumption DEF T!Below
<1>. HIDE DEF own, rest
<1>4. ASSUME NEW s PROVE M!ToSet(s) = ToSet(s)
  BY DEF M!ToSet, ToSet
<1>5. M!ToSet(own) \cap M!ToSet(rest) = {}
  BY <1>1, <1>2, <1>4
<1>6. M!Once(own \o rest)
  BY <1>1, <1>2, <1>5, M!ConcatOnce, StoreAssumptions, Zenon
<1>7. M!ToSet(own \o rest) = M!ToSet(own) \cup M!ToSet(rest)
  <2>1. \A S : \A s, t \in Seq(S) : M!ToSet(s \o t) = M!ToSet(s) \cup M!ToSet(t)
    BY M!ConcatSet, StoreAssumptions, Zenon
  <2>2. QED
    BY <1>1, <1>2, <2>1
<1>8. ToSet(own \o rest) = T!Present(st) \cap T!Below(d)
  BY <1>1, <1>2, <1>3, <1>4, <1>7
<1>9. own \o rest \in Seq(Dn)
  BY <1>1, <1>2
<1>10. QED
  BY <1>6, <1>8, <1>9 DEF own, rest

(* A DELETE pushes every MO that disappears once, with its own class, also *)
(* below DNs that have no MO, and nothing else: delete_mo reads the        *)
(* subtree off the child lists before it removes it.                       *)
THEOREM DeletePushCorrect == Spec => DeletePushExact
<1>. DEFINE Exact ==
       last'.kind = "delete" =>
         /\ {<<last'.pushes[i].dn, last'.pushes[i].cls>> : i \in 1..Len(last'.pushes)}
              = {<<d, store.mo[d].class>> : d \in T!Present(store) \ T!Present(store')}
         /\ Len(last'.pushes) = Cardinality(T!Present(store) \ T!Present(store'))
<1>1. ASSUME Sound(store), NEW d \in Target, deleteMo(d)
      PROVE  Exact
  <2>. DEFINE gone == (IF d \in T!Present(store) THEN <<d>> ELSE <<>>) \o T!Subtree(store, d)
              lost == T!Present(store) \ T!Present(store')
  <2>1. d \in Dn
    BY BodyAssumption
  <2>2. gone \in Seq(Dn) /\ M!Once(gone) /\ ToSet(gone) = T!Present(store) \cap T!Below(d)
    BY <1>1, <2>1, GoneFacts
  <2>3. store'.mo = [x \in Dn |-> IF x \in T!Below(d) THEN NoMO ELSE store.mo[x]]
    BY <1>1, <2>1, RemoveFacts DEF deleteMo
  <2>4. lost = T!Present(store) \cap T!Below(d)
    BY <2>3 DEF T!Present
  <2>5. last'.pushes = [i \in 1..Len(gone) |-> [cls |-> store.mo[gone[i]].class,
                                                dn |-> gone[i], status |-> "deleted"]]
    BY <1>1 DEF deleteMo
  <2>. HIDE DEF gone, lost
  <2>6. Len(gone) \in Nat /\ DOMAIN gone = 1..Len(gone)
    BY <2>2
  <2>7. /\ Len(last'.pushes) = Len(gone)
        /\ \A i \in 1..Len(gone) : /\ last'.pushes[i].dn = gone[i]
                                   /\ last'.pushes[i].cls = store.mo[gone[i]].class
    BY <2>5, <2>6
  <2>8. \A x : x \in lost <=> \E i \in 1..Len(gone) : x = gone[i]
    BY <2>2, <2>4, <2>6 DEF ToSet
  <2>9. {<<last'.pushes[i].dn, last'.pushes[i].cls>> : i \in 1..Len(last'.pushes)}
          = {<<x, store.mo[x].class>> : x \in lost}
    BY <2>7, <2>8
  <2>10. Cardinality(lost) = Len(gone)
    BY <2>2, <2>4, OnceCounts
  <2>11. QED
    BY <2>7, <2>9, <2>10 DEF lost
<1>2. Sound(store) /\ [Next]_vars => [Exact]_vars
  <2>1. SUFFICES ASSUME Sound(store), Next PROVE Exact
    OBVIOUS
  <2>2. CASE \E d \in Target : deleteMo(d)
    BY <1>1, <2>1, <2>2
  <2>3. CASE \E b \in Body : \/ postRefused(b) \/ postRaised(b)
                             \/ \E rsp \in {"modified", "no"} : post(b, rsp)
    <3>1. last'.kind = "post"
      BY <2>3 DEF postRefused, postRaised, post
    <3>2. QED
      BY <3>1
  <2>4. QED
    BY <2>1, <2>2, <2>3 DEF Next
<1>3. QED
  BY <1>2, AlwaysSound, PTL DEF Spec, DeletePushExact
-----------------------------------------------------------------------------
(* Malformed bodies                                                        *)

(* A body with a malformed node anywhere - also one nested in a deleted    *)
(* node, which is never written - or with a bad value in a node that is    *)
(* not nested in a deleted one changes nothing and tells nobody of a       *)
(* change: _upsert_recursive validates the whole plan before it mutates.   *)
THEOREM MalformedCorrect == Spec => MalformedUntouched
<1>. DEFINE Bad(b) == \E i \in 1..Len(b) :
                        \/ b[i].flaw = "shape"
                        \/ b[i].flaw = "value" /\ \A j \in Around(b, i) : ~ b[j].deleted
<1>1. ASSUME NEW b \in Body, Bad(b)
      PROVE  ~ Accepted(b)
  <2>1. PICK i \in 1..Len(b) : \/ b[i].flaw = "shape"
                               \/ b[i].flaw = "value" /\ \A j \in Around(b, i) : ~ b[j].deleted
    BY <1>1
  <2>2. CASE b[i].flaw = "shape"
    BY <2>2 DEF Accepted
  <2>3. CASE b[i].flaw = "value" /\ \A j \in Around(b, i) : ~ b[j].deleted
    <3>1. i \in Planned(b)
      BY <2>3, PlannedUnlessNested
    <3>2. ~ b[i].deleted
      BY <2>3 DEF Around
    <3>3. QED
      BY <2>3, <3>1, <3>2 DEF Accepted
  <2>4. QED
    BY <2>1, <2>2, <2>3
<1>. HIDE DEF Bad
<1>2. ASSUME Next, last'.kind = "post", Bad(last'.body)
      PROVE  store' = store /\ last'.imdata = <<>> /\ last'.pushes = <<>>
  <2>1. CASE \E d \in Target : deleteMo(d)
    BY <1>2, <2>1 DEF deleteMo
  <2>2. ASSUME NEW b \in Body, \/ postRefused(b) \/ postRaised(b)
                               \/ \E rsp \in {"modified", "no"} : post(b, rsp)
        PROVE  store' = store /\ last'.imdata = <<>> /\ last'.pushes = <<>>
    <3>1. last'.body = b
      BY <2>2 DEF postRefused, postRaised, post
    <3>2. ~ Accepted(b)
      BY <1>1, <1>2, <3>1
    <3>3. postRefused(b)
      BY <2>2, <3>2 DEF postRaised, post
    <3>4. QED
      BY <3>3 DEF postRefused
  <2>3. QED
    BY <1>2, <2>1, <2>2 DEF Next
<1>3. [Next]_vars =>
        [Posted /\ (\E i \in 1..Len(last'.body) :
                      \/ last'.body[i].flaw = "shape"
                      \/ /\ last'.body[i].flaw = "value"
                         /\ \A j \in Around(last'.body, i) : ~ last'.body[j].deleted)
           => store' = store /\ last'.imdata = <<>> /\ last'.pushes = <<>>]_vars
  BY <1>2 DEF Posted, Bad
<1>4. QED
  BY <1>3, PTL DEF Spec, MalformedUntouched
-----------------------------------------------------------------------------
(* Reactions have happened                                                 *)

(* A registration or a peer found anywhere in the body has its operational *)
(* MOs when the call returns, whichever of its siblings come after it: the *)
(* two loops of apply run over the results of the whole commit.            *)
THEOREM ReactionsCorrect == Spec => ReactionsFire
<1>. DEFINE Fired(b, i) ==
       LET node == b[i]  d == DnOf(b)[i]
       IN  ~ node.deleted =>
             /\ node.cls = "fabricNodeIdentP" /\ RnOf(d) \in DOMAIN NodeDn =>
                  Get(store', NodeDn[RnOf(d)]) # NoMO
             /\ /\ node.cls = "bgpPeerP" /\ Len(d) >= 4 /\ node.val \notin {Unset, Blank}
                /\ VrfOf(store', d) # Blank
                => Get(store', SessionDn(d, VrfOf(store', d))) # NoMO
<1>1. ASSUME Sound(store), NEW b \in Body, NEW rsp, post(b, rsp), NEW i \in Planned(b)
      PROVE  Fired(b, i)
  <2>. DEFINE done    == Commit(store, b)
              results == done.results
              d       == DnOf(b)[i]
  <2>1. /\ Sound(done.st) /\ results \in Seq(Outcome)
        /\ Matched(results, b, Len(b)) /\ PeersOK(results)
        /\ store' = React(done.st, results) /\ Sound(store')
    BY <1>1, PostFacts DEF Grown
  <2>2. i <= Len(b) /\ d \in Dn
    BY NodeFacts
  <2>. HIDE DEF done
  <2>3. PICK k \in 1..Len(results) : Matches(results[k], b, i)
    BY <2>1, <2>2 DEF Matched
  <2>4. results[k].dn = d /\ results[k].cls = b[i].cls /\ results[k].val = b[i].val
        /\ results[k].deleted = b[i].deleted
    BY <2>3 DEF Matches
  <2>5. /\ IsNode(results[k]) => store'.mo[NodeDn[RnOf(d)]] # NoMO
        /\ IsPeer(results[k]) /\ Len(d) >= 4 /\ VrfOf(store', d) # Blank
             => store'.mo[SessionDn(d, VrfOf(store', d))] # NoMO
    BY <2>1, <2>4, ReactFacts
  <2>. HIDE DEF d, results
  <2>6. ASSUME ~ b[i].deleted, b[i].cls = "fabricNodeIdentP", RnOf(d) \in DOMAIN NodeDn
        PROVE  Get(store', NodeDn[RnOf(d)]) # NoMO
    <3>1. IsNode(results[k])
      BY <2>4, <2>6 DEF IsNode
    <3>2. NodeDn[RnOf(d)] \in Dn
      BY <2>6, ReactionAssumption
    <3>3. QED
      BY <2>5, <3>1, <3>2 DEF Get
  <2>7. ASSUME ~ b[i].deleted, b[i].cls = "bgpPeerP", Len(d) >= 4,
               b[i].val \notin {Unset, Blank}, VrfOf(store', d) # Blank
        PROVE  Get(store', SessionDn(d, VrfOf(store', d))) # NoMO
    <3>1. IsPeer(results[k])
      BY <2>4, <2>7 DEF IsPeer
    <3>2. PeerOK(d)
      BY <2>1, <2>4, <3>1 DEF PeersOK
    <3>3. VrfOf(store', d) \in Val \ {Blank}
      BY <2>1, <2>2, <2>7, VrfType
    <3>4. SessionDn(d, VrfOf(store', d)) \in Dn
      BY <3>2, <3>3 DEF PeerOK
    <3>5. QED
      BY <2>5, <2>7, <3>1, <3>4 DEF Get
  <2>8. QED
    BY <2>6, <2>7 DEF d
<1>. HIDE DEF Fired
<1>2. ASSUME Sound(store), Next, last'.kind = "post", last'.ok
      PROVE  \A i \in Planned(last'.body) : Fired(last'.body, i)
  <2>1. CASE \E d \in Target : deleteMo(d)
    <3>1. last'.kind = "delete"
      BY <2>1 DEF deleteMo
    <3>2. QED
      BY <1>2, <3>1
  <2>2. ASSUME NEW b \in Body, \/ postRefused(b) \/ postRaised(b)
                               \/ \E rsp \in {"modified", "no"} : post(b, rsp)
        PROVE  \A i \in Planned(last'.body) : Fired(last'.body, i)
    <3>1. PICK rsp \in {"modified", "no"} : post(b, rsp)
      BY <1>2, <2>2 DEF postRefused, postRaised
    <3>2. last'.body = b
      BY <3>1 DEF post
    <3>3. QED
      BY <1>1, <1>2, <3>1, <3>2
  <2>3. QED
    BY <1>2, <2>1, <2>2 DEF Next
<1>3. Sound(store) /\ [Next]_vars =>
        [Posted /\ last'.ok =>
           \A i \in Planned(last'.body) :
             LET node == last'.body[i]  d == DnOf(last'.body)[i]
             IN  ~ node.deleted =>
                   /\ node.cls = "fabricNodeIdentP" /\ RnOf(d) \in DOMAIN NodeDn =>
                        Get(store', NodeDn[RnOf(d)]) # NoMO
                   /\ /\ node.cls = "bgpPeerP" /\ Len(d) >= 4 /\ node.val \notin {Unset, Blank}
                      /\ VrfOf(store', d) # Blank
                      => Get(store', SessionDn(d, VrfOf(store', d))) # NoMO]_vars
  BY <1>2 DEF Posted, Fired
<1>4. QED
  BY <1>3, AlwaysSound, PTL DEF Spec, ReactionsFire
-----------------------------------------------------------------------------
(* The response                                                            *)

(* imdata lists the results that are not unchanged.                        *)
IsReport(u, results) ==
  /\ \A i \in 0..Len(results) : u[i] \in Seq(Outcome)
  /\ u[0] = <<>>
  /\ \A i \in 1..Len(results) : u[i] = IF results[i].status = "unchanged" THEN u[i - 1]
                                       ELSE Append(u[i - 1], results[i])
  /\ \A rsp : rsp # "no" => Reported(results, rsp) = u[Len(results)]

LEMMA ReportLoop ==
  ASSUME NEW results \in Seq(Outcome)
  PROVE  \E u : IsReport(u, results)
<1>. DEFINE n == Len(results)
            D == Seq(Outcome)
            Turn(s, i) == IF results[i].status = "unchanged" THEN s ELSE Append(s, results[i])
            step == [x \in D \X (1..n) |-> Turn(x[1], x[2])]
            F(f) == [i \in 0..Len(results) |->
                       IF i = 0 THEN <<>>
                       ELSE IF results[i].status = "unchanged" THEN f[i - 1]
                       ELSE Append(f[i - 1], results[i])]
            upto == CHOOSE f : f = F(f)
<1>1. n \in Nat /\ \A i \in 1..n : results[i] \in Outcome
  OBVIOUS
<1>2. <<>> \in D
  OBVIOUS
<1>3. \A rsp : rsp # "no" => Reported(results, rsp) = upto[n]
  BY DEF Reported
<1>4. ASSUME NEW s \in D, NEW i \in 1..n
      PROVE  Turn(s, i) \in D
  BY <1>1
<1>. HIDE DEF upto, D, n, Turn
<1>5. step \in [D \X (1..n) -> D]
  <2>1. ASSUME NEW x \in D \X (1..n)
        PROVE  Turn(x[1], x[2]) \in D
    BY <1>4
  <2>2. QED
    BY <2>1
<1>. HIDE DEF step
<1>6. PICK f : IsLoop(f, D, <<>>, n, step)
  BY <1>1, <1>2, <1>5, LoopExists
<1>7. ASSUME NEW i \in 1..n
      PROVE  f[i] = Turn(f[i - 1], i)
  <2>1. <<f[i - 1], i>> \in D \X (1..n) /\ f[i] = step[<<f[i - 1], i>>]
    BY <1>1, <1>6 DEF IsLoop
  <2>2. QED
    BY <2>1 DEF step
<1>8. f = F(f)
  <2>1. \A i \in 0..n : f[i] = IF i = 0 THEN <<>> ELSE Turn(f[i - 1], i)
    BY <1>1, <1>6, <1>7 DEF IsLoop
  <2>2. f = [i \in 0..n |-> IF i = 0 THEN <<>> ELSE Turn(f[i - 1], i)]
    BY <1>6, <2>1 DEF IsLoop
  <2>3. QED
    BY <2>2 DEF Turn, n
<1>9. upto = F(upto)
  <2>. HIDE DEF F
  <2>1. \E g : g = F(g)
    BY <1>8
  <2>2. QED
    BY <2>1 DEF upto
<1>10. upto[0] = <<>> /\ \A i \in 1..n : upto[i] = Turn(upto[i - 1], i)
  <2>1. upto = [i \in 0..n |-> IF i = 0 THEN <<>> ELSE Turn(upto[i - 1], i)]
    BY <1>9 DEF Turn, n
  <2>2. \A i \in 0..n : upto[i] = IF i = 0 THEN <<>> ELSE Turn(upto[i - 1], i)
    BY <2>1
  <2>3. QED
    BY <1>1, <2>2
<1>11. \A i \in 0..n : upto[i] \in D
  <2>1. ASSUME NEW i \in 0..(n - 1), upto[i] \in D
        PROVE  upto[i + 1] \in D
    <3>1. i + 1 \in 1..n /\ (i + 1) - 1 = i
      BY <1>1
    <3>2. upto[i + 1] = Turn(upto[(i + 1) - 1], i + 1)
      BY <1>10, <3>1
    <3>3. Turn(upto[i], i + 1) \in D
      BY <1>4, <2>1, <3>1
    <3>4. QED
      BY <3>1, <3>2, <3>3
  <2>2. upto[0] \in D
    BY <1>2, <1>10
  <2>3. QED
    BY <1>1, <2>1, <2>2, LoopInvariant
<1>12. IsReport(upto, results)
  BY <1>3, <1>10, <1>11 DEF IsReport, Turn, n, D
<1>13. QED
  BY <1>12

LEMMA ReportedFacts ==
  ASSUME NEW results \in Seq(Outcome), NEW rsp, rsp # "no"
  PROVE  \A e : e \in ToSet(Reported(results, rsp)) <=>
                  \E k \in 1..Len(results) : e = results[k] /\ results[k].status # "unchanged"
<1>1. PICK u : IsReport(u, results)
  BY ReportLoop
<1>. DEFINE n == Len(results)
            Listed(i, e) == \E k \in 1..i : e = results[k] /\ results[k].status # "unchanged"
            S == {i \in 0..n : \A e : e \in ToSet(u[i]) <=> Listed(i, e)}
<1>2. n \in Nat /\ \A i \in 1..n : results[i] \in Outcome
  OBVIOUS
<1>3. 0 \in S
  <2>1. ToSet(<<>>) = {}
    BY DEF ToSet
  <2>2. QED
    BY <1>1, <1>2, <2>1 DEF IsReport
<1>4. ASSUME NEW i \in 0..(n - 1), i \in S
      PROVE  i + 1 \in S
  <2>. DEFINE j == i + 1
  <2>1. j \in 1..n /\ j - 1 = i /\ j \in 0..n /\ i \in 0..n
    BY <1>2
  <2>2. \A k : k \in 1..j <=> k = j \/ k \in 1..i
    BY <1>2
  <2>. HIDE DEF j
  <2>3. /\ u[i] \in Seq(Outcome)
        /\ u[j] = IF results[j].status = "unchanged" THEN u[i] ELSE Append(u[i], results[j])
    BY <1>1, <2>1 DEF IsReport
  <2>4. ToSet(Append(u[i], results[j])) = ToSet(u[i]) \cup {results[j]}
    <3>. DEFINE s == u[i]
                e == results[j]
    <3>1. s \in Seq(Outcome) /\ e \in Outcome
      BY <1>2, <2>1, <2>3
    <3>. HIDE DEF s, e
    <3>2. /\ Append(s, e) \in Seq(Outcome) /\ Len(Append(s, e)) = Len(s) + 1
          /\ \A x \in 1..Len(s) : Append(s, e)[x] = s[x]
          /\ Append(s, e)[Len(s) + 1] = e
      BY <3>1, AppendFacts
    <3>3. DOMAIN Append(s, e) = 1..(Len(s) + 1) /\ DOMAIN s = 1..Len(s) /\ Len(s) \in Nat
      BY <3>1, <3>2
    <3>4. \A x : x \in 1..(Len(s) + 1) <=> x \in 1..Len(s) \/ x = Len(s) + 1
      BY <3>3
    <3>5. ToSet(Append(s, e)) = ToSet(s) \cup {e}
      BY <3>2, <3>3, <3>4 DEF ToSet
    <3>6. QED
      BY <3>5 DEF s, e
  <2>5. \A e : e \in ToSet(u[j]) <=> Listed(j, e)
    BY <1>4, <2>2, <2>3, <2>4
  <2>6. QED
    BY <2>1, <2>5 DEF j
<1>. HIDE DEF S
<1>5. 0..n \subseteq S
  BY <1>2, <1>3, <1>4, BoundedInduction
<1>6. n \in S
  BY <1>2, <1>5
<1>7. Reported(results, rsp) = u[n]
  BY <1>1 DEF IsReport
<1>8. QED
  BY <1>6, <1>7 DEF S

(* What the status says of the MO, before and after.                       *)
Truth(status, old, new) ==
  /\ status = "created"  => old = NoMO /\ new # NoMO
  /\ status = "modified" => old # new /\ old # NoMO /\ new # NoMO
  /\ status = "deleted"  => old # NoMO /\ new = NoMO

(* One write: its status is true of its own MO, and nothing else changes   *)
(* but below a DN that it deletes.                                         *)
LEMMA WriteTruth ==
  ASSUME NEW st, Sound(st), NEW d \in Dn, NEW node \in Node
  PROVE  LET new    == Write(st, d, node)
             status == Status(st, d, node)
         IN  /\ Truth(status, st.mo[d], new.mo[d])
             /\ \A x \in Dn : new.mo[x] # st.mo[x] =>
                  \/ ~ node.deleted /\ x = d /\ status # "unchanged"
                  \/ node.deleted /\ x \in T!Below(d)
<1>. DEFINE new == Write(st, d, node)
            old == st.mo[d]
            m   == Written(st, d, node)
<1>1. old \in T!MO \cup {NoMO} /\ Get(st, d) = old
  BY DEF Sound, T!Store, Get
<1>2. m \in T!MO /\ m.val = IF old = NoMO /\ node.val = Unset THEN Default[node.cls] ELSE node.val
  BY <1>1, WrittenFacts DEF Written
<1>3. NoMO \notin T!MO
  BY StoreAssumption
<1>4. Status(st, d, node) = IF node.deleted THEN IF old # NoMO THEN "deleted" ELSE "unchanged"
                            ELSE IF old = NoMO THEN "created"
                            ELSE IF node.val # Unset /\ node.val # old.val THEN "modified"
                            ELSE "unchanged"
  BY <1>1 DEF Status
<1>5. new.mo = IF node.deleted
                 THEN [x \in Dn |-> IF x \in T!Below(d) THEN NoMO ELSE st.mo[x]]
                 ELSE [x \in Dn |-> IF x = d THEN Merged(old, m) ELSE st.mo[x]]
  BY WriteFacts
<1>. HIDE DEF new, old, m
<1>6. CASE node.deleted
  <2>1. new.mo = [x \in Dn |-> IF x \in T!Below(d) THEN NoMO ELSE st.mo[x]]
    BY <1>5, <1>6
  <2>2. d \in T!Below(d)
    BY StoreAssumption DEF T!Below
  <2>3. new.mo[d] = NoMO /\ \A x \in Dn : new.mo[x] # st.mo[x] => x \in T!Below(d)
    BY <2>1, <2>2
  <2>4. Truth(Status(st, d, node), old, new.mo[d])
    BY <1>4, <1>6, <2>3 DEF Truth
  <2>5. QED
    BY <1>6, <2>3, <2>4 DEF new, old
<1>7. CASE ~ node.deleted
  <2>1. new.mo = [x \in Dn |-> IF x = d THEN Merged(old, m) ELSE st.mo[x]]
    BY <1>5, <1>7
  <2>2. new.mo[d] = Merged(old, m) /\ \A x \in Dn : new.mo[x] # st.mo[x] => x = d
    BY <2>1
  <2>3. Truth(Status(st, d, node), old, new.mo[d]) /\ (Status(st, d, node) = "unchanged" => new.mo[d] = old)
    <3>1. CASE old = NoMO
      BY <1>2, <1>3, <1>4, <1>7, <2>2, <3>1 DEF Truth, Merged
    <3>2. CASE old # NoMO
      <4>1. old \in T!MO /\ m.val = node.val
        BY <1>1, <1>2, <3>2
      <4>2. new.mo[d] = [class |-> old.class, val |-> IF node.val = Unset THEN old.val ELSE node.val]
        BY <2>2, <3>2, <4>1 DEF Merged
      <4>3. node.val \in Val \cup {Unset}
        BY DEF Node
      <4>4. new.mo[d] \in T!MO
        BY <1>2, <4>1, <4>2, <4>3 DEF T!MO
      <4>5. CASE node.val # Unset /\ node.val # old.val
        <5>1. new.mo[d].val # old.val
          BY <4>2, <4>5
        <5>2. Status(st, d, node) = "modified"
          BY <1>4, <1>7, <3>2, <4>5
        <5>3. QED
          BY <1>3, <3>2, <4>4, <5>1, <5>2 DEF Truth
      <4>6. CASE ~ (node.val # Unset /\ node.val # old.val)
        <5>1. new.mo[d] = [class |-> old.class, val |-> old.val]
          BY <4>2, <4>6
        <5>2. new.mo[d] = old
          BY <4>1, <5>1 DEF T!MO
        <5>3. Status(st, d, node) = "unchanged"
          BY <1>4, <1>7, <3>2, <4>6
        <5>4. QED
          BY <5>2, <5>3 DEF Truth
      <4>7. QED
        BY <4>5, <4>6
    <3>3. QED
      BY <3>1, <3>2
  <2>4. \A x \in Dn : new.mo[x] # st.mo[x] => x = d /\ Status(st, d, node) # "unchanged"
    BY <2>2, <2>3 DEF old
  <2>5. QED
    BY <1>7, <2>3, <2>4 DEF new, old
<1>8. QED
  BY <1>6, <1>7

(* The account the results give of what the first n nodes of b have done   *)
(* to st: each is true of its MO, and every change has one or is below a   *)
(* DN that was deleted.                                                    *)
Accounted(results, b, n, x) ==
  \/ \E k \in 1..Len(results) : results[k].dn = x /\ results[k].status # "unchanged"
  \/ \E i \in Planned(b) : i <= n /\ b[i].deleted /\ x \in T!Below(DnOf(b)[i])

Told(st, acc, b, n) ==
  /\ \A k \in 1..Len(acc.results) :
       LET d == acc.results[k].dn
       IN  Truth(acc.results[k].status, st.mo[d], acc.st.mo[d])
  /\ \A x \in Dn : acc.st.mo[x] # st.mo[x] => Accounted(acc.results, b, n, x)

(* In a plain body no node touches the DN of another, so that the account  *)
(* that is kept one node at a time is true of the whole.                   *)
LEMMA ToldStep ==
  ASSUME NEW st, NEW acc \in Progress, NEW b \in Body, Plain(b),
         NEW n \in Nat, n + 1 \in Planned(b), Matched(acc.results, b, n), Told(st, acc, b, n),
         NEW out \in Outcome, Matches(out, b, n + 1),
         out.status = Status(acc.st, DnOf(b)[n + 1], b[n + 1]),
         NEW new \in Progress, new.results = Append(acc.results, out),
         new.st = Write(acc.st, DnOf(b)[n + 1], b[n + 1])
  PROVE  Told(st, new, b, n + 1)
<1>. DEFINE j == n + 1
            d == DnOf(b)[j]
            node == b[j]
            results == acc.results
            told == new.results
<1>1. /\ Planned(b) \subseteq Nat /\ j \in Planned(b) /\ n < j
      /\ d \in Dn /\ node \in Node /\ out.dn = d
      /\ \A i \in Planned(b) : i <= n => i # j /\ i <= j
  BY NodeFacts DEF Matches
<1>2. Sound(acc.st) /\ results \in Seq(Outcome)
  BY DEF Progress
<1>3. /\ Len(told) = Len(results) + 1 /\ Len(results) \in Nat
      /\ \A i \in 1..Len(results) : told[i] = results[i]
      /\ told[Len(results) + 1] = out
  BY <1>2, AppendFacts
<1>4. /\ out.status = Status(acc.st, d, node) /\ new.st = Write(acc.st, d, node)
      /\ \A i \in Planned(b) : i # j =>
           /\ DnOf(b)[i] # d
           /\ node.deleted => DnOf(b)[i] \notin T!Below(d)
           /\ b[i].deleted => d \notin T!Below(DnOf(b)[i])
  BY <1>1 DEF Plain
<1>5. \A k \in 1..Len(results) : \E i \in Planned(b) : i <= n /\ results[k].dn = DnOf(b)[i]
  BY DEF Matched, Matches
<1>6. /\ \A k \in 1..Len(results) :
           Truth(results[k].status, st.mo[results[k].dn], acc.st.mo[results[k].dn])
      /\ \A x \in Dn : acc.st.mo[x] # st.mo[x] => Accounted(results, b, n, x)
  BY DEF Told
<1>. HIDE DEF j, d, node, results, told
<1>7. /\ Truth(out.status, acc.st.mo[d], new.st.mo[d])
      /\ \A x \in Dn : new.st.mo[x] # acc.st.mo[x] =>
           \/ ~ node.deleted /\ x = d /\ out.status # "unchanged"
           \/ node.deleted /\ x \in T!Below(d)
  BY <1>1, <1>2, <1>4, WriteTruth
<1>8. acc.st.mo[d] = st.mo[d]
  <2>1. SUFFICES ASSUME Accounted(results, b, n, d) PROVE FALSE
    BY <1>1, <1>6
  <2>2. CASE \E k \in 1..Len(results) : results[k].dn = d
    <3>1. PICK k \in 1..Len(results) : results[k].dn = d
      BY <2>2
    <3>2. PICK i \in Planned(b) : i <= n /\ results[k].dn = DnOf(b)[i]
      BY <1>5
    <3>3. i # j
      BY <1>1, <3>2
    <3>4. QED
      BY <1>4, <3>1, <3>2, <3>3
  <2>3. CASE \E i \in Planned(b) : i <= n /\ b[i].deleted /\ d \in T!Below(DnOf(b)[i])
    <3>1. PICK i \in Planned(b) : i <= n /\ b[i].deleted /\ d \in T!Below(DnOf(b)[i])
      BY <2>3
    <3>2. i # j
      BY <1>1, <3>1
    <3>3. QED
      BY <1>4, <3>1, <3>2
  <2>4. QED
    BY <2>1, <2>2, <2>3 DEF Accounted
<1>9. ASSUME NEW k \in 1..Len(told)
      PROVE  Truth(told[k].status, st.mo[told[k].dn], new.st.mo[told[k].dn])
  <2>1. CASE k = Len(results) + 1
    <3>1. told[k] = out
      BY <1>3, <2>1
    <3>2. QED
      BY <1>1, <1>7, <1>8, <3>1
  <2>2. CASE k # Len(results) + 1
    <3>1. k \in 1..Len(results) /\ told[k] = results[k]
      BY <1>3, <2>2
    <3>2. PICK i \in Planned(b) : i <= n /\ results[k].dn = DnOf(b)[i]
      BY <1>5, <3>1
    <3>3. /\ DnOf(b)[i] \in Dn /\ DnOf(b)[i] # d
          /\ node.deleted => DnOf(b)[i] \notin T!Below(d)
      <4>1. i # j
        BY <1>1, <3>2
      <4>2. DnOf(b)[i] \in Dn
        BY NodeFacts
      <4>3. QED
        BY <1>4, <4>1, <4>2
    <3>4. new.st.mo[results[k].dn] = acc.st.mo[results[k].dn]
      BY <1>7, <3>2, <3>3
    <3>5. QED
      BY <1>6, <3>1, <3>4
  <2>3. QED
    BY <2>1, <2>2
<1>10. ASSUME NEW x \in Dn, new.st.mo[x] # st.mo[x]
       PROVE  Accounted(told, b, j, x)
  <2>1. CASE new.st.mo[x] # acc.st.mo[x]
    <3>1. CASE ~ node.deleted /\ x = d /\ out.status # "unchanged"
      <4>1. Len(results) + 1 \in 1..Len(told)
        BY <1>3
      <4>2. QED
        BY <1>1, <1>3, <3>1, <4>1 DEF Accounted
    <3>2. CASE node.deleted /\ x \in T!Below(d)
      <4>1. j <= j
        BY <1>1
      <4>2. QED
        BY <1>1, <3>2, <4>1 DEF Accounted, node, d
    <3>3. QED
      BY <1>7, <2>1, <3>1, <3>2
  <2>2. CASE new.st.mo[x] = acc.st.mo[x]
    <3>1. Accounted(results, b, n, x)
      BY <1>6, <1>10, <2>2
    <3>2. CASE \E k \in 1..Len(results) : results[k].dn = x /\ results[k].status # "unchanged"
      <4>1. PICK k \in 1..Len(results) : results[k].dn = x /\ results[k].status # "unchanged"
        BY <3>2
      <4>2. k \in 1..Len(told) /\ told[k] = results[k]
        BY <1>3
      <4>3. QED
        BY <4>1, <4>2 DEF Accounted
    <3>3. CASE \E i \in Planned(b) : i <= n /\ b[i].deleted /\ x \in T!Below(DnOf(b)[i])
      BY <1>1, <3>3 DEF Accounted
    <3>4. QED
      BY <3>1, <3>2, <3>3 DEF Accounted
  <2>3. QED
    BY <2>1, <2>2
<1>11. QED
  BY <1>9, <1>10 DEF Told, told, j

LEMMA CommitTold ==
  ASSUME NEW st, Sound(st), NEW b \in Body, Plain(b), ~ Commit(st, b).raised
  PROVE  Told(st, Commit(st, b), b, Len(b))
<1>1. PICK f : IsCommit(f, st, b)
  BY CommitLoop
<1>. DEFINE n == Len(b)
            Good(i) == Matched(f[i].results, b, i) /\ Told(st, f[i], b, i)
            S == {i \in 0..n : ~ f[i].raised => Good(i)}
<1>2. n \in Nat /\ Planned(b) \subseteq 1..n
  BY NodeFacts
<1>3. \A i \in 0..n : f[i] \in Progress
  BY <1>1 DEF IsCommit
<1>4. 0 \in S
  <2>1. f[0].results = <<>> /\ f[0].st = st
    BY <1>1 DEF IsCommit
  <2>2. Matched(<<>>, b, 0)
    BY <1>2 DEF Matched
  <2>3. Told(st, f[0], b, 0)
    BY <2>1 DEF Told
  <2>4. QED
    BY <1>2, <2>1, <2>2, <2>3
<1>5. ASSUME NEW i \in 0..(n - 1), i \in S
      PROVE  i + 1 \in S
  <2>1. i + 1 \in 1..n /\ i \in Nat /\ (i + 1) - 1 = i
    BY <1>2
  <2>2. f[i + 1] = CommitNode(f[i], b, i + 1) /\ f[i] \in Progress /\ f[i + 1] \in Progress
    BY <1>1, <1>2, <1>3, <2>1 DEF IsCommit
  <2>3. SUFFICES ASSUME ~ f[i + 1].raised PROVE Good(i + 1)
    BY <2>1
  <2>4. ~ f[i].raised
    BY <2>1, <2>2, <2>3, TurnFacts
  <2>5. Matched(f[i].results, b, i) /\ Told(st, f[i], b, i)
    BY <1>5, <2>4
  <2>6. CASE i + 1 \notin Planned(b)
    <3>1. f[i + 1] = f[i]
      BY <2>1, <2>2, <2>3, <2>6, TurnFacts
    <3>2. \A k \in Planned(b) : k <= i + 1 <=> k <= i
      BY <1>2, <2>6
    <3>3. Matched(f[i + 1].results, b, i + 1)
      BY <2>5, <3>1, <3>2 DEF Matched
    <3>4. Told(st, f[i + 1], b, i + 1)
      BY <2>5, <3>1, <3>2 DEF Told, Accounted
    <3>5. QED
      BY <3>3, <3>4
  <2>7. CASE i + 1 \in Planned(b)
    <3>1. PICK out \in Outcome : /\ Matches(out, b, i + 1)
                                 /\ out.status = Status(f[i].st, DnOf(b)[i + 1], b[i + 1])
                                 /\ f[i + 1].results = Append(f[i].results, out)
                                 /\ f[i + 1].st = Write(f[i].st, DnOf(b)[i + 1], b[i + 1])
      <4>. DEFINE m == i + 1
                  acc == f[i]
                  new == CommitNode(acc, b, m)
      <4>1. m \in 1..Len(b) /\ acc \in Progress /\ ~ new.raised /\ m \in Planned(b) /\ f[m] = new
        BY <2>1, <2>2, <2>3, <2>7
      <4>. HIDE DEF m, acc
      <4>2. \E out \in Outcome : /\ Matches(out, b, m) /\ out.status = Status(acc.st, DnOf(b)[m], b[m])
                                 /\ new.results = Append(acc.results, out)
                                 /\ new.st = Write(acc.st, DnOf(b)[m], b[m])
        BY <4>1, TurnFacts
      <4>3. QED
        BY <4>1, <4>2, Zenon DEF m, acc
    <3>2. f[i].results \in Seq(Outcome)
      BY <2>2 DEF Progress
    <3>3. Matched(f[i + 1].results, b, i + 1)
      BY <2>1, <2>5, <2>7, <3>1, <3>2, MatchedStep
    <3>4. Told(st, f[i + 1], b, i + 1)
      BY <2>1, <2>2, <2>5, <2>7, <3>1, ToldStep
    <3>5. QED
      BY <3>3, <3>4
  <2>8. QED
    BY <2>6, <2>7
<1>. HIDE DEF S
<1>6. 0..n \subseteq S
  BY <1>2, <1>4, <1>5, BoundedInduction
<1>7. n \in S
  BY <1>2, <1>6
<1>8. Commit(st, b) = f[n]
  BY <1>1 DEF IsCommit
<1>9. QED
  BY <1>2, <1>7, <1>8 DEF S

(* The response tells the truth about every MO of a body that writes no DN *)
(* twice, and no MO changed silently, as ReportTruthful has it: the status *)
(* that writes.py gives a node at its own turn is still true of it when    *)
(* the whole body and its reactions are done.                              *)
THEOREM ReportCorrect == Spec => ReportTruthful
<1>. DEFINE Honest(e) ==
       e.dn[1] # "topology" =>
         CASE e.status = "created"  -> Get(store, e.dn) = NoMO /\ Get(store', e.dn) # NoMO
           [] e.status = "modified" -> /\ Get(store, e.dn) # Get(store', e.dn)
                                       /\ NoMO \notin {Get(store, e.dn), Get(store', e.dn)}
           [] e.status = "deleted"  -> Get(store, e.dn) # NoMO /\ Get(store', e.dn) = NoMO
            Announced(b, entries, d) ==
       Get(store, d) # Get(store', d) =>
         \/ d[1] = "topology"
         \/ \E e \in entries : d = e.dn
         \/ \E x \in DeletedBy(b) : d \in T!Below(x)
            Told1(b, entries) == /\ \A e \in entries : Honest(e)
                                 /\ \A d \in Dn : Announced(b, entries, d)
<1>1. ASSUME Sound(store), NEW b \in Body, NEW rsp, rsp # "no", Plain(b), post(b, rsp)
      PROVE  Told1(b, ToSet(last'.imdata))
  <2>. DEFINE done    == Commit(store, b)
              results == done.results
              entries == ToSet(last'.imdata)
  <2>1. /\ results \in Seq(Outcome) /\ ~ done.raised
        /\ Grown(done.st, store')
    BY <1>1, PostFacts
  <2>2. /\ \A k \in 1..Len(results) :
             Truth(results[k].status, store.mo[results[k].dn], done.st.mo[results[k].dn])
        /\ \A x \in Dn : done.st.mo[x] # store.mo[x] => Accounted(results, b, Len(b), x)
    BY <1>1, <2>1, CommitTold DEF Told
  <2>3. last'.imdata = Reported(results, rsp)
    BY <1>1 DEF post
  <2>. HIDE DEF results
  <2>4. \A e : e \in entries <=>
          \E k \in 1..Len(results) : e = results[k] /\ results[k].status # "unchanged"
    BY <1>1, <2>1, <2>3, ReportedFacts
  <2>5. \A x \in Dn : /\ Get(store, x) = store.mo[x] /\ Get(store', x) = store'.mo[x]
                      /\ x[1] # "topology" => store'.mo[x] = done.st.mo[x]
    BY <2>1 DEF Get, Grown
  <2>. HIDE DEF done, entries
  <2>6. ASSUME NEW e \in entries
        PROVE  Honest(e)
    <3>1. PICK k \in 1..Len(results) : e = results[k] /\ results[k].status # "unchanged"
      BY <2>4
    <3>2. e \in Outcome /\ e.dn \in Dn
      <4>1. results[k] \in Outcome
        BY <2>1
      <4>2. QED
        BY <3>1, <4>1 DEF Outcome
    <3>3. Truth(e.status, store.mo[e.dn], done.st.mo[e.dn])
      BY <2>2, <3>1
    <3>4. e.status \in {"created", "modified", "deleted"}
      BY <3>1, <3>2 DEF Outcome
    <3>5. ASSUME e.dn[1] # "topology"
          PROVE  /\ Get(store, e.dn) = store.mo[e.dn] /\ Get(store', e.dn) = done.st.mo[e.dn]
      BY <2>5, <3>2, <3>5
    <3>6. QED
      BY <3>3, <3>4, <3>5 DEF Truth
  <2>7. ASSUME NEW d \in Dn
        PROVE  Announced(b, entries, d)
    <3>1. SUFFICES ASSUME Get(store, d) # Get(store', d), d[1] # "topology"
                   PROVE  \/ \E e \in entries : d = e.dn
                          \/ \E x \in DeletedBy(b) : d \in T!Below(x)
      OBVIOUS
    <3>2. Accounted(results, b, Len(b), d)
      BY <2>2, <2>5, <3>1
    <3>3. CASE \E k \in 1..Len(results) : results[k].dn = d /\ results[k].status # "unchanged"
      BY <2>4, <3>3
    <3>4. CASE \E i \in Planned(b) : i <= Len(b) /\ b[i].deleted /\ d \in T!Below(DnOf(b)[i])
      BY <3>4 DEF DeletedBy
    <3>5. QED
      BY <3>2, <3>3, <3>4 DEF Accounted
  <2>8. QED
    BY <2>6, <2>7 DEF entries
<1>. HIDE DEF Told1
<1>2. ASSUME Sound(store), Next, last'.kind = "post", last'.ok, last'.rsp # "no",
             Plain(last'.body)
      PROVE  Told1(last'.body, ToSet(last'.imdata))
  <2>1. CASE \E d \in Target : deleteMo(d)
    <3>1. last'.kind = "delete"
      BY <2>1 DEF deleteMo
    <3>2. QED
      BY <1>2, <3>1
  <2>2. ASSUME NEW b \in Body, \/ postRefused(b) \/ postRaised(b)
                               \/ \E rsp \in {"modified", "no"} : post(b, rsp)
        PROVE  Told1(last'.body, ToSet(last'.imdata))
    <3>1. PICK rsp \in {"modified", "no"} : post(b, rsp)
      BY <1>2, <2>2 DEF postRefused, postRaised
    <3>2. last'.body = b /\ last'.rsp = rsp
      BY <3>1 DEF post
    <3>3. QED
      BY <1>1, <1>2, <3>1, <3>2
  <2>3. QED
    BY <1>2, <2>1, <2>2 DEF Next
<1>3. Sound(store) /\ [Next]_vars =>
        [Posted /\ last'.ok /\ last'.rsp # "no" /\ Plain(last'.body) =>
           LET entries == ToSet(last'.imdata)
           IN  /\ \A e \in entries : e.dn[1] # "topology" =>
                    CASE e.status = "created"  -> Get(store, e.dn) = NoMO /\ Get(store', e.dn) # NoMO
                      [] e.status = "modified" -> /\ Get(store, e.dn) # Get(store', e.dn)
                                                  /\ NoMO \notin {Get(store, e.dn), Get(store', e.dn)}
                      [] e.status = "deleted"  -> Get(store, e.dn) # NoMO /\ Get(store', e.dn) = NoMO
               /\ \A d \in Dn : Get(store, d) # Get(store', d) =>
                    \/ d[1] = "topology"
                    \/ \E e \in entries : d = e.dn
                    \/ \E x \in DeletedBy(last'.body) : d \in T!Below(x)]_vars
  BY <1>2 DEF Posted, Told1
<1>4. QED
  BY <1>3, AlwaysSound, PTL DEF Spec, ReportTruthful
-----------------------------------------------------------------------------
(* A client that follows the responses                                     *)

IsMirror(m, entries, S) ==
  /\ \A i \in 0..Len(entries) : m[i] \in SUBSET Dn
  /\ m[0] = S
  /\ \A i \in 1..Len(entries) :
       m[i] = IF entries[i].status = "deleted" THEN m[i - 1] \ T!Below(entries[i].dn)
              ELSE m[i - 1] \cup {entries[i].dn}
  /\ Mirror(entries, S) = m[Len(entries)]

LEMMA MirrorLoop ==
  ASSUME NEW entries \in Seq(Outcome), NEW S \in SUBSET Dn
  PROVE  \E m : IsMirror(m, entries, S)
<1>. DEFINE n == Len(entries)
            D == SUBSET Dn
            Turn(K, i) == IF entries[i].status = "deleted" THEN K \ T!Below(entries[i].dn)
                          ELSE K \cup {entries[i].dn}
            step == [x \in D \X (1..n) |-> Turn(x[1], x[2])]
            F(f) == [i \in 0..Len(entries) |->
                       IF i = 0 THEN S
                       ELSE IF entries[i].status = "deleted" THEN f[i - 1] \ T!Below(entries[i].dn)
                       ELSE f[i - 1] \cup {entries[i].dn}]
            upto == CHOOSE f : f = F(f)
<1>1. n \in Nat /\ \A i \in 1..n : entries[i].dn \in Dn
  <2>1. \A i \in 1..n : entries[i] \in Outcome
    OBVIOUS
  <2>2. QED
    BY <2>1 DEF Outcome
<1>2. Mirror(entries, S) = upto[n]
  BY DEF Mirror
<1>3. ASSUME NEW K \in D, NEW i \in 1..n
      PROVE  Turn(K, i) \in D
  BY <1>1
<1>4. S \in D
  OBVIOUS
<1>. HIDE DEF upto, D, n, Turn
<1>5. step \in [D \X (1..n) -> D]
  <2>1. ASSUME NEW x \in D \X (1..n)
        PROVE  Turn(x[1], x[2]) \in D
    BY <1>3
  <2>2. QED
    BY <2>1
<1>. HIDE DEF step
<1>6. PICK f : IsLoop(f, D, S, n, step)
  BY <1>1, <1>4, <1>5, LoopExists
<1>7. ASSUME NEW i \in 1..n
      PROVE  f[i] = Turn(f[i - 1], i)
  <2>1. <<f[i - 1], i>> \in D \X (1..n) /\ f[i] = step[<<f[i - 1], i>>]
    BY <1>1, <1>6 DEF IsLoop
  <2>2. QED
    BY <2>1 DEF step
<1>8. f = F(f)
  <2>1. \A i \in 0..n : f[i] = IF i = 0 THEN S ELSE Turn(f[i - 1], i)
    BY <1>1, <1>6, <1>7 DEF IsLoop
  <2>2. f = [i \in 0..n |-> IF i = 0 THEN S ELSE Turn(f[i - 1], i)]
    BY <1>6, <2>1 DEF IsLoop
  <2>3. QED
    BY <2>2 DEF Turn, n
<1>9. upto = F(upto)
  <2>. HIDE DEF F
  <2>1. \E g : g = F(g)
    BY <1>8
  <2>2. QED
    BY <2>1 DEF upto
<1>10. upto[0] = S /\ \A i \in 1..n : upto[i] = Turn(upto[i - 1], i)
  <2>1. upto = [i \in 0..n |-> IF i = 0 THEN S ELSE Turn(upto[i - 1], i)]
    BY <1>9 DEF Turn, n
  <2>2. \A i \in 0..n : upto[i] = IF i = 0 THEN S ELSE Turn(upto[i - 1], i)
    BY <2>1
  <2>3. QED
    BY <1>1, <2>2
<1>11. \A i \in 0..n : upto[i] \in D
  <2>1. ASSUME NEW i \in 0..(n - 1), upto[i] \in D
        PROVE  upto[i + 1] \in D
    <3>1. i + 1 \in 1..n /\ (i + 1) - 1 = i
      BY <1>1
    <3>2. upto[i + 1] = Turn(upto[(i + 1) - 1], i + 1)
      BY <1>10, <3>1
    <3>3. Turn(upto[i], i + 1) \in D
      BY <1>3, <2>1, <3>1
    <3>4. QED
      BY <3>1, <3>2, <3>3
  <2>2. upto[0] \in D
    BY <1>4, <1>10
  <2>3. QED
    BY <1>1, <2>1, <2>2, LoopInvariant
<1>12. IsMirror(upto, entries, S)
  BY <1>2, <1>10, <1>11 DEF IsMirror, Turn, n, D
<1>13. QED
  BY <1>12

(* What one more entry makes of the mirror, and one more result of the     *)
(* report.                                                                 *)
LEMMA MirrorAppend ==
  ASSUME NEW entries \in Seq(Outcome), NEW e \in Outcome, NEW S \in SUBSET Dn
  PROVE  /\ Mirror(<<>>, S) = S
         /\ Mirror(entries, S) \in SUBSET Dn
         /\ Mirror(Append(entries, e), S) =
              IF e.status = "deleted" THEN Mirror(entries, S) \ T!Below(e.dn)
              ELSE Mirror(entries, S) \cup {e.dn}
<1>. DEFINE more == Append(entries, e)
            n == Len(entries)
<1>1. /\ more \in Seq(Outcome) /\ Len(more) = n + 1 /\ n \in Nat
      /\ \A i \in 1..n : more[i] = entries[i]
      /\ more[n + 1] = e
  BY AppendFacts
<1>2. Mirror(<<>>, S) = S
  <2>1. <<>> \in Seq(Outcome) /\ Len(<<>>) = 0
    OBVIOUS
  <2>2. PICK m : IsMirror(m, <<>>, S)
    BY <2>1, MirrorLoop
  <2>3. QED
    BY <2>1, <2>2 DEF IsMirror
<1>. HIDE DEF more
<1>3. PICK m : IsMirror(m, entries, S)
  BY MirrorLoop
<1>4. PICK k : IsMirror(k, more, S)
  BY <1>1, MirrorLoop
<1>. HIDE DEF n
<1>. DEFINE A == {i \in 0..n : k[i] = m[i]}
<1>5. 0 \in A
  BY <1>1, <1>3, <1>4 DEF IsMirror
<1>6. ASSUME NEW i \in 0..(n - 1), i \in A
      PROVE  i + 1 \in A
  <2>. DEFINE j == i + 1
  <2>1. j \in 1..n /\ j \in 1..(n + 1) /\ j - 1 = i /\ j \in 0..n
    BY <1>1
  <2>. HIDE DEF j
  <2>2. m[j] = IF entries[j].status = "deleted" THEN m[i] \ T!Below(entries[j].dn)
               ELSE m[i] \cup {entries[j].dn}
    BY <1>3, <2>1 DEF IsMirror, n
  <2>3. k[j] = IF more[j].status = "deleted" THEN k[i] \ T!Below(more[j].dn)
               ELSE k[i] \cup {more[j].dn}
    BY <1>1, <1>4, <2>1 DEF IsMirror
  <2>4. more[j] = entries[j] /\ k[i] = m[i]
    BY <1>1, <1>6, <2>1
  <2>5. QED
    BY <2>1, <2>2, <2>3, <2>4 DEF j
<1>. HIDE DEF A
<1>7. 0..n \subseteq A
  BY <1>1, <1>5, <1>6, BoundedInduction
<1>8. k[n] = m[n]
  <2>1. n \in 0..n
    BY <1>1
  <2>2. QED
    BY <1>7, <2>1 DEF A
<1>9. n + 1 \in 1..Len(more) /\ (n + 1) - 1 = n
  BY <1>1
<1>10. k[n + 1] = IF e.status = "deleted" THEN k[n] \ T!Below(e.dn) ELSE k[n] \cup {e.dn}
  BY <1>1, <1>4, <1>9 DEF IsMirror
<1>11. Mirror(more, S) = k[n + 1] /\ Mirror(entries, S) = m[n] /\ m[n] \in SUBSET Dn
  BY <1>1, <1>3, <1>4 DEF IsMirror, n
<1>12. QED
  BY <1>2, <1>8, <1>10, <1>11 DEF more

LEMMA ReportAppend ==
  ASSUME NEW results \in Seq(Outcome), NEW out \in Outcome, NEW rsp, rsp # "no"
  PROVE  /\ Reported(<<>>, rsp) = <<>>
         /\ Reported(results, rsp) \in Seq(Outcome)
         /\ Reported(Append(results, out), rsp) =
              IF out.status = "unchanged" THEN Reported(results, rsp)
              ELSE Append(Reported(results, rsp), out)
<1>. DEFINE more == Append(results, out)
            n == Len(results)
<1>1. /\ more \in Seq(Outcome) /\ Len(more) = n + 1 /\ n \in Nat
      /\ \A i \in 1..n : more[i] = results[i]
      /\ more[n + 1] = out
  BY AppendFacts
<1>2. Reported(<<>>, rsp) = <<>>
  <2>1. <<>> \in Seq(Outcome) /\ Len(<<>>) = 0
    OBVIOUS
  <2>2. PICK u : IsReport(u, <<>>)
    BY <2>1, ReportLoop
  <2>3. QED
    BY <2>1, <2>2 DEF IsReport
<1>. HIDE DEF more
<1>3. PICK u : IsReport(u, results)
  BY ReportLoop
<1>4. PICK v : IsReport(v, more)
  BY <1>1, ReportLoop
<1>. HIDE DEF n
<1>. DEFINE A == {i \in 0..n : v[i] = u[i]}
<1>5. 0 \in A
  BY <1>1, <1>3, <1>4 DEF IsReport
<1>6. ASSUME NEW i \in 0..(n - 1), i \in A
      PROVE  i + 1 \in A
  <2>. DEFINE j == i + 1
  <2>1. j \in 1..n /\ j \in 1..(n + 1) /\ j - 1 = i /\ j \in 0..n
    BY <1>1
  <2>. HIDE DEF j
  <2>2. u[j] = IF results[j].status = "unchanged" THEN u[i] ELSE Append(u[i], results[j])
    BY <1>3, <2>1 DEF IsReport, n
  <2>3. v[j] = IF more[j].status = "unchanged" THEN v[i] ELSE Append(v[i], more[j])
    BY <1>1, <1>4, <2>1 DEF IsReport
  <2>4. more[j] = results[j] /\ v[i] = u[i]
    BY <1>1, <1>6, <2>1
  <2>5. QED
    BY <2>1, <2>2, <2>3, <2>4 DEF j
<1>. HIDE DEF A
<1>7. 0..n \subseteq A
  BY <1>1, <1>5, <1>6, BoundedInduction
<1>8. v[n] = u[n]
  <2>1. n \in 0..n
    BY <1>1
  <2>2. QED
    BY <1>7, <2>1 DEF A
<1>9. n + 1 \in 1..Len(more) /\ (n + 1) - 1 = n
  BY <1>1
<1>10. v[n + 1] = IF out.status = "unchanged" THEN v[n] ELSE Append(v[n], out)
  BY <1>1, <1>4, <1>9 DEF IsReport
<1>11. Reported(more, rsp) = v[n + 1] /\ Reported(results, rsp) = u[n] /\ u[n] \in Seq(Outcome)
  BY <1>1, <1>3, <1>4 DEF IsReport, n
<1>12. QED
  BY <1>2, <1>8, <1>10, <1>11 DEF more

(* No deletion of x is among the results, or the body deletes it twice.    *)
Quiet(results, b, x) ==
  \/ \A k \in 1..Len(results) : results[k].status = "deleted" => results[k].dn # x
  \/ \E i, j \in Planned(b) : /\ i # j /\ b[i].deleted /\ b[j].deleted
                              /\ DnOf(b)[i] = x /\ DnOf(b)[j] = x

(* What the client has after the first n nodes, besides the MOs there are, *)
(* is below a DN whose deletion was not reported.                          *)
Followed(S, acc, b, n, rsp) ==
  LET kept == Mirror(Reported(acc.results, rsp), S)
  IN  /\ T!Present(acc.st) \subseteq kept
      /\ \A d \in kept \ T!Present(acc.st) :
           \E i \in Planned(b) : /\ i <= n /\ b[i].deleted
                                 /\ d \in T!Below(DnOf(b)[i]) \ {DnOf(b)[i]}
                                 /\ Quiet(acc.results, b, DnOf(b)[i])
      /\ \A k \in 1..Len(acc.results) : acc.results[k].status = "deleted" => acc.results[k].deleted

(* What one node makes of the set of MOs, by its status.                   *)
LEMMA WritePresent ==
  ASSUME NEW st, Sound(st), NEW d \in Dn, NEW node \in Node
  PROVE  LET now    == T!Present(Write(st, d, node))
             status == Status(st, d, node)
         IN  /\ node.deleted => /\ now = T!Present(st) \ T!Below(d)
                                /\ status = IF d \in T!Present(st) THEN "deleted" ELSE "unchanged"
             /\ ~ node.deleted => /\ now = T!Present(st) \cup {d}
                                  /\ status # "deleted"
                                  /\ status = "unchanged" => d \in T!Present(st)
<1>. DEFINE new == Write(st, d, node)
            m == Written(st, d, node)
<1>1. st.mo \in [Dn -> T!MO \cup {NoMO}] /\ Get(st, d) = st.mo[d] /\ NoMO \notin T!MO /\ m \in T!MO
  BY WrittenFacts, StoreAssumption DEF Sound, T!Store, Get
<1>2. new.mo = IF node.deleted
                 THEN [x \in Dn |-> IF x \in T!Below(d) THEN NoMO ELSE st.mo[x]]
                 ELSE [x \in Dn |-> IF x = d THEN Merged(st.mo[d], m) ELSE st.mo[x]]
  BY WriteFacts
<1>3. Merged(st.mo[d], m) # NoMO
  <2>1. Merged(st.mo[d], m) \in T!MO
    BY <1>1 DEF Merged, T!MO
  <2>2. QED
    BY <1>1, <2>1
<1>4. /\ T!Present(new) = {x \in Dn : new.mo[x] # NoMO}
      /\ T!Present(st) = {x \in Dn : st.mo[x] # NoMO}
  BY DEF T!Present
<1>5. Status(st, d, node) = IF node.deleted THEN IF st.mo[d] # NoMO THEN "deleted" ELSE "unchanged"
                            ELSE IF st.mo[d] = NoMO THEN "created"
                            ELSE IF node.val # Unset /\ node.val # st.mo[d].val THEN "modified"
                            ELSE "unchanged"
  BY <1>1 DEF Status
<1>. HIDE DEF new, m
<1>6. CASE node.deleted
  <2>1. new.mo = [x \in Dn |-> IF x \in T!Below(d) THEN NoMO ELSE st.mo[x]]
    BY <1>2, <1>6
  <2>2. T!Present(new) = T!Present(st) \ T!Below(d)
    BY <1>4, <2>1
  <2>3. QED
    BY <1>4, <1>5, <1>6, <2>2 DEF new
<1>7. CASE ~ node.deleted
  <2>1. new.mo = [x \in Dn |-> IF x = d THEN Merged(st.mo[d], m) ELSE st.mo[x]]
    BY <1>2, <1>7
  <2>2. T!Present(new) = T!Present(st) \cup {d}
    BY <1>3, <1>4, <2>1
  <2>3. QED
    BY <1>4, <1>5, <1>7, <2>2 DEF new
<1>8. QED
  BY <1>6, <1>7

LEMMA FollowedStep ==
  ASSUME NEW S \in SUBSET Dn, NEW rsp, rsp # "no", NEW acc \in Progress, NEW b \in Body,
         NEW n \in Nat, n + 1 \in Planned(b), Matched(acc.results, b, n),
         Followed(S, acc, b, n, rsp),
         NEW out \in Outcome, Matches(out, b, n + 1),
         out.status = Status(acc.st, DnOf(b)[n + 1], b[n + 1]),
         NEW new \in Progress, new.results = Append(acc.results, out),
         new.st = Write(acc.st, DnOf(b)[n + 1], b[n + 1])
  PROVE  Followed(S, new, b, n + 1, rsp)
<1>. DEFINE j == n + 1
            d == DnOf(b)[j]
            node == b[j]
            results == acc.results
            more == new.results
            was == T!Present(acc.st)
            now == T!Present(new.st)
            kept == Mirror(Reported(results, rsp), S)
            keeps == Mirror(Reported(more, rsp), S)
            Said(res, x) == \E k \in 1..Len(res) : res[k].status = "deleted" /\ res[k].dn = x
            Twice(x) == \E i, k \in Planned(b) : /\ i # k /\ b[i].deleted /\ b[k].deleted
                                                 /\ DnOf(b)[i] = x /\ DnOf(b)[k] = x
            Why(res, m, x) ==
              \E i \in Planned(b) : /\ i <= m /\ b[i].deleted
                                    /\ x \in T!Below(DnOf(b)[i]) \ {DnOf(b)[i]}
                                    /\ ~ Said(res, DnOf(b)[i]) \/ Twice(DnOf(b)[i])
<1>1. /\ Planned(b) \subseteq Nat /\ j \in Planned(b) /\ n < j /\ j \in Nat
      /\ d \in Dn /\ node \in Node /\ out.dn = d /\ out.deleted = node.deleted
      /\ \A i \in Planned(b) : i <= n => i # j /\ i <= j
  BY NodeFacts DEF Matches
<1>2. Sound(acc.st) /\ results \in Seq(Outcome)
  BY DEF Progress
<1>3. /\ Len(more) = Len(results) + 1 /\ Len(results) \in Nat
      /\ \A k \in 1..Len(results) : more[k] = results[k]
      /\ more[Len(results) + 1] = out
  BY <1>2, AppendFacts
<1>4. /\ was \subseteq kept
      /\ \A x \in kept \ was : Why(results, n, x)
      /\ \A k \in 1..Len(results) : results[k].status = "deleted" => results[k].deleted
  BY DEF Followed, Quiet
<1>5. \A k \in 1..Len(results) : \E i \in Planned(b) :
        i <= n /\ results[k].dn = DnOf(b)[i] /\ results[k].deleted = b[i].deleted
  BY DEF Matched, Matches
<1>6. /\ node.deleted => /\ now = was \ T!Below(d)
                         /\ out.status = IF d \in was THEN "deleted" ELSE "unchanged"
      /\ ~ node.deleted => /\ now = was \cup {d}
                           /\ out.status # "deleted"
                           /\ out.status = "unchanged" => d \in was
  BY <1>1, <1>2, WritePresent
<1>7. keeps = IF out.status = "unchanged" THEN kept
              ELSE IF out.status = "deleted" THEN kept \ T!Below(d)
              ELSE kept \cup {d}
  <2>1. /\ Reported(results, rsp) \in Seq(Outcome)
        /\ Reported(more, rsp) = IF out.status = "unchanged" THEN Reported(results, rsp)
                                 ELSE Append(Reported(results, rsp), out)
    BY <1>2, ReportAppend
  <2>2. Mirror(Append(Reported(results, rsp), out), S) =
          IF out.status = "deleted" THEN kept \ T!Below(out.dn) ELSE kept \cup {out.dn}
    BY <2>1, MirrorAppend
  <2>3. QED
    BY <1>1, <2>1, <2>2
<1>8. \A x : Said(more, x) <=> Said(results, x) \/ (out.status = "deleted" /\ x = d)
  <2>1. \A k : k \in 1..Len(more) <=> k \in 1..Len(results) \/ k = Len(results) + 1
    BY <1>3
  <2>2. QED
    BY <1>1, <1>3, <2>1
<1>9. \A x \in T!Below(d) : x = d \/ x \in T!Below(d) \ {d}
  OBVIOUS
<1>10. d \in T!Below(d)
  BY <1>1, StoreAssumption DEF T!Below
<1>11. ASSUME Said(results, d), node.deleted
       PROVE  Twice(d)
  <2>1. PICK k \in 1..Len(results) : results[k].status = "deleted" /\ results[k].dn = d
    BY <1>11
  <2>2. PICK i \in Planned(b) : i <= n /\ results[k].dn = DnOf(b)[i] /\ results[k].deleted = b[i].deleted
    BY <1>5
  <2>3. i # j /\ b[i].deleted /\ DnOf(b)[i] = d
    BY <1>1, <1>4, <2>1, <2>2
  <2>4. QED
    BY <1>1, <1>11, <2>3
<1>. HIDE DEF results, more, was, now, kept, keeps, Said, Twice, node, d, j
<1>12. now \subseteq keeps
  BY <1>4, <1>6, <1>7
<1>13. ASSUME NEW x \in keeps \ now, x \in kept \ was, ~ (out.status = "deleted" /\ x \in T!Below(d))
       PROVE  Why(more, j, x)
  <2>1. PICK i \in Planned(b) : /\ i <= n /\ b[i].deleted
                                /\ x \in T!Below(DnOf(b)[i]) \ {DnOf(b)[i]}
                                /\ ~ Said(results, DnOf(b)[i]) \/ Twice(DnOf(b)[i])
    BY <1>4, <1>13
  <2>2. i <= j
    BY <1>1, <2>1
  <2>3. ~ (out.status = "deleted" /\ DnOf(b)[i] = d)
    BY <1>13, <2>1
  <2>4. ~ Said(more, DnOf(b)[i]) \/ Twice(DnOf(b)[i])
    BY <1>8, <2>1, <2>3
  <2>5. QED
    BY <2>1, <2>2, <2>4
<1>14. ASSUME NEW x \in keeps \ now, x \notin kept \ was
       PROVE  Why(more, j, x)
  <2>1. node.deleted /\ out.status = "unchanged" /\ x \in T!Below(d) /\ x \in was /\ d \notin was
    BY <1>4, <1>6, <1>7, <1>14
  <2>2. x \in T!Below(d) \ {d} /\ j <= j
    BY <1>1, <2>1
  <2>3. ~ Said(more, d) \/ Twice(d)
    BY <1>8, <1>11, <2>1
  <2>4. j \in Planned(b) /\ b[j].deleted /\ DnOf(b)[j] = d
    BY <1>1, <2>1 DEF node, d
  <2>5. QED
    BY <2>2, <2>3, <2>4
<1>15. \A x \in keeps \ now : Why(more, j, x)
  <2>1. \A x \in keeps \ now : x \in kept \ was => ~ (out.status = "deleted" /\ x \in T!Below(d))
    BY <1>7
  <2>2. QED
    BY <1>13, <1>14, <2>1
<1>16. \A k \in 1..Len(more) : more[k].status = "deleted" => more[k].deleted
  <2>1. out.status = "deleted" => out.deleted
    BY <1>1, <1>6
  <2>2. \A k \in 1..Len(more) : k \in 1..Len(results) \/ k = Len(results) + 1
    BY <1>3
  <2>3. QED
    BY <1>3, <1>4, <2>1, <2>2
<1>17. QED
  BY <1>12, <1>15, <1>16 DEF Followed, Quiet, Said, Twice, keeps, now, more, j

LEMMA CommitFollowed ==
  ASSUME NEW st, Sound(st), NEW b \in Body, ~ Commit(st, b).raised, NEW rsp, rsp # "no"
  PROVE  Followed(T!Present(st), Commit(st, b), b, Len(b), rsp)
<1>1. PICK f : IsCommit(f, st, b)
  BY CommitLoop
<1>. DEFINE n == Len(b)
            P == T!Present(st)
            Good(i) == Matched(f[i].results, b, i) /\ Followed(P, f[i], b, i, rsp)
            S == {i \in 0..n : ~ f[i].raised => Good(i)}
<1>2. n \in Nat /\ Planned(b) \subseteq 1..n /\ P \in SUBSET Dn
  BY NodeFacts DEF T!Present
<1>3. \A i \in 0..n : f[i] \in Progress
  BY <1>1 DEF IsCommit
<1>. HIDE DEF P
<1>4. 0 \in S
  <2>1. f[0].results = <<>> /\ f[0].st = st
    BY <1>1 DEF IsCommit
  <2>2. Matched(<<>>, b, 0)
    BY <1>2 DEF Matched
  <2>3. Mirror(Reported(<<>>, rsp), P) = P
    <3>1. PICK e \in Outcome : TRUE
      <4>1. \E e \in Outcome : TRUE
        <5>. DEFINE e == [cls |-> b[1].cls, dn |-> DnOf(b)[1], val |-> b[1].val,
                          deleted |-> b[1].deleted, status |-> "created"]
        <5>1. 1 \in 1..Len(b)
          BY <1>2, BodyAssumption
        <5>2. b[1] \in Node /\ DnOf(b)[1] \in Dn
          BY <5>1, NodeFacts
        <5>3. e \in Outcome
          BY <5>2 DEF Outcome, Node
        <5>4. QED
          BY <5>3
      <4>2. QED
        BY <4>1
    <3>2. <<>> \in Seq(Outcome)
      OBVIOUS
    <3>3. Reported(<<>>, rsp) = <<>>
      BY <3>1, <3>2, ReportAppend
    <3>4. Mirror(<<>>, P) = P
      BY <1>2, <3>1, <3>2, MirrorAppend
    <3>5. QED
      BY <3>3, <3>4
  <2>4. Followed(P, f[0], b, 0, rsp)
    BY <2>1, <2>3 DEF Followed, P
  <2>5. QED
    BY <1>2, <2>1, <2>2, <2>4
<1>5. ASSUME NEW i \in 0..(n - 1), i \in S
      PROVE  i + 1 \in S
  <2>1. i + 1 \in 1..n /\ i \in Nat /\ (i + 1) - 1 = i
    BY <1>2
  <2>2. f[i + 1] = CommitNode(f[i], b, i + 1) /\ f[i] \in Progress /\ f[i + 1] \in Progress
    BY <1>1, <1>2, <1>3, <2>1 DEF IsCommit
  <2>3. SUFFICES ASSUME ~ f[i + 1].raised PROVE Good(i + 1)
    BY <2>1
  <2>4. ~ f[i].raised
    BY <2>1, <2>2, <2>3, TurnFacts
  <2>5. Matched(f[i].results, b, i) /\ Followed(P, f[i], b, i, rsp)
    BY <1>5, <2>4
  <2>6. CASE i + 1 \notin Planned(b)
    <3>1. f[i + 1] = f[i]
      BY <2>1, <2>2, <2>3, <2>6, TurnFacts
    <3>2. \A k \in Planned(b) : k <= i + 1 <=> k <= i
      BY <1>2, <2>6
    <3>3. Matched(f[i + 1].results, b, i + 1)
      BY <2>5, <3>1, <3>2 DEF Matched
    <3>4. Followed(P, f[i + 1], b, i + 1, rsp)
      BY <2>5, <3>1, <3>2 DEF Followed
    <3>5. QED
      BY <3>3, <3>4
  <2>7. CASE i + 1 \in Planned(b)
    <3>1. PICK out \in Outcome : /\ Matches(out, b, i + 1)
                                 /\ out.status = Status(f[i].st, DnOf(b)[i + 1], b[i + 1])
                                 /\ f[i + 1].results = Append(f[i].results, out)
                                 /\ f[i + 1].st = Write(f[i].st, DnOf(b)[i + 1], b[i + 1])
      <4>. DEFINE m == i + 1
                  acc == f[i]
                  new == CommitNode(acc, b, m)
      <4>1. m \in 1..Len(b) /\ acc \in Progress /\ ~ new.raised /\ m \in Planned(b) /\ f[m] = new
        BY <2>1, <2>2, <2>3, <2>7
      <4>. HIDE DEF m, acc
      <4>2. \E out \in Outcome : /\ Matches(out, b, m) /\ out.status = Status(acc.st, DnOf(b)[m], b[m])
                                 /\ new.results = Append(acc.results, out)
                                 /\ new.st = Write(acc.st, DnOf(b)[m], b[m])
        BY <4>1, TurnFacts
      <4>3. QED
        BY <4>1, <4>2, Zenon DEF m, acc
    <3>2. f[i].results \in Seq(Outcome)
      BY <2>2 DEF Progress
    <3>3. Matched(f[i + 1].results, b, i + 1)
      BY <2>1, <2>5, <2>7, <3>1, <3>2, MatchedStep
    <3>4. Followed(P, f[i + 1], b, i + 1, rsp)
      BY <1>2, <2>1, <2>2, <2>5, <2>7, <3>1, FollowedStep
    <3>5. QED
      BY <3>3, <3>4
  <2>8. QED
    BY <2>6, <2>7
<1>. HIDE DEF S
<1>6. 0..n \subseteq S
  BY <1>2, <1>4, <1>5, BoundedInduction
<1>7. n \in S
  BY <1>2, <1>6
<1>8. Commit(st, b) = f[n]
  BY <1>1 DEF IsCommit
<1>9. QED
  BY <1>2, <1>7, <1>8 DEF S, P

(* A client that drops and adds what the response lists, in its order, has *)
(* the MOs of the store when the call returns (MirrorFollows): the status  *)
(* writes.py gives a node is that of its turn, so the list can be replayed *)
(* even when the nodes of a body meet.                                     *)
THEOREM MirrorCorrect == Spec => MirrorFollows
<1>. DEFINE Kept(b, entries) ==
       LET kept == Mirror(entries, T!Present(store))
       IN  /\ \A d \in T!Present(store') : d[1] # "topology" => d \in kept
           /\ \A d \in kept \ T!Present(store') :
                \/ d[1] = "topology"
                \/ \E x \in Unsaid(b, entries) : d \in T!Below(x) \ {x}
<1>1. ASSUME Sound(store), NEW b \in Body, NEW rsp, rsp # "no", post(b, rsp)
      PROVE  Kept(b, last'.imdata)
  <2>. DEFINE done    == Commit(store, b)
              results == done.results
              entries == last'.imdata
              kept    == Mirror(entries, T!Present(store))
  <2>1. /\ results \in Seq(Outcome) /\ ~ done.raised
        /\ Grown(done.st, store')
    BY <1>1, PostFacts
  <2>2. entries = Reported(results, rsp)
    BY <1>1 DEF post
  <2>3. /\ T!Present(done.st) \subseteq kept
        /\ \A d \in kept \ T!Present(done.st) :
             \E i \in Planned(b) : /\ b[i].deleted
                                   /\ d \in T!Below(DnOf(b)[i]) \ {DnOf(b)[i]}
                                   /\ Quiet(results, b, DnOf(b)[i])
    BY <1>1, <2>1, <2>2, CommitFollowed DEF Followed
  <2>. HIDE DEF results
  <2>4. kept \subseteq Dn
    <3>1. T!Present(store) \in SUBSET Dn
      BY DEF T!Present
    <3>2. entries \in Seq(Outcome)
      <4>1. PICK u : IsReport(u, results)
        BY <2>1, ReportLoop
      <4>2. entries = u[Len(results)] /\ Len(results) \in 0..Len(results)
        BY <1>1, <2>1, <2>2, <4>1 DEF IsReport
      <4>3. QED
        BY <4>1, <4>2 DEF IsReport
    <3>3. PICK m : IsMirror(m, entries, T!Present(store))
      BY <3>1, <3>2, MirrorLoop
    <3>4. kept = m[Len(entries)] /\ Len(entries) \in 0..Len(entries)
      BY <3>2, <3>3 DEF IsMirror
    <3>5. QED
      BY <3>3, <3>4 DEF IsMirror
  <2>5. \A k \in 1..Len(entries) : \E i \in 1..Len(results) : entries[k] = results[i]
    <3>1. \A k \in 1..Len(entries) : entries[k] \in ToSet(entries)
      <4>1. entries \in Seq(Outcome)
        <5>1. PICK u : IsReport(u, results)
          BY <2>1, ReportLoop
        <5>2. entries = u[Len(results)] /\ Len(results) \in 0..Len(results)
          BY <1>1, <2>1, <2>2, <5>1 DEF IsReport
        <5>3. QED
          BY <5>1, <5>2 DEF IsReport
      <4>2. DOMAIN entries = 1..Len(entries)
        BY <4>1
      <4>3. QED
        BY <4>2 DEF ToSet
    <3>2. QED
      BY <1>1, <2>1, <2>2, <3>1, ReportedFacts
  <2>6. \A x \in Dn : x[1] # "topology" => (x \in T!Present(store') <=> x \in T!Present(done.st))
    BY <2>1 DEF T!Present, Grown
  <2>. HIDE DEF done, kept, entries
  <2>7. ASSUME NEW i \in Planned(b), b[i].deleted, Quiet(results, b, DnOf(b)[i])
        PROVE  DnOf(b)[i] \in Unsaid(b, entries)
    <3>1. DnOf(b)[i] \in DeletedBy(b)
      BY <2>7 DEF DeletedBy
    <3>2. CASE \A k \in 1..Len(results) : results[k].status = "deleted" => results[k].dn # DnOf(b)[i]
      <4>1. \A k \in 1..Len(entries) : entries[k].status = "deleted" => entries[k].dn # DnOf(b)[i]
        BY <2>5, <3>2
      <4>2. QED
        BY <3>1, <4>1 DEF Unsaid
    <3>3. CASE \E k, j \in Planned(b) : /\ k # j /\ b[k].deleted /\ b[j].deleted
                                        /\ DnOf(b)[k] = DnOf(b)[i] /\ DnOf(b)[j] = DnOf(b)[i]
      BY <3>1, <3>3 DEF Unsaid
    <3>4. QED
      BY <2>7, <3>2, <3>3 DEF Quiet
  <2>8. ASSUME NEW d \in T!Present(store'), d[1] # "topology"
        PROVE  d \in kept
    <3>1. d \in Dn
      BY DEF T!Present
    <3>2. QED
      BY <2>3, <2>6, <2>8, <3>1
  <2>9. ASSUME NEW d \in kept \ T!Present(store'), d[1] # "topology"
        PROVE  \E x \in Unsaid(b, entries) : d \in T!Below(x) \ {x}
    <3>1. d \in kept \ T!Present(done.st)
      BY <2>4, <2>6, <2>9
    <3>2. PICK i \in Planned(b) : /\ b[i].deleted
                                  /\ d \in T!Below(DnOf(b)[i]) \ {DnOf(b)[i]}
                                  /\ Quiet(results, b, DnOf(b)[i])
      BY <2>3, <3>1
    <3>3. DnOf(b)[i] \in Unsaid(b, entries)
      BY <2>7, <3>2
    <3>4. QED
      BY <3>2, <3>3
  <2>10. QED
    BY <2>8, <2>9 DEF kept, entries
<1>. HIDE DEF Kept
<1>2. ASSUME Sound(store), Next, last'.kind = "post", last'.ok, last'.rsp # "no"
      PROVE  Kept(last'.body, last'.imdata)
  <2>1. CASE \E d \in Target : deleteMo(d)
    <3>1. last'.kind = "delete"
      BY <2>1 DEF deleteMo
    <3>2. QED
      BY <1>2, <3>1
  <2>2. ASSUME NEW b \in Body, \/ postRefused(b) \/ postRaised(b)
                               \/ \E rsp \in {"modified", "no"} : post(b, rsp)
        PROVE  Kept(last'.body, last'.imdata)
    <3>1. PICK rsp \in {"modified", "no"} : post(b, rsp)
      BY <1>2, <2>2 DEF postRefused, postRaised
    <3>2. last'.body = b /\ last'.rsp = rsp
      BY <3>1 DEF post
    <3>3. QED
      BY <1>1, <1>2, <3>1, <3>2
  <2>3. QED
    BY <1>2, <2>1, <2>2 DEF Next
<1>3. Sound(store) /\ [Next]_vars =>
        [Posted /\ last'.ok /\ last'.rsp # "no" =>
           LET kept == Mirror(last'.imdata, T!Present(store))
           IN  /\ \A d \in T!Present(store') : d[1] # "topology" => d \in kept
               /\ \A d \in kept \ T!Present(store') :
                    \/ d[1] = "topology"
                    \/ \E x \in Unsaid(last'.body, last'.imdata) : d \in T!Below(x) \ {x}]_vars
  BY <1>2 DEF Posted, Kept
<1>4. QED
  BY <1>3, AlwaysSound, PTL DEF Spec, MirrorFollows
-----------------------------------------------------------------------------
(* The same body again: the commit                                         *)

(* What a node asks for is the case.                                       *)
Done(st, d, node) ==
  IF node.deleted THEN M!Cleared(st, d)
  ELSE st.mo[d] # NoMO /\ (node.val # Unset => st.mo[d].val = node.val)

LEMMA WriteDone ==
  ASSUME NEW st, Sound(st), NEW d \in Dn, NEW node \in Node
  PROVE  Done(Write(st, d, node), d, node)
<1>. DEFINE old == st.mo[d]
            m   == Written(st, d, node)
            new == Write(st, d, node)
<1>1. st \in M!Store /\ M!Inv(st)
  BY SameNames, Zenon DEF Sound
<1>2. CASE node.deleted
  <2>1. new = M!RemoveSubtree(st, d)
    BY <1>2, SameRemove DEF Write
  <2>2. M!Cleared(M!RemoveSubtree(st, d), d)
    BY <1>1, M!RemoveClears, StoreAssumptions, Zenon
  <2>3. QED
    BY <1>2, <2>1, <2>2 DEF Done
<1>3. CASE ~ node.deleted
  <2>1. new.mo = [x \in Dn |-> IF x = d THEN Merged(old, m) ELSE st.mo[x]]
    BY <1>3, WriteFacts, ZenonT(30)
  <2>2. m \in T!MO /\ (node.val # Unset => m.val = node.val)
    BY WrittenFacts DEF Written
  <2>3. old \in T!MO \cup {NoMO} /\ NoMO \notin T!MO
    BY StoreAssumption DEF Sound, T!Store
  <2>. HIDE DEF m, old, new
  <2>4. new.mo[d] = Merged(old, m)
    BY <2>1
  <2>5. Merged(old, m) \in T!MO
    BY <2>2, <2>3 DEF Merged, T!MO
  <2>6. node.val # Unset => Merged(old, m).val = node.val
    BY <2>2 DEF Merged
  <2>7. new.mo[d] # NoMO /\ (node.val # Unset => new.mo[d].val = node.val)
    BY <2>3, <2>4, <2>5, <2>6
  <2>8. QED
    BY <1>3, <2>7 DEF Done, new
<1>4. QED
  BY <1>2, <1>3

(* A node that does not touch d leaves what another asked for there.       *)
LEMMA DoneThroughWrite ==
  ASSUME NEW st, Sound(st), NEW d \in Dn, NEW node \in Node, Done(st, d, node),
         NEW e \in Dn, NEW other \in Node, e # d,
         node.deleted => e \notin T!Below(d), other.deleted => d \notin T!Below(e)
  PROVE  Done(Write(st, e, other), d, node)
<1>. DEFINE m   == Written(st, e, other)
            new == Write(st, e, other)
<1>1. st \in M!Store /\ M!Inv(st) /\ m \in M!MO
  BY WrittenFacts, SameNames, Zenon DEF Sound
<1>2. \A x : T!Below(x) = M!Below(x)
  BY SameNames
<1>3. CASE node.deleted
  <2>1. M!Cleared(st, d) /\ e \notin M!Below(d)
    BY <1>2, <1>3 DEF Done
  <2>2. M!Cleared(M!RemoveSubtree(st, e), d)
    BY <1>1, <2>1, M!ClearedThroughRemoval, StoreAssumptions, Zenon
  <2>3. M!Cleared(M!UpsertOne(st, e, m), d)
    BY <1>1, <2>1, M!ClearedThroughUpsert, StoreAssumptions, Zenon
  <2>4. new = M!RemoveSubtree(st, e) \/ new = M!UpsertOne(st, e, m)
    BY SameRemove, SameUpsert DEF Write
  <2>5. QED
    BY <1>3, <2>2, <2>3, <2>4 DEF Done
<1>4. CASE ~ node.deleted
  <2>1. new.mo[d] = st.mo[d]
    <3>1. new.mo = IF other.deleted
                     THEN [x \in Dn |-> IF x \in T!Below(e) THEN NoMO ELSE st.mo[x]]
                     ELSE [x \in Dn |-> IF x = e THEN Merged(st.mo[e], m) ELSE st.mo[x]]
      BY WriteFacts
    <3>. HIDE DEF new, m
    <3>2. QED
      BY <3>1
  <2>2. QED
    BY <1>4, <2>1 DEF Done
<1>5. QED
  BY <1>3, <1>4

(* To write what is the case does nothing, and is reported as that.        *)
LEMMA WriteAgain ==
  ASSUME NEW st, Sound(st), NEW d \in Dn, NEW node \in Node, Done(st, d, node)
  PROVE  Write(st, d, node) = st /\ Status(st, d, node) = "unchanged"
<1>1. st \in M!Store /\ M!Inv(st) /\ Get(st, d) = st.mo[d]
  BY SameNames, Zenon DEF Sound, Get
<1>2. CASE node.deleted
  <2>1. M!Cleared(st, d)
    BY <1>2 DEF Done
  <2>2. M!RemoveSubtree(st, d) = st
    BY <1>1, <2>1, M!RemoveAgain, StoreAssumptions, Zenon
  <2>3. st.mo[d] = NoMO
    <3>1. d \in M!Below(d)
      BY StoreAssumption DEF M!Below
    <3>2. QED
      BY <2>1, <3>1 DEF M!Cleared
  <2>4. QED
    BY <1>1, <1>2, <2>2, <2>3, SameRemove DEF Write, Status
<1>3. CASE ~ node.deleted
  <2>. DEFINE m == Written(st, d, node)
  <2>1. st.mo[d] # NoMO /\ (node.val # Unset => node.val = st.mo[d].val)
    BY <1>3 DEF Done
  <2>2. m.val = node.val /\ d \in M!Present(st)
    BY <1>1, <2>1 DEF Written, M!Present
  <2>3. m.val = Unset \/ m.val = st.mo[d].val
    BY <2>1, <2>2
  <2>4. Write(st, d, node) = M!UpsertOne(st, d, m)
    BY <1>3, SameUpsert DEF Write
  <2>5. Status(st, d, node) = "unchanged"
    BY <1>1, <1>3, <2>1 DEF Status
  <2>. HIDE DEF m
  <2>6. M!UpsertOne(st, d, m) = st
    BY <1>1, <2>2, <2>3, M!UpsertAgain, StoreAssumptions, Zenon
  <2>7. QED
    BY <2>4, <2>5, <2>6
<1>4. QED
  BY <1>2, <1>3

(* After the commit of a plain body, what its nodes ask for is the case.   *)
AllDone(st, b, n) == \A i \in Planned(b) : i <= n => Done(st, DnOf(b)[i], b[i])

LEMMA CommitDone ==
  ASSUME NEW st, Sound(st), NEW b \in Body, Plain(b), ~ Commit(st, b).raised
  PROVE  AllDone(Commit(st, b).st, b, Len(b))
<1>1. PICK f : IsCommit(f, st, b)
  BY CommitLoop
<1>. DEFINE n == Len(b)
            S == {i \in 0..n : ~ f[i].raised => AllDone(f[i].st, b, i)}
<1>2. n \in Nat /\ Planned(b) \subseteq 1..n
  BY NodeFacts
<1>3. \A i \in 0..n : f[i] \in Progress
  BY <1>1 DEF IsCommit
<1>4. 0 \in S
  BY <1>2 DEF AllDone
<1>5. ASSUME NEW i \in 0..(n - 1), i \in S
      PROVE  i + 1 \in S
  <2>. DEFINE j == i + 1
  <2>1. j \in 1..n /\ j \in 0..n /\ j - 1 = i /\ \A k \in Planned(b) : k <= j <=> k = j \/ k <= i
    BY <1>2
  <2>. HIDE DEF j
  <2>2. f[j] = CommitNode(f[i], b, j) /\ f[i] \in Progress /\ Sound(f[i].st)
    BY <1>1, <1>2, <1>3, <2>1 DEF IsCommit, Progress
  <2>3. SUFFICES ASSUME ~ f[j].raised PROVE AllDone(f[j].st, b, j)
    BY <2>1 DEF j
  <2>4. /\ ~ f[i].raised
        /\ j \notin Planned(b) => f[j] = f[i]
        /\ j \in Planned(b) => f[j].st = Write(f[i].st, DnOf(b)[j], b[j])
    BY <2>1, <2>2, <2>3, TurnFacts
  <2>5. AllDone(f[i].st, b, i)
    BY <1>5, <2>4
  <2>6. ASSUME NEW k \in Planned(b), k <= j
        PROVE  Done(f[j].st, DnOf(b)[k], b[k])
    <3>1. b[k] \in Node /\ DnOf(b)[k] \in Dn /\ b[j] \in Node /\ DnOf(b)[j] \in Dn
      BY <1>2, <2>1, NodeFacts
    <3>2. CASE j \notin Planned(b)
      BY <2>1, <2>4, <2>5, <2>6, <3>2 DEF AllDone
    <3>3. CASE j \in Planned(b) /\ k = j
      BY <2>2, <2>4, <3>1, <3>3, WriteDone
    <3>4. CASE j \in Planned(b) /\ k # j
      <4>1. Done(f[i].st, DnOf(b)[k], b[k])
        BY <2>1, <2>5, <2>6, <3>4 DEF AllDone
      <4>2. /\ DnOf(b)[j] # DnOf(b)[k]
            /\ b[k].deleted => DnOf(b)[j] \notin T!Below(DnOf(b)[k])
            /\ b[j].deleted => DnOf(b)[k] \notin T!Below(DnOf(b)[j])
        BY <3>4 DEF Plain
      <4>3. QED
        BY <2>2, <2>4, <3>1, <3>4, <4>1, <4>2, DoneThroughWrite
    <3>5. QED
      BY <3>2, <3>3, <3>4
  <2>7. QED
    BY <2>6 DEF AllDone
<1>. HIDE DEF S
<1>6. 0..n \subseteq S
  BY <1>2, <1>4, <1>5, BoundedInduction
<1>7. n \in S
  BY <1>2, <1>6
<1>8. Commit(st, b) = f[n]
  BY <1>1 DEF IsCommit
<1>9. QED
  BY <1>7, <1>8 DEF S

(* Two lists of results that differ in the statuses at most                *)
Alike(r, q) ==
  /\ Len(q) = Len(r)
  /\ \A k \in 1..Len(r) : /\ q[k].cls = r[k].cls /\ q[k].dn = r[k].dn
                          /\ q[k].val = r[k].val /\ q[k].deleted = r[k].deleted

LEMMA AlikeAppend ==
  ASSUME NEW r \in Seq(Outcome), NEW q \in Seq(Outcome), Alike(r, q),
         NEW b, NEW n, NEW out \in Outcome, NEW again \in Outcome,
         Matches(out, b, n), Matches(again, b, n)
  PROVE  Alike(Append(r, out), Append(q, again))
<1>1. /\ Len(r) \in Nat /\ Len(Append(r, out)) = Len(r) + 1
      /\ \A i \in 1..Len(r) : Append(r, out)[i] = r[i]
      /\ Append(r, out)[Len(r) + 1] = out
  BY AppendFacts
<1>2. /\ Len(q) \in Nat /\ Len(Append(q, again)) = Len(q) + 1
      /\ \A i \in 1..Len(q) : Append(q, again)[i] = q[i]
      /\ Append(q, again)[Len(q) + 1] = again
  BY AppendFacts
<1>3. \A i : i \in 1..(Len(r) + 1) <=> i \in 1..Len(r) \/ i = Len(r) + 1
  BY <1>1
<1>4. QED
  BY <1>1, <1>2, <1>3 DEF Alike, Matches

(* Where every node has its way, a commit repeats the results and does     *)
(* nothing.                                                                *)
Idle(st, acc, again) ==
  /\ ~ again.raised /\ again.st = st /\ Alike(acc.results, again.results)
  /\ \A k \in 1..Len(again.results) : again.results[k].status = "unchanged"

LEMMA IdleStep ==
  ASSUME NEW st, Sound(st), NEW b \in Body, AllDone(st, b, Len(b)), NEW n \in 1..Len(b),
         NEW acc \in Progress, ~ CommitNode(acc, b, n).raised,
         NEW again \in Progress, Idle(st, acc, again)
  PROVE  Idle(st, CommitNode(acc, b, n), CommitNode(again, b, n))
<1>. DEFINE new == CommitNode(acc, b, n)
            anew == CommitNode(again, b, n)
            d == DnOf(b)[n]
<1>1. ~ acc.raised /\ ~ again.raised /\ again.st = st
  BY TurnFacts DEF Idle
<1>2. CASE n \notin Planned(b)
  <2>1. new = acc /\ anew = again
    BY <1>2 DEF CommitNode
  <2>2. QED
    BY <2>1
<1>3. CASE n \in Planned(b)
  <2>1. b[n].flaw # "name"
    BY <1>1, <1>3 DEF CommitNode, Progress
  <2>2. ~ anew.raised
    BY <1>1, <1>3, <2>1 DEF CommitNode
  <2>. HIDE DEF new, anew
  <2>3. PICK out \in Outcome : Matches(out, b, n) /\ new.results = Append(acc.results, out)
    BY <1>3, TurnFacts DEF new
  <2>4. PICK o \in Outcome : /\ Matches(o, b, n) /\ o.status = Status(again.st, d, b[n])
                             /\ anew.results = Append(again.results, o)
                             /\ anew.st = Write(again.st, d, b[n])
    BY <1>3, <2>2, TurnFacts DEF anew
  <2>5. Done(st, d, b[n]) /\ d \in Dn /\ b[n] \in Node
    BY <1>3, NodeFacts DEF AllDone
  <2>6. anew.st = st /\ o.status = "unchanged"
    BY <1>1, <2>4, <2>5, WriteAgain
  <2>7. acc.results \in Seq(Outcome) /\ again.results \in Seq(Outcome)
    BY DEF Progress
  <2>8. Alike(acc.results, again.results)
        /\ \A k \in 1..Len(again.results) : again.results[k].status = "unchanged"
    BY DEF Idle
  <2>9. Alike(new.results, anew.results)
    BY <2>3, <2>4, <2>7, <2>8, AlikeAppend
  <2>10. ASSUME NEW k \in 1..Len(anew.results)
         PROVE  anew.results[k].status = "unchanged"
    <3>. DEFINE s == again.results
    <3>1. /\ Len(Append(s, o)) = Len(s) + 1 /\ Len(s) \in Nat
          /\ \A i \in 1..Len(s) : Append(s, o)[i] = s[i]
          /\ Append(s, o)[Len(s) + 1] = o
      BY <2>7, AppendFacts
    <3>2. k \in 1..Len(s) \/ k = Len(s) + 1
      BY <2>4, <3>1
    <3>3. QED
      BY <2>4, <2>6, <2>8, <3>1, <3>2
  <2>11. QED
    BY <2>2, <2>6, <2>9, <2>10 DEF Idle, new, anew
<1>4. QED
  BY <1>2, <1>3

LEMMA CommitIdle ==
  ASSUME NEW start, Sound(start), NEW b \in Body, ~ Commit(start, b).raised,
         NEW st, Sound(st), AllDone(st, b, Len(b))
  PROVE  Idle(st, Commit(start, b), Commit(st, b))
<1>1. PICK f : IsCommit(f, start, b)
  BY CommitLoop
<1>2. PICK g : IsCommit(g, st, b)
  BY CommitLoop
<1>. DEFINE n == Len(b)
            S == {i \in 0..n : ~ f[i].raised => Idle(st, f[i], g[i])}
<1>3. n \in Nat /\ \A i \in 0..n : f[i] \in Progress /\ g[i] \in Progress
  BY <1>1, <1>2, NodeFacts DEF IsCommit
<1>4. 0 \in S
  <2>1. f[0].results = <<>> /\ g[0] = [st |-> st, results |-> <<>>, raised |-> FALSE]
    BY <1>1, <1>2 DEF IsCommit
  <2>2. QED
    BY <1>3, <2>1 DEF Idle, Alike
<1>5. ASSUME NEW i \in 0..(n - 1), i \in S
      PROVE  i + 1 \in S
  <2>. DEFINE j == i + 1
  <2>1. j \in 1..n /\ j \in 0..n /\ j - 1 = i /\ i \in 0..n
    BY <1>3
  <2>. HIDE DEF j
  <2>2. f[j] = CommitNode(f[i], b, j) /\ g[j] = CommitNode(g[i], b, j)
    BY <1>1, <1>2, <2>1 DEF IsCommit
  <2>3. f[i] \in Progress /\ g[i] \in Progress
    BY <1>3, <2>1
  <2>4. ASSUME ~ f[j].raised PROVE Idle(st, f[j], g[j])
    <3>1. ~ f[i].raised
      BY <2>1, <2>2, <2>3, <2>4, TurnFacts
    <3>2. Idle(st, f[i], g[i])
      BY <1>5, <3>1
    <3>3. QED
      BY <2>1, <2>2, <2>3, <2>4, <3>2, IdleStep
  <2>5. QED
    BY <2>1, <2>4 DEF j
<1>. HIDE DEF S
<1>6. 0..n \subseteq S
  BY <1>3, <1>4, <1>5, BoundedInduction
<1>7. n \in S
  BY <1>3, <1>6
<1>8. Commit(start, b) = f[n] /\ Commit(st, b) = g[n]
  BY <1>1, <1>2 DEF IsCommit
<1>9. QED
  BY <1>7, <1>8 DEF S
-----------------------------------------------------------------------------
(* The same body again: the reactions                                      *)

(* What reactions keep, besides what Grown says: the classes of MOs, and   *)
(* that what is gone elsewhere than below topology stays gone.             *)
Heir(st, new) ==
  /\ Sound(st) /\ Sound(new)
  /\ \A x \in Dn : st.mo[x] # NoMO => new.mo[x] # NoMO /\ new.mo[x].class = st.mo[x].class
  /\ \A d \in Dn : d[1] # "topology" /\ M!Cleared(st, d) => M!Cleared(new, d)

(* A store on the way from s to s, while the same upserts lead from where  *)
(* they first began over u to s: an MO is as in s until it is written, and *)
(* then as in u until both are as in s.                                    *)
Between(v, u, s) ==
  /\ v.kids = s.kids /\ v.before = s.before
  /\ \A x \in Dn : \/ v.mo[x] = s.mo[x]
                   \/ u.mo[x] # NoMO /\ v.mo[x] = u.mo[x]

(* What leads from u to u2 and from v to v2, done again.                   *)
Again(u, u2, v, v2) ==
  /\ Heir(u, u2) /\ Sound(v2)
  /\ \A s : Between(v, u, s) /\ Heir(u2, s) => Between(v2, u2, s)

LEMMA AgainSame ==
  ASSUME NEW u, Sound(u), NEW v, Sound(v)
  PROVE  Again(u, u, v, v)
BY DEF Again, Heir

LEMMA HeirTransitive ==
  ASSUME NEW a, NEW b, NEW c, Heir(a, b), Heir(b, c)
  PROVE  Heir(a, c)
BY DEF Heir

LEMMA AgainTransitive ==
  ASSUME NEW a, NEW b, NEW c, NEW x, NEW y, NEW z, Again(a, b, x, y), Again(b, c, y, z)
  PROVE  Again(a, c, x, z)
<1>1. Heir(a, b) /\ Heir(b, c) /\ Sound(z)
  BY DEF Again
<1>2. Heir(a, c)
  BY <1>1, HeirTransitive
<1>3. ASSUME NEW s, Between(x, a, s), Heir(c, s)
      PROVE  Between(z, c, s)
  <2>1. Heir(b, s)
    BY <1>1, <1>3, HeirTransitive
  <2>2. Between(y, b, s)
    BY <1>3, <2>1 DEF Again
  <2>3. QED
    BY <1>3, <2>2 DEF Again
<1>4. QED
  BY <1>1, <1>2, <1>3 DEF Again

LEMMA UpsertHeir ==
  ASSUME NEW u, Sound(u), NEW d \in Dn, d[1] = "topology", NEW m \in T!MO
  PROVE  Heir(u, T!UpsertOne(u, d, m)) /\ T!UpsertOne(u, d, m).mo[d] # NoMO
<1>. DEFINE new == T!UpsertOne(u, d, m)
<1>1. Sound(new) /\ new.mo = [x \in Dn |-> IF x = d THEN Merged(u.mo[d], m) ELSE u.mo[x]]
  BY UpsertFacts
<1>2. new.mo[d] # NoMO
  BY UpsertGrows
<1>3. ASSUME NEW e \in Dn, e[1] # "topology", M!Cleared(u, e)
      PROVE  M!Cleared(new, e)
  <2>1. d \notin M!Below(e)
    <3>1. e \in Seq(Rn) /\ e # <<>> /\ d \in Seq(Rn)
      BY StoreAssumption
    <3>2. SUFFICES ASSUME Len(e) <= Len(d), SubSeq(d, 1, Len(e)) = e PROVE FALSE
      BY DEF M!Below
    <3>3. SubSeq(d, 1, Len(e))[1] = d[1]
      BY <3>1, <3>2
    <3>4. QED
      BY <1>3, <3>2, <3>3
  <2>2. u \in M!Store /\ M!Inv(u) /\ m \in M!MO
    BY SameNames, Zenon DEF Sound
  <2>4. M!Cleared(M!UpsertOne(u, d, m), e)
    BY <1>3, <2>1, <2>2, M!ClearedThroughUpsert, StoreAssumptions, Zenon
  <2>5. QED
    BY <2>4, SameUpsert
<1>. HIDE DEF new
<1>4. \A x \in Dn : u.mo[x] # NoMO => new.mo[x] # NoMO /\ new.mo[x].class = u.mo[x].class
  BY <1>1, <1>2 DEF Merged
<1>5. QED
  BY <1>1, <1>2, <1>3, <1>4 DEF Heir, new

LEMMA UpsertTwice ==
  ASSUME NEW u, Sound(u), NEW v, Sound(v), NEW d \in Dn, d[1] = "topology", NEW m \in T!MO
  PROVE  Again(u, T!UpsertOne(u, d, m), v, T!UpsertOne(v, d, m))
<1>. DEFINE u2 == T!UpsertOne(u, d, m)
            v2 == T!UpsertOne(v, d, m)
<1>1. Heir(u, u2) /\ u2.mo[d] # NoMO
  BY UpsertHeir
<1>2. /\ u2.mo = [x \in Dn |-> IF x = d THEN Merged(u.mo[d], m) ELSE u.mo[x]]
      /\ v2.mo = [x \in Dn |-> IF x = d THEN Merged(v.mo[d], m) ELSE v.mo[x]]
      /\ Sound(v2)
  BY UpsertFacts
<1>3. v.mo[d] # NoMO => v2.kids = v.kids /\ v2.before = v.before
  <2>1. v.mo[d] # NoMO => v2 = [v EXCEPT !.mo[d].val = IF m.val = Unset THEN @ ELSE m.val]
    BY DEF T!UpsertOne, T!Present
  <2>2. v \in T!Store
    BY DEF Sound
  <2>. HIDE DEF v2
  <2>3. QED
    BY <2>1, <2>2 DEF T!Store
<1>. HIDE DEF u2, v2
<1>4. ASSUME NEW s, Between(v, u, s), Heir(u2, s)
      PROVE  Between(v2, u2, s)
  <2>1. s.mo[d] # NoMO /\ s.mo[d].class = u2.mo[d].class /\ Sound(s)
    BY <1>1, <1>4 DEF Heir
  <2>2. v.mo[d] # NoMO
    BY <1>4, <2>1 DEF Between
  <2>3. v2.kids = s.kids /\ v2.before = s.before
    BY <1>3, <1>4, <2>2 DEF Between
  <2>4. s.mo[d] \in T!MO
    BY <2>1 DEF Sound, T!Store
  <2>5. v2.mo[d] = s.mo[d] \/ v2.mo[d] = u2.mo[d]
    <3>1. u2.mo[d] = Merged(u.mo[d], m) /\ v2.mo[d] = Merged(v.mo[d], m)
      BY <1>2
    <3>2. CASE v.mo[d] = u.mo[d]
      BY <3>1, <3>2
    <3>3. CASE v.mo[d] = s.mo[d]
      <4>1. v2.mo[d] = [class |-> s.mo[d].class, val |-> IF m.val = Unset THEN s.mo[d].val ELSE m.val]
        BY <2>1, <3>1, <3>3 DEF Merged
      <4>2. CASE m.val = Unset
        <5>1. v2.mo[d] = [class |-> s.mo[d].class, val |-> s.mo[d].val]
          BY <4>1, <4>2
        <5>2. QED
          BY <2>4, <5>1 DEF T!MO
      <4>3. CASE m.val # Unset
        <5>1. v2.mo[d] = [class |-> u2.mo[d].class, val |-> m.val]
          BY <2>1, <4>1, <4>3
        <5>2. u2.mo[d] \in T!MO /\ u2.mo[d].val = m.val
          <6>1. u2.mo[d].val = m.val
            BY <3>1, <4>3 DEF Merged
          <6>2. u2.mo[d] \in T!MO
            BY <1>1 DEF Heir, Sound, T!Store
          <6>3. QED
            BY <6>1, <6>2
        <5>3. QED
          BY <5>1, <5>2 DEF T!MO
      <4>4. QED
        BY <4>2, <4>3
    <3>4. QED
      BY <1>4, <3>2, <3>3 DEF Between
  <2>6. \A x \in Dn : x # d => v2.mo[x] = v.mo[x] /\ u2.mo[x] = u.mo[x]
    BY <1>2
  <2>7. QED
    BY <1>1, <1>4, <2>3, <2>5, <2>6 DEF Between
<1>5. QED
  BY <1>1, <1>2, <1>4 DEF Again, u2, v2

LEMMA RegisterNodeTwice ==
  ASSUME NEW u, Sound(u), NEW v, Sound(v), NEW r \in Outcome, IsNode(r)
  PROVE  Again(u, RegisterNode(u, r), v, RegisterNode(v, r))
<1>. DEFINE d    == NodeDn[RnOf(r.dn)]
            e    == Append(d, "sys")
            name == IF r.val = Unset THEN LeafName ELSE r.val
            m    == [class |-> "fabricNode", val |-> name]
            sys  == [class |-> "topSystem", val |-> name]
            u1   == T!UpsertOne(u, d, m)
            v1   == T!UpsertOne(v, d, m)
<1>1. /\ d \in Dn /\ d[1] = "topology" /\ e \in Dn
      /\ {"fabricNode", "topSystem"} \subseteq Class
  BY ReactionAssumption DEF IsNode
<1>2. m \in T!MO /\ sys \in T!MO
  BY <1>1, ValueAssumption DEF Outcome, T!MO
<1>3. e[1] = "topology"
  <2>1. d \in Seq(Rn) /\ d # <<>>
    BY <1>1, StoreAssumption
  <2>2. QED
    BY <1>1, <2>1
<1>4. RegisterNode(u, r) = T!UpsertOne(u1, e, sys) /\ RegisterNode(v, r) = T!UpsertOne(v1, e, sys)
  BY DEF RegisterNode
<1>. HIDE DEF d, e, m, sys
<1>5. Again(u, u1, v, v1)
  BY <1>1, <1>2, UpsertTwice
<1>. HIDE DEF u1, v1
<1>6. Sound(u1) /\ Sound(v1)
  BY <1>5 DEF Again, Heir
<1>7. Again(u1, T!UpsertOne(u1, e, sys), v1, T!UpsertOne(v1, e, sys))
  BY <1>1, <1>2, <1>3, <1>6, UpsertTwice
<1>8. QED
  BY <1>4, <1>5, <1>7, AgainTransitive

LEMMA RegisterNodesTwice ==
  ASSUME NEW u, Sound(u), NEW v, Sound(v),
         NEW r \in Seq(Outcome), NEW q \in Seq(Outcome), Alike(r, q)
  PROVE  Again(u, RegisterNodes(u, r), v, RegisterNodes(v, q))
<1>1. PICK f : IsRegistration(f, u, r)
  BY RegistrationLoop
<1>2. PICK g : IsRegistration(g, v, q)
  BY RegistrationLoop
<1>. DEFINE n == Len(r)
            S == {i \in 0..n : Again(u, f[i], v, g[i])}
<1>3. n \in Nat /\ Len(q) = n /\ \A i \in 1..n : r[i] \in Outcome /\ q[i] \in Outcome
  BY DEF Alike
<1>4. 0 \in S
  <2>1. f[0] = u /\ g[0] = v
    BY <1>1, <1>2 DEF IsRegistration
  <2>2. Again(u, u, v, v)
    BY AgainSame
  <2>3. QED
    BY <1>3, <2>1, <2>2
<1>5. ASSUME NEW i \in 0..(n - 1), i \in S
      PROVE  i + 1 \in S
  <2>. DEFINE j == i + 1
  <2>1. j \in 1..n /\ j \in 0..n /\ j - 1 = i
    BY <1>3
  <2>. HIDE DEF j
  <2>2. /\ f[j] = IF IsNode(r[j]) THEN RegisterNode(f[i], r[j]) ELSE f[i]
        /\ g[j] = IF IsNode(q[j]) THEN RegisterNode(g[i], q[j]) ELSE g[i]
    BY <1>1, <1>2, <1>3, <2>1 DEF IsRegistration
  <2>3. IsNode(q[j]) = IsNode(r[j]) /\ RegisterNode(g[i], q[j]) = RegisterNode(g[i], r[j])
    BY <2>1 DEF Alike, IsNode, RegisterNode
  <2>4. Again(u, f[i], v, g[i])
    BY <1>5
  <2>5. Sound(f[i]) /\ Sound(g[i])
    BY <2>4 DEF Again, Heir
  <2>6. Again(f[i], f[j], g[i], g[j])
    <3>1. CASE IsNode(r[j])
      <4>1. f[j] = RegisterNode(f[i], r[j]) /\ g[j] = RegisterNode(g[i], r[j])
        BY <2>2, <2>3, <3>1
      <4>2. QED
        BY <1>3, <2>1, <2>5, <3>1, <4>1, RegisterNodeTwice
    <3>2. CASE ~ IsNode(r[j])
      <4>1. f[j] = f[i] /\ g[j] = g[i]
        BY <2>2, <2>3, <3>2
      <4>2. QED
        BY <2>5, <4>1, AgainSame
    <3>3. QED
      BY <3>1, <3>2
  <2>7. Again(u, f[j], v, g[j])
    BY <2>4, <2>6, AgainTransitive
  <2>8. QED
    BY <2>1, <2>7 DEF j
<1>. HIDE DEF S
<1>6. 0..n \subseteq S
  BY <1>3, <1>4, <1>5, BoundedInduction
<1>7. n \in S
  BY <1>3, <1>6
<1>8. RegisterNodes(u, r) = f[n] /\ RegisterNodes(v, q) = g[n]
  BY <1>1, <1>2, <1>3 DEF IsRegistration
<1>9. QED
  BY <1>7, <1>8 DEF S

LEMMA RegisterSessionTwice ==
  ASSUME NEW u, Sound(u), NEW v, Sound(v), NEW d \in Dn, PeerOK(d), NEW asn \in Val,
         Len(d) >= 4 => VrfOf(v, d) = VrfOf(u, d)
  PROVE  Again(u, RegisterSession(u, d, asn), v, RegisterSession(v, d, asn))
<1>. DEFINE vrf  == VrfOf(u, d)
            s    == SessionDn(d, vrf)
            s1   == SubSeq(s, 1, 1)
            s2   == SubSeq(s, 1, 2)
            mi   == [class |-> "bgpInst", val |-> Unset]
            md   == [class |-> "bgpDom", val |-> vrf]
            mp   == [class |-> "bgpPeer", val |-> asn]
            u1   == T!UpsertOne(u, s1, mi)
            u2   == T!UpsertOne(u1, s2, md)
            u3   == T!UpsertOne(u2, s, mp)
            v1   == T!UpsertOne(v, s1, mi)
            v2   == T!UpsertOne(v1, s2, md)
            v3   == T!UpsertOne(v2, s, mp)
<1>1. Len(d) \in Nat
  BY StoreAssumption
<1>2. CASE Len(d) < 4
  <2>1. RegisterSession(u, d, asn) = u /\ RegisterSession(v, d, asn) = v
    BY <1>2 DEF RegisterSession
  <2>2. QED
    BY <2>1, AgainSame
<1>3. CASE ~ (Len(d) < 4)
  <2>1. VrfOf(v, d) = vrf
    BY <1>1, <1>3
  <2>2. CASE vrf = Blank
    <3>1. RegisterSession(u, d, asn) = u /\ RegisterSession(v, d, asn) = v
      BY <2>1, <2>2 DEF RegisterSession
    <3>2. QED
      BY <3>1, AgainSame
  <2>3. CASE vrf # Blank
    <3>1. vrf \in Val \ {Blank} /\ s \in Dn
      BY <1>1, <1>3, <2>3, VrfType DEF PeerOK
    <3>2. RegisterSession(u, d, asn) = u3 /\ RegisterSession(v, d, asn) = v3
      BY <1>3, <2>1, <2>3 DEF RegisterSession
    <3>3. s = <<"topology", vrf, RnOf(d)>>
      BY DEF SessionDn
    <3>. HIDE DEF vrf, s
    <3>4. s \in Seq(Rn) /\ Len(s) = 3 /\ s[1] = "topology"
      BY <3>1, <3>3, StoreAssumption
    <3>5. s1 \in Dn /\ s1[1] = "topology" /\ s2 \in Dn /\ s2[1] = "topology"
      <4>1. 1 \in 1..Len(s) /\ 2 \in 1..Len(s)
        BY <3>4
      <4>2. s1 \in Dn /\ s2 \in Dn
        BY <3>1, <4>1, StoreAssumption
      <4>3. QED
        BY <3>4, <4>2
    <3>6. mi \in T!MO /\ md \in T!MO /\ mp \in T!MO
      BY <3>1 DEF PeerOK, T!MO
    <3>. HIDE DEF s1, s2, mi, md, mp
    <3>7. Again(u, u1, v, v1)
      BY <3>5, <3>6, UpsertTwice
    <3>. HIDE DEF u1, v1
    <3>8. Again(u1, u2, v1, v2)
      BY <3>5, <3>6, <3>7, UpsertTwice DEF Again, Heir
    <3>. HIDE DEF u2, v2
    <3>9. Sound(u2) /\ Sound(v2)
      BY <3>8 DEF Again, Heir
    <3>10. Again(u2, u3, v2, v3)
      BY <3>1, <3>4, <3>6, <3>9, UpsertTwice
    <3>. HIDE DEF u3, v3
    <3>11. Again(u, u2, v, v2)
      BY <3>7, <3>8, AgainTransitive
    <3>12. QED
      BY <3>2, <3>10, <3>11, AgainTransitive
  <2>4. QED
    BY <2>2, <2>3
<1>4. QED
  BY <1>2, <1>3

LEMMA AsnAlike ==
  ASSUME NEW r \in Seq(Outcome), NEW q \in Seq(Outcome), Alike(r, q), NEW d \in Dn
  PROVE  AsnIn(q, d) = AsnIn(r, d)
<1>. DEFINE Under(s) == {k \in 1..Len(s) : /\ s[k].cls = "bgpAsP"
                                           /\ s[k].dn \in T!Below(d) \ {d}}
<1>1. Under(q) = Under(r)
  BY DEF Alike
<1>2. Under(r) # {} => Min(Under(r)) \in 1..Len(r)
  <2>1. Under(r) \in SUBSET Nat /\ Under(r) \subseteq 1..Len(r)
    OBVIOUS
  <2>. HIDE DEF Under
  <2>2. QED
    BY <2>1, LeastPlace
<1>3. \A s : AsnIn(s, d) = IF Under(s) = {} \/ s[Min(Under(s))].val = Unset THEN Blank
                           ELSE s[Min(Under(s))].val
  BY DEF AsnIn
<1>. HIDE DEF Under
<1>4. Under(r) # {} => q[Min(Under(r))].val = r[Min(Under(r))].val
  BY <1>2 DEF Alike
<1>5. QED
  BY <1>1, <1>3, <1>4, Zenon

LEMMA PeerTurnTwice ==
  ASSUME NEW u, Sound(u), NEW v, Sound(v), SameOuts(u, v),
         NEW r \in Seq(Outcome), NEW q \in Seq(Outcome), Alike(r, q), PeersOK(r),
         NEW i \in 1..Len(r)
  PROVE  Again(u, PeerTurn(u, r, i), v, PeerTurn(v, q, i))
<1>. DEFINE d   == r[i].dn
            asn == AsnIn(r, d)
<1>1. d \in Dn
  <2>1. r[i] \in Outcome
    OBVIOUS
  <2>2. QED
    BY <2>1 DEF Outcome
<1>2. asn \in Val /\ AsnIn(q, d) = asn
  BY <1>1, AsnType, AsnAlike
<1>3. IsPeer(q[i]) = IsPeer(r[i]) /\ q[i].dn = d
  BY DEF Alike, IsPeer
<1>4. /\ PeerTurn(u, r, i) = IF IsPeer(r[i]) THEN RegisterSession(u, d, asn) ELSE u
      /\ PeerTurn(v, q, i) = IF IsPeer(r[i]) THEN RegisterSession(v, d, asn) ELSE v
  <2>1. PeerTurn(v, q, i) = IF IsPeer(q[i]) THEN RegisterSession(v, d, AsnIn(q, d)) ELSE v
    BY <1>3 DEF PeerTurn
  <2>2. QED
    BY <1>2, <1>3, <2>1 DEF PeerTurn
<1>5. IsPeer(r[i]) => PeerOK(d)
  BY DEF PeersOK
<1>6. Len(d) >= 4 => VrfOf(v, d) = VrfOf(u, d)
  BY <1>1, VrfSame
<1>. HIDE DEF d, asn
<1>7. CASE IsPeer(r[i])
  <2>1. Again(u, RegisterSession(u, d, asn), v, RegisterSession(v, d, asn))
    BY <1>1, <1>2, <1>5, <1>6, <1>7, RegisterSessionTwice
  <2>2. QED
    BY <1>4, <1>7, <2>1
<1>8. CASE ~ IsPeer(r[i])
  <2>1. PeerTurn(u, r, i) = u /\ PeerTurn(v, q, i) = v
    BY <1>4, <1>8
  <2>2. QED
    BY <2>1, AgainSame
<1>9. QED
  BY <1>7, <1>8

LEMMA RegisterPeersTwice ==
  ASSUME NEW u, Sound(u), NEW v, Sound(v), SameOuts(u, v),
         NEW r \in Seq(Outcome), NEW q \in Seq(Outcome), Alike(r, q), PeersOK(r), PeersOK(q)
  PROVE  Again(u, RegisterPeers(u, r), v, RegisterPeers(v, q))
<1>1. PICK f : IsPeering(f, u, r)
  BY PeeringLoop
<1>2. PICK g : IsPeering(g, v, q)
  BY PeeringLoop
<1>. DEFINE n == Len(r)
            S == {i \in 0..n : Again(u, f[i], v, g[i]) /\ SameOuts(u, f[i]) /\ SameOuts(v, g[i])}
<1>3. n \in Nat /\ Len(q) = n
  BY DEF Alike
<1>4. 0 \in S
  <2>1. f[0] = u /\ g[0] = v
    BY <1>1, <1>2 DEF IsPeering
  <2>2. Again(u, u, v, v) /\ SameOuts(u, u) /\ SameOuts(v, v)
    BY AgainSame DEF SameOuts
  <2>3. QED
    BY <1>3, <2>1, <2>2
<1>5. ASSUME NEW i \in 0..(n - 1), i \in S
      PROVE  i + 1 \in S
  <2>. DEFINE j == i + 1
  <2>1. j \in 1..n /\ j \in 0..n /\ j - 1 = i
    BY <1>3
  <2>. HIDE DEF j
  <2>2. f[j] = PeerTurn(f[i], r, j) /\ g[j] = PeerTurn(g[i], q, j)
    BY <1>1, <1>2, <1>3, <2>1 DEF IsPeering
  <2>3. Again(u, f[i], v, g[i]) /\ SameOuts(u, f[i]) /\ SameOuts(v, g[i])
    BY <1>5
  <2>4. Sound(f[i]) /\ Sound(g[i])
    BY <2>3 DEF Again, Heir
  <2>5. SameOuts(f[i], g[i])
    BY <2>3 DEF SameOuts
  <2>6. Again(f[i], f[j], g[i], g[j])
    BY <2>1, <2>2, <2>4, <2>5, PeerTurnTwice
  <2>7. Again(u, f[j], v, g[j])
    BY <2>3, <2>6, AgainTransitive
  <2>8. SameOuts(f[i], f[j]) /\ SameOuts(g[i], g[j])
    <3>1. j \in 1..Len(r) /\ j \in 1..Len(q)
      BY <1>3, <2>1
    <3>2. SameOuts(f[i], PeerTurn(f[i], r, j)) /\ SameOuts(g[i], PeerTurn(g[i], q, j))
      BY <2>4, <3>1, PeerTurnFacts
    <3>3. QED
      BY <2>2, <3>2
  <2>9. SameOuts(u, f[j]) /\ SameOuts(v, g[j])
    BY <2>3, <2>8, SameOutsTransitive
  <2>10. QED
    BY <2>1, <2>7, <2>9 DEF j
<1>. HIDE DEF S
<1>6. 0..n \subseteq S
  BY <1>3, <1>4, <1>5, BoundedInduction
<1>7. n \in S
  BY <1>3, <1>6
<1>8. RegisterPeers(u, r) = f[n] /\ RegisterPeers(v, q) = g[n]
  BY <1>1, <1>2, <1>3 DEF IsPeering
<1>9. QED
  BY <1>7, <1>8 DEF S

(* The reactions to a body that has had its reactions change nothing.      *)
LEMMA ReactAgain ==
  ASSUME NEW st, Sound(st), NEW r \in Seq(Outcome), NEW q \in Seq(Outcome), Alike(r, q),
         PeersOK(r), PeersOK(q)
  PROVE  /\ React(React(st, r), q) = React(st, r)
         /\ Heir(st, React(st, r))
<1>. DEFINE a == RegisterNodes(st, r)
            s == RegisterPeers(a, r)
            b == RegisterNodes(s, q)
            t == RegisterPeers(b, q)
<1>1. React(st, r) = s /\ React(s, q) = t
  BY DEF React
<1>. HIDE DEF a
<1>2. Heir(st, a)
  BY RegisterNodesTwice DEF a, Again, Alike
<1>3. Sound(a) /\ SameOuts(a, a) /\ Alike(r, r)
  BY <1>2 DEF Heir, SameOuts, Alike
<1>4. Heir(a, s) /\ SameOuts(a, s)
  BY <1>3, RegisterPeersTwice, RegisterPeersFacts DEF Again
<1>. HIDE DEF s
<1>5. Heir(st, s) /\ Sound(s) /\ Heir(s, s)
  BY <1>2, <1>4, HeirTransitive DEF Heir
<1>6. Again(st, a, s, b)
  BY <1>5, RegisterNodesTwice DEF a
<1>. HIDE DEF b
<1>7. Between(b, a, s) /\ Sound(b)
  BY <1>4, <1>6 DEF Again, Between
<1>8. SameOuts(a, b)
  BY <1>4, <1>7 DEF Between, SameOuts
<1>9. Again(a, s, b, t)
  BY <1>3, <1>7, <1>8, RegisterPeersTwice DEF s
<1>. HIDE DEF t
<1>10. Between(t, s, s) /\ Sound(t)
  BY <1>5, <1>7, <1>9 DEF Again
<1>11. t = s
  <2>1. t \in T!Store /\ s \in T!Store
    BY <1>5, <1>10 DEF Sound
  <2>2. \A x \in Dn : t.mo[x] = s.mo[x]
    BY <1>10 DEF Between
  <2>3. t.mo = s.mo
    BY <2>1, <2>2 DEF T!Store
  <2>4. t.kids = s.kids /\ t.before = s.before
    BY <1>10 DEF Between
  <2>5. QED
    BY <2>1, <2>3, <2>4 DEF T!Store
<1>12. QED
  BY <1>1, <1>5, <1>11

(* Everything the body leads to has been done once the call returns, so    *)
(* posting it again changes nothing, not even a child list or the          *)
(* insertion order, and reports nothing: the statuses of _upsert_recursive *)
(* are compared with what is stored, and the reactions of apply write the  *)
(* same MOs over themselves.                                               *)
THEOREM RepushCorrect == Spec => []RepushIdle
<1>1. ASSUME Sound(store), NEW b \in Body, ~ Commit(store, b).raised, Plain(b), Configures(b)
      PROVE  Settled(b)
  <2>. DEFINE one == Commit(store, b)
              st  == React(one.st, one.results)
              two == Commit(st, b)
  <2>1. one \in Progress /\ PeersOK(one.results) /\ AllDone(one.st, b, Len(b))
    BY <1>1, CommitMatches, PeersOfBody, CommitDone
  <2>. HIDE DEF one
  <2>2. Sound(one.st) /\ one.results \in Seq(Outcome) /\ Alike(one.results, one.results)
    BY <2>1 DEF Progress, Alike
  <2>3. Heir(one.st, st) /\ Grown(one.st, st)
    BY <2>1, <2>2, ReactAgain, ReactFacts
  <2>. HIDE DEF st
  <2>4. AllDone(st, b, Len(b))
    <3>1. SUFFICES ASSUME NEW i \in Planned(b), i <= Len(b)
                   PROVE  Done(st, DnOf(b)[i], b[i])
      BY DEF AllDone
    <3>. DEFINE d == DnOf(b)[i]
    <3>2. d \in Dn /\ d[1] # "topology"
      BY <1>1, NodeFacts DEF Configures
    <3>3. Done(one.st, d, b[i])
      BY <2>1, <3>1 DEF AllDone
    <3>. HIDE DEF d
    <3>4. Done(st, d, b[i])
      BY <2>3, <3>2, <3>3 DEF Done, Heir, Grown
    <3>5. QED
      BY <3>4 DEF d
  <2>5. Sound(st)
    BY <2>3 DEF Heir
  <2>6. Idle(st, one, two)
    BY <1>1, <2>4, <2>5, CommitIdle DEF one
  <2>7. two \in Progress /\ PeersOK(two.results)
    BY <1>1, <2>5, <2>6, CommitMatches, PeersOfBody DEF Idle
  <2>. HIDE DEF two
  <2>8. React(st, two.results) = st
    BY <2>1, <2>2, <2>6, <2>7, ReactAgain DEF Idle, Progress, st
  <2>9. QED
    BY <2>6, <2>8 DEF Settled, Idle, one, two, st
<1>2. Sound(store) => RepushIdle
  BY <1>1 DEF RepushIdle
<1>3. QED
  BY <1>2, AlwaysSound, PTL
=============================================================================
