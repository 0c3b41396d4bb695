--------------------------- MODULE MITStore_proofs ---------------------------
(* For every set of DNs: the index of MITStore is sound, the store         *)
(* implements MITAbstract, no call permutes what stays, what is saved and  *)
(* loaded is what was there, and what is written again stays as it is.     *)
EXTENDS MITStore, SequenceTheorems, FiniteSetTheorems, Iteration, TLAPS

(* The parent of a DN of two or more components is a DN, one shorter.      *)
LEMMA ParentDn ==
  ASSUME NEW d \in Dn, ~ IsTop(d)
  PROVE  /\ parent_dn(d) \in Dn
         /\ Len(d) \in Nat /\ Len(d) >= 2
         /\ Len(parent_dn(d)) = Len(d) - 1
         /\ \A n \in 1..Len(d)-1 : parent_dn(d)[n] = d[n]
<1>1. d \in Seq(Rn) /\ Len(d) \in Nat /\ Len(d) > 1
  BY DnAssumption DEF IsTop
<1>2. Len(d) - 1 \in 1..Len(d)
  BY <1>1
<1>3. parent_dn(d) \in Dn
  BY <1>2, DnAssumption DEF parent_dn
<1>4. QED
  BY <1>1, <1>3 DEF parent_dn

(* The child of p on the way down to d is a DN whose parent is p.          *)
LEMMA TowardsDn ==
  ASSUME NEW p \in Dn, NEW d \in Below(p) \ {p}
  PROVE  /\ Towards(p, d) \in Dn
         /\ ~ IsTop(Towards(p, d))
         /\ parent_dn(Towards(p, d)) = p
         /\ Len(p) \in Nat /\ Len(d) \in Nat /\ 1 <= Len(p) /\ Len(p) < Len(d)
<1>1. /\ p \in Seq(Rn) /\ p # <<>> /\ d \in Dn /\ d \in Seq(Rn)
      /\ Len(p) <= Len(d) /\ SubSeq(d, 1, Len(p)) = p /\ d # p
  BY DnAssumption DEF Below
<1>2. Len(p) \in Nat /\ Len(d) \in Nat /\ 1 <= Len(p)
  BY <1>1
<1>3. Len(p) < Len(d)
  <2>1. SUFFICES ASSUME Len(p) = Len(d) PROVE FALSE
    BY <1>1, <1>2
  <2>2. SubSeq(d, 1, Len(d)) = d
    BY <1>1
  <2>3. QED
    BY <1>1, <2>1, <2>2
<1>4. Towards(p, d) \in Dn
  BY <1>1, <1>2, <1>3, DnAssumption DEF Towards
<1>5. Len(Towards(p, d)) = Len(p) + 1
  BY <1>1, <1>2, <1>3 DEF Towards
<1>6. parent_dn(Towards(p, d)) = SubSeq(d, 1, Len(p))
  BY <1>1, <1>2, <1>3, <1>5 DEF Towards, parent_dn
<1>7. QED
  BY <1>1, <1>2, <1>3, <1>4, <1>5, <1>6 DEF IsTop

(* RemoveFirst on a list without repetitions drops exactly that element.   *)
LEMMA RemoveFirstOnce ==
  ASSUME NEW S, NEW s \in Seq(S), NEW e,
         \A i, j \in 1..Len(s) : s[i] = s[j] => i = j
  PROVE  /\ RemoveFirst(s, e) \in Seq(S)
         /\ \A i \in 1..Len(RemoveFirst(s, e)) : RemoveFirst(s, e)[i] # e
         /\ \A i \in 1..Len(RemoveFirst(s, e)) :
              \E k \in 1..Len(s) : RemoveFirst(s, e)[i] = s[k]
         /\ \A k \in 1..Len(s) : s[k] # e =>
              \E i \in 1..Len(RemoveFirst(s, e)) : RemoveFirst(s, e)[i] = s[k]
         /\ \A i, j \in 1..Len(RemoveFirst(s, e)) :
              RemoveFirst(s, e)[i] = RemoveFirst(s, e)[j] => i = j
<1>1. CASE ~ \E i \in 1..Len(s) : s[i] = e
  BY <1>1 DEF RemoveFirst
<1>2. CASE \E i \in 1..Len(s) : s[i] = e
  <2>1. PICK i \in 1..Len(s) : s[i] = e
    BY <1>2
  <2>2. SelectInSeq(s, LAMBDA v : v = e) = i
    <3>1. {k \in 1..Len(s) : s[k] = e} = {i}
      BY <2>1
    <3>2. Min({i}) = i
      BY <2>1 DEF Min
    <3>3. QED
      BY <3>1, <3>2 DEF SelectInSeq
  <2>3. RemoveFirst(s, e) = RemoveAt(s, i)
    BY <1>2, <2>2 DEF RemoveFirst
  <2>4. Len(s) \in Nat /\ i \in Nat /\ 1 <= i /\ i <= Len(s)
    BY <2>1
  <2>5. /\ SubSeq(s, 1, i-1) \in Seq(S)
        /\ Len(SubSeq(s, 1, i-1)) = i - 1
        /\ \A k \in 1..i-1 : SubSeq(s, 1, i-1)[k] = s[k]
    BY <2>4
  <2>6. /\ SubSeq(s, i+1, Len(s)) \in Seq(S)
        /\ Len(SubSeq(s, i+1, Len(s))) = Len(s) - i
        /\ \A k \in 1..Len(s)-i : SubSeq(s, i+1, Len(s))[k] = s[i+k]
    BY <2>4
  <2>7. /\ RemoveAt(s, i) \in Seq(S)
        /\ Len(RemoveAt(s, i)) = Len(s) - 1
        /\ \A k \in 1..Len(s)-1 : RemoveAt(s, i)[k] = IF k < i THEN s[k] ELSE s[k+1]
    <3>. DEFINE a == SubSeq(s, 1, i-1)
                b == SubSeq(s, i+1, Len(s))
    <3>1. RemoveAt(s, i) = a \o b
      BY DEF RemoveAt
    <3>2. /\ a \in Seq(S) /\ b \in Seq(S)
          /\ Len(a) = i - 1 /\ Len(b) = Len(s) - i
          /\ \A k \in 1..i-1 : a[k] = s[k]
          /\ \A k \in 1..Len(s)-i : b[k] = s[i+k]
      BY <2>5, <2>6
    <3>. HIDE DEF a, b
    <3>3. /\ a \o b \in Seq(S)
          /\ Len(a \o b) = Len(a) + Len(b)
          /\ \A k \in 1..Len(a)+Len(b) :
               (a \o b)[k] = IF k <= Len(a) THEN a[k] ELSE b[k - Len(a)]
      <4>1. a \in Seq(S) /\ b \in Seq(S)
        BY <3>2
      <4>2. QED
        BY <4>1, ConcatProperties, Zenon
    <3>4. Len(a) + Len(b) = Len(s) - 1
      BY <2>4, <3>2
    <3>5. ASSUME NEW k \in 1..Len(s)-1
          PROVE  (a \o b)[k] = IF k < i THEN s[k] ELSE s[k+1]
      <4>1. CASE k < i
        BY <2>4, <3>2, <3>3, <3>4, <4>1
      <4>2. CASE ~ (k < i)
        <5>1. /\ ~ (k <= Len(a)) /\ k - Len(a) \in 1..Len(s)-i
              /\ i + (k - Len(a)) = k + 1
          BY <2>4, <3>2, <4>2
        <5>2. (a \o b)[k] = b[k - Len(a)]
          BY <3>3, <3>4, <5>1
        <5>3. QED
          BY <3>2, <4>2, <5>1, <5>2
      <4>3. QED
        BY <4>1, <4>2
    <3>6. QED
      BY <3>1, <3>3, <3>4, <3>5
  <2>8. \A k \in 1..Len(s) : s[k] # e => \E m \in 1..Len(s)-1 : RemoveAt(s, i)[m] = s[k]
    <3>1. SUFFICES ASSUME NEW k \in 1..Len(s), s[k] # e
                   PROVE  \E m \in 1..Len(s)-1 : RemoveAt(s, i)[m] = s[k]
      OBVIOUS
    <3>2. CASE k < i
      BY <2>4, <2>7, <3>2
    <3>3. CASE k > i
      <4>1. k-1 \in 1..Len(s)-1 /\ ~ (k-1 < i)
        BY <2>4, <3>3
      <4>2. RemoveAt(s, i)[k-1] = s[k]
        BY <2>7, <4>1
      <4>3. QED
        BY <4>1, <4>2
    <3>4. QED
      BY <2>1, <2>4, <3>1, <3>2, <3>3
  <2>9. QED
    <3>. DEFINE r == RemoveAt(s, i)
    <3>1. /\ r \in Seq(S) /\ Len(r) = Len(s) - 1
          /\ \A k \in 1..Len(r) : r[k] = IF k < i THEN s[k] ELSE s[k+1]
      BY <2>7
    <3>2. \A k \in 1..Len(s) : s[k] # e => \E m \in 1..Len(r) : r[m] = s[k]
      BY <2>8, <3>1
    <3>. HIDE DEF r
    <3>3. \A k \in 1..Len(r) :
             \E m \in 1..Len(s) : m # i /\ m = (IF k < i THEN k ELSE k + 1) /\ r[k] = s[m]
      BY <2>4, <3>1
    <3>4. \A k \in 1..Len(r) : r[k] # e
      BY <2>1, <3>3
    <3>5. ASSUME NEW k \in 1..Len(r), NEW m \in 1..Len(r), r[k] = r[m]
          PROVE  k = m
      <4>1. PICK kk \in 1..Len(s) : kk = (IF k < i THEN k ELSE k + 1) /\ r[k] = s[kk]
        BY <3>3
      <4>2. PICK mm \in 1..Len(s) :
              mm # i /\ mm = (IF m < i THEN m ELSE m + 1) /\ r[m] = s[mm]
        BY <3>3
      <4>3. kk = mm
        BY <3>5, <4>1, <4>2
      <4>4. QED
        BY <2>4, <3>1, <4>1, <4>2, <4>3
    <3>6. RemoveFirst(s, e) = r
      BY <2>3 DEF r
    <3>7. QED
      BY <3>1, <3>2, <3>3, <3>4, <3>5, <3>6
<1>3. QED
  BY <1>1, <1>2

-----------------------------------------------------------------------------
(* The DNs below d, below d's child, and below d's parent.                 *)
LEMMA BelowTransitive ==
  ASSUME NEW d \in Dn, NEW x \in Below(d), NEW c \in Dn, ~ IsTop(c), parent_dn(c) = x
  PROVE  c \in Below(d)
<1>1. /\ d \in Seq(Rn) /\ c \in Seq(Rn) /\ x \in Seq(Rn)
      /\ Len(d) \in Nat /\ Len(c) \in Nat /\ Len(c) > 1 /\ Len(x) = Len(c) - 1
      /\ Len(d) <= Len(x) /\ SubSeq(x, 1, Len(d)) = d
  BY DnAssumption, ParentDn DEF Below, IsTop
<1>2. SubSeq(c, 1, Len(d)) = SubSeq(x, 1, Len(d))
  BY <1>1 DEF parent_dn
<1>3. QED
  BY <1>1, <1>2 DEF Below

LEMMA BelowParent ==
  ASSUME NEW d \in Dn, NEW x \in Below(d), x # d
  PROVE  ~ IsTop(x) /\ parent_dn(x) \in Below(d)
<1>1. /\ d \in Seq(Rn) /\ x \in Dn /\ x \in Seq(Rn) /\ Len(d) \in Nat /\ Len(x) \in Nat
      /\ Len(d) >= 1 /\ Len(d) < Len(x) /\ SubSeq(x, 1, Len(d)) = d
  <2>1. x \in Below(d) \ {d}
    OBVIOUS
  <2>2. Len(d) \in Nat /\ Len(x) \in Nat /\ 1 <= Len(d) /\ Len(d) < Len(x)
    BY <2>1, TowardsDn
  <2>3. QED
    <3>1. x \in Dn /\ SubSeq(x, 1, Len(d)) = d
      BY DEF Below
    <3>2. x \in Seq(Rn)
      BY <3>1, DnAssumption
    <3>3. QED
      BY <2>2, <3>1, <3>2
<1>2. ~ IsTop(x)
  BY <1>1 DEF IsTop
<1>3. parent_dn(x) \in Dn /\ Len(parent_dn(x)) = Len(x) - 1
  BY <1>1, <1>2, ParentDn
<1>4. SubSeq(parent_dn(x), 1, Len(d)) = SubSeq(x, 1, Len(d))
  BY <1>1 DEF parent_dn
<1>5. QED
  BY <1>1, <1>2, <1>3, <1>4 DEF Below

(* Going up from a DN that d is below, d stays below, and that DN is the   *)
(* child of its parent towards d.                                          *)
LEMMA AboveParent ==
  ASSUME NEW x \in Dn, ~ IsTop(x), NEW d \in Below(x)
  PROVE  /\ parent_dn(x) \in Dn
         /\ d \in Below(parent_dn(x)) \ {parent_dn(x)}
         /\ Towards(parent_dn(x), d) = x
<1>1. /\ d \in Dn /\ d \in Seq(Rn) /\ x \in Seq(Rn) /\ Len(d) \in Nat /\ Len(x) \in Nat
      /\ Len(x) > 1 /\ Len(x) <= Len(d) /\ SubSeq(d, 1, Len(x)) = x
  BY DnAssumption DEF Below, IsTop
<1>2. parent_dn(x) \in Dn /\ Len(parent_dn(x)) = Len(x) - 1
  BY ParentDn
<1>3. SubSeq(d, 1, Len(x) - 1) = SubSeq(x, 1, Len(x) - 1)
  BY <1>1
<1>4. d \in Below(parent_dn(x)) /\ d # parent_dn(x)
  BY <1>1, <1>2, <1>3 DEF Below, parent_dn
<1>5. Towards(parent_dn(x), d) = x
  BY <1>1, <1>2 DEF Towards
<1>6. QED
  BY <1>2, <1>4, <1>5

-----------------------------------------------------------------------------
(* The index, step by step.                                                *)

Inv(st) == LinksOK(st) /\ ChainOK(st) /\ OrderOK(st)

LEMMA RegisterFacts ==
  ASSUME NEW kids \in [Dn -> Seq(Dn)], NEW d \in Dn
  PROVE  /\ Register(kids, d) \in [Dn -> Seq(Dn)]
         /\ \A p \in Dn : \A i \in 1..Len(kids[p]) :
              /\ i \in 1..Len(Register(kids, d)[p])
              /\ Register(kids, d)[p][i] = kids[p][i]
         /\ \A p \in Dn : d \in Below(p) \ {p} =>
              \E i \in 1..Len(Register(kids, d)[p]) : Register(kids, d)[p][i] = Towards(p, d)
         /\ \A p \in Dn : ~ (d \in Below(p) \ {p}) => Register(kids, d)[p] = kids[p]
         /\ \A p \in Dn : \A i \in 1..Len(Register(kids, d)[p]) :
              \/ i \in 1..Len(kids[p]) /\ Register(kids, d)[p][i] = kids[p][i]
              \/ /\ i = Len(kids[p]) + 1 /\ d \in Below(p) \ {p}
                 /\ Register(kids, d)[p][i] = Towards(p, d)
                 /\ \A j \in 1..Len(kids[p]) : kids[p][j] # Towards(p, d)
<1>. DEFINE new == Register(kids, d)
<1>1. ASSUME NEW p \in Dn
      PROVE  /\ new[p] \in Seq(Dn)
             /\ \A i \in 1..Len(kids[p]) : i \in 1..Len(new[p]) /\ new[p][i] = kids[p][i]
             /\ d \in Below(p) \ {p} => \E i \in 1..Len(new[p]) : new[p][i] = Towards(p, d)
             /\ ~ (d \in Below(p) \ {p}) => new[p] = kids[p]
             /\ \A i \in 1..Len(new[p]) :
                  \/ i \in 1..Len(kids[p]) /\ new[p][i] = kids[p][i]
                  \/ /\ i = Len(kids[p]) + 1 /\ d \in Below(p) \ {p}
                     /\ new[p][i] = Towards(p, d)
                     /\ \A j \in 1..Len(kids[p]) : kids[p][j] # Towards(p, d)
  <2>1. kids[p] \in Seq(Dn) /\ Len(kids[p]) \in Nat
    OBVIOUS
  <2>2. CASE d \in Below(p) \ {p} /\ ~ Contains(kids[p], Towards(p, d))
    <3>1. Towards(p, d) \in Dn
      BY <2>2, TowardsDn
    <3>2. new[p] = Append(kids[p], Towards(p, d))
      BY <2>2 DEF Register
    <3>3. /\ new[p] \in Seq(Dn)
          /\ Len(new[p]) = Len(kids[p]) + 1
          /\ \A i \in 1..Len(kids[p]) : new[p][i] = kids[p][i]
          /\ new[p][Len(kids[p]) + 1] = Towards(p, d)
      BY <2>1, <3>1, <3>2, AppendProperties
    <3>4. \A j \in 1..Len(kids[p]) : kids[p][j] # Towards(p, d)
      BY <2>2 DEF Contains
    <3>. HIDE DEF new
    <3>5. Len(kids[p]) + 1 \in 1..Len(new[p])
      BY <2>1, <3>3
    <3>6. \A i \in 1..Len(kids[p]) : i \in 1..Len(new[p])
      BY <2>1, <3>3
    <3>7. \A i \in 1..Len(new[p]) : i \in 1..Len(kids[p]) \/ i = Len(kids[p]) + 1
      BY <2>1, <3>3
    <3>8. QED
      BY <2>2, <3>3, <3>4, <3>5, <3>6, <3>7
  <2>3. CASE ~ (d \in Below(p) \ {p} /\ ~ Contains(kids[p], Towards(p, d)))
    <3>1. new[p] = kids[p]
      BY <2>3 DEF Register
    <3>. HIDE DEF new
    <3>2. QED
      BY <2>1, <2>3, <3>1 DEF Contains
  <2>4. QED
    BY <2>2, <2>3
<1>2. new \in [Dn -> Seq(Dn)]
  <2>1. new = [p \in Dn |-> new[p]]
    BY DEF Register
  <2>. HIDE DEF new
  <2>2. QED
    BY <1>1, <2>1
<1>. HIDE DEF new
<1>3. QED
  BY <1>1, <1>2 DEF new

(* add, and upsert of a new DN: the new MO and its ancestors are linked.   *)
LEMMA AddOneInv ==
  ASSUME NEW st \in Store, Inv(st), NEW d \in Dn, NEW m \in MO
  PROVE  AddOne(st, d, m) \in Store /\ Inv(AddOne(st, d, m))
<1>. DEFINE new == AddOne(st, d, m)
            kids == Register(st.kids, d)
<1>1. /\ st.mo \in [Dn -> MO \cup {NoMO}] /\ st.before \in SUBSET (Dn \X Dn)
      /\ st.kids \in [Dn -> Seq(Dn)]
  BY DEF Store
<1>1a. /\ kids \in [Dn -> Seq(Dn)]
       /\ \A p \in Dn : \A i \in 1..Len(st.kids[p]) :
            i \in 1..Len(kids[p]) /\ kids[p][i] = st.kids[p][i]
       /\ \A p \in Dn : d \in Below(p) \ {p} =>
            \E i \in 1..Len(kids[p]) : kids[p][i] = Towards(p, d)
       /\ \A p \in Dn : ~ (d \in Below(p) \ {p}) => kids[p] = st.kids[p]
       /\ \A p \in Dn : \A i \in 1..Len(kids[p]) :
            \/ i \in 1..Len(st.kids[p]) /\ kids[p][i] = st.kids[p][i]
            \/ /\ i = Len(st.kids[p]) + 1 /\ d \in Below(p) \ {p}
               /\ kids[p][i] = Towards(p, d)
               /\ \A j \in 1..Len(st.kids[p]) : st.kids[p][j] # Towards(p, d)
  BY <1>1, RegisterFacts, Zenon
<1>2. /\ new.mo = [st.mo EXCEPT ![d] = m]
      /\ new.before = Inserted(st, d) /\ new.kids = kids
  BY DEF AddOne
<1>3. Present(new) = Present(st) \cup {d}
  BY <1>1, <1>2, NoMOAssumption DEF Present
<1>4. new \in Store
  <2>1. kids \in [Dn -> Seq(Dn)]
    BY <1>1a
  <2>2. Inserted(st, d) \in SUBSET (Dn \X Dn)
    BY <1>1 DEF Inserted, Present
  <2>3. QED
    BY <1>1, <2>1, <2>2 DEF AddOne, Store
<1>. HIDE DEF new, kids
<1>5. LinksOK(new)
  <2>1. ASSUME NEW p \in Dn, NEW i \in 1..Len(kids[p])
        PROVE  ~ IsTop(kids[p][i]) /\ parent_dn(kids[p][i]) = p
    <3>1. CASE i \in 1..Len(st.kids[p]) /\ kids[p][i] = st.kids[p][i]
      BY <3>1 DEF Inv, LinksOK
    <3>2. CASE d \in Below(p) \ {p} /\ kids[p][i] = Towards(p, d)
      BY <3>2, TowardsDn
    <3>3. QED
      BY <1>1a, <3>1, <3>2
  <2>2. ASSUME NEW p \in Dn, NEW i \in 1..Len(kids[p]), NEW j \in 1..Len(kids[p]),
               kids[p][i] = kids[p][j]
        PROVE  i = j
    <3>1. \A k \in 1..Len(kids[p]) :
            \/ k \in 1..Len(st.kids[p]) /\ kids[p][k] = st.kids[p][k]
            \/ /\ k = Len(st.kids[p]) + 1 /\ kids[p][k] = Towards(p, d)
               /\ \A l \in 1..Len(st.kids[p]) : st.kids[p][l] # Towards(p, d)
      BY <1>1a
    <3>2. \A k, l \in 1..Len(st.kids[p]) : st.kids[p][k] = st.kids[p][l] => k = l
      BY DEF Inv, LinksOK
    <3>3. QED
      BY <2>2, <3>1, <3>2
  <2>3. QED
    BY <1>2, <2>1, <2>2 DEF LinksOK
<1>6. ChainOK(new)
  <2>1. SUFFICES ASSUME NEW x \in Dn, x \in Present(new) \/ kids[x] # <<>>, ~ IsTop(x)
                 PROVE  \E i \in 1..Len(kids[parent_dn(x)]) : kids[parent_dn(x)][i] = x
    BY <1>2 DEF ChainOK
  <2>2. parent_dn(x) \in Dn
    BY <2>1, ParentDn
  <2>3. CASE x \in Present(st) \/ st.kids[x] # <<>>
    <3>1. PICK i \in 1..Len(st.kids[parent_dn(x)]) : st.kids[parent_dn(x)][i] = x
      BY <2>1, <2>3 DEF Inv, ChainOK
    <3>2. i \in 1..Len(kids[parent_dn(x)]) /\ kids[parent_dn(x)][i] = x
      BY <1>1a, <2>2, <3>1
    <3>3. QED
      BY <3>2
  <2>4. CASE ~ (x \in Present(st) \/ st.kids[x] # <<>>)
    <3>1. d \in Below(x)
      <4>1. CASE x = d
        BY <4>1, DnAssumption DEF Below
      <4>2. CASE x # d
        BY <1>1a, <1>3, <2>1, <2>4, <4>2
      <4>3. QED
        BY <4>1, <4>2
    <3>2. d \in Below(parent_dn(x)) \ {parent_dn(x)} /\ Towards(parent_dn(x), d) = x
      BY <2>1, <3>1, AboveParent
    <3>3. QED
      BY <1>1a, <2>2, <3>2
  <2>5. QED
    BY <2>3, <2>4
<1>7. OrderOK(new)
  <2>1. CASE d \in Present(st)
    BY <1>2, <1>3, <2>1 DEF Inserted, OrderOK, Inv
  <2>2. CASE d \notin Present(st)
    <3>1. new.before = st.before \cup (Present(st) \X {d})
      BY <1>2, <2>2 DEF Inserted
    <3>2. \A a, b : <<a, b>> \in new.before <=> <<a, b>> \in st.before \/ (a \in Present(st) /\ b = d)
      BY <3>1
    <3>3. \A a, b : <<a, b>> \in st.before => a \in Present(st) /\ b \in Present(st)
      BY DEF Inv, OrderOK
    <3>4. new.before \subseteq Present(new) \X Present(new)
      BY <1>3, <3>1 DEF Inv, OrderOK
    <3>5. ASSUME NEW a \in Present(new), NEW b \in Present(new)
          PROVE  /\ a # b => (<<a, b>> \in new.before \/ <<b, a>> \in new.before)
                 /\ ~ (<<a, b>> \in new.before /\ <<b, a>> \in new.before)
      BY <1>3, <2>2, <3>2, <3>3 DEF Inv, OrderOK
    <3>6. ASSUME NEW a \in Present(new), NEW b \in Present(new), NEW c \in Present(new),
                 <<a, b>> \in new.before, <<b, c>> \in new.before
          PROVE  <<a, c>> \in new.before
      BY <1>3, <2>2, <3>2, <3>3, <3>6 DEF Inv, OrderOK
    <3>7. QED
      BY <3>4, <3>5, <3>6 DEF OrderOK
  <2>3. QED
    BY <2>1, <2>2
<1>8. QED
  BY <1>4, <1>5, <1>6, <1>7 DEF Inv, new

LEMMA UpsertOneInv ==
  ASSUME NEW st \in Store, Inv(st), NEW d \in Dn, NEW m \in MO
  PROVE  UpsertOne(st, d, m) \in Store /\ Inv(UpsertOne(st, d, m))
<1>1. CASE d \notin Present(st)
  BY <1>1, AddOneInv DEF UpsertOne
<1>2. CASE d \in Present(st)
  <2>. DEFINE new == UpsertOne(st, d, m)
              v == IF m.val = Unset THEN st.mo[d].val ELSE m.val
  <2>1. /\ st.mo \in [Dn -> MO \cup {NoMO}] /\ st.before \in SUBSET (Dn \X Dn)
        /\ st.kids \in [Dn -> Seq(Dn)] /\ st.mo[d] \in MO
    BY <1>2 DEF Store, Present
  <2>2. /\ new.mo = [st.mo EXCEPT ![d] = [st.mo[d] EXCEPT !.val = v]]
        /\ new.before = st.before /\ new.kids = st.kids
        /\ new = [mo |-> new.mo, before |-> new.before, kids |-> new.kids]
    BY <1>2, <2>1 DEF UpsertOne, Store
  <2>3. [st.mo[d] EXCEPT !.val = v] \in MO
    BY <2>1 DEF MO
  <2>4. Present(new) = Present(st)
    BY <1>2, <2>1, <2>2, <2>3, NoMOAssumption DEF Present
  <2>5. new \in Store
    BY <2>1, <2>2, <2>3 DEF Store
  <2>. HIDE DEF new, v
  <2>6. Inv(new)
    BY <2>2, <2>4 DEF Inv, LinksOK, ChainOK, OrderOK
  <2>7. QED
    BY <2>5, <2>6 DEF new
<1>3. QED
  BY <1>1, <1>2

(* It is visited by every walk that has d and follows the child lists.    *)
LEMMA ReachLeast ==
  ASSUME NEW kids \in [Dn -> Seq(Dn)], NEW d \in Dn
  PROVE  Reach(kids, d) = {x \in Dn : \A S \in SUBSET ({d} \cup Linked(kids)) :
                                         d \in S /\ Closed(S, kids) => x \in S}
<1>. DEFINE All == {d} \cup Linked(kids)
<1>1. \A p \in Dn : kids[p] \in Seq(Dn) /\ ToSet(kids[p]) \subseteq Dn
  BY DEF ToSet
<1>2. All \subseteq Dn
  BY <1>1 DEF Linked
<1>3. d \in All /\ Closed(All, kids)
  <2>1. SUFFICES ASSUME NEW p \in All PROVE ToSet(kids[p]) \subseteq All
    BY DEF Closed
  <2>2. p \in Dn
    BY <1>2
  <2>3. QED
    BY <2>2 DEF Linked
<1>4. Reach(kids, d) = {x \in All : \A S \in SUBSET (All \ {x}) : d \in S => ~ Closed(S, kids)}
  BY DEF Reach
<1>. HIDE DEF All
<1>5. Reach(kids, d) = {x \in Dn : \A S \in SUBSET All : d \in S /\ Closed(S, kids) => x \in S}
  <2>1. ASSUME NEW x \in All
        PROVE  (\A S \in SUBSET (All \ {x}) : d \in S => ~ Closed(S, kids))
                 <=> (\A S \in SUBSET All : d \in S /\ Closed(S, kids) => x \in S)
    OBVIOUS
  <2>2. ASSUME NEW x, \A S \in SUBSET All : d \in S /\ Closed(S, kids) => x \in S
        PROVE  x \in All
    BY <1>3, <2>2
  <2>3. QED
    BY <1>2, <1>4, <2>1, <2>2
<1>6. QED
  BY <1>5 DEF All

(* What _remove_subtree visits by following child lists is what lies below *)
(* d by DN: nothing outside, and everything that is stored or linked.      *)
LEMMA ReachIsBelow ==
  ASSUME NEW st \in Store, Inv(st), NEW d \in Dn
  PROVE  /\ d \in Reach(st.kids, d)
         /\ Reach(st.kids, d) \subseteq Below(d)
         /\ \A x \in Below(d) : (x \in Present(st) \/ st.kids[x] # <<>>)
                                 => x \in Reach(st.kids, d)
<1>1. st.kids \in [Dn -> Seq(Dn)]
  BY DEF Store
<1>2. d \in Below(d) /\ Below(d) \in SUBSET Dn
  BY DnAssumption DEF Below
<1>3. Closed(Below(d), st.kids)
  <2>1. SUFFICES ASSUME NEW p \in Below(d), NEW i \in 1..Len(st.kids[p])
                 PROVE  st.kids[p][i] \in Below(d)
    <3>1. \A p \in Dn : st.kids[p] \in Seq(Dn)
      BY <1>1
    <3>2. \A p \in Dn : DOMAIN st.kids[p] = 1..Len(st.kids[p])
      BY <3>1
    <3>3. QED
      BY <1>2, <2>1, <3>2 DEF Closed, ToSet
  <2>2. p \in Dn /\ st.kids[p][i] \in Dn
    BY <1>1, <1>2
  <2>3. ~ IsTop(st.kids[p][i]) /\ parent_dn(st.kids[p][i]) = p
    BY <2>2 DEF Inv, LinksOK
  <2>4. QED
    BY <2>2, <2>3, BelowTransitive
<1>4. d \in Reach(st.kids, d) /\ Reach(st.kids, d) \subseteq Below(d)
  <2>. DEFINE Hull == {x \in Below(d) : x = d \/ x \in Linked(st.kids)}
  <2>1. Hull \in SUBSET ({d} \cup Linked(st.kids)) /\ d \in Hull /\ Hull \subseteq Below(d)
    BY <1>2
  <2>2. Closed(Hull, st.kids)
    <3>1. SUFFICES ASSUME NEW p \in Hull PROVE ToSet(st.kids[p]) \subseteq Hull
      BY DEF Closed
    <3>2. p \in Below(d) /\ p \in Dn
      BY <1>2, <3>1
    <3>3. ToSet(st.kids[p]) \subseteq Linked(st.kids)
      BY <3>2 DEF Linked
    <3>4. ToSet(st.kids[p]) \subseteq Below(d)
      BY <1>3, <3>2 DEF Closed
    <3>5. QED
      BY <3>3, <3>4
  <2>. HIDE DEF Hull
  <2>3. QED
    BY <1>1, <1>2, <2>1, <2>2, ReachLeast, SMTT(30)
<1>5. ASSUME NEW S \in SUBSET Dn, d \in S, Closed(S, st.kids)
      PROVE  \A x \in Below(d) : (x \in Present(st) \/ st.kids[x] # <<>>) => x \in S
  <2>. DEFINE Missed(n) == \E x \in Below(d) : /\ x \in Present(st) \/ st.kids[x] # <<>>
                                               /\ x \notin S /\ Len(x) = n
              T == {n \in Nat : Missed(n)}
  <2>1. SUFFICES ASSUME T # {} PROVE FALSE
    <3>1. \A x \in Below(d) : Len(x) \in Nat
      BY DnAssumption DEF Below
    <3>2. QED
      BY <2>1, <3>1
  <2>2. PICK n \in T : \A m \in T : n <= m
    <3>1. T \in SUBSET Nat
      OBVIOUS
    <3>. HIDE DEF T
    <3>2. QED
      BY <2>1, <3>1, LeastElement
  <2>3. PICK x \in Below(d) : /\ x \in Present(st) \/ st.kids[x] # <<>>
                              /\ x \notin S /\ Len(x) = n
    BY <2>2
  <2>4. x # d /\ x \in Dn
    BY <1>2, <1>5, <2>3
  <2>5. ~ IsTop(x) /\ parent_dn(x) \in Below(d) /\ parent_dn(x) \in Dn
    BY <1>2, <2>4, BelowParent
  <2>6. PICK i \in 1..Len(st.kids[parent_dn(x)]) : st.kids[parent_dn(x)][i] = x
    BY <2>3, <2>4, <2>5 DEF Inv, ChainOK
  <2>7. st.kids[parent_dn(x)] # <<>>
    BY <1>1, <2>5, <2>6
  <2>8. parent_dn(x) \notin S
    <3>1. SUFFICES ASSUME parent_dn(x) \in S PROVE x \in S
      BY <2>3
    <3>2. x \in ToSet(st.kids[parent_dn(x)])
      BY <1>1, <2>5, <2>6 DEF ToSet
    <3>3. QED
      BY <1>5, <3>1, <3>2 DEF Closed
  <2>9. Len(parent_dn(x)) \in T /\ Len(parent_dn(x)) < n
    <3>1. Len(parent_dn(x)) = n - 1 /\ n \in Nat /\ n >= 2
      BY <2>3, <2>4, <2>5, ParentDn
    <3>2. Len(parent_dn(x)) \in Nat /\ Len(parent_dn(x)) < n
      BY <3>1
    <3>3. Missed(Len(parent_dn(x)))
      BY <2>5, <2>7, <2>8
    <3>. HIDE DEF Missed
    <3>4. QED
      BY <3>2, <3>3
  <2>10. n \in Nat
    BY <2>2
  <2>. HIDE DEF T
  <2>11. QED
    BY <2>2, <2>9, <2>10
<1>6. {d} \cup Linked(st.kids) \in SUBSET Dn
  <2>1. \A p \in Dn : ToSet(st.kids[p]) \subseteq Dn
    BY <1>1 DEF ToSet
  <2>2. QED
    BY <2>1 DEF Linked
<1>7. QED
  BY <1>1, <1>2, <1>4, <1>5, <1>6, ReachLeast, ZenonT(30)

(* The child lists a removal leaves: they lose the root of it and no more. *)
LEMMA RemovedKids ==
  ASSUME NEW st \in Store, Inv(st), NEW d \in Dn, NEW p \in Dn, p \notin Reach(st.kids, d)
  PROVE  LET new == RemoveSubtree(st, d)
         IN  /\ new.kids[p] \in Seq(Dn)
             /\ \A i \in 1..Len(new.kids[p]) :
                  /\ new.kids[p][i] # d
                  /\ \E k \in 1..Len(st.kids[p]) : new.kids[p][i] = st.kids[p][k]
             /\ \A k \in 1..Len(st.kids[p]) :
                  st.kids[p][k] # d => \E i \in 1..Len(new.kids[p]) : new.kids[p][i] = st.kids[p][k]
             /\ \A i, j \in 1..Len(new.kids[p]) : new.kids[p][i] = new.kids[p][j] => i = j
<1>. DEFINE new == RemoveSubtree(st, d)
            s == st.kids[p]
            r == RemoveFirst(s, d)
<1>1. /\ s \in Seq(Dn)
      /\ \A i, j \in 1..Len(s) : s[i] = s[j] => i = j
      /\ \A i \in 1..Len(s) : ~ IsTop(s[i]) /\ parent_dn(s[i]) = p
  BY DEF Store, Inv, LinksOK
<1>2. new.kids[p] = IF ~ IsTop(d) /\ p = parent_dn(d) THEN r ELSE s
  BY DEF RemoveSubtree
<1>. HIDE DEF new, s
<1>3. CASE ~ IsTop(d) /\ p = parent_dn(d)
  <2>1. /\ r \in Seq(Dn)
        /\ \A i \in 1..Len(r) : r[i] # d
        /\ \A i \in 1..Len(r) : \E k \in 1..Len(s) : r[i] = s[k]
        /\ \A k \in 1..Len(s) : s[k] # d => \E i \in 1..Len(r) : r[i] = s[k]
        /\ \A i, j \in 1..Len(r) : r[i] = r[j] => i = j
    BY <1>1, RemoveFirstOnce, Zenon
  <2>. HIDE DEF r
  <2>2. r = new.kids[p]
    BY <1>2, <1>3
  <2>3. QED
    BY <2>1, <2>2 DEF new, s
<1>4. CASE ~ (~ IsTop(d) /\ p = parent_dn(d))
  <2>1. new.kids[p] = s /\ \A i \in 1..Len(s) : s[i] # d
    BY <1>1, <1>2, <1>4
  <2>2. QED
    BY <1>1, <2>1 DEF new, s
<1>5. QED
  BY <1>3, <1>4

LEMMA RemoveSubtreeInv ==
  ASSUME NEW st \in Store, Inv(st), NEW d \in Dn
  PROVE  /\ RemoveSubtree(st, d) \in Store
         /\ Inv(RemoveSubtree(st, d))
         /\ RemoveSubtree(st, d).mo =
              [x \in Dn |-> IF x \in Below(d) THEN NoMO ELSE st.mo[x]]
<1>. DEFINE new == RemoveSubtree(st, d)
            gone == Reach(st.kids, d)
<1>1. /\ st.mo \in [Dn -> MO \cup {NoMO}] /\ st.before \in SUBSET (Dn \X Dn)
      /\ st.kids \in [Dn -> Seq(Dn)]
  BY DEF Store
<1>2. /\ d \in gone /\ gone \subseteq Below(d) /\ gone \subseteq Dn
      /\ \A x \in Below(d) : x \notin gone => st.mo[x] = NoMO /\ st.kids[x] = <<>>
  BY ReachIsBelow DEF Below, Present
<1>3. /\ new.mo = [x \in Dn |-> IF x \in gone THEN NoMO ELSE st.mo[x]]
      /\ new.before = st.before \cap ((Dn \ gone) \X (Dn \ gone))
      /\ new.kids = [p \in Dn |-> IF p \in gone THEN <<>>
                                 ELSE IF ~ IsTop(d) /\ p = parent_dn(d) THEN RemoveFirst(st.kids[p], d)
                                 ELSE st.kids[p]]
      /\ new = [mo |-> new.mo, before |-> new.before, kids |-> new.kids]
  BY DEF RemoveSubtree
<1>4. ASSUME NEW p \in Dn, p \notin gone
      PROVE  /\ new.kids[p] \in Seq(Dn)
             /\ \A i \in 1..Len(new.kids[p]) :
                  /\ new.kids[p][i] # d
                  /\ \E k \in 1..Len(st.kids[p]) : new.kids[p][i] = st.kids[p][k]
             /\ \A k \in 1..Len(st.kids[p]) :
                  st.kids[p][k] # d => \E i \in 1..Len(new.kids[p]) : new.kids[p][i] = st.kids[p][k]
             /\ \A i, j \in 1..Len(new.kids[p]) : new.kids[p][i] = new.kids[p][j] => i = j
  BY <1>4, RemovedKids DEF new, gone
<1>5. \A p \in gone : new.kids[p] = <<>> /\ new.mo[p] = NoMO
  BY <1>2, <1>3
<1>6. new \in Store
  <2>1. new.mo \in [Dn -> MO \cup {NoMO}] /\ new.before \in SUBSET (Dn \X Dn)
    <3>. HIDE DEF new
    <3>1. new.mo \in [Dn -> MO \cup {NoMO}]
      BY <1>1, <1>3
    <3>2. QED
      BY <1>1, <1>3, <3>1
  <2>2. ASSUME NEW p \in Dn
        PROVE  new.kids[p] \in Seq(Dn)
    <3>. HIDE DEF new, gone
    <3>1. CASE p \in gone
      <4>1. new.kids[p] = <<>>
        BY <1>5, <3>1
      <4>2. QED
        BY <4>1
    <3>2. CASE p \notin gone
      BY <1>4, <3>2
    <3>3. QED
      BY <3>1, <3>2
  <2>3. new.kids = [p \in Dn |-> new.kids[p]]
    BY <1>3
  <2>. HIDE DEF new
  <2>4. new.kids \in [Dn -> Seq(Dn)]
    BY <2>2, <2>3
  <2>5. QED
    BY <1>3, <2>1, <2>4 DEF Store
<1>7. Present(new) = Present(st) \ gone
  BY <1>1, <1>2, <1>3 DEF Present
<1>. HIDE DEF new, gone
<1>8. LinksOK(new)
  <2>1. ASSUME NEW p \in Dn
        PROVE  /\ \A i \in 1..Len(new.kids[p]) :
                    ~ IsTop(new.kids[p][i]) /\ parent_dn(new.kids[p][i]) = p
               /\ \A i, j \in 1..Len(new.kids[p]) : new.kids[p][i] = new.kids[p][j] => i = j
    <3>1. CASE p \in gone
      BY <1>5, <3>1
    <3>2. CASE p \notin gone
      <4>1. \A k \in 1..Len(st.kids[p]) : ~ IsTop(st.kids[p][k]) /\ parent_dn(st.kids[p][k]) = p
        BY DEF Inv, LinksOK
      <4>2. QED
        BY <1>4, <3>2, <4>1
    <3>3. QED
      BY <3>1, <3>2
  <2>2. QED
    BY <2>1 DEF LinksOK
<1>9. ChainOK(new)
  <2>1. SUFFICES ASSUME NEW x \in Dn, x \in Present(new) \/ new.kids[x] # <<>>, ~ IsTop(x)
                 PROVE  \E i \in 1..Len(new.kids[parent_dn(x)]) : new.kids[parent_dn(x)][i] = x
    BY DEF ChainOK
  <2>2. x \notin gone
    BY <1>5, <1>7, <2>1
  <2>3. x \in Present(st) \/ st.kids[x] # <<>>
    <3>1. CASE new.kids[x] # <<>>
      <4>1. new.kids[x] \in Seq(Dn) /\ Len(new.kids[x]) > 0
        BY <1>4, <2>2, <3>1
      <4>2. 1 \in 1..Len(new.kids[x])
        BY <4>1
      <4>3. PICK k \in 1..Len(st.kids[x]) : new.kids[x][1] = st.kids[x][k]
        BY <1>4, <2>2, <4>2
      <4>4. QED
        BY <1>1, <4>3
    <3>2. QED
      BY <1>7, <2>1, <3>1
  <2>4. PICK k \in 1..Len(st.kids[parent_dn(x)]) : st.kids[parent_dn(x)][k] = x
    BY <2>1, <2>3 DEF Inv, ChainOK
  <2>5. parent_dn(x) \in Dn
    BY <2>1, ParentDn
  <2>6. parent_dn(x) \notin gone
    <3>1. SUFFICES ASSUME parent_dn(x) \in gone PROVE FALSE
      OBVIOUS
    <3>2. x \in Below(d)
      BY <1>2, <2>1, <3>1, BelowTransitive
    <3>3. QED
      BY <1>2, <2>2, <2>3, <3>2 DEF Present
  <2>7. QED
    BY <1>2, <1>4, <2>2, <2>4, <2>5, <2>6
<1>10. OrderOK(new)
  <2>1. \A a, b : <<a, b>> \in new.before <=>
                  <<a, b>> \in st.before /\ a \in Dn \ gone /\ b \in Dn \ gone
    BY <1>3
  <2>2. Present(new) \subseteq Dn \ gone /\ Present(new) \subseteq Present(st)
    BY <1>7 DEF Present
  <2>3. new.before \subseteq Present(new) \X Present(new)
    BY <1>3, <1>7 DEF Inv, OrderOK
  <2>4. QED
    BY <2>1, <2>2, <2>3 DEF Inv, OrderOK
<1>11. new.mo = [x \in Dn |-> IF x \in Below(d) THEN NoMO ELSE st.mo[x]]
  BY <1>1, <1>2, <1>3 DEF Below
<1>12. QED
  BY <1>6, <1>8, <1>9, <1>10, <1>11 DEF Inv, new

-----------------------------------------------------------------------------
(* Writing again what is there                                             *)

(* Nothing is left of d and what is below it, not even a link to a stub.   *)
Cleared(st, d) ==
  \A x \in Below(d) :
    /\ st.mo[x] = NoMO /\ st.kids[x] = <<>>
    /\ \A p \in Dn : \A i \in 1..Len(st.kids[p]) : st.kids[p][i] # x

LEMMA RemoveClears ==
  ASSUME NEW st \in Store, Inv(st), NEW d \in Dn
  PROVE  Cleared(RemoveSubtree(st, d), d)
<1>. DEFINE new == RemoveSubtree(st, d)
            gone == Reach(st.kids, d)
<1>1. new \in Store /\ Inv(new) /\ new.mo = [x \in Dn |-> IF x \in Below(d) THEN NoMO ELSE st.mo[x]]
  BY RemoveSubtreeInv
<1>2. Below(d) \subseteq Dn /\ gone \subseteq Below(d)
      /\ \A x \in Below(d) : x \notin gone => st.kids[x] = <<>>
  BY ReachIsBelow DEF Below
<1>3. \A p \in gone : new.kids[p] = <<>>
  BY <1>2 DEF RemoveSubtree
<1>4. \A p \in Dn : p \notin gone =>
        /\ new.kids[p] \in Seq(Dn)
        /\ \A i \in 1..Len(new.kids[p]) :
             new.kids[p][i] # d /\ \E k \in 1..Len(st.kids[p]) : new.kids[p][i] = st.kids[p][k]
  BY RemovedKids
<1>. HIDE DEF new, gone
<1>5. ASSUME NEW x \in Below(d)
      PROVE  new.kids[x] = <<>>
  <2>1. CASE x \in gone
    BY <1>3, <2>1
  <2>2. CASE x \notin gone
    <3>1. st.kids[x] = <<>> /\ x \in Dn
      BY <1>2, <2>2
    <3>2. new.kids[x] \in Seq(Dn) /\ \A i \in 1..Len(new.kids[x]) : FALSE
      BY <1>4, <2>2, <3>1
    <3>3. QED
      BY <3>2
  <2>3. QED
    BY <2>1, <2>2
<1>6. ASSUME NEW x \in Below(d), NEW p \in Dn, NEW i \in 1..Len(new.kids[p])
      PROVE  new.kids[p][i] # x
  <2>1. SUFFICES ASSUME new.kids[p][i] = x PROVE FALSE
    OBVIOUS
  <2>2. p \notin Below(d)
    BY <1>5
  <2>3. p \notin gone
    BY <1>2, <2>2
  <2>4. x # d
    BY <1>4, <2>1, <2>3
  <2>5. parent_dn(x) = p
    BY <1>1, <2>1 DEF Inv, LinksOK
  <2>6. QED
    BY <2>2, <2>4, <2>5, BelowParent
<1>7. \A x \in Below(d) : new.mo[x] = NoMO
  BY <1>1, <1>2
<1>8. QED
  BY <1>5, <1>6, <1>7 DEF Cleared, new

LEMMA ClearedThroughRemoval ==
  ASSUME NEW st \in Store, Inv(st), NEW d \in Dn, Cleared(st, d), NEW e \in Dn
  PROVE  Cleared(RemoveSubtree(st, e), d)
<1>. DEFINE new == RemoveSubtree(st, e)
            gone == Reach(st.kids, e)
<1>1. new \in Store /\ new.mo = [x \in Dn |-> IF x \in Below(e) THEN NoMO ELSE st.mo[x]]
  BY RemoveSubtreeInv
<1>2. Below(d) \subseteq Dn /\ \A p \in Dn : st.kids[p] \in Seq(Dn)
  BY DEF Below, Store
<1>3. \A p \in Dn : p \in gone => new.kids[p] = <<>>
  BY DEF RemoveSubtree
<1>4. \A p \in Dn : p \notin gone =>
        /\ new.kids[p] \in Seq(Dn)
        /\ \A i \in 1..Len(new.kids[p]) : \E k \in 1..Len(st.kids[p]) : new.kids[p][i] = st.kids[p][k]
  <2>1. ASSUME NEW p \in Dn, p \notin gone
        PROVE  /\ new.kids[p] \in Seq(Dn)
               /\ \A i \in 1..Len(new.kids[p]) :
                    /\ new.kids[p][i] # e
                    /\ \E k \in 1..Len(st.kids[p]) : new.kids[p][i] = st.kids[p][k]
    BY <2>1, RemovedKids
  <2>. HIDE DEF new, gone
  <2>2. QED
    BY <2>1
<1>. HIDE DEF new, gone
<1>5. \A p \in Dn : \A i \in 1..Len(new.kids[p]) :
        \E k \in 1..Len(st.kids[p]) : new.kids[p][i] = st.kids[p][k]
  <2>1. ASSUME NEW p \in Dn, NEW i \in 1..Len(new.kids[p])
        PROVE  \E k \in 1..Len(st.kids[p]) : new.kids[p][i] = st.kids[p][k]
    <3>1. p \notin gone
      BY <1>3
    <3>2. QED
      BY <1>4, <3>1
  <2>2. QED
    BY <2>1
<1>6. ASSUME NEW x \in Below(d)
      PROVE  new.kids[x] = <<>> /\ new.mo[x] = NoMO
  <2>1. x \in Dn /\ st.kids[x] = <<>> /\ st.mo[x] = NoMO
    BY <1>2 DEF Cleared
  <2>2. new.kids[x] \in Seq(Dn) /\ \A i \in 1..Len(new.kids[x]) : FALSE
    BY <1>1, <1>5, <2>1 DEF Store
  <2>3. QED
    BY <1>1, <2>1, <2>2
<1>7. QED
  BY <1>5, <1>6, SMTT(30) DEF Cleared, new

LEMMA ClearedThroughUpsert ==
  ASSUME NEW st \in Store, Inv(st), NEW d \in Dn, Cleared(st, d), NEW e \in Dn, e \notin Below(d),
         NEW m \in MO
  PROVE  Cleared(UpsertOne(st, e, m), d)
<1>. DEFINE new == UpsertOne(st, e, m)
<1>1. st.mo \in [Dn -> MO \cup {NoMO}] /\ st.kids \in [Dn -> Seq(Dn)] /\ Below(d) \subseteq Dn
  BY DEF Store, Below
<1>2. \A x \in Below(d) : new.mo[x] = st.mo[x]
  BY <1>1 DEF UpsertOne, AddOne, Store
<1>3. \/ new.kids = st.kids
      \/ new.kids = Register(st.kids, e)
  BY DEF UpsertOne, AddOne
<1>4. ASSUME NEW p \in Dn, e \in Below(p) \ {p}
      PROVE  p \notin Below(d) /\ Towards(p, e) \notin Below(d)
  <2>1. /\ d \in Seq(Rn) /\ p \in Seq(Rn) /\ e \in Seq(Rn)
        /\ Len(d) \in Nat /\ Len(p) \in Nat /\ Len(e) \in Nat
        /\ Len(p) < Len(e) /\ SubSeq(e, 1, Len(p)) = p
    BY <1>4, DnAssumption, TowardsDn DEF Below
  <2>2. ~ (Len(d) <= Len(e) /\ SubSeq(e, 1, Len(d)) = d)
    BY DEF Below
  <2>3. p \notin Below(d)
    <3>1. SUFFICES ASSUME Len(d) <= Len(p), SubSeq(p, 1, Len(d)) = d PROVE FALSE
      BY DEF Below
    <3>2. SubSeq(e, 1, Len(d)) = SubSeq(p, 1, Len(d))
      BY <2>1, <3>1
    <3>3. QED
      BY <2>1, <2>2, <3>1, <3>2
  <2>4. Towards(p, e) \notin Below(d)
    <3>. DEFINE c == SubSeq(e, 1, Len(p) + 1)
    <3>1. c \in Seq(Rn) /\ Len(c) = Len(p) + 1
      BY <2>1
    <3>2. SUFFICES ASSUME Len(d) <= Len(c), SubSeq(c, 1, Len(d)) = d PROVE FALSE
      BY DEF Below, Towards
    <3>3. SubSeq(e, 1, Len(d)) = SubSeq(c, 1, Len(d))
      BY <2>1, <3>1, <3>2
    <3>. HIDE DEF c
    <3>4. QED
      BY <2>1, <2>2, <3>1, <3>2, <3>3
  <2>5. QED
    BY <2>3, <2>4
<1>5. ASSUME NEW p \in Dn, NEW x \in Below(d)
      PROVE  /\ \A i \in 1..Len(Register(st.kids, e)[p]) : Register(st.kids, e)[p][i] # x
             /\ p \in Below(d) => Register(st.kids, e)[p] = <<>>
  <2>. DEFINE s == st.kids[p]
              r == Register(st.kids, e)[p]
  <2>1. /\ s \in Seq(Dn) /\ p \in Below(d) => s = <<>>
        /\ \A i \in 1..Len(s) : s[i] # x
    BY <1>1 DEF Cleared
  <2>2. r = IF e \in Below(p) \ {p} /\ ~ Contains(s, Towards(p, e)) THEN Append(s, Towards(p, e)) ELSE s
    BY DEF Register
  <2>. HIDE DEF r, s
  <2>3. CASE e \in Below(p) \ {p}
    <3>1. p \notin Below(d) /\ Towards(p, e) # x /\ Towards(p, e) \in Dn
      BY <1>4, <2>3, TowardsDn
    <3>2. s \in Seq(Dn)
      BY <1>1 DEF s
    <3>3. \A i \in 1..Len(Append(s, Towards(p, e))) : Append(s, Towards(p, e))[i] # x
      BY <2>1, <3>1, <3>2
    <3>4. QED
      BY <2>1, <2>2, <3>1, <3>3 DEF r
  <2>4. CASE ~ (e \in Below(p) \ {p})
    <3>1. r = s
      BY <2>2, <2>4
    <3>2. QED
      BY <1>1, <2>1, <3>1 DEF r, s, Cleared
  <2>5. QED
    BY <2>3, <2>4
<1>. HIDE DEF new
<1>6. QED
  BY <1>1, <1>2, <1>3, <1>5 DEF Cleared, new

(* A removal that has been done does nothing the second time.              *)
LEMMA RemoveAgain ==
  ASSUME NEW st \in Store, Inv(st), NEW d \in Dn, Cleared(st, d)
  PROVE  RemoveSubtree(st, d) = st
<1>. DEFINE new == RemoveSubtree(st, d)
            gone == Reach(st.kids, d)
<1>1. /\ st.mo \in [Dn -> MO \cup {NoMO}] /\ st.before \in SUBSET (Dn \X Dn)
      /\ st.kids \in [Dn -> Seq(Dn)]
      /\ st = [mo |-> st.mo, before |-> st.before, kids |-> st.kids]
  BY DEF Store
<1>2. d \in Below(d)
  BY DnAssumption DEF Below
<1>3. /\ st.mo[d] = NoMO /\ st.kids[d] = <<>>
      /\ \A p \in Dn : \A i \in 1..Len(st.kids[p]) : st.kids[p][i] # d
  BY <1>2 DEF Cleared
<1>4. gone = {d}
  <2>1. Closed({d}, st.kids)
    BY <1>3 DEF Closed, ToSet
  <2>2. gone \subseteq {d}
    BY <1>1, <2>1, ReachLeast, ZenonT(30)
  <2>3. d \in gone
    BY ReachIsBelow
  <2>4. QED
    BY <2>2, <2>3
<1>5. /\ new.mo = [x \in Dn |-> IF x \in gone THEN NoMO ELSE st.mo[x]]
      /\ new.before = st.before \cap ((Dn \ gone) \X (Dn \ gone))
      /\ new.kids = [p \in Dn |-> IF p \in gone THEN <<>>
                                 ELSE IF ~ IsTop(d) /\ p = parent_dn(d) THEN RemoveFirst(st.kids[p], d)
                                 ELSE st.kids[p]]
      /\ new = [mo |-> new.mo, before |-> new.before, kids |-> new.kids]
  BY DEF RemoveSubtree
<1>6. \A p \in Dn : RemoveFirst(st.kids[p], d) = st.kids[p]
  BY <1>3 DEF RemoveFirst
<1>. HIDE DEF new, gone
<1>7. new.mo = st.mo
  BY <1>1, <1>3, <1>4, <1>5
<1>8. new.before = st.before
  <2>1. st.before \subseteq Present(st) \X Present(st)
    BY DEF Inv, OrderOK
  <2>2. Present(st) \subseteq Dn \ gone
    BY <1>3, <1>4 DEF Present
  <2>3. QED
    BY <1>5, <2>1, <2>2
<1>9. new.kids = st.kids
  BY <1>1, <1>3, <1>4, <1>5, <1>6
<1>10. QED
  BY <1>1, <1>5, <1>7, <1>8, <1>9 DEF new

(* Nor does an upsert of what is there.                                    *)
LEMMA UpsertAgain ==
  ASSUME NEW st \in Store, NEW d \in Present(st), NEW m, m.val = Unset \/ m.val = st.mo[d].val
  PROVE  UpsertOne(st, d, m) = st
<1>1. /\ d \in Dn /\ st.mo \in [Dn -> MO \cup {NoMO}] /\ st.mo[d] \in MO
      /\ st = [mo |-> st.mo, before |-> st.before, kids |-> st.kids]
  BY DEF Store, Present
<1>2. UpsertOne(st, d, m) = [st EXCEPT !.mo[d].val = IF m.val = Unset THEN st.mo[d].val ELSE m.val]
  BY DEF UpsertOne
<1>3. UpsertOne(st, d, m) = [st EXCEPT !.mo[d].val = st.mo[d].val]
  BY <1>2
<1>4. [st.mo[d] EXCEPT !.val = st.mo[d].val] = st.mo[d]
  BY <1>1 DEF MO
<1>5. [st.mo EXCEPT ![d] = st.mo[d]] = st.mo
  BY <1>1
<1>6. QED
  BY <1>1, <1>3, <1>4, <1>5

-----------------------------------------------------------------------------
(* What every step keeps                                                    *)

LEMMA EmptyInv == EmptyStore \in Store /\ Inv(EmptyStore)
<1>1. EmptyStore \in Store
  BY DEF EmptyStore, Store
<1>2. Present(EmptyStore) = {}
  BY DEF EmptyStore, Present
<1>3. \A d \in Dn : EmptyStore.kids[d] = <<>> /\ Len(EmptyStore.kids[d]) = 0
  BY DEF EmptyStore
<1>4. EmptyStore.before = {}
  BY DEF EmptyStore
<1>5. LinksOK(EmptyStore)
  BY <1>3 DEF LinksOK
<1>6. ChainOK(EmptyStore) /\ OrderOK(EmptyStore)
  BY <1>2, <1>3, <1>4 DEF ChainOK, OrderOK
<1>7. QED
  BY <1>1, <1>5, <1>6 DEF Inv

LEMMA InitInv ==
  Init => TypeOK /\ IndexInv
BY EmptyInv DEF Init, TypeOK, IndexInv, Inv

(* One step of the store preserves the index, and is a step of the plain   *)
(* map of MITAbstract.                                                     *)
LEMMA NextInv ==
  ASSUME TypeOK, IndexInv, Next
  PROVE  TypeOK' /\ IndexInv' /\ Abs!Next
<1>1. store \in Store /\ Inv(store)
  BY DEF TypeOK, IndexInv, Inv
<1>2. \A st \in Store, d \in Dn, m \in MO : Inv(st) =>
        /\ AddOne(st, d, m) \in Store /\ Inv(AddOne(st, d, m))
        /\ AddOne(st, d, m).mo = Abs!Put(st.mo, d, m)
  BY AddOneInv DEF AddOne, Abs!Put
<1>3. \A st \in Store, d \in Dn, m \in MO : Inv(st) =>
        /\ UpsertOne(st, d, m) \in Store /\ Inv(UpsertOne(st, d, m))
        /\ UpsertOne(st, d, m).mo = Abs!Merge(st.mo, d, m)
  <2>1. SUFFICES ASSUME NEW st \in Store, NEW d \in Dn, NEW m \in MO, Inv(st)
                 PROVE  UpsertOne(st, d, m).mo = Abs!Merge(st.mo, d, m)
    BY UpsertOneInv
  <2>2. CASE d \notin Present(st)
    BY <2>2 DEF UpsertOne, AddOne, Present, Abs!Merge, Abs!Put
  <2>3. CASE d \in Present(st)
    <3>1. st.mo \in [Dn -> MO \cup {NoMO}] /\ st.mo[d] \in MO /\ st.mo[d] # NoMO
      BY <2>3 DEF Store, Present
    <3>2. UpsertOne(st, d, m).mo =
            [st.mo EXCEPT ![d] = [st.mo[d] EXCEPT !.val = IF m.val = Unset THEN @ ELSE m.val]]
      BY <2>3, <3>1 DEF UpsertOne, Store
    <3>3. [st.mo[d] EXCEPT !.val = IF m.val = Unset THEN @ ELSE m.val] =
            [class |-> st.mo[d].class, val |-> IF m.val = Unset THEN st.mo[d].val ELSE m.val]
      BY <3>1 DEF MO
    <3>4. QED
      BY <3>1, <3>2, <3>3 DEF Abs!Merge, Abs!Put
  <2>4. QED
    BY <2>2, <2>3
<1>4. \A st \in Store, d \in Dn : Inv(st) =>
        /\ RemoveSubtree(st, d) \in Store /\ Inv(RemoveSubtree(st, d))
        /\ RemoveSubtree(st, d).mo = Abs!Cut(st.mo, d)
  BY RemoveSubtreeInv DEF Abs!Cut, Abs!Under, Below
<1>5. SUFFICES store' \in Store /\ Inv(store') /\ Abs!Next
  BY DEF TypeOK, IndexInv, Inv
<1>6. MO = Abs!MO /\ \A d \in Dn : Below(d) = Abs!Under(d)
  BY DEF MO, Abs!MO, Below, Abs!Under
<1>7. \A d \in Dn : Below(d) \subseteq Dn
  BY DEF Below
<1>8. CASE \E d \in Dn : delete(d)
  <2>1. PICK d \in Dn : store' = RemoveSubtree(store, d)
    BY <1>8 DEF delete
  <2>2. store'.mo = Abs!Cut(store.mo, d)
    BY <1>1, <1>4, <2>1
  <2>3. QED
    BY <1>1, <1>4, <2>1, <2>2 DEF Abs!Next
<1>9. CASE \E d \in Dn, m \in MO : add(d, m) \/ upsert(d, m)
  <2>1. PICK d \in Dn, m \in MO : add(d, m) \/ upsert(d, m)
    BY <1>9
  <2>2. m \in Abs!MO
    BY <1>6
  <2>3. CASE add(d, m)
    <3>1. store' \in Store /\ Inv(store') /\ store'.mo = Abs!Put(store.mo, d, m)
      BY <1>1, <1>2, <2>3 DEF add
    <3>2. QED
      BY <2>2, <3>1 DEF Abs!Next
  <2>4. CASE upsert(d, m)
    <3>1. store' \in Store /\ Inv(store') /\ store'.mo = Abs!Merge(store.mo, d, m)
      BY <1>1, <1>3, <2>4 DEF upsert
    <3>2. QED
      BY <2>2, <3>1 DEF Abs!Next
  <2>5. QED
    BY <2>1, <2>3, <2>4
<1>10. CASE \E d \in Dn, m, cm \in MO : \E c \in Below(d) \ {d} :
              addTree(d, m, c, cm) \/ (\E cdeleted \in BOOLEAN : upsertTree(d, m, c, cm, cdeleted))
  <2>0. PICK d \in Dn, m \in MO, cm \in MO : \E c \in Below(d) \ {d} :
          addTree(d, m, c, cm) \/ (\E cdeleted \in BOOLEAN : upsertTree(d, m, c, cm, cdeleted))
    BY <1>10
  <2>1. PICK c \in Below(d) \ {d} :
          addTree(d, m, c, cm) \/ (\E cdeleted \in BOOLEAN : upsertTree(d, m, c, cm, cdeleted))
    BY <2>0
  <2>2. m \in Abs!MO /\ cm \in Abs!MO /\ c \in Abs!Under(d) \ {d} /\ c \in Dn
    BY <1>6, <1>7
  <2>3. CASE addTree(d, m, c, cm)
    <3>. DEFINE st == AddOne(store, d, m)
    <3>1. st \in Store /\ Inv(st) /\ st.mo = Abs!Put(store.mo, d, m)
      BY <1>1, <1>2
    <3>2. store' = AddOne(st, c, cm)
      BY <2>3 DEF addTree
    <3>. HIDE DEF st
    <3>3. /\ store' \in Store /\ Inv(store')
          /\ store'.mo = Abs!Put(Abs!Put(store.mo, d, m), c, cm)
      BY <1>2, <2>2, <3>1, <3>2
    <3>4. QED
      BY <2>2, <3>3 DEF Abs!Next
  <2>4. CASE \E cdeleted \in BOOLEAN : upsertTree(d, m, c, cm, cdeleted)
    <3>. DEFINE st == UpsertOne(store, d, m)
    <3>1. st \in Store /\ Inv(st) /\ st.mo = Abs!Merge(store.mo, d, m)
      BY <1>1, <1>3
    <3>2. store' = UpsertOne(st, c, cm) \/ store' = RemoveSubtree(st, c)
      BY <2>4 DEF upsertTree
    <3>. HIDE DEF st
    <3>3. CASE store' = UpsertOne(st, c, cm)
      <4>1. /\ store' \in Store /\ Inv(store')
            /\ store'.mo = Abs!Merge(Abs!Merge(store.mo, d, m), c, cm)
        BY <1>3, <2>2, <3>1, <3>3
      <4>2. QED
        BY <2>2, <4>1 DEF Abs!Next
    <3>4. CASE store' = RemoveSubtree(st, c)
      <4>1. /\ store' \in Store /\ Inv(store')
            /\ store'.mo = Abs!Cut(Abs!Merge(store.mo, d, m), c)
        BY <1>4, <2>2, <3>1, <3>4
      <4>2. QED
        BY <2>2, <4>1 DEF Abs!Next
    <3>5. QED
      BY <3>2, <3>3, <3>4
  <2>5. QED
    BY <2>1, <2>3, <2>4
<1>11. QED
  BY <1>8, <1>9, <1>10 DEF Next

LEMMA InvariantsHold ==
  Spec => [](TypeOK /\ IndexInv)
<1>1. Init => TypeOK /\ IndexInv
  BY InitInv
<1>2. TypeOK /\ IndexInv /\ [Next]_store => (TypeOK /\ IndexInv)'
  <2>1. SUFFICES ASSUME TypeOK /\ IndexInv, [Next]_store
                 PROVE  (TypeOK /\ IndexInv)'
    OBVIOUS
  <2>2. CASE Next
    BY <2>1, <2>2, NextInv
  <2>3. CASE UNCHANGED store
    BY <2>1, <2>3 DEF TypeOK, IndexInv, LinksOK, ChainOK, OrderOK, Present
  <2>4. QED
    BY <2>1, <2>2, <2>3
<1>3. QED
  BY <1>1, <1>2, PTL DEF Spec

(* The store's two dictionaries are well formed in every reachable state,  *)
(* for every set of DNs, classes and values.                               *)
THEOREM TypeCorrect == Spec => []TypeOK
BY InvariantsHold, PTL

(* The child index of store.py agrees with the MO dictionary after any     *)
(* sequence of add, upsert and delete calls on any set of DNs.             *)
THEOREM IndexCorrect == Spec => []IndexInv
BY InvariantsHold, PTL

(* MITStore implements MITAbstract: `_remove_subtree`, which walks the     *)
(* child index, removes exactly what a removal by DN prefix removes.       *)
THEOREM Refinement == Spec => AbsSpec
<1>1. Init => Abs!Init
  BY DEF Init, EmptyStore, Abs!Init
<1>2. TypeOK /\ IndexInv /\ [Next]_store => [Abs!Next]_(store.mo)
  BY NextInv
<1>3. QED
  BY <1>1, <1>2, InvariantsHold, PTL DEF Spec, AbsSpec, Abs!Spec

-----------------------------------------------------------------------------
(* Order                                                                    *)

(* Two entries that are in both lists stand in the same order in both.     *)
SameOrder(s, t) ==
  \A i, j \in 1..Len(s) : \A k, l \in 1..Len(t) : s[i] = t[k] /\ s[j] = t[l] => (i < j <=> k < l)

KeepsOrder(st, new) ==
  /\ \A a, b \in Present(st) \cap Present(new) : <<a, b>> \in st.before <=> <<a, b>> \in new.before
  /\ \A p \in Dn : SameOrder(st.kids[p], new.kids[p])

(* Nothing is lost on the way.                                             *)
Grows(st, new) ==
  /\ Present(st) \subseteq Present(new)
  /\ \A p \in Dn : \A i \in 1..Len(st.kids[p]) : \E k \in 1..Len(new.kids[p]) : st.kids[p][i] = new.kids[p][k]

LEMMA OrderThroughGrowth ==
  ASSUME NEW st, NEW mid, NEW new, Grows(st, mid), KeepsOrder(st, mid), KeepsOrder(mid, new)
  PROVE  KeepsOrder(st, new)
<1>1. \A a, b \in Present(st) \cap Present(new) : <<a, b>> \in st.before <=> <<a, b>> \in new.before
  BY DEF Grows, KeepsOrder
<1>2. ASSUME NEW p \in Dn, NEW i \in 1..Len(st.kids[p]), NEW j \in 1..Len(st.kids[p]),
             NEW k \in 1..Len(new.kids[p]), NEW l \in 1..Len(new.kids[p]),
             st.kids[p][i] = new.kids[p][k], st.kids[p][j] = new.kids[p][l]
      PROVE  i < j <=> k < l
  <2>1. PICK ii \in 1..Len(mid.kids[p]) : st.kids[p][i] = mid.kids[p][ii]
    BY DEF Grows
  <2>2. PICK jj \in 1..Len(mid.kids[p]) : st.kids[p][j] = mid.kids[p][jj]
    BY DEF Grows
  <2>3. SameOrder(st.kids[p], mid.kids[p]) /\ SameOrder(mid.kids[p], new.kids[p])
    BY DEF KeepsOrder
  <2>4. i < j <=> ii < jj
    BY <2>1, <2>2, <2>3 DEF SameOrder
  <2>5. ii < jj <=> k < l
    BY <1>2, <2>1, <2>2, <2>3 DEF SameOrder
  <2>6. QED
    BY <2>4, <2>5
<1>3. QED
  BY <1>1, <1>2 DEF KeepsOrder, SameOrder

LEMMA AddOneOrder ==
  ASSUME NEW st \in Store, Inv(st), NEW d \in Dn, NEW m \in MO
  PROVE  KeepsOrder(st, AddOne(st, d, m)) /\ Grows(st, AddOne(st, d, m))
<1>. DEFINE new == AddOne(st, d, m)
<1>1. st.mo \in [Dn -> MO \cup {NoMO}] /\ st.kids \in [Dn -> Seq(Dn)]
  BY DEF Store
<1>2. new.mo = [st.mo EXCEPT ![d] = m] /\ new.before = Inserted(st, d) /\ new.kids = Register(st.kids, d)
  BY DEF AddOne
<1>3. Present(new) = Present(st) \cup {d}
  BY <1>1, <1>2, NoMOAssumption DEF Present
<1>4. Inv(new)
  BY AddOneInv
<1>. HIDE DEF new
<1>5. \A p \in Dn : \A i \in 1..Len(st.kids[p]) : i \in 1..Len(new.kids[p]) /\ new.kids[p][i] = st.kids[p][i]
  <2>. DEFINE kids == Register(st.kids, d)
  <2>1. /\ kids \in [Dn -> Seq(Dn)]
        /\ \A p \in Dn : \A i \in 1..Len(st.kids[p]) :
             i \in 1..Len(kids[p]) /\ kids[p][i] = st.kids[p][i]
        /\ \A p \in Dn : d \in Below(p) \ {p} =>
             \E i \in 1..Len(kids[p]) : kids[p][i] = Towards(p, d)
        /\ \A p \in Dn : ~ (d \in Below(p) \ {p}) => kids[p] = st.kids[p]
        /\ \A p \in Dn : \A i \in 1..Len(kids[p]) :
             \/ i \in 1..Len(st.kids[p]) /\ kids[p][i] = st.kids[p][i]
             \/ /\ i = Len(st.kids[p]) + 1 /\ d \in Below(p) \ {p}
                /\ kids[p][i] = Towards(p, d)
                /\ \A j \in 1..Len(st.kids[p]) : st.kids[p][j] # Towards(p, d)
    BY <1>1, RegisterFacts, Zenon
  <2>2. QED
    BY <1>2, <2>1
<1>6. ASSUME NEW p \in Dn
      PROVE  SameOrder(st.kids[p], new.kids[p])
  <2>1. \A i, j \in 1..Len(new.kids[p]) : new.kids[p][i] = new.kids[p][j] => i = j
    BY <1>4 DEF Inv, LinksOK
  <2>2. QED
    BY <1>5, <2>1 DEF SameOrder
<1>7. \A a, b \in Present(st) \cap Present(new) : <<a, b>> \in st.before <=> <<a, b>> \in new.before
  BY <1>2 DEF Inserted
<1>8. QED
  BY <1>3, <1>5, <1>6, <1>7 DEF KeepsOrder, Grows, new

LEMMA UpsertOneOrder ==
  ASSUME NEW st \in Store, Inv(st), NEW d \in Dn, NEW m \in MO
  PROVE  KeepsOrder(st, UpsertOne(st, d, m)) /\ Grows(st, UpsertOne(st, d, m))
<1>. DEFINE new == UpsertOne(st, d, m)
<1>1. CASE d \notin Present(st)
  BY <1>1, AddOneOrder DEF UpsertOne
<1>2. CASE d \in Present(st)
  <2>1. /\ st.mo \in [Dn -> MO \cup {NoMO}] /\ st.kids \in [Dn -> Seq(Dn)]
        /\ st = [mo |-> st.mo, before |-> st.before, kids |-> st.kids]
    BY DEF Store
  <2>2. new.before = st.before /\ new.kids = st.kids
    BY <1>2, <2>1 DEF UpsertOne
  <2>3. Present(new) = Present(st)
    <3>1. \A x \in Dn : x # d => new.mo[x] = st.mo[x]
      BY <1>2, <2>1 DEF UpsertOne
    <3>2. new.mo[d] = [st.mo[d] EXCEPT !.val = IF m.val = Unset THEN st.mo[d].val ELSE m.val]
      BY <1>2, <2>1 DEF UpsertOne
    <3>3. st.mo[d] \in MO /\ st.mo[d] # NoMO
      BY <1>2, <2>1 DEF Present
    <3>4. new.mo[d] \in MO
      BY <3>2, <3>3 DEF MO
    <3>. HIDE DEF new
    <3>5. QED
      BY <3>1, <3>3, <3>4, NoMOAssumption DEF Present
  <2>. HIDE DEF new
  <2>4. \A p \in Dn : SameOrder(st.kids[p], new.kids[p])
    <3>1. \A p \in Dn : \A i, j \in 1..Len(st.kids[p]) : st.kids[p][i] = st.kids[p][j] => i = j
      BY DEF Inv, LinksOK
    <3>2. QED
      BY <2>2, <3>1 DEF SameOrder
  <2>5. QED
    BY <2>2, <2>3, <2>4 DEF KeepsOrder, Grows, new
<1>3. QED
  BY <1>1, <1>2

LEMMA RemoveFirstOrder ==
  ASSUME NEW S, NEW s \in Seq(S), NEW e,
         \A i, j \in 1..Len(s) : s[i] = s[j] => i = j
  PROVE  SameOrder(s, RemoveFirst(s, e))
<1>1. CASE ~ \E i \in 1..Len(s) : s[i] = e
  BY <1>1 DEF RemoveFirst, SameOrder
<1>2. CASE \E i \in 1..Len(s) : s[i] = e
  <2>. DEFINE I == {k \in 1..Len(s) : s[k] = e}
              c == SelectInSeq(s, LAMBDA v : v = e)
              r == RemoveAt(s, c)
  <2>1. c = Min(I)
    BY <1>2 DEF SelectInSeq
  <2>2. c \in 1..Len(s)
    <3>1. I \in SUBSET Nat /\ I # {} /\ I \subseteq 1..Len(s)
      BY <1>2
    <3>. HIDE DEF I, c
    <3>2. QED
      BY <2>1, <3>1, LeastPlace
  <2>3. RemoveFirst(s, e) = r
    BY <1>2 DEF RemoveFirst
  <2>. HIDE DEF c
  <2>4. /\ Len(r) = Len(s) - 1
        /\ \A i \in 1..(c - 1) : r[i] = s[i]
        /\ \A i \in c..(Len(s) - 1) : r[i] = s[i + 1]
    BY <2>2, RemoveAtFacts
  <2>. HIDE DEF r
  <2>5. ASSUME NEW i \in 1..Len(s), NEW k \in 1..Len(r), s[i] = r[k]
        PROVE  i = IF k < c THEN k ELSE k + 1
    <3>1. CASE k < c
      BY <2>2, <2>4, <2>5, <3>1
    <3>2. CASE ~ k < c
      <4>1. k \in c..(Len(s) - 1) /\ k + 1 \in 1..Len(s)
        BY <2>2, <2>4, <3>2
      <4>2. s[i] = s[k + 1]
        BY <2>4, <2>5, <4>1
      <4>3. QED
        BY <3>2, <4>1, <4>2
    <3>3. QED
      BY <3>1, <3>2
  <2>6. SameOrder(s, r)
    <3>1. Len(r) \in Nat /\ c \in Nat
      BY <2>2, <2>4
    <3>2. QED
      BY <2>5, <3>1 DEF SameOrder
  <2>7. QED
    BY <2>3, <2>6
<1>3. QED
  BY <1>1, <1>2

LEMMA RemoveSubtreeOrder ==
  ASSUME NEW st \in Store, Inv(st), NEW d \in Dn
  PROVE  KeepsOrder(st, RemoveSubtree(st, d))
<1>. DEFINE new == RemoveSubtree(st, d)
            gone == Reach(st.kids, d)
            up == parent_dn(d)
<1>1. st.mo \in [Dn -> MO \cup {NoMO}] /\ st.before \in SUBSET (Dn \X Dn) /\ st.kids \in [Dn -> Seq(Dn)]
  BY DEF Store
<1>2. /\ new.mo = [x \in Dn |-> IF x \in gone THEN NoMO ELSE st.mo[x]]
      /\ new.before = st.before \cap ((Dn \ gone) \X (Dn \ gone))
      /\ \A p \in Dn : new.kids[p] = IF p \in gone THEN <<>>
                                     ELSE IF ~ IsTop(d) /\ p = up THEN RemoveFirst(st.kids[p], d)
                                     ELSE st.kids[p]
  BY DEF RemoveSubtree
<1>. HIDE DEF new, gone, up
<1>3. \A x \in Present(new) : x \in Dn \ gone
  BY <1>2 DEF Present
<1>4. \A a, b \in Present(st) \cap Present(new) : <<a, b>> \in st.before <=> <<a, b>> \in new.before
  BY <1>2, <1>3
<1>5. ASSUME NEW p \in Dn
      PROVE  SameOrder(st.kids[p], new.kids[p])
  <2>1. st.kids[p] \in Seq(Dn) /\ \A i, j \in 1..Len(st.kids[p]) : st.kids[p][i] = st.kids[p][j] => i = j
    BY <1>1 DEF Inv, LinksOK
  <2>2. CASE p \in gone
    BY <1>2, <2>2 DEF SameOrder
  <2>3. CASE p \notin gone /\ ~ IsTop(d) /\ p = up
    BY <1>2, <2>1, <2>3, RemoveFirstOrder
  <2>4. CASE p \notin gone /\ ~ (~ IsTop(d) /\ p = up)
    BY <1>2, <2>1, <2>4 DEF SameOrder
  <2>5. QED
    BY <2>2, <2>3, <2>4
<1>6. QED
  BY <1>4, <1>5 DEF KeepsOrder, new

(* No call permutes what stays: by_class and all go on listing the MOs in  *)
(* the order they came in, and a child list its children.                  *)
THEOREM OrderKept == Spec => NoReordering
<1>1. TypeOK /\ IndexInv /\ Next => KeepsOrder(store, store')
  <2>. SUFFICES ASSUME TypeOK, IndexInv, Next PROVE KeepsOrder(store, store')
    OBVIOUS
  <2>1. store \in Store /\ Inv(store)
    BY DEF TypeOK, IndexInv, Inv
  <2>2. CASE \E d \in Dn : delete(d)
    BY <2>1, <2>2, RemoveSubtreeOrder DEF delete
  <2>3. CASE \E d \in Dn, m \in MO : add(d, m) \/ upsert(d, m)
    BY <2>1, <2>3, AddOneOrder, UpsertOneOrder DEF add, upsert
  <2>4. ASSUME NEW d \in Dn, NEW m \in MO, NEW cm \in MO, NEW c \in Below(d) \ {d}, addTree(d, m, c, cm)
        PROVE  KeepsOrder(store, store')
    <3>. DEFINE mid == AddOne(store, d, m)
    <3>1. mid \in Store /\ Inv(mid) /\ KeepsOrder(store, mid) /\ Grows(store, mid)
      BY <2>1, AddOneInv, AddOneOrder
    <3>2. store' = AddOne(mid, c, cm) /\ c \in Dn
      BY <2>4 DEF addTree, Below
    <3>. HIDE DEF mid
    <3>3. KeepsOrder(mid, store')
      BY <3>1, <3>2, AddOneOrder
    <3>4. QED
      BY <3>1, <3>3, OrderThroughGrowth
  <2>5. ASSUME NEW d \in Dn, NEW m \in MO, NEW cm \in MO, NEW c \in Below(d) \ {d}, NEW cdeleted \in BOOLEAN,
               upsertTree(d, m, c, cm, cdeleted)
        PROVE  KeepsOrder(store, store')
    <3>. DEFINE mid == UpsertOne(store, d, m)
    <3>1. mid \in Store /\ Inv(mid) /\ KeepsOrder(store, mid) /\ Grows(store, mid)
      BY <2>1, UpsertOneInv, UpsertOneOrder
    <3>2. (store' = RemoveSubtree(mid, c) \/ store' = UpsertOne(mid, c, cm)) /\ c \in Dn
      BY <2>5 DEF upsertTree, Below
    <3>. HIDE DEF mid
    <3>3. KeepsOrder(mid, store')
      BY <3>1, <3>2, UpsertOneOrder, RemoveSubtreeOrder
    <3>4. QED
      BY <3>1, <3>3, OrderThroughGrowth
  <2>6. QED
    BY <2>2, <2>3, <2>4, <2>5 DEF Next
<1>2. TypeOK /\ IndexInv /\ [Next]_store =>
        [/\ \A a, b \in Present(store) \cap Present(store') :
              <<a, b>> \in store.before <=> <<a, b>> \in store'.before
         /\ \A p \in Dn : \A i, j \in 1..Len(store.kids[p]) :
              \A k, l \in 1..Len(store'.kids[p]) :
                /\ store.kids[p][i] = store'.kids[p][k]
                /\ store.kids[p][j] = store'.kids[p][l]
                => (i < j <=> k < l)]_store
  BY <1>1 DEF KeepsOrder, SameOrder
<1>3. QED
  BY <1>2, InvariantsHold, PTL DEF Spec, NoReordering
-----------------------------------------------------------------------------
(* Walks                                                                    *)

LEMMA ConcatSet ==
  ASSUME NEW S, NEW s \in Seq(S), NEW t \in Seq(S)
  PROVE  ToSet(s \o t) = ToSet(s) \cup ToSet(t)
<1>1. Len(s) \in Nat /\ Len(t) \in Nat /\ DOMAIN s = 1..Len(s) /\ DOMAIN t = 1..Len(t)
  OBVIOUS
<1>2. /\ DOMAIN (s \o t) = 1..(Len(s) + Len(t))
      /\ \A i \in 1..(Len(s) + Len(t)) : (s \o t)[i] = IF i <= Len(s) THEN s[i] ELSE t[i - Len(s)]
  <2>1. /\ s \o t \in Seq(S) /\ Len(s \o t) = Len(s) + Len(t)
        /\ \A i \in 1..(Len(s) + Len(t)) : (s \o t)[i] = IF i <= Len(s) THEN s[i] ELSE t[i - Len(s)]
    BY ConcatProperties, Zenon
  <2>2. QED
    BY <2>1
<1>3. ASSUME NEW i \in 1..Len(t)
      PROVE  i + Len(s) \in 1..(Len(s) + Len(t)) /\ (s \o t)[i + Len(s)] = t[i]
  BY <1>1, <1>2
<1>4. ASSUME NEW i \in 1..Len(s)
      PROVE  i \in 1..(Len(s) + Len(t)) /\ (s \o t)[i] = s[i]
  BY <1>1, <1>2
<1>5. ASSUME NEW i \in 1..(Len(s) + Len(t))
      PROVE  \/ i \in 1..Len(s) /\ (s \o t)[i] = s[i]
             \/ i - Len(s) \in 1..Len(t) /\ (s \o t)[i] = t[i - Len(s)]
  BY <1>1, <1>2
<1>6. QED
  BY <1>1, <1>2, <1>3, <1>4, <1>5 DEF ToSet

LEMMA ConcatSets ==
  ASSUME NEW S, NEW s \in Seq(S), NEW t \in Seq(S), NEW u \in Seq(S)
  PROVE  s \o t \o u \in Seq(S) /\ ToSet(s \o t \o u) = ToSet(s) \cup ToSet(t) \cup ToSet(u)
<1>. DEFINE st == s \o t
<1>1. st \in Seq(S) /\ ToSet(st) = ToSet(s) \cup ToSet(t)
  BY ConcatProperties, ConcatSet
<1>. HIDE DEF st
<1>2. st \o u \in Seq(S) /\ ToSet(st \o u) = ToSet(st) \cup ToSet(u)
  BY <1>1, ConcatProperties, ConcatSet
<1>3. QED
  BY <1>1, <1>2 DEF st

(* No entry twice *)
Once(s) == \A i, j \in 1..Len(s) : s[i] = s[j] => i = j

LEMMA ConcatOnce ==
  ASSUME NEW S, NEW s \in Seq(S), NEW t \in Seq(S), Once(s), Once(t), ToSet(s) \cap ToSet(t) = {}
  PROVE  Once(s \o t)
<1>1. Len(s) \in Nat /\ Len(t) \in Nat /\ DOMAIN s = 1..Len(s) /\ DOMAIN t = 1..Len(t)
  OBVIOUS
<1>2. /\ Len(s \o t) = Len(s) + Len(t)
      /\ \A i \in 1..(Len(s) + Len(t)) : (s \o t)[i] = IF i <= Len(s) THEN s[i] ELSE t[i - Len(s)]
  BY ConcatProperties, Zenon
<1>3. \A i \in 1..Len(s) : \A j \in 1..Len(t) : s[i] # t[j]
  BY <1>1 DEF ToSet
<1>4. ASSUME NEW i \in 1..Len(s \o t)
      PROVE  \/ i \in 1..Len(s) /\ (s \o t)[i] = s[i]
             \/ /\ i - Len(s) \in 1..Len(t) /\ (s \o t)[i] = t[i - Len(s)]
                /\ ~ (i \in 1..Len(s)) /\ i \in Int
  BY <1>1, <1>2
<1>5. ASSUME NEW i \in 1..Len(s \o t), NEW j \in 1..Len(s \o t), (s \o t)[i] = (s \o t)[j]
      PROVE  i = j
  <2>1. CASE i \in 1..Len(s) /\ j \in 1..Len(s)
    BY <1>4, <1>5, <2>1 DEF Once
  <2>2. CASE ~ (i \in 1..Len(s)) /\ ~ (j \in 1..Len(s))
    <3>1. i - Len(s) = j - Len(s)
      BY <1>4, <1>5, <2>2 DEF Once
    <3>2. QED
      BY <1>1, <1>4, <2>2, <3>1
  <2>3. CASE i \in 1..Len(s) /\ ~ (j \in 1..Len(s))
    BY <1>3, <1>4, <1>5, <2>3
  <2>4. CASE ~ (i \in 1..Len(s)) /\ j \in 1..Len(s)
    BY <1>3, <1>4, <1>5, <2>4
  <2>5. QED
    BY <2>1, <2>2, <2>3, <2>4
<1>6. QED
  BY <1>5 DEF Once

(* The list of one entry's children, turn by turn.                         *)
Own(st, c) == IF c \in Present(st) THEN <<c>> ELSE <<>>

IsWalk(u, st, walk, p) ==
  /\ u[0] = <<>> /\ \A i \in 0..Len(st.kids[p]) : u[i] \in Seq(Dn)
  /\ \A i \in 1..Len(st.kids[p]) : u[i] = u[i - 1] \o Own(st, st.kids[p][i]) \o walk[st.kids[p][i]]
  /\ Walked(st, walk, p) = u[Len(st.kids[p])]

LEMMA WalkedLoop ==
  ASSUME NEW st \in Store, NEW walk, NEW p \in Dn,
         \A i \in 1..Len(st.kids[p]) : walk[st.kids[p][i]] \in Seq(Dn)
  PROVE  \E u : IsWalk(u, st, walk, p)
<1>. DEFINE D == Seq(Dn)
            n == Len(st.kids[p])
            own(i) == IF st.kids[p][i] \in Present(st) THEN <<st.kids[p][i]>> ELSE <<>>
            Turn(x, i) == x \o own(i) \o walk[st.kids[p][i]]
            step == [x \in D \X (1..n) |-> Turn(x[1], x[2])]
            F(f) == [i \in 0..Len(st.kids[p]) |->
                       IF i = 0 THEN <<>>
                       ELSE LET c == st.kids[p][i]
                            IN  f[i - 1] \o (IF c \in Present(st) THEN <<c>> ELSE <<>>) \o walk[c]]
            u == CHOOSE f : f = F(f)
<1>1. n \in Nat /\ \A i \in 1..n : st.kids[p][i] \in Dn
  <2>1. st.kids[p] \in Seq(Dn)
    BY DEF Store
  <2>2. QED
    BY <2>1
<1>2. <<>> \in D /\ step \in [D \X (1..n) -> D]
  <2>1. ASSUME NEW x \in D \X (1..n)
        PROVE  Turn(x[1], x[2]) \in D
    <3>1. x[1] \in D /\ x[2] \in 1..n
      OBVIOUS
    <3>2. own(x[2]) \in D /\ walk[st.kids[p][x[2]]] \in D
      BY <1>1, <3>1
    <3>. HIDE DEF own
    <3>3. QED
      BY <3>1, <3>2
  <2>2. QED
    BY <2>1
<1>. HIDE DEF D, n, step, u
<1>3. PICK f : IsLoop(f, D, <<>>, n, step)
  BY <1>1, <1>2, LoopExists
<1>4. \A i \in 1..n : f[i] = Turn(f[i - 1], i)
  <2>1. ASSUME NEW i \in 1..n
        PROVE  f[i] = Turn(f[i - 1], i)
    <3>1. <<f[i - 1], i>> \in D \X (1..n) /\ f[i] = step[<<f[i - 1], i>>]
      BY <1>1, <1>3 DEF IsLoop
    <3>2. QED
      BY <3>1 DEF step
  <2>2. QED
    BY <2>1
<1>5. f = F(f)
  <2>. HIDE DEF Turn
  <2>1. \A i \in 0..n : f[i] = IF i = 0 THEN <<>> ELSE Turn(f[i - 1], i)
    BY <1>1, <1>3, <1>4 DEF IsLoop
  <2>2. f = [i \in 0..n |-> IF i = 0 THEN <<>> ELSE Turn(f[i - 1], i)]
    BY <1>3, <2>1 DEF IsLoop
  <2>3. QED
    BY <2>2 DEF Turn, n
<1>6. u = F(u)
  <2>. HIDE DEF F
  <2>1. \E g : g = F(g)
    BY <1>5
  <2>2. QED
    BY <2>1 DEF u
<1>7. u[0] = <<>> /\ \A i \in 1..n : u[i] = Turn(u[i - 1], i)
  <2>1. u = [i \in 0..n |-> IF i = 0 THEN <<>> ELSE Turn(u[i - 1], i)]
    BY <1>6 DEF n
  <2>. HIDE DEF Turn, F
  <2>2. QED
    BY <1>1, <2>1
<1>8. \A i \in 0..n : u[i] \in D
  <2>1. ASSUME NEW i \in 0..(n - 1), u[i] \in D
        PROVE  u[i + 1] \in D
    <3>1. i + 1 \in 1..n /\ (i + 1) - 1 = i
      BY <1>1
    <3>2. u[i + 1] = step[<<u[i], i + 1>>] /\ <<u[i], i + 1>> \in D \X (1..n)
      BY <1>7, <2>1, <3>1 DEF step
    <3>3. QED
      BY <1>2, <3>2
  <2>2. u[0] \in D
    BY <1>2, <1>7
  <2>3. QED
    BY <1>1, <2>1, <2>2, LoopInvariant
<1>9. Walked(st, walk, p) = u[n]
  BY DEF Walked, u, n
<1>10. QED
  BY <1>7, <1>8, <1>9 DEF n, D, IsWalk, Own

LEMMA WalkedFacts ==
  ASSUME NEW st \in Store, NEW walk, NEW p \in Dn,
         \A i \in 1..Len(st.kids[p]) : walk[st.kids[p][i]] \in Seq(Dn)
  PROVE  /\ Walked(st, walk, p) \in Seq(Dn)
         /\ ToSet(Walked(st, walk, p)) =
              UNION {({st.kids[p][i]} \cap Present(st)) \cup ToSet(walk[st.kids[p][i]]) : i \in 1..Len(st.kids[p])}
<1>. DEFINE n == Len(st.kids[p])
            part(i) == ({st.kids[p][i]} \cap Present(st)) \cup ToSet(walk[st.kids[p][i]])
<1>1. n \in Nat /\ \A i \in 1..n : st.kids[p][i] \in Dn
  <2>1. st.kids[p] \in Seq(Dn)
    BY DEF Store
  <2>2. QED
    BY <2>1
<1>2. PICK u : IsWalk(u, st, walk, p)
  BY WalkedLoop
<1>. HIDE DEF n, part
<1>. DEFINE S == {i \in 0..n : ToSet(u[i]) = UNION {part(j) : j \in 1..i}}
<1>3. 0 \in S
  <2>1. ToSet(<<>>) = {}
    BY DEF ToSet
  <2>2. QED
    BY <1>1, <1>2, <2>1 DEF IsWalk
<1>4. ASSUME NEW i \in 0..(n - 1), i \in S
      PROVE  i + 1 \in S
  <2>. DEFINE c == st.kids[p][i + 1]
  <2>1. i + 1 \in 1..n /\ i + 1 \in 0..n /\ i \in 0..n /\ (i + 1) - 1 = i /\ 1..(i + 1) = 1..i \cup {i + 1}
    BY <1>1
  <2>2. u[i + 1] = u[i] \o Own(st, c) \o walk[c]
    BY <1>2, <2>1 DEF IsWalk, n
  <2>3. u[i] \in Seq(Dn) /\ walk[c] \in Seq(Dn) /\ c \in Dn
    BY <1>1, <1>2, <2>1 DEF IsWalk, n
  <2>. HIDE DEF c
  <2>4. Own(st, c) \in Seq(Dn) /\ ToSet(Own(st, c)) = {c} \cap Present(st)
    BY <2>3 DEF Own, ToSet
  <2>5. ToSet(u[i + 1]) = ToSet(u[i]) \cup ToSet(Own(st, c)) \cup ToSet(walk[c])
    <3>. DEFINE a == u[i]
                b == Own(st, c)
                e == walk[c]
    <3>1. a \in Seq(Dn) /\ b \in Seq(Dn) /\ e \in Seq(Dn)
      BY <2>3, <2>4
    <3>. HIDE DEF a, b, e
    <3>2. ToSet(a \o b \o e) = ToSet(a) \cup ToSet(b) \cup ToSet(e)
      BY <3>1, ConcatSets
    <3>3. QED
      BY <2>2, <3>2 DEF a, b, e
  <2>6. ToSet(u[i + 1]) = (UNION {part(j) : j \in 1..i}) \cup part(i + 1)
    BY <1>4, <2>4, <2>5 DEF part, c
  <2>7. UNION {part(j) : j \in 1..(i + 1)} = (UNION {part(j) : j \in 1..i}) \cup part(i + 1)
    BY <2>1
  <2>8. QED
    BY <2>1, <2>6, <2>7
<1>. HIDE DEF S
<1>5. 0..n \subseteq S
  BY <1>1, <1>3, <1>4, BoundedInduction
<1>6. ToSet(u[n]) = UNION {part(j) : j \in 1..n}
  BY <1>1, <1>5 DEF S
<1>7. u[n] \in Seq(Dn) /\ Walked(st, walk, p) = u[n]
  BY <1>1, <1>2 DEF IsWalk, n
<1>8. QED
  BY <1>6, <1>7 DEF n, part

(* What an entry of the child list and the walk below it contribute.        *)
Part(st, walk, p, i) == ({st.kids[p][i]} \cap Present(st)) \cup ToSet(walk[st.kids[p][i]])

LEMMA WalkedOnce ==
  ASSUME NEW st \in Store, NEW walk, NEW p \in Dn,
         \A i \in 1..Len(st.kids[p]) : /\ walk[st.kids[p][i]] \in Seq(Dn)
                                       /\ Once(walk[st.kids[p][i]])
                                       /\ st.kids[p][i] \notin ToSet(walk[st.kids[p][i]]),
         \A i, j \in 1..Len(st.kids[p]) : i # j => Part(st, walk, p, i) \cap Part(st, walk, p, j) = {}
  PROVE  Once(Walked(st, walk, p))
<1>. DEFINE n == Len(st.kids[p])
            part(i) == Part(st, walk, p, i)
<1>1. n \in Nat /\ \A i \in 1..n : st.kids[p][i] \in Dn
  <2>1. st.kids[p] \in Seq(Dn)
    BY DEF Store
  <2>2. QED
    BY <2>1
<1>2. PICK u : IsWalk(u, st, walk, p)
  BY WalkedLoop
<1>3. \A i, j \in 1..n : i # j => part(i) \cap part(j) = {}
  OBVIOUS
<1>. HIDE DEF n, part
<1>. DEFINE S == {i \in 0..n : Once(u[i]) /\ ToSet(u[i]) = UNION {part(j) : j \in 1..i}}
<1>4. 0 \in S
  <2>1. ToSet(<<>>) = {} /\ Once(<<>>)
    BY DEF ToSet, Once
  <2>2. QED
    BY <1>1, <1>2, <2>1 DEF IsWalk
<1>5. ASSUME NEW i \in 0..(n - 1), i \in S
      PROVE  i + 1 \in S
  <2>. DEFINE c == st.kids[p][i + 1]
              a == u[i]
              b == Own(st, c)
              e == walk[c]
  <2>1. i + 1 \in 1..n /\ i + 1 \in 0..n /\ i \in 0..n /\ (i + 1) - 1 = i /\ 1..(i + 1) = 1..i \cup {i + 1}
    BY <1>1
  <2>2. u[i + 1] = a \o b \o e
    BY <1>2, <2>1 DEF IsWalk, n
  <2>3. a \in Seq(Dn) /\ e \in Seq(Dn) /\ c \in Dn /\ Once(e) /\ c \notin ToSet(e)
    BY <1>1, <1>2, <2>1 DEF IsWalk, n
  <2>4. Once(a) /\ ToSet(a) = UNION {part(j) : j \in 1..i}
    BY <1>5
  <2>5. part(i + 1) = ({c} \cap Present(st)) \cup ToSet(e)
    BY DEF part, Part
  <2>. HIDE DEF c, e, a
  <2>6. b \in Seq(Dn) /\ ToSet(b) = {c} \cap Present(st) /\ Once(b)
    BY <2>3 DEF Own, ToSet, Once
  <2>. HIDE DEF b
  <2>7. ToSet(a) \cap part(i + 1) = {}
    <3>1. \A j \in 1..i : j \in 1..n /\ j # i + 1
      BY <1>1
    <3>2. \A j \in 1..i : part(j) \cap part(i + 1) = {}
      BY <1>3, <2>1, <3>1
    <3>3. QED
      BY <2>4, <3>2
  <2>. DEFINE ab == a \o b
  <2>8. ab \in Seq(Dn) /\ Once(ab) /\ ToSet(ab) = ToSet(a) \cup ToSet(b)
    <3>1. ToSet(a) \cap ToSet(b) = {}
      BY <2>5, <2>6, <2>7
    <3>2. QED
      BY <2>3, <2>4, <2>6, <3>1, ConcatProperties, ConcatSet, ConcatOnce
  <2>. HIDE DEF ab
  <2>9. Once(ab \o e) /\ ToSet(ab \o e) = ToSet(ab) \cup ToSet(e)
    <3>1. ToSet(ab) \cap ToSet(e) = {}
      BY <2>3, <2>5, <2>6, <2>7, <2>8
    <3>2. QED
      BY <2>3, <2>8, <3>1, ConcatSet, ConcatOnce
  <2>10. UNION {part(j) : j \in 1..(i + 1)} = (UNION {part(j) : j \in 1..i}) \cup part(i + 1)
    BY <2>1
  <2>11. ToSet(ab \o e) = UNION {part(j) : j \in 1..(i + 1)}
    BY <2>4, <2>5, <2>6, <2>8, <2>9, <2>10
  <2>12. QED
    BY <2>1, <2>2, <2>9, <2>11 DEF ab
<1>. HIDE DEF S
<1>6. 0..n \subseteq S
  BY <1>1, <1>4, <1>5, BoundedInduction
<1>7. Once(u[n])
  BY <1>1, <1>6 DEF S
<1>8. Walked(st, walk, p) = u[n]
  BY <1>2 DEF IsWalk, n
<1>9. QED
  BY <1>7, <1>8

LEMMA WalkedSame ==
  ASSUME NEW st \in Store, NEW f, NEW g, NEW p \in Dn,
         \A i \in 1..Len(st.kids[p]) :
           f[st.kids[p][i]] \in Seq(Dn) /\ f[st.kids[p][i]] = g[st.kids[p][i]]
  PROVE  Walked(st, f, p) = Walked(st, g, p)
<1>. DEFINE n == Len(st.kids[p])
<1>1. n \in Nat
  <2>1. st.kids[p] \in Seq(Dn)
    BY DEF Store
  <2>2. QED
    BY <2>1
<1>2. PICK u : IsWalk(u, st, f, p)
  BY WalkedLoop
<1>3. PICK v : IsWalk(v, st, g, p)
  <2>1. \A i \in 1..n : g[st.kids[p][i]] \in Seq(Dn)
    OBVIOUS
  <2>2. QED
    BY <2>1, WalkedLoop
<1>. HIDE DEF n
<1>. DEFINE S == {i \in 0..n : u[i] = v[i]}
<1>4. 0 \in S
  BY <1>1, <1>2, <1>3 DEF IsWalk
<1>5. ASSUME NEW i \in 0..(n - 1), i \in S
      PROVE  i + 1 \in S
  <2>1. i + 1 \in 1..n /\ i + 1 \in 0..n /\ (i + 1) - 1 = i
    BY <1>1
  <2>. DEFINE c == st.kids[p][i + 1]
  <2>2. u[i] = v[i] /\ f[c] = g[c]
    BY <1>5, <2>1 DEF n
  <2>3. u[i + 1] = u[i] \o Own(st, c) \o f[c] /\ v[i + 1] = v[i] \o Own(st, c) \o g[c]
    BY <1>2, <1>3, <2>1 DEF IsWalk, n
  <2>. HIDE DEF c
  <2>4. QED
    BY <2>1, <2>2, <2>3
<1>. HIDE DEF S
<1>6. 0..n \subseteq S
  BY <1>1, <1>4, <1>5, BoundedInduction
<1>7. u[n] = v[n]
  BY <1>1, <1>6 DEF S
<1>8. QED
  BY <1>2, <1>3, <1>7 DEF IsWalk, n

(* The child lists are empty from some depth on, and what is stored is     *)
(* finite, whatever the set of DNs.                                        *)
Small(st) ==
  /\ IsFiniteSet(Present(st))
  /\ \E n \in Nat : \A p \in Dn : st.kids[p] # <<>> => Len(p) <= n

LEMMA SmallAdd ==
  ASSUME NEW st \in Store, Inv(st), Small(st), NEW d \in Dn, NEW m \in MO
  PROVE  Small(AddOne(st, d, m))
<1>. DEFINE new == AddOne(st, d, m)
<1>1. /\ st.mo \in [Dn -> MO \cup {NoMO}] /\ st.kids \in [Dn -> Seq(Dn)]
      /\ new.mo = [st.mo EXCEPT ![d] = m]
      /\ \A p \in Dn : ~ (d \in Below(p) \ {p}) => new.kids[p] = st.kids[p]
  BY DEF Store, AddOne, Register
<1>. HIDE DEF new
<1>2. Present(new) \subseteq Present(st) \cup {d}
  BY <1>1 DEF Present
<1>3. IsFiniteSet(Present(new))
  BY <1>2, FS_AddElement, FS_Subset DEF Small
<1>4. PICK n \in Nat : \A p \in Dn : st.kids[p] # <<>> => Len(p) <= n
  BY DEF Small
<1>5. d \in Seq(Rn) /\ Len(d) \in Nat /\ \A p \in Dn : Len(p) \in Nat
  BY DnAssumption
<1>6. \A p \in Dn : new.kids[p] # <<>> => Len(p) <= n + Len(d)
  <2>1. ASSUME NEW p \in Dn, new.kids[p] # <<>>
        PROVE  Len(p) <= n + Len(d)
    <3>1. CASE d \in Below(p) \ {p}
      BY <1>5, <3>1 DEF Below
    <3>2. CASE ~ (d \in Below(p) \ {p})
      BY <1>1, <1>4, <1>5, <2>1, <3>2
    <3>3. QED
      BY <3>1, <3>2
  <2>2. QED
    BY <2>1
<1>7. QED
  BY <1>3, <1>5, <1>6 DEF Small, new

LEMMA SmallKept ==
  ASSUME NEW st \in Store, Small(st), NEW new \in Store, Present(new) \subseteq Present(st),
         \A p \in Dn : st.kids[p] = <<>> => new.kids[p] = <<>>
  PROVE  Small(new)
BY FS_Subset DEF Small

LEMMA SmallUpsert ==
  ASSUME NEW st \in Store, Inv(st), Small(st), NEW d \in Dn, NEW m \in MO
  PROVE  Small(UpsertOne(st, d, m))
<1>. DEFINE new == UpsertOne(st, d, m)
<1>1. CASE d \notin Present(st)
  BY <1>1, SmallAdd DEF UpsertOne
<1>2. CASE d \in Present(st)
  <2>1. new \in Store
    BY UpsertOneInv
  <2>2. /\ st.mo \in [Dn -> MO \cup {NoMO}]
        /\ st = [mo |-> st.mo, before |-> st.before, kids |-> st.kids]
    BY DEF Store
  <2>3. new.kids = st.kids /\ \A x \in Dn : x # d => new.mo[x] = st.mo[x]
    BY <1>2, <2>2 DEF UpsertOne
  <2>. HIDE DEF new
  <2>4. Present(new) \subseteq Present(st)
    BY <1>2, <2>3 DEF Present
  <2>5. QED
    BY <2>1, <2>3, <2>4, SmallKept DEF new
<1>3. QED
  BY <1>1, <1>2

LEMMA SmallRemove ==
  ASSUME NEW st \in Store, Inv(st), Small(st), NEW d \in Dn
  PROVE  Small(RemoveSubtree(st, d))
<1>. DEFINE new == RemoveSubtree(st, d)
            gone == Reach(st.kids, d)
<1>1. new \in Store /\ st.kids \in [Dn -> Seq(Dn)]
  BY RemoveSubtreeInv DEF Store
<1>2. /\ new.mo = [x \in Dn |-> IF x \in gone THEN NoMO ELSE st.mo[x]]
      /\ \A p \in Dn : new.kids[p] = IF p \in gone THEN <<>>
                                     ELSE IF ~ IsTop(d) /\ p = parent_dn(d) THEN RemoveFirst(st.kids[p], d)
                                     ELSE st.kids[p]
  BY DEF RemoveSubtree
<1>. HIDE DEF new, gone
<1>3. Present(new) \subseteq Present(st)
  BY <1>2 DEF Present
<1>4. RemoveFirst(<<>>, d) = <<>>
  BY DEF RemoveFirst
<1>5. \A p \in Dn : st.kids[p] = <<>> => new.kids[p] = <<>>
  BY <1>2, <1>4
<1>6. QED
  BY <1>1, <1>3, <1>5, SmallKept DEF new

(* Whatever has an MO or children below p is below the child of p on the   *)
(* way to it, and that child is in the list of p.                          *)
LEMMA TowardsLinked ==
  ASSUME NEW st \in Store, Inv(st), NEW p \in Dn
  PROVE  \A x \in Below(p) \ {p} : x \in Present(st) \/ st.kids[x] # <<>> =>
           \E i \in 1..Len(st.kids[p]) : st.kids[p][i] = Towards(p, x)
<1>. DEFINE Good(x) == x \in Present(st) \/ st.kids[x] # <<>> =>
                         \E i \in 1..Len(st.kids[p]) : st.kids[p][i] = Towards(p, x)
            S == {n \in Nat : \A x \in Below(p) \ {p} : Len(x) <= n => Good(x)}
<1>1. p \in Seq(Rn) /\ Len(p) \in Nat /\ Len(p) >= 1
  BY DnAssumption
<1>2. \A x \in Below(p) \ {p} : x \in Dn /\ x \in Seq(Rn) /\ Len(x) \in Nat /\ Len(x) > Len(p)
  BY TowardsDn, DnAssumption DEF Below
<1>3. 0 \in S
  BY <1>1, <1>2
<1>4. ASSUME NEW n \in Nat, n \in S
      PROVE  n + 1 \in S
  <2>1. SUFFICES ASSUME NEW x \in Below(p) \ {p}, Len(x) = n + 1, x \in Present(st) \/ st.kids[x] # <<>>
                 PROVE  \E i \in 1..Len(st.kids[p]) : st.kids[p][i] = Towards(p, x)
    BY <1>2, <1>4
  <2>2. x \in Dn /\ x \in Seq(Rn) /\ Len(x) > Len(p) /\ ~ IsTop(x)
    BY <1>1, <1>2 DEF IsTop
  <2>. DEFINE up == parent_dn(x)
  <2>3. up \in Dn /\ up \in Below(p) /\ Len(up) = n
    <3>1. ~ IsTop(x) /\ up \in Below(p)
      BY BelowParent
    <3>2. up \in Dn /\ Len(up) = Len(x) - 1
      BY <2>2, ParentDn
    <3>3. QED
      BY <2>1, <3>1, <3>2
  <2>4. PICK i \in 1..Len(st.kids[up]) : st.kids[up][i] = x
    BY <2>1, <2>2 DEF Inv, ChainOK
  <2>5. CASE up = p
    <3>1. Towards(p, x) = x
      <4>1. Len(x) = Len(p) + 1
        BY <2>1, <2>3, <2>5
      <4>2. SubSeq(x, 1, Len(x)) = x
        BY <2>2
      <4>3. QED
        BY <4>1, <4>2 DEF Towards
    <3>2. QED
      BY <2>4, <2>5, <3>1
  <2>6. CASE up # p
    <3>1. st.kids[up] # <<>>
      <4>1. st.kids[up] \in Seq(Dn)
        BY <2>3 DEF Store
      <4>2. QED
        BY <2>4, <4>1
    <3>2. PICK j \in 1..Len(st.kids[p]) : st.kids[p][j] = Towards(p, up)
      BY <1>4, <2>3, <2>6, <3>1
    <3>3. Towards(p, up) = Towards(p, x)
      <4>1. Len(p) < Len(up) /\ Len(up) = Len(x) - 1 /\ Len(p) + 1 <= Len(up)
        BY <1>1, <1>2, <2>1, <2>3, <2>6
      <4>2. SubSeq(SubSeq(x, 1, Len(x) - 1), 1, Len(p) + 1) = SubSeq(x, 1, Len(p) + 1)
        BY <1>1, <2>2, <4>1
      <4>3. QED
        BY <4>2 DEF Towards, parent_dn
    <3>4. QED
      BY <3>2, <3>3
  <2>7. QED
    BY <2>5, <2>6
<1>. HIDE DEF S
<1>5. Nat \subseteq S
  BY <1>3, <1>4, SetInduction
<1>6. QED
  BY <1>2, <1>5 DEF S

(* What is below a child of p is below p, and all that is below p is one   *)
(* of its children or below one, as far as anything is stored.             *)
LEMMA BelowChildren ==
  ASSUME NEW st \in Store, Inv(st), NEW p \in Dn
  PROVE  UNION {({st.kids[p][i]} \cap Present(st)) \cup (Present(st) \cap (Below(st.kids[p][i]) \ {st.kids[p][i]}))
                  : i \in 1..Len(st.kids[p])}
           = Present(st) \cap (Below(p) \ {p})
<1>. DEFINE part(i) == ({st.kids[p][i]} \cap Present(st)) \cup (Present(st) \cap (Below(st.kids[p][i]) \ {st.kids[p][i]}))
<1>1. ASSUME NEW i \in 1..Len(st.kids[p]), NEW x \in part(i)
      PROVE  x \in Present(st) \cap (Below(p) \ {p})
  <2>. DEFINE c == st.kids[p][i]
  <2>1. c \in Dn /\ ~ IsTop(c) /\ parent_dn(c) = p
    <3>1. st.kids[p] \in Seq(Dn)
      BY DEF Store
    <3>2. QED
      BY <3>1 DEF Inv, LinksOK
  <2>2. c \in Below(c)
    BY <2>1, DnAssumption DEF Below
  <2>3. x \in Present(st) /\ x \in Below(c)
    BY <1>1, <2>2
  <2>. HIDE DEF c
  <2>4. x \in Below(p) \ {p}
    BY <2>1, <2>3, AboveParent
  <2>5. QED
    BY <2>3, <2>4
<1>2. ASSUME NEW x \in Present(st) \cap (Below(p) \ {p})
      PROVE  \E i \in 1..Len(st.kids[p]) : x \in part(i)
  <2>1. PICK i \in 1..Len(st.kids[p]) : st.kids[p][i] = Towards(p, x)
    BY TowardsLinked
  <2>2. x \in Below(Towards(p, x))
    <3>1. x \in Dn /\ x \in Seq(Rn) /\ Len(p) \in Nat /\ Len(x) \in Nat /\ 1 <= Len(p) /\ Len(p) < Len(x)
      BY TowardsDn, DnAssumption DEF Below
    <3>2. Len(Towards(p, x)) = Len(p) + 1 /\ Len(p) + 1 <= Len(x)
      BY <3>1 DEF Towards
    <3>3. QED
      BY <3>1, <3>2 DEF Below, Towards
  <2>3. QED
    BY <2>1, <2>2
<1>. HIDE DEF part
<1>3. UNION {part(i) : i \in 1..Len(st.kids[p])} = Present(st) \cap (Below(p) \ {p})
  BY <1>1, <1>2
<1>4. QED
  BY <1>3 DEF part

(* Nothing is below two entries of a child list.                           *)
LEMMA BelowApart ==
  ASSUME NEW st \in Store, Inv(st), NEW p \in Dn,
         NEW i \in 1..Len(st.kids[p]), NEW j \in 1..Len(st.kids[p]), i # j
  PROVE  Below(st.kids[p][i]) \cap Below(st.kids[p][j]) = {}
<1>. DEFINE c == st.kids[p][i]
            e == st.kids[p][j]
<1>1. /\ c \in Dn /\ ~ IsTop(c) /\ parent_dn(c) = p
      /\ e \in Dn /\ ~ IsTop(e) /\ parent_dn(e) = p /\ c # e
  <2>1. st.kids[p] \in Seq(Dn)
    BY DEF Store
  <2>2. QED
    BY <2>1 DEF Inv, LinksOK
<1>. HIDE DEF c, e
<1>2. Len(c) = Len(e)
  <2>1. /\ Len(parent_dn(c)) = Len(c) - 1 /\ Len(c) \in Nat
        /\ Len(parent_dn(e)) = Len(e) - 1 /\ Len(e) \in Nat
    BY <1>1, ParentDn
  <2>2. QED
    BY <1>1, <2>1
<1>3. Below(c) \cap Below(e) = {}
  BY <1>1, <1>2 DEF Below
<1>4. QED
  BY <1>3 DEF c, e

(* h falls along the child lists.                                          *)
Heights(st, n, h) ==
  /\ h \in [Dn -> 0..n]
  /\ \A p \in Dn : \A i \in 1..Len(st.kids[p]) :
       st.kids[p][i] \in Dn /\ h[st.kids[p][i]] < h[p]

LEMMA HeightsExist ==
  ASSUME NEW st \in Store, Inv(st), Small(st)
  PROVE  \E n \in Nat : \E h : Heights(st, n, h)
<1>1. PICK n \in Nat : \A p \in Dn : st.kids[p] # <<>> => Len(p) <= n
  BY DEF Small
<1>2. \A p \in Dn : Len(p) \in Nat /\ Len(p) >= 1
  BY DnAssumption
<1>. DEFINE h == [p \in Dn |-> IF Len(p) <= n THEN (n + 1) - Len(p) ELSE 0]
<1>3. h \in [Dn -> 0..n]
  BY <1>2
<1>4. ASSUME NEW p \in Dn, NEW i \in 1..Len(st.kids[p])
      PROVE  st.kids[p][i] \in Dn /\ h[st.kids[p][i]] < h[p]
  <2>. DEFINE c == st.kids[p][i]
  <2>1. st.kids[p] \in Seq(Dn)
    BY DEF Store
  <2>2. c \in Dn /\ ~ IsTop(c) /\ parent_dn(c) = p
    BY <2>1 DEF Inv, LinksOK
  <2>3. st.kids[p] # <<>>
    BY <2>1
  <2>. HIDE DEF c
  <2>4. Len(c) = Len(p) + 1 /\ Len(p) <= n
    <3>1. Len(parent_dn(c)) = Len(c) - 1 /\ Len(c) \in Nat
      BY <2>2, ParentDn
    <3>2. QED
      BY <1>1, <2>2, <2>3, <3>1
  <2>5. h[c] < h[p]
    BY <1>1, <1>2, <2>2, <2>4
  <2>6. QED
    BY <2>2, <2>5 DEF c
<1>. HIDE DEF h
<1>5. Heights(st, n, h)
  BY <1>3, <1>4 DEF Heights
<1>6. QED
  BY <1>5

(* What holds of a DN when it holds of its child list holds of every DN.   *)
LEMMA HeightInduction ==
  ASSUME NEW st \in Store, Inv(st), Small(st), NEW R,
         \A p \in Dn : (\A i \in 1..Len(st.kids[p]) : st.kids[p][i] \in R) => p \in R
  PROVE  Dn \subseteq R
<1>1. PICK n \in Nat : \E h : Heights(st, n, h)
  BY HeightsExist
<1>2. PICK h : Heights(st, n, h)
  BY <1>1
<1>. DEFINE S == {m \in 0..(n + 1) : \A p \in Dn : h[p] < m => p \in R}
<1>3. \A p \in Dn : h[p] \in 0..n
  BY <1>2 DEF Heights
<1>4. 0 \in S
  BY <1>3
<1>5. ASSUME NEW m \in 0..((n + 1) - 1), m \in S
      PROVE  m + 1 \in S
  <2>1. SUFFICES ASSUME NEW p \in Dn, h[p] < m + 1
                 PROVE  p \in R
    OBVIOUS
  <2>2. ASSUME NEW i \in 1..Len(st.kids[p])
        PROVE  st.kids[p][i] \in R
    <3>1. st.kids[p][i] \in Dn /\ h[st.kids[p][i]] < h[p]
      BY <1>2 DEF Heights
    <3>. DEFINE c == st.kids[p][i]
    <3>. HIDE DEF c
    <3>2. c \in Dn /\ h[c] < h[p]
      BY <3>1 DEF c
    <3>3. h[c] < m
      BY <1>3, <2>1, <3>2
    <3>4. c \in R
      BY <1>5, <3>2, <3>3
    <3>5. QED
      BY <3>4 DEF c
  <2>3. QED
    BY <2>2
<1>. HIDE DEF S
<1>6. 0..(n + 1) \subseteq S
  <2>1. n + 1 \in Nat
    OBVIOUS
  <2>2. QED
    BY <1>4, <1>5, <2>1, BoundedInduction
<1>7. QED
  BY <1>3, <1>6 DEF S

(* The walk of every DN is made of the walks of its children.              *)
LEMMA SubtreeUnfolds ==
  ASSUME NEW st \in Store, Inv(st), Small(st)
  PROVE  \E walk : /\ \A p \in Dn : Subtree(st, p) = walk[p]
                   /\ \A p \in Dn : walk[p] = Walked(st, walk, p)
<1>1. PICK n \in Nat : \E h : Heights(st, n, h)
  BY HeightsExist
<1>2. PICK h : Heights(st, n, h)
  BY <1>1
<1>. DEFINE V == Seq(Dn)
            step == [f \in [Dn -> V] |-> [p \in Dn |-> Walked(st, f, p)]]
<1>3. h \in [Dn -> 0..n]
  BY <1>2 DEF Heights
<1>4. \A p \in Dn : \A i \in 1..Len(st.kids[p]) : st.kids[p][i] \in Dn /\ h[st.kids[p][i]] < h[p]
  BY <1>2 DEF Heights
<1>5. step \in [[Dn -> V] -> [Dn -> V]]
  <2>1. ASSUME NEW f \in [Dn -> V], NEW p \in Dn
        PROVE  Walked(st, f, p) \in V
    <3>1. \A i \in 1..Len(st.kids[p]) : f[st.kids[p][i]] \in Seq(Dn)
      BY <1>4
    <3>2. QED
      BY <3>1, WalkedFacts
  <2>2. QED
    BY <2>1
<1>6. IsRecursion(step, Dn, [Dn -> V], h, n)
  <2>1. ASSUME NEW f \in [Dn -> V], NEW g \in [Dn -> V], NEW p \in Dn,
               \A y \in Dn : h[y] < h[p] => f[y] = g[y]
        PROVE  step[f][p] = step[g][p]
    <3>1. \A i \in 1..Len(st.kids[p]) :
            f[st.kids[p][i]] \in Seq(Dn) /\ f[st.kids[p][i]] = g[st.kids[p][i]]
      BY <1>4, <2>1
    <3>2. Walked(st, f, p) = Walked(st, g, p)
      BY <3>1, WalkedSame
    <3>3. QED
      BY <3>2
  <2>. HIDE DEF V, step
  <2>2. Descends(step, Dn, [Dn -> V], h)
    BY <2>1 DEF Descends
  <2>3. \A f \in [Dn -> V] : f = [x \in Dn |-> f[x]]
    OBVIOUS
  <2>4. QED
    BY <1>3, <1>5, <2>2, <2>3 DEF IsRecursion
<1>7. PICK f \in [Dn -> V] : f = [p \in Dn |-> Walked(st, f, p)]
  <2>1. [x \in Dn |-> <<>>] \in [Dn -> V]
    OBVIOUS
  <2>2. \A f \in [Dn -> V] : step[f] = [p \in Dn |-> Walked(st, f, p)]
    OBVIOUS
  <2>. HIDE DEF V, step
  <2>. DEFINE F == [Dn -> V]
              start == [x \in Dn |-> <<>>]
  <2>3. start \in F /\ IsRecursion(step, Dn, F, h, n)
    BY <1>6, <2>1
  <2>. HIDE DEF F, start
  <2>4. \E f \in F : f = step[f]
    BY <1>1, <2>3, RecursionExists
  <2>5. QED
    BY <2>2, <2>4 DEF F
<1>. DEFINE walk == CHOOSE g : g = [p \in Dn |-> Walked(st, g, p)]
<1>8. walk = [p \in Dn |-> Walked(st, walk, p)]
  BY <1>7
<1>9. \A p \in Dn : Subtree(st, p) = walk[p]
  BY DEF Subtree
<1>. HIDE DEF walk
<1>10. \A p \in Dn : walk[p] = Walked(st, walk, p)
  BY <1>8
<1>11. QED
  BY <1>9, <1>10

(* A walk over the child lists from d finds exactly the MOs below d, each  *)
(* once.                                                                   *)
LEMMA SubtreeSet ==
  ASSUME NEW st \in Store, Inv(st), Small(st), NEW d \in Dn
  PROVE  /\ ToSet(Subtree(st, d)) = Present(st) \cap (Below(d) \ {d})
         /\ Subtree(st, d) \in Seq(Dn) /\ Once(Subtree(st, d))
<1>1. PICK walk : /\ \A p \in Dn : Subtree(st, p) = walk[p]
                  /\ \A p \in Dn : walk[p] = Walked(st, walk, p)
  BY SubtreeUnfolds
<1>. DEFINE L(p) == 1..Len(st.kids[p])
            Right(p) == /\ walk[p] \in Seq(Dn) /\ ToSet(walk[p]) = Present(st) \cap (Below(p) \ {p})
                        /\ Once(walk[p])
            R == {p \in Dn : Right(p)}
<1>2. ASSUME NEW p \in Dn, \A i \in L(p) : st.kids[p][i] \in R
      PROVE  p \in R
  <2>2. \A i \in L(p) : Right(st.kids[p][i]) /\ st.kids[p][i] \in Dn
    BY <1>2
  <2>. DEFINE below(i) == ({st.kids[p][i]} \cap Present(st)) \cup ToSet(walk[st.kids[p][i]])
              part(i) == ({st.kids[p][i]} \cap Present(st)) \cup (Present(st) \cap (Below(st.kids[p][i]) \ {st.kids[p][i]}))
  <2>3. Walked(st, walk, p) \in Seq(Dn) /\ ToSet(Walked(st, walk, p)) = UNION {below(i) : i \in L(p)}
    BY <2>2, WalkedFacts
  <2>4. \A i \in L(p) : below(i) = part(i)
    BY <2>2
  <2>5. UNION {part(i) : i \in L(p)} = Present(st) \cap (Below(p) \ {p})
    BY BelowChildren
  <2>6. Once(Walked(st, walk, p))
    <3>1. \A i \in L(p) : st.kids[p][i] \in Below(st.kids[p][i])
      BY <2>2, DnAssumption DEF Below
    <3>2. \A i \in L(p) : Part(st, walk, p, i) \subseteq Below(st.kids[p][i])
      BY <2>2, <3>1 DEF Part
    <3>3. \A i, j \in L(p) : i # j => Part(st, walk, p, i) \cap Part(st, walk, p, j) = {}
      BY <3>2, BelowApart
    <3>4. \A i \in L(p) : /\ walk[st.kids[p][i]] \in Seq(Dn)
                          /\ Once(walk[st.kids[p][i]])
                          /\ st.kids[p][i] \notin ToSet(walk[st.kids[p][i]])
      BY <2>2
    <3>5. QED
      BY <3>3, <3>4, WalkedOnce
  <2>. HIDE DEF below, part
  <2>7. UNION {below(i) : i \in L(p)} = UNION {part(i) : i \in L(p)}
    BY <2>4
  <2>8. QED
    BY <1>1, <2>3, <2>5, <2>6, <2>7
<1>. HIDE DEF R
<1>3. Dn \subseteq R
  BY <1>2, HeightInduction
<1>4. QED
  BY <1>1, <1>3 DEF R

-----------------------------------------------------------------------------
(* The insertion order as a list                                            *)

(* Counting what comes before each numbers the stored DNs from 1.           *)
LEMMA OrderListed ==
  ASSUME NEW st \in Store, Inv(st), Small(st)
  PROVE  LET order == InsertionOrder(st)
         IN  /\ order \in Seq(Present(st)) /\ Len(order) \in Nat
             /\ \A d \in Present(st) : \E i \in 1..Len(order) : order[i] = d
             /\ \A i, j \in 1..Len(order) : i < j <=> <<order[i], order[j]>> \in st.before
             /\ \A i, j \in 1..Len(order) : order[i] = order[j] => i = j
<1>. DEFINE P == Present(st)
            n == Cardinality(P)
            Pre(d) == {x \in P : <<x, d>> \in st.before}
            place(d) == 1 + Cardinality(Pre(d))
            order == InsertionOrder(st)
<1>1. IsFiniteSet(P) /\ n \in Nat
  BY FS_CardinalityType DEF Small
<1>2. ASSUME NEW d \in P
      PROVE  IsFiniteSet(Pre(d)) /\ Cardinality(Pre(d)) \in Nat /\ place(d) \in 1..n
  <2>1. Pre(d) \subseteq P \ {d} /\ Pre(d) \subseteq P
    BY DEF Inv, OrderOK
  <2>2. IsFiniteSet(P \ {d}) /\ Cardinality(P \ {d}) = n - 1
    <3>. HIDE DEF P
    <3>1. QED
      BY <1>1, FS_RemoveElement
  <2>3. IsFiniteSet(Pre(d)) /\ Cardinality(Pre(d)) <= n - 1
    <3>. HIDE DEF Pre, n, P
    <3>1. Pre(d) \in SUBSET (P \ {d})
      BY <2>1
    <3>2. QED
      BY <2>2, <3>1, FS_Subset
  <2>4. Cardinality(Pre(d)) \in Nat
    BY <2>3, FS_CardinalityType
  <2>5. QED
    BY <1>1, <2>3, <2>4
<1>3. ASSUME NEW a \in P, NEW b \in P, <<a, b>> \in st.before
      PROVE  place(a) < place(b)
  <2>1. Pre(a) \subseteq Pre(b) /\ a \in Pre(b) /\ a \notin Pre(a)
    BY <1>3 DEF Inv, OrderOK
  <2>2. Cardinality(Pre(a)) < Cardinality(Pre(b))
    <3>1. Pre(a) \subseteq Pre(b) \ {a}
      BY <2>1
    <3>2. IsFiniteSet(Pre(b) \ {a}) /\ Cardinality(Pre(b) \ {a}) = Cardinality(Pre(b)) - 1
      BY <1>2, <2>1, FS_RemoveElement
    <3>3. Cardinality(Pre(a)) <= Cardinality(Pre(b) \ {a})
      BY <3>1, <3>2, FS_Subset
    <3>. HIDE DEF Pre
    <3>4. Cardinality(Pre(a)) \in Nat /\ Cardinality(Pre(b)) \in Nat
      BY <1>2
    <3>5. QED
      BY <3>2, <3>3, <3>4
  <2>. HIDE DEF Pre
  <2>3. QED
    BY <1>2, <2>2
<1>4. ASSUME NEW a \in P, NEW b \in P
      PROVE  /\ place(a) < place(b) <=> <<a, b>> \in st.before
             /\ place(a) = place(b) => a = b
  <2>1. a # b => <<a, b>> \in st.before \/ <<b, a>> \in st.before
    BY DEF Inv, OrderOK
  <2>2. /\ <<a, b>> \in st.before => place(a) < place(b)
        /\ <<b, a>> \in st.before => place(b) < place(a)
    BY <1>3
  <2>3. place(a) \in Nat /\ place(b) \in Nat
    <3>. HIDE DEF Pre
    <3>1. Cardinality(Pre(a)) \in Nat /\ Cardinality(Pre(b)) \in Nat
      BY <1>2
    <3>2. QED
      BY <3>1
  <2>. HIDE DEF place
  <2>4. QED
    BY <2>1, <2>2, <2>3
<1>. HIDE DEF place, P, n
<1>5. \A i \in 1..n : \E d \in P : place(d) = i
  <2>. DEFINE f == [d \in P |-> place(d)]
              Q == {place(d) : d \in P}
  <2>1. Q \subseteq 1..n
    BY <1>2
  <2>2. f \in Bijection(P, Q)
    <3>1. f \in Surjection(P, Q)
      BY DEF Surjection
    <3>2. f \in Injection(P, Q)
      BY <1>4 DEF Injection, IsInjective
    <3>3. QED
      BY <3>1, <3>2 DEF Bijection
  <2>3. IsFiniteSet(1..n) /\ Cardinality(1..n) = n
    <3>1. n >= 1 => n - 1 + 1 = n
      BY <1>1
    <3>2. QED
      BY <1>1, FS_Interval
  <2>. HIDE DEF f, Q
  <2>4. IsFiniteSet(Q) /\ Cardinality(Q) = n
    <3>1. ExistsBijection(P, Q)
      BY <2>2 DEF ExistsBijection
    <3>2. QED
      BY <1>1, <3>1, FS_Bijection DEF n
  <2>5. Q = 1..n
    BY <2>1, <2>3, <2>4, FS_Subset
  <2>6. QED
    BY <2>5 DEF Q
<1>6. order = [i \in 1..n |-> CHOOSE d \in P : place(d) = i]
  BY DEF InsertionOrder, place, P, n
<1>7. ASSUME NEW i \in 1..n
      PROVE  order[i] \in P /\ place(order[i]) = i
  <2>1. order[i] = CHOOSE d \in P : place(d) = i
    BY <1>6
  <2>2. QED
    BY <1>5, <2>1
<1>8. order \in Seq(P) /\ Len(order) = n
  <2>1. order \in [1..n -> P]
    BY <1>6, <1>7
  <2>2. QED
    BY <1>1, <2>1
<1>. HIDE DEF order
<1>9. \A d \in P : \E i \in 1..n : order[i] = d
  <2>1. ASSUME NEW d \in P
        PROVE  place(d) \in 1..n /\ order[place(d)] = d
    BY <1>2, <1>4, <1>7
  <2>2. QED
    BY <2>1
<1>10. \A i, j \in 1..n : /\ i < j <=> <<order[i], order[j]>> \in st.before
                          /\ order[i] = order[j] => i = j
  BY <1>4, <1>7
<1>11. QED
  BY <1>1, <1>8, <1>9, <1>10 DEF order, P

-----------------------------------------------------------------------------
(* Saving and loading                                                       *)

(* A saved store comes back with the same MOs in the same order, a sound   *)
(* index, and the same members below every DN.                              *)
LEMMA RoundTripFacts ==
  ASSUME NEW st \in Store, Inv(st), Small(st)
  PROVE  LET r == RoundTrip(st)
         IN  /\ r.mo = st.mo /\ r.before = st.before /\ LinksOK(r) /\ ChainOK(r)
             /\ \A d \in Dn : ToSet(Subtree(r, d)) = ToSet(Subtree(st, d))
<1>. DEFINE order == InsertionOrder(st)
            n == Len(order)
            Turn(x, i) == AddOne(x, order[i], st.mo[order[i]])
            First(i) == {order[j] : j \in 1..i}
            D == {x \in Store : Inv(x) /\ Small(x)}
            step == [x \in D \X (1..n) |-> Turn(x[1], x[2])]
            F(f) == [i \in 0..Len(order) |->
                       IF i = 0 THEN EmptyStore ELSE AddOne(f[i - 1], order[i], st.mo[order[i]])]
            after == CHOOSE f : f = F(f)
<1>1. /\ order \in Seq(Present(st)) /\ n \in Nat
      /\ \A d \in Present(st) : \E i \in 1..n : order[i] = d
      /\ \A i, j \in 1..n : i < j <=> <<order[i], order[j]>> \in st.before
      /\ \A i, j \in 1..n : order[i] = order[j] => i = j
  BY OrderListed
<1>2. Replayed(st, order) = after[n] /\ RoundTrip(st) = Replayed(st, order)
  BY DEF Replayed, RoundTrip
<1>. HIDE DEF order
<1>3. \A i \in 1..n : order[i] \in Dn /\ st.mo[order[i]] \in MO /\ order[i] \in Present(st)
  <2>1. \A i \in 1..n : order[i] \in Present(st)
    BY <1>1
  <2>2. \A d \in Present(st) : d \in Dn /\ st.mo[d] \in MO
    BY DEF Present, Store
  <2>3. QED
    BY <2>1, <2>2
<1>4. ASSUME NEW x \in D, NEW i \in 1..n
      PROVE  Turn(x, i) \in D
  BY <1>3, AddOneInv, SmallAdd
<1>5. EmptyStore \in D
  <2>1. EmptyStore \in Store /\ Inv(EmptyStore)
    BY EmptyInv
  <2>2. Present(EmptyStore) = {} /\ \A p \in Dn : EmptyStore.kids[p] = <<>>
    BY DEF EmptyStore, Present
  <2>3. Small(EmptyStore)
    BY <2>2, FS_EmptySet DEF Small
  <2>4. QED
    BY <2>1, <2>3
<1>. HIDE DEF n, D, Turn, after
<1>6. step \in [D \X (1..n) -> D]
  <2>1. ASSUME NEW x \in D \X (1..n)
        PROVE  Turn(x[1], x[2]) \in D
    BY <1>4
  <2>2. QED
    BY <2>1
<1>. HIDE DEF step
<1>7. PICK f : IsLoop(f, D, EmptyStore, n, step)
  BY <1>1, <1>5, <1>6, LoopExists
<1>8. \A i \in 1..n : f[i] = Turn(f[i - 1], i)
  <2>1. ASSUME NEW i \in 1..n
        PROVE  f[i] = Turn(f[i - 1], i)
    <3>1. <<f[i - 1], i>> \in D \X (1..n) /\ f[i] = step[<<f[i - 1], i>>]
      BY <1>1, <1>7 DEF IsLoop
    <3>2. QED
      BY <3>1 DEF step
  <2>2. QED
    BY <2>1
<1>9. f = F(f)
  <2>1. \A i \in 0..n : f[i] = IF i = 0 THEN EmptyStore ELSE Turn(f[i - 1], i)
    BY <1>1, <1>7, <1>8 DEF IsLoop
  <2>2. f = [i \in 0..n |-> IF i = 0 THEN EmptyStore ELSE Turn(f[i - 1], i)]
    BY <1>7, <2>1 DEF IsLoop
  <2>3. QED
    BY <2>2 DEF Turn, n
<1>10. after = F(after)
  <2>. HIDE DEF F
  <2>1. \E g : g = F(g)
    BY <1>9
  <2>2. QED
    BY <2>1 DEF after
<1>11. after[0] = EmptyStore /\ \A i \in 1..n : after[i] = Turn(after[i - 1], i)
  <2>1. after = [i \in 0..n |-> IF i = 0 THEN EmptyStore ELSE Turn(after[i - 1], i)]
    BY <1>10 DEF n, Turn
  <2>. HIDE DEF F
  <2>2. QED
    BY <1>1, <2>1
<1>. DEFINE Same(i) == /\ after[i] \in D
                       /\ after[i].mo = [d \in Dn |-> IF d \in First(i) THEN st.mo[d] ELSE NoMO]
                       /\ after[i].before = {<<order[j], order[k]>> : j \in 1..i, k \in 1..i} \cap st.before
            S == {i \in 0..n : Same(i)}
<1>12. 0 \in S
  <2>1. EmptyStore.mo = [d \in Dn |-> NoMO] /\ EmptyStore.before = {}
    BY DEF EmptyStore
  <2>2. First(0) = {}
    OBVIOUS
  <2>3. QED
    BY <1>1, <1>5, <1>11, <2>1, <2>2
<1>13. ASSUME NEW i \in 0..(n - 1), i \in S
       PROVE  i + 1 \in S
  <2>. DEFINE d == order[i + 1]
              old == after[i]
              new == after[i + 1]
  <2>1. i + 1 \in 1..n /\ i + 1 \in 0..n /\ (i + 1) - 1 = i /\ 1..(i + 1) = 1..i \cup {i + 1} /\ 1..i \subseteq 1..n
    BY <1>1
  <2>2. new = AddOne(old, d, st.mo[d])
    BY <1>11, <2>1 DEF Turn
  <2>3. d \in Dn /\ st.mo[d] \in MO /\ d \in Present(st)
    BY <1>3, <2>1
  <2>4. Same(i)
    BY <1>13
  <2>5. new \in D
    BY <1>4, <1>11, <2>1, <2>4
  <2>6. First(i + 1) = First(i) \cup {d} /\ d \notin First(i)
    <3>1. \A j \in 1..i : j \in 1..n /\ j # i + 1
      BY <1>1, <2>1
    <3>2. QED
      BY <1>1, <2>1, <3>1
  <2>7. Present(old) = First(i)
    <3>1. \A x \in First(i) : x \in Dn /\ st.mo[x] # NoMO
      BY <1>3, <2>1 DEF Present
    <3>. HIDE DEF First, old
    <3>2. old.mo = [x \in Dn |-> IF x \in First(i) THEN st.mo[x] ELSE NoMO]
      BY <2>4 DEF old
    <3>3. QED
      BY <3>1, <3>2 DEF Present
  <2>8. new.mo = [x \in Dn |-> IF x \in First(i + 1) THEN st.mo[x] ELSE NoMO]
    <3>1. new.mo = [old.mo EXCEPT ![d] = st.mo[d]]
      BY <2>2 DEF AddOne
    <3>2. old.mo = [x \in Dn |-> IF x \in First(i) THEN st.mo[x] ELSE NoMO]
      BY <2>4
    <3>. HIDE DEF First, d, old, new
    <3>3. QED
      BY <2>3, <2>6, <3>1, <3>2
  <2>9. new.before = old.before \cup (First(i) \X {d})
    BY <2>2, <2>6, <2>7 DEF AddOne, Inserted
  <2>10. new.before = {<<order[j], order[k]>> : j \in 1..(i + 1), k \in 1..(i + 1)} \cap st.before
    <3>1. ASSUME NEW x
          PROVE  x \in new.before <=> (\E j, k \in 1..(i + 1) : x = <<order[j], order[k]>>) /\ x \in st.before
      <4>1. x \in old.before <=> (\E j, k \in 1..i : x = <<order[j], order[k]>>) /\ x \in st.before
        BY <2>4
      <4>2. x \in First(i) \X {d} <=> \E j \in 1..i : x = <<order[j], order[i + 1]>>
        OBVIOUS
      <4>3. \A j \in 1..i : <<order[j], order[i + 1]>> \in st.before /\ <<order[i + 1], order[j]>> \notin st.before
        <5>1. \A j \in 1..i : j \in 1..n /\ j < i + 1 /\ ~ (i + 1 < j)
          BY <1>1, <2>1
        <5>2. QED
          BY <1>1, <2>1, <5>1
      <4>4. <<order[i + 1], order[i + 1]>> \notin st.before
        BY <1>1, <2>1
      <4>. HIDE DEF First, d, old, new
      <4>5. x \in new.before <=> \/ (\E j, k \in 1..i : x = <<order[j], order[k]>>) /\ x \in st.before
                                \/ \E j \in 1..i : x = <<order[j], order[i + 1]>>
        BY <2>9, <4>1, <4>2
      <4>6. QED
        BY <2>1, <4>3, <4>4, <4>5
    <3>. HIDE DEF new
    <3>2. QED
      BY <3>1
  <2>. HIDE DEF First
  <2>11. QED
    BY <2>1, <2>5, <2>8, <2>10
<1>. HIDE DEF S
<1>14. Same(n)
  <2>1. 0..n \subseteq S
    BY <1>1, <1>12, <1>13, BoundedInduction
  <2>2. QED
    BY <1>1, <2>1 DEF S
<1>. DEFINE r == after[n]
<1>15. First(n) = Present(st)
  BY <1>1, <1>3
<1>16. r.mo = st.mo
  <2>1. st.mo \in [Dn -> MO \cup {NoMO}] /\ \A d \in Dn : d \notin Present(st) => st.mo[d] = NoMO
    BY DEF Store, Present
  <2>. HIDE DEF First
  <2>2. QED
    BY <1>14, <1>15, <2>1
<1>17. r.before = st.before
  <2>1. \A x \in st.before : \E a, b \in Present(st) : x = <<a, b>>
    BY DEF Inv, OrderOK
  <2>2. \A x \in st.before : \E j, k \in 1..n : x = <<order[j], order[k]>>
    BY <1>1, <2>1
  <2>3. QED
    BY <1>14, <2>2
<1>18. r \in Store /\ Inv(r) /\ Small(r)
  BY <1>14 DEF D
<1>19. Present(r) = Present(st)
  BY <1>16 DEF Present
<1>. HIDE DEF r
<1>20. \A d \in Dn : ToSet(Subtree(r, d)) = ToSet(Subtree(st, d))
  BY <1>18, <1>19, SubtreeSet
<1>21. RoundTrip(st) = r
  BY <1>2 DEF r
<1>22. QED
  BY <1>16, <1>17, <1>18, <1>20, <1>21 DEF Inv

(* At any moment only finitely many MOs are stored.                         *)
LEMMA AlwaysSmall == Spec => []Small(store)
<1>1. Init => Small(store)
  <2>1. Present(EmptyStore) = {} /\ \A p \in Dn : EmptyStore.kids[p] = <<>>
    BY DEF EmptyStore, Present
  <2>2. QED
    BY <2>1, FS_EmptySet DEF Init, Small
<1>2. TypeOK /\ IndexInv /\ Small(store) /\ [Next]_store => Small(store)'
  <2>. SUFFICES ASSUME TypeOK, IndexInv, Small(store), [Next]_store PROVE Small(store')
    BY DEF Small, Present
  <2>1. store \in Store /\ Inv(store)
    BY DEF TypeOK, IndexInv, Inv
  <2>2. CASE \E d \in Dn : delete(d)
    BY <2>1, <2>2, SmallRemove DEF delete
  <2>3. CASE \E d \in Dn, m \in MO : add(d, m) \/ upsert(d, m)
    BY <2>1, <2>3, SmallAdd, SmallUpsert DEF add, upsert
  <2>4. ASSUME NEW d \in Dn, NEW m \in MO, NEW cm \in MO, NEW c \in Below(d) \ {d}, addTree(d, m, c, cm)
        PROVE  Small(store')
    <3>. DEFINE mid == AddOne(store, d, m)
    <3>1. mid \in Store /\ Inv(mid) /\ Small(mid)
      BY <2>1, AddOneInv, SmallAdd
    <3>2. store' = AddOne(mid, c, cm) /\ c \in Dn
      BY <2>4 DEF addTree, Below
    <3>. HIDE DEF mid
    <3>3. QED
      BY <3>1, <3>2, SmallAdd
  <2>5. ASSUME NEW d \in Dn, NEW m \in MO, NEW cm \in MO, NEW c \in Below(d) \ {d}, NEW cdeleted \in BOOLEAN,
               upsertTree(d, m, c, cm, cdeleted)
        PROVE  Small(store')
    <3>. DEFINE mid == UpsertOne(store, d, m)
    <3>1. mid \in Store /\ Inv(mid) /\ Small(mid)
      BY <2>1, UpsertOneInv, SmallUpsert
    <3>2. (store' = RemoveSubtree(mid, c) \/ store' = UpsertOne(mid, c, cm)) /\ c \in Dn
      BY <2>5 DEF upsertTree, Below
    <3>. HIDE DEF mid
    <3>3. QED
      BY <3>1, <3>2, SmallUpsert, SmallRemove
  <2>6. CASE UNCHANGED store
    BY <2>6
  <2>7. QED
    BY <2>2, <2>3, <2>4, <2>5, <2>6 DEF Next
<1>3. QED
  BY <1>1, <1>2, InvariantsHold, PTL DEF Spec

(* What persist.py saves and loads back is, seen through the read side,    *)
(* the store it saved.                                                     *)
THEOREM RoundTripCorrect == Spec => []RoundTripExact
<1>1. TypeOK /\ IndexInv /\ Small(store) => RoundTripExact
  BY RoundTripFacts DEF TypeOK, IndexInv, Inv, RoundTripExact
<1>2. QED
  BY <1>1, InvariantsHold, AlwaysSmall, PTL
=============================================================================
