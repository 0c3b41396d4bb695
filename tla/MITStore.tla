------------------------------ MODULE MITStore ------------------------------
(***************************************************************************)
(* aci_sim/mit/store.py: the in-memory Managed Information Tree of one     *)
(* APIC site.  The class keeps two dictionaries, `_mos` (dn -> MO) and     *)
(* `_children` (parent dn -> list of child dns), and every query that      *)
(* walks a subtree walks the second one.  What has to hold is that the two *)
(* never disagree.                                                         *)
(*                                                                         *)
(* The first half of the module gives the operations as operators on a     *)
(* store value, so that the modules of the REST layer can use them; the    *)
(* second half is the machine whose steps are the public methods.          *)
(***************************************************************************)
EXTENDS Integers, FiniteSets, SequencesExt

CONSTANTS
  Dn,      \* the distinguished names in play, each the sequence of its RNs
  Rn,      \* the relative names they are built from
  Class,   \* class names
  Val,     \* values of the one attribute that is modelled
  Unset,   \* "the attribute is not in the dictionary"
  NoMO     \* what `_mos.get(dn)` returns for an absent dn

(* A parent of a DN is a DN: the set is closed under dropping the last RN. *)
ASSUME DnAssumption ==
  /\ Dn \subseteq Seq(Rn) \ {<<>>}
  /\ \A d \in Dn : \A n \in 1..Len(d) : SubSeq(d, 1, n) \in Dn

MO == [class : Class, val : Val \cup {Unset}]

ASSUME NoMOAssumption == NoMO \notin MO /\ Unset \notin Val

VARIABLE store

-----------------------------------------------------------------------------
(* mit/dn.py.  parent_dn returns "" (here <<>>) for a DN of one component. *)

parent_dn(d) == SubSeq(d, 1, Len(d) - 1)

IsTop(d) == Len(d) <= 1

(* d and everything whose DN starts with d. *)
Below(d) == {x \in Dn : Len(d) <= Len(x) /\ SubSeq(x, 1, Len(d)) = d}

-----------------------------------------------------------------------------
(* A store value.  `before` is the insertion order of `_mos`, as the strict *)
(* total order it puts on the keys.  A key of `_children` with an empty    *)
(* list and an absent key answer every call alike, so kids is total.       *)

Store == [mo : [Dn -> MO \cup {NoMO}],
          before : SUBSET (Dn \X Dn),
          kids : [Dn -> Seq(Dn)]]

EmptyStore == [mo |-> [d \in Dn |-> NoMO],
               before |-> {},
               kids |-> [d \in Dn |-> <<>>]]

Present(st) == {d \in Dn : st.mo[d] # NoMO}

(* Fault for Inserted: an existing key moves to the end. *)
InsertedAtEnd(st, d) ==
  (st.before \cap ((Dn \ {d}) \X (Dn \ {d}))) \cup ((Present(st) \ {d}) \X {d})

Inserted(st, d) ==
  IF d \in Present(st) THEN st.before
                       ELSE st.before \cup (Present(st) \X {d})

(* The RN path from p down to d starts with this child of p. *)
Towards(p, d) == SubSeq(d, 1, Len(p) + 1)

(* Fault for Register: only the immediate parent gets the link. *)
RegisterParentOnly(kids, d) ==
  IF IsTop(d) \/ Contains(kids[parent_dn(d)], d) THEN kids
  ELSE [kids EXCEPT ![parent_dn(d)] = Append(@, d)]

(* _register: links d and each of its ancestors into the ancestor's list.  *)
Register(kids, d) ==
  [p \in Dn |->
     IF d \in Below(p) \ {p} /\ ~ Contains(kids[p], Towards(p, d))
       THEN Append(kids[p], Towards(p, d))
       ELSE kids[p]]

Closed(S, kids) == \A p \in S : ToSet(kids[p]) \subseteq S

(* The DNs the recursion of _remove_subtree visits from d: the least set    *)
(* that has d and follows the child lists.                                 *)
Linked(kids) == UNION {ToSet(kids[p]) : p \in Dn}

Reach(kids, d) ==
  {x \in {d} \cup Linked(kids) :
     \A S \in SUBSET (({d} \cup Linked(kids)) \ {x}) : d \in S => ~ Closed(S, kids)}

(* _remove_subtree: both entries of every visited DN go, and the root of   *)
(* the removal leaves its parent's list.                                   *)
RemoveSubtree(st, d) ==
  LET gone == Reach(st.kids, d)
  IN  [mo     |-> [x \in Dn |-> IF x \in gone THEN NoMO ELSE st.mo[x]],
       before |-> st.before \cap ((Dn \ gone) \X (Dn \ gone)),
       kids   |-> [p \in Dn |->
                     IF p \in gone THEN <<>>
                     ELSE IF ~ IsTop(d) /\ p = parent_dn(d)
                       THEN RemoveFirst(st.kids[p], d)
                       ELSE st.kids[p]]]

(* add, for one MO: insert without merging. *)
AddOne(st, d, m) ==
  [mo     |-> [st.mo EXCEPT ![d] = m],
   before |-> Inserted(st, d),
   kids   |-> Register(st.kids, d)]

(* Fault for UpsertOne: replaces where it should merge. *)
UpsertReplacing(st, d, m) == AddOne(st, d, m)

(* upsert, for one MO that is not a deletion: merge into an existing entry *)
(* (its class stays, and `_register` is not called), insert otherwise.     *)
UpsertOne(st, d, m) ==
  IF d \in Present(st)
    THEN [st EXCEPT !.mo[d].val = IF m.val = Unset THEN @ ELSE m.val]
    ELSE AddOne(st, d, m)

-----------------------------------------------------------------------------
(* Read side. *)

(* by_class / all: insertion order.  An MO comes after those before it.     *)
InsertionOrder(st) ==
  LET place(d) == 1 + Cardinality({x \in Present(st) : <<x, d>> \in st.before})
  IN  [i \in 1..Cardinality(Present(st)) |-> CHOOSE d \in Present(st) : place(d) = i]

(* The entries of a list that are in S, where they stand.                  *)
Picked(s, S) ==
  LET upto[n \in 0..Len(s)] ==
        IF n = 0 THEN <<>>
        ELSE IF s[n] \in S THEN Append(upto[n - 1], s[n]) ELSE upto[n - 1]
  IN  upto[Len(s)]

(* children *)
Children(st, d) == Picked(st.kids[d], Present(st))

(* What the entries of one child list contribute, each itself, if it has an *)
(* MO of its own, before what is below it.                                 *)
Walked(st, walk, p) ==
  LET upto[n \in 0..Len(st.kids[p])] ==
        IF n = 0 THEN <<>>
        ELSE LET c == st.kids[p][n]
             IN  upto[n - 1] \o (IF c \in Present(st) THEN <<c>> ELSE <<>>) \o walk[c]
  IN  upto[Len(st.kids[p])]

(* subtree: depth first, through entries that have no MO of their own. *)
Subtree(st, d) ==
  LET walk[p \in Dn] == Walked(st, walk, p)
  IN  walk[d]

(* Fault for RoundTrip: MOs that hang below a stub are skipped. *)
RoundTripRooted(st) ==
  FoldLeft(LAMBDA acc, d : IF ~ IsTop(d) /\ parent_dn(d) \notin Present(st) THEN acc
                           ELSE AddOne(acc, d, st.mo[d]),
           EmptyStore, InsertionOrder(st))

(* persist.py: serialize_store lists the MOs in insertion order, and       *)
(* deserialize_store replays them through add into a new store.            *)
Replayed(st, order) ==
  LET after[n \in 0..Len(order)] ==
        IF n = 0 THEN EmptyStore ELSE AddOne(after[n - 1], order[n], st.mo[order[n]])
  IN  after[Len(order)]

RoundTrip(st) == Replayed(st, InsertionOrder(st))

-----------------------------------------------------------------------------
(* The machine: one action per public method that changes the store.  An   *)
(* MO may carry one child MO; both are handled within the one call.        *)

Init == store = EmptyStore

add(d, m) == store' = AddOne(store, d, m)

addTree(d, m, c, cm) == store' = AddOne(AddOne(store, d, m), c, cm)

upsert(d, m) == store' = UpsertOne(store, d, m)

upsertTree(d, m, c, cm, cdeleted) ==
  LET st == UpsertOne(store, d, m)
  IN  store' = IF cdeleted THEN RemoveSubtree(st, c) ELSE UpsertOne(st, c, cm)

(* Also upsert of an MO whose status attribute is "deleted". *)
delete(d) == store' = RemoveSubtree(store, d)

Next ==
  \/ \E d \in Dn : delete(d)
  \/ \E d \in Dn, m \in MO : add(d, m) \/ upsert(d, m)
  \/ \E d \in Dn, m, cm \in MO : \E c \in Below(d) \ {d} :
       \/ addTree(d, m, c, cm)
       \/ \E cdeleted \in BOOLEAN : upsertTree(d, m, c, cm, cdeleted)

Spec == Init /\ [][Next]_store

-----------------------------------------------------------------------------
(* Properties *)

TypeOK == store \in Store

(* A child list holds each child of its own DN once, and no other DN. *)
LinksOK(st) ==
  \A p \in Dn :
    /\ \A i \in 1..Len(st.kids[p]) : /\ ~ IsTop(st.kids[p][i])
                                     /\ parent_dn(st.kids[p][i]) = p
    /\ \A i, j \in 1..Len(st.kids[p]) : st.kids[p][i] = st.kids[p][j] => i = j

(* Whatever has an MO, or has children, hangs in its parent's list. *)
ChainOK(st) ==
  \A d \in Dn :
    (d \in Present(st) \/ st.kids[d] # <<>>) /\ ~ IsTop(d)
      => \E i \in 1..Len(st.kids[parent_dn(d)]) : st.kids[parent_dn(d)][i] = d

(* The insertion order is a strict total order on exactly the stored DNs. *)
OrderOK(st) ==
  /\ st.before \subseteq Present(st) \X Present(st)
  /\ \A a, b \in Present(st) :
       /\ a # b => (<<a, b>> \in st.before \/ <<b, a>> \in st.before)
       /\ ~ (<<a, b>> \in st.before /\ <<b, a>> \in st.before)
  /\ \A a, b, c \in Present(st) :
       <<a, b>> \in st.before /\ <<b, c>> \in st.before => <<a, c>> \in st.before

(* The two dictionaries of the store agree after every sequence of add,    *)
(* upsert and delete calls, stub ancestors included: no DN is linked under *)
(* a parent that is not its own, none twice, and nothing is left that a    *)
(* walk from the root cannot reach.                                        *)
IndexInv == LinksOK(store) /\ ChainOK(store) /\ OrderOK(store)

Abs == INSTANCE MITAbstract WITH tree <- store.mo

(* Every behaviour of the store, seen through `get`, is a behaviour of a   *)
(* plain map in which a removal takes the whole prefix with it: the walk   *)
(* over child lists in _remove_subtree misses no descendant.               *)
AbsSpec == Abs!Spec

(* Two MOs that survive a step keep their places: neither the iteration    *)
(* order that by_class and all page through nor a child list is permuted   *)
(* by an upsert, a re-add or the deletion of something else.               *)
NoReordering ==
  [][/\ \A a, b \in Present(store) \cap Present(store') :
          <<a, b>> \in store.before <=> <<a, b>> \in store'.before
     /\ \A p \in Dn : \A i, j \in 1..Len(store.kids[p]) :
          \A k, l \in 1..Len(store'.kids[p]) :
            /\ store.kids[p][i] = store'.kids[p][k]
            /\ store.kids[p][j] = store'.kids[p][l]
            => (i < j <=> k < l)]_store

(* A saved and re-loaded store has the same MOs in the same insertion      *)
(* order, a sound index, and subtrees with the same members; its stubs are *)
(* rebuilt from the DNs alone (persist.py deserialize_store).              *)
RoundTripExact ==
  LET r == RoundTrip(store)
  IN  /\ r.mo = store.mo
      /\ r.before = store.before
      /\ LinksOK(r) /\ ChainOK(r)
      /\ \A d \in Dn : ToSet(Subtree(r, d)) = ToSet(Subtree(store, d))

=============================================================================
