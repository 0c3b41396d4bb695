---------------------------- MODULE MITAbstract ----------------------------
(***************************************************************************)
(* What MITStore promises its callers: a map from DNs to MOs in which      *)
(* removing a DN removes everything whose DN it is a prefix of.  No child  *)
(* index, no order.                                                        *)
(***************************************************************************)
EXTENDS Integers, Sequences

CONSTANTS Dn, Class, Val, Unset, NoMO

VARIABLE tree

MO == [class : Class, val : Val \cup {Unset}]

Under(d) == {x \in Dn : Len(d) <= Len(x) /\ SubSeq(x, 1, Len(d)) = d}

Put(t, d, m) == [t EXCEPT ![d] = m]

Merge(t, d, m) ==
  IF t[d] = NoMO THEN Put(t, d, m)
  ELSE Put(t, d, [class |-> t[d].class,
                  val |-> IF m.val = Unset THEN t[d].val ELSE m.val])

Cut(t, d) == [x \in Dn |-> IF x \in Under(d) THEN NoMO ELSE t[x]]

Init == tree = [d \in Dn |-> NoMO]

Next ==
  \/ \E d \in Dn : tree' = Cut(tree, d)
  \/ \E d \in Dn, m \in MO : tree' = Put(tree, d, m) \/ tree' = Merge(tree, d, m)
  \/ \E d \in Dn, m, cm \in MO : \E c \in Under(d) \ {d} :
       \/ tree' = Put(Put(tree, d, m), c, cm)
       \/ tree' = Merge(Merge(tree, d, m), c, cm)
       \/ tree' = Cut(Merge(tree, d, m), c)

Spec == Init /\ [][Next]_tree

=============================================================================
