--------------------------- MODULE MCSiteControl ---------------------------
(* One APIC, two spines, a leaf, and a border leaf that one of the two     *)
(* topologies has: its id is also one add-leaf may hand out.  The larger   *)
(* topology comes in a form that cannot be built, too.                     *)
EXTENDS SiteControl

Small == [spines |-> <<2, 3>>, leaves |-> <<4>>, borders |-> <<>>, rr |-> "spine"]
Large == [spines |-> <<2, 3>>, leaves |-> <<4>>, borders |-> <<5>>, rr |-> "spine"]
Refused == [Large EXCEPT !.rr = "leaf"]

MCTopo == {Small, Large, Refused}
MCUnbuildable == {Refused}

(* The fabric of a store and the version of what built it do not touch:    *)
(* switches come and go, or the code is upgraded, unknown or legacy.       *)
OneAtATime ==
  \/ changes = 0
  \/ code = 1 /\ version = 1 /\ \A nm \in Name : saved[nm] = Absent \/ saved[nm].ver = 1

=============================================================================
