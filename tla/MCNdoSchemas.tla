---------------------------- MODULE MCNdoSchemas ----------------------------
(* A seeded schema and one that is created, two PATCHes in flight, and     *)
(* batches that add, remove, fail at once, fail half-way, and are gated.   *)
EXTENDS NdoSchemas

Adding(n) == [op |-> "add", name |-> n]
Removing(n) == [op |-> "remove", name |-> n]
Bad == [op |-> "bad"]
Fast(ops) == [graph |-> FALSE, ops |-> ops]
Gated(ops) == [graph |-> TRUE, ops |-> ops]

MCBatch(n) == {Fast(<<Adding(n)>>), Fast(<<Removing(n)>>), Fast(<<Adding(n), Bad>>),
               Gated(<<Adding(n)>>), Gated(<<Adding(n), Bad>>)}

MCTmpl == {"a"}
MCSeedDoc == <<"a">>
OneName == MCBatch("a")

Symmetry == Permutations(Ref) \cup Permutations(Patcher)

=============================================================================
