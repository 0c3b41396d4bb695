---------------------------- MODULE MCNdoTenants -----------------------------
(* Two tenants and two policy templates: one that is patched in every way, *)
(* and one that is beside it, in the lists and in the searches.            *)
EXTENDS NdoTenants

CONSTANTS x, y

MCTemplate == {x, y}

MCBatch ==
  x :> {<<[op |-> "add", name |-> "p"]>>,
        <<[op |-> "remove", name |-> "p"]>>,
        <<[op |-> "remove", name |-> "p"], [op |-> "add", name |-> "q"]>>,
        <<[op |-> "rename", name |-> "p", to |-> "q"]>>,
        <<[op |-> "title", name |-> "q"]>>,
        <<[op |-> "tenant", name |-> "t2"]>>,
        <<[op |-> "title", name |-> "q"], [op |-> "add", name |-> "q"], [op |-> "bad"]>>} @@
  y :> {<<[op |-> "title", name |-> "q"]>>}

MCPosted == {[title |-> "p", tenant |-> "t1"]}

(* Beside a file the rest is smaller: one tenant at a time, one policy to  *)
(* a template, no rename; and the file is from when the tenant was there.  *)
SmallWithFile ==
  saved["f"] = NoFile \/
    /\ tenants \in {<<>>, <<"t1">>} /\ schemas["s"] # "t2"
    /\ reseeded = {y} /\ \A o \in DOMAIN docs : Len(docs[o].policies) <= 1
    /\ saved["f"].tenants = <<"t1">> /\ saved["f"].schemas["s"] = "t1"

=============================================================================
