------------------------------- MODULE MCQuery -------------------------------
(* Query on a tree of one tenant and two BDs with subnets, where the       *)
(* tenant and a BD can be stubs; and Filter beside it.                     *)
EXTENDS Query, Filter

uni == <<"uni">>
tn  == <<"uni", "tn">>
bd  == <<"uni", "tn", "bd">>
sn  == <<"uni", "tn", "bd", "sn">>
bd2 == <<"uni", "tn", "bd2">>

MCDn == {uni, tn, bd, sn, bd2}
MCRn == {"uni", "tn", "bd", "bd2", "sn"}
MCClassOf == (uni :> "polUni") @@ (tn :> "fvTenant") @@ (bd :> "fvBD") @@ (sn :> "fvSubnet")
               @@ (bd2 :> "fvBD")
MCWritable == (uni :> {}) @@ (tn :> {Unset}) @@ (bd :> {"9", "10"}) @@ (sn :> {"9"}) @@ (bd2 :> {"10"})

-----------------------------------------------------------------------------
(* Filters are parsed as Filter says.                                      *)

MCToken == {"and", "or", "eq", "ne", "wcard", "gt", "lt", "ge", "le", "bw", "(", ")", ",", "val", "9", "10", ""}
MCRank == [t \in MCToken |-> CASE t = "" -> 0 [] t = "(" -> 1 [] t = ")" -> 2 [] t = "," -> 3
             [] t = "10" -> 4 [] t = "9" -> 5 [] OTHER -> 6]
MCNum == [t \in MCToken |-> CASE t = "9" -> 9 [] t = "10" -> 10 [] OTHER -> NoNum]
MCWithin == {<<t, t>> : t \in MCToken} \cup {<<"", t>> : t \in MCToken}

MCComparisons ==
  {[op |-> "eq", attr |-> "val", low |-> "9", high |-> "9"],
   [op |-> "bw", attr |-> "val", low |-> "9", high |-> "10"]}

MCObject == [val : {"9", "10", Unset}]

MCFilterHolds(text, m) == Pred(text, m)
MCFilterFails(text) == Malformed(text)

-----------------------------------------------------------------------------
(* Requests *)

ge10 == <<"ge", "(", "val", ",", "10", ")">>
broken == <<"ge", "(", "val", ",">>

MCNoFilter == <<>>
MCText == {<<>>, ge10, broken}

P(kind, dn, cls, target, rsp, classes, flt, size) ==
  [kind |-> kind, dn |-> dn, cls |-> cls, target |-> target, rsp |-> rsp,
   rspClasses |-> IF rsp = "none" THEN {} ELSE classes,
   targetClasses |-> classes, filter |-> flt, size |-> size]

MCPaged ==
  {P("class", uni, "fvBD", "none", "none", {}, <<>>, 1),
   P("class", uni, "fvBD", "none", "none", {}, ge10, 1),
   P("class", uni, "fvBD", "subtree", "none", {}, ge10, 1),
   P("mo", uni, "polUni", "subtree", "none", {}, <<>>, 2)}

MCQueries ==
  MCPaged
  \cup {P("mo", d, "fvBD", target, "none", cs, f, 9) : d \in {uni, tn}, target \in {"subtree", "children"},
           cs \in {{}, {"fvBD"}}, f \in {<<>>, ge10}}
  \cup {P("mo", d, "fvBD", "none", rsp, cs, <<>>, 9) : d \in {uni, bd}, rsp \in {"children", "full"},
           cs \in {{}, {"fvSubnet"}, {"fvBD"}}}
  \cup {P("class", uni, "fvTenant", "subtree", "none", {}, ge10, 9),
        P("class", uni, "fvBD", "none", "full", {}, <<>>, 9),
        P("node", tn, "fvBD", "none", "none", {}, <<>>, 1),
        P("node", bd, "fvBD", "none", "none", {}, <<>>, 1),
        P("class", uni, "fvBD", "none", "none", {}, <<>>, 0),
        P("mo", tn, "fvBD", "none", "none", {}, broken, 1)}

-----------------------------------------------------------------------------

MCInit == QueryInit /\ FilterInit

(* They do not meet: a filter is composed while nobody writes or reads.    *)
MCNext ==
  \/ filter.text = <<>> /\ filter.lists = <<>> /\ QueryNext /\ UNCHANGED filter
  \/ listing = NoListing /\ Present(store) = {Root} /\ FilterNext /\ UNCHANGED queryVars

MCSpec == MCInit /\ [][MCNext]_<<queryVars, filter>>

=============================================================================
