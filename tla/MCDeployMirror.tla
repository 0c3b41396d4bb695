--------------------------- MODULE MCDeployMirror ---------------------------
(* Tenant a with two templates, tenant b with one that has the name of the *)
(* first.  The templates of a label BDs with the same policies, the first  *)
(* is on both sites.  A client writes on a BD, posts a relay itself and    *)
(* something below it, with or without the relay.                          *)
EXTENDS DeployMirror

Labels(ls, kids) == [kids |-> kids, labels |-> ls]

One(ls, uses, binds) ==
  [tenant |-> "a", plain |-> <<"brc", "c">> :> {<<"subj", "c">>},
   bds |-> "b1" :> Labels(ls, {<<"rsctx", "">>}), anps |-> {"p"}, epgs |-> <<"p", "web">> :> uses,
   sites |-> "s1" :> (<<"p", "web">> :> binds) @@ "s2" :> <<>>]

Two(ls, anp) ==
  [tenant |-> "a", plain |-> <<>>, bds |-> "b2" :> Labels(ls, {}),
   anps |-> {anp}, epgs |-> <<anp, "db">> :> {}, sites |-> "s1" :> <<>>]

Other(a) ==
  [tenant |-> a, plain |-> <<"ctx", "v">> :> {}, bds |-> <<>>,
   anps |-> {}, epgs |-> <<>>, sites |-> "s1" :> <<>>]

Prov == <<"rsprov", "c">>
Bind == <<"rspathAtt", "x">>

MCSchemas == <<"A", "B">>
MCDesigns(anp) ==
  [t \in {"A", "B"} \X {"x", "y"} |->
     CASE t = <<"A", "x">> -> {One({"l"}, {Prov}, {Bind}), One({}, {}, {})}
       [] t = <<"A", "y">> -> {Two({"l"}, anp)}
       [] t = <<"B", "x">> -> {Other("b")}
       [] OTHER -> {}]

Apart == MCDesigns("q")

MCPolicies == [a \in {"a", "b"} |-> IF a = "a" THEN {<<>>, "l" :> {"db"}} ELSE {<<>>}]
MCPosted == {<<"s1", BdDn("a", "b1")>>, <<"s1", RelayDn("a", "l")>>,
             <<"s1", Append(RelayDn("a", "l"), <<"rsprov", EpgDn("a", <<"p", "web">>)>>)>>}
MCBoot == {Tn("b")}

=============================================================================
