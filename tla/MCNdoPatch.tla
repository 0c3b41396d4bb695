----------------------------- MODULE MCNdoPatch ------------------------------
(***************************************************************************)
(* Four clients, each with its own schema and its own repertoire: the      *)
(* requests of the cisco.mso modules on bridge domains, on application     *)
(* profiles and EPGs, on redirects, and on the graphs of sites.            *)
(***************************************************************************)
EXTENDS NdoPatch

MCIndex == ("0" :> 0) @@ ("1" :> 1)
MCComposite ==
  (<<"1", "T">> :> "1-T") @@ (<<"2", "T">> :> "2-T") @@ (<<"3", "T">> :> "3-T") @@
  (<<"1", "U">> :> "1-U") @@ (<<"2", "U">> :> "2-U")

Template(t)  == Dict([name |-> Leaf(t), displayName |-> Leaf(t)])
Entry(s, t)  == Dict([siteId |-> Leaf(s), templateName |-> Leaf(t)])
Schema(ts, es) == Dict([templates |-> List(ts), sites |-> List(es)])

Add(p, v)     == [op |-> "add", path |-> p, value |-> v]
Put(p, v)     == [op |-> "replace", path |-> p, value |-> v]
Del(p)        == [op |-> "remove", path |-> p, value |-> Leaf("")]

(* A reference as a dict, with and without what makes it complete.         *)
DictRef(field, n) ==
  Dict((field :> Leaf(n)) @@ [schemaId |-> Leaf("schema"), templateName |-> Leaf("T")])
ShortRef(field, n) == Dict(field :> Leaf(n))

Named(n) == Dict([name |-> Leaf(n), displayName |-> Leaf(n)])

-----------------------------------------------------------------------------
Bd(n)     == Dict([name |-> Leaf(n), displayName |-> Leaf(n), vrfRef |-> DictRef("vrfName", "V")])
Subnet(v) == Dict([ip |-> Leaf(v)])

Bds ==
  [schema   |-> Schema(<<Template("T")>>, <<Entry("1", "T")>>),
   devices  |-> {},
   requests |->
     {<<Add(<<"templates", "T", "bds", "-">>, Bd("B"))>>,
      <<Add(<<"templates", "T", "bds", "-">>, Bd("C"))>>,
      <<Del(<<"templates", "T", "bds", "B">>)>>,
      <<Add(<<"sites", "-">>, Entry("2", "T"))>>,
      <<Del(<<"sites", "2-T">>)>>,
      <<Add(<<"templates", "-">>, Template("U")), Add(<<"sites", "-">>, Entry("1", "U")),
        Add(<<"templates", "U", "bds", "-">>, Bd("B"))>>,
      <<Add(<<"sites", "1-T", "bds", "-">>, Dict([bdRef |-> DictRef("bdName", "B")]))>>,
      <<Add(<<"sites", "1-T", "bds", "-">>, Dict([bdRef |-> ShortRef("bdName", "C")]))>>,
      <<Put(<<"sites", "2-T", "bds", "B">>, Dict([bdRef |-> DictRef("bdName", "B"), hostBasedRouting |-> Leaf("true")]))>>,
      <<Add(<<"sites", "1-T", "bds", "B", "subnets", "-">>, Subnet("10.0.0.1/24"))>>,
      <<Put(<<"sites", "1-T", "bds", "B", "subnets", "0", "ip">>, Leaf("bad"))>>,
      <<Del(<<"sites", "1-T", "bds", "B">>)>>,
      <<Add(<<"templates", "T", "bds", "-">>, Bd("C")),
        Add(<<"sites", "2-T", "bds", "C", "subnets", "-">>, Subnet("10.0.0.1/24"))>>,
      <<Add(<<"templates", "-">>, Template("U")),
        Add(<<"templates", "T", "bds", "B", "subnets", "-">>, Subnet("bad"))>>}]

-----------------------------------------------------------------------------
Epg(n)  == Named(n)
Anps ==
  LET full == Dict([schemaId |-> Leaf("schema"), templateName |-> Leaf("T"), anpName |-> Leaf("A"), epgName |-> Leaf("E")])
  IN
  [schema   |-> Schema(<<Template("T")>>, <<Entry("1", "T")>>),
   devices  |-> {},
   requests |->
     {<<Add(<<"templates", "T", "anps", "-">>, Named("A"))>>,
      <<Add(<<"templates", "T", "anps", "-">>,
            Dict([name |-> Leaf("A"), epgs |-> List(<<Epg("E")>>)]))>>,
      <<Add(<<"templates", "T", "anps", "A", "epgs", "-">>, Epg("E"))>>,
      <<Add(<<"templates", "T", "anps", "A", "epgs", "-">>, Epg("F"))>>,
      <<Del(<<"templates", "T", "anps", "A", "epgs", "E">>)>>,
      <<Del(<<"templates", "T", "anps", "A">>)>>,
      <<Add(<<"sites", "-">>, Entry("2", "T"))>>,
      <<Del(<<"sites", "2-T">>)>>,
      <<Add(<<"sites", "1-T", "anps", "-">>, Dict([anpRef |-> DictRef("anpName", "A")]))>>,
      <<Add(<<"sites", "1-T", "anps", "A", "epgs", "-">>, Dict([epgRef |-> full]))>>,
      <<Add(<<"sites", "1-T", "anps", "A", "epgs", "E", "staticPorts", "-">>, Dict([portEncapVlan |-> Leaf("100")]))>>,
      <<Add(<<"sites", "1-T", "anps", "A", "epgs", "E", "staticPorts", "-">>, Dict([portEncapVlan |-> Leaf("bad")]))>>,
      <<Del(<<"sites", "1-T", "anps", "A", "epgs", "E">>)>>,
      <<Del(<<"sites", "1-T", "anps", "A">>)>>}]

-----------------------------------------------------------------------------
Redirect ==
  Dict([serviceNodesRelationship |->
    List(<<Dict([consumerConnector |-> Dict([redirectPolicy |-> Dict([dn |-> Leaf("pol")])])])>>)])
GraphOnly == Dict([serviceNodesRelationship |-> List(<<Dict([consumerConnector |-> Dict(<<>>)])>>)])
BindTo(e, v) == Add(<<"sites", e, "contracts", "C", "serviceGraphRelationship">>, v)

Redirecting ==
  [schema   |-> Schema(<<Template("T"), Template("U")>>, <<Entry("1", "T"), Entry("2", "T"), Entry("1", "U"), Entry("2", "U")>>),
   devices  |-> {},
   requests |->
     {<<Add(<<"templates", "T", "contracts", "-">>, Named("C"))>>,
      <<Add(<<"templates", "U", "contracts", "-">>, Named("C"))>>,
      <<Del(<<"templates", "T", "contracts", "C">>)>>,
      <<BindTo("1-T", Redirect), BindTo("2-T", Redirect)>>,
      <<BindTo("1-T", Redirect)>>,
      <<BindTo("2-T", GraphOnly)>>,
      <<BindTo("1-U", Redirect), BindTo("2-U", Redirect)>>,
      <<BindTo("2-U", Redirect), Add(<<"sites", "1-U", "contracts", "C", "serviceGraphRelationship">>, GraphOnly)>>,
      <<Del(<<"sites", "2-T", "contracts", "C", "serviceGraphRelationship">>)>>,
      <<Del(<<"sites", "1-U", "contracts", "C", "serviceGraphRelationship">>)>>,
      <<Del(<<"sites", "2-T">>)>>,
      <<Add(<<"sites", "-">>, Entry("2", "T"))>>,
      <<Add(<<"sites", "2-T", "contracts", "-">>, Dict([contractRef |-> DictRef("contractName", "C")]))>>}]

-----------------------------------------------------------------------------
Node(d)  == Dict([device |-> Dict([dn |-> Leaf(d)])])
Graph(d) == Dict([serviceGraphRef |-> DictRef("serviceGraphName", "G"), serviceNodes |-> List(<<Node(d)>>)])
BindGraph(e, d) == Add(<<"sites", e, "serviceGraphs", "-">>, Graph(d))

Graphs ==
  [schema   |-> Schema(<<Template("T")>>, <<Entry("1", "T"), Entry("3", "T")>>),
   devices  |-> {"d", "e"},
   requests |->
     {<<Add(<<"templates", "T", "serviceGraphs", "-">>, Named("G"))>>,
      <<BindGraph("1-T", "d")>>,
      <<BindGraph("2-T", "d"), BindGraph("1-T", "d")>>,
      <<BindGraph("3-T", "elsewhere"), BindGraph("3-T", "e")>>,
      <<Put(<<"sites", "1-T", "serviceGraphs", "0", "serviceNodes", "0">>, Node("e"))>>,
      <<Del(<<"sites", "1-T", "serviceGraphs", "0">>)>>,
      <<Add(<<"sites", "-">>, Entry("2", "T"))>>,
      <<Add(<<"sites", "-">>, Entry("2", "T")), BindGraph("2-T", "e")>>,
      <<Del(<<"sites", "2-T">>)>>}]

MCPlaybook == [bds |-> Bds, anps |-> Anps, redirects |-> Redirecting, graphs |-> Graphs]
=============================================================================
