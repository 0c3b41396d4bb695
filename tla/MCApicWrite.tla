---------------------------- MODULE MCApicWrite ----------------------------
(* Three small worlds for ApicWrite: a tenant with a BD, whose class has a *)
(* default, and a subnet that can exist before its BD does; a switch       *)
(* registration; and an L3Out with its vrf, a peer and the peer's ASN.     *)
EXTENDS ApicWrite

Pre(d) == {SubSeq(d, 1, n) : n \in 1..Len(d)}

N(p, cls, dn, rn, val) ==
  [cls |-> cls, dn |-> dn, rn |-> rn, val |-> val, parent |-> p, deleted |-> FALSE,
   flaw |-> "none"]
Del(n) == [n EXCEPT !.deleted = TRUE]
Bad(n, f) == [n EXCEPT !.flaw = f]

-----------------------------------------------------------------------------
(* A tenant *)

TnDn == Pre(<<"uni", "tn", "BD", "subnet">>)
TnRn == {"uni", "tn", "BD", "subnet"}
TnClass == {"fvTenant", "fvBD", "fvSubnet"}

TN == N(0, "fvTenant", <<"uni", "tn">>, "tn", Unset)
BD(v) == N(1, "fvBD", <<>>, "BD", v)
BDAlone(v) == N(0, "fvBD", <<"uni", "tn", "BD">>, "BD", v)
Sub(p, v) == N(p, "fvSubnet", <<>>, "subnet", v)
SubAlone(v) == N(0, "fvSubnet", <<"uni", "tn", "BD", "subnet">>, "subnet", v)

TnBody ==
  {<<TN>>, <<Del(TN)>>, <<TN, Del(BD(Unset)), Sub(2, "a")>>, <<SubAlone("b")>>,
   <<Del(BDAlone(Unset))>>, <<Del(BDAlone(Unset)), Bad(Sub(1, "a"), "shape")>>,
   <<TN, Bad(BD("b"), "value")>>, <<TN, Bad(Del(BD(Unset)), "value")>>,
   <<TN, BD(Unset), Bad(Sub(2, "a"), "shape")>>}
  \cup {<<TN, BD(v), Sub(2, "a")>> : v \in {Unset, "a", "b"}}
  \cup {<<BDAlone(v)>> : v \in {Unset, "a", "b"}}

(* A body with an attribute called class_name in its second node. *)
NameBody == TnBody \cup {<<TN, Bad(BD("b"), "name")>>}

(* Bodies whose nodes meet: a BD that is deleted and written again, or     *)
(* written and deleted again, and a subnet that names its DN below one.    *)
SubAt(p) == N(p, "fvSubnet", <<"uni", "tn", "BD", "subnet">>, "subnet", "a")

MeetingBody ==
  {<<TN, Del(BD(Unset)), BD("b")>>, <<TN, BD("b"), Sub(2, "a"), Del(BD(Unset))>>,
   <<TN, Del(BD(Unset)), SubAt(1)>>, <<TN, SubAt(1), Del(BD(Unset))>>,
   <<TN, Del(BD(Unset)), SubAt(1), Del(BD(Unset))>>}

-----------------------------------------------------------------------------
(* A switch registration *)

IdDn == Pre(<<"uni", "nodep-1">>) \cup Pre(<<"topology", "node-1", "sys">>)
IdRn == {"uni", "nodep-1", "topology", "node-1", "sys"}
IdClass == {"polUni", "fabricNodeIdentP", "fabricNode", "topSystem"}
IdNodeDn == [r \in {"nodep-1"} |-> <<"topology", "node-1">>]

Uni == N(0, "polUni", <<"uni">>, "uni", Unset)
Id(p, v) == N(p, "fabricNodeIdentP", <<"uni", "nodep-1">>, "nodep-1", v)

IdBody == {<<Uni, Id(1, "a")>>, <<Uni, Id(1, Unset)>>, <<Id(0, "a")>>, <<Uni, Del(Id(1, Unset))>>}

-----------------------------------------------------------------------------
(* An L3Out: the vrf is "a", the ASN "b" *)

OutDn == Pre(<<"uni", "tn", "out", "peer", "as">>) \cup {<<"uni", "tn", "out", "rsectx">>}
           \cup UNION {Pre(<<"topology", v, "peer">>) : v \in {"a", "b"}}
OutRn == {"uni", "tn", "out", "peer", "as", "rsectx", "topology", "a", "b"}
OutClass == {"l3extOut", "l3extRsEctx", "bgpPeerP", "bgpAsP", "bgpInst", "bgpDom", "bgpPeer"}

Out == N(0, "l3extOut", <<"uni", "tn", "out">>, "out", Unset)
Peer(v) == N(1, "bgpPeerP", <<>>, "peer", v)
PeerAlone(v) == N(0, "bgpPeerP", <<"uni", "tn", "out", "peer">>, "peer", v)
As(p) == N(p, "bgpAsP", <<>>, "as", "b")
Ectx(v) == N(1, "l3extRsEctx", <<>>, "rsectx", v)

OutBody ==
  {<<Out, Ectx("a")>>, <<Out, Ectx("")>>, <<Out, Peer("a"), As(2), Ectx("a")>>,
   <<Out, Peer(""), As(2), Ectx("a")>>, <<PeerAlone("a")>>, <<Del(PeerAlone("a"))>>}

OutTarget == {<<"uni", "tn", "out", "peer", "as">>, <<"uni", "tn", "out">>}

-----------------------------------------------------------------------------
(* All of them *)

MCDn == TnDn \cup IdDn \cup OutDn
MCRn == TnRn \cup IdRn \cup OutRn
MCClass == TnClass \cup IdClass \cup OutClass
MCVal == {"", "a", "b"}
MCDefault == [c \in MCClass |-> IF c = "fvBD" THEN "a" ELSE Unset]
MCBody == NameBody \cup MeetingBody \cup IdBody \cup OutBody
MCTarget == {<<"uni", "tn">>, <<"uni", "tn", "BD">>, <<"topology", "node-1">>} \cup OutTarget

(* The worlds do not touch: one is explored at a time. *)
OneAtATime ==
  \/ T!Present(store) \subseteq TnDn \ {<<"uni">>}
  \/ T!Present(store) \subseteq IdDn
  \/ T!Present(store) \subseteq OutDn \ TnDn

(* No request depends on the one before it. *)
StoreOnly == store

=============================================================================
