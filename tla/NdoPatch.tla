------------------------------ MODULE NdoPatch -------------------------------
(***************************************************************************)
(* ndo/patch.py and ndo/service_graph_validation.py: what a PATCH makes of *)
(* the document of one schema.  A path goes through objects by their names *)
(* (or by the "*Ref" that is the whole identity of a site-local shadow),   *)
(* an object added to a template is mirrored into every site entry of that *)
(* template, and a request that touches service graphs is applied to a     *)
(* copy that becomes the document only when two rules hold: the device a   *)
(* graph is bound to exists on the site's APIC, and a redirect is          *)
(* configured on all fabrics of a template or on none.                     *)
(*                                                                         *)
(* A document is a tree: [dict |-> function from keys to nodes],           *)
(* [list |-> sequence of nodes], [leaf |-> scalar], [ref |-> path of names]*)
(* for the canonical string of a reference, and [hash |-> what is hashed]. *)
(***************************************************************************)
EXTENDS Naturals, FiniteSets, SequencesExt

CONSTANTS
  Index,      \* function: the tokens that are digits -> their number
  Composite,  \* function: <<siteId, templateName>> -> the segment "siteId-templateName"
  Simulated,  \* the sites whose APIC runs in this process
  Device,     \* the DNs of shape uni/tn-<tenant>/lDevVip-<device>
  Invalid,    \* the values that the rules of NDO_RULES refuse
  Playbook    \* function: the clients -> [schema, requests, devices], the body a client
              \* creates its schema with, the lists of ops it may send, its devices

VARIABLES
  playbook,   \* the client
  doc,        \* state.schema_details[schema_id]
  devices,    \* the <<site, DN>> of the vnsLDevVip MOs of the sites' stores
  request     \* the latest PATCH: its ops, its answer, how many ops the document took

vars == <<playbook, doc, devices, request>>

-----------------------------------------------------------------------------
(* Nodes. *)

Dict(f) == [dict |-> f]
List(s) == [list |-> s]
Leaf(v) == [leaf |-> v]
Ref(p)  == [ref |-> p]

IsDict(n) == "dict" \in DOMAIN n
IsList(n) == "list" \in DOMAIN n

Has(n, k)    == IsDict(n) /\ k \in DOMAIN n.dict
Is(n, k, v)  == Has(n, k) /\ n.dict[k] = Leaf(v)
Str(n, k)    == IF Has(n, k) THEN n.dict[k].leaf ELSE ""
Items(n, k)  == IF Has(n, k) /\ IsList(n.dict[k]) THEN n.dict[k].list ELSE <<>>
With(n, k, v) == Dict((k :> v) @@ n.dict)

(* The collections of keys that a reader subscripts without looking.       *)
Defaults(n, keys) == Dict(n.dict @@ [k \in keys |-> List(<<>>)])

Map(s, Op(_)) == [i \in DOMAIN s |-> Op(s[i])]

-----------------------------------------------------------------------------
(* Normalisation. *)

TemplateCollections ==
  {"vrfs", "bds", "anps", "contracts", "filters", "externalEpgs", "intersiteL3outs", "serviceGraphs"}

ChildDefaults(coll) ==
  CASE coll = "bds"          -> {"subnets", "dhcpLabels"}
    [] coll = "anps"         -> {"epgs"}
    [] coll = "epgs"         -> {"subnets", "contractRelationships", "staticPorts", "staticLeafs", "domains"}
    [] coll = "externalEpgs" -> {"subnets", "contractRelationships", "selectors"}
    [] coll = "contracts"    -> {"filterRelationships"}
    [] coll = "filters"      -> {"entries"}
    [] coll = "vrfs"         -> {"rpConfigs"}
    [] OTHER                 -> {}

(* obj[k] = v unless there is one.                                         *)
Backfill(n, k, v) == IF Has(n, k) THEN n ELSE With(n, k, v)

NormalizeEpg(epg, template, anp) ==
  LET path == <<template, "anps", anp, "epgs", Str(epg, "name")>>
  IN  Backfill(Backfill(Defaults(epg, ChildDefaults("epgs")), "epgRef", Ref(path)), "uuid", [hash |-> path])

NormalizeObject(obj, coll, template) ==
  LET filled == Defaults(obj, ChildDefaults(coll))
      path   == <<template, coll, Str(obj, "name")>>
  IN  CASE coll = "anps"         -> Backfill(With(filled, "epgs", List(Map(Items(filled, "epgs"),
                                      LAMBDA e : NormalizeEpg(e, template, Str(obj, "name"))))), "anpRef", Ref(path))
        [] coll = "externalEpgs" -> Backfill(filled, "uuid", [hash |-> path])
        [] OTHER                 -> filled

NormalizeTemplate(t) ==
  LET filled == Defaults(t, TemplateCollections)
      whole  == [c \in TemplateCollections |->
                   List(Map(Items(filled, c), LAMBDA o : NormalizeObject(o, c, Str(t, "name"))))]
  IN  Backfill(Dict(whole @@ filled.dict), "templateID", [hash |-> <<Str(t, "name")>>])

SiteCollections == {"bds", "anps", "serviceGraphs", "contracts"}
SiteEpgDefaults == {"subnets", "staticPorts", "staticLeafs", "domainAssociations"}

NormalizeSiteAnp(anp) ==
  LET filled == Defaults(anp, {"epgs"})
  IN  With(filled, "epgs", List(Map(Items(filled, "epgs"), LAMBDA e : Defaults(e, SiteEpgDefaults))))

NormalizeSite(s) ==
  LET filled == Defaults(s, SiteCollections)
  IN  With(With(filled, "bds", List(Map(Items(filled, "bds"), LAMBDA b : Defaults(b, {"subnets"})))),
           "anps", List(Map(Items(filled, "anps"), NormalizeSiteAnp)))

Normalized(d) ==
  With(With(d, "templates", List(Map(Items(d, "templates"), NormalizeTemplate))),
       "sites", List(Map(Items(d, "sites"), NormalizeSite)))

-----------------------------------------------------------------------------
(* Names and references. *)

IdentityRef == [bds |-> "bdRef", anps |-> "anpRef", epgs |-> "epgRef", contracts |-> "contractRef"]
IdentityRefs == {IdentityRef[c] : c \in DOMAIN IdentityRef}

RefFields == <<"bdRef", "vrfRef", "l3outRef", "filterRef", "contractRef", "anpRef", "serviceGraphRef">>

(* The field of a dict reference that holds the name, and the collection.  *)
NameField ==
  [bdRef |-> "bdName", vrfRef |-> "vrfName", l3outRef |-> "l3outName", filterRef |-> "filterName",
   contractRef |-> "contractName", anpRef |-> "anpName", serviceGraphRef |-> "serviceGraphName"]
Category ==
  [bdRef |-> "bds", vrfRef |-> "vrfs", l3outRef |-> "l3outs", filterRef |-> "filters",
   contractRef |-> "contracts", anpRef |-> "anps", serviceGraphRef |-> "serviceGraphs"]

(* The last segment of a reference, or "" when a dict names nothing.       *)
BareName(ref) ==
  IF "ref" \in DOMAIN ref THEN Last(ref.ref)
  ELSE LET i == SelectInSeq(RefFields, LAMBDA f : Has(ref, NameField[f]))
       IN  IF i = 0 THEN "" ELSE Str(ref, NameField[RefFields[i]])

IsCompleteRef(n, k) == Has(n, k) /\ Has(n.dict[k], "schemaId") /\ Has(n.dict[k], "templateName")

NameIn(ref, field) == IF Has(ref, field) THEN Str(ref, field) ELSE Str(ref, "name")

(* The canonical form of the reference n[k].                               *)
Canonical(n, k) ==
  LET ref == n.dict[k]
      t   == Str(ref, "templateName")
  IN  IF ~IsCompleteRef(n, k) THEN ref
      ELSE CASE k = "epgRef" -> Ref(<<t, "anps", Str(ref, "anpName"), "epgs", NameIn(ref, "epgName")>>)
             [] k = "serviceNodeRef" ->
                  Ref(<<t, "serviceGraphs", Str(ref, "serviceGraphName"), "serviceNodes", NameIn(ref, "serviceNodeName")>>)
             [] k \in DOMAIN Category -> Ref(<<t, Category[k], NameIn(ref, NameField[k])>>)
             [] OTHER -> ref

RECURSIVE StringifyRefs(_)
StringifyRefs(n) ==
  CASE IsDict(n) -> Dict([k \in DOMAIN n.dict |-> StringifyRefs(Canonical(n, k))])
    [] IsList(n) -> List(Map(n.list, StringifyRefs))
    [] OTHER     -> n

Nameless(item) == ~Has(item, "name") /\ ~Has(item, "displayName")

(* How one item of a list answers to a segment of a path.                  *)
AnswersTo(item, seg) ==
  \/ Is(item, "name", seg)
  \/ Is(item, "displayName", seg)
  \/ /\ Has(item, "siteId") /\ Has(item, "templateName")
     /\ Composite[<<Str(item, "siteId"), Str(item, "templateName")>>] = seg
  \/ /\ IsDict(item) /\ Nameless(item)
     /\ \E k \in IdentityRefs : Has(item, k) /\ BareName(item.dict[k]) = seg

(* The place of the first item that does, 0 for none.                      *)
FindByName(items, seg) == SelectInSeq(items, LAMBDA item : AnswersTo(item, seg))

Position(items, tok) == IF tok \in DOMAIN Index THEN Index[tok] + 1 ELSE FindByName(items, tok)

(* Fault for FindShadow: any reference in common makes two objects one.    *)
FindByAnyRef(items, value, coll) ==
  SelectInSeq(items, LAMBDA item :
    \E f \in Range(RefFields) : Has(value, f) /\ Has(item, f) /\ BareName(item.dict[f]) = BareName(value.dict[f]))

(* Fault for FindShadow: an append looks for nothing.                      *)
AppendAlways(items, value, coll) == 0

(* A shadow appended once more takes the place of the one that is there.   *)
FindShadow(items, value, coll) ==
  IF ~IsDict(value) \/ ~Nameless(value) \/ coll \notin DOMAIN IdentityRef THEN 0
  ELSE LET k == IdentityRef[coll]
       IN  IF ~Has(value, k) \/ BareName(value.dict[k]) = "" THEN 0
           ELSE SelectInSeq(items, LAMBDA item :
                  Nameless(item) /\ Has(item, k) /\ BareName(item.dict[k]) = BareName(value.dict[k]))

-----------------------------------------------------------------------------
(* One op. *)

Validated == {<<"subnets", "ip">>, <<"staticPorts", "portEncapVlan">>}
Acceptable(coll, field, v) == <<coll, field>> \in Validated => v \notin {Leaf(x) : x \in Invalid}

(* The collection of an op is named by the token before the last, or       *)
(* before the item whose field the op writes.                              *)
Valid(node, o) ==
  LET p == o.path
      n == Len(p)
  IN  CASE IsList(node) /\ n >= 2 /\ IsDict(o.value) ->
             \A f \in DOMAIN o.value.dict : Acceptable(p[n - 1], f, o.value.dict[f])
        [] IsDict(node) /\ n >= 3 -> Acceptable(p[n - 2], p[n], o.value)
        [] OTHER -> TRUE

Done(n)   == [node |-> n, ok |-> TRUE]
Failed(n) == [node |-> n, ok |-> FALSE]

EditList(node, o) ==
  LET items == node.list
      last  == Last(o.path)
      pos   == Position(items, last)
      coll  == IF Len(o.path) >= 2 THEN o.path[Len(o.path) - 1] ELSE ""
      twin  == IF last = "-" THEN FindShadow(items, o.value, coll) ELSE pos
  IN  CASE o.op = "add" /\ last \in DOMAIN Index ->
             Done(List(InsertAt(items, IF pos > Len(items) THEN Len(items) + 1 ELSE pos, o.value)))
        [] o.op = "add" -> Done(List(IF twin = 0 THEN Append(items, o.value) ELSE ReplaceAt(items, twin, o.value)))
        [] o.op = "replace" -> IF pos \in DOMAIN items THEN Done(List(ReplaceAt(items, pos, o.value))) ELSE Failed(node)
        [] o.op = "remove"  -> Done(IF pos \in DOMAIN items THEN List(RemoveAt(items, pos)) ELSE node)
        [] OTHER -> Done(node)

EditDict(node, o) ==
  CASE o.op \in {"add", "replace"} -> Done(With(node, Last(o.path), o.value))
    [] o.op = "remove" -> Done(Dict([k \in DOMAIN node.dict \ {Last(o.path)} |-> node.dict[k]]))
    [] OTHER -> Done(node)

Edit(node, o) ==
  CASE o.op \in {"add", "replace"} /\ ~Valid(node, o) -> Failed(node)
    [] IsList(node) -> EditList(node, o)
    [] IsDict(node) -> EditDict(node, o)
    [] OTHER -> IF o.op \in {"add", "replace"} THEN Failed(node) ELSE Done(node)

(* A key that is missing on the way is created, even when the op then      *)
(* fails: a list if the next token appends or is a number, else a dict.    *)
Vivified(next) == IF next = "-" \/ next \in DOMAIN Index THEN List(<<>>) ELSE Dict(<<>>)

RECURSIVE Descend(_, _, _)
Descend(node, o, i) ==
  LET tok == o.path[i]
  IN  CASE i = Len(o.path) -> Edit(node, o)
        [] i < Len(o.path) /\ IsList(node) ->
             LET pos == Position(node.list, tok)
             IN  IF pos \notin DOMAIN node.list THEN Failed(node)
                 ELSE LET sub == Descend(node.list[pos], o, i + 1)
                      IN  [sub EXCEPT !.node = List(ReplaceAt(node.list, pos, sub.node))]
        [] i < Len(o.path) /\ IsDict(node) ->
             LET child == IF Has(node, tok) THEN node.dict[tok] ELSE Vivified(o.path[i + 1])
                 sub   == Descend(child, o, i + 1)
             IN  [sub EXCEPT !.node = With(node, tok, sub.node)]
        [] OTHER -> Failed(node)

-----------------------------------------------------------------------------
(* Mirrors. *)

(* A shadow is made unless the collection has an item of that name.        *)
EnsureShadow(owner, coll, name, shadow) ==
  With(owner, coll, List(LET items == Items(owner, coll)
                         IN  IF FindByName(items, name) # 0 THEN items ELSE Append(items, shadow)))

NewSiteBd(p)       == Defaults(Dict([bdRef |-> Ref(p), hostBasedRouting |-> Leaf("false")]), {"subnets"})
NewSiteAnp(p)      == Dict([anpRef |-> Ref(p), epgs |-> List(<<>>)])
NewSiteEpg(p)      == Defaults(Dict([epgRef |-> Ref(p)]), SiteEpgDefaults)
NewSiteContract(p) == Dict([contractRef |-> Ref(p)])

EnsureEpg(site, template, anp, epg) ==
  LET withAnp == EnsureShadow(site, "anps", anp, NewSiteAnp(<<template, "anps", anp>>))
      anps    == Items(withAnp, "anps")
      i       == FindByName(anps, anp)
  IN  With(withAnp, "anps", List([anps EXCEPT ![i] =
        EnsureShadow(@, "epgs", epg, NewSiteEpg(<<template, "anps", anp, "epgs", epg>>))]))

(* What the addition of object n at path p does to a site entry.           *)
MirrorInto(site, p, n) ==
  CASE Len(p) = 4 /\ p[3] = "bds"       -> EnsureShadow(site, "bds", n, NewSiteBd(<<p[2], "bds", n>>))
    [] Len(p) = 4 /\ p[3] = "anps"      -> EnsureShadow(site, "anps", n, NewSiteAnp(<<p[2], "anps", n>>))
    [] Len(p) = 4 /\ p[3] = "contracts" -> EnsureShadow(site, "contracts", n, NewSiteContract(<<p[2], "contracts", n>>))
    [] Len(p) = 6 /\ p[3] = "anps" /\ p[5] = "epgs" -> EnsureEpg(site, p[2], p[4], n)
    [] OTHER -> site

Mirror(d, o) ==
  IF o.path[1] # "templates" \/ Last(o.path) # "-" \/ Str(o.value, "name") = "" THEN d
  ELSE With(d, "sites", List(Map(Items(d, "sites"), LAMBDA s :
         IF Is(s, "templateName", o.path[2]) THEN MirrorInto(s, o.path, Str(o.value, "name")) ELSE s)))

(* The effect of a list of ops: the document, whether all could be         *)
(* applied, and how many were.  The first that cannot be applied ends it.  *)
ApplyOp(run, o) ==
  IF ~run.ok THEN run
  ELSE IF o.path = <<>> THEN [run EXCEPT !.done = @ + 1]
  ELSE LET sent == [o EXCEPT !.value = IF o.op \in {"add", "replace"} THEN StringifyRefs(@) ELSE @]
           sub  == Descend(run.doc, sent, 1)
       IN  [doc  |-> IF sub.ok /\ o.op = "add" THEN Mirror(sub.node, sent) ELSE sub.node,
            ok   |-> sub.ok,
            done |-> IF sub.ok THEN run.done + 1 ELSE run.done]

ApplyJsonPatch(d, ops) == FoldLeft(ApplyOp, [doc |-> d, ok |-> TRUE, done |-> 0], ops)

-----------------------------------------------------------------------------
(* The two rules for service graphs. *)

Writes(o) == o.op \in {"add", "replace"}

ServiceGraphRelevant(ops) ==
  \E i \in DOMAIN ops : LET p == ops[i].path
                        IN  "serviceGraphs" \in Range(p) \/ (p # <<>> /\ Last(p) = "serviceGraphRelationship")

(* The site entry that a composite segment means.                          *)
Entries(d) == Items(d, "sites")
SegOf(s)   == Composite[<<Str(s, "siteId"), Str(s, "templateName")>>]
EntryAt(d, seg) == SelectInSeq(Entries(d), LAMBDA s : SegOf(s) = seg)

(* The devices a value names.                                              *)
DeviceOf(n) == IF Has(n, "device") THEN {Str(n.dict["device"], "dn")} ELSE {}
DeviceDns(value) == DeviceOf(value) \cup UNION {DeviceOf(n) : n \in Range(Items(value, "serviceNodes"))}

(* Fault for MissingDevices: a device of any site will do.                 *)
MissingEverywhere(d, o) ==
  IF ~Writes(o) \/ Len(o.path) < 2 \/ "serviceGraphs" \notin Range(o.path) THEN {}
  ELSE {dn \in DeviceDns(o.value) \cap Device : \A s \in Simulated : <<s, dn>> \notin devices}

(* The devices that an op binds a graph to and that are not there.         *)
MissingDevices(d, o) ==
  LET p   == o.path
      pos == EntryAt(d, p[2])
  IN  IF ~Writes(o) \/ Len(p) < 2 \/ p[1] # "sites" \/ "serviceGraphs" \notin Range(p) \/ pos = 0 THEN {}
      ELSE LET site == Str(Entries(d)[pos], "siteId")
           IN  {dn \in DeviceDns(o.value) \cap Device : site \in Simulated /\ <<site, dn>> \notin devices}

HasRedirectPolicy(value) ==
  \E node \in Range(Items(value, "serviceNodesRelationship")) :
    \E k \in {"consumerConnector", "providerConnector"} : Has(node, k) /\ Has(node.dict[k], "redirectPolicy")

(* The shadows of a contract in a site entry, canonical references only.   *)
Basename(ref) == IF "ref" \in DOMAIN ref THEN Last(ref.ref) ELSE ""
ShadowsOf(s, contract) ==
  SelectSeq(Items(s, "contracts"), LAMBDA c : Has(c, "contractRef") /\ Basename(c.dict["contractRef"]) = contract)

Redirects(c) == Has(c, "serviceGraphRelationship") /\ HasRedirectPolicy(c.dict["serviceGraphRelationship"])

(* The <<template, contract>> of which the request configures a redirect.  *)
Touched(d, ops) ==
  {<<Str(Entries(d)[EntryAt(d, ops[i].path[2])], "templateName"), ops[i].path[4]>> :
     i \in {j \in DOMAIN ops : /\ Writes(ops[j]) /\ Len(ops[j].path) = 5
                               /\ ops[j].path[1] = "sites" /\ ops[j].path[3] = "contracts"
                               /\ ops[j].path[5] = "serviceGraphRelationship"
                               /\ HasRedirectPolicy(ops[j].value)
                               /\ EntryAt(d, ops[j].path[2]) # 0}}

(* Fault for Group: contracts of the same name in any template.            *)
GroupByName(d, template, contract) == {i \in DOMAIN Entries(d) : ShadowsOf(Entries(d)[i], contract) # <<>>}

(* The site entries that have to agree on it.                              *)
Group(d, template, contract) ==
  {i \in DOMAIN Entries(d) : /\ Is(Entries(d)[i], "templateName", template)
                             /\ ShadowsOf(Entries(d)[i], contract) # <<>>}

Uniform(d, ops) ==
  \A tc \in Touched(d, ops) :
    LET group      == Group(d, tc[1], tc[2])
        configured == {i \in group : Redirects(ShadowsOf(Entries(d)[i], tc[2])[1])}
    IN  configured \in {{}, group}

-----------------------------------------------------------------------------
(* The handler. *)

Reply(ops, answer, run) == request' = [ops |-> ops, answer |-> answer, done |-> run.done]

(* patch_schema for ops that do not touch service graphs: in place.  What  *)
(* the ops did before one of them failed stays, without normalisation.     *)
patchInPlace(ops) ==
  LET run == ApplyJsonPatch(doc, ops)
  IN  /\ ~ServiceGraphRelevant(ops)
      /\ doc' = IF run.ok THEN Normalized(run.doc) ELSE run.doc
      /\ Reply(ops, IF run.ok THEN "ok" ELSE "patch error", run)
      /\ UNCHANGED <<playbook, devices>>

(* patch_schema for ops that do: on a copy.                                *)
patchOnCopy(ops) ==
  LET run    == ApplyJsonPatch(doc, ops)
      answer == CASE \E i \in DOMAIN ops : MissingDevices(doc, ops[i]) # {} -> "no device"
                  [] ~run.ok -> "patch error"
                  [] ~Uniform(run.doc, ops) -> "not uniform"
                  [] OTHER -> "ok"
  IN  /\ ServiceGraphRelevant(ops)
      /\ doc' = IF answer = "ok" THEN Normalized(run.doc) ELSE doc
      /\ Reply(ops, answer, [run EXCEPT !.done = IF answer = "ok" THEN @ ELSE 0])
      /\ UNCHANGED <<playbook, devices>>

(* A client looks before it appends: what has a name must not be there,    *)
(* what has none must not be there as it is.  It does not look for shadows.*)
RECURSIVE NodeAt(_, _)
NodeAt(node, p) ==
  CASE p = <<>> -> node
    [] p # <<>> /\ IsDict(node) -> IF Has(node, p[1]) THEN NodeAt(node.dict[p[1]], Tail(p)) ELSE List(<<>>)
    [] p # <<>> /\ IsList(node) -> IF Position(node.list, p[1]) \in DOMAIN node.list
                                   THEN NodeAt(node.list[Position(node.list, p[1])], Tail(p)) ELSE List(<<>>)
    [] OTHER -> List(<<>>)

(* What an item is called, "" if nothing.                                  *)
KeyOf(item) ==
  CASE Has(item, "name") -> Str(item, "name")
    [] ~Has(item, "name") /\ Has(item, "siteId") -> SegOf(item)
    [] OTHER -> LET ks == {k \in IdentityRefs : Has(item, k)}
                IN  IF ks = {} THEN "" ELSE BareName(item.dict[CHOOSE k \in ks : TRUE])

Looked(o) ==
  (o.op = "add" /\ Last(o.path) = "-") =>
     LET items == Range(NodeAt(doc, Front(o.path)).list)
     IN  \/ o.path[1] = "sites" /\ Len(o.path) > 2 /\ KeyOf(o.value) # ""
         \/ KeyOf(o.value) # "" /\ \A x \in items : KeyOf(x) # KeyOf(o.value)
         \/ KeyOf(o.value) = "" /\ StringifyRefs(o.value) \notin items

(* POST and DELETE of a vnsLDevVip on the APIC of a site.                  *)
buildDevice(s, dn) ==
  /\ devices' = devices \cup {<<s, dn>>}
  /\ devices' # devices
  /\ UNCHANGED <<playbook, doc, request>>

deleteDevice(s, dn) ==
  /\ <<s, dn>> \in devices
  /\ devices' = devices \ {<<s, dn>>}
  /\ UNCHANGED <<playbook, doc, request>>

(* create_schema: the body, normalised.                                    *)
Init ==
  /\ playbook \in DOMAIN Playbook
  /\ doc = Normalized(Playbook[playbook].schema)
  /\ devices = {}
  /\ request = [ops |-> <<>>, answer |-> "ok", done |-> 0]

Next ==
  \/ \E ops \in Playbook[playbook].requests :
       /\ \A i \in DOMAIN ops : Looked(ops[i])
       /\ patchInPlace(ops) \/ patchOnCopy(ops)
  \/ \E s \in Simulated, dn \in Playbook[playbook].devices : buildDevice(s, dn) \/ deleteDevice(s, dn)

Spec == Init /\ [][Next]_vars
-----------------------------------------------------------------------------
(* Properties. *)

(* The paths of names below a node: the objects it is made of.             *)
RECURSIVE NamesBelow(_)
NamesBelow(n) ==
  IF ~IsDict(n) THEN {}
  ELSE UNION {UNION {{<<k, KeyOf(item)>> \o q : q \in {<<>>} \cup NamesBelow(item)} :
                       item \in {x \in Range(Items(n, k)) : KeyOf(x) # ""}} : k \in DOMAIN n.dict}

Below(p, names) == {q \in names : IsPrefix(p, q)}

(* The shadows that stand for a template object, given the names: one in   *)
(* every entry of the template, and for an EPG its application profile.    *)
ShadowNames(names, p) ==
  LET entries == {q[2] : q \in {r \in names : Len(r) = 2 /\ r[1] = "sites"}}
      own     == {e \in entries : \E s \in {c[1] : c \in DOMAIN Composite} :
                                    <<s, p[2]>> \in DOMAIN Composite /\ Composite[<<s, p[2]>>] = e}
  IN  IF p[1] # "templates" \/ Len(p) < 4 \/ p[3] \notin {"bds", "anps", "contracts"} THEN {}
      ELSE {<<"sites", e>> \o SubSeq(p, 3, k) : e \in own, k \in {4, Len(p)}}

(* What an op means for the names.  A written object takes the place of    *)
(* the one of its name, with all that was below it.                        *)
Meaning(names, o) ==
  LET value == StringifyRefs(o.value)
      at    == Front(o.path) \o <<KeyOf(value)>>
  IN  CASE o.op = "remove" -> names \ Below(o.path, names)
        [] Writes(o) /\ KeyOf(value) # "" ->
             (names \ Below(at, names)) \cup {at \o q : q \in {<<>>} \cup NamesBelow(value)}
               \cup (IF o.op = "add" /\ Last(o.path) = "-" THEN ShadowNames(names, at) ELSE {})
        [] OTHER -> names

(* A PATCH does to the objects of the document what its ops mean, one      *)
(* after the other, up to the one that fails, and nothing when it is       *)
(* rejected as a whole: no object is lost because another one looks like   *)
(* it, every object added to a template is found in each site entry of the *)
(* template, and no other one (apply_json_patch, the mirrors).             *)
RequestsMean ==
  [][NamesBelow(doc') = FoldLeft(Meaning, NamesBelow(doc), SubSeq(request'.ops, 1, request'.done))]_<<doc, request>>

(* Whatever mixture of mirrors, references as dicts and references as      *)
(* strings made them, a site entry has one shadow of an object, so that a  *)
(* path by name cannot mean another one than the reader sees               *)
(* (_find_shadow_by_identity, _find_by_name).                              *)
OneOfAName(items) ==
  \A i, j \in DOMAIN items : KeyOf(items[i]) = KeyOf(items[j]) => i = j \/ KeyOf(items[i]) = ""

ShadowsUnique ==
  \A s \in Range(Entries(doc)) :
    /\ \A k \in {"bds", "anps", "contracts"} : OneOfAName(Items(s, k))
    /\ \A a \in Range(Items(s, "anps")) : OneOfAName(Items(a, "epgs"))

(* The ops of a request that configure a redirect, and the entries of the  *)
(* template of such an op that take part in its contract.                  *)
Binds(ops) == {o \in Range(ops) : Writes(o) /\ Last(o.path) = "serviceGraphRelationship" /\ HasRedirectPolicy(o.value)}
Siblings(d, o) ==
  {s \in Range(Entries(d)) :
     /\ \E x \in DOMAIN Composite : Composite[x] = o.path[2] /\ Is(s, "templateName", x[2])
     /\ <<"contracts", o.path[4]>> \in NamesBelow(s)}
RedirectsIn(s, contract) == \A c \in Range(ShadowsOf(s, contract)) : Redirects(c)

(* The request does not redirect it here, and it was not or is not to be.  *)
LeftOut(s, contract, ops) ==
  LET own == {o \in Range(ops) : o.path = <<"sites", SegOf(s), "contracts", contract, "serviceGraphRelationship">>}
  IN  own \cap Binds(ops) = {} /\ (RedirectsIn(s, contract) => own # {})

(* A request that configures a redirect and is accepted leaves the         *)
(* contract redirected in every site entry of its template; one that is    *)
(* rejected as not uniform leaves out an entry of that very template,      *)
(* whatever a contract of the same name does elsewhere: the atomic bind on *)
(* all fabrics always goes through (_validate_uniform_site_redirect).      *)
RedirectsUniform ==
  [][/\ request'.answer = "ok" =>
          \A o \in Binds(request'.ops) : \A s \in Siblings(doc', o) : RedirectsIn(s, o.path[4])
     /\ request'.answer = "not uniform" =>
          \E o \in Binds(request'.ops) : \E s \in Siblings(doc, o) : LeftOut(s, o.path[4], request'.ops)]_<<doc, request>>

(* The devices that the graphs of the site entries are bound to.           *)
Bound(d) ==
  UNION {{<<SegOf(s), Str(s, "siteId"), dn>> : dn \in UNION {DeviceDns(g) : g \in Range(Items(s, "serviceGraphs"))}} :
           s \in Range(Entries(d))}

(* A PATCH binds no graph to a device that the site's APIC does not have:  *)
(* not under any op, not late in a batch, not for another site than the    *)
(* path names.  Only an entry that the same request creates is not looked  *)
(* at (_validate_service_graph_device_refs reads the document before the   *)
(* ops).                                                                   *)
DevicesWereThere ==
  [][\A b \in Bound(doc') \ Bound(doc) :
       b[2] \in Simulated /\ b[3] \in Device => <<b[2], b[3]>> \in devices \/ EntryAt(doc, b[1]) = 0]_doc
=============================================================================
