------------------------------ MODULE ApicWrite ------------------------------
(***************************************************************************)
(* aci_sim/rest_aci/writes.py and the POST and DELETE routes of app.py: a  *)
(* write to one APIC site's store.  Both routes run without awaiting once  *)
(* the body is there, so each is one step.  What makes them worth checking *)
(* is the order inside the step - validate the whole body, commit MO by    *)
(* MO, run the reactions, report, push - and the three different accounts  *)
(* of the change that come out of it: the store, the response and the      *)
(* pushes.                                                                 *)
(*                                                                         *)
(* A body is its list of nodes in the order _plan_recursive visits them,   *)
(* each naming the position of its parent.  MOs have one attribute, val:   *)
(* the vrf of an l3extRsEctx, the asn of a bgpAsP and of a session.        *)
(***************************************************************************)
EXTENDS Integers, FiniteSets, SequencesExt

CONSTANTS
  Dn, Rn, Class, Val, Unset, NoMO,  \* as in MITStore
  Default,  \* _CLASS_DEFAULTS: class -> the value a create fills in, or Unset
  Blank,    \* the empty string, a member of Val
  LeafName, \* leaf-{id}, the name of a registration that gives none
  NodeDn,   \* RN of a registration, nodep-{id} -> DN of that node
  Body,     \* the POST bodies in play
  Target    \* the DNs a DELETE names

VARIABLES
  store,    \* state.store
  last      \* the last request: what it was, and what its caller was told

vars == <<store, last>>

T == INSTANCE MITStore

(* A node that omits its DN has dn = <<>> and gets one from its parent and *)
(* its RN.  flaw is what is wrong with it: "shape" fails _validate_node,   *)
(* "value" a rule of validators.RULES, and "name" is an attribute called   *)
(* class_name, which the MO constructor cannot take.                       *)
Node == [parent : Nat, cls : Class, dn : Dn \cup {<<>>}, rn : Rn,
         val : Val \cup {Unset}, deleted : BOOLEAN,
         flaw : {"none", "shape", "value", "name"}]

ASSUME BodyAssumption ==
  /\ Target \subseteq Dn
  /\ Body \subseteq Seq(Node)
  /\ \A b \in Body : /\ b # <<>> /\ b[1].parent = 0 /\ b[1].dn # <<>>
                     /\ \A i \in 2..Len(b) : b[i].parent \in 1..i-1

ASSUME ValueAssumption == {Blank, LeafName} \subseteq Val /\ Default \in [Class -> Val \cup {Unset}]

(* The store's own assumptions, on the constants that are shared with it.  *)
ASSUME StoreAssumption ==
  /\ Dn \subseteq Seq(Rn) \ {<<>>}
  /\ \A d \in Dn : \A n \in 1..Len(d) : SubSeq(d, 1, n) \in Dn
  /\ NoMO \notin T!MO /\ Unset \notin Val

Get(st, d) == IF d \in Dn THEN st.mo[d] ELSE NoMO

-----------------------------------------------------------------------------
(* Planning *)

(* _child_dn, and attrs["dn"] or the URL for the root *)
DnOf(b) ==
  LET at[i \in 1..Len(b)] ==
        IF b[i].dn # <<>> THEN b[i].dn ELSE Append(at[b[i].parent], b[i].rn)
  IN  at

(* The DNs in play include those the bodies make up. *)
ASSUME DnOfAssumption == \A b \in Body : \A i \in 1..Len(b) : DnOf(b)[i] \in Dn

(* The list _plan_recursive builds: it does not descend below a deleted    *)
(* node.                                                                   *)
Planned(b) ==
  LET upto[n \in 0..Len(b)] ==
        IF n = 0 THEN {}
        ELSE IF \/ b[n].parent = 0
                \/ b[n].parent \in upto[n - 1] /\ ~ b[b[n].parent].deleted
          THEN upto[n - 1] \cup {n}
          ELSE upto[n - 1]
  IN  upto[Len(b)]

(* Fault for Accepted: only the nodes that will be written are validated. *)
AcceptedPlannedOnly(b) == \A i \in Planned(b) : b[i].flaw \notin {"shape", "value"}

(* _validate_node looks at every node, _validate_planned at the values of  *)
(* those that will be written.                                             *)
Accepted(b) ==
  /\ \A i \in 1..Len(b) : b[i].flaw # "shape"
  /\ \A i \in Planned(b) : ~ b[i].deleted => b[i].flaw # "value"

-----------------------------------------------------------------------------
(* Commit *)

(* Fault for Status: an existing MO that is posted a value was modified. *)
StatusUncompared(st, d, node) ==
  LET old == Get(st, d)
  IN  IF node.deleted THEN IF old # NoMO THEN "deleted" ELSE "unchanged"
      ELSE IF old = NoMO THEN "created"
      ELSE IF node.val # Unset THEN "modified"
      ELSE "unchanged"

(* Compared with the stored MO, before the defaults are laid under. *)
Status(st, d, node) ==
  LET old == Get(st, d)
  IN  IF node.deleted THEN IF old # NoMO THEN "deleted" ELSE "unchanged"
      ELSE IF old = NoMO THEN "created"
      ELSE IF node.val # Unset /\ node.val # old.val THEN "modified"
      ELSE "unchanged"

(* The MO that is written: class defaults only if it is being created. *)
Written(st, d, node) ==
  [class |-> node.cls,
   val   |-> IF Get(st, d) = NoMO /\ node.val = Unset THEN Default[node.cls] ELSE node.val]

Write(st, d, node) ==
  IF node.deleted THEN T!RemoveSubtree(st, d) ELSE T!UpsertOne(st, d, Written(st, d, node))

(* One turn of the loop of _upsert_recursive, on the store, the results so *)
(* far, and whether the MO constructor has raised, which ends the loop.    *)
CommitNode(acc, b, n) ==
  LET d == DnOf(b)[n]
  IN  IF acc.raised \/ n \notin Planned(b) THEN acc
      ELSE IF b[n].flaw = "name" THEN [acc EXCEPT !.raised = TRUE]
      ELSE [st      |-> Write(acc.st, d, b[n]),
            results |-> Append(acc.results,
                          [cls |-> b[n].cls, dn |-> d, val |-> b[n].val,
                           deleted |-> b[n].deleted, status |-> Status(acc.st, d, b[n])]),
            raised  |-> FALSE]

(* Fault for Commit: each status is decided by the store before the body.  *)
CommitForeseen(st, b) ==
  LET upto[n \in 0..Len(b)] ==
        IF n = 0 THEN [st |-> st, results |-> <<>>, raised |-> FALSE]
        ELSE LET acc == CommitNode(upto[n - 1], b, n)
             IN  IF acc.results = upto[n - 1].results THEN acc
                 ELSE [acc EXCEPT !.results[Len(acc.results)].status = Status(st, DnOf(b)[n], b[n])]
  IN  upto[Len(b)]

Commit(st, b) ==
  LET upto[n \in 0..Len(b)] ==
        IF n = 0 THEN [st |-> st, results |-> <<>>, raised |-> FALSE]
        ELSE CommitNode(upto[n - 1], b, n)
  IN  upto[Len(b)]

-----------------------------------------------------------------------------
(* Reactions: they run over the results of the whole commit, and write MOs *)
(* that are not reported.                                                  *)

RnOf(d) == d[Len(d)]

(* materialize_node_registration: the inventory row and the system MO of   *)
(* the node.  Ports, links and neighbours are in SiteControl.          *)
RegisterNode(st, r) ==
  LET d    == NodeDn[RnOf(r.dn)]
      name == IF r.val = Unset THEN LeafName ELSE r.val
      row  == T!UpsertOne(st, d, [class |-> "fabricNode", val |-> name])
  IN  T!UpsertOne(row, Append(d, "sys"), [class |-> "topSystem", val |-> name])

(* The vrf of the L3Out a peer is below: the first that is not empty.      *)
VrfOf(st, peerDn) ==
  LET kids  == st.kids[SubSeq(peerDn, 1, 3)]
      named == {i \in 1..Len(kids) : /\ kids[i] \in T!Present(st)
                                     /\ st.mo[kids[i]].class = "l3extRsEctx"
                                     /\ st.mo[kids[i]].val \notin {Unset, Blank}}
  IN  IF named = {} THEN Blank ELSE st.mo[kids[Min(named)]].val

(* bgpInst, its dom-{tenant}:{vrf}, and the peer with its entries as one.  *)
SessionDn(peerDn, vrf) == <<"topology", vrf, RnOf(peerDn)>>

(* _materialize_l3out_bgp_session *)
RegisterSession(st, peerDn, asn) ==
  LET vrf  == VrfOf(st, peerDn)
      d    == SessionDn(peerDn, vrf)
      inst == T!UpsertOne(st, SubSeq(d, 1, 1), [class |-> "bgpInst", val |-> Unset])
      dom  == T!UpsertOne(inst, SubSeq(d, 1, 2), [class |-> "bgpDom", val |-> vrf])
  IN  IF Len(peerDn) < 4 \/ vrf = Blank THEN st
      ELSE T!UpsertOne(dom, d, [class |-> "bgpPeer", val |-> asn])

(* remote_asn: from a bgpAsP of the same body, not from the store. *)
AsnIn(results, peerDn) ==
  LET below == {k \in 1..Len(results) : /\ results[k].cls = "bgpAsP"
                                        /\ results[k].dn \in T!Below(peerDn) \ {peerDn}}
  IN  IF below = {} \/ results[Min(below)].val = Unset THEN Blank ELSE results[Min(below)].val

(* The results each of the two loops of apply reacts to *)
IsNode(r) == ~ r.deleted /\ r.cls = "fabricNodeIdentP" /\ RnOf(r.dn) \in DOMAIN NodeDn
IsPeer(r) == ~ r.deleted /\ r.cls = "bgpPeerP" /\ r.val \notin {Unset, Blank}

RegisterNodes(st, results) ==
  LET upto[n \in 0..Len(results)] ==
        IF n = 0 THEN st
        ELSE IF IsNode(results[n]) THEN RegisterNode(upto[n - 1], results[n])
        ELSE upto[n - 1]
  IN  upto[Len(results)]

RegisterPeers(st, results) ==
  LET upto[n \in 0..Len(results)] ==
        IF n = 0 THEN st
        ELSE IF IsPeer(results[n])
          THEN RegisterSession(upto[n - 1], results[n].dn, AsnIn(results, results[n].dn))
        ELSE upto[n - 1]
  IN  upto[Len(results)]

(* Fault for React: only the first result of the body is looked at. *)
ReactFirst(st, results) ==
  LET first == SubSeq(results, 1, 1)
  IN  RegisterPeers(RegisterNodes(st, first), first)

React(st, results) == RegisterPeers(RegisterNodes(st, results), results)

(* What the reactions write is below topology, and in play. *)
ASSUME ReactionAssumption ==
  /\ \A r \in DOMAIN NodeDn : /\ NodeDn[r] \in Dn /\ NodeDn[r][1] = "topology"
                              /\ Append(NodeDn[r], "sys") \in Dn
                              /\ {"fabricNode", "topSystem"} \subseteq Class
  /\ \A b \in Body : \A i \in 1..Len(b) :
       b[i].cls = "bgpPeerP" =>
         /\ {"bgpInst", "bgpDom", "bgpPeer"} \subseteq Class
         /\ \A v \in Val \ {Blank} : SessionDn(DnOf(b)[i], v) \in Dn

-----------------------------------------------------------------------------
(* What the caller and the subscribers are told *)

(* Fault for Reported: only creations and deletions are listed. *)
ReportedNoModified(results, rsp) ==
  IF rsp = "no" THEN <<>>
  ELSE SelectSeq(results, LAMBDA r : r.status \in {"created", "deleted"})

(* imdata of apply *)
Reported(results, rsp) ==
  LET upto[n \in 0..Len(results)] ==
        IF n = 0 THEN <<>>
        ELSE IF results[n].status = "unchanged" THEN upto[n - 1]
        ELSE Append(upto[n - 1], results[n])
  IN  IF rsp = "no" THEN <<>> ELSE upto[Len(results)]

(* post_mo notifies from imdata, and knows of one DN whether it existed.   *)
PushesOf(st, b, imdata) ==
  [i \in 1..Len(imdata) |->
     [cls |-> imdata[i].cls, dn |-> imdata[i].dn,
      status |-> IF imdata[i].status = "deleted" THEN "deleted"
                 ELSE IF imdata[i].dn = b[1].dn /\ Get(st, b[1].dn) # NoMO THEN "modified"
                 ELSE "created"]]

-----------------------------------------------------------------------------
(* The routes *)

NoRequest == [kind |-> "none"]

Init == store = T!EmptyStore /\ last = NoRequest

postRefused(b) ==
  /\ ~ Accepted(b)
  /\ last' = [kind |-> "post", body |-> b, rsp |-> "modified", ok |-> FALSE,
              imdata |-> <<>>, pushes |-> <<>>]
  /\ UNCHANGED store

(* The exception reaches the route after part of the body was committed.   *)
postRaised(b) ==
  /\ Accepted(b) /\ Commit(store, b).raised
  /\ store' = Commit(store, b).st
  /\ last' = [kind |-> "post", body |-> b, rsp |-> "modified", ok |-> FALSE,
              imdata |-> <<>>, pushes |-> <<>>]

post(b, rsp) ==
  LET done   == Commit(store, b)
      imdata == Reported(done.results, rsp)
  IN  /\ Accepted(b) /\ ~ done.raised
      /\ store' = React(done.st, done.results)
      /\ last' = [kind |-> "post", body |-> b, rsp |-> rsp, ok |-> TRUE, imdata |-> imdata,
                  pushes |-> PushesOf(store, b, imdata)]

(* Fault for deleteMo: the subtree is read after it has been removed. *)
deleteMoReadLate(d) ==
  LET st   == T!RemoveSubtree(store, d)
      gone == (IF d \in T!Present(store) THEN <<d>> ELSE <<>>) \o T!Subtree(st, d)
  IN  /\ store' = st
      /\ last' = [kind |-> "delete", dn |-> d, imdata |-> <<>>,
                  pushes |-> [i \in 1..Len(gone) |-> [cls |-> store.mo[gone[i]].class,
                                                     dn |-> gone[i], status |-> "deleted"]]]

(* delete_mo: the subtree is read before it is removed. *)
deleteMo(d) ==
  LET gone == (IF d \in T!Present(store) THEN <<d>> ELSE <<>>) \o T!Subtree(store, d)
  IN  /\ store' = T!RemoveSubtree(store, d)
      /\ last' = [kind |-> "delete", dn |-> d, imdata |-> <<>>,
                  pushes |-> [i \in 1..Len(gone) |-> [cls |-> store.mo[gone[i]].class,
                                                     dn |-> gone[i], status |-> "deleted"]]]

Next ==
  \/ \E d \in Target : deleteMo(d)
  \/ \E b \in Body : \/ postRefused(b) \/ postRaised(b)
                     \/ \E rsp \in {"modified", "no"} : post(b, rsp)

Spec == Init /\ [][Next]_vars

-----------------------------------------------------------------------------
(* Properties *)

(* No DN is written twice by the body, and none below one it deletes. *)
Plain(b) ==
  \A i, j \in Planned(b) :
    i # j => /\ DnOf(b)[i] # DnOf(b)[j]
             /\ b[j].deleted => DnOf(b)[i] \notin T!Below(DnOf(b)[j])

DeletedBy(b) == {DnOf(b)[i] : i \in {j \in Planned(b) : b[j].deleted}}

(* A node and those it is nested in. *)
Around(b, i) ==
  {j \in 1..Len(b) : \A S \in SUBSET (1..Len(b)) :
     i \in S /\ (\A k \in S : b[k].parent # 0 => b[k].parent \in S) => j \in S}

Posted == last'.kind = "post"

(* A body with a malformed node anywhere - also one nested in a deleted    *)
(* node, which is never written - or with a bad value in a node that is    *)
(* not nested in a deleted one changes nothing and tells nobody of a       *)
(* change.                                                                 *)
MalformedUntouched ==
  [][Posted /\ (\E i \in 1..Len(last'.body) :
                  \/ last'.body[i].flaw = "shape"
                  \/ /\ last'.body[i].flaw = "value"
                     /\ \A j \in Around(last'.body, i) : ~ last'.body[j].deleted)
       => store' = store /\ last'.imdata = <<>> /\ last'.pushes = <<>>]_vars

(* The response tells the truth about every MO of the body, whatever the   *)
(* order in which its nodes touched the store and the defaults that were   *)
(* laid under: created was absent, modified differs, deleted is gone; but  *)
(* for MOs below topology, which a reaction may write after the body has.  *)
(* And no MO changed silently, but for those of a reaction and those below *)
(* a DN that had no MO when it was deleted.                                *)
ReportTruthful ==
  [][Posted /\ last'.ok /\ last'.rsp # "no" /\ Plain(last'.body) =>
       LET entries == ToSet(last'.imdata)
       IN  /\ \A e \in entries : e.dn[1] # "topology" =>
                CASE e.status = "created"  -> Get(store, e.dn) = NoMO /\ Get(store', e.dn) # NoMO
                  [] e.status = "modified" -> /\ Get(store, e.dn) # Get(store', e.dn)
                                              /\ NoMO \notin {Get(store, e.dn), Get(store', e.dn)}
                  [] e.status = "deleted"  -> Get(store, e.dn) # NoMO /\ Get(store', e.dn) = NoMO
           /\ \A d \in Dn : Get(store, d) # Get(store', d) =>
                \/ d[1] = "topology"
                \/ \E e \in entries : d = e.dn
                \/ \E x \in DeletedBy(last'.body) : d \in T!Below(x)]_vars

(* What a client has that drops what is reported deleted, with all that is *)
(* below it, and adds the rest, in the order of the report.                *)
Mirror(entries, S) ==
  LET upto[n \in 0..Len(entries)] ==
        IF n = 0 THEN S
        ELSE IF entries[n].status = "deleted" THEN upto[n - 1] \ T!Below(entries[n].dn)
        ELSE upto[n - 1] \cup {entries[n].dn}
  IN  upto[Len(entries)]

(* The DNs whose deletion may have gone unreported: there is no report of  *)
(* one, or the body deletes them twice.                                    *)
Unsaid(b, entries) ==
  {x \in DeletedBy(b) :
     \/ \A k \in 1..Len(entries) : entries[k].status = "deleted" => entries[k].dn # x
     \/ \E i, j \in Planned(b) : /\ i # j /\ b[i].deleted /\ b[j].deleted
                                /\ DnOf(b)[i] = x /\ DnOf(b)[j] = x}

(* A client that keeps up with the store by the responses alone has the    *)
(* MOs the store has, also after a body that writes a DN several times,    *)
(* deletes what it has just written or writes below what it deletes: each  *)
(* status is that of its turn.  But for MOs below topology, and for those  *)
(* below a DN that had no MO when it was deleted.                          *)
MirrorFollows ==
  [][Posted /\ last'.ok /\ last'.rsp # "no" =>
       LET kept == Mirror(last'.imdata, T!Present(store))
       IN  /\ \A d \in T!Present(store') : d[1] # "topology" => d \in kept
           /\ \A d \in kept \ T!Present(store') :
                \/ d[1] = "topology"
                \/ \E x \in Unsaid(last'.body, last'.imdata) : d \in T!Below(x) \ {x}]_vars

(* A body of configuration: it writes nothing below topology, where the    *)
(* reactions do.                                                           *)
Configures(b) == \A i \in Planned(b) : DnOf(b)[i][1] # "topology"

(* Everything the body leads to has been done once the call returns, so    *)
(* posting it again changes nothing, not even a child list or the          *)
(* insertion order, and reports nothing: Ansible's second run is all       *)
(* green, class defaults and reactions included.                           *)
Settled(b) ==
  LET one == Commit(store, b)
      st  == React(one.st, one.results)
      two == Commit(st, b)
  IN  /\ React(two.st, two.results) = st
      /\ \A i \in 1..Len(two.results) : two.results[i].status = "unchanged"

RepushIdle ==
  \A b \in Body : Accepted(b) /\ ~ Commit(store, b).raised /\ Plain(b) /\ Configures(b) => Settled(b)

(* A registration or a peer found anywhere in the body has its operational *)
(* MOs when the call returns, whichever of its siblings come after it.     *)
ReactionsFire ==
  [][Posted /\ last'.ok =>
       \A i \in Planned(last'.body) :
         LET node == last'.body[i]  d == DnOf(last'.body)[i]
         IN  ~ node.deleted =>
               /\ node.cls = "fabricNodeIdentP" /\ RnOf(d) \in DOMAIN NodeDn =>
                    Get(store', NodeDn[RnOf(d)]) # NoMO
               /\ /\ node.cls = "bgpPeerP" /\ Len(d) >= 4 /\ node.val \notin {Unset, Blank}
                  /\ VrfOf(store', d) # Blank
                  => Get(store', SessionDn(d, VrfOf(store', d))) # NoMO]_vars

(* A DELETE pushes every MO that disappears once, with its own class, also *)
(* below DNs that have no MO, and nothing else.                            *)
DeletePushExact ==
  [][last'.kind = "delete" =>
       /\ {<<last'.pushes[i].dn, last'.pushes[i].cls>> : i \in 1..Len(last'.pushes)}
            = {<<d, store.mo[d].class>> : d \in T!Present(store) \ T!Present(store')}
       /\ Len(last'.pushes) = Cardinality(T!Present(store) \ T!Present(store'))]_vars

=============================================================================
