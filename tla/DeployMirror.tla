---------------------------- MODULE DeployMirror ----------------------------
(***************************************************************************)
(* aci_sim/ndo/deploy_mirror.py: POST /mso/api/v1/task writes the objects  *)
(* of a schema template into the stores of the template's sites, and takes *)
(* them away again.                                                        *)
(*                                                                         *)
(* A DN is the sequence of its RNs, an RN is its prefix and a name; the    *)
(* prefix says the class.  A store maps the DNs that have an MO to what a  *)
(* client has written on that MO, which the mirror itself never writes.    *)
(* That removing a DN removes what is below it is MITStore's refinement of *)
(* MITAbstract.                                                            *)
(***************************************************************************)
EXTENDS Naturals, FiniteSets, SequencesExt

CONSTANTS
  Site,      \* the sites whose stores the NDO was given
  Schemas,   \* the schemas, as the sequence in which they are scanned
  Name,      \* template names
  Tenant,    \* tenants of the NDO
  Design,    \* the documents a template of <<schema, name>> may have
  Policies,  \* what the policy templates of a tenant may declare
  Posted,    \* <<site, DN>> of the MOs that clients POST or DELETE directly
  Boot,      \* the MOs that a site has at its start
  Mark,      \* what a client writes
  None

Template == Range(Schemas) \X Name

(* A template document and the site entries that belong to it.  tenant is  *)
(* what its tenantId resolves to.  plain are VRFs, filters, contracts and  *)
(* graphs with what each has below it, bds the BDs with their subnets and  *)
(* DHCP labels, epgs the EPGs with their contracts and subnets.  sites are *)
(* its associated sites, each with the binds of its EPGs there.            *)
DesignOk(d) ==
  /\ d.tenant \in Tenant \cup {None}
  /\ IsFiniteSet(DOMAIN d.plain) /\ IsFiniteSet(DOMAIN d.bds) /\ DOMAIN d.sites \subseteq Site
  /\ \A e \in DOMAIN d.epgs : e[1] \in d.anps
  /\ \A s \in DOMAIN d.sites : DOMAIN d.sites[s] \subseteq DOMAIN d.epgs
  /\ \A r \in DOMAIN d.plain : r[1] \notin {"BD", "ap", "dhcplbl", "relayp"}
  /\ \A c \in (UNION {d.plain[r] : r \in DOMAIN d.plain})
              \cup (UNION {d.bds[b].kids : b \in DOMAIN d.bds})
              \cup (UNION {d.epgs[e] : e \in DOMAIN d.epgs})
              \cup (UNION {UNION {d.sites[s][e] : e \in DOMAIN d.sites[s]} : s \in DOMAIN d.sites}) :
       c[1] \notin {"dhcplbl", "relayp"}

ASSUME DeployAssumption ==
  /\ None \notin Site \cup Tenant \cup {Mark}
  /\ Schemas \in Seq(Range(Schemas))
  /\ \A t \in Template : None \notin Design[t] /\ \A d \in Design[t] : DesignOk(d)

VARIABLES
  design,    \* the document of each template, None if it has none
  policies,  \* the DHCP relay policies of each tenant: name -> provider EPGs
  store      \* the store of each site

vars == <<design, policies, store>>

-----------------------------------------------------------------------------
(* Distinguished names *)

Tn(a)          == <<<<"tn", a>>>>
BdDn(a, b)     == <<<<"tn", a>>, <<"BD", b>>>>
LabelDn(a, b, l) == <<<<"tn", a>>, <<"BD", b>>, <<"dhcplbl", l>>>>
AnpDn(a, p)    == <<<<"tn", a>>, <<"ap", p>>>>
EpgDn(a, e)    == <<<<"tn", a>>, <<"ap", e[1]>>, <<"epg", e[2]>>>>
RelayDn(a, l)  == <<<<"tn", a>>, <<"relayp", l>>>>

IsLabel(x) == Last(x)[1] = "dhcplbl"
IsRelay(x) == Last(x)[1] = "relayp"
Of(x, a)   == x[1] = <<"tn", a>>

(* Where the classes go: a label is below a BD, a relay below a tenant.    *)
Shaped(x) == /\ x \in Seq(Range(x)) /\ x # <<>>
             /\ IsLabel(x) => Len(x) = 3 /\ x[2][1] = "BD"
             /\ IsRelay(x) => Len(x) = 2

ASSUME DnAssumption == \A x \in Boot \cup {p[2] : p \in Posted} : Shaped(x)

Under(x, ds) == \E d \in ds : IsPrefix(d, x)

(* upsert merges: what is there keeps what the mirror does not write. *)
Merged(st, ds) == [x \in DOMAIN st \cup ds |-> IF x \in DOMAIN st THEN st[x] ELSE None]

Cut(st, ds) == Restrict(st, {x \in DOMAIN st : ~ Under(x, ds)})

-----------------------------------------------------------------------------
(* What a template stands for on one of its sites *)

BdDns(d)  == {BdDn(d.tenant, b) : b \in DOMAIN d.bds}
EpgDns(d) == {EpgDn(d.tenant, e) : e \in DOMAIN d.epgs}
LabelDns(d) == UNION {{LabelDn(d.tenant, b, l) : l \in d.bds[b].labels} : b \in DOMAIN d.bds}

(* _template_object_dns: every DN that an undeploy deletes. *)
ObjectDns(d) == BdDns(d) \cup EpgDns(d) \cup {AnpDn(d.tenant, p) : p \in d.anps}
                \cup {Append(Tn(d.tenant), r) : r \in DOMAIN d.plain}

(* The fvRsDomAtt and fvRsPathAtt come from the site's entry, if it has one *)
(* for the EPG, the other children of an EPG from the template.            *)
EpgKids(d, s, e) == d.epgs[e] \cup (IF e \in DOMAIN d.sites[s] THEN d.sites[s][e] ELSE {})

Declared(d, s) ==
  {Tn(d.tenant)} \cup ObjectDns(d) \cup LabelDns(d)
  \cup (UNION {{<<<<"tn", d.tenant>>, r, c>> : c \in d.plain[r]} : r \in DOMAIN d.plain})
  \cup (UNION {{Append(BdDn(d.tenant, b), c) : c \in d.bds[b].kids} : b \in DOMAIN d.bds})
  \cup (UNION {{Append(EpgDn(d.tenant, e), c) : c \in EpgKids(d, s, e)} : e \in DOMAIN d.epgs})

(* _find_epg_anp: where templates of this schema have an EPG of that name. *)
(* The first is taken, here any; a provider that none has is left out, and *)
(* external EPGs as providers are not modelled.                            *)
Holders(sch, e) ==
  UNION {{x \in DOMAIN design[<<sch, n>>].epgs : x[2] = e} :
           n \in {m \in Name : design[<<sch, m>>] # None}}

(* _mirror_dhcp_relay_policies: only the policies that a label names. *)
RelayDns(sch, d) ==
  LET named == {Last(x)[2] : x \in LabelDns(d)} \cap DOMAIN policies[d.tenant]
      provs(l) == {e \in policies[d.tenant][l] : Holders(sch, e) # {}}
  IN  {RelayDn(d.tenant, l) : l \in named}
      \cup (UNION {{Append(RelayDn(d.tenant, l),
                           <<"rsprov", EpgDn(d.tenant, CHOOSE x \in Holders(sch, e) : TRUE)>>) :
                      e \in provs(l)} : l \in named})

(* _prune_stale_dhcp_labels, for each BD of the template *)
StaleLabels(st, d) ==
  {x \in DOMAIN st : IsLabel(x) /\ Front(x) \in BdDns(d)} \ LabelDns(d)

Labelled(st, a) == {Last(x)[2] : x \in {y \in DOMAIN st : IsLabel(y) /\ Of(y, a)}}

(* _prune_orphan_relay_policies *)
Pruned(st, a) ==
  Cut(st, {x \in DOMAIN st : IsRelay(x) /\ Of(x, a) /\ Last(x)[2] \notin Labelled(st, a)})

(* Fault for Deployed: EPGs are merged as BDs are. *)
DeployedMerging(st, sch, d, s) ==
  Pruned(Merged(Cut(st, StaleLabels(st, d)), Declared(d, s) \cup RelayDns(sch, d)), d.tenant)

(* Fault for Deployed: BDs are deleted and recreated as EPGs are. *)
DeployedAfresh(st, sch, d, s) ==
  Pruned(Merged(Cut(st, BdDns(d) \cup EpgDns(d)), Declared(d, s) \cup RelayDns(sch, d)), d.tenant)

(* Fault for Deployed: orphans are pruned before the relays are written.   *)
DeployedPrunedEarly(st, sch, d, s) ==
  Merged(Pruned(Cut(st, StaleLabels(st, d) \cup EpgDns(d)), d.tenant),
         Declared(d, s) \cup RelayDns(sch, d))

(* mirror_template_to_sites for one site.  Stale labels and whole EPGs go, *)
(* everything else is merged, and relays nobody names any more go last.    *)
Deployed(st, sch, d, s) ==
  Pruned(Merged(Cut(st, StaleLabels(st, d) \cup EpgDns(d)),
                Declared(d, s) \cup RelayDns(sch, d)), d.tenant)

(* Fault for Undeployed: relays are deleted because the template names them. *)
UndeployedRelays(st, d) ==
  Cut(st, ObjectDns(d) \cup {RelayDn(d.tenant, Last(x)[2]) : x \in LabelDns(d)})

(* Fault for Undeployed: nothing is pruned. *)
UndeployedUnpruned(st, d) == Cut(st, ObjectDns(d))

Undeployed(st, d) == Pruned(Cut(st, ObjectDns(d)), d.tenant)

-----------------------------------------------------------------------------
(* The task route *)

(* _find_template: in the schema of the request, or, without one, in the   *)
(* first that has a template of the name.                                  *)
Having(n) == {i \in DOMAIN Schemas : design[<<Schemas[i], n>>] # None}

Found(sch, n) ==
  IF sch # None THEN sch ELSE IF Having(n) = {} THEN None ELSE Schemas[Min(Having(n))]

Mirrors(sch, n) == /\ Found(sch, n) # None
                   /\ design[<<Found(sch, n), n>>] # None
                   /\ design[<<Found(sch, n), n>>].tenant # None

deploy(sch, n) ==
  /\ Mirrors(sch, n)
  /\ LET c == Found(sch, n)
         d == design[<<c, n>>]
     IN  store' = [s \in Site |-> IF s \in DOMAIN d.sites THEN Deployed(store[s], c, d, s)
                                  ELSE store[s]]
  /\ UNCHANGED <<design, policies>>

(* The sites the request lists only say that it is an undeploy. *)
undeploy(sch, n) ==
  /\ Mirrors(sch, n)
  /\ LET d == design[<<Found(sch, n), n>>]
     IN  store' = [s \in Site |-> IF s \in DOMAIN d.sites THEN Undeployed(store[s], d)
                                  ELSE store[s]]
  /\ UNCHANGED <<design, policies>>

(* No such schema (404), template, or tenant: nothing changes. *)
taskIgnored(sch, n) == ~ Mirrors(sch, n) /\ UNCHANGED vars

-----------------------------------------------------------------------------
(* What the others do *)

(* PATCH and DELETE of schemas, of site entries and of tenants *)
edit(t, d) == /\ design' = [design EXCEPT ![t] = d]
              /\ UNCHANGED <<policies, store>>

(* PATCH of a tenant policy template *)
setPolicies(a, p) == /\ policies' = [policies EXCEPT ![a] = p]
                     /\ UNCHANGED <<design, store>>

(* POST and DELETE of an MO on a site *)
clientPost(s, x) == /\ store' = [store EXCEPT ![s] = [Merged(@, {x}) EXCEPT ![x] = Mark]]
                    /\ UNCHANGED <<design, policies>>

clientDelete(s, x) == /\ x \in DOMAIN store[s]
                      /\ store' = [store EXCEPT ![s] = Cut(@, {x})]
                      /\ UNCHANGED <<design, policies>>

(* POST /_sim/reset on a site *)
reset(s) == /\ store' = [store EXCEPT ![s] = Merged(<<>>, Boot)]
            /\ UNCHANGED <<design, policies>>

Init ==
  /\ design = [t \in Template |-> None]
  /\ policies = [a \in Tenant |-> <<>>]
  /\ store = [s \in Site |-> Merged(<<>>, Boot)]

Request == (Range(Schemas) \cup {None}) \X Name

Next ==
  \/ \E r \in Request : deploy(r[1], r[2]) \/ undeploy(r[1], r[2]) \/ taskIgnored(r[1], r[2])
  \/ \E t \in Template, d \in (UNION {Design[u] : u \in Template}) \cup {None} :
       d \in Design[t] \cup {None} /\ edit(t, d)
  \/ \E a \in Tenant : \E p \in Policies[a] : setPolicies(a, p)
  \/ \E x \in Posted : clientPost(x[1], x[2]) \/ clientDelete(x[1], x[2])
  \/ \E s \in Site : reset(s)

Spec == Init /\ [][Next]_vars

-----------------------------------------------------------------------------
(* Properties *)

Task(r) == deploy(r[1], r[2]) \/ undeploy(r[1], r[2])

Doc(r) == design[<<Found(r[1], r[2]), r[2]>>]

Relays(st, a) == {Last(x)[2] : x \in {y \in DOMAIN st : IsRelay(y) /\ Of(y, a)}}

(* Whatever deploys, undeploys and edits of templates that share policies, *)
(* and clients' own writes came before: a task never takes a relay policy  *)
(* that a label on the site names, never brings a label without its policy *)
(* if the tenant has one, and leaves no policy that no label names (the    *)
(* promise of _prune_orphan_relay_policies and of _mirror_dhcp_relay_...). *)
RelaysFit ==
  [][store' # store => \A r \in Request : Task(r) =>
       LET a == Doc(r).tenant
       IN  \A s \in DOMAIN Doc(r).sites :
             /\ Relays(store'[s], a) \subseteq Labelled(store'[s], a)
             /\ \A l \in Labelled(store'[s], a) \ Relays(store'[s], a) :
                  /\ l \notin Relays(store[s], a)
                  /\ l \in Labelled(store[s], a) \/ l \notin DOMAIN policies[a]]_vars

(* What a deploy makes of its EPGs and labels does not depend on what      *)
(* earlier deploys of older documents left there: a bind, contract or      *)
(* label that was taken out in the NDO is gone from the site.              *)
HistoryFree ==
  \A t \in Template : design[t] # None /\ design[t].tenant # None =>
    \A s \in DOMAIN design[t].sites :
      LET d == design[t]
          a == DOMAIN Deployed(store[s], t[1], d, s)
          b == DOMAIN Deployed(<<>>, t[1], d, s)
      IN  /\ b \subseteq a
          /\ \A x \in a \ b : /\ ~ Under(x, EpgDns(d))
                             /\ ~ (IsLabel(x) /\ Front(x) \in BdDns(d))

(* What a client posted below a relay policy of the tenant that is not on  *)
(* the site.                                                               *)
Stranded(st, a) == {x \in DOMAIN st : \E l \in DOMAIN policies[a] :
                      RelayDn(a, l) \notin DOMAIN st /\ IsPrefix(RelayDn(a, l), x)}

(* An undeploy takes back what the deploy before it brought, relays that   *)
(* only its labels named included, and nothing else but what is stranded   *)
(* below such a relay; the tenant's own MO stays, and what was written of  *)
(* a relay that another label names.                                       *)
UndeployUndoes ==
  \A t \in Template : design[t] # None /\ design[t].tenant # None =>
    \A s \in DOMAIN design[t].sites :
      LET d    == design[t]
          st   == store[s]
          u    == Undeployed(Deployed(st, t[1], d, s), d)
          kept == DOMAIN st \ Stranded(st, d.tenant)
      IN  Pruned(st, d.tenant) = st /\ (\A x \in DOMAIN st : ~ Under(x, ObjectDns(d))) =>
            /\ kept \subseteq DOMAIN u /\ \A x \in kept : u[x] = st[x]
            /\ \A x \in DOMAIN u \ DOMAIN st :
                 x = Tn(d.tenant) \/ \E l \in Labelled(st, d.tenant) : IsPrefix(RelayDn(d.tenant, l), x)

(* What a template has on a site: its objects, and the relays its labels   *)
(* there name.                                                             *)
Owned(st, d, s) ==
  DOMAIN st \cap (Declared(d, s) \cup {RelayDn(d.tenant, Last(x)[2]) :
                                          x \in LabelDns(d) \cap DOMAIN st})

(* A task for one template keeps what another has brought to the site, the *)
(* policies they share included, as long as no object is in both; and a    *)
(* deploy keeps what clients wrote on its BDs (the epClear of              *)
(* deploy_mirror.py:224-230) and beside them, but for EPGs, labels and     *)
(* relays with all below.                                                  *)
OthersKept ==
  [][store' # store => \A r \in Request :
       /\ Task(r) =>
            \A t \in Template : design[t] # None /\ design[t].tenant # None =>
              \A s \in DOMAIN design[t].sites :
                ObjectDns(design[t]) \cap ObjectDns(Doc(r)) = {} =>
                  Owned(store[s], design[t], s) \subseteq DOMAIN store'[s]
       /\ deploy(r[1], r[2]) =>
            \A s \in Site : \A x \in DOMAIN store[s] :
              /\ store[s][x] = Mark /\ ~ Under(x, EpgDns(Doc(r)))
              /\ \A i \in 1..Len(x) : x[i][1] \notin {"dhcplbl", "relayp"}
             => x \in DOMAIN store'[s] /\ store'[s][x] = Mark]_vars

=============================================================================
