----------------------------- MODULE NdoTenants ------------------------------
(***************************************************************************)
(* The tenants and the tenant policy templates of ndo/app.py.  A tenant is *)
(* referred to by its id, from templates of schemas and from policy        *)
(* templates, and must not be deleted under them.  A policy template is a  *)
(* document with a summary in another list; its DHCP policies get a uuid   *)
(* by which the labels of bridge domains refer to them.  A PATCH looks its *)
(* document up, waits for the body of the request, and then writes to what *)
(* it found, whatever was done to it in between: the document may have     *)
(* been deleted, or a load may have put a copy of an older one in its      *)
(* place.                                                                  *)
(***************************************************************************)
EXTENDS Naturals, FiniteSets, SequencesExt, TLC

CONSTANTS
  TenantId,
  Template,     \* the ids of policy templates: none is given out twice
  Seeded, SeededName, SeededTenant,  \* the template, its name and its policy's, and the tenant at the start
  Schema,       \* the schemas, of one template each
  Name,         \* names of policies, and display names of policy templates
  Posted,       \* the titles and tenants a POST of a template may bring
  Batch,        \* template -> the lists of ops a PATCH of it may bring
  Handler,      \* the PATCHes that can wait for their bodies at a time
  MaxTenants,   \* bound on the tenants at a time
  MaxPolicies,  \* bound on the policies of a template
  File,         \* the names of saved states
  MaxLoads,     \* bound on the loads
  NoTenant, NoUuid, NoFile, Idle

(* What a PATCH may ask for: of the policies, by name; of the template's    *)
(* display name and tenant; and what apply_json_patch refuses.             *)
Op == [op : {"add", "remove", "title"}, name : Name] \cup [op : {"rename"}, name : Name, to : Name]
        \cup [op : {"tenant"}, name : TenantId] \cup [op : {"bad"}]

ASSUME RequestAssumption ==
  /\ Posted \subseteq [title : Name, tenant : TenantId \cup {NoTenant}]
  /\ DOMAIN Batch = Template /\ \A d \in Template : Batch[d] \subseteq Seq(Op)

ASSUME SeedAssumption ==
  Seeded \in Template /\ SeededName \in Name /\ SeededTenant \in TenantId /\ NoTenant \notin TenantId

VARIABLES
  tenants,      \* state.tenants
  schemas,      \* schema -> the tenantId of its template, or NoTenant if there is no such schema
  stored,       \* the ids in state.tenant_policy_templates
  docs,         \* the document objects that are stored or waited for
  summaries,    \* state.template_summaries
  waiting,      \* the document object each PATCH that waits for its body has found
  labels,       \* the dhcpLabels of a bridge domain, one or none: the policy meant, and its uuid
  used,         \* the ids given out, which uuid4 does not repeat
  loads,        \* how many loads there were
  saved,        \* the files
  (* What the properties have to know of the past.                         *)
  overtaken,    \* templates whose summary was last written for an object that was not stored
  torn,         \* templates whose object had a failing PATCH as its latest
  reseeded,     \* templates of which a policy was renamed or the tenant changed
  sound         \* references made when their tenant existed

disk == <<loads, saved>>
state == <<tenants, schemas, docs, stored, summaries, waiting, labels, used, disk>>
vars == <<state, overtaken, torn, reseeded, sound>>

(* A load replaces every stored document by a new object, and nothing else *)
(* gives a template a second one, so an object is a template and the       *)
(* number of loads before it came to be.                                   *)
Stored(d) == <<d, loads>>

Live == {Stored(d) : d \in stored} \cup {waiting[h] : h \in {x \in Handler : waiting[x] # Idle}}

-----------------------------------------------------------------------------
(* Tenants *)

(* _find_tenant: the place of the first tenant with the id, 0 for none.    *)
FindTenant(list, id) == SelectInSeq(list, LAMBDA t : t = id)

Exists(id) == FindTenant(tenants, id) # 0

(* The references to tenants, and those whose tenant was there when they   *)
(* were made.                                                              *)
References ==
  {<<s, schemas[s]>> : s \in {x \in Schema : schemas[x] # NoTenant}}
    \cup {<<d, docs[Stored(d)].tenant>> : d \in stored}

Remember == sound' = {r \in References' : IF r \in References THEN r \in sound ELSE Exists(r[2])}

(* create_tenant: an id in the body is taken as it is.  (update_tenant     *)
(* puts the id back, and no other field of a tenant is kept here.)         *)
createTenant(id) ==
  /\ Len(tenants) < MaxTenants
  /\ tenants' = Append(tenants, id)
  /\ UNCHANGED <<schemas, docs, stored, summaries, waiting, labels, used, disk, overtaken, torn, reseeded>>
  /\ Remember

(* Fault for Referenced: the templates of schemas only.                    *)
ReferencedBySchema(id) == \E s \in Schema : schemas[s] = id

Referenced(id) == \/ \E s \in Schema : schemas[s] = id
                  \/ \E d \in stored : docs[Stored(d)].tenant = id

(* delete_tenant: the first one of the id goes.                            *)
deleteTenant(id) ==
  /\ Exists(id) /\ ~Referenced(id)
  /\ tenants' = RemoveAt(tenants, FindTenant(tenants, id))
  /\ UNCHANGED <<schemas, docs, stored, summaries, waiting, labels, used, disk, overtaken, torn, reseeded>>
  /\ Remember

(* POST, PATCH and DELETE of a schema: nobody looks for the tenant.        *)
setSchema(s, id) ==
  /\ schemas[s] # id
  /\ schemas' = [schemas EXCEPT ![s] = id]
  /\ UNCHANGED <<tenants, docs, stored, summaries, waiting, labels, used, disk, overtaken, torn, reseeded>>
  /\ Remember

-----------------------------------------------------------------------------
(* Policy templates *)

(* The uuid is a hash of what it is given, so the same for the same name.  *)
UuidOf(d, tenant, name) == <<d, tenant, name>>

Uuid == {UuidOf(d, tenant, name) : d \in Template, tenant \in TenantId \cup {NoTenant, "seeded"}, name \in Name}

ASSUME UuidAssumption == NoUuid \notin Uuid

(* Each policy without a uuid gets one from its seed.                      *)
Filled(doc, seeds, d) ==
  [doc EXCEPT !.policies = [i \in DOMAIN doc.policies |->
     IF doc.policies[i].uuid = NoUuid
     THEN [doc.policies[i] EXCEPT !.uuid = UuidOf(d, doc.tenant, seeds[i])] ELSE doc.policies[i]]]

(* Fault for Backfilled: uuids by position.                                *)
BackfilledByPlace(doc, d) == Filled(doc, [i \in DOMAIN doc.policies |-> ToString(i)], d)

(* _backfill_policy_uuids                                                  *)
Backfilled(doc, d) == Filled(doc, [i \in DOMAIN doc.policies |-> doc.policies[i].name], d)

(* Fault for Synced: the entry that is there is not looked for.            *)
SyncedTwice(list, d, title) == Append(list, [id |-> d, title |-> title])

(* _sync_template_summary                                                  *)
Synced(list, d, title) ==
  LET i == SelectInSeq(list, LAMBDA s : s.id = d)
  IN  IF i = 0 THEN Append(list, [id |-> d, title |-> title]) ELSE [list EXCEPT ![i].title = title]

(* What apply_json_patch makes of a document, op by op: an added policy is *)
(* appended, the first one of a name is renamed or removed.                *)
PlaceOf(doc, name) == SelectInSeq(doc.policies, LAMBDA p : p.name = name)

Fails(doc, o) == \/ o.op = "bad"
                 \/ o.op = "rename" /\ PlaceOf(doc, o.name) = 0

Changed(doc, o) ==
  CASE o.op = "add"    -> [doc EXCEPT !.policies = Append(@, [name |-> o.name, uuid |-> NoUuid])]
    [] o.op = "remove" -> [doc EXCEPT !.policies = IF PlaceOf(doc, o.name) = 0 THEN @ ELSE RemoveAt(@, PlaceOf(doc, o.name))]
    [] o.op = "rename" -> [doc EXCEPT !.policies[PlaceOf(doc, o.name)].name = o.to]
    [] o.op = "title"  -> [doc EXCEPT !.title = o.name]
    [] o.op = "tenant" -> [doc EXCEPT !.tenant = o.name]

ApplyOp(run, o) ==
  IF ~ run.ok \/ Fails(run.doc, o) THEN [run EXCEPT !.ok = FALSE] ELSE [run EXCEPT !.doc = Changed(@, o)]

Running(doc, ops) ==
  LET after[n \in 0..Len(ops)] ==
        IF n = 0 THEN [doc |-> doc, ok |-> TRUE] ELSE ApplyOp(after[n - 1], ops[n])
  IN  after

Applied(doc, ops) == Running(doc, ops)[Len(ops)]

(* _create_template                                                        *)
createTemplate(d, body) ==
  /\ d \notin used
  /\ used' = used \cup {d} /\ stored' = stored \cup {d}
  /\ UNCHANGED <<tenants, schemas, waiting, labels, disk, overtaken, torn, reseeded>>
  /\ docs' = [o \in Live' |-> IF o = Stored(d)
                              THEN [title |-> body.title, tenant |-> body.tenant, policies |-> <<>>]
                              ELSE docs[o]]
  /\ summaries' = Synced(summaries, d, body.title)
  /\ Remember

(* _patch_template, up to the body ...                                     *)
patchFound(h, d) ==
  /\ waiting[h] = Idle
  /\ d \in stored
  /\ waiting' = [waiting EXCEPT ![h] = Stored(d)]
  /\ UNCHANGED <<tenants, schemas, docs, stored, summaries, labels, used, disk, overtaken, torn, reseeded>>
  /\ Remember

(* ... and from there, on the object that was found, stored or not.  What  *)
(* precedes a failing op stays, and then neither the uuids nor the summary *)
(* follow.                                                                 *)
patchBody(h, ops) ==
  /\ waiting[h] # Idle /\ ops \in Batch[waiting[h][1]]
  /\ waiting' = [waiting EXCEPT ![h] = Idle]
  /\ UNCHANGED <<tenants, schemas, stored, labels, used, disk>>
  /\ LET found   == waiting[h]
         d       == found[1]
         current == d \in stored /\ found = Stored(d)
         run     == Applied(docs[found], ops)
     IN  /\ Len(run.doc.policies) <= MaxPolicies
         /\ docs' = [o \in Live' |-> IF o # found THEN docs[o]
                                     ELSE IF run.ok THEN Backfilled(run.doc, d) ELSE run.doc]
         /\ summaries' = IF run.ok THEN Synced(summaries, d, run.doc.title) ELSE summaries
         /\ overtaken' = IF ~ run.ok THEN overtaken ELSE IF current THEN overtaken \ {d} ELSE overtaken \cup {d}
         /\ torn' = IF ~ current THEN torn ELSE IF run.ok THEN torn \ {d} ELSE torn \cup {d}
         /\ reseeded' = IF current /\ \E i \in DOMAIN ops : ops[i].op \in {"rename", "tenant"}
                          THEN reseeded \cup {d} ELSE reseeded
  /\ Remember

(* The summaries but for those of a template.                              *)
Unlisted(list, d) ==
  LET kept[n \in 0..Len(list)] ==
        IF n = 0 THEN <<>> ELSE IF list[n].id = d THEN kept[n - 1] ELSE Append(kept[n - 1], list[n])
  IN  kept[Len(list)]

(* _delete_template: known or not, the answer is {}.                       *)
deleteTemplate(d) ==
  /\ stored' = stored \ {d}
  /\ UNCHANGED <<tenants, schemas, waiting, labels, used, disk, torn, reseeded>>
  /\ docs' = [o \in Live' |-> docs[o]]
  /\ summaries' = Unlisted(summaries, d)
  /\ overtaken' = overtaken \ {d}
  /\ Remember

(* _get_template_objects by name, and by uuid: the first that matches.     *)
Called(name) ==
  {x \in stored \X (1..MaxPolicies) :
     LET policies == docs[Stored(x[1])].policies IN x[2] \in DOMAIN policies /\ policies[x[2]].name = name}

Resolved(uuid) ==
  LET doc == docs[Stored(uuid[1])]
      i   == IF uuid[1] \in stored THEN SelectInSeq(doc.policies, LAMBDA p : p.uuid = uuid) ELSE 0
  IN  IF i = 0 THEN "nothing" ELSE doc.policies[i].name

(* ndo_schema_template_bd_dhcp_policy: a label for the policy of a name, in *)
(* place of the one the bridge domain had.                                  *)
bindLabel(name) ==
  /\ \E x \in Called(name) :
       LET uuid == docs[Stored(x[1])].policies[x[2]].uuid
       IN  /\ uuid # NoUuid
           /\ labels' = {[name |-> name, uuid |-> uuid]}
  /\ UNCHANGED <<tenants, schemas, docs, stored, summaries, waiting, used, disk, overtaken, torn, reseeded>>
  /\ Remember

-----------------------------------------------------------------------------
(* Files.  The guard of sim_load, which refuses a file or lets it through  *)
(* and changes nothing by itself, is in SiteControl.                       *)

Snapshot ==
  [tenants |-> tenants, schemas |-> schemas, docs |-> [d \in stored |-> docs[Stored(d)]],
   summaries |-> summaries, labels |-> labels,
   overtaken |-> overtaken, torn |-> torn, sound |-> sound]

(* sim_save: deep copies of the fields.                                    *)
simSave(f) ==
  /\ saved' = [saved EXCEPT ![f] = Snapshot]
  /\ UNCHANGED <<tenants, schemas, docs, stored, summaries, waiting, labels, used, loads, overtaken, torn, reseeded>>
  /\ Remember

(* sim_load: deep copies again, into the state the routes look at.  A      *)
(* PATCH that waits goes on holding the object it found.                   *)
simLoad(f) ==
  /\ saved[f] # NoFile
  /\ loads < MaxLoads /\ loads' = loads + 1
  /\ stored' = DOMAIN saved[f].docs
  /\ UNCHANGED <<waiting, used, saved, reseeded>>
  /\ docs' = [o \in Live' |-> IF o[2] = loads' THEN saved[f].docs[o[1]] ELSE docs[o]]
  /\ tenants' = saved[f].tenants /\ schemas' = saved[f].schemas
  /\ summaries' = saved[f].summaries /\ labels' = saved[f].labels
  /\ overtaken' = saved[f].overtaken /\ torn' = saved[f].torn /\ sound' = saved[f].sound

-----------------------------------------------------------------------------

(* The topology's tenants have a schema each; here it has one tenant.  The *)
(* seeded template names no tenant, and the uuid of its policy was not     *)
(* made from its name.  The summaries of schema templates, which nothing   *)
(* but a DELETE of their ids ever touches, are left out.                   *)
Init ==
  LET policy == [name |-> SeededName, uuid |-> <<Seeded, "seeded", SeededName>>]
  IN  /\ tenants = <<SeededTenant>>
      /\ schemas = [s \in Schema |-> SeededTenant]
      /\ stored = {Seeded} /\ used = {Seeded}
      /\ docs = [o \in {<<Seeded, 0>>} |-> [title |-> SeededName, tenant |-> NoTenant, policies |-> <<policy>>]]
      /\ summaries = <<[id |-> Seeded, title |-> SeededName]>>
      /\ waiting = [h \in Handler |-> Idle]
      /\ labels = {policy}
      /\ loads = 0 /\ saved = [f \in File |-> NoFile]
      /\ overtaken = {} /\ torn = {} /\ reseeded = {Seeded}
      /\ sound = {<<s, SeededTenant>> : s \in Schema}

Next ==
  \/ \E id \in TenantId : createTenant(id) \/ deleteTenant(id)
  \/ \E h \in Handler : (\E ops \in UNION Range(Batch) : patchBody(h, ops)) \/ (\E d \in stored : patchFound(h, d))
  \/ \E s \in Schema, id \in TenantId \cup {NoTenant} : setSchema(s, id)
  \/ \E d \in Template, body \in Posted : createTemplate(d, body)
  \/ \E d \in used : deleteTemplate(d)
  \/ \E name \in Name : bindLabel(name)
  \/ \E f \in File : simSave(f) \/ simLoad(f)

Spec == Init /\ [][Next]_vars

-----------------------------------------------------------------------------
(* Properties *)

(* A template that is stored is listed once, under its own name unless its *)
(* latest PATCH failed half-way or one came late, and one that is listed   *)
(* is stored unless a PATCH came late: the document and the summary are in *)
(* two places, and every write, a load included, has to reach both         *)
(* (_sync_template_summary, _delete_template, apply_ndo).  A PATCH is late *)
(* if, while it waited for its body, its document was deleted or replaced  *)
(* by a load; what it wrote is put right by the next PATCH of the template *)
(* that stands, its DELETE, or a load.                                     *)
SummariesExact ==
  /\ \A d \in stored :
       /\ Cardinality({i \in DOMAIN summaries : summaries[i].id = d}) = 1
       /\ d \notin torn \cup overtaken => [id |-> d, title |-> docs[Stored(d)].title] \in Range(summaries)
  /\ \A i \in DOMAIN summaries : summaries[i].id \in stored \cup overtaken

(* A label goes on meaning the policy it was bound to, also when that was  *)
(* removed and added again in between or both were loaded, as long as      *)
(* there is a policy of the name and nothing went into its uuid that has   *)
(* changed; and only a template torn by a failing PATCH holds policies     *)
(* that no label can be bound to (_backfill_policy_uuids,                  *)
(* _get_template_objects).                                                 *)
LabelsResolve ==
  /\ \A l \in labels :
       LET d == l.uuid[1]
       IN  d \in stored \ (reseeded \cup torn) /\ PlaceOf(docs[Stored(d)], l.name) # 0 => Resolved(l.uuid) = l.name
  /\ \A d \in stored \ torn : \A p \in Range(docs[Stored(d)].policies) : p.uuid # NoUuid

(* A tenant that was there when a template began to refer to it is there   *)
(* as long as the reference is, whichever plane of templates holds it,     *)
(* whatever was waiting and whatever was loaded: the guard of              *)
(* delete_tenant looks at both planes, and a load replaces the tenants     *)
(* with what refers to them.                                               *)
ReferencesHold == \A r \in sound : Exists(r[2])
=============================================================================
