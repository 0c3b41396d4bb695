# A formal model of aci-sim

aci-sim simulates the REST surface of a Cisco ACI fabric: one APIC per site and
one Nexus Dashboard Orchestrator (NDO).  Everything runs in one Python process,
on one asyncio event loop, and all state is in memory.  This directory holds
TLA+ modules for the parts of the simulator that decide what its state is, the
TLC configurations that model-check them on small instances, and theorems about
them with proofs checked by TLAPS.

`X.tla` is a model of a component, `MCX.tla` and `MCX*.cfg` are its instances
for TLC, and `X_proofs.tla` holds its theorems.  Operators called "Fault for D"
stand directly before a definition D: each is D with a plausible bug, and is not
part of the model.  They show that the property named for them in
`PROJECT.json` would notice.

    tlc -config MCSiteControl.cfg MCSiteControl
    tlapm Site_proofs.tla

## 1. Inventory

### The parts and how they meet

                 clients (Ansible, scripts, browsers, sim-state.sh)
            REST |            | websocket                | REST
    +------------v------------v-------------+   +--------v-------------------+
    | rest_aci  (one app per site)          |   | ndo (one app)              |
    |   auth ---- subscriptions <---notify--+   |   schemas, tenants,        |
    |   GET -> query engine, filters     |  |   |   policy templates, task   |
    |   POST, DELETE -> writes ----------+  |   |     | deploy / undeploy    |
    | control  (/_sim)                   |  |   | control (/_sim save, load) |
    |   reset snapshot reload save load  |  |   +-----|----------------------+
    +------------------|-----------------|--+         |
                       v                 v            v
                 mit: one MITStore per site <---------+
                       ^
       build <--- topology (topology.yaml, validated)

Calls are plain function calls in one thread.  A route is atomic except where
it awaits: the request body, and the accept, receive and send of a websocket.
There is no lock anywhere, so what is read before an await may be stale after it.

| component | source | state it keeps | operations |
|---|---|---|---|
| Managed Information Tree | `mit/` | `_by_dn` (DN -> MO, in insertion order), `_children` (DN -> child DNs, also for DNs without an MO) | `add`, `upsert` (merge, or remove a subtree with `status="deleted"`), `delete`, `get`, `children`, `subtree`, `by_class` |
| sessions | `rest_aci/auth.py` | `_sessions`: token -> expiry | login, refresh, logout, `require_session` (a certificate cookie is a session too) |
| subscriptions | `rest_aci/subscriptions.py`, `app.py` | `_subscriptions`: id -> token, scope, expiry; `_connections`: token -> queue; a handler with a pump task per websocket | subscribe, refresh, notify, register, drop; connect, pump, close |
| MO writes | `rest_aci/writes.py`, `validators.py`, `app.py` | none of its own | plan, validate, commit, react (switch registration, L3Out BGP session), report, push; DELETE |
| queries | `query/` | none | class, MO and node-scoped queries, filters, nesting, paging |
| site control plane | `control/admin.py`, `persist.py` | `ApicSiteState`: topology, store, baseline; `_snapshots` in memory; save files | reset, snapshot, restore, reload, save, load, add-leaf, remove-leaf |
| NDO | `ndo/app.py`, `patch.py`, `model.py` | `NdoState`: schemas three times (details, summaries, policy records), tenants, policy templates and their summaries, audit records | CRUD of schemas, tenants, templates; JSON patch; save, load |
| NDO checks and deploy | `ndo/service_graph_validation.py`, `deploy_mirror.py` | none (reads and writes the sites' stores) | two validators, deploy, undeploy |
| topology | `topology/` | none | load and validate topology.yaml |
| builders | `build/` | none | fill a store from a topology |
| runtime, CLI, graph, scripts | `runtime/`, `cli.py`, `graph.py`, `scripts/` | none | start the servers; wizard; rendering; save or restore every plane |

### What is hard, and what makes each part correct

* **mit.** Two dictionaries are kept in agreement by hand, over partial trees: a
  DN can have children without having an MO (a stub), and lose its MO and keep
  its links.  Correct means: the index says what the DNs say, a walk returns
  exactly the MOs with that prefix, a removal takes all of them, insertion
  order survives (it is the order of every listing), a save brings all of it back.
* **sessions, subscriptions.** Expiry is lazy, so what comes first after a
  deadline matters; two sockets of one token overlap in a reconnect; the pump, the client
  and the teardown interleave.  Correct means: no event to the wrong client, no
  event lost, repeated or reordered on a socket that stays open, nothing
  expired or logged out comes back, every queued event arrives or its socket ends.
* **writes.** A body is a tree; it is validated as a whole, but the nodes are
  committed one by one, each seeing what its predecessors did, and the
  reactions see the result.  Correct means: a malformed body changes nothing,
  the response says what changed, posting again is idle, reactions do not
  depend on the order of siblings, a DELETE tells all subscribers.
* **site control.** A store outlives what it was built from: the topology file
  changes, code is pulled, the process restarts, saves are loaded.  Correct means:
  reset brings back what is loaded, no fabric of other code comes in without
  `force`, the fabric is consistent after switches come and go.
* **ndo.** PATCH looks a document up, awaits the body, then writes to what it
  found.  Correct means: the three records of a schema agree, the summary of a policy template
  follows its document, what is referred to (tenants, policies) is not deleted or exchanged under the reference, and a refused
  PATCH leaves no trace.  The ops of a PATCH find objects by name, by reference and by place in documents
  that are normalised and mirrored behind the client's back: each must change the object it means and no other.  The two
  service graph rules must hold of every document that PATCHes can make.
  A deploy writes into other components' stores and an undeploy must
  take back what it should and no more.
* **queries** walk child lists and hoist over stubs.  Correct means: they answer what DN prefixes, classes and the filter
  say; a filter is parsed without a part of it being passed over; pages of a listing that others change miss nothing that
  a client can rely on.
* **topology, builders** are pure.  Correct means: they accept what the rest of the
  program can bear (topology), one builder finds what another has put (builders).

`PROJECT.json` lists, under "hazards", the lines where this bites, each with
the property that watches it, or why there is none yet.

## 2. Modules

Built in this order, the store first because all else stands on it:

| module | models | uses | state |
|---|---|---|---|
| `MITAbstract` | what a store promises: a prefix-closed map | | done |
| `MITStore` | `mit/store.py`, the replay of `persist.py` | refines `MITAbstract` | done, proved |
| `Subscriptions` | `auth.py`, `subscriptions.py`, the websocket of `app.py` | | done, proved |
| `ApicWrite` | `writes.py`, the POST and DELETE routes | `INSTANCE MITStore` | done, proved |
| `SiteControl` | `admin.py`, `persist.py`, switch registration, cabling | | done, proved |
| `NdoSchemas` | the schema routes of `ndo/app.py` | | done, proved |
| `DeployMirror` | `deploy_mirror.py`, the task route: templates into the sites' stores | the map of `MITAbstract` | done, proved |
| `NdoPatch` | `patch.py`, `service_graph_validation.py`: documents as trees under the ops of PATCHes | | done |
| `NdoTenants` | tenants and policy templates of `ndo/app.py` | | done, proved |
| `Query` | `query/engine.py` and the GET routes, over a store that is being written | `EXTENDS MITStore` | done, proved |
| `Filter` | `query/filters.py`: the parser and what a filter says of an MO | | done, proved |
| `Iteration` | nothing: lemmas about least elements, induction, loops | | proved |
| `Topology` | the validation rules of `topology/schema.py` | | planned |
| `Planes` | `sim-state.sh` over NDO and sites, crash of a save | `SiteControl`, `NdoSchemas` | planned |

### MITStore

`store.mo` is `_by_dn`, `store.kids` is `_children`, `store.before` is the
insertion order of the dictionary (a pair says which came first; replacing or
merging an MO keeps its place).  A DN is the sequence of its RNs; the bracket-aware
text splitting of `dn.py` is not modelled.  A key with an empty list and an
absent key of `_children` are the same for every reader and are the same here.
An MO is a class and one attribute, `Unset` when a partial upsert does not carry it.

`add`, `addTree`, `upsert`, `upsertTree`, `delete` are the public mutators, on a
single MO and on one with a nested child; `Register`, `RemoveSubtree`, `AddOne`,
`UpsertOne` are the private methods they call.  `Children`, `Subtree` are the reads.
`Reach` is what the recursion of `_remove_subtree` visits: the DNs that are in every set around the root that is closed under the child lists.

### Subscriptions

The three process-wide dictionaries, and one handler per websocket, split at
its awaits: `wsOpen` up to `accept`, `wsRegister` after it, `pumpGet` and
`pumpSend` around `queue.get` and `send_json`, `clientClose`, and `wsTeardown`
for the `finally` block.  Lifetimes count down with `Tick`; a lifetime of 0 has expired but is
still in its dictionary, as in the code.  `notify` is one call of that function; a POST or DELETE
makes one for each MO it reports.

### ApicWrite

A body is the sequence of its nodes in the order the code visits them, each
with the place of its parent.  `flaw` says what is wrong with a node: its shape, a value,
or an attribute that the MO constructor cannot take.  `DnOf`, `Planned`, `Accepted`,
`Commit`, `React`, `Reported` and `PushesOf` are the phases of a POST in their order;
`post`, `postRefused`, `postRaised` and `deleteMo` are the routes and their ways out.
`CommitNode` is one turn of the loop of a commit; `RegisterNodes` and `RegisterPeers` are the two loops of `apply`, which
run one after the other over the results of the whole commit (`IsNode` and `IsPeer` are what they react to).
The RN table, the class defaults and the validators are sampled by the constants.
A BGP session's entries are one MO here; ports, links and neighbours of a registered switch are in `SiteControl`.

### SiteControl

One site.  A store is its fabric: nodes, links and what each node sees on its ports,
with `ver` and `topo` remembering which code and topology built it, and `excused` that it came back without a comparison of versions (history, not
in the code).  `file` is topology.yaml, `code` the version on disk, `running` that of the process and `version` what the process found out about
it at its start: that, or `Unknown`.  `site` is `state.topo` and `state.site`; the file may hold a topology of `Unbuildable`, which the loader accepts and
`build_site` raises for (`build/overlay.py:115-120` does, on `fabric.evpn_rr`): then `reloadRaised` has replaced `site` alone.
Actions: the routes of `/_sim`, the operator's
`editTopology` and `upgrade`, `restart` (which needs a topology that can be built), and `register` and
`removeLeaf`.  `Compatible` is the guard of a load, with `Unverifiable` for its escape.  Left out: ISN adjacencies, hardware inventory,
and a reload whose file no longer has the site (refused with 400, no change).

### NdoSchemas

A schema is kept as its document, its summary and its policy record.  Documents
are dictionaries that a waiting PATCH goes on referring to after the store has
let go of them, so they have identities (`Ref`): `details` refers to `obj`.  A document is the names
in its templates list, which is what the summary repeats.  `patchFound` is `patch_schema` up to
`await request.json()`; `patchNothing`, `patchFast` and `patchGated` are the three continuations.

### DeployMirror

`design` is the document of each template (schema and name) together with its site entries, `policies` the
DHCP relay policies of each tenant, `store` the sites' stores: the DNs that have an MO, each with what a client
wrote on it.  The class of an MO is the prefix of its RN.  That a removal takes everything below a DN is the
refinement proved in `MITStore_proofs`, so no child index is needed here.  `Deployed` and `Undeployed` are
`mirror_template_to_sites` for one site.  As no two of its writes meet, their order is kept only
where it matters: stale labels and whole EPGs are cut, then everything is merged, then
`Pruned` drops the relays that no label on the site names.  `deploy`, `undeploy` and `taskIgnored` are the task route,
with the schema of the request or the scan when there is none; the other actions
are what changes a document, a policy or a store between two tasks.  Init is an NDO without
templates.  `edit` stands for all that can change a document (PATCH, DELETE, load), atomically, since the
task route reads documents after its only await.

### NdoPatch

One schema, as the JSON tree it is: a dictionary, a list or a scalar.  `Descend` is `_resolve_container`,
`FindByName` and `FindShadow` the two searches, `StringifyRefs` the rewriting of references,
`Normalize...` the defaults, `Mirror` and `EnsureShadow` the shadows in the site entries, `EditList` and `EditDict` the ends of an op,
`ApplyJsonPatch` the loop, which stops at the op that fails.  `patchInPlace` and `patchOnCopy` are the two paths of
`patch_schema`, the second with `MissingDevices` and `Uniform`, the rules of the service graph.  The requests come from
clients that follow the `cisco.mso` modules: they look for an object before they append it (not for shadows, which they
do not know of) and address objects by name; `playbook` chooses one of four sets of such requests.
`devices` is what the sites' APICs have.  Left out: `schemaId` in references, JSON null, requests by list index (section 6).
A value `"bad"` stands for whatever `NDO_RULES` refuse.  The awaits are in `NdoSchemas`; here a PATCH is one step.

### NdoTenants

Tenants are a list of ids, as only the first of an id is ever found.  `docs` holds the document objects that are stored or that a waiting PATCH has
found.  An object is named by its template and the number of loads before it (`Stored`), as a load replaces all of them by copies.
`patchFound` and `patchBody` are `_patch_template` before and after its
await, and `patchBody` writes to the object that was found also when it is no longer stored, because of a DELETE or a load; the summary it then
renames, or lists again, is that of the id.  `simSave` and `simLoad` copy the fields of `NdoState` out and back in (`Snapshot`);
the guard of `sim_load`, which changes nothing by itself, is that of `SiteControl`.  A restart of the NDO process begins again at Init and is not an action.  A uuid is what its hash is taken
of.  `setSchema` stands for all schema routes, which never look for the tenant.  `bindLabel` is the client that
reads a policy's uuid and puts it on a bridge domain; one label is followed, as labels do not know of each other.
`overtaken`, `torn`, `reseeded` and `sound` are history.  Left out: the fields of a tenant besides its id (PUT changes nothing else),
and the summaries of schema templates.

### Query and Filter

A store from `MITStore`, written to by `write` and `remove` between requests.  `Roots`, `Scope`, `Entry` and `Answer` are
`run_class_query`, `run_mo_query`, `run_node_scoped` and `_build_result` with its nesting, hoisting and paging.
A nested answer is the list of its nodes in document order, each with the entry it is in; `Emitted` is one turn of the
loop of `_nested_children`, `Nesting` the loop.  `listing` is a client that turns pages
until one is short, while others write: `kept` and `lost` record what stayed in the listing and whether something left it.

What a filter says is a parameter of `Query` (`FilterFails`, `FilterHolds`): an engine that takes any predicate answers right for
every one that a filter can be.  `Filter` has the parser, recursive descent over tokens.  Its calls are a function of places: `Chart` has for
each position what `_parse_expr` (`Expression`) and the loop over its arguments (`Arguments`) find there - whether there is an error, where it ends, and the
positions of its arguments - and `Holds` the predicate that is made of it, so `args` and `Predicate` together are the closures of the code.
A client writes filters from the inside out: `compare` writes a comparison, `openList` and `closeList` an `and` or an `or`, `addArgument` puts what is complete
into the innermost open list; it keeps in `means`, and for open lists in `all` and `any`, the objects it has in mind.  A `slip` leaves one token
out, exchanges one or puts in one too many.  `MCQuery` extends both modules, and gives `Query` the `Pred` and `Malformed` of `Filter` as parameters.

## 3. Runs

| run | bounds | distinct states | what it shows |
|---|---|---|---|
| `MCMITStore` | 5 DNs in 3 levels, 1 class, 1 value | 7,926 | the index, the walks, order, replay; refinement of `MITAbstract` |
| `MCSubscriptions` | 2 tokens, 2 handlers, 2 subscriptions, 2 pushes, lifetimes 2 and 1 | 1,090,347 | every interleaving of routes, handlers and clock |
| `MCSubscriptionsLive` | 1 token, 2 handlers, 1 subscription, 2 pushes | 3,089 | `PushesArrive` under fairness |
| `MCApicWrite` | 21 tenant bodies over 4 DNs, 4 registrations, 6 bodies over an L3Out with peer, ASN and vrf; 5 deletable DNs | 369 stores | commit, report, push, both reactions |
| `MCSiteControl` | 2 topologies and an unbuildable one, 1 registrable id beside `add-leaf`, 1 name, 2 versions, known or not, 2 changes | 1,031,388 | the life of a site |
| `MCNdoSchemas` | 2 schemas, 2 PATCHes, templates list of at most 1 name, 5 op batches | 33,314 | the schema store |
| `MCDeployMirror` | 2 sites, 2 tenants, 3 templates with 4 documents, 1 policy, 3 client DNs | 30,336 | deploys and undeploys |
| `MCQuery` | 5 DNs in 4 levels, stubs, queries of all kinds, 4 of them paged, pages of 1 and 2; filters of 2 comparisons, at most 2 open lists and 16 tokens, one slip in each, 3 objects | 86,177 | queries, filters, pages |
| `MCNdoPatch` | 4 playbooks of ops and batches over 1 or 2 templates, 1 or 2 sites, 2 devices | 24,959 | the content of PATCHes |
| `MCNdoTenants` | 2 tenant ids, 2 tenants at a time, the seeded template and one more, 2 policies each, 1 waiting PATCH, 1 file, 1 load | 1,237,711 | references, summaries, uuids |

Two more runs, `MCSubscriptionsKept` and `MCSiteControlUnknown`, have counterexamples (section 6).

**Why these bounds.**
The tree of `MCMITStore` has a stub with two children, a sibling beside it, and three levels, which is the least
at which a removal can miss a grandchild and a replay can rebuild an
intermediate; its theorems cover all other trees.
In `MCSubscriptions` two handlers of one token overlap (the reconnect), two
handlers of different tokens do not mix, the ids run out of order with expiry (2 subscriptions, lifetime 1), and two pushes can be reordered or given twice;
sessions outlive subscriptions by a tick, so that each can expire first.  `t2` has certificate
cookies.
`MCApicWrite` has bodies that delete and rewrite the same DN or below it, write what they then delete, stubs, each flaw at depth one and
two, a default to lay under, and both values against it.  The three worlds (tenant, registration, L3Out) do not touch, and the constraint
`OneAtATime` explores one at a time.  Since no request depends on the one before it, states are told apart by the store alone (`StoreOnly`);
every request is still tried, and its answer checked, in every store.
In `MCSiteControl` the id of a leaf of both topologies can be registered by a client, and that of the second topology's border leaf is
one `add-leaf` hands out, so a switch can be there from boot, registered, or both; with two changes a switch can be
registered and removed, registered twice, or two can be registered.  Two
versions, the version 0 of saves without a stamp and the unknown one are all that a comparison tells apart; a third version behaves like the second.  Nothing about the
fabric depends on versions, so `OneAtATime` has switches come and go or versions differ, not both in one behaviour.  The unbuildable topology is the larger one in another form.
In `MCNdoSchemas` two PATCHes suffice for one to overtake the other while a
DELETE, a load or a third request (by a finished PATCH's slot) comes between; a list of
one name tells a summary that is up to date from a stale one.
In `MCDeployMirror` two templates of one tenant label BDs with the same policy, which is the least at which one can
take what the other needs; one has two documents, so that a redeploy finds leftovers, and is on two
sites; the third has the name of the first and another schema and tenant.  A client writes on a BD and posts the relay itself, or something below it when it is not there.
In `MCQuery` the tenant and a bridge domain can be stubs, also one below the other, so that hoisting happens over more than one level;
pages are shorter than the listings, so that a write can come between two; filters nest a list in a list, the least at which a position
can get out of step, and 16 tokens are two comparisons in such lists.  `MCNext` composes filters while the store is still as at the start: the two machines do not meet.
In `MCNdoPatch` each playbook has the objects that can be taken for one another: `bds` two sites and names in
references of both spellings, `anps` EPGs of one name under two profiles, `redirects` a contract of one name in two
templates, `graphs` devices of one name on two sites.  A document grows until all its objects are there; nothing else bounds it.
In `MCNdoTenants` two tenants of one id, or of two, fit; two policies are the least for one to take another's
place; one waiting PATCH is overtaken by any route, a load included, a second would wait in the same way.  Once there is a file the rest is smaller
(`SmallWithFile`: one tenant, one policy, no rename, and the file is from when the tenant was there), as what a load can disturb
is one waiting PATCH, one summary and one label; the theorems have no such bound.

**Deadlock** is checked everywhere.  **Symmetry** is used for handlers, PATCH slots and document identities,
in runs without liveness properties only.

**Fairness** is assumed in `MCSubscriptionsLive` alone: weak fairness of `pumpGet`,
`pumpSend` and `wsTeardown`, which is that the event loop resumes a coroutine whose await is over.  For `send_json` it also
says that the client reads or closes; against one that does neither the code has no timeout, and the
property would not hold.  Nothing is assumed of logins, writes, or the client closing.

**History variables** (`owner`, `pushes`, `excused`, `changes`, `disturbed`, `overtaken`, `torn`, `reseeded`, `sound`, the client's `listing`, and `ver`, `topo` in a store)
record the past for a property or bound it, and no guard that models code reads them.

## 4. Properties

* `IndexInv`, `RoundTripExact`, `NoReordering`, `AbsSpec` (MITStore).
* `RegisteredAlive`: a connection entry leads to an unfinished handler of its token.
  `EventsForOwner`: nobody hears of a subscription of another token.
  `InCommitOrder`: in order, and once per token.  `PushComplete`: exactly the live matching subscriptions are named.
  `ExpiredStaysExpired`, `LogoutIsFinal`: the past stays past.  `PushesArrive`: the one liveness property.
* `MalformedUntouched`, `ReportTruthful`, `RepushIdle` (Ansible's second run is green), `ReactionsFire`,
  `DeletePushExact` (ApicWrite).  `MirrorFollows`: a client that replays the reported statuses in their order has the MOs of the store, also
  after bodies whose nodes meet (a DN written twice, deleted after it was written, written below one that is deleted); what hangs below a stub
  that is deleted goes unreported and is excepted (`Unsaid`).  `Plain` restricts two of them to bodies that do not write one DN twice or write below a DN they delete: for the others a
  status is about a moment inside the call.  Below `topology` the reactions write as well: `ReportTruthful` excepts MOs there, and
  `RepushIdle` is about bodies that write none there (`Configures`), since a body that deletes what its own
  reaction makes is never at rest.
* `BaselineIsBoot`: a reset brings back a whole fabric as the running code builds it, of the site's topology unless a reload raised half-way.
  `NoForeignBuild`: what another version of the code built is only there if it was forced in, or came from or into a process whose version is unknown; a save that is loaded
  that way and saved again carries the stamp of the process, and `excused` follows it.
  `SeenIsLinked`, `FullMesh`, `AutoIdFresh` (SiteControl).
* `DetailBacked`: whatever overtakes what, a schema that can be fetched is listed once, with its record, in a document of its own.
  `QuietExact`: and unless a PATCH was overtaken or failed half-way on the fast path, what is listed is what can be fetched (NdoSchemas).
* `RelaysFit`: a task loses no relay that a label names and leaves none that nobody names.
  `HistoryFree`: a deploy gives the same EPGs and labels whatever was deployed before.  `UndeployUndoes`: an undeploy is
  the inverse of the deploy, but for what clients had stranded below a relay policy that only the deploy brought.  `OthersKept`: other templates' objects and clients' values survive (DeployMirror).
* `RequestsMean`: what a PATCH does to the set of named objects is what its ops mean, one after the other, up to the one
  that fails, the shadows in the site entries included.  `ShadowsUnique`: one shadow per object and entry.  `RedirectsUniform`: an
  accepted redirect is on every site of the contract, and a refusal has a reason in that very template.
  `DevicesWereThere`: no graph is bound to a device that its site does not have (NdoPatch).
* `SummariesExact`: a stored policy template has one summary, with its title unless its latest PATCH failed half-way or one came late, and no other is listed but by a PATCH that
  came late.  Late is one whose document was deleted or replaced by a load while it waited; the next PATCH, DELETE or load puts it right.
  `LabelsResolve`: a label goes on meaning the policy it was bound to.  `ReferencesHold`: a tenant is there as long as a reference to it is, through deletions and loads (NdoTenants).
* `AnswerExact`: the walks answer what prefixes, classes and filters say, flat, nested and in pages.
  `PagesExact`: what turning pages under writes still guarantees (Query).
  `FilterExact`: in what the parser accepts each token belongs to exactly one expression, commas aside, and what the grammar writes is accepted and means
  what was meant (Filter).

The type invariant of `Subscriptions` is checked by its own run; it is proved, as are those of `MITStore` (`TypeCorrect`) and `SiteControl` (`ControlTypeCorrect`); in the other modules TLC fails on a value of the wrong kind by itself.

## 5. Proofs

All theorems are of the specification, for every value of its constants that
meets the module's `ASSUME`s.

**`Iteration`** - what the other modules need for loops.  The library's induction theorems take a predicate, which the
provers cannot instantiate, so `BoundedInduction` speaks of the set of those numbers that have it.  A loop of the code
is a recursive function of the number of turns taken; such a definition says nothing until a function that meets it is
known to exist, and `LoopExists` gives it, by induction on the number of turns, for any step function on a set it stays in.  Each loop of a model has a lemma that applies it (`PlanLoop`,
`CommitLoop`, `RegistrationLoop`, `PeeringLoop`, `ReportLoop`, `WalkedLoop`, `FlattenLoop`), after which it is known by its
two equations, at 0 and at n + 1.  `RecursionExists` does the same for a function that calls itself at several places, as the walks over
child lists do, when the calls go down a measure: it is defined on all that is lower than n, by induction on n.

**`MITStore_proofs`** - `TypeCorrect`, `IndexCorrect`, `Refinement`, `OrderKept`, `RoundTripCorrect`.  `Dn` is any set of
RN sequences closed under parents.  The inductive invariant is `TypeOK /\ IndexInv`; `IndexInv` is inductive because it speaks of stubs too:
whatever has an MO *or children* hangs in its parent's list.  Without the second half an MO below a stub could
be cut off from the root by a legal step.  `RegisterFacts`, `AddOneInv`, `UpsertOneInv` and
`RemoveSubtreeInv` carry it through the private methods, so that the nested calls compose them.  The heart
is `ReachIsBelow` (with `ReachLeast`): the set a removal visits through child lists is the set of DNs with the prefix that
have anything at all.  One inclusion closes the prefix set under children; the other
takes a DN of least length that would be missed (`LeastElement`) and finds it in the list of its parent, which is not missed.  The
refinement follows with `store.mo` for `tree`.  `OrderKept` is the action property from the same invariant: a removal takes one
entry out of one list and empties those of what goes, which leaves the rest in its order.  `RoundTripCorrect` needs one more invariant, `Small` (finitely many MOs,
and children only of DNs of bounded length), without which there is no listing to save (`OrderListed`) and a walk over child lists has no end;
`SubtreeUnfolds` gives the walk its equation (`RecursionExists`, by the length of a DN), `SubtreeSet` says what it finds, by induction on the height that is left.  The replay is a loop over the listing: after n
turns the store has the first n MOs, in their order.
The last section is for `ApicWrite`: a subtree that is `Cleared` stays so through writes elsewhere, and to
remove it again, or to merge what an MO already says, gives the very same store.

**`ApicWrite_proofs`** - `MalformedCorrect`, `ReportCorrect`, `MirrorCorrect`, `RepushCorrect`, `ReactionsCorrect`,
`DeletePushCorrect`: every property of its run, for every set of bodies, of any length, depth and content.  The invariant of the specification is
`Sound` (type, index, `Small`), carried through the commit and through both loops of reactions by the lemmas of `MITStore_proofs`, which are
instantiated a second time and matched by name (`SameNames`, `SameUpsert`, `SameRemove`).  Over it stand loop invariants.
*Results*: every result is that of a planned node and the reverse (`CommitMatches`).  *Report*: after n nodes of a plain
body each result is true of the store before the call and now, and whatever differs is reported or below a deleted DN (`Told`, `CommitTold`); a
reaction changes nothing but below `topology` (`Grown`).  *Mirror*: after n nodes of any body what the client has is what is there, and besides only what is below a DN whose deletion went
unreported (`Followed`, `CommitFollowed`); report and mirror grow by one entry at a time (`ReportAppend`, `MirrorAppend`).
*Peers*: no reaction touches what `VrfOf` reads (`SameOuts`), so the
session of the first peer is still where the last one leaves it.  *Planning*: a node that is not nested in a deleted one is
planned (`PlannedUnlessNested`, by descent along `Around`).
*Posting again*: a node's wish is fulfilled when it has been written, no other node of a plain body takes it back
(`CommitDone`), and a commit of fulfilled wishes is idle (`CommitIdle`).  The reactions need more, since on the way they
may set an MO back that a later one of them sets right (two registrations of one node, say), so one of them repeated is not
idle.  `Again` compares the second run with the first, upsert by upsert: child lists and order are final, and each MO is what it is in
the end or what it was at this place of the first run (`Between`); at the end of the first run both are the same, so the second has
changed nothing (`ReactAgain`).
Its assumptions: bodies are well-formed trees (`BodyAssumption`), the DNs they make up and the MOs of the reactions are in play
(`DnOfAssumption`, `ReactionAssumption`; the latter also says that node DNs are below `topology`, as `build/fabric.py` has them), and those of the store.

**`Site_proofs`** - of `Subscriptions`: `TypeCorrect`, `RegistrationCorrect`, `OwnershipCorrect`,
`ExpiryCorrect`, `LogoutCorrect`, `OrderCorrect`, `PushCorrect`.  The invariants are strengthened with what ties an id to its
owner and keeps ids ahead of the counter unused.  The order of events has an invariant of its own: what a socket got, what
its handler holds and what is queued for it are one ascending sequence, every push is newer than all of it, and a token
that has a connection has one handler reading its queue.  The other action properties need only types and the
definition of each step.

Of `SiteControl`: `ControlTypeCorrect`, `BaselineCorrect`, `SeenCorrect`, `BuildCorrect`,
`AutoIdCorrect`, `MeshCorrect`.  The inductive invariant has `ControlTypeOK`, `BaselineIsBoot` and `AllSound`: soundness (what is seen is
linked, every switch has its uplinks, the controllers are present) must hold of the baseline, of every snapshot and of
every save, since any of them can become the store.  `RegisterSound` and `UnregisterSound` show that switches come and go
without breaking it: a registration takes over ports of spines and of the switch itself, never an uplink of another
(`RegisterMeshed`).  `BaselineCorrect` holds of a failing reload because `BaselineIsBoot` says which topology the baseline is then of; `BuildCorrect` needs that
the baseline and every load that compared versions are of the running code, and that `excused` travels with what it is true of.  `AutoIdCorrect` rests on `HighestId`, that a non-empty bounded set has a greatest element.

**`NdoSchemas_proofs`** - `RecordsCorrect`, `QuietCorrect`.  The inductive invariant also says that the summaries of an id are
never more than one even when no document is there (a ghost that an overtaken PATCH has left is updated, not
doubled, when its id gets a document again), and that what was saved is as sound as what it comes back as.  What the ops make of a
document does not matter to it, so nothing is assumed of `Applied`.  `QuietCorrect` adds the types of documents (`AppliedType`, a
loop over the ops) and that, as long as nothing was disturbed, every id is listed with what can be fetched, in the running store and in the saved one alike:
a load brings the latter back.

**`NdoTenants_proofs`** - `ReferencesCorrect`, `SummariesCorrect`, `LabelsCorrect`.  For the first the inductive invariant adds that whatever is remembered as a reference
still is one, in the running state and in every file: then the guard of `delete_tenant` sees it, and a load brings both back together.  `Found` says what the search of the list returns (the least place exists,
from the well-foundedness of the naturals), `DeleteKeeps` that removing the first tenant of an id leaves every other id.  The other two stand on an invariant about
documents (`DocsIn`: those of a template that was not reseeded have for each policy the uuid of its name, or none yet; those
that are not torn lack none), which the loop over the ops of a PATCH keeps turn by turn (`ChangedKeeps`, `AppliedKeeps`) and the backfill completes.
`LabelsIn` then says that a label holds the uuid its template gives the name, and `SummariesIn` that an id is listed at most
once, each stored template under its title, and otherwise only what a late PATCH wrote.  All three are said of the running state and of every file (`TemplatesOK`, `FilesOK`), and
`HeapOK` says which objects there are: none of a load to come, so that those a load makes are new, and a PATCH that waited across it holds none of them.
`RequestAssumption` says which ops
clients send; that different names hash to different uuids is built into `UuidOf`.

**`DeployMirror_proofs`** - `RelaysCorrect`, `OthersCorrect`, `HistoryCorrect`, `UndeployCorrect`.  The inductive invariant says only that
documents are those of `Design` and that stores hold DNs of the right shape; the work is in the lemmas about places.
Whatever the mirror writes for a template is its tenant, is below one of its objects (`DeclaredFacts`), or is below a
relay policy that one of its labels names (`RelayFacts`); whatever it cuts is below one of its objects (`TakenFacts`), or below a relay
that no label names (`OrphanFacts`).  A relay is an RN below the tenant and a label one below a BD, so neither cut takes the
other's part, and templates without a common object do not meet.  `UndeployCorrect` adds it up: on a
store without objects of the template and without orphans a deploy cuts and prunes nothing (`DeployAdds`), the undeploy's own deletions
take all that was declared but the tenant, so the labels are those there were before, and the orphans are then the relays that only
this template's labels had named (`UndeployBack`).  The attempt found that a client's MO below a relay that was not on the site goes with
them; the property says so now (`Stranded`), and the run has such an MO.

**`Query_proofs`** - `AnswerCorrect`, `PagesCorrect`, for any filter and any set of queries.  The store is that of `MITStore`, whose invariants hold here as well; the work is to
say what a list of MOs holds, with how often and in which order.  For that each entry gets a key: a flat answer those of <<root, MO>>, as one MO
can be in scope of several roots, ranked by the insertion order of the roots and then by where the walk meets the MOs (`Ahead`: one is
below the other, or ancestors of theirs stand in this order in one child list).  `Sorted` says that a list of keys is ascending and complete, `Lists` that
an answer is such a list without its roots.  Both go through concatenation, selection and flattening (`ConcatLists`, `PickedLists`,
`FlattenLists`), so `ScopeLists` follows branch by branch, from `WalkSorted`, which is induction on the height that is left
over the equation of the walk.  `CopiesDue` then counts: places of an MO are keys of it, and keys of it are roots it is in scope of.
*Pages.*  A write takes keys away or adds some and never changes the rank of two that stay (`Changes`, `KeysKept`, `ScopeEmbeds`), and for a class listing new ones come last.
So when nothing leaves, places only grow, and what a client has not seen is still on pages to come; of a class listing places only fall, and what it
has seen is not to come again (`PlaceFalls`).  That is `ReadingInv`, inductive over requests and writes.
*Nesting.*  An entry of the nested list is an MO below the one it is in; its key is the walk's, its place the innermost MO above it
(`Innermost`).  What one child puts into the list is the part of the keys at or below it (`NestPartIs`): if it is a stub
the innermost above them is that of its parent, which is the hoisting, else it is the child itself, which is emitted if anything wanted is at or below it.
`NestedSorted` puts the children together by induction on the height, and `NearestIs` identifies the innermost with what the property calls the nearest.
*Filters* (`FilterCorrect`).  `Chart`, `Nodes` and `Holds` look only at later places, or from a list of arguments at its first expression,
so each has its equation by `RecursionExists` over the height of a place (`ChartUnfolds`, `NodesUnfold`, `HoldsUnfolds`).  That an accepted text is accounted for
is induction from its end to its beginning (`Downward`): what is parsed at a place covers the tokens up to where it ends
(`ExpressionCovered`, `ArgumentsCovered`), each by one expression.  The converse needs no such induction.  `FilterInv` says of
what a client has written that it is read as meant *wherever it stands* in any text (`Reads`, `ReadsList`); this is inductive over the client's
steps, since a list that is closed stands behind its name and parenthesis in every text in which the whole stands (`ClosedReads`), and an argument before the others (`ArgumentReads`).
Assumptions: the values of queries, the class of an MO is that of its DN, the absent filter holds of every MO (`FilterAssumption`), the page limit is positive, what a comparison is made of is tokens, and so are names and punctuation (`ComparisonAssumption`, `TokenAssumption`).

The only assumptions are the named ones on constants.  `DnAssumption` of `DeployMirror` says that clients and builders
put DHCP labels and relay policies where ACI has them, which the POST route does not enforce; `DeployAssumption` says the same of
what a template document contributes.  `BoundAssumption` and
`TopoAssumption` of `SiteControl` say that the node ids of a site are distinct, which `topology/schema.py:667-675` enforces, and
that they lie above those of the controllers, which nothing checks: the ids that the schema generates (101 and up) do, and an
explicit list is assumed to.

**Only model-checked:** liveness (out of the prover's reach), and everything of `NdoPatch`.  A document of
NDO is a tree of any depth, which `StringifyRefs` and the descent along a path take apart by RECURSIVE operators; what
these compute for every tree is an induction over data, which the provers cannot do.  Queries and filters have trees too, but those are DNs in a
store and places in a text, where lengths are numbers to do induction on.

## 6. Where the code and its own words part

Two runs show it, each checking a property that TLC refutes:

| run | what the repository says | what happens |
|---|---|---|
| `MCSubscriptionsKept` | `subscriptions.py:152-153`: one live connection per token, a reconnect replaces the prior queue | the teardown of the replaced socket removes the entry and the subscriptions of its successor |
| `MCSiteControlUnknown` | `persist.py:169-178`: an unverifiable restore is refused, as it may reinstate another build's baseline; an unhashed topology is the one exception | a process that cannot tell its version saves, the code is upgraded, and the next process loads the save without force: `persist.py:189` compares nothing when either version is "unknown".  `tests/test_snapshot_stamp.py:95-99` wants the escape, so it is the docstring that is at odds |

Met while modelling, modelled as the code has it unless an item says otherwise, without a run of their own:

* `persist.py:137`: the fingerprint is taken from the file at the time of the save, so a save between an edit of topology.yaml and the reload names a topology its data never had, and loads under it; `persist.py:70-73` says every load compares.
* `admin.py:101-103`: a reload whose `build_site` raises has already replaced `state.topo` and `state.site`, and leaves the old store and baseline under them: the client gets an error, and switches are cabled by the new topology from then on (`reloadRaised`).
* `persist.py:142-152`: a fabric that was forced in and is saved again gets the stamp of the running code, and loads without force from then on.
* `ndo/app.py:582-598`, `934`: a PATCH of a policy template that waits across a load writes to a document that is no longer stored, is answered with success, and renames the summary of the one that was restored.
* `ndo/app.py:866`: a PATCH that looked its schema up before a DELETE lists it again, and DELETE answers 404 from then on; `ndo/app.py:883-885` says nothing reflects it any more.
* `deploy_mirror.py:507`: an undeploy deletes whole application profiles, with the EPGs of another template of the tenant that uses the name; `deploy_mirror.py:483-485` says "just this template's objects".
* `ndo/app.py:582`, `164`: a PATCH of a policy template, or a PUT of a tenant, that was deleted while the body came is answered with success; the former also leaves a summary without a template.
* `ndo/app.py:552`: a policy that is renamed keeps its uuid, and a new one of the old name then gets the same.
* `ndo/patch.py`: requests that address by list index pass by the mirrors and both service graph rules, a whole-entry or
  whole-contract replace passes by the rules, and so does the device of an entry that the same request creates.  An anp added with
  EPGs inside mirrors only the anp; a site module that appends an anp replaces the shadow with the EPG shadows in it; removing a
  template object leaves its shadows; a site added later gets none.  Index addressing is not modelled.
* `ndo/app.py:849-859`: a PATCH that fails half-way leaves its templates without the collection keys, which `docs/CONTRACT.md:422` says every PATCH fills in.
* `filters.py:19` says an unknown attribute compares false, but `wcard(x.missing,"")` is true (modelled, `Says`); `bw` compares as text when one bound is no number.
* `query/engine.py`: a query of an absent DN answers an empty list before its filter is parsed, however malformed.
* `writes.py:672`: a re-post of a BGP peer without its `bgpAsP` blanks the ASN of its session, which `writes.py:531-533` calls the configured one.
* `writes.py:431`: the spine port is counted from the loaded topology, so a second registered switch gets the port of the first; `writes.py:429-430` says next free slot.
* `ndo/app.py:455`: an undeploy takes a template off all its sites, whichever the request lists; `ndo/app.py:448-450` says "from those sites".
* `deploy_mirror.py:541-604`, `231`, `478`: subnets, filter entries, subjects and relay providers are merged and never removed, and an object that left its template stays on the sites, where an undeploy no longer finds it.
* `deploy_mirror.py:142-160`: a relay policy that a client posted itself, without a label, goes with the next task of its tenant, and so does what a client posted below one that a task has created.
* `persist.py:239-243` replays MOs in insertion order, so the children of a parent that was created late can come back in another order.
* `writes.py:344`: an attribute named `class_name` raises in the middle of a commit; what came before stays (`postRaised`), though `docs/CONTRACT.md:149` has such bodies rejected.
* `writes.py:323-328`: deleting a DN that is a stub is reported as unchanged, though its descendants go.
* `app.py:228`: a nested MO that was modified is pushed as created; `docs/CONTRACT.md:122` distinguishes the two.
* `writes.py:683`: with `rsp-subtree=no` nothing is pushed either, as pushes are made from the response; `README.md:1199-1201` does not except it.
* `writes.py:99`: all `infraPortBlk` of one parent share an RN.
* `admin.py:173-175`: a removed switch leaves its links and is still seen by the spines; `docs/DESIGN.md:144-147` wants nothing free-floating.
* `topology/schema.py:667-675` compares the ids of the switches only, and not with those of the controllers (1 to at most 5): a switch listed with such an id would share its MOs (not modelled: assumed away).

## 7. Not modelled, and what comes next

* **Topology validation** - pure rules over one document; next, as operators checked against what
  the builders need of a topology.  `SiteControl` assumes what matters to it.
* **Value validators** (`validators.py`) - predicates over the text of one attribute; what a failure does is in `ApicWrite`.
* **Most builders** - straight-line code that fills a store once.  Only what one
  relies on from another is worth a model.
* **CLI, graph, GUI-facing constants, certificates, end-to-end scripts** - terminal and process I/O.
* **`save_json`** writes in place; a crash in the middle of it, and a restore that some planes refuse, come
  with `Planes`.
