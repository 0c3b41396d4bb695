---------------------------- MODULE SiteControl ----------------------------
(***************************************************************************)
(* aci_sim/control/admin.py and persist.py, with the node registration     *)
(* reaction of rest_aci/writes.py and the cabling it continues             *)
(* (build/cabling.py, build/fabric.py): the /_sim control plane of one     *)
(* APIC site.  Every route runs in one step once its body is there.  What  *)
(* is hard is the life of the content: which topology file and which code  *)
(* a store was built from, through resets, in-memory snapshots, reloads,   *)
(* saves, loads, upgrades of the code on disk and restarts; and what the   *)
(* fabric of a store looks like after switches come and go at runtime.     *)
(*                                                                         *)
(* A store is abstracted to its fabric: the nodes, the links and the       *)
(* neighbours they see.  ver and topo remember what built it, and excused  *)
(* that it came back without a comparison of versions.                     *)
(***************************************************************************)
EXTENDS Integers, FiniteSets, SequencesExt

CONSTANTS
  Topo,          \* the topologies the file may hold: [spines, leaves, borders]
  Unbuildable,   \* those that load_topology accepts and build_site raises for
  NoFile,        \* the topology file is not readable
  Controllers,   \* the APICs of the site have the node ids 1..Controllers
  Switch,        \* the ids a client registers or removes
  MaxId,         \* bound on the ids that are handed out
  Name,          \* snapshot and save names
  MaxVersion,    \* bound on the versions of the code; 0 predates stamping
  Unknown,       \* the version of a code that has neither pyproject nor metadata
  MaxChange,     \* bound on the registrations and removals of a behaviour
  Absent           \* absent from a dictionary or a directory

ASSUME BoundAssumption ==
  /\ Controllers \in Nat \ {0} /\ MaxId \in Nat /\ Controllers <= MaxId
  /\ MaxVersion \in Nat \ {0} /\ Unknown \notin 0..MaxVersion /\ MaxChange \in Nat
  /\ Switch \subseteq (Controllers + 1)..MaxId

ASSUME TopoAssumption ==
  /\ NoFile \notin Topo /\ Unbuildable \subseteq Topo
  /\ \A t \in Topo : /\ t.spines \in Seq((Controllers + 1)..MaxId)
                     /\ t.leaves \in Seq((Controllers + 1)..MaxId)
                     /\ t.borders \in Seq((Controllers + 1)..MaxId)
                     /\ IsInjective(t.spines \o t.leaves \o t.borders)

VARIABLES
  file,      \* what topology.yaml holds now
  code,      \* the version of the code on disk
  running,   \* the version of the code the process runs
  version,   \* _SIM_VERSION: what it found out about that when it started
  site,      \* state.topo and state.site
  store,     \* state.store
  baseline,  \* state.baseline
  snapshots, \* _snapshots, in memory
  saved,     \* the files under SIM_STATE_DIR
  changes    \* (history) the number of registrations and removals

controlVars == <<file, code, running, version, site, store, baseline, snapshots, saved, changes>>

UPLINK_START == 49

-----------------------------------------------------------------------------
(* The fabric *)

(* cabling_links: spine port by leaf position, leaf uplink by spine position. *)
Downlinks(t) == t.leaves \o t.borders

Cabling(t) ==
  {<<t.spines[s], l, Downlinks(t)[l], UPLINK_START + s - 1>> :
     s \in 1..Len(t.spines), l \in 1..Len(Downlinks(t))}

(* The APICs, dual-homed to the first two leaves. *)
ControllerLinks(t) ==
  {<<c, l, t.leaves[l], c>> : c \in 1..Controllers, l \in 1..(IF Len(t.leaves) < 2 THEN Len(t.leaves) ELSE 2)}

(* build_site, as far as the fabric goes.  A neighbour is written at both  *)
(* ends of a switch link and at the leaf end of an APIC's.                 *)
Boot(v, t) ==
  [nodes |-> 1..Controllers \cup ToSet(t.spines \o Downlinks(t)),
   links |-> Cabling(t) \cup ControllerLinks(t),
   sees  |-> Cabling(t) \cup {<<k[3], k[4], k[1], k[2]>> : k \in Cabling(t) \cup ControllerLinks(t)},
   ver   |-> v,
   topo  |-> t,
   excused |-> FALSE]

(* Fault for Cables: only the first spine is cabled. *)
FirstCable(t, n) == {<<t.spines[1], Len(Downlinks(t)) + 1, n, UPLINK_START>>}

(* materialize_node_registration: the node, and a link to every spine of   *)
(* the site, on a spine port computed from the site as it was loaded.      *)
Cables(t, n) ==
  {<<t.spines[s], Len(Downlinks(t)) + 1, n, UPLINK_START + s - 1>> : s \in 1..Len(t.spines)}

(* add_adjacency: one neighbour per port, adj-1, so a new one replaces it. *)
Seen(sees, new) == {x \in sees : \A y \in new : <<x[1], x[2]>> # <<y[1], y[2]>>} \cup new

(* Fault for Register: the new node sees the spines on the spines' ports.  *)
RegisterCrossed(st, t, n) ==
  [st EXCEPT !.nodes = @ \cup {n},
             !.links = @ \cup Cables(t, n),
             !.sees  = Seen(@, Cables(t, n) \cup {<<n, k[2], k[1], k[4]>> : k \in Cables(t, n)})]

Register(st, t, n) ==
  [nodes |-> st.nodes \cup {n},
   links |-> st.links \cup Cables(t, n),
   sees  |-> Seen(st.sees, Cables(t, n) \cup {<<n, k[4], k[1], k[2]>> : k \in Cables(t, n)}),
   ver   |-> st.ver,
   topo  |-> st.topo,
   excused |-> st.excused]

(* remove_leaf: the subtree of the node goes; links and the neighbour      *)
(* entries of other nodes are outside it.                                  *)
Unregister(st, n) ==
  [nodes |-> st.nodes \ {n},
   links |-> st.links,
   sees  |-> {x \in st.sees : x[1] # n},
   ver   |-> st.ver,
   topo  |-> st.topo,
   excused |-> st.excused]

(* Fault for NextId: the nodes are counted. *)
NextIdByCount(st) == 1 + Cardinality(st.nodes)

(* add_leaf without an id *)
NextId(st) == 1 + CHOOSE n \in st.nodes : \A m \in st.nodes : m <= n

-----------------------------------------------------------------------------
(* Saves *)

(* topology_fingerprint: read when asked, "" for an unreadable file. *)
Fingerprint == file

(* Fault for Wrap: the version is read again for every save. *)
WrapRereading(data) == [ver |-> code, topo |-> Fingerprint, data |-> data]

(* wrap *)
Wrap(data) == [ver |-> version, topo |-> Fingerprint, data |-> data]

(* The two versions are not compared. *)
Unverifiable(doc) == Unknown \in {doc.ver, version}

(* compatibility: a legacy save has ver 0. *)
Compatible(doc) ==
  /\ doc.ver # 0
  /\ doc.ver = version \/ Unverifiable(doc)
  /\ doc.topo = NoFile \/ Fingerprint = NoFile \/ doc.topo = Fingerprint

-----------------------------------------------------------------------------
(* The routes of make_admin_router, and the POST of a fabricNodeIdentP *)

reset ==
  /\ store' = baseline
  /\ UNCHANGED <<file, code, running, version, site, baseline, snapshots, saved, changes>>

snapshot(nm) ==
  /\ snapshots' = [snapshots EXCEPT ![nm] = store]
  /\ UNCHANGED <<file, code, running, version, site, store, baseline, saved, changes>>

restore(nm) ==
  /\ snapshots[nm] # Absent
  /\ store' = snapshots[nm]
  /\ UNCHANGED <<file, code, running, version, site, baseline, snapshots, saved, changes>>

(* Fault for reload: the baseline is left as it was. *)
reloadStoreOnly ==
  /\ file \in Topo \ Unbuildable
  /\ site' = file
  /\ store' = Boot(running, file)
  /\ UNCHANGED <<file, code, running, version, baseline, snapshots, saved, changes>>

(* A file that cannot be read, or has lost the site, is refused before     *)
(* anything has changed.                                                   *)
reload ==
  /\ file \in Topo \ Unbuildable
  /\ site' = file
  /\ store' = Boot(running, file)
  /\ baseline' = store'
  /\ UNCHANGED <<file, code, running, version, snapshots, saved, changes>>

(* build_site raises: state.topo and state.site have been replaced.        *)
reloadRaised ==
  /\ file \in Unbuildable
  /\ site' = file
  /\ UNCHANGED <<file, code, running, version, store, baseline, snapshots, saved, changes>>

save(nm) ==
  /\ saved' = [saved EXCEPT ![nm] = Wrap(store)]
  /\ UNCHANGED <<file, code, running, version, site, store, baseline, snapshots, changes>>

load(nm, force) ==
  /\ saved[nm] # Absent
  /\ force \/ Compatible(saved[nm])
  /\ store' = [saved[nm].data EXCEPT !.excused = @ \/ force \/ Unverifiable(saved[nm])]
  /\ UNCHANGED <<file, code, running, version, site, baseline, snapshots, saved, changes>>

(* add_leaf with an id, or a POST of its fabricNodeIdentP. *)
register(n) ==
  /\ changes < MaxChange /\ changes' = changes + 1
  /\ store' = Register(store, site, n)
  /\ UNCHANGED <<file, code, running, version, site, baseline, snapshots, saved>>

addLeaf ==
  /\ NextId(store) <= MaxId
  /\ changes < MaxChange /\ changes' = changes + 1
  /\ store' = Register(store, site, NextId(store))
  /\ UNCHANGED <<file, code, running, version, site, baseline, snapshots, saved>>

removeLeaf(n) ==
  /\ changes < MaxChange /\ changes' = changes + 1
  /\ store' = Unregister(store, n)
  /\ UNCHANGED <<file, code, running, version, site, baseline, snapshots, saved>>

-----------------------------------------------------------------------------
(* What happens around the process *)

editTopology(t) ==
  /\ file' = t
  /\ UNCHANGED <<code, running, version, site, store, baseline, snapshots, saved, changes>>

upgrade ==
  /\ code < MaxVersion /\ code' = code + 1
  /\ UNCHANGED <<file, running, version, site, store, baseline, snapshots, saved, changes>>

(* The process dies at any point and is started again: run_servers, which  *)
(* does not come up on a topology it cannot build.  _read_version finds    *)
(* the version of the code it loads, or nothing.                           *)
restart ==
  /\ file \in Topo \ Unbuildable
  /\ running' = code /\ version' \in {code, Unknown}
  /\ site' = file
  /\ store' = Boot(code, file) /\ baseline' = store'
  /\ snapshots' = [nm \in Name |-> Absent]
  /\ UNCHANGED <<file, code, saved, changes>>

(* A directory of saves may hold one from before saves were stamped. *)
LegacySave(t) == [ver |-> 0, topo |-> NoFile, data |-> Boot(0, t)]

ControlInit ==
  /\ file \in Topo \ Unbuildable /\ site = file
  /\ code = 1 /\ running = 1 /\ version \in {1, Unknown}
  /\ store = Boot(running, site) /\ baseline = store
  /\ snapshots = [nm \in Name |-> Absent]
  /\ saved \in [Name -> {Absent} \cup {LegacySave(t) : t \in Topo \ Unbuildable}]
  /\ changes = 0

ControlNext ==
  \/ reset \/ reload \/ reloadRaised \/ addLeaf \/ upgrade \/ restart
  \/ \E nm \in Name : \/ snapshot(nm) \/ restore(nm) \/ save(nm)
                      \/ \E force \in BOOLEAN : load(nm, force)
  \/ \E n \in Switch : register(n) \/ removeLeaf(n)
  \/ \E t \in Topo \cup {NoFile} : editTopology(t)

ControlSpec == ControlInit /\ [][ControlNext]_controlVars

-----------------------------------------------------------------------------
(* Properties *)

Link == (1..MaxId) \X Nat \X (1..MaxId) \X Nat

Store == [nodes : SUBSET (1..MaxId), links : SUBSET Link, sees : SUBSET Link,
          ver : 0..MaxVersion, topo : Topo, excused : BOOLEAN]

Saved == [ver : (0..MaxVersion) \cup {Unknown}, topo : Topo \cup {NoFile}, data : Store]

ControlTypeOK ==
  /\ file \in Topo \cup {NoFile} /\ site \in Topo
  /\ code \in 1..MaxVersion /\ running \in 1..code /\ version \in {running, Unknown}
  /\ store \in Store /\ baseline \in Store
  /\ snapshots \in [Name -> Store \cup {Absent}] /\ saved \in [Name -> Saved \cup {Absent}]
  /\ changes \in 0..MaxChange

(* What reset brings back is always a whole fabric, as this code builds it *)
(* from one topology: that of the site, or while the site is one that a    *)
(* failed reload left without a fabric, the one that was built last.  No   *)
(* restore, load, registration or failing reload makes it anything else.   *)
BaselineIsBoot ==
  /\ baseline.topo \in Topo \ Unbuildable
  /\ site \notin Unbuildable => baseline.topo = site
  /\ baseline = Boot(running, baseline.topo)

(* Nothing in the running site was built by another version of the code,   *)
(* not through saves, upgrades of the code on disk, restarts and loads in  *)
(* any order, and legacy saves least of all, unless it came in, then or    *)
(* before it was saved again, by a load that was forced or that one of the *)
(* two versions was unknown to; and apart from that a save says truly what *)
(* built it.                                                               *)
NoForeignBuild ==
  /\ ~ store.excused => store.ver = running
  /\ \A nm \in Name : snapshots[nm] # Absent /\ ~ snapshots[nm].excused => snapshots[nm].ver = running
  /\ \A nm \in Name : saved[nm] # Absent /\ saved[nm].ver # Unknown /\ ~ saved[nm].data.excused
                        => saved[nm].ver = saved[nm].data.ver

(* What persist.py:169-178 says: but for its topology, a save that cannot  *)
(* be verified is refused unless forced, for it might reinstate another    *)
(* build.                                                                  *)
ForeignRefused ==
  [][\A nm \in Name : load(nm, FALSE) /\ ~ saved[nm].data.excused => store'.ver = running]_controlVars

(* Whatever a present node sees on a port, a link says so too, in one of   *)
(* the two directions (docs/DESIGN.md:147), also when switches come and go *)
(* and the store is put back and forth between topologies.                 *)
SeesOnlyLinks(st) ==
  \A x \in st.sees : x \in st.links \/ <<x[3], x[4], x[1], x[2]>> \in st.links

SeenIsLinked == SeesOnlyLinks(store)

(* Every switch that is present, other than the spines, has an uplink to   *)
(* each spine that all topologies have in the same place, and sees it      *)
(* there; whether it was there at boot, registered since, or both.         *)
InPlace(s, spine) == \A t \in Topo : s <= Len(t.spines) /\ t.spines[s] = spine

UpAt(st, n, s, spine) ==
  \E k \in st.links : /\ k[1] = spine /\ k[3] = n /\ k[4] = UPLINK_START + s - 1
                      /\ <<k[3], k[4], k[1], k[2]>> \in st.sees

Meshed(st) ==
  \A n \in st.nodes :
    n > Controllers /\ (\A t \in Topo : n \notin ToSet(t.spines)) =>
      \A s \in 1..MaxId, spine \in 1..MaxId : InPlace(s, spine) => UpAt(st, n, s, spine)

FullMesh == Meshed(store)

(* A leaf that is added without an id is a new node: it is none of the     *)
(* APICs, the switches of the topology, or those registered or brought     *)
(* back by a restore or load.                                              *)
AutoIdFresh ==
  [][addLeaf => Cardinality(store'.nodes) = Cardinality(store.nodes) + 1]_controlVars

=============================================================================
