------------------------- MODULE NdoTenants_proofs -------------------------
(* For any tenants, schemas, policy templates, batches of ops and numbers  *)
(* of requests: tenants stay as long as they are referred to, the          *)
(* summaries of policy templates follow their documents, and a label goes  *)
(* on meaning the policy it was bound to.                                  *)
EXTENDS NdoTenants, SequenceTheorems, FiniteSetTheorems, Iteration, TLAPS

(* What _find_tenant finds in a list of tenants.                           *)
LEMMA Found ==
  ASSUME NEW id, NEW list \in Seq(TenantId)
  PROVE  /\ FindTenant(list, id) # 0 <=> \E i \in 1..Len(list) : list[i] = id
         /\ FindTenant(list, id) # 0 => FindTenant(list, id) \in 1..Len(list) /\ list[FindTenant(list, id)] = id
<1>. DEFINE I == {i \in 1..Len(list) : list[i] = id}
<1>1. FindTenant(list, id) = IF I # {} THEN Min(I) ELSE 0
  BY DEF FindTenant, SelectInSeq
<1>2. I \in SUBSET Nat /\ 0 \notin I
  OBVIOUS
<1>3. I # {} => Min(I) \in I
  BY <1>2, LeastPlace
<1>4. QED
  BY <1>1, <1>2, <1>3

(* The references in a saved state                                         *)
ReferencesIn(s) ==
  {<<x, s.schemas[x]>> : x \in {y \in Schema : s.schemas[y] # NoTenant}}
    \cup {<<d, s.docs[d].tenant>> : d \in DOMAIN s.docs}

SoundFile(s) ==
  /\ s.tenants \in Seq(TenantId)
  /\ s.sound \subseteq ReferencesIn(s)
  /\ \A r \in s.sound : FindTenant(s.tenants, r[2]) # 0

(* Everything that is remembered is a reference still; and it holds, also  *)
(* in the files.                                                           *)
Inv ==
  /\ tenants \in Seq(TenantId)
  /\ sound \subseteq References
  /\ ReferencesHold
  /\ DOMAIN saved = File /\ \A f \in File : saved[f] # NoFile => SoundFile(saved[f])

(* A step without a load looks at the references it finds.                 *)
LEMMA SavedReferences ==
  ReferencesIn(Snapshot) = References
<1>1. /\ Snapshot.schemas = schemas /\ DOMAIN Snapshot.docs = stored
      /\ \A d \in stored : Snapshot.docs[d] = docs[Stored(d)]
  BY DEF Snapshot
<1>2. QED
  BY <1>1 DEF References, ReferencesIn

(* A step keeps the invariant if it keeps the tenants that are referred to *)
(* before and after it.                                                    *)
LEMMA KeepsTenants ==
  ASSUME Inv, Remember, tenants' \in Seq(TenantId), UNCHANGED saved,
         \A r \in References' :
           (\E i \in 1..Len(tenants) : tenants[i] = r[2]) => \E i \in 1..Len(tenants') : tenants'[i] = r[2]
  PROVE  Inv'
<1>1. sound' \subseteq References'
  BY DEF Remember
<1>2. ASSUME NEW r \in sound'
      PROVE  Exists(r[2])'
  <2>1. r \in References'
    BY <1>1
  <2>2. Exists(r[2])
    BY DEF Remember, Inv, ReferencesHold
  <2>3. \E i \in 1..Len(tenants) : tenants[i] = r[2]
    BY <2>2, Found DEF Inv, Exists
  <2>4. \E i \in 1..Len(tenants') : tenants'[i] = r[2]
    BY <2>1, <2>3
  <2>5. FindTenant(tenants', r[2]) # 0
    BY <2>4, Found
  <2>6. Exists(r[2])' <=> FindTenant(tenants', r[2]) # 0
    BY DEF Exists
  <2>7. QED
    BY <2>5, <2>6
<1>3. QED
  BY <1>1, <1>2 DEF Inv, ReferencesHold

(* What sim_save writes is as sound as what it reads.                      *)
LEMMA SaveKeeps ==
  ASSUME Inv, NEW f \in File, simSave(f)
  PROVE  Inv'
<1>1. /\ saved' = [saved EXCEPT ![f] = Snapshot] /\ Remember
      /\ UNCHANGED <<tenants, schemas, docs, stored, loads>>
  BY DEF simSave
<1>2. References' = References
  BY <1>1 DEF References, Stored
<1>3. sound' \subseteq sound
  BY <1>1, <1>2 DEF Remember
<1>4. SoundFile(Snapshot)
  <2>1. Snapshot.tenants = tenants /\ Snapshot.sound = sound
    BY DEF Snapshot
  <2>2. QED
    BY <2>1, SavedReferences DEF SoundFile, Inv, ReferencesHold, Exists
<1>5. tenants' \in Seq(TenantId) /\ sound' \subseteq References'
  BY <1>1, <1>2 DEF Remember, Inv
<1>6. ReferencesHold'
  BY <1>1, <1>3 DEF Inv, ReferencesHold, Exists
<1>7. DOMAIN saved' = File /\ \A g \in File : saved'[g] = IF g = f THEN Snapshot ELSE saved[g]
  BY <1>1 DEF Inv
<1>8. \A g \in File : saved'[g] # NoFile => SoundFile(saved'[g])
  BY <1>4, <1>7 DEF Inv
<1>9. QED
  BY <1>5, <1>6, <1>7, <1>8 DEF Inv

(* sim_load puts the tenants back with what refers to them.                *)
LEMMA LoadKeeps ==
  ASSUME Inv, NEW f \in File, simLoad(f)
  PROVE  Inv'
<1>. DEFINE s == saved[f]
<1>1. /\ s # NoFile /\ UNCHANGED saved
      /\ tenants' = s.tenants /\ schemas' = s.schemas /\ sound' = s.sound /\ stored' = DOMAIN s.docs
      /\ docs' = [o \in Live' |-> IF o[2] = loads' THEN s.docs[o[1]] ELSE docs[o]]
  BY DEF simLoad
<1>2. SoundFile(s)
  BY <1>1 DEF Inv
<1>. HIDE DEF s
<1>3. \A d \in stored' : docs'[<<d, loads'>>] = s.docs[d]
  <2>1. \A d \in stored' : <<d, loads'>> \in Live'
    BY DEF Live, Stored
  <2>2. QED
    BY <1>1, <2>1
<1>4. References' = ReferencesIn(s)
  <2>1. References' = {<<x, schemas'[x]>> : x \in {y \in Schema : schemas'[y] # NoTenant}}
                        \cup {<<d, docs'[<<d, loads'>>].tenant>> : d \in stored'}
    BY DEF References, Stored
  <2>2. {<<d, docs'[<<d, loads'>>].tenant>> : d \in stored'} = {<<d, s.docs[d].tenant>> : d \in DOMAIN s.docs}
    BY <1>1, <1>3
  <2>3. QED
    BY <1>1, <2>1, <2>2, ZenonT(30) DEF ReferencesIn
<1>5. tenants' \in Seq(TenantId) /\ sound' \subseteq References'
  BY <1>1, <1>2, <1>4 DEF SoundFile
<1>6. ReferencesHold'
  BY <1>1, <1>2 DEF SoundFile, ReferencesHold, Exists
<1>7. QED
  BY <1>1, <1>5, <1>6 DEF Inv

(* delete_tenant takes the first tenant of an id nobody refers to: every   *)
(* other id is found where it was, or one place before.                    *)
LEMMA DeleteKeeps ==
  ASSUME Inv, NEW id \in TenantId, deleteTenant(id)
  PROVE  Inv'
<1>. DEFINE k == FindTenant(tenants, id)
<1>1. tenants \in Seq(TenantId) /\ k \in 1..Len(tenants) /\ tenants[k] = id
  <2>1. k # 0
    BY DEF deleteTenant, Exists
  <2>2. QED
    BY <2>1, Found DEF Inv
<1>2. tenants' = RemoveAt(tenants, k)
  BY DEF deleteTenant
<1>. HIDE DEF k
<1>3. /\ tenants' \in Seq(TenantId)
      /\ Len(tenants') = Len(tenants) - 1
      /\ \A i \in 1..(k - 1) : tenants'[i] = tenants[i]
      /\ \A i \in k..(Len(tenants) - 1) : tenants'[i] = tenants[i + 1]
  BY <1>1, <1>2, RemoveAtFacts
<1>4. ASSUME NEW r \in References', NEW i \in 1..Len(tenants), tenants[i] = r[2]
      PROVE  \E j \in 1..Len(tenants') : tenants'[j] = r[2]
  <2>1. References' = References
    BY DEF deleteTenant, References, Stored, disk
  <2>2. r[2] # id
    <3>1. ~ Referenced(id) /\ r \in References
      BY <1>4, <2>1 DEF deleteTenant
    <3>2. CASE \E x \in Schema : r = <<x, schemas[x]>>
      BY <3>1, <3>2 DEF Referenced
    <3>3. CASE \E d \in stored : r = <<d, docs[Stored(d)].tenant>>
      BY <3>1, <3>3 DEF Referenced
    <3>4. QED
      BY <3>1, <3>2, <3>3 DEF References
  <2>3. i # k
    BY <1>1, <1>4, <2>2
  <2>4. CASE i < k
    BY <1>1, <1>3, <1>4, <2>4
  <2>5. CASE i > k
    <3>1. i - 1 \in k..(Len(tenants) - 1) /\ i - 1 \in 1..Len(tenants') /\ (i - 1) + 1 = i
      BY <1>1, <1>3, <2>5
    <3>2. tenants'[i - 1] = r[2]
      BY <1>3, <1>4, <3>1
    <3>3. QED
      BY <3>1, <3>2
  <2>6. QED
    BY <1>1, <2>3, <2>4, <2>5
<1>5. Remember /\ UNCHANGED saved
  BY DEF deleteTenant, disk
<1>6. QED
  BY <1>3, <1>4, <1>5, KeepsTenants

THEOREM Inductive == Spec => []Inv
<1>1. Init => Inv
  <2>1. SUFFICES ASSUME Init PROVE Inv
    OBVIOUS
  <2>2. tenants = <<SeededTenant>> /\ tenants \in Seq(TenantId)
    BY <2>1, SeedAssumption DEF Init
  <2>3. sound \subseteq References
    BY <2>1, SeedAssumption DEF Init, References
  <2>6. DOMAIN saved = File /\ \A f \in File : saved[f] = NoFile
    BY <2>1 DEF Init
  <2>4. ASSUME NEW r \in sound
        PROVE  Exists(r[2])
    <3>1. r[2] = SeededTenant
      BY <2>1 DEF Init
    <3>2. \E i \in 1..Len(tenants) : tenants[i] = r[2]
      BY <2>2, <3>1
    <3>3. FindTenant(tenants, r[2]) # 0
      BY <2>2, <3>2, Found
    <3>4. QED
      BY <3>3 DEF Exists
  <2>5. QED
    BY <2>2, <2>3, <2>4, <2>6 DEF Inv, ReferencesHold
<1>2. Inv /\ [Next]_vars => Inv'
  <2>. SUFFICES ASSUME Inv, [Next]_vars PROVE Inv'
    OBVIOUS
  <2>. USE KeepsTenants DEF Inv
  <2>1. ASSUME NEW id \in TenantId, createTenant(id)
        PROVE  Inv'
    <3>1. tenants' = Append(tenants, id) /\ tenants' \in Seq(TenantId) /\ Len(tenants') = Len(tenants) + 1
      BY <2>1 DEF createTenant
    <3>2. \A i \in 1..Len(tenants) : tenants'[i] = tenants[i]
      BY <3>1
    <3>3. Remember /\ UNCHANGED saved
      BY <2>1 DEF createTenant, disk
    <3>4. QED
      BY <3>1, <3>2, <3>3
  <2>2. ASSUME NEW id \in TenantId, deleteTenant(id)
        PROVE  Inv'
    BY <2>2, DeleteKeeps
  <2>3. ASSUME NEW h \in Handler, NEW ops \in UNION Range(Batch), patchBody(h, ops)
        PROVE  Inv'
    <3>1. UNCHANGED <<tenants, saved>> /\ Remember
      BY <2>3 DEF patchBody, disk
    <3>2. QED
      BY <3>1
  <2>4. ASSUME NEW h \in Handler, NEW d \in stored, patchFound(h, d)
        PROVE  Inv'
    <3>1. UNCHANGED <<tenants, saved>> /\ Remember
      BY <2>4 DEF patchFound, disk
    <3>2. QED
      BY <3>1
  <2>5. ASSUME NEW s \in Schema, NEW id \in TenantId \cup {NoTenant}, setSchema(s, id)
        PROVE  Inv'
    <3>1. UNCHANGED <<tenants, saved>> /\ Remember
      BY <2>5 DEF setSchema, disk
    <3>2. QED
      BY <3>1
  <2>6. ASSUME NEW d \in Template, NEW body \in Posted, createTemplate(d, body)
        PROVE  Inv'
    <3>1. UNCHANGED <<tenants, saved>> /\ Remember
      BY <2>6 DEF createTemplate, disk
    <3>2. QED
      BY <3>1
  <2>7. ASSUME NEW d \in used, deleteTemplate(d)
        PROVE  Inv'
    <3>1. UNCHANGED <<tenants, saved>> /\ Remember
      BY <2>7 DEF deleteTemplate, disk
    <3>2. QED
      BY <3>1
  <2>8. ASSUME NEW name \in Name, bindLabel(name)
        PROVE  Inv'
    <3>1. UNCHANGED <<tenants, saved>> /\ Remember
      BY <2>8 DEF bindLabel, disk
    <3>2. QED
      BY <3>1
  <2>9. ASSUME NEW f \in File, simSave(f) \/ simLoad(f)
        PROVE  Inv'
    BY <2>9, SaveKeeps, LoadKeeps
  <2>10. CASE UNCHANGED vars
    <3>1. UNCHANGED <<tenants, sound, schemas, docs, stored, loads, saved>>
      BY <2>10 DEF vars, state, disk
    <3>2. QED
      BY <3>1 DEF ReferencesHold, References, Exists, Stored
  <2>11. QED
    BY <2>1, <2>2, <2>3, <2>4, <2>5, <2>6, <2>7, <2>8, <2>9, <2>10 DEF Next
<1>3. QED
  BY <1>1, <1>2, PTL DEF Spec

(* delete_tenant never takes a tenant that a template of either plane has  *)
(* referred to since it existed.                                           *)
THEOREM ReferencesCorrect == Spec => []ReferencesHold
<1>1. Inv => ReferencesHold
  BY DEF Inv
<1>2. QED
  BY <1>1, Inductive, PTL

-----------------------------------------------------------------------------
(* Policy templates                                                         *)

Policy == [name : Name, uuid : Uuid \cup {NoUuid}]

Document == [title : Name, tenant : TenantId \cup {NoTenant}, policies : Seq(Policy)]

(* The policies a template may hold: without a uuid, or with one it made,  *)
(* and, if nothing that goes into uuids has changed (calm), with the one   *)
(* that belongs to the name.                                               *)
PolicyOf(d, tenant, calm) ==
  {p \in Policy : p.uuid # NoUuid => p.uuid[1] = d /\ (calm => p.uuid = UuidOf(d, tenant, p.name))}

DocOf(d, tenant, calm) ==
  {x \in Document : x.policies \in Seq(PolicyOf(d, tenant, calm)) /\ (calm => x.tenant = tenant)}

OpOf(calm) == {o \in Op : calm => o.op \notin {"rename", "tenant"}}

RunOf(d, tenant, calm) == [doc : DocOf(d, tenant, calm), ok : BOOLEAN]

LEMMA FoundPolicy ==
  ASSUME NEW doc \in Document, NEW name
  PROVE  /\ PlaceOf(doc, name) # 0 <=> \E i \in 1..Len(doc.policies) : doc.policies[i].name = name
         /\ PlaceOf(doc, name) # 0 => PlaceOf(doc, name) \in 1..Len(doc.policies)
<1>. DEFINE I == {i \in 1..Len(doc.policies) : doc.policies[i].name = name}
<1>1. PlaceOf(doc, name) = IF I # {} THEN Min(I) ELSE 0
  BY DEF PlaceOf, SelectInSeq
<1>2. I \in SUBSET Nat /\ 0 \notin I
  OBVIOUS
<1>3. I # {} => Min(I) \in I
  BY <1>2, LeastPlace
<1>4. QED
  BY <1>1, <1>2, <1>3

LEMMA ChangedKeeps ==
  ASSUME NEW d \in Template, NEW tenant, NEW calm \in BOOLEAN, NEW doc \in DocOf(d, tenant, calm),
         NEW o \in OpOf(calm), ~ Fails(doc, o)
  PROVE  Changed(doc, o) \in DocOf(d, tenant, calm)
<1>. DEFINE P == PolicyOf(d, tenant, calm)
            ps == doc.policies
            k == PlaceOf(doc, o.name)
<1>1. /\ doc \in Document /\ ps \in Seq(P) /\ (calm => doc.tenant = tenant)
      /\ P \subseteq Policy
  BY DEF DocOf, PolicyOf
<1>2. o \in Op /\ o.op # "bad" /\ (calm => o.op \notin {"rename", "tenant"})
  BY DEF OpOf, Fails
<1>3. k # 0 => k \in 1..Len(ps)
  BY <1>1, FoundPolicy
<1>4. ASSUME NEW q \in Seq(P)
      PROVE  [doc EXCEPT !.policies = q] \in DocOf(d, tenant, calm)
  <2>1. q \in Seq(Policy)
    BY <1>1, <1>4, SeqMonotonic
  <2>2. [doc EXCEPT !.policies = q] \in Document
    BY <1>1, <2>1 DEF Document
  <2>3. [doc EXCEPT !.policies = q].policies = q /\ [doc EXCEPT !.policies = q].tenant = doc.tenant
    BY <1>1 DEF Document
  <2>4. QED
    BY <1>1, <2>2, <2>3 DEF DocOf
<1>5. CASE o.op = "add"
  <2>1. [name |-> o.name, uuid |-> NoUuid] \in P
    BY <1>2, <1>5 DEF Op, Policy, PolicyOf
  <2>2. Append(ps, [name |-> o.name, uuid |-> NoUuid]) \in Seq(P)
    BY <1>1, <2>1
  <2>3. Changed(doc, o) = [doc EXCEPT !.policies = Append(ps, [name |-> o.name, uuid |-> NoUuid])]
    BY <1>5 DEF Changed
  <2>4. QED
    BY <1>4, <2>2, <2>3
<1>6. CASE o.op = "remove"
  <2>. DEFINE q == IF k = 0 THEN ps ELSE RemoveAt(ps, k)
  <2>1. q \in Seq(P)
    BY <1>1, <1>3, RemoveAtFacts
  <2>2. Changed(doc, o) = [doc EXCEPT !.policies = q]
    BY <1>6 DEF Changed
  <2>. HIDE DEF q
  <2>3. QED
    BY <1>4, <2>1, <2>2
<1>7. CASE o.op = "rename"
  <2>. DEFINE q == [ps EXCEPT ![k].name = o.to]
  <2>1. k \in 1..Len(ps) /\ ~ calm /\ o.to \in Name
    BY <1>2, <1>3, <1>7 DEF Fails, Op
  <2>2. ps[k] \in P
    BY <1>1, <2>1, ElementOfSeq
  <2>3. [ps[k] EXCEPT !.name = o.to] \in P
    BY <2>1, <2>2 DEF PolicyOf, Policy
  <2>4. q = [ps EXCEPT ![k] = [ps[k] EXCEPT !.name = o.to]]
    BY <1>1, <2>1
  <2>5. q \in Seq(P)
    BY <1>1, <2>1, <2>3, <2>4, ExceptSeq
  <2>6. Changed(doc, o) = [doc EXCEPT !.policies = q]
    BY <1>1, <1>7 DEF Changed, Document
  <2>. HIDE DEF q
  <2>7. QED
    BY <1>4, <2>5, <2>6
<1>8. CASE o.op = "title"
  <2>1. Changed(doc, o) = [doc EXCEPT !.title = o.name] /\ o.name \in Name
    BY <1>2, <1>8 DEF Changed, Op
  <2>2. [doc EXCEPT !.title = o.name] \in Document
    BY <1>1, <2>1 DEF Document
  <2>3. /\ [doc EXCEPT !.title = o.name].policies = ps
        /\ [doc EXCEPT !.title = o.name].tenant = doc.tenant
    BY <1>1 DEF Document
  <2>4. QED
    BY <1>1, <2>1, <2>2, <2>3 DEF DocOf
<1>9. CASE o.op = "tenant"
  <2>1. Changed(doc, o) = [doc EXCEPT !.tenant = o.name] /\ o.name \in TenantId /\ ~ calm
    BY <1>2, <1>9 DEF Changed, Op
  <2>2. [doc EXCEPT !.tenant = o.name] \in Document
    BY <1>1, <2>1 DEF Document
  <2>3. [doc EXCEPT !.tenant = o.name].policies = ps
    BY <1>1 DEF Document
  <2>4. QED
    BY <1>1, <2>1, <2>2, <2>3 DEF DocOf
<1>10. QED
  BY <1>2, <1>5, <1>6, <1>7, <1>8, <1>9 DEF Op

(* Whatever ops a PATCH brings, failing ones among them, what it leaves is *)
(* a document of that kind.                                                *)
LEMMA AppliedKeeps ==
  ASSUME NEW d \in Template, NEW tenant, NEW calm \in BOOLEAN, NEW doc \in DocOf(d, tenant, calm),
         NEW ops \in Seq(OpOf(calm))
  PROVE  Applied(doc, ops) \in RunOf(d, tenant, calm)
<1>. DEFINE D == RunOf(d, tenant, calm)
            n == Len(ops)
            start == [doc |-> doc, ok |-> TRUE]
            step == [x \in D \X (1..n) |-> ApplyOp(x[1], ops[x[2]])]
            F(f) == [i \in 0..Len(ops) |-> IF i = 0 THEN [doc |-> doc, ok |-> TRUE] ELSE ApplyOp(f[i - 1], ops[i])]
            r == Running(doc, ops)
<1>1. ASSUME NEW run \in D, NEW o \in OpOf(calm)
      PROVE  ApplyOp(run, o) \in D
  <2>1. CASE ~ run.ok \/ Fails(run.doc, o)
    BY <2>1 DEF ApplyOp, RunOf
  <2>2. CASE run.ok /\ ~ Fails(run.doc, o)
    <3>1. Changed(run.doc, o) \in DocOf(d, tenant, calm)
      BY <2>2, ChangedKeeps DEF RunOf
    <3>2. QED
      BY <2>2, <3>1 DEF ApplyOp, RunOf
  <2>3. QED
    BY <2>1, <2>2 DEF RunOf
<1>2. n \in Nat /\ start \in D /\ step \in [D \X (1..n) -> D]
  <2>1. ASSUME NEW x \in D \X (1..n)
        PROVE  ApplyOp(x[1], ops[x[2]]) \in D
    <3>1. x[1] \in D /\ ops[x[2]] \in OpOf(calm)
      BY ElementOfSeq
    <3>2. QED
      BY <1>1, <3>1
  <2>2. start \in D
    BY DEF RunOf
  <2>3. QED
    BY <2>1, <2>2
<1>. HIDE DEF D, start, step, n, r
<1>3. PICK f : IsLoop(f, D, start, n, step)
  BY <1>2, LoopExists
<1>4. f = [i \in 0..n |-> IF i = 0 THEN start ELSE ApplyOp(f[i - 1], ops[i])]
  <2>1. ASSUME NEW i \in 1..n
        PROVE  f[i] = ApplyOp(f[i - 1], ops[i])
    <3>1. <<f[i - 1], i>> \in D \X (1..n) /\ f[i] = step[<<f[i - 1], i>>]
      BY <1>2, <1>3 DEF IsLoop
    <3>2. QED
      BY <3>1 DEF step
  <2>2. QED
    BY <1>2, <1>3, <2>1 DEF IsLoop
<1>5. f = F(f)
  BY <1>4 DEF start, n
<1>6. r = F(r)
  BY <1>5 DEF r, Running
<1>7. \A i \in 0..n : r[i] = IF i = 0 THEN start ELSE ApplyOp(r[i - 1], ops[i])
  BY <1>6 DEF start, n
<1>8. ASSUME NEW i \in 0..(n - 1), r[i] \in D
      PROVE  r[i + 1] \in D
  <2>1. r[i + 1] = ApplyOp(r[i], ops[i + 1]) /\ ops[i + 1] \in OpOf(calm)
    BY <1>2, <1>7 DEF n
  <2>2. QED
    BY <1>1, <1>8, <2>1
<1>9. r[n] \in D
  <2>1. r[0] \in D
    BY <1>2, <1>7
  <2>2. \A i \in 0..n : r[i] \in D
    BY <1>2, <1>8, <2>1, LoopInvariant
  <2>3. QED
    BY <1>2, <2>2
<1>10. QED
  BY <1>9 DEF r, n, D, Applied

(* After a PATCH that succeeds every policy has its uuid.                   *)
LEMMA BackfilledKeeps ==
  ASSUME NEW d \in Template, NEW tenant, NEW calm \in BOOLEAN, NEW doc \in DocOf(d, tenant, calm)
  PROVE  /\ Backfilled(doc, d) \in DocOf(d, tenant, calm)
         /\ Backfilled(doc, d).title = doc.title
         /\ \A i \in DOMAIN Backfilled(doc, d).policies : Backfilled(doc, d).policies[i].uuid # NoUuid
<1>. DEFINE P == PolicyOf(d, tenant, calm)
            ps == doc.policies
            names == [i \in DOMAIN ps |-> ps[i].name]
            q == [i \in DOMAIN ps |-> IF ps[i].uuid = NoUuid
                    THEN [ps[i] EXCEPT !.uuid = UuidOf(d, doc.tenant, names[i])] ELSE ps[i]]
<1>1. doc \in Document /\ ps \in Seq(P) /\ P \subseteq Policy /\ (calm => doc.tenant = tenant)
  BY DEF DocOf, PolicyOf
<1>2. Backfilled(doc, d) = [doc EXCEPT !.policies = q] /\ DOMAIN ps = 1..Len(ps)
  BY <1>1 DEF Backfilled, Filled
<1>3. ASSUME NEW i \in 1..Len(ps)
      PROVE  q[i] \in P /\ q[i].uuid # NoUuid
  <2>1. ps[i] \in P /\ ps[i] \in Policy
    BY <1>1, ElementOfSeq
  <2>2. ps[i].name \in Name /\ doc.tenant \in TenantId \cup {NoTenant}
    BY <1>1, <2>1 DEF Policy, Document
  <2>3. /\ UuidOf(d, doc.tenant, ps[i].name) \in Uuid /\ UuidOf(d, doc.tenant, ps[i].name)[1] = d
        /\ UuidOf(d, doc.tenant, ps[i].name) # NoUuid
    <3>1. UuidOf(d, doc.tenant, ps[i].name) \in Uuid
      BY <2>2 DEF Uuid
    <3>2. QED
      BY <3>1, UuidAssumption DEF UuidOf
  <2>4. CASE ps[i].uuid = NoUuid
    <3>. DEFINE x == [ps[i] EXCEPT !.uuid = UuidOf(d, doc.tenant, ps[i].name)]
    <3>1. x \in Policy /\ x.name = ps[i].name /\ x.uuid = UuidOf(d, doc.tenant, ps[i].name)
      BY <2>1, <2>3 DEF Policy
    <3>. HIDE DEF x
    <3>2. x \in P
      BY <1>1, <2>3, <3>1 DEF PolicyOf
    <3>3. q[i] = x
      BY <1>2, <2>4 DEF x
    <3>4. QED
      BY <2>3, <3>1, <3>2, <3>3
  <2>5. CASE ps[i].uuid # NoUuid
    BY <1>2, <2>1, <2>5
  <2>6. QED
    BY <2>4, <2>5
<1>4. q \in Seq(P) /\ DOMAIN q = 1..Len(ps)
  <2>1. Len(ps) \in Nat /\ DOMAIN q = 1..Len(ps)
    BY <1>1, <1>2
  <2>2. \A i \in 1..Len(ps) : q[i] \in P
    BY <1>3
  <2>3. q = [i \in 1..Len(ps) |-> q[i]]
    BY <2>1
  <2>. HIDE DEF q
  <2>4. [i \in 1..Len(ps) |-> q[i]] \in Seq(P)
    BY <2>1, <2>2, IsASeq
  <2>5. QED
    BY <2>1, <2>3, <2>4
<1>. HIDE DEF q
<1>5. q \in Seq(Policy)
  BY <1>1, <1>4, SeqMonotonic
<1>6. /\ [doc EXCEPT !.policies = q] \in Document
      /\ [doc EXCEPT !.policies = q].policies = q
      /\ [doc EXCEPT !.policies = q].tenant = doc.tenant
      /\ [doc EXCEPT !.policies = q].title = doc.title
  BY <1>1, <1>5 DEF Document
<1>7. [doc EXCEPT !.policies = q] \in DocOf(d, tenant, calm)
  BY <1>1, <1>4, <1>6 DEF DocOf
<1>8. QED
  BY <1>2, <1>3, <1>4, <1>6, <1>7

-----------------------------------------------------------------------------
(* Summaries                                                                *)

Summary == [id : Template, title : Name]

Listed(list) == {list[i] : i \in 1..Len(list)}

Single(list) == \A i, j \in 1..Len(list) : list[i].id = list[j].id => i = j

LEMMA SyncedFacts ==
  ASSUME NEW list \in Seq(Summary), Single(list), NEW d \in Template, NEW title \in Name
  PROVE  /\ Synced(list, d, title) \in Seq(Summary) /\ Single(Synced(list, d, title))
         /\ Listed(Synced(list, d, title)) = {e \in Listed(list) : e.id # d} \cup {[id |-> d, title |-> title]}
<1>. DEFINE I == {i \in 1..Len(list) : list[i].id = d}
            k == SelectInSeq(list, LAMBDA s : s.id = d)
            new == [id |-> d, title |-> title]
            out == Synced(list, d, title)
<1>1. k = IF I # {} THEN Min(I) ELSE 0
  BY DEF SelectInSeq
<1>2. out = IF k = 0 THEN Append(list, new) ELSE [list EXCEPT ![k].title = title]
  BY DEF Synced
<1>3. I \in SUBSET Nat /\ 0 \notin I
  OBVIOUS
<1>4. new \in Summary /\ new.id = d
  BY DEF Summary
<1>5. CASE I = {}
  <2>1. out = Append(list, new) /\ \A i \in 1..Len(list) : list[i].id # d
    BY <1>1, <1>2, <1>5
  <2>. HIDE DEF new, out, k, I
  <2>2. /\ out \in Seq(Summary) /\ Len(out) = Len(list) + 1 /\ out[Len(list) + 1] = new
        /\ \A i \in 1..Len(list) : out[i] = list[i]
    BY <1>4, <2>1
  <2>3. Single(out)
    BY <1>4, <2>1, <2>2 DEF Single
  <2>4. Listed(out) = Listed(list) \cup {new}
    <3>1. Len(list) \in Nat
      OBVIOUS
    <3>2. 1..Len(out) = 1..Len(list) \cup {Len(list) + 1}
      BY <2>2, <3>1
    <3>3. QED
      BY <2>2, <3>2 DEF Listed
  <2>5. \A e \in Listed(list) : e.id # d
    BY <2>1 DEF Listed
  <2>6. QED
    BY <2>2, <2>3, <2>4, <2>5 DEF out, new
<1>6. CASE I # {}
  <2>1. k \in 1..Len(list) /\ list[k].id = d
    BY <1>1, <1>3, <1>6, LeastPlace
  <2>2. list[k] \in Summary
    BY <2>1, ElementOfSeq
  <2>3. out = [list EXCEPT ![k] = new]
    <3>. DEFINE old == list[k]
    <3>1. old \in Summary /\ old.id = d
      BY <2>1, <2>2
    <3>. HIDE DEF old
    <3>2. [old EXCEPT !.title = title] = [id |-> d, title |-> title]
      BY <3>1 DEF Summary
    <3>3. k # 0 /\ out = [list EXCEPT ![k].title = title]
      BY <1>2, <2>1
    <3>. HIDE DEF out, k
    <3>4. out = [list EXCEPT ![k] = [old EXCEPT !.title = title]]
      BY <3>3 DEF old
    <3>5. QED
      BY <3>2, <3>4
  <2>. HIDE DEF new, out, k, I
  <2>4. /\ out \in Seq(Summary) /\ Len(out) = Len(list) /\ out[k] = new
        /\ \A i \in 1..Len(list) : i # k => out[i] = list[i]
    BY <1>4, <2>1, <2>3
  <2>5. Single(out)
    BY <1>4, <2>1, <2>4 DEF Single
  <2>6. ASSUME NEW e
        PROVE  e \in Listed(out) <=> e = new \/ (e \in Listed(list) /\ e.id # d)
    <3>1. CASE e = new
      BY <2>1, <2>4, <3>1 DEF Listed
    <3>2. CASE e # new
      <4>1. e \in Listed(out) <=> \E i \in 1..Len(list) : i # k /\ e = list[i]
        BY <2>4, <3>2 DEF Listed
      <4>2. \A i \in 1..Len(list) : i # k => list[i].id # d
        BY <2>1 DEF Single
      <4>3. QED
        BY <2>1, <3>2, <4>1, <4>2 DEF Listed
    <3>3. QED
      BY <3>1, <3>2
  <2>7. QED
    BY <2>4, <2>5, <2>6 DEF out, new
<1>7. QED
  BY <1>5, <1>6

LEMMA UnlistedFacts ==
  ASSUME NEW list \in Seq(Summary), Single(list), NEW d
  PROVE  /\ Unlisted(list, d) \in Seq(Summary) /\ Single(Unlisted(list, d))
         /\ Listed(Unlisted(list, d)) = {e \in Listed(list) : e.id # d}
<1>. DEFINE n == Len(list)
            D == Seq(Summary)
            Turn(x, i) == IF list[i].id = d THEN x ELSE Append(x, list[i])
            step == [x \in D \X (1..n) |-> Turn(x[1], x[2])]
            F(f) == [i \in 0..Len(list) |->
                       IF i = 0 THEN <<>> ELSE IF list[i].id = d THEN f[i - 1] ELSE Append(f[i - 1], list[i])]
            kept == CHOOSE f : f = F(f)
            From(i) == {list[j] : j \in {l \in 1..i : list[l].id # d}}
            S == {i \in 0..n : kept[i] \in D /\ Single(kept[i]) /\ Listed(kept[i]) = From(i)}
<1>1. n \in Nat /\ \A i \in 1..n : list[i] \in Summary
  OBVIOUS
<1>2. <<>> \in D /\ step \in [D \X (1..n) -> D]
  <2>1. ASSUME NEW x \in D \X (1..n)
        PROVE  Turn(x[1], x[2]) \in D
    <3>1. x[1] \in D /\ x[2] \in 1..n
      OBVIOUS
    <3>2. QED
      BY <1>1, <3>1
  <2>2. QED
    BY <2>1
<1>. HIDE DEF n, D, step, kept
<1>3. PICK f : IsLoop(f, D, <<>>, n, step)
  BY <1>1, <1>2, LoopExists
<1>4. \A i \in 1..n : f[i] = Turn(f[i - 1], i)
  <2>1. ASSUME NEW i \in 1..n
        PROVE  f[i] = Turn(f[i - 1], i)
    <3>1. <<f[i - 1], i>> \in D \X (1..n) /\ f[i] = step[<<f[i - 1], i>>]
      BY <1>1, <1>3 DEF IsLoop
    <3>2. QED
      BY <3>1 DEF step
  <2>2. QED
    BY <2>1
<1>5. f = F(f)
  <2>. HIDE DEF Turn
  <2>1. \A i \in 0..n : f[i] = IF i = 0 THEN <<>> ELSE Turn(f[i - 1], i)
    BY <1>1, <1>3, <1>4 DEF IsLoop
  <2>2. f = [i \in 0..n |-> IF i = 0 THEN <<>> ELSE Turn(f[i - 1], i)]
    BY <1>3, <2>1 DEF IsLoop
  <2>3. QED
    BY <2>2 DEF Turn, n
<1>6. kept = F(kept)
  <2>. HIDE DEF F
  <2>1. \E g : g = F(g)
    BY <1>5
  <2>2. QED
    BY <2>1 DEF kept
<1>7. kept[0] = <<>> /\ \A i \in 1..n : kept[i] = Turn(kept[i - 1], i)
  <2>1. kept = [i \in 0..n |-> IF i = 0 THEN <<>> ELSE Turn(kept[i - 1], i)]
    BY <1>6 DEF n
  <2>. HIDE DEF Turn, F
  <2>2. QED
    BY <1>1, <2>1
<1>8. 0 \in S
  <2>1. Listed(<<>>) = {} /\ From(0) = {} /\ Single(<<>>)
    BY DEF Listed, Single
  <2>2. QED
    BY <1>1, <1>2, <1>7, <2>1
<1>9. ASSUME NEW i \in 0..(n - 1), i \in S
      PROVE  i + 1 \in S
  <2>1. i + 1 \in 1..n /\ i + 1 \in 0..n /\ (i + 1) - 1 = i /\ i \in Nat
    BY <1>1
  <2>2. kept[i + 1] = Turn(kept[i], i + 1)
    BY <1>7, <2>1
  <2>3. 1..(i + 1) = 1..i \cup {i + 1}
    BY <2>1
  <2>4. kept[i] \in D /\ Single(kept[i]) /\ Listed(kept[i]) = From(i)
    BY <1>9
  <2>5. CASE list[i + 1].id = d
    <3>1. From(i + 1) = From(i)
      BY <2>3, <2>5
    <3>2. QED
      BY <2>1, <2>2, <2>4, <2>5, <3>1
  <2>6. CASE list[i + 1].id # d
    <3>. DEFINE e == list[i + 1]
                new == Append(kept[i], e)
    <3>1. From(i + 1) = From(i) \cup {e}
      BY <2>3, <2>6
    <3>2. kept[i + 1] = new /\ e \in Summary
      BY <1>1, <2>1, <2>2, <2>6
    <3>3. \A x \in From(i) : x.id # e.id
      <4>1. ASSUME NEW l \in 1..i
            PROVE  list[l].id # e.id
        <5>1. l \in 1..Len(list) /\ i + 1 \in 1..Len(list) /\ l # i + 1
          BY <1>1, <2>1 DEF n
        <5>2. QED
          BY <5>1 DEF Single
      <4>2. QED
        BY <4>1
    <3>. HIDE DEF From, e
    <3>4. /\ new \in D /\ Len(new) = Len(kept[i]) + 1 /\ new[Len(kept[i]) + 1] = e
          /\ \A l \in 1..Len(kept[i]) : new[l] = kept[i][l]
          /\ Len(kept[i]) \in Nat
      BY <2>4, <3>2 DEF D
    <3>. HIDE DEF new
    <3>5. \A l \in 1..Len(kept[i]) : kept[i][l].id # e.id
      BY <2>4, <3>3 DEF Listed
    <3>6. Single(new)
      <4>1. SUFFICES ASSUME NEW a \in 1..Len(new), NEW b \in 1..Len(new), new[a].id = new[b].id
                     PROVE  a = b
        BY DEF Single
      <4>2. CASE a \in 1..Len(kept[i]) /\ b \in 1..Len(kept[i])
        BY <2>4, <3>4, <4>1, <4>2 DEF Single
      <4>3. CASE a = Len(kept[i]) + 1 /\ b \in 1..Len(kept[i])
        BY <3>4, <3>5, <4>1, <4>3
      <4>4. CASE a \in 1..Len(kept[i]) /\ b = Len(kept[i]) + 1
        BY <3>4, <3>5, <4>1, <4>4
      <4>5. QED
        BY <3>4, <4>2, <4>3, <4>4
    <3>7. Listed(new) = Listed(kept[i]) \cup {e}
      <4>1. 1..Len(new) = 1..Len(kept[i]) \cup {Len(kept[i]) + 1}
        BY <3>4
      <4>2. QED
        BY <3>4, <4>1, SMTT(30) DEF Listed
    <3>8. QED
      BY <2>1, <2>4, <3>1, <3>2, <3>4, <3>6, <3>7
  <2>7. QED
    BY <2>5, <2>6
<1>. HIDE DEF S
<1>10. n \in S
  <2>1. 0..n \subseteq S
    BY <1>1, <1>8, <1>9, BoundedInduction
  <2>2. QED
    BY <1>1, <2>1
<1>11. kept[n] \in D /\ Single(kept[n]) /\ Listed(kept[n]) = {e \in Listed(list) : e.id # d}
  BY <1>10 DEF S, Listed, n
<1>12. Unlisted(list, d) = kept[n]
  BY DEF Unlisted, kept, n
<1>13. QED
  BY <1>11, <1>12 DEF D

-----------------------------------------------------------------------------
(* The invariant of the policy templates                                    *)

(* state.tenant_policy_templates                                            *)
Docs == [d \in stored |-> docs[Stored(d)]]

(* Each document is as its history allows and complete unless it was torn. *)
DocsIn(D, T, U, R) ==
  /\ D = [d \in DOMAIN D |-> D[d]] /\ DOMAIN D \subseteq U
  /\ \A d \in DOMAIN D : D[d] \in DocOf(d, D[d].tenant, d \notin R)
  /\ \A d \in DOMAIN D \ T : \A i \in DOMAIN D[d].policies : D[d].policies[i].uuid # NoUuid

(* A label has the uuid that its template still gives to the name.         *)
LabelsIn(L, D, U, R) ==
  \A l \in L :
    /\ l.uuid # NoUuid /\ l.uuid[1] \in U
    /\ l.uuid[1] \in DOMAIN D \ R => l.uuid = UuidOf(l.uuid[1], D[l.uuid[1]].tenant, l.name)

SummariesIn(S, D, T, O) ==
  /\ S \in Seq(Summary) /\ Single(S)
  /\ \A d \in DOMAIN D : \E e \in Listed(S) : e.id = d /\ (d \notin T \cup O => e.title = D[d].title)
  /\ \A e \in Listed(S) : e.id \in DOMAIN D \cup O

FileOK(s, U, R) ==
  DocsIn(s.docs, s.torn, U, R) /\ LabelsIn(s.labels, s.docs, U, R)
    /\ SummariesIn(s.summaries, s.docs, s.torn, s.overtaken)

(* The objects: those that are stored or waited for, none of a template or *)
(* of a load to come.                                                      *)
HeapOK ==
  /\ stored \subseteq used /\ used \subseteq Template /\ loads \in Nat
  /\ DOMAIN docs = Live /\ \A o \in Live : docs[o] \in DocOf(o[1], docs[o].tenant, FALSE)
  /\ DOMAIN waiting = Handler
  /\ \A h \in Handler : waiting[h] # Idle => waiting[h] \in used \X (0..loads)

FilesOK == DOMAIN saved = File /\ \A f \in File : saved[f] # NoFile => FileOK(saved[f], used, reseeded)

TemplatesOK ==
  /\ HeapOK
  /\ DocsIn(Docs, torn, used, reseeded)
  /\ LabelsIn(labels, Docs, used, reseeded)
  /\ SummariesIn(summaries, Docs, torn, overtaken)
  /\ FilesOK

LEMMA DocsFacts ==
  /\ DOMAIN Docs = stored /\ Docs = [d \in stored |-> Docs[d]]
  /\ \A d \in stored : Docs[d] = docs[Stored(d)] /\ Stored(d) \in Live
BY DEF Docs, Live

LEMMA DocsNext ==
  /\ DOMAIN Docs' = stored' /\ Docs' = [d \in stored' |-> Docs'[d]]
  /\ \A d \in stored' : Docs'[d] = docs'[Stored(d)'] /\ Stored(d)' \in Live'
BY DEF Docs, Live

(* A step that does not touch an object, a label or a summary keeps all.   *)
LEMMA Untouched ==
  ASSUME TemplatesOK,
         UNCHANGED <<docs, stored, summaries, waiting, labels, used, disk, overtaken, torn, reseeded>>
  PROVE  TemplatesOK'
<1>1. UNCHANGED <<Docs, Live, loads, saved>>
  BY DEF Docs, Live, Stored, disk
<1>2. HeapOK'
  BY <1>1 DEF TemplatesOK, HeapOK
<1>3. FilesOK'
  BY <1>1 DEF TemplatesOK, FilesOK
<1>4. QED
  BY <1>1, <1>2, <1>3 DEF TemplatesOK

(* What a document was allowed, a less calm one is.                        *)
LEMMA Calmer ==
  ASSUME NEW d, NEW tenant, NEW calm \in BOOLEAN, NEW calmer \in BOOLEAN, calm => calmer,
         NEW doc \in DocOf(d, tenant, calmer)
  PROVE  doc \in DocOf(d, tenant, calm)
<1>1. PolicyOf(d, tenant, calmer) \subseteq PolicyOf(d, tenant, calm)
  BY DEF PolicyOf
<1>2. doc.policies \in Seq(PolicyOf(d, tenant, calm))
  BY <1>1, SeqMonotonic DEF DocOf
<1>3. QED
  BY <1>2 DEF DocOf

(* Files stay good while ids are given out and templates are reseeded.     *)
LEMMA FileLasts ==
  ASSUME NEW s, NEW U, NEW R, FileOK(s, U, R), NEW V, U \subseteq V, NEW Q, R \subseteq Q
  PROVE  FileOK(s, V, Q)
<1>1. ASSUME NEW d \in DOMAIN s.docs
      PROVE  s.docs[d] \in DocOf(d, s.docs[d].tenant, d \notin Q)
  <2>1. s.docs[d] \in DocOf(d, s.docs[d].tenant, d \notin R)
    BY DEF FileOK, DocsIn
  <2>2. QED
    BY <2>1, Calmer
<1>2. DocsIn(s.docs, s.torn, V, Q)
  BY <1>1 DEF FileOK, DocsIn
<1>3. LabelsIn(s.labels, s.docs, V, Q)
  BY DEF FileOK, LabelsIn
<1>4. QED
  BY <1>2, <1>3 DEF FileOK

LEMMA FilesLast ==
  ASSUME FilesOK, UNCHANGED saved, used \subseteq used', reseeded \subseteq reseeded'
  PROVE  FilesOK'
<1>1. ASSUME NEW f \in File, saved[f] # NoFile
      PROVE  FileOK(saved[f], used', reseeded')
  BY <1>1, FileLasts DEF FilesOK
<1>2. QED
  BY <1>1 DEF FilesOK

LEMMA TemplatesInit == Init => TemplatesOK
<1>. SUFFICES ASSUME Init PROVE TemplatesOK
  OBVIOUS
<1>. DEFINE policy == [name |-> SeededName, uuid |-> <<Seeded, "seeded", SeededName>>]
            doc == [title |-> SeededName, tenant |-> NoTenant, policies |-> <<policy>>]
            sum == [id |-> Seeded, title |-> SeededName]
<1>1. /\ docs = [o \in {<<Seeded, 0>>} |-> doc] /\ stored = {Seeded} /\ used = {Seeded} /\ loads = 0
      /\ summaries = <<sum>> /\ waiting = [h \in Handler |-> Idle] /\ labels = {policy} /\ reseeded = {Seeded}
      /\ saved = [f \in File |-> NoFile]
  BY DEF Init
<1>2. Seeded \in Template /\ SeededName \in Name
  BY SeedAssumption
<1>3. policy \in PolicyOf(Seeded, NoTenant, FALSE) /\ policy.uuid # NoUuid
  <2>. DEFINE uuid == UuidOf(Seeded, "seeded", SeededName)
  <2>1. uuid \in Uuid
    BY <1>2 DEF Uuid
  <2>2. uuid[1] = Seeded
    BY DEF UuidOf
  <2>3. policy = [name |-> SeededName, uuid |-> uuid]
    BY DEF UuidOf
  <2>. HIDE DEF uuid, policy
  <2>4. policy \in Policy /\ policy.uuid = uuid /\ uuid # NoUuid
    BY <1>2, <2>1, <2>3, UuidAssumption DEF Policy
  <2>5. QED
    BY <2>2, <2>4 DEF PolicyOf
<1>4. policy.uuid[1] = Seeded
  OBVIOUS
<1>. HIDE DEF policy
<1>5. doc \in DocOf(Seeded, NoTenant, FALSE) /\ doc.tenant = NoTenant
  <2>1. <<policy>> \in Seq(PolicyOf(Seeded, NoTenant, FALSE)) /\ <<policy>> \in Seq(Policy)
    BY <1>3 DEF PolicyOf
  <2>2. doc \in Document /\ doc.policies = <<policy>> /\ doc.tenant = NoTenant
    BY <1>2, <2>1 DEF Document
  <2>3. QED
    BY <2>1, <2>2 DEF DocOf
<1>6. \A i \in DOMAIN doc.policies : doc.policies[i].uuid # NoUuid
  BY <1>3
<1>7. sum \in Summary
  BY <1>2 DEF Summary
<1>8. doc.title = SeededName
  OBVIOUS
<1>. HIDE DEF doc
<1>9. Live = {<<Seeded, 0>>} /\ Stored(Seeded) = <<Seeded, 0>>
  BY <1>1 DEF Live, Stored
<1>10. Docs[Seeded] = doc /\ DOMAIN Docs = {Seeded} /\ Docs = [d \in {Seeded} |-> Docs[d]]
  BY <1>1, <1>9, DocsFacts
<1>11. HeapOK
  <2>1. docs[<<Seeded, 0>>] = doc /\ DOMAIN docs = {<<Seeded, 0>>}
    BY <1>1
  <2>2. docs[<<Seeded, 0>>] \in DocOf(Seeded, docs[<<Seeded, 0>>].tenant, FALSE)
    BY <1>5, <2>1
  <2>3. DOMAIN waiting = Handler /\ \A h \in Handler : waiting[h] = Idle
    BY <1>1
  <2>4. ASSUME NEW o \in Live
        PROVE  docs[o] \in DocOf(o[1], docs[o].tenant, FALSE)
    <3>1. o = <<Seeded, 0>>
      BY <1>9
    <3>2. o[1] = Seeded
      BY <3>1
    <3>3. QED
      BY <2>2, <3>1, <3>2
  <2>5. stored \subseteq used /\ used \subseteq Template /\ loads \in Nat /\ DOMAIN docs = Live
    BY <1>1, <1>2, <1>9, <2>1
  <2>6. QED
    BY <2>3, <2>4, <2>5 DEF HeapOK
<1>12. DocsIn(Docs, torn, used, reseeded)
  BY <1>1, <1>5, <1>6, <1>10 DEF DocsIn
<1>13. LabelsIn(labels, Docs, used, reseeded)
  BY <1>1, <1>3, <1>4 DEF LabelsIn
<1>14. SummariesIn(summaries, Docs, torn, overtaken)
  <2>1. Listed(summaries) = {sum} /\ summaries \in Seq(Summary) /\ Single(summaries)
    BY <1>1, <1>7 DEF Listed, Single
  <2>2. QED
    BY <1>8, <1>10, <2>1 DEF SummariesIn
<1>15. FilesOK
  BY <1>1 DEF FilesOK
<1>16. QED
  BY <1>11, <1>12, <1>13, <1>14, <1>15 DEF TemplatesOK

(* _create_template: no document, label or summary has the new id yet.     *)
LEMMA CreateKeeps ==
  ASSUME TemplatesOK, NEW d \in Template, NEW body \in Posted, createTemplate(d, body)
  PROVE  TemplatesOK'
<1>. DEFINE doc == [title |-> body.title, tenant |-> body.tenant, policies |-> <<>>]
<1>1. /\ d \notin used /\ stored' = stored \cup {d} /\ used' = used \cup {d}
      /\ docs' = [o \in Live' |-> IF o = Stored(d) THEN doc ELSE docs[o]]
      /\ summaries' = Synced(summaries, d, body.title)
      /\ UNCHANGED <<waiting, labels, loads, saved, overtaken, torn, reseeded>>
  BY DEF createTemplate, disk
<1>2. body.title \in Name /\ body.tenant \in TenantId \cup {NoTenant}
  BY RequestAssumption
<1>3. \A calm \in BOOLEAN : doc \in DocOf(d, doc.tenant, calm)
  <2>1. doc \in Document /\ doc.policies = <<>>
    BY <1>2 DEF Document
  <2>. HIDE DEF doc
  <2>2. ASSUME NEW calm \in BOOLEAN PROVE <<>> \in Seq(PolicyOf(d, doc.tenant, calm))
    OBVIOUS
  <2>3. QED
    BY <2>1, <2>2 DEF DocOf
<1>4. doc.title = body.title /\ DOMAIN doc.policies = {}
  OBVIOUS
<1>. HIDE DEF doc
<1>5. Live' = Live \cup {Stored(d)} /\ \A x : Stored(x)' = Stored(x)
  BY <1>1 DEF Live, Stored
<1>6. /\ Docs'[d] = doc /\ DOMAIN Docs' = stored \cup {d} /\ Docs' = [x \in DOMAIN Docs' |-> Docs'[x]]
      /\ \A x \in stored : x # d /\ Docs'[x] = Docs[x]
  <2>1. \A x \in stored : x # d /\ Stored(x) # Stored(d)
    BY <1>1 DEF TemplatesOK, HeapOK, Stored
  <2>2. \A x \in stored' : docs'[Stored(x)] = IF x = d THEN doc ELSE docs[Stored(x)]
    BY <1>1, <1>5, <2>1, DocsFacts
  <2>3. QED
    BY <1>1, <1>5, <2>1, <2>2, DocsFacts, DocsNext
<1>7. HeapOK'
  <2>1. ASSUME NEW o \in Live'
        PROVE  docs'[o] \in DocOf(o[1], docs'[o].tenant, FALSE)
    <3>1. CASE o = Stored(d)
      BY <1>1, <1>3, <3>1 DEF Stored
    <3>2. CASE o # Stored(d)
      BY <1>1, <1>5, <3>2 DEF TemplatesOK, HeapOK
    <3>3. QED
      BY <3>1, <3>2
  <2>2. \A h \in Handler : waiting'[h] # Idle => waiting'[h] \in used' \X (0..loads')
    BY <1>1 DEF TemplatesOK, HeapOK
  <2>3. stored' \subseteq used' /\ used' \subseteq Template /\ loads' \in Nat /\ DOMAIN docs' = Live'
        /\ DOMAIN waiting' = Handler
    BY <1>1 DEF TemplatesOK, HeapOK
  <2>4. QED
    BY <2>1, <2>2, <2>3 DEF HeapOK
<1>8. DocsIn(Docs', torn', used', reseeded')
  <2>1. \A x \in DOMAIN Docs' : Docs'[x] \in DocOf(x, Docs'[x].tenant, x \notin reseeded')
    BY <1>1, <1>3, <1>6, DocsFacts DEF TemplatesOK, DocsIn
  <2>2. \A x \in DOMAIN Docs' \ torn' : \A i \in DOMAIN Docs'[x].policies : Docs'[x].policies[i].uuid # NoUuid
    BY <1>1, <1>4, <1>6, DocsFacts DEF TemplatesOK, DocsIn
  <2>3. DOMAIN Docs' \subseteq used'
    BY <1>1, <1>6 DEF TemplatesOK, HeapOK
  <2>4. QED
    BY <1>6, <2>1, <2>2, <2>3 DEF DocsIn
<1>9. LabelsIn(labels', Docs', used', reseeded')
  BY <1>1, <1>6, DocsFacts DEF TemplatesOK, LabelsIn
<1>10. SummariesIn(summaries', Docs', torn', overtaken')
  <2>1. /\ summaries' \in Seq(Summary) /\ Single(summaries')
        /\ Listed(summaries') = {e \in Listed(summaries) : e.id # d} \cup {[id |-> d, title |-> body.title]}
    BY <1>1, <1>2, SyncedFacts DEF TemplatesOK, SummariesIn
  <2>2. \A e \in Listed(summaries') : e.id \in DOMAIN Docs' \cup overtaken'
    BY <1>1, <1>6, <2>1, DocsFacts DEF TemplatesOK, SummariesIn
  <2>3. ASSUME NEW x \in DOMAIN Docs'
        PROVE  \E e \in Listed(summaries') : e.id = x /\ (x \notin torn' \cup overtaken' => e.title = Docs'[x].title)
    <3>1. CASE x = d
      <4>. DEFINE e == [id |-> d, title |-> body.title]
      <4>1. e \in Listed(summaries') /\ e.id = d /\ e.title = body.title
        BY <2>1
      <4>2. QED
        BY <1>4, <1>6, <3>1, <4>1
    <3>2. CASE x # d
      <4>1. x \in DOMAIN Docs /\ Docs'[x] = Docs[x]
        BY <1>6, <3>2, DocsFacts
      <4>2. QED
        BY <1>1, <2>1, <3>2, <4>1 DEF TemplatesOK, SummariesIn
    <3>3. QED
      BY <3>1, <3>2
  <2>4. QED
    BY <2>1, <2>2, <2>3 DEF SummariesIn
<1>11. FilesOK'
  BY <1>1, FilesLast DEF TemplatesOK
<1>12. QED
  BY <1>7, <1>8, <1>9, <1>10, <1>11 DEF TemplatesOK

(* _delete_template: the document goes from both places.                   *)
LEMMA DropKeeps ==
  ASSUME TemplatesOK, NEW d, deleteTemplate(d)
  PROVE  TemplatesOK'
<1>1. /\ stored' = stored \ {d} /\ summaries' = Unlisted(summaries, d) /\ overtaken' = overtaken \ {d}
      /\ docs' = [o \in Live' |-> docs[o]]
      /\ UNCHANGED <<waiting, labels, used, loads, saved, torn, reseeded>>
  BY DEF deleteTemplate, disk
<1>2. Live' \subseteq Live /\ \A x : Stored(x)' = Stored(x)
  BY <1>1 DEF Live, Stored
<1>3. /\ DOMAIN Docs' = stored \ {d} /\ Docs' = [x \in DOMAIN Docs' |-> Docs'[x]]
      /\ \A x \in stored \ {d} : Docs'[x] = Docs[x]
  BY <1>1, <1>2, DocsFacts, DocsNext
<1>4. HeapOK'
  BY <1>1, <1>2 DEF TemplatesOK, HeapOK
<1>5. DocsIn(Docs', torn', used', reseeded')
  BY <1>1, <1>3, DocsFacts DEF TemplatesOK, DocsIn
<1>6. LabelsIn(labels', Docs', used', reseeded')
  BY <1>1, <1>3, DocsFacts DEF TemplatesOK, LabelsIn
<1>7. SummariesIn(summaries', Docs', torn', overtaken')
  <2>1. /\ summaries' \in Seq(Summary) /\ Single(summaries')
        /\ Listed(summaries') = {e \in Listed(summaries) : e.id # d}
    BY <1>1, UnlistedFacts DEF TemplatesOK, SummariesIn
  <2>2. \A e \in Listed(summaries') : e.id \in DOMAIN Docs' \cup overtaken'
    BY <1>1, <1>3, <2>1, DocsFacts DEF TemplatesOK, SummariesIn
  <2>3. ASSUME NEW x \in DOMAIN Docs'
        PROVE  \E e \in Listed(summaries') : e.id = x /\ (x \notin torn' \cup overtaken' => e.title = Docs'[x].title)
    <3>1. x \in DOMAIN Docs /\ x # d /\ Docs'[x] = Docs[x]
      BY <1>3, DocsFacts
    <3>2. PICK e \in Listed(summaries) : e.id = x /\ (x \notin torn \cup overtaken => e.title = Docs[x].title)
      BY <3>1 DEF TemplatesOK, SummariesIn
    <3>3. QED
      BY <1>1, <2>1, <3>1, <3>2
  <2>4. QED
    BY <2>1, <2>2, <2>3 DEF SummariesIn
<1>8. FilesOK'
  BY <1>1, FilesLast DEF TemplatesOK
<1>9. QED
  BY <1>4, <1>5, <1>6, <1>7, <1>8 DEF TemplatesOK

(* _patch_template, whatever became of the document while the body was     *)
(* waited for: if it is not the stored one any more, the patch shows in    *)
(* the summaries alone.                                                    *)
LEMMA PatchKeeps ==
  ASSUME TemplatesOK, NEW h \in Handler, NEW ops \in UNION Range(Batch), patchBody(h, ops)
  PROVE  TemplatesOK'
<1>. DEFINE found == waiting[h]
            d == found[1]
            current == d \in stored /\ found = Stored(d)
            run == Applied(docs[found], ops)
            tenant == docs[found].tenant
            calm == current /\ d \notin reseeded'
            new == IF run.ok THEN Backfilled(run.doc, d) ELSE run.doc
<1>1. found # Idle /\ found \in used \X (0..loads) /\ found \in Live /\ d \in used /\ d \in Template
  BY DEF patchBody, TemplatesOK, HeapOK, Live
<1>2. ops \in Batch[d] /\ ops \in Seq(Op)
  BY <1>1, RequestAssumption DEF patchBody
<1>3. /\ docs' = [o \in Live' |-> IF o # found THEN docs[o] ELSE new]
      /\ summaries' = IF run.ok THEN Synced(summaries, d, run.doc.title) ELSE summaries
      /\ overtaken' = IF ~ run.ok THEN overtaken ELSE IF current THEN overtaken \ {d} ELSE overtaken \cup {d}
      /\ torn' = IF ~ current THEN torn ELSE IF run.ok THEN torn \ {d} ELSE torn \cup {d}
  BY DEF patchBody
<1>4. /\ reseeded' = IF current /\ \E i \in DOMAIN ops : ops[i].op \in {"rename", "tenant"}
                       THEN reseeded \cup {d} ELSE reseeded
      /\ waiting' = [waiting EXCEPT ![h] = Idle]
      /\ UNCHANGED <<stored, labels, used, loads, saved>>
  BY DEF patchBody, disk
<1>. HIDE DEF run, new, d, found
<1>5. run \in RunOf(d, tenant, calm)
  <2>1. docs[found] \in DocOf(d, tenant, calm)
    <3>1. CASE calm
      <4>1. d \in DOMAIN Docs /\ Docs[d] = docs[found] /\ d \notin reseeded
        BY <1>4, <3>1, DocsFacts
      <4>2. docs[found] \in DocOf(d, tenant, d \notin reseeded)
        BY <4>1 DEF TemplatesOK, DocsIn
      <4>3. QED
        BY <3>1, <4>1, <4>2, Calmer
    <3>2. CASE ~ calm
      <4>1. docs[found] \in DocOf(d, tenant, FALSE)
        BY <1>1 DEF TemplatesOK, HeapOK, d
      <4>2. calm = FALSE
        BY <3>2
      <4>3. QED
        BY <4>1, <4>2
    <3>3. QED
      BY <3>1, <3>2
  <2>2. ops \in Seq(OpOf(calm))
    <3>1. \A i \in 1..Len(ops) : ops[i] \in Op
      BY <1>2, ElementOfSeq
    <3>2. calm => \A i \in 1..Len(ops) : ops[i].op \notin {"rename", "tenant"}
      BY <1>2, <1>4
    <3>3. \A i \in 1..Len(ops) : ops[i] \in OpOf(calm)
      BY <3>1, <3>2 DEF OpOf
    <3>4. ops = [i \in 1..Len(ops) |-> ops[i]] /\ Len(ops) \in Nat
      BY <1>2
    <3>. HIDE DEF calm
    <3>5. [i \in 1..Len(ops) |-> ops[i]] \in Seq(OpOf(calm))
      BY <3>3, <3>4, IsASeq
    <3>6. QED
      BY <3>4, <3>5
  <2>3. calm \in BOOLEAN
    OBVIOUS
  <2>. HIDE DEF calm, tenant
  <2>4. QED
    BY <1>1, <2>1, <2>2, <2>3, AppliedKeeps DEF run
<1>6. run.doc \in DocOf(d, tenant, calm) /\ run.ok \in BOOLEAN /\ calm \in BOOLEAN
  BY <1>5 DEF RunOf
<1>7. /\ new \in DocOf(d, tenant, calm) /\ new.title = run.doc.title
      /\ run.ok => \A i \in DOMAIN new.policies : new.policies[i].uuid # NoUuid
  <2>. DEFINE filled == Backfilled(run.doc, d)
  <2>1. /\ filled \in DocOf(d, tenant, calm) /\ filled.title = run.doc.title
        /\ \A i \in DOMAIN filled.policies : filled.policies[i].uuid # NoUuid
    <3>. HIDE DEF calm, tenant
    <3>1. QED
      BY <1>1, <1>6, BackfilledKeeps
  <2>. HIDE DEF filled, calm, tenant
  <2>2. new = IF run.ok THEN filled ELSE run.doc
    BY DEF filled, new
  <2>3. QED
    BY <1>6, <2>1, <2>2
<1>8. new \in DocOf(d, new.tenant, calm)
  <2>1. CASE calm
    BY <1>7, <2>1 DEF DocOf
  <2>2. CASE ~ calm
    <3>1. PolicyOf(d, tenant, calm) = PolicyOf(d, new.tenant, calm)
      BY <2>2 DEF PolicyOf
    <3>2. QED
      BY <1>7, <2>2, <3>1 DEF DocOf
  <2>3. QED
    BY <2>1, <2>2
<1>9. calm => new.tenant = tenant
  BY <1>7 DEF DocOf
<1>10. Live' \subseteq Live /\ \A x : Stored(x)' = Stored(x)
  <2>1. \A x : Stored(x)' = Stored(x)
    BY <1>4 DEF Stored
  <2>2. \A x \in Handler : waiting'[x] # Idle => waiting'[x] = waiting[x]
    BY <1>4 DEF TemplatesOK, HeapOK
  <2>3. QED
    BY <1>4, <2>1, <2>2 DEF Live
<1>11. /\ DOMAIN Docs' = stored /\ Docs' = [x \in DOMAIN Docs' |-> Docs'[x]]
       /\ \A x \in stored : Docs'[x] = IF current /\ x = d THEN new ELSE Docs[x]
  <2>1. ASSUME NEW x \in stored
        PROVE  Docs'[x] = IF current /\ x = d THEN new ELSE Docs[x]
    <3>1. Docs'[x] = docs'[Stored(x)] /\ Stored(x) \in Live' /\ Docs[x] = docs[Stored(x)]
      BY <1>4, <1>10, DocsFacts, DocsNext
    <3>2. Stored(x) = found <=> current /\ x = d
      <4>1. Stored(x)[1] = x
        BY DEF Stored
      <4>2. QED
        BY <4>1 DEF d
    <3>3. QED
      BY <1>3, <3>1, <3>2
  <2>2. QED
    BY <1>4, <2>1, DocsNext
<1>12. HeapOK'
  <2>1. ASSUME NEW o \in Live'
        PROVE  docs'[o] \in DocOf(o[1], docs'[o].tenant, FALSE)
    <3>1. CASE o = found
      <4>1. docs'[o] = new /\ o[1] = d
        BY <1>3, <2>1, <3>1 DEF d
      <4>2. FALSE \in BOOLEAN /\ (FALSE => calm)
        OBVIOUS
      <4>. HIDE DEF calm
      <4>3. new \in DocOf(d, new.tenant, FALSE)
        BY <1>6, <1>8, <4>2, Calmer
      <4>4. QED
        BY <4>1, <4>3
    <3>2. CASE o # found
      BY <1>3, <1>10, <3>2 DEF TemplatesOK, HeapOK
    <3>3. QED
      BY <3>1, <3>2
  <2>2. DOMAIN waiting' = Handler /\ \A x \in Handler : waiting'[x] # Idle => waiting'[x] \in used' \X (0..loads')
    BY <1>4 DEF TemplatesOK, HeapOK
  <2>3. stored' \subseteq used' /\ used' \subseteq Template /\ loads' \in Nat /\ DOMAIN docs' = Live'
    BY <1>3, <1>4 DEF TemplatesOK, HeapOK
  <2>4. QED
    BY <2>1, <2>2, <2>3 DEF HeapOK
<1>13. DocsIn(Docs', torn', used', reseeded')
  <2>1. ASSUME NEW x \in stored
        PROVE  Docs'[x] \in DocOf(x, Docs'[x].tenant, x \notin reseeded')
    <3>1. CASE current /\ x = d
      <4>1. calm = (x \notin reseeded')
        BY <3>1
      <4>2. QED
        BY <1>8, <1>11, <3>1, <4>1
    <3>2. CASE ~ (current /\ x = d)
      <4>1. Docs'[x] = Docs[x] /\ (x \in reseeded' <=> x \in reseeded)
        BY <1>4, <1>11, <3>2
      <4>2. Docs[x] \in DocOf(x, Docs[x].tenant, x \notin reseeded)
        BY DocsFacts DEF TemplatesOK, DocsIn
      <4>3. (x \notin reseeded') = (x \notin reseeded)
        BY <4>1
      <4>4. QED
        BY <4>1, <4>2, <4>3
    <3>3. QED
      BY <3>1, <3>2
  <2>2. ASSUME NEW x \in stored \ torn'
        PROVE  \A i \in DOMAIN Docs'[x].policies : Docs'[x].policies[i].uuid # NoUuid
    <3>1. CASE current /\ x = d
      BY <1>3, <1>7, <1>11, <2>2, <3>1
    <3>2. CASE ~ (current /\ x = d)
      <4>1. Docs'[x] = Docs[x] /\ x \notin torn
        BY <1>3, <1>11, <2>2, <3>2
      <4>2. QED
        BY <4>1, DocsFacts DEF TemplatesOK, DocsIn
    <3>3. QED
      BY <3>1, <3>2
  <2>3. DOMAIN Docs' \subseteq used'
    BY <1>4, <1>11 DEF TemplatesOK, HeapOK
  <2>4. QED
    BY <1>11, <2>1, <2>2, <2>3 DEF DocsIn
<1>14. LabelsIn(labels', Docs', used', reseeded')
  <2>1. ASSUME NEW l \in labels
        PROVE  /\ l.uuid # NoUuid /\ l.uuid[1] \in used'
               /\ l.uuid[1] \in DOMAIN Docs' \ reseeded'
                    => l.uuid = UuidOf(l.uuid[1], Docs'[l.uuid[1]].tenant, l.name)
    <3>1. l.uuid # NoUuid /\ l.uuid[1] \in used'
      BY <1>4 DEF TemplatesOK, LabelsIn
    <3>2. ASSUME l.uuid[1] \in DOMAIN Docs' \ reseeded'
          PROVE  l.uuid = UuidOf(l.uuid[1], Docs'[l.uuid[1]].tenant, l.name)
      <4>1. l.uuid[1] \in stored \ reseeded
        BY <1>4, <1>11, <3>2
      <4>2. l.uuid = UuidOf(l.uuid[1], Docs[l.uuid[1]].tenant, l.name)
        BY <4>1, DocsFacts DEF TemplatesOK, LabelsIn
      <4>3. CASE current /\ l.uuid[1] = d
        <5>1. calm /\ Docs[d].tenant = tenant
          BY <3>2, <4>1, <4>3, DocsFacts
        <5>2. QED
          BY <1>9, <1>11, <4>1, <4>2, <4>3, <5>1
      <4>4. CASE ~ (current /\ l.uuid[1] = d)
        BY <1>11, <4>1, <4>2, <4>4
      <4>5. QED
        BY <4>3, <4>4
    <3>3. QED
      BY <3>1, <3>2
  <2>2. QED
    BY <1>4, <2>1 DEF LabelsIn
<1>15. SummariesIn(summaries', Docs', torn', overtaken')
  <2>1. CASE ~ run.ok
    <3>1. UNCHANGED <<summaries, overtaken>>
      BY <1>3, <2>1
    <3>2. Listed(summaries') = Listed(summaries) /\ Single(summaries') /\ summaries' \in Seq(Summary)
      BY <3>1 DEF TemplatesOK, SummariesIn
    <3>3. ASSUME NEW x \in DOMAIN Docs'
          PROVE  \E e \in Listed(summaries') : e.id = x /\ (x \notin torn' \cup overtaken' => e.title = Docs'[x].title)
      <4>1. x \in DOMAIN Docs
        BY <1>11, DocsFacts
      <4>2. PICK e \in Listed(summaries) : e.id = x /\ (x \notin torn \cup overtaken => e.title = Docs[x].title)
        BY <4>1 DEF TemplatesOK, SummariesIn
      <4>3. x \notin torn' => x \notin torn /\ Docs'[x] = Docs[x]
        BY <1>3, <1>11, <2>1, <4>1, DocsFacts
      <4>4. QED
        BY <3>1, <3>2, <4>2, <4>3
    <3>4. \A e \in Listed(summaries') : e.id \in DOMAIN Docs' \cup overtaken'
      BY <1>11, <3>1, <3>2, DocsFacts DEF TemplatesOK, SummariesIn
    <3>5. QED
      BY <3>2, <3>3, <3>4 DEF SummariesIn
  <2>2. CASE run.ok
    <3>1. run.doc.title \in Name
      BY <1>6 DEF DocOf, Document
    <3>2. /\ summaries' \in Seq(Summary) /\ Single(summaries')
          /\ Listed(summaries') = {e \in Listed(summaries) : e.id # d} \cup {[id |-> d, title |-> run.doc.title]}
      BY <1>1, <1>3, <2>2, <3>1, SyncedFacts DEF TemplatesOK, SummariesIn
    <3>3. ASSUME NEW e \in Listed(summaries')
          PROVE  e.id \in DOMAIN Docs' \cup overtaken'
      <4>1. CASE e.id = d
        BY <1>3, <1>11, <2>2, <4>1
      <4>2. CASE e.id # d
        <5>1. e \in Listed(summaries)
          BY <3>2, <4>2
        <5>2. e.id \in stored \cup overtaken
          BY <5>1, DocsFacts DEF TemplatesOK, SummariesIn
        <5>3. QED
          BY <1>3, <1>11, <4>2, <5>2
      <4>3. QED
        BY <4>1, <4>2
    <3>4. ASSUME NEW x \in DOMAIN Docs'
          PROVE  \E e \in Listed(summaries') : e.id = x /\ (x \notin torn' \cup overtaken' => e.title = Docs'[x].title)
      <4>1. CASE x = d
        <5>. DEFINE e == [id |-> d, title |-> run.doc.title]
        <5>1. e \in Listed(summaries') /\ e.id = d /\ e.title = run.doc.title
          BY <3>2
        <5>2. d \notin overtaken' => current
          BY <1>3, <2>2
        <5>3. current => Docs'[d] = new
          BY <1>11
        <5>. HIDE DEF e, current
        <5>4. QED
          BY <1>7, <4>1, <5>1, <5>2, <5>3
      <4>2. CASE x # d
        <5>1. /\ x \in DOMAIN Docs /\ Docs'[x] = Docs[x]
              /\ x \notin torn' \cup overtaken' => x \notin torn \cup overtaken
          BY <1>3, <1>11, <2>2, <4>2, DocsFacts
        <5>2. PICK e \in Listed(summaries) : e.id = x /\ (x \notin torn \cup overtaken => e.title = Docs[x].title)
          BY <5>1 DEF TemplatesOK, SummariesIn
        <5>3. QED
          BY <3>2, <4>2, <5>1, <5>2
      <4>3. QED
        BY <4>1, <4>2
    <3>5. QED
      BY <3>2, <3>3, <3>4 DEF SummariesIn
  <2>3. QED
    BY <1>6, <2>1, <2>2
<1>16. FilesOK'
  BY <1>4, FilesLast DEF TemplatesOK
<1>17. QED
  BY <1>12, <1>13, <1>14, <1>15, <1>16 DEF TemplatesOK

(* A label is bound to a uuid that belongs to the name, or that is the     *)
(* template's own.                                                         *)
LEMMA BindKeeps ==
  ASSUME TemplatesOK, NEW name \in Name, bindLabel(name)
  PROVE  TemplatesOK'
<1>1. PICK x \in Called(name) :
        LET uuid == docs[Stored(x[1])].policies[x[2]].uuid
        IN  uuid # NoUuid /\ labels' = {[name |-> name, uuid |-> uuid]}
  BY DEF bindLabel
<1>2. UNCHANGED <<docs, stored, summaries, waiting, used, loads, saved, overtaken, torn, reseeded>>
  BY DEF bindLabel, disk
<1>. DEFINE d == x[1]
            p == Docs[d].policies[x[2]]
<1>3. d \in stored /\ d \in DOMAIN Docs /\ x[2] \in DOMAIN Docs[d].policies /\ p.name = name
  BY DocsFacts DEF Called
<1>4. Docs[d] \in DocOf(d, Docs[d].tenant, d \notin reseeded) /\ d \in used
  BY <1>3 DEF TemplatesOK, DocsIn
<1>5. p \in PolicyOf(d, Docs[d].tenant, d \notin reseeded)
  BY <1>3, <1>4, ElementOfSeq DEF DocOf
<1>6. labels' = {[name |-> name, uuid |-> p.uuid]} /\ p.uuid # NoUuid
  BY <1>1, <1>3, DocsFacts
<1>. HIDE DEF p, d
<1>7. p.uuid[1] = d /\ (d \notin reseeded => p.uuid = UuidOf(d, Docs[d].tenant, name))
  BY <1>3, <1>5, <1>6 DEF PolicyOf
<1>8. UNCHANGED <<Docs, Live>>
  BY <1>2 DEF Docs, Live, Stored
<1>9. LabelsIn(labels', Docs', used', reseeded')
  BY <1>2, <1>4, <1>6, <1>7, <1>8 DEF LabelsIn
<1>10. HeapOK'
  BY <1>2, <1>8 DEF TemplatesOK, HeapOK
<1>11. DocsIn(Docs', torn', used', reseeded') /\ SummariesIn(summaries', Docs', torn', overtaken')
  BY <1>2, <1>8 DEF TemplatesOK
<1>12. FilesOK'
  BY <1>2, FilesLast DEF TemplatesOK
<1>13. QED
  BY <1>9, <1>10, <1>11, <1>12 DEF TemplatesOK

(* What is saved is what holds.                                            *)
LEMMA SaveKeepsTemplates ==
  ASSUME TemplatesOK, NEW f \in File, simSave(f)
  PROVE  TemplatesOK'
<1>1. /\ saved' = [saved EXCEPT ![f] = Snapshot]
      /\ UNCHANGED <<docs, stored, summaries, waiting, labels, used, loads, overtaken, torn, reseeded>>
  BY DEF simSave
<1>2. UNCHANGED <<Docs, Live>>
  BY <1>1 DEF Docs, Live, Stored
<1>3. HeapOK'
  BY <1>1, <1>2 DEF TemplatesOK, HeapOK
<1>4. FileOK(Snapshot, used, reseeded)
  <2>1. /\ Snapshot.docs = Docs /\ Snapshot.torn = torn /\ Snapshot.overtaken = overtaken
        /\ Snapshot.labels = labels /\ Snapshot.summaries = summaries
    BY DEF Snapshot, Docs
  <2>2. QED
    BY <2>1 DEF FileOK, TemplatesOK
<1>5. FilesOK'
  <2>1. DOMAIN saved' = File /\ \A g \in File : saved'[g] = IF g = f THEN Snapshot ELSE saved[g]
    BY <1>1 DEF TemplatesOK, FilesOK
  <2>2. QED
    BY <1>1, <1>4, <2>1 DEF TemplatesOK, FilesOK
<1>6. QED
  BY <1>1, <1>2, <1>3, <1>5 DEF TemplatesOK

(* A load makes new objects of the saved documents; those that are waited  *)
(* for stay, of an earlier load.                                           *)
LEMMA LoadKeepsTemplates ==
  ASSUME TemplatesOK, NEW f \in File, simLoad(f)
  PROVE  TemplatesOK'
<1>. DEFINE s == saved[f]
<1>1. /\ s # NoFile /\ loads' = loads + 1 /\ stored' = DOMAIN s.docs
      /\ UNCHANGED <<waiting, used, saved, reseeded>>
      /\ docs' = [o \in Live' |-> IF o[2] = loads' THEN s.docs[o[1]] ELSE docs[o]]
      /\ summaries' = s.summaries /\ labels' = s.labels
      /\ overtaken' = s.overtaken /\ torn' = s.torn
  BY DEF simLoad
<1>2. FileOK(s, used, reseeded)
  BY <1>1 DEF TemplatesOK, FilesOK
<1>3. loads \in Nat /\ used \subseteq Template
  BY DEF TemplatesOK, HeapOK
<1>. HIDE DEF s
<1>4. /\ s.docs = [d \in DOMAIN s.docs |-> s.docs[d]] /\ DOMAIN s.docs \subseteq used
      /\ \A d \in DOMAIN s.docs : s.docs[d] \in DocOf(d, s.docs[d].tenant, d \notin reseeded)
  BY <1>2 DEF FileOK, DocsIn
<1>5. \A d \in stored' : <<d, loads'>> \in Live' /\ docs'[<<d, loads'>>] = s.docs[d]
  <2>1. \A d \in stored' : <<d, loads'>> \in Live'
    BY DEF Live, Stored
  <2>2. QED
    BY <1>1, <2>1
<1>6. Docs' = s.docs
  <2>1. \A d \in stored' : Docs'[d] = s.docs[d]
    BY <1>5, DocsNext DEF Stored
  <2>2. QED
    BY <1>1, <1>4, <2>1, DocsNext
<1>7. HeapOK'
  <2>1. ASSUME NEW o \in Live'
        PROVE  docs'[o] \in DocOf(o[1], docs'[o].tenant, FALSE)
    <3>1. CASE \E d \in stored' : o = <<d, loads'>>
      <4>1. PICK d \in stored' : o = <<d, loads'>>
        BY <3>1
      <4>2. docs'[o] = s.docs[d] /\ o[1] = d /\ s.docs[d] \in DocOf(d, s.docs[d].tenant, d \notin reseeded)
        BY <1>1, <1>4, <1>5, <4>1
      <4>3. s.docs[d] \in DocOf(d, s.docs[d].tenant, FALSE)
        BY <4>2, Calmer
      <4>4. QED
        BY <4>2, <4>3
    <3>2. CASE \E h \in Handler : waiting[h] # Idle /\ o = waiting[h]
      <4>1. PICK h \in Handler : waiting[h] # Idle /\ o = waiting[h]
        BY <3>2
      <4>2. o \in Live /\ o \in used \X (0..loads)
        BY <4>1 DEF Live, TemplatesOK, HeapOK
      <4>3. o[2] # loads'
        BY <1>1, <1>3, <4>2
      <4>4. docs'[o] = docs[o]
        BY <1>1, <2>1, <4>3
      <4>5. QED
        BY <4>2, <4>4 DEF TemplatesOK, HeapOK
    <3>3. QED
      BY <1>1, <2>1, <3>1, <3>2 DEF Live, Stored
  <2>2. \A h \in Handler : waiting'[h] # Idle => waiting'[h] \in used' \X (0..loads')
    <3>1. 0..loads \subseteq 0..loads'
      BY <1>1, <1>3
    <3>2. QED
      BY <1>1, <3>1 DEF TemplatesOK, HeapOK
  <2>3. stored' \subseteq used' /\ used' \subseteq Template /\ loads' \in Nat /\ DOMAIN docs' = Live'
        /\ DOMAIN waiting' = Handler
    BY <1>1, <1>3, <1>4 DEF TemplatesOK, HeapOK
  <2>4. QED
    BY <2>1, <2>2, <2>3 DEF HeapOK
<1>8. /\ DocsIn(Docs', torn', used', reseeded') /\ LabelsIn(labels', Docs', used', reseeded')
      /\ SummariesIn(summaries', Docs', torn', overtaken')
  BY <1>1, <1>2, <1>6 DEF FileOK
<1>9. FilesOK'
  BY <1>1, FilesLast DEF TemplatesOK
<1>10. QED
  BY <1>7, <1>8, <1>9 DEF TemplatesOK

LEMMA TemplatesStep == TemplatesOK /\ [Next]_vars => TemplatesOK'
<1>. SUFFICES ASSUME TemplatesOK, [Next]_vars PROVE TemplatesOK'
  OBVIOUS
<1>1. ASSUME NEW id \in TenantId, createTenant(id) \/ deleteTenant(id)
      PROVE  TemplatesOK'
  BY <1>1, Untouched DEF createTenant, deleteTenant
<1>2. ASSUME NEW h \in Handler, NEW ops \in UNION Range(Batch), patchBody(h, ops)
      PROVE  TemplatesOK'
  BY <1>2, PatchKeeps
<1>3. ASSUME NEW h \in Handler, NEW d \in stored, patchFound(h, d)
      PROVE  TemplatesOK'
  <2>1. /\ waiting[h] = Idle /\ waiting' = [waiting EXCEPT ![h] = Stored(d)]
        /\ UNCHANGED <<docs, stored, summaries, labels, used, loads, saved, overtaken, torn, reseeded>>
    BY <1>3 DEF patchFound, disk
  <2>2. Docs' = Docs /\ Stored(d)' = Stored(d) /\ Stored(d) \in used \X (0..loads)
    BY <2>1 DEF Docs, Stored, TemplatesOK, HeapOK
  <2>3. /\ DOMAIN waiting' = Handler
        /\ \A x \in Handler : waiting'[x] = IF x = h THEN Stored(d) ELSE waiting[x]
    BY <2>1 DEF TemplatesOK, HeapOK
  <2>4. Live' = Live
    <3>1. \A x : Stored(x)' = Stored(x)
      BY <2>1 DEF Stored
    <3>2. Live' = {Stored(x) : x \in stored} \cup {waiting'[x] : x \in {y \in Handler : waiting'[y] # Idle}}
      BY <2>1, <3>1 DEF Live
    <3>3. Stored(d) \in {Stored(x) : x \in stored}
      OBVIOUS
    <3>4. ASSUME NEW o
          PROVE  o \in Live' <=> o \in Live
      BY <2>1, <2>3, <3>2, <3>3 DEF Live
    <3>5. QED
      BY <3>4, <3>2 DEF Live
  <2>5. HeapOK'
    BY <2>1, <2>2, <2>3, <2>4 DEF TemplatesOK, HeapOK
  <2>6. FilesOK'
    BY <2>1, FilesLast DEF TemplatesOK
  <2>7. QED
    BY <2>1, <2>2, <2>5, <2>6 DEF TemplatesOK
<1>4. ASSUME NEW s \in Schema, NEW id \in TenantId \cup {NoTenant}, setSchema(s, id)
      PROVE  TemplatesOK'
  BY <1>4, Untouched DEF setSchema
<1>5. ASSUME NEW d \in Template, NEW body \in Posted, createTemplate(d, body)
      PROVE  TemplatesOK'
  BY <1>5, CreateKeeps
<1>6. ASSUME NEW d \in used, deleteTemplate(d)
      PROVE  TemplatesOK'
  BY <1>6, DropKeeps
<1>7. ASSUME NEW name \in Name, bindLabel(name)
      PROVE  TemplatesOK'
  BY <1>7, BindKeeps
<1>8. ASSUME NEW f \in File, simSave(f) \/ simLoad(f)
      PROVE  TemplatesOK'
  BY <1>8, SaveKeepsTemplates, LoadKeepsTemplates
<1>9. CASE UNCHANGED vars
  BY <1>9, Untouched DEF vars, state
<1>10. QED
  BY <1>1, <1>2, <1>3, <1>4, <1>5, <1>6, <1>7, <1>8, <1>9 DEF Next

THEOREM TemplatesInductive == Spec => []TemplatesOK
BY TemplatesInit, TemplatesStep, PTL DEF Spec

(* A stored template has one summary, its own unless a PATCH tore it or    *)
(* came late, and every other summary was put there by a PATCH that came   *)
(* late: after a DELETE, or after a load that replaced the document.       *)
THEOREM SummariesCorrect == Spec => []SummariesExact
<1>1. TemplatesOK => SummariesExact
  <2>. SUFFICES ASSUME TemplatesOK PROVE SummariesExact
    OBVIOUS
  <2>1. summaries \in Seq(Summary) /\ Single(summaries) /\ DOMAIN summaries = 1..Len(summaries)
    BY DEF TemplatesOK, SummariesIn
  <2>2. ASSUME NEW d \in stored
        PROVE  /\ Cardinality({i \in DOMAIN summaries : summaries[i].id = d}) = 1
               /\ d \notin torn \cup overtaken
                    => [id |-> d, title |-> docs[Stored(d)].title] \in Range(summaries)
    <3>1. PICK k \in 1..Len(summaries) :
            summaries[k].id = d /\ (d \notin torn \cup overtaken => summaries[k].title = docs[Stored(d)].title)
      BY DocsFacts DEF TemplatesOK, SummariesIn, Listed
    <3>2. {i \in DOMAIN summaries : summaries[i].id = d} = {k}
      BY <2>1, <3>1 DEF Single
    <3>3. Cardinality({k}) = 1
      BY FS_Singleton
    <3>4. summaries[k] \in Summary /\ summaries[k] \in Range(summaries)
      BY <2>1, <3>1, ElementOfSeq DEF Range
    <3>5. d \notin torn \cup overtaken => summaries[k] = [id |-> d, title |-> docs[Stored(d)].title]
      BY <3>1, <3>4 DEF Summary
    <3>6. QED
      BY <3>2, <3>3, <3>4, <3>5
  <2>3. \A i \in DOMAIN summaries : summaries[i].id \in stored \cup overtaken
    BY <2>1, DocsFacts DEF TemplatesOK, SummariesIn, Listed
  <2>4. QED
    BY <2>2, <2>3 DEF SummariesExact
<1>2. QED
  BY <1>1, TemplatesInductive, PTL

(* What _get_template_objects finds by the uuid of a label is the policy   *)
(* the label was bound to, while there is one of the name.                 *)
THEOREM LabelsCorrect == Spec => []LabelsResolve
<1>1. TemplatesOK => LabelsResolve
  <2>. SUFFICES ASSUME TemplatesOK PROVE LabelsResolve
    OBVIOUS
  <2>1. ASSUME NEW l \in labels, l.uuid[1] \in stored \ (reseeded \cup torn),
               PlaceOf(docs[Stored(l.uuid[1])], l.name) # 0
        PROVE  Resolved(l.uuid) = l.name
    <3>. DEFINE d == l.uuid[1]
                doc == docs[Stored(d)]
                ps == doc.policies
                I == {i \in 1..Len(ps) : ps[i].uuid = l.uuid}
                k == SelectInSeq(ps, LAMBDA p : p.uuid = l.uuid)
    <3>1. /\ d \in DOMAIN Docs /\ Docs[d] = doc /\ l.uuid = UuidOf(d, doc.tenant, l.name)
          /\ doc \in DocOf(d, doc.tenant, TRUE)
      <4>1. d \in DOMAIN Docs /\ Docs[d] = doc
        BY <2>1, DocsFacts
      <4>2. l.uuid = UuidOf(d, doc.tenant, l.name)
        BY <2>1, <4>1 DEF TemplatesOK, LabelsIn
      <4>3. doc \in DocOf(d, doc.tenant, d \notin reseeded) /\ (d \notin reseeded) = TRUE
        BY <2>1, <4>1 DEF TemplatesOK, DocsIn
      <4>4. QED
        BY <4>1, <4>2, <4>3
    <3>2. doc \in Document /\ ps \in Seq(PolicyOf(d, doc.tenant, TRUE))
      BY <3>1 DEF DocOf
    <3>3. ASSUME NEW i \in 1..Len(ps)
          PROVE  ps[i].uuid = UuidOf(d, doc.tenant, ps[i].name)
      <4>1. ps[i] \in PolicyOf(d, doc.tenant, TRUE)
        BY <3>2, ElementOfSeq
      <4>2. i \in DOMAIN ps /\ ps[i].uuid # NoUuid
        BY <2>1, <3>1, <3>2 DEF TemplatesOK, DocsIn
      <4>3. QED
        BY <4>1, <4>2 DEF PolicyOf
    <3>4. PICK i \in 1..Len(ps) : ps[i].name = l.name
      BY <2>1, <3>2, FoundPolicy
    <3>5. i \in I
      BY <3>1, <3>3, <3>4
    <3>6. k = IF I # {} THEN Min(I) ELSE 0
      BY DEF SelectInSeq
    <3>7. Min(I) \in I
      <4>1. I \in SUBSET Nat /\ I # {}
        BY <3>5
      <4>. HIDE DEF I
      <4>2. QED
        BY <4>1, LeastPlace
    <3>. HIDE DEF k
    <3>8. /\ k \in 1..Len(ps) /\ k # 0
          /\ ps[k].uuid = l.uuid /\ ps[k].uuid = UuidOf(d, doc.tenant, ps[k].name)
      <4>1. k \in I
        BY <3>5, <3>6, <3>7
      <4>2. k \in 1..Len(ps) /\ ps[k].uuid = l.uuid
        BY <4>1
      <4>3. QED
        BY <3>3, <4>2
    <3>9. ps[k].name = l.name
      <4>1. <<d, doc.tenant, ps[k].name>> = <<d, doc.tenant, l.name>>
        BY <3>1, <3>8, Zenon DEF UuidOf
      <4>. HIDE DEF d, doc, ps
      <4>2. QED
        BY <4>1
    <3>10. Resolved(l.uuid) = IF k = 0 THEN "nothing" ELSE ps[k].name
      BY <2>1 DEF Resolved, k
    <3>11. QED
      BY <3>8, <3>9, <3>10
  <2>2. \A d \in stored \ torn : \A p \in Range(docs[Stored(d)].policies) : p.uuid # NoUuid
    BY DocsFacts DEF TemplatesOK, DocsIn, Range
  <2>3. QED
    BY <2>1, <2>2 DEF LabelsResolve
<1>2. QED
  BY <1>1, TemplatesInductive, PTL
=============================================================================
