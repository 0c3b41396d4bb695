------------------------- MODULE NdoSchemas_proofs -------------------------
(* That the three records of a schema agree, for any schemas, PATCHes in   *)
(* flight, batches of ops and names.                                       *)
EXTENDS NdoSchemas, SequenceTheorems, Iteration, TLAPS

(* The summaries of an id: none or one.                                    *)
Flat(sums) == \A s \in Sid : sums[s] = <<>> \/ sums[s] = <<sums[s][1]>>

(* A schema that has a document has its summary and its policy record.     *)
Backed(docs, sums, records) == \A s \in Sid : docs[s] # None => sums[s] # <<>> /\ s \in records

Distinct(refs) == \A s, t \in Sid : refs[s] # None /\ refs[t] = refs[s] => t = s

(* The summaries of deleted schemas that a PATCH put back have to be kept  *)
(* single too, as their ids may get a document again; and what was saved   *)
(* must be as sound as what it comes back as.                              *)
Inv ==
  /\ details \in [Sid -> Ref \cup {None}]
  /\ DOMAIN listed = Sid
  /\ \A q \in Patcher : pending[q] # None => pending[q].sid \in Sid
  /\ DOMAIN pending = Patcher
  /\ Flat(listed) /\ Backed(details, listed, policy) /\ Distinct(details)
  /\ saved # None => /\ DOMAIN saved.listed = Sid
                     /\ Flat(saved.listed) /\ Backed(saved.docs, saved.listed, saved.policy)

LEMMA SyncedFacts ==
  ASSUME DOMAIN listed = Sid, Flat(listed), NEW s \in Sid, NEW doc
  PROVE  /\ DOMAIN Synced(s, doc) = Sid /\ Flat(Synced(s, doc)) /\ Synced(s, doc)[s] # <<>>
         /\ \A t \in Sid \ {s} : Synced(s, doc)[t] = listed[t]
<1>. DEFINE new == Synced(s, doc)
<1>1. DOMAIN new = Sid /\ \A t \in Sid \ {s} : new[t] = listed[t]
  BY DEF Synced
<1>2. new[s] = IF listed[s] = <<>> THEN <<doc>> ELSE [listed[s] EXCEPT ![1] = doc]
  BY DEF Synced
<1>3. new[s] = <<doc>>
  <2>1. CASE listed[s] = <<>>
    BY <1>2, <2>1
  <2>2. CASE listed[s] # <<>>
    <3>1. listed[s] = <<listed[s][1]>>
      BY <2>2 DEF Flat
    <3>2. \A d : [<<d>> EXCEPT ![1] = doc] = <<doc>>
      OBVIOUS
    <3>3. QED
      BY <1>2, <2>2, <3>1, <3>2
  <2>3. QED
    BY <2>1, <2>2
<1>. HIDE DEF new
<1>4. new[s] # <<>> /\ new[s] = <<new[s][1]>>
  BY <1>3
<1>5. Flat(new)
  BY <1>1, <1>4 DEF Flat
<1>6. QED
  BY <1>1, <1>4, <1>5 DEF new

(* A document with a new identity in the place of a schema's.              *)
LEMMA FreshFacts ==
  ASSUME Inv, NEW s \in Sid, NEW r \in Fresh, details' = [details EXCEPT ![s] = r]
  PROVE  details' \in [Sid -> Ref \cup {None}] /\ Distinct(details')
<1>1. r \in Ref /\ \A t \in Sid : details[t] # r
  BY DEF Fresh, Held
<1>2. details' \in [Sid -> Ref \cup {None}]
  BY <1>1 DEF Inv
<1>3. details'[s] = r /\ \A t \in Sid \ {s} : details'[t] = details[t]
  BY DEF Inv
<1>4. QED
  BY <1>1, <1>2, <1>3 DEF Inv, Distinct

LEMMA PlacedFacts ==
  ASSUME NEW docs, Placed(docs)
  PROVE  /\ details' \in [Sid -> Ref \cup {None}] /\ Distinct(details')
         /\ \A s \in Sid : details'[s] # None => docs[s] # None
  BY DEF Placed, Distinct

LEMMA CreateKeeps ==
  ASSUME Inv, NEW s \in Sid, NEW doc, createSchema(s, doc)
  PROVE  Inv'
<1>1. PICK r \in Fresh : details' = [details EXCEPT ![s] = r]
  BY DEF createSchema
<1>2. details' \in [Sid -> Ref \cup {None}] /\ Distinct(details')
  BY <1>1, FreshFacts
<1>3. listed' = [listed EXCEPT ![s] = <<doc>>]
  <2>1. listed[s] = <<>> /\ listed' = [listed EXCEPT ![s] = Append(@, doc)]
    BY DEF createSchema, New
  <2>2. Append(<<>>, doc) = <<doc>>
    OBVIOUS
  <2>3. QED
    BY <2>1, <2>2
<1>4. DOMAIN listed' = Sid /\ listed'[s] = <<doc>> /\ \A t \in Sid \ {s} : listed'[t] = listed[t]
  BY <1>3 DEF Inv
<1>5. Flat(listed')
  <2>1. <<doc>> = <<listed'[s][1]>>
    BY <1>4
  <2>2. QED
    BY <1>4, <2>1 DEF Inv, Flat
<1>6. Backed(details', listed', policy')
  <2>1. policy' = policy \cup {s} /\ \A t \in Sid \ {s} : details'[t] = details[t]
    BY <1>1 DEF createSchema, Inv
  <2>2. <<doc>> # <<>>
    OBVIOUS
  <2>3. QED
    BY <1>4, <2>1, <2>2 DEF Inv, Backed
<1>7. UNCHANGED <<pending, saved>>
  BY DEF createSchema
<1>8. QED
  BY <1>2, <1>4, <1>5, <1>6, <1>7 DEF Inv

(* Any PATCH that is over has let go of its document.                      *)
LEMMA PendingFacts ==
  ASSUME Inv, NEW q \in Patcher, pending' = [pending EXCEPT ![q] = None]
  PROVE  /\ DOMAIN pending' = Patcher
         /\ \A p \in Patcher : pending'[p] # None => pending'[p].sid \in Sid
  BY DEF Inv

LEMMA PatchFastKeeps ==
  ASSUME Inv, NEW q \in Patcher, NEW b, patchFast(q, b)
  PROVE  Inv'
<1>. DEFINE s   == pending[q].sid
            out == Applied(obj[pending[q].ref], b.ops)
<1>1. s \in Sid
  BY DEF patchFast, Inv
<1>2. /\ listed' = (IF out.ok THEN Synced(s, out.doc) ELSE listed)
      /\ policy' = (IF out.ok THEN policy \cup {s} ELSE policy)
      /\ pending' = [pending EXCEPT ![q] = None] /\ UNCHANGED <<details, saved>>
  BY DEF patchFast
<1>. HIDE DEF s, out
<1>3. /\ DOMAIN pending' = Patcher
      /\ \A p \in Patcher : pending'[p] # None => pending'[p].sid \in Sid
  BY <1>2, PendingFacts
<1>4. CASE out.ok
  <2>1. /\ DOMAIN listed' = Sid /\ Flat(listed') /\ listed'[s] # <<>>
        /\ \A t \in Sid \ {s} : listed'[t] = listed[t]
    BY <1>1, <1>2, <1>4, SyncedFacts DEF Inv
  <2>2. Backed(details', listed', policy')
    BY <1>2, <1>4, <2>1 DEF Inv, Backed
  <2>3. QED
    BY <1>2, <1>3, <2>1, <2>2 DEF Inv
<1>5. CASE ~ out.ok
  BY <1>2, <1>3, <1>5 DEF Inv
<1>6. QED
  BY <1>4, <1>5

LEMMA PatchGatedKeeps ==
  ASSUME Inv, NEW q \in Patcher, NEW b, NEW valid \in BOOLEAN, patchGated(q, b, valid)
  PROVE  Inv'
<1>. DEFINE s   == pending[q].sid
            out == Applied(obj[pending[q].ref], b.ops)
<1>1. s \in Sid
  BY DEF patchGated, Inv
<1>2. pending' = [pending EXCEPT ![q] = None] /\ UNCHANGED saved
  BY DEF patchGated
<1>3. valid /\ out.ok =>
        /\ \E r \in Fresh : details' = [details EXCEPT ![s] = r]
        /\ listed' = Synced(s, out.doc) /\ policy' = policy \cup {s}
  BY DEF patchGated
<1>4. ~ (valid /\ out.ok) => UNCHANGED <<details, listed, policy>>
  BY DEF patchGated
<1>. HIDE DEF s, out
<1>5. /\ DOMAIN pending' = Patcher
      /\ \A p \in Patcher : pending'[p] # None => pending'[p].sid \in Sid
  BY <1>2, PendingFacts
<1>6. CASE valid /\ out.ok
  <2>1. PICK r \in Fresh : details' = [details EXCEPT ![s] = r]
    BY <1>3, <1>6
  <2>2. details' \in [Sid -> Ref \cup {None}] /\ Distinct(details')
    BY <1>1, <2>1, FreshFacts
  <2>3. /\ DOMAIN listed' = Sid /\ Flat(listed') /\ listed'[s] # <<>>
        /\ \A t \in Sid \ {s} : listed'[t] = listed[t]
    BY <1>1, <1>3, <1>6, SyncedFacts DEF Inv
  <2>4. Backed(details', listed', policy')
    <3>1. \A t \in Sid \ {s} : details'[t] = details[t]
      BY <2>1 DEF Inv
    <3>2. QED
      BY <1>3, <1>6, <2>3, <3>1 DEF Inv, Backed
  <2>5. QED
    BY <1>2, <1>5, <2>2, <2>3, <2>4 DEF Inv
<1>7. CASE ~ (valid /\ out.ok)
  BY <1>2, <1>4, <1>5, <1>7 DEF Inv
<1>8. QED
  BY <1>6, <1>7

LEMMA InvInit == Init => Inv
<1>1. SUFFICES ASSUME Init PROVE Inv
  OBVIOUS
<1>2. \A s \in Sid : listed[s] = IF s \in Seeded THEN <<SeedDoc>> ELSE <<>>
  BY <1>1 DEF Init
<1>3. Flat(listed)
  BY <1>2 DEF Flat
<1>4. Backed(details, listed, policy)
  BY <1>1, <1>2 DEF Init, Backed
<1>5. Distinct(details)
  BY <1>1 DEF Init, Distinct
<1>6. DOMAIN listed = Sid /\ details \in [Sid -> Ref \cup {None}] /\ saved = None
  BY <1>1 DEF Init
<1>7. pending = [q \in Patcher |-> None]
  BY <1>1 DEF Init
<1>8. QED
  BY <1>3, <1>4, <1>5, <1>6, <1>7 DEF Inv

LEMMA InvStep ==
  ASSUME Inv, [Next]_vars
  PROVE  Inv'
<1>1. ASSUME NEW s \in Sid, deleteSchema(s)
      PROVE  Inv'
  <2>1. /\ details' = [details EXCEPT ![s] = None] /\ listed' = [listed EXCEPT ![s] = <<>>]
        /\ policy' = policy \ {s} /\ UNCHANGED <<pending, saved>>
    BY <1>1 DEF deleteSchema
  <2>2. details' \in [Sid -> Ref \cup {None}] /\ DOMAIN listed' = Sid
    BY <2>1 DEF Inv
  <2>3. /\ details'[s] = None /\ listed'[s] = <<>>
        /\ \A t \in Sid \ {s} : details'[t] = details[t] /\ listed'[t] = listed[t]
    BY <2>1 DEF Inv
  <2>4. Flat(listed') /\ Backed(details', listed', policy') /\ Distinct(details')
    BY <2>1, <2>3 DEF Inv, Flat, Backed, Distinct
  <2>5. QED
    BY <2>1, <2>2, <2>4 DEF Inv
<1>2. ASSUME NEW s \in Sid, NEW t \in {<<>>} \cup {<<n>> : n \in Tmpl}, createSchema(s, t)
      PROVE  Inv'
  BY <1>2, CreateKeeps
<1>3. ASSUME NEW s \in Sid, NEW q \in Patcher, patchFound(q, s)
      PROVE  Inv'
  <2>1. pending' = [pending EXCEPT ![q] = [sid |-> s, ref |-> details[s]]]
    BY <1>3 DEF patchFound
  <2>2. DOMAIN pending' = Patcher /\ \A p \in Patcher : pending'[p] # None => pending'[p].sid \in Sid
    BY <2>1 DEF Inv
  <2>3. UNCHANGED <<details, listed, policy, saved>>
    BY <1>3 DEF patchFound
  <2>4. QED
    BY <2>2, <2>3 DEF Inv
<1>4. ASSUME NEW q \in Patcher, patchNothing(q)
      PROVE  Inv'
  <2>1. pending' = [pending EXCEPT ![q] = None] /\ UNCHANGED <<details, listed, policy, saved>>
    BY <1>4 DEF patchNothing
  <2>2. DOMAIN pending' = Patcher /\ \A p \in Patcher : pending'[p] # None => pending'[p].sid \in Sid
    BY <2>1, PendingFacts
  <2>3. QED
    BY <2>1, <2>2 DEF Inv
<1>5. ASSUME NEW q \in Patcher, NEW b \in Batch, patchFast(q, b)
      PROVE  Inv'
  BY <1>5, PatchFastKeeps
<1>6. ASSUME NEW q \in Patcher, NEW b \in Batch, NEW valid \in BOOLEAN, patchGated(q, b, valid)
      PROVE  Inv'
  BY <1>6, PatchGatedKeeps
<1>7. CASE save
  <2>1. /\ UNCHANGED <<details, listed, policy, pending>>
        /\ saved' = [docs   |-> [s \in Sid |-> IF details[s] = None THEN None ELSE obj[details[s]]],
                     listed |-> listed, policy |-> policy]
    BY <1>7 DEF save
  <2>2. saved'.listed = listed /\ saved'.policy = policy
        /\ \A s \in Sid : saved'.docs[s] # None => details[s] # None
    BY <2>1
  <2>3. Backed(saved'.docs, saved'.listed, saved'.policy)
    BY <2>2 DEF Inv, Backed
  <2>4. QED
    BY <2>1, <2>2, <2>3 DEF Inv
<1>8. CASE load
  <2>1. saved # None /\ UNCHANGED <<pending, saved>> /\ Placed(saved.docs)
        /\ listed' = saved.listed /\ policy' = saved.policy
    BY <1>8 DEF load
  <2>2. /\ details' \in [Sid -> Ref \cup {None}] /\ Distinct(details')
        /\ \A s \in Sid : details'[s] # None => saved.docs[s] # None
    BY <2>1, PlacedFacts
  <2>3. Backed(details', listed', policy')
    BY <2>1, <2>2 DEF Inv, Backed
  <2>4. QED
    BY <2>1, <2>2, <2>3 DEF Inv
<1>9. CASE restart
  <2>1. /\ pending' = [q \in Patcher |-> None] /\ UNCHANGED saved /\ Placed(Built)
        /\ listed' = [s \in Sid |-> IF s \in Seeded THEN <<SeedDoc>> ELSE <<>>] /\ policy' = Seeded
    BY <1>9 DEF restart
  <2>2. /\ details' \in [Sid -> Ref \cup {None}] /\ Distinct(details')
        /\ \A s \in Sid : details'[s] # None => s \in Seeded
    BY <2>1, PlacedFacts DEF Built
  <2>3. \A s \in Sid : listed'[s] = IF s \in Seeded THEN <<SeedDoc>> ELSE <<>>
    BY <2>1
  <2>4. Flat(listed') /\ Backed(details', listed', policy')
    BY <2>1, <2>2, <2>3 DEF Flat, Backed
  <2>5. QED
    BY <2>1, <2>2, <2>4 DEF Inv
<1>10. CASE UNCHANGED vars
  BY <1>10 DEF vars, Inv, Flat, Backed, Distinct
<1>11. QED
  BY <1>1, <1>2, <1>3, <1>4, <1>5, <1>6, <1>7, <1>8, <1>9, <1>10 DEF Next

THEOREM Inductive == Spec => []Inv
  BY InvInit, InvStep, PTL DEF Spec

(* Whatever overtakes what: a schema that can be fetched is listed once,   *)
(* has its policy record, and shares its document with no other schema     *)
(* (patch_schema after its await, create_schema, sim_load).                *)
THEOREM RecordsCorrect == Spec => []DetailBacked
<1>1. Inv => DetailBacked
  <2>1. SUFFICES ASSUME Inv, NEW s \in Sid, details[s] # None
                 PROVE  Len(listed[s]) = 1 /\ s \in policy /\ \A t \in Sid : details[t] = details[s] => t = s
    BY DEF DetailBacked
  <2>2. listed[s] = <<listed[s][1]>>
    BY <2>1 DEF Inv, Flat, Backed
  <2>3. QED
    BY <2>1, <2>2 DEF Inv, Backed, Distinct
<1>2. QED
  BY <1>1, Inductive, PTL

-----------------------------------------------------------------------------
(* The documents                                                            *)

Turn == [doc : Doc, ok : BOOLEAN]

LEMMA RemovedType ==
  ASSUME NEW doc \in Doc, NEW name
  PROVE  RemoveFirst(doc, name) \in Doc
<1>1. CASE \E i \in 1..Len(doc) : doc[i] = name
  <2>. DEFINE I == {i \in 1..Len(doc) : doc[i] = name}
              k == SelectInSeq(doc, LAMBDA v : v = name)
  <2>1. k = Min(I) /\ I # {} /\ I \in SUBSET Nat
    BY <1>1 DEF SelectInSeq
  <2>2. k \in 1..Len(doc)
    BY <2>1, LeastPlace
  <2>3. RemoveFirst(doc, name) = RemoveAt(doc, k)
    BY <1>1 DEF RemoveFirst
  <2>. HIDE DEF k
  <2>4. QED
    BY <2>2, <2>3, RemoveAtFacts DEF Doc
<1>2. CASE ~ \E i \in 1..Len(doc) : doc[i] = name
  BY <1>2 DEF RemoveFirst
<1>3. QED
  BY <1>1, <1>2

LEMMA TurnType ==
  ASSUME NEW acc \in Turn, NEW op \in Op
  PROVE  ApplyOp(acc, op) \in Turn
<1>1. CASE ~ acc.ok \/ op.op = "bad"
  BY <1>1 DEF ApplyOp, Turn
<1>2. CASE acc.ok /\ op.op # "bad"
  <2>1. op.name \in Tmpl /\ acc.doc \in Doc /\ acc.ok \in BOOLEAN
    BY <1>2 DEF Op, Turn
  <2>2. Append(acc.doc, op.name) \in Doc /\ RemoveFirst(acc.doc, op.name) \in Doc
    BY <2>1, RemovedType DEF Doc
  <2>3. QED
    BY <1>2, <2>1, <2>2 DEF ApplyOp, Turn
<1>3. QED
  BY <1>1, <1>2 DEF Turn

(* Applying a batch to a document yields a document.                       *)
LEMMA AppliedType ==
  ASSUME NEW doc \in Doc, NEW ops \in Seq(Op)
  PROVE  Applied(doc, ops) \in Turn
<1>. DEFINE start == [doc |-> doc, ok |-> TRUE]
            step == [x \in Turn \X (1..Len(ops)) |-> ApplyOp(x[1], ops[x[2]])]
            n == Len(ops)
            F(f) == [i \in 0..Len(ops) |-> IF i = 0 THEN [doc |-> doc, ok |-> TRUE] ELSE ApplyOp(f[i - 1], ops[i])]
<1>1. n \in Nat /\ start \in Turn /\ step \in [Turn \X (1..n) -> Turn]
  <2>1. ASSUME NEW x \in Turn \X (1..n)
        PROVE  x[1] \in Turn /\ ops[x[2]] \in Op
    BY ElementOfSeq
  <2>2. start \in Turn
    BY DEF Turn
  <2>3. ASSUME NEW x \in Turn \X (1..n)
        PROVE  ApplyOp(x[1], ops[x[2]]) \in Turn
    BY <2>1, TurnType
  <2>4. QED
    BY <2>2, <2>3
<1>. HIDE DEF start, step, n
<1>2. PICK f : IsLoop(f, Turn, start, n, step)
  BY <1>1, LoopExists
<1>3. f = [i \in 0..n |-> IF i = 0 THEN start ELSE ApplyOp(f[i - 1], ops[i])]
  <2>1. ASSUME NEW i \in 1..n
        PROVE  f[i] = ApplyOp(f[i - 1], ops[i])
    <3>1. <<f[i - 1], i>> \in Turn \X (1..n) /\ f[i] = step[<<f[i - 1], i>>]
      BY <1>1, <1>2 DEF IsLoop
    <3>2. QED
      BY <3>1 DEF step, n
  <2>2. QED
    BY <1>1, <1>2, <2>1 DEF IsLoop
<1>4. f = F(f)
  BY <1>2, <1>3 DEF start, n
<1>5. Running(doc, ops) = F(Running(doc, ops))
  BY <1>4 DEF Running
<1>. DEFINE r == Running(doc, ops)
<1>. HIDE DEF r
<1>6. \A i \in 0..n : r[i] = IF i = 0 THEN start ELSE ApplyOp(r[i - 1], ops[i])
  BY <1>5 DEF r, start, n
<1>7. ASSUME NEW i \in 0..(n - 1), r[i] \in Turn
      PROVE  r[i + 1] \in Turn
  <2>1. r[i + 1] = ApplyOp(r[i], ops[i + 1]) /\ ops[i + 1] \in Op
    BY <1>1, <1>6 DEF n
  <2>2. QED
    BY <1>7, <2>1, TurnType
<1>8. r[n] \in Turn
  <2>1. r[0] \in Turn
    BY <1>1, <1>6
  <2>2. \A i \in 0..n : r[i] \in Turn
    BY <1>1, <1>7, <2>1, LoopInvariant
  <2>3. QED
    BY <1>1, <2>2
<1>9. QED
  BY <1>8 DEF r, n, Applied

(* Every document that is referred to is one, whoever holds it.            *)
Typed ==
  /\ obj \in [Ref -> Doc \cup {None}]
  /\ \A s \in Sid : details[s] # None => obj[details[s]] \in Doc
  /\ \A q \in Patcher : pending[q] # None => pending[q].ref \in Ref /\ obj[pending[q].ref] \in Doc
  /\ saved # None => \A s \in Sid : saved.docs[s] \in Doc \cup {None}

(* What is listed is what can be fetched, and so it is in a save.          *)
Agree(sums, docs) == \A s \in Sid : sums[s] = IF docs[s] = None THEN <<>> ELSE <<docs[s]>>

Fetched == [s \in Sid |-> IF details[s] = None THEN None ELSE obj[details[s]]]

Quiet == /\ Agree(listed, Fetched)
         /\ saved # None => Agree(saved.listed, saved.docs)

Sound == Inv /\ Typed /\ (disturbed \/ Quiet)

LEMMA CollectedFacts ==
  ASSUME NEW o \in [Ref -> Doc \cup {None}], NEW d, NEW p
  PROVE  /\ Collected(o, d, p) \in [Ref -> Doc \cup {None}]
         /\ \A r \in Held(d, p) : Collected(o, d, p)[r] = o[r]
  BY DEF Collected, Held

(* What a step has to do to the documents to keep them typed: the stored   *)
(* and the awaited ones, each as the step leaves it.                       *)
LEMMA HeldFacts ==
  ASSUME Inv', NEW o \in [Ref -> Doc \cup {None}], obj' = Collected(o, details', pending'),
         \A s \in Sid : details'[s] # None => o[details'[s]] \in Doc,
         \A q \in Patcher : pending'[q] # None => pending'[q].ref \in Ref /\ o[pending'[q].ref] \in Doc,
         (saved # None => \A s \in Sid : saved.docs[s] \in Doc \cup {None})'
  PROVE  /\ Typed'
         /\ \A s \in Sid : details'[s] # None => obj'[details'[s]] = o[details'[s]]
<1>1. \A s \in Sid : details'[s] # None => details'[s] \in Held(details', pending')
  BY DEF Inv, Held
<1>2. \A q \in Patcher : pending'[q] # None => pending'[q].ref \in Held(details', pending')
  BY DEF Held
<1>3. /\ obj' \in [Ref -> Doc \cup {None}]
      /\ \A r \in Held(details', pending') : obj'[r] = o[r]
  BY CollectedFacts
<1>4. QED
  BY <1>1, <1>2, <1>3 DEF Typed

LEMMA NoneFacts == None \notin Ref /\ None \notin Doc
  BY SchemaAssumption DEF Doc

LEMMA FreshDocument ==
  ASSUME Inv, Typed, UNCHANGED pending, NEW r \in Fresh
  PROVE  /\ r \in Ref /\ \A s \in Sid : details[s] # r
         /\ \A q \in Patcher : pending[q] # None => pending[q].ref # r
  BY DEF Fresh, Held

LEMMA SoundCreate ==
  ASSUME Sound, Inv', NEW s \in Sid, NEW doc \in Doc, createSchema(s, doc)
  PROVE  Sound'
<1>1. PICK r \in Fresh : details' = [details EXCEPT ![s] = r] /\ obj' = [obj EXCEPT ![r] = doc]
  BY DEF createSchema
<1>2. /\ UNCHANGED <<pending, saved, disturbed>> /\ details[s] = None /\ listed[s] = <<>>
      /\ listed' = [listed EXCEPT ![s] = Append(@, doc)]
  BY DEF createSchema, New
<1>3. /\ r \in Ref /\ \A t \in Sid : details[t] # r
      /\ \A q \in Patcher : pending[q] # None => pending[q].ref # r
  BY <1>2, FreshDocument DEF Sound
<1>4. /\ obj' \in [Ref -> Doc \cup {None}] /\ obj'[r] = doc
      /\ \A x \in Ref : x # r => obj'[x] = obj[x]
  BY <1>1, <1>3 DEF Sound, Typed
<1>5. details'[s] = r /\ \A t \in Sid \ {s} : details'[t] = details[t]
  BY <1>1 DEF Sound, Inv
<1>6. \A t \in Sid : details'[t] # None => details'[t] \in Ref
  BY DEF Inv
<1>7. Typed'
  BY <1>2, <1>3, <1>4, <1>5, <1>6 DEF Sound, Typed
<1>8. listed'[s] = <<doc>> /\ \A t \in Sid \ {s} : listed'[t] = listed[t]
  <2>1. Append(<<>>, doc) = <<doc>>
    OBVIOUS
  <2>2. QED
    BY <1>2, <2>1 DEF Sound, Inv
<1>9. r # None /\ doc # None
  BY <1>3, NoneFacts
<1>10. Quiet => Quiet'
  <2>1. \A t \in Sid \ {s} : Fetched'[t] = Fetched[t]
    BY <1>3, <1>4, <1>5, <1>6 DEF Fetched
  <2>2. Fetched'[s] = doc
    BY <1>4, <1>5, <1>9 DEF Fetched
  <2>3. QED
    BY <1>2, <1>8, <1>9, <2>1, <2>2 DEF Quiet, Agree
<1>11. QED
  BY <1>2, <1>7, <1>10 DEF Sound

(* A PATCH that is over: what the documents are afterwards.                *)
LEMMA SoundPatch ==
  ASSUME Sound, Inv', NEW q \in Patcher, NEW b \in Batch, pending[q] # None,
         NEW s, NEW ref, NEW out, s = pending[q].sid, ref = pending[q].ref, out = Applied(obj[ref], b.ops)
  PROVE  s \in Sid /\ ref \in Ref /\ out.doc \in Doc /\ out.ok \in BOOLEAN /\ obj[ref] \in Doc
<1>1. s \in Sid /\ ref \in Ref /\ obj[ref] \in Doc /\ b.ops \in Seq(Op)
  BY BatchAssumption DEF Sound, Inv, Typed
<1>2. out \in Turn
  BY <1>1, AppliedType
<1>3. QED
  BY <1>1, <1>2 DEF Turn

LEMMA PendingLess ==
  ASSUME Inv, NEW q \in Patcher, pending' = [pending EXCEPT ![q] = None]
  PROVE  \A p \in Patcher : pending'[p] # None => pending'[p] = pending[p]
  BY DEF Inv

LEMMA SyncedExact ==
  ASSUME Inv, NEW s \in Sid, NEW doc
  PROVE  Synced(s, doc)[s] = <<doc>> /\ \A t \in Sid \ {s} : Synced(s, doc)[t] = listed[t]
<1>1. \A t \in Sid \ {s} : Synced(s, doc)[t] = listed[t]
  BY DEF Synced, Inv
<1>2. Synced(s, doc)[s] = IF listed[s] = <<>> THEN <<doc>> ELSE [listed[s] EXCEPT ![1] = doc]
  BY DEF Synced, Inv
<1>3. CASE listed[s] # <<>>
  <2>1. listed[s] = <<listed[s][1]>>
    BY <1>3 DEF Inv, Flat
  <2>2. \A d : [<<d>> EXCEPT ![1] = doc] = <<doc>>
    OBVIOUS
  <2>3. QED
    BY <1>1, <1>2, <1>3, <2>1, <2>2
<1>4. QED
  BY <1>1, <1>2, <1>3

LEMMA SoundPatchFast ==
  ASSUME Sound, Inv', NEW q \in Patcher, NEW b \in Batch, patchFast(q, b)
  PROVE  Sound'
<1>. DEFINE s   == pending[q].sid
            ref == pending[q].ref
            out == Applied(obj[ref], b.ops)
            o   == [obj EXCEPT ![ref] = out.doc]
<1>1. /\ pending[q] # None /\ pending' = [pending EXCEPT ![q] = None]
      /\ obj' = Collected(o, details, pending')
      /\ listed' = (IF out.ok THEN Synced(s, out.doc) ELSE listed)
      /\ disturbed' = (disturbed \/ (out.ok /\ details[s] # ref) \/ (~ out.ok /\ out.doc # obj[ref]))
      /\ UNCHANGED <<details, saved>>
  BY DEF patchFast
<1>2. s \in Sid /\ ref \in Ref /\ out.doc \in Doc /\ out.ok \in BOOLEAN /\ obj[ref] \in Doc
  BY <1>1, SoundPatch
<1>. HIDE DEF s, ref, out
<1>3. /\ o \in [Ref -> Doc \cup {None}] /\ o[ref] = out.doc
      /\ \A x \in Ref : x # ref => o[x] = obj[x]
  BY <1>2 DEF Sound, Typed
<1>. HIDE DEF o
<1>4. \A p \in Patcher : pending'[p] # None => pending'[p] = pending[p]
  BY <1>1, PendingLess DEF Sound
<1>5. \A t \in Sid : details[t] # None => details[t] \in Ref
  BY DEF Sound, Inv
<1>6. /\ \A t \in Sid : details'[t] # None => o[details'[t]] \in Doc
      /\ \A p \in Patcher : pending'[p] # None => pending'[p].ref \in Ref /\ o[pending'[p].ref] \in Doc
      /\ saved' # None => \A t \in Sid : saved'.docs[t] \in Doc \cup {None}
  BY <1>1, <1>2, <1>3, <1>4, <1>5 DEF Sound, Typed
<1>7. /\ Typed'
      /\ \A t \in Sid : details'[t] # None => obj'[details'[t]] = o[details'[t]]
  BY <1>1, <1>3, <1>6, HeldFacts
<1>8. ASSUME Quiet, ~ disturbed'
      PROVE  Quiet'
  <2>1. \A t \in Sid : details[t] # ref => Fetched'[t] = Fetched[t]
    BY <1>1, <1>3, <1>5, <1>7 DEF Fetched
  <2>2. \A t \in Sid : details[t] = ref => Fetched'[t] = out.doc
    BY <1>1, <1>2, <1>3, <1>7, NoneFacts DEF Fetched
  <2>3. CASE out.ok
    <3>1. details[s] = ref /\ \A t \in Sid \ {s} : details[t] # ref
      BY <1>1, <1>2, <1>8, <2>3, NoneFacts DEF Sound, Inv, Distinct
    <3>2. listed'[s] = <<out.doc>> /\ \A t \in Sid \ {s} : listed'[t] = listed[t]
      BY <1>1, <1>2, <2>3, SyncedExact DEF Sound
    <3>3. Agree(listed', Fetched')
      BY <1>2, <1>8, <2>1, <2>2, <3>1, <3>2, NoneFacts DEF Quiet, Agree
    <3>4. QED
      BY <1>1, <1>8, <3>3 DEF Quiet
  <2>4. CASE ~ out.ok
    <3>1. out.doc = obj[ref] /\ listed' = listed
      BY <1>1, <1>8, <2>4
    <3>2. \A t \in Sid : Fetched'[t] = Fetched[t]
      BY <1>2, <2>1, <2>2, <3>1, NoneFacts DEF Fetched
    <3>3. QED
      BY <1>1, <1>8, <3>1, <3>2 DEF Quiet, Agree
  <2>5. QED
    BY <2>3, <2>4
<1>9. QED
  BY <1>1, <1>7, <1>8 DEF Sound

LEMMA SoundPatchGated ==
  ASSUME Sound, Inv', NEW q \in Patcher, NEW b \in Batch, NEW valid \in BOOLEAN, patchGated(q, b, valid)
  PROVE  Sound'
<1>. DEFINE s   == pending[q].sid
            ref == pending[q].ref
            out == Applied(obj[ref], b.ops)
<1>1. pending[q] # None /\ pending' = [pending EXCEPT ![q] = None] /\ UNCHANGED saved
  BY DEF patchGated
<1>2. valid /\ out.ok =>
        /\ \E r \in Fresh : /\ details' = [details EXCEPT ![s] = r]
                            /\ obj' = Collected([obj EXCEPT ![r] = out.doc], details', pending')
        /\ listed' = Synced(s, out.doc)
        /\ disturbed' = (disturbed \/ details[s] # ref)
  BY DEF patchGated
<1>3. ~ (valid /\ out.ok) => /\ obj' = Collected(obj, details', pending')
                             /\ UNCHANGED <<details, listed, disturbed>>
  BY DEF patchGated
<1>4. s \in Sid /\ ref \in Ref /\ out.doc \in Doc /\ out.ok \in BOOLEAN /\ obj[ref] \in Doc
  BY <1>1, SoundPatch
<1>. HIDE DEF s, ref, out
<1>5. \A p \in Patcher : pending'[p] # None => pending'[p] = pending[p]
  BY <1>1, PendingLess DEF Sound
<1>6. \A t \in Sid : details[t] # None => details[t] \in Ref
  BY DEF Sound, Inv
<1>7. saved' # None => \A t \in Sid : saved'.docs[t] \in Doc \cup {None}
  BY <1>1 DEF Sound, Typed
<1>8. CASE valid /\ out.ok
  <2>1. PICK r \in Fresh : /\ details' = [details EXCEPT ![s] = r]
                           /\ obj' = Collected([obj EXCEPT ![r] = out.doc], details', pending')
    BY <1>2, <1>8
  <2>. DEFINE o == [obj EXCEPT ![r] = out.doc]
  <2>2. /\ r \in Ref /\ \A t \in Sid : details[t] # r
        /\ \A p \in Patcher : pending'[p] # None => pending'[p].ref # r
    BY DEF Fresh, Held
  <2>3. /\ o \in [Ref -> Doc \cup {None}] /\ o[r] = out.doc
        /\ \A x \in Ref : x # r => o[x] = obj[x]
    BY <1>4, <2>2 DEF Sound, Typed
  <2>4. obj' = Collected(o, details', pending')
    BY <2>1
  <2>. HIDE DEF o
  <2>5. details'[s] = r /\ \A t \in Sid \ {s} : details'[t] = details[t]
    BY <1>4, <2>1 DEF Sound, Inv
  <2>6. /\ \A t \in Sid : details'[t] # None => o[details'[t]] \in Doc
        /\ \A p \in Patcher : pending'[p] # None => pending'[p].ref \in Ref /\ o[pending'[p].ref] \in Doc
    BY <1>4, <1>5, <1>6, <2>2, <2>3, <2>5 DEF Sound, Typed
  <2>7. /\ Typed'
        /\ \A t \in Sid : details'[t] # None => obj'[details'[t]] = o[details'[t]]
    BY <1>7, <2>3, <2>4, <2>6, HeldFacts
  <2>8. ASSUME Quiet
        PROVE  Quiet'
    <3>1. \A t \in Sid \ {s} : Fetched'[t] = Fetched[t]
      BY <1>6, <2>2, <2>3, <2>5, <2>7 DEF Fetched
    <3>2. Fetched'[s] = out.doc
      BY <1>4, <2>2, <2>3, <2>5, <2>7, NoneFacts DEF Fetched
    <3>3. listed'[s] = <<out.doc>> /\ \A t \in Sid \ {s} : listed'[t] = listed[t]
      BY <1>2, <1>4, <1>8, SyncedExact DEF Sound
    <3>4. QED
      BY <1>1, <1>4, <2>8, <3>1, <3>2, <3>3, NoneFacts DEF Quiet, Agree
  <2>9. QED
    BY <1>2, <1>8, <2>7, <2>8 DEF Sound
<1>9. CASE ~ (valid /\ out.ok)
  <2>1. /\ \A t \in Sid : details'[t] # None => obj[details'[t]] \in Doc
        /\ \A p \in Patcher : pending'[p] # None => pending'[p].ref \in Ref /\ obj[pending'[p].ref] \in Doc
    BY <1>3, <1>5, <1>9 DEF Sound, Typed
  <2>2. obj \in [Ref -> Doc \cup {None}]
    BY DEF Sound, Typed
  <2>3. /\ Typed'
        /\ \A t \in Sid : details'[t] # None => obj'[details'[t]] = obj[details'[t]]
    BY <1>3, <1>7, <1>9, <2>1, <2>2, HeldFacts
  <2>4. Quiet => Quiet'
    <3>1. \A t \in Sid : Fetched'[t] = Fetched[t]
      BY <1>3, <1>9, <2>3 DEF Fetched
    <3>2. QED
      BY <1>1, <1>3, <1>9, <3>1 DEF Quiet, Agree
  <2>5. QED
    BY <1>3, <1>9, <2>3, <2>4 DEF Sound
<1>10. QED
  BY <1>8, <1>9

(* The steps that change no document: what is held stays what it is.       *)
LEMMA SoundDelete ==
  ASSUME Sound, Inv', NEW s \in Sid, deleteSchema(s)
  PROVE  Sound'
<1>1. /\ details' = [details EXCEPT ![s] = None] /\ listed' = [listed EXCEPT ![s] = <<>>]
      /\ UNCHANGED <<pending, saved, disturbed>> /\ obj' = Collected(obj, details', pending')
  BY DEF deleteSchema
<1>2. details'[s] = None /\ \A t \in Sid \ {s} : details'[t] = details[t]
  BY <1>1 DEF Sound, Inv
<1>3. listed'[s] = <<>> /\ \A t \in Sid \ {s} : listed'[t] = listed[t]
  BY <1>1 DEF Sound, Inv
<1>4. /\ obj \in [Ref -> Doc \cup {None}]
      /\ \A t \in Sid : details'[t] # None => obj[details'[t]] \in Doc
      /\ \A p \in Patcher : pending'[p] # None => pending'[p].ref \in Ref /\ obj[pending'[p].ref] \in Doc
      /\ saved' # None => \A t \in Sid : saved'.docs[t] \in Doc \cup {None}
  BY <1>1, <1>2 DEF Sound, Typed
<1>5. /\ Typed'
      /\ \A t \in Sid : details'[t] # None => obj'[details'[t]] = obj[details'[t]]
  BY <1>1, <1>4, HeldFacts
<1>6. Quiet => Quiet'
  <2>1. Fetched'[s] = None /\ \A t \in Sid \ {s} : Fetched'[t] = Fetched[t]
    BY <1>2, <1>5 DEF Fetched
  <2>2. QED
    BY <1>1, <1>3, <2>1 DEF Quiet, Agree
<1>7. QED
  BY <1>1, <1>5, <1>6 DEF Sound

LEMMA SoundPending ==
  ASSUME Sound, Inv', NEW q \in Patcher, patchNothing(q) \/ \E s \in Sid : patchFound(q, s)
  PROVE  Sound'
<1>1. UNCHANGED <<details, listed, saved, disturbed>>
  BY DEF patchNothing, patchFound
<1>2. CASE patchNothing(q)
  <2>1. pending' = [pending EXCEPT ![q] = None] /\ obj' = Collected(obj, details', pending')
    BY <1>2 DEF patchNothing
  <2>2. \A p \in Patcher : pending'[p] # None => pending'[p] = pending[p]
    BY <2>1, PendingLess DEF Sound
  <2>3. /\ obj \in [Ref -> Doc \cup {None}]
        /\ \A t \in Sid : details'[t] # None => obj[details'[t]] \in Doc
        /\ \A p \in Patcher : pending'[p] # None => pending'[p].ref \in Ref /\ obj[pending'[p].ref] \in Doc
        /\ saved' # None => \A t \in Sid : saved'.docs[t] \in Doc \cup {None}
    BY <1>1, <2>2 DEF Sound, Typed
  <2>4. /\ Typed'
        /\ \A t \in Sid : details'[t] # None => obj'[details'[t]] = obj[details'[t]]
    BY <2>1, <2>3, HeldFacts
  <2>5. Quiet => Quiet'
    BY <1>1, <2>4 DEF Quiet, Agree, Fetched
  <2>6. QED
    BY <1>1, <2>4, <2>5 DEF Sound
<1>3. ASSUME NEW s \in Sid, patchFound(q, s)
      PROVE  Sound'
  <2>1. details[s] # None /\ UNCHANGED obj /\ pending' = [pending EXCEPT ![q] = [sid |-> s, ref |-> details[s]]]
    BY <1>3 DEF patchFound
  <2>2. pending'[q].ref = details[s] /\ \A p \in Patcher \ {q} : pending'[p] = pending[p]
    BY <2>1 DEF Sound, Inv
  <2>3. details[s] \in Ref /\ obj[details[s]] \in Doc
    BY <2>1 DEF Sound, Inv, Typed
  <2>4. Typed'
    BY <1>1, <2>1, <2>2, <2>3 DEF Sound, Typed
  <2>5. Quiet => Quiet'
    BY <1>1, <2>1 DEF Quiet, Agree, Fetched
  <2>6. QED
    BY <1>1, <2>4, <2>5 DEF Sound
<1>4. QED
  BY <1>2, <1>3

LEMMA SoundSave ==
  ASSUME Sound, Inv', save
  PROVE  Sound'
<1>1. /\ UNCHANGED <<obj, details, listed, pending, disturbed>>
      /\ saved'.docs = Fetched /\ saved'.listed = listed
  BY DEF save, Fetched
<1>2. \A s \in Sid : saved'.docs[s] \in Doc \cup {None}
  BY <1>1 DEF Sound, Typed, Fetched
<1>3. Typed'
  BY <1>1, <1>2 DEF Sound, Typed
<1>4. Quiet => Quiet'
  BY <1>1 DEF Quiet, Agree, Fetched
<1>5. QED
  BY <1>1, <1>3, <1>4 DEF Sound

(* The documents of a load or a restart are the ones that were placed, and *)
(* what a waiting PATCH holds is not touched.                              *)
LEMMA PlacedDocuments ==
  ASSUME Inv', Typed, NEW docs, Placed(docs), \A s \in Sid : docs[s] \in Doc \cup {None},
         \A q \in Patcher : pending'[q] # None => pending'[q] = pending[q],
         (saved # None => \A s \in Sid : saved.docs[s] \in Doc \cup {None})'
  PROVE  Typed' /\ \A s \in Sid : Fetched'[s] = docs[s]
<1>. DEFINE o == [r \in Ref |-> IF \E s \in Sid : details'[s] = r
                                THEN docs[CHOOSE s \in Sid : details'[s] = r] ELSE obj[r]]
<1>1. /\ details' \in [Sid -> Ref \cup {None}]
      /\ \A s \in Sid : details'[s] = None <=> docs[s] = None
      /\ \A s, t \in Sid : s # t /\ details'[s] = details'[t] => details'[s] = None
      /\ \A s \in Sid, q \in Patcher : pending'[q] # None => details'[s] # pending'[q].ref
      /\ obj' = Collected(o, details', pending')
  BY DEF Placed
<1>2. ASSUME NEW s \in Sid, details'[s] # None
      PROVE  o[details'[s]] = docs[s] /\ docs[s] \in Doc
  <2>1. details'[s] \in Ref /\ docs[s] \in Doc
    BY <1>1, <1>2
  <2>2. (CHOOSE t \in Sid : details'[t] = details'[s]) = s
    BY <1>1, <1>2
  <2>3. QED
    BY <2>1, <2>2
<1>3. ASSUME NEW q \in Patcher, pending'[q] # None
      PROVE  pending'[q].ref \in Ref /\ o[pending'[q].ref] = obj[pending'[q].ref]
    BY <1>1, <1>3 DEF Typed
<1>4. o \in [Ref -> Doc \cup {None}]
  <2>1. ASSUME NEW r \in Ref
        PROVE  o[r] \in Doc \cup {None}
    <3>1. CASE \E s \in Sid : details'[s] = r
      BY <3>1
    <3>2. CASE ~ \E s \in Sid : details'[s] = r
      BY <3>2 DEF Typed
    <3>3. QED
      BY <3>1, <3>2
  <2>2. QED
    BY <2>1
<1>. HIDE DEF o
<1>5. /\ Typed'
      /\ \A s \in Sid : details'[s] # None => obj'[details'[s]] = o[details'[s]]
  <2>1. \A q \in Patcher : pending'[q] # None => pending'[q].ref \in Ref /\ o[pending'[q].ref] \in Doc
    BY <1>3 DEF Typed
  <2>2. \A s \in Sid : details'[s] # None => o[details'[s]] \in Doc
    BY <1>2
  <2>3. QED
    BY <1>1, <1>4, <2>1, <2>2, HeldFacts
<1>6. QED
  BY <1>1, <1>2, <1>5 DEF Fetched

LEMMA SoundLoad ==
  ASSUME Sound, Inv', load
  PROVE  Sound'
<1>1. saved # None /\ UNCHANGED <<pending, saved, disturbed>> /\ Placed(saved.docs) /\ listed' = saved.listed
  BY DEF load
<1>2. \A s \in Sid : saved.docs[s] \in Doc \cup {None}
  BY <1>1 DEF Sound, Typed
<1>3. Typed' /\ \A s \in Sid : Fetched'[s] = saved.docs[s]
  BY <1>1, <1>2, PlacedDocuments DEF Sound
<1>4. Quiet => Quiet'
  BY <1>1, <1>3 DEF Quiet, Agree
<1>5. QED
  BY <1>1, <1>3, <1>4 DEF Sound

LEMMA SoundRestart ==
  ASSUME Sound, Inv', restart
  PROVE  Sound'
<1>1. /\ pending' = [q \in Patcher |-> None] /\ UNCHANGED <<saved, disturbed>> /\ Placed(Built)
      /\ listed' = [s \in Sid |-> IF s \in Seeded THEN <<SeedDoc>> ELSE <<>>]
  BY DEF restart
<1>2. \A s \in Sid : Built[s] \in Doc \cup {None}
  BY SchemaAssumption DEF Built, Doc
<1>3. Typed' /\ \A s \in Sid : Fetched'[s] = Built[s]
  <2>1. \A q \in Patcher : pending'[q] = None
    BY <1>1
  <2>2. saved' # None => \A s \in Sid : saved'.docs[s] \in Doc \cup {None}
    BY <1>1 DEF Sound, Typed
  <2>3. QED
    BY <1>1, <1>2, <2>1, <2>2, PlacedDocuments DEF Sound
<1>4. Quiet => Quiet'
  <2>1. \A s \in Sid : listed'[s] = IF Built[s] = None THEN <<>> ELSE <<Built[s]>>
    BY <1>1, NoneFacts, SchemaAssumption DEF Built, Doc
  <2>2. QED
    BY <1>1, <1>3, <2>1 DEF Quiet, Agree
<1>5. QED
  BY <1>1, <1>3, <1>4 DEF Sound

LEMMA SoundInit == Init => Sound
<1>. SUFFICES ASSUME Init PROVE Sound
  OBVIOUS
<1>1. /\ details \in [Sid -> Ref \cup {None}] /\ \A s \in Sid : details[s] # None <=> s \in Seeded
      /\ obj = [r \in Ref |-> IF \E s \in Seeded : details[s] = r THEN SeedDoc ELSE None]
      /\ listed = [s \in Sid |-> IF s \in Seeded THEN <<SeedDoc>> ELSE <<>>]
      /\ pending = [q \in Patcher |-> None] /\ saved = None
  BY DEF Init
<1>2. SeedDoc \in Doc /\ SeedDoc # None /\ Seeded \subseteq Sid
  BY SchemaAssumption, NoneFacts DEF Doc
<1>3. \A s \in Sid : details[s] # None => obj[details[s]] = SeedDoc
  BY <1>1, <1>2
<1>4. obj \in [Ref -> Doc \cup {None}]
  BY <1>1, <1>2
<1>5. Typed
  BY <1>1, <1>2, <1>3, <1>4 DEF Typed
<1>6. Quiet
  BY <1>1, <1>2, <1>3 DEF Quiet, Agree, Fetched
<1>7. QED
  BY <1>5, <1>6, InvInit DEF Sound

(* What is listed is what can be fetched, unless a PATCH wrote to a        *)
(* document that had been replaced or deleted while it awaited its body,   *)
(* or failed after it had written (patch_schema, _find_summary, sim_load): *)
(* for any schemas, any PATCHes in flight and any batches, of any length.  *)
THEOREM QuietCorrect == Spec => []QuietExact
<1>1. Sound /\ [Next]_vars => Sound'
  <2>. SUFFICES ASSUME Sound, [Next]_vars PROVE Sound'
    OBVIOUS
  <2>1. Inv'
    BY InvStep DEF Sound
  <2>2. ASSUME NEW s \in Sid, deleteSchema(s)
        PROVE  Sound'
    BY <2>1, <2>2, SoundDelete
  <2>3. ASSUME NEW s \in Sid, NEW t \in {<<>>} \cup {<<n>> : n \in Tmpl}, createSchema(s, t)
        PROVE  Sound'
    <3>1. t \in Doc
      <4>1. CASE t = <<>>
        BY <4>1 DEF Doc
      <4>2. ASSUME NEW n \in Tmpl, t = <<n>>
            PROVE  t \in Doc
        BY <4>2 DEF Doc
      <4>3. QED
        BY <4>1, <4>2
    <3>2. QED
      BY <2>1, <2>3, <3>1, SoundCreate
  <2>4. ASSUME NEW q \in Patcher, patchNothing(q) \/ \E s \in Sid : patchFound(q, s)
        PROVE  Sound'
    BY <2>1, <2>4, SoundPending
  <2>5. ASSUME NEW q \in Patcher, NEW b \in Batch, patchFast(q, b)
        PROVE  Sound'
    BY <2>1, <2>5, SoundPatchFast
  <2>6. ASSUME NEW q \in Patcher, NEW b \in Batch, NEW valid \in BOOLEAN, patchGated(q, b, valid)
        PROVE  Sound'
    BY <2>1, <2>6, SoundPatchGated
  <2>7. CASE save
    BY <2>1, <2>7, SoundSave
  <2>8. CASE load
    BY <2>1, <2>8, SoundLoad
  <2>9. CASE restart
    BY <2>1, <2>9, SoundRestart
  <2>10. CASE UNCHANGED vars
    BY <2>1, <2>10 DEF vars, Sound, Typed, Quiet, Agree, Fetched
  <2>11. QED
    BY <2>2, <2>3, <2>4, <2>5, <2>6, <2>7, <2>8, <2>9, <2>10 DEF Next
<1>2. Sound => QuietExact
  <2>1. SUFFICES ASSUME Sound, ~ disturbed, NEW s \in Sid
                 PROVE  listed[s] = IF details[s] = None THEN <<>> ELSE <<obj[details[s]]>>
    BY DEF QuietExact
  <2>2. details[s] # None => obj[details[s]] # None
    BY <2>1, NoneFacts DEF Sound, Typed
  <2>3. Fetched[s] = IF details[s] = None THEN None ELSE obj[details[s]]
    BY DEF Fetched
  <2>4. QED
    BY <2>1, <2>2, <2>3 DEF Sound, Quiet, Agree
<1>3. QED
  BY <1>1, <1>2, SoundInit, PTL DEF Spec
=============================================================================
