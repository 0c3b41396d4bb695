----------------------------- MODULE NdoSchemas -----------------------------
(***************************************************************************)
(* The schema store of aci_sim/ndo/app.py.  A schema is kept three times:  *)
(* its document in schema_details, its summary in schemas or extra_schemas *)
(* and its record in policy_states.  Every route is one step, except that  *)
(* patch_schema looks its document up before it awaits the request body:   *)
(* what it changes afterwards is the dictionary it found, whatever the     *)
(* other routes have done to the store in the meantime.  Documents         *)
(* therefore have an identity here (Ref), and details refers to them.      *)
(*                                                                         *)
(* A document is abstracted to the names in its templates list, which is   *)
(* also what its summary repeats.                                          *)
(***************************************************************************)
EXTENDS Integers, FiniteSets, SequencesExt

CONSTANTS
  Sid,      \* schema ids
  Seeded,   \* the schemas that build_ndo_model makes
  SeedDoc,  \* and their document
  Tmpl,     \* template names
  Patcher,  \* the PATCH requests that may be in flight at a time
  Ref,      \* identities of document dictionaries
  Batch,    \* the op lists of a PATCH
  MaxLen,   \* bound on the length of a templates list
  None      \* absent, and not a document

(* graph: service_graph_relevant says the batch takes the gated path.  An  *)
(* op adds a template, removes one by name, or raises PatchError.          *)
Op == [op : {"add", "remove"}, name : Tmpl] \cup [op : {"bad"}]

ASSUME BatchAssumption == Batch \subseteq [graph : BOOLEAN, ops : Seq(Op)] /\ MaxLen \in Nat

ASSUME SchemaAssumption ==
  /\ Seeded \subseteq Sid /\ IsFiniteSet(Sid) /\ IsFiniteSet(Patcher) /\ IsFiniteSet(Ref)
  /\ Cardinality(Sid) + Cardinality(Patcher) <= Cardinality(Ref)
  /\ None \notin Ref /\ None \notin Seq(Tmpl) /\ SeedDoc \in Seq(Tmpl)

VARIABLES
  obj,       \* the document dictionaries that somebody holds
  details,   \* state.schema_details
  listed,    \* state.schemas and state.extra_schemas: the summaries of each id
  policy,    \* the ids in state.policy_states
  pending,   \* patch_schema between its lookup and its body: id and document
  saved,     \* the file of a save: documents, summaries, policy records
  disturbed  \* (history) a PATCH wrote to a document that was no longer the
             \* stored one, or failed after it had written

vars == <<obj, details, listed, policy, pending, saved, disturbed>>

Doc == Seq(Tmpl)

-----------------------------------------------------------------------------
(* The documents that the store or a waiting PATCH refers to; the others   *)
(* are freed.                                                              *)
Held(d, p) == {r \in Ref : \/ \E s \in Sid : d[s] = r
                          \/ \E q \in Patcher : p[q] # None /\ p[q].ref = r}

Collected(o, d, p) == [r \in Ref |-> IF r \in Held(d, p) THEN o[r] ELSE None]

Fresh == Ref \ Held(details, pending')

(* apply_json_patch: what the document is when it returns or raises, op by *)
(* op.                                                                     *)
ApplyOp(acc, op) ==
  IF ~ acc.ok \/ op.op = "bad" THEN [acc EXCEPT !.ok = FALSE]
  ELSE IF op.op = "add" THEN [acc EXCEPT !.doc = Append(@, op.name)]
  ELSE [acc EXCEPT !.doc = RemoveFirst(@, op.name)]

Running(doc, ops) ==
  LET after[n \in 0..Len(ops)] ==
        IF n = 0 THEN [doc |-> doc, ok |-> TRUE] ELSE ApplyOp(after[n - 1], ops[n])
  IN  after

Applied(doc, ops) == Running(doc, ops)[Len(ops)]

(* Fault for Synced: the summary of a schema in one of the two lists only  *)
(* is looked for in the other.                                             *)
SyncedTwice(s, doc) == [listed EXCEPT ![s] = Append(@, doc)]

(* The summary of a schema is updated in place, or added to extra_schemas. *)
Synced(s, doc) ==
  [listed EXCEPT ![s] = IF @ = <<>> THEN <<doc>> ELSE [@ EXCEPT ![1] = doc]]

(* A new uuid: an id that nobody refers to any more is as good as one. *)
New(s) ==
  /\ details[s] = None /\ listed[s] = <<>> /\ s \notin policy
  /\ \A q \in Patcher : pending[q] # None => pending[q].sid # s
  /\ saved # None => saved.docs[s] = None /\ saved.listed[s] = <<>> /\ s \notin saved.policy

-----------------------------------------------------------------------------
(* The routes *)

createSchema(s, doc) ==
  /\ New(s) /\ UNCHANGED pending
  /\ \E r \in Fresh : /\ details' = [details EXCEPT ![s] = r]
                      /\ obj' = [obj EXCEPT ![r] = doc]
  /\ listed' = [listed EXCEPT ![s] = Append(@, doc)]
  /\ policy' = policy \cup {s}
  /\ UNCHANGED <<saved, disturbed>>

(* patch_schema up to await request.json() *)
patchFound(q, s) ==
  /\ pending[q] = None /\ details[s] # None
  /\ pending' = [pending EXCEPT ![q] = [sid |-> s, ref |-> details[s]]]
  /\ UNCHANGED <<obj, details, listed, policy, saved, disturbed>>

(* No body comes, or one without ops. *)
patchNothing(q) ==
  /\ pending[q] # None
  /\ pending' = [pending EXCEPT ![q] = None]
  /\ obj' = Collected(obj, details, pending')
  /\ UNCHANGED <<details, listed, policy, saved, disturbed>>

(* The path of most PATCHes: ops go straight into the document. *)
patchFast(q, b) ==
  /\ pending[q] # None /\ ~ b.graph
  /\ LET s    == pending[q].sid
         ref  == pending[q].ref
         out  == Applied(obj[ref], b.ops)
     IN  /\ Len(out.doc) <= MaxLen
         /\ pending' = [pending EXCEPT ![q] = None]
         /\ obj' = Collected([obj EXCEPT ![ref] = out.doc], details, pending')
         /\ listed' = IF out.ok THEN Synced(s, out.doc) ELSE listed
         /\ policy' = IF out.ok THEN policy \cup {s} ELSE policy
         /\ disturbed' = (\/ disturbed
                          \/ out.ok /\ details[s] # ref
                          \/ ~ out.ok /\ out.doc # obj[ref])
  /\ UNCHANGED <<details, saved>>

(* Fault for patchGated: the ops applied to the document instead of a copy. *)
patchGatedInPlace(q, b, valid) ==
  /\ pending[q] # None /\ b.graph
  /\ LET s   == pending[q].sid
         ref == pending[q].ref
         out == Applied(obj[ref], b.ops)
     IN  /\ Len(out.doc) <= MaxLen
         /\ pending' = [pending EXCEPT ![q] = None]
         /\ obj' = Collected([obj EXCEPT ![ref] = out.doc], details, pending')
         /\ listed' = IF valid /\ out.ok THEN Synced(s, out.doc) ELSE listed
  /\ UNCHANGED <<details, policy, saved, disturbed>>

(* The gated path: validated against the sites' stores, of which this      *)
(* module knows nothing, and applied to a copy that replaces the document. *)
patchGated(q, b, valid) ==
  /\ pending[q] # None /\ b.graph
  /\ LET s    == pending[q].sid
         ref  == pending[q].ref
         out  == Applied(obj[ref], b.ops)
     IN  /\ Len(out.doc) <= MaxLen
         /\ pending' = [pending EXCEPT ![q] = None]
         /\ IF valid /\ out.ok
              THEN /\ \E r \in Fresh :
                        /\ details' = [details EXCEPT ![s] = r]
                        /\ obj' = Collected([obj EXCEPT ![r] = out.doc], details', pending')
                   /\ listed' = Synced(s, out.doc)
                   /\ policy' = policy \cup {s}
                   /\ disturbed' = (disturbed \/ details[s] # ref)
              ELSE /\ obj' = Collected(obj, details, pending')
                   /\ UNCHANGED <<details, listed, policy, disturbed>>
  /\ UNCHANGED <<saved>>

deleteSchema(s) ==
  /\ details[s] # None
  /\ details' = [details EXCEPT ![s] = None]
  /\ obj' = Collected(obj, details', pending)
  /\ listed' = [listed EXCEPT ![s] = <<>>]
  /\ policy' = policy \ {s}
  /\ UNCHANGED <<pending, saved, disturbed>>

(* sim_save, serialize_ndo *)
save ==
  /\ saved' = [docs   |-> [s \in Sid |-> IF details[s] = None THEN None ELSE obj[details[s]]],
               listed |-> listed, policy |-> policy]
  /\ UNCHANGED <<obj, details, listed, policy, pending, disturbed>>

(* A dictionary of its own for each document in docs. *)
Placed(docs) ==
  \E at \in [Sid -> Ref \cup {None}] :
    /\ \A s \in Sid : at[s] = None <=> docs[s] = None
    /\ \A s, t \in Sid : s # t /\ at[s] = at[t] => at[s] = None
    /\ \A s \in Sid, q \in Patcher : pending'[q] # None => at[s] # pending'[q].ref
    /\ details' = at
    /\ obj' = Collected([r \in Ref |-> IF \E s \in Sid : at[s] = r
                                        THEN docs[CHOOSE s \in Sid : at[s] = r]
                                        ELSE obj[r]], at, pending')

(* sim_load, apply_ndo: every field is replaced by a copy. *)
load ==
  /\ saved # None
  /\ UNCHANGED pending /\ Placed(saved.docs)
  /\ listed' = saved.listed /\ policy' = saved.policy
  /\ UNCHANGED <<saved, disturbed>>

(* The process is started again: build_ndo_model. *)
Built == [s \in Sid |-> IF s \in Seeded THEN SeedDoc ELSE None]

restart ==
  /\ pending' = [q \in Patcher |-> None]
  /\ Placed(Built)
  /\ listed' = [s \in Sid |-> IF s \in Seeded THEN <<SeedDoc>> ELSE <<>>]
  /\ policy' = Seeded
  /\ UNCHANGED <<saved, disturbed>>

Init ==
  /\ pending = [q \in Patcher |-> None]
  /\ details \in [Sid -> Ref \cup {None}]
  /\ \A s \in Sid : details[s] # None <=> s \in Seeded
  /\ \A s, t \in Seeded : details[s] = details[t] => s = t
  /\ obj = [r \in Ref |-> IF \E s \in Seeded : details[s] = r THEN SeedDoc ELSE None]
  /\ listed = [s \in Sid |-> IF s \in Seeded THEN <<SeedDoc>> ELSE <<>>]
  /\ policy = Seeded
  /\ saved = None /\ disturbed = FALSE

Next ==
  \/ \E s \in Sid : \/ deleteSchema(s)
                    \/ \E t \in {<<>>} \cup {<<n>> : n \in Tmpl} : createSchema(s, t)
                    \/ \E q \in Patcher : patchFound(q, s)
  \/ \E q \in Patcher : \/ patchNothing(q)
                        \/ \E b \in Batch : \/ patchFast(q, b)
                                            \/ \E valid \in BOOLEAN : patchGated(q, b, valid)
  \/ save \/ load \/ restart

Spec == Init /\ [][Next]_vars

-----------------------------------------------------------------------------
(* Properties *)

(* Whatever PATCHes were caught by deletions, loads and each other while   *)
(* they awaited their bodies: a schema that can be fetched is listed once, *)
(* has its policy record, and its document is its own.                     *)
DetailBacked ==
  \A s \in Sid : details[s] # None =>
    /\ Len(listed[s]) = 1
    /\ s \in policy
    /\ \A t \in Sid : details[t] = details[s] => t = s

(* As long as no PATCH was overtaken or failed half-way, what is listed is *)
(* exactly what can be fetched - across gated PATCHes that replace the     *)
(* document other PATCHes are about to look up, loads and restarts.        *)
QuietExact ==
  ~ disturbed =>
    \A s \in Sid : listed[s] = IF details[s] = None THEN <<>> ELSE <<obj[details[s]]>>

=============================================================================
