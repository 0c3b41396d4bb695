-------------------------------- MODULE Query --------------------------------
(***************************************************************************)
(* aci_sim/query/engine.py and the GET routes of rest_aci/app.py: which    *)
(* MOs of a site's store a query answers with, in which order, in which    *)
(* shape, and on which page.  A query changes nothing.  What is hard is    *)
(* what it reads: the walk over child lists has to give what DN prefixes   *)
(* and classes say, and a client that turns pages does so while others     *)
(* write.                                                                  *)
(*                                                                         *)
(* The store is the one of MITStore.  What a filter says of an MO is       *)
(* Filter's; here it is any predicate.                                     *)
(***************************************************************************)
EXTENDS MITStore

CONSTANTS
  ClassOf,       \* the class of the MO at a DN, which its last RN determines
  Writable,      \* DN -> the values a write may give its MO, {} for none
  Root,          \* the DN of the MO that is there from the start
  Text,          \* the filters that requests carry
  NoFilter,      \* "no query-target-filter"
  FilterFails(_),  \* parse_filter raises FilterParseError
  FilterHolds(_, _),    \* the predicate parse_filter returns for a text, on an MO
  MaxSize,       \* the limit that page-size is clamped to
  Query,         \* the queries in play
  Paged,         \* those of them that a client reads page by page
  NoListing

VARIABLE listing \* a client that reads a query page by page

queryVars == <<store, listing>>

(* QueryParams, with what the path of the request says.  An empty set of   *)
(* classes is an absent parameter.                                         *)
Params == [kind : {"class", "mo", "node"}, dn : Dn, cls : Class,
           target : {"none", "subtree", "children"},
           rsp : {"none", "children", "full"},
           rspClasses : SUBSET Class, targetClasses : SUBSET Class,
           filter : Text, size : Int]

ASSUME QueryAssumption == Query \subseteq Params /\ Paged \subseteq Query

ASSUME FilterAssumption == \A m \in MO : FilterHolds(NoFilter, m)

ASSUME SiteAssumption ==
  /\ ClassOf \in [Dn -> Class]
  /\ Writable \in [Dn -> SUBSET (Val \cup {Unset})]
  /\ Root \in Dn
  /\ MaxSize \in Nat \ {0}

Listing == [q : Paged, page : Nat, got : Seq(Dn), done : BOOLEAN, kept : SUBSET Dn, lost : BOOLEAN]

ASSUME NoListingAssumption == NoListing \notin Listing

-----------------------------------------------------------------------------
(* engine.py *)

(* _subtree_classes; an absent parameter lets every class through.         *)
Wanting(q, cls) ==
  LET classes == IF q.rspClasses # {} THEN q.rspClasses ELSE q.targetClasses
  IN  classes = {} \/ cls \in classes

Matching(st, q) == {d \in Present(st) : FilterHolds(q.filter, st.mo[d])}
Wanted(st, q)   == {d \in Present(st) : Wanting(q, st.mo[d].class)}
OfClass(st, q)  == {d \in Present(st) : st.mo[d].class = q.cls}

(* by_class, and run_node_scoped below a node *)
Roots(st, q) ==
  CASE q.kind = "mo"    -> IF q.dn \in Present(st) THEN <<q.dn>> ELSE <<>>
    [] q.kind = "class" -> Picked(InsertionOrder(st), OfClass(st, q))
    [] q.kind = "node"  -> Picked(InsertionOrder(st), OfClass(st, q) \cap (Below(q.dn) \ {q.dn}))

(* What each root contributes to a flat answer, before anything is picked. *)
InScope(st, q, d) ==
  IF q.target = "subtree" THEN <<d>> \o Subtree(st, d) ELSE Children(st, d)

Flat(q) == q.rsp = "none" /\ q.target # "none"

(* Fault for Scope: only the roots that pass the filter are expanded.      *)
ScopeFilteredRoots(st, q) ==
  LET roots == Picked(Roots(st, q), Matching(st, q))
  IN  IF Flat(q)
        THEN Picked(FlattenSeq([i \in DOMAIN roots |-> InScope(st, q, roots[i])]),
                    Wanted(st, q) \cap Matching(st, q))
        ELSE roots

(* The three branches of _build_result up to the paging.                   *)
Scope(st, q) ==
  LET roots == Roots(st, q)
  IN  IF Flat(q)
        THEN Picked(FlattenSeq([i \in DOMAIN roots |-> InScope(st, q, roots[i])]),
                    Wanted(st, q) \cap Matching(st, q))
        ELSE Picked(roots, Matching(st, q))

(* A nested answer is a tree; here it is the list of its nodes in document *)
(* order, each with the DN of the entry it is in: <<that DN, its own>>.    *)

(* Fault for Emitted: an MO whose class is not wanted takes its            *)
(* descendants with it.                                                    *)
EmittedCut(st, q, nest, a, c) ==
  IF c \notin Present(st) THEN nest[<<a, c>>]
  ELSE IF c \in Wanted(st, q) THEN << <<a, c>> >> \o nest[<<c, c>>] ELSE <<>>

(* What c, of the child list of a DN, puts into the entry of a: an MO is   *)
(* emitted if its class is wanted or if something below it is emitted; a   *)
(* DN without an MO passes its own up.                                     *)
Emitted(st, q, nest, a, c) ==
  IF c \notin Present(st) THEN nest[<<a, c>>]
  ELSE IF c \in Wanted(st, q) \/ nest[<<c, c>>] # <<>> THEN << <<a, c>> >> \o nest[<<c, c>>]
  ELSE <<>>

(* The same for all of the child list of e[2], in the entry of e[1].       *)
Nesting(st, q, nest, e) ==
  FlattenSeq([i \in 1..Len(st.kids[e[2]]) |-> Emitted(st, q, nest, e[1], st.kids[e[2]][i])])

(* _nested_children *)
Nested(st, q, d) ==
  LET nest[e \in Dn \X Dn] == Nesting(st, q, nest, e)
  IN  nest[<<d, d>>]

(* _attach_subtree *)
Entry(st, q, d) ==
  [dn     |-> d,
   nested |-> CASE q.rsp = "none"     -> <<>>
                [] q.rsp = "full"     -> Nested(st, q, d)
                [] q.rsp = "children" ->
                     LET cs == Picked(Children(st, d), Wanted(st, q))
                     IN  [i \in 1..Len(cs) |-> <<d, cs[i]>>]]

(* params_from_dict; page is counted by the client here and never wrong.   *)
Size(q) == IF q.size > MaxSize THEN MaxSize ELSE q.size

(* Fault for Paginate: the first entry of a page is the last of the one    *)
(* before.                                                                 *)
PaginateOverlap(s, page, size) ==
  SubSeq(s, page * size + 2, IF (page + 1) * size + 1 > Len(s) THEN Len(s) ELSE (page + 1) * size + 1)

(* _paginate *)
Paginate(s, page, size) ==
  SubSeq(s, page * size + 1, IF (page + 1) * size > Len(s) THEN Len(s) ELSE (page + 1) * size)

(* The 400 of the routes.  run_mo_query answers for an absent DN before it *)
(* looks at the filter.                                                    *)
Refused(st, q) ==
  \/ q.size < 1
  \/ FilterFails(q.filter) /\ (q.kind = "mo" => q.dn \in Present(st))

(* get_class, get_mo, get_node_class *)
Answer(st, q, page) ==
  LET all == Scope(st, q)
      cut == Paginate(all, page, Size(q))
  IN  [imdata |-> [i \in 1..Len(cut) |-> Entry(st, q, cut[i])], total |-> Len(all)]

Dns(imdata) == [i \in 1..Len(imdata) |-> imdata[i].dn]

-----------------------------------------------------------------------------
(* The machine *)

QueryInit ==
  /\ store = AddOne(EmptyStore, Root, [class |-> ClassOf[Root], val |-> Unset])
  /\ listing = NoListing

(* What changes for a listing when the store becomes st: which MOs have    *)
(* been in it at every moment, and whether one has left it.                *)
Watched(st) ==
  IF listing = NoListing THEN NoListing
  ELSE LET now == ToSet(Scope(st, listing.q))
       IN  [listing EXCEPT !.kept = @ \cap now,
                           !.lost = @ \/ ~ ToSet(Scope(store, listing.q)) \subseteq now]

(* The writes that other clients make, through upsert and delete.          *)
write(d, v) ==
  /\ upsert(d, [class |-> ClassOf[d], val |-> v])
  /\ listing' = Watched(store')

remove(d) ==
  /\ delete(d)
  /\ listing' = Watched(store')

(* docs/CONTRACT.md: the client loops until a short page.                  *)
getFirst(q) ==
  /\ listing = NoListing
  /\ ~ Refused(store, q)
  /\ LET page == Dns(Answer(store, q, 0).imdata)
     IN  listing' = [q |-> q, page |-> 0, got |-> page, done |-> Len(page) < Size(q),
                     kept |-> ToSet(Scope(store, q)), lost |-> FALSE]
  /\ UNCHANGED store

getRefused(q) == listing = NoListing /\ Refused(store, q) /\ UNCHANGED queryVars

getNext ==
  /\ listing # NoListing /\ ~ listing.done
  /\ LET page == Dns(Answer(store, listing.q, listing.page + 1).imdata)
     IN  listing' = [listing EXCEPT !.page = @ + 1, !.got = @ \o page,
                                    !.done = Len(page) < Size(listing.q)]
  /\ UNCHANGED store

leave == listing # NoListing /\ listing.done /\ listing' = NoListing /\ UNCHANGED store

QueryNext ==
  \/ \E d \in Dn : \E v \in Writable[d] : write(d, v)
  \/ \E d \in Dn : Writable[d] # {} /\ remove(d)
  \/ \E q \in Paged : getFirst(q)
  \/ \E q \in Query : getRefused(q)
  \/ getNext
  \/ leave

QuerySpec == QueryInit /\ [][QueryNext]_queryVars

-----------------------------------------------------------------------------
(* Properties *)

(* What a query means, by DN prefixes and classes alone.                   *)
RootSet(st, q) ==
  {d \in Present(st) :
     CASE q.kind = "mo"    -> d = q.dn
       [] q.kind = "class" -> st.mo[d].class = q.cls
       [] q.kind = "node"  -> st.mo[d].class = q.cls /\ d # q.dn /\ d \in Below(q.dn)}

Hit(st, q, d) == Wanting(q, st.mo[d].class) /\ FilterHolds(q.filter, st.mo[d])

Copies(s, d) == Cardinality({i \in DOMAIN s : s[i] = d})

(* d is in the answer on account of the root r.                            *)
Shows(st, q, r, d) ==
  /\ d \in Present(st)
  /\ ~ Flat(q) => d = r /\ FilterHolds(q.filter, st.mo[d])
  /\ Flat(q) => /\ Hit(st, q, d)
                /\ q.target = "subtree"  => d \in Below(r)
                /\ q.target = "children" => ~ IsTop(d) /\ parent_dn(d) = r

(* How often d belongs into the answer: once for each such root.           *)
Due(st, q, d) == Cardinality({r \in RootSet(st, q) : Shows(st, q, r, d)})

(* The nearest MO above x, from d on.                                      *)
Nearest(st, d, x) ==
  CHOOSE p \in Present(st) \cap Below(d) :
    /\ x \in Below(p) \ {p}
    /\ \A y \in Present(st) : x \in Below(y) \ {y} => Len(y) <= Len(p)

NestedRight(st, q, d) ==
  LET nested == Entry(st, q, d).nested
      inside == (Below(d) \ {d}) \cap Present(st)
      emit   == IF q.rsp = "full"
                  THEN {x \in inside : \E y \in inside \cap Below(x) : Wanting(q, st.mo[y].class)}
                  ELSE {x \in inside : Len(x) = Len(d) + 1 /\ Wanting(q, st.mo[x].class)}
  IN  /\ ToSet(nested) = {<<Nearest(st, d, x), x>> : x \in emit}
      /\ \A i, j \in DOMAIN nested : nested[i][2] = nested[j][2] => i = j

(* The walks over child lists answer what DN prefixes, classes and the     *)
(* filter say (engine.py), on every store that writes can reach, stubs     *)
(* included: an MO is in a flat answer once for each root it is in scope   *)
(* of, also if the root itself fails the filter; in a nested answer every  *)
(* wanted descendant is there once, below its nearest ancestor that has an *)
(* MO, and nothing is there without a reason; the pages up to the total    *)
(* count make up the listing.                                              *)
AnswerExact ==
  listing = NoListing =>
    \A q \in Query : ~ Refused(store, q) =>
      LET all == Scope(store, q)
      IN  /\ \A d \in Dn : Copies(all, d) = Due(store, q, d)
          /\ FlattenSeq([i \in 1..Answer(store, q, 0).total |-> Dns(Answer(store, q, i - 1).imdata)]) = all
          /\ q.rsp # "none" => \A i \in DOMAIN all : NestedRight(store, q, all[i])

Unfiltered(q) == q.filter = NoFilter /\ q.rsp = "none" /\ q.target = "none"

(* What a client that turns pages until a short one can rely on while      *)
(* others write (engine.py _paginate cuts a listing that each request      *)
(* makes anew): if no MO left the listing, it has seen all that were in it *)
(* throughout; and a listing of a class, which grows at its end only,      *)
(* shows none of those twice, whatever came and went.                      *)
PagesExact ==
  listing # NoListing =>
    /\ listing.done /\ ~ listing.lost => listing.kept \subseteq ToSet(listing.got)
    /\ Unfiltered(listing.q) => \A d \in listing.kept : Copies(listing.got, d) <= 1

=============================================================================
