------------------------------- MODULE Filter --------------------------------
(***************************************************************************)
(* aci_sim/query/filters.py: the query-target-filter of a request, parsed  *)
(* by recursive descent, and the predicate on MOs that it stands for.      *)
(* What is hard is that the parser has to account for every token: a part  *)
(* of a filter that is skipped over is a wider answer than was asked for.  *)
(*                                                                         *)
(* An MO has one attribute besides its DN, called "val".                   *)
(***************************************************************************)
EXTENDS Integers, FiniteSets, SequencesExt

CONSTANTS
  Token,       \* what _tokenize can yield, the values of the attribute among them
  Missing,     \* what an MO has for an attribute that is not in its dictionary
  Num,         \* float(token), or NoNum
  NoNum,
  Rank,        \* the place of a token in the order of strings
  Within,      \* the pairs of tokens of which the first is a substring of the second
  Object,      \* the MOs that clients ask about
  Comparisons, \* the comparisons that they make
  MaxNesting,  \* bounds of what they write: how deep, how long
  MaxTokens

VARIABLE filter  \* a client that writes a query-target-filter

-----------------------------------------------------------------------------
(* The parser.  What it has to say of the expression at a place in the     *)
(* text: whether there is one, the place behind it, and the places of its  *)
(* arguments.                                                              *)

Connective == {"and", "or"}
Binary     == {"eq", "ne", "wcard", "gt", "lt", "ge", "le"}

Parsed(pos, args) == [ok |-> TRUE, pos |-> pos, args |-> args]

(* FilterParseError                                                        *)
Error == [ok |-> FALSE, pos |-> 1, args |-> <<>>]

AnyToken == "any"
Comma    == ","

(* What _expect and _take ask for after the name of a comparison.          *)
Shape(op) == IF op = "bw" THEN <<"(", AnyToken, Comma, AnyToken, Comma, AnyToken, ")">>
                          ELSE <<"(", AnyToken, Comma, AnyToken, ")">>

Comparison(ts, p) ==
  IF \A k \in 1..Len(Shape(ts[p])) : p + k <= Len(ts) /\ Shape(ts[p])[k] \in {AnyToken, ts[p + k]}
    THEN Parsed(p + Len(Shape(ts[p])) + 1, <<>>)
    ELSE Error

(* The loop of _parse_expr over the arguments of an `and` or an `or`, from *)
(* p to its end: commas are skipped wherever they stand.                   *)
Arguments(ts, parse, p) ==
  CASE p > Len(ts) -> Error
    [] p <= Len(ts) /\ ts[p] = ")" -> Parsed(p + 1, <<>>)
    [] p <= Len(ts) /\ ts[p] = Comma -> parse[<<"args", p + 1>>]
    [] OTHER ->
         LET first == parse[<<"expr", p>>]
             rest  == parse[<<"args", first.pos>>]
         IN  IF first.ok /\ rest.ok THEN Parsed(rest.pos, <<p>> \o rest.args) ELSE Error

Combination(ts, parse, p) ==
  LET r == parse[<<"args", p + 2>>]
  IN  IF p < Len(ts) /\ ts[p + 1] = "(" /\ r.args # <<>> THEN r ELSE Error

(* _parse_expr *)
Expression(ts, parse, p) ==
  CASE p <= Len(ts) /\ ts[p] \in Connective -> Combination(ts, parse, p)
    [] p <= Len(ts) /\ ts[p] \in Binary \cup {"bw"} -> Comparison(ts, p)
    [] OTHER -> Error

Place(ts) == {"expr", "args"} \X (1..(Len(ts) + 1))

Chart(ts) ==
  LET parse[e \in Place(ts)] ==
        IF e[1] = "expr" THEN Expression(ts, parse, e[2]) ELSE Arguments(ts, parse, e[2])
  IN  parse

(* Fault for ParseFilter: what follows a complete expression is ignored.   *)
ParseFilterPrefix(ts) == Chart(ts)[<<"expr", 1>>].ok

(* parse_filter, for an expression that is there: is there no error?       *)
ParseFilter(ts) == Chart(ts)[<<"expr", 1>>].ok /\ Chart(ts)[<<"expr", 1>>].pos = Len(ts) + 1

(* The 400 of the routes for the filter of a request, if it has one.       *)
Malformed(ts) == ts # <<>> /\ ~ ParseFilter(ts)

-----------------------------------------------------------------------------
(* The predicates *)

AttrOf(m, attr) == IF attr = "val" THEN m.val ELSE Missing

(* _cmp_pred and _bw_pred compare numbers if all sides are, else strings.  *)
Key(raw, vals) ==
  LET all == {raw} \cup ToSet(vals)
  IN  IF \A x \in all : Num[x] # NoNum THEN Num ELSE Rank

Compare(op, raw, vals) ==
  LET key == Key(raw, vals)
      a   == key[raw]
      b   == key[vals[1]]
  IN  CASE op = "gt" -> a > b
        [] op = "lt" -> a < b
        [] op = "ge" -> a >= b
        [] op = "le" -> a <= b
        [] op = "bw" -> b <= a /\ a <= key[vals[2]]

Says(op, attr, low, high, m) ==
  LET raw == AttrOf(m, attr)
  IN  CASE op = "eq"    -> raw = low
        [] op = "ne"    -> raw # low
        [] op = "wcard" -> <<low, IF raw = Missing THEN "" ELSE raw>> \in Within
        [] op = "bw"    -> raw # Missing /\ Compare("bw", raw, <<low, high>>)
        [] OTHER        -> raw # Missing /\ Compare(op, raw, <<low>>)

(* The predicate that is made of the expression at p.                      *)
Predicate(ts, chart, holds, m, p) ==
  LET args == ToSet(chart[<<"expr", p>>].args)
  IN  CASE ts[p] = "and" -> \A a \in args : holds[a]
        [] ts[p] = "or"  -> \E a \in args : holds[a]
        [] OTHER         -> Says(ts[p], ts[p + 2], ts[p + 4], ts[p + 6], m)

Holds(ts, m) ==
  LET chart == Chart(ts)
      holds[p \in 1..Len(ts)] == Predicate(ts, chart, holds, m, p)
  IN  holds

(* The predicate of a filter that parses: an empty one matches everything. *)
Pred(ts, m) == ts = <<>> \/ Holds(ts, m)[1]

-----------------------------------------------------------------------------
(* The machine: a client writes a filter, from the end to the beginning.   *)
(* `text` is an expression that is complete, and `means` the MOs it is to  *)
(* hold of; `lists` are the argument lists that the client has not closed, *)
(* the innermost first, with the MOs that all or any of the arguments mean.*)

ASSUME ComparisonAssumption ==
  \A c \in Comparisons : /\ c.op \in Binary \cup {"bw"}
                         /\ {c.attr, c.low, c.high} \subseteq Token

ASSUME TokenAssumption ==
  /\ DOMAIN Num = Token /\ Rank \in [Token -> Nat]
  /\ Connective \cup Binary \cup {"bw", "(", Comma, ")"} \subseteq Token

Nothing == [lists |-> <<>>, text |-> <<>>, means |-> {}, slip |-> FALSE]

FilterInit == filter = Nothing

Written(c) == IF c.op = "bw" THEN <<"bw", "(", c.attr, Comma, c.low, Comma, c.high, ")">>
                             ELSE <<c.op, "(", c.attr, Comma, c.low, ")">>

compare(c) ==
  /\ filter.text = <<>>
  /\ filter' = [filter EXCEPT !.text = Written(c),
                              !.means = {m \in Object : Says(c.op, c.attr, c.low, c.high, m)}]

openList ==
  /\ filter.text = <<>> /\ Len(filter.lists) < MaxNesting
  /\ filter' = [filter EXCEPT !.lists = <<[text |-> <<>>, all |-> Object, any |-> {}]>> \o @]

addArgument ==
  LET args == Head(filter.lists)
      more == IF args.text = <<>> THEN filter.text ELSE filter.text \o <<Comma>> \o args.text
  IN  /\ filter.text # <<>> /\ filter.lists # <<>> /\ Len(more) <= MaxTokens
      /\ filter' = [filter EXCEPT !.lists = <<[text |-> more,
                                               all  |-> args.all \cap filter.means,
                                               any  |-> args.any \cup filter.means]>> \o Tail(@),
                                  !.text = <<>>, !.means = {}]

closeList(op) ==
  LET args == Head(filter.lists)
  IN  /\ filter.text = <<>> /\ filter.lists # <<>> /\ args.text # <<>>
      /\ filter' = [filter EXCEPT !.lists = Tail(@),
                                  !.text = <<op, "(">> \o args.text \o <<")">>,
                                  !.means = IF op = "and" THEN args.all ELSE args.any]

(* A slip: one token is left out, is another one, or is one too many.      *)
Slips(ts) ==
  {RemoveAt(ts, i) : i \in DOMAIN ts}
    \cup {ReplaceAt(ts, i, t) : i \in DOMAIN ts, t \in Token}
    \cup {InsertAt(ts, i, t) : i \in 1..Len(ts) + 1, t \in Token}

slip(ts) ==
  /\ filter.text # <<>> /\ filter.lists = <<>> /\ ~ filter.slip
  /\ filter' = [filter EXCEPT !.text = ts, !.slip = TRUE]

drop == filter.text # <<>> /\ filter' = Nothing

FilterNext ==
  \/ \E c \in Comparisons : compare(c)
  \/ openList
  \/ addArgument
  \/ \E op \in Connective : closeList(op)
  \/ \E ts \in Slips(filter.text) : slip(ts)
  \/ drop

FilterSpec == FilterInit /\ [][FilterNext]_filter

-----------------------------------------------------------------------------
(* Properties *)

(* The expressions that the predicate of the one at p looks at.            *)
Nodes(ts) ==
  LET chart == Chart(ts)
      nodes[p \in 1..Len(ts)] == {p} \cup UNION {nodes[a] : a \in ToSet(chart[<<"expr", p>>].args)}
  IN  nodes

(* The tokens that are its own: all of a comparison; the name and the      *)
(* parentheses of a connective.                                            *)
OwnTokens(chart, p) ==
  LET r == chart[<<"expr", p>>]
  IN  IF r.args = <<>> THEN p..(r.pos - 1) ELSE {p, p + 1, r.pos - 1}

(* Every token, but for commas between arguments, belongs to exactly one   *)
(* expression, and the parentheses are where they should be.               *)
Accounted(ts, chart, nodes) ==
  /\ \A k \in 1..Len(ts) : ts[k] # Comma => \E n \in nodes : k \in OwnTokens(chart, n)
  /\ \A n, o \in nodes : n # o => OwnTokens(chart, n) \cap OwnTokens(chart, o) = {}
  /\ \A n \in nodes : ts[n + 1] = "(" /\ ts[chart[<<"expr", n>>].pos - 1] = ")"

(* The parser (filters.py _parse_expr) gives every token its place, so     *)
(* that no part of a filter it accepts is skipped over or counted twice,   *)
(* wherever a slip was made; and what is written by the grammar, however   *)
(* nested, is accepted and holds of the MOs that were meant.               *)
FilterExact ==
  LET ts == filter.text
  IN  ts # <<>> =>
        /\ ParseFilter(ts) => Accounted(ts, Chart(ts), Nodes(ts)[1])
        /\ ~ filter.slip => ParseFilter(ts) /\ \A m \in Object : Pred(ts, m) <=> m \in filter.means

=============================================================================
