------------------------------ MODULE Pushdown ------------------------------
(***************************************************************************)
(* Predicate pushdown.  DuckDB hands NewState the filters on the columns   *)
(* and the raw query argument; NewState stores a query for the cluster in  *)
(* the scan's state, as JSON; a tick decodes it and sends it; DuckDB then  *)
(* applies every filter again to the rows it gets.                         *)
(*                                                                         *)
(* One column's filters are modelled: those of several are conjoined by    *)
(* the same query.  It is a source column or a meta column.  The documents *)
(* are the snapshot that the scan reads (module Scan), all its pages       *)
(* together.                                                               *)
(*                                                                         *)
(* A definition named X_Something is a wrong variant of X (see Scan).      *)
(***************************************************************************)
EXTENDS Columns, Doubles

CONSTANTS Docs,
          Cols,         \* the columns that filters may be on
          Contents,     \* Contents[c]: what documents may hold for column c
          FilterSets,   \* FilterSets[c]: the sets of filters DuckDB may push on it
          IndexedAs,    \* IndexedAs[t][v]: v as the index of a field of type t keeps it
          Unparsable,   \* Unparsable[t]: constants a field of type t cannot be compared with
          NaN,          \* a double that JSON has no number for: NaN, the infinities
          Keys,         \* Keys[d]: the integer that d holds in another field
          RawKeys,      \* those a raw query may ask for there
          Tokens        \* Tokens[v]: what the analyzer makes of the text v

ASSUME ConstantAssumption == Null \notin Int /\ NaN \notin Int /\ Null # NaN
ASSUME RawAssumption == Keys \in [Docs -> Int] /\ RawKeys \subseteq Int

VARIABLES column,    \* the column
          content,   \* content[d]: what document d holds for it
          filters,   \* the filters pushed on the column, conjoined
          raw,       \* the raw query argument: how it parses, what it asks for
          phase,     \* "bound", "planned", "read", "refused" or "answered"
          plan,      \* QueryJSON in the scan's state
          pushed,    \* is the column one reported as fully pushed?
          hits,      \* the documents the cluster returns
          answer     \* the rows that DuckDB keeps of them

request == <<column, content, filters, raw>>
vars == <<request, phase, plan, pushed, hits, answer>>

es == column.es    \* its type in the mapping

(* A filter is a comparison with a constant, an IN, a null test, an AND of *)
(* these, or one of those that BuildQueryFromFilters does not know (OR,    *)
(* struct, expression, join key, an AND in an AND): any set of cells.      *)
Ops == {"=", "!=", ">", ">=", "<", "<="}
Constant(op, v) == [type |-> "constant", op |-> op, value |-> v]
In(S) == [type |-> "in", values |-> S]
IsNull == [type |-> "isNull"]
IsNotNull == [type |-> "isNotNull"]
Other(S) == [type |-> "other", cells |-> S]
And(S) == [type |-> "and", children |-> S]

Children(f) == IF f.type = "and" THEN f.children ELSE {f}
Leaves(F) == UNION {Children(f) : f \in F}
ConstantsOf(f) ==
  CASE f.type = "constant" -> {f.value} [] f.type = "in" -> f.values [] OTHER -> {}
AllConstants(F) == UNION {ConstantsOf(g) : g \in Leaves(F)}

ASSUME FilterAssumption ==
  \A c \in Cols : \A F \in FilterSets[c] :
    /\ AllConstants(F) \subseteq Int \cup {Null, NaN}
    /\ \A g \in Leaves(F) : g.type = "constant" => g.op \in Ops

(* A raw query asks for some of the documents, and for one of some keys.   *)
Raw(json, S, keys) == [json |-> json, matches |-> S, keys |-> keys]
Selects(keys, d) == d \in raw.matches /\ (keys = {} \/ Keys[d] \in keys)

Query(clauses, hasRaw) == [clauses |-> clauses, raw |-> hasRaw]
MatchAll == Query({}, FALSE)    \* the empty QueryJSON

TypeOK ==
  /\ column \in Cols
  /\ content \in [Docs -> Contents[column]]
  /\ filters \in FilterSets[column]
  /\ raw \in {Raw(json, S, K) : json \in {"none", "malformed", "object"}, S \in SUBSET Docs, K \in SUBSET RawKeys}
  /\ phase \in {"bound", "planned", "read", "refused", "answered"}
  /\ \A c \in plan.clauses :    \* what JSON can hold, and the cluster accepts
       c.values \cap {Null, NaN} = {} /\ (c.test # "exists" => c.values # {})
  /\ pushed \in BOOLEAN
  /\ answer \subseteq hits /\ hits \subseteq Docs

Init ==
  /\ column \in Cols
  /\ content \in [Docs -> Contents[column]]
  /\ filters \in FilterSets[column]
  /\ raw \in {Raw("none", {}, {}), Raw("malformed", {}, {})}
             \cup {Raw("object", S, {}) : S \in SUBSET Docs} \cup {Raw("object", Docs, {k}) : k \in RawKeys}
  /\ phase = "bound"
  /\ plan = MatchAll
  /\ pushed = FALSE
  /\ hits = {}
  /\ answer = {}

-----------------------------------------------------------------------------
(* Comparing with a constant; NaN is DuckDB's greatest double. *)
Less(x, v) == IF v = NaN THEN TRUE ELSE x < v
Compares(op, x, v) ==
  CASE op = "=" -> x = v
    [] op = "!=" -> x # v
    [] op = "<" -> Less(x, v)
    [] op = "<=" -> Less(x, v) \/ x = v
    [] op = ">" -> ~ Less(x, v) /\ x # v
    [] op = ">=" -> ~ Less(x, v)

(* When DuckDB keeps a row: its filters are TRUE, not FALSE or NULL. *)
LeafKeeps(f, cell) ==
  \/ f.type = "constant" /\ Null \notin {cell, f.value} /\ Compares(f.op, cell, f.value)
  \/ f.type = "in" /\ cell # Null /\ cell \in f.values
  \/ f.type = "isNull" /\ cell = Null
  \/ f.type = "isNotNull" /\ cell # Null
  \/ f.type = "other" /\ cell \in f.cells
Keeps(f, cell) ==
  IF f.type = "and" THEN \A g \in f.children : LeafKeeps(g, cell) ELSE LeafKeeps(f, cell)

(* A clause of the cluster's bool query, in its filter or its must_not: a  *)
(* term, terms or range test of the field, or exists.                      *)
Clause(negated, test, S) == [negated |-> negated, test |-> test, values |-> S]

(* The values that go into a query: not nulls, not timestamps. *)
ScalarGo_KeepsNulls(S) == IF EsTypeToArrow(es) = "timestamp" THEN {} ELSE S
ScalarGo(S) == IF EsTypeToArrow(es) = "timestamp" THEN {} ELSE S \ {Null}

ConstantToClause_NotNegated(op, v) ==
  {Clause(FALSE, IF op = "!=" THEN "=" ELSE op, {w}) : w \in ScalarGo({v})}
ConstantToClause_BoundsIncluded(op, v) ==
  LET test == CASE op = "!=" -> "=" [] op = ">" -> ">=" [] op = "<" -> "<=" [] OTHER -> op
  IN  {Clause(op = "!=", test, {w}) : w \in ScalarGo({v})}
ConstantToClause(op, v) ==
  {Clause(op = "!=", IF op = "!=" THEN "=" ELSE op, {w}) : w \in ScalarGo({v})}

(* The clause of a filter, or none when it is declined. *)
Add_NullsSwapped(f) ==
  CASE f.type = "constant" -> ConstantToClause(f.op, f.value)
    [] f.type = "in" -> IF ScalarGo(f.values) = {} THEN {} ELSE {Clause(FALSE, "=", ScalarGo(f.values))}
    [] f.type = "isNull" -> {Clause(FALSE, "exists", {})}
    [] f.type = "isNotNull" -> {Clause(TRUE, "exists", {})}
    [] OTHER -> {}
Add(f) ==
  CASE f.type = "constant" -> ConstantToClause(f.op, f.value)
    [] f.type = "in" -> IF ScalarGo(f.values) = {} THEN {} ELSE {Clause(FALSE, "=", ScalarGo(f.values))}
    [] f.type = "isNull" -> {Clause(TRUE, "exists", {})}
    [] f.type = "isNotNull" -> {Clause(FALSE, "exists", {})}
    [] OTHER -> {}

BuildQueryFromFilters == UNION {Add(g) : g \in Leaves(filters)}

(* json.Marshal fails on a NaN, and the query is then the empty string; a  *)
(* raw query that does not parse is ignored.                               *)
QueryJSON_PushedOnly(clauses, hasRaw) ==
  IF \E c \in clauses : NaN \in c.values THEN MatchAll
  ELSE Query(clauses, hasRaw /\ clauses = {})
QueryJSON(clauses, hasRaw) ==
  IF \E c \in clauses : NaN \in c.values THEN MatchAll ELSE Query(clauses, hasRaw)

(* NewState: build the query, keep it as JSON. *)
NewState ==
  /\ phase = "bound"
  /\ plan' = QueryJSON(BuildQueryFromFilters, raw.json = "object")
  /\ pushed' = (BuildQueryFromFilters # {})    \* some filter of the column was
  /\ phase' = "planned"
  /\ UNCHANGED <<request, hits, answer>>

-----------------------------------------------------------------------------
(* The index of some types keeps another value, or one that sorts          *)
(* differently: an address, a version's parts, a rounded number.           *)
ConvertedTypes == {"ip", "version", "float", "half_float", "scaled_float"}
Indexed(v) == IF es \in ConvertedTypes THEN IndexedAs[es][v] ELSE v

(* What the cluster has indexed of a field.  No mapping has a field        *)
(* `_score`.  An object has no terms of its own, but exists when anything  *)
(* in it does.                                                             *)
Terms(c) ==
  LET indexed == CASE c.shape \in {"plain", "coerced"} -> {c.value}
                   [] c.shape = "many" -> {c.value, c.also}
                   [] OTHER -> {}
  IN  IF column.source = "_score" \/ ~ IsScalarType(es) THEN {}
      ELSE IF es = "text" THEN UNION {Tokens[v] : v \in indexed} ELSE {Indexed(v) : v \in indexed}
Exists(c) == IF IsScalarType(es) THEN Terms(c) # {} ELSE c.shape \in {"plain", "many"}

Test(clause, c) ==
  IF clause.test = "exists" THEN Exists(c)
  ELSE \E t \in Terms(c), v \in clause.values : Compares(clause.test, t, Indexed(v))
Satisfies(clause, c) == IF clause.negated THEN ~ Test(clause, c) ELSE Test(clause, c)

(* query(): the JSON is decoded into a map[string]any, integers as doubles; *)
(* the raw query was decoded so before, in buildMergedQuery.               *)
Decode(clause) ==
  IF EsTypeToArrow(es) = "int64"
  THEN [clause EXCEPT !.values = {Float64(v) : v \in @}] ELSE clause

SentKeys == {Float64(k) : k \in raw.keys}

(* The cluster refuses a query with a constant it cannot parse for the     *)
(* field (1000 for a byte, a word for an ip) or a range of `_id`.          *)
Refused(query) ==
  \E c \in query.clauses :
    \/ c.values \cap Unparsable[es] # {}
    \/ column.source = "_id" /\ c.test \in {">", ">=", "<", "<="}

(* The documents that match a stored query. *)
Matching(query) ==
  {d \in Docs : /\ \A c \in query.clauses : Satisfies(Decode(c), content[d])
                /\ query.raw => Selects(SentKeys, d)}

(* The ticks send it and return them. *)
NextPage ==
  /\ phase = "planned"
  /\ IF Refused(plan)
     THEN phase' = "refused" /\ UNCHANGED hits
     ELSE phase' = "read" /\ hits' = Matching(plan)
  /\ UNCHANGED <<request, plan, pushed, answer>>

Shown(d) == Cell(es, content[d])
Wanted(d) == \A f \in filters : Keeps(f, Shown(d))

(* DuckDB applies all filters to the rows. *)
PostFilter ==
  /\ phase = "read"
  /\ answer' = {d \in hits : Wanted(d)}
  /\ phase' = "answered"
  /\ UNCHANGED <<request, plan, pushed, hits>>

Next == NewState \/ NextPage \/ PostFilter
Spec == Init /\ [][Next]_vars

-----------------------------------------------------------------------------
(* What the promise rests on: fields that hold at most one value, of their *)
(* own type, and are no text, object or geo field, nor the score; no       *)
(* ranges or inequalities where the index keeps another value; integer     *)
(* constants that doubles hold; and for the raw query's part, constants    *)
(* that JSON holds.                                                        *)
EqualitiesOnly(F) == \A g \in Leaves(F) : g.type = "constant" => g.op = "="
PlainContents ==
  \A c \in Cols :
    /\ IsScalarType(c.es) /\ c.es # "text" /\ c.source # "_score"
    /\ Contents[c] \subseteq [shape : {"absent", "plain"}, value : Int, also : Int]
    /\ c.es \in ConvertedTypes => \A F \in FilterSets[c] : EqualitiesOnly(F)
ExactConstants ==
  \A c \in Cols : EsTypeToArrow(c.es) = "int64" =>
    \A F \in FilterSets[c] : \A v \in AllConstants(F) : v \in Int => Exact(v)
JSONConstants == \A c \in Cols : \A F \in FilterSets[c] : NaN \notin AllConstants(F)

(* The documents that the raw query selects, as written and as sent.       *)
RawExact == \A k \in raw.keys : Exact(k)
Constrained(d) == raw.json = "object" => Selects(raw.keys, d)
Unfiltered(d) == raw.json = "object" => Selects(SentKeys, d)

(* What is pushed only narrows the rows to a superset of those DuckDB      *)
(* keeps of the rows without it, so that pushing a filter never changes a  *)
(* query's result (README.md, "Predicate pushdown").                       *)
PushdownIsSuperset ==
  phase \in {"read", "answered"} => {d \in Docs : Wanted(d) /\ Unfiltered(d)} \subseteq hits

(* A raw query constrains the rows whatever the pushed filters are (the    *)
(* two are AND-merged), to those it was written for if its integers are    *)
(* ones that doubles hold.                                                 *)
RawConstrains == RawExact => \A d \in hits : Constrained(d)

(* Together: a WHERE clause selects the same rows, pushed or not. *)
ExactAnswer ==
  phase = "answered" /\ RawExact => answer = {d \in Docs : Wanted(d) /\ Constrained(d)}

(* A column that is reported as pushed needs no post-filter, if no part of *)
(* its filters was declined (one AND child is enough to report it) and     *)
(* none is a !=, which must_not also grants to documents without the field *)
(* (BuildQueryFromFilters: "columns not in that set must still be          *)
(* post-filtered").                                                        *)
FullyPushed ==
  /\ pushed /\ es \notin ConvertedTypes
  /\ \A g \in Leaves(filters) : Add(g) # {} /\ (g.type = "constant" => g.op # "!=")
PushedSuffices ==
  phase \in {"read", "answered"} /\ FullyPushed => \A d \in hits : Wanted(d)

(* An explicit null in a scalar column is a NULL in SQL (BuildBatch:       *)
(* "Missing/null values become Arrow nulls").                              *)
NullsReadAsNull ==
  \A d \in answer : content[d].shape = "null" => Shown(d) = Null
=============================================================================
