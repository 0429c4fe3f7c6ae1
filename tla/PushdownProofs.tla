--------------------------- MODULE PushdownProofs ---------------------------
(***************************************************************************)
(* For fields with one value of their own type, pushing filters never      *)
(* loses a row: what the cluster returns contains what DuckDB keeps, and   *)
(* the result of a query is the same as if nothing had been pushed.        *)
(***************************************************************************)
EXTENDS Pushdown, TLAPS

(* The plan is what NewState made of the filters, the hits what matches it. *)
PlanFollows ==
  /\ column \in Cols
  /\ content \in [Docs -> Contents[column]]
  /\ filters \in FilterSets[column]
  /\ phase \in {"bound", "planned", "read", "refused", "answered"}
  /\ phase # "bound" => /\ plan = QueryJSON(BuildQueryFromFilters, raw.json = "object")
                        /\ pushed = (BuildQueryFromFilters # {})
  /\ hits = IF phase \in {"read", "answered"} THEN Matching(plan) ELSE {}
  /\ answer = IF phase = "answered" THEN {d \in hits : Wanted(d)} ELSE {}

LEMMA PlanFollowsAlways == Spec => []PlanFollows
<1>1. Init => PlanFollows
  BY DEF Init, PlanFollows
<1>2. PlanFollows /\ [Next]_vars => PlanFollows'
  <2> SUFFICES ASSUME PlanFollows, [Next]_vars PROVE PlanFollows'
    OBVIOUS
  <2>1. UNCHANGED request
    BY DEF Next, NewState, NextPage, PostFilter, vars
  <2>2. UNCHANGED <<BuildQueryFromFilters, raw.json>> /\ \A d \in Docs : Wanted(d)' = Wanted(d)
    BY <2>1 DEF request, BuildQueryFromFilters, Leaves, Add, ConstantToClause, ScalarGo, Wanted, Shown, es
  <2>3. \A q : Matching(q)' = Matching(q)
    BY <2>1 DEF request, Matching, Selects, SentKeys, Satisfies, Test, Exists, Terms, Indexed, Decode, es
  <2>4. hits \subseteq Docs /\ {d \in hits : Wanted(d)'} = {d \in hits : Wanted(d)}
    BY <2>2 DEF PlanFollows, Matching
  <2>5. CASE NewState
    BY <2>1, <2>2, <2>5 DEF PlanFollows, NewState, request
  <2>6. CASE NextPage
    BY <2>1, <2>2, <2>3, <2>6 DEF PlanFollows, NextPage, request
  <2>7. CASE PostFilter
    BY <2>1, <2>2, <2>3, <2>4, <2>7 DEF PlanFollows, PostFilter, request
  <2>8. CASE UNCHANGED vars
    BY <2>1, <2>2, <2>3, <2>4, <2>8 DEF PlanFollows, vars, request
  <2> QED BY <2>5, <2>6, <2>7, <2>8 DEF Next
<1> QED BY <1>1, <1>2, PTL DEF Spec

RawQueries ==
  {Raw(json, S, K) : json \in {"none", "malformed", "object"}, S \in SUBSET Docs, K \in SUBSET RawKeys}

LEMMA RawTyped == Init => raw \in RawQueries
<1> SUFFICES ASSUME Init PROVE raw \in RawQueries
  OBVIOUS
<1>1. \E json \in {"none", "malformed", "object"} : \E S \in SUBSET Docs, K \in SUBSET RawKeys : raw = Raw(json, S, K)
  <2>1. CASE raw \in {Raw("none", {}, {}), Raw("malformed", {}, {})}
    BY <2>1
  <2>2. CASE raw \in {Raw("object", S, {}) : S \in SUBSET Docs}
    BY <2>2
  <2>3. CASE raw \in {Raw("object", Docs, {k}) : k \in RawKeys}
    <3>1. PICK k \in RawKeys : raw = Raw("object", Docs, {k})
      BY <2>3
    <3> QED BY <3>1
  <2> QED BY <2>1, <2>2, <2>3 DEF Init
<1> QED BY <1>1 DEF RawQueries

(* An integer that a double holds is decoded as itself.                    *)
LEMMA SentAsWritten ==
  ASSUME RawExact
  PROVE  SentKeys = raw.keys /\ \A d : Unfiltered(d) <=> Constrained(d)
<1>1. \A k \in raw.keys : Float64(k) = k
  BY DEF RawExact, Float64
<1>2. SentKeys = raw.keys
  BY <1>1 DEF SentKeys
<1> QED BY <1>2 DEF Unfiltered, Constrained

(* The stored query is JSON that the cluster can read: no null, no NaN and *)
(* no empty list of values is in it (TypeOK).                              *)
THEOREM PlansAreWellFormed == Spec => []TypeOK
<1>1. Init => TypeOK
  <2> SUFFICES ASSUME Init PROVE TypeOK
    OBVIOUS
  <2>1. raw \in RawQueries
    BY RawTyped
  <2>2. plan.clauses = {}
    BY DEF Init, MatchAll, Query
  <2>3. pushed \in BOOLEAN
    BY Zenon DEF Init
  <2>4. content \in [Docs -> Contents[column]] /\ column \in Cols /\ filters \in FilterSets[column]
    BY DEF Init
  <2>5. phase = "bound" /\ answer = {} /\ hits = {}
    BY DEF Init
  <2> QED BY <2>1, <2>2, <2>3, <2>4, <2>5 DEF TypeOK, RawQueries
<1>2. TypeOK /\ [Next]_vars => raw' \in RawQueries
  BY DEF RawQueries, TypeOK, Next, NewState, NextPage, PostFilter, vars, request
<1>3. ASSUME PlanFollows, NEW c \in QueryJSON(BuildQueryFromFilters, raw.json = "object").clauses
      PROVE  c.values \cap {Null, NaN} = {} /\ (c.test # "exists" => c.values # {})
  <2>1. c \in BuildQueryFromFilters /\ NaN \notin c.values
    BY <1>3 DEF QueryJSON, Query, MatchAll
  <2>2. PICK g \in Leaves(filters) : c \in Add(g)
    BY <2>1 DEF BuildQueryFromFilters
  <2> QED BY <2>1, <2>2 DEF Add, ConstantToClause, ScalarGo, Clause
<1>4. TypeOK /\ [Next]_vars /\ PlanFollows /\ PlanFollows' => TypeOK'
  <2> SUFFICES ASSUME TypeOK, [Next]_vars, PlanFollows, PlanFollows' PROVE TypeOK'
    OBVIOUS
  <2>1. \A c \in plan'.clauses : c.values \cap {Null, NaN} = {} /\ (c.test # "exists" => c.values # {})
    <3>1. CASE NewState
      BY <1>3, <3>1 DEF NewState
    <3>2. CASE UNCHANGED plan
      BY <3>2 DEF TypeOK
    <3> QED BY <3>1, <3>2 DEF Next, NextPage, PostFilter, vars
  <2>2. pushed' \in BOOLEAN
    <3>1. CASE NewState
      BY <3>1, Zenon DEF NewState
    <3>2. CASE UNCHANGED pushed
      BY <3>2 DEF TypeOK
    <3> QED BY <3>1, <3>2 DEF Next, NextPage, PostFilter, vars
  <2>3. answer' \subseteq hits' /\ hits' \subseteq Docs
    BY DEF PlanFollows, Matching
  <2> QED BY <1>2, <2>1, <2>2, <2>3 DEF PlanFollows, TypeOK, RawQueries
<1> QED BY <1>1, <1>4, PlanFollowsAlways, PTL DEF Spec

-----------------------------------------------------------------------------
(* A plain field shows its value, which is also what is indexed of it. *)
LEMMA PlainField ==
  ASSUME PlainContents, column \in Cols, NEW c \in Contents[column]
  PROVE  /\ c.shape = "plain" => /\ Cell(es, c) = c.value /\ c.value \in Int
                                /\ Terms(c) = {Indexed(c.value)} /\ Exists(c)
         /\ c.shape # "plain" => Cell(es, c) = Null /\ Terms(c) = {} /\ ~ Exists(c)
<1>1. /\ IsScalarType(es) /\ es # "text" /\ column.source # "_score"
      /\ c.shape \in {"absent", "plain"} /\ c.value \in Int
  BY DEF PlainContents, es
<1>2. CASE c.shape = "plain"
  BY <1>1, <1>2 DEF Cell, Terms, Exists
<1>3. CASE c.shape = "absent"
  BY <1>1, <1>3 DEF Cell, Terms, Exists
<1> QED BY <1>1, <1>2, <1>3

(* Constants come through the JSON of the plan as they were. *)
LEMMA DecodedAsPushed ==
  ASSUME ExactConstants, column \in Cols, filters \in FilterSets[column],
         NEW g \in Leaves(filters), NEW clause \in Add(g),
         clause.values \subseteq Int
  PROVE  Decode(clause) = clause
<1>1. clause.values \subseteq ConstantsOf(g)
  BY DEF Add, ConstantToClause, ScalarGo, Clause, ConstantsOf
<1>2. CASE EsTypeToArrow(es) = "int64"
  <2>1. \A v \in clause.values : Float64(v) = v
    BY <1>1, <1>2 DEF ExactConstants, AllConstants, Float64, es
  <2>2. {Float64(v) : v \in clause.values} = clause.values
    BY <2>1
  <2>3. PICK n, t, S : clause = [negated |-> n, test |-> t, values |-> S]
    BY DEF Add, ConstantToClause, Clause
  <2> QED BY <1>2, <2>2, <2>3 DEF Decode
<1>3. CASE EsTypeToArrow(es) # "int64"
  BY <1>3 DEF Decode
<1> QED BY <1>2, <1>3

(* A filter that keeps a cell is pushed as a clause the document satisfies. *)
LEMMA KeptIsMatched ==
  ASSUME PlainContents, ExactConstants, column \in Cols, filters \in FilterSets[column],
         NEW g \in Leaves(filters), NEW clause \in Add(g), NaN \notin clause.values,
         NEW c \in Contents[column], LeafKeeps(g, Cell(es, c))
  PROVE  Satisfies(Decode(clause), c)
<1>1. clause.values \subseteq Int
  BY FilterAssumption DEF AllConstants, ConstantsOf, Add, ConstantToClause, ScalarGo, Clause
<1>2. Decode(clause) = clause
  BY <1>1, DecodedAsPushed
<1>3. CASE g.type = "constant"
  <2>1. g.value # Null /\ Cell(es, c) # Null /\ Compares(g.op, Cell(es, c), g.value)
    BY <1>3 DEF LeafKeeps
  <2>2. c.value \in Int /\ Cell(es, c) = c.value /\ Terms(c) = {Indexed(c.value)}
    BY <2>1, PlainField
  <2>3. clause = Clause(g.op = "!=", IF g.op = "!=" THEN "=" ELSE g.op, {g.value})
    BY <1>3 DEF Add, ConstantToClause, ScalarGo
  <2>4. g.op # "exists"
    BY <1>3, FilterAssumption DEF Ops
  <2>5. g.op = "=" \/ \A v : Indexed(v) = v
    BY <1>3 DEF PlainContents, EqualitiesOnly, Indexed, es
  <2>6. CASE g.op = "!="
    <3>1. clause.negated /\ clause.test = "=" /\ clause.values = {g.value}
      BY <2>3, <2>6 DEF Clause
    <3>2. c.value # g.value
      BY <2>1, <2>2, <2>6 DEF Compares
    <3>3. ~ Test(clause, c)
      BY <2>2, <2>6, <2>5, <3>1, <3>2 DEF Test, Compares
    <3> QED BY <1>2, <3>1, <3>3 DEF Satisfies
  <2>7. CASE g.op # "!="
    <3>1. ~ clause.negated /\ clause.test = g.op /\ clause.values = {g.value}
      BY <2>3, <2>7 DEF Clause
    <3>2. Compares(g.op, Indexed(c.value), Indexed(g.value))
      <4>1. CASE g.op = "="
        <5>1. c.value = g.value
          BY <2>1, <2>2, <4>1 DEF Compares
        <5> QED BY <4>1, <5>1 DEF Compares
      <4>2. CASE \A v : Indexed(v) = v
        BY <2>1, <2>2, <4>2
      <4> QED BY <2>5, <4>1, <4>2
    <3>3. Test(clause, c)
      BY <2>2, <2>4, <3>1, <3>2 DEF Test
    <3> QED BY <1>2, <3>1, <3>3 DEF Satisfies
  <2> QED BY <2>6, <2>7
<1>4. CASE g.type = "in"
  <2>1. Cell(es, c) # Null /\ Cell(es, c) \in g.values
    BY <1>4 DEF LeafKeeps
  <2>2. c.value \in Int /\ Cell(es, c) = c.value /\ Terms(c) = {Indexed(c.value)}
    BY <2>1, PlainField
  <2>3. clause = Clause(FALSE, "=", g.values \ {Null})
    BY <1>4 DEF Add, ScalarGo
  <2> QED BY <1>2, <2>1, <2>2, <2>3 DEF Satisfies, Test, Clause, Compares
<1>5. CASE g.type = "isNull"
  <2>1. ~ Exists(c)
    BY <1>5, PlainField, ConstantAssumption DEF LeafKeeps
  <2>2. clause = Clause(TRUE, "exists", {})
    BY <1>5 DEF Add
  <2> QED BY <1>2, <2>1, <2>2 DEF Satisfies, Test, Clause
<1>6. CASE g.type = "isNotNull"
  <2>1. Exists(c)
    BY <1>6, PlainField DEF LeafKeeps
  <2>2. clause = Clause(FALSE, "exists", {})
    BY <1>6 DEF Add
  <2> QED BY <1>2, <2>1, <2>2 DEF Satisfies, Test, Clause
<1> QED BY <1>3, <1>4, <1>5, <1>6 DEF Add

(* Conversely a document that satisfies the clause of a filter shows a     *)
(* cell that the filter keeps, where the index keeps what DuckDB sees; but *)
(* for !=, which a document without the field satisfies too.               *)
LEMMA MatchedIsKept ==
  ASSUME PlainContents, ExactConstants, column \in Cols, filters \in FilterSets[column],
         es \notin ConvertedTypes,
         NEW g \in Leaves(filters), g.type = "constant" => g.op # "!=",
         NEW clause \in Add(g), NaN \notin clause.values,
         NEW c \in Contents[column], Satisfies(Decode(clause), c)
  PROVE  LeafKeeps(g, Cell(es, c))
<1>1. clause.values \subseteq Int /\ \A v : Indexed(v) = v
  BY FilterAssumption DEF AllConstants, ConstantsOf, Add, ConstantToClause, ScalarGo, Clause, Indexed
<1>2. Satisfies(clause, c)
  BY <1>1, DecodedAsPushed
<1>3. CASE g.type = "constant"
  <2>1. clause = Clause(FALSE, g.op, {g.value}) /\ g.value # Null /\ g.op # "exists"
    BY <1>3, FilterAssumption DEF Add, ConstantToClause, ScalarGo, Ops
  <2>2. \E t \in Terms(c) : Compares(g.op, t, g.value)
    BY <1>1, <1>2, <2>1 DEF Satisfies, Test, Clause
  <2>3. Cell(es, c) = c.value /\ c.value \in Int /\ Compares(g.op, c.value, g.value)
    BY <1>1, <2>2, PlainField
  <2> QED BY <1>3, <2>1, <2>3, ConstantAssumption DEF LeafKeeps
<1>4. CASE g.type = "in"
  <2>1. clause = Clause(FALSE, "=", g.values \ {Null})
    BY <1>4 DEF Add, ScalarGo
  <2>2. \E t \in Terms(c), v \in g.values \ {Null} : t = v
    BY <1>1, <1>2, <2>1 DEF Satisfies, Test, Clause, Compares
  <2>3. Cell(es, c) = c.value /\ c.value \in Int /\ c.value \in g.values
    BY <1>1, <2>2, PlainField
  <2> QED BY <1>4, <2>3, ConstantAssumption DEF LeafKeeps
<1>5. CASE g.type = "isNull"
  <2>1. clause = Clause(TRUE, "exists", {})
    BY <1>5 DEF Add
  <2> QED BY <1>2, <1>5, <2>1, PlainField DEF Satisfies, Test, Clause, LeafKeeps
<1>6. CASE g.type = "isNotNull"
  <2>1. clause = Clause(FALSE, "exists", {})
    BY <1>6 DEF Add
  <2> QED BY <1>2, <1>6, <2>1, PlainField, ConstantAssumption DEF Satisfies, Test, Clause, LeafKeeps
<1> QED BY <1>3, <1>4, <1>5, <1>6 DEF Add

-----------------------------------------------------------------------------
(* Pushing filters never loses a row (PushdownIsSuperset), for every set   *)
(* of filters, raw query and documents whose fields are plain.             *)
THEOREM PushdownLosesNothing ==
  ASSUME PlainContents, ExactConstants
  PROVE  Spec => []PushdownIsSuperset
<1>1. PlanFollows => PushdownIsSuperset
  <2> SUFFICES ASSUME PlanFollows, phase \in {"read", "answered"},
                      NEW d \in Docs, Wanted(d), Unfiltered(d)
               PROVE  d \in Matching(plan)
    BY DEF PlanFollows, PushdownIsSuperset
  <2>1. plan = QueryJSON(BuildQueryFromFilters, raw.json = "object")
    BY DEF PlanFollows
  <2>2. plan.raw => Selects(SentKeys, d)
    BY <2>1 DEF QueryJSON, Query, MatchAll, Unfiltered
  <2>3. ASSUME NEW clause \in plan.clauses
        PROVE  Satisfies(Decode(clause), content[d])
    <3>1. clause \in BuildQueryFromFilters /\ NaN \notin clause.values
      BY <2>1, <2>3 DEF QueryJSON, Query, MatchAll
    <3>2. PICK f \in filters : \E g \in Children(f) : clause \in Add(g)
      BY <3>1 DEF BuildQueryFromFilters, Leaves
    <3>3. PICK g \in Children(f) : clause \in Add(g)
      BY <3>2
    <3>4. Keeps(f, Cell(es, content[d]))
      BY DEF Wanted, Shown
    <3>5. LeafKeeps(g, Cell(es, content[d]))
      BY <3>3, <3>4 DEF Keeps, Children
    <3>6. g \in Leaves(filters)
      BY <3>3 DEF Leaves
    <3> QED BY <3>1, <3>3, <3>5, <3>6, KeptIsMatched DEF PlanFollows
  <2> QED BY <2>2, <2>3 DEF Matching
<1> QED BY <1>1, PlanFollowsAlways, PTL

(* A raw query constrains every row (RawConstrains), unless a constant     *)
(* that JSON cannot hold makes the whole query vanish, or an integer of    *)
(* its own is one that doubles do not hold.                                *)
THEOREM RawQueryConstrains ==
  ASSUME JSONConstants
  PROVE  Spec => []RawConstrains
<1>1. PlanFollows => RawConstrains
  <2> SUFFICES ASSUME PlanFollows, RawExact, NEW d \in hits, raw.json = "object"
               PROVE  Selects(raw.keys, d)
    BY DEF RawConstrains, Constrained
  <2>1. d \in Matching(plan) /\ plan = QueryJSON(BuildQueryFromFilters, TRUE)
    BY DEF PlanFollows
  <2>2. \A c \in BuildQueryFromFilters : NaN \notin c.values
    BY DEF PlanFollows, JSONConstants, AllConstants, ConstantsOf, BuildQueryFromFilters,
           Add, ConstantToClause, ScalarGo, Clause
  <2> QED BY <2>1, <2>2, SentAsWritten DEF QueryJSON, Query, Matching
<1> QED BY <1>1, PlanFollowsAlways, PTL

(* Hence the rows of a query are those it would have had without pushdown  *)
(* (ExactAnswer).                                                          *)
THEOREM PushdownChangesNoAnswer ==
  ASSUME PlainContents, ExactConstants, JSONConstants
  PROVE  Spec => []ExactAnswer
<1>1. PlanFollows /\ PushdownIsSuperset /\ RawConstrains => ExactAnswer
  BY SentAsWritten DEF PlanFollows, PushdownIsSuperset, RawConstrains, ExactAnswer, Matching
<1> QED BY <1>1, PlanFollowsAlways, PushdownLosesNothing, RawQueryConstrains, PTL

(* A column reported as pushed, of which nothing was declined, needs no    *)
(* post-filter (PushedSuffices): the hits are exactly what DuckDB wants.   *)
THEOREM PushedNeedsNoPostFilter ==
  ASSUME PlainContents, ExactConstants, JSONConstants
  PROVE  Spec => []PushedSuffices
<1>1. PlanFollows => PushedSuffices
  <2> SUFFICES ASSUME PlanFollows, phase \in {"read", "answered"}, FullyPushed, NEW d \in hits,
                      NEW f \in filters
               PROVE  Keeps(f, Cell(es, content[d]))
    BY DEF PushedSuffices, Wanted, Shown
  <2>1. d \in Matching(plan) /\ plan = QueryJSON(BuildQueryFromFilters, raw.json = "object")
    BY DEF PlanFollows
  <2>2. \A clause \in BuildQueryFromFilters : NaN \notin clause.values
    BY DEF PlanFollows, JSONConstants, AllConstants, ConstantsOf, BuildQueryFromFilters,
           Add, ConstantToClause, ScalarGo, Clause
  <2>3. \A clause \in BuildQueryFromFilters : Satisfies(Decode(clause), content[d])
    BY <2>1, <2>2 DEF QueryJSON, Query, Matching
  <2>4. ASSUME NEW g \in Children(f) PROVE LeafKeeps(g, Cell(es, content[d]))
    <3>1. g \in Leaves(filters) /\ Add(g) # {}
      BY <2>4 DEF Leaves, FullyPushed
    <3>2. PICK clause \in Add(g) : TRUE
      BY <3>1
    <3>3. clause \in BuildQueryFromFilters
      BY <3>1 DEF BuildQueryFromFilters
    <3>4. content[d] \in Contents[column]
      BY <2>1 DEF PlanFollows, Matching
    <3>5. g.type = "constant" => g.op # "!="
      BY <3>1 DEF FullyPushed
    <3>6. column \in Cols /\ filters \in FilterSets[column] /\ es \notin ConvertedTypes
      BY DEF PlanFollows, FullyPushed
    <3> QED BY <2>2, <2>3, <3>1, <3>2, <3>3, <3>4, <3>5, <3>6, MatchedIsKept
  <2> QED BY <2>4 DEF Keeps, Children
<1> QED BY <1>1, PlanFollowsAlways, PTL
=============================================================================
