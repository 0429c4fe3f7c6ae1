---------------------------- MODULE BindingProofs ----------------------------
(***************************************************************************)
(* What types.go and views.go say of one another, for every field type,    *)
(* and theorems about the columns of a query, for any indices, mappings,   *)
(* `fields` arguments, documents and projections.                          *)
(***************************************************************************)
EXTENDS Binding, LoopProofs

ViewAgrees ==
  \A row \in TypeMappingRows :
    /\ row.duckdb = DuckDBType(EsTypeToArrow(row.es))
    /\ row.category = "json" <=> ~ IsScalarType(row.es)

(* The es_type_mapping view lists the type that esTypeToArrow gives, and   *)
(* calls "json" exactly the types whose cells keep their raw JSON text.    *)
THEOREM ViewTellsTypes == ViewAgrees
<1> DEFINE Listed(types, duckdb, category) ==
      \A row \in Rows(types, duckdb, category) :
        /\ row.duckdb = DuckDBType(EsTypeToArrow(row.es))
        /\ row.category = "json" <=> ~ IsScalarType(row.es)
<1>1. Listed({"keyword", "text", "ip", "constant_keyword", "wildcard", "version"}, "VARCHAR", "string")
  BY DEF Rows, DuckDBType, EsTypeToArrow, IsScalarType, StringTypes, IntTypes, DoubleTypes, BooleanTypes, DateTypes
<1>2. Listed({"long", "integer", "short", "byte", "unsigned_long"}, "BIGINT", "integer")
  BY DEF Rows, DuckDBType, EsTypeToArrow, IsScalarType, StringTypes, IntTypes, DoubleTypes, BooleanTypes, DateTypes
<1>3. Listed({"double", "float", "half_float", "scaled_float"}, "DOUBLE", "float")
  BY DEF Rows, DuckDBType, EsTypeToArrow, IsScalarType, StringTypes, IntTypes, DoubleTypes, BooleanTypes, DateTypes
<1>4. Listed({"boolean"}, "BOOLEAN", "boolean")
  BY DEF Rows, DuckDBType, EsTypeToArrow, IsScalarType, StringTypes, IntTypes, DoubleTypes, BooleanTypes, DateTypes
<1>5. Listed({"date", "date_nanos"}, "TIMESTAMP WITH TIME ZONE", "temporal")
  BY DEF Rows, DuckDBType, EsTypeToArrow, IsScalarType, StringTypes, IntTypes, DoubleTypes, BooleanTypes, DateTypes
<1>6. Listed({"object", "nested", "geo_point", "geo_shape"}, "VARCHAR", "json")
  BY DEF Rows, DuckDBType, EsTypeToArrow, IsScalarType, StringTypes, IntTypes, DoubleTypes, BooleanTypes, DateTypes
<1> QED  BY <1>1, <1>2, <1>3, <1>4, <1>5, <1>6 DEF ViewAgrees, TypeMappingRows

(* A column comes out of the stored plan with the Arrow type it was bound  *)
(* with, whatever its type in the mapping: `_score` too, and every source  *)
(* column that does not take a meta column's name.                         *)
THEOREM PlanKeepsTypes ==
  /\ ReattachArrowType(Untyped(IdColumn)) = IdColumn
  /\ ReattachArrowType(Untyped(ScoreColumn)) = ScoreColumn
  /\ \A name, es : name \notin {"_id", "_score"} =>
       ReattachArrowType(Untyped(SourceColumn(name, es))) = SourceColumn(name, es)
<1>1. ReattachArrowType(Untyped(IdColumn)) = IdColumn
  BY DEF ReattachArrowType, Untyped, IdColumn
<1>2. ReattachArrowType(Untyped(ScoreColumn)) = ScoreColumn
  BY DEF ReattachArrowType, Untyped, ScoreColumn
<1>3. ASSUME NEW name, NEW es, name \notin {"_id", "_score"}
      PROVE  ReattachArrowType(Untyped(SourceColumn(name, es))) = SourceColumn(name, es)
  <2> DEFINE col == SourceColumn(name, es)
  <2>1. col = [name |-> name, source |-> name, es |-> es, arrow |-> EsTypeToArrow(es)]
    BY DEF SourceColumn
  <2>2. Untyped(col) = [name |-> name, source |-> name, es |-> es]
    BY <2>1 DEF Untyped
  <2>3. ReattachArrowType([name |-> name, source |-> name, es |-> es]).arrow = EsTypeToArrow(es)
    BY <1>3 DEF ReattachArrowType
  <2>4. ReattachArrowType(Untyped(col)) =
          [name |-> name, source |-> name, es |-> es, arrow |-> EsTypeToArrow(es)]
    BY <2>2, <2>3 DEF ReattachArrowType
  <2> QED  BY <2>1, <2>4
<1> QED  BY <1>1, <1>2, <1>3
-----------------------------------------------------------------------------
SourceCols == {SourceColumn(f, t) : f \in Names, t \in FieldTypes}
Cols == {IdColumn, ScoreColumn} \cup SourceCols

(* The columns es_search can have, and what is known of each.              *)
LEMMA ArrowTypes == \A es : EsTypeToArrow(es) \in Arrow
BY DEF EsTypeToArrow, Arrow

LEMMA ColumnFacts ==
  ASSUME NEW c \in Cols
  PROVE  /\ c.name = c.source /\ c.name \in ColumnNames /\ c.es \in FieldTypes /\ c.arrow \in Arrow
         /\ ReattachArrowType(Untyped(c)) = c /\ IsColumn(c)
         /\ IsMeta(c) <=> c.source \notin Names
<1>1. CASE c \in {IdColumn, ScoreColumn}
  <2>1. c.name = c.source /\ c.name \in {"_id", "_score"} /\ c.es \in FieldTypes /\ c.arrow \in Arrow
    <3>1. CASE c = IdColumn
      BY <3>1, BindingAssumption DEF IdColumn, Arrow
    <3>2. CASE c = ScoreColumn
      BY <3>2, BindingAssumption DEF ScoreColumn, Arrow
    <3> QED BY <1>1, <3>1, <3>2
  <2>2. ReattachArrowType(Untyped(c)) = c
    BY <1>1, PlanKeepsTypes
  <2> QED BY <1>1, <2>1, <2>2, BindingAssumption DEF ColumnNames, IsColumn, IsMeta
<1>2. CASE c \in SourceCols
  <2>1. PICK f \in Names, t \in FieldTypes : c = SourceColumn(f, t)
    BY <1>2 DEF SourceCols
  <2>2. c.name = f /\ c.source = f /\ c.es = t /\ c.arrow = EsTypeToArrow(t)
    BY <2>1 DEF SourceColumn
  <2>3. f \notin {"_id", "_score"}
    BY BindingAssumption
  <2>4. ReattachArrowType(Untyped(c)) = c
    BY <2>1, <2>3, PlanKeepsTypes
  <2> QED BY <2>1, <2>2, <2>3, <2>4, ArrowTypes DEF ColumnNames, IsColumn, IsMeta
<1> QED BY <1>1, <1>2 DEF Cols

LEMMA MetaType == MetaColumns \in Seq(Cols) /\ Len(MetaColumns) = 2
BY DEF MetaColumns, Cols

-----------------------------------------------------------------------------
(* Names can be sorted: the place of a name is the number of those that do *)
(* not come after it.                                                      *)
LEMMA SortedIs ==
  ASSUME NEW S \in SUBSET Names
  PROVE  /\ Cardinality(S) \in Nat
         /\ Sorted(S) \in [1..Cardinality(S) -> S]
         /\ \A i, j \in 1..Cardinality(S) : i < j => NameRank[Sorted(S)[i]] < NameRank[Sorted(S)[j]]
<1> DEFINE n == Cardinality(S)
           r == NameRank
           Upto(x) == {y \in S : r[y] <= r[x]}
           place == [x \in S |-> Cardinality(Upto(x))]
           Ascending(s) == \A i, j \in 1..n : i < j => r[s[i]] < r[s[j]]
<1>1. IsFiniteSet(S) /\ n \in Nat
  BY BindingAssumption, FS_Subset, FS_CardinalityType
<1>0. \A x \in S : r[x] \in Int
  BY BindingAssumption
<1>2. ASSUME NEW x \in S
      PROVE  IsFiniteSet(Upto(x)) /\ Cardinality(Upto(x)) \in 1..n
  <2>1. r[x] \in Int
    BY <1>0
  <2>2. Upto(x) \in SUBSET S /\ x \in Upto(x)
    BY <2>1
  <2>3. IsFiniteSet(Upto(x)) /\ Cardinality(Upto(x)) <= n /\ Cardinality(Upto(x)) \in Nat
    BY <1>1, <2>2, FS_Subset, FS_CardinalityType
  <2>4. Cardinality(Upto(x)) # 0
    BY <2>2, <2>3, FS_EmptySet
  <2> QED BY <1>1, <2>3, <2>4
<1>3. ASSUME NEW x \in S, NEW y \in S, r[x] < r[y]
      PROVE  place[x] < place[y]
  <2>1. Upto(x) \in SUBSET Upto(y) /\ y \in Upto(y) /\ y \notin Upto(x)
    BY <1>0, <1>3
  <2>2. Cardinality(Upto(x)) <= Cardinality(Upto(y)) /\ Cardinality(Upto(x)) # Cardinality(Upto(y))
    BY <1>2, <2>1, FS_Subset
  <2> QED BY <1>2, <2>2
<1>4. place \in [S -> 1..n]
  BY <1>2
<1>5. ASSUME NEW x \in S, NEW y \in S, x # y
      PROVE  place[x] # place[y]
  <2>1. r[x] # r[y]
    BY <1>5, BindingAssumption DEF IsInjective
  <2>2. r[x] < r[y] \/ r[y] < r[x]
    BY <1>0, <2>1
  <2>3. place[x] \in 1..n /\ place[y] \in 1..n
    BY <1>4
  <2> HIDE DEF place
  <2> QED BY <1>3, <2>2, <2>3
<1>6. place \in Injection(S, 1..n)
  BY <1>4, <1>5 DEF Injection, IsInjective
<1>7. \A i \in 1..n : \E x \in S : place[x] = i
  <2>1. IsFiniteSet(1..n) /\ Cardinality(1..n) = n
    BY <1>1, FS_Interval
  <2>2. place \in Surjection(S, 1..n)
    <3> HIDE DEF place
    <3> QED BY <1>1, <1>6, <2>1, FS_Injection
  <2> QED BY <2>2 DEF Surjection
<1> DEFINE s == [i \in 1..n |-> CHOOSE x \in S : place[x] = i]
<1>8. \A i \in 1..n : s[i] \in S /\ place[s[i]] = i
  <2> HIDE DEF place
  <2> QED BY <1>7
<1>9. s \in [1..n -> S]
  <2> HIDE DEF place
  <2> QED BY <1>8
<1>10. Ascending(s)
  <2> SUFFICES ASSUME NEW i \in 1..n, NEW j \in 1..n, i < j, ~ (r[s[i]] < r[s[j]])
               PROVE  FALSE
    OBVIOUS
  <2>1. s[i] \in S /\ s[j] \in S /\ place[s[i]] = i /\ place[s[j]] = j
    BY <1>8
  <2> HIDE DEF place, s
  <2>2. s[i] # s[j]
    BY <1>1, <2>1
  <2>3. r[s[i]] # r[s[j]]
    BY <2>1, <2>2, BindingAssumption DEF IsInjective
  <2>4. r[s[j]] < r[s[i]]
    BY <1>0, <2>1, <2>3
  <2> QED BY <1>1, <1>3, <2>1, <2>4
<1>11. \E t \in [1..n -> S] : Ascending(t)
  <2> HIDE DEF s, Ascending
  <2> QED BY <1>9, <1>10
<1>12. Sorted(S) = CHOOSE t \in [1..n -> S] : Ascending(t)
  BY DEF Sorted
<1>13. Sorted(S) \in [1..n -> S] /\ Ascending(Sorted(S))
  <2> HIDE DEF Ascending
  <2> QED BY <1>11, <1>12
<1> QED BY <1>1, <1>13

LEMMA SortedType ==
  ASSUME NEW S \in SUBSET Names
  PROVE  Sorted(S) \in Seq(S)
BY SortedIs

-----------------------------------------------------------------------------
(* A sequence made of another's elements by a rule has the same positions. *)
LEMMA SourceColumnType ==
  ASSUME NEW f \in Names, NEW t \in FieldTypes
  PROVE  SourceColumn(f, t) \in SourceCols
BY DEF SourceCols

(* parseFieldsSpec: a column of the source for each part that has a name.  *)
LEMMA ParsedType ==
  ASSUME NEW parts \in FieldsArgs
  PROVE  ParseFieldsSpec(parts) \in Seq(SourceCols)
<1> DEFINE Part == [name : Names \cup {""}, type : FieldTypes \cup {NoType}]
           T == {p \in Range(parts) : p.name # ""}
           named == Only(parts, T)
           Type(p) == IF p.type = NoType THEN "keyword" ELSE p.type
           col(i) == SourceColumn(named[i].name, Type(named[i]))
<1>1. named \in Seq(Part \cap T)
  <2>1. parts \in Seq(Part)
    BY BindingAssumption
  <2> HIDE DEF Part, T
  <2> QED BY <2>1, OnlyType
<1>2. ASSUME NEW i \in 1..Len(named)
      PROVE  col(i) \in SourceCols
  <2>1. named[i] \in Part /\ named[i] \in T
    <3> HIDE DEF Part, T, named
    <3> QED BY <1>1, ElementOfSeq
  <2> HIDE DEF named
  <2>2. named[i].name \in Names
    BY <2>1
  <2>3. Type(named[i]) \in FieldTypes
    BY <2>1, BindingAssumption
  <2> HIDE DEF Type
  <2> QED BY <2>2, <2>3, SourceColumnType
<1>3. ParseFieldsSpec(parts) = [i \in DOMAIN named |-> col(i)]
  BY DEF ParseFieldsSpec
<1>4. DOMAIN named = 1..Len(named) /\ Len(named) \in Nat
  <2> HIDE DEF named, Part, T
  <2> QED BY <1>1
<1> HIDE DEF named, col
<1> QED BY <1>2, <1>3, <1>4

(* GetMapping's merge: each field has the entry of an index that has it.   *)
LEMMA MergedFrom ==
  ASSUME mapping \in [Indices -> [Names -> Properties \cup {NoField}]],
         NEW o \in Orders, NEW f \in MergedNames
  PROVE  \E i \in Indices : Has(i, f) /\ Merged(o)[f] = mapping[i][f]
<1> DEFINE n == Cardinality(Indices)
           First(k) == Has(o[k], f) /\ \A j \in 1..(k - 1) : ~ Has(o[j], f)
<1>1. IsFiniteSet(Indices) /\ n \in Nat
  BY BindingAssumption, FS_CardinalityType
<1>2. o \in [1..n -> Indices] /\ IsInjective(o)
  BY DEF Orders
<1>3. PICK i \in Indices : Has(i, f)
  BY DEF MergedNames
<1>4. PICK k \in 1..n : o[k] = i
  <2>1. o \in Injection(1..n, Indices)
    BY <1>2 DEF Injection
  <2>2. IsFiniteSet(1..n) /\ Cardinality(1..n) = n
    BY <1>1, FS_Interval
  <2>3. o \in Surjection(1..n, Indices)
    BY <1>1, <2>1, <2>2, FS_Injection
  <2> QED BY <2>3 DEF Surjection
<1> DEFINE T == {j \in 1..n : Has(o[j], f)}
<1>5. PICK x \in T : \A y \in T : x <= y
  <2>1. T \in SUBSET (1..n) /\ T # {}
    BY <1>3, <1>4
  <2> HIDE DEF T
  <2> QED BY <1>1, <2>1, FirstPosition
<1>6. x \in 1..n /\ First(x)
  <2>1. x \in 1..n /\ Has(o[x], f)
    BY <1>5
  <2>2. ASSUME NEW j \in 1..(x - 1), Has(o[j], f) PROVE FALSE
    <3>1. j \in 1..n /\ j < x
      BY <1>1, <2>1
    <3> QED BY <1>5, <2>2, <3>1
  <2> QED BY <2>1, <2>2
<1> DEFINE k1 == CHOOSE j \in 1..n : First(j)
<1>7. k1 \in 1..n /\ First(k1)
  <2> HIDE DEF First
  <2> QED BY <1>6
<1>8. Merged(o)[f] = mapping[o[k1]][f]
  <2>1. DOMAIN o = 1..n
    BY <1>2
  <2> QED BY <2>1 DEF Merged
<1> HIDE DEF k1
<1> QED BY <1>2, <1>7, <1>8

LEMMA MergedType ==
  ASSUME mapping \in [Indices -> [Names -> Properties \cup {NoField}]],
         NEW o \in Orders
  PROVE  /\ MergedNames \in SUBSET Names
         /\ DOMAIN Merged(o) = MergedNames
         /\ \A f \in MergedNames : PropertyType(Merged(o)[f]) \in FieldTypes
<1>1. MergedNames \in SUBSET Names
  BY DEF MergedNames
<1>2. DOMAIN Merged(o) = MergedNames
  BY DEF Merged
<1>3. ASSUME NEW f \in MergedNames
      PROVE  PropertyType(Merged(o)[f]) \in FieldTypes
  <2>1. PICK i \in Indices : Has(i, f) /\ Merged(o)[f] = mapping[i][f]
    BY MergedFrom
  <2>2. mapping[i][f] \in Properties
    BY <1>1, <2>1 DEF Has
  <2>3. Merged(o)[f].type \in FieldTypes
    BY <2>1, <2>2, BindingAssumption
  <2> QED BY <2>3, BindingAssumption DEF PropertyType
<1> QED BY <1>1, <1>2, <1>3

(* resolveColumns: columns of the source, whatever it reads.               *)
LEMMA ResolvedType ==
  ASSUME TypeOK, NEW cols \in ResolveColumns
  PROVE  cols \in Seq(SourceCols)
<1>1. CASE fields # <<>>
  BY <1>1, ParsedType DEF ResolveColumns, TypeOK
<1>2. CASE fields = <<>> /\ target # "named"
  BY <1>2 DEF ResolveColumns
<1>3. CASE fields = <<>> /\ target = "named"
  <2>1. PICK o \in Orders : cols = ColumnsFromMapping(Merged(o))
    BY <1>3 DEF ResolveColumns
  <2>2. /\ MergedNames \in SUBSET Names /\ DOMAIN Merged(o) = MergedNames
        /\ \A f \in MergedNames : PropertyType(Merged(o)[f]) \in FieldTypes
    BY MergedType DEF TypeOK
  <2> DEFINE names == Sorted(MergedNames)
             col(i) == SourceColumn(names[i], PropertyType(Merged(o)[names[i]]))
  <2>3. names \in Seq(MergedNames)
    BY <2>2, SortedType
  <2>4. cols = [i \in DOMAIN names |-> col(i)]
    BY <2>1, <2>2 DEF ColumnsFromMapping
  <2>5. DOMAIN names = 1..Len(names) /\ Len(names) \in Nat
    <3> HIDE DEF names
    <3> QED BY <2>3
  <2>6. ASSUME NEW i \in 1..Len(names) PROVE col(i) \in SourceCols
    <3>1. names[i] \in MergedNames
      <4> HIDE DEF names
      <4> QED BY <2>3
    <3> HIDE DEF names
    <3> QED BY <2>2, <3>1, SourceColumnType
  <2> HIDE DEF names, col
  <2> QED BY <2>4, <2>5, <2>6
<1> QED BY <1>1, <1>2, <1>3

(* A steady query resolves the same columns whenever it asks.              *)
LEMMA SteadyResolves ==
  ASSUME TypeOK, Steady, NEW c \in ResolveColumns, NEW d \in ResolveColumns
  PROVE  c = d
<1>1. CASE fields # <<>>
  BY <1>1 DEF ResolveColumns
<1>2. CASE fields = <<>> /\ target # "named"
  BY <1>2 DEF ResolveColumns
<1>3. CASE fields = <<>> /\ target = "named"
  <2>1. PICK o \in Orders : c = ColumnsFromMapping(Merged(o))
    BY <1>3 DEF ResolveColumns
  <2>2. PICK q \in Orders : d = ColumnsFromMapping(Merged(q))
    BY <1>3 DEF ResolveColumns
  <2>3. mapping \in [Indices -> [Names -> Properties \cup {NoField}]]
    BY DEF TypeOK
  <2>4. ASSUME NEW f \in MergedNames PROVE Merged(o)[f] = Merged(q)[f]
    <3>1. PICK i \in Indices : Has(i, f) /\ Merged(o)[f] = mapping[i][f]
      BY <2>3, MergedFrom
    <3>2. PICK j \in Indices : Has(j, f) /\ Merged(q)[f] = mapping[j][f]
      BY <2>3, MergedFrom
    <3>3. f \in Names
      BY DEF MergedNames
    <3> QED BY <1>3, <3>1, <3>2, <3>3 DEF Steady
  <2>5. Merged(o) = Merged(q)
    <3> DEFINE e(p, f) == mapping[p[CHOOSE k \in DOMAIN p :
                                    Has(p[k], f) /\ \A j \in 1..(k - 1) : ~ Has(p[j], f)]][f]
    <3>1. \A p : Merged(p) = [f \in MergedNames |-> e(p, f)]
      BY DEF Merged
    <3> HIDE DEF e
    <3>2. \A f \in MergedNames : e(o, f) = e(q, f)
      BY <2>4, <3>1
    <3> QED BY <3>1, <3>2
  <2> QED BY <2>1, <2>2, <2>5
<1> QED BY <1>1, <1>2, <1>3

-----------------------------------------------------------------------------
(* projectColumns: what is projected are columns, with one at least.       *)
LEMMA ProjectedType ==
  ASSUME NEW c \in Seq(Cols), projection = All \/ \E P : projection \in Seq(P)
  PROVE  /\ ProjectColumns(c) \in Seq(Cols)
         /\ OrId(ProjectColumns(c)) \in Seq(Cols) /\ OrId(ProjectColumns(c)) # <<>>
<1> DEFINE ids == Only(projection, DOMAIN c)
<1>1. ProjectColumns(c) \in Seq(Cols)
  <2>1. CASE projection = All
    BY <2>1 DEF ProjectColumns
  <2>2. CASE projection # All
    <3>1. PICK P : projection \in Seq(P)
      BY <2>2
    <3>2. ids \in Seq(P \cap DOMAIN c)
      BY <3>1, OnlyType
    <3>3. ProjectColumns(c) = [i \in DOMAIN ids |-> c[ids[i]]]
      BY <2>2 DEF ProjectColumns
    <3> HIDE DEF ids
    <3>4. DOMAIN ids = 1..Len(ids) /\ Len(ids) \in Nat /\ \A i \in 1..Len(ids) : ids[i] \in DOMAIN c
      BY <3>2
    <3>5. \A i \in 1..Len(ids) : c[ids[i]] \in Cols
      BY <3>4
    <3> QED BY <3>3, <3>4, <3>5
  <2> QED BY <2>1, <2>2
<1>2. IdColumn \in Cols
  BY DEF Cols
<1> QED BY <1>1, <1>2 DEF OrId

(* Bound with the same columns, what is projected is what DuckDB expects.  *)
LEMMA ProjectedAsBound ==
  ASSUME NEW c \in Seq(Cols), c # <<>>, schema = Typed(c),
         projection = All \/ projection \in Seq(DOMAIN schema)
  PROVE  Typed(OrId(ProjectColumns(c))) = Expected
<1>1. CASE projection = All
  BY <1>1 DEF ProjectColumns, OrId, Expected
<1>2. CASE projection # All
  <2>1. DOMAIN schema = DOMAIN c
    BY DEF Typed
  <2>2. projection \in Seq(DOMAIN c)
    BY <1>2, <2>1
  <2>3. Only(projection, DOMAIN c) = projection
    <3>1. \A i \in 1..Len(projection) : projection[i] \in DOMAIN c
      BY <2>2
    <3> QED BY <2>2, <3>1, OnlyIsAll
  <2> DEFINE q == [i \in DOMAIN projection |-> c[projection[i]]]
  <2>4. ProjectColumns(c) = q
    BY <1>2, <2>3 DEF ProjectColumns
  <2>5. CASE projection = <<>>
    <3>1. q = <<>>
      BY <2>5
    <3> QED BY <1>2, <2>4, <2>5, <3>1 DEF OrId, Expected
  <2>6. CASE projection # <<>>
    <3>1. q # <<>>
      BY <2>2, <2>6
    <3>2. OrId(ProjectColumns(c)) = q
      BY <2>4, <3>1 DEF OrId
    <3>3. \A i \in DOMAIN projection : schema[projection[i]] = [name |-> q[i].name, arrow |-> q[i].arrow]
      BY <2>2 DEF Typed
    <3>4. Typed(q) = [i \in DOMAIN projection |-> [name |-> q[i].name, arrow |-> q[i].arrow]]
      BY DEF Typed
    <3> HIDE DEF q
    <3> QED BY <1>2, <2>6, <3>2, <3>3, <3>4 DEF Expected
  <2> QED BY <2>5, <2>6
<1> QED BY <1>1, <1>2

LEMMA TypedType ==
  ASSUME NEW c \in Seq(Cols)
  PROVE  Typed(c) \in Seq([name : ColumnNames, arrow : Arrow])
<1>1. \A i \in 1..Len(c) : [name |-> c[i].name, arrow |-> c[i].arrow] \in [name : ColumnNames, arrow : Arrow]
  <2> SUFFICES ASSUME NEW i \in 1..Len(c)
               PROVE  [name |-> c[i].name, arrow |-> c[i].arrow] \in [name : ColumnNames, arrow : Arrow]
    OBVIOUS
  <2>1. c[i] \in Cols
    OBVIOUS
  <2> QED BY <2>1, ColumnFacts
<1> DEFINE t(i) == [name |-> c[i].name, arrow |-> c[i].arrow]
<1>2. DOMAIN c = 1..Len(c) /\ Len(c) \in Nat /\ Typed(c) = [i \in DOMAIN c |-> t(i)]
  BY DEF Typed
<1>3. \A i \in 1..Len(c) : t(i) \in [name : ColumnNames, arrow : Arrow]
  BY <1>1
<1> HIDE DEF t
<1> QED BY <1>2, <1>3

(* The plan keeps the columns through its round trip, and asks for the     *)
(* fields among them (SourceIncludes).                                     *)
LEMMA PlanOfIs ==
  ASSUME NEW c \in Seq(Cols)
  PROVE  /\ PlanOf(c) \in Plans
         /\ DOMAIN PlanOf(c).columns = DOMAIN c
         /\ [i \in DOMAIN PlanOf(c).columns |-> ReattachArrowType(PlanOf(c).columns[i])] = c
         /\ \A i \in DOMAIN c : PlanOf(c).columns[i] = Untyped(c[i]) /\ IsColumn(c[i])
         /\ Range(PlanOf(c).includes) = {c[i].source : i \in DOMAIN c} \cap Names
<1> DEFINE p == PlanOf(c)
           T == {col \in Range(c) : ~ IsMeta(col)}
           fs == Only(c, T)
<1>1. /\ p.columns = [i \in DOMAIN c |-> Untyped(c[i])] /\ p.includes = SourceIncludes(c)
      /\ p = [columns |-> p.columns, includes |-> p.includes]
  BY DEF PlanOf
<1>2. /\ \A i \in 1..Len(c) : c[i] \in Cols /\ c[i] \in Range(c)
      /\ DOMAIN c = 1..Len(c) /\ Len(c) \in Nat
  BY DEF Range
<1>3. p.columns \in Seq([name : ColumnNames, source : ColumnNames, es : FieldTypes])
  <2>1. \A i \in 1..Len(c) : Untyped(c[i]) \in [name : ColumnNames, source : ColumnNames, es : FieldTypes]
    BY <1>2, ColumnFacts DEF Untyped
  <2> QED BY <1>1, <1>2, <2>1
<1>4. fs \in Seq(Cols \cap T)
  BY OnlyType
<1>5. p.includes = [i \in DOMAIN fs |-> fs[i].source]
  BY <1>1 DEF SourceIncludes, Sources
<1>6. \A i \in 1..Len(fs) : fs[i] \in Cols /\ fs[i] \in T
  BY <1>4
<1>7. DOMAIN fs = 1..Len(fs) /\ Len(fs) \in Nat
  BY <1>4
<1>8. \A col \in Cols : col \in T => col.source \in Names
  BY ColumnFacts
<1>9. p.includes \in Seq(Names)
  <2>1. \A i \in 1..Len(fs) : fs[i].source \in Names
    BY <1>6, <1>8
  <2> HIDE DEF fs, p, T
  <2> QED BY <1>5, <1>7, <2>1
<1>10. Range(p.includes) = {c[i].source : i \in DOMAIN c} \cap Names
  <2>1. Range(p.includes) = {fs[i].source : i \in 1..Len(fs)}
    <3> HIDE DEF fs, p
    <3> QED BY <1>5, <1>7 DEF Range
  <2>2. ASSUME NEW i \in 1..Len(fs)
        PROVE  fs[i].source \in Names /\ \E k \in DOMAIN c : c[k].source = fs[i].source
    <3>1. fs[i] \in Range(c)
      BY <1>6
    <3> QED BY <1>6, <1>8, <3>1 DEF Range
  <2>3. ASSUME NEW k \in DOMAIN c, c[k].source \in Names
        PROVE  \E i \in 1..Len(fs) : fs[i].source = c[k].source
    <3>1. c[k] \in T
      BY <1>2, <2>3, ColumnFacts
    <3>2. \E i \in 1..Len(fs) : fs[i] = c[k]
      <4> HIDE DEF T
      <4> QED BY <1>2, <3>1, OnlyTakesAll
    <3> QED BY <3>2
  <2> HIDE DEF fs, p, T
  <2> QED BY <2>1, <2>2, <2>3
<1>11. p \in Plans
  <2> HIDE DEF p
  <2> QED BY <1>1, <1>3, <1>9 DEF Plans
<1>12. DOMAIN p.columns = DOMAIN c /\ \A i \in DOMAIN c : p.columns[i] = Untyped(c[i])
  BY <1>1
<1>13. \A i \in DOMAIN c : ReattachArrowType(Untyped(c[i])) = c[i] /\ IsColumn(c[i])
  BY <1>2, ColumnFacts
<1>14. [i \in DOMAIN p.columns |-> ReattachArrowType(p.columns[i])] = c
  <2>1. [i \in DOMAIN p.columns |-> ReattachArrowType(p.columns[i])] = [i \in DOMAIN c |-> c[i]]
    <3> HIDE DEF p
    <3> QED BY <1>12, <1>13
  <2> QED BY <2>1
<1> QED BY <1>10, <1>11, <1>12, <1>13, <1>14

-----------------------------------------------------------------------------
(* All of the columns: the meta columns and those of the source.           *)
LEMMA AllColumnsType ==
  ASSUME NEW cols \in Seq(SourceCols)
  PROVE  MetaColumns \o cols \in Seq(Cols) /\ MetaColumns \o cols # <<>>
<1>1. cols \in Seq(Cols)
  BY SeqMonotonic DEF Cols
<1>2. MetaColumns \in Seq(Cols) /\ Len(MetaColumns) = 2
  BY MetaType
<1> QED BY <1>1, <1>2, ConcatProperties

LEMMA ChangesAreCounted == MaxChanges \in Nat
BY BindingAssumption, Zenon

(* With nothing resolved or planned yet the invariant says little.         *)
LEMMA InitIInv == Init => IInv
<1> SUFFICES ASSUME Init PROVE IInv
  OBVIOUS
<1>1. TypeOK
  <2>1. <<>> \in Seq([name : ColumnNames, arrow : Arrow])
    OBVIOUS
  <2>2. 0 \in 0..MaxChanges
    BY ChangesAreCounted
  <2>3. mapping \in [Indices -> [Names -> Properties \cup {NoField}]]
    BY BindingAssumption DEF Init
  <2>4. document \in Documents /\ shown \in SUBSET Names
    BY DEF Init
  <2>5. /\ changes \in 0..MaxChanges
        /\ target \in {"null", "empty", "named"}
        /\ fields \in FieldsArgs
        /\ phase \in {"start", "bound", "projected", "planned", "emitted", "finished", "failed"}
        /\ {schema, emitted} \subseteq Seq([name : ColumnNames, arrow : Arrow])
        /\ projection = All /\ plan = NoPlan /\ sources \in {NoRequest, NoSourceKey}
    BY <2>1, <2>2 DEF Init
  <2> QED BY <2>3, <2>4, <2>5 DEF TypeOK
<1>2. phase = "start" /\ sources = NoRequest /\ projection = All
  BY DEF Init
<1> QED BY <1>1, <1>2 DEF IInv, HasPlan

(* What is resolved depends on the arguments and the mappings only.        *)
LEMMA ResolvesSame ==
  ASSUME mapping' = mapping, fields' = fields, target' = target, changes' = changes
  PROVE  ResolveColumns' = ResolveColumns /\ Steady' = Steady
BY DEF ResolveColumns, ColumnsFromMapping, Merged, MergedNames, Has, Steady

LEMMA OnBindKeeps == IInv /\ OnBind => IInv'
<1> SUFFICES ASSUME IInv, OnBind PROVE IInv'
  OBVIOUS
<1>1. PICK cols \in ResolveColumns : schema' = Typed(MetaColumns \o cols)
  BY DEF OnBind
<1>2. phase = "start" /\ phase' = "bound" /\ sources = NoRequest /\ TypeOK
  BY DEF OnBind, IInv
<1>3. UNCHANGED <<mapping, changes, target, fields, document, projection, plan, sources, emitted, shown>>
  BY DEF OnBind, arguments, batch
<1>4. schema' \in Seq([name : ColumnNames, arrow : Arrow])
  BY <1>1, <1>2, ResolvedType, AllColumnsType, TypedType
<1>5. projection = All
  BY <1>2 DEF IInv
<1>6. TypeOK'
  BY <1>2, <1>3, <1>4, <1>5 DEF TypeOK
<1>7. ResolveColumns' = ResolveColumns
  BY <1>3, ResolvesSame
<1>8. BoundNow'
  BY <1>1, <1>7 DEF BoundNow
<1> QED BY <1>2, <1>3, <1>6, <1>8 DEF IInv, HasPlan

LEMMA ProjectKeeps == IInv /\ Project => IInv'
<1> SUFFICES ASSUME IInv, Project PROVE IInv'
  OBVIOUS
<1>1. phase = "bound" /\ phase' = "projected" /\ sources = NoRequest /\ TypeOK
  BY DEF Project, IInv
<1>2. UNCHANGED <<mapping, changes, target, fields, document, schema, plan, sources, emitted, shown>>
  BY DEF Project, arguments, batch
<1>3. projection' = All \/ projection' \in Seq(DOMAIN schema)
  <2>1. CASE projection' = All
    BY <2>1
  <2>2. CASE \E n \in 0..2 : \E ids \in [1..n -> DOMAIN schema] : projection' = ids
    <3>1. PICK n \in 0..2 : \E ids \in [1..n -> DOMAIN schema] : projection' = ids
      BY <2>2
    <3> QED BY <3>1
  <2> QED BY <2>1, <2>2 DEF Project
<1>4. TypeOK'
  BY <1>1, <1>2, <1>3 DEF TypeOK
<1>5. ResolveColumns' = ResolveColumns /\ Steady' = Steady
  BY <1>2, ResolvesSame
<1>6. Steady' => BoundNow'
  BY <1>1, <1>2, <1>5 DEF IInv, BoundNow
<1> QED BY <1>1, <1>2, <1>4, <1>6 DEF IInv, HasPlan

LEMMA NewStateKeeps == IInv /\ NewState => IInv'
<1> SUFFICES ASSUME IInv, NewState PROVE IInv'
  OBVIOUS
<1>1. phase = "projected" /\ sources = NoRequest /\ TypeOK
  BY DEF NewState, IInv
<1>2. UNCHANGED <<mapping, changes, target, fields, document, schema, projection, sources, emitted, shown>>
  BY DEF NewState, arguments, batch
<1>3. ResolveColumns' = ResolveColumns /\ Steady' = Steady
  BY <1>2, ResolvesSame
<1>4. CASE target = "null"
  <2>1. phase' = "finished" /\ plan' = plan
    BY <1>4 DEF NewState
  <2>2. TypeOK'
    BY <1>1, <1>2, <2>1 DEF TypeOK
  <2> QED BY <1>1, <1>2, <2>1, <2>2 DEF IInv, HasPlan
<1>5. CASE target # "null"
  <2>1. PICK cols \in ResolveColumns : plan' = PlanOf(OrId(ProjectColumns(MetaColumns \o cols)))
    BY <1>5 DEF NewState
  <2>2. phase' = "planned"
    BY <1>5 DEF NewState
  <2> DEFINE q == OrId(ProjectColumns(MetaColumns \o cols))
  <2>3. q \in Seq(Cols)
    <3>1. projection = All \/ \E P : projection \in Seq(P)
      BY <1>1 DEF TypeOK
    <3> QED BY <1>1, <3>1, ResolvedType, AllColumnsType, ProjectedType
  <2>4. /\ plan' \in Plans
        /\ DOMAIN plan'.columns = DOMAIN q
        /\ PlanColumns' = q
        /\ \A i \in DOMAIN q : plan'.columns[i] = Untyped(q[i]) /\ IsColumn(q[i])
        /\ Range(plan'.includes) = {q[i].source : i \in DOMAIN q} \cap Names
    <3> HIDE DEF q
    <3>1. plan' = PlanOf(q)
      BY <2>1 DEF q
    <3> QED BY <2>3, <3>1, PlanOfIs DEF PlanColumns
  <2>5. TypeOK'
    BY <1>1, <1>2, <2>2, <2>4 DEF TypeOK
  <2>6. PlanShape'
    <3> HIDE DEF q
    <3>0. \A col : Untyped(col).source = col.source
      BY DEF Untyped
    <3>1. \A i \in DOMAIN q : plan'.columns[i].source = q[i].source
      BY <2>4, <3>0
    <3>2. {plan'.columns[i].source : i \in DOMAIN plan'.columns} = {q[i].source : i \in DOMAIN q}
      BY <2>4, <3>1
    <3> QED BY <2>4, <3>2 DEF PlanShape
  <2>7. ASSUME Steady' PROVE PlannedNow'
    <3>1. PICK c \in ResolveColumns : schema = Typed(MetaColumns \o c)
      BY <1>1, <1>3, <2>7 DEF IInv, BoundNow
    <3>2. c = cols
      BY <1>1, <1>3, <2>7, <3>1, SteadyResolves
    <3>3. (PlanOf(OrId(ProjectColumns(MetaColumns \o cols))))' = PlanOf(OrId(ProjectColumns(MetaColumns \o cols)))'
      OBVIOUS
    <3>4. plan' = PlanOf(OrId(ProjectColumns(MetaColumns \o c)'))
      BY <1>2, <2>1, <3>2 DEF ProjectColumns
    <3> QED BY <1>2, <1>3, <3>1, <3>4 DEF PlannedNow, PlanOf, OrId, Typed
  <2> QED BY <1>1, <1>2, <2>2, <2>5, <2>6, <2>7 DEF IInv, HasPlan
<1> QED BY <1>4, <1>5

LEMMA IntrospectionFailsKeeps == IInv /\ IntrospectionFails => IInv'
<1> SUFFICES ASSUME IInv, IntrospectionFails PROVE IInv'
  OBVIOUS
<1>1. phase \in {"start", "projected"} /\ phase' = "failed" /\ sources = NoRequest /\ TypeOK
  BY DEF IntrospectionFails, IInv
<1>2. UNCHANGED <<mapping, changes, target, fields, document, schema, projection, plan, sources, emitted, shown>>
  BY DEF IntrospectionFails, arguments, batch
<1>3. TypeOK'
  BY <1>1, <1>2 DEF TypeOK
<1> QED BY <1>1, <1>2, <1>3 DEF IInv, HasPlan

(* Neither the mappings nor the plan change: what was planned still is.    *)
LEMMA PlanStays ==
  ASSUME mapping' = mapping, fields' = fields, target' = target, changes' = changes,
         schema' = schema, projection' = projection, plan' = plan
  PROVE  /\ PlanShape' = PlanShape /\ PlannedNow' = PlannedNow /\ BoundNow' = BoundNow
         /\ Steady' = Steady /\ PlanColumns' = PlanColumns
<1>1. ResolveColumns' = ResolveColumns /\ Steady' = Steady
  BY ResolvesSame
<1> QED BY <1>1 DEF PlanShape, PlannedNow, BoundNow, PlanColumns, ProjectColumns

LEMMA ProcessKeeps == IInv /\ Process => IInv'
<1> SUFFICES ASSUME IInv, Process PROVE IInv'
  OBVIOUS
<1>1. phase \in {"planned", "emitted"} /\ TypeOK /\ PlanShape /\ HasPlan
  BY DEF Process, IInv, HasPlan
<1>2. UNCHANGED <<mapping, changes, target, fields, document, schema, projection, plan>>
  BY DEF Process, arguments
<1>3. /\ PlanShape' = PlanShape /\ PlannedNow' = PlannedNow
      /\ Steady' = Steady /\ PlanColumns' = PlanColumns
  BY <1>2, PlanStays
<1>4. CASE target = "empty"
  <2>1. phase' = "failed" /\ UNCHANGED <<sources, emitted, shown>>
    BY <1>4 DEF Process, batch
  <2>2. TypeOK'
    BY <1>1, <1>2, <2>1 DEF TypeOK
  <2>3. Shown' = Shown
    BY <1>2 DEF Shown, Fetched
  <2> QED BY <1>1, <1>2, <1>3, <2>1, <2>2, <2>3 DEF IInv, HasPlan
<1>5. CASE target # "empty"
  <2>1. /\ sources' = SourceKey /\ emitted' = Typed(PlanColumns) /\ shown' = Shown
        /\ phase' \in {"emitted", "failed"}
    BY <1>5 DEF Process
  <2>2. SourceKey = NoSourceKey \/ SourceKey \in Seq(Names)
    BY <1>1 DEF PlanShape, SourceKey, Plans
  <2>3. Shown \in SUBSET Names
    <3>1. Shown \in SUBSET document
      BY DEF Shown, Fetched
    <3> QED BY <1>1, <3>1, BindingAssumption DEF TypeOK
  <2>4. Typed(PlanColumns) \in Seq([name : ColumnNames, arrow : Arrow])
    <3>1. plan.columns \in Seq([name : ColumnNames, source : ColumnNames, es : FieldTypes])
      BY <1>1 DEF PlanShape, Plans
    <3> DEFINE t(i) == [name |-> PlanColumns[i].name, arrow |-> PlanColumns[i].arrow]
    <3>2. ASSUME NEW i \in 1..Len(plan.columns)
          PROVE  t(i) \in [name : ColumnNames, arrow : Arrow]
      <4>1. plan.columns[i] \in [name : ColumnNames, source : ColumnNames, es : FieldTypes]
        BY <3>1, ElementOfSeq
      <4>2. PlanColumns[i].name = plan.columns[i].name /\ PlanColumns[i].arrow \in Arrow
        BY <3>1, ArrowTypes DEF PlanColumns, ReattachArrowType, Arrow
      <4> QED BY <4>1, <4>2
    <3>3. Typed(PlanColumns) = [i \in 1..Len(plan.columns) |-> t(i)] /\ Len(plan.columns) \in Nat
      BY <3>1 DEF Typed, PlanColumns
    <3> HIDE DEF t
    <3> QED BY <3>2, <3>3
  <2>5. TypeOK'
    BY <1>1, <1>2, <2>1, <2>2, <2>3, <2>4 DEF TypeOK
  <2>6. emitted' = Typed(PlanColumns') /\ shown' = Shown'
    BY <1>2, <1>3, <2>1 DEF Shown, Fetched
  <2>7. Steady' => PlannedNow'
    BY <1>1, <1>3 DEF IInv
  <2> QED BY <1>1, <1>3, <2>1, <2>5, <2>6, <2>7 DEF IInv, Typed
<1> QED BY <1>4, <1>5

(* A change of the mappings leaves steady a query with declared columns    *)
(* only, and what is declared does not change.                             *)
LEMMA ChangeMappingKeeps == IInv /\ ChangeMapping => IInv'
<1> SUFFICES ASSUME IInv, ChangeMapping PROVE IInv'
  OBVIOUS
<1>1. UNCHANGED <<target, fields, document, phase, schema, projection, plan, sources, emitted, shown>>
  BY DEF ChangeMapping, arguments, batch
<1>2. TypeOK /\ changes < MaxChanges /\ changes' = changes + 1
  BY DEF IInv, ChangeMapping
<1>3. changes' \in 1..MaxChanges
  BY <1>2, ChangesAreCounted DEF TypeOK
<1>4. mapping' \in [Indices -> [Names -> Properties \cup {NoField}]]
  BY <1>2 DEF ChangeMapping, TypeOK
<1>5. TypeOK'
  BY <1>1, <1>2, <1>3, <1>4 DEF TypeOK
<1>6. ASSUME Steady' PROVE Steady /\ ResolveColumns' = ResolveColumns
  <2>1. fields # <<>>
    BY <1>1, <1>3, <1>6 DEF Steady
  <2> QED BY <1>1, <2>1 DEF Steady, ResolveColumns
<1>7. PlanShape' = PlanShape /\ PlanColumns' = PlanColumns /\ Shown' = Shown /\ HasPlan' = HasPlan
  BY <1>1 DEF PlanShape, PlanColumns, Shown, Fetched, HasPlan
<1>8. Steady' /\ phase' \in {"bound", "projected"} => BoundNow'
  BY <1>1, <1>6 DEF IInv, BoundNow
<1>9. Steady' /\ HasPlan' => PlannedNow'
  BY <1>1, <1>6, <1>7 DEF IInv, PlannedNow, ProjectColumns
<1> QED BY <1>1, <1>5, <1>7, <1>8, <1>9 DEF IInv, Typed

LEMMA StutterKeeps == IInv /\ UNCHANGED vars => IInv'
<1> SUFFICES ASSUME IInv, UNCHANGED vars PROVE IInv'
  OBVIOUS
<1>1. UNCHANGED <<mapping, changes, target, fields, document, phase, schema, projection, plan,
                  sources, emitted, shown>>
  BY DEF vars, arguments, batch
<1>2. /\ PlanShape' = PlanShape /\ PlannedNow' = PlannedNow /\ BoundNow' = BoundNow
      /\ Steady' = Steady /\ PlanColumns' = PlanColumns
  BY <1>1, PlanStays
<1>3. TypeOK' = TypeOK /\ HasPlan' = HasPlan /\ Shown' = Shown
  BY <1>1 DEF TypeOK, HasPlan, Shown, Fetched
<1> QED BY <1>1, <1>2, <1>3 DEF IInv, Typed

(* The invariant behind the theorems: the plan survives its round trip and *)
(* asks for its own fields, and a steady query is bound and planned with   *)
(* the same columns.                                                       *)
THEOREM PlanIsBound == Spec => []IInv
<1>1. Init => IInv
  BY InitIInv
<1>2. IInv /\ [Next]_vars => IInv'
  BY OnBindKeeps, ProjectKeeps, NewStateKeeps, IntrospectionFailsKeeps, ProcessKeeps,
     ChangeMappingKeeps, StutterKeeps DEF Next
<1> QED BY <1>1, <1>2, PTL DEF Spec

-----------------------------------------------------------------------------
(* A query that was steady when it planned emits what DuckDB expects.      *)
LEMMA SteadyEmits ==
  ASSUME IInv, Steady, phase = "emitted" \/ sources # NoRequest
  PROVE  emitted = Expected
<1>1. HasPlan /\ TypeOK /\ emitted = Typed(PlanColumns)
  BY DEF IInv, HasPlan
<1>2. PICK cols \in ResolveColumns :
        /\ schema = Typed(MetaColumns \o cols)
        /\ plan = PlanOf(OrId(ProjectColumns(MetaColumns \o cols)))
  BY <1>1 DEF IInv, PlannedNow
<1> DEFINE c == MetaColumns \o cols
           q == OrId(ProjectColumns(c))
<1>3. c \in Seq(Cols) /\ c # <<>>
  BY <1>1, ResolvedType, AllColumnsType
<1>4. projection = All \/ projection \in Seq(DOMAIN schema)
  BY <1>1 DEF TypeOK
<1> HIDE DEF c
<1>5. q \in Seq(Cols)
  BY <1>3, <1>4, ProjectedType
<1>6. Typed(q) = Expected
  BY <1>2, <1>3, <1>4, ProjectedAsBound DEF c
<1> HIDE DEF q
<1>7. PlanColumns = q
  <2>1. plan = PlanOf(q)
    BY <1>2 DEF q, c
  <2> QED BY <1>5, <2>1, PlanOfIs DEF PlanColumns
<1> QED BY <1>1, <1>6, <1>7

(* The columns keep their types.                                           *)
THEOREM BindingTypes == Spec => []TypeOK
<1>1. IInv => TypeOK
  BY DEF IInv
<1> QED BY <1>1, PlanIsBound, PTL

(* Every column of a steady query's batches is the one DuckDB bound at its *)
(* place, for every projection, order of the merge and `fields` argument.  *)
THEOREM ColumnsAsBound == Spec => []SteadyColumns
<1>1. IInv => SteadyColumns
  BY SteadyEmits DEF SteadyColumns, RightColumns
<1> QED BY <1>1, PlanIsBound, PTL

(* No batch of a steady query is refused for its types.                    *)
THEOREM TypesAsBound == Spec => []SteadyTypes
<1>1. ASSUME emitted = Expected PROVE SameTypes(emitted, Expected)
  BY <1>1 DEF SameTypes
<1>2. IInv => SteadyTypes
  BY <1>1, SteadyEmits DEF SteadyTypes, TypesAgree
<1> QED BY <1>2, PlanIsBound, PTL

(* Neither the _source filter nor the lookup of a cell loses a field that  *)
(* the document writes by a column's name, whatever happens to a mapping.  *)
THEOREM NoFieldIsLost == Spec => []ShowsWhatIsThere
<1>1. ASSUME IInv, phase = "emitted"
      PROVE  shown = document \cap {emitted[i].name : i \in DOMAIN emitted}
  <2>1. PlanShape /\ emitted = Typed(PlanColumns) /\ shown = Shown /\ document \in SUBSET Names
    BY <1>1, BindingAssumption DEF IInv, HasPlan, TypeOK
  <2> DEFINE source(i) == plan.columns[i].source
             D == DOMAIN plan.columns
  <2>2. DOMAIN emitted = D /\ \A i \in D : emitted[i].name = PlanColumns[i].name
    BY <2>1 DEF Typed, PlanColumns
  <2>3. ASSUME NEW i \in D PROVE PlanColumns[i].name = source(i)
    <3>1. IsColumn(PlanColumns[i]) /\ plan.columns[i] = Untyped(PlanColumns[i])
      BY <2>1 DEF PlanShape
    <3>2. ASSUME NEW col, IsColumn(col) PROVE col.name = col.source
      BY <3>2 DEF IsColumn, IdColumn, ScoreColumn, SourceColumn
    <3> QED BY <3>1, <3>2 DEF Untyped
  <2>4. {emitted[i].name : i \in DOMAIN emitted} = {source(i) : i \in D}
    BY <2>2, <2>3
  <2>5. shown = {f \in Fetched : \E i \in D : source(i) = f}
    BY <2>1 DEF Shown
  <2>6. Fetched \in SUBSET document
    BY DEF Fetched
  <2>7. ASSUME NEW f \in document, NEW i \in D, source(i) = f
        PROVE  f \in Fetched
    <3>1. f \in Range(plan.includes)
      <4>1. f \in Names /\ f \in {source(j) : j \in D}
        BY <2>1, <2>7
      <4> QED BY <2>1, <4>1 DEF PlanShape
    <3> QED BY <3>1 DEF Range, Fetched, Covers
  <2> HIDE DEF D, source
  <2> QED BY <2>4, <2>5, <2>6, <2>7
<1>2. IInv => ShowsWhatIsThere
  BY <1>1 DEF ShowsWhatIsThere
<1> QED BY <1>2, PlanIsBound, PTL

(* The view tells the type of every column, declared or from a mapping.    *)
THEOREM ViewPredictsTypes == Spec => []ListedTypes
<1>1. ASSUME IInv, phase = "emitted", NEW i \in DOMAIN emitted, NEW row \in TypeMappingRows,
             row.es = plan.columns[i].es
      PROVE  row.duckdb = DuckDBType(emitted[i].arrow)
  <2>1. PlanShape /\ emitted = Typed(PlanColumns)
    BY <1>1 DEF IInv, HasPlan
  <2>2. i \in DOMAIN plan.columns /\ emitted[i].arrow = PlanColumns[i].arrow
    BY <1>1, <2>1 DEF Typed, PlanColumns
  <2>3. IsColumn(PlanColumns[i]) /\ plan.columns[i] = Untyped(PlanColumns[i])
    BY <2>1, <2>2 DEF PlanShape
  <2>4. ASSUME NEW col, IsColumn(col) PROVE col.arrow = EsTypeToArrow(col.es)
    <3>1. CASE col \in {IdColumn, ScoreColumn}
      BY <3>1 DEF IdColumn, ScoreColumn, EsTypeToArrow, IntTypes, DoubleTypes, BooleanTypes, DateTypes
    <3>2. CASE col.name \in Names /\ col = SourceColumn(col.name, col.es)
      BY <3>2 DEF SourceColumn
    <3> QED BY <2>4, <3>1, <3>2 DEF IsColumn
  <2>5. plan.columns[i].es = PlanColumns[i].es
    BY <2>3 DEF Untyped
  <2>6. row.duckdb = DuckDBType(EsTypeToArrow(row.es))
    BY ViewTellsTypes DEF ViewAgrees
  <2> QED BY <1>1, <2>2, <2>3, <2>4, <2>5, <2>6
<1>2. IInv => ListedTypes
  BY <1>1 DEF ListedTypes
<1> QED BY <1>2, PlanIsBound, PTL
=============================================================================
