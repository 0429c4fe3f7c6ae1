------------------------------- MODULE Binding -------------------------------
(***************************************************************************)
(* From a call of es_search to the columns of its batches.  The columns    *)
(* are resolved twice, by OnBind, whose schema DuckDB plans with, and      *)
(* again by NewState, whose plan the ticks follow, from the `fields`       *)
(* argument or from the mapping the cluster has at that time.  DuckDB      *)
(* projects by position in the bound schema.  The batches are followed     *)
(* for one document.                                                       *)
(*                                                                         *)
(* A definition named X_Something is a wrong variant of X (see Scan).      *)
(***************************************************************************)
EXTENDS TypeMapping, FiniteSets

CONSTANTS Indices,      \* the concrete indices that the index argument may reach
          Names,        \* field names
          NameRank,     \* their order, as strings
          Within,       \* Within[f]: the object that a dotted name lies in, or NoField
          FieldTypes,   \* the field types in mappings and arguments; "" for none
          Properties,   \* the entries fields have in mappings
          NoField,      \* a name that a mapping lacks
          Mappings,     \* the mappings that the indices may start with
          FieldsArgs,   \* the `fields` arguments: sequences of parts
          Documents,    \* what a _source may hold: fields, by the names it writes
          All,          \* no projection: every column is wanted
          NoPlan,       \* no scan state yet
          NoRequest,    \* no request yet
          NoSourceKey,  \* a request without a `_source` key: the whole _source
          MaxChanges    \* bound on changes of the mappings during a query

NoType == "no type"   \* a part of `fields` that gives no type

ASSUME BindingAssumption ==
  /\ IsFiniteSet(Indices) /\ IsFiniteSet(Names) /\ Names \cap {"_id", "_score", ""} = {}
  /\ NameRank \in [Names -> Int] /\ IsInjective(NameRank)
  /\ Within \in [Names -> Names \cup {NoField}]
  /\ {"keyword", "float", "object"} \subseteq FieldTypes
  /\ Properties \subseteq [type : FieldTypes, properties : BOOLEAN] /\ NoField \notin Properties
  /\ Mappings \subseteq [Indices -> [Names -> Properties \cup {NoField}]]
  /\ FieldsArgs \subseteq Seq([name : Names \cup {""}, type : FieldTypes \cup {NoType}])
  /\ Documents \subseteq SUBSET Names
  /\ MaxChanges \in Nat

VARIABLES mapping,     \* mapping[i][f]: the entry of field f in index i
          changes,     \* how often a mapping has changed
          target,      \* the endpoint and index arguments: NULL, "" or named
          fields,      \* the `fields` argument
          phase,       \* how far the query is
          schema,      \* the bound schema
          projection,  \* the ids of the columns that DuckDB wants; All when unprojected
          plan,        \* ColumnsJSON and SourceIncludes in the scan's state
          sources,     \* the `_source` key of the last request
          document,    \* the fields in a document's _source
          emitted,     \* the columns of the last batch
          shown        \* the fields that it has values of

arguments == <<target, fields, document>>
batch == <<sources, emitted, shown>>
vars == <<mapping, changes, arguments, phase, schema, projection, plan, batch>>

ColumnNames == Names \cup {"_id", "_score"}
Arrow == {"string", "int64", "float64", "bool", "timestamp"}

Plans ==
  [columns : Seq([name : ColumnNames, source : ColumnNames, es : FieldTypes]), includes : Seq(Names)]

TypeOK ==
  /\ mapping \in [Indices -> [Names -> Properties \cup {NoField}]]
  /\ changes \in 0..MaxChanges
  /\ target \in {"null", "empty", "named"}
  /\ fields \in FieldsArgs
  /\ phase \in {"start", "bound", "projected", "planned", "emitted", "finished", "failed"}
  /\ {schema, emitted} \subseteq Seq([name : ColumnNames, arrow : Arrow])
  /\ projection = All \/ projection \in Seq(DOMAIN schema)
  /\ plan = NoPlan \/ plan \in Plans
  /\ sources \in {NoRequest, NoSourceKey} \/ sources \in Seq(Names)
  /\ document \in Documents /\ shown \in SUBSET Names

Init ==
  /\ mapping \in Mappings
  /\ changes = 0
  /\ target \in {"null", "empty", "named"}
  /\ fields \in FieldsArgs
  /\ phase = "start"
  /\ projection = All
  /\ document \in Documents
  /\ schema = <<>> /\ plan = NoPlan
  /\ sources = NoRequest /\ emitted = <<>> /\ shown = {}

-----------------------------------------------------------------------------
(* parseFieldsSpec: a part without a name is skipped, one without a type   *)
(* is a keyword.                                                           *)
ParseFieldsSpec_KeepsBlanks(parts) ==
  [i \in DOMAIN parts |->
     SourceColumn(parts[i].name, IF parts[i].type = NoType THEN "keyword" ELSE parts[i].type)]
ParseFieldsSpec(parts) ==
  LET named == Only(parts, {p \in Range(parts) : p.name # ""})
  IN  [i \in DOMAIN named |->
         SourceColumn(named[i].name, IF named[i].type = NoType THEN "keyword" ELSE named[i].type)]

(* GetMapping: the mappings of all indices merged, in the random order of  *)
(* a Go map; the first index that has a field wins.                        *)
Orders == {o \in [1..Cardinality(Indices) -> Indices] : IsInjective(o)}
Has(i, f) == mapping[i][f] # NoField
MergedNames == {f \in Names : \E i \in Indices : Has(i, f)}
Merged(order) ==
  [f \in MergedNames |->
     mapping[order[CHOOSE k \in DOMAIN order :
                     Has(order[k], f) /\ \A j \in 1..(k - 1) : ~ Has(order[j], f)]][f]]

Sorted(S) ==
  CHOOSE names \in [1..Cardinality(S) -> S] :
    \A i, j \in 1..Cardinality(S) : i < j => NameRank[names[i]] < NameRank[names[j]]

(* ColumnsFromMapping: by name; what only has sub-fields is an object. *)
PropertyType(p) == IF p.type = "" /\ p.properties THEN "object" ELSE p.type
ColumnsFromMapping(props) ==
  LET names == Sorted(DOMAIN props)
  IN  [i \in DOMAIN names |-> SourceColumn(names[i], PropertyType(props[names[i]]))]

(* resolveColumns: what it may return now. *)
ResolveColumns_Unsorted ==
  IF fields # <<>> THEN {ParseFieldsSpec(fields)}
  ELSE IF target # "named" THEN {<<>>}
  ELSE {[i \in DOMAIN names |-> SourceColumn(names[i], PropertyType(Merged(o)[names[i]]))] :
          o \in Orders,
          names \in {n \in [1..Cardinality(MergedNames) -> MergedNames] : IsInjective(n)}}
ResolveColumns ==
  IF fields # <<>> THEN {ParseFieldsSpec(fields)}
  ELSE IF target # "named" THEN {<<>>}
  ELSE {ColumnsFromMapping(Merged(o)) : o \in Orders}

(* The mapping is read over the network. *)
Introspects == fields = <<>> /\ target = "named"

Typed(cols) == [i \in DOMAIN cols |-> [name |-> cols[i].name, arrow |-> cols[i].arrow]]

(* OnBind *)
OnBind ==
  /\ phase = "start"
  /\ \E cols \in ResolveColumns : schema' = Typed(MetaColumns \o cols)
  /\ phase' = "bound"
  /\ UNCHANGED <<mapping, changes, arguments, projection, plan, batch>>

(* DuckDB asks for all columns, or for some, in its own order. *)
Project ==
  /\ phase = "bound"
  /\ \/ projection' = All
     \/ \E n \in 0..2 : \E ids \in [1..n -> DOMAIN schema] : IsInjective(ids) /\ projection' = ids
  /\ phase' = "projected"
  /\ UNCHANGED <<mapping, changes, arguments, schema, plan, batch>>

(* projectColumns: the columns of those ids, in the order of the ids.      *)
(* Without any, `_id` is kept so that rows still flow.                     *)
ProjectColumns_ColumnOrder(cols) ==
  IF projection = All THEN cols
  ELSE LET ids == Only([i \in DOMAIN cols |-> i], Range(projection))
       IN  [i \in DOMAIN ids |-> cols[ids[i]]]
ProjectColumns(cols) ==
  IF projection = All THEN cols
  ELSE LET ids == Only(projection, DOMAIN cols)
       IN  [i \in DOMAIN ids |-> cols[ids[i]]]
OrId_Never(cols) == cols
OrId(cols) == IF cols = <<>> THEN <<IdColumn>> ELSE cols

PlanOf(cols) ==
  [columns |-> [i \in DOMAIN cols |-> Untyped(cols[i])], includes |-> SourceIncludes(cols)]

(* NewState *)
NewState ==
  /\ phase = "projected"
  /\ IF target = "null"
     THEN phase' = "finished" /\ UNCHANGED plan
     ELSE /\ \E cols \in ResolveColumns : plan' = PlanOf(OrId(ProjectColumns(MetaColumns \o cols)))
          /\ phase' = "planned"
  /\ UNCHANGED <<mapping, changes, arguments, schema, projection, batch>>

(* The mapping cannot be read, in OnBind or NewState. *)
IntrospectionFails ==
  /\ phase = "start" \/ (phase = "projected" /\ target # "null")
  /\ Introspects
  /\ phase' = "failed"
  /\ UNCHANGED <<mapping, changes, arguments, schema, projection, plan, batch>>

-----------------------------------------------------------------------------
(* columns(): the plan decoded, its types restored. *)
PlanColumns == [i \in DOMAIN plan.columns |-> ReattachArrowType(plan.columns[i])]

(* BuildSearchBody: no `_source` key unless a source field is wanted. *)
SourceKey == IF plan.includes = <<>> THEN NoSourceKey ELSE plan.includes

(* The cluster's _source filter: it takes a name for what lies in it, and  *)
(* for the part that it names of an object.                                *)
Covers(f, key) == f = key \/ Within[key] = f \/ Within[f] = key
Fetched ==
  IF plan.includes = <<>> THEN document
  ELSE {key \in document : \E i \in DOMAIN plan.includes : Covers(plan.includes[i], key)}

(* BuildBatch: a column looks its whole name up among the keys it got.     *)
Shown == {f \in Fetched : \E i \in DOMAIN plan.columns : plan.columns[i].source = f}

(* What the engine expects of a batch.  Emit compares the types only. *)
Expected ==
  IF projection = All THEN schema
  ELSE IF projection = <<>> THEN Typed(<<IdColumn>>)
  ELSE [i \in DOMAIN projection |-> schema[projection[i]]]
SameTypes(cols, expected) ==
  /\ Len(cols) = Len(expected)
  /\ \A i \in DOMAIN cols : cols[i].arrow = expected[i].arrow

(* Process: one page. *)
Process ==
  /\ phase \in {"planned", "emitted"}
  /\ IF target = "empty"
     THEN phase' = "failed" /\ UNCHANGED batch   \* OpenPIT needs an index
     ELSE /\ sources' = SourceKey
          /\ emitted' = Typed(PlanColumns)
          /\ shown' = Shown
          /\ phase' = IF SameTypes(emitted', Expected) THEN "emitted" ELSE "failed"
  /\ UNCHANGED <<mapping, changes, arguments, schema, projection, plan>>

(* A field is added, an index joins or leaves the alias, or is replaced. *)
ChangeMapping ==
  /\ changes < MaxChanges
  /\ \E i \in Indices, f \in Names, p \in Properties \cup {NoField} :
       mapping[i][f] # p /\ mapping' = [mapping EXCEPT ![i][f] = p]
  /\ changes' = changes + 1
  /\ UNCHANGED <<arguments, phase, schema, projection, plan, batch>>

Next == OnBind \/ Project \/ NewState \/ IntrospectionFails \/ Process \/ ChangeMapping
Spec == Init /\ [][Next]_vars

-----------------------------------------------------------------------------
(* Every column of a batch is the one that DuckDB bound at its place: no   *)
(* value is shown under another column's name.                             *)
RightColumns ==
  phase = "emitted" => \A i \in DOMAIN emitted : emitted[i] = Expected[i]

(* No batch is refused for its types: what columns() restores from the     *)
(* stored plan is what was bound (reattachArrowType).                      *)
TypesAgree == sources # NoRequest => SameTypes(emitted, Expected)

(* Both resolutions see the same columns: they are declared, or the        *)
(* mappings stay as they are and the order of the merge cannot matter.     *)
Steady ==
  \/ fields # <<>>
  \/ /\ changes = 0
     /\ \A i, j \in Indices, f \in Names : Has(i, f) /\ Has(j, f) => mapping[i][f] = mapping[j][f]

(* Under any projection, merge order and round trip of the plan, a steady  *)
(* query shows each value under its own name...                            *)
SteadyColumns == Steady => RightColumns
(* ... and never fails for a type that OnBind announced differently.       *)
SteadyTypes == Steady => TypesAgree

(* A batch shows every field that the document writes by a column's name,  *)
(* and no other: neither the _source filter (SourceIncludes) nor the       *)
(* lookup (buildColumn) loses one.  A dotted name in an object is not      *)
(* written by its name: its column is NULL although the object was sent.   *)
ShowsWhatIsThere ==
  phase = "emitted" => shown = document \cap {emitted[i].name : i \in DOMAIN emitted}

(* The es_type_mapping view tells the type of every column, declared or    *)
(* from a mapping (views.go: "Browse it to predict the column type         *)
(* es_search will produce for a given field").                             *)
ListedTypes ==
  phase = "emitted" =>
    \A i \in DOMAIN emitted, row \in TypeMappingRows :
      row.es = plan.columns[i].es => row.duckdb = DuckDBType(emitted[i].arrow)

-----------------------------------------------------------------------------
(* The inductive invariant behind them.  A column is a meta column or one  *)
(* of the source, and its type follows from its own field type.            *)
IsColumn(col) ==
  col \in {IdColumn, ScoreColumn} \/ (col.name \in Names /\ col = SourceColumn(col.name, col.es))

(* The plan's columns survive their round trip, and it asks the cluster    *)
(* for the fields among them.                                              *)
HasPlan == phase \in {"planned", "emitted"} \/ sources # NoRequest
PlanShape ==
  /\ plan \in Plans
  /\ \A i \in DOMAIN plan.columns : IsColumn(PlanColumns[i]) /\ plan.columns[i] = Untyped(PlanColumns[i])
  /\ Range(plan.includes) = {plan.columns[i].source : i \in DOMAIN plan.columns} \cap Names

(* A steady query was bound with what it would still resolve, and planned  *)
(* with the same.                                                          *)
BoundNow == \E cols \in ResolveColumns : schema = Typed(MetaColumns \o cols)
PlannedNow ==
  \E cols \in ResolveColumns :
    /\ schema = Typed(MetaColumns \o cols)
    /\ plan = PlanOf(OrId(ProjectColumns(MetaColumns \o cols)))

IInv ==
  /\ TypeOK
  /\ phase \in {"start", "bound", "projected"} => sources = NoRequest
  /\ phase = "start" => projection = All
  /\ HasPlan => PlanShape
  /\ phase = "emitted" \/ sources # NoRequest => emitted = Typed(PlanColumns) /\ shown = Shown
  /\ Steady /\ phase \in {"bound", "projected"} => BoundNow
  /\ Steady /\ HasPlan => PlannedNow
=============================================================================
