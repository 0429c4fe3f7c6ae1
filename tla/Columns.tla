------------------------------- MODULE Columns -------------------------------
(***************************************************************************)
(* The output columns of es_search (types.go) and the cell each one shows  *)
(* of a document's _source (rows.go).                                      *)
(***************************************************************************)
EXTENDS Loops, Functions

CONSTANT Null    \* the Arrow null

StringTypes == {"keyword", "text", "ip", "constant_keyword", "wildcard", "version"}
IntTypes_Signed == {"long", "integer", "short", "byte"}
IntTypes == {"long", "integer", "short", "byte", "unsigned_long"}
DoubleTypes == {"double", "float", "half_float", "scaled_float"}
BooleanTypes == {"boolean"}
DateTypes == {"date", "date_nanos"}

IsScalarType(es) == es \in StringTypes \cup IntTypes \cup DoubleTypes \cup BooleanTypes \cup DateTypes
EsTypeToArrow(es) ==
  CASE es \in IntTypes -> "int64"
    [] es \in DoubleTypes -> "float64"
    [] es \in BooleanTypes -> "bool"
    [] es \in DateTypes -> "timestamp"
    [] OTHER -> "string"

SourceColumn(name, es) ==
  [name |-> name, source |-> name, es |-> es, arrow |-> EsTypeToArrow(es)]
IdColumn == [name |-> "_id", source |-> "_id", es |-> "keyword", arrow |-> "string"]
ScoreColumn == [name |-> "_score", source |-> "_score", es |-> "float", arrow |-> "float64"]
MetaColumns == <<IdColumn, ScoreColumn>>

(* The plan is kept without the arrow types, which columns() restores.     *)
Untyped(col) == [name |-> col.name, source |-> col.source, es |-> col.es]
ReattachArrowType(plan) ==
  [name |-> plan.name, source |-> plan.source, es |-> plan.es,
   arrow |-> CASE plan.source = "_id" -> "string"
               [] plan.source = "_score" -> "float64"
               [] OTHER -> EsTypeToArrow(plan.es)]

IsMeta(col) == col.source \in {"_id", "_score"}
Sources(cols) == [i \in DOMAIN cols |-> cols[i].source]
SourceIncludes_ScalarsOnly(cols) ==
  Sources(Only(cols, {c \in Range(cols) : ~ IsMeta(c) /\ IsScalarType(c.es)}))
SourceIncludes(cols) == Sources(Only(cols, {c \in Range(cols) : ~ IsMeta(c)}))

-----------------------------------------------------------------------------
(* What a document may hold in a field.  `value` ranks the scalars of the  *)
(* field's type; 0 is Go's zero value of it: "", 0, FALSE or 1970.         *)
(*   absent    no such key in the _source                                  *)
(*   null      an explicit null                                            *)
(*   plain     one value, of the JSON type of the field                    *)
(*   unindexed one value that the cluster keeps in the _source only (an    *)
(*             ignore_above, an ignored malformed value)                   *)
(*   coerced   one value of another JSON type, or in a date format of the  *)
(*             mapping's own: the cluster reads it as `value`              *)
(*   many      an array of `value` and `also`                              *)
Content(V) ==
  [shape : {"absent", "null", "plain", "unindexed", "coerced", "many"}, value : V, also : V]

\* Raw JSON texts other than a document's own: `[...]` sorts before `null`, and both before `{`.
ListText == -2
NullText == -1
RawText(c) ==
  CASE c.shape = "null" -> NullText
    [] c.shape = "many" -> ListText
    [] OTHER -> c.value

(* buildColumn: Go decodes a null into the zero value, without an error;   *)
(* a value of another JSON type keeps its text in a VARCHAR and is an      *)
(* error elsewhere.  (The text of a number in a keyword field is the term  *)
(* that the cluster made of it.)                                           *)
Cell(es, c) ==
  CASE c.shape = "absent" -> Null
    [] c.shape # "absent" /\ ~ IsScalarType(es) -> RawText(c)
    [] c.shape = "null" /\ IsScalarType(es) -> 0
    [] c.shape \in {"plain", "unindexed"} /\ IsScalarType(es) -> c.value
    [] c.shape \in {"coerced", "many"} /\ IsScalarType(es) ->
         IF EsTypeToArrow(es) = "string" THEN RawText(c) ELSE Null

=============================================================================
