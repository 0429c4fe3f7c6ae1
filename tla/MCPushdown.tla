----------------------------- MODULE MCPushdown -----------------------------
(***************************************************************************)
(* Values of Pushdown's constants for model checking.                      *)
(***************************************************************************)
EXTENDS Pushdown, TLC, FiniteSets

CONSTANTS Types,    \* the types of source columns
          Shapes, Values

SourceColumns == {SourceColumn("f", t) : t \in Types}
SourceAndId == SourceColumns \cup {IdColumn}
ScoreOnly == {ScoreColumn}

\* versions in another order than their texts; 1 and 2 round to the same half_float
MCIndexedAs == [t \in ConvertedTypes |->
                  [v \in Values |-> CASE t \in {"ip", "version"} -> 3 - v [] v = 2 -> 1 [] OTHER -> v]]
\* a word is no ip; 2 is beyond the byte
MCUnparsable == [t \in {c.es : c \in Cols} |-> IF t \in {"ip", "byte"} THEN {2} ELSE {}]

Scalars(c) == IF c.es = "boolean" THEN {0, 1} ELSE Values
ShapesOf(c) == IF c.source = "_id" THEN {"plain"} ELSE Shapes
MCContents ==
  [col \in Cols |-> {c \in Content(Scalars(col)) :
                       /\ c.shape \in ShapesOf(col) /\ c.value \notin MCUnparsable[col.es]
                       /\ c.shape \in {"absent", "null"} => c.value = 1
                       /\ c.shape # "many" => c.also = c.value}]

ScalarsOrNull(c) == Scalars(c) \cup {Null} \cup IF EsTypeToArrow(c.es) = "float64" THEN {NaN} ELSE {}
JSONScalars(c) == ScalarsOrNull(c) \ {NaN}
OpsOn(c) == IF c.es \in ConvertedTypes THEN {"="} ELSE Ops
LeafFilters(O, C) ==
  {Constant(op, v) : op \in O, v \in C}
    \cup {In(S) : S \in {T \in SUBSET C : Cardinality(T) = 2}} \cup {IsNull, IsNotNull}
Others(c) == {Other({Null, 1}), Other(Scalars(c))}
Ands(O, C) ==
  {And({Constant(op, v), g}) : op \in {">", "!=", "="} \cap O, v \in C,
                               g \in {IsNull, Other({1})} \cup {Constant(op, 1) : op \in {"<="} \cap O}}

AllFilters(O, C, c) ==
  LET leaves == LeafFilters(O, C)
  IN  {{}} \cup {{f} : f \in leaves \cup Others(c) \cup Ands(O, C)}
        \cup {{f, g} : f \in leaves, g \in Others(c) \cup {IsNotNull, In({Null})}}

\* no NaN among the constants, no range where the index converts
JSONFilters == [c \in Cols |-> AllFilters(OpsOn(c), JSONScalars(c), c)]

\* keys beside the bound of what doubles hold exactly, on either side
MCKeys == [d \in Docs |-> IF d = CHOOSE e \in Docs : TRUE THEN MaxExact ELSE MaxExact + 1]
MCRawKeys == {MaxExact, MaxExact + 1}

\* 1 "Red", 2 "red", 3 "red roses": lowercased words
LowercaseWords == (0 :> {}) @@ (1 :> {2}) @@ (2 :> {2}) @@ (3 :> {2, 4})
=============================================================================
