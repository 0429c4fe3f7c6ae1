------------------------------ MODULE MCBinding ------------------------------
(***************************************************************************)
(* Values of Binding's constants for model checking.                       *)
(***************************************************************************)
EXTENDS Binding, TLC

\* "o.x" lies in the object "o"; no mapping has a dotted name at its top.
MCNames == {"a", "b", "o", "o.x"}
MCRank == ("a" :> 1) @@ ("b" :> 2) @@ ("o" :> 3) @@ ("o.x" :> 4)
MCWithin == [f \in MCNames |-> IF f = "o.x" THEN "o" ELSE NoField]
P(t) == [type |-> t, properties |-> t = ""]
MCFieldTypes ==
  {"", "keyword", "version", "long", "unsigned_long", "float", "double", "half_float", "boolean",
   "date", "object", "geo_point", "flattened"}
MCProperties == {P("keyword"), P("long"), P("")}
IndexMapping(a, b, o) == ("a" :> a) @@ ("b" :> b) @@ ("o" :> o) @@ ("o.x" :> NoField)

\* of two indices: alike, with other fields, with another type
OneIndexMappings ==
  {IndexMapping(P("keyword"), NoField, P("")), IndexMapping(NoField, P("long"), P("")),
   IndexMapping(P("long"), NoField, NoField)}
MCMappings == [Indices -> OneIndexMappings]

MCDocuments == {{"a", "b", "o"}, {"a", "o.x"}}

Part(f, t) == [name |-> f, type |-> t]
MCFieldsArgs ==
  {<<>>,
   <<Part("b", NoType), Part("", NoType), Part("a", "object")>>,
   <<Part("o.x", "date"), Part("a", "boolean"), Part("b", "double")>>,
   <<Part("o", "geo_point"), Part("o.x", "version"), Part("", "long")>>,
   <<Part("a", "unsigned_long"), Part("b", "half_float"), Part("o", "flattened")>>}
=============================================================================
