---------------------------- MODULE TypeMapping ----------------------------
(***************************************************************************)
(* The es_type_mapping view (views.go): what the catalog tells of the type *)
(* that es_search gives a field, without asking a cluster.                 *)
(***************************************************************************)
EXTENDS Columns

(* How DuckDB calls the Arrow types. *)
DuckDBType(arrow) ==
  CASE arrow = "string" -> "VARCHAR"
    [] arrow = "int64" -> "BIGINT"
    [] arrow = "float64" -> "DOUBLE"
    [] arrow = "bool" -> "BOOLEAN"
    [] arrow = "timestamp" -> "TIMESTAMP WITH TIME ZONE"

Rows(types, duckdb, category) == [es : types, duckdb : {duckdb}, category : {category}]
TypeMappingRows ==
  Rows({"keyword", "text", "ip", "constant_keyword", "wildcard", "version"}, "VARCHAR", "string")
    \cup Rows({"long", "integer", "short", "byte", "unsigned_long"}, "BIGINT", "integer")
    \cup Rows({"double", "float", "half_float", "scaled_float"}, "DOUBLE", "float")
    \cup Rows({"boolean"}, "BOOLEAN", "boolean")
    \cup Rows({"date", "date_nanos"}, "TIMESTAMP WITH TIME ZONE", "temporal")
    \cup Rows({"object", "nested", "geo_point", "geo_shape"}, "VARCHAR", "json")
=============================================================================
