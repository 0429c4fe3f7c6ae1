------------------------------ MODULE MCClient ------------------------------
(***************************************************************************)
(* Values of Client's constants for model checking.                        *)
(***************************************************************************)
EXTENDS Client

MCFlavors == {"elasticsearch", "Elasticsearch", "opensearch"}
MCElasticsearch == {"elasticsearch", "Elasticsearch"}
=============================================================================
