--------------------------- MODULE MCIntegration ---------------------------
(***************************************************************************)
(* Values of Integration's constants for model checking.                   *)
(***************************************************************************)
EXTENDS Integration

(* No flags, an unknown one with its value inline and one with its value   *)
(* in a token of its own, and a known one of each kind.                    *)
MCNoise == {<<>>, <<FlagIs("cache-key", "k")>>, <<Flag("cache-key"), Word("k")>>,
            <<FlagIs("log-level", "debug")>>, <<Flag("log-level"), Word("debug")>>}
=============================================================================
