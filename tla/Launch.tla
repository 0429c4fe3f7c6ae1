------------------------------- MODULE Launch -------------------------------
(***************************************************************************)
(* How a worker process comes to its transport (main.go): the command line *)
(* is filtered, parsed by Go's flag package, and read as a transport.      *)
(*                                                                         *)
(* A token is a flag, with or without a value after "=", or a bare word.   *)
(* A definition named X_Something is a wrong variant of X.                 *)
(***************************************************************************)
EXTENDS Sequences, Integers

Flag(name) == [flag |-> name, value |-> ""]
FlagIs(name, value) == [flag |-> name, value |-> value]
Word(value) == [flag |-> "", value |-> value]

ValueFlags == {"log-level", "log-format", "log-logger", "unix", "http-addr"}
Defined == ValueFlags \cup {"http"}

(* Its value is the next token, whatever that is. *)
Bare(a) == a.flag \in ValueFlags /\ a.value = ""

(* Bare words and flags the binary lacks are dropped; a flag that takes a  *)
(* value takes the next token with it.                                     *)
FilterKnownFlags_FlagsOnly(args) == SelectSeq(args, LAMBDA a : a.flag \in Defined)
NothingKept == [kept |-> <<>>, value |-> FALSE]
FilterStep(state, a) ==
  IF state.value THEN [kept |-> Append(state.kept, a), value |-> FALSE]
  ELSE IF a.flag \in Defined THEN [kept |-> Append(state.kept, a), value |-> Bare(a)]
  ELSE state
FilterKnownFlags(args) ==
  LET after[i \in 0..Len(args)] ==
        IF i = 0 THEN NothingKept ELSE FilterStep(after[i - 1], args[i])
  IN  after[Len(args)].kept

(* Go's flag package: it stops at a bare word, the last of two settings    *)
(* wins, and an unknown flag or a missing value ends the process.  The log *)
(* settings are taken to be valid.                                         *)
Default == [http |-> FALSE, addr |-> "127.0.0.1:0", unix |-> "", usage |-> FALSE]
Set(options, name, value) ==
  CASE name = "unix" -> [options EXCEPT !.unix = value]
    [] name = "http-addr" -> [options EXCEPT !.addr = value]
    [] name = "http" -> [options EXCEPT !.http = TRUE]
    [] OTHER -> options
Usage(options) == [options EXCEPT !.usage = TRUE]
NothingParsed == [options |-> Default, awaits |-> "", stopped |-> FALSE]
ParseStep(state, a) ==
  CASE state.stopped -> state
    [] ~ state.stopped /\ state.awaits # "" ->
         [state EXCEPT !.options = Set(@, state.awaits, a.value), !.awaits = ""]
    [] ~ state.stopped /\ state.awaits = "" ->
         IF a.flag = "" THEN [state EXCEPT !.stopped = TRUE]
         ELSE IF a.flag \notin Defined THEN [state EXCEPT !.options = Usage(@), !.stopped = TRUE]
         ELSE IF Bare(a) THEN [state EXCEPT !.awaits = a.flag]
         ELSE [state EXCEPT !.options = Set(@, a.flag, a.value)]
Parsed(args) ==
  LET after[i \in 0..Len(args)] ==
        IF i = 0 THEN NothingParsed ELSE ParseStep(after[i - 1], args[i])
  IN  after[Len(args)]
Parse(args) ==
  IF Parsed(args).awaits = "" THEN Parsed(args).options ELSE Usage(Parsed(args).options)

(* main: HTTP goes before a socket, and a socket before stdio. *)
Transport(options) ==
  CASE options.usage -> <<"usage">>
    [] ~ options.usage /\ options.http -> <<"http", options.addr>>
    [] ~ options.usage /\ ~ options.http /\ options.unix # "" -> <<"unix", options.unix>>
    [] OTHER -> <<"stdio">>

Served(args) == Transport(Parse(FilterKnownFlags(args)))
=============================================================================
