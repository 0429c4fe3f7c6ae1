----------------------------- MODULE SearchAfter -----------------------------
(***************************************************************************)
(* The documents es_search reads, the order it asks the cluster to sort    *)
(* them in, and the search_after cursor that resumes in that order.        *)
(*                                                                         *)
(* A member of Docs is one VERSION of a document: two versions with the    *)
(* same `_id` in the same concrete index replace each other, two documents *)
(* with the same `_id` in different concrete indices (an alias or a        *)
(* wildcard target) live side by side.                                     *)
(*                                                                         *)
(* Field values are integers.  An `_id` is a string, which only its place  *)
(* in the cluster's order stands for here.  A document that lacks a sort   *)
(* field is sorted by the cluster at an extreme of the 64-bit range, i.e.  *)
(* at a value that doubles do not tell from its neighbours.                *)
(***************************************************************************)
EXTENDS Doubles, Sequences, FiniteSets

CONSTANTS Docs,        \* document versions
          IndexOf,     \* the concrete index each version lives in
          Id,          \* the place of its `_id` in the order of ids
          Fields,      \* the source fields a sort may name
          Val,         \* Val[d][f]: the value of field f in version d
          SortParts    \* the caller's sort argument, split at its commas

(* A part of the sort argument: a field, "" for a blank part, and what     *)
(* follows its colon.  (A part that is only a colon and an order names an  *)
(* empty field, which the cluster refuses.)                                *)
SortPart == [field : Fields \cup {"_id", ""}, order : {"", "asc", "desc"}]
SortField == [field : Fields \cup {"_id"}, desc : BOOLEAN]

(* parseSortSpec: blank parts are skipped; any order but desc is ascending. *)
ParseSortSpec(parts) ==
  LET named == SelectSeq(parts, LAMBDA p : p.field # "")
  IN  [i \in 1..Len(named) |->
         [field |-> named[i].field, desc |-> named[i].order = "desc"]]

IdTiebreaker == [field |-> "_id", desc |-> FALSE]

(* (A wrong variant, see Scan: the caller's sort alone.)                   *)
SortToDSL_NoTiebreaker(sort) == IF sort = <<>> THEN <<IdTiebreaker>> ELSE sort

(* sortToDSL: the sort ends in `_id`, appended unless the caller's does.   *)
SortToDSL(sort) ==
  IF sort = <<>> \/ sort[Len(sort)].field # "_id"
  THEN Append(sort, IdTiebreaker)
  ELSE sort

Order == SortToDSL(ParseSortSpec(SortParts))

ASSUME DocAssumption ==
  /\ IsFiniteSet(Docs)
  /\ "_id" \notin Fields
  /\ Id \in [Docs -> Nat]
  /\ Val \in [Docs -> [Fields -> Int]]
ASSUME SortAssumption == ParseSortSpec(SortParts) \in Seq(SortField)

-----------------------------------------------------------------------------
(* A hit's `sort` array: its value of every key of the order.              *)
SortValue(d, key) == IF key.field = "_id" THEN Id[d] ELSE Val[d][key.field]
SortArray(d) == [i \in DOMAIN Order |-> SortValue(d, Order[i])]

(* The cluster's order on sort arrays: the first key that differs decides. *)
KeyBefore(key, x, y) == IF key.desc THEN y < x ELSE x < y
Precedes(a, b) ==
  \E i \in DOMAIN Order :
     /\ KeyBefore(Order[i], a[i], b[i])
     /\ \A j \in 1..(i - 1) : a[j] = b[j]

(* The last sort array of a page goes back to the cluster as search_after, *)
(* decoded into []any on the way: its numbers become doubles.              *)
SearchAfterOf(sortValues) ==
  [i \in DOMAIN sortValues |->
     IF Order[i].field = "_id" THEN sortValues[i] ELSE Float64(sortValues[i])]

(* Where that is harmless. *)
ExactSortValues == \A d \in Docs, f \in Fields : Exact(Val[d][f])

-----------------------------------------------------------------------------
NoCursor == <<>>      \* no page has been read yet

(* The documents of a snapshot that a search resuming at `cursor` returns. *)
After(snapshot, cursor) ==
  IF cursor = NoCursor THEN snapshot
  ELSE {d \in snapshot : Precedes(SearchAfterOf(cursor), SortArray(d))}

(* Sets a response of at most `size` hits out of `matches` may hold: the   *)
(* first ones in the order, any of those the order does not tell apart.    *)
IsPage(page, matches, size) ==
  /\ page \subseteq matches
  /\ Cardinality(page) = IF Cardinality(matches) < size
                         THEN Cardinality(matches) ELSE size
  /\ \A d \in page, e \in matches \ page : ~ Precedes(SortArray(e), SortArray(d))

(* The hit a response may list last.                                       *)
IsLast(d, page) ==
  d \in page /\ \A e \in page : ~ Precedes(SortArray(d), SortArray(e))

=============================================================================
