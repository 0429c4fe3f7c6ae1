------------------------------- MODULE MCScan -------------------------------
(***************************************************************************)
(* Values of Scan's constants for model checking.                          *)
(***************************************************************************)
EXTENDS ScanInvariant, TLC

CONSTANTS a1, a2, b, c    \* two versions of one document, and two others

ByN == <<[field |-> "n", order |-> ""]>>
ById == <<>>
ByIdDesc == <<[field |-> "g", order |-> "asc"], [field |-> "_id", order |-> "desc"]>>
SortN == {"n"}
SortNG == {"n", "g"}

\* one index; the update of a moves it behind c in the order of n
SameIndex == [d \in Docs |-> "i"]
Rank == (a1 :> 1) @@ (a2 :> 1) @@ (b :> 2) @@ (c :> 3)
Ids == [d \in Docs |-> Rank[d]]
Values == (a1 :> [n |-> 1, g |-> 1]) @@ (a2 :> [n |-> 3, g |-> 1])
          @@ (b :> [n |-> 2, g |-> 2]) @@ (c :> [n |-> 2, g |-> 1])
\* an alias over two indices, which both hold an `_id` of the first
TwoIndices == [d \in Docs |-> IF d = a2 THEN "j" ELSE "i"]
\* integers a double does not hold: 17 becomes 16, 19 becomes 20
BigValues == [d \in Docs |-> [f \in Fields |-> 16 + Values[d][f]]]
ValN == [d \in Docs |-> [f \in Fields |-> Values[d][f]]]
Size1 == [s \in Scans |-> 1]
Size2 == [s \in Scans |-> 2]
Size0 == [s \in Scans |-> 0]
Symmetry == Permutations(PitIds)
=============================================================================
