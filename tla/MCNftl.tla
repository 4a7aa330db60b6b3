-------------------------------- MODULE MCNftl --------------------------------
(***************************************************************************)
(* Instances of Nftl for TLC.  The code never looks at the data it stores, *)
(* so it is enough to follow one logical page at a time: that page gets    *)
(* one of two values, the others get a third.                              *)
(***************************************************************************)
EXTENDS Nftl, TLC

CONSTANTS d1, d2, other

MCData == {d1, d2, other}
FollowFirst(lpa)  == IF lpa = 0 THEN {d1, d2} ELSE {other}

\* Two logical blocks of two pages; the second one gets its first page only.
ThreePages(lpa)   == CASE lpa = 0 -> {d1, d2} [] lpa = 3 -> {} [] OTHER -> {other}

\* Three logical blocks of two pages; the first two get their second page only.
Sparse(lpa)       == IF lpa \in {0, 2} THEN {} ELSE {other}

\* The two values of the page that is followed are interchangeable.
DataSymmetry == Permutations({d1, d2})

===============================================================================
