------------------------------ MODULE MCSdHost ------------------------------
(***************************************************************************)
(* Instances of SdHost for TLC.                                            *)
(***************************************************************************)
EXTENDS SdHost

\* One page of two blocks, two pages of one block, a page of two and one of one.
MCPageLists == {<<0, 2>>, <<0, 1, 2>>, <<0, 2, 3>>}
=============================================================================
