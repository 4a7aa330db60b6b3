------------------------------ MODULE MCNftlCore ------------------------------
(***************************************************************************)
(* Instances of NftlCore for TLC.                                          *)
(***************************************************************************)
EXTENDS NftlCore, TLC

DataSymmetry == Permutations(Data)

===============================================================================
