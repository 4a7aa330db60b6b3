----------------------------- MODULE MCNftlPool -----------------------------
(***************************************************************************)
(* Instances of NftlPool for TLC.                                          *)
(***************************************************************************)
EXTENDS NftlPool

===============================================================================
