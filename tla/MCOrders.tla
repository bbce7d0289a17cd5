------------------------------ MODULE MCOrders ------------------------------
(***************************************************************************)
(* Members differ in nothing, so TLC may exchange them where no liveness is *)
(* checked.                                                                *)
(***************************************************************************)
EXTENDS Orders, TLC

Exchangeable == Permutations(Member)
=============================================================================
