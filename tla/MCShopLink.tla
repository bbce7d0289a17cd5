----------------------------- MODULE MCShopLink ----------------------------
(***************************************************************************)
(* A telephone with every shop account, and one with none.                 *)
(***************************************************************************)
EXTENDS ShopLink, SequencesExt

CONSTANT Stranger

MCAccounts ==
  [t \in Target |-> IF t \in Shop THEN <<t>> ELSE IF t = Stranger THEN <<>> ELSE SetToSeq(Shop)]
=============================================================================
