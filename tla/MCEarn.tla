------------------------------- MODULE MCEarn -------------------------------
(***************************************************************************)
(* One Instagram account with two codes.                                   *)
(***************************************************************************)
EXTENDS Earn

MCAccountOf == [c \in Code |-> CHOOSE a \in Account : TRUE]
=============================================================================
