----------------------------- MODULE MCGeneration ---------------------------
(***************************************************************************)
(* Generation.tla for its safety run.  No definition tells one POST, one   *)
(* Idempotency-Key or one slot from another, so TLC may exchange them.     *)
(* Members differ: one is a guest, one may withdraw.                       *)
(***************************************************************************)
EXTENDS Generation, TLC

Exchangeable ==
    Permutations(Job) \union Permutations(Key) \union Permutations(Slot)
=============================================================================
