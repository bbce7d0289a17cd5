------------------------------ MODULE MCCredits -----------------------------
(***************************************************************************)
(* Credits.tla on one member row and two connections: a row lock is per    *)
(* member, so more rows only interleave independent books.  One key for    *)
(* grants and two for charges: a grant of 1 covers one of two charges, a   *)
(* grant of -1 (an adjustment or a clawback) takes the balance below zero, *)
(* a charge of 0 is refused unread.  The keys bound the ledger.            *)
(***************************************************************************)
EXTENDS Credits

MCDelta == {-1, 0, 1}
=============================================================================
