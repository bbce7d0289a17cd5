------------------------------- MODULE Ledger -------------------------------
(***************************************************************************)
(* What the credit service (src/app/credits.py) promises its callers.     *)
(*                                                                         *)
(* Every member has a book of postings.  A posting carries the member's    *)
(* dedupe key and is made at most once; the balance is the running total   *)
(* of the postings; a charge is posted only when the balance covers it.    *)
(* Nothing is said here of transactions, row locks or retries: Credits.tla *)
(* is the program, and implements this.                                    *)
(***************************************************************************)
EXTENDS Integers

CONSTANTS
    Member,      \* rows of table member
    Key,         \* dedupe keys
    ChargeKey,   \* the keys only charge_credits posts under ("job:<id>")
    Delta        \* amounts a posting may carry

VARIABLES
    posted,      \* posted[m]: the keys posted to m's book
    balance      \* balance[m]: the total of m's postings

vars == <<posted, balance>>

Init ==
    /\ posted = [m \in Member |-> {}]
    /\ balance = [m \in Member |-> 0]

Post(m, k, d) ==
    /\ k \notin posted[m]
    /\ posted' = [posted EXCEPT ![m] = @ \union {k}]
    /\ balance' = [balance EXCEPT ![m] = @ + d]

(* A grant may be of either sign (a clawback or a forfeit is a negative    *)
(* grant, and may take the balance below zero).                            *)
Grant(m, k, d) == k \notin ChargeKey /\ Post(m, k, d)

Charge(m, k, cost) == cost > 0 /\ balance[m] >= cost /\ Post(m, k, -cost)

Next ==
    \E m \in Member, k \in Key, d \in Delta :
        Grant(m, k, d) \/ Charge(m, k, d)

Spec == Init /\ [][Next]_vars
=============================================================================
