------------------------------- MODULE Credits ------------------------------
(***************************************************************************)
(* src/app/credits.py: grant_credits and charge_credits, run by concurrent *)
(* requests and workers against one PostgreSQL database (READ COMMITTED).  *)
(*                                                                         *)
(* A process serves one call at a time.  A call locks the member row       *)
(* (SELECT ... FOR UPDATE), computes balance_after from the row it read,   *)
(* inserts the ledger row and saves the balance; both become visible at    *)
(* the commit, which also releases the lock.  A call runs either in its    *)
(* own transaction or in its caller's (own = FALSE), who may still raise   *)
(* after the call returned and roll everything back.                       *)
(***************************************************************************)
EXTENDS Integers, Sequences

CONSTANTS
    Member,      \* rows of table member
    Proc,        \* connections: API requests, the worker, batch jobs
    Key,         \* dedupe keys
    ChargeKey,   \* the keys passed to charge_credits ("job:<id>"), no grant's
    Delta,       \* amounts (grants) and costs (charges)
    NoProc       \* not a connection

ASSUME CreditsAssumption ==
    /\ Delta \subseteq Int
    /\ ChargeKey \subseteq Key
    /\ NoProc \notin Proc

(* _REASON_SIGN, with the reasons grouped by the sign they allow. *)
ReasonSign == [credit |-> 1, debit |-> -1, adjustment |-> 0]

Reason == {"credit", "debit", "adjustment"}

Call ==
    {c \in [op: {"grant", "charge"}, member: Member, key: Key, delta: Delta,
            reason: Reason, own: BOOLEAN] :
        IF c.op = "charge" THEN c.key \in ChargeKey /\ c.reason = "debit"
                           ELSE c.key \notin ChargeKey}

Row == [key: Key, amount: Int, balance_after: Int]

VARIABLES
    balance,     \* member.credit_balance, committed
    ledger,      \* ledger[m]: the committed credit_ledger rows of m, by id
    lock,        \* lock[m]: the connection holding m's row FOR UPDATE
    pc,          \* where each connection stands in its call
    call,        \* the call it serves, <<>> when it serves none
    seen,        \* credit_balance of the row it locked
    insert,      \* the row it inserted and has not committed: <<>> or <<row>>
    reply        \* what the call returned or raised

vars == <<balance, ledger, lock, pc, call, seen, insert, reply>>

InTransaction == {"check", "write", "commit"}

Init ==
    /\ balance = [m \in Member |-> 0]
    /\ ledger = [m \in Member |-> <<>>]
    /\ lock = [m \in Member |-> NoProc]
    /\ pc = [p \in Proc |-> "idle"]
    /\ call = [p \in Proc |-> <<>>]
    /\ seen = [p \in Proc |-> 0]
    /\ insert = [p \in Proc |-> <<>>]
    /\ reply = [p \in Proc |-> "none"]

KeysOf(book) == {book[i].key : i \in 1 .. Len(book)}

Posted(m) == KeysOf(ledger[m])

Goto(p, label) == pc' = [pc EXCEPT ![p] = label]

Answer(p, r) == reply' = [reply EXCEPT ![p] = r] /\ Goto(p, "done")

(* Mutant of Unlock: the lock outlives the transaction.                    *)
UnlockNever(p) == UNCHANGED lock

Unlock(p) == lock' = [lock EXCEPT ![call[p].member] = NoProc]

(* _validate_delta: a grant whose sign contradicts its reason is refused. *)
ValidDelta(c) == ReasonSign[c.reason] # 0 => c.delta * ReasonSign[c.reason] >= 0

(* A call arrives.  Nothing is locked for a grant with the wrong sign      *)
(* (ValueError) or for a charge of nothing, which is answered (False,      *)
(* balance).                                                               *)
Begin(p, c) ==
    /\ pc[p] = "idle"
    /\ call' = [call EXCEPT ![p] = c]
    /\ IF c.op = "grant"
       THEN IF ValidDelta(c)
            THEN Goto(p, "lock") /\ UNCHANGED reply
            ELSE Answer(p, "ValueError")
       ELSE IF c.delta <= 0
            THEN Answer(p, "refused")
            ELSE Goto(p, "lock") /\ UNCHANGED reply
    /\ UNCHANGED <<balance, ledger, lock, seen, insert>>

(* Mutant of LockMember: a plain SELECT, which waits for nobody.           *)
LockMemberPlain(p) ==
    LET m == call[p].member IN
    /\ pc[p] = "lock"
    /\ seen' = [seen EXCEPT ![p] = balance[m]]
    /\ Goto(p, IF call[p].op = "charge" THEN "check" ELSE "write")
    /\ UNCHANGED <<balance, ledger, lock, call, insert, reply>>

(* SELECT ... FOR UPDATE waits for the row and returns its last commit. *)
LockMember(p) ==
    LET m == call[p].member IN
    /\ pc[p] = "lock"
    /\ lock[m] = NoProc
    /\ lock' = [lock EXCEPT ![m] = p]
    /\ seen' = [seen EXCEPT ![p] = balance[m]]
    /\ Goto(p, IF call[p].op = "charge" THEN "check" ELSE "write")
    /\ UNCHANGED <<balance, ledger, call, insert, reply>>

Covered(p) == seen[p] >= call[p].delta

(* A charge looks for its dedupe key, then for cover.  Already charged and *)
(* not covered both return without writing, the lock held to the commit.   *)
CheckCharge(p) ==
    LET c == call[p] IN
    /\ pc[p] = "check"
    /\ \/ /\ c.key \in Posted(c.member)
          /\ reply' = [reply EXCEPT ![p] = "charged"]
          /\ Goto(p, "commit")
       \/ /\ c.key \notin Posted(c.member)
          /\ ~Covered(p)
          /\ reply' = [reply EXCEPT ![p] = "refused"]
          /\ Goto(p, "commit")
       \/ /\ c.key \notin Posted(c.member)
          /\ Covered(p)
          /\ Goto(p, "write")
          /\ UNCHANGED reply
    /\ UNCHANGED <<balance, ledger, lock, call, seen, insert>>

Amount(c) == IF c.op = "charge" THEN -c.delta ELSE c.delta

(* Mutant of NewRow: the row is created without its balance_after.         *)
NewRowBare(p) == [key |-> call[p].key, amount |-> Amount(call[p])]

NewRow(p) ==
    [key |-> call[p].key, amount |-> Amount(call[p]),
     balance_after |-> seen[p] + Amount(call[p])]

(* INSERT INTO credit_ledger and the save of the balance it carries.  The  *)
(* unique index on (member, dedupe_key) raises IntegrityError, which rolls *)
(* the transaction back; a call in its own transaction then looks whether  *)
(* the key is there.                                                       *)
Write(p) ==
    LET c == call[p] IN
    /\ pc[p] = "write"
    /\ \/ /\ c.key \in Posted(c.member) /\ c.own
          /\ Unlock(p)
          /\ Goto(p, "duplicate")
          /\ UNCHANGED <<insert, reply>>
       \/ /\ c.key \in Posted(c.member) /\ ~c.own
          /\ Unlock(p)
          /\ Answer(p, "IntegrityError")
          /\ UNCHANGED insert
       \/ /\ c.key \notin Posted(c.member)
          /\ insert' = [insert EXCEPT ![p] = <<NewRow(p)>>]
          /\ reply' = [reply EXCEPT ![p] =
                 IF c.op = "charge" THEN "charged" ELSE "granted"]
          /\ Goto(p, "commit")
          /\ UNCHANGED lock
    /\ UNCHANGED <<balance, ledger, call, seen>>

(* Mutant of Commit: the balance is committed, the ledger row is lost.     *)
CommitBalanceOnly(p) ==
    LET m == call[p].member IN
    /\ pc[p] = "commit"
    /\ balance' = [balance EXCEPT ![m] =
           IF insert[p] = <<>> THEN @ ELSE insert[p][1].balance_after]
    /\ insert' = [insert EXCEPT ![p] = <<>>]
    /\ Unlock(p)
    /\ Goto(p, "done")
    /\ UNCHANGED <<ledger, call, seen, reply>>

(* COMMIT: the ledger row and the balance become visible together. *)
Commit(p) ==
    LET m == call[p].member IN
    /\ pc[p] = "commit"
    /\ \/ /\ insert[p] = <<>>
          /\ UNCHANGED <<balance, ledger>>
       \/ /\ insert[p] # <<>>
          /\ ledger' = [ledger EXCEPT ![m] = Append(@, insert[p][1])]
          /\ balance' = [balance EXCEPT ![m] = insert[p][1].balance_after]
    /\ insert' = [insert EXCEPT ![p] = <<>>]
    /\ Unlock(p)
    /\ Goto(p, "done")
    /\ UNCHANGED <<call, seen, reply>>

(* The caller raises before its commit (create_job answers 402), or the    *)
(* connection is lost: PostgreSQL rolls back and releases the row.         *)
Rollback(p) ==
    /\ pc[p] \in InTransaction
    /\ insert' = [insert EXCEPT ![p] = <<>>]
    /\ Unlock(p)
    /\ Answer(p, "error")
    /\ UNCHANGED <<balance, ledger, call, seen>>

(* After IntegrityError in its own transaction: the key is there, so the   *)
(* grant had been made (False) and the charge too (True).                  *)
FindDuplicate(p) ==
    LET c == call[p] IN
    /\ pc[p] = "duplicate"
    /\ Answer(p, IF c.key \notin Posted(c.member) THEN "IntegrityError"
                 ELSE IF c.op = "charge" THEN "charged" ELSE "duplicate")
    /\ UNCHANGED <<balance, ledger, lock, call, seen, insert>>

(* The connection goes back to the pool. *)
Return(p) ==
    /\ pc[p] = "done"
    /\ Goto(p, "idle")
    /\ reply' = [reply EXCEPT ![p] = "none"]
    /\ call' = [call EXCEPT ![p] = <<>>]
    /\ seen' = [seen EXCEPT ![p] = 0]
    /\ UNCHANGED <<balance, ledger, lock, insert>>

Next ==
    \E p \in Proc :
        \/ \E c \in Call : Begin(p, c)
        \/ LockMember(p)
        \/ CheckCharge(p)
        \/ Write(p)
        \/ Commit(p)
        \/ Rollback(p)
        \/ FindDuplicate(p)
        \/ Return(p)

(* The statements of a call follow one another.  PostgreSQL queues the     *)
(* waiters of a row lock, so a waiter is served: strong fairness.          *)
Fairness ==
    \A p \in Proc :
        /\ SF_vars(LockMember(p))
        /\ WF_vars(CheckCharge(p))
        /\ WF_vars(Write(p))
        /\ WF_vars(Commit(p))
        /\ WF_vars(FindDuplicate(p))

Spec == Init /\ [][Next]_vars

FairSpec == Spec /\ Fairness
-----------------------------------------------------------------------------
TypeOK ==
    /\ balance \in [Member -> Int]
    /\ ledger \in [Member -> Seq(Row)]
    /\ lock \in [Member -> Proc \union {NoProc}]
    /\ pc \in [Proc -> {"idle", "lock", "duplicate", "done"} \union InTransaction]
    /\ call \in [Proc -> Call \union {<<>>}]
    /\ seen \in [Proc -> Int]
    /\ insert \in [Proc -> Seq(Row)]
    /\ reply \in [Proc -> {"none", "granted", "duplicate", "charged", "refused",
                           "ValueError", "IntegrityError", "error"}]

(* The cached balance is the last ledger row's balance_after, and each     *)
(* row's balance_after continues its predecessor's: the cache and the      *)
(* history screen never disagree with the ledger (credits.py:1, ERD        *)
(* credit_ledger.balance_after).  A lost update between two calls breaks it.*)
BalanceFollowsLedger ==
    \A m \in Member :
        LET L == ledger[m]
            After(i) == IF i = 0 THEN 0 ELSE L[i].balance_after
        IN  /\ \A i \in 1 .. Len(L) :
                   L[i].balance_after = After(i - 1) + L[i].amount
            /\ balance[m] = After(Len(L))

(* A dedupe key is posted once per member, whatever the retries and the    *)
(* overlapping calls.                                                      *)
KeyPostedOnce ==
    \A m \in Member : \A i, j \in 1 .. Len(ledger[m]) :
        ledger[m][i].key = ledger[m][j].key => i = j

(* A charge never takes the balance below zero: the cover it checked is    *)
(* still there when it commits (04-erd: charge iff credit_balance >= cost).*)
ChargeCovered ==
    \A m \in Member : \A i \in 1 .. Len(ledger[m]) :
        ledger[m][i].key \in ChargeKey =>
            ledger[m][i].amount < 0 /\ ledger[m][i].balance_after >= 0

(* grant_credits answers True only for the call whose row was written:     *)
(* of two grants of one key, one True and the others False.                *)
TrueMeansPosted ==
    [][\A p \in Proc :
          pc[p] = "commit" /\ pc'[p] = "done" /\ reply'[p] = "granted" =>
              /\ call[p].key \notin Posted(call[p].member)
              /\ call[p].key \in Posted(call[p].member)']_vars

(* An answer of True or False (already granted) is never given for a key   *)
(* the ledger does not hold: FindDuplicate runs after the rollback, when   *)
(* another call could have been expected to undo its own insert.           *)
AnswerHasRow ==
    \A p \in Proc :
        pc[p] = "done" /\ reply[p] \in {"granted", "charged", "duplicate"} =>
            call[p].key \in Posted(call[p].member)

(* Every call that waits for a member row is answered. *)
CallsAnswered == \A p \in Proc : pc[p] = "lock" ~> pc[p] = "done"

(* The program keeps the promise of Ledger.tla. *)
Abstract == INSTANCE Ledger WITH posted <- [m \in Member |-> Posted(m)]

KeepsLedger == Abstract!Spec
=============================================================================
