---------------------------- MODULE CreditsProofs ---------------------------
(***************************************************************************)
(* Theorems about Credits.tla, for every set of members, connections, keys *)
(* and amounts.                                                            *)
(*                                                                         *)
(* The argument is the row lock.  Only the holder of a member's row is     *)
(* inside a transaction on it (LockDiscipline), so nobody else can commit  *)
(* to that member's book before it does: the balance it read is still the  *)
(* balance (SeenIsCurrent) and the key it did not find is still absent     *)
(* (InsertIsFresh).  The commit therefore extends the book by the right    *)
(* row.                                                                    *)
(***************************************************************************)
EXTENDS Credits, TLAPS

CallKnown == \A p \in Proc : pc[p] # "idle" => call[p] \in Call

LockDiscipline ==
    \A p \in Proc : pc[p] \in InTransaction => lock[call[p].member] = p

SeenIsCurrent ==
    \A p \in Proc : pc[p] \in InTransaction => seen[p] = balance[call[p].member]

(* A charge in a transaction has a positive cost, and is covered once it   *)
(* has passed its check.                                                   *)
ChargeChecked ==
    \A p \in Proc : call[p] \in Call /\ call[p].op = "charge" =>
        /\ pc[p] \in {"lock", "check", "write"} => call[p].delta > 0
        /\ pc[p] = "write" => seen[p] >= call[p].delta

InsertIsFresh ==
    \A p \in Proc : insert[p] # <<>> =>
        /\ pc[p] = "commit"
        /\ insert[p] = <<[key |-> call[p].key, amount |-> Amount(call[p]),
                          balance_after |-> seen[p] + Amount(call[p])]>>
        /\ call[p].key \notin Posted(call[p].member)
        /\ call[p].op = "charge" =>
               call[p].delta > 0 /\ seen[p] >= call[p].delta

(* What a call about to commit will answer. *)
ReplyPrepared ==
    \A p \in Proc : pc[p] = "commit" =>
        /\ reply[p] = "granted" => insert[p] # <<>>
        /\ reply[p] = "charged" =>
               insert[p] # <<>> \/ call[p].key \in Posted(call[p].member)
        /\ reply[p] # "duplicate"

IInv ==
    /\ TypeOK
    /\ CallKnown
    /\ LockDiscipline
    /\ SeenIsCurrent
    /\ ChargeChecked
    /\ InsertIsFresh
    /\ ReplyPrepared
    /\ BalanceFollowsLedger
    /\ KeyPostedOnce
    /\ ChargeCovered
    /\ AnswerHasRow
-----------------------------------------------------------------------------
(* The record a write inserts is a ledger row. *)
LEMMA InsertedIsRow ==
    ASSUME CreditsAssumption, NEW c \in Call, NEW b \in Int
    PROVE  /\ Amount(c) \in Int
           /\ [key |-> c.key, amount |-> Amount(c),
               balance_after |-> b + Amount(c)] \in Row
  <1>1. c.delta \in Int /\ c.key \in Key
    BY DEF CreditsAssumption, Call
  <1>2. Amount(c) \in Int
    BY <1>1 DEF Amount
  <1> QED
    BY <1>1, <1>2 DEF Row

(* Appending a row to a book adds its key to the keys posted. *)
LEMMA PostedAppend ==
    ASSUME NEW L, NEW row \in Row, L \in Seq(Row)
    PROVE  KeysOf(Append(L, row)) = KeysOf(L) \union {row.key}
  <1>1. Len(Append(L, row)) = Len(L) + 1 /\ Len(L) \in Nat
    OBVIOUS
  <1>2. \A i \in 1 .. Len(L) : Append(L, row)[i] = L[i]
    OBVIOUS
  <1>3. Append(L, row)[Len(L) + 1] = row
    OBVIOUS
  <1> QED
    BY <1>1, <1>2, <1>3 DEF KeysOf

LEMMA TypeInit == Init => TypeOK
  BY DEF Init, TypeOK, InTransaction

(* Types are preserved by every action. *)
LEMMA TypeStep ==
    ASSUME CreditsAssumption, TypeOK, CallKnown, [Next]_vars
    PROVE  TypeOK' /\ CallKnown'
  <1> USE DEF TypeOK, CallKnown, Goto, Answer, Unlock, InTransaction
  <1>0. <<>> \in Seq(Row)
    OBVIOUS
  <1>1. ASSUME NEW p \in Proc, NEW c \in Call, Begin(p, c)
        PROVE  TypeOK' /\ CallKnown'
    BY <1>1 DEF Begin
  <1>2. ASSUME NEW p \in Proc, LockMember(p)
        PROVE  TypeOK' /\ CallKnown'
    <2>1. call[p] \in Call
      BY <1>2 DEF LockMember
    <2>2. call[p].member \in Member
      BY <2>1 DEF Call
    <2> QED
      BY <1>2, <2>1, <2>2 DEF LockMember
  <1>3. ASSUME NEW p \in Proc, CheckCharge(p)
        PROVE  TypeOK' /\ CallKnown'
    BY <1>3 DEF CheckCharge
  <1>4. ASSUME NEW p \in Proc, Write(p)
        PROVE  TypeOK' /\ CallKnown'
    <2>1. call[p] \in Call
      BY <1>4 DEF Write
    <2>2. [key |-> call[p].key, amount |-> Amount(call[p]),
           balance_after |-> seen[p] + Amount(call[p])] \in Row
      BY <2>1, InsertedIsRow
    <2>3. insert' \in [Proc -> Seq(Row)]
      <3>1. <<[key |-> call[p].key, amount |-> Amount(call[p]),
               balance_after |-> seen[p] + Amount(call[p])]>> \in Seq(Row)
        BY <2>2
      <3> QED
        BY <1>4, <3>1 DEF Write, NewRow
    <2>4. reply' \in [Proc -> {"none", "granted", "duplicate", "charged", "refused",
                               "ValueError", "IntegrityError", "error"}]
      BY <1>4 DEF Write
    <2>5. lock' \in [Member -> Proc \union {NoProc}]
      BY <1>4 DEF Write
    <2>6. pc' \in [Proc -> {"idle", "lock", "duplicate", "done"} \union InTransaction]
      BY <1>4 DEF Write
    <2> QED
      BY <1>4, <2>1, <2>3, <2>4, <2>5, <2>6 DEF Write, NewRow
  <1>5. ASSUME NEW p \in Proc, Commit(p)
        PROVE  TypeOK' /\ CallKnown'
    <2>1. call[p] \in Call
      BY <1>5 DEF Commit
    <2>2. ASSUME insert[p] # <<>>
          PROVE  insert[p][1] \in Row /\ insert[p][1].balance_after \in Int
      <3>1. insert[p] \in Seq(Row)
        OBVIOUS
      <3>2. insert[p][1] \in Row
        BY <3>1, <2>2
      <3> QED
        BY <3>2 DEF Row
    <2>3. balance' \in [Member -> Int] /\ ledger' \in [Member -> Seq(Row)]
      <3>1. CASE insert[p] = <<>>
        BY <1>5, <3>1 DEF Commit
      <3>2. CASE insert[p] # <<>>
        <4> DEFINE m == call[p].member
        <4>1. balance' = [balance EXCEPT ![m] = insert[p][1].balance_after]
          BY <1>5, <3>2 DEF Commit
        <4>2. ledger' = [ledger EXCEPT ![m] = Append(@, insert[p][1])]
          BY <1>5, <3>2 DEF Commit
        <4>3. \A L \in Seq(Row) : Append(L, insert[p][1]) \in Seq(Row)
          BY <2>2, <3>2
        <4> QED
          BY <2>2, <3>2, <4>1, <4>2, <4>3
      <3> QED
        BY <3>1, <3>2
    <2> QED
      BY <1>0, <1>5, <2>1, <2>3 DEF Commit
  <1>6. ASSUME NEW p \in Proc, Rollback(p)
        PROVE  TypeOK' /\ CallKnown'
    BY <1>0, <1>6 DEF Rollback
  <1>7. ASSUME NEW p \in Proc, FindDuplicate(p)
        PROVE  TypeOK' /\ CallKnown'
    BY <1>7 DEF FindDuplicate
  <1>8. ASSUME NEW p \in Proc, Return(p)
        PROVE  TypeOK' /\ CallKnown'
    BY <1>8 DEF Return
  <1>9. CASE UNCHANGED vars
    BY <1>9 DEF vars
  <1> QED
    BY <1>1, <1>2, <1>3, <1>4, <1>5, <1>6, <1>7, <1>8, <1>9 DEF Next

(* The actions that commit nothing keep the books as they are. *)
LEMMA BooksUnchanged ==
    ASSUME BalanceFollowsLedger, KeyPostedOnce, ChargeCovered,
           UNCHANGED <<balance, ledger>>
    PROVE  /\ BalanceFollowsLedger' /\ KeyPostedOnce' /\ ChargeCovered'
           /\ \A m : Posted(m)' = Posted(m)
  BY DEF BalanceFollowsLedger, KeyPostedOnce, ChargeCovered, Posted

LEMMA BeginStep ==
    ASSUME CreditsAssumption, IInv, NEW p \in Proc, NEW c \in Call, Begin(p, c)
    PROVE  /\ LockDiscipline' /\ SeenIsCurrent' /\ ChargeChecked'
           /\ InsertIsFresh' /\ ReplyPrepared' /\ AnswerHasRow'
  <1> USE DEF IInv, TypeOK, Begin, Goto, Answer, InTransaction
  <1>0. /\ \A q \in Proc \ {p} : pc'[q] = pc[q] /\ call'[q] = call[q] /\ reply'[q] = reply[q]
        /\ seen' = seen /\ insert' = insert /\ UNCHANGED <<balance, ledger, lock>>
        /\ pc[p] = "idle" /\ call'[p] = c
    OBVIOUS
  <1>1. pc'[p] \in {"lock", "done"}
    OBVIOUS
  <1>2. pc'[p] = "done" => reply'[p] \in {"ValueError", "refused"}
    OBVIOUS
  <1>3. c.op = "charge" /\ pc'[p] = "lock" => c.delta > 0
    <2>1. c.delta \in Int
      BY DEF Call, CreditsAssumption
    <2> QED
      BY <2>1
  <1>4. \A m : Posted(m)' = Posted(m)
    BY <1>0 DEF Posted
  <1>5. insert[p] = <<>>
    BY <1>0 DEF InsertIsFresh
  <1>6. LockDiscipline' /\ SeenIsCurrent'
    BY <1>0, <1>1 DEF LockDiscipline, SeenIsCurrent
  <1>7. ChargeChecked'
    BY <1>0, <1>1, <1>3 DEF ChargeChecked
  <1>8. InsertIsFresh'
    BY <1>0, <1>4, <1>5 DEF InsertIsFresh
  <1>9. ReplyPrepared' /\ AnswerHasRow'
    BY <1>0, <1>1, <1>2, <1>4 DEF ReplyPrepared, AnswerHasRow
  <1> QED
    BY <1>6, <1>7, <1>8, <1>9

LEMMA LockMemberStep ==
    ASSUME CreditsAssumption, IInv, NEW p \in Proc, LockMember(p)
    PROVE  /\ LockDiscipline' /\ SeenIsCurrent' /\ ChargeChecked'
           /\ InsertIsFresh' /\ ReplyPrepared' /\ AnswerHasRow'
  <1> USE DEF IInv, TypeOK, LockMember, Goto, InTransaction
  <1> DEFINE m == call[p].member
  <1>0. /\ \A q \in Proc \ {p} : pc'[q] = pc[q] /\ seen'[q] = seen[q]
        /\ UNCHANGED <<balance, ledger, call, insert, reply>>
        /\ pc[p] = "lock" /\ lock[m] = NoProc
    OBVIOUS
  <1>1. pc'[p] = IF call[p].op = "charge" THEN "check" ELSE "write"
    OBVIOUS
  <1>2. call[p] \in Call
    BY <1>0 DEF CallKnown
  <1>3. m \in Member
    BY <1>2 DEF Call
  <1>4. seen'[p] = balance[m] /\ lock'[m] = p
        /\ \A n \in Member \ {m} : lock'[n] = lock[n]
    BY <1>3
  <1>5. \A r : Posted(r)' = Posted(r)
    BY <1>0 DEF Posted
  <1>6. \A q \in Proc \ {p} : pc[q] \in InTransaction =>
            /\ call[q].member # m
            /\ call[q].member \in Member
    <2> TAKE q \in Proc \ {p}
    <2> HAVE pc[q] \in InTransaction
    <2>1. lock[call[q].member] = q /\ call[q] \in Call
      BY DEF LockDiscipline, CallKnown
    <2>2. call[q].member \in Member
      BY <2>1 DEF Call
    <2> QED
      BY <1>0, <2>1, <2>2 DEF CreditsAssumption
  <1>7. LockDiscipline' /\ SeenIsCurrent'
    BY <1>0, <1>1, <1>4, <1>6 DEF LockDiscipline, SeenIsCurrent
  <1>8. ChargeChecked'
    BY <1>0, <1>1 DEF ChargeChecked
  <1>9. InsertIsFresh'
    <2>1. insert[p] = <<>>
      BY <1>0 DEF InsertIsFresh
    <2> QED
      BY <1>0, <1>5, <2>1 DEF InsertIsFresh
  <1>10. ReplyPrepared' /\ AnswerHasRow'
    BY <1>0, <1>1, <1>5 DEF ReplyPrepared, AnswerHasRow
  <1> QED
    BY <1>7, <1>8, <1>9, <1>10

LEMMA CheckChargeStep ==
    ASSUME CreditsAssumption, IInv, NEW p \in Proc, CheckCharge(p)
    PROVE  /\ LockDiscipline' /\ SeenIsCurrent' /\ ChargeChecked'
           /\ InsertIsFresh' /\ ReplyPrepared' /\ AnswerHasRow'
  <1> USE DEF IInv, TypeOK, CheckCharge, Covered, Goto, InTransaction
  <1>0. /\ \A q \in Proc \ {p} : pc'[q] = pc[q] /\ reply'[q] = reply[q]
        /\ UNCHANGED <<balance, ledger, lock, call, seen, insert>>
        /\ pc[p] = "check"
    OBVIOUS
  <1>1. \/ pc'[p] = "write" /\ seen[p] >= call[p].delta
        \/ pc'[p] = "commit" /\ reply'[p] = "refused"
        \/ /\ pc'[p] = "commit" /\ reply'[p] = "charged"
           /\ call[p].key \in Posted(call[p].member)
    OBVIOUS
  <1>2. \A r : Posted(r)' = Posted(r)
    BY <1>0 DEF Posted
  <1>3. insert[p] = <<>>
    BY <1>0 DEF InsertIsFresh
  <1>4. LockDiscipline' /\ SeenIsCurrent'
    BY <1>0, <1>1 DEF LockDiscipline, SeenIsCurrent
  <1>5. ChargeChecked'
    BY <1>0, <1>1 DEF ChargeChecked
  <1>6. InsertIsFresh'
    BY <1>0, <1>2, <1>3 DEF InsertIsFresh
  <1>7. ReplyPrepared' /\ AnswerHasRow'
    BY <1>0, <1>1, <1>2 DEF ReplyPrepared, AnswerHasRow
  <1> QED
    BY <1>4, <1>5, <1>6, <1>7

LEMMA WriteStep ==
    ASSUME CreditsAssumption, IInv, NEW p \in Proc, Write(p)
    PROVE  /\ LockDiscipline' /\ SeenIsCurrent' /\ ChargeChecked'
           /\ InsertIsFresh' /\ ReplyPrepared' /\ AnswerHasRow'
  <1> USE DEF IInv, TypeOK, Write, NewRow, Goto, Answer, Unlock, InTransaction
  <1> DEFINE row == [key |-> call[p].key, amount |-> Amount(call[p]),
                     balance_after |-> seen[p] + Amount(call[p])]
             m == call[p].member
  <1>0. /\ \A q \in Proc \ {p} : /\ pc'[q] = pc[q] /\ reply'[q] = reply[q]
                                 /\ insert'[q] = insert[q]
        /\ UNCHANGED <<balance, ledger, call, seen>>
        /\ pc[p] = "write"
    OBVIOUS
  <1>1. \/ /\ pc'[p] \in {"duplicate", "done"}
           /\ pc'[p] = "done" => reply'[p] = "IntegrityError"
           /\ lock' = [lock EXCEPT ![m] = NoProc]
           /\ insert' = insert
        \/ /\ pc'[p] = "commit" /\ reply'[p] \in {"granted", "charged"}
           /\ lock' = lock
           /\ insert'[p] = <<row>>
           /\ call[p].key \notin Posted(m)
    OBVIOUS
  <1>2. \A r : Posted(r)' = Posted(r)
    BY <1>0 DEF Posted
  <1>3. insert[p] = <<>> /\ call[p] \in Call
    BY <1>0 DEF InsertIsFresh, CallKnown
  <1>4. m \in Member
    BY <1>3 DEF Call
  <1>5. \A q \in Proc \ {p} : pc[q] \in InTransaction =>
            /\ call[q].member # m
            /\ call[q].member \in Member
    <2> TAKE q \in Proc \ {p}
    <2> HAVE pc[q] \in InTransaction
    <2>1. lock[call[q].member] = q /\ call[q] \in Call /\ lock[m] = p
      BY <1>0 DEF LockDiscipline, CallKnown
    <2>2. call[q].member \in Member
      BY <2>1 DEF Call
    <2> QED
      BY <2>1, <2>2
  <1>6. LockDiscipline' /\ SeenIsCurrent'
    BY <1>0, <1>1, <1>4, <1>5 DEF LockDiscipline, SeenIsCurrent
  <1>7. ChargeChecked'
    BY <1>0, <1>1 DEF ChargeChecked
  <1>8. InsertIsFresh'
    <2>1. call[p].op = "charge" => call[p].delta > 0 /\ seen[p] >= call[p].delta
      BY <1>0, <1>3 DEF ChargeChecked
    <2>2. CASE insert'[p] = <<>>
      BY <1>0, <1>2, <2>2 DEF InsertIsFresh
    <2>3. CASE insert'[p] = <<row>> /\ pc'[p] = "commit" /\ call[p].key \notin Posted(m)
      <3>1. Amount(call[p])' = Amount(call[p])
        BY <1>0 DEF Amount
      <3> QED
        BY <1>0, <1>2, <2>1, <2>3, <3>1 DEF InsertIsFresh
    <2> QED
      BY <1>1, <1>3, <2>2, <2>3
  <1>9. ReplyPrepared' /\ AnswerHasRow'
    <2>0. <<row>> # <<>>
      OBVIOUS
    <2>1. pc'[p] = "commit" => insert'[p] # <<>> /\ reply'[p] # "duplicate"
      BY <1>1, <2>0
    <2>2. pc'[p] = "done" => reply'[p] = "IntegrityError"
      BY <1>1
    <2>3. ReplyPrepared'
      BY <1>0, <1>2, <2>1 DEF ReplyPrepared
    <2>4. AnswerHasRow'
      BY <1>0, <1>2, <2>2 DEF AnswerHasRow
    <2> QED
      BY <2>3, <2>4
  <1> QED
    BY <1>6, <1>7, <1>8, <1>9

(* The commit: nobody else is inside a transaction on this member's row. *)
(* What a commit does: nobody else is in a transaction on the member, and  *)
(* the member's book grows by the row the call prepared, or not at all.    *)
LEMMA CommitEffect ==
    ASSUME CreditsAssumption, IInv, NEW p \in Proc, Commit(p)
    PROVE  /\ call[p] \in Call /\ lock[call[p].member] = p /\ seen[p] = balance[call[p].member]
           /\ call[p].member \in Member /\ call[p].key \in Key
           /\ \A q \in Proc \ {p} : pc[q] \in InTransaction =>
                  /\ call[q].member # call[p].member
                  /\ call[q].member \in Member
           /\ ledger[call[p].member] \in Seq(Row)
           /\ insert[p] # <<>> =>
                  /\ insert[p][1] = [key |-> call[p].key, amount |-> Amount(call[p]),
                            balance_after |-> seen[p] + Amount(call[p])]
                  /\ insert[p][1] \in Row
                  /\ insert[p][1].key = call[p].key /\ insert[p][1].key \notin Posted(call[p].member)
                  /\ insert[p][1].balance_after = balance[call[p].member] + insert[p][1].amount
                  /\ call[p].op = "charge" => insert[p][1].amount < 0 /\ insert[p][1].balance_after >= 0
                  /\ ledger' = [ledger EXCEPT ![call[p].member] = Append(ledger[call[p].member], insert[p][1])]
                  /\ balance' = [balance EXCEPT ![call[p].member] = insert[p][1].balance_after]
           /\ \A n \in Member \ {call[p].member} : Posted(n)' = Posted(n) /\ balance'[n] = balance[n]
                                      /\ ledger'[n] = ledger[n]
           /\ insert[p] = <<>> => /\ Posted(call[p].member)' = Posted(call[p].member) /\ ledger'[call[p].member] = ledger[call[p].member]
                                  /\ balance'[call[p].member] = balance[call[p].member]
           /\ insert[p] # <<>> => /\ Posted(call[p].member)' = Posted(call[p].member) \union {call[p].key}
                                  /\ ledger'[call[p].member] = Append(ledger[call[p].member], insert[p][1])
                                  /\ balance'[call[p].member] = insert[p][1].balance_after
  <1> USE DEF IInv, TypeOK, Commit, Goto, Unlock, InTransaction
  <1> DEFINE m == call[p].member
             L == ledger[m]
             row == insert[p][1]
  <1>0. /\ \A q \in Proc \ {p} : pc'[q] = pc[q] /\ insert'[q] = insert[q]
        /\ UNCHANGED <<call, seen, reply>>
        /\ pc[p] = "commit" /\ pc'[p] = "done" /\ insert'[p] = <<>>
        /\ lock' = [lock EXCEPT ![m] = NoProc]
    OBVIOUS
  <1>1. call[p] \in Call /\ lock[m] = p /\ seen[p] = balance[m]
    BY <1>0 DEF CallKnown, LockDiscipline, SeenIsCurrent
  <1>2. m \in Member /\ call[p].key \in Key
    BY <1>1 DEF Call
  <1>3. \A q \in Proc \ {p} : pc[q] \in InTransaction =>
            /\ call[q].member # m
            /\ call[q].member \in Member
    <2> TAKE q \in Proc \ {p}
    <2> HAVE pc[q] \in InTransaction
    <2>1. lock[call[q].member] = q /\ call[q] \in Call
      BY DEF LockDiscipline, CallKnown
    <2>2. call[q].member \in Member
      BY <2>1 DEF Call
    <2> QED
      BY <1>1, <2>1, <2>2
  <1>4. L \in Seq(Row)
    BY <1>2
  <1>5. ASSUME insert[p] # <<>>
        PROVE  /\ row = [key |-> call[p].key, amount |-> Amount(call[p]),
                         balance_after |-> seen[p] + Amount(call[p])]
               /\ row \in Row
               /\ row.key = call[p].key /\ row.key \notin Posted(m)
               /\ row.balance_after = balance[m] + row.amount
               /\ call[p].op = "charge" => row.amount < 0 /\ row.balance_after >= 0
               /\ ledger' = [ledger EXCEPT ![m] = Append(L, row)]
               /\ balance' = [balance EXCEPT ![m] = row.balance_after]
    <2>1. /\ insert[p] = <<[key |-> call[p].key, amount |-> Amount(call[p]),
                            balance_after |-> seen[p] + Amount(call[p])]>>
          /\ call[p].key \notin Posted(m)
          /\ call[p].op = "charge" =>
                 call[p].delta > 0 /\ seen[p] >= call[p].delta
      BY <1>5 DEF InsertIsFresh
    <2>2. row = [key |-> call[p].key, amount |-> Amount(call[p]),
                 balance_after |-> seen[p] + Amount(call[p])]
      BY <2>1
    <2>3. row \in Row /\ Amount(call[p]) \in Int
      BY <1>1, <2>2, InsertedIsRow
    <2>4. call[p].op = "charge" => Amount(call[p]) = -call[p].delta
      BY DEF Amount
    <2>5. call[p].delta \in Int /\ seen[p] \in Int
      BY <1>1 DEF Call, CreditsAssumption
    <2>6. call[p].op = "charge" => row.amount < 0 /\ row.balance_after >= 0
      BY <2>1, <2>2, <2>4, <2>5
    <2> QED
      BY <1>1, <1>5, <2>1, <2>2, <2>3, <2>6
  <1>6. /\ \A n \in Member \ {m} : Posted(n)' = Posted(n) /\ balance'[n] = balance[n]
                                   /\ ledger'[n] = ledger[n]
        /\ insert[p] = <<>> => /\ Posted(m)' = Posted(m) /\ ledger'[m] = L
                               /\ balance'[m] = balance[m]
        /\ insert[p] # <<>> => /\ Posted(m)' = Posted(m) \union {call[p].key}
                               /\ ledger'[m] = Append(L, row)
                               /\ balance'[m] = row.balance_after
    <2>1. CASE insert[p] = <<>>
      BY <2>1 DEF Posted
    <2>2. CASE insert[p] # <<>>
      <3>1. ledger'[m] = Append(L, row) /\ balance'[m] = row.balance_after
            /\ \A n \in Member \ {m} : balance'[n] = balance[n] /\ ledger'[n] = ledger[n]
        BY <1>2, <1>5, <2>2
      <3>2. Posted(m)' = Posted(m) \union {call[p].key}
        <4>1. Posted(m)' = KeysOf(ledger'[m]) /\ Posted(m) = KeysOf(L)
          BY <1>0 DEF Posted
        <4>2. KeysOf(Append(L, row)) = KeysOf(L) \union {row.key}
          BY <1>4, <1>5, <2>2, PostedAppend
        <4> QED
          BY <1>5, <2>2, <3>1, <4>1, <4>2
      <3>3. \A n \in Member \ {m} : Posted(n)' = Posted(n)
        BY <3>1 DEF Posted
      <3> QED
        BY <2>2, <3>1, <3>2, <3>3
    <2> QED
      BY <2>1, <2>2
  <1> QED
    BY <1>1, <1>2, <1>3, <1>4, <1>5, <1>6

LEMMA CommitStep ==
    ASSUME CreditsAssumption, IInv, NEW p \in Proc, Commit(p)
    PROVE  /\ LockDiscipline' /\ SeenIsCurrent' /\ ChargeChecked'
           /\ InsertIsFresh' /\ ReplyPrepared' /\ AnswerHasRow'
           /\ BalanceFollowsLedger' /\ KeyPostedOnce' /\ ChargeCovered'
  <1> USE DEF IInv, TypeOK, Commit, Goto, Unlock, InTransaction
  <1> DEFINE m == call[p].member
             L == ledger[m]
             row == insert[p][1]
  <1>0. /\ \A q \in Proc \ {p} : pc'[q] = pc[q] /\ insert'[q] = insert[q]
        /\ UNCHANGED <<call, seen, reply>>
        /\ pc[p] = "commit" /\ pc'[p] = "done" /\ insert'[p] = <<>>
        /\ lock' = [lock EXCEPT ![m] = NoProc]
    OBVIOUS
  <1>1. call[p] \in Call /\ lock[m] = p /\ seen[p] = balance[m]
    BY CommitEffect
  <1>2. m \in Member /\ call[p].key \in Key
    BY CommitEffect
  <1>3. \A q \in Proc \ {p} : pc[q] \in InTransaction =>
            /\ call[q].member # m
            /\ call[q].member \in Member
    BY CommitEffect
  <1>4. L \in Seq(Row)
    BY CommitEffect
  <1>5. ASSUME insert[p] # <<>>
        PROVE  /\ row = [key |-> call[p].key, amount |-> Amount(call[p]),
                         balance_after |-> seen[p] + Amount(call[p])]
               /\ row \in Row
               /\ row.key = call[p].key /\ row.key \notin Posted(m)
               /\ row.balance_after = balance[m] + row.amount
               /\ call[p].op = "charge" => row.amount < 0 /\ row.balance_after >= 0
               /\ ledger' = [ledger EXCEPT ![m] = Append(L, row)]
               /\ balance' = [balance EXCEPT ![m] = row.balance_after]
    BY <1>5, CommitEffect
  <1>6. /\ \A n \in Member \ {m} : Posted(n)' = Posted(n) /\ balance'[n] = balance[n]
                                   /\ ledger'[n] = ledger[n]
        /\ insert[p] = <<>> => /\ Posted(m)' = Posted(m) /\ ledger'[m] = L
                               /\ balance'[m] = balance[m]
        /\ insert[p] # <<>> => /\ Posted(m)' = Posted(m) \union {call[p].key}
                               /\ ledger'[m] = Append(L, row)
                               /\ balance'[m] = row.balance_after
    BY CommitEffect
  <1>7. LockDiscipline' /\ SeenIsCurrent'
    BY <1>0, <1>2, <1>3, <1>6 DEF LockDiscipline, SeenIsCurrent
  <1>8. ChargeChecked'
    BY <1>0 DEF ChargeChecked
  <1>9. InsertIsFresh'
    <2> SUFFICES ASSUME NEW q \in Proc, insert'[q] # <<>>
                 PROVE  /\ pc'[q] = "commit"
                        /\ insert'[q] = <<[key |-> call[q].key, amount |-> Amount(call[q]),
                                 balance_after |-> seen[q] + Amount(call[q])]>>
                        /\ call[q].key \notin Posted(call[q].member)'
                        /\ call[q].op = "charge" =>
                               call[q].delta > 0 /\ seen[q] >= call[q].delta
      BY <1>0 DEF InsertIsFresh, Amount
    <2>1. q # p /\ insert[q] # <<>> /\ insert'[q] = insert[q]
      BY <1>0
    <2>2. pc[q] = "commit"
      BY <2>1 DEF InsertIsFresh
    <2>3. Posted(call[q].member)' = Posted(call[q].member)
      <3>1. call[q].member \in Member \ {m} /\ call'[q] = call[q]
        BY <1>0, <1>3, <2>1, <2>2
      <3> QED
        BY <1>6, <3>1
    <2> QED
      BY <1>0, <2>1, <2>2, <2>3 DEF InsertIsFresh
  <1>10. ReplyPrepared'
    <2> SUFFICES ASSUME NEW q \in Proc, pc'[q] = "commit"
                 PROVE  /\ reply[q] = "granted" => insert'[q] # <<>>
                        /\ reply[q] = "charged" =>
                               insert'[q] # <<>> \/ call[q].key \in Posted(call[q].member)'
                        /\ reply[q] # "duplicate"
      BY <1>0 DEF ReplyPrepared
    <2>1. q # p /\ pc[q] = "commit" /\ insert'[q] = insert[q]
      BY <1>0
    <2>2. Posted(call[q].member)' = Posted(call[q].member)
      <3>1. call[q].member \in Member \ {m} /\ call'[q] = call[q]
        BY <1>0, <1>3, <2>1
      <3> QED
        BY <1>6, <3>1
    <2> QED
      BY <2>1, <2>2 DEF ReplyPrepared
  <1>11. AnswerHasRow'
    <2> SUFFICES ASSUME NEW q \in Proc, pc'[q] = "done",
                        reply[q] \in {"granted", "charged", "duplicate"}
                 PROVE  call[q].key \in Posted(call[q].member)'
      BY <1>0 DEF AnswerHasRow
    <2>1. \A n \in Member : Posted(n) \subseteq Posted(n)'
      BY <1>6
    <2>2. CASE q = p
      BY <1>0, <1>2, <1>6, <2>1, <2>2 DEF ReplyPrepared
    <2>3. CASE q # p
      <3>1. pc[q] = "done" /\ call[q] \in Call
        BY <1>0, <2>3 DEF CallKnown
      <3>2. call[q].member \in Member
        BY <3>1 DEF Call
      <3> QED
        BY <2>1, <3>1, <3>2 DEF AnswerHasRow
    <2> QED
      BY <2>2, <2>3
  <1>12. BalanceFollowsLedger'
    <2> SUFFICES ASSUME NEW n \in Member
                 PROVE  (/\ \A i \in 1 .. Len(ledger[n]) :
                               ledger[n][i].balance_after =
                                   (IF i - 1 = 0 THEN 0 ELSE ledger[n][i - 1].balance_after)
                                     + ledger[n][i].amount
                         /\ balance[n] = IF Len(ledger[n]) = 0 THEN 0
                                         ELSE ledger[n][Len(ledger[n])].balance_after)'
      BY DEF BalanceFollowsLedger
    <2>1. CASE n # m \/ insert[p] = <<>>
      <3>1. ledger'[n] = ledger[n] /\ balance'[n] = balance[n]
        BY <1>6, <2>1
      <3> QED
        BY <3>1 DEF BalanceFollowsLedger
    <2>2. CASE n = m /\ insert[p] # <<>>
      <3>1. ledger'[n] = Append(L, row) /\ balance'[n] = row.balance_after
        BY <1>6, <2>2
      <3>2. row \in Row /\ row.balance_after = balance[m] + row.amount
        BY <1>5, <2>2
      <3>3. /\ \A i \in 1 .. Len(L) :
                   L[i].balance_after =
                       (IF i - 1 = 0 THEN 0 ELSE L[i - 1].balance_after) + L[i].amount
            /\ balance[m] = IF Len(L) = 0 THEN 0 ELSE L[Len(L)].balance_after
        BY <1>2 DEF BalanceFollowsLedger
      <3>4. /\ Len(Append(L, row)) = Len(L) + 1 /\ Len(L) \in Nat
            /\ \A i \in 1 .. Len(L) : Append(L, row)[i] = L[i]
            /\ Append(L, row)[Len(L) + 1] = row
        BY <1>4, <3>2
      <3> HIDE DEF L, row
      <3> QED
        BY <3>1, <3>2, <3>3, <3>4
    <2> QED
      BY <2>1, <2>2
  <1>13. KeyPostedOnce' /\ ChargeCovered'
    <2> SUFFICES ASSUME NEW n \in Member
                 PROVE  (/\ \A i, j \in 1 .. Len(ledger[n]) :
                                ledger[n][i].key = ledger[n][j].key => i = j
                         /\ \A i \in 1 .. Len(ledger[n]) :
                                ledger[n][i].key \in ChargeKey =>
                                    ledger[n][i].amount < 0 /\ ledger[n][i].balance_after >= 0)'
      BY DEF KeyPostedOnce, ChargeCovered
    <2>1. CASE n # m \/ insert[p] = <<>>
      <3>1. ledger'[n] = ledger[n]
        BY <1>6, <2>1
      <3> QED
        BY <3>1 DEF KeyPostedOnce, ChargeCovered
    <2>2. CASE n = m /\ insert[p] # <<>>
      <3>1. ledger'[n] = Append(L, row)
        BY <1>6, <2>2
      <3>2. /\ row \in Row /\ row.key = call[p].key /\ row.key \notin Posted(m)
            /\ call[p].op = "charge" => row.amount < 0 /\ row.balance_after >= 0
        BY <1>5, <2>2
      <3>3. \A i \in 1 .. Len(L) : L[i].key # row.key
        BY <3>2 DEF Posted, KeysOf
      <3>4. row.key \in ChargeKey => row.amount < 0 /\ row.balance_after >= 0
        BY <1>1, <3>2 DEF Call
      <3>5. /\ \A i, j \in 1 .. Len(L) : L[i].key = L[j].key => i = j
            /\ \A i \in 1 .. Len(L) : L[i].key \in ChargeKey =>
                                          L[i].amount < 0 /\ L[i].balance_after >= 0
        BY <1>2 DEF KeyPostedOnce, ChargeCovered
      <3> DEFINE A == Append(L, row)
                 l == Len(L)
      <3>6. /\ Len(A) = l + 1 /\ l \in Nat
            /\ \A i \in 1 .. l : A[i] = L[i]
            /\ A[l + 1] = row
            /\ ledger'[n] = A
        BY <1>4, <3>1, <3>2
      <3> HIDE DEF L, row, A, l
      <3>7. \A i \in 1 .. Len(A) : i \in 1 .. l \/ i = l + 1
        BY <3>6
      <3>8. \A i, j \in 1 .. Len(A) : A[i].key = A[j].key => i = j
        <4> SUFFICES ASSUME NEW i \in 1 .. Len(A), NEW j \in 1 .. Len(A),
                            A[i].key = A[j].key
                     PROVE  i = j
          OBVIOUS
        <4>1. \A k \in 1 .. l : L[k].key # row.key
          BY <3>3 DEF l
        <4>2. CASE i \in 1 .. l /\ j \in 1 .. l
          BY <3>5, <3>6, <4>2 DEF l
        <4>3. CASE i = l + 1 \/ j = l + 1
          BY <3>6, <3>7, <4>1, <4>3
        <4> QED
          BY <3>7, <4>2, <4>3
      <3>9. \A i \in 1 .. Len(A) : A[i].key \in ChargeKey =>
                                       A[i].amount < 0 /\ A[i].balance_after >= 0
        BY <3>4, <3>5, <3>6, <3>7 DEF l
      <3> QED
        BY <3>6, <3>8, <3>9
    <2> QED
      BY <2>1, <2>2
  <1> QED
    BY <1>7, <1>8, <1>9, <1>10, <1>11, <1>12, <1>13

LEMMA RollbackStep ==
    ASSUME CreditsAssumption, IInv, NEW p \in Proc, Rollback(p)
    PROVE  /\ LockDiscipline' /\ SeenIsCurrent' /\ ChargeChecked'
           /\ InsertIsFresh' /\ ReplyPrepared' /\ AnswerHasRow'
  <1> USE DEF IInv, TypeOK, Rollback, Goto, Answer, Unlock, InTransaction
  <1> DEFINE m == call[p].member
  <1>0. /\ \A q \in Proc \ {p} : /\ pc'[q] = pc[q] /\ reply'[q] = reply[q]
                                 /\ insert'[q] = insert[q]
        /\ UNCHANGED <<balance, ledger, call, seen>>
        /\ pc[p] \in InTransaction /\ pc'[p] = "done" /\ reply'[p] = "error"
        /\ insert'[p] = <<>>
        /\ lock' = [lock EXCEPT ![m] = NoProc]
    OBVIOUS
  <1>1. \A r : Posted(r)' = Posted(r)
    BY <1>0 DEF Posted
  <1>2. \A q \in Proc \ {p} : pc[q] \in InTransaction =>
            /\ call[q].member # m
            /\ call[q].member \in Member
    <2> TAKE q \in Proc \ {p}
    <2> HAVE pc[q] \in InTransaction
    <2>1. lock[call[q].member] = q /\ call[q] \in Call /\ lock[m] = p
      BY <1>0 DEF LockDiscipline, CallKnown
    <2>2. call[q].member \in Member
      BY <2>1 DEF Call
    <2> QED
      BY <2>1, <2>2
  <1>3. LockDiscipline' /\ SeenIsCurrent'
    BY <1>0, <1>2 DEF LockDiscipline, SeenIsCurrent
  <1>4. ChargeChecked' /\ InsertIsFresh'
    BY <1>0, <1>1 DEF ChargeChecked, InsertIsFresh, Amount
  <1>5. ReplyPrepared' /\ AnswerHasRow'
    BY <1>0, <1>1 DEF ReplyPrepared, AnswerHasRow
  <1> QED
    BY <1>3, <1>4, <1>5

LEMMA OutsideStep ==
    ASSUME CreditsAssumption, IInv, NEW p \in Proc, FindDuplicate(p) \/ Return(p)
    PROVE  /\ LockDiscipline' /\ SeenIsCurrent' /\ ChargeChecked'
           /\ InsertIsFresh' /\ ReplyPrepared' /\ AnswerHasRow'
  <1> USE DEF IInv, TypeOK, FindDuplicate, Return, Goto, Answer, InTransaction
  <1>0. /\ \A q \in Proc \ {p} : /\ pc'[q] = pc[q] /\ reply'[q] = reply[q]
                                 /\ call'[q] = call[q] /\ seen'[q] = seen[q]
        /\ UNCHANGED <<balance, ledger, lock, insert>>
        /\ pc[p] \in {"duplicate", "done"} /\ pc'[p] \in {"done", "idle"}
    OBVIOUS
  <1>1. \A r : Posted(r)' = Posted(r)
    BY <1>0 DEF Posted
  <1>2. insert[p] = <<>>
    BY <1>0 DEF InsertIsFresh
  <1>3. pc'[p] = "done" => /\ call'[p] = call[p]
                           /\ reply'[p] = "IntegrityError"
                                \/ call[p].key \in Posted(call[p].member)
    OBVIOUS
  <1>4. LockDiscipline' /\ SeenIsCurrent' /\ ChargeChecked'
    BY <1>0, ZenonT(60) DEF LockDiscipline, SeenIsCurrent, ChargeChecked
  <1>5. InsertIsFresh'
    BY <1>0, <1>1, <1>2 DEF InsertIsFresh, Amount
  <1>6. ReplyPrepared' /\ AnswerHasRow'
    BY <1>0, <1>1, <1>3 DEF ReplyPrepared, AnswerHasRow
  <1> QED
    BY <1>4, <1>5, <1>6

LEMMA InvInit == CreditsAssumption /\ Init => IInv
  <1> SUFFICES ASSUME CreditsAssumption, Init PROVE IInv
    OBVIOUS
  <1>1. TypeOK
    BY TypeInit
  <1>2. /\ CallKnown /\ LockDiscipline /\ SeenIsCurrent /\ ChargeChecked
        /\ InsertIsFresh /\ ReplyPrepared /\ AnswerHasRow
    BY DEF Init, CallKnown, LockDiscipline, SeenIsCurrent, ChargeChecked,
           InsertIsFresh, ReplyPrepared, AnswerHasRow, InTransaction
  <1>3. BalanceFollowsLedger /\ KeyPostedOnce /\ ChargeCovered
    BY DEF Init, BalanceFollowsLedger, KeyPostedOnce, ChargeCovered
  <1> QED
    BY <1>1, <1>2, <1>3 DEF IInv

LEMMA InvStep == CreditsAssumption /\ IInv /\ [Next]_vars => IInv'
  <1> SUFFICES ASSUME CreditsAssumption, IInv, [Next]_vars PROVE IInv'
    OBVIOUS
  <1>0. TypeOK' /\ CallKnown'
    BY TypeStep DEF IInv
  <1>1. ASSUME UNCHANGED <<balance, ledger>>
        PROVE  BalanceFollowsLedger' /\ KeyPostedOnce' /\ ChargeCovered'
    BY <1>1, BooksUnchanged DEF IInv
  <1>2. ASSUME NEW p \in Proc, NEW c \in Call, Begin(p, c) PROVE IInv'
    BY <1>0, <1>1, <1>2, BeginStep DEF IInv, Begin
  <1>3. ASSUME NEW p \in Proc, LockMember(p) PROVE IInv'
    BY <1>0, <1>1, <1>3, LockMemberStep DEF IInv, LockMember
  <1>4. ASSUME NEW p \in Proc, CheckCharge(p) PROVE IInv'
    BY <1>0, <1>1, <1>4, CheckChargeStep DEF IInv, CheckCharge
  <1>5. ASSUME NEW p \in Proc, Write(p) PROVE IInv'
    BY <1>0, <1>1, <1>5, WriteStep DEF IInv, Write
  <1>6. ASSUME NEW p \in Proc, Commit(p) PROVE IInv'
    BY <1>0, <1>6, CommitStep DEF IInv
  <1>7. ASSUME NEW p \in Proc, Rollback(p) PROVE IInv'
    BY <1>0, <1>1, <1>7, RollbackStep DEF IInv, Rollback
  <1>8. ASSUME NEW p \in Proc, FindDuplicate(p) \/ Return(p) PROVE IInv'
    BY <1>0, <1>1, <1>8, OutsideStep DEF IInv, FindDuplicate, Return
  <1>9. CASE UNCHANGED vars
    BY <1>9 DEF vars, IInv, TypeOK, CallKnown, LockDiscipline, SeenIsCurrent,
                ChargeChecked, InsertIsFresh, ReplyPrepared, BalanceFollowsLedger,
                KeyPostedOnce, ChargeCovered, AnswerHasRow, Posted, Amount
  <1> QED
    BY <1>2, <1>3, <1>4, <1>5, <1>6, <1>7, <1>8, <1>9 DEF Next

(* Every reachable state satisfies the inductive invariant. *)
THEOREM CreditsInvariant == Spec => []IInv
  <1>1. Init => IInv
    BY CreditsAssumption, InvInit
  <1>2. IInv /\ [Next]_vars => IInv'
    BY CreditsAssumption, InvStep
  <1> QED
    BY <1>1, <1>2, PTL DEF Spec

(* Every variable keeps its type, for every set of calls (credits.py).     *)
THEOREM TypeCorrect == Spec => []TypeOK
  <1>1. IInv => TypeOK
    BY DEF IInv
  <1> QED
    BY <1>1, CreditsInvariant, PTL

(* The balance cache agrees with the ledger in every reachable state: no   *)
(* two calls, of any number of connections, lose an update of one another  *)
(* (credits.py, grant_credits and charge_credits).                         *)
THEOREM BalanceIsLedger == Spec => []BalanceFollowsLedger
  <1>1. IInv => BalanceFollowsLedger
    BY DEF IInv
  <1> QED
    BY <1>1, CreditsInvariant, PTL

(* A dedupe key is posted once per member, whatever overlaps or is retried *)
(* (the unique index of credits.py, and the look-up under the lock).       *)
THEOREM PostsOnce == Spec => []KeyPostedOnce
  <1>1. IInv => KeyPostedOnce
    BY DEF IInv
  <1> QED
    BY <1>1, CreditsInvariant, PTL

(* Concurrent charges never take a member below zero (charge_credits).     *)
THEOREM ChargesCovered == Spec => []ChargeCovered
  <1>1. IInv => ChargeCovered
    BY DEF IInv
  <1> QED
    BY <1>1, CreditsInvariant, PTL

(* An answer that claims a posting is never given without the row.         *)
THEOREM AnswersAreTrue == Spec => []AnswerHasRow
  <1>1. IInv => AnswerHasRow
    BY DEF IInv
  <1> QED
    BY <1>1, CreditsInvariant, PTL
-----------------------------------------------------------------------------
(* A step posts nothing unless it is a commit.                             *)
LEMMA OnlyCommitsPost ==
    ASSUME [Next]_vars, \A p \in Proc : ~Commit(p)
    PROVE  UNCHANGED <<balance, ledger>>
  BY DEF Next, vars, Begin, LockMember, CheckCharge, Write, Rollback,
         FindDuplicate, Return

(* grant_credits answers True to the one call whose row it committed.      *)
THEOREM TrueIsPosted == Spec => TrueMeansPosted
  <1> DEFINE Posts == \A p \in Proc :
                 pc[p] = "commit" /\ pc'[p] = "done" /\ reply'[p] = "granted" =>
                     /\ call[p].key \notin Posted(call[p].member)
                     /\ call[p].key \in Posted(call[p].member)'
  <1>1. ASSUME IInv, [Next]_vars PROVE [Posts]_vars
    <2> SUFFICES ASSUME NEW p \in Proc, pc[p] = "commit", pc'[p] = "done",
                        reply'[p] = "granted"
                 PROVE  /\ call[p].key \notin Posted(call[p].member)
                        /\ call[p].key \in Posted(call[p].member)'
      OBVIOUS
    <2>1. Commit(p)
      <3>1. reply \in [Proc -> {"none", "granted", "duplicate", "charged", "refused",
                                "ValueError", "IntegrityError", "error"}]
            /\ pc \in [Proc -> {"idle", "lock", "duplicate", "done"} \union InTransaction]
        BY <1>1 DEF IInv, TypeOK
      <3>2. pc'[p] # pc[p]
        OBVIOUS
      <3>3. ASSUME NEW q \in Proc,
                   \/ \E c \in Call : Begin(q, c)
                   \/ LockMember(q) \/ CheckCharge(q) \/ Write(q)
                   \/ Rollback(q) \/ FindDuplicate(q) \/ Return(q)
            PROVE  FALSE
        <4>1. q = p
          BY <3>1, <3>2, <3>3 DEF Begin, LockMember, CheckCharge, Write, Rollback,
             FindDuplicate, Return, Goto, Answer, Unlock
        <4>2. Rollback(p)
          BY <3>3, <4>1 DEF Begin, LockMember, CheckCharge, Write, FindDuplicate, Return
        <4> QED
          BY <3>1, <4>2 DEF Rollback, Answer
      <3>4. ASSUME NEW q \in Proc, Commit(q) PROVE q = p
        BY <3>1, <3>2, <3>4 DEF Commit, Goto
      <3>5. ~UNCHANGED vars
        BY <3>2 DEF vars
      <3>6. Next
        BY <1>1, <3>5
      <3> QED
        BY <3>3, <3>4, <3>6 DEF Next
    <2>2. reply[p] = "granted" /\ call' = call
      BY <2>1 DEF Commit
    <2>3. insert[p] # <<>>
      BY <1>1, <2>2 DEF IInv, ReplyPrepared
    <2>4. call[p].key \notin Posted(call[p].member)
      BY <1>1, <2>3 DEF IInv, InsertIsFresh
    <2>5. call[p].key \in Posted(call[p].member)'
      BY <1>1, <2>1, <2>3, CreditsAssumption, CommitEffect
    <2> QED
      BY <2>4, <2>5
  <1> QED
    BY <1>1, CreditsInvariant, PTL DEF Spec, TrueMeansPosted

LEMMA RefinesInit == Init => Abstract!Init
  BY DEF Init, Abstract!Init, Posted, KeysOf

(* A commit with a row is a grant or a charge of the abstract ledger, and  *)
(* every other step leaves the abstract ledger alone.                      *)
LEMMA RefinesStep ==
    ASSUME CreditsAssumption, IInv, [Next]_vars
    PROVE  [Abstract!Next]_(Abstract!vars)
  <1> DEFINE posted == [m \in Member |-> Posted(m)]
  <1>1. ASSUME UNCHANGED <<balance, ledger>> PROVE UNCHANGED Abstract!vars
    BY <1>1 DEF Abstract!vars, Posted
  <1>2. CASE \A p \in Proc : ~Commit(p)
    BY <1>1, <1>2, OnlyCommitsPost
  <1>3. ASSUME NEW p \in Proc, Commit(p), insert[p] = <<>>
        PROVE  UNCHANGED Abstract!vars
    BY <1>1, <1>3 DEF Commit
  <1>4. ASSUME NEW p \in Proc, Commit(p), insert[p] # <<>>
        PROVE  Abstract!Next
    <2> DEFINE m == call[p].member
               k == call[p].key
               d == call[p].delta
    <2>0. call' = call
      BY <1>4 DEF Commit
    <2>1. /\ call[p] \in Call /\ m \in Member /\ k \in Key
          /\ seen[p] = balance[m]
          /\ k \notin Posted(m)
          /\ balance' = [balance EXCEPT ![m] = seen[p] + Amount(call[p])]
          /\ \A n \in Member : Posted(n)' = IF n = m THEN Posted(n) \union {k}
                                                      ELSE Posted(n)
      <3>1. /\ call[p] \in Call /\ m \in Member /\ k \in Key
            /\ seen[p] = balance[m]
            /\ insert[p][1] = [key |-> k, amount |-> Amount(call[p]),
                               balance_after |-> seen[p] + Amount(call[p])]
            /\ insert[p][1].key = k /\ insert[p][1].key \notin Posted(m)
            /\ balance' = [balance EXCEPT ![m] = insert[p][1].balance_after]
        BY <1>4, CommitEffect
      <3>2. insert[p][1].balance_after = seen[p] + Amount(call[p])
        BY <3>1
      <3>3. \A n \in Member \ {m} : Posted(n)' = Posted(n)
        BY <1>4, CommitEffect, ZenonT(60)
      <3>4. Posted(m)' = Posted(m) \union {k}
        BY <1>4, CommitEffect
      <3>5. \A n \in Member : n = m => Posted(n)' = Posted(n) \union {k}
        BY <2>0, <3>4
      <3> QED
        BY <3>1, <3>2, <3>3, <3>5
    <2>2. call[p].op = "charge" => d > 0 /\ balance[m] >= d
      BY <1>4, <2>1 DEF IInv, InsertIsFresh
    <2>3. d \in Delta /\ (call[p].op = "charge" \/ k \notin ChargeKey)
      BY <2>1 DEF Call
    <2>4. d \in Int /\ balance[m] \in Int
      BY <2>1, <2>3 DEF CreditsAssumption, IInv, TypeOK
    <2>5. posted' = [posted EXCEPT ![m] = @ \union {k}]
      <3>1. posted' = [n \in Member |-> Posted(n)']
        OBVIOUS
      <3> QED
        BY <2>1, <3>1
    <2>6. Abstract!Post(m, k, Amount(call[p]))
      BY <2>1, <2>5 DEF Abstract!Post
    <2>7. CASE call[p].op = "charge"
      <3>1. Abstract!Charge(m, k, d)
        BY <2>2, <2>6, <2>7 DEF Abstract!Charge, Amount
      <3> QED
        BY <2>1, <2>3, <3>1 DEF Abstract!Next
    <2>8. CASE call[p].op # "charge"
      <3>1. Abstract!Grant(m, k, d)
        BY <2>3, <2>6, <2>8 DEF Abstract!Grant, Amount
      <3> QED
        BY <2>1, <2>3, <3>1 DEF Abstract!Next
    <2> QED
      BY <2>7, <2>8
  <1> QED
    BY <1>2, <1>3, <1>4

(* grant_credits and charge_credits, with their locks and rollbacks,       *)
(* implement the ledger their callers rely on.                             *)
THEOREM ImplementsLedger == Spec => KeepsLedger
  <1>1. Init => Abstract!Init
    BY RefinesInit
  <1>2. IInv /\ [Next]_vars => [Abstract!Next]_(Abstract!vars)
    BY CreditsAssumption, RefinesStep
  <1> QED
    BY <1>1, <1>2, CreditsInvariant, PTL DEF Spec, KeepsLedger, Abstract!Spec
=============================================================================
