--------------------------- MODULE GenerationProofs -------------------------
(***************************************************************************)
(* Theorems about Generation.tla, for every set of members, jobs, keys and *)
(* slots, every price and every number of attempts and deaths.             *)
(*                                                                         *)
(* Sound holds whatever the leases do.  Leased holds when a lease outlives *)
(* every run: then one slot has the job, and what it read of it is still   *)
(* true.  Running holds when in addition nobody withdraws: then nothing    *)
(* but its slot ends a job, and the whole implements JobPromise.           *)
(*                                                                         *)
(* BooksInv needs no lease: the balances are the totals of the ledger, and *)
(* every step keeps the books as Ledger says.                              *)
(***************************************************************************)
EXTENDS Generation, FiniteSetTheorems, TLAPS

Busy(s) == at[s] # "free"

SlotsHaveJobs ==
    \A s \in Slot :
        /\ Busy(s) => doing[s] \in Job /\ Exists(doing[s])
        /\ ~Busy(s) => doing[s] = None
        /\ at[s] \notin {"free", "load"} => owns[s] \in Member

JobsHaveOwners ==
    \A j \in Job :
        /\ call[j] # "unsent" => asker[j] \in Member
        /\ Exists(j) <=> call[j] = "created"
        /\ Exists(j) => owner[j] \in Member

(* A job stays with its asker as long as the asker is not merged away.     *)
AskerOwns ==
    \A j \in Job :
        Exists(j) /\ mergedInto[asker[j]] = None => owner[j] = asker[j]

(* A result row is there before the job is marked succeeded.               *)
SucceedHasResult ==
    \A s \in Slot : at[s] = "succeed" => result[doing[s]] # "none"

Base ==
    /\ TypeOK
    /\ SlotsHaveJobs
    /\ JobsHaveOwners
-----------------------------------------------------------------------------
(* What the helpers of the ledger give.                                    *)
LEMMA EntryIsRow ==
    ASSUME NEW m \in Member, NEW of \in Job \union Member \union {None},
           NEW amount \in Int,
           NEW what \in Kind
    PROVE  Entry(m, what, of, amount) \in Row
  BY DEF Entry, Row

(* A grant that is let through, and one that is made.                      *)
LEMMA GrantAllowed ==
    ASSUME GenerationAssumption, NEW m \in Member, AllowGrant(m)
    PROVE  /\ \E what \in Granted, amount \in Int :
                 /\ granting' = granting \union {Entry(m, what, None, amount)}
                 /\ what = "claim" => amount >= 0
           /\ UNCHANGED <<balance, ledger, withdrawn, mergedInto, calls, jobs, slots>>
  <1>1. ASSUME NEW d \in Claim, LetThrough(m, "claim", d)
        PROVE  d \in Int /\ d >= 0 /\ "claim" \in Granted
    BY <1>1 DEF GenerationAssumption, Granted
  <1>2. ASSUME NEW d \in Clawback
        PROVE  -d \in Int /\ "clawback" \in Granted
    BY <1>2 DEF GenerationAssumption, Granted
  <1>3. ASSUME NEW a \in Adjustment, NEW d \in {a, -a}
        PROVE  d \in Int /\ "adjustment" \in Granted
    BY <1>3 DEF GenerationAssumption, Granted
  <1> QED
    BY <1>1, <1>2, <1>3 DEF AllowGrant, ClaimCredit, ClawBack, Adjust, LetThrough

LEMMA GrantMade ==
    ASSUME TypeOK, NEW m \in Member, MakeGrant(m)
    PROVE  \E row \in granting :
               /\ row.what \in Granted /\ row.amount \in Int
               /\ granting' = granting \ {row}
               /\ \/ ~Posted(m, row.what, None) /\ Post(m, row.what, None, row.amount)
                  \/ UNCHANGED <<balance, ledger>>
               /\ UNCHANGED <<withdrawn, mergedInto, calls, jobs, slots>>
  BY DEF MakeGrant, TypeOK, GrantRow

LEMMA PostKeepsTypes ==
    ASSUME balance \in [Member -> Int], ledger \subseteq Row,
           NEW m \in Member, NEW of \in Job \union Member \union {None},
           NEW amount \in Int,
           NEW what \in Kind,
           Post(m, what, of, amount)
    PROVE  balance' \in [Member -> Int] /\ ledger' \subseteq Row
  <1>1. Entry(m, what, of, amount) \in Row
    BY EntryIsRow
  <1>2. ledger' \subseteq Row
    BY <1>1 DEF Post
  <1>3. balance' \in [Member -> Int]
    BY DEF Post
  <1> QED
    BY <1>2, <1>3

(* The queue position of a new job is a number.                            *)
LEMMA QueueEndIsNat ==
    ASSUME GenerationAssumption
    PROVE  1 + Cardinality({j \in Job : Exists(j)}) \in Nat
  <1>1. IsFiniteSet(Job)
    BY DEF GenerationAssumption
  <1>2. {j \in Job : Exists(j)} \in SUBSET Job
    OBVIOUS
  <1>3. IsFiniteSet({j \in Job : Exists(j)})
    BY <1>1, <1>2, FS_Subset
  <1>4. Cardinality({j \in Job : Exists(j)}) \in Nat
    BY <1>3, FS_CardinalityType
  <1> QED
    BY <1>4
-----------------------------------------------------------------------------
LEMMA BaseInit ==
    ASSUME GenerationAssumption, Init
    PROVE  Base
  <1>1. ledger \subseteq Row
    <2>1. \A m \in Member : Entry(m, "opening", None, Opening) \in Row
      BY EntryIsRow DEF GenerationAssumption, Kind
    <2> QED
      BY <2>1 DEF Init
  <1>2. TypeOK
    BY <1>1 DEF Init, TypeOK, GenerationAssumption
  <1>3. SlotsHaveJobs /\ JobsHaveOwners
    BY DEF Init, SlotsHaveJobs, JobsHaveOwners, Busy, Exists
  <1> QED
    BY <1>2, <1>3 DEF Base

(* The requests.                                                           *)
LEMMA BaseRequest ==
    ASSUME GenerationAssumption, Base, NEW r \in Job,
           (\E m \in Member : Ask(r, m)) \/ Request(r)
    PROVE  Base'
  <1> USE DEF accounts, calls, jobs, slots
  <1>1. ASSUME NEW m \in Member, Ask(r, m)
        PROVE  Base'
    BY <1>1 DEF Ask, Base, TypeOK, SlotsHaveJobs, JobsHaveOwners, Busy, Exists
  <1>2. CASE Refuse(r)
    BY <1>2 DEF Refuse, Base, TypeOK, SlotsHaveJobs, JobsHaveOwners, Busy, Exists
  <1>3. CASE Conflict(r)
    BY <1>3 DEF Conflict, Base, TypeOK, SlotsHaveJobs, JobsHaveOwners, Busy, Exists
  <1>4. CASE Insufficient(r)
    BY <1>4 DEF Insufficient, Base, TypeOK, SlotsHaveJobs, JobsHaveOwners, Busy, Exists
  <1>5. CASE Accept(r)
    <2>1. asker[r] \in Member
      BY <1>5 DEF Accept, Base, JobsHaveOwners
    <2>2. queuedAt' \in [Job -> Nat]
      BY <1>5, QueueEndIsNat DEF Accept, Base, TypeOK
    <2>3. balance' \in [Member -> Int] /\ ledger' \subseteq Row
      <3>1. Post(asker[r], "job", r, -Cost) /\ -Cost \in Int
        BY <1>5 DEF Accept, GenerationAssumption
      <3>2. balance \in [Member -> Int] /\ ledger \subseteq Row
        BY DEF Base, TypeOK
      <3> QED
        BY <2>1, <3>1, <3>2, PostKeepsTypes DEF Kind
    <2>4. TypeOK'
      BY <1>5, <2>1, <2>2, <2>3 DEF Accept, Base, TypeOK
    <2>5. SlotsHaveJobs' /\ JobsHaveOwners'
      BY <1>5, <2>1 DEF Accept, Base, TypeOK, SlotsHaveJobs, JobsHaveOwners, Busy, Exists
    <2> QED
      BY <2>4, <2>5 DEF Base
  <1> QED
    BY <1>1, <1>2, <1>3, <1>4, <1>5 DEF Request

(* The worker.                                                             *)
LEMMA BaseSlot ==
    ASSUME GenerationAssumption, Base, NEW s \in Slot,
           (\E j \in Job : Fetch(s, j)) \/ Step(s) \/ Die(s)
    PROVE  Base'
  <1> USE DEF accounts, calls, jobs, slots
  <1>0. None \notin Job
    BY DEF GenerationAssumption
  <1>1. ASSUME NEW j \in Job, Fetch(s, j)
        PROVE  Base'
    BY <1>0, <1>1 DEF Fetch, Fetchable, Base, TypeOK, SlotsHaveJobs, JobsHaveOwners, Busy, Exists
  <1>2. CASE Load(s)
    BY <1>2 DEF Load, Base, TypeOK, SlotsHaveJobs, JobsHaveOwners, Busy, Exists
  <1>3. CASE Generate(s)
    BY <1>3 DEF Generate, Base, TypeOK, SlotsHaveJobs, JobsHaveOwners, Busy, Exists
  <1>4. CASE Raise(s)
    BY <1>4 DEF Raise, Base, TypeOK, SlotsHaveJobs, JobsHaveOwners, Busy, Exists
  <1>5. CASE CheckWithdrawn(s)
    BY <1>5 DEF CheckWithdrawn, Base, TypeOK, SlotsHaveJobs, JobsHaveOwners, Busy, Exists
  <1>6. CASE CreateResult(s)
    BY <1>6 DEF CreateResult, Base, TypeOK, SlotsHaveJobs, JobsHaveOwners, Busy, Exists
  <1>7. CASE Succeed(s)
    BY <1>7 DEF Succeed, Release, Base, TypeOK, SlotsHaveJobs, JobsHaveOwners, Busy, Exists
  <1>8. CASE Requeue(s)
    BY <1>8 DEF Requeue, Release, Base, TypeOK, SlotsHaveJobs, JobsHaveOwners, Busy, Exists
  <1>9. CASE FailJob(s)
    BY <1>9 DEF FailJob, Retryable, Base, TypeOK, SlotsHaveJobs, JobsHaveOwners, Busy, Exists
  <1>10. CASE CheckRefund(s)
    <2>1. CASE Release(s)
      BY <1>10, <2>1 DEF CheckRefund, Release, Base, TypeOK, SlotsHaveJobs, JobsHaveOwners,
                         Busy, Exists
    <2>2. CASE /\ at' = [at EXCEPT ![s] = "grant"]
               /\ UNCHANGED <<doing, owns, tries, gone, cause>>
      BY <1>10, <2>2 DEF CheckRefund, Base, TypeOK, SlotsHaveJobs, JobsHaveOwners,
                         Busy, Exists
    <2> QED
      BY <1>10, <2>1, <2>2 DEF CheckRefund
  <1>11. CASE GrantRefund(s)
    <2>1. owns[s] \in Member /\ doing[s] \in Job
      BY <1>11 DEF GrantRefund, Base, SlotsHaveJobs, Busy
    <2>2. balance' \in [Member -> Int] /\ ledger' \subseteq Row
      <3>1. balance \in [Member -> Int] /\ ledger \subseteq Row /\ Cost \in Int
        BY DEF Base, TypeOK, GenerationAssumption
      <3>2. CASE Post(owns[s], "refund", doing[s], Cost)
        BY <2>1, <3>1, <3>2, PostKeepsTypes DEF Kind
      <3>3. CASE UNCHANGED <<balance, ledger>>
        BY <3>1, <3>3
      <3> QED
        BY <1>11, <3>2, <3>3 DEF GrantRefund
    <2> QED
      BY <1>11, <2>2 DEF GrantRefund, Release, Base, TypeOK, SlotsHaveJobs, JobsHaveOwners,
                         Busy, Exists
  <1>12. CASE Die(s)
    BY <1>12 DEF Die, Release, Base, TypeOK, SlotsHaveJobs, JobsHaveOwners, Busy, Exists,
                 GenerationAssumption
  <1> QED
    BY <1>1, <1>2, <1>3, <1>4, <1>5, <1>6, <1>7, <1>8, <1>9, <1>10, <1>11, <1>12 DEF Step

(* The accounts and the clock.                                             *)
LEMMA BaseAccount ==
    ASSUME GenerationAssumption, Base,
           \/ \E j \in Job : ExpireLease(j)
           \/ \E m \in Member : Withdraw(m) \/ AllowGrant(m) \/ MakeGrant(m)
           \/ \E g, m \in Member : Merge(g, m)
    PROVE  Base'
  <1> USE DEF accounts, calls, jobs, slots
  <1>0. balance \in [Member -> Int] /\ ledger \subseteq Row /\ Opening \in Int
          /\ "forfeit" \in Kind /\ "merge" \in Kind /\ Granted \subseteq Kind
    BY DEF Base, TypeOK, GenerationAssumption, Kind
  <1>1. ASSUME NEW j \in Job, ExpireLease(j)
        PROVE  Base'
    BY <1>1 DEF ExpireLease, Base, TypeOK, SlotsHaveJobs, JobsHaveOwners, Busy, Exists
  <1>2. ASSUME NEW m \in Member, Withdraw(m)
        PROVE  Base'
    <2>1. balance' \in [Member -> Int] /\ ledger' \subseteq Row
      <3>1. Entry(m, "forfeit", None, -balance[m]) \in Row
        BY <1>0, EntryIsRow
      <3> QED
        BY <1>0, <1>2, <3>1 DEF Withdraw, CancelledBy
    <2>2. /\ status' \in [Job -> {"absent", "queued", "processing", "succeeded", "failed"}]
          /\ error' \in [Job -> {"none", "GENERATION_FAILED", "SAFETY_BLOCKED",
                                 "MAX_RETRIES_EXCEEDED", "WITHDRAWN"}]
          /\ result' \in [Job -> {"none", "live", "deleted"}]
          /\ \A j \in Job : Exists(j)' <=> Exists(j)
      BY <1>2 DEF Withdraw, CancelledBy, Base, TypeOK, Exists
    <2>3. UNCHANGED <<mergedInto, granting, calls, owner, attempts, queuedAt, leased, slots>>
          /\ withdrawn' \subseteq Member
      BY <1>2 DEF Withdraw, CancelledBy, Base, TypeOK
    <2> QED
      BY <2>1, <2>2, <2>3 DEF Base, TypeOK, SlotsHaveJobs, JobsHaveOwners, Busy
  <1>3. ASSUME NEW m \in Member, AllowGrant(m)
        PROVE  Base'
    <2>1. PICK what \in Granted, amount \in Int :
              granting' = granting \union {Entry(m, what, None, amount)}
      BY <1>3, GrantAllowed
    <2>2. UNCHANGED <<balance, ledger, withdrawn, mergedInto, calls, jobs, slots>>
      BY <1>3, GrantAllowed
    <2>3. granting' \subseteq GrantRow
      BY <2>1 DEF Entry, GrantRow, Base, TypeOK
    <2> QED
      BY <2>2, <2>3 DEF Base, TypeOK, SlotsHaveJobs, JobsHaveOwners, Busy, Exists
  <1>4. ASSUME NEW m \in Member, MakeGrant(m)
        PROVE  Base'
    <2>1. PICK row \in granting :
              /\ row.what \in Granted /\ row.amount \in Int
              /\ granting' = granting \ {row}
              /\ \/ Post(m, row.what, None, row.amount)
                 \/ UNCHANGED <<balance, ledger>>
              /\ UNCHANGED <<withdrawn, mergedInto, calls, jobs, slots>>
      BY <1>4, GrantMade DEF Base
    <2>2. balance' \in [Member -> Int] /\ ledger' \subseteq Row
      <3>1. CASE Post(m, row.what, None, row.amount)
        BY <1>0, <2>1, <3>1, PostKeepsTypes
      <3> QED
        BY <1>0, <2>1, <3>1
    <2> QED
      BY <2>1, <2>2 DEF Base, TypeOK, SlotsHaveJobs, JobsHaveOwners, Busy, Exists
  <1>5. ASSUME NEW g \in Member, NEW m \in Member, Merge(g, m)
        PROVE  Base'
    <2>1. balance' \in [Member -> Int]
      BY <1>0, <1>5 DEF Merge
    <2>2. ledger' \subseteq Row
      <3>1. Entry(m, "merge", g, balance[g] - Opening) \in Row
        BY <1>0, EntryIsRow
      <3> QED
        BY <1>0, <1>5, <3>1 DEF Merge
    <2>3. owner' \in [Job -> Member \union {None}]
          /\ \A j \in Job : Exists(j) => owner'[j] \in Member
      BY <1>5 DEF Merge, Base, TypeOK, JobsHaveOwners
    <2> QED
      BY <1>5, <2>1, <2>2, <2>3 DEF Merge, Base, TypeOK, SlotsHaveJobs, JobsHaveOwners, Busy, Exists
  <1> QED
    BY <1>1, <1>2, <1>3, <1>4, <1>5

LEMMA BaseStep ==
    ASSUME GenerationAssumption, Base, [Next]_vars
    PROVE  Base'
  <1>1. CASE \E r \in Job : (\E m \in Member : Ask(r, m)) \/ Request(r)
    BY <1>1, BaseRequest
  <1>2. CASE \E s \in Slot : (\E j \in Job : Fetch(s, j)) \/ Step(s) \/ Die(s)
    BY <1>2, BaseSlot
  <1>3. CASE \/ \E j \in Job : ExpireLease(j)
             \/ \E m \in Member : Withdraw(m) \/ AllowGrant(m) \/ MakeGrant(m)
             \/ \E g, m \in Member : Merge(g, m)
    BY <1>3, BaseAccount
  <1>4. CASE UNCHANGED vars
    BY <1>4 DEF vars, accounts, calls, jobs, slots, Base, TypeOK, SlotsHaveJobs,
                JobsHaveOwners, Busy, Exists
  <1> QED
    BY <1>1, <1>2, <1>3, <1>4 DEF Next
-----------------------------------------------------------------------------
(* A result row never disappears, and only a slot that found or made one   *)
(* marks its job succeeded.                                                *)
LEMMA ResultInit ==
    ASSUME Init
    PROVE  SucceedHasResult /\ SucceededHasResult
  BY DEF Init, SucceedHasResult, SucceededHasResult

LEMMA ResultStep ==
    ASSUME Base, SucceedHasResult, SucceededHasResult, [Next]_vars
    PROVE  SucceedHasResult' /\ SucceededHasResult'
  <1> USE DEF accounts, calls, jobs, slots, Base, TypeOK, SlotsHaveJobs, Busy,
              SucceedHasResult, SucceededHasResult
  <1>1. CASE UNCHANGED <<status, result, at, doing>>
    BY <1>1
  <1>2. ASSUME NEW r \in Job, (\E m \in Member : Ask(r, m)) \/ Request(r)
        PROVE  SucceedHasResult' /\ SucceededHasResult'
    BY <1>2 DEF Ask, Request, Refuse, Conflict, Insufficient, Accept
  <1>3. ASSUME NEW s \in Slot, (\E j \in Job : Fetch(s, j)) \/ Die(s)
        PROVE  SucceedHasResult' /\ SucceededHasResult'
    BY <1>3 DEF Fetch, Die, Release
  <1>4. ASSUME NEW s \in Slot,
               Load(s) \/ Generate(s) \/ Raise(s) \/ CheckWithdrawn(s) \/ CreateResult(s)
        PROVE  SucceedHasResult' /\ SucceededHasResult'
    BY <1>4 DEF Load, Generate, Raise, CheckWithdrawn, CreateResult
  <1>5. ASSUME NEW s \in Slot, Succeed(s) \/ Requeue(s) \/ FailJob(s)
        PROVE  SucceedHasResult' /\ SucceededHasResult'
    BY <1>5 DEF Succeed, Requeue, FailJob, Release
  <1>6. ASSUME NEW s \in Slot, CheckRefund(s) \/ GrantRefund(s)
        PROVE  SucceedHasResult' /\ SucceededHasResult'
    BY <1>6 DEF CheckRefund, GrantRefund, Release
  <1>7. ASSUME NEW m \in Member, Withdraw(m)
        PROVE  SucceedHasResult' /\ SucceededHasResult'
    BY <1>7 DEF Withdraw, CancelledBy
  <1> QED
    BY <1>1, <1>2, <1>3, <1>4, <1>5, <1>6, <1>7
       DEF Next, Step, vars, ExpireLease, AllowGrant,
           ClaimCredit, ClawBack, Adjust, LetThrough, MakeGrant, Merge
-----------------------------------------------------------------------------
(* Only Accept writes a "job" row, and it writes the row of the job it     *)
(* creates.                                                                *)
LEMMA PaidInit ==
    ASSUME Init
    PROVE  JobIsPaid
  BY DEF Init, JobIsPaid, Exists, Entry

LEMMA PostedRow ==
    ASSUME NEW m, NEW what, NEW of, NEW amount, Post(m, what, of, amount)
    PROVE  /\ \A row : row \in ledger' <=> row \in ledger \/ row = Entry(m, what, of, amount)
           /\ Entry(m, what, of, amount).what = what
           /\ Entry(m, what, of, amount).of = of
           /\ Entry(m, what, of, amount).member = m
  BY DEF Post, Entry

JobRows(j) == {row \in ledger : row.what = "job" /\ row.of = j}

LEMMA PaidStep ==
    ASSUME Base, JobIsPaid, [Next]_vars
    PROVE  JobIsPaid'
  <1> USE DEF accounts, calls, jobs, slots
  (* What a step that accepts nothing leaves alone.                        *)
  <1>1. ASSUME \A j \in Job : (Exists(j)' <=> Exists(j)) /\ (Exists(j) => asker'[j] = asker[j]),
               \A j \in Job : JobRows(j)' = JobRows(j)
        PROVE  JobIsPaid'
    BY <1>1 DEF JobIsPaid, JobRows
  <1>2. ASSUME NEW r \in Job, Accept(r)
        PROVE  JobIsPaid'
    <2> DEFINE new == Entry(asker[r], "job", r, -Cost)
    <2>1. /\ \A row : row \in ledger' <=> row \in ledger \/ row = new
          /\ new.what = "job" /\ new.of = r
      BY <1>2, PostedRow DEF Accept
    <2>2. /\ ~Exists(r) /\ Exists(r)' /\ asker' = asker
          /\ \A j \in Job \ {r} : Exists(j)' <=> Exists(j)
      BY <1>2 DEF Accept, Base, TypeOK, JobsHaveOwners, Exists
    <2>3. JobRows(r)' = {new}
      BY <2>1, <2>2 DEF JobIsPaid, JobRows
    <2>4. \A j \in Job \ {r} : JobRows(j)' = JobRows(j)
      BY <2>1 DEF JobRows
    <2> QED
      BY <2>2, <2>3, <2>4 DEF JobIsPaid, JobRows
  <1>3. ASSUME NEW r \in Job,
               (\E m \in Member : Ask(r, m)) \/ Refuse(r) \/ Conflict(r) \/ Insufficient(r)
        PROVE  JobIsPaid'
    <2>1. ledger' = ledger /\ status' = status
      BY <1>3 DEF Ask, Refuse, Conflict, Insufficient
    <2>2. \A j \in Job : Exists(j) => asker'[j] = asker[j]
      BY <1>3 DEF Ask, Refuse, Conflict, Insufficient, Base, TypeOK, JobsHaveOwners
    <2> QED
      BY <1>1, <2>1, <2>2 DEF Exists, JobRows
  <1>4. ASSUME NEW s \in Slot, (\E j \in Job : Fetch(s, j)) \/ Succeed(s) \/ Requeue(s) \/ FailJob(s)
        PROVE  JobIsPaid'
    <2>1. ledger' = ledger /\ asker' = asker
      BY <1>4 DEF Fetch, Succeed, Requeue, FailJob
    <2>2. \A j \in Job : Exists(j)' <=> Exists(j)
      BY <1>4 DEF Fetch, Fetchable, Succeed, Requeue, FailJob, Base, TypeOK, SlotsHaveJobs,
                  Busy, Exists
    <2> QED
      BY <1>1, <2>1, <2>2 DEF JobRows
  <1>5. ASSUME ledger' = ledger, status' = status, asker' = asker
        PROVE  JobIsPaid'
    BY <1>1, <1>5 DEF Exists, JobRows
  <1>6. ASSUME NEW m, NEW what \in {"refund", "forfeit", "merge"} \union Granted, NEW of, NEW amount,
               ledger' = ledger \union {Entry(m, what, of, amount)}
        PROVE  \A j \in Job : JobRows(j)' = JobRows(j)
    BY <1>6 DEF JobRows, Entry, Granted
  <1>7. ASSUME NEW s \in Slot, GrantRefund(s)
        PROVE  JobIsPaid'
    BY <1>1, <1>5, <1>6, <1>7 DEF GrantRefund, Post, Exists
  <1>8. ASSUME NEW m \in Member, MakeGrant(m)
        PROVE  JobIsPaid'
    <2>1. UNCHANGED <<status, asker>>
      BY <1>8 DEF MakeGrant
    <2>2. \A j \in Job : JobRows(j)' = JobRows(j)
      <3>1. PICK row \in granting :
                /\ row.what \in Granted
                /\ Post(m, row.what, None, row.amount) \/ UNCHANGED <<balance, ledger>>
        BY <1>8, GrantMade DEF Base
      <3>2. CASE Post(m, row.what, None, row.amount)
        BY <1>6, <3>1, <3>2 DEF Post
      <3>3. CASE UNCHANGED <<balance, ledger>>
        BY <3>3 DEF JobRows
      <3> QED
        BY <3>1, <3>2, <3>3
    <2> QED
      BY <1>1, <2>1, <2>2 DEF Exists
  <1>9. ASSUME NEW g \in Member, NEW m \in Member, Merge(g, m)
        PROVE  JobIsPaid'
    BY <1>1, <1>5, <1>6, <1>9 DEF Merge, Exists
  <1>10. ASSUME NEW m \in Member, Withdraw(m)
         PROVE  JobIsPaid'
    <2>1. \A j \in Job : (Exists(j)' <=> Exists(j)) /\ asker'[j] = asker[j]
      BY <1>10 DEF Withdraw, CancelledBy, Base, TypeOK, Exists
    <2>2. \A j \in Job : JobRows(j)' = JobRows(j)
      BY <1>6, <1>10 DEF Withdraw, CancelledBy, JobRows
    <2> QED
      BY <1>1, <2>1, <2>2
  <1> QED
    BY <1>2, <1>3, <1>4, <1>5, <1>7, <1>8, <1>9, <1>10
       DEF Next, Step, Request, vars, Load, Generate, Raise, CheckWithdrawn, CreateResult,
           CheckRefund, Die, ExpireLease, AllowGrant, ClaimCredit, ClawBack, Adjust, LetThrough
-----------------------------------------------------------------------------
(* The unique index sees a job under its owner; as long as the asker is    *)
(* not merged away the owner is the asker, so the index sees every job the *)
(* asker has made.                                                         *)
LEMMA IntentInit ==
    ASSUME Init
    PROVE  AskerOwns /\ OneJobPerIntent
  BY DEF Init, AskerOwns, OneJobPerIntent, Exists

LEMMA IntentStep ==
    ASSUME GenerationAssumption, Base, AskerOwns, OneJobPerIntent, [Next]_vars
    PROVE  AskerOwns' /\ OneJobPerIntent'
  <1> USE DEF accounts, calls, jobs, slots
  <1>1. ASSUME \A j \in Job : /\ Exists(j)' <=> Exists(j)
                              /\ Exists(j) => asker'[j] = asker[j] /\ owner'[j] = owner[j],
               intent' = intent, mergedInto' = mergedInto
        PROVE  AskerOwns' /\ OneJobPerIntent'
    BY <1>1 DEF AskerOwns, OneJobPerIntent
  <1>2. ASSUME NEW r \in Job, Accept(r)
        PROVE  AskerOwns' /\ OneJobPerIntent'
    <2>1. /\ intent' = intent /\ mergedInto' = mergedInto /\ asker' = asker
          /\ ~Exists(r) /\ owner'[r] = asker[r]
          /\ \A j \in Job \ {r} : (Exists(j)' <=> Exists(j)) /\ owner'[j] = owner[j]
          /\ ~KeyTaken(r)
      BY <1>2 DEF Accept, Base, TypeOK, JobsHaveOwners, Exists
    <2>2. AskerOwns'
      BY <2>1 DEF AskerOwns
    <2>3. \A j \in Job \ {r} : Exists(j) /\ mergedInto[asker[j]] = None =>
              asker[j] # asker[r] \/ intent[j] # intent[r]
      BY <2>1 DEF KeyTaken, AskerOwns
    <2> QED
      BY <2>1, <2>2, <2>3 DEF OneJobPerIntent
  <1>3. ASSUME NEW r \in Job,
               (\E m \in Member : Ask(r, m)) \/ Refuse(r) \/ Conflict(r) \/ Insufficient(r)
        PROVE  AskerOwns' /\ OneJobPerIntent'
    <2>1. \A j \in Job : /\ Exists(j)' <=> Exists(j)
                         /\ Exists(j) => asker'[j] = asker[j] /\ owner'[j] = owner[j]
      BY <1>3 DEF Ask, Refuse, Conflict, Insufficient, Base, TypeOK, JobsHaveOwners, Exists
    <2> QED
      BY <1>1, <1>3, <2>1 DEF Ask, Refuse, Conflict, Insufficient
  <1>4. ASSUME NEW s \in Slot, (\E j \in Job : Fetch(s, j)) \/ Succeed(s) \/ Requeue(s) \/ FailJob(s)
        PROVE  AskerOwns' /\ OneJobPerIntent'
    <2>1. \A j \in Job : Exists(j)' <=> Exists(j)
      BY <1>4 DEF Fetch, Fetchable, Succeed, Requeue, FailJob, Base, TypeOK, SlotsHaveJobs,
                  Busy, Exists
    <2> QED
      BY <1>1, <1>4, <2>1 DEF Fetch, Succeed, Requeue, FailJob
  <1>5. ASSUME UNCHANGED <<status, asker, owner, intent, mergedInto>>
        PROVE  AskerOwns' /\ OneJobPerIntent'
    BY <1>1, <1>5 DEF Exists
  <1>6. ASSUME NEW m \in Member, Withdraw(m)
        PROVE  AskerOwns' /\ OneJobPerIntent'
    <2>1. \A j \in Job : Exists(j)' <=> Exists(j)
      BY <1>6 DEF Withdraw, CancelledBy, Base, TypeOK, Exists
    <2> QED
      BY <1>1, <1>6, <2>1 DEF Withdraw, CancelledBy
  <1>7. ASSUME NEW g \in Member, NEW m \in Member, Merge(g, m)
        PROVE  AskerOwns' /\ OneJobPerIntent'
    <2>1. /\ UNCHANGED <<status, asker, intent>>
          /\ mergedInto[g] = None /\ mergedInto'[g] # None
          /\ \A n \in Member \ {g} : mergedInto'[n] = mergedInto[n]
          /\ \A j \in Job : owner[j] # g => owner'[j] = owner[j]
      BY <1>7 DEF Merge, Active, Base, TypeOK, GenerationAssumption
    <2>2. \A j \in Job : Exists(j)' <=> Exists(j)
      BY <2>1 DEF Exists
    <2>3. \A j \in Job : Exists(j) => asker[j] \in Member
      BY DEF Base, JobsHaveOwners
    <2>4. \A j \in Job : Exists(j) /\ mergedInto'[asker[j]] = None =>
              mergedInto[asker[j]] = None /\ asker[j] # g
      BY <2>1, <2>3
    <2> QED
      BY <2>1, <2>2, <2>4 DEF AskerOwns, OneJobPerIntent
  <1> QED
    BY <1>2, <1>3, <1>4, <1>5, <1>6, <1>7
       DEF Next, Step, Request, vars, Load, Generate, Raise, CheckWithdrawn, CreateResult,
           CheckRefund, GrantRefund, Die, ExpireLease, AllowGrant,
           ClaimCredit, ClawBack, Adjust, LetThrough, MakeGrant
-----------------------------------------------------------------------------
(* The four properties that hold with any leases.                          *)
Sound ==
    /\ Base
    /\ SucceedHasResult /\ SucceededHasResult
    /\ JobIsPaid
    /\ AskerOwns /\ OneJobPerIntent

(* The inductive invariant of every configuration.                         *)
THEOREM GenerationInvariant == Spec => []Sound
  <1>1. Init => Sound
    BY GenerationAssumption, BaseInit, ResultInit, PaidInit, IntentInit DEF Sound
  <1>2. Sound /\ [Next]_vars => Sound'
    BY GenerationAssumption, BaseStep, ResultStep, PaidStep, IntentStep DEF Sound
  <1> QED
    BY <1>1, <1>2, PTL DEF Spec

(* Every column and every local variable of a slot keeps its type.         *)
THEOREM GenerationTypeCorrect == Spec => []TypeOK
  <1>1. Sound => TypeOK
    BY DEF Sound, Base
  <1> QED
    BY <1>1, GenerationInvariant, PTL

(* A job shown as done has its image, even when two slots run it.          *)
THEOREM DoneHasImage == Spec => []SucceededHasResult
  <1>1. Sound => SucceededHasResult
    BY DEF Sound
  <1> QED
    BY <1>1, GenerationInvariant, PTL

(* A job is in the queue iff its asker was charged for it, once.           *)
THEOREM QueuedIsPaid == Spec => []JobIsPaid
  <1>1. Sound => JobIsPaid
    BY DEF Sound
  <1> QED
    BY <1>1, GenerationInvariant, PTL

(* One Idempotency-Key of one member makes one job.                        *)
THEOREM IntentMakesOneJob == Spec => []OneJobPerIntent
  <1>1. Sound => OneJobPerIntent
    BY DEF Sound
  <1> QED
    BY <1>1, GenerationInvariant, PTL
-----------------------------------------------------------------------------
(* A lease that outlives the run keeps other slots off the job: it is      *)
(* neither queued nor processing without a lease.  A withdrawal may fail   *)
(* it under the slot.                                                      *)
Held ==
    \A s \in Slot : Busy(s) =>
        /\ status[doing[s]] \in {"processing", "failed"}
        /\ status[doing[s]] = "processing" => doing[s] \in leased
        /\ at[s] \in {"refund", "grant"} => status[doing[s]] = "failed"

Exclusive == Held /\ OneRunPerJob

LEMMA ExclusiveInit ==
    ASSUME Init
    PROVE  Exclusive
  BY DEF Init, Exclusive, Held, OneRunPerJob, Busy

LEMMA ExclusiveStep ==
    ASSUME GenerationAssumption, LeaseOutlivesRun, Base, Exclusive, [Next]_vars
    PROVE  Exclusive'
  <1> USE DEF accounts, calls, jobs, slots, Base, TypeOK, SlotsHaveJobs, Busy, Exclusive, Held,
              OneRunPerJob
  <1>0. None \notin Job
    BY DEF GenerationAssumption
  <1>1. CASE UNCHANGED <<status, leased, at, doing>>
    BY <1>1
  <1>2. ASSUME NEW r \in Job, (\E m \in Member : Ask(r, m)) \/ Request(r)
        PROVE  Exclusive'
    <2>1. CASE Accept(r)
      <3>1. \A s \in Slot : Busy(s) => doing[s] # r
        BY <2>1 DEF Accept, JobsHaveOwners
      <3> QED
        BY <2>1, <3>1 DEF Accept
    <2> QED
      BY <1>2, <2>1 DEF Ask, Request, Refuse, Conflict, Insufficient
  <1>3. ASSUME NEW s \in Slot, NEW j \in Job, Fetch(s, j)
        PROVE  Exclusive'
    <2>1. \A t \in Slot : Busy(t) => doing[t] # j
      BY <1>3 DEF Fetch, Fetchable
    <2> QED
      BY <1>0, <1>3, <2>1 DEF Fetch
  <1>4. ASSUME NEW s \in Slot,
               Load(s) \/ Generate(s) \/ Raise(s) \/ CheckWithdrawn(s) \/ CreateResult(s)
        PROVE  Exclusive'
    BY <1>4 DEF Load, Generate, Raise, CheckWithdrawn, CreateResult
  <1>5. ASSUME NEW s \in Slot, Succeed(s) \/ Requeue(s) \/ FailJob(s)
        PROVE  Exclusive'
    <2>1. \A t \in Slot \ {s} : doing[t] # doing[s]
      BY <1>0, <1>5 DEF Succeed, Requeue, FailJob
    <2>2. CASE Succeed(s) \/ Requeue(s)
      BY <2>1, <2>2 DEF Succeed, Requeue, Release
    <2>3. CASE FailJob(s)
      BY <2>1, <2>3 DEF FailJob
    <2> QED
      BY <1>5, <2>2, <2>3
  <1>6. ASSUME NEW s \in Slot, CheckRefund(s) \/ GrantRefund(s) \/ Die(s)
        PROVE  Exclusive'
    <2>1. UNCHANGED <<status, leased>>
      BY <1>6 DEF CheckRefund, GrantRefund, Die
    <2>2. CASE Release(s)
      BY <2>1, <2>2 DEF Release
    <2>3. CASE at[s] = "refund" /\ at' = [at EXCEPT ![s] = "grant"] /\ UNCHANGED doing
      BY <2>1, <2>3
    <2> QED
      BY <1>6, <2>2, <2>3 DEF CheckRefund, GrantRefund, Die
  <1>7. ASSUME NEW j \in Job, ExpireLease(j)
        PROVE  Exclusive'
    BY <1>7 DEF ExpireLease
  <1>8. ASSUME NEW m \in Member, Withdraw(m)
        PROVE  Exclusive'
    BY <1>8 DEF Withdraw, CancelledBy
  <1> QED
    BY <1>1, <1>2, <1>3, <1>4, <1>5, <1>6, <1>7, <1>8
       DEF Next, Step, vars, AllowGrant,
           ClaimCredit, ClawBack, Adjust, LetThrough, MakeGrant, Merge
-----------------------------------------------------------------------------
(* A job that waits for a slot, or whose slot has died, has an attempt     *)
(* left; a slot knows the attempt it is.                                   *)
Waits(j) ==
    \/ status[j] = "queued"
    \/ status[j] = "processing" /\ \A s \in Slot : doing[s] # j

Counted ==
    /\ \A j \in Job : ~Exists(j) => attempts[j] = 0
    /\ \A j \in Job : Waits(j) => attempts[j] < MaxAttempts + deaths
    /\ \A s \in Slot : at[s] \notin {"free", "load"} => tries[s] = attempts[doing[s]]

LEMMA CountedInit ==
    ASSUME GenerationAssumption, Init
    PROVE  Counted /\ AttemptsBounded
  BY DEF Init, Counted, Waits, AttemptsBounded, Exists, GenerationAssumption

LEMMA CountedStep ==
    ASSUME GenerationAssumption, Base, Exclusive, Counted, AttemptsBounded, [Next]_vars
    PROVE  Counted' /\ AttemptsBounded'
  <1> USE DEF accounts, calls, jobs, slots, Base, TypeOK, SlotsHaveJobs, Busy, Exists,
              Exclusive, Held, OneRunPerJob, Counted, Waits, AttemptsBounded
  <1>0. MaxAttempts \in Nat \ {0} /\ None \notin Job /\ deaths \in Nat
    BY DEF GenerationAssumption
  <1>1. CASE UNCHANGED <<status, attempts, at, doing, tries, deaths>>
    BY <1>1
  <1>2. ASSUME NEW r \in Job, (\E m \in Member : Ask(r, m)) \/ Request(r)
        PROVE  Counted' /\ AttemptsBounded'
    <2>1. CASE Accept(r)
      BY <1>0, <2>1 DEF Accept, JobsHaveOwners
    <2> QED
      BY <1>1, <1>2, <2>1 DEF Ask, Request, Refuse, Conflict, Insufficient
  <1>3. ASSUME NEW s \in Slot, NEW j \in Job, Fetch(s, j)
        PROVE  Counted' /\ AttemptsBounded'
    <2>1. \A t \in Slot : Busy(t) => doing[t] # j
      BY <1>3 DEF Fetch, Fetchable
    <2>2. Waits(j)
      BY <1>0, <1>3, <2>1 DEF Fetch, Fetchable
    <2> QED
      BY <1>0, <1>3, <2>1, <2>2 DEF Fetch
  <1>4. ASSUME NEW s \in Slot,
               Load(s) \/ Generate(s) \/ Raise(s) \/ CheckWithdrawn(s) \/ CreateResult(s)
        PROVE  Counted' /\ AttemptsBounded'
    BY <1>4 DEF Load, Generate, Raise, CheckWithdrawn, CreateResult
  <1>5. ASSUME NEW s \in Slot, Succeed(s) \/ FailJob(s)
        PROVE  Counted' /\ AttemptsBounded'
    <2>1. /\ doing[s] \in Job /\ status[doing[s]] # "absent"
          /\ status'[doing[s]] \in {"succeeded", "failed"}
      BY <1>5 DEF Succeed, FailJob
    <2>2. /\ UNCHANGED <<attempts, deaths>>
          /\ \A j \in Job : j # doing[s] => status'[j] = status[j]
      BY <1>5 DEF Succeed, FailJob
    <2>3. \A j \in Job : Exists(j)' <=> Exists(j)
      BY <2>1, <2>2
    <2>4. \A j \in Job : Waits(j)' => Waits(j)
      <3> SUFFICES ASSUME NEW j \in Job, Waits(j)'
                   PROVE  Waits(j)
        OBVIOUS
      <3>1. j # doing[s] /\ status'[j] = status[j]
        BY <2>1, <2>2
      <3>2. \A t \in Slot : doing[t] = j => doing'[t] = j
        BY <1>5, <3>1 DEF Succeed, FailJob, Release
      <3> QED
        BY <3>1, <3>2
    <2>5. \A t \in Slot : at'[t] \notin {"free", "load"} =>
              at[t] \notin {"free", "load"} /\ tries'[t] = tries[t] /\ doing'[t] = doing[t]
      BY <1>5 DEF Succeed, FailJob, Release
    <2> QED
      BY <2>2, <2>3, <2>4, <2>5
  <1>6. ASSUME NEW s \in Slot, Requeue(s)
        PROVE  Counted' /\ AttemptsBounded'
    <2>1. /\ doing[s] \in Job /\ status[doing[s]] # "absent"
          /\ status'[doing[s]] = "queued"
          /\ attempts[doing[s]] < MaxAttempts + deaths
      BY <1>0, <1>6 DEF Requeue, Retryable
    <2>2. /\ UNCHANGED <<attempts, deaths>>
          /\ \A j \in Job : j # doing[s] => status'[j] = status[j]
      BY <1>6 DEF Requeue
    <2>3. \A j \in Job : Exists(j)' <=> Exists(j)
      BY <2>1, <2>2
    <2>4. \A j \in Job : Waits(j)' => Waits(j) \/ j = doing[s]
      <3> SUFFICES ASSUME NEW j \in Job, Waits(j)', j # doing[s]
                   PROVE  Waits(j)
        OBVIOUS
      <3>1. status'[j] = status[j]
        BY <2>2
      <3>2. \A t \in Slot : doing[t] = j => doing'[t] = j
        BY <1>6 DEF Requeue, Release
      <3> QED
        BY <3>1, <3>2
    <2>5. \A t \in Slot : at'[t] \notin {"free", "load"} =>
              at[t] \notin {"free", "load"} /\ tries'[t] = tries[t] /\ doing'[t] = doing[t]
      BY <1>6 DEF Requeue, Release
    <2> QED
      BY <2>1, <2>2, <2>3, <2>4, <2>5
  <1>7. ASSUME NEW s \in Slot, CheckRefund(s) \/ GrantRefund(s)
        PROVE  Counted' /\ AttemptsBounded'
    <2>1. status[doing[s]] = "failed"
      BY <1>7 DEF CheckRefund, GrantRefund
    <2>2. UNCHANGED <<status, attempts, deaths>>
      BY <1>7 DEF CheckRefund, GrantRefund
    <2>3. \/ Release(s)
          \/ at' = [at EXCEPT ![s] = "grant"] /\ at[s] = "refund" /\ UNCHANGED <<doing, tries>>
      BY <1>7 DEF CheckRefund, GrantRefund
    <2>4. CASE Release(s)
      BY <2>1, <2>2, <2>4 DEF Release
    <2>5. CASE at' = [at EXCEPT ![s] = "grant"] /\ at[s] = "refund" /\ UNCHANGED <<doing, tries>>
      BY <2>2, <2>5
    <2> QED
      BY <2>3, <2>4, <2>5
  <1>8. ASSUME NEW s \in Slot, Die(s)
        PROVE  Counted' /\ AttemptsBounded'
    BY <1>0, <1>8 DEF Die, Release
  <1>9. ASSUME NEW m \in Member, Withdraw(m)
        PROVE  Counted' /\ AttemptsBounded'
    BY <1>9 DEF Withdraw, CancelledBy
  <1> QED
    BY <1>1, <1>2, <1>3, <1>4, <1>5, <1>6, <1>7, <1>8, <1>9
       DEF Next, Step, vars, ExpireLease, AllowGrant,
           ClaimCredit, ClawBack, Adjust, LetThrough, MakeGrant, Merge
-----------------------------------------------------------------------------
(* Once a job is refunded no slot holds it, so nothing can revive it or    *)
(* refund it again.                                                        *)
Settled ==
    \A j \in Job : \A row \in Refunds(j) :
        /\ status[j] = "failed"
        /\ \A s \in Slot : doing[s] # j
        /\ \A other \in Refunds(j) : other = row

LEMMA SettledInit ==
    ASSUME Init
    PROVE  Settled
  BY DEF Init, Settled, Refunds, Entry

LEMMA SettledMeansOnce ==
    ASSUME Settled
    PROVE  RefundedOnceAndFailed
  <1> SUFFICES ASSUME NEW j \in Job
               PROVE  /\ Cardinality(Refunds(j)) <= 1
                      /\ Refunds(j) # {} => status[j] = "failed"
    BY DEF RefundedOnceAndFailed
  <1>1. CASE Refunds(j) = {}
    BY <1>1, FS_EmptySet
  <1>2. CASE Refunds(j) # {}
    <2>1. PICK row \in Refunds(j) : TRUE
      BY <1>2
    <2>2. Refunds(j) = {row} /\ status[j] = "failed"
      BY <2>1 DEF Settled
    <2>3. Cardinality({row}) = 1
      BY FS_Singleton
    <2> QED
      BY <2>2, <2>3
  <1> QED
    BY <1>1, <1>2

LEMMA SettledStep ==
    ASSUME GenerationAssumption, Base, Exclusive, Settled, [Next]_vars
    PROVE  Settled'
  <1> USE DEF accounts, calls, jobs, slots
  <1>0. None \notin Job
    BY DEF GenerationAssumption
  (* A step that refunds nothing may touch a refunded job in no way.       *)
  <1>1. ASSUME \A j \in Job : Refunds(j)' = Refunds(j),
               \A j \in Job : status[j] = "failed" /\ (\A s \in Slot : doing[s] # j) =>
                   status'[j] = "failed" /\ \A s \in Slot : doing'[s] # j
        PROVE  Settled'
    BY <1>1 DEF Settled
  <1>2. ASSUME ledger' = ledger
        PROVE  \A j \in Job : Refunds(j)' = Refunds(j)
    BY <1>2 DEF Refunds
  <1>3. ASSUME NEW m, NEW what \in {"job", "forfeit", "merge"} \union Granted, NEW of, NEW amount,
               ledger' = ledger \union {Entry(m, what, of, amount)}
        PROVE  \A j \in Job : Refunds(j)' = Refunds(j)
    BY <1>3 DEF Refunds, Entry, Granted
  <1>4. ASSUME NEW r \in Job, (\E m \in Member : Ask(r, m)) \/ Request(r)
        PROVE  Settled'
    <2>1. CASE Accept(r)
      <3>1. \A j \in Job : Refunds(j)' = Refunds(j)
        BY <1>3, <2>1 DEF Accept, Post
      <3>2. status[r] = "absent"
        BY <2>1 DEF Accept, Base, JobsHaveOwners, Exists
      <3> QED
        BY <1>1, <2>1, <3>1, <3>2 DEF Accept, Base, TypeOK
    <2>2. CASE ledger' = ledger /\ status' = status /\ doing' = doing
      BY <1>1, <1>2, <2>2
    <2> QED
      BY <1>4, <2>1, <2>2 DEF Ask, Request, Refuse, Conflict, Insufficient
  <1>5. ASSUME NEW s \in Slot, NEW j \in Job, Fetch(s, j)
        PROVE  Settled'
    BY <1>1, <1>2, <1>5 DEF Fetch, Fetchable, Base, TypeOK
  <1>6. ASSUME NEW s \in Slot,
               Load(s) \/ Generate(s) \/ Raise(s) \/ CheckWithdrawn(s) \/ CreateResult(s)
        PROVE  Settled'
    BY <1>1, <1>2, <1>6 DEF Load, Generate, Raise, CheckWithdrawn, CreateResult
  <1>7. ASSUME NEW s \in Slot, Succeed(s) \/ Requeue(s) \/ FailJob(s)
        PROVE  Settled'
    BY <1>0, <1>1, <1>2, <1>7 DEF Succeed, Requeue, FailJob, Release, Base, TypeOK
  <1>8. ASSUME NEW s \in Slot, CheckRefund(s) \/ Die(s)
        PROVE  Settled'
    BY <1>0, <1>1, <1>2, <1>8 DEF CheckRefund, Die, Release, Base, TypeOK
  <1>9. ASSUME NEW s \in Slot, GrantRefund(s)
        PROVE  Settled'
    <2>1. PICK d \in Job : d = doing[s]
      BY <1>9 DEF GrantRefund, Base, SlotsHaveJobs, Busy
    <2>2. PICK m \in Member : m = owns[s]
      BY <1>9 DEF GrantRefund, Base, SlotsHaveJobs
    <2> DEFINE new == Entry(m, "refund", d, Cost)
    <2>3. /\ status[d] = "failed" /\ status' = status
          /\ \A t \in Slot : doing'[t] # d
          /\ \A t \in Slot \ {s} : doing'[t] = doing[t]
          /\ doing'[s] = None
      BY <1>0, <1>9, <2>1 DEF GrantRefund, Release, Base, TypeOK, SlotsHaveJobs, Busy, Exclusive,
                              Held, OneRunPerJob
    <2>4. Refunds(d) = {}
      BY <2>1, <1>9 DEF Settled
    <2>5. CASE UNCHANGED <<balance, ledger>>
      BY <1>0, <1>1, <1>2, <2>3, <2>5
    <2>6. CASE Post(m, "refund", d, Cost)
      <3>1. /\ \A row : row \in ledger' <=> row \in ledger \/ row = new
            /\ new.what = "refund" /\ new.of = d
        BY <2>6, PostedRow
      <3> HIDE DEF new
      <3>2. Refunds(d)' = {new}
        BY <2>4, <3>1 DEF Refunds
      <3>3. \A j \in Job \ {d} : Refunds(j)' = Refunds(j)
        BY <3>1 DEF Refunds
      <3>4. \A j \in Job \ {d} : \A row \in Refunds(j)' :
                /\ status'[j] = "failed"
                /\ \A t \in Slot : doing'[t] # j
                /\ \A other \in Refunds(j)' : other = row
        BY <1>0, <2>3, <3>3 DEF Settled
      <3> QED
        BY <2>3, <3>2, <3>4 DEF Settled
    <2> QED
      BY <1>9, <2>1, <2>2, <2>5, <2>6 DEF GrantRefund
  <1>10. ASSUME NEW j \in Job, ExpireLease(j)
         PROVE  Settled'
    BY <1>1, <1>2, <1>10 DEF ExpireLease
  <1>11. ASSUME NEW m \in Member, Withdraw(m)
         PROVE  Settled'
    <2>1. \A j \in Job : Refunds(j)' = Refunds(j)
      BY <1>2, <1>3, <1>11 DEF Withdraw, CancelledBy
    <2> QED
      BY <1>1, <1>11, <2>1 DEF Withdraw, CancelledBy
  <1>12. ASSUME NEW m \in Member, AllowGrant(m) \/ MakeGrant(m)
         PROVE  Settled'
    <2>1. \A j \in Job : Refunds(j)' = Refunds(j)
      <3>1. CASE AllowGrant(m)
        BY <1>2, <3>1, GrantAllowed
      <3>2. CASE MakeGrant(m)
        BY <1>2, <1>3, <3>2, GrantMade DEF Base, Post
      <3> QED
        BY <1>12, <3>1, <3>2
    <2>2. UNCHANGED <<status, doing>>
      BY <1>12, GrantAllowed DEF MakeGrant
    <2> QED
      BY <1>1, <2>1, <2>2
  <1>13. ASSUME NEW g \in Member, NEW m \in Member, Merge(g, m)
         PROVE  Settled'
    <2>1. \A j \in Job : Refunds(j)' = Refunds(j)
      BY <1>2, <1>3, <1>13 DEF Merge
    <2> QED
      BY <1>1, <1>13, <2>1 DEF Merge
  <1>14. CASE UNCHANGED vars
    BY <1>1, <1>2, <1>14 DEF vars
  <1> QED
    BY <1>4, <1>5, <1>6, <1>7, <1>8, <1>9, <1>10, <1>11, <1>12, <1>13, <1>14 DEF Next, Step
-----------------------------------------------------------------------------
(* What holds in addition when a lease outlives every run.                 *)
Leased ==
    LeaseOutlivesRun =>
        /\ Exclusive
        /\ Counted /\ AttemptsBounded
        /\ Settled

(* The inductive invariant of a worker whose leases outlive its runs.      *)
THEOREM LeaseInvariant == Spec => [](Sound /\ Leased)
  <1>1. Init => Sound /\ Leased
    <2>1. Init => Sound
      BY GenerationAssumption, BaseInit, ResultInit, PaidInit, IntentInit DEF Sound
    <2>2. Init => Leased
      BY GenerationAssumption, ExclusiveInit, CountedInit, SettledInit DEF Leased
    <2> QED
      BY <2>1, <2>2
  <1>2. Sound /\ Leased /\ [Next]_vars => Sound' /\ Leased'
    <2>1. Sound /\ [Next]_vars => Sound'
      BY GenerationAssumption, BaseStep, ResultStep, PaidStep, IntentStep DEF Sound
    <2>2. Sound /\ Leased /\ [Next]_vars => Leased'
      BY GenerationAssumption, ExclusiveStep, CountedStep, SettledStep DEF Sound, Leased
    <2> QED
      BY <2>1, <2>2
  <1> QED
    BY <1>1, <1>2, PTL DEF Spec

(* Two slots never run the same job.                                       *)
THEOREM OneSlotPerJob == Spec => [](LeaseOutlivesRun => OneRunPerJob)
  <1>1. Leased => (LeaseOutlivesRun => OneRunPerJob)
    BY DEF Leased, Exclusive
  <1> QED
    BY <1>1, LeaseInvariant, PTL

(* A job is tried MAX_ATTEMPTS times and once more for each death.         *)
THEOREM AttemptsAreBounded == Spec => [](LeaseOutlivesRun => AttemptsBounded)
  <1>1. Leased => (LeaseOutlivesRun => AttemptsBounded)
    BY DEF Leased
  <1> QED
    BY <1>1, LeaseInvariant, PTL

(* A job is refunded at most once, and only when it failed for good.       *)
THEOREM RefundsOnce == Spec => [](LeaseOutlivesRun => RefundedOnceAndFailed)
  <1>1. Leased => (LeaseOutlivesRun => RefundedOnceAndFailed)
    BY SettledMeansOnce DEF Leased
  <1> QED
    BY <1>1, LeaseInvariant, PTL
-----------------------------------------------------------------------------
(* Without withdrawals a slot's job is processing until the slot ends it.  *)
Running ==
    \A s \in Slot :
        at[s] \in {"load", "generate", "check", "result", "succeed", "handle"} =>
            status[doing[s]] = "processing"

LEMMA RunningStep ==
    ASSUME GenerationAssumption, Leaver = {}, Base, Exclusive, Running, [Next]_vars
    PROVE  Running'
  <1> USE DEF accounts, calls, jobs, slots, Base, TypeOK, SlotsHaveJobs, Busy, Running
  <1>0. \A s, t \in Slot : Busy(t) /\ s # t => doing[s] # doing[t]
    BY DEF Exclusive, OneRunPerJob, GenerationAssumption
  <1>1. CASE UNCHANGED <<status, at, doing>>
    BY <1>1
  <1>2. ASSUME NEW r \in Job, (\E m \in Member : Ask(r, m)) \/ Request(r)
        PROVE  Running'
    <2>1. CASE Accept(r)
      <3>1. \A s \in Slot : Busy(s) => doing[s] # r
        BY <2>1 DEF Accept, JobsHaveOwners
      <3> QED
        BY <2>1, <3>1 DEF Accept
    <2> QED
      BY <1>2, <2>1 DEF Ask, Request, Refuse, Conflict, Insufficient
  <1>3. ASSUME NEW s \in Slot, NEW j \in Job, Fetch(s, j)
        PROVE  Running'
    BY <1>3 DEF Fetch
  <1>4. ASSUME NEW s \in Slot,
               Load(s) \/ Generate(s) \/ Raise(s) \/ CheckWithdrawn(s) \/ CreateResult(s)
        PROVE  Running'
    BY <1>4 DEF Load, Generate, Raise, CheckWithdrawn, CreateResult
  <1>5. ASSUME NEW s \in Slot, Succeed(s) \/ Requeue(s)
        PROVE  Running'
    <2>1. \A t \in Slot \ {s} : Busy(t) => doing[t] # doing[s]
      BY <1>0
    <2> QED
      BY <1>5, <2>1 DEF Succeed, Requeue, Release
  <1>6. ASSUME NEW s \in Slot, FailJob(s)
        PROVE  Running'
    <2>1. \A t \in Slot \ {s} : Busy(t) => doing[t] # doing[s]
      BY <1>0
    <2> QED
      BY <1>6, <2>1 DEF FailJob
  <1>7. ASSUME NEW s \in Slot, CheckRefund(s) \/ GrantRefund(s) \/ Die(s)
        PROVE  Running'
    <2>1. status' = status
      BY <1>7 DEF CheckRefund, GrantRefund, Die
    <2>2. CASE Release(s)
      BY <2>1, <2>2 DEF Release
    <2>3. CASE at' = [at EXCEPT ![s] = "grant"] /\ UNCHANGED doing
      BY <2>1, <2>3
    <2> QED
      BY <1>7, <2>2, <2>3 DEF CheckRefund, GrantRefund, Die
  <1>8. \A m \in Member : ~Withdraw(m)
    BY DEF Withdraw
  <1> QED
    BY <1>1, <1>2, <1>3, <1>4, <1>5, <1>6, <1>7, <1>8
       DEF Next, Step, vars, ExpireLease, AllowGrant,
           ClaimCredit, ClawBack, Adjust, LetThrough, MakeGrant, Merge
-----------------------------------------------------------------------------
(* The phase of a job is read from its status and its refund.              *)
LEMMA PhaseKept ==
    ASSUME NEW j \in Job, TypeOK, TypeOK',
           \/ status[j] \in {"queued", "processing"} /\ status'[j] \in {"queued", "processing"}
           \/ status'[j] = status[j] /\ Refunds(j)' = Refunds(j)
    PROVE  Phase(j)' = Phase(j)
  BY DEF TypeOK, Phase

LEMMA PhaseBefore ==
    ASSUME NEW j \in Job
    PROVE  /\ status[j] = "absent" => Phase(j) = "none"
           /\ status[j] \in {"queued", "processing"} => Phase(j) = "paid"
           /\ status[j] = "succeeded" => Phase(j) = "delivered"
           /\ status[j] = "failed" /\ Refunds(j) = {} => Phase(j) = "failed"
           /\ status[j] = "failed" /\ Refunds(j) # {} => Phase(j) = "refunded"
  BY DEF Phase

LEMMA PhaseAfter ==
    ASSUME NEW j \in Job
    PROVE  /\ status'[j] = "queued" => Phase(j)' = "paid"
           /\ status'[j] = "succeeded" => Phase(j)' = "delivered"
           /\ status'[j] = "failed" /\ Refunds(j)' = {} => Phase(j)' = "failed"
           /\ status'[j] = "failed" /\ Refunds(j)' # {} => Phase(j)' = "refunded"
  BY DEF Phase

ImageOf == {j \in Job : result[j] # "none"}

LEMMA MovesOne ==
    ASSUME NEW d \in Job, NEW from, NEW to,
           Phase(d) = from, Phase(d)' = to,
           \A j \in Job \ {d} : Phase(j)' = Phase(j),
           ImageOf' = ImageOf
    PROVE  Promise!Move(d, from, to)
  <1> DEFINE before == [j \in Job |-> Phase(j)]
  <1>1. [j \in Job |-> Phase(j)]' = [before EXCEPT ![d] = to]
    <2>1. [j \in Job |-> Phase(j)]' = [j \in Job |-> Phase(j)']
      OBVIOUS
    <2>2. [before EXCEPT ![d] = to] = [j \in Job |-> IF j = d THEN to ELSE Phase(j)]
      OBVIOUS
    <2>3. \A j \in Job : Phase(j)' = IF j = d THEN to ELSE Phase(j)
      OBVIOUS
    <2> QED
      BY <2>1, <2>2, <2>3
  <1>2. before[d] = from
    OBVIOUS
  <1> QED
    BY <1>1, <1>2 DEF Promise!Move, ImageOf

LEMMA MovesNone ==
    ASSUME \A j \in Job : Phase(j)' = Phase(j),
           ImageOf' = ImageOf
    PROVE  UNCHANGED Promise!vars
  <1>1. [j \in Job |-> Phase(j)]' = [j \in Job |-> Phase(j)]
    OBVIOUS
  <1> QED
    BY <1>1 DEF Promise!vars, ImageOf

LEMMA PromiseInit ==
    ASSUME Init
    PROVE  Promise!Init
  <1>1. \A j \in Job : Phase(j) = "none"
    BY PhaseBefore DEF Init
  <1>2. [j \in Job |-> Phase(j)] = [j \in Job |-> "none"]
    BY <1>1
  <1>3. {j \in Job : result[j] # "none"} = {}
    BY DEF Init
  <1> QED
    BY <1>2, <1>3 DEF Promise!Init

(* Every step is a step of the promise or changes nothing of it.           *)
LEMMA PromiseStep ==
    ASSUME GenerationAssumption, Leaver = {}, Base, Base', SucceedHasResult, Exclusive,
           Running, Settled, Settled', [Next]_vars
    PROVE  [Promise!Next]_(Promise!vars)
  <1> USE DEF accounts, calls, jobs, slots
  <1>0. TypeOK /\ TypeOK'
    BY DEF Base
  <1>1. ASSUME ledger' = ledger
        PROVE  \A j \in Job : Refunds(j)' = Refunds(j)
    BY <1>1 DEF Refunds
  <1>2. ASSUME NEW m, NEW what \in {"job", "merge"} \union Granted, NEW of, NEW amount,
               ledger' = ledger \union {Entry(m, what, of, amount)}
        PROVE  \A j \in Job : Refunds(j)' = Refunds(j)
    BY <1>2 DEF Refunds, Entry, Granted
  <1>3. ASSUME UNCHANGED <<status, result>>, \A j \in Job : Refunds(j)' = Refunds(j)
        PROVE  UNCHANGED Promise!vars
    <2>1. \A j \in Job : Phase(j)' = Phase(j)
      BY <1>0, <1>3, PhaseKept
    <2> QED
      BY <1>3, <2>1, MovesNone DEF ImageOf
  <1>4. \A d \in Job : status[d] # "failed" => Refunds(d) = {}
    BY DEF Settled
  <1>5. ASSUME NEW r \in Job, Accept(r)
        PROVE  Promise!Next
    <2>1. status[r] = "absent" /\ status'[r] = "queued"
          /\ \A j \in Job \ {r} : status'[j] = status[j]
      BY <1>0, <1>5 DEF Accept, TypeOK, Base, JobsHaveOwners, Exists
    <2>2. \A j \in Job : Refunds(j)' = Refunds(j)
      BY <1>2, <1>5 DEF Accept, Post
    <2>3. Phase(r) = "none" /\ Phase(r)' = "paid"
      BY <2>1, PhaseBefore, PhaseAfter
    <2>4. \A j \in Job \ {r} : Phase(j)' = Phase(j)
      BY <1>0, <2>1, <2>2, PhaseKept
    <2>5. ImageOf' = ImageOf
      BY <1>5 DEF Accept, ImageOf
    <2> QED
      BY <2>3, <2>4, <2>5, MovesOne DEF Promise!Next, Promise!Pay
  <1>6. ASSUME NEW s \in Slot, CreateResult(s)
        PROVE  Promise!Next
    <2>1. PICK d \in Job : d = doing[s]
      BY <1>6 DEF CreateResult, Base, SlotsHaveJobs, Busy
    <2>2. Phase(d) = "paid"
      BY <1>6, <2>1, PhaseBefore DEF CreateResult, Running
    <2>3. \A j \in Job : Phase(j)' = Phase(j)
      BY <1>0, <1>1, <1>6, PhaseKept DEF CreateResult
    <2>4. [j \in Job |-> Phase(j)]' = [j \in Job |-> Phase(j)]
      BY <2>3
    <2>5. {j \in Job : result[j] # "none"}' = {j \in Job : result[j] # "none"} \union {d}
      BY <1>0, <1>6, <2>1 DEF CreateResult, TypeOK
    <2> QED
      BY <2>2, <2>4, <2>5 DEF Promise!Next, Promise!Store
  <1>7. ASSUME NEW s \in Slot, Succeed(s)
        PROVE  Promise!Next
    <2>1. PICK d \in Job : d = doing[s]
      BY <1>7 DEF Succeed, Base, SlotsHaveJobs, Busy
    <2>2. /\ status[d] = "processing" /\ status'[d] = "succeeded"
          /\ \A j \in Job \ {d} : status'[j] = status[j]
          /\ result[d] # "none"
      BY <1>0, <1>7, <2>1 DEF Succeed, TypeOK, Running, SucceedHasResult
    <2>3. Phase(d) = "paid" /\ Phase(d)' = "delivered"
      BY <2>2, PhaseBefore, PhaseAfter
    <2>4. \A j \in Job \ {d} : Phase(j)' = Phase(j)
      BY <1>0, <1>1, <1>7, <2>2, PhaseKept DEF Succeed
    <2>5. ImageOf' = ImageOf
      BY <1>7 DEF Succeed, ImageOf
    <2> QED
      BY <2>2, <2>3, <2>4, <2>5, MovesOne DEF Promise!Next, Promise!Deliver
  <1>8. ASSUME NEW s \in Slot, FailJob(s)
        PROVE  Promise!Next
    <2>1. PICK d \in Job : d = doing[s]
      BY <1>8 DEF FailJob, Base, SlotsHaveJobs, Busy
    <2>2. /\ status[d] = "processing" /\ status'[d] = "failed"
          /\ \A j \in Job \ {d} : status'[j] = status[j]
      BY <1>0, <1>8, <2>1 DEF FailJob, TypeOK, Running
    <2>3. Refunds(d) = {} /\ \A j \in Job : Refunds(j)' = Refunds(j)
      BY <1>1, <1>4, <1>8, <2>2 DEF FailJob
    <2>4. Phase(d) = "paid" /\ Phase(d)' = "failed"
      BY <2>2, <2>3, PhaseBefore, PhaseAfter
    <2>5. \A j \in Job \ {d} : Phase(j)' = Phase(j)
      BY <1>0, <2>2, <2>3, PhaseKept
    <2>6. ImageOf' = ImageOf
      BY <1>8 DEF FailJob, ImageOf
    <2> QED
      BY <2>4, <2>5, <2>6, MovesOne DEF Promise!Next, Promise!Fail
  <1>9. ASSUME NEW s \in Slot, GrantRefund(s)
        PROVE  [Promise!Next]_(Promise!vars)
    <2>1. PICK d \in Job : d = doing[s]
      BY <1>9 DEF GrantRefund, Base, SlotsHaveJobs, Busy
    <2>2. PICK m \in Member : m = owns[s]
      BY <1>9 DEF GrantRefund, Base, SlotsHaveJobs
    <2>3. UNCHANGED <<status, result>> /\ status[d] = "failed"
      BY <1>9, <2>1 DEF GrantRefund, Exclusive, Held, Busy
    <2>4. Refunds(d) = {}
      BY <2>1 DEF Settled
    <2>5. CASE UNCHANGED <<balance, ledger>>
      BY <1>1, <1>3, <2>3, <2>5
    <2>6. CASE Post(m, "refund", d, Cost)
      <3> DEFINE new == Entry(m, "refund", d, Cost)
      <3>1. /\ \A row : row \in ledger' <=> row \in ledger \/ row = new
            /\ new.what = "refund" /\ new.of = d
        BY <2>6, PostedRow
      <3> HIDE DEF new
      <3>2. Refunds(d)' # {} /\ \A j \in Job \ {d} : Refunds(j)' = Refunds(j)
        BY <3>1 DEF Refunds
      <3>3. Phase(d) = "failed" /\ Phase(d)' = "refunded"
        BY <2>3, <2>4, <3>2, PhaseBefore, PhaseAfter
      <3>4. \A j \in Job \ {d} : Phase(j)' = Phase(j)
        BY <1>0, <2>3, <3>2, PhaseKept
      <3>5. ImageOf' = ImageOf
        BY <2>3 DEF ImageOf
      <3>6. Promise!Move(d, "failed", "refunded")
        BY <3>3, <3>4, <3>5, MovesOne
      <3> QED
        BY <3>6 DEF Promise!Next, Promise!Refund
    <2> QED
      BY <1>9, <2>1, <2>2, <2>5, <2>6 DEF GrantRefund
  <1>10. ASSUME NEW s \in Slot, (\E j \in Job : Fetch(s, j)) \/ Requeue(s)
         PROVE  UNCHANGED Promise!vars
    <2>1. \A j \in Job : \/ status[j] \in {"queued", "processing"}
                            /\ status'[j] \in {"queued", "processing"}
                         \/ status'[j] = status[j]
      BY <1>0, <1>10 DEF Fetch, Fetchable, Requeue, TypeOK, Running
    <2>2. UNCHANGED <<ledger, result>>
      BY <1>10 DEF Fetch, Requeue
    <2>3. \A j \in Job : Phase(j)' = Phase(j)
      BY <1>0, <1>1, <2>1, <2>2, PhaseKept
    <2> QED
      BY <2>2, <2>3, MovesNone DEF ImageOf
  <1>11. ASSUME UNCHANGED <<status, result, ledger>>
         PROVE  UNCHANGED Promise!vars
    BY <1>1, <1>3, <1>11
  <1>12. ASSUME NEW m \in Member, MakeGrant(m)
         PROVE  UNCHANGED Promise!vars
    <2>1. UNCHANGED <<status, result>>
      BY <1>12 DEF MakeGrant
    <2>2. \A j \in Job : Refunds(j)' = Refunds(j)
      BY <1>0, <1>1, <1>2, <1>12, GrantMade DEF Post
    <2> QED
      BY <1>3, <2>1, <2>2
  <1>13. ASSUME NEW g \in Member, NEW m \in Member, Merge(g, m)
         PROVE  UNCHANGED Promise!vars
    BY <1>1, <1>2, <1>3, <1>13 DEF Merge
  <1>14. \A m \in Member : ~Withdraw(m)
    BY DEF Withdraw
  <1>15. CASE \E r \in Job : (\E m \in Member : Ask(r, m)) \/ Request(r)
    BY <1>5, <1>11, <1>15 DEF Request, Ask, Refuse, Conflict, Insufficient
  <1>16. CASE \E s \in Slot : (\E j \in Job : Fetch(s, j)) \/ Step(s) \/ Die(s)
    BY <1>6, <1>7, <1>8, <1>9, <1>10, <1>11, <1>16
       DEF Step, Load, Generate, Raise, CheckWithdrawn, CheckRefund, Die
  <1>17. CASE \/ \E j \in Job : ExpireLease(j)
              \/ \E m \in Member : Withdraw(m) \/ AllowGrant(m) \/ MakeGrant(m)
              \/ \E g, m \in Member : Merge(g, m)
    BY <1>11, <1>12, <1>13, <1>14, <1>17 DEF ExpireLease, AllowGrant,
           ClaimCredit, ClawBack, Adjust, LetThrough
  <1>18. CASE UNCHANGED vars
    BY <1>11, <1>18 DEF vars
  <1> QED
    BY <1>15, <1>16, <1>17, <1>18 DEF Next
-----------------------------------------------------------------------------
(* A slot ends the job it runs, and it runs no ended job.                  *)
LEMMA EndStep ==
    ASSUME Leaver = {}, Base, Running, [Next]_vars, NEW j \in Job, Ended(j)
    PROVE  status'[j] = status[j]
  <1> USE DEF accounts, calls, jobs, slots, Base, TypeOK, Ended
  <1>1. CASE UNCHANGED status
    BY <1>1
  <1>2. ASSUME NEW r \in Job, Accept(r)
        PROVE  status'[j] = status[j]
    BY <1>2 DEF Accept, JobsHaveOwners, Exists
  <1>3. ASSUME NEW s \in Slot, NEW k \in Job, Fetch(s, k)
        PROVE  status'[j] = status[j]
    BY <1>3 DEF Fetch, Fetchable
  <1>4. ASSUME NEW s \in Slot, Succeed(s) \/ Requeue(s) \/ FailJob(s)
        PROVE  status'[j] = status[j]
    BY <1>4 DEF Succeed, Requeue, FailJob, Running
  <1>5. \A m \in Member : ~Withdraw(m)
    BY DEF Withdraw
  <1> QED
    BY <1>1, <1>2, <1>3, <1>4, <1>5
       DEF Next, Request, Step, vars, Ask, Refuse, Conflict, Insufficient, Load, Generate,
           Raise, CheckWithdrawn, CreateResult, CheckRefund, GrantRefund, Die, ExpireLease,
           AllowGrant, ClaimCredit, ClawBack, Adjust, LetThrough, MakeGrant, Merge

(* With leases that outlive their runs, and as long as nobody withdraws,   *)
(* the queue and its workers keep the promise of JobPromise.               *)
THEOREM ImplementsPromise ==
    ASSUME LeaseOutlivesRun, Leaver = {}
    PROVE  Spec => KeepsPromise
  <1>1. Init => Promise!Init /\ Running
    BY PromiseInit DEF Init, Running
  <1>2. Sound /\ Leased /\ Running /\ [Next]_vars => Running'
    BY GenerationAssumption, RunningStep DEF Sound, Leased
  <1>3. /\ Sound /\ Leased /\ Running /\ [Next]_vars
        /\ Sound' /\ Leased'
        => [Promise!Next]_(Promise!vars)
    BY GenerationAssumption, PromiseStep DEF Sound, Leased
  <1> QED
    BY <1>1, <1>2, <1>3, LeaseInvariant, PTL DEF Spec, KeepsPromise, Promise!Spec

(* Under the same conditions a job that ended stays as it ended.           *)
THEOREM EndsAreFinal ==
    ASSUME LeaseOutlivesRun, Leaver = {}
    PROVE  Spec => EndIsFinal
  <1>1. Init => Running
    BY DEF Init, Running
  <1>2. Sound /\ Leased /\ Running /\ [Next]_vars => Running'
    BY GenerationAssumption, RunningStep DEF Sound, Leased
  <1>3. Sound /\ Running /\ [Next]_vars
        => [\A j \in Job : Ended(j) => status'[j] = status[j]]_vars
    BY EndStep DEF Sound
  <1> QED
    BY <1>1, <1>2, <1>3, LeaseInvariant, PTL DEF Spec, EndIsFinal
-----------------------------------------------------------------------------
(* With withdrawals, the job a slot works on is processing, or a           *)
(* withdrawal has cancelled it.                                            *)
Working(s) == at[s] \in {"load", "generate", "check", "result", "succeed", "handle"}

Cancelled(j) == status[j] = "failed" /\ error[j] = "WITHDRAWN"

RunsOrCancelled ==
    \A s \in Slot : Working(s) => status[doing[s]] = "processing" \/ Cancelled(doing[s])

LEMMA RunsOrCancelledStep ==
    ASSUME GenerationAssumption, Base, Exclusive, RunsOrCancelled, [Next]_vars
    PROVE  RunsOrCancelled'
  <1> USE DEF accounts, calls, jobs, slots, Base, TypeOK, SlotsHaveJobs, Busy, RunsOrCancelled,
              Working, Cancelled
  <1>0. \A s, t \in Slot : Busy(t) /\ s # t => doing[s] # doing[t]
    BY DEF Exclusive, OneRunPerJob, GenerationAssumption
  <1>1. CASE UNCHANGED <<status, error, at, doing>>
    BY <1>1
  <1>2. ASSUME NEW r \in Job, (\E m \in Member : Ask(r, m)) \/ Request(r)
        PROVE  RunsOrCancelled'
    <2>1. CASE Accept(r)
      <3>1. \A s \in Slot : Busy(s) => doing[s] # r
        BY <2>1 DEF Accept, JobsHaveOwners
      <3> QED
        BY <2>1, <3>1 DEF Accept
    <2> QED
      BY <1>2, <2>1 DEF Ask, Request, Refuse, Conflict, Insufficient
  <1>3. ASSUME NEW s \in Slot, NEW j \in Job, Fetch(s, j)
        PROVE  RunsOrCancelled'
    <2>1. \A t \in Slot \ {s} : Busy(t) => doing[t] # j
      BY <1>0, <1>3 DEF Fetch, Fetchable, Exclusive, Held
    <2> QED
      BY <1>3, <2>1 DEF Fetch
  <1>4. ASSUME NEW s \in Slot,
               Load(s) \/ Generate(s) \/ Raise(s) \/ CheckWithdrawn(s) \/ CreateResult(s)
        PROVE  RunsOrCancelled'
    BY <1>4 DEF Load, Generate, Raise, CheckWithdrawn, CreateResult
  <1>5. ASSUME NEW s \in Slot, Succeed(s) \/ Requeue(s)
        PROVE  RunsOrCancelled'
    <2>1. \A t \in Slot \ {s} : Busy(t) => doing[t] # doing[s]
      BY <1>0
    <2> QED
      BY <1>5, <2>1 DEF Succeed, Requeue, Release
  <1>6. ASSUME NEW s \in Slot, FailJob(s)
        PROVE  RunsOrCancelled'
    <2>1. \A t \in Slot \ {s} : Busy(t) => doing[t] # doing[s]
      BY <1>0
    <2> QED
      BY <1>6, <2>1 DEF FailJob
  <1>7. ASSUME NEW s \in Slot, CheckRefund(s) \/ GrantRefund(s) \/ Die(s)
        PROVE  RunsOrCancelled'
    <2>1. UNCHANGED <<status, error>>
      BY <1>7 DEF CheckRefund, GrantRefund, Die
    <2>2. CASE Release(s)
      BY <2>1, <2>2 DEF Release
    <2>3. CASE at' = [at EXCEPT ![s] = "grant"] /\ UNCHANGED doing
      BY <2>1, <2>3
    <2> QED
      BY <1>7, <2>2, <2>3 DEF CheckRefund, GrantRefund, Die
  <1>8. ASSUME NEW m \in Member, Withdraw(m)
        PROVE  RunsOrCancelled'
    <2>1. \A j \in Job : \/ status'[j] = status[j] /\ error'[j] = error[j]
                         \/ Cancelled(j)'
      BY <1>8 DEF Withdraw, CancelledBy
    <2>2. \A s \in Slot : Working(s) => doing[s] \in Job
      OBVIOUS
    <2>3. UNCHANGED <<at, doing>>
      BY <1>8 DEF Withdraw, CancelledBy
    <2> QED
      BY <2>1, <2>2, <2>3
  <1> QED
    BY <1>1, <1>2, <1>3, <1>4, <1>5, <1>6, <1>7, <1>8
       DEF Next, Step, vars, ExpireLease, AllowGrant,
           ClaimCredit, ClawBack, Adjust, LetThrough, MakeGrant, Merge

LEMMA ReturnStep ==
    ASSUME Base, RunsOrCancelled, [Next]_vars, NEW j \in Job, Ended(j), status'[j] # status[j]
    PROVE  Cancelled(j)
  <1> USE DEF accounts, calls, jobs, slots, Base, TypeOK, Ended
  <1>1. CASE UNCHANGED status
    BY <1>1
  <1>2. ASSUME NEW r \in Job, Accept(r)
        PROVE  status'[j] = status[j]
    BY <1>2 DEF Accept, JobsHaveOwners, Exists
  <1>3. ASSUME NEW s \in Slot, NEW k \in Job, Fetch(s, k)
        PROVE  status'[j] = status[j]
    BY <1>3 DEF Fetch, Fetchable
  <1>4. ASSUME NEW s \in Slot, Succeed(s) \/ Requeue(s) \/ FailJob(s)
        PROVE  Cancelled(j)
    BY <1>4 DEF Succeed, Requeue, FailJob, RunsOrCancelled, Working
  <1>5. ASSUME NEW m \in Member, Withdraw(m)
        PROVE  status'[j] = status[j]
    BY <1>5 DEF Withdraw, CancelledBy
  <1> QED
    BY <1>1, <1>2, <1>3, <1>4, <1>5
       DEF Next, Request, Step, vars, Ask, Refuse, Conflict, Insufficient, Load, Generate,
           Raise, CheckWithdrawn, CreateResult, CheckRefund, GrantRefund, Die, ExpireLease,
           AllowGrant, ClaimCredit, ClawBack, Adjust, LetThrough, MakeGrant, Merge

(* With leases that outlive their runs, only a job that a withdrawal       *)
(* cancelled ever leaves the end it reached (worker.py:296,                *)
(* worker.py:311): every other end is final, whoever withdraws, dies or is *)
(* merged.                                                                 *)
THEOREM OnlyCancelledReturnHolds ==
    ASSUME LeaseOutlivesRun
    PROVE  Spec => OnlyCancelledReturn
  <1>1. Init => RunsOrCancelled
    BY DEF Init, RunsOrCancelled, Working
  <1>2. Sound /\ Leased /\ RunsOrCancelled /\ [Next]_vars => RunsOrCancelled'
    BY GenerationAssumption, RunsOrCancelledStep DEF Sound, Leased
  <1>3. Sound /\ RunsOrCancelled /\ [Next]_vars
        => [\A j \in Job :
                Ended(j) /\ status'[j] # status[j]
                  => status[j] = "failed" /\ error[j] = "WITHDRAWN"]_vars
    BY ReturnStep DEF Sound, Cancelled
  <1> QED
    BY <1>1, <1>2, <1>3, LeaseInvariant, PTL DEF Spec, OnlyCancelledReturn
-----------------------------------------------------------------------------
(* Totals.  The library's theorems about sums and about induction take an  *)
(* operator as a parameter, which no prover here can instantiate.  A least *)
(* counterexample (WFMin) takes none, and gives induction for a property   *)
(* written as a set of numbers.                                            *)
Below == {p \in Nat \X Nat : p[1] < p[2]}

LEMMA BelowWellFounded == IsWellFoundedOn(Below, Nat)
  <1>1. Below = OpToRel(<, Nat)
    BY Zenon DEF Below, OpToRel
  <1> QED
    BY <1>1, NatLessThanWellFounded, Zenon

LEMMA Induct ==
    ASSUME NEW S, 0 \in S, \A n \in Nat : n \in S => n + 1 \in S
    PROVE  Nat \subseteq S
  <1> SUFFICES ASSUME Nat \ S # {} PROVE FALSE
    OBVIOUS
  <1>1. \E x \in Nat \ S : \A y \in Nat \ S : ~(<<y, x>> \in Below)
    BY BelowWellFounded, WFMin, Zenon
  <1>2. PICK x \in Nat \ S : \A y \in Nat \ S : ~(<<y, x>> \in Below)
    BY <1>1
  <1>3. x # 0 /\ x - 1 \in Nat /\ x - 1 < x
    OBVIOUS
  <1>4. x - 1 \in S
    BY <1>2, <1>3 DEF Below
  <1>5. (x - 1) + 1 = x
    OBVIOUS
  <1> QED
    BY <1>3, <1>4, <1>5

(* Total is a sum over a function CHOOSEn to satisfy a recursion on the    *)
(* subsets of S: First is the row the recursion takes, FirstAndRest its    *)
(* other side, and Counts(g, S) says that g satisfies it.                  *)
First(s) == CHOOSE row \in s : TRUE

FirstAndRest(g, s) == IF s = {} THEN 0 ELSE First(s).amount + g[s \ {First(s)}]

Counts(g, S) == g = [s \in SUBSET S |-> FirstAndRest(g, s)]

LEMMA TotalIs ==
    ASSUME NEW S
    PROVE  Total(S) = (CHOOSE g : Counts(g, S))[S]
  BY DEF Total, MapThenSumSet, MapThenFoldSet, Counts, FirstAndRest, First

(* The recursion goes down by one row.                                     *)
LEMMA WithoutFirst ==
    ASSUME NEW T, IsFiniteSet(T), T # {}, NEW n \in Nat, Cardinality(T) <= n + 1
    PROVE  /\ First(T) \in T
           /\ IsFiniteSet(T \ {First(T)}) /\ Cardinality(T \ {First(T)}) <= n
  <1>1. First(T) \in T
    BY DEF First
  <1>2. IsFiniteSet(T \ {First(T)}) /\ Cardinality(T \ {First(T)}) = Cardinality(T) - 1
    BY <1>1, FS_RemoveElement
  <1>3. Cardinality(T) \in Nat
    BY FS_CardinalityType
  <1> QED
    BY <1>1, <1>2, <1>3

(* For the subsets of at most n rows there is a function that counts them, *)
(* and all functions that do agree, whichever larger set they count.       *)
CountTo(n, S) ==
  \A T \in SUBSET S : Cardinality(T) <= n =>
    /\ \E g : Counts(g, T)
    /\ \A g, U : Counts(g, U) /\ T \subseteq U => g[T] = Total(T)

LEMMA CountsEmpty ==
  /\ \E g : Counts(g, {})
  /\ \A g, U : Counts(g, U) => g[{}] = 0
  /\ Total({}) = 0
  <1>1. Counts([s \in SUBSET {} |-> 0], {})
    BY DEF Counts, FirstAndRest
  <1>2. \A g, U : Counts(g, U) => g[{}] = 0
    BY DEF Counts, FirstAndRest
  <1>3. Counts(CHOOSE g : Counts(g, {}), {})
    BY <1>1
  <1> QED
    BY <1>1, <1>2, <1>3, TotalIs

LEMMA CountsFirst ==
    ASSUME NEW g, NEW U, Counts(g, U), NEW T \in SUBSET U, T # {}
    PROVE  g[T] = First(T).amount + g[T \ {First(T)}]
  BY DEF Counts, FirstAndRest

(* The function for n + 1 rows counts its first row and takes the total of *)
(* the rest, which the induction hypothesis gives.                         *)
LEMMA CountNext ==
    ASSUME NEW S, IsFiniteSet(S), NEW n \in Nat, CountTo(n, S)
    PROVE  CountTo(n + 1, S)
  <1> SUFFICES ASSUME NEW T \in SUBSET S, Cardinality(T) <= n + 1
               PROVE  /\ \E g : Counts(g, T)
                      /\ \A g, U : Counts(g, U) /\ T \subseteq U => g[T] = Total(T)
    BY DEF CountTo
  <1> DEFINE t == [s \in SUBSET T |-> Total(s)]
             g0 == [s \in SUBSET T |-> FirstAndRest(t, s)]
  <1>1. IsFiniteSet(T)
    BY FS_Subset
  <1>2. ASSUME NEW s \in SUBSET T, s # {}
        PROVE  /\ First(s) \in s /\ s \ {First(s)} \in SUBSET S /\ s \ {First(s)} \in SUBSET T
               /\ Cardinality(s \ {First(s)}) <= n
    <2>1. IsFiniteSet(s) /\ Cardinality(s) <= Cardinality(T)
      BY <1>1, FS_Subset
    <2>2. Cardinality(s) \in Nat /\ Cardinality(T) \in Nat
      BY <1>1, <2>1, FS_CardinalityType
    <2>3. Cardinality(s) <= n + 1
      BY <2>1, <2>2
    <2> QED
      BY <1>2, <2>1, <2>3, WithoutFirst
  <1>3. ASSUME NEW s \in SUBSET T, Cardinality(s) <= n
        PROVE  Total(s) = FirstAndRest(t, s)
    <2>1. CASE s = {}
      BY <2>1, CountsEmpty DEF FirstAndRest
    <2>2. CASE s # {}
      <3>1. PICK h : Counts(h, s)
        BY <1>3 DEF CountTo
      <3>2. Total(s) = h[s]
        BY <1>3, <3>1 DEF CountTo
      <3>3. h[s] = First(s).amount + h[s \ {First(s)}]
        BY <2>2, <3>1, CountsFirst
      <3>4. h[s \ {First(s)}] = Total(s \ {First(s)})
        BY <1>2, <2>2, <3>1 DEF CountTo
      <3> QED
        BY <1>2, <2>2, <3>2, <3>3, <3>4 DEF FirstAndRest
    <2> QED
      BY <2>1, <2>2
  <1>4. Counts(g0, T)
    <2>1. ASSUME NEW s \in SUBSET T
          PROVE  FirstAndRest(t, s) = FirstAndRest(g0, s)
      <3>1. CASE s = {}
        BY <3>1 DEF FirstAndRest
      <3>2. CASE s # {}
        <4>1. t[s \ {First(s)}] = g0[s \ {First(s)}]
          BY <1>2, <1>3, <3>2
        <4> QED
          BY <3>2, <4>1 DEF FirstAndRest
      <3> QED
        BY <3>1, <3>2
    <2> QED
      BY <2>1 DEF Counts
  <1>5. ASSUME NEW g, NEW U, Counts(g, U), T \subseteq U, T # {}
        PROVE  g[T] = First(T).amount + Total(T \ {First(T)})
    <2>1. g[T] = First(T).amount + g[T \ {First(T)}]
      BY <1>5, CountsFirst
    <2>2. g[T \ {First(T)}] = Total(T \ {First(T)})
      BY <1>2, <1>5 DEF CountTo
    <2> QED
      BY <2>1, <2>2
  <1>6. Counts(CHOOSE g : Counts(g, T), T)
    BY <1>4
  <1>7. T # {} => Total(T) = First(T).amount + Total(T \ {First(T)})
    BY <1>5, <1>6, TotalIs
  <1>8. \A g, U : Counts(g, U) /\ T \subseteq U /\ T = {} => g[T] = Total(T)
    BY CountsEmpty
  <1>9. \A g, U : Counts(g, U) /\ T \subseteq U /\ T # {} => g[T] = Total(T)
    BY <1>5, <1>7
  <1> QED
    BY <1>4, <1>8, <1>9

(* A total is the first row's amount and the total of the other rows.      *)
LEMMA TotalFirst ==
    ASSUME NEW S, IsFiniteSet(S), S # {}
    PROVE  Total(S) = First(S).amount + Total(S \ {First(S)})
  <1> DEFINE N == {n \in Nat : CountTo(n, S)}
  <1>1. 0 \in N
    <2>1. ASSUME NEW T \in SUBSET S, Cardinality(T) <= 0
          PROVE  T = {}
      BY <2>1, FS_Subset, FS_CardinalityType, FS_EmptySet
    <2>2. CountTo(0, S)
      BY <2>1, CountsEmpty DEF CountTo
    <2> QED
      BY <2>2
  <1>2. \A n \in Nat : n \in N => n + 1 \in N
    BY CountNext
  <1>3. Nat \subseteq N
    <2> HIDE DEF N
    <2> QED
      BY <1>1, <1>2, Induct
  <1>4. Cardinality(S) \in Nat
    BY FS_CardinalityType
  <1>5. CountTo(Cardinality(S), S)
    BY <1>3, <1>4
  <1>6. PICK g : Counts(g, S)
    BY <1>4, <1>5 DEF CountTo
  <1>7. g[S] = Total(S)
    BY <1>4, <1>5, <1>6 DEF CountTo
  <1>8. S \ {First(S)} \in SUBSET S /\ Cardinality(S \ {First(S)}) <= Cardinality(S)
    BY FS_Subset
  <1>9. g[S \ {First(S)}] = Total(S \ {First(S)})
    BY <1>5, <1>6, <1>8 DEF CountTo
  <1> QED
    BY <1>6, <1>7, <1>9, CountsFirst

(* It may be counted in any order: any row may be taken first.  Two rows   *)
(* swap, because the rest is one row smaller.                              *)
Amounts(S) == \A row \in S : row.amount \in Int

AnyOrder(n, S) ==
  \A T \in SUBSET S : Cardinality(T) <= n =>
    /\ Total(T) \in Int
    /\ \A row \in T : Total(T) = row.amount + Total(T \ {row})

LEMMA AnyOrderNext ==
    ASSUME NEW S, IsFiniteSet(S), Amounts(S), NEW n \in Nat, AnyOrder(n, S)
    PROVE  AnyOrder(n + 1, S)
  <1> SUFFICES ASSUME NEW T \in SUBSET S, Cardinality(T) <= n + 1
               PROVE  /\ Total(T) \in Int
                      /\ \A row \in T : Total(T) = row.amount + Total(T \ {row})
    BY DEF AnyOrder
  <1>1. CASE T = {}
    BY <1>1, CountsEmpty
  <1>2. CASE T # {}
    <2> DEFINE c == First(T)
    <2>1. IsFiniteSet(T)
      BY FS_Subset
    <2>2. Total(T) = c.amount + Total(T \ {c})
      BY <1>2, <2>1, TotalFirst
    <2>3. ASSUME NEW row \in T
          PROVE  T \ {row} \in SUBSET S /\ Cardinality(T \ {row}) <= n
      <3>1. Cardinality(T \ {row}) = Cardinality(T) - 1
        BY <2>1, FS_RemoveElement
      <3>2. Cardinality(T) \in Nat
        BY <2>1, FS_CardinalityType
      <3> QED
        BY <3>1, <3>2
    <2>4. \A row \in T : Total(T \ {row}) \in Int /\ row.amount \in Int
      BY <2>3 DEF AnyOrder, Amounts
    <2>5. c \in T
      BY <1>2 DEF First
    <2>6. ASSUME NEW row \in T, row # c
          PROVE  Total(T) = row.amount + Total(T \ {row})
      <3>1. (T \ {c}) \ {row} = (T \ {row}) \ {c} /\ row \in T \ {c} /\ c \in T \ {row}
        BY <2>5, <2>6
      <3> DEFINE rest == (T \ {c}) \ {row}
      <3>2. Total(T \ {c}) = row.amount + Total(rest)
        BY <2>3, <2>5, <3>1 DEF AnyOrder
      <3>3. Total(T \ {row}) = c.amount + Total(rest)
        BY <2>3, <3>1 DEF AnyOrder
      <3>4. rest \in SUBSET S /\ Cardinality(rest) <= n
        <4>1. IsFiniteSet(T \ {c})
          BY <2>1, FS_Subset
        <4>2. Cardinality(rest) <= Cardinality(T \ {c}) /\ IsFiniteSet(rest)
          BY <4>1, FS_Subset
        <4>3. Cardinality(rest) \in Nat /\ Cardinality(T \ {c}) \in Nat
          BY <4>1, <4>2, FS_CardinalityType
        <4> QED
          BY <2>3, <2>5, <4>2, <4>3
      <3>5. Total(rest) \in Int
        BY <3>4 DEF AnyOrder
      <3> HIDE DEF rest, c
      <3> QED
        BY <2>2, <2>4, <2>5, <3>2, <3>3, <3>5
    <2>7. Total(T) \in Int
      BY <2>2, <2>4, <2>5
    <2>8. ASSUME NEW row \in T
          PROVE  Total(T) = row.amount + Total(T \ {row})
      <3>1. CASE row = c
        BY <2>2, <3>1
      <3>2. CASE row # c
        BY <2>6, <3>2
      <3> QED
        BY <3>1, <3>2
    <2> QED
      BY <2>7, <2>8
  <1> QED
    BY <1>1, <1>2

LEMMA TotalAnyOrder ==
    ASSUME NEW S, IsFiniteSet(S), Amounts(S)
    PROVE  /\ Total(S) \in Int
           /\ \A row \in S : Total(S) = row.amount + Total(S \ {row})
  <1> DEFINE N == {n \in Nat : AnyOrder(n, S)}
  <1>1. 0 \in N
    <2>1. ASSUME NEW T \in SUBSET S, Cardinality(T) <= 0
          PROVE  T = {}
      BY <2>1, FS_Subset, FS_CardinalityType, FS_EmptySet
    <2>2. Total({}) \in Int
      BY CountsEmpty
    <2>3. AnyOrder(0, S)
      BY <2>1, <2>2, Zenon DEF AnyOrder
    <2> QED
      BY <2>3
  <1>2. \A n \in Nat : n \in N => n + 1 \in N
    BY AnyOrderNext
  <1>3. Nat \subseteq N
    <2> HIDE DEF N
    <2> QED
      BY <1>1, <1>2, Induct
  <1>4. Cardinality(S) \in Nat
    BY FS_CardinalityType
  <1>5. AnyOrder(Cardinality(S), S)
    BY <1>3, <1>4
  <1> QED
    BY <1>4, <1>5 DEF AnyOrder

(* What the books need: a new row adds its amount.                         *)
LEMMA TotalGrows ==
    ASSUME NEW S, IsFiniteSet(S), Amounts(S), NEW row, row.amount \in Int, row \notin S
    PROVE  /\ IsFiniteSet(S \union {row}) /\ Amounts(S \union {row})
           /\ Total(S) \in Int /\ Total(S \union {row}) = Total(S) + row.amount
  <1>1. IsFiniteSet(S \union {row})
    BY FS_AddElement
  <1>2. Amounts(S \union {row})
    BY DEF Amounts
  <1>3. Total(S \union {row}) = row.amount + Total((S \union {row}) \ {row})
    BY <1>1, <1>2, TotalAnyOrder
  <1>4. (S \union {row}) \ {row} = S
    OBVIOUS
  <1>5. Total(S) \in Int
    BY TotalAnyOrder
  <1>6. Total(S \union {row}) = row.amount + Total(S)
    BY <1>3, <1>4, Zenon
  <1>7. Total(S \union {row}) = Total(S) + row.amount
    BY <1>5, <1>6
  <1> QED
    BY <1>1, <1>2, <1>5, <1>7
-----------------------------------------------------------------------------
(* The totals are sums of finitely many rows.                              *)
TotalsCount ==
    \A m \in Member :
        /\ IsFiniteSet(RowsOf(m)) /\ IsFiniteSet(MovedFrom(m))
        /\ Total(MovedFrom(m)) >= 0

(* A forfeit belongs to a member who left, and a merge row to a guest who  *)
(* was merged: an account that is active has neither.                      *)
RowsOfTheGone ==
    \A row \in ledger :
        /\ row.what = "forfeit" => row.member \in withdrawn
        /\ row.what = "merge" => row.of \in Member /\ mergedInto[row.of] # None

BooksInv ==
    /\ TotalsCount
    /\ RowsOfTheGone
    /\ BalanceIsLedgerSum

(* What a member's balance and rows say of each other (BalanceIsLedgerSum, *)
(* of one member).                                                         *)
Balanced(m) ==
    \/ balance[m] = Due(m)
    \/ m \in withdrawn /\ ~Posted(m, "forfeit", None) /\ balance[m] > Due(m)

(* A claim takes nothing away.                                             *)
ClaimsGive == \A row \in granting : row.what = "claim" => row.amount >= 0

LEMMA RowAmounts ==
    ASSUME ledger \subseteq Row, NEW m
    PROVE  Amounts(RowsOf(m)) /\ Amounts(MovedFrom(m))
  BY DEF Row, Amounts, RowsOf, MovedFrom

(* What a new row does to the totals.                                      *)
LEMMA RowPosted ==
    ASSUME ledger \subseteq Row, TotalsCount,
           NEW row \in Row, row \notin ledger, ledger' = ledger \union {row}, NEW m \in Member
    PROVE  /\ IsFiniteSet(RowsOf(m)')
           /\ Total(RowsOf(m)) \in Int
           /\ Total(RowsOf(m)') = IF row.member = m THEN Total(RowsOf(m)) + row.amount
                                  ELSE Total(RowsOf(m))
  <1>1. row.amount \in Int
    BY DEF Row
  <1>2. IsFiniteSet(RowsOf(m)) /\ Amounts(RowsOf(m)) /\ row \notin RowsOf(m)
    BY RowAmounts DEF TotalsCount, RowsOf
  <1>3. CASE row.member = m
    <2> DEFINE S == RowsOf(m)
    <2>1. RowsOf(m)' = S \union {row}
      BY <1>3 DEF RowsOf
    <2>2. /\ IsFiniteSet(S \union {row}) /\ Total(S) \in Int
          /\ Total(S \union {row}) = Total(S) + row.amount
      <3>1. IsFiniteSet(S) /\ Amounts(S) /\ row \notin S
        BY <1>2
      <3> HIDE DEF S
      <3> QED
        BY <1>1, <3>1, TotalGrows
    <2> QED
      BY <1>3, <2>1, <2>2
  <1>4. CASE row.member # m
    <2>1. RowsOf(m)' = RowsOf(m)
      BY <1>4 DEF RowsOf
    <2> QED
      BY <1>2, <1>4, <2>1, TotalAnyOrder
  <1> QED
    BY <1>3, <1>4

LEMMA RowMoved ==
    ASSUME ledger \subseteq Row, TotalsCount,
           NEW row \in Row, row \notin ledger, ledger' = ledger \union {row}, NEW m \in Member
    PROVE  /\ IsFiniteSet(MovedFrom(m)')
           /\ Total(MovedFrom(m)) \in Int
           /\ Total(MovedFrom(m)') =
                IF row.what = "merge" /\ row.of = m THEN Total(MovedFrom(m)) + row.amount
                ELSE Total(MovedFrom(m))
  <1>1. row.amount \in Int
    BY DEF Row
  <1>2. IsFiniteSet(MovedFrom(m)) /\ Amounts(MovedFrom(m)) /\ row \notin MovedFrom(m)
    BY RowAmounts DEF TotalsCount, MovedFrom
  <1>3. CASE row.what = "merge" /\ row.of = m
    <2> DEFINE S == MovedFrom(m)
    <2>1. MovedFrom(m)' = S \union {row}
      BY <1>3 DEF MovedFrom
    <2>2. /\ IsFiniteSet(S \union {row}) /\ Total(S) \in Int
          /\ Total(S \union {row}) = Total(S) + row.amount
      <3>1. IsFiniteSet(S) /\ Amounts(S) /\ row \notin S
        BY <1>2
      <3> HIDE DEF S
      <3> QED
        BY <1>1, <3>1, TotalGrows
    <2> QED
      BY <1>3, <2>1, <2>2
  <1>4. CASE ~(row.what = "merge" /\ row.of = m)
    <2>1. MovedFrom(m)' = MovedFrom(m)
      BY <1>4 DEF MovedFrom
    <2> QED
      BY <1>2, <1>4, <2>1, TotalAnyOrder
  <1> QED
    BY <1>3, <1>4

LEMMA TotalsAreInts ==
    ASSUME ledger \subseteq Row, TotalsCount, NEW m \in Member
    PROVE  Total(RowsOf(m)) \in Int /\ Total(MovedFrom(m)) \in Int
  BY RowAmounts, TotalAnyOrder DEF TotalsCount

-----------------------------------------------------------------------------
LEMMA BooksInit ==
    ASSUME GenerationAssumption, Init
    PROVE  BooksInv
  <1> DEFINE first(m) == Entry(m, "opening", None, Opening)
  <1>1. \A m \in Member : RowsOf(m) = {first(m)} /\ MovedFrom(m) = {}
    BY DEF Init, RowsOf, MovedFrom, Entry
  <1>2. ASSUME NEW m \in Member
        PROVE  /\ IsFiniteSet(RowsOf(m)) /\ Total(RowsOf(m)) = Opening
               /\ IsFiniteSet(MovedFrom(m)) /\ Total(MovedFrom(m)) = 0
    <2>1. first(m).amount = Opening /\ Opening \in Int
      BY DEF Entry, GenerationAssumption
    <2>2. Amounts({}) /\ IsFiniteSet({}) /\ Total({}) = 0
      BY FS_EmptySet, CountsEmpty DEF Amounts
    <2> HIDE DEF first
    <2>3. Total({} \union {first(m)}) = 0 + Opening /\ IsFiniteSet({} \union {first(m)})
      BY <2>1, <2>2, TotalGrows
    <2>4. RowsOf(m) = {} \union {first(m)}
      BY <1>1
    <2>5. Total(RowsOf(m)) = Opening
      BY <2>1, <2>3, <2>4
    <2> QED
      BY <1>1, <2>2, <2>3, <2>4, <2>5
  <1>3. RowsOfTheGone
    BY DEF Init, RowsOfTheGone, Entry
  <1>4. \A m \in Member : balance[m] = Opening /\ Opening \in Nat
    BY DEF Init, GenerationAssumption
  <1>5. TotalsCount
    BY <1>2 DEF TotalsCount
  <1>6. BalanceIsLedgerSum
    BY <1>2, <1>4 DEF BalanceIsLedgerSum, Due
  <1> QED
    BY <1>3, <1>5, <1>6 DEF BooksInv

(* A step that posts no row and leaves the balances.                       *)
LEMMA BooksUntouched ==
    ASSUME BooksInv, ledger' = ledger, balance' = balance,
           withdrawn \subseteq withdrawn',
           \A m \in Member : mergedInto[m] # None => mergedInto'[m] # None
    PROVE  BooksInv'
  <1>1. \A m : RowsOf(m)' = RowsOf(m) /\ MovedFrom(m)' = MovedFrom(m)
    BY DEF RowsOf, MovedFrom
  <1>2. TotalsCount'
    BY <1>1 DEF BooksInv, TotalsCount
  <1>3. BalanceIsLedgerSum'
    BY <1>1 DEF BooksInv, BalanceIsLedgerSum, Due, Posted
  <1>4. RowsOfTheGone'
    BY DEF BooksInv, RowsOfTheGone
  <1> QED
    BY <1>2, <1>3, <1>4 DEF BooksInv

(* A step that posts one row that was not there, and adds its amount to    *)
(* the balance of its member.  Of a merge it is the other half that        *)
(* follows (BooksMerged).                                                  *)
LEMMA BooksPosted ==
    ASSUME Base, BooksInv, NEW row \in Row, row \notin ledger, ledger' = ledger \union {row},
           row.what # "merge",
           row.what = "forfeit" => row.member \notin withdrawn /\ row.member \in withdrawn',
           balance' = [balance EXCEPT ![row.member] = @ + row.amount],
           withdrawn \subseteq withdrawn', mergedInto' = mergedInto
    PROVE  BooksInv'
  <1>1. ledger \subseteq Row /\ TotalsCount /\ balance \in [Member -> Int]
    BY DEF Base, TypeOK, BooksInv
  <1>2. row.member \in Member /\ row.amount \in Int
    BY DEF Row
  <1>3. ASSUME NEW m \in Member
        PROVE  /\ IsFiniteSet(RowsOf(m)') /\ IsFiniteSet(MovedFrom(m)')
               /\ Total(MovedFrom(m)') >= 0
               /\ Balanced(m)'
    <2>1. /\ IsFiniteSet(RowsOf(m)') /\ Total(RowsOf(m)) \in Int
          /\ Total(RowsOf(m)') = IF row.member = m THEN Total(RowsOf(m)) + row.amount
                                 ELSE Total(RowsOf(m))
      BY <1>1, RowPosted
    <2>2. /\ IsFiniteSet(MovedFrom(m)') /\ Total(MovedFrom(m)) \in Int
          /\ Total(MovedFrom(m)') = Total(MovedFrom(m))
      BY <1>1, RowMoved
    <2>3. Balanced(m)
      BY DEF BooksInv, BalanceIsLedgerSum, Balanced
    <2>4. /\ balance[m] \in Int
          /\ balance'[m] = IF row.member = m THEN balance[m] + row.amount ELSE balance[m]
      BY <1>1, <1>2
    <2>5. Total(MovedFrom(m)) >= 0
      BY <1>1 DEF TotalsCount
    <2>6. /\ Due(m) \in Int
          /\ Due(m)' = IF row.member = m THEN Due(m) + row.amount ELSE Due(m)
      <3>1. CASE row.member = m
        BY <1>2, <2>1, <2>2, <3>1 DEF Due
      <3>2. CASE row.member # m
        BY <2>1, <2>2, <3>2 DEF Due
      <3> QED
        BY <3>1, <3>2
    <2>7. ASSUME balance[m] = Due(m)
          PROVE  Balanced(m)'
      BY <1>2, <2>4, <2>6, <2>7 DEF Balanced
    <2>8. ASSUME m \in withdrawn /\ ~Posted(m, "forfeit", None) /\ balance[m] > Due(m)
          PROVE  Balanced(m)'
      <3>1. ~Posted(m, "forfeit", None)'
        BY <2>8 DEF Posted
      <3>2. m \in withdrawn'
        BY <2>8
      <3>3. balance'[m] > Due(m)'
        BY <1>2, <2>4, <2>6, <2>8
      <3> QED
        BY <3>1, <3>2, <3>3 DEF Balanced
    <2> QED
      BY <2>1, <2>2, <2>3, <2>5, <2>7, <2>8 DEF Balanced
  <1>4. TotalsCount'
    BY <1>3 DEF TotalsCount
  <1>5. BalanceIsLedgerSum'
    BY <1>3 DEF BalanceIsLedgerSum, Balanced
  <1>6. RowsOfTheGone'
    BY DEF BooksInv, RowsOfTheGone
  <1> QED
    BY <1>4, <1>5, <1>6 DEF BooksInv

(* A step that posts nothing and forgives a debt.                          *)
LEMMA BooksForgiven ==
    ASSUME Base, BooksInv, NEW m \in Member, m \notin withdrawn, withdrawn' = withdrawn \union {m},
           balance[m] < 0, balance' = [balance EXCEPT ![m] = 0],
           ledger' = ledger, mergedInto' = mergedInto
    PROVE  BooksInv'
  <1>1. \A n : RowsOf(n)' = RowsOf(n) /\ MovedFrom(n)' = MovedFrom(n)
    BY DEF RowsOf, MovedFrom
  <1>2. TotalsCount'
    BY <1>1 DEF BooksInv, TotalsCount
  <1>3. RowsOfTheGone'
    BY DEF BooksInv, RowsOfTheGone
  <1>4. ASSUME NEW n \in Member
        PROVE  Balanced(n)'
    <2>1. Balanced(n) /\ Due(n)' = Due(n) /\ balance \in [Member -> Int]
      BY <1>1 DEF BooksInv, BalanceIsLedgerSum, Balanced, Due, Base, TypeOK
    <2>2. CASE n = m
      <3>1. balance[m] = Due(m) /\ balance'[m] = 0
        BY <2>1, <2>2 DEF Balanced
      <3>2. ~Posted(m, "forfeit", None)'
        BY DEF BooksInv, RowsOfTheGone, Posted
      <3>3. balance'[m] > Due(m)'
        BY <2>1, <2>2, <3>1
      <3> QED
        BY <2>2, <3>2, <3>3 DEF Balanced
    <2>3. CASE n # m
      BY <2>1, <2>3 DEF Balanced, Posted
    <2> QED
      BY <2>2, <2>3
  <1>5. BalanceIsLedgerSum'
    BY <1>4 DEF BalanceIsLedgerSum, Balanced
  <1> QED
    BY <1>2, <1>3, <1>5 DEF BooksInv

-----------------------------------------------------------------------------
(* What a step does to the books: nothing, one posting, a merge with       *)
(* something to hand over, or a debt that is forgiven.                     *)
FreshRow(row) ==
    /\ row \in Row /\ ledger' = ledger \union {row}
    /\ \A r \in ledger : ~(r.member = row.member /\ r.what = row.what /\ r.of = row.of)

PostsNothing ==
    /\ ledger' = ledger /\ balance' = balance
    /\ withdrawn \subseteq withdrawn'
    /\ \A m \in Member : mergedInto[m] # None => mergedInto'[m] # None

PostsRow(row) ==
    /\ FreshRow(row)
    /\ row.what # "merge"
    /\ row.what = "forfeit" => row.member \notin withdrawn /\ row.member \in withdrawn'
    /\ row.what = "job" => row.amount < 0
    /\ \/ row.what \in {"clawback", "adjustment"}
       \/ row.amount >= 0
       \/ balance[row.member] + row.amount >= 0
    /\ balance' = [balance EXCEPT ![row.member] = @ + row.amount]
    /\ withdrawn \subseteq withdrawn' /\ mergedInto' = mergedInto

PostsMerge(row) ==
    /\ FreshRow(row)
    /\ row.what = "merge" /\ row.of \in Member \ {row.member} /\ row.amount > 0
    /\ balance' = [balance EXCEPT ![row.member] = @ + row.amount, ![row.of] = @ - row.amount]
    /\ row.amount <= balance[row.of]
    /\ withdrawn' = withdrawn
    /\ mergedInto' = [mergedInto EXCEPT ![row.of] = row.member]

PostsForgiven(m) ==
    /\ m \notin withdrawn /\ withdrawn' = withdrawn \union {m}
    /\ balance[m] < 0 /\ balance' = [balance EXCEPT ![m] = 0]
    /\ ledger' = ledger /\ mergedInto' = mergedInto

Posting ==
    \/ PostsNothing
    \/ \E row : PostsRow(row) \/ PostsMerge(row)
    \/ \E m \in Member : PostsForgiven(m)

LEMMA PostFresh ==
    ASSUME NEW m \in Member, NEW of \in Job \union Member \union {None}, NEW amount \in Int,
           NEW what \in Kind,
           ~Posted(m, what, of), ledger' = ledger \union {Entry(m, what, of, amount)}
    PROVE  /\ FreshRow(Entry(m, what, of, amount))
           /\ Entry(m, what, of, amount).member = m /\ Entry(m, what, of, amount).what = what
           /\ Entry(m, what, of, amount).of = of /\ Entry(m, what, of, amount).amount = amount
  <1>1. Entry(m, what, of, amount) \in Row
    BY EntryIsRow
  <1>2. /\ Entry(m, what, of, amount).member = m /\ Entry(m, what, of, amount).what = what
        /\ Entry(m, what, of, amount).of = of /\ Entry(m, what, of, amount).amount = amount
    BY DEF Entry
  <1> HIDE DEF Entry
  <1> QED
    BY <1>1, <1>2 DEF FreshRow, Posted

LEMMA PostingAccept ==
    ASSUME GenerationAssumption, Base, JobIsPaid, BooksInv, NEW r \in Job, Accept(r)
    PROVE  Posting
  <1> DEFINE m == asker[r]
             row == Entry(m, "job", r, -Cost)
  <1>1. m \in Member /\ ~Exists(r)
    BY DEF Accept, Base, JobsHaveOwners
  <1>2. ~Posted(m, "job", r)
    BY <1>1 DEF JobIsPaid, Posted
  <1>3. -Cost \in Int /\ Cost > 0 /\ balance[m] >= Cost /\ balance[m] \in Int
    BY <1>1 DEF Accept, Covered, GenerationAssumption, Base, TypeOK
  <1>4. /\ ledger' = ledger \union {row} /\ balance' = [balance EXCEPT ![m] = @ + -Cost]
        /\ UNCHANGED <<withdrawn, mergedInto>>
    BY DEF Accept, Post
  <1>5. /\ FreshRow(row) /\ row.member = m /\ row.what = "job" /\ row.of = r
        /\ row.amount = -Cost
    <2>1. "job" \in Kind
      BY DEF Kind
    <2> QED
      BY <1>1, <1>2, <1>3, <1>4, <2>1, PostFresh
  <1>6. PostsRow(row)
    <2> HIDE DEF row
    <2> QED
      BY <1>3, <1>4, <1>5 DEF PostsRow
  <1> QED
    BY <1>6 DEF Posting

LEMMA PostingGrant ==
    ASSUME Base, NEW m \in Member, NEW of \in Job \union Member \union {None},
           NEW what \in Granted \union {"refund"}, NEW amount \in Int,
           what \in {"clawback", "adjustment"} \/ amount >= 0,
           \/ ~Posted(m, what, of) /\ Post(m, what, of, amount)
           \/ UNCHANGED <<balance, ledger>>,
           UNCHANGED <<withdrawn, mergedInto>>
    PROVE  Posting
  <1> DEFINE row == Entry(m, what, of, amount)
  <1>1. CASE UNCHANGED <<balance, ledger>>
    BY <1>1 DEF Posting, PostsNothing
  <1>2. CASE ~Posted(m, what, of) /\ Post(m, what, of, amount)
    <2>1. ledger' = ledger \union {row} /\ balance' = [balance EXCEPT ![m] = @ + amount]
      BY <1>2 DEF Post
    <2>2. /\ FreshRow(row) /\ row.member = m /\ row.what = what /\ row.of = of
          /\ row.amount = amount
      <3>1. what \in Kind
        BY DEF Kind
      <3> QED
        BY <1>2, <2>1, <3>1, PostFresh
    <2>3. what \notin {"merge", "forfeit", "job"}
      BY DEF Granted
    <2>4. PostsRow(row)
      <3> HIDE DEF row
      <3> QED
        BY <2>1, <2>2, <2>3 DEF PostsRow
    <2> QED
      BY <2>4 DEF Posting
  <1> QED
    BY <1>1, <1>2

LEMMA PostingWithdraw ==
    ASSUME Base, BooksInv, NEW m \in Member, Withdraw(m)
    PROVE  Posting
  <1> DEFINE row == Entry(m, "forfeit", None, -balance[m])
  <1>1. balance \in [Member -> Int]
    BY DEF Base, TypeOK
  <1>2. /\ withdrawn' = withdrawn \union {m} /\ mergedInto' = mergedInto
        /\ ledger' = IF balance[m] > 0 THEN ledger \union {row} ELSE ledger
        /\ balance' = [balance EXCEPT ![m] = 0] /\ m \notin withdrawn
    BY DEF Withdraw, Active
  <1>3. CASE balance[m] > 0
    <2>1. ~Posted(m, "forfeit", None) /\ "forfeit" \in Kind
      BY <1>2 DEF BooksInv, RowsOfTheGone, Posted, Kind
    <2>2. ledger' = ledger \union {row} /\ -balance[m] \in Int
      BY <1>1, <1>2, <1>3
    <2>3. /\ FreshRow(row) /\ row.member = m /\ row.what = "forfeit" /\ row.amount = -balance[m]
      BY <2>1, <2>2, PostFresh
    <2>4. PostsRow(row)
      <3> HIDE DEF row
      <3>1. balance[m] + row.amount = 0
        BY <1>1, <2>3
      <3>2. balance' = [balance EXCEPT ![m] = @ + row.amount]
        BY <1>2, <3>1
      <3>3. /\ m \notin withdrawn /\ m \in withdrawn' /\ withdrawn \subseteq withdrawn'
            /\ mergedInto' = mergedInto
        BY <1>2
      <3> QED
        BY <2>3, <3>1, <3>2, <3>3 DEF PostsRow
    <2> QED
      BY <2>4 DEF Posting
  <1>4. CASE balance[m] = 0
    <2>1. balance' = balance /\ ledger' = ledger
      BY <1>1, <1>2, <1>4
    <2> QED
      BY <1>2, <2>1 DEF Posting, PostsNothing
  <1>5. CASE balance[m] < 0
    <2>1. PostsForgiven(m)
      BY <1>1, <1>2, <1>5 DEF PostsForgiven
    <2> QED
      BY <2>1 DEF Posting
  <1> QED
    BY <1>1, <1>3, <1>4, <1>5

LEMMA PostingMerge ==
    ASSUME GenerationAssumption, Base, BooksInv, NEW g \in Member, NEW m \in Member, Merge(g, m)
    PROVE  Posting
  <1> DEFINE earned == balance[g] - Opening
             row == Entry(m, "merge", g, earned)
  <1>1. /\ balance \in [Member -> Int] /\ Opening \in Nat /\ None \notin Member /\ earned \in Int
        /\ mergedInto \in [Member -> Member \union {None}]
    BY DEF Base, TypeOK, GenerationAssumption
  <1>2. /\ g # m /\ mergedInto[g] = None /\ withdrawn' = withdrawn
        /\ mergedInto' = [mergedInto EXCEPT ![g] = m]
    BY DEF Merge, Active
  <1>3. CASE /\ earned > 0
             /\ ledger' = ledger \union {row}
             /\ balance' = [balance EXCEPT ![m] = @ + earned, ![g] = @ - earned]
    <2>1. ~Posted(m, "merge", g) /\ "merge" \in Kind
      BY <1>2 DEF BooksInv, RowsOfTheGone, Posted, Kind
    <2>2. /\ FreshRow(row) /\ row.member = m /\ row.what = "merge" /\ row.of = g
          /\ row.amount = earned
      BY <1>1, <1>3, <2>1, PostFresh
    <2>3. earned <= balance[g]
      BY <1>1
    <2>4. PostsMerge(row)
      <3> HIDE DEF row, earned
      <3> QED
        BY <1>2, <1>3, <2>2, <2>3 DEF PostsMerge
    <2> QED
      BY <2>4 DEF Posting
  <1>4. CASE UNCHANGED <<ledger, balance>>
    BY <1>1, <1>2, <1>4 DEF Posting, PostsNothing
  <1> QED
    BY <1>3, <1>4 DEF Merge

LEMMA PostingStep ==
    ASSUME GenerationAssumption, Base, JobIsPaid, BooksInv, ClaimsGive, [Next]_vars
    PROVE  Posting
  <1> USE DEF accounts, calls, jobs, slots
  <1>1. CASE UNCHANGED <<balance, ledger, withdrawn, mergedInto>>
    BY <1>1 DEF Posting, PostsNothing
  <1>2. ASSUME NEW r \in Job, Accept(r)
        PROVE  Posting
    BY <1>2, PostingAccept
  <1>3. ASSUME NEW s \in Slot, GrantRefund(s)
        PROVE  Posting
    <2>1. owns[s] \in Member /\ doing[s] \in Job
      BY <1>3 DEF GrantRefund, Base, SlotsHaveJobs, Busy
    <2>2. \/ ~Posted(owns[s], "refund", doing[s]) /\ Post(owns[s], "refund", doing[s], Cost)
          \/ UNCHANGED <<balance, ledger>>
      BY <1>3 DEF GrantRefund
    <2>3. UNCHANGED <<withdrawn, mergedInto>> /\ Cost \in Nat
      BY <1>3 DEF GrantRefund, GenerationAssumption
    <2> QED
      BY <2>1, <2>2, <2>3, PostingGrant
  <1>4. ASSUME NEW m \in Member, MakeGrant(m)
        PROVE  Posting
    <2>1. PICK row \in granting :
              /\ row.what \in Granted /\ row.amount \in Int
              /\ \/ ~Posted(m, row.what, None) /\ Post(m, row.what, None, row.amount)
                 \/ UNCHANGED <<balance, ledger>>
              /\ UNCHANGED <<withdrawn, mergedInto>>
      BY <1>4, GrantMade DEF Base
    <2>2. row.what \in {"clawback", "adjustment"} \/ row.amount >= 0
      BY <2>1 DEF ClaimsGive, Granted
    <2> QED
      BY <2>1, <2>2, PostingGrant
  <1>5. ASSUME NEW m \in Member, Withdraw(m)
        PROVE  Posting
    BY <1>5, PostingWithdraw
  <1>6. ASSUME NEW g \in Member, NEW m \in Member, Merge(g, m)
        PROVE  Posting
    BY <1>6, PostingMerge
  <1>7. ASSUME NEW r \in Job, \/ \E m \in Member : Ask(r, m)
                              \/ Refuse(r) \/ Conflict(r) \/ Insufficient(r)
        PROVE  Posting
    BY <1>1, <1>7 DEF Ask, Refuse, Conflict, Insufficient
  <1>8. ASSUME NEW s \in Slot, \/ \E j \in Job : Fetch(s, j)
                               \/ Load(s) \/ Generate(s) \/ Raise(s) \/ CheckWithdrawn(s)
                               \/ CreateResult(s) \/ Succeed(s) \/ Requeue(s) \/ FailJob(s)
                               \/ CheckRefund(s) \/ Die(s)
        PROVE  Posting
    BY <1>1, <1>8 DEF Fetch, Load, Generate, Raise, CheckWithdrawn, CreateResult, Succeed,
                      Requeue, FailJob, CheckRefund, Die, Release
  <1>9. ASSUME \/ \E j \in Job : ExpireLease(j)
               \/ \E m \in Member : AllowGrant(m)
        PROVE  Posting
    BY <1>1, <1>9 DEF ExpireLease, AllowGrant, ClaimCredit, ClawBack, Adjust, LetThrough
  <1>10. CASE UNCHANGED vars
    BY <1>1, <1>10 DEF vars
  <1> QED
    BY <1>2, <1>3, <1>4, <1>5, <1>6, <1>7, <1>8, <1>9, <1>10 DEF Next, Request, Step

-----------------------------------------------------------------------------
LEMMA BooksMerged ==
    ASSUME GenerationAssumption, Base, BooksInv, NEW row, PostsMerge(row)
    PROVE  BooksInv'
  <1> DEFINE g == row.of
             m == row.member
  <1>0. /\ row \in Row /\ row \notin ledger /\ ledger' = ledger \union {row}
        /\ row.what = "merge" /\ g \in Member /\ m \in Member /\ g # m /\ row.amount \in Int
        /\ row.amount > 0 /\ row.amount <= balance[g]
    BY DEF PostsMerge, FreshRow, Row
  <1>1. ledger \subseteq Row /\ TotalsCount /\ balance \in [Member -> Int]
    BY DEF Base, TypeOK, BooksInv
  <1>2. balance' = [balance EXCEPT ![m] = @ + row.amount, ![g] = @ - row.amount]
    BY DEF PostsMerge
  <1> HIDE DEF g, m
  <1>3. ASSUME NEW n \in Member
        PROVE  /\ IsFiniteSet(RowsOf(n)') /\ IsFiniteSet(MovedFrom(n)')
               /\ Total(MovedFrom(n)') >= 0
               /\ Balanced(n)'
    <2>1. /\ IsFiniteSet(RowsOf(n)') /\ Total(RowsOf(n)) \in Int
          /\ Total(RowsOf(n)') = IF m = n THEN Total(RowsOf(n)) + row.amount
                                 ELSE Total(RowsOf(n))
      BY <1>0, <1>1, RowPosted DEF m
    <2>2. /\ IsFiniteSet(MovedFrom(n)') /\ Total(MovedFrom(n)) \in Int
          /\ Total(MovedFrom(n)') = IF g = n THEN Total(MovedFrom(n)) + row.amount
                                    ELSE Total(MovedFrom(n))
      BY <1>0, <1>1, RowMoved DEF g
    <2>3. Balanced(n)
      BY DEF BooksInv, BalanceIsLedgerSum, Balanced
    <2>4. /\ balance[n] \in Int
          /\ balance'[n] = IF n = m THEN balance[n] + row.amount
                          ELSE IF n = g THEN balance[n] - row.amount ELSE balance[n]
      BY <1>0, <1>1, <1>2
    <2>5. Total(MovedFrom(n)) >= 0 /\ Total(MovedFrom(n)') >= 0
      BY <1>0, <1>1, <2>2 DEF TotalsCount
    <2>6. /\ Due(n) \in Int
          /\ Due(n)' = IF n = m THEN Due(n) + row.amount
                      ELSE IF n = g THEN Due(n) - row.amount ELSE Due(n)
      <3>1. CASE n = m
        BY <1>0, <2>1, <2>2, <3>1 DEF Due
      <3>2. CASE n = g
        BY <1>0, <2>1, <2>2, <3>2 DEF Due
      <3>3. CASE n # m /\ n # g
        BY <2>1, <2>2, <3>3 DEF Due
      <3> QED
        BY <3>1, <3>2, <3>3
    <2>7. ASSUME balance[n] = Due(n)
          PROVE  Balanced(n)'
      BY <1>0, <2>4, <2>6, <2>7 DEF Balanced
    <2>8. ASSUME n \in withdrawn /\ ~Posted(n, "forfeit", None) /\ balance[n] > Due(n)
          PROVE  Balanced(n)'
      <3>1. ~Posted(n, "forfeit", None)' /\ n \in withdrawn'
        BY <1>0, <2>8 DEF Posted, PostsMerge
      <3>2. balance'[n] > Due(n)'
        BY <1>0, <2>4, <2>6, <2>8
      <3> QED
        BY <3>1, <3>2 DEF Balanced
    <2> QED
      BY <2>1, <2>2, <2>3, <2>5, <2>7, <2>8 DEF Balanced
  <1>4. TotalsCount'
    BY <1>3 DEF TotalsCount
  <1>5. BalanceIsLedgerSum'
    BY <1>3 DEF BalanceIsLedgerSum, Balanced
  <1>6. RowsOfTheGone'
    <2>1. withdrawn' = withdrawn /\ mergedInto' = [mergedInto EXCEPT ![g] = m]
      BY DEF PostsMerge, g, m
    <2>2. mergedInto \in [Member -> Member \union {None}] /\ m # None
      BY <1>0 DEF Base, TypeOK, GenerationAssumption
    <2>3. row.what # "forfeit"
      BY <1>0
    <2> QED
      BY <1>0, <2>1, <2>2, <2>3 DEF BooksInv, RowsOfTheGone, g
  <1> QED
    BY <1>4, <1>5, <1>6 DEF BooksInv

LEMMA BooksStep ==
    ASSUME GenerationAssumption, Base, BooksInv, Posting
    PROVE  BooksInv'
  <1>1. CASE PostsNothing
    BY <1>1, BooksUntouched DEF PostsNothing
  <1>2. ASSUME NEW row, PostsRow(row)
        PROVE  BooksInv'
    <2>1. row \notin ledger
      BY <1>2 DEF PostsRow, FreshRow
    <2> QED
      BY <1>2, <2>1, BooksPosted DEF PostsRow, FreshRow
  <1>3. ASSUME NEW row, PostsMerge(row)
        PROVE  BooksInv'
    BY <1>3, BooksMerged
  <1>4. ASSUME NEW m \in Member, PostsForgiven(m)
        PROVE  BooksInv'
    BY <1>4, BooksForgiven DEF PostsForgiven
  <1> QED
    BY <1>1, <1>2, <1>3, <1>4 DEF Posting

(* The books of Ledger.tla: a posting is a grant, or a charge that what    *)
(* was posted covers.                                                      *)
LEMMA FreshKey ==
    ASSUME ledger \subseteq Row, NEW row, FreshRow(row), NEW m \in Member
    PROVE  /\ <<row.what, row.of>> \notin {<<r.what, r.of>> : r \in RowsOf(row.member)}
           /\ {<<r.what, r.of>> : r \in RowsOf(m)'} =
                IF m = row.member THEN {<<r.what, r.of>> : r \in RowsOf(m)} \union {<<row.what, row.of>>}
                ELSE {<<r.what, r.of>> : r \in RowsOf(m)}
  <1>1. RowsOf(m)' = IF m = row.member THEN RowsOf(m) \union {row} ELSE RowsOf(m)
    BY DEF FreshRow, RowsOf
  <1>2. <<row.what, row.of>> \notin {<<r.what, r.of>> : r \in RowsOf(row.member)}
    BY DEF FreshRow, RowsOf
  <1> QED
    BY <1>1, <1>2

(* What an account has and handed over follows its rows.                   *)
LEMMA WorthPosted ==
    ASSUME Base, BooksInv, NEW row, PostsRow(row) \/ PostsMerge(row), NEW n \in Member
    PROVE  /\ Worth(n) \in Int
           /\ Worth(n)' = IF n = row.member THEN Worth(n) + row.amount ELSE Worth(n)
  <1>1. ledger \subseteq Row /\ TotalsCount /\ balance \in [Member -> Int]
    BY DEF Base, TypeOK, BooksInv
  <1>2. /\ row \in Row /\ row.member \in Member /\ row.amount \in Int
        /\ row \notin ledger /\ ledger' = ledger \union {row}
    BY DEF PostsRow, PostsMerge, FreshRow, Row
  <1>3. /\ Total(MovedFrom(n)) \in Int
        /\ Total(MovedFrom(n)') =
              IF row.what = "merge" /\ row.of = n THEN Total(MovedFrom(n)) + row.amount
              ELSE Total(MovedFrom(n))
    BY <1>1, <1>2, RowMoved
  <1>4. CASE PostsRow(row)
    <2>1. balance'[n] = IF n = row.member THEN balance[n] + row.amount ELSE balance[n]
      BY <1>1, <1>2, <1>4 DEF PostsRow
    <2>2. Total(MovedFrom(n)') = Total(MovedFrom(n))
      BY <1>3, <1>4 DEF PostsRow
    <2>3. CASE n = row.member
      BY <1>1, <1>2, <1>3, <2>1, <2>2, <2>3 DEF Worth
    <2>4. CASE n # row.member
      BY <1>1, <1>3, <2>1, <2>2, <2>4 DEF Worth
    <2> QED
      BY <2>3, <2>4
  <1>5. CASE PostsMerge(row)
    <2>1. /\ row.of \in Member /\ row.of # row.member /\ row.what = "merge"
          /\ balance' = [balance EXCEPT ![row.member] = @ + row.amount, ![row.of] = @ - row.amount]
      BY <1>5 DEF PostsMerge
    <2>2. CASE n = row.member
      BY <1>1, <1>2, <1>3, <2>1, <2>2 DEF Worth
    <2>3. CASE n = row.of
      BY <1>1, <1>2, <1>3, <2>1, <2>3 DEF Worth
    <2>4. CASE n # row.member /\ n # row.of
      BY <1>1, <1>2, <1>3, <2>1, <2>4 DEF Worth
    <2> QED
      BY <2>2, <2>3, <2>4
  <1> QED
    BY <1>4, <1>5

LEMMA LedgerPost ==
    ASSUME Base, BooksInv, NEW row, PostsRow(row) \/ PostsMerge(row)
    PROVE  Books!Post(row.member, <<row.what, row.of>>, row.amount)
  <1> DEFINE k == <<row.what, row.of>>
             keys(m) == {<<r.what, r.of>> : r \in RowsOf(m)}
             worth == [m \in Member |-> Worth(m)]
             posted == [m \in Member |-> keys(m)]
  <1>1. ledger \subseteq Row /\ FreshRow(row)
    BY DEF Base, TypeOK, PostsRow, PostsMerge
  <1>2. row \in Row /\ row.member \in Member
    BY <1>1 DEF FreshRow, Row
  <1>3. k \notin posted[row.member]
    BY <1>1, <1>2, FreshKey
  <1>4. posted' = [posted EXCEPT ![row.member] = @ \union {k}]
    <2>1. \A m \in Member : keys(m)' = IF m = row.member THEN keys(m) \union {k} ELSE keys(m)
      BY <1>1, FreshKey
    <2> HIDE DEF keys, k
    <2> QED
      BY <1>2, <2>1
  <1>5. worth' = [worth EXCEPT ![row.member] = @ + row.amount]
    <2>1. \A m \in Member : Worth(m)' = IF m = row.member THEN Worth(m) + row.amount ELSE Worth(m)
      BY WorthPosted
    <2>2. worth' = [m \in Member |-> Worth(m)']
      OBVIOUS
    <2> QED
      BY <1>2, <2>1, <2>2
  <1> QED
    BY <1>3, <1>4, <1>5 DEF Books!Post

LEMMA LedgerStep ==
    ASSUME Base, BooksInv, Posting
    PROVE  [Books!Next \/ \E m \in Member : Forgives(m)]_(Books!vars)
  <1>1. CASE PostsNothing
    <2>1. \A m : RowsOf(m)' = RowsOf(m) /\ MovedFrom(m)' = MovedFrom(m)
      BY <1>1 DEF PostsNothing, RowsOf, MovedFrom
    <2>2. \A m : Worth(m)' = Worth(m)
      BY <1>1, <2>1 DEF PostsNothing, Worth
    <2>3. UNCHANGED Books!vars
      BY <2>1, <2>2 DEF Books!vars
    <2> QED
      BY <2>3
  <1>2. ASSUME NEW row, PostsRow(row) \/ PostsMerge(row), row.what # "job"
        PROVE  Books!Next
    <2> DEFINE k == <<row.what, row.of>>
    <2>1. Books!Post(row.member, k, row.amount)
      BY <1>2, LedgerPost
    <2>2. row.member \in Member /\ row.amount \in Int /\ k \notin {"job"} \X Job
          /\ k \in Kind \X (Job \union Member \union {None})
      BY <1>2 DEF PostsRow, PostsMerge, FreshRow, Row
    <2> HIDE DEF k
    <2> QED
      BY <2>1, <2>2 DEF Books!Next, Books!Grant
  <1>3. ASSUME NEW row, PostsRow(row), row.what = "job"
        PROVE  Books!Next
    <2> DEFINE k == <<row.what, row.of>>
               cost == -row.amount
    <2>1. FreshRow(row) /\ row.amount < 0 /\ balance[row.member] + row.amount >= 0
      BY <1>3 DEF PostsRow, FreshRow, Row
    <2>2. Books!Post(row.member, k, row.amount)
      BY <1>3, LedgerPost
    <2>3. row.member \in Member /\ row.amount \in Int
          /\ k \in Kind \X (Job \union Member \union {None})
      BY <2>1 DEF FreshRow, Row
    <2>4. cost \in Int /\ cost > 0 /\ -cost = row.amount
      BY <2>1, <2>3
    <2>5. Worth(row.member) >= cost
      <3>1. ledger \subseteq Row /\ TotalsCount /\ balance \in [Member -> Int]
        BY DEF Base, TypeOK, BooksInv
      <3>2. Total(MovedFrom(row.member)) \in Int /\ Total(MovedFrom(row.member)) >= 0
        BY <2>3, <3>1, TotalsAreInts DEF TotalsCount
      <3> QED
        BY <2>1, <2>3, <3>1, <3>2 DEF Worth
    <2>6. Books!Post(row.member, k, -cost)
      BY <2>2, <2>4
    <2> HIDE DEF k, cost
    <2> QED
      BY <2>3, <2>4, <2>5, <2>6 DEF Books!Next, Books!Charge
  <1>4. \A m \in Member : PostsForgiven(m) => Forgives(m)
    BY DEF PostsForgiven, Forgives
  <1>5. \A row : PostsMerge(row) => row.what # "job"
    BY DEF PostsMerge
  <1> QED
    BY <1>1, <1>2, <1>3, <1>4, <1>5 DEF Posting

(* Who is taken below zero by a step was posted a row that may.            *)
LEMMA BelowStep ==
    ASSUME Base, Posting, NEW n \in Member, balance'[n] < balance[n], balance'[n] < 0
    PROVE  \E row \in ledger' \ ledger :
               row.member = n /\ row.what \in {"clawback", "adjustment"}
  <1>1. balance \in [Member -> Int]
    BY DEF Base, TypeOK
  <1>2. CASE PostsNothing
    BY <1>1, <1>2 DEF PostsNothing
  <1>3. ASSUME NEW row, PostsRow(row)
        PROVE  row \in ledger' \ ledger /\ row.member = n /\ row.what \in {"clawback", "adjustment"}
    <2>1. /\ row \in ledger' \ ledger /\ row.amount \in Int
          /\ balance' = [balance EXCEPT ![row.member] = @ + row.amount]
          /\ \/ row.what \in {"clawback", "adjustment"}
             \/ row.amount >= 0
             \/ balance[row.member] + row.amount >= 0
      BY <1>3 DEF PostsRow, FreshRow, Row
    <2>2. row.member = n
      BY <1>1, <2>1
    <2> QED
      BY <1>1, <2>1, <2>2
  <1>4. ASSUME NEW row, PostsMerge(row)
        PROVE  FALSE
    <2>1. /\ row.of # row.member /\ row.amount \in Int /\ row.amount > 0
          /\ row.amount <= balance[row.of]
          /\ balance' = [balance EXCEPT ![row.member] = @ + row.amount, ![row.of] = @ - row.amount]
      BY <1>4 DEF PostsMerge, FreshRow, Row
    <2>2. n = row.member \/ n = row.of
      BY <1>1, <2>1
    <2>3. CASE n = row.member
      BY <1>1, <2>1, <2>3
    <2>4. CASE n = row.of
      BY <1>1, <2>1, <2>4
    <2> QED
      BY <2>2, <2>3, <2>4
  <1>5. ASSUME NEW m \in Member, PostsForgiven(m)
        PROVE  FALSE
    BY <1>1, <1>5 DEF PostsForgiven
  <1> QED
    BY <1>2, <1>3, <1>4, <1>5 DEF Posting

-----------------------------------------------------------------------------
(* Only what is let through is granted.                                    *)
LEMMA ClaimsGiveStep ==
    ASSUME GenerationAssumption, Base, ClaimsGive, [Next]_vars
    PROVE  ClaimsGive'
  <1> USE DEF accounts, calls, jobs, slots
  <1>1. CASE granting' = granting
    BY <1>1 DEF ClaimsGive
  <1>2. ASSUME NEW m \in Member, AllowGrant(m)
        PROVE  ClaimsGive'
    BY <1>2, GrantAllowed DEF ClaimsGive, Entry
  <1>3. ASSUME NEW m \in Member, MakeGrant(m)
        PROVE  ClaimsGive'
    BY <1>3, GrantMade DEF ClaimsGive, Base
  <1> QED
    BY <1>1, <1>2, <1>3
       DEF Next, Step, Request, vars, Ask, Refuse, Conflict, Insufficient, Accept, Fetch, Load,
           Generate, Raise, CheckWithdrawn, CreateResult, Succeed, Requeue, FailJob,
           CheckRefund, GrantRefund, Die, ExpireLease, Withdraw, CancelledBy, Merge

LEMMA BooksInvariant == Spec => [](Sound /\ BooksInv /\ ClaimsGive)
  <1>1. Init => BooksInv /\ ClaimsGive
    BY GenerationAssumption, BooksInit DEF Init, ClaimsGive
  <1>2. Sound /\ BooksInv /\ ClaimsGive /\ [Next]_vars => BooksInv' /\ ClaimsGive'
    BY GenerationAssumption, PostingStep, BooksStep, ClaimsGiveStep DEF Sound
  <1> QED
    BY <1>1, <1>2, GenerationInvariant, PTL DEF Spec

(* The balance of a member is the sum of the member's rows, less what a    *)
(* merge booked to another member (auth.py:410), even where jobs run twice *)
(* and requests grant or claw back what they checked before a withdrawal;  *)
(* only of who left with a debt it is more (auth.py:1016).                 *)
THEOREM BalancesAreSums == Spec => []BalanceIsLedgerSum
  <1>1. BooksInv => BalanceIsLedgerSum
    BY DEF BooksInv
  <1> QED
    BY <1>1, BooksInvariant, PTL

(* Only a clawback or an adjustment takes a balance below zero: no charge, *)
(* forfeit or merge takes more than an account has, however they           *)
(* interleave (credits.py:120).                                            *)
THEOREM OnlyGrantsGoBelowHolds == Spec => OnlyGrantsGoBelow
  <1>1. Sound /\ BooksInv /\ ClaimsGive /\ [Next]_vars
        => [\A m \in Member :
                balance'[m] < balance[m] /\ balance'[m] < 0
                  => \E row \in ledger' \ ledger :
                         row.member = m /\ row.what \in {"clawback", "adjustment"}]_vars
    BY GenerationAssumption, PostingStep, BelowStep DEF Sound
  <1> QED
    BY <1>1, BooksInvariant, PTL DEF Spec, OnlyGrantsGoBelow

(* Jobs, refunds, grants of either sign, merges and withdrawals keep the   *)
(* books as Ledger.tla says: each posts at most one row, under a key that  *)
(* is new to its member, and moves the cached balance by its amount, and   *)
(* what is charged is covered (credits.py:116, credits.py:120); apart from *)
(* the debt that a withdrawal forgives.                                    *)
THEOREM BooksAreKeptHolds == Spec => BooksAreKept
  <1>1. Sound /\ BooksInv /\ ClaimsGive /\ [Next]_vars
        => [Books!Next \/ \E m \in Member : Forgives(m)]_(Books!vars)
    BY GenerationAssumption, PostingStep, LedgerStep DEF Sound
  <1> QED
    BY <1>1, BooksInvariant, PTL DEF Spec, BooksAreKept
=============================================================================
