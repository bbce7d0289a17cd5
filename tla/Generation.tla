----------------------------- MODULE Generation -----------------------------
(***************************************************************************)
(* The life of a generation job: POST /v1/jobs (routers/jobs.py), the      *)
(* queue and the slots of the worker (worker.py), and the two account      *)
(* operations that reach into jobs in flight, withdrawal and the merge of  *)
(* a guest into a member (routers/auth.py).                                *)
(*                                                                         *)
(* A step is one statement outside a transaction, or one transaction:      *)
(* transactions on a member serialise on its row lock (Credits.tla).  What *)
(* the worker read at one step it still uses at the next ones.             *)
(***************************************************************************)
EXTENDS Integers, FiniteSets, FiniteSetsExt

CONSTANTS
    Member,            \* rows of table member
    Guest,             \* those of kind guest, who may be merged
    Leaver,            \* those who may withdraw
    Job,               \* POST /v1/jobs calls; a job has the id of its call
    Key,               \* Idempotency-Key values
    Slot,              \* worker slots (WORKER_CONCURRENCY)
    Cost,              \* credit_cost of a job
    Opening,           \* what a member starts with (guest_trial, link_account)
    Claim,             \* what a claim may grant (daily_free, follow_ig)
    Clawback,          \* what the clawback of a cancelled order may take
    Adjustment,        \* what an admin may add, or take (cs_adjustment)
    Adjusted,          \* bound: the members an admin adjusts
    MaxAttempts,       \* MAX_ATTEMPTS
    MaxDeaths,         \* bound: how often a slot dies
    LeaseOutlivesRun,  \* LEASE_SECONDS is longer than any run of process_job
    None               \* no member, no job

ASSUME GenerationAssumption ==
    /\ Guest \subseteq Member /\ Leaver \subseteq Member \ Guest /\ Adjusted \subseteq Member
    /\ Cost \in Nat /\ Opening \in Nat
    /\ Claim \subseteq Nat /\ Clawback \subseteq Nat /\ Adjustment \subseteq Nat \ {0}
    /\ MaxAttempts \in Nat \ {0} /\ MaxDeaths \in Nat
    /\ LeaseOutlivesRun \in BOOLEAN
    /\ None \notin Member \union Job
    /\ IsFiniteSet(Job)

VARIABLES
    balance,     \* member.credit_balance
    ledger,      \* credit_ledger, a set of rows
    withdrawn,   \* members with withdrawn_at
    mergedInto,  \* member.merged_into_id
    granting,    \* the rows of grants that were let through, not yet made
    call,        \* where each POST stands, and how it was answered
    asker,       \* the member its token named
    intent,      \* its Idempotency-Key
    status,      \* generation_job.status
    error,       \* generation_job.error_code
    owner,       \* generation_job.member_id
    attempts,    \* generation_job.attempt_count
    queuedAt,    \* generation_job.queued_at
    leased,      \* jobs whose lease_expires_at lies in the future
    result,      \* the generation_result of a job: none, live or deleted
    at,          \* where each slot stands in process_job
    doing,       \* the job it processes
    owns,        \* member_id, as it loaded it
    tries,       \* attempt_count, as it loaded it
    gone,        \* whether it found the member withdrawn
    cause,       \* what it is failing the job for
    deaths       \* how many slots have died

accounts == <<balance, ledger, withdrawn, mergedInto, granting>>
calls == <<call, asker, intent>>
jobs == <<status, error, owner, attempts, queuedAt, leased, result>>
slots == <<at, doing, owns, tries, gone, cause, deaths>>
vars == <<accounts, calls, jobs, slots>>

Granted == {"claim", "clawback", "adjustment"}

Kind == {"opening", "job", "refund", "forfeit", "merge"} \union Granted

GrantRow == [member : Member, what : Granted, of : {None}, amount : Int]

Row == [member : Member, what : Kind, of : Job \union Member \union {None}, amount : Int]

(* Mutant of Entry: a row without ref_id.                                  *)
EntryWithoutRef(m, what, of, amount) == [member |-> m, what |-> what, amount |-> amount]

Entry(m, what, of, amount) ==
    [member |-> m, what |-> what, of |-> of, amount |-> amount]

Init ==
    /\ balance = [m \in Member |-> Opening]
    /\ ledger = {Entry(m, "opening", None, Opening) : m \in Member}
    /\ withdrawn = {}
    /\ mergedInto = [m \in Member |-> None]
    /\ granting = {}
    /\ call = [r \in Job |-> "unsent"]
    /\ asker = [r \in Job |-> None]
    /\ intent \in [Job -> Key]
    /\ status = [j \in Job |-> "absent"]
    /\ error = [j \in Job |-> "none"]
    /\ owner = [j \in Job |-> None]
    /\ attempts = [j \in Job |-> 0]
    /\ queuedAt = [j \in Job |-> 0]
    /\ leased = {}
    /\ result = [j \in Job |-> "none"]
    /\ at = [s \in Slot |-> "free"]
    /\ doing = [s \in Slot |-> None]
    /\ owns = [s \in Slot |-> None]
    /\ tries = [s \in Slot |-> 0]
    /\ gone = [s \in Slot |-> FALSE]
    /\ cause = [s \in Slot |-> "none"]
    /\ deaths = 0

Posted(m, what, of) ==
    \E row \in ledger : row.member = m /\ row.what = what /\ row.of = of

(* Mutant of Post: the balance is not saved with the row.                  *)
PostRowOnly(m, what, of, amount) ==
    ledger' = ledger \union {Entry(m, what, of, amount)} /\ UNCHANGED balance

(* grant_credits or charge_credits, committed: the row and the balance.    *)
Post(m, what, of, amount) ==
    /\ ledger' = ledger \union {Entry(m, what, of, amount)}
    /\ balance' = [balance EXCEPT ![m] = @ + amount]

Exists(j) == status[j] # "absent"

Ended(j) == status[j] \in {"succeeded", "failed"}

Active(m) == m \notin withdrawn /\ mergedInto[m] = None
-----------------------------------------------------------------------------
(* POST /v1/jobs.                                                          *)

(* get_current_member, then the look-up of an existing job by key.         *)
Ask(r, m) ==
    /\ call[r] = "unsent"
    /\ Active(m)
    /\ asker' = [asker EXCEPT ![r] = m]
    /\ call' = [call EXCEPT ![r] =
           IF \E j \in Job : Exists(j) /\ owner[j] = m /\ intent[j] = intent[r]
           THEN "existing" ELSE "checked"]
    /\ UNCHANGED <<accounts, intent, jobs, slots>>

(* The source, the style or the prompt is refused before the transaction.  *)
Refuse(r) ==
    /\ call[r] = "checked"
    /\ call' = [call EXCEPT ![r] = "refused"]
    /\ UNCHANGED <<accounts, asker, intent, jobs, slots>>

(* Mutant of KeyTaken: no unique index on (member, idempotency_key).       *)
KeyNeverTaken(r) == FALSE

KeyTaken(r) ==
    \E j \in Job : Exists(j) /\ owner[j] = asker[r] /\ intent[j] = intent[r]

(* charge_credits refuses a cost of nothing and a cost not covered.        *)
Covered(m) == Cost > 0 /\ balance[m] >= Cost

(* The transaction inserts the job row and charges for it.  The unique     *)
(* index on (member, idempotency_key) raises and rolls back.               *)
Conflict(r) ==
    /\ call[r] = "checked" /\ KeyTaken(r)
    /\ call' = [call EXCEPT ![r] = "error"]
    /\ UNCHANGED <<accounts, asker, intent, jobs, slots>>

(* Mutant of Insufficient: the job row is committed before the charge.     *)
InsufficientKeepsJob(r) ==
    /\ call[r] = "checked" /\ ~KeyTaken(r) /\ ~Covered(asker[r])
    /\ call' = [call EXCEPT ![r] = "402"]
    /\ status' = [status EXCEPT ![r] = "queued"]
    /\ owner' = [owner EXCEPT ![r] = asker[r]]
    /\ UNCHANGED <<accounts, asker, intent, error, attempts, queuedAt, leased, result,
                   slots>>

(* A refused charge answers 402 and rolls the job row back.                *)
Insufficient(r) ==
    /\ call[r] = "checked" /\ ~KeyTaken(r) /\ ~Covered(asker[r])
    /\ call' = [call EXCEPT ![r] = "402"]
    /\ UNCHANGED <<accounts, asker, intent, jobs, slots>>

Accept(r) ==
    /\ call[r] = "checked" /\ ~KeyTaken(r) /\ Covered(asker[r])
    /\ call' = [call EXCEPT ![r] = "created"]
    /\ status' = [status EXCEPT ![r] = "queued"]
    /\ owner' = [owner EXCEPT ![r] = asker[r]]
    /\ queuedAt' = [queuedAt EXCEPT ![r] = 1 + Cardinality({j \in Job : Exists(j)})]
    /\ Post(asker[r], "job", r, -Cost)
    /\ UNCHANGED <<withdrawn, mergedInto, granting, asker, intent, error, attempts,
                   leased, result, slots>>
-----------------------------------------------------------------------------
(* The worker.                                                             *)

(* Mutants of Fetchable: leases are ignored; jobs of dead slots are not    *)
(* taken back.                                                             *)
FetchableLeased(j) == status[j] \in {"queued", "processing"}

FetchableQueued(j) == status[j] = "queued"

Fetchable(j) == status[j] = "queued" \/ (status[j] = "processing" /\ j \notin leased)

(* fetch_next_job: the oldest fetchable job, leased in the same transaction. *)
Fetch(s, j) ==
    /\ at[s] = "free"
    /\ Fetchable(j)
    /\ \A k \in Job : Fetchable(k) => queuedAt[j] <= queuedAt[k]
    /\ status' = [status EXCEPT ![j] = "processing"]
    /\ leased' = leased \union {j}
    /\ attempts' = [attempts EXCEPT ![j] = @ + 1]
    /\ at' = [at EXCEPT ![s] = "load"]
    /\ doing' = [doing EXCEPT ![s] = j]
    /\ UNCHANGED <<accounts, calls, error, owner, queuedAt, result, owns, tries,
                   gone, cause, deaths>>

(* process_job reads its job; from here on it uses this copy.              *)
Load(s) ==
    /\ at[s] = "load"
    /\ owns' = [owns EXCEPT ![s] = owner[doing[s]]]
    /\ tries' = [tries EXCEPT ![s] = attempts[doing[s]]]
    /\ at' = [at EXCEPT ![s] = "generate"]
    /\ UNCHANGED <<accounts, calls, jobs, doing, gone, cause, deaths>>

(* The prompt, the original, the provider and the upload of the image.     *)
Generate(s) ==
    /\ at[s] = "generate"
    /\ \/ /\ at' = [at EXCEPT ![s] = "check"]
          /\ UNCHANGED cause
       \/ \E c \in {"GENERATION_FAILED", "SAFETY_BLOCKED"} :
             /\ cause' = [cause EXCEPT ![s] = c]
             /\ at' = [at EXCEPT ![s] = "handle"]
    /\ UNCHANGED <<accounts, calls, jobs, doing, owns, tries, gone, deaths>>

(* Any other exception inside the try block.                               *)
Raise(s) ==
    /\ at[s] \in {"generate", "check", "result", "succeed"}
    /\ cause' = [cause EXCEPT ![s] = "MAX_RETRIES_EXCEEDED"]
    /\ at' = [at EXCEPT ![s] = "handle"]
    /\ UNCHANGED <<accounts, calls, jobs, doing, owns, tries, gone, deaths>>

(* Mutant of CheckWithdrawn: no result row for a withdrawn member.         *)
CheckWithdrawnSkips(s) ==
    /\ at[s] = "check"
    /\ gone' = [gone EXCEPT ![s] = owns[s] \in withdrawn]
    /\ at' = [at EXCEPT ![s] = IF owns[s] \in withdrawn THEN "succeed" ELSE "result"]
    /\ UNCHANGED <<accounts, calls, jobs, doing, owns, tries, cause, deaths>>

CheckWithdrawn(s) ==
    /\ at[s] = "check"
    /\ gone' = [gone EXCEPT ![s] = owns[s] \in withdrawn]
    /\ at' = [at EXCEPT ![s] = "result"]
    /\ UNCHANGED <<accounts, calls, jobs, doing, owns, tries, cause, deaths>>

(* GenerationResult.create, already deleted for a withdrawn member.  The   *)
(* unique index on (job, seq) sends a second one to Raise.                 *)
CreateResult(s) ==
    /\ at[s] = "result"
    /\ result[doing[s]] = "none"
    /\ result' = [result EXCEPT ![doing[s]] = IF gone[s] THEN "deleted" ELSE "live"]
    /\ at' = [at EXCEPT ![s] = "succeed"]
    /\ UNCHANGED <<accounts, calls, status, error, owner, attempts, queuedAt, leased,
                   doing, owns, tries, gone, cause, deaths>>

(* The slot is done with its job and loses its copy of it.                 *)
Release(s) ==
    /\ at' = [at EXCEPT ![s] = "free"]
    /\ doing' = [doing EXCEPT ![s] = None]
    /\ owns' = [owns EXCEPT ![s] = None]
    /\ tries' = [tries EXCEPT ![s] = 0]
    /\ gone' = [gone EXCEPT ![s] = FALSE]
    /\ cause' = [cause EXCEPT ![s] = "none"]

Succeed(s) ==
    /\ at[s] = "succeed"
    /\ status' = [status EXCEPT ![doing[s]] = "succeeded"]
    /\ Release(s)
    /\ UNCHANGED <<accounts, calls, error, owner, attempts, queuedAt, leased, result,
                   deaths>>

(* Mutant of Retryable: one attempt too many.                              *)
RetryableOnceMore(s) == cause[s] = "MAX_RETRIES_EXCEEDED" /\ tries[s] <= MaxAttempts

Retryable(s) == cause[s] = "MAX_RETRIES_EXCEEDED" /\ tries[s] < MaxAttempts

(* The exception handler: back to the queue, or _fail_job.                 *)
Requeue(s) ==
    /\ at[s] = "handle" /\ Retryable(s)
    /\ status' = [status EXCEPT ![doing[s]] = "queued"]
    /\ Release(s)
    /\ UNCHANGED <<accounts, calls, error, owner, attempts, queuedAt, leased, result,
                   deaths>>

(* Mutant of FailJob: nothing is refunded.                                 *)
FailJobOnly(s) ==
    /\ at[s] = "handle" /\ ~Retryable(s)
    /\ status' = [status EXCEPT ![doing[s]] = "failed"]
    /\ error' = [error EXCEPT ![doing[s]] = cause[s]]
    /\ Release(s)
    /\ UNCHANGED <<accounts, calls, owner, attempts, queuedAt, leased, result, deaths>>

FailJob(s) ==
    /\ at[s] = "handle" /\ ~Retryable(s)
    /\ status' = [status EXCEPT ![doing[s]] = "failed"]
    /\ error' = [error EXCEPT ![doing[s]] = cause[s]]
    /\ at' = [at EXCEPT ![s] = "refund"]
    /\ UNCHANGED <<accounts, calls, owner, attempts, queuedAt, leased, result,
                   doing, owns, tries, gone, cause, deaths>>

(* _refund: nothing for a member it finds withdrawn.                       *)
CheckRefund(s) ==
    /\ at[s] = "refund"
    /\ \/ /\ owns[s] \in withdrawn
          /\ Release(s)
       \/ /\ owns[s] \notin withdrawn
          /\ at' = [at EXCEPT ![s] = "grant"]
          /\ UNCHANGED <<doing, owns, tries, gone, cause>>
    /\ UNCHANGED <<accounts, calls, jobs, deaths>>

(* Mutant of GrantRefund: the dedupe key is not looked at.                 *)
GrantRefundAgain(s) ==
    /\ at[s] = "grant"
    /\ Post(owns[s], "refund", doing[s], Cost)
    /\ Release(s)
    /\ UNCHANGED <<withdrawn, mergedInto, granting, calls, jobs, deaths>>

(* grant_credits under "refund:<job>": once per member.                    *)
GrantRefund(s) ==
    /\ at[s] = "grant"
    /\ \/ /\ ~Posted(owns[s], "refund", doing[s])
          /\ Post(owns[s], "refund", doing[s], Cost)
       \/ /\ Posted(owns[s], "refund", doing[s])
          /\ UNCHANGED <<balance, ledger>>
    /\ Release(s)
    /\ UNCHANGED <<withdrawn, mergedInto, granting, calls, jobs, deaths>>

(* The process is killed, or an exception leaves process_job.              *)
Die(s) ==
    /\ at[s] # "free" /\ deaths < MaxDeaths
    /\ deaths' = deaths + 1
    /\ Release(s)
    /\ UNCHANGED <<accounts, calls, jobs>>

(* lease_expires_at passes.  A lease that outlives every run can only be   *)
(* that of a slot that died.                                               *)
ExpireLease(j) ==
    /\ status[j] = "processing" /\ j \in leased
    /\ LeaseOutlivesRun => \A s \in Slot : doing[s] # j
    /\ leased' = leased \ {j}
    /\ UNCHANGED <<accounts, calls, status, error, owner, attempts, queuedAt, result,
                   slots>>
-----------------------------------------------------------------------------
(* Accounts.                                                               *)

(* Mutant of CancelledBy: jobs that ended are cancelled too.               *)
CancelledByAll(m) == {j \in Job : owner[j] = m}

CancelledBy(m) == {j \in Job : owner[j] = m /\ status[j] \in {"queued", "processing"}}

(* DELETE /v1/auth/me, one transaction.                                    *)
Withdraw(m) ==
    /\ m \in Leaver /\ Active(m)
    /\ withdrawn' = withdrawn \union {m}
    /\ result' = [j \in Job |->
           IF owner[j] = m /\ result[j] = "live" THEN "deleted" ELSE result[j]]
    /\ status' = [j \in Job |-> IF j \in CancelledBy(m) THEN "failed" ELSE status[j]]
    /\ error' = [j \in Job |-> IF j \in CancelledBy(m) THEN "WITHDRAWN" ELSE error[j]]
    /\ ledger' = IF balance[m] > 0
                 THEN ledger \union {Entry(m, "forfeit", None, -balance[m])} ELSE ledger
    /\ balance' = [balance EXCEPT ![m] = 0]
    /\ UNCHANGED <<mergedInto, granting, calls, owner, attempts, queuedAt, leased, slots>>

(* _merge_or_promote_guest, the merge: the jobs move, the earned part of   *)
(* the balance is granted to the member.  A job of each with the same key  *)
(* violates the unique index and the merge fails.                          *)
Merge(g, m) ==
    LET earned == balance[g] - Opening IN
    /\ g \in Guest /\ m \in Member \ Guest /\ Active(g) /\ Active(m)
    /\ ~\E i, j \in Job : owner[i] = g /\ owner[j] = m /\ intent[i] = intent[j]
    /\ mergedInto' = [mergedInto EXCEPT ![g] = m]
    /\ owner' = [j \in Job |-> IF owner[j] = g THEN m ELSE owner[j]]
    /\ \/ /\ earned > 0
          /\ ledger' = ledger \union {Entry(m, "merge", g, earned)}
          /\ balance' = [balance EXCEPT ![m] = @ + earned, ![g] = @ - earned]
       \/ /\ earned <= 0
          /\ UNCHANGED <<ledger, balance>>
    /\ UNCHANGED <<withdrawn, granting, calls, status, error, attempts, queuedAt, leased, result,
                   slots>>

(* A grant by another request is made in a transaction after the one that  *)
(* let it through, under a dedupe key of its own for each kind.            *)
LetThrough(m, what, amount) ==
    /\ Active(m)
    /\ granting' = granting \union {Entry(m, what, None, amount)}
    /\ UNCHANGED <<balance, ledger, withdrawn, mergedInto, calls, jobs, slots>>

(* POST /v1/credits/claim, for members only.                               *)
ClaimCredit(m) == m \notin Guest /\ \E d \in Claim : LetThrough(m, "claim", d)

(* _apply_order of a cancelled order that paid its member (Orders.tla).    *)
ClawBack(m) == m \notin Guest /\ \E d \in Clawback : LetThrough(m, "clawback", -d)

(* POST /admin/credits/adjust, either way: that the balance does not go    *)
(* below zero is looked at before the lock.                                *)
Adjust(m) ==
    /\ m \in Adjusted
    /\ \E a \in Adjustment : \E d \in {a, -a} :
           balance[m] + d >= 0 /\ LetThrough(m, "adjustment", d)

AllowGrant(m) == ClaimCredit(m) \/ ClawBack(m) \/ Adjust(m)

MakeGrant(m) ==
    \E row \in granting :
        /\ row.member = m
        /\ granting' = granting \ {row}
        /\ \/ ~Posted(m, row.what, None) /\ Post(m, row.what, None, row.amount)
           \/ Posted(m, row.what, None) /\ UNCHANGED <<balance, ledger>>
        /\ UNCHANGED <<withdrawn, mergedInto, calls, jobs, slots>>
-----------------------------------------------------------------------------
Request(r) == Refuse(r) \/ Conflict(r) \/ Insufficient(r) \/ Accept(r)

Step(s) ==
    \/ Load(s) \/ Generate(s) \/ Raise(s) \/ CheckWithdrawn(s) \/ CreateResult(s)
    \/ Succeed(s) \/ Requeue(s) \/ FailJob(s) \/ CheckRefund(s) \/ GrantRefund(s)

Next ==
    \/ \E r \in Job : (\E m \in Member : Ask(r, m)) \/ Request(r)
    \/ \E s \in Slot : (\E j \in Job : Fetch(s, j)) \/ Step(s) \/ Die(s)
    \/ \E j \in Job : ExpireLease(j)
    \/ \E m \in Member : Withdraw(m) \/ AllowGrant(m) \/ MakeGrant(m)
    \/ \E g, m \in Member : Merge(g, m)

Spec == Init /\ [][Next]_vars

(* run_worker_loop polls forever and a run ends (the provider call times   *)
(* out); time passes, so leases expire.                                    *)
Fairness ==
    /\ WF_vars(\E s \in Slot, j \in Job : Fetch(s, j))
    /\ \A s \in Slot : WF_vars(Step(s))
    /\ \A j \in Job : WF_vars(ExpireLease(j))

FairSpec == Spec /\ Fairness
-----------------------------------------------------------------------------
TypeOK ==
    /\ balance \in [Member -> Int]
    /\ ledger \subseteq Row
    /\ withdrawn \subseteq Member
    /\ mergedInto \in [Member -> Member \union {None}]
    /\ granting \subseteq GrantRow
    /\ call \in [Job -> {"unsent", "checked", "existing", "created", "refused", "402", "error"}]
    /\ asker \in [Job -> Member \union {None}]
    /\ intent \in [Job -> Key]
    /\ status \in [Job -> {"absent", "queued", "processing", "succeeded", "failed"}]
    /\ error \in [Job -> {"none", "GENERATION_FAILED", "SAFETY_BLOCKED",
                          "MAX_RETRIES_EXCEEDED", "WITHDRAWN"}]
    /\ owner \in [Job -> Member \union {None}]
    /\ attempts \in [Job -> Nat]
    /\ queuedAt \in [Job -> Nat]
    /\ leased \subseteq Job
    /\ result \in [Job -> {"none", "live", "deleted"}]
    /\ at \in [Slot -> {"free", "load", "generate", "check", "result", "succeed",
                        "handle", "refund", "grant"}]
    /\ doing \in [Slot -> Job \union {None}]
    /\ owns \in [Slot -> Member \union {None}]
    /\ tries \in [Slot -> Nat]
    /\ gone \in [Slot -> BOOLEAN]
    /\ cause \in [Slot -> {"none", "GENERATION_FAILED", "SAFETY_BLOCKED",
                           "MAX_RETRIES_EXCEEDED"}]
    /\ deaths \in 0 .. MaxDeaths

Refunds(j) == {row \in ledger : row.what = "refund" /\ row.of = j}

RowsOf(m) == {row \in ledger : row.member = m}

(* What a merge took from a guest and booked to the member.                *)
MovedFrom(g) == {row \in ledger : row.what = "merge" /\ row.of = g}

Total(rows) == MapThenSumSet(LAMBDA row : row.amount, rows)

(* What the ledger says a member has; of a guest who was merged, less what *)
(* the merge booked to the member (auth.py:410).                           *)
Due(m) == Total(RowsOf(m)) - Total(MovedFrom(m))

(* The cached balance is the sum of the member's ledger rows (04-erd 2.8), *)
(* through charges, refunds, jobs that run twice, clawbacks and the        *)
(* forfeit of a withdrawal: no credit is counted twice or lost.  The one   *)
(* exception: who leaves with a debt has it forgiven without a row         *)
(* (auth.py:997, auth.py:1016).                                            *)
BalanceIsLedgerSum ==
    \A m \in Member :
        \/ balance[m] = Due(m)
        \/ m \in withdrawn /\ ~Posted(m, "forfeit", None) /\ balance[m] > Due(m)

(* A job is in the queue iff it was charged, once, to the member who asked *)
(* for it: a refused or crashed request leaves neither (create_job).       *)
JobIsPaid ==
    \A j \in Job :
        {row \in ledger : row.what = "job" /\ row.of = j}
            = IF Exists(j) THEN {Entry(asker[j], "job", j, -Cost)} ELSE {}

(* Retries, requeues and merges never refund a job twice, and only a job   *)
(* that failed is refunded: nobody gets both a result and the credit back. *)
RefundedOnceAndFailed ==
    \A j \in Job :
        /\ Cardinality(Refunds(j)) <= 1
        /\ Refunds(j) # {} => status[j] = "failed"

(* A job the user sees as done has its image.                              *)
SucceededHasResult ==
    \A j \in Job : status[j] = "succeeded" => result[j] # "none"

(* Two slots never process the same job (worker.py:43).                    *)
OneRunPerJob ==
    \A s, t \in Slot : doing[s] = doing[t] /\ doing[s] # None => s = t

(* A job is tried MAX_ATTEMPTS times and once more for each death.         *)
AttemptsBounded == \A j \in Job : attempts[j] <= MaxAttempts + deaths

(* One Idempotency-Key of one member makes one job, however often and      *)
(* however concurrently it is sent (jobs.py:157, models.py:190).  A merge  *)
(* moves the jobs away from the asker, so only while there was none.       *)
OneJobPerIntent ==
    \A i, j \in Job :
        Exists(i) /\ Exists(j) /\ mergedInto[asker[i]] = None
          /\ asker[i] = asker[j] /\ intent[i] = intent[j] => i = j

(* A job that succeeded or failed stays so (03-usecases 2).                *)
EndIsFinal == [][\A j \in Job : Ended(j) => status'[j] = status[j]]_vars

(* The one exception: a withdrawal cancels a job that a slot still runs,   *)
(* and the slot writes its own end over it (worker.py:296, worker.py:311). *)
OnlyCancelledReturn ==
    [][\A j \in Job :
           Ended(j) /\ status'[j] # status[j] => status[j] = "failed" /\ error[j] = "WITHDRAWN"
      ]_vars

(* Every job in the queue comes to an end.                                 *)
JobsEnd == \A j \in Job : Exists(j) ~> Ended(j)

(* A failed generation gives the credit back (README.md:109), unless the   *)
(* member has withdrawn.                                                   *)
FailureIsRefunded ==
    \A j \in Job :
        status[j] = "failed" ~> Refunds(j) # {} \/ owner[j] \in withdrawn

(* As long as no slot dies: retries, requeues and merges lose no refund.   *)
RefundArrives ==
    \A j \in Job : status[j] = "failed" ~> Refunds(j) # {} \/ deaths > 0

(* What an account has and what it handed over in a merge.                 *)
Worth(m) == balance[m] + Total(MovedFrom(m))

(* The books are kept by the rules of Ledger.tla: every step posts one row *)
(* or none, under a key its member was not posted before, moves the        *)
(* balance by what it posts, and a charge is covered.                      *)
Books == INSTANCE Ledger WITH
    Key <- Kind \X (Job \union Member \union {None}),
    ChargeKey <- {"job"} \X Job,
    Delta <- Int,
    posted <- [m \in Member |-> {<<row.what, row.of>> : row \in RowsOf(m)}],
    balance <- [m \in Member |-> Worth(m)]

(* A withdrawal sets the balance of who leaves with a debt to zero, and    *)
(* posts nothing (auth.py:1016).                                           *)
Forgives(m) ==
    /\ m \in withdrawn' \ withdrawn /\ balance[m] < 0
    /\ balance' = [balance EXCEPT ![m] = 0] /\ ledger' = ledger

BooksAreKept == [][Books!Next \/ \E m \in Member : Forgives(m)]_(Books!vars)

(* Only a clawback or an adjustment takes a balance below zero, or further *)
(* below: no charge, forfeit or merge takes more than an account has,      *)
(* however they interleave (credits.py:109).                               *)
OnlyGrantsGoBelow ==
    [][\A m \in Member :
           balance'[m] < balance[m] /\ balance'[m] < 0
             => \E row \in ledger' \ ledger :
                    row.member = m /\ row.what \in {"clawback", "adjustment"}]_vars

(* Refuted by the withdrawal of a member with a debt (auth.py:1016): the   *)
(* cached balance is derived from the ledger, which is the truth (04-erd   *)
(* 2.8), always.                                                           *)
BalanceIsDerived == \A m \in Member : balance[m] = Due(m)

(* Refuted by a slot that raises after a withdrawal (worker.py:311): the   *)
(* jobs that a withdrawal cancels (auth.py:982) stay cancelled.            *)
CancelledStaysCancelled ==
    [][\A j \in Job : error[j] = "WITHDRAWN" => status'[j] = "failed"]_vars

(* Refuted by a withdrawal between the check and the insert of a result    *)
(* (worker.py:286): a withdrawn member's images are deleted at once, those *)
(* still being made included (05-api-spec DELETE /v1/auth/me).             *)
WithdrawnHasNoImage ==
    \A j \in Job : owner[j] \in withdrawn => result[j] # "live"

(* Refuted by a withdrawal between the check and the grant of a refund     *)
(* (worker.py:176): withdrawal forfeits the balance, and nothing is        *)
(* refunded to a withdrawn member (05-api-spec DELETE /v1/auth/me).        *)
WithdrawnHasNoCredit == \A m \in withdrawn : balance[m] = 0

(* Refuted by two deaths: the retries of a job end at the threshold        *)
(* (worker.py:12), give or take one.                                       *)
AttemptsCapped == \A j \in Job : attempts[j] <= MaxAttempts + 1

(* Refuted by a merge between the authentication and the insert of an      *)
(* order (jobs.py:232): a merge hands the guest's jobs to the member, and  *)
(* the guest's token is dead from then on (03-usecases 4), so no job is    *)
(* left with a merged guest.                                               *)
MergedGuestHasNoJob ==
    \A j \in Job : Exists(j) => mergedInto[owner[j]] = None

(* Refuted by a merge between the failure and its refund (worker.py:182):  *)
(* a refund goes to the account that has the job.                          *)
RefundReachesOwner ==
    [][\A j \in Job : \A row \in Refunds(j)' \ Refunds(j) : row.member = owner'[j]]_vars

(* The program keeps the promise of JobPromise.tla.                        *)
Phase(j) ==
    CASE status[j] = "absent" -> "none"
      [] status[j] \in {"queued", "processing"} -> "paid"
      [] status[j] = "succeeded" -> "delivered"
      [] status[j] = "failed" -> IF Refunds(j) = {} THEN "failed" ELSE "refunded"

Promise == INSTANCE JobPromise WITH
    phase <- [j \in Job |-> Phase(j)],
    image <- {j \in Job : result[j] # "none"}

KeepsPromise == Promise!Spec
=============================================================================
