# Verification of Nutti

TLA+ specifications of the program in `src/`, model-checked with TLC, and
theorems about them checked by TLAPS. The program turns a photo of a pet into an
image for a credit. Members spend credits, a worker generates, failures give the
credit back, credits come from a shop and from Instagram, and guests may become
members or members may leave at any time in between. That "in between" is what
this project is about, on the server and in the browser.

1. Inventory · 2. Plan · 3. Modules · 4. Runs · 5. Disagreements · 6. Proofs · 7. Not modelled

## 1. Inventory

| Part | State it keeps | Operations | Talks to |
|---|---|---|---|
| Credit service `app/credits.py` | `member.credit_balance`, `credit_ledger` | `grant_credits`, `charge_credits` | every part that moves credit |
| Job API `app/routers/jobs.py` | `generation_job`, `custom_prompt_log` | `create_job`, `get_job`, `share_result` | credits (charge in the same transaction), worker (through the table) |
| Worker `app/worker.py` | lease, attempt count, status, `generation_result`; per slot a copy of the job | fetch and lease, `process_job`, `_fail_job`, `_refund` | provider, storage, credits |
| Accounts `app/auth.py`, `app/routers/auth.py` | `member` identity, token version, refresh hash, OAuth nonce, used hand-off codes, rate windows | guest issue, OAuth, register, login, refresh, hand-off, logout, merge or promote, withdraw, Cafe24 link | moves jobs and images, forfeits credit, cancels jobs |
| Credit endpoints `app/routers/credits.py` | Instagram codes and events | claim, redeem, list | credits, Cafe24 sync in the background |
| Cafe24 `app/cafe24.py`, `app/routers/webhooks.py`, `scripts/sync_cafe24_orders.py`, `scripts/cafe24_token.py` | token row, watermark | refresh under a row lock, per-member sync, batch sync, exchange of a code | the shop's order, customer and message API; credits (reward, clawback) |
| Instagram `app/instagram.py` | token row, codes, poll cursor, throttle table | webhook and poll handlers, code issue | Instagram Graph API |
| Assets `app/routers/uploads.py`, `pets.py`, `library.py`, `scripts/purge_deleted.py` | `source_image`, `pet_profile`, `generation_result`, objects in storage | upload, save or delete a dog, list by cursor, soft delete, purge | storage, CDN |
| Monitor `app/monitor.py` | last alert per problem | collect, alert | jobs, queue |
| Admin `app/routers/admin.py` | styles, prompt versions, settings | CRUD, adjust a balance either way | credits |
| Web session `web/src/api/client.ts`, `app/guestSession.ts`, `sessionRecovery.tsx`, `sessionStatus.ts`, `handoff.ts` | tokens in `localStorage`; per tab the boot gate, the rotation and the reissue in flight, notices | boot, request with 401 handling, rotation, reissue, login, logout, withdraw, hand-off | accounts; other devices through the account |
| Web job flow `api/queries.ts`, `idempotency.ts`, `uploadDraft.ts`, `app/activeJob.ts`, `JobStatusBar.tsx`, screens W04, W05, W06, W08 | key and intent of the order under way, draft, active job (`sessionStorage`); polled jobs | upload, choose, order, poll, order again, close the bar | job API, upload API |
| Web library `screens/W09Library.tsx`, `app/deletedResults.ts` | pages per filter, ticks, deletion under way, remembered deletions (`localStorage`) | filter, page, tick, delete, retry | library API; worker (new results); the profile, where a dog is deleted |
| Web credit list `screens/EarnActionList.tsx`, `app/instagramCode.ts`, `W10Credits.tsx` | the cached list, claims in flight, the code of a link (`localStorage`) | claim, follow, redeem by hand or by itself | credit endpoints |
| Web shop link sheet `screens/ShopLinkSheet.tsx`, `W12MyPage.tsx` | mode, target, code, candidates | request, resend, verify, pick | accounts, through them Cafe24 |

What is hard here: requests and worker slots interleave on rows they read
before they lock them; the worker keeps a copy of its job for minutes while
withdrawal and merge rewrite it; work survives crashes only through leases; a
failure and its refund are separate transactions; dedupe keys are per member,
while jobs and shop accounts change member; the shop is learned of only by asking
it again; in the browser every answer may come late, be lost, or meet a session,
a screen or a cache that is not the one it was asked from. `PROJECT.json` lists
the hazards one by one.

What makes each part correct:

- *Credits*: the cached balance is the ledger's, and only a clawback or an
  adjustment takes it below zero; a key is posted once; a charge is
  covered when it commits; an answer never claims a posting that is not there.
- *Jobs and worker*: a job exists iff it was paid; it ends, once and for good; it
  succeeds with its image or fails and is refunded, never both; one slot at a
  time runs it; one Idempotency-Key makes one job.
- *Accounts*: merge leaves nothing behind; withdrawal leaves no image, no credit
  and no job; a rotated, logged-out or withdrawn token is dead; a shop account has
  one owner and a texted code links once.
- *Cafe24*: an order pays one member, once; a cancelled one takes back what it
  paid; what is owed is posted in the end; a refresh token is spent once.
- *Instagram*: the codes of one account pay one member; a comment is answered
  once though it arrives by webhook and by poll.
- *Assets*: what is deleted is purged, what is live is never purged.
- *Web session*: a renewal is refused only for a reason outside the tab; a live
  member session is not thrown away; every call ends; a tab comes back to a token.
- *Web job flow*: what is wanted once is charged once and answered with what was
  asked for; a job that is watched is seen to end.
- *Web library*: the pages make one list; deletions are remembered only when they
  happened, and what was deleted leaves the screen.
- *Web credit list, sheet*: a grant that was heard of is shown.

## 2. Plan

Done, in the order of importance: the credit service (`Ledger`, `Credits`), jobs and
worker with what accounts do to them (`JobPromise`, `Generation`), the browser's
session with the tokens of the API (`Session`), the way of a picture through the
browser (`JobFlow`), the library (`Library`), the ways to earn (`Earn`), the shop link
(`ShopLink`) and the shop's orders (`Orders`), each with runs and proofs.

Left: the
Instagram webhook and poll against one cursor; the purge with
crashes between storage and row; the sliding rate window, the ledger's cursor and
the polling delay as pure functions against a reference definition.

How the modules go together. `Credits` enters `Generation`, `Earn`, `ShopLink` and
`Orders` at the grain of its abstract specification: a posting is one step there,
and posts a key once, because `Credits` implements `Ledger`. That `Generation` then
keeps the books as `Ledger` says is proved (`BooksAreKept`). `Generation` holds the two account operations that reach into jobs (`Withdraw`, `Merge`); `Session` holds
accounts as a client meets them; `Orders` holds `Link` and `Withdraw` as one step
each, of which `ShopLink` has the steps. `JobFlow` sees the queue as `Finish`, the
outcome `JobPromise` allows.

## 3. Modules

**`Ledger.tla`** is what the credit service promises: a key is posted once per
member, the balance is the running total, a charge must be covered.

**`Credits.tla`** is the code of `credits.py` as concurrent connections run it.
`Begin` is the call up to the first statement (`_validate_delta`, a cost of
zero), `LockMember` the `SELECT ... FOR UPDATE`, `CheckCharge` the key and cover
checks of `charge_credits`, `Write` the insert with the unique index, `Commit`
the end of the transaction, `Rollback` an exception in the caller or a lost
connection, `FindDuplicate` the look-up after `IntegrityError`. Reads after the
lock see the committed state (READ COMMITTED); what a transaction wrote is in
`insert` until the commit. `own` tells a call in its own transaction from one in
its caller's.

**`JobPromise.tla`** is what a credit buys: paid, then delivered with an image,
or failed and refunded.

**`Generation.tla`** is `create_job`, the worker, and the account operations that
reach into jobs. One step is one transaction, or one statement outside any.
`Ask` is authentication and the look-up by key, `Refuse`, `Conflict`,
`Insufficient` and `Accept` the ways the request ends; `Fetch` the locked query
and the lease; `Load` the copy the slot then works from (`owns`, `tries`);
`Generate` everything up to the stored object; `Raise` any exception in the try
block; `CheckWithdrawn`, `CreateResult`, `Succeed` the three statements at its
end; `Requeue`, `FailJob` the handler; `CheckRefund` and `GrantRefund` the two
halves of `_refund`; `Die` the loss of a slot; `ExpireLease` time.
`Withdraw` and `Merge` are the whole transactions of `routers/auth.py`.
The other endpoints check a member and then grant, in a transaction of its own:
`ClaimCredit`, `ClawBack` (a cancelled order, which takes what it paid and may leave a
balance below zero) and `Adjust` (an admin, either way, who looks at the balance before
the lock) let a row through, and `MakeGrant` posts it. What a grant may be worth is a
set of constants, `Claim`, `Clawback` and `Adjustment`; each kind is granted to a member
once, under one key (that an order is rewarded before it is clawed back is `Orders`).
`LeaseOutlivesRun` is the assumption the comment at `worker.py:43`
makes about LEASE_SECONDS: it is a constant so that both cases are checked.

**`Session.tla`** is the session of the web client together with the part of the
API that grants it. The server keeps member rows (kind, token version, refresh
token) and the grants it gave; a grant's number stands for its access and its
refresh token. The browser keeps `store` (the three `localStorage` keys), and per tab
a frame for each call under way: boot, the background recovery, the shared
rotation, the shared reissue, and the user's own calls. A call is sent, served and
answered in three steps (`Send`, `Serve`, `Receive`), and what JavaScript runs
without an await is one step. `Fail` is the chain of decisions at a 401
(`client.ts:303-374`): `Renewable` starts or joins a reissue, `Rotatable` a
rotation, `Hopeless` drops the session if it is still the one of the request.
`Rotated`, `NotRotated`, `Reissued`, `NotReissued` are the ends of the two shared
promises, which wake (`Resumed`) or give up (`GivenUp`) whoever waits.
`LoginElsewhere`, `LogoutElsewhere` are other devices, `Expire` and `AgeRefresh` the
clock, `Lose` a lost answer and `Limit` a 429. A refresh token that is past its time
(`auth.py:822-826`) is no row's any more: it is found by nobody and never comes back,
which is what the check makes of it. It ages only after its access token, which lives
for a shorter time. `excused` is a history variable: the refresh tokens whose
rejection has a cause outside the tab, which are an answer that was lost, a login, a
logout or a withdrawal of the account, and their age.

**`JobFlow.tla`** is one tab ordering pictures: `ChoosePhoto`/`Uploaded`,
`SelectPet`, `SavePet`, `PickAnother`, `ChangeInput`, `ChangeBreed` fill the form, and
`Restored`, `Sentence` and `Reused` say what a form opens with: the photo of the job it
comes from, else of the draft. The breed is part of every intent: it is given or not,
comes from the draft, from the dog or from a photo that an order labelled (`labelled`),
and `Serve` writes it before it looks at the credit, as `jobs.py:175-181` does; `Press` takes or
resumes the Idempotency-Key (`Key`) and sends; `Serve` is `create_job` with its
look-up by key; `Done`, `NotOrdered`, `Unheard` are the answers, which may find their
screen gone (`Away`); `Poll`, `PollGone`, `PollFails` watch the job; `Dismiss`
closes the bar; `Reload` keeps only `sessionStorage`; `LoseSession` erases it.
`wish` says what the user has in mind, its number and what it is for: a history
variable that `PaidOnce` reads through the jobs' `order`. A wish stands until it is
answered with a job, the user changes something, or orders something else.

**`Library.tla`** is the list with its cursor, the cache of every filter, the
ticks and the deletion. A fetch is asked for (`Show`, `Retry`, `More`), read by the
API (`Read`) and arrives (`Arrive`); a fetch that is given up is replaced. After a
deletion (`Deleted`, `DogRemoved`) every list is stale and the one on the screen is read
again (`Invalidated`), but a first reading, with nothing in the cache yet, goes on
(`Restarted`). The second list is that of a dog, which may be deleted from the profile
(`RemoveDog`, `ServeRemoveDog`) or in another tab (`RemoveDogElsewhere`): its photos stay
and leave its list (`Scope`), a cursor into it is then refused (`CursorKnown`,
`library.py:68`), and the screen drops the filter once it has read that the dog is gone
(`DropFilter`). `refused` records whose request was called invalid. `base`
remembers what was visible when a list was begun, so that `ListIsSound` can say
what a page may not miss.

**`Earn.tla`** is the list of ways to earn and the codes. `ServeClaim` is a claim;
a redemption is `LookUp`, `LockSiblings` (the rows of one Instagram account,
`FOR UPDATE`), `Judge`. On the page, `Claim`, `RedeemByHand` and `RedeemStored`
(which fires by itself after a login) send, `Hear` receives, and `Restarted` says
that a success restarts the reading of the list. **`MCEarn.tla`** gives both codes
to one Instagram account.

**`ShopLink.tla`** is the shop link with the sheet that drives it. On the server a
request texts (`Text`) before it saves (`SaveCode`), as `auth.py:553-559` does; a
verification matches (`Match`), looks the accounts up and chooses (`Choose`), takes
the row and checks again (`CheckLink`), and commits under the unique index
(`Commit`). The shop may fail at the search, at the message (counted, no code is saved)
and at the second search (`ShopFails`). Codes are numbered by their request; the code `Earlier` is one that was
saved for others before the run began. **`MCShopLink.tla`** says what each number
finds.

**`Orders.tla`** is the reward of orders. The shop and its customers (`Place`, `Pay`,
`CancelOrder`) are external. A run is the batch (`StartBatch`) or one member's
(`StartMember`: a visit, or an event of the shop, which tells nothing but that
there is something to read); it obtains the token (`LockToken`, `Renew`,
`SaveToken`), lists some days at a time (`Fetch`), and applies the listed orders
one by one, by what the list said (`Judge`, `Post`), in any order; `Finish` saves
the watermark. `AgeToken` lets the access token come near its end, `Exchange` and
`StoreToken` are the operator's script, whose `get` and `save` of the row may
restore a watermark read before. Times within a day are the numbers of a logical
clock, so that "placed before the link" is a comparison of the same grain as
`order_reward_cutoff`. Taken as given: the batch has run before (the first run, with
no watermark, is a limit `docs/06` 6.2 states); cron starts one batch at a time
(`deploy/README.md:88`); a run lasts at most into the next day (`Dawn`); the shop
voids the earlier refresh token when it issues a new one to the operator. A
change that comes later than the look-back of the batch is not `timely`, and
nothing is said of it (the comment at `cafe24.py:27`). **`MCOrders.tla`** says that
members may be exchanged.

In every module, an operator that stands right before a definition, with a comment
that names another behaviour (`FetchableLeased` before `Fetchable`, `CountsAny` before
`Counts`), is a wrong variant that the specification does not use: putting it in
place of the definition breaks one of the properties, which shows that the
property notices that bug. `PROJECT.json` pairs them under "mutants".

Proofs: **`CreditsProofs.tla`**, **`GenerationProofs.tla`**, **`LibraryProofs.tla`**,
**`EarnProofs.tla`**, **`ShopLinkProofs.tla`**, **`OrdersProofs.tla`**,
**`JobFlowProofs.tla`**, **`SessionProofs.tla`**.

## 4. Runs

| Run | Configuration | Shows |
|---|---|---|
| `credits` | 1 member, 2 connections, one grant key, two charge keys, amounts -1..1 | all interleavings of two calls implement `Ledger` (no lost update, no double posting, no uncovered charge); True is answered by the call that posted; no call waits forever |
| `generation` | a guest, a member who may leave, 2 requests, 2 keys, 2 slots, 2 attempts, 1 death, a claim; requests, keys and slots exchangeable | paid once, refunded once and only if failed, one job per key; an end is final unless a withdrawal set it under a running slot |
| `generation_books` | one request, 2 slots, leases that expire under a run, a clawback of twice the cost, an adjustment of the guest either way; slots exchangeable | every balance equals the ledger, below zero too, of a merged guest less what was transferred and of who left with a debt but for the debt; a succeeded job has an image, even when jobs run twice |
| `generation_end` | as `generation`, one key, nobody leaves, with fairness, no exchange | jobs end, refunds arrive, implements `JobPromise` (an end is final) |
| `session` | 1 tab, 2 user calls at once, every operation, tokens of both kinds that age, 3 acts, 1 fault | a refused renewal has a reason; a live member session is kept; every call ends; a tab comes back to a token |
| `job_flow` | 2 orders, 1 upload, 3 acts, 1 fault | charged once, answered with what was asked (its breed too while the wish is the same), the bar keeps its job and shows its end |
| `library` | 2 results of one dog, one late, pages of 1, deletions of 1, 3 acts, 1 fault | pages make one list; no request is refused but for a dog that is gone; what is remembered is deleted; what was deleted leaves |
| `earn` | 2 members, 2 codes of one account, 2 calls, 1 act, 1 fault | the codes pay one member; a grant heard of is shown |
| `shop_link` | 2 members, 2 shop accounts, a number with both, one with none, limit 2, 3 calls, 1 act, 1 fault | types with limits; a code links once; one owner per account |
| `orders` | 2 members, 1 account, 1 order, the batch and one member's run, 2 prices, 1 further day, 1 act, 1 failure; members exchangeable | an order pays one member; a clawback takes what was paid; no spent refresh token is sent |
| `orders_end` | 1 member, 2 further days with a look-back of 2, 2 failures, with fairness | what is owed is posted in the end |
| `lost_refund` | violation, with fairness | a failed job is never refunded (`worker.py:300` against `README.md:109`) |

**Bounds.** One member row is enough for `Credits`: calls on different members
share nothing but the code (the theorems hold for any number). Two connections
give every pairwise race; two charge keys let a second charge find the balance
spent. In `Generation`, two slots are what two runs of one job need, two
requests and two keys what one key sent twice and what two keys need (one key
suffices where the question is not about keys), two attempts tell a first failure
from the last (`MAX_ATTEMPTS` is 3), one death is enough for every crash window
and its recovery; Opening = Cost = 1 makes the second job of an account
unaffordable until a refund or a grant, which is the boundary. `MaxDeaths` bounds
the deaths of slots, and one grant of each kind per account the grants. A clawback of 2
where 1 is the most an account has takes any balance below zero; the run of the books
has it instead of claims, which `generation` has.

In the other modules `MaxAct` bounds what users, clocks and other devices do of
themselves, and `MaxFault` lost answers and failures; calls, orders and uploads have
bounds of their own. In `Session`, two calls at once are what joins a rotation or a
reissue that another began, three acts what a login elsewhere, an expiry and a
user's own act need together. In `JobFlow`, two orders and one upload are a repeat,
"again", and an order of something else under the stored key; with four acts instead
of three the invariants hold too. In `Library`, with pages and deletions of one
result, two results already make two pages, a full selection, and a cursor that names
a deleted row; three acts are a list shown, a deletion here and one elsewhere, or a
list shown and a dog that is deleted. Both results are of the dog, so that its list has
two pages to lose; the theorems have any results of any dog. In `Earn`, two codes of one account and
two redemptions are the race the row locks are for. In `ShopLink`, three calls are
two requests and a verification, or a request and two verifications, and a limit
of 2 is reached. In `Orders`, a cutoff, an order and a change of both within two days
cross the boundary of a day and of a chunk (1 day); `orders_end` needs the third day
so that a watermark can pass a day that was listed too early. It has no act, so that
tokens neither age nor change there; with one act, one fault and one price it holds
too, in more time than the run has.

Deadlock is checked in `credits`, which always has a next step. The others stop:
`Generation` when all requests are answered and all jobs ended, the browsers and
`Orders` when their bounds are used up.

**Fairness.** `Credits`: statements of a call follow one another (WF), and
PostgreSQL serves the waiters of a row lock in order (SF on `LockMember`).
`Generation`: `run_worker_loop` polls forever, every step of a run ends, and leases
expire with time (WF). `Session`: a page runs its boot and the ends of its promises,
what is ready is sent, the API answers, the page handles the answer (WF on `Boot`,
`Settle`, `Send`, `Serve`, `Receive`). `JobFlow`: the queue ends its jobs (what
`generation_end` shows) and a visible page polls (WF on `Finish`, `Poll`,
`PollGone`). `Library` and `Earn`: the API answers and answers arrive. `Orders`: cron
starts the batch again and again, and a run goes on (WF on `StartBatch` and each
run's `Step`). Deaths, faults, users, clocks and other devices are never fair.

Two liveness properties excuse what the code cannot mend: `RefundArrives` a slot
that died (that is `lost_refund`), and `OwedIsPosted` a refresh token that was lost on
its way (`spoiled`) or is in the operator's hands (`issued`), since no run can ask
the shop for anything until the operator has stored another.

## 5. Disagreements

What a document, a comment or the interface says and the code does not keep. The
first has a run of its own. The others are properties that stay in their module
(their comment begins "Refuted by"); adding one to the named configuration makes
TLC show how.

| Property | Where | What happens |
|---|---|---|
| `FailureIsRefunded` (run `lost_refund`) | `worker.py:300` against `README.md:109` | a worker that dies between the failure and the refund: the credit is never given back |
| `CancelledStaysCancelled` | `MCGeneration.cfg`; `worker.py:311` against `auth.py:982` | a withdrawal cancels a job, the slot raises and puts it back in the queue |
| `WithdrawnHasNoImage` | `MCGeneration.cfg`; `worker.py:287` against `worker.py:286` | a withdrawal between the check and the insert of the result leaves a live image |
| `WithdrawnHasNoCredit` | `MCGeneration.cfg`; `worker.py:177` against `worker.py:176` | the same with the refund: a withdrawn member has credit |
| `AttemptsCapped` | `MCGeneration.cfg` with one job, key and slot and `MaxDeaths` = 2; `worker.py:307` against `docs/06` 2.2 | each death costs one attempt more than the threshold |
| `OneRunPerJob` | `MCGenerationBooks.cfg` (a lease that may expire); `worker.py:129` against `worker.py:43` | two slots run one job |
| `BalanceIsDerived` | `MCGenerationBooks.cfg`; `auth.py:997`, `:1016` against `docs/04-erd.md:313` | a clawback takes the balance below zero and the member withdraws: the balance is set to zero and no row says so |
| `MergedGuestHasNoJob` | `MCGeneration.cfg`; `jobs.py:232` against `docs/03-usecases.md:163` | an order authenticated before the merge is inserted after it, for the guest |
| `RefundReachesOwner` | `MCGeneration.cfg`; `worker.py:182` against the same | a refund goes to the merged guest whose job it was |
| `MemberIsNotOverwritten` | `MCSession.cfg`; `client.ts:588`, `:593` | a reissue clears the guest, somebody logs in, and the guest token arrives over the member's |
| `DenialMeansKept` | `MCSession.cfg`; `queries.ts:147` against `WithdrawConfirm.tsx:89` | a withdrawal whose answer is lost, or whose next guest cannot be issued, is reported as failed with the account still there |
| `RegenerateIsNew` | `MCJobFlow.cfg`; `W06Result.tsx:1157` | "again" under the stored key of an earlier order is answered with the picture on the screen |
| `BreedIsAnswered` | `MCJobFlow.cfg`; `idempotency.ts:76` against `idempotency.ts:37` | the answer to an order is lost, the breed is changed, the order is pressed again: `sameIntent` does not compare the breed, the stored key goes out, and the first job answers |
| `DeletedIsNotShown` | `MCLibrary.cfg`; `queries.ts:466` | "more" gives up the reading a deletion asked for, and the deleted row stays; or a first reading that began before the deletion is not restarted, and brings the row as fresh |
| `CursorOutlivesDog` | `MCLibrary.cfg`; `library.py:68` against `W09Library.tsx:75` | a dog is deleted in another tab, or while a page of its list is read: "more" is called invalid, where the screen expects an empty list |
| `CodeIsAnswered` | `MCEarn.cfg`; `instagramCode.ts:60` | the code of a link is forgotten though its redemption was lost |
| `SuccessIsTold` | `MCShopLink.cfg` with `MaxFault` = 0; `W12MyPage.tsx:513` against `ShopLinkSheet.tsx:130` | the profile reads that the account is linked and removes the sheet before it tells of the reward |

`Session` is written for any number of tabs, and the run has one. With two tabs of one
call each (`Ops` = query, login, logout, `MaxAct` = 3, `MaxFault` = 0)
`RejectedWithReason` does not hold: the single flight of
`rotateMemberSession` is a variable of its tab, so two tabs whose access token expired
send the same refresh token. The second is refused while the first's answer is on
its way, and `dropSession` (`client.ts:543`) tells the member of that tab that the
login has ended, though the other tab is about to store the new session.

`LiveMemberKept` says that a member session which the API still renews is given up for
no session only by the user. A session of one member may be replaced by a session of
another, and no property forbids it: `rotateMemberSession` stores what it is given
without a second look (`client.ts:518-530`), and so does a login, so an answer that
comes late to one tab is stored over the account that another tab logged in to
meanwhile. Two tabs with `Ops` = login, withdraw, `MaxAct` = 4 and `MaxFault` = 0 show
it. Nor does it speak of a session whose renewal the API refuses while its access token
still lives: a renewal that was throttled first and is tried again by hand
(`RetryRotation`) gives such a session up. That a guest may replace a member is
`MemberIsNotOverwritten` above.

Two smaller ones have no property. A verification repeated after a lost answer finds
its code used and is answered `CAFE24_CODE_INVALID` (`auth.py:615`), where the comment
at `ShopLinkSheet.tsx:176` expects a success with nothing granted. Two requests of a
code may save in another order than they text (`auth.py:553-559`), so that the newest
message does not hold the saved code.

## 6. Proofs

All from the named assumptions on the constants alone (`CreditsAssumption`,
`GenerationAssumption`, `SessionAssumption`, `JobFlowAssumption`, `LibraryAssumption`, `EarnAssumption`,
`ShopLinkAssumption`, `OrdersAssumption`): sets that may be infinite, bounds that may be any number, and
`None` outside the sets it stands beside. The bounds cut nothing from the
theorems: they hold for every value.

`CreditsProofs` proves for any members, connections, keys and amounts that
`Credits` keeps its types, that the balance follows the ledger, that keys are
posted once, that charges are covered, that answers are true (`AnswerHasRow`,
`TrueMeansPosted`), and that `Credits` implements `Ledger`. None of these is
inductive alone. The invariant `IInv` adds what the row lock gives: whoever is
inside a transaction holds its member's row (`LockDiscipline`), therefore the
balance it read is still the balance (`SeenIsCurrent`) and the key it did not
find is still absent (`InsertIsFresh`). `CommitEffect` says what a commit does
to the books; every theorem uses it.

`GenerationProofs` goes in four steps.

1. Whatever the leases do (`Sound`): a busy slot has an existing job and, once it
   has loaded it, a member (`Base`); a slot that reaches `Succeed` left a result
   behind (`SucceedHasResult`); only `Accept` writes a charge; and as long as its
   asker is not merged away a job belongs to the asker, so the unique index on the
   owner sees it (`AskerOwns`). Hence `TypeOK`, `SucceededHasResult`, `JobIsPaid`
   and `OneJobPerIntent`.
2. If a lease outlives every run (`Leased`): a slot's job is neither queued nor
   processing without a lease (`Held`), so no other slot fetches it
   (`OneRunPerJob`); a job that waits has an attempt left (`Counted`, hence
   `AttemptsBounded`; no run checks these two); and a refunded job is failed
   and in no slot (`Settled`, hence `RefundedOnceAndFailed`). Without the condition
   TLC refutes it (section 5). A withdrawal may cancel the job under its slot, and
   nothing else ends it there (`RunsOrCancelled`), hence `OnlyCancelledReturn`: the
   handler may write over the end a withdrawal set (`CancelledStaysCancelled` of section
   5), and over no other.
3. If in addition nobody withdraws: a slot's job is processing until the slot ends
   it (`Running`), hence `EndIsFinal`, and every step maps to a step of `JobPromise`
   or changes nothing of it.
4. The books, again whatever the leases do and whatever is clawed back or adjusted
   (`BooksInv`): a balance is the total of the member's rows less what a merge moved
   away, or, of who left with a debt, more than that; it may be below zero. A forfeit
   belongs to a member who left and a merge row to a guest who was merged, so each key
   is new when it is posted (`RowsOfTheGone`). Every step posts nothing, one new row, a
   merge with its transfer, or forgives a debt (`Posting`); the invariant is proved once
   for each of them. Hence `BalanceIsLedgerSum`, and `BooksAreKept`: a step of
   `Generation` is a step of `Ledger`, the forgiving of a debt, or leaves the books
   alone. For `Ledger` the balance of a guest who was merged still counts what the merge
   moved (`Worth`). That a claim in flight takes nothing away (`ClaimsGive`) gives
   `OnlyGrantsGoBelow`, which no run has: only a clawback or an adjustment takes a
   balance below zero. (`Ledger!Init` has no rows and
   `Generation` begins with the opening balance, so the steps are what is shown.) TLC
   looked at `BooksAreKept` too, without finding a step that breaks it, but with the
   amounts of `Ledger` cut to a range and not to the end of the states: no run has it.

   `Total` is a sum over a set, and a sum over rows is a recursion. The library's
   theorems on induction take an operator as a parameter, which the provers cannot
   instantiate; that every nonempty set of numbers has a least element (`WFMin`) takes
   none. `Induct` makes induction of it for properties written as a set of numbers;
   with it the rows of a finite set may be counted in any order (`TotalAnyOrder`), and
   a new row adds its amount (`TotalGrows`).

`LibraryProofs`: the pages of a list and of the fetch under way are sorted, in scope,
and whole down to their cursor for what was there when the list was begun and is still
in its scope (`ListWell`, `FetchWell`; the results of a dog that is gone count as
deleted from its list, `Dead`); a page keeps that because it holds the newest of what lies
behind the cursor (`NewestIsPrefix`, by cardinality). Ticks are in the list on the
screen and within the limit (`Ticks`), and what a served deletion names is deleted
(`Removals`). A cursor that is refused is therefore one into the list of a dog that is
gone (`Refusals`). Hence `ListIsSound`, `NeverRefused` and `RememberedIsGone` for any
number of results, any of them of the dog, and any size of a page.

`EarnProofs`: the page and its calls are well formed (`PageInv`); codes that were not
issued have no redeemer (`Unissued`); a redemption that looked its code up has one that
was issued (`Issued`); whoever holds the rows of an Instagram account holds its own
code among them, what it read of who redeemed them is still true (`Knows`), and it
is alone (`OneHolder`). With the property itself that is inductive (`PayInv`).

`ShopLinkProofs`: beyond types, a verification that has checked holds its member's row,
and the code it matched is still the saved one (`Lock`); a code that linked is saved
no more and, since its request is over, is never saved again (`UsedUp`, `LinksOnce`).
The two requests of the same code that the check before the lock lets through
therefore end with one link. `SoleOwner` rests on the unique index at the commit.

`OrdersProofs`: `TokenInv` says that one run at a time has the token's row, that it
sends what the row says, and that this is what the shop accepts unless an answer was
lost or the operator holds a newer one; `TokenIsGood` is part of it. `LinkInv` says
that a shop account has one member and that a member who left never comes back.
`ClaimInv` is the argument for `OrderPaysOne`: an order goes only to the member who
was linked to its account before it was placed, so whoever is linked to the account
later was linked after it and its order does not count for them. `ListInv` keeps
what runs have in hand to orders that exist, and `RowInv` pairs every clawback with
its reward.

`JobFlowProofs` speaks of what was asked for (`Asked`): by the calls that are not over
and by the jobs. Its invariant says that a key stands for one intent, its breed apart,
and a wish for one key and one intent, its breed included (`KeysMean`); that the stored attempt is of that kind, and that while a wish stands
the attempt is the wish's own (`AttemptMeans`); that an answer is a job of its call's
key (`AnswersWell`); and that a key has made one job (`OneJobPerKey`), for which it
must know that the photos of a lost session are exactly those of its jobs
(`SidesMatch`): a repeated order whose job is out of reach is refused for its photo,
not served twice. Every step but `Press` and `Serve` asks for nothing new (`Calm`), and
`Press` asks under the attempt's key or under a new one (`KeyOK`). Hence `TypeOK`,
`PaidOnce`, `AnswerIsAsked`, and `BarKeepsItsJob`, for any number of orders, photos, acts
and lost calls. The search for it corrected the model: a wish used to be a number that
stood until something was changed, and at four orders and two photos the client makes
two jobs of it. The tab remembers one attempt only (`idempotency.ts:47`). Somebody who
orders photo B and does not hear, comes by a reload to the form of the earlier photo A,
orders that, goes back to the draft of B and orders it again, sends B under a second
key. An order of something else now ends the wish, which is what the code promises
(`idempotency.ts:12`: a key belongs to one intent, a new intent takes a new key).

`SessionProofs` rests on an invariant of five kinds of parts. Types (`ApiTypes`,
`ScreenTypes`, `FrameTypes`). What the API and the storage mean (`ApiMeans`,
`StoreMeans`): a row's refresh token is a grant of that row, and what is stored is a
grant under its own kind. For every call under way (`FramesMean`): it stands only where
its kind can stand (`Placed`); what it was sent with is a grant of that kind, and if
that token is still the stored one, it is stored as it was when the call was sent
(`SentWell`); and what it was answered stays true until it is handled (`Told`). And
`Fresh`: a session that was granted and has not arrived is known to no storage and no
other call. `Fresh` is what makes a late answer harmless: a session is dropped only if
it is still the one of the request (`Current`), and then the API's answer to that
request was about this session. Hence `TypeOK` and `LiveMemberKept`, for any number of
tabs and calls; TLC agrees for two tabs of one call each, with every operation, three
acts and no fault.
`RejectedWithReason` needs `RenewInv` in addition: a refresh token that somebody holds
is still in its row, or excused (which it is once it is past its time), or was just renewed by the rotation whose answer is on
its way. It has the hypothesis `OneTab` (no two tabs, any number of calls in it),
because with two tabs TLC refutes it (section 5). Each step is first shown to do one of
a few things to the API (`ApiStep`) and to the frames, so that the parts are proved once
for each of those and not once for each action. The search for the invariant corrected
the model twice. A hand-off code is redeemed only for a row that is still a member's
(`Redeemable`, `auth.py:897`): a withdrawn row stays in the model and the guard did not
look at it. And `LiveMemberKept` used to count a session as live by its access token as
well, which the throttled renewal above refutes at bounds beyond its run.

Only model-checked: liveness (`CallsAnswered`, `JobsEnd`, `RefundArrives`, `CallsEnd`,
`TokenComesBack`, `EndIsShown`, `DeletedLeaves`, `HeardIsShown`, `OwedIsPosted`), which
needs fairness and ENABLED; and everything TLC refutes.

## 7. Not modelled

- *Generation*: the provider protocol, prompts, image processing and storage calls
  are one outcome of `Generate`; an object stored by a run that dies is an orphan no
  property mentions. An exception after a commit whose acknowledgement was lost is
  not modelled. A request's validation is one nondeterministic `Refuse`. Guests
  promoted in place keep their row and their jobs, so promotion does not appear.
- *Accounts*: passwords, the OAuth state and registration are one outcome of a login;
  the hand-off codes that are used are in memory and are lost with a restart, which
  is not modelled.
- *Session*: the sliding of the refresh limit; a refused address is `Limit`.
- *JobFlow, Library, screens*: sharing, saving, the calculator, layout, analytics.
- *Earn*: more than one day, so one `daily`. *Credit list*: the ledger's pages, which
  use the scheme of the library.
- *ShopLink*: more than one hour, so the windows of the limits do not slide.
- *Cafe24*: the pages of one answer, the error kept in the row, the alert, and the
  minute between two visits, which holds no event back; the look-back's end and the
  first run, as section 3 says.
- *Instagram*: webhook, poll and throttle: the issue of a code is one step in `Earn`.
- *Purge*: it erases what no list has shown for thirty days.
- *Pets*: the name of a dog. Its photos, its breed and its deletion are in `JobFlow` and
  `Library`.
- *Monitor; styles, events, results; storage and settings*: single-row reads and
  writes, I/O, and alerts; the one event another part reads is in `Earn`.
