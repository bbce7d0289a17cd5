------------------------------ MODULE JobFlow ------------------------------
(***************************************************************************)
(* The way of a picture through the web client: a photo is uploaded, an    *)
(* order is placed under an Idempotency-Key, the job is watched until it   *)
(* ends, and may be ordered again.  One tab: what is on its screen is lost *)
(* when it is left or loaded again, what is in sessionStorage is not, and  *)
(* an order that was sent goes on without either.                          *)
(***************************************************************************)
EXTENDS Naturals, Sequences

CONSTANTS MaxPress,   \* bound: orders sent
          MaxUpload,  \* bound: photos uploaded
          MaxAct,     \* bound: screens opened, choices in a form, earned credits,
                      \* lost sessions
          MaxFault    \* bound: lost calls and photos found unfit

ASSUME JobFlowAssumption == {MaxPress, MaxUpload, MaxAct, MaxFault} \subseteq Nat

VARIABLES jobs,     \* Seq: the API's jobs [key, intent, status, order]
          credit,   \* the balance; every job costs 1
          gone,     \* jobs up to this number belong to a lost session
          stale,    \* and so do the photos up to this one
          uploads,  \* photos uploaded
          linked,   \* photos of a saved dog
          labelled, \* photos with a breed that an order gave them
          attempt,  \* sessionStorage: the key and intent of the order under way
          draft,    \* sessionStorage: the photo of the form
          active,   \* sessionStorage: the job of the status bar, 0 when none
          screen,   \* [at, job]
          form,     \* the choices on the screen
          uploading,\* the upload the screen waits for, and the dog it was for
          calls,    \* Seq: the orders sent
          cache,    \* what the tab knows of a job
          trouble,  \* why it does not know more
          wish,     \* [n, intent]: what the user has in mind: the number of the wish,
                    \* and what it is for while it stands
          acts, faults

api == <<jobs, credit, gone, stale, uploads, linked, labelled>>
storage == <<attempt, draft, active>>
page == <<screen, form, uploading>>
known == <<cache, trouble>>
vars == <<api, storage, page, calls, known, wish, acts, faults>>

Job == 1 .. MaxPress
None == 0

\* breed: 0 not given, 1 given
NoIntent == [upload |-> None, answers |-> 0, pet |-> 0, prompt |-> 0, breed |-> 0]
NoAttempt == [key |-> 0, intent |-> NoIntent]
NoDraft == [upload |-> None, pet |-> 0, answers |-> 0, breed |-> 0]
NoUpload == [on |-> FALSE, pet |-> 0]
\* answers: 0 not asked, 1 the defaults, 2 the user's own
Blank == [upload |-> None, pet |-> 0, answers |-> 1, breed |-> 0, blocked |-> FALSE]

Init ==
  /\ jobs = <<>> /\ credit \in {0, 1} /\ gone = 0 /\ stale = 0 /\ uploads = 0 /\ linked = {} /\ labelled = {}
  /\ attempt = NoAttempt /\ draft = NoDraft /\ active = None
  /\ screen = [at |-> "browse", job |-> None]
  /\ form = Blank /\ uploading = NoUpload
  /\ calls = <<>>
  /\ cache = [j \in Job |-> "none"] /\ trouble = [j \in Job |-> "none"]
  /\ wish = [n |-> 0, intent |-> NoIntent]
  /\ acts = 0 /\ faults = 0

Reachable(j) == j \in DOMAIN jobs /\ j > gone
Settled(status) == status \in {"done", "failed"}
Act == acts < MaxAct /\ acts' = acts + 1
Fault == faults < MaxFault /\ faults' = faults + 1
Touch == wish' = [wish EXCEPT !.intent = NoIntent]
-----------------------------------------------------------------------------
(***************************************************************************)
(* Screens.  Leaving one drops what it waits for.                          *)
(***************************************************************************)
\* Forgets whatever job is watched.
ForgetAny(j) == None
\* A result gives up its own job and no other.
Forget(j) == IF active = j THEN None ELSE active

Away == calls' = [k \in DOMAIN calls |-> [calls[k] EXCEPT !.here = FALSE]]

\* The form of a job's result: the photo of the job and its answers.
Again(j) ==
  LET i == jobs[j].intent
  IN [Blank EXCEPT !.upload = i.upload,
                   !.answers = IF i.prompt = 1 THEN 0 ELSE IF i.answers = 0 THEN 1 ELSE i.answers]

\* The waiting screen of a running job, which it remembers, or the result of
\* one that ended, which it forgets: either leads to the other.
Show(at, j, status) ==
  /\ screen' = [at |-> IF Settled(status) THEN "result"
                       ELSE IF status = "running" THEN "waiting" ELSE at,
                job |-> j]
  /\ form' = IF Settled(status) THEN Again(j) ELSE Blank
  /\ active' = IF status = "running" THEN j ELSE IF Settled(status) THEN Forget(j) ELSE active
  /\ uploading' = NoUpload

Browse ==
  /\ screen.at # "browse"
  /\ screen' = [at |-> "browse", job |-> None]
  /\ form' = Blank /\ uploading' = NoUpload
  /\ Away
  /\ UNCHANGED <<api, storage, known, wish, acts, faults>>

\* By the bar, the library, or an address: the reads that failed start again.
OpenJob(at, j) ==
  /\ Act /\ j \in DOMAIN jobs /\ ~(screen.at \in {"waiting", "result"} /\ screen.job = j)
  /\ Show(at, j, cache[j])
  /\ trouble' = [trouble EXCEPT ![j] = "none"]
  /\ Away /\ Touch
  /\ UNCHANGED <<api, attempt, draft, cache, faults>>

\* The job's photo, its dog, and the breed it was given, if any.
Reused(kept, u, pet) ==
  [kept EXCEPT !.upload = u, !.pet = pet, !.breed = IF u \in labelled THEN 1 ELSE @]

\* The form opens with the job it comes from, else with the draft; a draft of
\* the same style also gives it answers and breed.
Restored(from) ==
  LET kept == [Blank EXCEPT !.answers = IF draft.answers = 0 THEN 1 ELSE draft.answers,
                            !.breed = draft.breed]
  IN IF from # None /\ Reachable(from)
     THEN LET u == jobs[from].intent.upload
          IN Reused(kept, u, IF u \in linked THEN 1 ELSE 0)
     ELSE [kept EXCEPT !.upload = draft.upload, !.pet = draft.pet]

\* A sentence of the user's own: for the photo of the job, of no dog then, else
\* for that of the draft.
Sentence(from) ==
  LET kept == [Blank EXCEPT !.answers = 0, !.breed = draft.breed]
  IN IF from # None /\ Reachable(from)
     THEN Reused(kept, jobs[from].intent.upload, 0)
     ELSE [kept EXCEPT !.upload = draft.upload, !.pet = draft.pet]

OpenUpload(from) ==
  /\ screen.at \in {"browse", "result"}
  /\ Act
  /\ from = None \/ (screen.at = "result" /\ from = screen.job)
  /\ screen' = [at |-> "upload", job |-> from]
  /\ form' = Restored(from) /\ uploading' = NoUpload
  /\ Away
  /\ UNCHANGED <<api, storage, known, wish, faults>>

OpenCreative(from) ==
  /\ screen.at \in {"browse", "upload", "result"} /\ Act
  /\ from = None \/ (screen.at \in {"upload", "result"} /\ from = screen.job)
  /\ screen' = [at |-> "creative", job |-> from]
  /\ form' = Sentence(from)
  /\ uploading' = NoUpload /\ Away /\ Touch
  /\ UNCHANGED <<api, storage, known, faults>>

\* The page is loaded again: the history entry and sessionStorage stay.
Reload ==
  /\ screen.at # "browse" /\ Act
  /\ \/ screen.at = "upload" /\ form' = Restored(screen.job)
     \/ screen.at = "creative" /\ form' = Sentence(screen.job)
     \/ screen.at \in {"waiting", "result"} /\ form' = Blank
  /\ uploading' = NoUpload /\ Away
  /\ cache' = [j \in Job |-> "none"] /\ trouble' = [j \in Job |-> "none"]
  /\ UNCHANGED <<api, storage, screen, wish, faults>>
-----------------------------------------------------------------------------
(***************************************************************************)
(* The upload form.                                                        *)
(***************************************************************************)
Selecting == screen.at = "upload" /\ form.upload = None
Confirming == screen.at = "upload" /\ form.upload # None

\* enterConfirm: the photo goes on the screen and into the draft.
EnterConfirm(u, pet, shown) ==
  /\ form' = [form EXCEPT !.upload = u, !.pet = shown, !.blocked = FALSE]
  /\ draft' = [NoDraft EXCEPT !.upload = u, !.pet = pet]

ChoosePhoto ==
  /\ Selecting /\ ~uploading.on /\ uploads < MaxUpload
  /\ uploading' = [on |-> TRUE, pet |-> form.pet]
  /\ UNCHANGED <<api, storage, screen, form, calls, known, wish, acts, faults>>

\* The photo is good, or it is not, or the call fails.  The dog is the one that
\* was selected when the upload began.
Uploaded ==
  /\ uploading.on
  /\ uploading' = NoUpload
  /\ \/ /\ uploads' = uploads + 1
        /\ linked' = IF uploading.pet = 1 THEN linked \cup {uploads'} ELSE linked
        /\ EnterConfirm(uploads', uploading.pet, form.pet)
        /\ Touch
     \/ UNCHANGED <<uploads, linked, form, draft, wish>>
  /\ UNCHANGED <<jobs, credit, gone, stale, labelled, attempt, active, screen, calls, known, acts, faults>>

\* The dog's last photo, and its breed if an order gave it one.
SelectPet ==
  /\ Selecting /\ Act /\ linked # {}
  /\ \/ form.pet = 1 /\ form' = [form EXCEPT !.pet = 0] /\ UNCHANGED draft
     \/ /\ form.pet = 0
        /\ \E u \in linked, b \in {form.breed, 1} :
             /\ \A v \in linked : v <= u
             /\ b = form.breed \/ linked \cap labelled # {}
             /\ form' = [form EXCEPT !.upload = u, !.pet = 1, !.breed = b, !.blocked = FALSE]
             /\ draft' = [NoDraft EXCEPT !.upload = u, !.pet = 1]
  /\ Touch
  /\ UNCHANGED <<api, attempt, active, screen, uploading, calls, known, faults>>

\* The dog of the photo is saved; the draft does not learn of it.
SavePet ==
  /\ Confirming /\ Act /\ form.pet = 0 /\ form.upload > stale
  /\ linked' = linked \cup {form.upload}
  /\ form' = [form EXCEPT !.pet = 1]
  /\ Touch
  /\ UNCHANGED <<jobs, credit, gone, stale, uploads, labelled, storage, screen, uploading, calls,
                 known, faults>>

ChangeInput ==
  /\ Act /\ form.answers # 0
  /\ Confirming \/ (screen.at = "result" /\ form.upload # None)
  /\ form' = [form EXCEPT !.answers = 3 - @]
  /\ Touch
  /\ UNCHANGED <<api, storage, screen, uploading, calls, known, faults>>

ChangeBreed ==
  /\ Act
  /\ Confirming \/ (screen.at = "creative" /\ form.upload # None)
  /\ form' = [form EXCEPT !.breed = 1 - @]
  /\ Touch
  /\ UNCHANGED <<api, storage, screen, uploading, calls, known, faults>>

\* The choices that stay without a photo.
UnchosenBlocked(f) == [f EXCEPT !.upload = None]
Unchosen(f) == [f EXCEPT !.upload = None, !.blocked = FALSE]

\* "Another photo", or the step back.
PickAnother ==
  /\ Confirming
  /\ form' = Unchosen(form)
  /\ uploading' = NoUpload
  /\ draft' = NoDraft
  /\ Touch
  /\ UNCHANGED <<api, attempt, active, screen, calls, known, acts, faults>>
-----------------------------------------------------------------------------
(***************************************************************************)
(* The order.                                                              *)
(***************************************************************************)
\* Any two orders of one photo are alike.
SameIntentPhoto(a, b) == a.upload = b.upload
\* All but the breed, whatever JobIntent says of it.
SameIntent(a, b) ==
  /\ a.upload = b.upload /\ a.pet = b.pet /\ a.prompt = b.prompt /\ a.answers = b.answers

Intent ==
  [upload |-> form.upload, answers |-> form.answers,
   pet |-> IF screen.at = "result" THEN 0 ELSE form.pet,
   prompt |-> IF form.answers = 0 THEN 1 ELSE 0,
   breed |-> IF screen.at = "result" THEN 0 ELSE form.breed]

\* A key for every call.
KeyFresh(i) == Len(calls) + 1
\* The key of the attempt that was not answered yet, if it was for the same.
Key(i) ==
  IF attempt.key # 0 /\ SameIntent(attempt.intent, i) THEN attempt.key ELSE Len(calls) + 1

\* The user wants the same thing still when the last order was for it, nothing
\* was changed since, and no order was answered with a job.
Wanted(i) == IF wish.intent = i THEN wish.n ELSE wish.n + 1

\* "Make it", "make it again", and "try again" of the credit overlay.
Press ==
  /\ screen.at \in {"upload", "result", "creative"}
  /\ form.upload # None /\ ~form.blocked
  /\ \A k \in DOMAIN calls : ~calls[k].here
  /\ Len(calls) < MaxPress
  /\ LET i == Intent
     IN /\ attempt' = IF Key(i) = attempt.key THEN attempt ELSE [key |-> Key(i), intent |-> i]
        /\ calls' = Append(calls, [key |-> Key(i), intent |-> i, at |-> screen.at, job |-> screen.job,
                                   here |-> TRUE, pc |-> "sent", answer |-> "none", got |-> None,
                                   order |-> Wanted(i)])
        /\ wish' = [n |-> Wanted(i), intent |-> i]
  /\ UNCHANGED <<api, draft, active, page, known, acts, faults>>

\* create_job: a key that made a job is answered with it.
Replayed(key) == {j \in DOMAIN jobs : jobs[j].key = key /\ Reachable(j)}

\* The breed of an order is kept before its credit is looked at.
Serve(k) ==
  /\ calls[k].pc = "sent"
  /\ LET c == calls[k]
         photo == c.intent.upload
         Reply(answer, j) == calls' = [calls EXCEPT ![k].pc = "back", ![k].answer = answer, ![k].got = j]
         Label == labelled' = IF c.intent.breed = 1 THEN labelled \cup {photo} ELSE labelled
     IN \/ \E j \in Replayed(c.key) : Reply("ok", j) /\ UNCHANGED <<jobs, credit, labelled, faults>>
        \/ /\ Replayed(c.key) = {}
           /\ \/ photo <= stale /\ Reply("not_found", None) /\ UNCHANGED <<jobs, credit, labelled, faults>>
              \/ photo > stale /\ Fault /\ Reply("blocked", None) /\ UNCHANGED <<jobs, credit, labelled>>
              \/ photo > stale /\ credit = 0 /\ Reply("insufficient", None) /\ Label
                 /\ UNCHANGED <<jobs, credit, faults>>
              \/ /\ photo > stale /\ credit > 0 /\ Label
                 /\ jobs' = Append(jobs, [key |-> c.key, intent |-> c.intent, status |-> "running",
                                          order |-> c.order])
                 /\ credit' = credit - 1
                 /\ Reply("ok", Len(jobs'))
                 /\ UNCHANGED faults
  /\ UNCHANGED <<gone, stale, uploads, linked, storage, page, known, wish, acts>>

\* The request or its answer is lost.
Lose(k) ==
  /\ Fault
  /\ calls[k].pc \in {"sent", "back"} /\ calls[k].answer # "network"
  /\ calls' = [calls EXCEPT ![k].pc = "back", ![k].answer = "network", ![k].got = None]
  /\ UNCHANGED <<api, storage, page, known, wish, acts>>

\* What an answered call was is of no further use.
Over == [key |-> 0, intent |-> NoIntent, at |-> "none", job |-> None, here |-> FALSE,
         pc |-> "done", answer |-> "none", got |-> None, order |-> 0]

Done(k) == calls' = [calls EXCEPT ![k] = Over]

\* The order is a job: the attempt is over, and so is the draft of a form.
Ordered(k) ==
  LET c == calls[k]
  IN /\ c.pc = "back" /\ c.here /\ c.answer = "ok"
     /\ attempt' = NoAttempt
     /\ draft' = IF c.at = "result" THEN draft ELSE NoDraft
     /\ Show("waiting", c.got, cache[c.got])
     /\ trouble' = [trouble EXCEPT ![c.got] = "none"]
     /\ Touch
     /\ calls' = [i \in DOMAIN calls |->
                    IF i = k THEN Over ELSE [calls[i] EXCEPT !.here = FALSE]]
     /\ UNCHANGED <<api, cache, acts, faults>>

\* The form shows the photo of the order as blocked, whatever it showed; for
\* want of credit the order is kept in the draft.
NotOrdered(k) ==
  LET c == calls[k]
  IN /\ c.pc = "back" /\ c.here /\ c.answer # "ok"
     /\ Done(k)
     /\ \/ /\ c.answer = "blocked" /\ c.at # "creative"
           /\ form' = [form EXCEPT !.upload = c.intent.upload, !.blocked = TRUE]
           /\ draft' = draft
        \/ /\ c.answer = "insufficient" /\ c.at = "upload"
           /\ draft' = [upload |-> c.intent.upload, pet |-> c.intent.pet,
                        answers |-> c.intent.answers, breed |-> c.intent.breed]
           /\ form' = form
        \/ /\ ~(c.answer = "blocked" /\ c.at # "creative")
           /\ ~(c.answer = "insufficient" /\ c.at = "upload")
           /\ UNCHANGED <<draft, form>>
     /\ UNCHANGED <<api, attempt, active, screen, uploading, known, wish, acts, faults>>

\* Nobody waits for the answer any more.
Unheard(k) ==
  /\ calls[k].pc = "back" /\ ~calls[k].here
  /\ Done(k)
  /\ UNCHANGED <<api, storage, page, known, wish, acts, faults>>
-----------------------------------------------------------------------------
(***************************************************************************)
(* The job.                                                                *)
(***************************************************************************)
Finish(j) ==
  /\ j \in DOMAIN jobs /\ jobs[j].status = "running"
  /\ \/ jobs' = [jobs EXCEPT ![j].status = "done"] /\ UNCHANGED credit
     \/ jobs' = [jobs EXCEPT ![j].status = "failed"]
        /\ credit' = IF Reachable(j) THEN credit + 1 ELSE credit
  /\ UNCHANGED <<gone, stale, uploads, linked, labelled, storage, page, calls, known, wish, acts, faults>>

OnScreen(j) == screen.at \in {"waiting", "result"} /\ screen.job = j
\* The screen of a job, and the bar on every other screen.
Watched(j) == j \in DOMAIN jobs /\ (OnScreen(j) \/ active = j)

\* Any failed read ends the polling.
TroubleAny == "fatal"
\* A server error or a lost connection does not.
Trouble == "retry"

Polling(j) == Watched(j) /\ trouble[j] # "fatal" /\ ~Settled(cache[j])

\* The status arrives, and the screen or the bar follows it.
Poll(j) ==
  /\ Polling(j) /\ Reachable(j)
  /\ cache' = [cache EXCEPT ![j] = jobs[j].status]
  /\ trouble' = [trouble EXCEPT ![j] = "none"]
  /\ \/ OnScreen(j) /\ Show(screen.at, j, jobs[j].status)
        /\ calls' = calls
     \/ ~OnScreen(j) /\ UNCHANGED <<active, page, calls>>
  /\ UNCHANGED <<api, attempt, draft, wish, acts, faults>>

\* The job is another member's by now, also when the read is a later look at
\* one that ended: polling stops and the bar goes.
PollGone(j) ==
  /\ Watched(j) /\ trouble[j] # "fatal" /\ ~Reachable(j)
  /\ trouble' = [trouble EXCEPT ![j] = "fatal"]
  /\ active' = IF OnScreen(j) THEN active ELSE Forget(j)
  /\ UNCHANGED <<api, attempt, draft, page, calls, cache, wish, acts, faults>>

PollFails(j) ==
  /\ Polling(j) /\ Fault
  /\ trouble' = [trouble EXCEPT ![j] = Trouble]
  /\ UNCHANGED <<api, storage, page, calls, cache, wish, acts>>

\* The bar's close button, and its disappearance once the read was refused.
Dismiss ==
  /\ active # None /\ ~OnScreen(active)
  /\ active' = None
  /\ UNCHANGED <<api, attempt, draft, page, calls, known, wish, acts, faults>>

Earn ==
  /\ Act /\ credit = 0 /\ credit' = 1
  /\ UNCHANGED <<jobs, gone, stale, uploads, linked, labelled, storage, page, calls, known, wish, faults>>

\* The tab becomes another guest: by itself, or by a withdrawal that clears
\* sessionStorage while the bar keeps its copy.
LoseSession ==
  /\ Act /\ gone < Len(jobs)
  /\ gone' = Len(jobs) /\ stale' = uploads /\ linked' = {} /\ credit' = 1
  /\ \/ UNCHANGED <<attempt, draft, screen, form, uploading, calls>>
     \/ /\ attempt' = NoAttempt /\ draft' = NoDraft
        /\ screen' = [at |-> "browse", job |-> None]
        /\ form' = Blank /\ uploading' = NoUpload
        /\ Away
  /\ Touch
  /\ UNCHANGED <<jobs, uploads, labelled, active, known, faults>>

Next ==
  \/ Browse \/ Reload \/ \E from \in {None} \cup Job : OpenUpload(from) \/ OpenCreative(from)
  \/ \E j \in Job, at \in {"waiting", "result"} : OpenJob(at, j)
  \/ ChoosePhoto \/ Uploaded \/ SelectPet \/ SavePet \/ ChangeInput \/ ChangeBreed
  \/ PickAnother
  \/ Press
  \/ \E k \in DOMAIN calls : Serve(k) \/ Lose(k) \/ Ordered(k) \/ NotOrdered(k) \/ Unheard(k)
  \/ \E j \in Job : Finish(j) \/ Poll(j) \/ PollGone(j) \/ PollFails(j)
  \/ Dismiss \/ Earn \/ LoseSession

Spec == Init /\ [][Next]_vars

\* The queue ends its jobs, and a visible page polls.
Fairness == \A j \in Job : WF_vars(Finish(j)) /\ WF_vars(Poll(j)) /\ WF_vars(PollGone(j))

FairSpec == Spec /\ Fairness
-----------------------------------------------------------------------------
\* Types: no storage, screen or call refers to a photo or a job there is not, and
\* only a photo is refused as unfit.
TypeOK ==
  /\ gone \in 0 .. Len(jobs) /\ stale \in 0 .. uploads /\ uploads \in 0 .. MaxUpload
  /\ linked \cup labelled \subseteq 1 .. uploads
  /\ draft.upload \in 0 .. uploads /\ form.upload \in 0 .. uploads
  /\ form.blocked => form.upload # None
  /\ active \in 0 .. Len(jobs) /\ credit \in Nat
  /\ screen.at \in {"browse", "upload", "creative", "waiting", "result"}
  /\ screen.job \in 0 .. Len(jobs)
  /\ \A k \in DOMAIN calls : calls[k].pc \in {"sent", "back", "done"} /\ calls[k].key \in 0 .. MaxPress
  /\ \A j \in Job : /\ cache[j] \in {"none", "running", "done", "failed"}
                    /\ trouble[j] \in {"none", "retry", "fatal"}
  /\ acts \in 0 .. MaxAct /\ faults \in 0 .. MaxFault

\* What the user wants once makes one job, and is charged once, in spite of lost
\* answers, of screens left before their answer, of reloads, of refusals for want
\* of credit and of lost sessions, as long as the form still says the same.
PaidOnce ==
  \A i, j \in DOMAIN jobs : i # j => jobs[i].order # jobs[j].order

\* The job an order is answered with was made for that photo, dog, sentence and
\* answers, also when an earlier order made it; and for that breed, unless the
\* user wants something else by now than when it was made.
AnswerIsAsked ==
  \A k \in DOMAIN calls : calls[k].got # None
    => LET job == jobs[calls[k].got]
           i == calls[k].intent
       IN /\ <<job.intent.upload, job.intent.pet, job.intent.prompt, job.intent.answers>>
               = <<i.upload, i.pet, i.prompt, i.answers>>
          /\ job.order = calls[k].order => job.intent.breed = i.breed

\* The bar lets go of a job only for a newer one that runs, because the user
\* closed it, because its end was seen, or because it cannot be read.
BarKeepsItsJob ==
  [][ active # None /\ active' # active
      => \/ active' # None /\ cache'[active'] = "running"
         \/ screen'.job = active /\ Settled(cache'[active])
         \/ trouble'[active] = "fatal"
         \/ Dismiss ]_vars

\* What is watched comes to its end on the screen or in the bar.
EndIsShown ==
  \A j \in Job : Watched(j) ~> (~Watched(j) \/ Settled(cache[j]) \/ ~Reachable(j))

\* Refuted by an order whose answer is lost and a breed that is changed after it:
\* the breed is part of the intent, and another one is another order
\* (idempotency.ts:37), which sameIntent does not compare.
BreedIsAnswered ==
  \A k \in DOMAIN calls : calls[k].got # None
    => jobs[calls[k].got].intent.breed = calls[k].intent.breed

\* Refuted by a second press under the same answers: "make it again" never
\* answers with the picture it was pressed under.
RegenerateIsNew ==
  \A k \in DOMAIN calls : calls[k].at = "result" /\ calls[k].got # None
                            => calls[k].got # calls[k].job
=============================================================================
