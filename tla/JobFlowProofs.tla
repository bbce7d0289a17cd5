--------------------------- MODULE JobFlowProofs ---------------------------
(***************************************************************************)
(* Theorems about JobFlow.tla, for any number of orders, photos, acts and  *)
(* lost calls: its types, that a wish makes one job, that an answer is the *)
(* job that was asked for, and that the bar keeps its job.                 *)
(***************************************************************************)
EXTENDS JobFlow, SequenceTheorems, TLAPS

IntentRecord == [upload : Nat, answers : 0 .. 2, pet : 0 .. 1, prompt : 0 .. 1, breed : 0 .. 1]

JobRecord ==
  [key : Nat, intent : IntentRecord, status : {"running", "done", "failed"}, order : Nat]

Answer == {"none", "ok", "not_found", "blocked", "insufficient", "network"}

CallRecord ==
  [key : 0 .. MaxPress, intent : IntentRecord, at : {"none", "upload", "creative", "result"},
   job : Nat, here : BOOLEAN, pc : {"sent", "back", "done"},
   answer : Answer,
   got : Nat, order : Nat]

DraftRecord == [upload : Nat, pet : 0 .. 1, answers : 0 .. 2, breed : 0 .. 1]
FormRecord == [upload : Nat, pet : 0 .. 1, answers : 0 .. 2, breed : 0 .. 1, blocked : BOOLEAN]
ScreenRecord == [at : {"browse", "upload", "creative", "waiting", "result"}, job : Nat]

ApiTypes ==
  /\ jobs \in Seq(JobRecord) /\ gone \in 0 .. Len(jobs) /\ credit \in Nat
  /\ uploads \in 0 .. MaxUpload /\ stale \in 0 .. uploads /\ linked \subseteq 1 .. uploads
  /\ labelled \subseteq 1 .. uploads

StorageTypes ==
  /\ attempt \in [key : Nat, intent : IntentRecord]
  /\ draft \in DraftRecord /\ draft.upload <= uploads
  /\ active \in 0 .. Len(jobs)

PageTypes ==
  /\ screen \in ScreenRecord /\ screen.job <= Len(jobs)
  /\ form \in FormRecord /\ form.upload <= uploads
  /\ form.blocked => form.upload # None
  /\ uploading \in [on : BOOLEAN, pet : 0 .. 1] /\ (uploading.on => uploads < MaxUpload)

CallTypes == calls \in Seq(CallRecord) /\ Len(calls) <= MaxPress

KnownTypes ==
  /\ cache \in [Job -> {"none", "running", "done", "failed"}]
  /\ trouble \in [Job -> {"none", "retry", "fatal"}]

CountTypes ==
  /\ wish \in [n : Nat, intent : IntentRecord]
  /\ acts \in 0 .. MaxAct /\ faults \in 0 .. MaxFault

\* What was asked for: by the calls that are not over, and by the jobs.
Ask(r) == [order |-> r.order, key |-> r.key, intent |-> r.intent]
Asked ==
  {Ask(calls[k]) : k \in {n \in DOMAIN calls : calls[n].pc # "done"}}
    \cup {Ask(jobs[j]) : j \in DOMAIN jobs}

AskedWell ==
  \A x \in Asked :
    x.key \in 1 .. Len(calls) /\ x.order \in 1 .. wish.n /\ x.intent.upload \in 1 .. uploads

\* A key stands for one intent but for its breed, and a wish for one key and
\* one intent with its breed.
KeysMean ==
  /\ \A x, y \in Asked : x.key = y.key => SameIntent(x.intent, y.intent)
  /\ \A x, y \in Asked : x.order = y.order => x.key = y.key /\ x.intent = y.intent

\* The stored attempt is of that kind, and while a wish stands it is its own.
AttemptMeans ==
  /\ attempt.key <= Len(calls)
  /\ \A x \in Asked : x.key = attempt.key => SameIntent(x.intent, attempt.intent)
  /\ wish.intent.upload # None
       => /\ wish.n # 0 /\ attempt.key # 0 /\ SameIntent(attempt.intent, wish.intent)
          /\ \A x \in Asked : x.order = wish.n => x.key = attempt.key /\ x.intent = wish.intent

AnswersWell ==
  \A k \in DOMAIN calls :
    /\ calls[k].answer = "ok" => calls[k].got # None
    /\ calls[k].got # None => /\ calls[k].pc = "back" /\ calls[k].got \in DOMAIN jobs
                              /\ jobs[calls[k].got].key = calls[k].key

\* The photos of a lost session are of its jobs, and of no later one.
SidesMatch == \A j \in DOMAIN jobs : j > gone <=> jobs[j].intent.upload > stale

OneJobPerKey == \A i, j \in DOMAIN jobs : i # j => jobs[i].key # jobs[j].key

Types == ApiTypes /\ StorageTypes /\ PageTypes /\ CallTypes /\ KnownTypes /\ CountTypes

IInv ==
  /\ Types
  /\ AskedWell /\ KeysMean /\ AttemptMeans /\ AnswersWell
  /\ SidesMatch /\ OneJobPerKey
-----------------------------------------------------------------------------
(***************************************************************************)
(* Sequences of calls and jobs.                                            *)
(***************************************************************************)
LEMMA Indices ==
  ASSUME Types
  PROVE  /\ DOMAIN jobs = 1 .. Len(jobs) /\ Len(jobs) \in Nat
         /\ DOMAIN calls = 1 .. Len(calls) /\ Len(calls) \in Nat
         /\ \A j \in DOMAIN jobs : jobs[j] \in JobRecord
         /\ \A k \in DOMAIN calls : calls[k] \in CallRecord
  BY LenProperties, ElementOfSeq DEF Types, ApiTypes, CallTypes

LEMMA OneCall ==
  ASSUME CallTypes, NEW k \in DOMAIN calls, NEW r \in CallRecord,
         calls' = [calls EXCEPT ![k] = r]
  PROVE  /\ CallTypes' /\ Len(calls') = Len(calls) /\ DOMAIN calls' = DOMAIN calls
         /\ \A n \in DOMAIN calls : calls'[n] = IF n = k THEN r ELSE calls[n]
  <1>1. k \in 1 .. Len(calls) /\ DOMAIN calls = 1 .. Len(calls)
    BY LenProperties DEF CallTypes
  <1>2. calls' \in Seq(CallRecord) /\ Len(calls') = Len(calls)
    BY <1>1, ExceptSeq DEF CallTypes
  <1> QED
    BY <1>1, <1>2 DEF CallTypes

LEMMA EveryCall ==
  ASSUME CallTypes, DOMAIN calls' = DOMAIN calls, NEW f, calls' = [n \in DOMAIN calls |-> f[n]],
         \A n \in DOMAIN calls : f[n] \in CallRecord
  PROVE  CallTypes' /\ Len(calls') = Len(calls)
  <1>1. DOMAIN calls = 1 .. Len(calls) /\ Len(calls) \in Nat
    BY LenProperties DEF CallTypes
  <1>2. calls' \in [1 .. Len(calls) -> CallRecord]
    BY <1>1
  <1>3. calls' \in Seq(CallRecord)
    BY <1>1, <1>2, IsASeq
  <1>4. Len(calls') = Len(calls)
    BY <1>1, <1>2, <1>3, LenProperties
  <1> QED
    BY <1>3, <1>4 DEF CallTypes

LEMMA OverIsCall == Over \in CallRecord /\ NoIntent \in IntentRecord
  BY JobFlowAssumption DEF Over, NoIntent, CallRecord, Answer, IntentRecord, None

LEMMA LeftIsCall ==
  ASSUME NEW r \in CallRecord
  PROVE  /\ [r EXCEPT !.here = FALSE] \in CallRecord
         /\ [r EXCEPT !.here = FALSE].pc = r.pc /\ [r EXCEPT !.here = FALSE].got = r.got
         /\ [r EXCEPT !.here = FALSE].answer = r.answer
         /\ Ask([r EXCEPT !.here = FALSE]) = Ask(r)
  BY DEF CallRecord, Ask

\* A call after the step is the same to the API, or over, or refused or lost.
Milder(k) ==
  /\ calls'[k].pc # "done" => calls[k].pc # "done" /\ Ask(calls'[k]) = Ask(calls[k])
  /\ \/ calls'[k].got = calls[k].got /\ calls'[k].answer = calls[k].answer
        /\ calls'[k].pc = calls[k].pc /\ calls'[k].key = calls[k].key
     \/ calls'[k].got = None /\ calls'[k].answer # "ok"

CallsCalm == DOMAIN calls' = DOMAIN calls /\ \A k \in DOMAIN calls : Milder(k)

JobsCalm ==
  /\ DOMAIN jobs' = DOMAIN jobs
  /\ \A j \in DOMAIN jobs : Ask(jobs'[j]) = Ask(jobs[j])

LEMMA CallsStay ==
  ASSUME Types, UNCHANGED calls
  PROVE  CallTypes' /\ Len(calls') = Len(calls) /\ CallsCalm
  BY DEF Types, CallTypes, CallsCalm, Milder

LEMMA CallsLeft ==
  ASSUME Types, Away
  PROVE  CallTypes' /\ Len(calls') = Len(calls) /\ CallsCalm
  <1> DEFINE f == [n \in DOMAIN calls |-> [calls[n] EXCEPT !.here = FALSE]]
  <1>1. \A n \in DOMAIN calls : f[n] = [calls[n] EXCEPT !.here = FALSE]
    OBVIOUS
  <1>2. calls' = f /\ DOMAIN f = DOMAIN calls /\ f = [n \in DOMAIN calls |-> f[n]]
    BY DEF Away
  <1> HIDE DEF f
  <1>3. \A n \in DOMAIN calls :
          /\ f[n] \in CallRecord
          /\ f[n].pc = calls[n].pc /\ f[n].got = calls[n].got /\ f[n].answer = calls[n].answer
          /\ Ask(f[n]) = Ask(calls[n])
    BY <1>1, Indices, LeftIsCall
  <1>4. CallTypes' /\ Len(calls') = Len(calls)
    BY <1>2, <1>3, EveryCall DEF Types
  <1>5. \A n \in DOMAIN calls : f[n].key = calls[n].key
    BY <1>3 DEF Ask
  <1>6. CallsCalm
    BY <1>2, <1>3, <1>5 DEF CallsCalm, Milder
  <1> QED
    BY <1>4, <1>6

LEMMA CallEnds ==
  ASSUME Types, NEW k \in DOMAIN calls, Done(k)
  PROVE  CallTypes' /\ Len(calls') = Len(calls) /\ CallsCalm
  <1>1. /\ CallTypes' /\ Len(calls') = Len(calls) /\ DOMAIN calls' = DOMAIN calls
        /\ \A n \in DOMAIN calls : calls'[n] = IF n = k THEN Over ELSE calls[n]
    BY OneCall, OverIsCall DEF Types, Done
  <1>2. Over.pc = "done" /\ Over.got = None /\ Over.answer # "ok"
    BY DEF Over
  <1> QED
    BY <1>1, <1>2 DEF CallsCalm, Milder

LEMMA JobsStay ==
  ASSUME UNCHANGED jobs
  PROVE  JobsCalm
  BY DEF JobsCalm
-----------------------------------------------------------------------------
(***************************************************************************)
(* A step that asks for nothing new keeps the meaning of what was asked.   *)
(***************************************************************************)
LEMMA NothingNew ==
  ASSUME CallsCalm, JobsCalm
  PROVE  Asked' \subseteq Asked
  <1>1. ASSUME NEW k \in DOMAIN calls', calls'[k].pc # "done"
        PROVE  Ask(calls'[k]) \in Asked
    <2>1. k \in DOMAIN calls /\ calls[k].pc # "done" /\ Ask(calls'[k]) = Ask(calls[k])
      BY <1>1 DEF CallsCalm, Milder
    <2> QED
      BY <2>1 DEF Asked
  <1>2. ASSUME NEW j \in DOMAIN jobs'
        PROVE  Ask(jobs'[j]) \in Asked
    BY DEF JobsCalm, Asked
  <1>3. Asked' = {Ask(calls'[k]) : k \in {n \in DOMAIN calls' : calls'[n].pc # "done"}}
                   \cup {Ask(jobs'[j]) : j \in DOMAIN jobs'}
    BY DEF Asked, Ask
  <1> QED
    BY <1>1, <1>2, <1>3

LEMMA AskedCalls ==
  ASSUME NEW k \in DOMAIN calls, calls[k].pc # "done"
  PROVE  \E x \in Asked : x.key = calls[k].key /\ x.order = calls[k].order /\ x.intent = calls[k].intent
  <1>1. Ask(calls[k]) \in Asked
    BY DEF Asked
  <1> QED
    BY <1>1 DEF Ask

LEMMA AskedJobs ==
  ASSUME NEW j \in DOMAIN jobs
  PROVE  \E x \in Asked : x.key = jobs[j].key /\ x.order = jobs[j].order /\ x.intent = jobs[j].intent
  <1>1. Ask(jobs[j]) \in Asked
    BY DEF Asked
  <1> QED
    BY <1>1 DEF Ask

\* The wish stands under its attempt, or it does not stand any more.
WishCalm ==
  /\ wish'.n = wish.n
  /\ \/ wish'.intent.upload = None /\ (attempt' = attempt \/ attempt' = NoAttempt)
     \/ wish'.intent = wish.intent /\ attempt' = attempt

LEMMA MeaningKept ==
  ASSUME IInv, Asked' \subseteq Asked, Len(calls') = Len(calls), WishCalm,
         uploads' \in Nat, uploads' >= uploads
  PROVE  AskedWell' /\ KeysMean' /\ AttemptMeans'
  <1>1. Len(calls) \in Nat /\ uploads \in Nat
    BY Indices DEF IInv, Types, ApiTypes
  <1>2. \A x \in Asked' :
          x.key \in 1 .. Len(calls) /\ x.order \in 1 .. wish.n /\ x.intent.upload \in 1 .. uploads
    BY DEF IInv, AskedWell
  <1>3. AskedWell'
    BY <1>1, <1>2 DEF AskedWell, WishCalm
  <1>4. KeysMean'
    BY DEF IInv, KeysMean
  <1>5. ASSUME attempt' = NoAttempt, wish'.intent.upload = None
        PROVE  AttemptMeans'
    <2>1. attempt'.key = 0
      BY <1>5 DEF NoAttempt
    <2>2. \A x \in Asked' : x.key # 0
      BY <1>1, <1>2
    <2> QED
      BY <1>1, <1>5, <2>1, <2>2 DEF AttemptMeans
  <1>6. ASSUME attempt' = attempt, wish'.intent.upload = None
        PROVE  AttemptMeans'
    BY <1>6 DEF IInv, AttemptMeans
  <1>7. ASSUME attempt' = attempt, wish'.intent = wish.intent
        PROVE  AttemptMeans'
    BY <1>7 DEF IInv, AttemptMeans, WishCalm
  <1> QED
    BY <1>3, <1>4, <1>5, <1>6, <1>7 DEF WishCalm

LEMMA AnswersKept ==
  ASSUME IInv, CallsCalm, JobsCalm
  PROVE  AnswersWell'
  <1> SUFFICES ASSUME NEW k \in DOMAIN calls'
               PROVE  /\ calls'[k].answer = "ok" => calls'[k].got # None
                      /\ calls'[k].got # None => /\ calls'[k].pc = "back" /\ calls'[k].got \in DOMAIN jobs'
                                                 /\ jobs'[calls'[k].got].key = calls'[k].key
    BY DEF AnswersWell
  <1>1. k \in DOMAIN calls /\ Milder(k)
    BY DEF CallsCalm
  <1>2. CASE calls'[k].got = None /\ calls'[k].answer # "ok"
    BY <1>2
  <1>3. CASE /\ calls'[k].got = calls[k].got /\ calls'[k].answer = calls[k].answer
             /\ calls'[k].pc = calls[k].pc /\ calls'[k].key = calls[k].key
    <2>1. /\ calls[k].answer = "ok" => calls[k].got # None
          /\ calls[k].got # None => /\ calls[k].pc = "back" /\ calls[k].got \in DOMAIN jobs
                                    /\ jobs[calls[k].got].key = calls[k].key
      BY <1>1 DEF IInv, AnswersWell
    <2>2. \A j \in DOMAIN jobs : j \in DOMAIN jobs' /\ jobs'[j].key = jobs[j].key
      BY DEF JobsCalm, Ask
    <2> QED
      BY <1>3, <2>1, <2>2
  <1> QED
    BY <1>1, <1>2, <1>3 DEF Milder

LEMMA SidesKept ==
  ASSUME IInv, JobsCalm, UNCHANGED <<gone, stale>>
  PROVE  SidesMatch' /\ OneJobPerKey'
  <1>1. \A j \in DOMAIN jobs : jobs'[j].key = jobs[j].key /\ jobs'[j].intent = jobs[j].intent
    BY DEF JobsCalm, Ask
  <1>2. DOMAIN jobs' = DOMAIN jobs
    BY DEF JobsCalm
  <1>3. SidesMatch'
    BY <1>1, <1>2 DEF IInv, SidesMatch
  <1>4. OneJobPerKey'
    BY <1>1, <1>2 DEF IInv, OneJobPerKey
  <1> QED
    BY <1>3, <1>4

\* What such a step keeps of the invariant.
LEMMA Calm ==
  ASSUME IInv, CallsCalm, JobsCalm, Len(calls') = Len(calls), WishCalm,
         uploads' \in Nat, uploads' >= uploads, UNCHANGED <<gone, stale>>, Types'
  PROVE  IInv'
  <1>1. AskedWell' /\ KeysMean' /\ AttemptMeans'
    BY NothingNew, MeaningKept
  <1>2. AnswersWell' /\ SidesMatch' /\ OneJobPerKey'
    BY AnswersKept, SidesKept
  <1> QED
    BY <1>1, <1>2 DEF IInv
-----------------------------------------------------------------------------
(***************************************************************************)
(* Types of what the actions are built from.                               *)
(***************************************************************************)
LEMMA Bounds ==
  ASSUME JobFlowAssumption
  PROVE  MaxPress \in Nat /\ MaxUpload \in Nat /\ MaxAct \in Nat /\ MaxFault \in Nat
  BY DEF JobFlowAssumption

LEMMA Still ==
  ASSUME Types
  PROVE  /\ UNCHANGED api => ApiTypes'
         /\ UNCHANGED <<jobs, uploads, storage>> => StorageTypes'
         /\ UNCHANGED <<jobs, uploads, page>> => PageTypes'
         /\ UNCHANGED known => KnownTypes'
         /\ UNCHANGED <<wish, acts, faults>> => CountTypes'
  BY DEF Types, ApiTypes, StorageTypes, PageTypes, KnownTypes, CountTypes, api, storage, page, known

LEMMA Counted ==
  ASSUME Types, JobFlowAssumption
  PROVE  /\ acts \in 0 .. MaxAct /\ faults \in 0 .. MaxFault
         /\ Act => acts' \in 0 .. MaxAct
         /\ Fault => faults' \in 0 .. MaxFault
  <1>1. acts \in 0 .. MaxAct /\ faults \in 0 .. MaxFault
    BY DEF Types, CountTypes
  <1>2. ASSUME Act
        PROVE  acts' \in 0 .. MaxAct
    BY <1>1, <1>2, Bounds DEF Act
  <1>3. ASSUME Fault
        PROVE  faults' \in 0 .. MaxFault
    BY <1>1, <1>3, Bounds DEF Fault
  <1> QED
    BY <1>1, <1>2, <1>3

LEMMA Touched ==
  ASSUME Types, Touch
  PROVE  /\ wish' \in [n : Nat, intent : IntentRecord]
         /\ wish'.n = wish.n /\ wish'.intent.upload = None
  <1>1. wish \in [n : Nat, intent : IntentRecord] /\ NoIntent \in IntentRecord
    BY OverIsCall DEF Types, CountTypes
  <1> QED
    BY <1>1 DEF Touch, NoIntent

LEMMA WishStays ==
  ASSUME UNCHANGED <<wish, attempt>>
  PROVE  WishCalm
  BY DEF WishCalm

LEMMA WishTouched ==
  ASSUME Types, Touch, attempt' = attempt \/ attempt' = NoAttempt
  PROVE  WishCalm
  BY Touched DEF WishCalm

\* A form that shows no blocked photo.
Plain(f) == f \in FormRecord /\ ~f.blocked /\ f.upload <= uploads

LEMMA BlankForm ==
  ASSUME uploads \in Nat
  PROVE  Plain(Blank)
  BY DEF Plain, Blank, FormRecord, None

LEMMA PlainUpdates ==
  ASSUME NEW f, Plain(f), NEW u \in Nat, u <= uploads,
         NEW p \in 0 .. 1, NEW a \in 0 .. 2, NEW b \in 0 .. 1
  PROVE  /\ Plain([f EXCEPT !.upload = u, !.answers = a])
         /\ Plain([f EXCEPT !.upload = u, !.pet = p])
         /\ Plain([f EXCEPT !.upload = u, !.pet = p, !.breed = b])
         /\ Plain([f EXCEPT !.answers = a, !.breed = b])
  BY DEF Plain, FormRecord

LEMMA JobIntent ==
  ASSUME IInv, NEW j \in DOMAIN jobs
  PROVE  jobs[j].intent \in IntentRecord /\ jobs[j].intent.upload \in 1 .. uploads
  <1>1. jobs[j].intent \in IntentRecord
    BY Indices DEF IInv, JobRecord
  <1>2. jobs[j].intent.upload \in 1 .. uploads
    BY AskedJobs DEF IInv, AskedWell
  <1> QED
    BY <1>1, <1>2

LEMMA CallIntent ==
  ASSUME IInv, NEW k \in DOMAIN calls, calls[k].pc # "done"
  PROVE  calls[k].intent \in IntentRecord /\ calls[k].intent.upload \in 1 .. uploads
  <1>1. calls[k].intent \in IntentRecord
    BY Indices DEF IInv, CallRecord
  <1>2. calls[k].intent.upload \in 1 .. uploads
    BY AskedCalls DEF IInv, AskedWell
  <1> QED
    BY <1>1, <1>2

LEMMA AgainForm ==
  ASSUME IInv, NEW j \in DOMAIN jobs
  PROVE  Plain(Again(j))
  <1> DEFINE i == jobs[j].intent
             a == IF i.prompt = 1 THEN 0 ELSE IF i.answers = 0 THEN 1 ELSE i.answers
  <1>1. i \in IntentRecord /\ i.upload \in 1 .. uploads /\ uploads \in Nat
    BY JobIntent DEF IInv, Types, ApiTypes
  <1>2. a \in 0 .. 2 /\ i.upload \in Nat /\ i.upload <= uploads
    BY <1>1 DEF IntentRecord
  <1>3. Again(j) = [Blank EXCEPT !.upload = i.upload, !.answers = a]
    BY DEF Again
  <1>4. Plain(Blank) /\ 0 \in 0 .. 1
    BY <1>1, BlankForm
  <1> HIDE DEF i, a
  <1>5. Plain([Blank EXCEPT !.upload = i.upload, !.answers = a])
    BY <1>2, <1>4, PlainUpdates
  <1> QED
    BY <1>3, <1>5

LEMMA ReusedForm ==
  ASSUME IInv, NEW kept, Plain(kept), NEW j \in DOMAIN jobs, NEW p \in 0 .. 1
  PROVE  Plain(Reused(kept, jobs[j].intent.upload, p))
  <1> DEFINE u == jobs[j].intent.upload
             b == IF u \in labelled THEN 1 ELSE kept.breed
  <1>1. u \in Nat /\ u <= uploads /\ b \in 0 .. 1 /\ 0 \in 0 .. 2
    BY JobIntent DEF IInv, Types, ApiTypes, Plain, FormRecord
  <1>2. Reused(kept, u, p) = [kept EXCEPT !.upload = u, !.pet = p, !.breed = b]
    BY DEF Reused
  <1> HIDE DEF u, b
  <1>3. Plain([kept EXCEPT !.upload = u, !.pet = p, !.breed = b])
    BY <1>1, PlainUpdates
  <1>4. Plain(Reused(kept, u, p))
    BY <1>2, <1>3
  <1> QED
    BY <1>4 DEF u

\* What the draft gives a form: its answers and breed, and its photo.
LEMMA DraftForm ==
  ASSUME IInv, NEW a \in 0 .. 2, NEW kept, kept = [Blank EXCEPT !.answers = a, !.breed = draft.breed]
  PROVE  Plain(kept) /\ Plain([kept EXCEPT !.upload = draft.upload, !.pet = draft.pet])
  <1>1. /\ draft.upload \in Nat /\ draft.pet \in 0 .. 1 /\ draft.breed \in 0 .. 1
        /\ draft.upload <= uploads /\ 0 \in 0 .. 1 /\ uploads \in Nat /\ 0 \in Nat /\ 0 <= uploads
    BY DEF IInv, Types, StorageTypes, DraftRecord, ApiTypes
  <1>2. Plain(kept)
    BY <1>1, BlankForm, PlainUpdates
  <1>3. 0 \in 0 .. 2
    OBVIOUS
  <1> QED
    BY <1>1, <1>2, <1>3, PlainUpdates

LEMMA RestoredForm ==
  ASSUME IInv, NEW from
  PROVE  Plain(Restored(from))
  <1> DEFINE a == IF draft.answers = 0 THEN 1 ELSE draft.answers
             kept == [Blank EXCEPT !.answers = a, !.breed = draft.breed]
             p == IF jobs[from].intent.upload \in linked THEN 1 ELSE 0
  <1>1. a \in 0 .. 2 /\ p \in 0 .. 1
    BY DEF IInv, Types, StorageTypes, DraftRecord
  <1>2. Restored(from) = IF from # None /\ Reachable(from)
                         THEN Reused(kept, jobs[from].intent.upload, p)
                         ELSE [kept EXCEPT !.upload = draft.upload, !.pet = draft.pet]
    BY DEF Restored
  <1> HIDE DEF a, p
  <1>3. Plain(kept) /\ Plain([kept EXCEPT !.upload = draft.upload, !.pet = draft.pet])
    BY <1>1, DraftForm
  <1> HIDE DEF kept
  <1>4. ASSUME from # None /\ Reachable(from)
        PROVE  Plain(Reused(kept, jobs[from].intent.upload, p))
    BY <1>1, <1>3, <1>4, ReusedForm DEF Reachable
  <1> QED
    BY <1>2, <1>3, <1>4

LEMMA SentenceForm ==
  ASSUME IInv, NEW from
  PROVE  Plain(Sentence(from))
  <1> DEFINE kept == [Blank EXCEPT !.answers = 0, !.breed = draft.breed]
  <1>1. 0 \in 0 .. 2 /\ 0 \in 0 .. 1
    OBVIOUS
  <1>2. Sentence(from) = IF from # None /\ Reachable(from)
                         THEN Reused(kept, jobs[from].intent.upload, 0)
                         ELSE [kept EXCEPT !.upload = draft.upload, !.pet = draft.pet]
    BY DEF Sentence
  <1>3. Plain(kept) /\ Plain([kept EXCEPT !.upload = draft.upload, !.pet = draft.pet])
    BY <1>1, DraftForm
  <1> HIDE DEF kept
  <1>4. ASSUME from # None /\ Reachable(from)
        PROVE  Plain(Reused(kept, jobs[from].intent.upload, 0))
    BY <1>1, <1>3, <1>4, ReusedForm DEF Reachable
  <1> QED
    BY <1>2, <1>3, <1>4

\* A screen of a job that there is.
LEMMA ShowTypes ==
  ASSUME IInv, NEW j \in DOMAIN jobs, NEW at \in {"waiting", "result"}, NEW status,
         Show(at, j, status)
  PROVE  /\ active' \in 0 .. Len(jobs)
         /\ screen' \in ScreenRecord /\ screen'.job <= Len(jobs)
         /\ Plain(form') /\ uploading' = NoUpload
  <1>1. j \in Nat /\ j \in 0 .. Len(jobs) /\ j <= Len(jobs) /\ active \in 0 .. Len(jobs)
    BY Indices DEF IInv, Types, StorageTypes
  <1>2. screen' \in ScreenRecord /\ screen'.job <= Len(jobs)
    BY <1>1 DEF Show, ScreenRecord
  <1>3. active' \in 0 .. Len(jobs)
    BY <1>1, Indices DEF Show, Forget, None, IInv
  <1>4. uploads \in Nat
    BY DEF IInv, Types, ApiTypes
  <1>5. Plain(Again(j)) /\ Plain(Blank)
    BY <1>4, AgainForm, BlankForm
  <1>6. form' = Again(j) \/ form' = Blank
    BY DEF Show
  <1>7. Plain(form')
    BY <1>5, <1>6
  <1> QED
    BY <1>2, <1>3, <1>7 DEF Show

\* A page with no upload under way.
LEMMA PageOK ==
  ASSUME screen' \in ScreenRecord, screen'.job <= Len(jobs'),
         Plain(form'), UNCHANGED uploads, uploading' = NoUpload
  PROVE  PageTypes'
  <1>1. NoUpload \in [on : BOOLEAN, pet : 0 .. 1] /\ ~NoUpload.on
    BY DEF NoUpload
  <1>2. form' \in FormRecord /\ form'.upload <= uploads' /\ ~form'.blocked
    BY DEF Plain
  <1> QED
    BY <1>1, <1>2 DEF PageTypes
-----------------------------------------------------------------------------
(***************************************************************************)
(* The screens.                                                            *)
(***************************************************************************)
LEMMA BrowseStep ==
  ASSUME JobFlowAssumption, IInv, Browse
  PROVE  IInv'
  <1>1. CallTypes' /\ Len(calls') = Len(calls) /\ CallsCalm
    BY CallsLeft DEF Browse, IInv
  <1>2. JobsCalm /\ WishCalm
    BY JobsStay, WishStays DEF Browse, api, storage
  <1>3. uploads \in Nat /\ Len(jobs) \in Nat
    BY Indices DEF IInv, Types, ApiTypes
  <1>4. ApiTypes' /\ StorageTypes' /\ KnownTypes' /\ CountTypes'
    BY Still DEF IInv, Browse, api, storage
  <1>5. PageTypes'
    <2>1. screen' \in ScreenRecord /\ screen'.job <= Len(jobs')
      BY <1>3 DEF Browse, ScreenRecord, None, api
    <2>2. Plain(form') /\ uploading' = NoUpload /\ UNCHANGED uploads
      BY <1>3, BlankForm DEF Browse, api
    <2> QED
      BY <2>1, <2>2, PageOK
  <1>6. Types'
    BY <1>1, <1>4, <1>5 DEF Types
  <1> QED
    BY <1>1, <1>2, <1>3, <1>6, Calm DEF Browse, api

LEMMA OpenJobStep ==
  ASSUME JobFlowAssumption, IInv, NEW j, NEW at \in {"waiting", "result"}, OpenJob(at, j)
  PROVE  IInv'
  <1> USE DEF OpenJob
  <1>1. CallTypes' /\ Len(calls') = Len(calls) /\ CallsCalm
    BY CallsLeft DEF IInv
  <1>2. JobsCalm /\ WishCalm
    BY JobsStay, WishTouched DEF api, IInv
  <1>3. uploads \in Nat /\ Len(jobs) \in Nat
    BY Indices DEF IInv, Types, ApiTypes
  <1>4. /\ active' \in 0 .. Len(jobs)
        /\ screen' \in ScreenRecord /\ screen'.job <= Len(jobs)
        /\ Plain(form') /\ uploading' = NoUpload
    BY ShowTypes
  <1>5. ApiTypes' /\ UNCHANGED <<jobs, uploads>>
    BY Still DEF IInv, api
  <1>6. StorageTypes'
    BY <1>4, <1>5 DEF StorageTypes, IInv, Types
  <1>7. PageTypes'
    BY <1>4, <1>5, PageOK
  <1>8. KnownTypes'
    BY DEF IInv, Types, KnownTypes
  <1>9. CountTypes'
    BY Counted, Touched DEF CountTypes, IInv
  <1>10. Types'
    BY <1>1, <1>5, <1>6, <1>7, <1>8, <1>9 DEF Types
  <1> QED
    BY <1>1, <1>2, <1>3, <1>10, Calm DEF api

LEMMA OpenUploadStep ==
  ASSUME JobFlowAssumption, IInv, NEW from, OpenUpload(from)
  PROVE  IInv'
  <1> USE DEF OpenUpload
  <1>1. CallTypes' /\ Len(calls') = Len(calls) /\ CallsCalm
    BY CallsLeft DEF IInv
  <1>2. JobsCalm /\ WishCalm
    BY JobsStay, WishStays DEF api, storage
  <1>3. uploads \in Nat /\ Len(jobs) \in Nat
    BY Indices DEF IInv, Types, ApiTypes
  <1>4. ApiTypes' /\ StorageTypes' /\ KnownTypes'
    BY Still DEF IInv, api, storage
  <1>5. PageTypes'
    <2>1. from \in Nat /\ from <= Len(jobs)
      BY <1>3 DEF IInv, Types, PageTypes, ScreenRecord, None
    <2>2. screen' \in ScreenRecord /\ screen'.job <= Len(jobs')
      BY <2>1 DEF ScreenRecord, api
    <2>3. Plain(form') /\ uploading' = NoUpload /\ UNCHANGED uploads
      BY RestoredForm DEF api
    <2> QED
      BY <2>2, <2>3, PageOK
  <1>6. CountTypes'
    BY Counted DEF CountTypes, IInv, Types
  <1>7. Types'
    BY <1>1, <1>4, <1>5, <1>6 DEF Types
  <1> QED
    BY <1>1, <1>2, <1>3, <1>7, Calm DEF api

LEMMA OpenCreativeStep ==
  ASSUME JobFlowAssumption, IInv, NEW from, OpenCreative(from)
  PROVE  IInv'
  <1> USE DEF OpenCreative
  <1>1. CallTypes' /\ Len(calls') = Len(calls) /\ CallsCalm
    BY CallsLeft DEF IInv
  <1>2. JobsCalm /\ WishCalm
    BY JobsStay, WishTouched DEF api, storage, IInv
  <1>3. uploads \in Nat /\ Len(jobs) \in Nat
    BY Indices DEF IInv, Types, ApiTypes
  <1>4. ApiTypes' /\ StorageTypes' /\ KnownTypes'
    BY Still DEF IInv, api, storage
  <1>5. PageTypes'
    <2>1. from \in Nat /\ from <= Len(jobs)
      BY <1>3 DEF IInv, Types, PageTypes, ScreenRecord, None
    <2>2. screen' \in ScreenRecord /\ screen'.job <= Len(jobs')
      BY <2>1 DEF ScreenRecord, api
    <2>3. Plain(form') /\ uploading' = NoUpload /\ UNCHANGED uploads
      BY SentenceForm DEF api
    <2> QED
      BY <2>2, <2>3, PageOK
  <1>6. CountTypes'
    BY Counted, Touched DEF CountTypes, IInv
  <1>7. Types'
    BY <1>1, <1>4, <1>5, <1>6 DEF Types
  <1> QED
    BY <1>1, <1>2, <1>3, <1>7, Calm DEF api

LEMMA ReloadStep ==
  ASSUME JobFlowAssumption, IInv, Reload
  PROVE  IInv'
  <1> USE DEF Reload
  <1>1. CallTypes' /\ Len(calls') = Len(calls) /\ CallsCalm
    BY CallsLeft DEF IInv
  <1>2. JobsCalm /\ WishCalm
    BY JobsStay, WishStays DEF api, storage
  <1>3. uploads \in Nat /\ Len(jobs) \in Nat
    BY Indices DEF IInv, Types, ApiTypes
  <1>4. ApiTypes' /\ StorageTypes'
    BY Still DEF IInv, api, storage
  <1>5. PageTypes'
    <2>1. screen' \in ScreenRecord /\ screen'.job <= Len(jobs')
      BY DEF IInv, Types, PageTypes, api
    <2>2. Plain(form')
      BY <1>3, RestoredForm, SentenceForm, BlankForm DEF IInv
    <2>3. uploading' = NoUpload /\ UNCHANGED uploads
      BY DEF api
    <2> QED
      BY <2>1, <2>2, <2>3, PageOK
  <1>6. KnownTypes'
    BY DEF KnownTypes
  <1>7. CountTypes'
    BY Counted DEF CountTypes, IInv, Types
  <1>8. Types'
    BY <1>1, <1>4, <1>5, <1>6, <1>7 DEF Types
  <1> QED
    BY <1>1, <1>2, <1>3, <1>8, Calm DEF api
-----------------------------------------------------------------------------
(***************************************************************************)
(* The form.                                                               *)
(***************************************************************************)
\* A form and a draft that show one photo.
Shows(f, u) == f \in FormRecord /\ ~f.blocked /\ f.upload = u
Keeps(d, u) == d \in DraftRecord /\ d.upload = u

LEMMA DraftOf ==
  ASSUME NEW d \in DraftRecord, NEW u \in Nat, NEW pet \in 0 .. 1
  PROVE  Keeps([d EXCEPT !.upload = u, !.pet = pet], u)
  BY DEF DraftRecord, Keeps

LEMMA DraftGone == Keeps(NoDraft, 0) /\ NoDraft \in DraftRecord
  BY DEF NoDraft, DraftRecord, Keeps, None

LEMMA FormOf ==
  ASSUME NEW f \in FormRecord, NEW u \in Nat, NEW pet \in 0 .. 1
  PROVE  /\ Shows([f EXCEPT !.upload = u, !.pet = pet, !.blocked = FALSE], u)
         /\ Shows([f EXCEPT !.upload = u, !.blocked = FALSE], u)
  BY DEF FormRecord, Shows

LEMMA Entered ==
  ASSUME form \in FormRecord, NEW u \in Nat, NEW pet \in 0 .. 1, NEW shown \in 0 .. 1,
         EnterConfirm(u, pet, shown)
  PROVE  /\ form' \in FormRecord /\ form'.upload = u /\ ~form'.blocked
         /\ draft' \in DraftRecord /\ draft'.upload = u
  <1>1. Keeps([NoDraft EXCEPT !.upload = u, !.pet = pet], u)
    BY DraftOf, DraftGone
  <1>2. Shows([form EXCEPT !.upload = u, !.pet = shown, !.blocked = FALSE], u)
    BY FormOf
  <1>3. Keeps(draft', u) /\ Shows(form', u)
    BY <1>1, <1>2 DEF EnterConfirm
  <1> QED
    BY <1>3 DEF Keeps, Shows

LEMMA ChoosePhotoStep ==
  ASSUME JobFlowAssumption, IInv, ChoosePhoto
  PROVE  IInv'
  <1> USE DEF ChoosePhoto
  <1>1. CallTypes' /\ Len(calls') = Len(calls) /\ CallsCalm
    BY CallsStay DEF IInv
  <1>2. JobsCalm /\ WishCalm
    BY JobsStay, WishStays DEF api, storage
  <1>3. uploads \in Nat
    BY DEF IInv, Types, ApiTypes
  <1>4. ApiTypes' /\ StorageTypes' /\ KnownTypes' /\ CountTypes'
    BY Still DEF IInv, api, storage
  <1>5. PageTypes'
    BY DEF PageTypes, IInv, Types, FormRecord, api
  <1>6. Types'
    BY <1>1, <1>4, <1>5 DEF Types
  <1> QED
    BY <1>1, <1>2, <1>3, <1>6, Calm DEF api

LEMMA UploadedStep ==
  ASSUME JobFlowAssumption, IInv, Uploaded
  PROVE  IInv'
  <1> USE DEF Uploaded
  <1>1. CallTypes' /\ Len(calls') = Len(calls) /\ CallsCalm
    BY CallsStay DEF IInv
  <1>2. JobsCalm
    BY JobsStay
  <1>3. /\ uploads \in Nat /\ uploads < MaxUpload /\ linked \subseteq 1 .. uploads
        /\ Len(jobs) \in Nat /\ uploading.pet \in 0 .. 1
    BY Indices DEF IInv, Types, ApiTypes, PageTypes
  <1>4. KnownTypes' /\ StorageTypes
    BY Still DEF IInv, Types
  <1>5. CASE UNCHANGED <<uploads, linked, form, draft, wish>>
    <2>1. ApiTypes' /\ StorageTypes' /\ CountTypes' /\ WishCalm
      BY <1>5, Still, WishStays DEF IInv, api, storage
    <2>2. PageTypes'
      BY <1>5 DEF PageTypes, IInv, Types, NoUpload
    <2>3. Types'
      BY <1>1, <1>4, <2>1, <2>2 DEF Types
    <2> QED
      BY <1>1, <1>2, <1>3, <1>5, <2>1, <2>3, Calm
  <1>6. CASE /\ uploads' = uploads + 1
             /\ linked' = IF uploading.pet = 1 THEN linked \cup {uploads'} ELSE linked
             /\ EnterConfirm(uploads', uploading.pet, form.pet)
             /\ Touch
    <2>1. uploads' \in 0 .. MaxUpload /\ uploads' >= uploads /\ uploads' \in Nat /\ uploads' # 0
      BY <1>3, <1>6, Bounds
    <2>2. linked' \subseteq 1 .. uploads'
      BY <1>3, <1>6
    <2>3. ApiTypes'
      BY <1>3, <2>1, <2>2 DEF IInv, Types, ApiTypes
    <2>4. form \in FormRecord /\ form.pet \in 0 .. 1
      BY DEF FormRecord, IInv, Types, PageTypes
    <2>5. /\ form' \in FormRecord /\ form'.upload = uploads'
          /\ draft' \in DraftRecord /\ draft'.upload = uploads'
      BY <1>3, <1>6, <2>1, <2>4, Entered
    <2>6. StorageTypes'
      BY <1>4, <2>1, <2>5 DEF StorageTypes
    <2>7. PageTypes'
      BY <2>1, <2>5 DEF PageTypes, IInv, Types, NoUpload, None
    <2>8. CountTypes' /\ WishCalm
      BY <1>6, Touched, WishTouched DEF IInv, Types, CountTypes
    <2>9. Types'
      BY <1>1, <1>4, <2>3, <2>6, <2>7, <2>8 DEF Types
    <2> QED
      BY <1>1, <1>2, <2>1, <2>8, <2>9, Calm
  <1> QED
    BY <1>5, <1>6

\* The form and the draft with the dog that is selected, or without one.
LEMMA Selected ==
  ASSUME IInv, SelectPet
  PROVE  /\ form' \in FormRecord /\ form'.upload <= uploads /\ (form'.blocked => form'.upload # None)
         /\ draft' \in DraftRecord /\ draft'.upload <= uploads
  <1>1. /\ form \in FormRecord /\ form.upload <= uploads /\ (form.blocked => form.upload # None)
        /\ draft \in DraftRecord /\ draft.upload <= uploads
        /\ uploads \in Nat /\ linked \subseteq 1 .. uploads
    BY DEF IInv, Types, ApiTypes, StorageTypes, PageTypes
  <1>2. \/ form' = [form EXCEPT !.pet = 0] /\ UNCHANGED draft
        \/ \E u \in linked : \E b \in {form.breed, 1} :
             /\ form' = [form EXCEPT !.upload = u, !.pet = 1, !.breed = b, !.blocked = FALSE]
             /\ draft' = [NoDraft EXCEPT !.upload = u, !.pet = 1]
    BY DEF SelectPet
  <1>3. CASE form' = [form EXCEPT !.pet = 0] /\ UNCHANGED draft
    BY <1>1, <1>3 DEF FormRecord
  <1>4. ASSUME NEW u \in linked, NEW b \in {form.breed, 1},
               form' = [form EXCEPT !.upload = u, !.pet = 1, !.breed = b, !.blocked = FALSE],
               draft' = [NoDraft EXCEPT !.upload = u, !.pet = 1]
        PROVE  /\ form' \in FormRecord /\ form'.upload <= uploads /\ ~form'.blocked
               /\ draft' \in DraftRecord /\ draft'.upload <= uploads
    <2>1. u \in Nat /\ u <= uploads /\ 1 \in 0 .. 1
      BY <1>1
    <2>2. b \in 0 .. 1
      BY <1>1 DEF FormRecord
    <2>3. form' \in FormRecord /\ form'.upload = u /\ ~form'.blocked
      BY <1>1, <1>4, <2>1, <2>2 DEF FormRecord
    <2>4. Keeps(draft', u)
      BY <1>4, <2>1, DraftOf, DraftGone
    <2> QED
      BY <2>1, <2>3, <2>4 DEF Keeps
  <1> QED
    BY <1>2, <1>3, <1>4

LEMMA SelectPetStep ==
  ASSUME JobFlowAssumption, IInv, SelectPet
  PROVE  IInv'
  <1>1. CallTypes' /\ Len(calls') = Len(calls) /\ CallsCalm
    BY CallsStay DEF SelectPet, IInv
  <1>2. JobsCalm /\ WishCalm
    <2>1. UNCHANGED jobs /\ UNCHANGED attempt /\ Touch
      BY DEF SelectPet, api
    <2> QED
      BY <2>1, JobsStay, WishTouched DEF IInv
  <1>3. ApiTypes' /\ KnownTypes' /\ UNCHANGED <<jobs, uploads, gone, stale>> /\ uploads \in Nat
    <2>1. UNCHANGED api /\ UNCHANGED known
      BY DEF SelectPet
    <2> QED
      BY <2>1, Still DEF IInv, Types, ApiTypes, api
  <1>4. StorageTypes'
    BY <1>3, Selected DEF SelectPet, StorageTypes, IInv, Types
  <1>5. PageTypes'
    BY <1>3, Selected DEF SelectPet, PageTypes, IInv, Types
  <1>6. CountTypes'
    BY Counted, Touched DEF SelectPet, CountTypes, IInv
  <1>7. Types'
    BY <1>1, <1>3, <1>4, <1>5, <1>6 DEF Types
  <1> QED
    BY <1>1, <1>2, <1>3, <1>7, Calm

LEMMA SavePetStep ==
  ASSUME JobFlowAssumption, IInv, SavePet
  PROVE  IInv'
  <1> USE DEF SavePet
  <1>1. CallTypes' /\ Len(calls') = Len(calls) /\ CallsCalm
    BY CallsStay DEF IInv
  <1>2. JobsCalm /\ WishCalm
    BY JobsStay, WishTouched DEF storage, IInv
  <1>3. uploads \in Nat /\ linked \subseteq 1 .. uploads /\ form \in FormRecord /\ form.upload <= uploads
    BY DEF IInv, Types, ApiTypes, PageTypes
  <1>4. KnownTypes' /\ StorageTypes'
    BY Still DEF IInv, storage
  <1>5. form.upload \in 1 .. uploads
    BY <1>3 DEF Confirming, FormRecord, None
  <1>6. ApiTypes'
    BY <1>3, <1>5 DEF IInv, Types, ApiTypes
  <1>7. PageTypes'
    BY DEF PageTypes, FormRecord, IInv, Types
  <1>8. CountTypes'
    BY Counted, Touched DEF CountTypes, IInv
  <1>9. Types'
    BY <1>1, <1>4, <1>6, <1>7, <1>8 DEF Types
  <1> QED
    BY <1>1, <1>2, <1>3, <1>9, Calm

LEMMA ChangeInputStep ==
  ASSUME JobFlowAssumption, IInv, ChangeInput
  PROVE  IInv'
  <1> USE DEF ChangeInput
  <1>1. CallTypes' /\ Len(calls') = Len(calls) /\ CallsCalm
    BY CallsStay DEF IInv
  <1>2. JobsCalm /\ WishCalm
    BY JobsStay, WishTouched DEF api, storage, IInv
  <1>3. uploads \in Nat
    BY DEF IInv, Types, ApiTypes
  <1>4. ApiTypes' /\ KnownTypes' /\ StorageTypes' /\ UNCHANGED <<jobs, uploads, gone, stale>>
    BY Still DEF IInv, api, storage
  <1>5. PageTypes'
    <2>1. form.answers \in 0 .. 2 /\ form.answers # 0
      BY DEF IInv, Types, PageTypes, FormRecord
    <2>2. 3 - form.answers \in 0 .. 2
      BY <2>1
    <2> QED
      BY <1>4, <2>2 DEF PageTypes, FormRecord, IInv, Types
  <1>6. CountTypes'
    BY Counted, Touched DEF CountTypes, IInv
  <1>7. Types'
    BY <1>1, <1>4, <1>5, <1>6 DEF Types
  <1> QED
    BY <1>1, <1>2, <1>3, <1>4, <1>7, Calm

LEMMA ChangeBreedStep ==
  ASSUME JobFlowAssumption, IInv, ChangeBreed
  PROVE  IInv'
  <1> USE DEF ChangeBreed
  <1>1. CallTypes' /\ Len(calls') = Len(calls) /\ CallsCalm
    BY CallsStay DEF IInv
  <1>2. JobsCalm /\ WishCalm
    BY JobsStay, WishTouched DEF api, storage, IInv
  <1>3. uploads \in Nat
    BY DEF IInv, Types, ApiTypes
  <1>4. ApiTypes' /\ KnownTypes' /\ StorageTypes' /\ UNCHANGED <<jobs, uploads, gone, stale>>
    BY Still DEF IInv, api, storage
  <1>5. PageTypes'
    <2>1. 1 - form.breed \in 0 .. 1
      BY DEF IInv, Types, PageTypes, FormRecord
    <2> QED
      BY <1>4, <2>1 DEF PageTypes, FormRecord, IInv, Types
  <1>6. CountTypes'
    BY Counted, Touched DEF CountTypes, IInv
  <1>7. Types'
    BY <1>1, <1>4, <1>5, <1>6 DEF Types
  <1> QED
    BY <1>1, <1>2, <1>3, <1>4, <1>7, Calm

LEMMA PickAnotherStep ==
  ASSUME JobFlowAssumption, IInv, PickAnother
  PROVE  IInv'
  <1> USE DEF PickAnother
  <1>1. CallTypes' /\ Len(calls') = Len(calls) /\ CallsCalm
    BY CallsStay DEF IInv
  <1>2. JobsCalm /\ WishCalm
    BY JobsStay, WishTouched DEF api, IInv
  <1>3. uploads \in Nat
    BY DEF IInv, Types, ApiTypes
  <1>4. ApiTypes' /\ KnownTypes' /\ UNCHANGED <<jobs, uploads, gone, stale>>
    BY Still DEF IInv, api
  <1>5. PageTypes'
    <2>1. form \in FormRecord /\ 0 \in 0 .. 1
      BY DEF IInv, Types, PageTypes
    <2>2. form' = [form EXCEPT !.upload = 0, !.blocked = FALSE]
      BY DEF Unchosen, None
    <2>3. Shows(form', 0)
      BY <2>1, <2>2, FormOf
    <2>4. screen' \in ScreenRecord /\ screen'.job <= Len(jobs')
      BY <1>4 DEF IInv, Types, PageTypes
    <2> QED
      BY <1>3, <1>4, <2>3, <2>4, PageOK DEF Plain, Shows
  <1>6. StorageTypes'
    <2>1. draft' \in DraftRecord /\ draft'.upload = 0
      BY DraftGone DEF Keeps
    <2> QED
      BY <1>3, <1>4, <2>1 DEF StorageTypes, IInv, Types
  <1>7. CountTypes'
    BY Counted, Touched DEF CountTypes, IInv
  <1>8. Types'
    BY <1>1, <1>4, <1>5, <1>6, <1>7 DEF Types
  <1> QED
    BY <1>1, <1>2, <1>3, <1>4, <1>8, Calm
-----------------------------------------------------------------------------
(***************************************************************************)
(* An order.                                                               *)
(***************************************************************************)
LEMMA IntentOK ==
  ASSUME IInv
  PROVE  Intent \in IntentRecord /\ Intent.upload = form.upload
  <1>1. form \in FormRecord
    BY DEF IInv, Types, PageTypes
  <1>2. form.upload \in Nat /\ form.answers \in 0 .. 2 /\ form.pet \in 0 .. 1 /\ form.breed \in 0 .. 1
    BY <1>1 DEF FormRecord
  <1> QED
    BY <1>2 DEF Intent, IntentRecord

\* Intents that are the same but for the breed.
LEMMA SameIsEquivalence ==
  ASSUME NEW a, NEW b
  PROVE  /\ SameIntent(a, a)
         /\ SameIntent(a, b) => SameIntent(b, a)
         /\ \A c : SameIntent(a, b) /\ SameIntent(b, c) => SameIntent(a, c)
  BY DEF SameIntent

\* The key of an order is that of the attempt for the same, or new.
LEMMA KeyOK ==
  ASSUME IInv, NEW i \in IntentRecord
  PROVE  /\ Key(i) \in 1 .. Len(calls) + 1
         /\ (Key(i) = attempt.key /\ SameIntent(attempt.intent, i)) \/ Key(i) = Len(calls) + 1
         /\ attempt.key # 0 /\ SameIntent(attempt.intent, i) => Key(i) = attempt.key
  <1>1. attempt.key \in Nat /\ attempt.key <= Len(calls)
    BY DEF IInv, Types, StorageTypes, AttemptMeans
  <1>2. Len(calls) \in Nat
    BY Indices DEF IInv
  <1>3. CASE attempt.key # 0 /\ SameIntent(attempt.intent, i)
    <2>1. Key(i) = attempt.key
      BY <1>3 DEF Key
    <2> QED
      BY <1>1, <1>2, <1>3, <2>1
  <1>4. CASE ~(attempt.key # 0 /\ SameIntent(attempt.intent, i))
    <2>1. Key(i) = Len(calls) + 1
      BY <1>4 DEF Key
    <2> QED
      BY <1>1, <1>2, <1>4, <2>1
  <1> QED
    BY <1>3, <1>4

LEMMA PressStep ==
  ASSUME JobFlowAssumption, IInv, Press
  PROVE  IInv'
  <1> DEFINE i == Intent
             c == [key |-> Key(i), intent |-> i, at |-> screen.at, job |-> screen.job,
                   here |-> TRUE, pc |-> "sent", answer |-> "none", got |-> None,
                   order |-> Wanted(i)]
  <1>1. /\ attempt' = IF Key(i) = attempt.key THEN attempt ELSE [key |-> Key(i), intent |-> i]
        /\ calls' = Append(calls, c)
        /\ wish' = [n |-> Wanted(i), intent |-> i]
        /\ UNCHANGED <<api, draft, active, page, known, acts, faults>>
        /\ Len(calls) < MaxPress
        /\ screen.at \in {"upload", "result", "creative"} /\ form.upload # None
    BY DEF Press
  <1>2. i \in IntentRecord /\ i.upload = form.upload
    BY IntentOK
  <1> HIDE DEF i
  <1>3. /\ Key(i) \in 1 .. Len(calls) + 1 /\ Len(calls) \in Nat /\ Key(i) \in Nat
        /\ (Key(i) = attempt.key /\ SameIntent(attempt.intent, i)) \/ Key(i) = Len(calls) + 1
        /\ attempt.key # 0 /\ SameIntent(attempt.intent, i) => Key(i) = attempt.key
    BY <1>2, KeyOK, Indices DEF IInv
  <1>4. /\ wish.n \in Nat /\ Wanted(i) \in {wish.n, wish.n + 1}
        /\ Wanted(i) = wish.n => wish.intent = i
    BY DEF IInv, Types, CountTypes, Wanted
  <1>5. i.upload \in 1 .. uploads /\ i.upload # None /\ uploads \in Nat
    BY <1>1, <1>2 DEF IInv, Types, ApiTypes, PageTypes, FormRecord, None
  <1>6. c \in CallRecord
    <2>1. screen.job \in Nat
      BY DEF IInv, Types, PageTypes, ScreenRecord
    <2> QED
      BY <1>1, <1>2, <1>3, <1>4, <2>1 DEF CallRecord, Answer, None
  <1>7. /\ c.key = Key(i) /\ c.intent = i /\ c.order = Wanted(i)
        /\ c.pc = "sent" /\ c.answer = "none" /\ c.got = None
    OBVIOUS
  <1> HIDE DEF c
  <1>8. /\ calls' \in Seq(CallRecord) /\ Len(calls') = Len(calls) + 1
        /\ DOMAIN calls' = 1 .. Len(calls) + 1 /\ DOMAIN calls = 1 .. Len(calls)
        /\ \A n \in DOMAIN calls : calls'[n] = calls[n]
        /\ calls'[Len(calls) + 1] = c
    <2>1. calls \in Seq(CallRecord)
      BY DEF IInv, Types, CallTypes
    <2> QED
      BY <1>1, <1>6, <2>1, AppendProperties, LenProperties
  <1>9. \A x \in Asked' : x \in Asked \/ x = Ask(c)
    <2>1. ASSUME NEW n \in DOMAIN calls', calls'[n].pc # "done"
          PROVE  Ask(calls'[n]) \in Asked \/ Ask(calls'[n]) = Ask(c)
      <3>1. CASE n \in DOMAIN calls
        BY <1>8, <2>1, <3>1 DEF Asked
      <3>2. CASE n = Len(calls) + 1
        BY <1>8, <3>2
      <3> QED
        BY <1>3, <1>8, <3>1, <3>2
    <2>2. \A j \in DOMAIN jobs' : Ask(jobs'[j]) \in Asked
      BY <1>1 DEF Asked, api
    <2>3. Asked' = {Ask(calls'[n]) : n \in {m \in DOMAIN calls' : calls'[m].pc # "done"}}
                     \cup {Ask(jobs'[j]) : j \in DOMAIN jobs'}
      BY DEF Asked, Ask
    <2> QED
      BY <2>1, <2>2, <2>3
  <1>10. Ask(c).key = Key(i) /\ Ask(c).intent = i /\ Ask(c).order = Wanted(i)
    BY <1>7 DEF Ask
  <1>11. \A x \in Asked : /\ x.key \in 1 .. Len(calls) /\ x.order \in 1 .. wish.n
                          /\ x.intent.upload \in 1 .. uploads
                          /\ x.key = attempt.key => SameIntent(x.intent, attempt.intent)
    BY DEF IInv, AskedWell, AttemptMeans
  <1>12. wish'.n = Wanted(i) /\ wish'.intent = i
    BY <1>1
  <1>13. Wanted(i) \in 1 .. wish'.n
    <2>1. CASE Wanted(i) = wish.n + 1
      BY <1>4, <1>12, <2>1
    <2>2. CASE Wanted(i) = wish.n
      <3>1. wish.n # 0
        BY <1>4, <1>5, <2>2 DEF IInv, AttemptMeans
      <3> QED
        BY <1>4, <1>12, <2>2, <3>1
    <2> QED
      BY <1>4, <2>1, <2>2
  <1>14. AskedWell'
    <2>1. ASSUME NEW x \in Asked'
          PROVE  x.key \in 1 .. Len(calls) + 1 /\ x.order \in 1 .. wish'.n
                 /\ x.intent.upload \in 1 .. uploads
      <3>1. CASE x \in Asked
        BY <1>3, <1>4, <1>11, <1>12, <3>1
      <3>2. CASE x = Ask(c)
        BY <1>3, <1>5, <1>10, <1>13, <3>2
      <3> QED
        BY <1>9, <3>1, <3>2
    <2> QED
      BY <1>1, <1>8, <2>1 DEF AskedWell, api
  \* A new key is nobody's, and an old one stands for the same.
  <1>15. \A x \in Asked : x.key = Key(i) => SameIntent(x.intent, i) /\ SameIntent(i, x.intent)
    <2> SUFFICES ASSUME NEW x \in Asked, x.key = Key(i)
                 PROVE  SameIntent(x.intent, i)
      BY SameIsEquivalence
    <2>1. Key(i) = attempt.key /\ SameIntent(attempt.intent, i)
      BY <1>3, <1>11
    <2>2. SameIntent(x.intent, attempt.intent)
      BY <1>11, <2>1
    <2> QED
      BY <2>1, <2>2, SameIsEquivalence
  \* A wish that stands has the attempt's key, and a new one has none.
  <1>16. \A x \in Asked : x.order = Wanted(i) => x.key = Key(i) /\ x.intent = i
    <2>1. CASE Wanted(i) = wish.n + 1
      BY <1>4, <1>11, <2>1
    <2>2. CASE Wanted(i) = wish.n
      <3>1. wish.intent = i /\ wish.intent.upload # None
        BY <1>4, <1>5, <2>2
      <3>2. /\ attempt.key # 0 /\ SameIntent(attempt.intent, i)
            /\ \A x \in Asked : x.order = wish.n => x.key = attempt.key /\ x.intent = i
        BY <3>1 DEF IInv, AttemptMeans
      <3> QED
        BY <1>3, <2>2, <3>2
    <2> QED
      BY <1>4, <2>1, <2>2
  <1>17. KeysMean'
    <2>1. ASSUME NEW x \in Asked', NEW y \in Asked'
          PROVE  /\ x.key = y.key => SameIntent(x.intent, y.intent)
                 /\ x.order = y.order => x.key = y.key /\ x.intent = y.intent
      <3>1. CASE x \in Asked /\ y \in Asked
        BY <3>1 DEF IInv, KeysMean
      <3>2. CASE x = Ask(c) /\ y \in Asked
        BY <1>10, <1>15, <1>16, <3>2
      <3>3. CASE x \in Asked /\ y = Ask(c)
        BY <1>10, <1>15, <1>16, <3>3
      <3>4. CASE x = Ask(c) /\ y = Ask(c)
        BY <3>4, SameIsEquivalence
      <3> QED
        BY <1>9, <3>1, <3>2, <3>3, <3>4
    <2> QED
      BY <2>1 DEF KeysMean
  <1>18. /\ attempt'.key = Key(i) /\ SameIntent(attempt'.intent, i)
         /\ attempt' \in [key : Nat, intent : IntentRecord]
    <2>1. CASE Key(i) = attempt.key
      <3>1. attempt' = attempt /\ SameIntent(attempt.intent, i)
        BY <1>1, <1>3, <2>1 DEF IInv, AttemptMeans
      <3> QED
        BY <2>1, <3>1 DEF IInv, Types, StorageTypes
    <2>2. CASE Key(i) # attempt.key
      BY <1>1, <1>2, <1>3, <2>2, SameIsEquivalence
    <2> QED
      BY <2>1, <2>2
  <1>19. AttemptMeans'
    <2>1. \A x \in Asked' : x.key = Key(i) => SameIntent(x.intent, attempt'.intent)
      <3>1. \A x \in Asked' : x.key = Key(i) => SameIntent(x.intent, i)
        BY <1>9, <1>10, <1>15, SameIsEquivalence
      <3> QED
        BY <1>18, <3>1, SameIsEquivalence
    <2>2. \A x \in Asked' : x.order = Wanted(i) => x.key = Key(i) /\ x.intent = i
      BY <1>9, <1>10, <1>16
    <2>3. wish'.n # 0
      BY <1>4, <1>12, <1>13
    <2>4. Key(i) <= Len(calls') /\ Key(i) # 0
      BY <1>3, <1>8
    <2> QED
      BY <1>3, <1>8, <1>12, <1>18, <2>1, <2>2, <2>3, <2>4 DEF AttemptMeans
  <1>20. AnswersWell'
    <2>1. ASSUME NEW n \in DOMAIN calls'
          PROVE  /\ calls'[n].answer = "ok" => calls'[n].got # None
                 /\ calls'[n].got # None => /\ calls'[n].pc = "back" /\ calls'[n].got \in DOMAIN jobs
                                            /\ jobs[calls'[n].got].key = calls'[n].key
      <3>1. CASE n \in DOMAIN calls
        BY <1>8, <3>1 DEF IInv, AnswersWell
      <3>2. CASE n = Len(calls) + 1
        BY <1>7, <1>8, <3>2
      <3> QED
        BY <1>3, <1>8, <3>1, <3>2
    <2> QED
      BY <1>1, <2>1 DEF AnswersWell, api
  <1>21. SidesMatch' /\ OneJobPerKey'
    BY <1>1, JobsStay, SidesKept DEF api
  <1>22. Types'
    <2>1. ApiTypes' /\ PageTypes' /\ KnownTypes'
      BY <1>1, Still DEF IInv, api
    <2>2. StorageTypes'
      BY <1>1, <1>18 DEF StorageTypes, IInv, Types, api
    <2>3. CallTypes'
      BY <1>1, <1>3, <1>8, Bounds DEF CallTypes
    <2>4. CountTypes'
      BY <1>1, <1>2, <1>4 DEF CountTypes, IInv, Types
    <2> QED
      BY <2>1, <2>2, <2>3, <2>4 DEF Types
  <1> QED
    BY <1>14, <1>17, <1>19, <1>20, <1>21, <1>22 DEF IInv

\* The calls as one of them is answered.
AnswerOf(k, a, j) ==
  calls' = [calls EXCEPT ![k].pc = "back", ![k].answer = a, ![k].got = j]

LEMMA Answered ==
  ASSUME Types, NEW k \in DOMAIN calls,
         NEW a \in Answer, NEW j \in Nat, AnswerOf(k, a, j)
  PROVE  /\ CallTypes' /\ Len(calls') = Len(calls) /\ DOMAIN calls' = DOMAIN calls
         /\ \A n \in DOMAIN calls : n # k => calls'[n] = calls[n]
         /\ Ask(calls'[k]) = Ask(calls[k]) /\ calls'[k].key = calls[k].key
         /\ calls'[k].pc = "back" /\ calls'[k].answer = a /\ calls'[k].got = j
  <1> DEFINE r == [calls[k] EXCEPT !.pc = "back", !.answer = a, !.got = j]
  <1>1. calls[k] \in CallRecord
    BY Indices
  <1>2. r \in CallRecord
    BY <1>1 DEF CallRecord
  <1>3. /\ Ask(r) = Ask(calls[k]) /\ r.key = calls[k].key
        /\ r.pc = "back" /\ r.answer = a /\ r.got = j
    BY <1>1 DEF CallRecord, Ask
  <1>4. calls' = [calls EXCEPT ![k] = r]
    BY DEF AnswerOf
  <1> HIDE DEF r
  <1>5. /\ CallTypes' /\ Len(calls') = Len(calls) /\ DOMAIN calls' = DOMAIN calls
        /\ \A n \in DOMAIN calls : calls'[n] = IF n = k THEN r ELSE calls[n]
    BY <1>2, <1>4, OneCall DEF Types
  <1> QED
    BY <1>3, <1>5

\* Refused, or lost.
LEMMA Refused ==
  ASSUME Types, NEW k \in DOMAIN calls, calls[k].pc # "done",
         NEW a \in Answer, a # "ok", AnswerOf(k, a, None)
  PROVE  CallTypes' /\ Len(calls') = Len(calls) /\ CallsCalm
  <1>1. None \in Nat
    BY DEF None
  <1>2. /\ CallTypes' /\ Len(calls') = Len(calls) /\ DOMAIN calls' = DOMAIN calls
        /\ \A n \in DOMAIN calls : n # k => calls'[n] = calls[n]
        /\ Ask(calls'[k]) = Ask(calls[k]) /\ calls'[k].key = calls[k].key
        /\ calls'[k].pc = "back" /\ calls'[k].answer = a /\ calls'[k].got = None
    BY <1>1, Answered
  <1>3. \A n \in DOMAIN calls : Milder(n)
    BY <1>2 DEF Milder
  <1> QED
    BY <1>2, <1>3 DEF CallsCalm

LEMMA LoseStep ==
  ASSUME JobFlowAssumption, IInv, NEW k \in DOMAIN calls, Lose(k)
  PROVE  IInv'
  <1> USE DEF Lose
  <1>1. CallTypes' /\ Len(calls') = Len(calls) /\ CallsCalm
    <2>1. "network" \in Answer /\ Types /\ AnswerOf(k, "network", None)
      BY DEF Answer, IInv, AnswerOf
    <2> QED
      BY <2>1, Refused
  <1>2. JobsCalm /\ WishCalm
    BY JobsStay, WishStays DEF api, storage
  <1>3. uploads \in Nat
    BY DEF IInv, Types, ApiTypes
  <1>4. /\ ApiTypes' /\ StorageTypes' /\ PageTypes' /\ KnownTypes'
        /\ UNCHANGED <<jobs, uploads, gone, stale>>
    BY Still DEF IInv, api
  <1>5. CountTypes'
    BY Counted DEF CountTypes, IInv, Types
  <1>6. Types'
    BY <1>1, <1>4, <1>5 DEF Types
  <1> QED
    BY <1>1, <1>2, <1>3, <1>4, <1>6, Calm

\* The API answers an order with the job that its key has made.
LEMMA ServeAgain ==
  ASSUME JobFlowAssumption, IInv, NEW k \in DOMAIN calls, calls[k].pc = "sent",
         NEW j \in Replayed(calls[k].key),
         calls' = [calls EXCEPT ![k].pc = "back", ![k].answer = "ok", ![k].got = j],
         UNCHANGED <<api, storage, page, known, wish, acts, faults>>
  PROVE  IInv'
  <1>1. j \in DOMAIN jobs /\ jobs[j].key = calls[k].key /\ j \in Nat /\ j # 0
    BY Indices DEF Replayed, IInv
  <1>2. /\ CallTypes' /\ Len(calls') = Len(calls) /\ DOMAIN calls' = DOMAIN calls
        /\ \A n \in DOMAIN calls : n # k => calls'[n] = calls[n]
        /\ Ask(calls'[k]) = Ask(calls[k]) /\ calls'[k].key = calls[k].key
        /\ calls'[k].pc = "back" /\ calls'[k].answer = "ok" /\ calls'[k].got = j
    <2>1. "ok" \in Answer /\ Types
      BY DEF Answer, IInv
    <2>2. AnswerOf(k, "ok", j)
      BY DEF AnswerOf
    <2> QED
      BY <1>1, <2>1, <2>2, Answered
  <1>3. /\ ApiTypes' /\ StorageTypes' /\ PageTypes' /\ KnownTypes' /\ CountTypes'
        /\ UNCHANGED <<jobs, uploads, gone, stale>>
    BY Still DEF IInv, api
  <1>4. Types'
    BY <1>2, <1>3 DEF Types
  <1>5. Asked' \subseteq Asked
    <2>1. ASSUME NEW n \in DOMAIN calls', calls'[n].pc # "done"
          PROVE  Ask(calls'[n]) \in Asked
      <3>1. n \in DOMAIN calls /\ calls[n].pc # "done" /\ Ask(calls'[n]) = Ask(calls[n])
        BY <1>2, <2>1
      <3> QED
        BY <3>1 DEF Asked
    <2>2. \A n \in DOMAIN jobs' : Ask(jobs'[n]) \in Asked
      BY <1>3 DEF Asked
    <2>3. Asked' = {Ask(calls'[n]) : n \in {m \in DOMAIN calls' : calls'[m].pc # "done"}}
                     \cup {Ask(jobs'[n]) : n \in DOMAIN jobs'}
      BY DEF Asked, Ask
    <2> QED
      BY <2>1, <2>2, <2>3
  <1>6. WishCalm /\ uploads' \in Nat /\ uploads' >= uploads
    BY <1>3, WishStays DEF storage, IInv, Types, ApiTypes
  <1>7. AskedWell' /\ KeysMean' /\ AttemptMeans'
    BY <1>2, <1>5, <1>6, MeaningKept
  <1>8. AnswersWell'
    <2>1. ASSUME NEW n \in DOMAIN calls
          PROVE  /\ calls'[n].answer = "ok" => calls'[n].got # None
                 /\ calls'[n].got # None => /\ calls'[n].pc = "back" /\ calls'[n].got \in DOMAIN jobs
                                            /\ jobs[calls'[n].got].key = calls'[n].key
      <3>1. CASE n # k
        BY <1>2, <3>1 DEF IInv, AnswersWell
      <3>2. CASE n = k
        BY <1>1, <1>2, <3>2 DEF None
      <3> QED
        BY <3>1, <3>2
    <2> QED
      BY <1>2, <1>3, <2>1 DEF AnswersWell
  <1>9. SidesMatch' /\ OneJobPerKey'
    BY <1>3, JobsStay, SidesKept
  <1> QED
    BY <1>4, <1>7, <1>8, <1>9 DEF IInv

\* The photo of an order is given its breed.
LEMMA LabelledTypes ==
  ASSUME IInv, NEW k \in DOMAIN calls, calls[k].pc = "sent",
         labelled' \in {labelled, labelled \cup {calls[k].intent.upload}}, UNCHANGED uploads
  PROVE  labelled' \subseteq 1 .. uploads'
  BY CallIntent DEF IInv, Types, ApiTypes

\* The API makes a job: there is none of its key, reachable or not, since those
\* of a lost session are of photos that it refuses.
LEMMA ServeNew ==
  ASSUME JobFlowAssumption, IInv, NEW k \in DOMAIN calls, calls[k].pc = "sent",
         Replayed(calls[k].key) = {}, calls[k].intent.upload > stale, credit > 0,
         jobs' = Append(jobs, [key |-> calls[k].key, intent |-> calls[k].intent,
                               status |-> "running", order |-> calls[k].order]),
         credit' = credit - 1,
         calls' = [calls EXCEPT ![k].pc = "back", ![k].answer = "ok", ![k].got = Len(jobs')],
         labelled' \in {labelled, labelled \cup {calls[k].intent.upload}},
         UNCHANGED <<gone, stale, uploads, linked, storage, page, known, wish, acts, faults>>
  PROVE  IInv'
  <1> DEFINE c == calls[k]
             new == [key |-> c.key, intent |-> c.intent, status |-> "running", order |-> c.order]
             top == Len(jobs) + 1
  <1>1. c \in CallRecord /\ Len(jobs) \in Nat /\ DOMAIN jobs = 1 .. Len(jobs)
    BY Indices DEF IInv
  <1>2. new \in JobRecord /\ Ask(new) = Ask(c) /\ new.key = c.key /\ new.intent = c.intent
    BY <1>1 DEF CallRecord, JobRecord, Ask
  <1> HIDE DEF new
  <1>3. /\ jobs' \in Seq(JobRecord) /\ Len(jobs') = top /\ DOMAIN jobs' = 1 .. top
        /\ \A j \in DOMAIN jobs : jobs'[j] = jobs[j]
        /\ jobs'[top] = new
    <2>1. jobs \in Seq(JobRecord) /\ jobs' = Append(jobs, new)
      BY DEF IInv, Types, ApiTypes, new
    <2> QED
      BY <1>2, <2>1, AppendProperties, LenProperties
  <1>4. /\ top \in Nat /\ top # 0 /\ top \in DOMAIN jobs'
        /\ \A j \in DOMAIN jobs' : j \in DOMAIN jobs \/ j = top
    BY <1>1, <1>3
  <1>5. /\ CallTypes' /\ Len(calls') = Len(calls) /\ DOMAIN calls' = DOMAIN calls
        /\ \A n \in DOMAIN calls : n # k => calls'[n] = calls[n]
        /\ Ask(calls'[k]) = Ask(c) /\ calls'[k].key = c.key
        /\ calls'[k].pc = "back" /\ calls'[k].answer = "ok" /\ calls'[k].got = top
    <2>1. AnswerOf(k, "ok", top)
      BY <1>3 DEF AnswerOf
    <2>2. Types /\ top \in Nat /\ "ok" \in Answer
      BY <1>4 DEF IInv, Answer
    <2> HIDE DEF c, top
    <2>3. /\ CallTypes' /\ Len(calls') = Len(calls) /\ DOMAIN calls' = DOMAIN calls
          /\ \A n \in DOMAIN calls : n # k => calls'[n] = calls[n]
          /\ Ask(calls'[k]) = Ask(calls[k]) /\ calls'[k].key = calls[k].key
          /\ calls'[k].pc = "back" /\ calls'[k].answer = "ok" /\ calls'[k].got = top
      BY <2>1, <2>2, Answered
    <2> QED
      BY <2>3 DEF c
  <1>6. Types'
    <2>1. ApiTypes'
      BY <1>1, <1>3, LabelledTypes DEF IInv, Types, ApiTypes
    <2>2. StorageTypes'
      BY <1>1, <1>3 DEF IInv, Types, StorageTypes, storage
    <2>3. PageTypes'
      BY <1>1, <1>3 DEF IInv, Types, PageTypes, ScreenRecord, page
    <2>4. KnownTypes' /\ CountTypes'
      BY Still DEF IInv
    <2> QED
      BY <1>5, <2>1, <2>2, <2>3, <2>4 DEF Types
  <1>7. Ask(c) \in Asked
    BY DEF Asked
  <1>8. Asked' \subseteq Asked
    <2>1. ASSUME NEW n \in DOMAIN calls', calls'[n].pc # "done"
          PROVE  Ask(calls'[n]) \in Asked
      <3>1. n \in DOMAIN calls /\ calls[n].pc # "done" /\ Ask(calls'[n]) = Ask(calls[n])
        BY <1>5, <2>1
      <3> QED
        BY <3>1 DEF Asked
    <2>2. \A j \in DOMAIN jobs : Ask(jobs[j]) \in Asked
      BY DEF Asked
    <2>3. \A j \in DOMAIN jobs' : Ask(jobs'[j]) \in Asked
      BY <1>2, <1>3, <1>4, <1>7, <2>2
    <2>4. Asked' = {Ask(calls'[n]) : n \in {m \in DOMAIN calls' : calls'[m].pc # "done"}}
                     \cup {Ask(jobs'[n]) : n \in DOMAIN jobs'}
      BY DEF Asked, Ask
    <2> QED
      BY <2>1, <2>3, <2>4
  <1>9. WishCalm /\ uploads' \in Nat /\ uploads' >= uploads
    BY WishStays DEF storage, IInv, Types, ApiTypes
  <1>10. AskedWell' /\ KeysMean' /\ AttemptMeans'
    BY <1>5, <1>8, <1>9, MeaningKept
  <1>11. AnswersWell'
    <2>1. ASSUME NEW n \in DOMAIN calls
          PROVE  /\ calls'[n].answer = "ok" => calls'[n].got # None
                 /\ calls'[n].got # None => /\ calls'[n].pc = "back" /\ calls'[n].got \in DOMAIN jobs'
                                            /\ jobs'[calls'[n].got].key = calls'[n].key
      <3>1. CASE n # k
        <4>1. /\ calls[n].answer = "ok" => calls[n].got # None
              /\ calls[n].got # None => /\ calls[n].pc = "back" /\ calls[n].got \in DOMAIN jobs
                                        /\ jobs[calls[n].got].key = calls[n].key
          BY DEF IInv, AnswersWell
        <4>2. \A j \in DOMAIN jobs : j \in DOMAIN jobs' /\ jobs'[j].key = jobs[j].key
          BY <1>1, <1>3
        <4> QED
          BY <1>5, <3>1, <4>1, <4>2
      <3>2. CASE n = k
        BY <1>2, <1>3, <1>4, <1>5, <3>2 DEF None
      <3> QED
        BY <3>1, <3>2
    <2> QED
      BY <1>5, <2>1 DEF AnswersWell
  <1>12. top > gone
    BY <1>1 DEF IInv, Types, ApiTypes
  <1>13. SidesMatch'
    <2>1. \A j \in DOMAIN jobs : j > gone <=> jobs[j].intent.upload > stale
      BY DEF IInv, SidesMatch
    <2>2. \A j \in DOMAIN jobs' : j > gone <=> jobs'[j].intent.upload > stale
      BY <1>2, <1>3, <1>4, <1>12, <2>1
    <2> QED
      BY <2>2 DEF SidesMatch
  <1>14. \A j \in DOMAIN jobs : jobs[j].key # c.key
    <2> SUFFICES ASSUME NEW j \in DOMAIN jobs, jobs[j].key = c.key
                 PROVE  FALSE
      OBVIOUS
    <2>1. jobs[j].intent.upload = c.intent.upload
      BY <1>7, AskedJobs DEF IInv, KeysMean, Ask, SameIntent
    <2>2. j > gone
      BY <2>1 DEF IInv, SidesMatch
    <2> QED
      BY <2>2 DEF Replayed, Reachable
  <1>15. OneJobPerKey'
    <2>1. ASSUME NEW i \in DOMAIN jobs', NEW j \in DOMAIN jobs', i # j
          PROVE  jobs'[i].key # jobs'[j].key
      <3>1. CASE i \in DOMAIN jobs /\ j \in DOMAIN jobs
        BY <1>3, <2>1, <3>1 DEF IInv, OneJobPerKey
      <3>2. CASE i = top /\ j \in DOMAIN jobs
        BY <1>2, <1>3, <1>14, <3>2
      <3>3. CASE i \in DOMAIN jobs /\ j = top
        BY <1>2, <1>3, <1>14, <3>3
      <3> QED
        BY <1>4, <2>1, <3>1, <3>2, <3>3
    <2> QED
      BY <2>1 DEF OneJobPerKey
  <1> QED
    BY <1>6, <1>10, <1>11, <1>13, <1>15 DEF IInv

LEMMA ServeRefused ==
  ASSUME JobFlowAssumption, IInv, NEW k \in DOMAIN calls, calls[k].pc = "sent",
         NEW a \in {"not_found", "blocked", "insufficient"}, AnswerOf(k, a, None),
         Fault \/ UNCHANGED faults,
         labelled' \in {labelled, labelled \cup {calls[k].intent.upload}},
         UNCHANGED <<jobs, credit, gone, stale, uploads, linked, storage, page, known, wish, acts>>
  PROVE  IInv'
  <1>1. CallTypes' /\ Len(calls') = Len(calls) /\ CallsCalm
    <2>1. a \in Answer /\ a # "ok" /\ Types
      BY DEF Answer, IInv
    <2> QED
      BY <2>1, Refused
  <1>2. JobsCalm /\ WishCalm
    BY JobsStay, WishStays DEF storage
  <1>3. uploads \in Nat
    BY DEF IInv, Types, ApiTypes
  <1>4. StorageTypes' /\ PageTypes' /\ KnownTypes'
    BY Still DEF IInv
  <1>7. ApiTypes'
    BY LabelledTypes DEF IInv, Types, ApiTypes
  <1>5. CountTypes'
    BY Counted DEF CountTypes, IInv, Types
  <1>6. Types'
    BY <1>1, <1>4, <1>5, <1>7 DEF Types
  <1> QED
    BY <1>1, <1>2, <1>3, <1>4, <1>6, Calm

LEMMA ServeStep ==
  ASSUME JobFlowAssumption, IInv, NEW k \in DOMAIN calls, Serve(k)
  PROVE  IInv'
  <1> DEFINE c == calls[k]
             Reply(a, j) == calls' = [calls EXCEPT ![k].pc = "back", ![k].answer = a, ![k].got = j]
             Rest == UNCHANGED <<gone, stale, uploads, linked, storage, page, known, wish, acts>>
             Label == labelled' \in {labelled, labelled \cup {c.intent.upload}}
  <1>1. calls[k].pc = "sent" /\ Rest
    BY DEF Serve
  <1>2. \/ \E j \in Replayed(c.key) : Reply("ok", j) /\ UNCHANGED <<jobs, credit, labelled, faults>>
        \/ /\ Reply("not_found", None) /\ Label /\ UNCHANGED <<jobs, credit, faults>>
        \/ /\ Fault /\ Reply("blocked", None) /\ Label /\ UNCHANGED <<jobs, credit>>
        \/ /\ Reply("insufficient", None) /\ Label /\ UNCHANGED <<jobs, credit, faults>>
        \/ /\ Replayed(c.key) = {} /\ c.intent.upload > stale /\ credit > 0 /\ Label
           /\ jobs' = Append(jobs, [key |-> c.key, intent |-> c.intent, status |-> "running",
                                    order |-> c.order])
           /\ credit' = credit - 1 /\ Reply("ok", Len(jobs')) /\ UNCHANGED faults
    BY DEF Serve
  <1>3. CASE \E j \in Replayed(c.key) : Reply("ok", j) /\ UNCHANGED <<jobs, credit, labelled, faults>>
    <2>1. PICK j \in Replayed(c.key) : Reply("ok", j) /\ UNCHANGED <<jobs, credit, labelled, faults>>
      BY <1>3
    <2> QED
      BY <1>1, <2>1, ServeAgain DEF api
  <1>4. CASE Reply("not_found", None) /\ Label /\ UNCHANGED <<jobs, credit, faults>>
    <2>1. AnswerOf(k, "not_found", None)
      BY <1>4 DEF AnswerOf
    <2> QED
      BY <1>1, <1>4, <2>1, ServeRefused
  <1>5. CASE Fault /\ Reply("blocked", None) /\ Label /\ UNCHANGED <<jobs, credit>>
    <2>1. AnswerOf(k, "blocked", None)
      BY <1>5 DEF AnswerOf
    <2> QED
      BY <1>1, <1>5, <2>1, ServeRefused
  <1>6. CASE Reply("insufficient", None) /\ Label /\ UNCHANGED <<jobs, credit, faults>>
    <2>1. AnswerOf(k, "insufficient", None)
      BY <1>6 DEF AnswerOf
    <2> QED
      BY <1>1, <1>6, <2>1, ServeRefused
  <1>7. CASE /\ Replayed(c.key) = {} /\ c.intent.upload > stale /\ credit > 0 /\ Label
             /\ jobs' = Append(jobs, [key |-> c.key, intent |-> c.intent, status |-> "running",
                                      order |-> c.order])
             /\ credit' = credit - 1 /\ Reply("ok", Len(jobs')) /\ UNCHANGED faults
    BY <1>1, <1>7, ServeNew
  <1> QED
    BY <1>2, <1>3, <1>4, <1>5, <1>6, <1>7

LEMMA OrderedStep ==
  ASSUME JobFlowAssumption, IInv, NEW k \in DOMAIN calls, Ordered(k)
  PROVE  IInv'
  <1> DEFINE c == calls[k]
             f == [n \in DOMAIN calls |-> IF n = k THEN Over ELSE [calls[n] EXCEPT !.here = FALSE]]
  <1>1. /\ c.pc = "back" /\ c.answer = "ok"
        /\ attempt' = NoAttempt /\ draft' = IF c.at = "result" THEN draft ELSE NoDraft
        /\ Show("waiting", c.got, cache[c.got])
        /\ trouble' = [trouble EXCEPT ![c.got] = "none"]
        /\ Touch /\ UNCHANGED <<api, cache, acts, faults>>
    BY DEF Ordered
  <1>2. calls' = f
    BY DEF Ordered
  <1>3. f = [n \in DOMAIN calls |-> f[n]] /\ DOMAIN f = DOMAIN calls
        /\ \A n \in DOMAIN calls : f[n] = IF n = k THEN Over ELSE [calls[n] EXCEPT !.here = FALSE]
    OBVIOUS
  <1> HIDE DEF f
  <1>4. \A n \in DOMAIN calls :
          /\ f[n] \in CallRecord
          /\ n # k => /\ f[n].pc = calls[n].pc /\ f[n].got = calls[n].got
                      /\ f[n].answer = calls[n].answer /\ Ask(f[n]) = Ask(calls[n])
    BY <1>3, Indices, LeftIsCall, OverIsCall DEF IInv
  <1>5. CallTypes' /\ Len(calls') = Len(calls)
    BY <1>2, <1>3, <1>4, EveryCall DEF IInv, Types
  <1>6. CallsCalm
    <2>1. ASSUME NEW n \in DOMAIN calls
          PROVE  Milder(n)
      <3>1. CASE n = k
        BY <1>2, <1>3, <3>1 DEF Milder, Over
      <3>2. CASE n # k
        <4>1. calls'[n].key = calls[n].key
          BY <1>2, <1>4, <3>2 DEF Ask
        <4> QED
          BY <1>2, <1>4, <3>2, <4>1 DEF Milder
      <3> QED
        BY <3>1, <3>2
    <2> QED
      BY <1>2, <1>3, <2>1 DEF CallsCalm
  <1>7. JobsCalm /\ WishCalm
    BY <1>1, JobsStay, WishTouched DEF api, IInv
  <1>8. uploads \in Nat /\ UNCHANGED <<jobs, uploads, gone, stale>>
    BY <1>1 DEF IInv, Types, ApiTypes, api
  <1>9. c.got \in DOMAIN jobs
    BY <1>1 DEF IInv, AnswersWell
  <1>10. /\ active' \in 0 .. Len(jobs)
         /\ screen' \in ScreenRecord /\ screen'.job <= Len(jobs)
         /\ Plain(form') /\ uploading' = NoUpload
    BY <1>1, <1>9, ShowTypes
  <1>11. PageTypes'
    BY <1>8, <1>10, PageOK
  <1>12. StorageTypes'
    <2>1. attempt' \in [key : Nat, intent : IntentRecord]
      BY <1>1, OverIsCall DEF NoAttempt
    <2>2. draft' \in DraftRecord /\ draft'.upload <= uploads
      BY <1>1, <1>8, DraftGone DEF Keeps, IInv, Types, StorageTypes
    <2> QED
      BY <1>8, <1>10, <2>1, <2>2 DEF StorageTypes
  <1>13. KnownTypes'
    BY <1>1 DEF IInv, Types, KnownTypes
  <1>14. CountTypes'
    BY <1>1, Counted, Touched DEF CountTypes, IInv
  <1>15. ApiTypes'
    BY <1>1, Still DEF IInv
  <1>16. Types'
    BY <1>5, <1>11, <1>12, <1>13, <1>14, <1>15 DEF Types
  <1> QED
    BY <1>5, <1>6, <1>7, <1>8, <1>16, Calm

LEMMA NotOrderedStep ==
  ASSUME JobFlowAssumption, IInv, NEW k \in DOMAIN calls, NotOrdered(k)
  PROVE  IInv'
  <1> DEFINE c == calls[k]
  <1>1. /\ c.pc = "back" /\ Done(k)
        /\ UNCHANGED <<api, attempt, active, screen, uploading, known, wish, acts, faults>>
    BY DEF NotOrdered
  <1>2. \/ form' = [form EXCEPT !.upload = c.intent.upload, !.blocked = TRUE] /\ draft' = draft
        \/ draft' = [upload |-> c.intent.upload, pet |-> c.intent.pet,
                     answers |-> c.intent.answers, breed |-> c.intent.breed]
           /\ form' = form
        \/ UNCHANGED <<draft, form>>
    BY DEF NotOrdered
  <1>3. CallTypes' /\ Len(calls') = Len(calls) /\ CallsCalm
    BY <1>1, CallEnds DEF IInv
  <1>4. JobsCalm /\ WishCalm
    BY <1>1, JobsStay, WishStays DEF api
  <1>5. uploads \in Nat /\ UNCHANGED <<jobs, uploads, gone, stale>>
    BY <1>1 DEF IInv, Types, ApiTypes, api
  <1>6. c.intent \in IntentRecord /\ c.intent.upload \in 1 .. uploads
    BY <1>1, CallIntent
  <1> HIDE DEF c
  <1>7. PageTypes'
    <2>1. screen' \in ScreenRecord /\ screen'.job <= Len(jobs')
          /\ uploading' \in [on : BOOLEAN, pet : 0 .. 1] /\ (uploading'.on => uploads' < MaxUpload)
          /\ form \in FormRecord /\ form.upload <= uploads /\ (form.blocked => form.upload # None)
      BY <1>1, <1>5 DEF IInv, Types, PageTypes
    <2>2. CASE form' = form
      BY <1>5, <2>1, <2>2 DEF PageTypes
    <2>3. CASE form' = [form EXCEPT !.upload = c.intent.upload, !.blocked = TRUE]
      <3>1. c.intent.upload \in Nat /\ c.intent.upload <= uploads /\ c.intent.upload # None
        BY <1>5, <1>6 DEF None
      <3>2. form' \in FormRecord /\ form'.upload = c.intent.upload
        BY <2>1, <2>3, <3>1 DEF FormRecord
      <3> QED
        BY <1>5, <2>1, <3>1, <3>2 DEF PageTypes
    <2> QED
      BY <1>2, <2>2, <2>3
  <1>8. StorageTypes'
    <2>1. draft \in DraftRecord /\ draft.upload <= uploads
      BY DEF IInv, Types, StorageTypes
    <2>2. CASE draft' = draft
      BY <1>1, <1>5, <2>1, <2>2 DEF IInv, Types, StorageTypes
    <2>3. CASE draft' = [upload |-> c.intent.upload, pet |-> c.intent.pet,
                         answers |-> c.intent.answers, breed |-> c.intent.breed]
      <3>1. draft' \in DraftRecord /\ draft'.upload <= uploads
        BY <1>5, <1>6, <2>3 DEF DraftRecord, IntentRecord
      <3> QED
        BY <1>1, <1>5, <3>1 DEF IInv, Types, StorageTypes
    <2> QED
      BY <1>2, <2>2, <2>3
  <1>9. ApiTypes' /\ KnownTypes' /\ CountTypes'
    BY <1>1, Still DEF IInv
  <1>10. Types'
    BY <1>3, <1>7, <1>8, <1>9 DEF Types
  <1> QED
    BY <1>3, <1>4, <1>5, <1>10, Calm

LEMMA UnheardStep ==
  ASSUME JobFlowAssumption, IInv, NEW k \in DOMAIN calls, Unheard(k)
  PROVE  IInv'
  <1> USE DEF Unheard
  <1>1. CallTypes' /\ Len(calls') = Len(calls) /\ CallsCalm
    BY CallEnds DEF IInv
  <1>2. JobsCalm /\ WishCalm
    BY JobsStay, WishStays DEF api, storage
  <1>3. /\ ApiTypes' /\ StorageTypes' /\ PageTypes' /\ KnownTypes' /\ CountTypes'
        /\ UNCHANGED <<jobs, uploads, gone, stale>> /\ uploads \in Nat
    BY Still DEF IInv, Types, ApiTypes, api
  <1>4. Types'
    BY <1>1, <1>3 DEF Types
  <1> QED
    BY <1>1, <1>2, <1>3, <1>4, Calm
-----------------------------------------------------------------------------
(***************************************************************************)
(* The job, the bar and the session.                                       *)
(***************************************************************************)
LEMMA FinishStep ==
  ASSUME JobFlowAssumption, IInv, NEW j \in Job, Finish(j)
  PROVE  IInv'
  <1>1. /\ j \in DOMAIN jobs
        /\ UNCHANGED <<gone, stale, uploads, linked, labelled, storage, page, calls, known, wish, acts, faults>>
        /\ credit' = credit \/ credit' = credit + 1
        /\ \E s \in {"done", "failed"} : jobs' = [jobs EXCEPT ![j].status = s]
    BY DEF Finish
  <1>2. PICK s \in {"done", "failed"} : jobs' = [jobs EXCEPT ![j].status = s]
    BY <1>1
  <1> DEFINE r == [jobs[j] EXCEPT !.status = s]
  <1>3. /\ j \in 1 .. Len(jobs) /\ DOMAIN jobs = 1 .. Len(jobs) /\ jobs[j] \in JobRecord
        /\ jobs \in Seq(JobRecord)
    BY <1>1, Indices DEF IInv, Types, ApiTypes
  <1>4. r \in JobRecord /\ Ask(r) = Ask(jobs[j]) /\ jobs' = [jobs EXCEPT ![j] = r]
    BY <1>2, <1>3 DEF JobRecord, Ask
  <1> HIDE DEF r
  <1>5. /\ jobs' \in Seq(JobRecord) /\ Len(jobs') = Len(jobs) /\ DOMAIN jobs' = DOMAIN jobs
        /\ \A n \in 1 .. Len(jobs) : jobs'[n] = IF n = j THEN r ELSE jobs[n]
    BY <1>3, <1>4, ExceptSeq
  <1>6. JobsCalm
    BY <1>3, <1>4, <1>5 DEF JobsCalm
  <1>7. CallTypes' /\ Len(calls') = Len(calls) /\ CallsCalm
    BY <1>1, CallsStay DEF IInv
  <1>8. WishCalm /\ uploads \in Nat
    BY <1>1, WishStays DEF storage, IInv, Types, ApiTypes
  <1>9. Types'
    <2>1. ApiTypes'
      BY <1>1, <1>5 DEF ApiTypes, IInv, Types
    <2>2. StorageTypes'
      BY <1>1, <1>5 DEF StorageTypes, IInv, Types, storage
    <2>3. PageTypes'
      BY <1>1, <1>5 DEF PageTypes, IInv, Types, page
    <2>4. KnownTypes' /\ CountTypes'
      BY <1>1, Still DEF IInv
    <2> QED
      BY <1>7, <2>1, <2>2, <2>3, <2>4 DEF Types
  <1> QED
    BY <1>1, <1>6, <1>7, <1>8, <1>9, Calm

LEMMA PollStep ==
  ASSUME JobFlowAssumption, IInv, NEW j \in Job, Poll(j)
  PROVE  IInv'
  <1> USE DEF Poll
  <1>1. CallTypes' /\ Len(calls') = Len(calls) /\ CallsCalm
    BY CallsStay DEF IInv
  <1>2. JobsCalm /\ WishCalm
    BY JobsStay, WishStays DEF api
  <1>3. /\ uploads \in Nat /\ UNCHANGED <<jobs, uploads, gone, stale>>
        /\ j \in DOMAIN jobs /\ jobs[j].status \in {"running", "done", "failed"}
    BY Indices DEF IInv, Types, ApiTypes, api, Reachable, JobRecord
  <1>4. ApiTypes' /\ CountTypes'
    BY Still DEF IInv
  <1>5. KnownTypes'
    BY <1>3 DEF KnownTypes, IInv, Types
  <1>6. StorageTypes' /\ PageTypes'
    <2>1. CASE UNCHANGED <<active, page>>
      BY <1>3, <2>1, Still DEF IInv, storage
    <2>2. CASE OnScreen(j) /\ Show(screen.at, j, jobs[j].status)
      <3>1. screen.at \in {"waiting", "result"}
        BY <2>2 DEF OnScreen
      <3>2. /\ active' \in 0 .. Len(jobs)
            /\ screen' \in ScreenRecord /\ screen'.job <= Len(jobs)
            /\ Plain(form') /\ uploading' = NoUpload
        BY <1>3, <2>2, <3>1, ShowTypes
      <3>3. PageTypes'
        BY <1>3, <3>2, PageOK
      <3>4. StorageTypes'
        BY <1>3, <3>2 DEF StorageTypes, IInv, Types
      <3> QED
        BY <3>3, <3>4
    <2> QED
      BY <2>1, <2>2
  <1>7. Types'
    BY <1>1, <1>4, <1>5, <1>6 DEF Types
  <1> QED
    BY <1>1, <1>2, <1>3, <1>7, Calm

LEMMA PollGoneStep ==
  ASSUME JobFlowAssumption, IInv, NEW j \in Job, PollGone(j)
  PROVE  IInv'
  <1> USE DEF PollGone
  <1>1. CallTypes' /\ Len(calls') = Len(calls) /\ CallsCalm
    BY CallsStay DEF IInv
  <1>2. JobsCalm /\ WishCalm
    BY JobsStay, WishStays DEF api
  <1>3. uploads \in Nat /\ UNCHANGED <<jobs, uploads, gone, stale>> /\ Len(jobs) \in Nat
    BY Indices DEF IInv, Types, ApiTypes, api
  <1>4. ApiTypes' /\ CountTypes' /\ PageTypes'
    BY <1>3, Still DEF IInv
  <1>5. KnownTypes'
    BY DEF KnownTypes, IInv, Types
  <1>6. StorageTypes'
    BY <1>3 DEF StorageTypes, IInv, Types, Forget, None
  <1>7. Types'
    BY <1>1, <1>4, <1>5, <1>6 DEF Types
  <1> QED
    BY <1>1, <1>2, <1>3, <1>7, Calm

LEMMA PollFailsStep ==
  ASSUME JobFlowAssumption, IInv, NEW j \in Job, PollFails(j)
  PROVE  IInv'
  <1> USE DEF PollFails
  <1>1. CallTypes' /\ Len(calls') = Len(calls) /\ CallsCalm
    BY CallsStay DEF IInv
  <1>2. JobsCalm /\ WishCalm
    BY JobsStay, WishStays DEF api, storage
  <1>3. uploads \in Nat /\ UNCHANGED <<jobs, uploads, gone, stale>>
    BY DEF IInv, Types, ApiTypes, api
  <1>4. ApiTypes' /\ StorageTypes' /\ PageTypes'
    BY <1>3, Still DEF IInv
  <1>5. KnownTypes'
    BY DEF KnownTypes, IInv, Types, Trouble
  <1>6. CountTypes'
    BY Counted DEF CountTypes, IInv, Types
  <1>7. Types'
    BY <1>1, <1>4, <1>5, <1>6 DEF Types
  <1> QED
    BY <1>1, <1>2, <1>3, <1>7, Calm

LEMMA DismissStep ==
  ASSUME JobFlowAssumption, IInv, Dismiss
  PROVE  IInv'
  <1> USE DEF Dismiss
  <1>1. CallTypes' /\ Len(calls') = Len(calls) /\ CallsCalm
    BY CallsStay DEF IInv
  <1>2. JobsCalm /\ WishCalm
    BY JobsStay, WishStays DEF api
  <1>3. uploads \in Nat /\ UNCHANGED <<jobs, uploads, gone, stale>> /\ Len(jobs) \in Nat
    BY Indices DEF IInv, Types, ApiTypes, api
  <1>4. ApiTypes' /\ CountTypes' /\ PageTypes' /\ KnownTypes'
    BY <1>3, Still DEF IInv
  <1>5. StorageTypes'
    BY <1>3 DEF StorageTypes, IInv, Types, None
  <1>6. Types'
    BY <1>1, <1>4, <1>5 DEF Types
  <1> QED
    BY <1>1, <1>2, <1>3, <1>6, Calm

LEMMA EarnStep ==
  ASSUME JobFlowAssumption, IInv, Earn
  PROVE  IInv'
  <1> USE DEF Earn
  <1>1. CallTypes' /\ Len(calls') = Len(calls) /\ CallsCalm
    BY CallsStay DEF IInv
  <1>2. JobsCalm /\ WishCalm
    BY JobsStay, WishStays DEF storage
  <1>3. uploads \in Nat /\ ApiTypes'
    BY DEF IInv, Types, ApiTypes
  <1>4. StorageTypes' /\ PageTypes' /\ KnownTypes'
    BY Still DEF IInv
  <1>5. CountTypes'
    BY Counted DEF CountTypes, IInv, Types
  <1>6. Types'
    BY <1>1, <1>3, <1>4, <1>5 DEF Types
  <1> QED
    BY <1>1, <1>2, <1>3, <1>6, Calm

LEMMA LoseSessionStep ==
  ASSUME JobFlowAssumption, IInv, LoseSession
  PROVE  IInv'
  <1> USE DEF LoseSession
  <1>1. CallTypes' /\ Len(calls') = Len(calls) /\ CallsCalm
    BY CallsStay, CallsLeft DEF IInv
  <1>2. JobsCalm /\ WishCalm
    BY JobsStay, WishTouched DEF IInv
  <1>3. uploads \in Nat /\ Len(jobs) \in Nat /\ UNCHANGED <<jobs, uploads>>
    BY Indices DEF IInv, Types, ApiTypes
  <1>4. ApiTypes'
    BY <1>3 DEF ApiTypes, IInv, Types
  <1>5. KnownTypes'
    BY Still DEF IInv
  <1>6. StorageTypes' /\ PageTypes'
    <2>1. CASE UNCHANGED <<attempt, draft, screen, form, uploading, calls>>
      BY <1>3, <2>1, Still DEF IInv, storage, page
    <2>2. CASE /\ attempt' = NoAttempt /\ draft' = NoDraft
               /\ screen' = [at |-> "browse", job |-> None]
               /\ form' = Blank /\ uploading' = NoUpload
      <3>1. attempt' \in [key : Nat, intent : IntentRecord]
        BY <2>2, OverIsCall DEF NoAttempt
      <3>2. draft' \in DraftRecord /\ draft'.upload <= uploads
        BY <1>3, <2>2, DraftGone DEF Keeps
      <3>3. StorageTypes'
        BY <1>3, <3>1, <3>2 DEF StorageTypes, IInv, Types
      <3>4. screen' \in ScreenRecord /\ screen'.job <= Len(jobs')
        BY <1>3, <2>2 DEF ScreenRecord, None
      <3>5. PageTypes'
        BY <1>3, <2>2, <3>4, BlankForm, PageOK
      <3> QED
        BY <3>3, <3>5
    <2> QED
      BY <2>1, <2>2
  <1>7. CountTypes'
    BY Counted, Touched DEF CountTypes, IInv
  <1>8. Types'
    BY <1>1, <1>4, <1>5, <1>6, <1>7 DEF Types
  <1>9. AskedWell' /\ KeysMean' /\ AttemptMeans'
    BY <1>1, <1>2, <1>3, NothingNew, MeaningKept
  <1>10. AnswersWell'
    BY <1>1, <1>2, AnswersKept
  <1>11. OneJobPerKey'
    BY <1>3 DEF IInv, OneJobPerKey
  <1>12. SidesMatch'
    <2>1. gone' = Len(jobs) /\ stale' = uploads /\ DOMAIN jobs = 1 .. Len(jobs)
      BY Indices DEF IInv
    <2>2. ASSUME NEW j \in DOMAIN jobs
          PROVE  ~(j > gone') /\ ~(jobs[j].intent.upload > stale')
      <3>1. jobs[j].intent.upload \in 1 .. uploads
        BY JobIntent
      <3> QED
        BY <1>3, <2>1, <3>1
    <2> QED
      BY <1>3, <2>2 DEF SidesMatch
  <1> QED
    BY <1>8, <1>9, <1>10, <1>11, <1>12 DEF IInv
-----------------------------------------------------------------------------
(***************************************************************************)
(* The invariant.                                                          *)
(***************************************************************************)
\* A tab with nothing ordered satisfies it.
LEMMA InitInv == JobFlowAssumption /\ Init => IInv
  <1> SUFFICES ASSUME JobFlowAssumption, Init
               PROVE  IInv
    OBVIOUS
  <1>1. /\ jobs = <<>> /\ calls = <<>> /\ Len(jobs) = 0 /\ Len(calls) = 0
        /\ DOMAIN jobs = {} /\ DOMAIN calls = {}
        /\ jobs \in Seq(JobRecord) /\ calls \in Seq(CallRecord)
    BY EmptySeq DEF Init
  <1>2. MaxPress \in Nat /\ MaxUpload \in Nat /\ MaxAct \in Nat /\ MaxFault \in Nat
    BY DEF JobFlowAssumption
  <1>3. NoIntent \in IntentRecord
    BY OverIsCall
  <1>4. ApiTypes
    BY <1>1, <1>2 DEF Init, ApiTypes
  <1>5. StorageTypes
    BY <1>1, <1>3 DEF Init, StorageTypes, NoAttempt, NoDraft, DraftRecord, None
  <1>6. PageTypes
    BY <1>1 DEF Init, PageTypes, ScreenRecord, FormRecord, Blank, NoUpload, None
  <1>7. CallTypes
    BY <1>1, <1>2 DEF CallTypes
  <1>8. KnownTypes
    BY DEF Init, KnownTypes
  <1>9. CountTypes
    BY <1>2, <1>3 DEF Init, CountTypes
  <1>10. Asked = {}
    BY <1>1 DEF Asked
  <1>11. AskedWell /\ KeysMean
    BY <1>10 DEF AskedWell, KeysMean
  <1>12. AttemptMeans
    BY <1>1, <1>10 DEF Init, AttemptMeans, NoAttempt, NoIntent, None
  <1>13. AnswersWell /\ SidesMatch /\ OneJobPerKey
    BY <1>1 DEF AnswersWell, SidesMatch, OneJobPerKey
  <1> QED
    BY <1>4, <1>5, <1>6, <1>7, <1>8, <1>9, <1>11, <1>12, <1>13 DEF IInv, Types

\* A step that changes nothing keeps it.
LEMMA NoStep ==
  ASSUME JobFlowAssumption, IInv, UNCHANGED vars
  PROVE  IInv'
  <1>1. UNCHANGED <<api, storage, page, calls, known, wish, acts, faults>>
    BY DEF vars
  <1>2. CallTypes' /\ Len(calls') = Len(calls) /\ CallsCalm
    BY <1>1, CallsStay DEF IInv
  <1>3. JobsCalm /\ WishCalm
    BY <1>1, JobsStay, WishStays DEF api, storage
  <1>4. uploads \in Nat /\ UNCHANGED <<jobs, uploads, gone, stale>>
    BY <1>1 DEF IInv, Types, ApiTypes, api
  <1>5. ApiTypes' /\ StorageTypes' /\ PageTypes' /\ KnownTypes' /\ CountTypes'
    BY <1>1, <1>4, Still DEF IInv
  <1>6. Types'
    BY <1>2, <1>5 DEF Types
  <1> QED
    BY <1>2, <1>3, <1>4, <1>6, Calm

\* Every step of the tab, the API and the queue keeps it.
LEMMA StepInv == JobFlowAssumption /\ IInv /\ [Next]_vars => IInv'
  <1> SUFFICES ASSUME JobFlowAssumption, IInv, [Next]_vars
               PROVE  IInv'
    OBVIOUS
  <1>1. CASE Browse
    BY <1>1, BrowseStep
  <1>2. CASE ChangeBreed
    BY <1>2, ChangeBreedStep
  <1>3. CASE Reload
    BY <1>3, ReloadStep
  <1>4. CASE \E from \in {None} \cup Job : OpenUpload(from) \/ OpenCreative(from)
    BY <1>4, OpenUploadStep, OpenCreativeStep
  <1>5. CASE \E j \in Job, at \in {"waiting", "result"} : OpenJob(at, j)
    BY <1>5, OpenJobStep
  <1>6. CASE ChoosePhoto
    BY <1>6, ChoosePhotoStep
  <1>7. CASE Uploaded
    BY <1>7, UploadedStep
  <1>8. CASE SelectPet
    BY <1>8, SelectPetStep
  <1>9. CASE SavePet
    BY <1>9, SavePetStep
  <1>10. CASE ChangeInput
    BY <1>10, ChangeInputStep
  <1>11. CASE PickAnother
    BY <1>11, PickAnotherStep
  <1>12. CASE Press
    BY <1>12, PressStep
  <1>13. ASSUME NEW k \in DOMAIN calls, Serve(k) \/ Lose(k) \/ Ordered(k) \/ NotOrdered(k) \/ Unheard(k)
         PROVE  IInv'
    BY <1>13, ServeStep, LoseStep, OrderedStep, NotOrderedStep, UnheardStep
  <1>14. ASSUME NEW j \in Job, Finish(j) \/ Poll(j) \/ PollGone(j) \/ PollFails(j)
         PROVE  IInv'
    BY <1>14, FinishStep, PollStep, PollGoneStep, PollFailsStep
  <1>15. CASE Dismiss
    BY <1>15, DismissStep
  <1>16. CASE Earn
    BY <1>16, EarnStep
  <1>17. CASE LoseSession
    BY <1>17, LoseSessionStep
  <1>18. CASE UNCHANGED vars
    BY <1>18, NoStep
  <1> QED
    BY <1>1, <1>2, <1>3, <1>4, <1>5, <1>6, <1>7, <1>8, <1>9, <1>10, <1>11, <1>12, <1>13,
       <1>14, <1>15, <1>16, <1>17, <1>18 DEF Next
-----------------------------------------------------------------------------
(***************************************************************************)
(* What the runs check.                                                    *)
(***************************************************************************)
LEMMA TypesAreOK == JobFlowAssumption /\ IInv => TypeOK
  <1> SUFFICES ASSUME JobFlowAssumption, IInv
               PROVE  TypeOK
    OBVIOUS
  <1>1. ASSUME NEW k \in DOMAIN calls
        PROVE  calls[k].pc \in {"sent", "back", "done"} /\ calls[k].key \in 0 .. MaxPress
    BY Indices DEF IInv, CallRecord
  <1>2. /\ draft.upload \in 0 .. uploads /\ form.upload \in 0 .. uploads
        /\ form.blocked => form.upload # None
    BY DEF IInv, Types, ApiTypes, StorageTypes, PageTypes, DraftRecord, FormRecord
  <1>3. /\ screen.at \in {"browse", "upload", "creative", "waiting", "result"}
        /\ screen.job \in 0 .. Len(jobs)
    BY Indices DEF IInv, Types, PageTypes, ScreenRecord
  <1>4. /\ gone \in 0 .. Len(jobs) /\ stale \in 0 .. uploads /\ uploads \in 0 .. MaxUpload
        /\ linked \cup labelled \subseteq 1 .. uploads /\ credit \in Nat /\ active \in 0 .. Len(jobs)
    BY DEF IInv, Types, ApiTypes, StorageTypes
  <1>5. /\ acts \in 0 .. MaxAct /\ faults \in 0 .. MaxFault
        /\ \A j \in Job : /\ cache[j] \in {"none", "running", "done", "failed"}
                          /\ trouble[j] \in {"none", "retry", "fatal"}
    BY DEF IInv, Types, KnownTypes, CountTypes
  <1> QED
    BY <1>1, <1>2, <1>3, <1>4, <1>5 DEF TypeOK

LEMMA WishesAreOnce == IInv => PaidOnce
  <1> SUFFICES ASSUME IInv, NEW i \in DOMAIN jobs, NEW j \in DOMAIN jobs, i # j,
                      jobs[i].order = jobs[j].order
               PROVE  FALSE
    BY DEF PaidOnce
  <1>1. Ask(jobs[i]) \in Asked /\ Ask(jobs[j]) \in Asked
    BY DEF Asked
  <1>2. jobs[i].key = jobs[j].key
    BY <1>1 DEF IInv, KeysMean, Ask
  <1> QED
    BY <1>2 DEF IInv, OneJobPerKey

LEMMA AnswersAreAsked == IInv => AnswerIsAsked
  <1> SUFFICES ASSUME IInv, NEW k \in DOMAIN calls, calls[k].got # None
               PROVE  /\ SameIntent(jobs[calls[k].got].intent, calls[k].intent)
                      /\ jobs[calls[k].got].order = calls[k].order
                           => jobs[calls[k].got].intent = calls[k].intent
    BY DEF AnswerIsAsked, SameIntent
  <1>1. /\ calls[k].pc = "back" /\ calls[k].got \in DOMAIN jobs
        /\ jobs[calls[k].got].key = calls[k].key
    BY DEF IInv, AnswersWell
  <1>2. Ask(calls[k]) \in Asked /\ Ask(jobs[calls[k].got]) \in Asked
    <2>1. Ask(calls[k]) \in Asked
      BY <1>1 DEF Asked
    <2>2. \A j \in DOMAIN jobs : Ask(jobs[j]) \in Asked
      BY DEF Asked
    <2> QED
      BY <1>1, <2>1, <2>2
  <1> QED
    BY <1>1, <1>2 DEF IInv, KeysMean, Ask

\* The invariant holds in every state that the tab and the API reach.
THEOREM Invariant == Spec => []IInv
  <1>1. Init => IInv
    BY InitInv, JobFlowAssumption
  <1>2. IInv /\ [Next]_vars => IInv'
    BY StepInv, JobFlowAssumption
  <1> QED
    BY <1>1, <1>2, PTL DEF Spec

\* No storage, screen or call refers to a photo or a job there is not, and a
\* photo that is shown as unfit is shown.
THEOREM TypesHold == Spec => []TypeOK
  BY Invariant, TypesAreOK, JobFlowAssumption, PTL

\* What the user wants once makes one job: through lost answers, left screens,
\* reloads, refusals and lost sessions the tab sends the wish under the one key
\* of its stored attempt, and create_job makes one job of a key.
THEOREM PaidOnceHolds == Spec => []PaidOnce
  BY Invariant, WishesAreOnce, PTL

\* An answer, also one to an order repeated after another screen or a reload, is
\* a job of that photo, dog, sentence and answers, since a key stands for one
\* intent but for the breed; and of that breed, when the wish is the one that made
\* the job.
THEOREM AnswerIsAskedHolds == Spec => []AnswerIsAsked
  BY Invariant, AnswersAreAsked, PTL

LEMMA ShownJob ==
  ASSUME NEW at, NEW j, NEW s, Show(at, j, s), active # None, active' # active
  PROVE  \/ s = "running" /\ active' = j
         \/ Settled(s) /\ active = j /\ screen'.job = active
  BY DEF Show, Forget, Settled

LEMMA JobsAreNot0 == \A j \in Job : j # None
  BY DEF Job, None

LEMMA BarStep ==
  ASSUME IInv, [Next]_vars, active # None, active' # active
  PROVE  \/ active' # None /\ cache'[active'] = "running"
         \/ screen'.job = active /\ Settled(cache'[active])
         \/ trouble'[active] = "fatal"
         \/ Dismiss
  <1> DEFINE Goal == \/ active' # None /\ cache'[active'] = "running"
                     \/ screen'.job = active /\ Settled(cache'[active])
                     \/ trouble'[active] = "fatal"
                     \/ Dismiss
  <1>1. ~(UNCHANGED active)
    OBVIOUS
  <1>2. ASSUME NEW j \in Job, NEW at \in {"waiting", "result"}, OpenJob(at, j)
        PROVE  Goal
    <2>1. Show(at, j, cache[j]) /\ cache' = cache /\ j # None
      BY <1>2, JobsAreNot0 DEF OpenJob
    <2> QED
      BY <2>1, ShownJob
  <1>3. ASSUME NEW k \in DOMAIN calls, Ordered(k)
        PROVE  Goal
    <2>1. Show("waiting", calls[k].got, cache[calls[k].got]) /\ cache' = cache
          /\ calls[k].answer = "ok"
      BY <1>3 DEF Ordered
    <2>2. calls[k].got # None
      BY <2>1 DEF IInv, AnswersWell
    <2> QED
      BY <2>1, <2>2, ShownJob
  <1>4. ASSUME NEW j \in Job, Poll(j)
        PROVE  Goal
    <2>1. Show(screen.at, j, jobs[j].status) /\ j # None
      BY <1>1, <1>4, JobsAreNot0 DEF Poll
    <2>2. cache'[j] = jobs[j].status
      BY <1>4 DEF Poll, IInv, Types, KnownTypes
    <2> QED
      BY <2>1, <2>2, ShownJob
  <1>5. ASSUME NEW j \in Job, PollGone(j)
        PROVE  Goal
    <2>1. active = j /\ trouble'[j] = "fatal"
      BY <1>1, <1>5 DEF PollGone, Forget, IInv, Types, KnownTypes
    <2> QED
      BY <2>1
  <1>6. CASE Dismiss
    BY <1>6
  <1>7. ~Browse /\ ~ChangeBreed /\ ~Reload /\ ~ChoosePhoto /\ ~Uploaded
    BY <1>1 DEF Browse, ChangeBreed, Reload, ChoosePhoto, Uploaded, storage
  <1>8. ~SelectPet /\ ~SavePet /\ ~ChangeInput /\ ~PickAnother /\ ~Press
    BY <1>1 DEF SelectPet, SavePet, ChangeInput, PickAnother, Press, storage
  <1>9. ~Earn /\ ~LoseSession /\ ~(UNCHANGED vars)
    BY <1>1 DEF Earn, LoseSession, vars, storage
  <1>10. \A from \in {None} \cup Job : ~OpenUpload(from) /\ ~OpenCreative(from)
    BY <1>1 DEF OpenUpload, OpenCreative, storage
  <1>11. \A k \in DOMAIN calls : ~Serve(k) /\ ~Lose(k) /\ ~NotOrdered(k) /\ ~Unheard(k)
    BY <1>1 DEF Serve, Lose, NotOrdered, Unheard, storage
  <1>12. \A j \in Job : ~Finish(j) /\ ~PollFails(j)
    BY <1>1 DEF Finish, PollFails, storage
  <1> QED
    BY <1>2, <1>3, <1>4, <1>5, <1>6, <1>7, <1>8, <1>9, <1>10, <1>11, <1>12 DEF Next

\* The bar lets go of a job only for a newer one that runs, because the user
\* closed it, because its end was seen, or because it cannot be read.
THEOREM BarKeepsItsJobHolds == Spec => BarKeepsItsJob
  <1>1. IInv /\ [Next]_vars
          => [ active # None /\ active' # active
               => \/ active' # None /\ cache'[active'] = "running"
                  \/ screen'.job = active /\ Settled(cache'[active])
                  \/ trouble'[active] = "fatal"
                  \/ Dismiss ]_vars
    BY BarStep
  <1> QED
    BY <1>1, Invariant, PTL DEF Spec, BarKeepsItsJob
=============================================================================
