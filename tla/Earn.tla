------------------------------- MODULE Earn --------------------------------
(***************************************************************************)
(* Free credit: the list of ways to earn it in one browser, the codes that *)
(* Instagram messages bring, redeemed by hand or by themselves once the    *)
(* visitor has logged in, and other members who redeem the same codes.  A  *)
(* redemption is several steps of a transaction, answers are lost, and the *)
(* list is a cache that claims invalidate.  One day is modelled.           *)
(***************************************************************************)
EXTENDS Naturals, FiniteSets

CONSTANTS Member, Me,    \* the members, and the one of this browser
          Code, Account, \* codes, Instagram accounts
          AccountOf,     \* code -> the account it would be issued to
          None,
          MaxCall,       \* bound: claims and redemptions
          MaxAct,        \* bound: visits, reads of the list, codes that age
          MaxFault       \* bound: answers lost, reads that fail

ASSUME EarnAssumption ==
  /\ Me \in Member /\ None \notin Member \cup Code
  /\ AccountOf \in [Code -> Account]
  /\ {MaxCall, MaxAct, MaxFault} \subseteq Nat

VARIABLES codes,    \* code -> not issued, live, or too old
          redeemer, \* code -> who redeemed it
          paid,     \* the ledger: members and what they were paid for
          event,    \* the follow_ig_open event of this member
          taken,    \* whether the Instagram name typed here was used elsewhere
          kind,     \* what the session of this browser is
          calls,    \* claims and redemptions at the server
          stored,   \* localStorage: the code of a link
          page,     \* the page in this browser
          acts, faults

ledger == <<redeemer, paid>>
browser == <<kind, stored, page>>
vars == <<codes, ledger, event, taken, browser, calls, acts, faults>>

Call == 1 .. MaxCall

\* A grant is named after the way it was asked for.
RewardAsked(k) == k
\* A code earns the reward of following.
Reward(k) == IF k = "daily" THEN "daily" ELSE "follow_ig"

\* The rows of the list that are claimed, or that it is not read yet.
Unread == [read |-> FALSE, login |-> FALSE, claimed |-> {}]
NoCall == [pc |-> "idle", by |-> None, kind |-> "daily", code |-> None,
           rows |-> {}, seen |-> {}, answer |-> "none"]
NoFetch == [pc |-> "idle", rows |-> Unread]
Asked == [pc |-> "asked", rows |-> Unread]

\* A page that has just been loaded: /me and /credits are asked for.
Loaded == [me |-> "unknown", list |-> FALSE, rows |-> Unread, fetch |-> Asked, error |-> FALSE,
           open |-> {}, claim |-> 0, hand |-> 0, auto |-> 0, fired |-> FALSE,
           told |-> "nothing", opened |-> "no"]

Init ==
  /\ codes = [c \in Code |-> "none"] /\ redeemer = [c \in Code |-> None]
  /\ paid = {} /\ event = "none" /\ taken = FALSE
  /\ kind \in {"guest", "member"}
  /\ calls = [n \in Call |-> NoCall]
  /\ stored = None /\ page = Loaded
  /\ acts = 0 /\ faults = 0

Act == acts < MaxAct /\ acts' = acts + 1
Fault == faults < MaxFault /\ faults' = faults + 1
-----------------------------------------------------------------------------
(***************************************************************************)
(* Instagram.                                                              *)
(***************************************************************************)
\* A message of a follower is answered with the code that is not used yet, or
\* with a new one; two messages handled at once get one each.
IssueCode(c) ==
  /\ codes[c] = "none" /\ codes' = [codes EXCEPT ![c] = "live"]
  /\ UNCHANGED <<ledger, event, taken, browser, calls, acts, faults>>

\* Thirty days pass.
Age(c) ==
  /\ Act /\ codes[c] = "live" /\ codes' = [codes EXCEPT ![c] = "old"]
  /\ UNCHANGED <<ledger, event, taken, browser, calls, faults>>
-----------------------------------------------------------------------------
(***************************************************************************)
(* The API.                                                                *)
(***************************************************************************)
Answered(n, answer) == [calls EXCEPT ![n].pc = "answered", ![n].answer = answer]

\* The friction in front of a follow_ig claim, in its order.
Refusal(n) ==
  IF calls[n].kind # "follow_ig" THEN "none"
  ELSE IF event # "ripe" THEN "unopened" ELSE IF taken THEN "used" ELSE "none"

ServeClaim(n) ==
  /\ calls[n].pc = "sent" /\ calls[n].kind \in {"daily", "follow_ig"}
  /\ LET row == <<calls[n].by, calls[n].kind>>
     IN \/ /\ Refusal(n) # "none"
           /\ calls' = Answered(n, Refusal(n)) /\ UNCHANGED paid
        \/ /\ Refusal(n) = "none" /\ row \in paid
           /\ calls' = Answered(n, "claimed") /\ UNCHANGED paid
        \/ /\ Refusal(n) = "none" /\ row \notin paid
           /\ calls' = Answered(n, "granted") /\ paid' = paid \cup {row}
  /\ UNCHANGED <<codes, redeemer, event, taken, browser, acts, faults>>

\* A redemption looks its code up ...
LookUp(n) ==
  /\ calls[n].pc = "sent" /\ calls[n].kind \in {"auto", "hand", "other"}
  /\ \/ codes[calls[n].code] = "live" /\ calls' = [calls EXCEPT ![n].pc = "looked"]
     \/ codes[calls[n].code] # "live" /\ calls' = Answered(n, "invalid")
  /\ UNCHANGED <<codes, ledger, event, taken, browser, acts, faults>>

\* The code alone.
SiblingsNone(c) == {c}
\* Every code of the same account.
Siblings(c) == {d \in Code : AccountOf[d] = AccountOf[c] /\ codes[d] # "none"}

Locked == UNION {calls[n].rows : n \in {m \in Call : calls[m].pc = "locked"}}

\* ... locks the codes of the account and reads who redeemed them ...
LockSiblings(n) ==
  /\ calls[n].pc = "looked"
  /\ Siblings(calls[n].code) \cap Locked = {}
  /\ calls' = [calls EXCEPT ![n].pc = "locked", ![n].rows = Siblings(calls[n].code),
                            ![n].seen = {redeemer[c] : c \in Siblings(calls[n].code)} \ {None}]
  /\ UNCHANGED <<codes, ledger, event, taken, browser, acts, faults>>

\* ... and pays when none of them paid another member, nor this one before.
Judge(n) ==
  /\ calls[n].pc = "locked"
  /\ LET row == <<calls[n].by, "follow_ig">>
         others == calls[n].seen \ {calls[n].by}
     IN \/ /\ others # {}
           /\ calls' = Answered(n, "used") /\ UNCHANGED ledger
        \/ /\ others = {} /\ row \in paid
           /\ calls' = Answered(n, "claimed") /\ UNCHANGED ledger
        \/ /\ others = {} /\ row \notin paid
           /\ calls' = Answered(n, "granted")
           /\ paid' = paid \cup {row} /\ redeemer' = [redeemer EXCEPT ![calls[n].code] = calls[n].by]
  /\ UNCHANGED <<codes, event, taken, browser, acts, faults>>

\* The event of the opened link is ten seconds old.
Ripen ==
  /\ event = "young" /\ event' = "ripe"
  /\ UNCHANGED <<codes, ledger, taken, browser, calls, acts, faults>>

\* Half an hour later it does not count any more.
Fade ==
  /\ event = "ripe" /\ event' = "none"
  /\ UNCHANGED <<codes, ledger, taken, browser, calls, acts, faults>>

\* Another member claims with the name that is typed here.
TakeName ==
  /\ Act /\ ~taken /\ taken' = TRUE
  /\ UNCHANGED <<codes, ledger, event, browser, calls, faults>>
-----------------------------------------------------------------------------
(***************************************************************************)
(* The page.                                                               *)
(***************************************************************************)
Pending(n) == n \in page.open
Free(n) == calls[n].pc = "idle" /\ \A m \in Call : m < n => calls[m].pc # "idle"
Sent(n, m, k, c) == [calls EXCEPT ![n] = [NoCall EXCEPT !.pc = "sent", !.by = m, !.kind = k, !.code = c]]

\* An invalidation while the list is read leaves the reading alone.
RestartedLater(p) == IF p.fetch.pc = "idle" THEN Asked ELSE p.fetch
\* An invalidation gives up a reading that is under way, unless nothing has
\* been read so far.
Restarted(p) == IF p.rows.read \/ p.fetch.pc = "idle" THEN Asked ELSE p.fetch

\* What "claiming" disables: the row of the last claim, and the follow row
\* while a code is redeemed.
Claiming(k) ==
  \/ Pending(page.claim) /\ calls[page.claim].kind = k
  \/ Pending(page.hand) /\ k = "follow_ig"

Offered(k) ==
  /\ page.list /\ page.rows.read /\ ~page.error
  /\ ~page.rows.login /\ k \notin page.rows.claimed /\ ~Claiming(k)

\* The event of the link, which may be lost and counts from the first.
Tracked == {event} \cup (IF event = "none" THEN {"young"} ELSE {})

OpenInstagram ==
  /\ Act /\ Offered("follow_ig")
  /\ page' = [page EXCEPT !.opened = "waiting"]
  /\ event' \in Tracked
  /\ UNCHANGED <<codes, ledger, taken, kind, stored, calls, faults>>

\* The page has counted ten seconds too.
CountDown ==
  /\ page.opened = "waiting" /\ page' = [page EXCEPT !.opened = "ready"]
  /\ UNCHANGED <<codes, ledger, event, taken, kind, stored, calls, acts, faults>>

Claim(n, k) ==
  /\ Free(n) /\ Offered(k) /\ (k = "follow_ig" => page.opened = "ready")
  /\ calls' = Sent(n, Me, k, None)
  /\ page' = [page EXCEPT !.open = @ \cup {n}, !.claim = n, !.told = "nothing"]
  /\ UNCHANGED <<codes, ledger, event, taken, kind, stored, acts, faults>>

RedeemByHand(n, c) ==
  /\ Free(n) /\ Offered("follow_ig")
  /\ calls' = Sent(n, Me, "hand", c)
  /\ page' = [page EXCEPT !.open = @ \cup {n}, !.hand = n, !.told = "nothing"]
  /\ UNCHANGED <<codes, ledger, event, taken, kind, stored, acts, faults>>

\* The code of the link redeems itself, once in the life of a page.
RedeemStored(n) ==
  /\ Free(n) /\ stored # None /\ page.me = "member" /\ ~page.fired
  /\ calls' = Sent(n, Me, "auto", stored)
  /\ page' = [page EXCEPT !.open = @ \cup {n}, !.auto = n, !.fired = TRUE]
  /\ UNCHANGED <<codes, ledger, event, taken, kind, stored, acts, faults>>

\* A code was passed on to another member.
RedeemElsewhere(n, m, c) ==
  /\ Free(n) /\ m # Me /\ codes[c] # "none"
  /\ calls' = Sent(n, m, "other", c)
  /\ UNCHANGED <<codes, ledger, event, taken, browser, acts, faults>>

\* Whether the component that sent a call still waits for it: only then do
\* the callbacks of the press run.
Heeded(n) == n \in {page.claim, page.hand, page.auto}

\* An answer reaches the page.  A grant makes the list out of date; the code
\* of the link goes, however its redemption ended.
Hear(n) ==
  /\ Pending(n) /\ calls[n].pc = "answered"
  /\ calls' = [calls EXCEPT ![n].pc = "heard"]
  /\ page' = [page EXCEPT
       !.open = @ \ {n},
       !.fetch = IF calls[n].answer = "granted" THEN Restarted(page) ELSE @,
       !.told = IF calls[n].answer = "granted" /\ n \in {page.claim, page.hand}
                THEN Reward(calls[n].kind) ELSE @]
  /\ stored' = IF Heeded(n) /\ calls[n].kind \in {"auto", "hand"} THEN None ELSE stored
  /\ UNCHANGED <<codes, ledger, event, taken, kind, acts, faults>>

\* The request is lost, or its answer.
Lose(n) ==
  /\ Fault /\ Pending(n) /\ calls[n].pc \in {"sent", "answered"} /\ calls[n].answer # "lost"
  /\ calls' = Answered(n, "lost")
  /\ UNCHANGED <<codes, ledger, event, taken, browser, acts>>

RowsNow == [read |-> TRUE, login |-> kind = "guest",
            claimed |-> {k \in {"daily", "follow_ig"} : <<Me, k>> \in paid}]

ReadCredits ==
  /\ page.fetch.pc = "asked"
  /\ page' = [page EXCEPT !.fetch = [pc |-> "read", rows |-> RowsNow]]
  /\ UNCHANGED <<codes, ledger, event, taken, kind, stored, calls, acts, faults>>

\* The list is shown as it was read, and counts as fresh.
ShowCredits ==
  /\ page.fetch.pc = "read"
  /\ page' = [page EXCEPT !.rows = page.fetch.rows, !.fetch = NoFetch, !.error = FALSE]
  /\ UNCHANGED <<codes, ledger, event, taken, kind, stored, calls, acts, faults>>

CreditsFail ==
  /\ Fault /\ page.fetch.pc # "idle"
  /\ page' = [page EXCEPT !.fetch = NoFetch, !.error = TRUE]
  /\ UNCHANGED <<codes, ledger, event, taken, kind, stored, calls, acts>>

\* The list is read again: it has aged, or "try again" is pressed.
Refresh ==
  /\ Act /\ page.fetch.pc = "idle"
  /\ page' = [page EXCEPT !.fetch = Asked, !.error = @ /\ page.rows.read]
  /\ UNCHANGED <<codes, ledger, event, taken, kind, stored, calls, faults>>

MeArrives ==
  /\ page.me # kind /\ page' = [page EXCEPT !.me = kind]
  /\ UNCHANGED <<codes, ledger, event, taken, kind, stored, calls, acts, faults>>

\* A login makes everything out of date.
Login ==
  /\ kind = "guest" /\ kind' = "member"
  /\ page' = [page EXCEPT !.fetch = Restarted(page)]
  /\ UNCHANGED <<codes, ledger, event, taken, stored, calls, acts, faults>>

\* The list comes and goes with its screen or overlay.
ShowList ==
  /\ ~page.list /\ page' = [page EXCEPT !.list = TRUE]
  /\ UNCHANGED <<codes, ledger, event, taken, kind, stored, calls, acts, faults>>

LeaveList ==
  /\ Act /\ page.list
  /\ page' = [page EXCEPT !.list = FALSE, !.claim = 0, !.hand = 0, !.told = "nothing", !.opened = "no"]
  /\ UNCHANGED <<codes, ledger, event, taken, kind, stored, calls, faults>>

\* The site is loaded, by the link of a message or without a code.
Visit(c) ==
  /\ Act /\ page' = Loaded
  /\ \/ c = None /\ UNCHANGED stored
     \/ c # None /\ codes[c] # "none" /\ stored' = c
  /\ UNCHANGED <<codes, ledger, event, taken, kind, calls, faults>>

Next ==
  \/ \E c \in Code : IssueCode(c) \/ Age(c)
  \/ \E n \in Call : ServeClaim(n) \/ LookUp(n) \/ LockSiblings(n) \/ Judge(n) \/ Hear(n) \/ Lose(n)
  \/ \E n \in Call : RedeemStored(n) \/ \E k \in {"daily", "follow_ig"} : Claim(n, k)
  \/ \E n \in Call, c \in Code : RedeemByHand(n, c) \/ \E m \in Member : RedeemElsewhere(n, m, c)
  \/ \E c \in Code \cup {None} : Visit(c)
  \/ Ripen \/ Fade \/ TakeName \/ OpenInstagram \/ CountDown
  \/ ReadCredits \/ ShowCredits \/ CreditsFail \/ Refresh
  \/ MeArrives \/ Login \/ ShowList \/ LeaveList

Spec == Init /\ [][Next]_vars

\* The API answers, and what it answered arrives.
Fairness ==
  /\ \A n \in Call : /\ WF_vars(ServeClaim(n)) /\ WF_vars(LookUp(n)) /\ WF_vars(Judge(n))
                     /\ WF_vars(LockSiblings(n)) /\ WF_vars(Hear(n))
  /\ WF_vars(ReadCredits) /\ WF_vars(ShowCredits) /\ WF_vars(MeArrives)

FairSpec == Spec /\ Fairness
-----------------------------------------------------------------------------
\* Types, and every call the page waits for is its own.
TypeOK ==
  /\ codes \in [Code -> {"none", "live", "old"}] /\ redeemer \in [Code -> Member \cup {None}]
  /\ paid \subseteq Member \X {"daily", "follow_ig"}
  /\ event \in {"none", "young", "ripe"} /\ taken \in BOOLEAN
  /\ kind \in {"guest", "member"} /\ stored \in Code \cup {None}
  /\ \A n \in Call :
       /\ calls[n].pc \in {"idle", "sent", "looked", "locked", "answered", "heard"}
       /\ calls[n].rows \subseteq Code /\ calls[n].seen \subseteq Member
  /\ page.rows.claimed \subseteq {"daily", "follow_ig"} /\ page.opened \in {"no", "waiting", "ready"}
  /\ page.told \in {"nothing", "daily", "follow_ig"} /\ (page.told # "nothing" => page.list)
  /\ page.open \subseteq {n \in Call : calls[n].by = Me /\ calls[n].pc \notin {"idle", "heard"}}
  /\ acts \in 0 .. MaxAct /\ faults \in 0 .. MaxFault

\* The codes of one Instagram account pay one member, whatever codes it was
\* sent and whoever enters them at once.
CodePaysOne ==
  \A c, d \in Code : (AccountOf[c] = AccountOf[d] /\ None \notin {redeemer[c], redeemer[d]})
                       => redeemer[c] = redeemer[d]

\* A grant the list was told of is shown as claimed in the end, or the list
\* says that it cannot be read: no answer read before the grant stays on show.
HeardIsShown ==
  \A n \in Call : (calls[n].pc = "heard" /\ calls[n].answer = "granted" /\ calls[n].kind # "auto")
                    ~> (Reward(calls[n].kind) \in page.rows.claimed \/ page.error)

\* Refuted by a redemption that is lost: the code of a link is forgotten only
\* when its redemption was answered.
CodeIsAnswered ==
  [][(stored # None /\ stored' = None) =>
       \E n \in Call : calls[n].code = stored /\ calls[n].answer \notin {"none", "lost"}]_vars
=============================================================================
