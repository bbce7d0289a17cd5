------------------------------ MODULE Session ------------------------------
(***************************************************************************)
(* The session of the web client and the part of the API that grants it.   *)
(*                                                                         *)
(* The tabs of a browser share one stored session and keep everything else *)
(* to themselves: the boot gate, the rotation and the reissue that are in  *)
(* flight, the notices on the screen.  A request is sent, served and       *)
(* answered in three steps, so anything may happen in between: the access  *)
(* token expires, another device logs in or out, the tab is reloaded, the  *)
(* answer is lost.  What JavaScript runs without an await is one step.     *)
(***************************************************************************)
EXTENDS Naturals, Sequences

CONSTANTS Tab,        \* tabs of one browser
          Task,       \* what the user may have under way in a tab at once
          Ops,        \* what the user does, from Op
          MaxAct,     \* bound: acts of the user, of other devices and of the clock
          MaxFault    \* bound: lost answers and refusals with 429

Op == {"query", "login", "callback", "logout", "withdraw", "retry", "reload", "arrive"}

ASSUME SessionAssumption ==
  /\ Ops \subseteq Op
  /\ MaxAct \in Nat /\ MaxFault \in Nat
  /\ Task \cap {"boot", "recover", "rotate", "reissue"} = {}

VARIABLES rows,      \* Seq: the API's member rows [kind, ver, refresh]; refresh
                     \* is the token the row still renews for, 0 when it has
                     \* none or its time is past
          account,   \* the row that owns the user's e-mail, 0 when none does
          grants,    \* Seq: the sessions granted [row, kind, ver]; a grant's
                     \* number stands for its access and its refresh token
          expired,   \* grants whose access token is past its time
          code,      \* the row and version of a hand-off code, row 0 when spent
          store,     \* localStorage: [token, kind, refresh]
          frame,     \* frame[t][f]: a call of tab t and where it stands
          open,      \* tabs whose boot gate is open
          lost,      \* tabs told that the member session is gone
          limited,   \* tabs that say that no guest is to be had
          throttled, \* tabs that say that the session cannot be renewed
          denial,    \* tabs whose withdrawal dialog says that it failed
          acts, faults,
          excused    \* refresh tokens whose rejection the client did not cause

server == <<rows, account, grants, expired, code>>
screen == <<open, lost, limited, throttled, denial>>
vars == <<server, store, frame, screen, acts, faults, excused>>

Frame == Task \cup {"boot", "recover", "rotate", "reissue"}
Call == {"none", "ensure", "query", "login", "callback", "logout", "withdraw", "refresh",
         "issue", "handoff"}

Empty == [token |-> 0, kind |-> "none", refresh |-> 0]
GuestStore(n) == [token |-> n, kind |-> "guest", refresh |-> 0]
MemberStore(n) == [token |-> n, kind |-> "member", refresh |-> n]

\* A session set without a refresh token keeps the one stored before.
GuestStoreKeeping(n) == [token |-> n, kind |-> "guest", refresh |-> store.refresh]
GuestSession(n) == GuestStore(n)

New(task, call, pc) ==
  [task |-> task, call |-> call, pc |-> pc, token |-> 0, kind |-> "none",
   refresh |-> 0, retried |-> FALSE, answer |-> "none", got |-> 0]
Idle == New("none", "none", "idle")

\* A guest issue that waits for the gate it is to open.
IssueGated(task) == New(task, "issue", "ready")
\* POST /auth/guest skips the gate.
Issue(task) == New(task, "issue", "sent")

Booting(t, c) ==
  [f \in Frame |->
     IF f # "boot" THEN Idle
     ELSE IF c /\ store.kind # "member" THEN New("boot", "handoff", "sent")
     ELSE New("boot", "ensure", "ready")]

\* A first visit, a guest who comes back, and a member who does.
Init ==
  /\ account = 1
  /\ \/ grants = <<>> /\ store = Empty
     \/ grants = <<[row |-> 1, kind |-> "member", ver |-> 0]>> /\ store = MemberStore(1)
     \/ grants = <<[row |-> 2, kind |-> "guest", ver |-> 0]>> /\ store = GuestStore(1)
  /\ rows = <<[kind |-> "member", ver |-> 0, refresh |-> store.refresh],
              [kind |-> "guest", ver |-> 0, refresh |-> 0]>>
  /\ expired = {}
  /\ code = [row |-> 0, ver |-> 0]
  /\ frame = [t \in Tab |-> Booting(t, FALSE)]
  /\ open = {} /\ lost = {} /\ limited = {} /\ throttled = {} /\ denial = {}
  /\ acts = 0 /\ faults = 0 /\ excused = {}
-----------------------------------------------------------------------------
(***************************************************************************)
(* The API.                                                                *)
(***************************************************************************)
Granted == Len(grants) + 1

\* get_current_member: the clock is looked at before the row.
Check(n) ==
  CASE n = 0 -> "unauthorized"
    [] n # 0 /\ n \in expired -> "expired"
    [] n # 0 /\ n \notin expired ->
         LET g == grants[n]
         IN IF rows[g.row].kind = g.kind /\ rows[g.row].ver = g.ver
            THEN "ok" ELSE "unauthorized"

Reply(t, f, answer, n) ==
  frame' = [frame EXCEPT ![t][f].pc = "back", ![t][f].answer = answer, ![t][f].got = n]

Sent(t, f, call) == frame[t][f].pc = "sent" /\ frame[t][f].call = call

ClientIdle == UNCHANGED <<store, screen, acts>>

\* Any read, and any answer that leaves the rows as they are.
ServeQuery(t, f) ==
  /\ frame[t][f].pc = "sent" /\ frame[t][f].call \in {"query", "login", "logout", "withdraw"}
  /\ LET v == Check(frame[t][f].token)
     IN \/ frame[t][f].call = "query" /\ Reply(t, f, v, 0)
        \/ v # "ok" /\ Reply(t, f, v, 0)
        \* a wrong password, or a member's or a guest's call of the other kind
        \/ v = "ok" /\ frame[t][f].call = "login" /\ Reply(t, f, "refused", 0)
        \/ /\ v = "ok" /\ frame[t][f].call = "withdraw"
           /\ grants[frame[t][f].token].kind = "guest" /\ Reply(t, f, "refused", 0)
        \/ /\ v = "ok" /\ frame[t][f].call = "logout"
           /\ grants[frame[t][f].token].kind = "guest" /\ Reply(t, f, "ok", 0)
  /\ UNCHANGED <<server, faults, excused>> /\ ClientIdle

\* A login that finds the account merges the guest into it; one that finds
\* none makes the guest the account.  Either way the account has one refresh
\* token, the new one.
ServeLogin(t, f) ==
  /\ \/ Sent(t, f, "login") /\ Check(frame[t][f].token) = "ok"
     \/ Sent(t, f, "callback") /\ frame[t][f].token # 0
        /\ rows[grants[frame[t][f].token].row].kind = "guest"
  /\ grants[frame[t][f].token].kind = "guest"
  /\ LET guest == grants[frame[t][f].token].row
         target == IF account = 0 THEN guest ELSE account
     IN /\ rows' = [i \in DOMAIN rows |->
                      IF i = target THEN [rows[i] EXCEPT !.kind = "member", !.refresh = Granted]
                      ELSE IF i = guest THEN [rows[i] EXCEPT !.kind = "gone"] ELSE rows[i]]
        /\ account' = target
        /\ excused' = excused \cup {rows[target].refresh}
        /\ grants' = Append(grants, [row |-> target, kind |-> "member", ver |-> rows[target].ver])
  /\ Reply(t, f, "ok", Granted)
  /\ UNCHANGED <<expired, code, faults>> /\ ClientIdle

\* The state of a social login is spent, too old, or of a guest no more.
ServeCallback(t, f) ==
  /\ Sent(t, f, "callback") /\ Reply(t, f, "unauthorized", 0)
  /\ UNCHANGED <<server, faults, excused>> /\ ClientIdle

ServeLogout(t, f) ==
  /\ Sent(t, f, "logout") /\ Check(frame[t][f].token) = "ok"
  /\ LET g == grants[frame[t][f].token]
     IN /\ g.kind = "member"
        /\ rows' = [rows EXCEPT ![g.row].ver = @ + 1, ![g.row].refresh = 0]
        /\ excused' = excused \cup {rows[g.row].refresh}
  /\ Reply(t, f, "ok", 0)
  /\ UNCHANGED <<account, grants, expired, code, faults>> /\ ClientIdle

ServeWithdraw(t, f) ==
  /\ Sent(t, f, "withdraw") /\ Check(frame[t][f].token) = "ok"
  /\ LET g == grants[frame[t][f].token]
     IN /\ g.kind = "member"
        /\ rows' = [rows EXCEPT ![g.row].kind = "gone", ![g.row].ver = @ + 1, ![g.row].refresh = 0]
        /\ account' = 0
        /\ excused' = excused \cup {rows[g.row].refresh}
  /\ Reply(t, f, "ok", 0)
  /\ UNCHANGED <<grants, expired, code, faults>> /\ ClientIdle

\* The member whose hash it is and whose refresh_expires_at is to come.
Holder(r) == {i \in DOMAIN rows : rows[i].kind = "member" /\ rows[i].refresh = r /\ r # 0}

ServeRefresh(t, f) ==
  /\ Sent(t, f, "refresh")
  /\ \/ /\ Holder(frame[t][f].refresh) = {}
        /\ Reply(t, f, "unauthorized", 0)
        /\ UNCHANGED <<rows, grants>>
     \/ /\ \E i \in Holder(frame[t][f].refresh) :
             /\ rows' = [rows EXCEPT ![i].refresh = Granted]
             /\ grants' = Append(grants, [row |-> i, kind |-> "member", ver |-> rows[i].ver])
        /\ Reply(t, f, "ok", Granted)
  /\ UNCHANGED <<account, expired, code, faults, excused>> /\ ClientIdle

ServeIssue(t, f) ==
  /\ Sent(t, f, "issue")
  /\ rows' = Append(rows, [kind |-> "guest", ver |-> 0, refresh |-> 0])
  /\ grants' = Append(grants, [row |-> Len(rows) + 1, kind |-> "guest", ver |-> 0])
  /\ Reply(t, f, "ok", Granted)
  /\ UNCHANGED <<account, expired, code, faults, excused>> /\ ClientIdle

\* A code is good once, and only while its member's version stands; the
\* session it gives has no refresh token.
Redeemable ==
  code.row # 0 /\ rows[code.row].kind = "member" /\ rows[code.row].ver = code.ver

ServeHandoff(t, f) ==
  /\ Sent(t, f, "handoff")
  /\ \/ /\ Redeemable
        /\ grants' = Append(grants, [row |-> code.row, kind |-> "member", ver |-> code.ver])
        /\ Reply(t, f, "ok", Granted)
     \/ /\ ~Redeemable
        /\ grants' = grants
        /\ Reply(t, f, "unauthorized", 0)
  /\ code' = [row |-> 0, ver |-> 0]
  /\ UNCHANGED <<rows, account, expired, faults, excused>> /\ ClientIdle

\* The rate limits of the guest issue, the renewal and the login.
Limit(t, f) ==
  /\ faults < MaxFault /\ faults' = faults + 1
  /\ frame[t][f].pc = "sent" /\ frame[t][f].call \in {"issue", "refresh", "login"}
  /\ Reply(t, f, "limited", 0)
  /\ UNCHANGED <<server, excused>> /\ ClientIdle

\* The request or its answer is lost, which for a renewal spends the token.
Lose(t, f) ==
  /\ faults < MaxFault /\ faults' = faults + 1
  /\ frame[t][f].pc \in {"sent", "back"} /\ frame[t][f].answer # "network"
  /\ Reply(t, f, "network", 0)
  /\ excused' = IF f = "rotate" THEN excused \cup {frame[t][f].refresh} ELSE excused
  /\ UNCHANGED server /\ ClientIdle

Act == acts < MaxAct /\ acts' = acts + 1

Expire ==
  /\ Act
  /\ \E n \in DOMAIN grants \ expired : expired' = expired \cup {n}
  /\ UNCHANGED <<rows, account, grants, code, store, frame, screen, faults, excused>>

\* refresh_expires_at passes: the row's token is rejected from now on, however
\* well it is kept.  It outlives the access token it came with.
AgeRefresh ==
  /\ Act
  /\ \E i \in DOMAIN rows :
       /\ rows[i].refresh \in expired
       /\ rows' = [rows EXCEPT ![i].refresh = 0]
       /\ excused' = excused \cup {rows[i].refresh}
  /\ UNCHANGED <<account, grants, expired, code, store, frame, screen, faults>>

\* Another device logs in, logs out of all devices, or sends the browser a link.
LoginElsewhere ==
  /\ Act /\ account # 0
  /\ rows' = [rows EXCEPT ![account].refresh = Granted]
  /\ grants' = Append(grants, [row |-> account, kind |-> "member", ver |-> rows[account].ver])
  /\ excused' = excused \cup {rows[account].refresh}
  /\ UNCHANGED <<account, expired, code, store, frame, screen, faults>>

LogoutElsewhere ==
  /\ Act /\ account # 0
  /\ rows' = [rows EXCEPT ![account].ver = @ + 1, ![account].refresh = 0]
  /\ excused' = excused \cup {rows[account].refresh}
  /\ UNCHANGED <<account, grants, expired, code, store, frame, screen, faults>>

SendLink ==
  /\ "arrive" \in Ops /\ Act /\ account # 0
  /\ code' = [row |-> account, ver |-> rows[account].ver]
  /\ UNCHANGED <<rows, account, grants, expired, store, frame, screen, faults, excused>>
-----------------------------------------------------------------------------
(***************************************************************************)
(* The client: what a tab does at the start of a call.                     *)
(***************************************************************************)
ServerIdle == UNCHANGED <<server, faults>>

\* The user acts: the account menu offers what fits the stored kind, one
\* thing at a time, since its buttons are disabled while it works.
Account == {"login", "callback", "logout", "withdraw"}
Begin(t, f, op) ==
  /\ op \in Account => \A g \in Task : frame[t][g].task \notin Account
  /\ Act /\ f \in Task /\ frame[t][f] = Idle /\ op \in Ops \cap {"query", "login", "callback", "logout", "withdraw"}
  /\ op \in {"login", "callback"} => store.kind # "member"
  /\ op \in {"logout", "withdraw"} => store.kind = "member"
  /\ frame' = [frame EXCEPT ![t][f] = New(op, op, "ready")]
  /\ denial' = IF op = "withdraw" THEN denial \ {t} ELSE denial
  /\ UNCHANGED <<store, open, lost, limited, throttled, excused>> /\ ServerIdle

\* A call passes the gate and notes the session it is sent with.
Send(t, f) ==
  /\ frame[t][f].pc = "ready" /\ frame[t][f].call # "ensure" /\ t \in open
  /\ frame' = [frame EXCEPT ![t][f].pc = "sent", ![t][f].token = store.token,
                            ![t][f].kind = store.kind, ![t][f].refresh = store.refresh]
  /\ UNCHANGED <<store, screen, acts, excused>> /\ ServerIdle

\* clearSessionStatus
Quiet(t) ==
  /\ lost' = lost \ {t} /\ limited' = limited \ {t} /\ throttled' = throttled \ {t}

\* ensureSession, at boot and after a loss: nothing to do with a token stored.
Ensure(t, f) ==
  /\ frame[t][f].pc = "ready" /\ frame[t][f].call = "ensure"
  /\ \/ /\ store.token = 0
        /\ frame' = [frame EXCEPT ![t][f] = Issue(frame[t][f].task)]
        /\ UNCHANGED <<open, lost, limited, throttled>>
     \/ /\ store.token # 0
        /\ frame' = [frame EXCEPT ![t][f] = Idle]
        /\ \/ f = "boot" /\ open' = open \cup {t} /\ UNCHANGED <<lost, limited, throttled>>
           \/ f = "recover" /\ t \in lost /\ Quiet(t) /\ UNCHANGED open
           \/ f = "recover" /\ t \notin lost /\ UNCHANGED <<open, lost, limited, throttled>>
  /\ UNCHANGED <<store, denial, acts, excused>> /\ ServerIdle

\* The notice's button, for a guest that could not be had and for a session
\* that could not be renewed.
RetryGuest(t, f) ==
  /\ "retry" \in Ops /\ Act /\ f \in Task /\ frame[t][f] = Idle /\ t \in limited
  /\ store' = Empty
  /\ frame' = [frame EXCEPT ![t][f] = Issue("retry")]
  /\ UNCHANGED <<screen, excused>> /\ ServerIdle

RetryRotation(t, f) ==
  /\ "retry" \in Ops /\ Act /\ f \in Task /\ frame[t][f] = Idle
  /\ t \in throttled /\ t \notin limited /\ store.refresh # 0
  /\ frame' = [frame EXCEPT ![t][f] = New("retry", "none", "rotating"),
                            ![t]["rotate"] = IF @ # Idle THEN @
                               ELSE [New("rotate", "refresh", "sent") EXCEPT !.refresh = store.refresh]]
  /\ UNCHANGED <<store, screen, excused>> /\ ServerIdle

\* The page is loaded again, or opened by a link with a code: what was in
\* flight is forgotten, and so is a renewal's answer.
Reload(t) ==
  /\ Act
  /\ \/ "reload" \in Ops /\ frame' = [frame EXCEPT ![t] = Booting(t, FALSE)]
     \/ "arrive" \in Ops /\ code.row # 0 /\ frame' = [frame EXCEPT ![t] = Booting(t, TRUE)]
  /\ excused' = excused \cup {frame[t]["rotate"].refresh}
  /\ open' = open \ {t} /\ lost' = lost \ {t} /\ limited' = limited \ {t}
  /\ throttled' = throttled \ {t} /\ denial' = denial \ {t}
  /\ UNCHANGED store /\ ServerIdle
-----------------------------------------------------------------------------
(***************************************************************************)
(* The client: what a tab does with an answer.                             *)
(***************************************************************************)
Back(t, f, call) == frame[t][f].pc = "back" /\ frame[t][f].call = call

\* auth.logout stores nothing any more whether it succeeds or not, and useLogout
\* goes on to a guest; any other call just ends.
Failed(r) == IF r.task = "logout" THEN Issue("logout") ELSE Idle
Cleared(rs, s) == IF \E r \in rs : r.task = "logout" THEN Empty ELSE s
Denials(t, rs) == IF \E r \in rs : r.task = "withdraw" THEN denial \cup {t} ELSE denial

\* The calls that wait for the renewal or the reissue of their tab.
Waiting(t, pc) == {frame[t][f] : f \in {g \in Frame : frame[t][g].pc = pc}}
Again(r) == IF r.task = "retry" THEN Idle ELSE [r EXCEPT !.pc = "ready", !.retried = TRUE]
Resumed(t, pc) == [f \in Frame |-> IF frame[t][f].pc = pc THEN Again(frame[t][f]) ELSE frame[t][f]]
GivenUp(t, pc) == [f \in Frame |-> IF frame[t][f].pc = pc THEN Failed(frame[t][f]) ELSE frame[t][f]]

\* Nobody listens for the loss.
RecoveringNever(t, fs) == fs
\* SESSION_LOST wakes SessionRecovery once.
Recovering(t, fs) ==
  IF t \notin lost /\ fs["recover"] = Idle
  THEN [fs EXCEPT !["recover"] = New("recover", "ensure", "ready")] ELSE fs

UserCall == {"query", "login", "callback", "logout", "withdraw"}

\* The store is compared with nothing: any late 401 is about the session of now.
CurrentAlways(r) == TRUE
Current(r) == store.token = r.token

Succeed(t, f) ==
  LET r == frame[t][f]
  IN /\ r.pc = "back" /\ r.answer = "ok" /\ r.call \in UserCall
     /\ \/ /\ r.call = "query"
           /\ frame' = [frame EXCEPT ![t][f] = Idle] /\ UNCHANGED store
        \/ /\ r.call \in {"login", "callback"}
           /\ store' = MemberStore(r.got)
           /\ frame' = [frame EXCEPT ![t][f] = Idle]
        \/ /\ r.call \in {"logout", "withdraw"}
           /\ store' = Empty
           /\ frame' = [frame EXCEPT ![t][f] = Issue(r.call)]
     /\ UNCHANGED <<screen, acts, excused>> /\ ServerIdle

\* A guest's 401, unless the call was tried twice or is about another session.
Renewable(r) ==
  /\ ~r.retried /\ r.kind = "guest" /\ r.answer \in {"expired", "unauthorized"}
  /\ r.call # "callback" /\ Current(r)

Reissue(t, f) ==
  LET r == frame[t][f]
  IN /\ r.pc = "back" /\ r.call \in UserCall /\ Renewable(r)
     /\ \/ /\ frame[t]["reissue"] = Idle
           /\ store' = Empty
           /\ frame' = [frame EXCEPT ![t]["reissue"] = Issue("reissue"), ![t][f].pc = "reissuing"]
        \/ /\ frame[t]["reissue"] # Idle
           /\ store' = store
           /\ frame' = [frame EXCEPT ![t][f].pc = "reissuing"]
     /\ UNCHANGED <<screen, acts, excused>> /\ ServerIdle

\* A member's expired access token.
Rotatable(r) ==
  /\ ~r.retried /\ r.kind = "member" /\ r.answer = "expired" /\ r.refresh # 0

\* Spends the token of the call without a look at the store.
StoredElseAlways(r) == FALSE
\* Another call renewed the session since this one was sent.
StoredElse(r) == store.refresh # r.refresh

Rotate(t, f) ==
  LET r == frame[t][f]
  IN /\ r.pc = "back" /\ r.call \in UserCall /\ Rotatable(r)
     /\ \/ StoredElse(r) /\ frame' = [frame EXCEPT ![t][f] = Again(r)]
        \/ /\ ~StoredElse(r)
           /\ frame' = [frame EXCEPT ![t][f].pc = "rotating",
                          ![t]["rotate"] = IF @ # Idle THEN @
                            ELSE [New("rotate", "refresh", "sent") EXCEPT !.refresh = r.refresh]]
     /\ UNCHANGED <<store, screen, acts, excused>> /\ ServerIdle

\* The session the call was sent with can do nothing any more.
Hopeless(r) ==
  /\ r.token # 0 /\ r.call # "callback"
  /\ \/ r.answer = "unauthorized"
     \/ r.answer = "expired" /\ r.kind = "member" /\ ~r.retried /\ r.refresh = 0

Drop(t, f) ==
  LET r == frame[t][f]
      fs == [frame[t] EXCEPT ![f] = Failed(r)]
  IN /\ r.pc = "back" /\ r.call \in UserCall /\ r.kind = "member" /\ Hopeless(r) /\ Current(r)
     /\ store' = Empty
     /\ frame' = [frame EXCEPT ![t] = Recovering(t, fs)]
     /\ lost' = lost \cup {t}
     /\ denial' = Denials(t, {r})
     /\ UNCHANGED <<open, limited, throttled, acts, excused>> /\ ServerIdle

Fail(t, f) ==
  LET r == frame[t][f]
      \* a guest refused twice: its token is not kept
      dead == r.kind = "guest" /\ Hopeless(r) /\ Current(r)
  IN /\ r.pc = "back" /\ r.call \in UserCall /\ r.answer # "ok"
     /\ ~Renewable(r) /\ ~Rotatable(r) /\ ~(r.kind = "member" /\ Hopeless(r) /\ Current(r))
     /\ store' = Cleared({r}, IF dead THEN Empty ELSE store)
     /\ frame' = [frame EXCEPT ![t][f] = Failed(r)]
     /\ denial' = Denials(t, {r})
     /\ UNCHANGED <<open, lost, limited, throttled, acts, excused>> /\ ServerIdle

\* The renewal: stored for whoever waits, whatever is stored by now; a
\* rejected one ends the session if it is still the stored one.
Rotated(t) ==
  LET r == frame[t]["rotate"]
      retrying == \E w \in Waiting(t, "rotating") : w.task = "retry"
  IN /\ r.pc = "back" /\ r.answer = "ok"
     /\ store' = MemberStore(r.got)
     /\ frame' = [frame EXCEPT ![t] = [Resumed(t, "rotating") EXCEPT !["rotate"] = Idle]]
     /\ throttled' = throttled \ {t}
     /\ lost' = IF retrying THEN lost \ {t} ELSE lost
     /\ limited' = IF retrying THEN limited \ {t} ELSE limited
     /\ UNCHANGED <<open, denial, acts, excused>> /\ ServerIdle

NotRotated(t) ==
  LET r == frame[t]["rotate"]
      rejected == r.answer = "unauthorized" /\ store.refresh = r.refresh
      fs == [GivenUp(t, "rotating") EXCEPT !["rotate"] = Idle]
  IN /\ r.pc = "back" /\ r.answer # "ok"
     /\ store' = Cleared(Waiting(t, "rotating"), IF rejected THEN Empty ELSE store)
     /\ frame' = [frame EXCEPT ![t] = IF rejected THEN Recovering(t, fs) ELSE fs]
     /\ lost' = IF rejected THEN lost \cup {t} ELSE lost
     /\ throttled' = IF r.answer = "limited" THEN throttled \cup {t} ELSE throttled
     /\ denial' = Denials(t, Waiting(t, "rotating"))
     /\ UNCHANGED <<open, limited, acts, excused>> /\ ServerIdle

Reissued(t) ==
  LET r == frame[t]["reissue"]
  IN /\ r.pc = "back" /\ r.answer = "ok"
     /\ store' = GuestSession(r.got)
     /\ frame' = [frame EXCEPT ![t] = [Resumed(t, "reissuing") EXCEPT !["reissue"] = Idle]]
     /\ UNCHANGED <<screen, acts, excused>> /\ ServerIdle

NotReissued(t) ==
  LET r == frame[t]["reissue"]
  IN /\ r.pc = "back" /\ r.answer # "ok"
     /\ store' = Cleared(Waiting(t, "reissuing"), store)
     /\ frame' = [frame EXCEPT ![t] = [GivenUp(t, "reissuing") EXCEPT !["reissue"] = Idle]]
     /\ limited' = IF r.answer = "limited" THEN limited \cup {t} ELSE limited
     /\ denial' = Denials(t, Waiting(t, "reissuing"))
     /\ UNCHANGED <<open, lost, throttled, acts, excused>> /\ ServerIdle

\* ensureSession's guest arrives: at boot, after a loss, a logout, a
\* withdrawal, or on the notice's button.  It replaces whatever is stored.
GuestArrives(t, f) ==
  LET r == frame[t][f]
  IN /\ f # "reissue" /\ Back(t, f, "issue") /\ r.answer = "ok"
     /\ store' = GuestSession(r.got)
     /\ frame' = [frame EXCEPT ![t][f] = Idle]
     /\ open' = IF r.task = "boot" THEN open \cup {t} ELSE open
     /\ \/ r.task \in {"logout", "withdraw", "retry"} /\ Quiet(t)
        \/ r.task = "recover" /\ t \in lost /\ Quiet(t)
        \/ /\ r.task = "boot" \/ (r.task = "recover" /\ t \notin lost)
           /\ UNCHANGED <<lost, limited, throttled>>
     /\ UNCHANGED <<denial, acts, excused>> /\ ServerIdle

\* ... or does not: useLogout clears the notices all the same, and
\* useWithdraw ends as a withdrawal that failed.
NoGuest(t, f) ==
  LET r == frame[t][f]
  IN /\ f # "reissue" /\ Back(t, f, "issue") /\ r.answer # "ok"
     /\ frame' = [frame EXCEPT ![t][f] = Idle]
     /\ open' = IF r.task = "boot" THEN open \cup {t} ELSE open
     /\ \/ r.task = "logout" /\ Quiet(t)
        \/ /\ r.task # "logout" /\ UNCHANGED <<lost, throttled>>
           /\ limited' = IF r.answer = "limited" THEN limited \cup {t} ELSE limited
     /\ denial' = Denials(t, {r})
     /\ UNCHANGED <<store, acts, excused>> /\ ServerIdle

\* The code's session, before the gate opens; without one the tab goes on.
Redeemed(t) ==
  LET r == frame[t]["boot"]
  IN /\ Back(t, "boot", "handoff")
     /\ store' = IF r.answer = "ok" THEN [MemberStore(r.got) EXCEPT !.refresh = 0] ELSE store
     /\ frame' = [frame EXCEPT ![t]["boot"] = New("boot", "ensure", "ready")]
     /\ UNCHANGED <<screen, acts, excused>> /\ ServerIdle

Serve(t, f) ==
  \/ ServeQuery(t, f) \/ ServeLogin(t, f) \/ ServeCallback(t, f) \/ ServeLogout(t, f)
  \/ ServeWithdraw(t, f) \/ ServeRefresh(t, f) \/ ServeIssue(t, f) \/ ServeHandoff(t, f)

Receive(t, f) ==
  \/ Succeed(t, f) \/ Reissue(t, f) \/ Rotate(t, f) \/ Drop(t, f) \/ Fail(t, f)
  \/ GuestArrives(t, f) \/ NoGuest(t, f)

Boot(t) == Redeemed(t) \/ \E f \in Frame : Ensure(t, f)
Settle(t) == Rotated(t) \/ NotRotated(t) \/ Reissued(t) \/ NotReissued(t)

Next ==
  \/ \E t \in Tab, f \in Frame :
       \/ \E op \in Op : Begin(t, f, op)
       \/ RetryGuest(t, f) \/ RetryRotation(t, f)
       \/ Send(t, f) \/ Serve(t, f) \/ Receive(t, f)
       \/ Limit(t, f) \/ Lose(t, f)
  \/ \E t \in Tab : Boot(t) \/ Settle(t) \/ Reload(t)
  \/ Expire \/ AgeRefresh \/ LoginElsewhere \/ LogoutElsewhere \/ SendLink

Spec == Init /\ [][Next]_vars

\* The API answers what it gets and the page handles what it is answered; the
\* user, the clock, the other devices and the faults need not act at all.
Fairness ==
  \A t \in Tab :
    /\ WF_vars(Boot(t)) /\ WF_vars(Settle(t))
    /\ \A f \in Frame : WF_vars(Send(t, f)) /\ WF_vars(Serve(t, f)) /\ WF_vars(Receive(t, f))

FairSpec == Spec /\ Fairness
-----------------------------------------------------------------------------
FrameOK(r) ==
  /\ r.task \in UserCall \cup {"none", "boot", "recover", "rotate", "reissue", "retry"}
  /\ r.call \in Call
  /\ r.pc \in {"idle", "ready", "sent", "back", "rotating", "reissuing"}
  /\ r.token \in Nat /\ r.refresh \in Nat /\ r.got \in Nat /\ r.retried \in BOOLEAN

\* Types, and what goes with them: only a member's session has a refresh
\* token, and an open gate never closes by itself.
TypeOK ==
  /\ account \in 0 .. Len(rows) /\ code.row \in 0 .. Len(rows)
  /\ store.token \in 0 .. Len(grants)
  /\ store.kind \in {"none", "guest", "member"}
  /\ store.refresh # 0 => store.kind = "member"
  /\ \A t \in Tab, f \in Frame : FrameOK(frame[t][f])
  /\ open \subseteq Tab /\ lost \subseteq Tab /\ limited \subseteq Tab /\ throttled \subseteq Tab
  /\ acts \in 0 .. MaxAct /\ faults \in 0 .. MaxFault

\* The API still renews a stored session; one without a refresh token it still takes.
Alive(s) ==
  /\ s.token # 0
  /\ LET g == grants[s.token]
     IN /\ rows[g.row].kind = s.kind
        /\ \/ s.refresh # 0 /\ rows[g.row].refresh = s.refresh
           \/ s.refresh = 0 /\ s.token \notin expired /\ rows[g.row].ver = g.ver

\* A member is not signed out by an answer that comes late, by a refusal of a
\* session that was replaced, by a lost renewal or by a link, in any tab: a session
\* that the API still renews is given up when the user logs out, withdraws or
\* starts afresh, or for a guest who was asked for earlier.
LiveMemberKept ==
  [][ (store.kind = "member" /\ Alive(store) /\ store'.kind # "member")
      => \/ store'.kind = "guest"
         \/ \E t \in Tab, f \in Task :
              /\ frame'[t][f] # frame[t][f]
              /\ frame[t][f].task \in {"logout", "withdraw"} \/ frame'[t][f].task = "retry" ]_vars

\* A renewal is rejected only for a reason outside the tab: the refresh token is
\* past its time, its earlier answer was lost, or the account was logged in, out
\* or withdrawn meanwhile (client.ts:533).  The calls that expire together never
\* spend each other's refresh token.
RejectedWithReason ==
  \A t \in Tab : frame[t]["rotate"].answer = "unauthorized"
                   => frame[t]["rotate"].refresh \in excused

\* Every call ends: the gate opens, a renewal or a reissue wakes who waits.
CallsEnd == \A t \in Tab, f \in Frame : frame[t][f] # Idle ~> frame[t][f] = Idle

\* The app does not stay without a token, as long as nothing fails.
TokenComesBack == (store.token = 0) ~> (store.token # 0 \/ faults > 0)

\* Refuted by a withdrawal whose answer is lost, and by one whose guest session
\* cannot be issued (queries.ts:147): a dialog that says that the account is
\* still there is right (WithdrawConfirm.tsx:89).
DenialMeansKept == denial # {} => account # 0

\* Refuted by a guest token that is issued while somebody logs in: a guest never
\* takes the place of a member who has just logged in.
MemberIsNotOverwritten ==
  [][ store.kind = "member" /\ Alive(store) /\ store'.kind = "guest"
      => \E t \in Tab, f \in Task : /\ frame'[t][f] # frame[t][f]
                                    /\ frame[t][f].task \in {"logout", "withdraw", "retry"} ]_vars
=============================================================================
