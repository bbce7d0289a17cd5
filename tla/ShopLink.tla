------------------------------ MODULE ShopLink -----------------------------
(***************************************************************************)
(* Linking a shop account by a texted code: the sheet of one browser, and  *)
(* members elsewhere who link the same accounts.  A request texts a code   *)
(* before it saves it, a verification matches the code in one transaction, *)
(* looks the accounts of the telephone up outside any, and links in        *)
(* another.  One hour is modelled, and codes are numbered by their request.*)
(***************************************************************************)
EXTENDS Naturals, Sequences

CONSTANTS Member, Me,  \* the members, and the one of this browser
          Shop, Phone, \* shop accounts and telephone numbers
          Target,      \* bound: the numbers and accounts that are typed
          Accounts,    \* what the shop finds for each
          None,
          Limit,       \* messages in an hour, to a member and to a target
          MaxCall,     \* bound: requests and verifications
          MaxAct,      \* bound: sheets closed and codes that expire
          MaxFault     \* bound: answers lost, reads that fail

ASSUME ShopLinkAssumption ==
  /\ Me \in Member /\ None \notin Member \cup Target \cup Shop
  /\ Target \subseteq Phone \cup Shop
  /\ Accounts \in [Target -> Seq(Shop)]
  /\ Limit \in Nat \ {0} /\ {MaxCall, MaxAct, MaxFault} \subseteq Nat

VARIABLES otp,    \* member -> the code saved last, and what it is for
          link,   \* member -> the linked shop account
          paid,   \* the ledger: members paid for linking
          bucket, \* member or target -> messages of this hour
          calls,  \* requests and verifications at the server
          page,   \* the sheet, and the screen it was opened from
          acts, faults

rows == <<otp, link, paid>>
vars == <<rows, bucket, calls, page, acts, faults>>

Call == 1 .. MaxCall

NoOtp == [target |-> None, code |-> 0, live |-> FALSE]
NoCall == [pc |-> "idle", by |-> None, kind |-> "request", target |-> None, code |-> 0,
           pick |-> None, mine |-> None, chosen |-> None, offer |-> {}, answer |-> "none"]

\* A sheet as it opens on a screen, which knows whether the member is linked.
Closed(linked) ==
  [open |-> FALSE, from |-> "credits", linked |-> linked, value |-> None, sent |-> FALSE,
   code |-> 0, choice |-> {}, request |-> 0, verify |-> 0]

\* The code that members elsewhere were texted a moment ago.
Earlier == MaxCall + 1

Init ==
  /\ \E t \in {u \in Target : Accounts[u] # <<>>} :
       /\ otp = [m \in Member |-> IF m = Me THEN NoOtp
                                 ELSE [target |-> t, code |-> Earlier, live |-> TRUE]]
       /\ bucket = [k \in Member \cup Target \cup Shop |->
                      IF k \in (Member \ {Me}) \cup {t, Head(Accounts[t])} THEN 1 ELSE 0]
  /\ link = [m \in Member |-> None] /\ paid = {}
  /\ calls = [n \in Call |-> NoCall]
  /\ page = Closed(FALSE)
  /\ acts = 0 /\ faults = 0

Act == acts < MaxAct /\ acts' = acts + 1
Fault == faults < MaxFault /\ faults' = faults + 1

To(n, pc) == [calls EXCEPT ![n].pc = pc]
\* What an answer carries; the rest of the call is over.
Answered(n, answer) ==
  [calls EXCEPT ![n] = [NoCall EXCEPT !.pc = "answered", !.by = calls[n].by, !.kind = calls[n].kind,
                                      !.code = calls[n].code, !.answer = answer]]
-----------------------------------------------------------------------------
(***************************************************************************)
(* The API.                                                                *)
(***************************************************************************)
\* Of the accounts found, those the member may have: its own, once it has one.
\* Its row was read when the call came in, and is not read again for this.
Linkable(n) ==
  {a \in {Accounts[calls[n].target][i] : i \in DOMAIN Accounts[calls[n].target]} :
     IF calls[n].mine # None THEN a = calls[n].mine
     ELSE \A m \in Member \ {calls[n].by} : link[m] # a}

\* The limit lets one more message through.
SpentLate(k) == bucket[k] > Limit
\* The messages of the hour are sent.
Spent(k) == bucket[k] >= Limit

Counted(keys) == [k \in DOMAIN bucket |-> bucket[k] + IF k \in keys THEN 1 ELSE 0]

Asked(n) == {calls[n].by, calls[n].target}

\* A message is limited by who asks and by what is asked for before the shop
\* is searched, and by the account it goes to after.
Text(n) ==
  /\ calls[n].pc = "sent" /\ calls[n].kind = "request"
  /\ LET asked == Asked(n)
         found == Accounts[calls[n].target]
         keys  == asked \cup {Head(found)}
     IN \/ /\ \E k \in asked : Spent(k)
           /\ calls' = Answered(n, "limited")
           /\ bucket' = Counted({k \in asked : k = calls[n].by /\ ~Spent(k)})
        \/ /\ \A k \in asked : ~Spent(k)
           /\ \/ found = <<>> /\ calls' = Answered(n, "unknown") /\ bucket' = Counted(asked)
              \/ /\ found # <<>> /\ Linkable(n) = {}
                 /\ calls' = Answered(n, "taken") /\ bucket' = Counted(asked)
              \/ /\ found # <<>> /\ Linkable(n) # {} /\ \E k \in keys : Spent(k)
                 /\ calls' = Answered(n, "limited") /\ bucket' = Counted(asked)
              \/ /\ found # <<>> /\ Linkable(n) # {} /\ \A k \in keys : ~Spent(k)
                 /\ calls' = [calls EXCEPT ![n].pc = "texted", ![n].code = n]
                 /\ bucket' = Counted(keys)
  /\ UNCHANGED <<rows, page, acts, faults>>

\* The row of a member is locked from its check to its commit.
Unlocked(m) == \A n \in Call : calls[n].pc = "checked" => calls[n].by # m

SaveCode(n) ==
  /\ calls[n].pc = "texted" /\ Unlocked(calls[n].by)
  /\ otp' = [otp EXCEPT ![calls[n].by] = [target |-> calls[n].target, code |-> n, live |-> TRUE]]
  /\ calls' = Answered(n, "sent")
  /\ UNCHANGED <<link, paid, bucket, page, acts, faults>>

\* Five minutes pass.
Expire(m) ==
  /\ Act /\ otp[m].live /\ otp' = [otp EXCEPT ![m].live = FALSE]
  /\ UNCHANGED <<link, paid, bucket, calls, page, faults>>

Same(n) == otp[calls[n].by].target = calls[n].target /\ otp[calls[n].by].code = calls[n].code

\* A wrong code uses the saved one up, a right one does not yet.
Match(n) ==
  /\ calls[n].pc = "sent" /\ calls[n].kind # "request" /\ Unlocked(calls[n].by)
  /\ \/ /\ Same(n) /\ otp[calls[n].by].live
        /\ calls' = To(n, "matched") /\ UNCHANGED otp
     \/ /\ ~(Same(n) /\ otp[calls[n].by].live)
        /\ calls' = Answered(n, "invalid") /\ otp' = [otp EXCEPT ![calls[n].by] = NoOtp]
  /\ UNCHANGED <<link, paid, bucket, page, acts, faults>>

\* The account to link: the one named, the only one found, or the one picked.
Eligible(n) ==
  IF calls[n].target \in Shop THEN {calls[n].target}
  ELSE LET found == Linkable(n)
       IN IF calls[n].pick \in found THEN {calls[n].pick} ELSE found

Choose(n) ==
  /\ calls[n].pc = "matched"
  /\ \/ Eligible(n) = {} /\ calls' = Answered(n, "taken")
     \/ \E a \in Shop : /\ Eligible(n) = {a}
                        /\ calls' = [calls EXCEPT ![n].pc = "chosen", ![n].chosen = a]
     \/ /\ Eligible(n) # {} /\ \A a \in Shop : Eligible(n) # {a}
        /\ calls' = [Answered(n, "choose") EXCEPT ![n].offer = Eligible(n)]
  /\ UNCHANGED <<rows, bucket, page, acts, faults>>

\* The code is not compared again.
StillSavedAny(n) == TRUE
\* The code is still the saved one; its age no longer counts.
StillSaved(n) == Same(n)

Owners(a) == {m \in Member : link[m] = a}

\* The second transaction locks the row, compares again and looks for owners ...
CheckLink(n) ==
  /\ calls[n].pc = "chosen" /\ Unlocked(calls[n].by)
  /\ LET free == link[calls[n].by] \in {None, calls[n].chosen}
                   /\ Owners(calls[n].chosen) \subseteq {calls[n].by}
     IN \/ ~StillSaved(n) /\ calls' = Answered(n, "invalid")
        \/ StillSaved(n) /\ ~free /\ calls' = Answered(n, "taken")
        \/ StillSaved(n) /\ free /\ calls' = To(n, "checked")
  /\ UNCHANGED <<rows, bucket, page, acts, faults>>

\* The index is not unique.
UniqueNot(n) == TRUE
\* Two members who check at once meet in the unique index.
Unique(n) == Owners(calls[n].chosen) \subseteq {calls[n].by}

\* ... links, uses the code up and pays once, or rolls everything back.
Commit(n) ==
  /\ calls[n].pc = "checked"
  /\ LET m == calls[n].by
     IN \/ /\ Unique(n)
           /\ link' = [link EXCEPT ![m] = calls[n].chosen]
           /\ otp' = [otp EXCEPT ![m] = NoOtp] /\ paid' = paid \cup {m}
           /\ calls' = Answered(n, "linked")
        \/ ~Unique(n) /\ calls' = Answered(n, "taken") /\ UNCHANGED rows
  /\ UNCHANGED <<bucket, page, acts, faults>>

\* The shop does not answer a search, or fails while the message is sent: it is
\* counted, and no code is saved.
ShopFails(n) ==
  /\ Fault /\ calls' = Answered(n, "gateway")
  /\ \/ calls[n].pc = "matched" /\ calls[n].target \in Phone /\ UNCHANGED bucket
     \/ calls[n].pc = "sent" /\ calls[n].kind = "request" /\ (\A k \in Asked(n) : ~Spent(k))
        /\ bucket' = Counted(Asked(n))
     \/ calls[n].pc = "texted" /\ UNCHANGED bucket
  /\ UNCHANGED <<rows, page, acts>>
-----------------------------------------------------------------------------
(***************************************************************************)
(* The sheet.                                                              *)
(***************************************************************************)
Pending(n) == n # 0 /\ calls[n].pc # "heard"
Done == page.verify # 0 /\ calls[page.verify].pc = "heard" /\ calls[page.verify].answer = "linked"
Form == page.open /\ page.choice = {} /\ ~Done

Free(n) == calls[n].pc = "idle" /\ \A m \in Call : m < n => calls[m].pc # "idle"
\* A call comes in, and the row of its member is read.
Sent(n, m, k, t, c, p) ==
  [calls EXCEPT ![n] = [NoCall EXCEPT !.pc = "sent", !.by = m, !.kind = k, !.target = t,
                                      !.code = c, !.pick = p, !.mine = link[m]]]

\* What can be typed as a code: one that was texted, or a wrong one.
Known == {0} \cup {n \in Call : calls[n].code = n /\ calls[n].kind = "request"}

OpenSheet(from) ==
  /\ ~page.open /\ ~page.linked
  /\ page' = [Closed(FALSE) EXCEPT !.open = TRUE, !.from = from]
  /\ UNCHANGED <<rows, bucket, calls, acts, faults>>

CloseSheet ==
  /\ Act /\ page.open /\ page' = Closed(page.linked)
  /\ UNCHANGED <<rows, bucket, calls, faults>>

\* "Get a code" for what is typed, and "get it again" once one was sent.
Request(n, t) ==
  /\ Free(n) /\ Form /\ ~Pending(page.request) /\ (page.sent => t = page.value)
  /\ calls' = Sent(n, Me, "request", t, 0, None)
  /\ page' = [page EXCEPT !.value = t, !.request = n, !.verify = 0, !.code = 0]
  /\ UNCHANGED <<rows, bucket, acts, faults>>

\* What is typed changes under a request.  The form of the other kind of
\* target gives the request up.
Retype(t) ==
  /\ Form /\ ~page.sent /\ Pending(page.request) /\ t # page.value
  /\ page' = [page EXCEPT !.value = t,
                          !.request = IF (page.value \in Phone) = (t \in Phone) THEN @ ELSE 0]
  /\ UNCHANGED <<rows, bucket, calls, acts, faults>>

Verify(n, c) ==
  /\ Free(n) /\ Form /\ page.sent /\ ~Pending(page.verify)
  /\ calls' = Sent(n, Me, "verify", page.value, c, None)
  /\ page' = [page EXCEPT !.verify = n, !.code = c]
  /\ UNCHANGED <<rows, bucket, acts, faults>>

\* One of several accounts, with the same code.
Pick(n, a) ==
  /\ Free(n) /\ page.open /\ ~Done /\ a \in page.choice /\ ~Pending(page.verify)
  /\ calls' = Sent(n, Me, "pick", page.value, page.code, a)
  /\ page' = [page EXCEPT !.verify = n]
  /\ UNCHANGED <<rows, bucket, acts, faults>>

\* A member at another browser, or at two, enters the code texted earlier.
Elsewhere(n, m, a) ==
  /\ Free(n) /\ m # Me /\ otp[m].code = Earlier /\ (a # None => otp[m].target \in Phone)
  /\ calls' = Sent(n, m, "verify", otp[m].target, Earlier, a)
  /\ UNCHANGED <<rows, bucket, page, acts, faults>>

\* An answer reaches the browser.  A verification that succeeds first has
\* everything read again.
Hear(n) ==
  /\ calls[n].by = Me /\ calls[n].pc = "answered"
  /\ calls' = To(n, IF calls[n].answer \in {"linked", "choose"} THEN "rereading" ELSE "heard")
  /\ page' = [page EXCEPT !.sent = @ \/ (n = page.request /\ calls[n].answer = "sent")]
  /\ UNCHANGED <<rows, bucket, acts, faults>>

\* The profile offers the sheet only to a member who is not linked, and a
\* list of ways to earn that cannot be read shows nothing else.
Reread(n) ==
  /\ calls[n].pc = "rereading" /\ calls' = To(n, "reread")
  /\ LET linked == link[Me] # None
     IN \/ /\ page' = IF page.from = "profile" /\ linked THEN Closed(linked)
                      ELSE [page EXCEPT !.linked = linked]
           /\ UNCHANGED faults
        \/ /\ Fault
           /\ page' = IF page.from = "profile" THEN page ELSE Closed(linked)
  /\ UNCHANGED <<rows, bucket, acts>>

\* Then the sheet that still waits for the answer is told.
Settle(n) ==
  /\ calls[n].pc = "reread" /\ calls' = To(n, "heard")
  /\ page' = [page EXCEPT !.choice = IF n = page.verify /\ calls[n].kind = "verify"
                                     THEN calls[n].offer ELSE @]
  /\ UNCHANGED <<rows, bucket, acts, faults>>

\* The call is lost, or its answer.
Lose(n) ==
  /\ Fault /\ calls[n].by = Me /\ calls[n].pc \in {"sent", "answered"} /\ calls[n].answer # "lost"
  /\ calls' = Answered(n, "lost")
  /\ UNCHANGED <<rows, bucket, page, acts>>

Next ==
  \/ \E n \in Call : Text(n) \/ SaveCode(n)
  \/ \E n \in Call : Match(n) \/ Choose(n) \/ CheckLink(n) \/ Commit(n) \/ ShopFails(n)
  \/ \E n \in Call : Hear(n) \/ Reread(n) \/ Settle(n) \/ Lose(n)
  \/ \E n \in Call, t \in Target : Request(n, t)
  \/ \E n \in Call, c \in Known : Verify(n, c)
  \/ \E n \in Call, a \in Shop : Pick(n, a)
  \/ \E n \in Call, m \in Member, a \in Shop \cup {None} : Elsewhere(n, m, a)
  \/ \E m \in Member : Expire(m)
  \/ \E from \in {"credits", "profile"} : OpenSheet(from)
  \/ \E t \in Target : Retype(t)
  \/ CloseSheet

Spec == Init /\ [][Next]_vars
-----------------------------------------------------------------------------
\* Types: nobody asks for, and no account is sent, more messages than the
\* limit, a link and its payment come together, and accounts are offered only
\* where a code for a telephone was entered.
TypeOK ==
  /\ otp \in [Member -> [target : Target \cup {None}, code : 0 .. Earlier, live : BOOLEAN]]
  /\ link \in [Member -> Shop \cup {None}] /\ paid = {m \in Member : link[m] # None}
  /\ bucket \in [Member \cup Target \cup Shop -> 0 .. Limit]
  /\ \A n \in Call :
       /\ calls[n].pc \in {"idle", "sent", "texted", "matched", "chosen",
                           "checked", "answered", "rereading", "reread", "heard"}
       /\ calls[n].pc # "idle" => calls[n].by \in Member
       /\ calls[n].pc = "checked" => calls[n].chosen \in Shop
  /\ page.choice # {} => page.code # 0 /\ page.value \in Phone
  /\ {page.request, page.verify} \subseteq 0 .. MaxCall
  /\ acts \in 0 .. MaxAct /\ faults \in 0 .. MaxFault

\* A code texted to a member links once: of two verifications that matched
\* it, one at a time takes the row and the other finds it used.
CodeLinksOnce ==
  \A n, k \in Call :
    (n # k /\ calls[n].by = calls[k].by /\ {calls[n].answer, calls[k].answer} = {"linked"})
      => calls[n].code # calls[k].code

\* A shop account belongs to one member, whoever checked it at the same time.
SoleOwner ==
  \A m, o \in Member : (m # o /\ link[m] # None) => link[m] # link[o]

\* Refuted by the profile, which takes the sheet away when it reads that the
\* account is linked (W12MyPage.tsx:513): a sheet that waits for the answer to
\* a verification that linked goes only when its user closes it, for that
\* answer tells the reward (ShopLinkSheet.tsx:130).
SuccessIsTold ==
  [][(page.open /\ ~page'.open /\ Pending(page.verify) /\ calls[page.verify].answer = "linked")
       => CloseSheet]_vars
=============================================================================
