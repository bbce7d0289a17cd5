----------------------------- MODULE EarnProofs ----------------------------
(***************************************************************************)
(* Theorems about Earn.tla, for every set of members, codes and accounts   *)
(* and any number of calls, visits and faults: its types, and that the     *)
(* codes of one Instagram account pay one member.                          *)
(***************************************************************************)
EXTENDS Earn, TLAPS

Way == {"daily", "follow_ig"}

CallRecord ==
  [pc : {"idle", "sent", "looked", "locked", "answered", "heard"},
   by : Member \cup {None}, kind : Way \cup {"auto", "hand", "other"},
   code : Code \cup {None}, rows : SUBSET Code, seen : SUBSET Member,
   answer : {"none", "granted", "claimed", "used", "unopened", "invalid", "lost"}]

ListRows == [read : BOOLEAN, login : BOOLEAN, claimed : SUBSET Way]

PageRecord ==
  [me : {"unknown", "guest", "member"}, list : BOOLEAN, rows : ListRows,
   fetch : [pc : {"idle", "asked", "read"}, rows : ListRows], error : BOOLEAN,
   open : SUBSET Call, claim : 0 .. MaxCall, hand : 0 .. MaxCall, auto : 0 .. MaxCall,
   fired : BOOLEAN, told : Way \cup {"nothing"}, opened : {"no", "waiting", "ready"}]

Types ==
  /\ codes \in [Code -> {"none", "live", "old"}] /\ redeemer \in [Code -> Member \cup {None}]
  /\ paid \subseteq Member \X Way
  /\ event \in {"none", "young", "ripe"} /\ taken \in BOOLEAN
  /\ kind \in {"guest", "member"} /\ stored \in Code \cup {None}
  /\ calls \in [Call -> CallRecord] /\ page \in PageRecord
  /\ acts \in 0 .. MaxAct /\ faults \in 0 .. MaxFault

\* What the list said, and what it sent, goes with the list.
ListHeld ==
  /\ page.told # "nothing" => page.list
  /\ page.claim # 0 \/ page.hand # 0 => page.list

OpenIsMine ==
  \A n \in page.open : calls[n].by = Me /\ calls[n].pc \notin {"idle", "heard"}

\* A call that was sent has a member; a redemption has a code.
Asks ==
  \A n \in Call :
    /\ calls[n].pc # "idle" => calls[n].by \in Member
    /\ calls[n].pc # "idle" /\ calls[n].kind \notin Way => calls[n].code \in Code
    /\ calls[n].pc \in {"looked", "locked"} => calls[n].kind \notin Way

PageInv == Types /\ ListHeld /\ OpenIsMine /\ Asks
-----------------------------------------------------------------------------
LEMMA PageInit ==
  ASSUME EarnAssumption, Init
  PROVE  PageInv
  <1> USE DEF Init, EarnAssumption
  <1>1. NoCall \in CallRecord
    BY DEF NoCall, CallRecord, Way
  <1>2. Unread \in ListRows
    BY DEF Unread, ListRows
  <1>3. Asked \in [pc : {"idle", "asked", "read"}, rows : ListRows]
    BY <1>2 DEF Asked
  <1>4. Loaded \in PageRecord
    BY <1>2, <1>3 DEF Loaded, PageRecord
  <1>5. Types
    <2>1. acts \in 0 .. MaxAct /\ faults \in 0 .. MaxFault
      OBVIOUS
    <2> QED
      BY <1>1, <1>4, <2>1 DEF Types
  <1>6. ListHeld /\ OpenIsMine /\ Asks
    BY DEF ListHeld, OpenIsMine, Asks, Loaded, NoCall
  <1> QED
    BY <1>5, <1>6 DEF PageInv

LEMMA Counts ==
  ASSUME EarnAssumption, Types
  PROVE  /\ Act => acts' \in 0 .. MaxAct
         /\ Fault => faults' \in 0 .. MaxFault
  BY DEF EarnAssumption, Types, Act, Fault

\* Instagram, the clock and the other members.
LEMMA PageAround ==
  ASSUME EarnAssumption, PageInv, (\E c \in Code : IssueCode(c) \/ Age(c)) \/ Ripen \/ Fade \/ TakeName
  PROVE  PageInv'
  <1> USE DEF PageInv, ledger, browser
  <1>1. ASSUME NEW c \in Code, IssueCode(c) \/ Age(c)
        PROVE  PageInv'
    <2>1. acts' \in 0 .. MaxAct
      BY <1>1, Counts DEF IssueCode, Age, Types
    <2> QED
      BY <1>1, <2>1 DEF IssueCode, Age, Types, ListHeld, OpenIsMine, Asks
  <1>2. CASE Ripen \/ Fade
    BY <1>2 DEF Ripen, Fade, Types, ListHeld, OpenIsMine, Asks
  <1>3. CASE TakeName
    <2>1. acts' \in 0 .. MaxAct
      BY <1>3, Counts DEF TakeName
    <2> QED
      BY <1>3, <2>1 DEF TakeName, Types, ListHeld, OpenIsMine, Asks
  <1> QED
    BY <1>1, <1>2, <1>3

\* Only the call itself changes, and it stays with whom it is.
LEMMA PageCall ==
  ASSUME PageInv, NEW n \in Call, NEW r \in CallRecord,
         calls' = [calls EXCEPT ![n] = r],
         r.by = calls[n].by, r.kind = calls[n].kind, r.code = calls[n].code,
         calls[n].pc # "idle", r.pc \notin {"idle", "heard"},
         r.pc \in {"looked", "locked"} => r.kind \notin Way,
         page' = page
  PROVE  /\ calls' \in [Call -> CallRecord]
         /\ (ListHeld /\ OpenIsMine /\ Asks)'
  <1>1. calls' \in [Call -> CallRecord]
    BY DEF PageInv, Types
  <1>2. ListHeld'
    BY DEF PageInv, ListHeld
  <1>3. OpenIsMine'
    BY DEF PageInv, Types, OpenIsMine
  <1>4. Asks'
    BY DEF PageInv, Types, Asks
  <1> QED
    BY <1>1, <1>2, <1>3, <1>4

LEMMA AnsweredCall ==
  ASSUME PageInv, NEW n \in Call, calls[n].pc # "idle", page' = page,
         NEW answer \in {"granted", "claimed", "used", "unopened", "invalid", "lost"},
         calls' = Answered(n, answer)
  PROVE  /\ calls' \in [Call -> CallRecord]
         /\ (ListHeld /\ OpenIsMine /\ Asks)'
  <1> DEFINE r == [calls[n] EXCEPT !.pc = "answered", !.answer = answer]
  <1>1. calls \in [Call -> CallRecord]
    BY DEF PageInv, Types
  <1>2. calls' = [calls EXCEPT ![n] = r]
    BY <1>1 DEF Answered
  <1>3. r \in CallRecord /\ r.by = calls[n].by /\ r.kind = calls[n].kind
          /\ r.code = calls[n].code /\ r.pc = "answered"
    BY <1>1 DEF CallRecord
  <1> HIDE DEF r
  <1> QED
    BY <1>2, <1>3, PageCall

\* The API.
LEMMA PageServe ==
  ASSUME EarnAssumption, PageInv, NEW n \in Call,
         ServeClaim(n) \/ LookUp(n) \/ LockSiblings(n) \/ Judge(n) \/ Lose(n)
  PROVE  PageInv'
  <1> DEFINE Rest == codes' = codes /\ event' = event /\ taken' = taken
                       /\ kind' = kind /\ stored' = stored /\ page' = page /\ acts' = acts
  <1>0. calls \in [Call -> CallRecord] /\ calls[n] \in CallRecord
    BY DEF PageInv, Types
  <1>1. ASSUME Rest, redeemer' \in [Code -> Member \cup {None}], paid' \subseteq Member \X Way,
               faults' \in 0 .. MaxFault, calls' \in [Call -> CallRecord],
               (ListHeld /\ OpenIsMine /\ Asks)'
        PROVE  PageInv'
    BY <1>1 DEF PageInv, Types
  <1>2. CASE ServeClaim(n)
    <2>1. Rest /\ redeemer' = redeemer /\ faults' = faults /\ calls[n].pc = "sent"
      BY <1>2 DEF ServeClaim, browser
    <2>2. calls[n].by \in Member /\ calls[n].kind \in Way
      BY <1>2 DEF ServeClaim, PageInv, Asks, Way
    <2>3. paid' \subseteq Member \X Way
      BY <1>2, <2>2 DEF ServeClaim, PageInv, Types
    <2>4. Refusal(n) \in {"none", "unopened", "used"}
      BY DEF Refusal
    <2>5. \E answer \in {"granted", "claimed", "used", "unopened"} : calls' = Answered(n, answer)
      BY <1>2, <2>4 DEF ServeClaim
    <2>6. calls' \in [Call -> CallRecord] /\ (ListHeld /\ OpenIsMine /\ Asks)'
      BY <2>1, <2>5, AnsweredCall
    <2>7. redeemer' \in [Code -> Member \cup {None}] /\ faults' \in 0 .. MaxFault
      BY <2>1 DEF PageInv, Types
    <2> QED
      BY <1>1, <2>1, <2>3, <2>6, <2>7
  <1>3. CASE LookUp(n)
    <2>1. Rest /\ redeemer' = redeemer /\ paid' = paid /\ faults' = faults /\ calls[n].pc = "sent"
            /\ calls[n].kind \notin Way
      BY <1>3 DEF LookUp, browser, ledger, Way
    <2>2. calls' \in [Call -> CallRecord] /\ (ListHeld /\ OpenIsMine /\ Asks)'
      <3>1. CASE calls' = Answered(n, "invalid")
        BY <2>1, <3>1, AnsweredCall
      <3>2. CASE calls' = [calls EXCEPT ![n].pc = "looked"]
        <4> DEFINE r == [calls[n] EXCEPT !.pc = "looked"]
        <4>1. calls' = [calls EXCEPT ![n] = r]
          BY <1>0, <3>2
        <4>2. r \in CallRecord /\ r.by = calls[n].by /\ r.kind = calls[n].kind
                /\ r.code = calls[n].code /\ r.pc = "looked"
          BY <1>0 DEF CallRecord
        <4> HIDE DEF r
        <4> QED
          BY <2>1, <4>1, <4>2, PageCall
      <3> QED
        BY <1>3, <3>1, <3>2 DEF LookUp
    <2>3. redeemer' \in [Code -> Member \cup {None}] /\ faults' \in 0 .. MaxFault
            /\ paid' \subseteq Member \X Way
      BY <2>1 DEF PageInv, Types
    <2> QED
      BY <1>1, <2>1, <2>2, <2>3
  <1>4. CASE LockSiblings(n)
    <2>1. Rest /\ redeemer' = redeemer /\ paid' = paid /\ faults' = faults /\ calls[n].pc = "looked"
      BY <1>4 DEF LockSiblings, browser, ledger
    <2>2. calls[n].kind \notin Way
      BY <2>1 DEF PageInv, Asks
    <2>3. calls' \in [Call -> CallRecord] /\ (ListHeld /\ OpenIsMine /\ Asks)'
      <3> DEFINE rows == Siblings(calls[n].code)
                 seen == {redeemer[c] : c \in Siblings(calls[n].code)} \ {None}
                 r == [calls[n] EXCEPT !.pc = "locked", !.rows = rows, !.seen = seen]
      <3>1. rows \subseteq Code
        BY DEF Siblings
      <3>2. seen \subseteq Member
        BY <3>1 DEF PageInv, Types
      <3>3. calls' = [calls EXCEPT ![n] = r]
        BY <1>0, <1>4 DEF LockSiblings
      <3> HIDE DEF rows, seen
      <3>4. r \in CallRecord /\ r.by = calls[n].by /\ r.kind = calls[n].kind
              /\ r.code = calls[n].code /\ r.pc = "locked"
        BY <1>0, <3>1, <3>2 DEF CallRecord
      <3> HIDE DEF r
      <3> QED
        BY <2>1, <2>2, <3>3, <3>4, PageCall
    <2>4. redeemer' \in [Code -> Member \cup {None}] /\ faults' \in 0 .. MaxFault
            /\ paid' \subseteq Member \X Way
      BY <2>1 DEF PageInv, Types
    <2> QED
      BY <1>1, <2>1, <2>3, <2>4
  <1>5. CASE Judge(n)
    <2>1. Rest /\ faults' = faults /\ calls[n].pc = "locked"
      BY <1>5 DEF Judge, browser
    <2>2. calls[n].by \in Member /\ calls[n].code \in Code
      BY <2>1 DEF PageInv, Asks
    <2>3. redeemer' \in [Code -> Member \cup {None}] /\ paid' \subseteq Member \X Way
      <3>1. CASE UNCHANGED ledger
        BY <3>1 DEF ledger, PageInv, Types
      <3>2. CASE /\ paid' = paid \cup {<<calls[n].by, "follow_ig">>}
                 /\ redeemer' = [redeemer EXCEPT ![calls[n].code] = calls[n].by]
        BY <2>2, <3>2 DEF PageInv, Types, Way
      <3> QED
        BY <1>5, <3>1, <3>2 DEF Judge
    <2>4. \E answer \in {"granted", "claimed", "used"} : calls' = Answered(n, answer)
      BY <1>5 DEF Judge
    <2>5. calls' \in [Call -> CallRecord] /\ (ListHeld /\ OpenIsMine /\ Asks)'
      BY <2>1, <2>4, AnsweredCall
    <2>6. faults' \in 0 .. MaxFault
      BY <2>1 DEF PageInv, Types
    <2> QED
      BY <1>1, <2>1, <2>3, <2>5, <2>6
  <1>6. CASE Lose(n)
    <2>1. Rest /\ redeemer' = redeemer /\ paid' = paid /\ calls[n].pc # "idle"
      BY <1>6 DEF Lose, browser, ledger
    <2>2. calls' \in [Call -> CallRecord] /\ (ListHeld /\ OpenIsMine /\ Asks)'
      BY <1>6, <2>1, AnsweredCall DEF Lose
    <2>3. redeemer' \in [Code -> Member \cup {None}] /\ paid' \subseteq Member \X Way
      BY <2>1 DEF PageInv, Types
    <2>4. faults' \in 0 .. MaxFault
      BY <1>6, Counts DEF Lose, PageInv
    <2> QED
      BY <1>1, <2>1, <2>2, <2>3, <2>4
  <1> QED
    BY <1>2, <1>3, <1>4, <1>5, <1>6

LEMMA Readings ==
  ASSUME PageInv
  PROVE  /\ Asked \in [pc : {"idle", "asked", "read"}, rows : ListRows]
         /\ NoFetch \in [pc : {"idle", "asked", "read"}, rows : ListRows]
         /\ Restarted(page) \in [pc : {"idle", "asked", "read"}, rows : ListRows]
         /\ RowsNow \in ListRows /\ Loaded \in PageRecord
  <1>1. Unread \in ListRows
    BY DEF Unread, ListRows
  <1>2. Asked \in [pc : {"idle", "asked", "read"}, rows : ListRows]
    BY <1>1 DEF Asked
  <1>3. NoFetch \in [pc : {"idle", "asked", "read"}, rows : ListRows]
    BY <1>1 DEF NoFetch
  <1>4. Restarted(page) \in [pc : {"idle", "asked", "read"}, rows : ListRows]
    BY <1>2 DEF Restarted, PageInv, Types, PageRecord
  <1>5. RowsNow \in ListRows
    BY DEF RowsNow, ListRows, Way
  <1>6. Loaded \in PageRecord
    BY <1>1, <1>2, EarnAssumption DEF Loaded, PageRecord, EarnAssumption
  <1> QED
    BY <1>2, <1>3, <1>4, <1>5, <1>6

\* The page reads, and shows.
LEMMA PageReads ==
  ASSUME EarnAssumption, PageInv,
         ReadCredits \/ ShowCredits \/ CreditsFail \/ Refresh \/ MeArrives \/ Login
           \/ ShowList \/ LeaveList \/ OpenInstagram \/ CountDown
  PROVE  PageInv'
  <1> DEFINE Rest == codes' = codes /\ redeemer' = redeemer /\ paid' = paid /\ taken' = taken
                       /\ stored' = stored /\ calls' = calls
  <1> USE Readings, Counts DEF ledger
  <1>1. ASSUME Rest, event' \in {"none", "young", "ripe"}, kind' \in {"guest", "member"},
               acts' \in 0 .. MaxAct, faults' \in 0 .. MaxFault,
               page' \in PageRecord, ListHeld', page'.open = page.open
        PROVE  PageInv'
    BY <1>1 DEF PageInv, Types, OpenIsMine, Asks
  <1>2. page \in PageRecord
    BY DEF PageInv, Types
  <1>3. CASE ReadCredits
    <2>1. Rest /\ event' = event /\ kind' = kind /\ acts' = acts /\ faults' = faults
      BY <1>3 DEF ReadCredits
    <2>2. page' \in PageRecord /\ ListHeld' /\ page'.open = page.open
      BY <1>2, <1>3 DEF ReadCredits, PageRecord, PageInv, ListHeld
    <2> QED
      BY <1>1, <2>1, <2>2 DEF PageInv, Types
  <1>4. CASE ShowCredits
    <2>1. Rest /\ event' = event /\ kind' = kind /\ acts' = acts /\ faults' = faults
      BY <1>4 DEF ShowCredits
    <2>2. page' \in PageRecord /\ ListHeld' /\ page'.open = page.open
      BY <1>2, <1>4 DEF ShowCredits, PageRecord, PageInv, ListHeld
    <2> QED
      BY <1>1, <2>1, <2>2 DEF PageInv, Types
  <1>5. CASE CreditsFail
    <2>1. Rest /\ event' = event /\ kind' = kind /\ acts' = acts /\ faults' \in 0 .. MaxFault
      BY <1>5 DEF CreditsFail, PageInv
    <2>2. page' \in PageRecord /\ ListHeld' /\ page'.open = page.open
      BY <1>2, <1>5 DEF CreditsFail, PageRecord, PageInv, ListHeld
    <2> QED
      BY <1>1, <2>1, <2>2 DEF PageInv, Types
  <1>6. CASE Refresh
    <2>1. Rest /\ event' = event /\ kind' = kind /\ acts' \in 0 .. MaxAct /\ faults' = faults
      BY <1>6 DEF Refresh, PageInv
    <2> DEFINE error == page.error /\ page.rows.read
    <2>2. error \in BOOLEAN
      OBVIOUS
    <2>3. page' = [page EXCEPT !.fetch = Asked, !.error = error]
      BY <1>2, <1>6 DEF Refresh, PageRecord
    <2> HIDE DEF error
    <2>4. page' \in PageRecord /\ page'.open = page.open
      BY <1>2, <2>2, <2>3 DEF PageRecord
    <2>5. ListHeld'
      BY <1>2, <2>3 DEF PageRecord, PageInv, ListHeld
    <2> QED
      BY <1>1, <2>1, <2>4, <2>5 DEF PageInv, Types
  <1>7. CASE MeArrives
    <2>1. Rest /\ event' = event /\ kind' = kind /\ acts' = acts /\ faults' = faults
      BY <1>7 DEF MeArrives
    <2>2. page' \in PageRecord /\ ListHeld' /\ page'.open = page.open
      BY <1>2, <1>7 DEF MeArrives, PageRecord, PageInv, ListHeld, Types
    <2> QED
      BY <1>1, <2>1, <2>2 DEF PageInv, Types
  <1>8. CASE Login
    <2>1. Rest /\ event' = event /\ kind' = "member" /\ acts' = acts /\ faults' = faults
      BY <1>8 DEF Login
    <2>2. page' \in PageRecord /\ ListHeld' /\ page'.open = page.open
      BY <1>2, <1>8 DEF Login, PageRecord, PageInv, ListHeld
    <2> QED
      BY <1>1, <2>1, <2>2 DEF PageInv, Types
  <1>9. CASE ShowList
    <2>1. Rest /\ event' = event /\ kind' = kind /\ acts' = acts /\ faults' = faults
      BY <1>9 DEF ShowList
    <2>2. page' \in PageRecord /\ ListHeld' /\ page'.open = page.open
      BY <1>2, <1>9 DEF ShowList, PageRecord, PageInv, ListHeld
    <2> QED
      BY <1>1, <2>1, <2>2 DEF PageInv, Types
  <1>10. CASE LeaveList
    <2>1. Rest /\ event' = event /\ kind' = kind /\ acts' \in 0 .. MaxAct /\ faults' = faults
      BY <1>10 DEF LeaveList, PageInv
    <2>2. 0 \in 0 .. MaxCall
      BY DEF EarnAssumption
    <2>3. page' = [page EXCEPT !.list = FALSE, !.claim = 0, !.hand = 0,
                               !.told = "nothing", !.opened = "no"]
      BY <1>10 DEF LeaveList
    <2>4. page' \in PageRecord /\ page'.open = page.open
      BY <1>2, <2>2, <2>3 DEF PageRecord
    <2>5. ListHeld'
      BY <1>2, <2>3 DEF PageRecord, ListHeld
    <2> QED
      BY <1>1, <2>1, <2>4, <2>5 DEF PageInv, Types
  <1>11. CASE OpenInstagram
    <2>1. Rest /\ kind' = kind /\ acts' \in 0 .. MaxAct /\ faults' = faults
      BY <1>11 DEF OpenInstagram, PageInv
    <2>2. event' \in {"none", "young", "ripe"}
      BY <1>11 DEF OpenInstagram, Tracked, PageInv, Types
    <2>3. page' \in PageRecord /\ ListHeld' /\ page'.open = page.open
      BY <1>2, <1>11 DEF OpenInstagram, PageRecord, PageInv, ListHeld
    <2> QED
      BY <1>1, <2>1, <2>2, <2>3 DEF PageInv, Types
  <1>12. CASE CountDown
    <2>1. Rest /\ event' = event /\ kind' = kind /\ acts' = acts /\ faults' = faults
      BY <1>12 DEF CountDown
    <2>2. page' \in PageRecord /\ ListHeld' /\ page'.open = page.open
      BY <1>2, <1>12 DEF CountDown, PageRecord, PageInv, ListHeld
    <2> QED
      BY <1>1, <2>1, <2>2 DEF PageInv, Types
  <1> QED
    BY <1>3, <1>4, <1>5, <1>6, <1>7, <1>8, <1>9, <1>10, <1>11, <1>12

LEMMA SentCall ==
  ASSUME PageInv, NEW n \in Call, Free(n), NEW m \in Member,
         NEW k \in Way \cup {"auto", "hand", "other"}, NEW c \in Code \cup {None},
         k \notin Way => c \in Code, calls' = Sent(n, m, k, c)
  PROVE  /\ calls' \in [Call -> CallRecord] /\ Asks' /\ n \notin page.open
         /\ calls'[n].by = m /\ calls'[n].pc = "sent"
         /\ \A i \in Call \ {n} : calls'[i] = calls[i]
  <1> DEFINE r == [NoCall EXCEPT !.pc = "sent", !.by = m, !.kind = k, !.code = c]
  <1>1. r \in CallRecord /\ r.by = m /\ r.kind = k /\ r.code = c /\ r.pc = "sent"
    BY DEF NoCall, CallRecord, Way
  <1>2. calls' = [calls EXCEPT ![n] = r]
    BY DEF Sent
  <1> HIDE DEF r
  <1>3. calls \in [Call -> CallRecord]
    BY DEF PageInv, Types
  <1>4. calls' \in [Call -> CallRecord] /\ calls'[n] = r /\ \A i \in Call \ {n} : calls'[i] = calls[i]
    BY <1>1, <1>2, <1>3
  <1>5. Asks'
    BY <1>1, <1>4 DEF PageInv, Asks
  <1>6. n \notin page.open
    BY DEF Free, PageInv, OpenIsMine
  <1> QED
    BY <1>1, <1>4, <1>5, <1>6

LEMMA OpenGrows ==
  ASSUME PageInv, NEW n \in Call, page'.open = page.open \cup {n},
         calls'[n].by = Me, calls'[n].pc = "sent",
         \A i \in Call \ {n} : calls'[i] = calls[i]
  PROVE  OpenIsMine'
  <1> SUFFICES ASSUME NEW i \in page'.open
               PROVE  calls'[i].by = Me /\ calls'[i].pc \notin {"idle", "heard"}
    BY DEF OpenIsMine
  <1>1. page.open \subseteq Call
    BY DEF PageInv, Types, PageRecord
  <1>2. CASE i = n
    BY <1>2
  <1>3. CASE i # n
    BY <1>1, <1>3 DEF PageInv, OpenIsMine
  <1> QED
    BY <1>2, <1>3

\* The page sends, others send, and an answer or another page arrives.
LEMMA PageCalls ==
  ASSUME EarnAssumption, PageInv, NEW n \in Call,
         \/ \E k \in Way : Claim(n, k)
         \/ \E c \in Code : RedeemByHand(n, c) \/ \E m \in Member : RedeemElsewhere(n, m, c)
         \/ RedeemStored(n) \/ Hear(n)
  PROVE  PageInv'
  <1> DEFINE Rest == codes' = codes /\ redeemer' = redeemer /\ paid' = paid /\ taken' = taken
                       /\ kind' = kind /\ event' = event /\ faults' = faults
  <1> USE DEF ledger
  <1>0. page \in PageRecord /\ calls \in [Call -> CallRecord] /\ n \in 1 .. MaxCall
          /\ Me \in Member /\ n \in 0 .. MaxCall /\ n # 0
    BY DEF PageInv, Types, Call, EarnAssumption
  <1>1. ASSUME Rest, stored' \in Code \cup {None}, acts' \in 0 .. MaxAct,
               calls' \in [Call -> CallRecord], page' \in PageRecord,
               ListHeld', OpenIsMine', Asks'
        PROVE  PageInv'
    BY <1>1 DEF PageInv, Types
  <1>2. ASSUME NEW k \in Way, Claim(n, k)
        PROVE  PageInv'
    <2>1. Rest /\ stored' = stored /\ acts' = acts /\ Free(n) /\ calls' = Sent(n, Me, k, None) /\ page.list
      BY <1>2 DEF Claim, Offered
    <2>2. calls' \in [Call -> CallRecord] /\ Asks' /\ n \notin page.open /\ calls'[n].by = Me
            /\ calls'[n].pc = "sent" /\ \A i \in Call \ {n} : calls'[i] = calls[i]
      BY <1>0, <2>1, SentCall
    <2>3. page' \in PageRecord /\ page'.open = page.open \cup {n} /\ ListHeld'
      BY <1>0, <1>2, <2>1 DEF Claim, PageRecord, ListHeld
    <2>4. OpenIsMine'
      BY <2>2, <2>3, OpenGrows
    <2> QED
      BY <1>1, <2>1, <2>2, <2>3, <2>4 DEF PageInv, Types
  <1>3. ASSUME NEW c \in Code, RedeemByHand(n, c)
        PROVE  PageInv'
    <2>1. Rest /\ stored' = stored /\ acts' = acts /\ Free(n) /\ calls' = Sent(n, Me, "hand", c) /\ page.list
      BY <1>3 DEF RedeemByHand, Offered
    <2>2. calls' \in [Call -> CallRecord] /\ Asks' /\ n \notin page.open /\ calls'[n].by = Me
            /\ calls'[n].pc = "sent" /\ \A i \in Call \ {n} : calls'[i] = calls[i]
      BY <1>0, <2>1, SentCall
    <2>3. page' \in PageRecord /\ page'.open = page.open \cup {n} /\ ListHeld'
      BY <1>0, <1>3, <2>1 DEF RedeemByHand, PageRecord, ListHeld
    <2>4. OpenIsMine'
      BY <2>2, <2>3, OpenGrows
    <2> QED
      BY <1>1, <2>1, <2>2, <2>3, <2>4 DEF PageInv, Types
  <1>4. ASSUME NEW c \in Code, NEW m \in Member, RedeemElsewhere(n, m, c)
        PROVE  PageInv'
    <2>1. Rest /\ stored' = stored /\ acts' = acts /\ Free(n) /\ calls' = Sent(n, m, "other", c)
            /\ page' = page
      BY <1>4 DEF RedeemElsewhere, browser
    <2>2. calls' \in [Call -> CallRecord] /\ Asks' /\ n \notin page.open
            /\ \A i \in Call \ {n} : calls'[i] = calls[i]
      BY <2>1, SentCall
    <2>3. ListHeld' /\ OpenIsMine'
      BY <1>0, <2>1, <2>2 DEF PageInv, ListHeld, OpenIsMine, PageRecord
    <2> QED
      BY <1>0, <1>1, <2>1, <2>2, <2>3 DEF PageInv, Types
  <1>5. CASE RedeemStored(n)
    <2>1. Rest /\ stored' = stored /\ acts' = acts /\ Free(n) /\ calls' = Sent(n, Me, "auto", stored)
            /\ stored \in Code
      BY <1>5 DEF RedeemStored, PageInv, Types
    <2>2. calls' \in [Call -> CallRecord] /\ Asks' /\ n \notin page.open /\ calls'[n].by = Me
            /\ calls'[n].pc = "sent" /\ \A i \in Call \ {n} : calls'[i] = calls[i]
      BY <1>0, <2>1, SentCall
    <2>3. page' \in PageRecord /\ page'.open = page.open \cup {n} /\ ListHeld'
      BY <1>0, <1>5, <2>1 DEF RedeemStored, PageRecord, ListHeld, PageInv
    <2>4. OpenIsMine'
      BY <2>2, <2>3, OpenGrows
    <2> QED
      BY <1>1, <2>1, <2>2, <2>3, <2>4 DEF PageInv, Types
  <1>6. CASE Hear(n)
    <2>1. Rest /\ acts' = acts /\ calls' = [calls EXCEPT ![n].pc = "heard"] /\ calls[n].pc = "answered"
      BY <1>6 DEF Hear
    <2>2. stored' \in Code \cup {None}
      BY <1>6 DEF Hear, PageInv, Types
    <2>3. calls' \in [Call -> CallRecord] /\ Asks'
            /\ \A i \in Call \ {n} : calls'[i] = calls[i]
      <3> DEFINE r == [calls[n] EXCEPT !.pc = "heard"]
      <3>1. r \in CallRecord /\ r.by = calls[n].by /\ r.kind = calls[n].kind
              /\ r.code = calls[n].code /\ r.pc = "heard"
        BY <1>0 DEF CallRecord
      <3>2. calls' = [calls EXCEPT ![n] = r]
        BY <1>0, <2>1
      <3> HIDE DEF r
      <3>3. calls' \in [Call -> CallRecord] /\ calls'[n] = r /\ \A i \in Call \ {n} : calls'[i] = calls[i]
        BY <1>0, <3>1, <3>2
      <3> QED
        BY <2>1, <3>1, <3>3 DEF PageInv, Asks
    <2>4. page' \in PageRecord /\ page'.open = page.open \ {n}
      BY <1>0, <1>6, Readings DEF Hear, Reward, PageRecord, Way
    <2>5. ListHeld'
      BY <1>0, <1>6 DEF Hear, PageRecord, ListHeld, PageInv
    <2>6. OpenIsMine'
      BY <1>0, <2>3, <2>4 DEF PageInv, OpenIsMine, PageRecord
    <2> QED
      BY <1>1, <2>1, <2>2, <2>3, <2>4, <2>5, <2>6 DEF PageInv, Types
  <1> QED
    BY <1>2, <1>3, <1>4, <1>5, <1>6

LEMMA PageVisit ==
  ASSUME EarnAssumption, PageInv, NEW c \in Code \cup {None}, Visit(c)
  PROVE  PageInv'
  <1>1. /\ UNCHANGED <<codes, redeemer, paid, event, taken, kind, calls, faults>>
        /\ page' = Loaded
    BY DEF Visit, ledger
  <1>2. stored' \in Code \cup {None} /\ acts' \in 0 .. MaxAct
    BY Counts DEF Visit, PageInv, Types
  <1>3. page' \in PageRecord
    BY <1>1, Readings
  <1>4. ListHeld' /\ OpenIsMine' /\ Asks'
    BY <1>1 DEF Loaded, ListHeld, OpenIsMine, Asks, PageInv
  <1> QED
    BY <1>1, <1>2, <1>3, <1>4 DEF PageInv, Types

LEMMA PageStep ==
  ASSUME EarnAssumption, PageInv, [Next]_vars
  PROVE  PageInv'
  <1>1. CASE UNCHANGED vars
    BY <1>1 DEF vars, ledger, browser, PageInv, Types, ListHeld, OpenIsMine, Asks
  <1>2. CASE Next
    BY <1>2, PageAround, PageServe, PageReads, PageCalls, PageVisit DEF Next, Way
  <1> QED
    BY <1>1, <1>2
-----------------------------------------------------------------------------
\* What the row locks give.
Unissued == \A c \in Code : codes[c] = "none" => redeemer[c] = None

Issued ==
  \A n \in Call : calls[n].pc \in {"looked", "locked"} => codes[calls[n].code] # "none"

SameAccount(c, d) == AccountOf[c] = AccountOf[d]

\* Whoever holds the codes of an account holds its own among them, and what it
\* read of who redeemed them is still true.
Knows ==
  \A n \in Call : calls[n].pc = "locked" =>
    /\ calls[n].code \in calls[n].rows
    /\ \A c \in Code : SameAccount(c, calls[n].code) /\ redeemer[c] # None
                         => redeemer[c] \in calls[n].seen

OneHolder ==
  \A n, k \in Call :
    (calls[n].pc = "locked" /\ calls[k].pc = "locked" /\ SameAccount(calls[n].code, calls[k].code))
      => n = k

PayInv == PageInv /\ Unissued /\ Issued /\ Knows /\ OneHolder /\ CodePaysOne

LEMMA PayKept ==
  ASSUME PayInv, PageInv', codes' = codes, redeemer' = redeemer,
         \A i \in Call : calls'[i].pc \in {"looked", "locked"} => calls'[i] = calls[i]
  PROVE  PayInv'
  BY DEF PayInv, Unissued, Issued, Knows, OneHolder, CodePaysOne, SameAccount

LEMMA PayLock ==
  ASSUME PayInv, PageInv', NEW n \in Call, LockSiblings(n)
  PROVE  PayInv'
  <1> DEFINE code == calls[n].code
             rows == Siblings(code)
             seen == {redeemer[c] : c \in Siblings(code)} \ {None}
  <1>1. calls \in [Call -> CallRecord] /\ calls[n].pc = "looked" /\ code \in Code
    BY DEF LockSiblings, PayInv, PageInv, Types, Asks
  <1>2. codes' = codes /\ redeemer' = redeemer
    BY DEF LockSiblings, ledger
  <1>3. calls'[n].pc = "locked" /\ calls'[n].code = code /\ calls'[n].rows = rows /\ calls'[n].seen = seen
    BY <1>1 DEF LockSiblings, CallRecord
  <1>4. \A i \in Call \ {n} : calls'[i] = calls[i]
    BY <1>1 DEF LockSiblings
  <1>5. codes[code] # "none"
    BY <1>1 DEF PayInv, Issued
  <1>6. code \in rows
    BY <1>1, <1>5 DEF Siblings
  <1>7. ASSUME NEW c \in Code, SameAccount(c, code), redeemer[c] # None
        PROVE  redeemer[c] \in seen
    BY <1>7 DEF PayInv, Unissued, SameAccount, Siblings
  <1>8. ASSUME NEW k \in Call, calls[k].pc = "locked", SameAccount(calls[k].code, code)
        PROVE  FALSE
    <2>1. calls[k].code \in Code /\ codes[calls[k].code] # "none" /\ calls[k].code \in calls[k].rows
      BY <1>8 DEF PayInv, PageInv, Asks, Issued, Knows
    <2>2. calls[k].code \in rows
      BY <1>8, <2>1 DEF SameAccount, Siblings
    <2>3. calls[k].code \in Locked
      BY <1>8, <2>1 DEF Locked
    <2> QED
      BY <2>2, <2>3 DEF LockSiblings
  <1> HIDE DEF code, rows, seen
  <1>9. Unissued' /\ CodePaysOne'
    BY <1>2 DEF PayInv, Unissued, CodePaysOne
  <1>10. Issued'
    BY <1>2, <1>3, <1>4, <1>5 DEF PayInv, Issued
  <1>11. Knows'
    BY <1>2, <1>3, <1>4, <1>6, <1>7 DEF PayInv, Knows, SameAccount
  <1>12. OneHolder'
    BY <1>3, <1>4, <1>8 DEF PayInv, OneHolder, SameAccount
  <1> QED
    BY <1>9, <1>10, <1>11, <1>12 DEF PayInv

\* Whoever pays holds every code of the account, and saw no other member.
LEMMA PayJudge ==
  ASSUME PayInv, PageInv', NEW n \in Call, Judge(n)
  PROVE  PayInv'
  <1> DEFINE code == calls[n].code
             by == calls[n].by
  <1>1. calls \in [Call -> CallRecord] /\ calls[n].pc = "locked" /\ code \in Code /\ by \in Member
          /\ redeemer \in [Code -> Member \cup {None}]
    BY DEF Judge, PayInv, PageInv, Types, Asks
  <1>2. codes' = codes
    BY DEF Judge
  <1>3. calls'[n].pc = "answered" /\ \A i \in Call \ {n} : calls'[i] = calls[i]
    BY <1>1 DEF Judge, Answered, CallRecord
  <1>4. CASE redeemer' = redeemer
    BY <1>2, <1>3, <1>4, PayKept
  <1>5. CASE calls[n].seen \ {by} = {} /\ redeemer' = [redeemer EXCEPT ![code] = by]
    <2>1. ASSUME NEW c \in Code, SameAccount(c, code), redeemer[c] # None
          PROVE  redeemer[c] = by
      BY <1>1, <1>5, <2>1 DEF PayInv, Knows
    <2>2. redeemer'[code] = by /\ \A c \in Code \ {code} : redeemer'[c] = redeemer[c]
      BY <1>1, <1>5
    <2>3. codes[code] # "none"
      BY <1>1 DEF PayInv, Issued
    <2>4. ASSUME NEW k \in Call, k # n, calls[k].pc = "locked"
          PROVE  ~SameAccount(calls[k].code, code)
      BY <1>1, <2>4 DEF PayInv, OneHolder
    <2> HIDE DEF code, by
    <2>5. Unissued'
      BY <1>2, <2>2, <2>3 DEF PayInv, Unissued
    <2>6. Issued' /\ OneHolder'
      BY <1>2, <1>3 DEF PayInv, Issued, OneHolder
    <2>7. Knows'
      <3> SUFFICES ASSUME NEW k \in Call, calls'[k].pc = "locked"
                   PROVE  /\ calls'[k].code \in calls'[k].rows
                          /\ \A c \in Code : SameAccount(c, calls'[k].code) /\ redeemer'[c] # None
                                               => redeemer'[c] \in calls'[k].seen
        BY DEF Knows, SameAccount
      <3>1. k # n /\ calls'[k] = calls[k]
        BY <1>3
      <3>2. \A c \in Code : SameAccount(c, calls[k].code) => redeemer'[c] = redeemer[c]
        BY <2>2, <2>4, <3>1 DEF SameAccount
      <3> QED
        BY <3>1, <3>2 DEF PayInv, Knows
    <2>8. CodePaysOne'
      BY <2>1, <2>2 DEF PayInv, CodePaysOne, SameAccount
    <2> QED
      BY <2>5, <2>6, <2>7, <2>8 DEF PayInv
  <1> QED
    BY <1>4, <1>5 DEF Judge, ledger

LEMMA PayStep ==
  ASSUME EarnAssumption, PayInv, [Next]_vars
  PROVE  PayInv'
  <1> DEFINE Quiet == \A i \in Call : calls'[i].pc \in {"looked", "locked"} => calls'[i] = calls[i]
  <1>0. PageInv' /\ calls \in [Call -> CallRecord]
    BY PageStep DEF PayInv, PageInv, Types
  <1>1. CASE UNCHANGED vars
    BY <1>0, <1>1, PayKept DEF vars, ledger
  <1>2. ASSUME NEW c \in Code, IssueCode(c) \/ Age(c)
        PROVE  PayInv'
    <2>1. redeemer' = redeemer /\ calls' = calls
      BY <1>2 DEF IssueCode, Age, browser, ledger
    <2>2. \A d \in Code : codes'[d] = "none" => codes[d] = "none"
      BY <1>2 DEF IssueCode, Age, PayInv, PageInv, Types
    <2>3. Unissued' /\ Knows' /\ OneHolder' /\ CodePaysOne'
      BY <2>1, <2>2 DEF PayInv, Unissued, Knows, OneHolder, CodePaysOne, SameAccount
    <2>4. Issued'
      BY <2>1, <2>2 DEF PayInv, Issued, PageInv, Asks
    <2> QED
      BY <1>0, <2>3, <2>4 DEF PayInv
  <1>3. ASSUME NEW n \in Call, LookUp(n)
        PROVE  PayInv'
    <2>1. codes' = codes /\ redeemer' = redeemer
      BY <1>3 DEF LookUp, ledger
    <2>2. CASE codes[calls[n].code] # "none" /\ calls' = [calls EXCEPT ![n].pc = "looked"]
      <3>1. calls'[n].pc = "looked" /\ calls'[n].code = calls[n].code
              /\ \A i \in Call \ {n} : calls'[i] = calls[i]
        BY <1>0, <2>2 DEF CallRecord
      <3>2. Unissued' /\ CodePaysOne'
        BY <2>1 DEF PayInv, Unissued, CodePaysOne
      <3>3. Issued'
        BY <2>1, <2>2, <3>1 DEF PayInv, Issued
      <3>4. Knows' /\ OneHolder'
        BY <2>1, <3>1 DEF PayInv, Knows, OneHolder, SameAccount
      <3> QED
        BY <1>0, <3>2, <3>3, <3>4 DEF PayInv
    <2>3. CASE calls' = Answered(n, "invalid")
      <3>1. Quiet
        BY <1>0, <2>3 DEF Answered, CallRecord
      <3> QED
        BY <1>0, <2>1, <3>1, PayKept
    <2> QED
      BY <1>3, <2>2, <2>3 DEF LookUp
  <1>4. ASSUME NEW n \in Call, LockSiblings(n) \/ Judge(n)
        PROVE  PayInv'
    BY <1>0, <1>4, PayLock, PayJudge
  <1>5. ASSUME NEW n \in Call, ServeClaim(n) \/ Lose(n) \/ Hear(n)
        PROVE  PayInv'
    <2>1. codes' = codes /\ redeemer' = redeemer
      BY <1>5 DEF ServeClaim, Lose, Hear, ledger
    <2>2. Quiet
      BY <1>0, <1>5 DEF ServeClaim, Lose, Hear, Answered, CallRecord
    <2> QED
      BY <1>0, <2>1, <2>2, PayKept
  <1>6. ASSUME NEW n \in Call,
               \/ RedeemStored(n) \/ \E k \in Way : Claim(n, k)
               \/ \E c \in Code : RedeemByHand(n, c) \/ \E m \in Member : RedeemElsewhere(n, m, c)
        PROVE  PayInv'
    <2>1. codes' = codes /\ redeemer' = redeemer
      BY <1>6 DEF RedeemStored, Claim, RedeemByHand, RedeemElsewhere, ledger
    <2>2. \E m, k, c : calls' = Sent(n, m, k, c)
      BY <1>6 DEF RedeemStored, Claim, RedeemByHand, RedeemElsewhere
    <2>3. Quiet
      BY <1>0, <2>2 DEF Sent, NoCall, CallRecord
    <2> QED
      BY <1>0, <2>1, <2>3, PayKept
  <1>7. CASE \/ Ripen \/ Fade \/ TakeName \/ OpenInstagram \/ CountDown
             \/ ReadCredits \/ ShowCredits \/ CreditsFail \/ Refresh
             \/ MeArrives \/ Login \/ ShowList \/ LeaveList
             \/ \E c \in Code \cup {None} : Visit(c)
    <2>1. codes' = codes /\ redeemer' = redeemer /\ calls' = calls
      BY <1>7 DEF Ripen, Fade, TakeName, OpenInstagram, CountDown, ReadCredits, ShowCredits,
                  CreditsFail, Refresh, MeArrives, Login, ShowList, LeaveList, Visit, ledger
    <2> QED
      BY <1>0, <2>1, PayKept
  <1> QED
    BY <1>1, <1>2, <1>3, <1>4, <1>5, <1>6, <1>7 DEF Next, Way

LEMMA PayInit ==
  ASSUME EarnAssumption, Init
  PROVE  PayInv
  <1>1. PageInv
    BY PageInit
  <1>2. Unissued /\ Issued /\ Knows /\ OneHolder /\ CodePaysOne
    BY DEF Init, NoCall, Unissued, Issued, Knows, OneHolder, CodePaysOne
  <1> QED
    BY <1>1, <1>2 DEF PayInv
-----------------------------------------------------------------------------
\* Every column and every part of the page keeps its type, and what the page
\* waits for and says belongs to what it shows.
THEOREM EarnTypeCorrect == Spec => []TypeOK
  <1>1. Init => PageInv
    BY PageInit, EarnAssumption
  <1>2. PageInv /\ [Next]_vars => PageInv'
    BY PageStep, EarnAssumption
  <1>3. PageInv => TypeOK
    <2> SUFFICES ASSUME PageInv PROVE TypeOK
      OBVIOUS
    <2>1. \A n \in Call : calls[n] \in CallRecord
      BY DEF PageInv, Types
    <2>2. page.open \subseteq {n \in Call : calls[n].by = Me /\ calls[n].pc \notin {"idle", "heard"}}
      BY DEF PageInv, Types, PageRecord, OpenIsMine
    <2>3. page.rows.claimed \subseteq Way /\ page.opened \in {"no", "waiting", "ready"}
            /\ page.told \in {"nothing", "daily", "follow_ig"}
      BY DEF PageInv, Types, PageRecord, ListRows, Way
    <2> QED
      BY <2>1, <2>2, <2>3 DEF PageInv, Types, ListHeld, CallRecord, TypeOK, Way
  <1> QED
    BY <1>1, <1>2, <1>3, PTL DEF Spec

\* However many codes an Instagram account was sent, and whoever enters them
\* at once, one member is paid for them: the transaction locks every code of
\* the account before it looks who redeemed one.
THEOREM CodesPayOne == Spec => []CodePaysOne
  <1>1. Init => PayInv
    BY PayInit, EarnAssumption
  <1>2. PayInv /\ [Next]_vars => PayInv'
    BY PayStep, EarnAssumption
  <1>3. PayInv => CodePaysOne
    BY DEF PayInv
  <1> QED
    BY <1>1, <1>2, <1>3, PTL DEF Spec
=============================================================================
