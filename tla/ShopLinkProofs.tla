--------------------------- MODULE ShopLinkProofs ---------------------------
(***************************************************************************)
(* Theorems about ShopLink.tla, for every set of members, shop accounts    *)
(* and telephones, and any number of calls, closings and faults: its       *)
(* types, that a texted code links once, and that a shop account belongs   *)
(* to one member.                                                          *)
(***************************************************************************)
EXTENDS ShopLink, SequenceTheorems, TLAPS

CallRecord ==
  [pc : {"idle", "sent", "texted", "matched", "chosen", "checked",
         "answered", "rereading", "reread", "heard"},
   by : Member \cup {None}, kind : {"request", "verify", "pick"},
   target : Target \cup {None}, code : 0 .. Earlier,
   pick : Shop \cup {None}, mine : Shop \cup {None}, chosen : Shop \cup {None},
   offer : SUBSET Shop,
   answer : {"none", "limited", "unknown", "taken", "sent", "invalid", "choose",
             "linked", "gateway", "lost"}]

PageRecord ==
  [open : BOOLEAN, from : {"credits", "profile"}, linked : BOOLEAN,
   value : Target \cup {None}, sent : BOOLEAN, code : 0 .. Earlier,
   choice : SUBSET Shop, request : 0 .. MaxCall, verify : 0 .. MaxCall]

OtpRecord == [target : Target \cup {None}, code : 0 .. Earlier, live : BOOLEAN]

RowTypes ==
  /\ otp \in [Member -> OtpRecord]
  /\ link \in [Member -> Shop \cup {None}] /\ paid = {m \in Member : link[m] # None}
  /\ bucket \in [Member \cup Target \cup Shop -> 0 .. Limit]

CallTypes == calls \in [Call -> CallRecord]

PageTypes ==
  /\ page \in PageRecord
  /\ acts \in 0 .. MaxAct /\ faults \in 0 .. MaxFault

Over == {"answered", "rereading", "reread", "heard"}

\* What a call carries at each of its steps.
CallsWell ==
  \A n \in Call :
    /\ calls[n].pc # "idle" => calls[n].by \in Member
    /\ calls[n].pc \notin Over \cup {"idle"} => calls[n].target \in Target
    /\ calls[n].pc = "texted" => calls[n].kind = "request" /\ calls[n].code = n
    /\ calls[n].pc \in {"matched", "chosen", "checked"}
         => calls[n].kind # "request" /\ calls[n].code # 0
    /\ calls[n].pc \in {"chosen", "checked"} => calls[n].chosen \in Shop
    /\ calls[n].answer # "none" => calls[n].pc \in Over
    /\ calls[n].offer # {} => calls[n].pc \in Over /\ calls[n].code # 0

\* What has a code can have been typed: texted to this member, or earlier.
Issued(c) ==
  \/ c = Earlier
  \/ c \in Call /\ calls[c].kind = "request" /\ calls[c].pc \in Over

OtpWell ==
  \A m \in Member : IF otp[m].target = None THEN otp[m].code = 0 ELSE Issued(otp[m].code)

\* The verification the sheet waits for is of what it shows.
PageWell ==
  /\ page.request # 0 \/ page.sent => page.value \in Target
  /\ page.choice # {} => page.sent /\ page.code # 0 /\ page.value \in Phone
  /\ page.verify # 0 =>
       /\ page.sent /\ calls[page.verify].pc # "idle"
       /\ calls[page.verify].kind = "verify" =>
            /\ calls[page.verify].code = page.code
            /\ calls[page.verify].pc \notin Over => calls[page.verify].target = page.value
            /\ calls[page.verify].offer # {} => page.value \in Phone

Typed == RowTypes /\ CallTypes /\ PageTypes /\ CallsWell /\ OtpWell /\ PageWell
-----------------------------------------------------------------------------
LEMMA Constants ==
  ASSUME ShopLinkAssumption
  PROVE  /\ Me \in Member /\ None \notin Member /\ None \notin Target /\ None \notin Shop
         /\ Limit \in Nat \ {0} /\ MaxCall \in Nat /\ MaxAct \in Nat /\ MaxFault \in Nat
         /\ Accounts \in [Target -> Seq(Shop)] /\ Target \subseteq Phone \cup Shop
         /\ Earlier \in 0 .. Earlier /\ Earlier # 0 /\ Earlier \notin Call
         /\ \A n \in Call : n \in 0 .. MaxCall /\ n \in 0 .. Earlier /\ n # 0
         /\ 0 \in 0 .. MaxCall /\ 0 \in 0 .. Earlier
  BY DEF ShopLinkAssumption, Earlier, Call

LEMMA Heads ==
  ASSUME ShopLinkAssumption, NEW t \in Target, Accounts[t] # <<>>
  PROVE  Head(Accounts[t]) \in Shop
  <1>1. Accounts[t] \in Seq(Shop)
    BY Constants
  <1> QED
    BY <1>1, HeadTailProperties

LEMMA Counts ==
  ASSUME ShopLinkAssumption, PageTypes
  PROVE  /\ Act => acts' \in 0 .. MaxAct
         /\ Fault => faults' \in 0 .. MaxFault
  BY Constants DEF PageTypes, Act, Fault

LEMMA TypedInit ==
  ASSUME ShopLinkAssumption, Init
  PROVE  Typed
  <1> USE Constants
  <1>1. PICK t \in {u \in Target : Accounts[u] # <<>>} :
          /\ otp = [m \in Member |-> IF m = Me THEN NoOtp
                                    ELSE [target |-> t, code |-> Earlier, live |-> TRUE]]
          /\ bucket = [k \in Member \cup Target \cup Shop |->
                         IF k \in (Member \ {Me}) \cup {t, Head(Accounts[t])} THEN 1 ELSE 0]
    BY DEF Init
  <1>2. otp \in [Member -> OtpRecord] /\ \A m \in Member : otp[m].target # None => otp[m].code = Earlier
    <2>1. NoOtp \in OtpRecord /\ NoOtp.target = None
      BY DEF NoOtp, OtpRecord
    <2>2. [target |-> t, code |-> Earlier, live |-> TRUE] \in OtpRecord
      BY <1>1 DEF OtpRecord
    <2> QED
      BY <1>1, <2>1, <2>2
  <1>3. \A m \in Member : otp[m].target = None => otp[m].code = 0
    BY <1>1 DEF NoOtp
  <1>4. bucket \in [Member \cup Target \cup Shop -> 0 .. Limit]
    <2>1. 0 \in 0 .. Limit /\ 1 \in 0 .. Limit
      OBVIOUS
    <2> QED
      BY <1>1, <2>1
  <1>5. link \in [Member -> Shop \cup {None}] /\ paid = {m \in Member : link[m] # None}
    BY DEF Init
  <1>6. NoCall \in CallRecord
    BY DEF NoCall, CallRecord
  <1>7. CallTypes /\ CallsWell
    BY <1>6 DEF Init, CallTypes, CallsWell, NoCall
  <1>8. PageTypes
    <2>1. Closed(FALSE) \in PageRecord
      BY DEF Closed, PageRecord
    <2>2. acts \in 0 .. MaxAct /\ faults \in 0 .. MaxFault
      BY DEF Init
    <2> QED
      BY <2>1, <2>2 DEF Init, PageTypes
  <1>9. OtpWell
    BY <1>2, <1>3 DEF OtpWell, Issued
  <1>10. PageWell
    BY DEF Init, Closed, PageWell
  <1> QED
    BY <1>2, <1>4, <1>5, <1>7, <1>8, <1>9, <1>10 DEF Typed, RowTypes
-----------------------------------------------------------------------------
LEMMA Advances ==
  ASSUME NEW r \in CallRecord,
         NEW pc \in {"idle", "sent", "texted", "matched", "chosen", "checked",
                    "answered", "rereading", "reread", "heard"}
  PROVE  [r EXCEPT !.pc = pc] \in CallRecord
  BY DEF CallRecord

\* One call changes, and keeps what it is.
LEMMA CallChanges ==
  ASSUME ShopLinkAssumption, Typed, NEW n \in Call, NEW r \in CallRecord,
         calls' = [calls EXCEPT ![n] = r], calls[n].pc # "idle",
         r.by = calls[n].by, r.kind = calls[n].kind, r.pc # "idle",
         calls[n].pc \in Over => r.pc \in Over,
         r.pc \notin Over => r.target \in Target,
         r.pc = "texted" => r.kind = "request" /\ r.code = n,
         r.pc \in {"matched", "chosen", "checked"} => r.kind # "request" /\ r.code # 0,
         r.pc \in {"chosen", "checked"} => r.chosen \in Shop,
         r.answer # "none" => r.pc \in Over,
         r.offer # {} => r.pc \in Over /\ r.code # 0
  PROVE  /\ CallTypes' /\ CallsWell'
         /\ calls'[n] = r /\ \A i \in Call \ {n} : calls'[i] = calls[i]
         /\ \A c : Issued(c) => Issued(c)'
  <1>1. calls \in [Call -> CallRecord]
    BY DEF Typed, CallTypes
  <1>2. calls'[n] = r /\ \A i \in Call \ {n} : calls'[i] = calls[i]
    BY <1>1
  <1>3. CallTypes'
    BY <1>1 DEF CallTypes
  <1>4. CallsWell'
    <2> SUFFICES ASSUME NEW i \in Call
                 PROVE  /\ calls'[i].pc # "idle" => calls'[i].by \in Member
                        /\ calls'[i].pc \notin Over \cup {"idle"} => calls'[i].target \in Target
                        /\ calls'[i].pc = "texted" => calls'[i].kind = "request" /\ calls'[i].code = i
                        /\ calls'[i].pc \in {"matched", "chosen", "checked"}
                             => calls'[i].kind # "request" /\ calls'[i].code # 0
                        /\ calls'[i].pc \in {"chosen", "checked"} => calls'[i].chosen \in Shop
                        /\ calls'[i].answer # "none" => calls'[i].pc \in Over
                        /\ calls'[i].offer # {} => calls'[i].pc \in Over /\ calls'[i].code # 0
      BY DEF CallsWell
    <2>1. CASE i = n
      BY <1>2, <2>1 DEF Typed, CallsWell
    <2>2. CASE i # n
      BY <1>2, <2>2 DEF Typed, CallsWell
    <2> QED
      BY <2>1, <2>2
  <1>5. ASSUME NEW c, Issued(c)
        PROVE  Issued(c)'
    BY <1>2, <1>5 DEF Issued
  <1> QED
    BY <1>2, <1>3, <1>4, <1>5

LEMMA AnswerChanges ==
  ASSUME ShopLinkAssumption, Typed, NEW n \in Call, calls[n].pc # "idle",
         NEW answer \in {"limited", "unknown", "taken", "sent", "invalid", "choose",
                         "linked", "gateway", "lost"},
         NEW offer \in SUBSET Shop, offer # {} => calls[n].code # 0,
         calls' = [Answered(n, answer) EXCEPT ![n].offer = offer]
  PROVE  /\ CallTypes' /\ CallsWell'
         /\ calls'[n].pc = "answered" /\ calls'[n].by = calls[n].by /\ calls'[n].kind = calls[n].kind
         /\ calls'[n].code = calls[n].code /\ calls'[n].answer = answer
         /\ calls'[n].offer = offer /\ calls'[n].target = None
         /\ \A i \in Call \ {n} : calls'[i] = calls[i]
         /\ \A c : Issued(c) => Issued(c)'
  <1> DEFINE r == [[NoCall EXCEPT !.pc = "answered", !.by = calls[n].by, !.kind = calls[n].kind,
                                  !.code = calls[n].code, !.answer = answer]
                     EXCEPT !.offer = offer]
  <1>1. calls \in [Call -> CallRecord]
    BY DEF Typed, CallTypes
  <1>2. calls' = [calls EXCEPT ![n] = r]
    BY <1>1 DEF Answered
  <1>3. r \in CallRecord /\ r.pc = "answered" /\ r.by = calls[n].by /\ r.kind = calls[n].kind
          /\ r.code = calls[n].code /\ r.answer = answer /\ r.offer = offer /\ r.target = None
    BY <1>1, Constants DEF NoCall, CallRecord
  <1> HIDE DEF r
  <1>4. /\ r.pc \in Over /\ r.pc # "idle"
        /\ r.pc \notin {"texted", "matched", "chosen", "checked"}
    BY <1>3 DEF Over
  <1>5. /\ CallTypes' /\ CallsWell'
        /\ calls'[n] = r /\ \A i \in Call \ {n} : calls'[i] = calls[i]
        /\ \A c : Issued(c) => Issued(c)'
    BY <1>2, <1>3, <1>4, CallChanges
  <1> QED
    BY <1>3, <1>5

\* An answer without accounts to pick from.
LEMMA PlainAnswer ==
  ASSUME ShopLinkAssumption, Typed, NEW n \in Call, calls[n].pc # "idle",
         NEW answer \in {"limited", "unknown", "taken", "sent", "invalid", "choose",
                         "linked", "gateway", "lost"},
         calls' = Answered(n, answer)
  PROVE  /\ CallTypes' /\ CallsWell'
         /\ calls'[n].pc = "answered" /\ calls'[n].by = calls[n].by /\ calls'[n].kind = calls[n].kind
         /\ calls'[n].code = calls[n].code /\ calls'[n].answer = answer
         /\ calls'[n].offer = {} /\ calls'[n].target = None
         /\ \A i \in Call \ {n} : calls'[i] = calls[i]
         /\ \A c : Issued(c) => Issued(c)'
  <1> DEFINE r == [NoCall EXCEPT !.pc = "answered", !.by = calls[n].by, !.kind = calls[n].kind,
                                 !.code = calls[n].code, !.answer = answer]
  <1>1. calls \in [Call -> CallRecord]
    BY DEF Typed, CallTypes
  <1>2. calls' = [calls EXCEPT ![n] = r]
    BY DEF Answered
  <1>3. r \in CallRecord /\ r.pc = "answered" /\ r.by = calls[n].by /\ r.kind = calls[n].kind
          /\ r.code = calls[n].code /\ r.answer = answer /\ r.offer = {} /\ r.target = None
    BY <1>1, Constants DEF NoCall, CallRecord
  <1> HIDE DEF r
  <1>4. /\ r.pc \in Over /\ r.pc # "idle"
        /\ r.pc \notin {"texted", "matched", "chosen", "checked"}
    BY <1>3 DEF Over
  <1>5. /\ CallTypes' /\ CallsWell'
        /\ calls'[n] = r /\ \A i \in Call \ {n} : calls'[i] = calls[i]
        /\ \A c : Issued(c) => Issued(c)'
    BY <1>2, <1>3, <1>4, CallChanges
  <1> QED
    BY <1>3, <1>5

LEMMA StepChanges ==
  ASSUME ShopLinkAssumption, Typed, NEW n \in Call, calls[n].pc # "idle",
         NEW pc \in {"matched", "checked", "rereading", "reread", "heard"},
         calls[n].pc \in Over <=> pc \in Over,
         pc \in {"matched", "checked"} => calls[n].kind # "request" /\ calls[n].code # 0,
         pc = "checked" => calls[n].chosen \in Shop,
         calls' = To(n, pc)
  PROVE  /\ CallTypes' /\ CallsWell'
         /\ calls'[n] = [calls[n] EXCEPT !.pc = pc] /\ calls'[n].pc = pc
         /\ \A i \in Call \ {n} : calls'[i] = calls[i]
         /\ \A c : Issued(c) => Issued(c)'
  <1> DEFINE r == [calls[n] EXCEPT !.pc = pc]
  <1>1. calls \in [Call -> CallRecord] /\ calls[n] \in CallRecord
    BY DEF Typed, CallTypes
  <1>2. calls' = [calls EXCEPT ![n] = r]
    BY <1>1 DEF To
  <1>3. r.pc = pc /\ r.by = calls[n].by /\ r.kind = calls[n].kind
          /\ r.target = calls[n].target /\ r.code = calls[n].code /\ r.chosen = calls[n].chosen
          /\ r.answer = calls[n].answer /\ r.offer = calls[n].offer
    BY <1>1 DEF CallRecord
  <1>6. r \in CallRecord
    BY <1>1, Advances
  <1>4. /\ calls[n].pc \notin Over => calls[n].target \in Target
        /\ calls[n].answer # "none" => calls[n].pc \in Over
        /\ calls[n].offer # {} => calls[n].pc \in Over /\ calls[n].code # 0
    BY DEF Typed, CallsWell
  <1> HIDE DEF r
  <1>5. /\ CallTypes' /\ CallsWell'
        /\ calls'[n] = r /\ \A i \in Call \ {n} : calls'[i] = calls[i]
        /\ \A c : Issued(c) => Issued(c)'
    BY <1>2, <1>3, <1>4, <1>6, CallChanges DEF Over
  <1> QED
    BY <1>3, <1>5 DEF r

LEMMA SentChanges ==
  ASSUME ShopLinkAssumption, Typed, NEW n \in Call, Free(n), NEW m \in Member,
         NEW k \in {"request", "verify", "pick"}, NEW t \in Target,
         NEW c \in 0 .. Earlier, NEW p \in Shop \cup {None},
         calls' = Sent(n, m, k, t, c, p)
  PROVE  /\ CallTypes' /\ CallsWell'
         /\ calls[n].pc = "idle"
         /\ calls'[n].pc = "sent" /\ calls'[n].by = m /\ calls'[n].kind = k /\ calls'[n].target = t
         /\ calls'[n].code = c /\ calls'[n].answer = "none" /\ calls'[n].offer = {}
         /\ \A i \in Call \ {n} : calls'[i] = calls[i]
         /\ \A d : Issued(d) => Issued(d)'
  <1> DEFINE r == [NoCall EXCEPT !.pc = "sent", !.by = m, !.kind = k, !.target = t,
                                 !.code = c, !.pick = p, !.mine = link[m]]
  <1>1. calls \in [Call -> CallRecord] /\ link[m] \in Shop \cup {None}
    BY DEF Typed, CallTypes, RowTypes
  <1>2. calls' = [calls EXCEPT ![n] = r]
    BY DEF Sent
  <1>3. r \in CallRecord /\ r.pc = "sent" /\ r.by = m /\ r.kind = k /\ r.target = t
          /\ r.code = c /\ r.answer = "none" /\ r.offer = {}
    BY <1>1 DEF NoCall, CallRecord
  <1> HIDE DEF r
  <1>4. calls' \in [Call -> CallRecord] /\ calls'[n] = r /\ \A i \in Call \ {n} : calls'[i] = calls[i]
    BY <1>1, <1>2, <1>3
  <1>5. CallsWell'
    <2> SUFFICES ASSUME NEW i \in Call
                 PROVE  /\ calls'[i].pc # "idle" => calls'[i].by \in Member
                        /\ calls'[i].pc \notin Over \cup {"idle"} => calls'[i].target \in Target
                        /\ calls'[i].pc = "texted" => calls'[i].kind = "request" /\ calls'[i].code = i
                        /\ calls'[i].pc \in {"matched", "chosen", "checked"}
                             => calls'[i].kind # "request" /\ calls'[i].code # 0
                        /\ calls'[i].pc \in {"chosen", "checked"} => calls'[i].chosen \in Shop
                        /\ calls'[i].answer # "none" => calls'[i].pc \in Over
                        /\ calls'[i].offer # {} => calls'[i].pc \in Over /\ calls'[i].code # 0
      BY DEF CallsWell
    <2>1. CASE i = n
      BY <1>3, <1>4, <2>1
    <2>2. CASE i # n
      BY <1>4, <2>2 DEF Typed, CallsWell
    <2> QED
      BY <2>1, <2>2
  <1>6. calls[n].pc = "idle"
    BY DEF Free
  <1>7. ASSUME NEW d, Issued(d)
        PROVE  Issued(d)'
    BY <1>4, <1>6, <1>7 DEF Issued, Over
  <1> QED
    BY <1>3, <1>4, <1>5, <1>6, <1>7 DEF CallTypes

LEMMA PageKept ==
  ASSUME Typed, NEW n \in Call, page' = page, calls'[n].pc # "idle",
         \A i \in Call \ {n} : calls'[i] = calls[i],
         calls[n].pc # "idle" /\ calls[n].kind = "verify" =>
           /\ calls'[n].code = calls[n].code
           /\ calls'[n].pc \notin Over => calls[n].pc \notin Over /\ calls'[n].target = calls[n].target
           /\ calls'[n].offer # {} => \/ calls[n].offer # {}
                                      \/ calls[n].pc \notin Over /\ calls[n].target \in Phone,
         calls[n].pc # "idle" => calls'[n].kind = calls[n].kind
  PROVE  PageWell'
  <1>1. page \in PageRecord
    BY DEF Typed, PageTypes
  <1>2. page.verify # 0 => page.verify \in Call
    BY <1>1 DEF PageRecord, Call
  <1>3. CASE page.verify = n
    BY <1>3 DEF Typed, PageWell
  <1>4. CASE page.verify # n
    BY <1>2, <1>4 DEF Typed, PageWell
  <1> QED
    BY <1>3, <1>4

LEMMA OtpKept ==
  ASSUME Typed, otp' = otp, \A c : Issued(c) => Issued(c)'
  PROVE  OtpWell'
  BY DEF Typed, OtpWell

LEMMA CountedTypes ==
  ASSUME ShopLinkAssumption, RowTypes, NEW keys, \A k \in keys : ~Spent(k), bucket' = Counted(keys)
  PROVE  bucket' \in [Member \cup Target \cup Shop -> 0 .. Limit]
  <1>1. \A k \in Member \cup Target \cup Shop : bucket[k] \in 0 .. Limit
    BY DEF RowTypes
  <1>2. \A k \in Member \cup Target \cup Shop :
          bucket[k] + (IF k \in keys THEN 1 ELSE 0) \in 0 .. Limit
    BY <1>1, Constants DEF Spent
  <1>3. DOMAIN bucket = Member \cup Target \cup Shop
    BY DEF RowTypes
  <1> QED
    BY <1>2, <1>3 DEF Counted
-----------------------------------------------------------------------------
LEMMA TypedText ==
  ASSUME ShopLinkAssumption, Typed, NEW n \in Call, Text(n)
  PROVE  Typed'
  <1>1. /\ calls \in [Call -> CallRecord] /\ calls[n] \in CallRecord
        /\ calls[n].pc = "sent" /\ calls[n].kind = "request"
    BY DEF Text, Typed, CallTypes
  <1>2. calls[n].by \in Member /\ calls[n].target \in Target /\ calls[n].answer = "none" /\ calls[n].offer = {}
    BY <1>1 DEF Typed, CallsWell, Over
  <1>3. UNCHANGED <<otp, link, paid, page, acts, faults>>
    BY DEF Text, rows
  <1>4. RowTypes'
    <2>1. bucket' \in [Member \cup Target \cup Shop -> 0 .. Limit]
      <3>1. \E keys : (\A k \in keys : ~Spent(k)) /\ bucket' = Counted(keys)
        BY DEF Text
      <3> QED
        BY <3>1, CountedTypes DEF Typed
    <2> QED
      BY <1>3, <2>1 DEF Typed, RowTypes
  <1>5. CASE \E answer \in {"limited", "unknown", "taken"} : calls' = Answered(n, answer)
    <2>1. PICK answer \in {"limited", "unknown", "taken"} : calls' = Answered(n, answer)
      BY <1>5
    <2>2. /\ CallTypes' /\ CallsWell' /\ calls'[n].pc = "answered" /\ calls'[n].kind = "request"
          /\ \A i \in Call \ {n} : calls'[i] = calls[i]
          /\ \A c : Issued(c) => Issued(c)'
      BY <1>1, <2>1, PlainAnswer
    <2>3. OtpWell' /\ PageWell'
      BY <1>1, <1>3, <2>2, OtpKept, PageKept
    <2> QED
      BY <1>3, <1>4, <2>2, <2>3 DEF Typed, PageTypes
  <1>6. CASE calls' = [calls EXCEPT ![n].pc = "texted", ![n].code = n]
    <2> DEFINE r == [calls[n] EXCEPT !.pc = "texted", !.code = n]
    <2>1. calls' = [calls EXCEPT ![n] = r]
      BY <1>1, <1>6
    <2>2. r.pc = "texted" /\ r.by = calls[n].by /\ r.kind = "request"
            /\ r.target = calls[n].target /\ r.code = n /\ r.answer = "none" /\ r.offer = {}
      BY <1>1, <1>2 DEF CallRecord
    <2>5. r \in CallRecord
      <3> DEFINE r1 == [calls[n] EXCEPT !.pc = "texted"]
      <3>1. n \in 0 .. Earlier
        BY Constants
      <3>2. r1 \in CallRecord
        BY <1>1, Advances
      <3>3. r = [r1 EXCEPT !.code = n]
        OBVIOUS
      <3> HIDE DEF r1, r
      <3> QED
        BY <3>1, <3>2, <3>3 DEF CallRecord
    <2> HIDE DEF r
    <2>3. /\ CallTypes' /\ CallsWell' /\ calls'[n] = r
          /\ \A i \in Call \ {n} : calls'[i] = calls[i]
          /\ \A c : Issued(c) => Issued(c)'
      BY <1>1, <1>2, <2>1, <2>2, <2>5, CallChanges DEF Over
    <2>4. OtpWell' /\ PageWell'
      BY <1>1, <1>3, <2>2, <2>3, OtpKept, PageKept
    <2> QED
      BY <1>3, <1>4, <2>3, <2>4 DEF Typed, PageTypes
  <1> QED
    BY <1>5, <1>6 DEF Text

\* The steps at the row of the member.
LEMMA TypedRow ==
  ASSUME ShopLinkAssumption, Typed, NEW n \in Call,
         SaveCode(n) \/ Match(n) \/ CheckLink(n) \/ Commit(n)
  PROVE  Typed'
  <1> USE DEF rows
  <1>0. calls \in [Call -> CallRecord] /\ calls[n] \in CallRecord /\ otp \in [Member -> OtpRecord]
    BY DEF Typed, CallTypes, RowTypes
  <1>1. CASE SaveCode(n)
    <2>1. calls[n].pc = "texted" /\ calls[n].by \in Member /\ calls[n].target \in Target
            /\ calls[n].kind = "request" /\ calls[n].code = n
      BY <1>1 DEF SaveCode, Typed, CallsWell, Over
    <2>2. calls' = Answered(n, "sent") /\ UNCHANGED <<link, paid, bucket, page, acts, faults>>
      BY <1>1 DEF SaveCode
    <2>3. /\ CallTypes' /\ CallsWell' /\ calls'[n].pc = "answered" /\ calls'[n].kind = "request"
          /\ \A i \in Call \ {n} : calls'[i] = calls[i]
          /\ \A c : Issued(c) => Issued(c)'
      BY <2>1, <2>2, PlainAnswer
    <2> DEFINE o == [target |-> calls[n].target, code |-> n, live |-> TRUE]
    <2>4. o \in OtpRecord /\ o.target # None /\ o.code = n
      BY <2>1, Constants DEF OtpRecord
    <2>5. otp' = [otp EXCEPT ![calls[n].by] = o]
      BY <1>1 DEF SaveCode
    <2>6. Issued(n)'
      BY <2>3 DEF Issued, Over
    <2> HIDE DEF o
    <2>7. otp' \in [Member -> OtpRecord]
      BY <1>0, <2>4, <2>5
    <2>8. OtpWell'
      BY <1>0, <2>1, <2>3, <2>4, <2>5, <2>6 DEF Typed, OtpWell
    <2>9. PageWell'
      BY <2>1, <2>2, <2>3, PageKept
    <2> QED
      BY <2>2, <2>3, <2>7, <2>8, <2>9 DEF Typed, RowTypes, PageTypes
  <1>2. CASE Match(n)
    <2>1. calls[n].pc = "sent" /\ calls[n].by \in Member /\ calls[n].target \in Target
            /\ calls[n].kind # "request"
      BY <1>2 DEF Match, Typed, CallsWell, Over
    <2>2. UNCHANGED <<link, paid, bucket, page, acts, faults>>
      BY <1>2 DEF Match
    <2>3. CASE Same(n) /\ calls' = To(n, "matched") /\ otp' = otp
      <3>1. calls[n].code # 0
        BY <2>1, <2>3, Constants DEF Same, Typed, OtpWell, Issued, Call
      <3>2. /\ CallTypes' /\ CallsWell' /\ calls'[n] = [calls[n] EXCEPT !.pc = "matched"]
            /\ calls'[n].pc = "matched"
            /\ \A i \in Call \ {n} : calls'[i] = calls[i]
            /\ \A c : Issued(c) => Issued(c)'
        BY <2>1, <2>3, <3>1, StepChanges DEF Over
      <3>3. calls'[n].kind = calls[n].kind /\ calls'[n].code = calls[n].code
              /\ calls'[n].target = calls[n].target /\ calls'[n].offer = calls[n].offer
        BY <1>0, <3>2 DEF CallRecord
      <3>4. OtpWell' /\ PageWell'
        BY <2>1, <2>2, <2>3, <3>2, <3>3, OtpKept, PageKept DEF Over
      <3> QED
        BY <2>2, <2>3, <3>2, <3>4 DEF Typed, RowTypes, PageTypes
    <2>4. CASE calls' = Answered(n, "invalid") /\ otp' = [otp EXCEPT ![calls[n].by] = NoOtp]
      <3>1. /\ CallTypes' /\ CallsWell' /\ calls'[n].pc = "answered" /\ calls'[n].kind = calls[n].kind
            /\ calls'[n].code = calls[n].code /\ calls'[n].offer = {}
            /\ \A i \in Call \ {n} : calls'[i] = calls[i]
            /\ \A c : Issued(c) => Issued(c)'
        BY <2>1, <2>4, PlainAnswer
      <3>2. NoOtp \in OtpRecord /\ NoOtp.target = None /\ NoOtp.code = 0
        BY Constants DEF NoOtp, OtpRecord
      <3>3. otp' \in [Member -> OtpRecord] /\ OtpWell'
        BY <1>0, <2>1, <2>4, <3>1, <3>2 DEF Typed, OtpWell
      <3>4. PageWell'
        BY <2>1, <2>2, <3>1, PageKept DEF Over
      <3> QED
        BY <2>2, <3>1, <3>3, <3>4 DEF Typed, RowTypes, PageTypes
    <2> QED
      BY <1>2, <2>3, <2>4 DEF Match
  <1>3. CASE CheckLink(n)
    <2>1. calls[n].pc = "chosen" /\ calls[n].by \in Member /\ calls[n].chosen \in Shop
            /\ calls[n].kind # "request" /\ calls[n].code # 0
      BY <1>3 DEF CheckLink, Typed, CallsWell, Over
    <2>2. UNCHANGED <<otp, link, paid, bucket, page, acts, faults>>
      BY <1>3 DEF CheckLink
    <2>3. CASE calls' = To(n, "checked")
      <3>1. /\ CallTypes' /\ CallsWell' /\ calls'[n] = [calls[n] EXCEPT !.pc = "checked"]
            /\ calls'[n].pc = "checked"
            /\ \A i \in Call \ {n} : calls'[i] = calls[i]
            /\ \A c : Issued(c) => Issued(c)'
        BY <2>1, <2>3, StepChanges DEF Over
      <3>2. calls'[n].kind = calls[n].kind /\ calls'[n].code = calls[n].code
              /\ calls'[n].target = calls[n].target /\ calls'[n].offer = calls[n].offer
        BY <1>0, <3>1 DEF CallRecord
      <3>3. OtpWell' /\ PageWell'
        BY <2>1, <2>2, <3>1, <3>2, OtpKept, PageKept DEF Over
      <3> QED
        BY <2>2, <3>1, <3>3 DEF Typed, RowTypes, PageTypes
    <2>4. CASE \E answer \in {"invalid", "taken"} : calls' = Answered(n, answer)
      <3>1. /\ CallTypes' /\ CallsWell' /\ calls'[n].pc = "answered" /\ calls'[n].kind = calls[n].kind
            /\ calls'[n].code = calls[n].code /\ calls'[n].offer = {}
            /\ \A i \in Call \ {n} : calls'[i] = calls[i]
            /\ \A c : Issued(c) => Issued(c)'
        BY <2>1, <2>4, PlainAnswer
      <3>2. OtpWell' /\ PageWell'
        BY <2>1, <2>2, <3>1, OtpKept, PageKept DEF Over
      <3> QED
        BY <2>2, <3>1, <3>2 DEF Typed, RowTypes, PageTypes
    <2> QED
      BY <1>3, <2>3, <2>4 DEF CheckLink
  <1>4. CASE Commit(n)
    <2>1. calls[n].pc = "checked" /\ calls[n].by \in Member /\ calls[n].chosen \in Shop
      BY <1>4 DEF Commit, Typed, CallsWell, Over
    <2>2. UNCHANGED <<bucket, page, acts, faults>>
      BY <1>4 DEF Commit
    <2>3. \E answer \in {"linked", "taken"} : calls' = Answered(n, answer)
      BY <1>4 DEF Commit
    <2>4. /\ CallTypes' /\ CallsWell' /\ calls'[n].pc = "answered" /\ calls'[n].kind = calls[n].kind
          /\ calls'[n].code = calls[n].code /\ calls'[n].offer = {}
          /\ \A i \in Call \ {n} : calls'[i] = calls[i]
          /\ \A c : Issued(c) => Issued(c)'
      BY <2>1, <2>3, PlainAnswer
    <2>5. PageWell'
      BY <2>1, <2>2, <2>4, PageKept DEF Over
    <2>6. CASE UNCHANGED <<otp, link, paid>>
      BY <2>2, <2>4, <2>5, <2>6, OtpKept DEF Typed, RowTypes, PageTypes
    <2>7. CASE /\ link' = [link EXCEPT ![calls[n].by] = calls[n].chosen]
               /\ otp' = [otp EXCEPT ![calls[n].by] = NoOtp]
               /\ paid' = paid \cup {calls[n].by}
      <3>1. NoOtp \in OtpRecord /\ NoOtp.target = None /\ NoOtp.code = 0
        BY Constants DEF NoOtp, OtpRecord
      <3>2. otp' \in [Member -> OtpRecord] /\ OtpWell'
        BY <1>0, <2>1, <2>4, <2>7, <3>1 DEF Typed, OtpWell
      <3>3. link' \in [Member -> Shop \cup {None}] /\ paid' = {m \in Member : link'[m] # None}
        BY <2>1, <2>7, Constants DEF Typed, RowTypes
      <3> QED
        BY <2>2, <2>4, <2>5, <3>2, <3>3 DEF Typed, RowTypes, PageTypes
    <2> QED
      BY <1>4, <2>6, <2>7 DEF Commit
  <1> QED
    BY <1>1, <1>2, <1>3, <1>4

\* What is found and may be linked are shop accounts; for a telephone there
\* may be several.
LEMMA Offers ==
  ASSUME ShopLinkAssumption, NEW n \in Call, calls[n].target \in Target
  PROVE  /\ Eligible(n) \in SUBSET Shop
         /\ (\A a \in Shop : Eligible(n) # {a}) => calls[n].target \in Phone
  <1>1. Accounts[calls[n].target] \in Seq(Shop)
    BY Constants
  <1>2. \A i \in DOMAIN Accounts[calls[n].target] : Accounts[calls[n].target][i] \in Shop
    BY <1>1
  <1>3. Linkable(n) \subseteq Shop
    BY <1>2 DEF Linkable
  <1>4. Eligible(n) \in SUBSET Shop
    BY <1>3 DEF Eligible
  <1>5. calls[n].target \in Shop => Eligible(n) = {calls[n].target}
    BY DEF Eligible
  <1> QED
    BY <1>4, <1>5, Constants

LEMMA TypedChoose ==
  ASSUME ShopLinkAssumption, Typed, NEW n \in Call, Choose(n)
  PROVE  Typed'
  <1> USE DEF rows
  <1>0. calls \in [Call -> CallRecord] /\ calls[n] \in CallRecord
    BY DEF Typed, CallTypes
  <1>1. calls[n].pc = "matched" /\ calls[n].by \in Member /\ calls[n].target \in Target
          /\ calls[n].kind # "request" /\ calls[n].code # 0
    BY DEF Choose, Typed, CallsWell, Over
  <1>2. UNCHANGED <<otp, link, paid, bucket, page>> /\ acts' \in 0 .. MaxAct /\ faults' \in 0 .. MaxFault
    BY Counts DEF Choose, Typed, PageTypes
  <1>3. CASE calls' = Answered(n, "taken")
    <2>1. /\ CallTypes' /\ CallsWell' /\ calls'[n].pc = "answered" /\ calls'[n].kind = calls[n].kind
          /\ calls'[n].code = calls[n].code /\ calls'[n].offer = {}
          /\ \A i \in Call \ {n} : calls'[i] = calls[i]
          /\ \A c : Issued(c) => Issued(c)'
      BY <1>1, <1>3, PlainAnswer
    <2>2. OtpWell' /\ PageWell'
      BY <1>1, <1>2, <2>1, OtpKept, PageKept DEF Over
    <2> QED
      BY <1>2, <2>1, <2>2 DEF Typed, RowTypes, PageTypes
  <1>4. ASSUME NEW a \in Shop, calls' = [calls EXCEPT ![n].pc = "chosen", ![n].chosen = a]
        PROVE  Typed'
    <2> DEFINE r1 == [calls[n] EXCEPT !.pc = "chosen"]
               r == [r1 EXCEPT !.chosen = a]
    <2>1. calls' = [calls EXCEPT ![n] = r]
      BY <1>0, <1>4
    <2>2. r1 \in CallRecord
      BY <1>0, Advances
    <2>3. r.pc = "chosen" /\ r.by = calls[n].by /\ r.kind = calls[n].kind /\ r.target = calls[n].target
            /\ r.code = calls[n].code /\ r.chosen = a /\ r.answer = calls[n].answer
            /\ r.offer = calls[n].offer
      BY <1>0 DEF CallRecord
    <2> HIDE DEF r1
    <2>4. r \in CallRecord
      BY <2>2 DEF CallRecord
    <2> HIDE DEF r
    <2>5. calls[n].answer = "none" /\ calls[n].offer = {}
      BY <1>1 DEF Typed, CallsWell, Over
    <2>6. /\ CallTypes' /\ CallsWell' /\ calls'[n] = r
          /\ \A i \in Call \ {n} : calls'[i] = calls[i]
          /\ \A c : Issued(c) => Issued(c)'
      BY <1>1, <2>1, <2>3, <2>4, <2>5, CallChanges DEF Over
    <2>7. OtpWell' /\ PageWell'
      BY <1>1, <1>2, <2>3, <2>6, OtpKept, PageKept DEF Over
    <2> QED
      BY <1>2, <2>6, <2>7 DEF Typed, RowTypes, PageTypes
  <1>5. CASE /\ \A a \in Shop : Eligible(n) # {a}
             /\ calls' = [Answered(n, "choose") EXCEPT ![n].offer = Eligible(n)]
    <2>1. Eligible(n) \in SUBSET Shop /\ calls[n].target \in Phone
      BY <1>1, <1>5, Offers
    <2>2. /\ CallTypes' /\ CallsWell' /\ calls'[n].pc = "answered" /\ calls'[n].kind = calls[n].kind
          /\ calls'[n].code = calls[n].code
          /\ \A i \in Call \ {n} : calls'[i] = calls[i]
          /\ \A c : Issued(c) => Issued(c)'
      <3> DEFINE e == Eligible(n)
      <3>1. e \in SUBSET Shop /\ calls[n].pc # "idle" /\ calls[n].code # 0
        BY <1>1, <2>1
      <3>2. calls' = [Answered(n, "choose") EXCEPT ![n].offer = e]
        BY <1>5
      <3> HIDE DEF e
      <3> QED
        BY <3>1, <3>2, AnswerChanges
    <2>3. OtpWell' /\ PageWell'
      BY <1>1, <1>2, <2>1, <2>2, OtpKept, PageKept DEF Over
    <2> QED
      BY <1>2, <2>2, <2>3 DEF Typed, RowTypes, PageTypes
  <1> QED
    BY <1>3, <1>4, <1>5 DEF Choose

\* The shop fails, once the message is counted or before it is.
LEMMA TypedShopFails ==
  ASSUME ShopLinkAssumption, Typed, NEW n \in Call, ShopFails(n)
  PROVE  Typed'
  <1>1. /\ calls[n].pc \in {"sent", "texted", "matched"} /\ calls' = Answered(n, "gateway")
        /\ UNCHANGED <<otp, link, paid, page, acts>> /\ Fault
    BY DEF ShopFails, rows
  <1>2. bucket' \in [Member \cup Target \cup Shop -> 0 .. Limit]
    <2>1. CASE UNCHANGED bucket
      BY <2>1 DEF Typed, RowTypes
    <2>2. CASE (\A k \in Asked(n) : ~Spent(k)) /\ bucket' = Counted(Asked(n))
      BY <2>2, CountedTypes DEF Typed
    <2> QED
      BY <2>1, <2>2 DEF ShopFails
  <1>3. RowTypes'
    BY <1>1, <1>2 DEF Typed, RowTypes
  <1>4. PageTypes'
    BY <1>1, Counts DEF Typed, PageTypes
  <1>5. /\ CallTypes' /\ CallsWell' /\ calls'[n].pc = "answered" /\ calls'[n].kind = calls[n].kind
        /\ calls'[n].code = calls[n].code /\ calls'[n].offer = {}
        /\ \A i \in Call \ {n} : calls'[i] = calls[i]
        /\ \A c : Issued(c) => Issued(c)'
    BY <1>1, PlainAnswer
  <1>6. OtpWell' /\ PageWell'
    BY <1>1, <1>5, OtpKept, PageKept DEF Over
  <1> QED
    BY <1>3, <1>4, <1>5, <1>6 DEF Typed

\* The sheet hears.
LEMMA TypedHear ==
  ASSUME ShopLinkAssumption, Typed, NEW n \in Call,
         Hear(n) \/ Reread(n) \/ Settle(n) \/ Lose(n)
  PROVE  Typed'
  <1> USE DEF rows
  <1>0. calls \in [Call -> CallRecord] /\ calls[n] \in CallRecord /\ page \in PageRecord
    BY DEF Typed, CallTypes, PageTypes
  <1>1. UNCHANGED <<otp, link, paid, bucket, acts>> /\ faults' \in 0 .. MaxFault
    BY Counts DEF Hear, Reread, Settle, Lose, Typed, PageTypes
  <1>2. page.verify # 0 => page.verify \in Call
    BY <1>0 DEF PageRecord, Call
  <1>3. CASE Lose(n)
    <2>1. calls[n].pc # "idle" /\ calls' = Answered(n, "lost") /\ page' = page
      BY <1>3 DEF Lose
    <2>2. /\ CallTypes' /\ CallsWell' /\ calls'[n].pc = "answered" /\ calls'[n].kind = calls[n].kind
          /\ calls'[n].code = calls[n].code /\ calls'[n].offer = {}
          /\ \A i \in Call \ {n} : calls'[i] = calls[i]
          /\ \A c : Issued(c) => Issued(c)'
      BY <2>1, PlainAnswer
    <2>3. OtpWell' /\ PageWell'
      BY <1>1, <2>1, <2>2, OtpKept, PageKept DEF Over
    <2> QED
      BY <1>1, <2>1, <2>2, <2>3 DEF Typed, RowTypes, PageTypes
  <1>4. ASSUME NEW pc \in {"rereading", "reread", "heard"}, calls[n].pc \in Over, calls' = To(n, pc),
               page' \in PageRecord,
               \/ page' = page
               \/ page'.verify = 0 /\ page'.request = 0 /\ ~page'.sent /\ page'.choice = {}
               \/ \E linked : page' = [page EXCEPT !.linked = linked]
               \/ page' = [page EXCEPT !.sent = TRUE] /\ page.request # 0
               \/ page' = [page EXCEPT !.choice = calls[n].offer]
                    /\ page.verify = n /\ calls[n].kind = "verify"
        PROVE  Typed'
    <2>1. /\ CallTypes' /\ CallsWell' /\ calls'[n] = [calls[n] EXCEPT !.pc = pc] /\ calls'[n].pc = pc
          /\ \A i \in Call \ {n} : calls'[i] = calls[i]
          /\ \A c : Issued(c) => Issued(c)'
      BY <1>4, StepChanges DEF Over
    <2>2. calls'[n].kind = calls[n].kind /\ calls'[n].code = calls[n].code
            /\ calls'[n].target = calls[n].target /\ calls'[n].offer = calls[n].offer
      BY <1>0, <2>1 DEF CallRecord
    <2>3. OtpWell'
      BY <1>1, <2>1, OtpKept
    <2>4. PageWell'
      <3>1. ASSUME page.verify # 0
            PROVE  LET v == calls[page.verify]
                       w == calls'[page.verify]
                   IN /\ w.pc # "idle" /\ w.kind = v.kind /\ w.code = v.code /\ w.target = v.target
                      /\ w.offer = v.offer /\ (w.pc \in Over <=> v.pc \in Over)
        <4>1. CASE page.verify = n
          BY <1>4, <2>1, <2>2, <4>1 DEF Over
        <4>2. CASE page.verify # n
          BY <1>2, <2>1, <3>1, <4>2 DEF Typed, PageWell
        <4> QED
          BY <4>1, <4>2
      <3>2. CASE page' = page
        BY <3>1, <3>2 DEF Typed, PageWell
      <3>3. CASE page'.verify = 0 /\ page'.request = 0 /\ ~page'.sent /\ page'.choice = {}
        BY <3>3 DEF PageWell
      <3>4. ASSUME NEW linked, page' = [page EXCEPT !.linked = linked]
            PROVE  PageWell'
        BY <1>0, <3>1, <3>4 DEF Typed, PageWell, PageRecord
      <3>5. CASE page' = [page EXCEPT !.sent = TRUE] /\ page.request # 0
        BY <1>0, <3>1, <3>5 DEF Typed, PageWell, PageRecord
      <3>6. CASE page' = [page EXCEPT !.choice = calls[n].offer]
                   /\ page.verify = n /\ calls[n].kind = "verify"
        <4>1. calls[n].offer # {} => calls[n].code # 0 /\ page.value \in Phone /\ page.sent
                                       /\ page.code = calls[n].code
          BY <1>2, <3>6, Constants DEF Typed, CallsWell, PageWell
        <4> QED
          BY <1>0, <3>1, <3>6, <4>1 DEF Typed, PageWell, PageRecord
      <3> QED
        BY <1>4, <3>2, <3>3, <3>4, <3>5, <3>6
    <2> QED
      BY <1>1, <1>4, <2>1, <2>3, <2>4 DEF Typed, RowTypes, PageTypes
  <1>5. CASE Hear(n)
    <2>1. calls[n].pc \in Over /\ \E pc \in {"rereading", "heard"} : calls' = To(n, pc)
      BY <1>5 DEF Hear, Over
    <2>2. CASE n = page.request /\ calls[n].answer = "sent"
      <3>1. page' = [page EXCEPT !.sent = TRUE]
        BY <1>0, <1>5, <2>2 DEF Hear, PageRecord
      <3>2. page.request # 0
        BY <2>2, Constants
      <3>3. page' \in PageRecord
        BY <1>0, <3>1 DEF PageRecord
      <3> QED
        BY <1>4, <2>1, <3>1, <3>2, <3>3
    <2>3. CASE ~(n = page.request /\ calls[n].answer = "sent")
      <3>1. page' = page
        BY <1>0, <1>5, <2>3 DEF Hear, PageRecord
      <3> QED
        BY <1>0, <1>4, <2>1, <3>1
    <2> QED
      BY <2>2, <2>3
  <1>6. CASE Reread(n)
    <2>1. calls[n].pc \in Over /\ calls' = To(n, "reread")
      BY <1>6 DEF Reread, Over
    <2> DEFINE linked == link[Me] # None
    <2>2. \/ page' = page
          \/ page' = Closed(linked)
          \/ page' = [page EXCEPT !.linked = linked]
      BY <1>6 DEF Reread
    <2>3. linked \in BOOLEAN
      OBVIOUS
    <2> HIDE DEF linked
    <2>4. CASE page' = page
      BY <1>0, <1>4, <2>1, <2>4
    <2>5. CASE page' = Closed(linked)
      <3>1. page' \in PageRecord
        BY <2>3, <2>5, Constants DEF Closed, PageRecord
      <3>2. page'.verify = 0 /\ page'.request = 0 /\ ~page'.sent /\ page'.choice = {}
        BY <2>5 DEF Closed
      <3> QED
        BY <1>4, <2>1, <3>1, <3>2
    <2>6. CASE page' = [page EXCEPT !.linked = linked]
      <3>1. page' \in PageRecord
        BY <1>0, <2>3, <2>6 DEF PageRecord
      <3> QED
        BY <1>4, <2>1, <2>6, <3>1
    <2> QED
      BY <2>2, <2>4, <2>5, <2>6
  <1>7. CASE Settle(n)
    <2>1. calls[n].pc \in Over /\ calls' = To(n, "heard")
      BY <1>7 DEF Settle, Over
    <2>2. CASE n = page.verify /\ calls[n].kind = "verify"
      <3>1. page' = [page EXCEPT !.choice = calls[n].offer]
        BY <1>7, <2>2 DEF Settle
      <3>2. calls[n].offer \subseteq Shop
        BY <1>0 DEF CallRecord
      <3>3. page' \in PageRecord
        BY <1>0, <3>1, <3>2 DEF PageRecord
      <3> QED
        BY <1>4, <2>1, <2>2, <3>1, <3>3
    <2>3. CASE ~(n = page.verify /\ calls[n].kind = "verify")
      <3>1. page' = page
        BY <1>0, <1>7, <2>3 DEF Settle, PageRecord
      <3> QED
        BY <1>0, <1>4, <2>1, <3>1
    <2> QED
      BY <2>2, <2>3
  <1> QED
    BY <1>3, <1>5, <1>6, <1>7

\* A call comes in.
LEMMA TypedSend ==
  ASSUME ShopLinkAssumption, Typed, NEW n \in Call,
         \/ \E t \in Target : Request(n, t)
         \/ \E c \in Known : Verify(n, c)
         \/ \E a \in Shop : Pick(n, a)
         \/ \E m \in Member, a \in Shop \cup {None} : Elsewhere(n, m, a)
  PROVE  Typed'
  <1> USE DEF rows
  <1>0. page \in PageRecord /\ n \in 0 .. MaxCall /\ n # 0
    BY Constants DEF Typed, PageTypes
  <1>1. UNCHANGED <<otp, link, paid, bucket, acts, faults>>
    BY DEF Request, Verify, Pick, Elsewhere
  <1>2. CASE \E t \in Target : Request(n, t)
    <2>1. PICK t \in Target : Request(n, t)
      BY <1>2
    <2>2. /\ Free(n) /\ page.choice = {} /\ calls' = Sent(n, Me, "request", t, 0, None)
          /\ page' = [page EXCEPT !.value = t, !.request = n, !.verify = 0, !.code = 0]
      BY <2>1 DEF Request, Form
    <2>3. /\ CallTypes' /\ CallsWell' /\ \A d : Issued(d) => Issued(d)'
      BY <2>2, SentChanges, Constants
    <2>4. page' \in PageRecord
      BY <1>0, <2>2, Constants DEF PageRecord
    <2>5. page'.value = t /\ page'.choice = {} /\ page'.verify = 0
      BY <1>0, <2>2 DEF PageRecord
    <2>6. PageWell'
      BY <2>5 DEF PageWell
    <2>7. OtpWell'
      BY <1>1, <2>3, OtpKept
    <2> QED
      BY <1>1, <2>3, <2>4, <2>6, <2>7 DEF Typed, RowTypes, PageTypes
  <1>3. CASE \E c \in Known : Verify(n, c)
    <2>1. PICK c \in Known : Verify(n, c)
      BY <1>3
    <2>2. /\ Free(n) /\ page.choice = {} /\ page.sent
          /\ calls' = Sent(n, Me, "verify", page.value, c, None)
          /\ page' = [page EXCEPT !.verify = n, !.code = c]
      BY <2>1 DEF Verify, Form
    <2>3. c \in 0 .. Earlier /\ page.value \in Target
      BY <2>2, Constants DEF Known, Typed, PageWell
    <2>4. /\ CallTypes' /\ CallsWell' /\ calls'[n].pc = "sent" /\ calls'[n].target = page.value
          /\ calls'[n].code = c /\ calls'[n].offer = {} /\ \A d : Issued(d) => Issued(d)'
      BY <2>2, <2>3, SentChanges, Constants
    <2>5. page' \in PageRecord
      BY <1>0, <2>2, <2>3 DEF PageRecord
    <2>6. page'.value = page.value /\ page'.choice = {} /\ page'.verify = n /\ page'.code = c /\ page'.sent
      BY <1>0, <2>2 DEF PageRecord
    <2>7. PageWell'
      BY <2>3, <2>4, <2>6 DEF PageWell
    <2>8. OtpWell'
      BY <1>1, <2>4, OtpKept
    <2> QED
      BY <1>1, <2>4, <2>5, <2>7, <2>8 DEF Typed, RowTypes, PageTypes
  <1>4. CASE \E a \in Shop : Pick(n, a)
    <2>1. PICK a \in Shop : Pick(n, a)
      BY <1>4
    <2>2. /\ Free(n) /\ page.choice # {}
          /\ calls' = Sent(n, Me, "pick", page.value, page.code, a)
          /\ page' = [page EXCEPT !.verify = n]
      BY <2>1 DEF Pick
    <2>3. page.code \in 0 .. Earlier /\ page.code # 0 /\ page.value \in Target
            /\ page.value \in Phone /\ page.sent
      BY <1>0, <2>2 DEF PageRecord, Typed, PageWell
    <2>4. /\ CallTypes' /\ CallsWell' /\ calls'[n].pc = "sent" /\ calls'[n].kind = "pick"
          /\ \A d : Issued(d) => Issued(d)'
      BY <2>2, <2>3, SentChanges, Constants
    <2>5. page' \in PageRecord
      BY <1>0, <2>2 DEF PageRecord
    <2>6. page'.value = page.value /\ page'.verify = n /\ page'.code = page.code /\ page'.sent
      BY <1>0, <2>2, <2>3 DEF PageRecord
    <2>7. PageWell'
      BY <2>3, <2>4, <2>6 DEF PageWell
    <2>8. OtpWell'
      BY <1>1, <2>4, OtpKept
    <2> QED
      BY <1>1, <2>4, <2>5, <2>7, <2>8 DEF Typed, RowTypes, PageTypes
  <1>5. CASE \E m \in Member, a \in Shop \cup {None} : Elsewhere(n, m, a)
    <2>1. PICK m \in Member, a \in Shop \cup {None} : Elsewhere(n, m, a)
      BY <1>5
    <2>2. /\ Free(n) /\ otp[m].code = Earlier /\ page' = page
          /\ calls' = Sent(n, m, "verify", otp[m].target, Earlier, a)
      BY <2>1 DEF Elsewhere
    <2>3. otp[m] \in OtpRecord
      BY DEF Typed, RowTypes
    <2>4. otp[m].target \in Target
      BY <2>2, <2>3, Constants DEF Typed, OtpWell, OtpRecord
    <2>5. /\ CallTypes' /\ CallsWell' /\ calls[n].pc = "idle" /\ calls'[n].pc = "sent"
          /\ \A i \in Call \ {n} : calls'[i] = calls[i]
          /\ \A d : Issued(d) => Issued(d)'
      BY <2>2, <2>4, SentChanges, Constants
    <2>6. OtpWell' /\ PageWell'
      BY <1>1, <2>2, <2>5, OtpKept, PageKept
    <2> QED
      BY <1>1, <2>2, <2>5, <2>6 DEF Typed, RowTypes, PageTypes
  <1> QED
    BY <1>2, <1>3, <1>4, <1>5

\* No call takes part.
LEMMA TypedPage ==
  ASSUME ShopLinkAssumption, Typed,
         \/ \E m \in Member : Expire(m)
         \/ \E from \in {"credits", "profile"} : OpenSheet(from)
         \/ \E t \in Target : Retype(t)
         \/ CloseSheet
  PROVE  Typed'
  <1> USE DEF rows
  <1>0. page \in PageRecord
    BY DEF Typed, PageTypes
  <1>1. /\ UNCHANGED <<link, paid, bucket, calls, faults>>
        /\ acts' \in 0 .. MaxAct
    BY Counts DEF Expire, OpenSheet, Retype, CloseSheet, Typed, PageTypes
  <1>2. CallTypes' /\ CallsWell' /\ \A c : Issued(c) => Issued(c)'
    BY <1>1 DEF Typed, CallTypes, CallsWell, Issued
  <1>3. CASE \E m \in Member : Expire(m)
    <2>1. PICK m \in Member : Expire(m)
      BY <1>3
    <2>2. otp \in [Member -> OtpRecord] /\ otp[m] \in OtpRecord
      BY DEF Typed, RowTypes
    <2> DEFINE o == [otp[m] EXCEPT !.live = FALSE]
    <2>3. otp' = [otp EXCEPT ![m] = o] /\ page' = page
      BY <2>1 DEF Expire
    <2>4. o \in OtpRecord
      BY <2>2 DEF OtpRecord
    <2>5. o.target = otp[m].target /\ o.code = otp[m].code
      BY <2>2 DEF OtpRecord
    <2> HIDE DEF o
    <2>6. otp' \in [Member -> OtpRecord]
      BY <2>2, <2>3, <2>4
    <2>7. OtpWell'
      BY <1>2, <2>2, <2>3, <2>5 DEF Typed, OtpWell
    <2>8. PageWell'
      BY <1>1, <2>3 DEF Typed, PageWell
    <2> QED
      BY <1>1, <1>2, <2>3, <2>6, <2>7, <2>8 DEF Typed, RowTypes, PageTypes
  <1>4. ASSUME otp' = otp, page' \in PageRecord, PageWell'
        PROVE  Typed'
    BY <1>1, <1>2, <1>4, OtpKept DEF Typed, RowTypes, PageTypes
  <1>5. CASE \E from \in {"credits", "profile"} : OpenSheet(from)
    <2>1. PICK from \in {"credits", "profile"} : OpenSheet(from)
      BY <1>5
    <2>2. otp' = otp /\ page' = [Closed(FALSE) EXCEPT !.open = TRUE, !.from = from]
      BY <2>1 DEF OpenSheet
    <2>3. page' \in PageRecord
      BY <2>2, Constants DEF Closed, PageRecord
    <2>4. PageWell'
      BY <2>2 DEF Closed, PageWell
    <2> QED
      BY <1>4, <2>2, <2>3, <2>4
  <1>6. CASE \E t \in Target : Retype(t)
    <2>1. PICK t \in Target : Retype(t)
      BY <1>6
    <2>2. otp' = otp /\ page.choice = {} /\ ~page.sent
      BY <2>1 DEF Retype, Form
    <2>3. page' = [page EXCEPT !.value = t,
                     !.request = IF (page.value \in Phone) = (t \in Phone) THEN @ ELSE 0]
      BY <2>1 DEF Retype
    <2> DEFINE q == IF (page.value \in Phone) = (t \in Phone) THEN page.request ELSE 0
    <2>4. q \in 0 .. MaxCall
      BY <1>0, Constants DEF PageRecord
    <2>5. page' = [page EXCEPT !.value = t, !.request = q]
      BY <2>3
    <2> HIDE DEF q
    <2>6. page' \in PageRecord
      BY <1>0, <2>4, <2>5 DEF PageRecord
    <2>7. page'.value = t /\ page'.choice = {} /\ page'.verify = page.verify
      BY <1>0, <2>2, <2>5 DEF PageRecord
    <2>8. page.verify = 0
      BY <2>2 DEF Typed, PageWell
    <2>9. PageWell'
      BY <2>7, <2>8 DEF PageWell
    <2> QED
      BY <1>4, <2>2, <2>6, <2>9
  <1>7. CASE CloseSheet
    <2>1. otp' = otp /\ page' = Closed(page.linked)
      BY <1>7 DEF CloseSheet
    <2>2. page.linked \in BOOLEAN
      BY <1>0 DEF PageRecord
    <2> DEFINE l == page.linked
    <2>3. page' = Closed(l)
      BY <2>1
    <2> HIDE DEF l
    <2>4. Closed(l) \in PageRecord
      BY <2>2, Constants DEF l, Closed, PageRecord
    <2>5. PageWell'
      BY <2>3 DEF Closed, PageWell
    <2> QED
      BY <1>4, <2>1, <2>3, <2>4, <2>5
  <1> QED
    BY <1>3, <1>5, <1>6, <1>7

LEMMA TypedStep ==
  ASSUME ShopLinkAssumption, Typed, [Next]_vars
  PROVE  Typed'
  <1>1. CASE UNCHANGED vars
    BY <1>1 DEF vars, rows, Typed, RowTypes, CallTypes, PageTypes, CallsWell, OtpWell, Issued, PageWell
  <1>2. CASE Next
    BY <1>2, TypedText, TypedRow, TypedChoose, TypedShopFails, TypedHear, TypedSend, TypedPage DEF Next
  <1> QED
    BY <1>1, <1>2
-----------------------------------------------------------------------------
\* One verification at a time holds the row of a member, and the code it
\* compared stays the saved one until it commits.
Lock ==
  /\ \A n \in Call : calls[n].pc = "checked" => Same(n)
  /\ \A n, k \in Call :
       (calls[n].pc = "checked" /\ calls[k].pc = "checked" /\ calls[n].by = calls[k].by) => n = k

\* The code that linked is saved no more, and no later request texts it.
UsedUp ==
  \A n \in Call :
    calls[n].answer = "linked" => Issued(calls[n].code) /\ otp[calls[n].by].code # calls[n].code

LinksOnce ==
  \A n, k \in Call :
    (n # k /\ calls[n].by = calls[k].by /\ calls[n].answer = "linked" /\ calls[k].answer = "linked")
      => calls[n].code # calls[k].code

LinkInv == Typed /\ Lock /\ UsedUp /\ LinksOnce

\* A step that neither checks nor links: it takes a saved code away only
\* where no verification holds the row, for one that was never used.
LEMMA LinkKept ==
  ASSUME LinkInv, \A c : Issued(c) => Issued(c)',
         \A i \in Call :
           \/ calls'[i] = calls[i]
           \/ /\ calls'[i].pc # "checked"
              /\ calls'[i].answer = "linked" =>
                   /\ calls[i].answer = "linked" /\ calls'[i].by = calls[i].by
                   /\ calls'[i].code = calls[i].code,
         \A m \in Member :
           \/ otp'[m].target = otp[m].target /\ otp'[m].code = otp[m].code
           \/ Unlocked(m) /\ ~Issued(otp'[m].code)
  PROVE  Lock' /\ UsedUp' /\ LinksOnce'
  <1>1. \A i \in Call : (calls[i].pc = "checked" \/ calls[i].answer = "linked") => calls[i].by \in Member
    BY DEF LinkInv, Typed, CallsWell, Over
  <1>2. Lock'
    <2>1. \A i \in Call : calls'[i].pc = "checked" => calls'[i] = calls[i]
      OBVIOUS
    <2>2. ASSUME NEW i \in Call, calls'[i].pc = "checked"
          PROVE  Same(i)'
      <3>1. calls'[i] = calls[i] /\ calls[i].by \in Member /\ Same(i)
        BY <1>1, <2>1, <2>2 DEF LinkInv, Lock
      <3>2. ~Unlocked(calls[i].by)
        BY <2>2, <3>1 DEF Unlocked
      <3> QED
        BY <3>1, <3>2 DEF Same
    <2>3. ASSUME NEW i \in Call, NEW k \in Call, calls'[i].pc = "checked", calls'[k].pc = "checked",
                 calls'[i].by = calls'[k].by
          PROVE  i = k
      BY <2>1, <2>3 DEF LinkInv, Lock
    <2> QED
      BY <2>2, <2>3 DEF Lock
  <1>3. \A i \in Call : calls'[i].answer = "linked" =>
          /\ calls[i].answer = "linked" /\ calls'[i].by = calls[i].by /\ calls'[i].code = calls[i].code
    OBVIOUS
  <1>4. ASSUME NEW i \in Call, calls'[i].answer = "linked"
        PROVE  (Issued(calls[i].code) /\ otp[calls[i].by].code # calls[i].code)'
    <2>1. PICK d : d = calls[i].code
      OBVIOUS
    <2>2. Issued(d) /\ otp[calls[i].by].code # d /\ calls[i].by \in Member
      BY <1>1, <1>3, <1>4, <2>1 DEF LinkInv, UsedUp
    <2>3. otp'[calls[i].by].code # d
      BY <2>2
    <2>4. calls'[i].by = calls[i].by /\ calls'[i].code = d
      BY <1>3, <1>4, <2>1
    <2>5. Issued(d)'
      BY <2>2
    <2> QED
      BY <2>3, <2>4, <2>5 DEF Issued
  <1>5. UsedUp'
    BY <1>4 DEF UsedUp
  <1>6. LinksOnce'
    BY <1>3 DEF LinkInv, LinksOnce
  <1> QED
    BY <1>2, <1>5, <1>6

\* The steps of one call that leave the rows alone.
LEMMA LinkCall ==
  ASSUME ShopLinkAssumption, LinkInv, NEW n \in Call,
         Text(n) \/ Choose(n) \/ ShopFails(n) \/ Hear(n) \/ Reread(n) \/ Settle(n) \/ Lose(n)
  PROVE  Lock' /\ UsedUp' /\ LinksOnce'
  <1> USE DEF rows
  <1>0. calls \in [Call -> CallRecord] /\ calls[n] \in CallRecord /\ Typed
    BY DEF LinkInv, Typed, CallTypes
  <1>1. otp' = otp /\ calls[n].pc # "idle"
    BY DEF Text, Choose, ShopFails, Hear, Reread, Settle, Lose
  <1>2. ASSUME \A i \in Call \ {n} : calls'[i] = calls[i], calls'[n].pc # "checked",
               calls'[n].answer = "linked" =>
                 /\ calls[n].answer = "linked" /\ calls'[n].by = calls[n].by
                 /\ calls'[n].code = calls[n].code,
               calls'[n].pc \in Over \/ calls[n].pc \notin Over, calls'[n].kind = calls[n].kind
        PROVE  Lock' /\ UsedUp' /\ LinksOnce'
    <2>1. \A c : Issued(c) => Issued(c)'
      BY <1>2 DEF Issued
    <2>2. \A i \in Call :
           \/ calls'[i] = calls[i]
           \/ /\ calls'[i].pc # "checked"
              /\ calls'[i].answer = "linked" =>
                   /\ calls[i].answer = "linked" /\ calls'[i].by = calls[i].by
                   /\ calls'[i].code = calls[i].code
      BY <1>2
    <2> QED
      BY <1>1, <2>1, <2>2, LinkKept
  <1>3. ASSUME NEW answer \in {"limited", "unknown", "taken", "gateway", "lost"}, calls' = Answered(n, answer)
        PROVE  Lock' /\ UsedUp' /\ LinksOnce'
    <2>1. calls'[n].pc = "answered" /\ calls'[n].answer = answer /\ calls'[n].kind = calls[n].kind
            /\ \A i \in Call \ {n} : calls'[i] = calls[i]
      BY <1>0, <1>1, <1>3, PlainAnswer
    <2> QED
      BY <1>2, <2>1 DEF Over
  <1>4. ASSUME NEW pc \in {"rereading", "reread", "heard"}, calls[n].pc \in Over, calls' = To(n, pc)
        PROVE  Lock' /\ UsedUp' /\ LinksOnce'
    <2>1. calls'[n].pc = pc /\ calls'[n].answer = calls[n].answer /\ calls'[n].by = calls[n].by
            /\ calls'[n].code = calls[n].code /\ calls'[n].kind = calls[n].kind
            /\ \A i \in Call \ {n} : calls'[i] = calls[i]
      BY <1>0, <1>4 DEF To, CallRecord
    <2> QED
      BY <1>2, <2>1 DEF Over
  <1>5. CASE Text(n)
    <2>1. calls[n].pc = "sent" /\ calls[n].answer = "none"
      BY <1>0, <1>5 DEF Text, Typed, CallsWell, Over
    <2>2. CASE \E answer \in {"limited", "unknown", "taken"} : calls' = Answered(n, answer)
      BY <1>3, <2>2
    <2>3. CASE calls' = [calls EXCEPT ![n].pc = "texted", ![n].code = n]
      <3>1. calls'[n].pc = "texted" /\ calls'[n].answer = "none" /\ calls'[n].kind = calls[n].kind
              /\ \A i \in Call \ {n} : calls'[i] = calls[i]
        BY <1>0, <2>1, <2>3 DEF CallRecord
      <3> QED
        BY <1>2, <2>1, <3>1 DEF Over
    <2> QED
      BY <1>5, <2>2, <2>3 DEF Text
  <1>6. CASE Choose(n)
    <2>1. calls[n].pc = "matched" /\ calls[n].answer = "none"
            /\ calls[n].code # 0 /\ calls[n].target \in Target
      BY <1>0, <1>6 DEF Choose, Typed, CallsWell, Over
    <2>2. CASE calls' = Answered(n, "taken")
      BY <1>3, <2>2
    <2>3. CASE \E a \in Shop : calls' = [calls EXCEPT ![n].pc = "chosen", ![n].chosen = a]
      <3>1. PICK a \in Shop : calls' = [calls EXCEPT ![n].pc = "chosen", ![n].chosen = a]
        BY <2>3
      <3>2. calls'[n].pc = "chosen" /\ calls'[n].answer = "none" /\ calls'[n].kind = calls[n].kind
              /\ \A i \in Call \ {n} : calls'[i] = calls[i]
        BY <1>0, <2>1, <3>1 DEF CallRecord
      <3> QED
        BY <1>2, <2>1, <3>2 DEF Over
    <2>4. CASE calls' = [Answered(n, "choose") EXCEPT ![n].offer = Eligible(n)]
      <3>1. Eligible(n) \in SUBSET Shop
        BY <2>1, Offers
      <3>2. calls'[n].pc = "answered" /\ calls'[n].answer = "choose" /\ calls'[n].kind = calls[n].kind
              /\ \A i \in Call \ {n} : calls'[i] = calls[i]
        BY <1>0, <1>1, <2>1, <2>4, <3>1, AnswerChanges
      <3> QED
        BY <1>2, <3>2 DEF Over
    <2> QED
      BY <1>6, <2>2, <2>3, <2>4 DEF Choose
  <1>7. CASE ShopFails(n)
    BY <1>3, <1>7 DEF ShopFails
  <1>8. CASE Hear(n)
    BY <1>4, <1>8 DEF Hear, Over
  <1>9. CASE Reread(n)
    BY <1>4, <1>9 DEF Reread, Over
  <1>10. CASE Settle(n)
    BY <1>4, <1>10 DEF Settle, Over
  <1>11. CASE Lose(n)
    BY <1>3, <1>11 DEF Lose
  <1> QED
    BY <1>5, <1>6, <1>7, <1>8, <1>9, <1>10, <1>11

\* The steps without a call, or that begin one.
LEMMA LinkBegin ==
  ASSUME ShopLinkAssumption, LinkInv,
         \/ \E n \in Call, t \in Target : Request(n, t)
         \/ \E n \in Call, c \in Known : Verify(n, c)
         \/ \E n \in Call, a \in Shop : Pick(n, a)
         \/ \E n \in Call, m \in Member, a \in Shop \cup {None} : Elsewhere(n, m, a)
         \/ \E m \in Member : Expire(m)
         \/ \E from \in {"credits", "profile"} : OpenSheet(from)
         \/ \E t \in Target : Retype(t)
         \/ CloseSheet
  PROVE  Lock' /\ UsedUp' /\ LinksOnce'
  <1> USE DEF rows
  <1>0. calls \in [Call -> CallRecord] /\ otp \in [Member -> OtpRecord]
    BY DEF LinkInv, Typed, CallTypes, RowTypes
  <1>1. \A m \in Member : otp'[m].target = otp[m].target /\ otp'[m].code = otp[m].code
    <2>1. CASE \E m \in Member : Expire(m)
      <3>1. PICK m \in Member : otp' = [otp EXCEPT ![m].live = FALSE]
        BY <2>1 DEF Expire
      <3> QED
        BY <1>0, <3>1 DEF OtpRecord
    <2>2. CASE otp' = otp
      BY <2>2
    <2> QED
      BY <2>1, <2>2 DEF Request, Verify, Pick, Elsewhere, OpenSheet, Retype, CloseSheet
  <1>2. CASE \E n \in Call : \E m, k, t, c, p : Free(n) /\ calls' = Sent(n, m, k, t, c, p)
    <2>0. PICK n \in Call : \E m, k, t, c, p : Free(n) /\ calls' = Sent(n, m, k, t, c, p)
      BY <1>2
    <2>1. PICK m, k, t, c, p : Free(n) /\ calls' = Sent(n, m, k, t, c, p)
      BY <2>0
    <2>2. calls'[n].pc = "sent" /\ calls'[n].answer = "none" /\ \A i \in Call \ {n} : calls'[i] = calls[i]
      BY <1>0, <2>1 DEF Sent, NoCall
    <2>3. calls[n].pc = "idle"
      BY <2>1 DEF Free
    <2>4. \A c1 : Issued(c1) => Issued(c1)'
      BY <2>2, <2>3 DEF Issued, Over
    <2> QED
      BY <1>1, <2>2, <2>4, LinkKept
  <1>3. CASE calls' = calls
    <2>1. \A c : Issued(c) => Issued(c)'
      BY <1>3 DEF Issued
    <2> QED
      BY <1>1, <1>3, <2>1, LinkKept
  <1>4. CASE \/ \E n \in Call, t \in Target : Request(n, t)
             \/ \E n \in Call, c \in Known : Verify(n, c)
             \/ \E n \in Call, a \in Shop : Pick(n, a)
             \/ \E n \in Call, m \in Member, a \in Shop \cup {None} : Elsewhere(n, m, a)
    BY <1>2, <1>4 DEF Request, Verify, Pick, Elsewhere
  <1>5. CASE \/ \E m \in Member : Expire(m)
             \/ \E from \in {"credits", "profile"} : OpenSheet(from)
             \/ \E t \in Target : Retype(t)
             \/ CloseSheet
    BY <1>3, <1>5 DEF Expire, OpenSheet, Retype, CloseSheet
  <1> QED
    BY <1>4, <1>5

\* The steps at the row of the member.
LEMMA LinkRow ==
  ASSUME ShopLinkAssumption, LinkInv, NEW n \in Call,
         SaveCode(n) \/ Match(n) \/ CheckLink(n) \/ Commit(n)
  PROVE  Lock' /\ UsedUp' /\ LinksOnce'
  <1> USE DEF rows
  <1>0. calls \in [Call -> CallRecord] /\ calls[n] \in CallRecord /\ otp \in [Member -> OtpRecord] /\ Typed
    BY DEF LinkInv, Typed, CallTypes, RowTypes
  <1>1. ~Issued(0)
    BY Constants DEF Issued
  <1>2. \A c \in Call : calls[c].pc \notin Over => ~Issued(c)
    BY Constants DEF Issued
  <1>3. calls[n].pc \in {"texted", "sent", "chosen", "checked"} /\ calls[n].by \in Member
          /\ calls[n].answer = "none"
    BY DEF SaveCode, Match, CheckLink, Commit, LinkInv, Typed, CallsWell, Over
  <1>4. ASSUME NEW answer \in {"sent", "invalid", "taken"}, calls' = Answered(n, answer),
               \A m \in Member :
                 \/ otp'[m].target = otp[m].target /\ otp'[m].code = otp[m].code
                 \/ Unlocked(m) /\ ~Issued(otp'[m].code)
        PROVE  Lock' /\ UsedUp' /\ LinksOnce'
    <2>1. calls'[n].pc = "answered" /\ calls'[n].answer = answer
            /\ \A i \in Call \ {n} : calls'[i] = calls[i]
      BY <1>0, <1>3, <1>4, PlainAnswer
    <2>2. \A c : Issued(c) => Issued(c)'
      BY <1>0, <1>3, <1>4, PlainAnswer
    <2> QED
      BY <1>4, <2>1, <2>2, LinkKept
  <1>5. CASE SaveCode(n)
    <2>1. calls[n].pc = "texted" /\ Unlocked(calls[n].by) /\ calls' = Answered(n, "sent")
            /\ otp' = [otp EXCEPT ![calls[n].by] = [target |-> calls[n].target, code |-> n, live |-> TRUE]]
      BY <1>5 DEF SaveCode
    <2>2. ~Issued(n)
      BY <1>2, <2>1 DEF Over
    <2>3. \A m \in Member :
            \/ otp'[m].target = otp[m].target /\ otp'[m].code = otp[m].code
            \/ m = calls[n].by /\ otp'[m].code = n
      BY <1>0, <2>1
    <2> QED
      BY <1>4, <2>1, <2>2, <2>3
  <1>6. CASE Match(n)
    <2>1. calls[n].pc = "sent" /\ Unlocked(calls[n].by)
      BY <1>6 DEF Match
    <2>2. CASE calls' = To(n, "matched") /\ otp' = otp
      <3>1. calls'[n].pc = "matched" /\ calls'[n].answer = "none" /\ calls'[n].kind = calls[n].kind
              /\ \A i \in Call \ {n} : calls'[i] = calls[i]
        BY <1>0, <1>3, <2>2 DEF To, CallRecord
      <3>2. \A c : Issued(c) => Issued(c)'
        BY <2>1, <3>1 DEF Issued, Over
      <3> QED
        BY <2>2, <3>1, <3>2, LinkKept
    <2>3. CASE calls' = Answered(n, "invalid") /\ otp' = [otp EXCEPT ![calls[n].by] = NoOtp]
      <3>1. \A m \in Member :
              \/ otp'[m].target = otp[m].target /\ otp'[m].code = otp[m].code
              \/ m = calls[n].by /\ otp'[m].code = 0
        BY <1>0, <2>3 DEF NoOtp
      <3> QED
        BY <1>1, <1>4, <2>1, <2>3, <3>1
    <2> QED
      BY <1>6, <2>2, <2>3 DEF Match
  <1>7. CASE CheckLink(n)
    <2>1. calls[n].pc = "chosen" /\ Unlocked(calls[n].by) /\ otp' = otp
      BY <1>7 DEF CheckLink
    <2>2. CASE \E answer \in {"invalid", "taken"} : calls' = Answered(n, answer)
      BY <1>4, <2>1, <2>2
    <2>3. CASE Same(n) /\ calls' = To(n, "checked")
      <3>1. /\ calls'[n].pc = "checked" /\ calls'[n].answer = "none" /\ calls'[n].kind = calls[n].kind
            /\ calls'[n].by = calls[n].by /\ calls'[n].target = calls[n].target /\ calls'[n].code = calls[n].code
            /\ \A i \in Call \ {n} : calls'[i] = calls[i]
        BY <1>0, <1>3, <2>3 DEF To, CallRecord
      <3>2. \A c : Issued(c) => Issued(c)'
        BY <2>1, <3>1 DEF Issued, Over
      <3>3. \A i \in Call : calls'[i].pc = "checked" => Same(i)'
        BY <2>1, <2>3, <3>1 DEF LinkInv, Lock, Same
      <3>4. \A i \in Call \ {n} : calls'[i].pc = "checked" => calls'[i].by # calls'[n].by
        BY <2>1, <3>1 DEF Unlocked
      <3>5. Lock'
        BY <3>1, <3>3, <3>4 DEF LinkInv, Lock
      <3>6. UsedUp'
        BY <2>1, <3>1, <3>2 DEF LinkInv, UsedUp, Issued
      <3>7. LinksOnce'
        BY <3>1 DEF LinkInv, LinksOnce
      <3> QED
        BY <3>5, <3>6, <3>7
    <2> QED
      BY <1>7, <2>2, <2>3 DEF CheckLink, StillSaved
  <1>8. CASE Commit(n)
    <2>1. calls[n].pc = "checked"
      BY <1>8 DEF Commit
    <2>2. CASE calls' = Answered(n, "taken") /\ otp' = otp
      BY <1>4, <2>2
    <2>3. CASE calls' = Answered(n, "linked") /\ otp' = [otp EXCEPT ![calls[n].by] = NoOtp]
      <3>1. /\ calls'[n].pc = "answered" /\ calls'[n].answer = "linked" /\ calls'[n].by = calls[n].by
            /\ calls'[n].code = calls[n].code /\ \A i \in Call \ {n} : calls'[i] = calls[i]
        BY <1>0, <1>3, <2>3, PlainAnswer
      <3>2. \A c : Issued(c) => Issued(c)'
        BY <1>0, <1>3, <2>3, PlainAnswer
      <3>3. otp'[calls[n].by].code = 0 /\ \A m \in Member \ {calls[n].by} : otp'[m] = otp[m]
        BY <1>0, <1>3, <2>3 DEF NoOtp
      <3>4. \A i \in Call : (calls[i].pc = "checked" \/ calls[i].answer = "linked") => calls[i].by \in Member
        BY <1>0 DEF Typed, CallsWell, Over
      <3>5. \A i \in Call \ {n} : calls[i].pc = "checked" => calls[i].by # calls[n].by
        BY <2>1 DEF LinkInv, Lock
      <3>6. Lock'
        <4>1. \A i \in Call : calls'[i].pc = "checked" => i # n /\ calls'[i] = calls[i]
          BY <3>1
        <4>2. \A i \in Call : calls'[i].pc = "checked" => Same(i)'
          BY <3>3, <3>4, <3>5, <4>1 DEF LinkInv, Lock, Same
        <4> QED
          BY <4>1, <4>2 DEF LinkInv, Lock
      <3>7. Same(n) /\ calls[n].target \in Target
        BY <1>0, <2>1 DEF LinkInv, Lock, Typed, CallsWell, Over
      <3>8. Issued(calls[n].code) /\ calls[n].code # 0 /\ otp[calls[n].by].code = calls[n].code
        BY <1>0, <1>1, <1>3, <3>7, Constants DEF Same, Typed, OtpWell
      <3>9. UsedUp'
        <4>1. ASSUME NEW i \in Call, calls'[i].answer = "linked"
              PROVE  (Issued(calls[i].code) /\ otp[calls[i].by].code # calls[i].code)'
          <5>1. PICK d : d = calls[i].code
            OBVIOUS
          <5>2. Issued(d) /\ calls'[i].by = calls[i].by /\ calls'[i].code = d
            BY <3>1, <3>8, <4>1, <5>1 DEF LinkInv, UsedUp
          <5>3. d # 0
            BY <1>1, <5>2
          <5>4. otp'[calls[i].by].code # d
            <6>1. CASE calls[i].by = calls[n].by
              BY <3>3, <5>3, <6>1
            <6>2. CASE calls[i].by # calls[n].by
              <7>1. calls[i].answer = "linked" /\ calls[i].by \in Member
                BY <3>1, <3>4, <4>1, <6>2
              <7> QED
                BY <3>3, <5>1, <6>2, <7>1 DEF LinkInv, UsedUp
            <6> QED
              BY <6>1, <6>2
          <5>5. Issued(d)'
            BY <3>2, <5>2
          <5> QED
            BY <5>2, <5>4, <5>5 DEF Issued
        <4> QED
          BY <4>1 DEF UsedUp
      <3>10. \A i \in Call \ {n} :
               (calls'[i].answer = "linked" /\ calls'[i].by = calls'[n].by)
                 => calls'[i].code # calls'[n].code
        BY <3>1, <3>8 DEF LinkInv, UsedUp
      <3>11. LinksOnce'
        BY <3>1, <3>10 DEF LinkInv, LinksOnce
      <3> QED
        BY <3>6, <3>9, <3>11
    <2> QED
      BY <1>8, <2>2, <2>3 DEF Commit
  <1> QED
    BY <1>5, <1>6, <1>7, <1>8

LEMMA LinkInit ==
  ASSUME ShopLinkAssumption, Init
  PROVE  LinkInv
  <1>1. \A n \in Call : calls[n].pc = "idle" /\ calls[n].answer = "none"
    BY DEF Init, NoCall
  <1> QED
    BY <1>1, TypedInit DEF LinkInv, Lock, UsedUp, LinksOnce

LEMMA LinkStep ==
  ASSUME ShopLinkAssumption, LinkInv, [Next]_vars
  PROVE  LinkInv'
  <1>1. Typed'
    BY TypedStep DEF LinkInv
  <1>2. CASE UNCHANGED vars
    BY <1>1, <1>2 DEF vars, rows, LinkInv, Lock, UsedUp, LinksOnce, Issued, Same
  <1>3. CASE Next
    BY <1>1, <1>3, LinkCall, LinkBegin, LinkRow DEF Next, LinkInv
  <1> QED
    BY <1>2, <1>3
-----------------------------------------------------------------------------
\* The types of the module: nobody asks for, and no account is sent, more
\* messages than the limit, a link and its payment come together, and accounts
\* are offered only where a code for a telephone was entered.
THEOREM ShopLinkTypeCorrect == Spec => []TypeOK
  <1>1. Init => Typed
    BY TypedInit, ShopLinkAssumption
  <1>2. Typed /\ [Next]_vars => Typed'
    BY TypedStep, ShopLinkAssumption
  <1>3. Typed => TypeOK
    <2> SUFFICES ASSUME Typed
                 PROVE  TypeOK
      OBVIOUS
    <2>1. \A n \in Call : calls[n] \in CallRecord
      BY DEF Typed, CallTypes
    <2>2. \A n \in Call :
            /\ calls[n].pc \in {"idle", "sent", "texted", "matched", "chosen",
                                "checked", "answered", "rereading", "reread", "heard"}
            /\ calls[n].pc # "idle" => calls[n].by \in Member
            /\ calls[n].pc = "checked" => calls[n].chosen \in Shop
      BY <2>1 DEF CallRecord, Typed, CallsWell
    <2>3. {page.request, page.verify} \subseteq 0 .. MaxCall
      BY DEF Typed, PageTypes, PageRecord
    <2> QED
      BY <2>2, <2>3 DEF Typed, RowTypes, PageTypes, PageWell, OtpRecord, TypeOK
  <1> QED
    BY <1>1, <1>2, <1>3, PTL DEF Spec

\* A code texted to a member links once, whichever verifications matched it
\* and whatever later requests saved over it.
THEOREM TextedCodeLinksOnce == Spec => []CodeLinksOnce
  <1>1. Init => LinkInv
    BY LinkInit, ShopLinkAssumption
  <1>2. LinkInv /\ [Next]_vars => LinkInv'
    BY LinkStep, ShopLinkAssumption
  <1>3. LinkInv => CodeLinksOnce
    <2>1. \A a, b : {a, b} = {"linked"} => a = "linked" /\ b = "linked"
      OBVIOUS
    <2> QED
      BY <2>1 DEF LinkInv, LinksOnce, CodeLinksOnce
  <1> QED
    BY <1>1, <1>2, <1>3, PTL DEF Spec

\* A shop account belongs to one member, whoever checked it at the same time.
THEOREM ShopAccountHasOneOwner == Spec => []SoleOwner
  <1>1. Init => Typed /\ SoleOwner
    BY TypedInit, ShopLinkAssumption DEF Init, SoleOwner
  <1>2. Typed /\ SoleOwner /\ [Next]_vars => (Typed /\ SoleOwner)'
    <2> SUFFICES ASSUME Typed, SoleOwner, [Next]_vars
                 PROVE  SoleOwner'
      BY TypedStep, ShopLinkAssumption
    <2>1. CASE link' = link
      BY <2>1 DEF SoleOwner
    <2>2. ASSUME NEW n \in Call, Commit(n), Unique(n),
                 link' = [link EXCEPT ![calls[n].by] = calls[n].chosen]
          PROVE  SoleOwner'
      <3>1. \A m \in Member : link[m] = calls[n].chosen => m = calls[n].by
        BY <2>2 DEF Unique, Owners
      <3>2. \A m \in Member : link'[m] = IF m = calls[n].by THEN calls[n].chosen ELSE link[m]
        BY <2>2 DEF Typed, RowTypes
      <3> QED
        BY <3>1, <3>2 DEF SoleOwner
    <2>3. \/ link' = link
          \/ \E n \in Call : /\ Commit(n) /\ Unique(n)
                             /\ link' = [link EXCEPT ![calls[n].by] = calls[n].chosen]
      <3>1. CASE UNCHANGED vars
        BY <3>1 DEF vars, rows
      <3>2. CASE \E n \in Call : Commit(n)
        BY <3>2 DEF Commit, rows
      <3>3. CASE Next /\ ~\E n \in Call : Commit(n)
        BY <3>3 DEF Next, rows, Text, SaveCode, Match, Choose, CheckLink, ShopFails, Hear, Reread,
                    Settle, Lose, Request, Verify, Pick, Elsewhere, Expire, OpenSheet, Retype, CloseSheet
      <3> QED
        BY <3>1, <3>2, <3>3
    <2> QED
      BY <2>1, <2>2, <2>3
  <1> QED
    BY <1>1, <1>2, PTL DEF Spec
=============================================================================
