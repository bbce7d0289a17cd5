--------------------------- MODULE SessionProofs ---------------------------
(***************************************************************************)
(* Theorems about Session.tla, for any number of tabs, tasks, acts and     *)
(* faults: its types, that a member who can go on is not signed out, and,  *)
(* in one tab, that a renewal is refused only for a reason outside it.     *)
(***************************************************************************)
EXTENDS Session, SequenceTheorems, TLAPS

RowRecord == [kind : {"member", "guest", "gone"}, ver : Nat, refresh : Nat]
GrantRecord == [row : Nat, kind : {"member", "guest"}, ver : Nat]
Kind == {"none", "guest", "member"}
StoreRecord == [token : Nat, kind : Kind, refresh : Nat]

TaskName == UserCall \cup {"none", "boot", "recover", "rotate", "reissue", "retry"}
Pc == {"idle", "ready", "sent", "back", "rotating", "reissuing"}
Answer == {"none", "ok", "unauthorized", "expired", "refused", "limited", "network"}
FrameRecord ==
  [task : TaskName, call : Call, pc : Pc, token : Nat, kind : Kind,
   refresh : Nat, retried : BOOLEAN, answer : Answer, got : Nat]

ApiTypes ==
  /\ rows \in Seq(RowRecord) /\ grants \in Seq(GrantRecord)
  /\ account \in 0 .. Len(rows) /\ code \in [row : 0 .. Len(rows), ver : Nat]

ScreenTypes ==
  /\ open \subseteq Tab /\ lost \subseteq Tab /\ limited \subseteq Tab /\ throttled \subseteq Tab
  /\ acts \in 0 .. MaxAct /\ faults \in 0 .. MaxFault

FrameTypes == frame \in [Tab -> [Frame -> FrameRecord]]

\* The API: the account is a member, a refresh token is the last one of a
\* member's present version, and a row that had a member has one or is gone.
ApiMeans ==
  /\ account # 0 => rows[account].kind = "member"
  /\ \A i \in DOMAIN rows : rows[i].refresh # 0
       => /\ rows[i].kind = "member" /\ rows[i].refresh \in DOMAIN grants
          /\ grants[rows[i].refresh].row = i /\ grants[rows[i].refresh].ver = rows[i].ver
  /\ \A n \in DOMAIN grants :
       /\ grants[n].row \in DOMAIN rows /\ grants[n].ver <= rows[grants[n].row].ver
       /\ grants[n].kind = "member" => rows[grants[n].row].kind # "guest"

\* The member of this grant is gone, or its access was taken back.
Dead(n) == rows[grants[n].row].kind = "gone" \/ rows[grants[n].row].ver > grants[n].ver

StoreMeans ==
  /\ store \in StoreRecord
  /\ store.token = 0 <=> store.kind = "none"
  /\ store.refresh # 0 => store.kind = "member" /\ store.refresh = store.token
  /\ store.token # 0 => store.token \in DOMAIN grants /\ grants[store.token].kind = store.kind

\* Which calls a place of a tab may hold.
Placed(f, r) ==
  /\ r.call \in UserCall => f \in Task /\ r.task = r.call
  /\ r.task \in UserCall => f \in Task
  /\ r.call = "refresh" => f = "rotate"
  /\ r.pc \in {"rotating", "reissuing"} => f \in Task
  /\ f = "reissue" => r = Idle \/ r.call = "issue"
  /\ f = "rotate" => r = Idle \/ (r.call = "refresh" /\ r.pc \in {"sent", "back"} /\ r.refresh # 0)

\* What a call was sent with is a grant of that kind, and if it is still stored it
\* is stored as it was.
SentWell(r) ==
  /\ r.token = 0 <=> r.kind = "none"
  /\ r.token # 0 => /\ r.token \in DOMAIN grants /\ grants[r.token].kind = r.kind
                    /\ r.token = store.token => r.kind = store.kind /\ r.refresh = store.refresh
  /\ r.refresh # 0 => r.refresh \in DOMAIN grants

\* What a call was answered is true, and stays true.
Told(f, r) ==
  /\ r.got # 0 => r.got \in DOMAIN grants
  /\ r.pc = "back" /\ r.answer = "ok" /\ r.call \in {"login", "callback", "refresh", "issue", "handoff"}
       => r.got # 0 /\ grants[r.got].kind = IF r.call = "issue" THEN "guest" ELSE "member"
  /\ r.pc = "back" /\ r.call \in UserCall \ {"callback"} /\ r.kind = "member"
       => /\ r.answer = "unauthorized" => Dead(r.token)
          /\ r.answer = "expired" => r.token \in expired
  /\ f = "rotate" /\ r.answer = "unauthorized" => \A i \in DOMAIN rows : rows[i].refresh # r.refresh

FramesMean ==
  \A t \in Tab, f \in Frame :
    Placed(f, frame[t][f]) /\ SentWell(frame[t][f]) /\ Told(f, frame[t][f])

\* A session that was granted and has not arrived is known to nobody else.
Apart(t, f) ==
  /\ frame[t][f].got # store.token
  /\ \A s \in Tab, g \in Frame :
       /\ frame[s][g].token # frame[t][f].got /\ frame[s][g].refresh # frame[t][f].got
       /\ frame[s][g].got = frame[t][f].got => s = t /\ g = f

Fresh == \A t \in Tab, f \in Frame : frame[t][f].got # 0 => Apart(t, f)

Inv ==
  /\ ApiTypes /\ ScreenTypes /\ FrameTypes
  /\ ApiMeans /\ StoreMeans /\ FramesMean /\ Fresh
-----------------------------------------------------------------------------
\* One tab only: the refresh tokens that somebody holds.
Good(n) == n \in excused \/ \E i \in DOMAIN rows : rows[i].refresh = n

Renewed(r) == r.pc = "back" /\ r.answer = "ok"

RenewInv ==
  /\ \A t \in Tab, f \in Frame :
       frame[t][f].pc = "back" /\ frame[t][f].answer = "ok"
         /\ frame[t][f].call \in {"login", "callback", "refresh"} => Good(frame[t][f].got)
  /\ \A t \in Tab : /\ frame[t]["rotate"].pc = "sent" => Good(frame[t]["rotate"].refresh)
                    /\ frame[t]["rotate"].answer = "unauthorized" => frame[t]["rotate"].refresh \in excused
  /\ store.refresh # 0
       => \/ Good(store.refresh)
          \/ \E t \in Tab : Renewed(frame[t]["rotate"]) /\ frame[t]["rotate"].refresh = store.refresh
-----------------------------------------------------------------------------
(***************************************************************************)
(* Sequences and frames.                                                   *)
(***************************************************************************)
LEMMA Indices ==
  ASSUME ApiTypes
  PROVE  /\ DOMAIN rows = 1 .. Len(rows) /\ Len(rows) \in Nat
         /\ DOMAIN grants = 1 .. Len(grants) /\ Len(grants) \in Nat
         /\ \A i \in DOMAIN rows : rows[i] \in RowRecord
         /\ \A n \in DOMAIN grants : grants[n] \in GrantRecord
  BY LenProperties, ElementOfSeq DEF ApiTypes

\* A grant is added.
LEMMA GrantAdded ==
  ASSUME grants \in Seq(GrantRecord), NEW g \in GrantRecord, grants' = Append(grants, g)
  PROVE  /\ grants' \in Seq(GrantRecord)
         /\ DOMAIN grants' = 1 .. Len(grants) + 1 /\ DOMAIN grants = 1 .. Len(grants)
         /\ Len(grants') = Len(grants) + 1 /\ Len(grants) \in Nat
         /\ \A n \in DOMAIN grants : grants'[n] = grants[n]
         /\ grants'[Len(grants) + 1] = g
  BY AppendProperties, LenProperties

LEMMA RowAdded ==
  ASSUME rows \in Seq(RowRecord), NEW r \in RowRecord, rows' = Append(rows, r)
  PROVE  /\ rows' \in Seq(RowRecord)
         /\ DOMAIN rows' = 1 .. Len(rows) + 1 /\ DOMAIN rows = 1 .. Len(rows)
         /\ Len(rows') = Len(rows) + 1 /\ Len(rows) \in Nat
         /\ \A i \in DOMAIN rows : rows'[i] = rows[i]
         /\ rows'[Len(rows) + 1] = r
  BY AppendProperties, LenProperties

LEMMA RowsChanged ==
  ASSUME rows \in Seq(RowRecord), NEW f, rows' = [i \in DOMAIN rows |-> f[i]],
         \A i \in DOMAIN rows : f[i] \in RowRecord
  PROVE  /\ rows' \in Seq(RowRecord)
         /\ DOMAIN rows' = DOMAIN rows /\ Len(rows') = Len(rows)
         /\ \A i \in DOMAIN rows : rows'[i] = f[i]
  <1>1. DOMAIN rows = 1 .. Len(rows) /\ Len(rows) \in Nat
    BY LenProperties
  <1>2. rows' \in [1 .. Len(rows) -> RowRecord]
    BY <1>1
  <1>3. rows' \in Seq(RowRecord)
    BY <1>1, <1>2, IsASeq
  <1>4. Len(rows') = Len(rows)
    BY <1>1, <1>2, <1>3, LenProperties
  <1> QED
    BY <1>1, <1>3, <1>4

LEMMA RowChanged ==
  ASSUME rows \in Seq(RowRecord), NEW i \in DOMAIN rows, NEW r \in RowRecord,
         rows' = [rows EXCEPT ![i] = r]
  PROVE  /\ rows' \in Seq(RowRecord)
         /\ DOMAIN rows' = DOMAIN rows /\ Len(rows') = Len(rows)
         /\ rows'[i] = r /\ \A k \in DOMAIN rows : k # i => rows'[k] = rows[k]
  <1>1. DOMAIN rows = 1 .. Len(rows) /\ i \in 1 .. Len(rows)
    BY LenProperties
  <1>2. /\ rows' \in Seq(RowRecord) /\ Len(rows') = Len(rows)
        /\ \A k \in 1 .. Len(rows) : rows'[k] = IF k = i THEN r ELSE rows[k]
    BY <1>1, ExceptSeq
  <1>3. DOMAIN rows' = 1 .. Len(rows)
    BY <1>2, LenProperties
  <1> QED
    BY <1>1, <1>2, <1>3

LEMMA FrameType ==
  ASSUME FrameTypes, NEW t \in Tab, NEW f \in Frame
  PROVE  frame[t] \in [Frame -> FrameRecord] /\ frame[t][f] \in FrameRecord
  BY DEF FrameTypes

\* The frames of one tab change.
TabFrames(t, fs) == frame' = [frame EXCEPT ![t] = fs]

LEMMA TabChanged ==
  ASSUME FrameTypes, NEW t \in Tab, NEW fs \in [Frame -> FrameRecord], TabFrames(t, fs)
  PROVE  /\ FrameTypes' /\ frame'[t] = fs
         /\ \A s \in Tab : s # t => frame'[s] = frame[s]
  BY DEF FrameTypes, TabFrames

\* One of them does.
OneFrame(t, f, r) == TabFrames(t, [frame[t] EXCEPT ![f] = r])

LEMMA FrameChanged ==
  ASSUME FrameTypes, NEW t \in Tab, NEW f \in Frame, NEW r \in FrameRecord, OneFrame(t, f, r)
  PROVE  /\ FrameTypes' /\ frame'[t][f] = r
         /\ \A s \in Tab, g \in Frame : s # t \/ g # f => frame'[s][g] = frame[s][g]
  <1> DEFINE fs == [frame[t] EXCEPT ![f] = r]
  <1>1. frame[t] \in [Frame -> FrameRecord]
    BY FrameType
  <1>2. fs \in [Frame -> FrameRecord] /\ fs[f] = r /\ \A g \in Frame : g # f => fs[g] = frame[t][g]
    BY <1>1
  <1>3. TabFrames(t, fs)
    BY DEF OneFrame
  <1> HIDE DEF fs
  <1>4. FrameTypes' /\ frame'[t] = fs /\ \A s \in Tab : s # t => frame'[s] = frame[s]
    BY <1>2, <1>3, TabChanged
  <1> QED
    BY <1>2, <1>4

\* Two of them do.
TwoFrames(t, f, r, g, q) == TabFrames(t, [frame[t] EXCEPT ![f] = r, ![g] = q])

LEMMA FramesChanged ==
  ASSUME FrameTypes, NEW t \in Tab, NEW f \in Frame, NEW r \in FrameRecord,
         NEW g \in Frame, NEW q \in FrameRecord, f # g, TwoFrames(t, f, r, g, q)
  PROVE  /\ FrameTypes' /\ frame'[t][f] = r /\ frame'[t][g] = q
         /\ \A s \in Tab, h \in Frame : s # t \/ (h # f /\ h # g) => frame'[s][h] = frame[s][h]
  <1> DEFINE fs == [frame[t] EXCEPT ![f] = r, ![g] = q]
  <1>1. frame[t] \in [Frame -> FrameRecord]
    BY FrameType
  <1>2. /\ fs \in [Frame -> FrameRecord] /\ fs[f] = r /\ fs[g] = q
        /\ \A h \in Frame : h # f /\ h # g => fs[h] = frame[t][h]
    BY <1>1
  <1>3. TabFrames(t, fs)
    BY DEF TwoFrames
  <1> HIDE DEF fs
  <1>4. FrameTypes' /\ frame'[t] = fs /\ \A s \in Tab : s # t => frame'[s] = frame[s]
    BY <1>2, <1>3, TabChanged
  <1> QED
    BY <1>2, <1>4

LEMMA ReplyIsOneFrame ==
  ASSUME FrameTypes, NEW t \in Tab, NEW f \in Frame, NEW a, NEW n, Reply(t, f, a, n)
  PROVE  OneFrame(t, f, [frame[t][f] EXCEPT !.pc = "back", !.answer = a, !.got = n])
  BY DEF FrameTypes, FrameRecord, OneFrame, TabFrames, Reply
-----------------------------------------------------------------------------
(***************************************************************************)
(* What the tabs do by themselves: nothing is known of a session but what  *)
(* was stored, and what is stored is what arrived.                         *)
(***************************************************************************)
NewCall(f, q) ==
  /\ Placed(f, q) /\ q.token = 0 /\ q.kind = "none" /\ q.got = 0 /\ q.answer = "none" /\ q.pc # "back"
  /\ q.refresh # 0 => q.refresh = store.refresh

\* The call waits, or is tried again.
Waits(f, r, q) ==
  /\ Placed(f, q) /\ f # "rotate" /\ q.pc # "back"
  /\ q.token = r.token /\ q.kind = r.kind /\ q.refresh = r.refresh /\ q.got = r.got

Leaves(f, r, q) ==
  /\ Placed(f, q) /\ f # "rotate" /\ q.pc # "back"
  /\ q.token = store.token /\ q.kind = store.kind /\ q.refresh = store.refresh /\ q.got = r.got

Tame(f, r, q) == q = r \/ NewCall(f, q) \/ Waits(f, r, q) \/ Leaves(f, r, q)

FramesTame == \A t \in Tab, f \in Frame : Tame(f, frame[t][f], frame'[t][f])

\* The session that arrived at this frame is stored.
Takes(t, f) == frame[t][f].got # 0 /\ store'.token = frame[t][f].got /\ frame'[t][f].got = 0

StoreTame ==
  \/ store' = store
  \/ store' = Empty
  \/ StoreMeans' /\ \E t \in Tab, f \in Frame : Takes(t, f)

LEMMA StoreKept ==
  ASSUME StoreMeans, StoreTame, UNCHANGED <<rows, grants, expired>>
  PROVE  StoreMeans'
  <1>1. CASE store' = store
    BY <1>1 DEF StoreMeans
  <1>2. CASE store' = Empty
    BY <1>2 DEF StoreMeans, Empty, StoreRecord, Kind
  <1> QED
    BY <1>1, <1>2 DEF StoreTame

\* A call knows of no session that is about to be stored.
LEMMA NoneTaken ==
  ASSUME StoreMeans, Fresh, StoreTame, NEW n,
         n = store.token \/ \E t \in Tab, f \in Frame : n = frame[t][f].token
  PROVE  n # 0 /\ n = store'.token => store' = store
  <1> SUFFICES ASSUME n # 0, n = store'.token
               PROVE  store' = store
    OBVIOUS
  <1>1. CASE store' = Empty
    BY <1>1 DEF Empty
  <1>2. ASSUME NEW t \in Tab, NEW f \in Frame, Takes(t, f)
        PROVE  FALSE
    <2>1. frame[t][f].got # 0 /\ n = frame[t][f].got
      BY <1>2 DEF Takes
    <2>2. Apart(t, f)
      BY <2>1 DEF Fresh
    <2> QED
      BY <2>1, <2>2 DEF Apart
  <1> QED
    BY <1>1, <1>2 DEF StoreTame

LEMMA SentKept ==
  ASSUME FrameTypes, StoreMeans, FramesMean, Fresh, FramesTame, StoreTame,
         UNCHANGED <<rows, grants, expired>>, NEW t \in Tab, NEW f \in Frame
  PROVE  SentWell(frame[t][f])'
  <1> DEFINE r == frame[t][f]
             q == frame'[t][f]
  <1>1. SentWell(r)
    BY DEF FramesMean
  <1>2. Tame(f, r, q)
    BY DEF FramesTame
  <1>3. /\ r.token # 0 /\ r.token = store'.token => store' = store
        /\ store.token # 0 /\ store.token = store'.token => store' = store
    BY NoneTaken
  <1>4. /\ store.token = 0 <=> store.kind = "none"
        /\ store.token # 0 => store.token \in DOMAIN grants /\ grants[store.token].kind = store.kind
        /\ store.refresh # 0 => store.refresh = store.token /\ store.kind = "member"
    BY DEF StoreMeans
  <1>5. store.refresh # 0 => store.refresh \in DOMAIN grants
    BY <1>4
  <1> HIDE DEF r, q
  <1> SUFFICES
        /\ q.token = 0 <=> q.kind = "none"
        /\ q.token # 0 => /\ q.token \in DOMAIN grants /\ grants[q.token].kind = q.kind
                          /\ q.token = store'.token => q.kind = store'.kind /\ q.refresh = store'.refresh
        /\ q.refresh # 0 => q.refresh \in DOMAIN grants
    BY DEF SentWell, q
  <1>6. CASE q = r \/ Waits(f, r, q)
    <2>1. q.token = r.token /\ q.kind = r.kind /\ q.refresh = r.refresh
      BY <1>6 DEF Waits
    <2> QED
      BY <1>1, <1>3, <2>1 DEF SentWell
  <1>7. CASE NewCall(f, q)
    BY <1>5, <1>7 DEF NewCall
  <1>8. CASE Leaves(f, r, q)
    BY <1>3, <1>4, <1>5, <1>8 DEF Leaves
  <1> QED
    BY <1>2, <1>6, <1>7, <1>8 DEF Tame

LEMMA ToldKept ==
  ASSUME FrameTypes, FramesMean, FramesTame, UNCHANGED <<rows, grants, expired>>,
         NEW t \in Tab, NEW f \in Frame
  PROVE  Placed(f, frame[t][f])' /\ Told(f, frame[t][f])'
  <1> DEFINE r == frame[t][f]
             q == frame'[t][f]
  <1>1. Placed(f, r) /\ Told(f, r)
    BY DEF FramesMean
  <1>2. Tame(f, r, q)
    BY DEF FramesTame
  <1>3. Placed(f, q) <=> Placed(f, frame[t][f])'
    BY DEF Placed
  <1> HIDE DEF r, q
  <1>4. (Told(f, q) => Told(f, frame[t][f])')
    BY DEF Told, Dead, q
  <1>5. CASE q = r
    BY <1>1, <1>3, <1>4, <1>5
  <1>6. CASE NewCall(f, q)
    BY <1>3, <1>4, <1>6 DEF NewCall, Told
  <1>7. CASE Waits(f, r, q)
    BY <1>1, <1>3, <1>4, <1>7 DEF Waits, Told
  <1>8. CASE Leaves(f, r, q)
    BY <1>1, <1>3, <1>4, <1>8 DEF Leaves, Told
  <1> QED
    BY <1>2, <1>5, <1>6, <1>7, <1>8 DEF Tame

\* What a frame has of the sessions it had or the store has.
LEMMA TameKnows ==
  ASSUME StoreMeans, FramesTame, NEW t \in Tab, NEW f \in Frame
  PROVE  /\ frame'[t][f].token \in {0, frame[t][f].token, store.token}
         /\ frame'[t][f].refresh \in {0, frame[t][f].refresh, store.token}
         /\ frame'[t][f].got \in {0, frame[t][f].got}
  <1>1. Tame(f, frame[t][f], frame'[t][f])
    BY DEF FramesTame
  <1>2. store.refresh \in {0, store.token}
    BY DEF StoreMeans
  <1> QED
    BY <1>1, <1>2 DEF Tame, NewCall, Waits, Leaves

LEMMA FreshKept ==
  ASSUME FrameTypes, StoreMeans, Fresh, FramesTame, StoreTame
  PROVE  Fresh'
  <1> SUFFICES ASSUME NEW t \in Tab, NEW f \in Frame, frame'[t][f].got # 0
               PROVE  Apart(t, f)'
    BY DEF Fresh
  <1>1. frame'[t][f].got = frame[t][f].got
    BY TameKnows
  <1>2. Apart(t, f)
    BY <1>1 DEF Fresh
  <1>3. frame'[t][f].got # store'.token
    <2>1. CASE store' = store \/ store' = Empty
      BY <1>1, <1>2, <2>1 DEF Apart, Empty
    <2>2. ASSUME NEW s \in Tab, NEW g \in Frame, Takes(s, g)
          PROVE  frame'[t][f].got # store'.token
      <3>1. s # t \/ g # f
        BY <2>2 DEF Takes
      <3> QED
        BY <1>1, <1>2, <2>2, <3>1 DEF Apart, Takes
    <2> QED
      BY <2>1, <2>2 DEF StoreTame
  <1>4. ASSUME NEW s \in Tab, NEW g \in Frame
        PROVE  /\ frame'[s][g].token # frame'[t][f].got /\ frame'[s][g].refresh # frame'[t][f].got
               /\ frame'[s][g].got = frame'[t][f].got => s = t /\ g = f
    BY <1>1, <1>2, TameKnows DEF Apart
  <1> QED
    BY <1>3, <1>4 DEF Apart

LEMMA ClientStep ==
  ASSUME Inv, FrameTypes', ScreenTypes', FramesTame, StoreTame, UNCHANGED server
  PROVE  Inv'
  <1>1. UNCHANGED <<rows, grants, account, expired, code>>
    BY DEF server
  <1>2. ApiTypes' /\ ApiMeans'
    BY <1>1 DEF Inv, ApiTypes, ApiMeans
  <1>3. StoreMeans' /\ Fresh'
    BY <1>1, StoreKept, FreshKept DEF Inv
  <1>4. FramesMean'
    <2>1. ASSUME NEW t \in Tab, NEW f \in Frame
          PROVE  SentWell(frame[t][f])' /\ Placed(f, frame[t][f])' /\ Told(f, frame[t][f])'
      BY <1>1, SentKept, ToldKept DEF Inv
    <2> QED
      BY <2>1 DEF FramesMean
  <1> QED
    BY <1>2, <1>3, <1>4 DEF Inv
-----------------------------------------------------------------------------
(***************************************************************************)
(* What the API does: rows and grants grow, and one call hears of it.      *)
(***************************************************************************)
RowsGrow ==
  \A i \in DOMAIN rows : /\ i \in DOMAIN rows' /\ rows'[i].ver >= rows[i].ver
                         /\ rows[i].kind = "gone" => rows'[i].kind = "gone"

GrantsGrow ==
  /\ \A n \in DOMAIN grants : n \in DOMAIN grants' /\ grants'[n] = grants[n]
  /\ expired \subseteq expired'

RefreshMoves ==
  \A i \in DOMAIN rows' :
    \/ rows'[i].refresh \in {0, Granted}
    \/ i \in DOMAIN rows /\ rows'[i].refresh = rows[i].refresh

ApiStep == RowsGrow /\ GrantsGrow /\ RefreshMoves /\ ApiTypes' /\ ApiMeans'

LEMMA GrantedIsNew ==
  ASSUME ApiTypes
  PROVE  Granted \notin DOMAIN grants /\ Granted # 0 /\ Granted \in Nat
  BY Indices DEF Granted

\* Dead, after the step.
DeadNext(n) == rows'[grants'[n].row].kind = "gone" \/ rows'[grants'[n].row].ver > grants'[n].ver

LEMMA DeadStays ==
  ASSUME ApiTypes, ApiMeans, ApiStep, NEW n \in DOMAIN grants, Dead(n)
  PROVE  DeadNext(n)
  <1> DEFINE i == grants[n].row
  <1>1. i \in DOMAIN rows
    BY DEF ApiMeans
  <1>2. rows[i].ver \in Nat /\ grants[n].ver \in Nat
    BY <1>1, Indices DEF RowRecord, GrantRecord
  <1>3. /\ i \in DOMAIN rows' /\ rows'[i].ver >= rows[i].ver /\ grants'[n] = grants[n]
        /\ rows[i].kind = "gone" => rows'[i].kind = "gone"
    BY <1>1 DEF ApiStep, RowsGrow, GrantsGrow
  <1>4. rows'[i].ver \in Nat
    <2>1. ApiTypes'
      BY DEF ApiStep
    <2>2. \A k \in DOMAIN rows' : rows'[k] \in RowRecord
      BY <2>1, LenProperties, ElementOfSeq DEF ApiTypes
    <2> QED
      BY <1>3, <2>2 DEF RowRecord
  <1>5. grants'[n].row = i /\ grants'[n].ver = grants[n].ver
    BY <1>3
  <1>6. rows[i].kind = "gone" \/ rows[i].ver > grants[n].ver
    BY DEF Dead
  <1> HIDE DEF i
  <1> QED
    BY <1>2, <1>3, <1>4, <1>5, <1>6 DEF DeadNext

LEMMA StoreStays ==
  ASSUME StoreMeans, ApiStep, UNCHANGED store
  PROVE  StoreMeans'
  BY DEF StoreMeans, ApiStep, GrantsGrow

\* A frame that hears nothing is as true as it was.
LEMMA SilentFrame ==
  ASSUME ApiTypes, ApiMeans, FramesMean, ApiStep, UNCHANGED store,
         NEW t \in Tab, NEW f \in Frame, frame'[t][f] = frame[t][f]
  PROVE  Placed(f, frame[t][f])' /\ SentWell(frame[t][f])' /\ Told(f, frame[t][f])'
  <1> DEFINE r == frame[t][f]
  <1>1. Placed(f, r) /\ SentWell(r) /\ Told(f, r)
    BY DEF FramesMean
  <1>2. \A n \in DOMAIN grants : n \in DOMAIN grants' /\ grants'[n] = grants[n]
    BY DEF ApiStep, GrantsGrow
  <1>3. frame'[t][f] = r
    OBVIOUS
  <1> HIDE DEF r
  <1>4. SentWell(frame[t][f])'
    BY <1>1, <1>2, <1>3 DEF SentWell
  <1>5. Placed(f, frame[t][f])'
    BY <1>1, <1>3 DEF Placed
  <1>6. Told(f, frame[t][f])'
    <2>1. r.got # 0 => r.got \in DOMAIN grants'
      BY <1>1, <1>2 DEF Told
    <2>2. r.pc = "back" /\ r.answer = "ok" /\ r.call \in {"login", "callback", "refresh", "issue", "handoff"}
            => r.got # 0 /\ grants'[r.got].kind = IF r.call = "issue" THEN "guest" ELSE "member"
      BY <1>1, <1>2 DEF Told
    <2>3. r.pc = "back" /\ r.call \in UserCall \ {"callback"} /\ r.kind = "member"
            => r.token \in DOMAIN grants
      BY <1>1 DEF SentWell
    <2>4. r.pc = "back" /\ r.call \in UserCall \ {"callback"} /\ r.kind = "member"
            => /\ r.answer = "unauthorized" => DeadNext(r.token)
               /\ r.answer = "expired" => r.token \in expired'
      BY <1>1, <2>3, DeadStays DEF Told, ApiStep, GrantsGrow
    <2>5. f = "rotate" /\ r.answer = "unauthorized" => \A i \in DOMAIN rows' : rows'[i].refresh # r.refresh
      <3> SUFFICES ASSUME f = "rotate", r.answer = "unauthorized", NEW i \in DOMAIN rows'
                   PROVE  rows'[i].refresh # r.refresh
        OBVIOUS
      <3>1. r.refresh # 0 /\ r.refresh \in DOMAIN grants
        BY <1>1 DEF Placed, SentWell, Idle, New
      <3>2. r.refresh \notin {0, Granted}
        BY <3>1, GrantedIsNew
      <3>3. \A k \in DOMAIN rows : rows[k].refresh # r.refresh
        BY <1>1 DEF Told
      <3> QED
        BY <3>2, <3>3 DEF ApiStep, RefreshMoves
    <2> QED
      BY <1>3, <2>1, <2>2, <2>4, <2>5 DEF Told, Dead, DeadNext
  <1> QED
    BY <1>4, <1>5, <1>6

\* Nobody hears of it.
LEMMA SilentStep ==
  ASSUME Inv, ApiStep, ScreenTypes', UNCHANGED <<store, frame>>
  PROVE  Inv'
  <1>1. StoreMeans' /\ FrameTypes'
    BY StoreStays DEF Inv, FrameTypes
  <1>2. FramesMean'
    <2>1. ASSUME NEW t \in Tab, NEW f \in Frame
          PROVE  Placed(f, frame[t][f])' /\ SentWell(frame[t][f])' /\ Told(f, frame[t][f])'
      BY SilentFrame DEF Inv
    <2> QED
      BY <2>1 DEF FramesMean
  <1>3. Fresh'
    BY DEF Inv, Fresh, Apart
  <1> QED
    BY <1>1, <1>2, <1>3 DEF Inv, ApiStep

\* A call hears the answer a, with the session n or none.
Hears(t, f, a, n) ==
  /\ frame[t][f].pc \in {"sent", "back"}
  /\ Reply(t, f, a, n)
  /\ a \in Answer /\ n \in {0, Granted} /\ (n = Granted => n \in DOMAIN grants')

\* ... which is true.
True(f, r, a, n) ==
  /\ a = "ok" /\ r.call \in {"login", "callback", "refresh", "issue", "handoff"}
       => n # 0 /\ grants'[n].kind = IF r.call = "issue" THEN "guest" ELSE "member"
  /\ r.call \in UserCall \ {"callback"} /\ r.kind = "member"
       => /\ a = "unauthorized" => DeadNext(r.token)
          /\ a = "expired" => r.token \in expired'
  /\ f = "rotate" /\ a = "unauthorized" => \A i \in DOMAIN rows' : rows'[i].refresh # r.refresh

LEMMA HeardFrame ==
  ASSUME Inv, ApiStep, NEW t \in Tab, NEW f \in Frame, NEW a, NEW n, Hears(t, f, a, n)
  PROVE  /\ FrameTypes'
         /\ \A s \in Tab, g \in Frame : s # t \/ g # f => frame'[s][g] = frame[s][g]
         /\ frame'[t][f].pc = "back" /\ frame'[t][f].answer = a /\ frame'[t][f].got = n
         /\ frame'[t][f].task = frame[t][f].task /\ frame'[t][f].call = frame[t][f].call
         /\ frame'[t][f].token = frame[t][f].token /\ frame'[t][f].kind = frame[t][f].kind
         /\ frame'[t][f].refresh = frame[t][f].refresh
  <1> DEFINE r == frame[t][f]
             q == [r EXCEPT !.pc = "back", !.answer = a, !.got = n]
  <1>1. r \in FrameRecord
    BY FrameType DEF Inv
  <1>2. q \in FrameRecord
    <2>1. n \in Nat /\ a \in Answer /\ "back" \in Pc
      BY GrantedIsNew DEF Hears, Pc, Inv
    <2> QED
      BY <1>1, <2>1 DEF FrameRecord
  <1>3. /\ q.pc = "back" /\ q.answer = a /\ q.got = n /\ q.task = r.task /\ q.call = r.call
        /\ q.token = r.token /\ q.kind = r.kind /\ q.refresh = r.refresh
    BY <1>1 DEF FrameRecord
  <1>4. OneFrame(t, f, q)
    BY ReplyIsOneFrame DEF Hears, Inv
  <1> HIDE DEF r, q
  <1>5. FrameTypes' /\ frame'[t][f] = q
        /\ \A s \in Tab, g \in Frame : s # t \/ g # f => frame'[s][g] = frame[s][g]
    BY <1>2, <1>4, FrameChanged DEF Inv
  <1> QED
    BY <1>3, <1>5 DEF r

LEMMA HeardStep ==
  ASSUME Inv, ApiStep, ScreenTypes', UNCHANGED store,
         NEW t \in Tab, NEW f \in Frame, NEW a, NEW n, Hears(t, f, a, n), True(f, frame[t][f], a, n)
  PROVE  Inv'
  <1> DEFINE r == frame[t][f]
             q == frame'[t][f]
  <1>1. StoreMeans'
    BY StoreStays DEF Inv
  <1>2. /\ FrameTypes'
        /\ \A s \in Tab, g \in Frame : s # t \/ g # f => frame'[s][g] = frame[s][g]
        /\ q.pc = "back" /\ q.answer = a /\ q.got = n /\ q.task = r.task /\ q.call = r.call
        /\ q.token = r.token /\ q.kind = r.kind /\ q.refresh = r.refresh
    BY HeardFrame
  <1>3. Placed(f, r) /\ SentWell(r)
    BY DEF Inv, FramesMean
  <1>4. r.pc \in {"sent", "back"} /\ n \in {0, Granted} /\ (n = Granted => n \in DOMAIN grants')
    BY DEF Hears
  <1>5. \A m \in DOMAIN grants : m \in DOMAIN grants' /\ grants'[m] = grants[m]
    BY DEF ApiStep, GrantsGrow
  <1>6. True(f, r, a, n)
    OBVIOUS
  <1> HIDE DEF r, q
  <1>7. Placed(f, frame[t][f])'
    <2>1. /\ f = "rotate" => r.call = "refresh" /\ r.refresh # 0
          /\ f = "reissue" => r.call = "issue"
      BY <1>3, <1>4 DEF Placed, Idle, New
    <2>2. Placed(f, q)
      BY <1>2, <1>3, <2>1 DEF Placed
    <2> QED
      BY <2>2 DEF Placed, q
  <1>8. SentWell(frame[t][f])'
    BY <1>2, <1>3, <1>5 DEF SentWell, q
  <1>9. Told(f, frame[t][f])'
    <2>1. /\ q.got # 0 => q.got \in DOMAIN grants'
          /\ q.pc = "back" /\ q.answer = "ok" /\ q.call \in {"login", "callback", "refresh", "issue", "handoff"}
               => q.got # 0 /\ grants'[q.got].kind = IF q.call = "issue" THEN "guest" ELSE "member"
          /\ q.pc = "back" /\ q.call \in UserCall \ {"callback"} /\ q.kind = "member"
               => /\ q.answer = "unauthorized" => DeadNext(q.token)
                  /\ q.answer = "expired" => q.token \in expired'
          /\ f = "rotate" /\ q.answer = "unauthorized" => \A i \in DOMAIN rows' : rows'[i].refresh # q.refresh
      BY <1>2, <1>4, <1>6 DEF True
    <2> QED
      BY <2>1 DEF Told, Dead, DeadNext, q
  <1>10. FramesMean'
    <2>1. ASSUME NEW s \in Tab, NEW g \in Frame
          PROVE  Placed(g, frame[s][g])' /\ SentWell(frame[s][g])' /\ Told(g, frame[s][g])'
      <3>1. CASE s = t /\ g = f
        BY <1>7, <1>8, <1>9, <3>1
      <3>2. CASE s # t \/ g # f
        BY <1>2, <3>2, SilentFrame DEF Inv
      <3> QED
        BY <3>1, <3>2
    <2> QED
      BY <2>1 DEF FramesMean
  \* The new grant is nobody's yet, and the old ones are where they were.
  <1>11. ASSUME NEW s \in Tab, NEW g \in Frame
         PROVE  /\ frame'[s][g].token = frame[s][g].token /\ frame'[s][g].refresh = frame[s][g].refresh
                /\ frame'[s][g].got = IF s = t /\ g = f THEN n ELSE frame[s][g].got
                /\ frame[s][g].token # Granted /\ frame[s][g].refresh # Granted /\ frame[s][g].got # Granted
    <2>1. SentWell(frame[s][g]) /\ Told(g, frame[s][g])
      BY DEF Inv, FramesMean
    <2>2. frame[s][g].token # Granted /\ frame[s][g].refresh # Granted /\ frame[s][g].got # Granted
      BY <2>1, GrantedIsNew DEF SentWell, Told, Inv
    <2>3. CASE s = t /\ g = f
      BY <1>2, <2>2, <2>3 DEF q, r
    <2>4. CASE s # t \/ g # f
      BY <1>2, <2>2, <2>4
    <2> QED
      BY <2>3, <2>4
  <1>12. Fresh'
    <2> SUFFICES ASSUME NEW s \in Tab, NEW g \in Frame, frame'[s][g].got # 0
                 PROVE  Apart(s, g)'
      BY DEF Fresh
    <2>1. store.token # Granted
      BY GrantedIsNew DEF Inv, StoreMeans
    <2>2. CASE s = t /\ g = f
      <3>1. frame'[s][g].got = Granted
        BY <1>4, <1>11, <2>2
      <3> QED
        BY <1>11, <2>1, <2>2, <3>1 DEF Apart
    <2>3. CASE s # t \/ g # f
      <3>1. frame'[s][g].got = frame[s][g].got /\ frame[s][g].got # 0 /\ frame[s][g].got # Granted
        BY <1>11, <2>3
      <3>2. Apart(s, g)
        BY <3>1 DEF Inv, Fresh
      <3>3. n # frame[s][g].got
        BY <1>4, <3>1
      <3> QED
        BY <1>11, <3>1, <3>2, <3>3 DEF Apart
    <2> QED
      BY <2>2, <2>3
  <1> QED
    BY <1>1, <1>2, <1>10, <1>12 DEF Inv, ApiStep
-----------------------------------------------------------------------------
(***************************************************************************)
(* The operations of the API.                                              *)
(***************************************************************************)
\* Rows and grants stay.
LEMMA NoRowStep ==
  ASSUME Inv, UNCHANGED <<rows, account, grants>>, expired \subseteq expired',
         code' \in [row : 0 .. Len(rows), ver : Nat]
  PROVE  ApiStep
  <1>1. RowsGrow /\ GrantsGrow /\ RefreshMoves
    <2>1. \A i \in DOMAIN rows : rows[i].ver \in Nat
      BY Indices DEF Inv, RowRecord
    <2> QED
      BY <2>1 DEF RowsGrow, GrantsGrow, RefreshMoves
  <1>2. ApiTypes' /\ ApiMeans'
    BY DEF Inv, ApiTypes, ApiMeans
  <1> QED
    BY <1>1, <1>2 DEF ApiStep

\* A member's row gets a new session: its version stays, its refresh token is the new one.
NewSession(i) ==
  /\ rows' = [rows EXCEPT ![i] = [rows[i] EXCEPT !.refresh = Granted]]
  /\ grants' = Append(grants, [row |-> i, kind |-> "member", ver |-> rows[i].ver])

LEMMA NewSessionStep ==
  ASSUME Inv, NEW i \in DOMAIN rows, rows[i].kind = "member", NewSession(i),
         UNCHANGED <<account, expired, code>>
  PROVE  ApiStep /\ Granted \in DOMAIN grants' /\ grants'[Granted].kind = "member"
  <1> DEFINE r == [rows[i] EXCEPT !.refresh = Granted]
             g == [row |-> i, kind |-> "member", ver |-> rows[i].ver]
  <1>1. ApiTypes /\ ApiMeans
    BY DEF Inv
  <1>2. /\ rows[i] \in RowRecord /\ rows[i].ver \in Nat /\ i \in Nat
        /\ Granted = Len(grants) + 1 /\ Granted \in Nat /\ Granted \notin DOMAIN grants
    BY <1>1, Indices, GrantedIsNew DEF RowRecord, Granted
  <1>3. /\ r \in RowRecord /\ r.kind = "member" /\ r.ver = rows[i].ver /\ r.refresh = Granted
        /\ g \in GrantRecord /\ g.row = i /\ g.kind = "member" /\ g.ver = rows[i].ver
    BY <1>2 DEF RowRecord, GrantRecord
  <1>4. rows' = [rows EXCEPT ![i] = r] /\ grants' = Append(grants, g)
    BY DEF NewSession
  <1> HIDE DEF r, g
  <1>5. /\ rows' \in Seq(RowRecord) /\ DOMAIN rows' = DOMAIN rows /\ Len(rows') = Len(rows)
        /\ rows'[i] = r /\ \A k \in DOMAIN rows : k # i => rows'[k] = rows[k]
    BY <1>1, <1>3, <1>4, RowChanged DEF ApiTypes
  <1>6. /\ grants' \in Seq(GrantRecord) /\ DOMAIN grants' = DOMAIN grants \cup {Granted}
        /\ \A n \in DOMAIN grants : grants'[n] = grants[n]
        /\ grants'[Granted] = g
    <2>1. /\ grants' \in Seq(GrantRecord) /\ DOMAIN grants' = 1 .. Len(grants) + 1
          /\ DOMAIN grants = 1 .. Len(grants) /\ Len(grants) \in Nat
          /\ \A n \in DOMAIN grants : grants'[n] = grants[n]
          /\ grants'[Len(grants) + 1] = g
      BY <1>1, <1>3, <1>4, GrantAdded DEF ApiTypes
    <2> QED
      BY <1>2, <2>1
  <1>7. \A k \in DOMAIN rows : rows[k].ver \in Nat /\ rows[k].refresh \in Nat
    BY <1>1, Indices DEF RowRecord
  <1>8. RowsGrow
    <2> SUFFICES ASSUME NEW k \in DOMAIN rows
                 PROVE  /\ k \in DOMAIN rows' /\ rows'[k].ver >= rows[k].ver
                        /\ rows[k].kind = "gone" => rows'[k].kind = "gone"
      BY DEF RowsGrow
    <2> QED
      BY <1>3, <1>5, <1>7
  <1>9. GrantsGrow
    BY <1>6 DEF GrantsGrow
  <1>10. RefreshMoves
    BY <1>3, <1>5 DEF RefreshMoves
  <1>11. ApiTypes'
    BY <1>1, <1>5, <1>6 DEF ApiTypes
  <1>12. ApiMeans'
    <2>1. account' # 0 => rows'[account'].kind = "member"
      <3> SUFFICES ASSUME account # 0 PROVE rows'[account].kind = "member"
        OBVIOUS
      <3>1. account \in DOMAIN rows
        BY <1>1, Indices DEF ApiTypes
      <3> QED
        BY <1>1, <1>3, <1>5, <3>1 DEF ApiMeans
    <2>2. ASSUME NEW k \in DOMAIN rows', rows'[k].refresh # 0
          PROVE  /\ rows'[k].kind = "member" /\ rows'[k].refresh \in DOMAIN grants'
                 /\ grants'[rows'[k].refresh].row = k /\ grants'[rows'[k].refresh].ver = rows'[k].ver
      <3>1. CASE k = i
        BY <1>3, <1>5, <1>6, <3>1
      <3>2. CASE k # i
        <4>1. k \in DOMAIN rows /\ rows'[k] = rows[k]
          BY <1>5, <3>2
        <4>2. rows[k].refresh \in DOMAIN grants
          BY <1>1, <2>2, <4>1 DEF ApiMeans
        <4> QED
          BY <1>1, <1>6, <2>2, <4>1, <4>2 DEF ApiMeans
      <3> QED
        BY <3>1, <3>2
    <2>3. ASSUME NEW n \in DOMAIN grants'
          PROVE  /\ grants'[n].row \in DOMAIN rows' /\ grants'[n].ver <= rows'[grants'[n].row].ver
                 /\ grants'[n].kind = "member" => rows'[grants'[n].row].kind # "guest"
      <3>1. CASE n = Granted
        BY <1>2, <1>3, <1>5, <1>6, <3>1
      <3>2. CASE n # Granted
        <4>1. n \in DOMAIN grants /\ grants'[n] = grants[n]
          BY <1>6, <3>2
        <4>2. /\ grants[n].row \in DOMAIN rows /\ grants[n].ver <= rows[grants[n].row].ver
              /\ grants[n].kind = "member" => rows[grants[n].row].kind # "guest"
          BY <1>1, <4>1 DEF ApiMeans
        <4>3. CASE grants[n].row = i
          BY <1>3, <1>5, <4>1, <4>2, <4>3
        <4>4. CASE grants[n].row # i
          BY <1>5, <4>1, <4>2, <4>4
        <4> QED
          BY <4>3, <4>4
      <3> QED
        BY <3>1, <3>2
    <2> QED
      BY <2>1, <2>2, <2>3 DEF ApiMeans
  <1> QED
    BY <1>3, <1>6, <1>8, <1>9, <1>10, <1>11, <1>12 DEF ApiStep

\* A row's sessions are taken back, and the row may go with them.
TakenBack(i, k) ==
  \E r \in RowRecord :
    /\ r.kind = k /\ r.ver = rows[i].ver + 1 /\ r.refresh = 0
    /\ rows' = [rows EXCEPT ![i] = r]

LEMMA TakenBackStep ==
  ASSUME Inv, NEW i \in DOMAIN rows, NEW k, TakenBack(i, k), rows[i].kind = "member",
         \/ k = "member" /\ account' = account
         \/ k = "gone" /\ account' = 0,
         UNCHANGED <<grants, expired, code>>
  PROVE  ApiStep
  <1>1. ApiTypes /\ ApiMeans
    BY DEF Inv
  <1>2. rows[i] \in RowRecord /\ rows[i].ver \in Nat
    BY <1>1, Indices DEF RowRecord
  <1>3. k \in {"member", "gone"}
    OBVIOUS
  <1>4. PICK r \in RowRecord : /\ r.kind = k /\ r.ver = rows[i].ver + 1 /\ r.refresh = 0
                               /\ rows' = [rows EXCEPT ![i] = r]
    BY DEF TakenBack
  <1>5. /\ rows' \in Seq(RowRecord) /\ DOMAIN rows' = DOMAIN rows /\ Len(rows') = Len(rows)
        /\ rows'[i] = r /\ \A j \in DOMAIN rows : j # i => rows'[j] = rows[j]
    BY <1>1, <1>4, RowChanged DEF ApiTypes
  <1>6. \A j \in DOMAIN rows : rows[j].ver \in Nat /\ rows[j].refresh \in Nat
    BY <1>1, Indices DEF RowRecord
  <1>7. RowsGrow
    <2> SUFFICES ASSUME NEW j \in DOMAIN rows
                 PROVE  /\ j \in DOMAIN rows' /\ rows'[j].ver >= rows[j].ver
                        /\ rows[j].kind = "gone" => rows'[j].kind = "gone"
      BY DEF RowsGrow
    <2> QED
      BY <1>3, <1>4, <1>5, <1>6
  <1>8. GrantsGrow
    BY DEF GrantsGrow
  <1>9. RefreshMoves
    BY <1>3, <1>4, <1>5 DEF RefreshMoves
  <1>10. ApiTypes'
    <2>1. account' \in 0 .. Len(rows)
      BY <1>1, Indices DEF ApiTypes
    <2> QED
      BY <1>1, <1>5, <2>1 DEF ApiTypes
  <1>11. ApiMeans'
    <2>1. account' # 0 => rows'[account'].kind = "member"
      <3> SUFFICES ASSUME account' # 0 PROVE rows'[account'].kind = "member"
        OBVIOUS
      <3>1. account' = account /\ k = "member" /\ account \in DOMAIN rows
        BY <1>1, Indices DEF ApiTypes
      <3> QED
        BY <1>1, <1>3, <1>4, <1>5, <3>1 DEF ApiMeans
    <2>2. ASSUME NEW j \in DOMAIN rows', rows'[j].refresh # 0
          PROVE  /\ rows'[j].kind = "member" /\ rows'[j].refresh \in DOMAIN grants'
                 /\ grants'[rows'[j].refresh].row = j /\ grants'[rows'[j].refresh].ver = rows'[j].ver
      <3>1. j # i /\ j \in DOMAIN rows /\ rows'[j] = rows[j]
        BY <1>3, <1>4, <1>5, <2>2
      <3> QED
        BY <1>1, <2>2, <3>1 DEF ApiMeans
    <2>3. ASSUME NEW n \in DOMAIN grants'
          PROVE  /\ grants'[n].row \in DOMAIN rows' /\ grants'[n].ver <= rows'[grants'[n].row].ver
                 /\ grants'[n].kind = "member" => rows'[grants'[n].row].kind # "guest"
      <3>1. /\ grants[n].row \in DOMAIN rows /\ grants[n].ver <= rows[grants[n].row].ver
            /\ grants[n].kind = "member" => rows[grants[n].row].kind # "guest"
            /\ grants'[n] = grants[n] /\ grants[n].ver \in Nat
        BY <1>1, Indices DEF ApiMeans, GrantRecord
      <3>2. CASE grants[n].row = i
        BY <1>2, <1>3, <1>4, <1>5, <3>1, <3>2
      <3>3. CASE grants[n].row # i
        BY <1>5, <3>1, <3>3
      <3> QED
        BY <3>2, <3>3
    <2> QED
      BY <2>1, <2>2, <2>3 DEF ApiMeans
  <1> QED
    BY <1>7, <1>8, <1>9, <1>10, <1>11 DEF ApiStep

LEMMA ScreenStays ==
  ASSUME Inv, UNCHANGED <<screen, acts>>, faults' \in 0 .. MaxFault
  PROVE  ScreenTypes'
  BY DEF Inv, ScreenTypes, screen

\* What the check of a token means for a member's grant.
LEMMA CheckMeans ==
  ASSUME Inv, NEW n
  PROVE  /\ Check(n) \in {"ok", "unauthorized", "expired"}
         /\ Check(n) = "expired" => n \in expired
         /\ Check(n) = "ok" => n # 0 /\ rows[grants[n].row].kind = grants[n].kind
         /\ n \in DOMAIN grants /\ grants[n].kind = "member" /\ Check(n) = "unauthorized" => Dead(n)
  <1>1. n = 0 \/ (n # 0 /\ n \in expired) \/ (n # 0 /\ n \notin expired)
    OBVIOUS
  <1>2. CASE n = 0
    <2>1. Check(n) = "unauthorized"
      BY <1>2 DEF Check
    <2>2. n \notin DOMAIN grants
      BY <1>2, Indices DEF Inv
    <2> QED
      BY <2>1, <2>2
  <1>3. CASE n # 0 /\ n \in expired
    <2>1. Check(n) = "expired"
      BY <1>3 DEF Check
    <2> QED
      BY <1>3, <2>1
  <1>4. CASE n # 0 /\ n \notin expired
    <2>1. Check(n) = IF rows[grants[n].row].kind = grants[n].kind /\ rows[grants[n].row].ver = grants[n].ver
                     THEN "ok" ELSE "unauthorized"
      BY <1>4 DEF Check
    <2>2. ASSUME n \in DOMAIN grants, grants[n].kind = "member", Check(n) = "unauthorized"
          PROVE  Dead(n)
      <3>1. /\ grants[n].row \in DOMAIN rows /\ grants[n].ver <= rows[grants[n].row].ver
            /\ rows[grants[n].row].kind # "guest"
        BY <2>2 DEF Inv, ApiMeans
      <3>2. /\ rows[grants[n].row].ver \in Nat /\ grants[n].ver \in Nat
            /\ rows[grants[n].row].kind \in {"member", "guest", "gone"}
        BY <2>2, <3>1, Indices DEF Inv, RowRecord, GrantRecord
      <3> QED
        BY <2>1, <2>2, <3>1, <3>2 DEF Dead
    <2> QED
      BY <1>4, <2>1, <2>2
  <1> QED
    BY <1>1, <1>2, <1>3, <1>4

\* The session that a call of a member was sent with.
LEMMA SentMember ==
  ASSUME Inv, NEW t \in Tab, NEW f \in Frame, frame[t][f].token # 0
  PROVE  /\ frame[t][f].token \in DOMAIN grants /\ grants[frame[t][f].token].kind = frame[t][f].kind
         /\ grants[frame[t][f].token].row \in DOMAIN rows
         /\ rows[grants[frame[t][f].token].row] \in RowRecord
         /\ grants[frame[t][f].token] \in GrantRecord
  <1>1. frame[t][f].token \in DOMAIN grants /\ grants[frame[t][f].token].kind = frame[t][f].kind
    BY DEF Inv, FramesMean, SentWell
  <1> QED
    BY <1>1, Indices DEF Inv, ApiMeans

\* Only the rotation is a renewal.
LEMMA RotationIsRenewal ==
  ASSUME Inv, NEW t \in Tab, NEW f \in Frame, frame[t][f].pc \in {"sent", "back"}
  PROVE  /\ f = "rotate" <=> frame[t][f].call = "refresh"
         /\ f = "rotate" => frame[t][f].refresh # 0
  BY DEF Inv, FramesMean, Placed, Idle, New

\* An answer that tells nothing of a session.
LEMMA EmptyAnswer ==
  ASSUME Inv, NEW t \in Tab, NEW f \in Frame, NEW a, NEW n, n = 0,
         a \in {"refused", "limited", "network"}
  PROVE  True(f, frame[t][f], a, n)
  BY DEF True

LEMMA ServeQueryStep ==
  ASSUME Inv, NEW t \in Tab, NEW f \in Frame, ServeQuery(t, f)
  PROVE  Inv'
  <1> DEFINE v == Check(frame[t][f].token)
  <1>1. /\ UNCHANGED <<rows, account, grants, expired, code, faults, store, screen, acts>>
        /\ frame[t][f].pc = "sent" /\ frame[t][f].call \in {"query", "login", "logout", "withdraw"}
    BY DEF ServeQuery, server, ClientIdle
  <1>2. ApiStep /\ ScreenTypes'
    BY <1>1, NoRowStep, ScreenStays DEF Inv, ApiTypes, ScreenTypes
  <1>3. /\ v \in {"ok", "unauthorized", "expired"}
        /\ v = "expired" => frame[t][f].token \in expired
        /\ v = "unauthorized" /\ frame[t][f].kind = "member" => Dead(frame[t][f].token)
    <2>1. frame[t][f].kind = "member" => frame[t][f].token # 0
      BY DEF Inv, FramesMean, SentWell
    <2> QED
      BY <2>1, CheckMeans, SentMember
  <1>4. f # "rotate"
    BY <1>1, RotationIsRenewal
  <1>5. PICK a : Reply(t, f, a, 0) /\ (a = v \/ a = "refused" \/ a = "ok")
                 /\ (a = "ok" => frame[t][f].call # "login")
                 /\ (a \in {"unauthorized", "expired"} => a = v)
    <2>1. \/ frame[t][f].call = "query" /\ Reply(t, f, v, 0)
          \/ v # "ok" /\ Reply(t, f, v, 0)
          \/ frame[t][f].call = "login" /\ Reply(t, f, "refused", 0)
          \/ frame[t][f].call = "withdraw" /\ Reply(t, f, "refused", 0)
          \/ frame[t][f].call = "logout" /\ Reply(t, f, "ok", 0)
      BY DEF ServeQuery
    <2> HIDE DEF v
    <2>2. CASE frame[t][f].call = "query" /\ Reply(t, f, v, 0)
      BY <2>2
    <2>3. CASE v # "ok" /\ Reply(t, f, v, 0)
      BY <2>3
    <2>4. CASE Reply(t, f, "refused", 0)
      BY <2>4
    <2>5. CASE frame[t][f].call = "logout" /\ Reply(t, f, "ok", 0)
      BY <2>5
    <2> QED
      BY <2>1, <2>2, <2>3, <2>4, <2>5
  <1>6. \A n : DeadNext(n) <=> Dead(n)
    BY <1>1 DEF DeadNext, Dead
  <1> HIDE DEF v
  <1>7. True(f, frame[t][f], a, 0)
    BY <1>1, <1>3, <1>4, <1>5, <1>6 DEF True
  <1>8. Hears(t, f, a, 0)
    BY <1>1, <1>3, <1>5 DEF Hears, Answer, Granted, Inv, ApiTypes
  <1> QED
    BY <1>1, <1>2, <1>7, <1>8, HeardStep

LEMMA ServeCallbackStep ==
  ASSUME Inv, NEW t \in Tab, NEW f \in Frame, ServeCallback(t, f)
  PROVE  Inv'
  <1>1. /\ UNCHANGED <<rows, account, grants, expired, code, faults, store, screen, acts>>
        /\ frame[t][f].pc = "sent" /\ frame[t][f].call = "callback"
        /\ Reply(t, f, "unauthorized", 0)
    BY DEF ServeCallback, server, ClientIdle, Sent
  <1>2. ApiStep /\ ScreenTypes'
    BY <1>1, NoRowStep, ScreenStays DEF Inv, ApiTypes, ScreenTypes
  <1>3. True(f, frame[t][f], "unauthorized", 0)
    BY <1>1, RotationIsRenewal DEF True
  <1>4. Hears(t, f, "unauthorized", 0)
    BY <1>1, GrantedIsNew DEF Hears, Answer, Inv
  <1> QED
    BY <1>1, <1>2, <1>3, <1>4, HeardStep

LEMMA LimitStep ==
  ASSUME Inv, NEW t \in Tab, NEW f \in Frame, Limit(t, f)
  PROVE  Inv'
  <1>1. /\ UNCHANGED <<rows, account, grants, expired, code, store, screen, acts>>
        /\ frame[t][f].pc = "sent" /\ Reply(t, f, "limited", 0)
        /\ faults < MaxFault /\ faults' = faults + 1
    BY DEF Limit, server, ClientIdle
  <1>2. faults' \in 0 .. MaxFault
    BY <1>1, SessionAssumption DEF Inv, ScreenTypes
  <1>3. ApiStep /\ ScreenTypes'
    BY <1>1, <1>2, NoRowStep, ScreenStays DEF Inv, ApiTypes
  <1>4. Hears(t, f, "limited", 0)
    BY <1>1, GrantedIsNew DEF Hears, Answer, Inv
  <1> QED
    BY <1>1, <1>3, <1>4, EmptyAnswer, HeardStep

LEMMA LoseStep ==
  ASSUME Inv, NEW t \in Tab, NEW f \in Frame, Lose(t, f)
  PROVE  Inv'
  <1>1. /\ UNCHANGED <<rows, account, grants, expired, code, store, screen, acts>>
        /\ frame[t][f].pc \in {"sent", "back"} /\ Reply(t, f, "network", 0)
        /\ faults < MaxFault /\ faults' = faults + 1
    BY DEF Lose, server, ClientIdle
  <1>2. faults' \in 0 .. MaxFault
    BY <1>1, SessionAssumption DEF Inv, ScreenTypes
  <1>3. ApiStep /\ ScreenTypes'
    BY <1>1, <1>2, NoRowStep, ScreenStays DEF Inv, ApiTypes
  <1>4. Hears(t, f, "network", 0)
    BY <1>1, GrantedIsNew DEF Hears, Answer, Inv
  <1> QED
    BY <1>1, <1>3, <1>4, EmptyAnswer, HeardStep

\* A token that stands for somebody has a kind.
LEMMA GoodToken ==
  ASSUME Inv, NEW t \in Tab, NEW f \in Frame, Check(frame[t][f].token) = "ok"
  PROVE  frame[t][f].token # 0 /\ rows[grants[frame[t][f].token].row].kind = grants[frame[t][f].token].kind
  BY CheckMeans

\* A row whose sessions are taken back.
LEMMA RowTakenBack ==
  ASSUME NEW q \in RowRecord
  PROVE  LET r == [q EXCEPT !.ver = @ + 1, !.refresh = 0]
             s == [q EXCEPT !.kind = "gone", !.ver = @ + 1, !.refresh = 0]
         IN /\ r \in RowRecord /\ r.kind = q.kind /\ r.ver = q.ver + 1 /\ r.refresh = 0
            /\ s \in RowRecord /\ s.kind = "gone" /\ s.ver = q.ver + 1 /\ s.refresh = 0
  <1> DEFINE n == q.ver + 1
  <1>1. n \in Nat
    BY DEF RowRecord
  <1> HIDE DEF n
  <1>2. [q EXCEPT !.ver = n, !.refresh = 0] \in RowRecord
    BY <1>1 DEF RowRecord
  <1>3. [q EXCEPT !.kind = "gone", !.ver = n, !.refresh = 0] \in RowRecord
    BY <1>1 DEF RowRecord
  <1>4. /\ [q EXCEPT !.ver = n, !.refresh = 0].kind = q.kind
        /\ [q EXCEPT !.ver = n, !.refresh = 0].ver = n
        /\ [q EXCEPT !.ver = n, !.refresh = 0].refresh = 0
    BY DEF RowRecord
  <1>5. /\ [q EXCEPT !.kind = "gone", !.ver = n, !.refresh = 0].kind = "gone"
        /\ [q EXCEPT !.kind = "gone", !.ver = n, !.refresh = 0].ver = n
        /\ [q EXCEPT !.kind = "gone", !.ver = n, !.refresh = 0].refresh = 0
    BY DEF RowRecord
  <1> QED
    BY <1>2, <1>3, <1>4, <1>5 DEF n

LEMMA ServeLogoutStep ==
  ASSUME Inv, NEW t \in Tab, NEW f \in Frame, ServeLogout(t, f)
  PROVE  Inv'
  <1> DEFINE i == grants[frame[t][f].token].row
  <1>1. /\ UNCHANGED <<account, grants, expired, code, faults, store, screen, acts>>
        /\ frame[t][f].pc = "sent" /\ frame[t][f].call = "logout"
        /\ Check(frame[t][f].token) = "ok" /\ grants[frame[t][f].token].kind = "member"
        /\ rows' = [rows EXCEPT ![i].ver = @ + 1, ![i].refresh = 0]
        /\ Reply(t, f, "ok", 0)
    BY DEF ServeLogout, server, ClientIdle, Sent
  <1>2. frame[t][f].token # 0 /\ rows[i].kind = "member"
    BY <1>1, GoodToken
  <1>3. i \in DOMAIN rows /\ rows[i] \in RowRecord
    BY <1>2, SentMember
  <1> HIDE DEF i
  <1>4. TakenBack(i, "member")
    <2> DEFINE r == [rows[i] EXCEPT !.ver = @ + 1, !.refresh = 0]
    <2>1. r \in RowRecord /\ r.kind = "member" /\ r.ver = rows[i].ver + 1 /\ r.refresh = 0
      BY <1>2, <1>3, RowTakenBack
    <2>2. rows' = [rows EXCEPT ![i] = r]
      BY <1>1, <1>3
    <2> HIDE DEF r
    <2> QED
      BY <2>1, <2>2 DEF TakenBack
  <1>5. ApiStep
    BY <1>1, <1>2, <1>3, <1>4, TakenBackStep
  <1>6. ScreenTypes'
    BY <1>1, ScreenStays DEF Inv, ScreenTypes
  <1>7. True(f, frame[t][f], "ok", 0)
    BY <1>1, RotationIsRenewal DEF True
  <1>8. Hears(t, f, "ok", 0)
    BY <1>1, GrantedIsNew DEF Hears, Answer, Inv
  <1> QED
    BY <1>1, <1>5, <1>6, <1>7, <1>8, HeardStep

LEMMA ServeWithdrawStep ==
  ASSUME Inv, NEW t \in Tab, NEW f \in Frame, ServeWithdraw(t, f)
  PROVE  Inv'
  <1> DEFINE i == grants[frame[t][f].token].row
  <1>1. /\ UNCHANGED <<grants, expired, code, faults, store, screen, acts>>
        /\ frame[t][f].pc = "sent" /\ frame[t][f].call = "withdraw"
        /\ Check(frame[t][f].token) = "ok" /\ grants[frame[t][f].token].kind = "member"
        /\ rows' = [rows EXCEPT ![i].kind = "gone", ![i].ver = @ + 1, ![i].refresh = 0]
        /\ account' = 0
        /\ Reply(t, f, "ok", 0)
    BY DEF ServeWithdraw, server, ClientIdle, Sent
  <1>2. frame[t][f].token # 0 /\ rows[i].kind = "member"
    BY <1>1, GoodToken
  <1>3. i \in DOMAIN rows /\ rows[i] \in RowRecord
    BY <1>2, SentMember
  <1> HIDE DEF i
  <1>4. TakenBack(i, "gone")
    <2> DEFINE r == [rows[i] EXCEPT !.kind = "gone", !.ver = @ + 1, !.refresh = 0]
    <2>1. r \in RowRecord /\ r.kind = "gone" /\ r.ver = rows[i].ver + 1 /\ r.refresh = 0
      BY <1>2, <1>3, RowTakenBack
    <2>2. rows' = [rows EXCEPT ![i] = r]
      BY <1>1, <1>3
    <2> HIDE DEF r
    <2> QED
      BY <2>1, <2>2 DEF TakenBack
  <1>5. ApiStep
    BY <1>1, <1>2, <1>3, <1>4, TakenBackStep
  <1>6. ScreenTypes'
    BY <1>1, ScreenStays DEF Inv, ScreenTypes
  <1>7. True(f, frame[t][f], "ok", 0)
    BY <1>1, RotationIsRenewal DEF True
  <1>8. Hears(t, f, "ok", 0)
    BY <1>1, GrantedIsNew DEF Hears, Answer, Inv
  <1> QED
    BY <1>1, <1>5, <1>6, <1>7, <1>8, HeardStep

LEMMA ServeRefreshStep ==
  ASSUME Inv, NEW t \in Tab, NEW f \in Frame, ServeRefresh(t, f)
  PROVE  Inv'
  <1>1. /\ UNCHANGED <<account, expired, code, faults, store, screen, acts>>
        /\ frame[t][f].pc = "sent" /\ frame[t][f].call = "refresh" /\ f = "rotate" /\ frame[t][f].refresh # 0
    BY RotationIsRenewal DEF ServeRefresh, ClientIdle, Sent
  <1>2. ScreenTypes'
    BY <1>1, ScreenStays DEF Inv, ScreenTypes
  <1>3. CASE Holder(frame[t][f].refresh) = {} /\ Reply(t, f, "unauthorized", 0) /\ UNCHANGED <<rows, grants>>
    <2>1. ApiStep
      BY <1>1, <1>3, NoRowStep DEF Inv, ApiTypes
    <2>2. \A i \in DOMAIN rows : rows[i].refresh # frame[t][f].refresh
      BY <1>1, <1>3 DEF Holder, Inv, ApiMeans
    <2>3. True(f, frame[t][f], "unauthorized", 0)
      BY <1>1, <1>3, <2>2 DEF True, UserCall
    <2>4. Hears(t, f, "unauthorized", 0)
      BY <1>1, <1>3, GrantedIsNew DEF Hears, Answer, Inv
    <2> QED
      BY <1>1, <1>2, <2>1, <2>3, <2>4, HeardStep
  <1>4. ASSUME NEW i \in Holder(frame[t][f].refresh),
               rows' = [rows EXCEPT ![i].refresh = Granted],
               grants' = Append(grants, [row |-> i, kind |-> "member", ver |-> rows[i].ver]),
               Reply(t, f, "ok", Granted)
        PROVE  Inv'
    <2>1. i \in DOMAIN rows /\ rows[i].kind = "member"
      BY DEF Holder
    <2>2. NewSession(i)
      BY <1>4, <2>1 DEF NewSession
    <2>3. ApiStep /\ Granted \in DOMAIN grants' /\ grants'[Granted].kind = "member"
      BY <1>1, <2>1, <2>2, NewSessionStep
    <2>4. True(f, frame[t][f], "ok", Granted)
      BY <1>1, <2>3, GrantedIsNew DEF True, UserCall, Inv
    <2>5. Hears(t, f, "ok", Granted)
      BY <1>1, <1>4, <2>3 DEF Hears, Answer
    <2> QED
      BY <1>1, <1>2, <2>3, <2>4, <2>5, HeardStep
  <1> QED
    BY <1>3, <1>4 DEF ServeRefresh

LEMMA LoginElsewhereStep ==
  ASSUME Inv, LoginElsewhere
  PROVE  Inv'
  <1>1. UNCHANGED <<account, expired, code, store, frame, screen, faults>> /\ account # 0 /\ Act
    BY DEF LoginElsewhere
  <1>2. account \in DOMAIN rows /\ rows[account].kind = "member"
    BY <1>1, Indices DEF Inv, ApiTypes, ApiMeans
  <1>3. NewSession(account)
    BY <1>2 DEF LoginElsewhere, NewSession
  <1>4. ApiStep
    BY <1>1, <1>2, <1>3, NewSessionStep
  <1>5. ScreenTypes'
    BY <1>1, SessionAssumption DEF Act, Inv, ScreenTypes, screen
  <1> QED
    BY <1>1, <1>4, <1>5, SilentStep

LEMMA LogoutElsewhereStep ==
  ASSUME Inv, LogoutElsewhere
  PROVE  Inv'
  <1>1. /\ UNCHANGED <<account, grants, expired, code, store, frame, screen, faults>> /\ account # 0 /\ Act
        /\ rows' = [rows EXCEPT ![account].ver = @ + 1, ![account].refresh = 0]
    BY DEF LogoutElsewhere
  <1>2. account \in DOMAIN rows /\ rows[account].kind = "member" /\ rows[account] \in RowRecord
    BY <1>1, Indices DEF Inv, ApiTypes, ApiMeans
  <1>3. TakenBack(account, "member")
    <2> DEFINE r == [rows[account] EXCEPT !.ver = @ + 1, !.refresh = 0]
    <2>1. r \in RowRecord /\ r.kind = "member" /\ r.ver = rows[account].ver + 1 /\ r.refresh = 0
      BY <1>2, RowTakenBack
    <2>2. rows' = [rows EXCEPT ![account] = r]
      BY <1>1, <1>2
    <2> HIDE DEF r
    <2> QED
      BY <2>1, <2>2 DEF TakenBack
  <1>4. ApiStep
    BY <1>1, <1>2, <1>3, TakenBackStep
  <1>5. ScreenTypes'
    BY <1>1, SessionAssumption DEF Act, Inv, ScreenTypes, screen
  <1> QED
    BY <1>1, <1>4, <1>5, SilentStep

LEMMA ExpireStep ==
  ASSUME Inv, Expire
  PROVE  Inv'
  <1>1. UNCHANGED <<rows, account, grants, code, store, frame, screen, faults>> /\ Act /\ expired \subseteq expired'
    BY DEF Expire
  <1>2. ApiStep
    BY <1>1, NoRowStep DEF Inv, ApiTypes
  <1>3. ScreenTypes'
    BY <1>1, SessionAssumption DEF Act, Inv, ScreenTypes, screen
  <1> QED
    BY <1>1, <1>2, <1>3, SilentStep

LEMMA AgeRefreshStep ==
  ASSUME Inv, AgeRefresh
  PROVE  Inv'
  <1>1. UNCHANGED <<account, grants, expired, code, store, frame, screen, faults>> /\ Act
    BY DEF AgeRefresh
  <1>2. PICK i \in DOMAIN rows : rows' = [rows EXCEPT ![i].refresh = 0]
    BY DEF AgeRefresh
  <1>3. \A k \in DOMAIN rows : rows[k] \in RowRecord /\ rows[k].ver \in Nat
    BY Indices DEF Inv, RowRecord
  <1> DEFINE r == [rows[i] EXCEPT !.refresh = 0]
  <1>4. r \in RowRecord /\ r.kind = rows[i].kind /\ r.ver = rows[i].ver /\ r.refresh = 0
    BY <1>3 DEF RowRecord
  <1>5. rows' = [rows EXCEPT ![i] = r]
    BY <1>2
  <1> HIDE DEF r
  <1>6. /\ rows' \in Seq(RowRecord) /\ DOMAIN rows' = DOMAIN rows /\ Len(rows') = Len(rows)
        /\ rows'[i] = r /\ \A k \in DOMAIN rows : k # i => rows'[k] = rows[k]
    BY <1>4, <1>5, RowChanged DEF Inv, ApiTypes
  <1>7. \A k \in DOMAIN rows : /\ rows'[k].kind = rows[k].kind /\ rows'[k].ver = rows[k].ver
                              /\ rows'[k].refresh \in {0, rows[k].refresh}
    BY <1>4, <1>6
  <1>8. RowsGrow /\ GrantsGrow /\ RefreshMoves
    BY <1>1, <1>3, <1>6, <1>7 DEF RowsGrow, GrantsGrow, RefreshMoves
  <1>9. ApiTypes'
    BY <1>1, <1>6 DEF Inv, ApiTypes
  <1>10. ApiMeans'
    <2>1. account # 0 => account \in DOMAIN rows
      BY Indices DEF Inv, ApiTypes
    <2> QED
      BY <1>1, <1>6, <1>7, <2>1 DEF Inv, ApiMeans
  <1>11. ScreenTypes'
    BY <1>1, SessionAssumption DEF Act, Inv, ScreenTypes, screen
  <1> QED
    BY <1>1, <1>8, <1>9, <1>10, <1>11, SilentStep DEF ApiStep

LEMMA SendLinkStep ==
  ASSUME Inv, SendLink
  PROVE  Inv'
  <1>1. /\ UNCHANGED <<rows, account, grants, expired, store, frame, screen, faults>> /\ account # 0 /\ Act
        /\ code' = [row |-> account, ver |-> rows[account].ver]
    BY DEF SendLink
  <1>2. account \in DOMAIN rows /\ rows[account].ver \in Nat /\ account \in 0 .. Len(rows)
    BY <1>1, Indices DEF Inv, ApiTypes, RowRecord
  <1>3. ApiStep
    BY <1>1, <1>2, NoRowStep
  <1>4. ScreenTypes'
    BY <1>1, SessionAssumption DEF Act, Inv, ScreenTypes, screen
  <1> QED
    BY <1>1, <1>3, <1>4, SilentStep

\* A grant for the row of a member, or of a new guest, and no more refresh tokens.
LEMMA GrantStep ==
  ASSUME Inv, NEW g \in GrantRecord, grants' = Append(grants, g), UNCHANGED <<account, expired>>,
         code' \in [row : 0 .. Len(rows'), ver : Nat],
         rows' \in Seq(RowRecord), Len(rows') >= Len(rows),
         \A i \in DOMAIN rows : i \in DOMAIN rows' /\ rows'[i] = rows[i],
         \A i \in DOMAIN rows' : i \in DOMAIN rows \/ rows'[i].refresh = 0,
         /\ g.row \in DOMAIN rows' /\ g.ver <= rows'[g.row].ver
         /\ g.kind = "member" => rows'[g.row].kind # "guest"
  PROVE  ApiStep /\ Granted \in DOMAIN grants' /\ grants'[Granted] = g
  <1>1. ApiTypes /\ ApiMeans
    BY DEF Inv
  <1>2. /\ DOMAIN grants' = DOMAIN grants \cup {Granted} /\ grants' \in Seq(GrantRecord)
        /\ \A n \in DOMAIN grants : grants'[n] = grants[n]
        /\ grants'[Granted] = g /\ Granted \notin DOMAIN grants
    <2>1. /\ grants' \in Seq(GrantRecord) /\ DOMAIN grants' = 1 .. Len(grants) + 1
          /\ DOMAIN grants = 1 .. Len(grants) /\ Len(grants) \in Nat
          /\ \A n \in DOMAIN grants : grants'[n] = grants[n]
          /\ grants'[Len(grants) + 1] = g
      BY <1>1, GrantAdded DEF ApiTypes
    <2> QED
      BY <2>1 DEF Granted
  <1>3. \A i \in DOMAIN rows : rows[i].ver \in Nat
    BY <1>1, Indices DEF RowRecord
  <1>4. RowsGrow
    BY <1>3 DEF RowsGrow
  <1>5. GrantsGrow
    BY <1>2 DEF GrantsGrow
  <1>6. RefreshMoves
    BY DEF RefreshMoves
  <1>7. ApiTypes'
    <2>1. Len(rows) \in Nat /\ Len(rows') \in Nat
      BY <1>1, LenProperties DEF ApiTypes
    <2>2. account' \in 0 .. Len(rows')
      BY <1>1, <2>1 DEF ApiTypes
    <2> QED
      BY <1>2, <2>2 DEF ApiTypes
  <1>8. ApiMeans'
    <2>1. account' # 0 => rows'[account'].kind = "member"
      BY <1>1, Indices DEF ApiMeans, ApiTypes
    <2>2. ASSUME NEW k \in DOMAIN rows', rows'[k].refresh # 0
          PROVE  /\ rows'[k].kind = "member" /\ rows'[k].refresh \in DOMAIN grants'
                 /\ grants'[rows'[k].refresh].row = k /\ grants'[rows'[k].refresh].ver = rows'[k].ver
      <3>1. k \in DOMAIN rows /\ rows'[k] = rows[k] /\ rows[k].refresh # 0
        BY <2>2
      <3>2. /\ rows[k].kind = "member" /\ rows[k].refresh \in DOMAIN grants
            /\ grants[rows[k].refresh].row = k /\ grants[rows[k].refresh].ver = rows[k].ver
        BY <1>1, <3>1 DEF ApiMeans
      <3> QED
        BY <1>2, <3>1, <3>2
    <2>3. ASSUME NEW n \in DOMAIN grants'
          PROVE  /\ grants'[n].row \in DOMAIN rows' /\ grants'[n].ver <= rows'[grants'[n].row].ver
                 /\ grants'[n].kind = "member" => rows'[grants'[n].row].kind # "guest"
      <3>1. CASE n = Granted
        BY <1>2, <3>1
      <3>2. CASE n # Granted
        <4>1. n \in DOMAIN grants /\ grants'[n] = grants[n]
          BY <1>2, <3>2
        <4> QED
          BY <1>1, <4>1 DEF ApiMeans
      <3> QED
        BY <3>1, <3>2
    <2> QED
      BY <2>1, <2>2, <2>3 DEF ApiMeans
  <1> QED
    BY <1>2, <1>4, <1>5, <1>6, <1>7, <1>8 DEF ApiStep

LEMMA ServeIssueStep ==
  ASSUME Inv, NEW t \in Tab, NEW f \in Frame, ServeIssue(t, f)
  PROVE  Inv'
  <1> DEFINE r == [kind |-> "guest", ver |-> 0, refresh |-> 0]
             g == [row |-> Len(rows) + 1, kind |-> "guest", ver |-> 0]
  <1>1. /\ UNCHANGED <<account, expired, code, faults, store, screen, acts>>
        /\ frame[t][f].pc = "sent" /\ frame[t][f].call = "issue" /\ f # "rotate"
        /\ rows' = Append(rows, r) /\ grants' = Append(grants, g)
        /\ Reply(t, f, "ok", Granted)
    BY RotationIsRenewal DEF ServeIssue, ClientIdle, Sent
  <1>2. r \in RowRecord /\ r.refresh = 0 /\ r.ver = 0
    BY DEF RowRecord
  <1>3. g \in GrantRecord /\ g.row = Len(rows) + 1 /\ g.kind = "guest" /\ g.ver = 0
    BY Indices DEF GrantRecord, Inv
  <1> HIDE DEF r, g
  <1>4. /\ rows' \in Seq(RowRecord)
        /\ DOMAIN rows' = 1 .. Len(rows) + 1 /\ DOMAIN rows = 1 .. Len(rows)
        /\ Len(rows') = Len(rows) + 1 /\ Len(rows) \in Nat
        /\ \A i \in DOMAIN rows : rows'[i] = rows[i]
        /\ rows'[Len(rows) + 1] = r
    BY <1>1, <1>2, RowAdded DEF Inv, ApiTypes
  <1>5. code' \in [row : 0 .. Len(rows'), ver : Nat]
    <2>1. code \in [row : 0 .. Len(rows), ver : Nat] /\ 0 .. Len(rows) \subseteq 0 .. Len(rows')
      BY <1>4 DEF Inv, ApiTypes
    <2> QED
      BY <1>1, <2>1
  <1>6. Len(rows') >= Len(rows)
    BY <1>4
  <1>7. \A i \in DOMAIN rows : i \in DOMAIN rows' /\ rows'[i] = rows[i]
    BY <1>4
  <1>8. \A i \in DOMAIN rows' : i \in DOMAIN rows \/ rows'[i].refresh = 0
    BY <1>2, <1>4
  <1>9. /\ g.row \in DOMAIN rows' /\ g.ver <= rows'[g.row].ver
        /\ g.kind = "member" => rows'[g.row].kind # "guest"
    BY <1>2, <1>3, <1>4
  <1>10. ApiStep /\ Granted \in DOMAIN grants' /\ grants'[Granted] = g
    BY <1>1, <1>3, <1>4, <1>5, <1>6, <1>7, <1>8, <1>9, GrantStep
  <1>11. ScreenTypes'
    BY <1>1, ScreenStays DEF Inv, ScreenTypes
  <1>12. True(f, frame[t][f], "ok", Granted)
    BY <1>1, <1>3, <1>10, GrantedIsNew DEF True, UserCall, Inv
  <1>13. Hears(t, f, "ok", Granted)
    BY <1>1, <1>10 DEF Hears, Answer
  <1> QED
    BY <1>1, <1>10, <1>11, <1>12, <1>13, HeardStep

LEMMA ServeHandoffStep ==
  ASSUME Inv, NEW t \in Tab, NEW f \in Frame, ServeHandoff(t, f)
  PROVE  Inv'
  <1>1. /\ UNCHANGED <<rows, account, expired, faults, store, screen, acts>>
        /\ frame[t][f].pc = "sent" /\ frame[t][f].call = "handoff" /\ f # "rotate"
        /\ code' = [row |-> 0, ver |-> 0]
    BY RotationIsRenewal DEF ServeHandoff, ClientIdle, Sent
  <1>2. ScreenTypes'
    BY <1>1, ScreenStays DEF Inv, ScreenTypes
  <1>3. code' \in [row : 0 .. Len(rows), ver : Nat]
    BY <1>1, Indices DEF Inv
  <1>4. CASE Redeemable /\ Reply(t, f, "ok", Granted)
             /\ grants' = Append(grants, [row |-> code.row, kind |-> "member", ver |-> code.ver])
    <2> DEFINE g == [row |-> code.row, kind |-> "member", ver |-> code.ver]
    <2>1. code.row \in DOMAIN rows /\ rows[code.row].kind = "member" /\ rows[code.row].ver = code.ver
      BY <1>4, Indices DEF Redeemable, Inv, ApiTypes
    <2>2. rows[code.row].ver \in Nat
      BY <2>1, Indices DEF Inv, RowRecord
    <2>3. g \in GrantRecord /\ g.row = code.row /\ g.kind = "member" /\ g.ver = code.ver
      BY <2>1, <2>2, Indices DEF GrantRecord, Inv
    <2>4. grants' = Append(grants, g)
      BY <1>4
    <2> HIDE DEF g
    <2>5. rows' \in Seq(RowRecord) /\ Len(rows') >= Len(rows)
      BY <1>1, Indices DEF Inv, ApiTypes
    <2>6. ApiStep /\ Granted \in DOMAIN grants' /\ grants'[Granted] = g
      <3>1. code' \in [row : 0 .. Len(rows'), ver : Nat]
        BY <1>1, <1>3
      <3>2. \A i \in DOMAIN rows : i \in DOMAIN rows' /\ rows'[i] = rows[i]
        BY <1>1
      <3>3. \A i \in DOMAIN rows' : i \in DOMAIN rows \/ rows'[i].refresh = 0
        BY <1>1
      <3>4. /\ g.row \in DOMAIN rows' /\ g.ver <= rows'[g.row].ver
            /\ g.kind = "member" => rows'[g.row].kind # "guest"
        BY <1>1, <2>1, <2>2, <2>3
      <3>5. UNCHANGED <<account, expired>>
        BY <1>1
      <3> QED
        BY <2>3, <2>4, <2>5, <3>1, <3>2, <3>3, <3>4, <3>5, GrantStep
    <2>7. True(f, frame[t][f], "ok", Granted)
      BY <1>1, <2>3, <2>6, GrantedIsNew DEF True, UserCall, Inv
    <2>8. Hears(t, f, "ok", Granted)
      BY <1>1, <1>4, <2>6 DEF Hears, Answer
    <2> QED
      BY <1>1, <1>2, <2>6, <2>7, <2>8, HeardStep
  <1>5. CASE grants' = grants /\ Reply(t, f, "unauthorized", 0)
    <2>1. ApiStep
      BY <1>1, <1>3, <1>5, NoRowStep
    <2>2. True(f, frame[t][f], "unauthorized", 0)
      BY <1>1 DEF True, UserCall
    <2>3. Hears(t, f, "unauthorized", 0)
      BY <1>1, <1>5, GrantedIsNew DEF Hears, Answer, Inv
    <2> QED
      BY <1>1, <1>2, <2>1, <2>2, <2>3, HeardStep
  <1> QED
    BY <1>4, <1>5 DEF ServeHandoff

\* A guest becomes the account, or is merged into it.
Merged(guest, target) ==
  /\ rows' = [i \in DOMAIN rows |->
                IF i = target THEN [rows[i] EXCEPT !.kind = "member", !.refresh = Granted]
                ELSE IF i = guest THEN [rows[i] EXCEPT !.kind = "gone"] ELSE rows[i]]
  /\ grants' = Append(grants, [row |-> target, kind |-> "member", ver |-> rows[target].ver])
  /\ account' = target

LEMMA MergedStep ==
  ASSUME Inv, NEW guest \in DOMAIN rows, rows[guest].kind = "guest",
         NEW target \in DOMAIN rows, target = guest \/ rows[target].kind = "member",
         Merged(guest, target), UNCHANGED <<expired, code>>
  PROVE  ApiStep /\ Granted \in DOMAIN grants' /\ grants'[Granted].kind = "member"
  <1> DEFINE g == [row |-> target, kind |-> "member", ver |-> rows[target].ver]
             h == [i \in DOMAIN rows |->
                     IF i = target THEN [rows[i] EXCEPT !.kind = "member", !.refresh = Granted]
                     ELSE IF i = guest THEN [rows[i] EXCEPT !.kind = "gone"] ELSE rows[i]]
  <1>1. ApiTypes /\ ApiMeans
    BY DEF Inv
  <1>2. /\ \A i \in DOMAIN rows : rows[i] \in RowRecord
        /\ Granted = Len(grants) + 1 /\ Granted \in Nat /\ Granted # 0 /\ Granted \notin DOMAIN grants
    BY <1>1, Indices, GrantedIsNew DEF Granted
  <1>3. /\ g \in GrantRecord /\ g.row = target /\ g.kind = "member" /\ g.ver = rows[target].ver
        /\ target \in 1 .. Len(rows) /\ Len(rows) \in Nat
    BY <1>1, <1>2, Indices DEF GrantRecord, RowRecord
  <1>4. \A i \in DOMAIN rows : h[i] \in RowRecord
    BY <1>2 DEF RowRecord
  <1>5. rows' = [i \in DOMAIN rows |-> h[i]] /\ grants' = Append(grants, g) /\ account' = target
    BY DEF Merged
  \* What the rows are.
  <1>6. /\ h[target].kind = "member" /\ h[target].refresh = Granted /\ h[target].ver = rows[target].ver
        /\ guest # target => /\ h[guest].kind = "gone" /\ h[guest].refresh = rows[guest].refresh
                             /\ h[guest].ver = rows[guest].ver
        /\ \A i \in DOMAIN rows : i # target /\ i # guest => h[i] = rows[i]
    BY <1>2 DEF RowRecord
  <1> HIDE DEF g, h
  <1>7. /\ rows' \in Seq(RowRecord) /\ DOMAIN rows' = DOMAIN rows /\ Len(rows') = Len(rows)
        /\ \A i \in DOMAIN rows : rows'[i] = h[i]
    BY <1>1, <1>4, <1>5, RowsChanged DEF ApiTypes
  <1>8. /\ grants' \in Seq(GrantRecord) /\ DOMAIN grants' = DOMAIN grants \cup {Granted}
        /\ \A n \in DOMAIN grants : grants'[n] = grants[n]
        /\ grants'[Granted] = g
    <2>1. /\ grants' \in Seq(GrantRecord) /\ DOMAIN grants' = 1 .. Len(grants) + 1
          /\ DOMAIN grants = 1 .. Len(grants) /\ Len(grants) \in Nat
          /\ \A n \in DOMAIN grants : grants'[n] = grants[n]
          /\ grants'[Len(grants) + 1] = g
      BY <1>1, <1>3, <1>5, GrantAdded DEF ApiTypes
    <2> QED
      BY <1>2, <2>1
  <1>9. rows[guest].refresh = 0
    BY <1>1 DEF ApiMeans
  <1>10. \A i \in DOMAIN rows : /\ rows[i].ver \in Nat /\ rows'[i].ver = rows[i].ver
                                /\ rows[i].kind = "gone" => rows'[i].kind = "gone"
                                /\ rows'[i].refresh = IF i = target THEN Granted ELSE rows[i].refresh
                                /\ rows'[i].kind = IF i = target THEN "member" ELSE
                                                   IF i = guest THEN "gone" ELSE rows[i].kind
    <2> SUFFICES ASSUME NEW i \in DOMAIN rows
                 PROVE  /\ rows[i].ver \in Nat /\ rows'[i].ver = rows[i].ver
                        /\ rows[i].kind = "gone" => rows'[i].kind = "gone"
                        /\ rows'[i].refresh = IF i = target THEN Granted ELSE rows[i].refresh
                        /\ rows'[i].kind = IF i = target THEN "member" ELSE
                                           IF i = guest THEN "gone" ELSE rows[i].kind
      OBVIOUS
    <2>1. rows[i].ver \in Nat
      BY <1>2 DEF RowRecord
    <2>2. CASE i = target
      BY <1>6, <1>7, <2>1, <2>2
    <2>3. CASE i # target /\ i = guest
      BY <1>6, <1>7, <2>1, <2>3
    <2>4. CASE i # target /\ i # guest
      BY <1>6, <1>7, <2>1, <2>4
    <2> QED
      BY <2>2, <2>3, <2>4
  <1>11. RowsGrow /\ GrantsGrow /\ RefreshMoves
    BY <1>7, <1>8, <1>10 DEF RowsGrow, GrantsGrow, RefreshMoves
  <1>12. ApiTypes'
    BY <1>1, <1>3, <1>5, <1>7, <1>8 DEF ApiTypes
  <1>13. ApiMeans'
    <2>1. account' # 0 => rows'[account'].kind = "member"
      BY <1>5, <1>10
    <2>2. ASSUME NEW k \in DOMAIN rows', rows'[k].refresh # 0
          PROVE  /\ rows'[k].kind = "member" /\ rows'[k].refresh \in DOMAIN grants'
                 /\ grants'[rows'[k].refresh].row = k /\ grants'[rows'[k].refresh].ver = rows'[k].ver
      <3>1. k \in DOMAIN rows
        BY <1>7
      <3>2. CASE k = target
        BY <1>3, <1>8, <1>10, <3>1, <3>2
      <3>3. CASE k # target
        <4>1. rows'[k].refresh = rows[k].refresh /\ rows[k].refresh # 0 /\ k # guest
          BY <1>9, <1>10, <2>2, <3>1, <3>3
        <4>2. /\ rows[k].kind = "member" /\ rows[k].refresh \in DOMAIN grants
              /\ grants[rows[k].refresh].row = k /\ grants[rows[k].refresh].ver = rows[k].ver
          BY <1>1, <3>1, <4>1 DEF ApiMeans
        <4>3. rows'[k].kind = rows[k].kind /\ rows'[k].ver = rows[k].ver
          BY <1>10, <3>1, <3>3, <4>1
        <4> QED
          BY <1>8, <4>1, <4>2, <4>3
      <3> QED
        BY <3>2, <3>3
    <2>3. ASSUME NEW n \in DOMAIN grants'
          PROVE  /\ grants'[n].row \in DOMAIN rows' /\ grants'[n].ver <= rows'[grants'[n].row].ver
                 /\ grants'[n].kind = "member" => rows'[grants'[n].row].kind # "guest"
      <3>1. CASE n = Granted
        BY <1>3, <1>7, <1>8, <1>10, <3>1
      <3>2. CASE n # Granted
        <4>1. n \in DOMAIN grants /\ grants'[n] = grants[n]
          BY <1>8, <3>2
        <4>2. /\ grants[n].row \in DOMAIN rows /\ grants[n].ver <= rows[grants[n].row].ver
              /\ grants[n].kind = "member" => rows[grants[n].row].kind # "guest"
          BY <1>1, <4>1 DEF ApiMeans
        <4> QED
          BY <1>7, <1>10, <4>1, <4>2
      <3> QED
        BY <3>1, <3>2
    <2> QED
      BY <2>1, <2>2, <2>3 DEF ApiMeans
  <1> QED
    BY <1>3, <1>8, <1>11, <1>12, <1>13 DEF ApiStep

\* The guest that logs in, and the account it is merged into.
LEMMA ServeLoginMerges ==
  ASSUME Inv, NEW t \in Tab, NEW f \in Frame, ServeLogin(t, f)
  PROVE  \E guest, target \in DOMAIN rows :
           /\ rows[guest].kind = "guest" /\ Merged(guest, target)
           /\ target = guest \/ (rows[target].kind = "member" /\ target # guest)
           /\ excused' = excused \cup {rows[target].refresh}
  <1> DEFINE guest == grants[frame[t][f].token].row
             target == IF account = 0 THEN guest ELSE account
  <1>1. frame[t][f].token # 0 /\ rows[guest].kind = "guest"
    BY GoodToken DEF ServeLogin
  <1>2. guest \in DOMAIN rows
    BY <1>1, SentMember
  <1>3. target \in DOMAIN rows /\ (target = guest \/ rows[target].kind = "member")
    BY <1>2, Indices DEF Inv, ApiTypes, ApiMeans
  <1>4. Merged(guest, target) /\ excused' = excused \cup {rows[target].refresh}
    BY DEF ServeLogin, Merged
  <1> HIDE DEF guest, target
  <1> QED
    BY <1>1, <1>2, <1>3, <1>4

LEMMA ServeLoginStep ==
  ASSUME Inv, NEW t \in Tab, NEW f \in Frame, ServeLogin(t, f)
  PROVE  Inv'
  <1>1. /\ UNCHANGED <<expired, code, faults, store, screen, acts>>
        /\ frame[t][f].pc = "sent" /\ frame[t][f].call \in {"login", "callback"} /\ f # "rotate"
        /\ Reply(t, f, "ok", Granted)
    BY RotationIsRenewal DEF ServeLogin, ClientIdle, Sent
  <1>2. PICK guest, target \in DOMAIN rows :
           /\ rows[guest].kind = "guest" /\ Merged(guest, target)
           /\ target = guest \/ (rows[target].kind = "member" /\ target # guest)
    BY ServeLoginMerges
  <1>3. ApiStep /\ Granted \in DOMAIN grants' /\ grants'[Granted].kind = "member"
    BY <1>1, <1>2, MergedStep
  <1>4. ScreenTypes'
    BY <1>1, ScreenStays DEF Inv, ScreenTypes
  <1>5. True(f, frame[t][f], "ok", Granted)
    BY <1>1, <1>3, GrantedIsNew DEF True, Inv
  <1>6. Hears(t, f, "ok", Granted)
    BY <1>1, <1>3 DEF Hears, Answer
  <1> QED
    BY <1>1, <1>3, <1>4, <1>5, <1>6, HeardStep
-----------------------------------------------------------------------------
(***************************************************************************)
(* The operations of the client.                                           *)
(***************************************************************************)
LEMMA NewFrame ==
  ASSUME NEW task \in TaskName, NEW call \in Call, NEW pc \in Pc
  PROVE  LET q == New(task, call, pc)
         IN /\ q \in FrameRecord
            /\ q.task = task /\ q.call = call /\ q.pc = pc /\ q.token = 0 /\ q.kind = "none"
            /\ q.refresh = 0 /\ q.answer = "none" /\ q.got = 0
  BY DEF New, FrameRecord, Kind, Answer

LEMMA IdleFrame ==
  ASSUME NEW f \in Frame
  PROVE  /\ Idle \in FrameRecord /\ NewCall(f, Idle) /\ Idle.pc = "idle" /\ Idle.got = 0
         /\ Idle.answer = "none" /\ Idle.task = "none" /\ Idle.call = "none"
  <1>1. "none" \in TaskName /\ "none" \in Call /\ "idle" \in Pc
    BY DEF TaskName, Call, Pc
  <1>2. /\ Idle \in FrameRecord /\ Idle.task = "none" /\ Idle.call = "none" /\ Idle.pc = "idle"
        /\ Idle.token = 0 /\ Idle.kind = "none" /\ Idle.refresh = 0 /\ Idle.answer = "none" /\ Idle.got = 0
    BY <1>1, NewFrame DEF Idle
  <1>3. Placed(f, Idle)
    BY <1>2 DEF Placed, UserCall
  <1> QED
    BY <1>2, <1>3 DEF NewCall

LEMMA IssueFrame ==
  ASSUME NEW f \in Frame, f # "rotate", NEW task \in TaskName, task \in UserCall => f \in Task
  PROVE  /\ Issue(task) \in FrameRecord /\ NewCall(f, Issue(task))
         /\ Issue(task).got = 0 /\ Issue(task).pc = "sent" /\ Issue(task).answer = "none"
         /\ Issue(task).task = task
  <1>1. "issue" \in Call /\ "sent" \in Pc
    BY DEF Call, Pc
  <1>2. /\ Issue(task) \in FrameRecord /\ Issue(task).task = task /\ Issue(task).call = "issue"
        /\ Issue(task).pc = "sent" /\ Issue(task).token = 0 /\ Issue(task).kind = "none"
        /\ Issue(task).refresh = 0 /\ Issue(task).answer = "none" /\ Issue(task).got = 0
    BY <1>1, NewFrame DEF Issue
  <1>3. Placed(f, Issue(task))
    BY <1>2 DEF Placed, UserCall
  <1> QED
    BY <1>2, <1>3 DEF NewCall

\* A tab's renewal.
Renewal(n) == [New("rotate", "refresh", "sent") EXCEPT !.refresh = n]

LEMMA RenewalFrame ==
  ASSUME NEW n \in Nat, n # 0
  PROVE  /\ Renewal(n) \in FrameRecord /\ Renewal(n).pc = "sent" /\ Renewal(n).answer = "none"
         /\ Renewal(n).refresh = n /\ Renewal(n).got = 0
         /\ n = store.refresh => NewCall("rotate", Renewal(n))
  <1> DEFINE q == New("rotate", "refresh", "sent")
  <1>1. "rotate" \in TaskName /\ "refresh" \in Call /\ "sent" \in Pc
    BY DEF TaskName, Call, Pc
  <1>2. /\ q \in FrameRecord /\ q.task = "rotate" /\ q.call = "refresh" /\ q.pc = "sent"
        /\ q.token = 0 /\ q.kind = "none" /\ q.answer = "none" /\ q.got = 0
    BY <1>1, NewFrame
  <1>3. Renewal(n) = [q EXCEPT !.refresh = n]
    BY DEF Renewal
  <1> HIDE DEF q
  <1>4. /\ Renewal(n) \in FrameRecord /\ Renewal(n).task = "rotate" /\ Renewal(n).call = "refresh"
        /\ Renewal(n).pc = "sent" /\ Renewal(n).token = 0 /\ Renewal(n).kind = "none"
        /\ Renewal(n).answer = "none" /\ Renewal(n).got = 0 /\ Renewal(n).refresh = n
    BY <1>2, <1>3 DEF FrameRecord
  <1>5. Placed("rotate", Renewal(n))
    BY <1>4 DEF Placed, UserCall
  <1> QED
    BY <1>4, <1>5 DEF NewCall

\* A call that waits, or is tried again.
LEMMA WaitingFrame ==
  ASSUME NEW r \in FrameRecord, NEW f \in Task, Placed(f, r), NEW pc \in {"rotating", "reissuing"}
  PROVE  [r EXCEPT !.pc = pc] \in FrameRecord /\ Waits(f, r, [r EXCEPT !.pc = pc])
  <1> DEFINE q == [r EXCEPT !.pc = pc]
  <1>1. pc \in Pc /\ f # "rotate" /\ f # "reissue" /\ pc # "back"
    BY SessionAssumption DEF Pc
  <1>2. /\ q \in FrameRecord /\ q.pc = pc /\ q.task = r.task /\ q.call = r.call /\ q.token = r.token
        /\ q.kind = r.kind /\ q.refresh = r.refresh /\ q.got = r.got
    BY <1>1 DEF FrameRecord
  <1> HIDE DEF q
  <1>3. Placed(f, q)
    BY <1>1, <1>2 DEF Placed
  <1>4. Waits(f, r, q)
    BY <1>1, <1>2, <1>3 DEF Waits
  <1> QED
    BY <1>2, <1>4 DEF q

LEMMA AgainFrame ==
  ASSUME NEW r \in FrameRecord, NEW f \in Task, Placed(f, r)
  PROVE  Again(r) \in FrameRecord /\ Tame(f, r, Again(r)) /\ Again(r).pc # "back"
  <1>1. CASE r.task = "retry"
    <2>1. Again(r) = Idle
      BY <1>1 DEF Again
    <2> QED
      BY <2>1, IdleFrame DEF Tame, Frame
  <1>2. CASE r.task # "retry"
    <2> DEFINE q == [r EXCEPT !.pc = "ready", !.retried = TRUE]
    <2>1. Again(r) = q
      BY <1>2 DEF Again
    <2>2. "ready" \in Pc /\ f # "rotate" /\ f # "reissue"
      BY SessionAssumption DEF Pc
    <2>3. /\ q \in FrameRecord /\ q.pc = "ready" /\ q.task = r.task /\ q.call = r.call /\ q.token = r.token
          /\ q.kind = r.kind /\ q.refresh = r.refresh /\ q.got = r.got
      BY <2>2 DEF FrameRecord
    <2> HIDE DEF q
    <2>4. Placed(f, q)
      BY <2>2, <2>3 DEF Placed
    <2> QED
      BY <2>1, <2>2, <2>3, <2>4 DEF Waits, Tame
  <1> QED
    BY <1>1, <1>2

LEMMA FailedFrame ==
  ASSUME NEW r \in FrameRecord, NEW f \in Task, Placed(f, r)
  PROVE  Failed(r) \in FrameRecord /\ Tame(f, r, Failed(r)) /\ Failed(r).pc # "back"
  <1>1. f \in Frame /\ f # "rotate" /\ "logout" \in TaskName /\ "logout" \in UserCall
    BY SessionAssumption DEF Frame, TaskName, UserCall
  <1>2. CASE r.task = "logout"
    <2>1. Failed(r) = Issue("logout")
      BY <1>2 DEF Failed
    <2> QED
      BY <1>1, <2>1, IssueFrame DEF Tame
  <1>3. CASE r.task # "logout"
    <2>1. Failed(r) = Idle
      BY <1>3 DEF Failed
    <2> QED
      BY <1>1, <2>1, IdleFrame DEF Tame
  <1> QED
    BY <1>2, <1>3

\* The frames of one tab change, one or two or all of them.
LEMMA TabTame ==
  ASSUME Inv, NEW t \in Tab, NEW fs \in [Frame -> FrameRecord], TabFrames(t, fs),
         \A f \in Frame : Tame(f, frame[t][f], fs[f])
  PROVE  FrameTypes' /\ FramesTame /\ frame'[t] = fs
  <1>1. FrameTypes' /\ frame'[t] = fs /\ \A s \in Tab : s # t => frame'[s] = frame[s]
    BY TabChanged DEF Inv
  <1> QED
    BY <1>1 DEF FramesTame, Tame

LEMMA OneTame ==
  ASSUME Inv, NEW t \in Tab, NEW f \in Frame, NEW q \in FrameRecord, OneFrame(t, f, q),
         Tame(f, frame[t][f], q)
  PROVE  FrameTypes' /\ FramesTame /\ frame'[t][f] = q
  <1>1. /\ FrameTypes' /\ frame'[t][f] = q
        /\ \A s \in Tab, g \in Frame : s # t \/ g # f => frame'[s][g] = frame[s][g]
    BY FrameChanged DEF Inv
  <1>2. ASSUME NEW s \in Tab, NEW g \in Frame
        PROVE  Tame(g, frame[s][g], frame'[s][g])
    <2>1. CASE s = t /\ g = f
      BY <1>1, <2>1
    <2>2. CASE s # t \/ g # f
      BY <1>1, <2>2 DEF Tame
    <2> QED
      BY <2>1, <2>2
  <1> QED
    BY <1>1, <1>2 DEF FramesTame

LEMMA TwoTame ==
  ASSUME Inv, NEW t \in Tab, NEW f \in Frame, NEW r \in FrameRecord, NEW g \in Frame,
         NEW q \in FrameRecord, f # g, TwoFrames(t, f, r, g, q),
         Tame(f, frame[t][f], r), Tame(g, frame[t][g], q)
  PROVE  FrameTypes' /\ FramesTame /\ frame'[t][f] = r /\ frame'[t][g] = q
  <1>1. /\ FrameTypes' /\ frame'[t][f] = r /\ frame'[t][g] = q
        /\ \A s \in Tab, h \in Frame : s # t \/ (h # f /\ h # g) => frame'[s][h] = frame[s][h]
    BY FramesChanged DEF Inv
  <1>2. ASSUME NEW s \in Tab, NEW h \in Frame
        PROVE  Tame(h, frame[s][h], frame'[s][h])
    <2>1. CASE s = t /\ h = f
      BY <1>1, <2>1
    <2>2. CASE s = t /\ h = g
      BY <1>1, <2>2
    <2>3. CASE s # t \/ (h # f /\ h # g)
      BY <1>1, <2>3 DEF Tame
    <2> QED
      BY <2>1, <2>2, <2>3
  <1> QED
    BY <1>1, <1>2 DEF FramesTame

\* Only notices change on the screen, and they are the tab's.
LEMMA ScreenMoves ==
  ASSUME Inv, NEW t \in Tab, faults' = faults, acts' = acts \/ Act,
         open' \in {open, open \cup {t}, open \ {t}},
         lost' \in {lost, lost \cup {t}, lost \ {t}},
         limited' \in {limited, limited \cup {t}, limited \ {t}},
         throttled' \in {throttled, throttled \cup {t}, throttled \ {t}}
  PROVE  ScreenTypes'
  <1>1. acts' \in 0 .. MaxAct
    BY SessionAssumption DEF Inv, ScreenTypes, Act
  <1>2. open' \subseteq Tab /\ lost' \subseteq Tab /\ limited' \subseteq Tab /\ throttled' \subseteq Tab
    BY DEF Inv, ScreenTypes
  <1> QED
    BY <1>1, <1>2 DEF Inv, ScreenTypes

\* What the invariant says of a frame.
LEMMA FrameMeans ==
  ASSUME Inv, NEW t \in Tab, NEW f \in Frame
  PROVE  /\ frame[t] \in [Frame -> FrameRecord] /\ frame[t][f] \in FrameRecord
         /\ Placed(f, frame[t][f]) /\ SentWell(frame[t][f]) /\ Told(f, frame[t][f])
         /\ frame[t][f].task \in TaskName /\ frame[t][f].refresh \in Nat /\ frame[t][f].got \in Nat
  BY FrameType DEF Inv, FramesMean, FrameRecord

LEMMA TasksAreFrames ==
  /\ Task \subseteq Frame /\ {"boot", "recover", "rotate", "reissue"} \subseteq Frame
  /\ "boot" \notin Task /\ "recover" \notin Task /\ "rotate" \notin Task /\ "reissue" \notin Task
  BY SessionAssumption DEF Frame

LEMMA BeginStep ==
  ASSUME Inv, NEW t \in Tab, NEW f \in Frame, NEW op \in Op, Begin(t, f, op)
  PROVE  Inv' /\ FramesTame
  <1> DEFINE q == New(op, op, "ready")
  <1>1. /\ UNCHANGED <<store, open, lost, limited, throttled, faults, server>> /\ Act /\ f \in Task
        /\ op \in UserCall /\ frame' = [frame EXCEPT ![t][f] = q]
    BY DEF Begin, ServerIdle, UserCall
  <1>2. op \in TaskName /\ op \in Call /\ "ready" \in Pc
    BY <1>1 DEF TaskName, UserCall, Call, Pc
  <1>3. /\ q \in FrameRecord /\ q.task = op /\ q.call = op /\ q.pc = "ready" /\ q.token = 0 /\ q.kind = "none"
        /\ q.refresh = 0 /\ q.answer = "none" /\ q.got = 0
    BY <1>2, NewFrame
  <1> HIDE DEF q
  <1>4. Placed(f, q)
    BY <1>1, <1>3, TasksAreFrames DEF Placed, UserCall
  <1>5. Tame(f, frame[t][f], q)
    BY <1>3, <1>4 DEF Tame, NewCall
  <1>6. OneFrame(t, f, q)
    BY <1>1 DEF Inv, FrameTypes, OneFrame, TabFrames
  <1>7. FrameTypes' /\ FramesTame
    BY <1>3, <1>5, <1>6, OneTame
  <1>8. ScreenTypes'
    BY <1>1, ScreenMoves
  <1> QED
    BY <1>1, <1>7, <1>8, ClientStep DEF StoreTame

LEMMA SendStep ==
  ASSUME Inv, NEW t \in Tab, NEW f \in Frame, Send(t, f)
  PROVE  Inv' /\ FramesTame
  <1> DEFINE r == frame[t][f]
             q == [r EXCEPT !.pc = "sent", !.token = store.token, !.kind = store.kind,
                            !.refresh = store.refresh]
  <1>1. UNCHANGED <<store, screen, acts, faults, server>> /\ r.pc = "ready"
    BY DEF Send, ServerIdle
  <1>2. /\ r \in FrameRecord /\ Placed(f, r)
        /\ store.token \in Nat /\ store.kind \in Kind /\ store.refresh \in Nat
    BY FrameMeans DEF Inv, StoreMeans, StoreRecord
  <1>3. "sent" \in Pc
    BY DEF Pc
  <1>4. /\ q \in FrameRecord /\ q.pc = "sent" /\ q.task = r.task /\ q.call = r.call
        /\ q.token = store.token /\ q.kind = store.kind /\ q.refresh = store.refresh /\ q.got = r.got
    BY <1>2, <1>3 DEF FrameRecord
  <1>5. OneFrame(t, f, q)
    BY DEF Send, Inv, FrameTypes, FrameRecord, OneFrame, TabFrames
  <1>6. f # "rotate" /\ (f = "reissue" => r.call = "issue")
    BY <1>1, <1>2 DEF Placed, Idle, New
  <1> HIDE DEF q, r
  <1>7. Placed(f, q)
    BY <1>1, <1>2, <1>4, <1>6 DEF Placed
  <1>8. Leaves(f, r, q)
    BY <1>4, <1>6, <1>7 DEF Leaves
  <1>9. Tame(f, frame[t][f], q)
    BY <1>8 DEF Tame, r
  <1>10. FrameTypes' /\ FramesTame
    BY <1>4, <1>5, <1>9, OneTame
  <1>11. ScreenTypes'
    BY <1>1, ScreenStays DEF Inv, ScreenTypes
  <1> QED
    BY <1>1, <1>10, <1>11, ClientStep DEF StoreTame

LEMMA EnsureStep ==
  ASSUME Inv, NEW t \in Tab, NEW f \in Frame, Ensure(t, f)
  PROVE  Inv' /\ FramesTame
  <1> DEFINE r == frame[t][f]
  <1>1. UNCHANGED <<store, acts, faults, server>> /\ r.pc = "ready"
    BY DEF Ensure, ServerIdle
  <1>2. r \in FrameRecord /\ Placed(f, r) /\ r.task \in TaskName
    BY FrameMeans
  <1>3. f # "rotate" /\ (r.task \in UserCall => f \in Task)
    BY <1>1, <1>2 DEF Placed, Idle, New
  <1>4. PICK q \in {Issue(r.task), Idle} : frame' = [frame EXCEPT ![t][f] = q]
    BY DEF Ensure
  <1>5. q \in FrameRecord /\ NewCall(f, q)
    BY <1>2, <1>3, <1>4, IssueFrame, IdleFrame
  <1>6. OneFrame(t, f, q)
    BY <1>4 DEF Inv, FrameTypes, OneFrame, TabFrames
  <1>7. FrameTypes' /\ FramesTame
    BY <1>5, <1>6, OneTame DEF Tame
  <1>8. /\ open' \in {open, open \cup {t}} /\ lost' \in {lost, lost \ {t}}
        /\ limited' \in {limited, limited \ {t}} /\ throttled' \in {throttled, throttled \ {t}}
    BY DEF Ensure, Quiet
  <1>9. ScreenTypes'
    BY <1>1, <1>8, ScreenMoves
  <1> QED
    BY <1>1, <1>7, <1>9, ClientStep DEF StoreTame

LEMMA RetryGuestStep ==
  ASSUME Inv, NEW t \in Tab, NEW f \in Frame, RetryGuest(t, f)
  PROVE  Inv' /\ FramesTame
  <1>1. /\ UNCHANGED <<screen, faults, server>> /\ Act /\ f \in Task /\ store' = Empty
        /\ frame' = [frame EXCEPT ![t][f] = Issue("retry")]
    BY DEF RetryGuest, ServerIdle
  <1>2. f # "rotate" /\ "retry" \in TaskName /\ "retry" \notin UserCall
    BY <1>1, TasksAreFrames DEF TaskName, UserCall
  <1>3. Issue("retry") \in FrameRecord /\ NewCall(f, Issue("retry"))
    BY <1>2, IssueFrame
  <1>4. OneFrame(t, f, Issue("retry"))
    BY <1>1 DEF Inv, FrameTypes, OneFrame, TabFrames
  <1>5. FrameTypes' /\ FramesTame
    BY <1>3, <1>4, OneTame DEF Tame
  <1>6. ScreenTypes'
    BY <1>1, ScreenMoves DEF screen
  <1> QED
    BY <1>1, <1>5, <1>6, ClientStep DEF StoreTame

LEMMA RetryRotationStep ==
  ASSUME Inv, NEW t \in Tab, NEW f \in Frame, RetryRotation(t, f)
  PROVE  Inv' /\ FramesTame
  <1> DEFINE r == New("retry", "none", "rotating")
             q == IF frame[t]["rotate"] # Idle THEN frame[t]["rotate"] ELSE Renewal(store.refresh)
  <1>1. UNCHANGED <<store, screen, faults, server>> /\ Act /\ f \in Task /\ store.refresh # 0
    BY DEF RetryRotation, ServerIdle
  <1>2. f # "rotate" /\ f # "reissue" /\ "rotate" \in Frame /\ store.refresh \in Nat
    BY <1>1, TasksAreFrames DEF Inv, StoreMeans, StoreRecord
  <1>3. TwoFrames(t, f, r, "rotate", q)
    BY <1>2 DEF RetryRotation, Renewal, Inv, FrameTypes, TwoFrames, TabFrames
  <1>4. "retry" \in TaskName /\ "none" \in Call /\ "rotating" \in Pc
    BY DEF TaskName, Call, Pc
  <1>5. /\ r \in FrameRecord /\ r.task = "retry" /\ r.call = "none" /\ r.pc = "rotating" /\ r.token = 0
        /\ r.kind = "none" /\ r.refresh = 0 /\ r.answer = "none" /\ r.got = 0
    BY <1>4, NewFrame
  <1>6. q \in FrameRecord /\ Tame("rotate", frame[t]["rotate"], q)
    BY <1>1, <1>2, FrameMeans, RenewalFrame DEF Tame
  <1> HIDE DEF q, r
  <1>7. Tame(f, frame[t][f], r)
    <2>1. Placed(f, r)
      BY <1>1, <1>2, <1>5 DEF Placed, UserCall
    <2> QED
      BY <1>5, <2>1 DEF Tame, NewCall
  <1>8. FrameTypes' /\ FramesTame
    BY <1>2, <1>3, <1>5, <1>6, <1>7, TwoTame
  <1>9. ScreenTypes'
    BY <1>1, ScreenMoves DEF screen
  <1> QED
    BY <1>1, <1>8, <1>9, ClientStep DEF StoreTame

LEMMA BootingFrames ==
  ASSUME NEW t \in Tab, NEW c \in BOOLEAN
  PROVE  /\ Booting(t, c) \in [Frame -> FrameRecord]
         /\ \A f \in Frame : NewCall(f, Booting(t, c)[f])
         /\ Booting(t, c)["rotate"] = Idle
  <1> DEFINE a == New("boot", "handoff", "sent")
             b == New("boot", "ensure", "ready")
  <1>1. /\ "boot" \in TaskName /\ "handoff" \in Call /\ "ensure" \in Call /\ "sent" \in Pc /\ "ready" \in Pc
        /\ "boot" \in Frame
    BY TasksAreFrames DEF TaskName, Call, Pc
  <1>2. /\ a \in FrameRecord /\ a.task = "boot" /\ a.call = "handoff" /\ a.pc = "sent" /\ a.token = 0
        /\ a.kind = "none" /\ a.refresh = 0 /\ a.answer = "none" /\ a.got = 0
    BY <1>1, NewFrame
  <1>3. /\ b \in FrameRecord /\ b.task = "boot" /\ b.call = "ensure" /\ b.pc = "ready" /\ b.token = 0
        /\ b.kind = "none" /\ b.refresh = 0 /\ b.answer = "none" /\ b.got = 0
    BY <1>1, NewFrame
  <1>4. \A f \in Frame : Booting(t, c)[f] = IF f # "boot" THEN Idle ELSE IF c /\ store.kind # "member" THEN a ELSE b
    BY DEF Booting
  <1>5. Booting(t, c) = [f \in Frame |-> Booting(t, c)[f]]
    BY DEF Booting
  <1> HIDE DEF a, b
  <1>6. NewCall("boot", a) /\ NewCall("boot", b)
    <2>1. Placed("boot", a) /\ Placed("boot", b)
      BY <1>2, <1>3 DEF Placed, UserCall
    <2> QED
      BY <1>2, <1>3, <2>1 DEF NewCall
  <1>7. \A f \in Frame : NewCall(f, Booting(t, c)[f]) /\ Booting(t, c)[f] \in FrameRecord
    BY <1>2, <1>3, <1>4, <1>6, IdleFrame
  <1>8. Booting(t, c)["rotate"] = Idle
    BY <1>4, TasksAreFrames
  <1> QED
    BY <1>5, <1>7, <1>8

LEMMA ReloadStep ==
  ASSUME Inv, NEW t \in Tab, Reload(t)
  PROVE  Inv' /\ FramesTame
  <1>1. /\ UNCHANGED <<store, faults, server>> /\ Act /\ open' = open \ {t} /\ lost' = lost \ {t}
        /\ limited' = limited \ {t} /\ throttled' = throttled \ {t}
    BY DEF Reload, ServerIdle
  <1>2. PICK c \in BOOLEAN : TabFrames(t, Booting(t, c))
    BY DEF Reload, TabFrames
  <1>3. /\ Booting(t, c) \in [Frame -> FrameRecord]
        /\ \A f \in Frame : NewCall(f, Booting(t, c)[f])
    BY BootingFrames
  <1>4. FrameTypes' /\ FramesTame
    BY <1>2, <1>3, TabTame DEF Tame
  <1>5. ScreenTypes'
    BY <1>1, ScreenMoves
  <1> QED
    BY <1>1, <1>4, <1>5, ClientStep DEF StoreTame

\* A session that arrives is stored.
LEMMA Arrival ==
  ASSUME Inv, NEW t \in Tab, NEW f \in Frame, UNCHANGED server,
         frame[t][f].pc = "back", frame[t][f].answer = "ok",
         frame[t][f].call \in {"login", "callback", "refresh", "issue", "handoff"},
         frame'[t][f].got = 0, NEW m,
         store' = [token |-> frame[t][f].got, kind |-> IF frame[t][f].call = "issue" THEN "guest" ELSE "member",
                   refresh |-> m],
         m = 0 \/ (m = frame[t][f].got /\ frame[t][f].call # "issue")
  PROVE  StoreTame
  <1>1. /\ frame[t][f].got # 0 /\ frame[t][f].got \in DOMAIN grants /\ frame[t][f].got \in Nat
        /\ grants[frame[t][f].got].kind = IF frame[t][f].call = "issue" THEN "guest" ELSE "member"
    BY FrameMeans DEF Told
  <1>2. grants' = grants
    BY DEF server
  <1>3. store'.token = frame[t][f].got /\ store'.kind = grants'[store'.token].kind /\ store'.refresh = m
        /\ store'.kind \in {"guest", "member"} /\ store' \in StoreRecord
    BY <1>1, <1>2 DEF StoreRecord, Kind
  <1>4. m # 0 => store'.kind = "member"
    BY <1>1, <1>2, <1>3
  <1>5. StoreMeans'
    BY <1>1, <1>2, <1>3, <1>4 DEF StoreMeans
  <1>6. Takes(t, f)
    BY <1>1, <1>3 DEF Takes
  <1> QED
    BY <1>5, <1>6 DEF StoreTame

LEMMA SucceedStep ==
  ASSUME Inv, NEW t \in Tab, NEW f \in Frame, Succeed(t, f)
  PROVE  Inv' /\ FramesTame
  <1> DEFINE r == frame[t][f]
  <1>1. UNCHANGED <<screen, acts, faults, server>> /\ r.pc = "back" /\ r.answer = "ok" /\ r.call \in UserCall
    BY DEF Succeed, ServerIdle
  <1>2. r \in FrameRecord /\ Placed(f, r) /\ f \in Task /\ r.task = r.call
    BY <1>1, FrameMeans DEF Placed
  <1>3. ScreenTypes'
    BY <1>1, ScreenStays DEF Inv, ScreenTypes
  <1>4. \/ r.call = "query" /\ frame' = [frame EXCEPT ![t][f] = Idle] /\ store' = store
        \/ /\ r.call \in {"login", "callback"} /\ store' = MemberStore(r.got)
           /\ frame' = [frame EXCEPT ![t][f] = Idle]
        \/ /\ r.call \in {"logout", "withdraw"} /\ store' = Empty
           /\ frame' = [frame EXCEPT ![t][f] = Issue(r.call)]
    BY DEF Succeed
  <1>5. PICK q \in {Idle, Issue(r.call)} : frame' = [frame EXCEPT ![t][f] = q]
    BY <1>4
  <1>6. r.call \in TaskName /\ f # "rotate"
    BY <1>1, <1>2, TasksAreFrames DEF TaskName
  <1>7. q \in FrameRecord /\ NewCall(f, q) /\ q.got = 0
    BY <1>2, <1>5, <1>6, IdleFrame, IssueFrame
  <1>8. OneFrame(t, f, q)
    BY <1>5 DEF Inv, FrameTypes, OneFrame, TabFrames
  <1>9. FrameTypes' /\ FramesTame /\ frame'[t][f] = q
    BY <1>7, <1>8, OneTame DEF Tame
  <1>10. StoreTame
    <2>1. CASE r.call \in {"login", "callback"} /\ store' = MemberStore(r.got)
      <3>1. /\ store' = [token |-> r.got, kind |-> IF r.call = "issue" THEN "guest" ELSE "member",
                         refresh |-> r.got]
            /\ r.call # "issue"
        BY <2>1 DEF MemberStore
      <3>2. frame'[t][f].got = 0
        BY <1>7, <1>9
      <3>3. UNCHANGED server
        BY <1>1
      <3> QED
        BY <1>1, <2>1, <3>1, <3>2, <3>3, Arrival
    <2>2. CASE store' \in {store, Empty}
      BY <2>2 DEF StoreTame
    <2> QED
      BY <1>4, <2>1, <2>2
  <1> QED
    BY <1>1, <1>3, <1>9, <1>10, ClientStep

LEMMA ReissueStep ==
  ASSUME Inv, NEW t \in Tab, NEW f \in Frame, Reissue(t, f)
  PROVE  Inv' /\ FramesTame
  <1> DEFINE r == frame[t][f]
             q == [r EXCEPT !.pc = "reissuing"]
  <1>1. UNCHANGED <<screen, acts, faults, server>> /\ r.pc = "back" /\ r.call \in UserCall
    BY DEF Reissue, ServerIdle
  <1>2. r \in FrameRecord /\ Placed(f, r) /\ f \in Task /\ f # "reissue" /\ "reissue" \in Frame
    BY <1>1, FrameMeans, TasksAreFrames DEF Placed
  <1>3. q \in FrameRecord /\ Waits(f, r, q)
    BY <1>2, WaitingFrame
  <1>4. ScreenTypes'
    BY <1>1, ScreenStays DEF Inv, ScreenTypes
  <1>5. \/ store' = Empty /\ TwoFrames(t, "reissue", Issue("reissue"), f, q)
        \/ store' = store /\ OneFrame(t, f, q)
    <2>1. \/ store' = Empty
             /\ frame' = [frame EXCEPT ![t]["reissue"] = Issue("reissue"), ![t][f].pc = "reissuing"]
          \/ store' = store /\ frame' = [frame EXCEPT ![t][f].pc = "reissuing"]
      BY DEF Reissue
    <2>2. CASE store' = Empty
               /\ frame' = [frame EXCEPT ![t]["reissue"] = Issue("reissue"), ![t][f].pc = "reissuing"]
      <3>1. TwoFrames(t, "reissue", Issue("reissue"), f, q)
        BY <1>2, <2>2 DEF Inv, FrameTypes, FrameRecord, TwoFrames, TabFrames
      <3> QED
        BY <2>2, <3>1
    <2>3. CASE store' = store /\ frame' = [frame EXCEPT ![t][f].pc = "reissuing"]
      <3>1. OneFrame(t, f, q)
        BY <1>2, <2>3 DEF Inv, FrameTypes, FrameRecord, OneFrame, TabFrames
      <3> QED
        BY <2>3, <3>1
    <2> QED
      BY <2>1, <2>2, <2>3
  <1>6. Tame(f, frame[t][f], q)
    BY <1>3 DEF Tame
  <1> HIDE DEF q
  <1>7. CASE store' = Empty /\ TwoFrames(t, "reissue", Issue("reissue"), f, q)
    <2>1. "reissue" \in TaskName /\ "reissue" \notin UserCall
      BY DEF TaskName, UserCall
    <2>2. Issue("reissue") \in FrameRecord /\ NewCall("reissue", Issue("reissue"))
      BY <1>2, <2>1, IssueFrame
    <2>3. FrameTypes' /\ FramesTame
      BY <1>2, <1>3, <1>6, <1>7, <2>2, TwoTame DEF Tame
    <2> QED
      BY <1>1, <1>4, <1>7, <2>3, ClientStep DEF StoreTame
  <1>8. CASE store' = store /\ OneFrame(t, f, q)
    <2>1. FrameTypes' /\ FramesTame
      BY <1>3, <1>6, <1>8, OneTame
    <2> QED
      BY <1>1, <1>4, <1>8, <2>1, ClientStep DEF StoreTame
  <1> QED
    BY <1>5, <1>7, <1>8

LEMMA RotateStep ==
  ASSUME Inv, NEW t \in Tab, NEW f \in Frame, Rotate(t, f)
  PROVE  Inv' /\ FramesTame
  <1> DEFINE r == frame[t][f]
             q == [r EXCEPT !.pc = "rotating"]
             n == IF frame[t]["rotate"] # Idle THEN frame[t]["rotate"] ELSE Renewal(r.refresh)
  <1>1. UNCHANGED <<store, screen, acts, faults, server>> /\ r.pc = "back" /\ r.call \in UserCall /\ r.refresh # 0
    BY DEF Rotate, ServerIdle, Rotatable
  <1>2. /\ r \in FrameRecord /\ Placed(f, r) /\ f \in Task /\ f # "rotate" /\ "rotate" \in Frame
        /\ r.refresh \in Nat
    BY <1>1, FrameMeans, TasksAreFrames DEF Placed
  <1>3. ScreenTypes'
    BY <1>1, ScreenStays DEF Inv, ScreenTypes
  <1>4. \/ OneFrame(t, f, Again(r))
        \/ store.refresh = r.refresh /\ TwoFrames(t, f, q, "rotate", n)
    <2>1. CASE frame' = [frame EXCEPT ![t][f] = Again(r)]
      BY <2>1 DEF Inv, FrameTypes, OneFrame, TabFrames
    <2>2. CASE ~StoredElse(r) /\
               frame' = [frame EXCEPT ![t][f].pc = "rotating",
                          ![t]["rotate"] = IF @ # Idle THEN @
                            ELSE [New("rotate", "refresh", "sent") EXCEPT !.refresh = r.refresh]]
      <3>1. TwoFrames(t, f, q, "rotate", n)
        BY <1>2, <2>2 DEF Renewal, Inv, FrameTypes, FrameRecord, TwoFrames, TabFrames
      <3> QED
        BY <2>2, <3>1 DEF StoredElse
    <2> QED
      BY <2>1, <2>2 DEF Rotate
  <1>5. CASE OneFrame(t, f, Again(r))
    <2>1. Again(r) \in FrameRecord /\ Tame(f, r, Again(r))
      BY <1>2, AgainFrame
    <2>2. FrameTypes' /\ FramesTame
      BY <1>2, <1>5, <2>1, OneTame
    <2> QED
      BY <1>1, <1>3, <2>2, ClientStep DEF StoreTame
  <1>6. CASE store.refresh = r.refresh /\ TwoFrames(t, f, q, "rotate", n)
    <2>1. q \in FrameRecord /\ Waits(f, r, q)
      BY <1>2, WaitingFrame
    <2>2. n \in FrameRecord /\ Tame("rotate", frame[t]["rotate"], n)
      BY <1>1, <1>2, <1>6, FrameMeans, RenewalFrame DEF Tame
    <2> HIDE DEF q, n
    <2>3. Tame(f, frame[t][f], q)
      BY <2>1 DEF Tame
    <2>4. FrameTypes' /\ FramesTame
      BY <1>2, <1>6, <2>1, <2>2, <2>3, TwoTame
    <2> QED
      BY <1>1, <1>3, <2>4, ClientStep DEF StoreTame
  <1> QED
    BY <1>4, <1>5, <1>6

\* The calls of a tab after a failure, and the recovery that it may wake.
LEMMA RecoveringFrames ==
  ASSUME Inv, NEW t \in Tab, NEW fs \in [Frame -> FrameRecord],
         \A f \in Frame : Tame(f, frame[t][f], fs[f])
  PROVE  /\ Recovering(t, fs) \in [Frame -> FrameRecord]
         /\ \A f \in Frame : Tame(f, frame[t][f], Recovering(t, fs)[f])
         /\ \A f \in Frame : f # "recover" => Recovering(t, fs)[f] = fs[f]
  <1> DEFINE q == New("recover", "ensure", "ready")
  <1>1. /\ "recover" \in TaskName /\ "ensure" \in Call /\ "ready" \in Pc /\ "recover" \in Frame
    BY TasksAreFrames DEF TaskName, Call, Pc
  <1>2. /\ q \in FrameRecord /\ q.task = "recover" /\ q.call = "ensure" /\ q.pc = "ready" /\ q.token = 0
        /\ q.kind = "none" /\ q.refresh = 0 /\ q.answer = "none" /\ q.got = 0
    BY <1>1, NewFrame
  <1>3. Recovering(t, fs) = fs \/ Recovering(t, fs) = [fs EXCEPT !["recover"] = q]
    BY DEF Recovering
  <1> HIDE DEF q
  <1>4. NewCall("recover", q)
    <2>1. Placed("recover", q)
      BY <1>2 DEF Placed, UserCall
    <2> QED
      BY <1>2, <2>1 DEF NewCall
  <1>5. CASE Recovering(t, fs) = fs
    BY <1>5
  <1>6. CASE Recovering(t, fs) = [fs EXCEPT !["recover"] = q]
    BY <1>1, <1>2, <1>4, <1>6 DEF Tame
  <1> QED
    BY <1>3, <1>5, <1>6

LEMMA DropStep ==
  ASSUME Inv, NEW t \in Tab, NEW f \in Frame, Drop(t, f)
  PROVE  Inv' /\ FramesTame
  <1> DEFINE r == frame[t][f]
             fs == [frame[t] EXCEPT ![f] = Failed(r)]
  <1>1. /\ UNCHANGED <<open, limited, throttled, acts, faults, server>> /\ r.call \in UserCall
        /\ store' = Empty /\ lost' = lost \cup {t}
        /\ TabFrames(t, Recovering(t, fs))
    BY DEF Drop, ServerIdle, TabFrames
  <1>2. /\ frame[t] \in [Frame -> FrameRecord] /\ r \in FrameRecord /\ Placed(f, r) /\ f \in Task
    BY <1>1, FrameMeans DEF Placed
  <1>3. Failed(r) \in FrameRecord /\ Tame(f, r, Failed(r))
    BY <1>2, FailedFrame
  <1>4. fs \in [Frame -> FrameRecord] /\ \A g \in Frame : Tame(g, frame[t][g], fs[g])
    BY <1>2, <1>3 DEF Tame
  <1> HIDE DEF fs
  <1>5. /\ Recovering(t, fs) \in [Frame -> FrameRecord]
        /\ \A g \in Frame : Tame(g, frame[t][g], Recovering(t, fs)[g])
    BY <1>4, RecoveringFrames
  <1>6. FrameTypes' /\ FramesTame
    BY <1>1, <1>5, TabTame
  <1>7. ScreenTypes'
    BY <1>1, ScreenMoves
  <1> QED
    BY <1>1, <1>6, <1>7, ClientStep DEF StoreTame

LEMMA FailStep ==
  ASSUME Inv, NEW t \in Tab, NEW f \in Frame, Fail(t, f)
  PROVE  Inv' /\ FramesTame
  <1> DEFINE r == frame[t][f]
  <1>1. /\ UNCHANGED <<open, lost, limited, throttled, acts, faults, server>> /\ r.call \in UserCall
        /\ store' \in {Empty, store}
        /\ frame' = [frame EXCEPT ![t][f] = Failed(r)]
    BY DEF Fail, ServerIdle, Cleared
  <1>2. r \in FrameRecord /\ Placed(f, r) /\ f \in Task
    BY <1>1, FrameMeans DEF Placed
  <1>3. Failed(r) \in FrameRecord /\ Tame(f, r, Failed(r))
    BY <1>2, FailedFrame
  <1>4. OneFrame(t, f, Failed(r))
    BY <1>1 DEF Inv, FrameTypes, OneFrame, TabFrames
  <1>5. FrameTypes' /\ FramesTame
    BY <1>2, <1>3, <1>4, OneTame
  <1>6. ScreenTypes'
    BY <1>1, ScreenMoves
  <1> QED
    BY <1>1, <1>5, <1>6, ClientStep DEF StoreTame

\* The calls that wait are woken, or given up.
LEMMA WokenFrames ==
  ASSUME Inv, NEW t \in Tab, NEW pc \in {"rotating", "reissuing"}, NEW g \in {"rotate", "reissue"},
         NEW fs \in {Resumed(t, pc), GivenUp(t, pc)}
  PROVE  LET qs == [fs EXCEPT ![g] = Idle]
         IN /\ qs \in [Frame -> FrameRecord]
            /\ \A f \in Frame : Tame(f, frame[t][f], qs[f])
            /\ qs[g] = Idle
            /\ \A f \in Frame : f # g /\ qs[f] # frame[t][f] => qs[f].pc # "back"
  <1> DEFINE qs == [fs EXCEPT ![g] = Idle]
  <1>1. ASSUME NEW f \in Frame
        PROVE  fs[f] \in FrameRecord /\ Tame(f, frame[t][f], fs[f]) /\ (fs[f] # frame[t][f] => fs[f].pc # "back")
    <2> DEFINE r == frame[t][f]
    <2>1. r \in FrameRecord /\ Placed(f, r)
      BY FrameMeans
    <2>2. fs[f] = r \/ (r.pc = pc /\ fs[f] \in {Again(r), Failed(r)})
      BY DEF Resumed, GivenUp
    <2>3. CASE fs[f] = r
      BY <2>1, <2>3 DEF Tame
    <2>4. CASE r.pc = pc /\ fs[f] \in {Again(r), Failed(r)}
      <3>1. f \in Task
        BY <2>1, <2>4 DEF Placed
      <3>2. /\ Again(r) \in FrameRecord /\ Tame(f, r, Again(r)) /\ Again(r).pc # "back"
            /\ Failed(r) \in FrameRecord /\ Tame(f, r, Failed(r)) /\ Failed(r).pc # "back"
        BY <2>1, <3>1, AgainFrame, FailedFrame
      <3> QED
        BY <2>4, <3>2
    <2> QED
      BY <2>2, <2>3, <2>4
  <1>2. fs = [f \in Frame |-> fs[f]]
    BY DEF Resumed, GivenUp
  <1>3. g \in Frame /\ Idle \in FrameRecord /\ NewCall(g, Idle)
    BY TasksAreFrames, IdleFrame
  <1>4. DOMAIN qs = Frame /\ qs[g] = Idle /\ \A f \in Frame : f # g => qs[f] = fs[f]
    BY <1>2, <1>3
  <1>5. qs = [f \in Frame |-> qs[f]]
    BY <1>2
  <1> HIDE DEF qs
  <1>6. \A f \in Frame : qs[f] \in FrameRecord
    BY <1>1, <1>3, <1>4
  <1>7. \A f \in Frame : Tame(f, frame[t][f], qs[f])
    BY <1>1, <1>3, <1>4 DEF Tame
  <1>8. qs \in [Frame -> FrameRecord]
    BY <1>5, <1>6
  <1> QED
    BY <1>1, <1>4, <1>7, <1>8 DEF qs

LEMMA RotatedStep ==
  ASSUME Inv, NEW t \in Tab, Rotated(t)
  PROVE  Inv' /\ FramesTame
  <1> DEFINE r == frame[t]["rotate"]
             fs == Resumed(t, "rotating")
             qs == [fs EXCEPT !["rotate"] = Idle]
  <1>1. /\ UNCHANGED <<open, acts, faults, server>> /\ r.pc = "back" /\ r.answer = "ok"
        /\ store' = MemberStore(r.got)
        /\ TabFrames(t, qs)
        /\ lost' \in {lost, lost \ {t}} /\ limited' \in {limited, limited \ {t}}
        /\ throttled' = throttled \ {t}
    BY DEF Rotated, ServerIdle, TabFrames
  <1>2. "rotate" \in Frame
    BY TasksAreFrames
  <1>3. r.call = "refresh"
    BY <1>1, <1>2, RotationIsRenewal
  <1> HIDE DEF fs
  <1>4. fs \in {Resumed(t, "rotating"), GivenUp(t, "rotating")}
    BY DEF fs
  <1>5. /\ qs \in [Frame -> FrameRecord] /\ qs["rotate"] = Idle
        /\ \A f \in Frame : Tame(f, frame[t][f], qs[f])
    BY <1>4, WokenFrames
  <1> HIDE DEF qs
  <1>6. FrameTypes' /\ FramesTame /\ frame'[t] = qs
    BY <1>1, <1>5, TabTame
  <1>7. ScreenTypes'
    BY <1>1, ScreenMoves
  <1>8. frame'[t]["rotate"].got = 0
    BY <1>2, <1>5, <1>6, IdleFrame
  <1>9. StoreTame
    <2>1. store' = [token |-> r.got, kind |-> IF r.call = "issue" THEN "guest" ELSE "member",
                    refresh |-> r.got]
      BY <1>1, <1>3 DEF MemberStore
    <2>2. UNCHANGED server /\ r.call # "issue" /\ r.call \in {"login", "callback", "refresh", "issue", "handoff"}
      BY <1>1, <1>3
    <2> QED
      BY <1>1, <1>2, <1>8, <2>1, <2>2, Arrival
  <1> QED
    BY <1>1, <1>6, <1>7, <1>9, ClientStep

LEMMA NotRotatedStep ==
  ASSUME Inv, NEW t \in Tab, NotRotated(t)
  PROVE  Inv' /\ FramesTame
  <1> DEFINE fs == GivenUp(t, "rotating")
             qs == [fs EXCEPT !["rotate"] = Idle]
  <1>1. /\ UNCHANGED <<open, limited, acts, faults, server>>
        /\ store' \in {Empty, store}
        /\ TabFrames(t, Recovering(t, qs)) \/ TabFrames(t, qs)
        /\ lost' \in {lost, lost \cup {t}} /\ throttled' \in {throttled, throttled \cup {t}}
    BY DEF NotRotated, ServerIdle, TabFrames, Cleared
  <1> HIDE DEF fs
  <1>2. fs \in {Resumed(t, "rotating"), GivenUp(t, "rotating")}
    BY DEF fs
  <1>3. /\ qs \in [Frame -> FrameRecord]
        /\ \A f \in Frame : Tame(f, frame[t][f], qs[f])
    BY <1>2, WokenFrames
  <1> HIDE DEF qs
  <1>4. /\ Recovering(t, qs) \in [Frame -> FrameRecord]
        /\ \A f \in Frame : Tame(f, frame[t][f], Recovering(t, qs)[f])
    BY <1>3, RecoveringFrames
  <1>5. FrameTypes' /\ FramesTame
    BY <1>1, <1>3, <1>4, TabTame
  <1>6. ScreenTypes'
    BY <1>1, ScreenMoves
  <1> QED
    BY <1>1, <1>5, <1>6, ClientStep DEF StoreTame

LEMMA ReissuedStep ==
  ASSUME Inv, NEW t \in Tab, Reissued(t)
  PROVE  Inv' /\ FramesTame
  <1> DEFINE r == frame[t]["reissue"]
             fs == Resumed(t, "reissuing")
             qs == [fs EXCEPT !["reissue"] = Idle]
  <1>1. /\ UNCHANGED <<screen, acts, faults, server>> /\ r.pc = "back" /\ r.answer = "ok"
        /\ store' = GuestStore(r.got)
        /\ TabFrames(t, qs)
    BY DEF Reissued, ServerIdle, TabFrames, GuestSession
  <1>2. "reissue" \in Frame
    BY TasksAreFrames
  <1>3. r.call = "issue"
    <2>1. Placed("reissue", r)
      BY <1>2, FrameMeans
    <2> QED
      BY <1>1, <2>1 DEF Placed, Idle, New
  <1> HIDE DEF fs
  <1>4. fs \in {Resumed(t, "reissuing"), GivenUp(t, "reissuing")}
    BY DEF fs
  <1>5. /\ qs \in [Frame -> FrameRecord] /\ qs["reissue"] = Idle
        /\ \A f \in Frame : Tame(f, frame[t][f], qs[f])
    BY <1>4, WokenFrames
  <1> HIDE DEF qs
  <1>6. FrameTypes' /\ FramesTame /\ frame'[t] = qs
    BY <1>1, <1>5, TabTame
  <1>7. ScreenTypes'
    BY <1>1, ScreenStays DEF Inv, ScreenTypes
  <1>8. frame'[t]["reissue"].got = 0
    BY <1>2, <1>5, <1>6, IdleFrame
  <1>9. StoreTame
    <2>1. store' = [token |-> r.got, kind |-> IF r.call = "issue" THEN "guest" ELSE "member",
                    refresh |-> 0]
      BY <1>1, <1>3 DEF GuestStore
    <2>2. UNCHANGED server /\ r.call \in {"login", "callback", "refresh", "issue", "handoff"}
      BY <1>1, <1>3
    <2> QED
      BY <1>1, <1>2, <1>8, <2>1, <2>2, Arrival
  <1> QED
    BY <1>1, <1>6, <1>7, <1>9, ClientStep

LEMMA NotReissuedStep ==
  ASSUME Inv, NEW t \in Tab, NotReissued(t)
  PROVE  Inv' /\ FramesTame
  <1> DEFINE fs == GivenUp(t, "reissuing")
             qs == [fs EXCEPT !["reissue"] = Idle]
  <1>1. /\ UNCHANGED <<open, lost, throttled, acts, faults, server>>
        /\ store' \in {Empty, store}
        /\ TabFrames(t, qs)
        /\ limited' \in {limited, limited \cup {t}}
    BY DEF NotReissued, ServerIdle, TabFrames, Cleared
  <1> HIDE DEF fs
  <1>2. fs \in {Resumed(t, "reissuing"), GivenUp(t, "reissuing")}
    BY DEF fs
  <1>3. /\ qs \in [Frame -> FrameRecord]
        /\ \A f \in Frame : Tame(f, frame[t][f], qs[f])
    BY <1>2, WokenFrames
  <1> HIDE DEF qs
  <1>4. FrameTypes' /\ FramesTame
    BY <1>1, <1>3, TabTame
  <1>5. ScreenTypes'
    BY <1>1, ScreenMoves
  <1> QED
    BY <1>1, <1>4, <1>5, ClientStep DEF StoreTame

\* One call ends, and the tab's notices may.
LEMMA EndsStep ==
  ASSUME Inv, NEW t \in Tab, NEW f \in Frame, frame' = [frame EXCEPT ![t][f] = Idle],
         StoreTame, UNCHANGED <<acts, faults, server>>,
         open' \in {open, open \cup {t}}, lost' \in {lost, lost \ {t}},
         limited' \in {limited, limited \cup {t}, limited \ {t}}, throttled' \in {throttled, throttled \ {t}}
  PROVE  Inv' /\ FramesTame
  <1>1. Idle \in FrameRecord /\ Tame(f, frame[t][f], Idle)
    BY IdleFrame DEF Tame
  <1>2. OneFrame(t, f, Idle)
    BY DEF Inv, FrameTypes, OneFrame, TabFrames
  <1>3. FrameTypes' /\ FramesTame
    BY <1>1, <1>2, OneTame
  <1>4. ScreenTypes'
    BY ScreenMoves
  <1> QED
    BY <1>3, <1>4, ClientStep

LEMMA IdleAfter ==
  ASSUME Inv, NEW t \in Tab, NEW f \in Frame, frame' = [frame EXCEPT ![t][f] = Idle]
  PROVE  frame'[t][f].got = 0
  BY IdleFrame DEF Inv, FrameTypes

LEMMA GuestArrivesStep ==
  ASSUME Inv, NEW t \in Tab, NEW f \in Frame, GuestArrives(t, f)
  PROVE  Inv' /\ FramesTame
  <1> DEFINE r == frame[t][f]
  <1>1. /\ UNCHANGED <<acts, faults, server>> /\ r.pc = "back" /\ r.call = "issue" /\ r.answer = "ok"
        /\ store' = GuestStore(r.got) /\ frame' = [frame EXCEPT ![t][f] = Idle]
        /\ open' \in {open, open \cup {t}}
    BY DEF GuestArrives, ServerIdle, Back, GuestSession
  <1>2. lost' \in {lost, lost \ {t}} /\ limited' \in {limited, limited \ {t}} /\ throttled' \in {throttled, throttled \ {t}}
    BY DEF GuestArrives, Quiet
  <1>3. StoreTame
    <2>1. store' = [token |-> r.got, kind |-> IF r.call = "issue" THEN "guest" ELSE "member",
                    refresh |-> 0]
      BY <1>1 DEF GuestStore
    <2>2. frame'[t][f].got = 0
      BY <1>1, IdleAfter
    <2>3. UNCHANGED server /\ r.call \in {"login", "callback", "refresh", "issue", "handoff"}
      BY <1>1
    <2> QED
      BY <1>1, <2>1, <2>2, <2>3, Arrival
  <1> QED
    BY <1>1, <1>2, <1>3, EndsStep

LEMMA NoGuestStep ==
  ASSUME Inv, NEW t \in Tab, NEW f \in Frame, NoGuest(t, f)
  PROVE  Inv' /\ FramesTame
  <1>1. /\ UNCHANGED <<acts, faults, server, store>> /\ frame' = [frame EXCEPT ![t][f] = Idle]
        /\ open' \in {open, open \cup {t}}
    BY DEF NoGuest, ServerIdle
  <1>2. /\ lost' \in {lost, lost \ {t}} /\ limited' \in {limited, limited \cup {t}, limited \ {t}}
        /\ throttled' \in {throttled, throttled \ {t}}
    BY DEF NoGuest, Quiet
  <1> QED
    BY <1>1, <1>2, EndsStep DEF StoreTame

LEMMA RedeemedStep ==
  ASSUME Inv, NEW t \in Tab, Redeemed(t)
  PROVE  Inv' /\ FramesTame
  <1> DEFINE r == frame[t]["boot"]
             q == New("boot", "ensure", "ready")
  <1>1. /\ UNCHANGED <<screen, acts, faults, server>> /\ r.pc = "back" /\ r.call = "handoff"
        /\ \/ r.answer = "ok" /\ store' = [MemberStore(r.got) EXCEPT !.refresh = 0]
           \/ store' = store
        /\ frame' = [frame EXCEPT ![t]["boot"] = q]
    BY DEF Redeemed, ServerIdle, Back
  <1>2. "boot" \in Frame /\ "boot" \notin Task /\ "boot" \in TaskName /\ "ensure" \in Call /\ "ready" \in Pc
    BY TasksAreFrames DEF TaskName, Call, Pc
  <1>3. /\ q \in FrameRecord /\ q.task = "boot" /\ q.call = "ensure" /\ q.pc = "ready" /\ q.token = 0
        /\ q.kind = "none" /\ q.refresh = 0 /\ q.answer = "none" /\ q.got = 0
    BY <1>2, NewFrame
  <1> HIDE DEF q
  <1>4. Placed("boot", q)
    BY <1>3 DEF Placed, UserCall
  <1>5. Tame("boot", frame[t]["boot"], q)
    BY <1>3, <1>4 DEF Tame, NewCall
  <1>6. OneFrame(t, "boot", q)
    BY <1>1, <1>2 DEF Inv, FrameTypes, OneFrame, TabFrames
  <1>7. FrameTypes' /\ FramesTame /\ frame'[t]["boot"] = q
    BY <1>2, <1>3, <1>5, <1>6, OneTame
  <1>8. ScreenTypes'
    BY <1>1, ScreenStays DEF Inv, ScreenTypes
  <1>9. StoreTame
    <2>1. CASE r.answer = "ok" /\ store' = [MemberStore(r.got) EXCEPT !.refresh = 0]
      <3>1. store' = [token |-> r.got, kind |-> "member", refresh |-> 0]
        BY <2>1 DEF MemberStore
      <3>2. store' = [token |-> r.got, kind |-> IF r.call = "issue" THEN "guest" ELSE "member", refresh |-> 0]
        BY <1>1, <3>1
      <3>3. UNCHANGED server /\ r.call \in {"login", "callback", "refresh", "issue", "handoff"}
        BY <1>1
      <3>4. frame'[t]["boot"].got = 0
        BY <1>3, <1>7
      <3> QED
        BY <1>1, <1>2, <2>1, <3>2, <3>3, <3>4, Arrival
    <2>2. CASE store' = store
      BY <2>2 DEF StoreTame
    <2> QED
      BY <1>1, <2>1, <2>2
  <1> QED
    BY <1>1, <1>7, <1>8, <1>9, ClientStep
-----------------------------------------------------------------------------
(***************************************************************************)
(* The invariant holds, and with it the types.                             *)
(***************************************************************************)
LEMMA InitInv ==
  ASSUME Init
  PROVE  Inv
  <1> DEFINE m == [kind |-> "member", ver |-> 0, refresh |-> store.refresh]
             g == [kind |-> "guest", ver |-> 0, refresh |-> 0]
  <1>1. /\ store.token \in {0, 1} /\ store.refresh \in {0, 1} /\ store.kind \in Kind /\ store \in StoreRecord
        /\ grants \in Seq(GrantRecord)
        /\ \/ store = Empty /\ grants = <<>>
           \/ store = MemberStore(1) /\ grants = <<[row |-> 1, kind |-> "member", ver |-> 0]>>
           \/ store = GuestStore(1) /\ grants = <<[row |-> 2, kind |-> "guest", ver |-> 0]>>
    <2> DEFINE a == [row |-> 1, kind |-> "member", ver |-> 0]
               b == [row |-> 2, kind |-> "guest", ver |-> 0]
    <2>1. \/ store = Empty /\ grants = <<>>
          \/ store = MemberStore(1) /\ grants = <<a>>
          \/ store = GuestStore(1) /\ grants = <<b>>
      BY DEF Init
    <2>2. store.token \in {0, 1} /\ store.refresh \in {0, 1} /\ store.kind \in Kind /\ store \in StoreRecord
      BY <2>1 DEF Empty, MemberStore, GuestStore, Kind, StoreRecord
    <2>3. a \in GrantRecord /\ b \in GrantRecord
      BY DEF GrantRecord
    <2> HIDE DEF a, b
    <2>4. <<>> \in Seq(GrantRecord) /\ <<a>> \in Seq(GrantRecord) /\ <<b>> \in Seq(GrantRecord)
      BY <2>3
    <2>5. grants \in Seq(GrantRecord)
      BY <2>1, <2>4
    <2> QED
      BY <2>1, <2>2, <2>5 DEF a, b
  <1>2. m \in RowRecord /\ g \in RowRecord
    BY <1>1 DEF RowRecord
  <1>3. rows = <<m, g>> /\ account = 1 /\ code = [row |-> 0, ver |-> 0]
    BY DEF Init
  <1>4. m.kind = "member" /\ m.ver = 0 /\ m.refresh = store.refresh /\ g.kind = "guest" /\ g.ver = 0 /\ g.refresh = 0
    OBVIOUS
  <1> HIDE DEF m, g
  <1>5. /\ rows \in Seq(RowRecord) /\ Len(rows) = 2 /\ DOMAIN rows = {1, 2} /\ rows[1] = m /\ rows[2] = g
    BY <1>2, <1>3
  <1>6. ApiTypes
    BY <1>1, <1>3, <1>5 DEF ApiTypes
  <1>7. ApiMeans /\ StoreMeans
    <2>1. CASE store = Empty /\ grants = <<>>
      BY <1>1, <1>3, <1>4, <1>5, <2>1 DEF ApiMeans, StoreMeans, Empty
    <2>2. CASE store = MemberStore(1) /\ grants = <<[row |-> 1, kind |-> "member", ver |-> 0]>>
      <3>1. /\ DOMAIN grants = {1} /\ grants[1].row = 1 /\ grants[1].kind = "member" /\ grants[1].ver = 0
            /\ store.token = 1 /\ store.kind = "member" /\ store.refresh = 1
        BY <2>2 DEF MemberStore
      <3> QED
        BY <1>1, <1>3, <1>4, <1>5, <3>1 DEF ApiMeans, StoreMeans
    <2>3. CASE store = GuestStore(1) /\ grants = <<[row |-> 2, kind |-> "guest", ver |-> 0]>>
      <3>1. /\ DOMAIN grants = {1} /\ grants[1].row = 2 /\ grants[1].kind = "guest" /\ grants[1].ver = 0
            /\ store.token = 1 /\ store.kind = "guest" /\ store.refresh = 0
        BY <2>3 DEF GuestStore
      <3> QED
        BY <1>1, <1>3, <1>4, <1>5, <3>1 DEF ApiMeans, StoreMeans
    <2> QED
      BY <1>1, <2>1, <2>2, <2>3
  <1>8. ScreenTypes
    BY SessionAssumption DEF Init, ScreenTypes
  <1>9. FrameTypes /\ \A t \in Tab, f \in Frame : NewCall(f, frame[t][f])
    BY BootingFrames DEF Init, FrameTypes
  <1>10. FramesMean
    <2> SUFFICES ASSUME NEW t \in Tab, NEW f \in Frame
                 PROVE  Placed(f, frame[t][f]) /\ SentWell(frame[t][f]) /\ Told(f, frame[t][f])
      BY DEF FramesMean
    <2>1. NewCall(f, frame[t][f])
      BY <1>9
    <2>2. store.refresh # 0 => store.refresh \in DOMAIN grants
      BY <1>7 DEF StoreMeans
    <2> QED
      BY <2>1, <2>2 DEF NewCall, SentWell, Told
  <1>11. Fresh
    BY <1>9 DEF Fresh, NewCall
  <1> QED
    BY <1>6, <1>7, <1>8, <1>9, <1>10, <1>11 DEF Inv

LEMMA StutterInv ==
  ASSUME Inv, UNCHANGED vars
  PROVE  Inv'
  <1>1. UNCHANGED <<rows, account, grants, expired, code, store, frame, screen, acts, faults>>
    BY DEF vars, server
  <1>2. ApiStep
    BY <1>1, NoRowStep DEF Inv, ApiTypes
  <1>3. ScreenTypes'
    BY <1>1 DEF Inv, ScreenTypes, screen
  <1> QED
    BY <1>1, <1>2, <1>3, SilentStep

LEMMA ServeStep ==
  ASSUME Inv, NEW t \in Tab, NEW f \in Frame, Serve(t, f)
  PROVE  Inv'
  BY ServeQueryStep, ServeLoginStep, ServeCallbackStep, ServeLogoutStep, ServeWithdrawStep,
     ServeRefreshStep, ServeIssueStep, ServeHandoffStep DEF Serve

LEMMA ReceiveStep ==
  ASSUME Inv, NEW t \in Tab, NEW f \in Frame, Receive(t, f)
  PROVE  Inv'
  BY SucceedStep, ReissueStep, RotateStep, DropStep, FailStep, GuestArrivesStep, NoGuestStep DEF Receive

LEMMA StepInv ==
  ASSUME Inv, [Next]_vars
  PROVE  Inv'
  <1>1. CASE UNCHANGED vars
    BY <1>1, StutterInv
  <1>2. ASSUME NEW t \in Tab, NEW f \in Frame,
               \/ \E op \in Op : Begin(t, f, op)
               \/ RetryGuest(t, f) \/ RetryRotation(t, f)
               \/ Send(t, f) \/ Serve(t, f) \/ Receive(t, f)
               \/ Limit(t, f) \/ Lose(t, f)
        PROVE  Inv'
    BY <1>2, BeginStep, RetryGuestStep, RetryRotationStep, SendStep, ServeStep, ReceiveStep,
       LimitStep, LoseStep
  <1>3. ASSUME NEW t \in Tab, Boot(t) \/ Settle(t) \/ Reload(t)
        PROVE  Inv'
    BY <1>3, EnsureStep, RedeemedStep, RotatedStep, NotRotatedStep, ReissuedStep, NotReissuedStep,
       ReloadStep DEF Boot, Settle
  <1>4. CASE Expire \/ AgeRefresh \/ LoginElsewhere \/ LogoutElsewhere \/ SendLink
    BY <1>4, ExpireStep, AgeRefreshStep, LoginElsewhereStep, LogoutElsewhereStep, SendLinkStep
  <1> QED
    BY <1>1, <1>2, <1>3, <1>4 DEF Next

LEMMA InvHolds == Spec => []Inv
  <1>1. Init => Inv
    BY InitInv
  <1>2. Inv /\ [Next]_vars => Inv'
    BY StepInv
  <1> QED
    BY <1>1, <1>2, PTL DEF Spec

LEMMA InvIsTyped ==
  ASSUME Inv
  PROVE  TypeOK
  <1>1. \A t \in Tab, f \in Frame : FrameOK(frame[t][f])
    BY FrameMeans DEF FrameOK, FrameRecord, TaskName, Pc
  <1>2. store.token \in 0 .. Len(grants) /\ store.kind \in {"none", "guest", "member"}
        /\ (store.refresh # 0 => store.kind = "member")
    BY Indices DEF Inv, StoreMeans, StoreRecord, Kind
  <1>3. account \in 0 .. Len(rows) /\ code.row \in 0 .. Len(rows)
    BY DEF Inv, ApiTypes
  <1>4. ScreenTypes
    BY DEF Inv
  <1> QED
    BY <1>1, <1>2, <1>3, <1>4 DEF TypeOK, ScreenTypes

\* The stored session is none or a grant of the API, and a refresh token is stored for a
\* member only; calls, notices and bounds keep their types (client.ts:66-104, 182-208).
THEOREM TypesHold == Spec => []TypeOK
  <1>1. Inv => TypeOK
    BY InvIsTyped
  <1> QED
    BY <1>1, InvHolds, PTL
-----------------------------------------------------------------------------
(***************************************************************************)
(* A session that the API still renews is not given up.                    *)
(***************************************************************************)
\* The user asked for it, in some tab.
ByUser ==
  \E t \in Tab, f \in Task :
    /\ frame'[t][f] # frame[t][f]
    /\ frame[t][f].task \in {"logout", "withdraw"} \/ frame'[t][f].task = "retry"

\* A stored session is given up, and no other takes its place.
GivesUp == store.kind = "member" /\ store'.kind \notin {"member", "guest"}

LEMMA AliveIsNotDead ==
  ASSUME Inv, store.kind = "member", Alive(store)
  PROVE  /\ ~Dead(store.token)
         /\ store.refresh = 0 => store.token \notin expired
         /\ store.refresh # 0 => \E i \in DOMAIN rows : rows[i].refresh = store.refresh
  <1> DEFINE g == grants[store.token]
  <1>1. /\ store.token \in DOMAIN grants /\ g.row \in DOMAIN rows
        /\ rows[g.row].ver \in Nat /\ g.ver \in Nat
    BY Indices DEF Inv, StoreMeans, ApiMeans, Alive, GrantRecord, RowRecord
  <1>2. rows[g.row].kind = "member"
    BY DEF Alive
  <1>3. CASE store.refresh # 0 /\ rows[g.row].refresh = store.refresh
    <2>1. store.refresh = store.token
      BY <1>3 DEF Inv, StoreMeans
    <2>2. g.ver = rows[g.row].ver
      BY <1>1, <1>3, <2>1 DEF Inv, ApiMeans
    <2> QED
      BY <1>1, <1>2, <1>3, <2>2 DEF Dead
  <1>4. CASE store.refresh = 0 /\ store.token \notin expired /\ rows[g.row].ver = g.ver
    BY <1>1, <1>2, <1>4 DEF Dead
  <1> QED
    BY <1>3, <1>4 DEF Alive

\* A refusal of the stored session, told to a call, is none of a live member's.
LEMMA NotRefused ==
  ASSUME Inv, store.kind = "member", Alive(store), NEW t \in Tab, NEW f \in Frame,
         frame[t][f].pc = "back", frame[t][f].call \in UserCall, Hopeless(frame[t][f]), Current(frame[t][f])
  PROVE  FALSE
  <1> DEFINE r == frame[t][f]
  <1>1. r.token # 0 /\ r.token = store.token /\ r.call # "callback"
    BY DEF Hopeless, Current
  <1>2. r.kind = "member" /\ r.refresh = store.refresh
    BY <1>1, FrameMeans DEF SentWell
  <1>3. /\ r.answer = "unauthorized" => Dead(r.token)
        /\ r.answer = "expired" => r.token \in expired
    BY <1>1, <1>2, FrameMeans DEF Told
  <1> QED
    BY <1>1, <1>2, <1>3, AliveIsNotDead DEF Hopeless

LEMMA NotOfAGuest ==
  ASSUME Inv, store.kind = "member", NEW t \in Tab, NEW f \in Frame,
         frame[t][f].kind = "guest", Current(frame[t][f])
  PROVE  FALSE
  BY FrameMeans DEF SentWell, Current

\* A call of a logout that is given up goes on as the issue of a guest.
LEMMA LogoutGoesOn ==
  ASSUME Inv, NEW t \in Tab, NEW f \in Frame, frame[t][f].task = "logout", frame[t][f].pc # "sent",
         frame'[t][f] = Failed(frame[t][f])
  PROVE  ByUser
  <1>1. f \in Task
    BY FrameMeans DEF Placed, UserCall
  <1>2. Failed(frame[t][f]).pc = "sent"
    BY DEF Failed, Issue, New
  <1> QED
    BY <1>1, <1>2 DEF ByUser

LEMMA KindsStored ==
  ASSUME NEW n
  PROVE  MemberStore(n).kind = "member" /\ GuestStore(n).kind = "guest"
  BY DEF MemberStore, GuestStore

LEMMA ReceiveKeeps ==
  ASSUME Inv, Alive(store), GivesUp, NEW t \in Tab, NEW f \in Frame, Receive(t, f)
  PROVE  ByUser
  <1> DEFINE r == frame[t][f]
  <1>1. store.kind = "member" /\ store' # store
    BY DEF GivesUp
  <1>2. ASSUME Succeed(t, f) PROVE ByUser
    <2>1. r.pc = "back" /\ r.call \in {"logout", "withdraw"} /\ frame' = [frame EXCEPT ![t][f] = Issue(r.call)]
      BY <1>1, <1>2, KindsStored DEF Succeed, GivesUp
    <2>2. f \in Task /\ r.task = r.call
      BY <2>1, FrameMeans DEF Placed, UserCall
    <2>3. frame'[t][f].pc = "sent"
      BY <2>1 DEF Inv, FrameTypes, Issue, New
    <2> QED
      BY <2>1, <2>2, <2>3 DEF ByUser
  <1>3. ASSUME Reissue(t, f) PROVE ByUser
    <2>1. r.kind = "guest" /\ Current(r)
      BY <1>3 DEF Reissue, Renewable
    <2> QED
      BY <1>1, <2>1, NotOfAGuest
  <1>4. ASSUME Rotate(t, f) PROVE ByUser
    BY <1>1, <1>4 DEF Rotate
  <1>5. ASSUME Drop(t, f) PROVE ByUser
    <2>1. r.pc = "back" /\ r.call \in UserCall /\ Hopeless(r) /\ Current(r)
      BY <1>5 DEF Drop
    <2> QED
      BY <1>1, <2>1, NotRefused
  <1>6. ASSUME Fail(t, f) PROVE ByUser
    <2>1. \/ r.task = "logout"
          \/ r.kind = "guest" /\ Current(r)
      BY <1>1, <1>6 DEF Fail, Cleared
    <2>2. CASE r.task = "logout"
      <3>1. frame' = [frame EXCEPT ![t][f] = Failed(r)] /\ r.pc = "back"
        BY <1>6 DEF Fail
      <3>2. frame'[t][f] = Failed(r)
        BY <3>1 DEF Inv, FrameTypes
      <3> QED
        BY <2>2, <3>1, <3>2, LogoutGoesOn
    <2>3. CASE r.kind = "guest" /\ Current(r)
      BY <1>1, <2>3, NotOfAGuest
    <2> QED
      BY <2>1, <2>2, <2>3
  <1>7. ASSUME GuestArrives(t, f) PROVE ByUser
    BY <1>7, KindsStored DEF GuestArrives, GuestSession, GivesUp
  <1>8. ASSUME NoGuest(t, f) PROVE ByUser
    BY <1>1, <1>8 DEF NoGuest
  <1> QED
    BY <1>2, <1>3, <1>4, <1>5, <1>6, <1>7, <1>8 DEF Receive

\* A logout that waits for a renewal or a reissue is given up with it.
LEMMA WaitingLogout ==
  ASSUME Inv, NEW t \in Tab, NEW pc \in {"rotating", "reissuing"}, NEW g \in {"rotate", "reissue"},
         NEW w \in Waiting(t, pc), w.task = "logout",
         \/ TabFrames(t, [GivenUp(t, pc) EXCEPT ![g] = Idle])
         \/ TabFrames(t, Recovering(t, [GivenUp(t, pc) EXCEPT ![g] = Idle]))
  PROVE  ByUser
  <1> DEFINE qs == [GivenUp(t, pc) EXCEPT ![g] = Idle]
  <1>1. PICK f \in Frame : frame[t][f].pc = pc /\ frame[t][f].task = "logout"
    BY DEF Waiting
  <1>2. f \in Task /\ f # g /\ f # "recover"
    BY <1>1, FrameMeans, TasksAreFrames DEF Placed, UserCall
  <1>3. qs[f] = Failed(frame[t][f])
    BY <1>1, <1>2 DEF GivenUp
  <1>4. qs \in [Frame -> FrameRecord] /\ \A h \in Frame : Tame(h, frame[t][h], qs[h])
    <2> DEFINE fs == GivenUp(t, pc)
    <2>1. fs \in {Resumed(t, pc), GivenUp(t, pc)}
      OBVIOUS
    <2> HIDE DEF fs
    <2>2. /\ [fs EXCEPT ![g] = Idle] \in [Frame -> FrameRecord]
          /\ \A h \in Frame : Tame(h, frame[t][h], [fs EXCEPT ![g] = Idle][h])
      BY <2>1, WokenFrames
    <2> QED
      BY <2>2 DEF fs
  <1>5. TabFrames(t, qs) \/ TabFrames(t, Recovering(t, qs))
    OBVIOUS
  <1> HIDE DEF qs
  <1>6. Recovering(t, qs) \in [Frame -> FrameRecord] /\ Recovering(t, qs)[f] = qs[f]
    BY <1>2, <1>4, RecoveringFrames
  <1>7. frame'[t][f] = Failed(frame[t][f])
    BY <1>3, <1>4, <1>5, <1>6, TabChanged DEF Inv
  <1>8. frame[t][f].pc # "sent"
    BY <1>1
  <1> QED
    BY <1>1, <1>7, <1>8, LogoutGoesOn

LEMMA SettleKeeps ==
  ASSUME Inv, Alive(store), GivesUp, NEW t \in Tab, Settle(t)
  PROVE  ByUser
  <1> DEFINE r == frame[t]["rotate"]
  <1>1. store.kind = "member" /\ store' # store
    BY DEF GivesUp
  <1>2. ASSUME Rotated(t) PROVE ByUser
    BY <1>2, KindsStored DEF Rotated, GivesUp
  <1>3. ASSUME NotRotated(t) PROVE ByUser
    <2>1. ~(r.answer = "unauthorized" /\ store.refresh = r.refresh)
      <3> SUFFICES ASSUME r.answer = "unauthorized", store.refresh = r.refresh
                   PROVE  FALSE
        OBVIOUS
      <3>1. /\ \A i \in DOMAIN rows : rows[i].refresh # r.refresh
            /\ r.refresh # 0
        BY FrameMeans, TasksAreFrames DEF Told, Placed, Idle, New
      <3> QED
        BY <1>1, <3>1, AliveIsNotDead
    <2>2. \E w \in Waiting(t, "rotating") : w.task = "logout"
      BY <1>1, <1>3, <2>1 DEF NotRotated, Cleared
    <2>3. TabFrames(t, [GivenUp(t, "rotating") EXCEPT !["rotate"] = Idle])
      BY <1>3, <2>1 DEF NotRotated, TabFrames
    <2> QED
      BY <2>2, <2>3, WaitingLogout
  <1>4. ASSUME Reissued(t) PROVE ByUser
    BY <1>4, KindsStored DEF Reissued, GuestSession, GivesUp
  <1>5. ASSUME NotReissued(t) PROVE ByUser
    <2>1. \E w \in Waiting(t, "reissuing") : w.task = "logout"
      BY <1>1, <1>5 DEF NotReissued, Cleared
    <2>2. TabFrames(t, [GivenUp(t, "reissuing") EXCEPT !["reissue"] = Idle])
      BY <1>5 DEF NotReissued, TabFrames
    <2> QED
      BY <2>1, <2>2, WaitingLogout
  <1> QED
    BY <1>2, <1>3, <1>4, <1>5 DEF Settle

LEMMA StepKeeps ==
  ASSUME Inv, [Next]_vars, Alive(store), GivesUp
  PROVE  ByUser
  <1>1. store' # store
    BY DEF GivesUp
  <1>2. CASE UNCHANGED vars
    BY <1>1, <1>2 DEF vars
  <1>3. ASSUME NEW t \in Tab, NEW f \in Frame,
               \/ \E op \in Op : Begin(t, f, op)
               \/ RetryGuest(t, f) \/ RetryRotation(t, f)
               \/ Send(t, f) \/ Serve(t, f) \/ Receive(t, f)
               \/ Limit(t, f) \/ Lose(t, f)
        PROVE  ByUser
    <2>1. CASE \E op \in Op : Begin(t, f, op)
      BY <1>1, <2>1 DEF Begin
    <2>2. CASE RetryGuest(t, f)
      <3>1. f \in Task /\ frame[t][f] = Idle /\ frame' = [frame EXCEPT ![t][f] = Issue("retry")]
        BY <2>2 DEF RetryGuest
      <3>2. frame'[t][f] = Issue("retry")
        BY <3>1 DEF Inv, FrameTypes
      <3>3. Issue("retry").task = "retry" /\ Idle.task = "none"
        BY DEF Issue, Idle, New
      <3> QED
        BY <3>1, <3>2, <3>3 DEF ByUser
    <2>3. CASE RetryRotation(t, f)
      BY <1>1, <2>3 DEF RetryRotation
    <2>4. CASE Send(t, f)
      BY <1>1, <2>4 DEF Send
    <2>5. CASE Serve(t, f)
      BY <1>1, <2>5 DEF Serve, ServeQuery, ServeLogin, ServeCallback, ServeLogout, ServeWithdraw,
         ServeRefresh, ServeIssue, ServeHandoff, ClientIdle
    <2>6. CASE Receive(t, f)
      BY <2>6, ReceiveKeeps
    <2>7. CASE Limit(t, f)
      BY <1>1, <2>7 DEF Limit, ClientIdle
    <2>8. CASE Lose(t, f)
      BY <1>1, <2>8 DEF Lose, ClientIdle
    <2> QED
      BY <1>3, <2>1, <2>2, <2>3, <2>4, <2>5, <2>6, <2>7, <2>8
  <1>4. ASSUME NEW t \in Tab, Boot(t) \/ Settle(t) \/ Reload(t)
        PROVE  ByUser
    <2>1. CASE Redeemed(t)
      <3>1. store'.kind = "member"
        BY <1>1, <2>1 DEF Redeemed, MemberStore
      <3> QED
        BY <3>1 DEF GivesUp
    <2>2. CASE \E f \in Frame : Ensure(t, f)
      BY <1>1, <2>2 DEF Ensure
    <2>3. CASE Settle(t)
      BY <2>3, SettleKeeps
    <2>4. CASE Reload(t)
      BY <1>1, <2>4 DEF Reload
    <2> QED
      BY <1>4, <2>1, <2>2, <2>3, <2>4 DEF Boot
  <1>5. CASE Expire \/ AgeRefresh \/ LoginElsewhere \/ LogoutElsewhere \/ SendLink
    BY <1>1, <1>5 DEF Expire, AgeRefresh, LoginElsewhere, LogoutElsewhere, SendLink
  <1> QED
    BY <1>2, <1>3, <1>4, <1>5 DEF Next

\* In any number of tabs, a member whom the API still renews is not signed out by an
\* answer that comes late, a refusal of a session that was replaced, a lost renewal
\* or a link; a guest asked for before the login may still take the place of its session
\* (client.ts:434-482, 518-558).
THEOREM LiveMemberKeptHolds == Spec => LiveMemberKept
  <1>1. Inv /\ [Next]_vars
          => [ (store.kind = "member" /\ Alive(store) /\ store'.kind # "member")
               => \/ store'.kind = "guest"
                  \/ \E t \in Tab, f \in Task :
                       /\ frame'[t][f] # frame[t][f]
                       /\ frame[t][f].task \in {"logout", "withdraw"} \/ frame'[t][f].task = "retry" ]_vars
    BY StepKeeps DEF GivesUp, ByUser
  <1> QED
    BY <1>1, InvHolds, PTL DEF Spec, LiveMemberKept
-----------------------------------------------------------------------------
(***************************************************************************)
(* One tab: a renewal is refused only for a reason outside it.             *)
(***************************************************************************)
OneTab == \A s, t \in Tab : s = t

\* Good, after the step.
GoodNext(n) == n \in excused' \/ \E i \in DOMAIN rows' : rows'[i].refresh = n
GoodStays == \A n : Good(n) => GoodNext(n)

Gives(r) == r.pc = "back" /\ r.answer = "ok" /\ r.call \in {"login", "callback", "refresh"}

\* What the tab does keeps it: a renewal that is not the tab's any more has arrived or is
\* excused, what is stored has arrived, and no second renewal starts.
LEMMA RenewClientStep ==
  ASSUME OneTab, Inv, RenewInv, FramesTame, GoodStays, excused \subseteq excused',
         \A t \in Tab : frame'[t]["rotate"] # frame[t]["rotate"]
           => /\ \/ ~Renewed(frame[t]["rotate"])
                 \/ frame[t]["rotate"].refresh \in excused'
                 \/ store'.refresh = frame[t]["rotate"].got
              /\ frame'[t]["rotate"].pc = "sent" => frame[t]["rotate"] = Idle,
         \/ store'.refresh \in {0, store.refresh}
         \/ \E t \in Tab, f \in Frame : Gives(frame[t][f]) /\ store'.refresh = frame[t][f].got
  PROVE  RenewInv'
  <1>1. \A t \in Tab, f \in Frame : Gives(frame[t][f]) => Good(frame[t][f].got)
    BY DEF RenewInv, Gives
  <1>2. "rotate" \in Frame
    BY TasksAreFrames
  <1>3. ASSUME NEW t \in Tab, NEW f \in Frame
        PROVE  frame'[t][f].pc = "back" /\ frame'[t][f].answer = "ok"
                 /\ frame'[t][f].call \in {"login", "callback", "refresh"} => GoodNext(frame'[t][f].got)
    <2>1. Tame(f, frame[t][f], frame'[t][f])
      BY DEF FramesTame
    <2>2. frame'[t][f].pc = "back" => frame'[t][f] = frame[t][f]
      BY <2>1 DEF Tame, NewCall, Waits, Leaves
    <2> QED
      BY <1>1, <2>2 DEF Gives, GoodStays
  <1>4. ASSUME NEW t \in Tab
        PROVE  /\ frame'[t]["rotate"].pc = "sent" => GoodNext(frame'[t]["rotate"].refresh)
               /\ frame'[t]["rotate"].answer = "unauthorized" => frame'[t]["rotate"].refresh \in excused'
    <2> DEFINE r == frame[t]["rotate"]
               q == frame'[t]["rotate"]
    <2>1. q = r \/ NewCall("rotate", q)
      BY <1>2 DEF FramesTame, Tame, Waits, Leaves
    <2>2. /\ r.pc = "sent" => Good(r.refresh)
          /\ r.answer = "unauthorized" => r.refresh \in excused
      BY DEF RenewInv
    <2>3. CASE q = r
      BY <2>2, <2>3 DEF GoodStays
    <2>4. CASE q # r /\ NewCall("rotate", q)
      <3>1. q.answer = "none"
        BY <2>4 DEF NewCall
      <3>2. ASSUME q.pc = "sent"
            PROVE  GoodNext(q.refresh)
        <4>1. r = Idle /\ \A s \in Tab : frame[s]["rotate"] = Idle
          BY <2>4, <3>2 DEF OneTab
        <4>2. \A s \in Tab : ~Renewed(frame[s]["rotate"])
          BY <4>1, <1>2, IdleFrame DEF Renewed
        <4>3. q.refresh # 0 /\ q.refresh = store.refresh
          BY <2>4, <3>2 DEF NewCall, Placed, Idle, New
        <4>4. Good(store.refresh)
          BY <4>2, <4>3 DEF RenewInv
        <4> QED
          BY <4>3, <4>4 DEF GoodStays
      <3> QED
        BY <3>1, <3>2
    <2> QED
      BY <2>1, <2>3, <2>4
  <1>5. ASSUME store'.refresh # 0
        PROVE  \/ GoodNext(store'.refresh)
               \/ \E t \in Tab : Renewed(frame'[t]["rotate"]) /\ frame'[t]["rotate"].refresh = store'.refresh
    <2>1. CASE store'.refresh = store.refresh
      <3>1. CASE Good(store.refresh)
        BY <2>1, <3>1 DEF GoodStays
      <3>2. CASE \E t \in Tab : Renewed(frame[t]["rotate"]) /\ frame[t]["rotate"].refresh = store.refresh
        <4>1. PICK t \in Tab : Renewed(frame[t]["rotate"]) /\ frame[t]["rotate"].refresh = store.refresh
          BY <3>2
        <4>2. CASE frame'[t]["rotate"] = frame[t]["rotate"]
          BY <2>1, <4>1, <4>2
        <4>3. CASE frame[t]["rotate"].refresh \in excused'
          BY <2>1, <4>1, <4>3 DEF GoodNext
        <4>4. CASE store'.refresh = frame[t]["rotate"].got
          <5>1. frame[t]["rotate"].pc = "back" /\ frame[t]["rotate"].answer = "ok"
            BY <4>1 DEF Renewed
          <5>2. frame[t]["rotate"].call = "refresh"
            BY <1>2, <5>1, RotationIsRenewal
          <5>3. Good(frame[t]["rotate"].got)
            BY <1>1, <1>2, <5>1, <5>2 DEF Gives
          <5> QED
            BY <4>4, <5>3 DEF GoodStays
        <4> QED
          BY <4>1, <4>2, <4>3, <4>4
      <3> QED
        BY <1>5, <2>1, <3>1, <3>2 DEF RenewInv
    <2>2. ASSUME NEW t \in Tab, NEW f \in Frame, Gives(frame[t][f]), store'.refresh = frame[t][f].got
          PROVE  GoodNext(store'.refresh)
      BY <1>1, <2>2 DEF GoodStays
    <2> QED
      BY <1>5, <2>1, <2>2
  <1> QED
    BY <1>3, <1>4, <1>5 DEF RenewInv, Good, GoodNext, Renewed

\* Nothing is renewed or stored.
LEMMA RenewQuietStep ==
  ASSUME OneTab, Inv, RenewInv, FramesTame, GoodStays, excused \subseteq excused',
         \A t \in Tab : frame'[t]["rotate"] = frame[t]["rotate"],
         store'.refresh \in {0, store.refresh}
  PROVE  RenewInv'
  BY RenewClientStep

\* The reasons and the rows stay.
LEMMA GoodKept ==
  ASSUME UNCHANGED rows, excused \subseteq excused'
  PROVE  GoodStays
  BY DEF GoodStays, Good, GoodNext

\* A refresh token of one row is replaced, and excused.
LEMMA GoodReplaced ==
  ASSUME NEW i, DOMAIN rows' = DOMAIN rows,
         \A k \in DOMAIN rows : k # i => rows'[k].refresh = rows[k].refresh,
         excused' = excused \cup {rows[i].refresh}
  PROVE  GoodStays
  BY DEF GoodStays, Good, GoodNext

LEMMA ReplyFrame ==
  ASSUME FrameTypes, NEW t \in Tab, NEW f \in Frame, NEW a, NEW n, Reply(t, f, a, n)
  PROVE  /\ \A s \in Tab, g \in Frame : s # t \/ g # f => frame'[s][g] = frame[s][g]
         /\ frame'[t][f].pc = "back" /\ frame'[t][f].answer = a /\ frame'[t][f].got = n
         /\ frame'[t][f].call = frame[t][f].call /\ frame'[t][f].refresh = frame[t][f].refresh
  BY DEF FrameTypes, FrameRecord, Reply

\* A call hears of it.
LEMMA RenewHeardStep ==
  ASSUME Inv, RenewInv, NEW t \in Tab, NEW f \in Frame, NEW a, NEW n, Reply(t, f, a, n),
         GoodStays, UNCHANGED store, excused \subseteq excused',
         a = "ok" /\ frame[t][f].call \in {"login", "callback", "refresh"} => GoodNext(n),
         f = "rotate" => /\ a = "unauthorized" => frame[t][f].refresh \in excused'
                         /\ frame[t][f].pc = "sent" \/ frame[t][f].refresh \in excused'
  PROVE  RenewInv'
  <1>1. /\ \A s \in Tab, g \in Frame : s # t \/ g # f => frame'[s][g] = frame[s][g]
        /\ frame'[t][f].pc = "back" /\ frame'[t][f].answer = a /\ frame'[t][f].got = n
        /\ frame'[t][f].call = frame[t][f].call /\ frame'[t][f].refresh = frame[t][f].refresh
    BY ReplyFrame DEF Inv
  <1>2. "rotate" \in Frame
    BY TasksAreFrames
  <1>3. ASSUME NEW s \in Tab, NEW g \in Frame
        PROVE  frame'[s][g].pc = "back" /\ frame'[s][g].answer = "ok"
                 /\ frame'[s][g].call \in {"login", "callback", "refresh"} => GoodNext(frame'[s][g].got)
    <2>1. CASE s = t /\ g = f
      BY <1>1, <2>1
    <2>2. CASE s # t \/ g # f
      BY <1>1, <2>2 DEF RenewInv, GoodStays
    <2> QED
      BY <2>1, <2>2
  <1>4. ASSUME NEW s \in Tab
        PROVE  /\ frame'[s]["rotate"].pc = "sent" => GoodNext(frame'[s]["rotate"].refresh)
               /\ frame'[s]["rotate"].answer = "unauthorized" => frame'[s]["rotate"].refresh \in excused'
    <2>1. CASE s = t /\ f = "rotate"
      BY <1>1, <2>1
    <2>2. CASE s # t \/ f # "rotate"
      BY <1>1, <1>2, <2>2 DEF RenewInv, GoodStays
    <2> QED
      BY <2>1, <2>2
  <1>5. ASSUME store'.refresh # 0
        PROVE  \/ GoodNext(store'.refresh)
               \/ \E s \in Tab : Renewed(frame'[s]["rotate"]) /\ frame'[s]["rotate"].refresh = store'.refresh
    <2>1. CASE Good(store.refresh)
      BY <2>1 DEF GoodStays
    <2>2. ASSUME NEW s \in Tab, Renewed(frame[s]["rotate"]), frame[s]["rotate"].refresh = store.refresh
          PROVE  \/ GoodNext(store'.refresh)
                 \/ \E u \in Tab : Renewed(frame'[u]["rotate"]) /\ frame'[u]["rotate"].refresh = store'.refresh
      <3>1. CASE s = t /\ f = "rotate"
        <4>1. frame[t][f].pc # "sent"
          BY <2>2, <3>1 DEF Renewed
        <4> QED
          BY <2>2, <3>1, <4>1 DEF GoodNext
      <3>2. CASE s # t \/ f # "rotate"
        BY <1>1, <1>2, <2>2, <3>2
      <3> QED
        BY <3>1, <3>2
    <2> QED
      BY <1>5, <2>1, <2>2 DEF RenewInv
  <1> QED
    BY <1>3, <1>4, <1>5 DEF RenewInv, Good, GoodNext, Renewed

LEMMA RenewSilentStep ==
  ASSUME RenewInv, GoodStays, UNCHANGED <<store, frame>>, excused \subseteq excused'
  PROVE  RenewInv'
  BY DEF RenewInv, GoodStays, Good, GoodNext, Renewed

LEMMA RenewServe ==
  ASSUME OneTab, Inv, RenewInv, NEW t \in Tab, NEW f \in Frame, Serve(t, f)
  PROVE  RenewInv'
  <1>1. UNCHANGED store /\ frame[t][f].pc = "sent"
    BY DEF Serve, ServeQuery, ServeLogin, ServeCallback, ServeLogout, ServeWithdraw, ServeRefresh,
       ServeIssue, ServeHandoff, ClientIdle, Sent
  <1>2. f = "rotate" <=> frame[t][f].call = "refresh"
    BY <1>1, RotationIsRenewal
  <1>3. CASE ServeQuery(t, f)
    <2>1. /\ UNCHANGED <<rows, excused>> /\ frame[t][f].call \in {"query", "login", "logout", "withdraw"}
      BY <1>3 DEF ServeQuery, server
    <2>2. PICK a : Reply(t, f, a, 0) /\ (a = "ok" => frame[t][f].call # "login")
      <3> DEFINE v == Check(frame[t][f].token)
      <3>1. \/ frame[t][f].call = "query" /\ Reply(t, f, v, 0)
            \/ v # "ok" /\ Reply(t, f, v, 0)
            \/ Reply(t, f, "refused", 0)
            \/ frame[t][f].call = "logout" /\ Reply(t, f, "ok", 0)
        BY <1>3 DEF ServeQuery
      <3> HIDE DEF v
      <3>2. CASE frame[t][f].call = "query" /\ Reply(t, f, v, 0)
        BY <3>2
      <3>3. CASE v # "ok" /\ Reply(t, f, v, 0)
        BY <3>3
      <3>4. CASE Reply(t, f, "refused", 0)
        BY <3>4
      <3>5. CASE frame[t][f].call = "logout" /\ Reply(t, f, "ok", 0)
        BY <3>5
      <3> QED
        BY <3>1, <3>2, <3>3, <3>4, <3>5
    <2>3. GoodStays /\ excused \subseteq excused'
      BY <2>1, GoodKept
    <2>4. f # "rotate" /\ (a = "ok" => frame[t][f].call \notin {"login", "callback", "refresh"})
      BY <1>2, <2>1, <2>2
    <2> QED
      BY <1>1, <2>2, <2>3, <2>4, RenewHeardStep
  <1>4. CASE ServeLogin(t, f)
    <2>1. PICK guest, target \in DOMAIN rows :
            Merged(guest, target) /\ excused' = excused \cup {rows[target].refresh}
      BY <1>4, ServeLoginMerges
    <2>2. \A i \in DOMAIN rows : rows[i] \in RowRecord
      BY Indices DEF Inv
    <2>3. /\ DOMAIN rows' = DOMAIN rows /\ rows'[target].refresh = Granted
          /\ \A k \in DOMAIN rows : k # target => rows'[k].refresh = rows[k].refresh
      BY <2>1, <2>2 DEF Merged, RowRecord
    <2>4. GoodStays /\ excused \subseteq excused'
      BY <2>1, <2>3, GoodReplaced
    <2>5. GoodNext(Granted)
      BY <2>3 DEF GoodNext
    <2>6. Reply(t, f, "ok", Granted) /\ frame[t][f].call # "refresh"
      BY <1>4 DEF ServeLogin, Sent
    <2> QED
      BY <1>1, <1>2, <2>4, <2>5, <2>6, RenewHeardStep
  <1>5. CASE ServeCallback(t, f)
    <2>1. UNCHANGED <<rows, excused>> /\ Reply(t, f, "unauthorized", 0) /\ frame[t][f].call # "refresh"
      BY <1>5 DEF ServeCallback, server, Sent
    <2>2. GoodStays /\ excused \subseteq excused'
      BY <2>1, GoodKept
    <2> QED
      BY <1>1, <1>2, <2>1, <2>2, RenewHeardStep
  <1>6. CASE ServeLogout(t, f) \/ ServeWithdraw(t, f)
    <2> DEFINE i == grants[frame[t][f].token].row
    <2>1. /\ Check(frame[t][f].token) = "ok" /\ excused' = excused \cup {rows[i].refresh}
          /\ Reply(t, f, "ok", 0) /\ frame[t][f].call \in {"logout", "withdraw"}
          /\ \/ rows' = [rows EXCEPT ![i].ver = @ + 1, ![i].refresh = 0]
             \/ rows' = [rows EXCEPT ![i].kind = "gone", ![i].ver = @ + 1, ![i].refresh = 0]
      BY <1>6 DEF ServeLogout, ServeWithdraw, Sent
    <2> HIDE DEF i
    <2>2. DOMAIN rows' = DOMAIN rows /\ \A k \in DOMAIN rows : k # i => rows'[k].refresh = rows[k].refresh
      BY <2>1
    <2>3. GoodStays /\ excused \subseteq excused'
      BY <2>1, <2>2, GoodReplaced
    <2> QED
      BY <1>1, <1>2, <2>1, <2>3, RenewHeardStep
  <1>7. CASE ServeIssue(t, f)
    <2>1. /\ excused' = excused /\ Reply(t, f, "ok", Granted) /\ frame[t][f].call = "issue"
          /\ rows' = Append(rows, [kind |-> "guest", ver |-> 0, refresh |-> 0])
      BY <1>7 DEF ServeIssue, Sent
    <2>2. \A k \in DOMAIN rows : k \in DOMAIN rows' /\ rows'[k] = rows[k]
      <3> DEFINE r == [kind |-> "guest", ver |-> 0, refresh |-> 0]
      <3>1. r \in RowRecord
        BY DEF RowRecord
      <3>2. rows' = Append(rows, r)
        BY <2>1
      <3> HIDE DEF r
      <3> QED
        BY <3>1, <3>2, RowAdded DEF Inv, ApiTypes
    <2>3. GoodStays /\ excused \subseteq excused'
      BY <2>1, <2>2 DEF GoodStays, Good, GoodNext
    <2> QED
      BY <1>1, <1>2, <2>1, <2>3, RenewHeardStep
  <1>8. CASE ServeHandoff(t, f)
    <2>1. /\ UNCHANGED <<rows, excused>> /\ frame[t][f].call = "handoff"
          /\ Reply(t, f, "ok", Granted) \/ Reply(t, f, "unauthorized", 0)
      BY <1>8 DEF ServeHandoff, Sent
    <2>2. GoodStays /\ excused \subseteq excused'
      BY <2>1, GoodKept
    <2> QED
      BY <1>1, <1>2, <2>1, <2>2, RenewHeardStep
  <1>9. CASE ServeRefresh(t, f)
    <2> DEFINE r == frame[t]["rotate"]
    <2>1. f = "rotate" /\ excused' = excused /\ r.pc = "sent" /\ r.refresh # 0 /\ "rotate" \in Frame
      BY <1>1, <1>2, <1>9, RotationIsRenewal, TasksAreFrames DEF ServeRefresh, Sent
    <2>2. CASE Holder(r.refresh) = {} /\ Reply(t, f, "unauthorized", 0) /\ UNCHANGED <<rows, grants>>
      <3>1. Good(r.refresh)
        BY <2>1 DEF RenewInv
      <3>2. r.refresh \in excused
        BY <2>1, <2>2, <3>1 DEF Holder, Good, Inv, ApiMeans
      <3>3. GoodStays /\ excused \subseteq excused'
        BY <2>1, <2>2, GoodKept
      <3> QED
        BY <1>1, <2>1, <2>2, <3>2, <3>3, RenewHeardStep
    \* The token is spent, and the one tab's rotation knows of it.
    <2>3. ASSUME NEW i \in Holder(r.refresh), rows' = [rows EXCEPT ![i].refresh = Granted],
                 Reply(t, f, "ok", Granted)
          PROVE  RenewInv'
      <3>1. /\ \A s \in Tab, g \in Frame : g # "rotate" => frame'[s][g] = frame[s][g]
            /\ frame'[t]["rotate"].pc = "back" /\ frame'[t]["rotate"].answer = "ok"
            /\ frame'[t]["rotate"].got = Granted /\ frame'[t]["rotate"].refresh = r.refresh
            /\ \A s \in Tab : s = t
        BY <2>1, <2>3, ReplyFrame DEF OneTab, Inv
      <3>2. i \in DOMAIN rows /\ rows[i].refresh = r.refresh /\ rows[i] \in RowRecord
        BY Indices DEF Holder, Inv
      <3>3. /\ DOMAIN rows' = DOMAIN rows /\ rows'[i].refresh = Granted
            /\ \A k \in DOMAIN rows : k # i => rows'[k] = rows[k]
        BY <2>3, <3>2 DEF RowRecord
      <3>4. \A n : n # r.refresh /\ Good(n) => GoodNext(n)
        BY <2>1, <3>2, <3>3 DEF Good, GoodNext
      <3>5. GoodNext(Granted)
        BY <3>2, <3>3 DEF GoodNext
      <3>6. ASSUME NEW s \in Tab, NEW g \in Frame
            PROVE  frame'[s][g].pc = "back" /\ frame'[s][g].answer = "ok"
                     /\ frame'[s][g].call \in {"login", "callback", "refresh"} => GoodNext(frame'[s][g].got)
        <4>1. CASE g = "rotate"
          BY <3>1, <3>5, <4>1
        <4>2. CASE g # "rotate"
          <5> SUFFICES ASSUME frame[s][g].pc = "back", frame[s][g].answer = "ok",
                              frame[s][g].call \in {"login", "callback", "refresh"}
                       PROVE  GoodNext(frame[s][g].got)
            BY <3>1, <4>2
          <5>1. frame[s][g].got # 0
            BY FrameMeans DEF Told
          <5>2. Apart(s, g)
            BY <5>1 DEF Inv, Fresh
          <5>3. frame[s][g].got # r.refresh
            BY <2>1, <5>2 DEF Apart
          <5> QED
            BY <3>4, <5>3 DEF RenewInv
        <4> QED
          BY <4>1, <4>2
      <3>7. ASSUME NEW s \in Tab
            PROVE  frame'[s]["rotate"].pc # "sent" /\ frame'[s]["rotate"].answer # "unauthorized"
        BY <3>1
      <3>8. ASSUME store'.refresh # 0
            PROVE  \/ GoodNext(store'.refresh)
                   \/ \E s \in Tab : Renewed(frame'[s]["rotate"]) /\ frame'[s]["rotate"].refresh = store'.refresh
        <4>1. CASE store.refresh = r.refresh
          BY <1>1, <3>1, <4>1 DEF Renewed
        <4>2. CASE store.refresh # r.refresh
          <5>1. \A s \in Tab : ~Renewed(frame[s]["rotate"])
            BY <2>1, <3>1 DEF Renewed
          <5> QED
            BY <1>1, <3>4, <3>8, <4>2, <5>1 DEF RenewInv
        <4> QED
          BY <4>1, <4>2
      <3> QED
        BY <3>6, <3>7, <3>8 DEF RenewInv, Good, GoodNext, Renewed
    <2> QED
      BY <1>9, <2>1, <2>2, <2>3 DEF ServeRefresh
  <1> QED
    BY <1>3, <1>4, <1>5, <1>6, <1>7, <1>8, <1>9 DEF Serve

LEMMA RenewFault ==
  ASSUME Inv, RenewInv, NEW t \in Tab, NEW f \in Frame, Limit(t, f) \/ Lose(t, f)
  PROVE  RenewInv'
  <1>1. CASE Limit(t, f)
    <2>1. /\ UNCHANGED <<rows, excused, store>> /\ Reply(t, f, "limited", 0) /\ frame[t][f].pc = "sent"
      BY <1>1 DEF Limit, server, ClientIdle
    <2>2. GoodStays /\ excused \subseteq excused'
      BY <2>1, GoodKept
    <2> QED
      BY <2>1, <2>2, RenewHeardStep
  <1>2. CASE Lose(t, f)
    <2>1. /\ UNCHANGED <<rows, store>> /\ Reply(t, f, "network", 0) /\ excused \subseteq excused'
          /\ f = "rotate" => frame[t][f].refresh \in excused'
      BY <1>2 DEF Lose, server, ClientIdle
    <2>2. GoodStays
      BY <2>1, GoodKept
    <2> QED
      BY <2>1, <2>2, RenewHeardStep
  <1> QED
    BY <1>1, <1>2

LEMMA RenewElsewhere ==
  ASSUME Inv, RenewInv, Expire \/ AgeRefresh \/ LoginElsewhere \/ LogoutElsewhere \/ SendLink
  PROVE  RenewInv'
  <1>1. UNCHANGED <<store, frame>>
    BY DEF Expire, AgeRefresh, LoginElsewhere, LogoutElsewhere, SendLink
  <1>2. CASE Expire \/ SendLink
    <2>1. UNCHANGED <<rows, excused>>
      BY <1>2 DEF Expire, SendLink
    <2> QED
      BY <1>1, <2>1, GoodKept, RenewSilentStep
  <1>3. CASE LoginElsewhere \/ LogoutElsewhere
    <2>1. /\ excused' = excused \cup {rows[account].refresh}
          /\ \/ rows' = [rows EXCEPT ![account].refresh = Granted]
             \/ rows' = [rows EXCEPT ![account].ver = @ + 1, ![account].refresh = 0]
      BY <1>3 DEF LoginElsewhere, LogoutElsewhere
    <2>2. /\ DOMAIN rows' = DOMAIN rows
          /\ \A k \in DOMAIN rows : k # account => rows'[k].refresh = rows[k].refresh
      BY <2>1
    <2>3. GoodStays /\ excused \subseteq excused'
      BY <2>1, <2>2, GoodReplaced
    <2> QED
      BY <1>1, <2>3, RenewSilentStep
  <1>4. CASE AgeRefresh
    <2>1. PICK i \in DOMAIN rows : /\ rows' = [rows EXCEPT ![i].refresh = 0]
                                  /\ excused' = excused \cup {rows[i].refresh}
      BY <1>4 DEF AgeRefresh
    <2>2. DOMAIN rows' = DOMAIN rows /\ \A k \in DOMAIN rows : k # i => rows'[k].refresh = rows[k].refresh
      BY <2>1
    <2>3. GoodStays /\ excused \subseteq excused'
      BY <2>1, <2>2, GoodReplaced
    <2> QED
      BY <1>1, <2>3, RenewSilentStep
  <1> QED
    BY <1>2, <1>3, <1>4

\* A place of the tab changes, and the rotation is none of it.
LEMMA RotationStays ==
  ASSUME FrameTypes, NEW t \in Tab, NEW f \in Frame, f # "rotate", NEW q,
         frame' = [frame EXCEPT ![t][f] = q]
  PROVE  \A s \in Tab : frame'[s]["rotate"] = frame[s]["rotate"]
  BY DEF FrameTypes

LEMMA StoredRefresh ==
  ASSUME NEW n
  PROVE  Empty.refresh = 0 /\ GuestStore(n).refresh = 0 /\ MemberStore(n).refresh = n
  BY DEF Empty, GuestStore, MemberStore

LEMMA RenewReceive ==
  ASSUME OneTab, Inv, RenewInv, NEW t \in Tab, NEW f \in Frame, Receive(t, f)
  PROVE  RenewInv'
  <1> DEFINE r == frame[t][f]
  <1>1. FramesTame
    BY SucceedStep, ReissueStep, RotateStep, DropStep, FailStep, GuestArrivesStep, NoGuestStep DEF Receive
  <1>2. UNCHANGED <<rows, excused>>
    BY DEF Receive, Succeed, Reissue, Rotate, Drop, Fail, GuestArrives, NoGuest, ServerIdle, server
  <1>3. GoodStays /\ excused \subseteq excused'
    BY <1>2, GoodKept
  <1>4. "rotate" \in Frame /\ FrameTypes
    BY TasksAreFrames DEF Inv
  <1>5. r.call \in UserCall \/ r.call = "issue" => f # "rotate"
    BY FrameMeans DEF Placed, UserCall, Idle, New
  <1>6. CASE Succeed(t, f)
    <2>1. f # "rotate"
      BY <1>5, <1>6 DEF Succeed
    <2>2. \A s \in Tab : frame'[s]["rotate"] = frame[s]["rotate"]
      <3>1. \E q : frame' = [frame EXCEPT ![t][f] = q]
        BY <1>6 DEF Succeed
      <3> QED
        BY <1>4, <2>1, <3>1, RotationStays
    <2>3. \/ store'.refresh \in {0, store.refresh}
          \/ Gives(r) /\ store'.refresh = r.got
      BY <1>6, StoredRefresh DEF Succeed, Gives
    <2> QED
      BY <1>1, <1>3, <2>2, <2>3, RenewClientStep
  <1>7. CASE Reissue(t, f)
    <2>1. f # "rotate"
      BY <1>5, <1>7 DEF Reissue
    <2>2. \A s \in Tab : frame'[s]["rotate"] = frame[s]["rotate"]
      BY <1>4, <1>7, <2>1 DEF Reissue, FrameTypes
    <2>3. store'.refresh \in {0, store.refresh}
      BY <1>7, StoredRefresh DEF Reissue
    <2> QED
      BY <1>1, <1>3, <2>2, <2>3, RenewQuietStep
  <1>8. CASE Rotate(t, f)
    <2>1. store' = store /\ f # "rotate"
      BY <1>5, <1>8 DEF Rotate
    <2>2. \A s \in Tab : frame'[s]["rotate"] # frame[s]["rotate"] => s = t /\ frame[s]["rotate"] = Idle
      BY <1>4, <1>8, <2>1 DEF Rotate, FrameTypes
    <2>3. \A s \in Tab : frame[s]["rotate"] = Idle => ~Renewed(frame[s]["rotate"])
      BY <1>4, IdleFrame DEF Renewed
    <2> QED
      BY <1>1, <1>3, <2>1, <2>2, <2>3, RenewClientStep
  <1>9. CASE Drop(t, f)
    <2> DEFINE fs == [frame[t] EXCEPT ![f] = Failed(r)]
    <2>1. f # "rotate" /\ store' = Empty /\ frame' = [frame EXCEPT ![t] = Recovering(t, fs)]
      BY <1>5, <1>9 DEF Drop
    <2>2. Recovering(t, fs)["rotate"] = fs["rotate"]
      BY <1>4 DEF Recovering, FrameTypes
    <2>3. fs["rotate"] = frame[t]["rotate"]
      BY <1>4, <2>1 DEF FrameTypes
    <2> HIDE DEF fs
    <2>4. \A s \in Tab : frame'[s]["rotate"] = frame[s]["rotate"]
      BY <1>4, <2>1, <2>2, <2>3 DEF FrameTypes
    <2>5. store'.refresh \in {0, store.refresh}
      BY <2>1, StoredRefresh
    <2> QED
      BY <1>1, <1>3, <2>4, <2>5, RenewQuietStep
  <1>10. CASE Fail(t, f)
    <2>1. f # "rotate" /\ store' \in {Empty, store} /\ frame' = [frame EXCEPT ![t][f] = Failed(r)]
      BY <1>5, <1>10 DEF Fail, Cleared
    <2>2. \A s \in Tab : frame'[s]["rotate"] = frame[s]["rotate"]
      BY <1>4, <2>1, RotationStays
    <2>3. store'.refresh \in {0, store.refresh}
      BY <2>1, StoredRefresh
    <2> QED
      BY <1>1, <1>3, <2>2, <2>3, RenewQuietStep
  <1>11. CASE GuestArrives(t, f) \/ NoGuest(t, f)
    <2>1. f # "rotate" /\ frame' = [frame EXCEPT ![t][f] = Idle]
      BY <1>5, <1>11 DEF GuestArrives, NoGuest, Back
    <2>2. \A s \in Tab : frame'[s]["rotate"] = frame[s]["rotate"]
      BY <1>4, <2>1, RotationStays
    <2>3. store'.refresh \in {0, store.refresh}
      BY <1>11, StoredRefresh DEF GuestArrives, NoGuest, GuestSession
    <2> QED
      BY <1>1, <1>3, <2>2, <2>3, RenewQuietStep
  <1> QED
    BY <1>6, <1>7, <1>8, <1>9, <1>10, <1>11 DEF Receive

LEMMA RenewSettle ==
  ASSUME OneTab, Inv, RenewInv, NEW t \in Tab, Settle(t)
  PROVE  RenewInv'
  <1> DEFINE r == frame[t]["rotate"]
  <1>1. FramesTame
    BY RotatedStep, NotRotatedStep, ReissuedStep, NotReissuedStep DEF Settle
  <1>2. UNCHANGED <<rows, excused>>
    BY DEF Settle, Rotated, NotRotated, Reissued, NotReissued, ServerIdle, server
  <1>3. GoodStays /\ excused \subseteq excused'
    BY <1>2, GoodKept
  <1>4. "rotate" \in Frame /\ FrameTypes
    BY TasksAreFrames DEF Inv
  <1>5. \A s \in Tab : s = t
    BY DEF OneTab
  <1>6. CASE Rotated(t)
    <2>1. /\ r.pc = "back" /\ r.answer = "ok" /\ store'.refresh = r.got
          /\ frame' = [frame EXCEPT ![t] = [Resumed(t, "rotating") EXCEPT !["rotate"] = Idle]]
      BY <1>6, StoredRefresh DEF Rotated
    <2>2. frame'[t]["rotate"] = Idle
      BY <1>4, <2>1 DEF FrameTypes, Resumed
    <2>3. Gives(r)
      BY <1>4, <2>1, RotationIsRenewal DEF Gives
    <2>4. Idle.pc # "sent"
      BY <1>4, IdleFrame
    <2>5. \A s \in Tab : frame'[s]["rotate"].pc # "sent" /\ store'.refresh = frame[s]["rotate"].got
      BY <1>5, <2>1, <2>2, <2>4
    <2> QED
      BY <1>1, <1>3, <1>4, <2>1, <2>3, <2>5, RenewClientStep
  <1>7. CASE NotRotated(t)
    <2> DEFINE fs == [GivenUp(t, "rotating") EXCEPT !["rotate"] = Idle]
    <2>1. /\ r.answer # "ok" /\ store' \in {Empty, store}
          /\ \/ frame' = [frame EXCEPT ![t] = Recovering(t, fs)]
             \/ frame' = [frame EXCEPT ![t] = fs]
      BY <1>7 DEF NotRotated, Cleared
    <2>2. fs["rotate"] = Idle
      BY <1>4 DEF GivenUp
    <2>3. Recovering(t, fs)["rotate"] = fs["rotate"]
      BY <1>4 DEF Recovering, GivenUp
    <2> HIDE DEF fs
    <2>4. frame'[t]["rotate"] = Idle
      BY <1>4, <2>1, <2>2, <2>3 DEF FrameTypes
    <2>5. Idle.pc # "sent"
      BY <1>4, IdleFrame
    <2>6. \A s \in Tab : frame'[s]["rotate"].pc # "sent" /\ ~Renewed(frame[s]["rotate"])
      BY <1>5, <2>1, <2>4, <2>5 DEF Renewed
    <2>7. store'.refresh \in {0, store.refresh}
      BY <2>1, StoredRefresh
    <2> QED
      BY <1>1, <1>3, <2>6, <2>7, RenewClientStep
  <1>8. CASE Reissued(t)
    <2>1. frame'[t]["rotate"] = r
      <3>1. r.pc # "reissuing"
        BY <1>4, FrameMeans, TasksAreFrames DEF Placed
      <3>2. frame' = [frame EXCEPT ![t] = [Resumed(t, "reissuing") EXCEPT !["reissue"] = Idle]]
        BY <1>8 DEF Reissued
      <3> QED
        BY <1>4, <3>1, <3>2 DEF FrameTypes, Resumed
    <2>2. \A s \in Tab : frame'[s]["rotate"] = frame[s]["rotate"]
      BY <1>5, <2>1
    <2>3. store'.refresh \in {0, store.refresh}
      BY <1>8, StoredRefresh DEF Reissued, GuestSession
    <2> QED
      BY <1>1, <1>3, <2>2, <2>3, RenewQuietStep
  <1>9. CASE NotReissued(t)
    <2>1. frame'[t]["rotate"] = r
      <3>1. r.pc # "reissuing"
        BY <1>4, FrameMeans, TasksAreFrames DEF Placed
      <3>2. frame' = [frame EXCEPT ![t] = [GivenUp(t, "reissuing") EXCEPT !["reissue"] = Idle]]
        BY <1>9 DEF NotReissued
      <3> QED
        BY <1>4, <3>1, <3>2 DEF FrameTypes, GivenUp
    <2>2. \A s \in Tab : frame'[s]["rotate"] = frame[s]["rotate"]
      BY <1>5, <2>1
    <2>3. store'.refresh \in {0, store.refresh}
      BY <1>9, StoredRefresh DEF NotReissued, Cleared
    <2> QED
      BY <1>1, <1>3, <2>2, <2>3, RenewQuietStep
  <1> QED
    BY <1>6, <1>7, <1>8, <1>9 DEF Settle

LEMMA RenewAct ==
  ASSUME OneTab, Inv, RenewInv, NEW t \in Tab, NEW f \in Frame,
         \/ \E op \in Op : Begin(t, f, op)
         \/ RetryGuest(t, f) \/ RetryRotation(t, f) \/ Send(t, f) \/ Ensure(t, f) \/ Redeemed(t)
  PROVE  RenewInv'
  <1>1. FramesTame
    BY BeginStep, RetryGuestStep, RetryRotationStep, SendStep, EnsureStep, RedeemedStep
  <1>2. UNCHANGED <<rows, excused>>
    BY DEF Begin, RetryGuest, RetryRotation, Send, Ensure, Redeemed, ServerIdle, server
  <1>3. GoodStays /\ excused \subseteq excused'
    BY <1>2, GoodKept
  <1>4. "rotate" \in Frame /\ "rotate" \notin Task /\ "boot" \in Frame /\ FrameTypes
    BY TasksAreFrames DEF Inv
  <1>5. CASE \E op \in Op : Begin(t, f, op)
    <2>1. PICK op \in Op : f \in Task /\ frame' = [frame EXCEPT ![t][f] = New(op, op, "ready")] /\ store' = store
      BY <1>5 DEF Begin
    <2>2. \A s \in Tab : frame'[s]["rotate"] = frame[s]["rotate"]
      BY <1>4, <2>1, RotationStays
    <2> QED
      BY <1>1, <1>3, <2>1, <2>2, RenewQuietStep
  <1>6. CASE RetryGuest(t, f)
    <2>1. f \in Task /\ frame' = [frame EXCEPT ![t][f] = Issue("retry")] /\ store' = Empty
      BY <1>6 DEF RetryGuest
    <2>2. \A s \in Tab : frame'[s]["rotate"] = frame[s]["rotate"]
      BY <1>4, <2>1, RotationStays
    <2>3. store'.refresh \in {0, store.refresh}
      BY <2>1, StoredRefresh
    <2> QED
      BY <1>1, <1>3, <2>2, <2>3, RenewQuietStep
  <1>7. CASE RetryRotation(t, f)
    <2>1. store' = store /\ f # "rotate"
      BY <1>4, <1>7 DEF RetryRotation
    <2>2. \A s \in Tab : frame'[s]["rotate"] # frame[s]["rotate"] => frame[s]["rotate"] = Idle
      BY <1>4, <1>7, <2>1 DEF RetryRotation, FrameTypes
    <2>3. \A s \in Tab : frame[s]["rotate"] = Idle => ~Renewed(frame[s]["rotate"])
      BY <1>4, IdleFrame DEF Renewed
    <2> QED
      BY <1>1, <1>3, <2>1, <2>2, <2>3, RenewClientStep
  <1>8. CASE Send(t, f)
    <2>1. store' = store /\ f # "rotate"
      BY <1>8, FrameMeans DEF Send, Placed, Idle, New
    <2>2. \A s \in Tab : frame'[s]["rotate"] = frame[s]["rotate"]
      BY <1>4, <1>8, <2>1 DEF Send, FrameTypes
    <2> QED
      BY <1>1, <1>3, <2>1, <2>2, RenewQuietStep
  <1>9. CASE Ensure(t, f)
    <2>1. store' = store /\ f # "rotate"
      BY <1>9, FrameMeans DEF Ensure, Placed, Idle, New
    <2>2. \E q : frame' = [frame EXCEPT ![t][f] = q]
      BY <1>9 DEF Ensure
    <2>3. \A s \in Tab : frame'[s]["rotate"] = frame[s]["rotate"]
      BY <1>4, <2>1, <2>2, RotationStays
    <2> QED
      BY <1>1, <1>3, <2>1, <2>3, RenewQuietStep
  <1>10. CASE Redeemed(t)
    <2>1. frame' = [frame EXCEPT ![t]["boot"] = New("boot", "ensure", "ready")]
      BY <1>10 DEF Redeemed
    <2>2. \A s \in Tab : frame'[s]["rotate"] = frame[s]["rotate"]
      BY <1>4, <2>1, RotationStays
    <2>3. store'.refresh \in {0, store.refresh}
      BY <1>10 DEF Redeemed, MemberStore
    <2> QED
      BY <1>1, <1>3, <2>2, <2>3, RenewQuietStep
  <1> QED
    BY <1>5, <1>6, <1>7, <1>8, <1>9, <1>10

LEMMA RenewReload ==
  ASSUME OneTab, Inv, RenewInv, NEW t \in Tab, Reload(t)
  PROVE  RenewInv'
  <1>1. FramesTame
    BY ReloadStep
  <1>2. UNCHANGED <<rows, store>> /\ excused' = excused \cup {frame[t]["rotate"].refresh}
    BY DEF Reload, ServerIdle, server
  <1>3. GoodStays /\ excused \subseteq excused'
    BY <1>2, GoodKept
  <1>4. \A s \in Tab : s = t
    BY DEF OneTab
  <1>5. PICK c \in BOOLEAN : frame' = [frame EXCEPT ![t] = Booting(t, c)]
    BY DEF Reload
  <1>6. frame'[t]["rotate"] = Idle
    BY <1>5, BootingFrames DEF Inv, FrameTypes
  <1>7. Idle.pc # "sent"
    BY TasksAreFrames, IdleFrame
  <1>8. \A s \in Tab : frame'[s]["rotate"].pc # "sent" /\ frame[s]["rotate"].refresh \in excused'
    BY <1>2, <1>4, <1>6, <1>7
  <1> QED
    BY <1>1, <1>2, <1>3, <1>8, RenewClientStep

LEMMA InitRenew ==
  ASSUME Init
  PROVE  RenewInv
  <1>1. \A t \in Tab, f \in Frame : NewCall(f, frame[t][f])
    BY BootingFrames DEF Init
  <1>2. \A t \in Tab : frame[t]["rotate"] = Idle
    BY BootingFrames DEF Init
  <1>3. Idle.pc # "sent" /\ Idle.answer # "unauthorized"
    BY TasksAreFrames, IdleFrame
  <1>4. 1 \in DOMAIN rows /\ rows[1].refresh = store.refresh
    <2> DEFINE a == [kind |-> "member", ver |-> 0, refresh |-> store.refresh]
               b == [kind |-> "guest", ver |-> 0, refresh |-> 0]
    <2>1. rows = <<a, b>>
      BY DEF Init
    <2>2. a.refresh = store.refresh
      OBVIOUS
    <2> HIDE DEF a, b
    <2> QED
      BY <2>1, <2>2
  <1> QED
    BY <1>1, <1>2, <1>3, <1>4 DEF RenewInv, NewCall, Good

LEMMA StepRenew ==
  ASSUME OneTab, Inv, RenewInv, [Next]_vars
  PROVE  RenewInv'
  <1>1. CASE UNCHANGED vars
    <2>1. UNCHANGED <<rows, store, frame, excused>>
      BY <1>1 DEF vars, server
    <2> QED
      BY <2>1, GoodKept, RenewSilentStep
  <1>2. ASSUME NEW t \in Tab, NEW f \in Frame,
               \/ \E op \in Op : Begin(t, f, op)
               \/ RetryGuest(t, f) \/ RetryRotation(t, f)
               \/ Send(t, f) \/ Serve(t, f) \/ Receive(t, f)
               \/ Limit(t, f) \/ Lose(t, f)
        PROVE  RenewInv'
    BY <1>2, RenewAct, RenewServe, RenewReceive, RenewFault
  <1>3. ASSUME NEW t \in Tab, Boot(t) \/ Settle(t) \/ Reload(t)
        PROVE  RenewInv'
    <2>1. CASE Redeemed(t)
      BY <2>1, RenewAct, TasksAreFrames
    <2>2. ASSUME NEW f \in Frame, Ensure(t, f)
          PROVE  RenewInv'
      BY <2>2, RenewAct
    <2>3. CASE Settle(t)
      BY <2>3, RenewSettle
    <2>4. CASE Reload(t)
      BY <2>4, RenewReload
    <2> QED
      BY <1>3, <2>1, <2>2, <2>3, <2>4 DEF Boot
  <1>4. CASE Expire \/ AgeRefresh \/ LoginElsewhere \/ LogoutElsewhere \/ SendLink
    BY <1>4, RenewElsewhere
  <1> QED
    BY <1>1, <1>2, <1>3, <1>4 DEF Next

\* In one tab: calls whose access token expires together never spend each
\* other's refresh token; the API refuses a renewal only when the token is past its time,
\* an earlier answer was lost, or the account was logged in, logged out or withdrawn
\* meanwhile (client.ts:500-558, auth.py:809-838).
THEOREM RejectedWithReasonHolds ==
  ASSUME OneTab
  PROVE  Spec => []RejectedWithReason
  <1>1. Init => RenewInv
    BY InitRenew
  <1>2. Inv /\ RenewInv /\ [Next]_vars => RenewInv'
    BY StepRenew
  <1>3. RenewInv => RejectedWithReason
    BY DEF RenewInv, RejectedWithReason
  <1> QED
    BY <1>1, <1>2, <1>3, InvHolds, PTL DEF Spec
=============================================================================
