---------------------------- MODULE OrdersProofs ----------------------------
(***************************************************************************)
(* Theorems about Orders.tla, for every set of members, shop accounts,     *)
(* orders and runs, and any number of days, acts and faults: its types,    *)
(* that an order pays one member, that a clawback takes what was paid, and *)
(* that a refresh token is spent once.                                     *)
(***************************************************************************)
EXTENDS Orders, TLAPS

Status == {"none", "placed", "paid", "cancelled"}

OrderRecord ==
  [status : Status, by : Shop \cup {None}, broken : BOOLEAN, day : Nat, at : Nat,
   timely : BOOLEAN]

Moment == [day : Nat, at : Nat]

SeenRecord == [id : Order \cup {None}, status : Status]

Pc == {"idle", "token", "locked", "renewed", "fetch", "apply", "post"}

RunRecord ==
  [pc : Pc, shop : Shop \cup {None}, now : Nat, cursor : Nat, refresh : Nat, amount : Nat,
   list : SUBSET SeenRecord, to : Member \cup {None}, seen : SeenRecord]

ShopTypes ==
  /\ day \in 0 .. MaxDay /\ clock \in Nat
  /\ order \in [Order -> OrderRecord]
  /\ \A o \in Order : order[o].day <= day /\ order[o].at <= clock

PeopleTypes ==
  /\ link \in [Member -> Shop \cup {None}] /\ cutoff \in [Member -> Moment]
  /\ withdrawn \subseteq Member
  /\ \A m \in Member : cutoff[m].day <= day /\ cutoff[m].at <= clock

BookTypes ==
  /\ ledger \subseteq [member : Member, order : Order, kind : {"reward", "clawback"},
                       amount : Int]
  /\ price \in Price
  /\ acts \in 0 .. MaxAct /\ faults \in 0 .. MaxFault

TokenTypes ==
  /\ token \in [refresh : Nat, due : BOOLEAN, synced : Nat] /\ token.synced <= day
  /\ shopToken \in Nat \ {0}
  /\ issued \in [refresh : Nat, synced : Nat] /\ spoiled \in BOOLEAN

RunTypes ==
  /\ sync \in [Sync -> RunRecord]
  /\ \A p \in Sync : sync[p].now <= day

Typed == ShopTypes /\ PeopleTypes /\ BookTypes /\ TokenTypes /\ RunTypes

\* One run at a time has the row locked; what it sends is what the row says,
\* and that is what the shop accepts, but for an answer that was lost and for
\* what the operator has in hand, which is the shop's newest.
InRow(p) == sync[p].pc \in {"locked", "renewed"}

Good(n) == n = shopToken \/ spoiled \/ issued # NoToken

TokenInv ==
  /\ \A p, q \in Sync : InRow(p) /\ InRow(q) => p = q
  /\ \A p \in Sync : sync[p].pc = "locked" => sync[p].refresh = token.refresh
  /\ \A p \in Sync : sync[p].pc = "renewed" =>
       /\ sync[p].refresh \in 1 .. shopToken
       /\ Good(sync[p].refresh)
       /\ issued # NoToken => sync[p].refresh # shopToken
  /\ token.refresh \in 1 .. shopToken
  /\ (\A p \in Sync : sync[p].pc # "renewed") => Good(token.refresh)
  /\ issued # NoToken => issued.refresh = shopToken /\ token.refresh # shopToken

\* Who is linked was linked at some time, and who is not and can be was never.
\* A shop account is linked to one member.
LinkInv ==
  /\ \A m \in Member : link[m] # None => m \notin withdrawn /\ cutoff[m].at # 0
  /\ \A m \in Member : link[m] = None /\ m \notin withdrawn => cutoff[m] = Never
  /\ \A m, n \in Member : link[m] # None /\ link[m] = link[n] => m = n

\* What a run has in its hands are orders that were placed.
ListInv ==
  \A p \in Sync :
    /\ \A x \in sync[p].list : x.id \in Order /\ order[x.id].status # "none"
    /\ sync[p].pc = "post" => sync[p].to \in Member /\ sync[p].seen.id \in Order

\* An order has gone to a member: it is posted, or about to be.
Claims(o, m) ==
  \/ \E r \in ledger : r.order = o /\ r.member = m
  \/ \E p \in Sync : sync[p].pc = "post" /\ sync[p].to = m /\ sync[p].seen.id = o

\* It went to the member who was linked first to the shop account that placed
\* it, before it was placed; whoever is linked to the account since, was
\* linked after.
ClaimInv ==
  \A o \in Order, m \in Member : Claims(o, m) =>
    /\ order[o].status # "none" /\ order[o].by # None /\ cutoff[m].at # 0
    /\ link[m] = order[o].by \/ m \in withdrawn
    /\ \A n \in Member : n # m =>
         /\ ~Claims(o, n)
         /\ link[n] = order[o].by => order[o].at < cutoff[n].at

\* A key is posted once, and a clawback has its reward.
RowInv ==
  /\ \A r, s \in ledger : (r.member = s.member /\ r.order = s.order /\ r.kind = s.kind) => r = s
  /\ ClawbackMatches

IInv == Typed /\ TokenInv /\ LinkInv /\ ListInv /\ ClaimInv /\ RowInv
-----------------------------------------------------------------------------
LEMMA Frame ==
  ASSUME Next
  PROVE  /\ \/ UNCHANGED <<time, order>> \/ Dawn
            \/ \E o \in Order : Place(o) \/ Pay(o) \/ CancelOrder(o)
            \/ \E m \in Member, s \in Shop : Link(m, s)
         /\ \/ UNCHANGED people
            \/ \E m \in Member : Withdraw(m) \/ \E s \in Shop : Link(m, s)
         /\ UNCHANGED ledger \/ \E p \in Sync : Post(p)
         /\ \/ UNCHANGED oauth \/ AgeToken \/ Exchange \/ StoreToken \/ ScriptDies
            \/ \E p \in Sync : Renew(p) \/ SaveToken(p) \/ Finish(p) \/ Fail(p)
         /\ \/ UNCHANGED sync \/ StartBatch
            \/ \E p \in Sync : Step(p) \/ Fail(p) \/ \E m \in Member : StartMember(p, m)
         /\ UNCHANGED price \/ SetPrice
  <1> USE DEF time, people, oauth
  <1>1. CASE Dawn BY <1>1 DEF Dawn
  <1>2. CASE SetPrice BY <1>2 DEF SetPrice, Act
  <1>3. CASE AgeToken BY <1>3 DEF AgeToken, Act
  <1>4. CASE Exchange BY <1>4 DEF Exchange, Act
  <1>5. CASE StoreToken BY <1>5 DEF StoreToken
  <1>6. CASE ScriptDies BY <1>6 DEF ScriptDies, Fault
  <1>7. CASE \E o \in Order : Place(o) \/ Pay(o) \/ CancelOrder(o)
    BY <1>7 DEF Place, Pay, CancelOrder, Change
  <1>8. CASE \E m \in Member : Withdraw(m) \/ \E s \in Shop : Link(m, s)
    BY <1>8 DEF Withdraw, Link
  <1>9. CASE StartBatch \/ \E p \in Sync, m \in Member : StartMember(p, m)
    BY <1>9 DEF StartBatch, StartMember
  <1>10. CASE \E p \in Sync : LockToken(p) \/ Fetch(p) \/ Judge(p)
    BY <1>10 DEF Step, LockToken, Fetch, Judge
  <1>11. CASE \E p \in Sync : Renew(p) \/ SaveToken(p) \/ Finish(p)
    BY <1>11 DEF Step, Renew, SaveToken, Finish
  <1>12. CASE \E p \in Sync : Post(p) \/ Fail(p)
    BY <1>12 DEF Step, Post, Fail
  <1>13. QED
    BY <1>1, <1>2, <1>3, <1>4, <1>5, <1>6, <1>7, <1>8, <1>9, <1>10, <1>11, <1>12
       DEF Next, Step

LEMMA ShopStep ==
  ASSUME OrdersAssumption, Typed, Next
  PROVE  ShopTypes'
  <1> USE DEF Typed, ShopTypes, time
  <1>1. CASE UNCHANGED <<time, order>> BY <1>1
  <1>2. CASE Dawn BY <1>2 DEF Dawn, OrdersAssumption, OrderRecord
  <1>3. ASSUME NEW o \in Order, Place(o) PROVE ShopTypes'
    <2> PICK who \in Shop \cup {None}, broken \in BOOLEAN :
            order' = [order EXCEPT ![o] = [status |-> "placed", by |-> who, broken |-> broken,
                                           day |-> day, at |-> clock + 1, timely |-> FALSE]]
      BY <1>3 DEF Place
    <2>1. day' = day /\ clock' = clock + 1 BY <1>3 DEF Place
    <2> QED BY <2>1 DEF OrderRecord, Status
  <1>4. ASSUME NEW o \in Order, Pay(o) \/ CancelOrder(o) PROVE ShopTypes'
    <2> PICK s \in {"paid", "cancelled"} : Change(o, s)
      BY <1>4 DEF Pay, CancelOrder
    <2> DEFINE timely == day - order[o].day < Lookback
    <2> DEFINE r == [order[o] EXCEPT !.status = s, !.timely = timely]
    <2>1. timely \in BOOLEAN OBVIOUS
    <2>2. order' = [order EXCEPT ![o] = r]
      BY DEF Change
    <2> HIDE DEF timely
    <2>3. r \in OrderRecord /\ r.day = order[o].day /\ r.at = order[o].at
      BY <2>1 DEF OrderRecord, Status
    <2> HIDE DEF r
    <2>4. day' = day /\ clock' = clock BY DEF Change
    <2> QED BY <2>2, <2>3, <2>4
  <1>5. ASSUME NEW m \in Member, NEW s \in Shop, Link(m, s) PROVE ShopTypes'
    BY <1>5 DEF Link, OrderRecord
  <1> QED BY Frame, <1>1, <1>2, <1>3, <1>4, <1>5

LEMMA TimeStep ==
  ASSUME OrdersAssumption, ShopTypes, Next
  PROVE  day \in Nat /\ day' \in Nat /\ clock' \in Nat /\ day <= day' /\ clock <= clock'
  <1> USE DEF ShopTypes, OrdersAssumption, time
  <1>1. CASE UNCHANGED <<time, order>> BY <1>1
  <1>2. CASE Dawn BY <1>2 DEF Dawn
  <1>3. CASE \E o \in Order : Place(o) \/ Pay(o) \/ CancelOrder(o)
    BY <1>3 DEF Place, Pay, CancelOrder, Change
  <1>4. CASE \E m \in Member, s \in Shop : Link(m, s)
    BY <1>4 DEF Link
  <1> QED BY Frame, <1>1, <1>2, <1>3, <1>4

LEMMA PeopleStep ==
  ASSUME OrdersAssumption, Typed, Next
  PROVE  PeopleTypes'
  <1>1. day \in Nat /\ day' \in Nat /\ clock' \in Nat /\ day <= day' /\ clock <= clock'
    BY TimeStep DEF Typed
  <1> USE DEF Typed, ShopTypes, PeopleTypes, people, Moment
  <1>2. CASE UNCHANGED people
    BY <1>1, <1>2
  <1>3. ASSUME NEW m \in Member, Withdraw(m) PROVE PeopleTypes'
    <2>1. /\ link' = [link EXCEPT ![m] = None] /\ withdrawn' = withdrawn \cup {m}
          /\ cutoff' = cutoff /\ day' = day /\ clock' = clock
      BY <1>3 DEF Withdraw, time
    <2> QED BY <2>1
  <1>4. ASSUME NEW m \in Member, NEW s \in Shop, Link(m, s) PROVE PeopleTypes'
    <2> DEFINE c == IF cutoff[m] = Never THEN [day |-> day, at |-> clock + 1] ELSE cutoff[m]
    <2>1. c \in Moment /\ c.day <= day /\ c.at <= clock + 1
      BY DEF OrdersAssumption
    <2>2. /\ cutoff' = [cutoff EXCEPT ![m] = c] /\ link' = [link EXCEPT ![m] = s]
          /\ clock' = clock + 1 /\ day' = day /\ withdrawn' = withdrawn
      BY <1>4 DEF Link
    <2> HIDE DEF c
    <2> QED BY <2>1, <2>2
  <1> QED BY Frame, <1>2, <1>3, <1>4

LEMMA BookStep ==
  ASSUME OrdersAssumption, Typed, ListInv, Next
  PROVE  BookTypes'
  <1> USE DEF Typed, BookTypes
  <1>1. acts' \in 0 .. MaxAct /\ faults' \in 0 .. MaxFault
    <2> USE DEF OrdersAssumption
    <2>1. CASE Act /\ UNCHANGED faults
      BY <2>1 DEF Act
    <2>2. CASE Fault /\ UNCHANGED acts
      BY <2>2 DEF Fault
    <2>3. CASE UNCHANGED <<acts, faults>>
      BY <2>3
    <2> QED
      BY <2>1, <2>2, <2>3
         DEF Next, Step, Dawn, SetPrice, AgeToken, Exchange, StoreToken, ScriptDies, Place, Pay,
             CancelOrder, Change, Withdraw, Link, StartBatch, StartMember, LockToken, Renew,
             SaveToken, Fetch, Judge, Post, Finish, Fail
  <1>2. price' \in Price
    BY Frame DEF SetPrice
  <1>3. ASSUME NEW p \in Sync, Post(p) PROVE BookTypes'
    <2> DEFINE m == sync[p].to
    <2> DEFINE o == sync[p].seen.id
    <2>1. m \in Member /\ o \in Order
      BY <1>3 DEF Post, ListInv
    <2>2. sync[p].amount \in Int
      BY DEF RunTypes, RunRecord
    <2>3. \A r \in ledger : Taken(p, r) \in Int
      BY DEF Taken
    <2>4. PICK new : /\ ledger' = ledger \cup {r \in new : Rows(m, o, r.kind) = {}}
                     /\ \/ new = {Row(m, o, "reward", sync[p].amount)}
                        \/ new = {Row(m, o, "clawback", Taken(p, r)) : r \in Rows(m, o, "reward")}
      BY <1>3 DEF Post
    <2> HIDE DEF m, o
    <2> DEFINE RowRecord == [member : Member, order : Order, kind : {"reward", "clawback"},
                             amount : Int]
    <2>5. \A n \in Int : /\ Row(m, o, "reward", n) \in RowRecord
                         /\ Row(m, o, "clawback", n) \in RowRecord
      BY <2>1 DEF Row
    <2>6. Rows(m, o, "reward") \subseteq ledger
      BY DEF Rows
    <2>7. new \subseteq RowRecord
      BY <2>2, <2>3, <2>4, <2>5, <2>6
    <2> QED BY <1>1, <1>2, <2>4, <2>7
  <1> QED BY Frame, <1>1, <1>2, <1>3

LEMMA TokenTypesStep ==
  ASSUME OrdersAssumption, Typed, Next
  PROVE  TokenTypes'
  <1> USE DEF Typed, ShopTypes, TokenTypes, RunTypes, oauth, time, OrdersAssumption
  <1>1. \A p \in Sync : sync[p].now \in Nat /\ sync[p].refresh \in Nat
    BY DEF RunRecord
  <1>2. day \in Nat /\ day' \in Nat /\ day <= day'
    BY TimeStep
  <1>3. CASE UNCHANGED oauth BY <1>2, <1>3
  <1>4. CASE AgeToken BY <1>2, <1>4 DEF AgeToken
  <1>5. CASE Exchange BY <1>2, <1>5 DEF Exchange
  <1>6. CASE StoreToken
    <2> PICK n \in issued.synced .. token.synced :
               token' = [refresh |-> issued.refresh, due |-> FALSE, synced |-> n]
      BY <1>6 DEF StoreToken
    <2>1. issued' = NoToken /\ spoiled' = FALSE /\ shopToken' = shopToken
      BY <1>6 DEF StoreToken
    <2>2. n \in Nat /\ n <= day
      OBVIOUS
    <2>3. token' \in [refresh : Nat, due : BOOLEAN, synced : Nat] /\ token'.synced <= day'
      BY <1>2, <2>2
    <2> QED BY <2>1, <2>3 DEF NoToken
  <1>7. CASE ScriptDies BY <1>2, <1>7 DEF ScriptDies, NoToken
  <1>8. ASSUME NEW p \in Sync, Renew(p) PROVE TokenTypes'
    BY <1>2, <1>8 DEF Renew
  <1>9. ASSUME NEW p \in Sync, SaveToken(p) PROVE TokenTypes'
    BY <1>1, <1>2, <1>9 DEF SaveToken
  <1>10. ASSUME NEW p \in Sync, Finish(p) PROVE TokenTypes'
    BY <1>1, <1>2, <1>10 DEF Finish
  <1>11. ASSUME NEW p \in Sync, Fail(p) PROVE TokenTypes'
    <2>1. token' = token /\ issued' = issued BY <1>11 DEF Fail
    <2>2. spoiled' \in {spoiled, TRUE} /\ shopToken' \in {shopToken, shopToken + 1}
      BY <1>11 DEF Fail
    <2>3. shopToken' \in Nat \ {0} BY <2>2
    <2>4. spoiled' \in BOOLEAN BY <2>2
    <2> QED BY <1>2, <2>1, <2>3, <2>4
  <1> QED BY Frame, <1>3, <1>4, <1>5, <1>6, <1>7, <1>8, <1>9, <1>10, <1>11

\* What a step does to the runs: one of them goes on.
Moved(p, r) == sync' = [sync EXCEPT ![p] = r]

LEMMA Records ==
  /\ NoSync \in RunRecord /\ Unseen \in SeenRecord
  /\ \A r \in RunRecord : /\ r.now \in Nat /\ r.refresh \in Nat /\ r.amount \in Nat
                          /\ r.cursor \in Nat /\ r.list \subseteq SeenRecord
  BY DEF NoSync, Unseen, RunRecord, Pc, SeenRecord, Status

LEMMA NewRun ==
  ASSUME NEW s \in Shop \cup {None}, NEW n \in Nat, NEW from \in Nat
  PROVE  LET r == [NoSync EXCEPT !.pc = "token", !.now = n, !.cursor = from] IN
         /\ r \in RunRecord /\ r.now = n
         /\ [r EXCEPT !.shop = s] \in RunRecord /\ [r EXCEPT !.shop = s].now = n
  BY DEF NoSync, Unseen, RunRecord, Pc, SeenRecord, Status

LEMMA TokenRun ==
  ASSUME NEW r \in RunRecord, NEW pc \in Pc, NEW n \in Nat, NEW a \in Nat
  PROVE  /\ [r EXCEPT !.pc = pc, !.refresh = n] \in RunRecord
         /\ [r EXCEPT !.pc = pc, !.refresh = n].now = r.now
         /\ [r EXCEPT !.pc = pc, !.refresh = n, !.amount = a] \in RunRecord
         /\ [r EXCEPT !.pc = pc, !.refresh = n, !.amount = a].now = r.now
  BY DEF RunRecord

LEMMA ListRun ==
  ASSUME NEW r \in RunRecord, NEW pc \in Pc, NEW l \in SUBSET SeenRecord, NEW from \in Nat,
         NEW m \in Member \cup {None}, NEW x \in SeenRecord
  PROVE  /\ [r EXCEPT !.pc = pc, !.cursor = from, !.list = l] \in RunRecord
         /\ [r EXCEPT !.list = l] \in RunRecord
         /\ [r EXCEPT !.list = l, !.pc = pc, !.to = m, !.seen = x] \in RunRecord
         /\ [r EXCEPT !.pc = pc, !.to = m, !.seen = x] \in RunRecord
  BY DEF RunRecord

LEMMA RunTypesStay ==
  ASSUME OrdersAssumption, ShopTypes, RunTypes, Next,
         \/ UNCHANGED sync
         \/ \E p \in Sync, r \in RunRecord : r.now <= day /\ Moved(p, r)
  PROVE  RunTypes'
  <1>1. day \in Nat /\ day' \in Nat /\ day <= day'
    BY TimeStep
  <1>2. \A p \in Sync : sync[p].now \in Nat /\ sync[p].now <= day
    BY Records DEF RunTypes
  <1>3. CASE UNCHANGED sync
    BY <1>1, <1>2, <1>3 DEF RunTypes
  <1>4. ASSUME NEW p \in Sync, NEW r \in RunRecord, r.now <= day, Moved(p, r)
        PROVE  RunTypes'
    <2>1. sync' \in [Sync -> RunRecord]
      BY <1>4 DEF Moved, RunTypes
    <2>2. \A q \in Sync : sync'[q].now \in Nat /\ sync'[q].now <= day
      BY <1>2, <1>4, Records DEF Moved, RunTypes
    <2> QED BY <1>1, <2>1, <2>2 DEF RunTypes
  <1> QED BY <1>3, <1>4

LEMMA RunStep ==
  ASSUME OrdersAssumption, Typed, Next
  PROVE  RunTypes'
  <1> DEFINE Fine == \E p \in Sync, r \in RunRecord : r.now <= day /\ Moved(p, r)
  <1>1. SUFFICES (UNCHANGED sync) \/ Fine
    BY RunTypesStay DEF Typed
  <1>2. \A p \in Sync : /\ sync[p] \in RunRecord /\ sync[p].now <= day
                        /\ sync[p].list \subseteq SeenRecord /\ sync[p].cursor \in Nat
    BY Records DEF Typed, RunTypes
  <1>3. /\ day \in Nat /\ price \in Nat /\ Lookback \in Nat /\ Chunk \in Nat
        /\ token.refresh \in Nat /\ token.synced \in Nat /\ shopToken \in Nat
        /\ \A m \in Member : cutoff[m].day \in Nat /\ link[m] \in Shop \cup {None}
    BY DEF Typed, ShopTypes, BookTypes, PeopleTypes, TokenTypes, Moment, OrdersAssumption
  <1>4. "token" \in Pc /\ "locked" \in Pc /\ "renewed" \in Pc /\ "fetch" \in Pc
        /\ "apply" \in Pc /\ "post" \in Pc
    BY DEF Pc
  <1>5. ASSUME NEW p \in Sync, sync' = [sync EXCEPT ![p] = NoSync] PROVE Fine
    <2>1. NoSync.now = 0 BY DEF NoSync
    <2>2. Moved(p, NoSync) BY <1>5 DEF Moved
    <2> QED BY <1>3, <2>1, <2>2, Records
  <1>6. ASSUME NEW p \in Sync, sync' = Obtained(p) PROVE Fine
    <2> DEFINE r == [sync[p] EXCEPT !.pc = "fetch", !.refresh = 0, !.amount = price]
    <2>1. r \in RunRecord BY <1>2, <1>3, <1>4, TokenRun
    <2>2. r.now = sync[p].now BY <1>2 DEF RunRecord
    <2>3. Moved(p, r) BY <1>6 DEF Obtained, Moved
    <2> HIDE DEF r
    <2> QED BY <1>2, <2>1, <2>2, <2>3
  <1>7. CASE StartBatch
    <2> PICK first \in Member :
          sync' = [sync EXCEPT ![Cron] = [NoSync EXCEPT !.pc = "token", !.now = day,
                                                       !.cursor = Since(cutoff[first].day)]]
      BY <1>7 DEF StartBatch
    <2> DEFINE from == Since(cutoff[first].day)
    <2>1. from \in Nat
      BY <1>3 DEF Since, Later
    <2> DEFINE r == [NoSync EXCEPT !.pc = "token", !.now = day, !.cursor = from]
    <2>2. Moved(Cron, r) BY DEF Moved
    <2> HIDE DEF from
    <2>3. r \in RunRecord /\ r.now = day
      BY <1>3, <2>1, NewRun
    <2> HIDE DEF r
    <2> QED BY <1>3, <2>2, <2>3 DEF OrdersAssumption
  <1>8. ASSUME NEW p \in Sync, NEW m \in Member, StartMember(p, m) PROVE Fine
    <2> DEFINE q == [NoSync EXCEPT !.pc = "token", !.now = day, !.cursor = cutoff[m].day]
    <2> DEFINE r == [q EXCEPT !.shop = link[m]]
    <2>1. r \in RunRecord /\ r.now = day
      BY <1>3, NewRun
    <2>2. Moved(p, r) BY <1>8 DEF Moved, StartMember, NoSync
    <2> HIDE DEF r
    <2> QED BY <1>3, <2>1, <2>2
  <1>9. ASSUME NEW p \in Sync, LockToken(p) PROVE Fine
    <2>1. CASE token.due
      <3> DEFINE r == [sync[p] EXCEPT !.pc = "locked", !.refresh = token.refresh]
      <3>1. r \in RunRecord BY <1>2, <1>3, <1>4, TokenRun
      <3>2. r.now = sync[p].now BY <1>2 DEF RunRecord
      <3>3. Moved(p, r) BY <1>9, <2>1 DEF Moved, LockToken
      <3> HIDE DEF r
      <3> QED BY <1>2, <3>1, <3>2, <3>3
    <2>2. CASE ~token.due
      BY <1>6, <1>9, <2>2 DEF LockToken
    <2> QED BY <2>1, <2>2
  <1>10. ASSUME NEW p \in Sync, Renew(p) PROVE Fine
    <2>1. CASE sync' = [sync EXCEPT ![p] = NoSync] BY <1>5, <2>1
    <2>2. CASE sync[p].refresh = shopToken
      <3> DEFINE r == [sync[p] EXCEPT !.pc = "renewed", !.refresh = shopToken']
      <3>1. shopToken' \in Nat BY <1>3, <1>10, <2>2 DEF Renew
      <3>2. r \in RunRecord BY <1>2, <1>3, <1>4, <3>1, TokenRun
      <3>3. r.now = sync[p].now BY <1>2 DEF RunRecord
      <3>4. Moved(p, r) BY <1>10, <2>2 DEF Moved, Renew
      <3> HIDE DEF r
      <3> QED BY <1>2, <3>2, <3>3, <3>4
    <2> QED BY <1>10, <2>1, <2>2 DEF Renew
  <1>11. ASSUME NEW p \in Sync, SaveToken(p) PROVE Fine
    BY <1>6, <1>11 DEF SaveToken
  <1>12. ASSUME NEW p \in Sync, Fetch(p) PROVE Fine
    <2> PICK from \in Nat : Read(p, from)
      BY <1>2, <1>3, <1>12 DEF Fetch
    <2> DEFINE l == Listed(p, from)
    <2>1. l \in SUBSET SeenRecord
      BY DEF Typed, ShopTypes, Listed, SeenRecord, OrderRecord
    <2> DEFINE r == [sync[p] EXCEPT !.pc = "apply", !.cursor = from, !.list = l]
    <2>2. Moved(p, r) BY DEF Moved, Read
    <2> HIDE DEF l
    <2>3. r \in RunRecord BY <1>2, <1>4, <2>1, Records, ListRun
    <2>4. r.now = sync[p].now BY <1>2 DEF RunRecord
    <2> HIDE DEF r
    <2> QED BY <1>2, <2>2, <2>3, <2>4
  <1>13. ASSUME NEW p \in Sync, Judge(p) PROVE Fine
    <2> PICK x \in sync[p].list :
          \/ sync' = [sync EXCEPT ![p].list = @ \ {x}]
          \/ \E m \in Member :
               sync' = [sync EXCEPT ![p].list = @ \ {x}, ![p].pc = "post", ![p].to = m, ![p].seen = x]
      BY <1>13 DEF Judge, Holder
    <2> DEFINE l == sync[p].list \ {x}
    <2>1. x \in SeenRecord /\ l \in SUBSET SeenRecord BY <1>2
    <2>2. CASE sync' = [sync EXCEPT ![p].list = @ \ {x}]
      <3> DEFINE r == [sync[p] EXCEPT !.list = l]
      <3>1. Moved(p, r) BY <2>2 DEF Moved
      <3> HIDE DEF l
      <3>2. r \in RunRecord BY <1>2, <1>4, <2>1, <1>3, ListRun
      <3>3. r.now = sync[p].now BY <1>2 DEF RunRecord
      <3> HIDE DEF r
      <3> QED BY <1>2, <3>1, <3>2, <3>3
    <2>3. ASSUME NEW m \in Member,
                 sync' = [sync EXCEPT ![p].list = @ \ {x}, ![p].pc = "post", ![p].to = m, ![p].seen = x]
          PROVE  Fine
      <3> DEFINE r == [sync[p] EXCEPT !.list = l, !.pc = "post", !.to = m, !.seen = x]
      <3>1. Moved(p, r) BY <2>3 DEF Moved
      <3> HIDE DEF l
      <3>2. r \in RunRecord BY <1>2, <1>4, <2>1, <1>3, ListRun
      <3>3. r.now = sync[p].now BY <1>2 DEF RunRecord
      <3> HIDE DEF r
      <3> QED BY <1>2, <3>1, <3>2, <3>3
    <2> QED BY <2>2, <2>3
  <1>14. ASSUME NEW p \in Sync, Post(p) PROVE Fine
    <2> DEFINE r == [sync[p] EXCEPT !.pc = "apply", !.to = None, !.seen = Unseen]
    <2>1. Moved(p, r) BY <1>14 DEF Moved, Post
    <2>2. r \in RunRecord BY <1>2, <1>4, <1>3, Records, ListRun
    <2>3. r.now = sync[p].now BY <1>2 DEF RunRecord
    <2> HIDE DEF r
    <2> QED BY <1>2, <2>1, <2>2, <2>3
  <1>15. ASSUME NEW p \in Sync, Finish(p) \/ Fail(p) PROVE Fine
    BY <1>5, <1>15 DEF Finish, Fail
  <1> QED
    BY Frame, <1>7, <1>8, <1>9, <1>10, <1>11, <1>12, <1>13, <1>14, <1>15 DEF Step
-----------------------------------------------------------------------------
\* What the shop, the customers and the members do.
LEMMA OrdersGrow ==
  ASSUME Typed, Next, NEW o \in Order
  PROVE  /\ order[o].status # "none" =>
              order'[o].status # "none" /\ order'[o].by = order[o].by /\ order'[o].at = order[o].at
  <1> USE DEF Typed, ShopTypes
  <1>1. CASE UNCHANGED order BY <1>1
  <1>2. ASSUME NEW x \in Order, Place(x)
        PROVE  order[o].status # "none" => order'[o] = order[o]
    BY <1>2 DEF Place
  <1>3. ASSUME NEW x \in Order, NEW s \in {"paid", "cancelled"}, Change(x, s)
        PROVE  /\ order'[o].status \in {order[o].status, s}
               /\ order'[o].by = order[o].by /\ order'[o].at = order[o].at
    BY <1>3 DEF Change, OrderRecord
  <1>4. ASSUME NEW x \in Order, Pay(x) \/ CancelOrder(x)
        PROVE  \E s \in {"paid", "cancelled"} : Change(x, s)
    BY <1>4 DEF Pay, CancelOrder
  <1>5. \/ UNCHANGED order
        \/ \E x \in Order : Place(x) \/ Pay(x) \/ CancelOrder(x)
    BY Frame DEF Dawn, Link, people
  <1> QED BY <1>1, <1>2, <1>3, <1>4, <1>5

LEMMA LinkStep ==
  ASSUME OrdersAssumption, Typed, LinkInv, Next
  PROVE  LinkInv'
  <1> USE DEF LinkInv
  <1>1. CASE UNCHANGED people BY <1>1 DEF people
  <1>2. ASSUME NEW m \in Member, Withdraw(m) PROVE LinkInv'
    <2>1. /\ link' = [link EXCEPT ![m] = None] /\ withdrawn' = withdrawn \cup {m}
          /\ cutoff' = cutoff
      BY <1>2 DEF Withdraw
    <2> QED BY <2>1 DEF Typed, PeopleTypes
  <1>3. ASSUME NEW m \in Member, NEW s \in Shop, Link(m, s) PROVE LinkInv'
    <2>1. cutoff[m] = Never BY <1>3 DEF Link
    <2>2. /\ link' = [link EXCEPT ![m] = s] /\ withdrawn' = withdrawn /\ m \notin withdrawn
          /\ cutoff' = [cutoff EXCEPT ![m] = [day |-> day, at |-> clock + 1]]
          /\ \A n \in Member : link[n] # s
      BY <1>3, <2>1 DEF Link
    <2>3. clock + 1 # 0 /\ s # None
      BY DEF Typed, ShopTypes, OrdersAssumption
    <2>4. /\ \A n \in Member : link'[n] = IF n = m THEN s ELSE link[n]
          /\ \A n \in Member \ {m} : cutoff'[n] = cutoff[n]
          /\ cutoff'[m].at = clock + 1
      BY <2>2 DEF Typed, PeopleTypes
    <2> QED BY <2>2, <2>3, <2>4
  <1> QED BY Frame, <1>1, <1>2, <1>3

\* A run has a posting before it that it had before, or takes one up.
LEMMA Posts ==
  ASSUME OrdersAssumption, Typed, Next, NEW p \in Sync, sync'[p].pc = "post"
  PROVE  \/ sync[p].pc = "post" /\ sync'[p] = sync[p]
         \/ Judge(p) /\ UNCHANGED <<order, people, ledger>>
  <1> USE DEF Typed, RunTypes
  <1>1. CASE UNCHANGED sync BY <1>1
  <1>2. CASE StartBatch
    BY <1>2 DEF StartBatch, NoSync, OrdersAssumption
  <1>3. ASSUME NEW q \in Sync, NEW m \in Member, StartMember(q, m)
        PROVE  sync[p].pc = "post" /\ sync'[p] = sync[p]
    BY <1>3 DEF StartMember, NoSync
  <1>4. ASSUME NEW q \in Sync, sync' = Obtained(q) \/ sync' = [sync EXCEPT ![q] = NoSync]
        PROVE  sync[p].pc = "post" /\ sync'[p] = sync[p]
    BY <1>4 DEF Obtained, NoSync, RunRecord
  <1>5. ASSUME NEW q \in Sync, LockToken(q) \/ SaveToken(q) \/ Finish(q) \/ Fail(q)
        PROVE  sync[p].pc = "post" /\ sync'[p] = sync[p]
    <2>1. \/ sync' = Obtained(q) \/ sync' = [sync EXCEPT ![q] = NoSync]
          \/ sync' = [sync EXCEPT ![q].pc = "locked", ![q].refresh = token.refresh]
      BY <1>5 DEF LockToken, SaveToken, Finish, Fail
    <2> QED BY <1>4, <2>1 DEF RunRecord
  <1>6. ASSUME NEW q \in Sync, Renew(q)
        PROVE  sync[p].pc = "post" /\ sync'[p] = sync[p]
    <2>1. \/ sync' = [sync EXCEPT ![q] = NoSync]
          \/ sync' = [sync EXCEPT ![q].pc = "renewed", ![q].refresh = shopToken']
      BY <1>6 DEF Renew
    <2> QED BY <1>4, <2>1 DEF RunRecord
  <1>7. ASSUME NEW q \in Sync, Fetch(q) \/ Post(q)
        PROVE  sync[p].pc = "post" /\ sync'[p] = sync[p]
    <2>1. CASE Fetch(q)
      <3> PICK from : Read(q, from) BY <2>1 DEF Fetch
      <3> DEFINE l == Listed(q, from)
      <3>1. sync' = [sync EXCEPT ![q].pc = "apply", ![q].cursor = from, ![q].list = l]
        BY DEF Read
      <3> HIDE DEF l
      <3>2. sync'[q].pc = "apply" /\ (q # p => sync'[p] = sync[p])
        BY <3>1 DEF RunRecord
      <3> QED BY <3>2
    <2>2. CASE Post(q)
      <3>1. sync'[q].pc = "apply" /\ (q # p => sync'[p] = sync[p])
        BY <2>2 DEF Post, RunRecord
      <3> QED BY <3>1
    <2> QED BY <1>7, <2>1, <2>2
  <1>8. ASSUME NEW q \in Sync, Judge(q), q # p
        PROVE  sync[p].pc = "post" /\ sync'[p] = sync[p]
    BY <1>8 DEF Judge
  <1>9. CASE Judge(p)
    BY <1>9 DEF Judge, people
  <1> QED BY Frame, <1>1, <1>2, <1>3, <1>5, <1>6, <1>7, <1>8, <1>9 DEF Step

LEMMA Judges ==
  ASSUME Typed, NEW q \in Sync, Judge(q)
  PROVE  /\ sync'[q].pc \in {"apply", "post"} /\ sync'[q].list \subseteq sync[q].list
         /\ \A p \in Sync \ {q} : sync'[p] = sync[p]
  <1> PICK x \in sync[q].list :
        \/ sync' = [sync EXCEPT ![q].list = @ \ {x}]
        \/ \E m \in Member :
             sync' = [sync EXCEPT ![q].list = @ \ {x}, ![q].pc = "post", ![q].to = m, ![q].seen = x]
    BY DEF Judge, Holder
  <1>1. sync \in [Sync -> RunRecord] /\ sync[q] \in RunRecord /\ sync[q].pc = "apply"
    BY DEF Typed, RunTypes, Judge
  <1> DEFINE l == sync[q].list \ {x}
  <1>4. ASSUME NEW k
        PROVE  [sync[q] EXCEPT !.list = k].list = k /\ [sync[q] EXCEPT !.list = k].pc = "apply"
    BY <1>1 DEF RunRecord
  <1>2. CASE sync' = [sync EXCEPT ![q].list = @ \ {x}]
    <2> DEFINE r == [sync[q] EXCEPT !.list = l]
    <2>1. sync' = [sync EXCEPT ![q] = r] BY <1>2
    <2>2. r.list = l /\ r.pc = "apply" BY <1>4
    <2> HIDE DEF r
    <2> QED BY <1>1, <2>1, <2>2
  <1>3. ASSUME NEW m \in Member,
               sync' = [sync EXCEPT ![q].list = @ \ {x}, ![q].pc = "post", ![q].to = m, ![q].seen = x]
        PROVE  /\ sync'[q].pc \in {"apply", "post"} /\ sync'[q].list \subseteq sync[q].list
               /\ \A p \in Sync \ {q} : sync'[p] = sync[p]
    <2> DEFINE r == [sync[q] EXCEPT !.list = l, !.pc = "post", !.to = m, !.seen = x]
    <2>1. sync' = [sync EXCEPT ![q] = r] BY <1>3
    <2> HIDE DEF l
    <2>2. r.list = l /\ r.pc = "post" BY <1>1 DEF RunRecord
    <2> HIDE DEF r
    <2>3. l \subseteq sync[q].list BY DEF l
    <2> QED BY <1>1, <2>1, <2>2, <2>3
  <1> QED BY <1>2, <1>3

\* What a run has listed was in its list, or was read just now.
LEMMA Lists ==
  ASSUME OrdersAssumption, Typed, Next, NEW p \in Sync
  PROVE  \/ sync'[p].list \subseteq sync[p].list
         \/ \E from : sync'[p].list = Listed(p, from)
  <1> USE DEF Typed, RunTypes
  <1>1. CASE UNCHANGED sync BY <1>1
  <1>2. CASE StartBatch
    BY <1>2 DEF StartBatch, NoSync, OrdersAssumption
  <1>3. ASSUME NEW q \in Sync, NEW m \in Member, StartMember(q, m)
        PROVE  sync'[p].list \subseteq sync[p].list
    BY <1>3 DEF StartMember, NoSync
  <1>4. ASSUME NEW q \in Sync, sync' = Obtained(q) \/ sync' = [sync EXCEPT ![q] = NoSync]
        PROVE  sync'[p].list \subseteq sync[p].list
    BY <1>4 DEF Obtained, NoSync, RunRecord
  <1>5. ASSUME NEW q \in Sync, LockToken(q) \/ SaveToken(q) \/ Finish(q) \/ Fail(q)
        PROVE  sync'[p].list \subseteq sync[p].list
    <2>1. \/ sync' = Obtained(q) \/ sync' = [sync EXCEPT ![q] = NoSync]
          \/ sync' = [sync EXCEPT ![q].pc = "locked", ![q].refresh = token.refresh]
      BY <1>5 DEF LockToken, SaveToken, Finish, Fail
    <2> QED BY <1>4, <2>1 DEF RunRecord
  <1>6. ASSUME NEW q \in Sync, Renew(q)
        PROVE  sync'[p].list \subseteq sync[p].list
    <2>1. \/ sync' = [sync EXCEPT ![q] = NoSync]
          \/ sync' = [sync EXCEPT ![q].pc = "renewed", ![q].refresh = shopToken']
      BY <1>6 DEF Renew
    <2> QED BY <1>4, <2>1 DEF RunRecord
  <1>7. ASSUME NEW q \in Sync, Fetch(q)
        PROVE  \/ sync'[p].list \subseteq sync[p].list
               \/ \E from : sync'[p].list = Listed(p, from)
    <2> PICK from : Read(q, from)
      BY <1>7 DEF Fetch
    <2> DEFINE l == Listed(q, from)
    <2>1. sync' = [sync EXCEPT ![q].pc = "apply", ![q].cursor = from, ![q].list = l]
      BY DEF Read
    <2> HIDE DEF l
    <2>2. sync'[q].list = l /\ (q # p => sync'[p] = sync[p])
      BY <2>1 DEF RunRecord
    <2> QED BY <2>2 DEF l
  <1>8. ASSUME NEW q \in Sync, Judge(q)
        PROVE  sync'[p].list \subseteq sync[p].list
    BY <1>8, Judges
  <1>9. ASSUME NEW q \in Sync, Post(q)
        PROVE  sync'[p].list \subseteq sync[p].list
    BY <1>9 DEF Post, RunRecord
  <1> QED BY Frame, <1>1, <1>2, <1>3, <1>5, <1>6, <1>7, <1>8, <1>9 DEF Step

\* An order that is taken up for a member counts for the member now.
LEMMA Judged ==
  ASSUME OrdersAssumption, Typed, ListInv, NEW p \in Sync, Judge(p), sync'[p].pc = "post"
  PROVE  \E x \in sync[p].list, m \in Member :
           /\ sync'[p].seen = x /\ sync'[p].to = m
           /\ x.id \in Order /\ order[x.id].status # "none"
           /\ m \in Holder(x.id) /\ Counts(x.id, m)
  <1> PICK x \in sync[p].list :
        \/ sync' = [sync EXCEPT ![p].list = @ \ {x}]
        \/ \E m \in Holder(x.id) :
             /\ Counts(x.id, m)
             /\ sync' = [sync EXCEPT ![p].list = @ \ {x}, ![p].pc = "post", ![p].to = m, ![p].seen = x]
    BY DEF Judge
  <1>1. sync[p].pc = "apply" /\ sync[p] \in RunRecord /\ sync \in [Sync -> RunRecord]
    BY DEF Judge, Typed, RunTypes
  <1>2. x.id \in Order /\ order[x.id].status # "none"
    BY DEF ListInv
  <1>3. ~(sync' = [sync EXCEPT ![p].list = @ \ {x}])
    BY <1>1 DEF RunRecord
  <1>4. PICK m \in Holder(x.id) :
             /\ Counts(x.id, m)
             /\ sync' = [sync EXCEPT ![p].list = @ \ {x}, ![p].pc = "post", ![p].to = m, ![p].seen = x]
    BY <1>3
  <1>5. m \in Member BY DEF Holder
  <1>6. sync'[p].to = m /\ sync'[p].seen = x
    BY <1>1, <1>4 DEF RunRecord
  <1> QED BY <1>2, <1>4, <1>5, <1>6

LEMMA ListStep ==
  ASSUME OrdersAssumption, Typed, ListInv, Next
  PROVE  ListInv'
  <1>1. ASSUME NEW p \in Sync, NEW x \in sync'[p].list
        PROVE  x.id \in Order /\ order'[x.id].status # "none"
    <2>1. CASE x \in sync[p].list
      BY <2>1, OrdersGrow DEF ListInv
    <2>2. ASSUME NEW from, x \in Listed(p, from)
          PROVE  x.id \in Order /\ order'[x.id].status # "none"
      <3>1. x.id \in Order /\ order[x.id].status # "none" BY <2>2 DEF Listed
      <3> QED BY <3>1, OrdersGrow
    <2> QED BY <2>1, <2>2, Lists
  <1>2. ASSUME NEW p \in Sync, sync'[p].pc = "post"
        PROVE  sync'[p].to \in Member /\ sync'[p].seen.id \in Order
    BY <1>2, Posts, Judged DEF ListInv
  <1> QED BY <1>1, <1>2 DEF ListInv

\* An order that has gone to a member had before, or goes to the member now.
LEMMA NewClaim ==
  ASSUME OrdersAssumption, Typed, ListInv, Next,
         NEW o \in Order, NEW m \in Member, Claims(o, m)'
  PROVE  \/ Claims(o, m)
         \/ /\ UNCHANGED <<order, people, ledger>> /\ order[o].status # "none"
            /\ m \in Holder(o) /\ Counts(o, m)
  <1>1. ASSUME NEW r \in ledger', r.order = o, r.member = m, r \notin ledger
        PROVE  Claims(o, m)
    <2> PICK p \in Sync : Post(p)
      BY <1>1, Frame
    <2>1. sync[p].pc = "post" /\ r.member = sync[p].to /\ r.order = sync[p].seen.id
      <3> DEFINE k == sync[p].to
      <3> DEFINE c == sync[p].seen.id
      <3>1. r \in IF sync[p].seen.status = "paid"
                  THEN {Row(k, c, "reward", sync[p].amount)}
                  ELSE {Row(k, c, "clawback", Taken(p, s)) : s \in Rows(k, c, "reward")}
        BY <1>1 DEF Post
      <3>2. r.member = k /\ r.order = c
        BY <3>1 DEF Row
      <3> QED BY <3>2 DEF Post
    <2> QED BY <1>1, <2>1 DEF Claims
  <1>2. ASSUME NEW p \in Sync, sync'[p].pc = "post", sync'[p].to = m, sync'[p].seen.id = o,
               ~Claims(o, m)
        PROVE  /\ UNCHANGED <<order, people, ledger>> /\ order[o].status # "none"
               /\ m \in Holder(o) /\ Counts(o, m)
    <2>1. Judge(p) /\ UNCHANGED <<order, people, ledger>>
      BY <1>2, Posts DEF Claims
    <2>2. order[o].status # "none" /\ m \in Holder(o) /\ Counts(o, m)
      BY <1>2, <2>1, Judged
    <2> QED BY <2>1, <2>2
  <1> QED BY <1>1, <1>2 DEF Claims

LEMMA ClaimStep ==
  ASSUME OrdersAssumption, Typed, LinkInv, ListInv, ClaimInv, Next
  PROVE  ClaimInv'
  <1>1. SUFFICES ASSUME NEW o \in Order, NEW m \in Member, Claims(o, m)'
                 PROVE  /\ order'[o].status # "none" /\ order'[o].by # None /\ cutoff'[m].at # 0
                        /\ link'[m] = order'[o].by \/ m \in withdrawn'
                        /\ \A n \in Member : n # m =>
                             /\ ~Claims(o, n)'
                             /\ link'[n] = order'[o].by => order'[o].at < cutoff'[n].at
    BY DEF ClaimInv
  <1>2. /\ \A n \in Member : cutoff[n].at \in Nat /\ cutoff[n].at <= clock
        /\ clock \in Nat /\ order[o].at \in Nat /\ order[o].at <= clock
    BY DEF Typed, ShopTypes, PeopleTypes, OrderRecord, Moment
  <1>3. ASSUME NEW n \in Member, Claims(o, n)'
        PROVE  \/ Claims(o, n)
               \/ /\ n \in Holder(o) /\ Counts(o, n)
                  /\ order[o].status # "none"
    BY <1>3, NewClaim
  <1>4. /\ order[o].status # "none" /\ order[o].by # None /\ cutoff[m].at # 0
        /\ link[m] = order[o].by \/ m \in withdrawn
        /\ \A n \in Member : n # m /\ link[n] = order[o].by => order[o].at < cutoff[n].at
    <2>1. CASE Claims(o, m)
      BY <2>1 DEF ClaimInv
    <2>2. CASE m \in Holder(o) /\ order[o].status # "none"
      BY <2>2 DEF Holder, LinkInv
    <2> QED BY <1>1, <1>3, <2>1, <2>2
  <1>5. ASSUME NEW n \in Member, n # m, Claims(o, n)'
        PROVE  FALSE
    <2>1. CASE Claims(o, m) /\ Claims(o, n)
      BY <1>5, <2>1 DEF ClaimInv
    <2>2. ASSUME NEW j \in Member, NEW k \in Member, j # k, Claims(o, j),
                 k \in Holder(o), Counts(o, k)
          PROVE  FALSE
      <3>1. link[k] = order[o].by BY <2>2 DEF Holder
      <3>2. order[o].at < cutoff[k].at BY <2>2, <3>1 DEF ClaimInv
      <3>3. order[o].at >= cutoff[k].at BY <2>2 DEF Counts
      <3> QED BY <1>2, <3>2, <3>3
    <2>3. CASE m \in Holder(o) /\ n \in Holder(o)
      BY <1>5, <2>3 DEF Holder, LinkInv
    <2> QED BY <1>1, <1>3, <1>5, <2>1, <2>2, <2>3
  <1>6. order'[o].status # "none" /\ order'[o].by = order[o].by /\ order'[o].at = order[o].at
    BY <1>4, OrdersGrow
  <1>7. CASE UNCHANGED people
    BY <1>4, <1>5, <1>6, <1>7 DEF people
  <1>8. ASSUME NEW k \in Member, Withdraw(k)
        PROVE  /\ cutoff'[m].at # 0
               /\ link'[m] = order'[o].by \/ m \in withdrawn'
               /\ \A n \in Member : n # m /\ link'[n] = order'[o].by => order'[o].at < cutoff'[n].at
    <2>1. /\ link' = [link EXCEPT ![k] = None] /\ withdrawn' = withdrawn \cup {k}
          /\ cutoff' = cutoff
      BY <1>8 DEF Withdraw
    <2>2. \A n \in Member : link'[n] = IF n = k THEN None ELSE link[n]
      BY <2>1 DEF Typed, PeopleTypes
    <2> QED BY <1>4, <1>6, <2>1, <2>2
  <1>9. ASSUME NEW k \in Member, NEW s \in Shop, Link(k, s)
        PROVE  /\ cutoff'[m].at # 0
               /\ link'[m] = order'[o].by \/ m \in withdrawn'
               /\ \A n \in Member : n # m /\ link'[n] = order'[o].by => order'[o].at < cutoff'[n].at
    <2>1. /\ cutoff[k] = Never /\ cutoff[k].at = 0 /\ link[k] = None /\ k \notin withdrawn
      BY <1>9 DEF Link, LinkInv, Never
    <2>2. /\ link' = [link EXCEPT ![k] = s] /\ withdrawn' = withdrawn
          /\ cutoff' = [cutoff EXCEPT ![k] = [day |-> day, at |-> clock + 1]]
      BY <1>9, <2>1 DEF Link
    <2>3. /\ \A n \in Member : link'[n] = IF n = k THEN s ELSE link[n]
          /\ \A n \in Member \ {k} : cutoff'[n] = cutoff[n]
          /\ cutoff'[k].at = clock + 1
      BY <2>2 DEF Typed, PeopleTypes
    <2>4. k # m
      BY <1>4, <2>1
    <2> QED BY <1>2, <1>4, <1>6, <2>2, <2>3, <2>4
  <1> QED BY Frame, <1>5, <1>6, <1>4, <1>7, <1>8, <1>9

LEMMA RowStep ==
  ASSUME OrdersAssumption, Typed, RowInv, Next
  PROVE  RowInv'
  <1>1. CASE UNCHANGED ledger
    BY <1>1 DEF RowInv, ClawbackMatches
  <1>2. ASSUME NEW p \in Sync, Post(p)
        PROVE  RowInv'
    <2> DEFINE m == sync[p].to
    <2> DEFINE o == sync[p].seen.id
    <2> DEFINE n == sync[p].amount
    <2> DEFINE Rewards == Rows(m, o, "reward")
    <2>1. PICK new : /\ ledger' = ledger \cup {r \in new : Rows(m, o, r.kind) = {}}
                     /\ \/ new = {Row(m, o, "reward", n)}
                        \/ new = {Row(m, o, "clawback", Taken(p, r)) : r \in Rewards}
      BY <1>2 DEF Post
    <2> HIDE DEF m, o, n
    <2>2. \A r \in Rewards : r \in ledger /\ r.member = m /\ r.order = o /\ r.kind = "reward"
      BY DEF Rows
    <2>3. \A r, s \in Rewards : r = s
      BY <2>2 DEF RowInv
    <2> HIDE DEF Rewards
    <2>4. \A r, s \in new : r = s
      BY <2>1, <2>3
    <2>5. \A r \in new : r.member = m /\ r.order = o
      BY <2>1 DEF Row
    <2>6. \A r \in new : Rows(m, o, r.kind) = {} =>
             ~\E s \in ledger : s.member = r.member /\ s.order = r.order /\ s.kind = r.kind
      BY <2>5 DEF Rows
    <2>7. \A r, s \in ledger' :
             (r.member = s.member /\ r.order = s.order /\ r.kind = s.kind) => r = s
      BY <2>1, <2>4, <2>6 DEF RowInv
    <2>8. ASSUME NEW c \in new, c.kind = "clawback"
          PROVE  \E r \in ledger : /\ r.kind = "reward" /\ r.member = c.member
                                   /\ r.order = c.order /\ c.amount = -r.amount
      <3>1. PICK r \in Rewards : c = Row(m, o, "clawback", Taken(p, r))
        BY <2>1, <2>8 DEF Row
      <3> QED BY <2>2, <3>1 DEF Row, Taken
    <2>9. ledger \subseteq ledger' BY <2>1
    <2>10. ClawbackMatches'
      BY <2>1, <2>8, <2>9 DEF RowInv, ClawbackMatches
    <2> QED BY <2>7, <2>10 DEF RowInv
  <1> QED BY Frame, <1>1, <1>2
-----------------------------------------------------------------------------
\* A run enters the row when it is free, and leaves it with its answer.
LEMMA InRowStep ==
  ASSUME OrdersAssumption, Typed, Next, NEW p \in Sync, InRow(p)'
  PROVE  \/ InRow(p) /\ sync'[p] = sync[p]
         \/ LockToken(p) /\ sync'[p].pc = "locked" /\ sync'[p].refresh = token.refresh
         \/ /\ Renew(p) /\ sync[p].pc = "locked" /\ sync[p].refresh = shopToken
            /\ sync'[p].pc = "renewed" /\ sync'[p].refresh = shopToken' /\ shopToken' = shopToken + 1
  <1> USE DEF Typed, RunTypes, InRow
  <1>1. CASE UNCHANGED sync BY <1>1
  <1>2. CASE StartBatch
    BY <1>2 DEF StartBatch, NoSync, OrdersAssumption
  <1>3. ASSUME NEW q \in Sync, NEW m \in Member, StartMember(q, m)
        PROVE  InRow(p) /\ sync'[p] = sync[p]
    BY <1>3 DEF StartMember, NoSync
  <1>4. ASSUME NEW q \in Sync, sync' = Obtained(q) \/ sync' = [sync EXCEPT ![q] = NoSync]
        PROVE  InRow(p) /\ sync'[p] = sync[p]
    BY <1>4 DEF Obtained, NoSync, RunRecord
  <1>5. ASSUME NEW q \in Sync, SaveToken(q) \/ Finish(q) \/ Fail(q)
        PROVE  InRow(p) /\ sync'[p] = sync[p]
    BY <1>4, <1>5 DEF SaveToken, Finish, Fail
  <1>6. ASSUME NEW q \in Sync, LockToken(q), ~(InRow(p) /\ sync'[p] = sync[p])
        PROVE  LockToken(p) /\ sync'[p].pc = "locked" /\ sync'[p].refresh = token.refresh
    <2>1. sync' = [sync EXCEPT ![q].pc = "locked", ![q].refresh = token.refresh]
      BY <1>4, <1>6 DEF LockToken
    <2>2. q = p BY <1>6, <2>1
    <2> QED BY <1>6, <2>1, <2>2 DEF RunRecord
  <1>7. ASSUME NEW q \in Sync, Renew(q), ~(InRow(p) /\ sync'[p] = sync[p])
        PROVE  /\ Renew(p) /\ sync[p].pc = "locked" /\ sync[p].refresh = shopToken
               /\ sync'[p].pc = "renewed" /\ sync'[p].refresh = shopToken'
               /\ shopToken' = shopToken + 1
    <2>1. /\ sync[q].pc = "locked" /\ sync[q].refresh = shopToken /\ shopToken' = shopToken + 1
          /\ sync' = [sync EXCEPT ![q].pc = "renewed", ![q].refresh = shopToken']
      BY <1>4, <1>7 DEF Renew
    <2>2. q = p BY <1>7, <2>1
    <2> QED BY <1>7, <2>1, <2>2 DEF RunRecord
  <1>8. ASSUME NEW q \in Sync, Fetch(q)
        PROVE  InRow(p) /\ sync'[p] = sync[p]
    <2> PICK from : Read(q, from) BY <1>8 DEF Fetch
    <2> DEFINE l == Listed(q, from)
    <2>1. sync' = [sync EXCEPT ![q].pc = "apply", ![q].cursor = from, ![q].list = l]
      BY DEF Read
    <2> HIDE DEF l
    <2>2. sync'[q].pc = "apply" /\ (q # p => sync'[p] = sync[p])
      BY <2>1 DEF RunRecord
    <2> QED BY <2>2
  <1>9. ASSUME NEW q \in Sync, Judge(q)
        PROVE  InRow(p) /\ sync'[p] = sync[p]
    BY <1>9, Judges
  <1>10. ASSUME NEW q \in Sync, Post(q)
        PROVE  InRow(p) /\ sync'[p] = sync[p]
    <2>1. sync'[q].pc = "apply" /\ (q # p => sync'[p] = sync[p])
      BY <1>10 DEF Post, RunRecord
    <2> QED BY <2>1
  <1> QED BY Frame, <1>1, <1>2, <1>3, <1>5, <1>6, <1>7, <1>8, <1>9, <1>10 DEF Step

\* It stays in the row but for the steps that leave it.
LEMMA InRowStays ==
  ASSUME OrdersAssumption, Typed, Next, NEW p \in Sync, InRow(p),
         ~Renew(p), ~SaveToken(p), ~Fail(p)
  PROVE  sync'[p] = sync[p]
  <1> USE DEF Typed, RunTypes, InRow
  <1>1. CASE UNCHANGED sync BY <1>1
  <1>2. CASE StartBatch
    BY <1>2 DEF StartBatch, OrdersAssumption
  <1>3. ASSUME NEW q \in Sync, NEW m \in Member, StartMember(q, m)
        PROVE  sync'[p] = sync[p]
    BY <1>3 DEF StartMember
  <1>4. ASSUME NEW q \in Sync, LockToken(q) \/ Finish(q)
        PROVE  sync'[p] = sync[p]
    BY <1>4 DEF LockToken, Obtained, Finish
  <1>5. ASSUME NEW q \in Sync, Renew(q) \/ SaveToken(q) \/ Fail(q)
        PROVE  sync'[p] = sync[p]
    BY <1>5 DEF Renew, SaveToken, Obtained, Fail
  <1>6. ASSUME NEW q \in Sync, Fetch(q) \/ Post(q)
        PROVE  sync'[p] = sync[p]
    BY <1>6 DEF Fetch, Read, Post
  <1>7. ASSUME NEW q \in Sync, Judge(q)
        PROVE  sync'[p] = sync[p]
    BY <1>7, Judges DEF Judge
  <1> QED BY Frame, <1>1, <1>2, <1>3, <1>4, <1>5, <1>6, <1>7 DEF Step

LEMMA TokenStep ==
  ASSUME OrdersAssumption, Typed, TokenInv, Next
  PROVE  TokenInv'
  <1>1. /\ shopToken \in Nat /\ token.refresh \in Nat /\ issued.refresh \in Nat
        /\ \A p \in Sync : sync[p].refresh \in Nat
    BY Records DEF Typed, TokenTypes, RunTypes
  <1>2. NoSync.pc = "idle" /\ NoToken.refresh = 0
    BY DEF NoSync, NoToken
  \* No run renews, stores, or loses a token.
  <1>3. ASSUME UNCHANGED <<shopToken, issued, spoiled>>, token'.refresh = token.refresh,
               \A p \in Sync : sync'[p].pc = "renewed" <=> sync[p].pc = "renewed",
               \A p \in Sync : InRow(p)' =>
                  \/ InRow(p) /\ sync'[p] = sync[p]
                  \/ /\ \A q \in Sync : ~InRow(q) /\ (q # p => ~InRow(q)')
                     /\ sync'[p].pc = "locked" /\ sync'[p].refresh = token.refresh
        PROVE  TokenInv'
    BY <1>3 DEF TokenInv, InRow, Good
  <1>4. ASSUME \A p \in Sync : ~Renew(p) /\ ~SaveToken(p) /\ ~Fail(p),
               ~Exchange, ~StoreToken, ~ScriptDies
        PROVE  TokenInv'
    <2>1. UNCHANGED <<shopToken, issued, spoiled>> /\ token'.refresh = token.refresh
      BY <1>4, Frame DEF oauth, AgeToken, Finish, Typed, TokenTypes
    <2>2. \A p \in Sync : InRow(p) => sync'[p] = sync[p]
      BY <1>4, InRowStays
    <2>3. \A p \in Sync : InRow(p)' =>
             \/ InRow(p) /\ sync'[p] = sync[p]
             \/ LockToken(p) /\ sync'[p].pc = "locked" /\ sync'[p].refresh = token.refresh
      BY <1>4, InRowStep
    <2>4. \A p, q \in Sync : LockToken(p) =>
             ~InRow(q) /\ (q # p => sync'[q] = sync[q])
      BY DEF LockToken, RowFree, InRow, Obtained, Typed, RunTypes
    <2>5. \A p \in Sync : sync'[p].pc = "renewed" <=> sync[p].pc = "renewed"
      BY <2>2, <2>3 DEF InRow
    <2> QED BY <1>3, <2>1, <2>3, <2>4, <2>5 DEF InRow
  <1>5. ASSUME NEW p \in Sync, NEW r, r.pc \notin {"locked", "renewed"},
               InRow(p), sync' = [sync EXCEPT ![p] = r]
        PROVE  \A q \in Sync : ~InRow(q)'
    <2>1. \A q \in Sync \ {p} : ~InRow(q) /\ sync'[q] = sync[q]
      BY <1>5 DEF TokenInv, Typed, RunTypes
    <2>2. sync'[p] = r
      BY <1>5 DEF Typed, RunTypes
    <2> QED BY <1>5, <2>1, <2>2 DEF InRow
  <1>6. ASSUME NEW p \in Sync, Renew(p)
        PROVE  TokenInv'
    <2>1. InRow(p) /\ sync[p].pc = "locked" BY <1>6 DEF Renew, InRow
    <2>2. UNCHANGED <<token, issued, spoiled>> BY <1>6 DEF Renew
    <2>3. CASE sync[p].refresh # shopToken
      <3>1. \A q \in Sync : ~InRow(q)' BY <1>2, <1>5, <1>6, <2>1, <2>3 DEF Renew
      <3>2. shopToken' = shopToken BY <1>6, <2>3 DEF Renew
      <3>3. \A q \in Sync : sync[q].pc # "renewed" BY <2>1 DEF TokenInv, InRow
      <3> QED BY <2>2, <3>1, <3>2, <3>3 DEF TokenInv, InRow, Good
    <2>4. CASE sync[p].refresh = shopToken
      <3>1. /\ shopToken' = shopToken + 1
            /\ sync' = [sync EXCEPT ![p].pc = "renewed", ![p].refresh = shopToken']
        BY <1>6, <2>4 DEF Renew
      <3>2. issued = NoToken BY <2>1, <2>4 DEF TokenInv
      <3>3. /\ \A q \in Sync \ {p} : ~InRow(q) /\ sync'[q] = sync[q]
            /\ sync'[p].pc = "renewed" /\ sync'[p].refresh = shopToken'
        BY <2>1, <3>1 DEF TokenInv, Typed, RunTypes, RunRecord
      <3>4. \A q, k \in Sync : InRow(q)' /\ InRow(k)' => q = k
        BY <3>3 DEF InRow
      <3>5. \A q \in Sync : sync'[q].pc # "locked" /\ (sync'[q].pc = "renewed" => q = p)
        BY <3>3 DEF InRow
      <3>6. issued' = NoToken BY <2>2, <3>2
      <3>7. token'.refresh \in 1 .. shopToken' /\ sync'[p].refresh \in 1 .. shopToken'
        BY <1>1, <2>2, <3>1, <3>3 DEF TokenInv
      <3> QED BY <3>3, <3>4, <3>5, <3>6, <3>7 DEF TokenInv, Good
    <2> QED BY <2>3, <2>4
  <1>7. ASSUME NEW p \in Sync, SaveToken(p)
        PROVE  TokenInv'
    <2>1. InRow(p) /\ sync[p].pc = "renewed" BY <1>7 DEF SaveToken, InRow
    <2>2. token'.refresh = sync[p].refresh /\ UNCHANGED <<shopToken, issued, spoiled>>
      BY <1>7 DEF SaveToken, Typed, TokenTypes
    <2> DEFINE r == [sync[p] EXCEPT !.pc = "fetch", !.refresh = 0, !.amount = price]
    <2>3. sync' = [sync EXCEPT ![p] = r] BY <1>7 DEF SaveToken, Obtained
    <2>4. r.pc = "fetch" BY DEF RunRecord, Typed, RunTypes
    <2> HIDE DEF r
    <2>5. \A q \in Sync : ~InRow(q)' BY <1>5, <2>1, <2>3, <2>4
    <2> QED BY <1>1, <2>1, <2>2, <2>5 DEF TokenInv, InRow, Good
  <1>8. ASSUME NEW p \in Sync, Fail(p)
        PROVE  TokenInv'
    <2>1. UNCHANGED <<token, issued>> /\ sync' = [sync EXCEPT ![p] = NoSync]
      BY <1>8 DEF Fail
    <2>2. /\ \A q \in Sync \ {p} : sync'[q] = sync[q]
          /\ sync'[p].pc = "idle"
      BY <1>2, <2>1 DEF Typed, RunTypes
    <2>3. CASE sync[p].pc # "renewed" /\ UNCHANGED <<shopToken, spoiled>>
      BY <2>1, <2>2, <2>3 DEF TokenInv, InRow, Good
    <2>4. CASE spoiled' = TRUE /\ UNCHANGED shopToken
      BY <2>1, <2>2, <2>4 DEF TokenInv, InRow, Good
    <2>5. CASE /\ sync[p].pc = "locked" /\ sync[p].refresh = shopToken
               /\ spoiled' = TRUE /\ shopToken' = shopToken + 1
      <3>1. issued = NoToken BY <2>5 DEF TokenInv
      <3>2. \A q \in Sync : ~InRow(q)' BY <2>2, <2>5 DEF TokenInv, InRow
      <3> QED BY <1>1, <2>1, <2>5, <3>1, <3>2 DEF TokenInv, InRow, Good
    <2> QED BY <1>8, <2>3, <2>4, <2>5 DEF Fail
  <1>9. CASE Exchange
    <2>1. /\ shopToken' = shopToken + 1 /\ issued'.refresh = shopToken' /\ issued = NoToken
          /\ UNCHANGED <<sync, token, spoiled>>
      BY <1>9 DEF Exchange
    <2>2. issued' # NoToken BY <1>1, <1>2, <2>1
    <2> QED BY <1>1, <2>1, <2>2 DEF TokenInv, InRow, Good
  <1>10. CASE StoreToken
    <2>1. /\ token'.refresh = issued.refresh /\ issued # NoToken /\ issued' = NoToken
          /\ UNCHANGED <<sync, shopToken>> /\ \A p \in Sync : ~InRow(p)
      BY <1>10 DEF StoreToken, RowFree, InRow
    <2> QED BY <1>1, <2>1 DEF TokenInv, InRow, Good
  <1>11. CASE ScriptDies
    <2>1. UNCHANGED <<sync, shopToken, token>> /\ issued' = NoToken /\ spoiled' = TRUE
      BY <1>11 DEF ScriptDies
    <2> QED BY <2>1 DEF TokenInv, InRow, Good
  <1> QED BY <1>4, <1>6, <1>7, <1>8, <1>9, <1>10, <1>11
-----------------------------------------------------------------------------
LEMMA Starts ==
  ASSUME OrdersAssumption, Init
  PROVE  IInv
  <1> USE DEF Init, OrdersAssumption
  <1>1. Typed
    <2>1. Unplaced \in OrderRecord BY DEF Unplaced, OrderRecord, Status
    <2>2. ShopTypes BY <2>1 DEF ShopTypes, Unplaced
    <2>3. Never \in Moment /\ Never.day = 0 /\ Never.at = 0 BY DEF Never, Moment
    <2>4. PeopleTypes BY <2>3 DEF PeopleTypes
    <2>5. BookTypes BY DEF BookTypes
    <2>6. TokenTypes
      <3>1. token \in [refresh : Nat, due : BOOLEAN, synced : Nat] /\ token.synced = 0
        OBVIOUS
      <3>2. issued \in [refresh : Nat, synced : Nat] BY DEF NoToken
      <3>3. shopToken \in Nat \ {0} OBVIOUS
      <3>4. spoiled \in BOOLEAN OBVIOUS
      <3> QED BY <3>1, <3>2, <3>3, <3>4 DEF TokenTypes
    <2>7. NoSync.now = 0 BY DEF NoSync
    <2>8. RunTypes BY <2>7, Records DEF RunTypes
    <2> QED BY <2>2, <2>4, <2>5, <2>6, <2>8 DEF Typed
  <1>2. \A p \in Sync : sync[p].pc = "idle" /\ sync[p].list = {}
    BY DEF NoSync
  <1>3. TokenInv BY <1>2 DEF TokenInv, InRow, Good
  <1>4. LinkInv BY DEF LinkInv
  <1>5. ListInv BY <1>2 DEF ListInv
  <1>6. ClaimInv BY <1>2 DEF ClaimInv, Claims
  <1>7. RowInv BY DEF RowInv, ClawbackMatches
  <1> QED BY <1>1, <1>3, <1>4, <1>5, <1>6, <1>7 DEF IInv

\* The inductive invariant.
LEMMA Inductive == Spec => []IInv
  <1>1. Init => IInv BY Starts, OrdersAssumption
  <1>2. IInv /\ [Next]_vars => IInv'
    <2>1. CASE IInv /\ Next
      <3>1. Typed' BY <2>1, OrdersAssumption, ShopStep, PeopleStep, BookStep, TokenTypesStep,
                      RunStep DEF IInv, Typed
      <3> QED BY <2>1, <3>1, OrdersAssumption, TokenStep, LinkStep, ListStep, ClaimStep,
                 RowStep DEF IInv
    <2>2. CASE IInv /\ UNCHANGED vars
      <3>1. Typed' BY <2>2 DEF IInv, Typed, vars, time, people, oauth, ShopTypes, PeopleTypes,
                               BookTypes, TokenTypes, RunTypes
      <3>2. TokenInv' BY <2>2 DEF IInv, TokenInv, InRow, Good, vars, oauth
      <3>3. LinkInv' BY <2>2 DEF IInv, LinkInv, vars, people
      <3>4. ListInv' BY <2>2 DEF IInv, ListInv, vars
      <3>5. ClaimInv' BY <2>2 DEF IInv, ClaimInv, Claims, vars, people
      <3>6. RowInv' BY <2>2 DEF IInv, RowInv, ClawbackMatches, vars
      <3> QED BY <3>1, <3>2, <3>3, <3>4, <3>5, <3>6 DEF IInv
    <2> QED BY <2>1, <2>2
  <1> QED BY <1>1, <1>2, PTL DEF Spec

LEMMA UpTo == ASSUME NEW n \in Nat, NEW x \in Nat, x <= n PROVE x \in 0 .. n
  OBVIOUS

\* Types, and only members who were linked at some time have rewards.
THEOREM Types == Spec => []TypeOK
  <1>1. IInv => TypeOK
    <2> SUFFICES ASSUME IInv PROVE TypeOK OBVIOUS
    <2> USE DEF IInv, Typed
    <2>1. day \in 0 .. MaxDay /\ clock \in Nat /\ day \in Nat
      BY OrdersAssumption DEF ShopTypes
    <2>2. \A o \in Order : /\ order[o].status \in Status
                           /\ order[o].day \in 0 .. day /\ order[o].at \in 0 .. clock
      BY <2>1 DEF ShopTypes, OrderRecord
    <2>3. \A m \in Member : /\ link[m] \in Shop \cup {None}
                            /\ cutoff[m].day \in 0 .. day /\ cutoff[m].at \in 0 .. clock
                            /\ link[m] # None => m \notin withdrawn /\ cutoff[m] # Never
      <3>1. \A m \in Member : cutoff[m].day \in Nat /\ cutoff[m].at \in Nat
        BY DEF PeopleTypes, Moment
      <3>2. \A m \in Member : link[m] # None => m \notin withdrawn /\ cutoff[m] # Never
        BY DEF LinkInv, Never
      <3>3. \A m \in Member : cutoff[m].day \in 0 .. day /\ cutoff[m].at \in 0 .. clock
        <4>1. \A m \in Member : cutoff[m].day <= day /\ cutoff[m].at <= clock
          BY DEF PeopleTypes
        <4> QED BY <2>1, <3>1, <4>1, UpTo, Zenon
      <3>4. \A m \in Member : link[m] \in Shop \cup {None}
        BY DEF PeopleTypes
      <3> QED BY <3>2, <3>3, <3>4
    <2>4. \A r \in ledger : r.member \in Member /\ r.order \in Order
      BY DEF BookTypes
    <2>5. \A r \in ledger : cutoff[r.member] # Never
      BY <2>4 DEF ClaimInv, Claims, Never
    <2>6. price \in Price /\ token.synced \in 0 .. day /\ token.refresh \in 1 .. shopToken
      BY <2>1 DEF BookTypes, TokenTypes, TokenInv
    <2>7. \A p \in Sync : /\ sync[p].pc \in Pc
                          /\ sync[p].pc = "post" => sync[p].to \in Member /\ sync[p].seen.id \in Order
      BY DEF RunTypes, RunRecord, ListInv
    <2>8. acts \in 0 .. MaxAct /\ faults \in 0 .. MaxFault
      BY DEF BookTypes
    <2> QED BY <2>1, <2>2, <2>3, <2>4, <2>5, <2>6, <2>7, <2>8 DEF TypeOK, Status, Pc
  <1> QED BY <1>1, Inductive, PTL

\* Whoever is linked to the shop account and when, an order pays one member.
THEOREM PaysOne == Spec => []OrderPaysOne
  <1>1. IInv => OrderPaysOne
    <2> SUFFICES ASSUME IInv, NEW r \in ledger, NEW s \in ledger,
                        r.order = s.order, r.kind = "reward", s.kind = "reward"
                 PROVE  r = s
      BY DEF OrderPaysOne
    <2>1. r.member \in Member /\ s.member \in Member /\ r.order \in Order
      BY DEF IInv, Typed, BookTypes
    <2>2. Claims(r.order, r.member) /\ Claims(r.order, s.member) BY DEF Claims
    <2>3. r.member = s.member BY <2>1, <2>2 DEF IInv, ClaimInv
    <2> QED BY <2>3 DEF IInv, RowInv
  <1> QED BY <1>1, Inductive, PTL

\* A clawback takes from the member who was paid what was paid.
THEOREM TakesWhatWasPaid == Spec => []ClawbackMatches
  <1>1. IInv => ClawbackMatches BY DEF IInv, RowInv
  <1> QED BY <1>1, Inductive, PTL

\* The lock of the row keeps a refresh token from being spent twice.
THEOREM SpentOnce == Spec => []TokenIsGood
  <1>1. IInv => TokenIsGood
    BY DEF IInv, TokenInv, InRow, Good, TokenIsGood
  <1> QED BY <1>1, Inductive, PTL
=============================================================================
