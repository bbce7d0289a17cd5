------------------------------- MODULE Orders -------------------------------
(***************************************************************************)
(* The rewards for orders in the shop.  A member who is linked to a shop   *)
(* account is paid for each order placed since, once it is paid for, and   *)
(* pays back when it is cancelled.  The program learns of orders only by   *)
(* asking the shop: a batch that runs again and again, and a member's own  *)
(* run on a visit or on an event of the shop, which may come late, twice   *)
(* or never.  All of them share one OAuth token, whose refresh token the   *)
(* shop accepts once.                                                      *)
(***************************************************************************)
EXTENDS Integers

CONSTANTS Member, Shop, Order,
          Sync, Cron,\* runs, and the one that is the batch
          Lookback,  \* days before the watermark that the batch reads again
          Chunk,     \* days the shop lists at once
          Price,     \* what an admin may set a reward to,
          Default,   \* and what it is before
          None,
          MaxDay,    \* bound: days
          MaxAct,    \* bound: prices set, tokens that age or are issued by hand
          MaxFault   \* bound: runs and calls that fail

ASSUME OrdersAssumption ==
  /\ Cron \in Sync /\ None \notin Member \cup Shop \cup Order
  /\ Price \subseteq Nat /\ Default \in Price
  /\ Lookback \in Nat \ {0} /\ Chunk \in Nat \ {0}
  /\ MaxDay \in Nat /\ MaxAct \in Nat /\ MaxFault \in Nat

VARIABLES day,       \* the date
          clock,     \* orders placed and accounts linked so far: tells which was first
          order,     \* the shop: order -> [status, by, broken, day, at, timely]
          link,      \* member -> the shop account
          cutoff,    \* member -> when it was linked [day, at], at 0 when never
          withdrawn,
          ledger,    \* rewards and clawbacks [member, order, kind, amount]
          price,     \* app_setting order_reward_amount
          token,     \* the row: [refresh, due, synced]
          shopToken, \* the refresh token the shop accepts
          issued,    \* what the operator was given and has not stored
          spoiled,   \* the shop's newest token was lost on its way
          sync,      \* run -> where it stands
          acts, faults

time == <<day, clock>>
people == <<link, cutoff, withdrawn>>
oauth == <<token, shopToken, issued, spoiled>>
vars == <<time, order, people, ledger, price, oauth, sync, acts, faults>>

Unseen == [id |-> None, status |-> "none"]
NoSync == [pc |-> "idle", shop |-> None, now |-> 0, cursor |-> 0, refresh |-> 0, amount |-> 0,
           list |-> {}, to |-> None, seen |-> Unseen]
NoToken == [refresh |-> 0, synced |-> 0]
Never == [day |-> 0, at |-> 0]
Unplaced == [status |-> "none", by |-> None, broken |-> FALSE, day |-> 0, at |-> 0, timely |-> FALSE]

\* The batch has run before; days count from its watermark.
Init ==
  /\ day = 0 /\ clock = 0
  /\ order = [o \in Order |-> Unplaced]
  /\ link = [m \in Member |-> None] /\ cutoff = [m \in Member |-> Never] /\ withdrawn = {}
  /\ ledger = {} /\ price = Default
  /\ token = [refresh |-> 1, due |-> FALSE, synced |-> 0] /\ shopToken = 1
  /\ issued = NoToken /\ spoiled = FALSE
  /\ sync = [p \in Sync |-> NoSync]
  /\ acts = 0 /\ faults = 0

Act == acts < MaxAct /\ acts' = acts + 1
Fault == faults < MaxFault /\ faults' = faults + 1
-----------------------------------------------------------------------------
(***************************************************************************)
(* The shop, its customers, and the members.                               *)
(***************************************************************************)
\* A run ends on the day it began or on the next.
Dawn ==
  /\ day < MaxDay /\ day' = day + 1
  /\ \A p \in Sync : sync[p].pc # "idle" => sync[p].now = day
  /\ UNCHANGED <<clock, order, people, ledger, price, oauth, sync, acts, faults>>

\* By a shop account, or by a visitor, who has none.  A broken order has a
\* field that the program cannot read.
Place(o) ==
  /\ order[o].status = "none"
  /\ \E who \in Shop \cup {None}, broken \in BOOLEAN :
       order' = [order EXCEPT ![o] = [status |-> "placed", by |-> who, broken |-> broken,
                                      day |-> day, at |-> clock + 1, timely |-> FALSE]]
  /\ clock' = clock + 1
  /\ UNCHANGED <<day, people, ledger, price, oauth, sync, acts, faults>>

Change(o, status) ==
  /\ order' = [order EXCEPT ![o].status = status, ![o].timely = day - order[o].day < Lookback]
  /\ UNCHANGED <<time, people, ledger, price, oauth, sync, acts, faults>>

Pay(o) == order[o].status = "placed" /\ Change(o, "paid")
CancelOrder(o) == order[o].status \in {"placed", "paid"} /\ Change(o, "cancelled")

\* ShopLink has the steps of it; the shop account is nobody else's.
Link(m, s) ==
  /\ m \notin withdrawn /\ link[m] = None /\ \A n \in Member : link[n] # s
  /\ link' = [link EXCEPT ![m] = s]
  /\ cutoff' = [cutoff EXCEPT ![m] = IF @ = Never THEN [day |-> day, at |-> clock + 1] ELSE @]
  /\ clock' = clock + 1
  /\ UNCHANGED <<day, order, withdrawn, ledger, price, oauth, sync, acts, faults>>

\* Of a member who is linked; the others have no part in this.
Withdraw(m) ==
  /\ link[m] # None /\ withdrawn' = withdrawn \cup {m}
  /\ link' = [link EXCEPT ![m] = None]
  /\ UNCHANGED <<time, order, cutoff, ledger, price, oauth, sync, acts, faults>>

SetPrice ==
  /\ Act /\ \E n \in Price \ {price} : price' = n
  /\ UNCHANGED <<time, order, people, ledger, oauth, sync, faults>>
-----------------------------------------------------------------------------
(***************************************************************************)
(* A run begins.                                                           *)
(***************************************************************************)
Later(x, y) == IF x < y THEN y ELSE x
Earlier(x, y) == IF x < y THEN x ELSE y

\* The batch reads the days since its last success.
SinceLast(first) == Later(token.synced, first)
\* The batch reads the days before its last success, and none before the
\* first link.
Since(first) == Later(token.synced - Lookback, first)

StartBatch ==
  /\ sync[Cron].pc = "idle"
  /\ \E first \in Member \ withdrawn :
       /\ cutoff[first] # Never
       /\ \A m \in Member \ withdrawn : cutoff[m] # Never => cutoff[first].at <= cutoff[m].at
       /\ sync' = [sync EXCEPT ![Cron] = [NoSync EXCEPT !.pc = "token", !.now = day,
                                                        !.cursor = Since(cutoff[first].day)]]
  /\ UNCHANGED <<time, order, people, ledger, price, oauth, acts, faults>>

\* A visit of the member, or an event of one of the account's orders.  The
\* minute that visits wait for one another holds no event back.
StartMember(p, m) ==
  /\ p # Cron /\ sync[p].pc = "idle" /\ link[m] # None
  /\ sync' = [sync EXCEPT ![p] = [NoSync EXCEPT !.pc = "token", !.now = day, !.shop = link[m],
                                                !.cursor = cutoff[m].day]]
  /\ UNCHANGED <<time, order, people, ledger, price, oauth, acts, faults>>
-----------------------------------------------------------------------------
(***************************************************************************)
(* The token.                                                              *)
(***************************************************************************)
\* The row is read without FOR UPDATE.
RowFreeAlways == TRUE
RowFree == \A p \in Sync : sync[p].pc \notin {"locked", "renewed"}

\* With the token in hand, a run reads what a reward is today.
Obtained(p) == [sync EXCEPT ![p].pc = "fetch", ![p].refresh = 0, ![p].amount = price]

\* get_access_token: the row is locked while its token is renewed.
LockToken(p) ==
  /\ sync[p].pc = "token" /\ RowFree
  /\ sync' = IF token.due THEN [sync EXCEPT ![p].pc = "locked", ![p].refresh = token.refresh]
                          ELSE Obtained(p)
  /\ UNCHANGED <<time, order, people, ledger, price, oauth, acts, faults>>

Renew(p) ==
  /\ sync[p].pc = "locked"
  /\ \/ /\ sync[p].refresh = shopToken /\ shopToken' = shopToken + 1
        /\ sync' = [sync EXCEPT ![p].pc = "renewed", ![p].refresh = shopToken']
     \/ /\ sync[p].refresh # shopToken /\ shopToken' = shopToken
        /\ sync' = [sync EXCEPT ![p] = NoSync]
  /\ UNCHANGED <<time, order, people, ledger, price, token, issued, spoiled, acts, faults>>

SaveToken(p) ==
  /\ sync[p].pc = "renewed"
  /\ token' = [token EXCEPT !.refresh = sync[p].refresh, !.due = FALSE]
  /\ sync' = Obtained(p)
  /\ UNCHANGED <<time, order, people, ledger, price, shopToken, issued, spoiled, acts, faults>>

\* The access token is about to expire.
AgeToken ==
  /\ Act /\ ~token.due /\ token' = [token EXCEPT !.due = TRUE]
  /\ UNCHANGED <<time, order, people, ledger, price, shopToken, issued, spoiled, sync, faults>>

\* The operator has a token issued ...
Exchange ==
  /\ Act /\ issued = NoToken
  /\ shopToken' = shopToken + 1
  /\ issued' = [refresh |-> shopToken', synced |-> token.synced]
  /\ UNCHANGED <<time, order, people, ledger, price, token, spoiled, sync, faults>>

\* ... and stores it, with the watermark as it was read.
StoreToken ==
  /\ issued # NoToken /\ RowFree
  /\ \E n \in issued.synced .. token.synced :
       token' = [refresh |-> issued.refresh, due |-> FALSE, synced |-> n]
  /\ issued' = NoToken /\ spoiled' = FALSE
  /\ UNCHANGED <<time, order, people, ledger, price, shopToken, sync, acts, faults>>
-----------------------------------------------------------------------------
(***************************************************************************)
(* A run reads the orders of some days, applies them one by one, and goes  *)
(* on with the next days.                                                  *)
(***************************************************************************)
AtEnd(p) == sync[p].cursor + Chunk >= sync[p].now

\* What the shop lists of the days from the given one on, as it is by now.
Listed(p, from) ==
  {[id |-> o, status |-> order[o].status] :
     o \in {o \in Order :
              /\ order[o].status # "none"
              /\ from <= order[o].day
              /\ order[o].day <= Earlier(from + Chunk, sync[p].now)
              /\ p # Cron => order[o].by = sync[p].shop}}

Read(p, from) ==
  sync' = [sync EXCEPT ![p].pc = "apply", ![p].cursor = from, ![p].list = Listed(p, from)]

Fetch(p) ==
  /\ \/ sync[p].pc = "fetch" /\ Read(p, sync[p].cursor)
     \/ sync[p].pc = "apply" /\ sync[p].list = {} /\ ~AtEnd(p)
        /\ Read(p, sync[p].cursor + Chunk)
  /\ UNCHANGED <<time, order, people, ledger, price, oauth, acts, faults>>

\* A visitor's order matches whoever is not linked.
HolderAny(o) == {m \in Member : link[m] = order[o].by}
\* The member of an order.
Holder(o) == {m \in Member \ withdrawn : link[m] # None /\ link[m] = order[o].by /\ cutoff[m] # Never}

\* Any order of a linked account counts.
CountsAny(o, m) == TRUE
\* Orders placed before the link do not count.
Counts(o, m) == order[o].at >= cutoff[m].at

\* _apply_order, up to the posting: by what the list said of the order.
Judge(p) ==
  /\ sync[p].pc = "apply"
  /\ \E x \in sync[p].list :
       LET payee == IF order[x.id].broken \/ x.status = "placed" THEN {}
                    ELSE {m \in Holder(x.id) : Counts(x.id, m)}
       IN \/ /\ payee = {}
             /\ sync' = [sync EXCEPT ![p].list = @ \ {x}]
          \/ \E m \in payee :
               sync' = [sync EXCEPT ![p].list = @ \ {x}, ![p].pc = "post", ![p].to = m, ![p].seen = x]
  /\ UNCHANGED <<time, order, people, ledger, price, oauth, acts, faults>>

Rows(m, o, kind) == {r \in ledger : r.member = m /\ r.order = o /\ r.kind = kind}
Row(m, o, kind, n) == [member |-> m, order |-> o, kind |-> kind, amount |-> n]

\* What a reward is today.
TakenToday(p, r) == -sync[p].amount
\* What was paid.
Taken(p, r) == -r.amount

\* grant_credits posts a key once; a clawback needs the reward.
Post(p) ==
  /\ sync[p].pc = "post"
  /\ LET m == sync[p].to
         o == sync[p].seen.id
         new == IF sync[p].seen.status = "paid"
                THEN {Row(m, o, "reward", sync[p].amount)}
                ELSE {Row(m, o, "clawback", Taken(p, r)) : r \in Rows(m, o, "reward")}
     IN ledger' = ledger \cup {r \in new : Rows(m, o, r.kind) = {}}
  /\ sync' = [sync EXCEPT ![p].pc = "apply", ![p].to = None, ![p].seen = Unseen]
  /\ UNCHANGED <<time, order, people, price, oauth, acts, faults>>

\* The batch saves when it began; a member's run just ends.
Finish(p) ==
  /\ sync[p].pc = "apply" /\ sync[p].list = {} /\ AtEnd(p)
  /\ \/ p # Cron /\ token' = token
     \/ p = Cron /\ RowFree /\ token' = [token EXCEPT !.synced = sync[p].now]
  /\ sync' = [sync EXCEPT ![p] = NoSync]
  /\ UNCHANGED <<time, order, people, ledger, price, shopToken, issued, spoiled, acts, faults>>

\* A call fails, or the process dies.  A token that the shop has issued and
\* nobody saved goes with it.
Fail(p) ==
  /\ Fault /\ sync[p].pc # "idle"
  /\ sync' = [sync EXCEPT ![p] = NoSync]
  /\ \/ sync[p].pc # "renewed" /\ UNCHANGED <<shopToken, spoiled>>
     \/ sync[p].pc = "renewed" /\ spoiled' = TRUE /\ UNCHANGED shopToken
     \/ /\ sync[p].pc = "locked" /\ sync[p].refresh = shopToken
        /\ spoiled' = TRUE /\ shopToken' = shopToken + 1
  /\ UNCHANGED <<time, order, people, ledger, price, token, issued, acts>>

ScriptDies ==
  /\ Fault /\ issued # NoToken /\ issued' = NoToken /\ spoiled' = TRUE
  /\ UNCHANGED <<time, order, people, ledger, price, token, shopToken, sync, acts>>

Step(p) ==
  \/ LockToken(p) \/ Renew(p) \/ SaveToken(p)
  \/ Fetch(p) \/ Judge(p) \/ Post(p) \/ Finish(p)

Next ==
  \/ Dawn \/ SetPrice \/ AgeToken \/ Exchange \/ StoreToken \/ ScriptDies
  \/ \E o \in Order : Place(o) \/ Pay(o) \/ CancelOrder(o)
  \/ \E m \in Member : Withdraw(m) \/ \E s \in Shop : Link(m, s)
  \/ StartBatch \/ \E p \in Sync, m \in Member : StartMember(p, m)
  \/ \E p \in Sync : Step(p) \/ Fail(p)

Spec == Init /\ [][Next]_vars

\* Cron starts the batch again and again, and a run goes on to its end.
Fairness == WF_vars(StartBatch) /\ \A p \in Sync : WF_vars(Step(p))

FairSpec == Spec /\ Fairness
-----------------------------------------------------------------------------
\* Types, and who is paid: a member that was linked at some time.
TypeOK ==
  /\ day \in 0 .. MaxDay /\ clock \in Nat
  /\ \A o \in Order : /\ order[o].status \in {"none", "placed", "paid", "cancelled"}
                      /\ order[o].day \in 0 .. day /\ order[o].at \in 0 .. clock
  /\ \A m \in Member : /\ link[m] \in Shop \cup {None}
                       /\ cutoff[m].day \in 0 .. day /\ cutoff[m].at \in 0 .. clock
                       /\ link[m] # None => m \notin withdrawn /\ cutoff[m] # Never
  /\ \A r \in ledger : r.member \in Member /\ r.order \in Order /\ cutoff[r.member] # Never
  /\ price \in Price /\ token.synced \in 0 .. day /\ token.refresh \in 1 .. shopToken
  /\ \A p \in Sync : /\ sync[p].pc \in {"idle", "token", "locked", "renewed", "fetch",
                                        "apply", "post"}
                     /\ sync[p].pc = "post" => sync[p].to \in Member /\ sync[p].seen.id \in Order
  /\ acts \in 0 .. MaxAct /\ faults \in 0 .. MaxFault

\* An order pays one member, also when its shop account goes from a member who
\* withdraws to another while runs are under way.
OrderPaysOne ==
  \A r, s \in ledger : (r.order = s.order /\ r.kind = "reward" /\ s.kind = "reward") => r = s

\* A clawback takes from the member who was paid what was paid, whatever a
\* reward is by then.
ClawbackMatches ==
  \A c \in ledger : c.kind = "clawback" =>
    \E r \in ledger : r.kind = "reward" /\ r.member = c.member /\ r.order = c.order
                        /\ c.amount = -r.amount

\* Nobody is about to send a refresh token that was spent, unless an answer of
\* the shop was lost or the operator is at it.
TokenIsGood ==
  \A p \in Sync : sync[p].pc = "locked" =>
    sync[p].refresh = shopToken \/ spoiled \/ issued # NoToken

\* The ledger does not say yet what the shop says, of a change within the days
\* that are read again.
Owed(o, m) ==
  /\ m \in Holder(o) /\ Counts(o, m) /\ ~order[o].broken /\ order[o].timely
  /\ \/ order[o].status = "paid" /\ Rows(m, o, "reward") = {}
     \/ /\ order[o].status = "cancelled"
        /\ Rows(m, o, "reward") # {} /\ Rows(m, o, "clawback") = {}

\* What an order owes is posted, whatever the order in which runs list and
\* apply it, however many of them fail and however long none succeeds.
OwedIsPosted == \A o \in Order, m \in Member : Owed(o, m) ~> (~Owed(o, m) \/ spoiled \/ issued # NoToken)
=============================================================================
