------------------------------ MODULE Library ------------------------------
(***************************************************************************)
(* The library of a member: results shown in pages behind a cursor, for    *)
(* all dogs or for one, several of them ticked and deleted at once, while  *)
(* new results appear, another tab deletes, the dog itself is deleted, and *)
(* answers are lost.                                                       *)
(***************************************************************************)
EXTENDS Naturals, Sequences, FiniteSets

CONSTANTS NResult,   \* results, numbered by their creation
          Late,      \* those of jobs that have not succeeded at first
          OfPet,     \* those whose photo is of the dog of the other list
          PageSize,  \* rows of a page
          Limit,     \* results one deletion may name
          MaxAct,    \* bound: lists shown, deletions asked for here and elsewhere
          MaxFault   \* bound: calls that fail

ASSUME LibraryAssumption ==
  /\ {NResult, MaxAct, MaxFault} \subseteq Nat /\ {PageSize, Limit} \subseteq Nat \ {0}
  /\ OfPet \subseteq 1 .. NResult /\ Late \subseteq 1 .. NResult

VARIABLES visible,    \* results of succeeded jobs
          deleted,    \* results with a deleted_at
          dog,        \* the dog of the other list: kept, its deletion asked for
                      \* here, done and not yet answered, or gone
          shown,      \* the list on the screen, "none" on another screen
          list,       \* per list: the pages in the cache
          fetch,      \* per list: the fetch under way
          error,      \* per list: whether the last fetch failed
          selected,   \* the ticked results, or that nothing is to be ticked
          removal,    \* the deletion under way
          remembered, \* localStorage: jobs whose deletion was confirmed here
          refused,    \* the lists, and "removal", whose request was called invalid
          overtaken,  \* per list: an older fetch ended after a deletion
          acts, faults

server == <<visible, deleted, dog>>
cached == <<list, fetch, error, overtaken>>
vars == <<server, shown, cached, selected, removal, remembered, refused, acts, faults>>

Result == 1 .. NResult
List == {"all", "pet"}

NoPages == [pages |-> <<>>, next |-> 0, base |-> {}, loaded |-> FALSE, stale |-> TRUE]
NoFetch == [kind |-> "none", pages |-> <<>>, next |-> 0, base |-> {}, answer |-> <<>>]
NotSelecting == [on |-> FALSE, ids |-> {}]
NoRemoval == [pc |-> "none", ids |-> {}, here |-> FALSE]

Init ==
  /\ visible = Result \ Late
  /\ deleted = {} /\ dog = "kept"
  /\ shown = "none"
  /\ list = [l \in List |-> NoPages] /\ fetch = [l \in List |-> NoFetch]
  /\ error = [l \in List |-> FALSE] /\ overtaken = [l \in List |-> FALSE]
  /\ selected = NotSelecting /\ removal = NoRemoval
  /\ remembered = {} /\ refused = {}
  /\ acts = 0 /\ faults = 0

Act == acts < MaxAct /\ acts' = acts + 1
Fault == faults < MaxFault /\ faults' = faults + 1
-----------------------------------------------------------------------------
(***************************************************************************)
(* The API.                                                                *)
(***************************************************************************)
\* What a list may ever show.
Reach(l) == IF l = "pet" THEN OfPet ELSE Result

\* Deleting the dog takes its photos out of its list, not out of the other.
DogGone == dog \in {"served", "gone"}
Scope(l) == IF l = "pet" /\ DogGone THEN {} ELSE Reach(l)

\* A cursor has to name a result that is still there.
CursorKnownAlive(l, cursor) == cursor = 0 \/ cursor \in Scope(l) \ deleted
\* A cursor may name a result deleted since, not one out of the list's scope.
CursorKnown(l, cursor) == cursor = 0 \/ cursor \in Scope(l)

Rows(l, cursor) == {r \in (Scope(l) \cap visible) \ deleted : cursor = 0 \/ r < cursor}

Newest(n, rows) == {r \in rows : Cardinality({s \in rows : s > r}) < n}
Oldest(rows) == CHOOSE r \in rows : \A s \in rows : r <= s

\* The next page starts behind the row read only to see that there is one.
NextCursorExtra(rows) ==
  IF Cardinality(rows) > PageSize THEN Oldest(Newest(PageSize + 1, rows)) ELSE 0
\* The next page starts behind the last row of this one.
NextCursor(rows) ==
  IF Cardinality(rows) > PageSize THEN Oldest(Newest(PageSize, rows)) ELSE 0

Page(l, cursor) ==
  LET rows == Rows(l, cursor) IN [rows |-> Newest(PageSize, rows), next |-> NextCursor(rows)]

\* A job succeeds: its result was created in the order of its number, and may
\* become visible after later ones.
Appear(r) ==
  /\ r \in Result \ visible /\ visible' = visible \cup {r}
  /\ UNCHANGED <<deleted, dog, shown, cached, selected, removal, remembered, refused, acts, faults>>

DeleteElsewhere(r) ==
  /\ Act /\ r \in visible \ deleted /\ deleted' = deleted \cup {r}
  /\ UNCHANGED <<visible, dog, shown, cached, selected, removal, remembered, refused, faults>>
-----------------------------------------------------------------------------
(***************************************************************************)
(* The cache: one fetch of a list at a time.  A load reads as many pages   *)
(* as there were, one after the other; a fetch of more reads one.          *)
(***************************************************************************)
Loading == [NoFetch EXCEPT !.kind = "load", !.base = visible]

\* Asked for by the screen: joins a fetch that is under way.
Loaded(l) == IF fetch[l].kind = "none" THEN Loading ELSE fetch[l]

Items(l) == UNION {list[l].pages[i] : i \in DOMAIN list[l].pages}

\* Any reading under way is joined.
RestartedIdle(l) == IF fetch[l].kind = "none" THEN Loading ELSE fetch[l]
\* A reading under way is given up and begun again, but a first one, with nothing
\* in the cache, goes on.
Restarted(l) == IF list[l].loaded \/ fetch[l].kind = "none" THEN Loading ELSE fetch[l]

\* Every list is stale, and the one on the screen is read again.
Invalidated ==
  /\ list' = [l \in List |-> [list[l] EXCEPT !.stale = TRUE]]
  /\ fetch' = [l \in List |-> IF l = shown THEN Restarted(l) ELSE fetch[l]]

OnScreen == IF shown \in List /\ ~error[shown] THEN Items(shown) ELSE {}

\* The ticks of one list are kept for the other.
TicksKept == selected
\* What was ticked in one list is not in the other.
TicksAfter == NotSelecting

\* Another list or another screen, or a return to one; what has aged is loaded
\* again.
Turn(l) ==
  /\ shown' = l /\ selected' = TicksAfter
  /\ removal' = [removal EXCEPT !.here = @ /\ l # "none" /\ shown # "none"]
  /\ \E aged \in BOOLEAN :
       fetch' = [k \in List |->
         IF k = l /\ (aged \/ list[l].stale \/ error[l]) THEN Loaded(l) ELSE fetch[k]]
  /\ UNCHANGED <<server, list, error, overtaken, remembered, refused, faults>>

Show(l) == Act /\ l # shown /\ Turn(l)

\* The list of dogs was read again: a filter for a dog that is gone is dropped.
DropFilter == shown = "pet" /\ DogGone /\ Turn("all") /\ UNCHANGED acts

Retry ==
  /\ shown \in List /\ error[shown] /\ fetch[shown] # Loading
  /\ fetch' = [fetch EXCEPT ![shown] = Loading]
  /\ UNCHANGED <<server, shown, list, error, overtaken, selected, removal, remembered, refused, acts, faults>>

\* "More" gives up a load that is under way.
More ==
  /\ shown \in List /\ ~error[shown] /\ list[shown].next # 0 /\ fetch[shown].kind # "more"
  /\ fetch' = [fetch EXCEPT ![shown] = [NoFetch EXCEPT !.kind = "more", !.next = list[shown].next]]
  /\ overtaken' = [overtaken EXCEPT ![shown] = @ \/ fetch[shown].kind = "load"]
  /\ UNCHANGED <<server, shown, list, error, selected, removal, remembered, refused, acts, faults>>

\* The API answers for the next page of a fetch.
Read(l) ==
  /\ fetch[l].kind # "none" /\ fetch[l].answer = <<>>
  /\ IF CursorKnown(l, fetch[l].next)
     THEN /\ fetch' = [fetch EXCEPT ![l].answer = <<Page(l, fetch[l].next)>>]
          /\ UNCHANGED <<error, refused>>
     ELSE /\ fetch' = [fetch EXCEPT ![l] = NoFetch]
          /\ error' = [error EXCEPT ![l] = TRUE] /\ refused' = refused \cup {l}
  /\ UNCHANGED <<server, shown, list, overtaken, selected, removal, remembered, acts, faults>>

\* The answer arrives; the last one of a fetch replaces what was in the cache,
\* and counts as fresh, also when the list was invalidated meanwhile.
Arrive(l) ==
  /\ fetch[l].answer # <<>>
  /\ LET page == fetch[l].answer[1]
         pages == Append(fetch[l].pages, page.rows)
         more == fetch[l].kind = "more"
     IN \/ /\ ~more /\ page.next # 0 /\ Len(pages) < Len(list[l].pages)
           /\ fetch' = [fetch EXCEPT ![l].pages = pages, ![l].next = page.next, ![l].answer = <<>>]
           /\ UNCHANGED <<list, error>>
        \/ /\ more \/ page.next = 0 \/ Len(pages) >= Len(list[l].pages)
           /\ fetch' = [fetch EXCEPT ![l] = NoFetch]
           /\ list' = [list EXCEPT ![l] =
                [pages |-> IF more THEN @.pages \o pages ELSE pages, next |-> page.next,
                 base |-> IF more THEN @.base ELSE fetch[l].base, loaded |-> TRUE, stale |-> FALSE]]
           /\ error' = [error EXCEPT ![l] = FALSE]
  /\ UNCHANGED <<server, shown, overtaken, selected, removal, remembered, refused, acts, faults>>

FetchFails(l) ==
  /\ Fault /\ fetch[l].kind # "none"
  /\ fetch' = [fetch EXCEPT ![l] = NoFetch]
  /\ error' = [error EXCEPT ![l] = TRUE]
  /\ UNCHANGED <<server, shown, list, overtaken, selected, removal, remembered, refused, acts>>
-----------------------------------------------------------------------------
(***************************************************************************)
(* Ticking and deleting.                                                   *)
(***************************************************************************)
\* Any number may be ticked.
FitsAny(ids) == TRUE
\* One more may be ticked.
Fits(ids) == Cardinality(ids) < Limit

\* "Select" starts without a tick, a long press with one.
StartSelecting ==
  /\ ~selected.on /\ OnScreen # {}
  /\ selected' \in {[on |-> TRUE, ids |-> ids] : ids \in {{}} \cup {{r} : r \in OnScreen}}
  /\ UNCHANGED <<server, shown, cached, removal, remembered, refused, acts, faults>>

Toggle(r) ==
  /\ selected.on /\ r \in OnScreen
  /\ \/ r \in selected.ids /\ selected' = [selected EXCEPT !.ids = @ \ {r}]
     \/ r \notin selected.ids /\ Fits(selected.ids) /\ selected' = [selected EXCEPT !.ids = @ \cup {r}]
  /\ UNCHANGED <<server, shown, cached, removal, remembered, refused, acts, faults>>

Cancel ==
  /\ selected.on /\ selected' = NotSelecting
  /\ UNCHANGED <<server, shown, cached, removal, remembered, refused, acts, faults>>

\* The dialog is confirmed: what is ticked and still in the list.
Ticked == IF shown \in List THEN selected.ids \cap Items(shown) ELSE {}

Delete ==
  /\ Act /\ selected.on /\ Ticked # {} /\ removal.pc \in {"none", "failed"}
  /\ removal' = [pc |-> "sent", ids |-> Ticked, here |-> TRUE]
  /\ UNCHANGED <<server, shown, cached, selected, remembered, refused, faults>>

\* All the results that are the member's own get their deleted_at at once.
ServeDelete ==
  /\ removal.pc = "sent"
  /\ \/ /\ Cardinality(removal.ids) <= Limit
        /\ deleted' = deleted \cup removal.ids
        /\ removal' = [removal EXCEPT !.pc = "served"]
        /\ UNCHANGED refused
     \/ /\ Cardinality(removal.ids) > Limit
        /\ removal' = [removal EXCEPT !.pc = "failed"]
        /\ refused' = refused \cup {"removal"}
        /\ UNCHANGED deleted
  /\ UNCHANGED <<visible, dog, shown, cached, selected, remembered, acts, faults>>

\* The browser remembers what it asked to delete.
RememberAlways(ids, answer) == remembered \cup ids
\* The browser remembers what was confirmed.
Remember(ids, answer) == IF answer = "ok" THEN remembered \cup ids ELSE remembered

\* The deletion is confirmed: every list is out of date, and what was ticked is
\* not any more.  A reading that goes on may have begun before the deletion.
Deleted ==
  /\ removal.pc = "served"
  /\ removal' = NoRemoval
  /\ Invalidated
  /\ overtaken' = [l \in List |->
       overtaken[l] \/ (fetch[l].kind # "none" /\ (l # shown \/ ~list[l].loaded))]
  /\ IF removal.here
     THEN remembered' = Remember(removal.ids, "ok") /\ selected' = NotSelecting
     ELSE UNCHANGED <<remembered, selected>>
  /\ UNCHANGED <<server, shown, error, refused, acts, faults>>

\* The deletion or its answer is lost: the ticks stay for another try.
DeleteFails ==
  /\ Fault /\ removal.pc \in {"sent", "served"}
  /\ removal' = [removal EXCEPT !.pc = "failed"]
  /\ remembered' = Remember(removal.ids, "failed")
  /\ UNCHANGED <<server, shown, cached, selected, refused, acts>>
-----------------------------------------------------------------------------
(***************************************************************************)
(* Deleting the dog, from the page of the member or in another tab: its    *)
(* photos stay, without a dog.                                             *)
(***************************************************************************)
RemoveDog ==
  /\ Act /\ shown = "none" /\ dog = "kept" /\ dog' = "sent"
  /\ UNCHANGED <<visible, deleted, shown, cached, selected, removal, remembered, refused, faults>>

RemoveDogElsewhere ==
  /\ Act /\ dog \in {"kept", "sent"} /\ dog' = "gone"
  /\ UNCHANGED <<visible, deleted, shown, cached, selected, removal, remembered, refused, faults>>

ServeRemoveDog ==
  /\ dog = "sent" /\ dog' = "served"
  /\ UNCHANGED <<visible, deleted, shown, cached, selected, removal, remembered, refused, acts, faults>>

\* The deletion is confirmed: the lists are out of date.
DogRemoved ==
  /\ dog = "served" /\ dog' = "gone"
  /\ Invalidated
  /\ UNCHANGED <<visible, deleted, shown, error, overtaken, selected, removal, remembered, refused, acts, faults>>

\* The deletion or its answer is lost.
RemoveDogFails ==
  /\ Fault
  /\ \/ dog = "sent" /\ dog' = "kept"
     \/ dog = "served" /\ dog' = "gone"
  /\ UNCHANGED <<visible, deleted, shown, cached, selected, removal, remembered, refused, acts>>

Next ==
  \/ \E r \in Result : Appear(r) \/ DeleteElsewhere(r) \/ Toggle(r)
  \/ \E l \in List \cup {"none"} : Show(l)
  \/ \E l \in List : Read(l) \/ Arrive(l) \/ FetchFails(l)
  \/ DropFilter \/ Retry \/ More
  \/ RemoveDog \/ RemoveDogElsewhere \/ ServeRemoveDog \/ DogRemoved \/ RemoveDogFails
  \/ StartSelecting \/ Cancel \/ Delete \/ ServeDelete \/ Deleted \/ DeleteFails

Spec == Init /\ [][Next]_vars

\* The API answers.
Fairness ==
  /\ \A l \in List : WF_vars(Read(l)) /\ WF_vars(Arrive(l))
  /\ WF_vars(ServeDelete) /\ WF_vars(Deleted)

FairSpec == Spec /\ Fairness
-----------------------------------------------------------------------------
\* Types, and no tick outside the list on the screen.
TypeOK ==
  /\ visible \subseteq Result /\ deleted \subseteq visible
  /\ dog \in {"kept", "sent", "served", "gone"} /\ refused \subseteq List \cup {"removal"}
  /\ shown \in List \cup {"none"}
  /\ \A l \in List :
       /\ list[l].next \in {0} \cup Result /\ list[l].stale \in BOOLEAN
       /\ fetch[l].kind \in {"none", "load", "more"}
       /\ \A i \in DOMAIN list[l].pages : list[l].pages[i] \subseteq Reach(l)
  /\ selected.on => (shown \in List /\ selected.ids \subseteq Reach(shown))
  /\ removal.pc \in {"none", "sent", "served", "failed"} /\ removal.ids \subseteq Result
  /\ acts \in 0 .. MaxAct /\ faults \in 0 .. MaxFault

\* Pages read one by one make one list: no result is shown twice, the order is
\* that of creation, and a result that was there when the list was begun and
\* still is there is in the list or behind its cursor.
ListIsSound ==
  \A l \in List :
    /\ \A i, j \in DOMAIN list[l].pages :
         i < j => \A r \in list[l].pages[i], s \in list[l].pages[j] : r > s
    /\ list[l].loaded =>
         \A r \in (Scope(l) \cap list[l].base) \ deleted : r \in Items(l) \/ r < list[l].next

\* No legal use of the screen makes a request the API calls invalid, but "more"
\* on the list of a dog that was deleted: a cursor outlives the result it names,
\* the list of all dogs outlives each dog, and no more is ticked than may be
\* deleted.
NeverRefused == refused \subseteq (IF DogGone THEN {"pet"} ELSE {})

\* Refuted by a dog deleted while its list is on the screen of another tab, or
\* while a page of it is being read: no legal use makes a request the API calls
\* invalid.
CursorOutlivesDog == refused = {}

\* A job is remembered as deleted here only when its result is deleted, also
\* when the deletion or its answer was lost.
RememberedIsGone == remembered \subseteq deleted

\* A result that was deleted here leaves every list it is shown in, once that
\* list was read again and no older reading of it was allowed to end later.
DeletedLeaves ==
  \A r \in Result :
    (r \in remembered /\ r \in OnScreen)
      ~> (r \notin OnScreen \/ (shown \in List /\ overtaken[shown]))

\* Refuted by "more", which gives up the reading that a deletion asked for, and
\* by a first reading of a list that began before the deletion: a result that
\* was deleted here leaves every list it is shown in.
DeletedIsNotShown ==
  \A r \in Result : (r \in remembered /\ r \in OnScreen) ~> r \notin OnScreen
=============================================================================
