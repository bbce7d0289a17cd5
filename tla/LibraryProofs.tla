--------------------------- MODULE LibraryProofs ----------------------------
(***************************************************************************)
(* Theorems about Library.tla, for any number of results, any size of a    *)
(* page and any number of acts and faults: its types, that the pages of a  *)
(* list make one list, that the API refuses no request but on the list of  *)
(* a dog that is gone, and that what is remembered as deleted is deleted.  *)
(***************************************************************************)
EXTENDS Library, FiniteSetTheorems, SequenceTheorems, WellFoundedInduction, TLAPS

LEMMA Constants ==
  ASSUME LibraryAssumption
  PROVE  /\ NResult \in Nat /\ MaxAct \in Nat /\ MaxFault \in Nat
         /\ PageSize \in Nat \ {0} /\ Limit \in Nat \ {0}
         /\ OfPet \subseteq Result /\ Late \subseteq Result
         /\ Result \subseteq Nat /\ IsFiniteSet(Result)
         /\ \A r \in Result : r > 0
         /\ \A l : Reach(l) \subseteq Result /\ Scope(l) \subseteq Reach(l)
  <1>1. /\ NResult \in Nat /\ MaxAct \in Nat /\ MaxFault \in Nat
        /\ PageSize \in Nat \ {0} /\ Limit \in Nat \ {0}
        /\ OfPet \subseteq Result /\ Late \subseteq Result
    BY DEF LibraryAssumption, Result
  <1>2. Result \subseteq Nat /\ \A r \in Result : r > 0
    BY <1>1 DEF Result
  <1>3. IsFiniteSet(Result)
    BY <1>1, FS_Interval DEF Result
  <1>4. \A l : Reach(l) \subseteq Result /\ Scope(l) \subseteq Reach(l)
    BY <1>1 DEF Reach, Scope
  <1> QED
    BY <1>1, <1>2, <1>3, <1>4
-----------------------------------------------------------------------------
(***************************************************************************)
(* Pages.                                                                  *)
(***************************************************************************)
LEMMA Least ==
  ASSUME NEW T \in SUBSET Nat, T # {}
  PROVE  \E x \in T : \A y \in T : x <= y
  <1> DEFINE R == OpToRel(<, Nat)
  <1>1. \E x \in T : \A y \in T : <<y, x>> \notin R
    <2>1. IsWellFoundedOn(R, Nat)
      BY NatLessThanWellFounded
    <2> HIDE DEF R
    <2> QED
      BY <2>1, WFMin
  <1>2. \A x, y \in Nat : y < x => <<y, x>> \in R
    BY DEF OpToRel
  <1> HIDE DEF R
  <1>3. PICK x \in T : \A y \in T : <<y, x>> \notin R
    BY <1>1
  <1>4. ASSUME NEW y \in T
        PROVE  x <= y
    <2>1. x \in Nat /\ y \in Nat /\ ~(y < x)
      BY <1>2, <1>3
    <2> QED
      BY <2>1
  <1> QED
    BY <1>4

LEMMA Greatest ==
  ASSUME LibraryAssumption, NEW T \in SUBSET Result, T # {}
  PROVE  \E x \in T : \A y \in T : y <= x
  <1> DEFINE U == {NResult - r : r \in T}
  <1>1. \A r \in T : r \in 1 .. NResult /\ NResult - r \in Nat
    BY Constants DEF Result
  <1>2. U \in SUBSET Nat /\ U # {}
    BY <1>1
  <1>3. PICK u \in U : \A v \in U : u <= v
    BY <1>2, Least
  <1>4. PICK x \in T : u = NResult - x
    BY <1>3
  <1>5. ASSUME NEW y \in T
        PROVE  y <= x
    <2>1. NResult - y \in U
      OBVIOUS
    <2>2. NResult - x <= NResult - y
      BY <1>3, <1>4, <2>1
    <2> QED
      BY <1>1, <2>2, Constants
  <1> QED
    BY <1>5

\* A page holds the newest of what is left, and the oldest of a full page is
\* where the next one starts.
LEMMA NewestIsPrefix ==
  ASSUME LibraryAssumption, NEW rows \in SUBSET Result, NEW n \in Nat \ {0}
  PROVE  /\ Newest(n, rows) \subseteq rows
         /\ rows # {} => Newest(n, rows) # {}
         /\ \A r \in rows \ Newest(n, rows) :
              Cardinality(rows) > n /\ \A s \in Newest(n, rows) : s > r
  <1>1. IsFiniteSet(rows) /\ rows \subseteq Nat
    BY Constants, FS_Subset
  <1>2. \A T \in SUBSET rows : IsFiniteSet(T) /\ Cardinality(T) \in Nat
    BY <1>1, FS_Subset, FS_CardinalityType
  <1>3. ASSUME rows # {}
        PROVE  Newest(n, rows) # {}
    <2>1. PICK x \in rows : \A y \in rows : y <= x
      BY <1>3, Greatest
    <2>2. {s \in rows : s > x} = {}
      <3>1. ASSUME NEW s \in rows
            PROVE  ~(s > x)
        <4>1. s \in Nat /\ x \in Nat /\ s <= x
          BY <1>1, <2>1
        <4> QED
          BY <4>1
      <3> QED
        BY <3>1
    <2>3. Cardinality({s \in rows : s > x}) = 0
      BY <2>2, FS_EmptySet
    <2> QED
      BY <2>3 DEF Newest
  <1>4. ASSUME NEW r \in rows, r \notin Newest(n, rows)
        PROVE  Cardinality(rows) > n /\ \A s \in Newest(n, rows) : s > r
    <2> DEFINE A(x) == {s \in rows : s > x}
    <2>1. A(r) \subseteq rows /\ r \in rows \ A(r)
      BY <1>1
    <2>2. ~(Cardinality(A(r)) < n)
      BY <1>4 DEF Newest
    <2>3. Cardinality(A(r)) \in Nat /\ IsFiniteSet(A(r)) /\ Cardinality(rows) \in Nat
      BY <1>2, <2>1
    <2>4. Cardinality(A(r)) <= Cardinality(rows) /\ Cardinality(A(r)) # Cardinality(rows)
      <3> HIDE DEF A
      <3> QED
        BY <1>1, <2>1, FS_Subset
    <2>5. ASSUME NEW s \in Newest(n, rows)
          PROVE  s > r
      <3>1. s \in rows /\ Cardinality(A(s)) < n
        BY DEF Newest
      <3>2. CASE s <= r
        <4>1. A(r) \subseteq A(s)
          <5>1. ASSUME NEW t \in rows, t > r
                PROVE  t > s
            <6>1. t \in Nat /\ r \in Nat /\ s \in Nat
              BY <1>1, <3>1
            <6> QED
              BY <3>2, <5>1, <6>1
          <5> QED
            BY <5>1
        <4>2. IsFiniteSet(A(s)) /\ Cardinality(A(s)) \in Nat
          BY <1>2
        <4>3. Cardinality(A(r)) <= Cardinality(A(s))
          <5> HIDE DEF A
          <5> QED
            BY <4>1, <4>2, FS_Subset
        <4> QED
          BY <2>2, <2>3, <3>1, <4>2, <4>3
      <3> QED
        BY <1>1, <3>1, <3>2
    <2> QED
      BY <2>2, <2>3, <2>4, <2>5
  <1> QED
    BY <1>3, <1>4 DEF Newest

LEMMA OldestIsLeast ==
  ASSUME LibraryAssumption, NEW rows \in SUBSET Result, rows # {}
  PROVE  Oldest(rows) \in rows /\ \A s \in rows : Oldest(rows) <= s
  <1>1. \E r \in rows : \A s \in rows : r <= s
    BY Constants, Least
  <1> QED
    BY <1>1 DEF Oldest
-----------------------------------------------------------------------------
(***************************************************************************)
(* What a cached list and a fetch hold, given what is visible and what is  *)
(* deleted: pages in order, which together with what is behind the cursor  *)
(* are all of what was visible when the list was begun.                    *)
(***************************************************************************)
Pages == Seq(SUBSET Result)
Cursor == {0} \cup Result
Answer == [rows : SUBSET Result, next : Cursor]

CacheRecord == [pages : Pages, next : Cursor, base : SUBSET Result, loaded : BOOLEAN, stale : BOOLEAN]
FetchRecord ==
  [kind : {"none", "load", "more"}, pages : Pages, next : Cursor, base : SUBSET Result, answer : Seq(Answer)]

Held(pages, r) == \E i \in DOMAIN pages : r \in pages[i]

Sorted(pages, next) ==
  /\ \A i, j \in DOMAIN pages : i < j => \A r \in pages[i], s \in pages[j] : r > s
  /\ next # 0 => \A i \in DOMAIN pages : \A r \in pages[i] : r >= next

Within(l, pages, vis) == \A i \in DOMAIN pages : pages[i] \subseteq Reach(l) \cap vis

Whole(l, base, pages, next, del) ==
  \A r \in (Reach(l) \cap base) \ del : Held(pages, r) \/ r < next

ListWell(l, c, vis, del) ==
  /\ c \in CacheRecord /\ c.base \subseteq vis /\ c.next \in {0} \cup Reach(l)
  /\ Within(l, c.pages, vis) /\ Sorted(c.pages, c.next)
  /\ c.loaded => Whole(l, c.base, c.pages, c.next, del)
  /\ c.next # 0 => c.loaded /\ c.pages # <<>>

\* The results a fetch answers for.
BaseOf(f, c) == IF f.kind = "more" THEN c.base ELSE f.base

AnswerWell(l, f, c, p, vis, del) ==
  /\ p.rows \subseteq Reach(l) \cap vis /\ p.next \in {0} \cup p.rows
  /\ \A r \in p.rows : (p.next # 0 => r >= p.next) /\ (f.next # 0 => r < f.next)
  /\ \A r \in (Reach(l) \cap BaseOf(f, c)) \ del :
       (f.next = 0 \/ r < f.next) => r \in p.rows \/ r < p.next

FetchWell(l, f, c, vis, del) ==
  /\ f \in FetchRecord /\ f.base \subseteq vis /\ f.next \in {0} \cup Reach(l)
  /\ f.kind = "none" => f.answer = <<>>
  /\ f.kind = "more" => f.pages = <<>> /\ f.next = c.next /\ f.next # 0
  /\ f.kind = "load" =>
       /\ Within(l, f.pages, vis) /\ Sorted(f.pages, f.next) /\ (f.next = 0 <=> f.pages = <<>>)
       /\ f.pages # <<>> => Whole(l, f.base, f.pages, f.next, del)
  /\ f.answer # <<>> => AnswerWell(l, f, c, f.answer[1], vis, del)

\* More is visible and more is deleted.
LEMMA MoreShown ==
  ASSUME NEW l, NEW c, NEW f, NEW vis, NEW del, NEW vis2, NEW del2,
         vis \subseteq vis2, del \subseteq del2,
         ListWell(l, c, vis, del), FetchWell(l, f, c, vis, del)
  PROVE  ListWell(l, c, vis2, del2) /\ FetchWell(l, f, c, vis2, del2)
  <1>1. ListWell(l, c, vis2, del2)
    BY DEF ListWell, Within, Whole
  <1>2. f.answer # <<>> => AnswerWell(l, f, c, f.answer[1], vis2, del2)
    BY DEF FetchWell, AnswerWell
  <1>3. f.kind = "load" =>
          /\ Within(l, f.pages, vis2) /\ Sorted(f.pages, f.next) /\ (f.next = 0 <=> f.pages = <<>>)
          /\ f.pages # <<>> => Whole(l, f.base, f.pages, f.next, del2)
    BY DEF FetchWell, Within, Whole
  <1> QED
    BY <1>1, <1>2, <1>3 DEF FetchWell

\* What begins, and what is over.
LEMMA Begun ==
  ASSUME NEW l, NEW c, NEW vis \in SUBSET Result, NEW del
  PROVE  /\ FetchWell(l, [NoFetch EXCEPT !.kind = "load", !.base = vis], c, vis, del)
         /\ FetchWell(l, NoFetch, c, vis, del)
         /\ ListWell(l, NoPages, vis, del)
  <1>1. <<>> \in Pages /\ 0 \in Cursor /\ <<>> \in Seq(Answer)
    BY DEF Pages, Cursor
  <1>2. NoPages \in CacheRecord /\ NoFetch \in FetchRecord
    BY <1>1 DEF NoPages, NoFetch, CacheRecord, FetchRecord
  <1>3. [NoFetch EXCEPT !.kind = "load", !.base = vis] \in FetchRecord
    BY <1>1 DEF NoFetch, FetchRecord
  <1>4. Sorted(<<>>, 0) /\ Within(l, <<>>, vis)
    BY DEF Sorted, Within
  <1>5. ListWell(l, NoPages, vis, del)
    BY <1>2, <1>4 DEF NoPages, ListWell
  <1>6. FetchWell(l, NoFetch, c, vis, del)
    BY <1>2 DEF NoFetch, FetchWell
  <1>7. FetchWell(l, [NoFetch EXCEPT !.kind = "load", !.base = vis], c, vis, del)
    BY <1>3, <1>4 DEF NoFetch, FetchWell
  <1> QED
    BY <1>5, <1>6, <1>7

LEMMA BegunMore ==
  ASSUME NEW l, NEW c, NEW vis, NEW del, ListWell(l, c, vis, del), c.next # 0
  PROVE  FetchWell(l, [NoFetch EXCEPT !.kind = "more", !.next = c.next], c, vis, del)
  <1>1. c.next \in Cursor /\ c.next \in {0} \cup Reach(l)
    BY DEF ListWell, CacheRecord
  <1>2. <<>> \in Pages /\ <<>> \in Seq(Answer)
    BY DEF Pages
  <1> DEFINE f == [NoFetch EXCEPT !.kind = "more", !.next = c.next]
  <1>3. /\ f \in FetchRecord /\ f.base = {} /\ f.next = c.next /\ f.kind = "more"
        /\ f.pages = <<>> /\ f.answer = <<>>
    BY <1>1, <1>2 DEF NoFetch, FetchRecord
  <1> HIDE DEF f
  <1>4. FetchWell(l, f, c, vis, del)
    BY <1>1, <1>3 DEF FetchWell
  <1> QED
    BY <1>4 DEF f

\* The list a fetch is for becomes stale.
LEMMA Staled ==
  ASSUME NEW l, NEW c, NEW f, NEW vis, NEW del, NEW stale \in BOOLEAN, ListWell(l, c, vis, del)
  PROVE  LET d == [c EXCEPT !.stale = stale]
         IN ListWell(l, d, vis, del) /\ (FetchWell(l, f, c, vis, del) => FetchWell(l, f, d, vis, del))
  <1> DEFINE d == [c EXCEPT !.stale = stale]
  <1>1. c \in CacheRecord
    BY DEF ListWell
  <1>2. d.pages = c.pages /\ d.next = c.next /\ d.base = c.base /\ d.loaded = c.loaded
    BY <1>1 DEF CacheRecord
  <1>3. d \in CacheRecord
    BY <1>1 DEF CacheRecord
  <1> HIDE DEF d
  <1>4. ListWell(l, d, vis, del)
    BY <1>2, <1>3 DEF ListWell
  <1>5. FetchWell(l, f, c, vis, del) => FetchWell(l, f, d, vis, del)
    BY <1>2 DEF FetchWell, AnswerWell, BaseOf
  <1> QED
    BY <1>4, <1>5 DEF d

\* What is not in a list any more: everything in that of a dog that is gone.
Dead(l, d, del) == IF l = "pet" /\ d \in {"served", "gone"} THEN Result ELSE del

LEMMA PageIsWell ==
  ASSUME LibraryAssumption, visible \subseteq Result, NEW l, NEW c, NEW f,
         ListWell(l, c, visible, Dead(l, dog, deleted)), FetchWell(l, f, c, visible, Dead(l, dog, deleted))
  PROVE  /\ Page(l, f.next) \in Answer
         /\ AnswerWell(l, f, c, Page(l, f.next), visible, Dead(l, dog, deleted))
  <1> DEFINE R == Rows(l, f.next)
             N == Newest(PageSize, R)
             next == NextCursor(R)
  <1>1. R \subseteq Result /\ R \subseteq Reach(l) \cap visible
          /\ \A r \in R : f.next = 0 \/ r < f.next
    BY Constants DEF Rows
  <1>2. \A r \in (Reach(l) \cap BaseOf(f, c)) \ Dead(l, dog, deleted) : (f.next = 0 \/ r < f.next) => r \in R
    BY DEF Rows, Scope, DogGone, Dead, BaseOf, ListWell, FetchWell
  <1> HIDE DEF R
  <1>3. /\ N \subseteq R /\ (R # {} => N # {})
        /\ \A r \in R \ N : Cardinality(R) > PageSize /\ \A s \in N : s > r
    BY <1>1, NewestIsPrefix, Constants
  <1>4. N \in SUBSET Result /\ N \subseteq Nat
    BY <1>1, <1>3, Constants
  <1>5. CASE Cardinality(R) > PageSize
    <2>1. R # {}
      BY <1>5, FS_EmptySet, Constants
    <2>2. next = Oldest(N)
      BY <1>5 DEF NextCursor
    <2>3. next \in N /\ \A s \in N : next <= s
      <3> HIDE DEF N, next
      <3> QED
        BY <1>3, <1>4, <2>1, <2>2, OldestIsLeast
    <2>4. next \in Nat /\ next # 0 /\ next \in Result
      BY <1>4, <2>3, Constants
    <2>5. \A r \in R \ N : r < next
      <3>1. ASSUME NEW r \in R, r \notin N
            PROVE  r < next
        <4>1. r \in Nat /\ next > r
          BY <1>1, <1>3, <2>3, <3>1, Constants
        <4> QED
          BY <2>4, <4>1
      <3> QED
        BY <3>1
    <2>6. \A s \in N : s >= next
      BY <1>4, <2>3, <2>4
    <2> QED
      BY <1>1, <1>2, <1>3, <1>4, <2>3, <2>4, <2>5, <2>6 DEF Page, AnswerWell, Answer, Cursor, R
  <1>6. CASE ~(Cardinality(R) > PageSize)
    <2>1. next = 0
      BY <1>6 DEF NextCursor
    <2>2. R = N
      BY <1>3, <1>6
    <2> QED
      BY <1>1, <1>2, <1>3, <1>4, <2>1, <2>2 DEF Page, AnswerWell, Answer, Cursor, R
  <1> QED
    BY <1>5, <1>6

LEMMA Answered ==
  ASSUME LibraryAssumption, visible \subseteq Result, NEW l, NEW c, NEW f,
         ListWell(l, c, visible, Dead(l, dog, deleted)), FetchWell(l, f, c, visible, Dead(l, dog, deleted)), f.kind # "none"
  PROVE  FetchWell(l, [f EXCEPT !.answer = <<Page(l, f.next)>>], c, visible, Dead(l, dog, deleted))
  <1> DEFINE p == Page(l, f.next)
             g == [f EXCEPT !.answer = <<p>>]
  <1>1. p \in Answer /\ AnswerWell(l, f, c, p, visible, Dead(l, dog, deleted))
    BY PageIsWell
  <1> HIDE DEF p
  <1>2. f \in FetchRecord
    BY DEF FetchWell
  <1>3. <<p>> \in Seq(Answer) /\ <<p>>[1] = p
    BY <1>1
  <1>4. /\ g.kind = f.kind /\ g.pages = f.pages /\ g.next = f.next /\ g.base = f.base
        /\ g.answer = <<p>>
    BY <1>2 DEF FetchRecord
  <1>5. g \in FetchRecord
    BY <1>2, <1>3 DEF FetchRecord
  <1> HIDE DEF g
  <1>6. AnswerWell(l, g, c, g.answer[1], visible, Dead(l, dog, deleted))
    BY <1>1, <1>3, <1>4 DEF AnswerWell, BaseOf
  <1>7. FetchWell(l, g, c, visible, Dead(l, dog, deleted))
    BY <1>4, <1>5, <1>6 DEF FetchWell
  <1> QED
    BY <1>7 DEF g, p

\* A page behind the cursor is put at the end of the pages before it.
LEMMA Appended ==
  ASSUME LibraryAssumption, NEW l, NEW pages \in Pages, NEW next \in Cursor, NEW p \in Answer,
         NEW vis, NEW del, NEW base \in SUBSET Result,
         Within(l, pages, vis), Sorted(pages, next), next = 0 => pages = <<>>,
         pages # <<>> => Whole(l, base, pages, next, del),
         p.rows \subseteq Reach(l) \cap vis, p.next \in {0} \cup p.rows,
         \A r \in p.rows : (p.next # 0 => r >= p.next) /\ (next # 0 => r < next),
         \A r \in (Reach(l) \cap base) \ del : (next = 0 \/ r < next) => r \in p.rows \/ r < p.next,
         next # 0 => pages # <<>>
  PROVE  LET q == Append(pages, p.rows)
         IN /\ q \in Pages /\ q # <<>> /\ p.next \in Cursor
            /\ Within(l, q, vis) /\ Sorted(q, p.next) /\ Whole(l, base, q, p.next, del)
  <1> DEFINE q == Append(pages, p.rows)
             m == Len(pages)
  <1>1. p.rows \in SUBSET Result /\ p.next \in Cursor
    BY DEF Answer
  <1>2. /\ q \in Pages /\ q # <<>> /\ Len(q) = m + 1 /\ m \in Nat
        /\ \A i \in 1 .. m : q[i] = pages[i]
        /\ q[m + 1] = p.rows
    BY <1>1, AppendProperties, LenProperties DEF Pages
  <1>3. DOMAIN q = 1 .. m + 1 /\ DOMAIN pages = 1 .. m
    BY <1>2, LenProperties DEF Pages
  <1>4. \A i \in DOMAIN q : (i \in DOMAIN pages /\ q[i] = pages[i]) \/ (i = m + 1 /\ q[i] = p.rows)
    BY <1>2, <1>3
  <1>5. \A i \in DOMAIN q : q[i] \subseteq Result
    BY <1>2, <1>3 DEF Pages
  <1>6. m + 1 \in DOMAIN q /\ \A i \in DOMAIN pages : i \in DOMAIN q /\ q[i] = pages[i] /\ i < m + 1
    BY <1>2, <1>3
  <1> HIDE DEF q
  <1>7. Within(l, q, vis)
    BY <1>4 DEF Within
  <1>8. \A r \in p.rows : \A i \in DOMAIN pages : \A s \in pages[i] : s > r
    <2>1. ASSUME NEW r \in p.rows, NEW i \in DOMAIN pages, NEW s \in pages[i]
          PROVE  s > r
      <3>1. next # 0 /\ s >= next /\ r < next
        <4>1. pages # <<>>
          BY <2>1, <1>3
        <4> QED
          BY <4>1 DEF Sorted
      <3>2. s \in Nat /\ r \in Nat /\ next \in Nat
        BY <1>1, <1>5, <1>6, Constants DEF Cursor
      <3> QED
        BY <3>1, <3>2
    <2> QED
      BY <2>1
  <1>9. Sorted(q, p.next)
    <2>1. ASSUME NEW i \in DOMAIN q, NEW j \in DOMAIN q, i < j, NEW r \in q[i], NEW s \in q[j]
          PROVE  r > s
      <3>1. i \in DOMAIN pages /\ q[i] = pages[i]
        BY <1>2, <1>3, <1>4, <2>1
      <3>2. CASE j \in DOMAIN pages /\ q[j] = pages[j]
        BY <2>1, <3>1, <3>2 DEF Sorted
      <3>3. CASE q[j] = p.rows
        BY <1>8, <2>1, <3>1, <3>3
      <3> QED
        BY <1>4, <3>2, <3>3
    <2>2. ASSUME p.next # 0, NEW i \in DOMAIN q, NEW r \in q[i]
          PROVE  r >= p.next
      <3>1. CASE i \in DOMAIN pages /\ q[i] = pages[i]
        <4>1. p.next \in p.rows /\ r > p.next
          BY <1>8, <2>2, <3>1
        <4>2. r \in Nat /\ p.next \in Nat
          BY <1>1, <1>5, <2>2, <4>1, Constants
        <4> QED
          BY <4>1, <4>2
      <3>2. CASE q[i] = p.rows
        BY <2>2, <3>2
      <3> QED
        BY <1>4, <3>1, <3>2
    <2> QED
      BY <2>1, <2>2 DEF Sorted
  <1>10. Whole(l, base, q, p.next, del)
    <2>1. ASSUME NEW r \in (Reach(l) \cap base) \ del
          PROVE  Held(q, r) \/ r < p.next
      <3>1. CASE next = 0 \/ r < next
        BY <1>2, <1>6, <3>1 DEF Held
      <3>2. CASE ~(next = 0 \/ r < next)
        <4>1. Held(pages, r)
          BY <3>2 DEF Whole
        <4> QED
          BY <1>6, <4>1 DEF Held
      <3> QED
        BY <3>1, <3>2
    <2> QED
      BY <2>1 DEF Whole
  <1> QED
    BY <1>1, <1>2, <1>7, <1>9, <1>10 DEF q

\* The answer to "more", and the one that ends a load, make the new list.
LEMMA Filled ==
  ASSUME LibraryAssumption, NEW l, NEW c, NEW f, NEW vis \in SUBSET Result, NEW del,
         ListWell(l, c, vis, del), FetchWell(l, f, c, vis, del), f.answer # <<>>
  PROVE  LET p     == f.answer[1]
             pages == IF f.kind = "more" THEN c.pages \o Append(f.pages, p.rows)
                      ELSE Append(f.pages, p.rows)
             d     == [pages |-> pages, next |-> p.next,
                       base |-> IF f.kind = "more" THEN c.base ELSE f.base,
                       loaded |-> TRUE, stale |-> FALSE]
         IN ListWell(l, d, vis, del) /\ FetchWell(l, NoFetch, d, vis, del)
  <1> DEFINE p == f.answer[1]
  <1>1. /\ c \in CacheRecord /\ f \in FetchRecord /\ f.kind \in {"more", "load"}
        /\ p \in Answer /\ AnswerWell(l, f, c, p, vis, del) /\ c.pages \in Pages /\ f.pages \in Pages
        /\ c.next \in Cursor /\ f.next \in Cursor /\ c.base \in SUBSET Result /\ f.base \in SUBSET Result
    <2>1. c \in CacheRecord /\ f \in FetchRecord
      BY DEF ListWell, FetchWell
    <2>2. f.answer \in Seq(Answer)
      BY <2>1 DEF FetchRecord
    <2>3. p \in Answer
      BY <2>2
    <2>4. f.kind \in {"more", "load"}
      BY <2>1 DEF FetchRecord, FetchWell
    <2>5. AnswerWell(l, f, c, p, vis, del)
      BY DEF FetchWell
    <2> QED
      BY <2>1, <2>3, <2>4, <2>5 DEF CacheRecord, FetchRecord
  <1>2. p.rows \in SUBSET Result /\ p.next \in Cursor
    BY <1>1 DEF Answer
  <1>3. ASSUME NEW q, NEW base \in SUBSET Result, base \subseteq vis,
               q \in Pages /\ q # <<>>, Within(l, q, vis), Sorted(q, p.next), Whole(l, base, q, p.next, del)
        PROVE  LET d == [pages |-> q, next |-> p.next, base |-> base, loaded |-> TRUE, stale |-> FALSE]
               IN ListWell(l, d, vis, del) /\ FetchWell(l, NoFetch, d, vis, del)
    <2> DEFINE d == [pages |-> q, next |-> p.next, base |-> base, loaded |-> TRUE, stale |-> FALSE]
    <2>1. p.next \in {0} \cup Reach(l)
      BY <1>1 DEF AnswerWell
    <2>2. /\ d.pages = q /\ d.next = p.next /\ d.base = base /\ d.loaded /\ d.stale = FALSE
          /\ d \in CacheRecord
      BY <1>2, <1>3 DEF CacheRecord
    <2> HIDE DEF d, p
    <2>3. ListWell(l, d, vis, del)
      BY <1>3, <2>1, <2>2 DEF ListWell
    <2> QED
      BY <2>3, Begun DEF d
  <1>4. CASE f.kind = "more"
    <2> DEFINE q == Append(c.pages, p.rows)
    <2>1. f.pages = <<>> /\ f.next = c.next /\ c.next # 0 /\ c.loaded /\ c.pages # <<>> /\ BaseOf(f, c) = c.base
      BY <1>4 DEF FetchWell, ListWell, BaseOf
    <2>2. /\ q \in Pages /\ q # <<>> /\ Within(l, q, vis)
          /\ Sorted(q, p.next) /\ Whole(l, c.base, q, p.next, del)
      <3>1. /\ Within(l, c.pages, vis) /\ Sorted(c.pages, c.next) /\ Whole(l, c.base, c.pages, c.next, del)
        BY <2>1 DEF ListWell
      <3>2. /\ p.rows \subseteq Reach(l) \cap vis /\ p.next \in {0} \cup p.rows
            /\ \A r \in p.rows : (p.next # 0 => r >= p.next) /\ (c.next # 0 => r < c.next)
            /\ \A r \in (Reach(l) \cap c.base) \ del : (c.next = 0 \/ r < c.next) => r \in p.rows \/ r < p.next
        BY <1>1, <2>1 DEF AnswerWell
      <3>3. c.pages \in Pages /\ c.next \in Cursor /\ p \in Answer /\ c.base \in SUBSET Result
        BY <1>1
      <3>4. /\ c.next = 0 => c.pages = <<>>
            /\ c.next # 0 => c.pages # <<>>
        BY <2>1
      <3> HIDE DEF p
      <3> QED
        BY <3>1, <3>2, <3>3, <3>4, Appended
    <2>3. c.pages \o Append(f.pages, p.rows) = q
      <3>1. Append(f.pages, p.rows) = <<p.rows>>
        BY <2>1
      <3> HIDE DEF p
      <3> QED
        BY <1>1, <1>2, <3>1, AppendIsConcat DEF Pages
    <2>4. c.base \subseteq vis
      BY DEF ListWell
    <2> HIDE DEF q
    <2>5. LET d == [pages |-> q, next |-> p.next, base |-> c.base, loaded |-> TRUE, stale |-> FALSE]
          IN ListWell(l, d, vis, del) /\ FetchWell(l, NoFetch, d, vis, del)
      BY <1>1, <1>3, <2>2, <2>4
    <2> QED
      BY <1>4, <2>3, <2>5
  <1>5. CASE f.kind = "load"
    <2> DEFINE q == Append(f.pages, p.rows)
    <2>1. /\ Within(l, f.pages, vis) /\ Sorted(f.pages, f.next) /\ (f.next = 0 <=> f.pages = <<>>)
          /\ f.pages # <<>> => Whole(l, f.base, f.pages, f.next, del)
          /\ f.base \subseteq vis /\ BaseOf(f, c) = f.base
      BY <1>5 DEF FetchWell, BaseOf
    <2>2. /\ q \in Pages /\ q # <<>> /\ Within(l, q, vis)
          /\ Sorted(q, p.next) /\ Whole(l, f.base, q, p.next, del)
      <3>1. /\ p.rows \subseteq Reach(l) \cap vis /\ p.next \in {0} \cup p.rows
            /\ \A r \in p.rows : (p.next # 0 => r >= p.next) /\ (f.next # 0 => r < f.next)
            /\ \A r \in (Reach(l) \cap f.base) \ del : (f.next = 0 \/ r < f.next) => r \in p.rows \/ r < p.next
        BY <1>1, <2>1 DEF AnswerWell
      <3> HIDE DEF p
      <3> QED
        BY <1>1, <2>1, <3>1, Appended
    <2> HIDE DEF q
    <2>3. LET d == [pages |-> q, next |-> p.next, base |-> f.base, loaded |-> TRUE, stale |-> FALSE]
          IN ListWell(l, d, vis, del) /\ FetchWell(l, NoFetch, d, vis, del)
      BY <1>1, <1>3, <2>1, <2>2
    <2> QED
      BY <1>5, <2>3 DEF q
  <1> QED
    BY <1>1, <1>4, <1>5

\* The answer to a load that goes on.
LEMMA WentOn ==
  ASSUME LibraryAssumption, NEW l, NEW c, NEW f, NEW vis \in SUBSET Result, NEW del,
         FetchWell(l, f, c, vis, del), f.answer # <<>>, f.kind # "more", f.answer[1].next # 0
  PROVE  FetchWell(l, [f EXCEPT !.pages = Append(f.pages, f.answer[1].rows),
                                !.next = f.answer[1].next, !.answer = <<>>], c, vis, del)
  <1> DEFINE p == f.answer[1]
             q == Append(f.pages, p.rows)
             g == [f EXCEPT !.pages = q, !.next = p.next, !.answer = <<>>]
  <1>1. f \in FetchRecord /\ f.kind = "load" /\ AnswerWell(l, f, c, p, vis, del)
    BY DEF FetchWell, FetchRecord
  <1>2. f.answer \in Seq(Answer) /\ f.pages \in Pages /\ f.next \in Cursor /\ f.base \in SUBSET Result
    BY <1>1 DEF FetchRecord
  <1>3. p \in Answer
    BY <1>2
  <1>4. /\ Within(l, f.pages, vis) /\ Sorted(f.pages, f.next) /\ (f.next = 0 <=> f.pages = <<>>)
        /\ f.pages # <<>> => Whole(l, f.base, f.pages, f.next, del)
        /\ f.base \subseteq vis /\ BaseOf(f, c) = f.base
    BY <1>1 DEF FetchWell, BaseOf
  <1>5. /\ p.rows \subseteq Reach(l) \cap vis /\ p.next \in {0} \cup p.rows /\ p.next # 0
        /\ \A r \in p.rows : (p.next # 0 => r >= p.next) /\ (f.next # 0 => r < f.next)
        /\ \A r \in (Reach(l) \cap f.base) \ del : (f.next = 0 \/ r < f.next) => r \in p.rows \/ r < p.next
    BY <1>1, <1>4 DEF AnswerWell
  <1> HIDE DEF p
  <1>6. /\ q \in Pages /\ q # <<>> /\ p.next \in Cursor /\ Within(l, q, vis)
        /\ Sorted(q, p.next) /\ Whole(l, f.base, q, p.next, del)
    BY <1>2, <1>3, <1>4, <1>5, Appended
  <1> HIDE DEF q
  <1>7. /\ g.kind = "load" /\ g.pages = q /\ g.next = p.next /\ g.base = f.base /\ g.answer = <<>>
    BY <1>1 DEF FetchRecord
  <1>8. g \in FetchRecord
    <2>1. <<>> \in Seq(Answer)
      OBVIOUS
    <2> QED
      BY <1>1, <1>6, <2>1 DEF FetchRecord
  <1> HIDE DEF g
  <1>9. FetchWell(l, g, c, vis, del)
    BY <1>4, <1>5, <1>6, <1>7, <1>8 DEF FetchWell
  <1> QED
    BY <1>9 DEF g, q, p
-----------------------------------------------------------------------------
(***************************************************************************)
(* The invariant.                                                          *)
(***************************************************************************)
Shapes ==
  /\ visible \in SUBSET Result /\ deleted \subseteq visible
  /\ dog \in {"kept", "sent", "served", "gone"}
  /\ shown \in List \cup {"none"}
  /\ selected \in [on : BOOLEAN, ids : SUBSET Result]
  /\ removal \in [pc : {"none", "sent", "served", "failed"}, ids : SUBSET Result, here : BOOLEAN]
  /\ acts \in 0 .. MaxAct /\ faults \in 0 .. MaxFault

Lists ==
  /\ list \in [List -> CacheRecord] /\ fetch \in [List -> FetchRecord]
  /\ \A l \in List : /\ ListWell(l, list[l], visible, Dead(l, dog, deleted))
                     /\ FetchWell(l, fetch[l], list[l], visible, Dead(l, dog, deleted))

\* What is ticked is on the screen, and is not too much for one deletion.
Ticks ==
  /\ selected.on => shown \in List /\ selected.ids \subseteq Reach(shown)
  /\ ~selected.on => selected.ids = {}
  /\ Cardinality(selected.ids) <= Limit /\ selected.ids \subseteq visible

Removals ==
  /\ Cardinality(removal.ids) <= Limit /\ removal.ids \subseteq visible
  /\ removal.pc = "served" => removal.ids \subseteq deleted
  /\ remembered \subseteq deleted

\* Refused is only what asks for the list of a dog that is gone.
Refusals == refused \subseteq (IF DogGone THEN {"pet"} ELSE {})

LibInv == Shapes /\ Lists /\ Ticks /\ Removals /\ Refusals

LEMMA ListsHold ==
  ASSUME visible' = visible, \A l \in List : Dead(l, dog', deleted') = Dead(l, dog, deleted),
         list' = [l \in List |-> list'[l]], fetch' = [l \in List |-> fetch'[l]],
         \A l \in List : /\ ListWell(l, list'[l], visible, Dead(l, dog, deleted))
                         /\ FetchWell(l, fetch'[l], list'[l], visible, Dead(l, dog, deleted))
  PROVE  Lists'
  <1>1. \A l \in List : list'[l] \in CacheRecord /\ fetch'[l] \in FetchRecord
    BY DEF ListWell, FetchWell
  <1>2. list' \in [List -> CacheRecord] /\ fetch' \in [List -> FetchRecord]
    BY <1>1
  <1>3. \A l \in List : /\ ListWell(l, list'[l], visible', Dead(l, dog', deleted'))
                        /\ FetchWell(l, fetch'[l], list'[l], visible', Dead(l, dog', deleted'))
    OBVIOUS
  <1> QED
    BY <1>2, <1>3 DEF Lists, ListWell, FetchWell, Within, Sorted, Whole, Held, AnswerWell, BaseOf, Dead

LEMMA OneList ==
  ASSUME Lists, visible' = visible, deleted' = deleted, dog' = dog, NEW l \in List, NEW c, NEW f,
         list' = [list EXCEPT ![l] = c], fetch' = [fetch EXCEPT ![l] = f],
         ListWell(l, c, visible, Dead(l, dog, deleted)), FetchWell(l, f, c, visible, Dead(l, dog, deleted))
  PROVE  Lists'
  <1>1. list' = [k \in List |-> list'[k]] /\ fetch' = [k \in List |-> fetch'[k]]
    BY DEF Lists
  <1>2. \A k \in List : /\ ListWell(k, list'[k], visible, Dead(k, dog, deleted))
                        /\ FetchWell(k, fetch'[k], list'[k], visible, Dead(k, dog, deleted))
    BY DEF Lists
  <1> QED
    BY <1>1, <1>2, ListsHold

\* Only the fetch of a list changes.
LEMMA OneFetch ==
  ASSUME Lists, visible' = visible, deleted' = deleted, dog' = dog, NEW l \in List, NEW f,
         list' = list, fetch' = [fetch EXCEPT ![l] = f],
         FetchWell(l, f, list[l], visible, Dead(l, dog, deleted))
  PROVE  Lists'
  <1>1. list' = [list EXCEPT ![l] = list[l]] /\ ListWell(l, list[l], visible, Dead(l, dog, deleted))
    BY DEF Lists
  <1> QED
    BY <1>1, OneList

LEMMA ListsGrow ==
  ASSUME Shapes, Lists, visible \subseteq visible', visible' \subseteq Result, UNCHANGED <<list, fetch>>,
         deleted \subseteq deleted', DogGone => DogGone'
  PROVE  Lists'
  <1>0. \A l : Dead(l, dog, deleted) \subseteq Dead(l, dog', deleted')
    BY DEF Dead, DogGone, Shapes
  <1>1. \A l \in List : /\ ListWell(l, list[l], visible', Dead(l, dog', deleted'))
                        /\ FetchWell(l, fetch[l], list[l], visible', Dead(l, dog', deleted'))
    BY <1>0, MoreShown DEF Lists
  <1> QED
    BY <1>1 DEF Lists, ListWell, FetchWell, Within, Sorted, Whole, Held, AnswerWell, BaseOf, Dead

\* The steps of the cache.
LEMMA FetchSteps ==
  ASSUME LibraryAssumption, Shapes, Lists, NEW l \in List, Read(l) \/ Arrive(l) \/ FetchFails(l)
  PROVE  Lists'
  <1> DEFINE c == list[l]
             f == fetch[l]
             p == f.answer[1]
  <1>1. /\ visible' = visible /\ deleted' = deleted /\ dog' = dog /\ visible \subseteq Result
        /\ list \in [List -> CacheRecord] /\ fetch \in [List -> FetchRecord]
        /\ f \in FetchRecord /\ c \in CacheRecord
        /\ ListWell(l, c, visible, Dead(l, dog, deleted)) /\ FetchWell(l, f, c, visible, Dead(l, dog, deleted))
    BY DEF Read, Arrive, FetchFails, server, Shapes, Lists
  <1>2. FetchWell(l, NoFetch, c, visible, Dead(l, dog, deleted))
    BY <1>1, Begun
  <1>3. CASE FetchFails(l)
    <2>1. list' = list /\ fetch' = [fetch EXCEPT ![l] = NoFetch]
      BY <1>3 DEF FetchFails
    <2> QED
      BY <1>1, <1>2, <2>1, OneFetch
  <1>4. CASE Read(l)
    <2>1. list' = list /\ f.kind # "none"
      BY <1>4 DEF Read
    <2>2. CASE fetch' = [fetch EXCEPT ![l] = NoFetch]
      BY <1>1, <1>2, <2>1, <2>2, OneFetch
    <2>3. CASE fetch' = [fetch EXCEPT ![l].answer = <<Page(l, f.next)>>]
      <3> DEFINE g == [f EXCEPT !.answer = <<Page(l, f.next)>>]
      <3>1. FetchWell(l, g, c, visible, Dead(l, dog, deleted))
        BY <1>1, <2>1, Answered
      <3>2. fetch' = [fetch EXCEPT ![l] = g]
        BY <1>1, <2>3
      <3> HIDE DEF g
      <3> QED
        BY <1>1, <2>1, <3>1, <3>2, OneFetch
    <2> QED
      BY <1>4, <2>2, <2>3 DEF Read
  <1>5. CASE Arrive(l)
    <2>1. f.answer # <<>>
      BY <1>5 DEF Arrive
    <2>2. CASE /\ f.kind # "more" /\ p.next # 0 /\ list' = list
               /\ fetch' = [fetch EXCEPT ![l].pages = Append(f.pages, p.rows),
                                         ![l].next = p.next, ![l].answer = <<>>]
      <3> DEFINE g == [f EXCEPT !.pages = Append(f.pages, p.rows), !.next = p.next, !.answer = <<>>]
      <3>1. FetchWell(l, g, c, visible, Dead(l, dog, deleted))
        BY <1>1, <2>1, <2>2, WentOn
      <3>2. fetch' = [fetch EXCEPT ![l] = g]
        BY <1>1, <2>2
      <3> HIDE DEF g
      <3> QED
        BY <1>1, <2>2, <3>1, <3>2, OneFetch
    <2>3. CASE /\ fetch' = [fetch EXCEPT ![l] = NoFetch]
               /\ list' = [list EXCEPT ![l] =
                    [pages |-> IF f.kind = "more" THEN c.pages \o Append(f.pages, p.rows)
                               ELSE Append(f.pages, p.rows),
                     next |-> p.next, base |-> IF f.kind = "more" THEN c.base ELSE f.base,
                     loaded |-> TRUE, stale |-> FALSE]]
      <3> DEFINE d == [pages |-> IF f.kind = "more" THEN c.pages \o Append(f.pages, p.rows)
                                 ELSE Append(f.pages, p.rows),
                       next |-> p.next, base |-> IF f.kind = "more" THEN c.base ELSE f.base,
                       loaded |-> TRUE, stale |-> FALSE]
      <3>1. ListWell(l, d, visible, Dead(l, dog, deleted)) /\ FetchWell(l, NoFetch, d, visible, Dead(l, dog, deleted))
        BY <1>1, <2>1, Filled
      <3>2. list' = [list EXCEPT ![l] = d]
        BY <2>3
      <3> HIDE DEF d
      <3> QED
        BY <1>1, <2>3, <3>1, <3>2, OneList
    <2> QED
      BY <1>5, <2>2, <2>3 DEF Arrive
  <1> QED
    BY <1>3, <1>4, <1>5

\* The steps of the screen that begin a fetch.
LEMMA ScreenSteps ==
  ASSUME LibraryAssumption, Shapes, Lists,
         (\E l \in List \cup {"none"} : Turn(l)) \/ Retry \/ More
  PROVE  Lists'
  <1>1. /\ visible' = visible /\ deleted' = deleted /\ dog' = dog /\ visible \subseteq Result
        /\ list \in [List -> CacheRecord] /\ fetch \in [List -> FetchRecord]
    BY DEF Turn, Retry, More, server, Shapes, Lists
  <1>2. \A l \in List : /\ ListWell(l, list[l], visible, Dead(l, dog, deleted))
                        /\ FetchWell(l, fetch[l], list[l], visible, Dead(l, dog, deleted))
    BY DEF Lists
  <1>3. \A l, c : FetchWell(l, Loading, c, visible, Dead(l, dog, deleted))
    BY <1>1, Begun DEF Loading
  <1>4. CASE \E l \in List \cup {"none"} : Turn(l)
    <2>1. list' = list /\ fetch' = [k \in List |-> fetch'[k]]
            /\ \A k \in List : fetch'[k] \in {Loading, fetch[k]}
      BY <1>4 DEF Turn, Loaded
    <2>2. list' = [k \in List |-> list'[k]]
      BY <1>1, <2>1
    <2>3. \A k \in List : /\ ListWell(k, list'[k], visible, Dead(k, dog, deleted))
                          /\ FetchWell(k, fetch'[k], list'[k], visible, Dead(k, dog, deleted))
      BY <1>2, <1>3, <2>1
    <2> QED
      BY <1>1, <2>1, <2>2, <2>3, ListsHold
  <1>5. CASE Retry
    <2>1. shown \in List /\ list' = list /\ fetch' = [fetch EXCEPT ![shown] = Loading]
      BY <1>5 DEF Retry
    <2> QED
      BY <1>1, <1>3, <2>1, OneFetch
  <1>6. CASE More
    <2> DEFINE f == [NoFetch EXCEPT !.kind = "more", !.next = list[shown].next]
    <2>1. shown \in List /\ list[shown].next # 0 /\ list' = list /\ fetch' = [fetch EXCEPT ![shown] = f]
      BY <1>6 DEF More
    <2>2. FetchWell(shown, f, list[shown], visible, Dead(shown, dog, deleted))
      BY <1>2, <2>1, BegunMore
    <2> HIDE DEF f
    <2> QED
      BY <1>1, <2>1, <2>2, OneFetch
  <1> QED
    BY <1>4, <1>5, <1>6

\* An invalidation.
LEMMA InvalidationStep ==
  ASSUME LibraryAssumption, Shapes, Lists, Invalidated, visible' = visible,
         \A l \in List : Dead(l, dog', deleted') = Dead(l, dog, deleted)
  PROVE  Lists'
  <1>1. /\ list' = [l \in List |-> [list[l] EXCEPT !.stale = TRUE]]
        /\ fetch' = [l \in List |-> IF l = shown THEN Restarted(l) ELSE fetch[l]]
    BY DEF Invalidated
  <1>2. ASSUME NEW l \in List
        PROVE  /\ ListWell(l, list'[l], visible, Dead(l, dog, deleted))
               /\ FetchWell(l, fetch'[l], list'[l], visible, Dead(l, dog, deleted))
    <2> DEFINE d == [list[l] EXCEPT !.stale = TRUE]
    <2>1. /\ ListWell(l, list[l], visible, Dead(l, dog, deleted))
          /\ FetchWell(l, fetch[l], list[l], visible, Dead(l, dog, deleted))
      BY DEF Lists
    <2>2. list'[l] = d
      BY <1>1
    <2>3. ListWell(l, d, visible, Dead(l, dog, deleted)) /\ FetchWell(l, fetch[l], d, visible, Dead(l, dog, deleted))
      BY <2>1, Staled
    <2> HIDE DEF d
    <2>4. FetchWell(l, Loading, d, visible, Dead(l, dog, deleted))
      BY Begun DEF Loading, Shapes
    <2>5. fetch'[l] \in {Loading, fetch[l]}
      BY <1>1 DEF Restarted
    <2> QED
      BY <2>2, <2>3, <2>4, <2>5
  <1>3. list' = [l \in List |-> list'[l]] /\ fetch' = [l \in List |-> fetch'[l]]
    BY <1>1
  <1> QED
    BY <1>2, <1>3, ListsHold

LEMMA Counting ==
  ASSUME LibraryAssumption, NEW ids \in SUBSET Result
  PROVE  /\ Cardinality(ids) \in Nat
         /\ \A T \in SUBSET ids : Cardinality(T) <= Cardinality(ids)
         /\ \A r \in Result : Cardinality(ids \cup {r}) <= Cardinality(ids) + 1
         /\ Cardinality({}) <= Limit /\ \A r \in Result : Cardinality({r}) <= Limit
  <1>1. IsFiniteSet(ids)
    BY Constants, FS_Subset
  <1>2. Cardinality(ids) \in Nat
    BY <1>1, FS_CardinalityType
  <1>3. \A T \in SUBSET ids : Cardinality(T) <= Cardinality(ids)
    BY <1>1, FS_Subset
  <1>4. \A r \in Result : Cardinality(ids \cup {r}) <= Cardinality(ids) + 1
    <2>1. ASSUME NEW r \in Result
          PROVE  Cardinality(ids \cup {r}) <= Cardinality(ids) + 1
      <3>1. Cardinality(ids \cup {r}) = IF r \in ids THEN Cardinality(ids) ELSE Cardinality(ids) + 1
        BY <1>1, FS_AddElement
      <3> QED
        BY <1>2, <3>1
    <2> QED
      BY <2>1
  <1>5. Cardinality({}) <= Limit /\ \A r \in Result : Cardinality({r}) <= Limit
    <2>1. Cardinality({}) = 0 /\ \A r : Cardinality({r}) = 1
      BY FS_EmptySet, FS_Singleton
    <2>2. 0 <= Limit /\ 1 <= Limit
      BY Constants
    <2> QED
      BY <2>1, <2>2, Zenon
  <1> QED
    BY <1>2, <1>3, <1>4, <1>5

LEMMA ItemsAreShown ==
  ASSUME Lists, NEW l \in List
  PROVE  Items(l) \subseteq Reach(l) \cap visible
  BY DEF Lists, ListWell, Within, Items

LEMMA Acts ==
  ASSUME LibraryAssumption, Shapes
  PROVE  (Act => acts' \in 0 .. MaxAct) /\ (Fault => faults' \in 0 .. MaxFault)
  BY Constants DEF Shapes, Act, Fault

\* The steps that tick.
LEMMA TickSteps ==
  ASSUME LibraryAssumption, LibInv, StartSelecting \/ Cancel \/ \E r \in Result : Toggle(r)
  PROVE  LibInv'
  <1>1. /\ UNCHANGED <<visible, deleted, dog, shown, list, fetch, removal, remembered, refused, acts, faults>>
        /\ selected \in [on : BOOLEAN, ids : SUBSET Result]
    BY DEF StartSelecting, Cancel, Toggle, server, cached, LibInv, Shapes
  <1>2. ASSUME selected' \in [on : BOOLEAN, ids : SUBSET Result],
               selected'.on => shown \in List /\ selected'.ids \subseteq Reach(shown),
               ~selected'.on => selected'.ids = {},
               Cardinality(selected'.ids) <= Limit, selected'.ids \subseteq visible
        PROVE  LibInv'
    <2>1. Lists'
      BY <1>1, ListsGrow DEF LibInv, Shapes, DogGone
    <2>2. Ticks'
      BY <1>1, <1>2 DEF Ticks
    <2>3. Shapes' /\ Removals' /\ Refusals'
      BY <1>1, <1>2 DEF LibInv, Shapes, Removals, Refusals, DogGone
    <2> QED
      BY <2>1, <2>2, <2>3 DEF LibInv
  <1>3. CASE Cancel
    <2>1. selected' = NotSelecting
      BY <1>3 DEF Cancel
    <2>2. NotSelecting \in [on : BOOLEAN, ids : SUBSET Result] /\ ~NotSelecting.on /\ NotSelecting.ids = {}
      BY DEF NotSelecting
    <2>3. Cardinality({}) <= Limit
      BY Counting
    <2> QED
      BY <1>2, <2>1, <2>2, <2>3
  <1>4. CASE StartSelecting
    <2>1. OnScreen # {} /\ OnScreen = Items(shown) /\ shown \in List
      BY <1>4 DEF StartSelecting, OnScreen
    <2>2. PICK ids \in {{}} \cup {{r} : r \in OnScreen} : selected' = [on |-> TRUE, ids |-> ids]
      BY <1>4 DEF StartSelecting
    <2>3. OnScreen \subseteq Reach(shown) \cap visible /\ OnScreen \subseteq Result
      BY <2>1, ItemsAreShown, Constants DEF LibInv
    <2>4. ids \in SUBSET Result /\ ids \subseteq Reach(shown) /\ ids \subseteq visible /\ Cardinality(ids) <= Limit
      BY <2>2, <2>3, Counting
    <2> QED
      BY <1>2, <2>1, <2>2, <2>4
  <1>5. CASE \E r \in Result : Toggle(r)
    <2>1. PICK r \in Result : Toggle(r)
      BY <1>5
    <2>2. selected.on /\ r \in Items(shown) /\ shown \in List
      BY <2>1 DEF Toggle, OnScreen
    <2>3. r \in Reach(shown) /\ r \in visible
      BY <2>2, ItemsAreShown DEF LibInv
    <2>4. /\ selected.ids \in SUBSET Result /\ selected.ids \subseteq Reach(shown)
          /\ selected.ids \subseteq visible /\ Cardinality(selected.ids) <= Limit
      BY <1>1, <2>2 DEF LibInv, Ticks
    <2>5. CASE selected' = [selected EXCEPT !.ids = selected.ids \ {r}]
      <3>1. selected' = [on |-> TRUE, ids |-> selected.ids \ {r}]
        BY <1>1, <2>2, <2>5
      <3>2. Cardinality(selected.ids \ {r}) <= Limit
        <4> DEFINE T == selected.ids \ {r}
        <4>1. T \in SUBSET selected.ids /\ T \in SUBSET Result
          BY <2>4
        <4> HIDE DEF T
        <4>2. Cardinality(T) <= Cardinality(selected.ids) /\ Cardinality(T) \in Nat
                /\ Cardinality(selected.ids) \in Nat
          BY <2>4, <4>1, Counting
        <4> QED
          BY <2>4, <4>2, Constants DEF T
      <3> QED
        BY <1>2, <2>2, <2>4, <3>1, <3>2
    <2>6. CASE Fits(selected.ids) /\ selected' = [selected EXCEPT !.ids = selected.ids \cup {r}]
      <3>1. selected' = [on |-> TRUE, ids |-> selected.ids \cup {r}]
        BY <1>1, <2>2, <2>6
      <3>2. Cardinality(selected.ids \cup {r}) <= Limit
        <4> DEFINE T == selected.ids \cup {r}
        <4>1. Cardinality(T) <= Cardinality(selected.ids) + 1 /\ Cardinality(selected.ids) \in Nat
          BY <2>4, Counting
        <4>2. T \in SUBSET Result
          BY <2>4
        <4> HIDE DEF T
        <4>3. Cardinality(T) \in Nat
          BY <4>2, Counting
        <4> QED
          BY <2>6, <4>1, <4>3, Constants DEF Fits, T
      <3>3. selected.ids \cup {r} \in SUBSET Result /\ selected.ids \cup {r} \subseteq Reach(shown)
              /\ selected.ids \cup {r} \subseteq visible
        BY <2>3, <2>4
      <3> QED
        BY <1>2, <2>2, <3>1, <3>2, <3>3
    <2> QED
      BY <2>1, <2>5, <2>6 DEF Toggle
  <1> QED
    BY <1>3, <1>4, <1>5

\* The steps of a deletion.
LEMMA DeletionSteps ==
  ASSUME LibraryAssumption, LibInv, Delete \/ ServeDelete \/ Deleted \/ DeleteFails
  PROVE  LibInv'
  <1> DEFINE Removal == [pc : {"none", "sent", "served", "failed"}, ids : SUBSET Result, here : BOOLEAN]
  <1>1. removal \in Removal /\ selected \in [on : BOOLEAN, ids : SUBSET Result] /\ deleted \subseteq visible
    BY DEF LibInv, Shapes
  <1>2. visible' = visible /\ dog' = dog /\ shown' = shown /\ acts' \in 0 .. MaxAct /\ faults' \in 0 .. MaxFault
    BY Acts DEF Delete, ServeDelete, Deleted, DeleteFails, server, LibInv, Shapes
  <1>3. CASE Delete
    <2>1. UNCHANGED <<deleted, list, fetch, selected, remembered, refused>>
      BY <1>3 DEF Delete, server, cached
    <2>2. removal' = [pc |-> "sent", ids |-> Ticked, here |-> TRUE]
      BY <1>3 DEF Delete
    <2>3. Ticked \in SUBSET selected.ids /\ selected.ids \in SUBSET Result
      BY <1>1 DEF Ticked
    <2>4. Cardinality(Ticked) <= Cardinality(selected.ids) /\ Cardinality(selected.ids) <= Limit
            /\ Cardinality(Ticked) \in Nat /\ Cardinality(selected.ids) \in Nat
      BY <2>3, Counting DEF LibInv, Ticks
    <2>5. Removals'
      BY <1>2, <2>1, <2>2, <2>3, <2>4, Constants DEF LibInv, Ticks, Removals
    <2>6. Lists'
      BY <1>2, <2>1, ListsGrow DEF LibInv, Shapes, DogGone
    <2>7. Shapes' /\ Ticks' /\ Refusals'
      BY <1>1, <1>2, <2>1, <2>2, <2>3 DEF LibInv, Shapes, Ticks, Refusals, DogGone
    <2> QED
      BY <2>5, <2>6, <2>7 DEF LibInv
  <1>4. CASE ServeDelete
    <2>1. UNCHANGED <<list, fetch, selected, remembered>>
      BY <1>4 DEF ServeDelete, cached
    <2>2. /\ deleted' = deleted \cup removal.ids /\ removal' = [removal EXCEPT !.pc = "served"]
          /\ refused' = refused
      BY <1>1, <1>4, Counting, Constants DEF ServeDelete, LibInv, Removals
    <2>3. removal' \in Removal /\ removal'.ids = removal.ids /\ removal.ids \subseteq visible
      BY <1>1, <2>2 DEF LibInv, Removals
    <2>4. Removals'
      BY <1>2, <2>1, <2>2, <2>3 DEF LibInv, Removals
    <2>5. Lists'
      BY <1>2, <2>1, <2>2, ListsGrow DEF LibInv, Shapes, DogGone
    <2>6. Shapes' /\ Ticks' /\ Refusals'
      BY <1>1, <1>2, <2>1, <2>2, <2>3 DEF LibInv, Shapes, Ticks, Refusals, DogGone
    <2> QED
      BY <2>4, <2>5, <2>6 DEF LibInv
  <1>5. CASE Deleted
    <2>1. deleted' = deleted /\ refused' = refused /\ removal.pc = "served" /\ removal' = NoRemoval
      BY <1>5 DEF Deleted, server
    <2>2. \/ remembered' = remembered \cup removal.ids /\ selected' = NotSelecting
          \/ remembered' = remembered /\ selected' = selected
      BY <1>5 DEF Deleted, Remember
    <2>3. NoRemoval \in Removal /\ NoRemoval.ids = {} /\ NoRemoval.pc = "none"
      BY DEF NoRemoval
    <2>4. Removals'
      BY <1>2, <2>1, <2>2, <2>3, Counting DEF LibInv, Removals
    <2>5. Lists'
      BY <1>2, <1>5, <2>1, InvalidationStep DEF Deleted, LibInv
    <2>6. NotSelecting \in [on : BOOLEAN, ids : SUBSET Result] /\ ~NotSelecting.on /\ NotSelecting.ids = {}
      BY DEF NotSelecting
    <2>7. selected' \in [on : BOOLEAN, ids : SUBSET Result]
      BY <1>1, <2>2, <2>6
    <2>8. Ticks'
      <3>1. CASE selected' = selected
        BY <1>2, <3>1 DEF LibInv, Ticks
      <3>2. CASE selected' = NotSelecting
        BY <2>6, <3>2, Counting DEF Ticks
      <3> QED
        BY <2>2, <3>1, <3>2
    <2>9. Shapes' /\ Refusals'
      BY <1>2, <2>1, <2>3, <2>7 DEF LibInv, Shapes, Refusals, DogGone
    <2> QED
      BY <2>1, <2>4, <2>5, <2>8, <2>9 DEF LibInv
  <1>6. CASE DeleteFails
    <2>1. UNCHANGED <<deleted, list, fetch, selected, refused>> /\ remembered' = remembered
            /\ removal' = [removal EXCEPT !.pc = "failed"]
      BY <1>6 DEF DeleteFails, server, cached, Remember
    <2>2. removal' \in Removal /\ removal'.ids = removal.ids /\ removal'.pc = "failed"
      BY <1>1, <2>1
    <2>3. Removals'
      BY <1>2, <2>1, <2>2 DEF LibInv, Removals
    <2>4. Lists'
      BY <1>2, <2>1, ListsGrow DEF LibInv, Shapes, DogGone
    <2>5. Shapes' /\ Ticks' /\ Refusals'
      BY <1>2, <2>1, <2>2 DEF LibInv, Shapes, Ticks, Refusals, DogGone
    <2> QED
      BY <2>3, <2>4, <2>5 DEF LibInv
  <1> QED
    BY <1>3, <1>4, <1>5, <1>6

\* Another list or screen: nothing is ticked there.
LEMMA ShowStep ==
  ASSUME LibraryAssumption, LibInv, NEW l \in List \cup {"none"}, Show(l) \/ (l = "all" /\ DropFilter)
  PROVE  LibInv'
  <1> DEFINE here == removal.here /\ l # "none" /\ shown # "none"
  <1>1. /\ UNCHANGED <<visible, deleted, dog, remembered, refused, faults>> /\ acts' \in 0 .. MaxAct
        /\ shown' = l /\ selected' = NotSelecting /\ removal' = [removal EXCEPT !.here = here]
    BY Acts DEF Show, DropFilter, Turn, server, TicksAfter, LibInv, Shapes
  <1>2. here \in BOOLEAN
    BY DEF LibInv, Shapes
  <1> HIDE DEF here
  <1>3. /\ removal' \in [pc : {"none", "sent", "served", "failed"}, ids : SUBSET Result, here : BOOLEAN]
        /\ removal'.pc = removal.pc /\ removal'.ids = removal.ids
    BY <1>1, <1>2 DEF LibInv, Shapes
  <1>4. NotSelecting \in [on : BOOLEAN, ids : SUBSET Result] /\ ~NotSelecting.on /\ NotSelecting.ids = {}
    BY DEF NotSelecting
  <1>5. Lists'
    BY ScreenSteps DEF Show, DropFilter, LibInv
  <1>6. Ticks'
    BY <1>1, <1>4, Counting DEF Ticks
  <1>7. Removals'
    BY <1>1, <1>3 DEF LibInv, Removals
  <1>8. Shapes' /\ Refusals'
    BY <1>1, <1>3, <1>4 DEF LibInv, Shapes, Refusals, DogGone
  <1> QED
    BY <1>5, <1>6, <1>7, <1>8 DEF LibInv

\* The steps of the server and of the cache.
LEMMA OtherSteps ==
  ASSUME LibraryAssumption, LibInv,
         \/ \E r \in Result : Appear(r) \/ DeleteElsewhere(r)
         \/ \E l \in List : Read(l) \/ Arrive(l) \/ FetchFails(l)
         \/ Retry \/ More
  PROVE  LibInv'
  <1>1. /\ UNCHANGED <<dog, shown, selected, removal, remembered>>
        /\ visible \subseteq visible' /\ visible' \subseteq Result
        /\ deleted \subseteq deleted' /\ deleted' \subseteq visible'
        /\ acts' \in 0 .. MaxAct /\ faults' \in 0 .. MaxFault
    <2>1. visible \subseteq Result /\ deleted \subseteq visible /\ acts \in 0 .. MaxAct /\ faults \in 0 .. MaxFault
      BY DEF LibInv, Shapes
    <2>2. CASE \E r \in Result : Appear(r) \/ DeleteElsewhere(r)
      BY <2>1, <2>2, Acts DEF Appear, DeleteElsewhere, LibInv
    <2>3. CASE \E l \in List : Read(l) \/ Arrive(l) \/ FetchFails(l)
      BY <2>1, <2>3, Acts DEF Read, Arrive, FetchFails, server, LibInv
    <2>4. CASE Retry \/ More
      BY <2>1, <2>4 DEF Retry, More, server
    <2> QED
      BY <2>2, <2>3, <2>4
  <1>2. Shapes' /\ Ticks' /\ Removals'
    BY <1>1 DEF LibInv, Shapes, Ticks, Removals
  <1>3. Lists'
    <2>1. CASE \E r \in Result : Appear(r) \/ DeleteElsewhere(r)
      BY <1>1, <2>1, ListsGrow DEF Appear, DeleteElsewhere, cached, LibInv, DogGone
    <2>2. CASE \E l \in List : Read(l) \/ Arrive(l) \/ FetchFails(l)
      BY <2>2, FetchSteps DEF LibInv
    <2>3. CASE Retry \/ More
      BY <2>3, ScreenSteps DEF LibInv
    <2> QED
      BY <2>1, <2>2, <2>3
  <1>4. Refusals'
    <2>1. ASSUME NEW l \in List, Read(l)
          PROVE  Refusals'
      <3>1. CursorKnown(l, fetch[l].next) \/ (l = "pet" /\ DogGone)
        BY DEF LibInv, Lists, FetchWell, CursorKnown, Scope
      <3>2. refused' = refused \/ (l = "pet" /\ DogGone /\ refused' = refused \cup {l})
        BY <2>1, <3>1 DEF Read
      <3> QED
        BY <1>1, <3>2 DEF LibInv, Refusals, DogGone
    <2>2. CASE ~\E l \in List : Read(l)
      <3>1. refused' = refused
        BY <2>2 DEF Appear, DeleteElsewhere, Arrive, FetchFails, Retry, More
      <3> QED
        BY <1>1, <3>1 DEF LibInv, Refusals, DogGone
    <2> QED
      BY <2>1, <2>2
  <1> QED
    BY <1>2, <1>3, <1>4 DEF LibInv

\* The steps of the deletion of a dog.
LEMMA DogSteps ==
  ASSUME LibraryAssumption, LibInv,
         RemoveDog \/ RemoveDogElsewhere \/ ServeRemoveDog \/ DogRemoved \/ RemoveDogFails
  PROVE  LibInv'
  <1>1. /\ UNCHANGED <<visible, deleted, shown, selected, removal, remembered, refused>>
        /\ dog' \in {"kept", "sent", "served", "gone"} /\ (DogGone => DogGone')
        /\ acts' \in 0 .. MaxAct /\ faults' \in 0 .. MaxFault
    BY Acts DEF RemoveDog, RemoveDogElsewhere, ServeRemoveDog, DogRemoved, RemoveDogFails,
                DogGone, LibInv, Shapes
  <1>2. Shapes' /\ Ticks' /\ Removals' /\ Refusals'
    BY <1>1 DEF LibInv, Shapes, Ticks, Removals, Refusals
  <1>3. Lists'
    <2>1. CASE DogRemoved
      <3>1. Invalidated /\ \A l \in List : Dead(l, dog', deleted') = Dead(l, dog, deleted)
        BY <1>1, <2>1 DEF DogRemoved, Dead
      <3> QED
        BY <1>1, <3>1, InvalidationStep DEF LibInv
    <2>2. CASE RemoveDog \/ RemoveDogElsewhere \/ ServeRemoveDog \/ RemoveDogFails
      <3>1. UNCHANGED <<list, fetch>>
        BY <2>2 DEF RemoveDog, RemoveDogElsewhere, ServeRemoveDog, RemoveDogFails, cached
      <3> QED
        BY <1>1, <3>1, ListsGrow DEF LibInv, Shapes
    <2> QED
      BY <2>1, <2>2
  <1> QED
    BY <1>2, <1>3 DEF LibInv

LEMMA LibInit ==
  ASSUME LibraryAssumption, Init
  PROVE  LibInv
  <1>1. visible \in SUBSET Result /\ deleted = {} /\ shown = "none" /\ remembered = {} /\ refused = {} /\ dog = "kept"
          /\ acts = 0 /\ faults = 0 /\ selected = NotSelecting /\ removal = NoRemoval
          /\ list = [l \in List |-> NoPages] /\ fetch = [l \in List |-> NoFetch]
    BY DEF Init
  <1>2. NotSelecting \in [on : BOOLEAN, ids : SUBSET Result] /\ ~NotSelecting.on /\ NotSelecting.ids = {}
    BY DEF NotSelecting
  <1>3. /\ NoRemoval \in [pc : {"none", "sent", "served", "failed"}, ids : SUBSET Result, here : BOOLEAN]
        /\ NoRemoval.ids = {} /\ NoRemoval.pc = "none"
    BY DEF NoRemoval
  <1>4. Shapes
    BY <1>1, <1>2, <1>3, Constants DEF Shapes
  <1>5. Ticks /\ Removals /\ Refusals
    BY <1>1, <1>2, <1>3, Counting DEF Ticks, Removals, Refusals
  <1>6. \A l : /\ ListWell(l, NoPages, visible, Dead(l, dog, deleted))
               /\ FetchWell(l, NoFetch, NoPages, visible, Dead(l, dog, deleted))
    BY <1>1, Begun
  <1>7. NoPages \in CacheRecord /\ NoFetch \in FetchRecord
    BY <1>6 DEF ListWell, FetchWell
  <1>8. Lists
    BY <1>1, <1>6, <1>7 DEF Lists
  <1> QED
    BY <1>4, <1>5, <1>8 DEF LibInv

LEMMA LibStep ==
  ASSUME LibraryAssumption, LibInv, [Next]_vars
  PROVE  LibInv'
  <1>1. CASE UNCHANGED vars
    <2>1. UNCHANGED <<visible, deleted, dog, shown, list, fetch, selected, removal, remembered, refused, acts, faults>>
      BY <1>1 DEF vars, server, cached
    <2>2. Lists'
      BY <2>1, ListsGrow DEF LibInv, Shapes, DogGone
    <2>3. Shapes' /\ Ticks' /\ Removals' /\ Refusals'
      BY <2>1 DEF LibInv, Shapes, Ticks, Removals, Refusals, DogGone
    <2> QED
      BY <2>2, <2>3 DEF LibInv
  <1>2. CASE Next
    BY <1>2, TickSteps, DeletionSteps, ShowStep, OtherSteps, DogSteps DEF Next, List
  <1> QED
    BY <1>1, <1>2

LEMMA LibAlways == Spec => []LibInv
  <1>1. Init => LibInv
    BY LibInit, LibraryAssumption
  <1>2. LibInv /\ [Next]_vars => LibInv'
    BY LibStep, LibraryAssumption
  <1> QED
    BY <1>1, <1>2, PTL DEF Spec
-----------------------------------------------------------------------------
\* The types of the module; a result is ticked only in the list on the screen,
\* whichever lists were shown and read before.
THEOREM LibraryTypeCorrect == Spec => []TypeOK
  <1>1. LibInv => TypeOK
    <2> SUFFICES ASSUME LibInv
                 PROVE  TypeOK
      OBVIOUS
    <2>1. \A l \in List : list[l] \in CacheRecord /\ fetch[l] \in FetchRecord
      BY DEF LibInv, Lists
    <2>2. \A l \in List :
            /\ list[l].next \in {0} \cup Result /\ list[l].stale \in BOOLEAN
            /\ fetch[l].kind \in {"none", "load", "more"}
            /\ \A i \in DOMAIN list[l].pages : list[l].pages[i] \subseteq Reach(l)
      BY <2>1 DEF CacheRecord, FetchRecord, Cursor, LibInv, Lists, ListWell, Within
    <2>3. /\ removal.pc \in {"none", "sent", "served", "failed"} /\ removal.ids \subseteq Result
          /\ selected.on => (shown \in List /\ selected.ids \subseteq Reach(shown))
      BY DEF LibInv, Shapes, Ticks
    <2>4. refused \subseteq List \cup {"removal"}
      BY DEF LibInv, Refusals, List
    <2> QED
      BY <2>2, <2>3, <2>4 DEF TypeOK, LibInv, Shapes
  <1> QED
    BY <1>1, LibAlways, PTL

\* Pages read one by one, while results appear and go, make one list: none is
\* shown twice, and none that was there when the list was begun is missed.
THEOREM PagesMakeOneList == Spec => []ListIsSound
  <1>1. LibInv => ListIsSound
    <2> SUFFICES ASSUME LibInv, NEW l \in List
                 PROVE  /\ \A i, j \in DOMAIN list[l].pages :
                             i < j => \A r \in list[l].pages[i], s \in list[l].pages[j] : r > s
                        /\ list[l].loaded =>
                             \A r \in (Scope(l) \cap list[l].base) \ deleted :
                               r \in Items(l) \/ r < list[l].next
      BY DEF ListIsSound
    <2>1. /\ Sorted(list[l].pages, list[l].next)
          /\ list[l].loaded =>
               Whole(l, list[l].base, list[l].pages, list[l].next, Dead(l, dog, deleted))
      BY DEF LibInv, Lists, ListWell
    <2>2. \A r : Held(list[l].pages, r) => r \in Items(l)
      BY DEF Held, Items
    <2>3. \A r \in Scope(l) \ deleted : r \in Reach(l) \ Dead(l, dog, deleted)
      BY DEF Scope, Dead, DogGone
    <2> QED
      BY <2>1, <2>2, <2>3 DEF Sorted, Whole
  <1> QED
    BY <1>1, LibAlways, PTL

\* The API calls no request of the screen invalid, whatever was deleted behind
\* its cursor and however much was ticked, but one for the list of a dog that is
\* gone.
THEOREM RequestsAreValid == Spec => []NeverRefused
  <1>1. LibInv => NeverRefused
    BY DEF LibInv, Refusals, NeverRefused
  <1> QED
    BY <1>1, LibAlways, PTL

\* What the browser remembers as deleted is deleted, whichever answers were lost.
THEOREM RememberedAreGone == Spec => []RememberedIsGone
  <1>1. LibInv => RememberedIsGone
    BY DEF LibInv, Removals, RememberedIsGone
  <1> QED
    BY <1>1, LibAlways, PTL
=============================================================================
