----------------------------- MODULE InterruptProofs ---------------------------
(***************************************************************************)
(* The inductive invariant of the interrupt simulation (Interrupts), for   *)
(* any threads, and any ticks and delays that are positive.                *)
(*                                                                         *)
(* First the pending list: List::SortedInsert into a list in order, the    *)
(* clock that moves every entry, and the entry that CheckIfDue takes off   *)
(* and puts back.  Then what OneTick, Yield, Sleep and Idle do to the      *)
(* machine status and to the threads.                                      *)
(***************************************************************************)
EXTENDS Interrupts, WellFoundedInduction, TLAPS

\* Time limits of the provers, in seconds, for a step that gives none.
USE SMTT(30), ZenonT(30)

\* The list is sorted, and the timer is on it once, or not at all.
InOrder(q) == \A i, j \in DOMAIN q : i < j => q[i].left <= q[j].left
OneTimer(q) ==
  \E k \in DOMAIN q : \A i \in DOMAIN q : q[i].type = "TimerInt" <=> i = k
NoTimer(q) == \A i \in DOMAIN q : q[i].type # "TimerInt"

\* r holds e and entries of q only.
Inside(r, q, e) == \A i \in DOMAIN r : r[i] = e \/ \E j \in DOMAIN q : r[i] = q[j]

\* The walk of SortedInsert ends at a first later entry, if there is one.
LEMMA LeastExists ==
  ASSUME NEW S, S \subseteq Nat, S # {}
  PROVE  \E m \in S : \A j \in S : m <= j
<1>1. \E m \in S : \A j \in S : ~ (<<j, m>> \in OpToRel(<, Nat))
  BY NatLessThanWellFounded, WFMin, Zenon
<1>2. \A i, j \in Nat : <<i, j>> \in OpToRel(<, Nat) <=> i < j
  BY Zenon DEF OpToRel
<1>3. PICK m \in S : \A j \in S : ~ (<<j, m>> \in OpToRel(<, Nat))
  BY <1>1, Zenon
<1>4. \A j \in S : ~ (j < m)
  BY <1>2, <1>3, Zenon
<1>5. \A j \in S : m <= j
  BY <1>4
<1> QED
  BY <1>5, Zenon

\* q with e put behind its first k entries.
Inserted(q, e, k) == SubSeq(q, 1, k) \o <<e>> \o SubSeq(q, k + 1, Len(q))

\* SortedInsert puts e behind the entries that are not later.
LEMMA InsertPlace ==
  ASSUME NEW q \in Seq(Entry), NEW e \in Entry
  PROVE  \E k \in 0 .. Len(q) :
           /\ SortedInsert(q, e) = Inserted(q, e, k)
           /\ \A i \in 1 .. k : ~ (e.left < q[i].left)
           /\ k < Len(q) => e.left < q[k + 1].left
<1> DEFINE later == {i \in DOMAIN q : e.left < q[i].left}
<1>1. CASE later = {}
  <2>1. SortedInsert(q, e) = Inserted(q, e, Len(q))
    BY <1>1, Zenon DEF SortedInsert, Inserted
  <2>2. Len(q) \in 0 .. Len(q) /\ \A i \in 1 .. Len(q) : ~ (e.left < q[i].left)
    BY <1>1
  <2>3. ~ (Len(q) < Len(q))
    OBVIOUS
  <2> HIDE DEF later
  <2> WITNESS Len(q) \in 0 .. Len(q)
  <2> QED
    BY <2>1, <2>2, <2>3, Zenon
<1>2. CASE later # {}
  <2> DEFINE m == CHOOSE i \in later : \A j \in later : i <= j
  <2>1. m \in later /\ \A j \in later : m <= j
    <3>1. later \subseteq Nat
      OBVIOUS
    <3>2. \E i \in later : \A j \in later : i <= j
      BY <1>2, <3>1, LeastExists, Zenon
    <3> QED
      BY <3>2, Zenon
  <2>2. SortedInsert(q, e) = Inserted(q, e, m - 1)
    BY <1>2, Zenon DEF SortedInsert, Inserted
  <2>3. m \in 1 .. Len(q) /\ e.left < q[m].left
    BY <2>1
  <2>4. \A i \in 1 .. (m - 1) : ~ (e.left < q[i].left)
    <3> SUFFICES ASSUME NEW i \in 1 .. (m - 1), e.left < q[i].left PROVE FALSE
      BY Zenon
    <3>1. i \in later
      BY <2>3
    <3> QED
      BY <2>1, <2>3, <3>1
  <2> HIDE DEF m, later
  <2>5. m - 1 \in 0 .. Len(q) /\ (m - 1) + 1 = m
    BY <2>3
  <2> QED
    BY <2>2, <2>3, <2>4, <2>5, Zenon
<1> QED
  BY <1>1, <1>2, Zenon

\* r is q with e as its entry k + 1.
IsInserted(q, e, k, r) ==
  /\ r \in Seq(Entry) /\ Len(r) = Len(q) + 1
  /\ \A i \in 1 .. k : r[i] = q[i]
  /\ r[k + 1] = e
  /\ \A i \in (k + 2) .. (Len(q) + 1) : r[i] = q[i - 1]

\* The elements of two sequences put together.
LEMMA Concatenated ==
  ASSUME NEW S, NEW c \in Seq(S), NEW b \in Seq(S)
  PROVE  /\ c \o b \in Seq(S) /\ Len(c \o b) = Len(c) + Len(b)
         /\ \A i \in 1 .. Len(c) : (c \o b)[i] = c[i]
         /\ \A i \in (Len(c) + 1) .. (Len(c) + Len(b)) : (c \o b)[i] = b[i - Len(c)]
OBVIOUS

\* Inserted, entry by entry.
LEMMA InsertAt ==
  ASSUME NEW q \in Seq(Entry), NEW e \in Entry, NEW k \in 0 .. Len(q),
         NEW r, r = Inserted(q, e, k)
  PROVE  IsInserted(q, e, k, r)
<1> DEFINE a == SubSeq(q, 1, k)
           b == SubSeq(q, k + 1, Len(q))
           c == a \o <<e>>
<1>1. a \in Seq(Entry) /\ Len(a) = k /\ \A i \in 1 .. k : a[i] = q[i]
  OBVIOUS
<1>2. /\ b \in Seq(Entry) /\ Len(b) = Len(q) - k
      /\ \A i \in 1 .. (Len(q) - k) : b[i] = q[k + i]
  OBVIOUS
<1>3. <<e>> \in Seq(Entry) /\ Len(<<e>>) = 1 /\ <<e>>[1] = e
  OBVIOUS
<1>4. r = c \o b
  BY Zenon DEF Inserted
<1>5. k \in Nat /\ Len(q) \in Nat /\ k <= Len(q)
  OBVIOUS
<1> HIDE DEF a, b
<1>6. /\ c \in Seq(Entry) /\ Len(c) = k + 1 /\ c[k + 1] = e
      /\ \A i \in 1 .. k : c[i] = a[i]
  BY <1>1, <1>3
<1> HIDE DEF c
<1>7. /\ r \in Seq(Entry) /\ Len(r) = Len(c) + Len(b)
      /\ \A i \in 1 .. Len(c) : r[i] = c[i]
      /\ \A i \in (Len(c) + 1) .. (Len(c) + Len(b)) : r[i] = b[i - Len(c)]
  <2>1. b \in Seq(Entry) /\ c \in Seq(Entry)
    BY <1>2, <1>6, Zenon
  <2> QED
    BY <1>4, <2>1, Concatenated
<1>8. \A i \in (k + 2) .. (Len(q) + 1) : r[i] = q[i - 1]
  <2> TAKE i \in (k + 2) .. (Len(q) + 1)
  <2>1. i \in (Len(c) + 1) .. (Len(c) + Len(b)) /\ i - Len(c) \in 1 .. (Len(q) - k)
    BY <1>2, <1>5, <1>6
  <2>2. r[i] = b[i - Len(c)] /\ b[i - Len(c)] = q[k + (i - Len(c))]
    BY <1>2, <1>7, <2>1, Zenon
  <2>3. k + (i - Len(c)) = i - 1
    BY <1>5, <1>6
  <2> QED
    BY <2>2, <2>3, Zenon
<1>9. \A i \in 1 .. k : r[i] = q[i]
  BY <1>1, <1>5, <1>6, <1>7
<1>10. r[k + 1] = e /\ Len(r) = Len(q) + 1
  BY <1>2, <1>5, <1>6, <1>7
<1> QED
  BY <1>7, <1>8, <1>9, <1>10, Zenon DEF IsInserted

\* SortedInsert keeps the order, brings in e and nothing else.
LEMMA SortedInserted ==
  ASSUME NEW q \in Seq(Entry), NEW e \in Entry, InOrder(q), NEW r, r = SortedInsert(q, e)
  PROVE  /\ r \in Seq(Entry) /\ r # <<>> /\ InOrder(r)
         /\ Inside(r, q, e)
         /\ NoTimer(q) /\ e.type = "TimerInt" => OneTimer(r)
         /\ OneTimer(q) /\ e.type # "TimerInt" => OneTimer(r)
<1>1. PICK k \in 0 .. Len(q) :
        /\ r = Inserted(q, e, k)
        /\ \A i \in 1 .. k : ~ (e.left < q[i].left)
        /\ k < Len(q) => e.left < q[k + 1].left
  BY InsertPlace, Zenon
<1>2. /\ r \in Seq(Entry) /\ Len(r) = Len(q) + 1
      /\ \A i \in 1 .. k : r[i] = q[i]
      /\ r[k + 1] = e
      /\ \A i \in (k + 2) .. (Len(q) + 1) : r[i] = q[i - 1]
  <2>1. r = Inserted(q, e, k)
    BY <1>1, Zenon
  <2>2. IsInserted(q, e, k, r)
    BY <2>1, InsertAt, Zenon
  <2> QED
    BY <2>2, Zenon DEF IsInserted
<1>3. DOMAIN q = 1 .. Len(q) /\ DOMAIN r = 1 .. (Len(q) + 1) /\ Len(q) \in Nat /\ k \in Nat
  BY <1>2
<1>4. e.left \in Int /\ \A i \in DOMAIN q : q[i].left \in Int
  <2>1. \A x \in Entry : x.left \in Int
    BY Zenon DEF Entry
  <2> QED
    BY <2>1
<1>5. \A i \in 1 .. k : r[i].left <= e.left
  <2> TAKE i \in 1 .. k
  <2>1. r[i] = q[i] /\ ~ (e.left < q[i].left)
    BY <1>1, <1>2, Zenon
  <2>2. i \in DOMAIN q
    BY <1>3
  <2>3. q[i].left \in Int
    BY <1>4, <2>2, Zenon
  <2> QED
    BY <1>4, <2>1, <2>3
<1>6. \A i \in (k + 1) .. Len(q) : e.left <= q[i].left
  <2> TAKE i \in (k + 1) .. Len(q)
  <2>1. e.left < q[k + 1].left
    BY <1>1, <1>3
  <2>2. q[k + 1].left <= q[i].left
    BY <1>3, <1>4 DEF InOrder
  <2>3. e.left \in Int /\ q[k + 1].left \in Int /\ q[i].left \in Int
    BY <1>3, <1>4, SMTT(60)
  <2> QED
    BY <2>1, <2>2, <2>3
<1>7. \A i \in DOMAIN r : r[i] = e \/ \E j \in DOMAIN q : r[i] = q[j]
  <2> TAKE i \in DOMAIN r
  <2>1. i \in 1 .. k \/ i = k + 1 \/ i \in (k + 2) .. (Len(q) + 1)
    BY <1>2, <1>3
  <2>2. ASSUME i \in (k + 2) .. (Len(q) + 1) PROVE i - 1 \in DOMAIN q
    BY <1>2, <1>3, <2>2
  <2> QED
    BY <1>2, <1>3, <2>1, <2>2
<1>8. InOrder(r)
  <2> SUFFICES ASSUME NEW i \in DOMAIN r, NEW j \in DOMAIN r, i < j
               PROVE  r[i].left <= r[j].left
    BY Zenon DEF InOrder
  <2>1. CASE j <= k
    BY <1>2, <1>3, <2>1 DEF InOrder
  <2>2. CASE j = k + 1
    BY <1>2, <1>3, <1>5, <2>2
  <2>3. CASE j >= k + 2
    <3>1. r[j] = q[j - 1] /\ j - 1 \in DOMAIN q
      BY <1>2, <1>3, <2>3
    <3>2. CASE i <= k
      BY <1>2, <1>3, <2>3, <3>1, <3>2, SMTT(60) DEF InOrder
    <3>3. CASE i = k + 1
      BY <1>2, <1>3, <1>6, <2>3, <3>1, <3>3
    <3>4. CASE i >= k + 2
      <4>1. r[i] = q[i - 1] /\ i - 1 \in DOMAIN q /\ i - 1 < j - 1
        BY <1>2, <1>3, <3>4, SMTT(60)
      <4> QED
        BY <3>1, <4>1, Zenon DEF InOrder
    <3> QED
      BY <1>3, <3>2, <3>3, <3>4
  <2> QED
    BY <1>3, <2>1, <2>2, <2>3
<1>9. ASSUME NoTimer(q), e.type = "TimerInt" PROVE OneTimer(r)
  <2>1. k + 1 \in DOMAIN r
    BY <1>3
  <2>2. \A i \in DOMAIN r : r[i].type = "TimerInt" <=> i = k + 1
    <3> TAKE i \in DOMAIN r
    <3>1. CASE i <= k
      BY <1>2, <1>3, <1>9, <3>1 DEF NoTimer
    <3>2. CASE i >= k + 2
      <4>1. r[i] = q[i - 1] /\ i - 1 \in DOMAIN q
        BY <1>2, <1>3, <3>2
      <4> QED
        BY <1>3, <1>9, <3>2, <4>1 DEF NoTimer
    <3> QED
      BY <1>2, <1>3, <1>9, <3>1, <3>2
  <2> QED
    BY <2>1, <2>2, Zenon DEF OneTimer
<1>10. ASSUME OneTimer(q), e.type # "TimerInt" PROVE OneTimer(r)
  <2>1. PICK m \in DOMAIN q : \A i \in DOMAIN q : q[i].type = "TimerInt" <=> i = m
    BY <1>10, Zenon DEF OneTimer
  <2> DEFINE p == IF m <= k THEN m ELSE m + 1
  <2>2. p \in DOMAIN r
    BY <1>3
  <2>3. \A i \in DOMAIN r : r[i].type = "TimerInt" <=> i = p
    <3> TAKE i \in DOMAIN r
    <3>1. CASE i <= k
      BY <1>2, <1>3, <2>1, <3>1
    <3>2. CASE i = k + 1
      BY <1>2, <1>3, <1>10, <2>1, <3>2
    <3>3. CASE i >= k + 2
      <4>1. r[i] = q[i - 1] /\ i - 1 \in DOMAIN q
        BY <1>2, <1>3, <3>3
      <4> QED
        BY <1>3, <2>1, <3>3, <4>1, SMTT(60)
    <3> QED
      BY <1>3, <3>1, <3>2, <3>3
  <2> HIDE DEF p
  <2> QED
    BY <2>2, <2>3, Zenon DEF OneTimer
<1> QED
  BY <1>2, <1>3, <1>7, <1>8, <1>9, <1>10 DEF Inside

\* What holds of the pending list at every step.
QueueOK(q) == q \in Seq(Entry) /\ InOrder(q) /\ OneTimer(q)

\* What an entry of the pending list holds.
LEMMA EntryFields == \A x \in Entry : x.left \in Int /\ x.type \in {"TimerInt", "DeviceInt"}
BY Zenon DEF Entry

\* Moving the clock changes no order and no type.
LEMMA Advanced ==
  ASSUME NEW q \in Seq(Entry), NEW n \in Int, NEW r, r = Advance(q, n)
  PROVE  /\ r \in Seq(Entry) /\ Len(r) = Len(q)
         /\ \A i \in DOMAIN r : r[i].left = q[i].left - n /\ r[i].type = q[i].type
         /\ InOrder(q) => InOrder(r)
         /\ OneTimer(q) => OneTimer(r)
         /\ NoTimer(q) => NoTimer(r)
<1>1. DOMAIN q = 1 .. Len(q) /\ Len(q) \in Nat /\ \A i \in DOMAIN q : q[i] \in Entry
  OBVIOUS
<1>2. r = [i \in DOMAIN q |-> [q[i] EXCEPT !.left = q[i].left - n]]
  BY Zenon DEF Advance
<1>3. \A x \in Entry :
        LET y == [x EXCEPT !.left = x.left - n]
        IN  y \in Entry /\ y.left = x.left - n /\ y.type = x.type
  BY DEF Entry
<1>4. DOMAIN r = DOMAIN q /\ \A i \in DOMAIN q :
        r[i] \in Entry /\ r[i].left = q[i].left - n /\ r[i].type = q[i].type
  BY <1>1, <1>2, <1>3, Zenon
<1>5. r \in [1 .. Len(q) -> Entry]
  BY <1>1, <1>2, <1>4, Zenon
<1>6. r \in Seq(Entry) /\ Len(r) = Len(q)
  BY <1>1, <1>5
<1>7. ASSUME InOrder(q) PROVE InOrder(r)
  <2> SUFFICES ASSUME NEW i \in DOMAIN q, NEW j \in DOMAIN q, i < j
               PROVE  r[i].left <= r[j].left
    BY <1>4, Zenon DEF InOrder
  <2>1. q[i].left <= q[j].left
    BY <1>7, Zenon DEF InOrder
  <2>2. q[i].left \in Int /\ q[j].left \in Int
    BY <1>1, EntryFields, Zenon
  <2> QED
    BY <1>4, <2>1, <2>2
<1>8. ASSUME OneTimer(q) PROVE OneTimer(r)
  <2>1. PICK k \in DOMAIN q : \A i \in DOMAIN q : q[i].type = "TimerInt" <=> i = k
    BY <1>8, Zenon DEF OneTimer
  <2>2. k \in DOMAIN r /\ \A i \in DOMAIN r : r[i].type = "TimerInt" <=> i = k
    BY <1>4, <2>1, Zenon
  <2> QED
    BY <2>2, Zenon DEF OneTimer
<1>9. NoTimer(q) => NoTimer(r)
  BY <1>4, Zenon DEF NoTimer
<1> QED
  BY <1>4, <1>6, <1>7, <1>8, <1>9, Zenon

\* RemoveFirst takes the timer's entry or leaves it.
LEMMA Tailed ==
  ASSUME NEW q \in Seq(Entry), OneTimer(q), InOrder(q)
  PROVE  /\ q # <<>> /\ Head(q) \in Entry /\ Head(q) = q[1] /\ 1 \in DOMAIN q
         /\ Tail(q) \in Seq(Entry) /\ InOrder(Tail(q))
         /\ \A i \in DOMAIN Tail(q) : i + 1 \in DOMAIN q /\ Tail(q)[i] = q[i + 1]
         /\ Head(q).type = "TimerInt" => NoTimer(Tail(q))
         /\ Head(q).type # "TimerInt" => OneTimer(Tail(q))
<1>1. q # <<>> /\ DOMAIN q = 1 .. Len(q) /\ Len(q) \in Nat
  BY DEF OneTimer
<1>2. Head(q) \in Entry /\ Head(q) = q[1] /\ 1 \in DOMAIN q
  BY <1>1
<1>3. /\ Tail(q) \in Seq(Entry) /\ DOMAIN Tail(q) = 1 .. (Len(q) - 1)
      /\ \A i \in 1 .. (Len(q) - 1) : Tail(q)[i] = q[i + 1]
  BY <1>1
<1> DEFINE r == Tail(q)
<1> HIDE DEF r
<1>4. /\ DOMAIN r = 1 .. (Len(q) - 1)
      /\ \A i \in DOMAIN r : r[i] = q[i + 1] /\ i + 1 \in DOMAIN q
  BY <1>1, <1>3 DEF r
<1>5. InOrder(r)
  <2> SUFFICES ASSUME NEW i \in DOMAIN r, NEW j \in DOMAIN r, i < j
               PROVE  r[i].left <= r[j].left
    BY Zenon DEF InOrder
  <2>1. i + 1 < j + 1
    BY <1>1, <1>4
  <2> QED
    BY <1>4, <2>1, Zenon DEF InOrder
<1>6. PICK k \in DOMAIN q : \A i \in DOMAIN q : q[i].type = "TimerInt" <=> i = k
  BY Zenon DEF OneTimer
<1>7. ASSUME q[1].type = "TimerInt" PROVE NoTimer(r)
  <2>1. k = 1
    BY <1>2, <1>6, <1>7, Zenon
  <2>2. \A i \in DOMAIN r : i + 1 # 1
    BY <1>1, <1>4
  <2> QED
    BY <1>4, <1>6, <2>1, <2>2, Zenon DEF NoTimer
<1>8. ASSUME q[1].type # "TimerInt" PROVE OneTimer(r)
  <2>1. k # 1
    BY <1>6, <1>8, Zenon
  <2>2. k - 1 \in DOMAIN r
    BY <1>1, <1>4, <2>1
  <2>3. \A i \in DOMAIN r : r[i].type = "TimerInt" <=> i = k - 1
    <3> TAKE i \in DOMAIN r
    <3>1. i + 1 = k <=> i = k - 1
      BY <1>1, <1>4
    <3> QED
      BY <1>4, <1>6, <3>1, Zenon
  <2> QED
    BY <2>2, <2>3, Zenon DEF OneTimer
<1> QED
  BY <1>1, <1>2, <1>3, <1>4, <1>5, <1>7, <1>8, Zenon DEF r

\* How far CheckIfDue moves the clock.
LEMMA ClockTyped == ASSUME NEW a \in BOOLEAN, QueueOK(pending) PROVE Clock(a) \in Int
<1>1. Head(pending).left \in Int
  BY Tailed, EntryFields, Zenon DEF QueueOK
<1> QED
  BY <1>1 DEF Clock

\* What CheckIfDue leaves in the list when it calls no handler.
PutsBack(r, a) ==
  \A i \in DOMAIN r : \E j \in DOMAIN pending :
    /\ r[i].type = pending[j].type
    /\ ~ a => r[i].left = pending[j].left

\* CheckIfDue without a handler keeps the list.
LEMMA PutBackKeeps ==
  ASSUME NEW a \in BOOLEAN, QueueOK(pending), NEW r, r = PutBack(a)
  PROVE  QueueOK(r) /\ PutsBack(r, a)
<1> DEFINE n == IF Due(a) THEN Clock(a) ELSE 0
           now == Advance(pending, n)
<1>1. pending \in Seq(Entry) /\ InOrder(pending) /\ OneTimer(pending)
  BY Zenon DEF QueueOK
<1>2. n \in Int /\ (~ a => n = 0)
  BY ClockTyped, Zenon DEF Clock
<1>3. pending # <<>>
  BY <1>1, Tailed, Zenon
<1>4. r = SortedInsert(Tail(now), Head(now))
  BY <1>3, Zenon DEF PutBack
<1> HIDE DEF n
<1>5. /\ now \in Seq(Entry) /\ Len(now) = Len(pending) /\ InOrder(now) /\ OneTimer(now)
      /\ \A i \in DOMAIN now :
           now[i].left = pending[i].left - n /\ now[i].type = pending[i].type
  BY <1>1, <1>2, Advanced
<1> HIDE DEF now
<1>6. DOMAIN now = DOMAIN pending
  BY <1>1, <1>5
<1>7. /\ Head(now) \in Entry /\ Head(now) = now[1] /\ 1 \in DOMAIN now
      /\ Tail(now) \in Seq(Entry) /\ InOrder(Tail(now))
      /\ \A i \in DOMAIN Tail(now) : i + 1 \in DOMAIN now /\ Tail(now)[i] = now[i + 1]
      /\ Head(now).type = "TimerInt" => NoTimer(Tail(now))
      /\ Head(now).type # "TimerInt" => OneTimer(Tail(now))
  BY <1>5, Tailed, Zenon
<1>8. /\ r \in Seq(Entry) /\ InOrder(r)
      /\ \A i \in DOMAIN r :
           r[i] = Head(now) \/ \E j \in DOMAIN Tail(now) : r[i] = Tail(now)[j]
      /\ OneTimer(r)
  <2> DEFINE h == Head(now)
             t == Tail(now)
  <2>1. /\ h \in Entry /\ t \in Seq(Entry) /\ InOrder(t) /\ r = SortedInsert(t, h)
        /\ (h.type = "TimerInt" => NoTimer(t)) /\ (h.type # "TimerInt" => OneTimer(t))
    BY <1>4, <1>7, Zenon
  <2> HIDE DEF h, t
  <2>2. /\ r \in Seq(Entry) /\ InOrder(r)
        /\ Inside(r, t, h) /\ OneTimer(r)
    BY <2>1, SortedInserted, Zenon
  <2> QED
    BY <2>2, Zenon DEF h, t, Inside
<1>9. \A i \in DOMAIN r : \E j \in DOMAIN now : r[i] = now[j]
  BY <1>7, <1>8
<1>10. ASSUME NEW i \in DOMAIN r
       PROVE  \E j \in DOMAIN pending :
                r[i].type = pending[j].type /\ (~ a => r[i].left = pending[j].left)
  <2>1. PICK j \in DOMAIN now : r[i] = now[j]
    BY <1>9, Zenon
  <2>2. pending[j].left \in Int
    BY <1>1, <1>6, EntryFields
  <2>3. ~ a => r[i].left = pending[j].left
    BY <1>2, <1>5, <2>1, <2>2
  <2> QED
    BY <1>5, <1>6, <2>1, <2>3, Zenon
<1> QED
  BY <1>8, <1>10, Zenon DEF QueueOK, PutsBack

\* A handler is called: the timer's schedules the next, a device's none.
LEMMA FireKeeps ==
  ASSUME PositiveDelays, NEW a \in BOOLEAN, QueueOK(pending), Fire(a) PROVE QueueOK(pending')
<1> DEFINE rest == Advance(Tail(pending), Clock(a))
<1>1. /\ Tail(pending) \in Seq(Entry) /\ InOrder(Tail(pending))
      /\ Head(pending).type = "TimerInt" => NoTimer(Tail(pending))
      /\ Head(pending).type # "TimerInt" => OneTimer(Tail(pending))
  BY Tailed, Zenon DEF QueueOK
<1>2. /\ rest \in Seq(Entry) /\ InOrder(rest)
      /\ OneTimer(Tail(pending)) => OneTimer(rest)
      /\ NoTimer(Tail(pending)) => NoTimer(rest)
  BY <1>1, ClockTyped, Advanced, Zenon
<1> HIDE DEF rest
<1>3. CASE Head(pending).type = "TimerInt"
  <2>1. PICK d \in TimerDelay :
          pending' = SortedInsert(rest, [left |-> d, type |-> "TimerInt"])
    BY <1>3, Zenon DEF Fire, TimerExpired, Schedule, rest
  <2> DEFINE e == [left |-> d, type |-> "TimerInt"]
  <2>2. e \in Entry /\ e.type = "TimerInt"
    BY DEF Entry, PositiveDelays
  <2> HIDE DEF e
  <2>3. pending' = SortedInsert(rest, e)
    BY <2>1, Zenon DEF e
  <2> QED
    BY <1>1, <1>2, <1>3, <2>2, <2>3, SortedInserted, Zenon DEF QueueOK
<1>4. CASE Head(pending).type # "TimerInt"
  <2>1. pending' = rest
    BY <1>4, Zenon DEF Fire, DeviceDone, rest
  <2> QED
    BY <1>1, <1>2, <1>4, <2>1, Zenon DEF QueueOK
<1> QED
  BY <1>3, <1>4, Zenon

\* What code with interrupts on, and a machine that has halted, find on the list.
NoneOverdue(q) == \A i \in DOMAIN q : q[i].type = "DeviceInt" => q[i].left > 0
OnlyTimers(q) == \A i \in DOMAIN q : q[i].type = "TimerInt"

\* The pending list, with what is known of it where it is looked at next.
QueueInv ==
  /\ QueueOK(pending)
  /\ routine = "code" /\ level = "IntOn" => NoneOverdue(pending)
  /\ status = "Halted" => OnlyTimers(pending)

\* Where the current thread is, what the status is then, and what a thread that does
\* not run will restore: the mode of its code, or SystemMode if it sleeps.
ControlInv ==
  /\ level \in {"IntOn", "IntOff"}
  /\ yieldOnReturn \in BOOLEAN
  /\ routine \in {"code", "OneTick", "Idle", "IdleMore"}
  /\ currentThread \in Thread
  /\ ready \subseteq Thread /\ blocked \subseteq Thread /\ ready \cap blocked = {}
  /\ saved \in [Thread -> {"none", "SystemMode", "UserMode"}]
  /\ mode \in [Thread -> {"SystemMode", "UserMode"}]
  /\ routine \in {"code", "OneTick"} =>
       /\ status \in {"SystemMode", "UserMode"}
       /\ currentThread \notin ready \cup blocked
       /\ saved[currentThread] = "none" => status = mode[currentThread]
  /\ routine = "Idle" => status \in {"IdleMode", "Halted"} /\ ready = {}
  /\ routine = "IdleMore" => status = "IdleMode"
  /\ routine # "code" => level = "IntOff"
  /\ NoStaleYield
  /\ \A t \in Thread : saved[t] \in {"none", mode[t]}
  /\ \A t \in ready \cup blocked : saved[t] = "none" => mode[t] = "SystemMode"

\* A handler changes the ready and blocked threads at most.
LEMMA FireWakes ==
  ASSUME NEW a \in BOOLEAN, Fire(a)
  PROVE  /\ UNCHANGED <<level, status, currentThread, saved, mode>>
         /\ yieldOnReturn' = TRUE \/ UNCHANGED yieldOnReturn
         /\ \/ UNCHANGED <<ready, blocked>>
            \/ \E t \in blocked : ready' = ready \cup {t} /\ blocked' = blocked \ {t}
<1>1. CASE Head(pending).type = "TimerInt"
  BY <1>1, Zenon DEF Fire, TimerExpired
<1>2. CASE Head(pending).type # "TimerInt"
  BY <1>2, Zenon DEF Fire, DeviceDone
<1> QED
  BY <1>1, <1>2, ZenonT(60)

\* Every step of the simulation keeps the two invariants ...
LEMMA ControlStep == ASSUME ControlInv, Next \/ UNCHANGED vars PROVE ControlInv'
<1> USE DEF ControlInv, NoStaleYield, Code, Threads
<1>1. CASE UNCHANGED vars
  BY <1>1, Zenon DEF vars
<1>2. CASE Disable
  BY <1>2, Zenon DEF Disable
<1>3. CASE Enable \/ UserInstruction
  BY <1>3, Zenon DEF Enable, UserInstruction, BeginTick
<1>4. CASE EnterUser
  BY <1>4, Zenon DEF EnterUser
<1>5. CASE RaiseException
  BY <1>5, Zenon DEF RaiseException
<1>6. CASE Sleep
  <2>1. /\ routine = "code" /\ status = "SystemMode" /\ level = "IntOff"
        /\ saved[currentThread] = "none" /\ mode[currentThread] = "SystemMode"
        /\ blocked' = blocked \cup {currentThread}
        /\ UNCHANGED <<level, yieldOnReturn, saved, mode>>
    BY <1>6, Zenon DEF Sleep
  <2>2. CASE ready = {}
    <3>1. routine' = "Idle" /\ status' = "IdleMode" /\ UNCHANGED <<currentThread, ready>>
      BY <1>6, <2>2, Zenon DEF Sleep
    <3> QED
      BY <2>1, <2>2, <3>1, Zenon
  <2>3. CASE ready # {}
    <3>1. UNCHANGED <<routine, status>>
      BY <1>6, <2>3, Zenon DEF Sleep
    <3>2. PICK t \in ready : currentThread' = t /\ ready' = (ready \ {t}) \cup {}
      BY <1>6, <2>3, Zenon DEF Sleep, SwitchTo
    <3>3. t \in Thread /\ t \notin ready' \cup blocked' /\ ready' \subseteq ready
      BY <2>1, <3>2, Zenon
    <3>4. saved[t] = "none" => mode[t] = "SystemMode"
      BY <3>2, Zenon
    <3> QED
      BY <2>1, <3>1, <3>2, <3>3, <3>4
  <2> QED
    BY <2>2, <2>3, Zenon
<1>7. CASE Yield
  BY <1>7 DEF Yield, SwitchTo
<1>8. CASE \E d \in DeviceDelay : Request(d)
  BY <1>8 DEF Request
<1>9. CASE TickFires
  <2>1. Fire(FALSE) /\ routine = "OneTick" /\ routine' = routine
    BY <1>9, Zenon DEF TickFires
  <2>2. /\ UNCHANGED <<level, status, currentThread, saved, mode>>
        /\ yieldOnReturn' \in BOOLEAN
        /\ \/ UNCHANGED <<ready, blocked>>
           \/ \E t \in blocked : ready' = ready \cup {t} /\ blocked' = blocked \ {t}
    BY <2>1, FireWakes, Zenon
  <2>3. /\ ready' \cup blocked' = ready \cup blocked /\ ready' \cap blocked' = {}
        /\ ready' \subseteq Thread /\ blocked' \subseteq Thread
    BY <2>2
  <2> QED
    BY <2>1, <2>2, <2>3, Zenon
<1>10. CASE TickReturns
  BY <1>10, Zenon DEF TickReturns, StatusRestored
<1>11. CASE TickYields
  <2>1. /\ routine = "OneTick" /\ routine' = "code" /\ yieldOnReturn' = FALSE
        /\ status' = "SystemMode" /\ UNCHANGED <<level, blocked, mode>>
        /\ saved' = [saved EXCEPT ![currentThread] =
                       IF saved[currentThread] = "none" THEN status
                       ELSE saved[currentThread]]
    BY <1>11, Zenon DEF TickYields, YieldInSystemMode
  <2>2. saved[currentThread] = "none" => status = mode[currentThread]
    BY <2>1, Zenon
  <2>3. /\ saved' \in [Thread -> {"none", "SystemMode", "UserMode"}]
        /\ saved'[currentThread] = mode[currentThread]
        /\ \A t \in Thread \ {currentThread} : saved'[t] = saved[t]
    BY <2>1, <2>2, SMTT(60)
  <2>4. CASE ready = {}
    BY <1>11, <2>1, <2>3, <2>4, ZenonT(60) DEF TickYields, SwitchTo
  <2>5. CASE ready # {}
    <3>1. PICK t \in ready : currentThread' = t /\ ready' = (ready \ {t}) \cup {currentThread}
      BY <1>11, <2>5, Zenon DEF TickYields, SwitchTo
    <3>2. t \in Thread /\ t # currentThread /\ t \notin blocked
      BY <2>1, Zenon
    <3>3. saved'[t] = "none" => mode[t] = "SystemMode"
      BY <2>3, <3>2, Zenon
    <3>4. \A u \in Thread : saved'[u] \in {"none", mode[u]}
      BY <2>3, Zenon
    <3>5. \A u \in ready' \cup blocked : saved'[u] = "none" => mode[u] = "SystemMode"
      BY <2>3, <3>1, Zenon
    <3>6. ready' \subseteq Thread /\ ready' \cap blocked = {} /\ t \notin ready'
      BY <2>1, <3>1, <3>2
    <3> QED
      BY <2>1, <2>3, <3>1, <3>2, <3>3, <3>4, <3>5, <3>6, Zenon
  <2> QED
    BY <2>4, <2>5, Zenon
<1>12. CASE IdleFires
  <2>1. Fire(TRUE) /\ routine = "Idle" /\ status = "IdleMode" /\ routine' = "IdleMore"
    BY <1>12, Zenon DEF IdleFires
  <2>2. /\ UNCHANGED <<level, status, currentThread, saved, mode>>
        /\ yieldOnReturn' \in BOOLEAN
        /\ \/ UNCHANGED <<ready, blocked>>
           \/ \E t \in blocked : ready' = ready \cup {t} /\ blocked' = blocked \ {t}
    BY <2>1, FireWakes, Zenon
  <2>3. /\ ready' \cup blocked' = ready \cup blocked /\ ready' \cap blocked' = {}
        /\ ready' \subseteq Thread /\ blocked' \subseteq Thread
    BY <2>2
  <2> QED
    BY <2>1, <2>2, <2>3, Zenon
<1>13. CASE IdleFiresMore
  <2>1. Fire(FALSE) /\ routine = "IdleMore" /\ routine' = routine
    BY <1>13, Zenon DEF IdleFiresMore
  <2>2. /\ UNCHANGED <<level, status, currentThread, saved, mode>>
        /\ yieldOnReturn' \in BOOLEAN
        /\ \/ UNCHANGED <<ready, blocked>>
           \/ \E t \in blocked : ready' = ready \cup {t} /\ blocked' = blocked \ {t}
    BY <2>1, FireWakes, Zenon
  <2>3. /\ ready' \cup blocked' = ready \cup blocked /\ ready' \cap blocked' = {}
        /\ ready' \subseteq Thread /\ blocked' \subseteq Thread
    BY <2>2
  <2> QED
    BY <2>1, <2>2, <2>3, Zenon
<1>14. CASE IdleReturns
  <2>1. /\ routine = "IdleMore" /\ level = "IntOff" /\ yieldOnReturn' = FALSE
        /\ UNCHANGED <<level, blocked, saved, mode>>
    BY <1>14, Zenon DEF IdleReturns, IdleClearsYield
  <2>2. CASE ready = {}
    <3>1. routine' = "Idle" /\ UNCHANGED <<status, currentThread, ready>>
      BY <1>14, <2>2, Zenon DEF IdleReturns
    <3> QED
      BY <2>1, <2>2, <3>1, Zenon
  <2>3. CASE ready # {}
    <3>1. routine' = "code" /\ status' = "SystemMode"
      BY <1>14, <2>3, Zenon DEF IdleReturns
    <3>2. PICK t \in ready : currentThread' = t /\ ready' = (ready \ {t}) \cup {}
      BY <1>14, <2>3, Zenon DEF IdleReturns, SwitchTo
    <3>3. t \in Thread /\ t \notin ready' \cup blocked /\ ready' \subseteq ready
      BY <3>2, Zenon
    <3>4. saved[t] = "none" => mode[t] = "SystemMode"
      BY <3>2, Zenon
    <3> QED
      BY <2>1, <3>1, <3>2, <3>3, <3>4, Zenon
  <2> QED
    BY <2>2, <2>3, Zenon
<1>15. CASE IdleHalts
  BY <1>15, Zenon DEF IdleHalts
<1>16. CASE Halted
  BY <1>16, Zenon DEF Halted, vars
<1> QED
  BY <1>1, <1>2, <1>3, <1>4, <1>5, <1>6, <1>7, <1>8, <1>9, <1>10, <1>11, <1>12, <1>13,
     <1>14, <1>15, <1>16, Zenon DEF Next

\* When OneTick's loop ends nothing is due, as the first entry is not.
LEMMA NotFiring ==
  ASSUME QueueOK(pending), status # "IdleMode" \/ ~ NothingMore(Tail(pending)),
         ~ Fires(FALSE)
  PROVE  NoneOverdue(PutBack(FALSE))
<1>1. pending \in Seq(Entry) /\ InOrder(pending) /\ OneTimer(pending)
  BY Zenon DEF QueueOK
<1>2. pending # <<>> /\ Head(pending) = pending[1] /\ 1 \in DOMAIN pending
  BY <1>1, Tailed, Zenon
<1>3. \A i \in DOMAIN pending : pending[i].left \in Int /\ i \in Nat /\ i >= 1
  BY <1>1, EntryFields
<1>4. ~ (pending[1].left <= 0)
  BY <1>2, Zenon DEF Fires, Due
<1>5. \A i \in DOMAIN pending : pending[i].left > 0
  <2> TAKE i \in DOMAIN pending
  <2>1. i = 1 \/ 1 < i
    BY <1>3
  <2>2. i = 1 \/ pending[1].left <= pending[i].left
    BY <1>1, <1>2, <2>1, Zenon DEF InOrder
  <2>3. pending[1].left \in Int /\ pending[i].left \in Int
    BY <1>2, <1>3, Zenon
  <2> QED
    BY <1>4, <2>2, <2>3
<1> DEFINE r == PutBack(FALSE)
<1> HIDE DEF r
<1>6. PutsBack(r, FALSE)
  BY PutBackKeeps, Zenon DEF r
<1>7. NoneOverdue(r)
  BY <1>5, <1>6, Zenon DEF NoneOverdue, PutsBack
<1> QED
  BY <1>7, Zenon DEF r

\* Every step keeps the pending list in order, with the timer on it once.
LEMMA QueueStep ==
  ASSUME PositiveDelays, ControlInv, QueueInv, Next \/ UNCHANGED vars PROVE QueueInv'
<1>1. QueueOK(pending) /\ pending \in Seq(Entry) /\ InOrder(pending) /\ OneTimer(pending)
  BY Zenon DEF QueueInv, QueueOK
<1>2. CASE UNCHANGED pending /\ routine' = "code" /\ status' # "Halted" /\ routine = "code"
           /\ (level' = "IntOn" => level = "IntOn")
  BY <1>2, Zenon DEF QueueInv
<1>3. CASE BeginTick /\ routine = "code"
  <2>1. \E n \in Int : pending' = Advance(pending, n)
    BY <1>3 DEF BeginTick, PositiveDelays
  <2>2. QueueOK(pending')
    BY <1>1, <2>1, Advanced, Zenon DEF QueueOK
  <2>3. routine' = "OneTick" /\ status' # "Halted"
    BY <1>3, Zenon DEF BeginTick, ControlInv
  <2> QED
    BY <2>2, <2>3, Zenon DEF QueueInv
<1>4. CASE \E d \in DeviceDelay : Request(d)
  <2>1. PICK d \in DeviceDelay : Request(d)
    BY <1>4, Zenon
  <2> DEFINE e == [left |-> d, type |-> "DeviceInt"]
  <2>2. e \in Entry /\ e.type # "TimerInt" /\ e.left > 0
    BY DEF Entry, PositiveDelays
  <2>3. pending' = SortedInsert(pending, e)
    BY <2>1, Zenon DEF Request, Schedule
  <2> HIDE DEF e
  <2>4. QueueOK(pending') /\ Inside(pending', pending, e)
    BY <1>1, <2>2, <2>3, SortedInserted, Zenon DEF QueueOK
  <2>5. ASSUME NoneOverdue(pending) PROVE NoneOverdue(pending')
    BY <2>2, <2>4, <2>5, Zenon DEF NoneOverdue, Inside
  <2>6. routine' = routine /\ level' = level /\ status' # "Halted"
    BY <2>1, Zenon DEF Request, Code
  <2> QED
    BY <2>4, <2>5, <2>6, Zenon DEF QueueInv
<1>5. CASE \E a \in BOOLEAN : Fire(a) /\ routine' # "code" /\ status # "Halted"
  <2>1. QueueOK(pending')
    BY <1>1, <1>5, FireKeeps, Zenon
  <2>2. routine' # "code" /\ status' # "Halted"
    BY <1>5, Zenon DEF Fire
  <2> QED
    BY <2>1, <2>2, Zenon DEF QueueInv
<1>6. CASE TickReturns
  <2>1. pending' = PutBack(FALSE) /\ status \in {"SystemMode", "UserMode"} /\ ~ Fires(FALSE)
    BY <1>6, Zenon DEF TickReturns, ControlInv
  <2>2. QueueOK(pending')
    BY <1>1, <2>1, PutBackKeeps, Zenon
  <2>3. NoneOverdue(pending')
    BY <1>1, <2>1, NotFiring, Zenon
  <2>4. status' # "Halted"
    BY <1>6, <2>1, Zenon DEF TickReturns, StatusRestored, ControlInv
  <2> QED
    BY <2>2, <2>3, <2>4, Zenon DEF QueueInv
<1>7. CASE pending' = PutBack(FALSE) /\ level' = "IntOff" /\ status' # "Halted"
  BY <1>1, <1>7, PutBackKeeps, Zenon DEF QueueInv
<1>8. CASE IdleHalts
  <2>1. /\ pending' = PutBack(TRUE) /\ ~ Fires(TRUE)
        /\ status = "IdleMode" /\ routine' = "Idle"
    BY <1>8, Zenon DEF IdleHalts
  <2>2. QueueOK(pending') /\ PutsBack(pending', TRUE)
    BY <1>1, <2>1, PutBackKeeps, Zenon
  <2>3. OnlyTimers(pending)
    <3>1. pending # <<>> /\ Head(pending) = pending[1]
      BY <1>1, Tailed, Zenon
    <3>2. Head(pending).type = "TimerInt" /\ Tail(pending) = <<>>
      BY <2>1, <3>1, Zenon DEF Fires, Due, NothingMore
    <3> DEFINE t == Tail(pending)
    <3>3. Len(pending) \in Nat /\ Len(t) = Len(pending) - 1
      BY <1>1, <3>1
    <3>4. t = <<>>
      BY <3>2, Zenon
    <3> HIDE DEF t
    <3>5. Len(pending) = 1
      BY <3>3, <3>4
    <3>6. \A i \in DOMAIN pending : i = 1
      BY <1>1, <3>5
    <3> QED
      BY <3>1, <3>2, <3>6, Zenon DEF OnlyTimers
  <2>4. OnlyTimers(pending')
    BY <2>2, <2>3, Zenon DEF OnlyTimers, PutsBack
  <2> QED
    BY <2>1, <2>2, <2>4, Zenon DEF QueueInv
<1>9. CASE UNCHANGED vars
  BY <1>9, Zenon DEF QueueInv, vars
<1>10. CASE Sleep
  BY <1>1, <1>10, Zenon DEF QueueInv, Sleep, SwitchTo, Code
<1>11. CASE Disable \/ EnterUser \/ RaiseException \/ Yield
  BY <1>2, <1>11, Zenon DEF Disable, EnterUser, RaiseException, Yield, Code
<1>12. CASE Enable \/ UserInstruction
  BY <1>3, <1>12, Zenon DEF Enable, UserInstruction, Code
<1>13. CASE TickFires \/ IdleFires \/ IdleFiresMore
  <2>1. TRUE \in BOOLEAN /\ FALSE \in BOOLEAN
    BY Zenon
  <2> QED
    BY <1>5, <1>13, <2>1, Zenon DEF TickFires, IdleFires, IdleFiresMore, ControlInv
<1>14. CASE TickYields \/ IdleReturns
  BY <1>7, <1>14, Zenon DEF TickYields, YieldInSystemMode, IdleReturns, ControlInv
<1> QED
  BY <1>4, <1>6, <1>8, <1>9, <1>10, <1>11, <1>12, <1>13, <1>14, Zenon DEF Next, Halted

\* ... which hold at the start ...
LEMMA InterruptStarts == ASSUME PositiveDelays, Init PROVE ControlInv /\ QueueInv
<1>1. PICK d \in TimerDelay : pending = SortedInsert(<<>>, [left |-> d, type |-> "TimerInt"])
  BY Zenon DEF Init, Schedule
<1> DEFINE e == [left |-> d, type |-> "TimerInt"]
<1>2. e \in Entry /\ e.type = "TimerInt"
  BY DEF Entry, PositiveDelays
<1> HIDE DEF e
<1>3. <<>> \in Seq(Entry)
  OBVIOUS
<1>4. InOrder(<<>>) /\ NoTimer(<<>>)
  BY DEF InOrder, NoTimer
<1>5. pending = SortedInsert(<<>>, e)
  BY <1>1, Zenon DEF e
<1>6. QueueOK(pending)
  BY <1>2, <1>3, <1>4, <1>5, SortedInserted, Zenon DEF QueueOK
<1>7. QueueInv
  BY <1>6, Zenon DEF Init, QueueInv
<1>8. ControlInv
  BY Zenon DEF Init, ControlInv, NoStaleYield
<1> QED
  BY <1>7, <1>8, Zenon

\* ... and are what Interrupts promises.
LEMMA InterruptPromise ==
  ASSUME ControlInv, QueueInv
  PROVE  NoInterruptLost /\ StatusFollowsThread
<1>1. QueueOK(pending)
  BY Zenon DEF QueueInv
<1>2. TypeOK
  <2>1. status \in {"SystemMode", "UserMode", "IdleMode", "Halted"}
    BY Zenon DEF ControlInv
  <2> QED
    BY <1>1, <2>1, Zenon DEF TypeOK, ControlInv, QueueOK
<1>3. DueInOrder
  BY <1>1, Zenon DEF DueInOrder, QueueInv, QueueOK, InOrder, NoneOverdue
<1>4. TimerArmed
  <2>1. PICK k \in DOMAIN pending :
          \A i \in DOMAIN pending : pending[i].type = "TimerInt" <=> i = k
    BY <1>1, Zenon DEF QueueOK, OneTimer
  <2>2. {i \in DOMAIN pending : pending[i].type = "TimerInt"} = {k}
    BY <2>1, Zenon
  <2> QED
    BY <2>2, Zenon DEF TimerArmed
<1>5. HaltsWhenDone
  <2> SUFFICES ASSUME status = "Halted" PROVE ready = {} /\ OnlyTimers(pending)
    BY Zenon DEF HaltsWhenDone, OnlyTimers
  <2>1. routine = "Idle"
    BY Zenon DEF ControlInv
  <2> QED
    BY <2>1, Zenon DEF ControlInv, QueueInv
<1> QED
  BY <1>2, <1>3, <1>4, <1>5, Zenon DEF ControlInv, NoInterruptLost, StatusFollowsThread,
     StatusIsMode

--------------------------------------------------------------------------------

\* The two invariants hold throughout, whatever the delays and the ticks.
THEOREM InterruptInvariance == ASSUME PositiveDelays PROVE Spec => [](ControlInv /\ QueueInv)
<1>1. Init => ControlInv /\ QueueInv
  BY InterruptStarts, Zenon
<1>2. ControlInv /\ QueueInv /\ [Next]_vars => ControlInv' /\ QueueInv'
  BY ControlStep, QueueStep, Zenon
<1> QED
  BY <1>1, <1>2, PTL DEF Spec

\* Interrupt's pending list, whatever the delays and the ticks: sorted, with the timer
\* on it exactly once and no device overdue when code runs, and Idle halts only when
\* nothing is left to do.
THEOREM InterruptsCorrect == ASSUME PositiveDelays PROVE Spec => []NoInterruptLost
<1>1. ControlInv /\ QueueInv => NoInterruptLost
  BY InterruptPromise, Zenon
<1> QED
  BY <1>1, InterruptInvariance, PTL

\* OneTick's "status = old", whatever ran between its Yield and its return, and Idle's
\* "yieldOnReturn = FALSE".
THEOREM StatusCorrect == ASSUME PositiveDelays PROVE Spec => []StatusFollowsThread
<1>1. ControlInv /\ QueueInv => StatusFollowsThread
  BY InterruptPromise, Zenon
<1> QED
  BY <1>1, InterruptInvariance, PTL

================================================================================
