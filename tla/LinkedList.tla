------------------------------- MODULE LinkedList ------------------------------
(***************************************************************************)
(* The singly linked list of threads/list.cc, cell by cell: every queue of *)
(* the kernel is one.  A ListElement is allocated by an insertion and      *)
(* deleted by a removal; a deleted one may be allocated again.             *)
(***************************************************************************)
EXTENDS Naturals, Sequences, FiniteSets

CONSTANTS
  Element,   \* the ListElements there is room for
  Item, Key, \* items, and the sort keys, 0 among them
  NULL       \* neither an element nor an item

VARIABLES
  first, last,       \* List
  next, item, key,   \* ListElement
  allocated,         \* the elements that exist
  got                \* the item and key SortedRemove returned last

vars == <<first, last, next, item, key, allocated, got>>

\* The list's ends and the links stay within the elements that exist.
TypeOK ==
  /\ {first, last} \subseteq allocated \cup {NULL}
  /\ allocated \subseteq Element
  /\ \A e \in allocated : next[e] \in allocated \cup {NULL}
  /\ got \in (Item \cup {NULL}) \X Key

Init ==
  /\ first = NULL /\ last = NULL
  /\ next = [e \in Element |-> NULL]
  /\ item = [e \in Element |-> NULL]
  /\ key = [e \in Element |-> 0]
  /\ allocated = {}
  /\ got = <<NULL, 0>>

IsEmpty == first = NULL

--------------------------------------------------------------------------------

\* ListElement::ListElement with its next pointer set to n, and the link of the
\* element before it (none when p is NULL) set to it.
NewElement(e, i, k, n, p) ==
  /\ e \notin allocated
  /\ allocated' = allocated \cup {e}
  /\ item' = [item EXCEPT ![e] = i]
  /\ key' = [key EXCEPT ![e] = k]
  /\ next' = [x \in Element |-> IF x = e THEN n ELSE IF x = p THEN e ELSE next[x]]
  /\ UNCHANGED got

AppendItem(e, i) ==
  /\ NewElement(e, i, 0, NULL, last)
  /\ first' = IF IsEmpty THEN e ELSE first
  /\ last' = e

\* Prepend that takes the new element for the last one too.
PrependAsLast(e, i) ==
  /\ NewElement(e, i, 0, first, NULL)
  /\ first' = e
  /\ last' = e

Prepend(e, i) ==
  /\ NewElement(e, i, 0, first, NULL)
  /\ first' = e
  /\ last' = IF IsEmpty THEN e ELSE last

\* Where the loop of SortedInsert stops: the first element from e on whose
\* successor is missing or has a larger key.
InsertAfter[e \in Element, k \in Key] ==
  IF next[e] = NULL THEN e
  ELSE IF k < key[next[e]] THEN e ELSE InsertAfter[next[e], k]

SortedInsert(e, i, k) ==
  IF IsEmpty \/ k < key[first]
  THEN /\ NewElement(e, i, k, first, NULL)
       /\ first' = e
       /\ last' = IF IsEmpty THEN e ELSE last
  ELSE LET p == InsertAfter[first, k]
       IN /\ NewElement(e, i, k, next[p], p)
          /\ last' = IF next[p] = NULL THEN e ELSE last
          /\ UNCHANGED first

SortedRemove ==
  /\ IF IsEmpty THEN got' = <<NULL, 0>> /\ UNCHANGED <<first, last, allocated>>
     ELSE /\ got' = <<item[first], key[first]>>
          /\ IF first = last THEN first' = NULL /\ last' = NULL
             ELSE first' = next[first] /\ UNCHANGED last
          /\ allocated' = allocated \ {first}
  /\ UNCHANGED <<next, item, key>>

Next ==
  \/ \E e \in Element, i \in Item : AppendItem(e, i) \/ Prepend(e, i)
  \/ \E e \in Element, i \in Item, k \in Key : SortedInsert(e, i, k)
  \/ SortedRemove

Spec == Init /\ [][Next]_vars

--------------------------------------------------------------------------------

\* List::Mapcar's walk, as the sequence of what it meets; it gives up after as
\* many steps as there are elements.
Walk[e \in Element \cup {NULL}, n \in 0..Cardinality(Element)] ==
  IF e = NULL \/ n = 0 THEN <<>> ELSE <<<<item[e], key[e]>>>> \o Walk[next[e], n - 1]

Walked == Walk[first, Cardinality(Element)]
Promise == INSTANCE ItemSequence WITH
             NoItem <- NULL, seq <- Walked
PromiseUnchanged == Walked' = Walked /\ UNCHANGED got

================================================================================
