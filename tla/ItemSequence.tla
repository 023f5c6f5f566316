------------------------------ MODULE ItemSequence -----------------------------
(***************************************************************************)
(* What threads/list.h promises: a sequence of items with sort keys.       *)
(***************************************************************************)
EXTENDS Naturals, Sequences

CONSTANTS Item, Key, NoItem

VARIABLES
  seq,   \* the items on the list, as <<item, key>>
  got    \* the result of the last Remove

Append0(i) == seq' = Append(seq, <<i, 0>>) /\ UNCHANGED got
Prepend0(i) == seq' = <<<<i, 0>>>> \o seq /\ UNCHANGED got

\* After every element that has no larger key before it.
Insert(i, k) ==
  /\ \E n \in 0..Len(seq) :
       /\ \A m \in 1..n : seq[m][2] <= k
       /\ n < Len(seq) => seq[n + 1][2] > k
       /\ seq' = SubSeq(seq, 1, n) \o <<<<i, k>>>> \o SubSeq(seq, n + 1, Len(seq))
  /\ UNCHANGED got

Take ==
  IF seq = <<>> THEN got' = <<NoItem, 0>> /\ UNCHANGED seq
  ELSE got' = Head(seq) /\ seq' = Tail(seq)

Init == seq = <<>> /\ got = <<NoItem, 0>>

Next ==
  \/ \E i \in Item : Append0(i) \/ Prepend0(i)
  \/ \E i \in Item, k \in Key : Insert(i, k)
  \/ Take

Spec == Init /\ [][Next]_<<seq, got>>

================================================================================
