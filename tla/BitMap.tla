------------------------------- MODULE BitMap -------------------------------
(* class BitMap: bits packed into words, of WordBits bits each.  The last    *)
(* word may have bits beyond NumBits, which the constructor leaves as they   *)
(* are in memory and which FetchFrom and WriteBack move with the others.     *)
EXTENDS Integers, FiniteSets, Functions

CONSTANTS NumBits, WordBits

NumWords == (NumBits + WordBits - 1) \div WordBits
Word == 0 .. 2 ^ WordBits - 1
Bit == 0 .. NumBits - 1

VARIABLES map, found, file

vars == <<map, found, file>>

Index(which) == which \div WordBits
Mask(which) == 2 ^ (which % WordBits)

IsSet(m, which) == (m[Index(which)] \div Mask(which)) % 2 = 1
Test(which) == IsSet(map, which)

\* map[..] |= mask and map[..] &= ~mask.
SetBit(m, which) == IF IsSet(m, which) THEN m ELSE [m EXCEPT ![Index(which)] = @ + Mask(which)]
ClearBit(m, which) == IF IsSet(m, which) THEN [m EXCEPT ![Index(which)] = @ - Mask(which)] ELSE m

Marked(m) == {i \in Bit : IsSet(m, i)}

\* The words come uninitialised from the heap; the constructor clears the bits.
BitMapClears(m) == FoldFunctionOnSet(LAMBDA i, r : ClearBit(r, i), m, [i \in Bit |-> i], Bit)

Init ==
    /\ \E heap \in [0 .. NumWords - 1 -> Word] : map = BitMapClears(heap)
    /\ found = -1
    /\ file \in [0 .. NumWords - 1 -> Word]

Mark(which) == map' = SetBit(map, which) /\ UNCHANGED <<found, file>>

Clear(which) == map' = ClearBit(map, which) /\ UNCHANGED <<found, file>>

\* The loops of Find and NumClear.
LastClear == CHOOSE i \in Bit : ~Test(i) /\ \A j \in Bit : ~Test(j) => i >= j
FirstClear == CHOOSE i \in Bit : ~Test(i) /\ \A j \in Bit : ~Test(j) => i <= j

NumClear == Cardinality({i \in Bit : ~Test(i)})

Find ==
    /\ IF NumClear = 0
       THEN found' = -1 /\ UNCHANGED map
       ELSE found' = FirstClear /\ map' = SetBit(map, FirstClear)
    /\ UNCHANGED file

FetchFrom == map' = file /\ UNCHANGED <<found, file>>

WriteBack == file' = map /\ UNCHANGED <<map, found>>

Next ==
    \/ \E i \in Bit : Mark(i) \/ Clear(i)
    \/ Find \/ FetchFrom \/ WriteBack
-----------------------------------------------------------------------------
\* What the users of a bitmap rely on: a set of numbers below NumBits, from which
\* Find allocates the smallest that is missing, and a set kept in a file.
Bits == Marked(map)
Saved == Marked(file)
Clears == Bit \ Bits

Allocated ==
    /\ \/ Clears = {} /\ found' = -1 /\ UNCHANGED Bits
       \/ found' \in Clears /\ (\A i \in Clears : found' <= i) /\ Bits' = Bits \cup {found'}
    /\ UNCHANGED Saved
Changed == (\E i \in Bit : Bits' \in {Bits \cup {i}, Bits \ {i}}) /\ UNCHANGED <<found, Saved>>
Kept == Saved' = Bits /\ UNCHANGED <<Bits, found>>
Recalled == Bits' = Saved /\ UNCHANGED <<found, Saved>>

\* A bitmap is a set of numbers whatever the unused bits of its last word hold:
\* Find returns the smallest clear bit and changes no other, and a bitmap
\* written to a file comes back the same (bitmap.cc Find, Mark, FetchFrom).
BitSetInit == Bits = {} /\ found = -1
BitSetNext == Allocated \/ Changed \/ Kept \/ Recalled \/ UNCHANGED <<Bits, found, Saved>>

=============================================================================
