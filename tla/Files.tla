-------------------------------- MODULE Files -------------------------------
(* What the file system promises: a set of named files of fixed size, in     *)
(* which a file appears or disappears in one step.                           *)
EXTENDS Integers

CONSTANTS Name, Size

VARIABLE size   \* the size of each file, -1 for a name that is not there

FilesInit == size = [n \in Name |-> -1]

Appears(n, s) == size[n] = -1 /\ size' = [size EXCEPT ![n] = s]

Disappears(n) == size[n] # -1 /\ size' = [size EXCEPT ![n] = -1]

FilesNext == \E n \in Name : Disappears(n) \/ \E s \in Size : Appears(n, s)

=============================================================================
