-------------------------------- MODULE Monitors -------------------------------
(***************************************************************************)
(* What the synchronisation routines of threads/synch.cc promise, without  *)
(* queues of ready threads, interrupt levels or spinning: locks with an    *)
(* owner, conditions with waiters in order of arrival, semaphores with a   *)
(* value.  A thread that cannot go on is one whose step is not enabled.    *)
(* SynchSystem is shown to implement this module, and the modules for the  *)
(* parts of Nachos above the synchronisation routines are written over it. *)
(***************************************************************************)
EXTENDS Naturals, Sequences

CONSTANTS
  Thread,
  NoThread,  \* no member of Thread
  Semaphore, Lock, Condition

VARIABLES
  held,     \* the thread that holds a lock
  waiting,  \* the threads waiting for a condition
  value     \* the value of a semaphore

monitorVars == <<held, waiting, value>>

MonitorTypeOK ==
  /\ held \in [Lock -> Thread \cup {NoThread}]
  /\ waiting \in [Condition -> Seq(Thread)]
  /\ value \in [Semaphore -> Nat]

MonitorInit(initialValue) ==
  /\ held = [l \in Lock |-> NoThread]
  /\ waiting = [c \in Condition |-> <<>>]
  /\ value = initialValue

IsWaiting(t, c) == \E i \in 1..Len(waiting[c]) : waiting[c][i] = t

--------------------------------------------------------------------------------

\* Lock::Acquire returns; a second Acquire by the holder changes nothing.
Acquire(t, l) ==
  /\ held[l] \in {NoThread, t}
  /\ held' = [held EXCEPT ![l] = t]
  /\ UNCHANGED <<waiting, value>>

\* Lock::Release: only the holder's counts, and one undoes any number of Acquires.
FreedBy(t, l) == IF held[l] = t THEN [held EXCEPT ![l] = NoThread] ELSE held

Release(t, l) ==
  /\ held' = FreedBy(t, l)
  /\ UNCHANGED <<waiting, value>>

\* Condition::Wait up to the sleep; the thread then waits to be woken and to
\* acquire the lock again.
Wait(t, c, l) ==
  /\ held[l] = t
  /\ held' = FreedBy(t, l)
  /\ waiting' = [waiting EXCEPT ![c] = Append(@, t)]
  /\ UNCHANGED value

\* One wakeup, of Signal or of Broadcast's loop.
Wake(t, c, l) ==
  /\ held[l] = t
  /\ waiting[c] # <<>>
  /\ waiting' = [waiting EXCEPT ![c] = Tail(@)]
  /\ UNCHANGED <<held, value>>

\* Semaphore::P returns; Semaphore::V.
P(s) ==
  /\ value[s] > 0
  /\ value' = [value EXCEPT ![s] = @ - 1]
  /\ UNCHANGED <<held, waiting>>

V(s) ==
  /\ value' = [value EXCEPT ![s] = @ + 1]
  /\ UNCHANGED <<held, waiting>>

--------------------------------------------------------------------------------

MonitorNext ==
  \/ \E t \in Thread, l \in Lock : Acquire(t, l) \/ Release(t, l)
  \/ \E t \in Thread, l \in Lock, c \in Condition : Wait(t, c, l) \/ Wake(t, c, l)
  \/ \E s \in Semaphore : P(s) \/ V(s)

================================================================================
