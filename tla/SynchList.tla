------------------------------- MODULE SynchList -------------------------------
(***************************************************************************)
(* A SynchList (threads/synchlist.cc) shared by threads that append items, *)
(* remove items and walk the list in any order: the monitor that hands     *)
(* mail from the postal worker to the readers of a mailbox.                *)
(*                                                                         *)
(* The lock is held across the ticks inside the routines: after Acquire,   *)
(* and after a Signal that finds a waiter.  A Signal that finds none does  *)
(* not touch the interrupt level, so the body of Append is then one step.  *)
(***************************************************************************)
EXTENDS Synch, FiniteSets

CONSTANTS
  MaxAppends,  \* bound on the calls of Append
  listLock,    \* SynchList::lock, a Lock
  listEmpty    \* SynchList::listEmpty, a Condition

\* What is put on the list: the calls of Append are numbered.
ListItem == 1..MaxAppends

\* The lock and the condition are ones of the kernel's.
SynchListAssumption ==
  /\ MaxAppends \in Nat
  /\ listLock \in Lock /\ listEmpty \in Condition

VARIABLES
  list,      \* SynchList::list
  appended,  \* the items Append has put on the list, in order
  removed    \* the items Remove has returned, in order

listVars == <<list, appended, removed>>

SynchListVars == <<programVars, listVars>>

\* The bodies of the three routines, with the steps around them.
ListBody == ({"Append"} \X ListItem) \cup {<<"Remove">>, <<"Mapcar">>}
ListCall == ListBody \cup ({"Acquire"} \X ListBody) \cup {<<"Wait">>, <<"Woken">>, <<"Release">>}

\* The kernel and the monitor are well typed, and the list holds items.
SynchListTypeOK ==
  /\ ProgramTypeOK(ListCall)
  /\ list \in Seq(ListItem)
  /\ appended \in Seq(ListItem)
  /\ removed \in Seq(ListItem)

\* The constructor: an empty list, a free lock, nobody waiting.
SynchListInit ==
  /\ ProgramInit([s \in Semaphore |-> 0])
  /\ list = <<>>
  /\ appended = <<>>
  /\ removed = <<>>

--------------------------------------------------------------------------------

\* lock->Acquire() on the way to the body of a routine.
AcquireList(body) ==
  /\ InCall(<<"Acquire", body>>)
  /\ \/ AcquireYield(listLock) /\ UNCHANGED pc
     \/ AcquireTake(listLock) /\ Goto(body)
  /\ UNCHANGED <<listVars, finished>>

\* lock->Release() and return, after a tick in the body.
ReleaseList ==
  /\ InCall(<<"Release">>)
  /\ Release(listLock)
  /\ Goto(<<>>)
  /\ UNCHANGED <<listVars, finished>>

\* SynchList::Append.
Appending(i) == \E t \in Thread : pc[t] \in {<<"Acquire", <<"Append", i>>>>, <<"Append", i>>}

CallAppend(i) ==
  /\ i = Cardinality({j \in ListItem : j \in Members(appended) \/ Appending(j)}) + 1
  /\ Enter(<<"Acquire", <<"Append", i>>>>)
  /\ UNCHANGED listVars

\* Append without the Signal.
AppendUnsignalled(i) ==
  /\ InCall(<<"Append", i>>)
  /\ list' = Append(list, i)
  /\ appended' = Append(appended, i)
  /\ Release(listLock)
  /\ Goto(<<>>)
  /\ UNCHANGED <<removed, finished>>

AppendItem(i) ==
  /\ InCall(<<"Append", i>>)
  /\ list' = Append(list, i)
  /\ appended' = Append(appended, i)
  /\ IF condQueue[listEmpty] = <<>>
     THEN Release(listLock) /\ Goto(<<>>)
     ELSE Signal(listEmpty, listLock) /\ Goto(<<"Release">>)
  /\ UNCHANGED <<removed, finished>>

\* SynchList::Remove: the test of its loop finds the list empty ...
CallRemove ==
  /\ Enter(<<"Acquire", <<"Remove">>>>)
  /\ UNCHANGED listVars

RemoveWaits ==
  /\ InCall(<<"Remove">>)
  /\ list = <<>>
  /\ DisableInterrupts
  /\ Goto(<<"Wait">>)
  /\ UNCHANGED <<synchVars, listVars, finished>>

WaitForItem ==
  /\ InCall(<<"Wait">>)
  /\ WaitSleep(listEmpty, listLock)
  /\ Goto(<<"Woken">>)
  /\ UNCHANGED <<listVars, finished>>

WaitReturn ==
  /\ InCall(<<"Woken">>)
  /\ EnableInterrupts
  /\ Goto(<<"Acquire", <<"Remove">>>>)
  /\ UNCHANGED <<synchVars, listVars, finished>>

\* ... or finds an item.
RemoveItem ==
  /\ InCall(<<"Remove">>)
  /\ list # <<>>
  /\ removed' = Append(removed, Head(list))
  /\ list' = Tail(list)
  /\ Release(listLock)
  /\ Goto(<<>>)
  /\ UNCHANGED <<appended, finished>>

\* SynchList::Mapcar: the function is applied while the lock is held, and may
\* itself tick.
CallMapcar ==
  /\ Enter(<<"Acquire", <<"Mapcar">>>>)
  /\ UNCHANGED listVars

Mapcar ==
  /\ InCall(<<"Mapcar">>)
  /\ Release(listLock)
  /\ Goto(<<>>)
  /\ UNCHANGED <<listVars, finished>>

SynchListNext ==
  \/ KernelStep /\ UNCHANGED listVars
  \/ \E i \in ListItem : CallAppend(i) \/ AcquireList(<<"Append", i>>) \/ AppendItem(i)
  \/ CallRemove \/ AcquireList(<<"Remove">>) \/ RemoveWaits \/ WaitForItem
  \/ WaitReturn \/ RemoveItem
  \/ CallMapcar \/ AcquireList(<<"Mapcar">>) \/ Mapcar
  \/ ReleaseList

SynchListSpec == SynchListInit /\ [][SynchListNext]_SynchListVars

--------------------------------------------------------------------------------

\* The threads in Remove that are awake and will look at the list again.
Looking ==
  {t \in Thread : pc[t] \in {<<"Acquire", <<"Remove">>>>, <<"Remove">>}
                    \/ (pc[t] = <<"Woken">> /\ t \notin Members(condQueue[listEmpty]))}

\* SynchList::Append "Wake up anyone waiting": as long as a remover sleeps, every
\* item on the list has a remover of its own awake to take it.  One Signal per
\* item is enough because the woken remover tests the list again and waits
\* again if another thread was faster.
ItemsCovered ==
  condQueue[listEmpty] # <<>> => Covered(Len(list), Looking)

\* SynchList::Remove asserts "item != NULL"; and what the removers have got, in
\* the order they got it, followed by what is on the list, is what was appended:
\* no item is lost, returned twice or overtaken.
FifoOrder == removed \o list = appended

\* No item of a SynchList is lost, returned twice or overtaken, and Append wakes a
\* remover for every item: none sleeps past an item on the list.
NoItemLost == SynchListTypeOK /\ FifoOrder /\ ItemsCovered

\* What fairness speaks of, as for SynchSystem: a thread dispatched again and again
\* gets through its routine.
InListRoutine(t) ==
  /\ currentThread = t
  /\ \/ \E i \in ListItem : AcquireList(<<"Append", i>>) \/ AppendItem(i)
     \/ AcquireList(<<"Remove">>) \/ RemoveWaits \/ WaitForItem
     \/ WaitReturn \/ RemoveItem
     \/ AcquireList(<<"Mapcar">>) \/ Mapcar
     \/ ReleaseList

ListSlice == TimeSlice /\ UNCHANGED listVars
ListDispatching == Schedule /\ UNCHANGED listVars

Walking == \E t \in Thread : pc[t] \in {<<"Acquire", <<"Mapcar">>>>, <<"Mapcar">>}

\* An item on the list and a remover asleep.
Unserved == list # <<>> /\ condQueue[listEmpty] # <<>>

================================================================================
