------------------------------ MODULE ListProofs -------------------------------
(***************************************************************************)
(* SynchList, for any threads and any number of items: its invariant, the  *)
(* lemmas that its steps keep it, and what follows from it.                *)
(***************************************************************************)
EXTENDS SynchList, SynchProofs

\* Time limits of the provers, in seconds, for a step that gives none.
USE SMTT(30), ZenonT(30)

\* The places of SynchList's routines at which the lock is held, and those from
\* which a thread comes to test the list.
LockedPlace == ListBody \cup {<<"Wait">>, <<"Release">>}
LookingPlace == {<<"Acquire", <<"Remove">>>>, <<"Remove">>, <<"Woken">>}

LInv ==
  /\ ProgramInv
  /\ pc \in [Thread -> {<<>>} \cup ListCall]
  /\ list \in Seq(ListItem) /\ appended \in Seq(ListItem) /\ removed \in Seq(ListItem)
  /\ FifoOrder
  /\ \A t \in Thread : pc[t] \in LockedPlace => heldThread[listLock] = t
  /\ \A t \in Thread : pc[t] = <<"Wait">> => list = <<>>
  /\ \A t \in Thread : t \in Members(condQueue[listEmpty]) => pc[t] = <<"Woken">>
  /\ ItemsCovered

\* Where in the routines the lock is held, and where a remover still looks at the list.
LEMMA ListPlaces ==
  /\ <<>> \notin LockedPlace /\ <<>> \notin LookingPlace
  /\ \A b : <<"Acquire", b>> \notin LockedPlace
  /\ \A b : <<"Acquire", b>> \in LookingPlace <=> b = <<"Remove">>
  /\ \A i \in ListItem : <<"Append", i>> \in LockedPlace /\ <<"Append", i>> \notin LookingPlace
  /\ <<"Remove">> \in LockedPlace /\ <<"Remove">> \in LookingPlace
  /\ <<"Mapcar">> \in LockedPlace /\ <<"Mapcar">> \notin LookingPlace
  /\ <<"Wait">> \in LockedPlace /\ <<"Wait">> \notin LookingPlace
  /\ <<"Release">> \in LockedPlace /\ <<"Release">> \notin LookingPlace
  /\ <<"Woken">> \notin LockedPlace /\ <<"Woken">> \in LookingPlace
BY DEF LockedPlace, LookingPlace, ListBody

\* The threads that are awake and look at the list, in this state and in the next.
Awake == {t \in Thread : pc[t] \in LookingPlace /\ t \notin Members(condQueue[listEmpty])}

\* The removers that still look at the list, by the place they are at.
LEMMA LookingIs ==
  /\ (\A t \in Thread : t \in Members(condQueue[listEmpty]) => pc[t] = <<"Woken">>)
       => Looking = Awake
  /\ (\A t \in Thread : t \in Members(condQueue'[listEmpty]) => pc'[t] = <<"Woken">>)
       => Looking' = Awake'
<1>1. <<"Woken">> # <<"Remove">> /\ <<"Woken">> # <<"Acquire", <<"Remove">>>>
  BY Zenon
<1>2. \A q : Members(q) = Members(q)
  BY Zenon DEF Members
<1> QED
  BY <1>1, <1>2, Zenon DEF Looking, LookingPlace, Awake

\* Append on the list and on the record of what was appended.
LEMMA ConcatAppend ==
  ASSUME NEW S, NEW p \in Seq(S), NEW q \in Seq(S), NEW e \in S
  PROVE  p \o Append(q, e) = Append(p \o q, e)
OBVIOUS

\* What Remove takes off the list it adds to what was removed.
LEMMA ConcatMove ==
  ASSUME NEW S, NEW p \in Seq(S), NEW q \in Seq(S), q # <<>>
  PROVE  /\ Append(p, Head(q)) \o Tail(q) = p \o q
         /\ Append(p, Head(q)) \in Seq(S) /\ Tail(q) \in Seq(S)
         /\ Len(q) \in Nat \ {0} /\ Len(Tail(q)) = Len(q) - 1
<1>1. Head(q) \in S /\ Tail(q) \in Seq(S) /\ Len(q) \in Nat \ {0} /\ Len(Tail(q)) = Len(q) - 1
  OBVIOUS
<1>2. \A i \in 1..Len(Tail(q)) : Tail(q)[i] = q[i + 1]
  OBVIOUS
<1>3. Head(q) = q[1]
  OBVIOUS
<1> DEFINE a == Append(p, Head(q)) \o Tail(q)
           b == p \o q
<1>4. Len(a) = Len(b) /\ a \in Seq(S) /\ b \in Seq(S) /\ Append(p, Head(q)) \in Seq(S)
  BY <1>1
<1>5. ASSUME NEW i \in 1..Len(b) PROVE a[i] = b[i]
  BY <1>1, <1>2, <1>3
<1>6. a = b
  <2> HIDE DEF a, b
  <2> QED
    BY <1>4, <1>5
<1> QED
  BY <1>1, <1>4, <1>6, Zenon

\* A step of a thread from one place in the routines to another, on the way to
\* which it may take or release the lock.
LEMMA ListCallerStep ==
  ASSUME SynchListAssumption, LInv, ProgramInv', Executing, NEW v \in {<<>>} \cup ListCall,
         pc' = [pc EXCEPT ![currentThread] = v],
         UNCHANGED <<condQueue, list, appended, removed>>,
         \A t \in Thread \ {currentThread} :
           heldThread[listLock] = t => heldThread'[listLock] = t,
         v \in LockedPlace => heldThread'[listLock] = currentThread,
         v = <<"Wait">> => list = <<>>,
         pc[currentThread] \in LookingPlace => v \in LookingPlace \/ list = <<>>
  PROVE  LInv'
<1>1. /\ currentThread \in Thread
      /\ currentThread \notin Members(condQueue[listEmpty])
      /\ pc' \in [Thread -> {<<>>} \cup ListCall]
      /\ pc'[currentThread] = v
      /\ \A t \in Thread \ {currentThread} : pc'[t] = pc[t]
  BY CallerMoves, Zenon DEF LInv, SynchListAssumption
<1>2. FifoOrder'
  BY Zenon DEF LInv, FifoOrder
<1>3. \A t \in Thread : pc'[t] \in LockedPlace => heldThread'[listLock] = t
  BY <1>1, Zenon DEF LInv
<1>4. \A t \in Thread : pc'[t] = <<"Wait">> => list' = <<>>
  BY <1>1, Zenon DEF LInv
<1>5. \A t \in Thread : t \in Members(condQueue'[listEmpty]) => pc'[t] = <<"Woken">>
  BY <1>1, Zenon DEF LInv
<1>6. Looking = Awake /\ Looking' = Awake'
  BY <1>5, LookingIs, Zenon DEF LInv
<1>7. list # <<>> => Awake \subseteq Awake'
  BY <1>1, Zenon DEF Awake
<1>8. Len(list) \in Nat /\ (list = <<>> => Len(list) = 0)
  BY DEF LInv
<1>9. condQueue[listEmpty] # <<>> => Covered(Len(list), Awake)
  BY <1>6, Zenon DEF LInv, ItemsCovered
<1>10. condQueue[listEmpty] # <<>> => Covered(Len(list), Awake')
  BY <1>7, <1>8, <1>9, NoUnits, MoreThreads, Zenon
<1>11. ItemsCovered'
  BY <1>6, <1>10, Zenon DEF ItemsCovered
<1> QED
  BY <1>1, <1>2, <1>3, <1>4, <1>5, <1>11, Zenon DEF LInv

\* A step after which every thread is where it was.
LEMMA ListQuietStep ==
  ASSUME SynchListAssumption, LInv, ProgramInv', UNCHANGED <<pc, heldThread, condQueue, list, appended, removed>>
  PROVE  LInv'
<1>1. FifoOrder' /\ ItemsCovered' /\ Looking' = Looking
  BY Zenon DEF LInv, FifoOrder, ItemsCovered, Looking, Members
<1> QED
  BY <1>1, Zenon DEF LInv

\* A fork, an exit, a time slice, a step of the scheduler or a halt.
LEMMA ListKernelStep == ASSUME SynchListAssumption, LInv, KernelStep, UNCHANGED listVars PROVE LInv'
BY SharedStep, ListQuietStep, Zenon DEF LInv, synchVars, listVars

\* A call comes from a thread that is in no routine and starts by spinning for the
\* lock.
LEMMA ListEnter ==
  ASSUME SynchListAssumption, LInv, NEW b \in ListBody, Enter(<<"Acquire", b>>), UNCHANGED listVars
  PROVE  LInv'
<1>1. /\ Executing /\ UNCHANGED kernelVars /\ UNCHANGED synchVars /\ UNCHANGED finished
      /\ pc[currentThread] = <<>> /\ pc' = [pc EXCEPT ![currentThread] = <<"Acquire", b>>]
      /\ UNCHANGED <<list, appended, removed>>
  BY Zenon DEF Enter, Executing, InCall, Goto, listVars, kernelVars, synchVars
<1>2. SynchTypeOK' /\ UNCHANGED <<semQueue, condQueue, heldThread>>
  BY <1>1, Zenon DEF LInv, ProgramInv, SynchTypeOK, synchVars
<1>3. ProgramInv'
  BY <1>1, <1>2, RunningStep, Zenon DEF LInv
<1>4. <<"Acquire", b>> \in ListCall
  BY Zenon DEF ListCall
<1>5. <<"Acquire", b>> # <<"Wait">>
  BY Zenon
<1> QED
  BY <1>1, <1>2, <1>3, <1>4, <1>5, ListCallerStep, ListPlaces, Zenon

\* lock->Acquire().
LEMMA ListAcquire == ASSUME SynchListAssumption, LInv, NEW b \in ListBody, AcquireList(b) PROVE LInv'
<1>1. /\ pc[currentThread] = <<"Acquire", b>> /\ UNCHANGED finished
      /\ UNCHANGED <<list, appended, removed>>
  BY Zenon DEF AcquireList, InCall, listVars
<1>2. CASE AcquireYield(listLock) /\ UNCHANGED pc
  <2>1. Yield /\ UNCHANGED synchVars
    BY <1>2, Zenon DEF AcquireYield
  <2>2. SynchTypeOK' /\ UNCHANGED <<semQueue, condQueue, heldThread>>
    BY <2>1, Zenon DEF LInv, ProgramInv, SynchTypeOK, synchVars
  <2>3. ProgramInv'
    BY <1>1, <2>1, <2>2, RunningStep, Zenon DEF LInv
  <2> QED
    BY <1>1, <1>2, <2>2, <2>3, ListQuietStep, Zenon
<1>3. CASE AcquireTake(listLock) /\ Goto(b)
  <2>1. /\ Executing /\ UNCHANGED kernelVars /\ UNCHANGED <<value, semQueue, condQueue>>
        /\ heldThread[listLock] = NoThread \/ heldThread[listLock] = currentThread
        /\ heldThread' = [heldThread EXCEPT ![listLock] = currentThread]
        /\ pc' = [pc EXCEPT ![currentThread] = b]
    BY <1>3, Zenon DEF AcquireTake, isHeldByCurrentThread, Goto
  <2>2. currentThread \in Thread
    BY KernelFacts, Zenon DEF LInv, KernelTypeOK
  <2>3. SynchTypeOK' /\ heldThread'[listLock] = currentThread
    BY <2>1, <2>2, Zenon DEF LInv, ProgramInv, SynchTypeOK, SynchListAssumption
  <2>4. ProgramInv'
    BY <1>1, <2>1, <2>3, RunningStep, Zenon DEF LInv
  <2>5. b \in ListCall /\ b # <<"Wait">>
    BY DEF ListCall, ListBody
  <2>6. <<"Acquire", b>> \in LookingPlace => b \in LookingPlace
    BY ListPlaces
  <2>7. \A t \in Thread \ {currentThread} : heldThread[listLock] # t
    BY <2>1, ThreadAssumption, Zenon
  <2> QED
    BY <1>1, <2>1, <2>3, <2>4, <2>5, <2>6, <2>7, ListCallerStep, Zenon
<1> QED
  BY <1>2, <1>3, Zenon DEF AcquireList

\* lock->Release() at the end of a routine.
LEMMA ListReleases ==
  ASSUME SynchListAssumption, LInv, Release(listLock), UNCHANGED finished
  PROVE  /\ ProgramInv' /\ Executing /\ currentThread \in Thread
         /\ UNCHANGED <<semQueue, condQueue>>
         /\ \A t \in Thread \ {currentThread} : heldThread[listLock] = t => heldThread'[listLock] = t
<1>1. /\ Executing /\ UNCHANGED kernelVars /\ UNCHANGED <<value, semQueue, condQueue>>
      /\ heldThread' = Released(listLock)
  BY Zenon DEF Release
<1>2. currentThread \in Thread /\ heldThread \in [Lock -> Thread \cup {NoThread}]
  BY KernelFacts, Zenon DEF LInv, KernelTypeOK, ProgramInv, SynchTypeOK
<1>3. /\ heldThread' \in [Lock -> Thread \cup {NoThread}]
      /\ \A t \in Thread \ {currentThread} : heldThread[listLock] = t => heldThread'[listLock] = t
  BY <1>1, <1>2, Zenon DEF Released, isHeldByCurrentThread, SynchListAssumption
<1>4. SynchTypeOK'
  BY <1>1, <1>3, Zenon DEF LInv, ProgramInv, SynchTypeOK
<1> QED
  BY <1>1, <1>2, <1>3, <1>4, RunningStep, Zenon DEF LInv

\* A thread that leaves the list for good.
LEMMA ListReturns ==
  ASSUME SynchListAssumption, LInv, Release(listLock), UNCHANGED finished, UNCHANGED <<list, appended, removed>>,
         Goto(<<>>), pc[currentThread] \notin LookingPlace
  PROVE  LInv'
<1>1. pc' = [pc EXCEPT ![currentThread] = <<>>]
  BY Zenon DEF Goto
<1>2. <<>> # <<"Wait">> /\ <<>> \in {<<>>} \cup ListCall
  BY Zenon
<1> QED
  BY <1>1, <1>2, ListReleases, ListCallerStep, ListPlaces, Zenon

\* The Release at the end of each routine.
LEMMA ListReleaseReturn == ASSUME SynchListAssumption, LInv, ReleaseList PROVE LInv'
BY ListReturns, ListPlaces, Zenon DEF ReleaseList, InCall, listVars

\* SynchList::Mapcar leaves the list as it is.
LEMMA ListMapcar == ASSUME SynchListAssumption, LInv, Mapcar PROVE LInv'
BY ListReturns, ListPlaces, Zenon DEF Mapcar, InCall, listVars

\* Remove finds the list empty and goes on to Wait; and comes back from it.
LEMMA ListRemoveWaits == ASSUME SynchListAssumption, LInv, RemoveWaits PROVE LInv'
<1>1. /\ DisableInterrupts /\ UNCHANGED synchVars /\ UNCHANGED finished
      /\ UNCHANGED <<list, appended, removed>>
      /\ pc[currentThread] = <<"Remove">> /\ list = <<>>
      /\ pc' = [pc EXCEPT ![currentThread] = <<"Wait">>]
  BY Zenon DEF RemoveWaits, InCall, listVars, Goto, synchVars
<1>2. Executing /\ currentThread \in Thread
  BY <1>1, KernelFacts, Zenon DEF LInv, KernelTypeOK, DisableInterrupts
<1>3. SynchTypeOK' /\ UNCHANGED <<semQueue, condQueue, heldThread>>
  BY <1>1, Zenon DEF LInv, ProgramInv, SynchTypeOK, synchVars
<1>4. ProgramInv'
  BY <1>1, <1>3, RunningStep, Zenon DEF LInv
<1>5. <<"Wait">> \in ListCall
  BY Zenon DEF ListCall
<1>6. heldThread'[listLock] = currentThread
  BY <1>1, <1>2, <1>3, ListPlaces, Zenon DEF LInv
<1> QED
  BY <1>1, <1>2, <1>3, <1>4, <1>5, <1>6, ListCallerStep, Zenon

\* A remover that was woken goes on to acquire the lock.
LEMMA ListWaitReturn == ASSUME SynchListAssumption, LInv, WaitReturn PROVE LInv'
<1>1. /\ EnableInterrupts /\ UNCHANGED synchVars /\ UNCHANGED finished
      /\ UNCHANGED <<list, appended, removed>>
      /\ pc[currentThread] = <<"Woken">>
      /\ pc' = [pc EXCEPT ![currentThread] = <<"Acquire", <<"Remove">>>>]
  BY Zenon DEF WaitReturn, InCall, listVars, Goto, synchVars
<1>2. Executing
  BY <1>1, Zenon DEF EnableInterrupts
<1>3. SynchTypeOK' /\ UNCHANGED <<semQueue, condQueue, heldThread>>
  BY <1>1, Zenon DEF LInv, ProgramInv, SynchTypeOK, synchVars
<1>4. ProgramInv'
  BY <1>1, <1>3, RunningStep, Zenon DEF LInv
<1>5. <<"Acquire", <<"Remove">>>> \in ListCall /\ <<"Acquire", <<"Remove">>>> # <<"Wait">>
  BY Zenon DEF ListCall, ListBody
<1> QED
  BY <1>1, <1>2, <1>3, <1>4, <1>5, ListCallerStep, ListPlaces, Zenon

\* Condition::Wait up to the sleep.
LEMMA ListWait == ASSUME SynchListAssumption, LInv, WaitForItem PROVE LInv'
<1>1. /\ WaitSleep(listEmpty, listLock) /\ UNCHANGED finished
      /\ UNCHANGED <<list, appended, removed>>
      /\ pc[currentThread] = <<"Wait">>
      /\ pc' = [pc EXCEPT ![currentThread] = <<"Woken">>]
  BY Zenon DEF WaitForItem, InCall, listVars, Goto
<1>2. /\ ProgramInv' /\ Executing
      /\ currentThread \in Thread
      /\ Members(condQueue'[listEmpty]) = Members(condQueue[listEmpty]) \cup {currentThread}
      /\ heldThread' = Released(listLock)
  BY <1>1, SleepInWait, ZenonT(60) DEF LInv, WaitSleep, Sleep, SynchListAssumption
<1>3. <<"Woken">> \in {<<>>} \cup ListCall /\ <<"Woken">> # <<"Wait">>
  BY Zenon DEF ListCall
<1>4. /\ pc' \in [Thread -> {<<>>} \cup ListCall]
      /\ pc'[currentThread] = <<"Woken">>
      /\ \A t \in Thread \ {currentThread} : pc'[t] = pc[t]
  BY <1>1, <1>2, <1>3, CallerMoves, Zenon DEF LInv
<1>5. /\ heldThread[listLock] = currentThread /\ list = <<>>
      /\ \A t \in Thread \ {currentThread} : pc[t] \notin LockedPlace
  BY <1>1, <1>2, ListPlaces, Zenon DEF LInv
<1>6. \A t \in Thread : pc'[t] \in LockedPlace => heldThread'[listLock] = t
  BY <1>4, <1>5, ListPlaces, Zenon
<1>7. \A t \in Thread : t \in Members(condQueue'[listEmpty]) => pc'[t] = <<"Woken">>
  BY <1>2, <1>4, Zenon DEF LInv
<1>8. Len(list') = 0
  BY <1>1, <1>5, Zenon
<1>9. ItemsCovered'
  BY <1>8, NoUnits, Zenon DEF ItemsCovered
<1>10. FifoOrder'
  BY <1>1, Zenon DEF LInv, FifoOrder
<1> QED
  BY <1>1, <1>2, <1>4, <1>5, <1>6, <1>7, <1>9, <1>10, Zenon DEF LInv

\* SynchList::Remove takes an item.
LEMMA ListRemoveItem == ASSUME SynchListAssumption, LInv, RemoveItem PROVE LInv'
<1>1. /\ Release(listLock) /\ UNCHANGED finished
      /\ list # <<>>
      /\ removed' = Append(removed, Head(list)) /\ list' = Tail(list) /\ appended' = appended
      /\ pc[currentThread] = <<"Remove">>
      /\ pc' = [pc EXCEPT ![currentThread] = <<>>]
  BY Zenon DEF RemoveItem, InCall, Goto
<1>2. /\ ProgramInv' /\ Executing /\ currentThread \in Thread
      /\ UNCHANGED condQueue
      /\ \A t \in Thread \ {currentThread} : heldThread[listLock] = t => heldThread'[listLock] = t
  BY <1>1, ListReleases, Zenon
<1>3. /\ pc' \in [Thread -> {<<>>} \cup ListCall]
      /\ currentThread \notin Members(condQueue[listEmpty])
      /\ pc'[currentThread] = <<>>
      /\ \A t \in Thread \ {currentThread} : pc'[t] = pc[t]
  BY <1>1, <1>2, CallerMoves, Zenon DEF LInv, SynchListAssumption
<1>4. \A t \in Thread : pc'[t] \notin LockedPlace
  BY <1>1, <1>2, <1>3, ListPlaces, ZenonT(60) DEF LInv
<1>5. \A t \in Thread : pc'[t] # <<"Wait">>
  BY <1>4, ListPlaces, Zenon
<1>6. \A t \in Thread : t \in Members(condQueue'[listEmpty]) => pc'[t] = <<"Woken">>
  BY <1>2, <1>3, Zenon DEF LInv
<1>7. /\ list' \in Seq(ListItem) /\ appended' \in Seq(ListItem) /\ removed' \in Seq(ListItem)
      /\ Len(list) \in Nat \ {0} /\ Len(list') = Len(list) - 1
      /\ FifoOrder'
  <2>1. /\ list \in Seq(ListItem) /\ appended \in Seq(ListItem) /\ removed \in Seq(ListItem)
        /\ removed \o list = appended
    BY Zenon DEF LInv, FifoOrder
  <2>2. /\ Append(removed, Head(list)) \o Tail(list) = removed \o list
        /\ Append(removed, Head(list)) \in Seq(ListItem) /\ Tail(list) \in Seq(ListItem)
        /\ Len(list) \in Nat \ {0} /\ Len(Tail(list)) = Len(list) - 1
    BY <1>1, <2>1, ConcatMove, Zenon
  <2> QED
    BY <1>1, <2>1, <2>2, Zenon DEF FifoOrder
<1>8. Looking = Awake /\ Looking' = Awake'
  BY <1>6, LookingIs, Zenon DEF LInv
<1>9. currentThread \in Awake /\ Awake' = Awake \ {currentThread}
  BY <1>1, <1>2, <1>3, ListPlaces, Zenon DEF Awake
<1>10. condQueue[listEmpty] # <<>> => Covered(Len(list), Awake)
  BY <1>8, Zenon DEF LInv, ItemsCovered
<1>11. condQueue[listEmpty] # <<>> => Covered(Len(list) - 1, Awake \ {currentThread})
  BY <1>7, <1>10, UnitTaken, Zenon
<1>12. ItemsCovered'
  BY <1>2, <1>7, <1>8, <1>9, <1>11, Zenon DEF ItemsCovered
<1> QED
  BY <1>2, <1>3, <1>4, <1>5, <1>6, <1>7, <1>12, Zenon DEF LInv

\* SynchList::Append puts an item on the list and wakes a remover, if one sleeps.
LEMMA ListAppendItem == ASSUME SynchListAssumption, LInv, NEW i \in ListItem, AppendItem(i) PROVE LInv'
<1>1. /\ UNCHANGED finished
      /\ list' = Append(list, i) /\ appended' = Append(appended, i) /\ removed' = removed
      /\ pc[currentThread] = <<"Append", i>>
  BY Zenon DEF AppendItem, InCall
<1>2. /\ list' \in Seq(ListItem) /\ appended' \in Seq(ListItem) /\ removed' \in Seq(ListItem)
      /\ Len(list) \in Nat /\ Len(list') = Len(list) + 1
      /\ FifoOrder'
  BY <1>1, ConcatAppend DEF LInv, FifoOrder
<1>3. currentThread \in Thread
  BY KernelFacts, Zenon DEF LInv, KernelTypeOK
<1>4. /\ heldThread[listLock] = currentThread
      /\ \A t \in Thread \ {currentThread} : pc[t] \notin LockedPlace
  BY <1>1, <1>3, ListPlaces, ZenonT(60) DEF LInv
<1>5. CASE condQueue[listEmpty] = <<>> /\ Release(listLock) /\ Goto(<<>>)
  <2>1. pc' = [pc EXCEPT ![currentThread] = <<>>]
    BY <1>5, Zenon DEF Goto
  <2>2. ProgramInv' /\ Executing /\ UNCHANGED condQueue
    BY <1>1, <1>5, ListReleases, Zenon
  <2>3. /\ pc' \in [Thread -> {<<>>} \cup ListCall]
        /\ pc'[currentThread] = <<>>
        /\ \A t \in Thread \ {currentThread} : pc'[t] = pc[t]
    BY <2>1, <2>2, CallerMoves, ZenonT(60) DEF LInv
  <2>4. \A t \in Thread : pc'[t] \notin LockedPlace /\ pc'[t] # <<"Wait">>
    BY <1>4, <2>3, ListPlaces
  <2>5. Members(condQueue'[listEmpty]) = {} /\ condQueue'[listEmpty] = <<>>
    BY <1>5, <2>2 DEF Members
  <2>6. ItemsCovered'
    BY <2>5, Zenon DEF ItemsCovered
  <2> QED
    BY <1>2, <2>2, <2>3, <2>4, <2>5, <2>6, Zenon DEF LInv
<1>6. CASE condQueue[listEmpty] # <<>> /\ Signal(listEmpty, listLock) /\ Goto(<<"Release">>)
  <2>1. /\ pc' = [pc EXCEPT ![currentThread] = <<"Release">>]
        /\ Executing /\ WakeWaiter(listEmpty)
    BY <1>4, <1>6, Zenon DEF Goto, Signal, isHeldByCurrentThread
  <2> DEFINE u == Head(condQueue[listEmpty])
  <2>2. /\ ProgramInv' /\ u \in Thread /\ u \in Members(condQueue[listEmpty])
        /\ Members(condQueue'[listEmpty]) = Members(condQueue[listEmpty]) \ {u}
        /\ UNCHANGED <<currentThread, heldThread>>
    BY <1>1, <2>1, WakeInSignal, Zenon DEF LInv, SynchListAssumption
  <2> HIDE DEF u
  <2>3. <<"Release">> \in {<<>>} \cup ListCall /\ <<"Release">> # <<"Wait">>
    BY Zenon DEF ListCall
  <2>4. /\ pc' \in [Thread -> {<<>>} \cup ListCall]
        /\ currentThread \notin Members(condQueue[listEmpty])
        /\ pc'[currentThread] = <<"Release">>
        /\ \A t \in Thread \ {currentThread} : pc'[t] = pc[t]
    BY <2>1, <2>3, CallerMoves, ZenonT(60) DEF LInv, SynchListAssumption
  <2>5. /\ \A t \in Thread : pc'[t] \in LockedPlace => heldThread'[listLock] = t
        /\ \A t \in Thread : pc'[t] # <<"Wait">>
    <3>1. \A t \in Thread \ {currentThread} : pc'[t] \notin LockedPlace
      BY <1>4, <2>4, Zenon
    <3>2. \A t \in Thread \ {currentThread} : pc'[t] # <<"Wait">>
      BY <3>1, ListPlaces, ZenonT(60)
    <3> QED
      BY <1>4, <2>2, <2>3, <2>4, <3>1, <3>2, Zenon
  <2>6. \A t \in Thread : t \in Members(condQueue'[listEmpty]) => pc'[t] = <<"Woken">>
    BY <2>2, <2>4, Zenon DEF LInv
  <2>7. Looking = Awake /\ Looking' = Awake'
    BY <2>6, LookingIs, Zenon DEF LInv
  <2>8. u \notin Awake /\ pc[u] = <<"Woken">> /\ u # currentThread
    BY <2>2, <2>4, Zenon DEF LInv, Awake
  <2>9. Awake' = Awake \cup {u}
    BY <1>1, <1>3, <2>2, <2>4, <2>8, ListPlaces, Zenon DEF Awake
  <2>10. Covered(Len(list), Awake)
    BY <1>6, <2>7, Zenon DEF LInv, ItemsCovered
  <2>11. Covered(Len(list) + 1, Awake \cup {u})
    BY <1>2, <2>8, <2>10, UnitAdded, Zenon
  <2>12. ItemsCovered'
    BY <1>2, <2>7, <2>9, <2>11, Zenon DEF ItemsCovered
  <2> QED
    BY <1>2, <2>2, <2>4, <2>5, <2>6, <2>12, Zenon DEF LInv
<1> QED
  BY <1>5, <1>6, Zenon DEF AppendItem

\* Every step of the threads that share a SynchList keeps the invariant.
LEMMA ListStep == ASSUME SynchListAssumption, LInv, [SynchListNext]_(SynchListVars) PROVE LInv'
<1>1. CASE UNCHANGED SynchListVars
  <2>1. /\ UNCHANGED kernelVars /\ UNCHANGED synchVars /\ UNCHANGED <<pc, finished>>
        /\ UNCHANGED <<list, appended, removed>>
    BY <1>1, Zenon DEF SynchListVars, programVars, listVars, kernelVars, synchVars
  <2>2. SynchTypeOK' /\ UNCHANGED <<semQueue, condQueue, heldThread>>
    BY <2>1, Zenon DEF LInv, ProgramInv, SynchTypeOK, synchVars
  <2>3. ProgramInv'
    BY <2>1, <2>2, RunningStep, Zenon DEF LInv
  <2> QED
    BY <2>1, <2>2, <2>3, ListQuietStep, Zenon
<1>2. CASE KernelStep /\ UNCHANGED listVars
  BY <1>2, ListKernelStep, Zenon
<1>3. ASSUME NEW i \in ListItem, CallAppend(i) \/ AcquireList(<<"Append", i>>) \/ AppendItem(i)
      PROVE  LInv'
  <2>1. <<"Append", i>> \in ListBody
    BY Zenon DEF ListBody
  <2>2. CallAppend(i) => Enter(<<"Acquire", <<"Append", i>>>>) /\ UNCHANGED listVars
    BY Zenon DEF CallAppend
  <2> QED
    BY <1>3, <2>1, <2>2, ListEnter, ListAcquire, ListAppendItem, Zenon
<1>4. CASE CallRemove \/ AcquireList(<<"Remove">>) \/ CallMapcar \/ AcquireList(<<"Mapcar">>)
  <2>1. <<"Remove">> \in ListBody /\ <<"Mapcar">> \in ListBody
    BY Zenon DEF ListBody
  <2> QED
    BY <1>4, <2>1, ListEnter, ListAcquire, Zenon DEF CallRemove, CallMapcar
<1>5. CASE RemoveWaits \/ WaitForItem \/ WaitReturn \/ RemoveItem \/ Mapcar \/ ReleaseList
  BY <1>5, ListRemoveWaits, ListWait, ListWaitReturn, ListRemoveItem, ListMapcar,
     ListReleaseReturn, Zenon
<1> QED
  BY <1>1, <1>2, <1>3, <1>4, <1>5, ZenonT(60) DEF SynchListNext

\* The constructor of SynchList establishes it.
LEMMA ListStarts == ASSUME SynchListAssumption, SynchListInit PROVE LInv
<1>1. ProgramInit([s \in Semaphore |-> 0]) /\ list = <<>> /\ appended = <<>> /\ removed = <<>>
  BY Zenon DEF SynchListInit, ProgramInit, KernelInit, SynchInit
<1>2. ProgramInv
  BY <1>1, ProgramStarts, Zenon
<1>3. pc = [t \in Thread |-> <<>>] /\ condQueue = [c \in Condition |-> <<>>]
  BY <1>1, Zenon DEF ProgramInit, SynchInit
<1>4. \A t \in Thread : pc[t] \notin LockedPlace /\ pc[t] # <<"Wait">> /\ pc[t] \notin LookingPlace
  BY <1>3, ListPlaces, Zenon
<1>5. condQueue[listEmpty] = <<>> /\ Members(condQueue[listEmpty]) = {}
  BY <1>3 DEF Members, SynchListAssumption
<1>6. FifoOrder /\ ItemsCovered
  BY <1>1, <1>5 DEF FifoOrder, ItemsCovered
<1>7. pc \in [Thread -> {<<>>} \cup ListCall]
  BY <1>3, Zenon
<1> QED
  BY <1>1, <1>2, <1>4, <1>5, <1>6, <1>7 DEF LInv

\* What the invariant says of the list.
LEMMA ListPromise == ASSUME SynchListAssumption, LInv PROVE SynchListTypeOK /\ FifoOrder /\ ItemsCovered
<1>1. KernelTypeOK /\ SynchTypeOK /\ finished \subseteq Thread
  BY KernelFacts, Zenon DEF LInv, ProgramInv
<1>2. ProgramTypeOK(ListCall)
  BY <1>1, Zenon DEF LInv, ProgramTypeOK, KernelTypeOK, SynchTypeOK, Lifetime, ThreadStatus, ResumePoint
<1> QED
  BY <1>2, Zenon DEF LInv, SynchListTypeOK

\* Whatever threads append, remove and walk the list, its invariant holds.
THEOREM ListInvariance == ASSUME SynchListAssumption PROVE SynchListSpec => []LInv
<1>1. SynchListInit => LInv
  BY ListStarts, Zenon
<1>2. LInv /\ [SynchListNext]_SynchListVars => LInv'
  BY ListStep, Zenon
<1> QED
  BY <1>1, <1>2, PTL DEF SynchListSpec

\* SynchList::Append and Remove, called by any number of threads: no item is lost,
\* returned twice or overtaken, and no remover sleeps past an item on the list.
THEOREM ListCorrect == ASSUME SynchListAssumption PROVE SynchListSpec => []NoItemLost
<1>1. LInv => NoItemLost
  BY ListPromise, Zenon DEF NoItemLost
<1> QED
  BY <1>1, ListInvariance, PTL

================================================================================
