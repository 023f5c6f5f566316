--------------------------- MODULE SynchSystemProofs ---------------------------
(***************************************************************************)
(* The routines of threads/synch.cc under the most general program, for    *)
(* any threads, semaphores, locks and conditions: the values, owners and   *)
(* queues agree with the calls the threads are in, and the routines        *)
(* implement both the thread kernel and the abstract monitors.             *)
(***************************************************************************)
EXTENDS SynchSystem, SynchProofs

\* Time limits of the provers, in seconds, for a step that gives none.
USE SMTT(30), ZenonT(30)

\* A thread on a queue is in the routine that put it there.
CallsQueued ==
  /\ \A t \in Thread, s \in Semaphore : t \in Members(semQueue[s]) => pc[t] = <<"P", s>>
  /\ \A t \in Thread, c \in Condition :
       t \in Members(condQueue[c]) => \E l \in Lock : pc[t] = <<"Woken", c, l>>

\* Wait and Broadcast test once that the caller holds the lock; it still does when
\* they sleep and wake, since only the holder can release a lock.
HoldersCall ==
  /\ \A t \in Thread, c \in Condition, l \in Lock :
       pc[t] = <<"Wait", c, l>> => heldThread[l] = t
  /\ \A t \in Thread, c \in Condition :
       pc[t] = <<"Broadcast", c>> => \E l \in Lock : heldThread[l] = t

\* WakeupsCoverValue for one semaphore.
CoveredAt(s) == semQueue[s] # <<>> => Covered(value[s], Testing(s))

SInv ==
  /\ ProgramInv
  /\ pc \in [Thread -> {<<>>} \cup Call]
  /\ holds \in [Thread -> SUBSET Lock]
  /\ CallsQueued
  /\ LockExclusive
  /\ HoldersCall
  /\ \A s \in Semaphore : CoveredAt(s)

--------------------------------------------------------------------------------

\* A thread that moves from one call to another is on no queue, and the others
\* stay where they are.
LEMMA CallMoves ==
  ASSUME SInv, Executing, NEW v, pc' = [pc EXCEPT ![currentThread] = v]
  PROVE  /\ currentThread \in Thread
         /\ \A s \in Semaphore : currentThread \notin Members(semQueue[s])
         /\ \A c \in Condition : currentThread \notin Members(condQueue[c])
         /\ pc'[currentThread] = v
         /\ \A t \in Thread \ {currentThread} : pc'[t] = pc[t]
<1>1. currentThread \in Thread /\ currentThread \notin Queued
  BY KernelFacts, Zenon DEF SInv, KernelTypeOK
<1> QED
  BY <1>1, InQueued, Zenon DEF SInv

\* A call that returns asks for no lock.
LEMMA HoldersReturn ==
  ASSUME HoldersCall, heldThread' = heldThread,
         \A t \in Thread : pc'[t] # <<>> => pc'[t] = pc[t]
  PROVE  HoldersCall'
<1>1. ASSUME NEW t \in Thread, NEW c \in Condition, NEW l \in Lock, pc'[t] = <<"Wait", c, l>>
      PROVE  heldThread'[l] = t
  <2>1. pc[t] = <<"Wait", c, l>>
    BY <1>1
  <2> QED
    BY <2>1, Zenon DEF HoldersCall
<1>2. ASSUME NEW t \in Thread, NEW c \in Condition, pc'[t] = <<"Broadcast", c>>
      PROVE  \E l \in Lock : heldThread'[l] = t
  <2>1. pc[t] = <<"Broadcast", c>>
    BY <1>2
  <2> QED
    BY <2>1, Zenon DEF HoldersCall
<1> QED
  BY <1>1, <1>2, Zenon DEF HoldersCall

\* The threads testing a semaphore that is left alone: the caller may join them,
\* and does not leave them unless it was one of them.
LEMMA TestersKept ==
  ASSUME SInv, Executing, NEW v, pc' = [pc EXCEPT ![currentThread] = v],
         NEW s \in Semaphore, pc[currentThread] # <<"P", s>>,
         semQueue'[s] = semQueue[s], value'[s] = value[s]
  PROVE  CoveredAt(s)'
<1>1. /\ currentThread \in Thread
      /\ \A t \in Thread \ {currentThread} : pc'[t] = pc[t]
  BY CallMoves, Zenon
<1>2. Testing(s) \subseteq Testing(s)'
  BY <1>1, Zenon DEF Testing
<1>3. value[s] \in Nat /\ CoveredAt(s)
  BY Zenon DEF SInv, ProgramInv, SynchTypeOK
<1> QED
  BY <1>2, <1>3, MoreThreads, Zenon DEF CoveredAt

\* A step in which the caller goes from one routine to another and nothing is
\* queued, released or taken.
LEMMA CallStep ==
  ASSUME SInv, ProgramInv', Executing, NEW v \in {<<>>} \cup Call,
         pc' = [pc EXCEPT ![currentThread] = v],
         UNCHANGED <<semQueue, condQueue, heldThread, value, holds>>,
         \A s \in Semaphore : pc[currentThread] # <<"P", s>>,
         \A c \in Condition, l \in Lock :
           v = <<"Wait", c, l>> => heldThread[l] = currentThread,
         \A c \in Condition :
           v = <<"Broadcast", c>> => \E l \in Lock : heldThread[l] = currentThread
  PROVE  SInv'
<1>1. /\ currentThread \in Thread
      /\ \A s \in Semaphore : currentThread \notin Members(semQueue[s])
      /\ \A c \in Condition : currentThread \notin Members(condQueue[c])
      /\ pc'[currentThread] = v
      /\ \A t \in Thread \ {currentThread} : pc'[t] = pc[t]
  BY CallMoves, Zenon
<1>2. /\ pc' \in [Thread -> {<<>>} \cup Call]
      /\ holds' \in [Thread -> SUBSET Lock]
  BY Zenon DEF SInv
<1>3. CallsQueued'
  BY <1>1 DEF SInv, CallsQueued
<1>4. LockExclusive'
  BY Zenon DEF SInv, LockExclusive
<1>5. HoldersCall'
  <2>1. ASSUME NEW t \in Thread, NEW c \in Condition, NEW l \in Lock, pc'[t] = <<"Wait", c, l>>
        PROVE  heldThread'[l] = t
    <3>1. CASE t = currentThread
      <4>1. v = <<"Wait", c, l>>
        BY <1>1, <2>1, <3>1, Zenon
      <4> QED
        BY <3>1, <4>1, Zenon
    <3>2. CASE t # currentThread
      <4>1. pc[t] = <<"Wait", c, l>>
        BY <1>1, <2>1, <3>2, Zenon
      <4> QED
        BY <4>1, Zenon DEF SInv, HoldersCall
    <3> QED
      BY <3>1, <3>2, Zenon
  <2>2. ASSUME NEW t \in Thread, NEW c \in Condition, pc'[t] = <<"Broadcast", c>>
        PROVE  \E l \in Lock : heldThread'[l] = t
    BY <1>1, <2>2, Zenon DEF SInv, HoldersCall
  <2> QED
    BY <2>1, <2>2, Zenon DEF HoldersCall
<1>6. \A s \in Semaphore : CoveredAt(s)'
  BY TestersKept, Zenon
<1> QED
  BY <1>2, <1>3, <1>4, <1>5, <1>6, Zenon DEF SInv

\* A step after which every thread is in the routine it was in, nothing having
\* been queued, released or taken.
LEMMA QuietStep ==
  ASSUME SInv, ProgramInv',
         UNCHANGED <<semQueue, condQueue, heldThread, value, holds, pc>>
  PROVE  SInv'
<1>1. ASSUME NEW s \in Semaphore PROVE CoveredAt(s)'
  BY Zenon DEF SInv, CoveredAt, Testing
<1> QED
  BY <1>1 DEF SInv, CallsQueued, LockExclusive, HoldersCall

--------------------------------------------------------------------------------
(***************************************************************************)
(* One lemma per action.                                                   *)
(***************************************************************************)

\* What has to be shown of a step.
Correct ==
  /\ SInv'
  /\ [KP!Next]_KP!vars
  /\ [Abstract!MonitorNext]_<<heldThread, condQueue, value>>

\* A step that leaves the objects of synch.cc alone.
LEMMA NoSynch ==
  ASSUME SInv', [KP!Next]_KP!vars, UNCHANGED <<heldThread, condQueue, value>>
  PROVE  Correct
BY Zenon DEF Correct

\* Typing of the semaphores, locks and conditions when nothing happens to them.
LEMMA SynchKept == ASSUME SInv, UNCHANGED synchVars PROVE SynchTypeOK'
BY Zenon DEF SInv, ProgramInv, SynchTypeOK, synchVars

\* A fork, an exit, a time slice, a step of the scheduler or a halt.
LEMMA KernelSteps == ASSUME SInv, KernelStep, UNCHANGED holds PROVE Correct
BY SharedStep, QuietStep, NoSynch, Zenon DEF SInv, synchVars

\* Semaphore::P.
LEMMA CallPSteps == ASSUME SInv, NEW s \in Semaphore, CallP(s) PROVE Correct
<1>1. /\ DisableInterrupts /\ Executing
      /\ UNCHANGED synchVars /\ UNCHANGED <<holds, finished>>
      /\ pc' = [pc EXCEPT ![currentThread] = <<"P", s>>]
      /\ pc[currentThread] = <<>>
  BY Zenon DEF CallP, DisableInterrupts, Goto, InCall
<1>2. ProgramInv' /\ [KP!Next]_KP!vars
  BY <1>1, SynchKept, RunningStep, Zenon DEF SInv, synchVars
<1>3. <<"P", s>> \in {<<>>} \cup Call
  BY Zenon DEF Call
<1>4. /\ \A r \in Semaphore : pc[currentThread] # <<"P", r>>
      /\ \A c \in Condition, l \in Lock : <<"P", s>> # <<"Wait", c, l>>
      /\ \A c \in Condition : <<"P", s>> # <<"Broadcast", c>>
  BY <1>1
<1>5. UNCHANGED <<semQueue, condQueue, heldThread, value, holds>>
  BY <1>1, Zenon DEF synchVars
<1>6. SInv'
  BY <1>1, <1>2, <1>3, <1>4, <1>5, CallStep, Zenon
<1> QED
  BY <1>2, <1>5, <1>6, NoSynch, Zenon

\* Semaphore::P, which takes a unit or joins the queue.
LEMMA PSteps == ASSUME SInv, NEW s \in Semaphore, P(s) PROVE Correct
<1>1. InCall(<<"P", s>>) /\ UNCHANGED <<holds, finished>>
  BY Zenon DEF P
<1>2. currentThread \in Thread /\ pc[currentThread] = <<"P", s>>
  BY <1>1, KernelFacts, Zenon DEF SInv, KernelTypeOK, InCall
<1>3. CASE PSleep(s) /\ UNCHANGED pc
  <2>1. /\ ProgramInv' /\ [KP!Next]_KP!vars
        /\ currentThread \notin Queued
        /\ Members(semQueue'[s]) = Members(semQueue[s]) \cup {currentThread}
        /\ \A r \in Semaphore \ {s} : semQueue'[r] = semQueue[r]
        /\ UNCHANGED <<value, heldThread, condQueue>>
        /\ value[s] = 0
    BY <1>1, <1>3, SleepInP, Zenon DEF SInv, PSleep
  <2>2. CallsQueued'
    BY <1>2, <1>3, <2>1, Zenon DEF SInv, CallsQueued
  <2>3. LockExclusive' /\ HoldersCall'
    BY <1>1, <1>3, <2>1 DEF SInv, LockExclusive, HoldersCall
  <2>4. CoveredAt(s)'
    BY <2>1, NoUnits, Zenon DEF CoveredAt
  <2>5. ASSUME NEW r \in Semaphore \ {s} PROVE CoveredAt(r)'
    <3>1. Testing(r)' = Testing(r) /\ semQueue'[r] = semQueue[r] /\ value'[r] = value[r]
      BY <1>3, <2>1, Zenon DEF Testing
    <3>2. CoveredAt(r)
      BY Zenon DEF SInv
    <3> QED
      BY <3>1, <3>2, Zenon DEF CoveredAt
  <2>6. SInv'
    BY <1>1, <1>3, <2>1, <2>2, <2>3, <2>4, <2>5, Zenon DEF SInv
  <2> QED
    BY <2>1, <2>6, NoSynch, Zenon
<1>4. CASE PTake(s) /\ Goto(<<>>)
  <2>1. /\ value[s] > 0
        /\ value' = [value EXCEPT ![s] = @ - 1]
        /\ EnableInterrupts /\ Executing
        /\ UNCHANGED <<semQueue, heldThread, condQueue>>
        /\ pc' = [pc EXCEPT ![currentThread] = <<>>]
    BY <1>4, Zenon DEF PTake, Goto, EnableInterrupts
  <2>2. /\ value \in [Semaphore -> Nat] /\ value' \in [Semaphore -> Nat]
        /\ value'[s] = value[s] - 1
        /\ \A r \in Semaphore \ {s} : value'[r] = value[r]
    BY <2>1 DEF SInv, ProgramInv, SynchTypeOK
  <2>3. SynchTypeOK'
    BY <2>1, <2>2, Zenon DEF SInv, ProgramInv, SynchTypeOK
  <2>4. ProgramInv' /\ [KP!Next]_KP!vars
    BY <1>1, <2>1, <2>3, RunningStep, Zenon DEF SInv
  <2>5. /\ \A r \in Semaphore : currentThread \notin Members(semQueue[r])
        /\ \A c \in Condition : currentThread \notin Members(condQueue[c])
        /\ pc'[currentThread] = <<>>
        /\ \A t \in Thread \ {currentThread} : pc'[t] = pc[t]
    BY <2>1, CallMoves, Zenon
  <2>6. /\ pc' \in [Thread -> {<<>>} \cup Call]
        /\ CallsQueued'
        /\ LockExclusive'
    <3>1. pc' \in [Thread -> {<<>>} \cup Call]
      BY <2>1, Zenon DEF SInv
    <3>2. CallsQueued'
      BY <2>1, <2>5, Zenon DEF SInv, CallsQueued
    <3>3. LockExclusive'
      BY <1>1, <2>1, Zenon DEF SInv, LockExclusive
    <3> QED
      BY <3>1, <3>2, <3>3, Zenon
  <2>7. HoldersCall'
    <3>1. HoldersCall /\ heldThread' = heldThread
      BY <2>1, Zenon DEF SInv
    <3>2. \A t \in Thread : pc'[t] # <<>> => pc'[t] = pc[t]
      BY <2>5, Zenon
    <3> QED
      BY <3>1, <3>2, HoldersReturn, Zenon
  <2>8. CoveredAt(s)'
    <3>1. Testing(s)' = Testing(s) \ {currentThread} /\ currentThread \in Testing(s)
      BY <1>2, <2>1, <2>5 DEF Testing
    <3>2. value[s] \in Nat \ {0} /\ CoveredAt(s)
      BY <2>1, <2>2 DEF SInv
    <3>3. semQueue[s] # <<>> => Covered(value[s] - 1, Testing(s) \ {currentThread})
      BY <3>2, UnitTaken, Zenon DEF CoveredAt
    <3>4. semQueue'[s] = semQueue[s] /\ value'[s] = value[s] - 1
      BY <2>1, <2>2, Zenon
    <3> QED
      BY <3>1, <3>3, <3>4, Zenon DEF CoveredAt
  <2>9. ASSUME NEW r \in Semaphore \ {s} PROVE CoveredAt(r)'
    <3>1. pc[currentThread] # <<"P", r>> /\ semQueue'[r] = semQueue[r] /\ value'[r] = value[r]
      BY <1>2, <2>1, <2>2
    <3> QED
      BY <2>1, <3>1, TestersKept, Zenon
  <2>10. SInv'
    BY <1>1, <2>4, <2>6, <2>7, <2>8, <2>9, Zenon DEF SInv
  <2>11. Abstract!P(s)
    BY <2>1, Zenon DEF Abstract!P
  <2> QED
    BY <2>4, <2>10, <2>11, Zenon DEF Correct, Abstract!MonitorNext
<1> QED
  BY <1>3, <1>4, Zenon DEF P

\* Semaphore::V.
LEMMA CallVSteps == ASSUME SInv, NEW s \in Semaphore, CallV(s) PROVE Correct
<1>1. V(s) /\ UNCHANGED <<pc, holds, finished>>
  BY Zenon DEF CallV
<1>2. /\ ProgramInv' /\ [KP!Next]_KP!vars
      /\ value' = [value EXCEPT ![s] = @ + 1]
      /\ IF semQueue[s] = <<>> THEN UNCHANGED semQueue
         ELSE /\ Head(semQueue[s]) \in Thread
              /\ Head(semQueue[s]) \in Members(semQueue[s])
              /\ Members(semQueue'[s]) = Members(semQueue[s]) \ {Head(semQueue[s])}
              /\ \A r \in Semaphore \ {s} : semQueue'[r] = semQueue[r]
      /\ UNCHANGED <<heldThread, condQueue>>
  BY <1>1, WakeInV, Zenon DEF SInv
<1>3. /\ value[s] \in Nat /\ value'[s] = value[s] + 1
      /\ \A r \in Semaphore \ {s} : value'[r] = value[r] /\ semQueue'[r] = semQueue[r]
  BY <1>2, Zenon DEF SInv, ProgramInv, SynchTypeOK
<1>4. \A r \in Semaphore : Members(semQueue'[r]) \subseteq Members(semQueue[r])
  BY <1>2, <1>3, Zenon
<1>5. CallsQueued' /\ LockExclusive' /\ HoldersCall'
  BY <1>1, <1>2, <1>4 DEF SInv, CallsQueued, LockExclusive, HoldersCall
<1>6. CoveredAt(s)'
  <2>1. CoveredAt(s)
    BY Zenon DEF SInv
  <2>2. CASE semQueue[s] = <<>>
    <3>1. semQueue'[s] = <<>> /\ Testing(s)' = Testing(s)
      BY <1>1, <1>2, <2>2, Zenon DEF Testing
    <3> QED
      BY <2>1, <3>1, Zenon DEF CoveredAt
  <2>3. CASE semQueue[s] # <<>>
    <3> DEFINE u == Head(semQueue[s])
    <3>1. /\ u \in Thread /\ u \in Members(semQueue[s])
          /\ Members(semQueue'[s]) = Members(semQueue[s]) \ {u}
          /\ pc[u] = <<"P", s>>
      BY <1>2, <2>3, Zenon DEF SInv, CallsQueued
    <3> HIDE DEF u
    <3>2. u \notin Testing(s) /\ Testing(s)' = Testing(s) \cup {u}
      BY <1>1, <3>1, Zenon DEF Testing
    <3> QED
      BY <1>3, <2>1, <2>3, <3>2, UnitAdded DEF CoveredAt
  <2> QED
    BY <2>2, <2>3, Zenon
<1>7. ASSUME NEW r \in Semaphore \ {s} PROVE CoveredAt(r)'
  <2>1. Testing(r)' = Testing(r) /\ semQueue'[r] = semQueue[r] /\ value'[r] = value[r]
    BY <1>1, <1>3, Zenon DEF Testing
  <2>2. CoveredAt(r)
    BY Zenon DEF SInv
  <2> QED
    BY <2>1, <2>2, Zenon DEF CoveredAt
<1>8. SInv'
  BY <1>1, <1>2, <1>5, <1>6, <1>7, Zenon DEF SInv
<1>9. Abstract!V(s)
  BY <1>2, Zenon DEF Abstract!V
<1> QED
  BY <1>2, <1>8, <1>9, Zenon DEF Correct, Abstract!MonitorNext

\* Lock::Acquire.
LEMMA CallAcquireSteps == ASSUME SInv, NEW l \in Lock, CallAcquire(l) PROVE Correct
<1>1. /\ UNCHANGED kernelVars /\ Executing
      /\ UNCHANGED synchVars /\ UNCHANGED <<holds, finished>>
      /\ pc' = [pc EXCEPT ![currentThread] = <<"Acquire", l>>]
      /\ pc[currentThread] = <<>>
  BY Zenon DEF CallAcquire, Enter, Goto, InCall
<1>2. ProgramInv' /\ [KP!Next]_KP!vars
  BY <1>1, SynchKept, RunningStep, Zenon DEF SInv, synchVars
<1>3. <<"Acquire", l>> \in {<<>>} \cup Call
  BY Zenon DEF Call
<1>4. /\ \A s \in Semaphore : pc[currentThread] # <<"P", s>>
      /\ \A c \in Condition, m \in Lock : <<"Acquire", l>> # <<"Wait", c, m>>
      /\ \A c \in Condition : <<"Acquire", l>> # <<"Broadcast", c>>
  BY <1>1
<1>5. UNCHANGED <<semQueue, condQueue, heldThread, value, holds>>
  BY <1>1, Zenon DEF synchVars
<1>6. SInv'
  BY <1>1, <1>2, <1>3, <1>4, <1>5, CallStep, Zenon
<1> QED
  BY <1>2, <1>5, <1>6, NoSynch, Zenon

\* Lock::Acquire, which takes the lock or yields and looks again.
LEMMA AcquireSteps == ASSUME SInv, NEW l \in Lock, Acquire(l) PROVE Correct
<1>1. InCall(<<"Acquire", l>>) /\ UNCHANGED finished
  BY Zenon DEF Acquire
<1>2. CASE AcquireYield(l) /\ UNCHANGED <<pc, holds>>
  <2>1. Yield /\ UNCHANGED synchVars
    BY <1>2, Zenon DEF AcquireYield
  <2>2. ProgramInv' /\ [KP!Next]_KP!vars
    BY <1>1, <2>1, SynchKept, RunningStep, Zenon DEF SInv, synchVars
  <2>3. SInv'
    BY <1>2, <2>1, <2>2, QuietStep, Zenon DEF synchVars
  <2> QED
    BY <2>1, <2>2, <2>3, NoSynch, Zenon DEF synchVars
<1>3. CASE /\ AcquireTake(l) /\ Goto(<<>>)
           /\ holds' = [holds EXCEPT ![currentThread] = @ \cup {l}]
  <2>1. /\ Executing
        /\ heldThread[l] = NoThread \/ heldThread[l] = currentThread
        /\ heldThread' = [heldThread EXCEPT ![l] = currentThread]
        /\ UNCHANGED kernelVars /\ UNCHANGED <<value, semQueue, condQueue>>
        /\ pc' = [pc EXCEPT ![currentThread] = <<>>]
        /\ pc[currentThread] = <<"Acquire", l>>
    BY <1>1, <1>3, Zenon DEF AcquireTake, isHeldByCurrentThread, Goto, InCall
  <2>2. /\ currentThread \in Thread
        /\ \A s \in Semaphore : currentThread \notin Members(semQueue[s])
        /\ \A c \in Condition : currentThread \notin Members(condQueue[c])
        /\ pc'[currentThread] = <<>>
        /\ \A t \in Thread \ {currentThread} : pc'[t] = pc[t]
    BY <2>1, CallMoves, ZenonT(60)
  <2>3. /\ heldThread \in [Lock -> Thread \cup {NoThread}]
        /\ heldThread' \in [Lock -> Thread \cup {NoThread}]
        /\ heldThread'[l] = currentThread
        /\ \A m \in Lock \ {l} : heldThread'[m] = heldThread[m]
    BY <2>1, <2>2, Zenon DEF SInv, ProgramInv, SynchTypeOK
  <2>4. SynchTypeOK'
    BY <2>1, <2>3, Zenon DEF SInv, ProgramInv, SynchTypeOK
  <2>5. ProgramInv' /\ [KP!Next]_KP!vars
    BY <1>1, <2>1, <2>4, RunningStep, Zenon DEF SInv
  <2>6. /\ holds' \in [Thread -> SUBSET Lock]
        /\ holds'[currentThread] = holds[currentThread] \cup {l}
        /\ \A t \in Thread \ {currentThread} : holds'[t] = holds[t]
    BY <1>3, <2>2, Zenon DEF SInv
  <2>7. pc' \in [Thread -> {<<>>} \cup Call]
    BY <2>1, ZenonT(60) DEF SInv
  <2>8. CallsQueued'
    BY <2>1, <2>2 DEF SInv, CallsQueued
  <2>9. LockExclusive'
    <3>1. \A t \in Thread \ {currentThread} : l \notin holds[t] /\ heldThread'[l] # t
      BY <2>1, <2>3, ThreadAssumption DEF SInv, LockExclusive
    <3> QED
      BY <2>2, <2>3, <2>6, <3>1 DEF SInv, LockExclusive
  <2>10. HoldersCall'
    <3>1. ASSUME NEW t \in Thread, NEW c \in Condition, NEW m \in Lock,
                 pc'[t] = <<"Wait", c, m>>
          PROVE  heldThread'[m] = t
      <4>1. t # currentThread
        BY <2>2, <3>1
      <4>2. pc[t] = <<"Wait", c, m>>
        BY <2>2, <3>1, <4>1, Zenon
      <4>3. heldThread[m] = t
        BY <4>2, Zenon DEF SInv, HoldersCall
      <4> QED
        BY <2>1, <2>3, <4>1, <4>3, ThreadAssumption, Zenon
    <3>2. ASSUME NEW t \in Thread, NEW c \in Condition, pc'[t] = <<"Broadcast", c>>
          PROVE  \E m \in Lock : heldThread'[m] = t
      <4>1. t # currentThread
        BY <2>2, <3>2
      <4>2. pc[t] = <<"Broadcast", c>>
        BY <2>2, <3>2, <4>1, Zenon
      <4>3. \E m \in Lock : heldThread[m] = t
        BY <4>2, Zenon DEF SInv, HoldersCall
      <4> QED
        BY <2>1, <2>3, <4>1, <4>3, ThreadAssumption, Zenon
    <3> QED
      BY <3>1, <3>2, Zenon DEF HoldersCall
  <2>11. ASSUME NEW s \in Semaphore PROVE CoveredAt(s)'
    <3>1. pc[currentThread] # <<"P", s>> /\ semQueue'[s] = semQueue[s] /\ value'[s] = value[s]
      BY <2>1
    <3> QED
      BY <2>1, <3>1, TestersKept, Zenon
  <2>12. SInv'
    BY <2>5, <2>6, <2>7, <2>8, <2>9, <2>10, <2>11, Zenon DEF SInv
  <2>13. Abstract!Acquire(currentThread, l)
    BY <2>1, Zenon DEF Abstract!Acquire
  <2> QED
    BY <2>2, <2>5, <2>12, <2>13, Zenon DEF Correct, Abstract!MonitorNext
<1> QED
  BY <1>2, <1>3, Zenon DEF Acquire

\* Lock::Release: the caller's locks and the locks that record it stay the same.
LEMMA ReleasedLock ==
  ASSUME SInv, NEW l \in Lock, currentThread \in Thread, heldThread' = Released(l),
         holds' = [holds EXCEPT ![currentThread] = @ \ {l}]
  PROVE  /\ heldThread' \in [Lock -> Thread \cup {NoThread}]
         /\ holds' \in [Thread -> SUBSET Lock]
         /\ \A m \in Lock \ {l} : heldThread'[m] = heldThread[m]
         /\ \A m \in Lock : heldThread[m] # currentThread => heldThread'[m] = heldThread[m]
         /\ LockExclusive'
<1>1. heldThread \in [Lock -> Thread \cup {NoThread}]
  BY Zenon DEF SInv, ProgramInv, SynchTypeOK
<1>2. /\ heldThread' \in [Lock -> Thread \cup {NoThread}]
      /\ heldThread'[l] = IF heldThread[l] = currentThread THEN NoThread ELSE heldThread[l]
      /\ \A m \in Lock \ {l} : heldThread'[m] = heldThread[m]
  BY <1>1, Zenon DEF Released, isHeldByCurrentThread
<1>3. /\ holds' \in [Thread -> SUBSET Lock]
      /\ holds'[currentThread] = holds[currentThread] \ {l}
      /\ \A t \in Thread \ {currentThread} : holds'[t] = holds[t]
  BY Zenon DEF SInv
<1>4. LockExclusive'
  BY <1>1, <1>2, <1>3, ThreadAssumption DEF SInv, LockExclusive
<1> QED
  BY <1>2, <1>3, <1>4, Zenon

\* Lock::Release by the holder.
LEMMA CallReleaseSteps == ASSUME SInv, NEW l \in Lock, CallRelease(l) PROVE Correct
<1>1. /\ Executing /\ pc[currentThread] = <<>>
      /\ heldThread' = Released(l)
      /\ UNCHANGED kernelVars /\ UNCHANGED <<value, semQueue, condQueue>>
      /\ UNCHANGED <<pc, finished>>
      /\ holds' = [holds EXCEPT ![currentThread] = @ \ {l}]
  BY Zenon DEF CallRelease, Release, InCall
<1>2. currentThread \in Thread
  BY KernelFacts, Zenon DEF SInv, KernelTypeOK
<1>3. /\ heldThread' \in [Lock -> Thread \cup {NoThread}]
      /\ holds' \in [Thread -> SUBSET Lock]
      /\ \A m \in Lock : heldThread[m] # currentThread => heldThread'[m] = heldThread[m]
      /\ LockExclusive'
  BY <1>1, <1>2, ReleasedLock, ZenonT(60)
<1>4. SynchTypeOK'
  BY <1>1, <1>3, Zenon DEF SInv, ProgramInv, SynchTypeOK
<1>5. ProgramInv' /\ [KP!Next]_KP!vars
  BY <1>1, <1>4, RunningStep, Zenon DEF SInv
<1>6. CallsQueued' /\ pc' \in [Thread -> {<<>>} \cup Call]
  BY <1>1, Zenon DEF SInv, CallsQueued
<1>10. pc[currentThread] = <<>> /\ pc' = pc
  BY <1>1, Zenon
<1>7. HoldersCall'
  <2>1. ASSUME NEW t \in Thread, NEW c \in Condition, NEW m \in Lock, pc'[t] = <<"Wait", c, m>>
        PROVE  heldThread'[m] = t
    <3>1. pc[t] = <<"Wait", c, m>> /\ t # currentThread
      BY <1>10, <2>1
    <3>2. heldThread[m] = t
      BY <3>1, Zenon DEF SInv, HoldersCall
    <3> QED
      BY <1>3, <3>1, <3>2, Zenon
  <2>2. ASSUME NEW t \in Thread, NEW c \in Condition, pc'[t] = <<"Broadcast", c>>
        PROVE  \E m \in Lock : heldThread'[m] = t
    <3>1. pc[t] = <<"Broadcast", c>> /\ t # currentThread
      <4>1. pc[t] = <<"Broadcast", c>>
        BY <1>10, <2>2, Zenon
      <4>2. <<"Broadcast", c>> # <<>>
        BY Zenon
      <4> QED
        BY <1>10, <4>1, <4>2, ZenonT(60)
    <3>2. \E m \in Lock : heldThread[m] = t
      BY <3>1, Zenon DEF SInv, HoldersCall
    <3> QED
      BY <1>3, <3>1, <3>2, Zenon
  <2> QED
    BY <2>1, <2>2, Zenon DEF HoldersCall
<1>8. ASSUME NEW s \in Semaphore PROVE CoveredAt(s)'
  BY <1>1, Zenon DEF SInv, CoveredAt, Testing
<1>9. SInv'
  BY <1>3, <1>5, <1>6, <1>7, <1>8, Zenon DEF SInv
<1>11. Abstract!Release(currentThread, l)
  BY <1>1, Zenon DEF Abstract!Release, Abstract!FreedBy, Released, isHeldByCurrentThread
<1> QED
  BY <1>2, <1>5, <1>9, <1>11, Zenon DEF Correct, Abstract!MonitorNext

\* Condition::Wait.
LEMMA CallWaitSteps ==
  ASSUME SInv, NEW c \in Condition, NEW l \in Lock, CallWait(c, l) PROVE Correct
<1>1. /\ DisableInterrupts /\ Executing
      /\ UNCHANGED synchVars /\ UNCHANGED <<holds, finished>>
      /\ pc' = [pc EXCEPT ![currentThread] = <<"Wait", c, l>>]
      /\ pc[currentThread] = <<>>
      /\ heldThread[l] = currentThread
  BY Zenon DEF CallWait, DisableInterrupts, Goto, InCall, isHeldByCurrentThread
<1>2. ProgramInv' /\ [KP!Next]_KP!vars
  BY <1>1, SynchKept, RunningStep, Zenon DEF SInv, synchVars
<1>3. <<"Wait", c, l>> \in {<<>>} \cup Call
  BY Zenon DEF Call
<1>4. /\ \A s \in Semaphore : pc[currentThread] # <<"P", s>>
      /\ \A d \in Condition : <<"Wait", c, l>> # <<"Broadcast", d>>
  BY <1>1
<1>5. ASSUME NEW d \in Condition, NEW m \in Lock, <<"Wait", c, l>> = <<"Wait", d, m>>
      PROVE  heldThread[m] = currentThread
  <2>1. l = m
    BY <1>5, Zenon
  <2> QED
    BY <1>1, <2>1, Zenon
<1>6. UNCHANGED <<semQueue, condQueue, heldThread, value, holds>>
  BY <1>1, Zenon DEF synchVars
<1>7. SInv'
  BY <1>1, <1>2, <1>3, <1>4, <1>5, <1>6, CallStep, ZenonT(60)
<1> QED
  BY <1>2, <1>6, <1>7, NoSynch, Zenon

\* Condition::Wait up to its Sleep: the lock is given up and the thread queued.
LEMMA WaitSteps ==
  ASSUME SInv, NEW c \in Condition, NEW l \in Lock, Wait(c, l) PROVE Correct
<1>1. /\ WaitSleep(c, l) /\ Executing /\ UNCHANGED finished
      /\ pc[currentThread] = <<"Wait", c, l>>
      /\ pc' = [pc EXCEPT ![currentThread] = <<"Woken", c, l>>]
      /\ heldThread' = Released(l)
      /\ holds' = [holds EXCEPT ![currentThread] = @ \ {l}]
  BY Zenon DEF Wait, InCall, Goto, WaitSleep, Sleep
<1>2. /\ ProgramInv' /\ [KP!Next]_KP!vars
      /\ currentThread \in Thread /\ currentThread \notin Queued
      /\ Members(condQueue'[c]) = Members(condQueue[c]) \cup {currentThread}
      /\ \A d \in Condition \ {c} : condQueue'[d] = condQueue[d]
      /\ UNCHANGED <<value, semQueue>>
  BY <1>1, SleepInWait, Zenon DEF SInv
<1>3. /\ \A s \in Semaphore : currentThread \notin Members(semQueue[s])
      /\ pc'[currentThread] = <<"Woken", c, l>>
      /\ \A t \in Thread \ {currentThread} : pc'[t] = pc[t]
  BY <1>1, CallMoves, ZenonT(60)
<1>4. heldThread[l] = currentThread
  <2>1. HoldersCall /\ currentThread \in Thread
    BY <1>2, Zenon DEF SInv
  <2> QED
    BY <1>1, <2>1, Zenon DEF HoldersCall
<1>5. /\ holds' \in [Thread -> SUBSET Lock]
      /\ \A m \in Lock : heldThread[m] # currentThread => heldThread'[m] = heldThread[m]
      /\ LockExclusive'
  BY <1>1, <1>2, ReleasedLock, Zenon
<1>6. pc' \in [Thread -> {<<>>} \cup Call]
  <2>1. <<"Woken", c, l>> \in Call
    BY Zenon DEF Call
  <2> QED
    BY <1>1, <2>1, ZenonT(60) DEF SInv
<1>7. CallsQueued'
  <2>1. ASSUME NEW t \in Thread, NEW s \in Semaphore, t \in Members(semQueue'[s])
        PROVE  pc'[t] = <<"P", s>>
    BY <1>2, <1>3, <2>1, Zenon DEF SInv, CallsQueued
  <2>2. ASSUME NEW t \in Thread, NEW d \in Condition, t \in Members(condQueue'[d])
        PROVE  \E m \in Lock : pc'[t] = <<"Woken", d, m>>
    <3>1. CASE t = currentThread
      <4>1. currentThread \notin Members(condQueue[d])
        BY <1>1, CallMoves, ZenonT(60)
      <4>2. d = c
        BY <1>2, <2>2, <3>1, <4>1, Zenon
      <4> QED
        BY <1>3, <3>1, <4>2, Zenon
    <3>2. CASE t # currentThread
      <4>1. t \in Members(condQueue[d]) /\ pc'[t] = pc[t]
        BY <1>2, <1>3, <2>2, <3>2, Zenon
      <4> QED
        BY <4>1, Zenon DEF SInv, CallsQueued
    <3> QED
      BY <3>1, <3>2, Zenon
  <2> QED
    BY <2>1, <2>2, Zenon DEF CallsQueued
<1>8. HoldersCall'
  <2>1. ASSUME NEW t \in Thread, NEW d \in Condition, NEW m \in Lock, pc'[t] = <<"Wait", d, m>>
        PROVE  heldThread'[m] = t
    <3>1. <<"Woken", c, l>> # <<"Wait", d, m>>
      BY Zenon
    <3>2. t # currentThread
      BY <1>3, <2>1, <3>1, Zenon
    <3>3. pc[t] = <<"Wait", d, m>>
      BY <1>3, <2>1, <3>2, Zenon
    <3>4. heldThread[m] = t
      BY <3>3 DEF SInv, HoldersCall
    <3> QED
      BY <1>5, <3>2, <3>4, Zenon
  <2>2. ASSUME NEW t \in Thread, NEW d \in Condition, pc'[t] = <<"Broadcast", d>>
        PROVE  \E m \in Lock : heldThread'[m] = t
    <3>1. <<"Woken", c, l>> # <<"Broadcast", d>>
      BY Zenon
    <3>2. t # currentThread
      BY <1>3, <2>2, <3>1, Zenon
    <3>3. pc[t] = <<"Broadcast", d>>
      BY <1>3, <2>2, <3>2, Zenon
    <3>4. \E m \in Lock : heldThread[m] = t
      BY <3>3, Zenon DEF SInv, HoldersCall
    <3> QED
      BY <1>5, <3>2, <3>4, Zenon
  <2> QED
    BY <2>1, <2>2, Zenon DEF HoldersCall
<1>9. ASSUME NEW s \in Semaphore PROVE CoveredAt(s)'
  <2>1. <<"Wait", c, l>> # <<"P", s>>
    BY Zenon
  <2>2. pc[currentThread] # <<"P", s>>
    BY <1>1, <2>1, Zenon
  <2>3. semQueue'[s] = semQueue[s] /\ value'[s] = value[s]
    BY <1>2, Zenon
  <2> QED
    BY <1>1, <2>2, <2>3, TestersKept, ZenonT(60)
<1>10. SInv'
  BY <1>2, <1>5, <1>6, <1>7, <1>8, <1>9, Zenon DEF SInv
<1>11. Abstract!Wait(currentThread, c, l)
  BY <1>1, <1>4, Zenon DEF Abstract!Wait, Abstract!FreedBy, WaitSleep, Released, isHeldByCurrentThread
<1> QED
  BY <1>2, <1>10, <1>11, Zenon DEF Correct, Abstract!MonitorNext

\* A waiter that was woken goes on to acquire the lock again.
LEMMA WaitReturnSteps ==
  ASSUME SInv, NEW c \in Condition, NEW l \in Lock, WaitReturn(c, l) PROVE Correct
<1>1. /\ EnableInterrupts /\ Executing
      /\ UNCHANGED synchVars /\ UNCHANGED <<holds, finished>>
      /\ pc' = [pc EXCEPT ![currentThread] = <<"Acquire", l>>]
      /\ pc[currentThread] = <<"Woken", c, l>>
  BY Zenon DEF WaitReturn, EnableInterrupts, Goto, InCall
<1>2. ProgramInv' /\ [KP!Next]_KP!vars
  BY <1>1, SynchKept, RunningStep, Zenon DEF SInv, synchVars
<1>3. <<"Acquire", l>> \in {<<>>} \cup Call
  BY Zenon DEF Call
<1>4. /\ \A d \in Condition, m \in Lock : <<"Acquire", l>> # <<"Wait", d, m>>
      /\ \A d \in Condition : <<"Acquire", l>> # <<"Broadcast", d>>
  BY Zenon
<1>5. \A s \in Semaphore : pc[currentThread] # <<"P", s>>
  <2>1. \A s \in Semaphore : <<"Woken", c, l>> # <<"P", s>>
    BY Zenon
  <2> QED
    BY <1>1, <2>1, Zenon
<1>6. UNCHANGED <<semQueue, condQueue, heldThread, value, holds>>
  BY <1>1, Zenon DEF synchVars
<1>7. SInv'
  BY <1>1, <1>2, <1>3, <1>4, <1>5, <1>6, CallStep, ZenonT(60)
<1> QED
  BY <1>2, <1>6, <1>7, NoSynch, Zenon

\* The wakeup that Condition::Signal and Broadcast share: the caller holds a lock.
LEMMA WakeSteps ==
  ASSUME SInv, NEW c \in Condition, NEW l \in Lock, WakeWaiter(c),
         heldThread[l] = currentThread, UNCHANGED <<pc, holds, finished>>
  PROVE  Correct
<1>1. /\ ProgramInv' /\ [KP!Next]_KP!vars
      /\ Members(condQueue'[c]) = Members(condQueue[c]) \ {Head(condQueue[c])}
      /\ \A d \in Condition \ {c} : condQueue'[d] = condQueue[d]
      /\ UNCHANGED <<currentThread, value, semQueue, heldThread>>
  BY WakeInSignal, Zenon DEF SInv
<1>2. \A d \in Condition : Members(condQueue'[d]) \subseteq Members(condQueue[d])
  BY <1>1, Zenon
<1>3. CallsQueued'
  BY <1>1, <1>2, Zenon DEF SInv, CallsQueued
<1>4. LockExclusive' /\ HoldersCall'
  BY <1>1 DEF SInv, LockExclusive, HoldersCall
<1>5. ASSUME NEW s \in Semaphore PROVE CoveredAt(s)'
  BY <1>1, ZenonT(60) DEF SInv, CoveredAt, Testing
<1>6. SInv'
  BY <1>1, <1>3, <1>4, <1>5, ZenonT(60) DEF SInv
<1>7. Abstract!Wake(currentThread, c, l)
  BY Zenon DEF Abstract!Wake, WakeWaiter
<1>8. currentThread \in Thread
  BY KernelFacts, Zenon DEF SInv, KernelTypeOK
<1> QED
  BY <1>1, <1>6, <1>7, <1>8, Zenon DEF Correct, Abstract!MonitorNext

\* Condition::Signal.
LEMMA CallSignalSteps ==
  ASSUME SInv, NEW c \in Condition, NEW l \in Lock, CallSignal(c, l) PROVE Correct
<1>1. UNCHANGED <<pc, holds, finished>>
  BY Zenon DEF CallSignal
<1>2. CASE WakeWaiter(c) /\ heldThread[l] = currentThread
  BY <1>1, <1>2, WakeSteps, Zenon
<1>3. CASE UNCHANGED kernelVars /\ UNCHANGED synchVars
  <2>1. ProgramInv' /\ [KP!Next]_KP!vars
    BY <1>1, <1>3, SynchKept, RunningStep, Zenon DEF SInv, synchVars
  <2>2. SInv'
    BY <1>1, <1>3, <2>1, QuietStep, Zenon DEF synchVars
  <2> QED
    BY <1>3, <2>1, <2>2, NoSynch, Zenon DEF synchVars
<1> QED
  BY <1>2, <1>3, Zenon DEF CallSignal, Signal, isHeldByCurrentThread

\* Condition::Broadcast.
LEMMA CallBroadcastSteps ==
  ASSUME SInv, NEW c \in Condition, NEW l \in Lock, CallBroadcast(c, l) PROVE Correct
<1>1. /\ DisableInterrupts /\ Executing
      /\ UNCHANGED synchVars /\ UNCHANGED <<holds, finished>>
      /\ pc' = [pc EXCEPT ![currentThread] = <<"Broadcast", c>>]
      /\ pc[currentThread] = <<>>
      /\ heldThread[l] = currentThread
  BY Zenon DEF CallBroadcast, DisableInterrupts, Goto, InCall, isHeldByCurrentThread
<1>2. ProgramInv' /\ [KP!Next]_KP!vars
  BY <1>1, SynchKept, RunningStep, Zenon DEF SInv, synchVars
<1>3. <<"Broadcast", c>> \in {<<>>} \cup Call
  BY Zenon DEF Call
<1>4. /\ \A s \in Semaphore : pc[currentThread] # <<"P", s>>
      /\ \A d \in Condition, m \in Lock : <<"Broadcast", c>> # <<"Wait", d, m>>
  BY <1>1
<1>5. UNCHANGED <<semQueue, condQueue, heldThread, value, holds>>
  BY <1>1, Zenon DEF synchVars
<1>6. \E m \in Lock : heldThread[m] = currentThread
  BY <1>1, Zenon
<1>7. SInv'
  BY <1>1, <1>2, <1>3, <1>4, <1>5, <1>6, CallStep, Zenon
<1> QED
  BY <1>2, <1>5, <1>7, NoSynch, Zenon

\* Condition::Broadcast, one Signal at a time.
LEMMA BroadcastSteps == ASSUME SInv, NEW c \in Condition, Broadcast(c) PROVE Correct
<1>1. pc[currentThread] = <<"Broadcast", c>> /\ UNCHANGED <<holds, finished>>
  BY Zenon DEF Broadcast, InCall
<1>2. currentThread \in Thread
  BY KernelFacts, Zenon DEF SInv, KernelTypeOK
<1>3. CASE WakeWaiter(c) /\ UNCHANGED pc
  <2>1. PICK l \in Lock : heldThread[l] = currentThread
    BY <1>1, <1>2, Zenon DEF SInv, HoldersCall
  <2> QED
    BY <1>1, <1>3, <2>1, WakeSteps, Zenon
<1>4. CASE EnableInterrupts /\ Goto(<<>>) /\ UNCHANGED synchVars
  <2>1. Executing /\ pc' = [pc EXCEPT ![currentThread] = <<>>]
    BY <1>4, Zenon DEF EnableInterrupts, Goto
  <2>2. ProgramInv' /\ [KP!Next]_KP!vars
    BY <1>1, <1>4, SynchKept, RunningStep, Zenon DEF SInv, synchVars
  <2>3. \A s \in Semaphore : pc[currentThread] # <<"P", s>>
    BY <1>1
  <2>4. /\ \A d \in Condition, m \in Lock : <<>> # <<"Wait", d, m>>
        /\ \A d \in Condition : <<>> # <<"Broadcast", d>>
    BY Zenon
  <2>5. UNCHANGED <<semQueue, condQueue, heldThread, value, holds>>
    BY <1>1, <1>4, Zenon DEF synchVars
  <2>6. SInv'
    BY <2>1, <2>2, <2>3, <2>4, <2>5, CallStep, ZenonT(60)
  <2> QED
    BY <2>2, <2>5, <2>6, NoSynch, Zenon
<1> QED
  BY <1>3, <1>4, Zenon DEF Broadcast

--------------------------------------------------------------------------------

\* Any step of a program over synch.cc.
LEMMA StepCorrect == ASSUME SInv, [Next]_vars PROVE Correct
<1>1. CASE Next
  BY <1>1, KernelSteps, CallPSteps, PSteps, CallVSteps, CallAcquireSteps, AcquireSteps,
     CallReleaseSteps, CallWaitSteps, WaitSteps, WaitReturnSteps, CallSignalSteps,
     CallBroadcastSteps, BroadcastSteps, Zenon DEF Next
<1>2. CASE UNCHANGED vars
  <2>1. UNCHANGED kernelVars /\ UNCHANGED synchVars /\ UNCHANGED <<pc, holds, finished>>
    BY <1>2, Zenon DEF vars, programVars, kernelVars, synchVars
  <2>2. ProgramInv' /\ [KP!Next]_KP!vars
    BY <2>1, SynchKept, RunningStep, Zenon DEF SInv, synchVars
  <2>3. SInv'
    BY <2>1, <2>2, QuietStep, Zenon DEF synchVars
  <2> QED
    BY <2>1, <2>2, <2>3, NoSynch, Zenon DEF synchVars
<1> QED
  BY <1>1, <1>2, Zenon

\* The program starts with empty queues, free locks and no thread in a routine.
LEMMA StartCorrect ==
  ASSUME Init
  PROVE  /\ SInv /\ KP!Init
         /\ \E initialValue \in [Semaphore -> InitialValues] :
              Abstract!MonitorInit(initialValue)
<1>1. PICK v \in [Semaphore -> InitialValues] : ProgramInit(v)
  BY Zenon DEF Init
<1>2. v \in [Semaphore -> Nat]
  <2>1. InitialValues \subseteq Nat
    BY SynchAssumption
  <2> QED
    BY <2>1, Zenon
<1>3. ProgramInv /\ KP!Init
  BY <1>1, <1>2, ProgramStarts, Zenon
<1>4. /\ semQueue = [s \in Semaphore |-> <<>>] /\ condQueue = [c \in Condition |-> <<>>]
      /\ heldThread = [l \in Lock |-> NoThread] /\ value = v
      /\ pc = [t \in Thread |-> <<>>] /\ holds = [t \in Thread |-> {}]
  BY <1>1, Zenon DEF Init, ProgramInit, SynchInit
<1>5. Abstract!MonitorInit(v)
  BY <1>4, Zenon DEF Abstract!MonitorInit
<1>6. /\ pc \in [Thread -> {<<>>} \cup Call] /\ holds \in [Thread -> SUBSET Lock]
      /\ LockExclusive
  BY <1>4, ThreadAssumption, Zenon DEF LockExclusive
<1>7. CallsQueued
  <2>1. /\ \A s \in Semaphore : Members(semQueue[s]) = {}
        /\ \A c \in Condition : Members(condQueue[c]) = {}
    BY <1>4 DEF Members
  <2> QED
    BY <2>1, Zenon DEF CallsQueued
<1>8. \A t \in Thread : pc[t] = <<>>
  BY <1>4, Zenon
<1>9. HoldersCall
  <2>1. \A c \in Condition, l \in Lock : <<>> # <<"Wait", c, l>>
    BY Zenon
  <2>2. \A c \in Condition : <<>> # <<"Broadcast", c>>
    BY Zenon
  <2> QED
    BY <1>8, <2>1, <2>2, Zenon DEF HoldersCall
<1>10. ASSUME NEW s \in Semaphore PROVE CoveredAt(s)
  BY <1>4, Zenon DEF CoveredAt
<1> QED
  BY <1>1, <1>3, <1>5, <1>6, <1>7, <1>9, <1>10, Zenon DEF SInv

\* The inductive invariant says at least what the run checks.
LEMMA SInvStrong == ASSUME SInv PROVE StateMatchesCallers
<1>1. /\ KernelTypeOK
      /\ \A t \in Queued : status[t] = "BLOCKED"
      /\ \A t \in Thread \ finished : status[t] = "BLOCKED" => t \in Queued
      /\ finished \subseteq Thread
  BY KernelFacts, Zenon DEF SInv
<1>2. TypeOK
  BY <1>1, Zenon DEF SInv, ProgramInv, TypeOK, ProgramTypeOK
<1>3. WakeupsCoverValue
  BY Zenon DEF SInv, CoveredAt, WakeupsCoverValue
<1>4. QueuesMatchCalls
  <2>1. \A t \in Thread, s \in Semaphore : t \in Members(semQueue[s]) => t \in Queued
    BY InQueued, Zenon
  <2>2. \A t \in Thread, c \in Condition : t \in Members(condQueue[c]) => t \in Queued
    BY InQueued, Zenon
  <2> QED
    BY <1>1, <2>1, <2>2, Zenon DEF SInv, CallsQueued, QueuesMatchCalls
<1> QED
  BY <1>2, <1>3, <1>4, Zenon DEF SInv, StateMatchesCallers

\* The invariant holds in every reachable state of every program.
THEOREM Invariance == Spec => []SInv
<1>1. Init => SInv
  BY StartCorrect, Zenon
<1>2. SInv /\ [Next]_vars => SInv'
  BY StepCorrect, Zenon DEF Correct
<1> QED
  BY <1>1, <1>2, PTL DEF Spec

\* Semaphore::P and V, Lock::Acquire and Release, Condition::Wait, Signal and
\* Broadcast, called by any number of threads in any order and interrupted at any
\* tick: no unit of a semaphore is slept past, a lock has one holder, the one it
\* records, and a queue holds exactly the threads that sleep on it.
THEOREM SynchCorrect == Spec => []StateMatchesCallers
<1>1. SInv => StateMatchesCallers
  BY SInvStrong, Zenon
<1> QED
  BY <1>1, Invariance, PTL

\* The specification that SynchSystem names and the one the kernel's proofs are about
\* are the same.
LEMMA SameKernel ==
  /\ Kernel!Init <=> KP!Init
  /\ [Kernel!Next]_Kernel!vars <=> [KP!Next]_KP!vars
BY Zenon DEF Kernel!Init, Kernel!KernelInit, KP!Init, KP!KernelInit,
  Kernel!Next, Kernel!vars, Kernel!kernelVars, Kernel!Executing, Kernel!Sleeping,
  Kernel!CanInterrupt, Kernel!Create, Kernel!NewThread, Kernel!StartThread,
  Kernel!Fork, Kernel!ReadyToRun, Kernel!Wake, Kernel!GiveUpCPU, Kernel!Yield,
  Kernel!Run, Kernel!IntOff, Kernel!IntOn, Kernel!DisableInterrupts,
  Kernel!EnableInterrupts, Kernel!SleepOnQueue, Kernel!Sleep, Kernel!Exit,
  Kernel!Finish, Kernel!SwitchFromSleeper, Kernel!Dispatch, Kernel!StartIdling,
  Kernel!Idle, Kernel!StopIdling, Kernel!IdleReturn, Kernel!HaltMachine,
  Kernel!Halt, Kernel!Halted,
  KP!Next, KP!vars, KP!kernelVars, KP!Executing, KP!Sleeping, KP!CanInterrupt,
  KP!Create, KP!NewThread, KP!StartThread, KP!Fork, KP!ReadyToRun, KP!Wake,
  KP!GiveUpCPU, KP!Yield, KP!Run, KP!IntOff, KP!IntOn, KP!DisableInterrupts,
  KP!EnableInterrupts, KP!SleepOnQueue, KP!Sleep, KP!Exit, KP!Finish,
  KP!SwitchFromSleeper, KP!Dispatch, KP!StartIdling, KP!Idle, KP!StopIdling,
  KP!IdleReturn, KP!HaltMachine, KP!Halt, KP!Halted

\* Every program over synch.cc uses the thread kernel as ThreadSystem describes:
\* its queues only ever lose threads to ReadyToRun and gain the one that sleeps.
THEOREM KernelRefinement == Spec => ImplementsKernel
<1>1. Init => Kernel!Init
  BY StartCorrect, SameKernel, Zenon
<1>2. SInv /\ [Next]_vars => [Kernel!Next]_Kernel!vars
  BY StepCorrect, SameKernel, Zenon DEF Correct
<1> QED
  BY <1>1, <1>2, Invariance, PTL DEF Spec, ImplementsKernel, Kernel!Spec

\* The routines of synch.cc implement the atomic monitors and semaphores that the
\* models of the code above them are written over.
THEOREM MonitorRefinement == Spec => ImplementsMonitors
<1>1. Init => \E initialValue \in [Semaphore -> InitialValues] :
                Abstract!MonitorInit(initialValue)
  BY StartCorrect, Zenon
<1>2. SInv /\ [Next]_vars => [Abstract!MonitorNext]_<<heldThread, condQueue, value>>
  BY StepCorrect, Zenon DEF Correct
<1> QED
  <2>1. Spec => [][Abstract!MonitorNext]_<<heldThread, condQueue, value>>
    BY <1>2, Invariance, PTL DEF Spec
  <2> QED
    BY <1>1, <2>1, Zenon DEF Spec, ImplementsMonitors

================================================================================
