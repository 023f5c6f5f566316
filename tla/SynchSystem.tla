------------------------------ MODULE SynchSystem ------------------------------
(***************************************************************************)
(* Threads that call the routines of threads/synch.cc in any order, the    *)
(* most general program over them (threads/threadtest.cc is one), and      *)
(* interrupt handlers that call V, as the device drivers' do.              *)
(***************************************************************************)
EXTENDS Synch

CONSTANTS
  InitialValues,  \* what a semaphore may be initialised to
  MaxValue        \* bound on a semaphore's value: V is not called at the bound

ASSUME SynchAssumption == InitialValues \subseteq 0..MaxValue /\ MaxValue \in Nat

VARIABLE holds  \* the locks a thread believes it holds

vars == <<programVars, holds>>

Call ==
  ({"P"} \X Semaphore) \cup ({"Acquire"} \X Lock)
    \cup ({"Wait", "Woken"} \X Condition \X Lock)
    \cup ({"Broadcast"} \X Condition)

\* Kernel, queues, lock owners and the calls in progress are well typed.
TypeOK ==
  /\ ProgramTypeOK(Call)
  /\ holds \in [Thread -> SUBSET Lock]

Init ==
  /\ \E initialValue \in [Semaphore -> InitialValues] : ProgramInit(initialValue)
  /\ holds = [t \in Thread |-> {}]

--------------------------------------------------------------------------------

CallP(s) ==
  /\ InCall(<<>>)
  /\ DisableInterrupts
  /\ Goto(<<"P", s>>)
  /\ UNCHANGED <<synchVars, holds, finished>>

P(s) ==
  /\ InCall(<<"P", s>>)
  /\ \/ PSleep(s) /\ UNCHANGED pc
     \/ PTake(s) /\ Goto(<<>>)
  /\ UNCHANGED <<holds, finished>>

\* By the current thread, or at a tick by the handler of a device interrupt.
CallV(s) ==
  /\ value[s] < MaxValue
  /\ V(s)
  /\ UNCHANGED <<pc, holds, finished>>

CallAcquire(l) == Enter(<<"Acquire", l>>) /\ UNCHANGED holds

Acquire(l) ==
  /\ InCall(<<"Acquire", l>>)
  /\ \/ AcquireYield(l) /\ UNCHANGED <<pc, holds>>
     \/ /\ AcquireTake(l)
        /\ Goto(<<>>)
        /\ holds' = [holds EXCEPT ![currentThread] = @ \cup {l}]
  /\ UNCHANGED finished

CallRelease(l) ==
  /\ InCall(<<>>)
  /\ Release(l)
  /\ holds' = [holds EXCEPT ![currentThread] = @ \ {l}]
  /\ UNCHANGED <<pc, finished>>

\* Wait: refused at once unless the lock is held; once woken, take it again.
CallWait(c, l) ==
  /\ InCall(<<>>)
  /\ isHeldByCurrentThread(l)
  /\ DisableInterrupts
  /\ Goto(<<"Wait", c, l>>)
  /\ UNCHANGED <<synchVars, holds, finished>>

Wait(c, l) ==
  /\ InCall(<<"Wait", c, l>>)
  /\ WaitSleep(c, l)
  /\ Goto(<<"Woken", c, l>>)
  /\ holds' = [holds EXCEPT ![currentThread] = @ \ {l}]
  /\ UNCHANGED finished

WaitReturn(c, l) ==
  /\ InCall(<<"Woken", c, l>>)
  /\ EnableInterrupts
  /\ Goto(<<"Acquire", l>>)
  /\ UNCHANGED <<synchVars, holds, finished>>

CallSignal(c, l) ==
  /\ InCall(<<>>)
  /\ Signal(c, l)
  /\ UNCHANGED <<pc, holds, finished>>

CallBroadcast(c, l) ==
  /\ InCall(<<>>)
  /\ isHeldByCurrentThread(l)
  /\ DisableInterrupts
  /\ Goto(<<"Broadcast", c>>)
  /\ UNCHANGED <<synchVars, holds, finished>>

Broadcast(c) ==
  /\ InCall(<<"Broadcast", c>>)
  /\ \/ WakeWaiter(c) /\ UNCHANGED pc
     \/ condQueue[c] = <<>> /\ EnableInterrupts /\ Goto(<<>>) /\ UNCHANGED synchVars
  /\ UNCHANGED <<holds, finished>>

Next ==
  \/ KernelStep /\ UNCHANGED holds
  \/ \E s \in Semaphore : CallP(s) \/ P(s) \/ CallV(s)
  \/ \E l \in Lock : CallAcquire(l) \/ Acquire(l) \/ CallRelease(l)
  \/ \E c \in Condition, l \in Lock :
       CallWait(c, l) \/ Wait(c, l) \/ WaitReturn(c, l)
         \/ CallSignal(c, l) \/ CallBroadcast(c, l)
  \/ \E c \in Condition : Broadcast(c)

Spec == Init /\ [][Next]_vars

--------------------------------------------------------------------------------
(***************************************************************************)
(* Safety.                                                                 *)
(***************************************************************************)

\* The threads inside P of s that are awake: about to test the value (again).
Testing(s) == {t \in Thread : pc[t] = <<"P", s>> /\ t \notin Members(semQueue[s])}

\* Semaphore::V wakes one waiter for each unit it adds, and P tests again after
\* it wakes, so that a thread which takes the unit first does no harm: while
\* threads sleep in P, every unit of the value has an awake thread inside P that
\* will look at it.  Otherwise a thread sleeps although the semaphore is free.
WakeupsCoverValue ==
  \A s \in Semaphore :
    semQueue[s] # <<>> => Covered(value[s], Testing(s))

\* Lock::Acquire and Release: a thread that returned from Acquire, or from the
\* Condition::Wait that takes the lock again, and has not released it, is the
\* only such thread, and it is the one the lock records.  Acquire's test is made
\* with interrupts on and is sound only because no tick follows it.
LockExclusive ==
  \A l \in Lock, t \in Thread : l \in holds[t] <=> heldThread[l] = t

\* synch.h:130-132: in Wait "releasing the lock and going to sleep are *atomic*".
\* A waiter that has given up the lock is on the queue, where a signaller that
\* holds the lock finds it, until a Signal or Broadcast takes it off; every thread
\* on a queue is in the routine that put it there; and no thread sleeps elsewhere.
QueuesMatchCalls ==
  /\ \A t \in Thread, s \in Semaphore :
       t \in Members(semQueue[s]) => pc[t] = <<"P", s>> /\ status[t] = "BLOCKED"
  /\ \A t \in Thread, c \in Condition :
       t \in Members(condQueue[c]) =>
         status[t] = "BLOCKED" /\ \E l \in Lock : pc[t] = <<"Woken", c, l>>
  /\ \A t \in Thread \ finished : status[t] = "BLOCKED" => t \in Queued

\* Values, owners and queues agree with the calls the threads are in: no unit of a
\* semaphore is slept past, a lock has one holder, the one it records, and a queue
\* holds exactly the threads that wait on it.
StateMatchesCallers == TypeOK /\ WakeupsCoverValue /\ LockExclusive /\ QueuesMatchCalls

\* Every step of the routines is a step the thread kernel allows: a thread is
\* readied only off a wait queue, and sleeps only onto one.
Kernel == INSTANCE ThreadSystem WITH waiting <- Queued
ImplementsKernel == Kernel!Spec

\* What the modules above rely on: seen from outside, the routines move owners,
\* waiters and values one atomic operation at a time.
Abstract == INSTANCE Monitors WITH held <- heldThread, waiting <- condQueue
ImplementsMonitors ==
  (\E initialValue \in [Semaphore -> InitialValues] : Abstract!MonitorInit(initialValue))
    /\ [][Abstract!MonitorNext]_<<heldThread, condQueue, value>>

(***************************************************************************)
(* Liveness.  A thread is dispatched to run up to its next tick at least,  *)
(* so one that is dispatched again and again gets through its routine; the *)
(* rest is as in ThreadSystem.                                             *)
(***************************************************************************)
InRoutine(t) ==
  /\ currentThread = t
  /\ \/ \E s \in Semaphore : P(s)
     \/ \E l \in Lock : Acquire(l)
     \/ \E c \in Condition, l \in Lock : Wait(c, l) \/ WaitReturn(c, l)
     \/ \E c \in Condition : Broadcast(c)

Fairness ==
  /\ SF_vars(TimeSlice /\ UNCHANGED holds)
  /\ WF_vars(Schedule /\ UNCHANGED holds)
  /\ \A t \in Thread : SF_vars(InRoutine(t))

FairSpec == Spec /\ Fairness

\* Semaphore::P, "Wait until semaphore value > 0, then decrement": a positive
\* value and a sleeping thread do not last.
FreeSemaphoreTaken ==
  \A s \in Semaphore :
    value[s] > 0 /\ semQueue[s] # <<>>
      ~> value[s] = 0 \/ semQueue[s] = <<>> \/ machineStatus = "Halted"

\* Lock::Acquire: while a thread spins for a free lock, some thread gets it.
FreeLockTaken ==
  \A l \in Lock :
    heldThread[l] = NoThread /\ (\E t \in Thread : pc[t] = <<"Acquire", l>>)
      ~> heldThread[l] # NoThread \/ machineStatus = "Halted"

\* Both together: what is free and wanted does not stay free.
FreeIsTaken == FreeSemaphoreTaken /\ FreeLockTaken

================================================================================
