--------------------------------- MODULE Synch ---------------------------------
(***************************************************************************)
(* The synchronisation routines of threads/synch.cc (the CHANGED build,    *)
(* which every Makefile selects): semaphores that sleep, locks that spin   *)
(* with Yield, and Mesa-style condition variables.                         *)
(*                                                                         *)
(* Each routine is cut at the ticks inside it (see Threads): P and Wait    *)
(* are cut where they sleep, Acquire at every Yield of its loop.           *)
(*                                                                         *)
(* Then what all programs of kernel threads have in common: a program      *)
(* counter per thread, threads that are forked and finish, time slices,    *)
(* and the steps of the scheduler.  A module for a particular program      *)
(* extends this one with the calls its threads make.                       *)
(***************************************************************************)
EXTENDS Threads, Functions

CONSTANTS Semaphore, Lock, Condition

VARIABLES
  value,       \* Semaphore::value
  semQueue,    \* Semaphore::queue
  heldThread,  \* Lock::heldThread
  condQueue    \* Condition::queue

synchVars == <<value, semQueue, heldThread, condQueue>>

SynchTypeOK ==
  /\ value \in [Semaphore -> Nat]
  /\ semQueue \in [Semaphore -> Seq(Thread)]
  /\ heldThread \in [Lock -> Thread \cup {NoThread}]
  /\ condQueue \in [Condition -> Seq(Thread)]

SynchInit(initialValue) ==
  /\ value = initialValue
  /\ semQueue = [s \in Semaphore |-> <<>>]
  /\ heldThread = [l \in Lock |-> NoThread]
  /\ condQueue = [c \in Condition |-> <<>>]

\* The threads asleep on some queue.
Members(q) == {q[i] : i \in 1..Len(q)}
Queued == UNION ({Members(semQueue[s]) : s \in Semaphore}
                   \cup {Members(condQueue[c]) : c \in Condition})

\* Each of n units has a thread of S to itself.
Covered(n, S) == ExistsInjection(1..n, S)

\* thread = queue->Remove(); scheduler->ReadyToRun(thread).
WakeFirst(q) ==
  /\ ReadyToRun(Head(q))
  /\ UNCHANGED <<currentThread, threadToBeDestroyed, resume, level, machineStatus>>

--------------------------------------------------------------------------------

\* Semaphore::P, after SetLevel(IntOff) and again each time the thread has been
\* woken: sleep while the value is 0, otherwise consume it.
PSleep(s) ==
  /\ value[s] = 0
  /\ Sleep
  /\ semQueue' = [semQueue EXCEPT ![s] = Append(@, currentThread)]
  /\ UNCHANGED <<value, heldThread, condQueue>>

PTake(s) ==
  /\ value[s] > 0
  /\ value' = [value EXCEPT ![s] = @ - 1]
  /\ EnableInterrupts
  /\ UNCHANGED <<semQueue, heldThread, condQueue>>

\* V that wakes a waiter only when the value was 0.
VFromZeroOnly(s) ==
  /\ CanInterrupt
  /\ value' = [value EXCEPT ![s] = @ + 1]
  /\ IF semQueue[s] = <<>> \/ value[s] > 0
     THEN UNCHANGED <<kernelVars, semQueue>>
     ELSE /\ WakeFirst(semQueue[s])
          /\ semQueue' = [semQueue EXCEPT ![s] = Tail(@)]
  /\ UNCHANGED <<heldThread, condQueue>>

\* V that only increments.
VNoWakeup(s) ==
  /\ CanInterrupt
  /\ value' = [value EXCEPT ![s] = @ + 1]
  /\ UNCHANGED <<kernelVars, semQueue, heldThread, condQueue>>

\* Semaphore::V, by a thread or by an interrupt handler.
V(s) ==
  /\ CanInterrupt
  /\ value' = [value EXCEPT ![s] = @ + 1]
  /\ IF semQueue[s] = <<>>
     THEN UNCHANGED <<kernelVars, semQueue>>
     ELSE /\ WakeFirst(semQueue[s])
          /\ semQueue' = [semQueue EXCEPT ![s] = Tail(@)]
  /\ UNCHANGED <<heldThread, condQueue>>

--------------------------------------------------------------------------------

isHeldByCurrentThread(l) == heldThread[l] = currentThread

\* Lock::Acquire: yield while another thread holds the lock, then take it.  The
\* test is outside the section with interrupts off, but no tick separates them.
AcquireYield(l) ==
  /\ heldThread[l] # NoThread
  /\ ~ isHeldByCurrentThread(l)
  /\ Yield
  /\ UNCHANGED synchVars

AcquireTake(l) ==
  /\ Executing
  /\ level = "IntOn"
  /\ heldThread[l] = NoThread \/ isHeldByCurrentThread(l)
  /\ heldThread' = [heldThread EXCEPT ![l] = currentThread]
  /\ UNCHANGED <<kernelVars, value, semQueue, condQueue>>

\* Lock::Release: nothing unless the caller holds the lock.
Released(l) ==
  IF isHeldByCurrentThread(l) THEN [heldThread EXCEPT ![l] = NoThread] ELSE heldThread

Release(l) ==
  /\ Executing
  /\ level = "IntOn"
  /\ heldThread' = Released(l)
  /\ UNCHANGED <<kernelVars, value, semQueue, condQueue>>

--------------------------------------------------------------------------------

\* Condition::Wait with interrupts off: queue up, release the lock and sleep,
\* with no tick in between.  (The caller has tested that it holds the lock.)
WaitSleep(c, l) ==
  /\ Sleep
  /\ condQueue' = [condQueue EXCEPT ![c] = Append(@, currentThread)]
  /\ heldThread' = Released(l)
  /\ UNCHANGED <<value, semQueue>>

\* A wakeup that leaves the thread on the queue.
WakeWithoutRemoval(c) ==
  /\ Executing
  /\ condQueue[c] # <<>>
  /\ WakeFirst(condQueue[c])
  /\ UNCHANGED synchVars

\* The first waiter of c, for Signal and for each turn of Broadcast's loop.
WakeWaiter(c) ==
  /\ Executing
  /\ condQueue[c] # <<>>
  /\ WakeFirst(condQueue[c])
  /\ condQueue' = [condQueue EXCEPT ![c] = Tail(@)]
  /\ UNCHANGED <<value, semQueue, heldThread>>

\* Signal without the test for the lock.
SignalUnlocked(c, l) ==
  /\ Executing
  /\ level = "IntOn"
  /\ IF condQueue[c] # <<>> THEN WakeWaiter(c) ELSE UNCHANGED <<kernelVars, synchVars>>

\* Condition::Signal: nothing unless the caller holds the lock and there is a
\* waiter.
Signal(c, l) ==
  /\ Executing
  /\ level = "IntOn"
  /\ IF isHeldByCurrentThread(l) /\ condQueue[c] # <<>>
     THEN WakeWaiter(c)
     ELSE UNCHANGED <<kernelVars, synchVars>>

--------------------------------------------------------------------------------

VARIABLES
  pc,       \* the routine a thread is in and its arguments; <<>> for none
  finished  \* the threads that have called Finish

programVars == <<currentThread, status, readyList, threadToBeDestroyed, resume,
                 level, machineStatus, value, semQueue, heldThread, condQueue,
                 pc, finished>>

ProgramTypeOK(Call) ==
  /\ KernelTypeOK
  /\ SynchTypeOK
  /\ pc \in [Thread -> {<<>>} \cup Call]
  /\ finished \subseteq Thread

ProgramInit(initialValue) ==
  /\ KernelInit
  /\ SynchInit(initialValue)
  /\ pc = [t \in Thread |-> <<>>]
  /\ finished = {}

InCall(call) == pc[currentThread] = call

Goto(call) == pc' = [pc EXCEPT ![currentThread] = call]

\* A routine is entered at a tick, without a state change of its own.
Enter(call) ==
  /\ Executing
  /\ level = "IntOn"
  /\ InCall(<<>>)
  /\ Goto(call)
  /\ UNCHANGED <<kernelVars, synchVars, finished>>

--------------------------------------------------------------------------------

\* Between its calls a thread may create threads, start them and finish.
Spawn(t) ==
  /\ InCall(<<>>)
  /\ NewThread(t) \/ Fork(t)
  /\ UNCHANGED <<synchVars, pc, finished>>

Exit ==
  /\ InCall(<<>>)
  /\ Finish
  /\ finished' = finished \cup {currentThread}
  /\ UNCHANGED <<synchVars, pc>>

\* Interrupt::OneTick with yieldOnReturn set; also a call of Yield.
TimeSlice == Yield /\ UNCHANGED <<synchVars, pc, finished>>

\* The loop of Thread::Sleep, in the thread that last slept.
Schedule ==
  /\ Dispatch \/ Idle \/ IdleReturn
  /\ UNCHANGED <<synchVars, pc, finished>>

HaltMachine ==
  /\ machineStatus = "IdleMode" \/ InCall(<<>>)
  /\ Halt
  /\ UNCHANGED <<synchVars, pc, finished>>

Halted == machineStatus = "Halted" /\ UNCHANGED programVars

KernelStep ==
  \/ \E t \in Thread : Spawn(t)
  \/ Exit
  \/ TimeSlice
  \/ Schedule
  \/ HaltMachine
  \/ Halted

================================================================================
