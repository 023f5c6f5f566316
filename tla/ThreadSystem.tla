------------------------------ MODULE ThreadSystem ------------------------------
(***************************************************************************)
(* The thread kernel with the most general users of it: threads that       *)
(* create, fork, yield, sleep on a wait queue, wake sleepers and finish in *)
(* any order the kernel allows, and interrupt handlers that wake sleepers. *)
(* The programs of the other modules are special cases; SynchSystem, the   *)
(* most general of them, is checked to implement this specification.       *)
(***************************************************************************)
EXTENDS Threads

VARIABLES
  waiting,    \* the threads on the wait queue of a synchronisation object
  finished    \* the threads that have called Finish

vars == <<currentThread, status, readyList, threadToBeDestroyed, resume, level,
          machineStatus, waiting, finished>>

\* The kernel's state is well typed; wait queues hold threads.
TypeOK ==
  /\ KernelTypeOK
  /\ waiting \subseteq Thread
  /\ finished \subseteq Thread

Init ==
  /\ KernelInit
  /\ waiting = {}
  /\ finished = {}

--------------------------------------------------------------------------------

Create(t) == NewThread(t) /\ UNCHANGED <<waiting, finished>>

StartThread(t) == Fork(t) /\ UNCHANGED <<waiting, finished>>

\* The thread's own call of Yield, and a time slice at a tick.
GiveUpCPU == Yield /\ UNCHANGED <<waiting, finished>>

IntOff == DisableInterrupts /\ UNCHANGED <<waiting, finished>>

IntOn == EnableInterrupts /\ UNCHANGED <<waiting, finished>>

\* queue->Append(currentThread); currentThread->Sleep().
SleepOnQueue ==
  /\ Sleep
  /\ waiting' = waiting \cup {currentThread}
  /\ UNCHANGED finished

\* scheduler->ReadyToRun(queue->Remove()), by a thread with interrupts off, or
\* by an interrupt handler.
Wake(t) ==
  /\ t \in waiting
  /\ (Executing /\ level = "IntOff") \/ CanInterrupt
  /\ ReadyToRun(t)
  /\ waiting' = waiting \ {t}
  /\ UNCHANGED <<currentThread, threadToBeDestroyed, resume, level,
                 machineStatus, finished>>

Exit ==
  /\ Finish
  /\ finished' = finished \cup {currentThread}
  /\ UNCHANGED waiting

SwitchFromSleeper == Dispatch /\ UNCHANGED <<waiting, finished>>

StartIdling == Idle /\ UNCHANGED <<waiting, finished>>

StopIdling == IdleReturn /\ UNCHANGED <<waiting, finished>>

HaltMachine == Halt /\ UNCHANGED <<waiting, finished>>

Halted == machineStatus = "Halted" /\ UNCHANGED vars

Next ==
  \/ \E t \in Thread : Create(t) \/ StartThread(t) \/ Wake(t)
  \/ GiveUpCPU
  \/ IntOff
  \/ IntOn
  \/ SleepOnQueue
  \/ Exit
  \/ SwitchFromSleeper
  \/ StartIdling
  \/ StopIdling
  \/ HaltMachine
  \/ Halted

Spec == Init /\ [][Next]_vars

--------------------------------------------------------------------------------
(***************************************************************************)
(* Safety.                                                                 *)
(***************************************************************************)

\* The ready list holds each READY thread once and no other thread, and only
\* the current thread is RUNNING.  A thread readied twice (Scheduler::ReadyToRun
\* called by two wakers) would be dispatched on a stack that is in use.
ReadyListExact ==
  /\ \A i, j \in 1..Len(readyList) : readyList[i] = readyList[j] => i = j
  /\ \A t \in Thread :
       status[t] = "READY" <=> \E i \in 1..Len(readyList) : readyList[i] = t
  /\ \A t \in Thread : status[t] = "RUNNING" => t = currentThread

\* A BLOCKED thread is on a wait queue, where someone can find it, or has
\* finished; and the wait queues hold only BLOCKED threads that have not
\* finished.  (Thread::Sleep: "Eventually, some thread will wake this thread".)
NoThreadForgotten ==
  \A t \in Thread :
    /\ status[t] = "BLOCKED" => t \in waiting \/ t \in finished
    /\ t \in waiting => status[t] = "BLOCKED" /\ t \notin finished

\* The carcass is a finished thread that nothing can dispatch, and is never the
\* thread whose code is running: what Thread::~Thread asserts, "this !=
\* currentThread", when Scheduler::Run deletes it.  A deleted thread is gone
\* from every place that could lead back to it.
CarcassSafe ==
  /\ threadToBeDestroyed # NoThread =>
       /\ threadToBeDestroyed \in finished
       /\ status[threadToBeDestroyed] = "BLOCKED"
  /\ \A t \in Thread : status[t] = "DELETED" => t \in finished /\ t # currentThread
  /\ Executing => currentThread \notin finished

\* Nothing happens to the finished threads, except that one may be deleted while
\* another thread is running.
FinishedKept ==
  \A t \in finished :
    /\ t \in finished'
    /\ \/ status'[t] = status[t]
       \/ status[t] = "BLOCKED" /\ status'[t] = "DELETED" /\ currentThread' # t

\* A thread that has called Thread::Finish is never scheduled again; all that
\* can still happen to it is its deletion, by Scheduler::Run in another thread.
FinishedStaysFinished == [][FinishedKept]_vars

(***************************************************************************)
(* Liveness.  With the time-slice timer running (nachos -rs) every thread  *)
(* that keeps reaching ticks is made to yield again and again, which is    *)
(* strong fairness of GiveUpCPU; kernel code that has interrupts off       *)
(* always gets to the end of its section; the loop of Sleep makes          *)
(* progress.  Nothing is assumed of the threads' other steps.              *)
(***************************************************************************)
Fairness ==
  /\ SF_vars(GiveUpCPU)
  /\ WF_vars(IntOn)
  /\ WF_vars(SwitchFromSleeper)
  /\ WF_vars(StopIdling)

FairSpec == Spec /\ Fairness

\* Thread::Yield's comment: a thread put on the end of the ready list "will
\* eventually be re-scheduled" (unless the machine is halted first).
ReadyEventuallyRuns ==
  \A t \in Thread : status[t] = "READY" ~> status[t] = "RUNNING" \/ machineStatus = "Halted"

================================================================================
