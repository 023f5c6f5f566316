-------------------------------- MODULE Threads --------------------------------
(***************************************************************************)
(* The Nachos thread kernel: Thread (threads/thread.cc), Scheduler         *)
(* (threads/scheduler.cc) and the part of Interrupt (machine/interrupt.cc) *)
(* that decides when a thread can lose the CPU.                            *)
(*                                                                         *)
(* Nachos is a uniprocessor and its kernel is preempted at one kind of     *)
(* place only: Interrupt::OneTick, which SetLevel calls when interrupts go *)
(* from off to on (and the machine simulator after a user instruction).    *)
(* SetLevel(IntOff) never ticks.  Code between two ticks therefore runs    *)
(* without interruption and is one step here; every state in which the     *)
(* current thread runs with level = "IntOn" is the moment of a tick, where *)
(* an interrupt handler or a time slice may come first.                    *)
(*                                                                         *)
(* This module has the kernel's state and its operations as actions on     *)
(* that state.  ThreadSystem closes them into a specification; the modules *)
(* of the synchronisation routines and devices use them as conjuncts.      *)
(***************************************************************************)
EXTENDS Naturals, Sequences

CONSTANTS
  Thread,     \* the Thread objects a run may allocate
  Main,       \* the one Initialize() makes for the code already running
  NoThread    \* NULL

ASSUME ThreadAssumption == Main \in Thread /\ NoThread \notin Thread

VARIABLES
  currentThread,        \* the thread holding the CPU
  status,               \* Thread::status, and the object's lifetime
  readyList,            \* Scheduler::readyList
  threadToBeDestroyed,  \* the finished thread whose carcass is to be deleted
  resume,               \* where SWITCH lands in a thread that is not running
  level,                \* Interrupt::level
  machineStatus         \* Interrupt::status; "Halted" once Halt() is called

kernelVars == <<currentThread, status, readyList, threadToBeDestroyed, resume,
                level, machineStatus>>

\* enum ThreadStatus, with the lifetime of the object around it.
ThreadStatus == {"JUST_CREATED", "RUNNING", "READY", "BLOCKED"}
Lifetime == ThreadStatus \cup {"UNBORN", "DELETED"}

\* The saved program counter of a thread that is switched out: a forked thread
\* starts at ThreadRoot, any other returns into the Run() it called from Yield
\* or from Sleep.
ResumePoint == {"ThreadRoot", "Yield", "Sleep"}

KernelTypeOK ==
  /\ currentThread \in Thread
  /\ status \in [Thread -> Lifetime]
  /\ readyList \in Seq(Thread)
  /\ threadToBeDestroyed \in Thread \cup {NoThread}
  /\ resume \in [Thread -> ResumePoint]
  /\ level \in {"IntOn", "IntOff"}
  /\ machineStatus \in {"SystemMode", "IdleMode", "Halted"}

\* The end of Initialize(): main runs, interrupts have been enabled.
KernelInit ==
  /\ currentThread = Main
  /\ status = [t \in Thread |-> IF t = Main THEN "RUNNING" ELSE "UNBORN"]
  /\ readyList = <<>>
  /\ threadToBeDestroyed = NoThread
  /\ resume = [t \in Thread |-> "ThreadRoot"]
  /\ level = "IntOn"
  /\ machineStatus = "SystemMode"

--------------------------------------------------------------------------------

\* The current thread is executing code of its own.  (While it is inside
\* Sleep(), looking for a thread to run, it is still currentThread.)
Executing ==
  /\ status[currentThread] = "RUNNING"
  /\ machineStatus = "SystemMode"

\* The current thread is in the loop of Sleep(), not in Interrupt::Idle.
Sleeping ==
  /\ status[currentThread] # "RUNNING"
  /\ machineStatus = "SystemMode"

\* A tick: the moments at which OneTick or Idle calls a due interrupt handler.
CanInterrupt ==
  \/ Executing /\ level = "IntOn"
  \/ machineStatus = "IdleMode"

--------------------------------------------------------------------------------

\* SetLevel(IntOff), and the SetLevel(oldLevel) that undoes it.
DisableInterrupts ==
  /\ Executing
  /\ level = "IntOn"
  /\ level' = "IntOff"
  /\ UNCHANGED <<currentThread, status, readyList, threadToBeDestroyed, resume,
                 machineStatus>>

EnableInterrupts ==
  /\ Executing
  /\ level = "IntOff"
  /\ level' = "IntOn"
  /\ UNCHANGED <<currentThread, status, readyList, threadToBeDestroyed, resume,
                 machineStatus>>

\* Thread::Thread: a new object that no list holds.
NewThread(t) ==
  /\ Executing
  /\ status[t] = "UNBORN"
  /\ status' = [status EXCEPT ![t] = "JUST_CREATED"]
  /\ UNCHANGED <<currentThread, readyList, threadToBeDestroyed, resume, level,
                 machineStatus>>

\* Scheduler::ReadyToRun.
ReadyToRun(t) ==
  /\ status' = [status EXCEPT ![t] = "READY"]
  /\ readyList' = Append(readyList, t)

\* Thread::Fork: StackAllocate makes ThreadRoot the saved program counter.
Fork(t) ==
  /\ Executing
  /\ status[t] = "JUST_CREATED"
  /\ resume' = [resume EXCEPT ![t] = "ThreadRoot"]
  /\ ReadyToRun(t)
  /\ UNCHANGED <<currentThread, threadToBeDestroyed, level, machineStatus>>

\* Run without "threadToBeDestroyed = NULL".
RunKeepsCarcassPointer(next, st, ready) ==
  /\ currentThread' = next
  /\ readyList' = ready
  /\ status' = [t \in Thread |->
                  IF t = threadToBeDestroyed /\ resume[next] # "ThreadRoot" THEN "DELETED"
                  ELSE IF t = next THEN "RUNNING" ELSE st[t]]
  /\ level' = IF resume[next] = "Sleep" THEN "IntOff" ELSE "IntOn"
  /\ UNCHANGED threadToBeDestroyed

\* Scheduler::Run, from the point where the caller has brought the status of
\* the old thread to st and taken next off the ready list, leaving ready, to the
\* point where next is back in code of its own.  A thread that returns from
\* SWITCH deletes the carcass; one that starts at ThreadRoot never enters Run()
\* and does not.  ThreadRoot and Yield go on to enable interrupts, Sleep
\* returns to a caller that has them off.
Run(next, st, ready) ==
  LET carcass == IF resume[next] = "ThreadRoot" THEN NoThread
                 ELSE threadToBeDestroyed
  IN /\ currentThread' = next
     /\ readyList' = ready
     /\ status' = [t \in Thread |-> IF t = carcass THEN "DELETED"
                                    ELSE IF t = next THEN "RUNNING" ELSE st[t]]
     /\ threadToBeDestroyed' = IF resume[next] = "ThreadRoot"
                               THEN threadToBeDestroyed ELSE NoThread
     /\ level' = IF resume[next] = "Sleep" THEN "IntOff" ELSE "IntOn"

\* Yield without ReadyToRun(this).
YieldForgetsSelf ==
  /\ Executing
  /\ level = "IntOn"
  /\ readyList # <<>>
  /\ Run(Head(readyList), [status EXCEPT ![currentThread] = "BLOCKED"], Tail(readyList))
  /\ resume' = [resume EXCEPT ![currentThread] = "Yield"]
  /\ UNCHANGED machineStatus

\* Yield with the thread put back on the front of the ready list.
YieldToFront ==
  /\ Executing
  /\ level = "IntOn"
  /\ readyList # <<>>
  /\ Run(Head(readyList), [status EXCEPT ![currentThread] = "READY"],
         <<currentThread>> \o Tail(readyList))
  /\ resume' = [resume EXCEPT ![currentThread] = "Yield"]
  /\ UNCHANGED machineStatus

\* Thread::Yield, called by the thread itself or by OneTick on a time slice.
Yield ==
  /\ Executing
  /\ level = "IntOn"
  /\ IF readyList = <<>>
     THEN UNCHANGED kernelVars
     ELSE /\ Run(Head(readyList), [status EXCEPT ![currentThread] = "READY"],
                 Append(Tail(readyList), currentThread))
          /\ resume' = [resume EXCEPT ![currentThread] = "Yield"]
          /\ UNCHANGED machineStatus

\* Thread::Sleep up to its loop; Dispatch and Idle below are the loop.
Sleep ==
  /\ Executing
  /\ level = "IntOff"
  /\ status' = [status EXCEPT ![currentThread] = "BLOCKED"]
  /\ resume' = [resume EXCEPT ![currentThread] = "Sleep"]
  /\ UNCHANGED <<currentThread, readyList, threadToBeDestroyed, level,
                 machineStatus>>

\* Finish that ends in Yield instead of Sleep.
FinishByYielding ==
  /\ Executing
  /\ level' = "IntOff"
  /\ ReadyToRun(currentThread)
  /\ resume' = [resume EXCEPT ![currentThread] = "Yield"]
  /\ UNCHANGED <<currentThread, threadToBeDestroyed, machineStatus>>

\* Thread::Finish, which disables interrupts and sleeps for ever.
Finish ==
  /\ Executing
  /\ level' = "IntOff"
  /\ threadToBeDestroyed' = currentThread
  /\ status' = [status EXCEPT ![currentThread] = "BLOCKED"]
  /\ resume' = [resume EXCEPT ![currentThread] = "Sleep"]
  /\ UNCHANGED <<currentThread, readyList, machineStatus>>

\* FindNextToRun that leaves the thread on the ready list.
DispatchWithoutRemoval ==
  /\ Sleeping
  /\ readyList # <<>>
  /\ Run(Head(readyList), status, readyList)
  /\ UNCHANGED <<resume, machineStatus>>

\* The loop of Thread::Sleep finds a thread (perhaps the sleeper itself).
Dispatch ==
  /\ Sleeping
  /\ readyList # <<>>
  /\ Run(Head(readyList), status, Tail(readyList))
  /\ UNCHANGED <<resume, machineStatus>>

\* ... or finds none and calls Interrupt::Idle, which runs the handlers that are
\* due and returns to the loop, or halts the machine when nothing is pending.
Idle ==
  /\ Sleeping
  /\ readyList = <<>>
  /\ machineStatus' = "IdleMode"
  /\ UNCHANGED <<currentThread, status, readyList, threadToBeDestroyed, resume,
                 level>>

IdleReturn ==
  /\ machineStatus = "IdleMode"
  /\ machineStatus' = "SystemMode"
  /\ UNCHANGED <<currentThread, status, readyList, threadToBeDestroyed, resume,
                 level>>

\* Interrupt::Halt, from Idle or from a thread.
Halt ==
  /\ Executing \/ (machineStatus = "IdleMode" /\ readyList = <<>>)
  /\ machineStatus' = "Halted"
  /\ UNCHANGED <<currentThread, status, readyList, threadToBeDestroyed, resume,
                 level>>

================================================================================
