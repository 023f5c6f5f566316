------------------------------ MODULE SynchProofs ------------------------------
(***************************************************************************)
(* What every program over the routines of threads/synch.cc can rely on,   *)
(* for any threads, semaphores, locks and conditions: the invariant of the *)
(* thread kernel, and queues on which a thread is at most once.  There is  *)
(* one lemma for each way a step of a program can use the kernel; each     *)
(* also shows the step to be one of ThreadSystem.                          *)
(***************************************************************************)
EXTENDS Synch, TLAPS

\* Time limits of the provers, in seconds, for a step that gives none.
USE SMTT(30), ZenonT(30)

\* The thread kernel, its invariant and the proof that its steps keep it.
KP == INSTANCE ThreadSystemProofs WITH waiting <- Queued

Distinct(q) == \A i, j \in 1..Len(q) : q[i] = q[j] => i = j

\* No thread is on two queues or twice on one: Sleep is called once for each
\* Append to a queue, and the thread is off the queue before it runs again.
QueuesExclusive ==
  /\ \A s \in Semaphore : Distinct(semQueue[s])
  /\ \A c \in Condition : Distinct(condQueue[c])
  /\ \A t \in Thread, s, r \in Semaphore :
       t \in Members(semQueue[s]) /\ t \in Members(semQueue[r]) => s = r
  /\ \A t \in Thread, c, d \in Condition :
       t \in Members(condQueue[c]) /\ t \in Members(condQueue[d]) => c = d
  /\ \A t \in Thread, s \in Semaphore, c \in Condition :
       ~ (t \in Members(semQueue[s]) /\ t \in Members(condQueue[c]))

ProgramInv == SynchTypeOK /\ QueuesExclusive /\ KP!IInv

--------------------------------------------------------------------------------

\* List::Append on a queue.
LEMMA QueueAppend ==
  ASSUME NEW S, NEW q \in Seq(S), NEW e \in S, Distinct(q), e \notin Members(q)
  PROVE  /\ Append(q, e) \in Seq(S)
         /\ Append(q, e) # <<>>
         /\ Distinct(Append(q, e))
         /\ Members(Append(q, e)) = Members(q) \cup {e}
<1>1. /\ Append(q, e) \in Seq(S)
      /\ Len(Append(q, e)) = Len(q) + 1
      /\ Len(q) \in Nat
      /\ \A i \in 1..Len(q) : Append(q, e)[i] = q[i]
      /\ Append(q, e)[Len(q) + 1] = e
  OBVIOUS
<1>2. Append(q, e) # <<>>
  BY <1>1
<1>3. Distinct(Append(q, e))
  BY <1>1 DEF Distinct, Members
<1>4. Members(Append(q, e)) = Members(q) \cup {e}
  BY <1>1 DEF Members
<1> QED
  BY <1>1, <1>2, <1>3, <1>4, Zenon

\* List::Remove from a queue.
LEMMA QueueRemove ==
  ASSUME NEW S, NEW q \in Seq(S), Distinct(q), q # <<>>
  PROVE  /\ Head(q) \in S
         /\ Head(q) \in Members(q)
         /\ Tail(q) \in Seq(S)
         /\ Distinct(Tail(q))
         /\ Members(Tail(q)) = Members(q) \ {Head(q)}
<1>1. /\ Len(q) \in Nat /\ Len(q) > 0
      /\ Head(q) = q[1]
      /\ Tail(q) \in Seq(S)
      /\ Len(Tail(q)) = Len(q) - 1
      /\ \A i \in 1..(Len(q) - 1) : Tail(q)[i] = q[i + 1]
  OBVIOUS
<1>2. Head(q) \in S /\ Head(q) \in Members(q)
  BY <1>1 DEF Members
<1>3. Distinct(Tail(q))
  BY <1>1 DEF Distinct
<1>4. ASSUME NEW x \in Members(Tail(q)) PROVE x \in Members(q) \ {Head(q)}
  BY <1>1 DEF Members, Distinct
<1>5. ASSUME NEW x \in Members(q), x # Head(q) PROVE x \in Members(Tail(q))
  <2>1. PICK i \in 1..Len(q) : q[i] = x
    BY Zenon DEF Members
  <2>2. i - 1 \in 1..Len(Tail(q)) /\ Tail(q)[i - 1] = x
    BY <1>1, <1>5, <2>1
  <2> QED
    BY <2>2, Zenon DEF Members
<1> QED
  BY <1>1, <1>2, <1>3, <1>4, <1>5, Zenon

\* A queue with a member is not empty.
LEMMA MembersEmpty == ASSUME NEW S, NEW q \in Seq(S) PROVE Members(q) = {} <=> q = <<>>
<1>1. CASE q = <<>>
  BY <1>1 DEF Members
<1>2. CASE q # <<>>
  <2>1. Len(q) \in Nat /\ Len(q) > 0
    BY <1>2
  <2>2. q[1] \in Members(q)
    BY <2>1 DEF Members
  <2> QED
    BY <1>2, <2>2, Zenon
<1> QED
  BY <1>1, <1>2, Zenon

\* Units and the threads that answer for them.  No unit needs no thread.
LEMMA NoUnits == ASSUME NEW S PROVE Covered(0, S)
<1>1. [i \in 1..0 |-> 0] \in Injection(1..0, S)
  BY DEF Injection, IsInjective
<1> QED
  BY <1>1, Zenon DEF Covered, ExistsInjection

\* Threads that join do no harm.
LEMMA MoreThreads ==
  ASSUME NEW n \in Nat, NEW S, NEW T, S \subseteq T, Covered(n, S)
  PROVE  Covered(n, T)
<1>1. PICK f \in [1..n -> S] : IsInjective(f)
  BY Zenon DEF Covered, ExistsInjection, Injection
<1>2. f \in Injection(1..n, T)
  BY <1>1, Zenon DEF Injection
<1> QED
  BY <1>2, Zenon DEF Covered, ExistsInjection

\* A thread that leaves takes a unit with it.
LEMMA UnitTaken ==
  ASSUME NEW n \in Nat \ {0}, NEW S, NEW x, Covered(n, S)
  PROVE  Covered(n - 1, S \ {x})
<1>1. PICK f \in [1..n -> S] : IsInjective(f)
  BY Zenon DEF Covered, ExistsInjection, Injection
<1> DEFINE g == [i \in 1..(n - 1) |-> IF f[i] = x THEN f[n] ELSE f[i]]
<1>2. \A i, j \in 1..n : f[i] = f[j] => i = j
  BY <1>1, Zenon DEF IsInjective
<1>3. g \in [1..(n - 1) -> S \ {x}]
  BY <1>2
<1>4. \A i, j \in 1..(n - 1) : g[i] = g[j] => i = j
  BY <1>2
<1>5. g \in Injection(1..(n - 1), S \ {x})
  <2> HIDE DEF g
  <2> QED
    BY <1>3, <1>4, Zenon DEF Injection, IsInjective
<1> QED
  BY ONLY <1>5, Zenon DEF Covered, ExistsInjection

\* A unit comes with the thread that is woken for it.
LEMMA UnitAdded ==
  ASSUME NEW n \in Nat, NEW S, NEW x, x \notin S, Covered(n, S)
  PROVE  Covered(n + 1, S \cup {x})
<1>1. PICK f \in [1..n -> S] : IsInjective(f)
  BY Zenon DEF Covered, ExistsInjection, Injection
<1> DEFINE g == [i \in 1..(n + 1) |-> IF i = n + 1 THEN x ELSE f[i]]
<1>2. \A i, j \in 1..n : f[i] = f[j] => i = j
  BY <1>1, Zenon DEF IsInjective
<1>3. \A i \in 1..(n + 1) : i # n + 1 => i \in 1..n /\ f[i] \in S
  OBVIOUS
<1>4. g \in [1..(n + 1) -> S \cup {x}]
  BY <1>3, Zenon
<1>5. \A i, j \in 1..(n + 1) : g[i] = g[j] => i = j
  BY <1>2, <1>3, Zenon
<1>6. g \in Injection(1..(n + 1), S \cup {x})
  <2> HIDE DEF g
  <2> QED
    BY <1>4, <1>5, Zenon DEF Injection, IsInjective
<1> QED
  BY ONLY <1>6, Zenon DEF Covered, ExistsInjection

\* Who is queued, in this state and in the next.
LEMMA InQueued ==
  /\ \A t : t \in Queued <=> \/ \E s \in Semaphore : t \in Members(semQueue[s])
                             \/ \E c \in Condition : t \in Members(condQueue[c])
  /\ \A t : t \in Queued' <=> \/ \E s \in Semaphore : t \in Members(semQueue'[s])
                              \/ \E c \in Condition : t \in Members(condQueue'[c])
BY Zenon DEF Queued, Members

\* What a program may use of the kernel's invariant.
LEMMA KernelFacts ==
  ASSUME ProgramInv
  PROVE  /\ KernelTypeOK
         /\ \A t \in Queued : status[t] = "BLOCKED" /\ t \notin finished
         /\ \A t \in Thread \ finished : status[t] = "BLOCKED" => t \in Queued
         /\ Executing => currentThread \notin Queued /\ currentThread \notin finished
         /\ finished \subseteq Thread /\ Queued \subseteq Thread
         /\ \A t \in Thread : status[t] = "RUNNING" => t = currentThread
<1>1. Queued \subseteq Thread
  BY Zenon DEF ProgramInv, KP!IInv, KP!TypeOK
<1> QED
  BY <1>1, Zenon DEF ProgramInv, KP!IInv, KP!TypeOK, KP!KernelTypeOK, KernelTypeOK, KP!NoThreadForgotten,
     KP!CarcassSafe, KP!Executing, Executing, KP!ReadyListExact, Lifetime, KP!Lifetime,
     ThreadStatus, KP!ThreadStatus, ResumePoint, KP!ResumePoint

\* A step that is one of the kernel's and leaves the queues well formed keeps the
\* invariant.
LEMMA KernelKeeps ==
  ASSUME ProgramInv, SynchTypeOK', QueuesExclusive', [KP!Next]_KP!vars
  PROVE  ProgramInv'
BY KP!NextStep, ThreadAssumption, Zenon DEF ProgramInv

--------------------------------------------------------------------------------

\* Queues that do not change stay well formed.
LEMMA QueuesKept ==
  ASSUME QueuesExclusive, UNCHANGED <<semQueue, condQueue>>
  PROVE  QueuesExclusive' /\ UNCHANGED Queued
BY Zenon DEF QueuesExclusive, Queued

\* SetLevel, Yield, a time slice, Halt, or no use of the kernel at all.
LEMMA RunningStep ==
  ASSUME ProgramInv, SynchTypeOK', UNCHANGED <<semQueue, condQueue, finished>>,
         \/ UNCHANGED kernelVars
         \/ DisableInterrupts
         \/ EnableInterrupts
         \/ Yield
         \/ Halt
  PROVE  ProgramInv' /\ [KP!Next]_KP!vars
<1>1. QueuesExclusive' /\ UNCHANGED <<Queued, finished>>
  BY QueuesKept, Zenon DEF ProgramInv
<1>2. [KP!Next]_KP!vars
  <2>1. CASE UNCHANGED kernelVars
    BY <1>1, <2>1, Zenon DEF kernelVars, KP!vars
  <2>2. CASE DisableInterrupts
    <3>1. KP!IntOff
      BY <1>1, <2>2, Zenon DEF DisableInterrupts, Executing, KP!IntOff,
         KP!DisableInterrupts, KP!Executing
    <3> QED
      BY <3>1, Zenon DEF KP!Next
  <2>3. CASE EnableInterrupts
    <3>1. KP!IntOn
      BY <1>1, <2>3, Zenon DEF EnableInterrupts, Executing, KP!IntOn,
         KP!EnableInterrupts, KP!Executing
    <3> QED
      BY <3>1, Zenon DEF KP!Next
  <2>4. CASE Yield
    <3>1. KP!GiveUpCPU
      BY <1>1, <2>4, Zenon DEF Yield, Run, Executing, kernelVars, KP!GiveUpCPU,
         KP!Yield, KP!Run, KP!Executing, KP!kernelVars
    <3> QED
      BY <3>1, Zenon DEF KP!Next
  <2>5. CASE Halt
    <3>1. KP!HaltMachine
      BY <1>1, <2>5, Zenon DEF Halt, Executing, KP!HaltMachine, KP!Halt, KP!Executing
    <3> QED
      BY <3>1, Zenon DEF KP!Next
  <2> QED
    BY <2>1, <2>2, <2>3, <2>4, <2>5, Zenon
<1> QED
  BY <1>1, <1>2, KernelKeeps, Zenon

\* The steps that all programs share.
LEMMA SharedStep ==
  ASSUME ProgramInv, KernelStep
  PROVE  /\ ProgramInv' /\ [KP!Next]_KP!vars
         /\ UNCHANGED <<synchVars, pc>>
<1>1. UNCHANGED <<synchVars, pc>>
  BY Zenon DEF KernelStep, Spawn, Exit, TimeSlice, Schedule, HaltMachine, Halted, programVars,
     synchVars
<1>2. SynchTypeOK'
  BY <1>1, Zenon DEF ProgramInv, SynchTypeOK, synchVars
<1>3. QueuesExclusive' /\ UNCHANGED Queued
  BY <1>1, QueuesKept, Zenon DEF ProgramInv, synchVars
<1>4. [KP!Next]_KP!vars
  <2>1. ASSUME NEW t \in Thread, Spawn(t) PROVE KP!Create(t) \/ KP!StartThread(t)
    BY <1>3, <2>1, Zenon DEF Spawn, NewThread, Fork, ReadyToRun, Executing, KP!Create,
       KP!StartThread, KP!NewThread, KP!Fork, KP!ReadyToRun, KP!Executing
  <2>2. CASE Exit
    <3>1. KP!Exit
      BY <1>3, <2>2, Zenon DEF Exit, Finish, Executing, KP!Exit, KP!Finish, KP!Executing
    <3> QED
      BY <3>1, Zenon DEF KP!Next
  <2>3. CASE TimeSlice
    BY <1>2, <2>3, RunningStep, Zenon DEF TimeSlice, synchVars
  <2>4. CASE Schedule
    <3>1. \/ KP!SwitchFromSleeper
          \/ KP!StartIdling
          \/ KP!StopIdling
      BY <1>3, <2>4, Zenon DEF Schedule, Dispatch, Idle, IdleReturn, Run, Sleeping,
         KP!SwitchFromSleeper, KP!StartIdling, KP!StopIdling, KP!Dispatch,
         KP!Idle, KP!IdleReturn, KP!Run, KP!Sleeping
    <3> QED
      BY <3>1, Zenon DEF KP!Next
  <2>5. CASE HaltMachine
    <3>1. KP!HaltMachine
      BY <1>3, <2>5, Zenon DEF HaltMachine, Halt, Executing, KP!HaltMachine, KP!Halt,
         KP!Executing
    <3> QED
      BY <3>1, Zenon DEF KP!Next
  <2>6. CASE Halted
    BY <1>3, <2>6, Zenon DEF Halted, programVars, KP!vars
  <2> QED
    BY <2>1, <2>2, <2>3, <2>4, <2>5, <2>6, Zenon DEF KernelStep, KP!Next
<1> QED
  BY <1>1, <1>2, <1>3, <1>4, KernelKeeps, Zenon

--------------------------------------------------------------------------------

\* Semaphore::P that sleeps.
LEMMA SleepInP ==
  ASSUME ProgramInv, NEW s \in Semaphore, PSleep(s), UNCHANGED finished
  PROVE  /\ ProgramInv' /\ [KP!Next]_KP!vars
         /\ currentThread \in Thread /\ currentThread \notin Queued
         /\ semQueue'[s] # <<>>
         /\ Members(semQueue'[s]) = Members(semQueue[s]) \cup {currentThread}
         /\ \A r \in Semaphore \ {s} : semQueue'[r] = semQueue[r]
         /\ UNCHANGED <<value, heldThread, condQueue>>
<1>1. /\ Executing
      /\ semQueue' = [semQueue EXCEPT ![s] = Append(@, currentThread)]
      /\ UNCHANGED <<value, heldThread, condQueue>>
  BY Zenon DEF PSleep, Sleep
<1>2. currentThread \in Thread /\ currentThread \notin Queued
  BY <1>1, KernelFacts, Zenon DEF KernelTypeOK
<1>3. /\ semQueue \in [Semaphore -> Seq(Thread)]
      /\ semQueue[s] \in Seq(Thread) /\ Distinct(semQueue[s])
      /\ currentThread \notin Members(semQueue[s])
  BY <1>2, InQueued, Zenon DEF ProgramInv, SynchTypeOK, QueuesExclusive
<1>4. /\ Append(semQueue[s], currentThread) \in Seq(Thread)
      /\ Append(semQueue[s], currentThread) # <<>>
      /\ Distinct(Append(semQueue[s], currentThread))
      /\ Members(Append(semQueue[s], currentThread)) = Members(semQueue[s]) \cup {currentThread}
  BY <1>2, <1>3, QueueAppend
<1>5. /\ semQueue' \in [Semaphore -> Seq(Thread)]
      /\ semQueue'[s] # <<>> /\ Distinct(semQueue'[s])
      /\ Members(semQueue'[s]) = Members(semQueue[s]) \cup {currentThread}
      /\ \A r \in Semaphore \ {s} : semQueue'[r] = semQueue[r]
  BY <1>1, <1>3, <1>4, Zenon
<1>6. SynchTypeOK'
  BY <1>1, <1>5, Zenon DEF ProgramInv, SynchTypeOK
<1>7. QueuesExclusive'
  BY <1>1, <1>2, <1>5, InQueued DEF ProgramInv, QueuesExclusive
<1>8. Queued' = Queued \cup {currentThread}
  BY <1>1, <1>5, InQueued, Zenon
<1>9. KP!SleepOnQueue
  BY <1>8, Zenon DEF PSleep, Sleep, Executing, KP!SleepOnQueue, KP!Sleep, KP!Executing
<1> QED
  BY <1>1, <1>2, <1>5, <1>6, <1>7, <1>9, KernelKeeps, Zenon DEF KP!Next

\* Condition::Wait: the thread queues up and sleeps in one step.
LEMMA SleepInWait ==
  ASSUME ProgramInv, NEW c \in Condition, NEW l \in Lock, WaitSleep(c, l), UNCHANGED finished
  PROVE  /\ ProgramInv' /\ [KP!Next]_KP!vars
         /\ currentThread \in Thread /\ currentThread \notin Queued
         /\ condQueue'[c] # <<>>
         /\ Members(condQueue'[c]) = Members(condQueue[c]) \cup {currentThread}
         /\ \A d \in Condition \ {c} : condQueue'[d] = condQueue[d]
         /\ UNCHANGED <<value, semQueue>>
<1>1. /\ Executing
      /\ condQueue' = [condQueue EXCEPT ![c] = Append(@, currentThread)]
      /\ heldThread' = Released(l)
      /\ UNCHANGED <<value, semQueue>>
  BY Zenon DEF WaitSleep, Sleep
<1>2. currentThread \in Thread /\ currentThread \notin Queued
  BY <1>1, KernelFacts, Zenon DEF KernelTypeOK
<1>3. /\ condQueue \in [Condition -> Seq(Thread)]
      /\ condQueue[c] \in Seq(Thread) /\ Distinct(condQueue[c])
      /\ currentThread \notin Members(condQueue[c])
  BY <1>2, InQueued, Zenon DEF ProgramInv, SynchTypeOK, QueuesExclusive
<1>4. /\ Append(condQueue[c], currentThread) \in Seq(Thread)
      /\ Append(condQueue[c], currentThread) # <<>>
      /\ Distinct(Append(condQueue[c], currentThread))
      /\ Members(Append(condQueue[c], currentThread)) = Members(condQueue[c]) \cup {currentThread}
  BY <1>2, <1>3, QueueAppend
<1>5. /\ condQueue' \in [Condition -> Seq(Thread)]
      /\ condQueue'[c] # <<>> /\ Distinct(condQueue'[c])
      /\ Members(condQueue'[c]) = Members(condQueue[c]) \cup {currentThread}
      /\ \A d \in Condition \ {c} : condQueue'[d] = condQueue[d]
  BY <1>1, <1>3, <1>4, Zenon
<1>6. SynchTypeOK'
  BY <1>1, <1>5, Zenon DEF ProgramInv, SynchTypeOK, Released
<1>7. QueuesExclusive'
  BY <1>1, <1>2, <1>5, InQueued DEF ProgramInv, QueuesExclusive
<1>8. Queued' = Queued \cup {currentThread}
  BY <1>1, <1>5, InQueued, Zenon
<1>9. KP!SleepOnQueue
  BY <1>8, Zenon DEF WaitSleep, Sleep, Executing, KP!SleepOnQueue, KP!Sleep, KP!Executing
<1> QED
  BY <1>1, <1>2, <1>5, <1>6, <1>7, <1>9, KernelKeeps, Zenon DEF KP!Next

--------------------------------------------------------------------------------

\* Semaphore::V: the value grows by one, and a waiter, if there is one, leaves the
\* queue.
LEMMA WakeInV ==
  ASSUME ProgramInv, NEW s \in Semaphore, V(s), UNCHANGED finished
  PROVE  /\ ProgramInv' /\ [KP!Next]_KP!vars
         /\ value' = [value EXCEPT ![s] = @ + 1]
         /\ IF semQueue[s] = <<>> THEN UNCHANGED semQueue
            ELSE /\ Head(semQueue[s]) \in Thread
                 /\ Head(semQueue[s]) \in Members(semQueue[s])
                 /\ Members(semQueue'[s]) = Members(semQueue[s]) \ {Head(semQueue[s])}
                 /\ \A r \in Semaphore \ {s} : semQueue'[r] = semQueue[r]
         /\ UNCHANGED <<currentThread, heldThread, condQueue>>
<1>1. /\ value' = [value EXCEPT ![s] = @ + 1]
      /\ UNCHANGED <<currentThread, heldThread, condQueue>>
  BY Zenon DEF V, WakeFirst, kernelVars
<1>2. value' \in [Semaphore -> Nat] /\ UNCHANGED <<heldThread, condQueue>>
  BY <1>1 DEF ProgramInv, SynchTypeOK
<1>3. CASE semQueue[s] = <<>>
  <2>1. UNCHANGED <<kernelVars, semQueue, condQueue>>
    BY <1>3, Zenon DEF V
  <2>2. SynchTypeOK'
    BY <1>1, <1>2, <2>1, Zenon DEF ProgramInv, SynchTypeOK
  <2> QED
    BY <1>1, <1>3, <2>1, <2>2, RunningStep, Zenon
<1>4. CASE semQueue[s] # <<>>
  <2> DEFINE t == Head(semQueue[s])
  <2>1. /\ CanInterrupt /\ ReadyToRun(t)
        /\ UNCHANGED <<currentThread, threadToBeDestroyed, resume, level, machineStatus>>
        /\ semQueue' = [semQueue EXCEPT ![s] = Tail(@)]
    BY <1>4, Zenon DEF V, WakeFirst
  <2>2. /\ semQueue \in [Semaphore -> Seq(Thread)]
        /\ semQueue[s] \in Seq(Thread) /\ Distinct(semQueue[s])
    BY Zenon DEF ProgramInv, SynchTypeOK, QueuesExclusive
  <2>3. /\ t \in Thread /\ t \in Members(semQueue[s])
        /\ Tail(semQueue[s]) \in Seq(Thread) /\ Distinct(Tail(semQueue[s]))
        /\ Members(Tail(semQueue[s])) = Members(semQueue[s]) \ {t}
    BY <1>4, <2>2, QueueRemove, Zenon
  <2> HIDE DEF t
  <2>4. /\ semQueue' \in [Semaphore -> Seq(Thread)] /\ Distinct(semQueue'[s])
        /\ Members(semQueue'[s]) = Members(semQueue[s]) \ {t}
        /\ \A r \in Semaphore \ {s} : semQueue'[r] = semQueue[r]
    BY <2>1, <2>2, <2>3, Zenon
  <2>5. SynchTypeOK' /\ QueuesExclusive'
    <3>1. SynchTypeOK'
      BY <1>2, <2>4, Zenon DEF ProgramInv, SynchTypeOK
    <3>2. /\ \A r \in Semaphore : Distinct(semQueue'[r])
          /\ \A r \in Semaphore : Members(semQueue'[r]) \subseteq Members(semQueue[r])
      BY <2>4, Zenon DEF ProgramInv, QueuesExclusive
    <3>3. QueuesExclusive'
      BY <1>2, <3>2, Zenon DEF ProgramInv, QueuesExclusive
    <3> QED
      BY <3>1, <3>3, Zenon
  <2>6. t \in Queued /\ Queued' = Queued \ {t}
    <3>1. \A r \in Semaphore \ {s} : t \notin Members(semQueue[r])
      BY <2>3, Zenon DEF ProgramInv, QueuesExclusive
    <3>2. \A c \in Condition : t \notin Members(condQueue[c])
      BY <2>3, Zenon DEF ProgramInv, QueuesExclusive
    <3>3. /\ t \in Members(semQueue[s])
          /\ Members(semQueue'[s]) = Members(semQueue[s]) \ {t}
          /\ \A r \in Semaphore \ {s} : semQueue'[r] = semQueue[r]
          /\ UNCHANGED condQueue
      BY <1>2, <2>3, <2>4, Zenon
    <3> QED
      BY <3>1, <3>2, <3>3, InQueued, Zenon
  <2>7. KP!Wake(t)
    BY <2>1, <2>6, Zenon DEF ReadyToRun, CanInterrupt, Executing, KP!Wake, KP!ReadyToRun,
       KP!CanInterrupt, KP!Executing
  <2>8. ProgramInv' /\ [KP!Next]_KP!vars
    BY <2>3, <2>5, <2>7, KernelKeeps, Zenon DEF KP!Next
  <2> QED
    BY <1>1, <1>4, <2>3, <2>4, <2>8, Zenon DEF t
<1> QED
  BY <1>3, <1>4, Zenon

\* The wakeup of Condition::Signal and of each turn of Broadcast.
LEMMA WakeInSignal ==
  ASSUME ProgramInv, NEW c \in Condition, WakeWaiter(c), UNCHANGED finished
  PROVE  /\ ProgramInv' /\ [KP!Next]_KP!vars
         /\ Head(condQueue[c]) \in Thread
         /\ Head(condQueue[c]) \in Members(condQueue[c])
         /\ Members(condQueue'[c]) = Members(condQueue[c]) \ {Head(condQueue[c])}
         /\ \A d \in Condition \ {c} : condQueue'[d] = condQueue[d]
         /\ UNCHANGED <<currentThread, value, semQueue, heldThread>>
<1> DEFINE t == Head(condQueue[c])
<1>1. /\ Executing /\ ReadyToRun(t)
      /\ UNCHANGED <<currentThread, threadToBeDestroyed, resume, level, machineStatus>>
      /\ UNCHANGED <<value, semQueue, heldThread>>
      /\ condQueue[c] # <<>>
      /\ condQueue' = [condQueue EXCEPT ![c] = Tail(@)]
  BY Zenon DEF WakeWaiter, WakeFirst
<1>2. /\ condQueue \in [Condition -> Seq(Thread)]
      /\ condQueue[c] \in Seq(Thread) /\ Distinct(condQueue[c])
  BY Zenon DEF ProgramInv, SynchTypeOK, QueuesExclusive
<1>3. /\ t \in Thread /\ t \in Members(condQueue[c])
      /\ Tail(condQueue[c]) \in Seq(Thread) /\ Distinct(Tail(condQueue[c]))
      /\ Members(Tail(condQueue[c])) = Members(condQueue[c]) \ {t}
  BY <1>1, <1>2, QueueRemove, Zenon
<1> HIDE DEF t
<1>4. /\ condQueue' \in [Condition -> Seq(Thread)] /\ Distinct(condQueue'[c])
      /\ Members(condQueue'[c]) = Members(condQueue[c]) \ {t}
      /\ \A d \in Condition \ {c} : condQueue'[d] = condQueue[d]
  BY <1>1, <1>2, <1>3, Zenon
<1>5. SynchTypeOK' /\ QueuesExclusive'
  BY <1>1, <1>4, Zenon DEF ProgramInv, SynchTypeOK, QueuesExclusive
<1>6. t \in Queued /\ Queued' = Queued \ {t}
  <2>1. \A d \in Condition \ {c} : t \notin Members(condQueue[d])
    BY <1>3, Zenon DEF ProgramInv, QueuesExclusive
  <2>2. \A s \in Semaphore : t \notin Members(semQueue[s])
    BY <1>3, Zenon DEF ProgramInv, QueuesExclusive
  <2> QED
    BY <1>1, <1>3, <1>4, <2>1, <2>2, InQueued
<1>7. level \in {"IntOn", "IntOff"}
  BY KernelFacts, Zenon DEF KernelTypeOK
<1>8. KP!Wake(t)
  BY <1>1, <1>6, <1>7, Zenon DEF ReadyToRun, Executing, KP!Wake, KP!ReadyToRun,
     KP!CanInterrupt, KP!Executing
<1>9. ProgramInv' /\ [KP!Next]_KP!vars
  BY <1>3, <1>5, <1>8, KernelKeeps, Zenon DEF KP!Next
<1> QED
  BY <1>1, <1>3, <1>4, <1>9, Zenon DEF t

--------------------------------------------------------------------------------

\* Programs begin in the kernel's initial state, with empty queues.
LEMMA ProgramStarts ==
  ASSUME NEW initialValue \in [Semaphore -> Nat], ProgramInit(initialValue)
  PROVE  ProgramInv /\ KP!Init
<1>1. SynchTypeOK
  BY ThreadAssumption DEF ProgramInit, SynchInit, SynchTypeOK
<1>2. /\ \A s \in Semaphore : Members(semQueue[s]) = {} /\ Distinct(semQueue[s])
      /\ \A c \in Condition : Members(condQueue[c]) = {} /\ Distinct(condQueue[c])
  BY DEF ProgramInit, SynchInit, Members, Distinct
<1>3. QueuesExclusive
  BY <1>2, Zenon DEF QueuesExclusive
<1>4. Queued = {}
  BY <1>2, InQueued, Zenon
<1>5. KP!Init
  BY <1>4, Zenon DEF ProgramInit, KernelInit, KP!Init, KP!KernelInit
<1>6. KP!IInv
  BY <1>5, ThreadAssumption DEF KP!Init, KP!KernelInit, KP!IInv, KP!TypeOK,
     KP!KernelTypeOK, KP!Lifetime, KP!ThreadStatus, KP!ResumePoint, KP!ReadyListExact,
     KP!NoThreadForgotten, KP!CarcassSafe, KP!CurrentThreadOK, KP!Executing
<1> QED
  BY <1>1, <1>3, <1>5, <1>6, Zenon DEF ProgramInv

\* The thread that makes a step is on no queue, and the others stay where they are.
LEMMA CallerMoves ==
  ASSUME ProgramInv, Executing, NEW S, pc \in [Thread -> S], NEW v \in S,
         pc' = [pc EXCEPT ![currentThread] = v]
  PROVE  /\ currentThread \in Thread
         /\ \A s \in Semaphore : currentThread \notin Members(semQueue[s])
         /\ \A c \in Condition : currentThread \notin Members(condQueue[c])
         /\ pc' \in [Thread -> S]
         /\ pc'[currentThread] = v
         /\ \A t \in Thread \ {currentThread} : pc'[t] = pc[t]
<1>1. currentThread \in Thread /\ currentThread \notin Queued
  BY KernelFacts, Zenon DEF KernelTypeOK
<1>2. /\ \A s \in Semaphore : currentThread \notin Members(semQueue[s])
      /\ \A c \in Condition : currentThread \notin Members(condQueue[c])
  BY <1>1, InQueued, Zenon
<1> QED
  BY <1>1, <1>2, Zenon

\* The first thread on the ready list is ready.
LEMMA HeadReady ==
  ASSUME ProgramInv, readyList # <<>>
  PROVE  Head(readyList) \in Thread /\ status[Head(readyList)] = "READY"
<1>1. /\ readyList \in Seq(Thread)
      /\ \A t \in Thread :
           status[t] = "READY" <=> \E i \in 1..Len(readyList) : readyList[i] = t
  BY KernelFacts, Zenon DEF KernelTypeOK, ProgramInv, KP!IInv, KP!ReadyListExact
<1>2. 1 \in 1..Len(readyList) /\ Head(readyList) = readyList[1] /\ readyList[1] \in Thread
  BY <1>1
<1> QED
  BY <1>1, <1>2, Zenon

================================================================================
