--------------------------- MODULE ThreadSystemProofs ---------------------------
(***************************************************************************)
(* The safety properties of ThreadSystem, for any set of threads.          *)
(***************************************************************************)
EXTENDS ThreadSystem, TLAPS

\* Time limits of the provers, in seconds, for a step that gives none.
USE SMTT(30), ZenonT(30)

\* What the safety properties need to be inductive: the current thread is never
\* one that has not been dispatched or is deleted, the machine idles only while
\* the current thread sleeps, and a finished thread stays off the ready list.
CurrentThreadOK ==
  /\ status[currentThread] \in {"RUNNING", "BLOCKED", "READY"}
  /\ machineStatus = "IdleMode" => status[currentThread] # "RUNNING"
  /\ \A t \in finished : status[t] \in {"BLOCKED", "DELETED"}

IInv ==
  /\ TypeOK
  /\ ReadyListExact
  /\ NoThreadForgotten
  /\ CarcassSafe
  /\ CurrentThreadOK

\* Scheduler::FindNextToRun: taking the head off a list without repetitions
\* leaves the other members, in order and still without repetitions.
LEMMA TailDistinct ==
  ASSUME NEW S, NEW s \in Seq(S), s # <<>>,
         \A i, j \in 1..Len(s) : s[i] = s[j] => i = j
  PROVE  /\ Head(s) \in S
         /\ Tail(s) \in Seq(S)
         /\ \A i, j \in 1..Len(Tail(s)) : Tail(s)[i] = Tail(s)[j] => i = j
         /\ \A x : (\E i \in 1..Len(Tail(s)) : Tail(s)[i] = x)
                     <=> x # Head(s) /\ \E i \in 1..Len(s) : s[i] = x
         /\ \E i \in 1..Len(s) : s[i] = Head(s)
<1>1. /\ Len(s) \in Nat /\ Len(s) > 0
      /\ Head(s) = s[1]
      /\ Tail(s) \in Seq(S)
      /\ Len(Tail(s)) = Len(s) - 1
      /\ \A i \in 1..(Len(s) - 1) : Tail(s)[i] = s[i + 1]
  OBVIOUS
<1>2. Head(s) \in S
  BY <1>1
<1>3. \A i, j \in 1..Len(Tail(s)) : Tail(s)[i] = Tail(s)[j] => i = j
  BY <1>1
<1>4. ASSUME NEW x
      PROVE  (\E i \in 1..Len(Tail(s)) : Tail(s)[i] = x)
               <=> x # Head(s) /\ \E i \in 1..Len(s) : s[i] = x
  <2>1. ASSUME NEW i \in 1..Len(Tail(s)), Tail(s)[i] = x
        PROVE  x # Head(s) /\ \E k \in 1..Len(s) : s[k] = x
    BY <1>1, <2>1
  <2>2. ASSUME NEW i \in 1..Len(s), s[i] = x, x # Head(s)
        PROVE  \E k \in 1..Len(Tail(s)) : Tail(s)[k] = x
    <3>1. i - 1 \in 1..Len(Tail(s)) /\ Tail(s)[i - 1] = x
      BY <1>1, <2>2
    <3> QED
      BY <3>1
  <2> QED
    BY <2>1, <2>2
<1> QED
  BY <1>1, <1>2, <1>3, <1>4

\* List::Append of something the list does not hold.
LEMMA AppendDistinct ==
  ASSUME NEW S, NEW s \in Seq(S), NEW e \in S,
         \A i, j \in 1..Len(s) : s[i] = s[j] => i = j,
         ~ \E i \in 1..Len(s) : s[i] = e
  PROVE  /\ Append(s, e) \in Seq(S)
         /\ \A i, j \in 1..Len(Append(s, e)) : Append(s, e)[i] = Append(s, e)[j] => i = j
         /\ \A x : (\E i \in 1..Len(Append(s, e)) : Append(s, e)[i] = x)
                     <=> x = e \/ \E i \in 1..Len(s) : s[i] = x
<1>1. /\ Len(s) \in Nat
      /\ Append(s, e) \in Seq(S)
      /\ Len(Append(s, e)) = Len(s) + 1
      /\ \A i \in 1..Len(s) : Append(s, e)[i] = s[i]
      /\ Append(s, e)[Len(s) + 1] = e
  OBVIOUS
<1> QED
  BY <1>1

\* Scheduler::ReadyToRun puts a thread that was neither READY nor RUNNING on
\* the list exactly once.
LEMMA ReadyToRunExact ==
  ASSUME NEW t \in Thread, TypeOK, ReadyListExact, ReadyToRun(t),
         UNCHANGED currentThread, status[t] \notin {"READY", "RUNNING"}
  PROVE  /\ readyList' \in Seq(Thread)
         /\ status' \in [Thread -> Lifetime]
         /\ ReadyListExact'
<1> USE DEF TypeOK, KernelTypeOK, ReadyToRun
<1>1. status' \in [Thread -> Lifetime]
  BY DEF Lifetime, ThreadStatus
<1>2. ~ \E i \in 1..Len(readyList) : readyList[i] = t
  BY DEF ReadyListExact
<1>3. /\ readyList' \in Seq(Thread)
      /\ \A i, j \in 1..Len(readyList') : readyList'[i] = readyList'[j] => i = j
      /\ \A x : (\E i \in 1..Len(readyList') : readyList'[i] = x)
                  <=> x = t \/ \E i \in 1..Len(readyList) : readyList[i] = x
  BY <1>2, AppendDistinct DEF ReadyListExact
<1>4. \A u \in Thread :
        status'[u] = "READY" <=> \E i \in 1..Len(readyList') : readyList'[i] = u
  BY <1>3 DEF ReadyListExact
<1>5. \A u \in Thread : status'[u] = "RUNNING" => u = currentThread'
  BY DEF ReadyListExact
<1> QED
  BY <1>1, <1>3, <1>4, <1>5 DEF ReadyListExact

\* FindNextToRun on the ready list: what is left is duplicate-free and holds the
\* READY threads other than the one taken.
LEMMA FindNextToRunExact ==
  ASSUME TypeOK, ReadyListExact, readyList # <<>>
  PROVE  /\ Head(readyList) \in Thread
         /\ status[Head(readyList)] = "READY"
         /\ Tail(readyList) \in Seq(Thread)
         /\ \A i, j \in 1..Len(Tail(readyList)) :
              Tail(readyList)[i] = Tail(readyList)[j] => i = j
         /\ \A t \in Thread :
              (\E i \in 1..Len(Tail(readyList)) : Tail(readyList)[i] = t)
                <=> t # Head(readyList) /\ status[t] = "READY"
<1>1. /\ readyList \in Seq(Thread)
      /\ \A i, j \in 1..Len(readyList) : readyList[i] = readyList[j] => i = j
  BY DEF TypeOK, KernelTypeOK, ReadyListExact
<1>2. /\ Head(readyList) \in Thread
      /\ Tail(readyList) \in Seq(Thread)
      /\ \A i, j \in 1..Len(Tail(readyList)) :
           Tail(readyList)[i] = Tail(readyList)[j] => i = j
      /\ \A x : (\E i \in 1..Len(Tail(readyList)) : Tail(readyList)[i] = x)
                  <=> x # Head(readyList) /\ \E i \in 1..Len(readyList) : readyList[i] = x
      /\ \E i \in 1..Len(readyList) : readyList[i] = Head(readyList)
  BY <1>1, TailDistinct, Zenon
<1> QED
  BY <1>2, Zenon DEF ReadyListExact

\* What a context switch does to a well-formed kernel: the thread at the head of
\* the ready list becomes the current one, a carcass (if the switch returns into
\* Run) is deleted, and every other thread has the status the caller gave it.
LEMMA RunEffect ==
  ASSUME IInv, readyList # <<>>, NEW st \in [Thread -> Lifetime], NEW ready,
         Run(Head(readyList), st, ready)
  PROVE  /\ Head(readyList) \in Thread
         /\ status[Head(readyList)] = "READY"
         /\ currentThread' = Head(readyList)
         /\ readyList' = ready
         /\ status' \in [Thread -> Lifetime]
         /\ threadToBeDestroyed' \in {NoThread, threadToBeDestroyed}
         /\ level' \in {"IntOn", "IntOff"}
         /\ status'[Head(readyList)] = "RUNNING"
         /\ \A t \in Thread \ {Head(readyList)} :
              IF t = threadToBeDestroyed /\ threadToBeDestroyed' = NoThread
              THEN status'[t] = "DELETED" ELSE status'[t] = st[t]
<1> USE ThreadAssumption DEF IInv, TypeOK, KernelTypeOK
<1> DEFINE next == Head(readyList)
<1>1. next \in Thread /\ status[next] = "READY"
  BY FindNextToRunExact
<1>2. threadToBeDestroyed # next
  BY <1>1 DEF CarcassSafe
<1>3. CASE resume[next] = "ThreadRoot"
  <2>1. /\ status' = [t \in Thread |-> IF t = next THEN "RUNNING" ELSE st[t]]
        /\ threadToBeDestroyed' = threadToBeDestroyed
    BY <1>1, <1>3 DEF Run
  <2> QED
    BY <1>1, <2>1 DEF Run, Lifetime, ThreadStatus
<1>4. CASE resume[next] # "ThreadRoot"
  <2>1. /\ status' = [t \in Thread |-> IF t = threadToBeDestroyed THEN "DELETED"
                                       ELSE IF t = next THEN "RUNNING" ELSE st[t]]
        /\ threadToBeDestroyed' = NoThread
    BY <1>1, <1>4 DEF Run
  <2> QED
    BY <1>1, <1>2, <2>1 DEF Run, Lifetime, ThreadStatus
<1> QED
  BY <1>3, <1>4

\* Yield keeps the invariant.
LEMMA YieldStep == IInv /\ GiveUpCPU => IInv'
<1> SUFFICES ASSUME IInv, GiveUpCPU PROVE IInv'
  OBVIOUS
<1> USE ThreadAssumption
<1>1. CASE readyList = <<>>
  BY <1>1 DEF GiveUpCPU, Yield, kernelVars, IInv, TypeOK, KernelTypeOK,
     ReadyListExact, NoThreadForgotten, CarcassSafe, CurrentThreadOK, Executing
<1>2. CASE readyList # <<>>
  <2> DEFINE next == Head(readyList)
             st == [status EXCEPT ![currentThread] = "READY"]
             ready == Append(Tail(readyList), currentThread)
  <2>1. /\ st \in [Thread -> Lifetime]
        /\ Executing
        /\ Run(next, st, ready)
        /\ resume' = [resume EXCEPT ![currentThread] = "Yield"]
        /\ UNCHANGED <<machineStatus, waiting, finished>>
    BY <1>2 DEF GiveUpCPU, Yield, IInv, TypeOK, KernelTypeOK, Lifetime, ThreadStatus
  <2> HIDE DEF st, ready
  <2>2. /\ next \in Thread
        /\ status[next] = "READY"
        /\ currentThread' = next
        /\ readyList' = ready
        /\ status' \in [Thread -> Lifetime]
        /\ threadToBeDestroyed' \in {NoThread, threadToBeDestroyed}
        /\ level' \in {"IntOn", "IntOff"}
        /\ status'[next] = "RUNNING"
        /\ \A t \in Thread \ {next} :
             IF t = threadToBeDestroyed /\ threadToBeDestroyed' = NoThread
             THEN status'[t] = "DELETED" ELSE status'[t] = st[t]
    BY <1>2, <2>1, RunEffect
  <2>3. /\ currentThread # next
        /\ status[currentThread] = "RUNNING"
        /\ st[currentThread] = "READY"
        /\ \A t \in Thread \ {currentThread} : st[t] = status[t]
    BY <2>1, <2>2 DEF st, Executing, IInv, TypeOK, KernelTypeOK
  <2>4. /\ Tail(readyList) \in Seq(Thread)
        /\ \A i, j \in 1..Len(Tail(readyList)) :
             Tail(readyList)[i] = Tail(readyList)[j] => i = j
        /\ \A t \in Thread :
             (\E i \in 1..Len(Tail(readyList)) : Tail(readyList)[i] = t)
               <=> t # next /\ status[t] = "READY"
    BY <1>2, FindNextToRunExact DEF IInv
  <2>5. /\ currentThread \in Thread
        /\ ~ \E i \in 1..Len(Tail(readyList)) : Tail(readyList)[i] = currentThread
    BY <2>3, <2>4 DEF IInv, TypeOK, KernelTypeOK
  <2>6. /\ ready \in Seq(Thread)
        /\ \A i, j \in 1..Len(ready) : ready[i] = ready[j] => i = j
        /\ \A t \in Thread : (\E i \in 1..Len(ready) : ready[i] = t)
                               <=> \/ t = currentThread
                                   \/ t # next /\ status[t] = "READY"
    <3> DEFINE rest == Tail(readyList)
    <3> HIDE DEF rest
    <3>1. /\ rest \in Seq(Thread)
          /\ \A i, j \in 1..Len(rest) : rest[i] = rest[j] => i = j
          /\ ~ \E i \in 1..Len(rest) : rest[i] = currentThread
          /\ ready = Append(rest, currentThread)
      BY <2>4, <2>5 DEF rest, ready
    <3>2. /\ ready \in Seq(Thread)
          /\ \A i, j \in 1..Len(ready) : ready[i] = ready[j] => i = j
          /\ \A x : (\E i \in 1..Len(ready) : ready[i] = x)
               <=> x = currentThread \/ \E i \in 1..Len(rest) : rest[i] = x
      BY <2>5, <3>1, AppendDistinct
    <3> QED
      BY <3>2, <2>4, Zenon DEF rest
  <2>7. TypeOK'
    BY <2>1, <2>2, <2>6, ZenonT(60) DEF IInv, TypeOK, KernelTypeOK, ResumePoint
  <2>8. ReadyListExact'
    <3>1. \A t \in Thread : status'[t] = "READY" <=> t = currentThread \/ (t # next /\ status[t] = "READY")
      BY <2>2, <2>3 DEF IInv, CarcassSafe
    <3>2. \A t \in Thread : status'[t] = "RUNNING" => t = next
      BY <2>2, <2>3 DEF IInv, ReadyListExact
    <3> QED
      BY <2>2, <2>6, <3>1, <3>2 DEF ReadyListExact
  <2>9. NoThreadForgotten'
    BY <2>1, <2>2, <2>3 DEF IInv, NoThreadForgotten, CarcassSafe
  <2>10. CarcassSafe' /\ CurrentThreadOK'
    BY <2>1, <2>2, <2>3 DEF IInv, TypeOK, KernelTypeOK, CarcassSafe, CurrentThreadOK, Executing
  <2> QED
    BY <2>7, <2>8, <2>9, <2>10 DEF IInv
<1> QED
  BY <1>1, <1>2

\* The dispatch at the end of Sleep keeps the invariant.
LEMMA DispatchStep == IInv /\ SwitchFromSleeper => IInv'
<1> SUFFICES ASSUME IInv, SwitchFromSleeper PROVE IInv'
  OBVIOUS
<1> USE ThreadAssumption
<1> DEFINE next == Head(readyList)
<1>1. /\ status \in [Thread -> Lifetime]
      /\ readyList # <<>>
      /\ status[currentThread] # "RUNNING"
      /\ machineStatus = "SystemMode"
      /\ Run(next, status, Tail(readyList))
      /\ UNCHANGED <<resume, machineStatus, waiting, finished>>
  BY DEF SwitchFromSleeper, Dispatch, Sleeping, IInv, TypeOK, KernelTypeOK
<1>2. /\ next \in Thread
      /\ status[next] = "READY"
      /\ currentThread' = next
      /\ readyList' = Tail(readyList)
      /\ status' \in [Thread -> Lifetime]
      /\ threadToBeDestroyed' \in {NoThread, threadToBeDestroyed}
      /\ level' \in {"IntOn", "IntOff"}
      /\ status'[next] = "RUNNING"
      /\ \A t \in Thread \ {next} :
           IF t = threadToBeDestroyed /\ threadToBeDestroyed' = NoThread
           THEN status'[t] = "DELETED" ELSE status'[t] = status[t]
  BY <1>1, RunEffect, Zenon
<1>3. /\ Tail(readyList) \in Seq(Thread)
      /\ \A i, j \in 1..Len(Tail(readyList)) :
           Tail(readyList)[i] = Tail(readyList)[j] => i = j
      /\ \A t \in Thread :
           (\E i \in 1..Len(Tail(readyList)) : Tail(readyList)[i] = t)
             <=> t # next /\ status[t] = "READY"
  BY <1>1, FindNextToRunExact DEF IInv
<1>4. TypeOK'
  BY <1>1, <1>2, <1>3 DEF IInv, TypeOK, KernelTypeOK, ResumePoint
<1>5. ReadyListExact'
  <2>1. \A i, j \in 1..Len(readyList') : readyList'[i] = readyList'[j] => i = j
    BY <1>2, <1>3
  <2>2. \A t \in Thread : status'[t] = "READY" <=> t # next /\ status[t] = "READY"
    BY <1>2 DEF IInv, CarcassSafe
  <2>3. \A t \in Thread :
          status'[t] = "READY" <=> \E i \in 1..Len(readyList') : readyList'[i] = t
    BY <1>2, <1>3, <2>2
  <2>4. \A t \in Thread : status'[t] = "RUNNING" => t = currentThread'
    BY <1>1, <1>2 DEF IInv, ReadyListExact
  <2> QED
    BY <2>1, <2>3, <2>4, Zenon DEF ReadyListExact
<1>6. NoThreadForgotten'
  BY <1>1, <1>2 DEF IInv, NoThreadForgotten, CarcassSafe
<1>7. CarcassSafe' /\ CurrentThreadOK'
  BY <1>1, <1>2 DEF IInv, TypeOK, KernelTypeOK, CarcassSafe, CurrentThreadOK, Executing
<1> QED
  BY <1>4, <1>5, <1>6, <1>7 DEF IInv

\* Every other step keeps the invariant.
LEMMA NextStep == IInv /\ [Next]_vars => IInv'
<1> SUFFICES ASSUME IInv, [Next]_vars PROVE IInv'
  OBVIOUS
<1> USE ThreadAssumption
<1>1. ASSUME NEW t \in Thread, Create(t) PROVE IInv'
  BY <1>1 DEF Create, NewThread, Executing, IInv, TypeOK, KernelTypeOK, Lifetime,
     ThreadStatus, ReadyListExact, NoThreadForgotten, CarcassSafe, CurrentThreadOK
<1>2. ASSUME NEW t \in Thread, StartThread(t) PROVE IInv'
  <2>1. TypeOK' /\ ReadyListExact'
    BY <1>2, ReadyToRunExact DEF StartThread, Fork, IInv, TypeOK, KernelTypeOK, ResumePoint
  <2>2. NoThreadForgotten' /\ CarcassSafe' /\ CurrentThreadOK'
    BY <1>2 DEF StartThread, Fork, ReadyToRun, Executing, IInv, TypeOK, KernelTypeOK,
       NoThreadForgotten, CarcassSafe, CurrentThreadOK
  <2> QED
    BY <2>1, <2>2 DEF IInv
<1>3. ASSUME NEW t \in Thread, Wake(t) PROVE IInv'
  <2>1. status[t] = "BLOCKED" /\ t \notin finished
    BY <1>3 DEF Wake, IInv, NoThreadForgotten
  <2>2. TypeOK' /\ ReadyListExact'
    BY <1>3, <2>1, ReadyToRunExact DEF Wake, IInv, TypeOK, KernelTypeOK
  <2>3. NoThreadForgotten' /\ CarcassSafe' /\ CurrentThreadOK'
    BY <1>3, <2>1 DEF Wake, ReadyToRun, Executing, IInv, TypeOK, KernelTypeOK,
       NoThreadForgotten, CarcassSafe, CurrentThreadOK
  <2> QED
    BY <2>2, <2>3 DEF IInv
<1>4. CASE IntOff \/ IntOn
  BY <1>4 DEF IntOff, IntOn, DisableInterrupts, EnableInterrupts, Executing, IInv,
     TypeOK, KernelTypeOK, ReadyListExact, NoThreadForgotten, CarcassSafe, CurrentThreadOK
<1>5. CASE SleepOnQueue
  <2>1. Executing /\ currentThread \notin finished
    BY <1>5 DEF SleepOnQueue, Sleep, IInv, CarcassSafe
  <2>2. TypeOK' /\ ReadyListExact'
    BY <1>5, <2>1 DEF SleepOnQueue, Sleep, Executing, IInv, TypeOK, KernelTypeOK,
       Lifetime, ThreadStatus, ResumePoint, ReadyListExact
  <2>3. NoThreadForgotten' /\ CarcassSafe' /\ CurrentThreadOK'
    BY <1>5, <2>1 DEF SleepOnQueue, Sleep, Executing, IInv, TypeOK, KernelTypeOK,
       NoThreadForgotten, CarcassSafe, CurrentThreadOK
  <2> QED
    BY <2>2, <2>3 DEF IInv
<1>6. CASE Exit
  <2>1. TypeOK' /\ ReadyListExact'
    BY <1>6 DEF Exit, Finish, Executing, IInv, TypeOK, KernelTypeOK,
       Lifetime, ThreadStatus, ResumePoint, ReadyListExact
  <2>2. NoThreadForgotten' /\ CarcassSafe' /\ CurrentThreadOK'
    BY <1>6 DEF Exit, Finish, Executing, IInv, TypeOK, KernelTypeOK,
       NoThreadForgotten, CarcassSafe, CurrentThreadOK
  <2> QED
    BY <2>1, <2>2 DEF IInv
<1>7. CASE StartIdling \/ StopIdling \/ HaltMachine
  BY <1>7 DEF StartIdling, StopIdling, HaltMachine, Idle, IdleReturn, Halt, Sleeping,
     Executing, IInv, TypeOK, KernelTypeOK, ReadyListExact, NoThreadForgotten,
     CarcassSafe, CurrentThreadOK
<1>8. CASE Halted \/ UNCHANGED vars
  BY <1>8 DEF Halted, vars, Executing, IInv, TypeOK, KernelTypeOK, ReadyListExact,
     NoThreadForgotten, CarcassSafe, CurrentThreadOK
<1> QED
  BY <1>1, <1>2, <1>3, <1>4, <1>5, <1>6, <1>7, <1>8, YieldStep, DispatchStep DEF Next

\* The strengthened invariant holds in every reachable state.
THEOREM Invariance == Spec => []IInv
<1>1. Init => IInv
  BY ThreadAssumption DEF Init, KernelInit, IInv, TypeOK, KernelTypeOK, Lifetime,
     ThreadStatus, ResumePoint, ReadyListExact, NoThreadForgotten, CarcassSafe,
     CurrentThreadOK, Executing
<1> QED
  BY <1>1, NextStep, PTL DEF Spec

\* Type correctness of the thread kernel.
THEOREM TypeCorrect == Spec => []TypeOK
<1>1. IInv => TypeOK
  BY DEF IInv
<1> QED
  BY <1>1, Invariance, PTL

\* The ready list is exact: no thread is queued twice by Scheduler::ReadyToRun,
\* no READY thread is missing, and at most one thread runs.
THEOREM ReadyListCorrect == Spec => []ReadyListExact
<1>1. IInv => ReadyListExact
  BY DEF IInv
<1> QED
  BY <1>1, Invariance, PTL

\* No thread that Thread::Sleep put to sleep is lost to the kernel.
THEOREM SleepersCorrect == Spec => []NoThreadForgotten
<1>1. IInv => NoThreadForgotten
  BY DEF IInv
<1> QED
  BY <1>1, Invariance, PTL

\* Thread::Finish and the deletion in Scheduler::Run never delete or dispatch a
\* thread that is in use: the assertion in Thread::~Thread cannot fail.
THEOREM CarcassCorrect == Spec => []CarcassSafe
<1>1. IInv => CarcassSafe
  BY DEF IInv
<1> QED
  BY <1>1, Invariance, PTL

\* A thread that has called Thread::Finish is never scheduled again.
THEOREM FinishIsFinal == Spec => FinishedStaysFinished
<1> DEFINE Final(t) == /\ t \in finished'
                       /\ \/ status'[t] = status[t]
                          \/ /\ status[t] = "BLOCKED" /\ status'[t] = "DELETED"
                             /\ currentThread' # t
<1>1. ASSUME IInv, Next, NEW t \in finished PROVE Final(t)
  <2> USE ThreadAssumption
  <2>1. /\ t \in Thread /\ status[t] \in {"BLOCKED", "DELETED"} /\ t \notin waiting
        /\ Executing => currentThread # t
    BY <1>1 DEF IInv, TypeOK, NoThreadForgotten, CarcassSafe, CurrentThreadOK
  <2>2. status \in [Thread -> Lifetime] /\ currentThread \in Thread
    BY <1>1 DEF IInv, TypeOK, KernelTypeOK
  <2>3. ASSUME NEW u \in Thread, Create(u) \/ StartThread(u) \/ Wake(u) PROVE Final(t)
    BY <2>1, <2>2, <2>3 DEF Create, NewThread, StartThread, Fork, Wake, ReadyToRun
  <2>4. ASSUME GiveUpCPU, readyList # <<>> PROVE Final(t)
    <3> DEFINE st == [status EXCEPT ![currentThread] = "READY"]
    <3>1. /\ st \in [Thread -> Lifetime]
          /\ Run(Head(readyList), st, Append(Tail(readyList), currentThread))
          /\ UNCHANGED finished
          /\ st[t] = status[t]
      BY <2>1, <2>2, <2>4 DEF GiveUpCPU, Yield, Lifetime, ThreadStatus
    <3> HIDE DEF st
    <3>2. /\ status[Head(readyList)] = "READY"
          /\ currentThread' = Head(readyList)
          /\ \A u \in Thread \ {Head(readyList)} :
               IF u = threadToBeDestroyed /\ threadToBeDestroyed' = NoThread
               THEN status'[u] = "DELETED" ELSE status'[u] = st[u]
      BY <1>1, <2>4, <3>1, RunEffect
    <3> QED
      BY <2>1, <3>1, <3>2
  <2>5. ASSUME SwitchFromSleeper PROVE Final(t)
    <3>1. /\ readyList # <<>>
          /\ Run(Head(readyList), status, Tail(readyList))
          /\ UNCHANGED finished
      BY <2>5 DEF SwitchFromSleeper, Dispatch
    <3>2. /\ status[Head(readyList)] = "READY"
          /\ currentThread' = Head(readyList)
          /\ \A u \in Thread \ {Head(readyList)} :
               IF u = threadToBeDestroyed /\ threadToBeDestroyed' = NoThread
               THEN status'[u] = "DELETED" ELSE status'[u] = status[u]
      BY <1>1, <2>2, <3>1, RunEffect
    <3> QED
      BY <2>1, <3>1, <3>2
  <2>6. ASSUME SleepOnQueue \/ Exit PROVE Final(t)
    BY <2>1, <2>2, <2>6 DEF SleepOnQueue, Sleep, Exit, Finish
  <2>7. ASSUME GiveUpCPU, readyList = <<>> PROVE Final(t)
    BY <2>7 DEF GiveUpCPU, Yield, kernelVars
  <2>8. ASSUME IntOff \/ IntOn \/ StartIdling \/ StopIdling \/ HaltMachine \/ Halted
        PROVE  Final(t)
    BY <2>8 DEF IntOff, IntOn, DisableInterrupts, EnableInterrupts, StartIdling,
       StopIdling, HaltMachine, Idle, IdleReturn, Halt, Halted, vars
  <2> HIDE DEF Final
  <2> QED
    BY <1>1, <2>3, <2>4, <2>5, <2>6, <2>7, <2>8 DEF Next
<1>2. IInv /\ [Next]_vars => [FinishedKept]_vars
  BY <1>1 DEF FinishedKept
<1> QED
  BY <1>2, Invariance, PTL DEF Spec, FinishedStaysFinished

================================================================================
