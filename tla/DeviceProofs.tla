----------------------------- MODULE DeviceProofs ------------------------------
(***************************************************************************)
(* The two devices, with the code that waits for their interrupts:         *)
(* SynchDisk for any threads, sectors and data, where each step is one of  *)
(* SectorStore or none, and the console with its thread, for any           *)
(* characters.                                                             *)
(***************************************************************************)
EXTENDS SynchDisk, Console, SynchProofs

\* Time limits of the provers, in seconds, for a step that gives none.
USE SMTT(30), ZenonT(30)

(***************************************************************************)
(* SynchDisk.                                                              *)
(***************************************************************************)

\* The places at which a thread waits for the device, and those at which it has
\* the lock.
DiskWait == {"Wait"} \X DiskOp \X Data
DiskLocked == ({"Request"} \X DiskOp) \cup ({"Wait", "Release"} \X DiskOp \X Data)

\* A completion is on its way exactly as long as a thread waits for it, and the
\* lock lets one thread wait at a time.
DInv ==
  /\ ProgramInv
  /\ pc \in [Thread -> {<<>>} \cup DiskCall]
  /\ disk \in [Sector -> Data] /\ active \in BOOLEAN
  /\ \A t \in Thread : pc[t] \in DiskLocked => heldThread[diskLock] = t
  /\ \A t \in Thread : t \in Members(semQueue[semaphore]) => pc[t] \in DiskWait
  /\ (\E t \in Thread : pc[t] \in DiskWait) =>
       (value[semaphore] = 1 /\ ~ active) \/ (value[semaphore] = 0 /\ active)
  /\ (\A t \in Thread : pc[t] \notin DiskWait) => value[semaphore] = 0 /\ ~ active

\* What the store sees of a step.
StoreStep == Store!StoreNext \/ StoreUnchanged

\* Where in the routines the lock is held, and where the answer is awaited.
LEMMA DiskPlaces ==
  /\ DiskWait \subseteq DiskLocked /\ DiskLocked \subseteq DiskCall
  /\ <<>> \notin DiskLocked /\ <<>> \notin DiskWait
  /\ \A op \in DiskOp :
       /\ <<"Acquire", op>> \in DiskCall /\ <<"Acquire", op>> \notin DiskLocked
       /\ <<"Request", op>> \in DiskLocked /\ <<"Request", op>> \notin DiskWait
  /\ \A op \in DiskOp, d \in Data :
       /\ <<"Wait", op, d>> \in DiskWait
       /\ <<"Release", op, d>> \in DiskLocked /\ <<"Release", op, d>> \notin DiskWait
<1>1. /\ DiskWait \subseteq DiskLocked /\ DiskLocked \subseteq DiskCall
      /\ \A op \in DiskOp : <<"Acquire", op>> \in DiskCall /\ <<"Request", op>> \in DiskLocked
      /\ \A op \in DiskOp, d \in Data :
           <<"Wait", op, d>> \in DiskWait /\ <<"Release", op, d>> \in DiskLocked
  BY Zenon DEF DiskWait, DiskLocked, DiskCall
<1>2. <<>> \notin DiskLocked /\ <<>> \notin DiskWait
  BY DEF DiskWait, DiskLocked
<1>3. \A op \in DiskOp : <<"Acquire", op>> \notin DiskLocked /\ <<"Request", op>> \notin DiskWait
  BY Zenon DEF DiskWait, DiskLocked
<1>4. \A op \in DiskOp, d \in Data : <<"Release", op, d>> \notin DiskWait
  BY Zenon DEF DiskWait
<1> QED
  BY <1>1, <1>2, <1>3, <1>4, Zenon

\* What the store sees of a thread, in this state and in the next.
LEMMA ClientIs ==
  /\ \A t \in Thread : pc[t] = <<>> => Client(t) = [phase |-> "idle"]
  /\ \A t \in Thread : pc'[t] = <<>> => Client(t)' = [phase |-> "idle"]
  /\ \A t \in Thread, op \in DiskOp : pc[t] \in {<<"Acquire", op>>, <<"Request", op>>}
       => Client(t) = [phase |-> "invoked", op |-> op]
  /\ \A t \in Thread, op \in DiskOp : pc'[t] \in {<<"Acquire", op>>, <<"Request", op>>}
       => Client(t)' = [phase |-> "invoked", op |-> op]
  /\ \A t \in Thread, op \in DiskOp, d \in Data : pc[t] = <<"Wait", op, d>>
       => Client(t) = [phase |-> IF active THEN "performed" ELSE "done", op |-> op, result |-> d]
  /\ \A t \in Thread, op \in DiskOp, d \in Data : pc'[t] = <<"Wait", op, d>>
       => Client(t)' = [phase |-> IF active' THEN "performed" ELSE "done", op |-> op, result |-> d]
  /\ \A t \in Thread, op \in DiskOp, d \in Data : pc[t] = <<"Release", op, d>>
       => Client(t) = [phase |-> "done", op |-> op, result |-> d]
  /\ \A t \in Thread, op \in DiskOp, d \in Data : pc'[t] = <<"Release", op, d>>
       => Client(t)' = [phase |-> "done", op |-> op, result |-> d]
<1>1. \A op : <<"Acquire", op>> # <<>> /\ <<"Request", op>> # <<>>
  BY Zenon
<1>2. \A op, d : <<"Wait", op, d>> # <<>> /\ <<"Release", op, d>> # <<>>
  BY Zenon
<1>3. /\ \A t \in Thread : pc[t] = <<>> => Client(t) = [phase |-> "idle"]
      /\ \A t \in Thread : pc'[t] = <<>> => Client(t)' = [phase |-> "idle"]
  BY Zenon DEF Client
<1>4. ASSUME NEW t \in Thread, NEW op \in DiskOp
      PROVE  /\ pc[t] \in {<<"Acquire", op>>, <<"Request", op>>}
                  => Client(t) = [phase |-> "invoked", op |-> op]
             /\ pc'[t] \in {<<"Acquire", op>>, <<"Request", op>>}
                  => Client(t)' = [phase |-> "invoked", op |-> op]
  BY <1>1 DEF Client
<1>5. ASSUME NEW t \in Thread, NEW op \in DiskOp, NEW d \in Data, pc[t] = <<"Wait", op, d>>
      PROVE  Client(t) = [phase |-> IF active THEN "performed" ELSE "done",
                          op |-> op, result |-> d]
  BY <1>2, <1>5 DEF Client
<1>6. ASSUME NEW t \in Thread, NEW op \in DiskOp, NEW d \in Data, pc'[t] = <<"Wait", op, d>>
      PROVE  Client(t)' = [phase |-> IF active' THEN "performed" ELSE "done",
                           op |-> op, result |-> d]
  BY <1>2, <1>6 DEF Client
<1>7. ASSUME NEW t \in Thread, NEW op \in DiskOp, NEW d \in Data
      PROVE  /\ pc[t] = <<"Release", op, d>>
                  => Client(t) = [phase |-> "done", op |-> op, result |-> d]
             /\ pc'[t] = <<"Release", op, d>>
                  => Client(t)' = [phase |-> "done", op |-> op, result |-> d]
  BY <1>2 DEF Client
<1> QED
  BY <1>3, <1>4, <1>5, <1>6, <1>7

\* The store sees nothing of a thread that stays where it is, unless the device
\* finishes or takes up its request.
LEMMA ClientKept ==
  ASSUME NEW t \in Thread, pc'[t] = pc[t], pc[t] \in {<<>>} \cup DiskCall,
         active' = active \/ pc[t] \notin DiskWait
  PROVE  Client(t)' = Client(t)
<1>1. CASE active' = active
  BY <1>1, ZenonT(60) DEF Client
<1>2. CASE pc[t] \notin DiskWait /\ pc[t] # <<>>
  <2>1. pc[t][1] # "Wait"
    BY <1>2, Zenon DEF DiskWait, DiskCall
  <2> QED
    BY <2>1, Zenon DEF Client
<1>3. CASE pc[t] = <<>>
  BY <1>3, Zenon DEF Client
<1> QED
  BY <1>1, <1>2, <1>3, Zenon

\* A step of the store that changes one thread's part of it.
LEMMA ClientsBut ==
  ASSUME NEW u \in Thread, \A t \in Thread \ {u} : Client(t)' = Client(t)
  PROVE  [t \in Thread |-> Client(t)]' =
           [[t \in Thread |-> Client(t)] EXCEPT ![u] = Client(u)']
BY ZenonT(60)

\* Steps in which the threads stay where they are, and the device too.
LEMMA DiskQuietStep ==
  ASSUME SynchDiskAssumption, DInv, ProgramInv', UNCHANGED <<pc, heldThread, value, semQueue, disk, active>>
  PROVE  DInv' /\ StoreStep
<1>1. DInv'
  BY Zenon DEF DInv
<1>2. StoreUnchanged
  BY ClientKept, Zenon DEF DInv, StoreUnchanged, Busy
<1> QED
  BY <1>1, <1>2, Zenon DEF StoreStep

\* A step of a thread that neither starts nor stops waiting for the device.
LEMMA DiskCallerStep ==
  ASSUME SynchDiskAssumption, DInv, ProgramInv', Executing, NEW v \in {<<>>} \cup DiskCall,
         pc' = [pc EXCEPT ![currentThread] = v],
         UNCHANGED <<value, semQueue, disk, active>>,
         pc[currentThread] \notin DiskWait, v \notin DiskWait,
         \A t \in Thread \ {currentThread} :
           heldThread[diskLock] = t => heldThread'[diskLock] = t,
         v \in DiskLocked => heldThread'[diskLock] = currentThread
  PROVE  /\ DInv' /\ currentThread \in Thread /\ pc'[currentThread] = v
         /\ \A t \in Thread \ {currentThread} : Client(t)' = Client(t)
<1>1. /\ currentThread \in Thread
      /\ currentThread \notin Members(semQueue[semaphore])
      /\ pc' \in [Thread -> {<<>>} \cup DiskCall]
      /\ pc'[currentThread] = v
      /\ \A t \in Thread \ {currentThread} : pc'[t] = pc[t]
  BY CallerMoves, ZenonT(60) DEF DInv, SynchDiskAssumption
<1>2. \A t \in Thread : pc'[t] \in DiskLocked => heldThread'[diskLock] = t
  BY <1>1, Zenon DEF DInv
<1>3. \A t \in Thread : t \in Members(semQueue'[semaphore]) => pc'[t] \in DiskWait
  BY <1>1, Zenon DEF DInv
<1>4. \A t \in Thread : pc'[t] \in DiskWait <=> pc[t] \in DiskWait
  BY <1>1, Zenon
<1>5. /\ (\E t \in Thread : pc'[t] \in DiskWait) =>
           (value'[semaphore] = 1 /\ ~ active') \/ (value'[semaphore] = 0 /\ active')
      /\ (\A t \in Thread : pc'[t] \notin DiskWait) => value'[semaphore] = 0 /\ ~ active'
  BY <1>4, Zenon DEF DInv
<1>6. disk' \in [Sector -> Data] /\ active' \in BOOLEAN
  BY Zenon DEF DInv
<1>7. DInv'
  BY <1>1, <1>2, <1>3, <1>5, <1>6, Zenon DEF DInv
<1>8. \A t \in Thread \ {currentThread} : Client(t)' = Client(t)
  BY <1>1, ClientKept, ZenonT(60) DEF DInv
<1> QED
  BY <1>1, <1>7, <1>8, ZenonT(60)

\* While the device works, the thread waiting for it holds the lock.
LEMMA DiskHolder ==
  ASSUME SynchDiskAssumption, DInv, active
  PROVE  heldThread[diskLock] \in Thread /\ pc[heldThread[diskLock]] \in DiskWait
<1>1. PICK w \in Thread : pc[w] \in DiskWait
  BY Zenon DEF DInv
<1> QED
  BY <1>1, DiskPlaces, Zenon DEF DInv

\* ... so that a thread which holds the lock and does not wait finds it idle.
LEMMA DiskIdle ==
  ASSUME SynchDiskAssumption, DInv, NEW u \in Thread, pc[u] \in DiskLocked, pc[u] \notin DiskWait
  PROVE  ~ active /\ value[semaphore] = 0 /\ \A t \in Thread : pc[t] \notin DiskWait
<1>1. \A t \in Thread : pc[t] \notin DiskWait
  BY DiskPlaces, Zenon DEF DInv
<1> QED
  BY <1>1, Zenon DEF DInv

\* A fork, an exit, a time slice, a step of the scheduler or a halt.
LEMMA DiskKernelStep ==
  ASSUME SynchDiskAssumption, DInv, DiskOtherStep PROVE DInv' /\ StoreStep
BY SharedStep, DiskQuietStep, ZenonT(60) DEF DInv, synchVars, DiskOtherStep, diskVars

\* ReadSector or WriteSector is called.
LEMMA DiskCallDisk ==
  ASSUME SynchDiskAssumption, DInv, NEW op \in DiskOp, CallDisk(op) PROVE DInv' /\ StoreStep
<1>1. /\ Executing /\ UNCHANGED kernelVars /\ UNCHANGED synchVars /\ UNCHANGED finished
      /\ pc[currentThread] = <<>> /\ pc' = [pc EXCEPT ![currentThread] = <<"Acquire", op>>]
      /\ UNCHANGED <<disk, active>>
  BY Zenon DEF CallDisk, Enter, Executing, InCall, Goto, diskVars, kernelVars, synchVars
<1>2. SynchTypeOK' /\ UNCHANGED <<value, semQueue, condQueue, heldThread>>
  BY <1>1, Zenon DEF DInv, ProgramInv, SynchTypeOK, synchVars
<1>3. ProgramInv'
  BY <1>1, <1>2, RunningStep, Zenon DEF DInv
<1>4. <<"Acquire", op>> \in DiskCall /\ <<"Acquire", op>> \notin DiskLocked
      /\ <<"Acquire", op>> \notin DiskWait /\ <<>> \notin DiskWait
  BY DiskPlaces, ZenonT(60)
<1>5. /\ DInv' /\ currentThread \in Thread /\ pc'[currentThread] = <<"Acquire", op>>
      /\ \A t \in Thread \ {currentThread} : Client(t)' = Client(t)
  BY <1>1, <1>2, <1>3, <1>4, DiskCallerStep, Zenon
<1>6. PICK u \in Thread : u = currentThread
  BY <1>5, Zenon
<1>7. Client(u) = [phase |-> "idle"] /\ Client(u)' = [phase |-> "invoked", op |-> op]
  BY <1>1, <1>5, <1>6, ClientIs, ZenonT(60)
<1>8. [t \in Thread |-> Client(t)]' =
        [[t \in Thread |-> Client(t)] EXCEPT ![u] = [phase |-> "invoked", op |-> op]]
  BY <1>5, <1>6, <1>7, ClientsBut, Zenon
<1>9. Store!Invoke(u, op)
  BY <1>1, <1>2, <1>7, <1>8, Zenon DEF Store!Invoke, Store!Idle, Busy
<1>10. Store!Op = DiskOp
  BY Zenon DEF Store!Op, DiskOp
<1> QED
  BY <1>5, <1>9, <1>10, ZenonT(60) DEF StoreStep, Store!StoreNext

\* lock->Acquire(): nobody comes in while the device works.
LEMMA DiskAcquire ==
  ASSUME SynchDiskAssumption, DInv, NEW op \in DiskOp, AcquireDisk(op) PROVE DInv' /\ StoreStep
<1>1. /\ pc[currentThread] = <<"Acquire", op>> /\ UNCHANGED finished
      /\ UNCHANGED <<disk, active>>
  BY Zenon DEF AcquireDisk, InCall, diskVars
<1>2. CASE AcquireYield(diskLock) /\ UNCHANGED pc
  <2>1. Yield /\ UNCHANGED synchVars
    BY <1>2, Zenon DEF AcquireYield
  <2>2. SynchTypeOK' /\ UNCHANGED <<value, semQueue, condQueue, heldThread>>
    BY <2>1, Zenon DEF DInv, ProgramInv, SynchTypeOK, synchVars
  <2>3. ProgramInv'
    BY <1>1, <2>1, <2>2, RunningStep, Zenon DEF DInv
  <2> QED
    BY <1>1, <1>2, <2>2, <2>3, DiskQuietStep, Zenon
<1>3. CASE AcquireTake(diskLock) /\ Goto(<<"Request", op>>)
  <2>1. /\ Executing /\ UNCHANGED kernelVars /\ UNCHANGED <<value, semQueue, condQueue>>
        /\ heldThread[diskLock] = NoThread \/ heldThread[diskLock] = currentThread
        /\ heldThread' = [heldThread EXCEPT ![diskLock] = currentThread]
    BY <1>3, Zenon DEF AcquireTake, isHeldByCurrentThread
  <2>2. pc' = [pc EXCEPT ![currentThread] = <<"Request", op>>]
    BY <1>3, Zenon DEF Goto
  <2>3. currentThread \in Thread /\ heldThread \in [Lock -> Thread \cup {NoThread}]
    BY KernelFacts, Zenon DEF DInv, KernelTypeOK, ProgramInv, SynchTypeOK
  <2>4. SynchTypeOK'
    BY <2>1, <2>3, ZenonT(60) DEF DInv, ProgramInv, SynchTypeOK
  <2>5. ProgramInv'
    BY <1>1, <2>1, <2>4, RunningStep, Zenon DEF DInv
  <2>6. heldThread'[diskLock] = currentThread
    BY <2>1, <2>3, Zenon DEF SynchDiskAssumption
  <2>7. \A t \in Thread \ {currentThread} : heldThread[diskLock] = t => heldThread'[diskLock] = t
    BY <2>1, <2>3, ThreadAssumption, Zenon
  <2>8. /\ <<"Request", op>> \in DiskCall /\ <<"Request", op>> \notin DiskWait
        /\ <<"Acquire", op>> \notin DiskWait
    BY DiskPlaces, Zenon
  <2>9. /\ DInv' /\ pc'[currentThread] = <<"Request", op>>
        /\ \A t \in Thread \ {currentThread} : Client(t)' = Client(t)
    BY <1>1, <2>1, <2>2, <2>5, <2>6, <2>7, <2>8, DiskCallerStep, ZenonT(60)
  <2>10. PICK u \in Thread : u = currentThread
    BY <2>3, Zenon
  <2>11. Client(u)' = Client(u)
    <3>1. pc[u] \in {<<"Acquire", op>>, <<"Request", op>>}
      BY <1>1, <2>10, Zenon
    <3>2. pc'[u] \in {<<"Acquire", op>>, <<"Request", op>>}
      BY <2>9, <2>10, Zenon
    <3>3. Client(u) = [phase |-> "invoked", op |-> op]
      BY <3>1, ClientIs, ZenonT(60)
    <3>4. Client(u)' = [phase |-> "invoked", op |-> op]
      BY <3>2, ClientIs, ZenonT(60)
    <3> QED
      BY <3>3, <3>4, Zenon
  <2>12. Busy' = Busy
    <3>1. active => heldThread[diskLock] = currentThread
      BY <2>1, DiskHolder, ThreadAssumption, Zenon
    <3> QED
      BY <1>1, <2>6, <3>1, Zenon DEF Busy
  <2>13. StoreUnchanged
    BY <1>1, <2>9, <2>10, <2>11, <2>12, Zenon DEF StoreUnchanged
  <2> QED
    BY <2>9, <2>13, Zenon DEF StoreStep
<1> QED
  BY <1>2, <1>3, Zenon DEF AcquireDisk

\* Disk::ReadRequest or WriteRequest: the device is idle, as it asserts, and the
\* sector and the buffer have their new contents at once.
LEMMA DiskRequest ==
  ASSUME SynchDiskAssumption, DInv, NEW op \in DiskOp, Request(op) PROVE DInv' /\ StoreStep
<1> DEFINE d == Transfer(op)
<1>1. /\ pc[currentThread] = <<"Request", op>> /\ UNCHANGED finished
      /\ DisableInterrupts /\ UNCHANGED synchVars
      /\ pc' = [pc EXCEPT ![currentThread] = <<"Wait", op, d>>]
      /\ disk' = [disk EXCEPT ![op.sector] = d]
      /\ active' = TRUE
  BY Zenon DEF Request, InCall, Goto, synchVars
<1>2. op.sector \in Sector /\ op.data \in Data
  BY Zenon DEF DiskOp
<1>3. d \in Data
  BY <1>2, Zenon DEF DInv, Transfer
<1>4. d = Store!Effect(op)
  BY Zenon DEF Transfer, Store!Effect
<1> HIDE DEF d
<1>5. SynchTypeOK' /\ UNCHANGED <<value, semQueue, condQueue, heldThread>>
  BY <1>1, Zenon DEF DInv, ProgramInv, SynchTypeOK, synchVars
<1>6. ProgramInv' /\ Executing
  BY <1>1, <1>5, RunningStep, Zenon DEF DInv, DisableInterrupts
<1>7. <<"Wait", op, d>> \in DiskWait /\ <<"Wait", op, d>> \in DiskCall
  BY <1>3, DiskPlaces, Zenon
<1>8. /\ currentThread \in Thread
      /\ currentThread \notin Members(semQueue[semaphore])
      /\ pc' \in [Thread -> {<<>>} \cup DiskCall]
      /\ pc'[currentThread] = <<"Wait", op, d>>
      /\ \A t \in Thread \ {currentThread} : pc'[t] = pc[t]
  BY <1>1, <1>6, <1>7, CallerMoves, ZenonT(60) DEF DInv, SynchDiskAssumption
<1>9. /\ ~ active /\ value[semaphore] = 0 /\ \A t \in Thread : pc[t] \notin DiskWait
      /\ heldThread[diskLock] = currentThread
  BY <1>1, <1>8, DiskIdle, DiskPlaces, ZenonT(60) DEF DInv
<1>10. \A t \in Thread : pc'[t] \in DiskLocked => heldThread'[diskLock] = t
  BY <1>5, <1>8, <1>9, Zenon DEF DInv
<1>11. \A t \in Thread : t \in Members(semQueue'[semaphore]) => pc'[t] \in DiskWait
  BY <1>5, <1>8, <1>9, Zenon DEF DInv
<1>12. value'[semaphore] = 0 /\ active' /\ pc'[currentThread] \in DiskWait
  BY <1>1, <1>5, <1>7, <1>8, <1>9, ZenonT(60)
<1>13. disk' \in [Sector -> Data] /\ active' \in BOOLEAN
  BY <1>1, <1>3, ZenonT(60) DEF DInv
<1>14. DInv'
  BY <1>6, <1>8, <1>10, <1>11, <1>12, <1>13, Zenon DEF DInv
<1>15. PICK u \in Thread : u = currentThread
  BY <1>8, Zenon
<1>16. /\ Client(u) = [phase |-> "invoked", op |-> op]
       /\ Client(u)' = [phase |-> "performed", op |-> op, result |-> d]
  <2>1. pc[u] \in {<<"Acquire", op>>, <<"Request", op>>} /\ pc'[u] = <<"Wait", op, d>>
    BY <1>1, <1>8, <1>15, ZenonT(60)
  <2>2. Client(u) = [phase |-> "invoked", op |-> op]
    BY <2>1, ClientIs, Zenon
  <2>3. Client(u)' = [phase |-> "performed", op |-> op, result |-> d]
    BY <1>1, <1>3, <2>1, ClientIs, ZenonT(60)
  <2> QED
    BY <2>2, <2>3, Zenon
<1>17. \A t \in Thread \ {u} : Client(t)' = Client(t)
  BY <1>8, <1>9, <1>15, ClientKept, ZenonT(60) DEF DInv
<1>18. [t \in Thread |-> Client(t)]' =
         [[t \in Thread |-> Client(t)] EXCEPT
            ![u] = [phase |-> "performed", op |-> op, result |-> d]]
  BY <1>16, <1>17, ClientsBut, ZenonT(60)
<1>19. Busy = NoThread /\ Busy' = u
  BY <1>1, <1>5, <1>9, <1>15, Zenon DEF Busy
<1>20. /\ [t \in Thread |-> Client(t)][u].phase = "invoked"
       /\ [t \in Thread |-> Client(t)][u].op = op
  BY <1>16
<1>21. Store!Perform(u)
  BY <1>1, <1>4, <1>18, <1>19, <1>20, ZenonT(60) DEF Store!Perform
<1> QED
  BY <1>14, <1>21, Zenon DEF StoreStep, Store!StoreNext

\* semaphore->P(), called by the thread whose request the device has.
LEMMA DiskWaitForInterrupt ==
  ASSUME SynchDiskAssumption, DInv, NEW op \in DiskOp, NEW d \in Data, WaitForInterrupt(op, d)
  PROVE  DInv' /\ StoreStep
<1>1. /\ pc[currentThread] = <<"Wait", op, d>> /\ UNCHANGED finished
      /\ UNCHANGED <<disk, active>>
  BY Zenon DEF WaitForInterrupt, InCall, diskVars
<1>2. currentThread \in Thread
  BY KernelFacts, Zenon DEF DInv, KernelTypeOK
<1>3. /\ pc[currentThread] \in DiskWait /\ pc[currentThread] \in DiskLocked
      /\ heldThread[diskLock] = currentThread
      /\ \A t \in Thread \ {currentThread} : pc[t] \notin DiskLocked
  BY <1>1, <1>2, DiskPlaces, ZenonT(60) DEF DInv
<1>4. CASE PSleep(semaphore) /\ UNCHANGED pc
  <2>1. /\ ProgramInv' /\ UNCHANGED <<value, heldThread>>
        /\ Members(semQueue'[semaphore]) = Members(semQueue[semaphore]) \cup {currentThread}
    BY <1>1, <1>4, SleepInP, ZenonT(60) DEF DInv, SynchDiskAssumption
  <2>2. \A t \in Thread : t \in Members(semQueue'[semaphore]) => pc'[t] \in DiskWait
    BY <1>3, <1>4, <2>1, ZenonT(60) DEF DInv
  <2>3. DInv'
    BY <1>1, <1>4, <2>1, <2>2, ZenonT(60) DEF DInv
  <2>4. StoreUnchanged
    BY <1>1, <1>4, <2>1, ClientKept, ZenonT(60) DEF DInv, StoreUnchanged, Busy
  <2> QED
    BY <2>3, <2>4, Zenon DEF StoreStep
<1>5. CASE PTake(semaphore) /\ Goto(<<"Release", op, d>>)
  <2>1. /\ value[semaphore] > 0 /\ value' = [value EXCEPT ![semaphore] = @ - 1]
        /\ EnableInterrupts /\ Executing
        /\ UNCHANGED <<semQueue, heldThread, condQueue>>
        /\ pc' = [pc EXCEPT ![currentThread] = <<"Release", op, d>>]
    BY <1>5, Zenon DEF PTake, Goto, EnableInterrupts
  <2>2. value[semaphore] = 1 /\ ~ active
    BY <1>2, <1>3, <2>1 DEF DInv
  <2>3. value' \in [Semaphore -> Nat] /\ value'[semaphore] = 0
    BY <2>1, <2>2 DEF DInv, ProgramInv, SynchTypeOK, SynchDiskAssumption
  <2>4. SynchTypeOK'
    BY <2>1, <2>3, Zenon DEF DInv, ProgramInv, SynchTypeOK
  <2>5. ProgramInv'
    BY <1>1, <2>1, <2>4, RunningStep, Zenon DEF DInv
  <2>6. <<"Release", op, d>> \in DiskCall /\ <<"Release", op, d>> \notin DiskWait
    BY DiskPlaces, Zenon
  <2>7. /\ currentThread \notin Members(semQueue[semaphore])
        /\ pc' \in [Thread -> {<<>>} \cup DiskCall]
        /\ pc'[currentThread] = <<"Release", op, d>>
        /\ \A t \in Thread \ {currentThread} : pc'[t] = pc[t]
    BY <2>1, <2>6, CallerMoves, ZenonT(60) DEF DInv, SynchDiskAssumption
  <2>8. \A t \in Thread : pc'[t] \in DiskLocked => heldThread'[diskLock] = t
    BY <1>3, <2>1, <2>7, Zenon
  <2>9. \A t \in Thread : pc'[t] \notin DiskWait
    BY <1>3, <2>6, <2>7, DiskPlaces, ZenonT(60)
  <2>10. \A t \in Thread : t \notin Members(semQueue'[semaphore])
    BY <1>3, <2>1, <2>7, DiskPlaces, Zenon DEF DInv
  <2>11. DInv'
    BY <1>1, <2>2, <2>3, <2>5, <2>7, <2>8, <2>9, <2>10, ZenonT(60) DEF DInv
  <2>12. PICK u \in Thread : u = currentThread
    BY <1>2, Zenon
  <2>13. Client(u) = [phase |-> "done", op |-> op, result |-> d]
    <3>1. pc[u] = <<"Wait", op, d>>
      BY <1>1, <2>12, Zenon
    <3> QED
      BY <2>2, <3>1, ClientIs, ZenonT(60)
  <2>14. Client(u)' = [phase |-> "done", op |-> op, result |-> d]
    <3>1. pc'[u] = <<"Release", op, d>>
      BY <2>7, <2>12, Zenon
    <3> QED
      BY <3>1, ClientIs, ZenonT(60)
  <2>15. \A t \in Thread \ {u} : Client(t)' = Client(t)
    BY <1>1, <2>7, <2>12, ClientKept, ZenonT(60) DEF DInv
  <2>16. StoreUnchanged
    BY <1>1, <2>1, <2>13, <2>14, <2>15, Zenon DEF StoreUnchanged, Busy
  <2> QED
    BY <2>11, <2>16, Zenon DEF StoreStep
<1> QED
  BY <1>4, <1>5, Zenon DEF WaitForInterrupt

\* lock->Release(), and the call returns.
LEMMA DiskRelease ==
  ASSUME SynchDiskAssumption, DInv, NEW op \in DiskOp, NEW d \in Data, ReleaseDisk(op, d)
  PROVE  DInv' /\ StoreStep
<1>1. /\ pc[currentThread] = <<"Release", op, d>> /\ UNCHANGED finished
      /\ UNCHANGED <<disk, active>>
      /\ pc' = [pc EXCEPT ![currentThread] = <<>>]
      /\ Executing /\ UNCHANGED kernelVars /\ UNCHANGED <<value, semQueue, condQueue>>
      /\ heldThread' = Released(diskLock)
  BY Zenon DEF ReleaseDisk, InCall, diskVars, Goto, Release
<1>2. currentThread \in Thread /\ heldThread \in [Lock -> Thread \cup {NoThread}]
  BY KernelFacts, Zenon DEF DInv, KernelTypeOK, ProgramInv, SynchTypeOK
<1>3. /\ heldThread' \in [Lock -> Thread \cup {NoThread}]
      /\ \A t \in Thread \ {currentThread} :
           heldThread[diskLock] = t => heldThread'[diskLock] = t
  BY <1>1, <1>2, Zenon DEF Released, isHeldByCurrentThread, SynchDiskAssumption
<1>4. SynchTypeOK'
  BY <1>1, <1>3, Zenon DEF DInv, ProgramInv, SynchTypeOK
<1>5. ProgramInv'
  BY <1>1, <1>4, RunningStep, ZenonT(60) DEF DInv
<1>6. /\ <<"Release", op, d>> \notin DiskWait /\ <<"Release", op, d>> \in DiskLocked
      /\ <<>> \notin DiskWait /\ <<>> \notin DiskLocked /\ <<>> \in {<<>>} \cup DiskCall
  BY DiskPlaces, ZenonT(60)
<1>7. /\ DInv' /\ pc'[currentThread] = <<>>
      /\ \A t \in Thread \ {currentThread} : Client(t)' = Client(t)
  BY <1>1, <1>3, <1>5, <1>6, DiskCallerStep, Zenon
<1>8. PICK u \in Thread : u = currentThread
  BY <1>2, Zenon
<1>9. Client(u) = [phase |-> "done", op |-> op, result |-> d]
  <2>1. pc[u] = <<"Release", op, d>>
    BY <1>1, <1>8, Zenon
  <2> QED
    BY <2>1, ClientIs, ZenonT(60)
<1>10. Client(u)' = [phase |-> "idle"]
  <2>1. pc'[u] = <<>>
    BY <1>7, <1>8, Zenon
  <2> QED
    BY <2>1, ClientIs, ZenonT(60)
<1>11. [t \in Thread |-> Client(t)]' =
         [[t \in Thread |-> Client(t)] EXCEPT ![u] = [phase |-> "idle"]]
  BY <1>7, <1>8, <1>10, ClientsBut, Zenon
<1>12. [t \in Thread |-> Client(t)][u].phase = "done"
  BY <1>9
<1>13. ~ active
  BY <1>1, <1>2, <1>6, DiskIdle, Zenon
<1>14. Store!Return(u)
  BY <1>1, <1>11, <1>12, <1>13, Zenon DEF Store!Return, Store!Idle, Busy
<1> QED
  BY <1>7, <1>14, ZenonT(60) DEF StoreStep, Store!StoreNext

\* Disk::HandleInterrupt and SynchDisk::RequestDone: the request of the thread that
\* holds the lock is done.
LEMMA DiskInterrupt == ASSUME SynchDiskAssumption, DInv, HandleInterrupt PROVE DInv' /\ StoreStep
<1>1. /\ active /\ active' = FALSE /\ V(semaphore) /\ UNCHANGED <<disk, pc, finished>>
  BY Zenon DEF HandleInterrupt
<1>2. /\ ProgramInv' /\ value' = [value EXCEPT ![semaphore] = @ + 1]
      /\ UNCHANGED heldThread
      /\ Members(semQueue'[semaphore]) \subseteq Members(semQueue[semaphore])
  <2>1. CASE semQueue[semaphore] = <<>>
    BY <1>1, <2>1, WakeInV, ZenonT(60) DEF DInv, SynchDiskAssumption
  <2>2. CASE semQueue[semaphore] # <<>>
    BY <1>1, <2>2, WakeInV, ZenonT(60) DEF DInv, SynchDiskAssumption
  <2> QED
    BY <2>1, <2>2, ZenonT(60)
<1>3. PICK u \in Thread : pc[u] \in DiskWait
  BY <1>1, ZenonT(60) DEF DInv
<1>4. /\ heldThread[diskLock] = u
      /\ \A t \in Thread \ {u} : pc[t] \notin DiskWait
  BY <1>3, DiskPlaces, ZenonT(60) DEF DInv
<1>5. value[semaphore] = 0 /\ value'[semaphore] = 1
  BY <1>1, <1>2, <1>3 DEF DInv, ProgramInv, SynchTypeOK, SynchDiskAssumption
<1>6. \A t \in Thread : t \in Members(semQueue'[semaphore]) => pc'[t] \in DiskWait
  BY <1>1, <1>2, ZenonT(60) DEF DInv
<1>7. DInv'
  BY <1>1, <1>2, <1>3, <1>5, <1>6, ZenonT(60) DEF DInv
<1>8. PICK op \in DiskOp, d \in Data : pc[u] = <<"Wait", op, d>>
  BY <1>3 DEF DiskWait
<1>9. /\ Client(u) = [phase |-> "performed", op |-> op, result |-> d]
      /\ Client(u)' = [phase |-> "done", op |-> op, result |-> d]
  BY <1>1, <1>8, ClientIs, ZenonT(60)
<1>10. \A t \in Thread \ {u} : Client(t)' = Client(t)
  BY <1>1, <1>4, ClientKept, ZenonT(60) DEF DInv
<1>11. [Client(u) EXCEPT !.phase = "done"] = Client(u)'
  BY <1>9
<1>12. [t \in Thread |-> Client(t)]' =
         [[t \in Thread |-> Client(t)] EXCEPT ![u].phase = "done"]
  BY <1>10, <1>11, ClientsBut, Zenon
<1>13. Busy = u /\ Busy' = NoThread
  BY <1>1, <1>4, Zenon DEF Busy
<1>14. Store!Done(u)
  BY <1>1, <1>12, <1>13, Zenon DEF Store!Done
<1> QED
  BY <1>7, <1>14, Zenon DEF StoreStep, Store!StoreNext

\* Every step of the threads and of the device keeps the invariant and is a step
\* of the store, or none.
LEMMA DiskStep == ASSUME SynchDiskAssumption, DInv, [SynchDiskNext]_SynchDiskVars PROVE DInv' /\ StoreStep
<1>1. CASE UNCHANGED SynchDiskVars
  <2>1. /\ UNCHANGED kernelVars /\ UNCHANGED synchVars /\ UNCHANGED <<pc, finished>>
        /\ UNCHANGED <<disk, active>>
    BY <1>1, Zenon DEF SynchDiskVars, programVars, diskVars, kernelVars, synchVars
  <2>2. SynchTypeOK' /\ UNCHANGED <<value, semQueue, condQueue, heldThread>>
    BY <2>1, Zenon DEF DInv, ProgramInv, SynchTypeOK, synchVars
  <2>3. ProgramInv'
    BY <2>1, <2>2, RunningStep, Zenon DEF DInv
  <2> QED
    BY <2>1, <2>2, <2>3, DiskQuietStep, Zenon
<1>2. CASE DiskOtherStep \/ HandleInterrupt
  BY <1>2, DiskKernelStep, DiskInterrupt, Zenon
<1>3. ASSUME NEW op \in DiskOp, CallDisk(op) \/ AcquireDisk(op) \/ Request(op)
      PROVE  DInv' /\ StoreStep
  BY <1>3, DiskCallDisk, DiskAcquire, DiskRequest, Zenon
<1>4. ASSUME NEW op \in DiskOp, NEW data \in Data,
             WaitForInterrupt(op, data) \/ ReleaseDisk(op, data)
      PROVE  DInv' /\ StoreStep
  BY <1>4, DiskWaitForInterrupt, DiskRelease, Zenon
<1> QED
  BY <1>1, <1>2, <1>3, <1>4, Zenon DEF SynchDiskNext

\* The constructors establish it.
LEMMA DiskStarts == ASSUME SynchDiskAssumption, SynchDiskInit PROVE DInv /\ Store!StoreInit
<1>1. ProgramInit([s \in Semaphore |-> 0]) /\ disk \in [Sector -> Data] /\ active = FALSE
  BY Zenon DEF SynchDiskInit
<1>2. ProgramInv
  BY <1>1, ProgramStarts, Zenon
<1>3. /\ pc = [t \in Thread |-> <<>>] /\ value = [s \in Semaphore |-> 0]
      /\ semQueue = [s \in Semaphore |-> <<>>]
  BY <1>1, Zenon DEF ProgramInit, SynchInit
<1>4. \A t \in Thread : pc[t] \notin DiskLocked /\ pc[t] \notin DiskWait
  BY <1>3, DiskPlaces, Zenon
<1>5. Members(semQueue[semaphore]) = {} /\ value[semaphore] = 0
  BY <1>3 DEF Members, SynchDiskAssumption
<1>6. DInv
  BY <1>1, <1>2, <1>3, <1>4, <1>5, ZenonT(60) DEF DInv
<1>7. [t \in Thread |-> Client(t)] = [t \in Thread |-> [phase |-> "idle"]]
  BY <1>3, ClientIs, Zenon
<1>8. Store!StoreInit
  BY <1>1, <1>7, Zenon DEF Store!StoreInit, Store!Idle, Busy
<1> QED
  BY <1>6, <1>8, Zenon

\* What the invariant says: the device is inactive when it is asked, and as many
\* completions are under way as threads wait.
LEMMA DiskPromise ==
  ASSUME SynchDiskAssumption, DInv
  PROVE  SynchDiskTypeOK /\ OneRequestAtATime /\ CompletionsMatch
<1>1. KernelTypeOK /\ SynchTypeOK /\ finished \subseteq Thread
  BY KernelFacts, Zenon DEF DInv, ProgramInv
<1>2. SynchDiskTypeOK
  BY <1>1, ZenonT(60) DEF DInv, SynchDiskTypeOK, ProgramTypeOK
<1>3. OneRequestAtATime
  BY DiskIdle, DiskPlaces, Zenon DEF OneRequestAtATime
<1>4. \A t \in Thread : InWait(t) <=> pc[t] \in DiskWait
  BY DEF InWait, DiskWait
<1>5. ASSUME \A t \in Thread : pc[t] \notin DiskWait PROVE CompletionsMatch
  <2>1. value[semaphore] = 0 /\ ~ active
    BY <1>5, Zenon DEF DInv
  <2> QED
    BY <1>4, <1>5, <2>1, Zenon DEF CompletionsMatch
<1>6. ASSUME NEW w \in Thread, pc[w] \in DiskWait PROVE CompletionsMatch
  <2>1. \A t \in Thread \ {w} : pc[t] \notin DiskWait
    BY <1>6, DiskPlaces, Zenon DEF DInv
  <2>2. \A t \in Thread : InWait(t) <=> t = w
    BY <1>4, <1>6, <2>1, Zenon
  <2>3. (value[semaphore] = 1 /\ ~ active) \/ (value[semaphore] = 0 /\ active)
    BY <1>6, Zenon DEF DInv
  <2> QED
    BY <1>6, <2>2, <2>3, Zenon DEF CompletionsMatch
<1> QED
  BY <1>2, <1>3, <1>5, <1>6, Zenon

\* Whatever threads read and write, SynchDisk's invariant holds.
THEOREM DiskInvariance == ASSUME SynchDiskAssumption PROVE SynchDiskSpec => []DInv
<1>1. SynchDiskInit => DInv
  BY DiskStarts, Zenon
<1>2. DInv /\ [SynchDiskNext]_SynchDiskVars => DInv'
  BY DiskStep, Zenon
<1> QED
  BY <1>1, <1>2, PTL DEF SynchDiskSpec

\* SynchDisk::ReadSector and WriteSector, called by any number of threads for any
\* sectors: the sectors as SectorStore describes them, one call at a time and each
\* returning once the device is done.
THEOREM DiskRefinement == ASSUME SynchDiskAssumption PROVE SynchDiskSpec => ImplementsStore
<1>1. SynchDiskInit => Store!StoreInit
  BY DiskStarts, Zenon
<1>2. DInv /\ [SynchDiskNext]_SynchDiskVars => Store!StoreNext \/ StoreUnchanged
  BY DiskStep, Zenon DEF StoreStep
<1>3. DInv => SynchDiskTypeOK /\ OneRequestAtATime /\ CompletionsMatch
  BY DiskPromise, Zenon
<1> QED
  BY <1>1, <1>2, <1>3, DiskInvariance, PTL DEF SynchDiskSpec, ImplementsStore

--------------------------------------------------------------------------------
(***************************************************************************)
(* The console and ConsoleTest.                                            *)
(***************************************************************************)

\* Main is the only thread there is.
OnlyMain ==
  /\ currentThread = Main
  /\ \A t \in Thread \ {Main} : status[t] = "UNBORN"
  /\ threadToBeDestroyed = NoThread

\* WriteDone's V is still to come, or to be consumed, exactly while ConsoleTest waits.
WriteAnswered ==
  /\ pc[Main] = <<"writeDone">> =>
       (value[writeDone] = 1 /\ ~ putBusy) \/ (value[writeDone] = 0 /\ putBusy)
  /\ pc[Main] # <<"writeDone">> => value[writeDone] = 0 /\ ~ putBusy

\* Each interrupt that V's one of the semaphores is accounted for by what the device
\* and the thread are doing.
CInv ==
  /\ ProgramInv
  /\ OnlyMain
  /\ pc \in [Thread -> {<<>>} \cup ConsoleCall]
  /\ incoming \in Char \cup {EOF} /\ ch \in Char \cup {EOF}
  /\ putBusy \in BOOLEAN
  /\ keyboard \in Seq(Char) /\ typed \in Seq(Char) /\ display \in Seq(Char)
  /\ OneCharPerUnit
  /\ WriteAnswered
  /\ NothingLost

\* The places of ConsoleTest.
LEMMA ConsolePlaces ==
  /\ ConsoleCall \subseteq {<<>>} \cup ConsoleCall /\ <<>> \in {<<>>} \cup ConsoleCall
  /\ <<>> \notin {<<"GetChar">>, <<"writeDone">>}
  /\ <<"ConsoleTest">> \notin {<<"GetChar">>, <<"writeDone">>}
  /\ <<"test">> \notin {<<"GetChar">>, <<"writeDone">>}
  /\ <<"GetChar">> # <<"writeDone">>
  /\ {<<"ConsoleTest">>, <<"GetChar">>, <<"writeDone">>, <<"test">>} \subseteq ConsoleCall
BY Zenon DEF ConsoleCall

\* What main does to the kernel by itself leaves it the only thread.
LEMMA OnlyMainKept ==
  ASSUME ProgramInv, OnlyMain,
         \/ UNCHANGED kernelVars \/ DisableInterrupts \/ EnableInterrupts \/ Yield \/ Halt
         \/ Sleep \/ Dispatch \/ Idle \/ IdleReturn
  PROVE  OnlyMain'
<1>1. CASE UNCHANGED kernelVars
  BY <1>1, Zenon DEF OnlyMain, kernelVars
<1>2. CASE DisableInterrupts \/ EnableInterrupts \/ Halt \/ Idle \/ IdleReturn
  BY <1>2, Zenon DEF OnlyMain, DisableInterrupts, EnableInterrupts, Halt, Idle, IdleReturn
<1>3. CASE Sleep
  <2>1. currentThread \in Thread /\ status \in [Thread -> Lifetime]
    BY KernelFacts, Zenon DEF KernelTypeOK
  <2> QED
    BY <1>3, <2>1, Zenon DEF OnlyMain, Sleep
<1>4. CASE Yield /\ readyList # <<>>
  <2>1. Head(readyList) = Main
    BY <1>4, HeadReady, Zenon DEF OnlyMain
  <2>2. status[Main] = "RUNNING"
    BY <1>4, Zenon DEF Yield, Executing, OnlyMain
  <2>3. status[Main] = "READY"
    BY <1>4, <2>1, HeadReady, Zenon
  <2> QED
    BY <2>2, <2>3, Zenon
<1>5. CASE Yield /\ readyList = <<>>
  BY <1>1, <1>5, Zenon DEF Yield
<1>6. CASE Dispatch
  <2>1. readyList # <<>> /\ Run(Head(readyList), status, Tail(readyList))
    BY <1>6, Zenon DEF Dispatch
  <2>2. Head(readyList) = Main
    BY <2>1, HeadReady, Zenon DEF OnlyMain
  <2> QED
    BY <2>1, <2>2, ThreadAssumption, Zenon DEF Run, OnlyMain
<1> QED
  BY <1>1, <1>2, <1>3, <1>4, <1>5, <1>6, Zenon

\* An interrupt that wakes a thread wakes main.
LEMMA OnlyMainWoken ==
  ASSUME ProgramInv, OnlyMain, NEW s \in Semaphore, V(s) PROVE OnlyMain'
<1>1. CASE semQueue[s] = <<>>
  BY <1>1, OnlyMainKept, Zenon DEF V
<1>2. CASE semQueue[s] # <<>>
  <2>1. /\ status' = [status EXCEPT ![Head(semQueue[s])] = "READY"]
        /\ UNCHANGED <<currentThread, threadToBeDestroyed>>
    BY <1>2, Zenon DEF V, WakeFirst, ReadyToRun
  <2>2. semQueue[s] \in Seq(Thread) /\ Distinct(semQueue[s])
    BY Zenon DEF ProgramInv, SynchTypeOK, QueuesExclusive
  <2>3. Head(semQueue[s]) \in Thread /\ Head(semQueue[s]) \in Queued
    BY <1>2, <2>2, QueueRemove, InQueued, ZenonT(60)
  <2>4. Head(semQueue[s]) = Main
    BY <2>3, KernelFacts, Zenon DEF OnlyMain
  <2>5. status \in [Thread -> Lifetime]
    BY KernelFacts, Zenon DEF KernelTypeOK
  <2> QED
    BY <2>1, <2>4, <2>5, Zenon DEF OnlyMain
<1> QED
  BY <1>1, <1>2, ZenonT(60)

\* Reading the oldest character moves it from the keyboard to the buffer.
LEMMA BufferedCharacter ==
  ASSUME NEW S, NEW p \in Seq(S), NEW q \in Seq(S), q # <<>>
  PROVE  p \o <<Head(q)>> \o Tail(q) = p \o <<>> \o q
<1>1. Head(q) \in S /\ Tail(q) \in Seq(S) /\ Head(q) = q[1] /\ Len(Tail(q)) = Len(q) - 1
  OBVIOUS
<1>2. \A i \in 1..Len(Tail(q)) : Tail(q)[i] = q[i + 1]
  OBVIOUS
<1> DEFINE a == p \o <<Head(q)>> \o Tail(q)
           b == p \o <<>> \o q
<1>3. a \in Seq(S) /\ b \in Seq(S) /\ Len(a) = Len(b)
  BY <1>1
<1>4. ASSUME NEW i \in 1..Len(b) PROVE a[i] = b[i]
  BY <1>1, <1>2
<1> HIDE DEF a, b
<1>5. a = b
  BY <1>3, <1>4
<1> QED
  BY <1>5, Zenon DEF a, b

\* Echoing a character moves it from the buffer to the display.
LEMMA EchoedCharacter ==
  ASSUME NEW S, NEW p \in Seq(S), NEW q \in Seq(S), NEW c \in S
  PROVE  Append(p, c) \o <<>> \o q = p \o <<c>> \o q
OBVIOUS

\* Typing a character adds it to what the keyboard holds.
LEMMA TypedCharacter ==
  ASSUME NEW S, NEW p \in Seq(S), NEW m \in Seq(S), NEW q \in Seq(S), NEW c \in S
  PROVE  p \o m \o Append(q, c) = Append(p \o m \o q, c)
OBVIOUS

\* Steps that leave the thread where it is, and the device and the semaphores.
LEMMA ConsoleQuietStep ==
  ASSUME ConsoleAssumption, CInv, ProgramInv', OnlyMain',
         UNCHANGED <<pc, value, incoming, putBusy, keyboard, typed, display, ch>>
  PROVE  CInv'
BY Zenon DEF CInv, OneCharPerUnit, NothingLost, WriteAnswered

\* A step of the scheduler leaves the console alone.
LEMMA ConsoleOther == ASSUME ConsoleAssumption, CInv, ConsoleOtherStep PROVE CInv'
<1>1. /\ KernelStep /\ UNCHANGED <<incoming, putBusy, keyboard, typed, display, ch>>
      /\ UNCHANGED kernelVars \/ Yield \/ Dispatch \/ Idle \/ IdleReturn
  BY Zenon DEF ConsoleOtherStep, KernelStep, deviceVars, TimeSlice, Schedule, Halted, programVars,
     kernelVars
<1>2. ProgramInv' /\ UNCHANGED <<value, pc>>
  BY <1>1, SharedStep, Zenon DEF CInv, synchVars
<1>3. OnlyMain'
  BY <1>1, OnlyMainKept, Zenon DEF CInv
<1> QED
  BY <1>1, <1>2, <1>3, ConsoleQuietStep, Zenon

\* The user types.
LEMMA ConsoleType == ASSUME ConsoleAssumption, CInv, NEW c \in Char, Type(c) PROVE CInv'
<1>1. /\ typed' = Append(typed, c) /\ keyboard' = Append(keyboard, c)
      /\ UNCHANGED kernelVars /\ UNCHANGED synchVars /\ UNCHANGED <<pc, finished>>
      /\ UNCHANGED <<incoming, putBusy, display, ch>>
  BY Zenon DEF Type, programVars, kernelVars, synchVars
<1>2. SynchTypeOK' /\ UNCHANGED <<value, semQueue, condQueue>>
  BY <1>1, Zenon DEF CInv, ProgramInv, SynchTypeOK, synchVars
<1>3. ProgramInv' /\ OnlyMain'
  BY <1>1, <1>2, RunningStep, OnlyMainKept, Zenon DEF CInv
<1>4. OneCharPerUnit'
  BY <1>1, <1>2, Zenon DEF CInv, OneCharPerUnit
<1>5. NothingLost'
  <2> DEFINE m == IF incoming = EOF THEN <<>> ELSE <<incoming>>
  <2>1. m \in Seq(Char) /\ m' = m
    BY <1>1 DEF CInv
  <2>2. display \o m \o keyboard = typed
    BY Zenon DEF CInv, NothingLost
  <2>3. display \in Seq(Char) /\ keyboard \in Seq(Char)
    BY Zenon DEF CInv
  <2>4. display' \o m' \o keyboard' = typed'
    <3> HIDE DEF m
    <3>1. display \o m \o Append(keyboard, c) = Append(display \o m \o keyboard, c)
      BY <2>1, <2>3, TypedCharacter
    <3> QED
      BY <1>1, <2>1, <2>2, <3>1, Zenon
  <2> QED
    BY <2>4, Zenon DEF NothingLost
<1>6. keyboard' \in Seq(Char) /\ typed' \in Seq(Char)
  BY <1>1 DEF CInv
<1>7. WriteAnswered'
  BY <1>1, <1>2, Zenon DEF CInv, WriteAnswered
<1> QED
  BY <1>1, <1>2, <1>3, <1>4, <1>5, <1>6, <1>7, Zenon DEF CInv

\* V on a semaphore of the console, from an interrupt handler.
LEMMA ConsoleInterrupt ==
  ASSUME ConsoleAssumption, CInv, NEW s \in Semaphore, V(s), UNCHANGED <<pc, finished>>
  PROVE  /\ ProgramInv' /\ OnlyMain'
         /\ value[s] \in Nat /\ value'[s] = value[s] + 1
         /\ \A r \in Semaphore \ {s} : value'[r] = value[r]
<1>1. ProgramInv' /\ value' = [value EXCEPT ![s] = @ + 1]
  BY WakeInV, ZenonT(60) DEF CInv
<1>2. OnlyMain'
  BY OnlyMainWoken, Zenon DEF CInv
<1> QED
  BY <1>1, <1>2, Zenon DEF CInv, ProgramInv, SynchTypeOK

\* Console::CheckCharAvail reads a character when the buffer is free.
LEMMA ConsolePoll == ASSUME ConsoleAssumption, CInv, CheckCharAvail PROVE CInv'
<1>1. /\ incoming = EOF /\ keyboard # <<>>
      /\ incoming' = Head(keyboard) /\ keyboard' = Tail(keyboard)
      /\ V(readAvail) /\ UNCHANGED <<pc, finished>>
      /\ UNCHANGED <<putBusy, typed, display, ch>>
  BY Zenon DEF CheckCharAvail, PollReads, ReadOldest, ReadAvail
<1>2. /\ ProgramInv' /\ OnlyMain' /\ value[readAvail] \in Nat
      /\ value'[readAvail] = value[readAvail] + 1 /\ value'[writeDone] = value[writeDone]
  BY <1>1, ConsoleInterrupt, ZenonT(60) DEF ConsoleAssumption
<1>3. /\ Head(keyboard) \in Char /\ Tail(keyboard) \in Seq(Char)
      /\ incoming' # EOF
  BY <1>1 DEF CInv, ConsoleAssumption
<1>4. OneCharPerUnit'
  <2>1. OneCharPerUnit
    BY Zenon DEF CInv
  <2>2. pc'[Main] = pc[Main]
    BY <1>1, Zenon
  <2>3. value[readAvail] + (IF pc[Main] = <<"GetChar">> THEN 1 ELSE 0) = 0
    BY <1>1, <2>1, Zenon DEF OneCharPerUnit
  <2>4. value'[readAvail] + (IF pc'[Main] = <<"GetChar">> THEN 1 ELSE 0) = 1
    <3>1. CASE pc[Main] = <<"GetChar">>
      BY <1>2, <2>3, <3>1, SMTT(30)
    <3>2. CASE pc[Main] # <<"GetChar">>
      BY <1>2, <2>2, <2>3, <3>2, SMTT(30)
    <3> QED
      BY <3>1, <3>2, Zenon
  <2> QED
    BY <1>3, <2>4, Zenon DEF OneCharPerUnit
<1>5. NothingLost'
  <2>1. display \o <<Head(keyboard)>> \o Tail(keyboard) = display \o <<>> \o keyboard
    BY <1>1, BufferedCharacter, Zenon DEF CInv
  <2>2. display \o <<>> \o keyboard = typed
    BY <1>1, Zenon DEF CInv, NothingLost
  <2> QED
    BY <1>1, <1>3, <2>1, <2>2, Zenon DEF NothingLost
<1>6. WriteAnswered'
  BY <1>1, <1>2, Zenon DEF CInv, WriteAnswered
<1> QED
  BY <1>1, <1>2, <1>3, <1>4, <1>5, <1>6, Zenon DEF CInv

\* Console::WriteDone.
LEMMA ConsoleWriteDone == ASSUME ConsoleAssumption, CInv, WriteDone PROVE CInv'
<1>1. /\ putBusy /\ putBusy' = FALSE
      /\ V(writeDone) /\ UNCHANGED <<pc, finished>>
      /\ UNCHANGED <<incoming, keyboard, typed, display, ch>>
  BY Zenon DEF WriteDone
<1>2. /\ ProgramInv' /\ OnlyMain' /\ value[writeDone] \in Nat
      /\ value'[writeDone] = value[writeDone] + 1 /\ value'[readAvail] = value[readAvail]
  BY <1>1, ConsoleInterrupt, ZenonT(60) DEF ConsoleAssumption
<1>3. WriteAnswered'
  <2>1. pc[Main] = <<"writeDone">> /\ value[writeDone] = 0
    BY <1>1, Zenon DEF CInv, WriteAnswered
  <2> QED
    BY <1>1, <1>2, <2>1 DEF WriteAnswered
<1>4. OneCharPerUnit' /\ NothingLost'
  BY <1>1, <1>2, ZenonT(60) DEF CInv, OneCharPerUnit, NothingLost
<1> QED
  BY <1>1, <1>2, <1>3, <1>4, ZenonT(60) DEF CInv

\* A step of main from one place to another with SetLevel or Halt, or neither.
LEMMA ConsoleCallerStep ==
  ASSUME ConsoleAssumption, CInv, SynchTypeOK', UNCHANGED <<semQueue, condQueue, finished>>,
         UNCHANGED kernelVars \/ DisableInterrupts \/ EnableInterrupts \/ Halt,
         NEW v \in {<<>>} \cup ConsoleCall, pc' = [pc EXCEPT ![currentThread] = v]
  PROVE  /\ ProgramInv' /\ OnlyMain' /\ pc' \in [Thread -> {<<>>} \cup ConsoleCall]
         /\ pc'[Main] = v
<1>1. ProgramInv' /\ OnlyMain'
  BY RunningStep, OnlyMainKept, Zenon DEF CInv
<1> QED
  BY <1>1, ThreadAssumption, ZenonT(60) DEF CInv, OnlyMain

\* readAvail->P() is called.
LEMMA ConsoleAwaitChar == ASSUME ConsoleAssumption, CInv, AwaitChar PROVE CInv'
<1>1. /\ pc[Main] = <<>> /\ DisableInterrupts
      /\ pc' = [pc EXCEPT ![currentThread] = <<"ConsoleTest">>]
      /\ UNCHANGED <<value, semQueue, heldThread, condQueue, finished>>
      /\ UNCHANGED <<incoming, putBusy, keyboard, typed, display, ch>>
  BY ZenonT(60) DEF AwaitChar, CallP, InCall, Goto, synchVars, deviceVars, CInv, OnlyMain
<1>2. SynchTypeOK'
  BY <1>1, Zenon DEF CInv, ProgramInv, SynchTypeOK
<1>3. /\ ProgramInv' /\ OnlyMain' /\ pc' \in [Thread -> {<<>>} \cup ConsoleCall]
      /\ pc'[Main] = <<"ConsoleTest">>
  BY <1>1, <1>2, ConsoleCallerStep, ConsolePlaces, ZenonT(60)
<1>4. OneCharPerUnit' /\ NothingLost'
  BY <1>1, <1>3, ConsolePlaces, Zenon DEF CInv, OneCharPerUnit, NothingLost
<1>5. WriteAnswered'
  BY <1>1, <1>3, ConsolePlaces, Zenon DEF CInv, WriteAnswered
<1> QED
  BY <1>1, <1>3, <1>4, <1>5, ZenonT(60) DEF CInv

\* Sleeping in P, with main the sleeper.
LEMMA ConsoleSleeps ==
  ASSUME ConsoleAssumption, CInv, NEW s \in Semaphore, PSleep(s), UNCHANGED <<pc, finished>>,
         UNCHANGED <<incoming, putBusy, keyboard, typed, display, ch>>
  PROVE  CInv'
<1>1. ProgramInv' /\ UNCHANGED value
  BY SleepInP, ZenonT(60) DEF CInv
<1>2. OnlyMain'
  BY OnlyMainKept, Zenon DEF CInv, PSleep
<1> QED
  BY <1>1, <1>2, ConsoleQuietStep, Zenon

\* readAvail->P().
LEMMA ConsoleReadAvailP == ASSUME ConsoleAssumption, CInv, ReadAvailP PROVE CInv'
<1>1. /\ pc[Main] = <<"ConsoleTest">> /\ UNCHANGED finished
      /\ UNCHANGED <<incoming, putBusy, keyboard, typed, display, ch>>
  BY ZenonT(60) DEF ReadAvailP, InCall, deviceVars, CInv, OnlyMain
<1>2. CASE PSleep(readAvail) /\ UNCHANGED pc
  BY <1>1, <1>2, ConsoleSleeps, Zenon DEF ConsoleAssumption
<1>3. CASE PTake(readAvail) /\ Goto(<<"GetChar">>)
  <2>1. /\ value[readAvail] > 0 /\ value' = [value EXCEPT ![readAvail] = @ - 1]
        /\ EnableInterrupts /\ UNCHANGED <<semQueue, heldThread, condQueue>>
        /\ pc' = [pc EXCEPT ![currentThread] = <<"GetChar">>]
    BY <1>3, Zenon DEF PTake, Goto
  <2>2. value[readAvail] = 1 /\ incoming # EOF
    <3>1. value[readAvail] \in Nat
      BY Zenon DEF CInv, ProgramInv, SynchTypeOK, ConsoleAssumption
    <3> QED
      BY <1>1, <2>1, <3>1, ConsolePlaces DEF CInv, OneCharPerUnit
  <2>3. /\ value' \in [Semaphore -> Nat] /\ value'[readAvail] = 0
        /\ value'[writeDone] = value[writeDone]
    BY <2>1, <2>2 DEF CInv, ProgramInv, SynchTypeOK, ConsoleAssumption
  <2>4. SynchTypeOK'
    BY <2>1, <2>3, Zenon DEF CInv, ProgramInv, SynchTypeOK
  <2>5. /\ ProgramInv' /\ OnlyMain' /\ pc' \in [Thread -> {<<>>} \cup ConsoleCall]
        /\ pc'[Main] = <<"GetChar">>
    BY <1>1, <2>1, <2>4, ConsoleCallerStep, ConsolePlaces, ZenonT(60)
  <2>6. OneCharPerUnit'
    BY <1>1, <2>2, <2>3, <2>5 DEF OneCharPerUnit
  <2>7. WriteAnswered'
    BY <1>1, <2>3, <2>5, ConsolePlaces, Zenon DEF CInv, WriteAnswered
  <2>8. NothingLost'
    BY <1>1, Zenon DEF CInv, NothingLost
  <2> QED
    BY <1>1, <2>5, <2>6, <2>7, <2>8, ZenonT(60) DEF CInv
<1> QED
  BY <1>2, <1>3, Zenon DEF ReadAvailP

\* GetChar and PutChar: there is a character, and the display is free.
LEMMA ConsoleEcho == ASSUME ConsoleAssumption, CInv, Echo PROVE CInv'
<1>1. /\ pc[Main] = <<"GetChar">> /\ UNCHANGED finished
      /\ DisableInterrupts /\ pc' = [pc EXCEPT ![currentThread] = <<"writeDone">>]
      /\ UNCHANGED <<value, semQueue, heldThread, condQueue>>
      /\ ch' = incoming /\ incoming' = EOF /\ display' = Append(display, incoming)
      /\ putBusy' = TRUE /\ UNCHANGED <<keyboard, typed>>
  BY ZenonT(60) DEF Echo, InCall, Goto, GetChar, synchVars, CInv, OnlyMain
<1>2. SynchTypeOK'
  BY <1>1, Zenon DEF CInv, ProgramInv, SynchTypeOK
<1>3. /\ ProgramInv' /\ OnlyMain' /\ pc' \in [Thread -> {<<>>} \cup ConsoleCall]
      /\ pc'[Main] = <<"writeDone">>
  BY <1>1, <1>2, ConsoleCallerStep, ConsolePlaces, ZenonT(60)
<1>4. value[readAvail] \in Nat /\ value[writeDone] \in Nat
  BY Zenon DEF CInv, ProgramInv, SynchTypeOK, ConsoleAssumption
<1>5. value[readAvail] = 0 /\ incoming # EOF
  BY <1>1, <1>4 DEF CInv, OneCharPerUnit
<1>6. value[writeDone] = 0 /\ ~ putBusy
  BY <1>1, <1>4, ConsolePlaces, Zenon DEF CInv, WriteAnswered
<1>7. OneCharPerUnit'
  BY <1>1, <1>3, <1>5, ConsolePlaces DEF OneCharPerUnit
<1>8. WriteAnswered'
  BY <1>1, <1>3, <1>6, Zenon DEF WriteAnswered
<1>9. incoming \in Char
  BY <1>5, Zenon DEF CInv
<1>10. NothingLost'
  <2>1. Append(display, incoming) \o <<>> \o keyboard = display \o <<incoming>> \o keyboard
    BY <1>9, EchoedCharacter, Zenon DEF CInv
  <2>2. display \o <<incoming>> \o keyboard = typed
    BY <1>5, Zenon DEF CInv, NothingLost
  <2> QED
    BY <1>1, <2>1, <2>2, Zenon DEF NothingLost
<1>11. display' \in Seq(Char) /\ ch' \in Char \cup {EOF} /\ incoming' \in Char \cup {EOF}
  BY <1>1, <1>9 DEF CInv
<1> QED
  BY <1>1, <1>3, <1>7, <1>8, <1>10, <1>11, ZenonT(60) DEF CInv

\* writeDone->P().
LEMMA ConsoleWriteDoneP == ASSUME ConsoleAssumption, CInv, WriteDoneP PROVE CInv'
<1>1. /\ pc[Main] = <<"writeDone">> /\ UNCHANGED finished
      /\ UNCHANGED <<incoming, putBusy, keyboard, typed, display, ch>>
  BY Zenon DEF WriteDoneP, InCall, deviceVars, CInv, OnlyMain
<1>2. CASE WriteDoneSleeps
  BY <1>1, <1>2, ConsoleSleeps, Zenon DEF WriteDoneSleeps, ConsoleAssumption
<1>3. CASE PTake(writeDone) /\ Goto(<<"test">>)
  <2>1. /\ value[writeDone] > 0 /\ value' = [value EXCEPT ![writeDone] = @ - 1]
        /\ EnableInterrupts /\ UNCHANGED <<semQueue, heldThread, condQueue>>
        /\ pc' = [pc EXCEPT ![currentThread] = <<"test">>]
    BY <1>3, Zenon DEF PTake, Goto
  <2>2. value[writeDone] \in Nat
    BY Zenon DEF CInv, ProgramInv, SynchTypeOK, ConsoleAssumption
  <2>3. value[writeDone] = 1 /\ ~ putBusy
    BY <1>1, <2>1, <2>2 DEF CInv, WriteAnswered
  <2>4. /\ value' \in [Semaphore -> Nat] /\ value'[writeDone] = 0
        /\ value'[readAvail] = value[readAvail]
    BY <2>1, <2>3 DEF CInv, ProgramInv, SynchTypeOK, ConsoleAssumption
  <2>5. SynchTypeOK'
    BY <2>1, <2>4, Zenon DEF CInv, ProgramInv, SynchTypeOK
  <2>6. /\ ProgramInv' /\ OnlyMain' /\ pc' \in [Thread -> {<<>>} \cup ConsoleCall]
        /\ pc'[Main] = <<"test">>
    BY <1>1, <2>1, <2>5, ConsoleCallerStep, ConsolePlaces, ZenonT(60)
  <2>7. OneCharPerUnit'
    BY <1>1, <2>4, <2>6, ConsolePlaces, ZenonT(60) DEF CInv, OneCharPerUnit
  <2>8. WriteAnswered'
    BY <1>1, <2>3, <2>4, <2>6, ConsolePlaces, Zenon DEF WriteAnswered
  <2>9. NothingLost'
    BY <1>1, Zenon DEF CInv, NothingLost
  <2> QED
    BY <1>1, <2>6, <2>7, <2>8, <2>9, ZenonT(60) DEF CInv
<1> QED
  BY <1>2, <1>3, Zenon DEF WriteDoneP

\* "if q, quit".
LEMMA ConsoleTestQuit == ASSUME ConsoleAssumption, CInv, TestQuit PROVE CInv'
<1>1. /\ pc[Main] = <<"test">> /\ UNCHANGED finished
      /\ pc' = [pc EXCEPT ![currentThread] = <<>>]
      /\ Halt \/ UNCHANGED kernelVars
      /\ UNCHANGED <<value, semQueue, heldThread, condQueue>>
      /\ UNCHANGED <<incoming, putBusy, keyboard, typed, display, ch>>
  BY ZenonT(60) DEF TestQuit, InCall, Goto, synchVars, deviceVars, CInv, OnlyMain
<1>2. SynchTypeOK'
  BY <1>1, Zenon DEF CInv, ProgramInv, SynchTypeOK
<1>3. /\ ProgramInv' /\ OnlyMain' /\ pc' \in [Thread -> {<<>>} \cup ConsoleCall]
      /\ pc'[Main] = <<>>
  BY <1>1, <1>2, ConsoleCallerStep, ConsolePlaces, ZenonT(60)
<1>4. OneCharPerUnit' /\ NothingLost'
  BY <1>1, <1>3, ConsolePlaces, ZenonT(60) DEF CInv, OneCharPerUnit, NothingLost
<1>5. WriteAnswered'
  BY <1>1, <1>3, ConsolePlaces, ZenonT(60) DEF CInv, WriteAnswered
<1> QED
  BY <1>1, <1>3, <1>4, <1>5, ZenonT(60) DEF CInv

\* Every step of the device, the user and ConsoleTest keeps the invariant.
LEMMA ConsoleStep == ASSUME ConsoleAssumption, CInv, [ConsoleNext]_ConsoleVars PROVE CInv'
<1>1. CASE UNCHANGED ConsoleVars
  <2>1. /\ UNCHANGED kernelVars /\ UNCHANGED synchVars /\ UNCHANGED <<pc, finished>>
        /\ UNCHANGED <<incoming, putBusy, keyboard, typed, display, ch>>
    BY <1>1, Zenon DEF ConsoleVars, programVars, deviceVars, kernelVars, synchVars
  <2>2. SynchTypeOK' /\ UNCHANGED <<value, semQueue, condQueue>>
    BY <2>1, Zenon DEF CInv, ProgramInv, SynchTypeOK, synchVars
  <2>3. ProgramInv' /\ OnlyMain'
    BY <2>1, <2>2, RunningStep, OnlyMainKept, Zenon DEF CInv
  <2> QED
    BY <2>1, <2>2, <2>3, ConsoleQuietStep, Zenon
<1>2. ASSUME NEW c \in Char, Type(c) PROVE CInv'
  BY <1>2, ConsoleType, Zenon
<1>3. CASE CheckCharAvail \/ WriteDone \/ ConsoleOtherStep
  BY <1>3, ConsolePoll, ConsoleWriteDone, ConsoleOther, Zenon
<1>4. CASE AwaitChar \/ ReadAvailP \/ Echo \/ WriteDoneP \/ TestQuit
  BY <1>4, ConsoleAwaitChar, ConsoleReadAvailP, ConsoleEcho, ConsoleWriteDoneP,
     ConsoleTestQuit, Zenon
<1> QED
  BY <1>1, <1>2, <1>3, <1>4, Zenon DEF ConsoleNext

\* The constructors establish it.
LEMMA ConsoleStarts == ASSUME ConsoleAssumption, ConsoleInit PROVE CInv
<1>1. /\ ProgramInit([s \in Semaphore |-> 0])
      /\ incoming = EOF /\ ch = EOF /\ putBusy = FALSE
      /\ keyboard = <<>> /\ typed = <<>> /\ display = <<>>
  BY Zenon DEF ConsoleInit
<1>2. ProgramInv
  BY <1>1, ProgramStarts, Zenon
<1>3. pc = [t \in Thread |-> <<>>] /\ value = [s \in Semaphore |-> 0] /\ OnlyMain
  BY <1>1, Zenon DEF ProgramInit, SynchInit, KernelInit, OnlyMain
<1>4. pc[Main] = <<>> /\ value[readAvail] = 0 /\ value[writeDone] = 0
  BY <1>3, ThreadAssumption, Zenon DEF ConsoleAssumption
<1>5. OneCharPerUnit
  BY <1>1, <1>4, ConsolePlaces DEF OneCharPerUnit
<1>6. WriteAnswered
  BY <1>1, <1>4, ConsolePlaces, Zenon DEF WriteAnswered
<1>7. NothingLost
  BY <1>1 DEF NothingLost
<1>8. /\ pc \in [Thread -> {<<>>} \cup ConsoleCall] /\ putBusy \in BOOLEAN
      /\ incoming \in Char \cup {EOF} /\ ch \in Char \cup {EOF}
      /\ keyboard \in Seq(Char) /\ typed \in Seq(Char) /\ display \in Seq(Char)
  <2>1. <<>> \in Seq(Char)
    OBVIOUS
  <2>2. pc \in [Thread -> {<<>>} \cup ConsoleCall]
    BY <1>3, Zenon
  <2> QED
    BY <1>1, <2>1, <2>2, ZenonT(60)
<1> QED
  BY <1>2, <1>3, <1>5, <1>6, <1>7, <1>8, Zenon DEF CInv

\* What the invariant says: PutChar finds the display free, among the rest.
LEMMA ConsolePromise ==
  ASSUME ConsoleAssumption, CInv PROVE ConsoleTypeOK /\ NothingLost /\ OneCharPerUnit /\ PutCharSafe
<1>1. KernelTypeOK /\ SynchTypeOK /\ finished \subseteq Thread
  BY KernelFacts, Zenon DEF CInv, ProgramInv
<1>2. ConsoleTypeOK
  BY <1>1, Zenon DEF CInv, ConsoleTypeOK, ProgramTypeOK
<1>3. value[writeDone] \in Nat
  BY <1>1, Zenon DEF SynchTypeOK, ConsoleAssumption
<1>4. PutCharSafe
  BY <1>3, ConsolePlaces, ZenonT(60) DEF CInv, OnlyMain, PutCharSafe, InCall, WriteAnswered
<1> QED
  BY <1>2, <1>4, Zenon DEF CInv

\* However the user types and the two interrupts come, the console's invariant holds.
THEOREM ConsoleInvariance == ASSUME ConsoleAssumption PROVE ConsoleSpec => []CInv
<1>1. ConsoleInit => CInv
  BY ConsoleStarts, Zenon
<1>2. CInv /\ [ConsoleNext]_ConsoleVars => CInv'
  BY ConsoleStep, Zenon
<1> QED
  BY <1>1, <1>2, PTL DEF ConsoleSpec

\* Console::CheckCharAvail and ConsoleTest, however the two interrupts come: what is
\* displayed, buffered and unread makes up what was typed.
THEOREM ConsoleCorrect == ASSUME ConsoleAssumption PROVE ConsoleSpec => []CharactersKept
<1>1. CInv => CharactersKept
  BY ConsolePromise, Zenon DEF CharactersKept
<1> QED
  BY <1>1, ConsoleInvariance, PTL

================================================================================
