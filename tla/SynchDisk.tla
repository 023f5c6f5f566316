------------------------------- MODULE SynchDisk -------------------------------
(***************************************************************************)
(* The synchronous disk (filesys/synchdisk.cc) over the disk device        *)
(* (machine/disk.cc), used by any number of threads.  The device does the  *)
(* transfer when it is asked and raises an interrupt some time later; time *)
(* is left out, the interrupt comes at any tick while the device is        *)
(* active.                                                                 *)
(***************************************************************************)
EXTENDS Synch

CONSTANTS
  Sector,
  Data,
  diskLock,  \* SynchDisk::lock
  semaphore  \* SynchDisk::semaphore

\* The lock and the semaphore are ones of the kernel's.
SynchDiskAssumption == diskLock \in Lock /\ semaphore \in Semaphore

VARIABLES
  disk,   \* the UNIX file behind the device
  active  \* Disk::active: a request is in progress, its interrupt is pending

diskVars == <<disk, active>>

SynchDiskVars == <<programVars, diskVars>>

DiskOp == [kind : {"Read", "Write"}, sector : Sector, data : Data]

\* "Wait" carries what the caller's buffer holds.
DiskCall == ({"Acquire", "Request"} \X DiskOp) \cup ({"Wait", "Release"} \X DiskOp \X Data)

\* Kernel, lock, semaphore and disk are well typed.
SynchDiskTypeOK ==
  /\ ProgramTypeOK(DiskCall)
  /\ disk \in [Sector -> Data]
  /\ active \in BOOLEAN

\* A semaphore that starts at 1, as for mutual exclusion.
InitFreeSemaphore ==
  /\ ProgramInit([s \in Semaphore |-> 1])
  /\ disk \in [Sector -> Data]
  /\ active = FALSE

\* The constructors: the disk may hold anything.
SynchDiskInit ==
  /\ ProgramInit([s \in Semaphore |-> 0])
  /\ disk \in [Sector -> Data]
  /\ active = FALSE

--------------------------------------------------------------------------------

\* SynchDisk::ReadSector and WriteSector.
CallDisk(op) == Enter(<<"Acquire", op>>) /\ UNCHANGED diskVars

AcquireDisk(op) ==
  /\ InCall(<<"Acquire", op>>)
  /\ \/ AcquireYield(diskLock) /\ UNCHANGED pc
     \/ AcquireTake(diskLock) /\ Goto(<<"Request", op>>)
  /\ UNCHANGED <<diskVars, finished>>

\* What op leaves in its sector, and in the caller's buffer.
Transfer(op) == IF op.kind = "Write" THEN op.data ELSE disk[op.sector]

\* Disk::ReadRequest or WriteRequest, and into semaphore->P().
Request(op) ==
  /\ InCall(<<"Request", op>>)
  /\ disk' = [disk EXCEPT ![op.sector] = Transfer(op)]
  /\ active' = TRUE
  /\ DisableInterrupts
  /\ Goto(<<"Wait", op, Transfer(op)>>)
  /\ UNCHANGED <<synchVars, finished>>

WaitForInterrupt(op, data) ==
  /\ InCall(<<"Wait", op, data>>)
  /\ \/ PSleep(semaphore) /\ UNCHANGED pc
     \/ PTake(semaphore) /\ Goto(<<"Release", op, data>>)
  /\ UNCHANGED <<diskVars, finished>>

ReleaseDisk(op, data) ==
  /\ InCall(<<"Release", op, data>>)
  /\ Release(diskLock)
  /\ Goto(<<>>)
  /\ UNCHANGED <<diskVars, finished>>

\* Disk::HandleInterrupt, which calls SynchDisk::RequestDone.
HandleInterrupt ==
  /\ active
  /\ active' = FALSE
  /\ V(semaphore)
  /\ UNCHANGED <<disk, pc, finished>>

\* Interrupt::Idle does not halt the machine while an interrupt is pending.
DiskOtherStep ==
  /\ KernelStep
  /\ machineStatus = "IdleMode" /\ machineStatus' = "Halted" => ~ active
  /\ UNCHANGED diskVars

SynchDiskNext ==
  \/ DiskOtherStep
  \/ \E op \in DiskOp : CallDisk(op) \/ AcquireDisk(op) \/ Request(op)
  \/ \E op \in DiskOp, data \in Data : WaitForInterrupt(op, data) \/ ReleaseDisk(op, data)
  \/ HandleInterrupt

SynchDiskSpec == SynchDiskInit /\ [][SynchDiskNext]_SynchDiskVars

--------------------------------------------------------------------------------

InWait(t) == \E op \in DiskOp, data \in Data : pc[t] = <<"Wait", op, data>>

\* Disk::ReadRequest and WriteRequest assert "!active": "only one request at a
\* time".  What makes it so is the lock, kept until the interrupt has come.
OneRequestAtATime ==
  \A t \in Thread, op \in DiskOp : pc[t] = <<"Request", op>> => ~ active

\* Each interrupt answers the one request that is waiting for it: one thread
\* at a time waits, and it does as long as a request is in progress or a completion
\* not yet consumed.  A stray unit in the semaphore would let a later call return before
\* its own request is done, and a missing one would leave a thread asleep.
CompletionsMatch ==
  \/ (\A t \in Thread : ~ InWait(t)) /\ value[semaphore] = 0 /\ ~ active
  \/ \E w \in Thread :
       /\ \A t \in Thread : InWait(t) <=> t = w
       /\ (value[semaphore] = 1 /\ ~ active) \/ (value[semaphore] = 0 /\ active)

\* The device is working for the thread that holds the lock, and that thread's
\* call is done when the interrupt comes.
Client(t) ==
  IF pc[t] = <<>> THEN [phase |-> "idle"]
  ELSE IF pc[t][1] \in {"Acquire", "Request"} THEN [phase |-> "invoked", op |-> pc[t][2]]
  ELSE [phase |-> IF pc[t][1] = "Wait" /\ active THEN "performed" ELSE "done",
        op |-> pc[t][2], result |-> pc[t][3]]

Busy == IF active THEN heldThread[diskLock] ELSE NoThread

Store == INSTANCE SectorStore WITH
  Nobody <- NoThread,
  sectors <- disk,
  client <- [t \in Thread |-> Client(t)],
  busy <- Busy
StoreUnchanged ==
  /\ UNCHANGED disk
  /\ \A t \in Thread : Client(t)' = Client(t)
  /\ Busy' = Busy

\* synchdisk.h: "returning only once the data is actually read or written".
\* Calls of several threads behave as reads and writes done one at a time, each
\* between its call and its return and each finished by the device before it
\* returns.  The device is inactive when it is asked, as disk.cc asserts, and each
\* of its interrupts answers the one request that waits for it.
ImplementsStore ==
  /\ Store!StoreInit
  /\ [][Store!StoreNext \/ StoreUnchanged]_SynchDiskVars
  /\ [](SynchDiskTypeOK /\ OneRequestAtATime /\ CompletionsMatch)

\* What fairness speaks of, as for SynchSystem; and the device raises its
\* interrupt.
InDiskRoutine(t) ==
  /\ currentThread = t
  /\ \/ \E op \in DiskOp : AcquireDisk(op) \/ Request(op)
     \/ \E op \in DiskOp, data \in Data : WaitForInterrupt(op, data) \/ ReleaseDisk(op, data)

DiskSlice == TimeSlice /\ UNCHANGED diskVars
DiskDispatching == Schedule /\ UNCHANGED diskVars

================================================================================
