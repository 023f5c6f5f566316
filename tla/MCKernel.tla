------------------------------- MODULE MCKernel --------------------------------
(***************************************************************************)
(* Small instances of the kernel's list, its two monitors (SynchList and   *)
(* SynchDisk), the console and the interrupt simulation, checked side by   *)
(* side: a behaviour is one of a single part, chosen at the start, and the *)
(* variables of the other parts are not used in it.  Variables of the same *)
(* name serve several parts.                                               *)
(*                                                                         *)
(* Three threads are what it takes for a remover to come in between the    *)
(* wakeup of another and its return, and for two requests to queue up      *)
(* behind the one the disk works on.  The tick of the kernel is twice a    *)
(* user's, the timer's period spans several ticks, and a device may answer *)
(* before or after the timer or at the same time.                          *)
(***************************************************************************)
EXTENDS Synch

CONSTANTS
  Parts,                                                      \* the parts looked at
  MaxAppends, listLock, listEmpty,                            \* SynchList
  Sector, Data, diskLock, semaphore,                          \* SynchDisk
  readAvail, writeDone, Char, EOF, MaxTyped,                  \* Console
  Element, Item, Key, NULL,                                   \* LinkedList
  SystemTick, UserTick, TimerDelay, DeviceDelay, MaxRequests  \* Interrupts

VARIABLES
  part,
  list, appended, removed,                                      \* SynchList
  disk, active,                                                 \* SynchDisk
  incoming, putBusy, ch, keyboard, typed, display,              \* Console
  first, last, next, item, key, allocated, got,                 \* LinkedList
  pending, yieldOnReturn, routine, ready, blocked, saved, mode  \* Interrupts

shared == <<currentThread, status, level>>
program == <<readyList, threadToBeDestroyed, resume, machineStatus, value, semQueue,
             heldThread, condQueue, pc, finished>>
synchList == <<list, appended, removed>>
synchDisk == <<disk, active>>
console == <<incoming, putBusy, ch, keyboard, typed, display>>
cells == <<first, last, next, item, key, allocated, got>>
interrupts == <<pending, yieldOnReturn, routine, ready, blocked, saved, mode>>
vars == <<part, shared, program, synchList, synchDisk, console, cells, interrupts>>

L == INSTANCE SynchList
D == INSTANCE SynchDisk
C == INSTANCE Console
Q == INSTANCE LinkedList
I == INSTANCE Interrupts

\* What the parts' theorems assume.
ASSUME PartAssumptions ==
  L!SynchListAssumption /\ D!SynchDiskAssumption /\ C!ConsoleAssumption /\ I!PositiveDelays

--------------------------------------------------------------------------------

Unused == "unused"
SharedUnused == currentThread = Unused /\ status = Unused /\ level = Unused
ProgramUnused ==
  /\ readyList = Unused /\ threadToBeDestroyed = Unused /\ resume = Unused
  /\ machineStatus = Unused /\ value = Unused /\ semQueue = Unused
  /\ heldThread = Unused /\ condQueue = Unused /\ pc = Unused /\ finished = Unused
ListUnused == list = Unused /\ appended = Unused /\ removed = Unused
DiskUnused == disk = Unused /\ active = Unused
ConsoleUnused ==
  /\ incoming = Unused /\ putBusy = Unused /\ ch = Unused
  /\ keyboard = Unused /\ typed = Unused /\ display = Unused
CellsUnused ==
  /\ first = Unused /\ last = Unused /\ next = Unused /\ item = Unused
  /\ key = Unused /\ allocated = Unused /\ got = Unused
InterruptsUnused ==
  /\ pending = Unused /\ yieldOnReturn = Unused /\ routine = Unused
  /\ ready = Unused /\ blocked = Unused /\ saved = Unused /\ mode = Unused

Init ==
  /\ part \in Parts
  /\ \/ /\ part = "SynchList" /\ L!SynchListInit
        /\ DiskUnused /\ ConsoleUnused /\ CellsUnused /\ InterruptsUnused
     \/ /\ part = "SynchDisk" /\ D!SynchDiskInit
        /\ ListUnused /\ ConsoleUnused /\ CellsUnused /\ InterruptsUnused
     \/ /\ part = "Console" /\ C!ConsoleInit
        /\ ListUnused /\ DiskUnused /\ CellsUnused /\ InterruptsUnused
     \/ /\ part = "List" /\ Q!Init /\ SharedUnused /\ ProgramUnused
        /\ ListUnused /\ DiskUnused /\ ConsoleUnused /\ InterruptsUnused
     \/ /\ part = "Interrupt" /\ I!Init /\ ProgramUnused
        /\ ListUnused /\ DiskUnused /\ ConsoleUnused /\ CellsUnused

\* A step of one part.
InSynchList(A) ==
  part = "SynchList" /\ A /\ UNCHANGED <<part, synchDisk, console, cells, interrupts>>
InSynchDisk(A) ==
  part = "SynchDisk" /\ A /\ UNCHANGED <<part, synchList, console, cells, interrupts>>
InConsole(A) ==
  part = "Console" /\ A /\ UNCHANGED <<part, synchList, synchDisk, cells, interrupts>>
InList(A) ==
  /\ part = "List" /\ A
  /\ UNCHANGED <<part, shared, program, synchList, synchDisk, console, interrupts>>
InInterrupt(A) ==
  part = "Interrupt" /\ A /\ UNCHANGED <<part, program, synchList, synchDisk, console, cells>>

Next ==
  \/ InSynchList(L!SynchListNext)
  \/ InSynchDisk(D!SynchDiskNext)
  \/ InConsole(C!ConsoleNext)
  \/ InList(Q!Next)
  \/ InInterrupt(I!Next)

\* As for SynchSystem: the timer slices, the scheduler goes on, and a thread that is
\* dispatched again and again gets through its routine.  The disk and the console
\* raise the interrupts they have scheduled, and the console's poll comes back.
\* The interrupt simulation itself, and code on its way to the next tick, go on.
\* (As the parts exclude each other, fairness of a disjunction over them is fairness
\* for each.)
Fairness ==
  /\ SF_vars(InSynchList(L!ListSlice) \/ InSynchDisk(D!DiskSlice) \/ InConsole(C!CheckCharAvail)
               \/ InInterrupt(I!Ticks))
  /\ \A t \in Thread :
       SF_vars(InSynchList(L!InListRoutine(t)) \/ InSynchDisk(D!InDiskRoutine(t))
                 \/ (t = Main /\ InConsole(C!InConsoleTest)))
  /\ SF_vars(InSynchDisk(D!HandleInterrupt) \/ InConsole(C!WriteDone))
  /\ WF_vars(InSynchList(L!ListDispatching) \/ InSynchDisk(D!DiskDispatching)
               \/ InConsole(C!ConsoleDispatching) \/ InInterrupt(I!Handling))
  /\ WF_vars(InInterrupt(I!CodeRuns))

Spec == Init /\ [][Next]_vars

FairSpec == Spec /\ Fairness

--------------------------------------------------------------------------------
(***************************************************************************)
(* The properties, stated for the part they are about; the reasons are     *)
(* given where the parts define them.  Each part's type invariant goes with *)
(* one of its properties.                                                  *)
(***************************************************************************)

\* No item of a SynchList is lost, returned twice or overtaken, and Append wakes a
\* remover for every item: none sleeps past an item on the list.
NoItemLost == part = "SynchList" => L!NoItemLost

\* synchdisk.h: "returning only once the data is actually read or written".
\* Calls of several threads behave as reads and writes done one at a time, each
\* between its call and its return and each finished by the device before it
\* returns.  The device is inactive when it is asked, as disk.cc asserts, and each
\* of its interrupts answers the one request that waits for it.
ImplementsStore ==
  /\ part = "SynchDisk" => D!Store!StoreInit
  /\ [][part = "SynchDisk" => D!Store!StoreNext \/ D!StoreUnchanged]_vars
  /\ [](part = "SynchDisk" =>
          D!SynchDiskTypeOK /\ D!OneRequestAtATime /\ D!CompletionsMatch)

\* What is displayed, buffered and unread makes up what was typed at the console;
\* each unit of readAvail stands for a character in its buffer, and PutChar finds
\* the display free, as it asserts.
CharactersKept == part = "Console" => C!CharactersKept

\* The links and the end pointers of a List agree after every operation: "last" is
\* the element without a successor on the way from "first", no element is lost or
\* met twice, and each operation does to the walk what list.h promises.
ImplementsSequence ==
  /\ part = "List" => Q!Promise!Init
  /\ [][part = "List" => Q!Promise!Next \/ Q!PromiseUnchanged]_vars
  /\ [](part = "List" => Q!TypeOK)

\* Interrupt's pending list keeps what is put on it: it stays sorted, with no device
\* overdue when a thread's code runs, the timer is on it exactly once, and Idle
\* halts only when no thread can run and only the timer is pending.
NoInterruptLost == part = "Interrupt" => I!NoInterruptLost

\* The machine status is the mode of the code that is running, whatever the threads
\* that ran in between did to it, and a time slice requested while the machine
\* idled is not charged to the thread that runs next.
StatusFollowsThread == part = "Interrupt" => I!StatusFollowsThread

--------------------------------------------------------------------------------

\* SynchList::Remove, "Wait if the list is empty": an item on the list and a
\* sleeping remover do not last, once no more threads walk the list.  (The lock
\* has no queue: threads that take it for Mapcar again and again can have it
\* whenever the remover that was woken looks.)
RemoverServed ==
  <>[](part = "SynchList" => ~ L!Walking) =>
    (part = "SynchList" /\ L!Unserved
       ~> (part = "SynchList" => ~ L!Unserved \/ machineStatus = "Halted"))

\* SynchDisk, "it waits around until the operation finishes before returning": the
\* thread that waits for its request (there is one at a time) gets its answer.
RequestReturns ==
  part = "SynchDisk" /\ (\E t \in Thread : D!InWait(t))
    ~> (part = "SynchDisk" => (\A t \in Thread : ~ D!InWait(t)) \/ machineStatus = "Halted")

\* A character that waits in the console's buffer is echoed, unless a 'q' before
\* it ended ConsoleTest.
EchoHappens ==
  part = "Console" /\ incoming # EOF
    ~> (part = "Console" => incoming = EOF \/ machineStatus = "Halted")

\* Every interrupt a device schedules is delivered: the list does not keep one.
DevicesAnswer ==
  part = "Interrupt" /\ I!DevicePending ~> (part = "Interrupt" => ~ I!DevicePending)

\* Whatever a thread waits for in the kernel comes: the item on the list, the
\* answer of the disk, the character at the console, the interrupt of a device.
EveryWaitEnds == RemoverServed /\ RequestReturns /\ EchoHappens /\ DevicesAnswer

================================================================================
