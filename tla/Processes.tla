------------------------------- MODULE Processes -------------------------------
(***************************************************************************)
(* Processes and the system calls Fork, Exec, Join and Exit                *)
(* (userprog/exception.cc) over the process manager                        *)
(* (userprog/processmanager.cc): a bitmap of process ids, and a PCB, a     *)
(* lock and a condition for each id, guarded by pmLock.                    *)
(*                                                                         *)
(* Every process has one thread, and its PCB, its lock and its condition   *)
(* are named after it: Condition is Thread, and Lock is Thread with        *)
(* pmLock.  A section that takes pmLock, blocks on nothing and releases it *)
(* is one step; the sections that wait for another lock while they hold    *)
(* pmLock are cut there.                                                   *)
(***************************************************************************)
EXTENDS Monitors, Integers, FiniteSets

CONSTANTS
  Main,          \* the process StartProcess loads
  MaxProcesses,  \* MAX_PROCESSES
  pmLock,        \* ProcessManager::pmLock
  Ghost          \* a PCB no process has: AddrSpace's, which Exec replaces

Pid == 0..(MaxProcesses - 1)
NULL == -1
Junk == -2  \* a pointer never assigned
NoPid == -1

\* Each process has a lock and a condition of its own, and a process is told from
\* whatever else a PCB pointer or the owner of a lock can be.
ProcessesAssumption ==
  /\ MaxProcesses \in Nat \ {0}
  /\ Main \in Thread /\ {NoThread, Ghost, NULL, Junk} \cap Thread = {}
  /\ Lock = Thread \cup {pmLock} /\ pmLock \notin Thread /\ Condition = Thread

VARIABLES
  marked,    \* ProcessManager::processes
  pcbs,      \* ProcessManager::pcbs
  locks,     \* ProcessManager::locks and conditions
  freed,     \* the processes whose lock and condition have been deleted
  status,    \* PCB::status: -1 at first, 3 (BLOCKED) or 1 (RUNNING) by Join
  pid,       \* PCB::pid of each process
  finished,  \* the threads that have called Finish
  pc,        \* where a process is in its system call
  crashed    \* why the kernel has stopped: a failed assertion or a bad pointer

tableVars == <<marked, pcbs, locks, freed>>
vars == <<monitorVars, tableVars, status, pid, finished, pc, crashed>>

Started(t) == pc[t] # <<"unborn">>

\* Tables, PCBs and calls are well typed.
TypeOK ==
  /\ MonitorTypeOK
  /\ marked \subseteq Pid /\ freed \subseteq Thread /\ finished \subseteq Thread
  /\ pcbs \in [Pid -> Thread \cup {Ghost, NULL, Junk}]
  /\ locks \in [Pid -> Thread \cup {Ghost, NULL, Junk}]
  /\ status \in [Thread -> {-1, 1, 3}]
  /\ pid \in [Thread -> Pid \cup {NoPid}]

\* Initialize, and StartProcess with the constructor of AddrSpace.
Init ==
  /\ MonitorInit([s \in Semaphore |-> 0])
  /\ marked = {0} /\ freed = {} /\ finished = {}
  /\ pcbs = [p \in Pid |-> IF p = 0 THEN Main ELSE Junk]
  /\ locks = pcbs
  /\ status = [t \in Thread |-> -1]
  /\ pid = [t \in Thread |-> IF t = Main THEN 0 ELSE NoPid]
  /\ pc = [t \in Thread |-> IF t = Main THEN <<>> ELSE <<"unborn">>]
  /\ crashed = "no"

--------------------------------------------------------------------------------

Running == crashed = "no"
At(t, label) == Running /\ pc[t] # <<>> /\ pc[t][1] = label
Goto(t, call) == pc' = [pc EXCEPT ![t] = call]
Free(l, t) == held[l] \in {NoThread, t}

Crash(why) ==
  /\ crashed' = why
  /\ UNCHANGED <<monitorVars, tableVars, status, pid, finished, pc>>

\* A search that does not mark what it finds.
FindUnmarked(taken) == marked

\* BitMap::Find, which marks what it finds.
Found(taken) == IF taken = NoPid THEN marked ELSE marked \cup {taken}

\* ProcessManager::getPID: the first clear bit.
FirstClear(used) ==
  IF Pid \subseteq used THEN NoPid
  ELSE CHOOSE p \in Pid \ used : \A q \in Pid \ used : p <= q

\* ProcessManager::insertProcess; the new process starts.
Insert(p, owner) ==
  /\ pcbs' = [pcbs EXCEPT ![p] = owner]
  /\ locks' = [locks EXCEPT ![p] = owner]
  /\ UNCHANGED freed

--------------------------------------------------------------------------------
(***************************************************************************)
(* Fork and Exec by t of a process that thread u will run.                 *)
(***************************************************************************)

\* myFork up to insertProcess: one id, and an assertion that there was one.
CallFork(t, u) ==
  /\ Running /\ pc[t] = <<>> /\ ~ Started(u)
  /\ LET p == FirstClear(marked)
     IN IF p = NoPid THEN Crash("no pid")
        ELSE /\ marked' = Found(p)
             /\ pid' = [pid EXCEPT ![u] = p]
             /\ pc' = [pc EXCEPT ![t] = <<"insert", u>>, ![u] = <<"starting">>]
             /\ UNCHANGED <<monitorVars, pcbs, locks, freed, status, finished, crashed>>

\* procManager->insertProcess, and thread->Fork.
InsertProcess(t, u) ==
  /\ At(t, "insert") /\ pc[t] = <<"insert", u>>
  /\ Free(pmLock, t)
  /\ Insert(pid[u], u)
  /\ pc' = [pc EXCEPT ![t] = <<>>, ![u] = <<>>]
  /\ UNCHANGED <<monitorVars, marked, status, pid, finished, crashed>>

\* myExec: the constructor of AddrSpace takes an id for a PCB of its own (with
\* none left it would write in front of the table) ...
CallExec(t, u) ==
  /\ Running /\ pc[t] = <<>> /\ ~ Started(u)
  /\ LET p == FirstClear(marked)
     IN IF p = NoPid THEN Crash("no pid")
        ELSE /\ marked' = Found(p)
             /\ pc' = [pc EXCEPT ![t] = <<"space", u, p>>, ![u] = <<"starting">>]
             /\ UNCHANGED <<monitorVars, pcbs, locks, freed, status, pid, finished, crashed>>

InsertSpace(t, u) ==
  /\ At(t, "space") /\ pc[t][2] = u
  /\ Free(pmLock, t)
  /\ Insert(pc[t][3], Ghost)
  /\ Goto(t, <<"exec", u>>)
  /\ UNCHANGED <<monitorVars, marked, status, pid, finished, crashed>>

\* ... and myExec two more, of which it keeps the second.
ExecPids(t, u) ==
  /\ At(t, "exec") /\ pc[t][2] = u
  /\ LET first == FirstClear(marked)
         second == FirstClear(marked \cup {first})
     IN IF second = NoPid THEN Crash("no pid")
        ELSE /\ marked' = marked \cup {first, second}
             /\ pid' = [pid EXCEPT ![u] = second]
             /\ Goto(t, <<"insert", u>>)
             /\ UNCHANGED <<monitorVars, pcbs, locks, freed, status, finished, crashed>>

--------------------------------------------------------------------------------
(***************************************************************************)
(* Join.                                                                   *)
(***************************************************************************)

\* myJoin: "status = BLOCKED", then getStatus.
CallJoin(t, p) ==
  /\ Running /\ pc[t] = <<>>
  /\ status' = [status EXCEPT ![t] = 3]
  /\ Goto(t, <<"status", p, "first">>)
  /\ UNCHANGED <<monitorVars, tableVars, pid, finished, crashed>>

\* What myJoin does with the result of getStatus.
StatusReturns(t, result) ==
  Goto(t, IF pc[t][3] = "first" /\ result < 0 THEN <<"status", pc[t][2], "last">>
          ELSE IF pc[t][3] = "first" THEN <<"join", pc[t][2]>>
          ELSE <<>>)

\* BitMap::Test asserts that the bit exists; the test before it lets
\* MAX_PROCESSES through.
InRange(p) == p < MaxProcesses

\* ProcessManager::getStatus: the test under pmLock ...
GetStatus(t) ==
  /\ At(t, "status")
  /\ Free(pmLock, t)
  /\ LET p == pc[t][2]
     IN IF ~ InRange(p) THEN Crash("range")
        ELSE /\ IF p \in marked THEN Goto(t, <<"read", p, pc[t][3]>>)
                ELSE StatusReturns(t, -1)
             /\ UNCHANGED <<monitorVars, tableVars, status, pid, finished, crashed>>

PcbStatus(p) == IF pcbs[p] = Ghost THEN -1 ELSE status[pcbs[p]]

\* ... and the read after its release.
ReadStatus(t) ==
  /\ At(t, "read")
  /\ LET p == pc[t][2]
     IN IF pcbs[p] \in {NULL, Junk} THEN Crash("status")
        ELSE /\ StatusReturns(t, PcbStatus(p))
             /\ UNCHANGED <<monitorVars, tableVars, status, pid, finished, crashed>>

\* "status = RUNNING", and getStatus for the result.
Joined(t, p) ==
  /\ status' = [status EXCEPT ![t] = 1]
  /\ Goto(t, <<"status", p, "last">>)

\* ProcessManager::join up to locks[pid]->Acquire(), under pmLock.
JoinStart(t) ==
  /\ At(t, "join")
  /\ LET p == pc[t][2]
     IN \/ /\ p \notin marked /\ Free(pmLock, t)
           /\ Joined(t, p)
           /\ UNCHANGED <<monitorVars, tableVars, pid, finished, crashed>>
        \/ /\ p \in marked
           /\ Acquire(t, pmLock)
           /\ Goto(t, <<"join lock", p>>)
           /\ UNCHANGED <<tableVars, status, pid, finished, crashed>>

\* locks[pid]->Acquire(), and pmLock->Release().  A Ghost's status is negative:
\* nobody gets here for its id.
JoinLock(t) ==
  /\ At(t, "join lock")
  /\ LET p == pc[t][2]
     IN IF locks[p] \notin Thread THEN Crash("join")
        ELSE /\ Free(locks[p], t)
             /\ held' = [held EXCEPT ![locks[p]] = t, ![pmLock] = NoThread]
             /\ Goto(t, <<"join test", p>>)
             /\ UNCHANGED <<waiting, value, tableVars, status, pid, finished, crashed>>

\* A join that keeps the lock when it finds the process blocked.
KeepLock(t, p) == UNCHANGED monitorVars

\* locks[pid]->Release() on the way out of join.
JoinUnlock(t, p) == Release(t, locks[p])

\* The loop of join, "if(pcbs[pid]->status > 1)" under pmLock.
JoinTest(t) ==
  /\ At(t, "join test")
  /\ Free(pmLock, t)
  /\ LET p == pc[t][2]
     IN IF pcbs[p] \notin Thread THEN Crash("join")
        ELSE /\ IF status[pcbs[p]] > 1
                THEN JoinUnlock(t, p) /\ Joined(t, p)
                ELSE Goto(t, <<"join wait", p>>) /\ UNCHANGED <<monitorVars, status>>
             /\ UNCHANGED <<tableVars, pid, finished, crashed>>

\* conditions[pid]->Wait(locks[pid]), which returns at once to a caller that
\* does not hold the lock.
JoinWait(t) ==
  /\ At(t, "join wait")
  /\ LET p == pc[t][2]
     IN IF locks[p] \notin Thread THEN Crash("join")
        ELSE /\ IF held[locks[p]] = t
                THEN Wait(t, locks[p], locks[p]) /\ Goto(t, <<"woken", p, locks[p]>>)
                ELSE Goto(t, <<"join test", p>>) /\ UNCHANGED monitorVars
             /\ UNCHANGED <<tableVars, status, pid, finished, crashed>>

\* The end of Wait: conditionLock->Acquire(), which may be a lock that has been
\* deleted; memory still as it was lets the thread through, else it spins.
JoinWoken(t) ==
  /\ At(t, "woken")
  /\ LET l == pc[t][3]
     IN /\ ~ IsWaiting(t, l)
        /\ IF l \in freed THEN UNCHANGED monitorVars ELSE Acquire(t, l)
  /\ Goto(t, <<"join test", pc[t][2]>>)
  /\ UNCHANGED <<tableVars, status, pid, finished, crashed>>

--------------------------------------------------------------------------------
(***************************************************************************)
(* Exit: Broadcast, then clearPID, each of which holds pmLock while it     *)
(* waits for the process's own lock.                                       *)
(***************************************************************************)

CallExit(t) ==
  /\ Running /\ pc[t] = <<>>
  /\ Acquire(t, pmLock)
  /\ Goto(t, <<"broadcast">>)
  /\ UNCHANGED <<tableVars, status, pid, finished, crashed>>

Broadcast(t) ==
  /\ At(t, "broadcast")
  /\ Free(t, t)
  /\ waiting' = [waiting EXCEPT ![t] = <<>>]
  /\ held' = [held EXCEPT ![pmLock] = NoThread]
  /\ Goto(t, <<"delete space">>)
  /\ UNCHANGED <<value, tableVars, status, pid, finished, crashed>>

StartClear(t) ==
  /\ At(t, "delete space")
  /\ Acquire(t, pmLock)
  /\ Goto(t, <<"clear">>)
  /\ UNCHANGED <<tableVars, status, pid, finished, crashed>>

\* clearPID once it has locks[pid], and Finish.
ClearPID(t) ==
  /\ At(t, "clear")
  /\ Free(t, t)
  /\ pcbs' = [pcbs EXCEPT ![pid[t]] = NULL]
  /\ locks' = [locks EXCEPT ![pid[t]] = NULL]
  /\ freed' = freed \cup {t}
  /\ marked' = marked \ {pid[t]}
  /\ held' = [held EXCEPT ![pmLock] = NoThread]
  /\ finished' = finished \cup {t}
  /\ Goto(t, <<"finished">>)
  /\ UNCHANGED <<waiting, value, status, pid, crashed>>

InCall(t) ==
  \/ \E u \in Thread : InsertProcess(t, u) \/ InsertSpace(t, u) \/ ExecPids(t, u)
  \/ GetStatus(t) \/ ReadStatus(t)
  \/ JoinStart(t) \/ JoinLock(t) \/ JoinTest(t) \/ JoinWait(t) \/ JoinWoken(t)
  \/ Broadcast(t) \/ StartClear(t) \/ ClearPID(t)

\* Processes make any calls in any order; Join takes any id, MAX_PROCESSES too.
Next ==
  \E t \in Thread :
    \/ InCall(t)
    \/ \E u \in Thread : CallFork(t, u) \/ CallExec(t, u)
    \/ \E p \in 0..MaxProcesses : CallJoin(t, p)
    \/ CallExit(t)

Spec == Init /\ [][Next]_vars

--------------------------------------------------------------------------------

\* syscall.h:54, "A unique identifier for an executing user program": from the
\* moment a process is entered until clearPID, its id is marked, leads to its own
\* PCB and lock, and is nobody else's, whichever processes exit and start.
UniqueIds ==
  \A t \in Thread \ finished :
    Started(t) /\ pc[t] # <<"starting">> =>
      /\ pid[t] \in marked /\ pcbs[pid[t]] = t /\ locks[pid[t]] = t
      /\ \A u \in Thread \ finished : u # t => pid[u] # pid[t]

\* An id that was handed out leads to its process and is nobody else's.
NumbersExclusive == TypeOK /\ UniqueIds

\* Every path through the process manager gives back what it took, the paths
\* that leave the loop of join and those through deleted locks included: between
\* its calls, and after its end, a process holds no lock.
NoLockLeft ==
  \A t \in Thread : pc[t] \in {<<>>, <<"finished">>} => \A l \in Lock \ freed : held[l] # t

\* Threads that can go on do, at the ticks of the others.
FairSpec == Spec /\ \A t \in Thread : SF_vars(InCall(t))

\* syscall.h:51, "This user program is done": a process that calls Exit finishes.
ExitFinishes ==
  \A t \in Thread :
    pc[t] = <<"broadcast">> ~> t \in finished \/ ~ Running

================================================================================
