---------------------------- MODULE VirtualMemory ---------------------------
(* Demand paging: the page tables of AddrSpace, the frames of MemoryManager, *)
(* the swap file of SwapManager, the replacement list of LRU and the fault   *)
(* handler VMManager::Swap, used by the program started by StartProcess and  *)
(* the ones made by Fork and Exec.  A page or frame holds one value.  The    *)
(* kernel runs one thread at a time and gives it up only at lock operations, *)
(* so a fault is two steps: getAvailable, and the rest.                      *)
EXTENDS Integers, Sequences, FiniteSets, SequencesExt

CONSTANTS Main, Child,   \* the first process, and those Fork or Exec may make
          NumPages, NumLoaded, \* pages of a program; the first NumLoaded have code or data
          NumPhysPages, SwapSize,
          Value, Zero, Hole,   \* Hole: a swap page that was never written
          Image,               \* what the executable holds for the loaded pages
          Buffer,              \* pages a program passes to the Read system call
          NoOne

VARIABLES table,    \* pageTable of each process
          kind,     \* how the process came to be, or that it has exited
          taking,   \* the page for which a process found a free frame and goes on to take it
          memory,   \* machine->mainMemory
          used,     \* the bitmap of MemoryManager
          memLock,  \* who holds its lock
          slots,    \* SwapManager: PIDs, entries and file contents of the marked slots
          extent,   \* how many slots the swap file reaches
          lru,      \* the replacement list, head first
          stopped   \* the kernel was aborted

vars == <<table, kind, taking, memory, used, memLock, slots, extent, lru, stopped>>

Process == {Main} \cup Child
Page == 0 .. NumPages - 1
Frame == 0 .. NumPhysPages - 1
Loaded == 0 .. NumLoaded - 1
NoPage == -1

Unloaded == [v \in Page |-> [phys |-> -1, valid |-> FALSE, dirty |-> FALSE]]

\* The constructor of AddrSpace takes an id for the process and registers the
\* pages under it; Exec then gives the process another PCB with another id,
\* under which its faults are served.
SpacePid(p) == <<p, "space">>
FaultPid(p) == IF kind[p] = "exec" THEN <<p, "pcb">> ELSE SpacePid(p)

\* SwapManager::addPage for every page of the new space, in order: with the
\* contents read from the executable, or (the second form) with none.
LoadSlots(p) ==
    [i \in 1 .. NumPages |-> [pid |-> SpacePid(p), proc |-> p, vpn |-> i - 1,
                              data |-> IF i - 1 \in Loaded THEN Image[i - 1] ELSE Hole]]

Load(p, old) == old \o LoadSlots(p)
LoadExtent(oldSlots, oldExtent) == IF NumLoaded = 0 THEN oldExtent ELSE Len(oldSlots) + NumLoaded

\* The slots findPage and writePage accept for a page of a process.
Matches(pid, v) == {i \in DOMAIN slots : slots[i].pid = pid /\ slots[i].vpn = v}

FirstMatch(pid, v) == CHOOSE i \in Matches(pid, v) : \A j \in Matches(pid, v) : i <= j

\* OpenFile::ReadAt of a slot: beyond the end of the file nothing is read and
\* the frame keeps what it held; an unwritten part of the file reads as zero.
ReadSlot(i, s, ext, old) ==
    IF i > ext THEN old ELSE IF s[i].data = Hole THEN Zero ELSE s[i].data

Init ==
    /\ table = [p \in Process |-> Unloaded]
    /\ kind = [p \in Process |-> IF p = Main THEN "main" ELSE "none"]
    /\ taking = [p \in Process |-> NoPage]
    /\ memory = [f \in Frame |-> Zero]
    /\ used = {} /\ memLock = NoOne
    /\ slots = Load(Main, <<>>) /\ extent = LoadExtent(<<>>, 0)
    /\ lru = <<>> /\ stopped = FALSE

Runs(p) == ~stopped /\ kind[p] \in {"main", "fork", "exec"} /\ taking[p] = NoPage
MayLock(p) == memLock \in {NoOne, p}

Stop == stopped' = TRUE /\ UNCHANGED <<table, kind, taking, memory, used, memLock, slots, extent, lru>>

FirstFree == CHOOSE f \in Frame \ used : \A g \in Frame \ used : f <= g

\* The page is entered in the table whose entry its slot points to, and at the
\* head of the replacement list.
Mapped(f) == [phys |-> f, valid |-> TRUE, dirty |-> FALSE]
ReplaceHead(list, node) == <<node>> \o list
AddPage(list, i, pid) == ReplaceHead(list, [proc |-> slots[i].proc, vpn |-> slots[i].vpn, pid |-> pid])

\* getPage; when another thread took the last frame since getAvailable, it
\* returns -1 with the lock still held and the page is mapped to frame -1.
Take(p) ==
    LET v == taking[p]
        i == FirstMatch(FaultPid(p), v)
        f == IF used = Frame THEN -1 ELSE FirstFree
    IN  /\ ~stopped /\ v # NoPage /\ MayLock(p)
        /\ IF Matches(FaultPid(p), v) = {}
           THEN Stop                                  \* findPage returned NULL
           ELSE /\ taking' = [taking EXCEPT ![p] = NoPage]
                /\ table' = [table EXCEPT ![slots[i].proc][slots[i].vpn] = Mapped(f)]
                /\ lru' = AddPage(lru, i, FaultPid(p))
                /\ IF f = -1
                   THEN memLock' = p /\ UNCHANGED <<memory, used>>
                   ELSE /\ memLock' = NoOne /\ used' = used \cup {f}
                        /\ memory' = [memory EXCEPT ![f] = ReadSlot(i, slots, extent, memory[f])]
                /\ UNCHANGED <<kind, slots, extent, stopped>>

\* The victim is written back, when dirty, under the id of the faulting process.
WriteBack(pid, victim, f) ==
    IF ~table[victim.proc][victim.vpn].dirty THEN <<slots, extent>>
    ELSE LET j == FirstMatch(pid, victim.vpn)
         IN  <<[slots EXCEPT ![j].data = memory[f]], IF j > extent THEN j ELSE extent>>

\* GetLRU, and Remove_LRU_Page after AddPage.
Victim == Last(lru)
RemoveTail(list) == Front(list)

Evict(p, v) ==
    LET pid == FaultPid(p)
        i == FirstMatch(pid, v)
        f == table[Victim.proc][Victim.vpn].phys
        swapped == WriteBack(pid, Victim, f)
    IN  IF \/ lru = <<>> \/ kind[Victim.proc] = "exited"  \* no tail, or a deleted page table
           \/ table[Victim.proc][Victim.vpn].dirty /\ Matches(pid, Victim.vpn) = {}
           \/ Matches(pid, v) = {} \/ f = -1
        THEN Stop
        ELSE /\ table' = [table EXCEPT ![Victim.proc][Victim.vpn].valid = FALSE,
                                       ![slots[i].proc][slots[i].vpn] = Mapped(f)]
             /\ slots' = swapped[1] /\ extent' = swapped[2]
             /\ memory' = [memory EXCEPT ![f] = ReadSlot(i, slots', extent', memory[f])]
             /\ lru' = RemoveTail(AddPage(lru, i, pid))
             /\ memLock' = NoOne
             /\ UNCHANGED <<kind, taking, used, stopped>>

\* PageFaultHandler and VMManager::Swap up to the choice by getAvailable.
Fault(p, v) ==
    /\ Runs(p) /\ ~table[p][v].valid /\ MayLock(p)
    /\ IF used # Frame
       THEN /\ taking' = [taking EXCEPT ![p] = v] /\ memLock' = NoOne
            /\ UNCHANGED <<table, kind, memory, used, slots, extent, lru, stopped>>
       ELSE Evict(p, v)

\* Machine::Translate of a page that is in memory, for a store.
SetNothing(e) == e
SetDirty(e) == [e EXCEPT !.dirty = TRUE]

Write(p, v, x) ==
    /\ Runs(p) /\ table[p][v].valid
    /\ IF table[p][v].phys = -1
       THEN Stop                                      \* BusErrorException
       ELSE /\ memory' = [memory EXCEPT ![table[p][v].phys] = x]
            /\ table' = [table EXCEPT ![p][v] = SetDirty(@)]
            /\ UNCHANGED <<kind, taking, used, memLock, slots, extent, lru, stopped>>

\* The Read system call: ReadWrite translates the buffer's address itself, for
\* reading, and ignores the exception it gets for a page that is not in memory:
\* the data goes to an address that was never computed.
ReadWrite(p, v, x) ==
    /\ Runs(p) /\ v \in Buffer
    /\ \/ \E f \in Frame : /\ table[p][v].valid => f = table[p][v].phys
                           /\ memory' = [memory EXCEPT ![f] = x]
                           /\ UNCHANGED stopped
       \/ ~table[p][v].valid /\ stopped' = TRUE /\ UNCHANGED memory
    /\ UNCHANGED <<table, kind, taking, used, memLock, slots, extent, lru>>

\* AddrSpace::Duplicate: a frame for each page of the child while there are any,
\* the bits of the parent's entry, and no contents.
DuplicateShares(p) == table[p]
Frames(k) == SetToSortSeq(Frame \ used, <)[k]
Duplicate(p) ==
    [v \in Page |-> [table[p][v] EXCEPT !.phys =
        IF v < Cardinality(Frame \ used) THEN Frames(v + 1) ELSE -1]]

Fork(p, c) ==
    LET t == Duplicate(p)
    IN  /\ Runs(p) /\ kind[c] = "none" /\ MayLock(p)
        /\ table' = [table EXCEPT ![c] = t]
        /\ kind' = [kind EXCEPT ![c] = "fork"]
        /\ used' = used \cup ({t[v].phys : v \in Page} \ {-1})
        /\ memLock' = IF NumPages > Cardinality(Frame \ used) THEN p ELSE NoOne
        /\ UNCHANGED <<taking, memory, slots, extent, lru, stopped>>

\* Exec loads the program; without room in the swap file Nachos exits.
Exec(p, c) ==
    /\ Runs(p) /\ kind[c] = "none"
    /\ IF Len(slots) + NumPages > SwapSize
       THEN Stop
       ELSE /\ slots' = Load(c, slots) /\ extent' = LoadExtent(slots, extent)
            /\ kind' = [kind EXCEPT ![c] = "exec"]
            /\ UNCHANGED <<table, taking, memory, used, memLock, lru, stopped>>

\* Exit deletes the space: the frames of the pages in memory are freed; their
\* slots and their places in the replacement list stay.
Held(p) == {table[p][v].phys : v \in {u \in Page : table[p][u].valid}}

Exit(p) ==
    /\ Runs(p) /\ (Held(p) # {} => MayLock(p))
    /\ IF -1 \in Held(p)
       THEN Stop                                      \* BitMap::Clear asserts
       ELSE /\ used' = used \ Held(p)
            /\ memLock' = IF Held(p) = {} THEN memLock ELSE NoOne
            /\ kind' = [kind EXCEPT ![p] = "exited"]
            /\ UNCHANGED <<table, taking, memory, slots, extent, lru, stopped>>

Next ==
    \E p \in Process :
        \/ Take(p)
        \/ Exit(p)
        \/ \E v \in Page : Fault(p, v)
        \/ \E v \in Page, x \in Value : Write(p, v, x) \/ ReadWrite(p, v, x)
        \/ \E c \in Child : Fork(p, c) \/ Exec(p, c)

-----------------------------------------------------------------------------
Live(p) == kind[p] \in {"main", "fork", "exec"}

TypeOK ==
    /\ table \in [Process -> [Page -> [phys : Frame \cup {-1}, valid : BOOLEAN, dirty : BOOLEAN]]]
    /\ kind \in [Process -> {"main", "none", "fork", "exec", "exited"}]
    /\ taking \in [Process -> Page \cup {NoPage}]
    /\ memory \in [Frame -> Value]
    /\ used \subseteq Frame /\ memLock \in Process \cup {NoOne}
    /\ slots \in Seq([pid : Process \X {"space", "pcb"}, proc : Process, vpn : Page, data : Value \cup {Hole}])
    /\ Len(slots) <= SwapSize /\ extent \in 0 .. Len(slots)
    /\ lru \in Seq([proc : Process, vpn : Page, pid : Process \X {"space", "pcb"}])
    /\ stopped \in BOOLEAN

\* No two pages in memory share a frame, and none is in a frame that getPage
\* would hand out again (memorymanager.cc getPage and clearPage against the
\* page tables written by Swap, Duplicate and the destructor of AddrSpace).
FramesExclusive ==
    \A p, q \in Process : \A u, v \in Page :
        Live(p) /\ Live(q) /\ table[p][u].valid /\ table[q][v].valid /\ table[p][u].phys # -1 =>
            /\ table[p][u].phys \in used
            /\ table[p][u].phys = table[q][v].phys => p = q /\ u = v

\* While nothing was forked or executed, the replacement list holds each page
\* that is in memory once and nothing else, so a victim is always found and is
\* never a page that is already out (lru.cc AddPage and Remove_LRU_Page).
ListIsResident ==
    (\A c \in Child : kind[c] = "none") /\ Live(Main) =>
        /\ Len(lru) = Cardinality({v \in Page : table[Main][v].valid})
        /\ \A v \in Page : table[Main][v].valid => \E k \in DOMAIN lru : lru[k].vpn = v

\* What a process finds in a page, wherever the page is.
Content(p, v) ==
    LET e == table[p][v]
        data == slots[FirstMatch(SpacePid(p), v)].data
    IN  IF e.valid /\ (e.dirty \/ data # Hole) THEN memory[e.phys] ELSE data

MemoryOfMain == [v \in Page |-> IF Live(Main) THEN Content(Main, v) ELSE Hole]

\* The memory a program may rely on: the pages of code and initialised data start
\* with the image of the executable file, nothing is promised of the others before
\* the first store, and when the program exits its memory is gone.
Stored(v, x) == MemoryOfMain' = [MemoryOfMain EXCEPT ![v] = x]
Dropped == MemoryOfMain' = [v \in Page |-> Hole]

\* Paging is invisible: a page of the program holds what was last stored in it
\* or loaded from its file, and only the program's own stores change it, not the
\* faults, evictions and write backs in between (vmManager.cc Swap,
\* swapManager.cc findPage and writePage).
MemoryInit == MemoryOfMain = [v \in Page |-> IF v \in Loaded THEN Image[v] ELSE Hole]
MemoryNext ==
    \/ \E v \in Page, x \in Value : Write(Main, v, x) /\ (stopped' \/ Stored(v, x))
    \/ Exit(Main) /\ (stopped' \/ Dropped)
    \/ UNCHANGED MemoryOfMain

\* "Fork a thread to run a procedure in the *same* address space as the current
\* thread" (syscall.h:117): at first the child reads what its parent reads.
ForkSees ==
    \A p \in Process, c \in Child : Fork(p, c) =>
        \A v \in Page : table[p][v].valid /\ table'[c][v].phys # -1 =>
            memory'[table'[c][v].phys] = memory[table[p][v].phys]

=============================================================================
