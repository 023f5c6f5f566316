------------------------------ MODULE OpenFiles -----------------------------
(* The file system calls of user programs: the file array of each PCB and    *)
(* the kernel's table of open files.  The kernel stops at a failed assertion *)
(* and at a NULL or uninitialised pointer it follows.                        *)
EXTENDS Integers, FiniteSets

CONSTANTS Process, Name,
          TableSize,   \* SOFILETABLE_SIZE
          MaxFiles,    \* MAX_FILES of a PCB
          None, Null

ConsoleInput == 0
ConsoleOutput == 1
Index == 0 .. TableSize - 1
Slot == 0 .. MaxFiles - 1

VARIABLES disk,       \* names of the files that exist
          openFiles,  \* the manager's bitmap
          openFileTable,  \* name of the file each entry was made for
          fileArray,  \* per process: indexPosition of the file in each slot
          returned,   \* ids that Open has returned to each process
          stopped     \* why the kernel stopped, if it has

vars == <<disk, openFiles, openFileTable, fileArray, returned, stopped>>

Init ==
    /\ disk \in SUBSET Name
    /\ openFiles = {} /\ openFileTable = [i \in Index |-> None]
    /\ fileArray = [p \in Process |-> [s \in Slot |-> None]]
    /\ returned = [p \in Process |-> {}]
    /\ stopped = "no"

Runs == stopped = "no"
Stop(why) == stopped' = why /\ UNCHANGED <<disk, openFiles, openFileTable, fileArray, returned>>

\* fileSystem->Create must succeed; on the host it does, also for an old file.
Create(name) ==
    /\ Runs /\ disk' = disk \cup {name}
    /\ UNCHANGED <<openFiles, openFileTable, fileArray, returned, stopped>>

\* SysOpenFileManager::Get(name): the loop looks at the entries up to the first
\* free one and compares their names; an entry made by Add has none (a NULL).
Scanned == {i \in Index : \A j \in 0 .. i : j \in openFiles}
ComparesNull(name) == \E i \in Scanned : openFileTable[i] = Null /\ \A j \in 0 .. i - 1 : openFileTable[j] # name

\* SysOpenFileManager::Add: BitMap::Find, and a blank entry.
AddIndex == IF openFiles = Index THEN -1 ELSE CHOOSE i \in Index \ openFiles : \A j \in Index \ openFiles : i <= j
Add(i) ==
    /\ openFiles' = IF i = -1 THEN openFiles ELSE openFiles \cup {i}
    /\ openFileTable' = IF i = -1 THEN openFileTable ELSE [openFileTable EXCEPT ![i] = Null]

\* PCB::Add asks a bitmap that no constructor made: it finds something there,
\* or the kernel stops.
PcbAdd(p, slot, index) == [fileArray EXCEPT ![p] = IF slot = -1 THEN @ ELSE [@ EXCEPT ![slot] = index]]

Open(p, name) ==
    /\ Runs
    /\ IF ComparesNull(name) THEN Stop("strcmp")
       ELSE \/ Stop("files")
            \/ \E slot \in Slot \cup {-1} :
                  /\ Add(AddIndex)
                  /\ fileArray' = PcbAdd(p, slot, AddIndex)
                  /\ returned' = [returned EXCEPT ![p] = @ \cup {slot}]
                  /\ UNCHANGED <<disk, stopped>>

\* PCB::getFile looks for the id among the positions in the kernel's table.
GetFile(p, id) == {s \in Slot : fileArray[p][s] # None /\ fileArray[p][s] = id}

\* SysOpenFileManager::Get(index) gives NULL for an index that is in use.
GetIsNull(index) == index >= TableSize \/ index \in openFiles

\* Read, Write and Close: the console, an unknown id (the call returns -1), or
\* a file whose entry is looked up and followed.
ReadConsole(id) == id = ConsoleInput
WriteConsole(id) == id = ConsoleOutput

Lookup(p, id) ==
    IF GetFile(p, id) = {} THEN UNCHANGED vars
    ELSE Stop(IF id = -1 THEN "Test" ELSE IF GetIsNull(id) THEN "Get" ELSE "entry")

Read(p, id) == Runs /\ (IF ReadConsole(id) THEN UNCHANGED vars ELSE Lookup(p, id))
Write(p, id) == Runs /\ (IF WriteConsole(id) THEN UNCHANGED vars ELSE Lookup(p, id))
Close(p, id) == Runs /\ Lookup(p, id)

Next ==
    \/ \E name \in Name : Create(name)
    \/ \E p \in Process, name \in Name : Open(p, name)
    \/ \E p \in Process, id \in -1 .. MaxFiles : Read(p, id) \/ Write(p, id) \/ Close(p, id)

Spec == Init /\ [][Next]_vars
-----------------------------------------------------------------------------
TypeOK ==
    /\ disk \subseteq Name /\ openFiles \subseteq Index
    /\ openFileTable \in [Index -> {None, Null}]
    /\ fileArray \in [Process -> [Slot -> Index \cup {-1, None}]]
    /\ returned \in [Process -> SUBSET (Slot \cup {-1})]
    /\ stopped \in {"no", "strcmp", "files", "Test", "Get", "entry"}

\* A descriptor of a process leads to a table entry that is marked as used, so
\* no later Open is given the same entry (sysopenfile.cc Add, pcb.cc Add).
DescriptorsMarked ==
    \A p \in Process, s \in Slot : fileArray[p][s] \notin {None, -1} => fileArray[p][s] \in openFiles

=============================================================================
