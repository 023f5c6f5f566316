----------------------------- MODULE FileSystem -----------------------------
(* Creating and removing files: the free map, the directory and the file     *)
(* headers on disk, and the copies an operation works on.  A thread can lose *)
(* the processor, and the machine can stop, at each access of the disk; only *)
(* the writes matter here, so an operation is its computation and then one   *)
(* step per sector written back.  The free map fills one sector.  The        *)
(* directory fills two, and one entry lies across them: its flag and sector  *)
(* number are in the first, its name is in the second.  A header has room    *)
(* for NumDirect sector numbers; the build allows no larger files, so the    *)
(* indirect blocks are never used.                                           *)
EXTENDS Integers, Sequences, FiniteSets

CONSTANTS Thread, Name,
          NumSectors, NumDirEntries, Straddling, NumDirect, SectorSize,
          Size,         \* the sizes Create is called with
          MaxCrashes    \* how often the machine is stopped and started again

ASSUME FileSystemAssumption ==
    /\ NumSectors \in Nat /\ NumSectors >= 5 /\ NumDirEntries \in Nat
    /\ Straddling \in 1 .. NumDirEntries /\ NumDirect \in Nat /\ SectorSize \in Nat \ {0}
    /\ Size \subseteq Nat /\ MaxCrashes \in Nat

Sector == 0 .. NumSectors - 1
FreeMapSector == 0
System == 0 .. 4    \* the headers and the contents of the two system files
Unused == [inUse |-> FALSE, name |-> "", sector |-> 0]

VARIABLES freeMap, directory, headers,  \* on disk
          op,       \* what each thread is doing, with its copies in memory
          crashes,
          aborted   \* an assertion failed

vars == <<freeMap, directory, headers, op, crashes, aborted>>

Idle == [at |-> "idle"]

\* The constructor of FileSystem with format = TRUE.
Init ==
    /\ freeMap = System
    /\ directory = [i \in 1 .. NumDirEntries |-> Unused]
    /\ headers = [s \in Sector |-> <<>>]
    /\ op = [t \in Thread |-> Idle] /\ crashes = 0 /\ aborted = FALSE

\* Directory::FindIndex, Find, Add and Remove on a copy of the table.
Found(dir, name) == {i \in DOMAIN dir : dir[i].inUse /\ dir[i].name = name}
IsFirst(i, entries) == i \in entries /\ \A j \in entries : i <= j
FreeEntries(dir) == {i \in DOMAIN dir : ~dir[i].inUse}
AddNameAnywhere(dir, name, sector) == [dir EXCEPT ![1] = [inUse |-> TRUE, name |-> name, sector |-> sector]]
AddName(dir, name, sector) ==
    [i \in DOMAIN dir |->
        IF IsFirst(i, FreeEntries(dir)) THEN [inUse |-> TRUE, name |-> name, sector |-> sector] ELSE dir[i]]
RemoveName(dir, i) == [dir EXCEPT ![i].inUse = FALSE]

\* What is on disk when only the first sector of the new table is written.
FirstHalf(old, new) ==
    [i \in DOMAIN old |-> IF i < Straddling THEN new[i]
                          ELSE IF i = Straddling THEN [new[i] EXCEPT !.name = old[i].name] ELSE old[i]]

\* BitMap::Find, k times: the k lowest clear sectors.  Which of them holds which
\* part of a file is not looked at here.
LowestFromZero(map, k) ==
    LET free == Sector \ (map \ {FreeMapSector}) IN {s \in free : Cardinality({r \in free : r < s}) < k}
Lowest(map, k) ==
    LET free == Sector \ map IN {s \in free : Cardinality({r \in free : r < s}) < k}

DivRoundUp(n, s) == n \div s + (IF n % s > 0 THEN 1 ELSE 0)

\* FileHeader::Allocate: refuses a file that is too large for a header or for
\* the disk.
Allocatable(map, fileSize) ==
    /\ fileSize <= NumDirect * SectorSize
    /\ Cardinality(Sector \ map) >= DivRoundUp(fileSize, SectorSize)
Allocate(map, fileSize) == Lowest(map, DivRoundUp(fileSize, SectorSize))

\* FileHeader::Deallocate: a header that is full gives nothing back.
DeallocateNext(hdr) == {d + 1 : d \in hdr.dataSectors} \cap Sector
Deallocate(hdr) == IF Cardinality(hdr.dataSectors) < NumDirect THEN hdr.dataSectors ELSE {}

Create(t, name, fileSize) ==
    /\ ~aborted /\ op[t].at = "idle"
    /\ Found(directory, name) = {} /\ FreeEntries(directory) # {}
    /\ \E sector \in Lowest(freeMap, 1) :
          LET marked == freeMap \cup {sector}
              data == Allocate(marked, fileSize)
          IN  /\ Allocatable(marked, fileSize)
              /\ op' = [op EXCEPT ![t] =
                    [at |-> "header", sector |-> sector,
                     hdr |-> [numBytes |-> fileSize, dataSectors |-> data],
                     dir |-> AddName(directory, name, sector), map |-> marked \cup data]]
    /\ UNCHANGED <<freeMap, directory, headers, crashes, aborted>>

\* The four ways Create fails: nothing is written.
CreateFails(t, name, fileSize) ==
    /\ ~aborted /\ op[t].at = "idle"
    /\ \/ Found(directory, name) # {}
       \/ freeMap = Sector \/ FreeEntries(directory) = {}
       \/ \E sector \in Lowest(freeMap, 1) : ~Allocatable(freeMap \cup {sector}, fileSize)
    /\ UNCHANGED vars

\* The order in which Create writes the structures back.
WriteHeaderUnwritten(t) ==
    /\ ~aborted /\ op[t].at = "header"
    /\ op' = [op EXCEPT ![t].at = "directory"]
    /\ UNCHANGED <<freeMap, directory, headers, crashes, aborted>>

WriteHeader(t) ==
    /\ ~aborted /\ op[t].at = "header"
    /\ headers' = [headers EXCEPT ![op[t].sector] = <<op[t].hdr>>]
    /\ op' = [op EXCEPT ![t].at = "directory"]
    /\ UNCHANGED <<freeMap, directory, crashes, aborted>>

WriteDirectory(t) ==
    /\ ~aborted
    /\ \/ /\ op[t].at \in {"directory", "unname"}
          /\ directory' = FirstHalf(directory, op[t].dir)
          /\ op' = [op EXCEPT ![t].at = IF @ = "directory" THEN "directory2" ELSE "unname2"]
       \/ /\ op[t].at = "directory2" /\ directory' = op[t].dir /\ op' = [op EXCEPT ![t].at = "map"]
       \/ /\ op[t].at = "unname2" /\ directory' = op[t].dir /\ op' = [op EXCEPT ![t] = Idle]
    /\ UNCHANGED <<freeMap, headers, crashes, aborted>>

WriteMap(t) ==
    /\ ~aborted /\ op[t].at = "map"
    /\ freeMap' = op[t].map
    /\ op' = [op EXCEPT ![t] = Idle]
    /\ UNCHANGED <<directory, headers, crashes, aborted>>

\* Remove: Deallocate asserts that the sectors are marked; then the free map is
\* written, then the directory.
RemoveFile(t, name) ==
    /\ ~aborted /\ op[t].at = "idle"
    /\ \E i \in DOMAIN directory :
          LET sector == directory[i].sector
              gone == Deallocate(headers[sector][1])
          IN  /\ IsFirst(i, Found(directory, name))
              /\ IF ~(gone \subseteq freeMap)
                 THEN aborted' = TRUE /\ UNCHANGED op
                 ELSE /\ op' = [op EXCEPT ![t] =
                          [at |-> "unmap", dir |-> RemoveName(directory, i),
                           map |-> freeMap \ (gone \cup {sector})]]
                      /\ UNCHANGED aborted
    /\ UNCHANGED <<freeMap, directory, headers, crashes>>

RemoveMissing(t, name) ==
    ~aborted /\ op[t].at = "idle" /\ Found(directory, name) = {} /\ UNCHANGED vars

Unmap(t) ==
    /\ ~aborted /\ op[t].at = "unmap"
    /\ freeMap' = op[t].map
    /\ op' = [op EXCEPT ![t].at = "unname"]
    /\ UNCHANGED <<directory, headers, crashes, aborted>>

\* The machine stops; what is on disk is all that is left.  Starting it again
\* without formatting only opens the two system files.
Crash ==
    /\ crashes < MaxCrashes /\ (aborted \/ \E t \in Thread : op[t].at # "idle")
    /\ op' = [t \in Thread |-> Idle] /\ crashes' = crashes + 1 /\ aborted' = FALSE
    /\ UNCHANGED <<freeMap, directory, headers>>

Next ==
    \/ \E t \in Thread :
          \/ \E n \in Name, s \in Size : Create(t, n, s) \/ CreateFails(t, n, s)
          \/ \E n \in Name : RemoveFile(t, n) \/ RemoveMissing(t, n)
          \/ WriteHeader(t) \/ WriteDirectory(t) \/ WriteMap(t) \/ Unmap(t)
    \/ Crash

Spec == Init /\ [][Next]_vars
-----------------------------------------------------------------------------
Header == [numBytes : Size, dataSectors : SUBSET Sector]

TypeOK ==
    /\ freeMap \subseteq Sector
    /\ \A i \in DOMAIN directory : directory[i].inUse => directory[i].name \in Name \cup {""} /\ directory[i].sector \in Sector
    /\ \A s \in Sector : headers[s] # <<>> => headers[s][1] \in Header /\ Cardinality(headers[s][1].dataSectors) <= NumDirect
    /\ crashes \in 0 .. MaxCrashes /\ aborted \in BOOLEAN

Entries == {i \in DOMAIN directory : directory[i].inUse}
SectorsOf(i) == {directory[i].sector} \cup headers[directory[i].sector][1].dataSectors

\* A name is on disk only when its header is: also a crash in the middle of
\* Create leaves no name without one (filesys.cc:205 before 206).
NamesHaveHeaders == \A i \in Entries : headers[directory[i].sector] # <<>>

\* Whatever is created, removed or cut short by a crash, no file ever gets a
\* sector of the free map or of the directory (filesys.cc:93).
SystemSectorsSafe == \A i \in Entries : SectorsOf(i) \cap System = {}

\* As long as the machine was not stopped in the middle of an operation, the
\* sectors of the files are marked in the free map between operations, and no
\* sector belongs to two files (filehdr.cc Allocate and Deallocate).  Headers
\* have no more sectors than they have room for, also after crashes (TypeOK).
SectorsAccounted ==
    /\ TypeOK
    /\ crashes = 0 /\ (\A t \in Thread : op[t].at = "idle") =>
        \A i, j \in Entries : SectorsOf(i) \subseteq freeMap /\ (i # j => SectorsOf(i) \cap SectorsOf(j) = {})

\* The table counts as written from its first sector on.
Written ==
    IF \E t \in Thread : op[t].at \in {"directory2", "unname2"}
    THEN op[CHOOSE t \in Thread : op[t].at \in {"directory2", "unname2"}].dir ELSE directory
SizeOf(n) ==
    IF Found(Written, n) = {} THEN -1
    ELSE headers[Written[CHOOSE i \in Found(Written, n) : IsFirst(i, Found(Written, n))].sector][1].numBytes
Sizes == [n \in Name |-> SizeOf(n)]
TheFiles == INSTANCE Files WITH size <- Sizes

\* Without crashes and concurrent calls, files appear with the size asked for
\* and disappear one at a time, in the step that writes the directory, and an
\* operation that fails changes nothing (filesys.cc Create and Remove).
ImplementsFiles == TheFiles!FilesInit /\ [][crashes' = 0 => TheFiles!FilesNext]_Sizes

\* "Delete the space for its data blocks" (filesys.cc:248): between operations
\* every marked sector belongs to a file or to the system files.
NoSectorLost ==
    (\A t \in Thread : op[t].at = "idle") => freeMap \subseteq System \cup UNION {SectorsOf(i) : i \in Entries}

=============================================================================
