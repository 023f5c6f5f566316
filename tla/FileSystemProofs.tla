--------------------------- MODULE FileSystemProofs ---------------------------
(***************************************************************************)
(* The file system.  For any number of threads that create and remove      *)
(* files at the same time, any disk, any directory and any number of       *)
(* crashes: a name on disk has a header on disk, and no file has a sector  *)
(* of the free map or of the directory.  For a single caller, as the code  *)
(* has no lock around its operations: the sectors of the files are marked  *)
(* and are not shared, and the directory implements Files.                 *)
(*                                                                         *)
(* None is inductive.  The inductive invariant Sound also speaks of the    *)
(* copies that operations in progress will write back: their maps keep the *)
(* system sectors marked, and the entries of their tables have headers,    *)
(* except the entry that Create is adding before it has written the        *)
(* header.  For a single caller Whole adds that the copies are consistent  *)
(* with what will be on disk when they are written, and DirectoryNamed     *)
(* that they differ from the table on disk by the one entry the operation  *)
(* is about.                                                               *)
(***************************************************************************)
EXTENDS FileSystem, FiniteSetTheorems, TLAPS

\* Time limits of the provers, in seconds, for a step that gives none.
USE SMTT(30), ZenonT(30)

UserSector == Sector \ System
SafeHeader == [numBytes : Size, dataSectors : SUBSET UserSector]
Entry == [inUse : BOOLEAN, name : Name \cup {""}, sector : Sector]
Table == [1 .. NumDirEntries -> Entry]
SafeMap == {m \in SUBSET Sector : System \subseteq m}

Creating ==
  [at : {"header", "directory", "directory2", "map"}, sector : UserSector,
   hdr : SafeHeader, dir : Table, map : SafeMap]
Removing == [at : {"unmap", "unname", "unname2"}, dir : Table, map : SafeMap]

\* The entries of a table, but those for the sectors in new, have headers.
Backed(dir, new) ==
  \A i \in DOMAIN dir :
    dir[i].inUse => /\ dir[i].sector \in UserSector
                    /\ headers[dir[i].sector] # <<>> \/ dir[i].sector \in new

OpSound(t) ==
  \/ op[t] = Idle
  \/ /\ op[t] \in Creating
     /\ Backed(op[t].dir, IF op[t].at = "header" THEN {op[t].sector} ELSE {})
  \/ op[t] \in Removing /\ Backed(op[t].dir, {})

Sound ==
  /\ freeMap \in SafeMap
  /\ directory \in Table
  /\ Backed(directory, {})
  /\ headers \in [Sector -> {<<>>} \cup {<<h>> : h \in SafeHeader}]
  /\ DOMAIN op = Thread
  /\ \A t \in Thread : OpSound(t)

--------------------------------------------------------------------------------

\* The two system headers have sectors of the disk.
LEMMA SystemOnDisk == System \subseteq Sector
  BY FileSystemAssumption DEF System, Sector

\* BitMap::Find never finds a sector of the system files, which are marked.
LEMMA LowestSafe ==
  ASSUME NEW m \in SafeMap, NEW k
  PROVE  Lowest(m, k) \subseteq UserSector
  BY Zenon DEF Lowest, SafeMap, UserSector

\* Directory::Add: the new entry is the only one that may lack a header.
LEMMA AddNameBacked ==
  ASSUME NEW dir \in Table, Backed(dir, {}), NEW name \in Name, NEW sector \in UserSector
  PROVE  AddName(dir, name, sector) \in Table /\ Backed(AddName(dir, name, sector), {sector})
  BY Zenon DEF AddName, Table, Entry, Backed, UserSector

\* Directory::Remove only takes an entry away.
LEMMA RemoveNameBacked ==
  ASSUME NEW dir \in Table, Backed(dir, {}), NEW i \in DOMAIN dir
  PROVE  RemoveName(dir, i) \in Table /\ Backed(RemoveName(dir, i), {})
  BY Zenon DEF RemoveName, Table, Entry, Backed

\* The table with only its first sector written mixes entries of the two tables.
LEMMA FirstHalfBacked ==
  ASSUME NEW old \in Table, NEW new \in Table, Backed(old, {}), Backed(new, {})
  PROVE  FirstHalf(old, new) \in Table /\ Backed(FirstHalf(old, new), {})
  <1> DEFINE f == FirstHalf(old, new)
  <1>1. DOMAIN f = 1 .. NumDirEntries
    BY Zenon DEF FirstHalf, Table
  <1>2. ASSUME NEW i \in 1 .. NumDirEntries
        PROVE  /\ f[i] \in Entry
               /\ f[i].inUse => \/ new[i].inUse /\ f[i].sector = new[i].sector
                                \/ old[i].inUse /\ f[i].sector = old[i].sector
    <2>1. old[i] \in Entry /\ new[i] \in Entry
      BY Zenon DEF Table
    <2>2. f[i] = IF i < Straddling THEN new[i]
                 ELSE IF i = Straddling THEN [new[i] EXCEPT !.name = old[i].name] ELSE old[i]
      BY Zenon DEF FirstHalf, Table
    <2> DEFINE e == [new[i] EXCEPT !.name = old[i].name]
    <2>3. e \in Entry /\ e.inUse = new[i].inUse /\ e.sector = new[i].sector
      BY <2>1, Zenon DEF Entry
    <2> HIDE DEF f, e
    <2> QED BY <2>1, <2>2, <2>3 DEF e
  <1>3. f \in Table
    BY <1>1, <1>2, Zenon DEF Table, FirstHalf
  <1>4. Backed(f, {})
    <2> HIDE DEF f
    <2> QED BY <1>1, <1>2 DEF Backed, Table
  <1> QED BY <1>3, <1>4

\* What FileHeader::Deallocate gives back is not of the system files.
LEMMA DeallocateSafe ==
  ASSUME NEW hdr \in SafeHeader
  PROVE  Deallocate(hdr) \subseteq UserSector
  BY Zenon DEF Deallocate, SafeHeader

--------------------------------------------------------------------------------

\* A formatted disk is sound.
LEMMA InitSound == Init => Sound
  <1> SUFFICES ASSUME Init PROVE Sound
    BY Zenon
  <1>1. freeMap \in SafeMap
    BY SystemOnDisk, Zenon DEF Init, SafeMap
  <1>2. directory \in Table /\ Backed(directory, {})
    <2>1. Unused \in Entry
      BY FileSystemAssumption DEF Unused, Entry, Sector
    <2> QED BY <2>1 DEF Init, Table, Backed, Unused
  <1>3. headers \in [Sector -> {<<>>} \cup {<<h>> : h \in SafeHeader}]
    BY Zenon DEF Init
  <1> QED BY <1>1, <1>2, <1>3 DEF Init, Sound, OpSound

\* A table that is backed stays so: headers are written and never erased.
LEMMA BackedStays ==
  ASSUME NEW dir, NEW new, Backed(dir, new),
         \A x \in Sector : headers[x] # <<>> => headers'[x] # <<>>
  PROVE  \A i \in DOMAIN dir :
           dir[i].inUse => /\ dir[i].sector \in UserSector
                           /\ headers'[dir[i].sector] # <<>> \/ dir[i].sector \in new
  BY Zenon DEF Backed, UserSector

\* A step of one thread keeps the operations of the others sound.
LEMMA OthersSound ==
  ASSUME Sound, \A x \in Sector : headers[x] # <<>> => headers'[x] # <<>>,
         NEW t \in Thread, NEW o, op' = [op EXCEPT ![t] = o], OpSound(t)'
  PROVE  DOMAIN op' = Thread /\ \A u \in Thread : OpSound(u)'
  <1>1. \A u \in Thread \ {t} : op'[u] = op[u]
    BY Zenon DEF Sound
  <1>2. \A u \in Thread \ {t} : OpSound(u)'
    <2> TAKE u \in Thread \ {t}
    <2>1. \A new : Backed(op[u].dir, new) => Backed(op[u].dir, new)'
      BY <1>1, BackedStays DEF Backed
    <2>2. OpSound(u)
      BY Zenon DEF Sound
    <2> QED BY <1>1, <2>1, <2>2 DEF OpSound
  <1>3. DOMAIN op' = Thread
    BY Zenon DEF Sound
  <1> QED BY <1>2, <1>3

\* The step to the next write of an operation leaves its copies alone.
LEMMA CreatingAdvances ==
  ASSUME NEW o \in Creating, NEW at \in {"header", "directory", "directory2", "map"}
  PROVE  LET new == [o EXCEPT !.at = at]
         IN  new \in Creating /\ new.at = at /\ new.dir = o.dir /\ new.map = o.map
  BY Zenon DEF Creating

\* ... of Remove too.
LEMMA RemovingAdvances ==
  ASSUME NEW o \in Removing, NEW at \in {"unmap", "unname", "unname2"}
  PROVE  LET new == [o EXCEPT !.at = at]
         IN  new \in Removing /\ new.at = at /\ new.dir = o.dir /\ new.map = o.map
  BY Zenon DEF Removing

\* Which operation a thread is in, from where it is.
LEMMA Stages ==
  ASSUME NEW t \in Thread, OpSound(t)
  PROVE  /\ op[t].at \in {"header", "directory", "directory2", "map"} => op[t] \in Creating
         /\ op[t].at \in {"unmap", "unname", "unname2"} => op[t] \in Removing
         /\ op[t].at \notin {"idle", "header"} => Backed(op[t].dir, {})
         /\ op[t].at = "header" => Backed(op[t].dir, {op[t].sector})
  BY DEF OpSound, Creating, Removing, Idle

--------------------------------------------------------------------------------

\* FileSystem::Create up to its first write.
LEMMA CreateSound ==
  ASSUME Sound, NEW t \in Thread, NEW n \in Name, NEW s \in Size, Create(t, n, s)
  PROVE  Sound'
  <1>1. PICK sector \in Lowest(freeMap, 1) :
          LET marked == freeMap \cup {sector}
              data == Allocate(marked, s)
          IN  op' = [op EXCEPT ![t] =
                [at |-> "header", sector |-> sector,
                 hdr |-> [numBytes |-> s, dataSectors |-> data],
                 dir |-> AddName(directory, n, sector), map |-> marked \cup data]]
    BY Zenon DEF Create
  <1> DEFINE marked == freeMap \cup {sector}
             data == Allocate(marked, s)
             new == [at |-> "header", sector |-> sector,
                     hdr |-> [numBytes |-> s, dataSectors |-> data],
                     dir |-> AddName(directory, n, sector), map |-> marked \cup data]
  <1>2. sector \in UserSector
    BY LowestSafe, Zenon DEF Sound
  <1>3. marked \in SafeMap
    BY <1>2, Zenon DEF Sound, SafeMap, UserSector
  <1>4. data \subseteq UserSector
    BY <1>3, LowestSafe, Zenon DEF Allocate
  <1>5. marked \cup data \in SafeMap
    BY <1>3, <1>4, Zenon DEF SafeMap, UserSector
  <1>6. /\ AddName(directory, n, sector) \in Table
        /\ Backed(AddName(directory, n, sector), {sector})
    BY <1>2, AddNameBacked, Zenon DEF Sound
  <1>7. op'[t] = new
    BY <1>1, Zenon DEF Sound
  <1>8. new \in Creating
    <2> HIDE DEF data, marked
    <2> QED BY <1>2, <1>4, <1>5, <1>6 DEF Creating, SafeHeader
  <1>9. UNCHANGED <<freeMap, directory, headers>>
    BY Zenon DEF Create
  <1>10. OpSound(t)'
    <2>1. Backed(op[t].dir, {op[t].sector})'
      BY <1>6, <1>7, <1>9 DEF Backed
    <2> QED BY <2>1, <1>7, <1>8 DEF OpSound
  <1>11. DOMAIN op' = Thread /\ \A u \in Thread : OpSound(u)'
    <2> HIDE DEF new
    <2>1. op' = [op EXCEPT ![t] = new]
      BY <1>1, Zenon DEF new
    <2> QED BY <2>1, <1>9, <1>10, OthersSound, Zenon
  <1> QED BY <1>9, <1>11 DEF Sound, Backed

\* FileHeader::WriteBack, before the name is written.
LEMMA WriteHeaderSound ==
  ASSUME Sound, NEW t \in Thread, WriteHeader(t)
  PROVE  Sound'
  <1> DEFINE new == [op[t] EXCEPT !.at = "directory"]
  <1>1. op[t] \in Creating /\ Backed(op[t].dir, {op[t].sector})
    BY Stages, Zenon DEF Sound, WriteHeader
  <1>2. new \in Creating /\ new.at = "directory" /\ new.dir = op[t].dir
    BY <1>1, CreatingAdvances, Zenon
  <1>3. op[t].sector \in Sector /\ op[t].hdr \in SafeHeader
    BY <1>1, Zenon DEF Creating, UserSector
  <1>4. /\ headers' \in [Sector -> {<<>>} \cup {<<h>> : h \in SafeHeader}]
        /\ \A x \in Sector : headers[x] # <<>> => headers'[x] # <<>>
        /\ headers'[op[t].sector] # <<>>
    BY <1>3, Zenon DEF Sound, WriteHeader
  <1> HIDE DEF new
  <1>5. op' = [op EXCEPT ![t] = new]
    BY Zenon DEF WriteHeader, new
  <1>6. op'[t] = new
    BY <1>5, Zenon DEF Sound
  <1>7. Backed(op[t].dir, {})'
    <2>1. \A i \in DOMAIN op[t].dir :
            op[t].dir[i].inUse => /\ op[t].dir[i].sector \in UserSector
                                  /\ headers'[op[t].dir[i].sector] # <<>>
      BY <1>1, <1>4, BackedStays
    <2> QED BY <2>1, <1>2, <1>6 DEF Backed
  <1>8. OpSound(t)'
    BY <1>2, <1>6, <1>7, Zenon DEF OpSound
  <1>9. DOMAIN op' = Thread /\ \A u \in Thread : OpSound(u)'
    BY <1>4, <1>5, <1>8, OthersSound, Zenon
  <1>10. UNCHANGED <<freeMap, directory>>
    BY Zenon DEF WriteHeader
  <1>11. Backed(directory, {})'
    BY <1>4, <1>10, BackedStays, Zenon DEF Sound, Backed
  <1> QED BY <1>4, <1>9, <1>10, <1>11 DEF Sound

\* Directory::WriteBack, one sector of the table at a time.
LEMMA WriteDirectorySound ==
  ASSUME Sound, NEW t \in Thread, WriteDirectory(t)
  PROVE  Sound'
  <1>1. UNCHANGED <<freeMap, headers>>
    BY Zenon DEF WriteDirectory
  <1>2. op[t] \in Creating \cup Removing /\ op[t].dir \in Table /\ Backed(op[t].dir, {})
    <2>1. op[t] \in Creating \cup Removing /\ Backed(op[t].dir, {})
      BY Stages, Zenon DEF Sound, WriteDirectory
    <2> QED BY <2>1 DEF Creating, Removing
  <1>3. directory' \in Table /\ Backed(directory, {})'
    <2>1. /\ directory' = FirstHalf(directory, op[t].dir) \/ directory' = op[t].dir
      BY Zenon DEF WriteDirectory
    <2>2. directory' \in Table /\ Backed(directory', {})
      BY <2>1, <1>2, FirstHalfBacked, Zenon DEF Sound
    <2> QED BY <2>2, <1>1 DEF Backed
  <1>4. \E o : /\ op' = [op EXCEPT ![t] = o]
               /\ \/ o = Idle
                  \/ o \in Creating /\ o.at # "header" /\ o.dir = op[t].dir
                  \/ o \in Removing /\ o.dir = op[t].dir
    <2>1. CASE op[t].at = "directory"
      <3>1. op[t] \in Creating /\ op' = [op EXCEPT ![t] = [op[t] EXCEPT !.at = "directory2"]]
        BY <2>1, Stages, Zenon DEF WriteDirectory, Sound
      <3>2. PICK o : o = [op[t] EXCEPT !.at = "directory2"]
        BY Zenon
      <3>3. o \in Creating /\ o.at # "header" /\ o.dir = op[t].dir
        BY <3>1, <3>2, CreatingAdvances, Zenon
      <3> QED BY <3>1, <3>2, <3>3, Zenon
    <2>2. CASE op[t].at = "directory2"
      <3>1. op[t] \in Creating /\ op' = [op EXCEPT ![t] = [op[t] EXCEPT !.at = "map"]]
        BY <2>2, Stages, Zenon DEF WriteDirectory, Sound
      <3>2. PICK o : o = [op[t] EXCEPT !.at = "map"]
        BY Zenon
      <3>3. o \in Creating /\ o.at # "header" /\ o.dir = op[t].dir
        BY <3>1, <3>2, CreatingAdvances, Zenon
      <3> QED BY <3>1, <3>2, <3>3, Zenon
    <2>3. CASE op[t].at = "unname"
      <3>1. op[t] \in Removing /\ op' = [op EXCEPT ![t] = [op[t] EXCEPT !.at = "unname2"]]
        BY <2>3, Stages, Zenon DEF WriteDirectory, Sound
      <3> QED BY <3>1, RemovingAdvances, ZenonT(60)
    <2>4. CASE op[t].at = "unname2"
      BY <2>4, Zenon DEF WriteDirectory
    <2> QED BY <2>1, <2>2, <2>3, <2>4 DEF WriteDirectory
  <1>5. PICK o : /\ op' = [op EXCEPT ![t] = o]
                 /\ \/ o = Idle
                    \/ o \in Creating /\ o.at # "header" /\ o.dir = op[t].dir
                    \/ o \in Removing /\ o.dir = op[t].dir
    BY <1>4, Zenon
  <1>6. op'[t] = o
    BY <1>5, Zenon DEF Sound
  <1>7. OpSound(t)'
    BY <1>1, <1>2, <1>5, <1>6, Zenon DEF OpSound, Backed
  <1>8. DOMAIN op' = Thread /\ \A u \in Thread : OpSound(u)'
    BY <1>1, <1>5, <1>7, OthersSound, Zenon
  <1> QED BY <1>1, <1>3, <1>8 DEF Sound

\* The steps after which the free map on disk is the copy of an operation.
LEMMA WriteMapSound ==
  ASSUME Sound, NEW t \in Thread, WriteMap(t)
  PROVE  Sound'
  <1>1. op[t].map \in SafeMap
    BY Stages, Zenon DEF Sound, WriteMap, Creating
  <1>2. op'[t] = Idle /\ OpSound(t)'
    BY Zenon DEF WriteMap, OpSound, Sound
  <1>3. DOMAIN op' = Thread /\ \A u \in Thread : OpSound(u)'
    BY <1>2, OthersSound, Zenon DEF WriteMap
  <1> QED BY <1>1, <1>3 DEF WriteMap, Sound, Backed

\* Remove writes the free map first.
LEMMA UnmapSound ==
  ASSUME Sound, NEW t \in Thread, Unmap(t)
  PROVE  Sound'
  <1> DEFINE new == [op[t] EXCEPT !.at = "unname"]
  <1>1. op[t] \in Removing /\ Backed(op[t].dir, {})
    BY Stages, Zenon DEF Sound, Unmap
  <1>2. new \in Removing /\ new.dir = op[t].dir
    BY <1>1, RemovingAdvances, ZenonT(60)
  <1> HIDE DEF new
  <1>3. op' = [op EXCEPT ![t] = new] /\ UNCHANGED <<directory, headers>>
    BY Zenon DEF Unmap, new
  <1>4. op'[t] = new
    BY <1>3, Zenon DEF Sound
  <1>5. OpSound(t)'
    BY <1>1, <1>2, <1>3, <1>4 DEF OpSound, Backed
  <1>6. DOMAIN op' = Thread /\ \A u \in Thread : OpSound(u)'
    BY <1>3, <1>5, OthersSound, Zenon
  <1>7. freeMap' \in SafeMap
    BY <1>1, Zenon DEF Unmap, Removing
  <1> QED BY <1>3, <1>6, <1>7 DEF Sound, Backed

\* A step that touches neither disk nor operations.
LEMMA SoundStays == ASSUME Sound, UNCHANGED <<freeMap, directory, headers, op>> PROVE Sound'
  <1>1. UNCHANGED <<freeMap, directory, headers, op>>
    BY Zenon
  <1>2. \A u \in Thread : OpSound(u)'
    BY <1>1, Zenon DEF Sound, OpSound, Backed
  <1>3. Backed(directory, {})'
    BY <1>1, Zenon DEF Sound, Backed
  <1> QED BY <1>1, <1>2, <1>3 DEF Sound

\* FileSystem::Remove up to its first write.
LEMMA RemoveFileSound ==
  ASSUME Sound, NEW t \in Thread, NEW n \in Name, RemoveFile(t, n)
  PROVE  Sound'
  <1>1. UNCHANGED <<freeMap, directory, headers>>
    BY Zenon DEF RemoveFile
  <1>2. PICK i \in DOMAIN directory :
          /\ IsFirst(i, Found(directory, n))
          /\ \/ UNCHANGED op
             \/ op' = [op EXCEPT ![t] =
                  [at |-> "unmap", dir |-> RemoveName(directory, i),
                   map |-> freeMap \ (Deallocate(headers[directory[i].sector][1])
                                        \cup {directory[i].sector})]]
    BY Zenon DEF RemoveFile
  <1> DEFINE sector == directory[i].sector
             gone == Deallocate(headers[sector][1])
             new == [at |-> "unmap", dir |-> RemoveName(directory, i),
                     map |-> freeMap \ (gone \cup {sector})]
  <1>3. sector \in UserSector /\ headers[sector] # <<>>
    BY <1>2, Zenon DEF IsFirst, Found, Sound, Backed
  <1>4. headers[sector][1] \in SafeHeader
    <2>1. PICK h \in SafeHeader : headers[sector] = <<h>>
      BY <1>3, Zenon DEF Sound, UserSector
    <2> QED BY <2>1
  <1>5. gone \subseteq UserSector
    BY <1>4, DeallocateSafe, Zenon
  <1>6. freeMap \ (gone \cup {sector}) \in SafeMap
    <2> HIDE DEF gone, sector
    <2> QED BY <1>3, <1>5 DEF Sound, SafeMap, UserSector
  <1>7. RemoveName(directory, i) \in Table /\ Backed(RemoveName(directory, i), {})
    BY <1>2, RemoveNameBacked, Zenon DEF Sound
  <1>8. new \in Removing
    <2> HIDE DEF gone, sector
    <2> QED BY <1>6, <1>7 DEF Removing
  <1>9. CASE UNCHANGED op
    BY <1>1, <1>9, SoundStays, Zenon
  <1>10. CASE op' = [op EXCEPT ![t] = new]
    <2>1. op'[t] = new
      BY <1>10, Zenon DEF Sound
    <2>2. new.dir = RemoveName(directory, i)
      BY Zenon
    <2> HIDE DEF new
    <2>3. OpSound(t)'
      BY <1>1, <1>7, <1>8, <2>1, <2>2, Zenon DEF OpSound, Backed
    <2>4. DOMAIN op' = Thread /\ \A u \in Thread : OpSound(u)'
      BY <1>1, <1>10, <2>3, OthersSound, Zenon
    <2> QED BY <1>1, <2>4 DEF Sound, Backed
  <1> QED BY <1>2, <1>9, <1>10

\* Every step keeps the disk sound, a crash included.
LEMMA NextSound == Sound /\ [Next]_vars => Sound'
  <1> SUFFICES ASSUME Sound, [Next]_vars PROVE Sound'
    BY Zenon
  <1>1. ASSUME NEW t \in Thread, NEW n \in Name, NEW s \in Size,
               Create(t, n, s) \/ CreateFails(t, n, s)
        PROVE  Sound'
    <2>1. CASE CreateFails(t, n, s)
      BY <2>1, SoundStays, Zenon DEF CreateFails, vars
    <2> QED BY <1>1, <2>1, CreateSound
  <1>2. ASSUME NEW t \in Thread, NEW n \in Name, RemoveFile(t, n) \/ RemoveMissing(t, n)
        PROVE  Sound'
    <2>1. CASE RemoveMissing(t, n)
      BY <2>1, SoundStays, Zenon DEF RemoveMissing, vars
    <2> QED BY <1>2, <2>1, RemoveFileSound
  <1>3. ASSUME NEW t \in Thread, WriteHeader(t) \/ WriteDirectory(t) \/ WriteMap(t) \/ Unmap(t)
        PROVE  Sound'
    BY <1>3, WriteHeaderSound, WriteDirectorySound, WriteMapSound, UnmapSound, Zenon
  <1>4. CASE Crash
    BY <1>4, Zenon DEF Crash, Sound, OpSound, Backed
  <1>5. CASE UNCHANGED vars
    BY <1>5, SoundStays, Zenon DEF vars
  <1> QED BY <1>1, <1>2, <1>3, <1>4, <1>5 DEF Next

\* The inductive invariant of Create, Remove and crashes at any of their writes.
THEOREM AlwaysSound == Spec => []Sound
  BY InitSound, NextSound, PTL DEF Spec

--------------------------------------------------------------------------------

\* For any threads, disk and crashes, a name on disk has its header on disk
\* (filesys.cc:205 before 206).
THEOREM NamesAlwaysHaveHeaders == Spec => []NamesHaveHeaders
  <1>1. Sound => NamesHaveHeaders
    BY Zenon DEF Sound, Backed, NamesHaveHeaders, Entries
  <1> QED BY <1>1, AlwaysSound, PTL

\* For any threads, disk and crashes, also with two calls of Create that take the
\* same sectors, no file has a sector of the system files (filesys.cc:93).
THEOREM SystemSectorsAlwaysSafe == Spec => []SystemSectorsSafe
  <1>1. Sound => SystemSectorsSafe
    <2> SUFFICES ASSUME Sound, NEW i \in Entries PROVE SectorsOf(i) \cap System = {}
      BY Zenon DEF SystemSectorsSafe
    <2>1. directory[i].sector \in UserSector /\ headers[directory[i].sector] # <<>>
      BY Zenon DEF Sound, Backed, Entries
    <2>2. PICK h \in SafeHeader : headers[directory[i].sector] = <<h>>
      BY <2>1, Zenon DEF Sound, UserSector
    <2>3. headers[directory[i].sector][1].dataSectors \subseteq UserSector
      BY <2>2 DEF SafeHeader
    <2> QED BY <2>1, <2>3 DEF SectorsOf, UserSector
  <1> QED BY <1>1, AlwaysSound, PTL

--------------------------------------------------------------------------------
(***************************************************************************)
(* The sectors of the files, for a single caller.                          *)
(***************************************************************************)

\* FileHeader has room for NumDirect sector numbers (filehdr.h).
SmallHeader(h) == Cardinality(h.dataSectors) <= NumDirect

\* The headers on disk, and the ones Create is about to write, keep to that room.
HeadersFit ==
  /\ \A s \in Sector : headers[s] # <<>> => SmallHeader(headers[s][1])
  /\ \A t \in Thread : op[t].at = "header" => SmallHeader(op[t].hdr)
  /\ crashes \in 0 .. MaxCrashes /\ aborted \in BOOLEAN

\* A set of sectors that is not empty has a last one.
LEMMA LastSector ==
  ASSUME NEW S, S \subseteq Sector, S # {}
  PROVE  \E x \in S : \A y \in S : y <= x
<1> DEFINE T == {NumSectors - y : y \in S}
<1>1. \A y \in S : y \in Nat /\ NumSectors - y \in Nat
  BY FileSystemAssumption DEF Sector
<1>2. T \subseteq Nat /\ T # {}
  BY <1>1, Zenon
<1>3. \E m \in T : \A j \in T : ~ (<<j, m>> \in OpToRel(<, Nat))
  <2> HIDE DEF T
  <2> QED
    BY <1>2, NatLessThanWellFounded, WFMin, Zenon
<1>4. \A i, j \in Nat : <<i, j>> \in OpToRel(<, Nat) <=> i < j
  BY Zenon DEF OpToRel
<1>5. PICK m \in T : \A j \in T : ~ (<<j, m>> \in OpToRel(<, Nat))
  BY <1>3, Zenon
<1>6. \A j \in T : ~ (j < m)
  <2> HIDE DEF T
  <2> QED
    BY <1>2, <1>4, <1>5, Zenon
<1>7. PICK x \in S : m = NumSectors - x
  BY Zenon
<1>8. \A y \in S : ~ (NumSectors - y < NumSectors - x)
  BY <1>6, <1>7, Zenon
<1>9. \A y \in S : y <= x
  BY <1>1, <1>8, FileSystemAssumption
<1> QED
  BY <1>9, Zenon

\* BitMap::Find called k times marks at most k sectors.
LEMMA LowestFits ==
  ASSUME NEW m, NEW k \in Nat PROVE Cardinality(Lowest(m, k)) <= k
<1> DEFINE free == Sector \ m
           L == Lowest(m, k)
<1>1. L = {s \in free : Cardinality({r \in free : r < s}) < k}
  BY Zenon DEF Lowest
<1>2. IsFiniteSet(free)
  <2>1. IsFiniteSet(0 .. NumSectors - 1)
    BY FS_Interval, FileSystemAssumption
  <2> QED
    BY <2>1, FS_Subset, Zenon DEF Sector
<1> HIDE DEF L
<1>3. CASE L = {}
  BY <1>3, FS_EmptySet DEF L
<1>4. CASE L # {}
  <2>1. L \subseteq Sector
    BY <1>1, Zenon
  <2>2. PICK x \in L : \A y \in L : y <= x
    BY <1>4, <2>1, LastSector, Zenon
  <2> DEFINE below == {r \in free : r < x}
  <2>3. Cardinality(below) < k
    BY <1>1, Zenon
  <2>4. IsFiniteSet(below) /\ Cardinality(below) \in Nat
    BY <1>2, FS_Subset, FS_CardinalityType, Zenon
  <2>5. x \in Nat /\ x \notin below
    BY <2>1, FileSystemAssumption DEF Sector
  <2>6. L \subseteq below \cup {x}
    <3> SUFFICES ASSUME NEW y \in L, y # x PROVE y < x /\ y \in free
      BY Zenon
    <3>1. y <= x /\ y \in Nat
      BY <2>1, <2>2, FileSystemAssumption DEF Sector
    <3> QED
      BY <1>1, <2>5, <3>1
  <2> HIDE DEF below
  <2>7. IsFiniteSet(below \cup {x}) /\ Cardinality(below \cup {x}) = Cardinality(below) + 1
    BY <2>4, <2>5, FS_AddElement, Zenon
  <2>8. Cardinality(L) <= Cardinality(below \cup {x}) /\ IsFiniteSet(L)
    BY <2>6, <2>7, FS_Subset, Zenon
  <2>9. Cardinality(L) \in Nat
    BY <2>8, FS_CardinalityType, Zenon
  <2>10. Cardinality(L) <= k
    BY <2>3, <2>4, <2>7, <2>8, <2>9
  <2> QED
    BY <2>10, Zenon DEF L
<1> QED
  BY <1>3, <1>4, Zenon

\* divRoundUp of a size that fits in d sectors is at most d.
LEMMA RoundUpFits ==
  ASSUME NEW n \in Nat, NEW s \in Nat \ {0}, NEW d \in Nat, n <= d * s
  PROVE  DivRoundUp(n, s) \in Nat /\ DivRoundUp(n, s) <= d
<1> DEFINE q == n \div s
           r == n % s
<1>1. q \in Nat /\ r \in Nat /\ n = s * q + r /\ r < s
  OBVIOUS
<1>2. DivRoundUp(n, s) = q + (IF r > 0 THEN 1 ELSE 0)
  BY Zenon DEF DivRoundUp
<1> HIDE DEF q, r
<1>3. q > d => s * q >= s * (d + 1)
  BY <1>1
<1>4. s * (d + 1) = d * s + s
  OBVIOUS
<1>5. ~ (q > d)
  BY <1>1, <1>3, <1>4
<1>6. q = d => r = 0
  <2> SUFFICES ASSUME q = d PROVE r = 0
    BY Zenon
  <2>1. s * q = d * s /\ d * s \in Nat
    OBVIOUS
  <2> QED
    BY <1>1, <2>1
<1> QED
  BY <1>1, <1>2, <1>5, <1>6

\* A step that writes no header and begins no Create.
LEMMA FitStays ==
  ASSUME HeadersFit, UNCHANGED <<headers, crashes>>, aborted' \in BOOLEAN,
         \A t \in Thread : op'[t].at = "header" => op'[t] = op[t]
  PROVE  HeadersFit'
BY Zenon DEF HeadersFit

\* FileHeader::Allocate takes divRoundUp(size, SectorSize) sectors of a size that fits.
LEMMA CreateFits ==
  ASSUME Sound, HeadersFit, NEW t \in Thread, NEW n \in Name, NEW s \in Size, Create(t, n, s)
  PROVE  HeadersFit'
<1>1. PICK sector \in Lowest(freeMap, 1) :
        LET marked == freeMap \cup {sector}
            data == Allocate(marked, s)
        IN  /\ Allocatable(marked, s)
            /\ op' = [op EXCEPT ![t] =
                [at |-> "header", sector |-> sector,
                 hdr |-> [numBytes |-> s, dataSectors |-> data],
                 dir |-> AddName(directory, n, sector), map |-> marked \cup data]]
  BY Zenon DEF Create
<1> DEFINE data == Allocate(freeMap \cup {sector}, s)
<1>2. s \in Nat /\ s <= NumDirect * SectorSize
  BY <1>1, FileSystemAssumption, Zenon DEF Allocatable
<1>3. DivRoundUp(s, SectorSize) \in Nat /\ DivRoundUp(s, SectorSize) <= NumDirect
  BY <1>2, RoundUpFits, FileSystemAssumption, Zenon
<1> DEFINE k == DivRoundUp(s, SectorSize)
<1>4. data = Lowest(freeMap \cup {sector}, k)
  BY Zenon DEF Allocate
<1> HIDE DEF k, data
<1>5. Cardinality(data) <= k
  BY <1>3, <1>4, LowestFits, Zenon DEF k
<1>6. IsFiniteSet(data)
  <2>1. IsFiniteSet(0 .. NumSectors - 1)
    BY FS_Interval, FileSystemAssumption
  <2>2. data \subseteq 0 .. NumSectors - 1
    BY <1>4, Zenon DEF Lowest, Sector
  <2> QED
    BY <2>1, <2>2, FS_Subset, ZenonT(60)
<1>7. Cardinality(data) \in Nat
  BY <1>6, FS_CardinalityType, Zenon
<1>8. Cardinality(data) <= NumDirect
  BY <1>3, <1>5, <1>7, FileSystemAssumption DEF k
<1>9. op'[t].hdr.dataSectors = data /\ \A u \in Thread \ {t} : op'[u] = op[u]
  BY <1>1, Zenon DEF Sound, data
<1>10. \A u \in Thread : op'[u].at = "header" => SmallHeader(op'[u].hdr)
  BY <1>8, <1>9, Zenon DEF HeadersFit, SmallHeader
<1> QED
  BY <1>10, Zenon DEF Create, HeadersFit

\* ... and no step, a crash included, makes a header that does not fit.
LEMMA NextFits == ASSUME Sound, HeadersFit, [Next]_vars PROVE HeadersFit'
<1>1. ASSUME NEW t \in Thread, WriteHeader(t) PROVE HeadersFit'
  <2>1. op[t].at = "header" /\ op[t] \in Creating
    BY <1>1, Stages, Zenon DEF WriteHeader, Sound
  <2>2. SmallHeader(op[t].hdr)
    BY <2>1, Zenon DEF HeadersFit
  <2>3. headers' = [headers EXCEPT ![op[t].sector] = <<op[t].hdr>>]
    BY <1>1, Zenon DEF WriteHeader
  <2>4. \A s \in Sector : headers'[s] # <<>> => SmallHeader(headers'[s][1])
    BY <2>2, <2>3, Zenon DEF HeadersFit, Sound
  <2>5. op' = [op EXCEPT ![t].at = "directory"] /\ UNCHANGED <<crashes, aborted>>
    BY <1>1, Zenon DEF WriteHeader
  <2>6. \A u \in Thread \ {t} : op'[u] = op[u]
    BY <2>5, Zenon DEF Sound
  <2>7. op'[t].at # "header"
    <3>1. op'[t] = [op[t] EXCEPT !.at = "directory"]
      BY <2>5, Zenon DEF Sound
    <3> QED
      BY <2>1, <3>1, CreatingAdvances, Zenon
  <2> QED
    BY <2>4, <2>5, <2>6, <2>7, Zenon DEF HeadersFit
<1>2. ASSUME NEW t \in Thread, NEW o, op' = [op EXCEPT ![t] = o], o.at # "header",
             UNCHANGED <<headers, crashes>>, aborted' \in BOOLEAN
      PROVE  HeadersFit'
  <2>1. op'[t] = o /\ \A u \in Thread \ {t} : op'[u] = op[u]
    BY <1>2, Zenon DEF Sound
  <2> QED
    BY <1>2, <2>1, FitStays, Zenon
<1>3. ASSUME NEW t \in Thread, WriteDirectory(t) PROVE HeadersFit'
  <2>1. UNCHANGED <<headers, crashes>> /\ aborted' \in BOOLEAN
    BY <1>3, Zenon DEF WriteDirectory, HeadersFit
  <2>2. \E o : op' = [op EXCEPT ![t] = o] /\ o.at # "header"
    <3>1. CASE op[t].at = "directory"
      <4>1. op[t] \in Creating /\ op' = [op EXCEPT ![t] = [op[t] EXCEPT !.at = "directory2"]]
        BY <1>3, <3>1, Stages, Zenon DEF WriteDirectory, Sound
      <4> QED BY <4>1, CreatingAdvances, Zenon
    <3>2. CASE op[t].at = "directory2"
      <4>1. op[t] \in Creating /\ op' = [op EXCEPT ![t] = [op[t] EXCEPT !.at = "map"]]
        BY <1>3, <3>2, Stages, Zenon DEF WriteDirectory, Sound
      <4> QED BY <4>1, CreatingAdvances, Zenon
    <3>3. CASE op[t].at = "unname"
      <4>1. op[t] \in Removing /\ op' = [op EXCEPT ![t] = [op[t] EXCEPT !.at = "unname2"]]
        BY <1>3, <3>3, Stages, Zenon DEF WriteDirectory, Sound
      <4> QED BY <4>1, RemovingAdvances, Zenon
    <3>4. CASE op[t].at = "unname2"
      BY <1>3, <3>4, Zenon DEF WriteDirectory, Idle
    <3> QED BY <1>3, <3>1, <3>2, <3>3, <3>4 DEF WriteDirectory
  <2> QED
    BY <1>2, <2>1, <2>2, Zenon
<1>4. ASSUME NEW t \in Thread, WriteMap(t) PROVE HeadersFit'
  <2>1. op' = [op EXCEPT ![t] = Idle] /\ UNCHANGED <<headers, crashes>> /\ aborted' \in BOOLEAN
    BY <1>4, Zenon DEF WriteMap, HeadersFit
  <2>2. Idle.at # "header"
    BY Zenon DEF Idle
  <2> QED
    BY <1>2, <2>1, <2>2, Zenon
<1>5. ASSUME NEW t \in Thread, Unmap(t) PROVE HeadersFit'
  <2>1. UNCHANGED <<headers, crashes>> /\ aborted' \in BOOLEAN
    BY <1>5, Zenon DEF Unmap, HeadersFit
  <2>2. op[t] \in Removing /\ op' = [op EXCEPT ![t] = [op[t] EXCEPT !.at = "unname"]]
    BY <1>5, Stages, Zenon DEF Unmap, Sound
  <2>3. [op[t] EXCEPT !.at = "unname"].at = "unname"
    BY <2>2, RemovingAdvances, Zenon
  <2>4. PICK o : op' = [op EXCEPT ![t] = o] /\ o.at # "header"
    BY <2>2, <2>3, Zenon
  <2> QED
    BY <1>2, <2>1, <2>4, Zenon
<1>6. ASSUME NEW t \in Thread, NEW n \in Name, RemoveFile(t, n) PROVE HeadersFit'
  <2>1. UNCHANGED <<headers, crashes>> /\ aborted' \in BOOLEAN
    BY <1>6, ZenonT(60) DEF RemoveFile, HeadersFit
  <2>2. UNCHANGED op \/ \E o : op' = [op EXCEPT ![t] = o] /\ o.at # "header"
    BY <1>6, Zenon DEF RemoveFile
  <2>3. CASE UNCHANGED op
    BY <2>1, <2>3, FitStays, Zenon
  <2> QED
    BY <1>2, <2>1, <2>2, <2>3, Zenon
<1>7. CASE UNCHANGED vars
  BY <1>7, Zenon DEF vars, HeadersFit
<1>8. CASE Crash
  <2>1. crashes' \in 0 .. MaxCrashes
    BY <1>8, FileSystemAssumption DEF Crash, HeadersFit
  <2>2. aborted' \in BOOLEAN /\ UNCHANGED headers /\ \A t \in Thread : op'[t].at = "idle"
    BY <1>8, Zenon DEF Crash, Idle
  <2> QED
    BY <2>1, <2>2, Zenon DEF HeadersFit
<1> QED
  BY <1>1, <1>3, <1>4, <1>5, <1>6, <1>7, <1>8, CreateFits, Zenon
     DEF Next, CreateFails, RemoveMissing

\* The sectors that entry i of a table claims, with the headers hdrs.
Claimed(dir, hdrs, i) == {dir[i].sector} \cup hdrs[dir[i].sector][1].dataSectors

\* The entries of a table claim marked sectors, and no sector twice.
Consistent(dir, map, hdrs) ==
  \A i, j \in DOMAIN dir :
    /\ dir[i].inUse => Claimed(dir, hdrs, i) \subseteq map
    /\ dir[i].inUse /\ dir[j].inUse /\ i # j =>
         Claimed(dir, hdrs, i) \cap Claimed(dir, hdrs, j) = {}

\* What an operation will leave on disk when it is done.
OpConsistent(t) ==
  /\ op[t].at = "idle" => Consistent(directory, freeMap, headers)
  /\ op[t].at = "header" =>
       Consistent(op[t].dir, op[t].map, [headers EXCEPT ![op[t].sector] = <<op[t].hdr>>])
  /\ op[t].at \in {"directory", "directory2", "map", "unmap"} =>
       Consistent(op[t].dir, op[t].map, headers)
  /\ op[t].at \in {"unname", "unname2"} => Consistent(op[t].dir, freeMap, headers)
  /\ op[t].at = "map" => directory = op[t].dir

\* Directory::Add for a sector that was free, with data sectors that were.
LEMMA AddConsistent ==
  ASSUME NEW dir \in Table, NEW map, NEW hdrs, DOMAIN hdrs = Sector, Consistent(dir, map, hdrs),
         NEW name, NEW sector \in Sector \ map, NEW hdr,
         hdr.dataSectors \cap (map \cup {sector}) = {}
  PROVE  Consistent(AddName(dir, name, sector), map \cup {sector} \cup hdr.dataSectors,
                    [hdrs EXCEPT ![sector] = <<hdr>>])
<1> DEFINE d == AddName(dir, name, sector)
           h == [hdrs EXCEPT ![sector] = <<hdr>>]
           mine == {sector} \cup hdr.dataSectors
<1>1. DOMAIN d = DOMAIN dir
  BY Zenon DEF AddName
<1>2. ASSUME NEW i \in DOMAIN dir, IsFirst(i, FreeEntries(dir))
      PROVE  Claimed(d, h, i) = mine
  <2>1. d[i] = [inUse |-> TRUE, name |-> name, sector |-> sector]
    BY <1>2, Zenon DEF AddName
  <2>2. d[i].sector = sector
    BY <2>1
  <2>3. h[sector] = <<hdr>> /\ <<hdr>>[1] = hdr
    BY Zenon
  <2> HIDE DEF d, h
  <2> QED
    BY <2>2, <2>3, Zenon DEF Claimed
<1>3. ASSUME NEW i \in DOMAIN dir, ~ IsFirst(i, FreeEntries(dir)), d[i].inUse
      PROVE  dir[i].inUse /\ Claimed(d, h, i) = Claimed(dir, hdrs, i)
  <2>1. d[i] = dir[i]
    BY <1>3, Zenon DEF AddName
  <2>2. Claimed(dir, hdrs, i) \subseteq map /\ dir[i].inUse
    BY <1>3, <2>1, Zenon DEF Consistent
  <2>3. dir[i].sector # sector
    BY <2>2, Zenon DEF Claimed
  <2>4. h[dir[i].sector] = hdrs[dir[i].sector]
    <3>1. dir[i].sector \in Sector
      BY Zenon DEF Table, Entry
    <3> QED
      BY <2>3, <3>1, Zenon
  <2> HIDE DEF d, h
  <2> QED
    BY <2>1, <2>2, <2>4, Zenon DEF Claimed
<1>4. mine \cap map = {}
  BY Zenon
<1>5. \A i, j \in DOMAIN dir :
        IsFirst(i, FreeEntries(dir)) /\ IsFirst(j, FreeEntries(dir)) => i = j
  BY DEF Table, IsFirst
<1> HIDE DEF d, h, mine
<1>6. \A i \in DOMAIN d : d[i].inUse => Claimed(d, h, i) \subseteq map \cup mine
  BY <1>1, <1>2, <1>3, Zenon DEF Consistent
<1>7. ASSUME NEW i \in DOMAIN d, NEW j \in DOMAIN d, d[i].inUse, d[j].inUse, i # j
      PROVE  Claimed(d, h, i) \cap Claimed(d, h, j) = {}
  <2>1. CASE IsFirst(i, FreeEntries(dir))
    <3>1. ~ IsFirst(j, FreeEntries(dir))
      BY <1>1, <1>5, <1>7, <2>1, Zenon
    <3>2. Claimed(d, h, j) \subseteq map
      BY <1>1, <1>3, <1>7, <3>1, Zenon DEF Consistent
    <3> QED
      BY <1>1, <1>2, <1>4, <2>1, <3>2, Zenon
  <2>2. CASE IsFirst(j, FreeEntries(dir))
    <3>1. ~ IsFirst(i, FreeEntries(dir))
      BY <1>1, <1>5, <1>7, <2>2, Zenon
    <3>2. Claimed(d, h, i) \subseteq map
      BY <1>1, <1>3, <1>7, <3>1, Zenon DEF Consistent
    <3> QED
      BY <1>1, <1>2, <1>4, <2>2, <3>2, Zenon
  <2>3. CASE ~ IsFirst(i, FreeEntries(dir)) /\ ~ IsFirst(j, FreeEntries(dir))
    BY <1>1, <1>3, <1>7, <2>3, Zenon DEF Consistent
  <2> QED
    BY <2>1, <2>2, <2>3, Zenon
<1>8. Consistent(d, map \cup mine, h)
  BY <1>6, <1>7, Zenon DEF Consistent
<1>9. map \cup mine = map \cup {sector} \cup hdr.dataSectors
  BY Zenon DEF mine
<1> QED
  BY <1>8, <1>9, Zenon DEF d, h

\* Directory::Remove and the sectors given back.
LEMMA RemoveConsistent ==
  ASSUME NEW dir \in Table, NEW map, NEW hdrs, Consistent(dir, map, hdrs),
         NEW i \in DOMAIN dir, dir[i].inUse, NEW gone, gone \subseteq Claimed(dir, hdrs, i)
  PROVE  Consistent(RemoveName(dir, i), map \ gone, hdrs)
<1> DEFINE d == RemoveName(dir, i)
<1>1. DOMAIN d = DOMAIN dir /\ ~ d[i].inUse /\ \A j \in DOMAIN dir \ {i} : d[j] = dir[j]
  BY Zenon DEF RemoveName, Table, Entry
<1> HIDE DEF d
<1>2. \A j \in DOMAIN d : d[j].inUse =>
        j # i /\ dir[j].inUse /\ Claimed(d, hdrs, j) = Claimed(dir, hdrs, j)
  BY <1>1, Zenon DEF Claimed
<1>3. ASSUME NEW j \in DOMAIN d, d[j].inUse PROVE Claimed(d, hdrs, j) \subseteq map \ gone
  BY <1>1, <1>2, <1>3, Zenon DEF Consistent
<1>4. Consistent(d, map \ gone, hdrs)
  BY <1>1, <1>2, <1>3 DEF Consistent
<1> QED
  BY <1>4, Zenon DEF d

\* Of a single caller, as long as the machine has not been stopped.
Whole == crashes = 0 => \A t \in Thread : OpConsistent(t)

\* FileSystem::Create up to its first write: the copies it makes are consistent.
LEMMA CreateConsistent ==
  ASSUME Sound, NEW t \in Thread, NEW n \in Name, NEW s \in Size, Create(t, n, s),
         OpConsistent(t)
  PROVE  OpConsistent(t)'
<1>1. PICK sector \in Lowest(freeMap, 1) :
        LET marked == freeMap \cup {sector}
            data == Allocate(marked, s)
        IN  op' = [op EXCEPT ![t] =
              [at |-> "header", sector |-> sector,
               hdr |-> [numBytes |-> s, dataSectors |-> data],
               dir |-> AddName(directory, n, sector), map |-> marked \cup data]]
  BY ZenonT(60) DEF Create
<1> DEFINE data == Allocate(freeMap \cup {sector}, s)
           hdr == [numBytes |-> s, dataSectors |-> data]
           dir == AddName(directory, n, sector)
<1>2. sector \in Sector \ freeMap
  BY Zenon DEF Lowest
<1>3. data \cap (freeMap \cup {sector}) = {}
  BY Zenon DEF Allocate, Lowest
<1>4. hdr.dataSectors = data
  BY Zenon
<1>5. Consistent(directory, freeMap, headers)
  BY Zenon DEF Create, OpConsistent
<1>6. directory \in Table /\ DOMAIN headers = Sector
  BY Zenon DEF Sound
<1> DEFINE new == [at |-> "header", sector |-> sector, hdr |-> hdr, dir |-> dir,
                   map |-> freeMap \cup {sector} \cup data]
<1>7. op' = [op EXCEPT ![t] = new]
  BY <1>1, Zenon
<1>8. op'[t] = new
  BY <1>7, Zenon DEF Sound
<1> HIDE DEF data, hdr
<1>9. Consistent(dir, freeMap \cup {sector} \cup data, [headers EXCEPT ![sector] = <<hdr>>])
  BY <1>2, <1>3, <1>4, <1>5, <1>6, AddConsistent, Zenon
<1> HIDE DEF dir
<1>10. /\ op'[t].at = "header" /\ op'[t].sector = sector /\ op'[t].hdr = hdr
       /\ op'[t].dir = dir /\ op'[t].map = freeMap \cup {sector} \cup data
  BY <1>8
<1>11. headers' = headers
  BY Zenon DEF Create
<1> QED
  BY <1>9, <1>10, <1>11, Zenon DEF OpConsistent

\* FileSystem::Remove up to its first write.
LEMMA RemoveFileConsistent ==
  ASSUME Sound, NEW t \in Thread, NEW n \in Name, RemoveFile(t, n), OpConsistent(t)
  PROVE  OpConsistent(t)'
<1>1. UNCHANGED <<freeMap, directory, headers>> /\ op[t].at = "idle"
  BY ZenonT(60) DEF RemoveFile
<1>2. PICK i \in DOMAIN directory :
        /\ IsFirst(i, Found(directory, n))
        /\ \/ UNCHANGED op
           \/ op' = [op EXCEPT ![t] =
                [at |-> "unmap", dir |-> RemoveName(directory, i),
                 map |-> freeMap \ (Deallocate(headers[directory[i].sector][1])
                                      \cup {directory[i].sector})]]
  BY Zenon DEF RemoveFile
<1>3. Consistent(directory, freeMap, headers)
  BY <1>1, Zenon DEF OpConsistent
<1>4. CASE UNCHANGED op
  BY <1>1, <1>4, Zenon DEF OpConsistent
<1> DEFINE gone == Deallocate(headers[directory[i].sector][1]) \cup {directory[i].sector}
           dir == RemoveName(directory, i)
           new == [at |-> "unmap", dir |-> dir, map |-> freeMap \ gone]
<1>5. CASE op' = [op EXCEPT ![t] = new]
  <2>1. directory[i].inUse
    BY <1>2, Zenon DEF IsFirst, Found
  <2>2. gone \subseteq Claimed(directory, headers, i)
    BY Zenon DEF Deallocate, Claimed
  <2>3. op'[t] = new
    BY <1>5, Zenon DEF Sound
  <2>4. op'[t].at = "unmap" /\ op'[t].dir = dir /\ op'[t].map = freeMap \ gone
    BY <2>3
  <2>5. directory \in Table
    BY Zenon DEF Sound
  <2> HIDE DEF gone
  <2>6. Consistent(dir, freeMap \ gone, headers)
    BY <1>3, <2>1, <2>2, <2>5, RemoveConsistent, Zenon
  <2> HIDE DEF dir
  <2> QED
    BY <1>1, <2>4, <2>6, Zenon DEF OpConsistent
<1> QED
  BY <1>2, <1>4, <1>5, ZenonT(60)

\* The steps that write back, each with what is on disk afterwards.
LEMMA WritesConsistent ==
  ASSUME Sound, NEW t \in Thread, OpConsistent(t),
         WriteHeader(t) \/ WriteDirectory(t) \/ WriteMap(t) \/ Unmap(t)
  PROVE  OpConsistent(t)'
<1>1. OpSound(t) /\ DOMAIN op = Thread
  BY Zenon DEF Sound
<1>2. CASE WriteHeader(t)
  <2>1. op[t] \in Creating /\ op[t].at = "header"
    BY <1>1, <1>2, Stages, Zenon DEF WriteHeader
  <2>2. op'[t] = [op[t] EXCEPT !.at = "directory"]
    BY <1>1, <1>2, Zenon DEF WriteHeader
  <2>3. op'[t].at = "directory" /\ op'[t].dir = op[t].dir /\ op'[t].map = op[t].map
    BY <2>1, <2>2, CreatingAdvances
  <2>4. Consistent(op[t].dir, op[t].map, headers')
    BY <1>2, <2>1, Zenon DEF OpConsistent, WriteHeader
  <2> QED
    BY <2>3, <2>4, Zenon DEF OpConsistent
<1>3. CASE WriteDirectory(t)
  <2>1. UNCHANGED <<freeMap, headers>>
    BY <1>3, Zenon DEF WriteDirectory
  <2>2. CASE op[t].at = "directory"
    <3>1. op[t] \in Creating /\ op'[t] = [op[t] EXCEPT !.at = "directory2"]
      BY <1>1, <1>3, <2>2, Stages, Zenon DEF WriteDirectory
    <3>2. op'[t].at = "directory2" /\ op'[t].dir = op[t].dir /\ op'[t].map = op[t].map
      BY <3>1, CreatingAdvances
    <3>3. Consistent(op[t].dir, op[t].map, headers)
      BY <2>2, Zenon DEF OpConsistent
    <3> QED
      BY <2>1, <3>2, <3>3, Zenon DEF OpConsistent
  <2>3. CASE op[t].at = "directory2"
    <3>1. op[t] \in Creating /\ op'[t] = [op[t] EXCEPT !.at = "map"] /\ directory' = op[t].dir
      BY <1>1, <1>3, <2>3, Stages, Zenon DEF WriteDirectory
    <3>2. op'[t].at = "map" /\ op'[t].dir = op[t].dir /\ op'[t].map = op[t].map
      BY <3>1, CreatingAdvances
    <3>3. Consistent(op[t].dir, op[t].map, headers)
      BY <2>3, Zenon DEF OpConsistent
    <3> QED
      BY <2>1, <3>1, <3>2, <3>3, Zenon DEF OpConsistent
  <2>4. CASE op[t].at = "unname"
    <3>1. op[t] \in Removing /\ op'[t] = [op[t] EXCEPT !.at = "unname2"]
      BY <1>1, <1>3, <2>4, Stages, ZenonT(60) DEF WriteDirectory
    <3>2. op'[t].at = "unname2" /\ op'[t].dir = op[t].dir
      BY <3>1, RemovingAdvances
    <3>3. Consistent(op[t].dir, freeMap, headers)
      BY <2>4, Zenon DEF OpConsistent
    <3> QED
      BY <2>1, <3>2, <3>3, Zenon DEF OpConsistent
  <2>5. CASE op[t].at = "unname2"
    <3>1. op'[t] = Idle /\ directory' = op[t].dir
      BY <1>1, <1>3, <2>5, Zenon DEF WriteDirectory
    <3>2. Consistent(op[t].dir, freeMap, headers)
      BY <2>5, Zenon DEF OpConsistent
    <3> QED
      BY <2>1, <3>1, <3>2 DEF OpConsistent, Idle
  <2> QED
    BY <1>3, <2>2, <2>3, <2>4, <2>5, Zenon DEF WriteDirectory
<1>4. CASE WriteMap(t)
  <2>1. op'[t] = Idle /\ freeMap' = op[t].map /\ UNCHANGED <<directory, headers>>
    BY <1>1, <1>4, Zenon DEF WriteMap
  <2>2. Consistent(op[t].dir, op[t].map, headers) /\ directory = op[t].dir
    BY <1>4, Zenon DEF WriteMap, OpConsistent
  <2> QED
    BY <2>1, <2>2 DEF OpConsistent, Idle
<1>5. CASE Unmap(t)
  <2>1. op[t] \in Removing /\ op'[t] = [op[t] EXCEPT !.at = "unname"]
    BY <1>1, <1>5, Stages, Zenon DEF Unmap
  <2>2. op'[t].at = "unname" /\ op'[t].dir = op[t].dir
    BY <2>1, RemovingAdvances
  <2>3. Consistent(op[t].dir, op[t].map, headers) /\ freeMap' = op[t].map /\ UNCHANGED headers
    BY <1>5, Zenon DEF Unmap, OpConsistent
  <2> QED
    BY <2>2, <2>3, Zenon DEF OpConsistent
<1> QED
  BY <1>2, <1>3, <1>4, <1>5, Zenon

\* A single caller finds and leaves the disk consistent.
LEMMA NextWhole ==
  ASSUME NEW c, Thread = {c}, Sound, HeadersFit, Whole, [Next]_vars PROVE Whole'
<1> SUFFICES ASSUME crashes' = 0 PROVE OpConsistent(c)'
  BY Zenon DEF Whole
<1>1. ~ Crash
  BY DEF Crash, HeadersFit
<1>2. crashes = 0
  BY <1>1, Zenon DEF Next, Create, CreateFails, RemoveFile, RemoveMissing, WriteHeader,
     WriteDirectory, WriteMap, Unmap, vars
<1>3. OpConsistent(c) /\ c \in Thread
  BY <1>2, Zenon DEF Whole
<1>4. CASE UNCHANGED vars
  BY <1>3, <1>4, Zenon DEF OpConsistent, vars
<1>5. ASSUME NEW n \in Name, NEW s \in Size, Create(c, n, s) PROVE OpConsistent(c)'
  BY <1>3, <1>5, CreateConsistent, Zenon
<1>6. ASSUME NEW n \in Name, RemoveFile(c, n) PROVE OpConsistent(c)'
  BY <1>3, <1>6, RemoveFileConsistent, Zenon
<1>7. CASE WriteHeader(c) \/ WriteDirectory(c) \/ WriteMap(c) \/ Unmap(c)
  BY <1>3, <1>7, WritesConsistent, Zenon
<1>8. \/ UNCHANGED vars
      \/ \E n \in Name, s \in Size : Create(c, n, s)
      \/ \E n \in Name : RemoveFile(c, n)
      \/ WriteHeader(c) \/ WriteDirectory(c) \/ WriteMap(c) \/ Unmap(c)
  BY <1>1, Zenon DEF Next, CreateFails, RemoveMissing
<1> QED
  BY <1>4, <1>5, <1>6, <1>7, <1>8, Zenon

\* A formatted disk is consistent.
LEMMA InitWhole == ASSUME NEW c, Thread = {c}, Init PROVE HeadersFit /\ Whole
<1>1. HeadersFit
  <2>1. crashes \in 0 .. MaxCrashes
    BY FileSystemAssumption DEF Init
  <2> QED
    BY <2>1, Zenon DEF Init, HeadersFit, Idle
<1>2. Consistent(directory, freeMap, headers)
  BY Zenon DEF Init, Consistent, Unused
<1> QED
  BY <1>1, <1>2, Zenon DEF Init, Whole, OpConsistent, Idle

\* SectorsAccounted for a single caller, any disk, any directory and any sizes: files
\* claim marked sectors only and share none, as long as the machine was not stopped in
\* the middle of an operation.  (With two callers it does not hold: both read the free
\* map before either writes it back, and filesys.cc has no lock.)
THEOREM SectorsAlwaysAccounted ==
  ASSUME NEW c, Thread = {c} PROVE Spec => []SectorsAccounted
<1> DEFINE Inv == Sound /\ HeadersFit /\ Whole
<1>1. Init => Inv
  BY InitSound, InitWhole, Zenon
<1>2. Inv /\ [Next]_vars => Inv'
  BY NextSound, NextFits, NextWhole, ZenonT(60)
<1>3. Inv => SectorsAccounted
  <2> SUFFICES ASSUME Sound, HeadersFit, Whole PROVE SectorsAccounted
    BY Zenon
  <2>1. TypeOK
    <3>1. \A i \in DOMAIN directory :
            directory[i].inUse => directory[i].name \in Name \cup {""} /\ directory[i].sector \in Sector
      BY Zenon DEF Sound, Table, Entry
    <3>2. ASSUME NEW s \in Sector, headers[s] # <<>> PROVE headers[s][1] \in Header
      <4>1. PICK h \in SafeHeader : headers[s] = <<h>>
        BY <3>2, Zenon DEF Sound
      <4>2. h \in Header
        BY Zenon DEF SafeHeader, Header, UserSector
      <4> QED
        BY <4>1, <4>2
    <3>3. freeMap \subseteq Sector
      BY Zenon DEF Sound, SafeMap
    <3> QED
      BY <3>1, <3>2, <3>3, Zenon DEF TypeOK, HeadersFit, SmallHeader
  <2>2. ASSUME crashes = 0, \A t \in Thread : op[t].at = "idle"
        PROVE  \A i, j \in Entries :
                 SectorsOf(i) \subseteq freeMap /\ (i # j => SectorsOf(i) \cap SectorsOf(j) = {})
    <3>1. Consistent(directory, freeMap, headers)
      BY <2>2, Zenon DEF Whole, OpConsistent
    <3> QED
      BY <3>1, Zenon DEF Consistent, Entries, SectorsOf, Claimed
  <2> QED
    BY <2>1, <2>2, Zenon DEF SectorsAccounted
<1> QED
  BY <1>1, <1>2, <1>3, PTL DEF Spec

--------------------------------------------------------------------------------
(***************************************************************************)
(* The step by step proof that the directory implements Files, for a       *)
(* single caller: names stay different, and a table differs from the one   *)
(* an operation started from by the one entry it adds or takes away.       *)
(***************************************************************************)

\* No two entries in use have the same name.
NamesDiffer(dir) ==
  \A i, j \in DOMAIN dir :
    dir[i].inUse /\ dir[j].inUse /\ dir[i].name = dir[j].name => i = j

\* SizeOf and Sizes for any table and headers.
SizeIn(dir, hdrs, n) ==
  IF Found(dir, n) = {} THEN -1
  ELSE hdrs[dir[CHOOSE i \in Found(dir, n) : IsFirst(i, Found(dir, n))].sector][1].numBytes
SizesIn(dir, hdrs) == [n \in Name |-> SizeIn(dir, hdrs, n)]

\* A name has one entry, so it does not matter which one FindIndex finds first.
LEMMA SizeUnique ==
  ASSUME NEW dir \in Table, NamesDiffer(dir), NEW hdrs, NEW n, NEW i \in Found(dir, n)
  PROVE  SizeIn(dir, hdrs, n) = hdrs[dir[i].sector][1].numBytes
<1>1. Found(dir, n) = {i}
  BY Zenon DEF Found, NamesDiffer
<1>2. i <= i
  BY DEF Found, Table
<1>3. (CHOOSE j \in {i} : IsFirst(j, {i})) = i
  BY <1>2, Zenon DEF IsFirst
<1> QED
  BY <1>1, <1>3, ZenonT(60) DEF SizeIn

\* A header that no entry of the table names changes no size.
LEMMA SizesKept ==
  ASSUME NEW dir \in Table, NamesDiffer(dir), NEW hdrs, NEW new,
         \A i \in DOMAIN dir : dir[i].inUse => new[dir[i].sector] = hdrs[dir[i].sector]
  PROVE  SizesIn(dir, new) = SizesIn(dir, hdrs)
<1>1. ASSUME NEW n \in Name PROVE SizeIn(dir, new, n) = SizeIn(dir, hdrs, n)
  <2>1. CASE Found(dir, n) = {}
    BY <2>1, Zenon DEF SizeIn
  <2>2. CASE Found(dir, n) # {}
    <3>1. PICK i \in Found(dir, n) : TRUE
      BY <2>2, Zenon
    <3>2. new[dir[i].sector] = hdrs[dir[i].sector]
      BY Zenon DEF Found
    <3>3. SizeIn(dir, new, n) = new[dir[i].sector][1].numBytes
      BY SizeUnique
    <3>4. SizeIn(dir, hdrs, n) = hdrs[dir[i].sector][1].numBytes
      BY SizeUnique
    <3> QED
      BY <3>2, <3>3, <3>4, Zenon
  <2> QED
    BY <2>1, <2>2, Zenon
<1> QED
  BY <1>1, Zenon DEF SizesIn

\* The sizes of the names that two tables have alike.
LEMMA SizeAlike ==
  ASSUME NEW dir \in Table, NEW d \in Table, NamesDiffer(dir), NamesDiffer(d), NEW hdrs, NEW m,
         Found(d, m) = Found(dir, m), \A i \in Found(dir, m) : d[i] = dir[i]
  PROVE  SizeIn(d, hdrs, m) = SizeIn(dir, hdrs, m)
<1>1. CASE Found(dir, m) = {}
  BY <1>1, Zenon DEF SizeIn
<1>2. CASE Found(dir, m) # {}
  <2>1. PICK i \in Found(dir, m) : TRUE
    BY <1>2, Zenon
  <2>2. SizeIn(dir, hdrs, m) = hdrs[dir[i].sector][1].numBytes
    BY SizeUnique
  <2>3. SizeIn(d, hdrs, m) = hdrs[d[i].sector][1].numBytes
    BY SizeUnique
  <2> QED
    BY <2>1, <2>2, <2>3, Zenon
<1> QED
  BY <1>1, <1>2, Zenon

\* Directory::FindIndex finds a first entry where there is one.
LEMMA FirstExists ==
  ASSUME NEW dir \in Table, NEW S, S \subseteq DOMAIN dir, S # {}
  PROVE  \E i \in S : IsFirst(i, S)
<1>1. S \subseteq Nat
  BY FileSystemAssumption DEF Table
<1>2. \E m \in S : \A j \in S : ~ (<<j, m>> \in OpToRel(<, Nat))
  BY <1>1, NatLessThanWellFounded, WFMin, Zenon
<1>3. \A i, j \in Nat : <<i, j>> \in OpToRel(<, Nat) <=> i < j
  BY Zenon DEF OpToRel
<1>4. PICK m \in S : \A j \in S : ~ (<<j, m>> \in OpToRel(<, Nat))
  BY <1>2, Zenon
<1>5. \A j \in S : ~ (j < m)
  BY <1>1, <1>3, <1>4, Zenon
<1>6. \A j \in S : m <= j
  BY <1>1, <1>5
<1> QED
  BY <1>6, Zenon DEF IsFirst

\* The sizes of two tables that differ by the size of n.
Resized(dir, d, hdrs, n, s) == SizesIn(d, hdrs) = [SizesIn(dir, hdrs) EXCEPT ![n] = s]

\* Directory::Add: one file appears.
LEMMA AddSizes ==
  ASSUME NEW dir \in Table, NamesDiffer(dir), NEW n \in Name, Found(dir, n) = {},
         FreeEntries(dir) # {}, NEW sector \in Sector, NEW hdrs, NEW hdr,
         hdrs[sector] = <<hdr>>
  PROVE  /\ NamesDiffer(AddName(dir, n, sector))
         /\ SizesIn(dir, hdrs)[n] = -1
         /\ Resized(dir, AddName(dir, n, sector), hdrs, n, hdr.numBytes)
<1> DEFINE d == AddName(dir, n, sector)
<1>1. PICK k \in DOMAIN dir : IsFirst(k, FreeEntries(dir))
  BY FirstExists, ZenonT(60) DEF FreeEntries
<1>2. \A i \in DOMAIN dir : IsFirst(i, FreeEntries(dir)) => i = k
  BY <1>1 DEF IsFirst, Table
<1>3. ~ dir[k].inUse
  BY <1>1, Zenon DEF IsFirst, FreeEntries
<1> DEFINE e == [inUse |-> TRUE, name |-> n, sector |-> sector]
<1>4. DOMAIN d = DOMAIN dir /\ d[k] = e /\ \A i \in DOMAIN dir \ {k} : d[i] = dir[i]
  BY <1>1, <1>2, Zenon DEF AddName
<1>5. e \in Entry /\ e.inUse /\ e.name = n /\ e.sector = sector
  BY Zenon DEF Entry
<1>6. d \in Table
  BY Zenon DEF AddName, Table, Entry
<1> HIDE DEF d, e
<1>7. NamesDiffer(d)
  BY <1>4, <1>5 DEF NamesDiffer, Found
<1>8. Found(d, n) = {k}
  <2>1. \A i \in DOMAIN d : i # k => ~ (d[i].inUse /\ d[i].name = n)
    BY <1>4, Zenon DEF Found
  <2>2. k \in DOMAIN d /\ d[k].inUse /\ d[k].name = n
    BY <1>4, <1>5, Zenon
  <2> QED
    BY <2>1, <2>2, Zenon DEF Found
<1>9. SizeIn(d, hdrs, n) = hdr.numBytes
  <2>1. SizeIn(d, hdrs, n) = hdrs[d[k].sector][1].numBytes
    BY <1>6, <1>7, <1>8, SizeUnique
  <2> QED
    BY <1>4, <1>5, <2>1
<1>10. ASSUME NEW m \in Name \ {n} PROVE SizeIn(d, hdrs, m) = SizeIn(dir, hdrs, m)
  <2>1. Found(d, m) = Found(dir, m) /\ k \notin Found(dir, m)
    BY <1>3, <1>4, <1>5, Zenon DEF Found
  <2>2. \A i \in Found(dir, m) : d[i] = dir[i]
    BY <1>4, <2>1, Zenon DEF Found
  <2> QED
    BY <1>6, <1>7, <2>1, <2>2, SizeAlike
<1>11. SizesIn(dir, hdrs)[n] = -1
  BY Zenon DEF SizesIn, SizeIn
<1>12. SizesIn(d, hdrs) = [SizesIn(dir, hdrs) EXCEPT ![n] = hdr.numBytes]
  BY <1>9, <1>10, ZenonT(60) DEF SizesIn
<1> QED
  BY <1>7, <1>11, <1>12, Zenon DEF d, Resized

\* Directory::Remove: one file disappears.
LEMMA RemoveSizes ==
  ASSUME NEW dir \in Table, NamesDiffer(dir), NEW n \in Name, NEW k \in Found(dir, n),
         NEW hdrs, hdrs[dir[k].sector][1].numBytes \in Nat
  PROVE  /\ NamesDiffer(RemoveName(dir, k))
         /\ SizesIn(dir, hdrs)[n] # -1
         /\ Resized(dir, RemoveName(dir, k), hdrs, n, -1)
<1> DEFINE d == RemoveName(dir, k)
<1>1. k \in DOMAIN dir /\ dir[k].inUse /\ dir[k].name = n
  BY Zenon DEF Found
<1>2. DOMAIN d = DOMAIN dir /\ ~ d[k].inUse /\ \A i \in DOMAIN dir \ {k} : d[i] = dir[i]
  BY <1>1, Zenon DEF RemoveName, Table, Entry
<1>3. d \in Table
  BY <1>1, Zenon DEF RemoveName, Table, Entry
<1> HIDE DEF d
<1>4. NamesDiffer(d)
  BY <1>2, Zenon DEF NamesDiffer
<1>5. Found(d, n) = {}
  BY <1>1, <1>2 DEF Found, NamesDiffer
<1>6. ASSUME NEW m \in Name \ {n} PROVE SizeIn(d, hdrs, m) = SizeIn(dir, hdrs, m)
  <2>1. Found(d, m) = Found(dir, m) /\ k \notin Found(dir, m)
    BY <1>1, <1>2 DEF Found
  <2>2. \A i \in Found(dir, m) : d[i] = dir[i]
    BY <1>2, <2>1, Zenon DEF Found
  <2> QED
    BY <1>3, <1>4, <2>1, <2>2, SizeAlike
<1>7. SizesIn(dir, hdrs)[n] # -1
  <2>1. SizeIn(dir, hdrs, n) = hdrs[dir[k].sector][1].numBytes
    BY SizeUnique
  <2>2. SizesIn(dir, hdrs)[n] = SizeIn(dir, hdrs, n)
    BY Zenon DEF SizesIn
  <2> QED
    BY <2>1, <2>2
<1>8. SizeIn(d, hdrs, n) = -1
  BY <1>5, Zenon DEF SizeIn
<1>9. SizesIn(d, hdrs) = [SizesIn(dir, hdrs) EXCEPT ![n] = -1]
  BY <1>6, <1>8, Zenon DEF SizesIn
<1> QED
  BY <1>4, <1>7, <1>9, Zenon DEF d, Resized

\* The copy of an operation is the table on disk with a name added, or taken away.
Adds(t) ==
  \E n \in Name : /\ Found(directory, n) = {} /\ FreeEntries(directory) # {}
                  /\ op[t].dir = AddName(directory, n, op[t].sector)
Removes(t) ==
  \E n \in Name : \E i \in Found(directory, n) : op[t].dir = RemoveName(directory, i)

\* How the table on disk and the copy of an operation differ.
OpNamed(t) ==
  /\ op[t].at \in {"idle", "header", "directory", "unmap", "unname"} => NamesDiffer(directory)
  /\ op[t].at \in {"directory2", "map", "unname2"} => NamesDiffer(op[t].dir)
  /\ op[t].at \in {"header", "directory"} => Adds(t)
  /\ op[t].at \in {"unmap", "unname"} => Removes(t)
  /\ op[t].at = "header" =>
       \A i \in DOMAIN directory : directory[i].inUse => directory[i].sector # op[t].sector
  /\ op[t].at = "directory" => headers[op[t].sector] = <<op[t].hdr>>
  /\ op[t].at = "map" => directory = op[t].dir

\* ... as long as the machine has not been stopped.
DirectoryNamed == crashes = 0 => \A t \in Thread : OpNamed(t)

\* The table that counts, for a single caller.
LEMMA SizesAre ==
  ASSUME NEW c, Thread = {c}
  PROVE  /\ Sizes = SizesIn(IF op[c].at \in {"directory2", "unname2"} THEN op[c].dir
                            ELSE directory, headers)
         /\ Sizes' = SizesIn(IF op'[c].at \in {"directory2", "unname2"} THEN op'[c].dir
                             ELSE directory', headers')
<1>1. Written = IF op[c].at \in {"directory2", "unname2"} THEN op[c].dir ELSE directory
  BY Zenon DEF Written
<1>2. Written' = IF op'[c].at \in {"directory2", "unname2"} THEN op'[c].dir ELSE directory'
  BY Zenon DEF Written
<1>3. Sizes = SizesIn(Written, headers)
  BY Zenon DEF Sizes, SizeOf, SizesIn, SizeIn
<1>4. Sizes' = SizesIn(Written', headers')
  BY Zenon DEF Sizes, SizeOf, SizesIn, SizeIn
<1> QED
  BY <1>1, <1>2, <1>3, <1>4, Zenon

\* Create has written nothing yet: the sizes stay.
LEMMA CreateNamed ==
  ASSUME NEW t, Thread = {t}, Sound, OpConsistent(t), OpNamed(t),
         NEW n \in Name, NEW s \in Size, Create(t, n, s)
  PROVE  OpNamed(t)' /\ UNCHANGED Sizes
<1>1. PICK sector \in Lowest(freeMap, 1) :
        LET marked == freeMap \cup {sector}
            data == Allocate(marked, s)
        IN  op' = [op EXCEPT ![t] =
              [at |-> "header", sector |-> sector,
               hdr |-> [numBytes |-> s, dataSectors |-> data],
               dir |-> AddName(directory, n, sector), map |-> marked \cup data]]
  BY ZenonT(60) DEF Create
<1>2. /\ op[t].at = "idle" /\ UNCHANGED <<directory, headers>>
      /\ Found(directory, n) = {} /\ FreeEntries(directory) # {}
  BY Zenon DEF Create
<1>3. /\ op'[t].at = "header" /\ op'[t].sector = sector
      /\ op'[t].dir = AddName(directory, n, sector)
  BY <1>1, Zenon DEF Sound
<1>4. \A i \in DOMAIN directory : directory[i].inUse => directory[i].sector # sector
  <2>1. sector \notin freeMap
    BY Zenon DEF Lowest
  <2>2. Consistent(directory, freeMap, headers)
    BY <1>2, ZenonT(60) DEF OpConsistent
  <2> QED
    BY <2>1, <2>2, Zenon DEF Consistent, Claimed
<1>5. NamesDiffer(directory)
  BY <1>2, ZenonT(60) DEF OpNamed
<1>6. OpNamed(t)'
  BY <1>2, <1>3, <1>4, <1>5, ZenonT(60) DEF OpNamed, Adds
<1>7. UNCHANGED Sizes
  BY <1>2, <1>3, SizesAre, ZenonT(60)
<1> QED
  BY <1>6, <1>7, Zenon

\* Nor has Remove.
LEMMA RemoveFileNamed ==
  ASSUME NEW t, Thread = {t}, Sound, OpNamed(t), NEW n \in Name, RemoveFile(t, n)
  PROVE  OpNamed(t)' /\ UNCHANGED Sizes
<1>1. UNCHANGED <<freeMap, directory, headers>> /\ op[t].at = "idle"
  BY ZenonT(60) DEF RemoveFile
<1>2. PICK i \in DOMAIN directory :
        /\ IsFirst(i, Found(directory, n))
        /\ \/ UNCHANGED op
           \/ op' = [op EXCEPT ![t] =
                [at |-> "unmap", dir |-> RemoveName(directory, i),
                 map |-> freeMap \ (Deallocate(headers[directory[i].sector][1])
                                      \cup {directory[i].sector})]]
  BY ZenonT(60) DEF RemoveFile
<1>3. NamesDiffer(directory) /\ i \in Found(directory, n)
  BY <1>1, <1>2, ZenonT(60) DEF OpNamed, IsFirst
<1>4. CASE UNCHANGED op
  BY <1>1, <1>4, SizesAre, ZenonT(60) DEF OpNamed, Adds, Removes
<1>5. CASE ~ UNCHANGED op
  <2> DEFINE new == [at |-> "unmap", dir |-> RemoveName(directory, i),
                     map |-> freeMap \ (Deallocate(headers[directory[i].sector][1])
                                          \cup {directory[i].sector})]
  <2>a. new.at = "unmap" /\ new.dir = RemoveName(directory, i)
    BY Zenon
  <2>b. op' = [op EXCEPT ![t] = new]
    BY <1>2, <1>5, Zenon
  <2> HIDE DEF new
  <2>c. t \in DOMAIN op
    BY Zenon DEF Sound
  <2>1. op'[t].at = "unmap" /\ op'[t].dir = RemoveName(directory, i)
    BY <2>a, <2>b, <2>c, Zenon
  <2>2. OpNamed(t)'
    BY <1>1, <1>3, <2>1, ZenonT(60) DEF OpNamed, Removes
  <2>3. UNCHANGED Sizes
    BY <1>1, <2>1, SizesAre, Zenon
  <2> QED
    BY <2>2, <2>3, Zenon
<1> QED
  BY <1>4, <1>5, Zenon

\* FileHeader::WriteBack writes a sector that no entry names yet.
LEMMA WriteHeaderNamed ==
  ASSUME NEW t, Thread = {t}, Sound, OpNamed(t), WriteHeader(t)
  PROVE  OpNamed(t)' /\ UNCHANGED Sizes
<1>1. op[t] \in Creating /\ op[t].at = "header" /\ directory \in Table /\ DOMAIN headers = Sector
  BY Stages, Zenon DEF WriteHeader, Sound
<1>2. op'[t] = [op[t] EXCEPT !.at = "directory"] /\ UNCHANGED directory
  BY Zenon DEF WriteHeader, Sound
<1>3. /\ op'[t].at = "directory" /\ op'[t].dir = op[t].dir /\ op'[t].sector = op[t].sector
      /\ op'[t].hdr = op[t].hdr
  BY <1>1, <1>2, Zenon DEF Creating
<1>4. headers' = [headers EXCEPT ![op[t].sector] = <<op[t].hdr>>] /\ op[t].sector \in Sector
  BY <1>1, Zenon DEF WriteHeader, Creating, UserSector
<1>5. headers'[op[t].sector] = <<op[t].hdr>>
  BY <1>1, <1>4, Zenon
<1>6. NamesDiffer(directory) /\ Adds(t)
  BY <1>1, Zenon DEF OpNamed
<1>7. Adds(t)'
  BY <1>2, <1>3, <1>6, Zenon DEF Adds
<1>8. OpNamed(t)'
  BY <1>2, <1>3, <1>5, <1>6, <1>7, Zenon DEF OpNamed
<1>9. \A i \in DOMAIN directory :
        directory[i].inUse => headers'[directory[i].sector] = headers[directory[i].sector]
  <2> SUFFICES ASSUME NEW i \in DOMAIN directory, directory[i].inUse
               PROVE  headers'[directory[i].sector] = headers[directory[i].sector]
    BY Zenon
  <2>1. directory[i].sector # op[t].sector
    BY <1>1, Zenon DEF OpNamed
  <2>2. directory[i].sector \in Sector
    BY <1>1, Zenon DEF Table, Entry
  <2> QED
    BY <1>1, <1>4, <2>1, <2>2, Zenon
<1>10. SizesIn(directory, headers') = SizesIn(directory, headers)
  BY <1>1, <1>6, <1>9, SizesKept, Zenon
<1>11. UNCHANGED Sizes
  BY <1>1, <1>2, <1>3, <1>10, SizesAre, Zenon
<1> QED
  BY <1>8, <1>11, Zenon

\* The step that writes the first sector of the table is the one that counts.
LEMMA WriteDirectoryNamed ==
  ASSUME NEW t, Thread = {t}, Sound, OpNamed(t), WriteDirectory(t)
  PROVE  OpNamed(t)' /\ (UNCHANGED Sizes \/ TheFiles!FilesNext)
<1>1. UNCHANGED headers /\ OpSound(t) /\ DOMAIN op = Thread /\ directory \in Table
  BY Zenon DEF WriteDirectory, Sound
<1>2. CASE op[t].at = "directory"
  <2>1. op[t] \in Creating /\ op'[t] = [op[t] EXCEPT !.at = "directory2"]
    BY <1>1, <1>2, Stages, Zenon DEF WriteDirectory
  <2>2. op'[t].at = "directory2" /\ op'[t].dir = op[t].dir
    BY <2>1, CreatingAdvances
  <2>3. /\ NamesDiffer(directory) /\ headers[op[t].sector] = <<op[t].hdr>>
        /\ op[t].sector \in Sector /\ op[t].hdr.numBytes \in Size
    BY <1>2, <2>1, Zenon DEF OpNamed, Creating, UserSector, SafeHeader
  <2>4. PICK n \in Name : /\ Found(directory, n) = {} /\ FreeEntries(directory) # {}
                          /\ op[t].dir = AddName(directory, n, op[t].sector)
    BY <1>2, Zenon DEF OpNamed, Adds
  <2>5. /\ NamesDiffer(op[t].dir)
        /\ SizesIn(directory, headers)[n] = -1
        /\ Resized(directory, op[t].dir, headers, n, op[t].hdr.numBytes)
    <3> DEFINE sector == op[t].sector
               hdr == op[t].hdr
    <3>1. /\ directory \in Table /\ NamesDiffer(directory)
          /\ Found(directory, n) = {} /\ FreeEntries(directory) # {}
          /\ sector \in Sector /\ headers[sector] = <<hdr>>
          /\ op[t].dir = AddName(directory, n, sector)
      BY <1>1, <2>3, <2>4, Zenon
    <3>2. ASSUME NEW s, NEW h, s \in Sector, headers[s] = <<h>>
          PROVE  /\ NamesDiffer(AddName(directory, n, s))
                 /\ SizesIn(directory, headers)[n] = -1
                 /\ Resized(directory, AddName(directory, n, s), headers, n, h.numBytes)
      BY <1>1, <2>3, <2>4, <3>2, AddSizes, Zenon
    <3> QED
      BY <3>1, <3>2, Zenon
  <2>6. OpNamed(t)'
    BY <2>2, <2>5, ZenonT(60) DEF OpNamed
  <2>7. Sizes = SizesIn(directory, headers) /\ Sizes' = SizesIn(op[t].dir, headers)
    BY <1>1, <1>2, <2>2, SizesAre, Zenon
  <2>8. TheFiles!Appears(n, op[t].hdr.numBytes)
    BY <2>5, <2>7, Zenon DEF TheFiles!Appears, Resized
  <2> QED
    BY <2>3, <2>6, <2>8, Zenon DEF TheFiles!FilesNext
<1>3. CASE op[t].at = "directory2"
  <2>1. op[t] \in Creating /\ op'[t] = [op[t] EXCEPT !.at = "map"] /\ directory' = op[t].dir
    BY <1>1, <1>3, Stages, Zenon DEF WriteDirectory
  <2>2. op'[t].at = "map" /\ op'[t].dir = op[t].dir
    BY <2>1, CreatingAdvances
  <2>3. OpNamed(t)'
    BY <1>3, <2>1, <2>2, Zenon DEF OpNamed
  <2>4. UNCHANGED Sizes
    BY <1>1, <1>3, <2>1, <2>2, SizesAre, Zenon
  <2> QED
    BY <2>3, <2>4, Zenon
<1>4. CASE op[t].at = "unname"
  <2>1. op[t] \in Removing /\ op'[t] = [op[t] EXCEPT !.at = "unname2"]
    BY <1>1, <1>4, Stages, Zenon DEF WriteDirectory
  <2>2. op'[t].at = "unname2" /\ op'[t].dir = op[t].dir
    BY <2>1, RemovingAdvances
  <2>3. PICK n \in Name : \E i \in Found(directory, n) : op[t].dir = RemoveName(directory, i)
    BY <1>4, Zenon DEF OpNamed, Removes
  <2>4. PICK i \in Found(directory, n) : op[t].dir = RemoveName(directory, i)
    BY <2>3, Zenon
  <2>5. NamesDiffer(directory)
    BY <1>4, Zenon DEF OpNamed
  <2>6. headers[directory[i].sector][1].numBytes \in Nat
    <3>1. directory[i].sector \in Sector /\ headers[directory[i].sector] # <<>>
      BY Zenon DEF Found, Sound, Backed, UserSector
    <3>2. PICK h \in SafeHeader : headers[directory[i].sector] = <<h>>
      BY <3>1, Zenon DEF Sound
    <3>3. h.numBytes \in Nat
      BY FileSystemAssumption, Zenon DEF SafeHeader
    <3>4. <<h>>[1] = h
      BY Zenon
    <3> QED
      BY <3>2, <3>3, <3>4, Zenon
  <2>7. /\ NamesDiffer(op[t].dir)
        /\ SizesIn(directory, headers)[n] # -1
        /\ Resized(directory, op[t].dir, headers, n, -1)
    BY <1>1, <2>4, <2>5, <2>6, RemoveSizes, ZenonT(60)
  <2>8. OpNamed(t)'
    BY <2>2, <2>7, ZenonT(60) DEF OpNamed
  <2>9. Sizes = SizesIn(directory, headers) /\ Sizes' = SizesIn(op[t].dir, headers)
    BY <1>1, <1>4, <2>2, SizesAre, ZenonT(60)
  <2>10. TheFiles!Disappears(n)
    BY <2>7, <2>9, Zenon DEF TheFiles!Disappears, Resized
  <2> QED
    BY <2>8, <2>10, Zenon DEF TheFiles!FilesNext
<1>5. CASE op[t].at = "unname2"
  <2>1. op'[t] = Idle /\ directory' = op[t].dir
    BY <1>1, <1>5, Zenon DEF WriteDirectory
  <2>2. op'[t].at = "idle"
    BY <2>1 DEF Idle
  <2>3. OpNamed(t)'
    BY <1>5, <2>1, <2>2, ZenonT(60) DEF OpNamed
  <2>4. UNCHANGED Sizes
    BY <1>1, <1>5, <2>1, <2>2, SizesAre, ZenonT(60)
  <2> QED
    BY <2>3, <2>4, Zenon
<1> QED
  BY <1>2, <1>3, <1>4, <1>5, Zenon DEF WriteDirectory

\* Writing the free map changes no size.
LEMMA WriteMapsNamed ==
  ASSUME NEW t, Thread = {t}, Sound, OpNamed(t), WriteMap(t) \/ Unmap(t)
  PROVE  OpNamed(t)' /\ UNCHANGED Sizes
<1>1. UNCHANGED <<directory, headers>> /\ OpSound(t) /\ DOMAIN op = Thread
  BY Zenon DEF WriteMap, Unmap, Sound
<1>2. CASE WriteMap(t)
  <2>1. op[t].at = "map" /\ op'[t] = Idle
    BY <1>1, <1>2, Zenon DEF WriteMap
  <2>2. op'[t].at = "idle"
    <3>1. Idle.at = "idle"
      BY Zenon DEF Idle
    <3> QED
      BY <2>1, <3>1, ZenonT(60)
  <2>3. NamesDiffer(directory)
    BY <2>1, Zenon DEF OpNamed
  <2> QED
    BY <1>1, <2>1, <2>2, <2>3, SizesAre, ZenonT(60) DEF OpNamed
<1>3. CASE Unmap(t)
  <2>1. op[t].at = "unmap" /\ op[t] \in Removing /\ op'[t] = [op[t] EXCEPT !.at = "unname"]
    BY <1>1, <1>3, Stages, Zenon DEF Unmap
  <2>2. op'[t].at = "unname" /\ op'[t].dir = op[t].dir
    BY <2>1, RemovingAdvances
  <2>3. NamesDiffer(directory) /\ Removes(t)
    BY <2>1, Zenon DEF OpNamed
  <2>4. Removes(t)'
    BY <1>1, <2>2, <2>3, Zenon DEF Removes
  <2> QED
    BY <1>1, <2>1, <2>2, <2>3, <2>4, SizesAre, ZenonT(60) DEF OpNamed
<1> QED
  BY <1>2, <1>3, Zenon

\* Every step without a crash leaves the sizes or is one of Files.
LEMMA NextNamed ==
  ASSUME NEW c, Thread = {c}, Sound, HeadersFit, Whole, DirectoryNamed, [Next]_vars,
         crashes' = 0
  PROVE  OpNamed(c)' /\ (UNCHANGED Sizes \/ TheFiles!FilesNext)
<1>1. ~ Crash
  BY DEF Crash, HeadersFit
<1>2. crashes = 0
  BY <1>1, Zenon DEF Next, Create, CreateFails, RemoveFile, RemoveMissing, WriteHeader,
     WriteDirectory, WriteMap, Unmap, vars
<1>3. OpConsistent(c) /\ OpNamed(c)
  BY <1>2, Zenon DEF Whole, DirectoryNamed
<1>4. CASE UNCHANGED vars
  <2>1. UNCHANGED <<op, directory, headers>>
    BY <1>4, Zenon DEF vars
  <2>2. UNCHANGED Sizes
    BY <2>1, SizesAre
  <2>3. OpNamed(c)'
    BY <1>3, <2>1, ZenonT(60) DEF OpNamed, Adds, Removes
  <2> QED
    BY <2>2, <2>3, Zenon
<1>5. ASSUME NEW n \in Name, NEW s \in Size, Create(c, n, s)
      PROVE  OpNamed(c)' /\ UNCHANGED Sizes
  BY <1>3, <1>5, CreateNamed, Zenon
<1>6. ASSUME NEW n \in Name, RemoveFile(c, n) PROVE OpNamed(c)' /\ UNCHANGED Sizes
  BY <1>3, <1>6, RemoveFileNamed, Zenon
<1>7. CASE WriteHeader(c) \/ WriteDirectory(c) \/ WriteMap(c) \/ Unmap(c)
  BY <1>3, <1>7, WriteHeaderNamed, WriteDirectoryNamed, WriteMapsNamed, Zenon
<1>8. \/ UNCHANGED vars
      \/ \E n \in Name, s \in Size : Create(c, n, s)
      \/ \E n \in Name : RemoveFile(c, n)
      \/ WriteHeader(c) \/ WriteDirectory(c) \/ WriteMap(c) \/ Unmap(c)
  BY <1>1, Zenon DEF Next, CreateFails, RemoveMissing
<1> QED
  BY <1>4, <1>5, <1>6, <1>7, <1>8, Zenon

\* FileSystem::Create and Remove implement Files for a single caller: a file appears
\* or disappears in the step that writes the first sector of the directory, with the
\* size asked for, and no other step changes what there is.
THEOREM FilesRefinement ==
  ASSUME NEW c, Thread = {c} PROVE Spec => ImplementsFiles
<1> DEFINE Inv == Sound /\ HeadersFit /\ Whole /\ DirectoryNamed
<1>1. Init => Inv /\ TheFiles!FilesInit
  <2> SUFFICES ASSUME Init PROVE DirectoryNamed /\ TheFiles!FilesInit
    BY InitSound, InitWhole, Zenon
  <2>1. op[c].at = "idle" /\ directory = [i \in 1 .. NumDirEntries |-> Unused]
    BY Zenon DEF Init, Idle
  <2>2. NamesDiffer(directory)
    BY <2>1, Zenon DEF NamesDiffer, Unused
  <2>3. DirectoryNamed
    BY <2>1, <2>2, Zenon DEF DirectoryNamed, OpNamed
  <2>4. \A n \in Name : Found(directory, n) = {}
    BY <2>1, Zenon DEF Found, Unused
  <2>5. Sizes = SizesIn(directory, headers)
    BY <2>1, SizesAre, ZenonT(60)
  <2>6. Sizes = [n \in Name |-> -1]
    BY <2>4, <2>5, Zenon DEF SizesIn, SizeIn
  <2> QED
    BY <2>3, <2>6, Zenon DEF TheFiles!FilesInit
<1>2. Inv /\ [Next]_vars => Inv' /\ [crashes' = 0 => TheFiles!FilesNext]_Sizes
  <2> SUFFICES ASSUME Sound, HeadersFit, Whole, DirectoryNamed, [Next]_vars
               PROVE  DirectoryNamed' /\ [crashes' = 0 => TheFiles!FilesNext]_Sizes
    BY NextSound, NextFits, NextWhole, Zenon
  <2>1. ASSUME crashes' = 0 PROVE OpNamed(c)' /\ (UNCHANGED Sizes \/ TheFiles!FilesNext)
    BY <2>1, NextNamed, Zenon
  <2> QED
    BY <2>1, Zenon DEF DirectoryNamed
<1> QED
  BY <1>1, <1>2, PTL DEF Spec, ImplementsFiles

===============================================================================
