-------------------------------- MODULE MCMemory --------------------------------
(***************************************************************************)
(* The memory of user programs: demand paging for one program and for      *)
(* several, the loading of an executable, the translation of addresses,    *)
(* the copies between kernel and program, and the converters that make the *)
(* executables, each for itself.  A behaviour is one of the part chosen at *)
(* the start.                                                              *)
(*                                                                         *)
(* One program has a page more than there are frames, so that dirty and    *)
(* clean pages are replaced and come back.  Three programs of two pages    *)
(* share three frames, and the swap file has room for two of them; where   *)
(* only the frames matter, all their pages hold the same.                  *)
(* Segments of up to nine bytes on pages of four end before, at and behind *)
(* a page boundary.                                                        *)
(***************************************************************************)
EXTENDS Integers, Sequences, TLC

CONSTANTS Parts, p0, c1, c2, nobody, v0, v1, hole,
          ManyValues   \* what the pages of several programs may hold

VARIABLES
  part,
  table, kind, taking, memory, used, memLock, slots, extent, lru, stopped, \* VirtualMemory
  header, segment, vaddr, fileAddr, bytesRead, diskBuffer, swap,           \* Loader
  pageTable, mainMemory, flat, touched, exception,                         \* UserMemory
  call, virAddr, left, physicAddr, buffer, state,
  sections, magicsOk, truncated, status, i, noffH, inNoffFile, noff,       \* Coff2Noff
  flatFile, top, flatStatus, j

paging == <<table, kind, taking, memory, used, memLock, slots, extent, lru, stopped>>
loading == <<header, segment, vaddr, fileAddr, bytesRead, diskBuffer, swap>>
access == <<pageTable, mainMemory, flat, touched, exception>>
copying == <<call, virAddr, left, physicAddr, buffer, state>>
converting == <<sections, magicsOk, truncated, status, i, noffH, inNoffFile, noff,
                flatFile, top, flatStatus, j>>
vars == <<part, paging, loading, access, copying, converting>>

Symmetric == Permutations({c1, c2})

One == INSTANCE VirtualMemory WITH
  Main <- p0, Child <- {}, NumPages <- 3, NumLoaded <- 2, NumPhysPages <- 2, SwapSize <- 3,
  Value <- {v0, v1}, Zero <- v0, Hole <- hole, Image <- <<v1>> @@ (0 :> v1), Buffer <- {},
  NoOne <- nobody

Many == INSTANCE VirtualMemory WITH
  Main <- p0, Child <- {c1, c2}, NumPages <- 2, NumLoaded <- 1, NumPhysPages <- 3,
  SwapSize <- 5, Value <- ManyValues, Zero <- v0, Hole <- hole, Image <- (0 :> v0),
  Buffer <- {0}, NoOne <- nobody

L == INSTANCE Loader WITH PageSize <- 4, MaxSize <- 9, UserStackSize <- 3, MaxTrailer <- 3

U == INSTANCE UserMemory WITH
  PageSize <- 4, NumPhysPages <- 2, PageTableSize <- 2, Byte <- {0, 255},
  BadAddress <- {8, 1024}, MaxCopy <- 0

K == INSTANCE UserMemory WITH
  PageSize <- 4, NumPhysPages <- 3, PageTableSize <- 2, Byte <- {0, 255},
  BadAddress <- {}, MaxCopy <- 7

C == INSTANCE Coff2Noff WITH
  SectionName <- {".text", ".data", ".rdata", ".bss", ".sbss", ".comment"},
  MaxSections <- 3, MaxSize <- 2, MaxGap <- 1, HeaderSize <- 3, StackSize <- 5,
  flat <- flatFile

Unused == "unused"
PagingUnused ==
  /\ table = Unused /\ kind = Unused /\ taking = Unused /\ memory = Unused
  /\ used = Unused /\ memLock = Unused /\ slots = Unused /\ extent = Unused
  /\ lru = Unused /\ stopped = Unused
LoadingUnused ==
  /\ header = Unused /\ segment = Unused /\ vaddr = Unused /\ fileAddr = Unused
  /\ bytesRead = Unused /\ diskBuffer = Unused /\ swap = Unused
AccessUnused ==
  /\ pageTable = Unused /\ mainMemory = Unused /\ flat = Unused /\ touched = Unused
  /\ exception = Unused
CopyingUnused ==
  /\ call = Unused /\ virAddr = Unused /\ left = Unused /\ physicAddr = Unused
  /\ buffer = Unused /\ state = Unused
ConvertingUnused ==
  /\ sections = Unused /\ magicsOk = Unused /\ truncated = Unused /\ status = Unused
  /\ i = Unused /\ noffH = Unused /\ inNoffFile = Unused /\ noff = Unused
  /\ flatFile = Unused /\ top = Unused /\ flatStatus = Unused /\ j = Unused

Init ==
  /\ part \in Parts
  /\ \/ /\ part = "OneProgram" /\ One!Init
        /\ LoadingUnused /\ AccessUnused /\ CopyingUnused /\ ConvertingUnused
     \/ /\ part = "ManyPrograms" /\ Many!Init
        /\ LoadingUnused /\ AccessUnused /\ CopyingUnused /\ ConvertingUnused
     \/ /\ part = "Loader" /\ L!Init
        /\ PagingUnused /\ AccessUnused /\ CopyingUnused /\ ConvertingUnused
     \/ /\ part = "UserMemory" /\ U!Init
        /\ PagingUnused /\ LoadingUnused /\ CopyingUnused /\ ConvertingUnused
     \/ /\ part = "UserCopy" /\ K!CopyInit
        /\ PagingUnused /\ LoadingUnused /\ ConvertingUnused
     \/ /\ part = "Coff2Noff" /\ C!Init
        /\ PagingUnused /\ LoadingUnused /\ AccessUnused /\ CopyingUnused

Next ==
  \/ part = "OneProgram" /\ One!Next /\ UNCHANGED <<part, loading, access, copying, converting>>
  \/ part = "ManyPrograms" /\ Many!Next /\ UNCHANGED <<part, loading, access, copying, converting>>
  \/ part = "Loader" /\ L!Next /\ UNCHANGED <<part, paging, access, copying, converting>>
  \/ part = "UserMemory" /\ U!Next /\ UNCHANGED <<part, paging, loading, copying, converting>>
  \/ part = "UserCopy" /\ K!CopyNext /\ UNCHANGED <<part, paging, loading, converting>>
  \/ part = "Coff2Noff" /\ C!Next /\ UNCHANGED <<part, paging, loading, access, copying>>

Spec == Init /\ [][Next]_vars

--------------------------------------------------------------------------------

\* Paging is invisible: what a program finds in a page is what it stored there or
\* was loaded, whatever was evicted and brought back (vmManager.cc Swap).
ImplementsMemory ==
  /\ part = "OneProgram" => One!MemoryInit
  /\ [][part = "OneProgram" => One!MemoryNext]_vars

\* The frames are accounted for.  No two pages of any programs share one, and none
\* is in a free one (memorymanager.cc, AddrSpace::Duplicate and its destructor);
\* the replacement list of a program is its pages in memory, each once (lru.cc).
FramesAccounted ==
  /\ part = "OneProgram" => One!TypeOK /\ One!ListIsResident
  /\ part = "ManyPrograms" => Many!TypeOK /\ Many!FramesExclusive

\* Every byte of code and data is loaded to its address, and every page is found by
\* its first fault (AddrSpace::ReadFile, addrspace.cc:151).
ImageLoaded == part = "Loader" => L!TypeOK /\ L!ImageLoaded /\ L!EveryPageRegistered

\* A program reads in every size what it wrote in any size; an access that
\* Translate lets through stays inside one frame; a page that was changed is marked
\* dirty, and a read-only one never is.  Read and Write copy the bytes they were
\* asked for, across pages, when these are in memory and the rest to copy never
\* lies at an odd address (ReadMem, WriteMem, Translate, ReadWrite).
AccessesRight ==
  /\ part = "UserMemory" => U!ReadsWhatWasWritten /\ U!StaysInFrame /\ U!ChangedIsDirty
  /\ part = "UserCopy" => K!PresentCopied

\* An executable that coff2noff accepts places every byte where the object file
\* did, coff2flat lays out a program linked with -N as it lies in memory, and a
\* conversion that fails leaves no file behind.
ConvertedIsImage ==
  part = "Coff2Noff" => C!NoffIsImage /\ C!FlatIsImage /\ C!NothingLeftBehind

\* A forked program finds in its pages what its parent has in them (syscall.h:117).
ForkSees == [][part = "ManyPrograms" => Many!ForkSees]_vars

================================================================================
