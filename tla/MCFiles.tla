--------------------------------- MODULE MCFiles --------------------------------
(***************************************************************************)
(* The file system on its disk: creating and removing files with crashes,  *)
(* the bitmap under it, reading and writing a file, the commands that copy *)
(* and print files, and the timing of the disk, each for itself.  A        *)
(* behaviour is one of the part chosen at the start; in the others the     *)
(* variables of FileSystem stay as the constructor leaves them.            *)
(*                                                                         *)
(* Eleven sectors hold the system files and two full files but not three,  *)
(* a header two sector numbers, and sizes of one sector, of a full header  *)
(* and of one byte too many are asked for.  Three bits in words of two     *)
(* leave a bit of the second word unused.  Files that end at the end and   *)
(* in the middle of a sector, on scattered sectors, are accessed by        *)
(* requests that start and end anywhere.                                   *)
(***************************************************************************)
EXTENDS FileSystem

VARIABLES
  part,
  map, found, file,                                                 \* BitMap
  disk, numBytes, seekPosition, got,                                \* FileAccess
  pc, host, offset, printed, complaint,                             \* its commands
  totalTicks, active, lastSector, bufferInit, request, arrived      \* DiskTiming

bits == <<map, found, file>>
access == <<disk, numBytes, seekPosition, got>>
test == <<pc, host, offset, printed, complaint>>
timing == <<totalTicks, active, lastSector, bufferInit, request, arrived>>
groupVars == <<part, vars, bits, access, test, timing>>

B == INSTANCE BitMap WITH NumBits <- 3, WordBits <- 2

A == INSTANCE FileAccess WITH
  Byte <- {0, 1}, SectorSize <- 2, DataSectors <- <<4, 0>>, Lengths <- {1, 3, 4},
  MaxRequest <- 3, TransferSize <- 3, Pieces <- 0

T == INSTANCE FileAccess WITH
  Byte <- {0, 1}, SectorSize <- 2, DataSectors <- <<4, 0, 2>>, Lengths <- 0 .. 6,
  MaxRequest <- 3, TransferSize <- 3, Pieces <- 2

D == INSTANCE DiskTiming WITH
  SectorsPerTrack <- 3, NumTracks <- 3, RotationTime <- 3, SeekTime <- 2, MaxTime <- 24

Absent == "absent"
BitsAbsent == map = Absent /\ found = Absent /\ file = Absent
AccessAbsent == disk = Absent /\ numBytes = Absent /\ seekPosition = Absent /\ got = Absent
TestAbsent ==
  pc = Absent /\ host = Absent /\ offset = Absent /\ printed = Absent /\ complaint = Absent
TimingAbsent ==
  /\ totalTicks = Absent /\ active = Absent /\ lastSector = Absent
  /\ bufferInit = Absent /\ request = Absent /\ arrived = Absent

GroupInit ==
  /\ Init
  /\ \/ part = "FileSystem" /\ BitsAbsent /\ AccessAbsent /\ TestAbsent /\ TimingAbsent
     \/ part = "BitMap" /\ B!Init /\ AccessAbsent /\ TestAbsent /\ TimingAbsent
     \/ part = "FileAccess" /\ A!Init /\ BitsAbsent /\ TestAbsent /\ TimingAbsent
     \/ part = "FileTest" /\ T!TestInit /\ BitsAbsent /\ TimingAbsent
     \/ part = "DiskTiming" /\ D!Init /\ BitsAbsent /\ AccessAbsent /\ TestAbsent

RunTest == part = "FileTest" /\ T!TestNext /\ UNCHANGED <<part, vars, bits, timing>>

GroupNext ==
  \/ part = "FileSystem" /\ Next /\ UNCHANGED <<part, bits, access, test, timing>>
  \/ part = "BitMap" /\ B!Next /\ UNCHANGED <<part, vars, access, test, timing>>
  \/ part = "FileAccess" /\ A!Next /\ UNCHANGED <<part, vars, bits, test, timing>>
  \/ RunTest
  \/ part = "DiskTiming" /\ D!Next /\ UNCHANGED <<part, vars, bits, access, test>>

\* The commands run by themselves: nothing they do waits for another thread.
GroupSpec == GroupInit /\ [][GroupNext]_groupVars /\ WF_groupVars(RunTest)

--------------------------------------------------------------------------------

\* A bitmap is a set of numbers whatever its unused bits hold, and Find takes the
\* smallest that is missing (bitmap.cc).
ImplementsBitSet ==
  /\ part = "BitMap" => B!BitSetInit
  /\ [][part = "BitMap" => B!BitSetNext]_groupVars

\* Reads return the bytes written, and writes change these bytes of the file and
\* no others, however requests lie across sectors (openfile.cc ReadAt, WriteAt).
ImplementsByteFile ==
  [][part = "FileAccess" => A!ByteFileNext \/ UNCHANGED access]_groupVars

\* Copy followed by Print shows the host file, and both come to an end, as the
\* performance test does (fstest.cc).
PrintedIsHost ==
  /\ [](part = "FileTest" => T!PrintedIsHost)
  /\ <>(part = "FileTest" => T!Ended)

\* When a request is done its sector has been under the head (disk.cc:216); without
\* the track buffer this was the first pass of the sector, and what has passed
\* under the head on its track is read at once (disk.cc:226).
RequestsTimed ==
  part = "DiskTiming" => D!SectorHasPassed /\ D!FirstPass /\ D!BufferHelps

================================================================================
