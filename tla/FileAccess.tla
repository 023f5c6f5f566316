----------------------------- MODULE FileAccess -----------------------------
(* Reading and writing an open file: requests of any length at any position  *)
(* become transfers of whole sectors, which lie anywhere on the disk.        *)
(*                                                                           *)
(* And the commands on top of it that copy a host file to a Nachos file and  *)
(* print a Nachos file, and the performance test, which writes a file piece  *)
(* by piece and reads it back.  Each opens the file anew and works on it     *)
(* alone.                                                                    *)
EXTENDS Integers, Sequences, SequencesExt

CONSTANTS Byte, SectorSize, DataSectors,
          Lengths,      \* the file lengths looked at
          MaxRequest,   \* longest read or write
          TransferSize, \* bytes per request of the commands
          Pieces        \* requests of the performance test

VARIABLES disk,         \* the sectors of the disk
          numBytes,     \* the length in the header of the open file
          seekPosition,
          got           \* what the last read returned

fileVars == <<disk, numBytes, seekPosition, got>>

Init ==
    /\ disk \in {[s \in ToSet(DataSectors) |-> [k \in 1 .. SectorSize |-> b]] : b \in Byte}
    /\ numBytes \in Lengths
    /\ seekPosition = 0
    /\ got = <<>>

\* FileHeader::ByteToSector, for the sectors a header lists itself.
ByteToSector(offset) == DataSectors[offset \div SectorSize + 1]

\* How much of a request of n bytes at pos lies in the file.
Clip(n, pos) == IF n <= 0 \/ pos >= numBytes THEN 0 ELSE IF pos + n > numBytes THEN numBytes - pos ELSE n

FirstSector(pos) == pos \div SectorSize
LastSector(n, pos) == (pos + n - 1) \div SectorSize

ReadAt(n, pos) ==
    LET clipped == Clip(n, pos)
        sectors == [i \in 1 .. LastSector(clipped, pos) - FirstSector(pos) + 1 |->
                      disk[ByteToSector((FirstSector(pos) + i - 1) * SectorSize)]]
        start == pos - FirstSector(pos) * SectorSize
    IN  IF clipped = 0 THEN <<>> ELSE SubSeq(FlattenSeq(sectors), start + 1, start + clipped)

PreparedFirstOnly(n, pos, junk) ==
    LET first == FirstSector(pos)
        read == ReadAt(SectorSize, first * SectorSize)
    IN  [k \in 1 .. (LastSector(n, pos) - first + 1) * SectorSize |->
            IF pos # first * SectorSize /\ k <= Len(read) THEN read[k] ELSE junk]

\* The sectors a write transfers before the new bytes are put into them: those
\* that are written in full, and the bytes after the end of the file, are not
\* read and hold anything.
Prepared(n, pos, junk) ==
    LET first == FirstSector(pos)
        last == LastSector(n, pos)
        firstAligned == pos = first * SectorSize
        lastAligned == pos + n = (last + 1) * SectorSize
        old(i) == LET read == ReadAt(SectorSize, i * SectorSize)
                  IN  [k \in 1 .. SectorSize |-> IF k <= Len(read) THEN read[k] ELSE junk]
        fetched == (IF firstAligned THEN {} ELSE {first})
                   \cup (IF ~lastAligned /\ (first # last \/ firstAligned) THEN {last} ELSE {})
    IN  FlattenSeq([i \in 1 .. last - first + 1 |->
            IF first + i - 1 \in fetched THEN old(first + i - 1) ELSE [k \in 1 .. SectorSize |-> junk]])

WriteAt(data, pos, junk) ==
    LET n == Clip(Len(data), pos)
        first == FirstSector(pos)
        start == pos - first * SectorSize
        buf == [k \in DOMAIN Prepared(n, pos, junk) |->
                  IF k > start /\ k <= start + n THEN data[k - start] ELSE Prepared(n, pos, junk)[k]]
        written == {i \in first .. LastSector(n, pos) : n > 0}
    IN  disk' = [s \in DOMAIN disk |->
            IF \E i \in written : ByteToSector(i * SectorSize) = s
            THEN LET i == CHOOSE j \in written : ByteToSector(j * SectorSize) = s
                 IN  SubSeq(buf, (i - first) * SectorSize + 1, (i - first + 1) * SectorSize)
            ELSE disk[s]]

Seek(pos) == seekPosition' = pos /\ UNCHANGED <<disk, numBytes, got>>

Read(n) ==
    /\ got' = ReadAt(n, seekPosition)
    /\ seekPosition' = seekPosition + Len(got')
    /\ UNCHANGED <<disk, numBytes>>

Write(data, junk) ==
    /\ WriteAt(data, seekPosition, junk)
    /\ seekPosition' = seekPosition + Clip(Len(data), seekPosition)
    /\ UNCHANGED <<numBytes, got>>

Next ==
    \/ \E p \in 0 .. Len(DataSectors) * SectorSize : Seek(p)
    \/ \E n \in 0 .. MaxRequest : Read(n)
    \/ \E n \in 0 .. MaxRequest : \E data \in [1 .. n -> Byte], junk \in Byte : Write(data, junk)
-----------------------------------------------------------------------------
VARIABLES pc,           \* of the commands
          host,         \* the host file that is copied, or the piece written again and again
          offset,       \* how much of the host file is read; the test's loop counter
          printed,
          complaint     \* the test printed "unable to write" or "unable to read"

Opened == seekPosition' = 0 /\ got' = <<>>

TestInit ==
    /\ Init /\ numBytes = 0
    /\ pc \in {"copy", "perf"}
    /\ host \in UNION {[1 .. n -> Byte] : n \in IF pc = "copy" THEN Lengths ELSE {TransferSize}}
    /\ offset = 0 /\ printed = <<>> /\ complaint = FALSE

\* Copy: the file is created with the length of the host file, and opened.
CopyCreate ==
    /\ pc = "copy" /\ pc' = "copying"
    /\ numBytes' = Len(host) /\ Opened
    /\ UNCHANGED <<disk, host, offset, printed, complaint>>

Chunk == SubSeq(host, offset + 1, IF offset + TransferSize > Len(host) THEN Len(host) ELSE offset + TransferSize)

CopyChunkOverlapping ==
    /\ pc = "copying" /\ Chunk # <<>>
    /\ \E junk \in Byte : Write(Chunk, junk)
    /\ offset' = offset + TransferSize - 1
    /\ UNCHANGED <<pc, host, printed, complaint>>

CopyChunk ==
    /\ pc = "copying" /\ Chunk # <<>>
    /\ \E junk \in Byte : Write(Chunk, junk)
    /\ offset' = offset + Len(Chunk)
    /\ UNCHANGED <<pc, host, printed, complaint>>

\* Copy ends; Print opens the file.
CopyEnd ==
    /\ pc = "copying" /\ Chunk = <<>>
    /\ pc' = "printing" /\ Opened
    /\ UNCHANGED <<disk, numBytes, host, offset, printed, complaint>>

PrintChunk ==
    /\ pc = "printing"
    /\ Read(TransferSize)
    /\ printed' = printed \o got'
    /\ pc' = IF got' = <<>> THEN "printed" ELSE pc
    /\ UNCHANGED <<host, offset, complaint>>

\* FileWrite: the file is created with length 0.
PerfCreate ==
    /\ pc = "perf" /\ pc' = "perf_write"
    /\ numBytes' = 0 /\ Opened
    /\ UNCHANGED <<disk, host, offset, printed, complaint>>

PerfWrite ==
    /\ pc = "perf_write"
    /\ IF offset < Pieces
       THEN /\ \E junk \in Byte : Write(host, junk)
            /\ IF Clip(Len(host), seekPosition) < TransferSize
               THEN pc' = "perf_open" /\ complaint' = TRUE /\ offset' = 0
               ELSE offset' = offset + 1 /\ UNCHANGED <<pc, complaint>>
       ELSE pc' = "perf_open" /\ offset' = 0 /\ UNCHANGED <<fileVars, complaint>>
    /\ UNCHANGED <<host, printed>>

\* FileRead opens the file again.
PerfOpen ==
    /\ pc = "perf_open" /\ pc' = "perf_read" /\ Opened
    /\ UNCHANGED <<disk, numBytes, host, offset, printed, complaint>>

PerfRead ==
    /\ pc = "perf_read"
    /\ IF offset < Pieces
       THEN /\ Read(TransferSize)
            /\ IF got' # host
               THEN pc' = "perf_done" /\ complaint' = TRUE /\ UNCHANGED offset
               ELSE offset' = offset + 1 /\ UNCHANGED <<pc, complaint>>
       ELSE pc' = "perf_done" /\ UNCHANGED <<fileVars, offset, complaint>>
    /\ UNCHANGED <<host, printed>>

TestNext ==
    \/ CopyCreate \/ CopyChunk \/ CopyEnd \/ PrintChunk
    \/ PerfCreate \/ PerfWrite \/ PerfOpen \/ PerfRead
-----------------------------------------------------------------------------
\* The open file as an array of bytes of fixed length and a position, which reading
\* and writing move forward.
Contents == [k \in 1 .. numBytes |-> disk[ByteToSector(k - 1)][((k - 1) % SectorSize) + 1]]
Rest == Len(Contents) - seekPosition
Transferred(n) == IF Rest <= 0 THEN 0 ELSE IF n < Rest THEN n ELSE Rest

SeeksTo(p) == seekPosition' = p /\ UNCHANGED <<Contents, got>>

ReadsBytes(n) ==
    /\ seekPosition' = seekPosition + Transferred(n)
    /\ got' = SubSeq(Contents, seekPosition + 1, seekPosition + Transferred(n))
    /\ UNCHANGED Contents

WritesBytes(data) ==
    LET n == Transferred(Len(data))
    IN  /\ seekPosition' = seekPosition + n
        /\ UNCHANGED got
        /\ Contents' = [k \in DOMAIN Contents |->
              IF k > seekPosition /\ k <= seekPosition + n THEN data[k - seekPosition] ELSE Contents[k]]

\* However a request lies across the sectors, reads return the bytes written
\* and writes change those bytes and no other byte of the file, never its
\* length (openfile.cc ReadAt and WriteAt).
ByteFileNext ==
    \/ \E p \in 0 .. Len(DataSectors) * SectorSize : SeeksTo(p) /\ Seek(p)
    \/ \E n \in 0 .. MaxRequest : ReadsBytes(n) /\ Read(n)
    \/ \E n \in 0 .. MaxRequest : \E data \in [1 .. n -> Byte] :
          WritesBytes(data) /\ \E junk \in Byte : Write(data, junk)

\* What is printed of a copied file is the host file, byte for byte, however
\* its length relates to the chunks and the sectors (fstest.cc:63 and 90).
PrintedIsHost == pc = "printed" => printed = host

\* The commands that have come to an end.
Ended == pc \in {"printed", "perf_done"}

=============================================================================
