----------------------------- MODULE DiskTiming -----------------------------
(* How long the simulated disk takes for a request (disk.cc): the seek, the  *)
(* rotation to the sector, the transfer, and the buffer that holds what has  *)
(* passed under the head since it came to its track.  At time t the sector   *)
(* t \div RotationTime, counted around the track, is under the head.         *)
EXTENDS Integers

CONSTANTS SectorsPerTrack, NumTracks, RotationTime, SeekTime,
          MaxTime          \* no request is made after this time

Sector == 0 .. SectorsPerTrack * NumTracks - 1
Track(s) == s \div SectorsPerTrack
None == [sector |-> 0, writing |-> FALSE, start |-> 0, end |-> 0, buffered |-> FALSE]

VARIABLES totalTicks, active, lastSector, bufferInit,
          request,   \* the last request, and when it is done
          arrived    \* when the head came to the track it is on

vars == <<totalTicks, active, lastSector, bufferInit, request, arrived>>

Init ==
    /\ totalTicks = 0 /\ active = FALSE /\ lastSector = 0 /\ bufferInit = 0
    /\ request = None /\ arrived = 0
-----------------------------------------------------------------------------
Distance(a, b) == IF a > b THEN a - b ELSE b - a

\* TimeToSeek returns the seek and, through a pointer, the time from its end
\* to the next sector boundary.
Seek(s) == Distance(Track(s), Track(lastSector)) * SeekTime
Rotation(s) ==
    LET over == (totalTicks + Seek(s)) % RotationTime
    IN  IF over > 0 THEN RotationTime - over ELSE 0

ModuloDiff(to, from) == ((to % SectorsPerTrack) - (from % SectorsPerTrack) + SectorsPerTrack) % SectorsPerTrack

TimeAfter(s) == totalTicks + Seek(s) + Rotation(s)

\* The sector is in the track buffer.
BufferedAtBoundary(s, writing) ==
    /\ ~writing /\ Seek(s) = 0
    /\ (TimeAfter(s) - bufferInit) \div RotationTime >= ModuloDiff(s, bufferInit \div RotationTime)
Buffered(s, writing) ==
    /\ ~writing /\ Seek(s) = 0
    /\ (TimeAfter(s) - bufferInit) \div RotationTime > ModuloDiff(s, bufferInit \div RotationTime)

ComputeLatency(s, writing) ==
    IF Buffered(s, writing) THEN RotationTime
    ELSE Seek(s) + Rotation(s) + ModuloDiff(s, TimeAfter(s) \div RotationTime) * RotationTime + RotationTime

UpdateLast(s) ==
    /\ bufferInit' = IF Seek(s) # 0 THEN TimeAfter(s) ELSE bufferInit
    /\ lastSector' = s

\* ReadRequest and WriteRequest; Schedule is left with the time of the end.
Request(s, writing) ==
    /\ ~active /\ totalTicks <= MaxTime
    /\ request' = [sector |-> s, writing |-> writing, start |-> totalTicks,
                   end |-> totalTicks + ComputeLatency(s, writing), buffered |-> Buffered(s, writing)]
    /\ active' = TRUE
    /\ UpdateLast(s)
    /\ arrived' = IF Seek(s) # 0 THEN totalTicks + Seek(s) ELSE arrived
    /\ UNCHANGED totalTicks

ReadRequest(s) == Request(s, FALSE)
WriteRequest(s) == Request(s, TRUE)

\* The interrupt comes when the request is due (CheckIfDue moves the clock).
HandleInterrupt ==
    /\ active /\ active' = FALSE /\ totalTicks' = request.end
    /\ UNCHANGED <<lastSector, bufferInit, request, arrived>>

\* The kernel does something else between two requests.
Tick ==
    /\ ~active /\ totalTicks <= MaxTime /\ totalTicks' = totalTicks + 1
    /\ UNCHANGED <<active, lastSector, bufferInit, request, arrived>>

Next == (\E s \in Sector : ReadRequest(s) \/ WriteRequest(s)) \/ HandleInterrupt \/ Tick
-----------------------------------------------------------------------------
\* The whole of sector s passes under the head between two times.
Under(s, k) == k % SectorsPerTrack = s % SectorsPerTrack
Passes(s, from, to) ==
    \E k \in 0 .. (to \div RotationTime) : k * RotationTime >= from /\ (k + 1) * RotationTime <= to /\ Under(s, k)

\* When a request is done, all of its sector has been under the head since the
\* head came to the track, for a write since the request was made (disk.cc:216
\* and 225).
SectorHasPassed ==
    request # None => Passes(request.sector, IF request.writing THEN request.start ELSE arrived, request.end)

\* A request that the buffer cannot serve ends with the first pass of its
\* sector after the seek: no revolution is lost (disk.cc:220).
FirstPass ==
    request # None /\ ~request.buffered =>
        LET began == IF arrived > request.start THEN arrived ELSE request.start
        IN  ~Passes(request.sector, began, request.end - 1)

\* "read requests to the current track [are] satisfied more quickly"
\* (disk.cc:226): a read never takes longer for the buffer, and what has passed
\* once is not waited for again.
BufferHelps ==
    ~active => \A s \in Sector :
        Track(s) = Track(lastSector) /\ Passes(s, arrived, totalTicks) => ComputeLatency(s, FALSE) = RotationTime

=============================================================================
