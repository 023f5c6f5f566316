------------------------------- MODULE Loader -------------------------------
(* The constructor of AddrSpace, byte by byte: the code and the initialised  *)
(* data of an executable are copied, a page at a time, into the swap file,   *)
(* and the pages behind them are registered without contents.  Byte k of the *)
(* executable (after its header) is the number k.                            *)
EXTENDS Integers, Sequences, FiniteSetsExt

CONSTANTS PageSize, MaxSize, UserStackSize, MaxTrailer

Junk == 0   \* a byte that does not come from the file

VARIABLES header,      \* sizes of the segments, and of what follows them in the file
          segment,     \* the segment ReadFile is copying, or "bss", or "done"
          vaddr, fileAddr, bytesRead,
          diskBuffer,  \* the kernel's one page buffer
          swap         \* the pages registered under the new process, by vpn

vars == <<header, segment, vaddr, fileAddr, bytesRead, diskBuffer, swap>>

DivRoundUp(n, s) == (n + s - 1) \div s

NumPages == DivRoundUp(header.code + header.data + header.bss + UserStackSize, PageSize)

FileLength == header.code + header.data + header.trailer

Init ==
    /\ header \in [code : 0 .. MaxSize, data : 0 .. MaxSize, bss : 0 .. MaxSize, trailer : 0 .. MaxTrailer]
    /\ segment = "code" /\ vaddr = 0 /\ fileAddr = 0 /\ bytesRead = 0
    /\ diskBuffer = [k \in 1 .. PageSize |-> Junk]
    /\ swap = <<>>

Size == IF segment = "code" THEN header.code ELSE header.data
Offset == vaddr % PageSize
Vpn == vaddr \div PageSize

\* OpenFile::ReadAt: fewer bytes at the end of the file, and the rest of the
\* buffer keeps what it had.
ReadCount == Min({PageSize - Offset, FileLength - fileAddr})
Filled == [k \in 1 .. PageSize |-> IF k <= ReadCount THEN fileAddr + k ELSE diskBuffer[k]]

\* A page that is registered already (the end of the code, when the data
\* starts) is fetched, and the new bytes are put behind the old.
MergedAtStart(old, new) == new
Merged(old, new) == [k \in 1 .. PageSize |-> IF k > Offset THEN new[k - Offset] ELSE old[k]]

\* One round of the loop of ReadFile: GetPage, memcpy and AddPage.
ReadFile ==
    /\ segment \in {"code", "data"} /\ bytesRead < Size
    /\ diskBuffer' = Filled
    /\ LET page == IF Vpn \in DOMAIN swap THEN Merged(swap[Vpn], Filled) ELSE Filled
       IN  swap' = [v \in DOMAIN swap \cup {Vpn} |-> IF v = Vpn THEN page ELSE swap[v]]
    /\ vaddr' = vaddr + ReadCount /\ fileAddr' = fileAddr + ReadCount /\ bytesRead' = bytesRead + ReadCount
    /\ UNCHANGED <<header, segment>>

\* The data follows the code, in memory and in the file.
EndSegment ==
    /\ segment \in {"code", "data"} /\ bytesRead >= Size
    /\ segment' = IF segment = "code" THEN "data" ELSE "bss"
    /\ vaddr' = header.code /\ fileAddr' = header.code /\ bytesRead' = 0
    /\ UNCHANGED <<header, diskBuffer, swap>>

\* The pages that hold neither code nor data.
FirstEmpty == DivRoundUp(header.code + header.data, PageSize)

AddPages ==
    /\ segment = "bss" /\ segment' = "done"
    /\ swap' = [v \in DOMAIN swap \cup (FirstEmpty .. NumPages - 1) |->
                   IF v \in DOMAIN swap THEN swap[v] ELSE [k \in 1 .. PageSize |-> Junk]]
    /\ UNCHANGED <<header, vaddr, fileAddr, bytesRead, diskBuffer>>

Done == segment = "done" /\ UNCHANGED vars

Next == ReadFile \/ EndSegment \/ AddPages \/ Done

-----------------------------------------------------------------------------
TypeOK ==
    /\ segment \in {"code", "data", "bss", "done"}
    /\ vaddr \in 0 .. 2 * MaxSize + PageSize /\ fileAddr \in 0 .. FileLength
    /\ DOMAIN swap \subseteq 0 .. NumPages - 1
    /\ \A v \in DOMAIN swap : swap[v] \in [1 .. PageSize -> Nat]

\* Every byte of code and data ends up at its virtual address, though reads go
\* past a segment's end, the code's last page is shared with the data and the
\* last read of the file is short (addrspace.cc ReadFile).
ImageLoaded ==
    segment = "done" => \A a \in 0 .. header.code + header.data - 1 : swap[a \div PageSize][(a % PageSize) + 1] = a + 1

\* Every page of the space, the stack's included, has a swap page, so a fault
\* on it finds one (addrspace.cc:151 against swapManager.cc findPage).
EveryPageRegistered == segment = "done" => DOMAIN swap = 0 .. NumPages - 1

=============================================================================
