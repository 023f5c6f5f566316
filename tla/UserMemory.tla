----------------------------- MODULE UserMemory -----------------------------
(* Machine::Translate, ReadMem and WriteMem: a program's bytes behind a page *)
(* table.  A word is its four bytes, the lowest first, as the host keeps it. *)
(* The second part is ReadWrite of system.cc: the Read and Write system calls*)
(* copy between a buffer of the kernel and the memory of the program, page   *)
(* by page, through Translate, whose answer they do not look at.             *)
EXTENDS Integers, Sequences

CONSTANTS PageSize, NumPhysPages, PageTableSize,
          Byte,                     \* byte values looked at
          BadAddress,               \* addresses outside the page table; a negative one is a large unsigned
          MaxCopy                   \* bytes of a Read or Write call

VARIABLES pageTable, mainMemory,
          flat,        \* the bytes of the program as it should see them
          touched,     \* physical addresses the last access used
          exception    \* what the last access raised

VARIABLES call,            \* the call: which one, for which address and how much
          virAddr, left, physicAddr,   \* of ReadWrite; left is its size, counted down
          buffer,          \* bytes to store, or bytes fetched
          state            \* "idle", "copying", "done" or "aborted"

vars == <<pageTable, mainMemory, flat, touched, exception>>

Vpn == 0 .. PageTableSize - 1
Physical == 0 .. NumPhysPages * PageSize - 1
Virtual == 0 .. PageTableSize * PageSize - 1
Entry == [valid : BOOLEAN, readOnly : BOOLEAN, physicalPage : -1 .. NumPhysPages, use : {FALSE}, dirty : {FALSE}]

\* An invalid entry may hold any frame, a valid one may not have got one (-1).
Init ==
    /\ pageTable \in [Vpn -> Entry]
    /\ \A v, w \in Vpn : v # w /\ pageTable[v].valid /\ pageTable[w].valid =>
          pageTable[v].physicalPage # pageTable[w].physicalPage
    /\ mainMemory = [a \in Physical |-> 0]
    /\ flat = [a \in Virtual |-> 0]
    /\ touched = {} /\ exception = "NoException"
-----------------------------------------------------------------------------
Misaligned(addr, size) == size \in {2, 4} /\ addr % size # 0

\* The checks of Translate, in their order; physicalPage is compared unsigned.
Translate(addr, size, writing) ==
    IF Misaligned(addr, size) THEN "AddressErrorException"
    ELSE IF addr \notin Virtual THEN "AddressErrorException"
    ELSE LET entry == pageTable[addr \div PageSize]
         IN  IF ~entry.valid THEN "PageFaultException"
             ELSE IF entry.readOnly /\ writing THEN "ReadOnlyException"
             ELSE IF entry.physicalPage \notin 0 .. NumPhysPages - 1 THEN "BusErrorException"
             ELSE "NoException"

physAddr(addr) == pageTable[addr \div PageSize].physicalPage * PageSize + (addr % PageSize)

\* entry->use and entry->dirty.
Mark(addr, writing) ==
    pageTable' = [pageTable EXCEPT ![addr \div PageSize].use = TRUE,
                                   ![addr \div PageSize].dirty = @ \/ writing]

Bytes(memory, pa, size) == [k \in 1 .. size |-> memory[pa + k - 1]]

\* A byte is read as a signed char, a half word as an unsigned one.
Value(memory, pa, size) ==
    LET b == Bytes(memory, pa, size)
    IN  CASE size = 1 -> IF b[1] >= 128 THEN <<b[1], 255, 255, 255>> ELSE <<b[1], 0, 0, 0>>
          [] size = 2 -> <<b[1], b[2], 0, 0>>
          [] size = 4 -> b

ReadMem(addr, size) ==
    /\ exception' = Translate(addr, size, FALSE)
    /\ IF exception' = "NoException"
       THEN Mark(addr, FALSE) /\ touched' = {physAddr(addr) + k : k \in 0 .. size - 1}
       ELSE touched' = {} /\ UNCHANGED pageTable
    /\ UNCHANGED <<mainMemory, flat>>

\* The low "size" bytes of value are stored.
Stored(memory, pa, size, value) == [a \in DOMAIN memory |-> IF a \in pa .. pa + size - 1 THEN value[a - pa + 1] ELSE memory[a]]

WriteMem(addr, size, value) ==
    /\ exception' = Translate(addr, size, TRUE)
    /\ IF exception' = "NoException"
       THEN /\ Mark(addr, TRUE) /\ touched' = {physAddr(addr) + k : k \in 0 .. size - 1}
            /\ mainMemory' = Stored(mainMemory, physAddr(addr), size, value)
            /\ flat' = [a \in Virtual |-> IF a \in addr .. addr + size - 1 THEN value[a - addr + 1] ELSE flat[a]]
       ELSE touched' = {} /\ UNCHANGED <<pageTable, mainMemory, flat>>

Next ==
    \E addr \in Virtual \cup BadAddress, size \in {1, 2, 4} :
        \/ ReadMem(addr, size)
        \/ \E low \in Byte, high \in Byte : WriteMem(addr, size, <<low, high, high, low>>)
-----------------------------------------------------------------------------
\* A program finds in every size what it last wrote in any size, whatever the
\* frames of its pages (translate.cc:101 and 150).
ReadsWhatWasWritten ==
    \A size \in {1, 2, 4} : \A addr \in {a \in Virtual : a % size = 0} :
        Translate(addr, size, FALSE) = "NoException" =>
            Value(mainMemory, physAddr(addr), size) = Value(flat, addr, size)

\* An access that is let through stays inside memory and inside one frame
\* (the assertion at translate.cc:252).
StaysInFrame ==
    /\ touched \subseteq Physical
    /\ \A a, b \in touched : a \div PageSize = b \div PageSize

\* A page that differs from what was loaded into its frame is marked dirty, so
\* it cannot be dropped by mistake; read-only pages stay clean (translate.cc:249).
ChangedIsDirty ==
    \A v \in Vpn :
        /\ (\E a \in Virtual : a \div PageSize = v /\ flat[a] # 0) => pageTable[v].dirty
        /\ pageTable[v].readOnly => ~pageTable[v].dirty
-----------------------------------------------------------------------------
\* Every byte of memory is different; what is out of memory is so too.  The
\* kernel makes no page read-only.
CopyInit ==
    /\ pageTable \in [Vpn -> {e \in Entry : ~e.readOnly /\ e.physicalPage \in 0 .. NumPhysPages - 1}]
    /\ \A v, w \in Vpn : v # w => pageTable[v].physicalPage # pageTable[w].physicalPage
    /\ mainMemory = [a \in Physical |-> a]
    /\ flat = [a \in Virtual |-> IF pageTable[a \div PageSize].valid THEN physAddr(a) ELSE 100 + a]
    /\ touched = {} /\ exception = "NoException"
    /\ call = <<"none", 0, 0>> /\ virAddr = 0 /\ left = 0 /\ physicAddr = 0 /\ buffer = <<>> /\ state = "idle"

\* physicAddr is not initialised: any address of memory may be in it.
ReadWrite(type, addr, n) ==
    /\ state = "idle" /\ state' = "copying"
    /\ call' = <<type, addr, n>> /\ virAddr' = addr /\ left' = n
    /\ physicAddr' \in Physical
    /\ buffer' = IF type = "USER_READ" THEN [k \in 1 .. n |-> 200 + k] ELSE <<>>
    /\ UNCHANGED vars

TranslatedOnce(answer) == IF answer = "NoException" /\ left = call[3] THEN physAddr(virAddr) ELSE physicAddr
Translated(answer) == IF answer = "NoException" THEN physAddr(virAddr) ELSE physicAddr
ActualToCopy(pa) == LET pageSizeLeft == PageSize - (pa % PageSize) IN IF pageSizeLeft < left THEN pageSizeLeft ELSE left

\* One turn of the loop.  Translate asserts that all that is left to copy would
\* fit into memory from the address on.
CopyPiece ==
    /\ state = "copying" /\ left > 0
    /\ exception' = Translate(virAddr, left, FALSE)
    /\ IF exception' = "NoException" /\ physAddr(virAddr) + left > NumPhysPages * PageSize
       THEN state' = "aborted" /\ UNCHANGED <<virAddr, left, physicAddr, buffer, pageTable, mainMemory>>
       ELSE LET pa == Translated(exception')
                n == ActualToCopy(pa)
                copied == call[3] - left
            IN  /\ physicAddr' = pa
                /\ IF exception' = "NoException" THEN Mark(virAddr, FALSE) ELSE UNCHANGED pageTable
                /\ IF call[1] = "USER_READ"
                   THEN mainMemory' = Stored(mainMemory, pa, n, SubSeq(buffer, copied + 1, copied + n)) /\ UNCHANGED buffer
                   ELSE buffer' = buffer \o Bytes(mainMemory, pa, n) /\ UNCHANGED mainMemory
                /\ left' = left - n /\ virAddr' = virAddr + n /\ UNCHANGED state
    /\ UNCHANGED <<flat, touched, call>>

CopyEnds ==
    /\ state = "copying" /\ left = 0 /\ state' = "done"
    /\ UNCHANGED <<vars, call, virAddr, left, physicAddr, buffer>>

CopyNext ==
    \/ \E type \in {"USER_READ", "USER_WRITE"}, addr \in Virtual, n \in 0 .. MaxCopy :
          addr + n <= PageTableSize * PageSize /\ ReadWrite(type, addr, n)
    \/ CopyPiece \/ CopyEnds
-----------------------------------------------------------------------------
Range0 == call[2] .. call[2] + call[3] - 1        \* addresses of the call
AllPresent == \A a \in Range0 : pageTable[a \div PageSize].valid
Aligned == \A a \in Range0 : ~Misaligned(a, call[2] + call[3] - a)   \* at every turn of the loop

\* Memory as the program sees it, where it is present.
Seen(a) == mainMemory[physAddr(a)]
Copied ==
    IF call[1] = "USER_WRITE" THEN buffer = [k \in 1 .. call[3] |-> flat[call[2] + k - 1]]
    ELSE \A a \in {b \in Virtual : pageTable[b \div PageSize].valid} :
            Seen(a) = IF a \in Range0 THEN buffer[a - call[2] + 1] ELSE flat[a]

\* Across page boundaries, whatever the frames, a call copies exactly the bytes
\* it was asked for, if the pages are in memory and no rest of two or four
\* bytes lies at an odd address (system.cc:52).
PresentCopied == state = "done" /\ AllPresent /\ Aligned => Copied

=============================================================================
