----------------------------- MODULE Coff2Noff ------------------------------
(* The converters of bin/: coff2noff rewrites an object file section by      *)
(* section, coff2flat lays the sections out as they lie in memory.  A byte   *)
(* of the file is named by its section and its place in it.                  *)
EXTENDS Integers, Sequences, FiniteSets

CONSTANTS SectionName,     \* names that occur in the file
          MaxSections, MaxSize, MaxGap,
          HeaderSize,      \* sizeof(NoffHeader)
          StackSize

Initialised == {".data", ".rdata"}
Zeroed == {".bss", ".sbss"}
Zero == <<"zero", 0>>      \* the byte 0

VARIABLES sections,        \* the section headers, in the order of the file
          magicsOk,        \* the file header and the system header are as they must be
          truncated,       \* sections whose bytes are not all in the file
          status,          \* of coff2noff: "headers", "copy", "ok" or "failed"
          i, noffH, inNoffFile, noff,   \* noff: the bytes written, by their place
          flat, top, flatStatus, j      \* of coff2flat

noffVars == <<status, i, noffH, inNoffFile, noff>>
flatVars == <<flat, top, flatStatus, j>>
vars == <<sections, magicsOk, truncated, noffVars, flatVars>>

\* Sections with different names, laid out one after the other from 0 with gaps.
Shape == [name : SectionName, size : 0 .. MaxSize, gap : 0 .. MaxGap]
LaidOut(shapes) ==
    LET end[k \in 0 .. Len(shapes)] == IF k = 0 THEN 0 ELSE end[k - 1] + shapes[k].gap + shapes[k].size
    IN  [k \in 1 .. Len(shapes) |-> [s_name |-> shapes[k].name, s_size |-> shapes[k].size, s_paddr |-> end[k] - shapes[k].size]]

Files == {s \in UNION {[1 .. n -> Shape] : n \in 0 .. MaxSections} : \A k, l \in DOMAIN s : k # l => s[k].name # s[l].name}

NoSegment == [virtualAddr |-> 0, inFileAddr |-> 0, size |-> 0]

Init ==
    /\ sections \in {LaidOut(s) : s \in Files}
    /\ magicsOk \in BOOLEAN
    /\ truncated \in {{}} \cup {{sections[k].s_name} : k \in {l \in DOMAIN sections : sections[l].s_name \notin Zeroed /\ sections[l].s_size > 0}}
    /\ status = "headers" /\ i = 1 /\ inNoffFile = HeaderSize /\ noff = <<>>
    /\ noffH = [code |-> NoSegment, initData |-> NoSegment, uninitData |-> NoSegment]
    /\ flat = <<>> /\ top = 0 /\ flatStatus = "headers" /\ j = 1
-----------------------------------------------------------------------------
\* Every error path ends the program with unlink(noffFileName).
Fail == status' = "failed" /\ noff' = <<>> /\ UNCHANGED <<i, noffH, inNoffFile>>

ReadHeaders ==
    /\ status = "headers"
    /\ IF magicsOk THEN status' = "copy" /\ UNCHANGED <<i, noffH, inNoffFile, noff>> ELSE Fail
    /\ UNCHANGED <<sections, magicsOk, truncated, flatVars>>

Content(s) == [k \in 1 .. s.s_size |-> <<s.s_name, k - 1>>]

\* The place in the file: what is copied follows what has been copied.
CopySegment(s, field) ==
    IF s.s_name \in truncated THEN Fail         \* Read: "File is too short"
    ELSE /\ noffH' = [noffH EXCEPT ![field] = [virtualAddr |-> s.s_paddr, inFileAddr |-> inNoffFile, size |-> s.s_size]]
         /\ noff' = noff \o Content(s)
         /\ inNoffFile' = inNoffFile + s.s_size
         /\ i' = i + 1 /\ UNCHANGED status

CopyText(s) == s.s_size # 0 /\ s.s_name = ".text" /\ CopySegment(s, "code")

CopyDataAlways(s) == s.s_size # 0 /\ s.s_name \in Initialised /\ CopySegment(s, "initData")
CopyData(s) ==
    /\ s.s_size # 0 /\ s.s_name \in Initialised
    /\ IF noffH.initData.size # 0 THEN Fail ELSE CopySegment(s, "initData")

\* A second section of this kind is refused if it is contiguous to the first.
AddBss(s) ==
    LET bss == noffH.uninitData
    IN  /\ s.s_size # 0 /\ s.s_name \in Zeroed
        /\ IF bss.size # 0 /\ s.s_paddr = bss.virtualAddr + bss.size THEN Fail
           ELSE /\ noffH' = [noffH EXCEPT !.uninitData =
                     IF bss.size # 0 THEN [@ EXCEPT !.size = @ + s.s_size]
                     ELSE [@ EXCEPT !.virtualAddr = s.s_paddr, !.size = s.s_size]]
                /\ i' = i + 1 /\ UNCHANGED <<status, inNoffFile, noff>>

UnknownSegment(s) == s.s_size # 0 /\ s.s_name \notin Initialised \cup Zeroed \cup {".text"} /\ Fail

SkipEmpty(s) == s.s_size = 0 /\ i' = i + 1 /\ UNCHANGED <<status, noffH, inNoffFile, noff>>

CopySections ==
    /\ status = "copy" /\ i <= Len(sections)
    /\ LET s == sections[i] IN CopyText(s) \/ CopyData(s) \/ AddBss(s) \/ UnknownSegment(s) \/ SkipEmpty(s)
    /\ UNCHANGED <<sections, magicsOk, truncated, flatVars>>

\* The header goes to the front.
WriteHeader ==
    /\ status = "copy" /\ i > Len(sections) /\ status' = "ok"
    /\ UNCHANGED <<sections, magicsOk, truncated, i, noffH, inNoffFile, noff, flatVars>>
-----------------------------------------------------------------------------
\* The two programs are run one after the other.
FlatHeaders ==
    /\ flatStatus = "headers" /\ status \in {"ok", "failed"}
    /\ flatStatus' = IF magicsOk THEN "copy" ELSE "failed"
    /\ UNCHANGED <<sections, magicsOk, truncated, noffVars, flat, top, j>>

\* Everything but .bss and .sbss is written where the last write ended.
FlatSection ==
    /\ flatStatus = "copy" /\ j <= Len(sections)
    /\ LET s == sections[j]
       IN  /\ top' = IF s.s_paddr + s.s_size > top THEN s.s_paddr + s.s_size ELSE top
           /\ IF s.s_name \in Zeroed THEN j' = j + 1 /\ UNCHANGED <<flat, flatStatus>>
              ELSE IF s.s_name \in truncated THEN flatStatus' = "failed" /\ UNCHANGED <<flat, j>>
              ELSE flat' = flat \o Content(s) /\ j' = j + 1 /\ UNCHANGED flatStatus
    /\ UNCHANGED <<sections, magicsOk, truncated, noffVars>>

\* A word at top + StackSize - 4 makes the file as long as the program with its
\* stack; the bytes that were never written read as zero.
FlatEnd ==
    /\ flatStatus = "copy" /\ j > Len(sections) /\ flatStatus' = "ok"
    /\ flat' = [k \in 1 .. top + StackSize |-> IF k <= Len(flat) /\ k <= top + StackSize - 4 THEN flat[k] ELSE Zero]
    /\ UNCHANGED <<sections, magicsOk, truncated, noffVars, top, j>>

Next == ReadHeaders \/ CopySections \/ WriteHeader \/ FlatHeaders \/ FlatSection \/ FlatEnd
-----------------------------------------------------------------------------
\* The program in memory, as the sections place it: address -> byte.
Image == {<<sections[k].s_paddr + l, <<sections[k].s_name, l>>>> :
             <<k, l>> \in {<<m, n>> \in (DOMAIN sections) \X (0 .. MaxSize - 1) : sections[m].s_name \notin Zeroed /\ n < sections[m].s_size}}

Loaded(seg) == {<<seg.virtualAddr + l, noff[seg.inFileAddr - HeaderSize + l + 1]>> : l \in 0 .. seg.size - 1}

\* A file that is accepted holds every byte of code and data, and its segments
\* place each where the object file did (coff2noff.c:3).
NoffIsImage == status = "ok" => Loaded(noffH.code) \cup Loaded(noffH.initData) = Image

\* A conversion that fails leaves no half-written file behind (coff2noff.c:77).
NothingLeftBehind == status = "failed" => noff = <<>>

\* What linking with -N gives: no gaps, and nothing after the zeroed sections
\* (coff2flat.c:12).
LinkedWithN ==
    /\ \A k \in DOMAIN sections : k > 1 => sections[k].s_paddr = sections[k - 1].s_paddr + sections[k - 1].s_size
    /\ Len(sections) > 0 => sections[1].s_paddr = 0
    /\ \A k, l \in DOMAIN sections : k < l /\ sections[k].s_name \in Zeroed => sections[l].s_name \in Zeroed

\* "the various pieces of the object code are loaded at the appropriate offset
\* in the flat file" (coff2flat.c:9), everything else in it is zero.
FlatIsImage ==
    flatStatus = "ok" /\ LinkedWithN =>
        \A a \in 0 .. Len(flat) - 1 :
            IF \E b \in Image : b[1] = a THEN <<a, flat[a + 1]>> \in Image ELSE flat[a + 1] = Zero

=============================================================================
