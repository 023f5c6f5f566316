----------------------------- MODULE SystemCalls -----------------------------
(* A system call from the program to the kernel's procedure and back: the    *)
(* stubs of start.s, which the assembler completes with a NOP after every    *)
(* jump, and ExceptionHandler, which fetches a file name byte by byte from   *)
(* the program's memory.  Addresses count instructions.                      *)
EXTENDS Integers, Sequences

CONSTANTS Char,        \* bytes of a name; 0 ends it
          PageSize,    \* bytes of a name on one page
          Argument,    \* other arguments of calls
          Result       \* what the kernel's procedures return

\* System call codes.
SC == [Halt |-> 0, Exit |-> 1, Exec |-> 2, Join |-> 3, Create |-> 4, Open |-> 5, Read |-> 6,
       Write |-> 7, Close |-> 8, Fork |-> 9, Yield |-> 10]
Call == DOMAIN SC
NamedCall == {"Exec", "Create", "Open"}

\* How many arguments the handler reads, and which results it writes to r2.
Arguments == [Halt |-> 0, Exit |-> 1, Exec |-> 1, Join |-> 1, Create |-> 1, Open |-> 1, Read |-> 3,
              Write |-> 3, Close |-> 1, Fork |-> 1, Yield |-> 0]
HasResult == {"Exec", "Join", "Open", "Read"}

Entry(c) == 5 + 4 * SC[c]    \* the stubs follow __start
MainEntry == 5 + 4 * 11
start == << <<"JAL", MainEntry>>, <<"NOP">>, <<"CLEAR4">>, <<"JAL", Entry("Exit")>>, <<"NOP">> >>
Stub(c) == << <<"ADDIU2", SC[c]>>, <<"SYSCALL">>, <<"JR31">>, <<"NOP">> >>

\* A procedure of the program: it saves r31, makes two calls and returns.
Procedure == << <<"ENTER">>, <<"CALL">>, <<"NOP">>, <<"CALL">>, <<"NOP">>, <<"RETURN">>, <<"NOP">> >>

Instruction(a) ==
    IF a < 5 THEN start[a + 1]
    ELSE IF a < MainEntry THEN LET c == CHOOSE x \in Call : a \in Entry(x) .. Entry(x) + 3 IN Stub(c)[a - Entry(c) + 1]
    ELSE Procedure[a - MainEntry + 1]

VARIABLES pc, npc, r2, args, r31,    \* registers; args: r4, r5 and r6
          frame,                     \* where the procedure returns to
          asked,                     \* the call the program makes, and where it comes back to
          served, services,          \* what the kernel did for it, and how often
          copy,                      \* the handler's loop over a name
          ended                      \* the thread or the machine has stopped

vars == <<pc, npc, r2, args, r31, frame, asked, served, services, copy, ended>>
kernel == <<served, services, copy, ended>>

Nothing == [call |-> "none"]

\* A program begins at 0; a thread of Fork at a procedure, with r31 = 0.
Init ==
    /\ pc \in {0, MainEntry} /\ npc = pc + 1 /\ r2 = 0 /\ args = <<0, 0, 0>> /\ r31 = 0 /\ frame = 0
    /\ asked = Nothing /\ served = Nothing /\ services = 0 /\ copy = <<>> /\ ended = FALSE

Jump(target) == pc' = npc /\ npc' = target
Advance == Jump(npc + 1)
At(i) == ~ended /\ copy = <<>> /\ Instruction(pc)[1] = i

\* The procedure.  A name lies at address 0; its pages may be out of memory.
Enter ==
    /\ At("ENTER") /\ Advance /\ frame' = r31
    /\ UNCHANGED <<r2, args, r31, asked, kernel>>

Memory == 0 .. PageSize    \* a page and the first byte of the next
Names == {s \in [Memory -> Char \cup {0}] : \E k \in Memory : s[k] = 0}

Asks(c, a, name, present) ==
    /\ asked' = [call |-> c, args |-> a, name |-> name, present |-> present, back |-> npc + 1]
    /\ served' = Nothing /\ services' = 0

UserCall ==
    /\ At("CALL") /\ r31' = npc + 1
    /\ \/ \E c \in Call \ NamedCall, a \in [1 .. 3 -> Argument] :
             Jump(Entry(c)) /\ args' = a /\ Asks(c, a, <<>>, {})
       \/ \E c \in NamedCall, name \in Names, present \in SUBSET {0, 1} :
             Jump(Entry(c)) /\ args' = <<0, 0, 0>> /\ Asks(c, args', name, present)
    /\ UNCHANGED <<r2, frame, copy, ended>>

UserReturn ==
    /\ At("RETURN") /\ r31' = frame /\ Jump(frame)
    /\ UNCHANGED <<r2, args, frame, asked, kernel>>

\* The instructions of start.s; "if we return from main, exit(0)".
JAL ==
    /\ At("JAL") /\ r31' = npc + 1 /\ Jump(Instruction(pc)[2])
    /\ IF Instruction(pc)[2] = MainEntry THEN UNCHANGED <<asked, served, services>>
       ELSE Asks("Exit", <<0, 0, 0>>, <<>>, {})
    /\ UNCHANGED <<r2, args, frame, copy, ended>>

CLEAR4 == At("CLEAR4") /\ Advance /\ args' = [args EXCEPT ![1] = 0] /\ UNCHANGED <<r2, r31, frame, asked, kernel>>

ADDIU2 == At("ADDIU2") /\ Advance /\ r2' = Instruction(pc)[2] /\ UNCHANGED <<args, r31, frame, asked, kernel>>

JR31 == At("JR31") /\ Jump(r31) /\ UNCHANGED <<r2, args, r31, frame, asked, kernel>>

NOP == At("NOP") /\ Advance /\ UNCHANGED <<r2, args, r31, frame, asked, kernel>>

\* The handler: SYSCALL does not move the program counters, incrRegs does.
incrRegsNot == UNCHANGED <<pc, npc>>
incrRegs == pc' = npc /\ npc' = npc + 1

\* Halt and Exit do not come back.
Serve(c, arguments, result) ==
    /\ served' = [call |-> c, args |-> arguments, result |-> result]
    /\ services' = services + 1 /\ copy' = <<>>
    /\ r2' = IF c \in HasResult THEN result ELSE r2
    /\ IF c \in {"Halt", "Exit"} THEN ended' = TRUE /\ UNCHANGED <<pc, npc>> ELSE incrRegs /\ UNCHANGED ended
    /\ UNCHANGED <<args, r31, frame, asked>>

ExceptionHandler ==
    /\ At("SYSCALL") /\ services < 2
    /\ \E c \in Call \ NamedCall, result \in Result :
          SC[c] = r2 /\ Serve(c, SubSeq(args, 1, Arguments[c]), result)

\* "value" is not initialised: the loop may end before it begins.
CopyBegins ==
    /\ At("SYSCALL") /\ services < 2
    /\ \E c \in NamedCall, value \in Char \cup {0} :
          SC[c] = r2 /\ copy' = [call |-> c, value |-> value, fileName |-> <<>>, present |-> asked.present]
    /\ UNCHANGED <<pc, npc, r2, args, r31, frame, asked, served, services, ended>>

\* ReadMem returns FALSE after a page fault was served, and value stays.
Position == Len(copy.fileName)
Fetched == IF Position \div PageSize \in copy.present THEN asked.name[Position] ELSE copy.value

CopyChar ==
    /\ copy # <<>> /\ copy.value # 0 /\ Position \in Memory
    /\ copy' = [copy EXCEPT !.value = Fetched, !.fileName = Append(@, Fetched),
                            !.present = @ \cup {Position \div PageSize}]
    /\ UNCHANGED <<pc, npc, r2, args, r31, frame, asked, served, services, ended>>

CopyEnds ==
    /\ copy # <<>> /\ copy.value = 0
    /\ \E result \in Result : Serve(copy.call, copy.fileName, result)

Next ==
    \/ Enter \/ UserCall \/ UserReturn
    \/ JAL \/ CLEAR4 \/ ADDIU2 \/ JR31 \/ NOP
    \/ ExceptionHandler \/ CopyBegins \/ CopyChar \/ CopyEnds
-----------------------------------------------------------------------------
AskedName ==
    LET k == CHOOSE n \in Memory : asked.name[n] = 0 /\ \A m \in 0 .. n - 1 : asked.name[m] # 0
    IN  [i \in 1 .. k + 1 |-> asked.name[i - 1]]

Present == \A i \in DOMAIN AskedName : (i - 1) \div PageSize \in asked.present

\* The kernel carries out the call that the program makes, with its arguments,
\* or with its name if that is in memory and the loop over it is begun (start.s:53,
\* exception.cc:83); a program that returns from main exits with 0.
ServedAsAsked ==
    services > 0 =>
        /\ served.call = asked.call
        /\ IF asked.call \in NamedCall THEN Present /\ served.args # <<>> => served.args = AskedName
           ELSE served.args = SubSeq(asked.args, 1, Arguments[asked.call])

\* A call is carried out once ("Or else you'll loop making the same system call
\* forever!", exception.cc:47), and the program goes on after it with the result.
ReturnsToCaller ==
    /\ services <= 1
    /\ pc \in {MainEntry + 3, MainEntry + 5} =>
          pc = asked.back /\ services = 1 /\ (asked.call \in HasResult => r2 = served.result)

=============================================================================
