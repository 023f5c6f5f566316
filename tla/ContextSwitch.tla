---------------------------- MODULE ContextSwitch ---------------------------
(* SWITCH and ThreadRoot of switch.s, instruction by instruction, on the     *)
(* stacks that Thread::StackAllocate prepares.  Procedures that threads run  *)
(* keep the calling convention of the host and may use any register in       *)
(* between; interrupts are simulated, so nothing happens inside SWITCH.      *)
EXTENDS Integers, Sequences, SequencesExt

CONSTANTS Thread, main,   \* main runs on the stack of the process
          Host,           \* "i386", "MIPS" or "SNAKE"
          StackSize,      \* in words
          Guard,          \* words of the pages around a stack
          MaxDepth        \* bounds the frames of a procedure

VARIABLES machine,   \* registers, Thread objects, stacks, _eax_save
          currentThread,
          phase,     \* the procedure a thread is in
          depth,     \* its frames
          entry,     \* the registers when it was called
          calls,     \* what ThreadRoot has called, with which argument
          before,    \* a thread's registers and stack when it called SWITCH
          back,      \* where SWITCH has just returned to, if it has
          asserted   \* CheckOverflow has failed

vars == <<machine, currentThread, phase, depth, entry, calls, before, back, asserted>>
-----------------------------------------------------------------------------
\* Words are tagged: code addresses, data, pointers to threads and into stacks.
Code(label) == <<"code", label>>
Data(t, n, x) == <<"data", t, n, x>>
Pointer(t) == <<"thread", t>>
StackAddress(t, k) == <<"stack", t, k>>
Argument(t) == <<"argument", t>>

\* The calling conventions: what a procedure keeps, and all it may change.
CalleeSaved ==
    IF Host = "i386" THEN <<"ebx", "ebp", "esi", "edi">>
    ELSE IF Host = "MIPS" THEN <<"s0", "s1", "s2", "s3", "s4", "s5", "s6", "s7", "fp">>
    ELSE <<"r3", "r4", "r5", "r6", "r7", "r8", "r9", "r10", "r11", "r12", "r13", "r14", "r15", "r16", "r17", "r18">>
CallerSaved ==
    IF Host = "i386" THEN {"eax", "ecx", "edx"} ELSE IF Host = "MIPS" THEN {"a0", "a1", "ra"} ELSE {"arg0", "arg1", "rp"}
Register == ToSet(CalleeSaved) \cup CallerSaved \cup {"sp"}
Link == IF Host = "MIPS" THEN "ra" ELSE "rp"
GrowsUp == Host = "SNAKE"
-----------------------------------------------------------------------------
\* Operands: a register, a member of the Thread object a register points to,
\* a word above the stack pointer, and _eax_save.
R(r) == <<"register", r>>
M(r, member) == <<"member", r, member>>
Top(k) == <<"top", k>>
EaxSave == <<"eax_save">>

Word(m, o) ==
    CASE o[1] = "register" -> m.reg[o[2]]
      [] o[1] = "member"   -> m.object[m.reg[o[2]][2]][o[3]]
      [] o[1] = "top"      -> m.stack[m.reg["sp"][2]][m.reg["sp"][3] + o[2]]
      [] OTHER             -> m.eaxSave

\* An instruction moves its first operand to its second one.
Move(m, i) ==
    LET v == Word(m, i[1])
        o == i[2]
    IN  CASE o[1] = "register" -> [m EXCEPT !.reg[o[2]] = v]
          [] o[1] = "member"   -> [m EXCEPT !.object[m.reg[o[2]][2]][o[3]] = v]
          [] o[1] = "top"      -> [m EXCEPT !.stack[m.reg["sp"][2]][m.reg["sp"][3] + o[2]] = v]
          [] OTHER             -> [m EXCEPT !.eaxSave = v]

Saves(pointer, registers) == [k \in DOMAIN registers |-> <<R(registers[k]), M(pointer, registers[k])>>]
Restores(pointer, registers) == [k \in DOMAIN registers |-> <<M(pointer, registers[k]), R(registers[k])>>]

SwitchI386EbxLate ==
    LET registers == <<"ecx", "edx", "esi", "edi", "ebp", "sp">>
    IN  << <<R("eax"), EaxSave>>, <<Top(1), R("eax")>> >>
        \o Saves("eax", registers)
        \o << <<EaxSave, R("ebx")>>, <<R("ebx"), M("eax", "eax")>>,
              <<R("ebx"), M("eax", "ebx")>>,
              <<Top(0), R("ebx")>>, <<R("ebx"), M("eax", "pc")>>,
              <<Top(2), R("eax")>>,
              <<M("eax", "eax"), R("ebx")>>, <<R("ebx"), EaxSave>> >>
        \o Restores("eax", <<"ebx">> \o registers)
        \o << <<M("eax", "pc"), R("eax")>>, <<R("eax"), Top(1)>>, <<EaxSave, R("eax")>> >>
SwitchI386 ==
    LET registers == <<"ebx", "ecx", "edx", "esi", "edi", "ebp", "sp">>
    IN  << <<R("eax"), EaxSave>>, <<Top(1), R("eax")>> >>
        \o Saves("eax", registers)
        \o << <<EaxSave, R("ebx")>>, <<R("ebx"), M("eax", "eax")>>,
              <<Top(0), R("ebx")>>, <<R("ebx"), M("eax", "pc")>>,
              <<Top(2), R("eax")>>,
              <<M("eax", "eax"), R("ebx")>>, <<R("ebx"), EaxSave>> >>
        \o Restores("eax", registers)
        \o << <<M("eax", "pc"), R("eax")>>, <<R("eax"), Top(1)>>, <<EaxSave, R("eax")>> >>

\* The member "pc" is saved from and loaded into the link register.
SwitchMIPS ==
    LET registers == <<"sp", "s0", "s1", "s2", "s3", "s4", "s5", "s6", "s7", "fp">>
    IN  Saves("a0", registers) \o << <<R("ra"), M("a0", "pc")>> >>
        \o Restores("a1", registers) \o << <<M("a1", "pc"), R("ra")>> >>

SwitchSNAKE ==
    Saves("arg0", <<"sp">> \o CalleeSaved) \o << <<R("rp"), M("arg0", "pc")>> >>
    \o Restores("arg1", <<"sp">> \o SubSeq(CalleeSaved, 1, 15))
    \o << <<M("arg1", "pc"), R("rp")>> >> \o Restores("arg1", <<"r18">>)

SWITCH == IF Host = "i386" THEN SwitchI386 ELSE IF Host = "MIPS" THEN SwitchMIPS ELSE SwitchSNAKE

\* The registers in which ThreadRoot finds what it is to call.
RootI386 == [InitialPC |-> "esi", InitialArg |-> "edx", WhenDonePC |-> "edi", StartupPC |-> "ecx"]
RootMIPS == [InitialPC |-> "s0", InitialArg |-> "s1", WhenDonePC |-> "s2", StartupPC |-> "s3"]
RootSNAKE == [InitialPC |-> "r3", InitialArg |-> "r4", WhenDonePC |-> "r5", StartupPC |-> "r6"]
Root == IF Host = "i386" THEN RootI386 ELSE IF Host = "MIPS" THEN RootMIPS ELSE RootSNAKE
-----------------------------------------------------------------------------
Member == Register \cup {"pc"}
Slot == -Guard .. StackSize - 1 + Guard
Fencepost == IF GrowsUp THEN StackSize - 1 ELSE 0
NoCall == [reg |-> [r \in Register |-> Data(main, 0, r)], above |-> {}]

Init ==
    /\ machine = [reg     |-> [r \in Register |-> IF r = "sp" THEN StackAddress(main, IF GrowsUp THEN 0 ELSE StackSize - 1)
                                                  ELSE Data(main, 1, r)],
                  object  |-> [t \in Thread |-> [x \in Member |-> Data(t, 0, x)]],
                  stack   |-> [t \in Thread |-> [k \in Slot |-> Data(t, 0, "")]],
                  eaxSave |-> Data(main, 0, "")]
    /\ currentThread = main
    /\ phase = [t \in Thread |-> IF t = main THEN "func" ELSE "none"]
    /\ depth = [t \in Thread |-> 0]
    /\ entry = [t \in Thread |-> NoCall.reg] /\ calls = [t \in Thread |-> <<>>]
    /\ before = [t \in Thread |-> NoCall] /\ back = <<>> /\ asserted = FALSE

Moved(a, k) == StackAddress(a[2], a[3] + (IF GrowsUp THEN k ELSE -k))
Push(m, v) ==
    LET a == Moved(m.reg["sp"], 1) IN [m EXCEPT !.reg["sp"] = a, !.stack[a[2]][a[3]] = v]

Running == ~asserted /\ phase[currentThread] \in {"startup", "func", "finish"}

\* Thread::StackAllocate, called by Thread::Fork.
StackTop(t) ==
    IF Host = "SNAKE" THEN StackAddress(t, 16) ELSE IF Host = "MIPS" THEN StackAddress(t, StackSize - 4)
    ELSE StackAddress(t, StackSize - 5)

StackAllocate(t) ==
    LET o == [machine.object[t] EXCEPT !["sp"] = StackTop(t), !["pc"] = Code("ThreadRoot"),
                 ![Root.StartupPC] = Code("InterruptEnable"), ![Root.InitialPC] = Code("func"),
                 ![Root.InitialArg] = Argument(t), ![Root.WhenDonePC] = Code("ThreadFinish")]
        s == [machine.stack[t] EXCEPT ![Fencepost] = Code("STACK_FENCEPOST")]
    IN  machine' = [machine EXCEPT !.object[t] = o,
                      !.stack[t] = IF Host = "i386" THEN [s EXCEPT ![StackTop(t)[3]] = Code("ThreadRoot")] ELSE s]

Fork(t) ==
    /\ Running /\ phase[t] = "none"
    /\ StackAllocate(t)
    /\ phase' = [phase EXCEPT ![t] = "new"] /\ back' = <<>>
    /\ UNCHANGED <<currentThread, depth, entry, calls, before, asserted>>

\* The procedure uses the registers.
Work(n) ==
    /\ Running /\ back' = <<>>
    /\ machine' = [machine EXCEPT !.reg = [r \in Register |-> IF r = "sp" THEN @["sp"] ELSE Data(currentThread, n, r)]]
    /\ UNCHANGED <<currentThread, phase, depth, entry, calls, before, asserted>>

\* It makes a frame, and leaves it.
Deeper ==
    /\ Running /\ depth[currentThread] < MaxDepth /\ back' = <<>>
    /\ machine' = Push(machine, Data(currentThread, 1, ""))
    /\ depth' = [depth EXCEPT ![currentThread] = @ + 1]
    /\ UNCHANGED <<currentThread, phase, entry, calls, before, asserted>>

Shallower ==
    /\ Running /\ depth[currentThread] > 0 /\ back' = <<>>
    /\ machine' = [machine EXCEPT !.reg["sp"] = Moved(@, -1)]
    /\ depth' = [depth EXCEPT ![currentThread] = @ - 1]
    /\ UNCHANGED <<currentThread, phase, entry, calls, before, asserted>>

\* ThreadRoot calls the procedure whose address is in a register; on the i386
\* its argument is the word on top of the stack.
CallFrom(m, t, pc) ==
    LET called == m.reg[pc]
        linked == IF Host = "i386" THEN Push(m, Code("ThreadRoot")) ELSE [m EXCEPT !.reg[Link] = Code("ThreadRoot")]
        arg == IF Host = "i386" THEN Word(m, Top(0)) ELSE m.reg[IF Host = "MIPS" THEN "a0" ELSE "arg0"]
    IN  /\ machine' = linked
        /\ calls' = [calls EXCEPT ![t] = Append(@, <<called, arg>>)]
        /\ entry' = [entry EXCEPT ![t] = linked.reg]

\* Its first instructions, up to the call of StartupPC.
ThreadRoot(m, t) ==
    CallFrom(IF Host = "i386"
             THEN LET framed == Push(m, m.reg["ebp"])
                  IN  Push([framed EXCEPT !.reg["ebp"] = framed.reg["sp"]], m.reg[Root.InitialArg])
             ELSE IF Host = "MIPS" THEN [m EXCEPT !.reg["fp"] = Data(t, 0, "zero")] ELSE m,
             t, Root.StartupPC)

\* The procedure returns to ThreadRoot, which calls the next one.
Return ==
    LET t == currentThread
        kept == [r \in Register |-> IF r \in CallerSaved THEN Data(t, 2, r) ELSE entry[t][r]]
        returned == [machine EXCEPT !.reg = IF Host = "i386" THEN [kept EXCEPT !["sp"] = Moved(@, -1)] ELSE kept]
        loaded == IF Host = "i386" \/ phase[t] = "func" THEN returned
                  ELSE [returned EXCEPT !.reg[IF Host = "MIPS" THEN "a0" ELSE "arg0"] = returned.reg[Root.InitialArg]]
    IN  /\ Running /\ t # main /\ phase[t] \in {"startup", "func"} /\ depth[t] = 0
        /\ CallFrom(loaded, t, IF phase[t] = "startup" THEN Root.InitialPC ELSE Root.WhenDonePC)
        /\ phase' = [phase EXCEPT ![t] = IF @ = "startup" THEN "func" ELSE "finish"]
        /\ back' = <<>>
        /\ UNCHANGED <<currentThread, depth, before, asserted>>
-----------------------------------------------------------------------------
\* The frames of the thread: what is on its side of the stack pointer.
Frames(m) ==
    LET a == m.reg["sp"] IN {<<k, m.stack[a[2]][k]>> : k \in {x \in Slot : IF GrowsUp THEN x <= a[3] ELSE x >= a[3]}}

\* Scheduler::Run from CheckOverflow on: the call of SWITCH, SWITCH, and the
\* way back from it in the next thread.
CheckOverflow(t) == t = main \/ machine.stack[t][Fencepost] = Code("STACK_FENCEPOST")

Run(next) ==
    LET t == currentThread
        entered == IF Host = "i386" THEN Push(Push(Push(machine, Pointer(next)), Pointer(t)), Code("Run"))
                   ELSE [machine EXCEPT !.reg[IF Host = "MIPS" THEN "a0" ELSE "arg0"] = Pointer(t),
                                        !.reg[IF Host = "MIPS" THEN "a1" ELSE "arg1"] = Pointer(next),
                                        !.reg[Link] = Code("Run")]
        m == FoldLeft(Move, entered, SWITCH)
        pc == IF Host = "i386" THEN Word(m, Top(0)) ELSE m.reg[Link]
        returned == IF Host = "i386" THEN [m EXCEPT !.reg["sp"] = Moved(@, -1)] ELSE m
        cleared == IF Host = "i386" THEN [returned EXCEPT !.reg["sp"] = Moved(@, -2)] ELSE returned
    IN  /\ Running /\ next # t /\ phase[next] \in {"new", "startup", "func"}
        /\ IF ~CheckOverflow(t)
           THEN asserted' = TRUE /\ UNCHANGED <<machine, currentThread, phase, entry, calls, before, back>>
           ELSE /\ currentThread' = next /\ UNCHANGED asserted
                /\ before' = [before EXCEPT ![t] = [reg |-> machine.reg, above |-> Frames(machine)]]
                /\ phase' = [x \in Thread |-> IF x = t /\ phase[t] = "finish" THEN "done"
                                              ELSE IF x = next /\ phase[x] = "new" THEN "startup" ELSE phase[x]]
                /\ IF pc = Code("ThreadRoot") THEN ThreadRoot(returned, next) /\ back' = <<>>
                   ELSE machine' = cleared /\ back' = <<pc>> /\ UNCHANGED <<entry, calls>>
        /\ UNCHANGED depth

Next ==
    \/ \E t \in Thread : Fork(t) \/ Run(t)
    \/ \E n \in {1, 2} : Work(n)
    \/ Deeper \/ Shallower \/ Return
-----------------------------------------------------------------------------
\* SWITCH returns to the thread it was called by, with the registers, the stack
\* pointer and the frames of that call, whatever other threads did meanwhile
\* (switch.s:312, scheduler.cc:116).
ResumesWhereItLeft ==
    back # <<>> =>
        /\ back = <<Code("Run")>>
        /\ \A r \in ToSet(CalleeSaved) \cup {"sp"} : machine.reg[r] = before[currentThread].reg[r]
        /\ Frames(machine) = before[currentThread].above

\* A new thread enables interrupts, calls its procedure with its argument and
\* finishes, though others run between and use every register (thread.cc:244).
RootRuns ==
    \A t \in Thread \ {main} :
        LET c == calls[t]
        IN  /\ Len(c) >= 1 => c[1][1] = Code("InterruptEnable")
            /\ Len(c) >= 2 => c[2] = <<Code("func"), Argument(t)>>
            /\ Len(c) = 3 => c[3][1] = Code("ThreadFinish")
            /\ phase[t] \in {"startup", "func", "finish", "done"} <=> Len(c) > 0

\* SWITCH writes above its return address; that word is in the stack also when
\* the thread is new (thread.cc:267).
NothingBeyondStack ==
    \A t \in Thread \ {main}, k \in Slot :
        (IF GrowsUp THEN k < 0 ELSE k >= StackSize) => machine.stack[t][k] = Data(t, 0, "")

=============================================================================
