------------------------------ MODULE Processor -----------------------------
(* Machine::OneInstruction with its delayed loads, exceptions, interrupts    *)
(* and context switches, beside the stand-alone interpreter of execute.c,    *)
(* which knows none of them and loads at once.                               *)
EXTENDS MipsSim, FiniteSets

CONSTANTS Thread, Registers,                 \* user threads; register numbers, 0 among them
          ResultReg, ArgReg, LinkReg,        \* r2, r4 and r31
          Programs,                          \* sequences of instructions
          Address,                           \* word addresses of data
          Entries,                           \* where a thread may begin: 0 (Exec) or at a function (Fork)
          MaxSteps                           \* instructions a thread carries out

VARIABLES machine,   \* registers, and the memory the page table leads to
          saved,     \* userRegisters of the other threads, and their memory
          current,   \* currentThread
          trap,      \* the threads that are inside a system call
          stage,     \* "new", in the kernel before its first instruction ("root"), or "user"
          entry,     \* where it begins
          prog, ideal, last, hazard, steps

vars == <<machine, saved, current, trap, stage, entry, prog, ideal, last, hazard, steps>>

Loads == {"LW", "LB", "LBU", "LH", "LHU", "LWL", "LWR"}
Stores == {"SW", "SWL", "SWR"}
Ends(pc, p) == pc >= 4 * Len(p)              \* outside the program

FirstMachine ==
    [reg |-> [r \in Registers |-> 0], hi |-> 0, lo |-> 0, pc |-> 0, npc |-> 4,
     loadReg |-> 0, loadVal |-> 0, mem |-> [a \in Address |-> 130 + a]]

Init ==
    /\ machine = FirstMachine
    /\ saved = [t \in Thread |-> FirstMachine]
    /\ current \in Thread /\ trap = {}
    /\ prog \in [Thread -> Programs]
    /\ entry \in [Thread -> Entries] /\ stage = [t \in Thread |-> IF t = current THEN "root" ELSE "new"]
    /\ ideal = [t \in Thread |-> [FirstMachine EXCEPT !.pc = entry[t], !.npc = entry[t] + 4]]
    /\ last = [t \in Thread |-> 0] /\ hazard = [t \in Thread |-> FALSE] /\ steps = [t \in Thread |-> 0]
-----------------------------------------------------------------------------
\* Machine::DelayedLoad: the pending load is done, (r, v) becomes pending.
DelayedLoad(m, r, v) ==
    [m EXCEPT !.reg = [[@ EXCEPT ![m.loadReg] = m.loadVal] EXCEPT ![0] = 0], !.loadReg = r, !.loadVal = v]

\* What an instruction leaves for the end of OneInstruction: the machine, the
\* next delayed load, pcAfter and the exception that was raised.
Outcome(m) == [m |-> m, loadReg |-> 0, loadVal |-> 0, after |-> m.npc + 4, exc |-> "none"]
Raise(m, e) == [Outcome(m) EXCEPT !.exc = e]
Put(m, r, v) == [m EXCEPT !.reg[r] = v]

Arithmetic(m, i) ==
    LET c == Computed(i.op, m.reg[i.rs], m.reg[i.rt], SignExtend(i.x, HalfBits), i.x)
    IN  IF c.exc = "none" THEN Outcome(Put(m, IF i.op \in RdInstruction THEN i.rd ELSE i.rt, c.value)) ELSE Raise(m, c.exc)

BranchTo(m, i) ==
    LET linked == IF i.op \in {"BGEZAL", "BLTZAL"} THEN Put(m, LinkReg, m.npc + 4) ELSE m
    IN  IF Taken(i.op, linked.reg[i.rs], linked.reg[i.rt])
        THEN [Outcome(linked) EXCEPT !.after = m.npc + 4 * i.x] ELSE Outcome(linked)

JumpTo(m, i) == [Outcome(IF i.op = "JAL" THEN Put(m, LinkReg, m.npc + 4) ELSE m) EXCEPT !.after = 4 * i.x]
JumpRegister(m, i) ==
    LET linked == IF i.op = "JALR" THEN Put(m, i.rd, m.npc + 4) ELSE m
    IN  [Outcome(linked) EXCEPT !.after = linked.reg[i.rs]]

HiLo(m, i) ==
    Outcome(CASE i.op = "MFHI" -> Put(m, i.rd, m.hi) [] i.op = "MFLO" -> Put(m, i.rd, m.lo)
              [] i.op = "MTHI" -> [m EXCEPT !.hi = m.reg[i.rs]] [] i.op = "MTLO" -> [m EXCEPT !.lo = m.reg[i.rs]])

\* LWL and LWR merge what they read with the register as it will be once the
\* pending load is done.
MergedWithRegister(m, r) == m.reg[r]
Merged(m, r) == IF m.loadReg = r THEN m.loadVal ELSE m.reg[r]
Access(m, i) == m.reg[i.rs] + i.x

LoadFrom(m, i, absent) ==
    IF Access(m, i) \notin Address THEN Raise(m, "addressError")
    ELSE IF absent THEN Raise(m, "pageFault")
    ELSE LET value == m.mem[Access(m, i)]
         IN  [Outcome(m) EXCEPT !.loadReg = i.rt,
                !.loadVal = CASE i.op = "LW" -> value [] i.op = "LB" -> LB(value) [] i.op = "LBU" -> LBU(value)
                              [] i.op = "LH" -> LH(value) [] i.op = "LHU" -> LHU(value)
                              [] i.op = "LWL" -> LWL(Merged(m, i.rt), value) [] i.op = "LWR" -> LWR(Merged(m, i.rt), value)]

StoreTo(m, i, absent) ==
    IF Access(m, i) \notin Address THEN Raise(m, "addressError")
    ELSE IF absent THEN Raise(m, "pageFault")
    ELSE Outcome([m EXCEPT !.mem[Access(m, i)] = IF i.op = "SWR" THEN SWR(m.reg[i.rt], @) ELSE m.reg[i.rt]])

\* The switch over the instruction; "absent": the page of its data is.
Execute(m, i, absent) ==
    CASE i.op \in RdInstruction \cup RtInstruction -> Arithmetic(m, i)
      [] i.op \in Branch -> BranchTo(m, i)
      [] i.op \in {"J", "JAL"} -> JumpTo(m, i)
      [] i.op \in {"JR", "JALR"} -> JumpRegister(m, i)
      [] i.op \in {"MFHI", "MFLO", "MTHI", "MTLO"} -> HiLo(m, i)
      [] i.op \in Loads -> LoadFrom(m, i, absent)
      [] i.op \in Stores -> StoreTo(m, i, absent)
      [] i.op = "SYSCALL" -> Raise(m, "syscall")
      [] OTHER -> Raise(m, "illegalInstr")

\* The end of OneInstruction: the delayed load first, then the counters.
Advance(o) == [DelayedLoad(o.m, o.loadReg, o.loadVal) EXCEPT !.pc = o.m.npc, !.npc = o.after]

\* RaiseException up to the call of the handler.
RaiseException(m) == DelayedLoad(m, 0, 0)

\* The handler of a system call: a result that depends on the argument, and
\* incrRegs.
Served(reg) == [reg EXCEPT ![ResultReg] = Wrap(reg[ArgReg] + 1)]
incrRegs(m) == [m EXCEPT !.pc = m.npc, !.npc = m.npc + 4]
-----------------------------------------------------------------------------
\* The interpreter: the counters move first, every effect is immediate.
XExecute(g, i) ==
    LET xpc == g.pc
        a == g.reg[i.rs]
        b == g.reg[i.rt]
        moved == [g EXCEPT !.pc = g.npc, !.npc = g.npc + 4]
        target == xpc + 4 + 4 * i.x
        value == g.mem[a + i.x]
    IN  CASE i.op \in RdInstruction \cup RtInstruction ->
               Put(moved, IF i.op \in RdInstruction THEN i.rd ELSE i.rt,
                   CASE i.op = "ADDU" -> Wrap(a + b) [] i.op = "ADDIU" -> Wrap(a + i.x) [] i.op = "SLT" -> IF Signed(a) < Signed(b) THEN 1 ELSE 0)
          [] i.op \in Branch ->
               LET linked == IF i.op \in {"BGEZAL", "BLTZAL"} THEN Put(moved, LinkReg, xpc + 8) ELSE moved
               IN  IF Taken(i.op, linked.reg[i.rs], linked.reg[i.rt]) THEN [linked EXCEPT !.npc = target] ELSE linked
          [] i.op = "J" -> [moved EXCEPT !.npc = 4 * i.x]
          [] i.op = "JAL" -> [Put(moved, LinkReg, xpc + 8) EXCEPT !.npc = 4 * i.x]
          [] i.op = "JR" -> [moved EXCEPT !.npc = a]
          [] i.op = "JALR" -> [Put(moved, i.rd, xpc + 8) EXCEPT !.npc = a]
          [] i.op = "MFLO" -> Put(moved, i.rd, g.lo)
          [] i.op = "MTLO" -> [moved EXCEPT !.lo = a]
          [] i.op = "LW" -> Put(moved, i.rt, value)
          [] i.op = "LB" -> Put(moved, i.rt, SignExtend(value, ByteBits))
          [] i.op = "LWR" -> Put(moved, i.rt, LWR(b, value))     \* as the processor defines it
          [] i.op = "SW" -> [moved EXCEPT !.mem[a + i.x] = b]
          [] i.op = "SYSCALL" -> [moved EXCEPT !.reg = Served(g.reg)]

\* "Force r0 = 0" at the next fetch.
XStep(g, i) == Put(XExecute(g, i), 0, 0)
-----------------------------------------------------------------------------
Instruction(t, pc) == prog[t][(pc \div 4) + 1]

\* Registers an instruction in the slot after a load reads, or writes at once.
Touches(i) ==
    CASE i.op \in RdInstruction \/ i.op \in {"JALR"} -> {i.rs, i.rt, i.rd}
      [] i.op \in {"MFLO", "MFHI"} -> {i.rd}
      [] i.op \in Loads \cup {"JR", "MTLO", "MTHI"} -> {i.rs}
      [] i.op \in {"JAL"} -> {LinkReg}
      [] i.op \in {"BGEZAL", "BLTZAL"} -> {i.rs, LinkReg}
      [] i.op \in {"J", "SYSCALL"} -> {}
      [] OTHER -> {i.rs, i.rt}

\* What the architecture forbids: touching the register of a load in the next
\* instruction, and a branch in the slot after a branch that was taken.
Forbidden(t, i) ==
    \/ last[t] # 0 /\ last[t] \in Touches(i)
    \/ i.op \in Branch \cup {"J", "JAL", "JR", "JALR"} /\ ideal[t].npc # ideal[t].pc + 4

Record(t, i) ==
    /\ ideal' = [ideal EXCEPT ![t] = XStep(@, i)]
    /\ hazard' = [hazard EXCEPT ![t] = @ \/ Forbidden(t, i)]
    /\ last' = [last EXCEPT ![t] = IF i.op \in Loads THEN i.rt ELSE 0]
    /\ steps' = [steps EXCEPT ![t] = @ + 1]

Running(t) ==
    /\ t = current /\ stage[t] = "user" /\ t \notin trap /\ ~hazard[t] /\ steps[t] < MaxSteps
    /\ ~Ends(machine.pc, prog[t])

\* An instruction that is carried out.
OneInstruction(t) ==
    /\ Running(t)
    /\ LET i == Instruction(t, machine.pc)
           o == Execute(machine, i, FALSE)
       IN  o.exc = "none" /\ machine' = Advance(o) /\ Record(t, i)
    /\ UNCHANGED <<saved, current, trap, stage, entry, prog>>

\* A page fault, in the fetch or in the access to data: the handler brings the
\* page in and the instruction is started again from the beginning.
Fault(t) ==
    /\ Running(t)
    /\ \/ machine' = RaiseException(machine)
       \/ LET o == Execute(machine, Instruction(t, machine.pc), TRUE)
          IN  o.exc = "pageFault" /\ machine' = RaiseException(o.m)
    /\ UNCHANGED <<saved, current, trap, stage, entry, prog, ideal, last, hazard, steps>>

Syscall(t) ==
    /\ Running(t)
    /\ LET o == Execute(machine, Instruction(t, machine.pc), FALSE)
       IN  o.exc = "syscall" /\ machine' = RaiseException(o.m)
    /\ trap' = trap \cup {t}
    /\ UNCHANGED <<saved, current, stage, entry, prog, ideal, last, hazard, steps>>

\* The handler and incrRegs work on the registers of the machine.
SyscallReturns(t) ==
    /\ t = current /\ t \in trap
    /\ machine' = incrRegs([machine EXCEPT !.reg = Served(@)])
    /\ trap' = trap \ {t}
    /\ Record(t, Instruction(t, machine.pc))
    /\ UNCHANGED <<saved, current, stage, entry, prog>>

\* The clock ticks after the instruction and an interrupt is due (CheckIfDue).
Interrupt ==
    /\ machine' = DelayedLoad(machine, 0, 0)
    /\ UNCHANGED <<saved, current, trap, stage, entry, prog, ideal, last, hazard, steps>>

\* The user's half of Scheduler::Run: a thread that has been dispatched before
\* gets its registers and its page table back, a new one goes to ThreadRoot with
\* those of the thread before it.
SaveUserState == [machine EXCEPT !.mem = IF stage[current] = "user" THEN @ ELSE saved[current].mem]
RestoreUserState(t) == saved[t]

SwitchTo(t) ==
    /\ t # current
    /\ saved' = [saved EXCEPT ![current] = SaveUserState]
    /\ machine' = IF stage[t] = "new" THEN machine ELSE RestoreUserState(t)
    /\ current' = t /\ stage' = [stage EXCEPT ![t] = IF @ = "new" THEN "root" ELSE @]
    /\ UNCHANGED <<trap, entry, prog, ideal, last, hazard, steps>>

\* newProc, myForkHelper or StartProcess: AddrSpace::InitRegisters and
\* RestoreState, the counters, Machine::Run.  The stack register is a register
\* like the others.
InitRegisters(t) == [FirstMachine EXCEPT !.pc = entry[t], !.npc = entry[t] + 4, !.mem = saved[t].mem]

StartUser(t) ==
    /\ t = current /\ stage[t] = "root"
    /\ machine' = InitRegisters(t) /\ stage' = [stage EXCEPT ![t] = "user"]
    /\ UNCHANGED <<saved, current, trap, entry, prog, ideal, last, hazard, steps>>

Next ==
    \/ \E t \in Thread : OneInstruction(t) \/ Fault(t) \/ Syscall(t) \/ SyscallReturns(t) \/ SwitchTo(t) \/ StartUser(t)
    \/ Interrupt
-----------------------------------------------------------------------------
State(t) == IF t = current THEN machine ELSE saved[t]
Visible(m) == <<m.reg, m.hi, m.lo, m.pc, m.npc, m.mem>>

\* Faults, interrupts, system calls, switches and the start of other threads at
\* any point leave no trace:
\* with its pending load done, the processor is where the interpreter is after
\* as many instructions of a program that does nothing the architecture
\* forbids (mipssim.cc:74 and 571, execute.c:88).
TrapsInvisible ==
    \A t \in Thread : stage[t] = "user" /\ ~hazard[t] /\ t \notin trap =>
        Visible(DelayedLoad(State(t), 0, 0)) = Visible(ideal[t])

\* Nothing is pending when the kernel looks at the registers of a thread that
\* has trapped (mipssim.cc:571).
NothingPendingInKernel == \A t \in trap : State(t).loadReg = 0

=============================================================================
