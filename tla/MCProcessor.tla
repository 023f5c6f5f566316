------------------------------- MODULE MCProcessor ------------------------------
(***************************************************************************)
(* The simulated processor and the processors Nachos runs on, instruction  *)
(* by instruction: what instructions compute, how words are decoded, how   *)
(* instructions, traps and switches of user threads interleave, and how    *)
(* SWITCH moves kernel threads on three hosts, each for itself.  A         *)
(* behaviour is one of the part chosen at the start.                       *)
(*                                                                         *)
(* Instructions compute on all words of four bits.  Programs have four     *)
(* instructions and words of eight bits; alone a thread runs every program *)
(* over the alphabet below, together two threads run programs with delayed *)
(* loads, branches and system calls, and begin at 0 or at a function.      *)
(***************************************************************************)
EXTENDS Integers, Sequences

VARIABLES
  part,
  op, a, b, imm, shamt, sim, interp,                                   \* Arithmetic
  x, y, signedArith, pc, rest, negative, bLo, bHi, lo, hi, round,
  word,                                                                \* Decode
  machine, saved, current, trap, stage, entry, prog, ideal, last, hazard, steps, \* Processor
  host, currentThread, phase, depth, called, calls, before, back, asserted \* ContextSwitch

alu == <<op, a, b, imm, shamt, sim, interp>>
mult == <<x, y, signedArith, pc, rest, negative, bLo, bHi, lo, hi, round>>
user == <<machine, saved, current, trap, stage, entry, prog, ideal, last, hazard, steps>>
kernel == <<host, currentThread, phase, depth, called, calls, before, back, asserted>>
vars == <<part, alu, mult, word, user, kernel>>

I(o, rs, rt, rd, v) == [op |-> o, rs |-> rs, rt |-> rt, rd |-> rd, x |-> v]

\* r1 is the result register, r2 the argument register, r3 the link register.
Alphabet ==
  { I("LW", 0, 1, 0, 0), I("LW", 0, 2, 0, 4), I("LWR", 0, 1, 0, 4), I("LB", 0, 0, 0, 4),
    I("SW", 0, 1, 0, 4), I("ADDU", 1, 2, 2, 0), I("ADDIU", 0, 2, 0, 3),
    I("MTLO", 2, 0, 0, 0), I("MFLO", 0, 0, 1, 0), I("BEQ", 1, 0, 0, 1),
    I("BGEZAL", 1, 0, 0, 1), I("JAL", 0, 0, 0, 2), I("JR", 3, 0, 0, 0),
    I("SYSCALL", 0, 0, 0, 0) }

Chosen ==
  {<<I("LW", 0, 1, 0, 0), I("LWR", 0, 1, 0, 4), I("SYSCALL", 0, 0, 0, 0), I("SW", 0, 1, 0, 4)>>,
   <<I("JAL", 0, 0, 0, 2), I("LW", 0, 2, 0, 4), I("SYSCALL", 0, 0, 0, 0), I("JR", 3, 0, 0, 0)>>,
   <<I("LW", 0, 2, 0, 4), I("BEQ", 1, 0, 0, 1), I("LW", 0, 2, 0, 0), I("ADDU", 0, 1, 2, 0)>>,
   <<I("ADDIU", 0, 2, 0, 2), I("JALR", 2, 0, 3, 0), I("LB", 0, 1, 0, 4), I("MTLO", 2, 0, 0, 0)>>}

R == INSTANCE Arithmetic WITH Bits <- 4

D == INSTANCE Decode WITH Field5 <- {0, 1, 21, 31}, Low16 <- {0, 1, 32767, 32768, 65535}

One == INSTANCE Processor WITH
  Bits <- 8, Thread <- {"t1"}, Registers <- 0 .. 3, ResultReg <- 1, ArgReg <- 2,
  LinkReg <- 3, Address <- {0, 4}, Entries <- {0}, MaxSteps <- 5,
  Programs <- [1 .. 4 -> Alphabet]

Two == INSTANCE Processor WITH
  Bits <- 8, Thread <- {"t1", "t2"}, Registers <- 0 .. 3, ResultReg <- 1, ArgReg <- 2,
  LinkReg <- 3, Address <- {0, 4}, Entries <- {0, 4}, MaxSteps <- 6, Programs <- Chosen

I386 == INSTANCE ContextSwitch WITH
  Thread <- {"m", "a"}, main <- "m", Host <- "i386", StackSize <- 11, Guard <- 6,
  MaxDepth <- 2, machine <- host, entry <- called

MIPS == INSTANCE ContextSwitch WITH
  Thread <- {"m", "a"}, main <- "m", Host <- "MIPS", StackSize <- 8, Guard <- 6,
  MaxDepth <- 1, machine <- host, entry <- called

SNAKE == INSTANCE ContextSwitch WITH
  Thread <- {"m", "a"}, main <- "m", Host <- "SNAKE", StackSize <- 20, Guard <- 6,
  MaxDepth <- 1, machine <- host, entry <- called

Unused == "unused"
AluUnused ==
  /\ op = Unused /\ a = Unused /\ b = Unused /\ imm = Unused /\ shamt = Unused
  /\ sim = Unused /\ interp = Unused
MultUnused ==
  /\ x = Unused /\ y = Unused /\ signedArith = Unused /\ pc = Unused /\ rest = Unused
  /\ negative = Unused /\ bLo = Unused /\ bHi = Unused /\ lo = Unused /\ hi = Unused
  /\ round = Unused
UserUnused ==
  /\ machine = Unused /\ saved = Unused /\ current = Unused /\ trap = Unused
  /\ stage = Unused /\ entry = Unused /\ prog = Unused /\ ideal = Unused
  /\ last = Unused /\ hazard = Unused /\ steps = Unused
KernelUnused ==
  /\ host = Unused /\ currentThread = Unused /\ phase = Unused /\ depth = Unused
  /\ called = Unused /\ calls = Unused /\ before = Unused /\ back = Unused
  /\ asserted = Unused

Init ==
  \/ part = "Alu" /\ R!Init /\ MultUnused /\ word = Unused /\ UserUnused /\ KernelUnused
  \/ part = "Mult" /\ R!MultInit /\ AluUnused /\ word = Unused /\ UserUnused /\ KernelUnused
  \/ part = "Decode" /\ D!Init /\ AluUnused /\ MultUnused /\ UserUnused /\ KernelUnused
  \/ /\ \/ part = "OneThread" /\ One!Init
        \/ part = "TwoThreads" /\ Two!Init
     /\ AluUnused /\ MultUnused /\ word = Unused /\ KernelUnused
  \/ /\ \/ part = "i386" /\ I386!Init
        \/ part = "MIPS" /\ MIPS!Init
        \/ part = "SNAKE" /\ SNAKE!Init
     /\ AluUnused /\ MultUnused /\ word = Unused /\ UserUnused

Next ==
  \/ part = "Alu" /\ R!Next /\ UNCHANGED <<part, mult, word, user, kernel>>
  \/ part = "Mult" /\ R!MultNext /\ UNCHANGED <<part, alu, word, user, kernel>>
  \/ part = "Decode" /\ D!Next /\ UNCHANGED <<part, alu, mult, user, kernel>>
  \/ part = "OneThread" /\ One!Next /\ UNCHANGED <<part, alu, mult, word, kernel>>
  \/ part = "TwoThreads" /\ Two!Next /\ UNCHANGED <<part, alu, mult, word, kernel>>
  \/ part = "i386" /\ I386!Next /\ UNCHANGED <<part, alu, mult, word, user>>
  \/ part = "MIPS" /\ MIPS!Next /\ UNCHANGED <<part, alu, mult, word, user>>
  \/ part = "SNAKE" /\ SNAKE!Next /\ UNCHANGED <<part, alu, mult, word, user>>

Spec == Init /\ [][Next]_vars

--------------------------------------------------------------------------------

\* The simulated processor and the stand-alone interpreter compute what a MIPS
\* R2000 does, but for OR and the logical shifts and where the host traps; Hi and Lo
\* get the signed or unsigned product of any two words, after finitely many rounds
\* none of which loses a bit (mipssim.cc OneInstruction and Mult, execute.c).
InstructionsRight ==
  /\ part = "Alu" => R!SimulatorRight /\ R!InterpreterRight
  /\ part = "Mult" => R!ProductRight /\ R!NothingLost /\ R!MultEnds /\ R!InterpreterLowRight

\* Processor, interpreter and disassembler take a word for the same instruction,
\* with the same immediate and the same operands (mipssim.cc Decode, instr.h, d.c).
DecodersAgree ==
  part = "Decode" => D!TablesAgree /\ D!ImmediatesAgree /\ D!OperandsAgree

\* Faults, interrupts, system calls and switches at any point leave no trace in a
\* program that does nothing the architecture forbids, and no load is pending when
\* the kernel looks at the registers (mipssim.cc, Machine::RaiseException).
TrapsInvisible ==
  /\ part = "OneThread" => One!TrapsInvisible /\ One!NothingPendingInKernel
  /\ part = "TwoThreads" => Two!TrapsInvisible /\ Two!NothingPendingInKernel

\* SWITCH returns to the call that gave the processor up, with its registers, stack
\* pointer and frames; ThreadRoot calls the procedure with its argument and then
\* ThreadFinish; and nothing is written beyond the base of a stack (switch.s,
\* Thread::StackAllocate).
SwitchKeepsThreads ==
  /\ part = "i386" => I386!ResumesWhereItLeft /\ I386!RootRuns /\ I386!NothingBeyondStack
  /\ part = "MIPS" => MIPS!ResumesWhereItLeft /\ MIPS!RootRuns /\ MIPS!NothingBeyondStack
  /\ part = "SNAKE" => SNAKE!ResumesWhereItLeft /\ SNAKE!RootRuns /\ SNAKE!NothingBeyondStack

================================================================================
