----------------------------- MODULE Arithmetic -----------------------------
(* The stand-alone interpreter of bin/execute.c: what its instructions       *)
(* compute.  It knows no overflow exception.  Its operands are the registers *)
(* a and b, and the value immed(instr), sign-extended, for all immediates.   *)
(*                                                                           *)
(* Every instruction on every operand, computed by the simulated processor   *)
(* and by the stand-alone interpreter, and the multiplication of the         *)
(* processor, which takes one bit of an operand at a time and sums up a      *)
(* double word kept as two unsigned words.                                   *)
EXTENDS MipsSim

\* Shifting by the word size or more is undefined in C; the host shifts by the
\* low bits of the amount.
HostShift(k) == LowBits(k, ShiftBits)

XSLL(b, shamt) == ShiftLeft(b, shamt)
XSRL(b, shamt) == ShiftRight(b, shamt)
XSRA(b, shamt) == ShiftRightSigned(b, shamt)
XSLLV(a, b) == ShiftLeft(b, HostShift(a))
XSRLV(a, b) == ShiftRight(b, HostShift(a))
XSRAV(a, b) == ShiftRightSigned(b, HostShift(a))
XDIV(a, b) ==
    IF b = 0 \/ (Signed(a) = -(Modulus \div 2) /\ Signed(b) = -1) THEN HostTrap
    ELSE Ok(<<Wrap(Remainder(Signed(a), Signed(b))), Wrap(Quotient(Signed(a), Signed(b)))>>)
XDIVU(a, b) == IF b = 0 THEN HostTrap ELSE Ok(<<a % b, a \div b>>)
XADD(a, b) == Wrap(a + b)
XSUB(a, b) == Wrap(a - b)
XAND(a, b) == a & b
XOR2(a, b) == a | b
XXOR(a, b) == a ^^ b
XNOR(a, b) == Complement(a | b)
XSLT(a, b) == IF Signed(a) < Signed(b) THEN 1 ELSE 0
XSLTU(a, b) == IF a < b THEN 1 ELSE 0
XADDI(a, x) == Wrap(a + x)
XSLTI(a, x) == IF Signed(a) < Signed(x) THEN 1 ELSE 0
XSLTIU(a, x) == IF a < x THEN 1 ELSE 0
XANDI(a, x) == a & x
XORI2(a, x) == a | x
XXORI(a, x) == a ^^ x
XLUI(x) == ShiftLeft(x, HalfBits)

\* MULT and MULTU compute the upper word from the halves of the operands.
Upper(t1, t2) ==
    LET l1 == LowBits(t1, HalfBits)
        h1 == ShiftRight(t1, HalfBits)
        l2 == LowBits(t2, HalfBits)
        h2 == ShiftRight(t2, HalfBits)
    IN  Wrap(h1 * h2 + ShiftRightSigned(Wrap(h1 * l2), HalfBits) + ShiftRightSigned(Wrap(h2 * l1), HalfBits))
XMULTU(a, b) == <<Upper(a, b), Wrap(a * b)>>
XMULT(a, b) ==
    LET t1 == Wrap(Abs(Signed(a)))
        t2 == Wrap(Abs(Signed(b)))
        lo == Wrap(t1 * t2)
        neg == Negative(a) # Negative(b)
    IN  IF neg THEN <<Wrap(Complement(Upper(t1, t2)) + (IF lo = 0 THEN 1 ELSE 0)), Wrap(Complement(lo) + 1)>>
        ELSE <<Upper(t1, t2), lo>>

XTaken(op, a, b) ==
    CASE op = "BEQ" -> a = b [] op = "BNE" -> a # b
      [] op \in {"BLTZ", "BLTZAL"} -> Signed(a) < 0 [] op \in {"BGEZ", "BGEZAL"} -> Signed(a) >= 0
      [] op = "BLEZ" -> Signed(a) <= 0 [] op = "BGTZ" -> Signed(a) > 0

\* Loads go through C types of the size read.
XLoad(op, value) ==
    CASE op = "LB" -> SignExtend(value, ByteBits) [] op = "LBU" -> LowBits(value, ByteBits)
      [] op = "LH" -> SignExtend(value, HalfBits) [] op = "LHU" -> LowBits(value, HalfBits)

\* The switch of runprogram.
Interpreted(op, a, b, x, shamt) ==
    CASE op \in {"ADD", "ADDU"} -> Ok(XADD(a, b)) [] op \in {"SUB", "SUBU"} -> Ok(XSUB(a, b))
      [] op = "AND" -> Ok(XAND(a, b)) [] op = "OR" -> Ok(XOR2(a, b)) [] op = "XOR" -> Ok(XXOR(a, b)) [] op = "NOR" -> Ok(XNOR(a, b))
      [] op = "SLT" -> Ok(XSLT(a, b)) [] op = "SLTU" -> Ok(XSLTU(a, b))
      [] op = "SLL" -> Ok(XSLL(b, shamt)) [] op = "SRL" -> Ok(XSRL(b, shamt)) [] op = "SRA" -> Ok(XSRA(b, shamt))
      [] op = "SLLV" -> Ok(XSLLV(a, b)) [] op = "SRLV" -> Ok(XSRLV(a, b)) [] op = "SRAV" -> Ok(XSRAV(a, b))
      [] op \in {"ADDI", "ADDIU"} -> Ok(XADDI(a, x)) [] op = "ANDI" -> Ok(XANDI(a, x)) [] op = "ORI" -> Ok(XORI2(a, x))
      [] op = "XORI" -> Ok(XXORI(a, x)) [] op = "SLTI" -> Ok(XSLTI(a, x)) [] op = "SLTIU" -> Ok(XSLTIU(a, x)) [] op = "LUI" -> Ok(XLUI(x))
      [] op = "DIV" -> XDIV(a, b) [] op = "DIVU" -> XDIVU(a, b)
      [] op \in {"LB", "LBU", "LH", "LHU"} -> Ok(XLoad(op, a))
-----------------------------------------------------------------------------
VARIABLES op, a, b, imm, shamt,   \* the instruction and its operands
          sim, interp             \* what the two programs compute

VARIABLES x, y, signedArith,      \* the operands of a multiplication as they were given
          pc, rest, negative, bLo, bHi, lo, hi, round   \* rest: the bits of a that are left

Init ==
    /\ op = "SLL" /\ a = 0 /\ b = 0 /\ imm = 0 /\ shamt = 0
    /\ sim = Ok(0) /\ interp = Ok(0)

\* Instruction::Decode has sign-extended the immediate field.
Compute(o, p, q, i, s) ==
    /\ op' = o /\ a' = p /\ b' = q /\ imm' = i /\ shamt' = s
    /\ sim' = Computed(o, p, q, SignExtend(i, HalfBits), s)
    /\ interp' = Interpreted(o, p, q, SignExtend(i, HalfBits), s)

Decide(o, p, q) ==
    /\ op' = o /\ a' = p /\ b' = q /\ imm' = 0 /\ shamt' = 0
    /\ sim' = Ok(Taken(o, p, q)) /\ interp' = Ok(XTaken(o, p, q))

\* Operands an instruction does not have are 0.
Next ==
    /\ op = "SLL" /\ a = 0 /\ b = 0 /\ shamt = 0
    /\ \E p \in Word, q \in Word :
          \/ \E o \in RdInstruction \ {"SLL", "SRL", "SRA"} : Compute(o, p, q, 0, 0)
          \/ \E o \in {"SLL", "SRL", "SRA"}, s \in 0 .. Bits - 1 : p = 0 /\ Compute(o, p, q, 0, s)
          \/ \E o \in RtInstruction, i \in 0 .. 2 ^ HalfBits - 1 : q = 0 /\ Compute(o, p, q, i, 0)
          \/ \E o \in DivInstruction : Compute(o, p, q, 0, 0)
          \/ \E o \in LoadInstruction : q = 0 /\ Compute(o, p, q, 0, 0)
          \/ \E o \in Branch : Decide(o, p, q)
-----------------------------------------------------------------------------
Reference ==
    IF op \in Branch
    THEN Plain(CASE op = "BEQ" -> a = b [] op = "BNE" -> a # b [] op \in {"BGEZ", "BGEZAL"} -> Signed(a) >= 0
                 [] op \in {"BLTZ", "BLTZAL"} -> Signed(a) < 0 [] op = "BGTZ" -> Signed(a) > 0 [] op = "BLEZ" -> Signed(a) <= 0)
    ELSE Result(op, a, b, imm, shamt)

\* The simulated processor computes what a MIPS R2000 does, overflow included,
\* for all instructions but OR, SRL and SRLV, and except where the host traps
\* (mipssim.cc:122).
SimulatorRight == op \in {"OR", "SRL", "SRLV"} \/ sim.exc = "hosttrap" \/ sim = Reference

\* The stand-alone interpreter does, for the instructions that cannot trap and
\* the immediates it extends as the processor does (execute.c:97).
InterpreterRight ==
    \/ op \in {"ANDI", "ORI", "XORI"} /\ imm >= 2 ^ (HalfBits - 1)
    \/ Reference.exc = "overflow"
    \/ interp.exc = "hosttrap"
    \/ interp = Reference
-----------------------------------------------------------------------------
MultInit ==
    /\ x \in Word /\ y \in Word /\ signedArith \in BOOLEAN
    /\ pc = "start" /\ rest = 0 /\ negative = FALSE
    /\ bLo = 0 /\ bHi = 0 /\ lo = 0 /\ hi = 0 /\ round = 0

Zero ==
    /\ pc = "start" /\ (x = 0 \/ y = 0) /\ pc' = "done"
    /\ UNCHANGED <<x, y, signedArith, rest, negative, bLo, bHi, lo, hi, round>>

\* Negating the smallest number leaves it as it is.
MakePositive(w) == IF signedArith /\ Negative(w) THEN Wrap(-w) ELSE w

Start ==
    /\ pc = "start" /\ x # 0 /\ y # 0 /\ pc' = "loop"
    /\ negative' = (signedArith /\ Negative(x) # Negative(y))
    /\ rest' = MakePositive(x) /\ bLo' = MakePositive(y)
    /\ UNCHANGED <<x, y, signedArith, bHi, lo, hi, round>>

\* Adding the shifted b, with the carry out of the low word.
AddLo ==
    /\ lo' = Wrap(lo + bLo)
    /\ hi' = Wrap(hi + (IF lo' < bLo THEN 1 ELSE 0) + bHi)

\* bHi and bLo are shifted as one double word; rest is an int, so the sign stays.
ShiftB ==
    /\ bHi' = Wrap(2 * bHi) + (IF Negative(bLo) THEN 1 ELSE 0)
    /\ bLo' = Wrap(2 * bLo)
    /\ rest' = ShiftRightSigned(rest, 1)
    /\ round' = round + 1

Loop ==
    /\ pc = "loop" /\ round < Bits
    /\ IF rest % 2 = 1 THEN AddLo ELSE UNCHANGED <<lo, hi>>
    /\ IF rest = 1 THEN pc' = "sign" /\ UNCHANGED <<rest, bLo, bHi, round>>
       ELSE ShiftB /\ UNCHANGED pc
    /\ UNCHANGED <<x, y, signedArith, negative>>

LoopEnds ==
    /\ pc = "loop" /\ round = Bits /\ pc' = "sign"
    /\ UNCHANGED <<x, y, signedArith, rest, negative, bLo, bHi, lo, hi, round>>

Negate ==
    /\ pc = "sign" /\ pc' = "done"
    /\ IF negative
       THEN /\ lo' = Wrap(Complement(lo) + 1)
            /\ hi' = Wrap(Complement(hi) + (IF lo' = 0 THEN 1 ELSE 0))
       ELSE UNCHANGED <<lo, hi>>
    /\ UNCHANGED <<x, y, signedArith, rest, negative, bLo, bHi, round>>

MultNext == Zero \/ Start \/ Loop \/ LoopEnds \/ Negate
-----------------------------------------------------------------------------
Double(h, l) == h * Modulus + l
Magnitude(w) == IF signedArith THEN Abs(Signed(w)) ELSE w
Product == IF signedArith THEN Signed(x) * Signed(y) ELSE x * y

\* In every round what is summed up and what is left to add make the product
\* of the magnitudes: no bit of either word is lost (mipssim.cc:663).
NothingLost ==
    pc = "loop" =>
        (Double(hi, lo) + LowBits(rest, Bits - round) * Double(bHi, bLo)) % (Modulus * Modulus) = Magnitude(x) * Magnitude(y)

\* The double word left in the Hi and Lo registers is the product, signed or
\* unsigned, of every two words (mipssim.cc:636).
ProductRight == pc = "done" => Double(hi, lo) = Product % (Modulus * Modulus)

\* The loop ends, also when a is negative and shifting never makes it 0: until
\* the product is there a next step is, and there are at most as many rounds as
\* bits (mipssim.cc:663).
MultEnds == pc = "done" \/ (round <= Bits /\ ENABLED MultNext)

\* The stand-alone interpreter gets the low word of both products right
\* (execute.c:151 and 175).
InterpreterLowRight == (IF signedArith THEN XMULT(x, y) ELSE XMULTU(x, y))[2] = Product % Modulus

=============================================================================
