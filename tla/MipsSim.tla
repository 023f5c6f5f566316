------------------------------- MODULE MipsSim ------------------------------
(* The instructions of the simulated processor: first what a MIPS R2000      *)
(* computes, stated on numbers, as the reference; then what                  *)
(* Machine::OneInstruction does, one operator per instruction that gives     *)
(* what it computes from its operands a (register rs), b (register rt) and x *)
(* (the immediate field, sign-extended by Decode).                           *)
(*                                                                           *)
(* Words have Bits bits and are written as the numbers 0 .. 2^Bits - 1, with *)
(* the C operators on int and unsigned int.  The host word is Bits = 32; the *)
(* fields of a word keep their proportions: a byte is a quarter, the         *)
(* immediate field a half of a word.                                         *)
EXTENDS Integers, Sequences, Bitwise

CONSTANT Bits

Modulus == 2 ^ Bits
Word == 0 .. Modulus - 1
HalfBits == Bits \div 2
ByteBits == Bits \div 4

Wrap(n) == n % Modulus
Negative(w) == w >= Modulus \div 2      \* the sign bit is set
Signed(w) == IF Negative(w) THEN w - Modulus ELSE w
Complement(w) == Modulus - 1 - w

LowBits(w, k) == w % 2 ^ k
SignExtend(w, k) == IF LowBits(w, k) >= 2 ^ (k - 1) THEN Wrap(LowBits(w, k) - 2 ^ k) ELSE LowBits(w, k)

ShiftLeft(w, k) == Wrap(w * 2 ^ k)
ShiftRight(w, k) == w \div 2 ^ k                    \* of an unsigned int
ShiftRightSigned(w, k) == Wrap(Signed(w) \div 2 ^ k)  \* of an int

\* C division truncates towards zero.
Abs(n) == IF n < 0 THEN -n ELSE n
Quotient(p, q) == (IF (p < 0) = (q < 0) THEN 1 ELSE -1) * (Abs(p) \div Abs(q))
Remainder(p, q) == p - Quotient(p, q) * q
-----------------------------------------------------------------------------
RdInstruction == {"ADD", "ADDU", "SUB", "SUBU", "AND", "OR", "XOR", "NOR", "SLT", "SLTU",
                  "SLL", "SRL", "SRA", "SLLV", "SRLV", "SRAV"}
RtInstruction == {"ADDI", "ADDIU", "ANDI", "ORI", "XORI", "SLTI", "SLTIU", "LUI"}
DivInstruction == {"DIV", "DIVU"}
LoadInstruction == {"LB", "LBU", "LH", "LHU"}
Branch == {"BEQ", "BNE", "BGEZ", "BGEZAL", "BLTZ", "BLTZAL", "BGTZ", "BLEZ"}

ShiftBits == CHOOSE k \in 1 .. Bits : 2 ^ k = Bits   \* bits of a shift amount

Bit(w, k) == (w \div 2 ^ k) % 2
FromBits(f) == LET s[k \in 0 .. Bits] == IF k = 0 THEN 0 ELSE s[k - 1] + f[k - 1] * 2 ^ (k - 1) IN s[Bits]

Trapping(n) == IF n \in -(Modulus \div 2) .. Modulus \div 2 - 1
               THEN [exc |-> "none", value |-> Wrap(n)] ELSE [exc |-> "overflow", value |-> 0]
Plain(n) == [exc |-> "none", value |-> n]
TruthValue(p) == Plain(IF p THEN 1 ELSE 0)
Bitwise2(op, a, b) ==
    Plain(FromBits([k \in 0 .. Bits - 1 |->
        CASE op = "AND" -> Bit(a, k) * Bit(b, k)
          [] op = "OR" -> IF Bit(a, k) + Bit(b, k) > 0 THEN 1 ELSE 0
          [] op = "XOR" -> (Bit(a, k) + Bit(b, k)) % 2
          [] op = "NOR" -> IF Bit(a, k) + Bit(b, k) > 0 THEN 0 ELSE 1]))
\* Shifts move bit k to bit k + d, and fill with zeros or with the sign.
Shifted(w, d, fill) ==
    Plain(FromBits([k \in 0 .. Bits - 1 |-> IF k - d \in 0 .. Bits - 1 THEN Bit(w, k - d) ELSE fill]))

\* The result of an instruction; imm is the unsigned immediate field, a the
\* value in memory for a load.
Result(op, a, b, imm, shamt) ==
    LET ext == Signed(SignExtend(imm, HalfBits))
        var == a % Bits
    IN
    CASE op = "ADD" -> Trapping(Signed(a) + Signed(b)) [] op = "SUB" -> Trapping(Signed(a) - Signed(b))
      [] op = "ADDU" -> Plain((a + b) % Modulus) [] op = "SUBU" -> Plain((a - b) % Modulus)
      [] op \in {"AND", "OR", "XOR", "NOR"} -> Bitwise2(op, a, b)
      [] op = "SLT" -> TruthValue(Signed(a) < Signed(b)) [] op = "SLTU" -> TruthValue(a < b)
      [] op = "SLL" -> Shifted(b, shamt, 0) [] op = "SRL" -> Shifted(b, -shamt, 0)
      [] op = "SRA" -> Shifted(b, -shamt, Bit(b, Bits - 1))
      [] op = "SLLV" -> Shifted(b, var, 0) [] op = "SRLV" -> Shifted(b, -var, 0)
      [] op = "SRAV" -> Shifted(b, -var, Bit(b, Bits - 1))
      [] op = "ADDI" -> Trapping(Signed(a) + ext) [] op = "ADDIU" -> Plain((a + ext) % Modulus)
      [] op = "ANDI" -> Bitwise2("AND", a, imm) [] op = "ORI" -> Bitwise2("OR", a, imm) [] op = "XORI" -> Bitwise2("XOR", a, imm)
      [] op = "SLTI" -> TruthValue(Signed(a) < ext) [] op = "SLTIU" -> TruthValue(a < ext % Modulus)
      [] op = "LUI" -> Plain((imm * 2 ^ HalfBits) % Modulus)
      [] op = "DIV" -> IF b = 0 THEN Plain(<<0, 0>>)
                       ELSE Plain(<<Remainder(Signed(a), Signed(b)) % Modulus, Quotient(Signed(a), Signed(b)) % Modulus>>)
      [] op = "DIVU" -> IF b = 0 THEN Plain(<<0, 0>>) ELSE Plain(<<a % b, a \div b>>)
      [] op = "LB" -> Plain(SignExtend(a, ByteBits)) [] op = "LBU" -> Plain(LowBits(a, ByteBits))
      [] op = "LH" -> Plain(SignExtend(a, HalfBits)) [] op = "LHU" -> Plain(LowBits(a, HalfBits))
-----------------------------------------------------------------------------
Ok(v) == [exc |-> "none", value |-> v]
Overflow == [exc |-> "overflow", value |-> 0]
HostTrap == [exc |-> "hosttrap", value |-> 0]   \* the simulator itself is stopped

ADD(a, b) ==
    LET sum == Wrap(a + b)
    IN  IF ~Negative(a ^^ b) /\ Negative(a ^^ sum) THEN Overflow ELSE Ok(sum)
ADDI(a, x) ==
    LET sum == Wrap(a + x)
    IN  IF ~Negative(a ^^ x) /\ Negative(x ^^ sum) THEN Overflow ELSE Ok(sum)
ADDIU(a, x) == Ok(Wrap(a + x))
ADDU(a, b) == Ok(Wrap(a + b))
AND(a, b) == Ok(a & b)
ANDI(a, x) == Ok(a & LowBits(x, HalfBits))
LUI(a, x) == Ok(ShiftLeft(x, HalfBits))
NOR(a, b) == Ok(Complement(a | b))
OR(a, b) == Ok(a | a)
ORI(a, x) == Ok(a | LowBits(x, HalfBits))
SLL(b, shamt) == Ok(ShiftLeft(b, shamt))
SLLV(a, b) == Ok(ShiftLeft(b, LowBits(a, ShiftBits)))
SLT(a, b) == Ok(IF Signed(a) < Signed(b) THEN 1 ELSE 0)
SLTI(a, x) == Ok(IF Signed(a) < Signed(x) THEN 1 ELSE 0)
SLTIU(a, x) == Ok(IF a < x THEN 1 ELSE 0)
SLTU(a, b) == Ok(IF a < b THEN 1 ELSE 0)
SRA(b, shamt) == Ok(ShiftRightSigned(b, shamt))
SRAV(a, b) == Ok(ShiftRightSigned(b, LowBits(a, ShiftBits)))
\* The shifts of SRL and SRLV are those of a signed temporary.
SRL(b, shamt) == Ok(ShiftRightSigned(b, shamt))
SRLV(a, b) == Ok(ShiftRightSigned(b, LowBits(a, ShiftBits)))
SUBOverflowAsADD(a, b) ==
    LET diff == Wrap(a - b)
    IN  IF ~Negative(a ^^ b) /\ Negative(a ^^ diff) THEN Overflow ELSE Ok(diff)
SUB(a, b) ==
    LET diff == Wrap(a - b)
    IN  IF Negative(a ^^ b) /\ Negative(a ^^ diff) THEN Overflow ELSE Ok(diff)
SUBU(a, b) == Ok(Wrap(a - b))
XOR(a, b) == Ok(a ^^ b)
XORI(a, x) == Ok(a ^^ LowBits(x, HalfBits))

\* Division by zero gives 0; the host processor traps when the quotient of the
\* smallest number by -1 does not fit.
DIV(a, b) ==
    IF b = 0 THEN Ok(<<0, 0>>)
    ELSE IF Signed(a) = -(Modulus \div 2) /\ Signed(b) = -1 THEN HostTrap
    ELSE Ok(<<Wrap(Remainder(Signed(a), Signed(b))), Wrap(Quotient(Signed(a), Signed(b)))>>)
DIVU(a, b) == IF b = 0 THEN Ok(<<0, 0>>) ELSE Ok(<<a % b, a \div b>>)

BEQ(a, b) == a = b
BGEZ(a) == ~Negative(a)
BGTZ(a) == Signed(a) > 0
BLEZ(a) == Signed(a) <= 0
BLTZ(a) == Negative(a)
BNE(a, b) == a # b

\* What a load puts into the register, from the value ReadMem gives.
LB(value) == IF LowBits(value, ByteBits) >= 2 ^ (ByteBits - 1)
             THEN value | (Modulus - 2 ^ ByteBits) ELSE LowBits(value, ByteBits)
LBU(value) == LowBits(value, ByteBits)
LH(value) == IF LowBits(value, HalfBits) >= 2 ^ (HalfBits - 1)
             THEN value | (Modulus - 2 ^ HalfBits) ELSE LowBits(value, HalfBits)
LHU(value) == LowBits(value, HalfBits)
\* The address is asserted to be a multiple of the word size.
LWL(old, value) == value
LWR(old, value) == (old & (Modulus - 2 ^ ByteBits)) | LowBits(ShiftRightSigned(value, 3 * ByteBits), ByteBits)
SWL(b, value) == b
SWR(b, value) == (value & (2 ^ (3 * ByteBits) - 1)) | ShiftLeft(b, 3 * ByteBits)
-----------------------------------------------------------------------------
\* The switch over the instructions that leave a result in rd or rt.
Computed(op, a, b, x, shamt) ==
    CASE op = "ADD" -> ADD(a, b) [] op = "ADDU" -> ADDU(a, b) [] op = "SUB" -> SUB(a, b) [] op = "SUBU" -> SUBU(a, b)
      [] op = "AND" -> AND(a, b) [] op = "OR" -> OR(a, b) [] op = "XOR" -> XOR(a, b) [] op = "NOR" -> NOR(a, b)
      [] op = "SLT" -> SLT(a, b) [] op = "SLTU" -> SLTU(a, b)
      [] op = "SLL" -> SLL(b, shamt) [] op = "SRL" -> SRL(b, shamt) [] op = "SRA" -> SRA(b, shamt)
      [] op = "SLLV" -> SLLV(a, b) [] op = "SRLV" -> SRLV(a, b) [] op = "SRAV" -> SRAV(a, b)
      [] op = "ADDI" -> ADDI(a, x) [] op = "ADDIU" -> ADDIU(a, x) [] op = "ANDI" -> ANDI(a, x) [] op = "ORI" -> ORI(a, x)
      [] op = "XORI" -> XORI(a, x) [] op = "SLTI" -> SLTI(a, x) [] op = "SLTIU" -> SLTIU(a, x) [] op = "LUI" -> LUI(a, x)
      [] op = "DIV" -> DIV(a, b) [] op = "DIVU" -> DIVU(a, b)
      [] op = "LB" -> Ok(LB(a)) [] op = "LBU" -> Ok(LBU(a)) [] op = "LH" -> Ok(LH(a)) [] op = "LHU" -> Ok(LHU(a))

\* The conditions of the branches.
Taken(op, a, b) ==
    CASE op = "BEQ" -> BEQ(a, b) [] op = "BNE" -> BNE(a, b)
      [] op \in {"BGEZ", "BGEZAL"} -> BGEZ(a) [] op \in {"BLTZ", "BLTZAL"} -> BLTZ(a)
      [] op = "BGTZ" -> BGTZ(a) [] op = "BLEZ" -> BLEZ(a)

=============================================================================
