------------------------------- MODULE Decode -------------------------------
(* Decoding in the simulated processor, in the stand-alone interpreter and   *)
(* in the disassembler: three sets of tables for the same instructions.  An  *)
(* instruction word is its upper and its lower half.                         *)
EXTENDS Integers, Sequences

CONSTANTS Field5,   \* values looked at for a five-bit field
          Low16     \* and for the lower half of a word

\* opTable: the first six bits; all are in the I format but these.
opTable == <<
  "SPECIAL", "BCOND", "J", "JAL", "BEQ", "BNE", "BLEZ", "BGTZ",
  "ADDI", "ADDIU", "SLTI", "SLTIU", "ANDI", "ORI", "XORI", "LUI",
  "UNIMP", "UNIMP", "UNIMP", "UNIMP", "RES", "RES", "RES", "RES",
  "RES", "RES", "RES", "RES", "RES", "RES", "RES", "RES",
  "LB", "LH", "LWL", "LW", "LBU", "LHU", "LWR", "RES",
  "SB", "SH", "SWL", "SW", "RES", "RES", "SWR", "RES",
  "UNIMP", "UNIMP", "UNIMP", "UNIMP", "RES", "RES", "RES", "RES",
  "UNIMP", "UNIMP", "UNIMP", "UNIMP", "RES", "RES", "RES", "RES">>
SpecialFormat == {0}     \* RFMT
JumpFormat == {2, 3}     \* JFMT

specialTable == <<
  "SLL", "RES", "SRL", "SRA", "SLLV", "RES", "SRLV", "SRAV",
  "JR", "JALR", "RES", "RES", "SYSCALL", "UNIMP", "RES", "RES",
  "MFHI", "MTHI", "MFLO", "MTLO", "RES", "RES", "RES", "RES",
  "MULT", "MULTU", "DIV", "DIVU", "RES", "RES", "RES", "RES",
  "ADD", "ADDU", "SUB", "SUBU", "AND", "OR", "XOR", "NOR",
  "RES", "RES", "SLT", "SLTU", "RES", "RES", "RES", "RES",
  "RES", "RES", "RES", "RES", "RES", "RES", "RES", "RES",
  "RES", "RES", "RES", "RES", "RES", "RES", "RES", "RES">>

\* The five bits that tell the branches of BCOND apart.
BcondOpSwapped(rt) ==
    CASE rt = 0 -> "BLTZ" [] rt = 1 -> "BGEZ" [] rt = 17 -> "BLTZAL" [] rt = 16 -> "BGEZAL" [] OTHER -> "UNIMP"
BcondOp(rt) ==
    CASE rt = 0 -> "BLTZ" [] rt = 1 -> "BGEZ" [] rt = 16 -> "BLTZAL" [] rt = 17 -> "BGEZAL" [] OTHER -> "UNIMP"

\* Fields of the word, as shifts and masks cut them out.
Op(hi) == hi \div 1024
Rt(hi) == hi % 32
Shamt(lo) == (lo \div 64) % 32
Funct(lo) == lo % 64

\* Instruction::Decode: the immediate of the I format is sign-extended.
Extra(hi, lo) ==
    CASE Op(hi) \in SpecialFormat -> Shamt(lo)
      [] Op(hi) \in JumpFormat -> (hi % 1024) * 65536 + lo
      [] OTHER -> IF lo >= 32768 THEN lo - 65536 ELSE lo

DecodedOp(hi, lo) ==
    LET first == opTable[Op(hi) + 1]
    IN  CASE first = "SPECIAL" -> specialTable[Funct(lo) + 1]
          [] first = "BCOND" -> BcondOp(Rt(hi))
          [] OTHER -> first

\* The case labels of the interpreter (encode.h).
Normal == {
  <<0, "SPECIAL">>, <<1, "BCOND">>, <<2, "J">>, <<3, "JAL">>, <<4, "BEQ">>, <<5, "BNE">>,
  <<6, "BLEZ">>, <<7, "BGTZ">>, <<8, "ADDI">>, <<9, "ADDIU">>, <<10, "SLTI">>, <<11, "SLTIU">>,
  <<12, "ANDI">>, <<13, "ORI">>, <<14, "XORI">>, <<15, "LUI">>, <<16, "COP0">>, <<17, "COP1">>,
  <<18, "COP2">>, <<19, "COP3">>, <<32, "LB">>, <<33, "LH">>, <<34, "LWL">>, <<35, "LW">>,
  <<36, "LBU">>, <<37, "LHU">>, <<38, "LWR">>, <<40, "SB">>, <<41, "SH">>, <<42, "SWL">>,
  <<43, "SW">>, <<46, "SWR">>, <<48, "LWC0">>, <<49, "LWC1">>, <<50, "LWC2">>, <<51, "LWC3">>,
  <<56, "SWC0">>, <<57, "SWC1">>, <<58, "SWC2">>, <<59, "SWC3">>}
Special == {
  <<0, "SLL">>, <<2, "SRL">>, <<3, "SRA">>, <<4, "SLLV">>, <<6, "SRLV">>, <<7, "SRAV">>,
  <<8, "JR">>, <<9, "JALR">>, <<12, "SYSCALL">>, <<13, "BREAK">>, <<16, "MFHI">>, <<17, "MTHI">>,
  <<18, "MFLO">>, <<19, "MTLO">>, <<24, "MULT">>, <<25, "MULTU">>, <<26, "DIV">>, <<27, "DIVU">>,
  <<32, "ADD">>, <<33, "ADDU">>, <<34, "SUB">>, <<35, "SUBU">>, <<36, "AND">>, <<37, "OR">>,
  <<38, "XOR">>, <<39, "NOR">>, <<42, "SLT">>, <<43, "SLTU">>}
Bcond == {<<0, "BLTZ">>, <<1, "BGEZ">>, <<16, "BLTZAL">>, <<17, "BGEZAL">>}

Label(labels, v) == IF \E l \in labels : l[1] = v THEN (CHOOSE l \in labels : l[1] = v)[2] ELSE "RES"

\* The switch of runprogram.
InterpretedOp(hi, lo) ==
    LET first == Label(Normal, Op(hi))
    IN  CASE first = "SPECIAL" -> Label(Special, Funct(lo))
          [] first = "BCOND" -> Label(Bcond, Rt(hi))
          [] OTHER -> first

\* immed(i) of the interpreter and the disassembler.
Immed(lo) == IF (lo \div 32768) % 2 = 1 THEN lo - 65536 ELSE lo % 32768

\* The names the disassembler prints (opstrings.c).
normalops == <<
  "SPECIAL", "BCOND", "J", "JAL", "BEQ", "BNE", "BLEZ", "BGTZ",
  "ADDI", "ADDIU", "SLTI", "SLTIU", "ANDI", "ORI", "XORI", "LUI",
  "COP0", "COP1", "COP2", "COP3", "RES", "RES", "RES", "RES",
  "RES", "RES", "RES", "RES", "RES", "RES", "RES", "RES",
  "LB", "LH", "LWL", "LW", "LBU", "LHU", "LWR", "RES",
  "SB", "SH", "SWL", "SW", "RES", "RES", "SWR", "RES",
  "LWC0", "LWC1", "LWC2", "LWC3", "RES", "RES", "RES", "RES",
  "SWC0", "SWC1", "SWC2", "SWC3", "RES", "RES", "RES", "RES">>
specialops == <<
  "SLL", "RES", "SRL", "SRA", "SLLV", "RES", "SRLV", "SRAV",
  "JR", "JALR", "RES", "RES", "SYSCALL", "BREAK", "RES", "RES",
  "MFHI", "MTHI", "MFLO", "MTLO", "RES", "RES", "RES", "RES",
  "MULT", "MULTU", "DIV", "DIVU", "RES", "RES", "RES", "RES",
  "ADD", "ADDU", "SUB", "SUBU", "AND", "OR", "XOR", "NOR",
  "RES", "RES", "SLT", "SLTU", "RES", "RES", "RES", "RES",
  "RES", "RES", "RES", "RES", "RES", "RES", "RES", "RES",
  "RES", "RES", "RES", "RES", "RES", "RES", "RES", "RES">>
DisassembledOp(hi, lo) ==
    CASE <<hi, lo>> = <<0, 0>> -> "NOP"
      [] Op(hi) = 0 -> specialops[Funct(lo) + 1]
      [] Op(hi) = 1 -> Label(Bcond, Rt(hi))
      [] OTHER -> normalops[Op(hi) + 1]

\* The operands in the order in which they are printed: by the simulated
\* processor when it traces (opStrings) and by the disassembler (dump_ascii).
TracedOperands(op) ==
    CASE op \in {"ADD", "ADDU", "AND", "NOR", "OR", "SLT", "SLTU", "SUB", "SUBU", "XOR"} -> <<"rd", "rs", "rt">>
      [] op \in {"ADDI", "ADDIU", "ANDI", "ORI", "SLTI", "SLTIU", "XORI"} -> <<"rt", "rs", "extra">>
      [] op \in {"BEQ", "BNE"} -> <<"rs", "rt", "extra">>
      [] op \in {"BGEZ", "BGEZAL", "BGTZ", "BLEZ", "BLTZ", "BLTZAL"} -> <<"rs", "extra">>
      [] op \in {"DIV", "DIVU", "MULT", "MULTU"} -> <<"rs", "rt">>
      [] op \in {"J", "JAL"} -> <<"extra">>
      [] op \in {"JALR", "JR"} -> <<"rd", "rs">>
      [] op \in {"LB", "LBU", "LH", "LHU", "LW", "LWL", "LWR", "SB", "SH", "SW", "SWL", "SWR"} -> <<"rt", "extra", "rs">>
      [] op = "LUI" -> <<"rt", "extra">>
      [] op \in {"MFHI", "MFLO"} -> <<"rd">>
      [] op \in {"MTHI", "MTLO"} -> <<"rs">>
      [] op \in {"SLL", "SRA", "SRL"} -> <<"rd", "rt", "extra">>
      [] op \in {"SLLV", "SRAV", "SRLV"} -> <<"rd", "rt", "rs">>
      [] OTHER -> <<>>

PrintedSpecial(op) ==
    CASE op \in {"SLL", "SRL", "SRA"} -> <<"rd", "rt", "extra">>
      [] op \in {"SLLV", "SRLV", "SRAV"} -> <<"rd", "rt", "rs">>
      [] op \in {"JR", "JALR", "MFLO", "MTLO"} -> <<"rs">>
      [] op \in {"MFHI", "MTHI"} -> <<"rd">>
      [] op \in {"MULT", "MULTU", "DIV", "DIVU"} -> <<"rs", "rt">>
      [] op \in {"ADD", "ADDU", "SUB", "SUBU", "AND", "OR", "XOR", "NOR", "SLT", "SLTU"} -> <<"rd", "rs", "rt">>
      [] OTHER -> <<>>
PrintedNormal(op) ==
    CASE op \in {"J", "JAL"} -> <<"extra">>
      [] op \in {"BEQ", "BNE"} -> <<"rt", "rs", "extra">>
      [] op \in {"ADDI", "ADDIU", "SLTI", "SLTIU", "ANDI", "ORI", "XORI"} -> <<"rt", "rs", "extra">>
      [] op = "LUI" -> <<"rt", "extra">>
      [] op \in {"LB", "LH", "LWL", "LW", "LBU", "LHU", "LWR", "SB", "SH", "SWL", "SW", "SWR",
               "LWC0", "LWC1", "LWC2", "LWC3", "SWC0", "SWC1", "SWC2", "SWC3"} -> <<"rt", "extra", "rs">>
      [] OTHER -> <<>>
PrintedOperands(hi, lo) ==
    CASE Op(hi) = 0 -> PrintedSpecial(DisassembledOp(hi, lo))
      [] Op(hi) = 1 -> <<"rs", "extra">>
      [] OTHER -> PrintedNormal(DisassembledOp(hi, lo))
-----------------------------------------------------------------------------
VARIABLE word    \* the instruction that is decoded

\* Assembling an instruction from its fields.
Upper(op, rs, rt) == op * 1024 + rs * 32 + rt
Init == word = <<0, 0>>
Fetch == \E op \in 0 .. 63, rs \in Field5, rt \in 0 .. 31, lo \in Low16 : word' = <<Upper(op, rs, rt), lo>>
FetchSpecial == \E rd \in Field5, sh \in Field5, f \in 0 .. 63 : word' = <<0, rd * 2048 + sh * 64 + f>>
Next == word = <<0, 0>> /\ (Fetch \/ FetchSpecial)

Hi == word[1]
Lo == word[2]
Known(op) == op \notin {"RES", "UNIMP"}
Nop == word = <<0, 0>>    \* named by the disassembler, skipped by the interpreter

\* Where the processor knows an instruction, the interpreter and the
\* disassembler take the word for the same one (mipssim.h:117 and 141,
\* encode.h:11, opstrings.c:9).
TablesAgree ==
    Known(DecodedOp(Hi, Lo)) /\ ~Nop =>
        InterpretedOp(Hi, Lo) = DecodedOp(Hi, Lo) /\ DisassembledOp(Hi, Lo) = DecodedOp(Hi, Lo)

\* And they find the same numbers in it: the immediate is the signed number of
\* its sixteen bits (mipssim.cc:600, instr.h:16).
ImmediatesAgree == Op(Hi) \notin SpecialFormat \cup JumpFormat => Extra(Hi, Lo) = Immed(Lo)

\* The trace and the disassembler print the same operands in the same order,
\* but for JR, JALR, MFLO, MTHI and the comparing and one-register branches
\* (mipssim.h:162, d.c:46).
OperandsAgree ==
    Known(DecodedOp(Hi, Lo)) /\ ~Nop /\ DecodedOp(Hi, Lo) \notin {"JR", "JALR", "MFLO", "MTHI", "BEQ", "BNE", "BLEZ", "BGTZ"} =>
        TracedOperands(DecodedOp(Hi, Lo)) = PrintedOperands(Hi, Lo)

=============================================================================
