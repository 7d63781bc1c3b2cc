-------------------------------- MODULE Rv32 --------------------------------
(***************************************************************************)
(* Words, instructions and cache lines of the Nexus VM: vm/src/rv32.rs,     *)
(* rv32/parse.rs, the operations of eval.rs and memory/cacheline.rs.        *)
(*                                                                         *)
(* The width of a byte is a parameter.  A word is four bytes and a cache    *)
(* line LineBytes of them; the code has 8 bits and 32 bytes.                *)
(*                                                                         *)
(* An instruction is the record of the fields of its 32-bit word: op names  *)
(* the opcode, f the function bits, and imm is the immediate of its format. *)
(***************************************************************************)
EXTENDS PowersOfTwo

CONSTANTS ByteBits,    \* bits of a byte, a power of two
          LineBytes    \* bytes of a cache line, a power of two

ASSUME WidthAssumption ==
    /\ ByteBits \in Nat \ {0}
    /\ LineBytes \in Nat /\ LineBytes >= 8 /\ IsPowerOfTwo(LineBytes)
    /\ LineBytes <= TwoTo[4 * ByteBits]

WordBits == 4 * ByteBits
Words == TwoTo[WordBits]         \* the modulus of word arithmetic
ByteValues(n) == TwoTo[n * ByteBits]     \* the number of values of n bytes
BytesBase == ByteValues(1)

Word == 0 .. Words - 1
Byte == 0 .. BytesBase - 1
Line == [0 .. LineBytes - 1 -> Byte]

Add32(a, b) == (a + b) % Words
Sub32(a, b) == (a - b) % Words
AsI32(a) == IF a >= Words \div 2 THEN a - Words ELSE a

-----------------------------------------------------------------------------
(* Operations.                                                              *)

BrOpUnsigned(bop, x, y) ==
    CASE bop = "BEQ" -> x = y
      [] bop = "BNE" -> x # y
      [] bop \in {"BLT", "BLTU"} -> x < y
      [] bop \in {"BGE", "BGEU"} -> x >= y
BrOp(bop, x, y) ==
    CASE bop = "BEQ" -> x = y
      [] bop = "BNE" -> x # y
      [] bop = "BLT" -> AsI32(x) < AsI32(y)
      [] bop = "BGE" -> AsI32(x) >= AsI32(y)
      [] bop = "BLTU" -> x < y
      [] bop = "BGEU" -> x >= y

BoolToWord(b) == IF b THEN 1 ELSE 0

\* The bitwise operators of Rust: F, a truth table, of each two bits.
Powers == [i \in 0 .. WordBits |-> TwoTo[i]]
AllBits == 0 .. WordBits - 1
Bit(x, i) == (x \div Powers[i]) % 2
BitSum(bit) ==
    LET z[n \in 0 .. WordBits] == IF n = 0 THEN 0 ELSE z[n - 1] + Powers[n - 1] * bit[n - 1]
    IN  z[WordBits]
BitWise(F, x, y) == BitSum([b \in AllBits |-> F[Bit(x, b)][Bit(y, b)]])
And == [a \in {0, 1} |-> [b \in {0, 1} |-> a * b]]
Or == [a \in {0, 1} |-> [b \in {0, 1} |-> a + b - a * b]]
Xor == [a \in {0, 1} |-> [b \in {0, 1} |-> (a + b) % 2]]

AluOp(aop, x, y) ==
    LET shamt == y % WordBits
    IN  CASE aop = "ADD" -> Add32(x, y)
          [] aop = "SUB" -> Sub32(x, y)
          [] aop = "SLT" -> BoolToWord(AsI32(x) < AsI32(y))
          [] aop = "SLTU" -> BoolToWord(x < y)
          [] aop = "SLL" -> (x * Powers[shamt]) % Words
          [] aop = "SRL" -> x \div Powers[shamt]
          [] aop = "SRA" -> (AsI32(x) \div Powers[shamt]) % Words
          [] aop = "AND" -> BitWise(And, x, y)
          [] aop = "OR" -> BitWise(Or, x, y)
          [] aop = "XOR" -> BitWise(Xor, x, y)

-----------------------------------------------------------------------------
(* Instructions.                                                            *)

\* translate_nexus: a plain ecall or ebreak gets the register a0 as its rd.
Translate(w) == IF w.op \in {"ECALL", "EBREAK"} /\ w.rd = 0 THEN [w EXCEPT !.rd = 10] ELSE w

Opcodes == {"LUI", "AUIPC", "JAL", "JALR", "BR", "LOAD", "STORE", "ALUI", "ALU",
            "FENCE", "ECALL", "EBREAK", "UNIMP"}
Aops == {"ADD", "SUB", "SLT", "SLTU", "SLL", "SRL", "SRA", "AND", "OR", "XOR"}
Bops == {"BEQ", "BNE", "BLT", "BGE", "BLTU", "BGEU"}
Lops == {"LB", "LH", "LW", "LBU", "LHU"}
Sops == {"SB", "SH", "SW"}

\* What parse_u32 makes of a word: an opcode, the function bits that go with
\* it, register numbers and a sign-extended immediate.  The register fields
\* are those of the word, also where the opcode has no use for them.
Parsed(i) ==
    /\ i \in [op : Opcodes, f : Aops \cup Bops \cup Lops \cup Sops \cup {"-"},
              rd : Nat, rs1 : Nat, rs2 : Nat, imm : Word]
    /\ i.op \in {"ALU", "ALUI"} => i.f \in Aops
    /\ i.op = "BR" => i.f \in Bops
    /\ i.op = "LOAD" => i.f \in Lops
    /\ i.op = "STORE" => i.f \in Sops

HasImm(op) == op \in {"LUI", "AUIPC", "JAL", "JALR", "BR", "LOAD", "STORE", "ALUI"}

-----------------------------------------------------------------------------
(* Cache lines: functions from offsets to bytes.                            *)

ZeroLine == [o \in 0 .. LineBytes - 1 |-> 0]

\* The bytes an access covers, and the alignment the accessors insist on.
SizeOf(f) == CASE f \in {"LB", "LBU", "SB"} -> 1
               [] f \in {"LH", "LHU", "SH"} -> 2
               [] f \in {"LW", "SW"} -> 4
Aligned(f, a) == a % SizeOf(f) = 0

\* The number that the bytes from o on stand for, the lowest first.
LittleEndian(line, o, size) ==
    CASE size = 1 -> line[o]
      [] size = 2 -> line[o] + BytesBase * line[o + 1]
      [] size = 4 -> line[o] + BytesBase * (line[o + 1]
                         + BytesBase * (line[o + 2] + BytesBase * line[o + 3]))

\* lbu, lhu and lw: the element of the union's array.
Unsigned(line, a, size) == LittleEndian(line, a % LineBytes, size)

\* CacheLine::load, with the sign extension of lb and lh.
LineLoad(line, lop, a) ==
    LET val == Unsigned(line, a, SizeOf(lop))
        top == ByteValues(SizeOf(lop))
    IN  IF lop \in {"LB", "LH"} /\ val >= top \div 2 THEN Words - top + val ELSE val

\* CacheLine::store: the low bytes of the value.
LineStore(line, sop, a, val) ==
    LET o == a % LineBytes
    IN  [p \in DOMAIN line |-> IF p \in o .. o + SizeOf(sop) - 1
                               THEN (val \div ByteValues(p - o)) % BytesBase
                               ELSE line[p]]

=============================================================================
