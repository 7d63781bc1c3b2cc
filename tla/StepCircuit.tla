----------------------------- MODULE StepCircuit ----------------------------
(***************************************************************************)
(* The step circuit of the VM, vm/src/circuit/riscv.rs, over the witnesses  *)
(* that vm/src/trace.rs reconstructs from a block.                          *)
(*                                                                         *)
(* The circuit computes a candidate result Z and a candidate program        *)
(* counter PC for every instruction, and constrains the witness to the      *)
(* candidates of the instruction selected by the opcode.  Field elements    *)
(* that are bit sums are written as the same bit sums over integers.        *)
(***************************************************************************)
EXTENDS MerkleTrie

-----------------------------------------------------------------------------
(* parse_alt and BlockIter::next: the witness of a step.                    *)

\* A step of a block holds the instruction word, Z, PC and the three memory
\* proofs, paths of the Merkle trie.  The registers are the iterator's own.
WitnessRdNoEcall(w) == IF w.op \in {"BR", "STORE", "FENCE", "ECALL"} THEN 0 ELSE w.rd
WitnessRd(w) == IF w.op \in {"BR", "STORE", "FENCE"} THEN 0 ELSE w.rd
WitnessRs1(w) == IF w.op \in {"JALR", "BR", "LOAD", "STORE", "ALUI", "ALU"} THEN w.rs1 ELSE 0
WitnessRs2(w) == IF w.op \in {"BR", "STORE", "ALU"} THEN w.rs2 ELSE 0

Witness(regs, s) ==
    LET w == s.inst
        imm == IF HasImm(w.op) THEN w.imm ELSE 0
        y == regs.x[WitnessRs2(w)]
        readProof == IF s.readProof = <<>> THEN s.pcProof ELSE s.readProof[1]
    IN  [regs |-> regs, inst |-> w,
         rd |-> WitnessRd(w), rs1 |-> WitnessRs1(w), rs2 |-> WitnessRs2(w),
         I |-> imm, X |-> regs.x[WitnessRs1(w)], Y |-> y, Z |-> s.Z,
         shamt |-> CASE w.op = "ALUI" -> imm % WordBits
                     [] w.op = "ALU" -> y % WordBits
                     [] OTHER -> 0,
         PC |-> IF s.PC = <<>> THEN Add32(regs.pc, 4) ELSE s.PC[1],
         pcProof |-> s.pcProof,
         readProof |-> readProof,
         writeProof |-> IF s.writeProof = <<>> THEN readProof ELSE s.writeProof[1]]

\* The registers BlockIter goes on with.
AfterWitness(w) ==
    [pc |-> w.PC,
     x |-> IF w.rd > 0 THEN [w.regs.x EXCEPT ![w.rd] = w.Z] ELSE w.regs.x]

-----------------------------------------------------------------------------
(* Gadgets.                                                                 *)

\* add_cir: the sum with the overflow taken off by the advice bit.
AddCir(x, y) == x + y + (IF x + y >= Words THEN -Words ELSE 0)

\* sub_cir: the difference and the condition flags made from it.
SubCir(x, y) ==
    LET lt == IF x < y THEN 1 ELSE 0
        ds == Bit(x, WordBits - 1) + Bit(y, WordBits - 1)
                - 2 * Bit(x, WordBits - 1) * Bit(y, WordBits - 1)
        slt == ds * (1 - lt) + (1 - ds) * lt
        z == x - y + Words * lt
    IN  [Z |-> z, LT |-> lt, GE |-> 1 - lt, SLT |-> slt, SGE |-> 1 - slt,
         EQ |-> IF z = 0 THEN 1 ELSE 0, NE |-> IF z = 0 THEN 0 ELSE 1]

\* shift_left and shift_right: the output for every amount, one selected.
ShiftLeft(x, amt) == BitSum([b \in AllBits |-> IF b >= amt THEN Bit(x, b - amt) ELSE 0])
ShiftRight(x, amt, sign) ==
    BitSum([b \in AllBits |-> IF b + amt < WordBits THEN Bit(x, b + amt) ELSE sign])

\* bitops: or and xor are x + y adjusted by a multiple of the bit of the and.
BitOp(x, y, adj) ==
    BitSum([b \in AllBits |-> Bit(x, b) + Bit(y, b) + adj * Bit(x, b) * Bit(y, b)])

AluCircuit(aop, x, y, shamt) ==
    CASE aop = "ADD" -> AddCir(x, y)
      [] aop = "SUB" -> SubCir(x, y).Z
      [] aop = "SLT" -> SubCir(x, y).SLT
      [] aop = "SLTU" -> SubCir(x, y).LT
      [] aop = "SLL" -> ShiftLeft(x, shamt)
      [] aop = "SRL" -> ShiftRight(x, shamt, 0)
      [] aop = "SRA" -> ShiftRight(x, shamt, Bit(x, WordBits - 1))
      [] aop = "AND" -> BitSum([b \in AllBits |-> Bit(x, b) * Bit(y, b)])
      [] aop = "OR" -> BitOp(x, y, -1)
      [] aop = "XOR" -> BitOp(x, y, -2)

\* branch: the flag selects between the two program counters.
BranchFlag(bop, x, y) ==
    LET s == SubCir(x, y)
    IN  CASE bop = "BEQ" -> s.EQ [] bop = "BNE" -> s.NE
          [] bop = "BLT" -> s.SLT [] bop = "BGE" -> s.SGE
          [] bop = "BLTU" -> s.LT [] bop = "BGEU" -> s.GE

\* load_select: the half of the line an address bit chooses is cut into
\* elements of the access width, and the address bits choose one.
LoadSelect(line, a, size) ==
    LET half == LineBytes \div 2
        base == IF (a \div half) % 2 = 1 THEN half ELSE 0
    IN  LittleEndian(line, base + size * ((a % half) \div size), size)

\* sx8 and sx16
SignExtend(val, size) ==
    LET sb == IF val >= ByteValues(size) \div 2 THEN 1 ELSE 0
        sv == val % (ByteValues(size) \div 2)
    IN  sv + sb * (Words - ByteValues(size) \div 2)

-----------------------------------------------------------------------------
(* The step.                                                                *)

\* Z[J], the candidate of the selected instruction.  The one of an ecall is
\* advice.
CircuitZ(w) ==
    LET i == w.inst
        read == LoadSelect(w.readProof.leaf, AddCir(w.X, w.I), SizeOf(i.f))
    IN  CASE i.op = "LUI" -> w.I
          [] i.op = "AUIPC" -> AddCir(w.regs.pc, w.I)
          [] i.op \in {"JAL", "JALR"} -> AddCir(w.regs.pc, 4)
          [] i.op = "LOAD" -> IF i.f \in {"LB", "LH"} THEN SignExtend(read, SizeOf(i.f)) ELSE read
          [] i.op = "ALUI" -> AluCircuit(i.f, w.X, w.I, w.shamt)
          [] i.op = "ALU" -> AluCircuit(i.f, w.X, w.Y, w.shamt)
          [] i.op = "ECALL" -> w.Z
          [] OTHER -> 0

\* PC[J]
CircuitPC(w) ==
    LET i == w.inst
    IN  CASE i.op = "JAL" -> AddCir(w.regs.pc, w.I)
          [] i.op = "JALR" -> AddCir(w.X, w.I)
          [] i.op = "BR" -> LET c == BranchFlag(i.f, w.X, w.Y)
                            IN  c * AddCir(w.regs.pc, w.I) + (1 - c) * AddCir(w.regs.pc, 4)
          [] i.op = "UNIMP" -> w.regs.pc
          [] OTHER -> AddCir(w.regs.pc, 4)

\* parse_opc: the register fields as the constraints extract them.
CircuitRd(i) == IF i.op \in {"BR", "STORE"} THEN 0 ELSE i.rd
CircuitRs1(i) == IF i.op \in {"LUI", "AUIPC", "JAL", "ECALL", "EBREAK", "UNIMP"} THEN 0 ELSE i.rs1
CircuitRs2(i) == IF i.op \in {"BR", "STORE", "ALU"} THEN i.rs2 ELSE 0

\* parse_shamt: the low bits of the immediate or of Y.
CircuitShamt(w) ==
    CASE w.inst.op = "ALUI" -> w.inst.imm % WordBits
      [] w.inst.op = "ALU" -> w.Y % WordBits
      [] OTHER -> 0

\* store_word, store_half and store_byte: the line written holds the low
\* bytes of Y at the address.
StoreHolds(w) ==
    w.inst.op = "STORE" =>
        LET size == SizeOf(w.inst.f)
        IN  LoadSelect(w.writeProof.leaf, AddCir(w.X, w.I), size) = w.Y % ByteValues(size)

\* add_memory_proofs: instruction and read are proved against the memory the
\* step begins with, the write against the one it ends with.
MemoryProofsHold(w) ==
    /\ Verify(w.pcProof, w.pcProof.root, w.pcProof.leaf)
    /\ Verify(w.readProof, w.pcProof.root, w.readProof.leaf)
    /\ Verify(w.writeProof, w.writeProof.root, w.writeProof.leaf)

\* The witness satisfies the constraints.
Satisfies(w) ==
    /\ w.rd = CircuitRd(w.inst)
    /\ w.rs1 = CircuitRs1(w.inst)
    /\ w.rs2 = CircuitRs2(w.inst)
    /\ w.shamt = CircuitShamt(w)
    /\ w.Z = CircuitZ(w)
    /\ w.PC = CircuitPC(w)
    /\ StoreHolds(w)
    /\ MemoryProofsHold(w)

\* The output vector, select_Z included: program counter, registers, memory.
CircuitOutput(w) ==
    [pc |-> w.PC,
     x |-> [r \in DOMAIN w.regs.x |-> IF r # 0 /\ r = w.rd THEN w.Z ELSE w.regs.x[r]],
     root |-> w.writeProof.root]

=============================================================================
