------------------------------ MODULE MCNexusVm -----------------------------
(***************************************************************************)
(* Images for checking the VM.  The registers are those that an instruction *)
(* here can name, and x18, x11, x12 of the system calls.                    *)
(***************************************************************************)
EXTENDS NexusVm

Inst(op, f, rd, rs1, rs2, imm) ==
    [op |-> op, f |-> f, rd |-> rd, rs1 |-> rs1, rs2 |-> rs2, imm |-> imm]
Alu(aop, rd, rs1, rs2) == Inst("ALU", aop, rd, rs1, rs2, 0)
Alui(aop, rd, rs1, imm) == Inst("ALUI", aop, rd, rs1, 0, imm)
Load(lop, rd, rs1, imm) == Inst("LOAD", lop, rd, rs1, 0, imm)
Store(sop, rs1, rs2, imm) == Inst("STORE", sop, 0, rs1, rs2, imm)
Br(bop, rs1, rs2, imm) == Inst("BR", bop, 0, rs1, rs2, imm)
Jal(rd, imm) == Inst("JAL", "-", rd, 0, 0, imm)
Jalr(rd, rs1, imm) == Inst("JALR", "-", rd, rs1, 0, imm)
Upper(op, rd, imm) == Inst(op, "-", rd, 0, 0, imm)
Plain(op) == Inst(op, "-", 0, 0, 0, 0)

Base == LineBytes                \* the code has a line of its own
Data == 3 * LineBytes            \* and so have the data

File(x1, x2, x10, x18) ==
    [r \in {0, 1, 2, 10, 11, 12, 18} |->
        CASE r = 0 -> 0 [] r = 1 -> x1 [] r = 2 -> x2 [] r = 10 -> x10
          [] r = 11 -> Data [] r = 12 -> 2 [] r = 18 -> x18]
Files(x1s, x2s) == {File(x1, x2, 0, 2) : x1 \in x1s, x2 \in x2s}

\* A program of at most eight instructions and the unimp that ends it.
Image(is, xs, datas) ==
    [code |-> [a \in {Base + 4 * k : k \in (0 .. 3) \cup DOMAIN is} |->
                  LET k == (a - Base) \div 4 + 1
                  IN  IF k \in DOMAIN is THEN is[k] ELSE Plain("UNIMP")],
     pc |-> Base, xs |-> xs, datas |-> datas, input |-> <<3>>]

-----------------------------------------------------------------------------
(* One instruction, on the operands at the edges of the word and of the     *)
(* signed word.                                                             *)

Edge == {0, 1, 6, Words \div 2 - 1, Words \div 2, Words \div 2 + 1, Words - 4, Words - 1}

Shifts == {"SLL", "SRL", "SRA"}

\* A shift's immediate is its shamt; the others are sign extended.
AluiImms(aop) == IF aop \in Shifts THEN 0 .. WordBits - 1 ELSE Edge

Binary == {Alu(aop, rd, 1, 2) : aop \in Aops, rd \in {0, 2}}
            \cup {Br(bop, 1, 2, imm) : bop \in Bops, imm \in {0, 6, 8, Words - 4}}
Unary == UNION {{Alui(aop, 10, 1, imm) : imm \in AluiImms(aop)} : aop \in Aops \ {"SUB"}}
           \cup {Jalr(rd, 1, imm) : rd \in {0, 1}, imm \in {2, 3, 20, Words - 2}}
Nullary == {Jal(rd, imm) : rd \in {0, 1}, imm \in {0, 6, 8, Words - 4}}
             \cup {Upper(op, rd, imm) : op \in {"LUI", "AUIPC"}, rd \in {0, 10}, imm \in Edge}
             \cup {Plain(op) : op \in {"FENCE", "UNIMP", "EBREAK"}}
Memory == {Load(lop, rd, 1, imm) : lop \in Lops, rd \in {0, 1}, imm \in {0, 1, Words - 2}}
            \cup {Store(sop, 1, 2, imm) : sop \in Sops, imm \in {0, 1, Words - 2}}

\* No data yet; bytes that differ in sign and position.
NoData == {<<>>}
Fill == NoData \cup {[o \in 1 .. LineBytes |->
    [at |-> Data + o - 1, byte |-> (5 * (o - 1) + (o - 1) \div 3 + 2) % BytesBase]]}

StepImages == UNION {
    {Image(<<i>>, Files(Edge, Edge), NoData) : i \in Binary},
    {Image(<<i>>, Files(Edge, {0}), NoData) : i \in Unary},
    {Image(<<i>>, Files({0}, {0}), NoData) : i \in Nullary},
    {Image(<<i>>, Files(Data .. Data + LineBytes - 1, {6, Words - 4}), Fill) : i \in Memory}}

-----------------------------------------------------------------------------
(* Three instructions, with every system call and a number that is none.    *)

Pool == {Alui("ADD", 1, 1, 12), Alu("SUB", 2, 1, 2), Store("SW", 1, 2, 0), Store("SB", 1, 10, 1),
         Load("LB", 10, 1, 1), Load("LW", 2, 1, 0), Br("BNE", 1, 2, Words - 4),
         Br("BLT", 10, 2, 8), Jal(2, 8), Plain("ECALL")}

Calls(is) == IF Plain("ECALL") \in {is[k] : k \in 1 .. 3} THEN {1, 2, 3, 5, 7} ELSE {1}
ProgramImages ==
    {Image(is, {File(Data, Words - 3, 1, call) : call \in Calls(is)}, NoData) :
        is \in [1 .. 3 -> Pool]}

-----------------------------------------------------------------------------
(* Four profiling calls with any labels, and calls with a buffer at the end *)
(* of memory.                                                               *)

MCLabels == [a \in Data .. Data + 3 |->
    [mark |-> IF a \in {Data, Data + 1} THEN "^" ELSE "$",
     fn |-> IF a \in {Data, Data + 3} THEN "f" ELSE "g"]]

Profiling(as) ==
    FlattenSeq([k \in DOMAIN as |-> <<Alui("ADD", 11, 0, as[k]), Plain("ECALL")>>])
ProfileImages == {Image(Profiling(as), {File(0, 0, 0, 5)}, NoData) :
                    as \in [1 .. 4 -> DOMAIN MCLabels]}
EndImages == {Image(<<Plain("ECALL")>>,
                    {[File(0, 0, 0, call) EXCEPT ![11] = a] :
                        call \in {1, 2, 3, 5}, a \in Words - 3 .. Words - 1},
                    NoData)}

TraceImages == StepImages \cup ProgramImages \cup ProfileImages \cup EndImages

-----------------------------------------------------------------------------
\* A breakpoint, and an unimp whose word names a register, with any value in a0.
BreakImages == {Image(<<i>>, {File(0, 0, x10, 2) : x10 \in Edge}, NoData) :
                  i \in {Plain("EBREAK"), Inst("UNIMP", "-", 10, 0, 0, 0)}}

=============================================================================
