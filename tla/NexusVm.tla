------------------------------- MODULE NexusVm ------------------------------
(***************************************************************************)
(* The Nexus VM and its tracer: eval_inst of vm/src/eval.rs, the system     *)
(* calls of syscalls.rs, and step, k_step and trace of trace.rs.            *)
(*                                                                         *)
(* A machine starts from an image: code, pc and input tape, with any of the *)
(* image's register files and data.                                         *)
(* Code is kept apart from the memory that loads and stores see, so a       *)
(* program does not write over itself, and the line that a path proves for    *)
(* an instruction is empty.  Text is left out: the label of a profiling call *)
(* is known by its address, and logs go nowhere.                             *)
(* Where Rust checks an addition or a subtraction in a debug build and wraps *)
(* in a release build, the step may fail or wrap.                            *)
(***************************************************************************)
EXTENDS StepCircuit, SequencesExt

CONSTANTS Images,       \* the images to run
          Labels,       \* the profiling labels by address: a mark and a function
          K,            \* instructions per block
          MaxTraceLen   \* max_trace_len

ASSUME TraceAssumption == K \in Nat \ {0} /\ MaxTraceLen \in Nat

\* An image has parsed code, the registers that the code names, a tape of
\* bytes, and data: bytes with their addresses.
ASSUME ImageAssumption ==
    \A image \in Images :
        /\ image.pc \in Word
        /\ image.input \in Seq(Byte)
        /\ \A a \in DOMAIN image.code : Parsed(image.code[a])
        /\ \A x \in image.xs :
              /\ x \in [DOMAIN x -> Word]
              /\ x[0] = 0
              /\ {0, 10, 11, 12, 18} \subseteq DOMAIN x
              /\ \A a \in DOMAIN image.code :
                    {image.code[a].rd, image.code[a].rs1, image.code[a].rs2} \subseteq DOMAIN x
        /\ \A data \in image.datas : data \in Seq([at : Word, byte : Byte])

\* A label starts a function or ends one.
ASSUME LabelAssumption == \A a \in DOMAIN Labels : Labels[a].mark \in {"^", "$"}

VARIABLES code,      \* the instruction words, by address
          regs,      \* Regs: pc and x
          mem,       \* the Merkle trie of cache lines
          input,     \* the private input tape
          output,    \* the output tape
          inst,      \* the instruction executed last
          traceLen,  \* trace_len
          cycleCount,    \* cycle_count
          cycleTracker,  \* cycle_tracker: a clock and a counter per function
          calls,         \* history: the profiling calls of each function
          block,     \* the block being filled: regs, root and steps
          count,     \* how many blocks the trace holds
          status     \* running, or how trace() ended

vars == <<code, regs, mem, input, output, inst, traceLen, cycleCount, cycleTracker, calls,
          block, count, status>>

\* init_memory stores the bytes of the segments one by one.
StoreByte(trie, a, byte) == UpdateTrie(trie, a, LineStore(LineAt(trie, a), "SB", a, byte))
InitMemory(data) ==
    LET m[k \in 0 .. Len(data)] ==
            IF k = 0 THEN EmptyTrie ELSE StoreByte(m[k - 1], data[k].at, data[k].byte)
    IN  m[Len(data)]

NewBlock == [regs |-> regs, root |-> Root(mem), steps |-> <<>>]

Init ==
    /\ \E image \in Images :
        /\ code = image.code
        /\ \E data \in image.datas : mem = InitMemory(data)
        /\ \E x \in image.xs : regs = [pc |-> image.pc, x |-> x]
        /\ input = image.input
    /\ output = <<>>
    /\ inst = "none"
    /\ traceLen = 0
    /\ cycleCount = 0
    /\ cycleTracker = <<>>
    /\ calls = <<>>
    /\ block = NewBlock
    /\ count = 0
    /\ status = "running"

-----------------------------------------------------------------------------
(* Memory::query and the accesses made of it.                               *)

Query(a) == LineAt(mem, a)

\* address..address + len: empty when the sum wraps.
LoadN(a, len) ==
    [k \in 1 .. IF a + len < Words THEN len ELSE 0 |-> Unsigned(Query(a + k - 1), a + k - 1, 1)]

-----------------------------------------------------------------------------
(* eval_inst.                                                               *)

\* The instruction at pc, translated; there is none where the fetch is
\* misaligned or the word does not parse.
Fetches == regs.pc % 4 = 0 /\ regs.pc \in DOMAIN code
Current == Translate(code[regs.pc])

GetReg(r) == IF r = 0 THEN 0 ELSE regs.x[r]
X(i) == GetReg(i.rs1)
Y(i) == GetReg(i.rs2)
Address(i) == Add32(X(i), i.imm)

\* Syscalls::syscall
SyscallCode == regs.x[18]
SyscallArgs == <<regs.x[11], regs.x[12]>>
SyscallZ ==
    CASE SyscallCode \in {1, 3} -> 0
      [] SyscallCode = 2 -> IF input = <<>> THEN Words - 1 ELSE Head(input)
      [] SyscallCode = 5 -> 5

\* handle_profile_cycles: "^" starts a function, "$" ends one that has started.
Label == Labels[SyscallArgs[1]]
CanProfile ==
    /\ SyscallArgs[1] \in DOMAIN Labels
    /\ Label.mark = "$" => Label.fn \in DOMAIN cycleTracker

\* As a bug would have it: every start, a recursive one too, sets the clock.
StartProfileRestart(f) ==
    (f :> [clk |-> cycleCount,
           counter |-> IF f \in DOMAIN cycleTracker THEN cycleTracker[f].counter + 1 ELSE 1])
      @@ cycleTracker
StartProfile(f) ==
    LET entry == IF f \in DOMAIN cycleTracker THEN cycleTracker[f]
                 ELSE [clk |-> cycleCount, counter |-> 0]
    IN  [g \in DOMAIN cycleTracker \cup {f} |->
            IF g = f THEN [entry EXCEPT !.counter = (@ + 1) % Words] ELSE cycleTracker[g]]

\* The clock becomes a duration when the outermost call ends.
EndProfile(f) ==
    LET counter == (cycleTracker[f].counter - 1) % Words
    IN  [cycleTracker EXCEPT ![f] =
            [clk |-> IF counter = 0 THEN cycleCount - @.clk ELSE @.clk, counter |-> counter]]

Profile == IF Label.mark = "^" THEN StartProfile(Label.fn) ELSE EndProfile(Label.fn)

\* The history takes down the mark and the clock that the call saw.
LogCall ==
    [f \in DOMAIN calls \cup {Label.fn} |->
        LET before == IF f \in DOMAIN calls THEN calls[f] ELSE <<>>
        IN  IF f = Label.fn THEN Append(before, [at |-> cycleCount, mark |-> Label.mark])
            ELSE before]

Cycles(i) ==
    CASE i.op \in {"LOAD", "STORE"} -> 3
      [] i.op = "BR" -> 2
      [] i.op \in {"LUI", "AUIPC", "JAL", "JALR", "ALUI", "ALU"} -> 1
      [] i.op \in {"ECALL", "EBREAK"} -> 4
      [] OTHER -> 0

\* The errors that eval_inst returns after the fetch.
Fails(i) ==
    \/ i.op \in {"LOAD", "STORE"} /\ ~Aligned(i.f, Address(i))
    \/ i.op = "ECALL" /\ SyscallCode \notin {1, 2, 3, 5}
    \/ i.op = "ECALL" /\ SyscallCode = 5 /\ ~CanProfile

\* Arithmetic that a debug build checks: the end of a buffer, and the counter
\* of a function that is not running.
Overflows(i) ==
    /\ i.op = "ECALL"
    /\ \/ SyscallCode \in {1, 3, 5} /\ SyscallArgs[1] + SyscallArgs[2] >= Words
       \/ /\ SyscallCode = 5
          /\ CanProfile
          /\ Label.mark = "$"
          /\ cycleTracker[Label.fn].counter = 0

RD(i) == IF i.op \in {"LUI", "AUIPC", "JAL", "JALR", "LOAD", "ALUI", "ALU", "ECALL"}
         THEN i.rd ELSE 0

ResultZ(i) ==
    CASE i.op = "LUI" -> i.imm
      [] i.op = "AUIPC" -> Add32(regs.pc, i.imm)
      [] i.op \in {"JAL", "JALR"} -> Add32(regs.pc, 4)
      [] i.op = "LOAD" -> LineLoad(Query(Address(i)), i.f, Address(i))
      [] i.op = "ALUI" -> AluOp(i.f, X(i), i.imm)
      [] i.op = "ALU" -> AluOp(i.f, X(i), Y(i))
      [] i.op = "ECALL" -> SyscallZ
      [] OTHER -> 0

\* The micro-architectural PC: zero stands for "not set".
TargetPC(i) ==
    CASE i.op = "JAL" -> Add32(regs.pc, i.imm)
      [] i.op = "JALR" -> Add32(X(i), i.imm)
      [] i.op = "BR" /\ BrOp(i.f, X(i), Y(i)) -> Add32(regs.pc, i.imm)
      [] i.op = "UNIMP" -> regs.pc
      [] OTHER -> 0

NextPC(i) == IF TargetPC(i) = 0 THEN Add32(regs.pc, 4) ELSE TargetPC(i)

\* set_reg
SetReg(r, val) == IF r # 0 THEN [regs.x EXCEPT ![r] = val] ELSE regs.x

Write(i) == IF i.op = "STORE"
            THEN UpdateTrie(mem, Address(i), LineStore(Query(Address(i)), i.f, Address(i), Y(i)))
            ELSE mem

\* The step of the trace, given the memory after it.  The paths come from the
\* memory as it is when they are made: before the store for the instruction
\* and the read, after it for the write.
TraceStep(i, after) ==
    [inst |-> i,
     Z |-> ResultZ(i),
     PC |-> IF NextPC(i) = Add32(regs.pc, 4) THEN <<>> ELSE <<NextPC(i)>>,
     pcProof |-> QueryPath(mem, regs.pc),
     readProof |-> IF i.op \in {"LOAD", "STORE"}
                   THEN <<QueryPath(mem, Address(i))>> ELSE <<>>,
     writeProof |-> IF i.op = "STORE"
                    THEN <<QueryPath(after, Address(i))>> ELSE <<>>]

-----------------------------------------------------------------------------
(* trace().                                                                 *)

Running == status = "running"
BlockFull == Len(block.steps) = K
LimitReached == MaxTraceLen <= traceLen

\* step(): one instruction, recorded in the block.  A ReadFromPrivateInput
\* takes the head of the tape, a WriteToOutput appends to the other one.
EvalInst ==
    /\ Running
    /\ ~BlockFull
    /\ ~LimitReached
    /\ Fetches
    /\ ~Fails(Current)
    /\ LET i == Current
           call == IF i.op = "ECALL" THEN SyscallCode ELSE 0
       IN  \E after \in {Write(i)} :
           /\ regs' = [pc |-> NextPC(i), x |-> SetReg(RD(i), ResultZ(i))]
           /\ mem' = after
           /\ input' = IF call = 2 /\ input # <<>> THEN Tail(input) ELSE input
           /\ output' = IF call = 3 THEN output \o LoadN(SyscallArgs[1], SyscallArgs[2]) ELSE output
           /\ cycleTracker' = IF call = 5 THEN Profile ELSE cycleTracker
           /\ calls' = IF call = 5 THEN LogCall ELSE calls
           /\ cycleCount' = cycleCount + Cycles(i)
           /\ inst' = i.op
           /\ block' = [block EXCEPT !.steps = Append(@, TraceStep(i, after))]
    /\ traceLen' = traceLen + 1
    /\ UNCHANGED <<code, count, status>>

\* An Err of eval_inst ends trace() without a result.
EvalFails ==
    /\ Running
    /\ ~BlockFull
    /\ LimitReached \/ (Fetches => Fails(Current) \/ Overflows(Current))
    /\ status' = "error"
    /\ UNCHANGED <<code, regs, mem, input, output, inst, traceLen, cycleCount, cycleTracker, calls,
                   block, count>>

\* The end of k_step.  The trace is over when the block ended in UNIMP and
\* the number of blocks is one less than a power of two.
TraceEndsAtAnyUnimp(blocks) == inst = "UNIMP"
TraceEnds(blocks) == inst = "UNIMP" /\ IsPowerOfTwo(blocks + 1) /\ blocks # 1

EndBlock ==
    /\ Running
    /\ BlockFull
    /\ count' = count + 1
    /\ IF TraceEnds(count + 1)
       THEN /\ status' = "done"
            /\ UNCHANGED block
       ELSE /\ block' = NewBlock
            /\ UNCHANGED status
    /\ UNCHANGED <<code, regs, mem, input, output, inst, traceLen, cycleCount, cycleTracker, calls>>

Next == EvalInst \/ EvalFails \/ EndBlock

Spec == Init /\ [][Next]_vars /\ WF_vars(Next)

-----------------------------------------------------------------------------
(* What has to be true of an execution, the trace of it and the circuit that *)
(* proves it.                                                                *)

\* The type invariant of the machine: words stay in range, x0 stays zero and
\* a block holds at most K steps.
TypeOK ==
    /\ regs.pc \in Word
    /\ \A r \in DOMAIN regs.x : regs.x[r] \in Word
    /\ regs.x[0] = 0
    /\ \A a \in Word : Query(a) \in Line
    /\ Len(block.steps) <= K
    /\ traceLen <= MaxTraceLen
    /\ status \in {"running", "error", "done"}

\* Iterating over the block: the witness of each step from the registers the
\* iterator has reached, and what it reaches after the last.
Replayed[n \in Nat] ==
    IF n = 0 THEN block.regs
    ELSE AfterWitness(Witness(Replayed[n - 1], block.steps[n]))
WitnessAt(n) == Witness(Replayed[n - 1], block.steps[n])

\* What programs have to keep to where the machine gets, for what is said of
\* witnesses and circuit to hold of any image.  The rd of an ebreak or an unimp
\* is zero already: the machine writes nothing there, the iterator zero.
BreaksPlain == Fetches /\ Current.op \in {"EBREAK", "UNIMP"} => GetReg(Current.rd) = 0

\* A fence names no registers: parse_opc extracts the fields, and the witness
\* has zero for them.
FencesPlain == Fetches /\ Current.op = "FENCE" => Current.rd = 0 /\ Current.rs1 = 0

\* Nothing jumps to address zero, which eval_inst takes for no jump at all.
Jumps(i) ==
    \/ i.op \in {"JAL", "JALR", "UNIMP"}
    \/ i.op = "BR" /\ BrOp(i.f, X(i), Y(i))
JumpsElsewhere == Fetches /\ Jumps(Current) => TargetPC(Current) # 0

\* The witnesses reconstructed from a block are those of the execution: the
\* iterator's registers after the block are the registers of the machine.
\* The next block begins with those of the machine, and the circuit's input
\* there is its output here.
ReplayFollowsVm == Replayed[Len(block.steps)] = regs

\* The circuit can be satisfied for every step the machine takes, and its
\* output vector is the state of the machine, memory commitment included.
CircuitAccepts ==
    LET n == Len(block.steps)
    IN  n > 0 => /\ Satisfies(WitnessAt(n))
                 /\ CircuitOutput(WitnessAt(n)) = [pc |-> regs.pc, x |-> regs.x, root |-> Root(mem)]

OnePerLeaf == {n * (LineBytes \div 2) : n \in 0 .. TwoTo[CACHE_LOG] - 1}

\* However the trie came about, update by update, the path that query makes
\* for an address of any leaf verifies against the root: no digest above a leaf is stale,
\* no node allocated on the way is left with a digest of its own.
PathsVerify ==
    \A a \in OnePerLeaf : Verify(QueryPath(mem, a), Root(mem), LineAt(mem, a))

\* How deep a function is after the first n of its calls.
Depth(cs, n) == LET marked(mark) == {k \in 1 .. n : cs[k].mark = mark}
                IN  Cardinality(marked("^")) - Cardinality(marked("$"))
OneCall(cs) == \A n \in 1 .. Len(cs) - 1 : Depth(cs, n) > 0

\* A function that was called once, recursively or around others, is shown
\* with the cycles from its outermost start to its outermost end, and with
\* the clock of that start until then.  However the calls are mixed, no clock
\* is ahead of the machine's: the subtraction of end_profile is safe.
ProfileIsElapsed ==
    \A f \in DOMAIN cycleTracker :
        LET cs == calls[f]
            depth == Depth(cs, Len(cs))
        IN  /\ cycleTracker[f].clk <= cycleCount
            /\ OneCall(cs) =>
                 cycleTracker[f] = [clk |-> IF depth = 0 THEN Last(cs).at - cs[1].at ELSE cs[1].at,
                                    counter |-> depth]

\* What the summary means to show: the cycles spent in all calls of a function
\* that has returned.  It does not hold of a function called again.
ProfileIsTotal ==
    \A f \in DOMAIN cycleTracker :
        LET cs == calls[f]
            starts == {n \in 1 .. Len(cs) : Depth(cs, n - 1) = 0}
            ends == {n \in 1 .. Len(cs) : Depth(cs, n) = 0}
            clocks(ns) == FoldSet(LAMBDA n, sum : sum + cs[n].at, 0, ns)
        IN  (\A n \in 1 .. Len(cs) : Depth(cs, n) >= 0) /\ cycleTracker[f].counter = 0
              => cycleTracker[f].clk = clocks(ends) - clocks(starts)

\* trace() ends on every program, and if it ends well the program has halted
\* and the number of blocks is one that the parallel provers accept, all of
\* them full.
TraceIsProvable ==
    <>(/\ status # "running"
       /\ status = "done" => /\ inst = "UNIMP"
                             /\ IsPowerOfTwo(count + 1)
                             /\ traceLen = K * count)

=============================================================================
