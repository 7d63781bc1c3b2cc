# A TLA+ model of the Nexus zkVM

The Nexus zkVM runs a RISC-V program on a small virtual machine, records a
trace, turns every step of the trace into a constraint system and proves the
steps with recursive arguments: one after the other (incrementally verifiable
computation, IVC), as a tree on one machine (proof-carrying data, PCD, and the
parallel tree folder), or as a tree over a network.  The modules here model
the parts that carry control and state - the tree folder's threads, the PCD
trees and their provers, the proving network, the machine with its memory,
tracer and step circuit - and the arguments themselves over small fields: IVC
sessions, folding, the Spartan prover and verifier, and the card shuffles.  TLC
checks them on small instances; TLAPS proves what is
listed under "Proofs" for every value of the constants.

`PROJECT.json` holds the map from every definition to the source lines it
models, the runs, a mutation of the model for every property, the findings, the
hazards the properties were written for, and the theorems.  Paths below are
relative to the repository.

## 1. Inventory

| Component | State it keeps | Operations | Talks to |
|---|---|---|---|
| Parallel tree folder, `nova/src/parallel_tree` | a heap of atomic task words and buffer ids, a pool of blocks with a free list, two bounded queues per worker, a stop word | `run`, the producer, `worker_main_loop`, `process_leaf_input`, `process_ready_inner_node`, `notify_parent`, `get_root_result` | a `FoldReducer` (leaf conversion, fold) |
| PCD nodes, `nova/src/circuits/nova/pcd` | a node: step range, states at both ends, folded instances | `prove_leaf`, `prove_parent`, `verify`, `compress`, `build_binary_pcd_tree` | Nova folding, the step circuit, the caller's `compute_step` |
| Parallel prover, `core/src/prover/nova`, `cli/src/command/prove.rs` | the vector of nodes of a level, the progress label | `prove_par`, `local_prove` | PCD nodes, the trace |
| Proving network, `network/src` | a database of proofs, channels of work, connections | `Program` and `Query` requests, `manage_proof`, the local threads, the proxies of connected nodes | PCD nodes, the trace |
| Virtual machine, `vm/src` | pc, registers, memory, input and output tapes, profiler | `eval_inst`, system calls, `step`, `k_step`, `trace` | memory, step circuit |
| Step circuit, `vm/src/circuit` | none (a relation) | `parse_alt`, `big_step`, R1CS gadgets | trace, Nova |
| Merkle trie memory, `vm/src/memory/{trie,path}.rs` | populated nodes with digests, cache lines | `query`, `update`, path verification | machine, step circuit |
| Sequential Nova, SuperNova, HyperNova, `nova/src/circuits` | an `IVCProof`: running and fresh instance per circuit, secondary accumulators, step counter | `new`, `prove_step`, `verify` | CycleFold, step circuit |
| Folding, R1CS, CCS, `nova/src/{folding,r1cs,ccs,gadgets}` | none (algebra) | `prove`, `verify` and gadget of every fold, sum-check, linearization | all recursive provers |
| Tree folding and Mangrove, `nova/src/tree_folding` | the level of accumulators of a tree, the chain's products | `FoldDriver`, the reducers, the fold circuits, the SHA-256 chain builder | parallel tree folder, CCS |
| Shuffling, `nova/src/shuffling` | keys, an encrypted deck, shares, witness rows of a deck per level | key setup, both shuffles, dealing, opening | R1CS, Groth16 |
| Spartan fork, `spartan/src` | transcripts of prover and verifier | `Instance::new`, `NIZK`, `SNARK`, committed relaxed proofs, Spark, Zeromorph | Nova's compression |
| SDK, CLI, configuration, guest runtime, macros, Jolt adapter | none of their own that matters here | files, environment, assembly, conversion | |

**What is hard here.**  The tree folder is lock-free: task words change by
compare-exchange, ids of blocks are loaded in a step of their own, `claim` hands
out a block by number without asking who owns it, a push onto a full queue is
ignored, and errors are undone in several steps that other threads can observe.
The network hands work to whoever asks first, including a proxy whose
connection is gone.  The PCD builders depend on powers of two, padding and
index arithmetic.  The tracer keeps a compressed step from which a witness is
rebuilt later, by other code than the one that executed it.  The arguments
write the same computation two or three times - prover, verifier, gadget - and
one absorb, one power of a challenge or one padding that differs shows only for
some shapes or several steps later.  Shares of a card travel apart and are lost
or repeated.  Each of these is a line of the hazard list.

**What makes each part correct.**  Tree folder: one owner per block, a
published result is the fold of its own subtree and stays so, no node is lost
or folded twice, `run` returns the fold of everything.  PCD: a root verifies
and its range is the whole computation.  Network: work is in one place, a
stored proof is whole and stays, jobs come to an end.  Machine: the trace
replays to the machine's own state, the circuit accepts exactly it and the
memory's paths verify.  IVC: an honest session verifies, and what verifies is
the computation it names.  Folding: what is folded stays satisfied, prover,
verifier and circuit fold to the same, a wrong instance is accepted only when
the challenges hide it.  Spartan: the same, with transcripts in step.
Shuffling: the deck keeps its cards and a player sees the card dealt.

## 2. Modules and how they correspond to the code

### Parallel tree folder

* `TaskHeap` - the index arithmetic of `task.rs`: leaves are the last
  `NumLeaves` entries of a heap, the root is 0.
* `ParallelTree` - the threads.  `pc[w]` is the line of worker `w` and every
  atomic load, store, compare-exchange, queue or pool operation is one action,
  named after the method (`LeafStartProcessing`, `GotFirstChild`,
  `StartConsuming`, `ReleaseRight`, ...).  `state` and `bufferId` are the two
  words of a `Task`, `slot` and `free` the `BlockPool`, `readyQ` and `leafQ` the
  queues of a `WorkerHandle`; `producer` and `main` are the other two threads.
  An accumulator is symbolic: the value `t` is "the fold of the subtree of task
  t", so a swapped, skipped or repeated fold gives `Garbage` or a wrong value.
* `FoldTree` - the abstract specification, what `run` promises its caller:
  leaves converted once, nodes folded once and after their children, then one
  answer.  `ParallelTreeProps` holds the refinement mapping.
* `ParallelTreeProps` - properties, then the layers of the inductive invariant.
  `ParallelTreeProofs` - the proofs, one part per layer.

Choices: atomics are sequentially consistent (the code uses Acquire/Release and
AcqRel throughout; weak-memory behaviour is outside TLA+).  `free` under the
slot's mutex is one step.  Both failing branches of a compare-exchange that can
only fail by a bug raise the same error; `OnlyReducerErrors` says they are never
taken.  `DropRoot` contains `Scheduler::stop`, which at that point stores the
value that is already there.

### PCD trees and the parallel prover

* `PcdNode` - a node claims "steps i to j - 1 take z_i to z_j"; `sat` is whether
  every circuit folded into it is satisfied, which is what `verify` finds out
  when the commitments and the random oracle are ideal.  `Links` are the
  equalities the augmented circuit enforces between siblings.
* `PcdTree` - each loop of `build_binary_pcd_tree`, one turn per
  action, over any step circuit and any `compute_step`: the states come from the
  caller's closure, the proofs from the circuit, and nothing ties the two.
  `PcdTreeProofs` - its proofs.
* `ProvePar` - the two provers that fold the blocks of a trace, with the number
  of blocks `trace()` gives and the label of the progress display.
  `ProveParProofs` - its proofs.
* `PowersOfTwo` - 2^e as a function and Rust's `ilog2`, `is_power_of_two` and
  `next_power_of_two`, for these modules and the network.  `NatLemmas` - what is
  proved about them.

### Proving network

* `ProofNetwork` - the coordinator.  A tokio task is a `task[t]` that sends its
  work, waits for a oneshot and ends or panics; `pcdQ` and `msmQ` are the
  channels; `local`, `msm` are the threads `local_pcd` and `local_msm`;
  `proxy[p]`, `held[p]` are `chan_to_net` of the connection of peer `p`.  The
  handler's work (database entry, tasks, answer) is one step: the entry is made
  before the first task is spawned, and spawning the rest and answering commute
  with what the first tasks do.
  `ProofNetworkProofs` - its proofs.

A connected node runs the same code and is reduced to "answers, or its
connection breaks".  A `Query` request only reads and has no action.  External
to the repository and modelled from its use: tokio's scheduling, channels and
oneshots, and the HTTP upgrade.

### Virtual machine, tracer, step circuit

* `Rv32` - word arithmetic, ALU, branches, loads and stores on a cache line, for
  bytes and lines of any width.  Rust's `&`, `|` and `^` are the truth table of
  the operator applied to each pair of bits (`BitWise`).
* `MerkleTrie` - the trie with the digests its nodes keep, `query`, `update`,
  the default digests, and `verify` of a path.  The hash is ideal.
* `StepCircuit` - the witness `parse_alt` rebuilds from a block (`Witness`,
  `AfterWitness`), and the circuit's candidates and selections (`CircuitZ`,
  `CircuitPC`, `StoreHolds`, `Satisfies`, `CircuitOutput`), bit by bit where
  the circuit works on bits, and the three memory proofs (`MemoryProofsHold`).
* `NexusVm` - `EvalInst` is one turn of `eval_inst` with the
  step recorded and the profiler's table kept, `EvalFails` its error paths,
  `EndBlock` the block and trace loop.  `calls` is a history variable, the
  profiling calls of each function.  Memory begins as `init_memory` makes it, one
  byte store after another (`InitMemory`).  Where a debug build panics on overflow and a release build wraps (the end of a buffer
  passed to a system call, the profiler's counter) both steps are possible.
  `NexusVmProofs` - the proofs about machine, trie, replay and profiler.

Bytes have `ByteBits` bits and words four of them: with two bits a word has
256 values and every edge (sign, carry, shift amounts up to the width, sizes)
is still there.  Images start in mid-program with arbitrary registers, as any
state between two instructions can be.  Code has lines of its own, so a program
does not overwrite itself, and the leaf a path proves for an instruction is
empty.  A store never fails in `update`: the `load` before it has already
checked the alignment.  The bit layout of immediates is not modelled: an instruction is
a record.

### Arguments over a small field

Field and group arithmetic come from arkworks and are external.  A field of P
elements stands for the scalar field; a group element is its vector of
coordinates over the generators, so that commitments are homomorphic and
binding and nothing else.  A sponge or transcript answers with seeds from a
small set; equal transcripts get equal answers.

* `Field`, `MlPoly` - the field, vectors, multilinear tables, equality
  polynomials, interpolation of round polynomials.
* `Nizk`, `Sumcheck`, `SparsePoly`, `Zeromorph` - the parts of Spartan: sigma
  protocols and the inner-product opening, the sum-checks in the clear and
  committed, Spark's product circuits with timestamps, the other commitment.
* `SpartanInstance` - instances, their padding and their satisfaction.
* `SpartanProof` - a session.  Prover and verifier are two processes over the
  stages of the protocol (`phase1`, `phase2`, `evals`, `product`, ...), each with
  its own transcript.  A transcript is the calls made on it, one by one: appends
  with their labels and values, and requests for challenges.  `ProverCalls` and `VerifierCalls`, and the
  operators of `Nizk`, `Sumcheck` and `SparsePoly` below them, are two
  translations, one of each side's code; the verifier's are made of what the
  verifier computes itself, its sizes and loop bounds included.  `oracle`
  remembers what was answered to which transcript.  `SpartanProofs` - the proof
  that a session is well typed.
* `Ccs`, `CcsFold` - R1CS, CCS and the linearized forms, their satisfaction and
  folds; the proofs of linearization and of the three folds, the atomic form,
  and the circuits that check them.
* `Mangrove` - a hash chain cut into leaves, the leaf circuit's products.  The
  compression function is an arbitrary map.
* `FoldSession` - sessions that fold, one proof after another, each verified
  natively and in the circuit: free folding, `FoldDriver`'s tree, Mangrove.
* `CycleFold` - the folds on two curves with their traces: prover, verifier and
  gadget of Nova's, the relaxed and HyperNova's NIMFS.
* `Ivc` - `new`, `prove_step`, `verify` of the three sequential schemes with the
  augmented circuit, and stored proofs that are reloaded whole or mixed.  The
  circuit keeps the row of the step, the row of the output hash and one row that
  is satisfied when every equality the circuit enforces holds.
* `PcdProof` - PCD nodes with the instances they carry: leaves, parents with
  their three folds and the augmented circuit, `verify`, and the compressed
  proof with its conversion to a `SpartanInstance`.  The Spartan proof itself is
  ideal here: it is accepted when its witness satisfies the converted instance.
  `NodeKeepsPromise` instantiates `PcdNode` and says that its one bit is what
  these folds come to, so the tree, prover and network models rest on it.

### Shuffling

* `RsShuffle` - split bits from a sponge, the partition of each level with its
  witness rows, and the constraints on the rows.
* `CardTable` - a committee draws keys, shuffles by either method, deals and
  opens.  Points are discrete logarithms modulo Q.  The order of the calls is
  the tests', no code under `src` fixes it; shares may be lost, repeated or
  another player's.  The end of the module states its inductive invariant
  `CardInv` and what it records of the last shuffle, `ProofRight`, and
  `CardTableProofs` proves both.

## 3. Runs

| Run | Question | Bounds, and why they are enough |
|---|---|---|
| `tree_workers` | Do the threads implement `FoldTree`, with liveness, and does the back-pressure loop end? | 8 leaves, 2 workers: three levels, nodes whose children belong to different workers.  Queue capacity 1, so queues fill; 5 blocks, the least that cannot starve both workers. |
| `tree_failures` | Are blocks and tasks safe when the reducer fails anywhere? | 4 leaves over 3 workers: chunks cut across subtrees, a node's children finish on different workers.  3 blocks, so `alloc` waits.  A failure is possible at every conversion and fold. |
| `tree_reducer_error` (violation) | Does `run` return when the reducer fails? | Two leaves, two workers. |
| `pcd_tree` | Does the builder end with a root that verifies exactly when the circuit goes on as the padded states do, and is that root of the steps it names? | 1 to 16 steps, at and around the powers of two, for a machine that counts and halts after 8: below 8 the computation goes on where the padding stands still (n = 7 as in the repository's test), from 8 on it has stopped. |
| `prove_par` | Is the trace folded to one node and the label right? | Programs of 1 to 40 blocks, traces of 3 to 63. |
| `network` | Is work in one place, a stored proof whole and kept, and does every accepted job come to an end, also when a connection or a local proof fails? | Four requests (two for one program, one for an ELF that does not run, one to a path nobody serves), a tree of two leaves each, one PCD and one MSM peer, one fault: enough to lose the peer or the local thread at any point. |
| `network_trace_length` (violation) | Is a proof served with the trace lengths `trace()` gives? | One program of three blocks. |
| `vm_traces` | Do machine, replayed witness and circuit agree, does every path of the memory verify, does tracing end as the provers need, and does the profiler measure? | Every instruction on eight operands at the edges of the word; all 1000 programs of three instructions from a pool, those with a system call under five call numbers; all 256 sequences of four profiling calls of two functions; buffers at the end of memory; two instructions per block; a trie of 16 leaves. |
| `spartan` | Do prover and verifier stay in step, and is a proof accepted exactly when it should be? | P = 7.  Instances of one, two, three and four rows (padding to two and four), with right and wrong witnesses, as NIZK, SNARK and relaxed; a Zeromorph opening under a trimmed key.  Three seeds per request, so every stage has three continuations. |
| `folding` | Do accumulators stay satisfied, verifier and circuit agree, and products tie leaves? | P = 7, four rows and three (padded); two leaves, right and wrong, up to three folds in any order; a tree of four leaves; 730 chains of three leaves under all 49 challenges. |
| `ivc` | Does an honest session verify for its own number of steps only, is whatever verifies computed, and does a PCD node verify exactly when the nodes below it fit? | P = 1019: a challenge of one field element can cancel a failed row by chance, and for this prime none of the instance does.  Nova 4 steps, HyperNova 2, SuperNova 3 with two and three circuits used in and out of order; a stored proof reloaded or mixed with another once.  PCD trees of four right leaves, and of three where any may start from a wrong state, joined in any order and compressed at any root. |
| `shuffle` | Does the deck keep its cards, the honest witness satisfy the circuit, and a player see its card? | Four cards, two levels, two members; 33 seeds whose bits cover every pattern of sizes; two players, every subset of shares. |

Every property of a passing run has a mutation of a mapped definition, a
plausible slip in that code, under which TLC reports it violated.  The mutated
forms stand just before the definition they replace (`AllocPeek` before `Alloc`,
`UpdateLeafOnly` before `UpdateTrie`) and are used nowhere else.

`CHECK_DEADLOCK FALSE` appears where the program returns (builders, tracer,
sessions) or
where it really may come to rest (the network with every request answered); the
runs of the tree folder have a `Terminated` step and check deadlock.

### Fairness

* Tree folder: every worker, the producer and the caller are OS threads that
  spin or yield and never block on a lock held across a wait, so each is weakly
  fair.  No single action is fair: which step a thread takes is its code's.
* Network: tokio polls every woken task, the two local threads are OS threads,
  and a proxy that waits for an answer gets it or finds the connection broken
  (`tcp_keepalive` is set in `main.rs`).  Connecting, disconnecting and failing
  are not fair.
* Builders and tracer are sequential: the one thread goes on.  `RootVerdict`,
  `RootProvesTrace` and `TraceIsProvable` say that they return, and return right.
* Sessions of the arguments and the card table have safety properties only: no
  code under `src` drives them to an end.

## 4. What the checks found

Each of these has a violating run and is a finding in `PROJECT.json`:

1. `tree_reducer_error` - an `Err` of the reducer is logged and dropped, `stop`
   is never set and `run` does not return.
2. `network_trace_length` - `trace()` gives 2^m - 1 blocks, and the task above
   the last leaves looks up the block after the last one and panics.  The run
   `network` uses power-of-two lengths, those the comment on `trace()` promises.

These can be reproduced by changing a configuration as stated; the definitions
are in the modules:

| Change | Property that fails | What the code does |
|---|---|---|
| `tree_workers.cfg` with `NumBlocks <- DefaultBlocks`, 256 leaves, one worker | `EnoughBuffers` | the pool is sized by the number of workers only; a worker that folds depth first holds one published result per level and at the last leaf all eight blocks are held (`parallel_tree_folder.rs:114`) |
| `pcd_tree.cfg` | `RootIsAfterNSteps` | `build_binary_pcd_tree` computes `n` of the `2 * padded_n` states it needs and clones the last one, and the root ends `2 * padded_n - 1` steps on; `test_binary_pcd_tree` (`pcd/tree.rs:286,296`) expects of n = 7 and a map that does not stop that the root verifies and ends after n steps.  Its closure, x^3 - x + 5, is not its circuit's x^3 + x + 5 either |
| `vm_traces.cfg` with `Images <- BreakImages` | `ReplayFollowsVm` | the rebuilt witness of an `ebreak` writes zero to a0, and that of an unimp word with an rd field to that register (`parse_u32` matches `word >> 12` only, `parse_alt` takes rd from the word: `vm/src/trace.rs:264-319`); the machine writes nothing |
| `vm_traces.cfg` with `Images <- ProfileImages` | `ProfileIsTotal` | `end_profile` turns the clock of a function into a duration in place and `start_profile` keeps an entry that exists (`vm/src/eval.rs:219-236`): the second call of a function is measured from its first duration |
| `ivc.cfg` | `NivcVerifies` | `supernova/mod.rs:488-495` numbers shapes after `filter_map`, along the filled slots, so a proof verifies only while circuits come into use in the order of their numbers; the test `nivc_multiple_steps` expects it of any |
| `ivc.cfg` | `HyperTraceSatisfied` | `ccs/mod.rs:423-442` folds LCCS instances with weights rho, rho^2, the trace of the fold shows g1 + rho * g2 (`folding/hypernova/cyclefold/nimfs/mod.rs:84-110`) and the gadget follows the trace (`gadgets/cyclefold/hypernova/mod.rs:234,242`) |
| `folding.cfg` with `MaxFolds = 1` | `HonestLinearizationAccepted` | `ccs/linearization.rs:652-653` requires the claim of a linearization to be zero; its own test proves one that is not |
| `spartan.cfg` with `SPECIFICATION FairSpec` | `RedrawEnds` | the loop at `zeromorph/mod.rs:129` tests `x` and assigns `x0` |

`HonestVerifies` is therefore stated for SuperNova while the filled slots are a
prefix and for HyperNova up to the first step, and `CircuitFoldsAsProver` for
Nova and SuperNova; everything outside is in the table.

Met while reading, without a run:

* A tree of a single leaf never ends: only `process_ready_inner_node` signals
  completion (`nova/src/parallel_tree/worker.rs:139`).  `tree_workers` starts
  at trees with an inner node.
* `network/src/client.rs:33` posts to `/api`, `main.rs:43` serves `/core`
  only; `NotFound` models the answer.
* `query_inner` and `update_inner` shift the reversed address before they look
  at its lowest bit (`vm/src/memory/trie.rs:187`): the top bit of an address
  chooses nothing and the top bit of the offset chooses a leaf.  Addresses 2^31
  apart share a leaf, and the two halves of a cache line are two leaves.
  `MerkleTrie!LeafOf` does the same; programs of `vm_traces` stay in one half.
* A jump to address 0 falls through, because 0 stands for "no jump"
  (`vm/src/eval.rs:356`), although `docs/pages/specs/nexus-vm.mdx:34` starts
  programs there.  `CircuitAccepts` would fail, hence `JumpsElsewhere`.
* The VM document (line 144) lets a `fence` have any other bits; the circuit
  takes rd and rs1 from them and is then not satisfied, hence `FencesPlain`.
* The document lists `lbu` and `lhu` with funct3 011 and 100, the code uses 100
  and 101.
* `spartan/src/lib.rs:140` ensures at least two constraints; without any, the
  rounding after it sets the number back to `0.next_power_of_two()`, one.
* The Mangrove leaf circuit compares only the lengths of the declared states
  (`mangrove_leaf.rs:453-460`); the values are tied by the products.
* The atomic fold gives witnesses the weights rho, rho^2 and instances 1, rho.
* `circuit/sumcheck.rs:350-381` weights both instances of an accumulator fold
  with one equality value; `CircuitAgreesOnFresh` is about the fold of fresh
  instances, where both sides do.
* The sort circuit computes both grand products and leaves their comparison
  commented out under "Enforce equality - this proves the multiset is preserved"
  (`shuffling/circuit.rs`); `verify_sorting_order` has no caller.  The Rao-
  Sandelius circuit does not equate a level's rows with those of the level
  before.  `RsProofAccepted` is about honest witnesses only.
* `scalar_to_base_field` (`shuffling/data_structures.rs:17-26`) turns a scalar
  that is no element of the circuit's field into zero without an error.  Where
  the group's order is the larger (Grumpkin, as in the tests of `rs_shuffle`) a
  card with such a scalar is re-encrypted natively and not in the circuit; for a
  random scalar the chance is that of the moduli's difference.  `RsProofAccepted`
  states both cases, and P < Q in `shuffle`.
* `prove_as_subprotocol` re-encrypts under the key it is given; callers have to
  pass the joint key, as `player_encryption.rs`'s tests do.

## 5. Proofs

`tlapm M.tla` checks the proofs of a module `M`; the modules with proofs are
`ParallelTreeProofs`, `ProofNetworkProofs`, `PcdTreeProofs`, `ProveParProofs`,
`CardTableProofs`, `NexusVmProofs`, `SpartanProofs` and, with the lemmas about numbers that the
others cite, `NatLemmas`.  Every invariant that carries a proof was first checked by TLC on
the instance of the run for its module.

| Theorem | States | For every |
|---|---|---|
| `TypeInvariant`, `TypeCorrect` | `[]TypeInv`, `[]TypeOK` of `ParallelTree` | number of leaves, workers, blocks, queue capacity; reducer may fail |
| `ControlInvariant`, `ErrorsComeFromReducer` | `[]Control`, `[]OnlyReducerErrors` | the same |
| `BufferInvariant`, `OneOwnerPerBlock`, `NoNodeIsLost`, `OkReturnsWholeFold` | `[]Buffers`, `[]BlockOwnership`, `[]NoNodeLost`, `[]OkIsWholeFold` | the same |
| `PublishedStays` | `PublishedStable`, an action property | the same |
| `FolderImplementsFoldTree` | `ImplementsFoldTreeSafely`: the threads implement `FoldTree!SafeSpec` | the same |
| `WorkInOnePlaceHolds`, `NetworkTypes` | `[]WorkInOnePlace`, `[]TypeOK` of `ProofNetwork` | set of jobs, programs, trace lengths, peers, faults |
| `StoredProofIsWhole`, `StoredProofStays` | `[]ProofIsWhole`, `ProofKept` | the same |
| `CountersAgreeAlways` | `[]CountersAgree` | the same |
| `RootVerdictHolds`, `RootProvesItsStepsHolds` | a returned root verifies iff the circuit follows the padded states (`RootVerdict` without its liveness), `[]RootProvesItsSteps` of `PcdTree` | `n`, every step circuit and every `compute_step` |
| `DeckStaysWhole`, `OpensToTheDealtCard`, `CardInvariant` | `[]DeckKeepsCards`, `[]OpensToDealtCard`, `[]CardInv` of `CardTable` | prime Q, committee, deck, number of levels, seeds, scalars, seats, shares |
| `RsProofsAreAccepted` | `[]RsProofAccepted` of `CardTable` | the same, and the field P of the circuit (larger than the deck), bits, challenges |
| `ProveParReturnsTheTrace`, `LabelsAreRight`, `ProveParTypes` | `[]ReturnsOnlyTheTrace`, `[]LabelNamesStep`, `[]TypeOK` of `ProvePar` | length of the program |
| `VmTypeCorrect`, `PathsCorrect` | `[]TypeOK`, `[]PathsVerify` of `NexusVm` | width of a byte and of a line, image, block size, trace length |
| `ReplayCorrect` | `[]ReplayFollowsVm` of `NexusVm` | the same, while `BreaksPlain` holds |
| `CircuitCorrect` | `[]CircuitAccepts` of `NexusVm` | the same, while `BreaksPlain`, `FencesPlain` and `JumpsElsewhere` hold |
| `SessionTypes` | `[]TypeOK` of `SpartanProof` | field, set of seeds, set of jobs, random tape |
| `ProfileCorrect` | `[]ProfileIsElapsed` of `NexusVm` | the same, for traces of fewer steps than a word has values |

### Tree folder

Assumed: `ConstantsAssumption` (a worker, a queue that holds something) and
`NumLeavesAssumption`.  The inductive invariant stands in `ParallelTreeProps`
and is proved in three layers, each on the ones below.

* `TypeInv`.  `TypeOK` alone is not inductive: that the child a worker consumes
  is a task depends on the node it works on being an inner one.  `Shape` says
  for each `pc` what the locals are.
* `Control`.  Which worker owns which task, from the task words: one worker per
  task, what the queues hold, what a parent's state says of its children
  (`ParentCounts`, `ChildrenConsumed`), what is left half undone on an error
  path.  A step changes the word of at most one task, and that task is private
  to the worker (`Private`); the frame lemmas say once what this leaves alone,
  and the lemma of an action only looks at the worker that moves.  That no
  compare-exchange and no claim fails falls out: `OnlyReducerErrors` is a
  conjunct.
* `Buffers`.  Every block has one owner, a place in the free list, a task that
  has published it or a local of a worker that has not yet (`BlocksOwned`), and
  the block of a published task holds that task's fold (`PublishedCorrect`).
  Each lemma follows the one block a step moves from owner to owner.
  `OneOwnerPerBlock` counts the owners afterwards.

`NoNodeLost` and `OkIsWholeFold` follow from the layers; `PublishedStable` and
the refinement are about steps, and are proved action by action under the
invariant: a step of a thread is `ConvertLeaf`, `FoldNode` or an ending of
`FoldTree`, or it stutters.  `FoldNode` needs both children done, which `Control`
gives where a worker publishes a result.

### Proving network

Assumed: `NetworkAssumption`, in particular that a peer is a PCD node or an MSM
node and not both, as `bin::client` chooses one; and `PairingAssumption`, that
the number of pairs of blocks is a power of two and no trace has one block,
which is what the loop of `vm/src/trace.rs:151-167` leaves through.  The set of
jobs need not be finite.

* `WorkInv`.  `WorkInOnePlace` is not inductive: when a proxy answers, one has
  to know that it holds the work of a task, and when a request is accepted, that
  none of its tasks waits already.  `HoldersBusy` and `NothingBeforeSubmit` say
  so.  The argument follows the work: `SendWork` appends it where it was nowhere
  (`AppendOnce`), a receiver takes the head and nobody else has it (`TakeHead`,
  `TakeWork`), an answer or a loss ends the waiting and the holding in one step
  (`LocalReleases`, `PcdProxyReleases`); the single MSM request is followed in
  the same way (`MsmMoves`).
* `FoldInv`.  Every task that is done has the node for its own span of blocks
  (`NodesRight`, `ChildrenDone`), and the spans of two siblings meet at the block
  between them (`NeighboursMeet`); here the powers of two are needed.  An answer
  is about the task that asked for it, by `WorkInv`.  `ProofIsWhole` is the case
  of the root.
* `CountInv`.  `complete` is bounded from below by what one submission has
  counted and from above by what all of them may have (a task can panic on
  either side of its count), and the tasks of a tree are counted by numbering
  them as in a heap: `c` chunks give `c - 1` inner tasks, each worth two steps,
  and the root one more.

With the lengths `trace()` returns today, 2^m - 1, the root's task panics
(section 4) and nothing is ever stored, so the theorems on stored proofs speak
of an empty set; with 2^m blocks, which the comment on `trace()` promises, they
speak of every proof.  Both lengths satisfy the assumptions.

### PCD tree and parallel provers

* `TreeInv`: the states computed so far, the leaves made so far, and the level
  being folded, whose indices are increasing and apart by the span of its nodes
  (`IndicesApart`), so that `(l + r) / 2` is a new key of the map.  A node of the
  level is `Claim` of its steps: its ends, and satisfied exactly when every link
  between two of its leaves is one the circuit makes (`LinksWithin`).  A parent
  adds the one link between its children, so the root has all of them
  (`PaddingFollows`).  There is no hypothesis on circuit or closure: a
  computation that goes on past its n steps gives a root that does not verify.
  From the links the states of a root that verifies are the circuit's own, by
  induction over the leaves.
* `ProveInv`: `trace()` stops at 2^m - 1 blocks for some m, and while level a
  is folded there are 2^(m - a) nodes in `vs`, the k-th of them for the blocks
  from 2^a (k - 1) to 2^a k - 2, and 2^m - 2^(m - a) iterations are over.  From the
  last equation the label's formula gives 2^a (2q + 1) - 1 for the q-th pair of a
  level, counted from 0 (`LabelIs`), and this is the block between the two nodes,
  which the parent proves.  That no node is left without a
  neighbour is that 2^(m - a) is even until it is one.
* `TwoTo` (`PowersOfTwo`) is a recursive function, and `NatLemmas` proves what
  the others need of it: that it exists at all, from induction on sets of
  naturals (`SetInduction`, `Recursion`), that it is positive, monotone,
  injective and multiplicative, and that `Ilog2`, `IsPowerOfTwo` and
  `NextPowerOfTwo` are what they are in Rust.

### Card table

Assumed: `FieldAssumption` and `ShuffleAssumption` (P is a prime above 3, the
deck has fewer than P cards), `TableAssumption` (Q is a prime greater than the
number of cards; secrets and blindings are not 0, re-encryption
scalars are residues, grand-product challenges are
field elements) and `BlindingAssumption`: for
every share there is a blinding of the Chaum-Pedersen proof whose response is
not 0.  The model takes such a blinding; the code's is
an answer of a sponge, and its response is 0 with probability 1/Q.  A
proof with response 0 is valid for every player, so without this the theorem on
opened cards is false with that probability.

* `CardInv`: the joint key is the sum of keys that stay as they are (`KeyRight`);
  the deck is whole (`DeckRight`); a dealt card is its source blinded by `d` under
  the keys of committee and player together (`CardRight`); and
  `OpensToDealtCard`, which is inductive only next to the other three.  A card
  can be dealt again only until it is dealt, so a hand stays true
  (`HandRight`).
* Residues modulo Q are added, subtracted and multiplied as in a ring, and a sum
  of points does not depend on their order (`ReorderedSum`, one exchange at a
  time) and is linear (`ScaledSum`).  From this what is left when every member
  has taken its part off is `c2 - c1 * JointKey` (`PlainIs`), and a layer leaves
  it as it is (`LayerKeepsPlain`).
* `SortOrderIs`: a sort of any keys by key and then position is a bijection,
  because the numbers of positions before two different positions differ
  (`RanksDiffer`).  So the sort-based shuffle permutes the deck even when two
  random values are equal, and the Rao-Sandelius shuffle permutes it whatever
  the rows say of `next_pos`; that `next_pos` and the counters are right matters for
  the circuit only.
* `RsProofsAreAccepted` is that.  As long as buckets do not descend
  (`BucketsRise`), a bucket is an interval of positions, so what `build_level`
  counts since the last reset are the zeros and ones of the bucket so far
  (`CountersAre`), they advance as `verify_row_constraints` wants
  (`CountersAdvance`, `LastOfBucket`), and being sizes of sets of positions they
  are below P (`CountersFit`).  `next_pos` is the rank of a row by bucket and then
  bit (`RankIs`), so sorting by it is the stable sort by that key (`SameOrder`)
  and buckets rise on the next level (`LevelIs`, `LevelsRight`).  A product in the field does not depend on the order of its
  factors (`ReorderedProduct`, one factor moved at a time), and both grand
  products of the circuit are over the same rows in two orders: those of a level
  by `next_pos`, those of the decks because the last level keeps every index
  (`ShuffleAccepted`).  Level by level the rows are those of the reference
  (`OrderAccepted`).  The circuit's layer of encryption is the native one exactly
  when the scalar is below P (`LayersAgree`).  `ProofRight` carries this to the states: the key under which
  the deck was encrypted again never changes after the first shuffle.
* `AcceptedShare`: from the two equations that a verifier checks, the response
  times the difference of the two players' keys is 0, and by Euclid's lemma
  (`PrimeDividesFactor`) the keys are the same, or the response is 0.  A share
  that verifies therefore blinds for the player, whomever it was made for.
* `OpensTheCard`: Members shares of at most Members different members are one of
  each (`EveryMemberOnce`), their sum is `a_u * JointKey`, and the keys cancel
  (`KeysCancel`).

### Machine, trie and tracer

Assumed: `WidthAssumption` (a byte has bits; the bytes of a line are a power of
two, at least a double word and no more than there are addresses), `ImageAssumption` (a
word for every register the code names, x0 zero, a tape of bytes, data that are bytes at addresses,
and instructions that `parse_u32` can return), `LabelAssumption` and
`TraceAssumption`.

* `MachineOK` and `BlockOK` are the inductive invariant under `TypeOK`.  They
  add what a step reads: that the code is parsed, that registers 10, 11, 12, 18
  and those an instruction names exist (`rd` after `Translate` too), that the
  tape holds bytes, that the block is a sequence, and `Hashed`.  For the operators of `Rv32` lemmas
  say that words give words: `BitWiseType` by induction over the bits, `LoadType`
  and `StoreType` over the sizes, with `ByteCounts` for the powers of two.
* `Hashed` says that a leaf's digest is the hash of its line and an inner node's
  the hash of its children's, default digests included.  From it `QueryVerifies`
  follows the path up: the hash of the first k turns is the digest k levels above
  the leaf.  `UpdateHashed` shows that `update` keeps it: the nodes on the way
  to the leaf (`OnPath`) get the new digests, and every sibling is off the way.
  `InitMemoryHashed` starts it: any bytes stored into an empty trie.  All of it
  is induction over levels, with `SetInduction`.
* `ReplayFollowsVm` is inductive by itself over `MachineOK /\ BlockOK`: the
  recursion `Replayed` has a solution (`FollowsExists`), a longer block agrees
  with the shorter one as far as it goes (`FollowsAgree`), and the witness of the
  last step leaves the registers where the step left them (`WitnessFollows`).
  `ReplayCorrect` has the hypothesis `[]BreaksPlain`: where an `ebreak` or an
  unimp is executed, the register it names is zero.  Without it the theorem is
  false: `BreakImages` in section 4 has the two counterexamples.
* `CircuitCorrect` puts the step circuit next to `eval_inst`, for every width of
  a byte.  First the gadgets, each over the words: `AddCirIs` and `SubCirIs` take
  the carry off and derive the signed flags from the top bits; `BitsOf` says that
  a sum over the bits of a number is the number modulo the words, by induction
  over the bits, and from it come the shifts (`ShiftLeftIs`, `ShiftRightIs`, the
  arithmetic one through the bits of a negative number) and `BitOpsAre`;
  `LoadSelectIs` that the address bits choose the aligned element, `SignExtendIs`
  the extension, `StoreCircuitIs` that what is read back from the line written is
  the low bytes.  `AluCircuitIs`, `BranchIs` and `LoadCircuitIs` collect them.
  Then the step: `WitnessOf` lists the fields of the witness, `CircuitZIs` and
  `CircuitPCIs` go through the opcodes, `MemoryProofsOf` cites the lemmas on
  paths before and after the update, `StepAccepted` puts these together, and
  `EvalAccepted` finds the witness at the end of the block by `ReplayFollowsVm`.
  Its hypotheses, besides `BreaksPlain`, are the two disagreements between
  machine and circuit of section 4 (a `fence` that names registers, a jump to
  address 0); each is needed.  All three are state predicates of `NexusVm`, and
  added to `vm_traces.cfg` as invariants they hold in every state of that run.
* `ProfileOK` ties the profiler's table to the history of each function's calls
  (`CallsOK`): no clock and no call is ahead of the machine's, and while a
  function is still in or has ended its first outermost call, the counter is the
  depth and at most the number of calls, and the clock the start or the
  duration.  The number of calls is bounded by the steps of the trace, so the
  counter cannot wrap while these are fewer than a word has values; that is the
  hypothesis of `ProfileCorrect`.  The code's counter is a `u32` and wraps, or
  panics in a debug build, after 2^32 nested starts.
* What is false of the profiler, `ProfileIsTotal`, is in section 4.

### Spartan session

Assumed: nothing.  `SessionTypes` is about the control of a session: the stages
of a kind are distinct, so the one after the k-th is the (k + 1)-st or the end
(`StagesAre`), and the oracle answers with seeds and forgets none.  That the
transcripts agree is not proved: the calls of a stage are sums over rounds,
layers and tables whose sizes are defined by recursion over the instance.

### Only model-checked, and why

* Liveness: `RunReturns`, `JobsSettle`, `RootVerdict`, `RootProvesTrace`,
  `TraceIsProvable`, and the fairness part of `ImplementsFoldTree`.  The prover
  has no rule for `ENABLED`, which weak fairness is made of.
* The arguments over a small field (`SpartanProof`, `FoldSession`, `Ivc`,
  `PcdProof`), `TranscriptsAgree` among them.  Their values are sums over tables, rounds and coordinates modulo
  P, defined by recursion, and the properties that say when a proof is accepted
  hold for the chosen P; for every P they are not true as stated (a challenge
  may cancel an error).

## 6. Plan

Done: the tree folder with its abstract specification, PCD trees, the parallel
prover, the network, the machine with its circuit, profiler and Merkle trie; IVC,
PCD nodes with their instances and compression, folding,
Mangrove, Spartan and the shuffles over small fields; the proofs of section 5.
Left, in this order:

1. The decoding of instruction words (`vm/src/rv32/parse.rs`) and the R1CS
   builder of the step circuit (`vm/src/circuit/r1cs.rs`), which an instruction
   record and the circuit's own relation stand for now.
2. What of the folding schemes and of Spartan holds in every field: that an
   honest witness satisfies each relation (`SatisfyingAccepted` and the honest
   half of `AcceptsExactlyZeroGap`), from lemmas on products and sums as those
   in `CardTableProofs`.

## 7. Not modelled, and why

* Soundness of the hash functions, of the commitments and of the random oracle:
  cryptographic, they enter as ideal operations.  Arithmetic of 255-bit fields,
  emulated limbs, curve gadgets and multi-scalar multiplication are external or
  would model arithmetic, not control.
* HyperNova's projected bound on the size of its augmented circuit, which setup
  asserts.
* The constraints of a SHA-256 round (`tree_folding/mangrove`; one part of it is
  `todo!()`), the R1CS builder's bit decompositions, Groth16 and its binaries.
* Batch verification, `encrypt_card` and `verify_rerandomization` of the
  shuffles; serialisation, timers and benchmarks everywhere.
* Weak memory: atomics are sequentially consistent.
* Key generation, files, configuration, the command line apart from
  its progress label, the SDK facade, the guest runtime's assembly, the macros
  and the Jolt adapter: I/O or conversion without protocol state.
* The built-in machines of `vm/src/machines.rs` are test data; ELF loading only
  fills the initial memory.
