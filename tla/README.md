# Ballistic: TLA+ models, model checking and proofs

Ballistic translates ARM64 guest code into x86-64 code at run time and runs it.
This directory holds TLA+ models of its core, TLC configurations that check them
on small instances, and TLAPS proofs that hold for every instance. Paths below
are relative to the repository, `src/bal_engine.c` for instance. In
`PROJECT.json` they carry the prefix `src/` of the checkout.

## 1. Inventory

| component | source | state | operations |
|---|---|---|---|
| engine run loop | `src/bal_engine.c` | `thread_state` (three atomics), `flags`, `status`, guest PC | init, run, stop, clear, reset, destroy, is_running |
| block cache | `src/bal_engine.c` | 4096 sets of 4 ways of (guest address, host code) | lookup, insert, clear |
| tier 1 compiler | `src/backend/x86/bal_x86_tier1_compiler.c` | `status`, register maps, window, assembler | translate, reset; one `translate_*` per instruction form |
| register allocator | same file | `arm_to_x86`, `x86_to_arm`, `is_dirty`, `eviction_cursor` | allocate, evict, flush, reset |
| sliding window | `src/backend/x86/bal_x86_sliding_window.c` | up to 4 queued macros | push, flush, peephole rewrite, reset |
| x86-64 assembler | `src/backend/x86/bal_x86_assembler.c` | `offset`, `status` over an executable buffer | about 30 emit functions, reset |
| executable memory | `src/bal_memory.c` | one or two views of shared pages | allocate, free, protect |
| JIT debug registry and signal handler | `src/bal_jit_debug*.c` | table of compiled blocks, process signal handlers | add block, look up on a fault |
| ARM64 assembler | `src/bal_assembler.c` | offset, status | emit functions |
| decoder | `src/bal_decoder.c`, `src/generated/decoder_table.c`, written by `tools/scripts/generate_decoder_tables.lua` | 3856 entries in hash buckets | decode; the command `tools/decoder_cli.c` |
| fuzzer | `tests/fuzzer/` | two workers and four pipes | spawn, send, poll, receive, destroy, compare |

How they interact. The host gives an engine guest memory, a CPU state and an
allocator, and one of its threads calls `bal_engine_run_thread`. Each iteration
of that loop looks at the stop request, the clear request and the pending
interrupt, looks the guest PC up in the block cache, compiles the block on a
miss, inserts it, calls it and starts over with the PC the block left.
Compiling pushes macros through the sliding window into the assembler, which
writes the executable buffer. Other host threads talk to the loop through the
atomics and through `engine->flags`, which is a plain field.

Where it is hard, and what makes it correct:

* *Two kinds of state about the same code.* The block cache holds addresses
  into a buffer that clears and overflows empty. Every call must go to a
  complete translation of the block at the PC (`DispatchSound`).
* *Concurrent requests.* Requests arrive between any two accesses of the loop.
  Clearing must take effect although the acknowledgement is a plain store of
  false (`ClearTakesEffect`), and stop, clear and interrupt must be honoured
  while the guest loops for ever (`StopEnds`, `ClearServed`, `InterruptYields`).
* *Errors in the middle of a block.* Assembler and compiler keep a status each,
  emit calls go on after an error, and the engine decides from one of the two
  whether to retry and reports the other (`ErrorIsFinal`, `GuestErrorIsReported`,
  and `ErrorIsReported`, which the code does not keep).
* *Three readings of one word.* The ARM64 assembler writes a word, the decoder
  finds a table entry for it in an order that a script computed, and the
  compiler reads operands at places that the function it chose expects
  (`RoundTrip`, `SameOperation`, `OperandsAreWhereRead`).
* *A block with two ends.* Translation reads page by page, stops at limits, and
  a conditional branch needs two epilogues with a jump between them
  (`MatchesGuest`, `ReturnsUnlessTaken`, `Counts`, `LimitHolds`).
* *Acquire and release.* An init acquires five things one after the other, two
  of which (the signal handler, the name of the shared memory) belong to a
  process or to the whole machine (`NothingFreedTwice`, `DestroyReclaims`,
  `FaultsAreBlamedRightly`, `NameIsReleased`).
* *Three processes and four pipes.* Short reads and writes, workers that die or
  hang, pipe ends inherited by the second worker (`MatchIsReal`,
  `NothingLeftBehind`, `CoordinatorEnds`, `WorkersFollow`).
* *Limits.* The last byte of the buffer, the full set of the cache, the full
  window, the last scratch register (`WithinCapacity`, which the code does not
  keep, `PinnedWays`, `SlidingWindow!TypeOK`).
* *Aliasing and eviction.* An instruction's operands can share a register, and
  allocating one can evict another (`OperandsIntact`, `NoLostWrite`,
  `MapsConsistent`).

`PROJECT.json` lists every such hazard at its line.

## 2. Modules

| module | models | composes |
|---|---|---|
| `BlockMap` | what the cache promises: a map that may forget | |
| `BlockCache` | `block_cache_lookup`, `block_cache_insert`, the clearing memset | refines `BlockMap` |
| `X86Assembler` | size check, bytes written and status of every emit function | |
| `Engine` | the run loop, the control functions, translate as the engine sees it | `BlockCache`, `X86Assembler` |
| `RegisterAllocator` | the allocator and the instruction translations that use it | |
| `SlidingWindow` | queue, lowering, peephole optimizer | `X86Assembler` |
| `DecoderTable` | the part of the generated table that the models need | |
| `Decoder` | the generator's buckets and their order, the lookup, operand extraction | `DecoderTable` |
| `DecoderCli` | the decoder command, and what tier 1 does with the entry it prints | `Decoder` |
| `ArmAssembler` | the ARM64 assembler down to the bits, read back by the decoder | `Decoder` |
| `Tier1Compiler` | the translation loop and the emitted block run on a host | `Decoder` |
| `Lifecycle` | init, destroy, executable memory, debug registry, signal handler | |
| `FuzzerIpc` | coordinator, workers and pipes of the fuzzer | |
| `MC*` | instances for TLC | |
| `*Proofs` | theorems and proofs, for the module of that name; those of `X86Assembler` are in `SlidingWindowProofs`, those of `BlockCache` in `EngineProofs` | |
| `FoldTheorems` | what a loop over a sequence computes, for the proofs | |

Definitions whose comment starts with "Mutant:" are wrong variants of the
definition that follows them. Put in its place they break a property, which
shows that the property depends on that piece of code; they are not part of the
models.

### BlockCache

`block_cache[s][w]` is one `block_cache_entry_t`. `Engine` extends the module and
uses its variable as its own; hence the names `CacheInit`, `CacheNext` and
`CacheSpec`. The same holds of `X86Assembler` (`AsmInit`, `AsmNext`, `AsmSpec`) in
`SlidingWindow`. Host code pointers are uninterpreted.
The two loops of the insertion are `Tagged` and `Free`, the eviction index is
`evict_way`. A zeroed entry carries the guest address 0, as in C.

### X86Assembler

The state is `offset` and `status`. An emit call is a record of the function,
whether a register is R8..R15, and whether an immediate takes the long form;
that is all its size depends on. `CheckedSize` is what the function asks
`can_emit` for, `EmittedSize` what it writes. They differ for push, pop and jmp.
`OverwritesError` names the functions that replace an existing error by
`BAL_ERROR_INVALID_ARGUMENT`. The `SIZE_MAX` test of `can_emit` cannot fail, as
the offset never exceeds the capacity by more than one (`AtMostOnePast`).

### Engine

Each action of the engine thread is one access to state others can change:

| action | `bal_engine_run_thread` |
|---|---|
| `Run` | the exchange on `is_executing` |
| `CheckStop`, `CheckClear` | the two loads |
| `ClearCache`, `AckClear` | compiler reset and memset; the store of false |
| `CheckInterrupt`, `TakeInterrupt` | the read and the write of `flags &= ~...` |
| `Lookup` | sentinel test and cache lookup |
| `Compile`, `CompileAfterReset`, `DecodeFails` | translation, the retry after an overflow, the endless loop on an undecodable word |
| `Publish`, `Execute`, `AfterExecute`, `LeaveLoop` | insertion, the call, the single-step test, the return |

Translation reads no state the host changes except guest memory, and is one
step. `Translate` emits the prologue, the macros of the block and the epilogue
into the assembler of `X86Assembler`, so a buffer can fill up at every
instruction and the two statuses develop as in the code. A guest block is a
constant: what its first word is, where it leads, and which macros it takes.
`jit` is a ghost: the blocks that stand complete in the buffer, each with the
version of the guest code it was made from. `must_see` and `must_run` remember
the version a clear request was about. `HostStep` is everything other threads
may do, at any moment.

`Mapping` is the kind of executable memory. On Linux and Windows it is `"dual"`
and any reset of the assembler faults; the runs use `"rwx"`, the Apple
allocator's mapping on x86-64, so that they go on after a reset.

### RegisterAllocator

The record `c` holds the allocator's four fields and the compiler's status. The
translations return the macros they push. `machine` is what these macros do
when the block runs: for every x86 register, which guest registers' current
values it holds, and for which guest registers the slot in `bal_cpu_t` is
current. Values are left out, only currency is tracked. `Op` carries which guest
operand is meant to be in which register, and `machine.wrong` records that it
was not, unless the translation of that instruction itself took the register away
(section 5). A block in error never runs, so its macros are dropped.

### SlidingWindow

`want` is a machine on which every macro is executed when it is pushed, `done`
one on which only lowered macros are. There is one macro for each way
`flush_single_macro` lowers: one emit call, two emit calls (through R11) and
none. `EmitFrame` is an emit call that the compiler makes itself to open or
leave a block, on an empty window and whatever the assembler's status.

### DecoderTable and Decoder

`DecoderTable` holds 1153 of the 3856 entries: those of the general-purpose
instructions, those whose opcode is not TRAP, and all that share a word with one
of these. For a word that matches one of them the lookup therefore decides as in
the whole table. The rest are SIMD, SVE and SME entries that trap. A word is the
set of the positions of its one bits, so masking is intersection. Operands are
kept where some code reads them.

`Decoder` does what the generator does at build time: `HASH_BITS` and
`g_decoder_lookup_table` put an entry into every bucket a word of it can hash to,
`Before` orders a bucket. `Priority` counts the mask bits as the script does,
which is not at all when bit 31 is set. Entries that tie are left to an unstable
sort; `Decoded` is the set of entries the lookup may return.

### DecoderCli

One word or one unusable argument is given to the command, which decodes it.
`TranslatedBy` is the switch of the compiler and `ReadRightly` says whether the
function it selects looks for its operands where the entry has them.
`KnownMisread` lists the entries for which it does not: section 5.

### ArmAssembler

The struct, the caller's words, and `asked`, a ghost that holds the calls that
were written. Each function is the list of its checks, in order, and the word it
builds. `Emit` applies them; B and RET set their own error without looking at
the old one first.

### Tier1Compiler

`t` holds the local variables of `bal_tier1_compiler_translate` and the parts of
the compiler it uses. The actions are `Fetch` (translate the address, read a
page), `Loop` (the tests before an instruction), `Translate` (decode and switch),
`DecodeFails` (the endless loop), `Yield` (the early ends of a trap), `Terminate`
(the ends of a block) and `Execute` (the emitted code on a host with a stack,
a count, and the CPU state). Guest instructions are words built by `ArmWord` and
read back through the decoder, so an alias decodes to what it decodes to in the
code. Host instructions keep their length; a jump skips bytes, and one into
the middle of an instruction is noticed. `Switch` leaves out the cases of CBZ and
CBNZ: no table entry has their opcodes, the words trap (`ZeroBranchesTrap`, which
TLC evaluates). `Perform` is what an instruction does,
`Step` adds that a host that has jumped or stopped does not do it. `Reference` is what
ARM says the instructions do. `TakenBranch` looks at the flags that the block left in
`bal_cpu_t`; those of `Reference` differ behind an instruction that is translated
wrongly (section 5). Numbers are modulo `Modulus`, addresses are
relative to a place just below 2^32, so that both forms of `mov rax, imm` occur.

### Lifecycle

An init is divided at the accesses to the shared-memory name, which is the only
state that other processes see. Every allocation in it may fail. `memory` holds
what is allocated for the engine, `lost` what nothing points to any more.
`Compile` notes the mappings of a block as tier 1 does: `CodeOffsets` are where the
assembler stands before an instruction is translated, which may be short of its
code, as code of its predecessors may still wait in the window; `GuestOffsets`
are the instructions' own but for a jump, which is noted with its target; from
`MAX_MAPPINGS` on there are none. A block without mappings is not registered.
`handle_jit_fault` is the search of the signal handler, as a function of the
faulting position. `Crash` ends a process between any two steps, `Reset` ends the
one whose engine empties its buffer, because that faults on Linux.

### FuzzerIpc

`Program` is the coordinator's `main` as a list of steps, each of which can fail.
A message is a sequence of parts and every read and write moves any number of
them. `readers` and `writers` are the open ends of the pipes in every process,
those that the second fork inherits included. Workers fail in fork or
in their own init, die at any step, or hang. `UnicornAnswers` are the responses of
the Unicorn worker, a failed write of the sentinel, which leaves the status OK,
included. Unicorn is external: its other ignored register writes
(`tests/fuzzer/workers/unicorn/main.c:93-96`) are taken to succeed.

## 3. Runs

Runs that pass:

| run | instance | states | shows |
|---|---|---|---|
| `block_cache` | 8 sets, 2 ways, 6 addresses in two sets (one is 0, one unaligned), 2 code pointers | 961 | well-formedness, refinement of `BlockMap`, `PinnedWays` |
| `engine` | 2 code blocks that can loop for ever, a trap, an undecodable word and a hole, 91 bytes, block cache on and off, all host operations, one patch | 920936 | dispatch, clear and the guest's errors under every interleaving; stop, interrupt and clear are honoured |
| `registers` | 4 scratch and 5 guest registers, all instruction forms, cursor of 3 | 59312 | consistent maps, no lost write, operands intact |
| `window` | 3 slots, 13 bytes, 3 opcodes, numbers modulo 3 | 697993 | queueing and rewriting preserve the effect; an error is final, also for the emit calls around a block |
| `arm_codec` | 2 words, every emit function with arguments at and just past each limit | 5796 | what was emitted is decoded and read back; errors stop; no write outside |
| `decoder` | a word with free bits clear and one with free bits set for each entry, one for each pair of entries that share a word, one that matches nothing | 4182 | the buckets lose nothing, their order does not change the operation, operands are where they are read |
| `tier1` | all programs of three words over 28 instructions as listed in `ThreeWords`, pages of two, 4 starts, 3 limits, no or all flags, 2 CPU states | 212820 | the block does what the guest does and returns; counts, debug map, limit; translation ends |
| `lifecycle` | 2 engines in one or two processes, 2 inits each, 1 death of a process, one engine compiles, room for 5 instructions, 2 mappings a block, 2 registry entries, 4 units of arena, jumps 8 bytes on | 1383878 | nothing freed twice, what destroy can free is freed, faults are never blamed on another block or an earlier instruction, the name is given back |
| `fuzzer` | inputs and responses of 2 parts | 90055 | matches are real, workers are reaped, all processes end |

Why the bounds are enough. The cache decides per set, and two sets with three
addresses for two ways contain free, full, evicting and re-inserting sets that
evict different ways. The assembler's decisions depend on the distance to the
end of the buffer, at most eleven bytes. The engine's interactions involve at
most two blocks, one clear and one change of guest code; a second change would
repeat the first with a larger number. Its 91 bytes hold both blocks once. Without
the block cache they are compiled again and again, and the buffer runs out in a
prologue, in the macros, in the epilogue and in the very last emit call, the one
place where the reset is tried. The allocator's cases are free, clean
victim and forced victim; five guest registers on four scratch registers, some
with numbers below the size of the list and some not, reach all three, and R15.
The peephole optimizer looks at two neighbouring macros, so a window of three
has a pair in every position relative to a flush. The cursor, a `uint8_t` in
the code, wraps at `CURSOR_RANGE`. The lookup of a word depends on which entries
match it, and the words of `decoder` contain every pair of entries that can match
together. In `tier1` three words cross a page, fill the window of four, overflow
the debug map of two and put a conditional branch in every position; starts 0
and 4 are the two places in a page, 2 is not aligned and 10 is not aligned with
less than a word left. Two
engines and two inits each are needed to destroy one while the other runs and to
reuse a `bal_cpu_t`; a third adds no new relation. The code of one engine does not
meet that of another, so one compiles, blocks of up to four instructions with
mappings for the first two. Two parts are enough for a
transfer to be cut.

The type invariants of `BlockCache`, `X86Assembler`, `Engine`, `FuzzerIpc` and
`Tier1Compiler` are proved and in no run. So is `AtMostOnePast`.

Runs that TLC refutes, each a statement of the repository that the code does not
keep; `PROJECT.json` quotes it:

| run | property | instance | what happens |
|---|---|---|---|
| `engine_stale_cache` | `DispatchSound` | 3 blocks of 34 bytes in 101 bytes | the third overflows in its last emit call, the reset keeps the block cache, which the TODO there says must be cleared, and a later hit runs code that is gone |
| `engine_lost_error` | `ErrorIsReported` | the same in 85 bytes | the third overflows in its epilogue, the pops that follow replace the overflow, no reset is tried, and the run that gave up returns `BAL_SUCCESS` |
| `assembler_overrun` | `WithinCapacity` | 48 bytes, all functions and operand kinds | a push, pop or jmp of R8..R15 into exactly as much room as it asks for writes one byte behind the buffer |

The passing runs live with these behaviours. In `engine` errors are lost as in
`engine_lost_error`, which `GuestErrorIsReported` does not forbid; the reset happens
there only with the block cache off, as with it on both blocks fit. In `window` the
buffer is overrun by the calls of `EmitFrame`. The guest of the two refuted
engine runs comes to an end, so deadlock is not checked there; `decoder` and
`fuzzer` end too.

**Fairness.** `Engine!Spec` assumes that the engine thread keeps taking steps
once it is started, which the operating system's scheduler provides; nothing is
assumed of the host. It is written as weak fairness of "the label moves", which
is equivalent to weak fairness of `EngineStep`: every engine step moves the
label and, unless the thread has returned, spins or has faulted, one is enabled.
`"spin"` is the compiler's endless loop on a word that does not decode, in which
the thread runs and never gets anywhere: `StopEnds`, `InterruptYields` and
`ClearServed` say what happens unless it gets there. `Tier1Compiler!Spec` assumes the same of the translating thread.
`Lifecycle!Spec` assumes that an init that holds the shared-memory name comes to
`shm_unlink`, the next call in straight-line code, unless its process dies.
`FuzzerIpc!Spec` assumes that each of the three processes runs on while it can,
and neither that a worker answers nor that it dies.

**Memory model.** Actions are sequentially consistent. The atomics use release
and acquire; on x86 a release store may be delayed past a later load, which
the plan lists.

## 4. Proofs

All obligations are checked by TLAPS, for every value of the constants.

* `FoldTheorems`. The loops over macros and instructions are folds, which the
  community modules define by recursion over sets of indices. `FoldIs` says that
  `FoldLeft` is the last value of a loop variable that starts at the base and takes
  one step per element; `FoldEmpty`, `FoldAppend`, `FoldPrefix` and `FoldInvariant`
  follow. Induction is replaced by the least element of a set of numbers
  (`LeastNatural`), which the well-foundedness theorem of the library gives without
  an operator parameter. The module is generic in the step `Op` and is instantiated
  once for each loop.
* `SlidingWindowProofs`. `AssemblerBounded`: the offset is at most one past the
  capacity, from the bound of one byte between checked and emitted size and the
  fact that a call that writes passed its check. It limits what `assembler_overrun`
  shows: no sequence of calls adds up to a second byte. `AssemblerErrorIsFinal`, and
  `WindowErrorIsFinal` for the calls that the window and the compiler make.
  `WindowFits`: the window never holds more than its array. `WindowKeepsEffect`:
  the code that was lowered, followed by the macros still queued, does what the
  pushed macros do. A flush moves macros from the second part to the first; if none
  of its emit calls fails it executes them all (by `FoldInvariant`: an error is
  final, so success at the end means success at every step), and the two
  rewrites of the peephole optimizer keep the effect of the queue. `TEST` is
  excluded, because its lowering is nothing (section 5).
* `RegisterAllocatorProofs`. `AllocatorConsistent`: the inductive invariant is
  the type of `c` together with `MapsConsistent`. It goes through every
  intermediate state of a translation: `Sound` holds of the state an
  `allocate_x86_register` call starts from and of the one it returns, on a hit,
  a free register, a clean victim and a forced one. It is proved also for the
  instruction forms whose operands can be evicted: the maps survive that, the
  operand does not. `NoWriteIsLost`, `OperandsAreIntact` and `AllocatorTyped` are about the
  machine that runs the macros. Their invariant is `RunInv`: for every guest
  register that is mapped, its x86 register holds the current value, and for every
  one that is not dirty `bal_cpu_t` does. It is carried through each macro of a
  translation, the flush at the end of a block, whose order of registers does not
  matter, included.
* `EngineProofs`, the cache. `CacheWellFormed`: the inductive invariant is
  `CacheTypeOK /\ WellFormed`. `FilledFirst` is what makes it inductive: insertion
  stops at the first way tagged with the address, filled or not, and without
  knowing that filled ways precede empty ones it could leave a filled duplicate
  behind an empty way with tag 0. `CacheNeverLies`: the refinement of
  `BlockMap`; a lookup finds the one filled way of its address, and the address
  forgotten by an insertion is the one whose way was taken. `SameOperation` adds
  that an insertion of an address is the map's insertion of that address, which
  `BlockMap`'s own next-state relation, a disjunction over all addresses, would
  not tell apart.
  `FullSetsArePinned`: for 4096 sets and 4 ways the eviction bits are bits 2
  and 3 of the set index, so all addresses of a set evict the same way.
* `EngineProofs`, the engine. `EngineTyped`, with `Apart`: two blocks never start at the same
  place, as a compiled block moves the write position. `EngineUsesCache`: the engine
  implements `BlockCache`, so the cache's theorems hold in it
  (`EngineCacheNeverLies`: the refinement of `BlockMap`, in every behaviour of the
  engine). `ClearRequestsTakeEffect`: the invariant `Recent` says
  that while no clear is pending every block is as recent as the last request asks
  for; the acknowledgement may wipe out a request because at that moment there are
  no blocks at all. `DispatchIsSound`: every filled cache entry and the pointer about to be
  called lead to the start of a complete block for their address, in every behaviour
  without the overflow reset. That hypothesis is what `engine_stale_cache` shows to
  be needed; `DispatchIsSoundOnDual` discharges it for the mapping of Linux and
  Windows. `GuestErrorsAreReported`: for any buffer, full or not. Whatever status the
  assembler and the compiler were left in, the loop of translate overwrites the compiler's
  when it meets a hole or a trap, and a run that leaves with an error carries
  it (`Reported`). An overflow has no such guarantee: `engine_lost_error`.
* `LifecycleProofs`. `LifecycleTyped`, `FreedOnce`, `DestroyReclaimsAll` and
  `FaultsBlamed`, for any number of engines, processes, inits and crashes and any
  limits. The invariant has, for each engine, what its init has acquired at each
  step and which pointers are set (`Holds`, `Pointers`), that its blocks tile the
  buffer from the start, and that the registry holds those with mappings in the order
  of their code, all of them up to the point where it overflowed (`Tiled`,
  `Registered`). The k-th mapping of a block is never behind the start of the
  k-th instruction's code (`Formed`), so the scan of the signal handler, which stops at
  the first mapping past the fault, gets to the mapping of the faulting instruction or
  of a later one, or to the last (`ScanStops`).
* `FuzzerIpcProofs`. `MatchesAreReal`, `NoWorkerIsLeft` and `PipesFit`, for messages
  of any number of parts. The invariant says for each worker where its message is:
  how much of the input is in the pipe or read, which parts of the answer are in the
  pipe or received, and that both agree with the steps of the coordinator and of the
  worker. `NoWorkerIsLeft` ties the coordinator's step to the workers that it has
  spawned and not reaped.
* `ArmAssemblerProofs`. `AssemblerTyped`: the arguments that pass the checks of a
  function fit their fields, so no word has a bit above 31 (`EncodeFits`).
  `ErrorsStop` and `WritesInside` follow from what a call can do to the state
  (`EmitOutcome`). `BufferReadsBack` reduces `RoundTrip` to single words: every word
  below the offset is the encoding of the call that wrote it, so if each word decodes
  to its call, any buffer does after any history. That each word does is a
  statement about the decoder's table, which the run `arm_codec` evaluates.
* `Tier1CompilerProofs`. For all guest programs, of any length and over any number of
  pages, and all sizes of window and debug map. Three inductive invariants, each of
  which uses the one before it:
  - `PathInv` (`TranslationKeepsItsWay`) follows the translation through the program:
    until the block ends the address is the start plus four times the count, the
    index `i` counts from the last fetch (`Base`), and a fetch that is not the first
    is in a later page, past the program or at a word that does not decode.
    `LimitBoundsTheBlock` follows: `i` is bounded by the limit, and a count above it
    means that there was a second fetch, hence a later page. `LimitHolds` alone says
    nothing about `i` and is not inductive.
  - `MapsInv` (`DebugMapStaysInOrder`) says where an entry of the debug map points: to
    the end of a prefix of the code all of which is tagged with earlier instructions
    (`Placed`). Code still in the window is not in that prefix and is tagged with the
    current instruction or an earlier one (`Tagged`), so a later flush cannot put
    code of the entry's instruction in front of its offset. `DebugMapIsUsable` follows.
  - `RunsInv` (`CodeRunsOn`) says what a host does with the code that is there at each
    moment, queue included, although the model runs it only at the end: up to the
    last instruction it runs through (`Open`) with the five saved registers on the
    stack, nothing counted and no jump under way; then it returns (`Complete`), or
    leaves with the branch (`Closed`). Each `translate_*` is
    shown to append only macros that leave stack, saved registers and count alone
    (`QuietTrace`). For a conditional branch the bytes of the epilogue that the jump
    passes over are added up and are what `EpilogueSize` computed before they were
    emitted, whatever registers are dirty (`PassesOver`). `BlocksReturn` and
    `BlocksCount`, for blocks that do not end in a conditional branch, follow.

  What the emitted code computes does not enter: of the decoder's table only
  `BranchesAssumption` is used.

The inductive invariants were also checked by TLC, on the run's instance or a part of it.

Assumptions: sets and ways are positive, `Pc` is a set of numbers that does not hold
the sentinel, `NULL` is not code; capacities, the window and the modulus are
positive; guest blocks and flags have their types; guest register numbers are within
0..31 and scratch registers within 0..15, at least one of them, at most sixteen, and
not R11, which holds discarded results; the cursor's range is positive; there are
finitely many engines and processes; a block has room for a mapping, and jumps go to
offsets that are numbers; an input has at least one part; the
arguments of an emit call have the types of the function's parameters; pages, limits
and the window are not empty, guest programs are sequences over their vocabulary
(`ProgramsAssumption`), and where the compiler finds a branch in a word there is one,
with the condition that it reads (`BranchesAssumption`), and no entry has the opcodes
of CBZ and CBNZ (`ZeroBranchesTrap`); these two are facts of table and encodings.
TLC evaluates each of them on the runs.

Only model-checked:

* Liveness (`StopEnds`, `InterruptYields`, `ClearServed`, `TranslateEnds`,
  `NameIsReleased`, `CoordinatorEnds`, `WorkersFollow`), which is out of reach of the
  prover.
* `Decoder` and `DecoderCli`: statements about the 1153 entries of a constant table,
  which TLC evaluates and a prover would have to expand.
* `MatchesGuest`. It compares two interpreters on words whose operands are cut out of
  sets of bits by way of the decoder's table. For all programs it is not true as it
  stands: MOVZ, for one, stores its result when the destination is register 31, and ARM
  discards it (section 5). The instance has no such program; a theorem would have to
  exclude them, and needs a bit-level account of MOVK and AND besides.

## 5. Observations

What the code does, visible in the definition named, where a reader might expect
something else. The three that contradict a statement of the repository in a way a
run can show are refuted runs (section 3). The properties of the other runs hold with
these behaviours in the model; where one limits a property, the property says so.

Engine, assembler and allocator:

| behaviour | source | definition |
|---|---|---|
| the exchange that claims the engine stores false, so `bal_engine_is_running` is always false and a second run is never refused | `bal_engine.c:295` | `Engine!Run` |
| an emit after the overflow may replace the error code, and the reset is not tried | `bal_engine.c:376` | `X86Assembler!OverwritesError` |
| clearing the interrupt loses a flag another thread sets between the read and the write | `bal_engine.c:330` | `Engine!TakeInterrupt` |
| an overflow in the epilogue alone leaves `compiler.status` at success, and that is what the run returns (run `engine_lost_error`) | `bal_engine.c:399` | `Engine!CompileError` |
| the overflow reset keeps the block cache (run `engine_stale_cache`) | `bal_engine.c:381` | `Engine!CompileAfterReset` |
| an engine in an error state runs cached blocks when started again | `bal_engine.c:289` | `Engine!Run` |
| `bal_x86_assembler_reset` zeroes the buffer through the executable view too, which faults on Linux and Windows | `bal_x86_assembler.c:109` | `Engine!CanReset` |
| push, pop and jmp of R8..R15 check one byte less than they write (run `assembler_overrun`) | `bal_x86_assembler.c:264, 869, 926` | `X86Assembler!EmittedSize` |
| an operand can be evicted by the allocation of the next | `bal_x86_tier1_compiler.c:649` | `RegisterAllocator!allocate_x86_register` |
| the second use of a guest register in R15 is reported as corruption | `bal_x86_tier1_compiler.c:567` | `RegisterAllocator!Hit` |
| the scan for clean victims takes slot numbers for register numbers | `bal_x86_tier1_compiler.c:633` | `RegisterAllocator!CleanLow` |
| TEST has no lowering and is dropped | `bal_x86_sliding_window.c:313` | `SlidingWindow!Lowered` |
| B and RET of the ARM64 assembler replace an earlier error by their own | `bal_assembler.c:330` | `ArmAssembler!Emit` |

Decoder:

* The script counts mask bits with a loop that stops on negative numbers. A mask
  with bit 31 gets priority 0, so for most instructions the entries of a bucket
  are ordered by their expected bits only. 323 entries are never returned, most
  of them aliases (CMP, CMN, TST, MOV). `SameOperation` shows that the operation
  is unaffected, and in fact the compiler depends on the order: it reads the
  operands of CMP at the places of SUBS.
* Five pairs of entries tie and are left to an unstable sort. Both of a pair have
  the same operation.
* Opcodes are assigned by mnemonic, so vector and SVE entries called ADD or AND
  carry the scalar opcode. With the extended-register forms of ADD and SUB (taken
  for immediate forms), the immediate forms of AND and ORR (taken for register
  forms), ADDG, SUBG and the 32-bit forms (translated as 64-bit), they make up
  `KnownMisread`.
* SUBP has SUB's opcode and no supported operands: the block ends without an error
  at its own PC.

Tier 1:

* MOV between registers is decoded as the ORR it stands for; its source is then
  read from the wrong operand and the block ends on the MOV itself.
* ADD and SUB with rd = rm overwrite rm before it is read.
* The taken side of a conditional branch pops RBP only
  (`bal_x86_tier1_compiler.c:842`), so it does not return to its caller.
  `ReturnsUnlessTaken` shows that all other paths do.
* The instruction count is emitted after both epilogues of a conditional branch
  and never reached, so such a block counts nothing, although
  `include/bal_engine_flags.h:29` says that executed instructions are tracked. `Counts`
  is about the other blocks.
* The debug map takes the offset before the window is flushed, so it may be short
  of an instruction's code, and for a jump holds the target's guest offset. After
  `MAX_MAPPINGS` instructions it has no more entries.
* The instruction limit counts from the last fetch, and a block that it ends
  leaves the PC on its last instruction, as does a single step.
* A word that does not decode is decoded again for ever
  (`bal_x86_tier1_compiler.c:281`).
* WFI is decoded as HINT, so the flag that makes it yield has no effect.
* Register 31 is an ordinary slot of `bal_cpu_t`; nothing keeps it zero.

Life cycle:

* Resetting the assembler (`bal_engine_reset`, a clear request, an overflow) writes to
  a read-only view on Linux: the process dies (`Reset`). With an allocator whose one
  view is writable it would survive, and old entries of the debug registry with it,
  which shadow those of new code at the same place (`bal_jit_debug.c:169`).
* When the executable buffer cannot be allocated the state is not freed
  (`bal_engine.c:236`). The path for a compiler that cannot be initialised
  (`bal_engine.c:265-274`) is not reachable with the default allocator and not modelled.
* The descriptor of the shared memory is never closed (`bal_memory.c:288`), and
  when the second view cannot be mapped the first is kept (`bal_memory.c:278`).
  `include/bal_engine.h:189` says that destroy frees all internal resources;
  `DestroyReclaims` is about those within its reach.
* A fault may be blamed on a later instruction than the one at fault, and for a jump on
  its target, because of the debug map (see tier 1), although
  `include/bal_jit_debug.h:3-5` says that RIP is mapped back to the original guest PC.
  `FaultsAreBlamedRightly` shows that it is never another block, nor an earlier
  instruction unless only earlier ones have mappings.
* The name of the shared memory is a constant. Two inits at the same time collide,
  and a process that dies between `shm_open` and `shm_unlink` leaves the name
  behind: later inits fail until someone removes it.
* Destroying one engine restores the default signal action for all.
* A destroy leaves `cpu->debug_context` pointing to freed memory, and an init
  whose debug context cannot be allocated does not overwrite it.
* The overflow of the registry is final, and clearing the cache does not clear
  the registry.

Fuzzer:

* A mismatch ends `main` with exit code 0.
* Unicorn's status and the message numbers are not checked. The status for an
  unknown instruction is behind the last one that the coordinator accepts and is
  taken for a corrupted struct.
* The Unicorn worker answers OK when the sentinel could not be written; such an
  answer does not match Ballistic's (`MatchIsReal`).
* Nothing is said about SIGPIPE: unless it was started with the signal ignored,
  writing to a dead worker ends the coordinator.
  `WorkersFollow` shows that the workers end nevertheless.
* There is no timeout for a hung worker.
* The Ballistic worker runs its engine even if its init failed, and dies.

## 6. Not modelled

`PROJECT.json` lists every component with its status. Left out for good: the bytes
of x86 instructions, logging, assertion and error texts, 2703 trapping SIMD, SVE
and SME entries of the decoder table, the Lua generators but for the order of the
table, the documentation tool, vendored code. The Windows and macOS variants of the
executable memory differ in calls, not in the order of what the engine does;
their one visible difference, whether a view is writable, is `Engine!Mapping`.

## 7. Plan

Done: all components of the inventory have a module.

Theorems: all safety properties of `BlockCache`, `X86Assembler`, `SlidingWindow`,
`RegisterAllocator`, `Engine`, `Lifecycle`, `FuzzerIpc` and `ArmAssembler` that the code
keeps, and all of `Tier1Compiler` but `MatchesGuest` are proved. To
add: `MatchesGuest` for programs without an instruction that writes register 31, one
instruction form at a time, from a simulation between `ArmStep` and the macros of one
`translate_*`.

To model further: the clear handshake under x86-TSO store buffers.
