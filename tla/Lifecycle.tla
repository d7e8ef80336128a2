----------------------------- MODULE Lifecycle -----------------------------
(***************************************************************************)
(* Engines coming and going on Linux: bal_engine_init and                  *)
(* bal_engine_destroy with everything they acquire (the engine state, the  *)
(* executable buffer of bal_default_allocate_executable, the JIT debug     *)
(* context, the process's signal handler and cpu->debug_context), the      *)
(* registry of compiled blocks, and what the signal handler makes of a     *)
(* fault in JIT code.  Several engines live in one process or in several;  *)
(* processes die at any point and start anew.                              *)
(*                                                                         *)
(* One step of an init is what lies between two accesses to the name of    *)
(* the shared memory object, which all processes share.  A position in the *)
(* buffer stands for the code of one guest instruction or for a prologue.  *)
(***************************************************************************)
EXTENDS Naturals, Sequences, SequencesExt, FiniteSets, FiniteSetsExt

CONSTANTS
    Engines, Processes,
    Busy,               \* the engines that get to compile guest code
    MaxInits,           \* calls of bal_engine_init for one engine
    MaxCrashes,         \* deaths of processes
    BUFFER_SIZE,        \* tier1_buffer_size, in instructions
    ENTRY_CAPACITY,     \* BAL_JIT_DEBUG_ENTRY_CAPACITY
    ARENA_CAPACITY,     \* arena_capacity; a header or a mapping takes one unit
    MAX_MAPPINGS,       \* the mappings of one block, 2048
    JumpOffsets         \* where jumps go, relative to the start of their block

ASSUME EngineAssumption == Engines # {} /\ IsFiniteSet(Engines)
ASSUME ProcessAssumption == Processes # {} /\ IsFiniteSet(Processes)
ASSUME BoundAssumption ==
    /\ {MaxInits, MaxCrashes, BUFFER_SIZE, ENTRY_CAPACITY, ARENA_CAPACITY} \subseteq Nat
    /\ MAX_MAPPINGS \in Nat \ {0}
ASSUME JumpAssumption == JumpOffsets \subseteq Nat

VARIABLES
    host,           \* the process that an engine belongs to
    alive,          \* the processes that run
    handler,        \* a process's action for SIGSEGV and SIGILL
    shm_name,       \* whether "/ballistic_jit_compiler_shm" exists
    call,           \* where an engine's init is, or what the engine does
    engine_state,   \* whether engine->engine_state is not NULL
    inits,          \* how often the engine was initialised
    memory,         \* live allocations of the engine's current state
    lost,           \* kinds of resources that nothing refers to any more
    debug_pointer,  \* cpu->debug_context: the init that set it, 0 for NULL
    context,        \* the debug context
    blocks,         \* the blocks in the buffer
    crashes,
    orphaned,       \* ghost: a process died between shm_open and shm_unlink
    freed_twice     \* ghost: something was freed that was not allocated

engines == <<call, engine_state, inits, memory, lost, debug_pointer, context, blocks>>
vars == <<host, alive, handler, shm_name, engines, crashes, orphaned, freed_twice>>

Calls == {"idle", "shm_open", "shm_unlink", "map", "debug", "compiler", "running"}
Allocation == {"state", "buffer", "entries", "arena"}

NoContext == [entries |-> <<>>, arena_offset |-> 0, status |-> "none"]
FreshContext == [NoContext EXCEPT !.status = "BAL_SUCCESS"]

Init ==
    /\ host \in [Engines -> Processes]
    /\ alive = Processes
    /\ handler = [p \in Processes |-> "SIG_DFL"]
    /\ shm_name = FALSE
    /\ call = [e \in Engines |-> "idle"]
    /\ engine_state = [e \in Engines |-> FALSE]
    /\ inits = [e \in Engines |-> 0]
    /\ memory = [e \in Engines |-> {}]
    /\ lost = [e \in Engines |-> {}]
    /\ debug_pointer = [e \in Engines |-> 0]
    /\ context = [e \in Engines |-> NoContext]
    /\ blocks = [e \in Engines |-> <<>>]
    /\ crashes = 0
    /\ orphaned = FALSE
    /\ freed_twice = FALSE

At(e, where) == call[e] = where /\ host[e] \in alive
Goto(e, where) == call' = [call EXCEPT ![e] = where]
Keeps(e, allocations) == memory' = [memory EXCEPT ![e] = allocations]

-----------------------------------------------------------------------------
(* bal_engine_init.                                                        *)

\* Its arguments are valid, and the engine is not initialised already.
BeginInit(e) ==
    /\ At(e, "idle")
    /\ ~engine_state[e]
    /\ inits[e] < MaxInits
    /\ inits' = [inits EXCEPT ![e] = @ + 1]
    /\ \/ UNCHANGED <<call, memory>>                    \* allocate returned NULL
       \/ Goto(e, "shm_open") /\ Keeps(e, {"state"})
    /\ UNCHANGED <<host, alive, handler, shm_name, engine_state, lost, debug_pointer, context,
                   blocks, crashes, orphaned, freed_twice>>

\* allocate_executable failed: init returns and forgets the state, which
\* engine_state does not point to yet, so no destroy will ever free it.
GiveUp(e, others) ==
    /\ Goto(e, "idle")
    /\ Keeps(e, {})
    /\ lost' = [lost EXCEPT ![e] = @ \union {"unfinished state"} \union others]

\* The name is exclusive: shm_open fails while any process has it.
ShmOpen(e) ==
    /\ At(e, "shm_open")
    /\ IF shm_name THEN GiveUp(e, {}) /\ UNCHANGED shm_name
       ELSE Goto(e, "shm_unlink") /\ shm_name' = TRUE /\ UNCHANGED <<memory, lost>>
    /\ UNCHANGED <<host, alive, handler, engine_state, inits, debug_pointer, context, blocks,
                   crashes, orphaned, freed_twice>>

\* Mutant: the name is kept until the engine is destroyed.
ShmUnlink_kept(e) ==
    /\ At(e, "shm_unlink")
    /\ Goto(e, "map")
    /\ UNCHANGED <<host, alive, handler, shm_name, engine_state, inits, memory, lost,
                   debug_pointer, context, blocks, crashes, orphaned, freed_twice>>

ShmUnlink(e) ==
    /\ At(e, "shm_unlink")
    /\ shm_name' = FALSE
    /\ Goto(e, "map")
    /\ UNCHANGED <<host, alive, handler, engine_state, inits, memory, lost, debug_pointer,
                   context, blocks, crashes, orphaned, freed_twice>>

\* ftruncate and two mmaps.  The descriptor is closed only if ftruncate fails.
\* Without the writable view the executable one is not unmapped.
MapBuffer(e) ==
    /\ At(e, "map")
    /\ \/ GiveUp(e, {})                                 \* ftruncate failed
       \/ GiveUp(e, {"fd"})                             \* no rx_ptr
       \/ GiveUp(e, {"fd", "view"})                     \* no rw_ptr, or neither
       \/ /\ Goto(e, "debug")
          /\ Keeps(e, {"state", "buffer"})
          /\ lost' = [lost EXCEPT ![e] = @ \union {"fd"}]
    /\ UNCHANGED <<host, alive, handler, shm_name, engine_state, inits, debug_pointer, context,
                   blocks, crashes, orphaned, freed_twice>>

SetDebugPointer(e) == debug_pointer' = [debug_pointer EXCEPT ![e] = inits[e]]

\* bal_jit_debug_init and the registration of the signal handler.  If either of
\* its allocations fails the engine goes on without a context, and cpu keeps the
\* pointer it had.
DebugInit(e) ==
    /\ At(e, "debug")
    /\ Goto(e, "compiler")
    /\ \/ UNCHANGED <<memory, handler, debug_pointer, context>>
       \/ /\ Keeps(e, Allocation)
          /\ handler' = [handler EXCEPT ![host[e]] = "segv_handler"]
          /\ SetDebugPointer(e)
          /\ context' = [context EXCEPT ![e] = FreshContext]
    /\ UNCHANGED <<host, alive, shm_name, engine_state, inits, lost, blocks, crashes, orphaned,
                   freed_twice>>

\* bal_tier1_compiler_init succeeds on a buffer with both views: the default
\* allocator never lets init reach its failure path.
FinishInit(e) ==
    /\ At(e, "compiler")
    /\ Goto(e, "idle")
    /\ engine_state' = [engine_state EXCEPT ![e] = TRUE]
    /\ blocks' = [blocks EXCEPT ![e] = <<>>]
    /\ UNCHANGED <<host, alive, handler, shm_name, inits, memory, lost, debug_pointer, context,
                   crashes, orphaned, freed_twice>>

-----------------------------------------------------------------------------
(* Running, with BAL_ENGINE_FLAG_JIT_DEBUG set.                            *)

bal_engine_run_thread(e) ==
    /\ At(e, "idle")
    /\ engine_state[e]
    /\ Goto(e, "running")
    /\ UNCHANGED <<host, alive, handler, shm_name, engine_state, inits, memory, lost,
                   debug_pointer, context, blocks, crashes, orphaned, freed_twice>>

\* Mutant: a full arena is found out after the entry was made.
bal_jit_debug_add_block_unchecked(c, block) ==
    IF c.status # "BAL_SUCCESS" THEN c
    ELSE IF Len(c.entries) >= ENTRY_CAPACITY
    THEN [c EXCEPT !.status = "BAL_ERROR_BUFFER_OVERFLOW"]
    ELSE [c EXCEPT !.entries = Append(@, block),
                   !.arena_offset = @ + Len(block.mappings) + 1]

\* An overflow is final: no block is added after it.
bal_jit_debug_add_block(c, block) ==
    IF c.status # "BAL_SUCCESS" THEN c
    ELSE IF \/ Len(c.entries) >= ENTRY_CAPACITY
            \/ c.arena_offset + Len(block.mappings) + 1 > ARENA_CAPACITY
    THEN [c EXCEPT !.status = "BAL_ERROR_BUFFER_OVERFLOW"]
    ELSE [c EXCEPT !.entries = Append(@, block),
                   !.arena_offset = @ + Len(block.mappings) + 1]

\* The end of the code in the buffer.
CodeEnd(e) == IF blocks[e] = <<>> THEN 0 ELSE Last(blocks[e]).start + Last(blocks[e]).size

\* The guest offsets that the compiler notes for the instructions of a block of
\* count.  They are their own, except that a jump, which ends its block, has moved
\* guest_address to its target by then.
GuestOffsets(count) ==
    {[k \in 1 .. count |-> IF k = count THEN last ELSE 4 * (k - 1)] :
        last \in JumpOffsets \union {4 * (count - 1)}}

\* The code offsets that it notes for the first n of them: where the assembler is
\* before an instruction is translated.  Code of instructions before it may
\* still wait in the sliding window, so an offset may lag behind the code.
CodeOffsets(n) ==
    {f \in [1 .. n -> 1 .. n] :
        /\ \A k \in 1 .. n : f[k] <= k
        /\ \A j, k \in 1 .. n : j <= k => f[j] <= f[k]}

\* A block after a prologue, whose instructions are noted at the guest offsets
\* pcs; its guest address is the next multiple of 100.  Only the first
\* instructions get a mapping, one for each of offsets.  A block with none (it
\* yields at its first instruction) is not registered.
Compile(e, pcs, offsets) ==
    LET block == [start |-> CodeEnd(e), size |-> Len(pcs) + 1,
                  base |-> 100 * (Len(blocks[e]) + 1), pcs |-> pcs,
                  mappings |-> [k \in 1 .. Len(offsets) |-> [x86_offset |-> offsets[k],
                                                             guest_pc_offset |-> pcs[k]]]]
        debug_enabled == "entries" \in memory[e]
    IN  /\ At(e, "running")
        /\ e \in Busy
        /\ block.start + block.size <= BUFFER_SIZE
        /\ blocks' = [blocks EXCEPT ![e] = Append(@, block)]
        /\ context' = [context EXCEPT ![e] = IF debug_enabled /\ Len(offsets) > 0
                                             THEN bal_jit_debug_add_block(@, block) ELSE @]
        /\ UNCHANGED <<host, alive, handler, shm_name, call, engine_state, inits, memory, lost,
                       debug_pointer, crashes, orphaned, freed_twice>>

Return(e) ==
    /\ At(e, "running")
    /\ Goto(e, "idle")
    /\ UNCHANGED <<host, alive, handler, shm_name, engine_state, inits, memory, lost,
                   debug_pointer, context, blocks, crashes, orphaned, freed_twice>>

-----------------------------------------------------------------------------
(* bal_engine_destroy, of an engine that does not run.                     *)

\* Mutant: the arena is forgotten.
Freed_without_arena == Allocation \ {"arena"}

\* The allocations that destroy frees, if they were made.
Freed == Allocation

\* Mutant: the engine is not cleared.
Cleared_not(e) == engine_state' = engine_state

Cleared(e) == engine_state' = [engine_state EXCEPT ![e] = FALSE]

\* The signal actions are those of the whole process.  cpu->debug_context stays.
bal_engine_destroy(e) ==
    /\ At(e, "idle")
    /\ IF engine_state[e]
       THEN /\ handler' = [handler EXCEPT ![host[e]] = "SIG_DFL"]
            /\ freed_twice' = (freed_twice \/ "state" \notin memory[e])
            /\ lost' = [lost EXCEPT ![e] = @ \union (memory[e] \ Freed)]
            /\ Keeps(e, {})
            /\ context' = [context EXCEPT ![e] = NoContext]
            /\ blocks' = [blocks EXCEPT ![e] = <<>>]
            /\ Cleared(e)
       ELSE UNCHANGED <<handler, freed_twice, lost, memory, context, blocks, engine_state>>
    /\ UNCHANGED <<host, alive, shm_name, call, inits, debug_pointer, crashes, orphaned>>

-----------------------------------------------------------------------------
(* Faults.                                                                 *)

\* A process ends; the system takes its memory back.
Dies(p) ==
    LET of(f, value) == [e \in Engines |-> IF host[e] = p THEN value ELSE f[e]]
    IN  /\ crashes < MaxCrashes
        /\ crashes' = crashes + 1
        /\ alive' = alive \ {p}
        /\ handler' = [handler EXCEPT ![p] = "SIG_DFL"]
        /\ orphaned' = (orphaned \/ \E e \in Engines : host[e] = p /\ call[e] = "shm_unlink")
        /\ call' = of(call, "idle")
        /\ engine_state' = of(engine_state, FALSE)
        /\ memory' = of(memory, {})
        /\ lost' = of(lost, {})
        /\ debug_pointer' = of(debug_pointer, 0)
        /\ context' = of(context, NoContext)
        /\ blocks' = of(blocks, <<>>)
        /\ UNCHANGED <<host, shm_name, inits, freed_twice>>

\* Of any cause.
Crash(p) == p \in alive /\ Dies(p)

\* The running engine meets a clear request or a full buffer and resets the
\* assembler, which zeroes the buffer through both its views: writing to the
\* executable one faults, outside JIT code.
Reset(e) == At(e, "running") /\ Dies(host[e])

Restart(p) ==
    /\ p \notin alive
    /\ alive' = alive \union {p}
    /\ UNCHANGED <<host, handler, shm_name, engines, crashes, orphaned, freed_twice>>

\* Mutant: the mapping at the faulting offset itself is not looked at.
Reaches_strictly(mapping, block_offset) == mapping.x86_offset < block_offset

Reaches(mapping, block_offset) == mapping.x86_offset <= block_offset

\* What the signal handler reports of a fault at position rip of the buffer in
\* JIT code of e, where RBP is its bal_cpu_t: a guest PC, "unknown block", nothing
\* ("silent"), or anything at all because cpu->debug_context dangles.
handle_jit_fault(e, rip) ==
    LET c == context[e]
        hit == {k \in DOMAIN c.entries :
                    c.entries[k].start <= rip /\ rip < c.entries[k].start + c.entries[k].size}
        entry == c.entries[Min(hit)]
        reached == {k \in DOMAIN entry.mappings :
                        \A j \in 1 .. k : Reaches(entry.mappings[j], rip - entry.start)}
        said(what) == [what |-> what, pc |-> 0]
    IN  IF handler[host[e]] = "SIG_DFL" \/ debug_pointer[e] = 0 THEN said("silent")
        ELSE IF debug_pointer[e] # inits[e] THEN said("undefined")
        ELSE IF hit = {} THEN said("unknown block")
        ELSE [what |-> "guest PC",
              pc |-> IF reached = {} THEN entry.base
                     ELSE entry.base + entry.mappings[Max(reached)].guest_pc_offset]

Next ==
    \/ \E e \in Engines :
        \/ BeginInit(e) \/ ShmOpen(e) \/ ShmUnlink(e) \/ MapBuffer(e) \/ DebugInit(e)
        \/ FinishInit(e)
        \/ bal_engine_run_thread(e) \/ Return(e)
        \/ \E count \in 0 .. BUFFER_SIZE :
               \E pcs \in GuestOffsets(count), offsets \in CodeOffsets(Min({count, MAX_MAPPINGS})) :
                   Compile(e, pcs, offsets)
        \/ Reset(e)
        \/ bal_engine_destroy(e)
    \/ \E p \in Processes : Crash(p) \/ Restart(p)

\* A call of bal_engine_init that has begun goes on: nothing in it waits.
Fairness == \A e \in Engines : WF_vars(ShmUnlink(e))

Spec == Init /\ [][Next]_vars /\ Fairness

-----------------------------------------------------------------------------
\* Every variable has its type; what the engine's init has not got yet is not
\* among its allocations, and the registry keeps inside its arrays.
TypeOK ==
    /\ host \in [Engines -> Processes]
    /\ alive \subseteq Processes
    /\ handler \in [Processes -> {"SIG_DFL", "segv_handler"}]
    /\ {shm_name, orphaned, freed_twice} \subseteq BOOLEAN
    /\ call \in [Engines -> Calls]
    /\ engine_state \in [Engines -> BOOLEAN]
    /\ memory \in [Engines -> SUBSET Allocation]
    /\ \A e \in Engines :
        /\ inits[e] \in 0 .. MaxInits /\ debug_pointer[e] \in 0 .. inits[e]
        /\ Len(context[e].entries) <= ENTRY_CAPACITY
        /\ context[e].arena_offset <= ARENA_CAPACITY

\* Destroying an engine that was never initialised, whose init failed, or that
\* was destroyed before frees nothing twice, and an engine that can run has its
\* state and its buffer.
NothingFreedTwice ==
    /\ ~freed_twice
    /\ \A e \in Engines : engine_state[e] => {"state", "buffer"} \subseteq memory[e]

\* When no init is under way and the engine is destroyed nothing that destroy
\* could free is left: neither memory the engine still holds nor any that nothing
\* refers to, whichever of its allocations had failed.  The header says more
\* ("frees all internal resources"): the descriptor of the shared memory, which
\* allocate_executable drops, and what a failed init forgot are beyond its reach.
DestroyReclaims ==
    \A e \in Engines : call[e] = "idle" /\ ~engine_state[e] =>
        memory[e] = {} /\ lost[e] \intersect Allocation = {}

\* The handler may answer pc for a fault at position rip: it is what the compiler
\* noted for an instruction of the very block, and not for one before that at rip
\* unless no later one has a mapping.  The prologue counts as the block's start.
Blamable(e, rip, pc) ==
    \E b \in Range(blocks[e]) :
        /\ b.start <= rip /\ rip < b.start + b.size
        /\ IF rip = b.start THEN pc = b.base
           ELSE \E k \in DOMAIN b.mappings :
                    /\ pc = b.base + b.pcs[k]
                    /\ k >= rip - b.start \/ k = Len(b.mappings)

\* Whatever fault JIT code runs into, the handler never blames another block or,
\* among the instructions with a mapping, an earlier one (it may blame a later
\* one, and a jump's target for the jump).  It knows no more than the buffer only
\* if the registry has overflowed or the block has no mapping, and it says nothing
\* only if the engine has no context or if another engine of the process that had
\* one has it no longer: destroying that engine took the handler away from all.
FaultsAreBlamedRightly ==
    \A e \in Engines : call[e] = "running" =>
        \A rip \in 0 .. CodeEnd(e) - 1 :
            LET report == handle_jit_fault(e, rip)
            IN  CASE report.what = "silent" ->
                        \/ "entries" \notin memory[e]
                        \/ \E f \in Engines \ {e} :
                               host[f] = host[e] /\ inits[f] > 0 /\ "entries" \notin memory[f]
                  [] report.what = "unknown block" ->
                        \/ context[e].status = "BAL_ERROR_BUFFER_OVERFLOW"
                        \/ \E b \in Range(blocks[e]) : b.start = rip /\ b.mappings = <<>>
                  [] report.what = "undefined" -> "entries" \notin memory[e]
                  [] report.what = "guest PC" -> Blamable(e, rip, report.pc)

\* The name of the shared memory object is given back, so that other engines
\* can be initialised, unless a process died between creating and removing it:
\* then it stays.
NameIsReleased == shm_name ~> (~shm_name \/ orphaned)
=============================================================================
