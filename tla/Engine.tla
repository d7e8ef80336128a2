------------------------------- MODULE Engine -------------------------------
(***************************************************************************)
(* The run loop of the execution engine (bal_engine_run_thread) with the   *)
(* host threads that control it: bal_engine_stop_thread,                   *)
(* bal_engine_clear_cache, writes to engine->flags, and writes to guest    *)
(* memory.  The loop composes the block cache (BlockCache), the assembler  *)
(* that fills the executable buffer (X86Assembler) and the tier 1          *)
(* compiler, of which this module keeps what the engine can observe:       *)
(* emitted bytes, status and entry point.                                  *)
(*                                                                         *)
(* One step of the engine thread is one access to state that the host can  *)
(* change in between.  Host code pointers are offsets into the executable  *)
(* buffer.                                                                 *)
(***************************************************************************)
EXTENDS BlockCache, Sequences, SequencesExt

CONSTANTS
    SENTINEL,       \* BAL_ENGINE_SENTINEL, not in Pc
    Guest,          \* Guest[pc]: the block at pc, see GuestBlock
    capacity,       \* bytes in the tier 1 buffer, 16 MiB in the program
    Mapping,        \* kind of executable memory the allocator returned
    HostOps,        \* which of "stop", "clear" and "patch" the host calls
    HostFlags,      \* the flags the host sets and clears
    InitialFlags,   \* the values engine->flags may have when the host starts
    MaxPatches      \* bound on the host's writes to guest code

\* engine->flags that the loop looks at.
INTERRUPT_PENDING == "INTERRUPT_PENDING"
SINGLE_STEP == "SINGLE_STEP"
DISABLE_BLOCK_CACHE == "DISABLE_BLOCK_CACHE"
Flags == {INTERRUPT_PENDING, SINGLE_STEP, DISABLE_BLOCK_CACHE}

\* "dual": a writable and an executable view of the same pages (the Linux and
\* Windows allocators).  "rwx": one view that is both (the Apple allocator on an
\* x86-64 host, where pthread_jit_write_protect_np changes nothing).  protect_rw
\* and protect_rx have no effect in either.
Mappings == {"dual", "rwx"}

VARIABLES
    label,                  \* where the engine thread is
    is_executing, stop_requested, clear_cache_requested,    \* thread_state
    flags, flags_read,      \* engine->flags, and what the loop's &= read of it
    status,                 \* engine->status
    asm, compiler_status,   \* compiler.assembler and compiler.status
    cpu_pc,                 \* engine->cpu->pc
    entry_point,
    exit_reason, returned,  \* why the loop was left, what the call returned
    jit,                    \* the blocks that stand complete in the buffer
    guest_version,          \* how often guest code was rewritten
    must_see, must_run      \* ghosts of ClearTakesEffect, see below

Labels == {"idle", "check_stop", "check_clear", "clear", "ack_clear",
           "check_interrupt", "take_interrupt", "lookup", "compile", "publish",
           "execute", "after_execute", "leave", "spin", "fault"}

controls == <<is_executing, stop_requested, clear_cache_requested>>
compiler == <<asm, compiler_status, jit>>
guest    == <<guest_version, must_see, must_run>>
outcome  == <<exit_reason, returned>>
vars == <<label, controls, flags, flags_read, status, compiler, block_cache,
          cpu_pc, entry_point, outcome, guest>>

Offset == 0 .. capacity + 1

X86 == INSTANCE X86Assembler

SUCCESS == X86!SUCCESS
MEMORY_FAULT == "BAL_ERROR_MEMORY_FAULT"
UNKNOWN_INSTRUCTION == "BAL_ERROR_UNKNOWN_INSTRUCTION"
ALREADY_RUNNING == "BAL_ERROR_ENGINE_ALREADY_RUNNING"
Status == X86!AsmStatus \union {MEMORY_FAULT, UNKNOWN_INSTRUCTION}

\* What the tier 1 compiler makes of the guest block at an address.  kind
\* "code" ends in a branch or RET to one of next.  The others are about the
\* word at the address itself: "trap", an instruction the compiler rejects;
\* "unmapped", outside guest memory; "undecodable", bal_decode_arm64 has no
\* entry for it.  The macros of the block reach the assembler while
\* instructions are translated (early) or when the block is terminated (late);
\* first are those of the first instruction, when it is compiled alone.  alone:
\* the branch is the first instruction.  allocates: the first instruction needs
\* a register.
Macro == Seq(X86!Instr)
GuestBlock == [kind : {"code", "trap", "unmapped", "undecodable"},
               next : SUBSET (Pc \union {SENTINEL}),
               early : Seq(Macro), late : Seq(Macro), first : Seq(Macro),
               alone : BOOLEAN, allocates : BOOLEAN, is_pc_dynamic : BOOLEAN]

ASSUME BufferAssumption == capacity \in Nat \ {0} /\ Code = Offset
ASSUME SentinelAssumption == SENTINEL \notin Pc
ASSUME GuestAssumption == Guest \in [Pc -> GuestBlock]
ASSUME HostAssumption == HostFlags \subseteq Flags /\ InitialFlags \subseteq SUBSET Flags

-----------------------------------------------------------------------------
(* The tier 1 compiler, as the engine sees it.                             *)

EmitValid(a, i) == X86!Emit(a, i, TRUE)
EmitAll(a, is) == FoldLeft(EmitValid, a, is)

\* flush_single_macro emits nothing once the assembler is in error.
FlushMacro(a, macro) == IF a.status # SUCCESS THEN a ELSE EmitAll(a, macro)
FlushMacros(a, macros) == FoldLeft(FlushMacro, a, macros)

\* push rbp, r12..r15; mov rbp, arg1
Prologue == <<X86!Low("push_r64"), X86!High("push_r64"), X86!High("push_r64"),
              X86!High("push_r64"), X86!High("push_r64"), X86!Low("mov_r64_r64")>>

\* mov rax, next_pc; mov [rbp + pc], rax, unless RET stored the PC; then
\* pop r15..r12, rbp; ret.
Epilogue(is_pc_dynamic) ==
    (IF is_pc_dynamic THEN <<>>
     ELSE <<X86!Low("mov_r64_imm64"), X86!Low("store_r64_rbp_offset")>>)
    \o <<X86!High("pop_r64"), X86!High("pop_r64"), X86!High("pop_r64"),
         X86!High("pop_r64"), X86!Low("pop_r64"), X86!Low("ret")>>

\* The assembler and compiler.status when the instruction loop of translate
\* ends.  A compiler that is still in error from an earlier block stops after
\* the first instruction, whose macros have BAL_X86_INVALID for a register.
Loop(a, error, b) ==
    CASE b.kind = "unmapped" -> [asm |-> a, status |-> MEMORY_FAULT, late |-> <<>>]
      [] b.kind = "trap" -> [asm |-> a, status |-> UNKNOWN_INSTRUCTION,
                             late |-> << <<X86!Low("ud2")>> >>]
      [] b.kind = "code" /\ error # SUCCESS ->
            [asm |-> IF b.allocates /\ a.status = SUCCESS
                     THEN X86!Emit(a, X86!Low("mov_r64_imm64"), FALSE) ELSE a,
             status |-> error, late |-> <<>>]
      [] b.kind = "code" /\ error = SUCCESS ->
            LET done == FlushMacros(a, b.early)
            IN  [asm |-> done, status |-> done.status, late |-> b.late]

\* bal_tier1_compiler_translate: the prologue, the loop, terminate_block.  The
\* entry point is returned only if neither status shows an error.
Translate(a, error, b) ==
    LET loop == Loop(EmitAll(a, Prologue), error, b)
        end  == EmitAll(FlushMacros(loop.asm, loop.late),
                        Epilogue(b.is_pc_dynamic))
    IN  [asm |-> end, status |-> loop.status,
         entry |-> IF loop.status = SUCCESS /\ end.status = SUCCESS
                   THEN a.offset ELSE NULL]

\* The block at pc as translate sees it with max_instructions = 1: the limit is
\* reached before the guest address moves on, so unless the instruction is the
\* branch itself the block leads back to pc.
FirstOnly(pc) ==
    LET b == Guest[pc]
    IN  IF b.alone \/ b.kind # "code" THEN b
        ELSE [b EXCEPT !.next = {pc}, !.early = <<>>, !.late = b.first,
                       !.is_pc_dynamic = FALSE]

\* The block that an entry point runs: nothing if no block starts there.
BlockAt(at) == {b \in jit : b.at = at}

\* bal_x86_assembler_reset zeroes the buffer through both views; writing through
\* the executable view of a dual mapping is a fault of the host process.
CanReset == Mapping = "rwx"

-----------------------------------------------------------------------------
Init ==
    /\ label = "idle"
    /\ is_executing = FALSE
    /\ stop_requested = FALSE
    /\ clear_cache_requested = FALSE
    /\ flags \in InitialFlags
    /\ flags_read = {}
    /\ status = SUCCESS
    /\ asm = X86!FreshAssembler
    /\ compiler_status = SUCCESS
    /\ block_cache = EmptyCache
    /\ cpu_pc = SENTINEL
    /\ entry_point = NULL
    /\ exit_reason = "none"
    /\ returned = "none"
    /\ jit = {}
    /\ guest_version = 0
    /\ must_see = guest_version
    /\ must_run = guest_version

Goto(from, to) == label = from /\ label' = to

Leave(reason) == label' = "leave" /\ exit_reason' = reason

\* The host sets the PC and calls bal_engine_run_thread.  The exchange that
\* claims is_executing stores false.
Run(pc) ==
    /\ label = "idle"
    /\ cpu_pc' = pc
    /\ IF is_executing
       THEN returned' = ALREADY_RUNNING /\ UNCHANGED <<label, controls>>
       ELSE /\ label' = "check_stop"
            /\ is_executing' = FALSE
            /\ returned' = "none"
            /\ UNCHANGED <<stop_requested, clear_cache_requested>>
    /\ exit_reason' = "none"
    /\ UNCHANGED <<flags, flags_read, status, compiler, block_cache,
                   entry_point, guest>>

\* Mutant: the stop request is not looked at.
CheckStop_dropped ==
    /\ Goto("check_stop", "check_clear")
    /\ must_run' = must_see
    /\ UNCHANGED <<controls, flags, flags_read, status, compiler, block_cache,
                   cpu_pc, entry_point, outcome, guest_version, must_see>>

\* Top of the loop.  must_run takes the guest code that clear requests made
\* before this iteration are about.
CheckStop ==
    /\ label = "check_stop"
    /\ IF stop_requested THEN Leave("stop")
       ELSE label' = "check_clear" /\ UNCHANGED exit_reason
    /\ must_run' = must_see
    /\ UNCHANGED <<controls, flags, flags_read, status, compiler, block_cache,
                   cpu_pc, entry_point, returned,
                   guest_version, must_see>>

CheckClear ==
    /\ label = "check_clear"
    /\ label' = IF clear_cache_requested THEN "clear" ELSE "check_interrupt"
    /\ UNCHANGED <<controls, flags, flags_read, status, compiler, block_cache,
                   cpu_pc, entry_point, outcome, guest>>

\* Mutant: only the compiler is reset.
ClearCache_keeps_blocks ==
    /\ label = "clear"
    /\ label' = IF CanReset THEN "ack_clear" ELSE "fault"
    /\ asm' = X86!FreshAssembler
    /\ compiler_status' = SUCCESS
    /\ jit' = {}
    /\ UNCHANGED <<controls, flags, flags_read, status, block_cache, cpu_pc,
                   entry_point, outcome, guest>>

\* Mutant: the buffer and the cache are emptied only after a failed compilation.
ClearCache_after_errors ==
    /\ Goto("clear", "ack_clear")
    /\ IF compiler_status # SUCCESS
       THEN /\ asm' = X86!FreshAssembler
            /\ compiler_status' = SUCCESS
            /\ jit' = {}
            /\ block_cache' = EmptyCache
       ELSE UNCHANGED <<compiler, block_cache>>
    /\ UNCHANGED <<controls, flags, flags_read, status, cpu_pc, entry_point,
                   outcome, guest>>

\* bal_tier1_compiler_reset, which zeroes the buffer through both views, and
\* the memset of the block cache.
ClearCache ==
    /\ label = "clear"
    /\ IF CanReset
       THEN /\ label' = "ack_clear"
            /\ asm' = X86!FreshAssembler
            /\ compiler_status' = SUCCESS
            /\ jit' = {}
            /\ block_cache' = EmptyCache
       ELSE label' = "fault" /\ UNCHANGED <<compiler, block_cache>>
    /\ UNCHANGED <<controls, flags, flags_read, status, cpu_pc, entry_point,
                   outcome, guest>>

\* Mutant: the acknowledgement is forgotten.
AckClear_forgotten ==
    /\ Goto("ack_clear", "check_stop")
    /\ UNCHANGED <<controls, flags, flags_read, status, compiler, block_cache,
                   cpu_pc, entry_point, outcome, guest>>

\* The store of false, which also wipes out a request made since the load.
AckClear ==
    /\ Goto("ack_clear", "check_interrupt")
    /\ clear_cache_requested' = FALSE
    /\ UNCHANGED <<is_executing, stop_requested, flags, flags_read, status,
                   compiler, block_cache, cpu_pc, entry_point,
                   outcome, guest>>

\* Mutant: an interrupt is only looked at while single-stepping.
CheckInterrupt_when_stepping ==
    /\ label = "check_interrupt"
    /\ IF {INTERRUPT_PENDING, SINGLE_STEP} \subseteq flags
       THEN label' = "take_interrupt" /\ flags_read' = flags
       ELSE label' = "lookup" /\ UNCHANGED flags_read
    /\ UNCHANGED <<controls, flags, status, compiler, block_cache, cpu_pc,
                   entry_point, outcome, guest>>

CheckInterrupt ==
    /\ label = "check_interrupt"
    /\ IF INTERRUPT_PENDING \in flags
       THEN label' = "take_interrupt" /\ flags_read' = flags
       ELSE label' = "lookup" /\ UNCHANGED flags_read
    /\ UNCHANGED <<controls, flags, status, compiler, block_cache, cpu_pc,
                   entry_point, outcome, guest>>

\* engine->flags &= ~INTERRUPT_PENDING writes back the flags read before
\* (flags_read is a temporary and dies here).
TakeInterrupt ==
    /\ label = "take_interrupt"
    /\ flags' = flags_read \ {INTERRUPT_PENDING}
    /\ flags_read' = {}
    /\ Leave("interrupt")
    /\ UNCHANGED <<controls, status, compiler, block_cache, cpu_pc,
                   entry_point, returned, guest>>

Found == IF DISABLE_BLOCK_CACHE \in flags THEN NULL
         ELSE block_cache_lookup(block_cache, cpu_pc)

\* The sentinel test and the lookup.
Lookup ==
    /\ label = "lookup"
    /\ IF cpu_pc = SENTINEL
       THEN Leave("sentinel") /\ UNCHANGED entry_point
       ELSE /\ entry_point' = Found
            /\ label' = IF Found = NULL THEN "compile" ELSE "publish"
            /\ UNCHANGED exit_reason
    /\ UNCHANGED <<controls, flags, flags_read, status, compiler, block_cache,
                   cpu_pc, returned, guest>>

SourceBlock == IF SINGLE_STEP \in flags THEN FirstOnly(cpu_pc) ELSE Guest[cpu_pc]

\* translate succeeded: the block stands in the buffer, with the version of the
\* guest code it was made from.
Compiled(kept, t) ==
    /\ t.entry # NULL
    /\ asm' = t.asm
    /\ compiler_status' = t.status
    /\ entry_point' = t.entry
    /\ jit' = kept \union {[at |-> t.entry, pc |-> cpu_pc,
                            next |-> SourceBlock.next, ver |-> guest_version]}
    /\ label' = "publish"
    /\ UNCHANGED <<status, exit_reason>>

\* Mutant: engine->status is not set.
CompileError_keeps_status(kept, t) ==
    /\ t.entry = NULL
    /\ asm' = t.asm
    /\ compiler_status' = t.status
    /\ entry_point' = NULL
    /\ jit' = kept
    /\ Leave("error")
    /\ UNCHANGED status

\* translate returned NULL for good: the run ends with the compiler's status,
\* which is not the assembler's when only the epilogue did not fit.
CompileError(kept, t) ==
    /\ t.entry = NULL
    /\ asm' = t.asm
    /\ compiler_status' = t.status
    /\ entry_point' = NULL
    /\ jit' = kept
    /\ status' = t.status
    /\ Leave("error")

UNCHANGED_by_compile ==
    UNCHANGED <<controls, flags, flags_read, block_cache, cpu_pc, returned, guest>>

\* On a word it cannot decode translate ends the inner loop but not the outer
\* one, so it fetches the same word for ever: "spin" has no next step.
DecodeFails ==
    /\ label = "compile"
    /\ SourceBlock.kind = "undecodable"
    /\ label' = "spin"
    /\ UNCHANGED <<status, compiler, entry_point, exit_reason>>
    /\ UNCHANGED_by_compile

\* protect_rw and bal_tier1_compiler_translate.
Compile ==
    /\ label = "compile"
    /\ SourceBlock.kind # "undecodable"
    /\ LET t == Translate(asm, compiler_status, SourceBlock)
       IN  /\ t.entry = NULL => t.asm.status # X86!INSTRUCTION_OVERFLOW
           /\ Compiled(jit, t) \/ CompileError(jit, t)
    /\ UNCHANGED_by_compile

\* The same when the assembler ends in INSTRUCTION_OVERFLOW: the compiler is
\* reset and the block compiled again.  The block cache is left as it is.
CompileAfterReset ==
    /\ label = "compile"
    /\ SourceBlock.kind # "undecodable"
    /\ LET t == Translate(asm, compiler_status, SourceBlock)
       IN  t.entry = NULL /\ t.asm.status = X86!INSTRUCTION_OVERFLOW
    /\ LET again == Translate(X86!FreshAssembler, SUCCESS, SourceBlock)
       IN  IF CanReset THEN Compiled({}, again) \/ CompileError({}, again)
           ELSE label' = "fault" /\ UNCHANGED <<status, compiler, entry_point, exit_reason>>
    /\ UNCHANGED_by_compile

\* protect_rx and the insertion, on a hit too.
Publish ==
    /\ Goto("publish", "execute")
    /\ block_cache' = IF DISABLE_BLOCK_CACHE \in flags THEN block_cache
                      ELSE block_cache_insert(block_cache, cpu_pc, entry_point)
    /\ UNCHANGED <<controls, flags, flags_read, status, compiler, cpu_pc,
                   entry_point, outcome, guest>>

\* The call of the compiled block, which leaves its successor in cpu->pc; the
\* entry point is local to this iteration.  Where no block starts the host
\* faults.
Execute ==
    /\ label = "execute"
    /\ IF BlockAt(entry_point) # {}
       THEN \E b \in BlockAt(entry_point) :
                label' = "after_execute" /\ cpu_pc' \in b.next /\ entry_point' = NULL
       ELSE label' = "fault" /\ UNCHANGED <<cpu_pc, entry_point>>
    /\ UNCHANGED <<controls, flags, flags_read, status, compiler, block_cache,
                   outcome, guest>>

AfterExecute ==
    /\ label = "after_execute"
    /\ IF SINGLE_STEP \in flags THEN Leave("step")
       ELSE label' = "check_stop" /\ UNCHANGED exit_reason
    /\ UNCHANGED <<controls, flags, flags_read, status, compiler, block_cache,
                   cpu_pc, entry_point, returned, guest>>

LeaveLoop ==
    /\ Goto("leave", "idle")
    /\ is_executing' = FALSE
    /\ returned' = status
    /\ UNCHANGED <<stop_requested, clear_cache_requested, flags, flags_read,
                   status, compiler, block_cache, cpu_pc, entry_point,
                   exit_reason, guest>>

-----------------------------------------------------------------------------
(* What other threads of the host do to the engine, at any moment.         *)

engine_thread == <<label, is_executing, flags_read, status, compiler,
                   block_cache, cpu_pc, entry_point, outcome>>

bal_engine_stop_thread ==
    /\ "stop" \in HostOps
    /\ stop_requested' = TRUE
    /\ UNCHANGED <<engine_thread, clear_cache_requested, flags, guest>>

\* The caller expects the guest code as it is now to run from here on.
bal_engine_clear_cache ==
    /\ "clear" \in HostOps
    /\ clear_cache_requested' = TRUE
    /\ must_see' = guest_version
    /\ UNCHANGED <<engine_thread, stop_requested, flags, guest_version, must_run>>

\* Only the engine takes an interrupt back.
SetFlag(f) ==
    /\ flags' = flags \union {f}
    /\ UNCHANGED <<engine_thread, stop_requested, clear_cache_requested, guest>>

ClearFlag(f) ==
    /\ f # INTERRUPT_PENDING
    /\ flags' = flags \ {f}
    /\ UNCHANGED <<engine_thread, stop_requested, clear_cache_requested, guest>>

\* New guest code, with the same control flow.
Patch ==
    /\ "patch" \in HostOps
    /\ guest_version < MaxPatches
    /\ guest_version' = guest_version + 1
    /\ UNCHANGED <<engine_thread, stop_requested, clear_cache_requested, flags,
                   must_see, must_run>>

EngineStep ==
    \/ CheckStop \/ CheckClear \/ ClearCache \/ AckClear
    \/ CheckInterrupt \/ TakeInterrupt \/ Lookup
    \/ DecodeFails \/ Compile \/ CompileAfterReset
    \/ Publish \/ Execute \/ AfterExecute \/ LeaveLoop

HostStep ==
    \/ \E pc \in Pc : Run(pc)
    \/ Patch
    \/ bal_engine_stop_thread
    \/ bal_engine_clear_cache
    \/ \E f \in HostFlags : SetFlag(f) \/ ClearFlag(f)

Next == EngineStep \/ HostStep

\* The engine thread keeps running once started; the host does what it likes.
\* Every engine step moves label, and one is enabled unless the thread has
\* returned, spins or has faulted, so this is weak fairness of EngineStep.
EngineMoves == label \notin {"idle", "spin", "fault"} /\ label' \in Labels

Spec == Init /\ [][Next]_vars /\ WF_label(EngineMoves)

-----------------------------------------------------------------------------
\* Every variable has its type; in particular a block is only published or
\* called through a pointer into the buffer, never through NULL.
TypeOK ==
    /\ label \in Labels
    /\ {is_executing, stop_requested, clear_cache_requested} \subseteq BOOLEAN
    /\ flags \subseteq Flags /\ flags_read \subseteq Flags
    /\ {status, compiler_status} \subseteq Status
    /\ asm \in [offset : Offset, status : X86!AsmStatus]
    /\ CacheTypeOK
    /\ cpu_pc \in Pc \union {SENTINEL}
    /\ entry_point \in Offset \union {NULL}
    /\ label \in {"publish", "execute"} => entry_point # NULL
    /\ returned \in Status \union {"none", ALREADY_RUNNING}

\* The call through entry_point in bal_engine_run_thread runs a complete
\* translation of the block at the guest PC, and so will every later call
\* through the block cache: cache, buffer and PC agree whatever clears, errors
\* and flag changes came in between.
DispatchSound ==
    /\ label = "execute" => \E b \in BlockAt(entry_point) : b.pc = cpu_pc
    /\ \A s \in SetIds, w \in WayIds :
           LET e == block_cache[s][w]
           IN  e.host_code # NULL =>
                   \E b \in BlockAt(e.host_code) : b.pc = e.guest_address

\* After bal_engine_clear_cache returns, no iteration of the loop that begins
\* later runs a translation made before guest code was last changed at the time
\* of the call, although the engine's store of false can wipe the request out.
ClearTakesEffect ==
    label = "execute" => \A b \in BlockAt(entry_point) : b.ver >= must_run

\* "Returns BAL_ERROR_MEMORY_FAULT if the guest attempts to fetch instructions
\* from an unmapped or invalid Guest Virtual Address", "Returns
\* BAL_ERROR_UNKNOWN_INSTRUCTION if the decoder encounters an undefined, invalid,
\* or unsupported ARM64 instruction" (bal_engine.h): a run that stopped at such a
\* place says so, whatever state compiler, buffer and engine->status were left in
\* by the blocks and the failed runs before it, and although an overflow may
\* reset the compiler in between.  A word the decoder has no entry for is not in
\* it: translate never comes back from one (DecodeFails).
GuestErrorIsReported ==
    label = "idle" /\ exit_reason = "error" =>
        /\ Guest[cpu_pc].kind = "unmapped" => returned = MEMORY_FAULT
        /\ Guest[cpu_pc].kind = "trap" => returned = UNKNOWN_INSTRUCTION

\* "Returns BAL_SUCCESS when execution halts normally" (bal_engine.h): a run of
\* bal_engine_run_thread that gave up on a block returns something else.  The
\* code does not keep this.  When the buffer runs out in the epilogue of a block,
\* the assembler is in error and the compiler is not, and the pops that follow
\* replace the overflow by BAL_ERROR_INVALID_ARGUMENT: no reset is tried, and the
\* run ends with the compiler's BAL_SUCCESS.
ErrorIsReported ==
    label = "idle" /\ exit_reason = "error" => returned # SUCCESS

\* "Stops the engine execution asynchronously" (bal_engine.h): a run ends after
\* bal_engine_stop_thread, even if the guest loops for ever over blocks that are
\* cached or compiled again each time.  The exception is the spin of translate on
\* a word that does not decode (DecodeFails), here and in the next two: nothing
\* the host asks for is looked at there.
StopEnds == stop_requested ~> label \in {"idle", "spin"}

\* A pending interrupt makes the loop yield to the host.
InterruptYields ==
    INTERRUPT_PENDING \in flags /\ label # "idle" ~> label \in {"idle", "spin"}

\* A clear request is served unless the run ends.
ClearServed ==
    clear_cache_requested ~> ~clear_cache_requested \/ label \in {"idle", "spin"}

=============================================================================
