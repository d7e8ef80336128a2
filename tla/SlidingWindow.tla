---------------------------- MODULE SlidingWindow ----------------------------
(***************************************************************************)
(* The sliding window between the tier 1 compiler and the assembler        *)
(* (bal_x86_sliding_window.c): macros are queued, rewritten by the         *)
(* peephole optimizer and lowered in order into the assembler.             *)
(*                                                                         *)
(* The code around the macros of a block is emitted by the compiler        *)
(* itself, when nothing is queued.                                         *)
(*                                                                         *)
(* Registers hold numbers modulo Modulus.  want is the machine on which    *)
(* every pushed macro was executed at once, done the one on which the      *)
(* lowered macros were.                                                    *)
(***************************************************************************)
EXTENDS X86Assembler, Sequences, SequencesExt

CONSTANTS
    BAL_SLIDING_WINDOW_CAPACITY,    \* 4 in the program
    Opcodes,                        \* the macro opcodes the compiler pushes
    Modulus                         \* bound on the numbers in registers

ASSUME WindowAssumption == BAL_SLIDING_WINDOW_CAPACITY \in Nat \ {0}
ASSUME ModulusAssumption == Modulus \in Nat \ {0}

VARIABLES window, want, done

vars == <<window, asm, want, done>>

\* Two registers of the allocator, and the assembler's temporary.
RAX == 0
R8 == 8
R11 == 11
Registers == {RAX, R8, R11}

Macro == [opcode : Opcodes \union {"NOP"}, destination : {RAX, R8}, source : {RAX, R8}]

\* The macros the compiler pushes; a source an opcode has no use for is zero.
OneRegister == {"ADD_REGISTER_IMMEDIATE", "AND_REGISTER_IMMEDIATE"}
Pushed == {m \in Macro : /\ m.opcode # "NOP"
                         /\ m.opcode \in OneRegister => m.source = RAX}

Emitted(op, x, y) == [op |-> op, hi |-> x = R8 \/ y = R8, long |-> FALSE]

\* The emit calls flush_single_macro makes for a macro; its other cases are one
\* call or, for an immediate OR, two, like these.  It has no case for
\* TEST_REGISTER_REGISTER: the default logs an error and emits nothing.
Lowered(m) ==
    LET x == m.destination
        y == m.source
    IN  CASE m.opcode = "MOV_REGISTER_REGISTER" -> <<Emitted("mov_r64_r64", x, y)>>
          [] m.opcode = "ADD_REGISTER_IMMEDIATE" -> <<Emitted("add_r64_imm32", x, x)>>
          [] m.opcode = "AND_REGISTER_IMMEDIATE" ->
                <<[op |-> "mov_r64_imm64", hi |-> TRUE, long |-> FALSE],
                  [op |-> "and_r64_r64", hi |-> TRUE, long |-> FALSE]>>
          [] OTHER -> <<>>

\* What a macro does, if it is lowered.
Exec(machine, m) ==
    LET x == m.destination
        y == m.source
    IN  CASE m.opcode = "MOV_REGISTER_REGISTER" ->
                [machine EXCEPT !.register[x] = machine.register[y]]
          [] m.opcode = "ADD_REGISTER_IMMEDIATE" ->
                [machine EXCEPT !.register[x] = (@ + 1) % Modulus]
          [] m.opcode = "AND_REGISTER_IMMEDIATE" ->
                [machine EXCEPT !.register[x] = @ % 2, !.register[R11] = 1 % Modulus]
          [] m.opcode = "TEST_REGISTER_REGISTER" ->
                [machine EXCEPT !.zero = machine.register[x] = 0]
          [] OTHER -> machine

ExecAll(machine, ms) == FoldLeft(Exec, machine, ms)

EmitValid(a, i) == Emit(a, i, TRUE)
EmitAll(a, is) == FoldLeft(EmitValid, a, is)

\* flush_single_macro, on the assembler and the machine that runs its code.  A
\* macro takes effect if its code was written.
flush_single_macro(s, m) ==
    IF s.asm.status # SUCCESS THEN s
    ELSE LET a == EmitAll(s.asm, Lowered(m))
         IN  [asm |-> a,
              done |-> IF a.status = SUCCESS /\ Lowered(m) # <<>>
                       THEN Exec(s.done, m) ELSE s.done]

FlushAll(ms) == FoldLeft(flush_single_macro, [asm |-> asm, done |-> done], ms)

IsMov(m) == m.opcode = "MOV_REGISTER_REGISTER"

\* Mutant: the sources are not compared.
peephole_same_destination(ms) ==
    LET n == Len(ms)
    IN  IF /\ n >= 2 /\ IsMov(ms[n]) /\ IsMov(ms[n - 1])
           /\ ms[n].destination = ms[n - 1].destination
        THEN [ms EXCEPT ![n].opcode = "NOP"]
        ELSE ms

\* run_peephole_optimizer, after a push: an identity move becomes a NOP, and so
\* does the earlier of two equal moves in a row.  It does nothing while the
\* assembler is in error.
run_peephole_optimizer(ms) ==
    LET n == Len(ms)
    IN  IF asm'.status # SUCCESS THEN ms
        ELSE IF IsMov(ms[n]) /\ ms[n].destination = ms[n].source
        THEN [ms EXCEPT ![n].opcode = "NOP"]
        ELSE IF n >= 2 /\ IsMov(ms[n]) /\ ms[n] = ms[n - 1]
        THEN [ms EXCEPT ![n - 1].opcode = "NOP"]
        ELSE ms

-----------------------------------------------------------------------------
FreshMachine == [register |-> [x \in Registers |-> IF x = RAX THEN 1 ELSE 0],
                 zero |-> FALSE]

Init ==
    /\ window = <<>>
    /\ asm = FreshAssembler
    /\ want = FreshMachine
    /\ done = FreshMachine

\* Mutant: the window is flushed one push too late.
IsFull_late(ms) == Len(ms) > BAL_SLIDING_WINDOW_CAPACITY

IsFull(ms) == Len(ms) = BAL_SLIDING_WINDOW_CAPACITY

bal_sliding_window_push(m) ==
    /\ LET flushed == FlushAll(IF IsFull(window) THEN window ELSE <<>>)
       IN  asm' = flushed.asm /\ done' = flushed.done
    /\ window' = run_peephole_optimizer(
                     Append(IF IsFull(window) THEN <<>> ELSE window, m))
    /\ want' = Exec(want, m)

bal_sliding_window_flush_all ==
    /\ LET flushed == FlushAll(window) IN asm' = flushed.asm /\ done' = flushed.done
    /\ window' = <<>>
    /\ UNCHANGED want

\* bal_sliding_window_reset, as bal_tier1_compiler_reset calls it: with a reset
\* of the assembler.
bal_sliding_window_reset ==
    /\ window' = <<>>
    /\ asm' = FreshAssembler
    /\ want' = FreshMachine
    /\ done' = FreshMachine

\* The calls with which the compiler opens a block (push rbp, r12..r15; mov rbp,
\* arg1) and leaves it (the test of a conditional branch; mov rax, next_pc; mov
\* [rbp + pc], rax; pop r15..r12, rbp; ret).
BlockFrame ==
    {Low("push_r64"), High("push_r64"), Low("mov_r64_r64"),
     Low("cmp_mem8_rbp_offset_imm"), Low("jcc_rel32"), Low("mov_r64_imm64"),
     Low("store_r64_rbp_offset"), High("pop_r64"), Low("pop_r64"), Low("ret")}

\* One of them, after the window was flushed.  It is made whether or not the
\* assembler is in error.  No macro of the block is lowered after the ones that
\* change a register.
EmitFrame(i) ==
    /\ window = <<>>
    /\ asm' = EmitValid(asm, i)
    /\ UNCHANGED <<window, want, done>>

Next ==
    \/ \E i \in BlockFrame : EmitFrame(i)
    \/ \E m \in Pushed : bal_sliding_window_push(m)
    \/ bal_sliding_window_flush_all
    \/ bal_sliding_window_reset

Spec == Init /\ [][Next]_vars

-----------------------------------------------------------------------------
\* The window is a sequence of macros that fits the array window->macros, for
\* any sequence of pushes and flushes.
TypeOK ==
    /\ window \in Seq(Macro)
    /\ Len(window) <= BAL_SLIDING_WINDOW_CAPACITY
    /\ asm \in [offset : 0 .. capacity + 1, status : AsmStatus]

\* As long as the assembler is not in error, the code in the buffer followed by
\* the macros still queued does what the pushed macros do: buffering, flushing
\* and the peephole rewrites of bal_x86_sliding_window.c lose and reorder nothing
\* that matters.
SameEffect ==
    asm.status = SUCCESS => ExecAll(done, window) = want
=============================================================================
