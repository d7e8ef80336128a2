---------------------------- MODULE X86Assembler ----------------------------
(***************************************************************************)
(* The bookkeeping of the x86-64 assembler (bal_x86_assembler.c): how many *)
(* bytes an emit function asks can_emit for, how many it writes, and what  *)
(* it does to the error state.  The encoded bytes are left out.            *)
(*                                                                         *)
(* An emit call is a record: the function, whether a register operand is   *)
(* R8..R15 (hi) and whether an immediate or base needs the long form       *)
(* (long).                                                                 *)
(***************************************************************************)
EXTENDS Naturals

CONSTANT capacity   \* size in bytes of the executable buffer

ASSUME CapacityAssumption == capacity \in Nat \ {0}

SUCCESS == "BAL_SUCCESS"
INVALID_ARGUMENT == "BAL_ERROR_INVALID_ARGUMENT"
INSTRUCTION_OVERFLOW == "BAL_ERROR_INSTRUCTION_OVERFLOW"
AsmStatus == {SUCCESS, INVALID_ARGUMENT, INSTRUCTION_OVERFLOW}

PushPop == {"push_r64", "pop_r64"}
RegReg  == {"and_r64_r64", "or_r64_r64", "add_r64_r64", "sub_r64_r64",
            "test_r64_r64", "xor_r64_r64", "mov_r64_r64"}
AluImm  == {"add_r64_imm32", "sub_r64_imm32"}
Shift   == {"ror_r64_imm8", "sar_r64_imm8", "shl_r64_imm8", "shr_r64_imm8"}
Disp32  == {"load_r64_rbp_offset", "store_r64_rbp_offset",
            "setcc_mem8_rbp_offset"}
Op == PushPop \union RegReg \union AluImm \union Shift \union Disp32 \union
      {"ret", "ud2", "jmp_r64", "load_r64_from_r64", "jmp_rel32",
       "mov_r64_imm64", "jcc_rel32", "cmp_mem8_rbp_offset_imm",
       "add_mem64_rbp_offset_imm"}

Instr == [op : Op, hi : BOOLEAN, long : BOOLEAN]
Low(op)  == [op |-> op, hi |-> FALSE, long |-> FALSE]
High(op) == [op |-> op, hi |-> TRUE, long |-> FALSE]

\* The instruction_size_bytes each emit function passes to can_emit.
CheckedSize(i) ==
    CASE i.op \in PushPop \union {"ret"}         -> 1
      [] i.op \in {"ud2", "jmp_r64"}             -> 2
      [] i.op \in RegReg                         -> 3
      [] i.op = "load_r64_from_r64"              -> IF i.long THEN 4 ELSE 3
      [] i.op \in Shift                          -> 4
      [] i.op \in AluImm                         -> IF i.long THEN 7 ELSE 4
      [] i.op = "jmp_rel32"                      -> 5
      [] i.op = "mov_r64_imm64"                  -> IF i.long THEN 10
                                                    ELSE IF i.hi THEN 6 ELSE 5
      [] i.op = "jcc_rel32"                      -> 6
      [] i.op \in Disp32                         -> 7
      [] i.op = "cmp_mem8_rbp_offset_imm"        -> 8
      [] i.op = "add_mem64_rbp_offset_imm"       -> IF i.long THEN 11 ELSE 8

\* The bytes written.  push, pop and jmp learn only after the check that
\* R8..R15 takes a REX prefix.
EmittedSize(i) ==
    IF i.hi /\ i.op \in PushPop \union {"jmp_r64"}
    THEN CheckedSize(i) + 1 ELSE CheckedSize(i)

\* The emit functions that, called with the assembler already in error, set
\* INVALID_ARGUMENT instead of leaving the error alone.
OverwritesError ==
    PushPop \union {"mov_r64_r64", "mov_r64_imm64", "ret", "or_r64_r64",
                    "setcc_mem8_rbp_offset", "jcc_rel32", "add_r64_r64",
                    "sub_r64_r64", "add_r64_imm32", "xor_r64_r64"}

can_emit(a, size) == a.offset + size <= capacity

\* Mutant: the early return on an assembler in error is missing.
Emit_unguarded(a, i, valid) ==
    IF ~valid THEN [a EXCEPT !.status = INVALID_ARGUMENT]
    ELSE IF ~can_emit(a, CheckedSize(i)) THEN [a EXCEPT !.status = INSTRUCTION_OVERFLOW]
    ELSE [a EXCEPT !.offset = @ + EmittedSize(i)]

\* One bal_x86_emit_* call on assembler a.  valid: its registers are x86
\* registers (is_valid_register; the compiler passes BAL_X86_INVALID on after
\* a failed allocation) and its shift amount is in range.
Emit(a, i, valid) ==
    IF a.status # SUCCESS THEN
        IF i.op \in OverwritesError THEN [a EXCEPT !.status = INVALID_ARGUMENT] ELSE a
    ELSE IF ~valid THEN [a EXCEPT !.status = INVALID_ARGUMENT]
    ELSE IF ~can_emit(a, CheckedSize(i)) THEN [a EXCEPT !.status = INSTRUCTION_OVERFLOW]
    ELSE [a EXCEPT !.offset = @ + EmittedSize(i)]

\* bal_x86_assembler_init, and what bal_x86_assembler_reset returns to.
FreshAssembler == [offset |-> 0, status |-> SUCCESS]

-----------------------------------------------------------------------------
VARIABLE asm    \* offset and status of the bal_x86_assembler_t

AsmInit == asm = FreshAssembler

\* Functions without a register or shift amount have nothing to reject.
NoOperandCheck == {"ret", "ud2", "jmp_rel32", "setcc_mem8_rbp_offset", "jcc_rel32",
                   "cmp_mem8_rbp_offset_imm", "add_mem64_rbp_offset_imm"}

EmitStep(i, valid) ==
    /\ i.op \in NoOperandCheck => valid
    /\ asm' = Emit(asm, i, valid)

bal_x86_assembler_reset == asm' = FreshAssembler

AsmNext ==
    \/ \E i \in Instr, valid \in BOOLEAN : EmitStep(i, valid)
    \/ bal_x86_assembler_reset

AsmSpec == AsmInit /\ [][AsmNext]_asm

-----------------------------------------------------------------------------
\* The offset is a number and the status one of the three codes the assembler
\* sets.
AsmTypeOK == asm \in [offset : Nat, status : AsmStatus]

\* "Maximum number of bytes this assembler can write" (bal_x86_assembler.h, of
\* capacity): the bytes written are never more than the capacity.  The code does
\* not keep this: bal_x86_emit_push_r64, bal_x86_emit_pop_r64 and
\* bal_x86_emit_jmp_r64 of R8..R15 write a prefix that can_emit was not asked
\* for, so with exactly as much room as they ask for they write one byte behind
\* the buffer.
WithinCapacity == asm.offset <= capacity

\* How far that goes: the write position never gets more than one byte past the
\* buffer, for no sequence of calls adds up to a second one.
AtMostOnePast == asm.offset <= capacity + 1

\* "If this is not BAL_SUCCESS, all emit calls will fail"
\* (bal_x86_assembler.h): after an error nothing is written and the assembler
\* does not recover, except by a reset.
ErrorIsFinal ==
    [][ asm.status # SUCCESS =>
            \/ asm'.offset = asm.offset /\ asm'.status # SUCCESS
            \/ bal_x86_assembler_reset ]_asm
=============================================================================
