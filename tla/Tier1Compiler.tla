---------------------------- MODULE Tier1Compiler ----------------------------
(***************************************************************************)
(* bal_tier1_compiler_translate: the loop that reads, decodes and          *)
(* translates guest instructions into one block of host code, and the      *)
(* block run on a host.  The executable buffer is large enough (Engine has *)
(* the other case), and a block uses so few registers that none is evicted *)
(* (RegisterAllocator has that), so a guest register stands for its host   *)
(* register.                                                               *)
(*                                                                         *)
(* Guest addresses are relative: the 32-bit limit of the short form of     *)
(* MOV RAX, imm lies just before LONG_FROM.                                *)
(***************************************************************************)
EXTENDS Decoder, SequencesExt

CONSTANTS
    Programs,           \* guest programs: sequences of guest instructions
    Starts,             \* addresses at which translation starts
    Limits,             \* values of max_instructions
    FlagSets,           \* values of engine->flags
    Cpus,               \* states of bal_cpu_t in which the block is run
    PAGE,               \* instructions that one memory translation covers
    LONG_FROM,          \* see above
    Modulus,            \* bound on the numbers in registers, 2^64 in the program
    HALF,               \* bound on the immediates of MOVZ, MOVN and MOVK, 2^16
    WINDOW_CAPACITY,    \* BAL_SLIDING_WINDOW_CAPACITY, 4 in the program
    MAX_MAPPINGS        \* size of the array mappings, 2048 in the program

ASSUME PageAssumption == PAGE \in Nat \ {0}
ASSUME LimitsAssumption == Limits \subseteq Nat \ {0}
ASSUME StartsAssumption == Starts \subseteq Nat /\ LONG_FROM \in Nat
ASSUME CpusAssumption == \A c \in Cpus : DOMAIN c = {"x", "flag", "pc"}
ASSUME BoundsAssumption == WINDOW_CAPACITY \in Nat \ {0} /\ MAX_MAPPINGS \in Nat

SUCCESS == "BAL_SUCCESS"
MEMORY_FAULT == "BAL_ERROR_MEMORY_FAULT"
PC_ALIGNMENT == "BAL_ERROR_PC_ALIGNMENT"
UNKNOWN_INSTRUCTION == "BAL_ERROR_UNKNOWN_INSTRUCTION"

VARIABLES
    program, start, max_instructions, engine_flags, cpu,    \* the inputs
    label,      \* where the translation is
    t,          \* the compiler and the local variables of translate
    machine     \* the host that runs the block

Labels == {"fetch", "loop", "translate", "terminate", "execute", "failed", "done"}

inputs == <<program, start, max_instructions, engine_flags, cpu>>
vars == <<inputs, label, t, machine>>

X86 == INSTANCE X86Assembler WITH capacity <- 1, asm <- t

-----------------------------------------------------------------------------
(* The guest's instructions: their words, and what the architecture says   *)
(* they do.  A guest instruction is a record; an unused field is zero.     *)

Guest(op, rd, rn, rm, imm) == [op |-> op, rd |-> rd, rn |-> rn, rm |-> rm, imm |-> imm]

\* movz/movn/movk rd, #imm, lsl #(16 * rm);  add/adds/subs rd, rn, #imm;
\* add/subs/and/ands/eor rd, rn, rm, lsl #imm;  mov rd, rm;  b imm;  b.<rd> imm;  ret rn;
\* svc, smc, wfi;  cbz rn, imm;  and a word that is no instruction.
ArmWord(g) ==
    LET fields == Bits(g.rd, 0) \union Bits(g.rn, 5)
        wide == Bits(g.rd, 0) \union Bits(g.imm, 5) \union Bits(g.rm, 21)
        shifted == fields \union Bits(g.rm, 16) \union Bits(g.imm, 10)
    IN  CASE g.op = "movz" -> Word(\hD280, 0) \union wide
          [] g.op = "movn" -> Word(\h9280, 0) \union wide
          [] g.op = "movk" -> Word(\hF280, 0) \union wide
          [] g.op = "add" -> Word(\h9100, 0) \union fields \union Bits(g.imm, 10)
          [] g.op = "adds" -> Word(\hB100, 0) \union fields \union Bits(g.imm, 10)
          [] g.op = "subs" -> Word(\hF100, 0) \union fields \union Bits(g.imm, 10)
          [] g.op = "add_reg" -> Word(\h8B00, 0) \union shifted
          [] g.op = "subs_reg" -> Word(\hEB00, 0) \union shifted
          [] g.op = "and_reg" -> Word(\h8A00, 0) \union shifted
          [] g.op = "ands_reg" -> Word(\hEA00, 0) \union shifted
          [] g.op = "eor_reg" -> Word(\hCA00, 0) \union shifted
          [] g.op = "mov_reg" -> Word(\hAA00, \h03E0) \union Bits(g.rd, 0) \union Bits(g.rm, 16)
          [] g.op = "b" -> Word(\h1400, 0) \union Bits(g.imm % 2^26, 0)
          [] g.op = "b.cond" ->
                Word(\h5400, 0) \union Bits(g.rd, 0) \union Bits(g.imm % 2^19, 5)
          [] g.op = "ret" -> Word(\hD65F, 0) \union Bits(g.rn, 5)
          [] g.op = "svc" -> Word(\hD400, 1)
          [] g.op = "smc" -> Word(\hD400, 3)
          [] g.op = "wfi" -> Word(\hD503, \h207F)
          [] g.op = "cbz" -> Word(\hB400, 0) \union Bits(g.imm % 2^19, 5)
          [] g.op = "udf" -> Word(\h0020, 0)

Negative(v) == v >= Modulus \div 2

\* The flags N, Z, C and V of a - b and a + b.
SubFlags(a, b) ==
    LET r == (a - b) % Modulus
    IN  [n |-> Negative(r), z |-> r = 0, c |-> a >= b,
         v |-> Negative(a) # Negative(b) /\ Negative(r) # Negative(a)]

AddFlags(a, b) ==
    LET r == (a + b) % Modulus
    IN  [n |-> Negative(r), z |-> r = 0, c |-> a + b >= Modulus,
         v |-> Negative(a) = Negative(b) /\ Negative(r) # Negative(a)]

BitwiseAnd(a, b) == Number(Bits(a, 0) \intersect Bits(b, 0), 0, 26)
BitwiseOr(a, b) == Number(Bits(a, 0) \union Bits(b, 0), 0, 26)

Holds(condition, f) ==
    LET flag == <<f.z, f.c, f.n, f.v>>[(condition \div 2) + 1]
    IN  IF condition = 14 THEN TRUE ELSE flag # (condition % 2 = 1)

\* One instruction on a CPU with registers x, flags and pc.  A result for register
\* 31, the zero register, is discarded.
ArmStep(c, g) ==
    LET a == c.x[g.rn]
        b == c.x[g.rm]
        wide == g.imm * HALF^g.rm
        write(v) == [c EXCEPT !.pc = @ + 4,
                              !.x[g.rd] = IF g.rd = 31 THEN @ ELSE v % Modulus]
    IN  CASE g.op = "movz" -> write(wide)
          [] g.op = "movn" -> write(Modulus - 1 - wide)
          [] g.op = "movk" ->
                write(c.x[g.rd] + wide - ((c.x[g.rd] \div HALF^g.rm) % HALF) * HALF^g.rm)
          [] g.op = "add" -> write(a + g.imm)
          [] g.op = "adds" -> [write(a + g.imm) EXCEPT !.flag = AddFlags(a, g.imm)]
          [] g.op = "subs" -> [write(a - g.imm) EXCEPT !.flag = SubFlags(a, g.imm)]
          [] g.op = "add_reg" -> write(a + b)
          [] g.op = "subs_reg" -> [write(a - b) EXCEPT !.flag = SubFlags(a, b)]
          [] g.op = "and_reg" -> write(BitwiseAnd(a, b))
          [] g.op = "mov_reg" -> write(b)
          [] g.op = "b" -> [c EXCEPT !.pc = @ + 4 * g.imm]
          [] g.op = "b.cond" ->
                [c EXCEPT !.pc = IF Holds(g.rd, c.flag) THEN @ + 4 * g.imm ELSE @ + 4]
          [] g.op = "ret" -> [c EXCEPT !.pc = a]

-----------------------------------------------------------------------------
(* Host code: a sequence of records with the operation, its size in bytes  *)
(* and its operands.  Run executes it.                                     *)

\* RAX holds a PC in the epilogues, R11 a result that is discarded; the numbers
\* below stand for the host registers of the guest registers.
RAX == 32
R11 == 33
HostRegisters == 0 .. 33

Host(op, emitted, a, b) == [op |-> op, size |-> X86!EmittedSize(emitted), a |-> a, b |-> b]
Push(r) == Host("PUSH", IF r = "rbp" THEN X86!Low("push_r64") ELSE X86!High("push_r64"), r, 0)
Pop(r)  == Host("POP", IF r = "rbp" THEN X86!Low("pop_r64") ELSE X86!High("pop_r64"), r, 0)
Ret     == Host("RET", X86!Low("ret"), 0, 0)
StorePc(r) == Host("STORE_PC", X86!Low("store_r64_rbp_offset"), r, 0)
MovRax(pc) ==
    Host("MOV", [X86!Low("mov_r64_imm64") EXCEPT !.long = pc >= LONG_FROM], RAX, pc)

CalleeSaved == {"rbp", "r12", "r13", "r14", "r15"}

\* The caller is the engine; its callee-saved registers hold what it left there,
\* which is named after the register.
FreshMachine(c) ==
    [cpu |-> c, count |-> 0, register |-> [r \in HostRegisters |-> 0], hostflag |-> SubFlags(0, 0),
     saved |-> [r \in CalleeSaved |-> r], stack |-> <<"engine">>, skip |-> 0,
     state |-> "running"]

Set(m, r, v) == [m EXCEPT !.register[r] = v]

\* The conditions S, E, O, AE and B; c is the host's carry, a borrow after SUB.
ConditionHolds(f, condition) ==
    CASE condition = "S" -> f.n
      [] condition = "E" -> f.z
      [] condition = "O" -> f.v
      [] condition = "AE" -> ~f.c
      [] condition = "B" -> f.c

\* What the instruction h does.
Perform(m, h) ==
    LET reg == m.register
        a == h.a
        b == h.b
    IN  CASE h.op = "PUSH" -> [m EXCEPT !.stack = Append(@, m.saved[a])]
          [] h.op = "POP" -> [m EXCEPT !.saved[a] = Last(m.stack), !.stack = Front(@)]
          [] h.op = "RET" -> [m EXCEPT !.state = IF m.stack = <<"engine">>
                                                 THEN "returned" ELSE "astray"]
          [] h.op = "LOAD" -> Set(m, a, m.cpu.x[a])
          [] h.op = "STORE" -> [m EXCEPT !.cpu.x[a] = reg[a]]
          [] h.op = "STORE_PC" -> [m EXCEPT !.cpu.pc = reg[a]]
          [] h.op = "MOV" -> Set(m, a, b)
          [] h.op = "MOV_REGISTER" -> Set(m, a, reg[b])
          [] h.op \in {"ADD", "ADD_REGISTER"} ->
                LET v == IF h.op = "ADD" THEN b ELSE reg[b]
                IN  [Set(m, a, (reg[a] + v) % Modulus) EXCEPT !.hostflag = AddFlags(reg[a], v)]
          [] h.op \in {"SUB", "SUB_REGISTER"} ->
                LET v == IF h.op = "SUB" THEN b ELSE reg[b]
                IN  [Set(m, a, (reg[a] - v) % Modulus) EXCEPT
                         !.hostflag = [SubFlags(reg[a], v) EXCEPT !.c = ~@]]
          [] h.op = "AND" -> Set(m, a, BitwiseAnd(reg[a], b))
          [] h.op = "OR" -> Set(m, a, BitwiseOr(reg[a], b))
          [] h.op = "AND_REGISTER" -> Set(m, a, BitwiseAnd(reg[a], reg[b]))
          [] h.op = "SETCC" -> [m EXCEPT !.cpu.flag[a] = ConditionHolds(m.hostflag, b)]
          [] h.op = "ICOUNT" -> [m EXCEPT !.count = @ + a]
          [] h.op = "CMP_FLAG" -> [m EXCEPT !.hostflag.z = ~m.cpu.flag[a]]
          [] h.op = "JCC" ->
                [m EXCEPT !.skip = IF m.hostflag.z = (a = "E") THEN b ELSE 0]
          [] h.op = "UD2" -> [m EXCEPT !.state = "trapped"]
          [] OTHER -> m

\* A host that has stopped stays as it is; one that has jumped passes over the bytes
\* in between.
Step(m, h) ==
    IF m.state # "running" THEN m
    ELSE IF m.skip = 0 THEN Perform(m, h)
    ELSE IF m.skip >= h.size THEN [m EXCEPT !.skip = @ - h.size]
    ELSE [m EXCEPT !.state = "inside an instruction"]

Run(code, c) == FoldLeft(Step, FreshMachine(c), code)
AddSize(n, h) == n + h.size
Size(code) == FoldLeft(AddSize, 0, code)

-----------------------------------------------------------------------------
(* Emitting.  The operators map the state c of a translation to the next;  *)
(* every piece of host code is tagged with the guest instruction it is of. *)

Tag(h, n) == [op |-> h.op, size |-> h.size, a |-> h.a, b |-> h.b, of |-> n]

Emit(c, hs) == [c EXCEPT !.code = @ \o [k \in DOMAIN hs |-> Tag(hs[k], c.count + 1)]]

flush_all(c) == [c EXCEPT !.code = @ \o c.window, !.window = <<>>]

\* bal_sliding_window_push, without the peephole rewrites (SlidingWindow).
PushMacro(c, h) ==
    LET room == IF Len(c.window) = WINDOW_CAPACITY THEN flush_all(c) ELSE c
    IN  [room EXCEPT !.window = Append(@, Tag(h, c.count + 1))]
PushMacros(c, hs) == FoldLeft(PushMacro, c, hs)

Store(r) == Host("STORE", X86!Low("store_r64_rbp_offset"), r, 0)

\* A register that has no host register yet gets one, and is loaded into it.
allocate_x86_register(c, r, skip_load_instruction) ==
    LET mapped == [c EXCEPT !.mapped = @ \union {r}]
    IN  IF r \in c.mapped \/ skip_load_instruction THEN mapped
        ELSE PushMacro(mapped, Host("LOAD", X86!Low("load_r64_rbp_offset"), r, 0))

Dirty(c, r) == [c EXCEPT !.is_dirty = @ \union {r}]

\* In the order of the guest register numbers; no dirty bit is taken back.
flush_dirty_registers(c) ==
    PushMacros(c, [k \in 1 .. Cardinality(c.is_dirty) |-> Store(SetToSortSeq(c.is_dirty, <)[k])])

Prologue == <<Push("rbp"), Push("r12"), Push("r13"), Push("r14"), Push("r15"),
              Host("MOV_RBP", X86!Low("mov_r64_r64"), 0, 0)>>

\* Mutant: the registers are popped in the order in which they were pushed.
FullEpilogue_pushed_order ==
    <<Pop("rbp"), Pop("r12"), Pop("r13"), Pop("r14"), Pop("r15"), Ret>>

FullEpilogue == <<Pop("r15"), Pop("r14"), Pop("r13"), Pop("r12"), Pop("rbp"), Ret>>

\* Mutant: only the instructions since the last fetch are counted.
CountMacro_of_run(c) ==
    IF "INSTRUCTION_COUNTING" \in engine_flags
    THEN <<Host("ICOUNT", X86!Low("add_mem64_rbp_offset_imm"), c.i + 1, 0)>> ELSE <<>>

CountMacro(c) ==
    IF "INSTRUCTION_COUNTING" \in engine_flags
    THEN <<Host("ICOUNT", X86!Low("add_mem64_rbp_offset_imm"), c.count, 0)>> ELSE <<>>

terminate_block(c) ==
    LET pc == IF c.is_pc_dynamic THEN <<>> ELSE <<MovRax(c.guest_address), StorePc(RAX)>>
    IN  Emit(flush_all(flush_dirty_registers(PushMacros(c, CountMacro(c)))), pc \o FullEpilogue)

\* Mutant: the stores of the dirty registers are forgotten.
EpilogueSize_no_stores(c, pc) == (IF pc < LONG_FROM THEN 5 ELSE 10) + 7 + 8 + 1 + 1

\* epilogue_size, as terminate_block_conditional adds it up.
EpilogueSize(c, pc) ==
    Cardinality(c.is_dirty) * 7 + (IF pc < LONG_FROM THEN 5 ELSE 10) + 7 + 8 + 1 + 1

\* terminate_block_conditional.  The epilogue of the branch taken pops one
\* register of five.
terminate_block_conditional(c, condition, fallthrough_pc, taken_pc) ==
    LET jumped == Emit(flush_all(c), <<Host("JCC", X86!Low("jcc_rel32"), condition,
                                            EpilogueSize(c, fallthrough_pc))>>)
        fallthrough == Emit(flush_all(flush_dirty_registers(jumped)),
                            <<MovRax(fallthrough_pc), StorePc(RAX)>> \o FullEpilogue)
    IN  Emit(flush_all(flush_dirty_registers(fallthrough)),
             <<MovRax(taken_pc), StorePc(RAX), Pop("rbp"), Ret>>)

-----------------------------------------------------------------------------
(* The translate_* functions, of an instruction word and its metadata.     *)

Operand(word, metadata, i) == extract_operand_value(word, metadata.operands[i])

\* AND and OR with an immediate, which R11 takes first.
ThroughR11(op, r, value, long) ==
    [Host(op, X86!Low("and_r64_r64"), r, value) EXCEPT
        !.size = @ + X86!EmittedSize([X86!High("mov_r64_imm64") EXCEPT !.long = long])]

\* MOVK keeps the other bits of its register, which has to be loaded for it.
translate_mov_immediate(c, word, metadata) ==
    LET rd == Operand(word, metadata, 0)
        hw == Operand(word, metadata, 2)
        value == Operand(word, metadata, 1) * HALF^hw
        move(v) == <<Host("MOV", X86!Low("mov_r64_imm64"), rd, v)>>
        code == CASE metadata.name = "MOVZ" -> move(value)
                  [] metadata.name = "MOVN" -> move(Modulus - 1 - value)
                  [] metadata.name = "MOVK" ->
                        <<ThroughR11("AND", rd, Modulus - 1 - (HALF - 1) * HALF^hw, TRUE),
                          ThroughR11("OR", rd, value, hw >= 2)>>
    IN  Dirty(PushMacros(allocate_x86_register(c, rd, metadata.name # "MOVK"), code), rd)

translate_mov_register(c, word, metadata) ==
    LET rd == Operand(word, metadata, 0)
        rm == Operand(word, metadata, 1)
    IN  Dirty(PushMacro(allocate_x86_register(allocate_x86_register(c, rm, FALSE), rd, TRUE),
                        Host("MOV_REGISTER", X86!Low("mov_r64_r64"), rd, rm)), rd)

\* The carry of the host is the inverted one of the guest after a subtraction.
SetFlags(is_sub) ==
    LET set(flag, condition) == Host("SETCC", X86!Low("setcc_mem8_rbp_offset"), flag, condition)
    IN  <<set("n", "S"), set("z", "E"), set("v", "O"), set("c", IF is_sub THEN "AE" ELSE "B")>>

MovTo(x, y) == IF x = y THEN <<>> ELSE <<Host("MOV_REGISTER", X86!Low("mov_r64_r64"), x, y)>>

\* What follows the source operands: c has them allocated, h is the operation
\* without its destination.  Only the name of an instruction says that it sets flags.
AddSub(c, rd, rn, h, is_sub, metadata) ==
    LET is_setting_flags == metadata.name \in {"ADDS", "SUBS"}
        is_discarded_result == is_setting_flags /\ rd = 31
        d == IF is_discarded_result THEN c ELSE allocate_x86_register(c, rd, TRUE)
        x == IF is_discarded_result THEN R11 ELSE rd
        done == PushMacros(d, MovTo(x, rn) \o <<[h EXCEPT !.a = x]>> \o
                              (IF is_setting_flags THEN SetFlags(is_sub) ELSE <<>>))
    IN  IF is_discarded_result THEN done ELSE Dirty(done, rd)

translate_add_sub_imm(c, word, metadata, is_sub) ==
    LET rn == Operand(word, metadata, 1)
        value == Operand(word, metadata, 2) * (IF Operand(word, metadata, 3) = 1 THEN 2^12 ELSE 1)
        h == IF is_sub THEN Host("SUB", X86!Low("sub_r64_imm32"), 0, value)
             ELSE Host("ADD", X86!Low("add_r64_imm32"), 0, value)
    IN  AddSub(allocate_x86_register(c, rn, FALSE), Operand(word, metadata, 0), rn, h,
               is_sub, metadata)

Unknown(c) == [c EXCEPT !.status = UNKNOWN_INSTRUCTION]

translate_add_sub_reg(c, word, metadata, is_sub) ==
    LET rn == Operand(word, metadata, 1)
        rm == Operand(word, metadata, 3)
        h == IF is_sub THEN Host("SUB_REGISTER", X86!Low("sub_r64_r64"), 0, rm)
             ELSE Host("ADD_REGISTER", X86!Low("add_r64_r64"), 0, rm)
    IN  IF Operand(word, metadata, 2) # 0 THEN Unknown(c)
        ELSE AddSub(allocate_x86_register(allocate_x86_register(c, rn, FALSE), rm, FALSE),
                    Operand(word, metadata, 0), rn, h, is_sub, metadata)

translate_and(c, word, metadata) ==
    LET rd == Operand(word, metadata, 0)
        rn == Operand(word, metadata, 1)
        rm == Operand(word, metadata, 3)
        nm == allocate_x86_register(allocate_x86_register(c, rn, FALSE), rm, FALSE)
        first == IF rd = 31 THEN <<Host("MOV", X86!Low("mov_r64_imm64"), rd, 0)>>
                 ELSE IF rd = rm THEN <<>> ELSE MovTo(rd, rn)
        source == IF rd # 31 /\ rd = rm THEN rn ELSE rm
    IN  IF metadata.name = "ANDS" \/ Operand(word, metadata, 2) # 0 THEN Unknown(c)
        ELSE Dirty(PushMacros(allocate_x86_register(nm, rd, TRUE),
                              first \o <<Host("AND_REGISTER", X86!Low("and_r64_r64"),
                                              rd, source)>>), rd)

TestForZero(condition) == condition % 2 = 1

\* Conditions 0 to 7 test one flag of bal_cpu_t, 14 is always true.  The epilogue
\* of the latter pops one register of five.
translate_b_cond(c, word) ==
    LET condition == Number(word, 0, 4)
        taken_pc == c.guest_address + 4 * SignExtend(Number(word, 5, 19), 19)
        fallthrough_pc == c.guest_address + 4
        flag == <<"z", "c", "n", "v">>[(condition \div 2) + 1]
    IN  CASE condition \in 0 .. 7 ->
                terminate_block_conditional(
                    Emit(flush_all(c), <<Host("CMP_FLAG", X86!Low("cmp_mem8_rbp_offset_imm"),
                                              flag, 0)>>),
                    IF TestForZero(condition) THEN "E" ELSE "NE", fallthrough_pc, taken_pc)
          [] condition = 14 ->
                Emit(flush_all(flush_dirty_registers(c)),
                     <<MovRax(taken_pc), StorePc(RAX), Pop("rbp"), Ret>>)
          [] OTHER -> Unknown(c)

translate_jump(c, word, metadata) ==
    c.guest_address + 4 * SignExtend(Operand(word, metadata, 0), metadata.operands[0].bit_width)

-----------------------------------------------------------------------------
(* bal_tier1_compiler_translate.                                           *)

\* memory_interface->translate: the bytes readable at an address, up to the end
\* of its page; none outside guest memory.
ReadableBytes(address) ==
    IF address \in 0 .. 4 * Len(program) - 1
    THEN Min({4 * PAGE - (address % (4 * PAGE)), 4 * Len(program) - address}) ELSE 0

\* The words of the instructions and what the decoder makes of them.
Vocabulary == UNION {Range(p) : p \in Programs}
WordOf == [g \in Vocabulary |-> ArmWord(g)]
MetadataOf == [g \in Vocabulary |-> bal_decode_arm64(ArmWord(g))]
InstructionAt(address) == program[(address \div 4) + 1]

\* The programs are made of the vocabulary, and where the compiler finds a branch
\* in a word there is one, with the condition it reads.
ASSUME ProgramsAssumption == Programs \subseteq Seq(Vocabulary)
ASSUME BranchesAssumption ==
    \A g \in Vocabulary :
        MetadataOf[g] # Undecoded =>
            /\ MetadataOf[g].ir_opcode = "JUMP" => g.op = "b"
            /\ MetadataOf[g].ir_opcode = "BRANCH_CONDITIONAL" <=> g.op = "b.cond"
            /\ g.op = "b.cond" => Number(WordOf[g], 0, 4) = g.rd

Init ==
    /\ program \in Programs
    /\ start \in Starts
    /\ max_instructions \in Limits
    /\ engine_flags \in FlagSets
    /\ cpu \in Cpus
    /\ start % 4 # 0 => "STRICT_ALIGNMENT" \in engine_flags \/ ReadableBytes(start) < 4
    /\ label = "fetch"
    /\ t = [code |-> [k \in DOMAIN Prologue |-> Tag(Prologue[k], 0)],
            window |-> <<>>, mapped |-> {}, is_dirty |-> {}, status |-> SUCCESS,
            guest_address |-> start, i |-> 0, readable |-> 0,
            is_block_terminated |-> FALSE, is_pc_dynamic |-> FALSE, count |-> 0,
            mappings |-> <<>>, limited |-> FALSE,
            instruction |-> {}, metadata |-> Undecoded]
    /\ machine = FreshMachine(cpu)

\* Mutant: that less than an instruction is readable is not an error.
FetchError_no_check ==
    CASE t.guest_address \notin 0 .. 4 * Len(program) - 1 -> MEMORY_FAULT
      [] t.guest_address \in 0 .. 4 * Len(program) - 1 ->
            IF "STRICT_ALIGNMENT" \in engine_flags /\ t.guest_address % 4 # 0
            THEN PC_ALIGNMENT ELSE SUCCESS

FetchError ==
    CASE t.guest_address \notin 0 .. 4 * Len(program) - 1 -> MEMORY_FAULT
      [] ReadableBytes(t.guest_address) \in 1 .. 3 -> PC_ALIGNMENT
      [] ReadableBytes(t.guest_address) >= 4 ->
            IF "STRICT_ALIGNMENT" \in engine_flags /\ t.guest_address % 4 # 0
            THEN PC_ALIGNMENT ELSE SUCCESS

\* The head of the outer loop: a new run of instructions.
Fetch ==
    /\ label = "fetch"
    /\ IF FetchError # SUCCESS
       THEN label' = "terminate" /\ t' = [t EXCEPT !.status = FetchError]
       ELSE /\ label' = "loop"
            /\ t' = [t EXCEPT !.i = 0, !.readable =
                         Min({ReadableBytes(t.guest_address) \div 4, max_instructions})]
    /\ UNCHANGED <<inputs, machine>>

\* The test of the inner loop; the next word is read and decoded.
Loop ==
    /\ label = "loop"
    /\ IF t.i < t.readable
       THEN LET g == InstructionAt(t.guest_address)
            IN  /\ label' = "translate"
                /\ t' = [t EXCEPT !.instruction = WordOf[g], !.metadata = MetadataOf[g]]
       ELSE label' = "fetch" /\ UNCHANGED t
    /\ UNCHANGED <<inputs, machine>>

metadata == t.metadata

\* A word that does not decode leaves is_block_terminated false: the outer loop
\* fetches it again.
DecodeFails ==
    /\ label = "translate"
    /\ metadata = Undecoded
    /\ label' = "fetch"
    /\ UNCHANGED <<inputs, t, machine>>

\* The instructions that a flag makes yield to the host.
Yields ==
    \/ "TRAP_SVC" \in engine_flags /\ metadata.name = "SVC"
    \/ "TRAP_SMC_HVC" \in engine_flags /\ metadata.name \in {"SMC", "HVC"}
    \/ "WFI_YIELDS_HOST" \in engine_flags /\ metadata.name = "WFI"

Yield ==
    /\ label = "translate"
    /\ metadata # Undecoded
    /\ Yields
    /\ label' = "terminate"
    /\ UNCHANGED <<inputs, t, machine>>

End(c) == [c EXCEPT !.is_block_terminated = TRUE]

Return(c, rn) ==
    [End(PushMacro(allocate_x86_register(c, rn, FALSE), StorePc(rn))) EXCEPT
        !.is_pc_dynamic = TRUE]

GeneralRegister == {"REGISTER_32", "REGISTER_64"}

\* CBZ and CBNZ trap in the decoder's table, where no entry has the opcode
\* BRANCH_ZERO or BRANCH_NOT_ZERO.
ASSUME ZeroBranchesTrap ==
    \A e \in g_bal_decoder_arm64_instructions :
        e.ir_opcode \notin {"BRANCH_ZERO", "BRANCH_NOT_ZERO"}

\* The switch, but for its cases of these two opcodes, which no word selects.
\* MOV between registers runs on into the error path, which ends the block at the
\* instruction itself.
Switch(c) ==
    CASE metadata.ir_opcode = "MOV" /\ metadata.name \in {"MOVZ", "MOVN", "MOVK"} ->
            translate_mov_immediate(c, c.instruction, metadata)
      [] metadata.ir_opcode = "MOV" /\ metadata.name \notin {"MOVZ", "MOVN", "MOVK"} ->
            End(IF metadata.operands[1].type \in GeneralRegister
                THEN translate_mov_register(c, c.instruction, metadata) ELSE c)
      [] metadata.ir_opcode \in {"ADD", "SUB", "CMP"} ->
            IF metadata.operands[3].type \in GeneralRegister
            THEN translate_add_sub_reg(c, c.instruction, metadata, metadata.ir_opcode # "ADD")
            ELSE IF metadata.operands[2].type = "IMMEDIATE"
            THEN translate_add_sub_imm(c, c.instruction, metadata, metadata.ir_opcode # "ADD")
            ELSE End(c)
      [] metadata.ir_opcode = "JUMP" ->
            [End(c) EXCEPT !.guest_address = translate_jump(c, c.instruction, metadata)]
      [] metadata.ir_opcode = "BRANCH_CONDITIONAL" -> End(translate_b_cond(c, c.instruction))
      [] metadata.ir_opcode = "RETURN" -> Return(c, Operand(c.instruction, metadata, 0))
      [] metadata.ir_opcode = "TRAP" ->
            Unknown(End(PushMacro(flush_all(c), Host("UD2", X86!Low("ud2"), 0, 0))))
      [] metadata.ir_opcode = "AND" -> translate_and(c, c.instruction, metadata)
      [] OTHER -> Unknown(End(c))

\* Mutant: the offset is taken when the instruction has been translated.
Mapped_late(before, c) ==
    IF "JIT_DEBUG" \in engine_flags /\ Len(c.mappings) < MAX_MAPPINGS
    THEN [c EXCEPT !.mappings = Append(@, [x86_offset |-> Size(c.code \o c.window),
                                           guest_pc_offset |-> c.guest_address - start])]
    ELSE c

\* The debug entry of an instruction: where the buffer stood before it was
\* translated, and the guest address, which a jump has moved by then.
Mapped(before, c) ==
    IF "JIT_DEBUG" \in engine_flags /\ Len(c.mappings) < MAX_MAPPINGS
    THEN [c EXCEPT !.mappings = Append(@, [x86_offset |-> Size(before.code),
                                           guest_pc_offset |-> c.guest_address - start])]
    ELSE c

\* Mutant: the limit is not looked at.
Advance_unlimited(c) ==
    IF c.is_block_terminated THEN c
    ELSE [c EXCEPT !.guest_address = @ + 4, !.i = @ + 1]

\* After a translated instruction: the limit of the run is reached, or the block
\* is over, or the next instruction follows.
Advance(c) ==
    IF c.i + 1 = max_instructions \/ c.is_block_terminated
    THEN [c EXCEPT !.limited = ~c.is_block_terminated, !.is_block_terminated = TRUE]
    ELSE [c EXCEPT !.guest_address = @ + 4, !.i = @ + 1]

\* One iteration of the inner loop.
Translate ==
    /\ label = "translate"
    /\ metadata # Undecoded
    /\ ~Yields
    /\ LET c == Switch(t)
           after == Advance([Mapped(t, c) EXCEPT !.count = @ + 1])
       IN  IF c.status # SUCCESS THEN t' = c /\ label' = "terminate"
           ELSE /\ t' = after
                /\ label' = IF after.is_block_terminated THEN "terminate" ELSE "loop"
    /\ UNCHANGED <<inputs, machine>>

Terminate ==
    /\ label = "terminate"
    /\ t' = terminate_block(t)
    /\ label' = IF t.status = SUCCESS THEN "execute" ELSE "failed"
    /\ UNCHANGED <<inputs, machine>>

\* The engine calls the block.
Execute ==
    /\ label = "execute"
    /\ machine' = Run(t.code, [cpu EXCEPT !.pc = start])
    /\ label' = "done"
    /\ UNCHANGED <<inputs, t>>

Finished == label \in {"failed", "done"} /\ UNCHANGED vars

Next == Fetch \/ Loop \/ DecodeFails \/ Yield \/ Translate \/ Terminate \/ Execute \/ Finished

\* The translation is one thread that keeps running.  Every step before the end
\* moves label, so this is weak fairness of Next.
Moves == label \notin {"failed", "done"} /\ label' \in Labels

Spec == Init /\ [][Next]_vars /\ WF_label(Moves)

-----------------------------------------------------------------------------
\* The translation's state has its type; nothing but a complete block is run.
TypeOK ==
    /\ label \in Labels
    /\ t.status \in {SUCCESS, MEMORY_FAULT, PC_ALIGNMENT, UNKNOWN_INSTRUCTION}
    /\ Len(t.window) <= WINDOW_CAPACITY
    /\ label = "translate" => t.i < t.readable
    /\ label = "failed" <=> t.status # SUCCESS /\ label # "terminate"
    /\ label \in {"execute", "done"} => t.window = <<>>

Executed == SubSeq(program, (start \div 4) + 1, (start \div 4) + t.count)
LastOp == IF t.count = 0 THEN "none" ELSE Last(Executed).op
Reference == FoldLeft(ArmStep, [cpu EXCEPT !.pc = start], Executed)

Misread(g) == g.op = "mov_reg" \/ (g.op \in {"add_reg", "subs_reg"} /\ g.rd = g.rm /\ g.rd # g.rn)

\* The block does to bal_cpu_t what the guest instructions it was made of do,
\* on every path through it and with every host byte where the jump in it expects
\* it: registers, flags and PC.  Known exceptions: a MOV between registers, which
\* is decoded as the ORR it is an alias of; an ADD or SUB into its second operand, which
\* the move of the first overwrites; and the PC of a block that the instruction
\* limit ends, which stays on its last instruction.
MatchesGuest ==
    label = "done" /\ (\A g \in Range(Executed) : ~Misread(g)) =>
        /\ machine.cpu.x = Reference.x
        /\ machine.cpu.flag = Reference.flag
        /\ machine.cpu.pc = IF t.limited THEN Reference.pc - 4 ELSE Reference.pc

Returned == machine.state = "returned" /\ machine.saved = [r \in CalleeSaved |-> r]

\* The condition of the branch at the end holds of the flags that the block left
\* in bal_cpu_t; nothing behind the branch sets them.
TakenBranch == LastOp = "b.cond" /\ Holds(Last(Executed).rd, machine.cpu.flag)

\* A block returns to the engine with the stack and the callee-saved registers
\* as it found them, unless it ends in a conditional branch that is taken.
ReturnsUnlessTaken == label = "done" /\ ~TakenBranch => Returned

\* With INSTRUCTION_COUNTING a block that ran adds the number of instructions it
\* executed, all of them if it goes on over a page, ends at the limit or yields
\* ("Tracks the number of ARM executed instructions", bal_engine_flags.h).
\* Nothing is claimed of a block that ends in a conditional branch, where the code
\* does not do so: terminate_block adds the count after that branch has left.
Counts ==
    label = "done" /\ "INSTRUCTION_COUNTING" \in engine_flags /\ LastOp # "b.cond" =>
        machine.count = t.count

\* The offsets in the debug map never lie behind the code of their instruction,
\* although that may still be queued in the sliding window or be flushed with
\* later instructions: among the instructions that have an entry, the first
\* MAX_MAPPINGS, a fault is never blamed on one before the one that faulted.  They
\* are in order, and the guest offsets are right except for a jump.
MappingsUsable ==
    label \in {"execute", "done"} =>
        \A k \in DOMAIN t.mappings :
            LET mine == {j \in DOMAIN t.code : t.code[j].of = k}
            IN  /\ mine # {} =>
                       t.mappings[k].x86_offset <= Size(SubSeq(t.code, 1, Min(mine) - 1))
                /\ k > 1 => t.mappings[k - 1].x86_offset <= t.mappings[k].x86_offset
                /\ Executed[k].op # "b" => t.mappings[k].guest_pc_offset = 4 * (k - 1)

\* A block has at most max_instructions instructions, unless it goes on into
\* another page: the limit counts from the last fetch.
LimitHolds ==
    t.count > max_instructions =>
        start \div (4 * PAGE) # (start + 4 * (t.count - 1)) \div (4 * PAGE)

\* Translation ends for every guest program without a word that does not decode.
TranslateEnds ==
    (\A k \in DOMAIN program : program[k].op # "udf") => <>(label \in {"failed", "done"})
=============================================================================
