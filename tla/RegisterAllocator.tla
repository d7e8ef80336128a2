-------------------------- MODULE RegisterAllocator --------------------------
(***************************************************************************)
(* The greedy register allocator of the tier 1 compiler                    *)
(* (bal_x86_tier1_compiler.c) and the instruction translations that use    *)
(* it.  The compiler's state is the record c.  What the emitted macros do  *)
(* when the block runs is the record machine: for every x86 register, the  *)
(* guest registers whose current value it holds, and the guest registers   *)
(* whose slot in bal_cpu_t is up to date.                                  *)
(***************************************************************************)
EXTENDS Integers, Sequences, SequencesExt

CONSTANTS
    Arm,                \* guest register numbers, 0..31 in the program
    SCRATCH_REGISTERS,  \* <<0, 1, 2, 8, 9, 10, 12, 14, 15>> in the program
    CURSOR_RANGE        \* values of the uint8_t eviction_cursor

X86Registers == 0 .. 15
R11 == 11       \* holds what is of no guest register; never a scratch register
R15 == 15
NONE == -1      \* an empty entry of either map
INVALID == 16   \* BAL_X86_INVALID
SCRATCH_REGISTERS_SIZE == Len(SCRATCH_REGISTERS)
Scratch == {SCRATCH_REGISTERS[i] : i \in 1 .. SCRATCH_REGISTERS_SIZE}

ASSUME ArmAssumption == Arm \subseteq 0 .. 31
ASSUME ScratchAssumption ==
    /\ SCRATCH_REGISTERS \in Seq(X86Registers)
    /\ SCRATCH_REGISTERS_SIZE \in 1 .. 16
    /\ R11 \notin Scratch
ASSUME CursorAssumption == CURSOR_RANGE \in Nat \ {0}

SUCCESS == "BAL_SUCCESS"
CORRUPTED == "BAL_ERROR_REGISTER_ALLOCATOR_CORRUPTED"
INCORRECT_REGISTER == "BAL_ERROR_INCORRECT_REGISTER_TYPE"

VARIABLES
    c,          \* arm_to_x86, x86_to_arm, is_dirty, eviction_cursor, status
    machine,    \* host and memory, and whether an operand was ever wrong that
                \* the instruction had not itself overwritten
    phase       \* "open" while translate's loop runs, then "ended"

vars == <<c, machine, phase>>

-----------------------------------------------------------------------------
(* The macros, and what they do at run time.  An OP carries, beside its    *)
(* registers, which guest operand the instruction means to read in which   *)
(* x86 register.                                                           *)

Load(x, r)  == [op |-> "LOAD", x |-> x, r |-> r]
Store(x, r) == [op |-> "STORE", x |-> x, r |-> r]
Mov(x, y)   == [op |-> "MOV", x |-> x, y |-> y]
Op(reads, x, rd) == [op |-> "OP", reads |-> reads, x |-> x, rd |-> rd]

\* rd gets a new value, which only x holds.  With rd = NONE the result in x is
\* of no guest register; with x = NONE there is no result.
Written(m, x, rd) ==
    [m EXCEPT !.host = [y \in X86Registers |->
                            IF y = x THEN {rd} \ {NONE} ELSE m.host[y] \ {rd}],
              !.memory = @ \ {rd}]

Exec(m, macro) ==
    CASE macro.op = "LOAD" ->
            [m EXCEPT !.host[macro.x] = {macro.r} \intersect m.memory]
      [] macro.op = "STORE" ->
            [m EXCEPT !.memory = IF macro.r \in m.host[macro.x]
                                 THEN @ \union {macro.r} ELSE @ \ {macro.r}]
      [] macro.op = "MOV" -> [m EXCEPT !.host[macro.x] = m.host[macro.y]]
      [] macro.op = "OP" ->
            Written([m EXCEPT !.wrong = @ \/ \E read \in macro.reads :
                                                read[2] \notin m.host[read[1]]],
                    macro.x, macro.rd)

ExecAll(m, macros) == FoldLeft(Exec, m, macros)

FreshMachine == [host |-> [x \in X86Registers |-> {}], memory |-> Arm, wrong |-> FALSE]

-----------------------------------------------------------------------------
(* The allocator.  The operators map a compiler state s to the next one;   *)
(* s.macros collects what is pushed into the sliding window, s.got is the  *)
(* x86 register returned.                                                  *)

Push(s, macro) == [s EXCEPT !.macros = Append(@, macro)]

\* Mutant: the victim is unmapped without a store.
evict_no_store(s, x) ==
    LET victim == s.x86_to_arm[x]
    IN  [s EXCEPT !.is_dirty = @ \ {victim}, !.arm_to_x86[victim] = NONE,
                  !.x86_to_arm[x] = NONE]

\* Mutant: the victim keeps its entry in arm_to_x86.
evict_keeps_arm(s, x) ==
    LET victim == s.x86_to_arm[x]
        stored == IF victim \in s.is_dirty THEN Push(s, Store(x, victim)) ELSE s
    IN  [stored EXCEPT !.is_dirty = @ \ {victim}, !.x86_to_arm[x] = NONE]

\* evict_x86_register, of a register that is in use.
evict_x86_register(s, x) ==
    LET victim == s.x86_to_arm[x]
        stored == IF victim \in s.is_dirty THEN Push(s, Store(x, victim)) ELSE s
    IN  [stored EXCEPT !.is_dirty = @ \ {victim}, !.arm_to_x86[victim] = NONE,
                       !.x86_to_arm[x] = NONE]

\* The guest register has an x86 register.  R15 is out of the range accepted.
Hit(s, r) ==
    LET x == s.arm_to_x86[r]
    IN  IF x >= R15
        THEN [s EXCEPT !.arm_to_x86[r] = NONE, !.status = CORRUPTED, !.got = INVALID]
        ELSE IF s.x86_to_arm[x] # r
        THEN [s EXCEPT !.arm_to_x86[r] = NONE, !.x86_to_arm[x] = NONE,
                       !.status = CORRUPTED, !.got = INVALID]
        ELSE [s EXCEPT !.got = x]

FreeSlots(s) ==
    {i \in 1 .. SCRATCH_REGISTERS_SIZE : s.x86_to_arm[SCRATCH_REGISTERS[i]] = NONE}

\* The scan for a clean victim runs over x86 register numbers below
\* SCRATCH_REGISTERS_SIZE, not over the scratch registers; the last one wins.
CleanLow(s) ==
    {x \in 0 .. SCRATCH_REGISTERS_SIZE - 1 :
        s.x86_to_arm[x] # NONE /\ s.x86_to_arm[x] \notin s.is_dirty}

\* Mutant: the cursor is taken for a register number.
CursorSlot_number(s) == s.eviction_cursor % SCRATCH_REGISTERS_SIZE

CursorSlot(s) == SCRATCH_REGISTERS[(s.eviction_cursor % SCRATCH_REGISTERS_SIZE) + 1]

\* s with s.got unmapped: a free register, else a clean victim, else the one
\* the cursor is at.
Vacate(s) ==
    IF FreeSlots(s) # {}
    THEN LET first == CHOOSE i \in FreeSlots(s) : \A j \in FreeSlots(s) : i <= j
         IN  [s EXCEPT !.got = SCRATCH_REGISTERS[first]]
    ELSE IF CleanLow(s) # {}
    THEN LET last == CHOOSE x \in CleanLow(s) : \A y \in CleanLow(s) : x >= y
         IN  [evict_x86_register(s, last) EXCEPT !.got = last]
    ELSE [evict_x86_register(s, CursorSlot(s)) EXCEPT
             !.got = CursorSlot(s), !.eviction_cursor = (@ + 1) % CURSOR_RANGE]

Miss(s, r, skip_load_instruction) ==
    LET v == Vacate(s)
        mapped == [v EXCEPT !.arm_to_x86[r] = v.got, !.x86_to_arm[v.got] = r]
    IN  IF skip_load_instruction THEN mapped ELSE Push(mapped, Load(v.got, r))

allocate_x86_register(s, r, skip_load_instruction) ==
    IF s.status # SUCCESS THEN [s EXCEPT !.got = INVALID]
    ELSE IF s.arm_to_x86[r] # NONE THEN Hit(s, r)
    ELSE Miss(s, r, skip_load_instruction)

Begin == [arm_to_x86 |-> c.arm_to_x86, x86_to_arm |-> c.x86_to_arm,
          is_dirty |-> c.is_dirty, eviction_cursor |-> c.eviction_cursor,
          status |-> c.status, macros |-> <<>>, got |-> INVALID]

Dirty(s, rd) == [s EXCEPT !.is_dirty = @ \union {rd}]

\* A translation that failed emits nothing that will ever run.
Finish(s, rd, reads, x, moves) ==
    IF s.status # SUCCESS THEN [s EXCEPT !.macros = <<>>]
    ELSE LET t == [s EXCEPT !.macros = @ \o moves \o << Op(reads, x, rd) >>]
         IN  IF rd = NONE THEN t ELSE Dirty(t, rd)

-----------------------------------------------------------------------------
(* The translate_* functions.                                              *)

\* MOVZ and MOVN write the register, MOVK also reads it.
translate_mov_immediate(rd, keep) ==
    LET s == allocate_x86_register(Begin, rd, ~keep)
    IN  Finish(s, rd, IF keep THEN {<<s.got, rd>>} ELSE {}, s.got, <<>>)

\* The flag-setting forms with rd = XZR put the result in R11.
translate_add_sub_imm(rd, rn, is_discarded_result) ==
    LET n == allocate_x86_register(Begin, rn, FALSE)
        d == IF is_discarded_result THEN [n EXCEPT !.got = R11]
             ELSE allocate_x86_register(n, rd, TRUE)
    IN  Finish(d, IF is_discarded_result THEN NONE ELSE rd, {<<d.got, rn>>}, d.got,
               IF d.got # n.got THEN <<Mov(d.got, n.got)>> ELSE <<>>)

\* The move of rn into rd's register comes before rm is read.
translate_add_sub_reg(rd, rn, rm, is_discarded_result) ==
    LET n == allocate_x86_register(Begin, rn, FALSE)
        m == allocate_x86_register(n, rm, FALSE)
        d == IF is_discarded_result THEN [m EXCEPT !.got = R11]
             ELSE allocate_x86_register(m, rd, TRUE)
    IN  Finish(d, IF is_discarded_result THEN NONE ELSE rd,
               {<<d.got, rn>>, <<m.got, rm>>}, d.got,
               IF d.got # n.got THEN <<Mov(d.got, n.got)>> ELSE <<>>)

\* Mutant: the case where rd and rm share a register is missing.
translate_and_no_swap(rd, rn, rm) ==
    LET n == allocate_x86_register(Begin, rn, FALSE)
        m == allocate_x86_register(n, rm, FALSE)
        d == allocate_x86_register(m, rd, TRUE)
    IN  Finish(d, rd, {<<d.got, rn>>, <<m.got, rm>>}, d.got,
               IF d.got # n.got THEN <<Mov(d.got, n.got)>> ELSE <<>>)

\* AND is commutative: if rd has rm's register, rn becomes the source.  With
\* rd = XZR the operands do not matter.
translate_and(rd, rn, rm) ==
    LET n == allocate_x86_register(Begin, rn, FALSE)
        m == allocate_x86_register(n, rm, FALSE)
        d == allocate_x86_register(m, rd, TRUE)
    IN  IF d.status # SUCCESS
        THEN [d EXCEPT !.status = INCORRECT_REGISTER, !.macros = <<>>]
        ELSE CASE rd = 31 -> Finish(d, rd, {}, d.got, <<>>)
               [] rd # 31 /\ d.got = m.got ->
                    Finish(d, rd, {<<d.got, rm>>, <<n.got, rn>>}, d.got, <<>>)
               [] OTHER ->
                    Finish(d, rd, {<<d.got, rn>>, <<m.got, rm>>}, d.got,
                           IF d.got # n.got THEN <<Mov(d.got, n.got)>> ELSE <<>>)

translate_mov_register(rd, rm) ==
    LET m == allocate_x86_register(Begin, rm, FALSE)
        d == allocate_x86_register(m, rd, TRUE)
    IN  Finish(d, rd, {<<d.got, rm>>}, d.got, <<Mov(d.got, m.got)>>)

\* RET and CBZ/CBNZ read one register and write none.
translate_read(rn) ==
    LET n == allocate_x86_register(Begin, rn, FALSE)
    IN  Finish(n, NONE, {<<n.got, rn>>}, NONE, <<>>)

-----------------------------------------------------------------------------
\* reset_register_allocator, at the start of every translation and in
\* bal_tier1_compiler_reset.
EmptyMaps(status) ==
    [arm_to_x86 |-> [r \in Arm |-> NONE],
     x86_to_arm |-> [x \in X86Registers |-> NONE],
     is_dirty |-> {}, eviction_cursor |-> 0, status |-> status]

Init ==
    /\ c = EmptyMaps(SUCCESS)
    /\ machine = FreshMachine
    /\ phase = "open"

\* The instruction's own allocations took the register from an operand they had
\* just put there: rn is allocated first, then rm, then rd.
TakesBack(rd, rn, rm, discard) ==
    LET n == allocate_x86_register(Begin, rn, FALSE)
        m == allocate_x86_register(n, rm, FALSE)
        d == IF discard THEN m ELSE allocate_x86_register(m, rd, TRUE)
    IN  m.arm_to_x86[rn] # n.got \/ d.arm_to_x86[rn] # n.got \/ d.arm_to_x86[rm] # m.got

\* The same of an instruction with one operand.
TakesBackOne(rd, rn) ==
    LET n == allocate_x86_register(Begin, rn, FALSE)
    IN  allocate_x86_register(n, rd, TRUE).arm_to_x86[rn] # n.got

\* The state after translating one instruction: s, and its macros executed.
\* Operands that it overwrites itself are not held against the rest.
Translated(s, overwrites) ==
    /\ c' = [arm_to_x86 |-> s.arm_to_x86, x86_to_arm |-> s.x86_to_arm,
             is_dirty |-> s.is_dirty, eviction_cursor |-> s.eviction_cursor,
             status |-> s.status]
    /\ LET m == ExecAll(machine, s.macros)
       IN  machine' = [m EXCEPT !.wrong = machine.wrong \/ (m.wrong /\ ~overwrites)]

\* One iteration of translate's loop.  It ends the block after an error.
Instruction(s, overwrites) ==
    /\ phase = "open"
    /\ Translated(s, overwrites)
    /\ phase' = IF s.status = SUCCESS THEN "open" ELSE "last"

\* MOV between registers ends the block as well: its case of the switch runs
\* on into the error path.  So do RET and CBZ.
LastInstruction(s, overwrites) ==
    /\ phase = "open"
    /\ Translated(s, overwrites)
    /\ phase' = "last"

MovImmediate ==
    \E rd \in Arm, keep \in BOOLEAN :
        Instruction(translate_mov_immediate(rd, keep), FALSE)

AddSubImm ==
    \E rd, rn \in Arm, discard \in BOOLEAN :
        /\ discard => rd = 31
        /\ Instruction(translate_add_sub_imm(rd, rn, discard),
                       ~discard /\ TakesBackOne(rd, rn))

\* With rd = rm the move of rn into their register overwrites rm.
AddSubReg ==
    \E rd, rn, rm \in Arm, discard \in BOOLEAN :
        /\ discard => rd = 31
        /\ Instruction(translate_add_sub_reg(rd, rn, rm, discard),
                       (~discard /\ rd = rm) \/ TakesBack(rd, rn, rm, discard))

And ==
    \E rd, rn, rm \in Arm :
        Instruction(translate_and(rd, rn, rm), TakesBack(rd, rn, rm, FALSE))

MovRegister ==
    \E rd, rm \in Arm :
        LastInstruction(translate_mov_register(rd, rm), TakesBackOne(rd, rm))

ReadOnly == \E rn \in Arm : LastInstruction(translate_read(rn), FALSE)

\* flush_dirty_registers: a STORE for every dirty register.
flush_dirty_registers(m, s) ==
    [m EXCEPT !.memory = (@ \ s.is_dirty) \union
                         {r \in s.is_dirty : r \in m.host[s.arm_to_x86[r]]}]

\* terminate_block.  A block in error never runs.
terminate_block ==
    /\ phase \in {"open", "last"}
    /\ machine' = IF c.status = SUCCESS THEN flush_dirty_registers(machine, c) ELSE machine
    /\ phase' = "ended"
    /\ UNCHANGED c

\* The next block is translated and runs on the CPU state this one left.
NextBlock ==
    /\ phase = "ended"
    /\ c.status = SUCCESS
    /\ c' = EmptyMaps(SUCCESS)
    /\ machine' = [machine EXCEPT !.host = FreshMachine.host]
    /\ phase' = "open"

\* After an error only bal_tier1_compiler_reset makes the compiler usable.
bal_tier1_compiler_reset ==
    /\ phase = "ended"
    /\ c.status # SUCCESS
    /\ c' = EmptyMaps(SUCCESS)
    /\ machine' = FreshMachine
    /\ phase' = "open"

Next ==
    \/ MovImmediate \/ AddSubImm \/ AddSubReg \/ And \/ MovRegister \/ ReadOnly
    \/ terminate_block \/ NextBlock \/ bal_tier1_compiler_reset

Spec == Init /\ [][Next]_vars

-----------------------------------------------------------------------------
CompilerType ==
    [arm_to_x86 : [Arm -> Scratch \union {NONE}],
     x86_to_arm : [X86Registers -> Arm \union {NONE}],
     is_dirty : SUBSET Arm,
     eviction_cursor : 0 .. CURSOR_RANGE - 1,
     status : {SUCCESS, CORRUPTED, INCORRECT_REGISTER}]

\* The compiler's fields and the machine have their types.
TypeOK ==
    /\ c \in CompilerType
    /\ machine \in [host : [X86Registers -> SUBSET Arm], memory : SUBSET Arm,
                   wrong : BOOLEAN]
    /\ phase \in {"open", "last", "ended"}

Mapped(s) == {r \in Arm : s.arm_to_x86[r] # NONE}

\* arm_to_x86 and x86_to_arm are inverse to each other and use only scratch
\* registers, and only a register that is mapped is dirty.
Consistent(s) ==
    /\ \A r \in Arm : s.arm_to_x86[r] # NONE => s.x86_to_arm[s.arm_to_x86[r]] = r
    /\ \A x \in X86Registers :
           s.x86_to_arm[x] # NONE => x \in Scratch /\ s.arm_to_x86[s.x86_to_arm[x]] = x
    /\ s.is_dirty \subseteq Mapped(s)

\* However allocate_x86_register hits, evicts and remaps over a block, the two
\* maps stay each other's inverse and no dirty bit outlives its mapping.
MapsConsistent == c.status = SUCCESS => Consistent(c)

\* No guest write is lost: the current value of every guest register is in
\* bal_cpu_t, or in the x86 register the allocator has for it and marked dirty,
\* so that eviction or the end of the block stores it; and when the block has
\* run all of them are in bal_cpu_t.
NoLostWrite ==
    c.status = SUCCESS =>
        \A r \in Arm :
            \/ r \in machine.memory
            \/ /\ phase # "ended"
               /\ r \in c.is_dirty /\ r \in machine.host[c.arm_to_x86[r]]

\* Whatever was evicted, reloaded and remapped before it, an instruction finds the
\* guest registers' current values where it reads its operands, unless its own
\* translation overwrites them: by allocating its later registers over the earlier
\* ones, or in add_sub_reg with rd = rm.
OperandsIntact == ~machine.wrong
=============================================================================
