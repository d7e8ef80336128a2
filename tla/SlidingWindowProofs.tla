------------------------- MODULE SlidingWindowProofs -------------------------
(***************************************************************************)
(* Proofs about code emission, for every buffer size.  X86Assembler: type  *)
(* correctness, the one-byte bound on the overrun, and that an error ends  *)
(* emission.  SlidingWindow, which lowers macros into that assembler: for  *)
(* every window size and modulus the window never holds more macros than   *)
(* its array, and what is lowered and queued does what was pushed.         *)
(***************************************************************************)
EXTENDS SlidingWindow, TLAPS

\* The three loops: executing macros, emitting a macro's instructions, and
\* flushing the window.
ExecLoop  == INSTANCE FoldTheorems WITH Op <- Exec
EmitLoop  == INSTANCE FoldTheorems WITH Op <- EmitValid
FlushLoop == INSTANCE FoldTheorems WITH Op <- flush_single_macro

Assembler == [offset : 0 .. capacity + 1, status : AsmStatus]
Machine == [register : [Registers -> Nat], zero : BOOLEAN]
Flushed == [asm : Assembler, done : Machine]

-----------------------------------------------------------------------------
(* The assembler.                                                          *)

\* Every emit function asks for at least a byte and writes at most one more
\* than it asked for.
LEMMA Sizes ==
    ASSUME NEW i \in Instr
    PROVE  /\ CheckedSize(i) \in Nat \ {0}
           /\ EmittedSize(i) \in {CheckedSize(i), CheckedSize(i) + 1}
<1>1. i.op \in Op /\ i.hi \in BOOLEAN /\ i.long \in BOOLEAN
  BY DEF Instr
<1>2. CheckedSize(i) \in Nat \ {0}
  BY <1>1 DEF CheckedSize, Op, PushPop, RegReg, AluImm, Shift, Disp32
<1>3. EmittedSize(i) \in {CheckedSize(i), CheckedSize(i) + 1}
  BY DEF EmittedSize
<1> QED
  BY <1>2, <1>3

\* What one emit call does to the two fields: in error it writes nothing and
\* stays in error; otherwise it fails, or advances within the bound.
LEMMA EmitEffect ==
    ASSUME NEW a \in [offset : Nat, status : AsmStatus], NEW i \in Instr,
           NEW valid \in BOOLEAN
    PROVE  /\ Emit(a, i, valid) \in [offset : Nat, status : AsmStatus]
           /\ a.status # SUCCESS =>
                /\ Emit(a, i, valid).offset = a.offset
                /\ Emit(a, i, valid).status # SUCCESS
           /\ a.offset <= capacity + 1 => Emit(a, i, valid).offset <= capacity + 1
<1>1. /\ a.offset \in Nat /\ a.status \in AsmStatus
      /\ CheckedSize(i) \in Nat \ {0}
      /\ EmittedSize(i) \in {CheckedSize(i), CheckedSize(i) + 1}
      /\ capacity \in Nat
  BY Sizes, CapacityAssumption
<1>2. SUCCESS # INVALID_ARGUMENT /\ SUCCESS # INSTRUCTION_OVERFLOW
      /\ INVALID_ARGUMENT \in AsmStatus /\ INSTRUCTION_OVERFLOW \in AsmStatus
  BY DEF SUCCESS, INVALID_ARGUMENT, INSTRUCTION_OVERFLOW, AsmStatus
<1>3. CASE a.status # SUCCESS
  <2>1. \/ Emit(a, i, valid) = a
        \/ Emit(a, i, valid) = [a EXCEPT !.status = INVALID_ARGUMENT]
    BY <1>3 DEF Emit
  <2> QED
    BY <1>1, <1>2, <1>3, <2>1
<1>4. CASE a.status = SUCCESS
  <2>1. CASE Emit(a, i, valid) \in {[a EXCEPT !.status = INVALID_ARGUMENT],
                                        [a EXCEPT !.status = INSTRUCTION_OVERFLOW]}
    BY <1>1, <1>2, <1>4, <2>1
  <2>2. CASE /\ a.offset + CheckedSize(i) <= capacity
             /\ Emit(a, i, valid) = [a EXCEPT !.offset = a.offset + EmittedSize(i)]
    <3>1. a.offset + EmittedSize(i) \in Nat /\ a.offset + EmittedSize(i) <= capacity + 1
      BY <1>1, <2>2
    <3> QED
      BY <1>1, <1>4, <2>2, <3>1
  <2> QED
    BY <1>4, <2>1, <2>2 DEF Emit, can_emit
<1> QED
  BY <1>3, <1>4

\* The fresh assembler satisfies the invariant.
LEMMA FreshIsFine ==
    /\ FreshAssembler \in [offset : Nat, status : AsmStatus]
    /\ FreshAssembler.offset <= capacity + 1
BY CapacityAssumption DEF FreshAssembler, AsmStatus, SUCCESS

\* Whatever the program emits, the offset and status stay of their types, and the
\* overrun of push, pop and jmp is never more than one byte.
THEOREM AssemblerBounded == AsmSpec => [](AsmTypeOK /\ AtMostOnePast)
<1>1. AsmInit => AsmTypeOK /\ AtMostOnePast
  BY FreshIsFine DEF AsmInit, AsmTypeOK, AtMostOnePast
<1>2. AsmTypeOK /\ AtMostOnePast /\ [AsmNext]_asm => (AsmTypeOK /\ AtMostOnePast)'
  <2> SUFFICES ASSUME AsmTypeOK, AtMostOnePast, [AsmNext]_asm
               PROVE  (AsmTypeOK /\ AtMostOnePast)'
    OBVIOUS
  <2>1. CASE \E i \in Instr, valid \in BOOLEAN : EmitStep(i, valid)
    BY <2>1, EmitEffect DEF EmitStep, AsmTypeOK, AtMostOnePast
  <2>2. CASE bal_x86_assembler_reset
    BY <2>2, FreshIsFine DEF bal_x86_assembler_reset, AsmTypeOK, AtMostOnePast
  <2>3. CASE UNCHANGED asm
    BY <2>3 DEF AsmTypeOK, AtMostOnePast
  <2> QED
    BY <2>1, <2>2, <2>3 DEF AsmNext
<1> QED
  BY <1>1, <1>2, PTL DEF AsmSpec

\* Once an emit function has failed, nothing is written and no later call
\* succeeds until bal_x86_assembler_reset.
THEOREM AssemblerErrorIsFinal == AsmSpec => ErrorIsFinal
<1>1. AsmTypeOK /\ [AsmNext]_asm =>
        [asm.status # SUCCESS =>
            \/ asm'.offset = asm.offset /\ asm'.status # SUCCESS
            \/ bal_x86_assembler_reset]_asm
  <2> SUFFICES ASSUME AsmTypeOK, [AsmNext]_asm, asm.status # SUCCESS, asm' # asm,
                      ~bal_x86_assembler_reset
               PROVE  asm'.offset = asm.offset /\ asm'.status # SUCCESS
    OBVIOUS
  <2>1. PICK i \in Instr, valid \in BOOLEAN : EmitStep(i, valid)
    BY DEF AsmNext
  <2> QED
    BY <2>1, EmitEffect DEF EmitStep, AsmTypeOK
<1>2. AsmSpec => []AsmTypeOK
  BY AssemblerBounded, PTL
<1> QED
  BY <1>1, <1>2, PTL DEF AsmSpec, ErrorIsFinal

-----------------------------------------------------------------------------
\* ExecAll, EmitAll and FlushAll are the folds FoldTheorems speaks of.
LEMMA ExecAllIsFold ==
    ASSUME NEW m, NEW ms
    PROVE  ExecAll(m, ms) = ExecLoop!Fold(m, ms)
BY DEF ExecAll, ExecLoop!Fold, FoldLeft, ExecLoop!FoldLeft, MapThenFoldSet,
       ExecLoop!MapThenFoldSet, Max, ExecLoop!Max

\* The emit calls of a macro.
LEMMA EmitAllIsFold ==
    ASSUME NEW a, NEW is
    PROVE  EmitAll(a, is) = EmitLoop!Fold(a, is)
BY DEF EmitAll, EmitLoop!Fold, FoldLeft, EmitLoop!FoldLeft, MapThenFoldSet,
       EmitLoop!MapThenFoldSet, Max, EmitLoop!Max

\* The loop of bal_sliding_window_flush_all.
LEMMA FlushAllIsFold ==
    ASSUME NEW ms
    PROVE  FlushAll(ms) = FlushLoop!Fold([asm |-> asm, done |-> done], ms)
BY DEF FlushAll, FlushLoop!Fold, FoldLeft, FlushLoop!FoldLeft, MapThenFoldSet,
       FlushLoop!MapThenFoldSet, Max, FlushLoop!Max

\* One emit call keeps the assembler's fields in their ranges, and never takes
\* it out of error.
LEMMA EmitTyped ==
    ASSUME NEW a \in Assembler, NEW i \in Instr
    PROVE  /\ EmitValid(a, i) \in Assembler
           /\ a.status # SUCCESS => EmitValid(a, i).status # SUCCESS
<1>1. a \in [offset : Nat, status : AsmStatus] /\ a.offset <= capacity + 1
  BY CapacityAssumption DEF Assembler
<1>2. /\ Emit(a, i, TRUE) \in [offset : Nat, status : AsmStatus]
      /\ a.status # SUCCESS => Emit(a, i, TRUE).status # SUCCESS
      /\ Emit(a, i, TRUE).offset <= capacity + 1
  <2>1. TRUE \in BOOLEAN
    OBVIOUS
  <2> QED
    BY <1>1, <2>1, EmitEffect
<1> DEFINE b == EmitValid(a, i)
<1>3. b = Emit(a, i, TRUE)
  BY DEF EmitValid
<1> HIDE DEF b
<1>4. b \in [offset : Nat, status : AsmStatus] /\ b.offset <= capacity + 1
  BY <1>2, <1>3
<1>5. b \in Assembler
  BY <1>4, CapacityAssumption DEF Assembler
<1> QED
  BY <1>2, <1>3, <1>5 DEF b

\* The calls that open and leave a block are emit calls the assembler has.
LEMMA FrameTyped == BlockFrame \subseteq Instr
BY DEF BlockFrame, Low, High, Instr, Op, PushPop, RegReg, Disp32

-----------------------------------------------------------------------------
(* One macro.                                                              *)

\* The instructions of a macro are emit calls the assembler has.
LEMMA LoweredTyped ==
    ASSUME NEW m \in Macro
    PROVE  Lowered(m) \in Seq(Instr)
<1>1. \A op \in {"mov_r64_r64", "add_r64_imm32", "mov_r64_imm64", "and_r64_r64"} :
          \A hi, long \in BOOLEAN : [op |-> op, hi |-> hi, long |-> long] \in Instr
  BY DEF Instr, Op, RegReg, AluImm
<1>2. \A op \in {"mov_r64_r64", "add_r64_imm32"} : \A x, y : Emitted(op, x, y) \in Instr
  BY <1>1, Zenon DEF Emitted
<1>3. CASE m.opcode = "MOV_REGISTER_REGISTER"
  <2>1. Lowered(m) = <<Emitted("mov_r64_r64", m.destination, m.source)>>
    BY <1>3 DEF Lowered
  <2> QED
    BY <1>2, <2>1
<1>4. CASE m.opcode = "ADD_REGISTER_IMMEDIATE"
  <2>1. Lowered(m) = <<Emitted("add_r64_imm32", m.destination, m.destination)>>
    BY <1>4 DEF Lowered
  <2> QED
    BY <1>2, <2>1
<1>5. CASE m.opcode = "AND_REGISTER_IMMEDIATE"
  <2> DEFINE mov == [op |-> "mov_r64_imm64", hi |-> TRUE, long |-> FALSE]
             and == [op |-> "and_r64_r64", hi |-> TRUE, long |-> FALSE]
  <2>1. mov \in Instr /\ and \in Instr
    BY <1>1, Zenon
  <2>2. Lowered(m) = <<mov, and>>
    BY <1>5 DEF Lowered
  <2> HIDE DEF mov, and
  <2> QED
    BY <2>1, <2>2
<1>6. CASE m.opcode \notin {"MOV_REGISTER_REGISTER", "ADD_REGISTER_IMMEDIATE",
                           "AND_REGISTER_IMMEDIATE"}
  BY <1>6 DEF Lowered
<1> QED
  BY <1>3, <1>4, <1>5, <1>6

\* A macro's instructions keep the assembler's fields in their ranges.
LEMMA EmitAllTyped ==
    ASSUME NEW a \in Assembler, NEW is \in Seq(Instr)
    PROVE  EmitAll(a, is) \in Assembler
BY EmitTyped, EmitAllIsFold, EmitLoop!FoldInvariant

\* A macro takes a machine to a machine.
LEMMA ExecTyped ==
    ASSUME NEW x \in Machine, NEW m \in Macro
    PROVE  Exec(x, m) \in Machine
<1>1. /\ m.destination \in Registers /\ m.source \in Registers /\ R11 \in Registers
      /\ x.register \in [Registers -> Nat] /\ x.zero \in BOOLEAN
  BY DEF Macro, Registers, Machine
<1>2. \A n \in Nat : (n + 1) % Modulus \in Nat /\ n % 2 \in Nat /\ 1 % Modulus \in Nat
  BY ModulusAssumption
<1>3. CASE m.opcode = "MOV_REGISTER_REGISTER"
  BY <1>1, <1>3 DEF Exec, Machine
<1>4. CASE m.opcode = "ADD_REGISTER_IMMEDIATE"
  BY <1>1, <1>2, <1>4 DEF Exec, Machine
<1>5. CASE m.opcode = "AND_REGISTER_IMMEDIATE"
  BY <1>1, <1>2, <1>5 DEF Exec, Machine
<1>6. CASE m.opcode = "TEST_REGISTER_REGISTER"
  BY <1>1, <1>6 DEF Exec, Machine
<1>7. CASE m.opcode \notin {"MOV_REGISTER_REGISTER", "ADD_REGISTER_IMMEDIATE",
                           "AND_REGISTER_IMMEDIATE", "TEST_REGISTER_REGISTER"}
  BY <1>7 DEF Exec
<1> QED
  BY <1>3, <1>4, <1>5, <1>6, <1>7

\* flush_single_macro keeps both in their types.
LEMMA FlushOneTyped ==
    ASSUME NEW s \in Flushed, NEW m \in Macro
    PROVE  flush_single_macro(s, m) \in Flushed
<1>1. s.asm \in Assembler /\ s.done \in Machine
  BY DEF Flushed
<1>2. EmitAll(s.asm, Lowered(m)) \in Assembler /\ Exec(s.done, m) \in Machine
  BY <1>1, EmitAllTyped, LoweredTyped, ExecTyped
<1> QED
  BY <1>1, <1>2 DEF flush_single_macro, Flushed

-----------------------------------------------------------------------------
(* The loops.                                                              *)

\* Executing macros keeps the machine a machine.
LEMMA ExecAllTyped ==
    ASSUME NEW x \in Machine, NEW ms \in Seq(Macro)
    PROVE  ExecAll(x, ms) \in Machine
BY ExecTyped, ExecAllIsFold, ExecLoop!FoldInvariant

\* A macro queued last is executed last.
LEMMA ExecAllAppend ==
    ASSUME NEW x, NEW ms \in Seq(Macro), NEW m \in Macro
    PROVE  ExecAll(x, Append(ms, m)) = Exec(ExecAll(x, ms), m)
BY ExecAllIsFold, ExecLoop!FoldAppend

\* An empty window does nothing.
LEMMA ExecAllEmpty ==
    ASSUME NEW x
    PROVE  ExecAll(x, <<>>) = x
BY ExecAllIsFold, ExecLoop!FoldEmpty

\* A flush keeps assembler and machine in their types.
LEMMA FlushAllTyped ==
    ASSUME asm \in Assembler, done \in Machine, NEW ms \in Seq(Macro)
    PROVE  FlushAll(ms) \in Flushed
<1>1. [asm |-> asm, done |-> done] \in Flushed
  BY DEF Flushed
<1> QED
  BY <1>1, FlushOneTyped, FlushAllIsFold, FlushLoop!FoldInvariant

\* Flushing an empty window changes nothing.
LEMMA FlushAllEmpty == FlushAll(<<>>) = [asm |-> asm, done |-> done]
BY FlushAllIsFold, FlushLoop!FoldEmpty

\* On an assembler in error a flush writes nothing.
LEMMA FlushInError ==
    ASSUME asm.status # SUCCESS, NEW ms \in Seq(Macro)
    PROVE  FlushAll(ms).asm = asm
<1> DEFINE s0 == [asm |-> asm, done |-> done]
           S == {s0}
<1>1. \A s \in S, m \in Macro : flush_single_macro(s, m) \in S
  BY DEF flush_single_macro
<1>2. s0 \in S
  OBVIOUS
<1> HIDE DEF S
<1>3. FlushAll(ms) \in S
  BY <1>1, <1>2, FlushAllIsFold, FlushLoop!FoldInvariant
<1> QED
  BY <1>3 DEF S

\* Every macro the compiler pushes is lowered to something, or does nothing.
LEMMA NothingDropped ==
    ASSUME "TEST_REGISTER_REGISTER" \notin Opcodes, NEW m \in Macro, NEW x,
           Lowered(m) = <<>>
    PROVE  Exec(x, m) = x
<1>1. m.opcode # "TEST_REGISTER_REGISTER"
  BY DEF Macro
<1>2. m.opcode \notin {"MOV_REGISTER_REGISTER", "ADD_REGISTER_IMMEDIATE",
                      "AND_REGISTER_IMMEDIATE"}
  <2>1. \A a, b : <<a>> # <<>> /\ <<a, b>> # <<>>
    OBVIOUS
  <2> QED
    BY <2>1 DEF Lowered
<1> QED
  BY <1>1, <1>2 DEF Exec

\* A flush that leaves the assembler without error found it without error, and
\* its code does what the flushed macros do.
LEMMA FlushEffect ==
    ASSUME "TEST_REGISTER_REGISTER" \notin Opcodes, NEW ms \in Seq(Macro),
           FlushAll(ms).asm.status = SUCCESS
    PROVE  asm.status = SUCCESS /\ FlushAll(ms).done = ExecAll(done, ms)
<1> DEFINE s0 == [asm |-> asm, done |-> done]
           F(k) == FlushLoop!Fold(s0, FlushLoop!Prefix(ms, k))
           E(k) == ExecLoop!Fold(done, ExecLoop!Prefix(ms, k))
           K == {k \in Nat : k <= Len(ms) =>
                    (F(k).asm.status = SUCCESS =>
                        asm.status = SUCCESS /\ F(k).done = E(k))}
<1>1. 0 \in K
  <2>1. FlushLoop!Prefix(ms, 0) = <<>> /\ ExecLoop!Prefix(ms, 0) = <<>>
    BY DEF FlushLoop!Prefix, ExecLoop!Prefix
  <2>2. F(0) = s0 /\ E(0) = done
    BY <2>1, FlushLoop!FoldEmpty, ExecLoop!FoldEmpty
  <2> QED
    BY <2>2
<1>2. ASSUME NEW k \in Nat, k \in K
      PROVE  k + 1 \in K
  <2> SUFFICES ASSUME k + 1 <= Len(ms), F(k + 1).asm.status = SUCCESS
               PROVE  asm.status = SUCCESS /\ F(k + 1).done = E(k + 1)
    OBVIOUS
  <2>1. ms[k + 1] \in Macro
    OBVIOUS
  <2>2. F(k + 1) = flush_single_macro(F(k), ms[k + 1]) /\ E(k + 1) = Exec(E(k), ms[k + 1])
    BY FlushLoop!FoldPrefix, ExecLoop!FoldPrefix
  <2>3. F(k).asm.status = SUCCESS => asm.status = SUCCESS /\ F(k).done = E(k)
    BY <1>2
  <2> HIDE DEF F, E, K
  <2>4. F(k).asm.status = SUCCESS
    BY <2>2 DEF flush_single_macro
  <2>5. F(k + 1).done = Exec(F(k).done, ms[k + 1])
    <3> DEFINE m == ms[k + 1]
               a == EmitAll(F(k).asm, Lowered(m))
    <3>1. F(k + 1) = [asm |-> a, done |-> IF a.status = SUCCESS /\ Lowered(m) # <<>>
                                         THEN Exec(F(k).done, m) ELSE F(k).done]
      BY <2>2, <2>4 DEF flush_single_macro
    <3>2. a.status = SUCCESS
      BY <3>1
    <3>3. Lowered(m) = <<>> => Exec(F(k).done, m) = F(k).done
      BY <2>1, NothingDropped
    <3> HIDE DEF a
    <3> QED
      BY <3>1, <3>2, <3>3
  <2> QED
    BY <2>2, <2>3, <2>4, <2>5
<1>3. Len(ms) \in K
  <2> HIDE DEF K
  <2> QED
    BY <1>1, <1>2, FlushLoop!SetInduction
<1>4. FlushLoop!Prefix(ms, Len(ms)) = ms /\ ExecLoop!Prefix(ms, Len(ms)) = ms
  BY DEF FlushLoop!Prefix, ExecLoop!Prefix
<1> QED
  BY <1>3, <1>4, FlushAllIsFold, ExecAllIsFold

-----------------------------------------------------------------------------
(* The peephole optimizer.                                                 *)

\* A NOP does nothing.
LEMMA NopIsNothing ==
    ASSUME NEW x, NEW m, m.opcode = "NOP"
    PROVE  Exec(x, m) = x
BY DEF Exec

\* A move of a register to itself does nothing.
LEMMA SelfMove ==
    ASSUME NEW x \in Machine, NEW m \in Macro, IsMov(m), m.destination = m.source
    PROVE  Exec(x, m) = x
<1>1. m.destination \in Registers /\ x.register \in [Registers -> Nat]
  BY DEF Macro, Registers, Machine
<1>2. Exec(x, m) = [x EXCEPT !.register[m.destination] = x.register[m.destination]]
  BY DEF Exec, IsMov
<1>3. [x.register EXCEPT ![m.destination] = x.register[m.destination]] = x.register
  BY <1>1
<1> QED
  BY <1>2, <1>3 DEF Machine

\* The second of two equal moves does nothing.
LEMMA MoveTwice ==
    ASSUME NEW x \in Machine, NEW m \in Macro, IsMov(m)
    PROVE  Exec(Exec(x, m), m) = Exec(x, m)
<1> DEFINE d == m.destination
           s == m.source
           r == [x.register EXCEPT ![d] = x.register[s]]
           y == Exec(x, m)
<1>1. d \in Registers /\ s \in Registers /\ x.register \in [Registers -> Nat]
  BY DEF Macro, Registers, Machine
<1>2. y = [x EXCEPT !.register = r]
  BY DEF Exec, IsMov
<1>3. y \in Machine /\ y.register = r
  BY <1>2, ExecTyped DEF Machine
<1>4. Exec(y, m) = [y EXCEPT !.register = [y.register EXCEPT ![d] = y.register[s]]]
  BY DEF Exec, IsMov
<1>5. [r EXCEPT ![d] = r[s]] = r
  BY <1>1
<1> HIDE DEF y, r
<1>6. [y EXCEPT !.register = r] = y
  BY <1>3 DEF Machine
<1> QED
  BY <1>3, <1>4, <1>5, <1>6 DEF y

\* Sequences that agree everywhere are equal.
LEMMA SameSequence ==
    ASSUME NEW S, NEW s \in Seq(S), NEW t \in Seq(S), Len(s) = Len(t),
           \A i \in 1 .. Len(s) : s[i] = t[i]
    PROVE  s = t
OBVIOUS

\* run_peephole_optimizer leaves the macros in the window macros, and as many
\* as there were.
LEMMA PeepholeTyped ==
    ASSUME NEW ms \in Seq(Macro), NEW m \in Macro
    PROVE  LET opt == run_peephole_optimizer(Append(ms, m))
           IN  opt \in Seq(Macro) /\ Len(opt) = Len(ms) + 1
<1> DEFINE all == Append(ms, m)
           n == Len(all)
<1>1. all \in Seq(Macro) /\ n = Len(ms) + 1 /\ n \in Nat /\ n \in 1 .. n
  OBVIOUS
<1> HIDE DEF all
<1>2. ASSUME NEW i \in 1 .. n
      PROVE  /\ [all EXCEPT ![i].opcode = "NOP"] \in Seq(Macro)
             /\ Len([all EXCEPT ![i].opcode = "NOP"]) = n
  <2>1. all[i] \in Macro
    BY <1>1
  <2>2. [all[i] EXCEPT !.opcode = "NOP"] \in Macro
    BY <2>1 DEF Macro
  <2> QED
    BY <1>1, <2>2
<1>3. n >= 2 => n - 1 \in 1 .. n
  BY <1>1
<1>4. \/ run_peephole_optimizer(all) = all
      \/ run_peephole_optimizer(all) = [all EXCEPT ![n].opcode = "NOP"]
      \/ n >= 2 /\ run_peephole_optimizer(all) = [all EXCEPT ![n - 1].opcode = "NOP"]
  BY DEF run_peephole_optimizer
<1> QED
  BY <1>1, <1>2, <1>3, <1>4 DEF all

\* The rewritten window does what the window with the pushed macro does.
LEMMA PeepholeEffect ==
    ASSUME NEW x \in Machine, NEW ms \in Seq(Macro), NEW m \in Macro
    PROVE  ExecAll(x, run_peephole_optimizer(Append(ms, m))) = Exec(ExecAll(x, ms), m)
<1> DEFINE all == Append(ms, m)
           n == Len(all)
           nop == [m EXCEPT !.opcode = "NOP"]
           y == ExecAll(x, ms)
<1>1. y \in Machine
  BY ExecAllTyped
<1>2. /\ nop \in Macro /\ nop.opcode = "NOP"
      /\ n = Len(ms) + 1 /\ n \in Nat /\ all[n] = m
  BY DEF Macro
<1>3. CASE run_peephole_optimizer(all) = all
  BY <1>3, ExecAllAppend
<1>4. CASE IsMov(m) /\ m.destination = m.source
           /\ run_peephole_optimizer(all) = [all EXCEPT ![n].opcode = "NOP"]
  <2>1. [all EXCEPT ![n].opcode = "NOP"] = Append(ms, nop)
    <3> DEFINE new == [all EXCEPT ![n].opcode = "NOP"]
    <3>1. new \in Seq(Macro) /\ Len(new) = n
      <4>1. all \in Seq(Macro) /\ n \in 1 .. Len(all)
        OBVIOUS
      <4> HIDE DEF all, nop
      <4> QED
        BY <1>2, <4>1 DEF nop
    <3>2. Append(ms, nop) \in Seq(Macro) /\ Len(Append(ms, nop)) = n
      BY <1>2
    <3>3. \A i \in 1 .. n : new[i] = Append(ms, nop)[i]
      <4>1. all \in Seq(Macro) /\ \A i \in 1 .. n - 1 : all[i] = ms[i]
        OBVIOUS
      <4>2. \A i \in 1 .. n : new[i] = IF i = n THEN nop ELSE all[i]
        <5> HIDE DEF all
        <5> QED
          BY <1>2, <4>1
      <4>3. \A i \in 1 .. n : Append(ms, nop)[i] = IF i = n THEN nop ELSE ms[i]
        <5> HIDE DEF nop
        <5> QED
          BY <1>2
      <4> HIDE DEF new, nop, n, all
      <4> QED
        BY <1>2, <4>1, <4>2, <4>3
    <3> HIDE DEF new, nop, n
    <3> QED
      BY <3>1, <3>2, <3>3, SameSequence DEF new
  <2>2. ExecAll(x, Append(ms, nop)) = Exec(y, nop)
    BY <1>2, ExecAllAppend
  <2>3. Exec(y, nop) = y /\ Exec(y, m) = y
    BY <1>1, <1>2, <1>4, NopIsNothing, SelfMove
  <2> QED
    BY <1>4, <2>1, <2>2, <2>3
<1>5. CASE n >= 2 /\ IsMov(m) /\ m = all[n - 1]
           /\ run_peephole_optimizer(all) = [all EXCEPT ![n - 1].opcode = "NOP"]
  <2> DEFINE front == [i \in 1 .. n - 2 |-> ms[i]]
             z == ExecAll(x, front)
  <2>1. front \in Seq(Macro) /\ Len(front) = n - 2
    BY <1>2, <1>5
  <2>2. ms = Append(front, m)
    BY <1>2, <1>5
  <2>3. [all EXCEPT ![n - 1].opcode = "NOP"] = Append(Append(front, nop), m)
    <3> DEFINE new == [all EXCEPT ![n - 1].opcode = "NOP"]
               rhs == Append(Append(front, nop), m)
    <3>1. new \in Seq(Macro) /\ Len(new) = n
      <4>1. all \in Seq(Macro) /\ n - 1 \in 1 .. Len(all)
        BY <1>5
      <4> HIDE DEF all, nop
      <4> QED
        BY <1>2, <1>5, <4>1 DEF nop
    <3>2. Append(front, nop) \in Seq(Macro) /\ Len(Append(front, nop)) = n - 1
      <4> HIDE DEF front, nop, n
      <4> QED
        BY <1>2, <2>1
    <3>3. rhs \in Seq(Macro) /\ Len(rhs) = n
      <4> HIDE DEF front, nop, n
      <4> QED
        BY <1>2, <3>2
    <3>4. \A i \in 1 .. n : new[i] = rhs[i]
      <4>1. new[n - 1] = nop /\ new[n] = m /\ \A i \in 1 .. n - 2 : new[i] = ms[i]
        <5>1. all \in Seq(Macro) /\ \A i \in 1 .. n - 1 : all[i] = ms[i]
          OBVIOUS
        <5>2. \A i \in 1 .. n : new[i] = IF i = n - 1 THEN nop ELSE all[i]
          <6> HIDE DEF all
          <6> QED
            BY <1>2, <1>5, <5>1
        <5>3. n - 1 \in 1 .. n /\ n \in 1 .. n /\ n # n - 1 /\ all[n] = m
          BY <1>2, <1>5
        <5>4. \A i \in 1 .. n - 2 : i \in 1 .. n /\ i \in 1 .. n - 1 /\ i # n - 1
          BY <1>2, <1>5
        <5> HIDE DEF new, nop, n, all
        <5> QED
          BY <5>1, <5>2, <5>3, <5>4
      <4>2. rhs[n - 1] = nop /\ rhs[n] = m /\ \A i \in 1 .. n - 2 : rhs[i] = front[i]
        <5> HIDE DEF front, nop, n
        <5> QED
          BY <1>2, <2>1, <3>2
      <4>3. \A i \in 1 .. n - 2 : front[i] = ms[i]
        OBVIOUS
      <4> HIDE DEF front, nop, n, new, rhs
      <4> QED
        BY <1>2, <4>1, <4>2, <4>3
    <3> HIDE DEF new, nop, n, rhs
    <3> QED
      BY <3>1, <3>3, <3>4, SameSequence DEF new, rhs
  <2> HIDE DEF front
  <2>4. z \in Machine
    BY <2>1, ExecAllTyped
  <2>5. y = Exec(z, m)
    BY <2>1, <2>2, ExecAllAppend
  <2>6. Append(front, nop) \in Seq(Macro)
    BY <1>2, <2>1
  <2>7. ExecAll(x, Append(Append(front, nop), m)) = Exec(Exec(z, nop), m)
    <3> DEFINE w == Append(front, nop)
    <3>1. ExecAll(x, w) = Exec(z, nop)
      <4> HIDE DEF nop
      <4> QED
        BY <1>2, <2>1, ExecAllAppend
    <3>2. w \in Seq(Macro)
      BY <2>6
    <3> HIDE DEF w
    <3>3. ExecAll(x, Append(w, m)) = Exec(ExecAll(x, w), m)
      BY <3>2, ExecAllAppend
    <3> QED
      BY <3>1, <3>3 DEF w
  <2>8. Exec(z, nop) = z /\ Exec(Exec(z, m), m) = Exec(z, m)
    BY <1>2, <1>5, <2>4, NopIsNothing, MoveTwice
  <2> QED
    BY <1>5, <2>3, <2>5, <2>7, <2>8
<1>6. \/ run_peephole_optimizer(all) = all
      \/ /\ IsMov(m) /\ m.destination = m.source
         /\ run_peephole_optimizer(all) = [all EXCEPT ![n].opcode = "NOP"]
      \/ /\ n >= 2 /\ IsMov(m) /\ m = all[n - 1]
         /\ run_peephole_optimizer(all) = [all EXCEPT ![n - 1].opcode = "NOP"]
  BY <1>2 DEF run_peephole_optimizer
<1> QED
  BY <1>3, <1>4, <1>5, <1>6

-----------------------------------------------------------------------------
(* The state machine.                                                      *)

Typed == TypeOK /\ done \in Machine /\ want \in Machine

\* The machine a block starts on, and the assembler after a reset.
LEMMA FreshTyped == FreshMachine \in Machine /\ FreshAssembler \in Assembler
<1>1. FreshMachine \in Machine
  BY DEF FreshMachine, Machine
<1>2. FreshAssembler \in Assembler
  BY CapacityAssumption DEF FreshAssembler, Assembler, AsmStatus, SUCCESS
<1> QED
  BY <1>1, <1>2

\* The initial state has its type, and every operation keeps it.
LEMMA TypedInvariant ==
    /\ Init => Typed
    /\ Typed /\ [Next]_vars => Typed'
<1>1. Init => Typed
  BY FreshTyped, WindowAssumption DEF Init, Typed, TypeOK, Assembler
<1>2. ASSUME Typed, [Next]_vars
      PROVE  Typed'
  <2>1. /\ window \in Seq(Macro) /\ Len(window) <= BAL_SLIDING_WINDOW_CAPACITY
        /\ asm \in Assembler /\ done \in Machine /\ want \in Machine
        /\ BAL_SLIDING_WINDOW_CAPACITY \in Nat \ {0}
    BY <1>2, WindowAssumption DEF Typed, TypeOK, Assembler
  <2>2. ASSUME NEW m \in Pushed, bal_sliding_window_push(m)
        PROVE  Typed'
    <3> DEFINE old == IF IsFull(window) THEN window ELSE <<>>
               kept == IF IsFull(window) THEN <<>> ELSE window
    <3>1. m \in Macro
      BY DEF Pushed
    <3>2. old \in Seq(Macro) /\ kept \in Seq(Macro)
          /\ Len(kept) + 1 <= BAL_SLIDING_WINDOW_CAPACITY
      BY <2>1 DEF IsFull
    <3>3. /\ asm' = FlushAll(old).asm /\ done' = FlushAll(old).done
          /\ window' = run_peephole_optimizer(Append(kept, m))
          /\ want' = Exec(want, m)
      BY <2>2 DEF bal_sliding_window_push
    <3> HIDE DEF old, kept
    <3>4. asm' \in Assembler /\ done' \in Machine
      BY <2>1, <3>2, <3>3, FlushAllTyped DEF Flushed
    <3>5. window' \in Seq(Macro) /\ Len(window') = Len(kept) + 1
      BY <3>1, <3>2, <3>3, PeepholeTyped
    <3>6. want' \in Machine
      BY <2>1, <3>1, <3>3, ExecTyped
    <3> QED
      BY <3>2, <3>4, <3>5, <3>6 DEF Typed, TypeOK, Assembler
  <2>3. CASE bal_sliding_window_flush_all
    <3>1. FlushAll(window) \in Flushed
      BY <2>1, FlushAllTyped
    <3> QED
      BY <2>1, <2>3, <3>1 DEF bal_sliding_window_flush_all, Flushed, Typed, TypeOK, Assembler
  <2>4. CASE bal_sliding_window_reset
    BY <2>1, <2>4, FreshTyped DEF bal_sliding_window_reset, Typed, TypeOK, Assembler
  <2>5. CASE UNCHANGED vars
    BY <1>2, <2>5 DEF vars, Typed, TypeOK
  <2>6. ASSUME NEW i \in BlockFrame, EmitFrame(i)
        PROVE  Typed'
    <3>1. asm' \in Assembler
      BY <2>1, <2>6, FrameTyped, EmitTyped DEF EmitFrame
    <3> QED
      BY <2>1, <2>6, <3>1 DEF EmitFrame, Typed, TypeOK, Assembler
  <2> QED
    BY <1>2, <2>2, <2>3, <2>4, <2>5, <2>6 DEF Next
<1> QED
  BY <1>1, <1>2

\* Whatever the compiler pushes and however the window is flushed, the macros in
\* it fit the array window->macros and the assembler's fields have their types.
THEOREM WindowFits == Spec => []TypeOK
<1>1. Typed => TypeOK
  BY DEF Typed
<1> QED
  BY <1>1, TypedInvariant, PTL DEF Spec

\* Once an emit function has failed, in the middle of a block or around it, nothing
\* of what the compiler goes on to push, flush and emit is written and the error
\* stays, until bal_tier1_compiler_reset.
THEOREM WindowErrorIsFinal == Spec => ErrorIsFinal
<1>1. Typed /\ [Next]_vars =>
        [asm.status # SUCCESS =>
            \/ asm'.offset = asm.offset /\ asm'.status # SUCCESS
            \/ bal_x86_assembler_reset]_asm
  <2> SUFFICES ASSUME Typed, [Next]_vars, asm.status # SUCCESS, asm' # asm,
                      ~bal_x86_assembler_reset
               PROVE  asm'.offset = asm.offset /\ asm'.status # SUCCESS
    OBVIOUS
  <2>1. window \in Seq(Macro) /\ asm \in [offset : Nat, status : AsmStatus]
    BY CapacityAssumption DEF Typed, TypeOK, Assembler
  <2>2. ~bal_sliding_window_flush_all /\ ~\E m \in Pushed : bal_sliding_window_push(m)
    <3>1. FlushAll(window).asm = asm
      BY <2>1, FlushInError
    <3>2. FlushAll(<<>>).asm = asm
      BY FlushAllEmpty
    <3> QED
      BY <3>1, <3>2 DEF bal_sliding_window_flush_all, bal_sliding_window_push
  <2>3. PICK i \in BlockFrame : EmitFrame(i)
    BY <2>2 DEF Next, vars, bal_sliding_window_reset, bal_x86_assembler_reset
  <2>4. asm' = Emit(asm, i, TRUE) /\ i \in Instr /\ TRUE \in BOOLEAN
    BY <2>3, FrameTyped DEF EmitFrame, EmitValid
  <2> QED
    BY <2>1, <2>4, EmitEffect
<1> QED
  BY <1>1, TypedInvariant, PTL DEF Spec, ErrorIsFinal

\* Buffering, flushing and the peephole rewrites keep the effect of what was
\* pushed: as long as the assembler is not in error, the code in the buffer
\* followed by the queued macros is equivalent to the pushed macros.  The one
\* opcode excluded is the one flush_single_macro has no case for.
THEOREM WindowKeepsEffect ==
    ASSUME "TEST_REGISTER_REGISTER" \notin Opcodes
    PROVE  Spec => []SameEffect
<1>1. Init => SameEffect
  BY ExecAllEmpty DEF Init, SameEffect
<1>2. Typed /\ SameEffect /\ [Next]_vars => SameEffect'
  <2> SUFFICES ASSUME Typed, SameEffect, [Next]_vars, asm'.status = SUCCESS
               PROVE  ExecAll(done', window') = want'
    BY DEF SameEffect
  <2>1. window \in Seq(Macro) /\ asm \in Assembler /\ done \in Machine /\ want \in Machine
    BY DEF Typed, TypeOK, Assembler
  <2>2. ASSUME NEW m \in Pushed, bal_sliding_window_push(m)
        PROVE  ExecAll(done', window') = want'
    <3> DEFINE old == IF IsFull(window) THEN window ELSE <<>>
               kept == IF IsFull(window) THEN <<>> ELSE window
    <3>1. m \in Macro
      BY DEF Pushed
    <3>2. old \in Seq(Macro) /\ kept \in Seq(Macro)
      BY <2>1
    <3>3. /\ asm' = FlushAll(old).asm /\ done' = FlushAll(old).done
          /\ window' = run_peephole_optimizer(Append(kept, m))
          /\ want' = Exec(want, m)
      BY <2>2 DEF bal_sliding_window_push
    <3>4. asm.status = SUCCESS /\ done' = ExecAll(done, old)
      BY <3>2, <3>3, FlushEffect
    <3>5. ExecAll(done, window) = want
      BY <3>4 DEF SameEffect
    <3>6. ExecAll(done', kept) = want
      BY <3>4, <3>5, ExecAllEmpty
    <3>7. done' \in Machine
      BY <2>1, <3>2, <3>4, ExecAllTyped
    <3> HIDE DEF kept
    <3>8. ExecAll(done', window') = Exec(ExecAll(done', kept), m)
      BY <3>1, <3>2, <3>3, <3>7, PeepholeEffect
    <3> QED
      BY <3>3, <3>6, <3>8
  <2>3. CASE bal_sliding_window_flush_all
    <3>1. asm' = FlushAll(window).asm /\ done' = FlushAll(window).done
          /\ window' = <<>> /\ want' = want
      BY <2>3 DEF bal_sliding_window_flush_all
    <3>2. asm.status = SUCCESS /\ done' = ExecAll(done, window)
      BY <2>1, <3>1, FlushEffect
    <3> QED
      BY <3>1, <3>2, ExecAllEmpty DEF SameEffect
  <2>4. CASE bal_sliding_window_reset
    BY <2>4, ExecAllEmpty DEF bal_sliding_window_reset
  <2>5. CASE UNCHANGED vars
    BY <2>5 DEF vars, SameEffect
  <2>6. ASSUME NEW i \in BlockFrame, EmitFrame(i)
        PROVE  ExecAll(done', window') = want'
    <3>1. asm' = EmitValid(asm, i) /\ UNCHANGED <<window, want, done>>
      BY <2>6 DEF EmitFrame
    <3>2. asm.status = SUCCESS
      BY <2>1, <3>1, FrameTyped, EmitTyped
    <3> QED
      BY <3>1, <3>2 DEF SameEffect
  <2> QED
    BY <2>2, <2>3, <2>4, <2>5, <2>6 DEF Next
<1> QED
  BY <1>1, <1>2, TypedInvariant, PTL DEF Spec
=============================================================================
