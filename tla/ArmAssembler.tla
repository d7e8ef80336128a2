---------------------------- MODULE ArmAssembler ----------------------------
(***************************************************************************)
(* The ARM64 assembler (bal_assembler.c), which tests and the fuzzer use   *)
(* to write guest code, against the decoder that the compiler reads it     *)
(* with.  The buffer belongs to the caller.                                *)
(***************************************************************************)
EXTENDS Decoder, SequencesExt

CONSTANTS
    Slots,      \* words in the caller's memory
    HUGE,       \* a size above SIZE_MAX / 4, not a number
    Requests    \* the emit calls made, see Request

ASSUME SlotsAssumption == Slots \in Nat \ {0}

SUCCESS == "BAL_SUCCESS"
INVALID_ARGUMENT == "BAL_ERROR_INVALID_ARGUMENT"
MEMORY_ALIGNMENT == "BAL_ERROR_MEMORY_ALIGNMENT"
CAPACITY_TOO_BIG == "BAL_ERROR_CAPACITY_TOO_BIG"
STRUCT_CORRUPTED == "BAL_ERROR_STRUCT_CORRUPTED"
INSTRUCTION_OVERFLOW == "BAL_ERROR_INSTRUCTION_OVERFLOW"
PC_ALIGNMENT == "BAL_ERROR_PC_ALIGNMENT"
BRANCH_OFFSET_OVERFLOW == "BAL_ERROR_BRANCH_OFFSET_OVERFLOW"
Status == {SUCCESS, INVALID_ARGUMENT, MEMORY_ALIGNMENT, CAPACITY_TOO_BIG,
           STRUCT_CORRUPTED, INSTRUCTION_OVERFLOW, PC_ALIGNMENT, BRANCH_OFFSET_OVERFLOW}

VARIABLES
    assembler,  \* the bal_assembler_t; buffer tells whether the pointer is set
    memory,     \* the words of the caller's buffer
    asked       \* ghost: the requests written since the buffer was last empty

vars == <<assembler, memory, asked>>

\* A call: the function and its arguments, in the order of the decoder's
\* operands; for MOVZ, MOVK and MOVN the shift in bits, for B the offset in bytes.
Request(op, args) == [op |-> op, args |-> args]

\* The parameters of each function: unsigned, but for B's offset; the immediate
\* of MOVZ, MOVK and MOVN is a uint16_t.
Callable(r) ==
    \/ r.op \in {"add_immediate", "sub_immediate"} /\ r.args \in [1 .. 4 -> Nat]
    \/ r.op = "add_shifted_register" /\ r.args \in [1 .. 5 -> Nat]
    \/ r.op \in {"movz", "movk", "movn"} /\ r.args \in [1 .. 3 -> Nat] /\ r.args[2] < 2^16
    \/ r.op = "b" /\ r.args \in [1 .. 1 -> Int]
    \/ r.op \in {"br", "ret"} /\ r.args \in [1 .. 1 -> Nat]

ASSUME RequestsAssumption == \A r \in Requests : Callable(r)

-----------------------------------------------------------------------------
(* The checks of a function, in order: the first that fails ends the call  *)
(* with its error, or, for "status", with the error already there.         *)

Check(ok, error) == [ok |-> ok, error |-> error]

Magic == Check(assembler.magic = "ALIVE", STRUCT_CORRUPTED)
Buffer == Check(assembler.buffer, INVALID_ARGUMENT)

\* Mutant: an assembler in error is not refused.
StatusCheck_dropped == Check(TRUE, assembler.status)

StatusCheck == Check(assembler.status = SUCCESS, assembler.status)
Register(r) == Check(r \in 0 .. 31, INVALID_ARGUMENT)
InSet(v, values) == Check(v \in values, INVALID_ARGUMENT)

\* Mutant: one word too many.
can_emit_off_by_one == Check(assembler.offset <= assembler.capacity, INSTRUCTION_OVERFLOW)

can_emit == Check(assembler.offset < assembler.capacity, INSTRUCTION_OVERFLOW)

\* The fields bal_emit_add_immediate and bal_emit_sub_immediate share.
AddSubChecks(a) ==
    <<Register(a[1]), Register(a[2]), InSet(a[3], 0 .. \hFFF), InSet(a[4], {0, 1})>>

\* add_immediate looks at the status before the buffer; B and RET look at their
\* argument, and B at the room left, before the status.
EmitChecks(r) ==
    LET a == r.args
    IN  CASE r.op = "add_immediate" ->
                <<Magic, StatusCheck, Buffer>> \o AddSubChecks(a) \o <<can_emit>>
          [] r.op = "sub_immediate" ->
                <<Magic, Buffer, StatusCheck>> \o AddSubChecks(a) \o <<can_emit>>
          [] r.op = "add_shifted_register" ->
                <<Magic, Buffer, StatusCheck, Register(a[1]), Register(a[2]), Register(a[4]),
                  InSet(a[3], 0 .. 63), InSet(a[5], 0 .. 2), can_emit>>
          [] r.op \in {"movz", "movk", "movn"} ->
                <<Magic, Buffer, StatusCheck, Register(a[1]), InSet(a[3], {0, 16, 32, 48}),
                  can_emit>>
          [] r.op = "b" ->
                <<Magic, Buffer, Check(a[1] % 4 = 0, PC_ALIGNMENT),
                  Check(a[1] \div 4 \in -(2^25) .. 2^25 - 1, BRANCH_OFFSET_OVERFLOW),
                  can_emit, StatusCheck>>
          [] r.op = "br" -> <<Magic, Buffer, StatusCheck, Register(a[1]), can_emit>>
          [] r.op = "ret" -> <<Magic, Buffer, Register(a[1]), StatusCheck, can_emit>>

ResetChecks == <<Magic, Buffer, Check(assembler.capacity # 0, INVALID_ARGUMENT)>>

FirstFailure(checks) == SelectInSeq(checks, LAMBDA c : ~c.ok)

-----------------------------------------------------------------------------
(* The words.                                                              *)

AddSubWord(hard_coded_bits, a) ==
    Bits(1, 31) \union Bits(hard_coded_bits, 23) \union Bits(a[4], 22) \union
    Bits(a[3], 10) \union Bits(a[2], 5) \union Bits(a[1], 0)

AddShiftedRegister(a) ==
    Bits(1, 31) \union Bits(\h0B, 24) \union Bits(a[5], 22) \union Bits(a[4], 16)
    \union Bits(a[3], 10) \union Bits(a[2], 5) \union Bits(a[1], 0)

emit_mov(opcode, a) ==
    Bits(1, 31) \union Bits(opcode, 29) \union Bits(\h25, 23) \union
    Bits(a[3] \div 16, 21) \union Bits(a[2], 5) \union Bits(a[1], 0)

Encode(r) ==
    LET a == r.args
    IN  CASE r.op = "add_immediate" -> AddSubWord(\h22, a)
          [] r.op = "sub_immediate" -> AddSubWord(\hA2, a)
          [] r.op = "add_shifted_register" -> AddShiftedRegister(a)
          [] r.op = "movz" -> emit_mov(2, a)
          [] r.op = "movk" -> emit_mov(3, a)
          [] r.op = "movn" -> emit_mov(0, a)
          [] r.op = "b" -> Word(\h1400, 0) \union Bits((a[1] \div 4) % 2^26, 0)
          [] r.op = "br" -> Word(\hD61F, 0) \union Bits(a[1], 5)
          [] r.op = "ret" -> Word(\hD65F, 0) \union Bits(a[1], 5)

-----------------------------------------------------------------------------
Zeroes == [i \in 0 .. Slots - 1 |-> {}]
Cleared(status, magic) ==
    [buffer |-> FALSE, capacity |-> 0, offset |-> 0, status |-> status, magic |-> magic]

\* A zeroed struct that was never initialised.
Init ==
    /\ assembler = Cleared(SUCCESS, "NONE")
    /\ memory = Zeroes
    /\ asked = <<>>

\* The struct is cleared first, so a failed call leaves it unusable.
bal_assembler_init(buffer, aligned, size) ==
    LET checks == <<Check(buffer, INVALID_ARGUMENT), Check(size # 0, INVALID_ARGUMENT),
                    Check(aligned, MEMORY_ALIGNMENT), Check(size # HUGE, CAPACITY_TOO_BIG)>>
        failed == FirstFailure(checks)
    IN  /\ assembler' =
               IF failed # 0 THEN Cleared(checks[failed].error, "NONE")
               ELSE [buffer |-> TRUE, capacity |-> size, offset |-> 0,
                     status |-> SUCCESS, magic |-> "ALIVE"]
        /\ asked' = <<>>
        /\ UNCHANGED memory

\* Mutant: one word too many is zeroed.
ZeroedWords_off_by_one ==
    [i \in DOMAIN memory |-> IF i <= assembler.capacity THEN {} ELSE memory[i]]

ZeroedWords ==
    [i \in DOMAIN memory |-> IF i < assembler.capacity THEN {} ELSE memory[i]]

bal_assembler_reset ==
    LET failed == FirstFailure(ResetChecks)
    IN  IF failed # 0
        THEN /\ assembler' = [assembler EXCEPT !.status = ResetChecks[failed].error]
             /\ UNCHANGED <<memory, asked>>
        ELSE /\ assembler' = [assembler EXCEPT !.offset = 0, !.status = SUCCESS]
             /\ memory' = ZeroedWords
             /\ asked' = <<>>

bal_assembler_destroy ==
    /\ assembler' = IF Magic.ok THEN Cleared(STRUCT_CORRUPTED, "DEAD")
                    ELSE [assembler EXCEPT !.status = STRUCT_CORRUPTED]
    /\ asked' = IF Magic.ok THEN <<>> ELSE asked
    /\ UNCHANGED memory

\* A bal_emit_* call.
Emit(r) ==
    LET checks == EmitChecks(r)
        failed == FirstFailure(checks)
    IN  IF failed # 0
        THEN /\ assembler' = [assembler EXCEPT !.status = checks[failed].error]
             /\ UNCHANGED <<memory, asked>>
        ELSE /\ memory' = [memory EXCEPT ![assembler.offset] = Encode(r)]
             /\ assembler' = [assembler EXCEPT !.offset = @ + 1]
             /\ asked' = Append(asked, r)

\* The caller's buffer has at least size words.
Next ==
    \/ \E buffer, aligned \in BOOLEAN, size \in (0 .. Slots) \union {HUGE} :
            bal_assembler_init(buffer, aligned, size)
    \/ bal_assembler_reset
    \/ bal_assembler_destroy
    \/ \E r \in Requests : Emit(r)

Spec == Init /\ [][Next]_vars

-----------------------------------------------------------------------------
\* The struct's fields have their types, the write index never passes the
\* capacity, and only a live assembler has a buffer.
TypeOK ==
    /\ assembler \in [buffer : BOOLEAN, capacity : 0 .. Slots, offset : 0 .. Slots,
                      status : Status, magic : {"NONE", "ALIVE", "DEAD"}]
    /\ assembler.offset <= assembler.capacity
    /\ assembler.buffer <=> assembler.magic = "ALIVE"
    /\ DOMAIN memory = 0 .. Slots - 1 /\ \A i \in DOMAIN memory : memory[i] \subseteq Bit
    /\ Len(asked) = assembler.offset

Named(op) == CASE op = "add_immediate" -> "ADD"
               [] op = "sub_immediate" -> "SUB"
               [] op = "add_shifted_register" -> "ADD"
               [] op = "movz" -> "MOVZ"
               [] op = "movk" -> "MOVK"
               [] op = "movn" -> "MOVN"
               [] op = "b" -> "B"
               [] op = "br" -> "BR"
               [] op = "ret" -> "RET"

\* The arguments as the translate_* functions read them back from the word.
ReadBack(r, word) ==
    LET e == bal_decode_arm64(word)
        value(i) == extract_operand_value(word, e.operands[i - 1])
    IN  [i \in DOMAIN r.args |->
            CASE r.op = "b" -> SignExtend(value(1), e.operands[0].bit_width) * 4
              [] r.op \in {"movz", "movk", "movn"} /\ i = 3 -> value(i) * 16
              [] OTHER -> value(i)]

\* Every word in the buffer decodes, through the table as the generator orders
\* it, to the instruction bal_emit_* was asked for, and the compiler's
\* extract_operand_value finds the arguments in it: after any calls, failures,
\* resets and re-initialisations.
RoundTrip ==
    \A i \in DOMAIN asked :
        LET word == memory[i - 1]
        IN  /\ bal_decode_arm64(word).name = Named(asked[i].op)
            /\ ReadBack(asked[i], word) = asked[i].args

\* "Once this is set to anything other than BAL_SUCCESS, all subsequent emit
\* calls will be ignored until the assembler is reset" (bal_assembler.h): no
\* emit call writes, moves the offset or restores BAL_SUCCESS.
ErrorStops ==
    [][ assembler.status # SUCCESS /\ (\E r \in Requests : Emit(r)) =>
            /\ memory' = memory
            /\ assembler'.offset = assembler.offset
            /\ assembler'.status # SUCCESS ]_vars

\* No call writes to the caller's buffer outside the words the last
\* bal_assembler_init was given, or after bal_assembler_destroy or a failed
\* bal_assembler_init, whatever the struct went through.
WritesStayInside ==
    [][ \A i \in DOMAIN memory :
            memory'[i] # memory[i] =>
                assembler.magic = "ALIVE" /\ i < assembler.capacity ]_vars
=============================================================================
