------------------------- MODULE ArmAssemblerProofs -------------------------
(***************************************************************************)
(* Proofs about ArmAssembler, for every buffer size and every set of calls *)
(* with arguments of the functions' types.  The fields that the checks     *)
(* leave (Fits) stay within the word (EncodeFits); what a call does to the *)
(* state is then one of two or three cases (EmitOutcome, InitOutcome,      *)
(* ResetOutcome), and the invariant ties every word below the offset to    *)
(* the call that wrote it.                                                 *)
(***************************************************************************)
EXTENDS ArmAssembler, WellFoundedInduction, TLAPS

\* 2^i, as a function.
Power == [i \in 0 .. 26 |-> 2^i]

\* A number of k bits.
Field(v, k) == v \in 0 .. Power[k] - 1

\* The powers of two that Bits divides by.
LEMMA Powers ==
    /\ Power[0] = 1 /\ Power[1] = 2 /\ Power[2] = 4 /\ Power[3] = 8
    /\ Power[4] = 16 /\ Power[5] = 32 /\ Power[6] = 64 /\ Power[7] = 128
    /\ Power[8] = 256 /\ Power[9] = 512 /\ Power[10] = 1024 /\ Power[11] = 2048
    /\ Power[12] = 4096 /\ Power[13] = 8192 /\ Power[14] = 16384 /\ Power[15] = 32768
    /\ Power[16] = 65536 /\ Power[17] = 131072 /\ Power[18] = 262144 /\ Power[19] = 524288
    /\ Power[20] = 1048576 /\ Power[21] = 2097152 /\ Power[22] = 4194304 /\ Power[23] = 8388608
    /\ Power[24] = 16777216 /\ Power[25] = 33554432 /\ Power[26] = 67108864
BY DEF Power

\* They grow.
LEMMA PowersGrow ==
    ASSUME NEW j \in 0 .. 26, NEW k \in 0 .. 26, k <= j
    PROVE  2^j \in Nat /\ 2^k \in Nat /\ 2^k <= 2^j
<1>1. Power[j] \in Nat /\ Power[k] \in Nat /\ Power[k] <= Power[j]
  BY Powers
<1> QED
  BY <1>1 DEF Power

\* A number below p has no bit from there on.
LEMMA NoHighBit ==
    ASSUME NEW v \in Nat, NEW p \in Nat, v < p
    PROVE  (v \div p) % 2 # 1
<1>1. v \div p = 0
  OBVIOUS
<1> QED
  BY <1>1

\* A number below 2^k, moved by at, has no one bit from at + k on.
LEMMA InWord ==
    ASSUME NEW v, NEW at \in Nat, NEW k \in 1 .. 26, Field(v, k), at + k <= 32
    PROVE  Bits(v, at) \subseteq Bit
<1>1. ASSUME NEW j \in 0 .. 25, k <= j PROVE (v \div 2^j) % 2 # 1
  <2>1. j \in 0 .. 26 /\ k \in 0 .. 26
    OBVIOUS
  <2>2. 2^j \in Nat /\ 2^k \in Nat /\ 2^k <= 2^j
    BY <1>1, <2>1, PowersGrow
  <2>3. PICK p \in Nat, q \in Nat : p = 2^j /\ q = 2^k
    BY <2>2
  <2>4. v \in Nat /\ v < p
    BY <2>1, <2>2, <2>3 DEF Power, Field
  <2> QED
    BY <2>3, <2>4, NoHighBit
<1> DEFINE J == {j \in 0 .. 25 : (v \div 2^j) % 2 = 1}
<1>2. \A j \in J : j \in 0 .. 25 /\ ~(k <= j)
  BY <1>1, Zenon
<1>3. Bits(v, at) = {at + i : i \in J}
  BY Zenon DEF Bits
<1> HIDE DEF J
<1> QED
  BY <1>2, <1>3 DEF Bit

-----------------------------------------------------------------------------
(* The words.                                                              *)

\* The functions modelled.
Ops == {"add_immediate", "sub_immediate", "add_shifted_register", "movz", "movk", "movn",
        "b", "br", "ret"}

\* The arguments that a bal_emit_* function takes: what its checks leave.
Fits(r) ==
    LET a == r.args
    IN  /\ r.op \in Ops
        /\ r.op \in {"add_immediate", "sub_immediate"} =>
              Field(a[1], 5) /\ Field(a[2], 5) /\ Field(a[3], 12) /\ Field(a[4], 1)
        /\ r.op = "add_shifted_register" =>
              /\ Field(a[1], 5) /\ Field(a[2], 5) /\ Field(a[3], 6) /\ Field(a[4], 5)
              /\ a[5] \in 0 .. 2
        /\ r.op \in {"movz", "movk", "movn"} =>
              Field(a[1], 5) /\ Field(a[2], 16) /\ a[3] \in {0, 16, 32, 48}
        /\ r.op = "b" => a[1] % 4 = 0 /\ a[1] \div 4 \in -(2^25) .. 2^25 - 1
        /\ r.op \in {"br", "ret"} => Field(a[1], 5)

\* The fixed parts of the instructions.
LEMMA FixedFields ==
    /\ Field(1, 1) /\ Field(\h22, 8) /\ Field(\hA2, 8) /\ Field(\h0B, 5) /\ Field(\h25, 6)
    /\ Field(\h1400, 16) /\ Field(\hD61F, 16) /\ Field(\hD65F, 16)
    /\ \A v \in 0 .. 3 : Field(v, 2)
BY SMT, Powers DEF Field

\* Whatever the number, the 26 lowest bits are within the word.
LEMMA LowBits ==
    ASSUME NEW v
    PROVE  Bits(v, 0) \subseteq Bit
<1> DEFINE J == {j \in 0 .. 25 : (v \div 2^j) % 2 = 1}
<1>1. J \subseteq 0 .. 25 /\ Bits(v, 0) = {0 + i : i \in J}
  BY Zenon DEF Bits
<1> HIDE DEF J
<1> QED
  BY SMT, <1>1 DEF Bit

\* The fields of an instruction lie within the 32 bits of its word.
LEMMA EncodeFits ==
    ASSUME NEW r, Fits(r)
    PROVE  Encode(r) \subseteq Bit
<1> DEFINE a == r.args
<1>1. ASSUME r.op \in {"add_immediate", "sub_immediate"} PROVE Encode(r) \subseteq Bit
  <2>1. Field(a[1], 5) /\ Field(a[2], 5) /\ Field(a[3], 12) /\ Field(a[4], 1)
    BY <1>1, Zenon DEF Fits
  <2>2. Bits(a[1], 0) \subseteq Bit /\ Bits(a[2], 5) \subseteq Bit
    BY SMT, <2>1, InWord
  <2>3. Bits(a[3], 10) \subseteq Bit /\ Bits(a[4], 22) \subseteq Bit
    BY SMT, <2>1, InWord
  <2>4. /\ Bits(1, 31) \subseteq Bit
        /\ \A v : Field(v, 8) => Bits(v, 23) \subseteq Bit
    BY SMT, FixedFields, InWord
  <2>5. \A v : Field(v, 8) => AddSubWord(v, a) \subseteq Bit
    BY <2>2, <2>3, <2>4, Zenon DEF AddSubWord
  <2>6. \/ Encode(r) = AddSubWord(\h22, a)
        \/ Encode(r) = AddSubWord(\hA2, a)
    BY SMT, <1>1 DEF Encode
  <2> QED
    BY SMT, <2>5, <2>6, FixedFields
<1>2. ASSUME r.op = "add_shifted_register" PROVE Encode(r) \subseteq Bit
  <2>1. /\ Field(a[1], 5) /\ Field(a[2], 5) /\ Field(a[3], 6) /\ Field(a[4], 5)
        /\ Field(a[5], 2)
    BY SMT, <1>2, FixedFields DEF Fits
  <2>2. Bits(a[1], 0) \subseteq Bit /\ Bits(a[2], 5) \subseteq Bit
    BY SMT, <2>1, InWord
  <2>3. /\ Bits(a[3], 10) \subseteq Bit /\ Bits(a[4], 16) \subseteq Bit
        /\ Bits(a[5], 22) \subseteq Bit
    BY SMT, <2>1, InWord
  <2>4. Bits(1, 31) \subseteq Bit /\ Bits(\h0B, 24) \subseteq Bit
    BY SMT, FixedFields, InWord
  <2>5. AddShiftedRegister(a) \subseteq Bit
    BY <2>2, <2>3, <2>4, Zenon DEF AddShiftedRegister
  <2>6. Encode(r) = AddShiftedRegister(a)
    BY SMT, <1>2 DEF Encode
  <2> QED
    BY <2>5, <2>6, Zenon
<1>3. ASSUME r.op \in {"movz", "movk", "movn"} PROVE Encode(r) \subseteq Bit
  <2>1. Field(a[1], 5) /\ Field(a[2], 16) /\ a[3] \in {0, 16, 32, 48}
    BY <1>3, Zenon DEF Fits
  <2>2. a[3] \div 16 \in 0 .. 3
    BY SMT, <2>1
  <2>3. Field(a[3] \div 16, 2)
    BY SMT, <2>2, FixedFields
  <2>4. Bits(a[1], 0) \subseteq Bit /\ Bits(a[2], 5) \subseteq Bit
    BY SMT, <2>1, InWord
  <2>5. Bits(a[3] \div 16, 21) \subseteq Bit
    BY SMT, <2>3, InWord
  <2>6. /\ Bits(1, 31) \subseteq Bit /\ Bits(\h25, 23) \subseteq Bit
        /\ \A v : Field(v, 2) => Bits(v, 29) \subseteq Bit
    BY SMT, FixedFields, InWord
  <2>7. \A v : Field(v, 2) => emit_mov(v, a) \subseteq Bit
    BY <2>4, <2>5, <2>6, Zenon DEF emit_mov
  <2>8. \E opcode \in 0 .. 3 : Encode(r) = emit_mov(opcode, a)
    BY SMT, <1>3 DEF Encode
  <2> QED
    BY SMT, <2>7, <2>8, FixedFields
<1>4. ASSUME r.op = "b" PROVE Encode(r) \subseteq Bit
  <2>1. Encode(r) = Word(\h1400, 0) \union Bits((a[1] \div 4) % 2^26, 0)
    BY SMT, <1>4 DEF Encode
  <2>2. Bits(\h1400, 16) \subseteq Bit
    BY SMT, FixedFields, InWord
  <2>3. Bits(0, 0) \subseteq Bit /\ Bits((a[1] \div 4) % 2^26, 0) \subseteq Bit
    BY SMT, LowBits
  <2> QED
    BY SMT, <2>1, <2>2, <2>3 DEF Word
<1>5. ASSUME r.op \in {"br", "ret"} PROVE Encode(r) \subseteq Bit
  <2>1. Field(a[1], 5)
    BY <1>5, Zenon DEF Fits
  <2>2. \/ Encode(r) = Word(\hD61F, 0) \union Bits(a[1], 5)
        \/ Encode(r) = Word(\hD65F, 0) \union Bits(a[1], 5)
    BY SMT, <1>5 DEF Encode
  <2>3. Bits(\hD61F, 16) \subseteq Bit /\ Bits(\hD65F, 16) \subseteq Bit
    BY SMT, FixedFields, InWord
  <2>4. Bits(0, 0) \subseteq Bit /\ Bits(a[1], 5) \subseteq Bit
    BY SMT, <2>1, LowBits, InWord
  <2> QED
    BY SMT, <2>2, <2>3, <2>4 DEF Word
<1>6. r.op \in Ops
  BY Zenon DEF Fits
<1> QED
  BY SMT, <1>1, <1>2, <1>3, <1>4, <1>5, <1>6 DEF Ops

-----------------------------------------------------------------------------
(* The checks.                                                             *)

\* FirstFailure is 0 when every check holds and otherwise the index of one
\* that fails.
LEMMA FirstFailureIs ==
    ASSUME NEW checks, NEW n \in Nat, Len(checks) = n
    PROVE  \/ FirstFailure(checks) = 0 /\ \A i \in 1 .. n : checks[i].ok
           \/ FirstFailure(checks) \in 1 .. n /\ ~checks[FirstFailure(checks)].ok
<1> DEFINE I == {i \in 1 .. n : ~checks[i].ok}
<1>1. FirstFailure(checks) = IF I # {} THEN Min(I) ELSE 0
  BY DEF FirstFailure, SelectInSeq
<1>2. CASE I = {}
  BY <1>1, <1>2
<1>3. CASE I # {}
  <2>1. I \in SUBSET Nat
    OBVIOUS
  <2> HIDE DEF I
  <2>2. \E x \in I : \A y \in I : ~(<<y, x>> \in OpToRel(<, Nat))
    BY <1>3, <2>1, WFMin, NatLessThanWellFounded, Zenon
  <2>3. PICK x \in I : \A y \in I : ~(<<y, x>> \in OpToRel(<, Nat))
    BY <2>2
  <2>4. \A y \in I : ~(y < x)
    BY <2>1, <2>3 DEF OpToRel
  <2>5. \A y \in I : x <= y
    BY <2>1, <2>4
  <2>6. Min(I) \in I
    BY <2>5, Zenon DEF Min
  <2>7. FirstFailure(checks) \in I
    BY <1>1, <1>3, <2>6, Zenon
  <2> QED
    BY <2>7 DEF I
<1> QED
  BY <1>2, <1>3

\* A check that fails names an error.
Fine(c) == ~c.ok => c.error \in Status \ {SUCCESS}

\* Every check does.
LEMMA ChecksAreFine ==
    ASSUME assembler.status \in Status
    PROVE  /\ Fine(Magic) /\ Fine(Buffer) /\ Fine(StatusCheck) /\ Fine(can_emit)
           /\ \A v : Fine(Register(v))
           /\ \A v, values : Fine(InSet(v, values))
           /\ \A ok : Fine(Check(ok, PC_ALIGNMENT)) /\ Fine(Check(ok, BRANCH_OFFSET_OVERFLOW))
BY DEF Fine, Magic, Buffer, StatusCheck, can_emit, Register, InSet, Check, Status, SUCCESS,
       INVALID_ARGUMENT, STRUCT_CORRUPTED, INSTRUCTION_OVERFLOW, PC_ALIGNMENT,
       BRANCH_OFFSET_OVERFLOW, MEMORY_ALIGNMENT, CAPACITY_TOO_BIG

\* What a check that holds says.
LEMMA ChecksSay ==
    /\ Magic.ok => assembler.magic = "ALIVE"
    /\ StatusCheck.ok => assembler.status = SUCCESS
    /\ can_emit.ok => assembler.offset < assembler.capacity
    /\ \A v : Register(v).ok => v \in 0 .. 31
    /\ \A v, values : InSet(v, values).ok => v \in values
    /\ \A v, values, error : Check(v \in values, error).ok => v \in values
    /\ \A v, w, error : Check(v = w, error).ok => v = w
BY Zenon DEF Magic, StatusCheck, can_emit, Register, InSet, Check

\* The arguments of ADD and SUB with an immediate that pass fit their fields.
LEMMA ImmediateFields ==
    ASSUME NEW a, Register(a[1]).ok, Register(a[2]).ok, InSet(a[3], 0 .. \hFFF).ok,
           InSet(a[4], {0, 1}).ok
    PROVE  Field(a[1], 5) /\ Field(a[2], 5) /\ Field(a[3], 12) /\ Field(a[4], 1)
<1> DEFINE immediates == 0 .. \hFFF
<1>1. InSet(a[3], immediates).ok
  OBVIOUS
<1> HIDE DEF immediates
<1>2. a[1] \in 0 .. 31 /\ a[2] \in 0 .. 31 /\ a[3] \in immediates /\ a[4] \in {0, 1}
  BY SMT, <1>1, ChecksSay
<1>3. Power[5] = 32 /\ Power[12] = 4096 /\ Power[1] = 2
  BY SMT, Powers
<1>4. Field(a[1], 5) /\ Field(a[2], 5) /\ Field(a[4], 1)
  BY SMT, <1>2, <1>3 DEF Field
<1>5. Field(a[3], 12)
  BY SMT, <1>2, <1>3 DEF Field, immediates
<1> QED
  BY <1>4, <1>5

\* The checks of one function in a list: all are fine, and when they all hold
\* Magic, StatusCheck and can_emit are among them.
Lists(checks, n) ==
    /\ Len(checks) = n
    /\ \A i \in 1 .. n : Fine(checks[i])
    /\ (\A i \in 1 .. n : checks[i].ok) => Magic.ok /\ StatusCheck.ok /\ can_emit.ok

\* Three lists of checks one after the other.
LEMMA Joined ==
    ASSUME NEW x1, NEW x2, NEW x3, NEW x4, NEW x5, NEW x6, NEW x7, NEW x8,
           NEW c, c = <<x1, x2, x3>> \o <<x4, x5, x6, x7>> \o <<x8>>
    PROVE  /\ Len(c) = 8
           /\ c[1] = x1 /\ c[2] = x2 /\ c[3] = x3 /\ c[4] = x4
           /\ c[5] = x5 /\ c[6] = x6 /\ c[7] = x7 /\ c[8] = x8
<1> DEFINE S == {x1, x2, x3, x4, x5, x6, x7, x8}
<1>1. <<x1, x2, x3>> \in Seq(S) /\ <<x4, x5, x6, x7>> \in Seq(S) /\ <<x8>> \in Seq(S)
  OBVIOUS
<1> DEFINE p == <<x1, x2, x3>> \o <<x4, x5, x6, x7>>
<1>2. Len(<<x1, x2, x3>>) = 3 /\ Len(<<x4, x5, x6, x7>>) = 4 /\ Len(<<x8>>) = 1
  OBVIOUS
<1> HIDE DEF S
<1>3. p \in Seq(S) /\ Len(p) = 7
  BY <1>1, <1>2
<1>4. /\ p[1] = x1 /\ p[2] = x2 /\ p[3] = x3 /\ p[4] = x4
      /\ p[5] = x5 /\ p[6] = x6 /\ p[7] = x7
  BY <1>1, <1>2
<1>5. c = p \o <<x8>>
  OBVIOUS
<1> HIDE DEF p
<1> QED
  BY <1>1, <1>2, <1>3, <1>4, <1>5

\* The checks of every function, and what they leave of its arguments.
LEMMA ChecksAre ==
    ASSUME NEW r \in Requests, assembler.status \in Status
    PROVE  \E n \in Nat :
              /\ Lists(EmitChecks(r), n)
              /\ (\A i \in 1 .. n : EmitChecks(r)[i].ok) => Fits(r)
<1> DEFINE a == r.args
           checks == EmitChecks(r)
           Goal == \E n \in Nat : /\ Lists(checks, n)
                                  /\ (\A i \in 1 .. n : checks[i].ok) => Fits(r)
<1>0. Callable(r)
  BY RequestsAssumption
<1>1. CASE r.op = "add_immediate"
  <2>1. checks =
          <<Magic, StatusCheck, Buffer>> \o
          <<Register(a[1]), Register(a[2]), InSet(a[3], 0 .. \hFFF), InSet(a[4], {0, 1})>> \o
          <<can_emit>>
    BY SMT, <1>1 DEF EmitChecks, AddSubChecks
  <2>2. /\ Len(checks) = 8
        /\ checks[1] = Magic
        /\ checks[2] = StatusCheck
        /\ checks[3] = Buffer
        /\ checks[4] = Register(a[1])
        /\ checks[5] = Register(a[2])
        /\ checks[6] = InSet(a[3], 0 .. \hFFF)
        /\ checks[7] = InSet(a[4], {0, 1})
        /\ checks[8] = can_emit
    BY SMT, <2>1, Joined
  <2> HIDE DEF checks
  <2>3. Lists(checks, 8)
    BY SMT, <2>2, ChecksAreFine DEF Lists
  <2>4. ASSUME \A i \in 1 .. 8 : checks[i].ok PROVE Fits(r)
    <3>1. /\ Register(a[1]).ok /\ Register(a[2]).ok
          /\ InSet(a[3], 0 .. \hFFF).ok /\ InSet(a[4], {0, 1}).ok
      BY SMT, <2>2, <2>4
    <3>2. Field(a[1], 5) /\ Field(a[2], 5) /\ Field(a[3], 12) /\ Field(a[4], 1)
      BY SMT, <3>1, ImmediateFields
    <3> QED
      BY SMT, <1>1, <3>2 DEF Fits, Ops
  <2> QED
    BY SMT, <2>3, <2>4 DEF checks
<1>2. CASE r.op = "sub_immediate"
  <2>1. checks =
          <<Magic, Buffer, StatusCheck>> \o
          <<Register(a[1]), Register(a[2]), InSet(a[3], 0 .. \hFFF), InSet(a[4], {0, 1})>> \o
          <<can_emit>>
    BY SMT, <1>2 DEF EmitChecks, AddSubChecks
  <2>2. /\ Len(checks) = 8
        /\ checks[1] = Magic
        /\ checks[2] = Buffer
        /\ checks[3] = StatusCheck
        /\ checks[4] = Register(a[1])
        /\ checks[5] = Register(a[2])
        /\ checks[6] = InSet(a[3], 0 .. \hFFF)
        /\ checks[7] = InSet(a[4], {0, 1})
        /\ checks[8] = can_emit
    BY SMT, <2>1, Joined
  <2> HIDE DEF checks
  <2>3. Lists(checks, 8)
    BY SMT, <2>2, ChecksAreFine DEF Lists
  <2>4. ASSUME \A i \in 1 .. 8 : checks[i].ok PROVE Fits(r)
    <3>1. /\ Register(a[1]).ok /\ Register(a[2]).ok
          /\ InSet(a[3], 0 .. \hFFF).ok /\ InSet(a[4], {0, 1}).ok
      BY SMT, <2>2, <2>4
    <3>2. Field(a[1], 5) /\ Field(a[2], 5) /\ Field(a[3], 12) /\ Field(a[4], 1)
      BY SMT, <3>1, ImmediateFields
    <3> QED
      BY SMT, <1>2, <3>2 DEF Fits, Ops
  <2> QED
    BY SMT, <2>3, <2>4 DEF checks
<1>3. CASE r.op = "add_shifted_register"
  <2>1. checks = <<Magic, Buffer, StatusCheck, Register(a[1]), Register(a[2]),
                   Register(a[4]), InSet(a[3], 0 .. 63), InSet(a[5], 0 .. 2), can_emit>>
    BY SMT, <1>3 DEF EmitChecks
  <2>2. /\ Len(checks) = 9
        /\ checks[1] = Magic
        /\ checks[2] = Buffer
        /\ checks[3] = StatusCheck
        /\ checks[4] = Register(a[1])
        /\ checks[5] = Register(a[2])
        /\ checks[6] = Register(a[4])
        /\ checks[7] = InSet(a[3], 0 .. 63)
        /\ checks[8] = InSet(a[5], 0 .. 2)
        /\ checks[9] = can_emit
    BY SMT, <2>1
  <2> HIDE DEF checks
  <2>3. Lists(checks, 9)
    BY SMT, <2>2, ChecksAreFine DEF Lists
  <2>4. ASSUME \A i \in 1 .. 9 : checks[i].ok PROVE Fits(r)
    <3>1. /\ a[1] \in 0 .. 31 /\ a[2] \in 0 .. 31 /\ a[3] \in 0 .. 63 /\ a[4] \in 0 .. 31
          /\ a[5] \in 0 .. 2
      BY SMT, <2>2, <2>4, ChecksSay
    <3>2. Field(a[1], 5) /\ Field(a[2], 5) /\ Field(a[3], 6) /\ Field(a[4], 5)
      BY SMT, <3>1, Powers DEF Field
    <3> QED
      BY SMT, <1>3, <3>1, <3>2 DEF Fits, Ops
  <2> QED
    BY SMT, <2>3, <2>4 DEF checks
<1>4. CASE r.op \in {"movz", "movk", "movn"}
  <2>1. checks = <<Magic, Buffer, StatusCheck, Register(a[1]), InSet(a[3], {0, 16, 32, 48}),
                   can_emit>>
    BY SMT, <1>4 DEF EmitChecks
  <2>2. /\ Len(checks) = 6
        /\ checks[1] = Magic
        /\ checks[2] = Buffer
        /\ checks[3] = StatusCheck
        /\ checks[4] = Register(a[1])
        /\ checks[5] = InSet(a[3], {0, 16, 32, 48})
        /\ checks[6] = can_emit
    BY SMT, <2>1
  <2> HIDE DEF checks
  <2>3. Lists(checks, 6)
    BY SMT, <2>2, ChecksAreFine DEF Lists
  <2>4. ASSUME \A i \in 1 .. 6 : checks[i].ok PROVE Fits(r)
    <3>1. a[1] \in 0 .. 31 /\ a[3] \in {0, 16, 32, 48}
      BY SMT, <2>2, <2>4, ChecksSay
    <3>2. PICK v \in Nat : v = a[2]
      BY SMT, <1>0, <1>4 DEF Callable
    <3>3. v < 65536
      BY SMT, <1>0, <1>4, <3>2 DEF Callable
    <3>4. PICK p \in Nat : p = Power[16]
      BY SMT, Powers
    <3>5. v < p
      BY SMT, <3>3, <3>4, Powers
    <3>6. v \in 0 .. p - 1
      BY SMT, <3>5
    <3>7. Field(a[2], 16)
      BY Zenon, <3>2, <3>4, <3>6 DEF Field
    <3>8. Field(a[1], 5)
      BY SMT, <3>1, Powers DEF Field
    <3> QED
      BY SMT, <1>4, <3>1, <3>7, <3>8 DEF Fits, Ops
  <2> QED
    BY SMT, <2>3, <2>4 DEF checks
<1>5. CASE r.op = "b"
  <2>1. checks = <<Magic, Buffer, Check(a[1] % 4 = 0, PC_ALIGNMENT),
                   Check(a[1] \div 4 \in -(2^25) .. 2^25 - 1, BRANCH_OFFSET_OVERFLOW),
                   can_emit, StatusCheck>>
    BY SMT, <1>5 DEF EmitChecks
  <2>2. /\ Len(checks) = 6
        /\ checks[1] = Magic
        /\ checks[2] = Buffer
        /\ checks[3] = Check(a[1] % 4 = 0, PC_ALIGNMENT)
        /\ checks[4] = Check(a[1] \div 4 \in -(2^25) .. 2^25 - 1, BRANCH_OFFSET_OVERFLOW)
        /\ checks[5] = can_emit
        /\ checks[6] = StatusCheck
    BY SMT, <2>1
  <2> HIDE DEF checks
  <2>3. Lists(checks, 6)
    BY SMT, <2>2, ChecksAreFine DEF Lists
  <2>4. ASSUME \A i \in 1 .. 6 : checks[i].ok PROVE Fits(r)
    <3> DEFINE offsets == -(2^25) .. 2^25 - 1
    <3>1. /\ Check(a[1] % 4 = 0, PC_ALIGNMENT).ok
          /\ Check(a[1] \div 4 \in offsets, BRANCH_OFFSET_OVERFLOW).ok
      BY SMT, <2>2, <2>4
    <3> HIDE DEF offsets
    <3>2. a[1] % 4 = 0 /\ a[1] \div 4 \in offsets
      BY Zenon, <3>1, ChecksSay
    <3> QED
      BY SMT, <1>5, <3>2 DEF Fits, Ops, offsets
  <2> QED
    BY SMT, <2>3, <2>4 DEF checks
<1>6. CASE r.op = "br"
  <2>1. checks = <<Magic, Buffer, StatusCheck, Register(a[1]), can_emit>>
    BY SMT, <1>6 DEF EmitChecks
  <2>2. /\ Len(checks) = 5
        /\ checks[1] = Magic
        /\ checks[2] = Buffer
        /\ checks[3] = StatusCheck
        /\ checks[4] = Register(a[1])
        /\ checks[5] = can_emit
    BY SMT, <2>1
  <2> HIDE DEF checks
  <2>3. Lists(checks, 5)
    BY SMT, <2>2, ChecksAreFine DEF Lists
  <2>4. ASSUME \A i \in 1 .. 5 : checks[i].ok PROVE Fits(r)
    <3>1. a[1] \in 0 .. 31
      BY SMT, <2>2, <2>4, ChecksSay
    <3>2. Field(a[1], 5)
      BY SMT, <3>1, Powers DEF Field
    <3> QED
      BY SMT, <1>6, <3>1, <3>2 DEF Fits, Ops
  <2> QED
    BY SMT, <2>3, <2>4 DEF checks
<1>7. CASE r.op = "ret"
  <2>1. checks = <<Magic, Buffer, Register(a[1]), StatusCheck, can_emit>>
    BY SMT, <1>7 DEF EmitChecks
  <2>2. /\ Len(checks) = 5
        /\ checks[1] = Magic
        /\ checks[2] = Buffer
        /\ checks[3] = Register(a[1])
        /\ checks[4] = StatusCheck
        /\ checks[5] = can_emit
    BY SMT, <2>1
  <2> HIDE DEF checks
  <2>3. Lists(checks, 5)
    BY SMT, <2>2, ChecksAreFine DEF Lists
  <2>4. ASSUME \A i \in 1 .. 5 : checks[i].ok PROVE Fits(r)
    <3>1. a[1] \in 0 .. 31
      BY SMT, <2>2, <2>4, ChecksSay
    <3>2. Field(a[1], 5)
      BY SMT, <3>1, Powers DEF Field
    <3> QED
      BY SMT, <1>7, <3>1, <3>2 DEF Fits, Ops
  <2> QED
    BY SMT, <2>3, <2>4 DEF checks
<1> QED
  BY SMT, <1>0, <1>1, <1>2, <1>3, <1>4, <1>5, <1>6, <1>7 DEF Callable

-----------------------------------------------------------------------------
(* What a call does.                                                       *)

\* An emit call that fails one of its checks.
Refused ==
    /\ \E error \in Status \ {SUCCESS} : assembler' = [assembler EXCEPT !.status = error]
    /\ UNCHANGED <<memory, asked>>

\* An emit call that writes a word.
Written(r) ==
    /\ assembler.magic = "ALIVE" /\ assembler.status = SUCCESS
    /\ assembler.offset < assembler.capacity
    /\ Fits(r)
    /\ memory' = [memory EXCEPT ![assembler.offset] = Encode(r)]
    /\ assembler' = [assembler EXCEPT !.offset = @ + 1]
    /\ asked' = Append(asked, r)

\* An emit call leaves everything but the status alone, or finds the assembler
\* alive, without an error and with room, and writes.
LEMMA EmitOutcome ==
    ASSUME assembler.status \in Status, NEW r \in Requests, Emit(r)
    PROVE  Refused \/ Written(r)
<1> DEFINE checks == EmitChecks(r)
           failed == FirstFailure(checks)
<1>1. \/ /\ failed # 0
         /\ assembler' = [assembler EXCEPT !.status = checks[failed].error]
         /\ UNCHANGED <<memory, asked>>
      \/ /\ failed = 0
         /\ memory' = [memory EXCEPT ![assembler.offset] = Encode(r)]
         /\ assembler' = [assembler EXCEPT !.offset = @ + 1]
         /\ asked' = Append(asked, r)
  BY Zenon DEF Emit
<1>2. PICK n \in Nat : /\ Lists(checks, n)
                       /\ (\A i \in 1 .. n : checks[i].ok) => Fits(r)
  BY ChecksAre, Zenon
<1>3. /\ Len(checks) = n
      /\ \A i \in 1 .. n : Fine(checks[i])
      /\ (\A i \in 1 .. n : checks[i].ok) => Magic.ok /\ StatusCheck.ok /\ can_emit.ok
  BY <1>2, Zenon DEF Lists
<1>4. \/ failed = 0 /\ \A i \in 1 .. n : checks[i].ok
      \/ failed \in 1 .. n /\ ~checks[failed].ok
  BY <1>3, FirstFailureIs, Zenon
<1> HIDE DEF checks, failed
<1>5. CASE failed = 0
  <2>1. \A i \in 1 .. n : checks[i].ok
    BY <1>4, <1>5
  <2>2. Magic.ok /\ StatusCheck.ok /\ can_emit.ok /\ Fits(r)
    BY <1>2, <1>3, <2>1, Zenon
  <2> QED
    BY <1>1, <1>5, <2>2, ChecksSay, Zenon DEF Written
<1>6. CASE failed # 0
  <2>1. checks[failed].error \in Status \ {SUCCESS}
    BY <1>3, <1>4, <1>6, Zenon DEF Fine
  <2> QED
    BY <1>1, <1>6, <2>1, Zenon DEF Refused
<1> QED
  BY <1>5, <1>6

\* bal_assembler_init leaves the struct cleared, or alive with room for the
\* words it was given.
LEMMA InitOutcome ==
    ASSUME NEW buffer \in BOOLEAN, NEW aligned \in BOOLEAN,
           NEW size \in (0 .. Slots) \union {HUGE},
           bal_assembler_init(buffer, aligned, size)
    PROVE  /\ \/ \E error \in Status : assembler' = Cleared(error, "NONE")
              \/ /\ size \in 0 .. Slots
                 /\ assembler' = [buffer |-> TRUE, capacity |-> size, offset |-> 0,
                                  status |-> SUCCESS, magic |-> "ALIVE"]
           /\ asked' = <<>>
           /\ memory' = memory
<1> DEFINE checks == <<Check(buffer, INVALID_ARGUMENT), Check(size # 0, INVALID_ARGUMENT),
                       Check(aligned, MEMORY_ALIGNMENT), Check(size # HUGE, CAPACITY_TOO_BIG)>>
           failed == FirstFailure(checks)
<1>1. /\ assembler' =
            IF failed # 0 THEN Cleared(checks[failed].error, "NONE")
            ELSE [buffer |-> TRUE, capacity |-> size, offset |-> 0,
                  status |-> SUCCESS, magic |-> "ALIVE"]
      /\ asked' = <<>> /\ memory' = memory
  BY Zenon DEF bal_assembler_init
<1>2. /\ Len(checks) = 4
      /\ checks[1] = Check(buffer, INVALID_ARGUMENT)
      /\ checks[2] = Check(size # 0, INVALID_ARGUMENT)
      /\ checks[3] = Check(aligned, MEMORY_ALIGNMENT)
      /\ checks[4] = Check(size # HUGE, CAPACITY_TOO_BIG)
  OBVIOUS
<1> HIDE DEF checks
<1>3. \/ failed = 0 /\ \A i \in 1 .. 4 : checks[i].ok
      \/ failed \in 1 .. 4 /\ ~checks[failed].ok
  BY <1>2, FirstFailureIs
<1> HIDE DEF failed
<1>4. CASE failed = 0
  <2>1. Check(size # HUGE, CAPACITY_TOO_BIG).ok
    BY <1>2, <1>3, <1>4
  <2>2. size # HUGE
    BY <2>1, Zenon DEF Check
  <2> QED
    BY <1>1, <1>4, <2>2
<1>5. CASE failed # 0
  <2>1. \A ok, error : Check(ok, error).error = error
    BY DEF Check
  <2>2. checks[failed].error \in Status
    BY <1>2, <1>3, <1>5, <2>1 DEF Status, INVALID_ARGUMENT, MEMORY_ALIGNMENT, CAPACITY_TOO_BIG
  <2> QED
    BY <1>1, <1>5, <2>2, Zenon
<1> QED
  BY <1>4, <1>5

\* bal_assembler_reset sets an error, or clears the words it was given.
LEMMA ResetOutcome ==
    ASSUME bal_assembler_reset
    PROVE  \/ /\ \E error \in Status \ {SUCCESS} :
                    assembler' = [assembler EXCEPT !.status = error]
              /\ UNCHANGED <<memory, asked>>
           \/ /\ assembler.magic = "ALIVE"
              /\ assembler' = [assembler EXCEPT !.offset = 0, !.status = SUCCESS]
              /\ memory' = ZeroedWords
              /\ asked' = <<>>
<1> DEFINE failed == FirstFailure(ResetChecks)
<1>1. \/ /\ failed # 0
         /\ assembler' = [assembler EXCEPT !.status = ResetChecks[failed].error]
         /\ UNCHANGED <<memory, asked>>
      \/ /\ failed = 0
         /\ assembler' = [assembler EXCEPT !.offset = 0, !.status = SUCCESS]
         /\ memory' = ZeroedWords
         /\ asked' = <<>>
  BY Zenon DEF bal_assembler_reset
<1>2. /\ Len(ResetChecks) = 3
      /\ ResetChecks[1] = Magic /\ ResetChecks[2] = Buffer
      /\ ResetChecks[3] = Check(assembler.capacity # 0, INVALID_ARGUMENT)
  BY DEF ResetChecks
<1>3. \/ failed = 0 /\ \A i \in 1 .. 3 : ResetChecks[i].ok
      \/ failed \in 1 .. 3 /\ ~ResetChecks[failed].ok
  BY <1>2, FirstFailureIs
<1> HIDE DEF failed
<1>4. CASE failed = 0
  <2>1. Magic.ok
    BY <1>2, <1>3, <1>4
  <2> QED
    BY <1>1, <1>4, <2>1, ChecksSay, Zenon
<1>5. CASE failed # 0
  <2>1. /\ Magic.error = STRUCT_CORRUPTED /\ Buffer.error = INVALID_ARGUMENT
        /\ Check(assembler.capacity # 0, INVALID_ARGUMENT).error = INVALID_ARGUMENT
    BY DEF Magic, Buffer, Check
  <2>2. ResetChecks[failed].error \in {STRUCT_CORRUPTED, INVALID_ARGUMENT}
    BY <1>2, <1>3, <1>5, <2>1
  <2>3. {STRUCT_CORRUPTED, INVALID_ARGUMENT} \subseteq Status \ {SUCCESS}
    BY DEF Status, STRUCT_CORRUPTED, INVALID_ARGUMENT, SUCCESS
  <2> QED
    BY <1>1, <1>5, <2>2, <2>3
<1> QED
  BY <1>4, <1>5

-----------------------------------------------------------------------------
(* The invariant.                                                          *)

\* The struct's type in TypeOK.
Struct == [buffer : BOOLEAN, capacity : 0 .. Slots, offset : 0 .. Slots,
           status : Status, magic : {"NONE", "ALIVE", "DEAD"}]

\* What TypeOK says of the struct alone.
Sound(s) ==
    /\ s \in Struct
    /\ s.offset <= s.capacity
    /\ s.buffer <=> s.magic = "ALIVE"

\* Every word below the offset is the one of the call that wrote it.
Faithful ==
    /\ asked \in Seq(Requests)
    /\ \A i \in 1 .. Len(asked) : Fits(asked[i]) /\ memory[i - 1] = Encode(asked[i])

\* The inductive invariant.
Inv ==
    /\ Sound(assembler)
    /\ memory \in [0 .. Slots - 1 -> SUBSET Bit]
    /\ Len(asked) = assembler.offset
    /\ Faithful

\* Before any call.
LEMMA InitInv == Init => Inv
<1> SUFFICES ASSUME Init PROVE Inv
  OBVIOUS
<1>1. Sound(assembler)
  BY SlotsAssumption DEF Init, Cleared, Sound, Struct, Status, SUCCESS
<1>2. memory \in [0 .. Slots - 1 -> SUBSET Bit]
  BY DEF Init, Zeroes
<1>3. Len(asked) = assembler.offset /\ Faithful
  BY DEF Init, Cleared, Faithful
<1> QED
  BY <1>1, <1>2, <1>3 DEF Inv

\* The struct that bal_assembler_init and bal_assembler_destroy leave.
LEMMA ClearedIsSound ==
    ASSUME NEW status \in Status, NEW magic \in {"NONE", "DEAD"}
    PROVE  Sound(Cleared(status, magic))
BY SlotsAssumption DEF Sound, Struct, Cleared

\* An error in the status field disturbs nothing.
LEMMA StatusIsSound ==
    ASSUME Sound(assembler), NEW error \in Status
    PROVE  /\ Sound([assembler EXCEPT !.status = error])
           /\ [assembler EXCEPT !.status = error].offset = assembler.offset
BY DEF Sound, Struct

\* Nor does a reset of the two fields.
LEMMA ResetIsSound ==
    ASSUME Sound(assembler)
    PROVE  LET s == [assembler EXCEPT !.offset = 0, !.status = SUCCESS]
           IN  Sound(s) /\ s.offset = 0
<1> DEFINE s == [assembler EXCEPT !.offset = 0, !.status = SUCCESS]
<1>1. assembler \in Struct /\ (assembler.buffer <=> assembler.magic = "ALIVE")
  BY DEF Sound
<1>2. 0 \in 0 .. Slots /\ SUCCESS \in Status
  BY SlotsAssumption DEF Status, SUCCESS
<1>3. s \in Struct /\ s.offset = 0 /\ s.capacity = assembler.capacity
      /\ s.buffer = assembler.buffer /\ s.magic = assembler.magic
  BY <1>1, <1>2 DEF Struct
<1> HIDE DEF s
<1>4. s.capacity \in 0 .. Slots
  BY <1>3 DEF Struct
<1>5. s.offset <= s.capacity
  BY <1>3, <1>4, SlotsAssumption
<1> QED
  BY <1>1, <1>3, <1>5 DEF Sound, s

\* Every call keeps the invariant.
LEMMA NextInv == Inv /\ [Next]_vars => Inv'
<1> SUFFICES ASSUME Inv, [Next]_vars PROVE Inv'
  OBVIOUS
<1> USE DEF Inv
<1>0. assembler.status \in Status /\ assembler \in Struct
  BY DEF Sound, Struct
<1>1. ASSUME \E error \in Status : assembler' = [assembler EXCEPT !.status = error],
             UNCHANGED <<memory, asked>>
      PROVE  Inv'
  <2>1. PICK error \in Status : assembler' = [assembler EXCEPT !.status = error]
    BY <1>1
  <2>2. Sound(assembler') /\ assembler'.offset = assembler.offset
    BY <2>1, StatusIsSound
  <2>3. Faithful'
    BY <1>1, Zenon DEF Faithful
  <2> QED
    BY <1>1, <2>2, <2>3 DEF Sound
<1>2. ASSUME NEW buffer \in BOOLEAN, NEW aligned \in BOOLEAN,
             NEW size \in (0 .. Slots) \union {HUGE}, bal_assembler_init(buffer, aligned, size)
      PROVE  Inv'
  <2>1. /\ \/ \E error \in Status : assembler' = Cleared(error, "NONE")
           \/ /\ size \in 0 .. Slots
              /\ assembler' = [buffer |-> TRUE, capacity |-> size, offset |-> 0,
                               status |-> SUCCESS, magic |-> "ALIVE"]
        /\ asked' = <<>> /\ memory' = memory
    BY <1>2, InitOutcome
  <2>2. \A error \in Status :
           Sound(Cleared(error, "NONE")) /\ Cleared(error, "NONE").offset = 0
    BY ClearedIsSound DEF Cleared
  <2>3. ASSUME size \in 0 .. Slots
        PROVE  LET s == [buffer |-> TRUE, capacity |-> size, offset |-> 0,
                         status |-> SUCCESS, magic |-> "ALIVE"]
               IN  Sound(s) /\ s.offset = 0
    BY <2>3, SlotsAssumption DEF Sound, Struct, Status, SUCCESS
  <2>4. Sound(assembler') /\ assembler'.offset = 0
    BY <2>1, <2>2, <2>3, Zenon
  <2>5. Faithful' /\ Len(asked') = 0
    BY <2>1 DEF Faithful
  <2> QED
    BY <2>1, <2>4, <2>5 DEF Sound
<1>3. ASSUME bal_assembler_reset PROVE Inv'
  <2>1. CASE /\ \E error \in Status \ {SUCCESS} :
                    assembler' = [assembler EXCEPT !.status = error]
             /\ UNCHANGED <<memory, asked>>
    BY <1>1, <2>1, Zenon
  <2>2. CASE /\ assembler' = [assembler EXCEPT !.offset = 0, !.status = SUCCESS]
             /\ memory' = ZeroedWords
             /\ asked' = <<>>
    <3>1. Sound(assembler') /\ assembler'.offset = 0
      BY <2>2, ResetIsSound
    <3>2. memory' \in [0 .. Slots - 1 -> SUBSET Bit]
      BY <2>2 DEF ZeroedWords
    <3>3. Faithful' /\ Len(asked') = 0
      BY <2>2 DEF Faithful
    <3> QED
      BY <3>1, <3>2, <3>3 DEF Sound
  <2> QED
    BY <1>3, <2>1, <2>2, ResetOutcome, Zenon
<1>4. ASSUME bal_assembler_destroy PROVE Inv'
  <2>1. CASE Magic.ok
    <3>1. /\ assembler' = Cleared(STRUCT_CORRUPTED, "DEAD")
          /\ asked' = <<>> /\ memory' = memory
      BY <1>4, <2>1, Zenon DEF bal_assembler_destroy
    <3>2. Sound(assembler') /\ assembler'.offset = 0
      BY <3>1, SlotsAssumption DEF Sound, Struct, Cleared, Status, STRUCT_CORRUPTED
    <3>3. Faithful' /\ Len(asked') = 0
      BY <3>1 DEF Faithful
    <3> QED
      BY <3>1, <3>2, <3>3 DEF Sound
  <2>2. CASE ~Magic.ok
    <3>1. /\ assembler' = [assembler EXCEPT !.status = STRUCT_CORRUPTED]
          /\ asked' = asked /\ memory' = memory
      BY <1>4, <2>2, Zenon DEF bal_assembler_destroy
    <3>2. STRUCT_CORRUPTED \in Status
      BY DEF Status
    <3> QED
      BY <1>1, <3>1, <3>2
  <2> QED
    BY <2>1, <2>2
<1>5. ASSUME NEW r \in Requests, Emit(r) PROVE Inv'
  <2>1. CASE Refused
    BY <1>1, <2>1, Zenon DEF Refused
  <2>2. CASE Written(r)
    <3> DEFINE at == assembler.offset
    <3>1. /\ at \in 0 .. Slots - 1 /\ at < assembler.capacity /\ at = Len(asked)
          /\ assembler' = [assembler EXCEPT !.offset = at + 1]
          /\ memory' = [memory EXCEPT ![at] = Encode(r)]
          /\ asked' = Append(asked, r)
          /\ Encode(r) \subseteq Bit
      BY <1>0, <2>2, EncodeFits, SlotsAssumption DEF Written, Sound, Struct
    <3>2. Sound(assembler') /\ assembler'.offset = at + 1
      BY <1>0, <3>1, SlotsAssumption DEF Sound, Struct
    <3> HIDE DEF at
    <3>3. memory' \in [0 .. Slots - 1 -> SUBSET Bit]
      BY <3>1
    <3>4. /\ asked' \in Seq(Requests) /\ Len(asked') = at + 1
          /\ asked'[at + 1] = r
          /\ \A i \in 1 .. at : asked'[i] = asked[i]
      BY <3>1 DEF Faithful
    <3>5. /\ memory'[at] = Encode(r)
          /\ \A i \in 0 .. at - 1 : memory'[i] = memory[i]
      BY <3>1
    <3>6. ASSUME NEW i \in 1 .. at + 1
          PROVE  Fits(asked'[i]) /\ memory'[i - 1] = Encode(asked'[i])
      <4>1. CASE i = at + 1
        <5>1. i - 1 = at /\ Fits(r)
          BY <2>2, <3>1, <4>1 DEF Written
        <5> QED
          BY <3>4, <3>5, <4>1, <5>1, Zenon
      <4>2. CASE i # at + 1
        <5>1. i \in 1 .. at /\ i - 1 \in 0 .. at - 1
          BY <3>1, <4>2
        <5>2. Fits(asked[i]) /\ memory[i - 1] = Encode(asked[i])
          BY <3>1, <5>1, Zenon DEF Faithful
        <5> QED
          BY <3>4, <3>5, <5>1, <5>2, Zenon
      <4> QED
        BY <4>1, <4>2
    <3>7. Faithful'
      BY <3>4, <3>6, Zenon DEF Faithful
    <3> QED
      BY <3>2, <3>3, <3>4, <3>7 DEF Sound
  <2> QED
    BY <1>0, <1>5, <2>1, <2>2, EmitOutcome, Zenon
<1>6. CASE UNCHANGED vars
  <2>1. assembler' = assembler /\ memory' = memory /\ asked' = asked
    BY <1>6 DEF vars
  <2> QED
    BY <2>1, Zenon DEF Sound, Struct, Faithful
<1> QED
  BY <1>2, <1>3, <1>4, <1>5, <1>6, Zenon DEF Next

\* Inv holds throughout.
LEMMA InvHolds == Spec => []Inv
BY InitInv, NextInv, PTL DEF Spec

-----------------------------------------------------------------------------
\* The struct keeps its types, the write index never passes the capacity, and
\* the words in the buffer are 32 bits wide: the checks of bal_emit_* leave no
\* argument that overflows its field.  For every buffer size and all calls.
THEOREM AssemblerTyped == Spec => []TypeOK
<1>1. Inv => TypeOK
  BY DEF Inv, Sound, Struct, TypeOK
<1> QED
  BY <1>1, InvHolds, PTL

\* What RoundTrip says of one call, on the word that the call writes.
Decodes(r) ==
    /\ bal_decode_arm64(Encode(r)).name = Named(r.op)
    /\ ReadBack(r, Encode(r)) = r.args

\* When the word of every call that passes its checks decodes to the call, a
\* fact about the table and the encodings alone, then the buffer is read back as
\* it was asked for after any number of calls, failures, resets and
\* re-initialisations, in a buffer of any size.
THEOREM BufferReadsBack ==
    ASSUME \A r \in Requests : Fits(r) => Decodes(r)
    PROVE  Spec => []RoundTrip
<1>1. Inv => RoundTrip
  <2> SUFFICES ASSUME Inv, NEW i \in DOMAIN asked
               PROVE  /\ bal_decode_arm64(memory[i - 1]).name = Named(asked[i].op)
                      /\ ReadBack(asked[i], memory[i - 1]) = asked[i].args
    BY Zenon DEF RoundTrip
  <2>1. i \in 1 .. Len(asked) /\ asked[i] \in Requests
    BY DEF Inv, Faithful
  <2>2. Fits(asked[i]) /\ memory[i - 1] = Encode(asked[i])
    BY <2>1, Zenon DEF Inv, Faithful
  <2>3. Decodes(asked[i])
    BY <2>1, <2>2, Zenon
  <2> QED
    BY <2>2, <2>3, Zenon DEF Decodes
<1> QED
  BY <1>1, InvHolds, PTL

\* An emit call on an assembler in error writes nothing, does not move the
\* offset and leaves an error.
THEOREM ErrorsStop == Spec => ErrorStops
<1>1. Inv /\ [Next]_vars =>
        [ assembler.status # SUCCESS /\ (\E r \in Requests : Emit(r)) =>
            /\ memory' = memory
            /\ assembler'.offset = assembler.offset
            /\ assembler'.status # SUCCESS ]_vars
  <2> SUFFICES ASSUME Inv, assembler.status # SUCCESS, NEW r \in Requests, Emit(r)
               PROVE  /\ memory' = memory
                      /\ assembler'.offset = assembler.offset
                      /\ assembler'.status # SUCCESS
    BY Zenon
  <2>1. assembler \in Struct /\ assembler.status \in Status
    BY DEF Inv, Sound, Struct
  <2>2. Refused
    BY <2>1, EmitOutcome, Zenon DEF Written
  <2> QED
    BY <2>1, <2>2 DEF Refused, Struct
<1> QED
  BY <1>1, InvHolds, PTL DEF Spec, ErrorStops

\* A word changes only while the assembler is alive and only below the capacity
\* that the last bal_assembler_init was given.
THEOREM WritesInside == Spec => WritesStayInside
<1>1. Inv /\ [Next]_vars =>
        [ \A i \in DOMAIN memory :
            memory'[i] # memory[i] =>
                assembler.magic = "ALIVE" /\ i < assembler.capacity ]_vars
  <2> SUFFICES ASSUME Inv, Next, NEW i \in DOMAIN memory, memory'[i] # memory[i]
               PROVE  assembler.magic = "ALIVE" /\ i < assembler.capacity
    BY Zenon
  <2>1. assembler \in Struct /\ assembler.status \in Status
    BY DEF Inv, Sound, Struct
  <2>2. ~UNCHANGED memory
    OBVIOUS
  <2>3. \/ bal_assembler_reset
        \/ \E r \in Requests : Emit(r)
    BY <2>2, InitOutcome, Zenon DEF Next, bal_assembler_destroy
  <2>4. ASSUME bal_assembler_reset
        PROVE  assembler.magic = "ALIVE" /\ i < assembler.capacity
    <3>1. assembler.magic = "ALIVE" /\ memory' = ZeroedWords
      BY <2>2, <2>4, ResetOutcome, Zenon
    <3>2. i \in Int /\ assembler.capacity \in Int
      BY <2>1 DEF Inv, Struct
    <3> QED
      BY <3>1, <3>2 DEF ZeroedWords
  <2>5. ASSUME NEW r \in Requests, Emit(r)
        PROVE  assembler.magic = "ALIVE" /\ i < assembler.capacity
    <3>1. Written(r)
      BY <2>1, <2>2, <2>5, EmitOutcome, Zenon DEF Refused
    <3>2. memory' = [memory EXCEPT ![assembler.offset] = Encode(r)]
      BY <3>1, Zenon DEF Written
    <3>3. i = assembler.offset
      BY <3>2
    <3> QED
      BY <3>1, <3>3, Zenon DEF Written
  <2> QED
    BY <2>3, <2>4, <2>5
<1> QED
  BY <1>1, InvHolds, PTL DEF Spec, WritesStayInside
=============================================================================
