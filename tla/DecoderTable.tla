---------------------------- MODULE DecoderTable ----------------------------
(***************************************************************************)
(* The decoder's instruction table (generated/decoder_table.c), written by *)
(* tools/scripts/generate_decoder_tables.lua from the vendor's XML: every  *)
(* entry of the general-purpose instructions, every entry whose opcode is  *)
(* not TRAP, and every entry that shares a word with one of these.  What   *)
(* is left out are SIMD, SVE and SME entries that only trap and match no   *)
(* word that an entry of this module matches, so that for the words the    *)
(* module knows the lookup decides as in the whole table.                  *)
(*                                                                         *)
(* The definitions follow the order of the file and are named by the first *)
(* and the last mnemonic.  Entries with the same mask are written together *)
(* as <<name, upper halves of expected, lower half>>.  The operands are    *)
(* kept where some code reads them.  A 32-bit word is the set of the       *)
(* positions of its one bits.                                              *)
(***************************************************************************)
EXTENDS Integers, Sequences, FiniteSets, FiniteSetsExt

Bit == 0 .. 31

\* v shifted left by at.
Bits(v, at) == {at + i : i \in {j \in 0 .. 25 : (v \div 2^j) % 2 = 1}}

\* The word written as its two halves.
Word(high, low) == Bits(high, 16) \union Bits(low, 0)

Descriptor(type, at, width) == [type |-> type, bit_position |-> at, bit_width |-> width]
RegisterField(size, at, width) ==
    Descriptor(IF size = 32 THEN "REGISTER_32" ELSE "REGISTER_64", at, width)
R(size, at) == RegisterField(size, at, 5)
V(at, width) == Descriptor("REGISTER_128", at, width)
Imm(at, width) == Descriptor("IMMEDIATE", at, width)
Condition(at, width) == Descriptor("CONDITION", at, width)
NoOperand == Descriptor("NONE", 0, 0)

\* bal_decoder_instruction_metadata_t.
Entry(name, mask, expected, ir_opcode, operands) ==
    [name |-> name, mask |-> mask, expected |-> expected, ir_opcode |-> ir_opcode,
     operands |-> [i \in 0 .. 4 |-> IF i < Len(operands) THEN operands[i + 1] ELSE NoOperand]]

Group(ir_opcode, operands, mask_high, mask_low, names) ==
    UNION {{Entry(n[1], Word(mask_high, mask_low), Word(high, n[3]), ir_opcode, operands) :
                high \in n[2]} : n \in names}

\* The 32-bit and the 64-bit form, told apart by bit 31.
BothWidths(ir_opcode, Operands(_), mask_high, mask_low, names) ==
    Group(ir_opcode, Operands(32), mask_high, mask_low, names) \union
    Group(ir_opcode, Operands(64), mask_high, mask_low,
          {<<n[1], {high + \h8000 : high \in n[2]}, n[3]>> : n \in names})

\* Entries whose operands nothing reads.
Unread(ir_opcode, mask_high, mask_low, names) ==
    Group(ir_opcode, <<>>, mask_high, mask_low, names)

Traps(mask_high, mask_low, names) == Unread("TRAP", mask_high, mask_low, names)

-----------------------------------------------------------------------------
(* The operand layouts that several entries have.                          *)

ShiftedRegister(size) == <<R(size, 0), R(size, 5), Imm(10, 6), R(size, 16), Imm(22, 2)>>

AddSubImmediate(size) == <<R(size, 0), R(size, 5), Imm(10, 12), Imm(22, 1)>>

\* The 64-bit form's second register is taken for a condition.
ExtendedRegister(size) ==
    <<R(size, 0), R(size, 5), Imm(10, 3), Imm(13, 3),
      IF size = 32 THEN R(32, 16) ELSE Condition(16, 5)>>

LogicalImmediate(size) ==
    <<R(size, 0), R(size, 5), Imm(10, 6), Imm(16, 6)>> \o
    (IF size = 32 THEN <<>> ELSE <<Imm(22, 1)>>)

MoveWide(size) == <<R(size, 0), Imm(5, 16), Imm(21, 2)>>

\* The aliases CMP, CMN and TST have no destination, NEG and MOV no first source.
ComparedShifted(size) == Tail(ShiftedRegister(size))
ComparedImmediate(size) == Tail(AddSubImmediate(size))
ComparedExtended(size) == Tail(ExtendedRegister(size))
TestedImmediate(size) == Tail(LogicalImmediate(size))
NegatedShifted(size) == <<R(size, 0)>> \o Tail(ComparedShifted(size))
MovedImmediate(size) == <<R(size, 0)>> \o Tail(TestedImmediate(size))
MovedRegister(size) == <<R(size, 0), R(size, 16)>>
MovedToSp(size) == <<R(size, 0), R(size, 5)>>

Vectors == <<V(0, 5), V(5, 5), V(16, 5)>>
Predicated == <<V(0, 5), V(5, 5), V(10, 3)>>
Compared == <<V(0, 4), V(5, 5), V(10, 3), V(16, 5)>>
LengthScaled == <<R(64, 0), Imm(5, 6), R(64, 16)>>

-----------------------------------------------------------------------------
(* The entries.                                                            *)

ABS == Traps(\hFFFF, \hFC00, {<<"ABS", {\h5AC0, \hDAC0}, \h2000>>})

ADC == Traps(\hFFE0, \hFC00, {<<"ADC", {\h1A00, \h9A00}, 0>>})

ADCS == Traps(\hFFE0, \hFC00, {<<"ADCS", {\h3A00, \hBA00}, 0>>})

ADD ==
    BothWidths("ADD", ExtendedRegister, \hFFE0, 0, {<<"ADD", {\h0B20}, 0>>}) \union
    BothWidths("ADD", AddSubImmediate, \hFF80, 0, {<<"ADD", {\h1100}, 0>>}) \union
    BothWidths("ADD", ShiftedRegister, \hFF20, 0, {<<"ADD", {\h0B00}, 0>>}) \union
    Group("ADD", Vectors, \hBF20, \hFC00, {<<"ADD", {\h0E20}, \h8400>>}) \union
    Group("ADD", Vectors, \hFF20, \hFC00, {<<"ADD", {\h5E20}, \h8400>>}) \union
    Group("ADD", <<V(1, 4), V(16, 4)>>, \hFF30, \hFFE1, {<<"ADD", {\hC120}, \hA300>>}) \union
    Group("ADD", <<V(2, 3), V(16, 4)>>, \hFF30, \hFFE3, {<<"ADD", {\hC120}, \hAB00>>}) \union
    Group("ADD", Predicated, \hFF3F, \hE000, {<<"ADD", {\h0400}, 0>>}) \union
    Group("ADD", <<V(0, 5), Imm(5, 8), Imm(13, 1)>>, \hFF3F, \hC000, {<<"ADD", {\h2520}, \hC000>>})

ADD_ADDHNB ==
    Group("ADD", Vectors, \hFF20, \hFC00,
        {<<"ADD", {\h0420}, 0>>, <<"ADDHNB", {\h4520}, \h6000>>}) \union
    Group("ADD", <<Imm(0, 3), V(6, 4), RegisterField(32, 13, 2)>>, \hFFBF, \h9C38,
        {<<"ADD", {\hC1A0}, \h1C10>>}) \union
    Group("ADD", <<Imm(0, 3), V(7, 3), RegisterField(32, 13, 2)>>, \hFFBF, \h9C78,
        {<<"ADD", {\hC1A1}, \h1C10>>}) \union
    Group("ADD", <<Imm(0, 3), V(5, 5), RegisterField(32, 13, 2), V(16, 4)>>, \hFFB0, \h9C18,
        {<<"ADD", {\hC120, \hC130}, \h1810>>}) \union
    Group("ADD", <<Imm(0, 3), V(6, 4), RegisterField(32, 13, 2), V(17, 4)>>, \hFFA1, \h9C38,
        {<<"ADD", {\hC1A0}, \h1810>>}) \union
    Group("ADD", <<Imm(0, 3), V(7, 3), RegisterField(32, 13, 2), V(18, 3)>>, \hFFA3, \h9C78,
        {<<"ADD", {\hC1A1}, \h1810>>}) \union
    Group("ADD", <<R(64, 0), R(64, 5), Imm(10, 4), Imm(16, 6)>>, \hFFC0, \h4800,
        {<<"ADDG", {\h9180}, 0>>}) \union
    Group("ADD", <<V(5, 5), V(10, 3), V(13, 3)>>, \hFFFF, \h0018, {<<"ADDHA", {\hC0D0}, 0>>}) \union
    Group("ADD", <<V(5, 5), V(10, 3), V(13, 3)>>, \hFFFF, \h001C, {<<"ADDHA", {\hC090}, 0>>}) \union
    Group("ADD", <<V(0, 5), V(5, 5), V(16, 5), Condition(30, 1)>>, \hBF20, \hFC00,
        {<<"ADDHN", {\h0E20}, \h4000>>})

ADDHNT_ADDS ==
    Group("ADD", Vectors, \hFF20, \hFC00, {<<"ADDHNT", {\h4520}, \h6400>>}) \union
    Group("ADD", <<V(0, 5), V(5, 5)>>, \hFF3F, \hFC00, {<<"ADDP", {\h5E31}, \hB800>>}) \union
    Group("ADD", Vectors, \hBF20, \hFC00, {<<"ADDP", {\h0E20}, \hBC00>>}) \union
    Group("ADD", Predicated, \hFF3F, \hE000,
        {<<"ADDP", {\h4411}, \hA000>>, <<"ADDQV", {\h0405}, \h2000>>}) \union
    Group("ADD", LengthScaled, \hFFE0, \hF800, {<<"ADDPL", {\h0460}, \h5000>>}) \union
    BothWidths("ADD", ExtendedRegister, \hFFE0, 0, {<<"ADDS", {\h2B20}, 0>>}) \union
    BothWidths("ADD", AddSubImmediate, \hFF80, 0, {<<"ADDS", {\h3100}, 0>>}) \union
    BothWidths("ADD", ShiftedRegister, \hFF20, 0, {<<"ADDS", {\h2B00}, 0>>})

ADDSPL_ADR ==
    Group("ADD", LengthScaled, \hFFE0, \hF800,
        {<<"ADDSPL", {\h0460}, \h5800>>, <<"ADDSVL", {\h0420}, \h5800>>,
         <<"ADDVL", {\h0420}, \h5000>>}) \union
    Group("ADD", <<V(0, 5), V(5, 5)>>, \hBF3F, \hFC00, {<<"ADDV", {\h0E31}, \hB800>>}) \union
    Group("ADD", <<V(5, 5), V(10, 3), V(13, 3)>>, \hFFFF, \h0018, {<<"ADDVA", {\hC0D1}, 0>>}) \union
    Group("ADD", <<V(5, 5), V(10, 3), V(13, 3)>>, \hFFFF, \h001C, {<<"ADDVA", {\hC091}, 0>>}) \union
    Traps(\h9F00, 0, {<<"ADR", {\h1000}, 0>>})

ADRP == Traps(\h9F00, 0, {<<"ADRP", {\h9000}, 0>>})

AND_ANDQV ==
    Group("AND", Vectors, \hBFE0, \hFC00, {<<"AND", {\h0E20}, \h1C00>>}) \union
    Group("AND", LogicalImmediate(64), \hFF80, 0, {<<"AND", {\h9200}, 0>>}) \union
    Group("AND", LogicalImmediate(32), \hFFC0, 0, {<<"AND", {\h1200}, 0>>}) \union
    BothWidths("AND", ShiftedRegister, \hFF20, 0, {<<"AND", {\h0A00}, 0>>}) \union
    Group("AND", <<V(0, 4), V(5, 4), V(10, 4), V(16, 4)>>, \hFFF0, \hC210,
        {<<"AND", {\h2500}, \h4000>>}) \union
    Group("AND", Predicated, \hFF3F, \hE000,
        {<<"AND", {\h041A}, 0>>, <<"ANDQV", {\h041E}, \h2000>>}) \union
    Group("AND", <<V(0, 5)>>, \hFFFC, 0, {<<"AND", {\h0580}, 0>>}) \union
    Group("AND", Vectors, \hFFE0, \hFC00, {<<"AND", {\h0420}, \h3000>>})

ANDS_SBFM ==
    Group("AND", LogicalImmediate(64), \hFF80, 0, {<<"ANDS", {\hF200}, 0>>}) \union
    Group("AND", LogicalImmediate(32), \hFFC0, 0, {<<"ANDS", {\h7200}, 0>>}) \union
    BothWidths("AND", ShiftedRegister, \hFF20, 0, {<<"ANDS", {\h6A00}, 0>>}) \union
    Group("AND", <<V(0, 4), V(5, 4), V(10, 4), V(16, 4)>>, \hFFF0, \hC210,
        {<<"ANDS", {\h2540}, \h4000>>}) \union
    Group("AND", Predicated, \hFF3F, \hE000, {<<"ANDV", {\h041A}, \h2000>>}) \union
    Traps(\hFFE0, \hFC00, {<<"ASRV", {\h1AC0, \h9AC0}, \h2800>>}) \union
    Traps(\hFFC0, \hFC00, {<<"SBFM", {\h1300}, \h7C00>>, <<"SBFM", {\h9340}, \hFC00>>})

ASRV_AUTIZA ==
    Traps(\hFFE0, \hFC00, {<<"ASRV", {\h1AC0, \h9AC0}, \h2800>>}) \union
    Traps(\hFFF8, \hFE00, {<<"SYS", {\hD508}, \h7800>>}) \union
    Traps(\hFFFF, \hFC00,
        {<<"AUTDA", {\hDAC1}, \h1800>>, <<"AUTDB", {\hDAC1}, \h1C00>>,
         <<"AUTIA", {\hDAC1}, \h1000>>}) \union
    Traps(\hFFFF, \hFFE0,
        {<<"AUTDZA", {\hDAC1}, \h3BE0>>, <<"AUTDZB", {\hDAC1}, \h3FE0>>,
         <<"AUTIZA", {\hDAC1}, \h33E0>>}) \union
    Traps(\hFFFF, \hFFFF,
        {<<"AUTIA1716", {\hD503}, \h219F>>, <<"AUTIASP", {\hD503}, \h23BF>>,
         <<"AUTIAZ", {\hD503}, \h239F>>})

AUTIB_BC ==
    Traps(\hFFFF, \hFC00, {<<"AUTIB", {\hDAC1}, \h1400>>}) \union
    Traps(\hFFFF, \hFFFF,
        {<<"AUTIB1716", {\hD503}, \h21DF>>, <<"AUTIBSP", {\hD503}, \h23FF>>,
         <<"AUTIBZ", {\hD503}, \h23DF>>}) \union
    Traps(\hFFFF, \hFFE0, {<<"AUTIZB", {\hDAC1}, \h37E0>>}) \union
    Traps(\hFFFF, \hF4FF, {<<"AXFLAG", {\hD500}, \h405F>>}) \union
    Group("BRANCH_CONDITIONAL", <<Condition(0, 4), Imm(5, 19)>>, \hFF00, \h0010,
        {<<"B.cond", {\h5400}, 0>>}) \union
    Group("JUMP", <<Imm(0, 26)>>, \hFC00, 0, {<<"B", {\h1400}, 0>>}) \union
    Traps(\hFF00, \h0010, {<<"BC", {\h5400}, \h0010>>})

BFM_1 == Traps(\hFFC0, \h03E0, {<<"BFM", {\h3300, \hB340}, \h03E0>>})

BFM_2 ==
    Traps(\hFFC0, \h007C, {<<"BFM", {\h3300, \hB340}, \h007C>>}) \union
    Traps(\hFFC0, 0, {<<"BFM", {\h3300, \hB340}, 0>>})

BFM_3 == Traps(\hFFC0, 0, {<<"BFM", {\h3300, \hB340}, 0>>})

AND_BIC ==
    Group("AND", <<V(0, 5)>>, \hFFFC, 0, {<<"AND", {\h0580}, 0>>}) \union
    Traps(\hFF20, 0, {<<"BIC", {\h0A20, \h8A20}, 0>>})

BICS == Traps(\hFF20, 0, {<<"BICS", {\h6A20, \hEA20}, 0>>})

BL_BLRABZ ==
    Unread("CALL_HOST", \hFC00, 0, {<<"BL", {\h9400}, 0>>}) \union
    Traps(\hFFFF, \hFC1F,
        {<<"BLR", {\hD63F}, 0>>, <<"BLRAAZ", {\hD63F}, \h081F>>,
         <<"BLRABZ", {\hD63F}, \h0C1F>>}) \union
    Traps(\hFFFF, \hFC00, {<<"BLRAA", {\hD73F}, \h0800>>, <<"BLRAB", {\hD73F}, \h0C00>>})

BR_BRK ==
    Group("TRAP", <<R(64, 5)>>, \hFFFF, \hFC1F, {<<"BR", {\hD61F}, 0>>}) \union
    Traps(\hFFFF, \hFC00, {<<"BRAA", {\hD71F}, \h0800>>, <<"BRAB", {\hD71F}, \h0C00>>}) \union
    Traps(\hFFFF, \hFC1F, {<<"BRAAZ", {\hD61F}, \h081F>>, <<"BRABZ", {\hD61F}, \h0C1F>>}) \union
    Traps(\hFFFF, \hFF00, {<<"SYS", {\hD509}, \h7200>>}) \union
    Traps(\hFFE0, \h001F, {<<"BRK", {\hD420}, 0>>})

BTI == Traps(\hFFFF, \hFF3F, {<<"BTI", {\hD503}, \h241F>>})

CAS_CASLB ==
    Traps(\hFFE0, \hFC00,
        {<<"CAS", {\h88A0, \hC8A0}, \h7C00>>, <<"CASA", {\h88E0, \hC8E0}, \h7C00>>,
         <<"CASAL", {\h88E0, \hC8E0}, \hFC00>>, <<"CASL", {\h88A0, \hC8A0}, \hFC00>>,
         <<"CASAB", {\h08E0}, \h7C00>>, <<"CASALB", {\h08E0}, \hFC00>>,
         <<"CASB", {\h08A0}, \h7C00>>, <<"CASLB", {\h08A0}, \hFC00>>})

CASAH_CASPL ==
    Traps(\hFFE0, \hFC00,
        {<<"CASAH", {\h48E0}, \h7C00>>, <<"CASALH", {\h48E0}, \hFC00>>,
         <<"CASH", {\h48A0}, \h7C00>>, <<"CASLH", {\h48A0}, \hFC00>>,
         <<"CASP", {\h0820, \h4820}, \h7C00>>, <<"CASPA", {\h0860, \h4860}, \h7C00>>,
         <<"CASPAL", {\h0860, \h4860}, \hFC00>>, <<"CASPL", {\h0820, \h4820}, \hFC00>>})

CBNZ_CCMP ==
    Traps(\hFF00, 0, {<<"CBNZ", {\h3500, \hB500}, 0>>, <<"CBZ", {\h3400, \hB400}, 0>>}) \union
    Traps(\hFFE0, \h0C10,
        {<<"CCMN", {\h3A40, \hBA40}, \h0800>>, <<"CCMN", {\h3A40, \hBA40}, 0>>,
         <<"CCMP", {\h7A40, \hFA40}, \h0800>>, <<"CCMP", {\h7A40, \hFA40}, 0>>})

CFINV_CSINV ==
    Traps(\hFFFF, \hF4FF, {<<"CFINV", {\hD500}, \h401F>>}) \union
    Traps(\hFFFF, \hFFE0, {<<"SYS", {\hD50B}, \h7380>>}) \union
    Traps(\hFFFF, \hFFFF, {<<"CHKFEAT", {\hD503}, \h251F>>}) \union
    Traps(\hFFE3, \hFC7C,
        {<<"CSINC", {\h1A83, \h9A83}, \hFC7C>>, <<"CSINV", {\h5A83, \hDA83}, \hFC7C>>})

CLRBHB_CLREX ==
    Traps(\hFFFF, \hFFFF, {<<"CLRBHB", {\hD503}, \h22DF>>}) \union
    Traps(\hFFFF, \hF0FF, {<<"CLREX", {\hD503}, \h305F>>})

CLS == Traps(\hFFFF, \hFC00, {<<"CLS", {\h5AC0, \hDAC0}, \h1400>>})

CLZ == Traps(\hFFFF, \hFC00, {<<"CLZ", {\h5AC0, \hDAC0}, \h1000>>})

ADDS_SUBS ==
    BothWidths("ADD", ComparedExtended, \hFFE0, \h001F, {<<"ADDS", {\h2B20}, \h001F>>}) \union
    BothWidths("ADD", ComparedImmediate, \hFF80, \h001F, {<<"ADDS", {\h3100}, \h001F>>}) \union
    BothWidths("ADD", ComparedShifted, \hFF20, \h001F, {<<"ADDS", {\h2B00}, \h001F>>}) \union
    BothWidths("SUB", ComparedExtended, \hFFE0, \h001F, {<<"SUBS", {\h6B20}, \h001F>>}) \union
    BothWidths("SUB", ComparedImmediate, \hFF80, \h001F, {<<"SUBS", {\h7100}, \h001F>>}) \union
    BothWidths("SUB", ComparedShifted, \hFF20, \h001F, {<<"SUBS", {\h6B00}, \h001F>>})

CMPEQ_CMPGE ==
    Group("CMP", <<V(0, 4), V(5, 5), V(10, 3), Imm(16, 5)>>, \hFF20, \hE010,
        {<<"CMPEQ", {\h2500}, \h8000>>, <<"CMPGE", {\h2500}, 0>>, <<"CMPGT", {\h2500}, \h0010>>,
         <<"CMPLE", {\h2500}, \h2010>>, <<"CMPLT", {\h2500}, \h2000>>,
         <<"CMPNE", {\h2500}, \h8010>>}) \union
    Group("CMP", <<V(0, 4), V(5, 5), V(10, 3), Imm(14, 7)>>, \hFF20, \h2010,
        {<<"CMPHI", {\h2420}, \h0010>>, <<"CMPHS", {\h2420}, 0>>, <<"CMPLO", {\h2420}, \h2000>>,
         <<"CMPLS", {\h2420}, \h2010>>}) \union
    Group("CMP", Compared, \hFF20, \hE010,
        {<<"CMPEQ", {\h2400}, \h2000>>, <<"CMPGE", {\h2400}, \h4000>>})

CMPGT_CMPHI ==
    Group("CMP", Compared, \hFF20, \hE010,
        {<<"CMPGT", {\h2400}, \h4010>>, <<"CMPHI", {\h2400}, \hC010>>,
         <<"CMPHS", {\h2400}, \hC000>>, <<"CMPLE", {\h2400}, \h6010>>,
         <<"CMPLO", {\h2400}, \hE000>>, <<"CMPLS", {\h2400}, \hE010>>,
         <<"CMPLT", {\h2400}, \h6000>>, <<"CMPNE", {\h2400}, \h2010>>,
         <<"CMPEQ", {\h2400}, \hA000>>, <<"CMPGE", {\h2400}, \h8000>>,
         <<"CMPGT", {\h2400}, \h8010>>, <<"CMPHI", {\h2400}, \h0010>>})

CMPHS_SUBPS ==
    Group("CMP", Compared, \hFF20, \hE010,
        {<<"CMPHS", {\h2400}, 0>>, <<"CMPNE", {\h2400}, \hA010>>, <<"CMPGE", {\h2400}, \h8000>>,
         <<"CMPHI", {\h2400}, \h0010>>, <<"CMPGT", {\h2400}, \h8010>>}) \union
    Group("SUB", <<R(64, 5), R(64, 16)>>, \hFFE0, \hFC1F, {<<"SUBPS", {\hBAC0}, \h001F>>})

CSNEG == Traps(\hFFE0, \h1C00, {<<"CSNEG", {\h5A80, \hDA80}, \h1C00>>})

CNT == Traps(\hFFFF, \hFC00, {<<"CNT", {\h5AC0, \hDAC0}, \h1C00>>})

SYS == Traps(\hFFFF, \hFFE0, {<<"SYS", {\hD50B}, \h73C0>>, <<"SYS", {\hD50B}, \h73E0>>})

CPYFE_CPYFPRT ==
    Traps(\h3FE0, \hFC00,
        {<<"CPYFE", {\h1980}, \h0400>>, <<"CPYFM", {\h1940}, \h0400>>,
         <<"CPYFP", {\h1900}, \h0400>>, <<"CPYFEN", {\h1980}, \hC400>>,
         <<"CPYFMN", {\h1940}, \hC400>>, <<"CPYFPN", {\h1900}, \hC400>>,
         <<"CPYFERN", {\h1980}, \h8400>>, <<"CPYFMRN", {\h1940}, \h8400>>,
         <<"CPYFPRN", {\h1900}, \h8400>>, <<"CPYFERT", {\h1980}, \h2400>>,
         <<"CPYFMRT", {\h1940}, \h2400>>, <<"CPYFPRT", {\h1900}, \h2400>>})

CPYFERTN_CPYFPT ==
    Traps(\h3FE0, \hFC00,
        {<<"CPYFERTN", {\h1980}, \hE400>>, <<"CPYFMRTN", {\h1940}, \hE400>>,
         <<"CPYFPRTN", {\h1900}, \hE400>>, <<"CPYFERTRN", {\h1980}, \hA400>>,
         <<"CPYFMRTRN", {\h1940}, \hA400>>, <<"CPYFPRTRN", {\h1900}, \hA400>>,
         <<"CPYFERTWN", {\h1980}, \h6400>>, <<"CPYFMRTWN", {\h1940}, \h6400>>,
         <<"CPYFPRTWN", {\h1900}, \h6400>>, <<"CPYFET", {\h1980}, \h3400>>,
         <<"CPYFMT", {\h1940}, \h3400>>, <<"CPYFPT", {\h1900}, \h3400>>})

CPYFETN_CPYFPWN ==
    Traps(\h3FE0, \hFC00,
        {<<"CPYFETN", {\h1980}, \hF400>>, <<"CPYFMTN", {\h1940}, \hF400>>,
         <<"CPYFPTN", {\h1900}, \hF400>>, <<"CPYFETRN", {\h1980}, \hB400>>,
         <<"CPYFMTRN", {\h1940}, \hB400>>, <<"CPYFPTRN", {\h1900}, \hB400>>,
         <<"CPYFETWN", {\h1980}, \h7400>>, <<"CPYFMTWN", {\h1940}, \h7400>>,
         <<"CPYFPTWN", {\h1900}, \h7400>>, <<"CPYFEWN", {\h1980}, \h4400>>,
         <<"CPYFMWN", {\h1940}, \h4400>>, <<"CPYFPWN", {\h1900}, \h4400>>})

CPYFEWT_CPYFPWTWN ==
    Traps(\h3FE0, \hFC00,
        {<<"CPYFEWT", {\h1980}, \h1400>>, <<"CPYFMWT", {\h1940}, \h1400>>,
         <<"CPYFPWT", {\h1900}, \h1400>>, <<"CPYFEWTN", {\h1980}, \hD400>>,
         <<"CPYFMWTN", {\h1940}, \hD400>>, <<"CPYFPWTN", {\h1900}, \hD400>>,
         <<"CPYFEWTRN", {\h1980}, \h9400>>, <<"CPYFMWTRN", {\h1940}, \h9400>>,
         <<"CPYFPWTRN", {\h1900}, \h9400>>, <<"CPYFEWTWN", {\h1980}, \h5400>>,
         <<"CPYFMWTWN", {\h1940}, \h5400>>, <<"CPYFPWTWN", {\h1900}, \h5400>>})

CRC32B_CSEL ==
    Traps(\hFFE0, \hFC00,
        {<<"CRC32B", {\h1AC0}, \h4000>>, <<"CRC32H", {\h1AC0}, \h4400>>,
         <<"CRC32W", {\h1AC0}, \h4800>>, <<"CRC32X", {\h9AC0}, \h4C00>>,
         <<"CRC32CB", {\h1AC0}, \h5000>>, <<"CRC32CH", {\h1AC0}, \h5400>>,
         <<"CRC32CW", {\h1AC0}, \h5800>>, <<"CRC32CX", {\h9AC0}, \h5C00>>}) \union
    Traps(\hFFFF, \hFFFF, {<<"CSDB", {\hD503}, \h229F>>}) \union
    Traps(\hFFE0, \h0C00, {<<"CSEL", {\h1A80, \h9A80}, 0>>})

CSINC_CSNEG ==
    Traps(\hFFFF, \h1FE0,
        {<<"CSINC", {\h1A9F, \h9A9F}, \h1FE0>>, <<"CSINV", {\h5A9F, \hDA9F}, \h1FE0>>}) \union
    Traps(\hFFE0, \h0C00,
        {<<"CSINC", {\h1A80, \h9A80}, \h0400>>, <<"CSINV", {\h5A80, \hDA80}, 0>>,
         <<"CSNEG", {\h5A80, \hDA80}, \h0400>>})

CTZ_DCPS3 ==
    Traps(\hFFFF, \hFC00, {<<"CTZ", {\h5AC0, \hDAC0}, \h1800>>}) \union
    Traps(\hFFF8, \hF000, {<<"SYS", {\hD508}, \h7000>>}) \union
    Traps(\hFFE0, \h001F,
        {<<"DCPS1", {\hD4A0}, \h0001>>, <<"DCPS2", {\hD4A0}, \h0002>>,
         <<"DCPS3", {\hD4A0}, \h0003>>})

DGH_DSB ==
    Traps(\hFFFF, \hFFFF, {<<"DGH", {\hD503}, \h20DF>>, <<"DRPS", {\hD6BF}, \h03E0>>}) \union
    Traps(\hFFFF, \hF0FF, {<<"DMB", {\hD503}, \h30BF>>, <<"DSB", {\hD503}, \h309F>>}) \union
    Traps(\hFFFF, \hF3FF, {<<"DSB", {\hD503}, \h323F>>})

SYS_EOR3 ==
    Traps(\hFFFF, \hFFE0, {<<"SYS", {\hD50B}, \h73A0>>}) \union
    Traps(\hFF20, 0, {<<"EON", {\h4A20, \hCA20}, 0>>}) \union
    Unread("XOR", \hFFFC, 0, {<<"EOR", {\h0540}, 0>>}) \union
    Unread("XOR", \hFFE0, \h8000, {<<"EOR3", {\hCE00}, 0>>}) \union
    Unread("XOR", \hFFE0, \hFC00, {<<"EOR3", {\h0420}, \h3800>>})

EOR_EORS ==
    Unread("XOR", \hBFE0, \hFC00, {<<"EOR", {\h2E20}, \h1C00>>}) \union
    Unread("XOR", \hFF80, 0, {<<"EOR", {\hD200}, 0>>}) \union
    Unread("XOR", \hFFC0, 0, {<<"EOR", {\h5200}, 0>>}) \union
    Unread("XOR", \hFF20, 0, {<<"EOR", {\h4A00, \hCA00}, 0>>}) \union
    Unread("XOR", \hFFF0, \hC210,
        {<<"EOR", {\h2500}, \h4200>>, <<"EORS", {\h2540}, \h4200>>}) \union
    Unread("XOR", \hFF3F, \hE000, {<<"EOR", {\h0419}, 0>>, <<"EORQV", {\h041D}, \h2000>>}) \union
    Unread("XOR", \hFFFC, 0, {<<"EOR", {\h0540}, 0>>}) \union
    Unread("XOR", \hFFE0, \hFC00, {<<"EOR", {\h04A0}, \h3000>>}) \union
    Unread("XOR", \hFF20, \hFC00, {<<"EORBT", {\h4500}, \h9000>>})

EORTB_ESB ==
    Unread("XOR", \hFF20, \hFC00, {<<"EORTB", {\h4500}, \h9400>>}) \union
    Unread("XOR", \hFF3F, \hE000, {<<"EORV", {\h0419}, \h2000>>}) \union
    Traps(\hFFFF, \hFFFF,
        {<<"ERET", {\hD69F}, \h03E0>>, <<"ERETAA", {\hD69F}, \h0BFF>>,
         <<"ERETAB", {\hD69F}, \h0FFF>>, <<"ESB", {\hD503}, \h221F>>})

EXTR ==
    Traps(\hFFE0, 0, {<<"EXTR", {\h93C0}, 0>>}) \union
    Traps(\hFFE0, \h8000, {<<"EXTR", {\h1380}, 0>>})

GCSB_HINT ==
    Traps(\hFFFF, \hFFFF, {<<"GCSB", {\hD503}, \h227F>>}) \union
    Traps(\hFFFF, \hFFE0,
        {<<"SYS", {\hD508}, \h77A0>>, <<"SYSL", {\hD52B}, \h7720>>, <<"SYS", {\hD508}, \h77C0>>,
         <<"SYS", {\hD50B}, \h7700>>, <<"SYS", {\hD508}, \h7780>>, <<"SYS", {\hD50B}, \h7740>>,
         <<"SYSL", {\hD52B}, \h7760>>}) \union
    Traps(\hFFFF, \hFC00, {<<"GCSSTR", {\hD91F}, \h0C00>>, <<"GCSSTTR", {\hD91F}, \h1C00>>}) \union
    Traps(\hFFE0, \hFC00, {<<"GMI", {\h9AC0}, \h1400>>}) \union
    Traps(\hFFFF, \hF01F, {<<"HINT", {\hD503}, \h201F>>})

HLT_SYS ==
    Traps(\hFFE0, \h001F, {<<"HLT", {\hD440}, 0>>, <<"HVC", {\hD400}, \h0002>>}) \union
    Traps(\hFFF8, \hF000, {<<"SYS", {\hD508}, \h7000>>})

IRG_ISB ==
    Traps(\hFFE0, \hFC00, {<<"IRG", {\h9AC0}, \h1000>>}) \union
    Traps(\hFFFF, \hF0FF, {<<"ISB", {\hD503}, \h30DF>>})

LD64B_LDADDB ==
    Traps(\hFFFF, \hFC00, {<<"LD64B", {\hF83F}, \hD000>>}) \union
    Traps(\hFFE0, \hFC00,
        {<<"LDADD", {\hB820, \hF820}, 0>>, <<"LDADDA", {\hB8A0, \hF8A0}, 0>>,
         <<"LDADDAL", {\hB8E0, \hF8E0}, 0>>, <<"LDADDL", {\hB860, \hF860}, 0>>,
         <<"LDADDAB", {\h38A0}, 0>>, <<"LDADDALB", {\h38E0}, 0>>, <<"LDADDB", {\h3820}, 0>>})

LDADDLB_LDADDLH ==
    Traps(\hFFE0, \hFC00,
        {<<"LDADDLB", {\h3860}, 0>>, <<"LDADDAH", {\h78A0}, 0>>, <<"LDADDALH", {\h78E0}, 0>>,
         <<"LDADDH", {\h7820}, 0>>, <<"LDADDLH", {\h7860}, 0>>})

LDAPR_LDAPRH ==
    Traps(\hFFE9, \hFC80,
        {<<"LDAPR", {\hB8A9, \hF8A9}, \hE480>>, <<"LDAPRB", {\h38A9}, \hE480>>,
         <<"LDAPRH", {\h78A9}, \hE480>>}) \union
    Traps(\hFFFF, \hFC00, {<<"LDAPR", {\h99C0, \hD9C0}, \h0800>>})

LDAPUR_LDARB ==
    Traps(\hFFE0, \h0C00,
        {<<"LDAPUR", {\h9940, \hD940}, 0>>, <<"LDAPURB", {\h1940}, 0>>, <<"LDAPURH", {\h5940}, 0>>,
         <<"LDAPURSB", {\h1980, \h19C0}, 0>>, <<"LDAPURSH", {\h5980, \h59C0}, 0>>,
         <<"LDAPURSW", {\h9980}, 0>>}) \union
    Traps(\hFFE9, \hA492, {<<"LDAR", {\h88C9, \hC8C9}, \hA492>>, <<"LDARB", {\h08C9}, \hA492>>})

LDARH_LDCLRA ==
    Traps(\hFFE9, \hA492,
        {<<"LDARH", {\h48C9}, \hA492>>, <<"LDAXR", {\h8849, \hC849}, \hA492>>,
         <<"LDAXRB", {\h0849}, \hA492>>, <<"LDAXRH", {\h4849}, \hA492>>}) \union
    Traps(\hFFE9, \hA480, {<<"LDAXP", {\h8869, \hC869}, \hA480>>}) \union
    Traps(\hFFE0, \hFC00,
        {<<"LDCLR", {\hB820, \hF820}, \h1000>>, <<"LDCLRA", {\hB8A0, \hF8A0}, \h1000>>})

LDCLRAL_LDCLRLH ==
    Traps(\hFFE0, \hFC00,
        {<<"LDCLRAL", {\hB8E0, \hF8E0}, \h1000>>, <<"LDCLRL", {\hB860, \hF860}, \h1000>>,
         <<"LDCLRAB", {\h38A0}, \h1000>>, <<"LDCLRALB", {\h38E0}, \h1000>>,
         <<"LDCLRB", {\h3820}, \h1000>>, <<"LDCLRLB", {\h3860}, \h1000>>,
         <<"LDCLRAH", {\h78A0}, \h1000>>, <<"LDCLRALH", {\h78E0}, \h1000>>,
         <<"LDCLRH", {\h7820}, \h1000>>, <<"LDCLRLH", {\h7860}, \h1000>>})

LDCLRP_LDEORL ==
    Traps(\hFFE0, \hFC00,
        {<<"LDCLRP", {\h1920}, \h1000>>, <<"LDCLRPA", {\h19A0}, \h1000>>,
         <<"LDCLRPAL", {\h19E0}, \h1000>>, <<"LDCLRPL", {\h1960}, \h1000>>,
         <<"LDEOR", {\hB820, \hF820}, \h2000>>, <<"LDEORA", {\hB8A0, \hF8A0}, \h2000>>,
         <<"LDEORAL", {\hB8E0, \hF8E0}, \h2000>>, <<"LDEORL", {\hB860, \hF860}, \h2000>>})

LDEORAB_LDEORLH ==
    Traps(\hFFE0, \hFC00,
        {<<"LDEORAB", {\h38A0}, \h2000>>, <<"LDEORALB", {\h38E0}, \h2000>>,
         <<"LDEORB", {\h3820}, \h2000>>, <<"LDEORLB", {\h3860}, \h2000>>,
         <<"LDEORAH", {\h78A0}, \h2000>>, <<"LDEORALH", {\h78E0}, \h2000>>,
         <<"LDEORH", {\h7820}, \h2000>>, <<"LDEORLH", {\h7860}, \h2000>>})

LDG_LDLARH ==
    Traps(\hFFE0, \h0C00, {<<"LDG", {\hD960}, 0>>}) \union
    Traps(\hFFFF, \hFC00, {<<"LDGM", {\hD9E0}, 0>>}) \union
    Traps(\hFFE0, \hFC00,
        {<<"LDIAPP", {\h9940, \hD940}, \h0800>>, <<"LDIAPP", {\h9940, \hD940}, \h1800>>}) \union
    Traps(\hFFE9, \hA492,
        {<<"LDLAR", {\h88C9, \hC8C9}, \h2492>>, <<"LDLARB", {\h08C9}, \h2492>>,
         <<"LDLARH", {\h48C9}, \h2492>>})

LDNP == Traps(\hFFC0, 0, {<<"LDNP", {\h2840, \hA840}, 0>>})

LDP ==
    Unread("LOAD", \hFFC0, 0,
        {<<"LDP", {\h28C0, \h2940, \h29C0, \h2CC0, \h2D40, \h2DC0, \h6CC0, \h6D40, \h6DC0,
               \hACC0, \hAD40, \hADC0}, 0>>})

LDP_LDPSW ==
    Unread("LOAD", \hFFC0, 0,
        {<<"LDP", {\hA8C0, \hA940, \hA9C0}, 0>>, <<"LDPSW", {\h68C0, \h6940, \h69C0}, 0>>})

LDR_1 ==
    Unread("LOAD", \hFFC0, 0, {<<"LDR", {\h3D40, \h3DC0, \h7D40, \hBD40, \hFD40}, 0>>}) \union
    Unread("LOAD", \hFFE0, \h0C00,
        {<<"LDR", {\h3C40, \h3CC0, \h7C40, \hBC40}, \h0400>>,
         <<"LDR", {\h3C40, \h3CC0, \h7C40}, \h0C00>>})

LDR_2 ==
    Unread("LOAD", \hFFE0, \h0C00,
        {<<"LDR", {\hB840, \hBC40, \hF840, \hFC40}, \h0C00>>,
         <<"LDR", {\hB840, \hF840, \hFC40}, \h0400>>}) \union
    Unread("LOAD", \hFFC0, 0, {<<"LDR", {\hB940, \hF940}, 0>>}) \union
    Unread("LOAD", \hFF00, 0, {<<"LDR", {\h1C00, \h5C00, \h9C00}, 0>>})

LDR_3 ==
    Unread("LOAD", \hFF00, 0, {<<"LDR", {\h1800, \h5800}, 0>>}) \union
    Unread("LOAD", \hFFC0, \hE010, {<<"LDR", {\h8580}, 0>>}) \union
    Unread("LOAD", \hFFE0, \h0C00,
        {<<"LDR", {\h3C60, \h3CE0, \h7C60, \hB860, \hBC60, \hF860, \hFC60}, \h0800>>}) \union
    Unread("LOAD", \hFFE0, \hEC00, {<<"LDR", {\h3C60}, \h6800>>}) \union
    Unread("LOAD", \hFFC0, \hE000, {<<"LDR", {\h8580}, \h4000>>})

LDR_LDRB ==
    Unread("LOAD", \hFFFF, \h9C10, {<<"LDR", {\hE100}, 0>>}) \union
    Unread("LOAD", \hFFFF, \hFC1F, {<<"LDR", {\hE11F}, \h8000>>}) \union
    Unread("LOAD", \hFFA0, \h0C00,
        {<<"LDRAA", {\hF820}, \h0400>>, <<"LDRAA", {\hF820}, \h0C00>>,
         <<"LDRAB", {\hF8A0}, \h0400>>, <<"LDRAB", {\hF8A0}, \h0C00>>}) \union
    Unread("LOAD", \hFFC0, 0, {<<"LDRB", {\h3940}, 0>>}) \union
    Unread("LOAD", \hFFE0, \h0C00,
        {<<"LDRB", {\h3840}, \h0400>>, <<"LDRB", {\h3840}, \h0C00>>,
         <<"LDRB", {\h3860}, \h0800>>}) \union
    Unread("LOAD", \hFFE0, \hEC00, {<<"LDRB", {\h3860}, \h6800>>})

LDRH ==
    Unread("LOAD", \hFFC0, 0, {<<"LDRH", {\h7940}, 0>>}) \union
    Unread("LOAD", \hFFE0, \h0C00,
        {<<"LDRH", {\h7840}, \h0400>>, <<"LDRH", {\h7840}, \h0C00>>, <<"LDRH", {\h7860}, \h0800>>})

LDRSB ==
    Unread("LOAD", \hFFC0, 0, {<<"LDRSB", {\h3980, \h39C0}, 0>>}) \union
    Unread("LOAD", \hFFE0, \h0C00,
        {<<"LDRSB", {\h3880, \h38C0}, \h0400>>, <<"LDRSB", {\h3880, \h38C0}, \h0C00>>,
         <<"LDRSB", {\h38A0, \h38E0}, \h0800>>}) \union
    Unread("LOAD", \hFFE0, \hEC00, {<<"LDRSB", {\h38A0, \h38E0}, \h6800>>})

LDRSH ==
    Unread("LOAD", \hFFC0, 0, {<<"LDRSH", {\h7980, \h79C0}, 0>>}) \union
    Unread("LOAD", \hFFE0, \h0C00,
        {<<"LDRSH", {\h7880, \h78C0}, \h0400>>, <<"LDRSH", {\h7880, \h78C0}, \h0C00>>,
         <<"LDRSH", {\h78A0, \h78E0}, \h0800>>})

LDRSW_LDSETAL ==
    Unread("LOAD", \hFFC0, 0, {<<"LDRSW", {\hB980}, 0>>}) \union
    Unread("LOAD", \hFFE0, \h0C00,
        {<<"LDRSW", {\hB880}, \h0400>>, <<"LDRSW", {\hB880}, \h0C00>>,
         <<"LDRSW", {\hB8A0}, \h0800>>}) \union
    Unread("LOAD", \hFF00, 0, {<<"LDRSW", {\h9800}, 0>>}) \union
    Traps(\hFFE0, \hFC00,
        {<<"LDSET", {\hB820, \hF820}, \h3000>>, <<"LDSETA", {\hB8A0, \hF8A0}, \h3000>>,
         <<"LDSETAL", {\hB8E0, \hF8E0}, \h3000>>})

LDSETL_LDSETPA ==
    Traps(\hFFE0, \hFC00,
        {<<"LDSETL", {\hB860, \hF860}, \h3000>>, <<"LDSETAB", {\h38A0}, \h3000>>,
         <<"LDSETALB", {\h38E0}, \h3000>>, <<"LDSETB", {\h3820}, \h3000>>,
         <<"LDSETLB", {\h3860}, \h3000>>, <<"LDSETAH", {\h78A0}, \h3000>>,
         <<"LDSETALH", {\h78E0}, \h3000>>, <<"LDSETH", {\h7820}, \h3000>>,
         <<"LDSETLH", {\h7860}, \h3000>>, <<"LDSETP", {\h1920}, \h3000>>,
         <<"LDSETPA", {\h19A0}, \h3000>>})

LDSETPAL_LDSMAXALB ==
    Traps(\hFFE0, \hFC00,
        {<<"LDSETPAL", {\h19E0}, \h3000>>, <<"LDSETPL", {\h1960}, \h3000>>,
         <<"LDSMAX", {\hB820, \hF820}, \h4000>>, <<"LDSMAXA", {\hB8A0, \hF8A0}, \h4000>>,
         <<"LDSMAXAL", {\hB8E0, \hF8E0}, \h4000>>, <<"LDSMAXL", {\hB860, \hF860}, \h4000>>,
         <<"LDSMAXAB", {\h38A0}, \h4000>>, <<"LDSMAXALB", {\h38E0}, \h4000>>})

LDSMAXB_LDSMINAL ==
    Traps(\hFFE0, \hFC00,
        {<<"LDSMAXB", {\h3820}, \h4000>>, <<"LDSMAXLB", {\h3860}, \h4000>>,
         <<"LDSMAXAH", {\h78A0}, \h4000>>, <<"LDSMAXALH", {\h78E0}, \h4000>>,
         <<"LDSMAXH", {\h7820}, \h4000>>, <<"LDSMAXLH", {\h7860}, \h4000>>,
         <<"LDSMIN", {\hB820, \hF820}, \h5000>>, <<"LDSMINA", {\hB8A0, \hF8A0}, \h5000>>,
         <<"LDSMINAL", {\hB8E0, \hF8E0}, \h5000>>})

LDSMINL_LDTR ==
    Traps(\hFFE0, \hFC00,
        {<<"LDSMINL", {\hB860, \hF860}, \h5000>>, <<"LDSMINAB", {\h38A0}, \h5000>>,
         <<"LDSMINALB", {\h38E0}, \h5000>>, <<"LDSMINB", {\h3820}, \h5000>>,
         <<"LDSMINLB", {\h3860}, \h5000>>, <<"LDSMINAH", {\h78A0}, \h5000>>,
         <<"LDSMINALH", {\h78E0}, \h5000>>, <<"LDSMINH", {\h7820}, \h5000>>,
         <<"LDSMINLH", {\h7860}, \h5000>>}) \union
    Traps(\hFFE0, \h0C00, {<<"LDTR", {\hB840, \hF840}, \h0800>>})

LDTRB_LDUMAXA ==
    Traps(\hFFE0, \h0C00,
        {<<"LDTRB", {\h3840}, \h0800>>, <<"LDTRH", {\h7840}, \h0800>>,
         <<"LDTRSB", {\h3880, \h38C0}, \h0800>>, <<"LDTRSH", {\h7880, \h78C0}, \h0800>>,
         <<"LDTRSW", {\hB880}, \h0800>>}) \union
    Traps(\hFFE0, \hFC00,
        {<<"LDUMAX", {\hB820, \hF820}, \h6000>>, <<"LDUMAXA", {\hB8A0, \hF8A0}, \h6000>>})

LDUMAXAL_LDUMAXLH ==
    Traps(\hFFE0, \hFC00,
        {<<"LDUMAXAL", {\hB8E0, \hF8E0}, \h6000>>, <<"LDUMAXL", {\hB860, \hF860}, \h6000>>,
         <<"LDUMAXAB", {\h38A0}, \h6000>>, <<"LDUMAXALB", {\h38E0}, \h6000>>,
         <<"LDUMAXB", {\h3820}, \h6000>>, <<"LDUMAXLB", {\h3860}, \h6000>>,
         <<"LDUMAXAH", {\h78A0}, \h6000>>, <<"LDUMAXALH", {\h78E0}, \h6000>>,
         <<"LDUMAXH", {\h7820}, \h6000>>, <<"LDUMAXLH", {\h7860}, \h6000>>})

LDUMIN_LDUMINLB ==
    Traps(\hFFE0, \hFC00,
        {<<"LDUMIN", {\hB820, \hF820}, \h7000>>, <<"LDUMINA", {\hB8A0, \hF8A0}, \h7000>>,
         <<"LDUMINAL", {\hB8E0, \hF8E0}, \h7000>>, <<"LDUMINL", {\hB860, \hF860}, \h7000>>,
         <<"LDUMINAB", {\h38A0}, \h7000>>, <<"LDUMINALB", {\h38E0}, \h7000>>,
         <<"LDUMINB", {\h3820}, \h7000>>, <<"LDUMINLB", {\h3860}, \h7000>>})

LDUMINAH_LDUMINLH ==
    Traps(\hFFE0, \hFC00,
        {<<"LDUMINAH", {\h78A0}, \h7000>>, <<"LDUMINALH", {\h78E0}, \h7000>>,
         <<"LDUMINH", {\h7820}, \h7000>>, <<"LDUMINLH", {\h7860}, \h7000>>})

LDUR_LDXP ==
    Traps(\hFFE0, \h0C00,
        {<<"LDUR", {\hB840, \hF840}, 0>>, <<"LDURB", {\h3840}, 0>>, <<"LDURH", {\h7840}, 0>>,
         <<"LDURSB", {\h3880, \h38C0}, 0>>, <<"LDURSH", {\h7880, \h78C0}, 0>>,
         <<"LDURSW", {\hB880}, 0>>}) \union
    Traps(\hFFE9, \hA480, {<<"LDXP", {\h8869, \hC869}, \h2480>>})

LDXR_UBFM ==
    Traps(\hFFE9, \hA492,
        {<<"LDXR", {\h8849, \hC849}, \h2492>>, <<"LDXRB", {\h0849}, \h2492>>,
         <<"LDXRH", {\h4849}, \h2492>>}) \union
    Traps(\hFFE0, \hFC00, {<<"LSLV", {\h1AC0, \h9AC0}, \h2000>>}) \union
    Traps(\hFFC0, \h0F80, {<<"UBFM", {\h5300, \hD340}, \h0F80>>})

LSLV_UBFM ==
    Traps(\hFFE0, \hFC00,
        {<<"LSLV", {\h1AC0, \h9AC0}, \h2000>>, <<"LSRV", {\h1AC0, \h9AC0}, \h2400>>}) \union
    Traps(\hFFC0, \hFC00, {<<"UBFM", {\h5300}, \h7C00>>, <<"UBFM", {\hD340}, \hFC00>>})

LSRV == Traps(\hFFE0, \hFC00, {<<"LSRV", {\h1AC0, \h9AC0}, \h2400>>})

MADD == Unread("MUL", \hFFE0, \h8000, {<<"MADD", {\h1B00, \h9B00}, 0>>})

MSUB_AND ==
    Traps(\hFFE0, \hFC00, {<<"MSUB", {\h1B00, \h9B00}, \hFC00>>}) \union
    BothWidths("ADD", MovedToSp, \hFFFF, \hFC00, {<<"ADD", {\h1100}, 0>>}) \union
    Group("AND", <<V(0, 4), V(5, 4), V(10, 4)>>, \hFFF0, \hC210, {<<"AND", {\h2500}, \h4000>>})

MOVN_ORR ==
    Group("MOV", MoveWide(64), \hFF80, 0, {<<"MOVN", {\h9280}, 0>>, <<"MOVZ", {\hD280}, 0>>}) \union
    Group("MOV", MoveWide(32), \hFFC0, 0, {<<"MOVN", {\h1280}, 0>>, <<"MOVZ", {\h5280}, 0>>}) \union
    Group("MOV", <<V(0, 5), V(5, 5)>>, \hBFE0, \hFC00, {<<"ORR", {\h0EA0}, \h1C00>>}) \union
    Group("MOV", MovedImmediate(64), \hFF80, \h03E0, {<<"ORR", {\hB200}, \h03E0>>}) \union
    Group("MOV", MovedImmediate(32), \hFFC0, \h03E0, {<<"ORR", {\h3200}, \h03E0>>}) \union
    BothWidths("MOV", MovedRegister, \hFFE0, \hFFE0, {<<"ORR", {\h2A00}, \h03E0>>}) \union
    Group("MOV", <<V(0, 4), V(5, 4)>>, \hFFF0, \hC210, {<<"ORR", {\h2580}, \h4000>>}) \union
    Group("MOV", <<V(0, 5), V(5, 5)>>, \hFFE0, \hFC00, {<<"ORR", {\h0460}, \h3000>>})

MOVK_MOVN ==
    Group("MOV", MoveWide(64), \hFF80, 0, {<<"MOVK", {\hF280}, 0>>, <<"MOVN", {\h9280}, 0>>}) \union
    Group("MOV", MoveWide(32), \hFFC0, 0, {<<"MOVK", {\h7280}, 0>>, <<"MOVN", {\h1280}, 0>>})

ANDS == Group("AND", <<V(0, 4), V(5, 4), V(10, 4)>>, \hFFF0, \hC210, {<<"ANDS", {\h2540}, \h4000>>})

MOVZ_MRS ==
    Group("MOV", MoveWide(64), \hFF80, 0, {<<"MOVZ", {\hD280}, 0>>}) \union
    Group("MOV", MoveWide(32), \hFFC0, 0, {<<"MOVZ", {\h5280}, 0>>}) \union
    Traps(\hFFF0, 0, {<<"MRRS", {\hD570}, 0>>, <<"MRS", {\hD530}, 0>>})

MSR_MADD ==
    Traps(\hFFF8, \hF01F, {<<"MSR", {\hD500}, \h401F>>}) \union
    Traps(\hFFF0, 0, {<<"MSR", {\hD510}, 0>>, <<"MSRR", {\hD550}, 0>>}) \union
    Traps(\hFFE0, \h8000, {<<"MSUB", {\h1B00, \h9B00}, \h8000>>}) \union
    Unread("MUL", \hBF00, \hF400, {<<"MUL", {\h0F00}, \h8000>>}) \union
    Unread("MUL", \hBF20, \hFC00, {<<"MUL", {\h0E20}, \h9C00>>}) \union
    Unread("MUL", \hFFE0, \hFC00, {<<"MADD", {\h1B00, \h9B00}, \h7C00>>})

MUL ==
    Unread("MUL", \hFF3F, \hE000, {<<"MUL", {\h0410}, 0>>, <<"MUL", {\h2530}, \hC000>>}) \union
    Unread("MUL", \hFF20, \hFC00, {<<"MUL", {\h0420}, \h6000>>}) \union
    Unread("MUL", \hFFA0, \hFC00, {<<"MUL", {\h4420}, \hF800>>}) \union
    Unread("MUL", \hFFE0, \hFC00, {<<"MUL", {\h44A0, \h44E0}, \hF800>>})

ORN == Traps(\hFF20, \h03E0, {<<"ORN", {\h2A20, \hAA20}, \h03E0>>})

\* Mutant: the opcode is chosen by the name of the alias, NEG, which has none.
SUB_1_by_alias == BothWidths("TRAP", NegatedShifted, \hFF20, \h03E0, {<<"SUB", {\h4B00}, \h03E0>>})

SUB_1 == BothWidths("SUB", NegatedShifted, \hFF20, \h03E0, {<<"SUB", {\h4B00}, \h03E0>>})

SBC_SBCS ==
    Traps(\hFFE0, \hFFE0,
        {<<"SBC", {\h5A00, \hDA00}, \h03E0>>, <<"SBCS", {\h7A00, \hFA00}, \h03E0>>})

NOP == Traps(\hFFFF, \hFFFF, {<<"NOP", {\hD503}, \h201F>>})

EOR == Unread("XOR", \hFFF0, \hC210, {<<"EOR", {\h2500}, \h4200>>})

EORS == Unread("XOR", \hFFF0, \hC210, {<<"EORS", {\h2540}, \h4200>>})

ORN_ORR ==
    Traps(\hFF20, 0, {<<"ORN", {\h2A20, \hAA20}, 0>>}) \union
    Group("MOV", <<V(0, 5)>>, \hFFFC, 0, {<<"ORR", {\h0500}, 0>>})

ORR ==
    Group("MOV", <<V(0, 5), Imm(5, 1), Imm(6, 1), Imm(7, 1), Imm(8, 1)>>, \hBFF8, \h9C00,
        {<<"ORR", {\h0F00}, \h1400>>}) \union
    Group("MOV", <<V(0, 5), Imm(5, 1), Imm(6, 1), Imm(7, 1), Imm(8, 1)>>, \hBFF8, \hDC00,
        {<<"ORR", {\h0F00}, \h9400>>}) \union
    Group("MOV", Vectors, \hBFE0, \hFC00, {<<"ORR", {\h0EA0}, \h1C00>>}) \union
    Group("MOV", LogicalImmediate(64), \hFF80, 0, {<<"ORR", {\hB200}, 0>>}) \union
    Group("MOV", LogicalImmediate(32), \hFFC0, 0, {<<"ORR", {\h3200}, 0>>}) \union
    BothWidths("MOV", ShiftedRegister, \hFF20, 0, {<<"ORR", {\h2A00}, 0>>}) \union
    Group("MOV", <<V(0, 4), V(5, 4), V(10, 4), V(16, 4)>>, \hFFF0, \hC210,
        {<<"ORR", {\h2580}, \h4000>>}) \union
    Group("MOV", Predicated, \hFF3F, \hE000, {<<"ORR", {\h0418}, 0>>}) \union
    Group("MOV", <<V(0, 5)>>, \hFFFC, 0, {<<"ORR", {\h0500}, 0>>}) \union
    Group("MOV", Vectors, \hFFE0, \hFC00, {<<"ORR", {\h0460}, \h3000>>})

PACDA_PACIB1716 ==
    Traps(\hFFFF, \hFC00,
        {<<"PACDA", {\hDAC1}, \h0800>>, <<"PACDB", {\hDAC1}, \h0C00>>, <<"PACIA", {\hDAC1}, 0>>,
         <<"PACIB", {\hDAC1}, \h0400>>}) \union
    Traps(\hFFFF, \hFFE0,
        {<<"PACDZA", {\hDAC1}, \h2BE0>>, <<"PACDZB", {\hDAC1}, \h2FE0>>,
         <<"PACIZA", {\hDAC1}, \h23E0>>}) \union
    Traps(\hFFE0, \hFC00, {<<"PACGA", {\h9AC0}, \h3000>>}) \union
    Traps(\hFFFF, \hFFFF,
        {<<"PACIA1716", {\hD503}, \h211F>>, <<"PACIASP", {\hD503}, \h233F>>,
         <<"PACIAZ", {\hD503}, \h231F>>, <<"PACIB1716", {\hD503}, \h215F>>})

PACIBSP_PACIZB ==
    Traps(\hFFFF, \hFFFF, {<<"PACIBSP", {\hD503}, \h237F>>, <<"PACIBZ", {\hD503}, \h235F>>}) \union
    Traps(\hFFFF, \hFFE0, {<<"PACIZB", {\hDAC1}, \h27E0>>})

PRFM_PRFUM ==
    Traps(\hFFC0, 0, {<<"PRFM", {\hF980}, 0>>}) \union
    Traps(\hFF00, 0, {<<"PRFM", {\hD800}, 0>>}) \union
    Traps(\hFFE0, \h0C00, {<<"PRFUM", {\hF880}, 0>>})

PSB == Traps(\hFFFF, \hFFFF, {<<"PSB", {\hD503}, \h223F>>})

DSB_1 == Traps(\hFFFF, \hFFFF, {<<"DSB", {\hD503}, \h349F>>})

RBIT == Traps(\hFFFF, \hFC00, {<<"RBIT", {\h5AC0, \hDAC0}, 0>>})

RCWCAS_RCWCLRL ==
    Traps(\hFFE0, \hFC00,
        {<<"RCWCAS", {\h1920}, \h0800>>, <<"RCWCASA", {\h19A0}, \h0800>>,
         <<"RCWCASAL", {\h19E0}, \h0800>>, <<"RCWCASL", {\h1960}, \h0800>>,
         <<"RCWCASP", {\h1920}, \h0C00>>, <<"RCWCASPA", {\h19A0}, \h0C00>>,
         <<"RCWCASPAL", {\h19E0}, \h0C00>>, <<"RCWCASPL", {\h1960}, \h0C00>>,
         <<"RCWCLR", {\h3820}, \h9000>>, <<"RCWCLRA", {\h38A0}, \h9000>>,
         <<"RCWCLRAL", {\h38E0}, \h9000>>, <<"RCWCLRL", {\h3860}, \h9000>>})

RCWCLRP_RCWSCASPL ==
    Traps(\hFFE0, \hFC00,
        {<<"RCWCLRP", {\h1920}, \h9000>>, <<"RCWCLRPA", {\h19A0}, \h9000>>,
         <<"RCWCLRPAL", {\h19E0}, \h9000>>, <<"RCWCLRPL", {\h1960}, \h9000>>,
         <<"RCWSCAS", {\h5920}, \h0800>>, <<"RCWSCASA", {\h59A0}, \h0800>>,
         <<"RCWSCASAL", {\h59E0}, \h0800>>, <<"RCWSCASL", {\h5960}, \h0800>>,
         <<"RCWSCASP", {\h5920}, \h0C00>>, <<"RCWSCASPA", {\h59A0}, \h0C00>>,
         <<"RCWSCASPAL", {\h59E0}, \h0C00>>, <<"RCWSCASPL", {\h5960}, \h0C00>>})

RCWSCLR_RCWSETL ==
    Traps(\hFFE0, \hFC00,
        {<<"RCWSCLR", {\h7820}, \h9000>>, <<"RCWSCLRA", {\h78A0}, \h9000>>,
         <<"RCWSCLRAL", {\h78E0}, \h9000>>, <<"RCWSCLRL", {\h7860}, \h9000>>,
         <<"RCWSCLRP", {\h5920}, \h9000>>, <<"RCWSCLRPA", {\h59A0}, \h9000>>,
         <<"RCWSCLRPAL", {\h59E0}, \h9000>>, <<"RCWSCLRPL", {\h5960}, \h9000>>,
         <<"RCWSET", {\h3820}, \hB000>>, <<"RCWSETA", {\h38A0}, \hB000>>,
         <<"RCWSETAL", {\h38E0}, \hB000>>, <<"RCWSETL", {\h3860}, \hB000>>})

RCWSETP_RCWSSETPL ==
    Traps(\hFFE0, \hFC00,
        {<<"RCWSETP", {\h1920}, \hB000>>, <<"RCWSETPA", {\h19A0}, \hB000>>,
         <<"RCWSETPAL", {\h19E0}, \hB000>>, <<"RCWSETPL", {\h1960}, \hB000>>,
         <<"RCWSSET", {\h7820}, \hB000>>, <<"RCWSSETA", {\h78A0}, \hB000>>,
         <<"RCWSSETAL", {\h78E0}, \hB000>>, <<"RCWSSETL", {\h7860}, \hB000>>,
         <<"RCWSSETP", {\h5920}, \hB000>>, <<"RCWSSETPA", {\h59A0}, \hB000>>,
         <<"RCWSSETPAL", {\h59E0}, \hB000>>, <<"RCWSSETPL", {\h5960}, \hB000>>})

RCWSSWP_RCWSWPL ==
    Traps(\hFFE0, \hFC00,
        {<<"RCWSSWP", {\h7820}, \hA000>>, <<"RCWSSWPA", {\h78A0}, \hA000>>,
         <<"RCWSSWPAL", {\h78E0}, \hA000>>, <<"RCWSSWPL", {\h7860}, \hA000>>,
         <<"RCWSSWPP", {\h5920}, \hA000>>, <<"RCWSSWPPA", {\h59A0}, \hA000>>,
         <<"RCWSSWPPAL", {\h59E0}, \hA000>>, <<"RCWSSWPPL", {\h5960}, \hA000>>,
         <<"RCWSWP", {\h3820}, \hA000>>, <<"RCWSWPA", {\h38A0}, \hA000>>,
         <<"RCWSWPAL", {\h38E0}, \hA000>>, <<"RCWSWPL", {\h3860}, \hA000>>})

RCWSWPP_RCWSWPPL ==
    Traps(\hFFE0, \hFC00,
        {<<"RCWSWPP", {\h1920}, \hA000>>, <<"RCWSWPPA", {\h19A0}, \hA000>>,
         <<"RCWSWPPAL", {\h19E0}, \hA000>>, <<"RCWSWPPL", {\h1960}, \hA000>>})

RET_REV ==
    Group("RETURN", <<R(64, 5)>>, \hFFFF, \hFC1F, {<<"RET", {\hD65F}, 0>>}) \union
    Traps(\hFFFF, \hFFFF, {<<"RETAA", {\hD65F}, \h0BFF>>, <<"RETAB", {\hD65F}, \h0FFF>>}) \union
    Traps(\hFFFF, \hFC00, {<<"REV", {\h5AC0}, \h0800>>, <<"REV", {\hDAC0}, \h0C00>>})

REV16 == Traps(\hFFFF, \hFC00, {<<"REV16", {\h5AC0, \hDAC0}, \h0400>>})

REV32 == Traps(\hFFFF, \hFC00, {<<"REV32", {\hDAC0}, \h0800>>})

REV == Traps(\hFFFF, \hFC00, {<<"REV", {\hDAC0}, \h0C00>>})

RMIF_RPRFM ==
    Traps(\hFFE0, \h7C10, {<<"RMIF", {\hBA00}, \h0400>>}) \union
    Traps(\hFFE0, 0, {<<"EXTR", {\h93C0}, 0>>}) \union
    Traps(\hFFE0, \h8000, {<<"EXTR", {\h1380}, 0>>}) \union
    Traps(\hFFE0, \hFC00, {<<"RORV", {\h1AC0, \h9AC0}, \h2C00>>}) \union
    Traps(\hFFE0, \h4C18, {<<"RPRFM", {\hF8A0}, \h4818>>})

SB_SBC ==
    Traps(\hFFFF, \hF4FF, {<<"SB", {\hD503}, \h30FF>>}) \union
    Traps(\hFFE0, \hFC00, {<<"SBC", {\h5A00, \hDA00}, 0>>})

SBCS_SBFM ==
    Traps(\hFFE0, \hFC00, {<<"SBCS", {\h7A00, \hFA00}, 0>>}) \union
    Traps(\hFFC0, 0, {<<"SBFM", {\h1300, \h9340}, 0>>})

SDIV_SDIVR ==
    Unread("DIV", \hFFE0, \hFC00, {<<"SDIV", {\h1AC0, \h9AC0}, \h0C00>>}) \union
    Unread("DIV", \hFF3F, \hE000, {<<"SDIV", {\h0414}, 0>>, <<"SDIVR", {\h0416}, 0>>})

SETF16_SETF8 ==
    Traps(\hFFFF, \hFC1F, {<<"SETF16", {\h3A00}, \h480D>>, <<"SETF8", {\h3A00}, \h080D>>})

SETE_SETPTN ==
    Traps(\h3FE0, \hFC00,
        {<<"SETE", {\h19C0}, \h8400>>, <<"SETM", {\h19C0}, \h4400>>, <<"SETP", {\h19C0}, \h0400>>,
         <<"SETEN", {\h19C0}, \hA400>>, <<"SETMN", {\h19C0}, \h6400>>,
         <<"SETPN", {\h19C0}, \h2400>>, <<"SETET", {\h19C0}, \h9400>>,
         <<"SETMT", {\h19C0}, \h5400>>, <<"SETPT", {\h19C0}, \h1400>>,
         <<"SETETN", {\h19C0}, \hB400>>, <<"SETMTN", {\h19C0}, \h7400>>,
         <<"SETPTN", {\h19C0}, \h3400>>})

SEV_SEVL == Traps(\hFFFF, \hFFFF, {<<"SEV", {\hD503}, \h209F>>, <<"SEVL", {\hD503}, \h20BF>>})

SHL == Traps(\hBF8F, \hFC00, {<<"SHL", {\h0F00}, \h5400>>})

SMADDL_1 == Traps(\hFFE0, \h8000, {<<"SMADDL", {\h9B20}, 0>>})

SMAX_1 == Traps(\hFFFC, 0, {<<"SMAX", {\h11C0, \h91C0}, 0>>})

SMAX_2 == Traps(\hFFE0, \hFC00, {<<"SMAX", {\h1AC0, \h9AC0}, \h6000>>})

SMC == Traps(\hFFE0, \h001F, {<<"SMC", {\hD400}, \h0003>>})

SMIN_1 == Traps(\hFFFC, 0, {<<"SMIN", {\h11C8, \h91C8}, 0>>})

SMIN_2 == Traps(\hFFE0, \hFC00, {<<"SMIN", {\h1AC0, \h9AC0}, \h6800>>})

SMSUBL == Traps(\hFFE0, \hFC00, {<<"SMSUBL", {\h9B20}, \hFC00>>})

MSR_SMULH ==
    Traps(\hFFFF, \hF9FF, {<<"MSR", {\hD503}, \h417F>>, <<"MSR", {\hD503}, \h407F>>}) \union
    Traps(\hFFE0, \h8000, {<<"SMSUBL", {\h9B20}, \h8000>>}) \union
    Traps(\hFFE0, \hA492, {<<"SMULH", {\h9B40}, \h2492>>})

SMADDL_2 == Traps(\hFFE0, \hFC00, {<<"SMADDL", {\h9B20}, \h7C00>>})

SQSHL == Traps(\hBF8F, \hFC00, {<<"SQSHL", {\h0F00}, \h7400>>})

SQSHRN == Traps(\hBF8F, \hFC00, {<<"SQSHRN", {\h0F00}, \h9400>>})

SRSRA == Traps(\hBF8F, \hFC00, {<<"SRSRA", {\h0F00}, \h3400>>})

DSB_2 == Traps(\hFFFF, \hFFFF, {<<"DSB", {\hD503}, \h309F>>})

SSRA == Traps(\hBF8F, \hFC00, {<<"SSRA", {\h0F00}, \h1400>>})

ST2G ==
    Traps(\hFFE0, \h0C00,
        {<<"ST2G", {\hD9A0}, \h0400>>, <<"ST2G", {\hD9A0}, \h0800>>, <<"ST2G", {\hD9A0}, \h0C00>>})

ST64B_LDADDLH ==
    Traps(\hFFFF, \hFC00, {<<"ST64B", {\hF83F}, \h9000>>}) \union
    Traps(\hFFE0, \hFC00, {<<"ST64BV", {\hF820}, \hB000>>, <<"ST64BV0", {\hF820}, \hA000>>}) \union
    Traps(\hFFE0, \hFC1F,
        {<<"LDADD", {\hB820, \hF820}, \h001F>>, <<"LDADDL", {\hB860, \hF860}, \h001F>>,
         <<"LDADDB", {\h3820}, \h001F>>, <<"LDADDLB", {\h3860}, \h001F>>,
         <<"LDADDH", {\h7820}, \h001F>>, <<"LDADDLH", {\h7860}, \h001F>>})

LDCLR_LDEORL ==
    Traps(\hFFE0, \hFC1F,
        {<<"LDCLR", {\hB820, \hF820}, \h101F>>, <<"LDCLRL", {\hB860, \hF860}, \h101F>>,
         <<"LDCLRB", {\h3820}, \h101F>>, <<"LDCLRLB", {\h3860}, \h101F>>,
         <<"LDCLRH", {\h7820}, \h101F>>, <<"LDCLRLH", {\h7860}, \h101F>>,
         <<"LDEOR", {\hB820, \hF820}, \h201F>>, <<"LDEORL", {\hB860, \hF860}, \h201F>>})

LDEORB_STGP ==
    Traps(\hFFE0, \hFC1F,
        {<<"LDEORB", {\h3820}, \h201F>>, <<"LDEORLB", {\h3860}, \h201F>>,
         <<"LDEORH", {\h7820}, \h201F>>, <<"LDEORLH", {\h7860}, \h201F>>}) \union
    Traps(\hFFE0, \h0C00,
        {<<"STG", {\hD920}, \h0400>>, <<"STG", {\hD920}, \h0800>>,
         <<"STG", {\hD920}, \h0C00>>}) \union
    Traps(\hFFFF, \hFC00, {<<"STGM", {\hD9A0}, 0>>}) \union
    Traps(\hFFC0, 0, {<<"STGP", {\h6880, \h6900, \h6980}, 0>>})

STILP ==
    Traps(\hFFE0, \hFC00,
        {<<"STILP", {\h9900, \hD900}, \h0800>>, <<"STILP", {\h9900, \hD900}, \h1800>>})

STLLR_STLRH ==
    Traps(\hFFE9, \hA492,
        {<<"STLLR", {\h8889, \hC889}, \h2492>>, <<"STLLRB", {\h0889}, \h2492>>,
         <<"STLLRH", {\h4889}, \h2492>>, <<"STLR", {\h8889, \hC889}, \hA492>>,
         <<"STLRB", {\h0889}, \hA492>>, <<"STLRH", {\h4889}, \hA492>>}) \union
    Traps(\hFFFF, \hFC00, {<<"STLR", {\h9980, \hD980}, \h0800>>})

STLUR_STLXRH ==
    Traps(\hFFE0, \h0C00,
        {<<"STLUR", {\h9900, \hD900}, 0>>, <<"STLURB", {\h1900}, 0>>,
         <<"STLURH", {\h5900}, 0>>}) \union
    Traps(\hFFE0, \h8000, {<<"STLXP", {\h8820, \hC820}, \h8000>>}) \union
    Traps(\hFFE0, \hA492,
        {<<"STLXR", {\h8800, \hC800}, \hA492>>, <<"STLXRB", {\h0800}, \hA492>>,
         <<"STLXRH", {\h4800}, \hA492>>})

STNP == Traps(\hFFC0, 0, {<<"STNP", {\h2800, \hA800}, 0>>})

STP_1 ==
    Unread("STORE", \hFFC0, 0,
        {<<"STP", {\h2880, \h2900, \h2980, \h2C80, \h2D00, \h2D80, \h6C80, \h6D00, \h6D80,
               \hAC80, \hAD00, \hAD80}, 0>>})

STP_2 == Unread("STORE", \hFFC0, 0, {<<"STP", {\hA880, \hA900, \hA980}, 0>>})

STR_1 ==
    Unread("STORE", \hFFC0, 0, {<<"STR", {\h3D00, \h3D80, \h7D00, \hBD00, \hFD00}, 0>>}) \union
    Unread("STORE", \hFFE0, \h0C00,
        {<<"STR", {\h3C00, \h3C80, \h7C00, \hBC00}, \h0400>>,
         <<"STR", {\h3C00, \h3C80, \h7C00}, \h0C00>>})

STR_2 ==
    Unread("STORE", \hFFE0, \h0C00,
        {<<"STR", {\hB800, \hBC00, \hF800, \hFC00}, \h0C00>>,
         <<"STR", {\hB800, \hF800, \hFC00}, \h0400>>, <<"STR", {\h3C20, \h3CA0}, \h0800>>}) \union
    Unread("STORE", \hFFC0, 0, {<<"STR", {\hB900, \hF900}, 0>>}) \union
    Unread("STORE", \hFFC0, \hE010, {<<"STR", {\hE580}, 0>>})

STR_3 ==
    Unread("STORE", \hFFE0, \h0C00,
        {<<"STR", {\h7C20, \hB820, \hBC20, \hF820, \hFC20}, \h0800>>}) \union
    Unread("STORE", \hFFE0, \hEC00, {<<"STR", {\h3C20}, \h6800>>}) \union
    Unread("STORE", \hFFC0, \hE000, {<<"STR", {\hE580}, \h4000>>}) \union
    Unread("STORE", \hFFFF, \h9C10, {<<"STR", {\hE120}, 0>>}) \union
    Unread("STORE", \hFFFF, \hFC1F, {<<"STR", {\hE13F}, \h8000>>})

STRB_LDSET ==
    Unread("STORE", \hFFC0, 0, {<<"STRB", {\h3900}, 0>>, <<"STRH", {\h7900}, 0>>}) \union
    Unread("STORE", \hFFE0, \h0C00,
        {<<"STRB", {\h3800}, \h0400>>, <<"STRB", {\h3800}, \h0C00>>, <<"STRB", {\h3820}, \h0800>>,
         <<"STRH", {\h7800}, \h0400>>, <<"STRH", {\h7800}, \h0C00>>,
         <<"STRH", {\h7820}, \h0800>>}) \union
    Unread("STORE", \hFFE0, \hEC00, {<<"STRB", {\h3820}, \h6800>>}) \union
    Traps(\hFFE0, \hFC1F, {<<"LDSET", {\hB820, \hF820}, \h301F>>})

LDSETL_LDSMAXLB ==
    Traps(\hFFE0, \hFC1F,
        {<<"LDSETL", {\hB860, \hF860}, \h301F>>, <<"LDSETB", {\h3820}, \h301F>>,
         <<"LDSETLB", {\h3860}, \h301F>>, <<"LDSETH", {\h7820}, \h301F>>,
         <<"LDSETLH", {\h7860}, \h301F>>, <<"LDSMAX", {\hB820, \hF820}, \h401F>>,
         <<"LDSMAXL", {\hB860, \hF860}, \h401F>>, <<"LDSMAXB", {\h3820}, \h401F>>,
         <<"LDSMAXLB", {\h3860}, \h401F>>})

LDSMAXH_STTR ==
    Traps(\hFFE0, \hFC1F,
        {<<"LDSMAXH", {\h7820}, \h401F>>, <<"LDSMAXLH", {\h7860}, \h401F>>,
         <<"LDSMIN", {\hB820, \hF820}, \h501F>>, <<"LDSMINL", {\hB860, \hF860}, \h501F>>,
         <<"LDSMINB", {\h3820}, \h501F>>, <<"LDSMINLB", {\h3860}, \h501F>>,
         <<"LDSMINH", {\h7820}, \h501F>>, <<"LDSMINLH", {\h7860}, \h501F>>}) \union
    Traps(\hFFE0, \h0C00, {<<"STTR", {\hB800, \hF800}, \h0800>>})

STTRB_LDUMIN ==
    Traps(\hFFE0, \h0C00, {<<"STTRB", {\h3800}, \h0800>>, <<"STTRH", {\h7800}, \h0800>>}) \union
    Traps(\hFFE0, \hFC1F,
        {<<"LDUMAX", {\hB820, \hF820}, \h601F>>, <<"LDUMAXL", {\hB860, \hF860}, \h601F>>,
         <<"LDUMAXB", {\h3820}, \h601F>>, <<"LDUMAXLB", {\h3860}, \h601F>>,
         <<"LDUMAXH", {\h7820}, \h601F>>, <<"LDUMAXLH", {\h7860}, \h601F>>,
         <<"LDUMIN", {\hB820, \hF820}, \h701F>>})

LDUMINL_LDUMINLH ==
    Traps(\hFFE0, \hFC1F,
        {<<"LDUMINL", {\hB860, \hF860}, \h701F>>, <<"LDUMINB", {\h3820}, \h701F>>,
         <<"LDUMINLB", {\h3860}, \h701F>>, <<"LDUMINH", {\h7820}, \h701F>>,
         <<"LDUMINLH", {\h7860}, \h701F>>})

STUR_STXRH ==
    Traps(\hFFE0, \h0C00,
        {<<"STUR", {\hB800, \hF800}, 0>>, <<"STURB", {\h3800}, 0>>,
         <<"STURH", {\h7800}, 0>>}) \union
    Traps(\hFFE0, \h8000, {<<"STXP", {\h8820, \hC820}, 0>>}) \union
    Traps(\hFFE0, \hA492,
        {<<"STXR", {\h8800, \hC800}, \h2492>>, <<"STXRB", {\h0800}, \h2492>>,
         <<"STXRH", {\h4800}, \h2492>>})

STZ2G_STZGM ==
    Traps(\hFFE0, \h0C00,
        {<<"STZ2G", {\hD9E0}, \h0400>>, <<"STZ2G", {\hD9E0}, \h0800>>,
         <<"STZ2G", {\hD9E0}, \h0C00>>, <<"STZG", {\hD960}, \h0400>>, <<"STZG", {\hD960}, \h0800>>,
         <<"STZG", {\hD960}, \h0C00>>}) \union
    Traps(\hFFFF, \hFC00, {<<"STZGM", {\hD920}, 0>>})

SUB_2 ==
    BothWidths("SUB", ExtendedRegister, \hFFE0, 0, {<<"SUB", {\h4B20}, 0>>}) \union
    BothWidths("SUB", AddSubImmediate, \hFF80, 0, {<<"SUB", {\h5100}, 0>>}) \union
    BothWidths("SUB", ShiftedRegister, \hFF20, 0, {<<"SUB", {\h4B00}, 0>>}) \union
    Group("SUB", Vectors, \hBF20, \hFC00, {<<"SUB", {\h2E20}, \h8400>>}) \union
    Group("SUB", Vectors, \hFF20, \hFC00,
        {<<"SUB", {\h7E20}, \h8400>>, <<"SUB", {\h0420}, \h0400>>}) \union
    Group("SUB", Predicated, \hFF3F, \hE000, {<<"SUB", {\h0401}, 0>>}) \union
    Group("SUB", <<V(0, 5), Imm(5, 8), Imm(13, 1)>>, \hFF3F, \hC000,
        {<<"SUB", {\h2521}, \hC000>>}) \union
    Group("SUB", <<Imm(0, 3), V(6, 4), RegisterField(32, 13, 2)>>, \hFFBF, \h9C38,
        {<<"SUB", {\hC1A0}, \h1C18>>})

SUB_SUBPS ==
    Group("SUB", <<Imm(0, 3), V(7, 3), RegisterField(32, 13, 2)>>, \hFFBF, \h9C78,
        {<<"SUB", {\hC1A1}, \h1C18>>}) \union
    Group("SUB", <<Imm(0, 3), V(5, 5), RegisterField(32, 13, 2), V(16, 4)>>, \hFFB0, \h9C18,
        {<<"SUB", {\hC120, \hC130}, \h1818>>}) \union
    Group("SUB", <<Imm(0, 3), V(6, 4), RegisterField(32, 13, 2), V(17, 4)>>, \hFFA1, \h9C38,
        {<<"SUB", {\hC1A0}, \h1818>>}) \union
    Group("SUB", <<Imm(0, 3), V(7, 3), RegisterField(32, 13, 2), V(18, 3)>>, \hFFA3, \h9C78,
        {<<"SUB", {\hC1A1}, \h1818>>}) \union
    Group("SUB", <<R(64, 0), R(64, 5), Imm(10, 4), Imm(16, 6)>>, \hFFC0, \h4800,
        {<<"SUBG", {\hD180}, 0>>}) \union
    Group("SUB", <<V(0, 5), V(5, 5), V(16, 5), Condition(30, 1)>>, \hBF20, \hFC00,
        {<<"SUBHN", {\h0E20}, \h6000>>}) \union
    Group("SUB", Vectors, \hFF20, \hFC00,
        {<<"SUBHNB", {\h4520}, \h7000>>, <<"SUBHNT", {\h4520}, \h7400>>}) \union
    Group("SUB", <<R(64, 0), R(64, 5), R(64, 16)>>, \hFFE0, \hFC00,
        {<<"SUBP", {\h9AC0}, 0>>, <<"SUBPS", {\hBAC0}, 0>>})

SUBR_SUBS ==
    Group("SUB", Predicated, \hFF3F, \hE000, {<<"SUBR", {\h0403}, 0>>}) \union
    Group("SUB", <<V(0, 5), Imm(5, 8), Imm(13, 1)>>, \hFF3F, \hC000,
        {<<"SUBR", {\h2523}, \hC000>>}) \union
    BothWidths("SUB", ExtendedRegister, \hFFE0, 0, {<<"SUBS", {\h6B20}, 0>>}) \union
    BothWidths("SUB", AddSubImmediate, \hFF80, 0, {<<"SUBS", {\h7100}, 0>>}) \union
    BothWidths("SUB", ShiftedRegister, \hFF20, 0, {<<"SUBS", {\h6B00}, 0>>})

SVC == Traps(\hFFE0, \h001F, {<<"SVC", {\hD400}, \h0001>>})

SWP_SWPLB ==
    Traps(\hFFE0, \hFC00,
        {<<"SWP", {\hB820, \hF820}, \h8000>>, <<"SWPA", {\hB8A0, \hF8A0}, \h8000>>,
         <<"SWPAL", {\hB8E0, \hF8E0}, \h8000>>, <<"SWPL", {\hB860, \hF860}, \h8000>>,
         <<"SWPAB", {\h38A0}, \h8000>>, <<"SWPALB", {\h38E0}, \h8000>>,
         <<"SWPB", {\h3820}, \h8000>>, <<"SWPLB", {\h3860}, \h8000>>})

SWPAH_SBFM ==
    Traps(\hFFE0, \hFC00,
        {<<"SWPAH", {\h78A0}, \h8000>>, <<"SWPALH", {\h78E0}, \h8000>>,
         <<"SWPH", {\h7820}, \h8000>>, <<"SWPLH", {\h7860}, \h8000>>, <<"SWPP", {\h1920}, \h8000>>,
         <<"SWPPA", {\h19A0}, \h8000>>, <<"SWPPAL", {\h19E0}, \h8000>>,
         <<"SWPPL", {\h1960}, \h8000>>}) \union
    Traps(\hFFFF, \hFC00, {<<"SBFM", {\h1300, \h9340}, \h1C00>>})

SBFM == Traps(\hFFFF, \hFC00, {<<"SBFM", {\h1300, \h9340}, \h3C00>>})

SBFM_SYSP ==
    Traps(\hFFFF, \hFC00, {<<"SBFM", {\h9340}, \h7C00>>}) \union
    Traps(\hFFF8, 0, {<<"SYS", {\hD508}, 0>>, <<"SYSL", {\hD528}, 0>>, <<"SYSP", {\hD548}, 0>>})

TBNZ == Traps(\h7F00, 0, {<<"TBNZ", {\h3700}, 0>>})

TBZ_SYS ==
    Traps(\h7F00, 0, {<<"TBZ", {\h3600}, 0>>}) \union
    Traps(\hFFE0, \h001F, {<<"TCANCEL", {\hD460}, 0>>}) \union
    Traps(\hFFFF, \hFFFF, {<<"TCOMMIT", {\hD503}, \h307F>>}) \union
    Traps(\hFFF8, \hE000, {<<"SYS", {\hD508}, \h8000>>, <<"SYSP", {\hD548}, \h8000>>}) \union
    Traps(\hFFFF, \hFFE0, {<<"SYS", {\hD50B}, \h72E0>>})

TSB_TTEST ==
    Traps(\hFFFF, \hFFFF, {<<"TSB", {\hD503}, \h225F>>}) \union
    Group("AND", TestedImmediate(64), \hFF80, \h001F, {<<"ANDS", {\hF200}, \h001F>>}) \union
    Group("AND", TestedImmediate(32), \hFFC0, \h001F, {<<"ANDS", {\h7200}, \h001F>>}) \union
    BothWidths("AND", ComparedShifted, \hFF20, \h001F, {<<"ANDS", {\h6A00}, \h001F>>}) \union
    Traps(\hFFFF, \hFFE0, {<<"TSTART", {\hD523}, \h3060>>, <<"TTEST", {\hD523}, \h3160>>})

UBFM_1 == Traps(\hFFC0, 0, {<<"UBFM", {\h5300, \hD340}, 0>>})

UDIV_UDIVR ==
    Unread("DIV", \hFFE0, \hFC00, {<<"UDIV", {\h1AC0, \h9AC0}, \h0800>>}) \union
    Unread("DIV", \hFF3F, \hE000, {<<"UDIV", {\h0415}, 0>>, <<"UDIVR", {\h0417}, 0>>})

UMADDL_1 == Traps(\hFFE0, \h8000, {<<"UMADDL", {\h9BA0}, 0>>})

UMAX_1 == Traps(\hFFFC, 0, {<<"UMAX", {\h11C4, \h91C4}, 0>>})

UMAX_2 == Traps(\hFFE0, \hFC00, {<<"UMAX", {\h1AC0, \h9AC0}, \h6400>>})

UMIN_1 == Traps(\hFFFC, 0, {<<"UMIN", {\h11CC, \h91CC}, 0>>})

UMIN_2 == Traps(\hFFE0, \hFC00, {<<"UMIN", {\h1AC0, \h9AC0}, \h6C00>>})

UMSUBL == Traps(\hFFE0, \hFC00, {<<"UMSUBL", {\h9BA0}, \hFC00>>})

UMSUBL_UMULH ==
    Traps(\hFFE0, \h8000, {<<"UMSUBL", {\h9BA0}, \h8000>>}) \union
    Traps(\hFFE0, \hA492, {<<"UMULH", {\h9BC0}, \h2492>>})

UMADDL_2 == Traps(\hFFE0, \hFC00, {<<"UMADDL", {\h9BA0}, \h7C00>>})

UBFM_2 == Traps(\hFFFF, \hFC00, {<<"UBFM", {\h5300}, \h1C00>>})

UBFM_3 == Traps(\hFFFF, \hFC00, {<<"UBFM", {\h5300}, \h3C00>>})

WFE_WFIT ==
    Traps(\hFFFF, \hFFFF, {<<"WFE", {\hD503}, \h205F>>, <<"WFI", {\hD503}, \h207F>>}) \union
    Traps(\hFFFF, \hFFE0, {<<"WFET", {\hD503}, \h1000>>, <<"WFIT", {\hD503}, \h1020>>})

XAFLAG == Traps(\hFFFF, \hF4FF, {<<"XAFLAG", {\hD500}, \h403F>>})

XPACD_XPACLRI ==
    Traps(\hFFFF, \hFFE0, {<<"XPACD", {\hDAC1}, \h47E0>>, <<"XPACI", {\hDAC1}, \h43E0>>}) \union
    Traps(\hFFFF, \hFFFF, {<<"XPACLRI", {\hD503}, \h20FF>>})

YIELD == Traps(\hFFFF, \hFFFF, {<<"YIELD", {\hD503}, \h203F>>})

-----------------------------------------------------------------------------
g_bal_decoder_arm64_instructions ==
    UNION {ABS, ADC, ADCS, ADD, ADD_ADDHNB, ADDHNT_ADDS, ADDSPL_ADR, ADRP, AND_ANDQV, ANDS_SBFM,
           ASRV_AUTIZA, AUTIB_BC, BFM_1, BFM_2, BFM_3, AND_BIC, BICS, BL_BLRABZ, BR_BRK, BTI,
           CAS_CASLB, CASAH_CASPL, CBNZ_CCMP, CFINV_CSINV, CLRBHB_CLREX, CLS, CLZ, ADDS_SUBS,
           CMPEQ_CMPGE, CMPGT_CMPHI, CMPHS_SUBPS, CSNEG, CNT, SYS, CPYFE_CPYFPRT, CPYFERTN_CPYFPT,
           CPYFETN_CPYFPWN, CPYFEWT_CPYFPWTWN, CRC32B_CSEL, CSINC_CSNEG, CTZ_DCPS3, DGH_DSB,
           SYS_EOR3, EOR_EORS, EORTB_ESB, EXTR, GCSB_HINT, HLT_SYS, IRG_ISB, LD64B_LDADDB,
           LDADDLB_LDADDLH, LDAPR_LDAPRH, LDAPUR_LDARB, LDARH_LDCLRA, LDCLRAL_LDCLRLH,
           LDCLRP_LDEORL, LDEORAB_LDEORLH, LDG_LDLARH, LDNP, LDP, LDP_LDPSW, LDR_1, LDR_2, LDR_3,
           LDR_LDRB, LDRH, LDRSB, LDRSH, LDRSW_LDSETAL, LDSETL_LDSETPA, LDSETPAL_LDSMAXALB,
           LDSMAXB_LDSMINAL, LDSMINL_LDTR, LDTRB_LDUMAXA, LDUMAXAL_LDUMAXLH, LDUMIN_LDUMINLB,
           LDUMINAH_LDUMINLH, LDUR_LDXP, LDXR_UBFM, LSLV_UBFM, LSRV, MADD, MSUB_AND, MOVN_ORR,
           MOVK_MOVN, ANDS, MOVZ_MRS, MSR_MADD, MUL, ORN, SUB_1, SBC_SBCS, NOP, EOR, EORS,
           ORN_ORR, ORR, PACDA_PACIB1716, PACIBSP_PACIZB, PRFM_PRFUM, PSB, DSB_1, RBIT,
           RCWCAS_RCWCLRL, RCWCLRP_RCWSCASPL, RCWSCLR_RCWSETL, RCWSETP_RCWSSETPL, RCWSSWP_RCWSWPL,
           RCWSWPP_RCWSWPPL, RET_REV, REV16, REV32, REV, RMIF_RPRFM, SB_SBC, SBCS_SBFM,
           SDIV_SDIVR, SETF16_SETF8, SETE_SETPTN, SEV_SEVL, SHL, SMADDL_1, SMAX_1, SMAX_2, SMC,
           SMIN_1, SMIN_2, SMSUBL, MSR_SMULH, SMADDL_2, SQSHL, SQSHRN, SRSRA, DSB_2, SSRA, ST2G,
           ST64B_LDADDLH, LDCLR_LDEORL, LDEORB_STGP, STILP, STLLR_STLRH, STLUR_STLXRH, STNP,
           STP_1, STP_2, STR_1, STR_2, STR_3, STRB_LDSET, LDSETL_LDSMAXLB, LDSMAXH_STTR,
           STTRB_LDUMIN, LDUMINL_LDUMINLH, STUR_STXRH, STZ2G_STZGM, SUB_2, SUB_SUBPS, SUBR_SUBS,
           SVC, SWP_SWPLB, SWPAH_SBFM, SBFM, SBFM_SYSP, TBNZ, TBZ_SYS, TSB_TTEST, UBFM_1,
           UDIV_UDIVR, UMADDL_1, UMAX_1, UMAX_2, UMIN_1, UMIN_2, UMSUBL, UMSUBL_UMULH, UMADDL_2,
           UBFM_2, UBFM_3, WFE_WFIT, XAFLAG, XPACD_XPACLRI, YIELD}
=============================================================================
