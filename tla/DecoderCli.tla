----------------------------- MODULE DecoderCli -----------------------------
(***************************************************************************)
(* The decoder command (tools/decoder_cli.c), which prints the table entry *)
(* of one word, and what tier 1 (bal_x86_tier1_compiler.c) does with the   *)
(* entry that the lookup returns for that word: which function it hands it *)
(* to and where that function looks for the operands.                      *)
(***************************************************************************)
EXTENDS Decoder

CONSTANT Words      \* The words the command is given.

ASSUME WordsAssumption == Words \subseteq SUBSET Bit

VARIABLES argument,     \* argv[1]: a number, or why it is not one.
          metadata,     \* What bal_decode_arm64 returned.
          exit_code     \* -1 while the command runs.

vars == <<argument, metadata, exit_code>>

\* argc < 2, no digits, trailing characters, ERANGE, and more than 32 bits.
Unusable == {"missing", "no digits", "trailing", "out of range", "too wide"}

Argument == [kind : {"word"}, word : Words] \union [kind : Unusable, word : {{}}]

Init ==
    /\ argument \in Argument
    /\ metadata = Undecoded
    /\ exit_code = -1

Refuse ==
    /\ exit_code = -1
    /\ argument.kind \in Unusable
    /\ exit_code' = 1
    /\ UNCHANGED <<argument, metadata>>

\* Prints the name, the mask and the expected bits, or UNDEFINED.
Decode ==
    /\ exit_code = -1
    /\ argument.kind = "word"
    /\ metadata' \in Decoded(argument.word)
    /\ exit_code' = 0
    /\ UNCHANGED argument

Next == Refuse \/ Decode

Spec == Init /\ [][Next]_vars

-----------------------------------------------------------------------------
(* What tier 1 does with the entry.                                        *)

General == {"REGISTER_32", "REGISTER_64"}

\* The function the switch calls for the entry.
TranslatedBy(e) ==
    CASE e.ir_opcode = "MOV" ->
            IF e.name \in {"MOVN", "MOVK", "MOVZ"} THEN "translate_mov_immediate"
            ELSE IF e.operands[1].type \in General THEN "translate_mov_register"
            ELSE "none"
      [] e.ir_opcode \in {"ADD", "SUB", "CMP"} ->
            IF e.operands[3].type \in General THEN "translate_add_sub_reg"
            ELSE IF e.operands[2].type = "IMMEDIATE" THEN "translate_add_sub_imm"
            ELSE "none"
      [] e.ir_opcode = "AND" -> "translate_and"
      [] e.ir_opcode = "JUMP" -> "translate_jump"
      [] e.ir_opcode = "BRANCH_CONDITIONAL" -> "translate_b_cond"
      [] e.ir_opcode = "RETURN" -> "return"
      [] OTHER -> "none"

\* The operands as that function understands them.
ReadAs(function, size) ==
    CASE function = "translate_mov_immediate" -> MoveWide(size)
      [] function = "translate_mov_register" -> MovedRegister(size)
      [] function \in {"translate_add_sub_reg", "translate_and"} -> ShiftedRegister(size)
      [] function = "translate_add_sub_imm" -> AddSubImmediate(size)
      [] function = "translate_jump" -> <<Imm(0, 26)>>
      [] function = "translate_b_cond" -> <<Condition(0, 4), Imm(5, 19)>>
      [] function = "return" -> <<R(size, 5)>>

ReadRightly(e) ==
    TranslatedBy(e) = "none" \/
    \E size \in {32, 64} :
        e.operands = Entry("", {}, {}, "", ReadAs(TranslatedBy(e), size)).operands

\* The entries whose operands tier 1 takes for something else: vectors, the
\* extended register forms (read as an immediate), ADDG and SUBG, the logical
\* immediates (read as a register and a shift), and ORR (read as a move).
KnownMisread(e) ==
    \/ e.operands[0].type = "REGISTER_128"
    \/ e.operands[2] = Imm(10, 3)
    \/ e.operands[3] = Imm(16, 6)
    \/ e.name \in {"ADDG", "SUBG", "ORR"}

\* The entries that match word and are not a special case of another that does.
MostParticular(word) ==
    {e \in Matching(word) :
        \A d \in Matching(word) : e.mask \subseteq d.mask => d.mask = e.mask}

-----------------------------------------------------------------------------
\* The hash buckets lose nothing: bal_decode_arm64 returns an entry that matches
\* the word, and NULL only when no entry of the whole table matches it.
LookupIsComplete ==
    exit_code = 0 =>
        IF metadata = Undecoded
        THEN \A e \in g_bal_decoder_arm64_instructions :
                argument.word \intersect e.mask # e.expected
        ELSE /\ metadata \in g_bal_decoder_arm64_instructions
             /\ argument.word \intersect metadata.mask = metadata.expected

\* The generator's order may put a general entry before its aliases, but the
\* entry found has the operation of the most particular one, or tier 1
\* translates neither.
SameOperation ==
    exit_code = 0 =>
        \A e \in MostParticular(argument.word) :
            \/ e.ir_opcode = metadata.ir_opcode
            \/ TranslatedBy(e) = "none" /\ TranslatedBy(metadata) = "none"

\* Whatever entry the lookup returns, the translate_* function that the switch
\* hands it to reads each operand at the place and with the kind the entry
\* gives it, but for the entries of KnownMisread.
OperandsAreWhereRead ==
    exit_code = 0 => ReadRightly(metadata) \/ KnownMisread(metadata)
=============================================================================
