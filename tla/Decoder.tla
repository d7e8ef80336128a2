------------------------------- MODULE Decoder -------------------------------
(***************************************************************************)
(* The ARM64 decoder: how the generator                                    *)
(* (tools/scripts/generate_decoder_tables.lua) spreads the table over the  *)
(* hash buckets and orders each of them, the lookup (bal_decoder.c), and   *)
(* the way the compiler takes operands out of a word.                      *)
(***************************************************************************)
EXTENDS DecoderTable

\* The number in the field of the given width at position at.
Number(word, at, width) ==
    MapThenSumSet(LAMBDA b : 2^(b - at), word \intersect (at .. at + width - 1))

extract_operand_value(word, operand) ==
    IF operand.type = "NONE" THEN 0
    ELSE Number(word, operand.bit_position, operand.bit_width)

\* Mutant: the displacement is taken as unsigned.
SignExtend_unsigned(value, width) == value

\* (int32_t)(value << shift) >> shift, and the same with exclusive or.
SignExtend(value, width) == IF value >= 2^(width - 1) THEN value - 2^width ELSE value

-----------------------------------------------------------------------------
(* The generator.                                                          *)

\* Mutant: all mask bits are counted.
Priority_all_bits(entry) == Cardinality(entry.mask)

\* priority: the number of mask bits, counted by a loop that ends at once on a
\* mask with bit 31 set, a negative number in LuaJIT.
Priority(entry) == IF 31 \in entry.mask THEN 0 ELSE Cardinality(entry.mask)

\* a < b as unsigned numbers.
Below(a, b) == a # b /\ Max((a \ b) \union (b \ a)) \in b

\* The comparison that sorts a bucket.
Before(d, e) ==
    IF Priority(d) # Priority(e) THEN Priority(d) > Priority(e)
    ELSE IF d.expected # e.expected THEN Below(d.expected, e.expected)
    ELSE Below(d.mask, e.mask)

\* DECODER_HASH_BITS_MASK
HASH_BITS == 21 .. 31

\* Mutant: an entry goes only to the bucket of its expected bits.
g_decoder_lookup_table_exact ==
    [index \in 0 .. 2047 |->
        LET probe_value == Bits(index, 21)
        IN  {e \in g_bal_decoder_arm64_instructions :
                probe_value = e.expected \intersect HASH_BITS}]

\* The entries of each bucket: every one that the top 11 bits do not rule out.
g_decoder_lookup_table ==
    [index \in 0 .. 2047 |->
        LET probe_value == Bits(index, 21)
        IN  {e \in g_bal_decoder_arm64_instructions :
                probe_value \intersect e.mask = e.expected \intersect HASH_BITS}]

-----------------------------------------------------------------------------
(* The lookup.                                                             *)

\* The entries of the bucket that word matches.
Matching(word) ==
    {e \in g_decoder_lookup_table[Number(word, 21, 11)] : word \intersect e.mask = e.expected}

\* NULL, a metadata pointer to nothing.
Undecoded == Entry("", {}, {}, "", <<>>)

\* What the lookup may return: the first entry of the bucket that matches, or
\* NULL.  Entries that the sort holds equal stand in either order.
Decoded(word) ==
    IF Matching(word) = {} THEN {Undecoded}
    ELSE {e \in Matching(word) : \A d \in Matching(word) : ~ Before(d, e)}

bal_decode_arm64(word) == CHOOSE e \in Decoded(word) : TRUE
=============================================================================
