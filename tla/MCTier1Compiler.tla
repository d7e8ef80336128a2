-------------------------- MODULE MCTier1Compiler --------------------------
(***************************************************************************)
(* Tier1Compiler on every guest program of three words from a small        *)
(* vocabulary, in pages of two words.                                      *)
(***************************************************************************)
EXTENDS Tier1Compiler

Straight == {Guest("movz", 1, 0, 0, 3), Guest("add", 0, 1, 0, 1), Guest("subs", 31, 0, 0, 1),
             Guest("adds", 0, 0, 0, 3),
             Guest("add_reg", 0, 0, 1, 0), Guest("movk", 0, 0, 1, 2)}
Ends == {Guest("b", 0, 0, 0, 2), Guest("b", 0, 0, 0, -1), Guest("b.cond", 0, 0, 0, -2),
         Guest("b.cond", 3, 0, 0, 3), Guest("ret", 0, 30, 0, 0)}
Rare == {Guest("and_reg", 0, 1, 0, 0), Guest("and_reg", 31, 1, 0, 0), Guest("movn", 1, 0, 0, 2),
         Guest("ands_reg", 0, 1, 0, 0), Guest("eor_reg", 0, 1, 0, 0),
         Guest("subs_reg", 31, 0, 1, 0), Guest("subs", 1, 0, 0, 2), Guest("add_reg", 0, 1, 1, 1),
         Guest("add_reg", 1, 0, 1, 0), Guest("mov_reg", 0, 0, 1, 0), Guest("b.cond", 14, 0, 0, 2),
         Guest("b.cond", 12, 0, 0, 2), Guest("svc", 0, 0, 0, 0), Guest("smc", 0, 0, 0, 0),
         Guest("wfi", 0, 0, 0, 0), Guest("cbz", 0, 0, 0, 1), Guest("udf", 0, 0, 0, 0)}

ThreeWords ==
    {<<a, b, c>> : a, b \in Straight, c \in Straight \union Ends} \union
    {<<a, b, c>> : a \in Straight \union Rare, b \in Rare \union Ends,
                   c \in {Guest("add", 0, 0, 0, 1)}}

AllFlags == {"TRAP_SVC", "TRAP_SMC_HVC", "WFI_YIELDS_HOST", "INSTRUCTION_COUNTING",
             "STRICT_ALIGNMENT", "JIT_DEBUG"}
SomeFlags == {{}, AllFlags}

Registers == {0, 1, 30, 31}
TwoCpus == {[x |-> [r \in Registers |-> IF r = 31 THEN 0 ELSE v],
             flag |-> [f \in {"n", "z", "c", "v"} |-> v = 1], pc |-> 0] : v \in {1, 13}}
=============================================================================
