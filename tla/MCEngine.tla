------------------------------ MODULE MCEngine ------------------------------
(***************************************************************************)
(* Engine on guest programs of a few blocks.                               *)
(***************************************************************************)
EXTENDS Engine

Jump(pc) == [kind |-> "code", next |-> {pc}, early |-> <<>>, late |-> <<>>,
             first |-> <<>>, alone |-> TRUE, allocates |-> FALSE,
             is_pc_dynamic |-> FALSE]

\* movz x0, #1; b pc
MovJump(pc) ==
    LET mov == << <<X86!Low("mov_r64_imm64")>>, <<X86!Low("store_r64_rbp_offset")>> >>
    IN  [Jump(pc) EXCEPT !.late = mov, !.first = mov, !.alone = FALSE,
                         !.allocates = TRUE]

\* ret to any of targets
Ret(targets) ==
    LET pc == << <<X86!Low("load_r64_rbp_offset")>>, <<X86!Low("store_r64_rbp_offset")>> >>
    IN  [Jump(0) EXCEPT !.next = targets, !.late = pc, !.first = pc,
                        !.allocates = TRUE, !.is_pc_dynamic = TRUE]

Bad(kind) == [Jump(0) EXCEPT !.kind = kind, !.next = {}]

\* Two blocks that can loop for ever, return to the host, or run into an
\* instruction the compiler rejects, a word that does not decode or a hole in
\* guest memory.
LoopPc == {0, 4, 8, 12, 16}
LoopGuest == (0 :> MovJump(4)) @@ (4 :> Ret({0, 8, 12, 16, SENTINEL})) @@
             (8 :> Bad("trap")) @@ (12 :> Bad("undecodable")) @@
             (16 :> Bad("unmapped"))

\* Blocks of 34 bytes each, the last of which returns to the host.
JumpPc == {0, 4, 8}
JumpGuest == (0 :> Jump(4)) @@ (4 :> Jump(8)) @@ (8 :> Jump(SENTINEL))
=============================================================================
