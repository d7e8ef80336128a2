--------------------------- MODULE MCX86Assembler ---------------------------
(***************************************************************************)
(* X86Assembler on a buffer of 48 bytes, which holds several instructions  *)
(* of every size, so that every instruction is emitted, refused and        *)
(* emitted across the last byte at many offsets.                           *)
(***************************************************************************)
EXTENDS X86Assembler
=============================================================================
