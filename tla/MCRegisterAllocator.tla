------------------------ MODULE MCRegisterAllocator ------------------------
(***************************************************************************)
(* RegisterAllocator with four scratch registers.  As in the program some  *)
(* have a number below SCRATCH_REGISTERS_SIZE, some do not, and R15 is the *)
(* last.                                                                   *)
(***************************************************************************)
EXTENDS RegisterAllocator

FourScratch == <<0, 1, 8, 15>>
=============================================================================
