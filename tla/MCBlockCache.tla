---------------------------- MODULE MCBlockCache ----------------------------
(***************************************************************************)
(* BlockCache on 8 sets of 2 ways: as in the program, the set index has    *)
(* two bits below the eviction bits.  Set 0 gets three addresses, one of   *)
(* them 0, whose tag a zeroed entry already carries; set 4, which evicts   *)
(* its other way, gets three too, one of them unaligned.                   *)
(***************************************************************************)
EXTENDS BlockCache

MCPc == {0, 32, 64, 16, 48, 82}

=============================================================================
