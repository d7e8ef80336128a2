--------------------------- MODULE MCSlidingWindow ---------------------------
(***************************************************************************)
(* SlidingWindow with a window of three macros and a buffer that fills up  *)
(* after a few of them.                                                    *)
(***************************************************************************)
EXTENDS SlidingWindow

LoweredOpcodes == {"MOV_REGISTER_REGISTER", "ADD_REGISTER_IMMEDIATE",
                   "AND_REGISTER_IMMEDIATE"}
=============================================================================
