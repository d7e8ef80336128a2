---------------------------- MODULE MCFuzzerIpc ----------------------------
(***************************************************************************)
(* The fuzzer's three processes with inputs of two parts.                  *)
(***************************************************************************)
EXTENDS FuzzerIpc
=============================================================================
