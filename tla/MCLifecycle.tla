---------------------------- MODULE MCLifecycle ----------------------------
(***************************************************************************)
(* Lifecycle of two engines, in one process or in two.                     *)
(***************************************************************************)
EXTENDS Lifecycle
=============================================================================
