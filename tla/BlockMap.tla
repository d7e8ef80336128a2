------------------------------ MODULE BlockMap ------------------------------
(***************************************************************************)
(* What the block cache of bal_engine.c promises to the run loop: a map    *)
(* from guest addresses to compiled blocks that may forget, but never      *)
(* lies.  An insertion makes its own address current and may forget one    *)
(* other address; clearing forgets everything; nothing else changes the    *)
(* map.  BlockCache implements this specification.                         *)
(***************************************************************************)
CONSTANTS
    Pc,     \* guest addresses at which blocks start
    Code,   \* host code pointers
    NULL    \* no host code

VARIABLE
    block   \* block[pc]: the code a lookup of pc returns, or NULL

Init == block = [pc \in Pc |-> NULL]

\* The inserted address is current, every other one is kept or forgotten, and
\* at most one is forgotten.
Insert(pc, host_code) ==
    \E lost \in Pc :
        block' = [q \in Pc |-> IF q = pc THEN host_code
                               ELSE IF q = lost THEN NULL ELSE block[q]]

Clear == block' = [pc \in Pc |-> NULL]

Next ==
    \/ \E pc \in Pc, host_code \in Code : Insert(pc, host_code)
    \/ Clear

Spec == Init /\ [][Next]_block
=============================================================================
