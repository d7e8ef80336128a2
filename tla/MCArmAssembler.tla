--------------------------- MODULE MCArmAssembler ---------------------------
(***************************************************************************)
(* ArmAssembler on a buffer of one or two words, with arguments at and just past  *)
(* every limit the emit functions check.                                   *)
(***************************************************************************)
EXTENDS ArmAssembler

\* One call at a time goes to a limit or past it.
EdgeRequests ==
    {Request(op, args) : op \in {"add_immediate", "sub_immediate"},
        args \in {<<0, 31, 0, 0>>, <<31, 1, \hFFF, 1>>, <<32, 1, 1, 0>>, <<0, 32, 1, 0>>,
                  <<0, 1, \h1000, 0>>, <<0, 1, 1, 2>>}}
    \union {Request("add_shifted_register", args) :
        args \in {<<0, 31, 0, 2, 0>>, <<31, 0, 63, 30, 2>>, <<32, 1, 0, 2, 0>>,
                  <<0, 32, 0, 2, 0>>, <<0, 1, 64, 2, 0>>, <<0, 1, 0, 32, 0>>, <<0, 1, 0, 2, 3>>}}
    \union {Request(op, args) : op \in {"movz", "movk", "movn"},
        args \in {<<0, \hFFFF, 48>>, <<32, 1, 0>>, <<0, 1, 64>>}}
    \union {Request("b", <<offset>>) :
        offset \in {-(2^27) - 4, -(2^27), -4, 2, 2^27 - 4, 2^27}}
    \union {Request(op, <<rn>>) : op \in {"br", "ret"}, rn \in {31, 32}}
=============================================================================
