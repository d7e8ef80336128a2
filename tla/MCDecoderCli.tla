---------------------------- MODULE MCDecoderCli ----------------------------
(***************************************************************************)
(* DecoderCli with a word for every entry of DecoderTable, with its free   *)
(* bits clear and with its free bits set, one for every pair of entries    *)
(* that share a word, and one word that no entry matches.                  *)
(***************************************************************************)
EXTENDS DecoderCli

SharedWords(e) ==
    {d.expected \union e.expected :
        d \in {d \in g_bal_decoder_arm64_instructions :
                    d.expected \intersect e.mask = e.expected \intersect d.mask}}

TableWords ==
    {Bit} \union
    UNION {SharedWords(e) \union {e.expected \union (Bit \ e.mask)} :
               e \in g_bal_decoder_arm64_instructions}
=============================================================================
