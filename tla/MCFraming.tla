----------------------------- MODULE MCFraming -----------------------------
(***************************************************************************)
(* Messages for TLC: at the limits and just above, with bytes that look    *)
(* like lengths and opcodes, empty strings, an opcode that is not one,     *)
(* strings beyond ASCII, and strings that are not UTF-8: a lone first      *)
(* byte, one whose character continues in the next string, a surrogate.    *)
(***************************************************************************)
EXTENDS Framing, TLC

Msg(op, name, chan, rest) == [op |-> op, name |-> name, chan |-> chan, rest |-> rest]

Msgs == {Msg(OP_ERROR, << >>, << >>, << >>),
         Msg(OP_INFO, <<1>>, << >>, <<0>>),
         Msg(OP_AUTH, <<2>>, << >>, <<3, 5>>),
         Msg(OP_AUTH, <<2>>, << >>, <<3, 5, 0>>),
         Msg(OP_PUBLISH, <<2>>, <<1>>, <<0, 0, 0>>),
         Msg(OP_PUBLISH, << >>, <<6>>, << >>),
         Msg(OP_PUBLISH, <<2>>, <<1>>, <<0, 0, 0, 6>>),
         Msg(OP_SUBSCRIBE, <<2>>, << >>, << >>),
         Msg(OP_SUBSCRIBE, <<2>>, <<1>>, << >>),
         Msg(OP_UNSUBSCRIBE, << >>, <<0>>, << >>),
         Msg(6, << >>, << >>, << >>),
         Msg(OP_PUBLISH, <<195, 169>>, <<6>>, <<200>>),
         Msg(OP_SUBSCRIBE, << >>, <<200>>, << >>),
         Msg(OP_PUBLISH, <<195>>, <<169>>, << >>),
         Msg(OP_ERROR, << >>, << >>, <<237, 160, 128>>)}
=============================================================================
