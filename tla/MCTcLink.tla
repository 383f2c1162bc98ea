------------------------------ MODULE MCTcLink ------------------------------
(* TcLink with two payload byte values, short delimiters, a short buffer   *)
(* and a receive counter that wraps soon after the end of the buffer.      *)
EXTENDS TcLink

CONSTANTS d0, d1
MCData == {d0, d1}
=============================================================================
