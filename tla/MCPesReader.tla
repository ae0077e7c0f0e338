---------------------------- MODULE MCPesReader -----------------------------
(* A file of a few frames; key frames are longer than others and longer    *)
(* than a buffer.                                                          *)
EXTENDS PesReader

MCLenOf == [key |-> 5, delta |-> 2, audio |-> 1]
MCTimes == <<500, 2300, 4000, 5200>>
=============================================================================
