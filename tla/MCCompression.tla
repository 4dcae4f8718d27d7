---------------------------- MODULE MCCompression ----------------------------
(* Compression on a small instance: distributions over two and three       *)
(* symbols in eighths, among them some that round a symbol's share away    *)
(* and one whose masses add up to more than one.                           *)
EXTENDS Compression

Eighths == {<<4, 4>>, <<1, 7>>, <<6, 3>>, <<2, 1, 5>>, <<7, 1, 1>>}
=============================================================================
