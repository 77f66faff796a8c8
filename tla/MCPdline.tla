------------------------------ MODULE MCPdline ------------------------------
(* Instance of Pdline for TLC: a short packet and one that fills the buffer; *)
(* a reception that its peripheral leaves grows longer than either.          *)
EXTENDS Pdline

Sent == {<<1, 2>>, <<3, 4, 5>>}
=============================================================================
