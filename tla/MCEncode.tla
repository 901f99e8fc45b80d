------------------------------ MODULE MCEncode ------------------------------
(* Widths small enough to try every displacement: addresses of 10 bits (8 on  *)
(* arm), pages of 32 bytes, branches of 6 bits.                               *)
EXTENDS Encode

MCPlace  == {4, 124, 128, 1000}
MCSymbol == {s \in 1..1023 : s % 16 \in {0, 1, 2, 4, 8}}
MCAddend == {-4, 0, 2, 12}
MCStub   == {12, 28, 40}
=============================================================================
