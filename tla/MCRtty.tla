------------------------------- MODULE MCRtty -------------------------------
(***************************************************************************)
(* Rtty.tla with the preamble of main.h and frames of up to two            *)
(* characters, over two contents of the buffer that differ in every        *)
(* position and are not symmetric in bit order.                            *)
(***************************************************************************)
EXTENDS Rtty, TLC

Bits(b1, b2, b3, b4, b5, b6, b7) ==
  [k \in 1 .. 7 |-> <<b1, b2, b3, b4, b5, b6, b7>>[k]]

C1 == Bits(1, 0, 0, 1, 1, 0, 1)
C2 == Bits(0, 1, 1, 0, 0, 0, 0)

MCBuffers == {(0 :> C1) @@ (1 :> C2), (0 :> C2) @@ (1 :> C1)}
=============================================================================
