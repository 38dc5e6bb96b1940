----------------------------- MODULE MCAprsTx ------------------------------
(***************************************************************************)
(* AprsTx.tla with the ticks of aprs.h, short frames one after the other,  *)
(* and a loop that is fast enough and one that is too slow.                *)
(***************************************************************************)
EXTENDS AprsTx
=============================================================================
