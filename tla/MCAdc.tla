------------------------------- MODULE MCAdc -------------------------------
(***************************************************************************)
(* Adc.tla with the ten conversions of hw.c, and codes around the clipping *)
(* of the battery voltage and at full scale.                               *)
(***************************************************************************)
EXTENDS Adc
=============================================================================
