------------------------------- MODULE MCGps -------------------------------
(***************************************************************************)
(* Gps.tla with noise that is empty, foreign text, a lone first byte of a  *)
(* message, the start of an acknowledgement and another message's whole    *)
(* acknowledgement; and with solutions at the edges of the fields.         *)
(***************************************************************************)
EXTENDS Gps

MCNoises == {<<>>, <<36, 71>>, <<UBX1>>, <<UBX1, UBX2, 5>>,
             Ack(200) \o Checksum}
MCSolutions ==
  {[itow |-> 181, num_svs |-> 3, type |-> 0, year |-> 2015,
    time |-> <<1, 1, 0, 0, 0>>, lat |-> 0, lon |-> 0, hMSL |-> -17000],
   [itow |-> 0, num_svs |-> 9, type |-> 3, year |-> 2015,
    time |-> <<12, 31, 23, 59, 59>>, lat |-> 900000000, lon |-> -1800000000,
    hMSL |-> 31999999],
   [itow |-> 0, num_svs |-> 5, type |-> 2, year |-> 2016,
    time |-> <<2, 29, 12, 30, 15>>, lat |-> -1, lon |-> 1800000000,
    hMSL |-> 50001000]}
=============================================================================
