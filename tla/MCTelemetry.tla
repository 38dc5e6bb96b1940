---------------------------- MODULE MCTelemetry -----------------------------
(***************************************************************************)
(* Telemetry.tla with fixes at the edges of every field, around the        *)
(* sentences at which the sentence id gets longer or the APRS number wraps.*)
(***************************************************************************)
EXTENDS Telemetry

MCFix(type, lat, lon, alt, temperature, bat) ==
  [type |-> type, day |-> 31, hour |-> 23, min |-> 9, sec |-> 50,
   lat |-> lat, lon |-> lon, alt |-> alt, num_svs |-> 12,
   voltage_bat |-> bat, voltage_sol |-> 32, temperature_int |-> temperature,
   lat91 |-> 3809 * (9000 - (lat \div 100000)),
   lon91 |-> 1904 * (18000 + (lon \div 100000)),
   alt91 |-> 594 + (alt \div 10)]

MCUsual == MCFix(3, 523456789, 134567891, 12040, 21, 4632)
MCFixes == {MCUsual,
            MCFix(3, -900000000, -1800000000, 50000, -99, 3000),
            MCFix(3, 0, 0, 1, 0, 0),
            MCFix(3, 1, 1, 2, 100, 1), MCFix(3, 1, 1, 2, -100, 1),
            MCFix(3, 9, 1410065407, 900, 99, 999),
            MCFix(3, -1, -1410065408, 10000, -1, 4000),
            MCFix(2, 1, 1, 1, 1, 1)}
MCNear == {1, 2, 9, 10, 11, 99, 100, 101, 999, 1000, 1001, 8280, 8281, 8282,
           9999, 10000, 10001, 10002}
=============================================================================
