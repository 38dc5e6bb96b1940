------------------------------ MODULE MCSi4060 ------------------------------
(* Si4060.tla with positions inside and between the regions of geofence.c. *)
EXTENDS Si4060

MCAt(lat, lon) == [lat |-> lat, lon |-> lon]

MCFixes == {
  MCAt(5000, 1000),       \* Europe: region 1
  MCAt(4000, -10000),     \* North America: region 2
  MCAt(-1000, -5000),     \* Brazil and region 2
  MCAt(-1000, -3000),     \* Brazil and region 1
  MCAt(1000, -3400),      \* the border of the regions, in neither
  MCAt(0, -17500),        \* the Pacific, in none
  MCAt(3500, 14000),      \* Japan
  MCAt(4000, 12716),      \* the border of Japan and China, in neither
  MCAt(4000, 10000),      \* China
  MCAt(2000, 10000),      \* China and Thailand
  MCAt(1000, 10000),      \* Thailand
  MCAt(-2500, 13500),     \* Australia
  MCAt(-4000, 17500)}     \* New Zealand
=============================================================================
