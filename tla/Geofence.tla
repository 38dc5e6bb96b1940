------------------------------ MODULE Geofence ------------------------------
(***************************************************************************)
(* The regions of geofence.c.  geofence_aprs_frequency() tests them one    *)
(* after the other and tunes the radio for each that contains the fix, so  *)
(* that the last one stays.  Coordinates are hundredths of a degree.       *)
(***************************************************************************)
EXTENDS Integers, Sequences

Within(x, low, high) == low < x /\ x < high

(* In the order of the code; reg2 and reg1 have no limits of latitude.     *)
Regions == <<
  [chan |-> "reg2",   lat |-> <<-9001, 9001>>,  lon |-> <<-16800, -3400>>],
  [chan |-> "reg1",   lat |-> <<-9001, 9001>>,  lon |-> <<-3400, 7100>>],
  [chan |-> "brazil", lat |-> <<-3495, 718>>,   lon |-> <<-7313, -2646>>],
  [chan |-> "jp",     lat |-> <<2938, 4710>>,   lon |-> <<12716, 15361>>],
  [chan |-> "cn",     lat |-> <<1906, 5374>>,   lon |-> <<7205, 12716>>],
  [chan |-> "thai",   lat |-> <<-30, 2042>>,    lon |-> <<9306, 10515>>],
  [chan |-> "nz",     lat |-> <<-5454, -3243>>, lon |-> <<16162, 17999>>],
  [chan |-> "aus",    lat |-> <<-5017, -866>>,  lon |-> <<10580, 16162>>] >>

AprsChannels == {Regions[r].chan : r \in DOMAIN Regions}

Inside(region, fix) == /\ Within(fix.lat, region.lat[1], region.lat[2])
                         /\ Within(fix.lon, region.lon[1], region.lon[2])

(* The regions that contain the fix, in the order they are tested in.      *)
Matches(fix) ==
  LET If(r) == IF Inside(Regions[r], fix) THEN <<Regions[r]>> ELSE <<>>
  IN  If(1) \o If(2) \o If(3) \o If(4) \o If(5) \o If(6) \o If(7) \o If(8)

(* The channels tuned in turn.  Mutant: nothing is tuned outside of all.   *)
Tuned_NoDefault(fix) == Matches(fix)
Tuned(fix) == IF Matches(fix) = <<>> THEN <<Regions[2]>> ELSE Matches(fix)

(* The one channel a fix belongs to: a country's before that of its IARU   *)
(* region, Thailand's before China's, and region 1's where no other is.    *)
AprsChannel(fix) ==
  LET at == {Regions[r].chan : r \in {n \in DOMAIN Regions : Inside(Regions[n], fix)}}
  IN  IF at \subseteq {"reg1", "reg2"}
        THEN IF at = {"reg2"} THEN "reg2" ELSE "reg1"
      ELSE IF "thai" \in at THEN "thai"
      ELSE CHOOSE chan \in at \ {"reg1", "reg2"} : TRUE
=============================================================================
