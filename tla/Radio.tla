------------------------------- MODULE Radio -------------------------------
(***************************************************************************)
(* The Si4060 transmitter as the rest of the firmware sees it: whether it  *)
(* transmits, and the modulation, the direct-mode timing and the channel   *)
(* its property registers hold.  Every operator is one driver function of  *)
(* si4060.c and returns the registers after the call; what the calls write *)
(* besides (filter, PA, deviation, NCO) no property tells apart, and the   *)
(* eight APRS channels of geofence.c are one channel here.                 *)
(***************************************************************************)

Modulations == {"none", "OOK", "2FSK", "2GFSK"}
DirectModes == {"sync", "async"}
Channels    == {"none", "rtty", "aprs"}

Radios == [tx : BOOLEAN, mod : Modulations, direct : DirectModes,
           chan : Channels]

(* After si4060_reset() and si4060_power_up(): nothing configured, idle.   *)
PoweredUp == [tx |-> FALSE, mod |-> "none", direct |-> "sync",
              chan |-> "none"]

(* si4060_setup(mod_type): always selects the synchronous direct mode.     *)
Setup(r, mod_type) == [r EXCEPT !.mod = mod_type, !.direct = "sync"]

(* si4060_start_tx(0) and si4060_stop_tx().                                *)
StartTx(r) == [r EXCEPT !.tx = TRUE]
StopTx(r)  == [r EXCEPT !.tx = FALSE]

(* si4060_freq_aprs_*(), reached through geofence_aprs_frequency().        *)
FreqAprs(r) == [Setup(r, "2GFSK") EXCEPT !.chan = "aprs"]

(* si4060_freq_2m_rtty(): writes the modulation register too.              *)
Freq2mRtty(r) == [r EXCEPT !.mod = "2FSK", !.direct = "async",
                           !.chan = "rtty"]
=============================================================================
