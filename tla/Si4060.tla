------------------------------- MODULE Si4060 -------------------------------
(***************************************************************************)
(* The driver si4060.c, command by command, between the calls the rest of  *)
(* the firmware makes and the chip.  The chip executes one command at a    *)
(* time and answers READ_CMD_BUF with 0xFF when it is ready for the next;  *)
(* the driver waits for that before a command, not after it, so that most  *)
(* calls return while the chip still works.  The chip may be missing, may  *)
(* stop to answer, and knows nothing of a reset of the CPU.                *)
(***************************************************************************)
EXTENDS Geofence, Radio

CONSTANTS Fixes            \* positions the tracker may be at

ASSUME FixesAssumption == \A at \in Fixes : at.lat \in Int /\ at.lon \in Int

VARIABLES
  phase,                   \* where main() is between radio calls; "aprs" and
                           \* "backlog" are a regular and a backlog frame
  calls,                   \* the calls it is about to make
  todo,                    \* what is left of the call being made
  fix,                     \* current_fix
  chip,                    \* "absent", "off", "busy", "ready" or "stuck"
  powered,                 \* POWER_UP has been executed
  pending,                 \* the command being executed, if any
  regs, tx,                \* the chip's properties; whether it transmits
  radio                    \* history: the radio as Radio.tla has it

chipVars == <<chip, powered, pending, regs, tx>>
vars == <<phase, calls, todo, fix, chipVars, radio>>

----------------------------------------------------------------------------
(* Calls as sequences of steps: commands, a wait for CTS, or the SHDN pin. *)

Step(cmd)        == [cmd |-> cmd]
CTS              == <<Step("CTS")>>
Command(cmd)     == CTS \o <<Step(cmd)>>

(* Mutant: the wait comes after the command.                               *)
si4060_set_property_Late(reg, val) ==
  <<[cmd |-> "SET_PROPERTY", reg |-> reg, val |-> val]>> \o CTS
si4060_set_property(reg, val) ==
  CTS \o <<[cmd |-> "SET_PROPERTY", reg |-> reg, val |-> val]>>

si4060_reset     == <<Step("SHUTDOWN"), Step("WAKEUP")>> \o CTS
si4060_part_info == Command("PART_INFO") \o CTS \o <<Step("RESPONSE")>>
si4060_power_up  == Command("POWER_UP") \o CTS
si4060_start_tx  == Command("START_TX")
si4060_stop_tx   == Command("CHANGE_STATE")

Filter == {"COEFF_8", "COEFF_7", "COEFF_6", "COEFF_5", "COEFF_4", "COEFF_3",
           "COEFF_2", "COEFF_1", "COEFF_0"}
Common == {"CONFIG", "XO_TUNE", "GPIO", "PREAMBLE", "SYNC", "NCO_MOD",
           "DATA_RATE", "CLKDUTY"} \cup Filter
Synth  == {"BAND", "INTE", "FRAC"}
Tuning == Synth \cup {"OFFSET", "DEV"}

(* Registers written one after the other, with the values vals has.        *)
SetAll(names, vals) ==
  [k \in 1 .. 2 * Len(names) |->
     LET reg == names[(k + 1) \div 2]
     IN  si4060_set_property(reg, vals[reg])[2 - (k % 2)]]

Preset == [reg \in Common |-> "set"]

si4060_set_filter ==
  SetAll(<<"COEFF_8", "COEFF_7", "COEFF_6", "COEFF_5", "COEFF_4", "COEFF_3",
           "COEFF_2", "COEFF_1", "COEFF_0">>, Preset)

ModType(mod_type, direct) ==
  si4060_set_property("MOD_TYPE", <<mod_type, direct>>)

si4060_setup(mod_type) ==
  SetAll(<<"CONFIG", "XO_TUNE", "GPIO", "PREAMBLE", "SYNC", "NCO_MOD",
           "DATA_RATE">>, Preset)
    \o ModType(mod_type, "sync")
    \o SetAll(<<"CLKDUTY">>, Preset) \o si4060_set_filter

(* What the tuning registers hold for a channel, by the formulas of        *)
(* si4060.h for its frequency; the fractions are all different.            *)
TuningOf(chan) ==
  [BAND |-> "FVCO_DIV_24", INTE |-> IF chan \in {"reg2", "nz"} THEN "104" ELSE "105",
   FRAC |-> chan, OFFSET |-> "0",
   DEV  |-> IF chan = "rtty" THEN "FDEV_RTTY" ELSE "FDEV_APRS"]
SetTuning(chan, names) == SetAll(names, TuningOf(chan))

si4060_freq_aprs(chan) ==
  ModType("2GFSK", "sync")
    \o SetTuning(chan, <<"BAND", "OFFSET", "DEV", "INTE", "FRAC">>)

(* Mutant: the synchronous mode of the other calls.                        *)
si4060_freq_2m_rtty_Sync ==
  ModType("2FSK", "sync")
    \o SetTuning("rtty", <<"BAND", "INTE", "FRAC", "OFFSET", "DEV">>)
si4060_freq_2m_rtty ==
  ModType("2FSK", "async")
    \o SetTuning("rtty", <<"BAND", "INTE", "FRAC", "OFFSET", "DEV">>)

(* A call and its argument, the steps it takes, and what it makes of the   *)
(* radio as Radio.tla has it.                                              *)
Call(fn, arg) == [fn |-> fn, arg |-> arg]

Steps(call) ==
  CASE call.fn = "reset"     -> si4060_reset
    [] call.fn = "part_info" -> si4060_part_info
    [] call.fn = "power_up"  -> si4060_power_up
    [] call.fn = "setup"     -> si4060_setup(call.arg)
    [] call.fn = "start_tx"  -> si4060_start_tx
    [] call.fn = "stop_tx"   -> si4060_stop_tx
    [] call.fn = "aprs"      -> si4060_freq_aprs(call.arg)
    [] call.fn = "rtty"      -> si4060_freq_2m_rtty

After(call, r) ==
  CASE call.fn \in {"reset", "part_info", "power_up"} -> PoweredUp
    [] call.fn = "setup"     -> Setup(r, call.arg)
    [] call.fn = "start_tx"  -> StartTx(r)
    [] call.fn = "stop_tx"   -> StopTx(r)
    [] call.fn = "aprs"      -> FreqAprs(r)
    [] call.fn = "rtty"      -> Freq2mRtty(r)

geofence_aprs_frequency(at) ==
  [k \in DOMAIN Tuned(at) |-> Call("aprs", Tuned(at)[k].chan)]

----------------------------------------------------------------------------
(* The calls of main(), tx_aprs() and tx_rtty().                           *)

Startup  == <<Call("reset", ""), Call("part_info", ""), Call("power_up", ""),
              Call("setup", "OOK")>>
Blips    == <<Call("setup", "OOK"), Call("rtty", ""), Call("start_tx", "")>>
Fixed    == <<Call("stop_tx", ""), Call("setup", "2FSK")>>
Aprs(at) == geofence_aprs_frequency(at)
              \o <<Call("setup", "2GFSK"), Call("start_tx", "")>>
(* Mutant: the radio is tuned back before the frame's carrier ends.        *)
Regular_Early == <<Call("rtty", ""), Call("stop_tx", "")>>
Regular  == <<Call("stop_tx", ""), Call("rtty", "")>>
Rtty     == <<Call("setup", "2FSK"), Call("start_tx", "")>>
Stop     == <<Call("stop_tx", "")>>

(* Registers that no command has set yet.                                  *)
ResetRegs == [reg \in Common \cup Tuning \cup {"MOD_TYPE"} |->
                IF reg = "MOD_TYPE" THEN <<"none", "sync">> ELSE "reset"]

Init == /\ phase = "startup" /\ calls = Startup /\ todo = <<>>
        /\ fix \in Fixes
        /\ chip \in {"absent", "off"}
        /\ powered = FALSE /\ pending = <<>>
        /\ regs = ResetRegs /\ tx = FALSE
        /\ radio = PoweredUp

(* main() goes on to make the next calls, those of the last one made.      *)
Do(from, to, next) == /\ phase = from /\ phase' = to
                      /\ calls = <<>> /\ todo = <<>>
                      /\ calls' = next
                      /\ UNCHANGED <<todo, chipVars, radio>>

StartBlips   == Do("startup", "blips", Blips) /\ UNCHANGED fix
EndBlips     == Do("blips", "loop", Fixed) /\ fix' \in Fixes

(* A backlog frame goes out on the channel of the last current fix.        *)
TxBacklog    == Do("loop", "backlog", Aprs(fix)) /\ UNCHANGED fix
EndBacklog   == Do("backlog", "loop", Stop) /\ UNCHANGED fix

(* Every regular frame begins with a new fix, get_fix_and_measurements(),  *)
(* and is tuned for it.  Mutant: tuned first, for the old one.             *)
TxRegular_TunedFirst ==
  Do("loop", "aprs", Aprs(fix)) /\ fix' \in Fixes
TxRegular    == fix' \in Fixes /\ Do("loop", "aprs", Aprs(fix'))

(* The frame ends in APRS only, in RTTY, or in the switchover from RTTY to *)
(* APRS only, where tx_rtty() has nothing to send.                         *)
EndAprsOnly  == Do("aprs", "loop", Stop) /\ UNCHANGED fix
EndRegular   == Do("aprs", "regular", Regular) /\ UNCHANGED fix
TxRtty       == Do("regular", "rtty", Rtty) /\ UNCHANGED fix
Switchover   == Do("regular", "loop", <<>>) /\ UNCHANGED fix
EndRtty      == Do("rtty", "loop", Stop) /\ UNCHANGED fix

Main == \/ StartBlips \/ EndBlips \/ TxBacklog \/ EndBacklog
        \/ TxRegular \/ EndAprsOnly \/ EndRegular
        \/ TxRtty \/ Switchover \/ EndRtty

BeginCall == /\ todo = <<>> /\ calls # <<>>
             /\ todo' = Steps(Head(calls))
             /\ calls' = Tail(calls)
             /\ radio' = After(Head(calls), radio)
             /\ UNCHANGED <<phase, fix, chipVars>>

----------------------------------------------------------------------------
(* The steps of a call.                                                    *)

AtStep(cmd) == todo # <<>> /\ Head(todo).cmd = cmd
Advance == todo' = Tail(todo) /\ UNCHANGED <<calls, fix, radio>>

(* The turn of the loop of si4060_get_cts() that reads 0xFF, which a MISO  *)
(* line nobody drives reads as well; the other turns change nothing, the   *)
(* timeout is not counted.                                                 *)
GetCts == /\ AtStep("CTS") /\ chip \in {"ready", "absent"}
          /\ Advance
          /\ UNCHANGED <<phase, chipVars>>

(* A chip that is busy does not take a command.                            *)
Send == /\ todo # <<>>
        /\ Head(todo).cmd \in {"PART_INFO", "POWER_UP", "START_TX",
                               "CHANGE_STATE", "SET_PROPERTY"}
        /\ IF chip = "ready"
             THEN chip' = "busy" /\ pending' = <<Head(todo)>>
             ELSE UNCHANGED <<chip, pending>>
        /\ Advance
        /\ UNCHANGED <<phase, powered, regs, tx>>

si4060_shutdown == /\ AtStep("SHUTDOWN")
                   /\ chip' = IF chip = "absent" THEN "absent" ELSE "off"
                   /\ powered' = FALSE /\ pending' = <<>>
                   /\ regs' = ResetRegs /\ tx' = FALSE
                   /\ Advance
                   /\ UNCHANGED phase

si4060_wakeup == /\ AtStep("WAKEUP")
                 /\ chip' = IF chip = "absent" THEN "absent" ELSE "busy"
                 /\ Advance
                 /\ UNCHANGED <<phase, powered, pending, regs, tx>>

(* main.c:73-76: a PART_ID other than 0x4060, and the CPU stops.           *)
Accepted_Any == TRUE                   \* Mutant: the answer is not looked at
Accepted == chip # "absent"
Response == /\ AtStep("RESPONSE")
            /\ IF Accepted THEN Advance /\ UNCHANGED phase
               ELSE /\ phase' = "halted" /\ todo' = <<>> /\ calls' = <<>>
                    /\ UNCHANGED <<fix, radio>>
            /\ UNCHANGED chipVars

Driver == BeginCall \/ GetCts \/ Send \/ si4060_shutdown \/ si4060_wakeup \/ Response

----------------------------------------------------------------------------
(* The chip, and what ends the program.                                    *)

Pending(cmd) == pending # <<>> /\ pending[1].cmd = cmd

(* Before POWER_UP only PART_INFO does anything.                           *)
Execute == /\ chip = "busy" /\ chip' = "ready"
           /\ pending' = <<>>
           /\ powered' = (powered \/ Pending("POWER_UP"))
           /\ regs' = IF powered /\ Pending("SET_PROPERTY")
                        THEN [regs EXCEPT ![pending[1].reg] = pending[1].val]
                        ELSE regs
           /\ tx' = IF powered /\ Pending("START_TX") THEN TRUE
                    ELSE IF Pending("CHANGE_STATE") THEN FALSE ELSE tx
           /\ UNCHANGED <<phase, calls, todo, fix, radio>>

(* The fault si4060.c:107 warns of, with any command.                      *)
Lock == /\ chip = "busy" /\ chip' = "stuck"
        /\ UNCHANGED <<phase, calls, todo, fix, powered, pending, regs, tx, radio>>

Restart == /\ phase' = "startup" /\ calls' = Startup /\ todo' = <<>>
           /\ fix' \in Fixes
           /\ UNCHANGED <<chipVars, radio>>

(* A low supply ends the program anywhere; the chip runs on.               *)
Reset == Restart

(* The watchdog, where nothing serves it any more.                         *)
Bites_Held == FALSE                    \* Mutant: the watchdog is held
Bites == phase = "halted" \/ (AtStep("CTS") /\ chip = "stuck")
Watchdog == Bites /\ Restart

Next == Main \/ Driver \/ Execute \/ Lock \/ Reset \/ Watchdog

Spec == Init /\ [][Next]_vars
             /\ WF_vars(Driver) /\ WF_vars(Execute) /\ WF_vars(Watchdog)
----------------------------------------------------------------------------
(* Properties.                                                             *)

TunedTo(chan) == \A reg \in Tuning : regs[reg] = TuningOf(chan)[reg]

(* The chip's registers as Radio.tla has them.                             *)
View == [tx |-> tx, mod |-> regs["MOD_TYPE"][1], direct |-> regs["MOD_TYPE"][2],
         chan |-> IF \A reg \in Tuning : regs[reg] = "reset" THEN "none"
                  ELSE IF TunedTo("rtty") THEN "rtty"
                  ELSE IF \E chan \in AprsChannels : TunedTo(chan) THEN "aprs"
                  ELSE "mixed"]

(* No command is sent to a chip that has not finished the last one: it     *)
(* would be lost, and a register keep its old value (si4060.c:166-286,     *)
(* against the functions that do not wait, si4060.c:232).                  *)
WaitsForChip ==
  [][todo # <<>> /\ todo' = Tail(todo) /\ calls' = calls
       /\ chip \in {"off", "busy", "stuck"} =>
       Head(todo).cmd \in {"SHUTDOWN", "WAKEUP"}]_vars

(* Between calls, when the chip has caught up, its registers are what      *)
(* Radio.tla, the transmitter of Tracker.tla, says they are: a reset that  *)
(* comes between two commands leaves nothing behind, and a chip that is    *)
(* awake, powered up and set up again has lost nothing.                    *)
AgreesWithRadio ==
  todo = <<>> /\ chip = "ready" /\ calls # Startup => View = radio

(* The carrier is on air only with every register set up and those of the  *)
(* synthesizer tuned to one channel; while an APRS frame is sent, to that  *)
(* of the region the tracker is in, whether it was RTTY's before or that   *)
(* of another region in which the last frame was sent (geofence.c:13-57).  *)
OnAirTuned ==
  tx => /\ \A reg \in Common : regs[reg] = "set"
        /\ \E chan \in AprsChannels \cup {"rtty"} : TunedTo(chan)
        /\ phase \in {"aprs", "backlog"} /\ calls = <<>> /\ todo = <<>> =>
             TunedTo(AprsChannel(fix))

(* si4060.c:369: the PLL's registers "can't be modified while              *)
(* transmitting", and no call does.                                        *)
NotTunedOnAir == [][tx /\ tx' => \A reg \in Synth : regs'[reg] = regs[reg]]_vars

(* si4060.c:315: CTS cannot tell a missing chip, as the line reads 0xFF.   *)
(* The tracker never gets past its start-up without one.                   *)
NoFlightWithoutRadio == chip = "absent" => phase \in {"startup", "halted"}

(* Every call returns, unless the chip locks; then, and when the CPU has   *)
(* stopped, the watchdog ends it (main.c:62 "reset occurs if Si4060 does   *)
(* not respond or software locks up").                                     *)
CallsReturn ==
  todo # <<>> \/ phase = "halted" ~> todo = <<>> /\ phase # "halted"
=============================================================================
