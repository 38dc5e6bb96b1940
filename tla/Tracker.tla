------------------------------ MODULE Tracker ------------------------------
(***************************************************************************)
(* The firmware as main() of main.c runs it: start-up, RF blips until the  *)
(* GPS has a fix, then the endless telemetry loop that sends APRS frames   *)
(* (with the current fix, and with backlog fixes in between) and starts    *)
(* RTTY frames, against the CCR2 timer ISR that counts seconds and sets    *)
(* the RTTY tick, and against resets.  tx_rtty() is Rtty.tla, the backlog  *)
(* is Backlog.tla and the transmitter is Radio.tla.                        *)
(*                                                                         *)
(* pc is where main() stands; it stops in the middle of a pass only at the *)
(* calls that last (the GPS exchange, tx_aprs()) and where it reads what   *)
(* the ISR writes.                                                         *)
(***************************************************************************)
EXTENDS Integers, Radio

CONSTANTS
  Builds,               \* which of the builds of main.h:24-25 to run
  TLM_APRS_INTERVAL, TLM_RTTY_INTERVAL, TLM_BACKLOG_OFFSET,
  BLIP_FIX_INTERVAL, TLM_HZ, BLIP_FACTOR,
  NUM_IDLE_BITS, TX_BUF_MAX_LENGTH,
  BACKLOG_MAX_ENTRIES, BACKLOG_TX_INCREMENT,
  GpsTicks, AprsTicks,  \* the most ticks a GPS exchange and tx_aprs() last
  Fixes, Remains,       \* the fixes the GPS delivers, and what FRAM may hold
  MaxSeconds,           \* bound: seconds stops counting there
  MaxResets             \* bound: resets of a behaviour

AllBuilds == {"APRS", "RTTY", "RTTY_ONLY"}
FrameTicks == NUM_IDLE_BITS + 10 * TX_BUF_MAX_LENGTH

ASSUME TrackerAssumption ==
  /\ Builds \subseteq AllBuilds
  /\ {TLM_APRS_INTERVAL, TLM_RTTY_INTERVAL, TLM_BACKLOG_OFFSET,
      BLIP_FIX_INTERVAL, TLM_HZ, BLIP_FACTOR, GpsTicks, AprsTicks,
      NUM_IDLE_BITS, TX_BUF_MAX_LENGTH, BACKLOG_MAX_ENTRIES}
       \subseteq Nat \ {0}
  /\ {BACKLOG_TX_INCREMENT, MaxSeconds, MaxResets} \subseteq Nat
  /\ MaxSeconds > TLM_APRS_INTERVAL + 1 /\ MaxSeconds > TLM_RTTY_INTERVAL + 1
  /\ \A fix \in Fixes \cup Remains : fix.type \in Nat /\ fix.hour \in Nat

(* The timing the constants of main.h are chosen for: an APRS frame and an *)
(* RTTY frame after it, with a tick of delay each, end before              *)
(* TLM_BACKLOG_OFFSET (about 1 s and 8 s of 15 s), and that well before    *)
(* the next regular transmission.                                          *)
ASSUME TimingAssumption ==
  /\ AprsTicks + FrameTicks + 2 <= TLM_BACKLOG_OFFSET * TLM_HZ
  /\ TLM_BACKLOG_OFFSET < TLM_APRS_INTERVAL
  /\ TLM_BACKLOG_OFFSET < TLM_RTTY_INTERVAL

VARIABLES
  build, pc,
  seconds, sec_overflows, tlm_tick,             \* kept by the ISR
  budget,                                       \* ticks before main() goes on
  current_fix, backlog_transmitted, tlm_state,
  count,                                        \* blip counter of tx_blips()
  aprs_buf, tx_buf,                             \* what the two buffers hold
  backlog, newest_fix_id, last_fix_id, backlog_fix, resets,
  tx_buf_rdy, tx_buf_length, tx_state, char_state, i, data, tx_buf_index,
  si_data, radio

timeVars    == <<seconds, sec_overflows, tlm_tick>>
bufVars     == <<aprs_buf, tx_buf>>
ringVars    == <<backlog, newest_fix_id, last_fix_id, backlog_fix, resets>>
machineVars == <<tx_state, char_state, i, data, tx_buf_index>>
rttyVars    == <<tx_buf_rdy, tx_buf_length, machineVars>>
mainVars    == <<current_fix, backlog_transmitted, tlm_state>>
vars == <<build, pc, timeVars, budget, mainVars, count, bufVars, ringVars,
          rttyVars, si_data, radio>>

Ring == INSTANCE Backlog

(* The characters of tx_buf matter to Rtty.tla only; here they are blanks, *)
(* and tx_buf says whose telemetry they are.                               *)
Blank == [b \in 1 .. 7 |-> 0]
Rtty  == INSTANCE Rtty WITH
           tx_buf  <- [k \in 0 .. TX_BUF_MAX_LENGTH - 1 |-> Blank],
           Buffers <- {[k \in 0 .. TX_BUF_MAX_LENGTH - 1 |-> Blank]}

(* What a buffer holds: the template it is initialised with, the telemetry *)
(* of current_fix, that of an earlier current fix, or a backlog fix.       *)
Contents == {"template", "current", "earlier", "backlog"}

Aged(contents) == IF contents = "current" THEN "earlier" ELSE contents

NoFix == [type |-> 0, num_svs |-> 0, hour |-> 0, alt |-> 0]

----------------------------------------------------------------------------
(* Reset and start-up.                                                     *)

(* The values every RAM variable starts with.  The radio keeps             *)
(* transmitting until si4060_reset().                                      *)
RamCleared ==
  /\ pc' = "boot"
  /\ seconds' = 0 /\ sec_overflows' = 0 /\ tlm_tick' = 0
  /\ budget' = 1
  /\ current_fix' = NoFix
  /\ backlog_transmitted' = FALSE
  /\ tlm_state' = "TX_RTTY"
  /\ count' = 0
  /\ aprs_buf' = "template" /\ tx_buf' = "template"
  /\ tx_buf_rdy' = FALSE /\ tx_buf_length' = 0
  /\ tx_state' = 0 /\ char_state' = "IDLE" /\ i' = 0
  /\ data' = Blank /\ tx_buf_index' = 0

Init == /\ build \in Builds
        /\ pc = "boot"
        /\ seconds = 0 /\ sec_overflows = 0 /\ tlm_tick = 0
        /\ budget = 1
        /\ current_fix = NoFix
        /\ backlog_transmitted = FALSE
        /\ tlm_state = "TX_RTTY"
        /\ count = 0
        /\ aprs_buf = "template" /\ tx_buf = "template"
        /\ tx_buf_rdy = FALSE /\ tx_buf_length = 0
        /\ tx_state = 0 /\ char_state = "IDLE" /\ i = 0
        /\ data = Blank /\ tx_buf_index = 0
        /\ Ring!Init
        /\ si_data = 0
        /\ radio = PoweredUp

(* Power failure or watchdog, at any moment.                               *)
Reset == /\ Ring!Reset
         /\ RamCleared
         /\ UNCHANGED <<build, si_data, radio>>

(* hw_init() to the first si4060_setup().  A radio that fails its check,   *)
(* main.c:74, spins until the watchdog resets: a Reset from here.          *)
StartUp == /\ pc = "boot"
           /\ pc' = "configure"
           /\ radio' = Setup(PoweredUp, "OOK")
           /\ UNCHANGED <<build, timeVars, budget, mainVars, count, bufVars,
                          ringVars, rttyVars, si_data>>

(* The six GPS commands, each repeated until it is acknowledged, and then  *)
(* the radio set up for blips.                                             *)
Configured == /\ pc = "configure"
              /\ pc' = "blips"
              /\ radio' = StartTx(Freq2mRtty(Setup(radio, "OOK")))
              /\ budget' = 1
              /\ UNCHANGED <<build, timeVars, mainVars, count, bufVars,
                             ringVars, rttyVars, si_data>>

----------------------------------------------------------------------------
(* Blips until there is a fix.                                             *)

Waiting == current_fix.num_svs < 5 /\ current_fix.type < 3

BlipPoll == /\ pc = "blips" /\ Waiting
            /\ seconds > BLIP_FIX_INTERVAL
            /\ seconds' = 0
            /\ pc' = "blipFix"
            /\ budget' = GpsTicks
            /\ UNCHANGED <<build, sec_overflows, tlm_tick, mainVars, count,
                           bufVars, ringVars, rttyVars, si_data, radio>>

(* gps_get_fix() returns; tx_blips(1) resets the blip counter.             *)
BlipFix == /\ pc = "blipFix"
           /\ current_fix' \in Fixes
           /\ count' = 0
           /\ pc' = "blips"
           /\ budget' = 1
           /\ UNCHANGED <<build, timeVars, backlog_transmitted, tlm_state,
                          bufVars, ringVars, rttyVars, si_data, radio>>

(* The counter stays at BLIP_FACTOR once the blip has ended.               *)
NextCount_NoStay(c) == c + 1    \* Mutant: count-- is forgotten
NextCount(c) == IF c + 1 = 1 + BLIP_FACTOR THEN c ELSE c + 1

(* tx_blips(0): a blip from the first tick to the sixth.                   *)
Blip == /\ pc = "blips" /\ Waiting
        /\ ~(seconds > BLIP_FIX_INTERVAL)
        /\ budget' = 1
        /\ tlm_tick' = 0
        /\ IF tlm_tick = 1
             THEN /\ count' = NextCount(count)
                  /\ si_data' = IF count + 1 = 1 THEN 1
                                ELSE IF count + 1 = 1 + BLIP_FACTOR THEN 0
                                ELSE si_data
             ELSE UNCHANGED <<count, si_data>>
        /\ UNCHANGED <<build, pc, seconds, sec_overflows, mainVars, bufVars,
                       ringVars, rttyVars, radio>>

(* The fix is there: into the telemetry loop, with a transmission due once *)
(* the GPS has acknowledged its power save mode.                           *)
EnterOperation == /\ pc = "blips" /\ ~Waiting
                  /\ radio' = Setup(StopTx(radio), "2FSK")
                  /\ seconds' = TLM_APRS_INTERVAL + 1
                  /\ pc' = "loop"
                  /\ budget' = 1
                  /\ UNCHANGED <<build, sec_overflows, tlm_tick, mainVars,
                                 count, bufVars, ringVars, rttyVars, si_data>>

----------------------------------------------------------------------------
(* The telemetry loop.  One pass: backlog, regular transmission, tx_rtty().*)

(* geofence_aprs_frequency() and the start of tx_aprs().                   *)
StartAprs == /\ radio' = StartTx(Setup(FreqAprs(radio), "2GFSK"))
             /\ budget' = AprsTicks

BacklogDue_AtOnce == ~backlog_transmitted   \* Mutant: the offset is dropped
BacklogDue == seconds > TLM_BACKLOG_OFFSET /\ ~backlog_transmitted

SkipBacklog == /\ pc = "loop" /\ ~BacklogDue
               /\ pc' = "regular"
               /\ UNCHANGED <<build, timeVars, budget, mainVars, count, bufVars,
                              ringVars, rttyVars, si_data, radio>>

NoBacklogFix == /\ pc = "loop" /\ BacklogDue
                /\ Ring!GetNextFix /\ backlog_fix' = Ring!NULL
                /\ backlog_transmitted' = TRUE
                /\ pc' = "regular"
                /\ UNCHANGED <<build, timeVars, budget, current_fix, tlm_state,
                               count, bufVars, rttyVars, si_data, radio>>

SendBacklog == /\ pc = "loop" /\ BacklogDue
               /\ Ring!GetNextFix /\ backlog_fix' # Ring!NULL
               /\ aprs_buf' = "backlog"
               /\ StartAprs
               /\ pc' = "sendBacklog"
               /\ UNCHANGED <<build, timeVars, mainVars, count, tx_buf,
                              rttyVars, si_data>>

(* tx_aprs() ends; it leaves SI_DATA where its last half wave did.         *)
BacklogSent == /\ pc = "sendBacklog"
               /\ radio' = StopTx(radio)
               /\ si_data' \in {0, 1}
               /\ backlog_transmitted' = TRUE
               /\ pc' = "regular"
               /\ budget' = 1
               /\ UNCHANGED <<build, timeVars, current_fix, tlm_state, count,
                              bufVars, ringVars, rttyVars>>

(* The branch of the loop this pass is in sends RTTY.                      *)
InRtty == build # "APRS" /\ tlm_state = "TX_RTTY"

(* Mutant: the test of tx_buf_rdy is inverted.                             *)
RegularDue_WhenReady == IF InRtty THEN tx_buf_rdy /\ seconds > TLM_RTTY_INTERVAL
                        ELSE seconds > TLM_APRS_INTERVAL
RegularDue == IF InRtty THEN ~tx_buf_rdy /\ seconds > TLM_RTTY_INTERVAL
              ELSE seconds > TLM_APRS_INTERVAL

SkipRegular == /\ pc = "regular" /\ ~RegularDue
               /\ pc' = IF InRtty THEN "rtty" ELSE "loop"
               /\ budget' = IF InRtty THEN budget ELSE 1
               /\ UNCHANGED <<build, timeVars, mainVars, count, bufVars,
                              ringVars, rttyVars, si_data, radio>>

BeginRegular == /\ pc = "regular" /\ RegularDue
                /\ pc' = "getFix"
                /\ budget' = GpsTicks
                /\ UNCHANGED <<build, timeVars, mainVars, count, bufVars,
                               ringVars, rttyVars, si_data, radio>>

(* The next interval is counted from the fix.                              *)
RestartInterval_Forgotten == UNCHANGED seconds   \* Mutant
RestartInterval == seconds' = 0

(* Only a 3D fix is sent.                                                  *)
Usable_TypeFour(fix) == fix.type > 3             \* Mutant: off by one
Usable(fix) == fix.type > 2

(* get_fix_and_measurements() returns; the buffers are prepared from a 3D  *)
(* fix, and the APRS transmission starts with whatever aprs_buf holds.     *)
SendRegular ==
  \E fix \in Fixes :
    /\ pc = "getFix"
    /\ current_fix' = fix
    /\ Ring!AddFix(fix)
    /\ RestartInterval
    /\ aprs_buf' = IF Usable(fix) THEN "current" ELSE Aged(aprs_buf)
    /\ IF Usable(fix) /\ InRtty
         THEN /\ tx_buf' = "current"
              /\ tx_buf_length' = TX_BUF_MAX_LENGTH
              /\ tx_buf_rdy' = TRUE
         ELSE /\ tx_buf' = Aged(tx_buf)
              /\ UNCHANGED <<tx_buf_length, tx_buf_rdy>>
    /\ StartAprs
    /\ pc' = "sendRegular"
    /\ UNCHANGED <<build, sec_overflows, tlm_tick, backlog_transmitted,
                   tlm_state, count, machineVars, si_data>>

(* geofence_slow_tlm_altitude(): RTTY below 4 km.                          *)
SlowTlm == ~(current_fix.alt > 4000)

(* A backlog frame may follow in the interval that has begun.              *)
RearmBacklog_Forgotten == UNCHANGED backlog_transmitted   \* Mutant
RearmBacklog == backlog_transmitted' = FALSE

(* tx_aprs() ends; the RTTY branch retunes and starts the RTTY frame, and  *)
(* the build with TLM_RTTY_ONLY changes between RTTY and APRS by altitude. *)
RegularSent ==
  /\ pc = "sendRegular"
  /\ si_data' \in {0, 1}
  /\ radio' = IF InRtty THEN Freq2mRtty(StopTx(radio)) ELSE StopTx(radio)
  /\ tx_buf_rdy' = IF InRtty THEN build = "RTTY" \/ SlowTlm ELSE tx_buf_rdy
  /\ tlm_state' = IF build = "RTTY_ONLY"
                    THEN IF SlowTlm THEN "TX_RTTY" ELSE "TX_APRS"
                    ELSE tlm_state
  /\ RearmBacklog
  /\ pc' = IF InRtty THEN "rtty" ELSE "loop"
  /\ budget' = 1
  /\ UNCHANGED <<build, timeVars, current_fix, count, bufVars, ringVars,
                 tx_buf_length, machineVars>>

(* tx_rtty(), and back to the top of the loop.                             *)
CallRtty == /\ pc = "rtty"
            /\ Rtty!TxRtty
            /\ pc' = "loop"
            /\ budget' = 1
            /\ UNCHANGED <<build, seconds, sec_overflows, mainVars, count,
                           bufVars, ringVars>>

----------------------------------------------------------------------------
(* The CCR2 ISR, every second call of it: one tick of 1 / TLM_HZ seconds.  *)
(* It interrupts main() anywhere, but the CPU is fast: a pass without a    *)
(* call that lasts takes less than a tick, so that no more than one tick   *)
(* falls into it; GpsTicks and AprsTicks bound the calls, and nothing the  *)
(* start-up.                                                               *)
Tick == /\ IF pc \in {"boot", "configure"} THEN UNCHANGED budget
           ELSE budget > 0 /\ budget' = budget - 1
        /\ tlm_tick' = 1
        /\ IF sec_overflows + 1 >= TLM_HZ
             THEN /\ sec_overflows' = 0
                  /\ seconds' = IF seconds < MaxSeconds THEN seconds + 1
                                ELSE seconds
             ELSE /\ sec_overflows' = sec_overflows + 1
                  /\ UNCHANGED seconds
        /\ UNCHANGED <<build, pc, mainVars, count, bufVars, ringVars, rttyVars,
                       si_data, radio>>

Main == \/ StartUp \/ Configured
        \/ BlipPoll \/ BlipFix \/ Blip \/ EnterOperation
        \/ SkipBacklog \/ NoBacklogFix \/ SendBacklog \/ BacklogSent
        \/ SkipRegular \/ BeginRegular \/ SendRegular \/ RegularSent
        \/ CallRtty

Next == Main \/ Tick \/ Reset

(* The program runs on and the timer keeps running; GPS and radio answer.  *)
Spec == Init /\ [][Next]_vars /\ WF_vars(Main) /\ WF_vars(Tick)
----------------------------------------------------------------------------
(* Properties.                                                             *)

Starting  == {"boot", "configure", "blips", "blipFix"}
Sending   == {"sendBacklog", "sendRegular"}
Operating == {"loop", "regular", "getFix", "rtty"} \cup Sending

(* The values the shared variables may take; the index of tx_rtty() and    *)
(* those of the backlog stay inside their arrays.                          *)
TypeOK == /\ build \in Builds
          /\ pc \in Starting \cup Operating
          /\ seconds \in 0 .. MaxSeconds
          /\ sec_overflows \in 0 .. TLM_HZ - 1
          /\ tlm_tick \in {0, 1}
          /\ budget \in Nat
          /\ current_fix \in Fixes \cup {NoFix}
          /\ backlog_transmitted \in BOOLEAN
          /\ tlm_state \in {"TX_RTTY", "TX_APRS"}
          /\ count \in 0 .. BLIP_FACTOR
          /\ aprs_buf \in Contents /\ tx_buf \in Contents \ {"backlog"}
          /\ Ring!TypeOK
          /\ tx_buf_rdy \in BOOLEAN
          /\ tx_buf_length \in {0, TX_BUF_MAX_LENGTH}
          /\ tx_state \in {0, 1}
          /\ char_state \in Rtty!CharStates
          /\ i \in 0 .. NUM_IDLE_BITS + 7
          /\ data = Blank
          /\ tx_buf_index \in 0 .. TX_BUF_MAX_LENGTH
          /\ si_data \in {0, 1}
          /\ radio \in Radios

(* One transmission at a time, each on its own channel: an APRS frame is   *)
(* never sent into an RTTY frame, which stays on the RTTY frequency until  *)
(* its last bit, and between transmissions the transmitter sleeps.  Only   *)
(* time keeps the frames apart (main.h:18-19), no check in the code does.  *)
OneTransmission ==
  /\ tx_state = 1 =>
       /\ pc \notin Sending
       /\ radio.tx /\ radio.chan = "rtty" /\ radio.mod = "2FSK"
  /\ pc \in Sending => radio.tx /\ radio.chan = "aprs" /\ radio.mod = "2GFSK"
  /\ pc \in Operating \ Sending => (radio.tx <=> tx_state = 1)

(* While RTTY sends or a regular APRS frame goes out, its buffer holds the *)
(* telemetry of the current fix whenever that is a 3D fix, across changes  *)
(* of mode and backlog frames (main.c:153-156, 192-195).                   *)
TelemetryIsCurrent ==
  current_fix.type > 2 =>
    /\ tx_state = 1 => tx_buf = "current"
    /\ pc = "sendRegular" => aprs_buf = "current"

(* A regular transmission starts on time, although in the RTTY branch it   *)
(* has to wait for the RTTY frame: the loop never finds seconds past the   *)
(* interval by more than a backlog frame and one pass take.                *)
LongestInterval == IF TLM_APRS_INTERVAL > TLM_RTTY_INTERVAL
                     THEN TLM_APRS_INTERVAL ELSE TLM_RTTY_INTERVAL

CycleOnTime ==
  pc \in {"loop", "regular", "rtty"} =>
    seconds <= LongestInterval + 1 + (AprsTicks + TLM_HZ + 1) \div TLM_HZ

(* main.c hands a buffer to tx_rtty() only when the last frame has been    *)
(* sent and its carrier ended, and leaves it alone until then; otherwise   *)
(* tx_rtty() would go on with the old tx_buf_index (rtty.c:36-41), or mix  *)
(* two frames.  Rtty.tla takes this as given.                              *)
HandsOverBetweenFrames ==
  [][pc' # "boot" =>
       /\ ~tx_buf_rdy /\ tx_buf_rdy' => tx_state = 0 /\ char_state = "IDLE" /\ i = 0
       /\ tx_buf' = "current" /\ tx_buf # "current" => tx_state = 0]_vars

(* In operation, regular transmissions never cease, short of a reset.      *)
KeepsTransmitting == pc = "loop" ~> pc \in {"sendRegular", "boot"}

(* Every 3D fix in the backlog is sent in its turn, unless it is replaced  *)
(* first or a reset sets the turn back.                                    *)
BacklogIsSent ==
  \A s \in Ring!Slots, fix \in Fixes :
    (pc = "loop" /\ backlog[s] = fix /\ fix.type > 2)
      ~> \/ pc = "sendBacklog" /\ backlog_fix = fix
         \/ backlog[s] # fix
         \/ pc = "boot"

----------------------------------------------------------------------------
(* What the comments of main.c say and the code does not do.               *)

(* main.c:102 "set it to OOK, for transmission of blips".                  *)
BlipsAreOok == pc \in {"blips", "blipFix"} => radio.mod = "OOK"

(* main.c:193 "if no current fix is available, the old fix is transmitted  *)
(* again": the old current fix, not a fix of the backlog.                  *)
OldFixAgain ==
  pc = "sendRegular" /\ current_fix.type <= 2 => aprs_buf # "backlog"
=============================================================================
