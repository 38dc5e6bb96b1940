------------------------------- MODULE AprsTx -------------------------------
(***************************************************************************)
(* tx_aprs() of aprs.c against the CCR0 ISR of main.c.  The ISR runs 26400 *)
(* times a second, a sample, and raises a flag for every half wave of the  *)
(* tone and one for every bit; the loop of tx_aprs() toggles the data pin  *)
(* for the first and fetches the next bit for the second, which it looks   *)
(* at only when it has seen the first.  What the bits are is Ax25.tla.     *)
(*                                                                         *)
(* ISR and loop share aprs_tick, aprs_baud_tick and aprs_bit without a     *)
(* lock; the counters of the ISR are static and run on from frame to       *)
(* frame.  The loop may be slow, in get_next_bit() or because the CCR2 ISR *)
(* runs: lag is the most samples that fall into one pass of it.            *)
(***************************************************************************)
EXTENDS Integers

CONSTANTS
  APRS_MARK_TICKS, APRS_SPACE_TICKS, APRS_BAUD_TICKS,
  Lags,          \* the speeds of the loop to look at
  FrameBits      \* bits of a frame; bound of the model

MARK  == 0
SPACE == 1

ASSUME AprsTxAssumption ==
  /\ {APRS_MARK_TICKS, APRS_SPACE_TICKS, APRS_BAUD_TICKS, FrameBits} \cup Lags
       \subseteq Nat \ {0}
  /\ 1 < APRS_SPACE_TICKS /\ APRS_SPACE_TICKS < APRS_MARK_TICKS
  /\ APRS_MARK_TICKS + APRS_SPACE_TICKS <= APRS_BAUD_TICKS

VARIABLES
  lag, pc,
  aprs_nco_count, aprs_bit_count,            \* the static counters of the ISR
  aprs_tick, aprs_baud_tick, aprs_bit,       \* shared
  enabled,                                   \* CCIE of CCR0
  finished,
  budget,                                    \* samples left for this pass
  bits,                                      \* bits of this frame so far
  since                                      \* history: samples since the
                                             \* data pin was toggled
isrVars == <<aprs_nco_count, aprs_bit_count, aprs_tick, aprs_baud_tick>>
vars == <<lag, pc, isrVars, aprs_bit, enabled, finished, budget, bits, since>>

Init == /\ lag \in Lags
        /\ pc = "idle"
        /\ aprs_nco_count = 0 /\ aprs_bit_count = 0
        /\ aprs_tick = 0 /\ aprs_baud_tick = 0
        /\ aprs_bit = SPACE
        /\ enabled = FALSE
        /\ finished = FALSE
        /\ budget = 0 /\ bits = 0 /\ since = 0

----------------------------------------------------------------------------
(* The CCR0 ISR.                                                           *)

HalfWave_Whole(bit) ==                   \* Mutant: the whole wave
  2 * (IF bit = SPACE THEN APRS_SPACE_TICKS ELSE APRS_MARK_TICKS)
HalfWave(bit) == IF bit = SPACE THEN APRS_SPACE_TICKS ELSE APRS_MARK_TICKS

(* Mutant: equal, where the tone may change past it.                       *)
HalfWaveOver_Exactly == aprs_nco_count + 1 = HalfWave(aprs_bit)
HalfWaveOver == aprs_nco_count + 1 >= HalfWave(aprs_bit)

NextNcoCount_Mark ==                     \* Mutant: not reset for SPACE
  IF HalfWaveOver /\ aprs_bit = MARK THEN 0 ELSE aprs_nco_count + 1
NextNcoCount == IF HalfWaveOver THEN 0 ELSE aprs_nco_count + 1

BitOver == aprs_bit_count + 1 = APRS_BAUD_TICKS

InLoop == {"poll", "baud", "fetch", "check"}

(* In the loop an ISR costs the pass one of its samples.                   *)
TIMER0_A0_ISR ==
  /\ enabled
  /\ IF pc \in InLoop THEN budget > 0 /\ budget' = budget - 1
     ELSE UNCHANGED budget
  /\ aprs_nco_count' = NextNcoCount
  /\ aprs_tick' = IF HalfWaveOver THEN 1 ELSE aprs_tick
  /\ aprs_bit_count' = IF BitOver THEN 0 ELSE aprs_bit_count + 1
  /\ aprs_baud_tick' = IF BitOver THEN 1 ELSE aprs_baud_tick
  /\ since' = IF pc \in InLoop THEN since + 1 ELSE since
  /\ UNCHANGED <<lag, pc, aprs_bit, enabled, finished, bits>>

----------------------------------------------------------------------------
(* tx_aprs().                                                              *)

aprs_timer_enable_Not == UNCHANGED enabled    \* Mutant
aprs_timer_enable  == enabled' = TRUE
aprs_timer_disable == enabled' = FALSE

(* aprs_init(), the timer, the radio and the delay of 300000 cycles.       *)
Start == /\ pc = "idle"
         /\ pc' = "delay"
         /\ finished' = FALSE /\ bits' = 0
         /\ aprs_timer_enable
         /\ UNCHANGED <<lag, isrVars, aprs_bit, budget, since>>

(* Only the tone's flag is cleared; that of the bit clock is set by now.   *)
EnterLoop == /\ pc = "delay"
             /\ aprs_tick' = 0
             /\ pc' = "poll"
             /\ budget' = lag /\ since' = 0
             /\ UNCHANGED <<lag, aprs_nco_count, aprs_bit_count, aprs_baud_tick,
                            aprs_bit, enabled, finished, bits>>

(* Around the loop; it ends when get_next_bit() has set finished.          *)
Turn == IF finished
          THEN pc' = "stop" /\ UNCHANGED budget
          ELSE pc' = "poll" /\ budget' = lag

NoTick == /\ pc = "poll" /\ aprs_tick = 0
          /\ Turn
          /\ UNCHANGED <<lag, isrVars, aprs_bit, enabled, finished, bits, since>>

Toggle == /\ pc = "poll" /\ aprs_tick = 1
          /\ aprs_tick' = 0
          /\ since' = 0
          /\ pc' = "baud"
          /\ UNCHANGED <<lag, aprs_nco_count, aprs_bit_count, aprs_baud_tick,
                         aprs_bit, enabled, finished, budget, bits>>

NoBaudTick == /\ pc = "baud" /\ aprs_baud_tick = 0
              /\ pc' = "check"
              /\ UNCHANGED <<lag, isrVars, aprs_bit, enabled, finished, budget,
                             bits, since>>

(* The flag is cleared before the bit is fetched.                          *)
BaudTick == /\ pc = "baud" /\ aprs_baud_tick = 1
            /\ aprs_baud_tick' = 0
            /\ pc' = "fetch"
            /\ UNCHANGED <<lag, aprs_nco_count, aprs_bit_count, aprs_tick,
                           aprs_bit, enabled, finished, budget, bits, since>>

(* get_next_bit(), which sets finished with the last one.                  *)
FetchBit == /\ pc = "fetch"
            /\ aprs_bit' \in {MARK, SPACE}
            /\ bits' = bits + 1
            /\ finished' = (bits + 1 = FrameBits)
            /\ pc' = "check"
            /\ UNCHANGED <<lag, isrVars, enabled, budget, since>>

InTime == /\ pc = "check" /\ aprs_tick = 0
          /\ Turn
          /\ UNCHANGED <<lag, isrVars, aprs_bit, enabled, finished, bits, since>>

(* aprs.c:277 "tell us when we fail to meet the timing": an endless loop   *)
(* that serves the watchdog, so that no reset ends it.                     *)
Trap == /\ pc = "check" /\ aprs_tick = 1
        /\ pc' = "trap"
        /\ UNCHANGED <<lag, isrVars, aprs_bit, enabled, finished, budget, bits,
                       since>>

Stop == /\ pc = "stop"
        /\ aprs_timer_disable
        /\ pc' = "idle"
        /\ UNCHANGED <<lag, isrVars, aprs_bit, finished, budget, bits, since>>

TxAprs == \/ Start \/ EnterLoop \/ NoTick \/ Toggle \/ NoBaudTick \/ BaudTick
          \/ FetchBit \/ InTime \/ Trap \/ Stop

Next == TIMER0_A0_ISR \/ TxAprs

Spec == Init /\ [][Next]_vars /\ WF_vars(TxAprs) /\ WF_vars(TIMER0_A0_ISR)
----------------------------------------------------------------------------
(* Properties, of a loop that is fast enough.                              *)

FastEnough == lag <= APRS_SPACE_TICKS

(* Types; the bit clock, which is compared for equality, never passes its  *)
(* period, and the tone counter never runs away over a change of tone.     *)
TypeOK == /\ lag \in Lags
          /\ pc \in {"idle", "delay", "trap", "stop"} \cup InLoop
          /\ aprs_nco_count \in 0 .. APRS_MARK_TICKS - 1
          /\ aprs_bit_count \in 0 .. APRS_BAUD_TICKS - 1
          /\ {aprs_tick, aprs_baud_tick} \subseteq {0, 1}
          /\ aprs_bit \in {MARK, SPACE}
          /\ enabled \in BOOLEAN /\ finished \in BOOLEAN
          /\ budget \in 0 .. lag
          /\ bits \in 0 .. FrameBits
          /\ since \in Nat

(* The loop never falls into its trap, nor leaves a flag set for so long   *)
(* that the ISR sets it again: no half wave and no bit is lost, but those  *)
(* of the bit clock before the first bit.                                  *)
NoTickLost ==
  [][FastEnough =>
       /\ pc' # "trap"
       /\ (pc \in InLoop /\ HalfWaveOver /\ aprs_nco_count' = 0 => aprs_tick = 0)
       /\ (pc \in InLoop /\ bits > 0 /\ aprs_bit_count' < aprs_bit_count
             => aprs_baud_tick = 0)]_vars

(* Bits do not drift: each but the first is fetched before the bit clock   *)
(* has gone on by more than a half wave and a pass, although the loop      *)
(* looks at the bit clock only when it handles a half wave, and although   *)
(* the half waves of neither tone divide a bit evenly.                     *)
BitsOnTime ==
  FastEnough /\ pc \in InLoop /\ bits > 0 /\ aprs_baud_tick = 1 =>
    aprs_bit_count <= APRS_MARK_TICKS + lag

(* Every half wave after the first lasts as long as that of the tone       *)
(* chosen at its start, give or take a pass: no odd one where the tone     *)
(* changes, as the choice is made within a pass of the half wave's start   *)
(* (aprs.c:265-275).                                                       *)
HalfWavesAreExact ==
  [][FastEnough /\ bits > 0 /\ pc = "poll" /\ pc' = "baud" =>
       LET ticks == IF aprs_bit = SPACE THEN APRS_SPACE_TICKS
                    ELSE APRS_MARK_TICKS
       IN  since \in ticks - lag .. ticks + lag]_vars

(* A frame ends, unless the loop is too slow.                              *)
FrameEnds == pc = "delay" ~> pc \in {"idle", "trap"}
=============================================================================
