--------------------------- MODULE AprsTx_proofs ----------------------------
(***************************************************************************)
(* The timing of tx_aprs() for any lengths of the half waves and of a bit, *)
(* and any loop whose pass is no longer than the shortest half wave.       *)
(***************************************************************************)
EXTENDS AprsTx, TLAPS

Handling == {"baud", "fetch", "check"}
H == HalfWave(aprs_bit)

Typed == /\ lag \in Nat /\ aprs_nco_count \in Nat /\ budget \in Nat
         /\ bits \in Nat /\ since \in Nat
         /\ aprs_bit_count \in Nat /\ aprs_bit_count < APRS_BAUD_TICKS
         /\ aprs_tick \in {0, 1} /\ aprs_baud_tick \in {0, 1}
         /\ aprs_bit \in {MARK, SPACE}
         /\ pc = "delay" => bits = 0
         /\ pc \in InLoop => budget <= lag

(* The tone counter stays inside its half wave over a change of tone.      *)
Inside == aprs_nco_count < H

(* The trap is out of reach: from the tick of a half wave to the end of    *)
(* the pass that handles it the counter and what is left of the pass are   *)
(* less than a pass together.                                              *)
Prompt == /\ pc # "trap"
          /\ pc \in Handling => aprs_tick = 0
          /\ (pc \in Handling \/ (pc = "poll" /\ aprs_tick = 1)) =>
               aprs_nco_count + budget < lag

(* A bit that is due waits for the end of a half wave begun before it.     *)
Due == pc \in InLoop /\ aprs_baud_tick = 1 /\ (bits > 0 \/ pc = "fetch") =>
         /\ aprs_tick = 1 \/ pc = "baud" =>
              aprs_bit_count <= APRS_MARK_TICKS + aprs_nco_count
         /\ aprs_tick = 0 /\ pc # "baud" => aprs_bit_count <= aprs_nco_count

(* The last toggle was less than a pass after the start of the half wave.  *)
Since == pc \in InLoop /\ (bits > 0 \/ pc \in {"baud", "fetch"}) =>
           /\ aprs_tick = 0 => since <= aprs_nco_count /\ aprs_nco_count < since + lag
           /\ aprs_tick = 1 => /\ since <= H + aprs_nco_count
                               /\ H + aprs_nco_count < since + lag

Timing == Inside /\ Prompt /\ Due /\ Since
AprsInv == Typed /\ (FastEnough => Timing)

----------------------------------------------------------------------------
LEMMA Ticks ==
  /\ APRS_MARK_TICKS \in Nat /\ APRS_SPACE_TICKS \in Nat /\ APRS_BAUD_TICKS \in Nat
  /\ FrameBits \in Nat /\ Lags \subseteq Nat \ {0}
  /\ 1 < APRS_SPACE_TICKS /\ APRS_SPACE_TICKS < APRS_MARK_TICKS
  /\ APRS_MARK_TICKS + APRS_SPACE_TICKS <= APRS_BAUD_TICKS
  BY AprsTxAssumption

LEMMA HalfWaves ==
  ASSUME NEW bit \in {MARK, SPACE}
  PROVE  /\ HalfWave(bit) \in Nat
         /\ APRS_SPACE_TICKS <= HalfWave(bit) /\ HalfWave(bit) <= APRS_MARK_TICKS
  BY Ticks DEF HalfWave, MARK, SPACE

LEMMA AprsInvInit == Init => AprsInv
<1> SUFFICES ASSUME Init PROVE AprsInv
  OBVIOUS
<1>1. Typed
  BY Ticks DEF Init, Typed, MARK, SPACE
<1>2. Timing
  BY Ticks DEF Init, Timing, Inside, Prompt, Due, Since, Handling, InLoop, H, HalfWave,
       MARK, SPACE
<1>3. QED
  BY <1>1, <1>2 DEF AprsInv

(* A sample inside a pass that handles a half wave does not end the next.  *)
LEMMA NoneOver ==
  ASSUME Typed, FastEnough, Prompt, TIMER0_A0_ISR,
         pc \in Handling \/ (pc = "poll" /\ aprs_tick = 1)
  PROVE  ~HalfWaveOver
<1>1. budget > 0 /\ aprs_nco_count + budget < lag
  BY DEF TIMER0_A0_ISR, Prompt, InLoop, Handling
<1>2. lag <= H
  BY HalfWaves, Ticks DEF Typed, FastEnough, H
<1>3. QED
  BY <1>1, <1>2, HalfWaves DEF Typed, HalfWaveOver, H

LEMMA SampleKeepsInv == AprsInv /\ TIMER0_A0_ISR => AprsInv'
<1> SUFFICES ASSUME AprsInv, TIMER0_A0_ISR PROVE AprsInv'
  OBVIOUS
<1> USE DEF InLoop
<1>1. Typed
  BY DEF AprsInv
<1>2. /\ lag' = lag /\ pc' = pc /\ aprs_bit' = aprs_bit /\ bits' = bits
      /\ aprs_nco_count' = IF HalfWaveOver THEN 0 ELSE aprs_nco_count + 1
      /\ aprs_tick' = IF HalfWaveOver THEN 1 ELSE aprs_tick
      /\ aprs_bit_count' = IF BitOver THEN 0 ELSE aprs_bit_count + 1
      /\ aprs_baud_tick' = IF BitOver THEN 1 ELSE aprs_baud_tick
  BY DEF TIMER0_A0_ISR, NextNcoCount
<1>3. pc \in InLoop => budget > 0 /\ budget' = budget - 1 /\ since' = since + 1
  BY DEF TIMER0_A0_ISR
<1>4. pc \notin InLoop => budget' = budget /\ since' = since
  BY DEF TIMER0_A0_ISR
<1>5. H' = H /\ H \in Nat /\ APRS_SPACE_TICKS <= H /\ H <= APRS_MARK_TICKS
  BY <1>1, <1>2, HalfWaves DEF H, Typed
<1>6. HalfWaveOver <=> aprs_nco_count + 1 >= H
  BY DEF HalfWaveOver, H
<1>7. Typed'
  <2>1. aprs_nco_count' \in Nat /\ budget' \in Nat /\ since' \in Nat
    BY <1>1, <1>2, <1>3, <1>4 DEF Typed
  <2>2. aprs_bit_count' \in Nat /\ aprs_bit_count' < APRS_BAUD_TICKS
    BY <1>1, <1>2, Ticks DEF Typed, BitOver
  <2>3. pc \in InLoop => budget' <= lag
    BY <1>1, <1>3 DEF Typed
  <2>4. QED
    BY <1>1, <1>2, <2>1, <2>2, <2>3 DEF Typed
<1>8. ASSUME FastEnough' PROVE Timing'
  <2>1. FastEnough /\ Inside /\ Prompt /\ Due /\ Since
    BY <1>2, <1>8 DEF FastEnough, AprsInv, Timing
  <2>2. pc \in Handling \/ (pc = "poll" /\ aprs_tick = 1) => ~HalfWaveOver
    BY <1>1, <2>1, NoneOver
  <2>3. Inside'
    BY <1>1, <1>2, <1>5, <1>6, Ticks DEF Inside, Typed
  <2>4. Prompt'
    <3>1. pc' # "trap" /\ (pc \in Handling => aprs_tick' = 0)
      BY <1>2, <2>1, <2>2 DEF Prompt
    <3>2. CASE HalfWaveOver
      <4>1. pc \notin Handling /\ aprs_nco_count' = 0
        BY <1>2, <2>2, <3>2
      <4>2. pc = "poll" => budget' < lag
        BY <1>1, <1>3, <2>1 DEF Typed
      <4>3. /\ lag' = lag /\ pc' = pc
            /\ lag \in Nat /\ budget' \in Nat /\ aprs_nco_count' \in Nat
        BY <1>1, <1>2, <1>7 DEF Typed
      <4>4. pc = "poll" => aprs_nco_count' + budget' < lag'
        <5>1. aprs_nco_count' = 0
          BY <4>1
        <5>2. ASSUME NEW n \in Nat, NEW m \in Nat, n = 0 PROVE n + m = m
          BY <5>2
        <5>3. QED
          BY <4>2, <4>3, <5>1, <5>2
      <4>5. QED
        BY <3>1, <4>1, <4>3, <4>4 DEF Prompt
    <3>3. CASE ~HalfWaveOver
      <4>1. aprs_nco_count' = aprs_nco_count + 1 /\ aprs_tick' = aprs_tick
        BY <1>2, <3>3
      <4>2. pc \in InLoop => aprs_nco_count' + budget' = aprs_nco_count + budget
        BY <1>1, <1>3, <4>1 DEF Typed
      <4>3. QED
        BY <1>2, <2>1, <3>1, <4>1, <4>2 DEF Prompt, Handling
    <3>4. QED
      BY <3>2, <3>3
  <2>5. Due'
    <3>1. aprs_nco_count + 1 <= APRS_MARK_TICKS
      BY <1>1, <1>5, <2>1, Ticks DEF Inside, Typed
    <3>2. CASE BitOver
      BY <1>1, <1>2, <3>2, Ticks DEF Due, Typed
    <3>3. CASE ~BitOver
      BY <1>1, <1>2, <2>1, <2>2, <3>1, <3>3, Ticks DEF Due, Typed, Handling
    <3>4. QED
      BY <3>2, <3>3
  <2>6. Since'
    BY <1>1, <1>2, <1>3, <1>5, <1>6, <2>1, <2>2 DEF Since, Inside, Typed, Handling
  <2>7. QED
    BY <2>3, <2>4, <2>5, <2>6 DEF Timing
<1>9. QED
  BY <1>7, <1>8 DEF AprsInv

----------------------------------------------------------------------------
(* The steps of the loop.                                                  *)

LEMMA LoopKeepsInv ==
  ASSUME AprsInv, TxAprs
  PROVE  AprsInv' /\ (FastEnough => pc' # "trap")
<1> USE DEF InLoop, Handling, isrVars
<1> DEFINE Keeps == AprsInv' /\ (FastEnough => pc' # "trap")
<1>1. /\ Typed /\ lag' = lag
      /\ H \in Nat /\ (aprs_bit' = aprs_bit => H' = H)
  BY HalfWaves DEF AprsInv, TxAprs, Start, EnterLoop, NoTick, Toggle, NoBaudTick,
       BaudTick, FetchBit, InTime, Trap, Stop, Typed, H
<1>2. FastEnough' <=> FastEnough
  BY <1>1 DEF FastEnough
<1>3. FastEnough => Inside /\ Prompt /\ Due /\ Since
  BY DEF AprsInv, Timing
<1>4. CASE Start \/ Stop
  <2>1. Typed'
    BY <1>1, <1>4 DEF Start, Stop, Typed
  <2>2. Inside => Timing'
    BY <1>1, <1>4 DEF Start, Stop, Timing, Inside, Prompt, Due, Since
  <2>3. pc' # "trap"
    BY <1>4 DEF Start, Stop
  <2>4. QED
    BY <1>2, <1>3, <2>1, <2>2, <2>3 DEF AprsInv
<1>5. CASE EnterLoop
  <2>1. Typed'
    BY <1>1, <1>5 DEF EnterLoop, Typed
  <2>2. Inside => Timing'
    BY <1>1, <1>5 DEF EnterLoop, Timing, Inside, Prompt, Due, Since, Typed
  <2>3. pc' # "trap"
    BY <1>5 DEF EnterLoop
  <2>4. QED
    BY <1>2, <1>3, <2>1, <2>2, <2>3 DEF AprsInv
<1>6. CASE NoTick \/ InTime
  <2>1. /\ aprs_tick = 0 /\ pc \in {"poll", "check"}
        /\ (pc' = "stop" /\ budget' = budget) \/ (pc' = "poll" /\ budget' = lag)
        /\ aprs_nco_count' = aprs_nco_count /\ aprs_bit_count' = aprs_bit_count
        /\ aprs_tick' = aprs_tick /\ aprs_baud_tick' = aprs_baud_tick
        /\ aprs_bit' = aprs_bit /\ bits' = bits /\ since' = since
    BY <1>6 DEF NoTick, InTime, Turn
  <2>2. Typed'
    BY <1>1, <2>1 DEF Typed
  <2>3. FastEnough => Timing'
    BY <1>1, <1>3, <2>1 DEF Timing, Inside, Prompt, Due, Since
  <2>4. QED
    BY <1>2, <2>1, <2>2, <2>3 DEF AprsInv
<1>7. CASE Toggle
  <2>1. Typed'
    BY <1>1, <1>7 DEF Toggle, Typed
  <2>2. FastEnough => Timing'
    BY <1>1, <1>3, <1>7 DEF Toggle, Timing, Inside, Prompt, Due, Since, Typed
  <2>3. pc' # "trap"
    BY <1>7 DEF Toggle
  <2>4. QED
    BY <1>2, <2>1, <2>2, <2>3 DEF AprsInv
<1>8. CASE NoBaudTick \/ BaudTick
  <2>1. Typed'
    BY <1>1, <1>8 DEF NoBaudTick, BaudTick, Typed
  <2>2. FastEnough => Timing'
    BY <1>1, <1>3, <1>8 DEF NoBaudTick, BaudTick, Timing, Inside, Prompt, Due, Since
  <2>3. pc' # "trap"
    BY <1>8 DEF NoBaudTick, BaudTick
  <2>4. QED
    BY <1>2, <2>1, <2>2, <2>3 DEF AprsInv
<1>9. CASE FetchBit
  <2>1. Typed'
    BY <1>1, <1>9 DEF FetchBit, Typed
  <2>2. H' \in Nat /\ APRS_SPACE_TICKS <= H'
    BY <2>1, HalfWaves DEF Typed, H
  <2>3. FastEnough => Inside'
    BY <1>1, <1>3, <1>9, <2>2, Ticks
       DEF FetchBit, Inside, Prompt, FastEnough, Typed
  <2>4. FastEnough => Prompt' /\ Due' /\ Since'
    BY <1>1, <1>3, <1>9 DEF FetchBit, Prompt, Due, Since
  <2>5. pc' # "trap"
    BY <1>9 DEF FetchBit
  <2>6. QED
    BY <1>2, <2>1, <2>3, <2>4, <2>5 DEF AprsInv, Timing
<1>10. CASE Trap
  <2>1. ~FastEnough
    BY <1>3, <1>10 DEF Trap, Prompt
  <2>2. Typed'
    BY <1>1, <1>10 DEF Trap, Typed
  <2>3. QED
    BY <1>2, <2>1, <2>2 DEF AprsInv
<1>11. QED
  BY <1>4, <1>5, <1>6, <1>7, <1>8, <1>9, <1>10 DEF TxAprs

LEMMA AprsInvNext == AprsInv /\ [Next]_vars => AprsInv'
<1> SUFFICES ASSUME AprsInv, [Next]_vars PROVE AprsInv'
  OBVIOUS
<1>1. CASE UNCHANGED vars
  BY <1>1 DEF vars, isrVars, AprsInv, Typed, Timing, Inside, Prompt, Due, Since,
       FastEnough, H
<1>2. QED
  BY <1>1, SampleKeepsInv, LoopKeepsInv DEF Next

----------------------------------------------------------------------------
(* The three parts of NoTickLost.                                          *)
LEMMA OutOfTrap == AprsInv /\ [Next]_vars /\ FastEnough => pc' # "trap"
<1> SUFFICES ASSUME AprsInv, [Next]_vars, FastEnough PROVE pc' # "trap"
  OBVIOUS
<1>1. pc # "trap"
  BY DEF AprsInv, Timing, Prompt
<1>2. CASE TIMER0_A0_ISR \/ UNCHANGED vars
  BY <1>1, <1>2 DEF TIMER0_A0_ISR, vars
<1>3. CASE TxAprs
  BY <1>3, LoopKeepsInv
<1>4. QED
  BY <1>2, <1>3 DEF Next

(* Only the ISR moves its counters.                                        *)
LEMMA LoopLeavesCounters ==
  TxAprs \/ UNCHANGED vars
    => aprs_nco_count' = aprs_nco_count /\ aprs_bit_count' = aprs_bit_count
BY DEF TxAprs, Start, EnterLoop, NoTick, Toggle, NoBaudTick, BaudTick, FetchBit, InTime,
       Trap, Stop, vars, isrVars

LEMMA NoHalfWaveLost ==
  AprsInv /\ [Next]_vars /\ FastEnough =>
    (pc \in InLoop /\ HalfWaveOver /\ aprs_nco_count' = 0 => aprs_tick = 0)
<1> SUFFICES ASSUME AprsInv, [Next]_vars, FastEnough,
                    pc \in InLoop, HalfWaveOver, aprs_nco_count' = 0
             PROVE  aprs_tick = 0
  OBVIOUS
<1>1. Typed /\ Prompt
  BY DEF AprsInv, Timing
<1>2. H \in Nat /\ 1 < H
  BY <1>1, HalfWaves, Ticks DEF Typed, H
<1>3. aprs_nco_count # 0
  BY <1>1, <1>2 DEF HalfWaveOver, H, Typed
<1>4. TIMER0_A0_ISR
  BY <1>3, LoopLeavesCounters DEF Next
<1>5. ~(pc \in Handling \/ (pc = "poll" /\ aprs_tick = 1))
  BY <1>1, <1>4, NoneOver
<1>6. QED
  BY <1>1, <1>5 DEF InLoop, Handling, Typed

LEMMA NoBitLost ==
  AprsInv /\ [Next]_vars /\ FastEnough =>
    (pc \in InLoop /\ bits > 0 /\ aprs_bit_count' < aprs_bit_count
       => aprs_baud_tick = 0)
<1> SUFFICES ASSUME AprsInv, [Next]_vars, FastEnough,
                    pc \in InLoop, bits > 0, aprs_bit_count' < aprs_bit_count,
                    aprs_baud_tick # 0
             PROVE  FALSE
  OBVIOUS
<1>1. Typed /\ Inside /\ Prompt /\ Due
  BY DEF AprsInv, Timing
<1>2. TIMER0_A0_ISR
  BY <1>1, LoopLeavesCounters DEF Next, Typed
<1>3. aprs_bit_count + 1 = APRS_BAUD_TICKS /\ budget > 0
  BY <1>1, <1>2, Ticks DEF TIMER0_A0_ISR, BitOver, Typed
<1>4. aprs_nco_count < APRS_MARK_TICKS
  BY <1>1, HalfWaves, Ticks DEF Typed, Inside, H
<1>5. aprs_tick = 1 \/ pc = "baud" => aprs_nco_count + 1 < lag
  BY <1>1, <1>3 DEF Prompt, Typed, InLoop, Handling
<1>6. CASE aprs_tick = 1 \/ pc = "baud"
  <2>1. aprs_bit_count <= APRS_MARK_TICKS + aprs_nco_count
    BY <1>1, <1>6 DEF Due, Typed
  <2>2. QED
    BY <1>1, <1>3, <1>5, <1>6, <2>1, Ticks DEF FastEnough, Typed
<1>7. CASE aprs_tick = 0 /\ pc # "baud"
  <2>1. aprs_bit_count <= aprs_nco_count
    BY <1>1, <1>7 DEF Due, Typed
  <2>2. QED
    BY <1>1, <1>3, <1>4, <2>1, Ticks DEF Typed
<1>8. QED
  BY <1>1, <1>6, <1>7 DEF Typed

(* A loop whose pass is no longer than the shortest half wave, whatever    *)
(* the lengths of the half waves and of a bit, stays out of the trap of    *)
(* tx_aprs() and loses neither a half wave nor a bit to the ISR.           *)
THEOREM TicksAreKept == Spec => NoTickLost
<1> DEFINE NoneLost ==
      FastEnough =>
        /\ pc' # "trap"
        /\ (pc \in InLoop /\ HalfWaveOver /\ aprs_nco_count' = 0 => aprs_tick = 0)
        /\ (pc \in InLoop /\ bits > 0 /\ aprs_bit_count' < aprs_bit_count
              => aprs_baud_tick = 0)
<1>1. AprsInv /\ [Next]_vars => NoneLost
  BY OutOfTrap, NoHalfWaveLost, NoBitLost
<1>2. QED
  BY <1>1, AprsInvInit, AprsInvNext, PTL DEF Spec, NoTickLost

----------------------------------------------------------------------------
(* The bit clock is never looked at later than a half wave and a pass, so  *)
(* that the bits of a frame keep to the bit clock.                         *)
THEOREM BitsKeepTime == Spec => []BitsOnTime
<1>1. AprsInv => BitsOnTime
  <2> SUFFICES ASSUME AprsInv, FastEnough, pc \in InLoop, bits > 0, aprs_baud_tick = 1
               PROVE  aprs_bit_count <= APRS_MARK_TICKS + lag
    BY DEF BitsOnTime
  <2>1. Typed /\ Inside /\ Prompt /\ Due
    BY DEF AprsInv, Timing
  <2>2. aprs_nco_count < APRS_MARK_TICKS
    BY <2>1, HalfWaves, Ticks DEF Typed, Inside, H
  <2>3. aprs_tick = 1 \/ pc = "baud" => aprs_nco_count < lag
    BY <2>1 DEF Prompt, Typed, InLoop, Handling
  <2>4. CASE aprs_tick = 1 \/ pc = "baud"
    <3>1. aprs_bit_count <= APRS_MARK_TICKS + aprs_nco_count
      BY <2>1, <2>4 DEF Due
    <3>2. QED
      BY <2>1, <2>3, <2>4, <3>1, Ticks DEF Typed
  <2>5. CASE aprs_tick = 0 /\ pc # "baud"
    <3>1. aprs_bit_count <= aprs_nco_count
      BY <2>1, <2>5 DEF Due
    <3>2. QED
      BY <2>1, <2>2, <3>1, Ticks DEF Typed
  <2>6. QED
    BY <2>1, <2>4, <2>5 DEF Typed
<1>2. QED
  BY <1>1, AprsInvInit, AprsInvNext, PTL DEF Spec

(* The data pin is toggled a half wave of the tone chosen after the last   *)
(* toggle, give or take a pass of the loop.                                *)
THEOREM HalfWavesKeepTime == Spec => HalfWavesAreExact
<1> DEFINE Exact ==
      FastEnough /\ bits > 0 /\ pc = "poll" /\ pc' = "baud" =>
        LET ticks == IF aprs_bit = SPACE THEN APRS_SPACE_TICKS ELSE APRS_MARK_TICKS
        IN  since \in ticks - lag .. ticks + lag
<1>1. AprsInv /\ [Next]_vars => Exact
  <2> SUFFICES ASSUME AprsInv, [Next]_vars, FastEnough, bits > 0,
                      pc = "poll", pc' = "baud"
               PROVE  since \in H - lag .. H + lag
    BY DEF H, HalfWave
  <2>1. aprs_tick = 1
    BY DEF Next, TIMER0_A0_ISR, TxAprs, Start, EnterLoop, NoTick, Toggle, NoBaudTick,
           BaudTick, FetchBit, InTime, Trap, Stop, Turn, vars
  <2>2. Typed /\ Prompt /\ Since
    BY DEF AprsInv, Timing
  <2>3. H \in Nat
    BY <2>2, HalfWaves DEF Typed, H
  <2>4. aprs_nco_count < lag
    BY <2>1, <2>2 DEF Prompt, Typed
  <2>5. since <= H + aprs_nco_count /\ H + aprs_nco_count < since + lag
    BY <2>1, <2>2 DEF Since, InLoop
  <2>6. QED
    BY <2>2, <2>3, <2>4, <2>5 DEF Typed
<1>2. QED
  BY <1>1, AprsInvInit, AprsInvNext, PTL DEF Spec, HalfWavesAreExact
----------------------------------------------------------------------------
(* What bounds the bits of a frame: the loop ends with the bit after which *)
(* get_next_bit() has set finished.                                        *)
Unfinished == /\ pc \in {"delay", "poll", "baud", "fetch"} => ~finished
              /\ pc \in {"delay"} \cup InLoop /\ ~finished => bits < FrameBits
TypeInv == TypeOK /\ Unfinished

LEMMA TypeInvInit == Init => TypeInv
<1> SUFFICES ASSUME Init PROVE TypeInv
  OBVIOUS
<1>1. enabled \in BOOLEAN /\ finished \in BOOLEAN
  BY DEF Init
<1>2. QED
  BY <1>1, Ticks DEF Init, TypeInv, TypeOK, Unfinished, InLoop, MARK, SPACE

(* The counters of the ISR stay in their periods, however slow the loop.   *)
LEMMA SampleKeepsType == TypeInv /\ TIMER0_A0_ISR => TypeInv'
<1> SUFFICES ASSUME TypeInv, TIMER0_A0_ISR PROVE TypeInv'
  OBVIOUS
<1>1. TypeOK /\ Unfinished
  BY DEF TypeInv
<1>2. /\ UNCHANGED <<lag, pc, aprs_bit, enabled, finished, bits>>
  BY DEF TIMER0_A0_ISR
<1>3. HalfWave(aprs_bit) \in Nat /\ HalfWave(aprs_bit) <= APRS_MARK_TICKS
  BY <1>1, HalfWaves DEF TypeOK
<1>4. aprs_nco_count' \in 0 .. APRS_MARK_TICKS - 1
  BY <1>1, <1>3, Ticks DEF TypeOK, TIMER0_A0_ISR, NextNcoCount, HalfWaveOver
<1>5. aprs_bit_count' \in 0 .. APRS_BAUD_TICKS - 1
  BY <1>1, Ticks DEF TypeOK, TIMER0_A0_ISR, BitOver
<1>6. aprs_tick' \in {0, 1} /\ aprs_baud_tick' \in {0, 1}
  BY <1>1 DEF TypeOK, TIMER0_A0_ISR
<1>7. lag \in Nat /\ budget' \in 0 .. lag /\ since' \in Nat
  BY <1>1, Ticks DEF TypeOK, TIMER0_A0_ISR
<1>8. TypeOK'
  BY <1>1, <1>2, <1>4, <1>5, <1>6, <1>7 DEF TypeOK
<1>9. QED
  BY <1>1, <1>2, <1>8 DEF TypeInv, Unfinished

LEMMA LoopKeepsType == TypeInv /\ TxAprs => TypeInv'
<1> SUFFICES ASSUME TypeInv, TxAprs PROVE TypeInv'
  OBVIOUS
<1>1. TypeOK /\ Unfinished
  BY DEF TypeInv
<1> USE DEF TxAprs, Start, EnterLoop, NoTick, Toggle, NoBaudTick, BaudTick,
            FetchBit, InTime, Trap, Stop, Turn, isrVars, InLoop
<1>2. /\ UNCHANGED <<lag, aprs_nco_count, aprs_bit_count>>
      /\ {aprs_tick', aprs_baud_tick'} \subseteq {0, 1}
      /\ since' \in Nat
  BY <1>1 DEF TypeOK
<1>3. pc' \in {"idle", "delay", "trap", "stop"} \cup InLoop
  BY <1>1 DEF TypeOK
<1>4. aprs_bit' \in {MARK, SPACE}
  BY <1>1 DEF TypeOK
<1>5. enabled' \in BOOLEAN
  BY <1>1 DEF TypeOK, aprs_timer_enable, aprs_timer_disable
<1>6. finished' \in BOOLEAN
  BY <1>1 DEF TypeOK
<1>7. lag \in Nat /\ budget' \in 0 .. lag
  BY <1>1, Ticks DEF TypeOK
<1>8. bits' \in 0 .. FrameBits
  <2>1. bits \in 0 .. FrameBits /\ (bits' \in {bits, 0} \/ FetchBit)
    BY <1>1 DEF TypeOK
  <2>2. CASE FetchBit
    BY <1>1, <2>1, <2>2, Ticks DEF Unfinished
  <2>3. QED
    BY <2>1, <2>2, Ticks
<1>9. Unfinished'
  <2>1. FrameBits \in Nat \ {0} /\ bits \in Nat
    BY <1>1, AprsTxAssumption DEF TypeOK
  <2>2. CASE FetchBit
    <3>1. /\ pc' = "check" /\ bits' = bits + 1 /\ bits < FrameBits
          /\ ~finished' => bits + 1 # FrameBits
      BY <2>2, <1>1 DEF Unfinished
    <3>2. QED
      BY <2>1, <3>1 DEF Unfinished
  <2>3. CASE ~FetchBit
    BY <2>1, <2>3, <1>1 DEF Unfinished
  <2>4. QED
    BY <2>2, <2>3
<1>10. QED
  BY <1>1, <1>2, <1>3, <1>4, <1>5, <1>6, <1>7, <1>8, <1>9 DEF TypeInv, TypeOK

(* The bit clock, which is compared for equality, never passes its period, *)
(* the tone counter does not run away over a change of tone, and no frame  *)
(* gets a bit more than it has, at any speed of the loop.                  *)
THEOREM AprsTyped == Spec => []TypeOK
<1>1. TypeInv /\ [Next]_vars => TypeInv'
  <2> SUFFICES ASSUME TypeInv, [Next]_vars PROVE TypeInv'
    OBVIOUS
  <2>1. CASE UNCHANGED vars
    BY <2>1 DEF vars, isrVars, TypeInv, TypeOK, Unfinished, InLoop
  <2>2. QED
    BY <2>1, SampleKeepsType, LoopKeepsType DEF Next
<1>2. TypeInv => TypeOK
  BY DEF TypeInv
<1>3. QED
  BY <1>1, <1>2, TypeInvInit, PTL DEF Spec
=============================================================================
