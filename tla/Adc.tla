-------------------------------- MODULE Adc --------------------------------
(***************************************************************************)
(* The measurements of hw.c that get_fix_and_measurements() adds to a fix: *)
(* die temperature, battery and solar voltage, the voltages each the mean  *)
(* of ten conversions.  For every conversion the CPU starts the converter  *)
(* and sleeps in the next instruction; the ADC ISR stores the result and   *)
(* ends the sleep.  The timer ISR runs on beside, and may come between     *)
(* the two instructions.  The watchdog is not served meanwhile.            *)
(***************************************************************************)
EXTENDS Integers

CONSTANTS
  Samples,         \* conversions a voltage is the mean of: 10
  Codes,           \* what the converter may deliver, of 0 .. 1023
  CAL30, CAL85     \* CALADC10_15V_30C and _85C, from the calibration area

ASSUME AdcAssumption ==
  /\ Samples \in Nat \ {0} /\ Samples * 3273 <= 65535   \* full scale, summed up
  /\ Codes \subseteq 0 .. 1023
  /\ CAL30 \in Nat /\ CAL85 \in Nat /\ CAL85 > CAL30

VARIABLES
  pc,            \* the next instruction of the measurement
  channel,       \* "die", "bat" or "sol"
  i, voltage,    \* the loop counter and the sum
  asleep,        \* CPUOFF
  adc,           \* the converter: "idle", "busy", or "done": interrupt pending
  code,          \* the result register, ADC10MEM0
  adc_result,
  measured,      \* what the last of the three functions has returned
  delayed        \* history: an ISR ran between the start and the sleep

vars == <<pc, channel, i, voltage, asleep, adc, code, adc_result, measured,
          delayed>>

U16(x) == x % 65536

(* Division of C, towards zero.                                            *)
Quotient(a, b) == IF a >= 0 THEN a \div b ELSE -((-a) \div b)

(* What the three functions make of a conversion and of the sum.           *)
Millivolts(result) == U16(result * 32) \div 10
Mean(sum) == sum \div Samples
Battery_Unclipped(mv) == U16(mv * 47) \div 14          \* Mutant: no clipping
Battery(mv) == U16((IF mv > 1380 THEN 1380 ELSE mv) * 47) \div 14
Celsius(result) == Quotient((result - CAL30) * (85 - 30), CAL85 - CAL30) + 30

Init == /\ pc = "boot" /\ channel = "die"
        /\ i = 0 /\ voltage = 0
        /\ asleep = FALSE /\ adc = "idle"
        /\ code = 0 /\ adc_result = 0
        /\ measured = 0
        /\ delayed = FALSE

(* get_fix_and_measurements(), after gps_get_fix(): the converter is set   *)
(* up, the loop begins.                                                    *)
Begin == /\ pc \in {"boot", "measured"}
         /\ pc' = "start" /\ channel' = "die"
         /\ i' = 0 /\ voltage' = 0
         /\ UNCHANGED <<asleep, adc, code, adc_result, measured, delayed>>

(* ADC10CTL0 |= ADC10ENC + ADC10SC.                                        *)
StartConversion == /\ pc = "start" /\ ~asleep
                   /\ adc' = "busy"
                   /\ pc' = "sleep"
                   /\ delayed' = FALSE
                   /\ UNCHANGED <<channel, i, voltage, asleep, code, adc_result,
                                  measured>>

(* __bis_SR_register(CPUOFF + GIE).                                        *)
Sleep == /\ pc = "sleep" /\ ~asleep
         /\ asleep' = TRUE
         /\ pc' = "take"
         /\ UNCHANGED <<channel, i, voltage, adc, code, adc_result, measured,
                        delayed>>

(* The next channel is set up once one is measured.                        *)
NextChannel(next) == /\ channel' = next
                     /\ i' = 0 /\ voltage' = 0
                     /\ pc' = IF next = "none" THEN "measured" ELSE "start"

TakeTemperature == /\ pc = "take" /\ ~asleep /\ channel = "die"
                   /\ measured' = Celsius(adc_result)
                   /\ NextChannel("bat")
                   /\ UNCHANGED <<asleep, adc, code, adc_result, delayed>>

Sum == U16(voltage + Millivolts(adc_result))

LastSample == i + 1 = Samples

TakeSample == /\ pc = "take" /\ ~asleep /\ channel # "die"
              /\ ~LastSample
              /\ i' = i + 1 /\ voltage' = Sum
              /\ pc' = "start"
              /\ UNCHANGED <<channel, asleep, adc, code, adc_result, measured,
                             delayed>>

TakeLast == /\ pc = "take" /\ ~asleep /\ channel # "die"
            /\ LastSample
            /\ \/ /\ channel = "bat"
                  /\ measured' = Battery(Mean(Sum)) /\ NextChannel("sol")
               \/ /\ channel = "sol"
                  /\ measured' = Mean(Sum) /\ NextChannel("none")
            /\ UNCHANGED <<asleep, adc, code, adc_result, delayed>>

Main == \/ Begin \/ StartConversion \/ Sleep
        \/ TakeTemperature \/ TakeSample \/ TakeLast

----------------------------------------------------------------------------
(* The converter and the ISRs.                                             *)

(* A conversion takes some thirty cycles of the CPU clock, longer than the *)
(* instruction between start and sleep, but not longer than an ISR.        *)
Convert == /\ adc = "busy"
           /\ asleep \/ delayed
           /\ adc' = "done"
           /\ code' \in Codes
           /\ UNCHANGED <<pc, channel, i, voltage, asleep, adc_result,
                          measured, delayed>>

(* ADC10_ISR(): __bic_SR_register_on_exit(CPUOFF) wakes the code it has    *)
(* interrupted, and does nothing to code that is awake.                    *)
Wakes_Never == UNCHANGED asleep       \* Mutant: CPUOFF is left set
Wakes == asleep' = FALSE

ADC10_ISR == /\ adc = "done"
             /\ adc' = "idle"
             /\ adc_result' = code
             /\ Wakes
             /\ UNCHANGED <<pc, channel, i, voltage, code, measured, delayed>>

(* The CCR2 ISR of main.c leaves CPUOFF as it finds it.                    *)
Returns_Awake == asleep' = FALSE      \* Mutant: every ISR ends the sleep
Returns == UNCHANGED asleep

TimerISR == /\ pc # "boot"
            /\ Returns
            /\ delayed' = (delayed \/ pc = "sleep")
            /\ UNCHANGED <<pc, channel, i, voltage, adc, code, adc_result,
                           measured>>

(* The reset a CPU ends in that nothing wakes.                             *)
Bites_Held == FALSE                   \* Mutant: the watchdog is held
Bites == asleep /\ adc = "idle"
Watchdog == /\ Bites
            /\ pc' = "boot" /\ channel' = "die"
            /\ i' = 0 /\ voltage' = 0
            /\ asleep' = FALSE /\ adc' = "idle"
            /\ code' = 0 /\ adc_result' = 0
            /\ measured' = 0
            /\ delayed' = FALSE

Next == Main \/ Convert \/ ADC10_ISR \/ TimerISR \/ Watchdog

Spec == Init /\ [][Next]_vars
             /\ WF_vars(Main) /\ WF_vars(Convert) /\ WF_vars(ADC10_ISR)
             /\ WF_vars(Watchdog)
----------------------------------------------------------------------------
(* Properties.                                                             *)

Measuring == {"start", "sleep", "take"}

(* Every reading that is taken is that of the conversion just started: no  *)
(* ISR but the converter's own ends the sleep, and no reading is taken     *)
(* while the converter still works (hw.c:166-168).                         *)
ReadingsAreFresh ==
  pc = "take" /\ ~asleep => adc = "idle" /\ adc_result = code

(* The sum of the conversions, the clipping and the scaling stay inside 16 *)
(* bits: the battery voltage is what the input says, up to the limit, and  *)
(* a full battery never reads as an empty one (hw.c:168-179).              *)
MeanExact == (voltage + (adc_result * 32) \div 10) \div Samples
BatteryIsExact ==
  [][channel = "bat" /\ channel' = "sol" =>
       measured' = ((IF MeanExact > 1380 THEN 1380 ELSE MeanExact) * 47) \div 14]_vars

(* hw.c:166 says "ADC10_ISR will force exit".  It does, unless an ISR came *)
(* between the start of the conversion and the sleep and lasted until the  *)
(* result was there; then the wake-up came before the sleep.               *)
SleepsOnlyWhenDelayed == asleep /\ adc = "idle" => delayed

(* A measurement ends, if need be by the watchdog.                         *)
MeasurementEnds == pc \in Measuring ~> pc \in {"measured", "boot"}
=============================================================================
