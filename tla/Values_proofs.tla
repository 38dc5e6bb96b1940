--------------------------- MODULE Values_proofs ---------------------------
(***************************************************************************)
(* The values the tracker measures and those it sends: Adc.tla for every   *)
(* number of samples whose sum fits in 16 bits, and Telemetry.tla for      *)
(* every fix, every sentence id and whatever the buffers held before.      *)
(***************************************************************************)
EXTENDS Adc, Telemetry, SequenceTheorems, TLAPS

(* Once awake, the reading of the conversion just started is there.  While *)
(* asleep nothing is known of it, and the ADC ISR alone ends the sleep.    *)
THEOREM ReadsFresh == Spec => []ReadingsAreFresh
<1>1. Init => ReadingsAreFresh
  BY DEF Init, ReadingsAreFresh
<1>2. ReadingsAreFresh /\ [Next]_vars => ReadingsAreFresh'
  BY DEF ReadingsAreFresh, Next, vars, Main, Begin, StartConversion, Sleep,
         TakeTemperature, TakeSample, TakeLast, NextChannel, Convert, ADC10_ISR,
         Wakes, TimerISR, Returns, Watchdog
<1>3. QED
  BY <1>1, <1>2, PTL DEF Spec

----------------------------------------------------------------------------
(* Between the start of a conversion and the sleep the converter works,    *)
(* unless an ISR gave it the time to finish; the CPU sleeps nowhere else.  *)
SleepInv == /\ asleep => pc = "take"
            /\ pc = "sleep" /\ ~delayed => adc = "busy"
            /\ asleep /\ ~delayed => adc \in {"busy", "done"}

LEMMA SleepInvNext == SleepInv /\ [Next]_vars => SleepInv'
<1> SUFFICES ASSUME SleepInv, [Next]_vars PROVE SleepInv'
  OBVIOUS
<1> USE DEF SleepInv
<1>1. CASE Begin
  BY <1>1 DEF Begin
<1>2. CASE StartConversion
  BY <1>2 DEF StartConversion
<1>3. CASE Sleep
  BY <1>3 DEF Sleep
<1>4. CASE TakeTemperature \/ TakeSample \/ TakeLast
  BY <1>4 DEF TakeTemperature, TakeSample, TakeLast, NextChannel
<1>5. CASE Convert
  BY <1>5 DEF Convert
<1>6. CASE ADC10_ISR
  BY <1>6 DEF ADC10_ISR, Wakes
<1>7. CASE TimerISR
  BY <1>7 DEF TimerISR, Returns
<1>8. CASE Watchdog
  BY <1>8 DEF Watchdog
<1>9. CASE UNCHANGED vars
  BY <1>9 DEF vars
<1>10. QED
  BY <1>1, <1>2, <1>3, <1>4, <1>5, <1>6, <1>7, <1>8, <1>9 DEF Next, Main

(* The wake-up is lost only to an ISR between the start of the conversion  *)
(* and the sleep (hw.c:166).                                               *)
THEOREM SleepsOnlyWhenDelayedHolds == Spec => []SleepsOnlyWhenDelayed
<1>1. Init => SleepInv
  BY DEF Init, SleepInv
<1>2. SleepInv => SleepsOnlyWhenDelayed
  BY DEF SleepInv, SleepsOnlyWhenDelayed
<1>3. QED
  BY <1>1, <1>2, SleepInvNext, PTL DEF Spec

----------------------------------------------------------------------------
(* The sum of the samples never comes near the end of 16 bits.             *)
SumInv == /\ adc_result \in 0 .. 1023 /\ code \in 0 .. 1023
          /\ i \in Nat /\ i < Samples
          /\ voltage \in Nat /\ voltage <= i * 3273

LEMMA SumExact ==
  ASSUME SumInv
  PROVE  /\ Sum = voltage + (adc_result * 32) \div 10
         /\ Sum \in Nat /\ Sum <= (i + 1) * 3273
<1>1. /\ adc_result \in 0 .. 1023 /\ i \in Nat /\ i < Samples
      /\ voltage \in Nat /\ voltage <= i * 3273
  BY DEF SumInv
<1>2. Millivolts(adc_result) = (adc_result * 32) \div 10
  BY <1>1 DEF Millivolts, U16
<1>3. Millivolts(adc_result) \in Nat /\ Millivolts(adc_result) <= 3273
  BY <1>1 DEF Millivolts, U16
<1>4. /\ Sum = voltage + Millivolts(adc_result)
      /\ Sum \in Nat /\ Sum <= (i + 1) * 3273
  <2>1. (i + 1) * 3273 <= 65535
    BY <1>1, AdcAssumption
  <2>2. /\ voltage + Millivolts(adc_result) \in Nat
        /\ voltage + Millivolts(adc_result) <= (i + 1) * 3273
    BY <1>1, <1>3
  <2>3. QED
    BY <1>1, <2>1, <2>2 DEF Sum, U16
<1>5. QED
  BY <1>2, <1>4

LEMMA SumInvNext == SumInv /\ [Next]_vars => SumInv'
<1> SUFFICES ASSUME SumInv, [Next]_vars PROVE SumInv'
  OBVIOUS
<1>a. /\ adc_result \in 0 .. 1023 /\ code \in 0 .. 1023
      /\ i \in Nat /\ i < Samples /\ voltage \in Nat /\ voltage <= i * 3273
      /\ Codes \subseteq 0 .. 1023 /\ Samples \in Nat \ {0}
  BY AdcAssumption DEF SumInv
<1>b. CASE adc_result' = adc_result /\ code' = code /\ i' = i /\ voltage' = voltage
  BY <1>b, <1>a DEF SumInv
<1>c. CASE adc_result' \in 0 .. 1023 /\ code' \in 0 .. 1023 /\ i' = 0 /\ voltage' = 0
  BY <1>c, <1>a DEF SumInv
<1>1. CASE Begin \/ Watchdog
  BY <1>1, <1>a, <1>c DEF Begin, Watchdog
<1>2. CASE StartConversion \/ Sleep
  BY <1>2, <1>b DEF StartConversion, Sleep
<1>3. CASE TakeTemperature \/ TakeLast
  BY <1>3, <1>a, <1>c DEF TakeTemperature, TakeLast, NextChannel
<1>4. CASE TakeSample
  <2>1. i' = i + 1 /\ voltage' = Sum /\ code' = code /\ adc_result' = adc_result
        /\ i + 1 # Samples
    BY <1>4 DEF TakeSample, LastSample
  <2>2. i + 1 \in Nat /\ i + 1 < Samples /\ Sum \in Nat /\ Sum <= (i + 1) * 3273
    BY <2>1, <1>a, SumExact
  <2>3. QED
    BY <2>1, <2>2, <1>a DEF SumInv
<1>5. CASE Convert
  BY <1>5, <1>a DEF Convert, SumInv
<1>6. CASE ADC10_ISR
  BY <1>6, <1>a DEF ADC10_ISR, SumInv
<1>7. CASE TimerISR
  BY <1>7, <1>b DEF TimerISR
<1>8. CASE UNCHANGED vars
  BY <1>8, <1>b DEF vars
<1>9. QED
  BY <1>1, <1>2, <1>3, <1>4, <1>5, <1>6, <1>7, <1>8 DEF Next, Main

LEMMA BatteryExact ==
  ASSUME NEW mv \in Int, mv >= 0
  PROVE  Battery(mv) = ((IF mv > 1380 THEN 1380 ELSE mv) * 47) \div 14
  BY DEF Battery, U16

LEMMA QuotientIsNat == ASSUME NEW a \in Nat PROVE a \div Samples \in Nat
  BY AdcAssumption

LEMMA BatteryStep ==
  ASSUME SumInv, [Next]_vars, channel = "bat", channel' = "sol"
  PROVE  measured' = ((IF MeanExact > 1380 THEN 1380 ELSE MeanExact) * 47) \div 14
<1>1. TakeLast
  BY DEF Next, vars, Main, Begin, StartConversion, Sleep, TakeTemperature, TakeSample,
         NextChannel, Convert, ADC10_ISR, TimerISR, Watchdog
<1>2. measured' = Battery(Mean(Sum))
  BY <1>1 DEF TakeLast
<1>3. Sum \in Nat
  BY SumExact, AdcAssumption DEF SumInv
<1>4. Mean(Sum) = MeanExact
  BY SumExact DEF Mean, MeanExact
<1>5. MeanExact \in Nat
  BY <1>3, <1>4, QuotientIsNat DEF Mean
<1>6. QED
  BY <1>2, <1>4, <1>5, BatteryExact

(* The battery voltage is the clipped mean of the samples, scaled, without *)
(* an overflow on the way.                                                 *)
THEOREM BatteryNeverOverflows == Spec => BatteryIsExact
<1>1. Init => SumInv
  BY AdcAssumption DEF Init, SumInv
<1>2. SumInv /\ [Next]_vars =>
        [channel = "bat" /\ channel' = "sol" =>
           measured' = ((IF MeanExact > 1380 THEN 1380 ELSE MeanExact) * 47) \div 14]_vars
  BY BatteryStep
<1>3. QED
  BY <1>1, <1>2, SumInvNext, PTL DEF Spec, BatteryIsExact

----------------------------------------------------------------------------
(* The conversions of string.c against the digits of a number.             *)
LEMMA NumberTyped ==
  ASSUME NEW n \in Nat, NEW w \in 1 .. 6
  PROVE  NumberOf(n, w) \in Seq(Int) /\ Len(NumberOf(n, w)) = w
<1>1. ASSUME NEW k \in 1 .. w
      PROVE  48 + ((n \div (10 ^ (w - k))) % 10) \in Int
  <2>1. ASSUME NEW j \in 0 .. 5 PROVE 10 ^ j \in Nat \ {0}
    <3>1. /\ 10 ^ 0 = 1 /\ 10 ^ 1 = 10 /\ 10 ^ 2 = 100 /\ 10 ^ 3 = 1000
          /\ 10 ^ 4 = 10000 /\ 10 ^ 5 = 100000
      BY SMT
    <3>2. CASE j = 0
      BY <3>1, <3>2
    <3>3. CASE j = 1
      BY <3>1, <3>3
    <3>4. CASE j = 2
      BY <3>1, <3>4
    <3>5. CASE j = 3
      BY <3>1, <3>5
    <3>6. CASE j = 4
      BY <3>1, <3>6
    <3>7. CASE j = 5
      BY <3>1, <3>7
    <3> QED BY <3>2, <3>3, <3>4, <3>5, <3>6, <3>7
  <2>2. 10 ^ (w - k) \in Nat \ {0}
    <3>1. w - k \in 0 .. 5
      OBVIOUS
    <3> QED BY <3>1, <2>1
  <2> DEFINE m == 10 ^ (w - k)
  <2> HIDE DEF m
  <2>3. m \in Nat \ {0}
    BY <2>2 DEF m
  <2>4. n \div m \in Nat
    BY <2>3
  <2>5. (n \div m) % 10 \in Int
    BY <2>4
  <2> QED BY <2>5 DEF m
<1>2. NumberOf(n, w) \in [1 .. w -> Int]
  BY <1>1 DEF NumberOf
<1> QED BY <1>2

LEMMA TwoWide == ASSUME NEW n \in Nat PROVE i16toa(n, 2) = NumberOf(n, 2)
<1>1. ASSUME NEW k \in 1 .. 2
      PROVE (n % (10 ^ (2 - k + 1))) \div (10 ^ (2 - k))
              = (n \div (10 ^ (2 - k))) % 10
  <2>1. CASE k = 1
    BY <2>1, SMT
  <2>2. CASE k = 2
    BY <2>2, SMT
  <2> QED BY <2>1, <2>2
<1> QED BY <1>1 DEF i16toa, NumberOf

LEMMA FourWide == ASSUME NEW n \in Nat PROVE i16toa(n, 4) = NumberOf(n, 4)
<1>1. ASSUME NEW k \in 1 .. 4
      PROVE (n % (10 ^ (4 - k + 1))) \div (10 ^ (4 - k))
              = (n \div (10 ^ (4 - k))) % 10
  <2>1. CASE k = 1
    BY <2>1, SMT
  <2>2. CASE k = 2
    BY <2>2, SMT
  <2>3. CASE k = 3
    BY <2>3, SMT
  <2>4. CASE k = 4
    BY <2>4, SMT
  <2> QED BY <2>1, <2>2, <2>3, <2>4
<1> QED BY <1>1 DEF i16toa, NumberOf

(* The width of a number is the one it has.                                *)
LEMMA WidthIs ==
  ASSUME NEW n \in Nat, n <= 65535
  PROVE  WidthOf(n) = IF n < 10 THEN 1 ELSE IF n < 100 THEN 2
                      ELSE IF n < 1000 THEN 3 ELSE IF n < 10000 THEN 4 ELSE 5
<1> DEFINE Fits(w) == n < 10 ^ w /\ (w > 1 => n >= 10 ^ (w - 1))
           v == IF n < 10 THEN 1 ELSE IF n < 100 THEN 2
                ELSE IF n < 1000 THEN 3 ELSE IF n < 10000 THEN 4 ELSE 5
<1>1. /\ 10 ^ 1 = 10 /\ 10 ^ 2 = 100 /\ 10 ^ 3 = 1000
      /\ 10 ^ 4 = 10000 /\ 10 ^ 5 = 100000
  BY SMT
<1>2. /\ Fits(1) <=> n < 10
      /\ Fits(2) <=> n < 100 /\ n >= 10
      /\ Fits(3) <=> n < 1000 /\ n >= 100
      /\ Fits(4) <=> n < 10000 /\ n >= 1000
      /\ Fits(5) <=> n >= 10000
  BY <1>1
<1> HIDE DEF Fits
<1>3. v \in 1 .. 5 /\ Fits(v)
  BY <1>2
<1>4. \A w \in 1 .. 5 : Fits(w) => w = v
  BY <1>2
<1>5. (CHOOSE w \in 1 .. 5 : Fits(w)) = v
  BY <1>3, <1>4
<1> QED BY <1>5 DEF WidthOf, Fits

LEMMA WidthTyped ==
  ASSUME NEW n \in Nat, n <= 65535
  PROVE  WidthOf(n) \in 1 .. 5
BY WidthIs

----------------------------------------------------------------------------
(* The payload.  What is written over a buffer stands there, and nothing   *)
(* else changes.                                                           *)
IsPayload(buf) == buf = [k \in 1 .. 31 |-> buf[k]]

Wrote(new, buf, at, chars, n) ==
  /\ IsPayload(new)
  /\ \A k \in 1 .. 31 :
       new[k] = IF at < k /\ k <= at + n THEN chars[k - at] ELSE buf[k]

LEMMA OverWrites ==
  ASSUME NEW buf, IsPayload(buf), NEW at \in Nat, NEW chars, NEW n \in Nat,
         Len(chars) = n
  PROVE  Wrote(Over(buf, at, chars), buf, at, chars, n)
<1>1. DOMAIN buf = 1 .. 31
  BY DEF IsPayload
<1>2. \A k \in 1 .. 31 : k - 1 \in at .. at + n - 1 <=> at < k /\ k <= at + n
  OBVIOUS
<1>3. Over(buf, at, chars)
        = [k \in 1 .. 31 |-> IF k - 1 \in at .. at + n - 1 THEN chars[k - at] ELSE buf[k]]
  BY <1>1 DEF Over
<1> QED BY <1>2, <1>3 DEF IsPayload, Wrote

(* Where each field of the payload comes to stand.                         *)
At(buf, at, chars, n) == \A k \in 1 .. n : buf[at + k] = chars[k]

Stands(p, buf, fix, seq) ==
  /\ IsPayload(p)
  /\ \A k \in {1, 8, 9, 18, 21, 22, 31} : p[k] = buf[k]
  /\ At(p, 1, TwoDigits(fix.day) \o TwoDigits(fix.hour) \o TwoDigits(fix.min), 6)
  /\ At(p, 9, base91_encode_latlon(fix.lat91), 4)
  /\ At(p, 13, base91_encode_latlon(fix.lon91), 4)
  /\ At(p, 18, base91_encode_tlm(fix.alt91), 2)
  /\ At(p, 22, base91_encode_tlm(seq), 2)
  /\ At(p, 24, base91_encode_tlm(fix.temperature_int + APRS_TLM_TEMP_OFFSET), 2)
  /\ At(p, 26, base91_encode_tlm(fix.voltage_bat), 2)
  /\ At(p, 28, base91_encode_tlm(fix.voltage_sol), 2)

LEMMA FieldsStand ==
  ASSUME NEW buf, IsPayload(buf), NEW fix, NEW seq
  PROVE  Stands(AprsPrepared(buf, fix, seq), buf, fix, seq)
<1> DEFINE date == TwoDigits(fix.day) \o TwoDigits(fix.hour) \o TwoDigits(fix.min)
           f2 == base91_encode_latlon(fix.lat91)
           f3 == base91_encode_latlon(fix.lon91)
           f4 == base91_encode_tlm(fix.alt91)
           f5 == base91_encode_tlm(seq)
           f6 == base91_encode_tlm(fix.temperature_int + APRS_TLM_TEMP_OFFSET)
           f7 == base91_encode_tlm(fix.voltage_bat)
           f8 == base91_encode_tlm(fix.voltage_sol)
           b1 == Over(buf, 1, date)
           b2 == Over(b1, 9, f2)
           b3 == Over(b2, 13, f3)
           b4 == Over(b3, 18, f4)
           b5 == Over(b4, 22, f5)
           b6 == Over(b5, 24, f6)
           b7 == Over(b6, 26, f7)
           b8 == Over(b7, 28, f8)
<1>0. b8 = AprsPrepared(buf, fix, seq)
  BY DEF AprsPrepared
<1>1. Len(date) = 6
  BY DEF TwoDigits
<1>2. Len(f2) = 4 /\ Len(f3) = 4
  BY DEF base91_encode_latlon
<1>3. Len(f4) = 2 /\ Len(f5) = 2 /\ Len(f6) = 2 /\ Len(f7) = 2 /\ Len(f8) = 2
  BY DEF base91_encode_tlm
<1> HIDE DEF date, f2, f3, f4, f5, f6, f7, f8
<1>4. /\ IsPayload(b1)
      /\ \A k \in 1 .. 31 : b1[k] = IF 1 < k /\ k <= 7 THEN date[k - 1] ELSE buf[k]
  <2>1. Wrote(b1, buf, 1, date, 6)
    BY <1>1, OverWrites
  <2> QED BY <2>1 DEF Wrote
<1> HIDE DEF b1
<1>5. /\ IsPayload(b2)
      /\ \A k \in 1 .. 31 : b2[k] = IF 9 < k /\ k <= 13 THEN f2[k - 9] ELSE b1[k]
  <2>1. Wrote(b2, b1, 9, f2, 4)
    BY <1>2, <1>4, OverWrites
  <2> QED BY <2>1 DEF Wrote
<1> HIDE DEF b2
<1>6. /\ IsPayload(b3)
      /\ \A k \in 1 .. 31 : b3[k] = IF 13 < k /\ k <= 17 THEN f3[k - 13] ELSE b2[k]
  <2>1. Wrote(b3, b2, 13, f3, 4)
    BY <1>2, <1>5, OverWrites
  <2> QED BY <2>1 DEF Wrote
<1> HIDE DEF b3
<1>7. /\ IsPayload(b4)
      /\ \A k \in 1 .. 31 : b4[k] = IF 18 < k /\ k <= 20 THEN f4[k - 18] ELSE b3[k]
  <2>1. Wrote(b4, b3, 18, f4, 2)
    BY <1>3, <1>6, OverWrites
  <2> QED BY <2>1 DEF Wrote
<1> HIDE DEF b4
<1>8. /\ IsPayload(b5)
      /\ \A k \in 1 .. 31 : b5[k] = IF 22 < k /\ k <= 24 THEN f5[k - 22] ELSE b4[k]
  <2>1. Wrote(b5, b4, 22, f5, 2)
    BY <1>3, <1>7, OverWrites
  <2> QED BY <2>1 DEF Wrote
<1> HIDE DEF b5
<1>9. /\ IsPayload(b6)
      /\ \A k \in 1 .. 31 : b6[k] = IF 24 < k /\ k <= 26 THEN f6[k - 24] ELSE b5[k]
  <2>1. Wrote(b6, b5, 24, f6, 2)
    BY <1>3, <1>8, OverWrites
  <2> QED BY <2>1 DEF Wrote
<1> HIDE DEF b6
<1>10. /\ IsPayload(b7)
       /\ \A k \in 1 .. 31 : b7[k] = IF 26 < k /\ k <= 28 THEN f7[k - 26] ELSE b6[k]
  <2>1. Wrote(b7, b6, 26, f7, 2)
    BY <1>3, <1>9, OverWrites
  <2> QED BY <2>1 DEF Wrote
<1> HIDE DEF b7
<1>11. /\ IsPayload(b8)
       /\ \A k \in 1 .. 31 : b8[k] = IF 28 < k /\ k <= 30 THEN f8[k - 28] ELSE b7[k]
  <2>1. Wrote(b8, b7, 28, f8, 2)
    BY <1>3, <1>10, OverWrites
  <2> QED BY <2>1 DEF Wrote
<1> HIDE DEF b8
<1>12. \A k \in {1, 8, 9, 18, 21, 22, 31} : b8[k] = buf[k]
  <2>1. \A k \in 1 .. 31 : (\/ k = 1 \/ k = 8 \/ k = 9 \/ k = 18
                            \/ k = 21 \/ k = 22 \/ k = 31) => b8[k] = buf[k]
    BY <1>4, <1>5, <1>6, <1>7, <1>8, <1>9, <1>10, <1>11
  <2> QED BY <2>1
<1>13. \A k \in 1 .. 6 : b8[1 + k] = date[k]
  <2> SUFFICES ASSUME NEW k \in 1 .. 6 PROVE b8[1 + k] = date[k]
    OBVIOUS
  <2>1. b7[1 + k] = b8[1 + k] /\ b6[1 + k] = b7[1 + k] /\ b5[1 + k] = b6[1 + k]
    BY <1>9, <1>10, <1>11
  <2>2. b4[1 + k] = b5[1 + k] /\ b3[1 + k] = b4[1 + k] /\ b2[1 + k] = b3[1 + k]
    BY <1>6, <1>7, <1>8
  <2>3. b1[1 + k] = b2[1 + k] /\ b1[1 + k] = date[k]
    BY <1>4, <1>5
  <2> QED BY <2>1, <2>2, <2>3
<1>14. \A k \in 1 .. 4 : b8[9 + k] = f2[k] /\ b8[13 + k] = f3[k]
  <2> SUFFICES ASSUME NEW k \in 1 .. 4 PROVE b8[9 + k] = f2[k] /\ b8[13 + k] = f3[k]
    OBVIOUS
  <2>1. \A j \in {9 + k, 13 + k} : b8[j] = b6[j] /\ b6[j] = b4[j]
    BY <1>8, <1>9, <1>10, <1>11
  <2>2. \A j \in {9 + k, 13 + k} : b4[j] = b3[j]
    BY <1>7
  <2>3. b3[9 + k] = f2[k]
    BY <1>5, <1>6
  <2>4. b3[13 + k] = f3[k]
    BY <1>6
  <2> QED BY <2>1, <2>2, <2>3, <2>4
<1>15. \A k \in 1 .. 2 : b8[18 + k] = f4[k] /\ b8[22 + k] = f5[k]
  <2> SUFFICES ASSUME NEW k \in 1 .. 2 PROVE b8[18 + k] = f4[k] /\ b8[22 + k] = f5[k]
    OBVIOUS
  <2>1. \A j \in {18 + k, 22 + k} : b8[j] = b6[j] /\ b6[j] = b5[j]
    BY <1>9, <1>10, <1>11
  <2>2. b5[18 + k] = f4[k]
    BY <1>7, <1>8
  <2>3. b5[22 + k] = f5[k]
    BY <1>8
  <2> QED BY <2>1, <2>2, <2>3
<1>16. \A k \in 1 .. 2 : b8[24 + k] = f6[k] /\ b8[26 + k] = f7[k] /\ b8[28 + k] = f8[k]
  BY <1>9, <1>10, <1>11
<1> QED
  BY <1>0, <1>11, <1>12, <1>13, <1>14, <1>15, <1>16
     DEF Stands, At, date, f2, f3, f4, f5, f6, f7, f8

(* Base91 numbers are printable and decode to what was encoded.            *)
Printable(c) == c \in Nat /\ 33 <= c /\ c <= 124

LEMMA PairDecodes ==
  ASSUME NEW v \in Nat, v < 8281
  PROVE  LET e == base91_encode_tlm(v)
         IN  /\ Printable(e[1]) /\ Printable(e[2])
             /\ 91 * (e[1] - 33) + e[2] - 33 = v
<1>1. v % 8281 = v
  BY SMT
<1>2. /\ v \div 91 \in Nat /\ v \div 91 <= 90
      /\ v % 91 \in Nat /\ v % 91 <= 90
      /\ 91 * (v \div 91) + (v % 91) = v
  BY SMT
<1> DEFINE h == v \div 91
           l == v % 91
<1>3. base91_encode_tlm(v) = <<33 + h, 33 + l>>
  BY <1>1 DEF base91_encode_tlm
<1> HIDE DEF h, l
<1>4. h \in Nat /\ h <= 90 /\ l \in Nat /\ l <= 90 /\ 91 * h + l = v
  BY <1>2 DEF h, l
<1> QED BY <1>3, <1>4 DEF Printable

LEMMA QuadDecodes ==
  ASSUME NEW v \in Nat, v < 68574961
  PROVE  LET e == base91_encode_latlon(v)
         IN  /\ Printable(e[1]) /\ Printable(e[2])
             /\ Printable(e[3]) /\ Printable(e[4])
             /\ 8281 * (91 * (e[1] - 33) + e[2] - 33) + 91 * (e[3] - 33) + e[4] - 33 = v
<1> DEFINE q1 == v \div 91
           q2 == v \div 8281
           q3 == v \div 753571
<1>1. /\ 91 ^ 0 = 1 /\ 91 ^ 1 = 91 /\ 91 ^ 2 = 8281 /\ 91 ^ 3 = 753571
  BY SMT
<1>2. v \div 1 = v
  BY SMT
<1>3. /\ base91_encode_latlon(v)[1] = 33 + q3
      /\ base91_encode_latlon(v)[2] = 33 + (q2 % 91)
      /\ base91_encode_latlon(v)[3] = 33 + (q1 % 91)
      /\ base91_encode_latlon(v)[4] = 33 + (v % 91)
  BY <1>1, <1>2, SMT DEF base91_encode_latlon
<1>4. /\ q1 \in Nat /\ q2 \in Nat /\ q3 \in Nat
      /\ v = 91 * q1 + (v % 91)
      /\ q3 <= 90
  BY SMT
<1>5. q2 = q1 \div 91 /\ q3 = q2 \div 91
  BY SMT
<1> HIDE DEF q1, q2, q3
<1>6. q1 = 91 * q2 + (q1 % 91) /\ q2 = 91 * q3 + (q2 % 91)
  BY <1>4, <1>5, SMT
<1>7. /\ v % 91 \in Nat /\ v % 91 <= 90
      /\ q1 % 91 \in Nat /\ q1 % 91 <= 90
      /\ q2 % 91 \in Nat /\ q2 % 91 <= 90
  BY <1>4, SMT
<1>8. 8281 * (91 * q3 + (q2 % 91)) + 91 * (q1 % 91) + (v % 91) = v
  BY <1>4, <1>6, <1>7, SMT
<1>9. /\ Printable(33 + q3) /\ Printable(33 + (q2 % 91))
      /\ Printable(33 + (q1 % 91)) /\ Printable(33 + (v % 91))
  BY <1>4, <1>7, SMT DEF Printable
<1> QED BY <1>3, <1>4, <1>7, <1>8, <1>9, SMT

(* The digits of the date are printable.                                   *)
LEMMA DigitsPrintable ==
  ASSUME NEW d \in Nat, NEW h \in Nat, NEW m \in Nat
  PROVE  \A k \in 1 .. 6 :
           Printable((TwoDigits(d) \o TwoDigits(h) \o TwoDigits(m))[k])
<1>1. \A n \in Nat : \A k \in 1 .. 2 : TwoDigits(n)[k] \in Nat /\ Printable(TwoDigits(n)[k])
  BY DEF Printable, TwoDigits
<1>2. \A n \in Nat : Len(TwoDigits(n)) = 2
  BY DEF TwoDigits
<1>3. \A n \in Nat : TwoDigits(n) \in Seq(Nat)
  <2> SUFFICES ASSUME NEW n \in Nat PROVE TwoDigits(n) \in Seq(Nat)
    OBVIOUS
  <2> DEFINE a == 48 + ((n % 100) \div 10)
             b == 48 + (n % 10)
  <2>1. a \in Nat /\ b \in Nat
    OBVIOUS
  <2>2. TwoDigits(n) = <<a, b>>
    BY DEF TwoDigits
  <2> HIDE DEF a, b
  <2> QED BY <2>1, <2>2
<1> DEFINE x == TwoDigits(d)
           y == TwoDigits(h)
           z == TwoDigits(m)
<1>4. /\ x \in Seq(Nat) /\ y \in Seq(Nat) /\ z \in Seq(Nat)
      /\ Len(x) = 2 /\ Len(y) = 2 /\ Len(z) = 2
      /\ \A k \in 1 .. 2 : Printable(x[k]) /\ Printable(y[k]) /\ Printable(z[k])
  BY <1>1, <1>2, <1>3
<1> HIDE DEF x, y, z
<1>5. /\ x \o y \in Seq(Nat) /\ Len(x \o y) = 4
      /\ \A k \in 1 .. 4 : Printable((x \o y)[k])
  <2> DEFINE w == x \o y
  <2>1. /\ w \in Seq(Nat) /\ Len(w) = Len(x) + Len(y)
        /\ \A k \in 1 .. Len(x) + Len(y) :
             w[k] = IF k <= Len(x) THEN x[k] ELSE y[k - Len(x)]
    BY <1>4, ConcatProperties
  <2> HIDE DEF w
  <2>2. Len(w) = 4 /\ w[1] = x[1] /\ w[2] = x[2] /\ w[3] = y[1] /\ w[4] = y[2]
    BY <1>4, <2>1
  <2>3. \A k \in 1 .. 4 : Printable(w[k])
    BY <1>4, <2>2
  <2> QED BY <2>1, <2>2, <2>3 DEF w
<1>6. \A k \in 1 .. 6 : Printable(((x \o y) \o z)[k])
  BY <1>4, <1>5
<1> QED BY <1>6 DEF x, y, z

(* An encoded number stands in the payload as its receiver reads it.       *)
PairIs(p, at, v) == Pair(p, at) = v /\ Printable(p[at + 1]) /\ Printable(p[at + 2])
QuadIs(p, at, v) ==
  /\ Quad(p, at) = v
  /\ Printable(p[at + 1]) /\ Printable(p[at + 2])
  /\ Printable(p[at + 3]) /\ Printable(p[at + 4])

LEMMA PairStands ==
  ASSUME NEW p, NEW at \in {18, 22, 24, 26, 28}, NEW v \in Nat, v < 8281,
         At(p, at, base91_encode_tlm(v), 2)
  PROVE  PairIs(p, at, v)
<1>1. p[at + 1] = base91_encode_tlm(v)[1] /\ p[at + 2] = base91_encode_tlm(v)[2]
  BY DEF At
<1> QED BY <1>1, PairDecodes DEF Pair, PairIs

LEMMA QuadStands ==
  ASSUME NEW p, NEW at \in {9, 13}, NEW v \in Nat, v < 68574961,
         At(p, at, base91_encode_latlon(v), 4)
  PROVE  QuadIs(p, at, v)
<1>1. /\ p[at + 1] = base91_encode_latlon(v)[1] /\ p[at + 2] = base91_encode_latlon(v)[2]
      /\ p[at + 3] = base91_encode_latlon(v)[3] /\ p[at + 4] = base91_encode_latlon(v)[4]
  BY SMT DEF At
<1> DEFINE e1 == base91_encode_latlon(v)[1]
           e2 == base91_encode_latlon(v)[2]
           e3 == base91_encode_latlon(v)[3]
           e4 == base91_encode_latlon(v)[4]
<1>2. /\ Printable(e1) /\ Printable(e2) /\ Printable(e3) /\ Printable(e4)
      /\ 8281 * (91 * (e1 - 33) + e2 - 33) + 91 * (e3 - 33) + e4 - 33 = v
  BY QuadDecodes, SMT
<1> HIDE DEF e1, e2, e3, e4
<1>3. p[at + 1] = e1 /\ p[at + 2] = e2 /\ p[(at + 2) + 1] = e3 /\ p[(at + 2) + 2] = e4
  BY <1>1, SMT DEF e1, e2, e3, e4
<1>4. Quad(p, at) = v
  BY <1>2, <1>3, SMT DEF Quad, Pair, Printable
<1> QED BY <1>2, <1>3, <1>4, SMT DEF QuadIs

(* All of it stands in a payload, whatever the buffer was before.          *)
Fixed(buf) == \A k \in {1, 8, 9, 18, 21, 22, 31} : buf[k] = AprsTemplate[k]

Decodes(buf, fix, seq) ==
  /\ Quad(buf, 9) = fix.lat91 /\ Quad(buf, 13) = fix.lon91
  /\ Pair(buf, 18) = fix.alt91 /\ Pair(buf, 22) = seq
  /\ Pair(buf, 24) = fix.temperature_int + APRS_TLM_TEMP_OFFSET
  /\ Pair(buf, 26) = fix.voltage_bat /\ Pair(buf, 28) = fix.voltage_sol
  /\ \A k \in 2 .. 7 : Printable(buf[k])
  /\ \A k \in 10 .. 17 : Printable(buf[k])
  /\ \A k \in 19 .. 20 : Printable(buf[k])
  /\ \A k \in 23 .. 30 : Printable(buf[k])

LEMMA PayloadStands ==
  ASSUME NEW buf, IsPayload(buf), Fixed(buf),
         NEW fix \in Fixes \cup {UsualFix}, NEW seq \in Nat, seq < SeqLimit
  PROVE  LET p == AprsPrepared(buf, fix, seq)
         IN  IsPayload(p) /\ Fixed(p) /\ Decodes(p, fix, seq)
<1> DEFINE p == AprsPrepared(buf, fix, seq)
           t == fix.temperature_int + APRS_TLM_TEMP_OFFSET
<1>0. fix.day \in Nat /\ fix.hour \in Nat /\ fix.min \in Nat
  BY TelemetryAssumption, SMT
<1>1. /\ fix.lat91 \in Nat /\ fix.lat91 < 68574961
      /\ fix.lon91 \in Nat /\ fix.lon91 < 68574961
      /\ fix.alt91 \in Nat /\ fix.alt91 < 8281
      /\ t \in Nat /\ t < 8281
      /\ fix.voltage_bat \in Nat /\ fix.voltage_bat < 8281
      /\ fix.voltage_sol \in Nat /\ fix.voltage_sol < 8281
  <2>1. fix.temperature_int \in -100 .. 100
    BY TelemetryAssumption, SMT
  <2>2. t \in Nat /\ t < 8281
    BY <2>1 DEF APRS_TLM_TEMP_OFFSET
  <2>3. fix.lat91 \in Nat /\ fix.lat91 < 68574961 /\ fix.lon91 \in Nat
    BY TelemetryAssumption, SMT
  <2>4. fix.lon91 < 68574961 /\ fix.alt91 \in Nat /\ fix.alt91 < 8281
    BY TelemetryAssumption, SMT
  <2>5. fix.voltage_bat \in Nat /\ fix.voltage_bat < 8281
    BY TelemetryAssumption, SMT
  <2>6. fix.voltage_sol \in Nat /\ fix.voltage_sol < 8281
    BY TelemetryAssumption, SMT
  <2> QED BY <2>2, <2>3, <2>4, <2>5, <2>6
<1>2. Stands(p, buf, fix, seq)
  BY FieldsStand
<1> HIDE DEF p
<1>3. IsPayload(p) /\ Fixed(p)
  BY <1>2 DEF Stands, Fixed
<1>4. /\ At(p, 1, TwoDigits(fix.day) \o TwoDigits(fix.hour) \o TwoDigits(fix.min), 6)
      /\ At(p, 9, base91_encode_latlon(fix.lat91), 4)
      /\ At(p, 13, base91_encode_latlon(fix.lon91), 4)
      /\ At(p, 18, base91_encode_tlm(fix.alt91), 2)
      /\ At(p, 22, base91_encode_tlm(seq), 2)
      /\ At(p, 24, base91_encode_tlm(t), 2)
      /\ At(p, 26, base91_encode_tlm(fix.voltage_bat), 2)
      /\ At(p, 28, base91_encode_tlm(fix.voltage_sol), 2)
  BY <1>2 DEF Stands
<1> HIDE DEF t
<1>5. \A k \in 1 .. 6 : Printable(p[1 + k])
  <2> DEFINE date == TwoDigits(fix.day) \o TwoDigits(fix.hour) \o TwoDigits(fix.min)
  <2>1. \A k \in 1 .. 6 : Printable(date[k])
    BY <1>0, DigitsPrintable, Zenon
  <2>2. \A k \in 1 .. 6 : p[1 + k] = date[k]
    BY <1>4 DEF At
  <2> HIDE DEF date
  <2> QED BY <2>1, <2>2, Zenon
<1>6. QuadIs(p, 9, fix.lat91) /\ QuadIs(p, 13, fix.lon91)
  BY <1>1, <1>4, QuadStands, SMT
<1>7. PairIs(p, 18, fix.alt91)
  BY <1>1, <1>4, PairStands, SMT
<1>8. PairIs(p, 22, seq)
  BY <1>4, TelemetryAssumption, PairStands, SMT
<1>9. PairIs(p, 24, t)
  BY <1>1, <1>4, PairStands, SMT
<1>10. PairIs(p, 26, fix.voltage_bat)
  BY <1>1, <1>4, PairStands, SMT
<1>11. PairIs(p, 28, fix.voltage_sol)
  BY <1>1, <1>4, PairStands, SMT
<1>12. \A k \in 2 .. 7 : Printable(p[k])
  <2> SUFFICES ASSUME NEW k \in 2 .. 7 PROVE Printable(p[k])
    OBVIOUS
  <2>1. k - 1 \in 1 .. 6 /\ k = 1 + (k - 1)
    OBVIOUS
  <2> QED BY <1>5, <2>1
<1>13. \A k \in 10 .. 17 : Printable(p[k])
  BY <1>6 DEF QuadIs
<1>14. \A k \in 19 .. 20 : Printable(p[k])
  BY <1>7 DEF PairIs
<1>15. \A k \in 23 .. 30 : Printable(p[k])
  BY <1>8, <1>9, <1>10, <1>11 DEF PairIs
<1>16. /\ Quad(p, 9) = fix.lat91 /\ Quad(p, 13) = fix.lon91
       /\ Pair(p, 18) = fix.alt91 /\ Pair(p, 22) = seq /\ Pair(p, 24) = t
       /\ Pair(p, 26) = fix.voltage_bat /\ Pair(p, 28) = fix.voltage_sol
  BY <1>6, <1>7, <1>8, <1>9, <1>10, <1>11 DEF PairIs, QuadIs
<1> QED
  BY <1>3, <1>12, <1>13, <1>14, <1>15, <1>16 DEF Decodes, p, t

(* The number of the regular frames follows the sentence id, modulo the    *)
(* base91 pair, and only they advance it.                                  *)
PayloadInv ==
  /\ IsPayload(aprs_buf) /\ Fixed(aprs_buf)
  /\ sent_id \in Nat /\ sent_id <= MaxSentences
  /\ aprs_seqnum = sent_id % SeqLimit
  /\ from # "none" =>
       Decodes(aprs_buf, sent, IF from = "backlog" THEN 0 ELSE sent_id % SeqLimit)

LEMMA PayloadInvInit == TelemetryInit => PayloadInv
<1> SUFFICES ASSUME TelemetryInit PROVE PayloadInv
  OBVIOUS
<1>1. IsPayload(AprsTemplate) /\ Fixed(AprsTemplate)
  BY DEF AprsTemplate, IsPayload, Fixed
<1>2. 0 % SeqLimit = 0
  BY TelemetryAssumption, SMT
<1>3. 0 \in Nat /\ 0 <= MaxSentences
  BY TelemetryAssumption, SMT
<1> QED BY <1>1, <1>2, <1>3 DEF TelemetryInit, PayloadInv

LEMMA PayloadInvNext == PayloadInv /\ [TelemetryNext]_telemetryVars => PayloadInv'
<1> SUFFICES ASSUME PayloadInv, [TelemetryNext]_telemetryVars PROVE PayloadInv'
  OBVIOUS
<1>1. Deliverable \subseteq Fixes \cup {UsualFix} /\ Stored \subseteq Fixes \cup {UsualFix}
  BY DEF Deliverable, Stored
<1>2. ASSUME NEW fix \in Deliverable, Regular(fix) PROVE PayloadInv'
  <2>1. fix \in Fixes \cup {UsualFix} /\ fix.type \in Nat
    BY <1>1, TelemetryAssumption, SMT
  <2>2. CASE ~(fix.type > 2)
    <3>1. /\ from' = "none" /\ sent_id' = sent_id
          /\ aprs_seqnum' = aprs_seqnum /\ aprs_buf' = aprs_buf
      BY <1>2, <2>2 DEF Regular
    <3> QED BY <3>1 DEF PayloadInv
  <2>3. CASE fix.type > 2
    <3>1. AprsUsable(fix)
      BY <2>1, <2>3 DEF AprsUsable
    <3>2. /\ from' = "current" /\ sent' = fix
          /\ aprs_seqnum' = NextSeqnum(aprs_seqnum, FALSE)
          /\ aprs_buf' = AprsPrepared(aprs_buf, fix, SeqField(aprs_seqnum, FALSE))
      BY <1>2, <2>3, <3>1 DEF Regular
    <3>3. sent_id' = sent_id + 1 /\ sent_id' \in Nat /\ sent_id' <= MaxSentences
      <4>1. sent_id \in Nat /\ sent_id < MaxSentences /\ MaxSentences \in Nat /\ MaxSentences <= 65535
        BY <1>2, TelemetryAssumption, SMT DEF Regular, PayloadInv
      <4>2. sent_id' = (sent_id + 1) % 65536
        BY <1>2, <2>3, SMT DEF Regular, Uint16
      <4> QED BY <4>1, <4>2, SMT
    <3>4. aprs_seqnum' = sent_id' % SeqLimit
      <4>1. NextSeqnum(aprs_seqnum, FALSE) = ((sent_id % SeqLimit) + 1) % SeqLimit
        BY TelemetryAssumption, SMT DEF NextSeqnum, PayloadInv
      <4>2. sent_id \in Nat
        BY DEF PayloadInv
      <4>3. ((sent_id % SeqLimit) + 1) % SeqLimit = (sent_id + 1) % SeqLimit
        BY <4>2, TelemetryAssumption, SMT
      <4>4. aprs_seqnum' = NextSeqnum(aprs_seqnum, FALSE) /\ sent_id' = sent_id + 1
        BY <3>2, <3>3
      <4> QED BY <4>1, <4>3, <4>4, Zenon
    <3>5. SeqField(aprs_seqnum, FALSE) = aprs_seqnum'
      BY <3>2 DEF SeqField
    <3>6. aprs_seqnum' \in Nat /\ aprs_seqnum' < SeqLimit
      BY <3>3, <3>4, TelemetryAssumption, SMT
    <3>7. IsPayload(aprs_buf) /\ Fixed(aprs_buf)
      BY DEF PayloadInv
    <3>8. aprs_buf' = AprsPrepared(aprs_buf, fix, aprs_seqnum')
      BY <3>2, <3>5
    <3>9. IsPayload(aprs_buf') /\ Fixed(aprs_buf') /\ Decodes(aprs_buf', fix, aprs_seqnum')
      <4> DEFINE seq == aprs_seqnum'
                 buf == aprs_buf
      <4> HIDE DEF seq, buf
      <4>1. seq \in Nat /\ seq < SeqLimit /\ IsPayload(buf) /\ Fixed(buf)
        BY <3>6, <3>7 DEF seq, buf
      <4>2. LET p == AprsPrepared(buf, fix, seq)
            IN  IsPayload(p) /\ Fixed(p) /\ Decodes(p, fix, seq)
        BY <2>1, <4>1, PayloadStands
      <4> QED BY <3>8, <4>2 DEF seq, buf
    <3>10. from' # "backlog" /\ sent' = fix
      BY <3>2
    <3>11. Decodes(aprs_buf', sent', IF from' = "backlog" THEN 0 ELSE sent_id' % SeqLimit)
      BY <3>4, <3>9, <3>10, Zenon
    <3> QED BY <3>3, <3>4, <3>9, <3>11, Zenon DEF PayloadInv
  <2> QED BY <2>2, <2>3
<1>3. ASSUME NEW fix \in Stored, Backlog(fix) PROVE PayloadInv'
  <2>1. fix \in Fixes \cup {UsualFix}
    BY <1>1
  <2>2. /\ from' = "backlog" /\ sent' = fix /\ sent_id' = sent_id
        /\ aprs_seqnum' = aprs_seqnum
        /\ aprs_buf' = AprsPrepared(aprs_buf, fix, 0)
    BY <1>3 DEF Backlog, NextSeqnum, SeqField
  <2>3. IsPayload(aprs_buf') /\ Fixed(aprs_buf') /\ Decodes(aprs_buf', fix, 0)
    <3>1. 0 \in Nat /\ 0 < SeqLimit
      BY TelemetryAssumption, SMT
    <3>2. LET p == AprsPrepared(aprs_buf, fix, 0)
          IN  IsPayload(p) /\ Fixed(p) /\ Decodes(p, fix, 0)
      BY <2>1, <3>1, PayloadStands DEF PayloadInv
    <3> QED BY <2>2, <3>2
  <2> QED BY <2>2, <2>3 DEF PayloadInv
<1>4. CASE UNCHANGED telemetryVars
  BY <1>4 DEF telemetryVars, PayloadInv, IsPayload, Fixed, Decodes, Quad, Pair
<1> QED BY <1>2, <1>3, <1>4 DEF TelemetryNext

LEMMA PayloadInvSound == PayloadInv => PayloadDecodes
<1> SUFFICES ASSUME PayloadInv, from # "none" PROVE PayloadDecodes
  BY DEF PayloadDecodes
<1>2. \A c : Printable(c) => c \in 33 .. 124
  BY DEF Printable
<1>3. \A k \in {1, 8, 9, 18, 21, 22, 31} : aprs_buf[k] \in 33 .. 124
  BY DEF PayloadInv, Fixed, AprsTemplate
<1>4. /\ \A k \in 2 .. 7 : aprs_buf[k] \in 33 .. 124
      /\ \A k \in 10 .. 17 : aprs_buf[k] \in 33 .. 124
      /\ \A k \in 19 .. 20 : aprs_buf[k] \in 33 .. 124
      /\ \A k \in 23 .. 30 : aprs_buf[k] \in 33 .. 124
  BY <1>2 DEF PayloadInv, Decodes
<1>5. \A k \in 1 .. 31 : \/ k \in {1, 8, 9, 18, 21, 22, 31}
                         \/ k \in 2 .. 7 \/ k \in 10 .. 17
                         \/ k \in 19 .. 20 \/ k \in 23 .. 30
  OBVIOUS
<1>6. \A k \in 1 .. 31 : aprs_buf[k] \in 33 .. 124
  BY <1>3, <1>4, <1>5
<1> QED BY <1>6 DEF PayloadInv, PayloadDecodes, Decodes, Fixed

(* A receiver decodes of every payload the values of its fix, and the      *)
(* frames of the current fix are numbered without a gap.                   *)
THEOREM PayloadsDecode == TelemetrySpec => []PayloadDecodes
<1>1. TelemetryInit => PayloadInv
  BY PayloadInvInit
<1>2. PayloadInv /\ [TelemetryNext]_telemetryVars => PayloadInv'
  BY PayloadInvNext
<1>3. PayloadInv => PayloadDecodes
  BY PayloadInvSound
<1>4. QED
  BY <1>1, <1>2, <1>3, PTL DEF TelemetrySpec

----------------------------------------------------------------------------
(* The numbers of a sentence.  Appending a digit to a number.              *)
LEMMA NumberAt ==
  ASSUME NEW n, NEW w, NEW k \in 1 .. w
  PROVE  NumberOf(n, w)[k] = 48 + ((n \div (10 ^ (w - k))) % 10)
BY DEF NumberOf

Longer(y, x, c) == y = Append(x, c)

LEMMA NumberAppends ==
  ASSUME NEW p \in Nat, NEW d \in Nat, d <= 9, NEW w \in Nat, 1 <= w, w <= 4,
         NEW q, q = 10 * p + d, NEW v, v = w + 1
  PROVE  Longer(NumberOf(q, v), NumberOf(p, w), 48 + d)
<1>1. /\ 10 ^ 0 = 1 /\ 10 ^ 1 = 10 /\ 10 ^ 2 = 100 /\ 10 ^ 3 = 1000 /\ 10 ^ 4 = 10000
  BY SMT
<1>2. \A j \in 0 .. 3 : q \div (10 ^ (j + 1)) = p \div (10 ^ j)
  <2> SUFFICES ASSUME NEW j \in 0 .. 3
               PROVE  q \div (10 ^ (j + 1)) = p \div (10 ^ j)
    OBVIOUS
  <2>1. /\ q \div 10 = p \div 1 /\ q \div 100 = p \div 10
        /\ q \div 1000 = p \div 100 /\ q \div 10000 = p \div 1000
    BY SMT
  <2>2. CASE j = 0
    BY <1>1, <2>1, <2>2
  <2>3. CASE j = 1
    BY <1>1, <2>1, <2>3
  <2>4. CASE j = 2
    BY <1>1, <2>1, <2>4
  <2>5. CASE j = 3
    BY <1>1, <2>1, <2>5
  <2> QED BY <2>2, <2>3, <2>4, <2>5
<1>3. q \in Nat /\ w \in 1 .. 6 /\ v \in 1 .. 6 /\ (q \div 1) % 10 = d
  BY SMT
<1> DEFINE x == NumberOf(p, w)
           y == NumberOf(q, v)
<1>4. x \in Seq(Int) /\ Len(x) = w /\ y \in Seq(Int) /\ Len(y) = v
  BY <1>3, NumberTyped
<1>5. \A k \in 1 .. w : y[k] = x[k]
  <2> SUFFICES ASSUME NEW k \in 1 .. w PROVE y[k] = x[k]
    OBVIOUS
  <2>1. w - k \in 0 .. 3 /\ v - k = (w - k) + 1 /\ k \in 1 .. v
    OBVIOUS
  <2>2. q \div (10 ^ (v - k)) = p \div (10 ^ (w - k))
    BY <1>2, <2>1
  <2>3. y[k] = 48 + ((q \div (10 ^ (v - k))) % 10)
    BY <2>1, NumberAt
  <2>4. x[k] = 48 + ((p \div (10 ^ (w - k))) % 10)
    BY NumberAt
  <2> QED BY <2>2, <2>3, <2>4
<1>6. y[v] = 48 + d
  <2>1. v \in 1 .. v /\ v - v = 0
    OBVIOUS
  <2>2. y[v] = 48 + ((q \div (10 ^ (v - v))) % 10)
    BY <2>1, NumberAt
  <2> QED BY <1>1, <1>3, <2>1, <2>2
<1> HIDE DEF x, y
<1>7. Append(x, 48 + d) \in Seq(Int) /\ Len(Append(x, 48 + d)) = v
  BY <1>4, AppendProperties
<1>8. \A k \in 1 .. v : Append(x, 48 + d)[k] = IF k = v THEN 48 + d ELSE x[k]
  BY <1>4
<1>9. \A k \in 1 .. Len(y) : y[k] = Append(x, 48 + d)[k]
  BY <1>4, <1>5, <1>6, <1>8
<1>10. y = Append(x, 48 + d)
  BY <1>4, <1>7, <1>9, SeqEqual
<1> QED BY <1>10 DEF Longer, x, y

In16(n) == n <= 65535

(* What is written of a number when its leading zeros are left out.        *)
Written(p) == IF p = 0 THEN <<>> ELSE NumberOf(p, WidthOf(p))

LEMMA WrittenAppends ==
  ASSUME NEW p \in Nat, p # 0, NEW d \in 0 .. 9, NEW q \in Nat, In16(q),
         q = 10 * p + d
  PROVE  Written(p) # <<>> /\ Written(q) = Append(Written(p), 48 + d)
<1>1. p <= 6553 /\ q <= 65535
  BY SMT DEF In16
<1> DEFINE w == WidthOf(p)
           v == WidthOf(q)
<1>2. w \in 1 .. 4 /\ v = w + 1
  BY <1>1, WidthIs, SMT
<1> HIDE DEF w, v
<1>3. Longer(NumberOf(q, v), NumberOf(p, w), 48 + d)
  <2>1. d \in Nat /\ d <= 9 /\ w \in Nat /\ 1 <= w /\ w <= 4 /\ v = w + 1
    BY <1>2
  <2> QED BY <2>1, NumberAppends
<1>4. w \in 1 .. 6 /\ w # 0 /\ q # 0
  BY <1>2
<1> DEFINE x == NumberOf(p, w)
<1>5. Len(x) = w
  BY <1>4, NumberTyped, Zenon
<1> HIDE DEF x
<1>6. x # <<>>
  BY <1>4, <1>5
<1> QED BY <1>3, <1>4, <1>6 DEF Longer, Written, w, v, x

LEMMA DigitStep ==
  ASSUME NEW p \in Nat, NEW r \in Nat, NEW m \in Nat \ {0},
         NEW q \in Nat, In16(q), NEW s, r \div m <= 9,
         q = 10 * p + (r \div m), s = r % m
  PROVE  Digit([rest |-> r, out |-> Written(p)], m) = [rest |-> s, out |-> Written(q)]
<1> DEFINE d == r \div m
<1>1. d \in 0 .. 9 /\ q = 10 * p + d
  OBVIOUS
<1>2. r >= m <=> d # 0
  OBVIOUS
<1>3. Digit([rest |-> r, out |-> Written(p)], m)
        = [rest |-> s, out |-> IF Written(p) # <<>> \/ d # 0
                                 THEN Append(Written(p), 48 + d) ELSE <<>>]
  BY <1>2 DEF Digit
<1> HIDE DEF d
<1>4. CASE p = 0
  <2>1. Written(p) = <<>>
    BY <1>4 DEF Written
  <2>2. q = d
    BY <1>1, <1>4
  <2>3. CASE d = 0
    BY <1>3, <2>1, <2>2, <2>3 DEF Written
  <2>4. CASE d # 0
    <3>1. WidthOf(d) = 1
      BY <1>1, WidthIs, SMT
    <3>2. NumberOf(d, 1) = <<48 + d>>
      <4>1. 10 ^ 0 = 1 /\ (d \div 1) % 10 = d
        BY <1>1, SMT
      <4> QED BY <4>1 DEF NumberOf
    <3>3. Written(q) = <<48 + d>>
      BY <2>2, <2>4, <3>1, <3>2 DEF Written
    <3> QED BY <1>3, <2>1, <2>4, <3>3
  <2> QED BY <2>3, <2>4
<1>5. CASE p # 0
  BY <1>1, <1>3, <1>5, WrittenAppends
<1> QED BY <1>4, <1>5

LEMMA WritesItsWidth ==
  ASSUME NEW n \in Nat, n <= 65535
  PROVE  i16toav(n) = NumberOf(n, WidthOf(n))
<1>0. Written(0) = <<>>
  BY DEF Written
<1>1. Digit([rest |-> n, out |-> <<>>], 10000)
        = [rest |-> n % 10000, out |-> Written(n \div 10000)]
  <2> DEFINE p == 0
             r == n
             q == n \div 10000
             s == n % 10000
  <2>1. p \in Nat /\ r \in Nat /\ q \in Nat /\ In16(q) /\ r \div 10000 <= 9
    BY SMT DEF In16
  <2>2. q = 10 * p + (r \div 10000)
    BY SMT
  <2>3. s = r % 10000
    BY SMT
  <2> HIDE DEF p, r, q, s
  <2>4. Digit([rest |-> r, out |-> Written(p)], 10000) = [rest |-> s, out |-> Written(q)]
    BY <2>1, <2>2, <2>3, DigitStep, SMT
  <2> QED BY <1>0, <2>4 DEF p, r, q, s
<1>2. Digit([rest |-> n % 10000, out |-> Written(n \div 10000)], 1000)
        = [rest |-> n % 1000, out |-> Written(n \div 1000)]
  <2> DEFINE p == n \div 10000
             r == n % 10000
             q == n \div 1000
             s == n % 1000
  <2>1. p \in Nat /\ r \in Nat /\ q \in Nat /\ In16(q) /\ r \div 1000 <= 9
    BY SMT DEF In16
  <2>2. q = 10 * p + (r \div 1000)
    BY SMT
  <2>3. s = r % 1000
    BY SMT
  <2> HIDE DEF p, r, q, s
  <2>4. Digit([rest |-> r, out |-> Written(p)], 1000) = [rest |-> s, out |-> Written(q)]
    BY <2>1, <2>2, <2>3, DigitStep, SMT
  <2> QED BY <2>4 DEF p, r, q, s
<1>3. Digit([rest |-> n % 1000, out |-> Written(n \div 1000)], 100)
        = [rest |-> n % 100, out |-> Written(n \div 100)]
  <2> DEFINE p == n \div 1000
             r == n % 1000
             q == n \div 100
             s == n % 100
  <2>1. p \in Nat /\ r \in Nat /\ q \in Nat /\ In16(q) /\ r \div 100 <= 9
    BY SMT DEF In16
  <2>2. q = 10 * p + (r \div 100)
    BY SMT
  <2>3. s = r % 100
    BY SMT
  <2> HIDE DEF p, r, q, s
  <2>4. Digit([rest |-> r, out |-> Written(p)], 100) = [rest |-> s, out |-> Written(q)]
    BY <2>1, <2>2, <2>3, DigitStep, SMT
  <2> QED BY <2>4 DEF p, r, q, s
<1>4. Digit([rest |-> n % 100, out |-> Written(n \div 100)], 10)
        = [rest |-> n % 10, out |-> Written(n \div 10)]
  <2> DEFINE p == n \div 100
             r == n % 100
             q == n \div 10
             s == n % 10
  <2>1. p \in Nat /\ r \in Nat /\ q \in Nat /\ In16(q) /\ r \div 10 <= 9
    BY SMT DEF In16
  <2>2. q = 10 * p + (r \div 10)
    BY SMT
  <2>3. s = r % 10
    BY SMT
  <2> HIDE DEF p, r, q, s
  <2>4. Digit([rest |-> r, out |-> Written(p)], 10) = [rest |-> s, out |-> Written(q)]
    BY <2>1, <2>2, <2>3, DigitStep, SMT
  <2> QED BY <2>4 DEF p, r, q, s
<1>5. Digit([rest |-> n % 10, out |-> Written(n \div 10)], 1)
        = [rest |-> 0, out |-> Written(n)]
  <2> DEFINE p == n \div 10
             r == n % 10
             q == n
             s == 0
  <2>1. p \in Nat /\ r \in Nat /\ q \in Nat /\ In16(q) /\ r \div 1 <= 9
    BY SMT DEF In16
  <2>2. q = 10 * p + (r \div 1)
    BY SMT
  <2>3. s = r % 1
    BY SMT
  <2> HIDE DEF p, r, q, s
  <2>4. Digit([rest |-> r, out |-> Written(p)], 1) = [rest |-> s, out |-> Written(q)]
    BY <2>1, <2>2, <2>3, DigitStep, SMT
  <2> QED BY <2>4 DEF p, r, q, s
<1>6. Digits(n) = Written(n)
  BY <1>1, <1>2, <1>3, <1>4, <1>5, SMT DEF Digits
<1>7. CASE n = 0
  <2>1. WidthOf(n) = 1
    BY <1>7, WidthIs
  <2>2. 10 ^ 0 = 1 /\ (0 \div 1) % 10 = 0
    BY SMT
  <2>3. NumberOf(n, 1) = <<48>>
    BY <1>7, <2>2 DEF NumberOf
  <2> QED BY <1>7, <2>1, <2>3 DEF i16toav
<1>8. CASE n # 0
  BY <1>6, <1>8 DEF i16toav, Written
<1> QED BY <1>7, <1>8

----------------------------------------------------------------------------
(* The coordinates.  The powers of ten as the code has them, in 32 bits.   *)
Tens == <<1, 10, 100, 1000, 10000, 100000, 1000000, 10000000, 100000000,
          1000000000, 1410065408>>

LEMMA MultIsTens == \A n \in 0 .. 10 : Mult[n] = Tens[n + 1]
<1> DEFINE g == [n \in 0 .. 10 |-> Tens[n + 1]]
           IsMult(f) == f = [n \in 0 .. 10 |-> IF n = 0 THEN 1 ELSE Times10(f[n - 1])]
<1>1. \A n \in 0 .. 10 : Tens[n + 1] = IF n = 0 THEN 1 ELSE Times10(Tens[n])
  BY SMTT(60) DEF Times10, Tens
<1>2. IsMult(g)
  <2>1. \A n \in 0 .. 10 : n # 0 => g[n - 1] = Tens[n]
    OBVIOUS
  <2> QED BY <1>1, <2>1
<1>3. IsMult(CHOOSE f : IsMult(f))
  BY <1>2
<1>4. Mult = CHOOSE f : IsMult(f)
  BY DEF Mult
<1>5. IsMult(Mult)
  BY <1>3, <1>4
<1> HIDE DEF Mult
<1>6. Mult[0] = Tens[1]
  BY <1>5 DEF Tens
<1>7. \A n \in 1 .. 10 : Mult[n - 1] = Tens[n] => Mult[n] = Tens[n + 1]
  BY <1>1, <1>5
<1> HIDE DEF IsMult
<1>8. /\ Mult[1] = Tens[2] /\ Mult[2] = Tens[3] /\ Mult[3] = Tens[4] /\ Mult[4] = Tens[5]
      /\ Mult[5] = Tens[6] /\ Mult[6] = Tens[7] /\ Mult[7] = Tens[8] /\ Mult[8] = Tens[9]
      /\ Mult[9] = Tens[10] /\ Mult[10] = Tens[11]
  BY <1>6, <1>7
<1> QED BY <1>6, <1>8

(* A coordinate in tx_buf: the sign, the digits, and the dot moved in.     *)
Field(v, digits) ==
  LET d == i32toa(Abs(v), digits)
  IN  [j \in 1 .. digits + 1 |-> IF j = 1 THEN Sign(v)[1]
                                 ELSE IF j < digits - 5 THEN d[j - 1]
                                 ELSE IF j = digits - 5 THEN DOT ELSE d[j - 2]]

LEMMA CoordinatePut ==
  ASSUME NEW buf, NEW at \in Nat, NEW v, NEW digits \in Nat, digits >= 9
  PROVE  PutCoordinate(buf, at, v, digits) = Put(buf, at, Append(Field(v, digits), COMMA))
<1> DEFINE d == i32toa(Abs(v), digits)
           sign == Sign(v)[1]
           S == Int \cup {d[j] : j \in 1 .. digits}
           dot == at + digits - 6
           signed == Sign(v) \o d
           written == Put(buf, at, signed)
           moved == MoveUp(written, dot, at + digits - 1)
           placed == Put(moved, dot, <<DOT>>)
           field == Field(v, digits)
           line == Append(field, COMMA)
<1>1. /\ Len(signed) = digits + 1
      /\ \A j \in 1 .. digits + 1 : signed[j] = IF j = 1 THEN sign ELSE d[j - 1]
  <2> DEFINE x == Sign(v)
  <2>1. x \in Seq(S) /\ Len(x) = 1 /\ x[1] = sign
    BY DEF Sign, PLUS, MINUS
  <2>2. d = [j \in 1 .. digits |-> d[j]]
    BY DEF i32toa
  <2> HIDE DEF x, d, sign
  <2>3. d \in Seq(S) /\ Len(d) = digits
    <3>1. d \in [1 .. digits -> S]
      BY <2>2
    <3> QED BY <3>1
  <2> HIDE DEF S
  <2> DEFINE z == x \o d
  <2>4. /\ Len(z) = Len(x) + Len(d)
        /\ \A j \in 1 .. Len(x) + Len(d) : z[j] = IF j <= Len(x) THEN x[j] ELSE d[j - Len(x)]
    BY <2>1, <2>3, ConcatProperties
  <2> HIDE DEF z
  <2>5. /\ Len(z) = digits + 1
        /\ \A j \in 1 .. digits + 1 : z[j] = IF j = 1 THEN sign ELSE d[j - 1]
    BY <2>1, <2>3, <2>4
  <2> QED BY <2>5 DEF z, x
<1>2. /\ Len(line) = digits + 2
      /\ \A j \in 1 .. digits + 2 :
           line[j] = IF j = 1 THEN sign ELSE IF j < digits - 5 THEN d[j - 1]
                     ELSE IF j = digits - 5 THEN DOT
                     ELSE IF j = digits + 2 THEN COMMA ELSE d[j - 2]
  <2>1. field = [j \in 1 .. digits + 1 |->
                   IF j = 1 THEN sign ELSE IF j < digits - 5 THEN d[j - 1]
                   ELSE IF j = digits - 5 THEN DOT ELSE d[j - 2]]
    BY DEF Field
  <2> DEFINE T == S \cup {sign, DOT, COMMA}
  <2>2. \A j \in 1 .. digits : d[j] \in T
    OBVIOUS
  <2> HIDE DEF d, sign, field
  <2>3. field \in [1 .. digits + 1 -> T]
    <3>1. ASSUME NEW j \in 1 .. digits + 1
          PROVE  field[j] \in T
      <4>1. CASE j = 1
        BY <2>1, <4>1
      <4>2. CASE j # 1 /\ j < digits - 5
        BY <2>1, <2>2, <4>2
      <4>3. CASE j = digits - 5
        BY <2>1, <4>3
      <4>4. CASE j > digits - 5
        BY <2>1, <2>2, <4>4
      <4> QED BY <4>1, <4>2, <4>3, <4>4
    <3> QED BY <2>1, <3>1
  <2>4. COMMA \in T
    OBVIOUS
  <2> HIDE DEF T
  <2>5. field \in Seq(T) /\ Len(field) = digits + 1
    BY <2>3
  <2>6. /\ Len(line) = digits + 2
        /\ \A j \in 1 .. digits + 1 : line[j] = field[j]
        /\ line[digits + 2] = COMMA
    BY <2>4, <2>5, AppendProperties
  <2> HIDE DEF line
  <2> QED BY <2>1, <2>6
<1>3. PutCoordinate(buf, at, v, digits) = Put(placed, at + digits + 1, <<COMMA>>)
  BY DEF PutCoordinate
<1> HIDE DEF d, sign, signed, line
<1>4. \A k \in Memory :
        written[k] = IF at <= k /\ k <= at + digits THEN signed[k - at + 1] ELSE buf[k]
  BY <1>1 DEF Put, Memory
<1> HIDE DEF written
<1>5. \A k \in Memory :
        moved[k] = IF dot + 1 <= k /\ k <= at + digits THEN written[k - 1] ELSE written[k]
  BY DEF MoveUp, Memory
<1> HIDE DEF moved
<1>6. \A k \in Memory : placed[k] = IF k = dot THEN DOT ELSE moved[k]
  BY DEF Put, Memory
<1> HIDE DEF placed
<1>7. Put(placed, at + digits + 1, <<COMMA>>)
        = [k \in Memory |-> IF k = at + digits + 1 THEN COMMA ELSE placed[k]]
  BY DEF Put, Memory
<1>8. Put(buf, at, line)
        = [k \in Memory |-> IF at <= k /\ k <= at + digits + 1 THEN line[k - at + 1]
                            ELSE buf[k]]
  BY <1>2 DEF Put, Memory
<1>9. ASSUME NEW k \in Memory
      PROVE  (IF k = at + digits + 1 THEN COMMA ELSE placed[k])
               = IF at <= k /\ k <= at + digits + 1 THEN line[k - at + 1] ELSE buf[k]
  <2>1. k \in Nat
    BY DEF Memory
  <2>2. CASE k < at \/ k > at + digits + 1
    BY <1>4, <1>5, <1>6, <2>1, <2>2
  <2>3. CASE k = at + digits + 1
    BY <1>2, <2>1, <2>3
  <2>4. CASE at <= k /\ k < dot
    BY <1>1, <1>2, <1>4, <1>5, <1>6, <2>1, <2>4
  <2>5. CASE k = dot
    BY <1>2, <1>6, <2>1, <2>5
  <2>6. CASE dot < k /\ k <= at + digits
    <3>1. placed[k] = written[k - 1]
      BY <1>5, <1>6, <2>1, <2>6
    <3>2. k - 1 \in Memory
      <4>1. TX_BUF_MAX_LENGTH = 74
        BY TelemetryAssumption, SMT
      <4> QED BY <2>1, <2>6, <4>1 DEF Memory
    <3>3. written[k - 1] = signed[k - at]
      BY <1>4, <2>1, <2>6, <3>2
    <3>4. signed[k - at] = d[k - at - 1]
      BY <1>1, <2>1, <2>6
    <3>5. line[k - at + 1] = d[k - at - 1]
      <4>1. k - at + 1 \in 1 .. digits + 2 /\ k - at + 1 > digits - 5
        BY <2>1, <2>6
      <4> QED BY <1>2, <2>1, <2>6, <4>1
    <3> QED BY <2>1, <2>6, <3>1, <3>3, <3>4, <3>5
  <2> QED BY <2>1, <2>2, <2>3, <2>4, <2>5, <2>6
<1> QED BY <1>3, <1>7, <1>8, <1>9 DEF line

(* Its digits are those of the degrees and of the six decimals; the first  *)
(* of three is lost when the longitude does not fit.                       *)
LEMMA Degrees ==
  ASSUME NEW u \in Nat
  PROVE  /\ (u % 100000000) \div 10000000 = ((u \div 10000000) \div 1) % 10
         /\ (u % 1000000000) \div 100000000 = ((u \div 10000000) \div 10) % 10
<1>1. (u % 100000000) \div 10000000 = ((u \div 10000000) \div 1) % 10
  BY SMT
<1>2. (u % 1000000000) \div 100000000 = ((u \div 10000000) \div 10) % 10
  BY SMT
<1> QED BY <1>1, <1>2, SMT


(* The digits of i32toa() from the fourth last on are the decimals, and    *)
(* those before them the degrees.                                          *)
LEMMA DigitsOfNine ==
  ASSUME NEW u \in Nat
  PROVE  /\ \A k \in 1 .. 2 : i32toa(u, 9)[k] = NumberOf(u \div 10000000, 2)[k]
         /\ \A k \in 1 .. 6 : i32toa(u, 9)[k + 2] = NumberOf((u % 10000000) \div 10, 6)[k]
<1>1. /\ 10 ^ 0 = 1 /\ 10 ^ 1 = 10 /\ 10 ^ 2 = 100 /\ 10 ^ 3 = 1000
      /\ 10 ^ 4 = 10000 /\ 10 ^ 5 = 100000
  BY SMT
<1>2. /\ Mult[1] = 10 /\ Mult[2] = 100 /\ Mult[3] = 1000 /\ Mult[4] = 10000
      /\ Mult[5] = 100000 /\ Mult[6] = 1000000 /\ Mult[7] = 10000000
      /\ Mult[8] = 100000000 /\ Mult[9] = 1000000000
  BY MultIsTens, SMT DEF Tens
<1> DEFINE d == i32toa(u, 9)
<1>3. /\ d[1] = 48 + ((u % Mult[9]) \div Mult[8])
      /\ d[2] = 48 + ((u % Mult[8]) \div Mult[7])
      /\ d[3] = 48 + ((u % Mult[7]) \div Mult[6])
      /\ d[4] = 48 + ((u % Mult[6]) \div Mult[5])
      /\ d[5] = 48 + ((u % Mult[5]) \div Mult[4])
      /\ d[6] = 48 + ((u % Mult[4]) \div Mult[3])
      /\ d[7] = 48 + ((u % Mult[3]) \div Mult[2])
      /\ d[8] = 48 + ((u % Mult[2]) \div Mult[1])
  BY SMT DEF i32toa
<1> DEFINE x == u \div 10000000
           y == (u % 10000000) \div 10
<1>4. /\ NumberOf(x, 2)[1] = 48 + ((x \div (10 ^ 1)) % 10)
      /\ NumberOf(x, 2)[2] = 48 + ((x \div (10 ^ 0)) % 10)
      /\ NumberOf(y, 6)[1] = 48 + ((y \div (10 ^ 5)) % 10)
      /\ NumberOf(y, 6)[2] = 48 + ((y \div (10 ^ 4)) % 10)
      /\ NumberOf(y, 6)[3] = 48 + ((y \div (10 ^ 3)) % 10)
      /\ NumberOf(y, 6)[4] = 48 + ((y \div (10 ^ 2)) % 10)
      /\ NumberOf(y, 6)[5] = 48 + ((y \div (10 ^ 1)) % 10)
      /\ NumberOf(y, 6)[6] = 48 + ((y \div (10 ^ 0)) % 10)
  BY SMT DEF NumberOf
<1>5. d[1] = NumberOf(x, 2)[1] /\ d[2] = NumberOf(x, 2)[2]
  BY <1>1, <1>2, <1>3, <1>4, Degrees, SMT
<1>6. /\ d[3] = NumberOf(y, 6)[1] /\ d[4] = NumberOf(y, 6)[2] /\ d[5] = NumberOf(y, 6)[3]
      /\ d[6] = NumberOf(y, 6)[4] /\ d[7] = NumberOf(y, 6)[5] /\ d[8] = NumberOf(y, 6)[6]
  <2>1. /\ (u % 100) \div 10 = (y \div 1) % 10
        /\ (u % 1000) \div 100 = (y \div 10) % 10
        /\ (u % 10000) \div 1000 = (y \div 100) % 10
        /\ (u % 100000) \div 10000 = (y \div 1000) % 10
        /\ (u % 1000000) \div 100000 = (y \div 10000) % 10
        /\ (u % 10000000) \div 1000000 = (y \div 100000) % 10
    <3>1. (u % 100) \div 10 = (y \div 1) % 10
      BY SMT
    <3>2. (u % 1000) \div 100 = (y \div 10) % 10
      BY SMT
    <3>3. (u % 10000) \div 1000 = (y \div 100) % 10
      BY SMT
    <3>4. (u % 100000) \div 10000 = (y \div 1000) % 10
      BY SMT
    <3>5. (u % 1000000) \div 100000 = (y \div 10000) % 10
      BY SMT
    <3>6. (u % 10000000) \div 1000000 = (y \div 100000) % 10
      BY SMT
    <3> QED BY <3>1, <3>2, <3>3, <3>4, <3>5, <3>6, SMT
  <2> HIDE DEF d, y
  <2>2. d[3] = NumberOf(y, 6)[1] /\ d[4] = NumberOf(y, 6)[2]
    BY <1>1, <1>2, <1>3, <1>4, <2>1, SMT
  <2>3. d[5] = NumberOf(y, 6)[3] /\ d[6] = NumberOf(y, 6)[4]
    BY <1>1, <1>2, <1>3, <1>4, <2>1, SMT
  <2>4. d[7] = NumberOf(y, 6)[5] /\ d[8] = NumberOf(y, 6)[6]
    BY <1>1, <1>2, <1>3, <1>4, <2>1, SMT
  <2> QED BY <2>2, <2>3, <2>4
<1> HIDE DEF d, x, y
<1>7. /\ \A k \in 1 .. 2 : d[k] = NumberOf(x, 2)[k]
      /\ \A k \in 1 .. 6 : d[k + 2] = NumberOf(y, 6)[k]
  BY <1>5, <1>6
<1> QED BY <1>7 DEF d, x, y

LEMMA DigitsOfTen ==
  ASSUME NEW u \in Nat
  PROVE  /\ \A k \in 2 .. 3 : i32toa(u, 10)[k] = NumberOf(u \div 10000000, 3)[k]
         /\ \A k \in 1 .. 6 : i32toa(u, 10)[k + 3] = NumberOf((u % 10000000) \div 10, 6)[k]
<1> DEFINE d == i32toa(u, 9)
           e == i32toa(u, 10)
           x == u \div 10000000
           y == (u % 10000000) \div 10
<1>1. \A k \in 1 .. 9 : e[k + 1] = d[k]
  BY DEF i32toa
<1>2. NumberOf(x, 3)[2] = NumberOf(x, 2)[1] /\ NumberOf(x, 3)[3] = NumberOf(x, 2)[2]
  BY DEF NumberOf
<1>3. /\ \A k \in 1 .. 2 : d[k] = NumberOf(x, 2)[k]
      /\ \A k \in 1 .. 6 : d[k + 2] = NumberOf(y, 6)[k]
  BY DigitsOfNine, SMT
<1> HIDE DEF d, e, x, y
<1>4. /\ \A k \in 2 .. 3 : e[k] = NumberOf(x, 3)[k]
      /\ \A k \in 1 .. 6 : e[k + 3] = NumberOf(y, 6)[k]
  BY <1>1, <1>2, <1>3
<1> QED BY <1>4 DEF e, x, y

LEMMA FirstOfTen ==
  ASSUME NEW u \in Nat
  PROVE  /\ u < 1410065408 => i32toa(u, 10)[1] = NumberOf(u \div 10000000, 3)[1]
         /\ u >= 1410065408 /\ u <= 1800000000 =>
              i32toa(u, 10)[1] = 48 /\ NumberOf(u \div 10000000, 3)[1] = 49
<1>1. Mult[9] = 1000000000 /\ Mult[10] = 1410065408
  BY MultIsTens, SMT DEF Tens
<1>2. i32toa(u, 10)[1] = 48 + ((u % 1410065408) \div 1000000000)
  BY <1>1, SMT DEF i32toa
<1>3. 10 ^ 2 = 100
  BY SMT
<1>4. NumberOf(u \div 10000000, 3)[1] = 48 + (((u \div 10000000) \div 100) % 10)
  BY <1>3, SMT DEF NumberOf
<1>5. u < 1410065408 =>
        (u % 1410065408) \div 1000000000 = ((u \div 10000000) \div 100) % 10
  BY SMT
<1>6. u >= 1410065408 /\ u <= 1800000000 =>
        /\ (u % 1410065408) \div 1000000000 = 0
        /\ ((u \div 10000000) \div 100) % 10 = 1
  BY SMT
<1> QED BY <1>2, <1>4, <1>5, <1>6, SMT

(* What two sequences make, one after the other, and four.                 *)
Pairs(z, x, y) ==
  /\ z \in Seq(Int) /\ Len(z) = Len(x) + Len(y)
  /\ \A j \in 1 .. Len(x) + Len(y) : z[j] = IF j <= Len(x) THEN x[j] ELSE y[j - Len(x)]

LEMMA PairsIs ==
  ASSUME NEW x \in Seq(Int), NEW y \in Seq(Int)
  PROVE  Pairs(x \o y, x, y)
BY ConcatProperties DEF Pairs

Joined(z, a, x, w, c, y) ==
  /\ z \in Seq(Int) /\ Len(z) = w + 8
  /\ \A j \in 1 .. w + 8 : z[j] = IF j = 1 THEN a ELSE IF j < w + 2 THEN x[j - 1]
                                  ELSE IF j = w + 2 THEN c ELSE y[j - w - 2]

LEMMA JoinedIs ==
  ASSUME NEW a \in Int, NEW w \in Nat, NEW x \in Seq(Int), Len(x) = w,
         NEW c \in Int, NEW y \in Seq(Int), Len(y) = 6
  PROVE  Joined(<<a>> \o x \o <<c>> \o y, a, x, w, c, y)
<1> DEFINE p == <<a>>
           q == p \o x
           r == <<c>>
           s == q \o r
           z == s \o y
<1>1. p \in Seq(Int) /\ Len(p) = 1 /\ p[1] = a /\ r \in Seq(Int) /\ Len(r) = 1 /\ r[1] = c
  OBVIOUS
<1> HIDE DEF p, r
<1>2. Pairs(q, p, x)
  BY <1>1, PairsIs
<1> HIDE DEF q
<1>3. q \in Seq(Int)
  BY <1>2 DEF Pairs
<1>4. Pairs(s, q, r)
  BY <1>1, <1>3, PairsIs
<1> HIDE DEF s
<1>5. s \in Seq(Int)
  BY <1>4 DEF Pairs
<1>6. Pairs(z, s, y)
  BY <1>5, PairsIs
<1> HIDE DEF z
<1>7. /\ Len(q) = w + 1
      /\ \A j \in 1 .. w + 1 : q[j] = IF j = 1 THEN a ELSE x[j - 1]
  BY <1>1, <1>2 DEF Pairs
<1>8. /\ Len(s) = w + 2
      /\ \A j \in 1 .. w + 2 : s[j] = IF j = 1 THEN a ELSE IF j < w + 2 THEN x[j - 1] ELSE c
  BY <1>1, <1>4, <1>7 DEF Pairs
<1>9. /\ Len(z) = w + 8
      /\ \A j \in 1 .. w + 8 : z[j] = IF j = 1 THEN a ELSE IF j < w + 2 THEN x[j - 1]
                                      ELSE IF j = w + 2 THEN c ELSE y[j - w - 2]
  BY <1>6, <1>8 DEF Pairs
<1> QED BY <1>6, <1>9 DEF Pairs, Joined, p, q, r, s, z

LEMMA CoordinateIs ==
  ASSUME NEW v \in Int, NEW w \in {2, 3}
  PROVE  /\ Abs(v) \in Nat /\ Sign(v)[1] \in Int
         /\ Joined(Coordinate(v, w), Sign(v)[1], NumberOf(Abs(v) \div 10000000, w), w,
                   DOT, NumberOf((Abs(v) % 10000000) \div 10, 6))
<1>1. Abs(v) \in Nat /\ Sign(v)[1] \in Int /\ Sign(v) = <<Sign(v)[1]>> /\ DOT \in Int
  BY SMT DEF Abs, Sign, PLUS, MINUS, DOT
<1> DEFINE a == Sign(v)[1]
           m == Abs(v) \div 10000000
           n == (Abs(v) % 10000000) \div 10
           x == NumberOf(m, w)
           y == NumberOf(n, 6)
<1>2. m \in Nat /\ n \in Nat
  BY <1>1, SMT
<1>3. Coordinate(v, w) = <<a>> \o x \o <<DOT>> \o y
  <2>1. Coordinate(v, w) = Sign(v) \o x \o <<DOT>> \o y
    BY SMT DEF Coordinate
  <2> HIDE DEF x, y
  <2> QED BY <1>1, <2>1, Zenon
<1> HIDE DEF a, m, n
<1>4. w \in Nat /\ w \in 1 .. 6 /\ 6 \in 1 .. 6
  OBVIOUS
<1>5. x \in Seq(Int) /\ Len(x) = w /\ y \in Seq(Int) /\ Len(y) = 6
  BY <1>2, <1>4, NumberTyped
<1> HIDE DEF x, y
<1>6. a \in Int
  BY <1>1 DEF a
<1>7. Joined(<<a>> \o x \o <<DOT>> \o y, a, x, w, DOT, y)
  BY <1>1, <1>4, <1>5, <1>6, JoinedIs
<1> QED BY <1>1, <1>3, <1>7, SMT DEF a, x, y, m, n

LEMMA LatitudeIs == ASSUME NEW v \in Int PROVE Field(v, 9) = Coordinate(v, 2)
<1> DEFINE u == Abs(v)
           a == Sign(v)[1]
           d == i32toa(u, 9)
           x == NumberOf(u \div 10000000, 2)
           y == NumberOf((u % 10000000) \div 10, 6)
           c == Coordinate(v, 2)
           f == Field(v, 9)
<1>1. u \in Nat /\ a \in Int /\ Joined(c, a, x, 2, DOT, y)
  BY CoordinateIs, SMT
<1>2. f = [j \in 1 .. 10 |-> IF j = 1 THEN a ELSE IF j < 4 THEN d[j - 1]
                             ELSE IF j = 4 THEN DOT ELSE d[j - 2]]
  BY SMT DEF Field
<1>3. /\ \A k \in 1 .. 2 : d[k] = x[k]
      /\ \A k \in 1 .. 6 : d[k + 2] = y[k]
  BY <1>1, DigitsOfNine, SMT
<1> HIDE DEF u, a, d, x, y, c, f
<1>4. c = [j \in 1 .. 10 |-> c[j]]
  <2>1. c \in Seq(Int) /\ Len(c) = 10
    BY <1>1 DEF Joined
  <2> QED BY <2>1, LenProperties
<1>5. \A j \in 1 .. 10 : c[j] = IF j = 1 THEN a ELSE IF j < 4 THEN x[j - 1]
                                ELSE IF j = 4 THEN DOT ELSE y[j - 4]
  BY <1>1 DEF Joined
<1>6. \A j \in 1 .. 10 : f[j] = c[j]
  <2> SUFFICES ASSUME NEW j \in 1 .. 10 PROVE f[j] = c[j]
    OBVIOUS
  <2>1. CASE j = 1 \/ j = 4
    BY <1>2, <1>5, <2>1
  <2>2. CASE j = 2 \/ j = 3
    BY <1>2, <1>3, <1>5, <2>2
  <2>3. CASE j > 4
    <3>1. j - 4 \in 1 .. 6 /\ (j - 4) + 2 = j - 2
      BY <2>3
    <3>2. d[j - 2] = y[j - 4]
      BY <1>3, <3>1
    <3> QED BY <1>2, <1>5, <2>3, <3>2
  <2> QED BY <2>1, <2>2, <2>3
<1> QED BY <1>2, <1>4, <1>6 DEF f, c

LEMMA FunctionIsSeq ==
  ASSUME NEW n \in Nat, NEW S, NEW g \in [1 .. n -> S]
  PROVE  g \in Seq(S) /\ Len(g) = n
OBVIOUS

InRange(v) == Abs(v) <= 1800000000

LEMMA LongitudeIs ==
  ASSUME NEW v \in Int, InRange(v)
  PROVE  /\ Field(v, 10) \in Seq(Int) /\ Len(Field(v, 10)) = 11
         /\ Coordinate(v, 3) \in Seq(Int) /\ Len(Coordinate(v, 3)) = 11
         /\ Abs(v) < 1410065408 => Field(v, 10) = Coordinate(v, 3)
         /\ ~(Abs(v) < 1410065408) => Field(v, 10)[2] # Coordinate(v, 3)[2]
<1> DEFINE u == Abs(v)
           a == Sign(v)[1]
           d == i32toa(u, 10)
           x == NumberOf(u \div 10000000, 3)
           y == NumberOf((u % 10000000) \div 10, 6)
           c == Coordinate(v, 3)
           f == Field(v, 10)
           fits == u < 1410065408
<1>1. u \in Nat /\ a \in Int /\ Joined(c, a, x, 3, DOT, y)
  BY CoordinateIs, SMT
<1>2. f = [j \in 1 .. 11 |-> IF j = 1 THEN a ELSE IF j < 5 THEN d[j - 1]
                             ELSE IF j = 5 THEN DOT ELSE d[j - 2]]
  BY SMT DEF Field
<1>3. /\ \A k \in 2 .. 3 : d[k] = x[k]
      /\ \A k \in 1 .. 6 : d[k + 3] = y[k]
  BY <1>1, DigitsOfTen, SMT
<1>4. /\ fits => d[1] = x[1]
      /\ ~fits => d[1] = 48 /\ x[1] = 49
  BY <1>1, FirstOfTen, SMT DEF InRange
<1> HIDE DEF u, a, d, x, y, c, f, fits
<1>5. c \in Seq(Int) /\ Len(c) = 11
  BY <1>1, SMT DEF Joined
<1>6. c = [j \in 1 .. 11 |-> c[j]] /\ \A j \in 1 .. 11 : c[j] \in Int
  BY <1>5, LenProperties
<1>7. \A j \in 1 .. 11 : c[j] = IF j = 1 THEN a ELSE IF j < 5 THEN x[j - 1]
                                ELSE IF j = 5 THEN DOT ELSE y[j - 5]
  BY <1>1, SMT DEF Joined
<1>8. \A j \in 1 .. 11 : j # 2 => f[j] = c[j]
  <2> SUFFICES ASSUME NEW j \in 1 .. 11, j # 2 PROVE f[j] = c[j]
    BY SMT
  <2>1. CASE j = 1 \/ j = 5
    BY <1>2, <1>7, <2>1, SMT
  <2>2. CASE j = 3 \/ j = 4
    BY <1>2, <1>3, <1>7, <2>2, SMT
  <2>3. CASE j > 5
    <3>1. j - 5 \in 1 .. 6 /\ (j - 5) + 3 = j - 2
      BY <2>3, SMT
    <3>2. d[j - 2] = y[j - 5]
      BY <1>3, <3>1, SMT
    <3> QED BY <1>2, <1>7, <2>3, <3>2, SMT
  <2> QED BY <2>1, <2>2, <2>3, SMT
<1>9. f[2] = d[1] /\ c[2] = x[1]
  BY <1>2, <1>7, SMT
<1>10. fits => f[2] = c[2]
  BY <1>4, <1>9, SMT
<1>11. ~fits => f[2] = 48 /\ f[2] # c[2]
  BY <1>4, <1>9, SMT
<1>12. \A j \in 1 .. 11 : f[j] \in Int
  BY <1>6, <1>8, <1>10, <1>11, SMT
<1>13. f \in Seq(Int) /\ Len(f) = 11
  <2>1. f \in [1 .. 11 -> Int]
    BY <1>2, <1>12
  <2> QED BY <2>1, FunctionIsSeq
<1>14. fits => f = c
  <2>1. f = [j \in 1 .. 11 |-> f[j]]
    BY <1>2, SMT
  <2> QED BY <1>6, <1>8, <1>10, <2>1, SMT
<1> QED BY <1>5, <1>11, <1>13, <1>14, SMT DEF f, c, fits, u

----------------------------------------------------------------------------
(* The sentence, field by field.  A buffer shows a line, and what is put   *)
(* behind it makes the line longer.                                        *)
LEMMA ConcatTyped ==
  ASSUME NEW S, NEW x \in Seq(S), NEW y \in Seq(S)
  PROVE  x \o y \in Seq(S) /\ Len(x \o y) = Len(x) + Len(y)
BY ConcatProperties

Associate(x, y, z) == (x \o y) \o z = x \o (y \o z)

LEMMA TheyAssociate ==
  ASSUME NEW S, NEW x \in Seq(S), NEW y \in Seq(S), NEW z \in Seq(S)
  PROVE  Associate(x, y, z)
BY ConcatAssociative DEF Associate

LEMMA AppendConcat ==
  ASSUME NEW S, NEW x \in Seq(S), NEW y \in Seq(S), NEW c \in S
  PROVE  x \o Append(y, c) = Append(x \o y, c)
<1>1. <<c>> \in Seq(S) /\ x \o y \in Seq(S)
  BY ConcatProperties
<1>2. Append(y, c) = y \o <<c>> /\ Append(x \o y, c) = (x \o y) \o <<c>>
  BY <1>1, AppendIsConcat
<1>3. (x \o y) \o <<c>> = x \o (y \o <<c>>)
  BY <1>1, ConcatAssociative
<1> QED BY <1>2, <1>3

LEMMA AppendTyped ==
  ASSUME NEW S, NEW x \in Seq(S), NEW c \in S
  PROVE  Append(x, c) \in Seq(S) /\ Len(Append(x, c)) = Len(x) + 1
BY AppendProperties

Appended(z, x, c) ==
  /\ z \in Seq(Int) /\ Len(z) = Len(x) + 1
  /\ \A k \in 1 .. Len(x) : z[k] = x[k]
  /\ z[Len(x) + 1] = c

LEMMA AppendedIs ==
  ASSUME NEW x \in Seq(Int), NEW c \in Int
  PROVE  Appended(Append(x, c), x, c)
BY AppendProperties DEF Appended

Shows(buf, line) == \A k \in 1 .. Len(line) : buf[k - 1] = line[k]

LEMMA PutShows ==
  ASSUME NEW S, NEW buf, NEW line \in Seq(S), NEW chars \in Seq(S), Shows(buf, line),
         NEW at, at = Len(line), at + Len(chars) <= 84
  PROVE  Shows(Put(buf, at, chars), line \o chars)
<1> DEFINE z == line \o chars
           n == Len(chars)
           new == Put(buf, at, chars)
<1>1. /\ Len(z) = Len(line) + Len(chars)
      /\ \A j \in 1 .. Len(line) + Len(chars) :
           z[j] = IF j <= Len(line) THEN line[j] ELSE chars[j - Len(line)]
  BY ConcatProperties
<1>2. at \in Nat /\ n \in Nat
  BY LenProperties
<1>3. Memory = 0 .. 83
  <2>1. TX_BUF_MAX_LENGTH = 74
    BY TelemetryAssumption, SMT
  <2> QED BY <2>1 DEF Memory
<1> HIDE DEF z, n
<1>4. \A k \in 0 .. at + n - 1 :
        new[k] = IF at <= k THEN chars[k - at + 1] ELSE buf[k]
  <2>1. \A k \in 0 .. at + n - 1 : k \in Memory
    BY <1>2, <1>3 DEF n
  <2> QED BY <1>2, <2>1 DEF Put, n
<1> HIDE DEF new
<1>5. /\ Len(z) = at + n
      /\ \A k \in 1 .. at + n : z[k] = IF k <= at THEN line[k] ELSE chars[k - at]
  BY <1>1 DEF n
<1>6. \A k \in 1 .. at + n : new[k - 1] = z[k]
  <2> SUFFICES ASSUME NEW k \in 1 .. at + n PROVE new[k - 1] = z[k]
    OBVIOUS
  <2>1. k - 1 \in 0 .. at + n - 1
    BY <1>2
  <2>2. CASE k <= at
    <3>1. buf[k - 1] = line[k]
      BY <1>2, <2>2 DEF Shows
    <3> QED BY <1>2, <1>4, <1>5, <2>1, <2>2, <3>1
  <2>3. CASE k > at
    <3>1. new[k - 1] = chars[(k - 1) - at + 1]
      BY <1>2, <1>4, <2>1, <2>3
    <3>2. (k - 1) - at + 1 = k - at
      BY <1>2
    <3> QED BY <1>2, <1>5, <2>3, <3>1, <3>2
  <2> QED BY <1>2, <2>2, <2>3
<1> QED BY <1>5, <1>6 DEF Shows, z, new

Line(l, c) == SubSeq(Prefix, 1, 7) \o Append(l, c)

LEMMA LineTyped ==
  ASSUME NEW l \in Seq(Int), NEW c \in Int
  PROVE  /\ SubSeq(Prefix, 1, 7) \in Seq(Int) /\ Len(SubSeq(Prefix, 1, 7)) = 7
         /\ Line(l, c) \in Seq(Int) /\ Len(Line(l, c)) = Len(l) + 8
         /\ \A k \in 1 .. Len(l) : Line(l, c)[k + 7] = l[k]
<1> DEFINE p == SubSeq(Prefix, 1, 7)
           a == Append(l, c)
<1>1. p \in Seq(Int) /\ Len(p) = 7
  BY DEF Prefix, COMMA
<1>2. /\ a \in Seq(Int) /\ Len(a) = Len(l) + 1
      /\ \A k \in 1 .. Len(l) : a[k] = l[k]
  BY AppendProperties
<1>3. Len(l) \in Nat
  BY LenProperties
<1> HIDE DEF p, a
<1>4. Pairs(p \o a, p, a)
  BY <1>1, <1>2, PairsIs
<1> DEFINE z == p \o a
           n == Len(l)
<1> HIDE DEF z, n
<1>5. /\ z \in Seq(Int) /\ Len(z) = n + 8
      /\ \A j \in 1 .. n + 8 : z[j] = IF j <= 7 THEN p[j] ELSE a[j - 7]
  BY <1>1, <1>2, <1>3, <1>4 DEF Pairs, z, n
<1>6. \A k \in 1 .. n : z[k + 7] = a[k]
  <2>1. n \in Nat
    BY <1>3 DEF n
  <2> SUFFICES ASSUME NEW k \in 1 .. n PROVE z[k + 7] = a[k]
    OBVIOUS
  <2>2. k + 7 \in 1 .. n + 8 /\ ~(k + 7 <= 7) /\ (k + 7) - 7 = k
    BY <2>1
  <2> QED BY <1>5, <2>2
<1> QED BY <1>1, <1>2, <1>5, <1>6 DEF Line, z, n, p, a

LEMMA WithTyped ==
  ASSUME NEW l \in Seq(Int), NEW f \in Seq(Int)
  PROVE  /\ With(l, f) \in Seq(Int) /\ Len(With(l, f)) = Len(l) + 1 + Len(f)
         /\ \A k \in 1 .. Len(l) : With(l, f)[k] = l[k]
<1> DEFINE a == Append(l, COMMA)
           z == a \o f
           n == Len(l)
<1>1. /\ a \in Seq(Int) /\ Len(a) = n + 1
      /\ \A k \in 1 .. n : a[k] = l[k]
  BY AppendProperties DEF COMMA
<1>2. n \in Nat /\ Len(f) \in Nat
  BY LenProperties
<1> HIDE DEF a, n
<1>3. Pairs(z, a, f)
  BY <1>1, PairsIs
<1> HIDE DEF z
<1>4. z \in Seq(Int) /\ Len(z) = n + 1 + Len(f)
  BY <1>1, <1>2, <1>3 DEF Pairs
<1>5. \A k \in 1 .. n : z[k] = a[k]
  BY <1>1, <1>2, <1>3 DEF Pairs
<1> QED BY <1>1, <1>4, <1>5 DEF With, z, a, n

(* A field put behind the comma of the line before, with a c behind it;    *)
(* what init_tx_buffer() wrote stays.                                      *)
Headed(buf) == \A k \in 0 .. 11 : buf[k] = Prefix[k + 1]

Stage(buf, l, c) == l \in Seq(Int) /\ Shows(buf, Line(l, c)) /\ Headed(buf)

LEMMA PutBehindHead ==
  ASSUME NEW buf, Headed(buf), NEW at \in Nat, at >= 12, NEW chars
  PROVE  Headed(Put(buf, at, chars))
<1>1. \A k \in 0 .. 11 : k \in Memory /\ k \notin at .. at + Len(chars) - 1
  <2>1. TX_BUF_MAX_LENGTH = 74
    BY TelemetryAssumption, SMT
  <2>2. \A k \in 0 .. 11 : k \in 0 .. 83 /\ ~(at <= k)
    OBVIOUS
  <2>3. \A k \in 0 .. 11 : k \notin at .. at + Len(chars) - 1
    BY <2>2
  <2> QED BY <2>1, <2>2, <2>3 DEF Memory
<1>2. \A k \in 0 .. 11 : Put(buf, at, chars)[k] = buf[k]
  BY <1>1 DEF Put
<1> QED BY <1>2 DEF Headed

LEMMA FieldGoes ==
  ASSUME NEW buf, NEW l, NEW f \in Seq(Int), NEW c \in Int, Stage(buf, l, COMMA),
         NEW at \in Nat, at = Len(l) + 8, at >= 12, at + Len(f) + 1 <= 84
  PROVE  Stage(Put(buf, at, Append(f, c)), With(l, f), c)
<1> DEFINE p == SubSeq(Prefix, 1, 7)
           a == Append(l, COMMA)
           b == Append(f, c)
<1>1. l \in Seq(Int) /\ COMMA \in Int /\ Shows(buf, Line(l, COMMA))
  BY DEF Stage, COMMA
<1>2. p \in Seq(Int) /\ Line(l, COMMA) \in Seq(Int) /\ Len(Line(l, COMMA)) = at
  BY <1>1, LineTyped
<1>3. b \in Seq(Int) /\ at + Len(b) <= 84
  BY AppendTyped
<1>4. Shows(Put(buf, at, b), Line(l, COMMA) \o b)
  BY <1>1, <1>2, <1>3, PutShows
<1>5. a \in Seq(Int)
  BY <1>1, AppendTyped
<1>6. Line(l, COMMA) \o b = p \o (a \o b)
  <2>1. Line(l, COMMA) = p \o a
    BY DEF Line
  <2> HIDE DEF p, a, b
  <2>2. Associate(p, a, b)
    BY <1>2, <1>3, <1>5, TheyAssociate
  <2> QED BY <2>1, <2>2 DEF Associate
<1>7. a \o b = Append(With(l, f), c)
  BY <1>5, AppendConcat DEF With
<1>8. With(l, f) \in Seq(Int)
  BY <1>1, WithTyped
<1>9. Headed(Put(buf, at, b))
  BY PutBehindHead DEF Stage
<1>10. Shows(Put(buf, at, b), Line(With(l, f), c))
  BY <1>4, <1>6, <1>7 DEF Line
<1> QED BY <1>8, <1>9, <1>10 DEF Stage

(* The nine fields of a sentence, with a longitude and a temperature of    *)
(* its own, and what stands before its checksum.                           *)
IdField(id)     == NumberOf(id, WidthOf(id))
TimeField(fix)  == NumberOf(fix.hour, 2) \o NumberOf(fix.min, 2) \o NumberOf(fix.sec, 2)
TemperatureField(fix) == <<IF fix.temperature_int < 0 THEN MINUS ELSE PLUS>>
                           \o NumberOf(Abs(fix.temperature_int), 2)
WholeTemperature(fix) ==
  <<IF fix.temperature_int < 0 THEN MINUS ELSE PLUS>>
    \o NumberOf(Abs(fix.temperature_int),
                IF Abs(fix.temperature_int) < 100 THEN 2 ELSE 3)

ToLongitude(id, fix, lon) ==
  With(With(With(With(CallSign, IdField(id)), TimeField(fix)), Coordinate(fix.lat, 2)), lon)

ToVoltage(id, fix, lon) ==
  With(With(With(With(ToLongitude(id, fix, lon), IdField(fix.alt)),
                 NumberOf(fix.num_svs, 2)),
            NumberOf(fix.voltage_bat, 4)),
       NumberOf(fix.voltage_sol, 4))

BodyWith(id, fix, lon, temp) == With(ToVoltage(id, fix, lon), temp)

BodyOf(id, fix, lon) == BodyWith(id, fix, lon, TemperatureField(fix))

LEMMA BodyIs ==
  ASSUME NEW id, NEW fix
  PROVE  Body(id, fix)
           = BodyWith(id, fix, Coordinate(fix.lon, 3), WholeTemperature(fix))
BY DEF Body, BodyWith, ToVoltage, ToLongitude, IdField, TimeField, WholeTemperature

LEMMA IdFieldTyped ==
  ASSUME NEW n \in Nat, In16(n)
  PROVE  /\ i16toav(n) = IdField(n) /\ IdField(n) \in Seq(Int)
         /\ Len(IdField(n)) \in 1 .. 5
<1>1. i16toav(n) = IdField(n)
  BY WritesItsWidth, SMT DEF IdField, In16
<1> DEFINE w == WidthOf(n)
<1>2. w \in 1 .. 5
  BY WidthTyped, SMT DEF In16
<1> HIDE DEF w
<1>3. w \in 1 .. 6
  BY <1>2
<1>4. NumberOf(n, w) \in Seq(Int) /\ Len(NumberOf(n, w)) = w
  BY <1>3, NumberTyped
<1> QED BY <1>1, <1>2, <1>4 DEF IdField, w

LEMMA TimeFieldTyped ==
  ASSUME NEW h \in Nat, NEW m \in Nat, NEW s \in Nat, NEW c \in Int
  PROVE  LET t == NumberOf(h, 2) \o NumberOf(m, 2) \o NumberOf(s, 2)
         IN  /\ t \in Seq(Int) /\ Len(t) = 6
             /\ i16toa(h, 2) \o i16toa(m, 2) \o Append(i16toa(s, 2), c) = Append(t, c)
<1>0. 2 \in 1 .. 6
  OBVIOUS
<1> DEFINE x == NumberOf(h, 2)
           y == NumberOf(m, 2)
           z == NumberOf(s, 2)
           p == x \o y
           q == p \o z
<1>1. /\ x \in Seq(Int) /\ y \in Seq(Int) /\ z \in Seq(Int)
      /\ Len(x) = 2 /\ Len(y) = 2 /\ Len(z) = 2
  BY <1>0, NumberTyped
<1>2. i16toa(h, 2) = x /\ i16toa(m, 2) = y /\ i16toa(s, 2) = z
  BY TwoWide
<1> HIDE DEF x, y, z
<1>3. Pairs(p, x, y)
  BY <1>1, PairsIs
<1> HIDE DEF p
<1>4. p \in Seq(Int) /\ Len(p) = 4
  BY <1>1, <1>3 DEF Pairs
<1>5. Pairs(q, p, z)
  BY <1>1, <1>4, PairsIs
<1>6. p \o Append(z, c) = Append(q, c)
  BY <1>1, <1>4, AppendConcat
<1> HIDE DEF q
<1>7. q \in Seq(Int) /\ Len(q) = 6
  BY <1>1, <1>4, <1>5 DEF Pairs
<1> QED BY <1>2, <1>6, <1>7 DEF p, q, x, y, z

LEMMA TemperatureFieldTyped ==
  ASSUME NEW t \in Int, NEW c \in Int
  PROVE  LET sign == <<IF t < 0 THEN MINUS ELSE PLUS>>
             f == sign \o NumberOf(Abs(t), 2)
         IN  /\ f \in Seq(Int) /\ Len(f) = 3
             /\ sign \o Append(i16toa(Abs(t), 2), c) = Append(f, c)
<1> DEFINE x == <<IF t < 0 THEN MINUS ELSE PLUS>>
           y == NumberOf(Abs(t), 2)
           f == x \o y
<1>1. Abs(t) \in Nat /\ 2 \in 1 .. 6
  BY DEF Abs
<1>2. x \in Seq(Int) /\ Len(x) = 1
  BY DEF MINUS, PLUS
<1>3. y \in Seq(Int) /\ Len(y) = 2 /\ i16toa(Abs(t), 2) = y
  BY <1>1, NumberTyped, TwoWide
<1> HIDE DEF x, y
<1>4. Pairs(f, x, y)
  BY <1>2, <1>3, PairsIs
<1>5. x \o Append(y, c) = Append(f, c)
  BY <1>2, <1>3, AppendConcat
<1> HIDE DEF f
<1>6. f \in Seq(Int) /\ Len(f) = 3
  BY <1>2, <1>3, <1>4 DEF Pairs
<1> QED BY <1>3, <1>5, <1>6 DEF f, x, y

LEMMA FieldStage ==
  ASSUME NEW buf, NEW l, NEW f \in Seq(Int), NEW c \in Int, Stage(buf, l, COMMA),
         NEW at \in Nat, at = Len(l) + 8, at >= 12, at + Len(f) + 1 <= 84
  PROVE  /\ Stage(Put(buf, at, Append(f, c)), With(l, f), c)
         /\ Len(With(l, f)) = Len(l) + 1 + Len(f)
BY FieldGoes, WithTyped DEF Stage

LEMMA FixTyped ==
  ASSUME NEW fix \in Fixes \cup {UsualFix}
  PROVE  /\ fix.hour \in Nat /\ fix.min \in Nat /\ fix.sec \in Nat /\ fix.num_svs \in Nat
         /\ fix.alt \in Nat /\ In16(fix.alt)
         /\ fix.lat \in Int /\ fix.lon \in Int /\ InRange(fix.lon)
         /\ fix.voltage_bat \in Nat /\ fix.voltage_sol \in Nat
         /\ fix.temperature_int \in -100 .. 100
BY TelemetryAssumption, SMT DEF In16, InRange

LEMMA LatitudeTyped ==
  ASSUME NEW v \in Int
  PROVE  Coordinate(v, 2) \in Seq(Int) /\ Len(Coordinate(v, 2)) = 10
<1> DEFINE m == NumberOf(Abs(v) \div 10000000, 2)
           n == NumberOf((Abs(v) % 10000000) \div 10, 6)
<1>1. Joined(Coordinate(v, 2), Sign(v)[1], m, 2, DOT, n)
  BY CoordinateIs, SMT
<1> HIDE DEF m, n
<1> QED BY <1>1 DEF Joined

(* All nine fields are where they belong before the checksum is taken.     *)
LEMMA FieldsGo ==
  ASSUME NEW buf, Headed(buf), NEW id \in Nat, In16(id),
         NEW fix \in Fixes \cup {UsualFix}
  PROVE  LET s    == IdLength(id)
             a    == AltLength(fix)
             body == BodyOf(id, fix, Field(fix.lon, 10))
         IN  \E b9 : /\ Stage(b9, body, STAR) /\ Len(body) = s + a + 53
                     /\ s \in 1 .. 5 /\ a \in 1 .. 5
                     /\ Prepared(buf, id, fix)
                          = Put(b9, CHECKSUM_START(s, a),
                                i16tox(Crc(Chars(b9, CHECKSUM_BEGIN, CHECKSUM_END(s, a))))
                                  \o <<NEWLINE, NEWLINE>>)
<1> DEFINE s  == IdLength(id)
           a  == AltLength(fix)
           f1 == IdField(id)
           f2 == TimeField(fix)
           f3 == Coordinate(fix.lat, 2)
           f4 == Field(fix.lon, 10)
           f5 == IdField(fix.alt)
           f6 == NumberOf(fix.num_svs, 2)
           f7 == NumberOf(fix.voltage_bat, 4)
           f8 == NumberOf(fix.voltage_sol, 4)
           f9 == TemperatureField(fix)
           b1 == Put(buf, SENT_ID_START, Append(f1, COMMA))
           b2 == Put(b1, TIME_START(s), Append(f2, COMMA))
           b3 == Put(b2, LAT_START(s), Append(f3, COMMA))
           b4 == Put(b3, LON_START(s), Append(f4, COMMA))
           b5 == Put(b4, ALT_START(s), Append(f5, COMMA))
           b6 == Put(b5, SAT_START(s, a), Append(f6, COMMA))
           b7 == Put(b6, VOLT_START(s, a), Append(f7, COMMA))
           b8 == Put(b7, VSOL_START(s, a), Append(f8, COMMA))
           b9 == Put(b8, TEMP_START(s, a), Append(f9, STAR))
           l1 == With(CallSign, f1)
           l2 == With(l1, f2)
           l3 == With(l2, f3)
           l4 == With(l3, f4)
           l5 == With(l4, f5)
           l6 == With(l5, f6)
           l7 == With(l6, f7)
           l8 == With(l7, f8)
           l9 == With(l8, f9)
<1>1. COMMA \in Int /\ STAR \in Int
  BY DEF COMMA, STAR
<1>2. /\ i16toav(id) = f1 /\ f1 \in Seq(Int) /\ Len(f1) = s /\ s \in 1 .. 5
  BY IdFieldTyped DEF IdLength
<1>3. /\ i16toav(fix.alt) = f5 /\ f5 \in Seq(Int) /\ Len(f5) = a /\ a \in 1 .. 5
  BY FixTyped, IdFieldTyped DEF AltLength
<1>4. /\ f2 \in Seq(Int) /\ Len(f2) = 6
      /\ i16toa(fix.hour, 2) \o i16toa(fix.min, 2) \o Append(i16toa(fix.sec, 2), COMMA)
           = Append(f2, COMMA)
  <2> DEFINE h == fix.hour
             m == fix.min
             t == fix.sec
  <2>1. h \in Nat /\ m \in Nat /\ t \in Nat
    BY FixTyped
  <2> HIDE DEF h, m, t
  <2>2. LET x == NumberOf(h, 2) \o NumberOf(m, 2) \o NumberOf(t, 2)
        IN  /\ x \in Seq(Int) /\ Len(x) = 6
            /\ i16toa(h, 2) \o i16toa(m, 2) \o Append(i16toa(t, 2), COMMA) = Append(x, COMMA)
    BY <1>1, <2>1, TimeFieldTyped
  <2> QED BY <2>2 DEF TimeField, h, m, t
<1>5. /\ f3 \in Seq(Int) /\ Len(f3) = 10 /\ Field(fix.lat, 9) = f3
  BY FixTyped, LatitudeTyped, LatitudeIs
<1>6. f4 \in Seq(Int) /\ Len(f4) = 11
  BY FixTyped, LongitudeIs
<1>7. /\ f6 \in Seq(Int) /\ Len(f6) = 2 /\ i16toa(fix.num_svs, 2) = f6
  <2>1. 2 \in 1 .. 6
    OBVIOUS
  <2> QED BY <2>1, FixTyped, NumberTyped, TwoWide
<1>8. /\ f7 \in Seq(Int) /\ Len(f7) = 4 /\ i16toa(fix.voltage_bat, 4) = f7
      /\ f8 \in Seq(Int) /\ Len(f8) = 4 /\ i16toa(fix.voltage_sol, 4) = f8
  <2>1. 4 \in 1 .. 6
    OBVIOUS
  <2> QED BY <2>1, FixTyped, NumberTyped, FourWide
<1>9. /\ f9 \in Seq(Int) /\ Len(f9) = 3
      /\ <<IF fix.temperature_int < 0 THEN MINUS ELSE PLUS>>
           \o Append(i16toa(Abs(fix.temperature_int), 2), STAR) = Append(f9, STAR)
  <2>1. fix.temperature_int \in Int
    BY FixTyped
  <2> QED BY <1>1, <2>1, TemperatureFieldTyped DEF TemperatureField
<1>10. BodyOf(id, fix, f4) = l9
  BY DEF BodyOf, BodyWith, ToVoltage, ToLongitude
<1>11. Prepared(buf, id, fix)
         = Put(b9, CHECKSUM_START(s, a),
               i16tox(Crc(Chars(b9, CHECKSUM_BEGIN, CHECKSUM_END(s, a))))
                 \o <<NEWLINE, NEWLINE>>)
  <2> DEFINE time == i16toa(fix.hour, 2) \o i16toa(fix.min, 2)
                       \o Append(i16toa(fix.sec, 2), COMMA)
             temp == <<IF fix.temperature_int < 0 THEN MINUS ELSE PLUS>>
                       \o Append(i16toa(Abs(fix.temperature_int), 2), STAR)
             c1 == Put(buf, SENT_ID_START, Append(i16toav(id), COMMA))
             c2 == Put(c1, TIME_START(s), time)
             c3 == PutCoordinate(c2, LAT_START(s), fix.lat, 9)
             c4 == PutCoordinate(c3, LON_START(s), fix.lon, 10)
             c5 == Put(c4, ALT_START(s), Append(i16toav(fix.alt), COMMA))
             c6 == Put(c5, SAT_START(s, a), Append(i16toa(fix.num_svs, 2), COMMA))
             c7 == Put(c6, VOLT_START(s, a), Append(i16toa(fix.voltage_bat, 4), COMMA))
             c8 == Put(c7, VSOL_START(s, a), Append(i16toa(fix.voltage_sol, 4), COMMA))
             c9 == Put(c8, TEMP_START(s, a), temp)
  <2>1. Prepared(buf, id, fix)
          = Put(c9, CHECKSUM_START(s, a),
                i16tox(Crc(Chars(c9, CHECKSUM_BEGIN, CHECKSUM_END(s, a))))
                  \o <<NEWLINE, NEWLINE>>)
    BY DEF Prepared
  <2>2. c1 = b1
    BY <1>2
  <2>3. c2 = b2
    BY <1>4, <2>2
  <2> HIDE DEF c1, c2, b1, b2
  <2>4. /\ PutCoordinate(b2, LAT_START(s), fix.lat, 9) = b3
        /\ PutCoordinate(b3, LON_START(s), fix.lon, 10) = b4
    <3>1. LAT_START(s) \in Nat /\ LON_START(s) \in Nat
      BY <1>2 DEF SENT_ID_START, TIME_START, LAT_START, LON_START
    <3>2. /\ PutCoordinate(b2, LAT_START(s), fix.lat, 9)
               = Put(b2, LAT_START(s), Append(Field(fix.lat, 9), COMMA))
          /\ PutCoordinate(b3, LON_START(s), fix.lon, 10)
               = Put(b3, LON_START(s), Append(f4, COMMA))
      BY <3>1, CoordinatePut
    <3> QED BY <1>5, <3>2
  <2>5. c4 = b4
    BY <2>3, <2>4
  <2> HIDE DEF c3, c4, b3, b4
  <2>6. c5 = b5
    BY <1>3, <2>5
  <2>7. c6 = b6
    BY <1>7, <2>6
  <2>8. c8 = b8
    BY <1>8, <2>7
  <2> HIDE DEF c5, c6, c7, c8, b5, b6, b7, b8
  <2>9. c9 = b9
    BY <1>9, <2>8
  <2> QED BY <2>1, <2>9
<1> HIDE DEF s, a, f1, f2, f3, f4, f5, f6, f7, f8, f9
<1>12. s \in Nat /\ a \in Nat /\ s <= 5 /\ a <= 5
  BY <1>2, <1>3
<1>13. /\ SENT_ID_START = 12
       /\ TIME_START(s) = s + 13 /\ LAT_START(s) = s + 20
       /\ LON_START(s) = s + 31 /\ ALT_START(s) = s + 43
       /\ SAT_START(s, a) = s + a + 44 /\ VOLT_START(s, a) = s + a + 47
       /\ VSOL_START(s, a) = s + a + 52 /\ TEMP_START(s, a) = s + a + 57
  BY <1>12 DEF SENT_ID_START, TIME_START, LAT_START, LON_START, ALT_START, SAT_START,
               VOLT_START, VSOL_START, TEMP_START
<1>14. Stage(buf, CallSign, COMMA) /\ Len(CallSign) = 4
  <2>1. CallSign \in Seq(Int) /\ Len(CallSign) = 4
    BY DEF CallSign
  <2>2. Line(CallSign, COMMA) = Prefix
    <3> DEFINE p == SubSeq(Prefix, 1, 7)
               q == Append(CallSign, COMMA)
               z == p \o q
    <3>1. Prefix \in Seq(Int) /\ Len(Prefix) = 12
      BY DEF Prefix, COMMA
    <3>2. p \in Seq(Int) /\ Len(p) = 7 /\ \A k \in 1 .. 7 : p[k] = Prefix[k]
      BY DEF Prefix
    <3>3. /\ q \in Seq(Int) /\ Len(q) = 5
          /\ \A k \in 1 .. 4 : q[k] = CallSign[k]
          /\ q[5] = COMMA
      <4>1. Appended(q, CallSign, COMMA)
        BY <1>1, <2>1, AppendedIs
      <4> HIDE DEF q
      <4> QED BY <2>1, <4>1 DEF Appended
    <3>4. /\ \A k \in 1 .. 4 : CallSign[k] = Prefix[k + 7]
          /\ Prefix[12] = COMMA
      BY DEF CallSign, Prefix
    <3>5. \A k \in 8 .. 12 : q[k - 7] = Prefix[k]
      <4> SUFFICES ASSUME NEW k \in 8 .. 12 PROVE q[k - 7] = Prefix[k]
        OBVIOUS
      <4>1. CASE k = 12
        BY <3>3, <3>4, <4>1
      <4>2. CASE k # 12
        <5>1. k - 7 \in 1 .. 4 /\ (k - 7) + 7 = k
          BY <4>2
        <5> HIDE DEF q
        <5> QED BY <3>3, <3>4, <5>1
      <4> QED BY <4>1, <4>2
    <3> HIDE DEF p, q
    <3>6. Pairs(z, p, q)
      BY <3>2, <3>3, PairsIs
    <3> HIDE DEF z
    <3>7. z \in Seq(Int) /\ Len(z) = 12
      BY <3>2, <3>3, <3>6 DEF Pairs
    <3>8. \A k \in 1 .. 12 : z[k] = IF k <= 7 THEN p[k] ELSE q[k - 7]
      BY <3>2, <3>3, <3>6 DEF Pairs
    <3>9. \A k \in 1 .. 12 : z[k] = Prefix[k]
      <4> SUFFICES ASSUME NEW k \in 1 .. 12 PROVE z[k] = Prefix[k]
        OBVIOUS
      <4>1. CASE k <= 7
        BY <3>2, <3>8, <4>1
      <4>2. CASE k > 7
        <5>1. k \in 8 .. 12 /\ ~(k <= 7)
          BY <4>2
        <5> QED BY <3>5, <3>8, <5>1
      <4> QED BY <4>1, <4>2
    <3>10. z = Prefix
      BY <3>1, <3>7, <3>9, SeqEqual
    <3> QED BY <3>10 DEF Line, z, p, q
  <2>3. Len(Prefix) = 12
    BY DEF Prefix
  <2>4. \A k \in 1 .. 12 : buf[k - 1] = Prefix[k]
    <3> SUFFICES ASSUME NEW k \in 1 .. 12 PROVE buf[k - 1] = Prefix[k]
      OBVIOUS
    <3>1. k - 1 \in 0 .. 11 /\ (k - 1) + 1 = k
      OBVIOUS
    <3> QED BY <3>1 DEF Headed
  <2> QED BY <2>1, <2>2, <2>3, <2>4 DEF Stage, Shows
<1>15. Stage(b1, l1, COMMA) /\ Len(l1) = s + 5
  <2> DEFINE at == SENT_ID_START
  <2>1. at \in Nat /\ at = Len(CallSign) + 8 /\ at >= 12 /\ at + Len(f1) + 1 <= 84
    BY <1>2, <1>12, <1>13, <1>14
  <2> HIDE DEF at
  <2>2. /\ Stage(Put(buf, at, Append(f1, COMMA)), With(CallSign, f1), COMMA)
        /\ Len(With(CallSign, f1)) = Len(CallSign) + 1 + Len(f1)
    BY <1>1, <1>2, <1>14, <2>1, FieldStage
  <2>3. Stage(b1, l1, COMMA)
    BY <2>2 DEF at
  <2> HIDE DEF b1
  <2> QED BY <1>2, <1>12, <1>14, <2>2, <2>3
<1> HIDE DEF b1, l1
<1>16. Stage(b2, l2, COMMA) /\ Len(l2) = s + 12
  <2> DEFINE at == TIME_START(s)
  <2>1. at \in Nat /\ at = Len(l1) + 8 /\ at >= 12 /\ at + Len(f2) + 1 <= 84
    BY <1>4, <1>12, <1>13, <1>15
  <2> HIDE DEF at
  <2>2. /\ Stage(Put(b1, at, Append(f2, COMMA)), With(l1, f2), COMMA)
        /\ Len(With(l1, f2)) = Len(l1) + 1 + Len(f2)
    BY <1>1, <1>4, <1>15, <2>1, FieldStage
  <2>3. Stage(b2, l2, COMMA)
    BY <2>2 DEF at
  <2> HIDE DEF b2
  <2> QED BY <1>4, <1>12, <1>15, <2>2, <2>3
<1> HIDE DEF b2, l2
<1>17. Stage(b3, l3, COMMA) /\ Len(l3) = s + 23
  <2> DEFINE at == LAT_START(s)
  <2>1. at \in Nat /\ at = Len(l2) + 8 /\ at >= 12 /\ at + Len(f3) + 1 <= 84
    BY <1>5, <1>12, <1>13, <1>16
  <2> HIDE DEF at
  <2>2. /\ Stage(Put(b2, at, Append(f3, COMMA)), With(l2, f3), COMMA)
        /\ Len(With(l2, f3)) = Len(l2) + 1 + Len(f3)
    BY <1>1, <1>5, <1>16, <2>1, FieldStage
  <2>3. Stage(b3, l3, COMMA)
    BY <2>2 DEF at
  <2> HIDE DEF b3
  <2> QED BY <1>5, <1>12, <1>16, <2>2, <2>3
<1> HIDE DEF b3, l3
<1>18. Stage(b4, l4, COMMA) /\ Len(l4) = s + 35
  <2> DEFINE at == LON_START(s)
  <2>1. at \in Nat /\ at = Len(l3) + 8 /\ at >= 12 /\ at + Len(f4) + 1 <= 84
    BY <1>6, <1>12, <1>13, <1>17
  <2> HIDE DEF at
  <2>2. /\ Stage(Put(b3, at, Append(f4, COMMA)), With(l3, f4), COMMA)
        /\ Len(With(l3, f4)) = Len(l3) + 1 + Len(f4)
    BY <1>1, <1>6, <1>17, <2>1, FieldStage
  <2>3. Stage(b4, l4, COMMA)
    BY <2>2 DEF at
  <2> HIDE DEF b4
  <2> QED BY <1>6, <1>12, <1>17, <2>2, <2>3
<1> HIDE DEF b4, l4
<1>19. Stage(b5, l5, COMMA) /\ Len(l5) = s + a + 36
  <2> DEFINE at == ALT_START(s)
  <2>1. at \in Nat /\ at = Len(l4) + 8 /\ at >= 12 /\ at + Len(f5) + 1 <= 84
    BY <1>3, <1>12, <1>13, <1>18
  <2> HIDE DEF at
  <2>2. /\ Stage(Put(b4, at, Append(f5, COMMA)), With(l4, f5), COMMA)
        /\ Len(With(l4, f5)) = Len(l4) + 1 + Len(f5)
    BY <1>1, <1>3, <1>18, <2>1, FieldStage
  <2>3. Stage(b5, l5, COMMA)
    BY <2>2 DEF at
  <2> HIDE DEF b5
  <2> QED BY <1>3, <1>12, <1>18, <2>2, <2>3
<1> HIDE DEF b5, l5
<1>20. Stage(b6, l6, COMMA) /\ Len(l6) = s + a + 39
  <2> DEFINE at == SAT_START(s, a)
  <2>1. at \in Nat /\ at = Len(l5) + 8 /\ at >= 12 /\ at + Len(f6) + 1 <= 84
    <3>1. Len(f6) = 2
      BY <1>7
    <3>2. Len(l5) = s + a + 36
      BY <1>19
    <3> QED BY <1>12, <1>13, <3>1, <3>2
  <2> HIDE DEF at
  <2>2. /\ Stage(Put(b5, at, Append(f6, COMMA)), With(l5, f6), COMMA)
        /\ Len(With(l5, f6)) = Len(l5) + 1 + Len(f6)
    BY <1>1, <1>7, <1>19, <2>1, FieldStage
  <2>3. Stage(b6, l6, COMMA)
    BY <2>2 DEF at
  <2> HIDE DEF b6
  <2> QED BY <1>7, <1>12, <1>19, <2>2, <2>3
<1> HIDE DEF b6, l6
<1>21. Stage(b7, l7, COMMA) /\ Len(l7) = s + a + 44
  <2> DEFINE at == VOLT_START(s, a)
  <2>1. at \in Nat /\ at = Len(l6) + 8 /\ at >= 12 /\ at + Len(f7) + 1 <= 84
    <3>1. Len(f7) = 4
      BY <1>8
    <3>2. Len(l6) = s + a + 39
      BY <1>20
    <3> QED BY <1>12, <1>13, <3>1, <3>2
  <2> HIDE DEF at
  <2>2. /\ Stage(Put(b6, at, Append(f7, COMMA)), With(l6, f7), COMMA)
        /\ Len(With(l6, f7)) = Len(l6) + 1 + Len(f7)
    BY <1>1, <1>8, <1>20, <2>1, FieldStage
  <2>3. Stage(b7, l7, COMMA)
    BY <2>2 DEF at
  <2> HIDE DEF b7
  <2> QED BY <1>8, <1>12, <1>20, <2>2, <2>3
<1> HIDE DEF b7, l7
<1>22. Stage(b8, l8, COMMA) /\ Len(l8) = s + a + 49
  <2> DEFINE at == VSOL_START(s, a)
  <2>1. at \in Nat /\ at = Len(l7) + 8 /\ at >= 12 /\ at + Len(f8) + 1 <= 84
    <3>1. Len(f8) = 4
      BY <1>8
    <3>2. Len(l7) = s + a + 44
      BY <1>21
    <3> QED BY <1>12, <1>13, <3>1, <3>2
  <2> HIDE DEF at
  <2>2. /\ Stage(Put(b7, at, Append(f8, COMMA)), With(l7, f8), COMMA)
        /\ Len(With(l7, f8)) = Len(l7) + 1 + Len(f8)
    BY <1>1, <1>8, <1>21, <2>1, FieldStage
  <2>3. Stage(b8, l8, COMMA)
    BY <2>2 DEF at
  <2> HIDE DEF b8
  <2> QED BY <1>8, <1>12, <1>21, <2>2, <2>3
<1> HIDE DEF b8, l8
<1>23. Stage(b9, l9, STAR) /\ Len(l9) = s + a + 53
  <2> DEFINE at == TEMP_START(s, a)
  <2>1. at \in Nat /\ at = Len(l8) + 8 /\ at >= 12 /\ at + Len(f9) + 1 <= 84
    <3>1. Len(f9) = 3
      BY <1>9
    <3>2. Len(l8) = s + a + 49
      BY <1>22
    <3> QED BY <1>12, <1>13, <3>1, <3>2
  <2> HIDE DEF at
  <2>2. /\ Stage(Put(b8, at, Append(f9, STAR)), With(l8, f9), STAR)
        /\ Len(With(l8, f9)) = Len(l8) + 1 + Len(f9)
    BY <1>1, <1>9, <1>22, <2>1, FieldStage
  <2>3. Stage(b9, l9, STAR)
    BY <2>2 DEF at
  <2> HIDE DEF b9
  <2> QED BY <1>9, <1>12, <1>22, <2>2, <2>3
<1> HIDE DEF b9, l9
<1>24. Len(l9) = s + a + 53 /\ Stage(b9, l9, STAR)
  BY <1>23
<1> QED BY <1>2, <1>3, <1>10, <1>11, <1>24 DEF s, a, f4

(* The sentence as sent, for what stands before its checksum.              *)
SentenceOf(body) ==
  SubSeq(Prefix, 1, 7) \o body \o <<STAR>> \o i16tox(Crc(body)) \o <<NEWLINE, NEWLINE>>

LEMMA ChecksumCovers ==
  ASSUME NEW buf, NEW body, Stage(buf, body, STAR),
         NEW n, n = Len(body) + 7
  PROVE  Chars(buf, 7, n) = body
<1> DEFINE m == Len(body)
           line == Line(body, STAR)
<1>1. body \in Seq(Int) /\ Shows(buf, line) /\ STAR \in Int
  BY DEF Stage, STAR
<1>2. m \in Nat /\ body = [k \in 1 .. m |-> body[k]]
  BY <1>1, LenProperties
<1>3. Len(line) = m + 8 /\ \A k \in 1 .. m : line[k + 7] = body[k]
  BY <1>1, LineTyped
<1> HIDE DEF m, line
<1>4. n - 7 = m
  BY <1>2 DEF m
<1>5. \A k \in 1 .. m : buf[7 + k - 1] = body[k]
  <2> SUFFICES ASSUME NEW k \in 1 .. m PROVE buf[7 + k - 1] = body[k]
    OBVIOUS
  <2>1. k + 7 \in 1 .. m + 8 /\ (k + 7) - 1 = 7 + k - 1
    BY <1>2
  <2>2. buf[(k + 7) - 1] = line[k + 7]
    BY <1>1, <1>3, <2>1 DEF Shows
  <2> QED BY <1>3, <2>1, <2>2
<1>6. Chars(buf, 7, n) = [k \in 1 .. m |-> buf[7 + k - 1]]
  BY <1>4 DEF Chars
<1> QED BY <1>2, <1>5, <1>6

LEMMA SentenceEnds ==
  ASSUME NEW buf, NEW body, Stage(buf, body, STAR),
         NEW n \in Nat, n = Len(body) + 8, n <= 78
  PROVE  Chars(Put(buf, n, i16tox(Crc(body)) \o <<NEWLINE, NEWLINE>>), 0, n + 6)
           = SentenceOf(body)
<1> DEFINE hex == i16tox(Crc(body))
           nn == <<NEWLINE, NEWLINE>>
           tail == hex \o nn
           p == SubSeq(Prefix, 1, 7)
           star == <<STAR>>
           line == Line(body, STAR)
           S == Int \cup {hex[k] : k \in 1 .. 4}
           new == Put(buf, n, tail)
<1>1. hex \in Seq(S) /\ Len(hex) = 4
  <2>1. hex = [k \in 1 .. 4 |-> hex[k]]
    BY DEF i16tox
  <2> HIDE DEF hex
  <2>2. hex \in [1 .. 4 -> S]
    BY <2>1
  <2> HIDE DEF S
  <2> QED BY <2>2, FunctionIsSeq
<1>2. nn \in Seq(S) /\ Len(nn) = 2 /\ star \in Seq(S) /\ STAR \in S /\ STAR \in Int
  BY DEF NEWLINE, STAR
<1>3. Seq(Int) \subseteq Seq(S)
  OBVIOUS
<1>4. body \in Seq(Int) /\ Shows(buf, line)
  BY DEF Stage
<1>5. p \in Seq(Int) /\ line \in Seq(Int) /\ Len(line) = n
  BY <1>2, <1>4, LineTyped
<1> HIDE DEF S, hex, nn, star, p
<1>6. body \in Seq(S) /\ p \in Seq(S) /\ line \in Seq(S)
  BY <1>3, <1>4, <1>5
<1>7. tail \in Seq(S) /\ Len(tail) = 6
  <2>1. tail \in Seq(S) /\ Len(tail) = Len(hex) + Len(nn)
    BY <1>1, <1>2, ConcatTyped
  <2> HIDE DEF tail
  <2> QED BY <1>1, <1>2, <2>1
<1>8. line = (p \o body) \o star
  <2>1. Append(body, STAR) = body \o star
    BY <1>2, <1>6, AppendIsConcat DEF star
  <2>2. Associate(p, body, star)
    BY <1>2, <1>6, TheyAssociate
  <2> QED BY <2>1, <2>2 DEF Line, Associate, p
<1>9. line \o tail = SentenceOf(body)
  <2>1. Associate(line, hex, nn)
    BY <1>1, <1>2, <1>6, TheyAssociate
  <2> QED BY <1>8, <2>1 DEF Associate, SentenceOf, p, star, hex, nn
<1> HIDE DEF tail, line
<1>10. n + Len(tail) <= 84
  BY <1>7
<1>11. Shows(new, line \o tail)
  BY <1>4, <1>5, <1>6, <1>7, <1>10, PutShows
<1> DEFINE z == line \o tail
<1>12. z \in Seq(S) /\ Len(z) = n + 6
  <2>1. z \in Seq(S) /\ Len(z) = Len(line) + Len(tail)
    BY <1>6, <1>7, ConcatTyped
  <2> HIDE DEF z
  <2> QED BY <1>5, <1>7, <2>1
<1> HIDE DEF z, new
<1>13. z = [k \in 1 .. n + 6 |-> z[k]]
  BY <1>12, LenProperties
<1>14. \A k \in 1 .. n + 6 : new[0 + k - 1] = z[k]
  BY <1>11, <1>12 DEF Shows, z
<1>15. Chars(new, 0, n + 6) = [k \in 1 .. n + 6 |-> new[0 + k - 1]]
  BY DEF Chars
<1> QED BY <1>9, <1>13, <1>14, <1>15 DEF z, new, tail, hex, nn

(* What a call of prepare_tx_buffer() leaves in tx_buf.                    *)
LEMMA SentenceStands ==
  ASSUME NEW buf, Headed(buf), NEW id \in Nat, In16(id),
         NEW fix \in Fixes \cup {UsualFix}
  PROVE  /\ Headed(Prepared(buf, id, fix))
         /\ Chars(Prepared(buf, id, fix), 0, PreparedLength(id, fix))
              = SentenceOf(BodyOf(id, fix, Field(fix.lon, 10)))
<1> DEFINE s    == IdLength(id)
           a    == AltLength(fix)
           body == BodyOf(id, fix, Field(fix.lon, 10))
           n    == CHECKSUM_START(s, a)
<1>1. PICK b9 : /\ Stage(b9, body, STAR) /\ Len(body) = s + a + 53
                /\ s \in 1 .. 5 /\ a \in 1 .. 5
                /\ Prepared(buf, id, fix)
                     = Put(b9, n, i16tox(Crc(Chars(b9, CHECKSUM_BEGIN, CHECKSUM_END(s, a))))
                                    \o <<NEWLINE, NEWLINE>>)
  BY FieldsGo
<1> HIDE DEF s, a, body
<1>2. /\ n \in Nat /\ n = Len(body) + 8 /\ n <= 78 /\ n >= 12
      /\ CHECKSUM_END(s, a) = Len(body) + 7 /\ CHECKSUM_BEGIN = 7
      /\ FRAME_END(s, a) = n + 6
  BY <1>1 DEF SENT_ID_START, TIME_START, LAT_START, LON_START, ALT_START, SAT_START,
              VOLT_START, VSOL_START, TEMP_START, CHECKSUM_START, CHECKSUM_BEGIN,
              CHECKSUM_END, FRAME_END
<1> HIDE DEF n
<1>3. Chars(b9, CHECKSUM_BEGIN, CHECKSUM_END(s, a)) = body
  BY <1>1, <1>2, ChecksumCovers
<1>4. Prepared(buf, id, fix) = Put(b9, n, i16tox(Crc(body)) \o <<NEWLINE, NEWLINE>>)
  BY <1>1, <1>3
<1>5. Chars(Prepared(buf, id, fix), 0, n + 6) = SentenceOf(body)
  BY <1>1, <1>2, <1>4, SentenceEnds
<1>6. Headed(Prepared(buf, id, fix))
  BY <1>1, <1>2, <1>4, PutBehindHead DEF Stage
<1> QED BY <1>2, <1>5, <1>6 DEF PreparedLength, s, a, body

(* A longitude that lost its first digit makes another sentence: its place *)
(* does not depend on it, nor on what comes behind.                        *)
LEMMA ConcatKeeps ==
  ASSUME NEW S, NEW x \in Seq(S), NEW y \in Seq(S), NEW k \in 1 .. Len(x)
  PROVE  (x \o y)[k] = x[k]
<1> DEFINE z == x \o y
<1>1. \A j \in 1 .. Len(x) + Len(y) : z[j] = IF j <= Len(x) THEN x[j] ELSE y[j - Len(x)]
  BY ConcatProperties
<1>2. Len(x) \in Nat /\ Len(y) \in Nat
  BY LenProperties
<1> HIDE DEF z
<1>3. k \in 1 .. Len(x) + Len(y) /\ k <= Len(x)
  BY <1>2
<1>4. z[k] = x[k]
  BY <1>1, <1>3
<1> QED BY <1>4 DEF z

LEMMA SentenceHolds ==
  ASSUME NEW body \in Seq(Int), NEW k \in 1 .. Len(body)
  PROVE  SentenceOf(body)[7 + k] = body[k]
<1> DEFINE hex == i16tox(Crc(body))
           nn == <<NEWLINE, NEWLINE>>
           p == SubSeq(Prefix, 1, 7)
           star == <<STAR>>
           S == Int \cup {hex[j] : j \in 1 .. 4}
           q == p \o body
           r == q \o star
           t == r \o hex
<1>1. hex \in Seq(S) /\ Len(hex) = 4
  <2>1. hex = [j \in 1 .. 4 |-> hex[j]]
    BY DEF i16tox
  <2> HIDE DEF hex
  <2>2. hex \in [1 .. 4 -> S]
    BY <2>1
  <2> HIDE DEF S
  <2> QED BY <2>2, FunctionIsSeq
<1>2. nn \in Seq(S) /\ star \in Seq(S) /\ Len(nn) = 2 /\ Len(star) = 1
  BY DEF NEWLINE, STAR
<1>3. Seq(Int) \subseteq Seq(S) /\ STAR \in Int
  BY DEF STAR
<1>4. p \in Seq(Int) /\ Len(p) = 7
  BY <1>3, LineTyped
<1>5. Len(body) \in Nat
  BY LenProperties
<1> HIDE DEF S, hex, nn, star, p
<1>6. body \in Seq(S) /\ p \in Seq(S)
  BY <1>3, <1>4
<1>7. Pairs(q, p, body)
  BY <1>4, PairsIs
<1>8. q \in Seq(S)
  BY <1>6, ConcatTyped
<1> DEFINE n == Len(body)
<1> HIDE DEF q, n
<1>9. n \in Nat /\ k \in 1 .. n
  BY <1>5 DEF n
<1>10. Len(q) = 7 + n /\ q[7 + k] = body[k]
  BY <1>4, <1>7, <1>9 DEF Pairs, n
<1>11. r \in Seq(S) /\ Len(r) = Len(q) + Len(star)
  BY <1>2, <1>8, ConcatTyped
<1>12. r[7 + k] = q[7 + k]
  <2>1. 7 + k \in 1 .. Len(q)
    BY <1>9, <1>10
  <2> QED BY <1>2, <1>8, <2>1, ConcatKeeps
<1> HIDE DEF r
<1>13. t \in Seq(S) /\ Len(t) = Len(r) + Len(hex)
  BY <1>1, <1>11, ConcatTyped
<1>14. t[7 + k] = r[7 + k]
  <2>1. 7 + k \in 1 .. Len(r)
    BY <1>2, <1>9, <1>10, <1>11
  <2> QED BY <1>1, <1>11, <2>1, ConcatKeeps
<1> HIDE DEF t
<1>15. (t \o nn)[7 + k] = t[7 + k]
  <2>1. 7 + k \in 1 .. Len(t)
    BY <1>1, <1>2, <1>9, <1>10, <1>11, <1>13
  <2> QED BY <1>2, <1>13, <2>1, ConcatKeeps
<1>16. t \o nn = SentenceOf(body)
  BY DEF SentenceOf, t, r, q, p, star, hex, nn
<1> QED BY <1>10, <1>12, <1>14, <1>15, <1>16

Keeps(l, m) == /\ l \in Seq(Int) /\ m \in Seq(Int) /\ Len(l) <= Len(m)
               /\ \A k \in 1 .. Len(l) : m[k] = l[k]

LEMMA WithKeeps ==
  ASSUME NEW k, NEW l, NEW m, Keeps(k, l), NEW f \in Seq(Int), m = With(l, f)
  PROVE  Keeps(k, m)
<1>1. /\ m \in Seq(Int) /\ Len(m) = Len(l) + 1 + Len(f)
      /\ \A j \in 1 .. Len(l) : m[j] = l[j]
  BY WithTyped DEF Keeps
<1>2. Len(l) \in Nat /\ Len(f) \in Nat /\ Len(k) \in Nat
  BY LenProperties DEF Keeps
<1>3. Len(k) <= Len(m)
  BY <1>1, <1>2 DEF Keeps
<1>4. \A j \in 1 .. Len(k) : j \in 1 .. Len(l)
  BY <1>2 DEF Keeps
<1>5. \A j \in 1 .. Len(k) : m[j] = k[j]
  BY <1>1, <1>4 DEF Keeps
<1> QED BY <1>1, <1>3, <1>5 DEF Keeps

LEMMA FieldsTyped ==
  ASSUME NEW id \in Nat, In16(id), NEW fix \in Fixes \cup {UsualFix}
  PROVE  /\ IdField(id) \in Seq(Int) /\ TimeField(fix) \in Seq(Int)
         /\ Coordinate(fix.lat, 2) \in Seq(Int) /\ IdField(fix.alt) \in Seq(Int)
         /\ NumberOf(fix.num_svs, 2) \in Seq(Int)
         /\ NumberOf(fix.voltage_bat, 4) \in Seq(Int)
         /\ NumberOf(fix.voltage_sol, 4) \in Seq(Int)
         /\ TemperatureField(fix) \in Seq(Int)
<1>1. IdField(id) \in Seq(Int)
  BY IdFieldTyped
<1>2. IdField(fix.alt) \in Seq(Int)
  BY FixTyped, IdFieldTyped
<1>3. TimeField(fix) \in Seq(Int)
  <2> DEFINE h == fix.hour
             m == fix.min
             t == fix.sec
  <2>1. h \in Nat /\ m \in Nat /\ t \in Nat /\ 0 \in Int
    BY FixTyped
  <2> HIDE DEF h, m, t
  <2>2. LET x == NumberOf(h, 2) \o NumberOf(m, 2) \o NumberOf(t, 2)
        IN  /\ x \in Seq(Int) /\ Len(x) = 6
            /\ i16toa(h, 2) \o i16toa(m, 2) \o Append(i16toa(t, 2), 0) = Append(x, 0)
    BY <2>1, TimeFieldTyped
  <2> QED BY <2>2 DEF TimeField, h, m, t
<1>4. Coordinate(fix.lat, 2) \in Seq(Int)
  BY FixTyped, LatitudeTyped
<1>5. 2 \in 1 .. 6 /\ 4 \in 1 .. 6 /\ 0 \in Int
  OBVIOUS
<1>6. /\ NumberOf(fix.num_svs, 2) \in Seq(Int)
      /\ NumberOf(fix.voltage_bat, 4) \in Seq(Int)
      /\ NumberOf(fix.voltage_sol, 4) \in Seq(Int)
  BY <1>5, FixTyped, NumberTyped
<1>7. TemperatureField(fix) \in Seq(Int)
  <2>1. fix.temperature_int \in Int
    BY FixTyped
  <2> QED BY <1>5, <2>1, TemperatureFieldTyped DEF TemperatureField
<1> QED BY <1>1, <1>2, <1>3, <1>4, <1>6, <1>7

LEMMA SecondPlaced ==
  ASSUME NEW l \in Seq(Int), NEW f \in Seq(Int), Len(f) >= 2
  PROVE  Len(l) + 3 \in 1 .. Len(With(l, f)) /\ With(l, f)[Len(l) + 3] = f[2]
<1> DEFINE c == Append(l, COMMA)
           z == With(l, f)
           k == Len(l) + 3
<1>1. Len(l) \in Nat /\ Len(f) \in Nat
  BY LenProperties
<1>2. Appended(c, l, COMMA)
  BY AppendedIs DEF COMMA
<1> HIDE DEF c
<1>3. c \in Seq(Int) /\ Len(c) = Len(l) + 1
  BY <1>2 DEF Appended
<1>4. Pairs(z, c, f)
  <2>1. Pairs(c \o f, c, f)
    BY <1>3, PairsIs
  <2> QED BY <2>1 DEF With, c
<1> HIDE DEF z
<1>5. k \in 1 .. Len(c) + Len(f) /\ ~(k <= Len(c)) /\ k - Len(c) = 2
  BY <1>1, <1>3
<1>6. z[k] = f[2] /\ Len(z) = Len(c) + Len(f)
  BY <1>4, <1>5 DEF Pairs
<1> QED BY <1>5, <1>6 DEF z

LEMMA LongitudePlaced ==
  ASSUME NEW id \in Nat, In16(id), NEW fix \in Fixes \cup {UsualFix},
         NEW lon \in Seq(Int), Len(lon) = 11, NEW temp \in Seq(Int)
  PROVE  LET l3 == With(With(With(CallSign, IdField(id)), TimeField(fix)),
                        Coordinate(fix.lat, 2))
         IN  /\ ToVoltage(id, fix, lon) \in Seq(Int)
             /\ SentenceOf(BodyWith(id, fix, lon, temp))[7 + (Len(l3) + 3)] = lon[2]
<1> DEFINE l1 == With(CallSign, IdField(id))
           l2 == With(l1, TimeField(fix))
           l3 == With(l2, Coordinate(fix.lat, 2))
           l4 == With(l3, lon)
           l5 == With(l4, IdField(fix.alt))
           l6 == With(l5, NumberOf(fix.num_svs, 2))
           l7 == With(l6, NumberOf(fix.voltage_bat, 4))
           l8 == With(l7, NumberOf(fix.voltage_sol, 4))
           l9 == With(l8, temp)
           k == Len(l3) + 3
<1>1. l9 = BodyWith(id, fix, lon, temp)
  BY DEF BodyWith, ToVoltage, ToLongitude
<1>16. l8 = ToVoltage(id, fix, lon)
  BY DEF ToVoltage, ToLongitude
<1>2. CallSign \in Seq(Int)
  BY DEF CallSign
<1>3. l1 \in Seq(Int)
  BY <1>2, FieldsTyped, WithTyped
<1> HIDE DEF l1
<1>4. l2 \in Seq(Int)
  BY <1>3, FieldsTyped, WithTyped
<1> HIDE DEF l2
<1>5. l3 \in Seq(Int)
  BY <1>4, FieldsTyped, WithTyped
<1> HIDE DEF l3
<1>6. l4 \in Seq(Int)
  BY <1>5, WithTyped
<1>7. k \in 1 .. Len(l4) /\ l4[k] = lon[2]
  <2>1. Len(lon) >= 2
    OBVIOUS
  <2> HIDE DEF l3
  <2> QED BY <1>5, <2>1, SecondPlaced
<1>8. Keeps(l4, l4)
  <2>1. Len(l4) \in Nat
    BY <1>6, LenProperties
  <2> HIDE DEF l4
  <2> QED BY <1>6, <2>1 DEF Keeps
<1> HIDE DEF l4
<1>9. Keeps(l4, l5)
  BY <1>8, FieldsTyped, WithKeeps
<1> HIDE DEF l5
<1>10. Keeps(l4, l6)
  BY <1>9, FieldsTyped, WithKeeps
<1> HIDE DEF l6
<1>11. Keeps(l4, l7)
  BY <1>10, FieldsTyped, WithKeeps
<1> HIDE DEF l7
<1>12. Keeps(l4, l8)
  BY <1>11, FieldsTyped, WithKeeps
<1> HIDE DEF l8
<1>13. Keeps(l4, l9)
  BY <1>12, WithKeeps
<1> HIDE DEF l9, k
<1>14. l9 \in Seq(Int) /\ k \in 1 .. Len(l9) /\ l9[k] = lon[2]
  <2>1. l9 \in Seq(Int) /\ Len(l4) <= Len(l9) /\ \A j \in 1 .. Len(l4) : l9[j] = l4[j]
    BY <1>13 DEF Keeps
  <2>2. Len(l9) \in Nat /\ Len(l4) \in Nat
    BY <1>6, <2>1, LenProperties
  <2> QED BY <1>7, <2>1, <2>2
<1>15. SentenceOf(l9)[7 + k] = lon[2]
  BY <1>14, SentenceHolds
<1>17. ToVoltage(id, fix, lon) \in Seq(Int)
  BY <1>12, <1>16 DEF Keeps
<1>18. SentenceOf(BodyWith(id, fix, lon, temp))[7 + k] = lon[2]
  BY <1>1, <1>15
<1> QED BY <1>17, <1>18 DEF k, l3, l2, l1

(* Two digits are all of a temperature that fits.  Of one that does not    *)
(* fit the first of three digits is a 1 and the first of two a 0.          *)
LEMMA TemperatureIs ==
  ASSUME NEW fix \in Fixes \cup {UsualFix}
  PROVE  LET f == TemperatureField(fix)
             w == WholeTemperature(fix)
         IN  /\ f \in Seq(Int) /\ w \in Seq(Int) /\ Len(f) >= 2 /\ Len(w) >= 2
             /\ TemperatureFits(fix) => f = w
             /\ ~TemperatureFits(fix) => f[2] # w[2]
<1> DEFINE t == fix.temperature_int
           sign == <<IF t < 0 THEN MINUS ELSE PLUS>>
           a == Abs(t)
           y == NumberOf(a, 2)
           x == NumberOf(a, 3)
           f == sign \o y
           w == sign \o x
<1>1. a \in Nat /\ a <= 100 /\ 2 \in 1 .. 6 /\ 3 \in 1 .. 6
  BY FixTyped DEF Abs
<1>2. sign \in Seq(Int) /\ Len(sign) = 1
  BY DEF MINUS, PLUS
<1>3. TemperatureFits(fix) <=> a < 100
  BY DEF TemperatureFits
<1>4. TemperatureField(fix) = f
  BY DEF TemperatureField
<1>5. WholeTemperature(fix) = IF a < 100 THEN f ELSE w
  BY DEF WholeTemperature
<1>6. ~(a < 100) => y[1] = 48 /\ x[1] = 49
  <2>1. SUFFICES ASSUME a = 100 PROVE y[1] = 48 /\ x[1] = 49
    BY <1>1
  <2>2. 10 ^ (2 - 1) = 10 /\ 10 ^ (3 - 1) = 100
    BY SMT
  <2>3. y[1] = 48 + ((a \div (10 ^ (2 - 1))) % 10)
    BY DEF NumberOf
  <2>4. x[1] = 48 + ((a \div (10 ^ (3 - 1))) % 10)
    BY DEF NumberOf
  <2> HIDE DEF a, x, y
  <2> QED BY <2>1, <2>2, <2>3, <2>4
<1> HIDE DEF sign, a
<1>7. y \in Seq(Int) /\ Len(y) = 2 /\ x \in Seq(Int) /\ Len(x) = 3
  BY <1>1, NumberTyped
<1> HIDE DEF x, y
<1>8. Pairs(f, sign, y) /\ Pairs(w, sign, x)
  BY <1>2, <1>7, PairsIs
<1> HIDE DEF f, w
<1>9. f \in Seq(Int) /\ Len(f) = 3 /\ w \in Seq(Int) /\ Len(w) = 4
  BY <1>2, <1>7, <1>8 DEF Pairs
<1>10. f[2] = y[1] /\ w[2] = x[1]
  BY <1>2, <1>7, <1>8 DEF Pairs
<1>11. Len(f) >= 2 /\ Len(w) >= 2
  BY <1>9
<1>12. TemperatureFits(fix) => WholeTemperature(fix) = f
  BY <1>3, <1>5
<1>13. ~TemperatureFits(fix) => WholeTemperature(fix) = w /\ f[2] = 48 /\ w[2] = 49
  BY <1>3, <1>5, <1>6, <1>10
<1>14. 48 # 49
  OBVIOUS
<1>15. ~TemperatureFits(fix) => WholeTemperature(fix) = w /\ f[2] # w[2]
  BY <1>13, <1>14
<1> QED BY <1>4, <1>9, <1>11, <1>12, <1>15

(* The sentence shows either lost digit at a place of its own.             *)
LEMMA LostDigitShows ==
  ASSUME NEW id \in Nat, In16(id), NEW fix \in Fixes \cup {UsualFix}
  PROVE  SentenceOf(BodyOf(id, fix, Field(fix.lon, 10))) = ExpectedSentence(id, fix)
           <=> LongitudeFits(fix) /\ TemperatureFits(fix)
<1> DEFINE c == Coordinate(fix.lon, 3)
           f == Field(fix.lon, 10)
           t == TemperatureField(fix)
           w == WholeTemperature(fix)
           l3 == With(With(With(CallSign, IdField(id)), TimeField(fix)),
                      Coordinate(fix.lat, 2))
           pos == 7 + (Len(l3) + 3)
<1>1. /\ f \in Seq(Int) /\ Len(f) = 11 /\ c \in Seq(Int) /\ Len(c) = 11
      /\ LongitudeFits(fix) => f = c
      /\ ~LongitudeFits(fix) => f[2] # c[2]
  BY FixTyped, LongitudeIs, SMT DEF LongitudeFits
<1>2. /\ t \in Seq(Int) /\ w \in Seq(Int) /\ Len(t) >= 2 /\ Len(w) >= 2
      /\ TemperatureFits(fix) => t = w
      /\ ~TemperatureFits(fix) => t[2] # w[2]
  BY TemperatureIs
<1>3. /\ ExpectedSentence(id, fix) = SentenceOf(BodyWith(id, fix, c, w))
      /\ BodyOf(id, fix, f) = BodyWith(id, fix, f, t)
  BY BodyIs DEF ExpectedSentence, SentenceOf, BodyOf
<1> HIDE DEF f, c, t, w
<1>4. /\ SentenceOf(BodyWith(id, fix, f, t))[pos] = f[2]
      /\ SentenceOf(BodyWith(id, fix, c, w))[pos] = c[2]
  BY <1>1, <1>2, LongitudePlaced
<1>5. CASE LongitudeFits(fix) /\ TemperatureFits(fix)
  BY <1>1, <1>2, <1>3, <1>5 DEF f
<1>6. CASE ~LongitudeFits(fix)
  BY <1>1, <1>3, <1>4, <1>6 DEF f
<1>7. CASE LongitudeFits(fix) /\ ~TemperatureFits(fix)
  <2> DEFINE m == ToVoltage(id, fix, c)
             at == 7 + (Len(m) + 3)
  <2>1. m \in Seq(Int)
    BY <1>1, <1>2, LongitudePlaced
  <2> HIDE DEF m
  <2>2. SentenceOf(With(m, t))[at] = t[2]
    BY <1>2, <2>1, SecondPlaced, SentenceHolds, WithTyped
  <2>3. SentenceOf(With(m, w))[at] = w[2]
    BY <1>2, <2>1, SecondPlaced, SentenceHolds, WithTyped
  <2>4. /\ BodyWith(id, fix, f, t) = With(m, t)
        /\ BodyWith(id, fix, c, w) = With(m, w)
    BY <1>1, <1>7 DEF BodyWith, m
  <2>5. SentenceOf(With(m, t)) # SentenceOf(With(m, w))
    BY <1>2, <1>7, <2>2, <2>3
  <2> QED BY <1>3, <1>7, <2>4, <2>5 DEF f
<1> QED BY <1>5, <1>6, <1>7

(* Every sentence is written behind the head that init_tx_buffer() wrote,  *)
(* and stays in tx_buf until the next one.                                 *)
Sentences ==
  from = "current" =>
    /\ sent \in Fixes \cup {UsualFix}
    /\ tx_buf_length = PreparedLength(sent_id, sent)
    /\ Chars(tx_buf, 0, tx_buf_length) = SentenceOf(BodyOf(sent_id, sent, Field(sent.lon, 10)))

SentenceInv == /\ Headed(tx_buf)
               /\ sent_id \in Nat /\ In16(sent_id)
               /\ Sentences

LEMMA TemplateHeaded == Headed(Template)
<1>1. \A k \in 0 .. 11 : k \in Memory /\ k < SENT_ID_START
  BY TelemetryAssumption, SMT DEF Memory, SENT_ID_START
<1> QED BY <1>1 DEF Headed, Template

LEMMA SentenceInvInit == TelemetryInit => SentenceInv
<1> SUFFICES ASSUME TelemetryInit PROVE SentenceInv
  OBVIOUS
<1>1. from # "current"
  BY DEF TelemetryInit
<1>2. Headed(tx_buf)
  BY TemplateHeaded DEF TelemetryInit
<1>3. sent_id \in Nat /\ In16(sent_id)
  BY SMT DEF TelemetryInit, In16
<1> QED BY <1>1, <1>2, <1>3 DEF SentenceInv, Sentences

(* One sentence more does not bring sent_id to the end of its 16 bits.     *)
LEMMA IdGoesOn ==
  ASSUME NEW fix, Regular(fix), sent_id \in Nat, fix.type > 2
  PROVE  sent_id' = sent_id + 1 /\ sent_id' \in Nat /\ In16(sent_id')
<1>1. sent_id < MaxSentences /\ MaxSentences \in Nat /\ MaxSentences <= 65535
  BY TelemetryAssumption, SMT DEF Regular
<1>2. sent_id' = (sent_id + 1) % 65536
  BY SMT DEF Regular, Uint16
<1> QED BY <1>1, <1>2, SMT DEF In16

LEMMA SentenceInvNext == SentenceInv /\ [TelemetryNext]_telemetryVars => SentenceInv'
<1> SUFFICES ASSUME SentenceInv, [TelemetryNext]_telemetryVars PROVE SentenceInv'
  OBVIOUS
<1>1. ASSUME NEW fix \in Deliverable, Regular(fix) PROVE SentenceInv'
  <2>1. fix \in Fixes \cup {UsualFix}
    BY DEF Deliverable
  <2>2. CASE ~(fix.type > 2)
    <3>1. from' = "none" /\ sent_id' = sent_id /\ tx_buf' = tx_buf
      BY <1>1, <2>2 DEF Regular
    <3> QED BY <3>1 DEF SentenceInv, Sentences, Headed
  <2>3. CASE fix.type > 2
    <3> DEFINE id == sent_id'
               buf == tx_buf
    <3>1. /\ sent' = fix
          /\ tx_buf' = Prepared(buf, id, fix) /\ tx_buf_length' = PreparedLength(id, fix)
      BY <1>1, <2>3 DEF Regular
    <3>2. id \in Nat /\ In16(id)
      BY <1>1, <2>3, IdGoesOn DEF SentenceInv
    <3>3. Headed(buf)
      BY DEF SentenceInv
    <3> HIDE DEF id, buf
    <3>4. /\ Headed(Prepared(buf, id, fix))
          /\ Chars(Prepared(buf, id, fix), 0, PreparedLength(id, fix))
               = SentenceOf(BodyOf(id, fix, Field(fix.lon, 10)))
      BY <2>1, <3>2, <3>3, SentenceStands
    <3>5. Headed(tx_buf')
      BY <3>1, <3>4
    <3>6. Sentences'
      BY <2>1, <3>1, <3>4 DEF Sentences, id
    <3> QED BY <3>2, <3>5, <3>6 DEF SentenceInv, id, Headed
  <2> QED BY <2>2, <2>3
<1>2. ASSUME NEW fix \in Stored, Backlog(fix) PROVE SentenceInv'
  <2>1. from' = "backlog" /\ sent_id' = sent_id /\ tx_buf' = tx_buf
    BY <1>2 DEF Backlog
  <2> QED BY <2>1 DEF SentenceInv, Sentences, Headed
<1>3. CASE UNCHANGED telemetryVars
  BY <1>3 DEF telemetryVars, SentenceInv, Sentences, Headed
<1> QED BY <1>1, <1>2, <1>3 DEF TelemetryNext

(* Over a radio link that loses nothing a listener is given, after any     *)
(* history of fixes and backlog frames, the whole sentence of the fix,     *)
(* except that a longitude from 141.0065408 degrees on and a temperature   *)
(* of 100 degrees, above or below zero, lost their first digit.            *)
THEOREM SentencesAreExpected == TelemetrySpec => []SentenceIsExpected
<1>1. SentenceInv => SentenceIsExpected
  <2> SUFFICES ASSUME SentenceInv, from = "current" PROVE SentenceIsExpected
    BY DEF SentenceIsExpected
  <2>1. /\ sent \in Fixes \cup {UsualFix} /\ sent_id \in Nat /\ In16(sent_id)
        /\ Chars(tx_buf, 0, tx_buf_length)
             = SentenceOf(BodyOf(sent_id, sent, Field(sent.lon, 10)))
    BY DEF SentenceInv, Sentences
  <2>2. SentenceOf(BodyOf(sent_id, sent, Field(sent.lon, 10)))
          = ExpectedSentence(sent_id, sent) <=> LongitudeFits(sent) /\ TemperatureFits(sent)
    BY <2>1, LostDigitShows
  <2> QED BY <2>1, <2>2 DEF SentenceIsExpected
<1> QED
  BY <1>1, SentenceInvInit, SentenceInvNext, PTL DEF TelemetrySpec

(* tx_buf is overrun by every sentence whose id and altitude have more     *)
(* than seven digits together, and by no other.                            *)
THEOREM SentencesOverflow == TelemetrySpec => []OverflowsWhenLong
<1>1. SentenceInv => OverflowsWhenLong
  <2> SUFFICES ASSUME SentenceInv, from = "current" PROVE OverflowsWhenLong
    BY DEF OverflowsWhenLong
  <2> DEFINE s == IdLength(sent_id)
             a == AltLength(sent)
  <2>1. /\ sent \in Fixes \cup {UsualFix} /\ sent_id \in Nat /\ In16(sent_id)
        /\ tx_buf_length = PreparedLength(sent_id, sent)
    BY DEF SentenceInv, Sentences
  <2>2. s \in 1 .. 5
    BY <2>1, IdFieldTyped DEF IdLength
  <2>3. a \in 1 .. 5
    BY <2>1, FixTyped, IdFieldTyped DEF AltLength
  <2>4. tx_buf_length = FRAME_END(s, a)
    BY <2>1 DEF PreparedLength
  <2>5. TX_BUF_MAX_LENGTH = 74
    BY TelemetryAssumption, SMT
  <2> HIDE DEF s, a
  <2>6. tx_buf_length > TX_BUF_MAX_LENGTH <=> s + a > 7
    BY <2>2, <2>3, <2>4, <2>5
       DEF SENT_ID_START, TIME_START, LAT_START, LON_START, ALT_START, SAT_START,
           VOLT_START, VSOL_START, TEMP_START, CHECKSUM_START, FRAME_END
  <2> QED BY <2>6 DEF OverflowsWhenLong, s, a
<1> QED
  BY <1>1, SentenceInvInit, SentenceInvNext, PTL DEF TelemetrySpec

----------------------------------------------------------------------------
(* What is measured fits what is sent: the assumption on the voltages of a *)
(* fix is met by every voltage that Adc.tla measures, at any number of     *)
(* samples whose sum fits.                                                 *)
LEMMA MeanIsBounded ==
  ASSUME NEW sum \in Nat, sum <= Samples * 3273
  PROVE  Mean(sum) \in Nat /\ Mean(sum) <= 3273
<1>1. Samples \in 1 .. 20
  BY AdcAssumption
<1>2. \A n \in 1 .. 20 : sum <= n * 3273 => sum \div n \in Nat /\ sum \div n <= 3273
  OBVIOUS
<1> QED BY <1>1, <1>2 DEF Mean

LEMMA BatteryIsBounded ==
  ASSUME NEW mv \in Nat
  PROVE  Battery(mv) \in Nat /\ Battery(mv) <= 4632
<1> DEFINE clipped == IF mv > 1380 THEN 1380 ELSE mv
<1>1. clipped \in Nat /\ clipped <= 1380
  OBVIOUS
<1>2. Battery(mv) = (clipped * 47) \div 14
  BY BatteryExact
<1> HIDE DEF clipped
<1> QED BY <1>1, <1>2

(* The two voltages are numbers of four digits and of one base91 pair, as  *)
(* prepare_tx_buffer() and prepare_aprs_tlm() take them for (tlm.c:136,    *)
(* aprs.c:117).                                                            *)
THEOREM VoltagesFit ==
  Spec => [][\/ channel = "bat" /\ channel' = "sol"
             \/ channel = "sol" /\ channel' = "none"
               => measured' \in Nat /\ measured' < SeqLimit]_vars
<1>1. SumInv /\ [Next]_vars =>
        [\/ channel = "bat" /\ channel' = "sol"
         \/ channel = "sol" /\ channel' = "none"
           => measured' \in Nat /\ measured' < SeqLimit]_vars
  <2> SUFFICES ASSUME SumInv, [Next]_vars,
                      \/ channel = "bat" /\ channel' = "sol"
                      \/ channel = "sol" /\ channel' = "none"
               PROVE  measured' \in Nat /\ measured' < SeqLimit
    OBVIOUS
  <2>1. TakeLast
    BY DEF Next, vars, Main, Begin, StartConversion, Sleep, TakeTemperature, TakeSample,
           NextChannel, Convert, ADC10_ISR, TimerISR, Watchdog
  <2>2. measured' \in {Mean(Sum), Battery(Mean(Sum))}
    BY <2>1 DEF TakeLast
  <2>3. Sum \in Nat /\ Sum <= (i + 1) * 3273
    BY SumExact
  <2>4. Sum <= Samples * 3273
    BY <2>1, <2>3, AdcAssumption DEF TakeLast, LastSample, SumInv
  <2>5. Mean(Sum) \in Nat /\ Mean(Sum) <= 3273
    BY <2>3, <2>4, MeanIsBounded
  <2>6. Battery(Mean(Sum)) \in Nat /\ Battery(Mean(Sum)) <= 4632
    BY <2>5, BatteryIsBounded
  <2>7. SeqLimit > 4632
    BY TelemetryAssumption, SMT
  <2>8. SeqLimit \in Nat
    BY TelemetryAssumption, SMT
  <2>9. \A v \in Nat : v <= 4632 => v < SeqLimit
    BY <2>7, <2>8, SMT
  <2>10. Mean(Sum) < SeqLimit /\ Battery(Mean(Sum)) < SeqLimit
    <3> DEFINE m == Mean(Sum)
    <3>1. m \in Nat /\ m <= 4632
      <4> HIDE DEF m
      <4>1. m \in Nat /\ m <= 3273
        BY <2>5 DEF m
      <4> QED BY <4>1, SMT
    <3> QED BY <2>6, <2>9, <3>1
  <2> QED BY <2>2, <2>5, <2>6, <2>10
<1>2. Init => SumInv
  BY AdcAssumption DEF Init, SumInv
<1> QED
  BY <1>1, <1>2, SumInvNext, PTL DEF Spec
=============================================================================
