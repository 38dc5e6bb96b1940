----------------------------- MODULE Gps_proofs -----------------------------
(***************************************************************************)
(* The safety of the GPS driver.  TLC sees a few kinds of noise and a few  *)
(* solutions; here they are any that the assumptions of Gps allow, and for *)
(* NeverAFalseAck line is any sequence of anything.                        *)
(*   NeverAFalseAck     an answer is taken for what it is                  *)
(*   MissedAfterStart   and missed only after the start of a message       *)
(*   ConfiguredFirst    the settings are accepted before the GPS is used   *)
(*   OneAnswer          a fix is made of the bytes of one answer           *)
(*   ReportedFix        and is what the GPS has reported, if no byte is    *)
(*                      lost                                               *)
(***************************************************************************)
EXTENDS Gps, SequenceTheorems, TLAPS

(* The bytes matched so far, counted back from the last one read, fit one  *)
(* of the two patterns each; and from the fourth on, where the patterns    *)
(* part, msg_ack says which.                                               *)
Matched == \A k \in 1 .. match_count : line[read - match_count + k] \in Expected(k)
Decided == match_count >= 4 =>
             (msg_ack = 1 <=> line[read - match_count + 4] = 1)
AckTyped == read \in Nat /\ match_count \in 0 .. 7 /\ msg_ack \in {0, 1}
AckInv == /\ AckTyped
          /\ pc = "ack" => read >= match_count /\ Matched /\ Decided

(* The two patterns, byte by byte.                                         *)
LEMMA Patterns ==
  /\ Expected(1) = {181} /\ Expected(2) = {98} /\ Expected(3) = {5}
  /\ Expected(4) = {1, 0} /\ Expected(5) = {2} /\ Expected(6) = {0}
  /\ Expected(7) = {6} /\ Expected(8) = {MsgId}
  BY DEF Expected, Ack, Nak, UBX1, UBX2, CFG

LEMMA AckInvInit == Init => AckInv
  BY DEF Init, AckInv, AckTyped

(* A byte that fits makes the match one longer.                            *)
LEMMA AckByteKeepsInv == AckInv /\ AckByte => AckInv'
<1> SUFFICES ASSUME AckInv, AckByte PROVE AckInv'
  OBVIOUS
<1> DEFINE m == match_count
<1>1. /\ pc = "ack" /\ pc' = "ack" /\ line' = line /\ step' = step
      /\ read \in Nat /\ read' = read + 1 /\ m \in 0 .. 6 /\ m' = m + 1
      /\ read >= m /\ Matched /\ Decided /\ msg_ack \in {0, 1}
      /\ byte \in Expected(m + 1)
  BY DEF AckByte, Receives, Received, AckInv, AckTyped, LastByte
<1>2. \A k : Expected(k)' = Expected(k)
  BY <1>1 DEF Expected, Ack, Nak, MsgId, Settings
<1>3. AckTyped'
  BY <1>1 DEF AckTyped, AckByte
<1>4. Matched'
  <2> SUFFICES ASSUME NEW k \in 1 .. m'
               PROVE  line'[read' - m' + k] \in Expected(k)
    BY <1>2 DEF Matched
  <2>1. read' - m' + k = read - m + k
    BY <1>1
  <2>2. CASE k \in 1 .. m
    BY <2>1, <2>2, <1>1 DEF Matched
  <2>3. CASE k = m + 1
    BY <2>1, <2>3, <1>1 DEF byte
  <2>4. QED
    BY <2>2, <2>3, <1>1
<1>5. Decided'
  <2>1. CASE m = 3
    <3>1. msg_ack' = IF byte = 1 THEN 1 ELSE 0
      BY <2>1, <1>1 DEF AckByte, Ack
    <3>2. line'[read' - m' + 4] = byte
      BY <2>1, <1>1 DEF byte
    <3>3. QED
      BY <3>1, <3>2 DEF Decided
  <2>2. CASE m # 3
    <3>1. msg_ack' = msg_ack
      BY <2>2 DEF AckByte
    <3>2. read' - m' + 4 = read - m + 4 /\ (m' >= 4 => m >= 4)
      BY <1>1, <2>2
    <3>3. line'[read' - m' + 4] = line[read - m + 4]
      BY <1>1, <3>2
    <3>4. QED
      BY <3>1, <3>2, <3>3, <1>1 DEF Decided
  <2>3. QED
    BY <2>1, <2>2
<1>6. QED
  BY <1>1, <1>3, <1>4, <1>5 DEF AckInv

(* One that does not fit starts over.                                      *)
LEMMA NoMatchKeepsInv == AckInv /\ NoMatch => AckInv'
<1> SUFFICES ASSUME AckInv, NoMatch PROVE AckInv'
  OBVIOUS
<1>1. read' \in Nat /\ match_count' = 0 /\ msg_ack' = msg_ack
  BY DEF NoMatch, Receives, Received, Restart, AckInv, AckTyped
<1>2. AckTyped'
  BY <1>1 DEF AckTyped, AckInv
<1>3. Matched' /\ Decided' /\ read' >= match_count'
  BY <1>1 DEF Matched, Decided
<1>4. QED
  BY <1>2, <1>3 DEF AckInv

(* A command starts over, too.                                             *)
LEMMA TransmitKeepsInv == ASSUME NEW m, AckInv, Transmit(m) PROVE AckInv'
<1>1. read' = 0 /\ match_count' = 0 /\ msg_ack' = 0
  BY DEF Transmit
<1>2. QED
  BY <1>1 DEF AckInv, AckTyped, Matched, Decided

(* What leaves gps_receive_ack() alone, or leaves it.                      *)
LEMMA ElsewhereKeepsInv ==
  ASSUME AckInv, pc' # "ack",
         read' \in Nat, match_count' \in 0 .. 7, msg_ack' \in {0, 1}
  PROVE  AckInv'
  BY DEF AckInv, AckTyped

LEMMA AckInvNext == AckInv /\ [Next]_vars => AckInv'
<1> SUFFICES ASSUME AckInv, [Next]_vars PROVE AckInv'
  OBVIOUS
<1> USE DEF AckInv, AckTyped
<1>1. CASE StartUp
  BY <1>1, ElsewhereKeepsInv DEF StartUp, ackVars
<1>2. CASE SendSetting
  BY <1>2, TransmitKeepsInv DEF SendSetting
<1>3. CASE PowerSave
  BY <1>3, TransmitKeepsInv DEF PowerSave
<1>4. CASE RequestFix
  BY <1>4, ElsewhereKeepsInv DEF RequestFix, ackVars
<1>5. CASE AckByte
  BY <1>5, AckByteKeepsInv
<1>6. CASE NoMatch
  BY <1>6, NoMatchKeepsInv
<1>7. CASE AckReturns
  BY <1>7, ElsewhereKeepsInv DEF AckReturns
<1>8. CASE HeaderByte
  BY <1>8, ElsewhereKeepsInv DEF HeaderByte, Receives, Received, ackVars
<1>9. CASE LengthByte
  BY <1>9, ElsewhereKeepsInv DEF LengthByte, Receives, Received, ackVars
<1>10. CASE PayloadByte
  BY <1>10, ElsewhereKeepsInv DEF PayloadByte, Receives, Received, ackVars
<1>11. CASE FixReturns
  BY <1>11, ElsewhereKeepsInv DEF FixReturns, ackVars
<1>12. CASE Watchdog \/ PowerFailure
  BY <1>12, ElsewhereKeepsInv DEF Watchdog, PowerFailure, ResetState
<1>13. CASE UNCHANGED vars
  <2>1. /\ pc' = pc /\ step' = step /\ line' = line /\ read' = read
        /\ match_count' = match_count /\ msg_ack' = msg_ack
    BY <1>13 DEF vars, ackVars
  <2>2. \A k : Expected(k)' = Expected(k)
    BY <2>1 DEF Expected, Ack, Nak, MsgId, Settings
  <2>3. (Matched' <=> Matched) /\ (Decided' <=> Decided)
    BY <2>1, <2>2 DEF Matched, Decided
  <2>4. QED
    BY <2>1, <2>3
<1>14. QED
  BY <1>1, <1>2, <1>3, <1>4, <1>5, <1>6, <1>7, <1>8, <1>9, <1>10, <1>11, <1>12, <1>13
     DEF Next, Driver

(* Only AckReturns ends the wait for an answer, short of a reset.          *)
LEMMA OnlyAckReturns ==
  ASSUME [Next]_vars, pc = "ack", pc' = "ready" PROVE AckReturns
<1>1. CASE Driver
  BY <1>1 DEF Driver, StartUp, SendSetting, PowerSave, RequestFix, AckByte, NoMatch,
       HeaderByte, LengthByte, PayloadByte, FixReturns, Receives, Received
<1>2. CASE Watchdog \/ PowerFailure
  BY <1>2 DEF Watchdog, PowerFailure, ResetState
<1>3. CASE UNCHANGED vars
  BY <1>3 DEF vars
<1>4. QED
  BY <1>1, <1>2, <1>3 DEF Next

LEMMA StepIsTrue ==
  ASSUME AckInv, [Next]_vars, pc = "ack", pc' = "ready"
  PROVE  /\ read >= 7
         /\ \A k \in 1 .. 8 : line[read - 7 + k] =
              (IF msg_ack' = 1 THEN Ack(MsgId) ELSE Nak(MsgId))[k]
<1>1. AckReturns
  BY OnlyAckReturns
<1>2. /\ read \in Nat /\ match_count = 7 /\ msg_ack' = msg_ack /\ msg_ack \in {0, 1}
      /\ read >= 7 /\ Matched /\ Decided /\ byte \in Expected(8)
  BY <1>1 DEF AckReturns, AckInv, AckTyped, LastByte
<1>3. \A k \in 1 .. 7 : line[read - 7 + k] \in Expected(k)
  BY <1>2 DEF Matched
<1>4. /\ line[read - 7 + 1] = 181 /\ line[read - 7 + 2] = 98
      /\ line[read - 7 + 3] = 5 /\ line[read - 7 + 4] \in {1, 0}
      /\ line[read - 7 + 5] = 2 /\ line[read - 7 + 6] = 0
      /\ line[read - 7 + 7] = 6
  BY <1>3, Patterns
<1>5. line[read - 7 + 8] = MsgId
  <2>1. read - 7 + 8 = read + 1
    BY <1>2
  <2>2. QED
    BY <2>1, <1>2, Patterns DEF byte
<1>6. msg_ack = 1 <=> line[read - 7 + 4] = 1
  BY <1>2 DEF Decided
<1>7. CASE msg_ack = 1
  <2>1. line[read - 7 + 4] = 1
    BY <1>6, <1>7
  <2>2. \A k \in 1 .. 8 : line[read - 7 + k] = Ack(MsgId)[k]
    BY <1>4, <1>5, <2>1 DEF Ack, UBX1, UBX2, CFG
  <2>3. QED
    BY <2>2, <1>2, <1>7
<1>8. CASE msg_ack = 0
  <2>1. line[read - 7 + 4] = 0
    BY <1>4, <1>6, <1>8
  <2>2. \A k \in 1 .. 8 : line[read - 7 + k] = Nak(MsgId)[k]
    BY <1>4, <1>5, <2>1 DEF Nak, UBX1, UBX2, CFG
  <2>3. QED
    BY <2>2, <1>2, <1>8
<1>9. QED
  BY <1>2, <1>7, <1>8

(* Whatever arrives, gps_receive_ack() returns only after the eight bytes  *)
(* of the answer to this very message, and says which answer it was.       *)
THEOREM NeverAFalseAck == Spec => NoFalseAck
<1>1. Init => AckInv
  BY AckInvInit
<1>2. AckInv /\ [Next]_vars => AckInv'
  BY AckInvNext
<1>3. AckInv /\ [Next]_vars =>
        [pc = "ack" /\ pc' = "ready" =>
           /\ read >= 7
           /\ \A k \in 1 .. 8 : line[read - 7 + k] =
                (IF msg_ack' = 1 THEN Ack(MsgId) ELSE Nak(MsgId))[k]]_vars
  BY StepIsTrue
<1>4. QED
  BY <1>1, <1>2, <1>3, PTL DEF Spec, NoFalseAck

-----------------------------------------------------------------------------
(* What the line carries.                                                  *)

LEMMA Joined ==
  ASSUME NEW S, NEW a \in Seq(S), NEW b \in Seq(S)
  PROVE  /\ a \o b \in Seq(S) /\ Len(a \o b) = Len(a) + Len(b)
         /\ \A i \in 1 .. Len(a) : (a \o b)[i] = a[i]
         /\ \A i \in 1 .. Len(b) : (a \o b)[Len(a) + i] = b[i]
<1>1. /\ a \o b \in Seq(S) /\ Len(a \o b) = Len(a) + Len(b)
      /\ \A i \in 1 .. Len(a) + Len(b) :
           (a \o b)[i] = IF i <= Len(a) THEN a[i] ELSE b[i - Len(a)]
  BY ConcatProperties
<1>2. Len(a) \in Nat /\ Len(b) \in Nat
  OBVIOUS
<1>3. \A i \in 1 .. Len(a) : (a \o b)[i] = a[i]
  BY <1>1, <1>2
<1>4. ASSUME NEW i \in 1 .. Len(b) PROVE (a \o b)[Len(a) + i] = b[i]
  <2>1. /\ Len(a) + i \in 1 .. Len(a) + Len(b) /\ ~(Len(a) + i <= Len(a))
        /\ Len(a) + i - Len(a) = i
    BY <1>2
  <2>2. (a \o b)[Len(a) + i] = b[Len(a) + i - Len(a)]
    BY <1>1, <2>1
  <2>3. QED
    BY <2>1, <2>2
<1>5. QED
  BY <1>1, <1>3, <1>4

(* An answer that has lost its byte k.                                     *)
LEMMA LostByte ==
  ASSUME NEW S, NEW a \in Seq(S), NEW k \in 1 .. Len(a)
  PROVE  /\ Without(a, k) \in Seq(S) /\ Len(Without(a, k)) = Len(a) - 1
         /\ \A i \in 1 .. Len(a) - 1 :
              Without(a, k)[i] = a[IF i < k THEN i ELSE i + 1]
<1> DEFINE n == Len(a) - 1
<1>1. n \in Nat
  OBVIOUS
<1>2. Without(a, k) = [i \in 1 .. n |-> a[IF i < k THEN i ELSE i + 1]]
  BY DEF Without
<1>3. ASSUME NEW i \in 1 .. n PROVE a[IF i < k THEN i ELSE i + 1] \in S
  <2>1. (IF i < k THEN i ELSE i + 1) \in 1 .. Len(a)
    BY <1>1
  <2>2. QED
    BY <2>1
<1> HIDE DEF n
<1>4. Without(a, k) \in [1 .. n -> S]
  BY <1>2, <1>3
<1>5. Without(a, k) \in Seq(S) /\ Len(Without(a, k)) = n
  BY <1>1, <1>4
<1>6. \A i \in 1 .. n : Without(a, k)[i] = a[IF i < k THEN i ELSE i + 1]
  BY <1>2
<1>7. QED
  BY <1>5, <1>6 DEF n

LEMMA SettingsAreBytes ==
  \A i \in 1 .. 6 : Settings[i] \in {0, 62, 36, 59, 17, 9}
  BY DEF Settings, RXM

(* A refusal, byte by byte.                                                *)
LEMMA Octets ==
  ASSUME NEW m \in Bytes
  PROVE  LET b == Nak(m)
         IN  /\ b \in Seq(Bytes) /\ Len(b) = 8
             /\ b[1] = 181 /\ b[2] = 98 /\ b[3] = 5 /\ b[4] = 0 /\ b[5] = 2
             /\ b[6] = 0 /\ b[7] = 6 /\ b[8] = m
<1>1. \A c \in {181, 98, 5, 0, 2, 6} : c \in Bytes
  BY DEF Bytes
<1>2. <<181, 98, 5, 0, 2, 0, 6, m>> \in Seq(Bytes)
  BY <1>1
<1>3. QED
  BY <1>2 DEF Nak, UBX1, UBX2, CFG

LEMMA Checksummed ==
  ASSUME NEW b \in Seq(Bytes)
  PROVE  /\ b \o Checksum \in Seq(Bytes) /\ Len(b \o Checksum) = Len(b) + 2
         /\ \A i \in 1 .. Len(b) : (b \o Checksum)[i] = b[i]
         /\ (b \o Checksum)[Len(b) + 1] = 181 /\ (b \o Checksum)[Len(b) + 2] = 98
<1>1. Checksum \in Seq(Bytes) /\ Len(Checksum) = 2 /\ Checksum[1] = 181 /\ Checksum[2] = 98
  BY DEF Checksum, UBX1, UBX2, Bytes
<1>2. /\ b \o Checksum \in Seq(Bytes) /\ Len(b \o Checksum) = Len(b) + Len(Checksum)
      /\ \A i \in 1 .. Len(b) : (b \o Checksum)[i] = b[i]
      /\ \A i \in 1 .. Len(Checksum) : (b \o Checksum)[Len(b) + i] = Checksum[i]
  <2>1. Checksum \in Seq(Bytes)
    BY <1>1
  <2>2. QED
    BY <2>1, Joined
<1> DEFINE a == b \o Checksum
<1> HIDE DEF a
<1>3. \A i \in 1 .. 2 : a[Len(b) + i] = Checksum[i]
  BY <1>1, <1>2 DEF a
<1>4. a[Len(b) + 1] = 181 /\ a[Len(b) + 2] = 98
  BY <1>1, <1>3
<1>5. QED
  BY <1>1, <1>2, <1>4 DEF a

LEMMA RefusalBytes ==
  ASSUME NEW m \in Bytes
  PROVE  LET a == Nak(m) \o Checksum
         IN  /\ a \in Seq(Bytes) /\ Len(a) = 10
             /\ a[1] = 181 /\ a[2] = 98 /\ a[3] = 5 /\ a[4] = 0 /\ a[5] = 2
<1> DEFINE b == Nak(m)
           a == b \o Checksum
<1>1. /\ b \in Seq(Bytes) /\ Len(b) = 8
      /\ b[1] = 181 /\ b[2] = 98 /\ b[3] = 5 /\ b[4] = 0 /\ b[5] = 2
  BY Octets
<1> HIDE DEF b
<1>2. /\ a \in Seq(Bytes) /\ Len(a) = Len(b) + 2
      /\ \A i \in 1 .. Len(b) : a[i] = b[i]
  BY <1>1, Checksummed
<1> HIDE DEF a
<1>3. /\ a \in Seq(Bytes) /\ Len(a) = 10
      /\ a[1] = 181 /\ a[2] = 98 /\ a[3] = 5 /\ a[4] = 0 /\ a[5] = 2
  BY <1>1, <1>2
<1>4. QED
  BY <1>3 DEF a, b

(* A refusal, with or without one of its bytes, makes no acknowledgement   *)
(* together with the noise before it.                                      *)
RefusalLike(x) == /\ x \in Seq(Bytes) /\ Len(x) \in {9, 10}
                  /\ x[1] \in {181, 98} /\ x[2] \in {98, 5}
                  /\ x[3] \in {5, 0} /\ x[4] \in {0, 2}
                  /\ x[1] = 98 => x[3] = 0

LEMMA RefusalsAreAlike ==
  ASSUME NEW i \in 1 .. 6
  PROVE  LET a == Nak(Settings[i]) \o Checksum
         IN  /\ RefusalLike(a)
             /\ \A k \in DOMAIN a : RefusalLike(Without(a, k))
<1> DEFINE a == Nak(Settings[i]) \o Checksum
<1>1. Settings[i] \in Bytes
  BY SettingsAreBytes DEF Bytes
<1>2. /\ a \in Seq(Bytes) /\ Len(a) = 10
      /\ a[1] = 181 /\ a[2] = 98 /\ a[3] = 5 /\ a[4] = 0 /\ a[5] = 2
  BY <1>1, RefusalBytes
<1> HIDE DEF a
<1>3. RefusalLike(a)
  BY <1>2 DEF RefusalLike
<1>4. ASSUME NEW k \in DOMAIN a PROVE RefusalLike(Without(a, k))
  <2>1. a \in Seq(Bytes) /\ k \in 1 .. Len(a)
    BY <1>2
  <2>2. /\ Without(a, k) \in Seq(Bytes) /\ Len(Without(a, k)) = Len(a) - 1
        /\ \A j \in 1 .. Len(a) - 1 :
             Without(a, k)[j] = a[IF j < k THEN j ELSE j + 1]
    BY <2>1, LostByte
  <2> DEFINE x == Without(a, k)
  <2> HIDE DEF x
  <2>3. /\ x[1] = a[IF 1 < k THEN 1 ELSE 2] /\ x[2] = a[IF 2 < k THEN 2 ELSE 3]
        /\ x[3] = a[IF 3 < k THEN 3 ELSE 4] /\ x[4] = a[IF 4 < k THEN 4 ELSE 5]
    BY <2>2, <1>2 DEF x
  <2>4. x[1] \in {181, 98} /\ x[2] \in {98, 5} /\ x[3] \in {5, 0} /\ x[4] \in {0, 2}
    BY <2>3, <1>2
  <2>5. x[1] = 98 => x[3] = 0
    <3>1. k \in Int /\ (k = 1 \/ 1 < k)
      BY <2>1, <1>2
    <3>2. CASE k = 1
      BY <3>2, <2>3, <1>2
    <3>3. CASE 1 < k
      <4>1. x[1] = a[1]
        BY <3>1, <3>3, <2>3
      <4>2. QED
        BY <4>1, <1>2
    <3>4. QED
      BY <3>1, <3>2, <3>3
  <2>6. x \in Seq(Bytes) /\ Len(x) = 9
    BY <2>2, <1>2 DEF x
  <2>7. QED
    BY <2>4, <2>5, <2>6 DEF x, RefusalLike
<1>5. QED
  BY <1>3, <1>4 DEF a

LEMMA NoAckAcross ==
  ASSUME NEW n \in Noises, NEW x, RefusalLike(x), NEW i \in 1 .. 6, NEW q \in Nat
  PROVE  ~Holds(n \o x, q, Ack(Settings[i]))
<1> DEFINE bs == n \o x
           m == Settings[i]
           a == Ack(m)
<1> SUFFICES ASSUME Holds(bs, q, a) PROVE FALSE
  OBVIOUS
<1>1. n \in Seq(Bytes) /\ x \in Seq(Bytes) /\ Len(x) \in {9, 10}
  BY NoiseAssumption DEF RefusalLike
<1>2. /\ Len(bs) = Len(n) + Len(x)
      /\ \A k \in 1 .. Len(n) : bs[k] = n[k]
      /\ \A k \in 1 .. Len(x) : bs[Len(n) + k] = x[k]
  BY <1>1, Joined
<1>3. m \in {0, 62, 36, 59, 17, 9}
  BY SettingsAreBytes
<1>4. /\ Len(a) = 8 /\ a[1] = 181 /\ a[2] = 98 /\ a[3] = 5 /\ a[4] = 1
      /\ a[5] = 2 /\ a[6] = 0 /\ a[7] = 6 /\ a[8] = m
  BY DEF Ack, UBX1, UBX2, CFG
<1> HIDE DEF bs, m, a
<1>5. q + 8 <= Len(n) + Len(x) /\ \A k \in 1 .. 8 : bs[q + k] = a[k]
  BY <1>2, <1>4 DEF Holds
<1>6. Len(n) \in Nat /\ Len(x) \in Nat /\ Len(x) <= 10
  <2>1. Len(n) \in Nat
    BY <1>1
  <2>2. Len(x) \in Nat
    BY <1>1
  <2>3. Len(x) <= 10
    BY <1>1, 9 <= 10, 10 <= 10
  <2>4. QED
    BY <2>1, <2>2, <2>3
<1>7. CASE q + 8 <= Len(n)
  <2>1. ASSUME NEW k \in 1 .. 8 PROVE n[q + k] = a[k]
    <3>1. q + k \in 1 .. Len(n)
      BY <1>6, <1>7
    <3>2. QED
      BY <3>1, <1>2, <1>5
  <2>2. Holds(n, q, a)
    BY <2>1, <1>4, <1>7 DEF Holds
  <2>3. q \in 0 .. Len(n)
    BY <1>6, <1>7
  <2>4. QED
    BY <2>2, <2>3, NoiseAssumption DEF a, m
<1>8. CASE q + 8 > Len(n)
  <2> DEFINE z == Len(n) - q           \* x begins at byte z + 1 of the match
  <2>1. z \in -2 .. 7
    <3>1. q + 8 <= Len(n) + Len(x)
      BY <1>5
    <3>2. QED
      BY <3>1, <1>6, <1>8
  <2>2. ASSUME NEW k \in 1 .. 8, k > z PROVE x[k - z] = a[k]
    <3>1. k - z \in 1 .. Len(x) /\ Len(n) + (k - z) = q + k
      BY <2>1, <2>2, <1>1, <1>5, <1>6
    <3>2. bs[Len(n) + (k - z)] = x[k - z]
      BY <3>1, <1>2
    <3>3. QED
      BY <3>1, <3>2, <1>5
  <2> HIDE DEF z
  <2>3. /\ x[1] \in {181, 98} /\ x[2] \in {98, 5} /\ x[3] \in {5, 0} /\ x[4] \in {0, 2}
        /\ x[1] = 98 => x[3] = 0
    BY DEF RefusalLike
  <2>4. CASE z = -2
    <3>1. x[1 + 2] = a[1]
      BY <2>2, <2>4
    <3>2. QED
      BY <3>1, <2>3, <1>4
  <2>5. CASE z = -1
    <3>1. x[1 + 1] = a[1]
      BY <2>2, <2>5
    <3>2. QED
      BY <3>1, <2>3, <1>4
  <2>6. CASE z = 0
    <3>1. x[4 - 0] = a[4]
      BY <2>2, <2>6
    <3>2. QED
      BY <3>1, <2>3, <1>4
  <2>7. CASE z = 1
    <3>1. x[2 - 1] = a[2] /\ x[4 - 1] = a[4]
      BY <2>2, <2>7
    <3>2. QED
      BY <3>1, <2>3, <1>4
  <2>8. CASE z \in 2 .. 7
    <3>1. x[z + 1 - z] = a[z + 1] /\ z + 1 - z = 1
      BY <2>2, <2>8
    <3>2. a[z + 1] \in {5, 1, 2, 0, 6, m}
      BY <2>8, <1>4
    <3>3. QED
      BY <3>1, <3>2, <2>3, <1>3
  <2>9. QED
    BY <2>1, <2>4, <2>5, <2>6, <2>7, <2>8
<1>9. QED
  BY <1>1, <1>5, <1>6, <1>7, <1>8

(* What the line carries when the GPS has not accepted the setting.        *)
LEMMA NotAccepted ==
  ASSUME NEW i \in 1 .. 6,
         NEW bs \in Arrives(Nak(Settings[i]) \o Checksum) \cup Noises, NEW q \in Nat
  PROVE  ~Holds(bs, q, Ack(Settings[i]))
<1> DEFINE a == Nak(Settings[i]) \o Checksum
<1> HIDE DEF a
<1>1. CASE bs \in Noises
  <2>1. bs \in Seq(Bytes) /\ Len(bs) \in Nat
    BY <1>1, NoiseAssumption
  <2>2. CASE q \in 0 .. Len(bs)
    BY <2>2, <1>1, NoiseAssumption
  <2>3. CASE q > Len(bs)
    <3>1. Len(Ack(Settings[i])) = 8
      BY DEF Ack
    <3>2. QED
      BY <2>1, <2>3, <3>1 DEF Holds
  <2>4. QED
    BY <2>1, <2>2, <2>3
<1>2. CASE \E n \in Noises : bs = n \o a
  BY <1>2, RefusalsAreAlike, NoAckAcross DEF a
<1>3. CASE \E n \in Noises, k \in DOMAIN a : bs = n \o Without(a, k)
  <2>1. PICK n \in Noises, k \in DOMAIN a : bs = n \o Without(a, k)
    BY <1>3
  <2>2. RefusalLike(Without(a, k))
    BY <2>1, RefusalsAreAlike DEF a
  <2>3. QED
    BY <2>1, <2>2, NoAckAcross
<1>4. bs \in Noises \cup Whole(a) \cup Damaged(a)
  BY DEF Arrives, a
<1>5. QED
  BY <1>1, <1>2, <1>3, <1>4 DEF Whole, Damaged

(* Every byte that arrives is one.                                         *)
LEMMA BytesArrive ==
  ASSUME NEW a \in Seq(Bytes), NEW bs \in Arrives(a) \cup Noises
  PROVE  bs \in Seq(Bytes)
<1>1. \A n \in Noises : n \in Seq(Bytes)
  BY NoiseAssumption
<1>2. CASE bs \in Whole(a)
  BY <1>1, <1>2, Joined DEF Whole
<1>3. CASE bs \in Damaged(a)
  <2>1. PICK n \in Noises, k \in DOMAIN a : bs = n \o Without(a, k)
    BY <1>3 DEF Damaged
  <2>2. k \in 1 .. Len(a)
    BY <2>1
  <2>3. Without(a, k) \in Seq(Bytes)
    BY <2>2, LostByte
  <2>4. n \in Seq(Bytes)
    BY <1>1
  <2>5. n \o Without(a, k) \in Seq(Bytes)
    BY <2>3, <2>4, Joined
  <2>6. QED
    BY <2>1, <2>5
<1>4. QED
  BY <1>1, <1>2, <1>3 DEF Arrives

LEMMA AnswersAreBytes ==
  ASSUME NEW m \in Bytes
  PROVE  Ack(m) \o Checksum \in Seq(Bytes) /\ Nak(m) \o Checksum \in Seq(Bytes)
<1>1. \A c \in {181, 98, 5, 1, 0, 2, 6} : c \in Bytes
  BY DEF Bytes
<1>2. <<181, 98, 5, 1, 2, 0, 6, m>> \in Seq(Bytes)
  BY <1>1
<1>3. Ack(m) \in Seq(Bytes)
  BY <1>2 DEF Ack, UBX1, UBX2, CFG
<1>4. Nak(m) \in Seq(Bytes)
  BY Octets
<1>5. QED
  BY <1>3, <1>4, Checksummed

(* The answer to a poll, byte by byte.                                     *)
LEMMA Widths ==
  /\ \A v \in Bytes : v \in Int /\ 0 <= v /\ v < 256
  /\ \A v \in Words : v \in Int /\ 0 <= v /\ v < 65536
  /\ \A v \in Int32s : v \in Int /\ -INT32_MAX - 1 <= v /\ v <= INT32_MAX
<1>1. INT32_MAX \in Int
  BY SMT DEF INT32_MAX
<1>2. \A v \in Int32s : v \in Int /\ -INT32_MAX - 1 <= v /\ v <= INT32_MAX
  BY <1>1, SMT DEF Int32s
<1>3. \A v \in Bytes : v \in Int /\ 0 <= v /\ v < 256
  BY SMT DEF Bytes
<1>4. \A v \in Words : v \in Int /\ 0 <= v /\ v < 65536
  BY SMT DEF Words
<1>5. QED
  BY <1>2, <1>3, <1>4

LEMMA PayloadIsBytes ==
  ASSUME NEW s \in Solutions
  PROVE  \A k \in 0 .. 91 : Payload(s)[k] \in Bytes
<1> SUFFICES ASSUME NEW k \in 0 .. 91 PROVE Payload(s)[k] \in Bytes
  OBVIOUS
<1>1. /\ s.itow \in Bytes /\ s.type \in Bytes /\ s.num_svs \in Bytes
      /\ s.year \in Int /\ \A j \in 1 .. 5 : s.time[j] \in Bytes
      /\ s.lat \in Int /\ s.lon \in Int /\ s.hMSL \in Int
  BY SolutionsAssumption, Widths
<1>2. \A v \in Int, j \in 0 .. 3 : ByteOf(v, j) \in Bytes
  <2>1. \A v \in Int : v % 256 \in Bytes
    BY DEF Bytes
  <2>2. \A v \in Int : /\ v \div 1 \in Int /\ v \div 256 \in Int
                       /\ v \div 65536 \in Int /\ v \div 16777216 \in Int
    OBVIOUS
  <2>3. \A v \in Int, j \in 0 .. 3 : v \div Place[j + 1] \in Int
    BY <2>2 DEF Place
  <2>4. QED
    BY <2>1, <2>3 DEF ByteOf
<1>3. CASE k \in 4 .. 5
  BY <1>1, <1>2, <1>3 DEF Payload, RESPONSE_LENGTH
<1>4. CASE k \in 6 .. 10
  BY <1>1, <1>4 DEF Payload, RESPONSE_LENGTH
<1>5. CASE k \in 24 .. 27
  BY <1>1, <1>2, <1>5 DEF Payload, RESPONSE_LENGTH
<1>6. CASE k \in 28 .. 31
  BY <1>1, <1>2, <1>6 DEF Payload, RESPONSE_LENGTH
<1>7. CASE k \in 36 .. 39
  BY <1>1, <1>2, <1>7 DEF Payload, RESPONSE_LENGTH
<1>8. CASE k \in {0, 20, 23}
  BY <1>1, <1>8 DEF Payload, RESPONSE_LENGTH
<1>9. CASE k \notin (4 .. 5) \cup (6 .. 10) \cup (24 .. 27) \cup (28 .. 31) \cup (36 .. 39)
                     \cup {0, 20, 23}
  <2>1. Payload(s)[k] = UBX1
    BY <1>9 DEF Payload, RESPONSE_LENGTH
  <2>2. QED
    BY <2>1 DEF UBX1, Bytes
<1>10. QED
  BY <1>3, <1>4, <1>5, <1>6, <1>7, <1>8, <1>9

LEMMA PvtBytes ==
  ASSUME NEW s \in Solutions
  PROVE  LET a == PvtAnswer(s)
         IN  /\ a \in Seq(Bytes) /\ Len(a) = 100
             /\ a[1] = 181 /\ a[2] = 98 /\ a[3] = 1 /\ a[4] = 7
             /\ a[5] = 92 /\ a[6] = 0
             /\ \A k \in 0 .. 91 : a[7 + k] = Payload(s)[k]
<1> DEFINE h == PvtHeader
           l == <<RESPONSE_LENGTH, 0>>
           p == [k \in 1 .. RESPONSE_LENGTH |-> Payload(s)[k - 1]]
<1>1. /\ h \in Seq(Bytes) /\ Len(h) = 4
      /\ h[1] = 181 /\ h[2] = 98 /\ h[3] = 1 /\ h[4] = 7
  <2>1. \A c \in {181, 98, 1, 7} : c \in Bytes
    BY DEF Bytes
  <2>2. <<181, 98, 1, 7>> \in Seq(Bytes)
    BY <2>1
  <2>3. h = <<181, 98, 1, 7>>
    BY DEF PvtHeader, UBX1, UBX2, NAV, PVT
  <2> HIDE DEF h
  <2>4. QED
    BY <2>2, <2>3
<1>2. l \in Seq(Bytes) /\ Len(l) = 2 /\ l[1] = 92 /\ l[2] = 0
  BY DEF RESPONSE_LENGTH, Bytes
<1>3. p \in Seq(Bytes) /\ Len(p) = 92 /\ \A k \in 0 .. 91 : p[k + 1] = Payload(s)[k]
  <2>1. \A k \in 1 .. 92 : Payload(s)[k - 1] \in Bytes
    BY PayloadIsBytes
  <2>2. p \in [1 .. 92 -> Bytes]
    BY <2>1 DEF RESPONSE_LENGTH
  <2>3. \A k \in 0 .. 91 : p[k + 1] = Payload(s)[k]
    BY DEF RESPONSE_LENGTH
  <2> HIDE DEF p
  <2>4. p \in Seq(Bytes) /\ Len(p) = 92
    <3> DEFINE n == 92
    <3>1. n \in Nat /\ p \in [1 .. n -> Bytes]
      BY <2>2
    <3> HIDE DEF n
    <3>2. p \in Seq(Bytes) /\ Len(p) = n
      BY <3>1
    <3>3. QED
      BY <3>2 DEF n
  <2>5. QED
    BY <2>3, <2>4
<1> HIDE DEF h, l, p
<1> DEFINE hl == h \o l
           hlp == hl \o p
           a == hlp \o Checksum
<1>4. /\ hl \in Seq(Bytes) /\ Len(hl) = Len(h) + Len(l)
      /\ \A i \in 1 .. Len(h) : hl[i] = h[i]
      /\ \A i \in 1 .. Len(l) : hl[Len(h) + i] = l[i]
  <2>1. h \in Seq(Bytes) /\ l \in Seq(Bytes)
    BY <1>1, <1>2
  <2>2. QED
    BY <2>1, Joined
<1> HIDE DEF hl
<1>5. /\ hl \in Seq(Bytes) /\ Len(hl) = 6
      /\ hl[1] = 181 /\ hl[2] = 98 /\ hl[3] = 1 /\ hl[4] = 7
  BY <1>1, <1>2, <1>4
<1>6. hl[5] = 92 /\ hl[6] = 0
  <2>1. hl[4 + 1] = l[1] /\ hl[4 + 2] = l[2]
    BY <1>1, <1>2, <1>4
  <2>2. QED
    BY <2>1, <1>2
<1>7. /\ hlp \in Seq(Bytes) /\ Len(hlp) = Len(hl) + Len(p)
      /\ \A i \in 1 .. Len(hl) : hlp[i] = hl[i]
      /\ \A i \in 1 .. Len(p) : hlp[Len(hl) + i] = p[i]
  <2>1. hl \in Seq(Bytes) /\ p \in Seq(Bytes)
    BY <1>3, <1>5
  <2>2. QED
    BY <2>1, Joined
<1> HIDE DEF hlp
<1>8. /\ hlp \in Seq(Bytes) /\ Len(hlp) = 98
      /\ hlp[1] = 181 /\ hlp[2] = 98 /\ hlp[3] = 1 /\ hlp[4] = 7
      /\ hlp[5] = 92 /\ hlp[6] = 0
  BY <1>3, <1>5, <1>6, <1>7
<1>9. ASSUME NEW k \in 0 .. 91 PROVE hlp[7 + k] = Payload(s)[k]
  <2>1. k + 1 \in 1 .. 92 /\ 6 + (k + 1) = 7 + k
    OBVIOUS
  <2>2. Len(p) = 92 /\ Len(hl) = 6
    BY <1>3, <1>5
  <2>3. \A i \in 1 .. 92 : hlp[6 + i] = p[i]
    BY <2>2, <1>7
  <2>4. hlp[6 + (k + 1)] = p[k + 1]
    BY <2>1, <2>3
  <2>5. QED
    BY <2>1, <2>4, <1>3
<1>10. /\ a \in Seq(Bytes) /\ Len(a) = Len(hlp) + 2
       /\ \A i \in 1 .. Len(hlp) : a[i] = hlp[i]
  BY <1>8, Checksummed
<1>11. a = PvtAnswer(s)
  BY DEF PvtAnswer, hlp, hl, h, l, p
<1> HIDE DEF a
<1>12. /\ a \in Seq(Bytes) /\ Len(a) = 100
       /\ a[1] = 181 /\ a[2] = 98 /\ a[3] = 1 /\ a[4] = 7 /\ a[5] = 92 /\ a[6] = 0
  BY <1>8, <1>10
<1>13. ASSUME NEW k \in 0 .. 91 PROVE a[7 + k] = Payload(s)[k]
  <2>1. 7 + k \in 1 .. 98
    OBVIOUS
  <2>2. a[7 + k] = hlp[7 + k]
    BY <2>1, <1>8, <1>10
  <2>3. QED
    BY <2>2, <1>9
<1>14. QED
  BY <1>11, <1>12, <1>13

-----------------------------------------------------------------------------
(* An answer is missed only after the start of a message.                  *)

(* The bytes at p look like an answer.                                     *)
Answer(p) == \A k \in 1 .. 8 : line[p - 1 + k] \in Expected(k)

(* From its first byte on, the match follows an answer, unless it was busy *)
(* with the start of a message then.                                       *)
Follows == \A p \in Nat \ {0} :
             p - 1 <= read /\ Answer(p) => BeginsBefore(p) \/ match_count = read - (p - 1)
FollowInv == pc = "ack" => Follows

(* The next byte begins an answer only with the match at 0 or busy.        *)
AtNext == \A p \in Nat \ {0} :
            p - 1 = read => BeginsBefore(p) \/ match_count = read - (p - 1)

LEMMA Starting == AckTyped /\ read >= match_count /\ Matched => AtNext
<1> SUFFICES ASSUME AckTyped, read >= match_count, Matched,
                    NEW p \in Nat \ {0}, p - 1 = read
             PROVE  BeginsBefore(p) \/ match_count = read - (p - 1)
  BY DEF AtNext
<1>1. CASE match_count = 0
  BY <1>1 DEF AckTyped
<1>2. CASE match_count # 0
  <2> DEFINE m == match_count
  <2>1. m \in 1 .. 7 /\ m < p /\ read \in Nat
    BY <1>2 DEF AckTyped
  <2>2. ASSUME NEW k \in 1 .. m PROVE line[p - m + k - 1] \in {Ack(MsgId)[k], Nak(MsgId)[k]}
    <3>1. p - m + k - 1 = read - m + k
      BY <2>1
    <3>2. QED
      BY <3>1 DEF Matched, Expected
  <2>3. QED
    BY <2>1, <2>2 DEF BeginsBefore
<1>3. QED
  BY <1>1, <1>2

(* A byte later.                                                           *)
LEMMA Following ==
  ASSUME AckInv, AckInv', Follows, pc = "ack", pc' = "ack",
         line' = line, step' = step, read' = read + 1,
         \/ byte \in Expected(match_count + 1) /\ match_count' = match_count + 1
         \/ byte \notin Expected(match_count + 1)
  PROVE  Follows'
<1>1. /\ read \in Nat /\ match_count \in 0 .. 7 /\ read >= match_count /\ Matched
      /\ AckTyped' /\ read' >= match_count' /\ Matched'
  BY DEF AckInv, AckTyped
<1>2. /\ \A k : Expected(k)' = Expected(k)
      /\ \A k : Ack(MsgId)'[k] = Ack(MsgId)[k] /\ Nak(MsgId)'[k] = Nak(MsgId)[k]
  BY DEF Expected, Ack, Nak, MsgId, Settings
<1>3. \A p : (Answer(p)' <=> Answer(p)) /\ (BeginsBefore(p)' <=> BeginsBefore(p))
  BY <1>2 DEF Answer, BeginsBefore
<1> SUFFICES ASSUME NEW p \in Nat \ {0}, p - 1 <= read', Answer(p)
             PROVE  BeginsBefore(p)' \/ match_count' = read' - (p - 1)
  BY <1>3 DEF Follows
<1>4. CASE p - 1 = read'
  <2>1. (AckTyped /\ read >= match_count /\ Matched => AtNext)'
    BY Starting, PTL
  <2>2. AtNext'
    BY <2>1, <1>1
  <2>3. QED
    BY <2>2, <1>4 DEF AtNext
<1>5. CASE p - 1 <= read
  <2>1. CASE BeginsBefore(p)
    BY <2>1, <1>3
  <2>2. CASE match_count = read - (p - 1)
    <3>1. match_count + 1 \in 1 .. 8 /\ p - 1 + (match_count + 1) = read + 1
      BY <1>1, <2>2
    <3>2. line[p - 1 + (match_count + 1)] \in Expected(match_count + 1)
      BY <3>1 DEF Answer
    <3>3. byte \in Expected(match_count + 1)
      BY <3>1, <3>2 DEF byte
    <3>4. match_count' = match_count + 1
      BY <3>3
    <3>5. QED
      BY <3>4, <2>2, <1>1
  <2>3. QED
    BY <2>1, <2>2, <1>5 DEF Follows
<1>6. QED
  BY <1>1, <1>4, <1>5

-----------------------------------------------------------------------------
(* What is on the line, and how far the driver has got.                    *)
LineInv == /\ line \in Seq(Bytes) /\ read \in 0 .. Len(line)
           /\ step \in 1 .. 8 /\ (pc = "ack" => step <= 7)

(* The settings sent before the present one are accepted; so is that one,  *)
(* unless the line holds no acknowledgement of it.                         *)
SettingsInv ==
  /\ \A k \in 1 .. 6 : k < step => Settings[k] \in accepted
  /\ pc = "ack" /\ step <= 6 =>
       \/ Settings[step] \in accepted
       \/ \A q \in Nat : ~Holds(line, q, Ack(Settings[step]))

LEMMA LineEmpty ==
  <<>> \in Seq(Bytes) /\ 0 \in 0 .. Len(<<>>) /\ \A s \in Seq(Bytes) : 0 \in 0 .. Len(s)
  OBVIOUS

LEMMA SettingsInRange == \A i \in 1 .. 6 : Settings[i] \in Bytes
  BY SettingsAreBytes DEF Bytes

LEMMA TransmitKeepsLine ==
  ASSUME LineInv, NEW m \in Bytes, Transmit(m), step <= 7 PROVE LineInv'
<1>1. line' \in Arrives(Ack(m) \o Checksum) \cup Arrives(Nak(m) \o Checksum) \cup Noises
  BY DEF Transmit
<1>2. line' \in Seq(Bytes)
  <2>1. Ack(m) \o Checksum \in Seq(Bytes) /\ Nak(m) \o Checksum \in Seq(Bytes)
    BY AnswersAreBytes
  <2>2. QED
    BY <1>1, <2>1, BytesArrive
<1>3. read' = 0 /\ step' = step
  BY DEF Transmit
<1>4. QED
  BY <1>2, <1>3, LineEmpty DEF LineInv

LEMMA RequestKeepsLine == LineInv /\ RequestFix => LineInv'
<1> SUFFICES ASSUME LineInv, RequestFix PROVE LineInv'
  OBVIOUS
<1>1. PICK s \in Solutions : line' \in DamagedPvt[s] \cup WholePvt[s]
  BY DEF RequestFix
<1>2. line' \in Arrives(PvtAnswer(s)) \cup Noises
  BY <1>1 DEF DamagedPvt, WholePvt, Arrives
<1>3. PvtAnswer(s) \in Seq(Bytes)
  BY PvtBytes
<1>4. line' \in Seq(Bytes)
  BY <1>2, <1>3, BytesArrive
<1>5. read' = 0 /\ step' = step /\ pc' = "payload"
  BY DEF RequestFix
<1>6. QED
  BY <1>4, <1>5, LineEmpty DEF LineInv

(* One more byte is taken.                                                 *)
LEMMA ReceiveKeepsLine ==
  ASSUME LineInv, NEW what, Receives(what), line' = line, step' = step, pc' = pc
  PROVE  LineInv'
<1>1. read < Len(line) /\ read' = read + 1
  BY DEF Receives, Received
<1>2. Len(line) \in Nat /\ read \in Nat
  BY DEF LineInv
<1>3. read' \in 0 .. Len(line)
  BY <1>1, <1>2
<1>4. QED
  BY <1>3 DEF LineInv

LEMMA LineInvNext == LineInv /\ [Next]_vars => LineInv'
<1> SUFFICES ASSUME LineInv, [Next]_vars PROVE LineInv'
  OBVIOUS
<1>1. CASE StartUp
  BY <1>1 DEF StartUp, LineInv
<1>2. CASE SendSetting
  <2>1. step \in 1 .. 6
    BY <1>2 DEF SendSetting, LineInv
  <2>2. QED
    BY <2>1, <1>2, SettingsInRange, TransmitKeepsLine DEF SendSetting
<1>3. CASE PowerSave
  <2>1. RXM \in Bytes
    BY DEF RXM, Bytes
  <2>2. QED
    BY <2>1, <1>3, TransmitKeepsLine DEF PowerSave
<1>4. CASE RequestFix
  BY <1>4, RequestKeepsLine
<1>5. CASE AckByte
  BY <1>5, ReceiveKeepsLine DEF AckByte
<1>6. CASE NoMatch
  BY <1>6, ReceiveKeepsLine DEF NoMatch
<1>7. CASE AckReturns
  <2>1. /\ pc = "ack" /\ pc' = "ready" /\ line' = <<>> /\ read' = 0
        /\ step' = step \/ step' = step + 1
    BY <1>7 DEF AckReturns, Received
  <2>2. step' \in 1 .. 8
    BY <2>1 DEF LineInv
  <2>3. QED
    BY <2>1, <2>2, LineEmpty DEF LineInv
<1>8. CASE HeaderByte
  BY <1>8, ReceiveKeepsLine DEF HeaderByte
<1>9. CASE LengthByte
  BY <1>9, ReceiveKeepsLine DEF LengthByte
<1>10. CASE PayloadByte
  BY <1>10, ReceiveKeepsLine DEF PayloadByte
<1>11. CASE FixReturns
  BY <1>11, LineEmpty DEF FixReturns, LineInv
<1>12. CASE Watchdog \/ PowerFailure
  <2>1. pc' = "boot" /\ step' = 1 /\ line' = <<>> /\ read' = 0
    BY <1>12 DEF Watchdog, PowerFailure, ResetState
  <2>2. QED
    BY <2>1, LineEmpty DEF LineInv
<1>13. CASE UNCHANGED vars
  BY <1>13 DEF vars, LineInv
<1>14. QED
  BY <1>1, <1>2, <1>3, <1>4, <1>5, <1>6, <1>7, <1>8, <1>9, <1>10, <1>11, <1>12, <1>13
     DEF Next, Driver

(* An acknowledgement the driver believes is on the line.                  *)
LEMMA BelievedIsHeard ==
  ASSUME AckInv, LineInv, AckReturns, msg_ack = 1
  PROVE  \E q \in Nat : Holds(line, q, Ack(MsgId))
<1>1. pc = "ack" /\ pc' = "ready" /\ msg_ack' = 1 /\ [Next]_vars
  BY DEF AckReturns, Received, Next, Driver
<1>2. read >= 7 /\ \A k \in 1 .. 8 : line[read - 7 + k] = Ack(MsgId)[k]
  BY <1>1, StepIsTrue
<1>3. read < Len(line) /\ Len(line) \in Nat /\ read \in Nat
  BY DEF AckReturns, Received, LineInv
<1> DEFINE q == read - 7
<1>4. q \in Nat /\ q + 8 <= Len(line)
  BY <1>2, <1>3
<1>5. Len(Ack(MsgId)) = 8
  BY DEF Ack
<1>6. Holds(line, q, Ack(MsgId))
  BY <1>2, <1>4, <1>5 DEF Holds
<1>7. QED
  BY <1>4, <1>6

LEMMA TransmitKeepsSettings ==
  ASSUME SettingsInv, LineInv, NEW m, Transmit(m), step <= 6 => m = Settings[step]
  PROVE  SettingsInv'
<1>1. step' = step /\ accepted \subseteq accepted'
  BY DEF Transmit
<1>2. ASSUME step <= 6
      PROVE  \/ m \in accepted'
             \/ \A q \in Nat : ~Holds(line', q, Ack(m))
  <2>1. step \in 1 .. 6 /\ m = Settings[step]
    BY <1>2 DEF LineInv
  <2>2. m \in accepted' \/ line' \in Arrives(Nak(m) \o Checksum) \cup Noises
    BY DEF Transmit
  <2>3. QED
    BY <2>1, <2>2, NotAccepted
<1>3. \A k : Ack(Settings[k])' = Ack(Settings[k])
  BY DEF Ack, Settings
<1>4. QED
  BY <1>1, <1>2, <1>3 DEF SettingsInv, Settings

(* A setting the driver goes on from has been accepted.                    *)
LEMMA AckReturnsKeepsSettings == AckInv /\ LineInv /\ SettingsInv /\ AckReturns => SettingsInv'
<1> SUFFICES ASSUME AckInv, LineInv, SettingsInv, AckReturns PROVE SettingsInv'
  OBVIOUS
<1>1. /\ pc = "ack" /\ pc' = "ready" /\ accepted' = accepted
      /\ step' = IF Proceeds THEN step + 1 ELSE step
      /\ step \in 1 .. 7
  BY DEF AckReturns, Received, LineInv
<1>2. ASSUME step' # step, step <= 6 PROVE Settings[step] \in accepted
  <2>1. msg_ack = 1
    BY <1>1, <1>2 DEF Proceeds
  <2>2. PICK q \in Nat : Holds(line, q, Ack(MsgId))
    BY <2>1, BelievedIsHeard
  <2>3. MsgId = Settings[step]
    BY <1>2 DEF MsgId
  <2>4. QED
    BY <2>2, <2>3, <1>1, <1>2 DEF SettingsInv
<1>3. ASSUME NEW k \in 1 .. 6, k < step' PROVE Settings[k] \in accepted
  <2>1. CASE k < step
    BY <2>1, <1>3 DEF SettingsInv
  <2>2. CASE k = step
    BY <2>2, <1>1, <1>2, <1>3
  <2>3. QED
    BY <2>1, <2>2, <1>1, <1>3
<1>4. QED
  BY <1>1, <1>3 DEF SettingsInv, Settings

LEMMA SettingsInvNext == AckInv /\ LineInv /\ SettingsInv /\ [Next]_vars => SettingsInv'
<1> SUFFICES ASSUME AckInv, LineInv, SettingsInv, [Next]_vars PROVE SettingsInv'
  OBVIOUS
<1>1. CASE SendSetting
  BY <1>1, TransmitKeepsSettings DEF SendSetting
<1>2. CASE PowerSave
  BY <1>2, TransmitKeepsSettings DEF PowerSave
<1>3. CASE AckReturns
  BY <1>3, AckReturnsKeepsSettings
<1>4. CASE AckByte \/ NoMatch \/ UNCHANGED vars
  <2>1. pc' = pc /\ line' = line /\ step' = step /\ accepted' = accepted
    BY <1>4 DEF AckByte, NoMatch, vars
  <2>2. \A q : Holds(line, q, Ack(Settings[step]))' <=> Holds(line, q, Ack(Settings[step]))
    BY <2>1 DEF Holds, Ack, Settings
  <2>3. QED
    BY <2>1, <2>2 DEF SettingsInv, Settings
<1>5. ASSUME pc' # "ack", step' = step, accepted' = accepted PROVE SettingsInv'
  BY <1>5 DEF SettingsInv, Settings
<1>6. CASE StartUp \/ RequestFix
  BY <1>5, <1>6 DEF StartUp, RequestFix
<1>7. CASE HeaderByte \/ LengthByte \/ PayloadByte \/ FixReturns
  BY <1>5, <1>7 DEF HeaderByte, LengthByte, PayloadByte, FixReturns, Receives, Received
<1>8. CASE Watchdog \/ PowerFailure
  <2>1. pc' = "boot" /\ step' = 1
    BY <1>8 DEF Watchdog, PowerFailure, ResetState
  <2>2. QED
    BY <2>1 DEF SettingsInv
<1>9. QED
  BY <1>1, <1>2, <1>3, <1>4, <1>6, <1>7, <1>8 DEF Next, Driver

LEMMA FollowInvNext == AckInv /\ FollowInv /\ [Next]_vars => FollowInv'
<1> SUFFICES ASSUME AckInv, FollowInv, [Next]_vars, pc' = "ack" PROVE Follows'
  BY DEF FollowInv
<1>1. AckInv'
  BY AckInvNext
<1>2. ASSUME NEW m, Transmit(m) PROVE Follows'
  <2>1. read' = 0 /\ match_count' = 0
    BY <1>2 DEF Transmit
  <2>2. ASSUME NEW p \in Nat \ {0}, p - 1 <= read' PROVE match_count' = read' - (p - 1)
    BY <2>1, <2>2
  <2>3. QED
    BY <2>2 DEF Follows
<1>3. CASE SendSetting \/ PowerSave
  BY <1>2, <1>3 DEF SendSetting, PowerSave
<1>4. CASE AckByte
  BY <1>1, <1>4, Following DEF AckByte, Receives, Received, FollowInv
<1>5. CASE NoMatch
  BY <1>1, <1>5, Following DEF NoMatch, Receives, Received, FollowInv
<1>6. CASE UNCHANGED vars
  <2>1. pc = "ack"
    BY <1>6 DEF vars
  <2>2. Follows
    BY <2>1 DEF FollowInv
  <2>3. QED
    BY <2>2, <1>6 DEF vars, ackVars, Follows, Answer, Expected, BeginsBefore, MsgId, Settings, Ack, Nak
<1>7. CASE Driver /\ ~(SendSetting \/ PowerSave \/ AckByte \/ NoMatch)
  BY <1>7 DEF Driver, StartUp, RequestFix, AckReturns, HeaderByte, LengthByte, PayloadByte,
       FixReturns, Receives, Received
<1>8. CASE Watchdog \/ PowerFailure
  BY <1>8 DEF Watchdog, PowerFailure, ResetState
<1>9. QED
  BY <1>3, <1>4, <1>5, <1>6, <1>7, <1>8 DEF Next

LEMMA Inits == Init => LineInv /\ SettingsInv /\ FollowInv
<1> SUFFICES ASSUME Init PROVE LineInv /\ SettingsInv /\ FollowInv
  OBVIOUS
<1>1. pc = "boot" /\ step = 1 /\ line = <<>> /\ read = 0
  BY DEF Init
<1>2. QED
  BY <1>1, LineEmpty DEF LineInv, SettingsInv, FollowInv

LEMMA MissedInv == AckInv /\ LineInv /\ FollowInv => MissedOnlyAfterStart
<1> SUFFICES ASSUME AckInv, LineInv, FollowInv, pc = "ack", NEW p \in 1 .. Len(line),
                    p + 7 <= read, SubSeq(line, p, p + 7) \in {Ack(MsgId), Nak(MsgId)}
             PROVE  BeginsBefore(p)
  BY DEF MissedOnlyAfterStart
<1>1. read \in Nat /\ Len(line) \in Nat /\ read <= Len(line) /\ match_count \in 0 .. 7
      /\ line \in Seq(Bytes) /\ p \in Nat \ {0} /\ p - 1 <= read
  BY DEF LineInv, AckInv, AckTyped
<1>2. \A i \in p .. p + 7 : line[i] \in Bytes
  BY <1>1
<1>3. \A k \in 1 .. p + 7 - p + 1 : SubSeq(line, p, p + 7)[k] = line[p + k - 1]
  BY <1>1, <1>2, SubSeqProperties
<1>4. ASSUME NEW k \in 1 .. 8 PROVE line[p - 1 + k] \in Expected(k)
  <2>1. p - 1 + k = p + k - 1 /\ k \in 1 .. p + 7 - p + 1
    BY <1>1
  <2>2. SubSeq(line, p, p + 7)[k] = line[p - 1 + k]
    BY <2>1, <1>3
  <2>3. QED
    BY <2>2 DEF Expected
<1>5. BeginsBefore(p) \/ match_count = read - (p - 1)
  BY <1>1, <1>4 DEF FollowInv, Follows, Answer
<1>6. QED
  BY <1>1, <1>5

(* An answer on the line is missed only when the start of a message comes  *)
(* right before it.                                                        *)
THEOREM MissedAfterStart == Spec => []MissedOnlyAfterStart
<1>1. Init => AckInv /\ LineInv /\ FollowInv
  BY AckInvInit, Inits
<1>2. AckInv /\ LineInv /\ FollowInv /\ [Next]_vars => (AckInv /\ LineInv /\ FollowInv)'
  BY AckInvNext, LineInvNext, FollowInvNext
<1>3. QED
  BY <1>1, <1>2, MissedInv, PTL DEF Spec

(* Once the driver is past its settings, the GPS has accepted all of them  *)
(* since the last reset.                                                   *)
THEOREM ConfiguredFirst == Spec => []ConfiguredBeforeUse
<1>1. Init => AckInv /\ LineInv /\ SettingsInv
  BY AckInvInit, Inits
<1>2. AckInv /\ LineInv /\ SettingsInv /\ [Next]_vars => (AckInv /\ LineInv /\ SettingsInv)'
  BY AckInvNext, LineInvNext, SettingsInvNext
<1>3. LineInv /\ SettingsInv => ConfiguredBeforeUse
  BY DEF LineInv, SettingsInv, ConfiguredBeforeUse
<1>4. QED
  BY <1>1, <1>2, <1>3, PTL DEF Spec

-----------------------------------------------------------------------------
(* The answers to a poll.                                                  *)

(* The length field of a header that ends at a byte.                       *)
LengthAt(bs, q) == bs[q + 5] + 256 * bs[q + 6]

(* The only header on the line begins with the answer, or one byte before  *)
(* it: with noise in the place of a first byte that is lost.               *)
AnswerLike(x) == /\ x \in Seq(Bytes) /\ Len(x) \in {99, 100} /\ x[1] \in {181, 98}
                 /\ \A j \in Nat \ {0} : ~Holds(x, j, PvtHeader)

LEMMA HeaderBytes ==
  /\ Len(PvtHeader) = 4 /\ PvtHeader[1] = 181 /\ PvtHeader[2] = 98
  /\ PvtHeader[3] = 1 /\ PvtHeader[4] = 7
  BY DEF PvtHeader, UBX1, UBX2, NAV, PVT

LEMMA WhereHeaderIs ==
  ASSUME NEW n \in Noises, NEW x, AnswerLike(x), NEW q \in Nat,
         Holds(n \o x, q, PvtHeader)
  PROVE  q = Len(n) \/ (q = Len(n) - 1 /\ x[1] = 98)
<1> DEFINE bs == n \o x
           h == PvtHeader
<1>1. n \in Seq(Bytes) /\ x \in Seq(Bytes)
  BY NoiseAssumption DEF AnswerLike
<1>2. Len(n) \in Nat /\ Len(x) \in Nat
  BY <1>1
<1>3. x[1] \in {181, 98} /\ \A j \in Nat \ {0} : ~Holds(x, j, h)
  BY DEF AnswerLike
<1>4. /\ Len(bs) = Len(n) + Len(x)
      /\ \A k \in 1 .. Len(n) : bs[k] = n[k]
      /\ \A k \in 1 .. Len(x) : bs[Len(n) + k] = x[k]
  BY <1>1, Joined
<1>5. Len(h) = 4 /\ h[1] = 181 /\ h[2] = 98 /\ h[3] = 1 /\ h[4] = 7
  BY HeaderBytes
<1>6. q + 4 <= Len(n) + Len(x) /\ \A k \in 1 .. 4 : bs[q + k] = h[k]
  BY <1>4, <1>5 DEF Holds
<1> HIDE DEF bs, h
<1>7. CASE q + 4 <= Len(n)
  <2>1. ASSUME NEW k \in 1 .. 4 PROVE n[q + k] = h[k]
    <3>1. q + k \in 1 .. Len(n)
      BY <1>2, <1>7
    <3>2. QED
      BY <3>1, <1>4, <1>6
  <2>2. Holds(n, q, h)
    BY <2>1, <1>5, <1>7 DEF Holds
  <2>3. q \in 0 .. Len(n)
    BY <1>2, <1>7
  <2>4. QED
    BY <2>2, <2>3, NoiseAssumption DEF h
<1>8. CASE q > Len(n)
  <2> DEFINE j == q - Len(n)
  <2>1. j \in Nat \ {0} /\ j + 4 <= Len(x)
    <3>1. q + 4 <= Len(n) + Len(x)
      BY <1>6
    <3>2. QED
      BY <3>1, <1>2, <1>8
  <2>2. ASSUME NEW k \in 1 .. 4 PROVE x[j + k] = h[k]
    <3>1. j + k \in 1 .. Len(x) /\ Len(n) + (j + k) = q + k
      BY <2>1, <1>2
    <3>2. bs[Len(n) + (j + k)] = x[j + k]
      BY <3>1, <1>4
    <3>3. QED
      BY <3>1, <3>2, <1>6
  <2> HIDE DEF j
  <2>3. Holds(x, j, h)
    BY <2>1, <2>2, <1>5 DEF Holds
  <2>4. QED
    BY <2>1, <2>3, <1>3
<1>9. CASE q <= Len(n) /\ q + 4 > Len(n)
  <2> DEFINE z == Len(n) - q
  <2>1. z \in 0 .. 3 /\ q = Len(n) - z
    BY <1>2, <1>9
  <2>2. ASSUME z >= 1 PROVE x[1] = h[z + 1]
    <3>1. 1 \in 1 .. Len(x) /\ z + 1 \in 1 .. 4 /\ Len(n) + 1 = q + (z + 1)
      BY <2>1, <1>2, <1>6, <1>9
    <3>2. bs[Len(n) + 1] = x[1] /\ bs[q + (z + 1)] = h[z + 1]
      BY <3>1, <1>4, <1>6
    <3>3. QED
      BY <3>1, <3>2
  <2> HIDE DEF z
  <2>3. CASE z = 0
    BY <2>1, <2>3, <1>2
  <2>4. CASE z = 1
    <3>1. x[1] = 98
      BY <2>2, <2>4, <1>5
    <3>2. QED
      BY <3>1, <2>1, <2>4, <1>2
  <2>5. CASE z = 2 \/ z = 3
    <3>1. x[1] = h[3] \/ x[1] = h[4]
      BY <2>2, <2>5
    <3>2. QED
      BY <3>1, <1>3, <1>5
  <2>6. QED
    BY <2>1, <2>3, <2>4, <2>5
<1>10. QED
  BY <1>2, <1>7, <1>8, <1>9

(* An answer that has lost a byte, or none.                                *)
LEMMA WholeIsAlike ==
  ASSUME NEW s \in Solutions PROVE AnswerLike(PvtAnswer(s))
<1> DEFINE a == PvtAnswer(s)
<1>1. a \in Seq(Bytes) /\ Len(a) = 100 /\ a[1] = 181
  BY PvtBytes
<1>2. ASSUME NEW j \in Nat \ {0}, Holds(a, j, PvtHeader) PROVE FALSE
  <2>1. j + 4 <= Len(a)
    BY <1>2, HeaderBytes DEF Holds
  <2>2. Len(a) \in Nat /\ DOMAIN a = 1 .. Len(a)
    BY <1>1
  <2> HIDE DEF a
  <2>3. j \in DOMAIN a
    BY <2>1, <2>2
  <2>4. QED
    BY <2>3, <1>2, AnswersAssumption DEF a
<1>3. QED
  BY <1>1, <1>2 DEF AnswerLike

LEMMA LossIsAlike ==
  ASSUME NEW s \in Solutions, NEW k \in Lost \cap DOMAIN PvtAnswer(s)
  PROVE  LET x == Without(PvtAnswer(s), k)
         IN  /\ AnswerLike(x) /\ Len(x) = 99
             /\ x[1] = 98 => x[4] = 92 /\ x[5] = 0
             /\ x[4] = 7 => \/ x[5] = 92 /\ x[6] \in Bytes
                            \/ x[5] = 0 /\ x[6] \in Bytes
<1> DEFINE a == PvtAnswer(s)
           x == Without(a, k)
<1>1. /\ a \in Seq(Bytes) /\ Len(a) = 100
      /\ a[1] = 181 /\ a[2] = 98 /\ a[3] = 1 /\ a[4] = 7 /\ a[5] = 92 /\ a[6] = 0
  BY PvtBytes
<1>2. Len(a) \in Nat /\ DOMAIN a = 1 .. Len(a)
  BY <1>1
<1> HIDE DEF a
<1>3. k \in 1 .. Len(a)
  BY <1>2 DEF a
<1>4. /\ x \in Seq(Bytes) /\ Len(x) = Len(a) - 1
      /\ \A i \in 1 .. Len(a) - 1 : x[i] = a[IF i < k THEN i ELSE i + 1]
  <2>1. a \in Seq(Bytes)
    BY <1>1
  <2>2. QED
    BY <2>1, <1>3, LostByte
<1>5. ASSUME NEW j \in Nat \ {0}, Holds(x, j, PvtHeader) PROVE FALSE
  <2>1. j + 4 <= Len(x)
    BY <1>5, HeaderBytes DEF Holds
  <2>2. j \in 1 .. Len(a)
    BY <2>1, <1>2, <1>4
  <2>3. QED
    BY <2>2, <1>2, <1>5, AnswersAssumption DEF a
<1> HIDE DEF x
<1>6. ASSUME NEW i \in 1 .. 6 PROVE x[i] = a[IF i < k THEN i ELSE i + 1]
  <2>1. Len(a) = 100
    BY <1>1
  <2>2. i \in 1 .. Len(a) - 1
    BY <2>1
  <2>3. QED
    BY <2>2, <1>4
<1>7. k \in Int /\ k >= 1
  BY <1>1, <1>3
<1>8. /\ x[1] = a[IF 1 < k THEN 1 ELSE 2] /\ x[4] = a[IF 4 < k THEN 4 ELSE 5]
      /\ x[5] = a[IF 5 < k THEN 5 ELSE 6] /\ x[6] = a[IF 6 < k THEN 6 ELSE 7]
  BY <1>6
<1>9. x[1] \in {181, 98}
  BY <1>1, <1>8
<1>10. x[1] = 98 => x[4] = 92 /\ x[5] = 0
  <2>1. CASE 1 < k
    <3>1. x[1] = a[1]
      BY <2>1, <1>7, <1>8
    <3>2. QED
      BY <3>1, <1>1
  <2>2. CASE k = 1
    BY <2>2, <1>1, <1>8
  <2>3. QED
    BY <2>1, <2>2, <1>7
<1>11. a[6] \in Bytes /\ a[7] \in Bytes
  <2>1. a \in Seq(Bytes) /\ Len(a) = 100
    BY <1>1
  <2>2. \A i \in 1 .. Len(a) : a[i] \in Bytes
    BY <2>1, ElementOfSeq
  <2>3. 6 \in 1 .. Len(a) /\ 7 \in 1 .. Len(a)
    BY <2>1
  <2>4. QED
    BY <2>2, <2>3
<1>12. x[4] = 7 => \/ x[5] = 92 /\ x[6] \in Bytes
                   \/ x[5] = 0 /\ x[6] \in Bytes
  BY <1>1, <1>7, <1>8, <1>11
<1>13. Len(x) = 99
  BY <1>1, <1>4
<1>14. AnswerLike(x)
  BY <1>4, <1>5, <1>9, <1>13 DEF AnswerLike
<1>15. QED
  BY <1>10, <1>12, <1>13, <1>14 DEF x, a

(* A header on the line of a whole answer.                                 *)
LEMMA HeaderOfWhole ==
  ASSUME NEW s \in Solutions, NEW bs \in WholePvt[s], NEW q \in Nat,
         Holds(bs, q, PvtHeader)
  PROVE  LengthAt(bs, q) = 92 /\ \A k \in 0 .. 91 : bs[q + 7 + k] = Payload(s)[k]
<1> DEFINE a == PvtAnswer(s)
<1>1. PICK n \in Noises : bs = n \o a
  BY DEF WholePvt, Whole
<1>2. /\ a \in Seq(Bytes) /\ Len(a) = 100 /\ a[1] = 181 /\ a[5] = 92 /\ a[6] = 0
      /\ \A k \in 0 .. 91 : a[7 + k] = Payload(s)[k]
  BY PvtBytes
<1>3. n \in Seq(Bytes)
  BY NoiseAssumption
<1>4. a \in Seq(Bytes) /\ Len(n) \in Nat
  BY <1>2, <1>3
<1>5. \A i \in 1 .. Len(a) : bs[Len(n) + i] = a[i]
  BY <1>1, <1>3, <1>4, Joined
<1>6. q = Len(n)
  <2>1. AnswerLike(a)
    BY WholeIsAlike
  <2>2. q = Len(n) \/ (q = Len(n) - 1 /\ a[1] = 98)
    BY <1>1, <2>1, WhereHeaderIs
  <2>3. QED
    BY <2>2, <1>2
<1> HIDE DEF a
<1>7. LengthAt(bs, q) = 92
  <2>1. bs[q + 5] = a[5] /\ bs[q + 6] = a[6]
    BY <1>2, <1>5, <1>6
  <2>2. QED
    BY <2>1, <1>2 DEF LengthAt
<1>8. ASSUME NEW k \in 0 .. 91 PROVE bs[q + 7 + k] = Payload(s)[k]
  <2>1. 7 + k \in 1 .. Len(a) /\ q + 7 + k = Len(n) + (7 + k)
    BY <1>2, <1>4, <1>6
  <2>2. bs[Len(n) + (7 + k)] = a[7 + k]
    BY <2>1, <1>5
  <2>3. QED
    BY <2>1, <2>2, <1>2
<1>9. QED
  BY <1>7, <1>8

(* One on the line of a damaged answer gives the length of an answer, none *)
(* at all or more than what follows.                                       *)
LEMMA HeaderOfDamaged ==
  ASSUME NEW s \in Solutions, NEW bs \in DamagedPvt[s], NEW q \in Nat,
         Holds(bs, q, PvtHeader)
  PROVE  /\ LengthAt(bs, q) \in {0, 92} \/ LengthAt(bs, q) >= 256
         /\ Len(bs) - q <= 100
<1> DEFINE a == PvtAnswer(s)
<1>1. bs \notin Noises
  <2>1. SUFFICES ASSUME bs \in Noises PROVE FALSE
    OBVIOUS
  <2>2. bs \in Seq(Bytes) /\ q + 4 <= Len(bs)
    BY <2>1, NoiseAssumption, HeaderBytes DEF Holds
  <2>3. q \in 0 .. Len(bs)
    BY <2>2
  <2>4. QED
    BY <2>1, <2>3, NoiseAssumption
<1>2. PICK n \in Noises, k \in Lost \cap DOMAIN a : bs = n \o Without(a, k)
  BY <1>1 DEF DamagedPvt, Damaged
<1> DEFINE x == Without(a, k)
<1>3. /\ AnswerLike(x) /\ Len(x) = 99
      /\ x[1] = 98 => x[4] = 92 /\ x[5] = 0
      /\ x[4] = 7 => \/ x[5] = 92 /\ x[6] \in Bytes
                     \/ x[5] = 0 /\ x[6] \in Bytes
  BY LossIsAlike
<1>4. n \in Seq(Bytes) /\ x \in Seq(Bytes)
  BY <1>3, NoiseAssumption DEF AnswerLike
<1>5. /\ Len(bs) = Len(n) + Len(x) /\ Len(n) \in Nat
      /\ \A i \in 1 .. Len(x) : bs[Len(n) + i] = x[i]
  BY <1>2, <1>4, Joined
<1>6. q = Len(n) \/ (q = Len(n) - 1 /\ x[1] = 98)
  BY <1>2, <1>3, WhereHeaderIs
<1> HIDE DEF x
<1>7. Len(bs) - q <= 100
  BY <1>3, <1>5, <1>6
<1>8. ASSUME NEW i \in 1 .. 6 PROVE bs[Len(n) + i] = x[i]
  <2>1. Len(x) = 99
    BY <1>3
  <2>2. i \in 1 .. Len(x)
    BY <2>1
  <2>3. QED
    BY <2>2, <1>5
<1>9. CASE q = Len(n)
  <2>1. bs[q + 4] = 7
    BY HeaderBytes DEF Holds
  <2>2. x[4] = 7 /\ bs[q + 5] = x[5] /\ bs[q + 6] = x[6]
    BY <2>1, <1>8, <1>9
  <2>3. x[6] \in Int /\ x[6] >= 0 /\ (x[5] = 92 \/ x[5] = 0)
    BY <2>2, <1>3, Widths
  <2>4. LengthAt(bs, q) = x[5] + 256 * x[6]
    BY <2>2 DEF LengthAt
  <2>5. x[5] + 256 * x[6] \in {0, 92} \/ x[5] + 256 * x[6] >= 256
    BY <2>3
  <2>6. QED
    BY <2>4, <2>5, <1>7
<1>10. CASE q = Len(n) - 1 /\ x[1] = 98
  <2>1. q + 5 = Len(n) + 4 /\ q + 6 = Len(n) + 5
    BY <1>5, <1>10
  <2>2. bs[q + 5] = 92 /\ bs[q + 6] = 0
    BY <2>1, <1>3, <1>8, <1>10
  <2>3. QED
    BY <2>2, <1>7 DEF LengthAt
<1>11. QED
  BY <1>6, <1>9, <1>10

-----------------------------------------------------------------------------
(* gps_receive_payload().                                                  *)

(* The last n bytes taken are the first n of a header.                     *)
Begun(n) == read >= n /\ \A k \in 1 .. n : line[read - n + k] = PvtHeader[k]

(* n bytes ago a header ended.                                             *)
Behind(n) == LET q == read - n - 4 IN q \in Nat /\ Holds(line, q, PvtHeader)

(* What each state of the parser has seen.                                 *)
HeaderInv == /\ state = "UBX_B"   => Begun(1)
             /\ state = "CLASSID" => Begun(2)
             /\ state = "MSGID"   => Begun(3)
             /\ state = "LEN_A"   => Behind(0)
             /\ state = "LEN_B"   => Behind(1) /\ payload_len = line[read]

(* The bytes stored follow the length, and the rest of response[] is       *)
(* stale.                                                                  *)
Start == read - payload_cnt - 6
StoredInv == /\ \A k \in 0 .. 91 : response[k] =
                  IF k < payload_cnt THEN line[Start + 7 + k] ELSE Stale
             /\ state # "PAYLOAD" => payload_cnt = 0
             /\ state = "PAYLOAD" =>
                  /\ Behind(payload_cnt + 2)
                  /\ payload_len = LengthAt(line, Start)
                  /\ payload_len = 0 \/ payload_cnt < payload_len

PollTyped ==
  /\ payload_cnt \in Nat
  /\ state \in {"UBX_A", "UBX_B", "CLASSID", "MSGID", "LEN_A", "LEN_B", "PAYLOAD"}
  /\ solution \in Solutions /\ damaged \in BOOLEAN
  /\ line \in IF damaged THEN DamagedPvt[solution] ELSE WholePvt[solution]

PollInv == /\ DOMAIN response = 0 .. 91
           /\ pc = "payload" => PollTyped /\ HeaderInv /\ StoredInv

(* One more byte of a header.                                              *)
LEMMA BegunByte ==
  ASSUME LineInv, line' = line, read' = read + 1, NEW n \in 0 .. 3,
         Begun(n), byte = PvtHeader[n + 1]
  PROVE  Begun(n + 1)'
<1>1. read \in Nat /\ read >= n
  BY DEF LineInv, Begun
<1>2. ASSUME NEW k \in 1 .. n + 1 PROVE line'[read' - (n + 1) + k] = PvtHeader[k]
  <2>1. read' - (n + 1) + k = read - n + k
    BY <1>1
  <2>2. CASE k \in 1 .. n
    BY <2>1, <2>2 DEF Begun
  <2>3. CASE k = n + 1
    BY <2>1, <2>3, <1>1 DEF byte
  <2>4. QED
    BY <2>2, <2>3
<1>3. PvtHeader' = PvtHeader
  BY DEF PvtHeader
<1>4. read' >= n + 1
  BY <1>1
<1>5. QED
  BY <1>2, <1>3, <1>4 DEF Begun

LEMMA WholeHeader == LineInv /\ Begun(4) => Behind(0)
<1> SUFFICES ASSUME LineInv, Begun(4) PROVE Behind(0)
  OBVIOUS
<1> DEFINE q == read - 0 - 4
<1>1. read \in Nat /\ Len(line) \in Nat /\ read <= Len(line) /\ read >= 4
  BY DEF LineInv, Begun
<1>2. q \in Nat /\ q = read - 4 /\ q + 4 <= Len(line)
  BY <1>1
<1>3. \A k \in 1 .. 4 : line[q + k] = PvtHeader[k]
  BY <1>2 DEF Begun
<1>4. Holds(line, q, PvtHeader)
  BY <1>2, <1>3, HeaderBytes DEF Holds
<1>5. QED
  BY <1>2, <1>4 DEF Behind

(* And one more behind it.                                                 *)
LEMMA BehindByte ==
  ASSUME LineInv, line' = line, read' = read + 1, NEW n \in Nat, Behind(n)
  PROVE  Behind(n + 1)'
<1>1. read \in Nat
  BY DEF LineInv
<1>2. read' - (n + 1) - 4 = read - n - 4
  BY <1>1
<1>3. \A q : Holds(line, q, PvtHeader)' <=> Holds(line, q, PvtHeader)
  BY DEF Holds, PvtHeader
<1>4. QED
  BY <1>2, <1>3 DEF Behind

LEMMA ByteTaken ==
  ASSUME LineInv, read < Len(line)
  PROVE  byte \in Bytes /\ byte \in Nat
<1>1. line \in Seq(Bytes) /\ read \in Nat /\ Len(line) \in Nat
  BY DEF LineInv
<1>2. read + 1 \in 1 .. Len(line)
  BY <1>1
<1>3. byte \in Bytes
  BY <1>1, <1>2, ElementOfSeq DEF byte
<1>4. QED
  BY <1>3, Widths

(* A length that has been heard is one.                                    *)
LEMMA LengthIsNat ==
  ASSUME LineInv, NEW q \in Nat, q + 6 <= read
  PROVE  LengthAt(line, q) \in Nat
<1>1. line \in Seq(Bytes) /\ read \in Nat /\ Len(line) \in Nat /\ read <= Len(line)
  BY DEF LineInv
<1>2. q + 5 \in 1 .. Len(line) /\ q + 6 \in 1 .. Len(line)
  BY <1>1
<1>3. line[q + 5] \in Bytes /\ line[q + 6] \in Bytes
  BY <1>1, <1>2, ElementOfSeq
<1>4. line[q + 5] \in Nat /\ line[q + 6] \in Nat
  BY <1>3, Widths
<1>5. QED
  BY <1>4 DEF LengthAt

LengthsAreNat == \A q \in Nat : q + 6 <= read => LengthAt(line, q) \in Nat

LEMMA AllLengths == LineInv => LengthsAreNat
  BY LengthIsNat DEF LengthsAreNat

LEMMA HeaderByteKeepsPoll == LineInv /\ PollInv /\ HeaderByte => PollInv'
<1> SUFFICES ASSUME LineInv, PollInv, HeaderByte PROVE PollInv'
  OBVIOUS
<1>1. /\ pc = "payload" /\ pc' = pc /\ line' = line /\ read' = read + 1 /\ read < Len(line)
      /\ state \in {"UBX_A", "UBX_B", "CLASSID", "MSGID"}
      /\ payload_cnt' = payload_cnt /\ payload_len' = payload_len /\ response' = response
      /\ solution' = solution /\ damaged' = damaged
  BY DEF HeaderByte, Receives, Received, Wanted
<1>2. PollTyped /\ HeaderInv /\ StoredInv /\ DOMAIN response = 0 .. 91
  BY <1>1 DEF PollInv
<1>3. LineInv'
  <2>1. step' = step
    BY DEF HeaderByte
  <2>2. QED
    BY <1>1, <2>1, ReceiveKeepsLine DEF HeaderByte
<1>4. payload_cnt = 0
  BY <1>1, <1>2 DEF StoredInv
<1>5. \/ state' = "UBX_A"
      \/ state = "UBX_A" /\ state' = "UBX_B" /\ byte = 181
      \/ state = "UBX_B" /\ state' = "CLASSID" /\ byte = 98
      \/ state = "CLASSID" /\ state' = "MSGID" /\ byte = 1
      \/ state = "MSGID" /\ state' = "LEN_A" /\ byte = 7
  BY <1>1 DEF HeaderByte, Wanted, After, UBX1, UBX2, NAV, PVT
<1>6. Begun(0)
  BY DEF LineInv, Begun
<1>7. HeaderInv'
  <2>1. CASE state' = "UBX_A"
    BY <2>1 DEF HeaderInv
  <2>2. CASE state = "UBX_A" /\ state' = "UBX_B" /\ byte = 181
    <3>1. Begun(0 + 1)'
      BY <1>1, <1>6, <2>2, HeaderBytes, BegunByte
    <3>2. QED
      BY <3>1, <2>2 DEF HeaderInv
  <2>3. CASE state = "UBX_B" /\ state' = "CLASSID" /\ byte = 98
    <3>1. Begun(1) /\ byte = PvtHeader[1 + 1]
      BY <1>2, <2>3, HeaderBytes DEF HeaderInv
    <3>2. Begun(1 + 1)'
      BY <3>1, <1>1, BegunByte
    <3>3. QED
      BY <3>2, <2>3 DEF HeaderInv
  <2>4. CASE state = "CLASSID" /\ state' = "MSGID" /\ byte = 1
    <3>1. Begun(2) /\ byte = PvtHeader[2 + 1]
      BY <1>2, <2>4, HeaderBytes DEF HeaderInv
    <3>2. Begun(2 + 1)'
      BY <3>1, <1>1, BegunByte
    <3>3. QED
      BY <3>2, <2>4 DEF HeaderInv
  <2>5. CASE state = "MSGID" /\ state' = "LEN_A" /\ byte = 7
    <3>1. Begun(3) /\ byte = PvtHeader[3 + 1]
      BY <1>2, <2>5, HeaderBytes DEF HeaderInv
    <3>2. Begun(3 + 1)'
      BY <3>1, <1>1, BegunByte
    <3>3. (LineInv /\ Begun(4) => Behind(0))'
      BY WholeHeader, PTL
    <3>4. Behind(0)'
      BY <3>2, <3>3, <1>3
    <3>5. QED
      BY <3>4, <2>5 DEF HeaderInv
  <2>6. QED
    BY <1>5, <2>1, <2>2, <2>3, <2>4, <2>5
<1>8. StoredInv'
  <2>1. \A k \in 0 .. 91 : response[k] = Stale
    BY <1>2, <1>4 DEF StoredInv
  <2>2. payload_cnt' = 0 /\ state' # "PAYLOAD"
    BY <1>1, <1>4, <1>5
  <2>3. QED
    BY <2>1, <2>2, <1>1 DEF StoredInv, Stale
<1>9. PollTyped'
  BY <1>1, <1>2, <1>5 DEF PollTyped, WholePvt, DamagedPvt
<1>10. QED
  BY <1>1, <1>2, <1>7, <1>8, <1>9 DEF PollInv

LEMMA LengthByteKeepsPoll == LineInv /\ PollInv /\ LengthByte => PollInv'
<1> SUFFICES ASSUME LineInv, PollInv, LengthByte PROVE PollInv'
  OBVIOUS
<1>1. /\ pc = "payload" /\ pc' = pc /\ line' = line /\ read' = read + 1 /\ read < Len(line)
      /\ state \in {"LEN_A", "LEN_B"}
      /\ payload_cnt' = payload_cnt /\ response' = response
      /\ solution' = solution /\ damaged' = damaged
  BY DEF LengthByte, Receives, Received
<1>2. PollTyped /\ HeaderInv /\ StoredInv /\ DOMAIN response = 0 .. 91
  BY <1>1 DEF PollInv
<1>3. read \in Nat /\ byte = line[read + 1]
  BY DEF LineInv, byte
<1>4. payload_cnt = 0 /\ payload_cnt' = 0 /\ \A k \in 0 .. 91 : response[k] = Stale
  <2>1. state # "PAYLOAD"
    BY <1>1
  <2>2. payload_cnt = 0
    BY <2>1, <1>2 DEF StoredInv
  <2>3. \A k \in 0 .. 91 : response[k] = IF k < 0 THEN line[Start + 7 + k] ELSE Stale
    BY <2>2, <1>2 DEF StoredInv
  <2>4. \A k \in 0 .. 91 : ~(k < 0)
    OBVIOUS
  <2>5. QED
    BY <2>2, <2>3, <2>4, <1>1
<1>5. CASE state = "LEN_A"
  <2>1. state' = "LEN_B" /\ payload_len' = line'[read']
    BY <1>1, <1>3, <1>5 DEF LengthByte
  <2>2. Behind(0)
    BY <1>2, <1>5 DEF HeaderInv
  <2>3. Behind(0 + 1)'
    BY <2>2, <1>1, BehindByte
  <2>4. HeaderInv'
    BY <2>1, <2>3 DEF HeaderInv
  <2>5. StoredInv'
    BY <2>1, <1>1, <1>4 DEF StoredInv, Stale
  <2>6. PollTyped'
    BY <2>1, <1>1, <1>2 DEF PollTyped, WholePvt, DamagedPvt
  <2>7. QED
    BY <2>4, <2>5, <2>6, <1>1, <1>2 DEF PollInv
<1>6. CASE state = "LEN_B"
  <2>1. state' = "PAYLOAD" /\ payload_len' = line[read] + 256 * line[read + 1]
    BY <1>1, <1>2, <1>3, <1>6 DEF LengthByte, HeaderInv
  <2>2. Behind(1)
    BY <1>2, <1>6 DEF HeaderInv
  <2>3. Behind(1 + 1)'
    BY <2>2, <1>1, BehindByte
  <2>4. Behind(payload_cnt + 2)'
    BY <2>3, <1>4
  <2>5. Start' \in Nat /\ Start' + 5 = read /\ Start' + 6 = read + 1
    BY <2>2, <1>1, <1>3, <1>4 DEF Start, Behind
  <2>6. payload_len' = LengthAt(line, Start)'
    BY <2>1, <2>5, <1>1 DEF LengthAt
  <2>7. payload_len' = 0 \/ payload_cnt' < payload_len'
    <3>1. LineInv'
      BY <1>1, ReceiveKeepsLine DEF LengthByte
    <3>2. (LineInv => LengthsAreNat)'
      BY AllLengths, PTL
    <3>3. LengthAt(line, Start)' \in Nat
      <4>1. Start' \in Nat /\ Start' + 6 <= read'
        <5>1. Start' \in Nat /\ Start' + 6 = read + 1 /\ read' = read + 1
          BY <2>5, <1>1
        <5>2. read' \in Nat
          BY <5>1, <1>3
        <5>3. QED
          BY <5>1, <5>2
      <4>2. QED
        BY <3>1, <3>2, <4>1 DEF LengthsAreNat
    <3>4. payload_len' \in Nat
      BY <3>3, <2>6
    <3>5. QED
      BY <3>4, <1>4
  <2>8. StoredInv'
    BY <2>1, <2>4, <2>6, <2>7, <1>1, <1>4 DEF StoredInv, Stale
  <2>9. HeaderInv'
    BY <2>1 DEF HeaderInv
  <2>10. PollTyped'
    BY <2>1, <1>1, <1>2 DEF PollTyped, WholePvt, DamagedPvt
  <2>11. QED
    BY <2>8, <2>9, <2>10, <1>1, <1>2 DEF PollInv
<1>7. QED
  BY <1>1, <1>5, <1>6

(* What is stored, the byte just taken among it.                           *)
LEMMA StoredBytes ==
  ASSUME LineInv, PollInv, pc = "payload", state = "PAYLOAD", read < Len(line)
  PROVE  /\ Start \in Nat /\ read = Start + 6 + payload_cnt
         /\ payload_cnt \in Nat /\ payload_len \in Nat
         /\ payload_len = LengthAt(line, Start) /\ Holds(line, Start, PvtHeader)
         /\ DOMAIN Stored = 0 .. 91
         /\ \A k \in 0 .. 91 : Stored[k] =
              IF k < payload_cnt + 1 THEN line[Start + 7 + k] ELSE Stale
<1>1. PollTyped /\ StoredInv /\ DOMAIN response = 0 .. 91
  BY DEF PollInv
<1>2. payload_cnt \in Nat /\ read \in Nat
  BY <1>1 DEF PollTyped, LineInv
<1>3. /\ Start \in Nat /\ read = Start + 6 + payload_cnt
      /\ Holds(line, Start, PvtHeader)
  <2>1. Behind(payload_cnt + 2)
    BY <1>1 DEF StoredInv
  <2>2. read - (payload_cnt + 2) - 4 = Start
    BY <1>2 DEF Start
  <2>3. Start \in Nat /\ Holds(line, Start, PvtHeader)
    BY <2>1, <2>2 DEF Behind
  <2>4. QED
    BY <2>3, <1>2 DEF Start
<1>4. payload_len = LengthAt(line, Start)
  BY <1>1 DEF StoredInv
<1>5. payload_len \in Nat
  BY <1>2, <1>3, <1>4, LengthIsNat
<1>6. \A k \in 0 .. 91 : response[k] =
        IF k < payload_cnt THEN line[Start + 7 + k] ELSE Stale
  BY <1>1 DEF StoredInv
<1>7. byte = line[Start + 7 + payload_cnt]
  <2>1. read + 1 = Start + 7 + payload_cnt
    BY <1>2, <1>3
  <2>2. QED
    BY <2>1 DEF byte
<1>8. DOMAIN Stored = 0 .. 91
  BY <1>1 DEF Stored
<1>9. ASSUME NEW k \in 0 .. 91
      PROVE  Stored[k] = IF k < payload_cnt + 1 THEN line[Start + 7 + k] ELSE Stale
  <2>1. CASE k = payload_cnt
    <3>1. Stored[k] = byte
      BY <2>1, <1>1 DEF Stored, RESPONSE_LENGTH
    <3>2. k < payload_cnt + 1
      BY <2>1, <1>2
    <3>3. QED
      BY <3>1, <3>2, <2>1, <1>7
  <2>2. CASE k # payload_cnt
    <3>1. Stored[k] = response[k]
      BY <2>2, <1>1 DEF Stored
    <3>2. k < payload_cnt + 1 <=> k < payload_cnt
      BY <2>2, <1>2
    <3>3. QED
      BY <3>1, <3>2, <1>6
  <2>3. QED
    BY <2>1, <2>2
<1>10. QED
  BY <1>2, <1>3, <1>4, <1>5, <1>8, <1>9

LEMMA PayloadByteKeepsPoll == LineInv /\ PollInv /\ PayloadByte => PollInv'
<1> SUFFICES ASSUME LineInv, PollInv, PayloadByte PROVE PollInv'
  OBVIOUS
<1>1. /\ pc = "payload" /\ pc' = pc /\ line' = line /\ read' = read + 1 /\ read < Len(line)
      /\ state = "PAYLOAD" /\ state' = state /\ payload_len' = payload_len
      /\ payload_cnt' = payload_cnt + 1 /\ response' = Stored
      /\ solution' = solution /\ damaged' = damaged
      /\ payload_cnt + 1 # payload_len
  BY DEF PayloadByte, Receives, Received, Complete
<1>2. /\ Start \in Nat /\ read = Start + 6 + payload_cnt
      /\ payload_cnt \in Nat /\ payload_len \in Nat
      /\ payload_len = LengthAt(line, Start)
      /\ DOMAIN Stored = 0 .. 91
      /\ \A k \in 0 .. 91 : Stored[k] =
           IF k < payload_cnt + 1 THEN line[Start + 7 + k] ELSE Stale
  BY <1>1, StoredBytes
<1>3. PollTyped /\ StoredInv
  BY <1>1 DEF PollInv
<1>4. Start' = Start
  BY <1>1, <1>2 DEF Start
<1>5. Behind(payload_cnt + 2)'
  <2>1. Behind(payload_cnt + 2)
    BY <1>1, <1>3 DEF StoredInv
  <2>2. \A q : Holds(line, q, PvtHeader)' <=> Holds(line, q, PvtHeader)
    BY <1>1 DEF Holds, PvtHeader
  <2>3. read' - (payload_cnt' + 2) - 4 = read - (payload_cnt + 2) - 4
    BY <1>1, <1>2
  <2>4. QED
    BY <2>1, <2>2, <2>3 DEF Behind
<1>6. payload_len' = LengthAt(line, Start)'
  BY <1>1, <1>2, <1>4 DEF LengthAt
<1>7. payload_len' = 0 \/ payload_cnt' < payload_len'
  <2>1. payload_len = 0 \/ payload_cnt < payload_len
    BY <1>1, <1>3 DEF StoredInv
  <2>2. QED
    BY <2>1, <1>1, <1>2
<1>8. \A k \in 0 .. 91 : response'[k] =
        IF k < payload_cnt' THEN line'[Start' + 7 + k] ELSE Stale'
  BY <1>1, <1>2, <1>4 DEF Stale
<1>9. StoredInv'
  BY <1>1, <1>5, <1>6, <1>7, <1>8 DEF StoredInv
<1>10. HeaderInv'
  BY <1>1 DEF HeaderInv
<1>11. PollTyped'
  BY <1>1, <1>2, <1>3 DEF PollTyped, WholePvt, DamagedPvt
<1>12. QED
  BY <1>1, <1>2, <1>9, <1>10, <1>11 DEF PollInv

LEMMA RequestKeepsPoll == LineInv /\ PollInv /\ RequestFix => PollInv'
<1> SUFFICES ASSUME LineInv, PollInv, RequestFix PROVE PollInv'
  OBVIOUS
<1>1. PICK s \in Solutions :
        /\ pc' = "payload" /\ state' = "UBX_A" /\ payload_cnt' = 0
        /\ response' = [k \in DOMAIN response |-> Stale]
        /\ damaged' \in BOOLEAN /\ solution' = s
        /\ line' \in IF damaged' THEN DamagedPvt[s] ELSE WholePvt[s]
  BY DEF RequestFix
<1>2. DOMAIN response = 0 .. 91
  BY DEF PollInv
<1>3. PollTyped'
  BY <1>1 DEF PollTyped, DamagedPvt, WholePvt
<1>4. HeaderInv'
  BY <1>1 DEF HeaderInv
<1>5. StoredInv'
  BY <1>1, <1>2 DEF StoredInv, Stale
<1>6. QED
  BY <1>1, <1>2, <1>3, <1>4, <1>5 DEF PollInv

LEMMA PollInvNext == LineInv /\ PollInv /\ [Next]_vars => PollInv'
<1> SUFFICES ASSUME LineInv, PollInv, [Next]_vars PROVE PollInv'
  OBVIOUS
<1>1. ASSUME pc' # "payload", DOMAIN response' = DOMAIN response PROVE PollInv'
  BY <1>1 DEF PollInv
<1>2. CASE StartUp \/ AckByte \/ NoMatch \/ AckReturns
  BY <1>1, <1>2 DEF StartUp, AckByte, NoMatch, AckReturns, Receives, Received, pollVars, payloadVars
<1>3. CASE SendSetting \/ PowerSave
  BY <1>1, <1>3 DEF SendSetting, PowerSave, Transmit, pollVars, payloadVars
<1>4. CASE RequestFix
  BY <1>4, RequestKeepsPoll
<1>5. CASE HeaderByte
  BY <1>5, HeaderByteKeepsPoll
<1>6. CASE LengthByte
  BY <1>6, LengthByteKeepsPoll
<1>7. CASE PayloadByte
  BY <1>7, PayloadByteKeepsPoll
<1>8. CASE FixReturns
  <2>1. pc' = "ready" /\ response' = [k \in DOMAIN response |-> Stale]
    BY <1>8 DEF FixReturns
  <2>2. QED
    BY <2>1, <1>1
<1>9. CASE Watchdog \/ PowerFailure
  <2>1. pc' = "boot" /\ response' = [k \in 0 .. RESPONSE_LENGTH - 1 |-> 0]
    BY <1>9 DEF Watchdog, PowerFailure, ResetState
  <2>2. DOMAIN response' = 0 .. 91
    BY <2>1 DEF RESPONSE_LENGTH
  <2>3. QED
    BY <2>1, <2>2 DEF PollInv
<1>10. CASE UNCHANGED vars
  <2>1. /\ pc' = pc /\ line' = line /\ read' = read /\ state' = state
        /\ payload_cnt' = payload_cnt /\ payload_len' = payload_len /\ response' = response
        /\ solution' = solution /\ damaged' = damaged
    BY <1>10 DEF vars, pollVars, payloadVars
  <2>2. PollTyped => PollTyped'
    BY <2>1 DEF PollTyped, WholePvt, DamagedPvt
  <2>3. \A q : Holds(line, q, PvtHeader)' <=> Holds(line, q, PvtHeader)
    BY <2>1 DEF Holds, PvtHeader
  <2>4. \A n : (Behind(n)' <=> Behind(n)) /\ (Begun(n)' <=> Begun(n))
    BY <2>1, <2>3 DEF Behind, Begun, PvtHeader
  <2>5. HeaderInv => HeaderInv'
    BY <2>1, <2>4 DEF HeaderInv
  <2>6. Start' = Start /\ LengthAt(line, Start)' = LengthAt(line, Start) /\ Stale' = Stale
    BY <2>1 DEF Start, LengthAt, Stale
  <2>7. Behind(payload_cnt + 2)' <=> Behind(payload_cnt + 2)
    BY <2>1, <2>3 DEF Behind
  <2>8. StoredInv => StoredInv'
    BY <2>1, <2>6, <2>7 DEF StoredInv
  <2>9. QED
    BY <2>1, <2>2, <2>5, <2>8 DEF PollInv
<1>11. QED
  BY <1>2, <1>3, <1>4, <1>5, <1>6, <1>7, <1>8, <1>9, <1>10 DEF Next, Driver

(* A fix ends the wait for one, short of a reset.                          *)
LEMMA OnlyFixReturns ==
  ASSUME [Next]_vars, pc = "payload", pc' = "ready" PROVE FixReturns
<1>1. CASE Driver
  BY <1>1 DEF Driver, StartUp, SendSetting, PowerSave, RequestFix, AckByte, NoMatch, AckReturns,
       HeaderByte, LengthByte, PayloadByte, Receives, Received
<1>2. CASE Watchdog \/ PowerFailure
  BY <1>2 DEF Watchdog, PowerFailure, ResetState
<1>3. CASE UNCHANGED vars
  BY <1>3 DEF vars
<1>4. QED
  BY <1>1, <1>2, <1>3 DEF Next

LEMMA InitPoll == Init => PollInv
<1> SUFFICES ASSUME Init PROVE PollInv
  OBVIOUS
<1>1. pc = "boot" /\ response = [k \in 0 .. RESPONSE_LENGTH - 1 |-> 0]
  BY DEF Init
<1>2. DOMAIN response = 0 .. 91
  BY <1>1 DEF RESPONSE_LENGTH
<1>3. QED
  BY <1>1, <1>2 DEF PollInv

(* The length a poll goes by, and what is left behind the header.          *)
LEMMA LengthHeard ==
  ASSUME LineInv, PollInv, pc = "payload", state = "PAYLOAD"
  PROVE  /\ Start \in Nat /\ read = Start + 6 + payload_cnt /\ payload_cnt \in Nat
         /\ payload_len = 0 \/ payload_cnt < payload_len
         /\ ~damaged => /\ payload_len = 92
                        /\ \A k \in 0 .. 91 : line[Start + 7 + k] = Payload(solution)[k]
         /\ damaged => /\ payload_len \in {0, 92} \/ payload_len >= 256
                       /\ Len(line) - Start <= 100
<1>1. PollTyped /\ StoredInv
  BY DEF PollInv
<1>2. payload_cnt \in Nat /\ read \in Nat /\ solution \in Solutions /\ damaged \in BOOLEAN
  BY <1>1 DEF PollTyped, LineInv
<1>3. Behind(payload_cnt + 2) /\ payload_len = LengthAt(line, Start)
  BY <1>1 DEF StoredInv
<1>4. read - (payload_cnt + 2) - 4 = Start
  BY <1>2 DEF Start
<1>5. Start \in Nat /\ Holds(line, Start, PvtHeader)
  BY <1>3, <1>4 DEF Behind
<1>6. read = Start + 6 + payload_cnt
  BY <1>2, <1>5 DEF Start
<1>7. payload_len = 0 \/ payload_cnt < payload_len
  BY <1>1 DEF StoredInv
<1>8. ASSUME ~damaged
      PROVE  payload_len = 92 /\ \A k \in 0 .. 91 : line[Start + 7 + k] = Payload(solution)[k]
  <2>1. line \in WholePvt[solution]
    BY <1>1, <1>8 DEF PollTyped
  <2>2. QED
    BY <2>1, <1>2, <1>3, <1>5, HeaderOfWhole
<1>9. ASSUME damaged
      PROVE  /\ payload_len \in {0, 92} \/ payload_len >= 256
             /\ Len(line) - Start <= 100
  <2>1. line \in DamagedPvt[solution]
    BY <1>1, <1>9 DEF PollTyped
  <2>2. QED
    BY <2>1, <1>2, <1>3, <1>5, HeaderOfDamaged
<1>10. QED
  BY <1>2, <1>5, <1>6, <1>7, <1>8, <1>9

LEMMA OneAnswerStep ==
  ASSUME LineInv, PollInv, [Next]_vars, pc = "payload"
  PROVE  /\ pc' = "ready" => \A k \in DOMAIN response : Stored[k] # Stale
         /\ payload_cnt >= RESPONSE_LENGTH => damaged /\ pc' # "ready"
<1>1. PollTyped /\ StoredInv /\ DOMAIN response = 0 .. 91
  BY DEF PollInv
<1>2. payload_cnt \in Nat /\ line \in Seq(Bytes) /\ Len(line) \in Nat
  BY <1>1 DEF PollTyped, LineInv
<1>3. ASSUME pc' = "ready"
      PROVE  payload_cnt = 91 /\ \A k \in 0 .. 91 : Stored[k] # Stale
  <2>1. FixReturns
    BY <1>3, OnlyFixReturns
  <2>2. state = "PAYLOAD" /\ read < Len(line) /\ payload_cnt + 1 = payload_len
    BY <2>1 DEF FixReturns, Received, Complete
  <2>3. /\ Start \in Nat /\ read = Start + 6 + payload_cnt
        /\ damaged => /\ payload_len \in {0, 92} \/ payload_len >= 256
                      /\ Len(line) - Start <= 100
        /\ ~damaged => payload_len = 92
    BY <2>2, LengthHeard
  <2>4. payload_len = 92
    <3>1. CASE ~damaged
      BY <3>1, <2>3
    <3>2. CASE damaged
      <4>1. payload_len = 0 \/ payload_len = 92 \/ payload_len >= 256
        BY <3>2, <2>3
      <4>2. payload_len # 0
        BY <2>2, <1>2
      <4>3. payload_len < 256
        <5>1. Len(line) - Start <= 100
          BY <3>2, <2>3
        <5>2. read = Start + 6 + payload_cnt /\ Start \in Nat
          BY <2>3
        <5>3. QED
          BY <5>1, <5>2, <2>2, <1>2
      <4>4. payload_len \in Nat
        BY <2>2, <1>2
      <4>5. QED
        BY <4>1, <4>2, <4>3, <4>4
    <3>3. QED
      BY <3>1, <3>2
  <2>5. payload_cnt = 91
    BY <2>2, <2>4, <1>2
  <2>6. ASSUME NEW k \in 0 .. 91 PROVE Stored[k] # Stale
    <3>1. Stored[k] = line[Start + 7 + k]
      <4>1. Stored[k] = IF k < payload_cnt + 1 THEN line[Start + 7 + k] ELSE Stale
        BY <2>2, StoredBytes
      <4>2. k < payload_cnt + 1
        BY <2>5
      <4>3. QED
        BY <4>1, <4>2
    <3>2. Start + 7 + k \in 1 .. Len(line)
      <4>1. Start + 6 + 91 < Len(line) /\ Start \in Nat
        BY <2>2, <2>3, <2>5
      <4>2. k \in Nat /\ k <= 91
        OBVIOUS
      <4>3. QED
        BY <4>1, <4>2, <1>2
    <3>3. line[Start + 7 + k] \in Bytes
      BY <3>2, <1>2, ElementOfSeq
    <3>4. line[Start + 7 + k] >= 0 /\ line[Start + 7 + k] \in Int
      BY <3>3, Widths
    <3>5. QED
      BY <3>1, <3>4 DEF Stale
  <2>7. QED
    BY <2>5, <2>6
<1>4. ASSUME payload_cnt >= 92 PROVE damaged
  <2>1. SUFFICES ASSUME ~damaged PROVE FALSE
    OBVIOUS
  <2>2. state = "PAYLOAD"
    <3>1. payload_cnt # 0
      BY <1>2, <1>4
    <3>2. QED
      BY <3>1, <1>1 DEF StoredInv
  <2>3. payload_len = 92 /\ (payload_len = 0 \/ payload_cnt < payload_len)
    BY <2>1, <2>2, LengthHeard
  <2>4. QED
    BY <2>3, <1>2, <1>4
<1>5. payload_cnt >= 92 => pc' # "ready"
  BY <1>2, <1>3
<1>6. QED
  BY <1>1, <1>3, <1>4, <1>5 DEF RESPONSE_LENGTH

(* A fix is made of the bytes of one answer.                               *)
THEOREM OneAnswer == Spec => FixIsOfOneAnswer
<1>1. Init => LineInv /\ PollInv
  BY Inits, InitPoll
<1>2. LineInv /\ PollInv /\ [Next]_vars => (LineInv /\ PollInv)'
  BY LineInvNext, PollInvNext
<1>3. LineInv /\ PollInv /\ [Next]_vars =>
        [pc = "payload" =>
           /\ pc' = "ready" => \A k \in DOMAIN response : Stored[k] # Stale
           /\ payload_cnt >= RESPONSE_LENGTH => damaged /\ pc' # "ready"]_vars
  BY OneAnswerStep
<1>4. QED
  BY <1>1, <1>2, <1>3, PTL DEF Spec, FixIsOfOneAnswer

-----------------------------------------------------------------------------
(* The fields of a fix.                                                    *)

(* A number is its last byte and what is before it.                        *)
LEMMA LastByteOf ==
  ASSUME NEW v \in Int, NEW a \in Int, NEW x \in Int, a = v \div 256, x = v % 256
  PROVE  v = 256 * a + x /\ x \in 0 .. 255
  BY SMT

LEMMA Quotients ==
  ASSUME NEW v \in Int
  PROVE  /\ v \div 256 \in Int /\ v \div 65536 \in Int /\ v \div 16777216 \in Int
         /\ (v \div 256) \div 256 = v \div 65536
         /\ (v \div 65536) \div 256 = v \div 16777216
         /\ v % 256 \in Int
  BY SMT

(* The last byte of a number of four, a sign among them.                   *)
LEMMA SignByte ==
  ASSUME NEW c \in Int, -128 <= c, c < 128, NEW d, d = c % 256
  PROVE  (IF d < 128 THEN d ELSE d - 256) = c
<1>1. CASE c >= 0
  BY <1>1, SMT
<1>2. CASE c < 0
  <2>1. d = c + 256
    BY <1>2, SMT
  <2>2. QED
    BY <2>1, <1>2, SMT
<1>3. QED
  BY <1>1, <1>2, SMT

LEMMA TopByteBound ==
  ASSUME NEW v \in Int32s
  PROVE  v \in Int /\ -128 <= v \div 16777216 /\ v \div 16777216 < 128
<1>1. v \in Int /\ -INT32_MAX - 1 <= v /\ v <= INT32_MAX
  BY Widths
<1>2. QED
  BY <1>1, SMT DEF INT32_MAX

LEMMA ByteParts ==
  ASSUME NEW v
  PROVE  /\ ByteOf(v, 0) = (v \div 1) % 256 /\ ByteOf(v, 1) = (v \div 256) % 256
         /\ ByteOf(v, 2) = (v \div 65536) % 256 /\ ByteOf(v, 3) = (v \div 16777216) % 256
  BY SMT DEF ByteOf, Place

LEMMA AddUp ==
  ASSUME NEW v \in Int, NEW a \in Int, NEW b \in Int, NEW c \in Int,
         NEW x \in Int, NEW y \in Int, NEW z \in Int,
         v = 256 * a + x, a = 256 * b + y, b = 256 * c + z
  PROVE  x + 256 * y + 65536 * z + 16777216 * c = v
  BY SMT

LEMMA Int32Decodes ==
  ASSUME NEW v \in Int32s, NEW r, NEW at \in Nat,
         \A j \in 0 .. 3 : r[at + j] = ByteOf(v, j)
  PROVE  Int32(r, at) = v
<1>1. PICK a \in Int, b \in Int, c \in Int :
        a = v \div 256 /\ b = v \div 65536 /\ c = v \div 16777216
  BY Quotients, TopByteBound, SMT
<1>2. v \in Int /\ -128 <= c /\ c < 128
  BY <1>1, TopByteBound, SMT
<1>3. b = a \div 256 /\ c = b \div 256
  BY <1>1, <1>2, Quotients, SMT
<1>4. PICK x \in Int, y \in Int, z \in Int : x = v % 256 /\ y = a % 256 /\ z = b % 256
  BY <1>2, SMT
<1>5. v = 256 * a + x
  BY <1>1, <1>2, <1>4, LastByteOf, SMT
<1>6. a = 256 * b + y
  BY <1>3, <1>4, LastByteOf, SMT
<1>7. b = 256 * c + z
  BY <1>3, <1>4, LastByteOf, SMT
<1>8. /\ r[at + 0] = ByteOf(v, 0) /\ r[at + 1] = ByteOf(v, 1)
      /\ r[at + 2] = ByteOf(v, 2) /\ r[at + 3] = ByteOf(v, 3)
  BY SMT
<1>9. at + 0 = at /\ v \div 1 = v
  BY <1>2, SMT
<1>10. r[at] = x /\ r[at + 1] = y /\ r[at + 2] = z /\ r[at + 3] = c % 256
  BY <1>1, <1>4, <1>8, <1>9, ByteParts, SMT
<1>11. (IF r[at + 3] < 128 THEN r[at + 3] ELSE r[at + 3] - 256) = c
  BY <1>2, <1>10, SignByte, SMT
<1>12. Int32(r, at) = x + 256 * y + 65536 * z + 16777216 * c
  BY <1>10, <1>11, SMT DEF Int32
<1>13. x + 256 * y + 65536 * z + 16777216 * c = v
  BY <1>2, <1>5, <1>6, <1>7, AddUp, SMT
<1>14. QED
  BY <1>12, <1>13, SMT

LEMMA YearDecodes ==
  ASSUME NEW v \in Words PROVE ByteOf(v, 0) + 256 * ByteOf(v, 1) = v
<1>1. v \in Int /\ 0 <= v /\ v < 65536
  BY Widths
<1>2. ByteOf(v, 0) = (v \div 1) % 256 /\ ByteOf(v, 1) = (v \div 256) % 256
  BY ByteParts, SMT
<1>3. PICK a \in Int, x \in Int : a = v \div 256 /\ x = v % 256
  BY <1>1, SMT
<1>4. v \div 1 = v /\ a % 256 = a
  BY <1>1, <1>3, SMT
<1>5. v = 256 * a + x
  BY <1>1, <1>3, LastByteOf, SMT
<1>6. ByteOf(v, 0) = x /\ ByteOf(v, 1) = a
  BY <1>2, <1>3, <1>4, SMT
<1>7. QED
  BY <1>1, <1>5, <1>6, SMT

LEMMA AltitudeDecodes ==
  ASSUME NEW mm \in Int
  PROVE  Altitude(mm) = IF mm < 1000 THEN 1 ELSE IF mm >= 50001000 THEN 50000 ELSE mm \div 1000
<1>1. PICK m \in Int : m = mm \div 1000
  BY SMT
<1>2. 1000 * m <= mm /\ mm < 1000 * m + 1000
  BY <1>1, SMT
<1>3. Altitude(mm) = IF m <= 0 THEN 1 ELSE IF m > 50000 THEN 50000 ELSE m
  BY <1>1, SMT DEF Altitude
<1>4. (m <= 0 <=> mm < 1000) /\ (m > 50000 <=> mm >= 50001000)
  BY <1>2, SMT
<1>5. QED
  BY <1>1, <1>3, <1>4, SMT

(* The bytes of the fields the driver reads.                               *)
LEMMA FieldBytes ==
  ASSUME NEW s \in Solutions
  PROVE  /\ Payload(s)[20] = s.type /\ Payload(s)[23] = s.num_svs
         /\ Payload(s)[4] = ByteOf(s.year, 0) /\ Payload(s)[5] = ByteOf(s.year, 1)
         /\ \A k \in 1 .. 5 : Payload(s)[5 + k] = s.time[k]
         /\ \A j \in 0 .. 3 : /\ Payload(s)[24 + j] = ByteOf(s.lon, j)
                              /\ Payload(s)[28 + j] = ByteOf(s.lat, j)
                              /\ Payload(s)[36 + j] = ByteOf(s.hMSL, j)
<1>1. /\ Payload(s)[20] = s.type /\ Payload(s)[23] = s.num_svs
      /\ Payload(s)[4] = ByteOf(s.year, 0) /\ Payload(s)[5] = ByteOf(s.year, 1)
  BY DEF Payload, RESPONSE_LENGTH
<1>2. ASSUME NEW k \in 1 .. 5 PROVE Payload(s)[5 + k] = s.time[k]
  BY DEF Payload, RESPONSE_LENGTH
<1>3. ASSUME NEW j \in 0 .. 3 PROVE Payload(s)[24 + j] = ByteOf(s.lon, j)
  BY DEF Payload, RESPONSE_LENGTH
<1>4. ASSUME NEW j \in 0 .. 3 PROVE Payload(s)[28 + j] = ByteOf(s.lat, j)
  BY DEF Payload, RESPONSE_LENGTH
<1>5. ASSUME NEW j \in 0 .. 3 PROVE Payload(s)[36 + j] = ByteOf(s.hMSL, j)
  BY DEF Payload, RESPONSE_LENGTH
<1>6. QED
  BY <1>1, <1>2, <1>3, <1>4, <1>5

(* What gps_get_fix() takes out of a payload is what the GPS has put in.   *)
LEMMA Decodes ==
  ASSUME NEW s \in Solutions, NEW r, \A k \in 0 .. 91 : r[k] = Payload(s)[k]
  PROVE  Decoded(r) = Reported(s)
<1>1. /\ s.year \in Words /\ s.time \in [1 .. 5 -> Bytes]
      /\ s.lat \in Int32s /\ s.lon \in Int32s /\ s.hMSL \in Int32s
  BY SolutionsAssumption
<1>2. r[20] = s.type /\ r[23] = s.num_svs /\ r[4] = ByteOf(s.year, 0) /\ r[5] = ByteOf(s.year, 1)
  BY FieldBytes
<1>3. r[4] + 256 * r[5] = s.year
  BY <1>1, <1>2, YearDecodes
<1>4. [k \in 1 .. 5 |-> r[5 + k]] = s.time
  <2>1. ASSUME NEW k \in 1 .. 5 PROVE r[5 + k] = s.time[k]
    <3>1. 5 + k \in 0 .. 91
      OBVIOUS
    <3>2. QED
      BY <3>1, FieldBytes
  <2>2. QED
    BY <2>1, <1>1
<1>5. Int32(r, 24) = s.lon
  <2>1. \A j \in 0 .. 3 : 24 + j \in 0 .. 91
    OBVIOUS
  <2>2. \A j \in 0 .. 3 : r[24 + j] = ByteOf(s.lon, j)
    BY <2>1, FieldBytes
  <2>3. QED
    BY <2>2, <1>1, Int32Decodes
<1>6. Int32(r, 28) = s.lat
  <2>1. \A j \in 0 .. 3 : 28 + j \in 0 .. 91
    OBVIOUS
  <2>2. \A j \in 0 .. 3 : r[28 + j] = ByteOf(s.lat, j)
    BY <2>1, FieldBytes
  <2>3. QED
    BY <2>2, <1>1, Int32Decodes
<1>7. Int32(r, 36) = s.hMSL
  <2>1. \A j \in 0 .. 3 : 36 + j \in 0 .. 91
    OBVIOUS
  <2>2. \A j \in 0 .. 3 : r[36 + j] = ByteOf(s.hMSL, j)
    BY <2>1, FieldBytes
  <2>3. QED
    BY <2>2, <1>1, Int32Decodes
<1>8. s.hMSL \in Int
  BY <1>1, Widths
<1>9. Altitude(s.hMSL) = IF s.hMSL < 1000 THEN 1
                         ELSE IF s.hMSL >= 50001000 THEN 50000 ELSE s.hMSL \div 1000
  BY <1>8, AltitudeDecodes, SMT
<1>10. QED
  BY <1>2, <1>3, <1>4, <1>5, <1>6, <1>7, <1>9, SMT DEF Decoded, Reported

(* The fix of a whole answer.                                              *)
LEMMA ReportedStep ==
  ASSUME LineInv, PollInv, [Next]_vars, pc = "payload", pc' = "ready", ~damaged
  PROVE  current_fix' = Reported(solution)
<1>1. FixReturns
  BY OnlyFixReturns
<1>2. state = "PAYLOAD" /\ read < Len(line) /\ current_fix' = Decoded(Stored)
      /\ payload_cnt + 1 = payload_len
  BY <1>1 DEF FixReturns, Received, Complete
<1>3. /\ payload_len = 92 /\ payload_cnt \in Nat
      /\ \A k \in 0 .. 91 : line[Start + 7 + k] = Payload(solution)[k]
  BY <1>2, LengthHeard
<1>4. \A k \in 0 .. 91 : Stored[k] =
        IF k < payload_cnt + 1 THEN line[Start + 7 + k] ELSE Stale
  BY <1>2, StoredBytes
<1>5. ASSUME NEW k \in 0 .. 91 PROVE Stored[k] = Payload(solution)[k]
  <2>1. payload_cnt + 1 = 92
    BY <1>2, <1>3
  <2>2. k < payload_cnt + 1
    BY <2>1
  <2>3. QED
    BY <2>2, <1>3, <1>4
<1>6. solution \in Solutions
  BY DEF PollInv, PollTyped
<1>7. QED
  BY <1>2, <1>5, <1>6, Decodes

(* The fix of an answer that arrives whole is what the GPS has reported.   *)
THEOREM ReportedFix == Spec => FixIsReported
<1>1. Init => LineInv /\ PollInv
  BY Inits, InitPoll
<1>2. LineInv /\ PollInv /\ [Next]_vars => (LineInv /\ PollInv)'
  BY LineInvNext, PollInvNext
<1>3. LineInv /\ PollInv /\ [Next]_vars =>
        [pc = "payload" /\ pc' = "ready" /\ ~damaged =>
           current_fix' = Reported(solution)]_vars
  BY ReportedStep
<1>4. QED
  BY <1>1, <1>2, <1>3, PTL DEF Spec, FixIsReported
=============================================================================
