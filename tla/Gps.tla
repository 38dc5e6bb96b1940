-------------------------------- MODULE Gps --------------------------------
(***************************************************************************)
(* The GPS driver, gps.c, called as main() of main.c calls it: the six     *)
(* settings of the start-up, each repeated until the GPS acknowledges it,  *)
(* polls for a fix until there is one, the power save mode, and then polls *)
(* for ever.  The driver waits for every byte of an answer without a       *)
(* timeout: a byte lost on the line is made up for by the watchdog alone.  *)
(*                                                                         *)
(* line is what arrives on the UART from the moment a receive function     *)
(* begins to listen, and read how many bytes of it the function has taken. *)
(* What is left when it returns (the checksum of the answer, at least) is  *)
(* over while the next command is transmitted, and UCRXIFG is cleared      *)
(* before the next function listens; the variables of a call are cleared   *)
(* when it returns.                                                        *)
(***************************************************************************)
EXTENDS Integers, Sequences

CONSTANTS
  Noises,      \* what may arrive before the answer
  Lost,        \* positions of an answer at which a byte may be lost
  Solutions    \* what the GPS may report

RESPONSE_LENGTH == 92
UBX1 == 181             \* 0xB5, the two bytes every UBX message starts with
UBX2 == 98              \* 0x62
CFG  == 6               \* message classes
NAV  == 1
PVT  == 7

(* gps_disable_nmea_output(), gps_set_gps_only(), gps_set_airborne_model(),*)
(* gps_set_power_save(), gps_power_save(0), gps_save_settings().           *)
RXM      == 17
Settings == <<0, 62, 36, 59, RXM, 9>>

VARIABLES
  pc,          \* "boot", "ready" between two calls, or what is waited for
  step,        \* the setting to send; 7: no fix yet; 8: in operation
  line, read,
  match_count, msg_ack,                             \* gps_receive_ack()
  state, payload_cnt, payload_len, response,        \* gps_receive_payload()
  current_fix,
  accepted,    \* history: settings the GPS has accepted since the reset
  solution,    \* history: what the GPS answered the last poll with
  damaged      \* history: that answer has lost a byte, or all

ackVars     == <<match_count, msg_ack>>
payloadVars == <<state, payload_cnt, payload_len, response>>
pollVars    == <<payloadVars, current_fix, solution, damaged>>
vars == <<pc, step, line, read, ackVars, pollVars, accepted>>

(* What an earlier call has written into the static response[].            *)
Stale == -1
NoFix == [num_svs |-> 0, type |-> 0, year |-> 0, time |-> <<0, 0, 0, 0, 0>>,
          lat |-> 0, lon |-> 0, alt |-> 0]

----------------------------------------------------------------------------
(* The GPS.                                                                *)

(* UBX-ACK-ACK and UBX-ACK-NAK; checksums are two bytes nobody reads.      *)
Ack(msg_id)  == <<UBX1, UBX2, 5, 1, 2, 0, CFG, msg_id>>
Nak(msg_id)  == <<UBX1, UBX2, 5, 0, 2, 0, CFG, msg_id>>
Checksum     == <<UBX1, UBX2>>

(* Byte k of a little-endian integer in two's complement.                  *)
Place == <<1, 256, 65536, 16777216>>
ByteOf(v, k) == (v \div Place[k + 1]) % 256

(* The payload of UBX-NAV-PVT, the fields the firmware does not read       *)
(* filled with bytes that look like the start of a message.                *)
Payload(s) == [k \in 0 .. RESPONSE_LENGTH - 1 |->
  CASE k = 0         -> s.itow
    [] k \in 4 .. 5   -> ByteOf(s.year, k - 4)
    [] k \in 6 .. 10  -> s.time[k - 5]
    [] k = 20        -> s.type
    [] k = 23        -> s.num_svs
    [] k \in 24 .. 27 -> ByteOf(s.lon, k - 24)
    [] k \in 28 .. 31 -> ByteOf(s.lat, k - 28)
    [] k \in 36 .. 39 -> ByteOf(s.hMSL, k - 36)
    [] OTHER         -> UBX1]

PvtHeader == <<UBX1, UBX2, NAV, PVT>>
PvtAnswer(s) == PvtHeader \o <<RESPONSE_LENGTH, 0>>
                  \o [k \in 1 .. RESPONSE_LENGTH |-> Payload(s)[k - 1]]
                  \o Checksum

(* A byte with a framing error is dropped by the UART.                     *)
Without(answer, k) ==
  [j \in 1 .. Len(answer) - 1 |-> answer[IF j < k THEN j ELSE j + 1]]
Whole(answer) == {n \o answer : n \in Noises}
Damaged(answer) == {n \o Without(answer, k) :
                      n \in Noises, k \in Lost \cap DOMAIN answer}
Arrives(answer) == Whole(answer) \cup Damaged(answer)

WholePvt   == [s \in Solutions |-> Whole(PvtAnswer(s))]
DamagedPvt == [s \in Solutions |-> Damaged(PvtAnswer(s)) \cup Noises]

Bytes  == 0 .. 255
Words  == 0 .. 65535
INT32_MAX == 2147483647
Int32s == -INT32_MAX - 1 .. INT32_MAX

(* The bytes of a message follow one another in bs, behind the first q.    *)
Holds(bs, q, msg) == /\ q + Len(msg) <= Len(bs)
                     /\ \A k \in 1 .. Len(msg) : bs[q + k] = msg[k]

(* Noise is no header of an answer, and no acknowledgement of a setting.   *)
ASSUME NoiseAssumption ==
  \A n \in Noises : /\ n \in Seq(Bytes)
                    /\ \A q \in 0 .. Len(n) :
                         /\ ~Holds(n, q, PvtHeader)
                         /\ \A i \in 1 .. 6 : ~Holds(n, q, Ack(Settings[i]))

(* The fields have the widths of UBX-NAV-PVT.                              *)
ASSUME SolutionsAssumption ==
  \A s \in Solutions :
    /\ s.itow \in Bytes /\ s.type \in Bytes /\ s.num_svs \in Bytes
    /\ s.year \in Words /\ s.time \in [1 .. 5 -> Bytes]
    /\ s.lat \in Int32s /\ s.lon \in Int32s /\ s.hMSL \in Int32s

(* What follows the header of an answer holds no other header, even when a *)
(* byte is lost from it: gps_receive_payload() could not tell.             *)
ASSUME AnswersAssumption ==
  \A s \in Solutions : \A q \in DOMAIN PvtAnswer(s) :
    /\ ~Holds(PvtAnswer(s), q, PvtHeader)
    /\ \A k \in Lost \cap DOMAIN PvtAnswer(s) :
         ~Holds(Without(PvtAnswer(s), k), q, PvtHeader)

----------------------------------------------------------------------------
Init == /\ pc = "boot" /\ step = 1
        /\ line = <<>> /\ read = 0
        /\ match_count = 0 /\ msg_ack = 0
        /\ state = "UBX_A" /\ payload_cnt = 0 /\ payload_len = 0
        /\ response = [k \in 0 .. RESPONSE_LENGTH - 1 |-> 0]
        /\ current_fix = NoFix
        /\ accepted = {}
        /\ solution = NoFix /\ damaged = FALSE

(* The six settings wait for the start-up delay.                           *)
StartUp == /\ pc = "boot"
           /\ pc' = "ready"
           /\ UNCHANGED <<step, line, read, ackVars, pollVars, accepted>>

(* gps_transmit_string() of a setting and the start of gps_receive_ack();  *)
(* the GPS accepts the setting, refuses it or does not hear it.            *)
Transmit(msg_id) ==
  /\ pc' = "ack"
  /\ match_count' = 0 /\ msg_ack' = 0
  /\ read' = 0
  /\ \/ /\ line' \in Arrives(Ack(msg_id) \o Checksum)
        /\ accepted' = accepted \cup {msg_id}
     \/ /\ line' \in Arrives(Nak(msg_id) \o Checksum)
        /\ UNCHANGED accepted
     \/ line' \in Noises /\ UNCHANGED accepted
  /\ UNCHANGED <<step, pollVars>>

SendSetting == /\ pc = "ready" /\ step <= 6
               /\ Transmit(Settings[step])

(* main.c:111: the blips end.                                              *)
HasFix == ~(current_fix.num_svs < 5 /\ current_fix.type < 3)

(* gps_power_save(1), whose result nobody looks at.                        *)
PowerSave == /\ pc = "ready" /\ step = 7 /\ HasFix
             /\ Transmit(RXM)

(* gps_get_fix() up to the start of gps_receive_payload().                 *)
RequestFix ==
  \E s \in Solutions :
    /\ pc = "ready"
    /\ step = 8 \/ (step = 7 /\ ~HasFix)
    /\ pc' = "payload"
    /\ state' = "UBX_A" /\ payload_cnt' = 0 /\ payload_len' = 0
    /\ response' = [k \in DOMAIN response |-> Stale]
    /\ read' = 0
    /\ damaged' \in BOOLEAN
    /\ line' \in IF damaged' THEN DamagedPvt[s] ELSE WholePvt[s]
    /\ solution' = s
    /\ UNCHANGED <<step, ackVars, current_fix, accepted>>

----------------------------------------------------------------------------
(* gps_receive_ack().                                                      *)

byte == line[read + 1]
Received(what) == pc = what /\ read < Len(line)
Receives(what) == Received(what) /\ read' = read + 1

(* The message this call waits for the acknowledgement of.                 *)
MsgId == IF step <= 6 THEN Settings[step] ELSE RXM

LastByte == 7

(* Mutant: class and message in the wrong order.                           *)
Expected_Swapped(k) == {<<UBX1, UBX2, 5, 1, 2, 0, MsgId, CFG>>[k],
                        <<UBX1, UBX2, 5, 0, 2, 0, MsgId, CFG>>[k]}
Expected(k) == {Ack(MsgId)[k], Nak(MsgId)[k]}

AckByte == /\ Receives("ack")
           /\ byte \in Expected(match_count + 1)
           /\ match_count < LastByte
           /\ match_count' = match_count + 1
           /\ msg_ack' = IF match_count = 3
                           THEN IF byte = Ack(MsgId)[4] THEN 1 ELSE 0
                           ELSE msg_ack
           /\ UNCHANGED <<pc, step, line, pollVars, accepted>>

(* The byte that breaks a match is not looked at as the start of the next. *)
Restart_Kept(count) == count            \* Mutant: the counter is not reset
Restart(count) == 0

NoMatch == /\ Receives("ack")
           /\ byte \notin Expected(match_count + 1)
           /\ match_count' = Restart(match_count)
           /\ UNCHANGED <<pc, step, line, msg_ack, pollVars, accepted>>

(* main.c:82-87 repeats a setting the GPS refuses.                         *)
Proceeds_Anyway == TRUE                 \* Mutant: the result is ignored
Proceeds == step > 6 \/ msg_ack = 1

AckReturns == /\ Received("ack") /\ read' = 0
              /\ byte \in Expected(match_count + 1)
              /\ match_count = LastByte
              /\ pc' = "ready"
              /\ step' = IF Proceeds THEN step + 1 ELSE step
              /\ line' = <<>> /\ match_count' = 0
              /\ UNCHANGED <<msg_ack, pollVars, accepted>>

----------------------------------------------------------------------------
(* gps_receive_payload() and the rest of gps_get_fix().                    *)

(* The header; a byte that does not fit is not looked at again either.     *)
After == [UBX_A |-> "UBX_B", UBX_B |-> "CLASSID", CLASSID |-> "MSGID",
          MSGID |-> "LEN_A"]
Wanted == [UBX_A |-> UBX1, UBX_B |-> UBX2, CLASSID |-> NAV, MSGID |-> PVT]

HeaderByte == /\ Receives("payload")
              /\ state \in DOMAIN Wanted
              /\ state' = IF byte = Wanted[state] THEN After[state] ELSE "UBX_A"
              /\ UNCHANGED <<pc, step, line, ackVars, payload_cnt, payload_len,
                             response, current_fix, solution, damaged, accepted>>

LengthByte == /\ Receives("payload")
              /\ \/ /\ state = "LEN_A"
                    /\ payload_len' = byte
                    /\ state' = "LEN_B"
                 \/ /\ state = "LEN_B"
                    /\ payload_len' = payload_len + 256 * byte
                    /\ state' = "PAYLOAD"
              /\ UNCHANGED <<pc, step, line, ackVars, payload_cnt, response,
                             current_fix, solution, damaged, accepted>>

(* A byte past the end of response[] overwrites what the linker has put    *)
(* there, which is not modelled.                                           *)
Stored == IF payload_cnt < RESPONSE_LENGTH
            THEN [response EXCEPT ![payload_cnt] = byte] ELSE response

(* Mutants: the comparison before the increment, and at least the length.  *)
Complete_Late(count, length) == count - 1 = length
Complete_AtLeast(count, length) == count >= length
Complete(count, length) == count = length

PayloadByte == /\ Receives("payload")
               /\ state = "PAYLOAD"
               /\ ~Complete(payload_cnt + 1, payload_len)
               /\ response' = Stored
               /\ payload_cnt' = payload_cnt + 1
               /\ UNCHANGED <<pc, step, line, ackVars, state, payload_len,
                              current_fix, solution, damaged, accepted>>

(* A signed little-endian integer of 32 bits at an offset.                 *)
Int32(r, at) == r[at] + 256 * r[at + 1] + 65536 * r[at + 2] +
                16777216 * (IF r[at + 3] < 128 THEN r[at + 3] ELSE r[at + 3] - 256)

(* Altitude in metres, clamped; a height below 1 m is not told from none.  *)
Altitude(mm) == LET alt == mm \div 1000
                IN  IF alt <= 0 THEN 1 ELSE IF alt > 50000 THEN 50000 ELSE alt

Decoded_Ellipsoid(r) ==           \* Mutant: the height above the ellipsoid
  [num_svs |-> r[23], type |-> r[20], year |-> r[4] + 256 * r[5],
   time |-> [k \in 1 .. 5 |-> r[5 + k]],
   lat |-> Int32(r, 28), lon |-> Int32(r, 24), alt |-> Altitude(Int32(r, 32))]
Decoded(r) ==
  [num_svs |-> r[23], type |-> r[20], year |-> r[4] + 256 * r[5],
   time |-> [k \in 1 .. 5 |-> r[5 + k]],
   lat |-> Int32(r, 28), lon |-> Int32(r, 24), alt |-> Altitude(Int32(r, 36))]

FixReturns == /\ Received("payload") /\ read' = 0
              /\ state = "PAYLOAD"
              /\ Complete(payload_cnt + 1, payload_len)
              /\ current_fix' = Decoded(Stored)
              /\ pc' = "ready"
              /\ line' = <<>>
              /\ state' = "UBX_A" /\ payload_cnt' = 0 /\ payload_len' = 0
              /\ response' = [k \in DOMAIN response |-> Stale]
              /\ solution' = NoFix /\ damaged' = FALSE
              /\ UNCHANGED <<step, ackVars, accepted>>

----------------------------------------------------------------------------
(* The watchdog, which no loop of the driver serves, or a power failure.   *)
ResetState == /\ pc' = "boot" /\ step' = 1
              /\ line' = <<>> /\ read' = 0
              /\ match_count' = 0 /\ msg_ack' = 0
              /\ state' = "UBX_A" /\ payload_cnt' = 0 /\ payload_len' = 0
              /\ response' = [k \in 0 .. RESPONSE_LENGTH - 1 |-> 0]
              /\ current_fix' = NoFix
              /\ accepted' = {}
              /\ solution' = NoFix /\ damaged' = FALSE

(* A receive function waits for a byte that will not come; main.c:63 and   *)
(* 112 have left the watchdog running.                                     *)
Bites_Served == FALSE              \* Mutant: the wait serves the watchdog
Bites == pc \in {"ack", "payload"} /\ read = Len(line)

Watchdog == Bites /\ ResetState
PowerFailure == ResetState

Driver == \/ StartUp \/ SendSetting \/ PowerSave \/ RequestFix
          \/ AckByte \/ NoMatch \/ AckReturns
          \/ HeaderByte \/ LengthByte \/ PayloadByte \/ FixReturns

Next == Driver \/ Watchdog \/ PowerFailure

(* The program runs on, bytes on their way arrive, the watchdog bites.     *)
Spec == Init /\ [][Next]_vars /\ WF_vars(Driver) /\ WF_vars(Watchdog)
----------------------------------------------------------------------------
(* Properties.                                                             *)

(* gps_receive_ack() returns 1 only when the last eight bytes heard are    *)
(* the acknowledgement of this very message, and 0 only when they are its  *)
(* refusal, whatever the line carries: the two patterns are compared byte  *)
(* for byte at once (gps.c:47), yet never mixed, nor one message's answer  *)
(* taken for another's.                                                    *)
NoFalseAck ==
  [][pc = "ack" /\ pc' = "ready" =>
       /\ read >= 7
       /\ \A k \in 1 .. 8 : line[read - 7 + k] =
            (IF msg_ack' = 1 THEN Ack(MsgId) ELSE Nak(MsgId))[k]]_vars

(* An answer that arrives whole is missed only when the bytes right before *)
(* it are the start of a message, whose first odd byte is the answer's     *)
(* 0xB5: gps.c:60 drops it.                                                *)
BeginsBefore(p) ==
  \E m \in 1 .. 7 : m < p /\ \A k \in 1 .. m : line[p - m + k - 1] \in
                               {Ack(MsgId)[k], Nak(MsgId)[k]}
MissedOnlyAfterStart ==
  pc = "ack" =>
    \A p \in 1 .. Len(line) :
      (p + 7 <= read /\ SubSeq(line, p, p + 7) \in {Ack(MsgId), Nak(MsgId)})
        => BeginsBefore(p)

(* The blips and the telemetry begin only when the GPS has accepted every  *)
(* setting since the last reset (main.c:82-87), the airborne model among   *)
(* them: without it the GPS gives no fix above 12 km.                      *)
ConfiguredBeforeUse ==
  step > 6 => \A k \in 1 .. 6 : Settings[k] \in accepted

(* The fix of an answer that arrived undamaged is what the GPS reported,   *)
(* and nothing else passes for it, although no checksum is compared.  The  *)
(* height is held between 1 and 50000 m, the bounds of gps.c:163-169,      *)
(* against the comment of its field, fix.h:20 "range 0m, up to ~40000m,    *)
(* clamped".                                                               *)
Reported(s) == [num_svs |-> s.num_svs, type |-> s.type, year |-> s.year,
                time |-> s.time, lat |-> s.lat, lon |-> s.lon,
                alt |-> IF s.hMSL < 1000 THEN 1
                        ELSE IF s.hMSL >= 50001000 THEN 50000
                        ELSE s.hMSL \div 1000]
FixIsReported ==
  [][pc = "payload" /\ pc' = "ready" /\ ~damaged =>
       current_fix' = Reported(solution)]_vars

(* A fix is made of the bytes of one answer, no more and no less, even of  *)
(* a damaged one: the static response[] never lends it bytes of an earlier *)
(* answer (gps.c:132), and when a wrong length runs past response[], which *)
(* takes a lost byte, no fix is ever taken: the call waits until the       *)
(* watchdog ends it.                                                       *)
FixIsOfOneAnswer ==
  [][pc = "payload" =>
       /\ pc' = "ready" => \A k \in DOMAIN response : Stored[k] # Stale
       /\ payload_cnt >= RESPONSE_LENGTH => damaged /\ pc' # "ready"]_vars

(* Every exchange ends: the call returns or the watchdog resets.           *)
ExchangeEnds == pc \in {"ack", "payload"} ~> pc \in {"ready", "boot"}
=============================================================================
