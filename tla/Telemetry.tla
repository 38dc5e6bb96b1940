----------------------------- MODULE Telemetry ------------------------------
(***************************************************************************)
(* The two buffers telemetry is sent from, through the life of the tracker *)
(* in the build of main.h (RTTY and APRS): a regular transmission writes   *)
(* both from the current fix, a backlog transmission writes aprs_buf from  *)
(* an old one, and both are written over what earlier fixes have left.     *)
(***************************************************************************)
EXTENDS Sentence, AprsPayload

CONSTANTS
  Fixes,         \* fixes the GPS may deliver
  UsualFix,      \* the one it delivers when the number of the sentence is
  Near,          \* not in Near: a bound of the model
  MaxSentences   \* bound: sentences since the reset

(* What main.h, aprs.c and the ranges of the fields (fix.h, hw.c) say.  A  *)
(* base91 pair holds less than 8281, four digits less than 91^4.  sent_id  *)
(* does not come to the end of its 16 bits.                                *)
ASSUME TelemetryAssumption ==
  /\ TX_BUF_MAX_LENGTH = 74 /\ SeqLimit = 8281
  /\ MaxSentences \in Nat /\ MaxSentences <= 65535
  /\ \A fix \in Fixes \cup {UsualFix} :
       /\ fix.type \in Nat
       /\ {fix.day, fix.hour, fix.min, fix.sec, fix.num_svs} \subseteq 0 .. 99
       /\ fix.alt \in Nat /\ fix.alt <= 65535
       /\ fix.lat \in Int /\ Abs(fix.lat) <= 900000000
       /\ fix.lon \in Int /\ Abs(fix.lon) <= 1800000000
       /\ fix.lat91 \in Nat /\ fix.lat91 < 68574961
       /\ fix.lon91 \in Nat /\ fix.lon91 < 68574961
       /\ fix.alt91 \in Nat /\ fix.alt91 < 8281
       /\ fix.temperature_int \in -100 .. 100
       /\ fix.voltage_bat \in Nat /\ fix.voltage_bat < 8281
       /\ fix.voltage_sol \in Nat /\ fix.voltage_sol < 8281

VARIABLES
  tx_buf, tx_buf_length, sent_id,
  aprs_buf, aprs_seqnum,
  sent,          \* history: the fix of the last transmission,
  from           \* and where it came from

telemetryVars ==
  <<tx_buf, tx_buf_length, sent_id, aprs_buf, aprs_seqnum, sent, from>>

TelemetryInit == /\ tx_buf = Template /\ tx_buf_length = 0 /\ sent_id = 0
                 /\ aprs_buf = AprsTemplate /\ aprs_seqnum = 0
                 /\ sent = UsualFix /\ from = "none"

Deliverable == IF sent_id + 1 \in Near THEN Fixes ELSE {UsualFix}
Stored      == IF sent_id + 1 \in Near THEN Fixes ELSE {}

Uint16(n) == n % 65536

(* main.c:149-158.                                                         *)
Regular(fix) ==
  /\ sent_id < MaxSentences
  /\ sent' = fix /\ from' = IF fix.type > 2 THEN "current" ELSE "none"
  /\ IF fix.type > 2
       THEN /\ sent_id' = Uint16(sent_id + 1)
            /\ tx_buf' = Prepared(tx_buf, sent_id', fix)
            /\ tx_buf_length' = PreparedLength(sent_id', fix)
       ELSE UNCHANGED <<sent_id, tx_buf, tx_buf_length>>
  /\ IF fix.type > 2 /\ AprsUsable(fix)
       THEN /\ aprs_seqnum' = NextSeqnum(aprs_seqnum, FALSE)
            /\ aprs_buf' = AprsPrepared(aprs_buf, fix, SeqField(aprs_seqnum, FALSE))
       ELSE UNCHANGED <<aprs_seqnum, aprs_buf>>

(* main.c:139-147; the backlog holds 3D fixes, without the check repeated. *)
Backlog(fix) ==
  /\ AprsUsable(fix)
  /\ sent' = fix /\ from' = "backlog"
  /\ aprs_seqnum' = NextSeqnum(aprs_seqnum, TRUE)
  /\ aprs_buf' = AprsPrepared(aprs_buf, fix, SeqField(aprs_seqnum, TRUE))
  /\ UNCHANGED <<tx_buf, tx_buf_length, sent_id>>

TelemetryNext == \/ \E fix \in Deliverable : Regular(fix)
                 \/ \E fix \in Stored : Backlog(fix)

TelemetrySpec == TelemetryInit /\ [][TelemetryNext]_telemetryVars
----------------------------------------------------------------------------
(* Properties.                                                             *)

(* From 141.0065408 degrees on, the first of the ten digits is taken of    *)
(* the longitude modulo what is left of 10^10 in 32 bits.                  *)
LongitudeFits(fix) == Abs(fix.lon) < 1410065408

(* fix.h:23 says "range -100 .. 100", the field has two digits.            *)
TemperatureFits(fix) == Abs(fix.temperature_int) < 100

(* What tx_rtty() is handed is the sentence a listener expects: every      *)
(* field whole, at its place, the checksum over what the listener sums,    *)
(* and nothing left of the x's of init_tx_buffer() (tlm.c:169) or of a     *)
(* longer sentence before.  There are two exceptions, and both go out      *)
(* under a checksum that fits: a longitude that does not fit, of which a   *)
(* wrong first digit is sent, and a temperature of 100 degrees above or    *)
(* below zero, at the ends of its documented range, which is sent as 00.   *)
SentenceIsExpected ==
  from = "current" =>
    (Chars(tx_buf, 0, tx_buf_length) = ExpectedSentence(sent_id, sent)
       <=> LongitudeFits(sent) /\ TemperatureFits(sent))

(* The sentence is longer than tx_buf exactly when sentence id and         *)
(* altitude have more than seven digits together, as TX_BUF_MAX_LENGTH     *)
(* does not count the three signs (main.h:70).                             *)
OverflowsWhenLong ==
  from = "current" =>
    (tx_buf_length > TX_BUF_MAX_LENGTH <=> IdLength(sent_id) + AltLength(sent) > 7)

(* A receiver decodes the payload to the values of the fix it was prepared *)
(* from, whatever the buffer held before; all of it is printable, and the  *)
(* delimiters stand.  A backlog frame is one with "a zero TLM sequence ID" *)
(* (aprs.c:85), and the regular ones are numbered without a gap, whatever  *)
(* backlog frames are sent between them.  In a backlog frame temperature   *)
(* and voltages are those stored with the fix: the code takes them from    *)
(* the fix it is given (aprs.c:113-118), against its comment, aprs.c:87    *)
(* "always transmits the latest temperature / battery voltage, no          *)
(* historical values!".                                                    *)
PayloadDecodes ==
  from # "none" =>
    /\ Quad(aprs_buf, 9) = sent.lat91 /\ Quad(aprs_buf, 13) = sent.lon91
    /\ Pair(aprs_buf, 18) = sent.alt91
    /\ Pair(aprs_buf, 22) = IF from = "backlog" THEN 0 ELSE sent_id % SeqLimit
    /\ Pair(aprs_buf, 24) = sent.temperature_int + APRS_TLM_TEMP_OFFSET
    /\ Pair(aprs_buf, 26) = sent.voltage_bat /\ Pair(aprs_buf, 28) = sent.voltage_sol
    /\ \A k \in {1, 8, 9, 18, 21, 22, 31} : aprs_buf[k] = AprsTemplate[k]
    /\ \A k \in 1 .. 31 : aprs_buf[k] \in 33 .. 124
=============================================================================
