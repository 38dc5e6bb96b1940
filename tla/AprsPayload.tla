---------------------------- MODULE AprsPayload -----------------------------
(***************************************************************************)
(* aprs_prepare_buffer() of aprs.c: the payload of an APRS frame, written  *)
(* into aprs_buf over the template it starts with, with base91 numbers.    *)
(* What the floating-point expressions for position and altitude evaluate  *)
(* to is given with the fix (lat91, lon91, alt91).                         *)
(***************************************************************************)
EXTENDS Integers, Sequences

CONSTANTS SeqLimit         \* 8281: the sequence number is taken modulo it

(* "/ddhhmmz/xxxxyyyyOaa1|ss001122|"                                       *)
AprsTemplate == <<47, 100, 100, 104, 104, 109, 109, 122, 47,
                  120, 120, 120, 120, 121, 121, 121, 121, 79, 97, 97, 49,
                  124, 115, 115, 48, 48, 49, 49, 50, 50, 124>>

base91_encode_tlm(value) ==
  <<33 + ((value % 8281) \div 91), 33 + ((value % 8281) % 91)>>

base91_encode_latlon(value) ==
  [k \in 1 .. 4 |-> 33 + (IF k = 1 THEN value \div (91 ^ 3)
                          ELSE (value \div (91 ^ (4 - k))) % 91)]

TwoDigits(n) == <<48 + ((n % 100) \div 10), 48 + (n % 10)>>

(* Positions of aprs_buf count from 0.                                     *)
Over(buf, at, chars) ==
  [k \in DOMAIN buf |-> IF k - 1 \in at .. at + Len(chars) - 1
                          THEN chars[k - at] ELSE buf[k]]

APRS_TLM_TEMP_OFFSET == 512

(* A fix that is no 3D fix leaves the buffer as it is.                     *)
AprsUsable(fix) == fix.type >= 3

(* aprs.c:106-111.  Mutant: a backlog frame is numbered like any other.    *)
NextSeqnum_Always(seqnum, backlog_fix) == (seqnum + 1) % SeqLimit
NextSeqnum(seqnum, backlog_fix) ==
  IF backlog_fix THEN seqnum ELSE (seqnum + 1) % SeqLimit
SeqField(seqnum, backlog_fix) ==
  IF backlog_fix THEN 0 ELSE NextSeqnum(seqnum, backlog_fix)

AprsPrepared(buf, fix, seq_tmp) ==
  LET b1 == Over(buf, 1, TwoDigits(fix.day) \o TwoDigits(fix.hour)
                           \o TwoDigits(fix.min))
      b2 == Over(b1, 9, base91_encode_latlon(fix.lat91))
      b3 == Over(b2, 13, base91_encode_latlon(fix.lon91))
      b4 == Over(b3, 18, base91_encode_tlm(fix.alt91))
      b5 == Over(b4, 22, base91_encode_tlm(seq_tmp))
      b6 == Over(b5, 24, base91_encode_tlm(fix.temperature_int + APRS_TLM_TEMP_OFFSET))
      b7 == Over(b6, 26, base91_encode_tlm(fix.voltage_bat))
  IN  Over(b7, 28, base91_encode_tlm(fix.voltage_sol))

----------------------------------------------------------------------------
(* What a receiver reads from a payload.                                   *)
Pair(buf, at) == 91 * (buf[at + 1] - 33) + buf[at + 2] - 33
Quad(buf, at) == 8281 * Pair(buf, at) + Pair(buf, at + 2)
=============================================================================
