------------------------------ MODULE Sentence ------------------------------
(***************************************************************************)
(* The conversions of string.c and prepare_tx_buffer() of tlm.c: how a fix *)
(* is written into tx_buf as a telemetry sentence, in place, at offsets    *)
(* that depend on the lengths of the fields before.  Characters are ASCII  *)
(* codes, a buffer a function from positions to characters; its domain     *)
(* goes on behind tx_buf, as the writes of prepare_tx_buffer() may.        *)
(***************************************************************************)
EXTENDS Integers, Sequences

LOCAL INSTANCE SequencesExt

CONSTANTS TX_BUF_MAX_LENGTH

NEWLINE == 10
STAR    == 42
PLUS    == 43
COMMA   == 44
MINUS   == 45
DOT     == 46

----------------------------------------------------------------------------
(* string.c.                                                               *)

(* A number of 32 bits times ten, computed in halves: TLC's integers end   *)
(* where those of the code do.                                             *)
Times10(m) == LET low == (m % 65536) * 10
              IN  ((((m \div 65536) * 10 + (low \div 65536)) % 65536) * 65536)
                    + (low % 65536)

(* The values of mult; the tenth product no longer fits.                   *)
Mult[n \in 0 .. 10] == IF n = 0 THEN 1 ELSE Times10(Mult[n - 1])

i32toa(in, len) ==
  [k \in 1 .. len |-> 48 + ((in % Mult[len - k + 1]) \div Mult[len - k])]

(* Of at most four digits, so that no product overflows 16 bits.           *)
i16toa(in, len) ==
  [k \in 1 .. len |-> 48 + ((in % (10 ^ (len - k + 1))) \div (10 ^ (len - k)))]

(* A digit that is subtracted to nothing is kept once there was another.   *)
Digit(written, mult) ==
  [rest |-> written.rest % mult,
   out  |-> IF written.out # <<>> \/ written.rest >= mult
              THEN Append(written.out, 48 + (written.rest \div mult))
              ELSE <<>>]

Digits(in) ==
  Digit(Digit(Digit(Digit(Digit([rest |-> in, out |-> <<>>],
                                10000), 1000), 100), 10), 1).out

i16toav(in) == IF in = 0 THEN <<48>> ELSE Digits(in)

i16tox(x) == [k \in 1 .. 4 |-> LET nibble == (x \div (16 ^ (4 - k))) % 16
                               IN  IF nibble < 10 THEN 48 + nibble
                                   ELSE 65 + nibble - 10]

----------------------------------------------------------------------------
(* The layout, main.h:49-73, for a sentence id of s characters and an      *)
(* altitude of a.                                                          *)

Prefix == <<32, 32, 32, 36, 36, 36, 36, 48, 120, 49, 50, COMMA>>

SENT_ID_START           == 12
TIME_START(s)           == SENT_ID_START + s + 1
LAT_START(s)            == TIME_START(s) + 6 + 1
LON_START(s)            == LAT_START(s) + 9 + 1 + 1
ALT_START(s)            == LON_START(s) + 10 + 1 + 1
SAT_START(s, a)         == ALT_START(s) + a + 1
VOLT_START(s, a)        == SAT_START(s, a) + 2 + 1
VSOL_START(s, a)        == VOLT_START(s, a) + 4 + 1
TEMP_START(s, a)        == VSOL_START(s, a) + 4 + 1
CHECKSUM_START(s, a)    == TEMP_START(s, a) + 2 + 1 + 1
FRAME_END_Early(s, a)   == CHECKSUM_START(s, a) + 4   \* Mutant: no postfix
FRAME_END(s, a)         == CHECKSUM_START(s, a) + 4 + 2
CHECKSUM_BEGIN          == 7
CHECKSUM_END(s, a)      == CHECKSUM_START(s, a) - 1

(* tx_buf and the memory behind it.                                        *)
Memory == 0 .. TX_BUF_MAX_LENGTH + 9

(* init_tx_buffer().                                                       *)
Template == [k \in Memory |-> IF k < SENT_ID_START THEN Prefix[k + 1] ELSE 120]

Put(buf, at, chars) ==
  [k \in Memory |-> IF k \in at .. at + Len(chars) - 1 THEN chars[k - at + 1]
                    ELSE buf[k]]

(* Positions first to last move one up, the last one first.  Mutant: the   *)
(* first one first, which copies it over all of them.                      *)
MoveUp_Ascending(buf, first, last) ==
  [k \in Memory |-> IF k \in first .. last + 1 THEN buf[first] ELSE buf[k]]
MoveUp(buf, first, last) ==
  [k \in Memory |-> IF k \in first + 1 .. last + 1 THEN buf[k - 1] ELSE buf[k]]

Abs(v)  == IF v > 0 THEN v ELSE -v
Sign(v) == <<IF v > 0 THEN PLUS ELSE MINUS>>

(* A coordinate of so many digits; the last of them is moved over.         *)
PutCoordinate(buf, at, v, digits) ==
  LET dot     == at + digits - 6
      written == Put(buf, at, Sign(v) \o i32toa(Abs(v), digits))
      moved   == MoveUp(written, dot, at + digits - 1)
  IN  Put(Put(moved, dot, <<DOT>>), at + digits + 1, <<COMMA>>)

(* The CRC unit is hardware; any function of the characters will do.       *)
Crc(chars) == FoldLeft(LAMBDA crc, c : (crc * 31 + c) % 65536, 65535, chars)

Chars(buf, begin, end) == [k \in 1 .. end - begin |-> buf[begin + k - 1]]

IdLength(id)   == Len(i16toav(id))
AltLength(fix) == Len(i16toav(fix.alt))

(* prepare_tx_buffer(): what tx_buf holds after the call.                  *)
Prepared(buf, id, fix) ==
  LET s   == IdLength(id)
      a   == AltLength(fix)
      b1  == Put(buf, SENT_ID_START, Append(i16toav(id), COMMA))
      b2  == Put(b1, TIME_START(s), i16toa(fix.hour, 2) \o i16toa(fix.min, 2)
                                      \o Append(i16toa(fix.sec, 2), COMMA))
      b3  == PutCoordinate(b2, LAT_START(s), fix.lat, 9)
      b4  == PutCoordinate(b3, LON_START(s), fix.lon, 10)
      b5  == Put(b4, ALT_START(s), Append(i16toav(fix.alt), COMMA))
      b6  == Put(b5, SAT_START(s, a), Append(i16toa(fix.num_svs, 2), COMMA))
      b7  == Put(b6, VOLT_START(s, a), Append(i16toa(fix.voltage_bat, 4), COMMA))
      b8  == Put(b7, VSOL_START(s, a), Append(i16toa(fix.voltage_sol, 4), COMMA))
      b9  == Put(b8, TEMP_START(s, a),
                 <<IF fix.temperature_int < 0 THEN MINUS ELSE PLUS>>
                   \o Append(i16toa(Abs(fix.temperature_int), 2), STAR))
      crc == Crc(Chars(b9, CHECKSUM_BEGIN, CHECKSUM_END(s, a)))
  IN  Put(b9, CHECKSUM_START(s, a), i16tox(crc) \o <<NEWLINE, NEWLINE>>)

PreparedLength(id, fix) == FRAME_END(IdLength(id), AltLength(fix))

----------------------------------------------------------------------------
(* The sentence as a listener expects it, written from left to right: the  *)
(* fields that tlm.c:75-84 lists, in its order, and one it does not list,  *)
(* the voltage of the solar cell, which tlm.c:138-139 send before the      *)
(* temperature.  Every number has all of its digits here; the firmware     *)
(* has two for the temperature (main.h, TEMP_LENGTH).                      *)

NumberOf(n, width) == [k \in 1 .. width |-> 48 + ((n \div (10 ^ (width - k))) % 10)]
WidthOf(n) == CHOOSE w \in 1 .. 5 : n < 10 ^ w /\ (w > 1 => n >= 10 ^ (w - 1))

Coordinate(v, width) == Sign(v) \o NumberOf(Abs(v) \div 10000000, width) \o <<DOT>>
                          \o NumberOf((Abs(v) % 10000000) \div 10, 6)

CallSign == <<48, 120, 49, 50>>
With(line, field) == Append(line, COMMA) \o field

Body(id, fix) ==
  LET l1 == With(CallSign, NumberOf(id, WidthOf(id)))
      l2 == With(l1, NumberOf(fix.hour, 2) \o NumberOf(fix.min, 2)
                       \o NumberOf(fix.sec, 2))
      l3 == With(l2, Coordinate(fix.lat, 2))
      l4 == With(l3, Coordinate(fix.lon, 3))
      l5 == With(l4, NumberOf(fix.alt, WidthOf(fix.alt)))
      l6 == With(l5, NumberOf(fix.num_svs, 2))
      l7 == With(l6, NumberOf(fix.voltage_bat, 4))
      l8 == With(l7, NumberOf(fix.voltage_sol, 4))
  IN  With(l8, <<IF fix.temperature_int < 0 THEN MINUS ELSE PLUS>>
                 \o NumberOf(Abs(fix.temperature_int),
                             IF Abs(fix.temperature_int) < 100 THEN 2 ELSE 3))

ExpectedSentence(id, fix) ==
  SubSeq(Prefix, 1, 7) \o Body(id, fix) \o <<STAR>> \o i16tox(Crc(Body(id, fix)))
    \o <<NEWLINE, NEWLINE>>
=============================================================================
