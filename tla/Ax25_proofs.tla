---------------------------- MODULE Ax25_proofs ----------------------------
(***************************************************************************)
(* For every header, payload and FCS, and every number of flags: the       *)
(* generator reads inside its arrays, no receiver sees more than five ones *)
(* in a row inside a frame, and every receiver gets the frame as sent.     *)
(***************************************************************************)
EXTENDS Ax25Link, SequenceTheorems, TLAPS

USE Ax25Assumption

(* While the start flags go out, byte is what is left of a flag; after its *)
(* last bit, a zero, neither side is counting ones.                        *)
FlagLeft == [k \in 1 .. 8 |-> IF k + bitcnt <= 8 THEN AX25_FLAG[k + bitcnt] ELSE 0]

FlagPhase ==
  stuffing = 0 /\ aprs_state \in {"SFLAG", "AX25_HEADER"} =>
    /\ bitcnt \in 1 .. 8
    /\ byte = FlagLeft
    /\ rx_level = bit_d
    /\ bitcnt = 8 => rx_ones = 0 /\ onecnt = 0

(* Inside the frame the receiver has counted what the generator has,       *)
(* except that the generator forgets the fifth one: then its byte begins   *)
(* with the stuffed zero.                                                  *)
FramePhase ==
  stuffing = 1 =>
    /\ aprs_state \in {"AX25_HEADER", "AX25_DATA", "AX25_FCS1", "AX25_FCS2", "EFLAG"}
    /\ rx_level = bit_d
    /\ onecnt \in 0 .. 4
    /\ \/ rx_ones = onecnt
       \/ onecnt = 0 /\ rx_ones = 5 /\ byte[1] = 0 /\ bitcnt < 8

StartPhase == aprs_state = "SM_INIT" => stuffing = 0 /\ bitcnt = 8
FlagOnly   == aprs_state = "SFLAG" => stuffing = 0

FrameStuffed ==
  aprs_state \in {"AX25_DATA", "AX25_FCS1", "AX25_FCS2"} => stuffing = 1

LinkInv == LinkTypeOK /\ FrameStuffed /\ StartPhase /\ FlagOnly /\ FlagPhase /\ FramePhase

-----------------------------------------------------------------------------
(* The bytes get_next_byte() can return.                                   *)
LEMMA FlagIsByte == AX25_FLAG \in Byte
BY DEF AX25_FLAG, Byte

LEMMA ContentIsBytes ==
  ASSUME LinkTypeOK
  PROVE  /\ content.header \in Seq(Byte) /\ Len(content.header) \in Nat \ {0}
         /\ content.buf \in Seq(Byte) /\ Len(content.buf) \in Nat \ {0}
         /\ content.fcs[1] \in Byte /\ content.fcs[2] \in Byte
         /\ aprs_state = "AX25_HEADER" => content.header[i + 1] \in Byte
         /\ aprs_state = "AX25_DATA" => content.buf[i + 1] \in Byte
<1>1. /\ content.header \in Seq(Byte) /\ content.header # <<>>
      /\ content.buf \in Seq(Byte) /\ content.buf # <<>>
      /\ content.fcs \in Seq(Byte) /\ Len(content.fcs) = 2
  BY DEF LinkTypeOK
<1>2. Len(content.header) \in Nat \ {0} /\ Len(content.buf) \in Nat \ {0}
  BY <1>1
<1>3. content.fcs[1] \in Byte /\ content.fcs[2] \in Byte
  BY <1>1
<1>4. ASSUME aprs_state = "AX25_HEADER" PROVE content.header[i + 1] \in Byte
  <2>1. i + 1 \in 1 .. Len(content.header)
    BY <1>2, <1>4 DEF LinkTypeOK
  <2> QED BY <1>1, <2>1
<1>5. ASSUME aprs_state = "AX25_DATA" PROVE content.buf[i + 1] \in Byte
  <2>1. i + 1 \in 1 .. Len(content.buf)
    BY <1>2, <1>5 DEF LinkTypeOK
  <2> QED BY <1>1, <2>1
<1> QED BY <1>1, <1>2, <1>3, <1>4, <1>5

LEMMA ShiftedIsByte ==
  ASSUME NEW b \in Byte
  PROVE /\ b[1] \in {0, 1}
        /\ ShiftedByte(b) \in Byte
        /\ LowCleared(b) \in Byte /\ LowCleared(b)[1] = 0
BY DEF Byte, ShiftedByte, LowCleared

(* What the receiver makes of one level keeps its own state legal.         *)
LEMMA ReceiveTyped ==
  ASSUME rx_ones \in 0 .. 7, rx_level \in {0, 1}, rx_open \in BOOLEAN,
         bit_d' \in {0, 1}, Receive(bit_d')
  PROVE  /\ rx_level' = bit_d'
         /\ rx_ones' \in 0 .. 7
         /\ rx_open' \in BOOLEAN
         /\ bit_d' # rx_level => rx_ones' = 0
         /\ bit_d' = rx_level /\ rx_ones < 7 => rx_ones' = rx_ones + 1
<1>1. rx_open' \in BOOLEAN
  BY DEF Receive, One, Zero
<1>2. rx_level' = bit_d'
  BY DEF Receive
<1>3. bit_d' # rx_level => rx_ones' = 0
  BY DEF Receive, Zero
<1>4. bit_d' = rx_level => rx_ones' = IF rx_ones = 7 THEN 7 ELSE rx_ones + 1
  BY DEF Receive, One
<1> QED
  BY <1>1, <1>2, <1>3, <1>4

(* One bit of a byte b: the types; unstuffed, the byte is shifted and a    *)
(* zero clears both counts; stuffed, generator and receiver keep counting  *)
(* alike.                                                                  *)
LEMMA BitSent ==
  ASSUME LinkTypeOK, NEW b \in Byte, NEW cnt \in 0 .. 7,
         stuffing' \in {0, 1}, EmitBit(b, cnt), Receive(bit_d')
  PROVE  /\ byte' \in Byte /\ bitcnt' \in 0 .. 8 /\ onecnt' \in Nat
         /\ bit_d' \in {0, 1} /\ rx_level' = bit_d'
         /\ rx_ones' \in 0 .. 7 /\ rx_open' \in BOOLEAN
         /\ stuffing' = 0 => byte' = ShiftedByte(b) /\ bitcnt' = cnt + 1
         /\ stuffing' = 0 /\ rx_level = bit_d /\ b[1] = 0
              => rx_ones' = 0 /\ onecnt' = 0
         /\ /\ stuffing' = 1
            /\ rx_level = bit_d
            /\ onecnt \in 0 .. 4
            /\ rx_ones = onecnt \/ (onecnt = 0 /\ rx_ones = 5 /\ b[1] = 0)
            => /\ onecnt' \in 0 .. 4
               /\ \/ rx_ones' = onecnt'
                  \/ onecnt' = 0 /\ rx_ones' = 5 /\ byte'[1] = 0 /\ bitcnt' < 8
<1>0. /\ onecnt \in Nat /\ bit_d \in {0, 1} /\ rx_ones \in 0 .. 7
      /\ rx_level \in {0, 1} /\ rx_open \in BOOLEAN
  BY DEF LinkTypeOK
<1>1. /\ b[1] \in {0, 1} /\ ShiftedByte(b) \in Byte
      /\ LowCleared(b) \in Byte /\ LowCleared(b)[1] = 0
  BY ShiftedIsByte
<1>2. bit_d' = IF b[1] = 0 THEN 1 - bit_d ELSE bit_d
  BY DEF EmitBit
<1>3. bit_d' \in {0, 1} /\ (bit_d' = bit_d <=> b[1] = 1)
  BY <1>0, <1>1, <1>2
<1>4. /\ rx_level' = bit_d' /\ rx_ones' \in 0 .. 7 /\ rx_open' \in BOOLEAN
      /\ bit_d' # rx_level => rx_ones' = 0
      /\ bit_d' = rx_level /\ rx_ones < 7 => rx_ones' = rx_ones + 1
  BY <1>0, <1>3, ReceiveTyped
<1>5. CASE Stuffs(b)
  <2>1. /\ byte' = LowCleared(b) /\ onecnt' = 0 /\ bitcnt' = cnt
        /\ b[1] = 1 /\ stuffing' = 1 /\ onecnt + 1 >= 5
    BY <1>5 DEF EmitBit, Stuffs
  <2> QED BY <1>0, <1>1, <1>3, <1>4, <2>1
<1>6. CASE ~ Stuffs(b)
  <2>1. /\ byte' = ShiftedByte(b) /\ bitcnt' = cnt + 1
        /\ onecnt' = IF b[1] = 1 THEN onecnt + 1 ELSE 0
        /\ ~ (b[1] = 1 /\ stuffing' = 1 /\ onecnt + 1 >= 5)
    BY <1>6 DEF EmitBit, Stuffs
  <2> QED BY <1>0, <1>1, <1>3, <1>4, <2>1
<1> QED BY <1>5, <1>6

-----------------------------------------------------------------------------
(* The invariant holds at power-on, whatever the receiver has heard.       *)
LEMMA LinkInitInv == LinkInit => LinkInv
<1> SUFFICES ASSUME LinkInit PROVE LinkInv
  OBVIOUS
<1>1. LinkTypeOK
  <2>1. byte \in Byte
    BY DEF LinkInit, Init, Byte
  <2>2. rx_open \in BOOLEAN
    BY DEF LinkInit
  <2> QED BY <2>1, <2>2 DEF LinkInit, Init, LinkTypeOK, States
<1>2. StartPhase /\ FlagOnly /\ FlagPhase /\ FramePhase /\ FrameStuffed
  BY DEF LinkInit, Init, FrameStuffed, StartPhase, FlagOnly, FlagPhase, FramePhase
<1> QED BY <1>1, <1>2 DEF LinkInv

(* aprs_init() sets back all it has to: i, byte and bit_d may keep what    *)
(* the last frame left.                                                    *)
LEMMA NextFrameInv == ASSUME LinkInv, SendFrame PROVE LinkInv'
<1> USE DEF SendFrame, NextFrame, AprsInit, Listen
<1>1. LinkTypeOK'
  <2>1. rx_open' \in BOOLEAN
    OBVIOUS
  <2> QED BY <2>1 DEF LinkInv, LinkTypeOK, States
<1>2. StartPhase' /\ FlagOnly' /\ FlagPhase' /\ FramePhase' /\ FrameStuffed'
  BY DEF FrameStuffed, StartPhase, FlagOnly, FlagPhase, FramePhase
<1> QED BY <1>1, <1>2 DEF LinkInv

(* A bit out of the byte in hand.                                          *)
LEMMA SameByteInv ==
  ASSUME LinkInv, SameByte, Receive(bit_d'), UNCHANGED content
  PROVE  LinkInv'
<1> USE DEF LinkInv
<1>1. /\ bitcnt \in 0 .. 7 /\ byte \in Byte
      /\ aprs_state' = aprs_state /\ i' = i
      /\ stuffing' = stuffing /\ finished' = finished
      /\ EmitBit(byte, bitcnt) /\ content' = content
  BY DEF SameByte, LinkTypeOK
<1>2. stuffing' \in {0, 1}
  BY <1>1 DEF LinkTypeOK
<1>3. LinkTypeOK'
  BY <1>1, <1>2, BitSent DEF LinkTypeOK
<1>4. StartPhase' /\ FlagOnly' /\ FrameStuffed'
  BY <1>1 DEF StartPhase, FlagOnly, FrameStuffed
<1>5. FramePhase'
  BY <1>1, <1>2, BitSent DEF FramePhase
<1>6. FlagPhase'
  <2> SUFFICES ASSUME stuffing' = 0, aprs_state' \in {"SFLAG", "AX25_HEADER"}
               PROVE  /\ bitcnt' \in 1 .. 8 /\ byte' = FlagLeft'
                      /\ rx_level' = bit_d'
                      /\ bitcnt' = 8 => rx_ones' = 0 /\ onecnt' = 0
    BY DEF FlagPhase
  <2>1. bitcnt \in 1 .. 7 /\ byte = FlagLeft /\ rx_level = bit_d
    BY <1>1 DEF FlagPhase
  <2>2. byte' = ShiftedByte(byte) /\ bitcnt' = bitcnt + 1 /\ rx_level' = bit_d'
    BY <1>1, <1>2, BitSent
  <2>3. byte' = FlagLeft'
    BY <2>1, <2>2 DEF FlagLeft, ShiftedByte
  <2>4. bitcnt' = 8 => byte[1] = 0
    BY <2>1, <2>2 DEF FlagLeft, AX25_FLAG
  <2>5. bitcnt' = 8 => rx_ones' = 0 /\ onecnt' = 0
    BY <1>1, <1>2, <2>1, <2>4, BitSent
  <2> QED BY <2>1, <2>2, <2>3, <2>5
<1> QED BY <1>3, <1>4, <1>5, <1>6

(* The first bit of a flag leaves the rest of one.                         *)
LEMMA FlagStarts ==
  ASSUME byte' = ShiftedByte(AX25_FLAG), bitcnt' = 1
  PROVE  byte' = FlagLeft'
BY DEF FlagLeft, ShiftedByte, AX25_FLAG

(* The first bit of a start flag.                                          *)
LEMMA StartFlagInv ==
  ASSUME LinkInv, StartFlag, Receive(bit_d'), UNCHANGED content
  PROVE  LinkInv'
<1> USE DEF LinkInv
<1>1. /\ EmitBit(AX25_FLAG, 0) /\ content' = content /\ finished' = finished
      /\ aprs_state' \in {"SFLAG", "AX25_HEADER"}
      /\ aprs_state' = "AX25_HEADER" => i' = 0
      /\ i' \in Nat
      /\ stuffing' = 0
  BY DEF StartFlag, NextIndex, LinkTypeOK, FlagOnly
<1>2. /\ byte' = ShiftedByte(AX25_FLAG) /\ bitcnt' = 1 /\ rx_level' = bit_d'
      /\ byte' \in Byte /\ onecnt' \in Nat /\ bit_d' \in {0, 1}
      /\ rx_ones' \in 0 .. 7 /\ rx_open' \in BOOLEAN
  BY <1>1, FlagIsByte, BitSent
<1>3. LinkTypeOK'
  BY <1>1, <1>2, ContentIsBytes DEF LinkTypeOK, States
<1>4. FlagPhase'
  BY <1>2, FlagStarts DEF FlagPhase
<1>5. StartPhase' /\ FlagOnly' /\ FramePhase' /\ FrameStuffed'
  BY <1>1 DEF FrameStuffed, StartPhase, FlagOnly, FramePhase
<1> QED BY <1>3, <1>4, <1>5

(* Every byte inside the frame goes out with both sides counting alike.    *)
LEMMA FrameByteInv ==
  ASSUME LinkInv, NEW b \in Byte, bitcnt = 8, EmitBit(b, 0), Receive(bit_d'),
         stuffing' = 1,
         \/ stuffing = 1
         \/ stuffing = 0 /\ aprs_state = "AX25_HEADER",
         aprs_state' \in {"AX25_HEADER", "AX25_DATA", "AX25_FCS1", "AX25_FCS2",
                          "EFLAG"}
  PROVE  /\ FramePhase' /\ StartPhase' /\ FlagOnly' /\ FlagPhase'
         /\ byte' \in Byte /\ bitcnt' \in 0 .. 8 /\ onecnt' \in Nat
         /\ bit_d' \in {0, 1} /\ rx_level' = bit_d'
         /\ rx_ones' \in 0 .. 7 /\ rx_open' \in BOOLEAN
<1> USE DEF LinkInv
<1>1. /\ rx_level = bit_d /\ onecnt \in 0 .. 4
      /\ rx_ones = onecnt
  BY DEF FlagPhase, FramePhase
<1>2. FramePhase'
  BY <1>1, BitSent DEF FramePhase
<1>3. StartPhase' /\ FlagOnly' /\ FlagPhase'
  BY DEF StartPhase, FlagOnly, FlagPhase
<1>4. /\ byte' \in Byte /\ bitcnt' \in 0 .. 8 /\ onecnt' \in Nat
      /\ bit_d' \in {0, 1} /\ rx_level' = bit_d'
      /\ rx_ones' \in 0 .. 7 /\ rx_open' \in BOOLEAN
  BY BitSent
<1> QED BY <1>2, <1>3, <1>4

(* The bytes of the header, of the payload and of the FCS, which each read *)
(* inside their array and go on to the next at its end.                    *)
LEMMA HeaderByteInv ==
  ASSUME LinkInv, HeaderByte, Receive(bit_d'), UNCHANGED content
  PROVE  LinkInv'
<1> USE DEF LinkInv
<1>1. /\ bitcnt = 8 /\ aprs_state = "AX25_HEADER" /\ stuffing' = 1
      /\ content.header[i + 1] \in Byte /\ EmitBit(content.header[i + 1], 0)
      /\ aprs_state' \in {"AX25_HEADER", "AX25_DATA"}
      /\ content' = content /\ finished' = finished
      /\ stuffing = 1 \/ stuffing = 0
  BY ContentIsBytes DEF HeaderByte, LinkTypeOK
<1>2. /\ i' \in Nat
      /\ aprs_state' = "AX25_HEADER" => i' < Len(content.header)
      /\ aprs_state' = "AX25_DATA" => i' < Len(content.buf)
  BY ContentIsBytes DEF HeaderByte, NextIndex, LinkTypeOK
<1>3. /\ FramePhase' /\ StartPhase' /\ FlagOnly' /\ FlagPhase'
      /\ byte' \in Byte /\ bitcnt' \in 0 .. 8 /\ onecnt' \in Nat
      /\ bit_d' \in {0, 1} /\ rx_level' = bit_d'
      /\ rx_ones' \in 0 .. 7 /\ rx_open' \in BOOLEAN
  BY <1>1, FrameByteInv
<1>4. LinkTypeOK'
  BY <1>1, <1>2, <1>3 DEF LinkTypeOK, States
<1> QED BY <1>1, <1>3, <1>4 DEF FrameStuffed

LEMMA DataByteInv ==
  ASSUME LinkInv, DataByte, Receive(bit_d'), UNCHANGED content
  PROVE  LinkInv'
<1> USE DEF LinkInv
<1>1. /\ bitcnt = 8 /\ aprs_state = "AX25_DATA"
      /\ stuffing' = stuffing
      /\ content.buf[i + 1] \in Byte /\ EmitBit(content.buf[i + 1], 0)
      /\ aprs_state' \in {"AX25_DATA", "AX25_FCS1"}
      /\ content' = content /\ finished' = finished
  BY ContentIsBytes DEF DataByte, LinkTypeOK
<1>2. /\ i' \in Nat
      /\ aprs_state' = "AX25_DATA" => i' < Len(content.buf)
  BY ContentIsBytes DEF DataByte, NextIndex, LinkTypeOK
<1>3. stuffing = 1
  BY <1>1 DEF FrameStuffed, LinkTypeOK
<1>4. /\ FramePhase' /\ StartPhase' /\ FlagOnly' /\ FlagPhase'
      /\ byte' \in Byte /\ bitcnt' \in 0 .. 8 /\ onecnt' \in Nat
      /\ bit_d' \in {0, 1} /\ rx_level' = bit_d'
      /\ rx_ones' \in 0 .. 7 /\ rx_open' \in BOOLEAN
  BY <1>1, <1>3, FrameByteInv
<1>5. LinkTypeOK'
  BY <1>1, <1>2, <1>3, <1>4 DEF LinkTypeOK, States
<1> QED BY <1>1, <1>3, <1>4, <1>5 DEF FrameStuffed

LEMMA FcsByteInv ==
  ASSUME LinkInv, FcsByte, Receive(bit_d'), UNCHANGED content
  PROVE  LinkInv'
<1> USE DEF LinkInv
<1>1. /\ bitcnt = 8 /\ aprs_state \in {"AX25_FCS1", "AX25_FCS2"}
      /\ stuffing' = stuffing /\ i' = i
      /\ aprs_state' \in {"AX25_FCS2", "EFLAG"}
      /\ content' = content /\ finished' = finished
  BY DEF FcsByte, LinkTypeOK
<1>2. PICK b \in Byte : EmitBit(b, 0)
  BY ContentIsBytes DEF FcsByte
<1>3. stuffing = 1
  BY <1>1 DEF FrameStuffed, LinkTypeOK
<1>4. /\ FramePhase' /\ StartPhase' /\ FlagOnly' /\ FlagPhase'
      /\ byte' \in Byte /\ bitcnt' \in 0 .. 8 /\ onecnt' \in Nat
      /\ bit_d' \in {0, 1} /\ rx_level' = bit_d'
      /\ rx_ones' \in 0 .. 7 /\ rx_open' \in BOOLEAN
  BY <1>1, <1>2, <1>3, FrameByteInv
<1>5. LinkTypeOK'
  BY <1>1, <1>3, <1>4 DEF LinkTypeOK, States
<1> QED BY <1>1, <1>3, <1>4, <1>5 DEF FrameStuffed

(* An end flag: the frame is over.                                         *)
LEMMA EndFlagInv ==
  ASSUME LinkInv, EndFlag, Receive(bit_d'), UNCHANGED content
  PROVE  LinkInv'
<1> USE DEF LinkInv
<1>1. /\ aprs_state' = "EFLAG" /\ stuffing' = 0
      /\ i' \in Nat /\ finished' \in {0, 1} /\ content' = content
      /\ EmitBit(AX25_FLAG, 0)
  BY DEF EndFlag, LinkTypeOK
<1>2. /\ byte' \in Byte /\ bitcnt' \in 0 .. 8 /\ onecnt' \in Nat
      /\ bit_d' \in {0, 1} /\ rx_level' = bit_d'
      /\ rx_ones' \in 0 .. 7 /\ rx_open' \in BOOLEAN
  BY <1>1, FlagIsByte, BitSent
<1>3. LinkTypeOK'
  BY <1>1, <1>2 DEF LinkTypeOK, States
<1>4. StartPhase' /\ FlagOnly' /\ FlagPhase' /\ FramePhase' /\ FrameStuffed'
  BY <1>1 DEF StartPhase, FlagOnly, FlagPhase, FramePhase, FrameStuffed
<1> QED BY <1>3, <1>4

LEMMA StutterInv == ASSUME LinkInv, UNCHANGED linkVars PROVE LinkInv'
BY DEF LinkInv, LinkTypeOK, StartPhase, FlagOnly, FlagPhase, FlagLeft,
       FramePhase, FrameStuffed, linkVars, vars, rxVars

-----------------------------------------------------------------------------
LEMMA LinkStepInv == ASSUME LinkInv, [LinkNext]_linkVars PROVE LinkInv'
<1>1. CASE SendBit
  <2>1. Receive(bit_d') /\ UNCHANGED content
    BY <1>1 DEF SendBit, GetNextBit
  <2>2. SameByte \/ StartFlag \/ HeaderByte \/ DataByte \/ FcsByte \/ EndFlag
    BY <1>1 DEF SendBit, GetNextBit, GetNextByte
  <2> QED BY <2>1, <2>2, SameByteInv, StartFlagInv, HeaderByteInv, DataByteInv,
             FcsByteInv, EndFlagInv
<1>2. CASE SendFrame
  BY <1>2, NextFrameInv
<1>3. CASE UNCHANGED linkVars
  BY <1>3, StutterInv
<1> QED BY <1>1, <1>2, <1>3 DEF LinkNext

(* The invariant holds of every frame and every receiver.                  *)
THEOREM LinkInvariant == LinkSpec => []LinkInv
<1>1. LinkInit => LinkInv
  BY LinkInitInv
<1>2. LinkInv /\ [LinkNext]_linkVars => LinkInv'
  BY LinkStepInv
<1> QED BY <1>1, <1>2, PTL DEF LinkSpec

(* get_next_byte() reads inside the header and inside the payload, in      *)
(* every frame of every length, whatever i was left at by the last one     *)
(* (aprs.c:159-178).                                                       *)
THEOREM LinkTyped == LinkSpec => []LinkTypeOK
<1>1. LinkInv => LinkTypeOK
  BY DEF LinkInv
<1> QED BY <1>1, LinkInvariant, PTL

(* No header, payload or FCS, and nothing a receiver has heard before,     *)
(* makes it see more than five ones in a row inside a frame: the frame     *)
(* holds no flag and no abort (aprs.c:219).                                *)
THEOREM FramesAreTransparent == LinkSpec => []Transparent
<1>1. LinkInv => Transparent
  BY DEF LinkInv, FramePhase, Transparent
<1> QED BY <1>1, LinkInvariant, PTL

-----------------------------------------------------------------------------
(* What the receiver has heard.  Whole[n] is the n-th byte of the frame,   *)
(* Fetched the number of those get_next_byte() has returned.               *)
Whole == content.header \o content.buf \o content.fcs

Fetched == IF aprs_state = "AX25_HEADER" THEN i
           ELSE Len(content.header)
                + (IF aprs_state = "AX25_DATA" THEN i
                   ELSE Len(content.buf)
                        + (CASE aprs_state = "EFLAG"     -> 2
                             [] aprs_state = "AX25_FCS2" -> 1
                             [] OTHER                    -> 0))

HeardTyped == rx_bits \in Seq({0, 1}) /\ (~ rx_open => rx_bits = <<>>)

(* The first flag may begin with what the receiver hears as one more one:  *)
(* that flag is lost to it, but it has not begun a frame.                  *)
FirstFlag == aprs_state = "SFLAG" /\ i = 1

StartHeard ==
  stuffing = 0 /\ aprs_state \in {"SM_INIT", "SFLAG", "AX25_HEADER"} =>
    /\ rx_frame = <<>>
    /\ aprs_state = "SM_INIT" => ~ rx_open
    /\ aprs_state = "SFLAG" => i >= 1
    /\ aprs_state = "AX25_HEADER" => i = 0
    /\ aprs_state # "SM_INIT" /\ bitcnt < 8 =>
         /\ Len(rx_bits) <= bitcnt
         /\ rx_ones = bitcnt - 1 \/ (FirstFlag /\ rx_ones >= bitcnt /\ ~ rx_open)
    /\ aprs_state # "SM_INIT" /\ bitcnt = 8 =>
         rx_bits = <<>> /\ (FirstFlag \/ rx_open)

(* Inside the frame the receiver has the bits before the cnt-th of the     *)
(* n-th byte, and that one too when its stuffed zero is still to come; b   *)
(* is what is left of the byte.                                            *)
InFrame(n, b, cnt, ones, bits) ==
  /\ n \in 1 .. Len(Whole)
  /\ Len(bits) = 8 * (n - 1) + cnt + (IF ones = 5 THEN 1 ELSE 0)
  /\ \A k \in 1 .. Len(bits) : bits[k] = SentFrame[k]
  /\ \A k \in 1 .. 8 - cnt : (ones = 5 /\ k = 1) \/ b[k] = Whole[n][cnt + k]

FrameHeard ==
  stuffing = 1 =>
    /\ rx_open /\ rx_frame = <<>>
    /\ InFrame(Fetched, byte, bitcnt, rx_ones, rx_bits)
    /\ aprs_state \in {"AX25_FCS1", "AX25_FCS2", "EFLAG"} => i = 0

(* The first end flag closes the frame, the others close nothing.          *)
EndHeard ==
  stuffing = 0 /\ aprs_state = "EFLAG" /\ finished = 0 =>
    /\ rx_open /\ i >= 1
    /\ bitcnt \in 1 .. 8 /\ byte = FlagLeft /\ rx_level = bit_d
    /\ bitcnt = 8 => rx_ones = 0 /\ rx_bits = <<>> /\ rx_frame = SentFrame
    /\ bitcnt < 8 =>
         /\ rx_ones = bitcnt - 1
         /\ i = 1 => /\ rx_frame = <<>>
                     /\ Len(rx_bits) = 8 * Len(Whole) + bitcnt
                     /\ \A k \in 1 .. 8 * Len(Whole) : rx_bits[k] = SentFrame[k]
         /\ i >= 2 => rx_frame = SentFrame /\ Len(rx_bits) <= bitcnt

DoneHeard == finished = 1 => /\ aprs_state = "EFLAG" /\ stuffing = 0
                             /\ rx_frame = SentFrame

HeardInv == LinkInv /\ HeardTyped /\ StartHeard /\ FrameHeard /\ EndHeard /\ DoneHeard

-----------------------------------------------------------------------------
(* The bytes of a frame and their bits.                                    *)
LEMMA WholeIs ==
  ASSUME LinkTypeOK
  PROVE  /\ Whole \in Seq(Byte)
         /\ Len(Whole) = Len(content.header) + Len(content.buf) + 2
         /\ Len(Whole) \in Nat \ {0}
         /\ \A k \in 1 .. Len(content.header) : Whole[k] = content.header[k]
         /\ \A k \in 1 .. Len(content.buf) :
              Whole[Len(content.header) + k] = content.buf[k]
         /\ Whole[Len(content.header) + Len(content.buf) + 1] = content.fcs[1]
         /\ Whole[Len(content.header) + Len(content.buf) + 2] = content.fcs[2]
<1> DEFINE h == content.header
           b == content.buf
           f == content.fcs
<1>1. h \in Seq(Byte) /\ b \in Seq(Byte) /\ f \in Seq(Byte) /\ Len(f) = 2
  BY DEF LinkTypeOK
<1>2. Whole = (h \o b) \o f
  BY DEF Whole
<1> HIDE DEF h, b, f
<1>3. /\ h \o b \in Seq(Byte)
      /\ Len(h \o b) = Len(h) + Len(b)
      /\ \A k \in 1 .. Len(h) + Len(b) :
           (h \o b)[k] = IF k <= Len(h) THEN h[k] ELSE b[k - Len(h)]
  BY <1>1, ConcatProperties
<1>4. Len(h) \in Nat /\ Len(b) \in Nat
  BY <1>1, LenProperties
<1> DEFINE hb == h \o b
<1> HIDE DEF hb
<1>5. /\ hb \o f \in Seq(Byte)
      /\ Len(hb \o f) = Len(hb) + Len(f)
      /\ \A k \in 1 .. Len(hb) + Len(f) :
           (hb \o f)[k] = IF k <= Len(hb) THEN hb[k] ELSE f[k - Len(hb)]
  <2>1. hb \in Seq(Byte)
    BY <1>3 DEF hb
  <2> QED BY <1>1, <2>1, ConcatProperties
<1>6. Len(hb) = Len(h) + Len(b)
  BY <1>3 DEF hb
<1>7. Whole \in Seq(Byte) /\ Len(Whole) = Len(h) + Len(b) + 2
  BY <1>1, <1>2, <1>4, <1>5, <1>6 DEF hb
<1>8. \A k \in 1 .. Len(h) : Whole[k] = h[k]
  <2> TAKE k \in 1 .. Len(h)
  <2>1. Whole[k] = hb[k]
    BY <1>1, <1>2, <1>4, <1>5, <1>6 DEF hb
  <2>2. hb[k] = h[k]
    BY <1>3, <1>4 DEF hb
  <2> QED BY <2>1, <2>2
<1>9. \A k \in 1 .. Len(b) : Whole[Len(h) + k] = b[k]
  <2> TAKE k \in 1 .. Len(b)
  <2>1. Whole[Len(h) + k] = hb[Len(h) + k]
    BY <1>1, <1>2, <1>4, <1>5, <1>6 DEF hb
  <2>2. hb[Len(h) + k] = b[k]
    BY <1>3, <1>4 DEF hb
  <2> QED BY <2>1, <2>2
<1>10. /\ Whole[Len(h) + Len(b) + 1] = f[1]
       /\ Whole[Len(h) + Len(b) + 2] = f[2]
  BY <1>1, <1>2, <1>4, <1>5, <1>6 DEF hb
<1>11. Len(Whole) \in Nat \ {0}
  BY <1>4, <1>7
<1> QED BY <1>7, <1>8, <1>9, <1>10, <1>11 DEF h, b, f

LEMMA SentIs ==
  ASSUME LinkTypeOK
  PROVE  /\ SentFrame \in Seq({0, 1})
         /\ Len(SentFrame) = 8 * Len(Whole)
         /\ \A n \in 1 .. Len(Whole) : \A j \in 1 .. 8 :
              SentFrame[8 * (n - 1) + j] = Whole[n][j]
<1>1. Whole \in Seq(Byte)
  BY WholeIs
<1>2. Len(Whole) \in Nat
  BY <1>1, LenProperties
<1>3. SentFrame = [k \in 1 .. 8 * Len(Whole) |->
                     Whole[((k - 1) \div 8) + 1][((k - 1) % 8) + 1]]
  BY DEF SentFrame, BitsOf, Whole
<1>4. ASSUME NEW k \in 1 .. 8 * Len(Whole)
      PROVE  Whole[((k - 1) \div 8) + 1][((k - 1) % 8) + 1] \in {0, 1}
  <2>1. ((k - 1) \div 8) + 1 \in 1 .. Len(Whole) /\ ((k - 1) % 8) + 1 \in 1 .. 8
    BY <1>2
  <2>2. Whole[((k - 1) \div 8) + 1] \in Byte
    BY <1>1, <2>1, ElementOfSeq
  <2> QED BY <2>1, <2>2 DEF Byte
<1>5. SentFrame \in [1 .. 8 * Len(Whole) -> {0, 1}]
  BY <1>3, <1>4
<1>6. 8 * Len(Whole) \in Nat
  BY <1>2
<1>7. SentFrame \in Seq({0, 1}) /\ Len(SentFrame) = 8 * Len(Whole)
  BY <1>5, <1>6
<1>8. ASSUME NEW n \in 1 .. Len(Whole), NEW j \in 1 .. 8
      PROVE  SentFrame[8 * (n - 1) + j] = Whole[n][j]
  <2>1. 8 * (n - 1) + j \in 1 .. 8 * Len(Whole)
    BY <1>2
  <2>2. ((8 * (n - 1) + j - 1) \div 8) + 1 = n
    BY <1>2
  <2>3. ((8 * (n - 1) + j - 1) % 8) + 1 = j
    BY <1>2
  <2> QED BY <1>3, <2>1, <2>2, <2>3
<1> QED BY <1>7, <1>8

(* A zero is a change of level, a one none, as long as receiver and        *)
(* generator agree on the last level.                                      *)
LEMMA BitHeard ==
  ASSUME NEW b, NEW cnt, b[1] \in {0, 1}, bit_d \in {0, 1}, rx_level = bit_d,
         EmitBit(b, cnt), Receive(bit_d')
  PROVE  /\ b[1] = 1 => One
         /\ b[1] = 0 => Zero
<1>1. bit_d' = IF b[1] = 0 THEN 1 - bit_d ELSE bit_d
  BY DEF EmitBit
<1>2. IF bit_d' = rx_level THEN One ELSE Zero
  BY DEF Receive
<1> QED BY <1>1, <1>2

(* Whatever it hears, the receiver keeps bits, and none before a flag.     *)
LEMMA HearingTyped ==
  ASSUME HeardTyped, rx_open \in BOOLEAN, NEW level, Receive(level)
  PROVE  HeardTyped'
<1>1. CASE One
  <2>1. rx_bits' = IF rx_open' THEN Append(rx_bits, 1) ELSE <<>>
    BY <1>1 DEF One
  <2>2. Append(rx_bits, 1) \in Seq({0, 1})
    BY DEF HeardTyped
  <2> QED BY <2>1, <2>2 DEF HeardTyped
<1>2. CASE Zero
  <2>1. Append(rx_bits, 0) \in Seq({0, 1})
    BY DEF HeardTyped
  <2>2. CASE rx_ones = 6
    BY <1>2, <2>2 DEF HeardTyped, Zero
  <2>3. CASE rx_ones # 6
    BY <1>2, <2>1, <2>3 DEF HeardTyped, Zero
  <2> QED BY <2>2, <2>3
<1> QED BY <1>1, <1>2 DEF Receive

LEMMA SameContent ==
  content' = content => Whole' = Whole /\ SentFrame' = SentFrame
BY DEF Whole, SentFrame, BitsOf

(* What is left of a byte is what it was, from its next bit on.            *)
LEMMA ByteLeft ==
  ASSUME NEW b \in Byte
  PROVE  /\ \A k \in 1 .. 7 : ShiftedByte(b)[k] = b[k + 1]
         /\ \A k \in 2 .. 8 : LowCleared(b)[k] = b[k]
BY DEF ShiftedByte, LowCleared, Byte

(* One bit of the frame: the receiver has it, once, and no stuffed zero.   *)
LEMMA FrameBit ==
  ASSUME LinkTypeOK, HeardTyped, NEW n \in Int, NEW b \in Byte, NEW cnt \in 0 .. 7,
         stuffing' = 1, rx_level = bit_d, rx_open, onecnt \in 0 .. 4,
         rx_ones = onecnt \/ (onecnt = 0 /\ rx_ones = 5 /\ b[1] = 0),
         InFrame(n, b, cnt, rx_ones, rx_bits),
         EmitBit(b, cnt), Receive(bit_d')
  PROVE  /\ rx_open' /\ rx_frame' = rx_frame
         /\ InFrame(n, byte', bitcnt', rx_ones', rx_bits')
<1>1. /\ n \in 1 .. Len(Whole)
      /\ Len(rx_bits) = 8 * (n - 1) + cnt + (IF rx_ones = 5 THEN 1 ELSE 0)
      /\ \A k \in 1 .. Len(rx_bits) : rx_bits[k] = SentFrame[k]
      /\ \A k \in 1 .. 8 - cnt : (rx_ones = 5 /\ k = 1) \/ b[k] = Whole[n][cnt + k]
  BY DEF InFrame
<1>2. b[1] \in {0, 1} /\ bit_d \in {0, 1} /\ rx_ones \in 0 .. 5
  <2>1. b[1] \in {0, 1}
    BY ShiftedIsByte
  <2>2. bit_d \in {0, 1}
    BY DEF LinkTypeOK
  <2>3. rx_ones \in 0 .. 5
    OBVIOUS
  <2> QED BY <2>1, <2>2, <2>3
<1>3. /\ b[1] = 1 => One
      /\ b[1] = 0 => Zero
  BY <1>2, BitHeard
<1>4. rx_ones # 5 => SentFrame[8 * (n - 1) + cnt + 1] = b[1]
  <2> SUFFICES ASSUME rx_ones # 5
               PROVE  SentFrame[8 * (n - 1) + cnt + 1] = b[1]
    OBVIOUS
  <2>1. Whole[n][cnt + 1] = b[1]
    BY <1>1
  <2>2. cnt + 1 \in 1 .. 8
    OBVIOUS
  <2>3. SentFrame[8 * (n - 1) + (cnt + 1)] = Whole[n][cnt + 1]
    BY <1>1, <2>2, SentIs
  <2>4. 8 * (n - 1) + (cnt + 1) = 8 * (n - 1) + cnt + 1
    OBVIOUS
  <2> QED BY <2>1, <2>3, <2>4
<1>5. rx_bits \in Seq({0, 1})
  BY DEF HeardTyped
<1>6. ASSUME rx_ones # 5, rx_bits' = Append(rx_bits, b[1])
      PROVE  /\ Len(rx_bits') = 8 * (n - 1) + cnt + 1
             /\ \A k \in 1 .. Len(rx_bits') : rx_bits'[k] = SentFrame[k]
  <2>1. Len(rx_bits') = Len(rx_bits) + 1
    BY <1>5, <1>6
  <2>2. Len(rx_bits) = 8 * (n - 1) + cnt /\ Len(rx_bits) \in Nat
    BY <1>1, <1>5, <1>6
  <2>3. \A k \in 1 .. Len(rx_bits) : rx_bits'[k] = rx_bits[k]
    BY <1>5, <1>6
  <2>4. rx_bits'[Len(rx_bits) + 1] = b[1]
    BY <1>5, <1>6
  <2>5. Len(rx_bits') = 8 * (n - 1) + cnt + 1
    BY <2>1, <2>2
  <2>6. ASSUME NEW k \in 1 .. Len(rx_bits') PROVE rx_bits'[k] = SentFrame[k]
    <3>1. CASE k \in 1 .. Len(rx_bits)
      BY <1>1, <2>3, <3>1
    <3>2. CASE k = Len(rx_bits) + 1
      <4>1. SentFrame[Len(rx_bits) + 1] = b[1]
        BY <1>4, <1>6, <2>2
      <4> QED BY <2>4, <3>2, <4>1
    <3> QED BY <2>1, <2>2, <3>1, <3>2
  <2> QED BY <2>5, <2>6
<1>7. /\ \A k \in 1 .. 7 : ShiftedByte(b)[k] = b[k + 1]
      /\ \A k \in 2 .. 8 : LowCleared(b)[k] = b[k]
  BY ByteLeft
<1>8. ASSUME byte' = ShiftedByte(b), bitcnt' = cnt + 1
      PROVE  \A k \in 1 .. 8 - bitcnt' : byte'[k] = Whole[n][bitcnt' + k]
  <2> TAKE k \in 1 .. 8 - bitcnt'
  <2>1. byte'[k] = b[k + 1]
    BY <1>7, <1>8
  <2>2. b[k + 1] = Whole[n][cnt + (k + 1)]
    BY <1>1, <1>8
  <2>3. cnt + (k + 1) = bitcnt' + k
    BY <1>8
  <2> QED BY <2>1, <2>2, <2>3
<1>9. CASE b[1] = 1
  <2>1. rx_ones = onecnt /\ rx_ones \in 0 .. 4
    BY <1>9
  <2>2. /\ rx_ones' = rx_ones + 1
        /\ rx_open' /\ rx_bits' = Append(rx_bits, 1) /\ rx_frame' = rx_frame
    <3>1. rx_ones' = rx_ones + 1
      BY <1>3, <1>9, <2>1 DEF One
    <3>2. rx_ones < 6 /\ One
      BY <1>3, <1>9, <2>1
    <3>3. rx_open' = (rx_open /\ rx_ones < 6)
      BY <3>2 DEF One
    <3>4. rx_open'
      BY <3>2, <3>3
    <3>5. rx_bits' = Append(rx_bits, 1) /\ rx_frame' = rx_frame
      BY <3>2, <3>4 DEF One
    <3> QED BY <3>1, <3>4, <3>5
  <2>3. /\ Len(rx_bits') = 8 * (n - 1) + cnt + 1
        /\ \A k \in 1 .. Len(rx_bits') : rx_bits'[k] = SentFrame[k]
    <3>1. rx_ones # 5 /\ rx_bits' = Append(rx_bits, b[1])
      BY <1>9, <2>1, <2>2
    <3> QED BY <1>6, <3>1
  <2>4. CASE Stuffs(b)
    <3>1. byte' = LowCleared(b) /\ bitcnt' = cnt /\ rx_ones' = 5
      BY <2>1, <2>2, <2>4 DEF EmitBit, Stuffs
    <3>2. \A k \in 1 .. 8 - bitcnt' : k = 1 \/ byte'[k] = Whole[n][bitcnt' + k]
      <4> TAKE k \in 1 .. 8 - bitcnt'
      <4>1. k = 1 \/ b[k] = Whole[n][cnt + k]
        BY <1>1, <2>1, <3>1
      <4>2. k = 1 \/ byte'[k] = b[k]
        BY <1>7, <3>1
      <4> QED BY <3>1, <4>1, <4>2
    <3> QED BY <1>1, <2>2, <2>3, <3>1, <3>2 DEF InFrame
  <2>5. CASE ~ Stuffs(b)
    <3>1. byte' = ShiftedByte(b) /\ bitcnt' = cnt + 1 /\ rx_ones' # 5
      BY <1>9, <2>1, <2>2, <2>5 DEF EmitBit, Stuffs
    <3>2. Len(rx_bits') = 8 * (n - 1) + bitcnt'
      BY <1>1, <2>3, <3>1
    <3> QED BY <1>1, <1>8, <2>2, <2>3, <3>1, <3>2 DEF InFrame
  <2> QED BY <2>4, <2>5
<1>10. CASE b[1] = 0
  <2>1. byte' = ShiftedByte(b) /\ bitcnt' = cnt + 1
    BY <1>10 DEF EmitBit, Stuffs
  <2>2. /\ rx_ones' = 0
        /\ rx_open' /\ rx_frame' = rx_frame
        /\ rx_bits' = IF rx_ones # 5 THEN Append(rx_bits, 0) ELSE rx_bits
    <3>1. Zero /\ rx_ones # 6
      BY <1>2, <1>3, <1>10
    <3>2. /\ rx_ones' = 0
          /\ rx_bits' = IF rx_open /\ rx_ones # 5
                         THEN Append(rx_bits, 0) ELSE rx_bits
          /\ rx_open' = rx_open /\ rx_frame' = rx_frame
      BY <3>1 DEF Zero
    <3> QED BY <3>2
  <2>3. CASE rx_ones = 5
    <3>1. Len(rx_bits') = 8 * (n - 1) + bitcnt'
      BY <1>1, <2>1, <2>2, <2>3
    <3>2. \A k \in 1 .. Len(rx_bits') : rx_bits'[k] = SentFrame[k]
      BY <1>1, <2>2, <2>3
    <3> QED BY <1>1, <1>8, <2>1, <2>2, <3>1, <3>2 DEF InFrame
  <2>4. CASE rx_ones # 5
    <3>1. rx_bits' = Append(rx_bits, b[1])
      BY <1>10, <2>2, <2>4
    <3>2. /\ Len(rx_bits') = 8 * (n - 1) + cnt + 1
          /\ \A k \in 1 .. Len(rx_bits') : rx_bits'[k] = SentFrame[k]
      BY <1>6, <2>4, <3>1
    <3>3. Len(rx_bits') = 8 * (n - 1) + bitcnt'
      BY <1>1, <2>1, <3>2
    <3> QED BY <1>1, <1>8, <2>1, <2>2, <3>2, <3>3 DEF InFrame
  <2> QED BY <2>3, <2>4
<1> QED BY <1>2, <1>9, <1>10

-----------------------------------------------------------------------------
(* Flags, as the receiver hears them.                                      *)
LEMMA FlagBitLeft ==
  ASSUME byte = FlagLeft, bitcnt \in 1 .. 7
  PROVE  byte[1] = IF bitcnt = 7 THEN 0 ELSE 1
BY DEF FlagLeft, AX25_FLAG

LEMMA OneHeard ==
  ASSUME HeardTyped, rx_open \in BOOLEAN, rx_ones \in 0 .. 7, One
  PROVE  /\ rx_frame' = rx_frame
         /\ rx_ones < 6 => rx_ones' = rx_ones + 1 /\ (rx_open' <=> rx_open)
         /\ rx_ones >= 6 => rx_ones' = 7 /\ ~ rx_open'
         /\ ~ rx_open => ~ rx_open'
         /\ rx_open' => rx_bits' = Append(rx_bits, 1)
         /\ ~ rx_open' => rx_bits' = <<>>
         /\ Len(rx_bits') <= Len(rx_bits) + 1
<1>1. /\ rx_ones' = IF rx_ones = 7 THEN 7 ELSE rx_ones + 1
      /\ rx_frame' = rx_frame
  BY DEF One
<1>2. rx_open' = (rx_open /\ rx_ones < 6)
  BY DEF One
<1>3. rx_bits' = IF rx_open' THEN Append(rx_bits, 1) ELSE <<>>
  BY DEF One
<1>4. rx_open' => rx_bits' = Append(rx_bits, 1)
  BY <1>3
<1>5. ~ rx_open' => rx_bits' = <<>>
  BY <1>3
<1>6. Len(Append(rx_bits, 1)) = Len(rx_bits) + 1 /\ Len(rx_bits) \in Nat
  BY DEF HeardTyped
<1>7. Len(rx_bits') <= Len(rx_bits) + 1
  BY <1>4, <1>5, <1>6
<1>8. /\ rx_ones < 6 => (rx_open' <=> rx_open)
      /\ rx_ones >= 6 => ~ rx_open'
      /\ ~ rx_open => ~ rx_open'
  <2>1. rx_ones >= 6 <=> ~ (rx_ones < 6)
    OBVIOUS
  <2> QED BY <1>2, <2>1, Zenon
<1>9. /\ rx_ones < 6 => rx_ones' = rx_ones + 1
      /\ rx_ones >= 6 => rx_ones' = 7
  BY <1>1
<1> QED BY <1>1, <1>4, <1>5, <1>7, <1>8, <1>9

(* The zero after a flag's ones closes what was open; one inside a byte    *)
(* does not.                                                               *)
LEMMA ZeroHeard ==
  ASSUME HeardTyped, rx_open \in BOOLEAN, rx_ones \in 0 .. 7, Zero
  PROVE  /\ rx_ones' = 0
         /\ rx_ones = 6 => /\ rx_open' /\ rx_bits' = <<>>
                           /\ rx_frame' = IF rx_open /\ Len(rx_bits) > 7
                                            THEN SubSeq(rx_bits, 1, Len(rx_bits) - 7)
                                            ELSE rx_frame
         /\ rx_ones # 6 => /\ rx_frame' = rx_frame /\ (rx_open' <=> rx_open)
                           /\ ~ rx_open => rx_bits' = <<>>
                           /\ rx_open /\ rx_ones # 5 => rx_bits' = Append(rx_bits, 0)
         /\ Len(rx_bits') <= Len(rx_bits) + 1
<1>1. rx_ones' = 0
  BY DEF Zero
<1>2. ASSUME rx_ones = 6
      PROVE  /\ rx_open' /\ rx_bits' = <<>>
             /\ rx_frame' = IF rx_open /\ Len(rx_bits) > 7
                              THEN SubSeq(rx_bits, 1, Len(rx_bits) - 7)
                              ELSE rx_frame
  BY <1>2 DEF Zero
<1>3. ASSUME rx_ones # 6
      PROVE  /\ rx_frame' = rx_frame /\ (rx_open' <=> rx_open)
             /\ ~ rx_open => rx_bits' = <<>>
             /\ rx_open /\ rx_ones # 5 => rx_bits' = Append(rx_bits, 0)
  <2>1. /\ rx_bits' = IF rx_open /\ rx_ones # 5 THEN Append(rx_bits, 0) ELSE rx_bits
        /\ rx_open' = rx_open /\ rx_frame' = rx_frame
    BY <1>3 DEF Zero
  <2>2. ~ rx_open => rx_bits = <<>>
    BY DEF HeardTyped
  <2> QED BY <2>1, <2>2
<1>4. Len(rx_bits') <= Len(rx_bits) + 1
  <2>1. /\ Len(Append(rx_bits, 0)) = Len(rx_bits) + 1 /\ Len(rx_bits) \in Nat
        /\ Len(<<>>) = 0
    BY DEF HeardTyped
  <2>2. rx_bits' \in {<<>>, rx_bits, Append(rx_bits, 0)}
    BY DEF Zero
  <2> QED BY <2>1, <2>2
<1> QED BY <1>1, <1>2, <1>3, <1>4

-----------------------------------------------------------------------------
LEMMA HeardInit == LinkInit => HeardInv
<1> SUFFICES ASSUME LinkInit PROVE HeardInv
  OBVIOUS
<1>1. LinkInv
  BY LinkInitInv
<1>2. /\ aprs_state = "SM_INIT" /\ finished = 0 /\ stuffing = 0
      /\ rx_bits = <<>> /\ ~ rx_open /\ rx_frame = <<>>
  BY DEF LinkInit, Init
<1>3. HeardTyped
  BY <1>2 DEF HeardTyped
<1>4. StartHeard /\ FrameHeard /\ EndHeard /\ DoneHeard
  BY <1>2 DEF StartHeard, FrameHeard, EndHeard, DoneHeard
<1> QED BY <1>1, <1>3, <1>4 DEF HeardInv

LEMMA HeardNextFrame == ASSUME HeardInv, SendFrame PROVE HeardInv'
<1>1. LinkInv'
  BY NextFrameInv DEF HeardInv
<1>2. /\ aprs_state' = "SM_INIT" /\ finished' = 0 /\ stuffing' = 0
      /\ rx_bits' = <<>> /\ ~ rx_open' /\ rx_frame' = <<>>
  BY DEF SendFrame, NextFrame, AprsInit, Listen
<1>3. HeardTyped'
  BY <1>2 DEF HeardTyped
<1>4. StartHeard' /\ FrameHeard' /\ EndHeard' /\ DoneHeard'
  BY <1>2 DEF StartHeard, FrameHeard, EndHeard, DoneHeard
<1> QED BY <1>1, <1>3, <1>4 DEF HeardInv

(* The first bit of a start flag: of the first, for which the receiver's   *)
(* level may be the other one, or of a later one.                          *)
LEMMA HeardStartFlag ==
  ASSUME HeardInv, StartFlag, Receive(bit_d'), UNCHANGED content, finished = 0
  PROVE  HeardInv'
<1> USE DEF HeardInv
<1>0. LinkTypeOK /\ rx_open \in BOOLEAN /\ rx_ones \in 0 .. 7
  BY DEF LinkInv, LinkTypeOK
<1>1. LinkInv' /\ HeardTyped'
  BY <1>0, StartFlagInv, HearingTyped
<1>2. /\ EmitBit(AX25_FLAG, 0) /\ finished' = 0 /\ stuffing' = 0
      /\ aprs_state \in {"SM_INIT", "SFLAG"} /\ bitcnt = 8
      /\ aprs_state' \in {"SFLAG", "AX25_HEADER"}
  BY <1>0 DEF StartFlag, LinkInv, FlagOnly, LinkTypeOK
<1>3. bitcnt' = 1 /\ AX25_FLAG[1] = 0 /\ stuffing = 0
  <2>1. bitcnt' = 0 + 1
    BY <1>0, <1>2, FlagIsByte, BitSent
  <2>2. stuffing = 0
    BY <1>2 DEF LinkInv, StartPhase, FlagOnly
  <2> QED BY <2>1, <2>2 DEF AX25_FLAG
<1>4. FrameHeard' /\ EndHeard' /\ DoneHeard'
  BY <1>2 DEF FrameHeard, EndHeard, DoneHeard
<1>5. CASE aprs_state = "SM_INIT"
  <2>1. rx_frame = <<>> /\ ~ rx_open /\ rx_bits = <<>>
    BY <1>3, <1>5 DEF StartHeard, HeardTyped
  <2>2. aprs_state' = "SFLAG" /\ i' = 1
    BY <1>5, LinkAssumption DEF StartFlag, NextIndex
  <2>3. CASE One
    <3>1. rx_frame' = <<>> /\ ~ rx_open' /\ rx_bits' = <<>>
      BY <1>0, <2>1, <2>3, OneHeard
    <3>2. rx_ones' >= 1
      BY <1>0, <2>3, OneHeard
    <3> QED BY <1>1, <1>2, <1>3, <1>4, <2>2, <3>1, <3>2 DEF StartHeard, FirstFlag
  <2>4. CASE Zero
    <3>1. rx_frame' = <<>> /\ rx_bits' = <<>> /\ rx_ones' = 0
      BY <1>0, <2>1, <2>4, ZeroHeard
    <3> QED BY <1>1, <1>2, <1>3, <1>4, <2>2, <3>1 DEF StartHeard, FirstFlag
  <2> QED BY <2>3, <2>4 DEF Receive
<1>6. CASE aprs_state = "SFLAG"
  <2>1. rx_frame = <<>> /\ rx_bits = <<>> /\ i \in Nat
    BY <1>0, <1>2, <1>3, <1>6 DEF StartHeard, LinkTypeOK
  <2>2. rx_level = bit_d /\ bit_d \in {0, 1} /\ rx_ones = 0
    BY <1>0, <1>2, <1>3, <1>6 DEF LinkInv, FlagPhase, LinkTypeOK
  <2>3. Zero
    BY <1>2, <1>3, <2>2, BitHeard
  <2>4. rx_frame' = <<>> /\ rx_ones' = 0
    BY <1>0, <2>1, <2>2, <2>3, ZeroHeard
  <2>5. Len(rx_bits') <= 1
    <3>1. Len(rx_bits') <= Len(rx_bits) + 1
      BY <1>0, <2>3, ZeroHeard
    <3> QED BY <2>1, <3>1
  <2>6. /\ aprs_state' = "SFLAG" => i' >= 1
        /\ aprs_state' = "AX25_HEADER" => i' = 0
    BY <1>6, <2>1 DEF StartFlag, NextIndex
  <2> QED BY <1>1, <1>2, <1>3, <1>4, <2>4, <2>5, <2>6 DEF StartHeard
<1> QED BY <1>2, <1>5, <1>6

(* A later bit of a start flag: its zero closes no frame, since none has   *)
(* begun.                                                                  *)
LEMMA StartBitHeard ==
  ASSUME HeardInv, SameByte, Receive(bit_d'), UNCHANGED content,
         stuffing = 0, aprs_state \in {"SM_INIT", "SFLAG", "AX25_HEADER"}
  PROVE  StartHeard'
<1> USE DEF HeardInv
<1>0. LinkTypeOK /\ rx_open \in BOOLEAN /\ rx_ones \in 0 .. 7
  BY DEF LinkInv, LinkTypeOK
<1>1. /\ bitcnt \in 0 .. 7 /\ EmitBit(byte, bitcnt) /\ byte \in Byte
      /\ aprs_state' = aprs_state /\ i' = i /\ stuffing' = 0
  BY <1>0 DEF SameByte, LinkTypeOK
<1>2. aprs_state # "SM_INIT"
  BY <1>1 DEF LinkInv, StartPhase
<1>3. /\ bitcnt \in 1 .. 7 /\ byte = FlagLeft /\ rx_level = bit_d
      /\ bit_d \in {0, 1}
  BY <1>0, <1>1, <1>2 DEF LinkInv, FlagPhase, LinkTypeOK
<1>4. /\ rx_frame = <<>> /\ Len(rx_bits) <= bitcnt
      /\ rx_ones = bitcnt - 1 \/ (FirstFlag /\ rx_ones >= bitcnt /\ ~ rx_open)
      /\ aprs_state = "SFLAG" => i >= 1
      /\ aprs_state = "AX25_HEADER" => i = 0
  BY <1>2, <1>3 DEF StartHeard
<1>5. bitcnt' = bitcnt + 1 /\ FirstFlag' = FirstFlag
  BY <1>0, <1>1, BitSent DEF FirstFlag
<1>6. byte[1] = IF bitcnt = 7 THEN 0 ELSE 1
  BY <1>3, FlagBitLeft
<1>7. Len(rx_bits) \in Nat
  BY DEF HeardTyped
<1>8. CASE bitcnt < 7
  <2>1. One
    BY <1>1, <1>3, <1>6, <1>8, BitHeard
  <2>2. rx_frame' = <<>> /\ Len(rx_bits') <= bitcnt'
    <3>1. rx_frame' = rx_frame /\ Len(rx_bits') <= Len(rx_bits) + 1
      BY <1>0, <2>1, OneHeard
    <3>2. Len(rx_bits') \in Int
      <4>1. HeardTyped'
        BY <1>0, HearingTyped
      <4> QED BY <4>1 DEF HeardTyped
    <3> QED BY <1>3, <1>4, <1>5, <1>7, <3>1, <3>2
  <2>3. rx_ones' = bitcnt' - 1 \/ (FirstFlag' /\ rx_ones' >= bitcnt' /\ ~ rx_open')
    <3>1. CASE rx_ones = bitcnt - 1
      <4>1. rx_ones' = rx_ones + 1
        BY <1>0, <1>8, <2>1, <3>1, OneHeard
      <4> QED BY <1>3, <1>5, <3>1, <4>1
    <3>2. CASE FirstFlag /\ rx_ones >= bitcnt /\ ~ rx_open
      <4>1. ~ rx_open'
        BY <1>0, <2>1, <3>2, OneHeard
      <4>2. rx_ones' >= bitcnt'
        <5>1. rx_ones' = rx_ones + 1 \/ rx_ones' = 7
          BY <1>0, <2>1, OneHeard
        <5> QED BY <1>0, <1>3, <1>5, <1>8, <3>2, <5>1
      <4> QED BY <1>5, <3>2, <4>1, <4>2
    <3> QED BY <1>4, <3>1, <3>2
  <2> QED BY <1>1, <1>2, <1>3, <1>4, <1>5, <1>8, <2>2, <2>3 DEF StartHeard
<1>9. CASE bitcnt = 7
  <2>1. Zero
    BY <1>1, <1>3, <1>6, <1>9, BitHeard
  <2>2. CASE rx_ones = 6
    <3>1. rx_open' /\ rx_bits' = <<>>
      BY <1>0, <2>1, <2>2, ZeroHeard
    <3>2. rx_frame' = <<>>
      <4>1. rx_frame' = IF rx_open /\ Len(rx_bits) > 7
                          THEN SubSeq(rx_bits, 1, Len(rx_bits) - 7) ELSE rx_frame
        BY <1>0, <2>1, <2>2, ZeroHeard
      <4>2. ~ (Len(rx_bits) > 7)
        BY <1>4, <1>7, <1>9
      <4> QED BY <1>4, <4>1, <4>2
    <3> QED BY <1>1, <1>2, <1>4, <1>5, <1>9, <3>1, <3>2 DEF StartHeard
  <2>3. CASE rx_ones # 6
    <3>1. FirstFlag /\ ~ rx_open
      BY <1>4, <1>9, <2>3
    <3>2. rx_frame' = <<>> /\ rx_bits' = <<>>
      BY <1>0, <1>4, <2>1, <2>3, <3>1, ZeroHeard
    <3> QED BY <1>1, <1>2, <1>4, <1>5, <1>9, <3>1, <3>2 DEF StartHeard
  <2> QED BY <2>2, <2>3
<1> QED BY <1>1, <1>3, <1>8, <1>9

(* A later bit of a byte of the frame.                                     *)
LEMMA FrameBitHeard ==
  ASSUME HeardInv, SameByte, Receive(bit_d'), UNCHANGED content, stuffing = 1
  PROVE  FrameHeard'
<1> USE DEF HeardInv
<1>0. LinkTypeOK
  BY DEF LinkInv
<1>1. /\ bitcnt \in 0 .. 7 /\ EmitBit(byte, bitcnt) /\ byte \in Byte
      /\ aprs_state' = aprs_state /\ i' = i /\ stuffing' = 1
      /\ content' = content
  BY <1>0 DEF SameByte, LinkTypeOK
<1>2. /\ rx_level = bit_d /\ onecnt \in 0 .. 4
      /\ rx_ones = onecnt \/ (onecnt = 0 /\ rx_ones = 5 /\ byte[1] = 0)
  BY DEF LinkInv, FramePhase
<1>3. /\ rx_open /\ rx_frame = <<>>
      /\ InFrame(Fetched, byte, bitcnt, rx_ones, rx_bits)
      /\ aprs_state \in {"AX25_FCS1", "AX25_FCS2", "EFLAG"} => i = 0
  BY DEF FrameHeard
<1>4. Fetched \in Int
  BY <1>3 DEF InFrame
<1>5. /\ rx_open' /\ rx_frame' = rx_frame
      /\ InFrame(Fetched, byte', bitcnt', rx_ones', rx_bits')
  BY <1>0, <1>1, <1>2, <1>3, <1>4, FrameBit
<1>6. Fetched' = Fetched
  BY <1>1 DEF Fetched
<1>7. InFrame(Fetched, byte, bitcnt, rx_ones, rx_bits)'
  BY <1>1, <1>5, <1>6, SameContent DEF InFrame
<1> QED BY <1>1, <1>3, <1>5, <1>7 DEF FrameHeard

(* A later bit of an end flag: the zero of the first gives the frame, all  *)
(* but the flag's seven bits before it; the others close nothing.          *)
LEMMA EndBitHeard ==
  ASSUME HeardInv, SameByte, Receive(bit_d'), UNCHANGED content,
         stuffing = 0, aprs_state = "EFLAG", finished = 0
  PROVE  EndHeard'
<1> USE DEF HeardInv
<1>0. LinkTypeOK /\ rx_open \in BOOLEAN /\ rx_ones \in 0 .. 7
  BY DEF LinkInv, LinkTypeOK
<1>1. /\ bitcnt \in 0 .. 7 /\ EmitBit(byte, bitcnt) /\ byte \in Byte
      /\ aprs_state' = aprs_state /\ i' = i /\ stuffing' = 0 /\ finished' = 0
      /\ content' = content /\ i \in Nat
  BY <1>0 DEF SameByte, LinkTypeOK
<1>2. /\ rx_open /\ i >= 1
      /\ bitcnt \in 1 .. 7 /\ byte = FlagLeft /\ rx_level = bit_d
      /\ rx_ones = bitcnt - 1
      /\ i = 1 => /\ rx_frame = <<>>
                  /\ Len(rx_bits) = 8 * Len(Whole) + bitcnt
                  /\ \A k \in 1 .. 8 * Len(Whole) : rx_bits[k] = SentFrame[k]
      /\ i >= 2 => rx_frame = SentFrame /\ Len(rx_bits) <= bitcnt
  BY <1>1 DEF EndHeard
<1>3. /\ byte' = ShiftedByte(byte) /\ bitcnt' = bitcnt + 1 /\ rx_level' = bit_d'
  BY <1>0, <1>1, BitSent
<1>4. byte' = FlagLeft'
  BY <1>2, <1>3 DEF FlagLeft, ShiftedByte
<1>5. byte[1] = IF bitcnt = 7 THEN 0 ELSE 1
  BY <1>2, FlagBitLeft
<1>6. Whole' = Whole /\ SentFrame' = SentFrame
  BY <1>1, SameContent
<1>7. Len(Whole) \in Nat \ {0}
  BY <1>0, WholeIs
<1>8. rx_bits \in Seq({0, 1}) /\ Len(rx_bits) \in Nat
  BY DEF HeardTyped
<1>9. bit_d \in {0, 1}
  BY <1>0 DEF LinkTypeOK
<1>10. CASE bitcnt < 7
  <2>1. One
    BY <1>1, <1>2, <1>5, <1>9, <1>10, BitHeard
  <2>2. /\ rx_frame' = rx_frame /\ rx_open'
        /\ rx_ones' = rx_ones + 1
    BY <1>0, <1>2, <1>10, <2>1, OneHeard
  <2>3. rx_bits' = Append(rx_bits, 1)
    BY <1>0, <2>1, <2>2, OneHeard
  <2>4. Len(rx_bits') = Len(rx_bits) + 1
    BY <1>8, <2>3
  <2>5. \A k \in 1 .. Len(rx_bits) : rx_bits'[k] = rx_bits[k]
    BY <1>8, <2>3
  <2>6. rx_ones' = bitcnt' - 1 /\ bitcnt' < 8 /\ bitcnt' \in 1 .. 8
    BY <1>2, <1>3, <1>10, <2>2
  <2>7. ASSUME i = 1
        PROVE  /\ rx_frame' = <<>>
               /\ Len(rx_bits') = 8 * Len(Whole) + bitcnt'
               /\ \A k \in 1 .. 8 * Len(Whole) : rx_bits'[k] = SentFrame[k]
    <3>1. rx_frame' = <<>> /\ Len(rx_bits') = 8 * Len(Whole) + bitcnt'
      <4>1. rx_frame = <<>> /\ Len(rx_bits) = 8 * Len(Whole) + bitcnt
        BY <1>2, <2>7
      <4>2. bitcnt \in Int
        BY <1>1
      <4>3. Len(rx_bits') = 8 * Len(Whole) + (bitcnt + 1)
        BY <1>7, <2>4, <4>1, <4>2
      <4> QED BY <1>3, <2>2, <4>1, <4>3
    <3>2. ASSUME NEW k \in 1 .. 8 * Len(Whole) PROVE rx_bits'[k] = SentFrame[k]
      <4>1. k \in 1 .. Len(rx_bits)
        BY <1>2, <1>7, <2>7
      <4> QED BY <1>2, <2>5, <2>7, <4>1
    <3> QED BY <3>1, <3>2
  <2>8. i >= 2 => rx_frame' = SentFrame /\ Len(rx_bits') <= bitcnt'
    BY <1>2, <1>3, <1>8, <2>2, <2>4
  <2> QED BY <1>1, <1>2, <1>3, <1>4, <1>6, <2>2, <2>6, <2>7, <2>8 DEF EndHeard
<1>11. CASE bitcnt = 7
  <2>1. Zero /\ rx_ones = 6
    BY <1>1, <1>2, <1>5, <1>9, <1>11, BitHeard
  <2>2. /\ rx_ones' = 0 /\ rx_open' /\ rx_bits' = <<>>
        /\ rx_frame' = IF rx_open /\ Len(rx_bits) > 7
                         THEN SubSeq(rx_bits, 1, Len(rx_bits) - 7) ELSE rx_frame
    BY <1>0, <2>1, ZeroHeard
  <2>3. CASE i >= 2
    <3>1. ~ (Len(rx_bits) > 7)
      BY <1>2, <1>8, <1>11, <2>3
    <3>2. rx_frame' = SentFrame
      BY <1>2, <2>2, <2>3, <3>1
    <3> QED BY <1>1, <1>2, <1>3, <1>4, <1>6, <1>11, <2>2, <3>2 DEF EndHeard
  <2>4. CASE i = 1
    <3>1. Len(rx_bits) > 7 /\ Len(rx_bits) - 7 = 8 * Len(Whole)
      BY <1>2, <1>7, <1>11, <2>4
    <3>2. rx_frame' = SubSeq(rx_bits, 1, 8 * Len(Whole))
      BY <1>2, <2>2, <3>1
    <3>3. rx_frame' = SentFrame
      <4> DEFINE m == 8 * Len(Whole)
      <4>1. /\ m \in Nat \ {0} /\ m <= Len(rx_bits)
            /\ \A k \in 1 .. m : rx_bits[k] = SentFrame[k]
        BY <1>2, <1>7, <2>4, <3>1
      <4>2. SentFrame \in Seq({0, 1}) /\ Len(SentFrame) = m
        BY <1>0, SentIs
      <4>3. rx_frame' = SubSeq(rx_bits, 1, m)
        BY <3>2
      <4> HIDE DEF m
      <4>4. \A k \in 1 .. m : rx_bits[k] \in {0, 1}
        BY <1>8, <4>1, ElementOfSeq
      <4>5. /\ SubSeq(rx_bits, 1, m) \in Seq({0, 1})
            /\ Len(SubSeq(rx_bits, 1, m)) = m
            /\ \A k \in 1 .. m : SubSeq(rx_bits, 1, m)[k] = rx_bits[k]
        <5>1. /\ SubSeq(rx_bits, 1, m) \in Seq({0, 1})
              /\ Len(SubSeq(rx_bits, 1, m)) = IF 1 <= m THEN m - 1 + 1 ELSE 0
              /\ \A k \in 1 .. m - 1 + 1 : SubSeq(rx_bits, 1, m)[k] = rx_bits[1 + k - 1]
          BY <4>1, <4>4, SubSeqProperties
        <5> QED BY <4>1, <5>1
      <4>6. \A k \in 1 .. m : SubSeq(rx_bits, 1, m)[k] = SentFrame[k]
        BY <4>1, <4>5
      <4>7. SubSeq(rx_bits, 1, m) = SentFrame
        BY <4>2, <4>5, <4>6, SeqEqual
      <4> QED BY <4>3, <4>7
    <3> QED BY <1>1, <1>2, <1>3, <1>4, <1>6, <1>11, <2>2, <3>3 DEF EndHeard
  <2> QED BY <1>1, <1>2, <2>3, <2>4
<1> QED BY <1>2, <1>10, <1>11

LEMMA HeardSameByte ==
  ASSUME HeardInv, SameByte, Receive(bit_d'), UNCHANGED content, finished = 0
  PROVE  HeardInv'
<1> USE DEF HeardInv
<1>0. LinkTypeOK /\ rx_open \in BOOLEAN
  BY DEF LinkInv, LinkTypeOK
<1>1. LinkInv' /\ HeardTyped'
  BY <1>0, SameByteInv, HearingTyped
<1>2. /\ aprs_state' = aprs_state /\ stuffing' = stuffing /\ finished' = 0
      /\ stuffing \in {0, 1}
  BY <1>0 DEF SameByte, LinkTypeOK
<1>3. DoneHeard'
  BY <1>2 DEF DoneHeard
<1>4. StartHeard'
  <2>1. CASE stuffing = 0 /\ aprs_state \in {"SM_INIT", "SFLAG", "AX25_HEADER"}
    BY <2>1, StartBitHeard
  <2>2. CASE ~ (stuffing = 0 /\ aprs_state \in {"SM_INIT", "SFLAG", "AX25_HEADER"})
    BY <1>2, <2>2 DEF StartHeard
  <2> QED BY <2>1, <2>2
<1>5. FrameHeard'
  <2>1. CASE stuffing = 1
    BY <2>1, FrameBitHeard
  <2>2. CASE stuffing # 1
    BY <1>2, <2>2 DEF FrameHeard
  <2> QED BY <2>1, <2>2
<1>6. EndHeard'
  <2>1. CASE stuffing = 0 /\ aprs_state = "EFLAG"
    BY <2>1, EndBitHeard
  <2>2. CASE ~ (stuffing = 0 /\ aprs_state = "EFLAG")
    BY <1>2, <2>2 DEF EndHeard
  <2> QED BY <2>1, <2>2
<1> QED BY <1>1, <1>3, <1>4, <1>5, <1>6

(* The first bit of the next byte of the frame, which get_next_byte() has  *)
(* taken from where it belongs.                                            *)
LEMMA NextByteHeard ==
  ASSUME LinkTypeOK, HeardTyped, NEW n \in Int, NEW b \in Byte,
         n \in 1 .. Len(Whole), b = Whole[n], stuffing' = 1,
         rx_level = bit_d, rx_open, rx_ones = onecnt, onecnt \in 0 .. 4,
         Len(rx_bits) = 8 * (n - 1),
         \A k \in 1 .. Len(rx_bits) : rx_bits[k] = SentFrame[k],
         EmitBit(b, 0), Receive(bit_d'), content' = content, Fetched' = n
  PROVE  /\ rx_open' /\ rx_frame' = rx_frame
         /\ InFrame(Fetched, byte, bitcnt, rx_ones, rx_bits)'
<1>1. Len(rx_bits) = 8 * (n - 1) + 0 + (IF rx_ones = 5 THEN 1 ELSE 0)
  OBVIOUS
<1>2. InFrame(n, b, 0, rx_ones, rx_bits)
  BY <1>1 DEF InFrame
<1>3. /\ rx_open' /\ rx_frame' = rx_frame
      /\ InFrame(n, byte', bitcnt', rx_ones', rx_bits')
  BY <1>2, FrameBit
<1>4. InFrame(Fetched, byte, bitcnt, rx_ones, rx_bits)'
  BY <1>3, SameContent DEF InFrame
<1> QED BY <1>3, <1>4

(* Between two bytes of the frame the receiver has those already fetched.  *)
LEMMA BetweenBytes ==
  ASSUME HeardInv, stuffing = 1, bitcnt = 8
  PROVE  /\ rx_level = bit_d /\ rx_open /\ rx_frame = <<>>
         /\ rx_ones = onecnt /\ onecnt \in 0 .. 4
         /\ Fetched \in 1 .. Len(Whole)
         /\ Len(rx_bits) = 8 * Fetched
         /\ \A k \in 1 .. Len(rx_bits) : rx_bits[k] = SentFrame[k]
<1>1. rx_level = bit_d /\ rx_ones = onecnt /\ onecnt \in 0 .. 4
  BY DEF HeardInv, LinkInv, FramePhase
<1>2. /\ rx_open /\ rx_frame = <<>>
      /\ InFrame(Fetched, byte, bitcnt, rx_ones, rx_bits)
  BY DEF HeardInv, FrameHeard
<1>3. /\ Fetched \in 1 .. Len(Whole)
      /\ Len(rx_bits) = 8 * (Fetched - 1) + bitcnt + (IF rx_ones = 5 THEN 1 ELSE 0)
      /\ \A k \in 1 .. Len(rx_bits) : rx_bits[k] = SentFrame[k]
  BY <1>2 DEF InFrame
<1>4. rx_ones # 5
  BY <1>1
<1>5. Len(rx_bits) = 8 * Fetched
  BY <1>3, <1>4
<1> QED BY <1>1, <1>2, <1>3, <1>5

(* What the other parts of the invariant say after such a byte.            *)
LEMMA FrameStepHeard ==
  ASSUME HeardInv, NEW b \in Byte, b = Whole[Fetched'], content' = content,
         bitcnt = 8, stuffing' = 1, finished' = 0,
         \/ stuffing = 1 /\ Fetched' = Fetched + 1
         \/ stuffing = 0 /\ aprs_state = "AX25_HEADER" /\ Fetched' = 1,
         Fetched' \in 1 .. Len(Whole),
         aprs_state' \in {"AX25_FCS1", "AX25_FCS2", "EFLAG"} => i' = 0,
         EmitBit(b, 0), Receive(bit_d')
  PROVE  HeardTyped' /\ StartHeard' /\ FrameHeard' /\ EndHeard' /\ DoneHeard'
<1>0. LinkTypeOK /\ HeardTyped /\ rx_open \in BOOLEAN
  BY DEF HeardInv, LinkInv, LinkTypeOK
<1>1. HeardTyped'
  BY <1>0, HearingTyped
<1>2. StartHeard' /\ EndHeard' /\ DoneHeard'
  BY DEF StartHeard, EndHeard, DoneHeard
<1>3. /\ rx_level = bit_d /\ rx_open /\ rx_frame = <<>>
      /\ rx_ones = onecnt /\ onecnt \in 0 .. 4
      /\ Len(rx_bits) = 8 * (Fetched' - 1)
      /\ \A k \in 1 .. Len(rx_bits) : rx_bits[k] = SentFrame[k]
  <2>1. CASE stuffing = 1
    <3>1. /\ rx_level = bit_d /\ rx_open /\ rx_frame = <<>>
          /\ rx_ones = onecnt /\ onecnt \in 0 .. 4
          /\ Fetched \in 1 .. Len(Whole)
          /\ Len(rx_bits) = 8 * Fetched
          /\ \A k \in 1 .. Len(rx_bits) : rx_bits[k] = SentFrame[k]
      BY <2>1, BetweenBytes
    <3>2. Len(rx_bits) = 8 * (Fetched' - 1)
      BY <2>1, <3>1
    <3> QED BY <3>1, <3>2
  <2>2. CASE stuffing = 0
    <3>1. rx_level = bit_d /\ rx_ones = onecnt /\ onecnt \in 0 .. 4
      <4>1. rx_level = bit_d /\ rx_ones = 0 /\ onecnt = 0
        BY <2>2 DEF HeardInv, LinkInv, FlagPhase
      <4> QED BY <4>1
    <3>2. rx_frame = <<>> /\ rx_bits = <<>> /\ rx_open
      BY <2>2 DEF HeardInv, StartHeard, FirstFlag
    <3>3. Len(rx_bits) = 8 * (Fetched' - 1)
      BY <2>2, <3>2
    <3>4. \A k \in 1 .. Len(rx_bits) : rx_bits[k] = SentFrame[k]
      BY <2>2, <3>2
    <3> QED BY <3>1, <3>2, <3>3, <3>4
  <2> QED BY <2>1, <2>2
<1>4. /\ rx_open' /\ rx_frame' = rx_frame
      /\ InFrame(Fetched, byte, bitcnt, rx_ones, rx_bits)'
  <2> DEFINE n == Fetched'
  <2>1. n \in Int /\ n \in 1 .. Len(Whole) /\ b = Whole[n] /\ Fetched' = n
    OBVIOUS
  <2> HIDE DEF n
  <2>2. Len(rx_bits) = 8 * (n - 1)
    BY <1>3, <2>1
  <2> QED BY <1>0, <1>3, <2>1, <2>2, NextByteHeard
<1>5. FrameHeard'
  BY <1>3, <1>4 DEF FrameHeard
<1> QED BY <1>1, <1>2, <1>5

LEMMA HeardHeaderByte ==
  ASSUME HeardInv, HeaderByte, Receive(bit_d'), UNCHANGED content, finished = 0
  PROVE  HeardInv'
<1>0. LinkInv /\ LinkTypeOK
  BY DEF HeardInv, LinkInv
<1>1. LinkInv'
  BY <1>0, HeaderByteInv
<1>2. /\ bitcnt = 8 /\ aprs_state = "AX25_HEADER" /\ stuffing' = 1
      /\ EmitBit(content.header[i + 1], 0)
      /\ content' = content /\ finished' = 0 /\ stuffing \in {0, 1}
  BY <1>0 DEF HeaderByte, LinkTypeOK
<1> DEFINE h == Len(content.header)
<1>3. /\ i \in Nat /\ h \in Nat \ {0} /\ i < h
      /\ content.header[i + 1] \in Byte
  BY <1>0, <1>2, ContentIsBytes DEF LinkTypeOK
<1>4. /\ i' = IF i + 1 >= h THEN 0 ELSE i + 1
      /\ aprs_state' = IF i + 1 >= h THEN "AX25_DATA" ELSE "AX25_HEADER"
  BY <1>2 DEF HeaderByte, NextIndex
<1>5. Len(content'.header) = h
  BY <1>2
<1>6. h <= Len(Whole) /\ \A k \in 1 .. h : Whole[k] = content.header[k]
  <2>1. /\ Len(Whole) = h + Len(content.buf) + 2
        /\ \A k \in 1 .. h : Whole[k] = content.header[k]
    BY <1>0, WholeIs
  <2>2. Len(content.buf) \in Nat
    BY <1>0, ContentIsBytes
  <2> HIDE DEF h
  <2> QED BY <1>3, <2>1, <2>2
<1>7. Fetched = i
  BY <1>2 DEF Fetched
<1>8. Fetched' = i + 1
  <2>1. CASE i + 1 >= h
    <3>1. aprs_state' = "AX25_DATA" /\ i' = 0
      BY <1>4, <2>1
    <3>2. Fetched' = h + 0
      BY <1>5, <3>1 DEF Fetched
    <3> QED BY <1>3, <2>1, <3>2
  <2>2. CASE ~ (i + 1 >= h)
    BY <1>4, <2>2 DEF Fetched
  <2> QED BY <2>1, <2>2
<1>9. stuffing = 0 => i = 0
  BY <1>2 DEF HeardInv, StartHeard
<1>10. Fetched' \in 1 .. Len(Whole) /\ content.header[i + 1] = Whole[Fetched']
  <2> HIDE DEF h
  <2>1. i + 1 \in 1 .. h
    BY <1>3
  <2>2. Len(Whole) \in Nat
    BY <1>0, WholeIs
  <2>3. i + 1 \in 1 .. Len(Whole)
    BY <1>3, <1>6, <2>1, <2>2
  <2>4. Whole[i + 1] = content.header[i + 1]
    BY <1>6, <2>1
  <2> QED BY <1>8, <2>3, <2>4
<1>11. \/ stuffing = 1 /\ Fetched' = Fetched + 1
       \/ stuffing = 0 /\ aprs_state = "AX25_HEADER" /\ Fetched' = 1
  BY <1>2, <1>7, <1>8, <1>9
<1>12. aprs_state' \notin {"AX25_FCS1", "AX25_FCS2", "EFLAG"}
  BY <1>4
<1>13. HeardTyped' /\ StartHeard' /\ FrameHeard' /\ EndHeard' /\ DoneHeard'
  <2> DEFINE b == content.header[i + 1]
  <2>1. b \in Byte /\ b = Whole[Fetched'] /\ EmitBit(b, 0)
    BY <1>2, <1>3, <1>10
  <2> HIDE DEF b
  <2> QED BY <1>2, <1>10, <1>11, <1>12, <2>1, FrameStepHeard
<1> QED BY <1>1, <1>13 DEF HeardInv

LEMMA HeardDataByte ==
  ASSUME HeardInv, DataByte, Receive(bit_d'), UNCHANGED content, finished = 0
  PROVE  HeardInv'
<1>0. LinkInv /\ LinkTypeOK
  BY DEF HeardInv, LinkInv
<1>1. LinkInv'
  BY <1>0, DataByteInv
<1>2. /\ bitcnt = 8 /\ aprs_state = "AX25_DATA" /\ stuffing' = stuffing
      /\ EmitBit(content.buf[i + 1], 0)
      /\ content' = content /\ finished' = 0
  BY <1>0 DEF DataByte, LinkTypeOK
<1>3. stuffing = 1
  BY <1>0, <1>2 DEF LinkInv, FrameStuffed
<1> DEFINE h == Len(content.header)
           b == Len(content.buf)
<1>4. /\ i \in Nat /\ h \in Nat \ {0} /\ b \in Nat \ {0} /\ i < b
      /\ content.buf[i + 1] \in Byte
  BY <1>0, <1>2, ContentIsBytes DEF LinkTypeOK
<1>5. /\ i' = IF i + 1 >= b THEN 0 ELSE i + 1
      /\ aprs_state' = IF i + 1 >= b THEN "AX25_FCS1" ELSE "AX25_DATA"
  BY <1>2 DEF DataByte, NextIndex
<1>6. Len(content'.header) = h /\ Len(content'.buf) = b
  BY <1>2
<1>7. Len(Whole) = h + b + 2 /\ \A k \in 1 .. b : Whole[h + k] = content.buf[k]
  BY <1>0, WholeIs
<1>8. Fetched = h + i
  BY <1>2 DEF Fetched
<1>9. Fetched' = h + (i + 1)
  <2>1. CASE i + 1 >= b
    <3>1. aprs_state' = "AX25_FCS1" /\ i' = 0
      BY <1>5, <2>1
    <3>2. Fetched' = h + (b + 0)
      BY <1>6, <3>1 DEF Fetched
    <3> HIDE DEF h, b
    <3>3. b = i + 1
      BY <1>4, <2>1
    <3> QED BY <1>4, <3>2, <3>3
  <2>2. CASE ~ (i + 1 >= b)
    <3>1. aprs_state' = "AX25_DATA" /\ i' = i + 1
      BY <1>5, <2>2
    <3> QED BY <1>6, <3>1 DEF Fetched
  <2> QED BY <2>1, <2>2
<1>10. Fetched' \in 1 .. Len(Whole) /\ content.buf[i + 1] = Whole[Fetched']
  <2> HIDE DEF h, b
  <2>1. i + 1 \in 1 .. b
    BY <1>4
  <2>2. h + (i + 1) \in 1 .. Len(Whole)
    BY <1>4, <1>7, <2>1
  <2>3. Whole[h + (i + 1)] = content.buf[i + 1]
    BY <1>7, <2>1
  <2> QED BY <1>9, <2>2, <2>3
<1>11. stuffing = 1 /\ Fetched' = Fetched + 1
  <2> HIDE DEF h
  <2> QED BY <1>3, <1>4, <1>8, <1>9
<1>12. /\ aprs_state' \in {"AX25_FCS1", "AX25_FCS2", "EFLAG"} => i' = 0
       /\ stuffing' = 1
  BY <1>2, <1>3, <1>5
<1>13. HeardTyped' /\ StartHeard' /\ FrameHeard' /\ EndHeard' /\ DoneHeard'
  <2> DEFINE c == content.buf[i + 1]
  <2>1. c \in Byte /\ c = Whole[Fetched'] /\ EmitBit(c, 0)
    BY <1>2, <1>4, <1>10
  <2> HIDE DEF c
  <2> QED BY <1>2, <1>10, <1>11, <1>12, <2>1, FrameStepHeard
<1> QED BY <1>1, <1>13 DEF HeardInv

LEMMA HeardFcsByte ==
  ASSUME HeardInv, FcsByte, Receive(bit_d'), UNCHANGED content, finished = 0
  PROVE  HeardInv'
<1>0. LinkInv /\ LinkTypeOK
  BY DEF HeardInv, LinkInv
<1>1. LinkInv'
  BY <1>0, FcsByteInv
<1>2. /\ bitcnt = 8 /\ stuffing' = stuffing /\ i' = i
      /\ aprs_state \in {"AX25_FCS1", "AX25_FCS2"}
      /\ content' = content /\ finished' = 0
  BY <1>0 DEF FcsByte, LinkTypeOK
<1>3. stuffing = 1
  BY <1>0, <1>2 DEF LinkInv, FrameStuffed
<1>4. i' = 0
  BY <1>2, <1>3 DEF HeardInv, FrameHeard
<1> DEFINE h == Len(content.header)
           b == Len(content.buf)
<1>5. h \in Nat \ {0} /\ b \in Nat \ {0}
  BY <1>0, ContentIsBytes
<1>6. Len(content'.header) = h /\ Len(content'.buf) = b
  BY <1>2
<1>7. /\ Len(Whole) = h + b + 2
      /\ Whole[h + b + 1] = content.fcs[1] /\ Whole[h + b + 2] = content.fcs[2]
  BY <1>0, WholeIs
<1>8. content.fcs[1] \in Byte /\ content.fcs[2] \in Byte
  BY <1>0, ContentIsBytes
<1>9. \E f \in Byte : /\ EmitBit(f, 0) /\ f = Whole[Fetched']
                      /\ Fetched' = Fetched + 1 /\ Fetched' \in 1 .. Len(Whole)
  <2>1. CASE aprs_state = "AX25_FCS1"
    <3>1. aprs_state' = "AX25_FCS2" /\ EmitBit(content.fcs[1], 0)
      BY <2>1 DEF FcsByte
    <3>2. Fetched = h + (b + 0) /\ Fetched' = h + (b + 1)
      BY <1>6, <2>1, <3>1 DEF Fetched
    <3> HIDE DEF h, b
    <3>3. Fetched' = h + b + 1 /\ Fetched' = Fetched + 1
      BY <1>5, <3>2
    <3>4. h + b + 1 \in 1 .. Len(Whole)
      BY <1>5, <1>7
    <3> QED BY <1>7, <1>8, <3>1, <3>3, <3>4
  <2>2. CASE aprs_state = "AX25_FCS2"
    <3>1. aprs_state' = "EFLAG" /\ EmitBit(content.fcs[2], 0)
      BY <2>2 DEF FcsByte
    <3>2. Fetched = h + (b + 1) /\ Fetched' = h + (b + 2)
      BY <1>6, <2>2, <3>1 DEF Fetched
    <3> HIDE DEF h, b
    <3>3. Fetched' = h + b + 2 /\ Fetched' = Fetched + 1
      BY <1>5, <3>2
    <3>4. h + b + 2 \in 1 .. Len(Whole)
      BY <1>5, <1>7
    <3> QED BY <1>7, <1>8, <3>1, <3>3, <3>4
  <2> QED BY <1>2, <2>1, <2>2
<1>10. PICK f \in Byte : /\ EmitBit(f, 0) /\ f = Whole[Fetched']
                         /\ Fetched' = Fetched + 1 /\ Fetched' \in 1 .. Len(Whole)
  BY <1>9
<1>11. HeardTyped' /\ StartHeard' /\ FrameHeard' /\ EndHeard' /\ DoneHeard'
  <2>1. stuffing' = 1
    BY <1>2, <1>3
  <2> QED BY <1>2, <1>3, <1>4, <1>10, <2>1, FrameStepHeard
<1> QED BY <1>1, <1>11 DEF HeardInv

(* The first bit of an end flag: the frame's last bits have been heard, or *)
(* the frame has been closed by the flag before.                           *)
LEMMA HeardEndFlag ==
  ASSUME HeardInv, EndFlag, Receive(bit_d'), UNCHANGED content, finished = 0
  PROVE  HeardInv'
<1>0. LinkInv /\ LinkTypeOK /\ HeardTyped /\ rx_open \in BOOLEAN /\ rx_ones \in 0 .. 7
  BY DEF HeardInv, LinkInv, LinkTypeOK
<1>1. LinkInv' /\ HeardTyped'
  BY <1>0, EndFlagInv, HearingTyped
<1>2. /\ bitcnt = 8 /\ aprs_state = "EFLAG" /\ aprs_state' = "EFLAG"
      /\ stuffing' = 0 /\ EmitBit(AX25_FLAG, 0) /\ content' = content
      /\ stuffing \in {0, 1} /\ i \in Nat /\ bit_d \in {0, 1}
  BY <1>0 DEF EndFlag, LinkTypeOK
<1>3. /\ i' = IF i + 1 > AX25_EFLAGS THEN 0 ELSE i + 1
      /\ finished' = IF i + 1 > AX25_EFLAGS THEN 1 ELSE 0
  BY DEF EndFlag, FlagsDone
<1>4. /\ byte' = ShiftedByte(AX25_FLAG) /\ bitcnt' = 1 /\ rx_level' = bit_d'
  <2>1. byte' = ShiftedByte(AX25_FLAG) /\ bitcnt' = 0 + 1 /\ rx_level' = bit_d'
    BY <1>0, <1>2, FlagIsByte, BitSent
  <2> QED BY <2>1
<1>5. byte' = FlagLeft'
  BY <1>4, FlagStarts
<1>6. AX25_FLAG[1] = 0
  BY DEF AX25_FLAG
<1>7. Whole' = Whole /\ SentFrame' = SentFrame
  BY <1>2, SameContent
<1>8. StartHeard' /\ FrameHeard'
  BY <1>2 DEF StartHeard, FrameHeard
<1>9. CASE stuffing = 1
  <2>1. /\ rx_level = bit_d /\ rx_open /\ rx_frame = <<>>
        /\ rx_ones = onecnt /\ onecnt \in 0 .. 4
        /\ Len(rx_bits) = 8 * Fetched
        /\ \A k \in 1 .. Len(rx_bits) : rx_bits[k] = SentFrame[k]
    BY <1>2, <1>9, BetweenBytes
  <2>2. i = 0
    BY <1>2, <1>9 DEF HeardInv, FrameHeard
  <2>3. i' = 1 /\ finished' = 0
    BY <1>3, <2>2
  <2>4. Fetched = Len(Whole) /\ Len(Whole) \in Nat
    <3> DEFINE h == Len(content.header)
               b == Len(content.buf)
    <3>1. Fetched = h + (b + 2)
      BY <1>2 DEF Fetched
    <3>2. h \in Nat /\ b \in Nat
      BY <1>0, ContentIsBytes
    <3>3. Len(Whole) = h + b + 2
      BY <1>0, WholeIs
    <3> HIDE DEF h, b
    <3> QED BY <3>1, <3>2, <3>3
  <2>5. Zero /\ rx_ones # 6 /\ rx_ones # 5
    <3>1. rx_ones # 6 /\ rx_ones # 5
      BY <2>1
    <3> QED BY <1>2, <1>6, <2>1, <3>1, BitHeard
  <2>6. /\ rx_ones' = 0 /\ rx_frame' = rx_frame /\ rx_open'
        /\ rx_bits' = Append(rx_bits, 0)
    BY <1>0, <2>1, <2>5, ZeroHeard
  <2>7. rx_bits \in Seq({0, 1})
    BY <1>0 DEF HeardTyped
  <2>8. Len(rx_bits') = 8 * Len(Whole) + bitcnt'
    <3>1. Len(rx_bits') = Len(rx_bits) + 1
      BY <2>6, <2>7
    <3> QED BY <1>4, <2>1, <2>4, <3>1
  <2>9. \A k \in 1 .. 8 * Len(Whole) : rx_bits'[k] = SentFrame[k]
    <3>1. \A k \in 1 .. Len(rx_bits) : rx_bits'[k] = rx_bits[k]
      BY <2>6, <2>7
    <3> QED BY <2>1, <2>4, <3>1
  <2>10. EndHeard' /\ DoneHeard'
    BY <1>2, <1>4, <1>5, <1>7, <2>1, <2>3, <2>6, <2>8, <2>9 DEF EndHeard, DoneHeard
  <2> QED BY <1>1, <1>8, <2>10 DEF HeardInv
<1>10. CASE stuffing = 0
  <2>1. /\ rx_open /\ i >= 1 /\ rx_level = bit_d
        /\ rx_ones = 0 /\ rx_bits = <<>> /\ rx_frame = SentFrame
    BY <1>2, <1>10 DEF HeardInv, EndHeard
  <2>2. Zero
    BY <1>2, <1>6, <2>1, BitHeard
  <2>3. /\ rx_ones' = 0 /\ rx_frame' = SentFrame /\ rx_open'
        /\ Len(rx_bits') <= Len(rx_bits) + 1
    BY <1>0, <2>1, <2>2, ZeroHeard
  <2>4. Len(rx_bits') <= bitcnt'
    <3>1. Len(rx_bits) = 0
      BY <2>1
    <3> QED BY <1>4, <2>3, <3>1
  <2>5. finished' = 0 => i' >= 1 /\ i' # 1
    BY <1>2, <1>3, <2>1
  <2>6. DoneHeard'
    BY <1>2, <1>7, <2>3 DEF DoneHeard
  <2>7. EndHeard'
    <3>1. rx_ones' = bitcnt' - 1 /\ bitcnt' < 8 /\ bitcnt' # 8 /\ bitcnt' \in 1 .. 8
      BY <1>4, <2>3
    <3> QED BY <1>4, <1>5, <1>7, <2>3, <2>4, <2>5, <3>1 DEF EndHeard
  <2> QED BY <1>1, <1>8, <2>6, <2>7 DEF HeardInv
<1> QED BY <1>2, <1>9, <1>10

LEMMA HeardStutter == ASSUME HeardInv, UNCHANGED linkVars PROVE HeardInv'
<1>1. LinkInv'
  BY StutterInv DEF HeardInv
<1>2. /\ content' = content /\ aprs_state' = aprs_state /\ i' = i
      /\ finished' = finished /\ bitcnt' = bitcnt /\ stuffing' = stuffing
      /\ byte' = byte /\ bit_d' = bit_d /\ rx_level' = rx_level
      /\ rx_ones' = rx_ones /\ rx_bits' = rx_bits /\ rx_open' = rx_open
      /\ rx_frame' = rx_frame
  BY DEF linkVars, vars, rxVars
<1>3. Whole' = Whole /\ SentFrame' = SentFrame
  BY <1>2, SameContent
<1>4. Fetched' = Fetched /\ FlagLeft' = FlagLeft
  BY <1>2 DEF Fetched, FlagLeft
<1>5. HeardTyped' /\ StartHeard' /\ DoneHeard'
  BY <1>2, <1>3 DEF HeardInv, HeardTyped, StartHeard, FirstFlag, DoneHeard
<1>6. FrameHeard' /\ EndHeard'
  BY <1>2, <1>3, <1>4 DEF HeardInv, FrameHeard, InFrame, EndHeard
<1> QED BY <1>1, <1>5, <1>6 DEF HeardInv

LEMMA HeardStep == ASSUME HeardInv, [LinkNext]_linkVars PROVE HeardInv'
<1>1. CASE SendBit
  <2>1. Receive(bit_d') /\ UNCHANGED content /\ finished = 0
    BY <1>1 DEF SendBit, GetNextBit
  <2>2. SameByte \/ StartFlag \/ HeaderByte \/ DataByte \/ FcsByte \/ EndFlag
    BY <1>1 DEF SendBit, GetNextBit, GetNextByte
  <2> QED BY <2>1, <2>2, HeardSameByte, HeardStartFlag, HeardHeaderByte,
             HeardDataByte, HeardFcsByte, HeardEndFlag
<1>2. CASE SendFrame
  BY <1>2, HeardNextFrame
<1>3. CASE UNCHANGED linkVars
  BY <1>3, HeardStutter
<1> QED BY <1>1, <1>2, <1>3 DEF LinkNext

(* The receiver gets the header, the payload and the FCS bit for bit and   *)
(* nothing else, whatever they are, however long, whatever noise it heard  *)
(* before, with two start flags or more and one end flag or more; and it   *)
(* has the frame when the generator is finished, which is at the first bit *)
(* of its last end flag (aprs.c:187-190, 249-283).                         *)
THEOREM FramesAreDelivered == LinkSpec => []Delivers
<1>1. LinkInit => HeardInv
  BY HeardInit
<1>2. HeardInv /\ [LinkNext]_linkVars => HeardInv'
  BY HeardStep
<1>3. HeardInv => Delivers
  <2> SUFFICES ASSUME HeardInv PROVE Delivers
    OBVIOUS
  <2>1. /\ stuffing \in {0, 1} /\ bitcnt \in 0 .. 8 /\ aprs_state \in States
        /\ finished \in {0, 1} /\ i \in Nat
    BY DEF HeardInv, LinkInv, LinkTypeOK
  <2>2. finished = 1 => rx_frame = SentFrame
    BY DEF HeardInv, DoneHeard
  <2>3. CASE finished = 1
    BY <2>2, <2>3 DEF Delivers
  <2>4. CASE stuffing = 1
    BY <2>2, <2>4 DEF HeardInv, FrameHeard, Delivers
  <2>5. CASE stuffing = 0 /\ finished = 0 /\ aprs_state = "EFLAG"
    <3>1. CASE bitcnt = 8
      BY <2>2, <2>5, <3>1 DEF HeardInv, EndHeard, Delivers
    <3>2. CASE bitcnt < 8 /\ i = 1
      BY <2>2, <2>5, <3>2 DEF HeardInv, EndHeard, Delivers
    <3>3. CASE bitcnt < 8 /\ i >= 2
      BY <2>2, <2>5, <3>3 DEF HeardInv, EndHeard, Delivers
    <3>4. i >= 1
      BY <2>5 DEF HeardInv, EndHeard
    <3> QED BY <2>1, <3>1, <3>2, <3>3, <3>4
  <2>6. CASE stuffing = 0 /\ aprs_state # "EFLAG"
    <3>1. aprs_state \in {"SM_INIT", "SFLAG", "AX25_HEADER"}
      BY <2>1, <2>6 DEF HeardInv, LinkInv, FrameStuffed, States
    <3> QED BY <2>2, <2>6, <3>1 DEF HeardInv, StartHeard, Delivers
  <2> QED BY <2>1, <2>3, <2>4, <2>5, <2>6
<1> QED BY <1>1, <1>2, <1>3, PTL DEF LinkSpec
=============================================================================
