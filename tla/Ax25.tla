-------------------------------- MODULE Ax25 --------------------------------
(***************************************************************************)
(* The AX.25 frame generator of aprs.c: get_next_byte() walks through      *)
(* start flags, header, payload, FCS and end flags, get_next_bit() takes   *)
(* its bytes apart with bit stuffing and NRZI coding, and tx_aprs() asks   *)
(* for one bit per baud tick until the generator says it is finished.      *)
(* Bytes are tuples of bits, the least significant first, as they are sent.*)
(***************************************************************************)
EXTENDS Integers, Sequences

CONSTANTS AX25_SFLAGS, AX25_EFLAGS,
          Contents      \* the frames: [header, buf : Seq(Byte), fcs : two bytes]

Byte == [1 .. 8 -> {0, 1}]
AX25_FLAG == [k \in 1 .. 8 |-> IF k = 1 \/ k = 8 THEN 0 ELSE 1]

ASSUME Ax25Assumption ==
  /\ AX25_SFLAGS \in Nat \ {0}
  /\ AX25_EFLAGS \in Nat \ {0}
  /\ \A c \in Contents :
       /\ DOMAIN c = {"header", "buf", "fcs"}
       /\ c.header \in Seq(Byte) /\ c.header # <<>>
       /\ c.buf \in Seq(Byte) /\ c.buf # <<>>
       /\ c.fcs \in Seq(Byte) /\ Len(c.fcs) = 2

VARIABLES content,                    \* header, aprs_buf and fcs
          aprs_state, i, finished,    \* get_next_byte()
          bitcnt, onecnt, stuffing, byte,
          bit_d                       \* the NRZI level, which selects the tone

initVars == <<aprs_state, finished, bitcnt, onecnt, stuffing>>
vars == <<content, aprs_state, i, finished, bitcnt, onecnt, stuffing, byte, bit_d>>

States == {"SM_INIT", "SFLAG", "AX25_HEADER", "AX25_DATA", "AX25_FCS1",
           "AX25_FCS2", "EFLAG"}

Init == /\ content \in Contents
        /\ aprs_state = "SM_INIT"
        /\ i = 0
        /\ finished = 0
        /\ bitcnt = 8
        /\ onecnt = 0
        /\ stuffing = 0
        /\ byte = [k \in 1 .. 8 |-> 0]
        /\ bit_d = 0

----------------------------------------------------------------------------
(* aprs_prepare_buffer() and aprs_init(), between frames: new contents,    *)
(* and the generator set back.  i, byte and bit_d stay as they are.        *)

AprsInit == /\ aprs_state' = "SM_INIT"
            /\ finished' = 0
            /\ bitcnt' = 8
            /\ onecnt' = 0
            /\ stuffing' = 0

NextFrame == /\ finished = 1
             /\ content' \in Contents
             /\ AprsInit
             /\ UNCHANGED <<i, byte, bit_d>>

----------------------------------------------------------------------------
(* get_next_bit(), of which every call is one pass of tx_aprs() with a     *)
(* baud tick.  Bit 1 of b, the byte in hand, goes out; stuffing is what    *)
(* get_next_byte() leaves it at.                                           *)

ShiftedByte(b) == [k \in 1 .. 8 |-> IF k < 8 THEN b[k + 1] ELSE 0]
LowCleared(b)  == [b EXCEPT ![1] = 0]

Stuffs_Sixth(b) == b[1] = 1 /\ stuffing' = 1 /\ onecnt + 1 >= 6   \* Mutant
Stuffs(b) == b[1] = 1 /\ stuffing' = 1 /\ onecnt + 1 >= 5

EmitBit(b, cnt) ==
  /\ \/ /\ Stuffs(b)
        /\ byte' = LowCleared(b)         \* the next call sends the stuffed 0
        /\ onecnt' = 0
        /\ bitcnt' = cnt
     \/ /\ ~ Stuffs(b)
        /\ byte' = ShiftedByte(b)
        /\ onecnt' = IF b[1] = 1 THEN onecnt + 1 ELSE 0
        /\ bitcnt' = cnt + 1
  /\ bit_d' = IF b[1] = 0 THEN 1 - bit_d ELSE bit_d

(* Mutant: i goes on counting in the next state.                           *)
NextIndex_KeepsOn(n, length) == n
(* ++i, back to 0 after the last byte of this state.                       *)
NextIndex(n, length) == IF n >= length THEN 0 ELSE n

(* A bit out of the byte in hand.                                          *)
SameByte == /\ bitcnt < 8
            /\ UNCHANGED <<aprs_state, i, stuffing, finished>>
            /\ EmitBit(byte, bitcnt)

(* The first bit of a new byte, which get_next_byte() returns.             *)
StartFlag == /\ bitcnt >= 8
             /\ aprs_state \in {"SM_INIT", "SFLAG"}
             /\ LET n == IF aprs_state = "SM_INIT" THEN 1 ELSE i + 1
                IN  /\ i' = NextIndex(n, AX25_SFLAGS)
                    /\ aprs_state' = IF n >= AX25_SFLAGS THEN "AX25_HEADER"
                                     ELSE "SFLAG"
             /\ stuffing' = IF aprs_state = "SM_INIT" THEN 0 ELSE stuffing
             /\ EmitBit(AX25_FLAG, 0)
             /\ UNCHANGED finished

HeaderByte == /\ bitcnt >= 8
              /\ aprs_state = "AX25_HEADER"
              /\ stuffing' = 1
              /\ i' = NextIndex(i + 1, Len(content.header))
              /\ aprs_state' = IF i + 1 >= Len(content.header) THEN "AX25_DATA"
                               ELSE aprs_state
              /\ EmitBit(content.header[i + 1], 0)
              /\ UNCHANGED finished

DataByte == /\ bitcnt >= 8
            /\ aprs_state = "AX25_DATA"
            /\ i' = NextIndex(i + 1, Len(content.buf))
            /\ aprs_state' = IF i + 1 >= Len(content.buf) THEN "AX25_FCS1"
                             ELSE aprs_state
            /\ UNCHANGED <<stuffing, finished>>
            /\ EmitBit(content.buf[i + 1], 0)

FcsByte == /\ bitcnt >= 8
           /\ UNCHANGED <<i, stuffing, finished>>
           /\ \/ /\ aprs_state = "AX25_FCS1" /\ aprs_state' = "AX25_FCS2"
                 /\ EmitBit(content.fcs[1], 0)
              \/ /\ aprs_state = "AX25_FCS2" /\ aprs_state' = "EFLAG"
                 /\ EmitBit(content.fcs[2], 0)

FlagsDone_Early(n) == n >= AX25_EFLAGS    \* Mutant: done one flag too early
FlagsDone(n) == n > AX25_EFLAGS

EndFlag == /\ bitcnt >= 8
           /\ aprs_state = "EFLAG"
           /\ stuffing' = 0
           /\ i' = IF FlagsDone(i + 1) THEN 0 ELSE i + 1
           /\ finished' = IF FlagsDone(i + 1) THEN 1 ELSE finished
           /\ EmitBit(AX25_FLAG, 0)
           /\ UNCHANGED aprs_state

GetNextByte == StartFlag \/ HeaderByte \/ DataByte \/ FcsByte \/ EndFlag

(* tx_aprs() goes on while the generator is not finished.                  *)
GetNextBit == /\ finished = 0
              /\ SameByte \/ GetNextByte
              /\ UNCHANGED content
=============================================================================
