------------------------------ MODULE Ax25Link ------------------------------
(***************************************************************************)
(* The frame generator of aprs.c and a receiver on one channel: every bit  *)
(* get_next_bit() returns is a level the receiver sees.                    *)
(***************************************************************************)
EXTENDS Ax25, HdlcReceiver

(* The code sends 75 start flags.  A receiver that hears ones before the   *)
(* first takes its zeros for something else: it needs a second one.        *)
ASSUME LinkAssumption == AX25_SFLAGS >= 2

linkVars == <<vars, rxVars>>

LinkInit == /\ Init
            /\ rx_level \in {0, 1} /\ rx_ones \in 0 .. 7
            /\ rx_bits = <<>> /\ rx_open = FALSE /\ rx_frame = <<>>

SendBit   == GetNextBit /\ Receive(bit_d')
SendFrame == NextFrame /\ Listen

LinkNext == SendBit \/ SendFrame

LinkSpec == LinkInit /\ [][LinkNext]_linkVars

----------------------------------------------------------------------------
(* Properties.                                                             *)

(* The types, and that get_next_byte(), whose index is a static variable   *)
(* shared by all its states and never set by aprs_init(), reads inside the *)
(* header and inside the payload, frame after frame (aprs.c:159-178).      *)
LinkTypeOK ==
  /\ content \in Contents
  /\ aprs_state \in States
  /\ i \in Nat
  /\ aprs_state = "AX25_HEADER" => i < Len(content.header)
  /\ aprs_state = "AX25_DATA" => i < Len(content.buf)
  /\ finished \in {0, 1}
  /\ bitcnt \in 0 .. 8
  /\ onecnt \in Nat
  /\ stuffing \in {0, 1}
  /\ byte \in Byte
  /\ bit_d \in {0, 1}
  /\ rx_level \in {0, 1}
  /\ rx_ones \in 0 .. 7
  /\ rx_open \in BOOLEAN

(* What is inside a frame is never mistaken for a flag or an abort: from   *)
(* the first header bit to the bit before the end flag, stuffed bits       *)
(* included, the receiver sees at most five ones in a row (aprs.c:219).    *)
Transparent == stuffing = 1 => rx_ones <= 5

(* The bits of a sequence of bytes, least significant first.               *)
BitsOf(bytes) == [k \in 1 .. 8 * Len(bytes) |->
                    bytes[((k - 1) \div 8) + 1][((k - 1) % 8) + 1]]

SentFrame == BitsOf(content.header \o content.buf \o content.fcs)

(* The receiver gets the header, the payload and the FCS, bit for bit and  *)
(* nothing else: no frame is cut out of the flags or of the frame, and     *)
(* when the generator says it is finished, which it does with the last end *)
(* flag's first bit and so ends the transmission there, the frame has been *)
(* received (aprs.c:187-190, 249-283).                                     *)
Delivers == /\ rx_frame \in {<<>>, SentFrame}
            /\ finished = 1 => rx_frame = SentFrame
=============================================================================
