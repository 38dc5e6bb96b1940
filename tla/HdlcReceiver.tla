---------------------------- MODULE HdlcReceiver ----------------------------
(***************************************************************************)
(* The other end of the channel, which is not part of the firmware: a      *)
(* receiver of NRZI-coded, bit-stuffed frames between flags, as AX.25      *)
(* prescribes it.  It sees one line level per bit.                         *)
(***************************************************************************)
EXTENDS Integers, Sequences

VARIABLES rx_level,    \* the last level seen
          rx_ones,     \* ones in a row, 7 for more than six
          rx_bits,     \* the bits since the last flag, stuffed bits removed
          rx_open,     \* a flag has been seen, and no abort since
          rx_frame     \* the last frame received, as bits

rxVars == <<rx_level, rx_ones, rx_bits, rx_open, rx_frame>>

(* A new transmission: the receiver may have seen any noise before it.     *)
Listen == /\ rx_level' \in {0, 1}
          /\ rx_ones' \in 0 .. 7
          /\ rx_bits' = <<>>
          /\ rx_open' = FALSE
          /\ rx_frame' = <<>>

(* Ones in a row; a seventh aborts the frame.                              *)
One == /\ rx_ones' = IF rx_ones = 7 THEN 7 ELSE rx_ones + 1
       /\ rx_open' = (rx_open /\ rx_ones < 6)
       /\ rx_bits' = IF rx_open' THEN Append(rx_bits, 1) ELSE <<>>
       /\ UNCHANGED rx_frame

(* A zero after six ones closes a flag: what came before the flag's first  *)
(* seven bits is a frame, if there is anything.  A zero after five ones is *)
(* a stuffed bit.                                                          *)
Zero == /\ rx_ones' = 0
        /\ IF rx_ones = 6
             THEN /\ rx_open' = TRUE
                  /\ rx_bits' = <<>>
                  /\ rx_frame' = IF rx_open /\ Len(rx_bits) > 7
                                   THEN SubSeq(rx_bits, 1, Len(rx_bits) - 7)
                                   ELSE rx_frame
             ELSE /\ rx_bits' = IF rx_open /\ rx_ones # 5
                                  THEN Append(rx_bits, 0) ELSE rx_bits
                  /\ UNCHANGED <<rx_open, rx_frame>>

Receive(level) == /\ rx_level' = level
                  /\ IF level = rx_level THEN One ELSE Zero
=============================================================================
