-------------------------------- MODULE Rtty --------------------------------
(***************************************************************************)
(* The RTTY transmitter, tx_rtty() of rtty.c: a state machine the main     *)
(* loop calls without end, which keys one bit whenever the timer ISR has   *)
(* set tlm_tick.  Its static variables survive between calls; the buffer,  *)
(* tx_buf_rdy and the tick flag are shared with tlm.c, main.c and the ISR. *)
(* The main loop and the ISR are the environment.  A tick that arrives     *)
(* before the last one was handled is lost, as the flag is one bit.        *)
(***************************************************************************)
EXTENDS Integers, Radio

CONSTANTS NUM_IDLE_BITS,      \* main.h: marks before the first character
          TX_BUF_MAX_LENGTH,  \* characters in tx_buf
          Buffers             \* the contents tx_buf may be given

Char == [1 .. 7 -> {0, 1}]    \* 7-bit ASCII, bit 1 the least significant
Buffer == [0 .. TX_BUF_MAX_LENGTH - 1 -> Char]

ASSUME RttyAssumption == /\ NUM_IDLE_BITS \in Nat \ {0}
                         /\ TX_BUF_MAX_LENGTH \in Nat \ {0}
                         /\ Buffers \subseteq Buffer

VARIABLES tx_buf_rdy,    \* TRUE for 1: a buffer waits for transmission
          tx_buf, tx_buf_length,
          tlm_tick,      \* set by the timer ISR, cleared here
          tx_state,      \* the transmitter has been started for this buffer
          char_state, i, data, tx_buf_index,
          si_data,       \* the pin SI_DATA that keys the transmitter
          radio

shared   == <<tx_buf, tx_buf_length>>
machine  == <<char_state, i, data, tx_buf_index, si_data>>
vars     == <<tx_buf_rdy, tx_buf, tx_buf_length, tlm_tick, tx_state,
              char_state, i, data, tx_buf_index, si_data, radio>>

CharStates == {"IDLE", "START", "CHARACTER", "STOP1", "STOP2"}

Init == /\ tx_buf_rdy = FALSE
        /\ tx_buf \in Buffers
        /\ tx_buf_length = 0
        /\ tlm_tick = 0
        /\ tx_state = 0
        /\ char_state = "IDLE"
        /\ i = 0
        /\ data = [k \in 1 .. 7 |-> 0]
        /\ tx_buf_index = 0
        /\ si_data \in {0, 1}
        /\ radio = Freq2mRtty(Setup(PoweredUp, "2FSK"))

----------------------------------------------------------------------------
(* tx_rtty() when there is nothing to send: returns, or ends the carrier.  *)

NothingToSend == /\ ~tx_buf_rdy /\ tx_state = 0
                 /\ UNCHANGED vars

(* Mutant: the state is reset, the transmitter is not stopped.             *)
EndCarrier_StaysOn == /\ ~tx_buf_rdy /\ tx_state = 1
                      /\ tx_state' = 0
                      /\ UNCHANGED <<tx_buf_rdy, shared, tlm_tick, machine,
                                     radio>>
EndCarrier == /\ ~tx_buf_rdy /\ tx_state = 1
              /\ radio' = StopTx(radio)
              /\ tx_state' = 0
              /\ UNCHANGED <<tx_buf_rdy, shared, tlm_tick, machine>>

----------------------------------------------------------------------------
(* tx_rtty() with a buffer: the first call starts the transmitter at       *)
(* character 0; the same call already keys a bit if a tick is pending.     *)

(* Mutant: the reset of the index at line 40 is forgotten.                 *)
Index_NotReset == tx_buf_index
Index == IF tx_state = 0 THEN 0 ELSE tx_buf_index

StartCarrier ==
  /\ radio' = IF tx_state = 0 THEN StartTx(Setup(radio, "2FSK")) ELSE radio
  /\ tx_state' = 1

(* Mutant: eight data bits.                                                *)
EndOfCharacter_Eighth(n) == n = 8
EndOfCharacter(n) == n = 7

Shifted(d) == [k \in 1 .. 7 |-> IF k < 7 THEN d[k + 1] ELSE 0]

IdleBit == /\ char_state = "IDLE"
           /\ si_data' = 1
           /\ i' = IF i + 1 = NUM_IDLE_BITS THEN 0 ELSE i + 1
           /\ char_state' = IF i + 1 = NUM_IDLE_BITS THEN "START" ELSE "IDLE"
           /\ tx_buf_index' = Index
           /\ UNCHANGED <<data, tx_buf_rdy>>

StartBit == /\ char_state = "START"
            /\ si_data' = 0
            /\ i' = 0
            /\ data' = tx_buf[Index]
            /\ char_state' = "CHARACTER"
            /\ tx_buf_index' = Index
            /\ UNCHANGED tx_buf_rdy

DataBit == /\ char_state = "CHARACTER"
           /\ i' = i + 1
           /\ si_data' = data[1]
           /\ data' = Shifted(data)
           /\ char_state' = IF EndOfCharacter(i') THEN "STOP1" ELSE "CHARACTER"
           /\ tx_buf_index' = Index
           /\ UNCHANGED tx_buf_rdy

Stop1Bit == /\ char_state = "STOP1"
            /\ si_data' = 1
            /\ char_state' = "STOP2"
            /\ tx_buf_index' = Index
            /\ UNCHANGED <<i, data, tx_buf_rdy>>

Stop2Bit == /\ char_state = "STOP2"
            /\ i' = 0
            /\ tx_buf_index' = Index + 1
            /\ IF Index + 1 >= tx_buf_length
                 THEN char_state' = "IDLE" /\ tx_buf_rdy' = FALSE
                 ELSE char_state' = "START" /\ UNCHANGED tx_buf_rdy
            /\ UNCHANGED <<si_data, data>>

KeyBit == /\ tx_buf_rdy /\ tlm_tick = 1
          /\ StartCarrier
          /\ tlm_tick' = 0
          /\ IdleBit \/ StartBit \/ DataBit \/ Stop1Bit \/ Stop2Bit
          /\ UNCHANGED shared

AwaitTick == /\ tx_buf_rdy /\ tlm_tick = 0
             /\ StartCarrier
             /\ tx_buf_index' = Index
             /\ UNCHANGED <<tx_buf_rdy, shared, tlm_tick, char_state, i, data,
                            si_data>>

TxRtty == NothingToSend \/ EndCarrier \/ AwaitTick \/ KeyBit

----------------------------------------------------------------------------
(* The environment.  The main loop hands over a buffer only between        *)
(* frames, once the carrier of the last one has been ended: Tracker.tla    *)
(* shows that its timing sees to that.                                     *)

(* The timer ISR, once per bit period.                                     *)
Tick == /\ tlm_tick' = 1
        /\ UNCHANGED <<tx_buf_rdy, shared, tx_state, machine, radio>>

(* prepare_tx_buffer(): new contents, and the trigger.                     *)
PrepareTxBuffer(buf, length) ==
  /\ ~tx_buf_rdy /\ tx_state = 0
  /\ tx_buf' = buf
  /\ tx_buf_length' = length
  /\ tx_buf_rdy' = TRUE
  /\ UNCHANGED <<tlm_tick, tx_state, machine, radio>>

(* tlm_init() alone: without a new fix the old buffer is sent again.       *)
TlmInit == /\ ~tx_buf_rdy /\ tx_state = 0
           /\ tx_buf_rdy' = TRUE
           /\ UNCHANGED <<shared, tlm_tick, tx_state, machine, radio>>

Next == \/ TxRtty
        \/ Tick
        \/ \E buf \in Buffers, length \in 1 .. TX_BUF_MAX_LENGTH :
             PrepareTxBuffer(buf, length)
        \/ TlmInit

(* The loop calls tx_rtty() in every pass and the timer keeps running; no  *)
(* fairness on the hand-over of buffers.                                   *)
Spec == Init /\ [][Next]_vars /\ WF_vars(TxRtty) /\ WF_vars(Tick)
----------------------------------------------------------------------------
(* Properties.                                                             *)

(* Every variable of tx_rtty() stays in its range; in particular i never   *)
(* passes the idle count or the seven bits of a character.                 *)
TypeOK == /\ tx_buf_rdy \in BOOLEAN
          /\ tx_buf \in Buffer
          /\ tx_buf_length \in 0 .. TX_BUF_MAX_LENGTH
          /\ tlm_tick \in {0, 1}
          /\ tx_state \in {0, 1}
          /\ char_state \in CharStates
          /\ i \in Nat
          /\ data \in Char
          /\ tx_buf_index \in 0 .. TX_BUF_MAX_LENGTH
          /\ si_data \in {0, 1}
          /\ radio \in Radios

(* STOP2 compares the index after the increment, so that a buffer of       *)
(* length 0 (no prepare_tx_buffer() yet) still sends its first character.  *)
NumChars == IF tx_buf_length = 0 THEN 1 ELSE tx_buf_length

(* Between frames the machine is back at the start of the preamble, though *)
(* nothing resets char_state and i when a transmission is started.         *)
Rested == (~tx_buf_rdy \/ tx_state = 0) => char_state = "IDLE" /\ i = 0

(* The carrier is on exactly while a transmission is under way.            *)
CarrierFollowsState == radio.tx <=> tx_state = 1

(* tx_rtty() reads tx_buf only below the length of the frame: within the   *)
(* frame the index is that of a character, and in the preamble it is 0.    *)
ReadsInsideFrame ==
  /\ char_state # "IDLE" => tx_buf_index < NumChars
  /\ char_state = "IDLE" /\ tx_buf_rdy /\ tx_state = 1 => tx_buf_index = 0

(* The count of each character state, the level the second stop bit takes  *)
(* over from the first, and the bits of the character that are still to be *)
(* shifted out of data.                                                    *)
Progress ==
  /\ char_state = "IDLE" => i < NUM_IDLE_BITS
  /\ char_state = "START" => i = 0
  /\ char_state \in {"STOP1", "STOP2"} => i = 7
  /\ char_state = "STOP2" => si_data = 1
  /\ char_state = "CHARACTER" =>
       /\ i < 7
       /\ \A k \in 1 .. 7 - i : data[k] = tx_buf[tx_buf_index][k + i]

(* The inductive invariant.                                                *)
RttyInv == TypeOK /\ Rested /\ CarrierFollowsState /\ ReadsInsideFrame /\ Progress

(* The line: where tx_rtty() stands in the frame, in ticks handled.        *)
Pos == IF char_state = "IDLE" THEN i
       ELSE NUM_IDLE_BITS + 10 * tx_buf_index
            + (CASE char_state = "START" -> 0
                 [] char_state = "CHARACTER" -> 1 + i
                 [] char_state = "STOP1" -> 8
                 [] OTHER -> 9)

Frame == [k \in 1 .. NumChars |-> tx_buf[k - 1]]

Line == INSTANCE SerialLine WITH busy <- tx_buf_rdy, frame <- Frame,
          pos <- Pos, line <- si_data, carrier <- radio.tx

(* tx_rtty() implements the serial line: whatever the calls and the ticks  *)
(* between them, each frame is sent bit for bit, from its first mark to    *)
(* the last stop bit, and nothing else is keyed.                           *)
SendsFrames == Line!Spec

(* Each frame handed over ends, and the carrier with it (main.c:149 waits  *)
(* for that before the next regular transmission).                         *)
FrameEnds == tx_buf_rdy ~> (~tx_buf_rdy /\ ~radio.tx)
=============================================================================
