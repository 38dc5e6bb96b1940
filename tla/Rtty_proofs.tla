----------------------------- MODULE Rtty_proofs -----------------------------
(***************************************************************************)
(* Proofs about Rtty.tla, for every idle count, every buffer size and      *)
(* every content of the buffer.                                            *)
(***************************************************************************)
EXTENDS Rtty, Sequences, TLAPS

(* Starting the carrier leaves the transmitter with a legal configuration  *)
(* and on; ending it leaves it off (si4060_setup, start_tx, stop_tx).      *)
LEMMA RadioCalls ==
  ASSUME NEW r \in Radios
  PROVE  /\ StartTx(Setup(r, "2FSK")) \in Radios
         /\ StartTx(Setup(r, "2FSK")).tx = TRUE
         /\ StopTx(r) \in Radios
         /\ StopTx(r).tx = FALSE
  BY DEF Radios, StartTx, Setup, StopTx, Modulations, DirectModes

LEMMA InitialRadio ==
  /\ Freq2mRtty(Setup(PoweredUp, "2FSK")) \in Radios
  /\ Freq2mRtty(Setup(PoweredUp, "2FSK")).tx = FALSE
  BY DEF Radios, Freq2mRtty, Setup, PoweredUp, Modulations, DirectModes,
         Channels

(* The shift of data keeps it a character.                                 *)
LEMMA ShiftedType ==
  ASSUME NEW d \in Char
  PROVE  Shifted(d) \in Char
  BY DEF Char, Shifted

LEMMA InitInv == Init => RttyInv
<1> SUFFICES ASSUME Init PROVE RttyInv
  OBVIOUS
<1> USE DEF Init
<1>0. data \in Char
  BY DEF Char
<1>a. tx_buf_rdy \in BOOLEAN
  OBVIOUS
<1>1. TypeOK
  BY <1>0, <1>a, RttyAssumption, InitialRadio DEF TypeOK, CharStates
<1>2. Rested /\ CarrierFollowsState
  BY InitialRadio DEF Rested, CarrierFollowsState
<1>3. ReadsInsideFrame /\ Progress
  BY RttyAssumption DEF ReadsInsideFrame, Progress
<1> QED
  BY <1>1, <1>2, <1>3 DEF RttyInv

(* The part every call with a buffer does first: it leaves the carrier on, *)
(* and the index it goes on with is that of the frame's next character.    *)
LEMMA CarrierStarted ==
  ASSUME RttyInv, tx_buf_rdy, StartCarrier
  PROVE  /\ radio' \in Radios /\ radio'.tx = TRUE
         /\ tx_state' = 1
         /\ Index \in 0 .. TX_BUF_MAX_LENGTH
         /\ char_state # "IDLE" => Index = tx_buf_index /\ Index < NumChars
         /\ char_state = "IDLE" => Index = 0
<1> USE DEF RttyInv, TypeOK
<1>1. radio' \in Radios /\ radio'.tx = TRUE
  BY RadioCalls DEF StartCarrier, CarrierFollowsState
<1>2. tx_state' = 1
  BY DEF StartCarrier
<1>3. Index \in 0 .. TX_BUF_MAX_LENGTH
  BY RttyAssumption DEF Index
<1>4. char_state # "IDLE" => Index = tx_buf_index /\ Index < NumChars
  BY DEF Index, Rested, ReadsInsideFrame
<1>5. char_state = "IDLE" => Index = 0
  BY DEF Index, ReadsInsideFrame
<1> QED
  BY <1>1, <1>2, <1>3, <1>4, <1>5

LEMMA NumCharsBound ==
  ASSUME TypeOK
  PROVE  /\ NumChars \in 1 .. TX_BUF_MAX_LENGTH
         /\ \A n \in Nat : n + 1 >= tx_buf_length <=> n + 1 >= NumChars
  BY RttyAssumption DEF TypeOK, NumChars

(* Each bit keyed keeps the invariant.                                     *)
LEMMA KeyBitInv ==
  ASSUME RttyInv, KeyBit
  PROVE  RttyInv'
<1> USE DEF KeyBit, shared
<1>1. /\ radio' \in Radios /\ radio'.tx = TRUE /\ tx_state' = 1
      /\ Index \in 0 .. TX_BUF_MAX_LENGTH
      /\ char_state # "IDLE" => Index = tx_buf_index /\ Index < NumChars
      /\ char_state = "IDLE" => Index = 0
  BY CarrierStarted
<1>2. NumChars' = NumChars
  BY DEF NumChars
<1>3. NumChars \in 1 .. TX_BUF_MAX_LENGTH
  BY NumCharsBound DEF RttyInv
<1>4. CASE IdleBit
  <2> USE <1>4 DEF IdleBit
  <2>1. TypeOK'
    BY <1>1, RttyAssumption DEF RttyInv, TypeOK, CharStates
  <2>2. Rested' /\ CarrierFollowsState'
    BY <1>1, RttyAssumption DEF RttyInv, Rested, CarrierFollowsState
  <2>3. ReadsInsideFrame'
    BY <1>1, <1>2, <1>3 DEF ReadsInsideFrame
  <2>4. Progress'
    BY RttyAssumption DEF RttyInv, TypeOK, Progress
  <2> QED
    BY <2>1, <2>2, <2>3, <2>4 DEF RttyInv
<1>5. CASE StartBit
  <2> USE <1>5 DEF StartBit
  <2>0. Index \in 0 .. TX_BUF_MAX_LENGTH - 1
    BY <1>1, <1>3, RttyAssumption
  <2>1. data' \in Char
    BY <2>0 DEF RttyInv, TypeOK, Buffer
  <2>2. TypeOK'
    BY <1>1, <2>1 DEF RttyInv, TypeOK, CharStates
  <2>3. Rested' /\ CarrierFollowsState'
    BY <1>1 DEF Rested, CarrierFollowsState
  <2>4. ReadsInsideFrame'
    BY <1>1, <1>2 DEF ReadsInsideFrame
  <2>5. Progress'
    BY <2>0 DEF Progress
  <2> QED
    BY <2>2, <2>3, <2>4, <2>5 DEF RttyInv
<1>6. CASE DataBit
  <2> USE <1>6 DEF DataBit
  <2>1. data' \in Char
    BY ShiftedType DEF RttyInv, TypeOK
  <2>2. i < 7 /\ i \in Nat /\ data[1] \in {0, 1}
    BY DEF RttyInv, TypeOK, Progress, Char
  <2>3. TypeOK'
    BY <1>1, <2>1, <2>2 DEF RttyInv, TypeOK, CharStates
  <2>4. Rested' /\ CarrierFollowsState'
    BY <1>1 DEF Rested, CarrierFollowsState
  <2>5. ReadsInsideFrame'
    BY <1>1, <1>2 DEF ReadsInsideFrame
  <2>6. ASSUME char_state' = "CHARACTER", NEW k \in 1 .. 7 - i'
        PROVE  data'[k] = tx_buf'[tx_buf_index'][k + i']
    <3>1. k + 1 \in 1 .. 7 - i /\ k \in 1 .. 7 /\ k < 7
      BY <2>2, <2>6
    <3>2. data'[k] = data[k + 1]
      BY <3>1 DEF Shifted
    <3>3. data[k + 1] = tx_buf[tx_buf_index][(k + 1) + i]
      BY <3>1 DEF RttyInv, Progress
    <3>4. (k + 1) + i = k + i'
      BY <2>2, <3>1
    <3> QED
      BY <1>1, <3>2, <3>3, <3>4
  <2>7. Progress'
    BY <2>2, <2>6 DEF Progress, EndOfCharacter
  <2> QED
    BY <2>3, <2>4, <2>5, <2>7 DEF RttyInv
<1>7. CASE Stop1Bit
  <2> USE <1>7 DEF Stop1Bit
  <2>1. TypeOK'
    BY <1>1 DEF RttyInv, TypeOK, CharStates
  <2>2. Rested' /\ CarrierFollowsState'
    BY <1>1 DEF Rested, CarrierFollowsState
  <2>3. ReadsInsideFrame'
    BY <1>1, <1>2 DEF ReadsInsideFrame
  <2>4. Progress'
    BY DEF RttyInv, Progress
  <2> QED
    BY <2>1, <2>2, <2>3, <2>4 DEF RttyInv
<1>8. CASE Stop2Bit
  <2> USE <1>8 DEF Stop2Bit
  <2>1. Index + 1 >= tx_buf_length <=> Index + 1 >= NumChars
    BY <1>1, NumCharsBound DEF RttyInv
  <2>2. CASE Index + 1 >= tx_buf_length
    <3>1. /\ char_state' = "IDLE" /\ tx_buf_rdy' = FALSE /\ i' = 0
          /\ tx_buf_index' \in 0 .. TX_BUF_MAX_LENGTH
      BY <1>1, <1>3, <2>2, RttyAssumption
    <3>0. tx_buf_rdy' \in BOOLEAN
      BY <3>1
    <3>2. TypeOK'
      BY <1>1, <3>0, <3>1 DEF RttyInv, TypeOK, CharStates
    <3>3. Rested' /\ CarrierFollowsState' /\ ReadsInsideFrame'
      BY <1>1, <3>1 DEF Rested, CarrierFollowsState, ReadsInsideFrame
    <3>4. Progress'
      BY <3>1, RttyAssumption DEF Progress
    <3> QED
      BY <3>2, <3>3, <3>4 DEF RttyInv
  <2>3. CASE ~(Index + 1 >= tx_buf_length)
    <3>1. /\ char_state' = "START" /\ tx_buf_rdy' = tx_buf_rdy /\ i' = 0
          /\ tx_buf_index' \in 0 .. TX_BUF_MAX_LENGTH
          /\ tx_buf_index' < NumChars
      BY <1>1, <1>3, <2>1, <2>3, RttyAssumption
    <3>2. TypeOK'
      BY <1>1, <3>1 DEF RttyInv, TypeOK, CharStates
    <3>3. Rested' /\ CarrierFollowsState'
      BY <1>1, <3>1 DEF Rested, CarrierFollowsState
    <3>4. ReadsInsideFrame'
      BY <1>2, <3>1 DEF ReadsInsideFrame
    <3>5. Progress'
      BY <3>1 DEF Progress
    <3> QED
      BY <3>2, <3>3, <3>4, <3>5 DEF RttyInv
  <2> QED
    BY <2>2, <2>3
<1> QED
  BY <1>4, <1>5, <1>6, <1>7, <1>8

(* A call without a tick only starts the transmitter.                      *)
LEMMA AwaitTickInv ==
  ASSUME RttyInv, AwaitTick
  PROVE  RttyInv'
<1> USE DEF AwaitTick, shared
<1>1. /\ radio' \in Radios /\ radio'.tx = TRUE /\ tx_state' = 1
      /\ Index \in 0 .. TX_BUF_MAX_LENGTH
      /\ char_state # "IDLE" => Index = tx_buf_index /\ Index < NumChars
      /\ char_state = "IDLE" => Index = 0
  BY CarrierStarted
<1>2. TypeOK'
  BY <1>1 DEF RttyInv, TypeOK
<1>3. Rested' /\ CarrierFollowsState'
  BY <1>1 DEF RttyInv, TypeOK, Rested, CarrierFollowsState
<1>4. ReadsInsideFrame'
  BY <1>1 DEF ReadsInsideFrame, NumChars
<1>5. Progress'
  BY <1>1 DEF RttyInv, Progress
<1> QED
  BY <1>2, <1>3, <1>4, <1>5 DEF RttyInv

LEMMA NextInv == RttyInv /\ [Next]_vars => RttyInv'
<1> SUFFICES ASSUME RttyInv, [Next]_vars PROVE RttyInv'
  OBVIOUS
<1>1. CASE UNCHANGED vars
  BY <1>1 DEF vars, RttyInv, TypeOK, Rested, CarrierFollowsState,
              ReadsInsideFrame, Progress, NumChars
<1>2. CASE NothingToSend
  BY <1>1, <1>2 DEF NothingToSend
<1>3. CASE EndCarrier
  <2> USE <1>3 DEF EndCarrier, shared, machine
  <2>1. radio' \in Radios /\ radio'.tx = FALSE
    BY RadioCalls DEF RttyInv, TypeOK
  <2>2. TypeOK' /\ CarrierFollowsState'
    BY <2>1 DEF RttyInv, TypeOK, CarrierFollowsState
  <2>3. Rested' /\ ReadsInsideFrame' /\ Progress'
    BY DEF RttyInv, Rested, ReadsInsideFrame, Progress, NumChars
  <2> QED
    BY <2>2, <2>3 DEF RttyInv
<1>4. CASE AwaitTick
  BY <1>4, AwaitTickInv
<1>5. CASE KeyBit
  BY <1>5, KeyBitInv
<1>6. CASE Tick
  BY <1>6 DEF Tick, shared, machine, RttyInv, TypeOK, Rested,
              CarrierFollowsState, ReadsInsideFrame, Progress, NumChars
<1>7. ASSUME NEW buf \in Buffers, NEW length \in 1 .. TX_BUF_MAX_LENGTH,
             PrepareTxBuffer(buf, length)
      PROVE  RttyInv'
  <2> USE <1>7 DEF PrepareTxBuffer, machine
  <2>1. TypeOK'
    BY RttyAssumption DEF RttyInv, TypeOK
  <2>2. Rested' /\ CarrierFollowsState'
    BY DEF RttyInv, Rested, CarrierFollowsState
  <2>3. ReadsInsideFrame' /\ Progress'
    BY DEF RttyInv, Rested, ReadsInsideFrame, Progress
  <2> QED
    BY <2>1, <2>2, <2>3 DEF RttyInv
<1>8. CASE TlmInit
  BY <1>8 DEF TlmInit, shared, machine, RttyInv, TypeOK, Rested,
              CarrierFollowsState, ReadsInsideFrame, Progress, NumChars
<1> QED
  BY <1>1, <1>2, <1>3, <1>4, <1>5, <1>6, <1>7, <1>8 DEF Next, TxRtty

(* tx_rtty() stays within its buffer and its counts, and its state between *)
(* two frames is always that of the start of a preamble.                   *)
THEOREM RttyCorrect == Spec => []RttyInv
  BY InitInv, NextInv, PTL DEF Spec
----------------------------------------------------------------------------
(* The refinement of SerialLine.  The lemmas say which level the abstract  *)
(* line keys at each place of the frame tx_rtty() can stand in.            *)

LEMMA FrameIs ==
  ASSUME TypeOK
  PROVE  /\ Len(Frame) = NumChars
         /\ \A k \in 1 .. NumChars : Frame[k] = tx_buf[k - 1]
  BY NumCharsBound, RttyAssumption DEF Frame

LEMMA LevelIs ==
  ASSUME NEW idx \in Nat, NEW b \in 0 .. 9
  PROVE  Line!Level(Frame, NUM_IDLE_BITS + 10 * idx + b + 1)
           = IF b = 0 THEN 0 ELSE IF b <= 7 THEN Frame[idx + 1][b] ELSE 1
<1> DEFINE k == NUM_IDLE_BITS + 10 * idx + b + 1
           j == k - NUM_IDLE_BITS - 1
<1>1. j = 10 * idx + b /\ ~(k <= NUM_IDLE_BITS)
  BY RttyAssumption
<1>2. j \div 10 = idx /\ j % 10 = b
  BY <1>1
<1> QED
  BY <1>1, <1>2 DEF Line!Level, Line!BitsPerChar

LEMMA IdleLevel ==
  ASSUME NEW k \in 1 .. NUM_IDLE_BITS
  PROVE  Line!Level(Frame, k) = 1
  BY RttyAssumption DEF Line!Level

LEMMA LineInit == Init => Line!Init
  BY InitialRadio DEF Init, Line!Init, Pos

(* Every bit tx_rtty() keys is the next bit of the frame.                  *)
LEMMA KeyBitKeys ==
  ASSUME RttyInv, KeyBit
  PROVE  Line!Key
<1> USE DEF KeyBit, shared
<1>1. /\ radio'.tx = TRUE
      /\ Index \in 0 .. TX_BUF_MAX_LENGTH
      /\ char_state # "IDLE" => Index = tx_buf_index /\ Index < NumChars
      /\ char_state = "IDLE" => Index = 0
  BY CarrierStarted
<1>2. NumChars' = NumChars /\ Frame' = Frame
  BY DEF NumChars, Frame
<1>3. NumChars \in 1 .. TX_BUF_MAX_LENGTH
  BY NumCharsBound DEF RttyInv
<1>4. Line!Length(Frame) = NUM_IDLE_BITS + 10 * NumChars
  BY FrameIs DEF RttyInv, Line!Length, Line!BitsPerChar
<1>5. SUFFICES
        /\ si_data' = Line!Level(Frame, Pos + 1)
        /\ \/ /\ tx_buf_rdy' = TRUE /\ Pos + 1 # Line!Length(Frame)
              /\ Pos' = Pos + 1
           \/ /\ tx_buf_rdy' = FALSE /\ Pos + 1 = Line!Length(Frame)
              /\ Pos' = 0
  <2>1. CASE tx_buf_rdy' = TRUE
    BY <1>1, <1>2, <1>5, <2>1, Zenon DEF Line!Key
  <2>2. CASE tx_buf_rdy' = FALSE
    BY <1>1, <1>2, <1>5, <2>2, Zenon DEF Line!Key
  <2> QED
    BY <1>5, <2>1, <2>2
<1>a. tx_buf_rdy = TRUE
  BY DEF RttyInv, TypeOK
<1> USE DEF RttyInv, TypeOK, CharStates, Progress
<1>6. CASE IdleBit
  <2> USE <1>6 DEF IdleBit
  <2>1. Pos = i /\ i \in 0 .. NUM_IDLE_BITS - 1
    BY RttyAssumption DEF Pos
  <2>2. si_data' = Line!Level(Frame, Pos + 1)
    BY <2>1, IdleLevel, RttyAssumption
  <2>3. tx_buf_rdy' = TRUE /\ Pos + 1 # Line!Length(Frame)
    BY <1>a, <1>3, <1>4, <2>1, RttyAssumption
  <2>4. Pos' = Pos + 1
    BY <1>1, <2>1, RttyAssumption DEF Pos
  <2> QED
    BY <2>2, <2>3, <2>4
<1>7. CASE StartBit
  <2> USE <1>7 DEF StartBit
  <2>1. Pos = NUM_IDLE_BITS + 10 * tx_buf_index
    BY RttyAssumption DEF Pos
  <2>2. si_data' = Line!Level(Frame, Pos + 1)
    BY <1>1, <2>1, LevelIs, RttyAssumption
  <2>3. tx_buf_rdy' = TRUE /\ Pos + 1 # Line!Length(Frame)
    BY <1>a, <1>1, <1>3, <1>4, <2>1, RttyAssumption
  <2>4. Pos' = Pos + 1
    BY <1>1, <2>1, RttyAssumption DEF Pos
  <2> QED
    BY <2>2, <2>3, <2>4
<1>8. CASE DataBit
  <2> USE <1>8 DEF DataBit, EndOfCharacter
  <2>1. Pos = NUM_IDLE_BITS + 10 * tx_buf_index + 1 + i /\ i \in 0 .. 6
    BY RttyAssumption DEF Pos
  <2>2. si_data' = Line!Level(Frame, Pos + 1)
    <3>1. data[1] = tx_buf[tx_buf_index][1 + i]
      BY <2>1
    <3>2. Frame[tx_buf_index + 1] = tx_buf[tx_buf_index]
      BY <1>1, FrameIs
    <3>3. Line!Level(Frame, NUM_IDLE_BITS + 10 * tx_buf_index + (i + 1) + 1)
            = Frame[tx_buf_index + 1][i + 1]
      BY <1>1, <2>1, LevelIs
    <3> QED
      BY <1>1, <2>1, <3>1, <3>2, <3>3, RttyAssumption
  <2>3. tx_buf_rdy' = TRUE /\ Pos + 1 # Line!Length(Frame)
    BY <1>a, <1>1, <1>3, <1>4, <2>1, RttyAssumption
  <2>4. Pos' = Pos + 1
    BY <1>1, <2>1, RttyAssumption DEF Pos
  <2> QED
    BY <2>2, <2>3, <2>4
<1>9. CASE Stop1Bit
  <2> USE <1>9 DEF Stop1Bit
  <2>1. Pos = NUM_IDLE_BITS + 10 * tx_buf_index + 8
    BY RttyAssumption DEF Pos
  <2>2. si_data' = Line!Level(Frame, Pos + 1)
    BY <1>1, <2>1, LevelIs, RttyAssumption
  <2>3. tx_buf_rdy' = TRUE /\ Pos + 1 # Line!Length(Frame)
    BY <1>a, <1>1, <1>3, <1>4, <2>1, RttyAssumption
  <2>4. Pos' = Pos + 1
    BY <1>1, <2>1, RttyAssumption DEF Pos
  <2> QED
    BY <2>2, <2>3, <2>4
<1>10. CASE Stop2Bit
  <2> USE <1>10 DEF Stop2Bit
  <2>1. Pos = NUM_IDLE_BITS + 10 * tx_buf_index + 9
    BY RttyAssumption DEF Pos
  <2>2. si_data' = Line!Level(Frame, Pos + 1)
    <3>1. Line!Level(Frame, NUM_IDLE_BITS + 10 * tx_buf_index + 9 + 1) = 1
      BY <1>1, LevelIs
    <3>2. si_data = 1
      OBVIOUS
    <3> QED
      BY <2>1, <3>1, <3>2
  <2>3. Index + 1 >= tx_buf_length <=> Index + 1 = NumChars
    BY <1>1, NumCharsBound, <1>3
  <2>4. CASE Index + 1 = NumChars
    <3>1. tx_buf_rdy' = FALSE /\ char_state' = "IDLE" /\ i' = 0
      BY <2>3, <2>4
    <3>2. Pos + 1 = Line!Length(Frame) /\ Pos' = 0
      BY <1>1, <1>4, <2>1, <2>4, <3>1, RttyAssumption DEF Pos
    <3> QED
      BY <2>2, <3>1, <3>2
  <2>5. CASE Index + 1 # NumChars
    <3>1. tx_buf_rdy' = TRUE /\ char_state' = "START"
      BY <1>a, <2>3, <2>5
    <3>2. Pos + 1 # Line!Length(Frame)
      BY <1>1, <1>3, <1>4, <2>1, <2>5, RttyAssumption
    <3>3. Pos' = Pos + 1
      BY <1>1, <2>1, <3>1, RttyAssumption DEF Pos
    <3> QED
      BY <2>2, <3>1, <3>2, <3>3
  <2> QED
    BY <2>4, <2>5
<1> QED
  BY <1>6, <1>7, <1>8, <1>9, <1>10

LEMMA LineNext == RttyInv /\ [Next]_vars => [Line!Next]_(Line!lineVars)
<1> SUFFICES ASSUME RttyInv, [Next]_vars
             PROVE  Line!Next \/ UNCHANGED Line!lineVars
  OBVIOUS
<1> USE DEF shared, machine, Line!lineVars
<1>1. CASE UNCHANGED vars \/ NothingToSend
  BY <1>1 DEF vars, NothingToSend, Frame, NumChars, Pos
<1>2. CASE EndCarrier
  <2>1. radio'.tx = FALSE /\ radio.tx
    BY <1>2, RadioCalls DEF EndCarrier, RttyInv, TypeOK, CarrierFollowsState
  <2> QED
    BY <1>2, <2>1, Zenon
       DEF EndCarrier, Line!Next, Line!Stop, Frame, NumChars, Pos
<1>3. CASE AwaitTick
  <2>1. /\ radio'.tx = TRUE
        /\ char_state # "IDLE" => Index = tx_buf_index
    BY <1>3, CarrierStarted DEF AwaitTick
  <2>2. Frame' = Frame /\ Pos' = Pos
    BY <1>3, <2>1 DEF AwaitTick, Frame, NumChars, Pos
  <2>3. radio.tx \in BOOLEAN
    BY DEF RttyInv, TypeOK, Radios
  <2>4. CASE radio.tx = TRUE
    BY <1>3, <2>1, <2>2, <2>4 DEF AwaitTick
  <2>5. CASE radio.tx = FALSE
    BY <1>3, <2>1, <2>2, <2>5 DEF AwaitTick, Line!Next, Line!Start
  <2> QED
    BY <2>3, <2>4, <2>5
<1>4. CASE KeyBit
  BY <1>4, KeyBitKeys DEF Line!Next
<1>5. CASE Tick
  BY <1>5 DEF Tick, Frame, NumChars, Pos
<1>6. CASE TlmInit \/ \E buf \in Buffers, length \in 1 .. TX_BUF_MAX_LENGTH :
                         PrepareTxBuffer(buf, length)
  <2>1. /\ ~tx_buf_rdy /\ ~radio.tx /\ tx_buf_rdy' = TRUE
        /\ UNCHANGED <<char_state, i, si_data, radio>>
        /\ char_state = "IDLE"
    BY <1>6 DEF TlmInit, PrepareTxBuffer, RttyInv, CarrierFollowsState, Rested
  <2> QED
    BY <2>1 DEF Line!Next, Line!Load, Pos
<1> QED
  BY <1>1, <1>2, <1>3, <1>4, <1>5, <1>6 DEF Next, TxRtty

(* tx_rtty() implements the serial line: every tick it handles keys the    *)
(* next bit of the frame handed over, from the first mark to the last stop *)
(* bit, and the carrier goes off only between frames.                      *)
THEOREM RttySendsFrames == Spec => SendsFrames
<1>1. RttyInv /\ [Next]_vars => [Line!Next]_(Line!lineVars)
  BY LineNext
<1> QED
  BY <1>1, LineInit, RttyCorrect, PTL DEF Spec, SendsFrames, Line!Spec
=============================================================================
