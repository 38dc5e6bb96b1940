--------------------------- MODULE Tracker_proofs ---------------------------
(***************************************************************************)
(* Proofs about Tracker.tla: the safety properties hold for every choice   *)
(* of the intervals, tick rates, frame sizes and durations that meets      *)
(* TimingAssumption, every set of fixes and every number of resets.        *)
(*                                                                         *)
(* No check in main.c keeps an APRS frame out of an RTTY frame, only time  *)
(* does; so the inductive invariant counts it.  Elapsed is the ticks since *)
(* seconds was set to 0, Left the ticks the RTTY frame still needs, and    *)
(* their sum never grows while main() hands every tick to tx_rtty().       *)
(***************************************************************************)
EXTENDS Tracker, TLAPS

(* The positions of main() in which a pass of the loop takes no time.      *)
Passing == {"loop", "regular", "rtty"}

(* An RTTY frame waits, is being sent, or its carrier is still on.         *)
Active == tx_buf_rdy \/ tx_state = 1

Elapsed == seconds * TLM_HZ + sec_overflows

Left == IF tx_buf_rdy THEN NUM_IDLE_BITS + 10 * Rtty!NumChars - Rtty!Pos ELSE 0

(* The interval and the offset, in ticks.                                  *)
IntervalTicks == LongestInterval * TLM_HZ
OffsetTicks   == TLM_BACKLOG_OFFSET * TLM_HZ

(* tx_rtty() is between frames or within one, at a position of it.         *)
FrameInv ==
  /\ Rtty!Rested /\ Rtty!ReadsInsideFrame
  /\ char_state = "IDLE" => i < NUM_IDLE_BITS
  /\ char_state = "START" => i = 0
  /\ char_state = "CHARACTER" => i < 7
  /\ char_state \in {"STOP1", "STOP2"} => i = 7

(* Who may be at work: a frame is handed over during the APRS frame before *)
(* it and sent in the passes after that, in the RTTY branch only.          *)
OwnerInv ==
  Active => /\ InRtty
            /\ pc \in Passing \cup {"sendRegular"}
            /\ pc = "sendRegular" => tx_state = 0
            /\ pc \in Passing => radio.chan = "rtty" /\ radio.mod = "2FSK"

RadioInv ==
  /\ pc \in Sending => radio.tx /\ radio.chan = "aprs" /\ radio.mod = "2GFSK"
  /\ pc \in Operating \ Sending => (radio.tx <=> tx_state = 1)

ContentsInv ==
  current_fix.type > 2 =>
    /\ Active => tx_buf = "current"
    /\ pc = "sendRegular" => aprs_buf = "current"
    /\ pc = "sendRegular" /\ InRtty => tx_buf = "current"

(* A pass takes less than a tick, and a tick in it is not lost unless one  *)
(* was left from the call before.  The frame ends in time for what follows *)
(* it, and nothing makes main() miss the end of the interval by more than  *)
(* a backlog frame.                                                        *)
TimeInv ==
  /\ pc \in Passing => budget <= 1 /\ (budget = 0 => tlm_tick = 1)
  /\ pc = "sendRegular" => Elapsed + budget < TLM_HZ + AprsTicks
  /\ pc \in Passing /\ Active =>
       Elapsed + Left + budget <= TLM_HZ + AprsTicks + FrameTicks
  /\ pc = "loop" => Elapsed + budget <= IntervalTicks + 2 * TLM_HZ
  /\ pc = "rtty" => Elapsed + budget <= IntervalTicks + TLM_HZ
  /\ pc = "regular" =>
       Elapsed + budget <= IntervalTicks + 2 * TLM_HZ + AprsTicks + 1
  /\ pc = "sendBacklog" =>
       Elapsed + budget <= IntervalTicks + 2 * TLM_HZ + AprsTicks

TrackerInv == /\ TypeOK /\ FrameInv /\ OwnerInv /\ RadioInv /\ ContentsInv
              /\ TimeInv
----------------------------------------------------------------------------
(* Constants, and time in ticks.                                           *)

LEMMA ConstantTypes ==
  /\ TLM_APRS_INTERVAL \in Nat /\ TLM_APRS_INTERVAL >= 1
  /\ TLM_RTTY_INTERVAL \in Nat /\ TLM_RTTY_INTERVAL >= 1
  /\ TLM_BACKLOG_OFFSET \in Nat /\ TLM_BACKLOG_OFFSET >= 1
  /\ TLM_HZ \in Nat /\ TLM_HZ >= 1
  /\ BLIP_FACTOR \in Nat /\ BLIP_FACTOR >= 1
  /\ GpsTicks \in Nat /\ GpsTicks >= 1
  /\ AprsTicks \in Nat /\ AprsTicks >= 1
  /\ NUM_IDLE_BITS \in Nat /\ NUM_IDLE_BITS >= 1
  /\ TX_BUF_MAX_LENGTH \in Nat /\ TX_BUF_MAX_LENGTH >= 1
  /\ BACKLOG_MAX_ENTRIES \in Nat /\ BACKLOG_MAX_ENTRIES >= 1
  /\ BACKLOG_TX_INCREMENT \in Nat
  /\ MaxSeconds \in Nat /\ MaxResets \in Nat
  /\ MaxSeconds > TLM_APRS_INTERVAL + 1
  /\ FrameTicks \in Nat /\ FrameTicks >= 1
  /\ LongestInterval \in Nat
  /\ TLM_APRS_INTERVAL <= LongestInterval
  /\ TLM_RTTY_INTERVAL <= LongestInterval
<1>1. {TLM_APRS_INTERVAL, TLM_RTTY_INTERVAL, TLM_BACKLOG_OFFSET, TLM_HZ,
       BLIP_FACTOR, GpsTicks, AprsTicks, NUM_IDLE_BITS, TX_BUF_MAX_LENGTH,
       BACKLOG_MAX_ENTRIES} \subseteq Nat \ {0}
  BY TrackerAssumption
<1>2. {BACKLOG_TX_INCREMENT, MaxSeconds, MaxResets} \subseteq Nat
  BY TrackerAssumption
<1>3. MaxSeconds > TLM_APRS_INTERVAL + 1
  BY TrackerAssumption
<1> QED
  BY <1>1, <1>2, <1>3 DEF FrameTicks, LongestInterval

(* Products with TLM_HZ are monotonic.                                     *)
LEMMA Product ==
  ASSUME NEW m \in Nat, NEW n \in Nat
  PROVE  /\ m * TLM_HZ \in Nat
         /\ m <= n => m * TLM_HZ <= n * TLM_HZ
         /\ (m + 1) * TLM_HZ = m * TLM_HZ + TLM_HZ
<1>1. TLM_HZ \in Nat
  BY ConstantTypes
<1>2. (m + 1) * TLM_HZ = m * TLM_HZ + TLM_HZ
  BY <1>1
<1>3. m * TLM_HZ \in Nat
  BY <1>1
<1>4. ASSUME m <= n PROVE m * TLM_HZ <= n * TLM_HZ
  <2> DEFINE d == n - m
  <2>1. d \in Nat /\ n = m + d
    BY <1>4
  <2>2. d * TLM_HZ \in Nat
    BY <1>1, <2>1
  <2>3. (m + d) * TLM_HZ = m * TLM_HZ + d * TLM_HZ
    BY <1>1, <2>1
  <2> HIDE DEF d
  <2> QED
    BY <1>3, <2>1, <2>2, <2>3
<1> QED
  BY <1>2, <1>3, <1>4

(* TimingAssumption in ticks: an RTTY frame ends before the offset, and    *)
(* that before the interval.                                               *)
LEMMA Timing ==
  /\ OffsetTicks \in Nat /\ IntervalTicks \in Nat
  /\ AprsTicks + FrameTicks + 2 <= OffsetTicks
  /\ OffsetTicks + TLM_HZ <= IntervalTicks
<1>1. /\ AprsTicks + FrameTicks + 2 <= OffsetTicks
      /\ TLM_BACKLOG_OFFSET + 1 <= LongestInterval
  BY TimingAssumption, ConstantTypes DEF OffsetTicks
<1>2. (TLM_BACKLOG_OFFSET + 1) * TLM_HZ <= LongestInterval * TLM_HZ
  BY <1>1, Product, ConstantTypes
<1>3. (TLM_BACKLOG_OFFSET + 1) * TLM_HZ = TLM_BACKLOG_OFFSET * TLM_HZ + TLM_HZ
  BY Product, ConstantTypes
<1>4. OffsetTicks \in Nat /\ IntervalTicks \in Nat
  BY Product, ConstantTypes DEF OffsetTicks, IntervalTicks
<1> QED
  BY <1>1, <1>2, <1>3, <1>4 DEF OffsetTicks, IntervalTicks

(* What a value of seconds says of the ticks since it was 0.               *)
LEMMA ElapsedBounds ==
  ASSUME TypeOK
  PROVE  /\ Elapsed \in Nat
         /\ seconds = 0 => Elapsed < TLM_HZ
         /\ seconds > TLM_BACKLOG_OFFSET => Elapsed >= OffsetTicks + TLM_HZ
         /\ seconds <= LongestInterval => Elapsed < IntervalTicks + TLM_HZ
         /\ seconds <= LongestInterval + 1
              => Elapsed < IntervalTicks + 2 * TLM_HZ
<1>1. /\ seconds \in Nat /\ sec_overflows \in Nat /\ sec_overflows < TLM_HZ
      /\ TLM_HZ \in Nat /\ LongestInterval \in Nat
      /\ TLM_BACKLOG_OFFSET \in Nat
  BY ConstantTypes DEF TypeOK
<1>2. seconds * TLM_HZ \in Nat
  BY <1>1, Product
<1>3. ASSUME seconds = 0 PROVE Elapsed < TLM_HZ
  BY <1>1, <1>3 DEF Elapsed
<1>4. ASSUME seconds > TLM_BACKLOG_OFFSET
      PROVE  Elapsed >= OffsetTicks + TLM_HZ
  <2>1. TLM_BACKLOG_OFFSET + 1 <= seconds
    BY <1>1, <1>4
  <2>2. (TLM_BACKLOG_OFFSET + 1) * TLM_HZ <= seconds * TLM_HZ
    BY <1>1, <2>1, Product
  <2>3. (TLM_BACKLOG_OFFSET + 1) * TLM_HZ = OffsetTicks + TLM_HZ
    BY <1>1, Product DEF OffsetTicks
  <2> QED
    BY <1>1, <1>2, <2>2, <2>3, Timing DEF Elapsed
<1>5. ASSUME seconds <= LongestInterval
      PROVE  Elapsed < IntervalTicks + TLM_HZ
  <2>1. seconds * TLM_HZ <= IntervalTicks
    BY <1>1, <1>5, Product DEF IntervalTicks
  <2> QED
    BY <1>1, <1>2, <2>1, Timing DEF Elapsed
<1>6. ASSUME seconds <= LongestInterval + 1
      PROVE  Elapsed < IntervalTicks + 2 * TLM_HZ
  <2>1. seconds * TLM_HZ <= (LongestInterval + 1) * TLM_HZ
    BY <1>1, <1>6, Product
  <2>2. (LongestInterval + 1) * TLM_HZ = IntervalTicks + TLM_HZ
    BY <1>1, Product DEF IntervalTicks
  <2> QED
    BY <1>1, <1>2, <2>1, <2>2, Timing DEF Elapsed
<1>7. Elapsed \in Nat
  BY <1>1, <1>2 DEF Elapsed
<1> QED
  BY <1>3, <1>4, <1>5, <1>6, <1>7

(* A tick of the ISR adds one to them, or less where seconds is capped.    *)
LEMMA ElapsedTick ==
  ASSUME TypeOK, Tick
  PROVE  Elapsed' \in Nat /\ Elapsed' <= Elapsed + 1
<1>1. /\ seconds \in Nat /\ sec_overflows \in Nat /\ sec_overflows < TLM_HZ
      /\ TLM_HZ \in Nat /\ MaxSeconds \in Nat
  BY ConstantTypes DEF TypeOK
<1>2. seconds * TLM_HZ \in Nat /\ (seconds + 1) * TLM_HZ = seconds * TLM_HZ + TLM_HZ
  BY <1>1, Product
<1>3. CASE sec_overflows + 1 >= TLM_HZ
  <2>1. /\ sec_overflows' = 0
        /\ seconds' = seconds + 1 \/ seconds' = seconds
    BY <1>3 DEF Tick
  <2>2. seconds' * TLM_HZ \in Nat
        /\ seconds' * TLM_HZ <= seconds * TLM_HZ + TLM_HZ
    BY <1>1, <1>2, <2>1
  <2> QED
    BY <1>1, <1>2, <1>3, <2>1, <2>2 DEF Elapsed
<1>4. CASE ~(sec_overflows + 1 >= TLM_HZ)
  BY <1>1, <1>2, <1>4 DEF Tick, Elapsed
<1> QED
  BY <1>3, <1>4
----------------------------------------------------------------------------
(* tx_rtty() as main() calls it.                                           *)

LEMMA RadioTypes ==
  /\ PoweredUp \in Radios
  /\ \A r \in Radios :
       /\ StartTx(r) \in Radios /\ StopTx(r) \in Radios
       /\ FreqAprs(r) \in Radios /\ Freq2mRtty(r) \in Radios
       /\ \A m \in Modulations : Setup(r, m) \in Radios
  BY DEF Radios, PoweredUp, StartTx, StopTx, FreqAprs, Freq2mRtty, Setup,
         Modulations, DirectModes, Channels

(* The variables of tx_rtty() keep their types, as does SI_DATA.           *)
RttyTyped == /\ tx_buf_rdy \in BOOLEAN
             /\ tx_buf_length \in {0, TX_BUF_MAX_LENGTH}
             /\ tlm_tick \in {0, 1}
             /\ tx_state \in {0, 1}
             /\ char_state \in Rtty!CharStates
             /\ i \in 0 .. NUM_IDLE_BITS + 7
             /\ data = Blank
             /\ tx_buf_index \in 0 .. TX_BUF_MAX_LENGTH
             /\ si_data \in {0, 1}
             /\ radio \in Radios

LEMMA NumCharsType ==
  ASSUME RttyTyped
  PROVE  /\ Rtty!NumChars \in 1 .. TX_BUF_MAX_LENGTH
         /\ \A n \in Nat : n + 1 >= tx_buf_length <=> n + 1 >= Rtty!NumChars
  BY ConstantTypes DEF RttyTyped, Rtty!NumChars

(* What is left of a frame never exceeds its length, and is never nothing. *)
LEMMA LeftType ==
  ASSUME RttyTyped, FrameInv
  PROVE  /\ Left \in 0 .. FrameTicks
         /\ tx_buf_rdy => Left >= 1
<1>1. CASE ~tx_buf_rdy
  BY <1>1, ConstantTypes DEF Left
<1>2. CASE tx_buf_rdy
  <2>1. Rtty!NumChars \in 1 .. TX_BUF_MAX_LENGTH
    BY NumCharsType
  <2>2. /\ Rtty!Pos \in Nat
        /\ Rtty!Pos < NUM_IDLE_BITS + 10 * Rtty!NumChars
    BY <1>2, <2>1, ConstantTypes
       DEF RttyTyped, FrameInv, Rtty!ReadsInsideFrame, Rtty!Pos, Rtty!CharStates
  <2> QED
    BY <1>2, <2>1, <2>2, ConstantTypes DEF Left, FrameTicks
<1> QED
  BY <1>1, <1>2

(* The index a call goes on with.                                          *)
LEMMA IndexFacts ==
  ASSUME RttyTyped, FrameInv, tx_buf_rdy
  PROVE  /\ Rtty!Index \in 0 .. TX_BUF_MAX_LENGTH
         /\ char_state # "IDLE" =>
              Rtty!Index = tx_buf_index /\ Rtty!Index < Rtty!NumChars
         /\ char_state = "IDLE" => Rtty!Index = 0
  BY ConstantTypes DEF RttyTyped, FrameInv, Rtty!Rested, Rtty!ReadsInsideFrame,
                       Rtty!Index

(* The first call of a frame switches the carrier on, no other changes it. *)
LEMMA CarrierStart ==
  ASSUME RttyTyped, Rtty!StartCarrier, radio.tx <=> tx_state = 1
  PROVE  /\ radio' \in Radios /\ radio'.tx /\ tx_state' = 1
         /\ radio'.chan = radio.chan
         /\ radio.mod = "2FSK" => radio'.mod = "2FSK"
<1>1. radio \in Radios
  BY DEF RttyTyped
<1>2. CASE tx_state = 0
  <2>1. radio' = StartTx(Setup(radio, "2FSK"))
    BY <1>2 DEF Rtty!StartCarrier, Rtty!StartTx, Rtty!Setup, StartTx, Setup
  <2> QED
    BY <1>1, <2>1 DEF Rtty!StartCarrier, StartTx, Setup, Radios, Modulations,
                      DirectModes
<1>3. CASE tx_state # 0
  BY <1>1, <1>3 DEF Rtty!StartCarrier, RttyTyped
<1> QED
  BY <1>2, <1>3

(* A bit keyed keeps the machine in its frame and brings its end nearer.   *)
LEMMA BitKeyed ==
  ASSUME RttyTyped, FrameInv, Rtty!KeyBit, radio.tx <=> tx_state = 1
  PROVE  RttyTyped' /\ FrameInv' /\ Left' = Left - 1
<1> USE ConstantTypes
<1>1. /\ tx_buf_rdy /\ tlm_tick' = 0 /\ UNCHANGED tx_buf_length
      /\ Rtty!StartCarrier
  BY DEF Rtty!KeyBit, Rtty!shared
<1>2. radio' \in Radios /\ tx_state' = 1
  BY <1>1, CarrierStart
<1>3. Rtty!NumChars' = Rtty!NumChars /\ Rtty!NumChars \in 1 .. TX_BUF_MAX_LENGTH
  BY <1>1, NumCharsType DEF Rtty!NumChars
<1>4. /\ Rtty!Index \in 0 .. TX_BUF_MAX_LENGTH
      /\ char_state # "IDLE" =>
           Rtty!Index = tx_buf_index /\ Rtty!Index < Rtty!NumChars
      /\ char_state = "IDLE" => Rtty!Index = 0
  BY <1>1, IndexFacts
<1>5. ASSUME RttyTyped', FrameInv',
             \/ tx_buf_rdy' /\ Rtty!Pos' = Rtty!Pos + 1
             \/ ~tx_buf_rdy' /\ Rtty!Pos + 1 = NUM_IDLE_BITS + 10 * Rtty!NumChars
      PROVE  RttyTyped' /\ FrameInv' /\ Left' = Left - 1
  <2>1. Rtty!Pos \in Int
    BY DEF RttyTyped, Rtty!Pos, Rtty!CharStates
  <2> QED
    BY <1>1, <1>3, <1>5, <2>1 DEF Left
<1> USE DEF RttyTyped, FrameInv, Rtty!Rested, Rtty!ReadsInsideFrame,
            Rtty!CharStates, Rtty!Pos
<1>6. CASE Rtty!IdleBit
  <2>1. RttyTyped'
    BY <1>1, <1>2, <1>4, <1>6 DEF Rtty!IdleBit
  <2>2. FrameInv'
    BY <1>1, <1>2, <1>3, <1>4, <1>6 DEF Rtty!IdleBit
  <2>3. tx_buf_rdy' /\ Rtty!Pos' = Rtty!Pos + 1
    BY <1>1, <1>4, <1>6 DEF Rtty!IdleBit
  <2> QED
    BY <1>5, <2>1, <2>2, <2>3
<1>7. CASE Rtty!StartBit
  <2>1. data' = Blank
    BY <1>3, <1>4, <1>7 DEF Rtty!StartBit
  <2>2. RttyTyped'
    BY <1>1, <1>2, <1>4, <1>7, <2>1 DEF Rtty!StartBit
  <2>3. FrameInv'
    BY <1>1, <1>2, <1>3, <1>4, <1>7 DEF Rtty!StartBit
  <2>4. /\ char_state = "START" /\ char_state' = "CHARACTER" /\ i' = 0
        /\ tx_buf_index' = tx_buf_index /\ tx_buf_rdy'
    BY <1>1, <1>4, <1>7 DEF Rtty!StartBit
  <2>5. Rtty!Pos' = Rtty!Pos + 1
    BY <2>4
  <2> QED
    BY <1>5, <2>2, <2>3, <2>4, <2>5
<1>8. CASE Rtty!DataBit
  <2>1. data' = Blank /\ si_data' \in {0, 1}
    BY <1>8 DEF Rtty!DataBit, Rtty!Shifted, Blank
  <2>2. RttyTyped'
    BY <1>1, <1>2, <1>4, <1>8, <2>1 DEF Rtty!DataBit, Rtty!EndOfCharacter
  <2>3. FrameInv'
    BY <1>1, <1>2, <1>3, <1>4, <1>8 DEF Rtty!DataBit, Rtty!EndOfCharacter
  <2>4. tx_buf_rdy' /\ Rtty!Pos' = Rtty!Pos + 1
    BY <1>1, <1>4, <1>8 DEF Rtty!DataBit, Rtty!EndOfCharacter
  <2> QED
    BY <1>5, <2>2, <2>3, <2>4
<1>9. CASE Rtty!Stop1Bit
  <2>1. RttyTyped'
    BY <1>1, <1>2, <1>4, <1>9 DEF Rtty!Stop1Bit
  <2>2. FrameInv'
    BY <1>1, <1>2, <1>3, <1>4, <1>9 DEF Rtty!Stop1Bit
  <2>3. tx_buf_rdy' /\ Rtty!Pos' = Rtty!Pos + 1
    BY <1>1, <1>4, <1>9 DEF Rtty!Stop1Bit
  <2> QED
    BY <1>5, <2>1, <2>2, <2>3
<1>10. CASE Rtty!Stop2Bit
  <2>1. Rtty!Index + 1 >= tx_buf_length <=> Rtty!Index + 1 >= Rtty!NumChars
    BY <1>4, NumCharsType
  <2>2. /\ char_state = "STOP2" /\ i' = 0 /\ UNCHANGED <<si_data, data>>
        /\ tx_buf_index' = tx_buf_index + 1
        /\ tx_buf_index < Rtty!NumChars
    BY <1>4, <1>10 DEF Rtty!Stop2Bit
  <2>3. CASE Rtty!Index + 1 >= tx_buf_length
    <3>1. char_state' = "IDLE" /\ tx_buf_rdy' = FALSE
      BY <1>10, <2>3 DEF Rtty!Stop2Bit
    <3>0. tx_buf_rdy' \in BOOLEAN
      BY <3>1
    <3>2. tx_buf_index + 1 = Rtty!NumChars
      BY <1>3, <1>4, <2>1, <2>2, <2>3
    <3>3. RttyTyped'
      BY <1>1, <1>2, <1>3, <2>2, <3>0, <3>1, <3>2
    <3>4. FrameInv'
      BY <1>1, <1>2, <2>2, <3>1
    <3>5. Rtty!Pos + 1 = NUM_IDLE_BITS + 10 * Rtty!NumChars
      BY <2>2, <3>2
    <3> QED
      BY <1>5, <3>1, <3>3, <3>4, <3>5
  <2>4. CASE ~(Rtty!Index + 1 >= tx_buf_length)
    <3>1. char_state' = "START" /\ tx_buf_rdy'
      BY <1>1, <1>10, <2>4 DEF Rtty!Stop2Bit
    <3>2. tx_buf_index + 1 < Rtty!NumChars
      BY <1>3, <1>4, <2>1, <2>2, <2>4
    <3>3. RttyTyped'
      BY <1>1, <1>2, <1>3, <2>2, <3>1, <3>2
    <3>4. FrameInv'
      BY <1>1, <1>2, <1>3, <2>2, <3>1, <3>2
    <3>5. Rtty!Pos' = Rtty!Pos + 1
      BY <2>2, <3>1
    <3> QED
      BY <1>5, <3>1, <3>3, <3>4, <3>5
  <2> QED
    BY <2>3, <2>4
<1> QED
  BY <1>6, <1>7, <1>8, <1>9, <1>10 DEF Rtty!KeyBit
(* A call keeps the machine in its frame; with a tick pending it brings    *)
(* the end of the frame nearer, and it never starts a frame of its own.    *)
LEMMA RttyCalled ==
  ASSUME RttyTyped, FrameInv, Rtty!TxRtty, radio.tx <=> tx_state = 1
  PROVE  /\ RttyTyped' /\ FrameInv'
         /\ radio'.tx <=> tx_state' = 1
         /\ radio'.chan = radio.chan
         /\ radio.mod = "2FSK" => radio'.mod = "2FSK"
         /\ Active' => Active
         /\ Active' => Left' <= Left /\ (tlm_tick = 1 => Left' = Left - 1)
<1>0. Left \in Int
  BY LeftType
<1>1. CASE Rtty!NothingToSend
  <2>1. UNCHANGED <<rttyVars, tlm_tick, si_data, radio>>
    BY <1>1 DEF Rtty!NothingToSend, Rtty!vars, rttyVars, machineVars
  <2>2. RttyTyped' /\ FrameInv' /\ ~Active'
    BY <1>1, <2>1 DEF rttyVars, machineVars, RttyTyped, FrameInv, Rtty!Rested,
         Rtty!ReadsInsideFrame, Rtty!NumChars, Rtty!NothingToSend, Active
  <2> QED
    BY <2>1, <2>2 DEF rttyVars, machineVars
<1>2. CASE Rtty!EndCarrier
  <2>1. /\ radio' = StopTx(radio) /\ tx_state' = 0 /\ ~tx_buf_rdy
        /\ UNCHANGED <<tx_buf_rdy, tx_buf_length, tlm_tick, char_state, i,
                       data, tx_buf_index, si_data>>
    BY <1>2 DEF Rtty!EndCarrier, Rtty!shared, Rtty!machine, Rtty!StopTx, StopTx
  <2>2. /\ radio' \in Radios /\ ~radio'.tx /\ radio'.chan = radio.chan
        /\ radio'.mod = radio.mod
    BY <2>1 DEF StopTx, Radios, RttyTyped
  <2>3. RttyTyped' /\ FrameInv' /\ ~Active'
    BY <2>1, <2>2 DEF RttyTyped, FrameInv, Rtty!Rested,
         Rtty!ReadsInsideFrame, Rtty!NumChars, Active
  <2> QED
    BY <2>1, <2>2, <2>3
<1>3. CASE Rtty!AwaitTick
  <2>1. /\ tx_buf_rdy /\ tlm_tick = 0 /\ tx_buf_index' = Rtty!Index
        /\ UNCHANGED <<tx_buf_rdy, tx_buf_length, tlm_tick, char_state, i,
                       data, si_data>>
        /\ Rtty!StartCarrier
    BY <1>3 DEF Rtty!AwaitTick, Rtty!shared
  <2>2. /\ radio' \in Radios /\ radio'.tx /\ tx_state' = 1
        /\ radio'.chan = radio.chan
        /\ radio.mod = "2FSK" => radio'.mod = "2FSK"
    BY <2>1, CarrierStart
  <2>3. /\ tx_buf_index' \in 0 .. TX_BUF_MAX_LENGTH
        /\ char_state # "IDLE" => tx_buf_index' = tx_buf_index
        /\ char_state = "IDLE" => tx_buf_index' = 0
    BY <2>1, IndexFacts
  <2>4. RttyTyped' /\ FrameInv'
    BY <2>1, <2>2, <2>3 DEF RttyTyped, FrameInv, Rtty!Rested,
         Rtty!ReadsInsideFrame, Rtty!NumChars
  <2>5. Left' = Left
    BY <2>1, <2>3 DEF Left, Rtty!Pos, Rtty!NumChars
  <2> QED
    BY <1>0, <2>1, <2>2, <2>4, <2>5 DEF Active
<1>4. CASE Rtty!KeyBit
  <2>1. Rtty!StartCarrier /\ tx_buf_rdy
    BY <1>4 DEF Rtty!KeyBit
  <2>2. /\ radio'.tx /\ tx_state' = 1
        /\ radio'.chan = radio.chan
        /\ radio.mod = "2FSK" => radio'.mod = "2FSK"
    BY <2>1, CarrierStart
  <2>3. RttyTyped' /\ FrameInv' /\ Left' = Left - 1
    BY <1>4, BitKeyed
  <2> QED
    BY <1>0, <2>1, <2>2, <2>3 DEF Active
<1> QED
  BY <1>1, <1>2, <1>3, <1>4 DEF Rtty!TxRtty

----------------------------------------------------------------------------
(* Types.                                                                  *)

LEMMA TypesOfRtty == TypeOK => RttyTyped
  BY DEF TypeOK, RttyTyped

LEMMA TypeInit == Init => TypeOK
<1> SUFFICES ASSUME Init PROVE TypeOK
  OBVIOUS
<1>1. radio \in Radios
  BY RadioTypes DEF Init
<1>2. Ring!TypeOK
  BY ConstantTypes DEF Init, Ring!Init, Ring!TypeOK, Ring!Slots, Ring!NULL
<1>3. RttyTyped
  <2>1. tx_buf_rdy \in BOOLEAN
    BY DEF Init
  <2> QED
    BY <1>1, <2>1, ConstantTypes DEF Init, RttyTyped, Rtty!CharStates
<1>4. backlog_transmitted \in BOOLEAN
  BY DEF Init
<1> QED
  BY <1>1, <1>2, <1>3, <1>4, ConstantTypes
     DEF Init, TypeOK, RttyTyped, Starting, Contents

(* The backlog operations keep the ring's types.                           *)
LEMMA RingTyped ==
  ASSUME Ring!TypeOK,
         Ring!GetNextFix \/ Ring!Reset \/ \E fix \in Fixes : Ring!AddFix(fix)
  PROVE  Ring!TypeOK'
<1> USE ConstantTypes DEF Ring!TypeOK
<1>0. ASSUME NEW x \in Ring!Slots, NEW d \in Nat
      PROVE  Ring!Advance(x, d) \in Ring!Slots
  BY DEF Ring!Slots, Ring!Advance
<1>1. CASE Ring!GetNextFix
  <2>1. last_fix_id' \in Ring!Slots
    BY <1>0, <1>1 DEF Ring!GetNextFix
  <2> QED
    BY <1>1, <2>1 DEF Ring!GetNextFix
<1>2. CASE Ring!Reset
  BY <1>2 DEF Ring!Reset, Ring!Slots
<1>3. ASSUME NEW fix \in Fixes, Ring!AddFix(fix) PROVE Ring!TypeOK'
  <2>1. CASE Ring!StoreFix(fix)
    <3>1. newest_fix_id' \in Ring!Slots
      BY <1>0, <2>1 DEF Ring!StoreFix
    <3> QED
      BY <1>3, <2>1, <3>1 DEF Ring!AddFix, Ring!StoreFix
  <2>2. CASE Ring!SkipFix(fix)
    BY <1>3, <2>2 DEF Ring!AddFix, Ring!SkipFix
  <2> QED
    BY <1>3, <2>1, <2>2 DEF Ring!AddFix
<1> QED
  BY <1>1, <1>2, <1>3
(* The types that main() and the ISR share with nobody.                    *)
MainTyped == /\ build \in Builds
             /\ pc \in Starting \cup Operating
             /\ seconds \in 0 .. MaxSeconds
             /\ sec_overflows \in 0 .. TLM_HZ - 1
             /\ budget \in Nat
             /\ current_fix \in Fixes \cup {NoFix}
             /\ backlog_transmitted \in BOOLEAN
             /\ tlm_state \in {"TX_RTTY", "TX_APRS"}
             /\ count \in 0 .. BLIP_FACTOR
             /\ aprs_buf \in Contents /\ tx_buf \in Contents \ {"backlog"}

LEMMA TypeParts == TypeOK <=> MainTyped /\ RttyTyped /\ Ring!TypeOK
  BY DEF TypeOK, MainTyped, RttyTyped

(* main() and the resets do to the ring what Backlog.tla does to it.       *)
RingNext == Ring!GetNextFix \/ Ring!Reset \/ \E fix \in Fixes : Ring!AddFix(fix)

LEMMA RingDriven ==
  ASSUME [Next]_vars
  PROVE  RingNext \/ UNCHANGED ringVars
<1>1. ASSUME SendRegular PROVE \E fix \in Fixes : Ring!AddFix(fix)
  BY <1>1 DEF SendRegular
<1>2. ASSUME NoBacklogFix \/ SendBacklog PROVE Ring!GetNextFix
  BY <1>2 DEF NoBacklogFix, SendBacklog
<1>3. ASSUME Reset PROVE Ring!Reset
  BY <1>3 DEF Reset
<1>4. ASSUME \/ UNCHANGED vars \/ StartUp \/ Configured \/ BlipPoll \/ BlipFix
             \/ Blip \/ EnterOperation \/ SkipBacklog \/ BacklogSent
             \/ SkipRegular \/ BeginRegular \/ RegularSent \/ CallRtty \/ Tick
      PROVE  UNCHANGED ringVars
  BY <1>4 DEF vars, StartUp, Configured, BlipPoll, BlipFix, Blip,
       EnterOperation, SkipBacklog, BacklogSent, SkipRegular, BeginRegular,
       RegularSent, CallRtty, Tick
<1> QED
  BY <1>1, <1>2, <1>3, <1>4 DEF RingNext, Next, Main

LEMMA RingStep ==
  ASSUME Ring!TypeOK, [Next]_vars
  PROVE  Ring!TypeOK'
<1>1. CASE UNCHANGED ringVars
  BY <1>1 DEF ringVars, Ring!TypeOK
<1>2. CASE RingNext
  BY <1>2, RingTyped DEF RingNext
<1> QED
  BY <1>1, <1>2, RingDriven

(* The calls that configure the radio, whatever it was set to before.      *)
LEMMA RadioStep ==
  ASSUME RttyTyped, [Next]_vars, ~CallRtty
  PROVE  radio' \in Radios /\ si_data' \in {0, 1}
<1>1. radio \in Radios /\ si_data \in {0, 1}
  BY DEF RttyTyped
<1>2. {"OOK", "2FSK", "2GFSK"} \subseteq Modulations
  BY DEF Modulations
<1>3. CASE StartUp \/ Configured \/ EnterOperation
  BY <1>1, <1>2, <1>3, RadioTypes DEF StartUp, Configured, EnterOperation
<1>4. CASE SendBacklog \/ SendRegular
  <2>1. radio' = StartTx(Setup(FreqAprs(radio), "2GFSK")) /\ UNCHANGED si_data
    BY <1>4 DEF SendBacklog, SendRegular, StartAprs
  <2> QED
    BY <1>1, <1>2, <2>1, RadioTypes
<1>5. CASE BacklogSent \/ RegularSent
  BY <1>1, <1>5, RadioTypes DEF BacklogSent, RegularSent
<1>6. CASE Blip
  BY <1>1, <1>6 DEF Blip
<1>7. CASE \/ UNCHANGED vars \/ BlipPoll \/ BlipFix \/ SkipBacklog
           \/ NoBacklogFix \/ SkipRegular \/ BeginRegular \/ Tick \/ Reset
  BY <1>1, <1>7 DEF vars, BlipPoll, BlipFix, SkipBacklog, NoBacklogFix,
       SkipRegular, BeginRegular, Tick, Reset
<1> QED
  BY <1>3, <1>4, <1>5, <1>6, <1>7 DEF Next, Main

(* Steps that leave the frame to tx_rtty() where it is.                    *)
Unframed == \/ UNCHANGED vars \/ StartUp \/ Configured \/ BlipPoll \/ BlipFix
            \/ Blip \/ EnterOperation \/ SkipBacklog \/ NoBacklogFix
            \/ SendBacklog \/ BacklogSent \/ SkipRegular \/ BeginRegular \/ Tick

LEMMA UnframedStep ==
  ASSUME Unframed
  PROVE  UNCHANGED rttyVars /\ (tlm_tick' = tlm_tick \/ tlm_tick' \in {0, 1})
  BY DEF Unframed, vars, timeVars, StartUp, Configured, BlipPoll, BlipFix, Blip,
       EnterOperation, SkipBacklog, NoBacklogFix, SendBacklog, BacklogSent,
       SkipRegular, BeginRegular, Tick

LEMMA RttyStep ==
  ASSUME RttyTyped, [Next]_vars, ~CallRtty
  PROVE  RttyTyped'
<1>1. radio' \in Radios /\ si_data' \in {0, 1}
  BY RadioStep
<1>2. CASE Unframed
  BY <1>1, <1>2, UnframedStep DEF RttyTyped, rttyVars, machineVars
<1>3. CASE SendRegular
  <2>1. /\ tx_buf_rdy' = tx_buf_rdy \/ tx_buf_rdy' = TRUE
        /\ tx_buf_length' = tx_buf_length \/ tx_buf_length' = TX_BUF_MAX_LENGTH
        /\ UNCHANGED <<tlm_tick, machineVars>>
    BY <1>3 DEF SendRegular
  <2>2. tx_buf_rdy' \in BOOLEAN
    BY <2>1 DEF RttyTyped
  <2> QED
    BY <1>1, <2>1, <2>2 DEF RttyTyped, machineVars
<1>4. CASE RegularSent
  <2>1. /\ tx_buf_rdy' = IF InRtty THEN build = "RTTY" \/ SlowTlm
                         ELSE tx_buf_rdy
        /\ UNCHANGED <<tlm_tick, tx_buf_length, machineVars>>
    BY <1>4 DEF RegularSent, timeVars
  <2>2. tx_buf_rdy' \in BOOLEAN
    BY <2>1 DEF RttyTyped
  <2> QED
    BY <1>1, <2>1, <2>2 DEF RttyTyped, machineVars
<1>5. CASE Reset
  <2>1. tx_buf_rdy' \in BOOLEAN
    BY <1>5 DEF Reset, RamCleared
  <2> QED
    BY <1>1, <1>5, <2>1, ConstantTypes
       DEF RttyTyped, Reset, RamCleared, Rtty!CharStates
<1> QED
  BY <1>2, <1>3, <1>4, <1>5 DEF Next, Main, Unframed
LEMMA MainStep ==
  ASSUME MainTyped, [Next]_vars
  PROVE  MainTyped'
<1> USE ConstantTypes DEF MainTyped, Starting, Operating, Sending, Contents,
                          timeVars, mainVars, bufVars
<1>1. CASE UNCHANGED vars
  BY <1>1 DEF vars
<1>2. CASE StartUp \/ Configured \/ BlipPoll
  BY <1>2 DEF StartUp, Configured, BlipPoll
<1>3. CASE BlipFix
  BY <1>3 DEF BlipFix
<1>4. CASE Blip
  <2>1. count' \in 0 .. BLIP_FACTOR
    BY <1>4 DEF Blip, NextCount
  <2> QED
    BY <1>4, <2>1 DEF Blip
<1>5. CASE EnterOperation
  BY <1>5 DEF EnterOperation
<1>6. CASE SkipBacklog \/ NoBacklogFix
  BY <1>6 DEF SkipBacklog, NoBacklogFix
<1>7. CASE SendBacklog
  BY <1>7 DEF SendBacklog, StartAprs
<1>8. CASE BacklogSent
  <2>1. backlog_transmitted' \in BOOLEAN
    BY <1>8 DEF BacklogSent
  <2> QED
    BY <1>8, <2>1 DEF BacklogSent
<1>9. CASE SkipRegular \/ BeginRegular
  BY <1>9 DEF SkipRegular, BeginRegular
<1>10. CASE SendRegular
  <2>1. aprs_buf' \in Contents
    BY <1>10 DEF SendRegular, Aged
  <2>2. tx_buf' \in Contents \ {"backlog"}
    BY <1>10 DEF SendRegular, Aged
  <2> QED
    BY <1>10, <2>1, <2>2 DEF SendRegular, StartAprs, RestartInterval
<1>11. CASE RegularSent
  BY <1>11 DEF RegularSent, RearmBacklog
<1>12. CASE CallRtty
  BY <1>12 DEF CallRtty
<1>13. CASE Tick
  BY <1>13 DEF Tick
<1>14. CASE Reset
  <2>1. backlog_transmitted' \in BOOLEAN
    BY <1>14 DEF Reset, RamCleared
  <2> QED
    BY <1>14, <2>1 DEF Reset, RamCleared
<1> QED
  BY <1>1, <1>2, <1>3, <1>4, <1>5, <1>6, <1>7, <1>8, <1>9, <1>10, <1>11,
     <1>12, <1>13, <1>14 DEF Next, Main

(* Where tx_rtty() is called the carrier is on as its state says, so that  *)
(* it keeps its types and stays in its frame.                              *)
LEMMA CallFromLoop ==
  ASSUME TrackerInv, CallRtty
  PROVE  /\ RttyTyped' /\ FrameInv'
         /\ radio'.tx <=> tx_state' = 1
         /\ radio'.chan = radio.chan
         /\ radio.mod = "2FSK" => radio'.mod = "2FSK"
         /\ Active' => Active
         /\ Active' => Left' <= Left /\ (tlm_tick = 1 => Left' = Left - 1)
<1>1. pc = "rtty" /\ Rtty!TxRtty
  BY DEF CallRtty
<1>2. radio.tx <=> tx_state = 1
  BY <1>1 DEF TrackerInv, RadioInv, Operating, Sending
<1>3. RttyTyped /\ FrameInv
  BY TypesOfRtty DEF TrackerInv
<1> QED
  BY <1>1, <1>2, <1>3, RttyCalled

LEMMA TypeNext ==
  ASSUME TrackerInv, [Next]_vars
  PROVE  TypeOK'
<1>1. MainTyped /\ RttyTyped /\ Ring!TypeOK
  BY TypeParts DEF TrackerInv
<1>2. MainTyped' /\ Ring!TypeOK'
  BY <1>1, MainStep, RingStep
<1>3. RttyTyped'
  BY <1>1, RttyStep, CallFromLoop
<1>4. TypeOK' <=> MainTyped' /\ RttyTyped' /\ Ring!TypeOK'
  BY DEF TypeOK, MainTyped, RttyTyped
<1> QED
  BY <1>2, <1>3, <1>4

----------------------------------------------------------------------------
(* The inductive invariant, one conjunct at a time.                        *)

LEMMA InvInit == Init => TrackerInv
<1> SUFFICES ASSUME Init PROVE TrackerInv
  OBVIOUS
<1>1. TypeOK
  BY TypeInit
<1>2. /\ pc = "boot" /\ tx_buf_rdy = FALSE /\ tx_state = 0
      /\ char_state = "IDLE" /\ i = 0 /\ current_fix = NoFix
  BY DEF Init
<1>3. FrameInv
  BY <1>2, ConstantTypes DEF FrameInv, Rtty!Rested, Rtty!ReadsInsideFrame
<1>4. OwnerInv /\ RadioInv /\ ContentsInv /\ TimeInv
  BY <1>2 DEF OwnerInv, RadioInv, ContentsInv, TimeInv, Active, Sending,
       Operating, Passing, NoFix
<1> QED
  BY <1>1, <1>3, <1>4 DEF TrackerInv

(* Past the offset no RTTY frame is under way: the frame, the APRS frame   *)
(* before it and a tick of delay each have ended by then.                  *)
LEMMA FrameEndsInTime ==
  ASSUME TrackerInv, pc \in Passing, Active
  PROVE  seconds <= TLM_BACKLOG_OFFSET
<1>1. TypeOK /\ FrameInv /\ TimeInv
  BY DEF TrackerInv
<1>2. Left \in Nat /\ budget \in Nat /\ seconds \in Nat
  BY <1>1, LeftType, TypesOfRtty, ConstantTypes DEF TypeOK
<1>3. Elapsed + Left + budget <= TLM_HZ + AprsTicks + FrameTicks
  BY <1>1 DEF TimeInv
<1>4. Elapsed \in Nat /\ Elapsed < OffsetTicks + TLM_HZ
  BY <1>1, <1>2, <1>3, ElapsedBounds, Timing, ConstantTypes
<1> QED
  BY <1>1, <1>2, <1>4, ElapsedBounds, ConstantTypes, Timing

(* So every APRS frame starts with the RTTY transmitter at rest.           *)
LEMMA RestsForAprs ==
  ASSUME TrackerInv, SendBacklog \/ BeginRegular
  PROVE  ~Active
<1>1. SUFFICES ASSUME Active PROVE FALSE
  OBVIOUS
<1>2. pc \in Passing
  BY DEF SendBacklog, BeginRegular, Passing
<1>3. seconds <= TLM_BACKLOG_OFFSET /\ seconds \in Nat
  BY <1>1, <1>2, FrameEndsInTime, ConstantTypes DEF TrackerInv, TypeOK
<1>4. InRtty
  BY <1>1 DEF TrackerInv, OwnerInv
<1>5. CASE SendBacklog
  BY <1>3, <1>5, ConstantTypes DEF SendBacklog, BacklogDue
<1>6. CASE BeginRegular
  BY <1>3, <1>4, <1>6, ConstantTypes, TimingAssumption
     DEF BeginRegular, RegularDue
<1> QED
  BY <1>5, <1>6

LEMMA FrameNext ==
  ASSUME TrackerInv, [Next]_vars
  PROVE  FrameInv'
<1>0. RttyTyped /\ FrameInv /\ OwnerInv
  BY TypesOfRtty DEF TrackerInv
<1> USE DEF FrameInv, Rtty!Rested, Rtty!ReadsInsideFrame
<1>1. CASE Unframed
  BY <1>0, <1>1, UnframedStep DEF rttyVars, machineVars, Rtty!NumChars
<1>2. CASE SendRegular
  <2>1. ~Active /\ UNCHANGED machineVars
    BY <1>0, <1>2 DEF SendRegular, OwnerInv, Passing
  <2> QED
    BY <1>0, <2>1 DEF Active, machineVars
<1>3. CASE RegularSent
  <2>1. tx_state # 1 /\ UNCHANGED machineVars
    BY <1>0, <1>3 DEF RegularSent, OwnerInv, Active
  <2> QED
    BY <1>0, <2>1 DEF RttyTyped, machineVars
<1>4. CASE CallRtty
  BY <1>4, CallFromLoop
<1>5. CASE Reset
  BY <1>5, ConstantTypes DEF Reset, RamCleared
<1> QED
  BY <1>1, <1>2, <1>3, <1>4, <1>5 DEF Next, Main, Unframed
(* Start-up: no frame is under way, and none begins.                       *)
StartingStep == \/ StartUp \/ Configured \/ BlipPoll \/ BlipFix \/ Blip
                \/ EnterOperation

LEMMA IdleAtStart ==
  ASSUME OwnerInv, StartingStep
  PROVE  ~Active /\ ~Active' /\ tx_state' = tx_state
<1>1. pc \in Starting
  BY DEF StartingStep, StartUp, Configured, BlipPoll, BlipFix, Blip,
         EnterOperation, Starting
<1>2. UNCHANGED rttyVars
  BY UnframedStep DEF StartingStep, Unframed
<1>3. ~Active
  BY <1>1 DEF OwnerInv, Starting, Passing
<1> QED
  BY <1>2, <1>3 DEF Active, rttyVars, machineVars

LEMMA OwnerNext ==
  ASSUME TrackerInv, [Next]_vars
  PROVE  OwnerInv'
<1>0. OwnerInv /\ RttyTyped
  BY TypesOfRtty DEF TrackerInv
<1> USE DEF OwnerInv, Active, InRtty, Passing
<1>1. CASE UNCHANGED vars
  BY <1>0, <1>1 DEF vars, mainVars, rttyVars, machineVars
<1>2. CASE StartingStep
  BY <1>0, <1>2, IdleAtStart
<1>3. CASE SkipBacklog \/ NoBacklogFix \/ SkipRegular
  BY <1>0, <1>3 DEF SkipBacklog, NoBacklogFix, SkipRegular, mainVars,
                    rttyVars, machineVars
<1>4. CASE SendBacklog \/ BeginRegular
  <2>1. ~Active
    BY <1>4, RestsForAprs
  <2> QED
    BY <1>4, <2>1 DEF SendBacklog, BeginRegular, rttyVars, machineVars
<1>5. CASE BacklogSent
  BY <1>0, <1>5 DEF BacklogSent, rttyVars, machineVars
<1>6. CASE SendRegular
  <2>1. /\ ~tx_buf_rdy /\ tx_state # 1
        /\ UNCHANGED <<build, tlm_state, tx_state>> /\ pc' = "sendRegular"
        /\ ~InRtty => UNCHANGED tx_buf_rdy
    BY <1>0, <1>6 DEF SendRegular, machineVars
  <2> QED
    BY <1>0, <2>1 DEF RttyTyped
<1>7. CASE RegularSent
  <2>1. /\ pc = "sendRegular" /\ UNCHANGED <<build, tx_state>>
        /\ pc' = IF InRtty THEN "rtty" ELSE "loop"
        /\ tx_buf_rdy' = IF InRtty THEN build = "RTTY" \/ SlowTlm
                         ELSE tx_buf_rdy
        /\ tlm_state' = IF build = "RTTY_ONLY"
                          THEN IF SlowTlm THEN "TX_RTTY" ELSE "TX_APRS"
                          ELSE tlm_state
    BY <1>7 DEF RegularSent, machineVars
  <2>2. tx_state # 1 /\ (tx_buf_rdy => InRtty)
    BY <1>0, <2>1
  <2>3. CASE InRtty
    <3>1. radio'.chan = "rtty" /\ radio'.mod = "2FSK"
      BY <1>0, <1>7, <2>3 DEF RegularSent, Freq2mRtty, StopTx, RttyTyped, Radios
    <3> QED
      BY <2>1, <2>2, <2>3, <3>1
  <2>4. CASE ~InRtty
    BY <2>1, <2>2, <2>4
  <2> QED
    BY <2>3, <2>4
<1>8. CASE CallRtty
  <2>1. /\ Active' => Active
        /\ radio'.chan = radio.chan
        /\ radio.mod = "2FSK" => radio'.mod = "2FSK"
    BY <1>8, CallFromLoop
  <2> QED
    BY <1>0, <1>8, <2>1 DEF CallRtty, mainVars
<1>9. CASE Tick
  BY <1>0, <1>9 DEF Tick, mainVars, rttyVars, machineVars
<1>10. CASE Reset
  BY <1>10 DEF Reset, RamCleared
<1> QED
  BY <1>1, <1>2, <1>3, <1>4, <1>5, <1>6, <1>7, <1>8, <1>9, <1>10
     DEF Next, Main, StartingStep

LEMMA RadioNext ==
  ASSUME TrackerInv, [Next]_vars
  PROVE  RadioInv'
<1>0. OwnerInv /\ RadioInv /\ RttyTyped /\ radio \in Radios
  BY TypesOfRtty DEF TrackerInv, RttyTyped
<1> USE DEF RadioInv, Sending, Operating
<1>1. CASE UNCHANGED vars
  BY <1>0, <1>1 DEF vars, rttyVars, machineVars
<1>2. CASE StartingStep
  <2>1. ~Active /\ tx_state' = tx_state
    BY <1>0, <1>2, IdleAtStart
  <2>2. CASE EnterOperation
    <3>1. pc' = "loop" /\ radio' = Setup(StopTx(radio), "2FSK")
      BY <2>2 DEF EnterOperation
    <3>2. ~radio'.tx
      BY <1>0, <3>1 DEF Setup, StopTx, Radios
    <3> QED
      BY <2>1, <3>1, <3>2 DEF Active
  <2>3. CASE StartUp \/ Configured \/ BlipPoll \/ BlipFix \/ Blip
    BY <2>3 DEF StartUp, Configured, BlipPoll, BlipFix, Blip
  <2> QED
    BY <1>2, <2>2, <2>3 DEF StartingStep
<1>3. CASE SkipBacklog \/ NoBacklogFix \/ SkipRegular \/ BeginRegular
  BY <1>0, <1>3 DEF SkipBacklog, NoBacklogFix, SkipRegular, BeginRegular,
                    rttyVars, machineVars
<1>4. CASE SendBacklog \/ SendRegular
  <2>1. /\ radio' = StartTx(Setup(FreqAprs(radio), "2GFSK"))
        /\ pc' \in Sending
    BY <1>4 DEF SendBacklog, SendRegular, StartAprs
  <2>2. radio'.tx /\ radio'.chan = "aprs" /\ radio'.mod = "2GFSK"
    BY <1>0, <2>1 DEF StartTx, Setup, FreqAprs, Radios
  <2> QED
    BY <2>1, <2>2
<1>5. CASE BacklogSent \/ RegularSent
  <2>1. ~radio'.tx /\ pc' \notin Sending
    BY <1>0, <1>5 DEF BacklogSent, RegularSent, StopTx, Freq2mRtty, Radios
  <2>2. tx_state' # 1
    BY <1>0, <1>5 DEF BacklogSent, RegularSent, rttyVars, machineVars,
                      OwnerInv, Active, Passing
  <2> QED
    BY <2>1, <2>2
<1>6. CASE CallRtty
  <2>1. radio'.tx <=> tx_state' = 1
    BY <1>6, CallFromLoop
  <2> QED
    BY <1>6, <2>1 DEF CallRtty
<1>7. CASE Tick
  BY <1>0, <1>7 DEF Tick, rttyVars, machineVars
<1>8. CASE Reset
  BY <1>8 DEF Reset, RamCleared
<1> QED
  BY <1>1, <1>2, <1>3, <1>4, <1>5, <1>6, <1>7, <1>8 DEF Next, Main, StartingStep

LEMMA ContentsNext ==
  ASSUME TrackerInv, [Next]_vars
  PROVE  ContentsInv'
<1>0. OwnerInv /\ ContentsInv /\ RttyTyped
  BY TypesOfRtty DEF TrackerInv
<1> USE DEF ContentsInv, InRtty
<1>1. CASE UNCHANGED vars
  BY <1>0, <1>1 DEF vars, mainVars, bufVars, rttyVars, machineVars, Active
<1>2. CASE StartingStep
  <2>1. ~Active'
    BY <1>0, <1>2, IdleAtStart
  <2>2. pc' # "sendRegular"
    BY <1>2 DEF StartingStep, StartUp, Configured, BlipPoll, BlipFix, Blip,
                EnterOperation
  <2> QED
    BY <2>1, <2>2
<1>3. CASE \/ SkipBacklog \/ NoBacklogFix \/ SendBacklog \/ BacklogSent
           \/ SkipRegular \/ BeginRegular
  BY <1>0, <1>3 DEF SkipBacklog, NoBacklogFix, SendBacklog, BacklogSent,
     SkipRegular, BeginRegular, mainVars, bufVars, rttyVars, machineVars, Active
<1>4. CASE SendRegular
  <2>1. ~Active /\ UNCHANGED <<build, tlm_state, tx_state>>
    BY <1>0, <1>4 DEF SendRegular, OwnerInv, Passing, machineVars
  <2>2. PICK fix \in Fixes :
          /\ current_fix' = fix
          /\ aprs_buf' = IF Usable(fix) THEN "current" ELSE Aged(aprs_buf)
          /\ IF Usable(fix) /\ InRtty
               THEN tx_buf' = "current"
               ELSE UNCHANGED tx_buf_rdy
    BY <1>4 DEF SendRegular
  <2> QED
    BY <2>1, <2>2 DEF Usable, Active
<1>5. CASE RegularSent
  <2>1. /\ pc = "sendRegular" /\ pc' # "sendRegular"
        /\ UNCHANGED <<current_fix, bufVars, tx_state>>
        /\ ~InRtty => UNCHANGED tx_buf_rdy
    BY <1>5 DEF RegularSent, machineVars
  <2> QED
    BY <1>0, <2>1 DEF bufVars, Active, OwnerInv
<1>6. CASE CallRtty
  <2>1. Active' => Active
    BY <1>6, CallFromLoop
  <2> QED
    BY <1>0, <1>6, <2>1 DEF CallRtty, mainVars, bufVars
<1>7. CASE Tick
  BY <1>0, <1>7 DEF Tick, mainVars, bufVars, rttyVars, machineVars, Active
<1>8. CASE Reset
  BY <1>8 DEF Reset, RamCleared, NoFix
<1> QED
  BY <1>1, <1>2, <1>3, <1>4, <1>5, <1>6, <1>7, <1>8 DEF Next, Main, StartingStep
(* The ranges of what TimeInv adds up, before a step and after it.         *)
Ranges == /\ Elapsed \in Nat
          /\ seconds = 0 => Elapsed < TLM_HZ
          /\ seconds <= LongestInterval + 1
               => Elapsed < IntervalTicks + 2 * TLM_HZ
          /\ Left \in 0 .. FrameTicks

LEMMA RangesHold == TypeOK /\ FrameInv => Ranges
  BY ElapsedBounds, LeftType, TypesOfRtty DEF Ranges

LEMMA RangesAfter == TypeOK' /\ FrameInv' => Ranges'
  BY RangesHold, PTL

(* main() starts the frames, the ISR counts, and TimeInv adds up.          *)
LEMMA TimeNext ==
  ASSUME TrackerInv, [Next]_vars
  PROVE  TimeInv'
<1>0. TypeOK /\ FrameInv /\ OwnerInv /\ TimeInv
  BY DEF TrackerInv
<1>c. /\ TLM_HZ \in Nat /\ TLM_HZ >= 1 /\ AprsTicks \in Nat
      /\ FrameTicks \in Nat
      /\ OffsetTicks \in Nat /\ IntervalTicks \in Nat
      /\ AprsTicks + FrameTicks + 2 <= OffsetTicks
      /\ OffsetTicks + TLM_HZ <= IntervalTicks
  BY ConstantTypes, Timing
<1>t. /\ Elapsed \in Nat /\ budget \in Nat /\ tlm_tick \in {0, 1}
      /\ seconds \in Nat
      /\ Left \in 0 .. FrameTicks
  BY <1>0, ElapsedBounds, LeftType, TypesOfRtty, ConstantTypes DEF TypeOK
<1>r. Ranges'
  BY TypeNext, FrameNext, RangesAfter
<1>p. PICK e \in Nat, l \in 0 .. FrameTicks : Elapsed' = e /\ Left' = l
  BY <1>r DEF Ranges
<1>e. ASSUME UNCHANGED <<seconds, sec_overflows>> PROVE Elapsed' = Elapsed
  BY <1>e DEF Elapsed
<1>f. ASSUME UNCHANGED rttyVars PROVE Left' = Left /\ (Active' <=> Active)
  BY <1>f DEF rttyVars, machineVars, Left, Active, Rtty!NumChars, Rtty!Pos
<1>1. CASE UNCHANGED vars
  <2>1. /\ Elapsed' = Elapsed /\ Left' = Left /\ (Active' <=> Active)
        /\ UNCHANGED <<pc, budget, tlm_tick>>
    BY <1>1, <1>e, <1>f DEF vars, timeVars
  <2> QED
    BY <1>0, <2>1 DEF TimeInv
<1>2. CASE StartUp \/ Configured \/ BlipPoll \/ BlipFix \/ Blip
  <2>1. pc' \in Starting
    BY <1>2 DEF StartUp, Configured, BlipPoll, BlipFix, Blip, Starting
  <2> QED
    BY <2>1 DEF TimeInv, Starting, Passing
<1>3. CASE EnterOperation
  <2>1. pc' = "loop" /\ budget' = 1 /\ seconds' <= LongestInterval + 1
    BY <1>3, ConstantTypes DEF EnterOperation
  <2>2. ~Active'
    BY <1>0, <1>3, IdleAtStart DEF StartingStep
  <2>3. e < IntervalTicks + 2 * TLM_HZ
    BY <1>p, <1>r, <2>1 DEF Ranges
  <2> QED
    BY <1>c, <1>p, <2>1, <2>2, <2>3 DEF TimeInv, Passing
<1>4. CASE SkipBacklog \/ NoBacklogFix
  <2>1. /\ Elapsed' = Elapsed /\ Left' = Left /\ (Active' <=> Active)
        /\ UNCHANGED <<budget, tlm_tick>> /\ pc = "loop" /\ pc' = "regular"
    BY <1>4, <1>e, <1>f DEF SkipBacklog, NoBacklogFix, timeVars
  <2> QED
    BY <1>0, <1>c, <1>t, <2>1 DEF TimeInv, Passing
<1>5. CASE SendBacklog
  <2>1. /\ Elapsed' = Elapsed /\ budget' = AprsTicks
        /\ pc = "loop" /\ pc' = "sendBacklog"
    BY <1>5, <1>e DEF SendBacklog, StartAprs, timeVars
  <2> QED
    BY <1>0, <1>c, <1>t, <2>1 DEF TimeInv, Passing
<1>6. CASE BacklogSent
  <2>1. /\ Elapsed' = Elapsed /\ budget' = 1
        /\ pc = "sendBacklog" /\ pc' = "regular"
        /\ Active' <=> Active
    BY <1>6, <1>e, <1>f DEF BacklogSent, timeVars
  <2>2. ~Active
    BY <1>0, <2>1 DEF OwnerInv, Passing
  <2> QED
    BY <1>0, <1>c, <1>t, <2>1, <2>2 DEF TimeInv, Passing
<1>7. CASE SkipRegular
  <2>1. /\ Elapsed' = Elapsed /\ Left' = Left /\ (Active' <=> Active)
        /\ UNCHANGED tlm_tick /\ pc = "regular" /\ ~RegularDue
        /\ InRtty => pc' = "rtty" /\ budget' = budget
        /\ ~InRtty => pc' = "loop" /\ budget' = 1
    BY <1>7, <1>e, <1>f DEF SkipRegular, timeVars
  <2>2. seconds <= LongestInterval
    <3>1. CASE Active
      BY <1>t, <2>1, <3>1, FrameEndsInTime, ConstantTypes, TimingAssumption
         DEF Passing
    <3>2. CASE ~Active
      BY <1>t, <2>1, <3>2, ConstantTypes DEF RegularDue, Active
    <3> QED
      BY <3>1, <3>2
  <2>3. Elapsed < IntervalTicks + TLM_HZ
    BY <1>0, <2>2, ElapsedBounds
  <2>4. Active => InRtty
    BY <1>0 DEF OwnerInv
  <2> QED
    BY <1>0, <1>c, <1>t, <2>1, <2>3, <2>4 DEF TimeInv, Passing
<1>8. CASE BeginRegular
  BY <1>8 DEF BeginRegular, TimeInv, Passing
<1>9. CASE SendRegular
  <2>1. seconds' = 0 /\ budget' = AprsTicks /\ pc' = "sendRegular"
    BY <1>9 DEF SendRegular, RestartInterval, StartAprs
  <2>2. e < TLM_HZ
    BY <1>p, <1>r, <2>1 DEF Ranges
  <2> QED
    BY <1>c, <1>p, <2>1, <2>2 DEF TimeInv, Passing
<1>10. CASE RegularSent
  <2>1. /\ Elapsed' = Elapsed /\ budget' = 1
        /\ pc = "sendRegular" /\ pc' \in {"rtty", "loop"}
    BY <1>10, <1>e DEF RegularSent, timeVars
  <2>2. Elapsed < TLM_HZ + AprsTicks
    BY <1>0, <1>c, <1>t, <2>1 DEF TimeInv
  <2> QED
    BY <1>c, <1>p, <1>t, <2>1, <2>2 DEF TimeInv, Passing
<1>11. CASE CallRtty
  <2>1. /\ Elapsed' = Elapsed /\ budget' = 1 /\ pc = "rtty" /\ pc' = "loop"
    BY <1>11, <1>e DEF CallRtty
  <2>2. /\ Active' => Active
        /\ Active' => Left' <= Left /\ (tlm_tick = 1 => Left' = Left - 1)
    BY <1>11, CallFromLoop
  <2> QED
    BY <1>0, <1>c, <1>p, <1>t, <2>1, <2>2 DEF TimeInv, Passing
<1>12. CASE Tick
  <2>1. /\ Elapsed' \in Nat /\ Elapsed' <= Elapsed + 1
        /\ Left' = Left /\ (Active' <=> Active)
        /\ pc' = pc /\ tlm_tick' = 1
    BY <1>0, <1>12, <1>f, ElapsedTick DEF Tick
  <2>2. pc \in {"boot", "configure"} \/ (budget > 0 /\ budget' = budget - 1)
    BY <1>12 DEF Tick
  <2> QED
    BY <1>0, <1>c, <1>t, <2>1, <2>2 DEF TimeInv, Passing
<1>13. CASE Reset
  BY <1>13 DEF Reset, RamCleared, TimeInv, Passing
<1> QED
  BY <1>1, <1>2, <1>3, <1>4, <1>5, <1>6, <1>7, <1>8, <1>9, <1>10, <1>11,
     <1>12, <1>13 DEF Next, Main

LEMMA InvNext == TrackerInv /\ [Next]_vars => TrackerInv'
<1> SUFFICES ASSUME TrackerInv, [Next]_vars PROVE TrackerInv'
  OBVIOUS
<1>1. TypeOK' /\ FrameInv'
  BY TypeNext, FrameNext
<1>2. OwnerInv' /\ RadioInv' /\ ContentsInv' /\ TimeInv'
  BY OwnerNext, RadioNext, ContentsNext, TimeNext
<1> QED
  BY <1>1, <1>2 DEF TrackerInv

LEMMA InvAlways == Spec => []TrackerInv
  BY InvInit, InvNext, PTL DEF Spec

----------------------------------------------------------------------------
(* The theorems.                                                           *)

(* The shared variables, the index of tx_rtty() and those of the backlog   *)
(* stay in their ranges, whatever the order of ticks, calls and resets.    *)
THEOREM TrackerTyped == Spec => []TypeOK
<1>1. TrackerInv => TypeOK
  BY DEF TrackerInv
<1> QED
  BY <1>1, InvAlways, PTL

(* An APRS frame is never sent into an RTTY frame: with timing constants   *)
(* that meet TimingAssumption, as those of main.h do, the missing check    *)
(* in main.c is not missed.                                                *)
THEOREM TransmitsOneAtATime == Spec => []OneTransmission
<1>1. TrackerInv => OneTransmission
  BY DEF TrackerInv, OwnerInv, RadioInv, OneTransmission, Active, Passing,
         Sending, Operating
<1> QED
  BY <1>1, InvAlways, PTL

(* What goes out by RTTY, or by a regular APRS frame, is the telemetry of  *)
(* the current fix whenever that is a 3D fix.                              *)
THEOREM SendsCurrentTelemetry == Spec => []TelemetryIsCurrent
<1>1. TrackerInv => TelemetryIsCurrent
  BY DEF TrackerInv, ContentsInv, TelemetryIsCurrent, Active
<1> QED
  BY <1>1, InvAlways, PTL

(* The end of the interval, in seconds: a division that SMT is shown.      *)
LEMMA InSeconds ==
  ASSUME TypeOK, Elapsed <= IntervalTicks + 2 * TLM_HZ + AprsTicks + 1
  PROVE  seconds <= LongestInterval + 1 + (AprsTicks + TLM_HZ + 1) \div TLM_HZ
<1> DEFINE a == AprsTicks + TLM_HZ + 1
           q == a \div TLM_HZ
           r == a % TLM_HZ
           s == LongestInterval + 1 + q
<1>1. /\ TLM_HZ \in Nat /\ TLM_HZ >= 1 /\ a \in Nat
      /\ seconds \in Nat /\ sec_overflows \in Nat /\ LongestInterval \in Nat
  BY ConstantTypes DEF TypeOK
<1>2. q \in Nat /\ r \in Nat /\ r < TLM_HZ /\ a = q * TLM_HZ + r
  BY <1>1
<1>3. SUFFICES ASSUME s + 1 <= seconds PROVE FALSE
  BY <1>1, <1>2
<1>s. s \in Nat /\ s + 1 \in Nat
  BY <1>1, <1>2
<1>4. (s + 1) * TLM_HZ <= seconds * TLM_HZ
  <2> HIDE DEF s
  <2> QED
    BY <1>1, <1>3, <1>s, Product
<1>5. (s + 1) * TLM_HZ = s * TLM_HZ + TLM_HZ
  <2> HIDE DEF s
  <2> QED
    BY <1>s, Product
<1>6. s * TLM_HZ = IntervalTicks + TLM_HZ + q * TLM_HZ
  BY <1>1, <1>2 DEF IntervalTicks
<1>7. q * TLM_HZ \in Nat /\ seconds * TLM_HZ \in Nat
  BY <1>1, <1>2, Product
<1>8. seconds * TLM_HZ <= IntervalTicks + TLM_HZ + a
  BY <1>1, <1>7, ConstantTypes, Timing DEF Elapsed
<1> HIDE DEF q, r, s, a
<1> QED
  BY <1>1, <1>2, <1>4, <1>5, <1>6, <1>7, <1>8, Timing

(* Regular transmissions start on time, although the RTTY branch waits for *)
(* the end of the frame and a backlog frame may come first.                *)
THEOREM CyclesOnTime == Spec => []CycleOnTime
<1>1. ASSUME TrackerInv PROVE CycleOnTime
  <2>1. TypeOK /\ TimeInv
    BY <1>1 DEF TrackerInv
  <2>2. Elapsed \in Nat /\ budget \in Nat
    BY <2>1, ElapsedBounds DEF TypeOK
  <2>3. ASSUME pc \in Passing
        PROVE  Elapsed <= IntervalTicks + 2 * TLM_HZ + AprsTicks + 1
    BY <2>1, <2>2, <2>3, Timing, ConstantTypes DEF TimeInv, Passing
  <2> QED
    BY <2>1, <2>3, InSeconds DEF CycleOnTime, Passing
<1> QED
  BY <1>1, InvAlways, PTL

(* A buffer is handed to tx_rtty() only between frames, with its machine   *)
(* at rest, and its contents change at no other time: what Rtty.tla takes  *)
(* as given of its caller.                                                 *)
THEOREM HandsOverAtRest == Spec => HandsOverBetweenFrames
<1>1. ASSUME TrackerInv, [Next]_vars, pc' # "boot"
      PROVE  /\ ~tx_buf_rdy /\ tx_buf_rdy'
                  => tx_state = 0 /\ char_state = "IDLE" /\ i = 0
             /\ tx_buf' = "current" /\ tx_buf # "current" => tx_state = 0
  <2>0. OwnerInv /\ FrameInv /\ RttyTyped
    BY <1>1, TypesOfRtty DEF TrackerInv
  <2>1. CASE SendRegular \/ RegularSent
    <3>1. tx_state = 0
      BY <2>0, <2>1 DEF SendRegular, RegularSent, OwnerInv, Active, Passing,
                        RttyTyped
    <3> QED
      BY <2>0, <3>1 DEF FrameInv, Rtty!Rested
  <2>2. CASE Unframed
    BY <2>2 DEF Unframed, vars, StartUp, Configured, BlipPoll, BlipFix, Blip,
       EnterOperation, SkipBacklog, NoBacklogFix, SendBacklog, BacklogSent,
       SkipRegular, BeginRegular, Tick, bufVars, rttyVars
  <2>3. CASE CallRtty
    <3>1. ~tx_buf_rdy => ~tx_buf_rdy'
      BY <2>3 DEF CallRtty, Rtty!TxRtty, Rtty!NothingToSend, Rtty!vars,
         Rtty!EndCarrier, Rtty!AwaitTick, Rtty!KeyBit
    <3> QED
      BY <2>3, <3>1 DEF CallRtty, bufVars
  <2>4. CASE Reset
    BY <1>1, <2>4 DEF Reset, RamCleared
  <2> QED
    BY <1>1, <2>1, <2>2, <2>3, <2>4 DEF Next, Main, Unframed
<1> QED
  BY <1>1, InvAlways, PTL DEF Spec, HandsOverBetweenFrames

----------------------------------------------------------------------------
(* The backlog in its place: the ring is driven as Backlog.tla has it      *)
(* driven, so what is proved of Backlog.tla holds of it in the firmware.   *)
Stored == INSTANCE Backlog_proofs

LEMMA RingLogged ==
  Ring!TypeOK /\ (RingNext \/ UNCHANGED ringVars)
    => [Ring!Log!Next]_([k \in 1 .. BACKLOG_MAX_ENTRIES |-> backlog[Ring!SlotOf(k)]])
<1> SUFFICES ASSUME Ring!TypeOK, RingNext \/ UNCHANGED ringVars
             PROVE  [Ring!Log!Next]_([k \in 1 .. BACKLOG_MAX_ENTRIES
                                        |-> backlog[Ring!SlotOf(k)]])
  OBVIOUS
<1>1. Stored!TypeOK
  BY DEF Ring!NULL, Ring!Slots, Ring!TypeOK, Stored!NULL, Stored!Slots, Stored!TypeOK
<1>2. [Stored!Next]_(Stored!vars)
  BY DEF ringVars, RingNext, Ring!GetNextFix, Ring!Reset, Ring!AddFix, Ring!StoreFix,
         Ring!SkipFix, Ring!Advance, Ring!NULL, Stored!Next, Stored!vars,
         Stored!GetNextFix, Stored!Reset, Stored!AddFix, Stored!StoreFix,
         Stored!SkipFix, Stored!Advance, Stored!NULL
<1>3. /\ BACKLOG_MAX_ENTRIES \in Nat \ {0}
      /\ BACKLOG_TX_INCREMENT \in Nat /\ MaxResets \in Nat
      /\ \A fix \in Fixes \cup Remains : fix.type \in Nat /\ fix.hour \in Nat
  BY TrackerAssumption
<1>4. [Stored!Log!Next]_([k \in 1 .. BACKLOG_MAX_ENTRIES |-> backlog[Stored!SlotOf(k)]])
  BY <1>1, <1>2, <1>3, Stored!LogNext
<1> QED
  BY <1>4 DEF Ring!SlotOf, Stored!SlotOf, Ring!Log!Next, Stored!Log!Next,
              Ring!Log!Add, Stored!Log!Add, Ring!Log!Reboot, Stored!Log!Reboot

(* In the whole firmware, with resets at any moment, the backlog keeps the *)
(* hourly log: only a 3D fix of another hour enters, as the newest; then   *)
(* the oldest leaves, and no other step of main() or of the ISR, and no    *)
(* reset, loses a fix.                                                     *)
THEOREM TrackerKeepsLog == Spec => Ring!KeepsHourlyLog
<1>1. TrackerInv => Ring!TypeOK
  BY DEF TrackerInv, TypeOK
<1>2. TrackerInv /\ [Next]_vars
        => [Ring!Log!Next]_([k \in 1 .. BACKLOG_MAX_ENTRIES |-> backlog[Ring!SlotOf(k)]])
  BY <1>1, RingDriven, RingLogged
<1> QED
  BY <1>2, InvAlways, PTL DEF Spec, Ring!KeepsHourlyLog, Ring!Log!Spec
=============================================================================
