----------------------------- MODULE SerialLine -----------------------------
(***************************************************************************)
(* What RTTY telemetry promises a receiver (rtty.c:13-20, main.h:34): for  *)
(* every frame handed over, the carrier comes on and successive ticks put  *)
(* on the line NUM_IDLE_BITS marks and then, for each character, one start *)
(* bit, seven data bits with the least significant first, and two stop     *)
(* bits; a bit is never skipped, repeated or taken from another frame.     *)
(* Nothing is said of how the transmitter keeps its place.                 *)
(***************************************************************************)
EXTENDS Integers, Sequences

CONSTANT NUM_IDLE_BITS

VARIABLES busy,     \* a frame is being sent
          frame,    \* its characters, each [1 .. 7 -> {0, 1}], bit 1 the LSB
          pos,      \* ticks of it already sent
          line,     \* the level on SI_DATA
          carrier   \* the transmitter is on

lineVars == <<busy, frame, pos, line, carrier>>

BitsPerChar == 10
Length(f)   == NUM_IDLE_BITS + BitsPerChar * Len(f)

(* The level of the k-th tick of frame f.                                  *)
Level(f, k) ==
  LET j == k - NUM_IDLE_BITS - 1
      c == f[(j \div BitsPerChar) + 1]
      b == j % BitsPerChar
  IN  IF k <= NUM_IDLE_BITS THEN 1
      ELSE IF b = 0 THEN 0
      ELSE IF b <= 7 THEN c[b] ELSE 1

Init == /\ busy = FALSE
        /\ pos = 0
        /\ carrier = FALSE
        /\ line \in {0, 1}

Load == /\ ~busy /\ ~carrier
        /\ busy' = TRUE
        /\ UNCHANGED <<pos, line, carrier>>

Start == /\ busy /\ ~carrier
         /\ carrier' = TRUE
         /\ UNCHANGED <<busy, frame, pos, line>>

Key == /\ busy
       /\ carrier' = TRUE
       /\ line' = Level(frame, pos + 1)
       /\ busy' = (pos + 1 # Length(frame))
       /\ pos' = IF busy' THEN pos + 1 ELSE 0
       /\ UNCHANGED frame

Stop == /\ ~busy /\ carrier
        /\ carrier' = FALSE
        /\ UNCHANGED <<busy, frame, pos, line>>

Next == Load \/ Start \/ Key \/ Stop

Spec == Init /\ [][Next]_lineVars
=============================================================================
