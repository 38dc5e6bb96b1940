# A TLA+ model of the utrak firmware

utrak is the firmware of a solar-powered balloon tracker: an MSP430
microcontroller, a u-blox GPS on a serial port and an Si4060 transmitter on SPI.
It waits for a position fix while it sends RF blips. Then it runs one endless
loop that sends APRS frames and RTTY telemetry, and retransmits old fixes from a
log in FRAM. There is no operating system. There is one loop, with state machines
that are called from it and keep static variables. Three interrupts share
one-word flags with the loop, and a watchdog may start everything over. The
memory of the log survives that reset, the variables that index it do not.

This directory holds specifications of the firmware's logic, TLC runs on small
instances and TLAPS proofs for all instances. Paths in this file are relative to
the repository.

## 1. Inventory

| Component | State it keeps | Operations | Interacts through |
|---|---|---|---|
| Main loop (`main.c:55-236`) | `current_fix`, `backlog_transmitted`, `tlm_state`, position in the pass | start-up, blip loop, one pass of the telemetry loop (three builds) | calls everything; reads `seconds`, `tx_buf_rdy` |
| Timer ISRs (`main.c:244-314`) | `sec_overflows`, `cc2_overflow`, tone counters | CCR0: tone and baud ticks; CCR2: `tlm_tick`, `seconds` | set flags, the callers clear them |
| RTTY transmitter (`rtty.c`) | `tx_state`, `char_state`, `i`, `data`, `tx_buf_index` | `tx_rtty()` | `tx_buf*` from `tlm.c`, `tlm_tick`, radio, `SI_DATA` |
| Telemetry sentence (`tlm.c`, `string.c`) | `tx_buf`, `tx_buf_length`, `sent_id`, blip `count` | `prepare_tx_buffer`, `tlm_init`, `tx_blips` | hands over to `tx_rtty()` |
| AX.25 generator (`aprs.c:128-240`) | `aprs_state`, `i`, `finished`, `bitcnt`, `onecnt`, `stuffing`, `byte`, `bit_d` | `aprs_init`, `get_next_byte`, `get_next_bit` | called by `tx_aprs()` |
| `tx_aprs()` and CCR0 | `aprs_tick`, `aprs_baud_tick`, `aprs_bit`, NCO counters | the sampling loop against the 26.4 kHz ISR | `SI_DATA`, watchdog |
| APRS payload (`aprs.c:40-121`) | `aprs_buf`, `fcs`, `aprs_seqnum` | `aprs_prepare_buffer` | current or backlog fix |
| Backlog (`backlog.c`) | ring in FRAM, `newest_fix_id`, `last_fix_id` in RAM | add, get next | main loop; survives resets |
| GPS driver (`gps.c`) | parser states, local to each call | get fix, six configuration commands with ACK | UART, blocking |
| Si4060 driver (`si4060.c`, `spi.c`) | registers in the chip | power up, set up, tune, start, stop | SPI, blocking on CTS |
| Geofence (`geofence.c`) | none | APRS channel by position, slow telemetry by altitude | radio, main loop |
| ADC (`hw.c:153-278`) | `adc_result`, sleep of the CPU | three measurements, each woken by the ADC ISR | ISR |
| Hardware set-up (`hw.c:24-142`) | registers | once at start-up | none |
| Watchdog | its counter | served in the loops | reset |

What is hard in this system:

- **Two transmissions, one radio.** APRS frames block the loop, RTTY is keyed bit
  by bit from the same loop. No lock and no check keeps them apart, only the times
  in `main.h:18-21` do.
- **Hand-over through flags.** `tx_buf_rdy`, `finished` and `tlm_tick` are set by
  one party and cleared by another, and the receiver's own state (`tx_state`) is
  reset one call later.
- **Static state over frames.** No state machine resets all of its variables.
- **Resets.** The ring stays and its indices do not.
- **Liveness.** A flag that is never cleared stops telemetry, and the loop keeps
  serving the watchdog.
- **Blocking calls without a time limit** (GPS, CTS, ADC, a missed tone tick).
- **Bit stuffing** across the borders of bytes and sections.
- **Two ISRs and the instruction between.** The tone's samples against the loop that
  toggles the pin, and a sleep in the instruction after the one that starts what
  ends it.
- **Answers without a checksum.** The GPS line loses bytes, and the parsers compare
  patterns and count lengths only.
- **Buffers written in place**, over older and longer contents, at offsets that move.

`PROJECT.json` lists these hazards line by line under "hazards", with the
property that covers each one, or why none does yet.

## 2. Modules

| Module | Models | Notes |
|---|---|---|
| `Radio` | `si4060.c` as its callers see it | operators on a record of registers; no state of its own |
| `SerialLine` | the promise of RTTY | abstract specification |
| `Rtty` | `rtty.c`, with the ISR and the hand-over as environment | extends `Radio`; implements `SerialLine` |
| `HourlyLog` | the promise of the backlog | abstract specification |
| `Backlog` | `backlog.c` and resets | implements `HourlyLog` |
| `Tracker` | `main()` and the CCR2 ISR | composes `Backlog`, `Rtty` (both by INSTANCE) and `Radio` |
| `Ax25` | `aprs.c:128-240` and the loop in `tx_aprs()` | the frame generator |
| `HdlcReceiver` | a receiver of AX.25, no part of the firmware | modelled from the protocol; external |
| `Ax25Link` | generator and receiver on one channel | composition |
| `AprsTx` | `tx_aprs()` (`aprs.c:249-287`) against the CCR0 ISR (`main.c:244-264`) | at sample granularity |
| `Gps` | `gps.c`, called as `main()` does | with the GPS and the line as environment |
| `Adc` | the measurements of `hw.c:153-278` | start, sleep, ADC ISR, timer ISR, 16-bit arithmetic |
| `Sentence` | `string.c:119-193`, `main.h:49-73`, `prepare_tx_buffer()` | pure operators; the digits of a number one after the other, no recursion |
| `AprsPayload` | `aprs_prepare_buffer()` | pure operators |
| `Telemetry` | both buffers over a flight | composes the two above |
| `Geofence` | `geofence_aprs_frequency()` | the regions, the calls they make, and the channel a position belongs to |
| `Si4060` | `si4060.c` command by command, `spi.c` | extends `Radio` and `Geofence`; checked against `Radio` |
| `MC*` | | constants for TLC; `MCBacklogReset` adds a history variable |
| `*_proofs` | | theorems; `Values_proofs` holds those of `Adc` and of `Telemetry`, as what is measured has to fit what is sent |

### Rtty

One call of `tx_rtty()` is one action. `NothingToSend` and `EndCarrier` are the
branch of lines 28-34. `AwaitTick` is a call that returns at line 44, and `KeyBit`
a call that keys a bit, with one disjunct per `case`. Both of the last two start
the carrier when `tx_state` is 0, as the code does in the same call. Variables
have the names of the source. `tx_buf_rdy` is a Boolean, and a character is the
function of its seven bits, so `data >>= 1` is a shift of that function. `i` is
shared by the idle count and the bit count, as in the code; it is not cleared
after the last data bit, only in `STOP2`. A buffer of length 0 sends one
character, because `STOP2` compares after the increment (`NumChars`).

The environment is the ISR (`Tick`, which loses a tick if the last one was not
handled) and the two hand-overs. `PrepareTxBuffer` and `TlmInit` are guarded by
`tx_state = 0`. The code has no such test: that `main()` obeys it is the property
`HandsOverBetweenFrames` of `Tracker`, where the guard is absent.

One thing the refinement does not say is how long a level lasts. The carrier is
stopped in the first call after the tick of the last `STOP2`, so the second stop
bit of a frame's last character is keyed, but not held for a bit period.

### Backlog

A fix is a record with `type` and `hour`, the two fields the code reads, and in the
MC module a `day` to tell fixes apart. `Reset` clears the indices and keeps the
ring. What FRAM holds at first power-up is a constant (`Remains`), as it is a
noinit section. `HourlyLog` is a sequence, oldest fix first, that a reset may only
rotate.

### Tracker

`pc` says where `main()` stands:

    boot -> configure -> blips <-> blipFix
                           |
                           v
          loop -> [sendBacklog] -> regular -> [getFix -> sendRegular] -> [rtty] -> loop

A step goes from one point to the next. There are points where the code blocks (a
GPS exchange, `tx_aprs()`) and where it reads what the ISR writes. `Tick` is the
ISR. The three builds (`main.h:24-25`) differ in `build`: "APRS" is the `#else`
branch at `main.c:207`, "RTTY" has `TLM_RTTY` only, and "RTTY_ONLY" also
`TLM_RTTY_ONLY`, which switches between `TX_RTTY` and `TX_APRS` by altitude. The
backlog code stands in the source three times, word for word, and once in the
model; `InRtty` says which regular branch runs.

`aprs_buf` and `tx_buf` are abstracted to whose telemetry they hold: the initial
template, the current fix, an earlier current fix or a backlog fix. In the
instance of `Rtty` all characters are blank, as their values are `Rtty`'s matter.

*Time.* `budget` is the number of ticks that may pass before the next step of
`main()`: `GpsTicks` and `AprsTicks` for the calls that block, and one for a pass
that does not. This assumes that a pass without a blocking call takes less than
a tick of 10 ms, which at 8 MHz is 80000 cycles. During start-up the number of
ticks is unlimited. `TimingAssumption` is the relation of `main.h`'s constants
that everything about overlaps rests on: an APRS frame, an RTTY frame and some
slack fit before `TLM_BACKLOG_OFFSET`. In the real values an APRS frame has 75 + 2
flags and 56 bytes, some 1070 bits at 1200 baud, or 0.9 s. An RTTY frame has 32
idle bits and ten bits for each of up to 77 characters at 100 Hz, or 8 s. The
offset is 15 s, the interval 120 s.

### Ax25, HdlcReceiver, Ax25Link

One call of `get_next_bit()` is one action. It is `SameByte` when the byte in hand
is not used up, and otherwise the first bit of a new byte, with one action per
state of `get_next_byte()`. A byte is the function of its bits, least significant
first. `NextFrame` stands for `aprs_prepare_buffer()` and `aprs_init()` at the
start of the next `tx_aprs()`; it leaves `i`, `byte` and `bit_d` alone, as the
code does. Header, payload and FCS are arbitrary bytes.

The receiver sees one level per bit, undoes NRZI and bit stuffing, and cuts frames
at flags. At the start of each transmission it is in any state that earlier noise
could have left it in.

### AprsTx

Each statement of the sampling loop that reads or writes a shared flag is one
action: the test of `aprs_tick` (`NoTick`, `Toggle`), the test of `aprs_baud_tick`
(`NoBaudTick`, `BaudTick`), `FetchBit`, and the second test of `aprs_tick` (`InTime`,
`Trap`). `TIMER0_A0_ISR` may come between any two of them. `lag` is how slow the
loop is: the most samples that may fall into one pass, for `get_next_bit()` and the
other ISR; `budget` is what is left of it. A loop is `FastEnough` when a pass takes
no more samples than the shorter half wave has, which is six. At 8 MHz a sample is
some 300 cycles (`TA0CCR0 += N_APRS_NCO - 1` makes the period 302, not the 303 that
the comment computes), so a pass may take 1800 cycles.

`Start` leaves out that an interrupt flag of the timer may be pending when it is
enabled: that extra sample falls in the delay before the loop. Only `aprs_tick` is
cleared after the delay, `aprs_baud_tick` is set by then, so the first bit of a frame,
one of 75 flags, may be short; the properties about bits begin with the second.

### Gps

`line` holds the bytes that arrive from the moment a receive function listens, `read`
how many it has taken. The UART drops a byte with a framing error (`UCRXEIE` is not
set), so an answer may lack a byte (`Damaged`), and anything in `Noises` may come
before it. One action is one byte taken by one of the parsers. The GPS (`Transmit`,
`RequestFix`) accepts, refuses or does not hear a setting. `accepted`, `solution` and
`damaged` are history variables the properties need. `Stale` marks the bytes of the
static `response[]` that an earlier call has left. Bytes past its end are counted in
`payload_cnt`, and what they overwrite is left to the linker.

### Adc

`StartConversion` and `Sleep` are the two statements of `hw.c:165-166`, with the
timer ISR possible before, between and after. A conversion takes some thirty cycles,
longer than the instruction between the two and not longer than an ISR, hence the
guard of `Convert`. `delayed` says that an ISR did come between.

### Sentence, AprsPayload, Telemetry

A buffer is a function from positions to character codes, and every write of
`prepare_tx_buffer()` is an update of that function, in the order of the code. The
domain goes on behind `tx_buf`, as the writes do. `Times10` computes a product of 32
bits in halves, because TLC's integers end where those of the code do.
`ExpectedSentence` is the reference: the sentence written from left to right with no
offsets at all. It has the fields that `tlm.c:75-84` lists, in that order, and one
more that the list leaves out, the voltage of the solar cell before the temperature
(`tlm.c:138-139`). Its numbers have all their digits, also a temperature of three, for
which the code has room for two. The CRC
unit is hardware and stands as some function of the characters. The floating-point
expressions for position and altitude are given with the fix.

### Geofence, Si4060

A call of the driver is the sequence of its steps: a wait for CTS, a command, or the
shutdown pin. `Main` chooses the calls as `main()`, `tx_aprs()`, `geofence.c` and
`tx_rtty()` make them, the driver does one step at a time, and the chip executes a
command in its own time. It may be missing (`MISO` then reads 0xFF, and CTS is always
there), may lock at any command, and does not notice a reset of the CPU, which may
come between any two steps. `radio` is the state `Radio`, the transmitter of
`Tracker`, would have after the same calls; `AgreesWithRadio` says that the registers
of the chip come to it. It is an invariant and not an INSTANCE with a refinement
mapping, because a call is one step there and many here, and the registers pass
through values that are none of its.

`Main` is the loop of `main.c:132-235` with its conditions left open. A backlog frame
(`TxBacklog`) is tuned for the fix the loop has; a regular one (`TxRegular`) begins with
a new fix, `get_fix_and_measurements()`, and is tuned for that, so that the chip may hold
the channel of any other region then. A regular frame ends in APRS only (`EndAprsOnly`),
or in a tuning to the RTTY channel (`EndRegular`), after which `tx_rtty()` either starts its
frame (`TxRtty`) or has nothing to send (`Switchover`, `main.c:162-165`).

The fractional divider is told apart by the channel, the integer divider as the
formula of `si4060.h:34` gives it. Filter, PA and data rate are one value each, "set".

## 3. Runs

| Run | Shows | Bounds and why they are enough |
|---|---|---|
| `rtty` | `RttyInv`, `SendsFrames` (refinement of `SerialLine`), `FrameEnds` | the real 32 idle bits; frames of one and two characters, so that a character is followed by another and by the end; two contents that differ in every bit and are not symmetric. Ticks and calls interleave freely. |
| `backlog` | `TypeOK`, `KeepsHourlyLog`, `EveryFixSentOrReplaced` | three slots and an increment of two, so that the read index skips and wraps; three hours on two days, 2D and 3D fixes; a reset at any time |
| `tracker` | the seven properties of `Tracker` | intervals of 6 s and a tick of 1/3 s; a frame of one character; fixes that are absent, 2D, 3D low and 3D high with the `num_svs` on both sides of the blip loop's test; two slots; one reset anywhere. `seconds` stops at 12, above every value `CycleOnTime` allows, so that the bound hides nothing. |
| `ax25` | `LinkTypeOK`, `Transparent`, `Delivers` | runs of ones inside bytes, over one and two byte borders, five and six ones before the end flag, a payload equal to a flag; headers of one and two bytes; several frames in a row. `AX25_EFLAGS = 1` is the least with which a frame is closed, and the code's 2 is weaker. |
| `aprs_tx` | `TypeOK`, `BitsOnTime`, `NoTickLost`, `HalfWavesAreExact`, `FrameEnds` | the real ticks of `aprs.h`: 6, 11 and 22; loops of one, six and seven samples a pass, the last on the wrong side of the bound; frames of three bits, one after the other with the counters running on, so that every change of tone meets every phase |
| `gps` | the six properties of `Gps` | noise that is empty, foreign, a lone 0xB5, the start of an answer, or another message's whole answer; a byte lost in the header, in the length, in fields and at the end; solutions at the edges of every field; the real length of 92 |
| `adc` | `ReadingsAreFresh`, `SleepsOnlyWhenDelayed`, `BatteryIsExact`, `MeasurementEnds` | the real ten conversions; codes at zero, at the clipping of 1380 mV and at full scale; the timer ISR anywhere |
| `telemetry` | `SentenceIsExpected`, `OverflowsWhenLong`, `PayloadDecodes` | 10001 sentences, through every length of the sentence id and the wrap of the APRS number at 8281; around each of them every fix at the edges of its fields, 100 degrees above and below zero among them, one after any other, with backlog frames in between. The wrap of `sent_id` at 65536 is not reached, neither here nor in the proofs: at two minutes a sentence it takes three months. |
| `radio` | the six properties of `Si4060` | a position in every region, in each overlap, on two borders and outside of all, any of them after any other; a chip that is there or not, and locks; a reset at any step |
| `blips` | violation: `BlipsAreOok` | constants of `tracker` |
| `old_fix` | violation: `OldFixAgain` | the APRS build of `tracker`, no reset |
| `backlog_reset` | violation: `ReplacesAnOldFix` | constants of `backlog`, with a history variable for the slot stored last |

The three violations are disagreements between a comment and the code:

- `main.c:102` sets the radio to OOK "for transmission of blips", and the next line
  but one, `si4060_freq_2m_rtty()`, writes 2FSK to the same register.
- `main.c:193` says that without a fix "the old fix is transmitted again": if a
  backlog frame was sent in between, its fix is transmitted again.
- `backlog.c:11` "replaces an old fix": after a reset it may replace the newest.

Nine more disagreements show in passing runs, as a property that says exactly when or how the
code departs from the comment ("findings" in `PROJECT.json`):

- `hw.c:166` "ADC10_ISR will force exit": unless an ISR delays the sleep until the
  result is there (`SleepsOnlyWhenDelayed`); then only the watchdog helps.
- `string.c:126`: the sentence has a wrong first digit exactly from 141.0065408 degrees
  of longitude on (`SentenceIsExpected`), although `fix.h:19` allows 180.
- `aprs.c:87` "always transmits the latest temperature / battery voltage, no historical
  values!": a backlog frame has those stored with its fix (`aprs.c:113-118`), which is what
  `PayloadDecodes` says of it.
- `fix.h:20` "range 0m, up to ~40000m, clamped": `gps.c:163-169` clamps the height to 1 to
  50000 m, and these are the bounds in `FixIsReported`.
- `tlm.c:144`: the temperature has two digits, `fix.h:23` a range to 100 degrees, which is
  sent as 00 (`SentenceIsExpected`).
- `tlm.c:138`: the voltage of the solar cell, which the list of fields at `tlm.c:75-84` does
  not have (`SentenceIsExpected`).
- `main.h:70`: the sentence is longer than `tx_buf` exactly when sentence id and altitude
  have more than seven digits together (`OverflowsWhenLong`), because the signs that
  `main.h:55` and `61` count are not counted in the buffer's length.
- `si4060.c:43` "includes a time out": its counter is commented out, and `CallsReturn`
  holds only by the watchdog.
- `main.c:131` "watchdog timer is active for resets": not in the trap of `aprs.c:278`,
  which serves it. A loop of seven samples a pass gets there, one of six does not
  (`NoTickLost`).

Seen in the source, with no run: `rtty.c:16` says 50 baud at a tick of 100 Hz, while
`tx_rtty()` keys one bit a tick (`SendsFrames`); the rate of the tick itself is a timer's
setting and no property covers it. `test/geofence.c` holds an older
`geofence_aprs_frequency()` with other regions. `main.c:61` takes the watchdog's interval for 11
seconds (it is 1.05 s with `WDTIS1` and 16.8 s with `WDTIS0` at 8 MHz), and the
comment "2FSK from async GPIO0" stands over code that selects the synchronous mode
(`si4060.c:465`), which `tx_rtty()` calls after `si4060_freq_2m_rtty()` has selected the
asynchronous one.

### Fairness

- `WF(Main)`, `WF(Tick)` in `Tracker`: the CPU goes on and the timer runs. It also
  says that the GPS answers and that `tx_aprs()` ends. The code has no time limit
  in either, so liveness is claimed under this condition. When it fails, the
  watchdog (a `Reset`) or nothing at all ends the wait.
- `WF(TxRtty)`, `WF(Tick)` in `Rtty`: the loop calls `tx_rtty()` in every pass of the
  RTTY branch.
- `WF(GetNextFix)` in `Backlog`: a backlog fix is asked for in every cycle.
  `BacklogIsSent` of `Tracker` shows that this is so in every mode.
- No fairness on hand-overs, on the fixes that arrive, or on resets. `Ax25Link` has
  none: its properties are safety.

- `WF(TxAprs)`, `WF(TIMER0_A0_ISR)` in `AprsTx`: the CPU and the timer run. `FrameEnds`
  counts the trap as an end, which `NoTickLost` rules out for a fast loop.
- `WF(Driver)`, `WF(Watchdog)` in `Gps`: the program runs on while there are bytes.
  Where it waits for a byte that will not come, nothing serves the watchdog
  (`main.c:63` and `112` have started it), and it bites. The same holds in `Adc`, for a
  CPU that sleeps with nothing to wake it, and in `Si4060`, for a chip that does not
  answer and for the CPU that stopped at `main.c:75`.
- `WF(Convert)`, `WF(ADC10_ISR)` in `Adc` and `WF(Execute)` in `Si4060`: the converter and
  the chip finish what they have begun, unless the chip locks.
- No fairness on losses, noise, locks or resets. `Telemetry` has none.

Leads-to properties of `Tracker` have the way out of a reset (`pc = "boot"`).

## 4. Proofs

All theorems hold for every value of the constants that the named assumptions of
the modules allow.

| Theorem | Statement | Argument |
|---|---|---|
| `RttyCorrect` | `Spec => []RttyInv` | `RttyInv` is inductive. `Rested` is why no reset of `char_state` and `i` is needed; `ReadsInsideFrame` ties the index to the length; `Progress` ties `data` to the character it came from, which the next theorem needs. |
| `RttySendsFrames` | `Spec => SendsFrames` | each action maps to a step or a stutter of `SerialLine`, by the position `Pos` in the frame; division by the ten bits of a character is a lemma of its own |
| `BacklogTyped` | `Spec => []TypeOK` | the modulo keeps both indices in the ring |
| `BacklogKeepsHourlyLog` | `Spec => KeepsHourlyLog` | the ring read from the slot after the newest; a store is `Add`, a reset `Reboot`, the rest stutters |
| `LinkTyped` | `LinkSpec => []LinkTypeOK` | from `LinkInv` |
| `FramesAreTransparent` | `LinkSpec => []Transparent` | `LinkInv`: in the start flags, `byte` is what is left of a flag, and its last bit sets both counts of ones to 0. From there the receiver's count equals `onecnt`, but for the moment between the fifth one and its stuffed zero, when `onecnt` is 0 already and the byte in hand begins with that zero. |
| `TrackerTyped` | `Spec => []TypeOK` | from `TrackerInv`, see below |
| `TransmitsOneAtATime` | `Spec => []OneTransmission` | from `TrackerInv` |
| `SendsCurrentTelemetry` | `Spec => []TelemetryIsCurrent` | from `TrackerInv` |
| `CyclesOnTime` | `Spec => []CycleOnTime` | from `TrackerInv`; the last step is a division by the tick rate, from a lemma on products |
| `HandsOverAtRest` | `Spec => HandsOverBetweenFrames` | from `TrackerInv` |
| `NeverAFalseAck` | `Spec => NoFalseAck` | `match_count` bytes before the next one are a prefix of one of the two patterns; from the fourth on `msg_ack` tells which, and the patterns differ nowhere else |
| `ReadsFresh` | `Spec => []ReadingsAreFresh` | while the CPU sleeps after a start, the converter is busy, done or has delivered; only `ADC10_ISR` ends the sleep |
| `SleepsOnlyWhenDelayedHolds` | `Spec => []SleepsOnlyWhenDelayed` | without a delay the conversion is not over before the sleep |
| `BatteryNeverOverflows` | `Spec => BatteryIsExact` | the sum stays below 3274 for each sample taken; the clipped mean times 47 is below 2^16 |
| `TicksAreKept` | `Spec => NoTickLost` | `AprsInv`: while a half wave is handled, the tone counter and what is left of the pass are less than a pass, which is no longer than the half wave that has begun |
| `BitsKeepTime` | `Spec => []BitsOnTime` | a bit that is due waits for a half wave that had begun before it |
| `HalfWavesKeepTime` | `Spec => HalfWavesAreExact` | each toggle is less than a pass after the tick it answers |
| `AprsTyped` | `Spec => []TypeOK` (of `AprsTx`) | types and ranges of every counter, by one case per action; it needs no timing, also a slow loop keeps them |
| `FramesAreDelivered` | `LinkSpec => []Delivers` | from `HeardInv`, see below |
| `MissedAfterStart` | `Spec => []MissedOnlyAfterStart` | from the first byte of an answer on, the match follows it, unless a match was under way |
| `ConfiguredFirst` | `Spec => []ConfiguredBeforeUse` | from `NeverAFalseAck`'s invariant and `SettingsInv`: the bytes of an acknowledgement on the line are the GPS's |
| `OneAnswer` | `Spec => FixIsOfOneAnswer` | the header is found at one place of the line only, and `response[k]` is the byte `k` behind it |
| `ReportedFix` | `Spec => FixIsReported` | the same, and the bytes of a 32-bit integer in two's complement give back the integer |
| `LastTunedChannel` | the last tuning of `geofence_aprs_frequency()` is to the channel of the position | eight regions, each with the ones that overlap it; for every position, on the map or not |
| `RadioThere`, `RadioMirrored`, `AirTuned` | `Spec => []NoFlightWithoutRadio`, `[]AgreesWithRadio`, `[]OnAirTuned` | from `IInv`, see below |
| `ChipAwaited`, `TunedBeforeOnAir` | `Spec => WaitsForChip`, `Spec => NotTunedOnAir` | action properties, from `IInv` |
| `PayloadsDecode` | `TelemetrySpec => []PayloadDecodes` | from `PayloadInv`, see below |
| `SentencesAreExpected`, `SentencesOverflow` | `TelemetrySpec => []SentenceIsExpected`, `[]OverflowsWhenLong` | from `SentenceInv`, see below |
| `VoltagesFit` | every voltage `Adc` measures is one that `Telemetry` takes | the invariant of `BatteryNeverOverflows`; a mean is no larger than the largest sample |
| `TrackerKeepsLog` | `Spec => Ring!KeepsHourlyLog` (of `Tracker`) | every step of `Tracker` is a step of `Backlog` or leaves the ring alone; then the step lemma of `Backlog_proofs`, by INSTANCE |

The three theorems on `AprsTx` hold for any lengths of half waves and bit with the shorter half wave at
least two samples and both together no longer than a bit (`AprsTxAssumption`), and for
any loop that is `FastEnough`: the real numbers of `aprs.h` are one case.

`TrackerInv` (`Tracker_proofs`) is the inductive invariant of the main loop. What keeps
the frames apart is time alone, so it counts time, in ticks. `Elapsed` is what has
passed since `seconds` was cleared, and `Left` is what the RTTY frame still needs.
`TimeInv` says that `Elapsed + Left + budget` is at most `TLM_HZ + AprsTicks +
FrameTicks` while a frame is under way. A tick adds one to `Elapsed` and takes one from
`budget`, and the call of `tx_rtty()` that ends the pass gives the tick back and takes one
from `Left`. So the sum never grows, and by `TimingAssumption` the frame is over before
`seconds` passes `TLM_BACKLOG_OFFSET`. `OwnerInv` says in which branch and at which `pc` a
frame may be under way, and holds at the start of every APRS frame because of that
bound. `FrameInv` is the part of `RttyInv` that holds when the carrier is also used for
APRS, and `ContentsInv` follows the two buffers. The theorems assume `TrackerAssumption`
and `TimingAssumption`. `seconds` is capped in the model, which can only make `Elapsed`
smaller; the cap is above both intervals, so that no test of the telemetry loop sees it, and
it may be as large as one likes.

Type correctness alone is not inductive in `Ax25`: that the shared index is inside
the array needs the state it belongs to, and the bound on ones needs the link
between the two counters.

`HeardInv` (`Ax25_proofs`) adds to `LinkInv` what the receiver holds. In the start flags
it has opened a frame with no bit of the frame in it; inside, the bits it has collected
are the first bits of header, payload and FCS, the one in hand and the stuffed one
counted; in the end flags it closes the frame. A receiver that comes from noise may
take the end of the first flag for a data bit or for an abort. Only with the second
flag it is in step whatever it heard, so `LinkAssumption` asks for two; the code sends
75. The proof is about every header and payload, so the position of a bit in the frame
is a division by eight, in lemmas of their own.

The invariants of `Gps_proofs` relate three counts to the line: how many bytes are read,
how many are matched, and where the header began. `NoiseAssumption` says of noise what
the driver cannot do without: no noise is itself the header of a position answer or the
acknowledgement of a setting (a checksum is read by nobody, so that would be taken for
the real one). `AnswersAssumption` says the same of the inside of an answer.
`SolutionsAssumption` gives the fields the widths of the protocol. TLC evaluates all three
for the constants of its run, which hold noise that ends in the start of a message.

`IInv` (`Si4060_proofs`) describes the chip by its future. `Ends(reg, v)` says that the
register will hold `v` once the command under way (`pending`) and those still to send
(`todo`) have been executed, and `TxEnds` the same of the carrier. `Mirrored` says that
this future is what `Radio.tla` says already. It is claimed while the chip is `Live`: there,
and shut down since the last reset. Before, it may be in any state the last life left, as
a reset between two commands leaves half a call behind; the shutdown of the start-up
is why this does no harm. `AirInv` keeps its own account of the registers under a carrier,
because the carrier is the one thing that stays on air over a reset. `PlanInv` and
`TodoInv` say which calls and commands are left for each phase of `main()`, and
`PaceInv` that only a shutdown, a wake-up or a wait goes out to a chip at work. The only
assumption is that a position is a pair of integers (`FixesAssumption`).

`PayloadInv` (`Values_proofs`) ties `aprs_seqnum` to `sent_id` modulo 8281, and says that the
buffer decodes to the last fix in `sent`. The lemma below it, `PayloadStands`, holds for
whatever the buffer held before, with its delimiters in place: later writes
(the delimiters) overwrite nothing they must not.

`SentenceInv` says that the head of `tx_buf` is that of `init_tx_buffer()` and that the
last sentence stands in it. That `prepare_tx_buffer()` makes it so is `SentenceStands`,
by going through the nine fields as the code does. `Stage(buf, line, c)` says that `buf`
shows `line` from its start, with the character `c` behind, and `FieldGoes` that one more
field, written right there with its delimiter, extends the line. The conversions are
exact for every number: `WritesItsWidth` for `i16toav()`, through its five
digits one by one (`DigitStep`), and `LatitudeIs` and `LongitudeIs` for the coordinates,
whose digit that moves over the dot is `CoordinatePut`. `LongitudeIs` also says when
the ninth power of ten times ten no longer fits in 32 bits and what digit comes out.
`LostDigitShows` makes of this, and of `TemperatureIs`, the exact condition under which
the sentence is wrong: a lost digit of the longitude or the temperature shows at a place
that does not depend on it.

`TelemetryAssumption` gives the fields the ranges of `fix.h` (of day, time and satellites
that they have two digits) and what the base91 fields hold, which `VoltagesFit` shows for
the voltages. `MaxSentences` may be any
number up to 65535. The buffer's length is the code's 74, because
`OverflowsWhenLong` is about that number.

Only model-checked: everything temporal that needs fairness (`FrameEnds`,
`EveryFixSentOrReplaced`, `KeepsTransmitting`, `BacklogIsSent`, `ExchangeEnds`,
`MeasurementEnds`, `CallsReturn`), which is out of the prover's reach. Every invariant and
every action property of the passing runs is proved. What the proofs do not say: that
the assumptions hold of the GPS and of a listener's noise, and that the firmware's
loops are as fast as `FastEnough` and `TimingAssumption` ask.

## 5. Not modelled

- `hw_init()` and the register settings of timers, UART, SPI and ADC: written once,
  read by nothing. Its wait for the crystal ends only when the crystal runs.
- Filter coefficients, PA and data rate of the chip beyond that they are set.
- The values of the floating-point expressions in `aprs_prepare_buffer()`, and the CRC
  unit: rounding and the CRC polynomial are not this program's logic.
- What a write behind `tx_buf` or `response[]` overwrites: the linker decides. The models
  say when such a write happens.
- Without callers: `backlog_invalidate_fixes()`, the parsers in `string.c:10-117`,
  `si4060_nop()`, `si4060_get_property_8()`, `si4060_set_property_16_nocts()`,
  `si4060_set_offset()`.
- How long calls take against the watchdog's period. A reset is possible at any moment
  in `Tracker`, `Gps` and `Si4060`; a watchdog reset that something relies on happens only
  where the program waits for ever.
- A reset in the middle of the copy of a fix into the ring (`backlog.c:23`), which leaves
  an entry of two fixes: `StoreFix` is one step, as the order of the copy is the compiler's.
- The baud rates themselves: bits are counted in ticks.
- A fix exactly 24 hours after the newest one of the log (`backlog.c:21`): what is not
  stored never was in the log, and no comment promises it.
- `test/`, `util/`, `hw/`, `pic/`.

## 6. Plan

1. The watchdog's period: a clock in `Gps` and `Si4060` that bounds the calls between two
   services.
2. Composition: `Tracker` takes `tx_rtty()` from `Rtty` and proves of its own state what
   `Rtty` assumes (`HandsOverAtRest`); that each of its frames is the `SerialLine`'s, with the
   carrier shared with APRS, is the step that is left.
3. The safety part of `EveryFixSentOrReplaced`: an increment prime to the size of the ring
   visits every slot.
