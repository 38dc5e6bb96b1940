--------------------------- MODULE Si4060_proofs ----------------------------
(***************************************************************************)
(* The driver and the chip, for any position of the tracker.  The chip is  *)
(* behind the driver, and the driver behind main(): what the registers     *)
(* will hold once the command under way and those still to send have been  *)
(* executed is what Radio.tla says they hold already.                      *)
(***************************************************************************)
EXTENDS Si4060, SequenceTheorems, TLAPS

(* Steps of a call, and calls.                                             *)
Registers == Common \cup Tuning \cup {"MOD_TYPE"}
Channel   == AprsChannels \cup {"rtty"}
Values    == {"set", "FVCO_DIV_24", "104", "105", "0", "FDEV_RTTY", "FDEV_APRS"}
               \cup Channel \cup (Modulations \X DirectModes)
Commands  == {"PART_INFO", "POWER_UP", "START_TX", "CHANGE_STATE", "SET_PROPERTY"}
Pins      == {"SHUTDOWN", "WAKEUP"}
StepNames == Commands \cup Pins \cup {"CTS", "RESPONSE"}
Items     == [cmd : StepNames]
               \cup [cmd : {"SET_PROPERTY"}, reg : Registers, val : Values]
Setups    == {"reset", "part_info", "power_up"}
CallItems == [fn : Setups \cup {"setup", "start_tx", "stop_tx", "aprs", "rtty"},
              arg : Modulations \cup AprsChannels \cup {""}]

(* The commands of a sequence of steps, and what it writes to a register.  *)
Cmds(s) == {s[k].cmd : k \in 1 .. Len(s)}
Sets(s, k, reg) == s[k].cmd = "SET_PROPERTY" /\ s[k].reg = reg
Writes(s, reg) == {s[k].val : k \in {n \in 1 .. Len(s) : Sets(s, n, reg)}}

(* Only these two do not wait for the chip before them.                    *)
Waits(s, k) == k > 1 /\ s[k - 1].cmd = "CTS"
Paced(s, ready) == \A k \in 1 .. Len(s) :
                     \/ s[k].cmd \in Pins \cup {"CTS"}
                     \/ Waits(s, k)
                     \/ k = 1 /\ ready

(* What register reg will hold after s, and whether the carrier will be on *)
(* air; now is what it holds, or whether it is, before.                    *)
Left(s, reg, v, now) == IF Writes(s, reg) # {} THEN Writes(s, reg) = {v} ELSE now
AirAfter(s, now) == IF "START_TX" \in Cmds(s) THEN TRUE
                    ELSE IF "CHANGE_STATE" \in Cmds(s) THEN FALSE
                    ELSE now
Ends(reg, v) == Left(todo, reg, v, Left(pending, reg, v, regs[reg] = v))
TxEnds == AirAfter(todo, AirAfter(pending, tx))

----------------------------------------------------------------------------
left == Len(calls)

ChipInv == /\ chip \in {"absent", "off", "busy", "ready", "stuck"}
           /\ powered \in BOOLEAN /\ tx \in BOOLEAN
           /\ chip \notin {"busy", "stuck"} => pending = <<>>
           /\ pending = <<>> \/ (\E c \in Items : pending = <<c>>)
           /\ chip = "absent" => ~tx
           /\ DOMAIN regs = Registers

SeqInv == todo \in Seq(Items) /\ calls \in Seq(CallItems)

(* Where main() is: the calls left are the end of those it makes there.    *)
IsEnd(s, plan) == /\ Len(s) <= Len(plan)
                  /\ \A k \in 1 .. Len(s) : s[k] = plan[Len(plan) - Len(s) + k]
EndOf(plan) == IsEnd(calls, plan)
PlanInv ==
  /\ phase \in {"startup", "blips", "loop", "backlog", "aprs", "regular", "rtty",
                "halted"}
  /\ fix \in Fixes
  /\ phase = "startup" => EndOf(Startup)
  /\ phase = "blips" => EndOf(Blips)
  /\ phase = "loop" => EndOf(Fixed) \/ EndOf(Stop)
  /\ phase \in {"aprs", "backlog"} => EndOf(Aprs(fix))
  /\ phase = "regular" => EndOf(Regular)
  /\ phase = "rtty" => EndOf(Rtty)
  /\ phase = "halted" => calls = <<>> /\ todo = <<>> /\ chip = "absent"
  /\ chip = "absent" => \/ phase = "halted"
                        \/ phase = "startup" /\ left >= 3
                        \/ phase = "startup" /\ left = 2 /\ "RESPONSE" \in Cmds(todo)

(* What Radio.tla says there.                                              *)
StartingUp == phase = "startup" /\ left > 0
ToStop == calls # <<>> /\ calls[1].fn = "stop_tx"
RadioInv ==
  /\ radio \in Radios
  /\ StartingUp /\ left < 4 => radio = PoweredUp
  /\ phase = "startup" /\ left < 4 => ~radio.tx
  /\ phase \in {"blips", "aprs", "backlog", "rtty"} => (radio.tx <=> calls = <<>>)
  /\ phase \in {"loop", "regular"} => (radio.tx <=> ToStop)
  /\ phase \in {"loop", "aprs", "backlog", "regular", "rtty"} => radio.chan # "none"
  /\ phase = "blips" /\ left < 2 => radio.chan # "none"

(* The call under way, by what is left of it.                              *)
TodoInv ==
  \/ todo = <<>>
  \/ /\ phase = "startup" /\ left = 3
     /\ Cmds(todo) \subseteq {"SHUTDOWN", "WAKEUP", "CTS"}
  \/ /\ phase = "startup" /\ left = 2
     /\ Cmds(todo) \subseteq {"PART_INFO", "CTS", "RESPONSE"}
  \/ /\ phase = "startup" /\ left = 1
     /\ Cmds(todo) \subseteq {"POWER_UP", "CTS"}
     /\ todo[Len(todo)].cmd = "CTS"
  \/ /\ ~StartingUp /\ ~radio.tx
     /\ Cmds(todo) \subseteq {"SET_PROPERTY", "CTS"}
  \/ /\ phase # "startup" /\ left = 0 /\ radio.tx
     /\ Cmds(todo) \subseteq {"START_TX", "CTS"}
  \/ /\ phase # "startup" /\ ~radio.tx
     /\ Cmds(todo) \subseteq {"CHANGE_STATE", "CTS"}

PaceInv == Paced(todo, chip \in {"ready", "absent"})

(* The chip is there, and has been shut down since the last reset.         *)
Live == /\ chip # "absent"
        /\ ~(phase = "startup" /\ left = 4)
        /\ "SHUTDOWN" \notin Cmds(todo)

TunesTo(chan) == \A reg \in Tuning : Ends(reg, TuningOf(chan)[reg])
Mirrored ==
  /\ ~StartingUp => \A reg \in Common : Ends(reg, "set")
  /\ Ends("MOD_TYPE", <<radio.mod, radio.direct>>)
  /\ radio.chan = "none" => \A reg \in Tuning : Ends(reg, "reset")
  /\ radio.chan = "rtty" => TunesTo("rtty")
  /\ radio.chan = "aprs" => \E chan \in AprsChannels : TunesTo(chan)
  /\ phase \in {"aprs", "backlog"} /\ left <= 2 => TunesTo(AprsChannel(fix))
  /\ TxEnds = radio.tx
Awake ==
  /\ \/ powered
     \/ phase = "startup" /\ left \in {2, 3}
     \/ /\ phase = "startup" /\ left = 1 /\ todo # <<>>
        /\ "POWER_UP" \in Cmds(todo) \/ Pending("POWER_UP")
  /\ Pending("SET_PROPERTY") \/ Pending("START_TX") => powered

(* Nothing is set while the carrier is on air.                             *)
SetUp == /\ \A reg \in Common : regs[reg] = "set"
         /\ \E chan \in AprsChannels \cup {"rtty"} : TunedTo(chan)
AirInv == /\ tx \/ Pending("START_TX") => SetUp
          /\ tx => ~Pending("SET_PROPERTY")

IInv == /\ ChipInv /\ SeqInv /\ PlanInv /\ RadioInv /\ TodoInv /\ PaceInv
        /\ Live => Mirrored /\ Awake
        /\ AirInv

----------------------------------------------------------------------------
(* Sequences of steps.                                                     *)

LEMMA ConcatSteps ==
  ASSUME NEW a \in Seq(Items), NEW b \in Seq(Items)
  PROVE  /\ a \o b \in Seq(Items)
         /\ Cmds(a \o b) = Cmds(a) \cup Cmds(b)
         /\ \A reg : Writes(a \o b, reg) = Writes(a, reg) \cup Writes(b, reg)
         /\ Paced(a, FALSE) /\ Paced(b, FALSE) => Paced(a \o b, FALSE)
<1> DEFINE c == a \o b
<1>1. /\ c \in Seq(Items) /\ Len(c) = Len(a) + Len(b)
      /\ \A k \in 1 .. Len(c) : c[k] = IF k <= Len(a) THEN a[k] ELSE b[k - Len(a)]
      /\ Len(a) \in Nat /\ Len(b) \in Nat /\ Len(c) \in Nat
  BY ConcatProperties, LenProperties
<1> HIDE DEF c
<1>2. \A k \in 1 .. Len(a) : k \in 1 .. Len(c) /\ c[k] = a[k]
  BY <1>1
<1>3. \A k \in 1 .. Len(b) : Len(a) + k \in 1 .. Len(c) /\ c[Len(a) + k] = b[k]
  <2> SUFFICES ASSUME NEW k \in 1 .. Len(b)
               PROVE  Len(a) + k \in 1 .. Len(c) /\ c[Len(a) + k] = b[k]
    OBVIOUS
  <2>1. /\ Len(a) + k \in 1 .. Len(c) /\ ~(Len(a) + k <= Len(a))
        /\ (Len(a) + k) - Len(a) = k
    BY <1>1
  <2>2. QED
    BY <1>1, <2>1
<1>4. \A k \in 1 .. Len(c) :
        \/ k \in 1 .. Len(a) /\ c[k] = a[k]
        \/ k - Len(a) \in 1 .. Len(b) /\ c[k] = b[k - Len(a)]
  BY <1>1
<1>5. Cmds(c) = Cmds(a) \cup Cmds(b)
  <2>1. \A v : v \in Cmds(c) => v \in Cmds(a) \cup Cmds(b)
    BY <1>4 DEF Cmds
  <2>2. \A v : v \in Cmds(a) \cup Cmds(b) => v \in Cmds(c)
    BY <1>2, <1>3 DEF Cmds
  <2>3. QED
    BY <2>1, <2>2
<1>6. ASSUME NEW reg PROVE Writes(c, reg) = Writes(a, reg) \cup Writes(b, reg)
  <2>1. \A v : v \in Writes(c, reg) => v \in Writes(a, reg) \cup Writes(b, reg)
    BY <1>4 DEF Writes, Sets
  <2>2. \A v : v \in Writes(a, reg) \cup Writes(b, reg) => v \in Writes(c, reg)
    BY <1>2, <1>3 DEF Writes, Sets
  <2>3. QED
    BY <2>1, <2>2
<1>7. ASSUME Paced(a, FALSE), Paced(b, FALSE) PROVE Paced(c, FALSE)
  <2> SUFFICES ASSUME NEW k \in 1 .. Len(c), c[k].cmd \notin Pins \cup {"CTS"}
               PROVE  Waits(c, k)
    BY DEF Paced
  <2>1. CASE k \in 1 .. Len(a)
    <3>1. Waits(a, k)
      BY <1>2, <1>7, <2>1 DEF Paced
    <3>2. k > 1 /\ k - 1 \in 1 .. Len(a)
      BY <1>1, <2>1, <3>1 DEF Waits
    <3>3. QED
      BY <1>2, <3>1, <3>2 DEF Waits
  <2>2. CASE ~(k \in 1 .. Len(a))
    <3> DEFINE m == k - Len(a)
    <3>1. m \in 1 .. Len(b) /\ c[k] = b[m]
      BY <1>1, <2>2
    <3>2. Waits(b, m)
      BY <1>7, <3>1 DEF Paced
    <3>3. m > 1 /\ m - 1 \in 1 .. Len(b) /\ Len(a) + (m - 1) = k - 1 /\ k > 1
      BY <1>1, <3>1, <3>2 DEF Waits
    <3>4. c[k - 1] = b[m - 1]
      BY <1>3, <3>3
    <3>5. QED
      BY <3>2, <3>3, <3>4 DEF Waits
  <2>3. QED
    BY <2>1, <2>2
<1>8. QED
  BY <1>1, <1>5, <1>6, <1>7 DEF c

LEMMA TailSteps ==
  ASSUME NEW s \in Seq(Items), s # <<>>
  PROVE  /\ Tail(s) \in Seq(Items) /\ Len(Tail(s)) = Len(s) - 1 /\ Len(s) \in Nat \ {0}
         /\ Head(s) = s[1] /\ Head(s) \in Items
         /\ Cmds(s) = {Head(s).cmd} \cup Cmds(Tail(s))
         /\ \A reg : Writes(s, reg) = (IF Sets(s, 1, reg) THEN {Head(s).val} ELSE {})
                                       \cup Writes(Tail(s), reg)
         /\ \A ready : Paced(s, ready) => Paced(Tail(s), Head(s).cmd = "CTS")
<1> DEFINE t == Tail(s)
<1>1. /\ t \in Seq(Items) /\ Len(t) = Len(s) - 1 /\ Len(s) \in Nat \ {0}
      /\ \A k \in 1 .. Len(t) : t[k] = s[k + 1]
      /\ Head(s) = s[1] /\ s[1] \in Items
  BY HeadTailProperties, EmptySeq, ElementOfSeq
<1> HIDE DEF t
<1>2. /\ \A k \in 1 .. Len(t) : k + 1 \in 1 .. Len(s) /\ t[k] = s[k + 1]
      /\ \A k \in 1 .. Len(s) : k = 1 \/ (k - 1 \in 1 .. Len(t) /\ s[k] = t[k - 1])
      /\ 1 \in 1 .. Len(s)
  BY <1>1
<1>3. Cmds(s) = {s[1].cmd} \cup Cmds(t)
  <2>1. \A v : v \in Cmds(s) => v \in {s[1].cmd} \cup Cmds(t)
    BY <1>2 DEF Cmds
  <2>2. \A v : v \in {s[1].cmd} \cup Cmds(t) => v \in Cmds(s)
    BY <1>2 DEF Cmds
  <2>3. QED
    BY <2>1, <2>2
<1>4. ASSUME NEW reg
      PROVE  Writes(s, reg) = (IF Sets(s, 1, reg) THEN {s[1].val} ELSE {})
                                \cup Writes(t, reg)
  <2> DEFINE W == (IF Sets(s, 1, reg) THEN {s[1].val} ELSE {}) \cup Writes(t, reg)
  <2>1. \A v : v \in Writes(s, reg) => v \in W
    BY <1>2 DEF Writes, Sets
  <2>2. \A v : v \in W => v \in Writes(s, reg)
    BY <1>2 DEF Writes, Sets
  <2>3. QED
    BY <2>1, <2>2
<1>5. ASSUME NEW ready, Paced(s, ready) PROVE Paced(t, s[1].cmd = "CTS")
  <2> SUFFICES ASSUME NEW k \in 1 .. Len(t), t[k].cmd \notin Pins \cup {"CTS"}
               PROVE  Waits(t, k) \/ (k = 1 /\ s[1].cmd = "CTS")
    BY DEF Paced
  <2>1. s[k].cmd = "CTS"
    <3>1. k + 1 \in 1 .. Len(s) /\ k + 1 # 1 /\ t[k] = s[k + 1] /\ (k + 1) - 1 = k
      BY <1>1
    <3>2. Waits(s, k + 1)
      BY <1>5, <3>1 DEF Paced
    <3>3. QED
      BY <3>1, <3>2 DEF Waits
  <2>2. CASE k = 1
    BY <2>1, <2>2
  <2>3. CASE k # 1
    <3>1. k > 1 /\ k - 1 \in 1 .. Len(t) /\ t[k - 1] = s[k]
      <4>1. k > 1 /\ k - 1 \in 1 .. Len(t) /\ (k - 1) + 1 = k
        BY <1>1, <2>3
      <4>2. QED
        BY <1>1, <4>1
    <3>2. QED
      BY <2>1, <3>1 DEF Waits
  <2>4. QED
    BY <2>2, <2>3
<1>6. QED
  BY <1>1, <1>3, <1>4, <1>5 DEF t

(* A wait and a write for each of the registers.                           *)
LEMMA SetAllSteps ==
  ASSUME NEW names, NEW vals, NEW n \in Nat, Len(names) = n,
         \A k \in 1 .. n : names[k] \in Registers /\ vals[names[k]] \in Values
  PROVE  /\ SetAll(names, vals) \in Seq(Items)
         /\ Cmds(SetAll(names, vals)) \subseteq {"SET_PROPERTY", "CTS"}
         /\ \A reg : Writes(SetAll(names, vals), reg) =
                      IF reg \in {names[k] : k \in 1 .. n} THEN {vals[reg]} ELSE {}
         /\ Paced(SetAll(names, vals), FALSE)
<1> DEFINE s == SetAll(names, vals)
           Set(k) == [cmd |-> "SET_PROPERTY", reg |-> names[k], val |-> vals[names[k]]]
           Wait == [cmd |-> "CTS"]
<1>1. \A reg, val : /\ si4060_set_property(reg, val)[1] = Wait
                    /\ si4060_set_property(reg, val)[2] =
                         [cmd |-> "SET_PROPERTY", reg |-> reg, val |-> val]
  BY DEF si4060_set_property, CTS, Step
<1>2. s = [k \in 1 .. 2 * n |-> IF k % 2 = 1 THEN Wait ELSE Set((k + 1) \div 2)]
  <2>1. ASSUME NEW k \in 1 .. 2 * n
        PROVE  si4060_set_property(names[(k + 1) \div 2], vals[names[(k + 1) \div 2]])
                                  [2 - (k % 2)]
                 = IF k % 2 = 1 THEN Wait ELSE Set((k + 1) \div 2)
    <3>1. k % 2 \in {0, 1}
      OBVIOUS
    <3>2. CASE k % 2 = 1
      BY <1>1, <3>2
    <3>3. CASE k % 2 = 0
      BY <1>1, <3>3
    <3>4. QED
      BY <3>1, <3>2, <3>3
  <2>2. QED
    BY <2>1 DEF SetAll
<1>3. \A k \in 1 .. 2 * n : k % 2 # 1 => (k + 1) \div 2 \in 1 .. n
  OBVIOUS
<1>4. Wait \in Items /\ \A k \in 1 .. n : Set(k) \in Items
  <2>1. Wait \in [cmd : StepNames]
    BY DEF StepNames
  <2>2. ASSUME NEW k \in 1 .. n PROVE Set(k) \in [cmd : {"SET_PROPERTY"}, reg : Registers, val : Values]
    <3>1. names[k] \in Registers /\ vals[names[k]] \in Values
      OBVIOUS
    <3>2. QED
      BY <3>1
  <2>3. QED
    BY <2>1, <2>2 DEF Items
<1>5. s \in [1 .. 2 * n -> Items] /\ 2 * n \in Nat
  BY <1>2, <1>3, <1>4
<1>6. s \in Seq(Items) /\ Len(s) = 2 * n
  BY <1>5, SeqDef
<1>7. \A k \in 1 .. 2 * n :
        /\ k % 2 = 1 => s[k].cmd = "CTS"
        /\ k % 2 # 1 => /\ s[k].cmd = "SET_PROPERTY"
                        /\ s[k].reg = names[(k + 1) \div 2]
                        /\ s[k].val = vals[names[(k + 1) \div 2]]
  <2> SUFFICES ASSUME NEW k \in 1 .. 2 * n
               PROVE  /\ k % 2 = 1 => s[k].cmd = "CTS"
                      /\ k % 2 # 1 => /\ s[k].cmd = "SET_PROPERTY"
                                      /\ s[k].reg = names[(k + 1) \div 2]
                                      /\ s[k].val = vals[names[(k + 1) \div 2]]
    OBVIOUS
  <2>1. s[k] = IF k % 2 = 1 THEN Wait ELSE Set((k + 1) \div 2)
    BY <1>2
  <2> HIDE DEF s
  <2>2. QED
    BY <2>1
<1> HIDE DEF s
<1>8. Cmds(s) \subseteq {"SET_PROPERTY", "CTS"}
  BY <1>6, <1>7 DEF Cmds
<1>9. ASSUME NEW reg
      PROVE  Writes(s, reg) = IF reg \in {names[k] : k \in 1 .. n} THEN {vals[reg]} ELSE {}
  <2>1. \A k \in 1 .. 2 * n :
          Sets(s, k, reg) => /\ (k + 1) \div 2 \in 1 .. n
                             /\ names[(k + 1) \div 2] = reg /\ s[k].val = vals[reg]
    BY <1>3, <1>7 DEF Sets
  <2>2. \A j \in 1 .. n : names[j] = reg => /\ 2 * j \in 1 .. 2 * n
                                            /\ Sets(s, 2 * j, reg)
                                            /\ s[2 * j].val = vals[reg]
    <3> SUFFICES ASSUME NEW j \in 1 .. n, names[j] = reg
                 PROVE  /\ 2 * j \in 1 .. 2 * n /\ Sets(s, 2 * j, reg)
                        /\ s[2 * j].val = vals[reg]
      OBVIOUS
    <3>1. 2 * j \in 1 .. 2 * n /\ (2 * j) % 2 # 1 /\ (2 * j + 1) \div 2 = j
      OBVIOUS
    <3>2. QED
      BY <1>7, <3>1 DEF Sets
  <2>3. \A v : v \in Writes(s, reg) => v = vals[reg] /\ reg \in {names[k] : k \in 1 .. n}
    BY <2>1, <1>6 DEF Writes
  <2>4. reg \in {names[k] : k \in 1 .. n} => vals[reg] \in Writes(s, reg)
    BY <2>2, <1>6 DEF Writes
  <2>5. QED
    BY <2>3, <2>4
<1>10. Paced(s, FALSE)
  <2> SUFFICES ASSUME NEW k \in 1 .. 2 * n, s[k].cmd # "CTS" PROVE Waits(s, k)
    BY <1>6 DEF Paced
  <2>1. k % 2 # 1
    BY <1>7
  <2>2. k > 1 /\ k - 1 \in 1 .. 2 * n /\ (k - 1) % 2 = 1
    BY <2>1
  <2>3. s[k - 1].cmd = "CTS"
    BY <1>7, <2>2
  <2>4. QED
    BY <2>2, <2>3 DEF Waits
<1>11. QED
  BY <1>6, <1>8, <1>9, <1>10 DEF s

(* A wait, and what waits before one step.                                 *)
LEMMA WaitSteps ==
  /\ CTS \in Seq(Items) /\ Cmds(CTS) = {"CTS"} /\ Paced(CTS, FALSE)
  /\ \A reg : Writes(CTS, reg) = {}
<1>1. Step("CTS") \in Items /\ Step("CTS").cmd = "CTS"
  BY DEF Step, Items, StepNames
<1>2. CTS \in Seq(Items) /\ Len(CTS) = 1 /\ CTS[1] = Step("CTS")
  BY <1>1 DEF CTS
<1>3. 1 .. Len(CTS) = {1}
  BY <1>2
<1>4. QED
  BY <1>1, <1>2, <1>3 DEF Cmds, Paced, Writes, Sets

LEMMA AfterWait ==
  ASSUME NEW c \in Items
  PROVE  LET s == CTS \o <<c>>
         IN  /\ s \in Seq(Items) /\ Cmds(s) = {"CTS", c.cmd} /\ Paced(s, FALSE)
             /\ \A reg : Writes(s, reg) = IF c.cmd = "SET_PROPERTY" /\ c.reg = reg
                                          THEN {c.val} ELSE {}
<1> DEFINE s == CTS \o <<c>>
<1>1. Step("CTS") \in Items /\ Step("CTS").cmd = "CTS"
  BY DEF Step, Items, StepNames
<1>2. /\ CTS \in Seq(Items) /\ Len(CTS) = 1 /\ CTS[1] = Step("CTS")
      /\ <<c>> \in Seq(Items) /\ Len(<<c>>) = 1 /\ <<c>>[1] = c
  BY <1>1 DEF CTS
<1>3. /\ s \in Seq(Items) /\ Len(s) = 2
      /\ \A k \in 1 .. 2 : s[k] = IF k <= 1 THEN CTS[k] ELSE <<c>>[k - 1]
  BY <1>2, ConcatProperties
<1>4. s[1] = Step("CTS") /\ s[2] = c
  <2>1. 1 \in 1 .. 2 /\ 2 \in 1 .. 2 /\ 2 - 1 = 1 /\ ~(2 <= 1) /\ 1 <= 1
    OBVIOUS
  <2>2. QED
    BY <1>2, <1>3, <2>1
<1> HIDE DEF s
<1>5. 1 .. Len(s) = {1, 2}
  BY <1>3
<1>6. Cmds(s) = {"CTS", c.cmd}
  BY <1>1, <1>4, <1>5 DEF Cmds
<1>7. \A reg : Writes(s, reg) = IF c.cmd = "SET_PROPERTY" /\ c.reg = reg
                                THEN {c.val} ELSE {}
  BY <1>1, <1>4, <1>5 DEF Writes, Sets
<1>8. Paced(s, FALSE)
  <2>1. Waits(s, 2)
    BY <1>1, <1>4 DEF Waits
  <2>2. QED
    BY <1>1, <1>4, <1>5, <2>1 DEF Paced
<1>9. QED
  BY <1>3, <1>6, <1>7, <1>8 DEF s

LEMMA CommandSteps ==
  ASSUME NEW cmd \in StepNames \ {"SET_PROPERTY"}
  PROVE  /\ Command(cmd) \in Seq(Items) /\ Cmds(Command(cmd)) = {"CTS", cmd}
         /\ Paced(Command(cmd), FALSE)
         /\ \A reg : Writes(Command(cmd), reg) = {}
<1>1. Step(cmd) \in Items /\ Step(cmd).cmd = cmd
  BY DEF Step, Items
<1>2. QED
  BY <1>1, AfterWait DEF Command

LEMMA PropertySteps ==
  ASSUME NEW reg \in Registers, NEW val \in Values
  PROVE  LET s == si4060_set_property(reg, val)
         IN  /\ s \in Seq(Items) /\ Cmds(s) = {"CTS", "SET_PROPERTY"}
             /\ Paced(s, FALSE)
             /\ \A r : Writes(s, r) = IF r = reg THEN {val} ELSE {}
<1> DEFINE c == [cmd |-> "SET_PROPERTY", reg |-> reg, val |-> val]
<1>1. c \in Items /\ c.cmd = "SET_PROPERTY" /\ c.reg = reg /\ c.val = val
  BY DEF Items
<1> HIDE DEF c
<1>2. si4060_set_property(reg, val) = CTS \o <<c>>
  BY DEF si4060_set_property, c
<1>3. QED
  BY <1>1, <1>2, AfterWait

(* Calls that set no register: the commands they send.                     *)
LEMMA ResetSteps ==
  /\ si4060_reset \in Seq(Items) /\ Cmds(si4060_reset) = {"SHUTDOWN", "WAKEUP", "CTS"}
  /\ Paced(si4060_reset, FALSE)
  /\ \A reg : Writes(si4060_reset, reg) = {}
<1> DEFINE s == <<Step("SHUTDOWN"), Step("WAKEUP")>>
<1>1. /\ Step("SHUTDOWN") \in Items /\ Step("SHUTDOWN").cmd = "SHUTDOWN"
      /\ Step("WAKEUP") \in Items /\ Step("WAKEUP").cmd = "WAKEUP"
  BY DEF Step, Items, StepNames, Pins
<1>2. s \in Seq(Items) /\ Len(s) = 2 /\ s[1] = Step("SHUTDOWN") /\ s[2] = Step("WAKEUP")
  BY <1>1
<1> HIDE DEF s
<1>3. 1 .. Len(s) = {1, 2}
  BY <1>2
<1>4. Cmds(s) = {"SHUTDOWN", "WAKEUP"} /\ Paced(s, FALSE) /\ \A reg : Writes(s, reg) = {}
  BY <1>1, <1>2, <1>3 DEF Cmds, Paced, Writes, Sets, Pins
<1>5. si4060_reset = s \o CTS
  BY DEF si4060_reset, s
<1>6. /\ s \o CTS \in Seq(Items) /\ Cmds(s \o CTS) = Cmds(s) \cup Cmds(CTS)
      /\ Paced(s \o CTS, FALSE)
      /\ \A reg : Writes(s \o CTS, reg) = Writes(s, reg) \cup Writes(CTS, reg)
  BY <1>2, <1>4, WaitSteps, ConcatSteps
<1>7. QED
  BY <1>4, <1>5, <1>6, WaitSteps

LEMMA PartInfoSteps ==
  /\ si4060_part_info \in Seq(Items)
  /\ Cmds(si4060_part_info) = {"PART_INFO", "CTS", "RESPONSE"}
  /\ Paced(si4060_part_info, FALSE)
  /\ \A reg : Writes(si4060_part_info, reg) = {}
<1> DEFINE a == Command("PART_INFO")  b == Command("RESPONSE")
<1>1. /\ a \in Seq(Items) /\ Cmds(a) = {"CTS", "PART_INFO"} /\ Paced(a, FALSE)
      /\ b \in Seq(Items) /\ Cmds(b) = {"CTS", "RESPONSE"} /\ Paced(b, FALSE)
      /\ \A reg : Writes(a, reg) = {} /\ Writes(b, reg) = {}
  BY CommandSteps DEF StepNames, Commands
<1>2. <<Step("RESPONSE")>> \in Seq(Items)
  BY DEF Step, Items, StepNames
<1>3. si4060_part_info = a \o b
  <2>1. (a \o CTS) \o <<Step("RESPONSE")>> = a \o (CTS \o <<Step("RESPONSE")>>)
    BY <1>1, <1>2, WaitSteps, ConcatAssociative
  <2>2. b = CTS \o <<Step("RESPONSE")>>
    BY DEF Command
  <2>3. QED
    BY <2>1, <2>2 DEF si4060_part_info
<1> HIDE DEF a, b
<1>4. /\ a \o b \in Seq(Items) /\ Cmds(a \o b) = Cmds(a) \cup Cmds(b)
      /\ Paced(a \o b, FALSE)
      /\ \A reg : Writes(a \o b, reg) = Writes(a, reg) \cup Writes(b, reg)
  BY <1>1, ConcatSteps
<1>5. QED
  BY <1>1, <1>3, <1>4

LEMMA PowerUpSteps ==
  /\ si4060_power_up \in Seq(Items) /\ Cmds(si4060_power_up) = {"POWER_UP", "CTS"}
  /\ si4060_power_up[Len(si4060_power_up)].cmd = "CTS"
  /\ Paced(si4060_power_up, FALSE)
  /\ \A reg : Writes(si4060_power_up, reg) = {}
<1> DEFINE a == Command("POWER_UP")
<1>1. /\ a \in Seq(Items) /\ Cmds(a) = {"CTS", "POWER_UP"} /\ Paced(a, FALSE)
      /\ \A reg : Writes(a, reg) = {}
  BY CommandSteps DEF StepNames, Commands
<1> HIDE DEF a
<1>2. si4060_power_up = a \o CTS
  BY DEF si4060_power_up, a
<1>3. /\ a \o CTS \in Seq(Items) /\ Cmds(a \o CTS) = Cmds(a) \cup Cmds(CTS)
      /\ Paced(a \o CTS, FALSE)
      /\ \A reg : Writes(a \o CTS, reg) = Writes(a, reg) \cup Writes(CTS, reg)
  BY <1>1, WaitSteps, ConcatSteps
<1>4. (a \o CTS)[Len(a \o CTS)] = CTS[1] /\ CTS[1].cmd = "CTS"
  <2>1. Len(CTS) = 1 /\ CTS[1].cmd = "CTS" /\ Len(a) \in Nat
    BY <1>1, LenProperties DEF CTS, Step
  <2>2. /\ Len(a \o CTS) = Len(a) + Len(CTS)
        /\ \A k \in 1 .. Len(a) + Len(CTS) :
              (a \o CTS)[k] = IF k <= Len(a) THEN a[k] ELSE CTS[k - Len(a)]
    BY <1>1, WaitSteps, ConcatProperties
  <2>3. /\ Len(a) + 1 \in 1 .. Len(a) + 1 /\ ~(Len(a) + 1 <= Len(a))
        /\ (Len(a) + 1) - Len(a) = 1
    BY <2>1
  <2>4. QED
    BY <2>1, <2>2, <2>3
<1>5. QED
  BY <1>1, <1>2, <1>3, <1>4, WaitSteps

LEMMA TxSteps ==
  /\ si4060_start_tx \in Seq(Items) /\ Cmds(si4060_start_tx) = {"START_TX", "CTS"}
  /\ Paced(si4060_start_tx, FALSE)
  /\ si4060_stop_tx \in Seq(Items) /\ Cmds(si4060_stop_tx) = {"CHANGE_STATE", "CTS"}
  /\ Paced(si4060_stop_tx, FALSE)
  /\ \A reg : Writes(si4060_start_tx, reg) = {} /\ Writes(si4060_stop_tx, reg) = {}
  BY CommandSteps DEF StepNames, Commands, si4060_start_tx, si4060_stop_tx

(* Calls that set registers: the value each register is left with.         *)
LEMMA PresetSteps ==
  ASSUME NEW names, NEW n \in Nat, Len(names) = n, \A k \in 1 .. n : names[k] \in Common
  PROVE  LET s == SetAll(names, Preset)
         IN  /\ s \in Seq(Items) /\ Cmds(s) \subseteq {"SET_PROPERTY", "CTS"}
             /\ Paced(s, FALSE)
             /\ \A reg : Writes(s, reg) =
                   IF reg \in {names[k] : k \in 1 .. n} THEN {"set"} ELSE {}
<1>1. \A k \in 1 .. n : names[k] \in Registers /\ Preset[names[k]] \in Values
  BY DEF Registers, Preset, Values
<1>2. \A reg \in Common : Preset[reg] = "set"
  BY DEF Preset
<1> DEFINE s == SetAll(names, Preset)
<1>3. /\ s \in Seq(Items) /\ Cmds(s) \subseteq {"SET_PROPERTY", "CTS"}
      /\ Paced(s, FALSE)
      /\ \A reg : Writes(s, reg) =
            IF reg \in {names[k] : k \in 1 .. n} THEN {Preset[reg]} ELSE {}
  BY <1>1, SetAllSteps
<1>4. \A reg : reg \in {names[k] : k \in 1 .. n} => Preset[reg] = "set"
  BY <1>2
<1>5. QED
  BY <1>3, <1>4

LEMMA SetupSteps ==
  ASSUME NEW m \in Modulations
  PROVE  LET s == si4060_setup(m)
         IN  /\ s \in Seq(Items) /\ Cmds(s) \subseteq {"SET_PROPERTY", "CTS"}
             /\ Paced(s, FALSE)
             /\ \A reg \in Common : Writes(s, reg) = {"set"}
             /\ Writes(s, "MOD_TYPE") = {<<m, "sync">>}
             /\ \A reg \in Tuning : Writes(s, reg) = {}
<1> DEFINE n1 == <<"CONFIG", "XO_TUNE", "GPIO", "PREAMBLE", "SYNC", "NCO_MOD", "DATA_RATE">>
           n3 == <<"CLKDUTY">>
           n4 == <<"COEFF_8", "COEFF_7", "COEFF_6", "COEFF_5", "COEFF_4", "COEFF_3",
                   "COEFF_2", "COEFF_1", "COEFF_0">>
           a == SetAll(n1, Preset)  b == ModType(m, "sync")
           c == SetAll(n3, Preset)  d == SetAll(n4, Preset)
           e == a \o b  f == e \o c
<1>1. /\ Len(n1) = 7 /\ 1 .. 7 = {1, 2, 3, 4, 5, 6, 7}
      /\ Len(n3) = 1 /\ 1 .. 1 = {1}
      /\ Len(n4) = 9 /\ 1 .. 9 = {1, 2, 3, 4, 5, 6, 7, 8, 9}
  OBVIOUS
<1>2. /\ {n1[k] : k \in 1 .. 7} = {"CONFIG", "XO_TUNE", "GPIO", "PREAMBLE", "SYNC",
                                  "NCO_MOD", "DATA_RATE"}
      /\ \A k \in 1 .. 7 : n1[k] \in Common
  BY <1>1 DEF Common
<1>3. {n3[k] : k \in 1 .. 1} = {"CLKDUTY"} /\ \A k \in 1 .. 1 : n3[k] \in Common
  BY <1>1 DEF Common
<1>4. {n4[k] : k \in 1 .. 9} = Filter /\ \A k \in 1 .. 9 : n4[k] \in Common
  BY <1>1 DEF Common, Filter
<1>5. si4060_setup(m) = f \o d
  BY DEF si4060_setup, si4060_set_filter
<1> HIDE DEF n1, n3, n4
<1>6. /\ a \in Seq(Items) /\ Cmds(a) \subseteq {"SET_PROPERTY", "CTS"} /\ Paced(a, FALSE)
      /\ \A reg : Writes(a, reg) = IF reg \in {n1[k] : k \in 1 .. 7} THEN {"set"} ELSE {}
  BY <1>1, <1>2, PresetSteps
<1>7. /\ c \in Seq(Items) /\ Cmds(c) \subseteq {"SET_PROPERTY", "CTS"} /\ Paced(c, FALSE)
      /\ \A reg : Writes(c, reg) = IF reg \in {n3[k] : k \in 1 .. 1} THEN {"set"} ELSE {}
  BY <1>1, <1>3, PresetSteps
<1>8. /\ d \in Seq(Items) /\ Cmds(d) \subseteq {"SET_PROPERTY", "CTS"} /\ Paced(d, FALSE)
      /\ \A reg : Writes(d, reg) = IF reg \in {n4[k] : k \in 1 .. 9} THEN {"set"} ELSE {}
  BY <1>1, <1>4, PresetSteps
<1>9. /\ b \in Seq(Items) /\ Cmds(b) = {"CTS", "SET_PROPERTY"} /\ Paced(b, FALSE)
      /\ \A reg : Writes(b, reg) = IF reg = "MOD_TYPE" THEN {<<m, "sync">>} ELSE {}
  <2>1. "MOD_TYPE" \in Registers /\ <<m, "sync">> \in Values
    BY DEF Registers, Values, DirectModes
  <2>2. QED
    BY <2>1, PropertySteps DEF ModType
<1> HIDE DEF a, b, c, d
<1>10. /\ a \o b \in Seq(Items) /\ Cmds(a \o b) = Cmds(a) \cup Cmds(b)
      /\ Paced(a \o b, FALSE)
      /\ \A reg : Writes(a \o b, reg) = Writes(a, reg) \cup Writes(b, reg)
  BY <1>6, <1>9, ConcatSteps
<1> HIDE DEF e
<1>11. /\ e \o c \in Seq(Items) /\ Cmds(e \o c) = Cmds(e) \cup Cmds(c)
      /\ Paced(e \o c, FALSE)
      /\ \A reg : Writes(e \o c, reg) = Writes(e, reg) \cup Writes(c, reg)
  BY <1>7, <1>10, ConcatSteps DEF e
<1> HIDE DEF f
<1>12. /\ f \o d \in Seq(Items) /\ Cmds(f \o d) = Cmds(f) \cup Cmds(d)
      /\ Paced(f \o d, FALSE)
      /\ \A reg : Writes(f \o d, reg) = Writes(f, reg) \cup Writes(d, reg)
  BY <1>8, <1>11, ConcatSteps DEF f
<1>13. \A reg : Writes(f \o d, reg) =
                  ((Writes(a, reg) \cup Writes(b, reg)) \cup Writes(c, reg)) \cup Writes(d, reg)
  BY <1>10, <1>11, <1>12 DEF e, f
<1>14. \A reg \in Common : Writes(f \o d, reg) = {"set"}
  <2> SUFFICES ASSUME NEW reg \in Common PROVE Writes(f \o d, reg) = {"set"}
    OBVIOUS
  <2>1. reg # "MOD_TYPE"
    BY DEF Common, Filter
  <2>2. \/ reg \in {n1[k] : k \in 1 .. 7}
        \/ reg \in {n3[k] : k \in 1 .. 1}
        \/ reg \in {n4[k] : k \in 1 .. 9}
    BY <1>2, <1>3, <1>4 DEF Common
  <2>3. QED
    BY <1>6, <1>7, <1>8, <1>9, <1>13, <2>1, <2>2
<1>15. Writes(f \o d, "MOD_TYPE") = {<<m, "sync">>}
  <2>1. /\ "MOD_TYPE" \notin {n1[k] : k \in 1 .. 7}
        /\ "MOD_TYPE" \notin {n3[k] : k \in 1 .. 1}
        /\ "MOD_TYPE" \notin {n4[k] : k \in 1 .. 9}
    BY <1>2, <1>3, <1>4 DEF Filter
  <2>2. QED
    BY <1>6, <1>7, <1>8, <1>9, <1>13, <2>1
<1>16. \A reg \in Tuning : Writes(f \o d, reg) = {}
  <2> SUFFICES ASSUME NEW reg \in Tuning PROVE Writes(f \o d, reg) = {}
    OBVIOUS
  <2>1. reg # "MOD_TYPE" /\ reg \notin Common
    BY DEF Common, Filter, Tuning, Synth
  <2>2. /\ reg \notin {n1[k] : k \in 1 .. 7}
        /\ reg \notin {n3[k] : k \in 1 .. 1}
        /\ reg \notin {n4[k] : k \in 1 .. 9}
    BY <1>2, <1>3, <1>4, <2>1
  <2>3. QED
    BY <1>6, <1>7, <1>8, <1>9, <1>13, <2>1, <2>2
<1>17. Cmds(f \o d) \subseteq {"SET_PROPERTY", "CTS"}
  BY <1>6, <1>7, <1>8, <1>9, <1>10, <1>11, <1>12 DEF e, f
<1>18. QED
  BY <1>5, <1>12, <1>14, <1>15, <1>16, <1>17

(* The five registers of the synthesizer, in whatever order, and the       *)
(* modulation.                                                             *)
LEMMA TuneSteps ==
  ASSUME NEW names, Len(names) = 5, {names[k] : k \in 1 .. 5} = Tuning,
         NEW chan \in Channel, NEW m \in Modulations, NEW direct \in DirectModes
  PROVE  LET s == ModType(m, direct) \o SetTuning(chan, names)
         IN  /\ s \in Seq(Items) /\ Cmds(s) \subseteq {"SET_PROPERTY", "CTS"}
             /\ Paced(s, FALSE)
             /\ \A reg \in Common : Writes(s, reg) = {}
             /\ Writes(s, "MOD_TYPE") = {<<m, direct>>}
             /\ \A reg \in Tuning : Writes(s, reg) = {TuningOf(chan)[reg]}
<1> DEFINE a == ModType(m, direct)  b == SetTuning(chan, names)
<1>1. /\ a \in Seq(Items) /\ Cmds(a) = {"CTS", "SET_PROPERTY"} /\ Paced(a, FALSE)
      /\ \A reg : Writes(a, reg) = IF reg = "MOD_TYPE" THEN {<<m, direct>>} ELSE {}
  <2>1. "MOD_TYPE" \in Registers /\ <<m, direct>> \in Values
    BY DEF Registers, Values
  <2>2. QED
    BY <2>1, PropertySteps DEF ModType
<1>2. \A reg \in Tuning : TuningOf(chan)[reg] \in Values
  BY DEF TuningOf, Tuning, Synth, Values
<1>3. \A k \in 1 .. 5 : names[k] \in Registers /\ TuningOf(chan)[names[k]] \in Values
  BY <1>2 DEF Registers
<1>4. /\ b \in Seq(Items) /\ Cmds(b) \subseteq {"SET_PROPERTY", "CTS"} /\ Paced(b, FALSE)
      /\ \A reg : Writes(b, reg) = IF reg \in Tuning THEN {TuningOf(chan)[reg]} ELSE {}
  BY <1>3, SetAllSteps DEF SetTuning
<1> HIDE DEF a, b
<1>5. /\ a \o b \in Seq(Items) /\ Cmds(a \o b) = Cmds(a) \cup Cmds(b)
      /\ Paced(a \o b, FALSE)
      /\ \A reg : Writes(a \o b, reg) = Writes(a, reg) \cup Writes(b, reg)
  BY <1>1, <1>4, ConcatSteps
<1>6. /\ \A reg \in Common : reg # "MOD_TYPE" /\ reg \notin Tuning
      /\ "MOD_TYPE" \notin Tuning
  BY DEF Common, Filter, Tuning, Synth
<1>7. /\ \A reg \in Common : Writes(a \o b, reg) = {}
      /\ Writes(a \o b, "MOD_TYPE") = {<<m, direct>>}
      /\ \A reg \in Tuning : Writes(a \o b, reg) = {TuningOf(chan)[reg]}
  BY <1>1, <1>4, <1>5, <1>6
<1>8. Cmds(a \o b) \subseteq {"SET_PROPERTY", "CTS"}
  BY <1>1, <1>4, <1>5
<1>9. QED
  BY <1>5, <1>7, <1>8 DEF a, b

LEMMA FreqAprsSteps ==
  ASSUME NEW chan \in AprsChannels
  PROVE  LET s == si4060_freq_aprs(chan)
         IN  /\ s \in Seq(Items) /\ Cmds(s) \subseteq {"SET_PROPERTY", "CTS"}
             /\ Paced(s, FALSE)
             /\ \A reg \in Common : Writes(s, reg) = {}
             /\ Writes(s, "MOD_TYPE") = {<<"2GFSK", "sync">>}
             /\ \A reg \in Tuning : Writes(s, reg) = {TuningOf(chan)[reg]}
<1> DEFINE n == <<"BAND", "OFFSET", "DEV", "INTE", "FRAC">>
<1>1. Len(n) = 5 /\ {n[k] : k \in 1 .. 5} = Tuning
  <2>1. Len(n) = 5 /\ 1 .. 5 = {1, 2, 3, 4, 5}
    OBVIOUS
  <2>2. QED
    BY <2>1 DEF Tuning, Synth
<1> HIDE DEF n
<1>2. chan \in Channel /\ "2GFSK" \in Modulations /\ "sync" \in DirectModes
  BY DEF Channel, Modulations, DirectModes
<1>3. si4060_freq_aprs(chan) = ModType("2GFSK", "sync") \o SetTuning(chan, n)
  BY DEF si4060_freq_aprs, n
<1> DEFINE s == ModType("2GFSK", "sync") \o SetTuning(chan, n)
<1>4. /\ s \in Seq(Items) /\ Cmds(s) \subseteq {"SET_PROPERTY", "CTS"}
      /\ Paced(s, FALSE)
      /\ \A reg \in Common : Writes(s, reg) = {}
      /\ Writes(s, "MOD_TYPE") = {<<"2GFSK", "sync">>}
      /\ \A reg \in Tuning : Writes(s, reg) = {TuningOf(chan)[reg]}
  BY <1>1, <1>2, TuneSteps
<1>5. QED
  BY <1>3, <1>4

LEMMA Freq2mRttySteps ==
  LET s == si4060_freq_2m_rtty
  IN  /\ s \in Seq(Items) /\ Cmds(s) \subseteq {"SET_PROPERTY", "CTS"}
      /\ Paced(s, FALSE)
      /\ \A reg \in Common : Writes(s, reg) = {}
      /\ Writes(s, "MOD_TYPE") = {<<"2FSK", "async">>}
      /\ \A reg \in Tuning : Writes(s, reg) = {TuningOf("rtty")[reg]}
<1> DEFINE n == <<"BAND", "INTE", "FRAC", "OFFSET", "DEV">>
<1>1. Len(n) = 5 /\ {n[k] : k \in 1 .. 5} = Tuning
  <2>1. Len(n) = 5 /\ 1 .. 5 = {1, 2, 3, 4, 5}
    OBVIOUS
  <2>2. QED
    BY <2>1 DEF Tuning, Synth
<1> HIDE DEF n
<1>2. "rtty" \in Channel /\ "2FSK" \in Modulations /\ "async" \in DirectModes
  BY DEF Channel, Modulations, DirectModes
<1>3. si4060_freq_2m_rtty = ModType("2FSK", "async") \o SetTuning("rtty", n)
  BY DEF si4060_freq_2m_rtty, n
<1> DEFINE s == ModType("2FSK", "async") \o SetTuning("rtty", n)
<1>4. /\ s \in Seq(Items) /\ Cmds(s) \subseteq {"SET_PROPERTY", "CTS"}
      /\ Paced(s, FALSE)
      /\ \A reg \in Common : Writes(s, reg) = {}
      /\ Writes(s, "MOD_TYPE") = {<<"2FSK", "async">>}
      /\ \A reg \in Tuning : Writes(s, reg) = {TuningOf("rtty")[reg]}
  BY <1>1, <1>2, TuneSteps
<1>5. QED
  BY <1>3, <1>4

----------------------------------------------------------------------------
(* The regions: the last one tuned to is the one the position belongs to.  *)

RegionSet == {Regions[r] : r \in 1 .. 8}
LastChan(s) == IF s = <<>> THEN "" ELSE s[Len(s)].chan
In(r, at) == Inside(Regions[r], at)

LEMMA RegionChannels ==
  /\ DOMAIN Regions = 1 .. 8 /\ 1 .. 8 = {1, 2, 3, 4, 5, 6, 7, 8}
  /\ Regions[1].chan = "reg2"
  /\ Regions[2].chan = "reg1"
  /\ Regions[3].chan = "brazil"
  /\ Regions[4].chan = "jp"
  /\ Regions[5].chan = "cn"
  /\ Regions[6].chan = "thai"
  /\ Regions[7].chan = "nz"
  /\ Regions[8].chan = "aus"
  BY DEF Regions

LEMMA RegionBoxes ==
  ASSUME NEW at
  PROVE  /\ In(1, at) <=> -9001 < at.lat /\ at.lat < 9001 /\ -16800 < at.lon /\ at.lon < -3400
         /\ In(2, at) <=> -9001 < at.lat /\ at.lat < 9001 /\ -3400 < at.lon /\ at.lon < 7100
         /\ In(3, at) <=> -3495 < at.lat /\ at.lat < 718 /\ -7313 < at.lon /\ at.lon < -2646
         /\ In(4, at) <=> 2938 < at.lat /\ at.lat < 4710 /\ 12716 < at.lon /\ at.lon < 15361
         /\ In(5, at) <=> 1906 < at.lat /\ at.lat < 5374 /\ 7205 < at.lon /\ at.lon < 12716
         /\ In(6, at) <=> -30 < at.lat /\ at.lat < 2042 /\ 9306 < at.lon /\ at.lon < 10515
         /\ In(7, at) <=> -5454 < at.lat /\ at.lat < -3243 /\ 16162 < at.lon /\ at.lon < 17999
         /\ In(8, at) <=> -5017 < at.lat /\ at.lat < -866 /\ 10580 < at.lon /\ at.lon < 16162
  BY DEF In, Inside, Within, Regions

LEMMA ExtendMatches ==
  ASSUME NEW s \in Seq(RegionSet), NEW r \in 1 .. 8, NEW at
  PROVE  LET t == s \o (IF In(r, at) THEN <<Regions[r]>> ELSE <<>>)
         IN  /\ t \in Seq(RegionSet)
             /\ LastChan(t) = IF In(r, at) THEN Regions[r].chan ELSE LastChan(s)
             /\ t = <<>> <=> s = <<>> /\ ~In(r, at)
<1>1. CASE In(r, at)
  <2> DEFINE x == <<Regions[r]>>
  <2>1. x \in Seq(RegionSet) /\ Len(x) = 1 /\ x[1] = Regions[r]
    BY DEF RegionSet
  <2> HIDE DEF x
  <2>2. /\ s \o x \in Seq(RegionSet) /\ Len(s \o x) = Len(s) + 1 /\ Len(s) \in Nat
        /\ \A i \in 1 .. Len(s) + 1 : (s \o x)[i] = IF i <= Len(s) THEN s[i] ELSE x[i - Len(s)]
    <3>1. /\ s \o x \in Seq(RegionSet) /\ Len(s \o x) = Len(s) + Len(x)
          /\ \A i \in 1 .. Len(s) + Len(x) :
                (s \o x)[i] = IF i <= Len(s) THEN s[i] ELSE x[i - Len(s)]
      BY <2>1, ConcatProperties
    <3>2. Len(s) \in Nat
      BY LenProperties
    <3>3. QED
      BY <2>1, <3>1, <3>2
  <2>3. (s \o x)[Len(s) + 1] = Regions[r]
    <3>1. Len(s) + 1 \in 1 .. Len(s) + 1 /\ ~(Len(s) + 1 <= Len(s)) /\ (Len(s) + 1) - Len(s) = 1
      BY <2>2
    <3>2. QED
      BY <2>1, <2>2, <3>1
  <2>4. s \o x # <<>>
    BY <2>2, EmptySeq
  <2>5. LastChan(s \o x) = Regions[r].chan
    BY <2>2, <2>3, <2>4 DEF LastChan
  <2>6. QED
    BY <1>1, <2>2, <2>4, <2>5 DEF x
<1>2. CASE ~In(r, at)
  BY <1>2, ConcatEmptySeq
<1>3. QED
  BY <1>1, <1>2

LEMMA LastMatch ==
  ASSUME NEW at
  PROVE  /\ Matches(at) \in Seq(RegionSet)
         /\ Matches(at) = <<>> <=> \A r \in 1 .. 8 : ~In(r, at)
         /\ LastChan(Matches(at)) =
              IF In(8, at) THEN "aus" ELSE IF In(7, at) THEN "nz"
              ELSE IF In(6, at) THEN "thai" ELSE IF In(5, at) THEN "cn"
              ELSE IF In(4, at) THEN "jp" ELSE IF In(3, at) THEN "brazil"
              ELSE IF In(2, at) THEN "reg1" ELSE IF In(1, at) THEN "reg2" ELSE ""
<1> DEFINE If(r) == IF In(r, at) THEN <<Regions[r]>> ELSE <<>>
<1>1. PICK m1 : m1 = If(1)
  OBVIOUS
<1>2. /\ m1 \in Seq(RegionSet)
      /\ LastChan(m1) = IF In(1, at) THEN Regions[1].chan ELSE ""
      /\ m1 = <<>> <=> ~In(1, at)
  <2>1. <<Regions[1]>> \in Seq(RegionSet) /\ Len(<<Regions[1]>>) = 1 /\ <<Regions[1]>> # <<>>
        /\ <<Regions[1]>>[1] = Regions[1]
    BY RegionChannels DEF RegionSet
  <2>2. QED
    BY <1>1, <2>1, EmptySeq DEF LastChan
<1> DEFINE m2 == m1 \o If(2)
           m3 == m2 \o If(3)
           m4 == m3 \o If(4)
           m5 == m4 \o If(5)
           m6 == m5 \o If(6)
           m7 == m6 \o If(7)
           m8 == m7 \o If(8)
<1>3. /\ m2 \in Seq(RegionSet)
      /\ LastChan(m2) = IF In(2, at) THEN Regions[2].chan ELSE LastChan(m1)
      /\ m2 = <<>> <=> m1 = <<>> /\ ~In(2, at)
  <2>1. m1 \in Seq(RegionSet)
    BY <1>2
  <2>2. 2 \in 1 .. 8
    OBVIOUS
  <2>3. QED
    BY <2>1, <2>2, ExtendMatches
<1> HIDE DEF m2
<1>4. /\ m3 \in Seq(RegionSet)
      /\ LastChan(m3) = IF In(3, at) THEN Regions[3].chan ELSE LastChan(m2)
      /\ m3 = <<>> <=> m2 = <<>> /\ ~In(3, at)
  BY <1>3, ExtendMatches
<1> HIDE DEF m3
<1>5. /\ m4 \in Seq(RegionSet)
      /\ LastChan(m4) = IF In(4, at) THEN Regions[4].chan ELSE LastChan(m3)
      /\ m4 = <<>> <=> m3 = <<>> /\ ~In(4, at)
  BY <1>4, ExtendMatches
<1> HIDE DEF m4
<1>6. /\ m5 \in Seq(RegionSet)
      /\ LastChan(m5) = IF In(5, at) THEN Regions[5].chan ELSE LastChan(m4)
      /\ m5 = <<>> <=> m4 = <<>> /\ ~In(5, at)
  BY <1>5, ExtendMatches
<1> HIDE DEF m5
<1>7. /\ m6 \in Seq(RegionSet)
      /\ LastChan(m6) = IF In(6, at) THEN Regions[6].chan ELSE LastChan(m5)
      /\ m6 = <<>> <=> m5 = <<>> /\ ~In(6, at)
  BY <1>6, ExtendMatches
<1> HIDE DEF m6
<1>8. /\ m7 \in Seq(RegionSet)
      /\ LastChan(m7) = IF In(7, at) THEN Regions[7].chan ELSE LastChan(m6)
      /\ m7 = <<>> <=> m6 = <<>> /\ ~In(7, at)
  BY <1>7, ExtendMatches
<1> HIDE DEF m7
<1>9. /\ m8 \in Seq(RegionSet)
      /\ LastChan(m8) = IF In(8, at) THEN Regions[8].chan ELSE LastChan(m7)
      /\ m8 = <<>> <=> m7 = <<>> /\ ~In(8, at)
  BY <1>8, ExtendMatches
<1>10. Matches(at) = m8
  BY <1>1 DEF Matches, In, m2, m3, m4, m5, m6, m7
<1> HIDE DEF m8, If
<1>11. QED
  BY <1>10, <1>2, <1>3, <1>4, <1>5, <1>6, <1>7, <1>8, <1>9, RegionChannels

(* Of the countries no two overlap but China and Thailand.                 *)
LEMMA Overlaps ==
  ASSUME NEW at, at.lat \in Int, at.lon \in Int
  PROVE  /\ ~(In(1, at) /\ In(2, at))
         /\ In(8, at) => ~In(7, at) /\ ~In(6, at) /\ ~In(5, at) /\ ~In(4, at) /\ ~In(3, at)
         /\ In(7, at) => ~In(6, at) /\ ~In(5, at) /\ ~In(4, at) /\ ~In(3, at)
         /\ In(6, at) => ~In(4, at) /\ ~In(3, at)
         /\ In(5, at) => ~In(4, at) /\ ~In(3, at)
         /\ In(4, at) => ~In(3, at)
  BY RegionBoxes

(* Wherever the tracker is, the last channel geofence_aprs_frequency()     *)
(* tunes to is the one the position belongs to (geofence.c:13-57).         *)
THEOREM LastTunedChannel ==
  ASSUME NEW at, at.lat \in Int, at.lon \in Int
  PROVE  /\ Tuned(at) \in Seq(RegionSet) /\ Len(Tuned(at)) \in Nat \ {0}
         /\ Tuned(at)[Len(Tuned(at))].chan = AprsChannel(at)
<1> DEFINE all == {Regions[r].chan : r \in {n \in DOMAIN Regions : Inside(Regions[n], at)}}
           others == all \ {"reg1", "reg2"}
<1>1. \A c : c \in all <=>
        \/ In(1, at) /\ c = "reg2"
        \/ In(2, at) /\ c = "reg1"
        \/ In(3, at) /\ c = "brazil"
        \/ In(4, at) /\ c = "jp"
        \/ In(5, at) /\ c = "cn"
        \/ In(6, at) /\ c = "thai"
        \/ In(7, at) /\ c = "nz"
        \/ In(8, at) /\ c = "aus"
  <2>1. \A c : c \in all <=> \E r \in 1 .. 8 : In(r, at) /\ c = Regions[r].chan
    BY RegionChannels DEF In
  <2> HIDE DEF all
  <2>2. QED
    BY <2>1, RegionChannels
<1>2. AprsChannel(at) = IF all \subseteq {"reg1", "reg2"}
                          THEN IF all = {"reg2"} THEN "reg2" ELSE "reg1"
                        ELSE IF "thai" \in all THEN "thai"
                        ELSE CHOOSE c \in others : TRUE
  BY DEF AprsChannel
<1> HIDE DEF all
<1>3. CASE all \subseteq {"reg1", "reg2"}
  <2>1. ~In(3, at) /\ ~In(4, at) /\ ~In(5, at) /\ ~In(6, at) /\ ~In(7, at) /\ ~In(8, at)
    BY <1>1, <1>3
  <2>2. CASE In(1, at)
    <3>1. ~In(2, at)
      BY <2>2, Overlaps
    <3>2. all = {"reg2"}
      BY <1>1, <2>1, <2>2, <3>1
    <3>3. Matches(at) # <<>> /\ LastChan(Matches(at)) = "reg2"
      BY <2>1, <2>2, <3>1, LastMatch, RegionChannels
    <3>4. QED
      BY <1>2, <3>2, <3>3, LastMatch, EmptySeq DEF Tuned, LastChan
  <2>3. CASE ~In(1, at)
    <3>1. "reg2" \notin all
      BY <1>1, <2>3
    <3>2. AprsChannel(at) = "reg1"
      BY <1>2, <1>3, <3>1
    <3>3. CASE In(2, at)
      <4>1. Matches(at) # <<>> /\ LastChan(Matches(at)) = "reg1"
        BY <2>1, <3>3, LastMatch, RegionChannels
      <4>2. QED
        BY <3>2, <4>1, LastMatch, EmptySeq DEF Tuned, LastChan
    <3>4. CASE ~In(2, at)
      <4>1. Matches(at) = <<>>
        BY <2>1, <2>3, <3>4, LastMatch, RegionChannels
      <4>2. Tuned(at) = <<Regions[2]>>
        BY <4>1 DEF Tuned
      <4>3. QED
        BY <3>2, <4>2, RegionChannels DEF RegionSet
    <3>5. QED
      BY <3>3, <3>4
  <2>4. QED
    BY <2>2, <2>3
<1>4. CASE ~(all \subseteq {"reg1", "reg2"})
  <2>1. LastChan(Matches(at)) = AprsChannel(at)
    <3>1. \/ In(3, at) \/ In(4, at) \/ In(5, at) \/ In(6, at) \/ In(7, at) \/ In(8, at)
      BY <1>1, <1>4
    <3>2. CASE In(6, at)
      <4>1. AprsChannel(at) = "thai"
        BY <1>1, <1>2, <1>4, <3>2
      <4>2. ~In(7, at) /\ ~In(8, at)
        BY <3>2, Overlaps
      <4>3. QED
        BY <3>2, <4>1, <4>2, LastMatch
    <3>3. CASE ~In(6, at)
      <4>1. "thai" \notin all /\ AprsChannel(at) = CHOOSE c \in others : TRUE
        BY <1>1, <1>2, <1>4, <3>3
      <4>2. ASSUME NEW x, others = {x} PROVE AprsChannel(at) = x
        BY <4>1, <4>2
      <4>3. CASE In(8, at)
        <5>1. ~In(3, at) /\ ~In(4, at) /\ ~In(5, at) /\ ~In(6, at) /\ ~In(7, at)
          BY <3>3, <4>3, Overlaps
        <5>2. others = {"aus"}
          BY <1>1, <4>3, <5>1
        <5>3. QED
          BY <4>2, <4>3, <5>1, <5>2, LastMatch
      <4>4. CASE In(7, at)
        <5>1. ~In(3, at) /\ ~In(4, at) /\ ~In(5, at) /\ ~In(6, at) /\ ~In(8, at)
          BY <3>3, <4>4, Overlaps
        <5>2. others = {"nz"}
          BY <1>1, <4>4, <5>1
        <5>3. QED
          BY <4>2, <4>4, <5>1, <5>2, LastMatch
      <4>5. CASE In(5, at)
        <5>1. ~In(3, at) /\ ~In(4, at) /\ ~In(6, at) /\ ~In(7, at) /\ ~In(8, at)
          BY <3>3, <4>5, Overlaps
        <5>2. others = {"cn"}
          BY <1>1, <4>5, <5>1
        <5>3. QED
          BY <4>2, <4>5, <5>1, <5>2, LastMatch
      <4>6. CASE In(4, at)
        <5>1. ~In(3, at) /\ ~In(5, at) /\ ~In(6, at) /\ ~In(7, at) /\ ~In(8, at)
          BY <3>3, <4>6, Overlaps
        <5>2. others = {"jp"}
          BY <1>1, <4>6, <5>1
        <5>3. QED
          BY <4>2, <4>6, <5>1, <5>2, LastMatch
      <4>7. CASE In(3, at)
        <5>1. ~In(4, at) /\ ~In(5, at) /\ ~In(6, at) /\ ~In(7, at) /\ ~In(8, at)
          BY <3>3, <4>7, Overlaps
        <5>2. others = {"brazil"}
          BY <1>1, <4>7, <5>1
        <5>3. QED
          BY <4>2, <4>7, <5>1, <5>2, LastMatch
      <4>8. QED
        BY <3>1, <3>3, <4>3, <4>4, <4>5, <4>6, <4>7
    <3>4. QED
      BY <3>2, <3>3
  <2>2. Matches(at) # <<>>
    BY <1>1, <1>4, LastMatch, RegionChannels
  <2>3. Tuned(at) = Matches(at)
    BY <2>2 DEF Tuned
  <2>4. QED
    BY <2>1, <2>2, <2>3, LastMatch, EmptySeq DEF LastChan
<1>5. QED
  BY <1>3, <1>4

----------------------------------------------------------------------------
(* The calls main() makes at each place.                                   *)

LEMMA CallFields ==
  ASSUME NEW fn, NEW arg
  PROVE  Call(fn, arg).fn = fn /\ Call(fn, arg).arg = arg
  BY DEF Call

LEMMA Tuples ==
  ASSUME NEW S, NEW a \in S, NEW b \in S, NEW c \in S, NEW d \in S
  PROVE  /\ <<a>> \in Seq(S) /\ Len(<<a>>) = 1 /\ <<a>>[1] = a
         /\ /\ <<a, b>> \in Seq(S) /\ Len(<<a, b>>) = 2
            /\ <<a, b>>[1] = a /\ <<a, b>>[2] = b
         /\ /\ <<a, b, c>> \in Seq(S) /\ Len(<<a, b, c>>) = 3
            /\ <<a, b, c>>[1] = a /\ <<a, b, c>>[2] = b /\ <<a, b, c>>[3] = c
         /\ /\ <<a, b, c, d>> \in Seq(S) /\ Len(<<a, b, c, d>>) = 4
            /\ <<a, b, c, d>>[1] = a /\ <<a, b, c, d>>[2] = b
            /\ <<a, b, c, d>>[3] = c /\ <<a, b, c, d>>[4] = d
  OBVIOUS

LEMMA ShortPlans ==
  /\ /\ Startup \in Seq(CallItems) /\ Len(Startup) = 4
     /\ Startup[1] = Call("reset", "") /\ Startup[2] = Call("part_info", "")
     /\ Startup[3] = Call("power_up", "") /\ Startup[4] = Call("setup", "OOK")
  /\ /\ Blips \in Seq(CallItems) /\ Len(Blips) = 3
     /\ Blips[1] = Call("setup", "OOK") /\ Blips[2] = Call("rtty", "")
     /\ Blips[3] = Call("start_tx", "")
  /\ /\ Fixed \in Seq(CallItems) /\ Len(Fixed) = 2
     /\ Fixed[1] = Call("stop_tx", "") /\ Fixed[2] = Call("setup", "2FSK")
  /\ /\ Regular \in Seq(CallItems) /\ Len(Regular) = 2
     /\ Regular[1] = Call("stop_tx", "") /\ Regular[2] = Call("rtty", "")
  /\ /\ Rtty \in Seq(CallItems) /\ Len(Rtty) = 2
     /\ Rtty[1] = Call("setup", "2FSK") /\ Rtty[2] = Call("start_tx", "")
  /\ /\ Stop \in Seq(CallItems) /\ Len(Stop) = 1 /\ Stop[1] = Call("stop_tx", "")
<1>1. /\ Call("reset", "") \in CallItems /\ Call("part_info", "") \in CallItems
      /\ Call("power_up", "") \in CallItems /\ Call("setup", "OOK") \in CallItems
      /\ Call("rtty", "") \in CallItems /\ Call("start_tx", "") \in CallItems
      /\ Call("stop_tx", "") \in CallItems /\ Call("setup", "2FSK") \in CallItems
  BY DEF Call, CallItems, Setups, Modulations
<1>2. /\ Startup \in Seq(CallItems) /\ Len(Startup) = 4
      /\ Startup[1] = Call("reset", "") /\ Startup[2] = Call("part_info", "")
      /\ Startup[3] = Call("power_up", "") /\ Startup[4] = Call("setup", "OOK")
  BY <1>1, Tuples DEF Startup
<1>3. /\ Blips \in Seq(CallItems) /\ Len(Blips) = 3
      /\ Blips[1] = Call("setup", "OOK") /\ Blips[2] = Call("rtty", "")
      /\ Blips[3] = Call("start_tx", "")
  BY <1>1, Tuples DEF Blips
<1>4. /\ Fixed \in Seq(CallItems) /\ Len(Fixed) = 2
      /\ Fixed[1] = Call("stop_tx", "") /\ Fixed[2] = Call("setup", "2FSK")
  BY <1>1, Tuples DEF Fixed
<1>5. /\ Regular \in Seq(CallItems) /\ Len(Regular) = 2
      /\ Regular[1] = Call("stop_tx", "") /\ Regular[2] = Call("rtty", "")
  BY <1>1, Tuples DEF Regular
<1>6. /\ Rtty \in Seq(CallItems) /\ Len(Rtty) = 2
      /\ Rtty[1] = Call("setup", "2FSK") /\ Rtty[2] = Call("start_tx", "")
  BY <1>1, Tuples DEF Rtty
<1>7. Stop \in Seq(CallItems) /\ Len(Stop) = 1 /\ Stop[1] = Call("stop_tx", "")
  BY <1>1, Tuples DEF Stop
<1>8. QED
  BY <1>2, <1>3, <1>4, <1>5, <1>6, <1>7

LEMMA AprsPlan ==
  ASSUME NEW at, at.lat \in Int, at.lon \in Int
  PROVE  LET n == Len(Tuned(at))
         IN  /\ n \in Nat \ {0}
             /\ Aprs(at) \in Seq(CallItems) /\ Len(Aprs(at)) = n + 2
             /\ \A k \in 1 .. n : /\ Aprs(at)[k].fn = "aprs"
                                  /\ Aprs(at)[k].arg \in AprsChannels
             /\ Aprs(at)[n].arg = AprsChannel(at)
             /\ Aprs(at)[n + 1] = Call("setup", "2GFSK")
             /\ Aprs(at)[n + 2] = Call("start_tx", "")
<1> DEFINE n == Len(Tuned(at))
           g == geofence_aprs_frequency(at)
           x == <<Call("setup", "2GFSK"), Call("start_tx", "")>>
<1>1. /\ Tuned(at) \in Seq(RegionSet) /\ n \in Nat \ {0}
      /\ Tuned(at)[n].chan = AprsChannel(at)
  BY LastTunedChannel
<1>2. DOMAIN Tuned(at) = 1 .. n /\ \A k \in 1 .. n : Tuned(at)[k] \in RegionSet
  BY <1>1, LenProperties, ElementOfSeq
<1>3. \A k \in 1 .. n : Tuned(at)[k].chan \in AprsChannels
  BY <1>2, RegionChannels DEF RegionSet, AprsChannels
<1>4. g = [k \in 1 .. n |-> Call("aprs", Tuned(at)[k].chan)]
  BY <1>2 DEF geofence_aprs_frequency
<1>5. ASSUME NEW c \in AprsChannels PROVE Call("aprs", c) \in CallItems
  BY DEF Call, CallItems
<1>6. /\ x \in Seq(CallItems) /\ Len(x) = 2
      /\ x[1] = Call("setup", "2GFSK") /\ x[2] = Call("start_tx", "")
  <2>1. Call("setup", "2GFSK") \in CallItems /\ Call("start_tx", "") \in CallItems
    BY DEF Call, CallItems, Modulations
  <2>2. QED
    BY <2>1, Tuples
<1>7. Aprs(at) = g \o x
  BY DEF Aprs
<1> HIDE DEF g, x, n
<1>8. g \in [1 .. n -> CallItems]
  BY <1>3, <1>4, <1>5
<1>9. g \in Seq(CallItems) /\ Len(g) = n
  BY <1>1, <1>8, SeqDef
<1>10. /\ g \o x \in Seq(CallItems) /\ Len(g \o x) = n + 2
       /\ \A k \in 1 .. n + 2 : (g \o x)[k] = IF k <= n THEN g[k] ELSE x[k - n]
  <2>1. /\ g \o x \in Seq(CallItems) /\ Len(g \o x) = Len(g) + Len(x)
        /\ \A k \in 1 .. Len(g) + Len(x) :
              (g \o x)[k] = IF k <= Len(g) THEN g[k] ELSE x[k - Len(g)]
    BY <1>6, <1>9, ConcatProperties
  <2>2. QED
    BY <1>6, <1>9, <2>1
<1>11. \A k \in 1 .. n : (g \o x)[k] = Call("aprs", Tuned(at)[k].chan)
  BY <1>1, <1>4, <1>10
<1>12. (g \o x)[n + 1] = x[1] /\ (g \o x)[n + 2] = x[2]
  <2>1. /\ n + 1 \in 1 .. n + 2 /\ n + 2 \in 1 .. n + 2
        /\ ~(n + 1 <= n) /\ ~(n + 2 <= n) /\ (n + 1) - n = 1 /\ (n + 2) - n = 2
    BY <1>1
  <2>2. QED
    BY <1>10, <2>1
<1>13. n \in 1 .. n
  BY <1>1
<1>14. \A k \in 1 .. n : (g \o x)[k].fn = "aprs" /\ (g \o x)[k].arg = Tuned(at)[k].chan
  <2> SUFFICES ASSUME NEW k \in 1 .. n
               PROVE  (g \o x)[k].fn = "aprs" /\ (g \o x)[k].arg = Tuned(at)[k].chan
    OBVIOUS
  <2>1. (g \o x)[k] = Call("aprs", Tuned(at)[k].chan)
    BY <1>11
  <2>2. QED
    BY <2>1, CallFields
<1>15. QED
  BY <1>1, <1>3, <1>6, <1>7, <1>10, <1>12, <1>13, <1>14 DEF n

(* One call less to make.                                                  *)
LEMMA NextOfPlan ==
  ASSUME NEW plan \in Seq(CallItems), NEW c \in Seq(CallItems), c # <<>>, IsEnd(c, plan)
  PROVE  /\ Len(c) \in 1 .. Len(plan) /\ Len(plan) \in Nat
         /\ Tail(c) \in Seq(CallItems) /\ Len(Tail(c)) = Len(c) - 1
         /\ Head(c) = c[1] /\ Head(c) = plan[Len(plan) - Len(c) + 1]
         /\ IsEnd(Tail(c), plan)
         /\ Len(c) = 1 <=> Tail(c) = <<>>
         /\ Len(c) > 1 => Tail(c)[1] = plan[Len(plan) - Len(c) + 2]
<1> DEFINE t == Tail(c)
<1>1. /\ t \in Seq(CallItems) /\ Len(t) = Len(c) - 1 /\ Len(c) \in Nat \ {0}
      /\ \A k \in 1 .. Len(t) : t[k] = c[k + 1]
      /\ Head(c) = c[1] /\ Len(plan) \in Nat
  BY HeadTailProperties, EmptySeq, LenProperties
<1> HIDE DEF t
<1>2. Len(c) <= Len(plan) /\ \A k \in 1 .. Len(c) : c[k] = plan[Len(plan) - Len(c) + k]
  BY DEF IsEnd
<1>3. c[1] = plan[Len(plan) - Len(c) + 1]
  BY <1>1, <1>2
<1>4. IsEnd(t, plan)
  <2> SUFFICES ASSUME NEW k \in 1 .. Len(t)
               PROVE  t[k] = plan[Len(plan) - Len(t) + k]
    BY <1>1, <1>2 DEF IsEnd
  <2>1. k + 1 \in 1 .. Len(c) /\ t[k] = c[k + 1]
    BY <1>1
  <2>2. c[k + 1] = plan[Len(plan) - Len(c) + (k + 1)]
    BY <1>2, <2>1
  <2>3. Len(plan) - Len(c) + (k + 1) = Len(plan) - Len(t) + k
    BY <1>1
  <2>4. QED
    BY <2>1, <2>2, <2>3
<1>5. Len(c) = 1 <=> t = <<>>
  BY <1>1, EmptySeq
<1>6. Len(c) > 1 => t[1] = plan[Len(plan) - Len(c) + 2]
  <2> SUFFICES ASSUME Len(c) > 1 PROVE t[1] = plan[Len(plan) - Len(c) + 2]
    OBVIOUS
  <2>1. 1 \in 1 .. Len(t) /\ 2 \in 1 .. Len(c) /\ 1 + 1 = 2
    BY <1>1
  <2>2. t[1] = c[2] /\ c[2] = plan[Len(plan) - Len(c) + 2]
    BY <1>1, <1>2, <2>1
  <2>3. QED
    BY <2>2
<1>7. QED
  BY <1>1, <1>2, <1>3, <1>4, <1>5, <1>6 DEF t

LEMMA WholePlan ==
  ASSUME NEW plan \in Seq(CallItems)
  PROVE  IsEnd(plan, plan) /\ IsEnd(<<>>, plan)
<1>1. Len(plan) \in Nat
  BY LenProperties
<1>2. QED
  BY <1>1 DEF IsEnd

(* The next call, by where main() is.                                      *)
Upcoming ==
  \/ phase = "startup" /\ left = 4 /\ Head(calls).fn = "reset"
  \/ phase = "startup" /\ left = 3 /\ Head(calls).fn = "part_info"
  \/ phase = "startup" /\ left = 2 /\ Head(calls).fn = "power_up"
  \/ /\ Head(calls).fn = "setup" /\ Head(calls).arg \in Modulations
     /\ \/ phase \in {"startup", "loop"} /\ left = 1
        \/ phase \in {"aprs", "backlog", "rtty"} /\ left = 2
        \/ phase = "blips" /\ left = 3
  \/ /\ Head(calls).fn = "rtty"
     /\ (phase = "blips" /\ left = 2) \/ (phase = "regular" /\ left = 1)
  \/ /\ Head(calls).fn = "start_tx"
     /\ phase \in {"blips", "aprs", "backlog", "rtty"} /\ left = 1
  \/ /\ Head(calls).fn = "stop_tx"
     /\ phase = "loop" \/ (phase = "regular" /\ left = 2)
  \/ /\ Head(calls).fn = "aprs" /\ Head(calls).arg \in AprsChannels
     /\ phase \in {"aprs", "backlog"} /\ left >= 3
     /\ left = 3 => Head(calls).arg = AprsChannel(fix)

Following == Tail(calls)[1]

LEMMA NextInPlan ==
  ASSUME NEW plan \in Seq(CallItems), NEW n, Len(plan) = n,
         calls \in Seq(CallItems), calls # <<>>, IsEnd(calls, plan)
  PROVE  /\ left \in 1 .. n /\ Head(calls) = plan[n - left + 1]
         /\ left > 1 => Following = plan[n - left + 2]
<1>1. /\ Len(calls) \in 1 .. Len(plan)
      /\ Head(calls) = plan[Len(plan) - Len(calls) + 1]
      /\ Len(calls) > 1 => Tail(calls)[1] = plan[Len(plan) - Len(calls) + 2]
  BY NextOfPlan
<1>2. QED
  BY <1>1 DEF left, Following

LEMMA PlanFields ==
  /\ Startup[1].fn = "reset" /\ Startup[2].fn = "part_info"
  /\ Startup[3].fn = "power_up" /\ Startup[4].fn = "setup" /\ Startup[4].arg = "OOK"
  /\ Blips[1].fn = "setup" /\ Blips[1].arg = "OOK"
  /\ Blips[2].fn = "rtty" /\ Blips[3].fn = "start_tx"
  /\ Fixed[1].fn = "stop_tx" /\ Fixed[2].fn = "setup" /\ Fixed[2].arg = "2FSK"
  /\ Regular[1].fn = "stop_tx" /\ Regular[2].fn = "rtty"
  /\ Rtty[1].fn = "setup" /\ Rtty[1].arg = "2FSK" /\ Rtty[2].fn = "start_tx"
  /\ Stop[1].fn = "stop_tx"
<1>1. Startup[1].fn = "reset" /\ Startup[2].fn = "part_info"
  BY DEF Startup, Blips, Fixed, Regular, Rtty, Stop, Call
<1>2. Startup[3].fn = "power_up" /\ Startup[4].fn = "setup" /\ Startup[4].arg = "OOK"
  BY DEF Startup, Blips, Fixed, Regular, Rtty, Stop, Call
<1>3. /\ Blips[1].fn = "setup" /\ Blips[1].arg = "OOK"
      /\ Blips[2].fn = "rtty" /\ Blips[3].fn = "start_tx"
  BY DEF Startup, Blips, Fixed, Regular, Rtty, Stop, Call
<1>4. Fixed[1].fn = "stop_tx" /\ Fixed[2].fn = "setup" /\ Fixed[2].arg = "2FSK"
  BY DEF Startup, Blips, Fixed, Regular, Rtty, Stop, Call
<1>5. Regular[1].fn = "stop_tx" /\ Regular[2].fn = "rtty" /\ Stop[1].fn = "stop_tx"
  BY DEF Startup, Blips, Fixed, Regular, Rtty, Stop, Call
<1>6. Rtty[1].fn = "setup" /\ Rtty[1].arg = "2FSK" /\ Rtty[2].fn = "start_tx"
  BY DEF Startup, Blips, Fixed, Regular, Rtty, Stop, Call
<1>7. QED
  BY <1>1, <1>2, <1>3, <1>4, <1>5, <1>6

LEMMA NextCall ==
  ASSUME SeqInv, PlanInv, calls # <<>>
  PROVE  /\ Upcoming
         /\ phase \in {"loop", "regular"} /\ left > 1 => Following.fn # "stop_tx"
<1>1. calls \in Seq(CallItems) /\ left \in Nat \ {0}
  BY EmptySeq, LenProperties DEF SeqInv, left
<1>2. CASE phase = "startup"
  <2>1. IsEnd(calls, Startup)
    BY <1>2 DEF PlanInv, EndOf
  <2>2. left \in 1 .. 4 /\ Head(calls) = Startup[4 - left + 1]
    BY <1>1, <2>1, NextInPlan, ShortPlans
  <2>5. \/ left = 4 /\ Head(calls) = Startup[1]
        \/ left = 3 /\ Head(calls) = Startup[2]
        \/ left = 2 /\ Head(calls) = Startup[3]
        \/ left = 1 /\ Head(calls) = Startup[4]
    BY <2>2
  <2>3. \/ left = 4 /\ Head(calls).fn = "reset"
        \/ left = 3 /\ Head(calls).fn = "part_info"
        \/ left = 2 /\ Head(calls).fn = "power_up"
        \/ left = 1 /\ Head(calls).fn = "setup" /\ Head(calls).arg = "OOK"
    BY <2>5, PlanFields
  <2>4. QED
    BY <1>2, <2>3 DEF Upcoming, Modulations
<1>3. CASE phase = "blips"
  <2>1. IsEnd(calls, Blips)
    BY <1>3 DEF PlanInv, EndOf
  <2>2. left \in 1 .. 3 /\ Head(calls) = Blips[3 - left + 1]
    BY <1>1, <2>1, NextInPlan, ShortPlans
  <2>5. \/ left = 3 /\ Head(calls) = Blips[1]
        \/ left = 2 /\ Head(calls) = Blips[2]
        \/ left = 1 /\ Head(calls) = Blips[3]
    BY <2>2
  <2>3. \/ left = 3 /\ Head(calls).fn = "setup" /\ Head(calls).arg = "OOK"
        \/ left = 2 /\ Head(calls).fn = "rtty"
        \/ left = 1 /\ Head(calls).fn = "start_tx"
    BY <2>5, PlanFields
  <2>4. QED
    BY <1>3, <2>3 DEF Upcoming, Modulations
<1>4. CASE phase = "loop"
  <2>1. CASE IsEnd(calls, Fixed)
    <3>1. /\ left \in 1 .. 2 /\ Head(calls) = Fixed[2 - left + 1]
          /\ left > 1 => Following = Fixed[2 - left + 2]
      BY <1>1, <2>1, NextInPlan, ShortPlans
    <3>2. \/ /\ left = 2 /\ Head(calls).fn = "stop_tx"
             /\ Following.fn = "setup"
          \/ left = 1 /\ Head(calls).fn = "setup" /\ Head(calls).arg = "2FSK"
      <4>1. \/ left = 2 /\ Head(calls) = Fixed[1] /\ Following = Fixed[2]
            \/ left = 1 /\ Head(calls) = Fixed[2]
        <5>1. left = 1 \/ left = 2
          BY <3>1
        <5>2. QED
          BY <3>1, <5>1
      <4>2. QED
        BY <4>1, PlanFields
    <3>3. QED
      BY <1>4, <3>2 DEF Upcoming, Modulations
  <2>2. CASE IsEnd(calls, Stop)
    <3>1. left \in 1 .. 1 /\ Head(calls) = Stop[1 - left + 1]
      BY <1>1, <2>2, NextInPlan, ShortPlans
    <3>2. left = 1 /\ Head(calls).fn = "stop_tx"
      <4>1. left = 1 /\ Head(calls) = Stop[1]
        BY <3>1
      <4>2. QED
        BY <4>1, PlanFields
    <3>3. QED
      BY <1>4, <3>2 DEF Upcoming
  <2>3. QED
    BY <1>4, <2>1, <2>2 DEF PlanInv, EndOf
<1>5. CASE phase \in {"aprs", "backlog"}
  <2> DEFINE n == Len(Tuned(fix))
  <2>1. IsEnd(calls, Aprs(fix))
    BY <1>5 DEF PlanInv, EndOf
  <2>2. fix.lat \in Int /\ fix.lon \in Int
    BY FixesAssumption DEF PlanInv
  <2>3. /\ n \in Nat \ {0}
        /\ Aprs(fix) \in Seq(CallItems) /\ Len(Aprs(fix)) = n + 2
        /\ \A k \in 1 .. n : /\ Aprs(fix)[k].fn = "aprs"
                             /\ Aprs(fix)[k].arg \in AprsChannels
        /\ Aprs(fix)[n].arg = AprsChannel(fix)
        /\ Aprs(fix)[n + 1] = Call("setup", "2GFSK")
        /\ Aprs(fix)[n + 2] = Call("start_tx", "")
    BY <2>2, AprsPlan
  <2> HIDE DEF n
  <2>9. n \in Nat \ {0}
    BY <2>3
  <2>4. left \in 1 .. n + 2 /\ Head(calls) = Aprs(fix)[(n + 2) - left + 1]
    BY <1>1, <2>1, <2>3, NextInPlan
  <2>5. CASE left = 1
    <3>1. (n + 2) - left + 1 = n + 2
      BY <1>1, <2>5, <2>9
    <3>2. Head(calls) = Call("start_tx", "")
      BY <2>3, <2>4, <3>1
    <3> Head(calls).fn = "start_tx"
      BY <3>2, CallFields
    <3>3. QED
      BY <1>5, <2>5, <3>2 DEF Upcoming
  <2>6. CASE left = 2
    <3>1. (n + 2) - left + 1 = n + 1
      BY <1>1, <2>6, <2>9
    <3>2. Head(calls) = Call("setup", "2GFSK")
      BY <2>3, <2>4, <3>1
    <3> Head(calls).fn = "setup" /\ Head(calls).arg = "2GFSK"
      BY <3>2, CallFields
    <3>3. QED
      BY <1>5, <2>6, <3>2 DEF Upcoming, Modulations
  <2>7. CASE left >= 3
    <3>1. (n + 2) - left + 1 \in 1 .. n /\ (left = 3 => (n + 2) - left + 1 = n)
      BY <1>1, <2>9, <2>4, <2>7
    <3>2. /\ Head(calls).fn = "aprs" /\ Head(calls).arg \in AprsChannels
          /\ left = 3 => Head(calls).arg = AprsChannel(fix)
      BY <2>3, <2>4, <3>1
    <3>3. QED
      BY <1>5, <2>7, <3>2 DEF Upcoming
  <2>8. QED
    BY <1>1, <2>5, <2>6, <2>7
<1>6. CASE phase = "regular"
  <2>1. IsEnd(calls, Regular)
    BY <1>6 DEF PlanInv, EndOf
  <2>2. /\ left \in 1 .. 2 /\ Head(calls) = Regular[2 - left + 1]
        /\ left > 1 => Following = Regular[2 - left + 2]
    BY <1>1, <2>1, NextInPlan, ShortPlans
  <2>3. \/ /\ left = 2 /\ Head(calls).fn = "stop_tx"
           /\ Following.fn = "rtty"
        \/ left = 1 /\ Head(calls).fn = "rtty"
    <3>1. \/ left = 2 /\ Head(calls) = Regular[1] /\ Following = Regular[2]
          \/ left = 1 /\ Head(calls) = Regular[2]
      <4>1. left = 1 \/ left = 2
        BY <2>2
      <4>2. QED
        BY <2>2, <4>1
    <3>2. QED
      BY <3>1, PlanFields
  <2>4. QED
    BY <1>6, <2>3 DEF Upcoming
<1>7. CASE phase = "rtty"
  <2>1. IsEnd(calls, Rtty)
    BY <1>7 DEF PlanInv, EndOf
  <2>2. left \in 1 .. 2 /\ Head(calls) = Rtty[2 - left + 1]
    BY <1>1, <2>1, NextInPlan, ShortPlans
  <2>5. \/ left = 2 /\ Head(calls) = Rtty[1]
        \/ left = 1 /\ Head(calls) = Rtty[2]
    BY <2>2
  <2>3. \/ left = 2 /\ Head(calls).fn = "setup" /\ Head(calls).arg = "2FSK"
        \/ left = 1 /\ Head(calls).fn = "start_tx"
    BY <2>5, PlanFields
  <2>4. QED
    BY <1>7, <2>3 DEF Upcoming, Modulations
<1>8. CASE phase = "halted"
  BY <1>8 DEF PlanInv
<1>9. QED
  BY <1>2, <1>3, <1>4, <1>5, <1>6, <1>7, <1>8 DEF PlanInv

(* What a call makes of the radio, and the steps it takes.                 *)
LEMMA StepsOf ==
  ASSUME NEW call, NEW r
  PROVE  /\ call.fn = "reset" => Steps(call) = si4060_reset /\ After(call, r) = PoweredUp
         /\ call.fn = "part_info" => Steps(call) = si4060_part_info /\ After(call, r) = PoweredUp
         /\ call.fn = "power_up" => Steps(call) = si4060_power_up /\ After(call, r) = PoweredUp
         /\ call.fn = "setup" => /\ Steps(call) = si4060_setup(call.arg)
                                 /\ After(call, r) = Setup(r, call.arg)
         /\ call.fn = "start_tx" => Steps(call) = si4060_start_tx /\ After(call, r) = StartTx(r)
         /\ call.fn = "stop_tx" => Steps(call) = si4060_stop_tx /\ After(call, r) = StopTx(r)
         /\ call.fn = "aprs" => /\ Steps(call) = si4060_freq_aprs(call.arg)
                                /\ After(call, r) = FreqAprs(r)
         /\ call.fn = "rtty" => Steps(call) = si4060_freq_2m_rtty /\ After(call, r) = Freq2mRtty(r)
  BY DEF Steps, After

LEMMA RadioPoweredUp ==
  /\ PoweredUp \in Radios /\ PoweredUp.tx = FALSE /\ PoweredUp.mod = "none"
  /\ PoweredUp.direct = "sync" /\ PoweredUp.chan = "none"
  BY DEF PoweredUp, Radios, Modulations, DirectModes, Channels

LEMMA RadioSetup ==
  ASSUME NEW r \in Radios, NEW m \in Modulations
  PROVE  /\ Setup(r, m) \in Radios /\ Setup(r, m).tx = r.tx /\ Setup(r, m).mod = m
         /\ Setup(r, m).direct = "sync" /\ Setup(r, m).chan = r.chan
  BY DEF Setup, Radios, DirectModes

LEMMA RadioTx ==
  ASSUME NEW r \in Radios
  PROVE  /\ /\ StartTx(r) \in Radios /\ StartTx(r).tx = TRUE /\ StartTx(r).mod = r.mod
            /\ StartTx(r).direct = r.direct /\ StartTx(r).chan = r.chan
         /\ /\ StopTx(r) \in Radios /\ StopTx(r).tx = FALSE /\ StopTx(r).mod = r.mod
            /\ StopTx(r).direct = r.direct /\ StopTx(r).chan = r.chan
<1>1. /\ StartTx(r) \in Radios /\ StartTx(r).tx = TRUE /\ StartTx(r).mod = r.mod
      /\ StartTx(r).direct = r.direct /\ StartTx(r).chan = r.chan
  BY DEF StartTx, Radios
<1>2. /\ StopTx(r) \in Radios /\ StopTx(r).tx = FALSE /\ StopTx(r).mod = r.mod
      /\ StopTx(r).direct = r.direct /\ StopTx(r).chan = r.chan
  BY DEF StopTx, Radios
<1>3. QED
  BY <1>1, <1>2

LEMMA RadioTuned ==
  ASSUME NEW r \in Radios
  PROVE  /\ /\ FreqAprs(r) \in Radios /\ FreqAprs(r).tx = r.tx /\ FreqAprs(r).mod = "2GFSK"
            /\ FreqAprs(r).direct = "sync" /\ FreqAprs(r).chan = "aprs"
         /\ /\ Freq2mRtty(r) \in Radios /\ Freq2mRtty(r).tx = r.tx
            /\ Freq2mRtty(r).mod = "2FSK"
            /\ Freq2mRtty(r).direct = "async" /\ Freq2mRtty(r).chan = "rtty"
<1>1. /\ FreqAprs(r) \in Radios /\ FreqAprs(r).tx = r.tx /\ FreqAprs(r).mod = "2GFSK"
      /\ FreqAprs(r).direct = "sync" /\ FreqAprs(r).chan = "aprs"
  BY DEF FreqAprs, Setup, Radios, DirectModes, Modulations, Channels
<1>2. /\ Freq2mRtty(r) \in Radios /\ Freq2mRtty(r).tx = r.tx
      /\ Freq2mRtty(r).mod = "2FSK"
      /\ Freq2mRtty(r).direct = "async" /\ Freq2mRtty(r).chan = "rtty"
  BY DEF Freq2mRtty, Radios, DirectModes, Modulations, Channels
<1>3. QED
  BY <1>1, <1>2

----------------------------------------------------------------------------
(* A call begins.                                                          *)

LEMMA BeginFacts ==
  ASSUME IInv, BeginCall
  PROVE  /\ todo = <<>> /\ calls # <<>> /\ Upcoming
         /\ left \in Nat \ {0} /\ left' = left - 1
         /\ calls' \in Seq(CallItems) /\ calls' = Tail(calls)
         /\ (calls' = <<>>) <=> (left = 1)
         /\ todo' = Steps(Head(calls)) /\ radio' = After(Head(calls), radio)
         /\ phase' = phase /\ fix' = fix /\ UNCHANGED chipVars
         /\ ToStop <=> Head(calls).fn = "stop_tx"
         /\ phase \in {"loop", "regular"} => ~ToStop'
<1>1. SeqInv /\ PlanInv /\ calls \in Seq(CallItems) /\ calls # <<>> /\ todo = <<>>
  BY DEF IInv, SeqInv, BeginCall
<1>2. /\ todo' = Steps(Head(calls)) /\ calls' = Tail(calls)
      /\ radio' = After(Head(calls), radio)
      /\ phase' = phase /\ fix' = fix /\ UNCHANGED chipVars
  BY DEF BeginCall
<1>3. /\ Upcoming
      /\ phase \in {"loop", "regular"} /\ left > 1 => Following.fn # "stop_tx"
  BY <1>1, NextCall
<1>4. /\ Tail(calls) \in Seq(CallItems) /\ Len(Tail(calls)) = Len(calls) - 1
      /\ Len(calls) \in Nat \ {0} /\ Head(calls) = calls[1]
  BY <1>1, HeadTailProperties, EmptySeq, LenProperties
<1>5. left \in Nat \ {0} /\ left' = left - 1
  BY <1>2, <1>4 DEF left
<1>6. (Tail(calls) = <<>>) <=> (left = 1)
  <2> DEFINE t == Tail(calls)
  <2>1. t \in Seq(CallItems) /\ Len(t) = Len(calls) - 1
    BY <1>4
  <2> HIDE DEF t
  <2>2. (t = <<>>) <=> (Len(t) = 0)
    BY <2>1, EmptySeq
  <2>3. QED
    BY <1>4, <2>1, <2>2 DEF left, t
<1>7. ToStop <=> Head(calls).fn = "stop_tx"
  BY <1>1, <1>4 DEF ToStop
<1>8. phase \in {"loop", "regular"} => ~ToStop'
  <2>1. ToStop' <=> Tail(calls) # <<>> /\ Following.fn = "stop_tx"
    BY <1>2 DEF ToStop, Following
  <2>2. QED
    BY <1>3, <1>5, <1>6, <2>1
<1>9. QED
  BY <1>1, <1>2, <1>3, <1>4, <1>5, <1>6, <1>7, <1>8

LEMMA BeginSteps ==
  ASSUME Upcoming
  PROVE  Steps(Head(calls)) \in Seq(Items) /\ Paced(Steps(Head(calls)), FALSE)
<1> DEFINE call == Head(calls)
<1>1. CASE call.fn = "reset"
  BY <1>1, StepsOf, ResetSteps
<1>2. CASE call.fn = "part_info"
  BY <1>2, StepsOf, PartInfoSteps
<1>3. CASE call.fn = "power_up"
  BY <1>3, StepsOf, PowerUpSteps
<1>4. CASE call.fn = "setup"
  <2>1. call.arg \in Modulations
    BY <1>4 DEF Upcoming
  <2>2. si4060_setup(call.arg) \in Seq(Items) /\ Paced(si4060_setup(call.arg), FALSE)
    BY <2>1, SetupSteps
  <2>3. QED
    BY <1>4, <2>2, StepsOf
<1>5. CASE call.fn = "rtty"
  BY <1>5, StepsOf, Freq2mRttySteps
<1>6. CASE call.fn \in {"start_tx", "stop_tx"}
  BY <1>6, StepsOf, TxSteps
<1>7. CASE call.fn = "aprs"
  <2>1. call.arg \in AprsChannels
    BY <1>7 DEF Upcoming
  <2>2. /\ si4060_freq_aprs(call.arg) \in Seq(Items)
        /\ Paced(si4060_freq_aprs(call.arg), FALSE)
    BY <2>1, FreqAprsSteps
  <2>3. QED
    BY <1>7, <2>2, StepsOf
<1>8. QED
  BY <1>1, <1>2, <1>3, <1>4, <1>5, <1>6, <1>7 DEF Upcoming

LEMMA BeginPlan ==
  ASSUME IInv, BeginCall
  PROVE  ChipInv' /\ SeqInv' /\ PlanInv' /\ PaceInv' /\ AirInv'
<1>1. /\ todo = <<>> /\ calls # <<>> /\ Upcoming
      /\ left \in Nat \ {0} /\ left' = left - 1
      /\ calls' \in Seq(CallItems) /\ calls' = Tail(calls)
      /\ todo' = Steps(Head(calls))
      /\ phase' = phase /\ fix' = fix /\ UNCHANGED chipVars
  BY BeginFacts
<1>2. UNCHANGED <<chip, powered, pending, regs, tx>>
  BY <1>1 DEF chipVars
<1>3. ChipInv'
  BY <1>2 DEF IInv, ChipInv
<1>4. todo' \in Seq(Items) /\ Paced(todo', FALSE)
  BY <1>1, BeginSteps
<1>5. SeqInv' /\ PaceInv'
  <2>1. PaceInv'
    BY <1>4 DEF PaceInv, Paced
  <2>2. QED
    BY <1>1, <1>4, <2>1 DEF SeqInv
<1>6. AirInv'
  BY <1>2 DEF IInv, AirInv, SetUp, TunedTo, Pending
<1>7. PlanInv'
  <2>1. PlanInv /\ calls \in Seq(CallItems)
    BY DEF IInv, SeqInv
  <2>2. ASSUME NEW plan \in Seq(CallItems), IsEnd(calls, plan)
        PROVE  IsEnd(Tail(calls), plan)
    BY <1>1, <2>1, <2>2, NextOfPlan
  <2>3. Aprs(fix) \in Seq(CallItems)
    <3>1. fix.lat \in Int /\ fix.lon \in Int
      BY <2>1, FixesAssumption DEF PlanInv
    <3>2. QED
      BY <3>1, AprsPlan
  <2>4. /\ phase = "startup" => EndOf(Startup)'
        /\ phase = "blips" => EndOf(Blips)'
        /\ phase = "loop" => EndOf(Fixed)' \/ EndOf(Stop)'
        /\ phase \in {"aprs", "backlog"} => IsEnd(calls', Aprs(fix))
        /\ phase = "regular" => EndOf(Regular)'
        /\ phase = "rtty" => EndOf(Rtty)'
    BY <1>1, <2>1, <2>2, <2>3, ShortPlans DEF PlanInv, EndOf
  <2>5. phase # "halted"
    BY <1>1, <2>1 DEF PlanInv
  <2>6. chip = "absent" => \/ phase = "startup" /\ left' >= 3
                           \/ /\ phase = "startup" /\ left' = 2
                              /\ "RESPONSE" \in Cmds(todo')
    <3> SUFFICES ASSUME chip = "absent"
                 PROVE  \/ phase = "startup" /\ left' >= 3
                        \/ /\ phase = "startup" /\ left' = 2
                           /\ "RESPONSE" \in Cmds(todo')
      OBVIOUS
    <3>1. "RESPONSE" \notin Cmds(todo)
      BY <1>1 DEF Cmds
    <3>2. phase = "startup" /\ left >= 3
      BY <2>1, <2>5, <3>1 DEF PlanInv
    <3>3. CASE left > 3
      BY <1>1, <3>2, <3>3
    <3>4. CASE left = 3
      <4>1. Head(calls).fn = "part_info"
        BY <1>1, <3>2, <3>4 DEF Upcoming
      <4>2. todo' = si4060_part_info
        BY <1>1, <4>1, StepsOf
      <4>3. QED
        BY <1>1, <3>2, <3>4, <4>2, PartInfoSteps
    <3>5. QED
      BY <1>1, <3>2, <3>3, <3>4
  <2>7. QED
    BY <1>1, <1>2, <2>1, <2>4, <2>5, <2>6 DEF PlanInv, EndOf
<1>8. QED
  BY <1>3, <1>5, <1>6, <1>7

LEMMA BeginRadio ==
  ASSUME IInv, BeginCall
  PROVE  RadioInv' /\ TodoInv'
<1> DEFINE call == Head(calls)
<1>1. /\ todo = <<>> /\ calls # <<>> /\ Upcoming
      /\ left \in Nat \ {0} /\ left' = left - 1
      /\ (calls' = <<>>) <=> (left = 1)
      /\ todo' = Steps(call) /\ radio' = After(call, radio)
      /\ phase' = phase /\ fix' = fix
      /\ ToStop <=> call.fn = "stop_tx"
      /\ phase \in {"loop", "regular"} => ~ToStop'
  BY BeginFacts
<1>2. RadioInv /\ radio \in Radios
  BY DEF IInv, RadioInv
<1>3. /\ call.fn \in {"setup", "rtty", "aprs", "start_tx"} => ~radio.tx
  BY <1>1, <1>2 DEF Upcoming, RadioInv
<1>4. CASE call.fn = "reset"
  <2>1. todo' = si4060_reset /\ radio' = PoweredUp
    BY <1>1, <1>4, StepsOf
  <2>2. /\ radio' \in Radios /\ radio'.tx = FALSE /\ radio'.chan = "none"
        /\ radio'.mod = "none" /\ radio'.direct = "sync"
    BY <1>2, <2>1, RadioPoweredUp
  <2>3. Cmds(todo') = {"SHUTDOWN", "WAKEUP", "CTS"}
    BY <2>1, ResetSteps
  <2>4. RadioInv'
    BY <1>1, <1>2, <1>3, <1>4, <2>1, <2>2 DEF RadioInv, Upcoming, StartingUp
  <2>5. TodoInv'
    BY <1>1, <1>2, <1>3, <1>4, <2>2, <2>3 DEF TodoInv, RadioInv, Upcoming, StartingUp
  <2>6. QED
    BY <2>4, <2>5
<1>5. CASE call.fn = "part_info"
  <2>1. todo' = si4060_part_info /\ radio' = PoweredUp
    BY <1>1, <1>5, StepsOf
  <2>2. /\ radio' \in Radios /\ radio'.tx = FALSE /\ radio'.chan = "none"
        /\ radio'.mod = "none" /\ radio'.direct = "sync"
    BY <1>2, <2>1, RadioPoweredUp
  <2>3. Cmds(todo') = {"PART_INFO", "CTS", "RESPONSE"}
    BY <2>1, PartInfoSteps
  <2>4. RadioInv'
    BY <1>1, <1>2, <1>3, <1>5, <2>1, <2>2 DEF RadioInv, Upcoming, StartingUp
  <2>5. TodoInv'
    BY <1>1, <1>2, <1>3, <1>5, <2>2, <2>3 DEF TodoInv, RadioInv, Upcoming, StartingUp
  <2>6. QED
    BY <2>4, <2>5
<1>6. CASE call.fn = "power_up"
  <2>1. todo' = si4060_power_up /\ radio' = PoweredUp
    BY <1>1, <1>6, StepsOf
  <2>2. /\ radio' \in Radios /\ radio'.tx = FALSE /\ radio'.chan = "none"
        /\ radio'.mod = "none" /\ radio'.direct = "sync"
    BY <1>2, <2>1, RadioPoweredUp
  <2>3. Cmds(todo') = {"POWER_UP", "CTS"} /\ todo'[Len(todo')].cmd = "CTS"
    BY <2>1, PowerUpSteps
  <2>4. RadioInv'
    BY <1>1, <1>2, <1>3, <1>6, <2>1, <2>2 DEF RadioInv, Upcoming, StartingUp
  <2>5. TodoInv'
    BY <1>1, <1>2, <1>3, <1>6, <2>2, <2>3 DEF TodoInv, RadioInv, Upcoming, StartingUp
  <2>6. QED
    BY <2>4, <2>5
<1>7. CASE call.fn = "setup"
  <2>1. call.arg \in Modulations
    BY <1>1, <1>7 DEF Upcoming
  <2>2. todo' = si4060_setup(call.arg) /\ radio' = Setup(radio, call.arg)
    BY <1>1, <1>7, StepsOf
  <2>3. /\ radio' \in Radios /\ radio'.tx = radio.tx /\ radio'.chan = radio.chan
        /\ radio'.mod = call.arg /\ radio'.direct = "sync"
    BY <2>1, <1>2, <2>2, RadioSetup
  <2>4. Cmds(todo') \subseteq {"SET_PROPERTY", "CTS"}
    BY <2>1, <2>2, SetupSteps
  <2>5. RadioInv'
    BY <1>1, <1>2, <1>3, <1>7, <2>2, <2>3 DEF RadioInv, Upcoming, StartingUp
  <2>6. TodoInv'
    BY <1>1, <1>2, <1>3, <1>7, <2>3, <2>4 DEF TodoInv, RadioInv, Upcoming, StartingUp
  <2>7. QED
    BY <2>5, <2>6
<1>8. CASE call.fn = "rtty"
  <2>1. todo' = si4060_freq_2m_rtty /\ radio' = Freq2mRtty(radio)
    BY <1>1, <1>8, StepsOf
  <2>2. /\ radio' \in Radios /\ radio'.tx = radio.tx /\ radio'.chan = "rtty"
        /\ radio'.mod = "2FSK" /\ radio'.direct = "async"
    BY <1>2, <2>1, RadioTuned
  <2>3. Cmds(todo') \subseteq {"SET_PROPERTY", "CTS"}
    BY <2>1, Freq2mRttySteps
  <2>4. RadioInv'
    BY <1>1, <1>2, <1>3, <1>8, <2>1, <2>2 DEF RadioInv, Upcoming, StartingUp
  <2>5. TodoInv'
    BY <1>1, <1>2, <1>3, <1>8, <2>2, <2>3 DEF TodoInv, RadioInv, Upcoming, StartingUp
  <2>6. QED
    BY <2>4, <2>5
<1>9. CASE call.fn = "start_tx"
  <2>1. todo' = si4060_start_tx /\ radio' = StartTx(radio)
    BY <1>1, <1>9, StepsOf
  <2>2. /\ radio' \in Radios /\ radio'.tx = TRUE /\ radio'.chan = radio.chan
        /\ radio'.mod = radio.mod /\ radio'.direct = radio.direct
    BY <1>2, <2>1, RadioTx
  <2>3. Cmds(todo') = {"START_TX", "CTS"}
    BY <2>1, TxSteps
  <2>4. RadioInv'
    BY <1>1, <1>2, <1>3, <1>9, <2>1, <2>2 DEF RadioInv, Upcoming, StartingUp
  <2>5. TodoInv'
    BY <1>1, <1>2, <1>3, <1>9, <2>2, <2>3 DEF TodoInv, RadioInv, Upcoming, StartingUp
  <2>6. QED
    BY <2>4, <2>5
<1>10. CASE call.fn = "stop_tx"
  <2>1. todo' = si4060_stop_tx /\ radio' = StopTx(radio)
    BY <1>1, <1>10, StepsOf
  <2>2. /\ radio' \in Radios /\ radio'.tx = FALSE /\ radio'.chan = radio.chan
        /\ radio'.mod = radio.mod /\ radio'.direct = radio.direct
    BY <1>2, <2>1, RadioTx
  <2>3. Cmds(todo') = {"CHANGE_STATE", "CTS"}
    BY <2>1, TxSteps
  <2>4. RadioInv'
    BY <1>1, <1>2, <1>3, <1>10, <2>1, <2>2 DEF RadioInv, Upcoming, StartingUp
  <2>5. TodoInv'
    BY <1>1, <1>2, <1>3, <1>10, <2>2, <2>3 DEF TodoInv, RadioInv, Upcoming, StartingUp
  <2>6. QED
    BY <2>4, <2>5
<1>11. CASE call.fn = "aprs"
  <2>1. call.arg \in AprsChannels
    BY <1>1, <1>11 DEF Upcoming
  <2>2. todo' = si4060_freq_aprs(call.arg) /\ radio' = FreqAprs(radio)
    BY <1>1, <1>11, StepsOf
  <2>3. /\ radio' \in Radios /\ radio'.tx = radio.tx /\ radio'.chan = "aprs"
        /\ radio'.mod = "2GFSK" /\ radio'.direct = "sync"
    BY <2>1, <1>2, <2>2, RadioTuned
  <2>4. Cmds(todo') \subseteq {"SET_PROPERTY", "CTS"}
    BY <2>1, <2>2, FreqAprsSteps
  <2>5. RadioInv'
    BY <1>1, <1>2, <1>3, <1>11, <2>2, <2>3 DEF RadioInv, Upcoming, StartingUp
  <2>6. TodoInv'
    BY <1>1, <1>2, <1>3, <1>11, <2>3, <2>4 DEF TodoInv, RadioInv, Upcoming, StartingUp
  <2>7. QED
    BY <2>5, <2>6
<1>12. QED
  BY <1>1, <1>4, <1>5, <1>6, <1>7, <1>8, <1>9, <1>10, <1>11 DEF Upcoming

LEMMA BeginMirror ==
  ASSUME IInv, BeginCall, Live'
  PROVE  Mirrored' /\ Awake'
<1> DEFINE call == Head(calls)
           F(reg, v) == Left(pending, reg, v, regs[reg] = v)
           E(reg, v) == Left(todo', reg, v, F(reg, v))
<1>1. /\ todo = <<>> /\ calls # <<>> /\ Upcoming
      /\ left \in Nat \ {0} /\ left' = left - 1
      /\ todo' = Steps(call) /\ radio' = After(call, radio)
      /\ phase' = phase /\ fix' = fix
      /\ UNCHANGED <<chip, powered, pending, regs, tx>>
  BY BeginFacts DEF chipVars
<1>2. RadioInv /\ radio \in Radios /\ RadioInv'
  BY BeginRadio DEF IInv, RadioInv
<1>3. Cmds(todo) = {} /\ \A reg : Writes(todo, reg) = {}
  BY <1>1 DEF Cmds, Writes
<1>4. call.fn # "reset"
  <2> SUFFICES ASSUME call.fn = "reset" PROVE FALSE
    OBVIOUS
  <2>1. todo' = si4060_reset
    BY <1>1, StepsOf
  <2>2. "SHUTDOWN" \in Cmds(todo')
    BY <2>1, ResetSteps
  <2>3. QED
    BY <2>2 DEF Live
<1>5. Live /\ (phase = "startup" => left < 4)
  <2>1. chip # "absent"
    BY <1>1 DEF Live
  <2>2. phase = "startup" => left < 4
    BY <1>1, <1>4 DEF Upcoming
  <2>3. QED
    BY <1>3, <2>1, <2>2 DEF Live
<1>6. Mirrored /\ Awake
  BY <1>5 DEF IInv
<1>7. /\ ~StartingUp => \A reg \in Common : F(reg, "set")
      /\ F("MOD_TYPE", <<radio.mod, radio.direct>>)
      /\ radio.chan = "none" => \A reg \in Tuning : F(reg, "reset")
      /\ radio.chan = "rtty" => \A reg \in Tuning : F(reg, TuningOf("rtty")[reg])
      /\ radio.chan = "aprs" =>
           \E chan \in AprsChannels : \A reg \in Tuning : F(reg, TuningOf(chan)[reg])
      /\ phase \in {"aprs", "backlog"} /\ left <= 2 =>
           \A reg \in Tuning : F(reg, TuningOf(AprsChannel(fix))[reg])
      /\ AirAfter(pending, tx) = radio.tx
  BY <1>3, <1>6 DEF Mirrored, TunesTo, Ends, TxEnds, Left, AirAfter
<1>8. \A reg, v : E(reg, v) <=> IF Writes(todo', reg) = {} THEN F(reg, v)
                                ELSE Writes(todo', reg) = {v}
  BY DEF Left
<1>9. ASSUME /\ ~StartingUp' => \A reg \in Common : E(reg, "set")
             /\ E("MOD_TYPE", <<radio'.mod, radio'.direct>>)
             /\ radio'.chan = "none" => \A reg \in Tuning : E(reg, "reset")
             /\ radio'.chan = "rtty" => \A reg \in Tuning : E(reg, TuningOf("rtty")[reg])
             /\ radio'.chan = "aprs" =>
                  \E chan \in AprsChannels : \A reg \in Tuning : E(reg, TuningOf(chan)[reg])
             /\ phase \in {"aprs", "backlog"} /\ left' <= 2 =>
                  \A reg \in Tuning : E(reg, TuningOf(AprsChannel(fix))[reg]),
             AirAfter(todo', radio.tx) = radio'.tx
      PROVE  Mirrored'
  BY <1>1, <1>7, <1>9 DEF Mirrored, TunesTo, Ends, TxEnds
<1>10. /\ \A reg \in Common : reg \notin Tuning /\ reg # "MOD_TYPE"
       /\ "MOD_TYPE" \notin Tuning
  BY DEF Common, Filter, Tuning, Synth
<1> HIDE DEF E, F
<1>11. Awake'
  <2>1. \/ powered
        \/ phase = "startup" /\ left \in {2, 3}
    BY <1>1, <1>6 DEF Awake
  <2>2. Pending("SET_PROPERTY")' \/ Pending("START_TX")' => powered'
    BY <1>1, <1>6 DEF Awake, Pending
  <2>3. CASE powered
    BY <1>1, <2>2, <2>3 DEF Awake
  <2>4. CASE phase = "startup" /\ left = 3
    BY <1>1, <2>2, <2>4 DEF Awake
  <2>5. CASE phase = "startup" /\ left = 2
    <3>1. todo' = si4060_power_up
      BY <1>1, <2>5, StepsOf DEF Upcoming
    <3>2. "POWER_UP" \in Cmds(todo')
      BY <3>1, PowerUpSteps
    <3>3. todo' # <<>>
      BY <3>2 DEF Cmds
    <3>4. QED
      BY <1>1, <2>2, <2>5, <3>2, <3>3 DEF Awake
  <2>6. QED
    BY <2>1, <2>3, <2>4, <2>5
<1>12. CASE call.fn = "part_info"
  <2>1. todo' = si4060_part_info /\ radio' = PoweredUp
    BY <1>1, <1>12, StepsOf
  <2>2. (\A reg : Writes(todo', reg) = {}) /\ "START_TX" \notin Cmds(todo') /\ "CHANGE_STATE" \notin Cmds(todo')
    BY <2>1, PartInfoSteps
  <2>3. radio = PoweredUp
    BY <1>1, <1>2, <1>5, <1>12 DEF Upcoming, RadioInv, StartingUp
  <2>4. radio' = radio
    BY <2>1, <2>3
  <2>5. AirAfter(todo', radio.tx) = radio'.tx
    BY <2>2, <2>4 DEF AirAfter
  <2>6. StartingUp' \/ ~StartingUp
    BY <1>1, <1>12 DEF Upcoming, StartingUp
  <2>7. phase \in {"aprs", "backlog"} => left <= 2
    BY <1>1, <1>12 DEF Upcoming
  <2>8. \A reg, v : E(reg, v) <=> F(reg, v)
    BY <1>8, <2>2
  <2>9. QED
    BY <1>7, <1>9, <1>11, <2>3, <2>4, <2>5, <2>6, <2>7, <2>8
<1>13. CASE call.fn = "power_up"
  <2>1. todo' = si4060_power_up /\ radio' = PoweredUp
    BY <1>1, <1>13, StepsOf
  <2>2. (\A reg : Writes(todo', reg) = {}) /\ "START_TX" \notin Cmds(todo') /\ "CHANGE_STATE" \notin Cmds(todo')
    BY <2>1, PowerUpSteps
  <2>3. radio = PoweredUp
    BY <1>1, <1>2, <1>5, <1>13 DEF Upcoming, RadioInv, StartingUp
  <2>4. radio' = radio
    BY <2>1, <2>3
  <2>5. AirAfter(todo', radio.tx) = radio'.tx
    BY <2>2, <2>4 DEF AirAfter
  <2>6. StartingUp' \/ ~StartingUp
    BY <1>1, <1>13 DEF Upcoming, StartingUp
  <2>7. phase \in {"aprs", "backlog"} => left <= 2
    BY <1>1, <1>13 DEF Upcoming
  <2>8. \A reg, v : E(reg, v) <=> F(reg, v)
    BY <1>8, <2>2
  <2>9. QED
    BY <1>7, <1>9, <1>11, <2>3, <2>4, <2>5, <2>6, <2>7, <2>8
<1>14. CASE call.fn = "start_tx"
  <2>1. todo' = si4060_start_tx /\ radio' = StartTx(radio)
    BY <1>1, <1>14, StepsOf
  <2>2. (\A reg : Writes(todo', reg) = {}) /\ "START_TX" \in Cmds(todo')
    BY <2>1, TxSteps
  <2>3. /\ radio'.tx = TRUE /\ radio'.chan = radio.chan
        /\ radio'.mod = radio.mod /\ radio'.direct = radio.direct
    BY <1>2, <2>1, RadioTx
  <2>4. phase # "startup"
    BY <1>1, <1>14 DEF Upcoming
  <2>5. AirAfter(todo', radio.tx) = radio'.tx
    BY <2>2, <2>3 DEF AirAfter
  <2>6. ~StartingUp
    BY <2>4 DEF StartingUp
  <2>7. phase \in {"aprs", "backlog"} => left <= 2
    BY <1>1, <1>14 DEF Upcoming
  <2>8. \A reg, v : E(reg, v) <=> F(reg, v)
    BY <1>8, <2>2
  <2>9. QED
    BY <1>7, <1>9, <1>11, <2>3, <2>4, <2>5, <2>6, <2>7, <2>8
<1>15. CASE call.fn = "stop_tx"
  <2>1. todo' = si4060_stop_tx /\ radio' = StopTx(radio)
    BY <1>1, <1>15, StepsOf
  <2>2. (\A reg : Writes(todo', reg) = {}) /\ "START_TX" \notin Cmds(todo') /\ "CHANGE_STATE" \in Cmds(todo')
    BY <2>1, TxSteps
  <2>3. /\ radio'.tx = FALSE /\ radio'.chan = radio.chan
        /\ radio'.mod = radio.mod /\ radio'.direct = radio.direct
    BY <1>2, <2>1, RadioTx
  <2>4. phase # "startup"
    BY <1>1, <1>15 DEF Upcoming
  <2>5. AirAfter(todo', radio.tx) = radio'.tx
    BY <2>2, <2>3 DEF AirAfter
  <2>6. ~StartingUp
    BY <2>4 DEF StartingUp
  <2>7. phase \in {"aprs", "backlog"} => left <= 2
    BY <1>1, <1>15 DEF Upcoming
  <2>8. \A reg, v : E(reg, v) <=> F(reg, v)
    BY <1>8, <2>2
  <2>9. QED
    BY <1>7, <1>9, <1>11, <2>3, <2>4, <2>5, <2>6, <2>7, <2>8
<1>16. CASE call.fn = "setup"
  <2>1. call.arg \in Modulations
    BY <1>1, <1>16 DEF Upcoming
  <2>2. todo' = si4060_setup(call.arg) /\ radio' = Setup(radio, call.arg)
    BY <1>1, <1>16, StepsOf
  <2>3. /\ Cmds(todo') \subseteq {"SET_PROPERTY", "CTS"}
        /\ \A reg \in Common : Writes(todo', reg) = {"set"}
        /\ Writes(todo', "MOD_TYPE") = {<<call.arg, "sync">>}
        /\ \A reg \in Tuning : Writes(todo', reg) = {}
    BY <2>1, <2>2, SetupSteps
  <2>4. /\ radio'.tx = radio.tx /\ radio'.chan = radio.chan
        /\ radio'.mod = call.arg /\ radio'.direct = "sync"
    BY <1>2, <2>1, <2>2, RadioSetup
  <2>5. AirAfter(todo', radio.tx) = radio'.tx
    BY <2>3, <2>4 DEF AirAfter
  <2>6. phase \in {"aprs", "backlog"} => left <= 2
    BY <1>1, <1>16 DEF Upcoming
  <2>7. /\ \A reg \in Common : E(reg, "set")
        /\ E("MOD_TYPE", <<radio'.mod, radio'.direct>>)
        /\ \A reg \in Tuning : \A v : E(reg, v) <=> F(reg, v)
    BY <1>8, <2>3, <2>4
  <2>8. QED
    BY <1>7, <1>9, <1>11, <2>4, <2>5, <2>6, <2>7
<1>17. CASE call.fn = "rtty"
  <2>1. todo' = si4060_freq_2m_rtty /\ radio' = Freq2mRtty(radio)
    BY <1>1, <1>17, StepsOf
  <2>2. /\ Cmds(todo') \subseteq {"SET_PROPERTY", "CTS"}
        /\ \A reg \in Common : Writes(todo', reg) = {}
        /\ Writes(todo', "MOD_TYPE") = {<<"2FSK", "async">>}
        /\ \A reg \in Tuning : Writes(todo', reg) = {TuningOf("rtty")[reg]}
    BY <2>1, Freq2mRttySteps
  <2>3. /\ radio'.tx = radio.tx /\ radio'.chan = "rtty"
        /\ radio'.mod = "2FSK" /\ radio'.direct = "async"
    BY <1>2, <2>1, RadioTuned
  <2>4. AirAfter(todo', radio.tx) = radio'.tx
    BY <2>2, <2>3 DEF AirAfter
  <2>5. phase \notin {"aprs", "backlog"} /\ ~StartingUp
    BY <1>1, <1>17 DEF Upcoming, StartingUp
  <2>6. /\ \A reg \in Common : E(reg, "set") <=> F(reg, "set")
        /\ E("MOD_TYPE", <<radio'.mod, radio'.direct>>)
        /\ \A reg \in Tuning : E(reg, TuningOf("rtty")[reg])
    BY <1>8, <2>2, <2>3
  <2>7. QED
    BY <1>7, <1>9, <1>11, <2>3, <2>4, <2>5, <2>6
<1>18. CASE call.fn = "aprs"
  <2>1. call.arg \in AprsChannels
    BY <1>1, <1>18 DEF Upcoming
  <2>2. todo' = si4060_freq_aprs(call.arg) /\ radio' = FreqAprs(radio)
    BY <1>1, <1>18, StepsOf
  <2>3. /\ Cmds(todo') \subseteq {"SET_PROPERTY", "CTS"}
        /\ \A reg \in Common : Writes(todo', reg) = {}
        /\ Writes(todo', "MOD_TYPE") = {<<"2GFSK", "sync">>}
        /\ \A reg \in Tuning : Writes(todo', reg) = {TuningOf(call.arg)[reg]}
    BY <2>1, <2>2, FreqAprsSteps
  <2>4. /\ radio'.tx = radio.tx /\ radio'.chan = "aprs"
        /\ radio'.mod = "2GFSK" /\ radio'.direct = "sync"
    BY <1>2, <2>2, RadioTuned
  <2>5. AirAfter(todo', radio.tx) = radio'.tx
    BY <2>3, <2>4 DEF AirAfter
  <2>6. ~StartingUp /\ left >= 3 /\ (left = 3 => call.arg = AprsChannel(fix))
    BY <1>1, <1>18 DEF Upcoming, StartingUp
  <2>7. /\ \A reg \in Common : E(reg, "set") <=> F(reg, "set")
        /\ E("MOD_TYPE", <<radio'.mod, radio'.direct>>)
        /\ \A reg \in Tuning : E(reg, TuningOf(call.arg)[reg])
    BY <1>8, <2>3, <2>4
  <2>8. left' <= 2 => call.arg = AprsChannel(fix)
    BY <1>1, <2>6
  <2>9. QED
    BY <1>7, <1>9, <1>11, <2>1, <2>4, <2>5, <2>6, <2>7, <2>8
<1>19. QED
  BY <1>1, <1>4, <1>12, <1>13, <1>14, <1>15, <1>16, <1>17, <1>18 DEF Upcoming

LEMMA Begins ==
  ASSUME IInv, BeginCall
  PROVE  IInv'
<1>1. ChipInv' /\ SeqInv' /\ PlanInv' /\ PaceInv' /\ AirInv'
  BY BeginPlan
<1>2. RadioInv' /\ TodoInv'
  BY BeginRadio
<1>3. Live' => Mirrored' /\ Awake'
  BY BeginMirror
<1>4. QED
  BY <1>1, <1>2, <1>3 DEF IInv

----------------------------------------------------------------------------
(* A step of a call, whatever it is.                                       *)

LEMMA StepFacts ==
  ASSUME IInv, todo # <<>>, Advance, phase' = phase
  PROVE  /\ SeqInv' /\ RadioInv' /\ TodoInv' /\ calls' = calls /\ fix' = fix /\ left' = left
         /\ Head(todo) \in Items /\ Head(todo) = todo[1] /\ radio' = radio
         /\ Cmds(todo) = {Head(todo).cmd} \cup Cmds(todo')
         /\ \A reg : Writes(todo, reg) =
                       (IF Sets(todo, 1, reg) THEN {Head(todo).val} ELSE {})
                         \cup Writes(todo', reg)
         /\ Paced(todo', Head(todo).cmd = "CTS")
         /\ todo' = <<>> => Head(todo) = todo[Len(todo)]
<1>1. /\ todo \in Seq(Items) /\ todo' = Tail(todo) /\ calls' = calls
      /\ fix' = fix /\ radio' = radio
  BY DEF IInv, SeqInv, Advance
<1>2. /\ todo' \in Seq(Items) /\ Len(todo') = Len(todo) - 1 /\ Len(todo) \in Nat \ {0}
      /\ Head(todo) = todo[1] /\ Head(todo) \in Items
      /\ Cmds(todo) = {Head(todo).cmd} \cup Cmds(todo')
      /\ \A reg : Writes(todo, reg) =
                    (IF Sets(todo, 1, reg) THEN {Head(todo).val} ELSE {})
                      \cup Writes(todo', reg)
      /\ \A ready : Paced(todo, ready) => Paced(todo', Head(todo).cmd = "CTS")
  BY <1>1, TailSteps
<1>3. left' = left
  BY <1>1 DEF left
<1>4. SeqInv'
  BY <1>1, <1>2 DEF IInv, SeqInv
<1>5. RadioInv'
  BY <1>1, <1>3 DEF IInv, RadioInv, StartingUp, ToStop
<1>6. Paced(todo', Head(todo).cmd = "CTS")
  BY <1>2 DEF IInv, PaceInv
<1>7. todo' = <<>> => Len(todo) = 1
  BY <1>2, EmptySeq
<1>8. TodoInv'
  <2>1. /\ phase' = phase /\ left' = left /\ radio' = radio
        /\ StartingUp' <=> StartingUp
        /\ Cmds(todo') \subseteq Cmds(todo)
    BY <1>1, <1>2, <1>3 DEF StartingUp
  <2>2. todo' # <<>> => todo'[Len(todo')] = todo[Len(todo)]
    <3> SUFFICES ASSUME todo' # <<>> PROVE todo'[Len(todo')] = todo[Len(todo)]
      OBVIOUS
    <3>1. Len(todo') \in 1 .. Len(todo')
      BY <1>2, EmptySeq
    <3>2. \A k \in 1 .. Len(Tail(todo)) : Tail(todo)[k] = todo[k + 1]
      BY <1>1, HeadTailProperties
    <3>3. todo'[Len(todo')] = todo[Len(todo') + 1] /\ Len(todo') + 1 = Len(todo)
      BY <1>1, <1>2, <3>1, <3>2
    <3>4. QED
      BY <3>3
  <2>3. TodoInv
    BY DEF IInv
  <2>4. QED
    BY <2>1, <2>2, <2>3 DEF TodoInv
<1>9. QED
  BY <1>1, <1>2, <1>3, <1>4, <1>5, <1>6, <1>7, <1>8

LEMMA StepPlan ==
  ASSUME IInv, todo # <<>>, Advance, phase' = phase,
         (chip = "absent") <=> (chip' = "absent"),
         Head(todo).cmd # "RESPONSE" \/ chip # "absent"
  PROVE  PlanInv'
<1>1. /\ calls' = calls /\ fix' = fix /\ left' = left
      /\ Cmds(todo) = {Head(todo).cmd} \cup Cmds(todo')
  BY StepFacts
<1>2. PlanInv
  BY DEF IInv
<1>3. chip' = "absent" => \/ phase = "startup" /\ left' >= 3
                          \/ /\ phase = "startup" /\ left' = 2
                             /\ "RESPONSE" \in Cmds(todo')
  BY <1>1, <1>2 DEF PlanInv
<1>4. QED
  BY <1>1, <1>2, <1>3 DEF PlanInv, EndOf

(* Whatever moves a command from the driver to the chip, or executes it,   *)
(* leaves what the registers will hold.                                    *)
LEMMA SameMirror ==
  ASSUME Mirrored, radio' = radio, ~StartingUp' => ~StartingUp,
         phase' \in {"aprs", "backlog"} /\ left' <= 2 => phase \in {"aprs", "backlog"} /\ left <= 2 /\ fix' = fix,
         \A reg \in Registers : \A v :
            Left(todo, reg, v, Left(pending, reg, v, regs[reg] = v))
              => Left(todo', reg, v, Left(pending', reg, v, regs'[reg] = v)),
         AirAfter(todo', AirAfter(pending', tx')) = AirAfter(todo, AirAfter(pending, tx))
  PROVE  Mirrored'
<1> DEFINE F(reg, v) == Left(todo, reg, v, Left(pending, reg, v, regs[reg] = v))
           E(reg, v) == Left(todo', reg, v, Left(pending', reg, v, regs'[reg] = v))
<1>1. /\ ~StartingUp => \A reg \in Common : F(reg, "set")
      /\ F("MOD_TYPE", <<radio.mod, radio.direct>>)
      /\ radio.chan = "none" => \A reg \in Tuning : F(reg, "reset")
      /\ radio.chan = "rtty" => \A reg \in Tuning : F(reg, TuningOf("rtty")[reg])
      /\ radio.chan = "aprs" =>
           \E chan \in AprsChannels : \A reg \in Tuning : F(reg, TuningOf(chan)[reg])
      /\ phase \in {"aprs", "backlog"} /\ left <= 2 =>
           \A reg \in Tuning : F(reg, TuningOf(AprsChannel(fix))[reg])
      /\ AirAfter(todo, AirAfter(pending, tx)) = radio.tx
  BY DEF Mirrored, TunesTo, Ends, TxEnds
<1>2. \A reg \in Registers : \A v : F(reg, v) => E(reg, v)
  OBVIOUS
<1>3. ASSUME /\ ~StartingUp' => \A reg \in Common : E(reg, "set")
             /\ E("MOD_TYPE", <<radio.mod, radio.direct>>)
             /\ radio.chan = "none" => \A reg \in Tuning : E(reg, "reset")
             /\ radio.chan = "rtty" => \A reg \in Tuning : E(reg, TuningOf("rtty")[reg])
             /\ radio.chan = "aprs" =>
                  \E chan \in AprsChannels : \A reg \in Tuning : E(reg, TuningOf(chan)[reg])
             /\ phase' \in {"aprs", "backlog"} /\ left' <= 2 =>
                  \A reg \in Tuning : E(reg, TuningOf(AprsChannel(fix'))[reg])
      PROVE  Mirrored'
  BY <1>1, <1>3 DEF Mirrored, TunesTo, Ends, TxEnds
<1> HIDE DEF E, F
<1>4. \A reg : reg \in Common \/ reg \in Tuning \/ reg = "MOD_TYPE" => reg \in Registers
  BY DEF Registers
<1>5. QED
  BY <1>1, <1>2, <1>3, <1>4

(* A step that sends nothing leaves what the chip will do as it was.       *)
LEMMA StepMirror ==
  ASSUME IInv, todo # <<>>, Advance, phase' = phase, Live,
         Head(todo).cmd \in {"CTS", "WAKEUP", "RESPONSE"},
         UNCHANGED <<powered, pending, regs, tx>>,
         Head(todo).cmd = "CTS" => pending = <<>>
  PROVE  Mirrored' /\ Awake'
<1>1. /\ calls' = calls /\ fix' = fix /\ left' = left /\ radio' = radio
      /\ Head(todo) = todo[1]
      /\ Cmds(todo) = {Head(todo).cmd} \cup Cmds(todo')
      /\ \A reg : Writes(todo, reg) =
                    (IF Sets(todo, 1, reg) THEN {Head(todo).val} ELSE {})
                      \cup Writes(todo', reg)
  BY StepFacts
<1>2. \A reg : Writes(todo', reg) = Writes(todo, reg)
  BY <1>1 DEF Sets
<1>3. /\ "START_TX" \in Cmds(todo') <=> "START_TX" \in Cmds(todo)
      /\ "CHANGE_STATE" \in Cmds(todo') <=> "CHANGE_STATE" \in Cmds(todo)
      /\ "POWER_UP" \in Cmds(todo') <=> "POWER_UP" \in Cmds(todo)
  BY <1>1
<1>4. Mirrored /\ Awake
  BY DEF IInv
<1>5. StartingUp' <=> StartingUp
  BY <1>1 DEF StartingUp
<1>6. Mirrored'
  <2>1. \A reg \in Registers : \A v :
          Left(todo, reg, v, Left(pending, reg, v, regs[reg] = v))
            => Left(todo', reg, v, Left(pending', reg, v, regs'[reg] = v))
    BY <1>2 DEF Left
  <2>2. AirAfter(todo', AirAfter(pending', tx')) = AirAfter(todo, AirAfter(pending, tx))
    BY <1>3 DEF AirAfter
  <2>3. QED
    BY <1>1, <1>4, <1>5, <2>1, <2>2, SameMirror
<1>7. Awake'
  <2>1. \A cmd : Pending(cmd)' <=> Pending(cmd)
    BY DEF Pending
  <2>2. CASE phase = "startup" /\ left = 1 /\ "POWER_UP" \in Cmds(todo)
    <3>1. todo' # <<>>
      BY <1>3, <2>2 DEF Cmds
    <3>2. QED
      BY <1>1, <1>3, <1>4, <2>1, <2>2, <3>1 DEF Awake
  <2>3. CASE phase = "startup" /\ left = 1 /\ Pending("POWER_UP") /\ ~powered
    <3>1. Head(todo).cmd # "CTS"
      BY <2>3 DEF Pending
    <3>2. Cmds(todo) \subseteq {"POWER_UP", "CTS"}
      BY <2>3 DEF IInv, TodoInv, StartingUp
    <3>3. QED
      BY <1>1, <3>1, <3>2
  <2>4. CASE powered \/ (phase = "startup" /\ left \in {2, 3})
    BY <1>1, <1>4, <2>1, <2>4 DEF Awake
  <2>5. QED
    BY <1>4, <2>2, <2>3, <2>4 DEF Awake
<1>8. QED
  BY <1>6, <1>7

LEMMA Weaker ==
  ASSUME NEW s, NEW ready, NEW other, Paced(s, ready), ready => other
  PROVE  Paced(s, other)
  BY DEF Paced

LEMMA NoWrites ==
  ASSUME NEW s, "SET_PROPERTY" \notin Cmds(s)
  PROVE  \A reg : Writes(s, reg) = {}
  BY DEF Cmds, Writes, Sets

LEMMA Gets ==
  ASSUME IInv, GetCts
  PROVE  IInv'
<1>1. /\ todo # <<>> /\ Head(todo).cmd = "CTS" /\ chip \in {"ready", "absent"}
      /\ Advance /\ phase' = phase /\ UNCHANGED <<chip, powered, pending, regs, tx>>
  BY DEF GetCts, AtStep, chipVars
<1>2. /\ SeqInv' /\ RadioInv' /\ TodoInv' /\ left' = left
      /\ Cmds(todo) = {Head(todo).cmd} \cup Cmds(todo')
      /\ Paced(todo', Head(todo).cmd = "CTS")
  BY <1>1, StepFacts
<1>3. PlanInv'
  BY <1>1, StepPlan
<1>4. ChipInv' /\ AirInv' /\ pending = <<>>
  <2>1. ChipInv' /\ pending = <<>>
    BY <1>1 DEF IInv, ChipInv
  <2>2. AirInv'
    BY <1>1 DEF IInv, AirInv, SetUp, TunedTo, Pending
  <2>3. QED
    BY <2>1, <2>2
<1>5. PaceInv'
  BY <1>1, <1>2 DEF PaceInv, Paced
<1>6. Live' => Mirrored' /\ Awake'
  <2>1. Live' => Live
    BY <1>1, <1>2 DEF Live
  <2>2. QED
    BY <1>1, <1>4, <2>1, StepMirror
<1>7. QED
  BY <1>2, <1>3, <1>4, <1>5, <1>6 DEF IInv

LEMMA WakesUp ==
  ASSUME IInv, si4060_wakeup
  PROVE  IInv'
<1>1. /\ todo # <<>> /\ Head(todo).cmd = "WAKEUP"
      /\ chip' = IF chip = "absent" THEN "absent" ELSE "busy"
      /\ Advance /\ phase' = phase /\ UNCHANGED <<powered, pending, regs, tx>>
  BY DEF si4060_wakeup, AtStep
<1>2. /\ SeqInv' /\ RadioInv' /\ TodoInv' /\ left' = left
      /\ Cmds(todo) = {Head(todo).cmd} \cup Cmds(todo')
      /\ Paced(todo', Head(todo).cmd = "CTS")
  BY <1>1, StepFacts
<1>3. PlanInv'
  BY <1>1, StepPlan
<1>4. ChipInv' /\ AirInv'
  <2>1. ChipInv'
    BY <1>1 DEF IInv, ChipInv
  <2>2. AirInv'
    BY <1>1 DEF IInv, AirInv, SetUp, TunedTo, Pending
  <2>3. QED
    BY <2>1, <2>2
<1>5. PaceInv'
  BY <1>1, <1>2 DEF PaceInv, Paced
<1>6. Live' => Mirrored' /\ Awake'
  <2>1. Live' => Live
    BY <1>1, <1>2 DEF Live
  <2>2. QED
    BY <1>1, <2>1, StepMirror
<1>7. QED
  BY <1>2, <1>3, <1>4, <1>5, <1>6 DEF IInv

LEMMA Responds ==
  ASSUME IInv, Response
  PROVE  IInv'
<1>1. /\ todo # <<>> /\ Head(todo).cmd = "RESPONSE"
      /\ UNCHANGED <<chip, powered, pending, regs, tx>>
  BY DEF Response, AtStep, chipVars
<1>2. ChipInv' /\ AirInv'
  <2>1. ChipInv'
    BY <1>1 DEF IInv, ChipInv
  <2>2. AirInv'
    BY <1>1 DEF IInv, AirInv, SetUp, TunedTo, Pending
  <2>3. QED
    BY <2>1, <2>2
<1>3. CASE chip # "absent"
  <2>1. Advance /\ phase' = phase
    BY <1>3 DEF Response, Accepted
  <2>2. /\ SeqInv' /\ RadioInv' /\ TodoInv' /\ left' = left
        /\ Cmds(todo) = {Head(todo).cmd} \cup Cmds(todo')
        /\ Paced(todo', Head(todo).cmd = "CTS")
    BY <1>1, <2>1, StepFacts
  <2>3. PlanInv'
    BY <1>1, <1>3, <2>1, StepPlan
  <2>4. PaceInv'
    BY <1>1, <2>2 DEF PaceInv, Paced
  <2>5. Live' => Mirrored' /\ Awake'
    <3>1. Live' => Live
      BY <1>1, <2>1, <2>2 DEF Live
    <3>2. QED
      BY <1>1, <2>1, <3>1, StepMirror
  <2>6. QED
    BY <1>2, <2>2, <2>3, <2>4, <2>5 DEF IInv
<1>4. CASE chip = "absent"
  <2>1. phase' = "halted" /\ todo' = <<>> /\ calls' = <<>> /\ fix' = fix /\ radio' = radio
    BY <1>4 DEF Response, Accepted
  <2>2. SeqInv'
    BY <2>1 DEF SeqInv
  <2>3. PlanInv'
    BY <1>1, <1>4, <2>1 DEF IInv, PlanInv
  <2>4. RadioInv'
    BY <2>1 DEF IInv, RadioInv, StartingUp
  <2>5. TodoInv' /\ PaceInv'
    BY <2>1 DEF TodoInv, PaceInv, Paced
  <2>6. ~Live'
    BY <1>1, <1>4 DEF Live
  <2>7. QED
    BY <1>2, <2>2, <2>3, <2>4, <2>5, <2>6 DEF IInv
<1>5. QED
  BY <1>3, <1>4

(* A chip that is shut down holds what a chip that is not set up holds.    *)
LEMMA ShutsDown ==
  ASSUME IInv, si4060_shutdown
  PROVE  IInv'
<1>1. /\ todo # <<>> /\ Head(todo).cmd = "SHUTDOWN"
      /\ chip' = IF chip = "absent" THEN "absent" ELSE "off"
      /\ powered' = FALSE /\ pending' = <<>> /\ regs' = ResetRegs /\ tx' = FALSE
      /\ Advance /\ phase' = phase
  BY DEF si4060_shutdown, AtStep
<1>2. /\ SeqInv' /\ RadioInv' /\ TodoInv' /\ left' = left
      /\ Cmds(todo) = {Head(todo).cmd} \cup Cmds(todo')
      /\ Paced(todo', Head(todo).cmd = "CTS") /\ radio' = radio
  BY <1>1, StepFacts
<1>3. PlanInv'
  BY <1>1, StepPlan
<1>4. DOMAIN ResetRegs = Registers /\ ResetRegs["MOD_TYPE"] = <<"none", "sync">>
      /\ \A reg \in Tuning : ResetRegs[reg] = "reset"
  BY DEF ResetRegs, Registers, Tuning, Synth
<1>5. ChipInv' /\ AirInv'
  <2>1. powered' \in BOOLEAN /\ tx' \in BOOLEAN
    BY <1>1
  <2>2. ChipInv'
    BY <1>1, <1>4, <2>1 DEF IInv, ChipInv
  <2>3. AirInv'
    BY <1>1 DEF AirInv, Pending
  <2>4. QED
    BY <2>2, <2>3
<1>6. PaceInv'
  BY <1>1, <1>2 DEF PaceInv, Paced
<1>7. phase = "startup" /\ left = 3 /\ Cmds(todo) \subseteq {"SHUTDOWN", "WAKEUP", "CTS"}
  BY <1>1, <1>2 DEF IInv, TodoInv
<1>8. radio = PoweredUp
  BY <1>7 DEF IInv, RadioInv, StartingUp
<1>9. Mirrored'
  <2>1. \A reg : Writes(todo', reg) = {}
    <3>1. "SET_PROPERTY" \notin Cmds(todo')
      BY <1>2, <1>7
    <3>2. QED
      BY <3>1, NoWrites
  <2>2. Cmds(<<>>) = {} /\ \A reg : Writes(<<>>, reg) = {}
    BY DEF Cmds, Writes
  <2>3. \A reg, v : Left(todo', reg, v, Left(pending', reg, v, regs'[reg] = v))
                      <=> ResetRegs[reg] = v
    BY <1>1, <2>1, <2>2 DEF Left
  <2>4. AirAfter(todo', AirAfter(pending', tx')) = FALSE
    BY <1>1, <1>2, <1>7, <2>2 DEF AirAfter
  <2>5. StartingUp' /\ phase' \notin {"aprs", "backlog"}
    BY <1>1, <1>2, <1>7 DEF StartingUp
  <2>6. /\ radio'.tx = FALSE /\ radio'.chan = "none"
        /\ radio'.mod = "none" /\ radio'.direct = "sync"
    BY <1>2, <1>8, RadioPoweredUp
  <2>7. QED
    BY <1>4, <2>3, <2>4, <2>5, <2>6 DEF Mirrored, Ends, TxEnds
<1>10. Awake'
  BY <1>1, <1>2, <1>7 DEF Awake, Pending
<1>11. QED
  BY <1>2, <1>3, <1>5, <1>6, <1>9, <1>10 DEF IInv

LEMMA NoSteps ==
  Cmds(<<>>) = {} /\ \A reg : Writes(<<>>, reg) = {}
  BY DEF Cmds, Writes

LEMMA OneStep ==
  ASSUME NEW c
  PROVE  /\ Cmds(<<c>>) = {c.cmd}
         /\ \A reg : Writes(<<c>>, reg) = IF c.cmd = "SET_PROPERTY" /\ c.reg = reg
                                          THEN {c.val} ELSE {}
<1> DEFINE s == <<c>>
<1>1. Len(s) = 1 /\ s[1] = c
  OBVIOUS
<1> HIDE DEF s
<1>2. 1 .. Len(s) = {1}
  BY <1>1
<1>3. Cmds(s) = {c.cmd}
  BY <1>1, <1>2 DEF Cmds
<1>4. \A reg : Writes(s, reg) = IF c.cmd = "SET_PROPERTY" /\ c.reg = reg
                                THEN {c.val} ELSE {}
  BY <1>1, <1>2 DEF Writes, Sets
<1>5. QED
  BY <1>3, <1>4 DEF s

(* A command that is sent finds the chip ready, or nobody there.           *)
LEMMA SentToReady ==
  ASSUME IInv, todo # <<>>, Head(todo).cmd \notin Pins \cup {"CTS"}
  PROVE  chip \in {"ready", "absent"}
<1>1. /\ todo \in Seq(Items) /\ Head(todo) = todo[1] /\ Len(todo) \in Nat \ {0}
      /\ Paced(todo, chip \in {"ready", "absent"})
  BY TailSteps DEF IInv, SeqInv, PaceInv
<1>2. 1 \in 1 .. Len(todo) /\ ~(1 > 1)
  BY <1>1
<1>3. QED
  BY <1>1, <1>2 DEF Paced, Waits

LEMMA SendAir ==
  ASSUME IInv, Send, chip = "ready", pending = <<>>
  PROVE  /\ Head(todo).cmd = "START_TX" => SetUp
         /\ Head(todo).cmd = "SET_PROPERTY" => tx = FALSE
<1> DEFINE c == Head(todo)
<1>1. todo # <<>> /\ Advance /\ phase' = phase
  BY DEF Send
<1>2. Cmds(todo) = {c.cmd} \cup Cmds(todo')
  BY <1>1, StepFacts
<1>3. TodoInv /\ RadioInv /\ PlanInv
  BY DEF IInv
<1>4. c.cmd \in {"START_TX", "SET_PROPERTY"} => Mirrored
  <2> SUFFICES ASSUME c.cmd \in {"START_TX", "SET_PROPERTY"} PROVE Mirrored
    OBVIOUS
  <2>1. ~StartingUp /\ "SHUTDOWN" \notin Cmds(todo)
    BY <1>1, <1>2, <1>3 DEF TodoInv, StartingUp
  <2>2. ~(phase = "startup" /\ left = 4)
    BY <2>1 DEF StartingUp
  <2>3. Live
    BY <2>1, <2>2 DEF Live
  <2>4. QED
    BY <2>3 DEF IInv
<1>5. CASE c.cmd = "START_TX"
  <2>1. /\ phase # "startup" /\ left = 0 /\ "SET_PROPERTY" \notin Cmds(todo)
    BY <1>1, <1>2, <1>3, <1>5 DEF TodoInv
  <2>2. \A reg : Writes(todo, reg) = {} /\ Writes(pending, reg) = {}
    BY <2>1, NoWrites, NoSteps
  <2>3. \A reg, v : Ends(reg, v) <=> regs[reg] = v
    BY <2>2 DEF Ends, Left
  <2>4. radio.chan \in {"rtty", "aprs"}
    <3>1. radio.chan \in {"none", "rtty", "aprs"}
      BY <1>3 DEF RadioInv, Radios, Channels
    <3>2. phase # "halted"
      BY <1>1, <1>3 DEF PlanInv
    <3>3. QED
      BY <1>3, <2>1, <3>1, <3>2 DEF RadioInv, PlanInv
  <2>5. \A reg \in Common : regs[reg] = "set"
    BY <1>4, <1>5, <2>1, <2>3 DEF Mirrored, StartingUp
  <2>6. \E chan \in AprsChannels \cup {"rtty"} : TunedTo(chan)
    <3>1. \A chan : TunesTo(chan) => TunedTo(chan)
      BY <2>3 DEF TunesTo, TunedTo
    <3>2. QED
      BY <1>4, <1>5, <2>4, <3>1 DEF Mirrored
  <2>7. QED
    BY <1>5, <2>5, <2>6 DEF SetUp
<1>6. CASE c.cmd = "SET_PROPERTY"
  <2>1. /\ radio.tx = FALSE
        /\ "START_TX" \notin Cmds(todo) /\ "CHANGE_STATE" \notin Cmds(todo)
    <3>1. Cmds(todo) \subseteq {"SET_PROPERTY", "CTS"} /\ ~radio.tx
      BY <1>1, <1>2, <1>3, <1>6 DEF TodoInv
    <3>2. radio.tx \in BOOLEAN
      BY <1>3 DEF RadioInv, Radios
    <3>3. QED
      BY <3>1, <3>2
  <2>2. TxEnds = tx
    BY <2>1, NoSteps DEF TxEnds, AirAfter
  <2>3. QED
    BY <1>4, <1>6, <2>1, <2>2 DEF Mirrored
<1>7. QED
  BY <1>5, <1>6

LEMMA SendMirror ==
  ASSUME IInv, Send, Live, chip = "ready", pending = <<>>
  PROVE  Mirrored' /\ Awake'
<1> DEFINE c == Head(todo)
<1>1. /\ todo # <<>> /\ Advance /\ phase' = phase /\ pending' = <<c>>
      /\ c.cmd \in {"PART_INFO", "POWER_UP", "START_TX", "CHANGE_STATE", "SET_PROPERTY"}
      /\ UNCHANGED <<powered, regs, tx>>
  BY DEF Send
<1>2. /\ calls' = calls /\ fix' = fix /\ left' = left /\ radio' = radio /\ c = todo[1]
      /\ Cmds(todo) = {c.cmd} \cup Cmds(todo')
      /\ \A reg : Writes(todo, reg) =
                    (IF Sets(todo, 1, reg) THEN {c.val} ELSE {}) \cup Writes(todo', reg)
      /\ todo' = <<>> => c = todo[Len(todo)]
  BY <1>1, StepFacts
<1>3. TodoInv /\ Mirrored /\ Awake
  BY DEF IInv
<1>4. /\ Cmds(pending') = {c.cmd}
      /\ \A reg : Writes(pending', reg) = IF c.cmd = "SET_PROPERTY" /\ c.reg = reg
                                          THEN {c.val} ELSE {}
  BY <1>1, OneStep
<1>5. \A reg : Writes(todo, reg) = Writes(pending', reg) \cup Writes(todo', reg)
  BY <1>2, <1>4 DEF Sets
<1>6. ASSUME NEW reg, NEW v
      PROVE  Left(todo, reg, v, Left(pending, reg, v, regs[reg] = v))
               => Left(todo', reg, v, Left(pending', reg, v, regs'[reg] = v))
  <2>1. Writes(pending, reg) = {}
    BY NoSteps
  <2>2. CASE Writes(pending', reg) = {}
    <3>1. Writes(todo, reg) = Writes(todo', reg)
      BY <1>5, <2>2
    <3>2. QED
      BY <1>1, <2>1, <2>2, <3>1 DEF Left
  <2>3. CASE Writes(pending', reg) # {}
    <3>1. Writes(todo, reg) # {}
      BY <1>5, <2>3
    <3>2. SUFFICES ASSUME Writes(todo, reg) = {v}
                   PROVE  Left(todo', reg, v, Left(pending', reg, v, regs'[reg] = v))
      BY <3>1 DEF Left
    <3>3. Writes(pending', reg) = {v} /\ Writes(todo', reg) \in {{}, {v}}
      BY <1>5, <2>3, <3>2
    <3>4. QED
      BY <3>3 DEF Left
  <2>4. QED
    BY <2>2, <2>3
<1>7. AirAfter(todo', AirAfter(pending', tx')) = AirAfter(todo, AirAfter(pending, tx))
  <2>1. ~("START_TX" \in Cmds(todo) /\ "CHANGE_STATE" \in Cmds(todo))
    BY <1>1, <1>3 DEF TodoInv
  <2>2. AirAfter(pending, tx) = tx
    BY NoSteps DEF AirAfter
  <2>3. QED
    BY <1>1, <1>2, <1>4, <2>1, <2>2 DEF AirAfter
<1>8. StartingUp' <=> StartingUp
  BY <1>1, <1>2 DEF StartingUp
<1>9. Mirrored'
  BY <1>1, <1>2, <1>3, <1>6, <1>7, <1>8, SameMirror
<1>10. \A cmd : Pending(cmd)' <=> c.cmd = cmd
  BY <1>1 DEF Pending
<1>11. c.cmd \in {"SET_PROPERTY", "START_TX"} => powered
  <2>1. c.cmd \in {"SET_PROPERTY", "START_TX"} => ~StartingUp
    BY <1>1, <1>2, <1>3 DEF TodoInv, StartingUp
  <2>2. QED
    BY <1>3, <2>1 DEF Awake, StartingUp
<1>12. Awake'
  <2>1. Pending("SET_PROPERTY")' \/ Pending("START_TX")' => powered'
    BY <1>1, <1>10, <1>11
  <2>2. CASE powered \/ (phase = "startup" /\ left \in {2, 3})
    BY <1>1, <1>2, <2>1, <2>2 DEF Awake
  <2>3. CASE phase = "startup" /\ left = 1 /\ "POWER_UP" \in Cmds(todo)
    <3>1. "POWER_UP" \in Cmds(todo') \/ Pending("POWER_UP")'
      BY <1>2, <1>10, <2>3
    <3>2. todo[Len(todo)].cmd = "CTS"
      BY <1>1, <1>3, <2>3 DEF TodoInv, StartingUp
    <3>3. todo' # <<>>
      BY <1>1, <1>2, <3>2
    <3>4. QED
      BY <1>1, <1>2, <2>1, <2>3, <3>1, <3>3 DEF Awake
  <2>4. ~Pending("POWER_UP")
    BY DEF Pending
  <2>5. QED
    BY <1>3, <2>2, <2>3, <2>4 DEF Awake
<1>13. QED
  BY <1>9, <1>12

LEMMA Sends ==
  ASSUME IInv, Send
  PROVE  IInv'
<1> DEFINE c == Head(todo)
<1>1. /\ todo # <<>> /\ Advance /\ phase' = phase
      /\ c.cmd \in {"PART_INFO", "POWER_UP", "START_TX", "CHANGE_STATE", "SET_PROPERTY"}
      /\ UNCHANGED <<powered, regs, tx>>
  BY DEF Send
<1>2. /\ SeqInv' /\ RadioInv' /\ TodoInv' /\ left' = left /\ c \in Items
      /\ Cmds(todo) = {c.cmd} \cup Cmds(todo')
      /\ Paced(todo', c.cmd = "CTS")
  BY <1>1, StepFacts
<1>3. PaceInv'
  BY <1>1, <1>2 DEF PaceInv, Paced
<1>4. chip \in {"ready", "absent"} /\ pending = <<>>
  <2>1. chip \in {"ready", "absent"}
    BY <1>1, SentToReady DEF Pins
  <2>2. QED
    BY <2>1 DEF IInv, ChipInv
<1>5. CASE chip = "absent"
  <2>1. chip' = chip /\ pending' = pending
    BY <1>5 DEF Send
  <2>2. ChipInv'
    BY <1>1, <2>1 DEF IInv, ChipInv
  <2>3. AirInv'
    BY <1>1, <2>1 DEF IInv, AirInv, SetUp, TunedTo, Pending
  <2>4. PlanInv'
    BY <1>1, <2>1, StepPlan
  <2>5. ~Live'
    BY <1>5, <2>1 DEF Live
  <2>6. QED
    BY <1>2, <1>3, <2>2, <2>3, <2>4, <2>5 DEF IInv
<1>6. CASE chip = "ready"
  <2>1. chip' = "busy" /\ pending' = <<c>>
    BY <1>6 DEF Send
  <2>2. ChipInv'
    <3>1. \E x \in Items : pending' = <<x>>
      BY <1>2, <2>1
    <3>2. QED
      BY <1>1, <2>1, <3>1 DEF IInv, ChipInv
  <2>3. PlanInv'
    BY <1>1, <1>6, <2>1, StepPlan
  <2>4. AirInv'
    <3>1. /\ c.cmd = "START_TX" => SetUp
          /\ c.cmd = "SET_PROPERTY" => tx = FALSE
      BY <1>4, <1>6, SendAir
    <3>2. \A cmd : Pending(cmd)' <=> c.cmd = cmd
      BY <2>1 DEF Pending
    <3>3. SetUp' <=> SetUp
      BY <1>1 DEF SetUp, TunedTo
    <3>4. AirInv
      BY DEF IInv
    <3>5. QED
      BY <1>1, <3>1, <3>2, <3>3, <3>4 DEF AirInv
  <2>5. Live' => Mirrored' /\ Awake'
    <3>1. Live' => Live
      BY <1>1, <1>2, <1>6 DEF Live
    <3>2. QED
      BY <1>4, <1>6, <3>1, SendMirror
  <2>6. QED
    BY <1>2, <1>3, <2>2, <2>3, <2>4, <2>5 DEF IInv
<1>7. QED
  BY <1>4, <1>5, <1>6

----------------------------------------------------------------------------
(* The chip, main() and the resets.                                        *)

LEMMA ExecuteFacts ==
  ASSUME IInv, Execute
  PROVE  /\ regs' = IF powered /\ Pending("SET_PROPERTY")
                      THEN [regs EXCEPT ![pending[1].reg] = pending[1].val] ELSE regs
         /\ DOMAIN regs' = Registers
         /\ \A cmd : cmd \in Cmds(pending) <=> Pending(cmd)
         /\ \A reg : Writes(pending, reg) =
                       IF Pending("SET_PROPERTY") /\ pending[1].reg = reg
                       THEN {pending[1].val} ELSE {}
         /\ \A cmd : ~Pending(cmd)'
<1>1. /\ regs' = IF powered /\ Pending("SET_PROPERTY")
                   THEN [regs EXCEPT ![pending[1].reg] = pending[1].val] ELSE regs
      /\ pending' = <<>>
  BY DEF Execute
<1>2. /\ DOMAIN regs = Registers
      /\ pending = <<>> \/ (\E c \in Items : pending = <<c>>)
  BY DEF IInv, ChipInv
<1>3. DOMAIN regs' = Registers
  BY <1>1, <1>2
<1>4. \A cmd : ~Pending(cmd)'
  BY <1>1 DEF Pending
<1>5. CASE pending = <<>>
  BY <1>1, <1>3, <1>4, <1>5, NoSteps DEF Pending
<1>6. ASSUME NEW c \in Items, pending = <<c>>
      PROVE  /\ \A cmd : cmd \in Cmds(pending) <=> Pending(cmd)
             /\ \A reg : Writes(pending, reg) =
                       IF Pending("SET_PROPERTY") /\ pending[1].reg = reg
                       THEN {pending[1].val} ELSE {}
  <2>1. \A cmd : Pending(cmd) <=> c.cmd = cmd
    BY <1>6 DEF Pending
  <2>2. pending[1] = c
    BY <1>6
  <2>3. /\ Cmds(pending) = {c.cmd}
        /\ \A reg : Writes(pending, reg) = IF c.cmd = "SET_PROPERTY" /\ c.reg = reg
                                           THEN {c.val} ELSE {}
    BY <1>6, OneStep
  <2>4. QED
    BY <2>1, <2>2, <2>3
<1>7. QED
  BY <1>1, <1>2, <1>3, <1>4, <1>5, <1>6

LEMMA ExecuteMirror ==
  ASSUME IInv, Execute, Live
  PROVE  Mirrored' /\ Awake'
<1>1. /\ pending' = <<>> /\ powered' = (powered \/ Pending("POWER_UP"))
      /\ tx' = IF powered /\ Pending("START_TX") THEN TRUE
               ELSE IF Pending("CHANGE_STATE") THEN FALSE ELSE tx
      /\ UNCHANGED <<phase, calls, todo, fix, radio>>
  BY DEF Execute
<1>2. /\ regs' = IF powered /\ Pending("SET_PROPERTY")
                   THEN [regs EXCEPT ![pending[1].reg] = pending[1].val] ELSE regs
      /\ DOMAIN regs = Registers
      /\ \A cmd : cmd \in Cmds(pending) <=> Pending(cmd)
      /\ \A reg : Writes(pending, reg) =
                    IF Pending("SET_PROPERTY") /\ pending[1].reg = reg
                    THEN {pending[1].val} ELSE {}
      /\ \A cmd : ~Pending(cmd)'
  BY ExecuteFacts DEF IInv, ChipInv
<1>3. Mirrored /\ Awake /\ left' = left
  BY <1>1 DEF IInv, left
<1>4. Pending("SET_PROPERTY") \/ Pending("START_TX") => powered
  BY <1>3 DEF Awake
<1>5. ASSUME NEW reg \in Registers, NEW v
      PROVE  Left(todo, reg, v, Left(pending, reg, v, regs[reg] = v))
               => Left(todo', reg, v, Left(pending', reg, v, regs'[reg] = v))
  <2>1. Writes(pending', reg) = {}
    BY <1>1, NoSteps
  <2>2. CASE Pending("SET_PROPERTY") /\ pending[1].reg = reg
    <3>1. regs'[reg] = pending[1].val /\ Writes(pending, reg) = {pending[1].val}
      BY <1>2, <1>4, <2>2
    <3>2. Left(pending, reg, v, regs[reg] = v) <=> regs'[reg] = v
      BY <3>1 DEF Left
    <3>3. QED
      BY <1>1, <2>1, <3>2 DEF Left
  <2>3. CASE ~(Pending("SET_PROPERTY") /\ pending[1].reg = reg)
    <3>1. regs'[reg] = regs[reg] /\ Writes(pending, reg) = {}
      BY <1>2, <2>3
    <3>2. QED
      BY <1>1, <2>1, <3>1 DEF Left
  <2>4. QED
    BY <2>2, <2>3
<1>6. AirAfter(todo', AirAfter(pending', tx')) = AirAfter(todo, AirAfter(pending, tx))
  <2>1. AirAfter(pending', tx') = tx'
    BY <1>1, NoSteps DEF AirAfter
  <2>2. tx' = AirAfter(pending, tx)
    BY <1>1, <1>2, <1>4 DEF AirAfter
  <2>3. QED
    BY <1>1, <2>1, <2>2
<1>7. StartingUp' <=> StartingUp
  BY <1>1, <1>3 DEF StartingUp
<1>8. Mirrored'
  BY <1>1, <1>3, <1>5, <1>6, <1>7, SameMirror
<1>9. Awake'
  <2>1. powered \/ Pending("POWER_UP") => powered'
    BY <1>1
  <2>2. QED
    BY <1>1, <1>2, <1>3, <2>1 DEF Awake
<1>10. QED
  BY <1>8, <1>9

LEMMA Executes ==
  ASSUME IInv, Execute
  PROVE  IInv'
<1>1. /\ chip = "busy" /\ chip' = "ready" /\ pending' = <<>>
      /\ powered' = (powered \/ Pending("POWER_UP"))
      /\ tx' = IF powered /\ Pending("START_TX") THEN TRUE
               ELSE IF Pending("CHANGE_STATE") THEN FALSE ELSE tx
      /\ UNCHANGED <<phase, calls, todo, fix, radio>>
  BY DEF Execute
<1>2. /\ regs' = IF powered /\ Pending("SET_PROPERTY")
                   THEN [regs EXCEPT ![pending[1].reg] = pending[1].val] ELSE regs
      /\ DOMAIN regs' = Registers
      /\ \A cmd : ~Pending(cmd)'
  BY ExecuteFacts
<1>3. left' = left
  BY <1>1 DEF left
<1>4. ChipInv'
  <2>1. powered' \in BOOLEAN
    BY <1>1 DEF IInv, ChipInv
  <2>2. tx' \in BOOLEAN
    BY <1>1 DEF IInv, ChipInv
  <2>3. QED
    BY <1>1, <1>2, <2>1, <2>2 DEF ChipInv
<1>5. SeqInv' /\ RadioInv' /\ TodoInv'
  <2>1. SeqInv'
    BY <1>1 DEF IInv, SeqInv
  <2>2. RadioInv'
    BY <1>1, <1>3 DEF IInv, RadioInv, StartingUp, ToStop
  <2>3. TodoInv'
    BY <1>1, <1>3 DEF IInv, TodoInv, StartingUp
  <2>4. QED
    BY <2>1, <2>2, <2>3
<1>6. PlanInv'
  BY <1>1, <1>3 DEF IInv, PlanInv, EndOf
<1>7. PaceInv'
  BY <1>1 DEF IInv, PaceInv, Paced
<1>8. AirInv'
  <2>1. AirInv
    BY DEF IInv
  <2>2. CASE powered /\ Pending("SET_PROPERTY")
    <3>1. tx' = FALSE
      BY <1>1, <2>1, <2>2 DEF AirInv, Pending, IInv, ChipInv
    <3>2. QED
      BY <1>2, <3>1 DEF AirInv
  <2>3. CASE ~(powered /\ Pending("SET_PROPERTY"))
    <3>1. SetUp' <=> SetUp
      BY <1>2, <2>3 DEF SetUp, TunedTo
    <3>2. tx' => tx \/ Pending("START_TX")
      BY <1>1
    <3>3. QED
      BY <1>2, <2>1, <3>1, <3>2 DEF AirInv
  <2>4. QED
    BY <2>2, <2>3
<1>9. Live' => Mirrored' /\ Awake'
  <2>1. Live' => Live
    BY <1>1, <1>3 DEF Live
  <2>2. QED
    BY <2>1, ExecuteMirror
<1>10. QED
  BY <1>4, <1>5, <1>6, <1>7, <1>8, <1>9 DEF IInv

LEMMA Locks ==
  ASSUME IInv, Lock
  PROVE  IInv'
<1>1. /\ chip = "busy" /\ chip' = "stuck"
      /\ UNCHANGED <<phase, calls, todo, fix, powered, pending, regs, tx, radio>>
  BY DEF Lock
<1>2. left' = left /\ (StartingUp' <=> StartingUp) /\ (ToStop' <=> ToStop)
  BY <1>1 DEF left, StartingUp, ToStop
<1>3. ChipInv' /\ SeqInv' /\ PaceInv'
  <2>1. ChipInv'
    BY <1>1 DEF IInv, ChipInv
  <2>2. SeqInv' /\ PaceInv'
    BY <1>1 DEF IInv, SeqInv, PaceInv, Paced
  <2>3. QED
    BY <2>1, <2>2
<1>4. PlanInv'
  BY <1>1, <1>2 DEF IInv, PlanInv, EndOf
<1>5. RadioInv' /\ TodoInv'
  <2>1. RadioInv'
    BY <1>1, <1>2 DEF IInv, RadioInv
  <2>2. TodoInv'
    BY <1>1, <1>2 DEF IInv, TodoInv
  <2>3. QED
    BY <2>1, <2>2
<1>6. AirInv'
  BY <1>1 DEF IInv, AirInv, SetUp, TunedTo, Pending
<1>7. Live' => Mirrored' /\ Awake'
  <2>1. Live' => Mirrored /\ Awake
    BY <1>1, <1>2 DEF IInv, Live
  <2>2. Mirrored => Mirrored'
    BY <1>1, <1>2, SameMirror
  <2>3. Awake => Awake'
    BY <1>1, <1>2 DEF Awake, Pending
  <2>4. QED
    BY <2>1, <2>2, <2>3
<1>8. QED
  BY <1>3, <1>4, <1>5, <1>6, <1>7 DEF IInv

(* main() goes on: the last call but never the radio has been changed.     *)
LEMMA MainFacts ==
  ASSUME IInv, Main
  PROVE  /\ calls = <<>> /\ left = 0 /\ todo = <<>> /\ todo' = <<>>
         /\ UNCHANGED <<chip, powered, pending, regs, tx, radio>>
         /\ fix' \in Fixes /\ phase # "halted" /\ chip # "absent"
         /\ \/ phase = "startup" /\ phase' = "blips" /\ calls' = Blips
            \/ phase = "blips" /\ phase' = "loop" /\ calls' = Fixed
            \/ phase = "loop" /\ phase' \in {"aprs", "backlog"} /\ calls' = Aprs(fix')
            \/ phase \in {"aprs", "backlog"} /\ phase' = "loop" /\ calls' = Stop
            \/ phase = "aprs" /\ phase' = "regular" /\ calls' = Regular
            \/ phase = "regular" /\ phase' = "rtty" /\ calls' = Rtty
            \/ phase = "regular" /\ phase' = "loop" /\ calls' = <<>>
            \/ phase = "rtty" /\ phase' = "loop" /\ calls' = Stop
<1>1. PlanInv /\ fix \in Fixes
  BY DEF IInv, PlanInv
<1>2. /\ calls = <<>> /\ todo = <<>> /\ todo' = todo
      /\ UNCHANGED <<chip, powered, pending, regs, tx, radio>>
  BY DEF Main, StartBlips, EndBlips, TxBacklog, EndBacklog, TxRegular, EndAprsOnly,
         EndRegular, TxRtty, Switchover, EndRtty, Do, chipVars
<1>3. left = 0
  BY <1>2 DEF left
<1>4. /\ fix' \in Fixes /\ phase # "halted"
      /\ \/ phase = "startup" /\ phase' = "blips" /\ calls' = Blips
         \/ phase = "blips" /\ phase' = "loop" /\ calls' = Fixed
         \/ phase = "loop" /\ phase' \in {"aprs", "backlog"} /\ calls' = Aprs(fix')
         \/ phase \in {"aprs", "backlog"} /\ phase' = "loop" /\ calls' = Stop
         \/ phase = "aprs" /\ phase' = "regular" /\ calls' = Regular
         \/ phase = "regular" /\ phase' = "rtty" /\ calls' = Rtty
         \/ phase = "regular" /\ phase' = "loop" /\ calls' = <<>>
         \/ phase = "rtty" /\ phase' = "loop" /\ calls' = Stop
  <2>1. CASE StartBlips \/ EndBlips
    BY <1>1, <2>1 DEF StartBlips, EndBlips, Do
  <2>2. CASE TxBacklog \/ EndBacklog
    BY <1>1, <2>2 DEF TxBacklog, EndBacklog, Do
  <2>3. CASE TxRegular
    BY <2>3 DEF TxRegular, Do
  <2>4. CASE EndAprsOnly \/ EndRegular
    BY <1>1, <2>4 DEF EndAprsOnly, EndRegular, Do
  <2>5. CASE TxRtty \/ Switchover \/ EndRtty
    BY <1>1, <2>5 DEF TxRtty, Switchover, EndRtty, Do
  <2>6. QED
    BY <2>1, <2>2, <2>3, <2>4, <2>5 DEF Main
<1>5. chip # "absent"
  BY <1>1, <1>3, <1>4 DEF PlanInv
<1>6. QED
  BY <1>2, <1>3, <1>4, <1>5

LEMMA MainPlan ==
  ASSUME IInv, Main
  PROVE  SeqInv' /\ PlanInv' /\ RadioInv' /\ (phase' \in {"aprs", "backlog"} => left' > 2)
<1>1. /\ calls = <<>> /\ left = 0 /\ todo = <<>> /\ todo' = <<>>
      /\ UNCHANGED <<chip, powered, pending, regs, tx, radio>>
      /\ fix' \in Fixes /\ phase # "halted" /\ chip # "absent"
      /\ \/ phase = "startup" /\ phase' = "blips" /\ calls' = Blips
         \/ phase = "blips" /\ phase' = "loop" /\ calls' = Fixed
         \/ phase = "loop" /\ phase' \in {"aprs", "backlog"} /\ calls' = Aprs(fix')
         \/ phase \in {"aprs", "backlog"} /\ phase' = "loop" /\ calls' = Stop
         \/ phase = "aprs" /\ phase' = "regular" /\ calls' = Regular
         \/ phase = "regular" /\ phase' = "rtty" /\ calls' = Rtty
         \/ phase = "regular" /\ phase' = "loop" /\ calls' = <<>>
         \/ phase = "rtty" /\ phase' = "loop" /\ calls' = Stop
  BY MainFacts
<1>2. RadioInv /\ PlanInv
  BY DEF IInv
<1>3. todo' \in Seq(Items)
  BY <1>1
<1>4. left' = Len(calls') /\ ~ToStop
  BY <1>1 DEF left, ToStop
<1>5. CASE phase' \in {"aprs", "backlog"}
  <2>1. phase = "loop" /\ calls' = Aprs(fix') /\ fix' \in Fixes
    BY <1>1, <1>5
  <2>2. Aprs(fix') \in Seq(CallItems) /\ Len(Aprs(fix')) > 2
    <3>1. fix'.lat \in Int /\ fix'.lon \in Int
      BY <2>1, FixesAssumption
    <3>2. /\ Len(Tuned(fix')) \in Nat \ {0} /\ Aprs(fix') \in Seq(CallItems)
          /\ Len(Aprs(fix')) = Len(Tuned(fix')) + 2
      BY <3>1, AprsPlan
    <3>3. QED
      BY <3>2
  <2>3. IsEnd(Aprs(fix'), Aprs(fix'))
    BY <2>2, WholePlan
  <2>4. PlanInv'
    BY <1>1, <1>5, <2>1, <2>3 DEF PlanInv, EndOf
  <2>5. calls' # <<>>
    <3>1. Len(calls') # 0
      BY <2>1, <2>2
    <3>2. QED
      BY <3>1
  <2>6. RadioInv'
    BY <1>1, <1>2, <1>4, <1>5, <2>1, <2>5 DEF RadioInv, StartingUp
  <2>7. QED
    BY <1>3, <1>4, <1>5, <2>1, <2>2, <2>4, <2>6 DEF SeqInv
<1>6. CASE phase' \notin {"aprs", "backlog"} /\ calls' # <<>>
  <2>1. /\ calls' \in Seq(CallItems) /\ Len(calls') \in 1 .. 3
        /\ phase' = "blips" => Len(calls') = 3
        /\ phase' \in {"loop", "regular"} => calls'[1].fn = "stop_tx"
    <3>1. /\ Blips \in Seq(CallItems) /\ Len(Blips) = 3
          /\ Fixed \in Seq(CallItems) /\ Len(Fixed) = 2
          /\ Regular \in Seq(CallItems) /\ Len(Regular) = 2
          /\ Rtty \in Seq(CallItems) /\ Len(Rtty) = 2
          /\ Stop \in Seq(CallItems) /\ Len(Stop) = 1
      BY ShortPlans
    <3>2. Fixed[1].fn = "stop_tx" /\ Regular[1].fn = "stop_tx" /\ Stop[1].fn = "stop_tx"
      BY PlanFields
    <3>3. \/ phase' = "blips" /\ calls' = Blips
          \/ phase' = "loop" /\ calls' \in {Fixed, Stop}
          \/ phase' = "regular" /\ calls' = Regular
          \/ phase' = "rtty" /\ calls' = Rtty
      BY <1>1, <1>6
    <3>4. QED
      BY <3>1, <3>2, <3>3
  <2>2. IsEnd(calls', calls')
    BY <2>1, WholePlan
  <2>3. PlanInv'
    BY <1>1, <1>6, <2>2 DEF PlanInv, EndOf
  <2>4. calls' # <<>>
    BY <1>6
  <2>5. phase' \in {"loop", "regular"} => ToStop'
    BY <2>1, <2>4 DEF ToStop
  <2>6. RadioInv'
    BY <1>1, <1>2, <1>4, <1>6, <2>1, <2>4, <2>5 DEF RadioInv, StartingUp
  <2>7. QED
    BY <1>3, <1>6, <2>1, <2>3, <2>6 DEF SeqInv
<1>7. CASE phase' \notin {"aprs", "backlog"} /\ calls' = <<>>
  <2>1. phase' \in {"blips", "loop", "regular", "rtty"} /\ fix' \in Fixes
    BY <1>1, <1>7
  <2>2. phase = "regular" /\ phase' = "loop"
    <3>1. Blips # <<>> /\ Fixed # <<>> /\ Regular # <<>> /\ Rtty # <<>> /\ Stop # <<>>
      BY DEF Blips, Fixed, Regular, Rtty, Stop
    <3>2. QED
      BY <1>1, <1>7, <3>1
  <2>3. IsEnd(<<>>, Stop)
    BY ShortPlans, WholePlan
  <2>4. PlanInv'
    BY <1>1, <1>7, <2>1, <2>2, <2>3 DEF PlanInv, EndOf
  <2>5. ~ToStop'
    BY <1>7 DEF ToStop
  <2>6. RadioInv'
    BY <1>1, <1>2, <1>4, <1>7, <2>2, <2>5 DEF RadioInv, StartingUp
  <2>7. calls' \in Seq(CallItems)
    BY <1>7
  <2>8. QED
    BY <1>3, <1>7, <2>4, <2>6, <2>7 DEF SeqInv
<1>8. QED
  BY <1>5, <1>6, <1>7

LEMMA GoesOn ==
  ASSUME IInv, Main
  PROVE  IInv'
<1>1. /\ calls = <<>> /\ left = 0 /\ todo = <<>> /\ todo' = <<>>
      /\ UNCHANGED <<chip, powered, pending, regs, tx, radio>>
      /\ chip # "absent"
  BY MainFacts
<1>2. SeqInv' /\ PlanInv' /\ RadioInv' /\ (phase' \in {"aprs", "backlog"} => left' > 2)
  BY MainPlan
<1>3. ChipInv' /\ AirInv'
  <2>1. ChipInv'
    BY <1>1 DEF IInv, ChipInv
  <2>2. AirInv'
    BY <1>1 DEF IInv, AirInv, SetUp, TunedTo, Pending
  <2>3. QED
    BY <2>1, <2>2
<1>4. TodoInv' /\ PaceInv'
  BY <1>1 DEF TodoInv, PaceInv, Paced
<1>5. Mirrored /\ Awake /\ ~StartingUp
  <2>1. "SHUTDOWN" \notin Cmds(todo)
    BY <1>1, NoSteps
  <2>2. Live
    BY <1>1, <2>1 DEF Live
  <2>3. QED
    BY <1>1, <2>2 DEF IInv, StartingUp
<1>6. Mirrored'
  <2>1. ~(phase' \in {"aprs", "backlog"} /\ left' <= 2)
    <3>1. left' \in Nat
      BY <1>2, LenProperties DEF SeqInv, left
    <3>2. QED
      BY <1>2, <3>1
  <2>2. /\ \A reg \in Registers : \A v :
             Left(todo, reg, v, Left(pending, reg, v, regs[reg] = v))
               => Left(todo', reg, v, Left(pending', reg, v, regs'[reg] = v))
        /\ AirAfter(todo', AirAfter(pending', tx')) = AirAfter(todo, AirAfter(pending, tx))
    BY <1>1
  <2>3. QED
    BY <1>1, <1>5, <2>1, <2>2, SameMirror
<1>7. Awake'
  <2>1. powered
    BY <1>1, <1>5 DEF Awake
  <2>2. QED
    BY <1>1, <2>1 DEF Awake
<1>8. QED
  BY <1>2, <1>3, <1>4, <1>6, <1>7 DEF IInv

LEMMA Restarts ==
  ASSUME IInv, Restart
  PROVE  IInv'
<1>1. /\ phase' = "startup" /\ calls' = Startup /\ todo' = <<>> /\ fix' \in Fixes
      /\ UNCHANGED <<chip, powered, pending, regs, tx, radio>>
  BY DEF Restart, chipVars
<1>2. Startup \in Seq(CallItems) /\ left' = 4 /\ IsEnd(Startup, Startup)
  BY <1>1, ShortPlans, WholePlan DEF left
<1>3. ChipInv' /\ AirInv'
  <2>1. ChipInv'
    BY <1>1 DEF IInv, ChipInv
  <2>2. AirInv'
    BY <1>1 DEF IInv, AirInv, SetUp, TunedTo, Pending
  <2>3. QED
    BY <2>1, <2>2
<1>4. SeqInv' /\ PlanInv' /\ TodoInv' /\ PaceInv'
  <2>1. SeqInv'
    BY <1>1, <1>2 DEF SeqInv
  <2>2. PlanInv'
    BY <1>1, <1>2 DEF PlanInv, EndOf
  <2>3. QED
    BY <1>1, <2>1, <2>2 DEF TodoInv, PaceInv, Paced
<1>5. RadioInv'
  BY <1>1, <1>2 DEF IInv, RadioInv, StartingUp
<1>6. ~Live'
  BY <1>1, <1>2 DEF Live
<1>7. QED
  BY <1>3, <1>4, <1>5, <1>6 DEF IInv

LEMMA Starts == Init => IInv
<1> SUFFICES ASSUME Init PROVE IInv
  OBVIOUS
<1>1. /\ phase = "startup" /\ calls = Startup /\ todo = <<>> /\ fix \in Fixes
      /\ chip \in {"absent", "off"} /\ powered = FALSE /\ pending = <<>>
      /\ regs = ResetRegs /\ tx = FALSE /\ radio = PoweredUp
  BY DEF Init
<1>2. Startup \in Seq(CallItems) /\ left = 4 /\ IsEnd(Startup, Startup)
  BY <1>1, ShortPlans, WholePlan DEF left
<1>3. ChipInv
  <2>1. powered \in BOOLEAN /\ tx \in BOOLEAN
    BY <1>1
  <2>2. DOMAIN regs = Registers
    BY <1>1 DEF ResetRegs, Registers
  <2>3. QED
    BY <1>1, <2>1, <2>2 DEF ChipInv
<1>4. AirInv
  BY <1>1 DEF AirInv, Pending
<1>5. SeqInv /\ PlanInv /\ TodoInv /\ PaceInv
  <2>1. SeqInv
    BY <1>1, <1>2 DEF SeqInv
  <2>2. PlanInv
    BY <1>1, <1>2 DEF PlanInv, EndOf
  <2>3. QED
    BY <1>1, <2>1, <2>2 DEF TodoInv, PaceInv, Paced
<1>6. RadioInv
  BY <1>1, <1>2, RadioPoweredUp DEF RadioInv, StartingUp
<1>7. ~Live
  BY <1>1, <1>2 DEF Live
<1>8. QED
  BY <1>3, <1>4, <1>5, <1>6, <1>7 DEF IInv

LEMMA Idles ==
  ASSUME IInv, UNCHANGED vars
  PROVE  IInv'
<1>1. UNCHANGED <<phase, calls, todo, fix, chip, powered, pending, regs, tx, radio>>
  BY DEF vars, chipVars
<1>2. left' = left /\ (StartingUp' <=> StartingUp) /\ (ToStop' <=> ToStop)
  BY <1>1 DEF left, StartingUp, ToStop
<1>3. ChipInv' /\ SeqInv' /\ PaceInv'
  <2>1. ChipInv'
    BY <1>1 DEF IInv, ChipInv
  <2>2. SeqInv' /\ PaceInv'
    BY <1>1 DEF IInv, SeqInv, PaceInv
  <2>3. QED
    BY <2>1, <2>2
<1>4. PlanInv'
  BY <1>1, <1>2 DEF IInv, PlanInv, EndOf
<1>5. RadioInv' /\ TodoInv'
  <2>1. RadioInv'
    BY <1>1, <1>2 DEF IInv, RadioInv
  <2>2. TodoInv'
    BY <1>1, <1>2 DEF IInv, TodoInv
  <2>3. QED
    BY <2>1, <2>2
<1>6. AirInv'
  BY <1>1 DEF IInv, AirInv, SetUp, TunedTo, Pending
<1>7. Live' => Mirrored' /\ Awake'
  <2>1. Live' => Mirrored /\ Awake
    BY <1>1, <1>2 DEF IInv, Live
  <2>2. Mirrored => Mirrored'
    BY <1>1, <1>2, SameMirror
  <2>3. Awake => Awake'
    BY <1>1, <1>2 DEF Awake, Pending
  <2>4. QED
    BY <2>1, <2>2, <2>3
<1>8. QED
  BY <1>3, <1>4, <1>5, <1>6, <1>7 DEF IInv

LEMMA Stays == IInv /\ [Next]_vars => IInv'
<1> SUFFICES ASSUME IInv, [Next]_vars PROVE IInv'
  OBVIOUS
<1>1. CASE Main
  BY <1>1, GoesOn
<1>2. CASE BeginCall
  BY <1>2, Begins
<1>3. CASE GetCts
  BY <1>3, Gets
<1>4. CASE Send
  BY <1>4, Sends
<1>5. CASE si4060_shutdown
  BY <1>5, ShutsDown
<1>6. CASE si4060_wakeup
  BY <1>6, WakesUp
<1>7. CASE Response
  BY <1>7, Responds
<1>8. CASE Execute
  BY <1>8, Executes
<1>9. CASE Lock
  BY <1>9, Locks
<1>10. CASE Restart
  BY <1>10, Restarts
<1>11. CASE UNCHANGED vars
  BY <1>11, Idles
<1>12. QED
  BY <1>1, <1>2, <1>3, <1>4, <1>5, <1>6, <1>7, <1>8, <1>9, <1>10, <1>11
  DEF Next, Driver, Reset, Watchdog

(* The chip, the calls and the radio as Radio.tla has it stay together.    *)
THEOREM Inductive == Spec => []IInv
<1>1. QED
  BY Starts, Stays, PTL DEF Spec

(* The tracker never gets past its start-up without the chip: the answer   *)
(* to PART_INFO tells a missing one, which CTS cannot (main.c:73,          *)
(* si4060.c:315).                                                          *)
THEOREM RadioThere == Spec => []NoFlightWithoutRadio
<1>1. IInv => NoFlightWithoutRadio
  BY DEF IInv, PlanInv, NoFlightWithoutRadio
<1>2. QED
  BY <1>1, Inductive, PTL

LEMMA ChannelsApart ==
  /\ "rtty" \notin AprsChannels
  /\ \A chan \in AprsChannels : TunedTo(chan) => ~TunedTo("rtty")
  /\ \A chan : TunedTo(chan) => regs["BAND"] # "reset"
<1>1. "rtty" \notin AprsChannels
  BY RegionChannels DEF AprsChannels
<1>2. "FRAC" \in Tuning /\ "BAND" \in Tuning
  BY DEF Tuning, Synth
<1>3. \A chan : TuningOf(chan)["FRAC"] = chan /\ TuningOf(chan)["BAND"] = "FVCO_DIV_24"
  BY DEF TuningOf
<1>4. QED
  BY <1>1, <1>2, <1>3 DEF TunedTo

(* With nothing under way, what the registers will hold is what they hold. *)
LEMMA CaughtUp == IInv => AgreesWithRadio
<1> SUFFICES ASSUME IInv, todo = <<>>, chip = "ready", calls # Startup
             PROVE  View = radio
  BY DEF AgreesWithRadio
<1>1. pending = <<>>
  BY DEF IInv, ChipInv
<1>2. \A s : Cmds(<<>>) = {} /\ \A reg : Writes(<<>>, reg) = {}
  BY NoSteps
<1>3. (\A reg, v : Ends(reg, v) <=> regs[reg] = v) /\ TxEnds = tx
  BY <1>1, <1>2 DEF Ends, TxEnds, Left, AirAfter
<1>4. ~(phase = "startup" /\ left = 4)
  <2> SUFFICES ASSUME phase = "startup", left = 4 PROVE FALSE
    OBVIOUS
  <2>1. IsEnd(calls, Startup) /\ calls \in Seq(CallItems)
    BY DEF IInv, PlanInv, EndOf, SeqInv
  <2>2. Len(calls) = 4 /\ Len(Startup) = 4 /\ Startup \in Seq(CallItems)
    BY ShortPlans DEF left
  <2>3. \A k \in 1 .. 4 : calls[k] = Startup[k]
    BY <2>1, <2>2 DEF IsEnd
  <2>4. calls = Startup
    BY <2>1, <2>2, <2>3, SeqEqual
  <2>5. QED
    BY <2>4
<1>5. Mirrored
  BY <1>2, <1>4 DEF IInv, Live
<1>6. radio \in Radios
  BY DEF IInv, RadioInv
<1>7. radio.mod = regs["MOD_TYPE"][1] /\ radio.direct = regs["MOD_TYPE"][2] /\ radio.tx = tx
  <2>1. regs["MOD_TYPE"] = <<radio.mod, radio.direct>> /\ tx = radio.tx
    BY <1>3, <1>5 DEF Mirrored
  <2>2. QED
    BY <2>1
<1>8. \A chan : TunesTo(chan) => TunedTo(chan)
  BY <1>3 DEF TunesTo, TunedTo
<1> DEFINE Chan == IF \A reg \in Tuning : regs[reg] = "reset" THEN "none"
                   ELSE IF TunedTo("rtty") THEN "rtty"
                   ELSE IF \E chan \in AprsChannels : TunedTo(chan) THEN "aprs"
                   ELSE "mixed"
<1>9. radio.chan = Chan
  <2>1. radio.chan \in {"none", "rtty", "aprs"}
    BY <1>6 DEF Radios, Channels
  <2>2. "BAND" \in Tuning
    BY DEF Tuning, Synth
  <2>3. CASE radio.chan = "none"
    BY <1>3, <1>5, <2>3 DEF Mirrored
  <2>4. CASE radio.chan = "rtty"
    <3>1. TunedTo("rtty")
      BY <1>5, <1>8, <2>4 DEF Mirrored
    <3>2. QED
      BY <2>2, <2>4, <3>1, ChannelsApart
  <2>5. CASE radio.chan = "aprs"
    <3>1. PICK chan \in AprsChannels : TunedTo(chan)
      BY <1>5, <1>8, <2>5 DEF Mirrored
    <3>2. QED
      BY <2>2, <2>5, <3>1, ChannelsApart
  <2>6. QED
    BY <2>1, <2>3, <2>4, <2>5
<1>10. radio = [tx |-> radio.tx, mod |-> radio.mod, direct |-> radio.direct,
                chan |-> radio.chan]
  BY <1>6 DEF Radios
<1>11. View = [tx |-> tx, mod |-> regs["MOD_TYPE"][1], direct |-> regs["MOD_TYPE"][2],
               chan |-> Chan]
  BY DEF View
<1>12. QED
  BY <1>7, <1>9, <1>10, <1>11

(* Once the chip has caught up, between two calls, the registers are what  *)
(* the transmitter of Tracker.tla says they are, whatever reset came       *)
(* between two commands.                                                   *)
THEOREM RadioMirrored == Spec => []AgreesWithRadio
  BY CaughtUp, Inductive, PTL

(* On air nothing is being written, so that the tuning is what was sent.   *)
LEMMA OnAir == IInv => OnAirTuned
<1> SUFFICES ASSUME IInv PROVE OnAirTuned
  OBVIOUS
<1> SUFFICES ASSUME tx
             PROVE  /\ \A reg \in Common : regs[reg] = "set"
                    /\ \E chan \in AprsChannels \cup {"rtty"} : TunedTo(chan)
                    /\ phase \in {"aprs", "backlog"} /\ calls = <<>> /\ todo = <<>> =>
                         TunedTo(AprsChannel(fix))
  BY DEF OnAirTuned
<1>1. SetUp /\ ~Pending("SET_PROPERTY")
  BY DEF IInv, AirInv
<1>2. ASSUME phase \in {"aprs", "backlog"}, calls = <<>>, todo = <<>> PROVE TunedTo(AprsChannel(fix))
  <2>1. left = 0 /\ chip # "absent"
    BY <1>2 DEF left, IInv, ChipInv
  <2>2. Mirrored
    BY <1>2, <2>1, NoSteps DEF IInv, Live
  <2>3. TunesTo(AprsChannel(fix))
    BY <1>2, <2>1, <2>2 DEF Mirrored
  <2>4. \A reg : Writes(pending, reg) = {}
    <3>1. pending = <<>> \/ (\E c \in Items : pending = <<c>>)
      BY DEF IInv, ChipInv
    <3>2. ASSUME NEW c \in Items, pending = <<c>> PROVE c.cmd # "SET_PROPERTY"
      BY <1>1, <3>2 DEF Pending
    <3>3. QED
      BY <3>1, <3>2, NoSteps, OneStep
  <2>5. QED
    BY <1>2, <2>3, <2>4, NoSteps DEF TunesTo, TunedTo, Ends, Left
<1>3. QED
  BY <1>1, <1>2 DEF SetUp

(* The carrier is on air only with every register set up and the           *)
(* synthesizer tuned to one channel, during an APRS frame to that of the   *)
(* position, from whatever other region's channel the chip has held since  *)
(* the frame before (geofence.c:13-57).                                    *)
THEOREM AirTuned == Spec => []OnAirTuned
  BY OnAir, Inductive, PTL

LEMMA TailDiffers ==
  ASSUME NEW s \in Seq(Items), s # <<>>
  PROVE  Tail(s) # s
<1> DEFINE t == Tail(s)
<1>1. Len(t) = Len(s) - 1 /\ Len(s) \in Nat
  BY TailSteps
<1> HIDE DEF t
<1>2. t # s
  BY <1>1
<1>3. QED
  BY <1>2 DEF t

(* No command is sent to a chip that has not finished the last one: at     *)
(* most a wait or a pin is next while it works (si4060.c:232).             *)
THEOREM ChipAwaited == Spec => WaitsForChip
<1> DEFINE Wait == todo # <<>> /\ todo' = Tail(todo) /\ calls' = calls
                     /\ chip \in {"off", "busy", "stuck"} =>
                     Head(todo).cmd \in {"SHUTDOWN", "WAKEUP"}
<1>1. IInv /\ [Next]_vars => [Wait]_vars
  <2> SUFFICES ASSUME IInv, Next, todo # <<>>, todo' = Tail(todo), calls' = calls,
                      chip \in {"off", "busy", "stuck"},
                      Head(todo).cmd \notin {"SHUTDOWN", "WAKEUP"}
               PROVE  FALSE
    BY DEF vars
  <2>1. Head(todo).cmd = "CTS"
    BY SentToReady DEF Pins
  <2>2. todo' # todo
    BY TailDiffers DEF IInv, SeqInv
  <2>3. CASE Driver
    BY <2>1, <2>3 DEF Driver, BeginCall, GetCts, Send, si4060_shutdown, si4060_wakeup,
                      Response, AtStep
  <2>4. CASE Main
    BY <2>4, MainFacts
  <2>5. CASE Execute \/ Lock
    BY <2>2, <2>5 DEF Execute, Lock
  <2>6. CASE Restart
    <3>1. calls = Startup
      BY <2>6 DEF Restart
    <3>2. left = 4 /\ calls # <<>> /\ calls[1].fn = "reset"
      <4>1. Len(Startup) = 4 /\ Startup[1].fn = "reset"
        <5>1. Len(Startup) = 4
          BY ShortPlans
        <5>2. QED
          BY <5>1, PlanFields
      <4>2. Startup # <<>>
        <5>1. Len(Startup) # 0
          BY <4>1
        <5>2. QED
          BY <5>1, EmptySeq
      <4>3. QED
        BY <3>1, <4>1, <4>2 DEF left
    <3>3. phase = "startup"
      <4>1. SeqInv /\ PlanInv
        BY DEF IInv
      <4>2. Upcoming
        BY <3>2, <4>1, NextCall
      <4>3. Head(calls) = calls[1]
        BY <3>2, <4>1, HeadTailProperties DEF SeqInv
      <4>4. QED
        BY <3>2, <4>2, <4>3 DEF Upcoming
    <3>4. QED
      BY <3>2, <3>3 DEF IInv, TodoInv, StartingUp
  <2>7. QED
    BY <2>3, <2>4, <2>5, <2>6 DEF Next, Reset, Watchdog
<1>2. QED
  BY <1>1, Inductive, PTL DEF Spec, WaitsForChip

(* The registers of the PLL are never changed on air (si4060.c:369).       *)
THEOREM TunedBeforeOnAir == Spec => NotTunedOnAir
<1>1. IInv /\ [Next]_vars => [tx /\ tx' => \A reg \in Synth : regs'[reg] = regs[reg]]_vars
  <2> SUFFICES ASSUME IInv, Next, tx, tx' PROVE \A reg \in Synth : regs'[reg] = regs[reg]
    BY DEF vars
  <2>1. CASE Execute
    BY <2>1 DEF Execute, IInv, AirInv
  <2>2. CASE si4060_shutdown
    BY <2>2 DEF si4060_shutdown
  <2>3. CASE Main
    BY <2>3, MainFacts
  <2>4. CASE BeginCall \/ GetCts \/ Send \/ si4060_wakeup \/ Response \/ Lock \/ Restart
    BY <2>4 DEF BeginCall, GetCts, Send, si4060_wakeup, Response, Lock, Restart, chipVars
  <2>5. QED
    BY <2>1, <2>2, <2>3, <2>4 DEF Next, Driver, Reset, Watchdog
<1>2. QED
  BY <1>1, Inductive, PTL DEF Spec, NotTunedOnAir
=============================================================================
