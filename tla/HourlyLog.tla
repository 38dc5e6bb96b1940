----------------------------- MODULE HourlyLog -----------------------------
(***************************************************************************)
(* What the backlog promises (backlog.c:8-13): the last Size hourly fixes, *)
(* oldest first.  A fix enters when its hour differs from that of the      *)
(* newest one, and then the oldest leaves.  A reboot loses the place of    *)
(* the newest fix, and nothing else: the log comes back rotated.           *)
(***************************************************************************)
EXTENDS Integers

CONSTANTS Size, Fixes

VARIABLE log          \* log[1] the oldest fix, log[Size] the newest

Add(fix) == /\ fix.type >= 3
            /\ fix.hour # log[Size].hour
            /\ log' = [k \in 1 .. Size |-> IF k < Size THEN log[k + 1] ELSE fix]

Reboot == \E p \in 0 .. Size - 1 :
            log' = [k \in 1 .. Size |->
                      IF k + p <= Size THEN log[k + p] ELSE log[k + p - Size]]

Next == Reboot \/ \E fix \in Fixes : Add(fix)

(* The log starts with whatever the memory holds.                          *)
Spec == [][Next]_log
=============================================================================
