--------------------------- MODULE Backlog_proofs ---------------------------
(***************************************************************************)
(* Proofs about Backlog.tla, for every size of the ring, every increment   *)
(* and every set of fixes.                                                 *)
(***************************************************************************)
EXTENDS Backlog, TLAPS

N == BACKLOG_MAX_ENTRIES

LEMMA SizeType == N \in Nat /\ N >= 1
  BY BacklogAssumption DEF N

(* Advancing an index stays in the ring.                                   *)
LEMMA IndexInRing ==
  ASSUME NEW x \in Slots, NEW d \in Nat
  PROVE  (x + d) % N \in Slots
  BY SizeType DEF Slots, N

(* Advancing by one either steps or wraps to slot 0.                       *)
LEMMA NextSlot ==
  ASSUME NEW x \in Slots
  PROVE  (x + 1) % N = IF x + 1 < N THEN x + 1 ELSE 0
<1>1. x \in Int /\ 0 <= x /\ x < N
  BY SizeType DEF Slots, N
<1>2. CASE x + 1 < N
  BY <1>1, <1>2, SizeType
<1>3. CASE x + 1 = N
  <2>1. N % N = 0
    BY SizeType
  <2> QED
    BY <1>1, <1>3, <2>1, SizeType
<1> QED
  BY <1>1, <1>2, <1>3, SizeType

(* N slots on from a slot is that slot.                                    *)
LEMMA FullTurn ==
  ASSUME NEW x \in Slots
  PROVE  ~(x + N < N) /\ x + N - N = x
  BY SizeType DEF Slots, N

LEMMA TypeInit == Init => TypeOK
  BY SizeType, BacklogAssumption DEF Init, TypeOK, Slots, N

LEMMA TypeNext == TypeOK /\ [Next]_vars => TypeOK'
<1> SUFFICES ASSUME TypeOK, [Next]_vars PROVE TypeOK'
  OBVIOUS
<1> USE DEF TypeOK
<1>1. CASE UNCHANGED vars
  BY <1>1 DEF vars
<1>2. CASE GetNextFix
  <2>1. last_fix_id' \in Slots
    BY <1>2, IndexInRing, BacklogAssumption DEF GetNextFix, Advance, N
  <2> QED
    BY <1>2, <2>1 DEF GetNextFix
<1>3. CASE Reset
  BY <1>3, SizeType, BacklogAssumption DEF Reset, Slots, N
<1>4. ASSUME NEW fix \in Fixes, AddFix(fix) PROVE TypeOK'
  <2>1. CASE StoreFix(fix)
    <3>1. newest_fix_id' \in Slots
      BY <2>1, IndexInRing DEF StoreFix, Advance, N
    <3> QED
      BY <1>4, <2>1, <3>1 DEF AddFix, StoreFix
  <2>2. CASE SkipFix(fix)
    BY <1>4, <2>2 DEF AddFix, SkipFix
  <2> QED
    BY <1>4, <2>1, <2>2 DEF AddFix
<1> QED
  BY <1>1, <1>2, <1>3, <1>4 DEF Next

(* The indices of backlog.c never leave the ring.                          *)
THEOREM BacklogTyped == Spec => []TypeOK
  BY TypeInit, TypeNext, PTL DEF Spec

----------------------------------------------------------------------------
(* The refinement of HourlyLog.                                            *)

LEMMA SlotOfType ==
  ASSUME TypeOK, NEW k \in 1 .. N
  PROVE  SlotOf(k) \in Slots
  BY SizeType DEF TypeOK, Slots, SlotOf, N

LEMMA NewestIsLast ==
  ASSUME TypeOK
  PROVE  SlotOf(N) = newest_fix_id
  BY SizeType DEF TypeOK, Slots, SlotOf, N

(* Storing a fix: the log moves up by one and ends with the fix.           *)
LEMMA StoreIsAdd ==
  ASSUME TypeOK, NEW fix \in Fixes, StoreFix(fix)
  PROVE  Log!Add(fix)
<1> USE SizeType
<1>1. newest_fix_id \in Slots /\ newest_fix_id' \in Slots
  BY IndexInRing DEF TypeOK, StoreFix, Advance, N
<1>2. newest_fix_id' = IF newest_fix_id + 1 < N THEN newest_fix_id + 1 ELSE 0
  BY <1>1, NextSlot DEF StoreFix, Advance, N
<1>3. SlotOf(N)' = newest_fix_id'
  <2>1. ~(newest_fix_id' + N < N) /\ newest_fix_id' + N - N = newest_fix_id'
    BY <1>1, FullTurn
  <2> QED
    BY <2>1 DEF SlotOf, N
<1>4. backlog' = [backlog EXCEPT ![newest_fix_id'] = fix]
  BY DEF StoreFix
<1>5. backlog'[SlotOf(N)'] = fix
  BY <1>1, <1>3, <1>4 DEF TypeOK
<1>6. ASSUME NEW k \in 1 .. N, k < N
      PROVE  backlog'[SlotOf(k)'] = backlog[SlotOf(k + 1)]
  <2>1. SlotOf(k)' = SlotOf(k + 1) /\ SlotOf(k)' # newest_fix_id'
    BY <1>1, <1>2, <1>6 DEF SlotOf, N, Slots
  <2>2. SlotOf(k + 1) \in Slots
    BY <1>6, SlotOfType
  <2> QED
    BY <1>4, <2>1, <2>2 DEF TypeOK
<1>7. [k \in 1 .. N |-> backlog[SlotOf(k)]]'
        = [k \in 1 .. N |->
             IF k < N THEN [j \in 1 .. N |-> backlog[SlotOf(j)]][k + 1] ELSE fix]
  <2>1. ASSUME NEW k \in 1 .. N
        PROVE  backlog'[SlotOf(k)']
                 = IF k < N THEN [j \in 1 .. N |-> backlog[SlotOf(j)]][k + 1]
                   ELSE fix
    <3>1. CASE k < N
      <4>1. k + 1 \in 1 .. N
        BY <3>1
      <4> QED
        BY <1>6, <3>1, <4>1
    <3>2. CASE k = N
      BY <1>5, <3>2
    <3> QED
      BY <3>1, <3>2
  <2> QED
    BY <2>1
<1>8. [k \in 1 .. N |-> backlog[SlotOf(k)]][N].hour = backlog[newest_fix_id].hour
  BY NewestIsLast
<1> QED
  BY <1>7, <1>8 DEF Log!Add, StoreFix, N

(* A reset: the log comes back rotated to end with slot 0.                 *)
LEMMA ResetIsReboot ==
  ASSUME TypeOK, Reset
  PROVE  Log!Reboot
<1> USE SizeType
<1> DEFINE p == IF newest_fix_id = 0 THEN 0 ELSE N - newest_fix_id
           log == [j \in 1 .. N |-> backlog[SlotOf(j)]]
<1>1. newest_fix_id \in Slots /\ newest_fix_id' = 0 /\ backlog' = backlog
  BY DEF TypeOK, Reset
<1>2. p \in 0 .. N - 1
  BY <1>1 DEF Slots, N
<1>3. ASSUME NEW k \in 1 .. N
      PROVE  backlog'[SlotOf(k)']
               = IF k + p <= N THEN log[k + p] ELSE log[k + p - N]
  <2>1. CASE k + p <= N
    <3>1. SlotOf(k)' = SlotOf(k + p) /\ k + p \in 1 .. N
      BY <1>1, <1>2, <2>1 DEF SlotOf, N, Slots
    <3> QED
      BY <1>1, <2>1, <3>1
  <2>2. CASE ~(k + p <= N)
    <3>1. SlotOf(k)' = SlotOf(k + p - N) /\ k + p - N \in 1 .. N
      BY <1>1, <1>2, <2>2 DEF SlotOf, N, Slots
    <3> QED
      BY <1>1, <2>2, <3>1
  <2> QED
    BY <2>1, <2>2
<1>4. log' = [k \in 1 .. N |->
                IF k + p <= N THEN log[k + p] ELSE log[k + p - N]]
  BY <1>3
<1> HIDE DEF p
<1> QED
  BY <1>2, <1>4 DEF Log!Reboot, N

LEMMA LogNext ==
  TypeOK /\ [Next]_vars
    => [Log!Next]_([k \in 1 .. BACKLOG_MAX_ENTRIES |-> backlog[SlotOf(k)]])
<1> SUFFICES ASSUME TypeOK, [Next]_vars
             PROVE  \/ Log!Next
                    \/ UNCHANGED [k \in 1 .. BACKLOG_MAX_ENTRIES
                                    |-> backlog[SlotOf(k)]]
  OBVIOUS
<1>1. CASE UNCHANGED vars \/ GetNextFix
  BY <1>1 DEF vars, GetNextFix, SlotOf
<1>2. CASE Reset
  BY <1>2, ResetIsReboot DEF Log!Next
<1>3. ASSUME NEW fix \in Fixes, StoreFix(fix) PROVE Log!Next
  BY <1>3, StoreIsAdd DEF Log!Next
<1>4. ASSUME NEW fix \in Fixes, SkipFix(fix)
      PROVE  UNCHANGED [k \in 1 .. BACKLOG_MAX_ENTRIES |-> backlog[SlotOf(k)]]
  BY <1>4 DEF SkipFix, SlotOf
<1> QED
  BY <1>1, <1>2, <1>3, <1>4 DEF Next, AddFix

(* The ring implements the hourly log: storing a fix drops the oldest and  *)
(* no other, a skipped fix changes nothing, and a reset loses the place in *)
(* the ring but none of its fixes.                                         *)
THEOREM BacklogKeepsHourlyLog == Spec => KeepsHourlyLog
  BY LogNext, BacklogTyped, PTL DEF Spec, KeepsHourlyLog, Log!Spec
=============================================================================
