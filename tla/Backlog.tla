------------------------------ MODULE Backlog ------------------------------
(***************************************************************************)
(* The backlog of backlog.c: a ring of fixes in FRAM that main.c fills     *)
(* with one fix an hour and reads back one by one for retransmission.      *)
(* The ring is in a noinit section and outlives a reset; the two indices   *)
(* are static variables and do not.  A fix is a record whose type and hour *)
(* the code looks at; its other fields only tell fixes apart.              *)
(***************************************************************************)
EXTENDS Integers

CONSTANTS BACKLOG_MAX_ENTRIES, BACKLOG_TX_INCREMENT,
          Fixes,        \* the fixes the GPS may deliver
          Remains,      \* the contents an FRAM slot may have at first power-up
          MaxResets     \* bound on the resets of a behaviour

ASSUME BacklogAssumption ==
  /\ BACKLOG_MAX_ENTRIES \in Nat \ {0}
  /\ BACKLOG_TX_INCREMENT \in Nat
  /\ \A fix \in Fixes \cup Remains : fix.type \in Nat /\ fix.hour \in Nat
  /\ MaxResets \in Nat

NULL == [type |-> 0, hour |-> 0]   \* "no fix" of backlog_get_next_fix()

VARIABLES backlog, newest_fix_id, last_fix_id,
          backlog_fix,   \* main.c's pointer to the fix to send
          resets         \* resets so far

vars == <<backlog, newest_fix_id, last_fix_id, backlog_fix, resets>>

Slots == 0 .. BACKLOG_MAX_ENTRIES - 1

Init == /\ backlog \in [Slots -> Remains]
        /\ newest_fix_id = 0
        /\ last_fix_id = 0
        /\ backlog_fix = NULL
        /\ resets = 0

(* Both indices advance around the ring.  Mutant: without the modulo.      *)
Advance_Unwrapped(id, step) == id + step
Advance(id, step) == (id + step) % BACKLOG_MAX_ENTRIES

(* backlog_add_fix(fix): only a 3D fix of another hour is stored, in the   *)
(* slot after the newest.                                                  *)
StoreFix_WriteFirst(fix) ==     \* Mutant: writes, then advances
  /\ fix.type >= 3
  /\ fix.hour # backlog[newest_fix_id].hour
  /\ newest_fix_id' = Advance(newest_fix_id, 1)
  /\ backlog' = [backlog EXCEPT ![newest_fix_id] = fix]
StoreFix(fix) ==
  /\ fix.type >= 3
  /\ fix.hour # backlog[newest_fix_id].hour
  /\ newest_fix_id' = Advance(newest_fix_id, 1)
  /\ backlog' = [backlog EXCEPT ![newest_fix_id'] = fix]

SkipFix(fix) ==
  /\ fix.type < 3 \/ fix.hour = backlog[newest_fix_id].hour
  /\ UNCHANGED <<backlog, newest_fix_id>>

AddFix(fix) == /\ StoreFix(fix) \/ SkipFix(fix)
               /\ UNCHANGED <<last_fix_id, backlog_fix, resets>>

(* backlog_get_next_fix(): steps through the slots and hands out the one   *)
(* it leaves, if that holds a 3D fix.                                      *)
GetNextFix_StepOnHit ==         \* Mutant: stays at a slot without a 3D fix
  /\ backlog_fix' = IF backlog[last_fix_id].type > 2
                      THEN backlog[last_fix_id] ELSE NULL
  /\ last_fix_id' = IF backlog[last_fix_id].type > 2
                      THEN Advance(last_fix_id, BACKLOG_TX_INCREMENT)
                      ELSE last_fix_id
  /\ UNCHANGED <<backlog, newest_fix_id, resets>>
GetNextFix ==
  /\ last_fix_id' = Advance(last_fix_id, BACKLOG_TX_INCREMENT)
  /\ backlog_fix' = IF backlog[last_fix_id].type > 2
                      THEN backlog[last_fix_id] ELSE NULL
  /\ UNCHANGED <<backlog, newest_fix_id, resets>>

(* A reset of the MCU: the static variables start over, the FRAM stays.    *)
Reset == /\ resets < MaxResets
         /\ resets' = resets + 1
         /\ newest_fix_id' = 0
         /\ last_fix_id' = 0
         /\ backlog_fix' = NULL
         /\ UNCHANGED backlog

Next == GetNextFix \/ Reset \/ \E fix \in Fixes : AddFix(fix)

(* main.c asks for a backlog fix in every cycle (main.c:139); nothing is   *)
(* assumed of the fixes the GPS delivers.                                  *)
Spec == Init /\ [][Next]_vars /\ WF_vars(GetNextFix)

----------------------------------------------------------------------------
(* Properties.                                                             *)

(* The indices never leave the ring, and every slot holds a fix.           *)
TypeOK == /\ backlog \in [Slots -> Fixes \cup Remains]
          /\ newest_fix_id \in Slots
          /\ last_fix_id \in Slots
          /\ backlog_fix \in Fixes \cup Remains \cup {NULL}
          /\ resets \in 0 .. MaxResets

(* The ring read as a log that ends with the newest slot.                  *)
SlotOf(k) == IF newest_fix_id + k < BACKLOG_MAX_ENTRIES THEN newest_fix_id + k
             ELSE newest_fix_id + k - BACKLOG_MAX_ENTRIES

Log == INSTANCE HourlyLog WITH Size <- BACKLOG_MAX_ENTRIES,
         log <- [k \in 1 .. BACKLOG_MAX_ENTRIES |-> backlog[SlotOf(k)]]

(* The ring implements the hourly log: storing a fix drops the oldest one  *)
(* and no other, and a reset keeps every fix.                              *)
KeepsHourlyLog == Log!Spec

(* Every stored fix is handed out for transmission, or replaced first:     *)
(* stepping by BACKLOG_TX_INCREMENT must reach all slots (backlog.h:12).   *)
EveryFixSentOrReplaced ==
  \A s \in Slots, fix \in Fixes \cup Remains :
    (backlog[s] = fix /\ fix.type > 2)
      ~> (backlog_fix = fix \/ backlog[s] # fix)
=============================================================================
