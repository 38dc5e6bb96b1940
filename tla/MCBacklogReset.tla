--------------------------- MODULE MCBacklogReset ---------------------------
(***************************************************************************)
(* Backlog.tla with a history variable: the slot that was stored last,     *)
(* which, unlike newest_fix_id, a reset does not forget.                   *)
(***************************************************************************)
EXTENDS MCBacklog

VARIABLE latest

HInit == Init /\ latest = -1

HNext == /\ Next
         /\ latest' = IF resets' = resets /\ newest_fix_id' # newest_fix_id
                        THEN newest_fix_id' ELSE latest

HSpec == HInit /\ [][HNext]_<<vars, latest>>

(* backlog.c:11 "replaces an old fix with a current one": the slot a fix   *)
(* is stored in does not hold the fix that was stored last, the newest of  *)
(* the log.                                                                *)
ReplacesAnOldFix ==
  [][\A s \in Slots : backlog'[s] # backlog[s] => s # latest]_<<vars, latest>>
=============================================================================
