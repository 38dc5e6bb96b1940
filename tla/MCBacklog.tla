----------------------------- MODULE MCBacklog -----------------------------
(***************************************************************************)
(* Backlog.tla with three slots, fixes of three hours on two days, 2D and   *)
(* 3D, over memory that is erased or holds a fix of an earlier flight.     *)
(***************************************************************************)
EXTENDS Backlog

MCFixes   == {f \in [type : {2, 3}, hour : 0 .. 2, day : {1, 2}] :
                f.type = 2 => f.hour = 1 /\ f.day = 1}
MCRemains == {[type |-> 0, hour |-> 0, day |-> 0],
              [type |-> 3, hour |-> 1, day |-> 0]}
=============================================================================
