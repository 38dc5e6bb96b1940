----------------------------- MODULE MCTracker -----------------------------
(***************************************************************************)
(* Tracker.tla with short intervals that keep the order of main.h (RTTY    *)
(* frame < backlog offset < interval), fixes of every kind main.c tells    *)
(* apart, and a backlog of two slots.                                      *)
(***************************************************************************)
EXTENDS Tracker

Fix(type, num_svs, hour, alt) ==
  [type |-> type, num_svs |-> num_svs, hour |-> hour, alt |-> alt]

MCFixes == {Fix(0, 3, 0, 1), Fix(2, 5, 1, 1),
            Fix(3, 4, 1, 1), Fix(3, 6, 0, 4001)}
MCRemains == {NoFix}
=============================================================================
