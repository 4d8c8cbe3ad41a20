----------------------------- MODULE MCNativeHost -----------------------------
(* Bounds for NativeHost: one behaviour has two viewers in turn, with two  *)
(* updates or with failing writes, or one viewer and every route, or one   *)
(* viewer and a chain of moves.                                            *)
EXTENDS NativeHost

MCWork ==
  { [viewers |-> 2, updates |-> 2, routes |-> {"Recovery", "Raw"}, remainders |-> {},
     faults |-> FALSE],
    [viewers |-> 2, updates |-> 1, routes |-> {"Recovery"}, remainders |-> {}, faults |-> TRUE],
    [viewers |-> 1, updates |-> 2,
     routes |-> {"Recovery", "Video", "Mixed", "Raw", "Diff", "Nothing", "Move"},
     remainders |-> {"Raw", "Video"}, faults |-> TRUE],
    [viewers |-> 1, updates |-> 3, routes |-> {"Recovery", "Move"}, remainders |-> {},
     faults |-> FALSE] }

\* For the liveness run.
MCServe ==
  { [viewers |-> 1, updates |-> 2, routes |-> {"Recovery", "Raw"}, remainders |-> {},
     faults |-> TRUE] }
===============================================================================
