------------------------------ MODULE LatestValue ------------------------------
(***************************************************************************)
(* What a keep-latest lane promises: values are put one after another; the *)
(* receiver gets them in the order they were put, none twice, and may miss *)
(* any that a later one replaced; while the lane is open the last value    *)
(* put is eventually got.  Values are their numbers, so a missed value is  *)
(* a jump of got and a reordered one would be a step back.                 *)
(***************************************************************************)
EXTENDS Naturals

VARIABLES put,   \* how many values have been put
          got,   \* number of the last value received, 0 before the first
          open   \* the lane still carries values

vars == <<put, got, open>>

Init == put = 0 /\ got = 0 /\ open = TRUE

Put == put' = put + 1 /\ UNCHANGED <<got, open>>

Get == /\ open
       /\ \E n \in got + 1 .. put : got' = n
       /\ UNCHANGED <<put, open>>

Shut == open' = FALSE /\ UNCHANGED <<put, got>>

Next == Put \/ Get \/ Shut

Spec == Init /\ [][Next]_vars /\ WF_vars(Get)
=============================================================================
