----------------------------- MODULE MCRtpsLive -----------------------------
(* Rtps under fair scheduling. Liveness needs a small instance: several    *)
(* samples are written when nothing goes wrong, only one when it does.     *)
EXTENDS Rtps

SmallFaults == faults' = 0 \/ Len(log') <= 1

LiveSpec == Init /\ [][Next /\ SmallFaults]_vars /\ Fairness
=============================================================================
