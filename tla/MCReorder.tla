----------------------------- MODULE MCReorder -----------------------------
(* Inputs for checking Reorder: which gaps the environment announces.      *)
EXTENDS Reorder

\* Heartbeats: a heartbeat [a, b] is the gap [1, a)
HeartbeatGaps == {<<1, b>> : b \in 2..MaxSeq + 1}
\* Gap messages as well: any interval
AllGaps == {g \in (1..MaxSeq) \X (2..MaxSeq + 1) : g[1] < g[2]}
=============================================================================
