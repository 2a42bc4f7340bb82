---------------------------- MODULE LineMonitor ----------------------------
(***************************************************************************)
(* What the line monitor (src/monitor.c) promises the transmitter and the  *)
(* receiver, who see only monitor_getState(): an edge on the line makes it *)
(* BUSY at any time, and only BUSY is left for a verdict, IDLE (the line   *)
(* rests high) or COLLISION (it is held low).  A verdict never turns into  *)
(* the other one without an edge in between.  Monitor.tla implements this  *)
(* specification; Transmitter.tla uses it as its environment.              *)
(***************************************************************************)
VARIABLE monitorState

MonitorStates == {"IDLE", "BUSY", "COLLISION"}

MonitorTypeOK == monitorState \in MonitorStates

\* monitor_start declares the line idle without looking at it.
MonitorInit == monitorState = "IDLE"

\* An edge of the line was handled.
EdgeSeen == monitorState' = "BUSY"

\* The timeout that follows the last edge gave its verdict.
Verdict ==
    /\ monitorState = "BUSY"
    /\ monitorState' \in {"IDLE", "COLLISION"}

MonitorNext == EdgeSeen \/ Verdict

MonitorSpec == MonitorInit /\ [][MonitorNext]_monitorState
=============================================================================
