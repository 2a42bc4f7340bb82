--------------------------- MODULE MonitorProofs ---------------------------
(***************************************************************************)
(* Theorems about the line monitor, for every length of the timeout: its   *)
(* safety properties, and that it implements LineMonitor.                  *)
(***************************************************************************)
EXTENDS Monitor, TLAPS

\* The timeout runs from the moment the handler has restarted it.
ResetIsOn == isr = "reset" => stk.on

\* A verdict was given on the level read last, unless an edge is still to be
\* handled (or none ever came, and IDLE is the word of monitor_start).
VerdictOfLineState ==
    seen /\ isr = "none" /\ ~extiPend /\ monitorState # "BUSY" =>
        monitorState = Verdict(lineState)

IInv ==
    /\ TypeOK
    /\ LineStateFresh /\ BusyIsTimed
    /\ ResetIsOn /\ VerdictOfLineState

-----------------------------------------------------------------------------
LEMMA Initially == Init => IInv
<1>1. TIMEOUT \in 1 .. TIMEOUT /\ 0 \in 0 .. TIMEOUT
  BY TimeoutAssumption
<1> SUFFICES ASSUME Init PROVE IInv
  OBVIOUS
<1>2. TypeOK
  BY <1>1 DEF Init, TypeOK
<1>3. LineStateFresh /\ BusyIsTimed /\ ResetIsOn /\ VerdictOfLineState
  BY DEF Init, LineStateFresh, BusyIsTimed, ResetIsOn, VerdictOfLineState
<1> QED
  BY <1>2, <1>3 DEF IInv

\* The count stays between one and the timeout, and expiring makes the timer
\* pending without stopping it.
LEMMA CountDownEffect ==
    ASSUME NEW t \in [on : BOOLEAN, left : 1 .. TIMEOUT, pend : BOOLEAN]
    PROVE  /\ CountDown(t) \in [on : BOOLEAN, left : 1 .. TIMEOUT, pend : BOOLEAN]
           /\ CountDown(t).on = t.on
           /\ t.pend => CountDown(t).pend
<1>1. t.left \in 1 .. TIMEOUT /\ TIMEOUT \in 1 .. TIMEOUT
  BY TimeoutAssumption
<1>2. CASE t.left = 1
  BY <1>1, <1>2 DEF CountDown
<1>3. CASE t.left # 1
  <2>1. t.left - 1 \in 1 .. TIMEOUT
    BY <1>1, <1>3, TimeoutAssumption
  <2> QED
    BY <1>3, <2>1 DEF CountDown
<1> QED
  BY <1>2, <1>3

LEMMA Inductive == IInv /\ [Next]_vars => IInv'
<1> SUFFICES ASSUME IInv, [Next]_vars PROVE IInv'
  OBVIOUS
<1>1. CASE EXTI4_Clear
  BY <1>1 DEF EXTI4_Clear, IInv, TypeOK, LineStateFresh, BusyIsTimed, ResetIsOn,
     VerdictOfLineState
<1>2. CASE EdgeResetTimer
  <2>1. stk' \in [on : BOOLEAN, left : 1 .. TIMEOUT, pend : BOOLEAN] /\ stk'.on
    <3>1. TIMEOUT \in 1 .. TIMEOUT
      BY TimeoutAssumption
    <3> QED
      BY <1>2, <3>1 DEF EdgeResetTimer, ResetTimer, IInv, TypeOK
  <2> QED
    BY <1>2, <2>1 DEF EdgeResetTimer, IInv, TypeOK, LineStateFresh, BusyIsTimed,
       ResetIsOn, VerdictOfLineState
<1>3. CASE EdgeReadLine
  BY <1>3 DEF EdgeReadLine, Busy, IInv, TypeOK, LineStateFresh, BusyIsTimed, ResetIsOn,
     VerdictOfLineState
<1>4. CASE SysTick_Handler
  <2>1. /\ stk' \in [on : BOOLEAN, left : 1 .. TIMEOUT, pend : BOOLEAN]
        /\ ~stk'.on /\ ~stk'.pend
    BY <1>4 DEF SysTick_Handler, IInv, TypeOK
  <2>2. monitorState' \in {"IDLE", "COLLISION"} /\ monitorState' = Verdict(lineState')
    BY <1>4 DEF SysTick_Handler, Verdict
  <2> QED
    BY <1>4, <2>1, <2>2 DEF SysTick_Handler, IInv, TypeOK, LineStateFresh, BusyIsTimed,
       ResetIsOn, VerdictOfLineState
<1>5. CASE LineEdge
  BY <1>5, TimeoutAssumption DEF LineEdge, IInv, TypeOK, LineStateFresh, BusyIsTimed,
     ResetIsOn, VerdictOfLineState
<1>6. CASE Tick
  <2>1. /\ stk' \in [on : BOOLEAN, left : 1 .. TIMEOUT, pend : BOOLEAN]
        /\ stk'.on = stk.on
        /\ stk'.on \/ stk'.pend <=> stk.on \/ stk.pend
    BY <1>6, CountDownEffect DEF Tick, IInv, TypeOK
  <2>2. quiet' \in 0 .. TIMEOUT /\ late' \in BOOLEAN
    BY <1>6, TimeoutAssumption DEF Tick, IInv, TypeOK
  <2> QED
    BY <1>6, <2>1, <2>2 DEF Tick, IInv, TypeOK, LineStateFresh, BusyIsTimed, ResetIsOn,
       VerdictOfLineState
<1>7. CASE UNCHANGED vars
  BY <1>7 DEF vars, IInv, TypeOK, LineStateFresh, BusyIsTimed, ResetIsOn,
     VerdictOfLineState
<1> QED
  BY <1>1, <1>2, <1>3, <1>4, <1>5, <1>6, <1>7 DEF Next, Handlers

THEOREM Invariance == Spec => []IInv
<1>1. Init => IInv
  BY Initially
<1>2. IInv /\ [Next]_vars => IInv'
  BY Inductive
<1> QED
  BY <1>1, <1>2, PTL DEF Spec

-----------------------------------------------------------------------------
\* Every variable keeps its type, the countdown included.
THEOREM TypeCorrect == Spec => []TypeOK
<1>1. IInv => TypeOK
  BY DEF IInv
<1> QED
  BY <1>1, Invariance, PTL

\* No edge is lost: clearing the flag before reading the line is enough.
THEOREM NoEdgeIsLost == Spec => []LineStateFresh
<1>1. IInv => LineStateFresh
  BY DEF IInv
<1> QED
  BY <1>1, Invariance, PTL

\* A verdict that can be seen agrees with the line.
THEOREM VerdictIsRight == Spec => []VerdictMatchesLine
<1>1. IInv => VerdictMatchesLine
  BY DEF IInv, TypeOK, LineStateFresh, VerdictOfLineState, VerdictMatchesLine, Visible,
     Verdict
<1> QED
  BY <1>1, Invariance, PTL

\* BUSY always has a timeout to end it.
THEOREM BusyHasTimeout == Spec => []BusyIsTimed
<1>1. IInv => BusyIsTimed
  BY DEF IInv
<1> QED
  BY <1>1, Invariance, PTL

\* The monitor is what LineMonitor promises to its users: an edge makes BUSY,
\* only BUSY is left for a verdict.
THEOREM MonitorImplementsLineMonitor == Spec => ImplementsLineMonitor
<1>1. Init => Promise!MonitorInit
  BY DEF Init, Promise!MonitorInit
<1>2. ASSUME IInv, [Next]_vars
      PROVE  [Promise!MonitorNext]_monitorState
  <2>1. CASE EdgeReadLine
    BY <2>1 DEF EdgeReadLine, Busy, Promise!MonitorNext, Promise!EdgeSeen
  <2>2. CASE SysTick_Handler
    <3>1. monitorState = "BUSY"
      BY <2>2, <1>2 DEF SysTick_Handler, IInv, BusyIsTimed
    <3>2. monitorState' \in {"IDLE", "COLLISION"}
      BY <2>2 DEF SysTick_Handler, Verdict
    <3> QED
      BY <3>1, <3>2 DEF Promise!MonitorNext, Promise!Verdict
  <2>3. CASE EXTI4_Clear \/ EdgeResetTimer \/ LineEdge \/ Tick \/ UNCHANGED vars
    BY <2>3 DEF EXTI4_Clear, EdgeResetTimer, LineEdge, Tick, vars
  <2> QED
    BY <1>2, <2>1, <2>2, <2>3 DEF Next, Handlers
<1> QED
  BY <1>1, <1>2, Invariance, PTL DEF Spec, ImplementsLineMonitor, Promise!MonitorSpec
=============================================================================
