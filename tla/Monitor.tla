------------------------------ MODULE Monitor ------------------------------
(***************************************************************************)
(* The line monitor of src/monitor.c: every edge on PC4 interrupts (EXTI4, *)
(* whose handler is in receiver.c and calls monitor_Edge_Intrr first),     *)
(* makes the state BUSY and restarts the SysTick timeout; the timeout      *)
(* turns BUSY into IDLE or COLLISION by the last level read.               *)
(*                                                                         *)
(* The handlers never nest, but the line and the timer do not stop while   *)
(* one runs, so the EXTI4 handler is three steps between which an edge or  *)
(* a timer tick may fall.  SysTick is served first when both are pending.  *)
(* The rest of the EXTI4 handler, the sampling, belongs to the receiver.   *)
(***************************************************************************)
EXTENDS Integers

CONSTANT TIMEOUT       \* TRANSMISSION_TIMEOUT_US, in ticks of the model

ASSUME TimeoutAssumption == TIMEOUT \in Nat /\ TIMEOUT > 1

VARIABLES
    line,              \* the level of PC4
    lineState,         \* the level the handler read last
    monitorState,
    stk,               \* SysTick: on, ticks left, interrupt pending
    extiPend,          \* EXTI_PR bit 4
    isr,               \* where the EXTI4 handler stands, or "none"
    late,              \* a tick fell into this run of the handler
    seen, quiet        \* history: some edge came; ticks since the last one

vars == <<line, lineState, monitorState, stk, extiPend, isr, late, seen, quiet>>

Promise == INSTANCE LineMonitor

-----------------------------------------------------------------------------
(* resetTimer: off, load, clear, on.  It does not clear a pending SysTick. *)

\* (Fault: never turned on again.)
ResetTimerFault(t) == [t EXCEPT !.on = FALSE, !.left = TIMEOUT]

ResetTimer(t) == [t EXCEPT !.on = TRUE, !.left = TIMEOUT]

\* The SysTick counts down, and reloads as it becomes pending.
\* (Fault: one tick late.)
CountDownFault(t) ==
    IF t.left = 0 THEN [t EXCEPT !.left = TIMEOUT, !.pend = TRUE]
    ELSE [t EXCEPT !.left = t.left - 1]

CountDown(t) ==
    IF t.left = 1 THEN [t EXCEPT !.left = TIMEOUT, !.pend = TRUE]
    ELSE [t EXCEPT !.left = t.left - 1]

\* (Fault: the levels are swapped.)
VerdictFault(level) == IF level = 0 THEN "IDLE" ELSE "COLLISION"

\* What a timeout says about a line that rests at this level.
Verdict(level) == IF level # 0 THEN "IDLE" ELSE "COLLISION"

\* (Fault: an edge is news only on an idle line.)
BusyFault == monitorState' = IF monitorState = "IDLE" THEN "BUSY" ELSE monitorState

Busy == monitorState' = "BUSY"

-----------------------------------------------------------------------------
(* The interrupt handlers. *)

\* EXTI4_IRQHandler: check and clear the pending bit.
EXTI4_Clear ==
    /\ isr = "none" /\ extiPend
    /\ ~stk.pend
    /\ isr' = "cleared" /\ late' = FALSE
    /\ extiPend' = FALSE
    /\ UNCHANGED <<line, lineState, monitorState, stk, seen, quiet>>

\* monitor_Edge_Intrr: restart the timeout,
EdgeResetTimer ==
    /\ isr = "cleared"
    /\ isr' = "reset"
    /\ stk' = ResetTimer(stk)
    /\ UNCHANGED <<line, lineState, monitorState, extiPend, late, seen, quiet>>

\* (Fault: takes every interrupt for one edge instead of reading the line.)
EdgeReadLineFault ==
    /\ isr = "reset"
    /\ isr' = "none" /\ late' = FALSE
    /\ lineState' = 1 - lineState
    /\ Busy
    /\ UNCHANGED <<line, stk, extiPend, seen, quiet>>

\* then read the line and be busy.
EdgeReadLine ==
    /\ isr = "reset"
    /\ isr' = "none" /\ late' = FALSE
    /\ lineState' = line
    /\ Busy
    /\ UNCHANGED <<line, stk, extiPend, seen, quiet>>

SysTick_Handler ==
    /\ isr = "none" /\ stk.pend
    /\ stk' = [stk EXCEPT !.on = FALSE, !.pend = FALSE]
    /\ monitorState' = Verdict(lineState)
    /\ UNCHANGED <<line, lineState, extiPend, isr, late, seen, quiet>>

Handlers == EXTI4_Clear \/ EdgeResetTimer \/ EdgeReadLine \/ SysTick_Handler

-----------------------------------------------------------------------------
(* The line and the clock. *)

LineEdge ==
    /\ line' = 1 - line
    /\ extiPend' = TRUE
    /\ seen' = TRUE /\ quiet' = 0
    /\ UNCHANGED <<lineState, monitorState, stk, isr, late>>

\* Handlers take microseconds: an interrupt is served before the next tick,
\* and at most one tick falls into a handler.
Tick ==
    /\ IF isr = "none" THEN ~extiPend /\ ~stk.pend ELSE ~late
    /\ late' = (isr # "none")
    /\ stk' = IF stk.on THEN CountDown(stk) ELSE stk
    /\ quiet' = IF quiet < TIMEOUT THEN quiet + 1 ELSE quiet
    /\ UNCHANGED <<line, lineState, monitorState, extiPend, isr, seen>>

-----------------------------------------------------------------------------
\* After monitor_start.  lineState is zero whatever the line does.
Init ==
    /\ line \in {0, 1}
    /\ lineState = 0
    /\ monitorState = "IDLE"
    /\ stk = [on |-> FALSE, left |-> TIMEOUT, pend |-> FALSE]
    /\ extiPend = FALSE
    /\ isr = "none" /\ late = FALSE
    /\ seen = FALSE /\ quiet = 0

Next == Handlers \/ LineEdge \/ Tick

Spec == Init /\ [][Next]_vars

\* Interrupts are served and time passes; edges may stop.
Fairness == WF_vars(Handlers) /\ WF_vars(Tick)

FairSpec == Spec /\ Fairness

-----------------------------------------------------------------------------
(* Properties. *)

\* Every variable keeps its type; the timer never counts below one.
TypeOK ==
    /\ line \in {0, 1} /\ lineState \in {0, 1}
    /\ monitorState \in {"IDLE", "BUSY", "COLLISION"}
    /\ stk \in [on : BOOLEAN, left : 1 .. TIMEOUT, pend : BOOLEAN]
    /\ isr \in {"none", "cleared", "reset"}
    /\ extiPend \in BOOLEAN /\ late \in BOOLEAN /\ seen \in BOOLEAN
    /\ quiet \in 0 .. TIMEOUT

\* What the main loop and the other handlers, which run only when neither of
\* these two is pending or running, can see.
Visible == isr = "none" /\ ~extiPend /\ ~stk.pend

\* No edge is lost between the interrupt flag and the read of the line: once
\* the handlers are done, lineState is the level of the line.
LineStateFresh == seen /\ isr = "none" /\ ~extiPend => lineState = line

\* A verdict anyone can see agrees with the line as it is now.
VerdictMatchesLine ==
    seen /\ Visible =>
        /\ monitorState = "IDLE" => line = 1
        /\ monitorState = "COLLISION" => line = 0

\* A busy monitor always has its timeout running or due, and only then: BUSY
\* cannot be left without a timer to end it.
BusyIsTimed == isr = "none" => (monitorState = "BUSY" <=> stk.on \/ stk.pend)

\* Only BUSY is left by a verdict, and an edge always leads through BUSY.
ImplementsLineMonitor == Promise!MonitorSpec

\* A line that rests gets the right verdict for good.
RestingLineIsJudged ==
    \A level \in {0, 1} :
        <>[](line = level /\ seen) => <>[](monitorState = Verdict(level))

-----------------------------------------------------------------------------
\* monitor.h:23, "The period of time until a data transmission timeout occurs /
\* The monitor enters the TS_IDLE or TS_COLLISION states when that happens": a
\* verdict would mean that the line has been quiet for the timeout.  It does
\* not when the SysTick expires as the EXTI4 handler begins: resetTimer leaves
\* it pending, and the verdict follows the edge at once.
VerdictAfterTimeout ==
    seen /\ Visible /\ monitorState # "BUSY" => quiet = TIMEOUT
=============================================================================
