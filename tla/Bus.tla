-------------------------------- MODULE Bus --------------------------------
(***************************************************************************)
(* Several cards on one open line that is low as soon as one of them pulls *)
(* it low.  Each boots (main.c), watches the line (monitor.c), and sends,  *)
(* collides and repeats (transmitter.c).  The receiver is left out: it     *)
(* drives nothing, and EXTI4 begins with the monitor's part.  As in        *)
(* Monitor, a SysTick that expires as EXTI4 begins is not taken back by    *)
(* the restart of the timer.                                               *)
(*                                                                         *)
(* A tick of time is a fraction 1 / HALF of a half-bit, so that cards may  *)
(* send out of step; their clocks run alike.  What falls into one tick may *)
(* come in any order.  Handlers and the short steps of the main routine    *)
(* take no time; its printfs take PRINT ticks or any number more.          *)
(***************************************************************************)
EXTENDS Integers, FiniteSets

CONSTANTS
    Cards,
    HALF,       \* TRANSMISSION_TICKS, 500 us, in ticks
    TIMEOUT,    \* TRANSMISSION_TIMEOUT_US, 1110 us, in ticks, rounded up
    LONG,       \* the first half-bit after a backoff, 8 s
    HALVES,     \* half-bits of a frame
    PRINT       \* ticks of a printf: 24 characters at 19200 baud, 12.5 ms, at least

ASSUME CardsAssumption == IsFiniteSet(Cards) /\ Cards # {}
ASSUME TimeAssumption ==
    HALF \in Nat \ {0} /\ TIMEOUT \in Nat /\ TIMEOUT > 2 * HALF /\ LONG \in Nat \ {0}
ASSUME PrintAssumption == PRINT \in Nat /\ PRINT > HALF
ASSUME HalvesAssumption == HALVES \in Nat \ {0} /\ HALVES % 2 = 0

VARIABLES
    pc,                     \* [Cards -> ...]: boot and the main routine
    monitorState, lineState,
    printing,               \* ticks the printf will take at least
    stk, extiPend,          \* SysTick: counter enable, ticks counted, interrupt
                            \* pending; EXTI_PR bit 4
    inTransmission, transmissionComplete, retransmissionTimeoutActive,
    half,                   \* half-bits of transBuf sent
    tim2,                   \* counter enable and ticks to the interrupt
    out,                    \* what the card drives: 1 lets go of the line
    since, pulled,          \* history: ticks since the last edge of the line,
                            \* cards that pulled it low since it fell,
    atTimeout,              \* the last edge came as the timeout of the one
                            \* before it ran out,
    seen                    \* and whether the card's EXTI4 took any edge

monVars  == <<monitorState, lineState, stk>>
flagVars == <<inTransmission, transmissionComplete, retransmissionTimeoutActive>>
lineVars == <<out, since, pulled, atTimeout>>
vars     == <<pc, printing, monVars, extiPend, flagVars, half, tim2, lineVars, seen>>

-----------------------------------------------------------------------------
(* The line. *)

LineOf(o) == IF \E c \in Cards : o[c] = 0 THEN 0 ELSE 1
line == LineOf(out)

\* EXTI4 is unmasked once receiver_init has run.
Listening(c) == pc[c] \in {"loop", "print", "backoff"}

\* A card drives a level: an edge, if there is one, is pending in every card
\* that listens, the card itself included.
Drive(c, level) ==
    /\ out' = [out EXCEPT ![c] = level]
    /\ extiPend' = [d \in Cards |-> extiPend[d] \/ (Listening(d) /\ line' # line)]
    /\ since' = IF line' # line THEN 0 ELSE since
    /\ atTimeout' = IF line' # line THEN since = TIMEOUT \/ (since = 0 /\ atTimeout)
                    ELSE atTimeout
    /\ pulled' = IF line' = 1 THEN {} ELSE IF level = 0 THEN pulled \cup {c} ELSE pulled

\* NEVER: a timer whose ARR is 0 does not count.
NEVER == LONG + HALF

Running(ticks) == [cen |-> TRUE, left |-> ticks]
Stopped(t) == [t EXCEPT !.cen = FALSE]

Tim2Due(c) == tim2[c].cen /\ tim2[c].left = 0

\* (Fault: after two half-bits, without the margin.)
SysTickDueFault(c) == stk[c].cen /\ stk[c].cnt >= TIMEOUT - 1

\* The timeout ends within this tick.
SysTickDue(c) == stk[c].cen /\ stk[c].cnt >= TIMEOUT

-----------------------------------------------------------------------------
(* main: the modules are started one after the other. *)

\* The monitor declares the line idle, without an edge and without a look.
MonitorStart(c) ==
    /\ pc[c] = "off" /\ pc' = [pc EXCEPT ![c] = "monitor"]
    /\ monitorState' = [monitorState EXCEPT ![c] = "IDLE"]
    /\ UNCHANGED <<printing, lineState, stk, extiPend, flagVars, half, tim2, lineVars, seen>>

\* A pin that becomes an output drives its latch, which no one has written.
enable_output_mode(c) == Drive(c, 0)

\* TIM2 is left running, and PC9 becomes an output.
TransmitterInit(c) ==
    /\ pc[c] = "monitor" /\ pc' = [pc EXCEPT ![c] = "transmitter"]
    /\ tim2' = [tim2 EXCEPT ![c] = Running(HALF)]
    /\ enable_output_mode(c)
    /\ UNCHANGED <<printing, monVars, flagVars, half, seen>>

\* From here on edges interrupt.
ReceiverInit(c) ==
    /\ pc[c] = "transmitter" /\ pc' = [pc EXCEPT ![c] = "loop"]
    /\ UNCHANGED <<printing, monVars, extiPend, flagVars, half, tim2, lineVars, seen>>

-----------------------------------------------------------------------------
(* transmitter_mainRoutineUpdate. *)

\* _write waits for the UART at every character.
printf(c) == printing' = [printing EXCEPT ![c] = PRINT]

\* There is a message, the line is idle: the frame is made and printed.  This
\* takes longer than the interrupt that ends the boot.
Decide(c) ==
    /\ pc[c] = "loop" /\ monitorState[c] = "IDLE"
    /\ ~inTransmission[c] /\ transmissionComplete[c]
    /\ pc' = [pc EXCEPT ![c] = "print"]
    /\ printf(c)
    /\ UNCHANGED <<monVars, extiPend, flagVars, half, tim2, lineVars, seen>>

\* Then it is sent, whatever the line is now.
Start(c) ==
    /\ pc[c] = "print" /\ printing[c] = 0
    /\ pc' = [pc EXCEPT ![c] = "loop"] /\ UNCHANGED printing
    /\ half' = [half EXCEPT ![c] = 0]
    /\ inTransmission' = [inTransmission EXCEPT ![c] = TRUE]
    /\ tim2' = [tim2 EXCEPT ![c] = Running(HALF)]
    /\ UNCHANGED <<monVars, extiPend, transmissionComplete, retransmissionTimeoutActive>>
    /\ UNCHANGED <<lineVars, seen>>

\* A message that collided, on an idle line: the same from the start,
Retry(c) ==
    /\ pc[c] = "loop" /\ monitorState[c] = "IDLE"
    /\ ~inTransmission[c] /\ ~transmissionComplete[c]
    /\ pc' = [pc EXCEPT ![c] = "backoff"]
    /\ printf(c)
    /\ half' = [half EXCEPT ![c] = 0]
    /\ retransmissionTimeoutActive' = [retransmissionTimeoutActive EXCEPT ![c] = TRUE]
    /\ tim2' = [tim2 EXCEPT ![c] = Stopped(tim2[c])]
    /\ UNCHANGED <<monVars, extiPend, inTransmission, transmissionComplete, lineVars, seen>>

\* after a backoff that is printed, and then counted in processor cycles: it
\* takes less than a tick, or for ever if it is 0.
StartBackoff(c) ==
    /\ pc[c] = "backoff" /\ printing[c] = 0
    /\ pc' = [pc EXCEPT ![c] = "loop"] /\ UNCHANGED printing
    /\ inTransmission' = [inTransmission EXCEPT ![c] = TRUE]
    /\ \E ticks \in {0, 1, NEVER} : tim2' = [tim2 EXCEPT ![c] = Running(ticks)]
    /\ UNCHANGED <<monVars, extiPend, transmissionComplete, retransmissionTimeoutActive>>
    /\ UNCHANGED <<half, lineVars, seen>>

MainStep(c) == Decide(c) \/ Start(c) \/ Retry(c) \/ StartBackoff(c)

-----------------------------------------------------------------------------
(* The handlers. *)

\* (Fault: the timeout of an earlier edge goes on.)
RestartedFault(c) ==
    IF stk[c].cen THEN {stk[c]} ELSE {[cen |-> TRUE, cnt |-> 0, pend |-> FALSE]}

\* resetTimer.  If the timeout ends in this tick, it may do so while the handler
\* runs and before the timer stops: the SysTick is then pending and stays so.
Restarted(c) == [cen : {TRUE}, cnt : {0}, pend : {FALSE, SysTickDue(c)}]

\* (Fault: takes every interrupt for one edge instead of reading the line.)
EXTI4_IRQHandlerFault(c) ==
    /\ extiPend[c] /\ extiPend' = [extiPend EXCEPT ![c] = FALSE]
    /\ ~stk[c].pend
    /\ \E t \in Restarted(c) : stk' = [stk EXCEPT ![c] = t]
    /\ lineState' = [lineState EXCEPT ![c] = 1 - lineState[c]]
    /\ monitorState' = [monitorState EXCEPT ![c] = "BUSY"]
    /\ seen' = [seen EXCEPT ![c] = TRUE]
    /\ UNCHANGED <<pc, printing, flagVars, half, tim2, lineVars>>

\* (Fault: makes only an idle monitor busy.)
EXTI4_IRQHandlerIdleFault(c) ==
    /\ extiPend[c] /\ extiPend' = [extiPend EXCEPT ![c] = FALSE]
    /\ ~stk[c].pend
    /\ \E t \in Restarted(c) : stk' = [stk EXCEPT ![c] = t]
    /\ lineState' = [lineState EXCEPT ![c] = line]
    /\ monitorState' = [monitorState EXCEPT ![c] = IF @ = "IDLE" THEN "BUSY" ELSE @]
    /\ seen' = [seen EXCEPT ![c] = TRUE]
    /\ UNCHANGED <<pc, printing, flagVars, half, tim2, lineVars>>

EXTI4_IRQHandler(c) ==
    /\ extiPend[c] /\ extiPend' = [extiPend EXCEPT ![c] = FALSE]
    /\ ~stk[c].pend
    /\ \E t \in Restarted(c) : stk' = [stk EXCEPT ![c] = t]
    /\ lineState' = [lineState EXCEPT ![c] = line]
    /\ monitorState' = [monitorState EXCEPT ![c] = "BUSY"]
    /\ seen' = [seen EXCEPT ![c] = TRUE]
    /\ UNCHANGED <<pc, printing, flagVars, half, tim2, lineVars>>

\* SysTick goes before EXTI4 and TIM2: the timer stops, restarted or not, and
\* the verdict is by the level read last.
SysTick_Handler(c) ==
    /\ stk[c].pend \/ SysTickDue(c)
    /\ stk' = [stk EXCEPT ![c] = [cen |-> FALSE, cnt |-> 0, pend |-> FALSE]]
    /\ monitorState' = [monitorState EXCEPT ![c] =
                           IF lineState[c] # 0 THEN "IDLE" ELSE "COLLISION"]
    /\ UNCHANGED <<pc, printing, lineState, extiPend, flagVars, half, tim2, lineVars, seen>>

\* EXTI4 goes before TIM2.
Tim2Served(c) == Tim2Due(c) /\ ~extiPend[c] /\ ~stk[c].pend

\* The backoff is over: transmit.  The prescaler of the backoff is in effect
\* only now, for the first half-bit.
BackoffOver(c) ==
    /\ Tim2Served(c) /\ retransmissionTimeoutActive[c]
    /\ retransmissionTimeoutActive' = [retransmissionTimeoutActive EXCEPT ![c] = FALSE]
    /\ inTransmission' = [inTransmission EXCEPT ![c] = TRUE]
    /\ tim2' = [tim2 EXCEPT ![c] = Running(LONG)]
    /\ UNCHANGED <<pc, printing, monVars, extiPend, transmissionComplete, half, lineVars, seen>>

\* (Fault: the line is left as it is.)
StopTransmissionFault(c) ==
    /\ inTransmission' = [inTransmission EXCEPT ![c] = FALSE]
    /\ tim2' = [tim2 EXCEPT ![c] = Stopped(tim2[c])]
    /\ Drive(c, out[c])

StopTransmission(c) ==
    /\ inTransmission' = [inTransmission EXCEPT ![c] = FALSE]
    /\ tim2' = [tim2 EXCEPT ![c] = Stopped(tim2[c])]
    /\ Drive(c, 1)

\* (Fault: noticed one half-bit late.)
AtEndFault(c) == half[c] > HALVES

AtEnd(c) == half[c] = HALVES

\* The end of the frame comes before the collision.
Finish(c) ==
    /\ Tim2Served(c) /\ ~retransmissionTimeoutActive[c] /\ AtEnd(c)
    /\ StopTransmission(c)
    /\ transmissionComplete' = [transmissionComplete EXCEPT ![c] = TRUE]
    /\ UNCHANGED <<pc, printing, monVars, retransmissionTimeoutActive, half, seen>>

\* (Fault: not looked at in the second half of a bit.)
CollidedFault(c) == monitorState[c] = "COLLISION" /\ half[c] % 2 = 0

Collided(c) == monitorState[c] = "COLLISION"

Collide(c) ==
    /\ Tim2Served(c) /\ ~retransmissionTimeoutActive[c] /\ ~AtEnd(c)
    /\ Collided(c)
    /\ StopTransmission(c)
    /\ transmissionComplete' = [transmissionComplete EXCEPT ![c] = FALSE]
    /\ UNCHANGED <<pc, printing, monVars, retransmissionTimeoutActive, half, seen>>

\* Manchester code of any bits: the second half of a bit is the complement of
\* the first, and the first bit, of 0x55, is 0.
LevelsOf(c) ==
    IF half[c] = 0 THEN {1} ELSE IF half[c] % 2 = 1 THEN {1 - out[c]} ELSE {0, 1}

SendBit(c) ==
    /\ Tim2Served(c) /\ ~retransmissionTimeoutActive[c] /\ ~AtEnd(c)
    /\ ~Collided(c)
    /\ \E level \in LevelsOf(c) : Drive(c, level)
    /\ half' = [half EXCEPT ![c] = half[c] + 1]
    /\ tim2' = [tim2 EXCEPT ![c] = Running(HALF)]
    /\ UNCHANGED <<pc, printing, monVars, flagVars, seen>>

TIM2_IRQHandler(c) == BackoffOver(c) \/ Finish(c) \/ Collide(c) \/ SendBit(c)

Handlers(c) == EXTI4_IRQHandler(c) \/ SysTick_Handler(c) \/ TIM2_IRQHandler(c)

-----------------------------------------------------------------------------
(* Time. *)

CountedDown(t) == IF t.cen /\ t.left # NEVER THEN [t EXCEPT !.left = t.left - 1] ELSE t
CountedUp(t) == IF t.cen THEN [t EXCEPT !.cnt = t.cnt + 1] ELSE t

\* Bound on since: longer than a card takes from its boot to its first low, and
\* than any low that is asked about.
SINCE_MAX == TIMEOUT + PRINT + 2 * HALF

\* Boot takes less than a tick, and so does everything that is due.
Tick ==
    /\ \A c \in Cards :
        /\ pc[c] = "off" \/ Listening(c)
        /\ ~extiPend[c] /\ ~Tim2Due(c) /\ ~SysTickDue(c) /\ ~stk[c].pend
    /\ tim2' = [c \in Cards |-> CountedDown(tim2[c])]
    /\ stk' = [c \in Cards |-> CountedUp(stk[c])]
    /\ printing' = [c \in Cards |-> IF printing[c] > 0 THEN printing[c] - 1 ELSE 0]
    /\ since' = IF since < SINCE_MAX THEN since + 1 ELSE since
    /\ UNCHANGED <<pc, monitorState, lineState, extiPend, flagVars, half, seen>>
    /\ UNCHANGED <<out, pulled, atTimeout>>

-----------------------------------------------------------------------------
Init ==
    /\ pc = [c \in Cards |-> "off"] /\ printing = [c \in Cards |-> 0]
    /\ monitorState = [c \in Cards |-> "IDLE"] /\ lineState = [c \in Cards |-> 0]
    /\ stk = [c \in Cards |-> [cen |-> FALSE, cnt |-> 0, pend |-> FALSE]]
    /\ extiPend = [c \in Cards |-> FALSE]
    /\ inTransmission = [c \in Cards |-> FALSE]
    /\ transmissionComplete = [c \in Cards |-> TRUE]
    /\ retransmissionTimeoutActive = [c \in Cards |-> FALSE]
    /\ half = [c \in Cards |-> HALVES]
    /\ tim2 = [c \in Cards |-> [cen |-> FALSE, left |-> 0]]
    /\ out = [c \in Cards |-> 1]
    /\ since = 0 /\ pulled = {} /\ atTimeout = FALSE /\ seen = [c \in Cards |-> FALSE]

Boot(c) == MonitorStart(c) \/ TransmitterInit(c) \/ ReceiverInit(c)

Next == Tick \/ \E c \in Cards : Boot(c) \/ MainStep(c) \/ Handlers(c)

Spec == Init /\ [][Next]_vars

\* Time passes, interrupts are served, and a boot that began goes on.
Fairness ==
    /\ WF_vars(Tick)
    /\ \A c \in Cards : WF_vars(TransmitterInit(c) \/ ReceiverInit(c) \/ Handlers(c))

FairSpec == Spec /\ Fairness

-----------------------------------------------------------------------------
(* Properties. *)

TypeOK ==
    /\ pc \in [Cards -> {"off", "monitor", "transmitter", "loop", "print", "backoff"}]
    /\ printing \in [Cards -> 0 .. PRINT]
    /\ monitorState \in [Cards -> {"IDLE", "BUSY", "COLLISION"}]
    /\ lineState \in [Cards -> {0, 1}] /\ out \in [Cards -> {0, 1}]
    /\ stk \in [Cards -> [cen : BOOLEAN, cnt : 0 .. TIMEOUT, pend : BOOLEAN]]
    /\ extiPend \in [Cards -> BOOLEAN] /\ seen \in [Cards -> BOOLEAN]
    /\ inTransmission \in [Cards -> BOOLEAN]
    /\ transmissionComplete \in [Cards -> BOOLEAN]
    /\ retransmissionTimeoutActive \in [Cards -> BOOLEAN]
    /\ half \in [Cards -> 0 .. HALVES]
    /\ tim2 \in [Cards -> [cen : BOOLEAN, left : 0 .. NEVER]]
    /\ since \in 0 .. SINCE_MAX /\ pulled \in SUBSET Cards /\ atTimeout \in BOOLEAN

\* Not so many cards that, booting one after the other, they hold the line low
\* until the first of them has printed a packet and sends: 24 with the times of
\* the code.
FewCards == TIMEOUT + Cardinality(Cards) * HALF < PRINT + 2 * HALF

\* However the frames of several cards overlap, none of them holds the line
\* low for longer than it takes to tell a collision and to come to the next
\* half-bit; a card that was off at the edge included.  It takes FewCards.
LowIsShort ==
    \A c \in Cards : inTransmission[c] /\ out[c] = 0 => since <= TIMEOUT + HALF

\* Whenever a collision is reported, to anyone, two cards at least pulled the
\* line low since it fell.  The one exception: the line fell as the timeout of
\* the edge before ran out, whose SysTick outlives the restart and judges the low
\* as it begins; such a verdict is taken back by an edge within two half-bits.
NoFalseCollision ==
    \A d \in Cards :
        monitorState[d] = "COLLISION" /\ ~extiPend[d] =>
            Cardinality(pulled) >= 2 \/ (atTimeout /\ since <= 2 * HALF)

\* While a card sends, no other card that heard an edge takes the line for idle
\* once the first bit is under way.  The one exception: the line rose just as the
\* low before it became a collision, and the SysTick judges the high as it begins;
\* such a card is wrong for two half-bits at most.
CarrierSensed ==
    \A c, d \in Cards :
        inTransmission[c] /\ ~retransmissionTimeoutActive[c] /\ half[c] >= 2
            /\ seen[d] /\ ~extiPend[d] /\ monitorState[d] = "IDLE" =>
                line = 1 /\ atTimeout /\ since <= 2 * HALF

\* No two cards ever judge the line differently, whenever each of them booted,
\* once both heard an edge: what one takes for idle is no collision to another.
VerdictsAgree ==
    \A c, d \in Cards :
        monitorState[c] = "IDLE" /\ monitorState[d] = "COLLISION" =>
            \E e \in {c, d} : ~seen[e] \/ extiPend[e]

\* What one card's transmitter and receiver are promised by its monitor.
MonitorOf(c) == INSTANCE LineMonitor WITH monitorState <- monitorState[c]

MonitorsInit == \A c \in Cards : MonitorOf(c)!MonitorInit
MonitorsNext == \A c \in Cards : [MonitorOf(c)!MonitorNext]_(monitorState[c])

\* Every card's monitor keeps its promise however the frames, boots and interrupts
\* of several cards fall together: BUSY alone is left for a verdict, and an edge
\* comes between two verdicts.  It is the environment Transmitter assumes.
MonitorsImplementLineMonitor == MonitorsInit /\ [][MonitorsNext]_monitorState

\* The line is never held low for good.
LineComesBack == line = 0 ~> line = 1
=============================================================================
