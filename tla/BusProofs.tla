------------------------------ MODULE BusProofs ------------------------------
(***************************************************************************)
(* Theorems about cards on one line, for any number of them and all times: *)
(* the type invariant, that only a SysTick pending at an edge reports a    *)
(* collision without two cards that pulled the line low, or takes a card   *)
(* that sends for an idle line, that no two verdicts contradict each       *)
(* other, that every card's monitor implements LineMonitor, and, for a     *)
(* number of cards that the time of a printf bounds, that no low is longer *)
(* than it takes to notice it.                                             *)
(***************************************************************************)
EXTENDS Bus, FiniteSetTheorems, TLAPS

\* A card that does not listen yet has heard nothing and sends nothing, and one
\* that has not come to its transmitter has left the line alone.
BootState(c) ==
    /\ pc[c] \in {"off", "monitor", "transmitter"} =>
           ~seen[c] /\ ~extiPend[c] /\ ~inTransmission[c] /\ transmissionComplete[c]
    /\ pc[c] \in {"off", "monitor"} =>
           ~tim2[c].cen /\ half[c] = HALVES /\ out[c] = 1 /\ c \notin pulled
    /\ pc[c] = "transmitter" => out[c] = 0 /\ tim2[c].cen /\ tim2[c].left = HALF

\* TIM2 runs while a card sends or backs off, which finds the main routine at
\* its head, and for one half-bit after the boot, which is over before the first
\* packet is printed.
TimerState(c) ==
    /\ inTransmission[c] => pc[c] = "loop" /\ tim2[c].cen
    /\ ~inTransmission[c] /\ tim2[c].cen =>
           /\ pc[c] \in {"transmitter", "loop", "print"} /\ transmissionComplete[c]
           /\ half[c] = HALVES /\ tim2[c].left <= HALF
           /\ pc[c] = "print" => printing[c] > tim2[c].left

\* A backoff has nothing sent yet, and the flag that says so is up during it.
BackoffState(c) ==
    /\ pc[c] = "print" => transmissionComplete[c]
    /\ pc[c] = "backoff" => retransmissionTimeoutActive[c]
    /\ retransmissionTimeoutActive[c] =>
           half[c] = 0 /\ out[c] = 1 /\ (inTransmission[c] \/ pc[c] = "backoff")

\* A card pulls the line low during its boot and after its first half-bit, and
\* its next interrupt is then at most a half-bit away.
LevelState(c) ==
    /\ out[c] = 0 => tim2[c].cen /\ c \in pulled
    /\ inTransmission[c] /\ half[c] <= 1 => out[c] = 1
    /\ out[c] = 0 \/ (inTransmission[c] /\ half[c] >= 1) => tim2[c].left <= HALF

Card(c) == BootState(c) /\ TimerState(c) /\ BackoffState(c) /\ LevelState(c)

\* pulled is about the low there is now.
PulledNow == line = 1 => pulled = {}

\* A timeout runs only under a busy monitor, and is due, or left pending, under
\* an edge only if that came as it ran out.
Timed(c) ==
    /\ stk[c].cen => seen[c] /\ monitorState[c] = "BUSY"
    /\ stk[c].pend => stk[c].cen /\ since = 0 /\ atTimeout
    /\ extiPend[c] /\ SysTickDue(c) => atTimeout

\* A card that heard an edge knows the level and for how long it has lasted: its
\* timeout runs since the last edge, or gave the verdict, at the edge if it was
\* pending then.
Heard(c) ==
    /\ extiPend[c] => Listening(c) /\ since = 0
    /\ ~seen[c] => monitorState[c] = "IDLE"
    /\ Timed(c)
    /\ seen[c] /\ ~extiPend[c] =>
           /\ lineState[c] = line
           /\ \/ monitorState[c] = "BUSY" /\ stk[c].cen /\ stk[c].cnt = since
              \/ /\ ~stk[c].cen /\ (since >= TIMEOUT \/ atTimeout)
                 /\ monitorState[c] = IF line = 1 THEN "IDLE" ELSE "COLLISION"

\* How long a card may leave its output at one level: two half-bits if the
\* second half of a bit is followed by the same level, one otherwise.
Swing(c) == IF half[c] % 2 = 1 THEN 2 * HALF ELSE HALF

\* A low of a single card, and a high while a card sends, are no longer.
Swings(c) ==
    /\ pulled = {c} => since + tim2[c].left <= Swing(c)
    /\ inTransmission[c] /\ half[c] >= 2 /\ line = 1 => since + tim2[c].left <= Swing(c)

IInv ==
    /\ TypeOK
    /\ \A c \in Cards : Card(c) /\ Heard(c) /\ Swings(c)
    /\ PulledNow

-----------------------------------------------------------------------------
(* Types. *)

CardStep(c) == Boot(c) \/ MainStep(c) \/ Handlers(c)

\* The line is low exactly if a card drives it low.
LEMMA LevelOfLine ==
    ASSUME NEW o \in [Cards -> {0, 1}]
    PROVE  /\ LineOf(o) \in {0, 1}
           /\ LineOf(o) = 0 <=> \E c \in Cards : o[c] = 0
  BY DEF LineOf

\* Driving a level keeps the types of the line.
LEMMA DriveTyped ==
    ASSUME TypeOK, NEW c \in Cards, NEW level \in {0, 1}, Drive(c, level)
    PROVE  /\ out' \in [Cards -> {0, 1}] /\ extiPend' \in [Cards -> BOOLEAN]
           /\ since' \in 0 .. SINCE_MAX /\ pulled' \in SUBSET Cards
           /\ atTimeout' \in BOOLEAN
<1>1. out' \in [Cards -> {0, 1}]
  BY DEF TypeOK, Drive
<1>2. extiPend' \in [Cards -> BOOLEAN]
  <2>1. ASSUME NEW d \in Cards
        PROVE  (extiPend[d] \/ (Listening(d) /\ line' # line)) \in BOOLEAN
    BY Zenon DEF TypeOK
  <2> QED
    BY <2>1 DEF Drive
<1>3. since' \in 0 .. SINCE_MAX
  BY TimeAssumption, PrintAssumption DEF TypeOK, Drive, SINCE_MAX
<1>4. pulled' \in SUBSET Cards
  BY DEF TypeOK, Drive
<1>5. atTimeout' \in BOOLEAN
  BY Zenon DEF TypeOK, Drive
<1> QED
  BY <1>1, <1>2, <1>3, <1>4, <1>5

Tim2Type == [cen : BOOLEAN, left : 0 .. NEVER]

StkType == [cen : BOOLEAN, cnt : 0 .. TIMEOUT, pend : BOOLEAN]

\* What is done to a SysTick keeps it one.
LEMMA SysTicksTyped ==
    /\ [cen |-> FALSE, cnt |-> 0, pend |-> FALSE] \in StkType
    /\ \A c \in Cards : \A t \in Restarted(c) : t \in StkType
    /\ \A t \in StkType : (t.cen /\ t.cnt >= TIMEOUT) \/ CountedUp(t) \in StkType
<1>1. TIMEOUT \in Nat
  BY TimeAssumption
<1>2. ASSUME NEW c \in Cards, NEW t \in Restarted(c) PROVE t \in StkType
  <2>1. SysTickDue(c) \in BOOLEAN
    BY Zenon DEF SysTickDue
  <2>2. PICK p \in BOOLEAN : t = [cen |-> TRUE, cnt |-> 0, pend |-> p]
    BY <2>1 DEF Restarted
  <2> QED
    BY <1>1, <2>2 DEF StkType
<1>3. ASSUME NEW t \in StkType, ~(t.cen /\ t.cnt >= TIMEOUT) PROVE CountedUp(t) \in StkType
  BY <1>1, <1>3 DEF CountedUp, StkType
<1> QED
  BY <1>1, <1>2, <1>3 DEF StkType

\* What is done to a timer keeps it one.
LEMMA TimersTyped ==
    /\ \A t \in Tim2Type : Stopped(t) \in Tim2Type
    /\ \A t \in Tim2Type : (t.cen /\ t.left = 0) \/ CountedDown(t) \in Tim2Type
    /\ \A ticks \in {0, 1, HALF, LONG, NEVER} : Running(ticks) \in Tim2Type
<1>1. {0, 1, HALF, LONG, NEVER} \subseteq 0 .. NEVER
  BY TimeAssumption DEF NEVER
<1>2. \A ticks \in {0, 1, HALF, LONG, NEVER} : Running(ticks) \in Tim2Type
  BY <1>1 DEF Tim2Type, Running
<1>3. ASSUME NEW t \in Tim2Type PROVE Stopped(t) \in Tim2Type
  BY DEF Tim2Type, Stopped
<1>4. ASSUME NEW t \in Tim2Type, ~(t.cen /\ t.left = 0) PROVE CountedDown(t) \in Tim2Type
  <2>1. NEVER \in Nat
    BY TimeAssumption DEF NEVER
  <2> QED
    BY <1>4, <2>1 DEF Tim2Type, CountedDown
<1> QED
  BY <1>2, <1>3, <1>4

\* Types are kept by every step, without any other invariant.
LEMMA TypeInductive == TypeOK /\ [Next]_vars => TypeOK'
<1> SUFFICES ASSUME TypeOK, [Next]_vars PROVE TypeOK'
  OBVIOUS
<1> USE DEF flagVars, monVars, lineVars
<1>1. ASSUME NEW c \in Cards, Boot(c) PROVE TypeOK'
  <2>1. CASE MonitorStart(c) \/ ReceiverInit(c)
    BY <2>1 DEF TypeOK, MonitorStart, ReceiverInit
  <2>2. CASE TransmitterInit(c)
    BY <2>2, DriveTyped, TimersTyped DEF TypeOK, TransmitterInit, enable_output_mode, Tim2Type
  <2> QED
    BY <1>1, <2>1, <2>2 DEF Boot
<1>2. ASSUME NEW c \in Cards, MainStep(c) PROVE TypeOK'
  <2> USE PrintAssumption, HalvesAssumption, TimersTyped
  <2>1. CASE Decide(c)
    BY <2>1 DEF TypeOK, Decide, printf
  <2>2. CASE Start(c)
    BY <2>2 DEF TypeOK, Start, Tim2Type
  <2>3. CASE Retry(c)
    <3>1. tim2' \in [Cards -> Tim2Type]
      BY <2>3 DEF TypeOK, Retry, Tim2Type
    <3>2. half' \in [Cards -> 0 .. HALVES] /\ printing' \in [Cards -> 0 .. PRINT]
      BY <2>3 DEF TypeOK, Retry, printf
    <3> QED
      BY <2>3, <3>1, <3>2 DEF TypeOK, Retry, Tim2Type
  <2>4. CASE StartBackoff(c)
    BY <2>4 DEF TypeOK, StartBackoff, Tim2Type
  <2> QED
    BY <1>2, <2>1, <2>2, <2>3, <2>4 DEF MainStep
<1>3. ASSUME NEW c \in Cards, Handlers(c) PROVE TypeOK'
  <2>1. CASE EXTI4_IRQHandler(c)
    <3>1. line \in {0, 1}
      BY LevelOfLine DEF TypeOK, line
    <3>2. stk' \in [Cards -> StkType]
      BY <2>1, SysTicksTyped DEF TypeOK, EXTI4_IRQHandler, StkType
    <3> QED
      BY <2>1, <3>1, <3>2 DEF TypeOK, EXTI4_IRQHandler, StkType
  <2>2. CASE SysTick_Handler(c)
    BY <2>2, TimeAssumption DEF TypeOK, SysTick_Handler
  <2>3. CASE BackoffOver(c)
    BY <2>3, TimersTyped DEF TypeOK, BackoffOver, Tim2Type
  <2>4. CASE Finish(c) \/ Collide(c)
    <3>1. Drive(c, 1)
      BY <2>4 DEF Finish, Collide, StopTransmission
    <3>2. tim2' \in [Cards -> Tim2Type]
      <4>1. tim2' = [tim2 EXCEPT ![c] = Stopped(tim2[c])]
        BY <2>4 DEF Finish, Collide, StopTransmission
      <4>2. tim2 \in [Cards -> Tim2Type]
        BY DEF TypeOK, Tim2Type
      <4> QED
        BY <4>1, <4>2, TimersTyped
    <3>3. UNCHANGED <<pc, printing, monVars, retransmissionTimeoutActive, half, seen>>
      BY <2>4 DEF Finish, Collide
    <3>4. /\ inTransmission' \in [Cards -> BOOLEAN]
          /\ transmissionComplete' \in [Cards -> BOOLEAN]
      BY <2>4 DEF TypeOK, Finish, Collide, StopTransmission
    <3> QED
      BY <3>1, <3>2, <3>3, <3>4, DriveTyped DEF TypeOK, Tim2Type
  <2>5. CASE SendBit(c)
    <3>1. PICK level \in LevelsOf(c) : Drive(c, level)
      BY <2>5 DEF SendBit
    <3>2. level \in {0, 1}
      BY DEF TypeOK, LevelsOf
    <3>3. half' \in [Cards -> 0 .. HALVES]
      <4>1. half[c] + 1 \in 0 .. HALVES
        <5>1. half[c] \in 0 .. HALVES /\ HALVES \in Nat
          BY HalvesAssumption DEF TypeOK
        <5>2. half[c] # HALVES
          BY <2>5 DEF SendBit, AtEnd
        <5> QED
          BY <5>1, <5>2
      <4> QED
        BY <2>5, <4>1 DEF TypeOK, SendBit
    <3> QED
      BY <2>5, <3>1, <3>2, <3>3, DriveTyped, TimersTyped DEF TypeOK, SendBit, Tim2Type
  <2> QED
    BY <1>3, <2>1, <2>2, <2>3, <2>4, <2>5 DEF Handlers, TIM2_IRQHandler
<1>4. CASE Tick
  <2>1. tim2' \in [Cards -> Tim2Type]
    <3>1. ASSUME NEW c \in Cards PROVE CountedDown(tim2[c]) \in Tim2Type
      BY <1>4, TimersTyped DEF TypeOK, Tick, Tim2Due, Tim2Type
    <3> QED
      BY <1>4, <3>1 DEF Tick
  <2>2. stk' \in [Cards -> StkType]
    <3>1. ASSUME NEW c \in Cards
          PROVE  CountedUp(stk[c]) \in StkType
      BY <1>4, SysTicksTyped DEF TypeOK, Tick, SysTickDue, StkType
    <3> QED
      BY <1>4, <3>1 DEF Tick
  <2>3. printing' \in [Cards -> 0 .. PRINT] /\ since' \in 0 .. SINCE_MAX
    BY <1>4, TimeAssumption, PrintAssumption DEF TypeOK, Tick, SINCE_MAX
  <2> QED
    BY <1>4, <2>1, <2>2, <2>3 DEF TypeOK, Tick, Tim2Type, StkType
<1>5. CASE UNCHANGED vars
  BY <1>5 DEF TypeOK, vars
<1> QED
  BY <1>1, <1>2, <1>3, <1>4, <1>5 DEF Next

-----------------------------------------------------------------------------
(* What a step of one card does to the line and to the other cards. *)

\* The same of the line as it is,
LEMMA LineNow ==
    ASSUME TypeOK
    PROVE  line \in {0, 1} /\ (line = 0 <=> \E d \in Cards : out[d] = 0)
  BY LevelOfLine DEF TypeOK, line

\* and after a step.
LEMMA LineThen ==
    ASSUME TypeOK'
    PROVE  line' \in {0, 1} /\ (line' = 0 <=> \E d \in Cards : out'[d] = 0)
<1>1. out' \in [Cards -> {0, 1}]
  BY DEF TypeOK
<1> QED
  BY <1>1, LevelOfLine DEF line

\* Nothing of another card, but for its pending edge.
LEMMA OthersKept ==
    ASSUME TypeOK, NEW c \in Cards, NEW d \in Cards, d # c, CardStep(c)
    PROVE  /\ pc'[d] = pc[d] /\ printing'[d] = printing[d]
           /\ monitorState'[d] = monitorState[d] /\ lineState'[d] = lineState[d]
           /\ stk'[d] = stk[d] /\ seen'[d] = seen[d]
           /\ inTransmission'[d] = inTransmission[d]
           /\ transmissionComplete'[d] = transmissionComplete[d]
           /\ retransmissionTimeoutActive'[d] = retransmissionTimeoutActive[d]
           /\ half'[d] = half[d] /\ tim2'[d] = tim2[d] /\ out'[d] = out[d]
<1> USE DEF TypeOK, flagVars, monVars, lineVars
<1>1. CASE Boot(c)
  BY <1>1 DEF Boot, MonitorStart, TransmitterInit, ReceiverInit, enable_output_mode, Drive
<1>2. CASE MainStep(c)
  BY <1>2 DEF MainStep, Decide, Start, Retry, StartBackoff, printf
<1>3. CASE EXTI4_IRQHandler(c) \/ SysTick_Handler(c) \/ BackoffOver(c)
  BY <1>3 DEF EXTI4_IRQHandler, SysTick_Handler, BackoffOver
<1>4. CASE Finish(c) \/ Collide(c)
  BY <1>4 DEF Finish, Collide, StopTransmission, Drive
<1>5. CASE SendBit(c)
  <2>1. PICK level \in LevelsOf(c) : Drive(c, level)
    BY <1>5 DEF SendBit
  <2> QED
    BY <1>5, <2>1 DEF SendBit, Drive
<1> QED
  BY <1>1, <1>2, <1>3, <1>4, <1>5 DEF CardStep, Handlers, TIM2_IRQHandler

\* The line is left alone, or the card drives it.
LEMMA LineOrDrive ==
    ASSUME TypeOK, NEW c \in Cards, CardStep(c)
    PROVE  \/ UNCHANGED lineVars /\ \A d \in Cards \ {c} : extiPend'[d] = extiPend[d]
           \/ \E level \in {0, 1} : Drive(c, level)
<1>1. CASE Boot(c)
  BY <1>1 DEF Boot, MonitorStart, TransmitterInit, ReceiverInit, enable_output_mode
<1>2. CASE MainStep(c)
  BY <1>2 DEF MainStep, Decide, Start, Retry, StartBackoff, lineVars
<1>3. CASE EXTI4_IRQHandler(c) \/ SysTick_Handler(c) \/ BackoffOver(c)
  BY <1>3 DEF TypeOK, EXTI4_IRQHandler, SysTick_Handler, BackoffOver
<1>4. CASE Finish(c) \/ Collide(c)
  BY <1>4 DEF Finish, Collide, StopTransmission
<1>5. CASE SendBit(c)
  <2>1. PICK level \in LevelsOf(c) : Drive(c, level)
    BY <1>5 DEF SendBit
  <2>2. level \in {0, 1}
    BY DEF TypeOK, LevelsOf
  <2> QED
    BY <2>1, <2>2
<1> QED
  BY <1>1, <1>2, <1>3, <1>4, <1>5 DEF CardStep, Handlers, TIM2_IRQHandler

Pulling == \A d \in Cards : out[d] = 0 => d \in pulled

\* An edge restarts the clock and is pending in every card that listens; a low
\* goes on while any other card holds it.
LEMMA LineEffect ==
    ASSUME TypeOK, TypeOK', PulledNow, Pulling, NEW c \in Cards, CardStep(c)
    PROVE  /\ line' # line => since' = 0 /\ \A d \in Cards : Listening(d) => extiPend'[d]
           /\ line' = line =>
                  since' = since /\ \A d \in Cards \ {c} : extiPend'[d] = extiPend[d]
           /\ line' # line /\ (since = TIMEOUT \/ (since = 0 /\ atTimeout)) => atTimeout'
           /\ line' = line => atTimeout' = atTimeout
           /\ line' = 1 => pulled' = {}
           /\ line' = 0 => pulled \subseteq pulled' /\ pulled' \subseteq pulled \cup {c}
           /\ \A d \in Cards \ {c} : out[d] = 0 => line' = 0
           /\ Pulling'
<1>1. /\ line \in {0, 1} /\ line' \in {0, 1}
      /\ \A d \in Cards : out[d] = 0 => line = 0
      /\ \A d \in Cards : out'[d] = 0 => line' = 0
  BY LineNow, LineThen
<1>2. CASE UNCHANGED lineVars /\ \A d \in Cards \ {c} : extiPend'[d] = extiPend[d]
  <2>1. line' = line
    BY <1>2 DEF line, lineVars
  <2> QED
    BY <1>1, <1>2, <2>1 DEF PulledNow, Pulling, lineVars
<1>3. ASSUME NEW level \in {0, 1}, Drive(c, level)
      PROVE  /\ line' # line => since' = 0 /\ \A d \in Cards : Listening(d) => extiPend'[d]
             /\ line' = line =>
                    since' = since /\ \A d \in Cards \ {c} : extiPend'[d] = extiPend[d]
             /\ line' # line /\ (since = TIMEOUT \/ (since = 0 /\ atTimeout)) => atTimeout'
             /\ line' = line => atTimeout' = atTimeout
             /\ line' = 1 => pulled' = {}
             /\ line' = 0 => pulled \subseteq pulled' /\ pulled' \subseteq pulled \cup {c}
             /\ \A d \in Cards \ {c} : out[d] = 0 => line' = 0
             /\ Pulling'
  <2>1. out'[c] = level /\ \A d \in Cards \ {c} : out'[d] = out[d]
    BY <1>3 DEF Drive, TypeOK
  <2>2. /\ line' # line => since' = 0
        /\ line' = line => since' = since
        /\ line' = 1 => pulled' = {}
        /\ line' = 0 => pulled' = IF level = 0 THEN pulled \cup {c} ELSE pulled
    BY <1>1, <1>3 DEF Drive
  <2>3. \A d \in Cards : extiPend'[d] = (extiPend[d] \/ (Listening(d) /\ line' # line))
    BY <1>3 DEF Drive
  <2>4. \A d \in Cards : extiPend[d] \in BOOLEAN
    BY DEF TypeOK
  <2>5. \A d \in Cards \ {c} : line' = line => extiPend'[d] = extiPend[d]
    BY <2>3, <2>4, Zenon
  <2>6. \A d \in Cards : line' # line /\ Listening(d) => extiPend'[d]
    BY <2>3, Zenon
  <2>7. Pulling'
    BY <1>1, <2>1, <2>2 DEF Pulling
  <2>8. /\ line' # line /\ (since = TIMEOUT \/ (since = 0 /\ atTimeout)) => atTimeout'
        /\ line' = line => atTimeout' = atTimeout
    BY <1>3, Zenon DEF Drive
  <2> QED
    BY <1>1, <2>1, <2>2, <2>5, <2>6, <2>7, <2>8
<1> QED
  BY <1>2, <1>3, LineOrDrive

\* An edge becomes pending only where it is listened for.
LEMMA PendingOthers ==
    ASSUME TypeOK, NEW c \in Cards, NEW d \in Cards, d # c, CardStep(c), extiPend'[d]
    PROVE  extiPend[d] \/ Listening(d)
<1>1. CASE UNCHANGED lineVars /\ \A e \in Cards \ {c} : extiPend'[e] = extiPend[e]
  BY <1>1
<1>2. ASSUME NEW level \in {0, 1}, Drive(c, level)
      PROVE  extiPend[d] \/ Listening(d)
  BY <1>2, Zenon DEF Drive
<1> QED
  BY <1>1, <1>2, LineOrDrive

-----------------------------------------------------------------------------
(* The state of a card. *)

\* A step of one card keeps the state of the others consistent.
LEMMA CardOther ==
    ASSUME IInv, TypeOK', NEW c \in Cards, NEW d \in Cards, d # c, CardStep(c)
    PROVE  Card(d)'
<1>1. Card(d) /\ Pulling /\ Heard(d)
  BY DEF IInv, Card, LevelState, Pulling
<1>2. /\ pc'[d] = pc[d] /\ printing'[d] = printing[d] /\ seen'[d] = seen[d]
      /\ inTransmission'[d] = inTransmission[d]
      /\ transmissionComplete'[d] = transmissionComplete[d]
      /\ retransmissionTimeoutActive'[d] = retransmissionTimeoutActive[d]
      /\ half'[d] = half[d] /\ tim2'[d] = tim2[d] /\ out'[d] = out[d]
  BY OthersKept DEF IInv
<1>3. extiPend'[d] => extiPend[d] \/ Listening(d)
  BY PendingOthers DEF IInv
<1>4. Pulling' /\ (d \in pulled' => d \in pulled)
  <2>1. line' \in {0, 1}
    BY LineThen
  <2>2. line' = 1 => pulled' = {}
    BY <1>1, LineEffect DEF IInv
  <2>3. Pulling' /\ (line' = 0 => pulled' \subseteq pulled \cup {c})
    BY <1>1, LineEffect DEF IInv
  <2> QED
    BY <2>1, <2>2, <2>3
<1>5. BootState(d)'
  BY <1>1, <1>2, <1>3, <1>4 DEF Card, BootState, Listening
<1>6. TimerState(d)' /\ BackoffState(d)'
  BY <1>1, <1>2 DEF Card, TimerState, BackoffState
<1>7. LevelState(d)'
  BY <1>1, <1>2, <1>4 DEF Card, LevelState, Pulling
<1> QED
  BY <1>5, <1>6, <1>7 DEF Card

\* The main routine and the boot.
LEMMA CardMain ==
    ASSUME IInv, TypeOK', NEW c \in Cards, Boot(c) \/ MainStep(c)
    PROVE  Card(c)'
<1> USE TimeAssumption, PrintAssumption, HalvesAssumption
<1>1. Card(c) /\ TypeOK
  BY DEF IInv
<1>2. CASE MonitorStart(c) \/ ReceiverInit(c) \/ Decide(c)
  BY <1>1, <1>2 DEF MonitorStart, ReceiverInit, Decide, printf, TypeOK, Card, BootState,
     TimerState, BackoffState, LevelState, flagVars, lineVars
<1>3. CASE TransmitterInit(c)
  <2>1. /\ pc[c] = "monitor" /\ pc'[c] = "transmitter" /\ out'[c] = 0 /\ Drive(c, 0)
        /\ tim2'[c] = [cen |-> TRUE, left |-> HALF]
        /\ UNCHANGED <<printing, flagVars, half, seen>>
    BY <1>1, <1>3 DEF TransmitterInit, enable_output_mode, Drive, Running, TypeOK
  <2>2. ~extiPend'[c]
    BY <1>1, <2>1, Zenon DEF Drive, Listening, TypeOK, Card, BootState
  <2>3. line' = 0
    BY <2>1, LineThen
  <2>4. c \in pulled'
    BY <2>1, <2>3 DEF Drive
  <2> QED
    BY <1>1, <2>1, <2>2, <2>4 DEF TypeOK, Card, BootState, TimerState, BackoffState,
       LevelState, flagVars
<1>4. CASE Start(c)
  <2>1. /\ pc[c] = "print" /\ pc'[c] = "loop" /\ printing[c] = 0
        /\ half'[c] = 0 /\ inTransmission'[c] = TRUE
        /\ tim2'[c] = [cen |-> TRUE, left |-> HALF]
        /\ UNCHANGED <<transmissionComplete, retransmissionTimeoutActive, lineVars, seen>>
    BY <1>1, <1>4 DEF Start, Running, TypeOK
  <2>2. out[c] = 1
    BY <1>1, <2>1 DEF TypeOK, Card, TimerState, LevelState
  <2> QED
    BY <1>1, <2>1, <2>2 DEF TypeOK, Card, BootState, TimerState, BackoffState, LevelState,
       lineVars
<1>5. CASE Retry(c)
  <2>1. /\ pc[c] = "loop" /\ pc'[c] = "backoff" /\ half'[c] = 0
        /\ ~inTransmission[c] /\ ~transmissionComplete[c]
        /\ retransmissionTimeoutActive'[c] = TRUE /\ tim2'[c].cen = FALSE
        /\ UNCHANGED <<inTransmission, transmissionComplete, lineVars, seen>>
    BY <1>1, <1>5 DEF Retry, Stopped, TypeOK
  <2>2. out[c] = 1
    BY <1>1, <2>1 DEF TypeOK, Card, TimerState, LevelState
  <2> QED
    BY <1>1, <2>1, <2>2 DEF TypeOK, Card, BootState, TimerState, BackoffState, LevelState,
       lineVars
<1>6. CASE StartBackoff(c)
  <2>1. /\ pc[c] = "backoff" /\ pc'[c] = "loop" /\ inTransmission'[c] = TRUE
        /\ tim2'[c].cen = TRUE
        /\ UNCHANGED <<transmissionComplete, retransmissionTimeoutActive, half, lineVars, seen>>
    BY <1>1, <1>6 DEF StartBackoff, Running, TypeOK
  <2> QED
    BY <1>1, <2>1 DEF TypeOK, Card, BootState, TimerState, BackoffState, LevelState,
       lineVars
<1> QED
  BY <1>2, <1>3, <1>4, <1>5, <1>6 DEF Boot, MainStep

\* The handlers.
LEMMA CardHandlers ==
    ASSUME IInv, TypeOK', NEW c \in Cards, Handlers(c)
    PROVE  Card(c)'
<1> USE TimeAssumption, PrintAssumption, HalvesAssumption
<1>1. Card(c) /\ Heard(c) /\ TypeOK
  BY DEF IInv
<1>2. CASE EXTI4_IRQHandler(c) \/ SysTick_Handler(c)
  <2>1. UNCHANGED <<pc, printing, flagVars, half, tim2, lineVars>>
    BY <1>2 DEF EXTI4_IRQHandler, SysTick_Handler
  <2>2. CASE pc[c] \in {"off", "monitor", "transmitter"}
    <3>1. ~extiPend[c] /\ ~seen[c] /\ ~stk[c].cen /\ ~stk[c].pend
      BY <1>1, <2>2 DEF Card, BootState, Heard, Timed
    <3> QED
      BY <1>2, <3>1 DEF EXTI4_IRQHandler, SysTick_Handler, SysTickDue
  <2>3. CASE pc[c] \notin {"off", "monitor", "transmitter"}
    BY <1>1, <2>1, <2>3 DEF Card, BootState, TimerState, BackoffState, LevelState, lineVars,
       flagVars
  <2> QED
    BY <2>2, <2>3
<1>3. ASSUME TIM2_IRQHandler(c)
      PROVE  /\ pc[c] \in {"loop", "print"} /\ tim2[c].cen /\ tim2[c].left = 0
             /\ pc'[c] = pc[c] /\ printing'[c] = printing[c]
  <2>1. Tim2Served(c) /\ UNCHANGED <<pc, printing>>
    BY <1>3 DEF TIM2_IRQHandler, BackoffOver, Finish, Collide, SendBit
  <2>2. tim2[c].cen /\ tim2[c].left = 0
    BY <2>1 DEF Tim2Served, Tim2Due
  <2>3. pc[c] \in {"loop", "print"}
    BY <1>1, <2>2 DEF Card, BootState, TimerState
  <2> QED
    BY <2>1, <2>2, <2>3
<1>4. CASE BackoffOver(c)
  <2>1. /\ retransmissionTimeoutActive[c] /\ retransmissionTimeoutActive'[c] = FALSE
        /\ inTransmission'[c] = TRUE /\ tim2'[c] = [cen |-> TRUE, left |-> LONG]
        /\ UNCHANGED <<pc, printing, transmissionComplete, half, lineVars, seen>>
    BY <1>1, <1>4 DEF BackoffOver, Running, TypeOK
  <2>2. pc[c] = "loop" /\ half[c] = 0 /\ out[c] = 1
    BY <1>1, <1>3, <1>4, <2>1 DEF Card, TimerState, BackoffState, TIM2_IRQHandler
  <2> QED
    BY <1>1, <2>1, <2>2 DEF TypeOK, Card, BootState, TimerState, BackoffState, LevelState,
       lineVars
<1>5. CASE Finish(c) \/ Collide(c)
  <2>1. /\ inTransmission'[c] = FALSE /\ tim2'[c].cen = FALSE /\ out'[c] = 1
        /\ ~retransmissionTimeoutActive[c]
        /\ UNCHANGED <<pc, printing, retransmissionTimeoutActive, half, seen>>
    BY <1>1, <1>5 DEF Finish, Collide, StopTransmission, Drive, Stopped, TypeOK
  <2>2. pc[c] = "print" => transmissionComplete'[c]
    <3>1. CASE Finish(c)
      BY <1>1, <3>1 DEF Finish, TypeOK
    <3>2. CASE Collide(c)
      BY <1>1, <1>3, <3>2 DEF Collide, Card, TimerState, AtEnd, TIM2_IRQHandler
    <3> QED
      BY <1>5, <3>1, <3>2
  <2> QED
    BY <1>1, <1>3, <1>5, <2>1, <2>2 DEF TypeOK, Card, BootState, TimerState, BackoffState,
       LevelState, TIM2_IRQHandler
<1>6. CASE SendBit(c)
  <2>1. PICK level \in LevelsOf(c) : Drive(c, level)
    BY <1>6 DEF SendBit
  <2>2. /\ ~retransmissionTimeoutActive[c] /\ half[c] # HALVES
        /\ half'[c] = half[c] + 1 /\ tim2'[c] = [cen |-> TRUE, left |-> HALF]
        /\ UNCHANGED <<pc, printing, flagVars, seen>>
    BY <1>1, <1>6 DEF SendBit, Running, TypeOK, AtEnd
  <2>3. inTransmission[c]
    BY <1>1, <1>3, <1>6, <2>2 DEF Card, TimerState, TIM2_IRQHandler
  <2>4. out'[c] = level /\ level \in {0, 1} /\ (half[c] = 0 => level = 1)
    BY <1>1, <2>1 DEF Drive, LevelsOf, TypeOK
  <2>5. half[c] \in Nat
    BY <1>1 DEF TypeOK
  <2>6. out'[c] = 0 => c \in pulled'
    <3>1. ASSUME out'[c] = 0 PROVE line' = 0
      BY <3>1, LineThen
    <3> QED
      BY <2>1, <2>4, <3>1 DEF Drive
  <2> QED
    BY <1>1, <1>3, <1>6, <2>2, <2>3, <2>4, <2>5, <2>6 DEF TypeOK, Card, BootState, TimerState,
       BackoffState, LevelState, TIM2_IRQHandler, flagVars
<1> QED
  BY <1>2, <1>4, <1>5, <1>6 DEF Handlers, TIM2_IRQHandler

-----------------------------------------------------------------------------
(* What a card heard. *)

\* An edge that comes as the timeout of a card runs out finds it due there, and
\* one that comes with it in the same tick changes nothing.
LEMMA TimedKept ==
    ASSUME TypeOK, NEW d \in Cards, Heard(d),
           seen'[d] = seen[d], stk'[d] = stk[d], monitorState'[d] = monitorState[d],
           line' # line => since' = 0,
           line' = line => since' = since /\ extiPend'[d] = extiPend[d],
           line' # line /\ (since = TIMEOUT \/ (since = 0 /\ atTimeout)) => atTimeout',
           line' = line => atTimeout' = atTimeout
    PROVE  Timed(d)'
<1>1. CASE line' = line
  BY <1>1 DEF Heard, Timed, SysTickDue
<1>2. CASE line' # line
  <2>1. ASSUME extiPend'[d], SysTickDue(d)' PROVE since = TIMEOUT \/ (since = 0 /\ atTimeout)
    <3>1. SysTickDue(d) /\ seen[d] /\ monitorState[d] = "BUSY"
      BY <2>1 DEF SysTickDue, Heard, Timed
    <3>2. CASE extiPend[d]
      BY <3>1, <3>2 DEF Heard, Timed
    <3>3. CASE ~extiPend[d]
      <4>1. stk[d].cnt = since /\ stk[d].cnt \in 0 .. TIMEOUT /\ stk[d].cnt >= TIMEOUT
        BY <3>1, <3>3 DEF Heard, SysTickDue, TypeOK
      <4> QED
        BY <4>1, TimeAssumption
    <3> QED
      BY <3>2, <3>3
  <2> QED
    BY <1>2, <2>1 DEF Heard, Timed
<1> QED
  BY <1>1, <1>2

\* What another card heard is true after a step of this one,
LEMMA HeardStep ==
    ASSUME IInv, TypeOK', NEW c \in Cards, NEW d \in Cards, d # c, CardStep(c)
    PROVE  Heard(d)'
<1>1. /\ TypeOK /\ Heard(d) /\ PulledNow /\ Pulling
      /\ (seen[d] => Listening(d))
  BY DEF IInv, Card, BootState, LevelState, Pulling, Listening, TypeOK
<1>2. /\ pc'[d] = pc[d] /\ seen'[d] = seen[d] /\ stk'[d] = stk[d]
      /\ lineState'[d] = lineState[d] /\ monitorState'[d] = monitorState[d]
  BY <1>1, OthersKept
<1>3. /\ line' # line => since' = 0 /\ (Listening(d) => extiPend'[d])
      /\ line' = line => since' = since /\ extiPend'[d] = extiPend[d]
      /\ line' # line /\ (since = TIMEOUT \/ (since = 0 /\ atTimeout)) => atTimeout'
      /\ line' = line => atTimeout' = atTimeout
  BY <1>1, LineEffect
<1>4. extiPend'[d] => extiPend[d] \/ Listening(d)
  BY <1>1, PendingOthers
<1>5. Timed(d)'
  BY <1>1, <1>2, <1>3, TimedKept
<1>6. CASE line' = line
  BY <1>1, <1>2, <1>3, <1>5, <1>6 DEF Heard, Listening
<1>7. CASE line' # line
  BY <1>1, <1>2, <1>3, <1>4, <1>5, <1>7 DEF Heard, Listening
<1> QED
  BY <1>6, <1>7

\* A step of its own that is no interrupt of EXTI4 or SysTick leaves the monitor
\* as it is, and its edge pending if there is none on the line.
LEMMA MonitorKept ==
    ASSUME IInv, NEW c \in Cards, Boot(c) \/ MainStep(c) \/ TIM2_IRQHandler(c)
    PROVE  /\ seen' = seen /\ stk' = stk /\ lineState' = lineState
           /\ monitorState'[c] = monitorState[c]
           /\ Listening(c) => Listening(c)'
           /\ extiPend'[c] => extiPend[c] \/ Listening(c)
           /\ line' = line => since' = since /\ extiPend'[c] = extiPend[c]
<1>1. TypeOK /\ Heard(c)
  BY DEF IInv
<1>2. /\ seen' = seen /\ stk' = stk /\ lineState' = lineState
      /\ monitorState'[c] = monitorState[c]
      /\ Listening(c) => Listening(c)'
      /\ extiPend'[c] => extiPend[c] \/ Listening(c)
  <2>1. CASE MonitorStart(c)
    <3>1. monitorState[c] = "IDLE"
      BY <1>1, <2>1 DEF MonitorStart, Heard, IInv, Card, BootState
    <3> QED
      BY <1>1, <2>1, <3>1 DEF MonitorStart, TypeOK, Listening
  <2>2. CASE TransmitterInit(c) \/ ReceiverInit(c)
    BY <1>1, <2>2, Zenon DEF TransmitterInit, ReceiverInit, enable_output_mode, Drive, TypeOK,
       Listening, monVars
  <2>3. CASE MainStep(c)
    BY <1>1, <2>3 DEF MainStep, Decide, Start, Retry, StartBackoff, TypeOK, Listening, monVars
  <2>4. CASE TIM2_IRQHandler(c)
    <3>1. UNCHANGED <<pc, seen, monVars>>
      BY <2>4 DEF TIM2_IRQHandler, BackoffOver, Finish, Collide, SendBit
    <3>2. extiPend'[c] => extiPend[c] \/ Listening(c)
      BY <2>4, Zenon DEF TIM2_IRQHandler, BackoffOver, Finish, Collide, SendBit, Drive,
         StopTransmission
    <3> QED
      BY <3>1, <3>2 DEF Listening, monVars
  <2> QED
    BY <2>1, <2>2, <2>3, <2>4 DEF Boot
<1>3. line' = line => since' = since /\ extiPend'[c] = extiPend[c]
  <2>1. CASE UNCHANGED <<lineVars, extiPend>>
    BY <2>1 DEF lineVars
  <2>2. ASSUME NEW level \in {0, 1}, Drive(c, level), line' = line
        PROVE  since' = since /\ extiPend'[c] = extiPend[c]
    <3>1. since' = since
      BY <2>2 DEF Drive
    <3>2. extiPend'[c] = (extiPend[c] \/ (Listening(c) /\ line' # line))
      BY <2>2 DEF Drive
    <3>3. extiPend[c] \in BOOLEAN
      BY <1>1 DEF TypeOK
    <3> QED
      BY <2>2, <3>1, <3>2, <3>3, Zenon
  <2>3. CASE Boot(c)
    BY <2>1, <2>2, <2>3 DEF Boot, MonitorStart, TransmitterInit, ReceiverInit,
       enable_output_mode
  <2>4. CASE MainStep(c) \/ BackoffOver(c)
    BY <2>1, <2>4 DEF MainStep, Decide, Start, Retry, StartBackoff, BackoffOver
  <2>5. CASE Finish(c) \/ Collide(c)
    BY <2>2, <2>5 DEF Finish, Collide, StopTransmission
  <2>6. CASE SendBit(c)
    <3>1. PICK level \in LevelsOf(c) : Drive(c, level)
      BY <2>6 DEF SendBit
    <3>2. level \in {0, 1}
      <4>1. out[c] \in {0, 1}
        BY <1>1 DEF TypeOK
      <4> QED
        BY <3>1, <4>1 DEF LevelsOf
    <3> QED
      BY <2>2, <3>1, <3>2
  <2> QED
    BY <2>3, <2>4, <2>5, <2>6 DEF TIM2_IRQHandler
<1> QED
  BY <1>2, <1>3

\* and so is what this one heard.
LEMMA HeardSelf ==
    ASSUME IInv, TypeOK', NEW c \in Cards, CardStep(c)
    PROVE  Heard(c)'
<1>1. /\ TypeOK /\ Heard(c) /\ PulledNow /\ Pulling
      /\ (seen[c] => Listening(c))
  BY DEF IInv, Card, BootState, LevelState, Pulling, Listening, TypeOK
<1>2. CASE EXTI4_IRQHandler(c)
  <2>1. /\ extiPend[c] /\ ~extiPend'[c] /\ seen'[c]
        /\ stk'[c].cen /\ stk'[c].cnt = 0 /\ (stk'[c].pend => SysTickDue(c))
        /\ lineState'[c] = line
        /\ monitorState'[c] = "BUSY" /\ UNCHANGED lineVars
    BY <1>1, <1>2 DEF EXTI4_IRQHandler, Restarted, TypeOK
  <2>2. line' = line /\ since' = since /\ atTimeout' = atTimeout
    BY <2>1 DEF line, lineVars
  <2> QED
    BY <1>1, <2>1, <2>2 DEF Heard, Timed
<1>3. CASE SysTick_Handler(c)
  <2>1. /\ stk[c].pend \/ SysTickDue(c)
        /\ stk'[c].cen = FALSE /\ stk'[c].pend = FALSE
        /\ monitorState'[c] = IF lineState[c] # 0 THEN "IDLE" ELSE "COLLISION"
        /\ UNCHANGED <<seen, lineState, extiPend, lineVars>>
    BY <1>1, <1>3 DEF SysTick_Handler, TypeOK
  <2>2. line' = line /\ since' = since /\ atTimeout' = atTimeout /\ line \in {0, 1}
    BY <1>1, <2>1, LineNow DEF line, lineVars
  <2>3. seen[c] /\ monitorState[c] = "BUSY"
    BY <1>1, <2>1 DEF Heard, Timed, SysTickDue
  <2>4. ~extiPend[c] => lineState[c] = line /\ (since >= TIMEOUT \/ atTimeout)
    BY <1>1, <2>1, <2>3 DEF Heard, Timed, SysTickDue
  <2>5. Timed(c)'
    BY <2>1 DEF Timed, SysTickDue
  <2>6. lineState[c] \in {0, 1} /\ lineState'[c] = lineState[c] /\ extiPend'[c] = extiPend[c]
        /\ Listening(c)' /\ seen'[c]
    BY <1>1, <1>3, <2>1, <2>3 DEF SysTick_Handler, TypeOK, Listening
  <2>7. ~extiPend[c] => monitorState'[c] = IF line = 1 THEN "IDLE" ELSE "COLLISION"
    BY <2>1, <2>2, <2>4
  <2> QED
    BY <1>1, <2>1, <2>2, <2>4, <2>5, <2>6, <2>7 DEF Heard
<1>4. CASE Boot(c) \/ MainStep(c) \/ TIM2_IRQHandler(c)
  <2>1. /\ seen' = seen /\ stk' = stk /\ lineState' = lineState
        /\ monitorState'[c] = monitorState[c]
        /\ Listening(c) => Listening(c)'
        /\ extiPend'[c] => extiPend[c] \/ Listening(c)
        /\ line' = line => since' = since /\ extiPend'[c] = extiPend[c]
    BY <1>4, MonitorKept
  <2>2. /\ line' # line => since' = 0 /\ (Listening(c) => extiPend'[c])
        /\ line' # line /\ (since = TIMEOUT \/ (since = 0 /\ atTimeout)) => atTimeout'
        /\ line' = line => atTimeout' = atTimeout
    BY <1>1, LineEffect
  <2>3. Timed(c)'
    BY <1>1, <2>1, <2>2, TimedKept
  <2>4. CASE line' = line
    BY <1>1, <2>1, <2>2, <2>3, <2>4 DEF Heard
  <2>5. CASE line' # line
    BY <1>1, <2>1, <2>2, <2>3, <2>5 DEF Heard
  <2> QED
    BY <2>4, <2>5
<1> QED
  BY <1>2, <1>3, <1>4 DEF CardStep, Handlers

-----------------------------------------------------------------------------
(* How long the line stays at a level. *)

\* A step of one card does not prolong the level another holds.
LEMMA SwingsOther ==
    ASSUME IInv, TypeOK', NEW c \in Cards, NEW d \in Cards, d # c, CardStep(c)
    PROVE  Swings(d)'
<1>1. TypeOK /\ Swings(d) /\ PulledNow /\ Pulling /\ Card(d)
  BY DEF IInv, Card, LevelState, Pulling
<1>2. /\ inTransmission'[d] = inTransmission[d] /\ half'[d] = half[d]
      /\ tim2'[d] = tim2[d]
  BY <1>1, OthersKept
<1>3. /\ line \in {0, 1} /\ line' \in {0, 1}
      /\ line' # line => since' = 0
      /\ line' = line => since' = since
      /\ line' = 1 => pulled' = {}
      /\ line' = 0 => pulled \subseteq pulled' /\ pulled' \subseteq pulled \cup {c}
  BY <1>1, LineNow, LineThen, LineEffect
<1>4. half[d] \in Nat /\ tim2[d].left \in Nat
  BY TimeAssumption, HalvesAssumption DEF IInv, TypeOK, NEVER
<1>5. ASSUME pulled' = {d} PROVE since' + tim2'[d].left <= Swing(d)'
  <2>1. line' = 0 /\ pulled = {d}
    <3>1. line' = 0
      BY <1>3, <1>5
    <3>2. pulled \subseteq {d} /\ {d} \subseteq pulled \cup {c}
      BY <1>3, <1>5, <3>1
    <3> QED
      BY <3>1, <3>2
  <2>2. line' = line
    BY <1>1, <1>3, <2>1 DEF PulledNow
  <2> QED
    BY <1>1, <1>2, <1>3, <2>1, <2>2 DEF Swings, Swing
<1>6. ASSUME inTransmission'[d], half'[d] >= 2, line' = 1
      PROVE  since' + tim2'[d].left <= Swing(d)'
  <2>1. CASE line = 1
    BY <1>1, <1>2, <1>3, <1>6, <2>1 DEF Swings, Swing
  <2>2. CASE line = 0
    <3>1. tim2[d].left <= HALF
      BY <1>1, <1>2, <1>4, <1>6 DEF Card, LevelState
    <3> QED
      BY <1>2, <1>3, <1>4, <1>6, <2>2, <3>1, TimeAssumption DEF Swing
  <2> QED
    BY <1>3, <2>1, <2>2
<1> QED
  BY <1>5, <1>6 DEF Swings

\* A card that begins to send, to wait or to back off, or that stops, holds
\* nothing.
LEMMA LetsGo ==
    ASSUME IInv, NEW c \in Cards,
           Start(c) \/ Retry(c) \/ StartBackoff(c) \/ BackoffOver(c) \/ Finish(c) \/ Collide(c)
    PROVE  out'[c] = 1
<1>1. TypeOK /\ Card(c) /\ HALVES \in Nat \ {0}
  BY HalvesAssumption DEF IInv
  <1>2. CASE Start(c) \/ Retry(c)
    BY <1>1, <1>2 DEF Start, Retry, Card, TimerState, LevelState, TypeOK, lineVars
  <1>3. CASE StartBackoff(c)
    BY <1>1, <1>3 DEF StartBackoff, Card, BackoffState, lineVars
  <1>4. CASE BackoffOver(c)
    BY <1>1, <1>4 DEF BackoffOver, Card, BackoffState, lineVars
  <1>5. CASE Finish(c) \/ Collide(c)
    BY <1>1, <1>5 DEF Finish, Collide, StopTransmission, Drive, TypeOK
  <1> QED
    BY <1>2, <1>3, <1>4, <1>5

\* A card that sends a half-bit changes the level, or has held it for one only.
LEMMA SwingsSelf ==
    ASSUME NEW c \in Cards, IInv, TypeOK', Card(c)', CardStep(c)
    PROVE  Swings(c)'
<1> USE TimeAssumption, HalvesAssumption
<1>1. TypeOK /\ Swings(c) /\ PulledNow /\ Pulling /\ Card(c) /\ Heard(c)
  BY DEF IInv, Card, LevelState, Pulling
<1>2. /\ line \in {0, 1} /\ line' \in {0, 1}
      /\ line' # line => since' = 0
      /\ line' = line => since' = since
      /\ line' = 1 => pulled' = {}
      /\ line' = 0 => pulled \subseteq pulled' /\ pulled' \subseteq pulled \cup {c}
      /\ Pulling'
  BY <1>1, LineNow, LineThen, LineEffect
<1>3. half[c] \in Nat /\ tim2[c].left \in Nat
  BY DEF IInv, TypeOK, NEVER
\* If it is the only one that pulled, it is the one that holds the line.
<1>4. ASSUME pulled' = {c} PROVE line' = 0 /\ out'[c] = 0
  <2>1. line' = 0
    BY <1>2, <1>4
  <2>2. PICK d \in Cards : out'[d] = 0
    BY <2>1, LineThen
  <2>3. d = c
    BY <1>2, <1>4, <2>2 DEF Pulling
  <2> QED
    BY <2>1, <2>2, <2>3
<1>5. ASSUME line = 0, pulled \subseteq {c} PROVE pulled = {c} /\ out[c] = 0
  <2>1. PICK d \in Cards : out[d] = 0
    BY <1>1, <1>5, LineNow
  <2> QED
    BY <1>1, <1>5, <2>1 DEF Pulling
<1>6. CASE UNCHANGED <<out, since, pulled, half, tim2, inTransmission>>
  <2>1. line' = line
    BY <1>6 DEF line
  <2> QED
    BY <1>1, <1>6, <2>1 DEF Swings, Swing
<1>7. CASE TransmitterInit(c)
  <2>1. /\ pc[c] = "monitor" /\ tim2'[c] = [cen |-> TRUE, left |-> HALF]
        /\ UNCHANGED <<half, inTransmission>>
    BY <1>1, <1>7 DEF TransmitterInit, Running, TypeOK, flagVars
  <2>2. c \notin pulled /\ half[c] = HALVES /\ ~inTransmission[c]
    BY <1>1, <2>1 DEF Card, BootState
  <2>3. ASSUME pulled' = {c} PROVE since' = 0
    BY <1>2, <1>4, <1>5, <2>2, <2>3
  <2> QED
    BY <2>1, <2>2, <2>3 DEF Swings, Swing
<1>8. CASE Start(c) \/ Retry(c) \/ StartBackoff(c) \/ BackoffOver(c) \/ Finish(c) \/ Collide(c)
  <2>1. out'[c] = 1
    BY <1>8, LetsGo
  <2>2. ~(inTransmission'[c] /\ half'[c] >= 2)
    <3>1. CASE Start(c)
      BY <1>1, <3>1 DEF Start, TypeOK
    <3>2. CASE Retry(c)
      BY <1>1, <3>2 DEF Retry, TypeOK
    <3>3. CASE StartBackoff(c) \/ BackoffOver(c)
      BY <1>1, <1>3, <3>3 DEF StartBackoff, BackoffOver, Card, BackoffState
    <3>4. CASE Finish(c) \/ Collide(c)
      BY <1>1, <3>4 DEF Finish, Collide, StopTransmission, TypeOK
    <3> QED
      BY <1>8, <3>1, <3>2, <3>3, <3>4
  <2> QED
    BY <1>4, <2>1, <2>2 DEF Swings
<1>9. CASE SendBit(c)
  <2>1. PICK level \in LevelsOf(c) : Drive(c, level)
    BY <1>9 DEF SendBit
  <2>2. /\ tim2[c].cen /\ tim2[c].left = 0 /\ half[c] # HALVES
        /\ half'[c] = half[c] + 1 /\ tim2'[c] = [cen |-> TRUE, left |-> HALF]
        /\ inTransmission' = inTransmission
    BY <1>1, <1>9 DEF SendBit, Running, TypeOK, AtEnd, Tim2Served, Tim2Due, flagVars
  <2>3. inTransmission[c]
    BY <1>1, <2>2 DEF Card, TimerState
  <2>4. /\ out'[c] = level /\ out[c] \in {0, 1}
        /\ (half[c] = 0 => level = 1)
        /\ (half[c] # 0 /\ half[c] % 2 = 1 => level = 1 - out[c])
    BY <1>1, <2>1 DEF Drive, LevelsOf, TypeOK
  <2>5. half[c] % 2 \in {0, 1} /\ (half[c] % 2 = 0 <=> (half[c] + 1) % 2 = 1)
        /\ (half[c] % 2 = 1 => half[c] # 0)
    BY <1>3
  <2>6. half[c] % 2 = 0 => Swing(c) = HALF /\ Swing(c)' = 2 * HALF
    BY <2>2, <2>5 DEF Swing
  <2>7. HALF <= Swing(c)'
    BY DEF Swing
  <2>8. ASSUME pulled' = {c} PROVE since' + HALF <= Swing(c)'
    <3>1. line' = 0 /\ level = 0
      BY <1>4, <2>4, <2>8
    <3>2. CASE line = 1
      BY <1>2, <2>7, <3>1, <3>2
    <3>3. CASE line = 0
      <4>1. pulled = {c} /\ out[c] = 0
        BY <1>2, <1>5, <2>8, <3>1, <3>3
      <4>2. half[c] % 2 = 0
        BY <2>4, <2>5, <3>1, <4>1
      <4>3. since <= HALF
        BY <1>1, <2>2, <2>6, <4>1, <4>2 DEF Swings, TypeOK
      <4>4. since' = since /\ since \in Nat
        BY <1>1, <1>2, <3>1, <3>3 DEF TypeOK
      <4> QED
        BY <2>6, <4>2, <4>3, <4>4
    <3> QED
      BY <1>2, <3>2, <3>3
  <2>9. ASSUME half'[c] >= 2, line' = 1 PROVE since' + HALF <= Swing(c)'
    <3>1. level = 1
      <4>1. out'[c] # 0
        BY <2>9, LineThen
      <4>2. out'[c] \in {0, 1}
        BY DEF TypeOK
      <4> QED
        BY <2>4, <4>1, <4>2
    <3>2. CASE line = 0
      BY <1>2, <2>7, <2>9, <3>2
    <3>3. CASE line = 1
      <4>1. out[c] = 1
        BY <1>1, <2>4, <3>3, LineNow
      <4>2. half[c] % 2 = 0 /\ half[c] >= 2
        BY <1>3, <2>2, <2>4, <2>5, <2>9, <3>1, <4>1
      <4>3. since <= HALF
        BY <1>1, <2>2, <2>3, <2>6, <3>3, <4>2 DEF Swings, TypeOK
      <4>4. since' = since /\ since \in Nat
        BY <1>1, <1>2, <2>9, <3>3 DEF TypeOK
      <4> QED
        BY <2>6, <4>2, <4>3, <4>4
    <3> QED
      BY <1>2, <3>2, <3>3
  <2> QED
    BY <2>2, <2>8, <2>9 DEF Swings
<1>10. CASE MonitorStart(c) \/ ReceiverInit(c) \/ Decide(c) \/ EXTI4_IRQHandler(c)
            \/ SysTick_Handler(c)
  BY <1>6, <1>10 DEF MonitorStart, ReceiverInit, Decide, EXTI4_IRQHandler, SysTick_Handler,
     lineVars, flagVars
<1> QED
  BY <1>7, <1>8, <1>9, <1>10 DEF CardStep, Boot, MainStep, Handlers, TIM2_IRQHandler

-----------------------------------------------------------------------------
(* Time passes. *)

\* As the line gets older, the timers that will change it run down with it.
LEMMA TickKeeps ==
    ASSUME IInv, TypeOK', Tick
    PROVE  /\ \A c \in Cards : Card(c)' /\ Heard(c)' /\ Swings(c)'
           /\ PulledNow'
<1> USE TimeAssumption, PrintAssumption
<1>1. TypeOK /\ PulledNow /\ line' = line
  BY DEF IInv, Tick, line
<1>2. /\ UNCHANGED <<pc, monitorState, lineState, extiPend, inTransmission, half, out>>
      /\ UNCHANGED <<transmissionComplete, retransmissionTimeoutActive, pulled, seen>>
      /\ UNCHANGED atTimeout
  BY DEF Tick, flagVars
<1>3. since \in Nat /\ since' \in {since, since + 1} /\ (since < SINCE_MAX => since' = since + 1)
  BY <1>1 DEF Tick, TypeOK
<1>4. ASSUME NEW c \in Cards PROVE Card(c)' /\ Heard(c)' /\ Swings(c)'
  <2>1. Card(c) /\ Heard(c) /\ Swings(c)
    BY DEF IInv
  <2>2. /\ pc[c] # "transmitter" /\ ~extiPend[c]
        /\ ~(tim2[c].cen /\ tim2[c].left = 0)
        /\ stk[c].cen => stk[c].cnt < TIMEOUT
        /\ ~stk[c].pend
    <3>1. /\ pc[c] = "off" \/ Listening(c)
          /\ ~extiPend[c] /\ ~Tim2Due(c) /\ ~SysTickDue(c) /\ ~stk[c].pend
      BY DEF Tick
    <3>2. stk[c].cnt \in 0 .. TIMEOUT
      BY <1>1 DEF TypeOK
    <3> QED
      BY <3>1, <3>2 DEF Listening, Tim2Due, SysTickDue
  <2>3. /\ tim2'[c].cen = tim2[c].cen /\ tim2[c].left \in Nat /\ tim2'[c].left \in Nat
        /\ tim2'[c].left <= tim2[c].left
        /\ tim2[c].cen /\ tim2[c].left <= HALF => tim2'[c].left = tim2[c].left - 1
    <3>1. tim2'[c] = CountedDown(tim2[c])
      BY DEF Tick
    <3>2. tim2[c] \in [cen : BOOLEAN, left : 0 .. NEVER] /\ NEVER \in Nat /\ HALF < NEVER
      BY <1>1 DEF TypeOK, NEVER
    <3> QED
      BY <2>2, <3>1, <3>2 DEF CountedDown
  <2>4. /\ stk'[c].cen = stk[c].cen /\ stk'[c].pend = stk[c].pend
        /\ stk[c].cen => stk'[c].cnt = stk[c].cnt + 1
    <3>1. stk'[c] = CountedUp(stk[c])
      BY DEF Tick
    <3>2. stk[c] \in [cen : BOOLEAN, cnt : 0 .. TIMEOUT, pend : BOOLEAN]
      BY <1>1 DEF TypeOK
    <3> QED
      BY <3>1, <3>2 DEF CountedUp
  <2>5. printing[c] \in Nat /\ printing'[c] = IF printing[c] > 0 THEN printing[c] - 1 ELSE 0
    BY <1>1 DEF Tick, TypeOK
  <2>6. BootState(c)' /\ BackoffState(c)' /\ LevelState(c)'
    BY <1>2, <2>1, <2>2, <2>3 DEF Card, BootState, BackoffState, LevelState
  <2>7. TimerState(c)'
    BY <1>2, <2>1, <2>2, <2>3, <2>5 DEF Card, TimerState
  <2>8. Heard(c)'
    <3>1. Timed(c)'
      BY <1>2, <2>1, <2>2, <2>4 DEF Heard, Timed
    <3> QED
      BY <1>1, <1>2, <1>3, <2>1, <2>2, <2>4, <3>1 DEF Heard, Listening, SINCE_MAX
  <2>9. ASSUME tim2[c].cen, tim2[c].left <= HALF, since + tim2[c].left <= Swing(c)
        PROVE  since' + tim2'[c].left <= Swing(c)'
    BY <1>2, <1>3, <2>3, <2>9 DEF Swing
  <2>10. pulled = {c} => tim2[c].cen /\ tim2[c].left <= HALF
    <3>1. SUFFICES ASSUME pulled = {c} PROVE out[c] = 0
      BY <2>1 DEF Card, LevelState
    <3>2. line = 0
      BY <1>1, <3>1, LineNow DEF PulledNow
    <3>3. PICK d \in Cards : out[d] = 0
      BY <1>1, <3>2, LineNow
    <3> QED
      BY <3>1, <3>3 DEF IInv, Card, LevelState
  <2>11. inTransmission[c] /\ half[c] >= 2 => tim2[c].cen /\ tim2[c].left <= HALF
    BY <1>1, <2>1 DEF Card, TimerState, LevelState, TypeOK
  <2>12. Swings(c)'
    BY <1>1, <1>2, <2>1, <2>9, <2>10, <2>11 DEF Swings
  <2> QED
    BY <2>6, <2>7, <2>8, <2>12 DEF Card
<1>5. PulledNow'
  BY <1>1, <1>2 DEF PulledNow
<1> QED
  BY <1>4, <1>5

-----------------------------------------------------------------------------
(* The verdicts. *)

\* A low of a single card, and a high while a card sends, are over before the
\* timeout.
LEMMA SwingIsShort ==
    ASSUME IInv, NEW c \in Cards,
           pulled = {c} \/ (inTransmission[c] /\ half[c] >= 2 /\ line = 1)
    PROVE  since <= 2 * HALF /\ since < TIMEOUT
<1>1. TypeOK /\ Swings(c)
  BY DEF IInv
<1>2. since + tim2[c].left <= Swing(c)
  BY <1>1 DEF Swings
<1>3. Swing(c) <= 2 * HALF /\ Swing(c) \in Nat
  BY TimeAssumption DEF Swing
<1>4. since \in Nat /\ tim2[c].left \in Nat
  BY <1>1, TimeAssumption DEF TypeOK, NEVER
<1> QED
  BY <1>2, <1>3, <1>4, TimeAssumption

\* So a collision while one card alone pulled is the verdict of a SysTick that
\* was pending at the edge.
LEMMA CollisionIsReal == IInv => NoFalseCollision
<1> SUFFICES ASSUME IInv, NEW d \in Cards, monitorState[d] = "COLLISION", ~extiPend[d],
                    ~(Cardinality(pulled) >= 2)
             PROVE  atTimeout /\ since <= 2 * HALF
  BY DEF NoFalseCollision
<1>1. TypeOK /\ Heard(d)
  BY DEF IInv
<1>2. line = 0 /\ (since >= TIMEOUT \/ atTimeout)
  BY <1>1, LineNow DEF Heard
<1>3. PICK e \in Cards : out[e] = 0
  BY <1>1, <1>2, LineNow
<1>4. e \in pulled
  BY <1>3 DEF IInv, Card, LevelState
<1>5. IsFiniteSet(pulled) /\ Cardinality(pulled) \in Nat
  BY <1>1, CardsAssumption, FS_Subset, FS_CardinalityType DEF TypeOK
<1>6. pulled = {e}
  <2>1. Cardinality(pulled) # 0
    BY <1>4, <1>5, FS_EmptySet
  <2>2. Cardinality(pulled) = 1
    BY <1>5, <2>1
  <2>3. PICK x : pulled = {x}
    BY <1>5, <2>2, FS_Singleton
  <2> QED
    BY <1>4, <2>3
<1>7. since <= 2 * HALF /\ since < TIMEOUT
  BY <1>6, SwingIsShort
<1>8. since \in Nat /\ TIMEOUT \in Nat
  BY <1>1, TimeAssumption DEF TypeOK
<1> QED
  BY <1>2, <1>7, <1>8

\* and so is an idle line while a card sends.
LEMMA CarrierIsHeard == IInv => CarrierSensed
<1> SUFFICES ASSUME IInv, NEW c \in Cards, NEW d \in Cards, inTransmission[c], half[c] >= 2,
                    seen[d], ~extiPend[d], monitorState[d] = "IDLE"
             PROVE  line = 1 /\ atTimeout /\ since <= 2 * HALF
  BY DEF CarrierSensed
<1>1. TypeOK /\ Heard(d)
  BY DEF IInv
<1>2. line = 1 /\ (since >= TIMEOUT \/ atTimeout)
  BY <1>1, LineNow DEF Heard
<1>3. since <= 2 * HALF /\ since < TIMEOUT
  BY <1>2, SwingIsShort
<1>4. since \in Nat /\ TIMEOUT \in Nat
  BY <1>1, TimeAssumption DEF TypeOK
<1> QED
  BY <1>2, <1>3, <1>4

-----------------------------------------------------------------------------
\* With every card off and the line let go of, it all holds.
LEMMA Initially == Init => IInv
<1> SUFFICES ASSUME Init PROVE IInv
  OBVIOUS
<1> USE TimeAssumption, PrintAssumption, HalvesAssumption DEF Init
<1>1. TypeOK
  <2>1. stk \in [Cards -> StkType]
    BY SysTicksTyped
  <2>2. tim2 \in [Cards -> [cen : BOOLEAN, left : 0 .. NEVER]]
    BY DEF NEVER
  <2>3. /\ since \in 0 .. SINCE_MAX /\ half \in [Cards -> 0 .. HALVES]
        /\ printing \in [Cards -> 0 .. PRINT]
    BY DEF SINCE_MAX
  <2>4. /\ pc \in [Cards -> {"off", "monitor", "transmitter", "loop", "print", "backoff"}]
        /\ monitorState \in [Cards -> {"IDLE", "BUSY", "COLLISION"}]
        /\ lineState \in [Cards -> {0, 1}] /\ out \in [Cards -> {0, 1}]
        /\ pulled \in SUBSET Cards
    OBVIOUS
  <2>5. /\ extiPend \in [Cards -> BOOLEAN] /\ seen \in [Cards -> BOOLEAN]
        /\ inTransmission \in [Cards -> BOOLEAN]
        /\ transmissionComplete \in [Cards -> BOOLEAN]
        /\ retransmissionTimeoutActive \in [Cards -> BOOLEAN] /\ atTimeout \in BOOLEAN
    OBVIOUS
  <2> QED
    BY <2>1, <2>2, <2>3, <2>4, <2>5, Zenon DEF TypeOK, StkType
<1>2. line = 1 /\ PulledNow
  BY <1>1, LineNow DEF PulledNow
<1>3. ASSUME NEW c \in Cards PROVE Card(c) /\ Heard(c) /\ Swings(c)
  BY <1>2 DEF Card, BootState, TimerState, BackoffState, LevelState, Heard, Timed, SysTickDue,
     Swings
<1> QED
  BY <1>1, <1>2, <1>3 DEF IInv

\* One step per kind of invariant: of the card that moves and of the others.
LEMMA Inductive == IInv /\ [Next]_vars => IInv'
<1> SUFFICES ASSUME IInv, [Next]_vars PROVE IInv'
  OBVIOUS
<1>1. TypeOK /\ TypeOK'
  BY TypeInductive DEF IInv
<1>2. CASE Tick
  BY <1>1, <1>2, TickKeeps DEF IInv
<1>3. ASSUME NEW c \in Cards, CardStep(c) PROVE IInv'
  <2>1. ASSUME NEW d \in Cards PROVE Card(d)'
    <3>1. CASE d = c
      BY <1>1, <1>3, <3>1, CardMain, CardHandlers DEF CardStep
    <3>2. CASE d # c
      BY <1>1, <1>3, <3>2, CardOther
    <3> QED
      BY <3>1, <3>2
  <2>2. ASSUME NEW d \in Cards PROVE Heard(d)'
    BY <1>1, <1>3, HeardStep, HeardSelf
  <2>3. ASSUME NEW d \in Cards PROVE Swings(d)'
    BY <1>1, <1>3, <2>1, SwingsOther, SwingsSelf
  <2>4. PulledNow'
    <3>1. TypeOK /\ PulledNow /\ Pulling
      BY DEF IInv, Card, LevelState, Pulling
    <3> QED
      BY <1>1, <1>3, <3>1, LineEffect DEF PulledNow
  <2> QED
    BY <1>1, <2>1, <2>2, <2>3, <2>4 DEF IInv
<1>4. CASE UNCHANGED vars
  <2>1. line' = line
    BY <1>4 DEF vars, lineVars, line
  <2> QED
    BY <1>1, <1>4, <2>1 DEF IInv, Card, BootState, TimerState, BackoffState, LevelState,
       PulledNow, Heard, Timed, SysTickDue, Listening, Swing, Swings, vars, monVars, flagVars,
       lineVars
<1> QED
  BY <1>2, <1>3, <1>4 DEF Next, CardStep

\* The inductive invariant holds for ever.
LEMMA Invariance == Spec => []IInv
  BY Initially, Inductive, PTL DEF Spec

\* The state of every card stays within its types: no timer counts past its
\* bound, and no output is anything but a level.
THEOREM TypeCorrect == Spec => []TypeOK
<1>1. IInv => TypeOK
  BY DEF IInv
<1> QED
  BY <1>1, Invariance, PTL

\* A collision is reported only if two cards at least pulled the line low since
\* it fell, or by a SysTick pending at that fall and for two half-bits at most,
\* however many cards there are and whenever they boot.
THEOREM CollisionsAreReal == Spec => []NoFalseCollision
  BY CollisionIsReal, Invariance, PTL

\* While a card sends, no other card that heard an edge takes the line for idle
\* once the first bit is under way, unless its SysTick was pending at the last
\* edge, and then for two half-bits at most.
THEOREM CarrierIsSensed == Spec => []CarrierSensed
  BY CarrierIsHeard, Invariance, PTL

\* No two cards that both heard an edge judge the line differently: each judges
\* by the level that the line has.
THEOREM VerdictsDoAgree == Spec => []VerdictsAgree
<1>1. IInv => VerdictsAgree
  BY DEF IInv, Heard, VerdictsAgree
<1> QED
  BY <1>1, Invariance, PTL

\* One step of the cards is at each of them an edge, a verdict of a busy monitor,
\* or nothing: SysTick runs only under a monitor that is busy.
LEMMA MonitorStep ==
    ASSUME IInv, [Next]_vars, NEW d \in Cards
    PROVE  [MonitorOf(d)!MonitorNext]_(monitorState[d])
<1> USE DEF MonitorOf!MonitorNext, MonitorOf!EdgeSeen, MonitorOf!Verdict
<1>1. TypeOK /\ Heard(d) /\ Card(d)
  BY DEF IInv
<1>2. CASE EXTI4_IRQHandler(d)
  BY <1>1, <1>2 DEF EXTI4_IRQHandler, TypeOK
<1>3. CASE SysTick_Handler(d)
  <2>1. stk[d].cen
    BY <1>1, <1>3 DEF SysTick_Handler, SysTickDue, Heard, Timed
  <2>2. monitorState[d] = "BUSY"
    BY <1>1, <2>1 DEF Heard, Timed
  <2> QED
    BY <1>1, <1>3, <2>2 DEF SysTick_Handler, TypeOK
<1>4. CASE MonitorStart(d)
  <2>1. monitorState[d] = "IDLE"
    BY <1>1, <1>4 DEF MonitorStart, Card, BootState, Heard
  <2> QED
    BY <1>1, <1>4, <2>1 DEF MonitorStart, TypeOK
<1>5. ASSUME NEW c \in Cards, c # d, CardStep(c)
      PROVE  monitorState'[d] = monitorState[d]
  BY <1>1, <1>5, OthersKept
<1>6. CASE TransmitterInit(d) \/ ReceiverInit(d) \/ MainStep(d) \/ TIM2_IRQHandler(d)
            \/ Tick \/ UNCHANGED vars
  BY <1>6 DEF TransmitterInit, ReceiverInit, MainStep, Decide, Start, Retry, StartBackoff,
     TIM2_IRQHandler, BackoffOver, Finish, Collide, SendBit, Tick, vars, monVars
<1> QED
  BY <1>2, <1>3, <1>4, <1>5, <1>6 DEF Next, CardStep, Boot, Handlers

\* The monitor of any card on a line with any others is a line monitor,
THEOREM MonitorIsLineMonitor ==
    ASSUME NEW d \in Cards
    PROVE  Spec => MonitorOf(d)!MonitorSpec
<1>1. Init => MonitorOf(d)!MonitorInit
  BY DEF Init, MonitorOf!MonitorInit
<1>2. IInv /\ [Next]_vars => [MonitorOf(d)!MonitorNext]_(monitorState[d])
  BY MonitorStep
<1> QED
  BY <1>1, <1>2, Invariance, PTL DEF Spec, MonitorOf!MonitorSpec

\* and the monitors of all cards are, at every step of the line.
THEOREM MonitorsAreLineMonitors == Spec => MonitorsImplementLineMonitor
<1>1. Init => MonitorsInit
  BY DEF Init, MonitorsInit, MonitorOf!MonitorInit
<1>2. IInv /\ [Next]_vars => [MonitorsNext]_monitorState
  BY MonitorStep DEF MonitorsNext
<1> QED
  BY <1>1, <1>2, Invariance, PTL DEF Spec, MonitorsImplementLineMonitor

-----------------------------------------------------------------------------
(* How long a low lasts, if there are not too many cards. *)

\* A card that booted and never heard an edge has been under a low since then,
\* and comes to its first low only after the printf and two half-bits.
Deaf(c) ==
    pc[c] \notin {"off", "monitor"} /\ ~seen[c] /\ ~extiPend[c] =>
        /\ line = 0 /\ transmissionComplete[c] /\ ~retransmissionTimeoutActive[c]
        /\ pc[c] = "print" => since + printing[c] >= PRINT
        /\ inTransmission[c] =>
               \/ half[c] = 0 /\ since + tim2[c].left >= PRINT + HALF
               \/ half[c] = 1 /\ since + tim2[c].left >= PRINT + 2 * HALF

\* A low lasts as long as the timeout, which stops the cards that send, and one
\* half-bit for each card that pulled.
Holds(c) ==
    out[c] = 0 =>
        /\ since + tim2[c].left <= TIMEOUT + Cardinality(pulled) * HALF
        /\ inTransmission[c] => since + tim2[c].left <= TIMEOUT + HALF

LowInv == \A c \in Cards : Deaf(c) /\ Holds(c)

\* pulled has a size, which grows with it.
LEMMA PulledSize ==
    ASSUME TypeOK, TypeOK'
    PROVE  /\ Cardinality(pulled) \in Nat /\ Cardinality(pulled) <= Cardinality(Cards)
           /\ Cardinality(pulled') \in Nat /\ Cardinality(Cards) \in Nat
           /\ pulled \subseteq pulled' => Cardinality(pulled) <= Cardinality(pulled')
           /\ pulled' # {} => Cardinality(pulled') >= 1
           /\ \A c \in Cards \ pulled :
                  pulled' = pulled \cup {c} => Cardinality(pulled') = Cardinality(pulled) + 1
<1>1. pulled \subseteq Cards /\ pulled' \subseteq Cards
  BY DEF TypeOK
<1>2. IsFiniteSet(pulled) /\ IsFiniteSet(pulled') /\ Cardinality(pulled) <= Cardinality(Cards)
  BY <1>1, CardsAssumption, FS_Subset
<1>3. /\ Cardinality(pulled) \in Nat /\ Cardinality(pulled') \in Nat
      /\ Cardinality(Cards) \in Nat
  BY <1>2, CardsAssumption, FS_CardinalityType
<1>4. pulled \subseteq pulled' => Cardinality(pulled) <= Cardinality(pulled')
  BY <1>2, FS_Subset
<1>5. pulled' # {} => Cardinality(pulled') >= 1
  BY <1>2, <1>3, FS_EmptySet
<1>6. ASSUME NEW c \in Cards \ pulled, pulled' = pulled \cup {c}
      PROVE  Cardinality(pulled') = Cardinality(pulled) + 1
  BY <1>2, <1>6, FS_AddElement
<1> QED
  BY <1>2, <1>3, <1>4, <1>5, <1>6

\* So much for each card, in numbers.
LEMMA HalfBits ==
    ASSUME NEW m \in Nat, NEW n \in Nat
    PROVE  /\ m <= n => m * HALF <= n * HALF
           /\ (n + 1) * HALF = n * HALF + HALF
           /\ m * HALF \in Nat /\ n * HALF \in Nat
<1>1. HALF \in Nat
  BY TimeAssumption
<1>2. m <= n => m * HALF <= n * HALF
  BY <1>1
<1>3. (n + 1) * HALF = n * HALF + HALF
  BY <1>1
<1>4. m * HALF \in Nat /\ n * HALF \in Nat
  BY <1>1
<1> QED
  BY <1>2, <1>3, <1>4

\* A low is over before a card that booted under it and printed sends a low.
LEMMA LowLasts ==
    ASSUME FewCards, IInv, TypeOK', LowInv, line = 0
    PROVE  /\ since <= TIMEOUT + Cardinality(pulled) * HALF
           /\ since < PRINT + 2 * HALF
<1> USE TimeAssumption, PrintAssumption
<1>1. TypeOK
  BY DEF IInv
<1>2. PICK e \in Cards : out[e] = 0
  BY <1>1, LineNow
<1>3. since \in Nat /\ tim2[e].left \in Nat
  BY <1>1 DEF TypeOK, NEVER
<1>4. since + tim2[e].left <= TIMEOUT + Cardinality(pulled) * HALF
  BY <1>2 DEF LowInv, Holds
<1>5. /\ Cardinality(pulled) * HALF <= Cardinality(Cards) * HALF
      /\ Cardinality(pulled) * HALF \in Nat /\ Cardinality(Cards) * HALF \in Nat
  BY <1>1, PulledSize, HalfBits
<1>6. since <= TIMEOUT + Cardinality(pulled) * HALF
  BY <1>3, <1>4, <1>5
<1> QED
  BY <1>3, <1>5, <1>6 DEF FewCards

\* A card that heard nothing stays under the low, or hears the edge,
LEMMA DeafOther ==
    ASSUME IInv, TypeOK', LowInv, NEW c \in Cards, NEW d \in Cards, d # c, CardStep(c)
    PROVE  Deaf(d)'
<1>1. TypeOK /\ PulledNow /\ Pulling /\ Card(d) /\ Deaf(d)
  BY DEF IInv, LowInv, Card, LevelState, Pulling
<1>2. /\ pc'[d] = pc[d] /\ printing'[d] = printing[d] /\ seen'[d] = seen[d]
      /\ inTransmission'[d] = inTransmission[d]
      /\ transmissionComplete'[d] = transmissionComplete[d]
      /\ retransmissionTimeoutActive'[d] = retransmissionTimeoutActive[d]
      /\ half'[d] = half[d] /\ tim2'[d] = tim2[d]
  BY <1>1, OthersKept
<1> SUFFICES ASSUME pc[d] \notin {"off", "monitor"}, ~extiPend'[d]
             PROVE  line' = line /\ since' = since /\ ~extiPend[d]
  BY <1>1, <1>2 DEF Deaf
<1>3. /\ line' # line => (Listening(d) => extiPend'[d])
      /\ line' = line => since' = since /\ extiPend'[d] = extiPend[d]
      /\ out[d] = 0 => line' = 0
  BY <1>1, LineEffect
<1>4. line' = line
  <2>1. CASE Listening(d)
    BY <1>3, <2>1
  <2>2. CASE ~Listening(d)
    <3>1. out[d] = 0
      BY <1>1, <2>2 DEF Listening, TypeOK, Card, BootState
    <3>2. line = 0
      BY <1>1, <3>1, LineNow
    <3> QED
      BY <1>3, <3>1, <3>2
  <2> QED
    BY <2>1, <2>2
<1> QED
  BY <1>3, <1>4

\* and does not come to the second half of its first bit.
LEMMA DeafSelf ==
    ASSUME FewCards, IInv, TypeOK', LowInv, NEW c \in Cards, CardStep(c)
    PROVE  Deaf(c)'
<1> USE TimeAssumption, PrintAssumption, HalvesAssumption
<1>1. TypeOK /\ PulledNow /\ Pulling /\ Card(c) /\ Deaf(c) /\ Heard(c)
  BY DEF IInv, LowInv, Card, LevelState, Pulling
<1>2. since \in Nat /\ printing[c] \in Nat /\ tim2[c].left \in Nat /\ half[c] \in Nat
  BY <1>1 DEF TypeOK, NEVER
<1> SUFFICES ASSUME pc'[c] \notin {"off", "monitor"}, ~seen'[c], ~extiPend'[c]
             PROVE  Deaf(c)'
  BY DEF Deaf
<1>3. CASE MonitorStart(c) \/ EXTI4_IRQHandler(c) \/ SysTick_Handler(c)
  BY <1>1, <1>3 DEF MonitorStart, EXTI4_IRQHandler, SysTick_Handler, SysTickDue, Heard, Timed,
     TypeOK
<1>4. CASE TransmitterInit(c)
  <2>1. /\ pc[c] = "monitor" /\ pc'[c] = "transmitter" /\ out'[c] = 0
        /\ UNCHANGED flagVars
    BY <1>1, <1>4 DEF TransmitterInit, enable_output_mode, Drive, TypeOK
  <2>2. line' = 0
    BY <2>1, LineThen
  <2>3. /\ ~inTransmission[c] /\ transmissionComplete[c] /\ ~retransmissionTimeoutActive[c]
    BY <1>1, <2>1 DEF Card, BootState, BackoffState
  <2> QED
    BY <2>1, <2>2, <2>3 DEF Deaf, flagVars
<1>5. ASSUME Boot(c) \/ MainStep(c) \/ TIM2_IRQHandler(c), pc[c] \notin {"off", "monitor"}
      PROVE  /\ line = 0 /\ line' = 0 /\ since' = since /\ transmissionComplete[c]
             /\ ~retransmissionTimeoutActive[c] /\ ~extiPend[c] /\ monitorState[c] = "IDLE"
             /\ pc[c] = "print" => since + printing[c] >= PRINT
             /\ inTransmission[c] =>
                    \/ half[c] = 0 /\ since + tim2[c].left >= PRINT + HALF
                    \/ half[c] = 1 /\ since + tim2[c].left >= PRINT + 2 * HALF
  <2>1. /\ seen' = seen
        /\ line' = line => since' = since /\ extiPend'[c] = extiPend[c]
    BY <1>5, MonitorKept
  <2>2. line' = line
    <3>1. CASE Listening(c)
      BY <1>1, <3>1, LineEffect
    <3>2. CASE ~Listening(c)
      <4>1. pc[c] = "transmitter"
        BY <1>1, <1>5, <3>2 DEF Listening, TypeOK
      <4>2. ReceiverInit(c)
        <5>1. ~Tim2Due(c)
          BY <1>1, <4>1 DEF Tim2Due, Card, BootState
        <5> QED
          BY <1>5, <4>1, <5>1 DEF Boot, MonitorStart, TransmitterInit, MainStep, Decide, Start,
             Retry, StartBackoff, TIM2_IRQHandler, BackoffOver, Finish, Collide, SendBit,
             Tim2Served
      <4> QED
        BY <4>2 DEF ReceiverInit, lineVars, line
    <3> QED
      BY <3>1, <3>2
  <2> QED
    BY <1>1, <1>5, <2>1, <2>2 DEF Deaf, Heard
<1>6. CASE ReceiverInit(c)
  BY <1>1, <1>5, <1>6 DEF Boot, ReceiverInit, Deaf, TypeOK, flagVars, Card, BootState
<1>7. CASE Decide(c)
  <2>1. /\ pc[c] = "loop" /\ pc'[c] = "print" /\ printing'[c] = PRINT /\ ~inTransmission[c]
        /\ UNCHANGED flagVars
    BY <1>1, <1>7 DEF Decide, printf, TypeOK
  <2> QED
    BY <1>2, <1>5, <1>7, <2>1 DEF MainStep, Deaf, flagVars
<1>8. CASE Start(c)
  <2>1. /\ pc[c] = "print" /\ printing[c] = 0 /\ pc'[c] = "loop"
        /\ half'[c] = 0 /\ tim2'[c].left = HALF
        /\ UNCHANGED <<transmissionComplete, retransmissionTimeoutActive>>
    BY <1>1, <1>8 DEF Start, Running, TypeOK
  <2> QED
    BY <1>2, <1>5, <1>8, <2>1 DEF MainStep, Deaf
<1>9. CASE Retry(c) \/ StartBackoff(c) \/ BackoffOver(c) \/ Collide(c)
  <2>1. CASE Retry(c)
    BY <1>5, <2>1 DEF MainStep, Retry
  <2>2. CASE StartBackoff(c)
    BY <1>1, <1>5, <2>2 DEF MainStep, StartBackoff, Card, BackoffState
  <2>3. CASE BackoffOver(c) \/ Collide(c)
    <3>1. pc[c] \notin {"off", "monitor"}
      BY <2>3 DEF BackoffOver, Collide
    <3> QED
      BY <1>5, <2>3, <3>1 DEF TIM2_IRQHandler, BackoffOver, Collide, Collided
  <2> QED
    BY <1>9, <2>1, <2>2, <2>3
<1>10. CASE Finish(c)
  <2>1. /\ pc' = pc /\ printing' = printing /\ inTransmission'[c] = FALSE
        /\ transmissionComplete'[c] = TRUE
        /\ UNCHANGED retransmissionTimeoutActive
    BY <1>1, <1>10 DEF Finish, StopTransmission, TypeOK
  <2> QED
    BY <1>5, <1>10, <2>1 DEF TIM2_IRQHandler, Deaf
<1>11. CASE SendBit(c)
  <2>1. /\ tim2[c].cen /\ tim2[c].left = 0 /\ half[c] # HALVES
        /\ half'[c] = half[c] + 1 /\ tim2'[c].left = HALF
        /\ UNCHANGED <<pc, printing, flagVars>>
    BY <1>1, <1>11 DEF SendBit, Running, TypeOK, AtEnd, Tim2Served, Tim2Due
  <2>2. inTransmission[c] /\ pc[c] = "loop"
    BY <1>1, <2>1 DEF Card, TimerState
  <2>3. line = 0
    BY <1>5, <1>11, <2>2 DEF TIM2_IRQHandler
  <2>4. half[c] = 0
    <3>1. since < PRINT + 2 * HALF
      BY <2>3, LowLasts
    <3> QED
      BY <1>2, <1>5, <1>11, <2>1, <2>2, <3>1 DEF TIM2_IRQHandler
  <2> QED
    BY <1>2, <1>5, <1>11, <2>1, <2>2, <2>4 DEF TIM2_IRQHandler, Deaf, flagVars
<1> QED
  BY <1>3, <1>4, <1>6, <1>7, <1>8, <1>9, <1>10, <1>11 DEF CardStep, Boot, MainStep, Handlers,
     TIM2_IRQHandler

\* A low that another card holds goes on counting as before.
LEMMA HoldsOther ==
    ASSUME IInv, TypeOK', LowInv, NEW c \in Cards, NEW d \in Cards, d # c, CardStep(c)
    PROVE  Holds(d)'
<1>1. TypeOK /\ PulledNow /\ Pulling /\ Holds(d)
  BY DEF IInv, LowInv, Card, LevelState, Pulling
<1>2. /\ inTransmission'[d] = inTransmission[d] /\ tim2'[d] = tim2[d] /\ out'[d] = out[d]
  BY <1>1, OthersKept
<1> SUFFICES ASSUME out[d] = 0
             PROVE  since' = since /\ Cardinality(pulled) * HALF <= Cardinality(pulled') * HALF
  <2>1. /\ since \in Nat /\ since' \in Nat /\ tim2[d].left \in Nat
        /\ Cardinality(pulled) * HALF \in Nat /\ Cardinality(pulled') * HALF \in Nat
        /\ TIMEOUT \in Nat /\ HALF \in Nat
    BY <1>1, PulledSize, HalfBits, TimeAssumption DEF TypeOK, NEVER
  <2> QED
    BY <1>1, <1>2, <2>1 DEF Holds
<1>3. line = 0 /\ line' = 0
  BY <1>1, LineNow, LineEffect
<1>4. since' = since /\ pulled \subseteq pulled'
  BY <1>1, <1>3, LineEffect
<1> QED
  BY <1>1, <1>4, PulledSize, HalfBits

\* A card pulls the line low as it boots, one more that pulled, or to send, and
\* then it has just heard the edge or is stopped by the verdict.
LEMMA HoldsSelf ==
    ASSUME FewCards, IInv, TypeOK', LowInv, NEW c \in Cards, CardStep(c), Card(c)'
    PROVE  Holds(c)'
<1> USE TimeAssumption, PrintAssumption, HalvesAssumption
<1>1. TypeOK /\ PulledNow /\ Pulling /\ Card(c) /\ Deaf(c) /\ Heard(c) /\ Holds(c)
  BY DEF IInv, LowInv, Card, LevelState, Pulling
<1>2. since \in Nat /\ since' \in Nat /\ half[c] \in Nat /\ HALF \in Nat /\ TIMEOUT \in Nat
  BY <1>1 DEF TypeOK
<1> SUFFICES ASSUME out'[c] = 0 PROVE Holds(c)'
  BY DEF Holds
<1>3. /\ line \in {0, 1} /\ line' = 0 /\ c \in pulled'
      /\ line = 1 => since' = 0 /\ pulled = {}
      /\ line = 0 => since' = since
      /\ pulled \subseteq pulled' /\ pulled' \subseteq pulled \cup {c}
  BY <1>1, LineNow, LineThen, LineEffect DEF Card, LevelState, PulledNow
\* c itself counts for one half-bit.
<1>4. HALF <= Cardinality(pulled') * HALF /\ Cardinality(pulled') * HALF \in Nat
  <2>1. Cardinality(pulled') \in Nat /\ 1 <= Cardinality(pulled') /\ 1 \in Nat
    BY <1>1, <1>3, PulledSize
  <2>2. 1 * HALF <= Cardinality(pulled') * HALF /\ Cardinality(pulled') * HALF \in Nat
    BY <2>1, HalfBits
  <2> QED
    BY <1>2, <2>2
<1>5. CASE MonitorStart(c) \/ ReceiverInit(c) \/ Decide(c) \/ EXTI4_IRQHandler(c)
            \/ SysTick_Handler(c)
  <2>1. UNCHANGED <<out, since, pulled, tim2, inTransmission>>
    BY <1>5 DEF MonitorStart, ReceiverInit, Decide, EXTI4_IRQHandler, SysTick_Handler,
       lineVars, flagVars
  <2> QED
    BY <1>1, <2>1 DEF Holds
<1>6. CASE TransmitterInit(c)
  <2>1. /\ pc[c] = "monitor" /\ tim2'[c].left = HALF
        /\ UNCHANGED inTransmission
    BY <1>1, <1>6 DEF TransmitterInit, Running, TypeOK, flagVars
  <2>2. c \notin pulled /\ ~inTransmission[c]
    BY <1>1, <2>1 DEF Card, BootState
  <2>3. since' + HALF <= TIMEOUT + Cardinality(pulled') * HALF
    <3>1. CASE line = 1
      BY <1>2, <1>3, <1>4, <3>1
    <3>2. CASE line = 0
      <4>1. since <= TIMEOUT + Cardinality(pulled) * HALF
        BY <3>2, LowLasts
      <4>2. /\ Cardinality(pulled) \in Nat
            /\ Cardinality(pulled') = Cardinality(pulled) + 1
        <5>1. pulled' = pulled \cup {c}
          BY <1>3
        <5> QED
          BY <1>1, <2>2, <5>1, PulledSize
      <4>3. /\ Cardinality(pulled') * HALF = Cardinality(pulled) * HALF + HALF
            /\ Cardinality(pulled) * HALF \in Nat
        BY <4>2, HalfBits
      <4> QED
        BY <1>2, <1>3, <3>2, <4>1, <4>3
    <3> QED
      BY <1>3, <3>1, <3>2
  <2> QED
    BY <2>1, <2>2, <2>3 DEF Holds
<1>7. CASE Start(c) \/ Retry(c) \/ StartBackoff(c) \/ BackoffOver(c) \/ Finish(c) \/ Collide(c)
  BY <1>7, LetsGo
<1>8. CASE SendBit(c)
  <2>1. PICK level \in LevelsOf(c) : Drive(c, level)
    BY <1>8 DEF SendBit
  <2>2. /\ tim2[c].cen /\ tim2[c].left = 0 /\ half[c] # HALVES
        /\ tim2'[c].left = HALF /\ ~extiPend[c] /\ monitorState[c] # "COLLISION"
        /\ UNCHANGED <<pc, flagVars>>
    BY <1>1, <1>8 DEF SendBit, Running, TypeOK, AtEnd, Tim2Served, Tim2Due, Collided
  <2>3. inTransmission[c] /\ pc[c] = "loop"
    BY <1>1, <2>2 DEF Card, TimerState
  <2>4. half[c] # 0
    <3>1. out'[c] = level
      BY <1>1, <2>1 DEF Drive, TypeOK
    <3> QED
      BY <2>1, <3>1 DEF LevelsOf
  <2>5. since' <= TIMEOUT
    <3>1. CASE line = 1
      BY <1>2, <1>3, <3>1
    <3>2. CASE line = 0 /\ seen[c]
      <4>1. stk[c].cnt = since /\ stk[c].cnt <= TIMEOUT
        BY <1>1, <2>2, <3>2 DEF Heard, TypeOK
      <4> QED
        BY <1>3, <3>2, <4>1
    <3>3. CASE line = 0 /\ ~seen[c]
      <4>1. half[c] = 1 /\ since >= PRINT + 2 * HALF
        BY <1>1, <1>2, <2>2, <2>3, <2>4, <3>3 DEF Deaf
      <4>2. since < PRINT + 2 * HALF
        BY <3>3, LowLasts
      <4> QED
        BY <1>2, <4>1, <4>2
    <3> QED
      BY <1>3, <3>1, <3>2, <3>3
  <2>6. /\ since' + HALF <= TIMEOUT + Cardinality(pulled') * HALF
        /\ since' + HALF <= TIMEOUT + HALF
    BY <1>2, <1>4, <2>5
  <2> QED
    BY <2>2, <2>6 DEF Holds
<1> QED
  BY <1>5, <1>6, <1>7, <1>8 DEF CardStep, Boot, MainStep, Handlers, TIM2_IRQHandler

\* Time keeps the account.
LEMMA TickLow ==
    ASSUME IInv, TypeOK', LowInv, Tick
    PROVE  LowInv'
<1> USE TimeAssumption, PrintAssumption
<1>1. TypeOK /\ line' = line
  BY DEF IInv, Tick, line
<1>2. /\ UNCHANGED <<pc, extiPend, inTransmission, half, out, transmissionComplete>>
      /\ UNCHANGED <<retransmissionTimeoutActive, pulled, seen>>
  BY DEF Tick, flagVars
<1> SUFFICES ASSUME NEW c \in Cards PROVE Deaf(c)' /\ Holds(c)'
  BY DEF LowInv
<1>3. Deaf(c) /\ Holds(c) /\ Card(c)
  BY DEF LowInv, IInv
<1>4. /\ since \in Nat /\ since' \in Nat /\ since' <= since + 1
      /\ since' = since + 1 \/ since' >= PRINT + 2 * HALF
  BY <1>1 DEF Tick, TypeOK, SINCE_MAX
<1>5. /\ tim2[c].left \in Nat /\ tim2'[c].left \in Nat
      /\ tim2'[c].left >= tim2[c].left - 1
      /\ tim2[c].cen /\ tim2[c].left <= HALF => tim2'[c].left = tim2[c].left - 1
  <2>1. tim2'[c] = CountedDown(tim2[c]) /\ ~(tim2[c].cen /\ tim2[c].left = 0)
    BY DEF Tick, Tim2Due
  <2>2. tim2[c] \in [cen : BOOLEAN, left : 0 .. NEVER] /\ NEVER \in Nat /\ HALF < NEVER
    BY <1>1 DEF TypeOK, NEVER
  <2> QED
    BY <2>1, <2>2 DEF CountedDown
<1>6. printing[c] \in Nat /\ printing'[c] \in Nat /\ printing'[c] >= printing[c] - 1
  BY <1>1 DEF Tick, TypeOK
<1>7. Deaf(c)'
  BY <1>1, <1>2, <1>3, <1>4, <1>5, <1>6 DEF Deaf
<1>8. Holds(c)'
  <2>1. out[c] = 0 => tim2[c].cen /\ tim2[c].left <= HALF
    BY <1>3 DEF Card, LevelState
  <2>2. /\ Cardinality(pulled) * HALF \in Nat
        /\ Cardinality(pulled') = Cardinality(pulled)
    BY <1>1, <1>2, PulledSize, HalfBits
  <2> QED
    BY <1>2, <1>3, <1>4, <1>5, <2>1, <2>2 DEF Holds
<1> QED
  BY <1>7, <1>8

\* So every step keeps it.
LEMMA LowInductive ==
    ASSUME FewCards
    PROVE  IInv /\ LowInv /\ [Next]_vars => LowInv'
<1> SUFFICES ASSUME IInv, LowInv, [Next]_vars PROVE LowInv'
  OBVIOUS
<1>1. IInv' /\ TypeOK /\ TypeOK'
  BY Inductive DEF IInv
<1>2. CASE Tick
  BY <1>1, <1>2, TickLow
<1>3. ASSUME NEW c \in Cards, CardStep(c) PROVE LowInv'
  <2>1. ASSUME NEW d \in Cards PROVE Deaf(d)' /\ Holds(d)'
    <3>1. CASE d = c
      <4>1. Card(c)'
        BY <1>1 DEF IInv
      <4> QED
        BY <1>1, <1>3, <3>1, <4>1, DeafSelf, HoldsSelf
    <3>2. CASE d # c
      BY <1>1, <1>3, <3>2, DeafOther, HoldsOther
    <3> QED
      BY <3>1, <3>2
  <2> QED
    BY <2>1 DEF LowInv
<1>4. CASE UNCHANGED vars
  <2>1. line' = line
    BY <1>4 DEF vars, lineVars, line
  <2> QED
    BY <1>4, <2>1 DEF LowInv, Deaf, Holds, vars, monVars, flagVars, lineVars
<1> QED
  BY <1>2, <1>3, <1>4 DEF Next, CardStep

\* With no more cards than the time of a printf allows, none of them that sends
\* holds the line low for longer than the timeout and one half-bit.
THEOREM LowsAreShort ==
    ASSUME FewCards
    PROVE  Spec => []LowIsShort
<1>1. Init => LowInv
  BY DEF Init, LowInv, Deaf, Holds
<1>2. IInv /\ LowInv => LowIsShort
  <2> SUFFICES ASSUME IInv, LowInv, NEW c \in Cards, inTransmission[c], out[c] = 0
               PROVE  since <= TIMEOUT + HALF
    BY DEF LowIsShort
  <2>1. since + tim2[c].left <= TIMEOUT + HALF
    BY DEF LowInv, Holds
  <2>2. since \in Nat /\ tim2[c].left \in Nat
    BY TimeAssumption DEF IInv, TypeOK, NEVER
  <2> QED
    BY <2>1, <2>2, TimeAssumption
<1> QED
  BY <1>1, <1>2, Invariance, LowInductive, PTL DEF Spec
=============================================================================
