# Verification of NetworkCard

NetworkCard is the firmware of a small network card on an STM32F446: several
cards share one open line, send Manchester-coded frames on it at 1000 bit/s,
watch it for collisions and repeat a message that collided after a random
backoff. This directory holds TLA+ models of it, the TLC runs that check them
and proofs that TLAPS checks. Paths below are relative to `src/NetworkCard/`.

## 1. Inventory

Everything runs on one processor: an endless main loop (`src/main.c`) that
alternates two polling routines, and four interrupt handlers. No priority is
ever set for them that takes effect (`NVIC_IPR2 |= 0xF0 << 24`,
`src/receiver.c:212`, addresses another interrupt), so all have the same
priority, never nest, and when several are pending the lower exception number
goes first: SysTick, EXTI4, TIM2, TIM4. Only the main loop is interleaved.

| Component | State | Operations | Talks to |
|---|---|---|---|
| Transmitter, `src/transmitter.c` | `gotMessage`, `dataBuf`, `transBuf`, cursors `currByte`/`currBit`, flags `inTransmission`, `transmissionComplete`, `retransmissionTimeoutActive`, TIM2, PC9, PC5 | main routine (collect a line, frame it, start, retry), TIM2 interrupt (send a half-bit, finish, collide, end the backoff) | reads the monitor's state; UART for input; drives the line |
| Line monitor, `src/monitor.c` | `monitorState`, `lineState`, SysTick | edge handler (called by EXTI4), SysTick timeout | reads PC4; `monitor_getState()` for the others |
| Receiver, `src/receiver.c` | `receiveBuf`, `dataByte`, `currBit`, `currentlyReceiving`, `sample`, TIM4 | EXTI4 (sample, put a byte), TIM4 (half-bit timeout), main routine (reset when idle, drop on collision, assemble, parse, print) | monitor's state, ring buffer, packet parser |
| Ring buffer, `src/ringbuffer.c` | `put`, `get`, slots | put, get, hasElement (peek, hasSpace, numElements are never called) | used by both |
| Packet format, `src/packet_header.c` | CRC table | ph_create, ph_parse, CRC-8 | transmitter, receiver |
| Timer driver, `src/tim.c` | registers of TIM2, TIM4 | one register write each | transmitter, receiver |
| UART and stubs, `src/uart_driver.c`, `src/syscalls.c` | none | polling getch/putch, printf | transmitter, receiver |
| GPIO, LED, delay, heap stub, startup | none of their own | register writes | everything |

What makes each one correct, and what is hard about it:

* **Transmitter.** The main routine and the TIM2 interrupt share the frame, two
  cursors and three flags without a lock. It is right only because the main
  routine leaves its head only while TIM2 stands still. TIM2 serves two purposes,
  half-bits and backoffs. A message must survive collisions and be repeated as a
  whole; the card must let go of the line whenever it is not sending.
* **Monitor.** Edges and the timeout race: an edge can come between clearing the
  interrupt flag and reading the line, and the timeout can expire while the edge
  handler runs. SysTick stops itself after a verdict, so a BUSY without a timer
  would last for ever.
* **Ring buffer.** Reader and interrupt share it, `put` never asks for space, and
  a full buffer looks empty.
* **Receiver.** Check-then-act on the monitor's state against EXTI4, timing of the
  half-bit timeout, assembly of messages while new ones arrive, main loop blocked
  in `usart2_getch`.
* **Packets.** Length and checksum at their limits, damaged frames, frames that
  arrive behind the rest of another one, and statics (`msgBuf`, both `pkt`) that
  keep what earlier messages left.
* **Line.** Nobody owns it. A card tells a collision from a low level that lasts
  longer than one frame alone can hold it, so everything rests on the lows of several
  cards, at any offset of time, and on cards that boot in the middle of it.

The full list of hazards, each with its line and the properties that watch it, is
in `PROJECT.json`.

## 2. Modules

| Module | What it models |
|---|---|
| `RingBuffer` | `ringbuffer.c` as operators on a value; its owners are other modules |
| `LossyQueue` | abstract: a queue that may lose everything when it is filled up |
| `RingBufferQueue` | one buffer between an interrupt that puts and a loop whose get is interrupted; refines `LossyQueue` |
| `LineMonitor` | abstract: what `monitor_getState()` promises |
| `Monitor` | `monitor.c` with the edge handler in three steps, line, SysTick; refines `LineMonitor` |
| `Transmitter` | `transmitter.c`, the part of `tim.c` it uses; its environment is `LineMonitor` |
| `Receiver` | `receiver.c` and the timeout of `monitor.c` against a line that carries frames, collisions and noise, in time |
| `PacketHeader` | `packet_header.c` and the line code, as operators over real bytes |
| `Packets` | packets from the sender's `ph_create` to the receiver's printf, whole, damaged or cut |
| `Bus` | several cards in time on one line: boot (`main.c`), monitor, transmitter |
| `MC...` | model values and small sets for TLC |
| `...Proofs` | theorems about the module of that name |

**Transmitter.** Variables have the names of the code; `pc` says where the main
routine stands. `AwaitKey`, `EndOfLine`/`KeepChar`, `NotNow`/`BuildFrame`,
`FillByte`, `ClearMessage`, `Start` are lines 76-134, `Retry`,
`SetRetransmission`, `SetBackoff`, `Start` lines 137-140. Between any two of them
an interrupt may fall; code that touches only what the interrupt does not share is
one step. The four paths through the TIM2 handler are the actions `BackoffOver`,
`Finish`, `Collide` and `SendBit`; each is the whole handler, as nothing
interrupts it. `tim2` holds the registers that matter: counter enable, prescaler
(as "cpu" or "ms" scale, `psc` as written and `scale` as in effect), period, update
flag. `Tim2Update` is the hardware, after the timer's reference manual: a counter
whose ARR is 0 does not count, and PSC is buffered until the next update event.
`dataCur` is the length of `dataBuf`. An element of `transBuf` is a pair of a byte
and its half of the Manchester symbol, and the level of PC9 is any; no property
here is about them. `onWire` and `booted` are history variables. `booted` also
guards `FillByte`: `initTransmissionTimer` leaves TIM2 running, its first
interrupt comes after half a millisecond and finds nothing to send, and the
`printf` before the first `transmitByte` takes longer than that (19200 baud).

**Monitor.** `EXTI4_Clear`, `EdgeResetTimer` and `EdgeReadLine` are the steps of
the handler that race with the line (`LineEdge`) and the SysTick (`Tick`).
`extiPend` and `stk.pend` are the pending bits; `resetTimer` restarts the SysTick
but does not clear its pending bit. Handlers take microseconds, a tick of the model is
a fraction of the 1110 us timeout, so pending interrupts are served before the
next tick and at most one tick falls into a handler. What EXTI4 does after
`monitor_Edge_Intrr` concerns the receiver only. `quiet` and `seen` are history.

**RingBufferQueue.** `Read` and `Advance` are the two halves of `get`; `Test` is
the reader's `hasElement`; `Put` the interrupt's. The refinement mapping
`Contents` counts from the slot the reader takes next, and reads equal indices as
full for a reader that already saw an element. The reader's limit on the message
length and its reset of the buffer after a collision belong to the receiver.

**Receiver.** Time advances by half-bits of the sender (`HalfBit`): TIM4, 507 us, is due
just after one half-bit, SysTick, 1110 us, after two without an edge. Edges come at the
boundaries and are served before anything else. `LineStep` is the rest of the bus: a
card that finds the line idle sends a frame of Manchester-coded bits, or several cards
interfere and the level is anything. The main routine's reset, its drop of a collided
message and the taking out of bytes are single writes that interrupts may separate. It
stays long only in the transmitter's routine ("top") and where it prints; any other
section lets one half-bit pass (`late`). The slots of `receiveBuf` are indistinct here;
what a put stores is `dataByte`. `intact` and `samples` are history: whether the first
edge of the frame found the receiver ready (`sample` set, `currBit` 0, no reset or drop
under way), and what was sampled since.

At boot the line is high or low, as the card's own output may still be low when
`receiver_init` returns.

**PacketHeader.** Pure operators, named as the functions. Arrays are functions from
0. The static packet that a call fills is a parameter, so that what an early return
leaves unwritten is kept: `ph_parse` returns its verdict and the packet it leaves.
`compute_crc8_byte` is the shift register, `crc8_lookuptable` what `ph_init` fills,
`Levels` the half-bits that TIM2 sends for some bytes, `DataBytes` and `RestOf` what
eight samples at a time become. The reference is at the end of the module: `Remainder`,
a division of polynomials over GF(2), which has neither a table nor a register.

**Packets.** `Receiver` shows which bits are sampled; here a frame arrives in one step,
`ArriveIntact`, with one byte wrong (`ArriveDamaged`) or ended by a collision after some
bits (`ArriveCut`), and the question is what the bytes become. `collided` says that the
line is held low and the monitor reports it; with `LetGo` it goes high again, and that
edge may be sampled as one bit more, as a card that heard no edge for 1110 us has
`sample` set unless the last edge was the middle of a bit. `Reset`, `Drop` and
`Show` are the three parts of the receiver's main routine; each may come or stay away
between any two arrivals, as the loop may be held up in the transmitter. `Reset` asks for
the idle line only, as line 58 does: after a collision it clears the bits that `Drop`
and the end of the collision left. So frames come
onto an empty buffer or behind another message, and onto the bits of an unfinished byte
or not. `Show` has what the code does after an invalid packet too. At boot a bit may
have been sampled already: the card's own output goes high, which is an edge. `ready`
and `first` are history: whether the main routine saw the idle line since the last
arrival, and the frame that `receiveBuf` begins with, if it arrived ready, on an empty
buffer and nothing but the end of its own collision has come since.

**Bus.** Variables are functions of the card. `Boot` has the three init functions in
`main`'s order: the monitor calls the line idle without a look, PC9 becomes an output
and pulls the line low, only then edges are heard. Time (`Tick`) is in fractions of a
half-bit, 125 us in the run, so that cards may send out of step. Two things that fall
into one tick may come in either order, of one card or of two; only what is pending in a
processor goes by exception number, SysTick, EXTI4, TIM2. So the timeout of an edge may
end before the next edge, after it, or while EXTI4 runs: `resetTimer` does not clear a
pending SysTick (`Restarted`), which then stops the restarted timer and judges by the
level just read, as in `Monitor` and finding 5. TIMEOUT is 1110 us rounded up to ticks, so
that the tick in which it ends has all three cases. The main routine's steps are those at which time may
pass: `Decide` to `Start` prints the packet, `Retry` to `StartBackoff` the backoff.
What the card sends is any Manchester code whose first bit is 0. The backoff is as
finding 4 says: a tick at most, or for ever if it is 0, and the half-bit after it is long.
`pulled`, `since`, `atTimeout` and `seen` are history; `atTimeout` says that the last edge
of the line came in the tick in which the timeout of the edge before it ended. The receiver is left out because it drives
nothing; clocks run alike. `since` stops at SINCE_MAX, past everything it is compared
with.

## 3. Runs

| Run | Configuration | What it shows |
|---|---|---|
| `transmitter` | lines of up to 2 of 3 characters (one is NUL), both modes, frames of up to 9 bytes of 2 bits an element, 20 slots, 2 backoffs | all properties of `Transmitter` |
| `monitor` | timeout of 4 ticks | all properties of `Monitor` |
| `ring_queue` | 4 slots, 3 bytes | indices stay in range, refinement of `LossyQueue` |
| `receiver` | bytes of 2 bits, 3 frames of 1 or 2 bytes, 4 slots, messages of up to 2 bytes | all properties of `Receiver` |
| `reset_missed` | the same | see 6 |
| `packets` | an array of 3 characters, 2 texts, 19 bytes in `receiveBuf`, 1 damaged or cut frame | all properties of `Packets` |
| `bus` | 2 cards, half-bit of 4 ticks, frames of 3 bits | all properties of `Bus` |
| `retry_not_idle`, `pending_not_sent`, `backoff_zero`, `backoff_scale`, `early_verdict` | as above | a comment the code does not keep, see 6 |

Why the bounds are enough. Two characters give the empty line, a line that starts
with NUL, one that ends with it, a full line and characters past the end; 20 slots
hold the longest frame with none to spare for another, so an unreset index wraps.
Two bits an element give a first, a last and a carry into the next element. The
code's sizes (254 characters, 8 bits, 1028 slots) are covered by the theorems,
which hold for all. A timeout of 4 leaves room for an edge at the beginning, in
the middle and at the end of a period, and for the tick in a handler. With 4 slots
the reader can be overtaken by one and by more puts than the buffer holds, and wrap
happens at every position. The receiver's frames have every pair of neighbouring
bits, inside a byte and across two, and end with either bit; two frames fill the
buffer while the main loop is away. In these runs no state constraint and no bound on
the number of messages, collisions, edges or puts is used.

`packets` bounds the bytes in `receiveBuf` (MAX_BYTES), just enough for a frame to follow
the rest of another one, and the frames that go wrong (MAX_FAULTS, 1); whole frames are
unlimited. Bytes have their 8 bits. One text fills the array as far as a line of the
user can. It has its own checksum as its last character, so a frame that loses its
checksum to a collision still ends with the right byte: the case in which only the test
of the length helps. One cut takes away exactly that checksum, the other only its last
bit, which is 1: the edge with which the line is let go supplies it, and the packet is
accepted. The other text is a NUL, which the transmitter takes inside a line. Its
checksum is 0, that of no text, so with its length damaged to 0 it is accepted. These two
are the cases `AcceptedWasSent` makes exceptions for. The theorems hold for every size of a message up to the
code's 255, all texts, masks and cuts, and any MAX_BYTES and MAX_FAULTS.

`bus`: the half-bit of 500 us has 4 ticks, so the 1110 us are 8 ticks and a bit, and end
within the ninth; two cards meet at every offset of a quarter of a half-bit. A printf takes 16 ticks or any
number more; in the code it is at least 12.5 ms, 100 ticks, but only that it is longer
than the half-bit of the boot (`PrintAssumption`) and, for `LowIsShort`, than the boots of
all cards (`FewCards`) matters, and the shorter bound has more behaviours. LONG, in the
code 8 s, is 9 ticks, as long as the timeout of the monitors, so that a verdict falls
into it; the card drives nothing meanwhile. Frames of 3 bits give a first, an inner and
a last bit. The run has 176852 states. Three cards were tried
on a coarse instance that is not in `PROJECT.json` (half-bit 1 tick, TIMEOUT 3, LONG 3,
2 half-bits, PRINT 5): all properties hold, the liveness property included, in 241024
states that include collisions. With frames of 4 half-bits the instance is too large to
finish; for more cards the invariants rest on the theorems.

All runs check for deadlock. Every property has a mutant in `PROJECT.json`, a
plausible mistake in one definition (the operators marked "Fault" in the modules),
that breaks it under the same configuration.

**Fairness.** Transmitter: weak fairness of the main loop's own steps, of the TIM2
handler and of the timer's update. The processor does execute and the timer does count;
interrupts leave time for the main loop. No fairness for the user's keys: nobody
promises to type. None for the line: a verdict may never come for `Transmitter`.
Monitor: weak fairness of the handlers and of time, none of edges. Receiver: weak
fairness of the handlers, of time and of the main routine's own steps; none of leaving
the transmitter's routine, which may wait for a key for ever (`RestIsDelivered` and
`RecoversOnQuietLine` have that as a premise). Bus: weak fairness of time, of the
handlers of each card and of a boot that has begun; none of the main routines, which may
wait for a key. `Packets` has only safety properties.

## 4. Properties

Safety of the transmitter: the timer runs exactly while the flag says so
(`TimerRunsIffSending`) and is programmed for the mode of the handler
(`TimerFitsMode`); `transBuf` is the frame (`BufferHoldsFrame`) and does not change
while it may be sent or repeated (`FrameStable`); a transmission reported complete
has driven every bit of the frame in its last attempt (`CompleteMeansWholeFrame`);
a stored line is never forgotten (`StoredLineIsFramed`); a card that is not sending
leaves the line high (`LineReleased`); the sync output frames the attempt
(`SyncMarksAttempt`). Liveness: a transmission or backoff ends
(`TransmissionEnds`), and a message that collided is tried again unless the line
never settles (`RetransmissionStarts`).

Monitor: no edge is lost between flag and line (`LineStateFresh`), a visible
verdict agrees with the line (`VerdictMatchesLine`), a busy monitor has its timer
(`BusyIsTimed`), the promise to the others is kept (`ImplementsLineMonitor`) and a
resting line is judged for good (`RestingLineIsJudged`).

Receiver: of a frame that found the receiver ready, the bits sampled are the bits sent
(`BitsRecovered`) and so are the bytes (`BytesFaithful`); such a frame is not taken out
before its end (`MessageComplete`); on a quiet line everything is taken out
(`RestIsDelivered`), and whatever was on the line before, the receiver becomes ready for
the first bit of a frame again (`RecoversOnQuietLine`). Frames that do not find it ready
are excluded, and can be lost or garbled in the code: their first edge meets the reset
of an idle line (`src/receiver.c:58-65`), the drop of a collided message after its
printf (lines 70-75), or a `currBit` that nobody reset (finding 6).

Packets: the checksum that is sent is the CRC-8 by its mathematical definition
(`ChecksumIsRemainder`). A frame that comes whole to a receiver that saw the idle line
is accepted and shown as it was created, whatever damage, collisions and left-over bits
came before (`IntactIsAccepted`); the usual case is a collision, its message dropped, and
the reset on the idle line after it. Damage to the message or the checksum is noticed
(`DamageIsNoticed`). Damage to the header need not be, but of a frame that met an idle
line, cut or with any byte wrong, nothing is accepted as its text except the text, or a
beginning of it when the length itself was damaged; of a cut frame nothing was missing
but the last bit (`AcceptedWasSent`). Whatever is
accepted was
received in this message, byte for byte, and nothing of it was left in `msgBuf` or `pkt`
by an earlier one (`AcceptedIsReceived`).

Bus: the low level of a sending card is never part of a low that lasts longer than
detection and one half-bit, whoever else pulls, and even for a card that booted in the
middle (`LowIsShort`). This takes a bound on the number of cards, `FewCards`: cards that
boot one after the other, each within a half-bit of the last, hold the line low together,
and the first of them hears no edge, believes the line idle, prints, and sends its first
low into it. With the code's times and PRINT as bounded here that takes 25 cards; TLC
shows it with 3 and a printf of 2 half-bits. A collision is reported only if two cards pulled the line low
since it fell, so no frame and no boot of a single card looks like one
(`NoFalseCollision`). After the first bit nobody who heard an edge calls a sending
card's line idle (`CarrierSensed`), the reason why collisions come only from the time
between looking and sending. Neither is absolute, because of finding 5. If the line falls
just as the timeout of the edge before ends, the SysTick that EXTI4 left pending reports a
collision at once, with one card pulling; if it rises just as a low becomes a collision,
it reports an idle line while another card sends. Both properties say exactly that: the
exception needs an edge in that instant (`atTimeout`), and lasts no longer than two
half-bits, by when an edge takes the verdict back. TLC finds both exceptions when they are
left out of the properties. No two cards that heard an edge judge the line differently
(`VerdictsAgree`): it is never idle to one and a collision to another. Each card's monitor
is a `LineMonitor` (`MonitorsImplementLineMonitor`), whatever the other cards do: what
`Transmitter` assumes of its environment holds on a line with several cards. The line always
comes back (`LineComesBack`), also when a backoff of 0 has stopped a card for good.

`CompleteMeansWholeFrame` speaks of what was driven, not of what arrived: the
handler tests for the end of the frame before it tests for a collision, so a
collision noticed after the last half-bit is not repeated. Nor is a line protected
against being extended: characters typed between the return and an idle line become
part of the message. `LineStateFresh` and `VerdictMatchesLine` begin with the first
edge, because `monitor_start` calls the line idle without looking at it.

## 5. Proofs

The assumptions are those named in the modules: a buffer of at least two slots
that is longer than the longest frame (true of the code: 522 of 1028), positive
sizes, backoffs that are natural numbers (0 included).

* `TransmitterProofs`. The invariants are not inductive. `IInv` adds where the
  main loop can be while each flag holds (`AtPc`: it leaves its head only while
  nothing is sent, so no interrupt after the first finds it elsewhere), what holds
  before the first interrupt (`BeforeBoot`), that the timer is programmed for its
  mode also while it stands (`TimerState`), that a backoff has the cursors at the
  start (`BackoffState`), where the cursors may be (`Cursor`: between two messages
  `currBit` is 0, which is why `BuildFrame` need not reset it), and that `onWire`
  is what lies before them (`DrivenSoFar`). There is one lemma for each action or
  small group of actions. The theorems: type correctness, the six safety
  invariants and the three action properties the run checks.
* `MonitorProofs`. `IInv` says in addition that the timer is on once the handler has reset
  it, and that a verdict is that of `lineState`. From it: all invariants, and the
  refinement of `LineMonitor`, which justifies the environment of `Transmitter`. Type
  correctness holds for every timeout.
* `ReceiverProofs`. None of the receiver's properties says how far the frame is, which
  is what the next edge depends on. `IInv` adds, for a frame that found the receiver
  ready, that the line has the level of its last half-bit (`FrameOnLine`), that the
  monitor is busy and the main routine outside reset and drop (`UnderWay`), and where the
  frame is (`InStep`): in the second half of the bit sampled last (`SecondHalf`: TIM4
  just started, `sample` clear), in the first half of the next (`FirstHalf`: an edge of the
  line or TIM4 sets `sample`), or at the edge in its middle, not served yet (`MiddleEdge`).
  The two ways through the first half are why TIM4 is needed at all. From `InStep` follows
  that every edge in the middle finds `sample` set and no other does, and from that
  `Prefix` (what was sampled is the beginning of the frame) and `LastBits` (its last
  `currBit` bits are in `dataByte`). Lemmas about remainders carry `currBit` from one
  bit to the next for every size of a byte. The theorems: type correctness and the three
  safety properties the run checks.
* `BusProofs`. Everything here is for any number of cards and all times that the
  assumptions admit. No property of `Bus` is inductive, as none says what the timers will
  do. `IInv` adds for each card what boot, main routine, TIM2 and output have to do with
  each other (`Card`: a card that holds the line low has TIM2 running, with a half-bit to
  go at most, and is in `pulled`), that a card which heard an edge knows the level, and
  that its timeout counts what `since` counts (`Timed`) or has given the verdict on that level
  (`Heard`), that a SysTick outlives a restart only right after an edge with `atTimeout`
  (`Timed` too), and that a low which only one card pulled, and a high while a card sends, end
  by its next interrupts within two half-bits, because the second half of a bit is the
  complement of the first (`Swings`). A verdict comes TIMEOUT after the last edge, which is
  more than two half-bits, or right after an edge with `atTimeout`. In the first case
  `Swings` leaves no room for a wrong one; in the second it bounds the time it is wrong:
  that gives `NoFalseCollision` and `CarrierSensed` as consequences of `IInv`, and `Heard`
  gives `VerdictsAgree`. That SysTick finds its monitor busy is in `Heard` too, and with it each
  card's monitor implements `LineMonitor` (`MonitorStep`). `LowIsShort` has `FewCards` as its hypothesis and an invariant on top of
  `IInv`: a low lasts for the timeout and one half-bit for each card that pulled
  (`Holds`), and a card that booted and heard nothing has been under the same low since,
  so that its first low of a frame would come after the end of it (`Deaf`). The rest
  needs no bound on the number of cards. Each lemma is for one kind of invariant, and
  either for the card that moves or for another one, of which a step can touch nothing but
  the pending edge (`OthersKept`, `LineEffect`).
* `RingBufferProofs`. What put and advance do to a typed buffer.
* `RingBufferQueueProofs`. Type correctness is inductive. The refinement of
  `LossyQueue` for every number of slots rests on arithmetic of `SlotOf` and
  `Distance`: a put adds one to the distance, or fills or empties the buffer.

* `PacketHeaderProofs`. The checksum, its table and the powers of x are recursive
  functions. The library's induction theorems take an operator and cannot be used, so
  induction is by sets: a set of numbers that has 0 and, with each number below `size`, the
  next one, has all of them, because the least one missing cannot be (`UpTo`, from the
  well-foundedness of <). From it, functions defined by steps exist and satisfy their
  equations (`StepByStep`), which is all that is used of them. A byte is eight bits and
  back (`WeighedBits`, `ByteIsItsBits`), so equations between bytes are proved bit by bit.
  Shift, table and walk can be undone, hence `CrcTellsByte`. They are linear too
  (`ShiftsLinear`), and shifts of a byte with one bit are the powers of x
  (`ShiftsArePowers`, as multiplying by x is a shift, `TimesIsShifted`), so that each
  bit of a message contributes its power: `OneByte` adds the eight bits of a byte,
  counting the exponents of the reference by parity (`OneMore`), and `CrcIsRemainder`
  the bytes. `DecodedIsEncoded`: every second half-bit of a symbol is the bit itself.
* `PacketsProofs`. `Inv` adds to the type that the frame on the line is that of a packet
  with the checksum of its message and has room in `receiveBuf` (`OnTheLine`), that the
  reset leaves no bits (`AfterReset`), and what `receiveBuf` holds while the history
  knows it (`BeginsWith`: the frame, the frame with one byte wrong, or, of one that was
  cut, a beginning by `CutIsBeginning`, whose last byte may be completed by the end of the
  collision). While the line is held low, `Held` counts the bits of a cut frame exactly and
  keeps room for that one more. A shorter frame and a longer
  length fail the size tests, a shorter length leaves a beginning of the text
  (`NothingElseIsAccepted`). `Parsed` and `Shown` say what the fields of the packet shown are in
  terms of the bytes received. All six properties the run checks are theorems, for
  every size of a message, texts, addresses, masks, cuts and numbers of faults.

Only model-checked: the liveness properties
`TransmissionEnds`, `RetransmissionStarts`, `RestingLineIsJudged`, `RestIsDelivered`,
`RecoversOnQuietLine` and `LineComesBack` (liveness under fairness is out of the prover's
reach). `TransmissionEnds` needs backoffs that are not 0, and its run has none.

## 6. Disagreements between code and comments

1. `RetransmissionStartsIdle`: the line is looked at before the backoff and not
   after it, so a retransmission starts on a busy line
   (`src/transmitter.c:199-201` against the comment at line 294).
2. `PendingIsSent`: a complete message waits on an idle line for another key
   (`src/transmitter.c:82` against line 102).
3. `BackoffEnds`: `rand() % 200` may be 0, ARR becomes 0, the counter is blocked
   and `inTransmission` stays true for good (`src/transmitter.c:176-180` against
   `inc/transmitter.h:16`).
4. `BackoffInMs`: the prescaler written for the backoff takes effect only at the
   update event that ends it. The backoff lasts at most 1000 processor cycles, and the
   first half-bit after it 8000 ms (`src/transmitter.c:174` and 184 against the comment
   at line 174). `TimerFitsMode` is about the registers as written.
5. `VerdictAfterTimeout`: a SysTick pending when the edge handler starts gives a
   verdict right after an edge (`src/monitor.c:103-112` against
   `inc/monitor.h:23`). `VerdictMatchesLine` shows that the verdict is at least
   not wrong about the level. It can be wrong about what the level means, for two
   half-bits at most: the exceptions of `NoFalseCollision` and `CarrierSensed`
   (section 4). A card that is sending then retreats from its own frame, or one that waits
   may start over another's.
6. `NextIsNewTransmission`: while the main loop waits for a key, nobody resets the
   receiver on the idle line between two frames, so the next frame is appended to the
   message before, or decoded from the middle of a byte (`src/receiver.c:58-66`
   against the comment at line 59). The first frame after boot is exposed to it too: the
   card sampled a stray bit when its own output went high.

Noticed while modelling, without a run of their own because no line of the repository
promises the contrary, or only in passing:

* `ph_parse` computes the checksum also for a packet whose `crc_flag` is 0, so it rejects
  most packets that `ph_create` makes without one (`src/packet_header.c:78-88` against the
  list at lines 51-54). The program always sets the flag.
* The checksum covers the message only: a damaged address is accepted, and so is a
  length damaged to a smaller one, if the checksum happens to fit the beginning of the
  text (`src/packet_header.c:71-85`: the checksum is taken from the end of what came, not
  from the end of the message, so that one shorter length in 256 or so passes).
* A rejected packet is shown all the same, with fields of an earlier one if the message was
  short, and without a terminator if its length is 254 or more (`src/receiver.c:87-94`).
* The comment of `encodeManchester` has the two codes and the bit order the other way
  round (`src/transmitter.c:276-279`); sender and receiver agree.
* The end of a frame is tested before a collision (`src/transmitter.c:209-217`), so one
  on its last half-bits leaves the message complete, "(no COLLISION)" at line 20
  notwithstanding.
* When two cards collide, the one that retreats first lets the line rise, which makes
  the other card's monitor busy again before its next half-bit: that card goes on to
  complete a garbled frame. `Bus` has this behaviour.

## 7. Not modelled

* Clocks that drift: `Receiver` counts half-bits of the sender and the clocks of `Bus` run
  alike. The half-bit timeout is chosen for senders up to 1.3 % slow
  (`inc/receiver.h:8-10`): 506.7 us against 500 us, which a model would need some 80 ticks
  a half-bit to tell apart, and the interrupt latency that takes away from the rest is
  not known.
* Both main routines of one card step by step in one module: neither writes what
  the other reads except through the monitor, and each module has the other routine as a
  wait of any length.
* Display of bare text (`PACKET_MODE` is true in `main.c:17`) in the receiver.
* `EXTI9_5_IRQHandler` (disabled by `main.c:16`), `monitor_jam`, `configTimer`,
  `peek`, `hasSpace`, `numElements`, `led.c`, `delay.c`, counter and input capture
  mode of `tim.c`: never used by the program.
* LEDs and debug outputs other than PC5, texts printed, vendor startup code, the
  heap stub: no behaviour of the card depends on them.

## 8. Plan

Done: `RingBuffer`, `LineMonitor`, `Transmitter`, `Monitor`, `LossyQueue`,
`RingBufferQueue`, `Receiver`, `PacketHeader`, `Packets`, `Bus`, and the theorems above.
Next, in this order:

1. The flags of each card in `Bus` (`inTransmission`, `transmissionComplete`,
   `retransmissionTimeoutActive`) against those of `Transmitter`: one abstract
   transmitter that both implement, as `LineMonitor` is for the monitor.
2. What a step of time uses up, as action properties with proofs, for the liveness
   properties that rest on timers (`RestingLineIsJudged`, `LineComesBack`).
