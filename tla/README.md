# CMT2300A firmware in TLA+

This directory holds a TLA+ model of the firmware in this repository: an ESP32
that drives a HopeRF CMT2300A radio and, in its `im871a` build, behaves towards
a host daemon (wmbusmeters) like an IMST iM871A wireless M-Bus stick. The models
are checked with TLC on small instances, and eight of them have a companion
module of theorems, checked by TLAPS for all values of the constants.

Paths in this file are relative to the repository; `main.cpp`, `im871a_hci.cpp`,
`cmt2300a_spi.cpp` and `cmt2300a_init.cpp` are in `src/`; the SWIM tool is a program
of its own in `stm8_swim_tool/`.

## 1. Inventory

The firmware is single-threaded: `setup()` and then `loop()`, for ever. The one
interrupt handler sets a flag nothing in the `im871a` build reads. What runs
*beside* the thread is the chip (it receives, transmits and raises flags on its
own), the UART with its transmit ring and receive queue, the clock `millis()`,
and the daemon at the other end of the line. All hard behaviour comes from
those four.

Three builds share the sources: `esp32dev` (web UI), `esp32s3` (ASCII feed of
verified frames to the daemon) and `im871a` (binary protocol). Most of the model
follows the `im871a` build, with the feed of `esp32s3` in `FrameScan`; `WebRadio`
is the loop of the builds with the web page.

| component | state it keeps | operations | talks to |
|---|---|---|---|
| HCI shim (`im871a_hci.cpp`) | parser position and header bytes, link mode, `sRadioOn`, `sAbort`, `sMuteUntil`; serial ring | `hciPoll`, `hciDispatch`, `hciSendFrame`, `hciIndSend`, `hciWindowAbort` | called by the loop at three places; calls `hciDoTx` |
| Transmit chain (`hciDoTx`) | saved framing registers; the chip's mode, FIFO, flags | save, standby, frame, clear, fill, check and retry, GoTx, poll TX_DONE, restore | runs in the middle of a receive window |
| Main loop | mode, FIFO direction and framing of the radio between phases | `pollRx`, window, probe | the shim, the receive window |
| Receive window: assembly | `asmBuf`, `asmLen`, `asmActive`, snapshot of the flags | poll flags, drain, end of packet, restart | the chip; hands packets to the scan |
| Receive window: scan | position, block, verdict, repaired copy | header scan, block walk, annex rule, repair | `hciIndSend`, feed line |
| 3-of-6 decoder | shift register, pending nibble, output | `wmbus3of6Decode` | called by `pollRx` |
| Cross-burst merge | ring of eight captures | `asmMerge` | called at the end of a scan |
| SPI access (`cmt2300a_spi.cpp`) | pins; the chip's registers and FIFO, the direction the FIFO is turned to | `writeReg`, `readReg`, `writeFifo`, `readFifo` | everything calls it |
| Driver and tuning (`cmt2300a_*.cpp`) | `_inRx`, `_currentFreqHz`; the chip's mode, flags, PLL words | state commands, `txPacket`, `rxPacket`, `setFrequencyHz`, `setChannel` | web UI, `pollRx` |
| Web UI | none between requests | `handleTx`, status pages | the driver; takes turns with `pollRx` |
| SWIM tool | `_ok`; two pins, interrupts | command loop, `connect`, `readBlock`, `writeByte`, ... | the STM8 of the dongle, one wire |
| Beacon, probes, scripts | - | - | bench tools |

What is hard, and what makes each component correct:

* **Shim.** The parser takes any byte stream. A daemon detects the stick by
  reading the bytes that follow its request, so no indication may come between,
  and none before the stick is configured. Frames to the daemon are sent
  whole or dropped (a frame never waits for the ring). The detect window is a
  deadline on a clock that wraps. In this build the console is the same UART: what
  the rest of the firmware prints stands in the ring between the frames, whatever
  the shim's gates say.
* **Transmit chain.** A retry, a chip that lags behind its commands, and flags
  that survive from an earlier packet. On air there must be one whole copy of
  the content or several, never two run together or one of them cut; and to the
  window that it interrupts the chain must look atomic.
* **Loop.** A transmission served in the window turns the FIFO round and touches
  the framing; the abort flag must end that window before its next round. A
  daemon killed while writing leaves half a request in a parser that has no
  timeout. The window must end although it serves the host in every round and prints
  on a line that may be full. Of the registers it changes it saves all but one.
* **Assembly.** The chip goes on receiving while the last packet is scanned. The
  length byte may be garbage. Two buffers and a FIFO have different sizes.
* **Scan.** One pass carries its verdict through four stages; offsets, tail
  lengths and CRC counts meet at the ends of buffers; only verified frames may
  leave on the feed, and the daemon must be told their true length.

* **Driver and web page.** `txPacket` and `rxPacket` do not clear the flag they wait
  for, so a late TX_DONE or PKT_OK is taken by the next call. The FIFO keeps the
  direction it was last turned to. What the registers hold has to be what the
  page shows, and two functions write into one register.
* **SPI.** One data line that both ends drive in turn, within a bit.
* **SWIM tool.** Steps of a connection that use operations meant for a connected
  object; a line code in which each bit must begin with a falling edge.

`PROJECT.json` lists the hazards one by one, each at its line with the property
that covers it or the reason why none does.

## 2. The modules and how they compose

```
   Im871aContract  <--implements--  HciShim  <--INSTANCE--  DongleLoop
                                                               |  one step each of
                                                               v
   AtomicTx  <--implements--  TxChain  ....  serving a transmit request
                              RxAssembly ..  a round of the window -> FrameScan

   Pll  <--EXTENDS--  WebRadio         RegisterFile  <--implements--  SpiBus

   SwimTool                            ThreeOfSix
```

The theorems about a module `M` are in `MProofs`, which extends it: `HciShimProofs`,
`DongleLoopProofs` (with an instance of `HciShimProofs`), `TxChainProofs`,
`RxAssemblyProofs`, `FrameScanProofs`, `PllProofs`, `WebRadioProofs` (which extends
`PllProofs` too) and `SpiBusProofs`. `SwimTool` and `ThreeOfSix` are only checked.

* **HciShim** - the shim, one action per parser state (`HuntSof`, `TakeCtrl`,
  `TakeMsgid`, `TakeLen`, `TakePayload`: the cases of the switch in `hciPoll`),
  the dispatch as part of the byte that completes a request, `IndSend`,
  `WindowAbort`, `PrintText` (a line of console text, which waits for room where a frame is
  dropped), and two external actions, `Tick` and `UartShift`. Payload
  content is abstracted to its third byte, the only one the shim looks at.
  `now` and `sMuteUntil` are kept modulo `2 * Half` (2^32 on the ESP32) and
  compared through the signed difference, as in the code. `sinceReq` is a
  history variable: ms since the last accepted header, which nothing reads but
  properties.
* **Im871aContract** - what the daemon relies on: requests served one at a time,
  answered at most once by the response that belongs to them, indications only
  from a configured stick outside a quiet period. Console text may come between two
  messages at any time, as the code has it, but never inside one. No bytes, no clock,
  no ring.
* **TxChain** - `hciDoTx` step by step against a chip whose mode controller takes
  commands late (`TakeCommand`), whose packet handler finishes early, late or
  never (`TxComplete`), and a FIFO that keeps what is not cleared. `Reframe` is
  the window opening and closing around it: the framing it leaves (`LeftFraming`) has
  the map's length and sync size and its own packet type.
* **AtomicTx** - what the callers of `hciDoTx` see: a transmission is one step,
  leaves the receive framing as it was, and reports success only if something
  went on air in that call.
* **DongleLoop** - the loop as a program counter from the end of `setup` through
  `pollRx`, the window (poll the host, check the abort flag, listen) and the probe,
  with `HciShim` instantiated over the same variables. `PrintLine` is the console text
  of `setup`, of `pollRx` (after a packet or an error) and of `asmMerge` (inside the
  window); the prints that the `im871a` build compiles out are not there. `framing` is
  the map's until the first window and `left` after each. `hciPoll` is one byte per step, so the
  clock and the daemon interleave. Serving a transmit request has the effect
  `AtomicTx` promises plus the FIFO direction `writeFifo` leaves behind.
* **RxAssembly** - the window loop (`Poll`, `DrainFifo`, `NotEnded`/`Ended`,
  `Scan`) against a chip that syncs, receives `Lump` bytes, completes by counter
  or times out once the telegram is over, with flags possibly left from before. A telegram is its L byte and whether the 54 CD prefix
  comes with it; noise has no length. `intact`, `fresh` and `cut` are history.
* **FrameScan** - one packet through header scan, block walk, annex rule, repair
  and the two copy loops to an indication, which is dropped if too long, or to a
  feed line, which is dropped if the ring has no room. A packet is where its header is, its L byte, which
  blocks are good, how much of it arrived, and whether a repair can cure it. The
  CRC arithmetic itself is abstracted to "this block is good".
* **Pll** - the arithmetic of `setFrequencyHz` with the code's own numbers: band
  table, `pickBand`, N and K with rounding and mask, and the byte `setChannel`
  writes. TLC's integers have 32 bits, so the products of 64 bits are divided by
  their common factor 2^7; `FractionExact` proves that nothing is lost. `LoHz` is
  what the chip makes of a word.
* **WebRadio** - `handleClient` and `pollRx` in turn, with every step of
  `handleTx`, `txPacket`, `rxPacket` and `setFrequencyHz` that the chip can come
  between. `Go` is a mode command with its `waitForState`, which gives up in
  silence: the chip may take the command later (`TakeCommand`). `Init` is the end
  of `setup`, where the recorder has called `goRx` and the demo has not. `oms` chooses
  between the recorder, which receives in every turn, and the demo, which clears
  an old PKT_OK and receives every 200 ms. `sent`, `received`, `reported`, `late`
  and `phantom` are history.
* **SpiBus** - the bit-banged SPI edge by edge: select, drive, raise, sample, lower,
  deselect. `Line` is what the shared wire may read as: either level where both
  ends drive, the pull-up where none does. The chip side is external.
* **RegisterFile** - what the rest of the firmware takes the SPI for: a register is
  written or read and a FIFO byte pushed or popped at one instant.
* **SwimTool** - the tool's command loop and class over the two pins, one SWIM frame
  per step. A target may acknowledge a frame only if each of its bits begins
  with a falling edge (`Readable`), which depends on what `write_byte` passes to
  `write_bit_sync` as the previous bit.
* **ThreeOfSix** - `wmbus3of6Decode`, one symbol per step, with its 8-bit shift
  register.

The `MC*` modules give constants values that a `.cfg` cannot write (sets of
records, bounded specifications).

## 3. Runs

| run | bounds | states | result |
|---|---|---|---|
| `shim` | at each parser position the bytes it tells apart, with lengths 0, 1, 3 and one above the buffer of 8; indications of one byte; a ring of 14 bytes (one longest frame, or two short ones); lines of 4 bytes (`TextLen`); a clock of 6 values, mute 2, a transmission of up to 1 | 3.1 M | five properties hold |
| `dongle` | window, probe and mute of 1 ms, a clock of 4; requests for detection, configuration and transmission; one fragment (`MaxFragments`), a transmit request cut off in its payload; lines of 3 bytes, a ring of 8 | 3.3 M | four properties hold |
| `dongle_live` | as `dongle`, fair, without configuration, so that no indications are needed; a ring of one byte, which one line fills and no frame enters | 321 k | both liveness properties hold |
| `tx_chain` | contents of 0, 61 (the FIFO just full) and 96 bytes; `MaxCalls` = 3 transmissions | 7 k | five properties hold |
| `assembly` | the real sizes (64, 32, 96, 128, 111); telegrams of L = 10, 62, 94, one longer than the buffer, and noise; bytes arrive 16 at a time (`Lump`) | 257 k | five properties hold |
| `scan` | the real sizes; eleven L bytes from 10 to 240; headers at offsets 0, 2 and 5; packets cut inside block one, at multiples of the drain, at the annex rule's minimum and within three bytes of the telegram's end; eight patterns of bad blocks; curable by nothing, one bit, or two edits | 336 k | eight properties hold |
| `scan_bbad` | as `scan` | | `BBADNeverSent` violated |
| `web_radio` | both builds; frequencies of 868.95 and 433.92 MHz, one whose K is rounded up to 2^20, one out of range; the page's channel 0; payloads empty and not; `MaxRequests` = `MaxPackets` = 2 | 259 k | six properties hold |
| `web_detuned` | as `web_radio` | | `ReceiverNearBase` violated |
| `spi_bus` | bytes of two bits (an address of one after the read/write bit), two registers with every content, FIFO and calls of up to two bytes | 1.09 M | four properties hold |
| `swim_connect` | a flash of 300 bytes in blocks of 255: one whole and one part | | `AcknowledgedConnects` violated |
| `three_of_six` | up to four symbols (`MaxSymbols`) | | `ValidIsDecoded` violated |

Why the bounds suffice. The shim compares lengths only with zero, three and the
payload buffer, so values on both sides of each are all cases; the ring needs
room for the longest response and must be too full for a second, or for a line of text
as well; the clock must
be able to wrap while a mute is pending and afterwards. (The age of the last
request, `sinceReq`, is counted up to one clock range and stands there for
"older".) What the shim does for every byte at every position, and for every
size, is proved, not only checked. A daemon writes whole requests after its one
fragment, which is every way for the parser to be out of step. `TxChain` needs
three calls: one that leaves something behind, one that stumbles over it, one to
see that the stumble left nothing. In `RxAssembly` the thresholds are multiples
of 16 but for the sizes of telegrams, which the L bytes place on both sides of
them; the proofs hold for any `Lump`. In `WebRadio` two requests and two packets are
one whose flag comes too late and one that finds it; what it says of words,
successes and records is proved for any frequencies and any number of each. A byte
of two bits has a first bit and a last, of an address as of a value, which is all
`SpiBus` tells apart: `IO_SEL`'s first is `FIFO_MERGE`, its last the direction. Each
register can hold anything at first, and the chip may write every one but `IO_SEL`
between any two edges; a call of two bytes has an access after the first that
must start from clean lines.

Fairness. `FairSpec` of `TxChain`, `RxAssembly`, `FrameScan` and `WebRadio` is weak fairness
of the code's own steps only: the thread runs; chip and air owe nothing, and
waits end by their timeouts. `DongleLoop` also lets the clock and the UART run (bytes are shifted out whether or
not anybody reads them, so a print ends) and, for
`DetectIsServed`, assumes a daemon that repeats its request, which is what
wmbusmeters does at start-up. Strong fairness of the steps that find the receive
queue empty says that `hciPoll` is faster than a serial line at 57600 baud.

What the violated runs show is described under `findings`:

* `BBADNeverSent` - a frame whose data block fails its CRC, accepted neither by the
  annex rule nor by a repair, reaches the daemon, which ADR 0006 excludes.
* `ReceiverNearBase` - `setChannel`, called for every request, overwrites the VCO bank
  and the high bits of K of the receiver's word; the "hop" of 2.5 kHz per channel
  is one of hundreds of kHz and more. In the trace a request for 868.95 MHz on channel
  0 leaves the receiver about 10.5 MHz below its base.
* `AcknowledgedConnects` - `connect()` writes SWIM_CSR with an operation that refuses
  as long as the object is not connected, and so never succeeds.
* `ValidIsDecoded` - the 3-of-6 decoder rejects nearly every second symbol, since
  its shift register keeps two bits of the one before.

Each property of a passing run has a mutant in `PROJECT.json`: a form of one
modelled operator with a plausible bug, under which TLC finds the property
violated. The mutated operators stand before the ones they change, marked
"Mutant of".

## 4. Proofs

The proof modules assume only the named assumption of the module they are about:
`ShimAssumption`, `TxAssumption`, `AssemblyAssumption`, `ScanAssumption`,
`WebAssumption`, `SpiAssumption`, and `LoopAssumption`, which contains the shim's
(`Pll` has no constants and needs none). TLC evaluates each of them on the constants
of a run. Every theorem about a state machine goes the same way: an invariant `IInv`
with its parts named, one lemma per action that it keeps it, `Invariance`, and from
it the properties. `IInv` was checked by TLC on the bounds of section 3 before it
was proved.

**HciShimProofs.** `IInv` is the conjunction of `TypeOK`, `PayloadFits` and
`ClockLinked`. The last one is the strengthening: it
ties the clock, the deadline and the history variable together (as long as the
last request is younger than a clock range, `now + MuteMs` is
`sMuteUntil + sinceReq` modulo the range). Without it `MuteExact`
does not follow, for `TypeOK` admits any pair of clock values. From `Invariance`
follow `TypeCorrect`, `PayloadSafe` and `DetectWindowExact`; `NoIndInDetectWindow` is the action property;
`ShimImplementsContract` is the refinement, one lemma per action of the shim,
each a step of the contract or a stutter. None of them says that the line is free of
console text: in the contract text may come at any time.

**DongleLoopProofs.** `IInv` is the shim's invariant with `LoopTyped`, `FramingOwned`
(the window's framing is there from the opening of the window to its closing, and
its receiver stays on) and `WriteAborts`. The last one is what `WindowReceives` needs:
a transmission inside the window leaves the FIFO turned to writing, and it is the
abort flag, raised by the same request, that keeps any round from being begun on
it. `WindowReceives` alone is not inductive, as it says nothing of the state
between the poll of the host and the look at the flag. From it follow
`LoopTypeCorrect`, `EveryRoundReceives` and `LengthComesBack` (of the length and the sync
size; the packet type is not restored, and nothing is claimed of it). `LoopDrivesShim` shows
that each step of the loop is one of the shim or leaves it alone; with it the
theorems of the shim, proved for any environment, hold of the whole dongle by
instantiation: `DongleIsTheStick` (it implements `Im871aContract`) and
`DongleQuietInDetect`.

**TxChainProofs.** `CleanAir` and `NoPhantomDone` need to know what is in the FIFO and in
the chip's mode at each point of `hciDoTx`, if the chip took its last standby
command in time (`~late`): `FifoFollows` (head, then all of the frame, then either
all or - once sent - nothing), `TransmitsInPoll` (it transmits only between GoTx and
the next Go), `FramedForAir`, and for any chip `DoneEarned` and `LeftEmpty` (outside a
call there is nothing to send). The retry is the case that matters: the first
attempt may complete up to the moment the FIFO is cleared. From `Invariance`
follow `TransmissionTyped`, `AirIsClean` and `DoneIsEarned`; `TransmissionIsAtomic` maps
the return of the call to the one step of `AtomicTx` and all others to stutters,
for which it needs `FramingOwned`.

**RxAssemblyProofs.** `AlwaysBounded` proves the bounds on `asmLen`, on what a
drain takes and on what the final read takes, from arithmetic on the buffer
sizes: a drain starts below `DrainCap` and takes at most `Drain`, the need is
capped at `Buf`, the final read at `RestMax`. `AssemblyTyped` and `BuffersSafe`
follow, for any L byte. `NeverReplayed` is the statement that no packet is handed
over twice, under `GivesUp` (the fallback length exceeds the final read, as 73
exceeds 64, so that the end of a packet that was never drained reads nothing).
Its invariant `ReplayInv` says what is left behind when an end was handled:
`asmActive` is down exactly while the content is used up, and what is left in
`asmBuf` then stays unseen, since until the next sync no packet is coming in and
none has ended. `NothingMissing` is `TelegramWhole`, under `SizesFit`: the read buffer
takes a whole FIFO (64, 64), the first drain is a full one (32, 96), one drain and a
full FIFO do not make a packet (64 + 32, 111), two drains and the read buffer fill
`asmBuf` (2 * 32 + 64, 128), and `GivesUp`. Its invariant `Accounted` keeps the books of a
telegram that has lost nothing: `asmLen + level = count`, what was assembled is of
the telegram on air, the drains stopped only where `Drained` says, and a flag that
ends the packet was raised at its end - or found latched, and then nothing of it
is drained.

**FrameScanProofs.** For any set of packets with an L byte from 10 to 240, any
pattern of bad blocks and any buffers. `AtBlock` and `AtEnd` say where a walk may
stand: before block j at byte `12 + 18 j` with `L - 9 - 16 j` data bytes to come, or
at the end of the frame with none. `WalkFollows` (the blocks behind the walk lie in
the packet and hold), `FailureKnown` (what each verdict knows of the first failing
block, and what annex rule and repair were granted on) and `CopyFollows` (what the
copy loop has written and read at block j) join with `Unset` and the six properties
to `IInv`. The verdict is an iteration over the packet's data, but no induction over
data is needed: the iteration is steps of the machine, and the lemmas on
`BlockLen`, `BlockAt` and `FrameSize` take one block at a time. The theorems are
`ScanTyped`, `VerdictIsSound`, `RepairStaysInside`, `LengthByteIsTrue`, `CopyStaysInside`,
`FeedIsVerified` and `GoodFrameReachesDaemon`. `BBADNeverSent` is false and a finding.

**PllProofs.** For every frequency from 127 MHz to 1.02 GHz: `PickedCovers` (the
table has no gap; the proof goes through the seven intervals in which one band is
the highest), `VcoInRange`, from which `NFits` follows, `FractionExact`, and
`TunedWithinAStep`: with `rem = q * 203125 + r` the fraction is `q * 8192` plus a
rounded part of at most 8192, the three cases of which (below 8192, 8192 with and
without a carry within K) are those of `FractionNear`. The case that loses the
carry is part of the statement (`LosesCarry`), not excluded.

**WebRadioProofs.** `IInv` joins to `TypeOK`: `Checked` (a frequency that reaches the
registers is one that is supported, without which the words have no type),
`FlagsBacked` (a latched flag counts as a packet not yet reported or recorded:
`reported + Bit(txDone) <= sent`, and the same of PKT_OK; the bare inequalities
are not inductive, since a flag that is up may be taken in the next step), and
`Followed` (with a chip that follows, it receives only inside `rxPacket`, which in
the demo began without a flag and with the FIFO turned to reading). From it
follow `RadioTyped`, `SuccessesAreEarned`, `RecordsAreEarned` and
`DemoRecordsFresh`. `TransmitterIsTuned` adds `Tuned`: the transmitter's registers hold
the word of `_currentFreqHz`, the receiver's the computed word or that word with the byte
of `setChannel` over its `0x1B`; with `TunedWithinAStep` this gives `TransmitterTuned`,
whose error is half a step, or one reference period where K's carry is lost. Of where
the receiver really listens it says no more than that: `ReceiverNearBase` is false.

**SpiBusProofs.** For bytes of any width of two bits or more, any registers and any
FIFO. `IInv` relates driver, pins and chip within an access: `CallFollows` (which call
makes which access), `PinsFollow` (a select is low exactly while bits move; at the
rising edge the line carries the driver's bit, as it drives it and the chip does
not), `TakenFollows` (until the chip has a value to send it has taken the first
`Given` bits of the access), `SentFollows` (the line shows the bit of the value that
the driver is about to read, and it has read those before) and `MergeFollows`
(FIFO_MERGE is set in the register, in what was read of it and in what is written
back). `BusIsAtomic` is the refinement of `RegisterFile`: a write and a push take
effect at the rising edge of their last bit, a pop when its select falls, a read
at the falling edge that ends the address byte; the return is the release of the
select, and by `SentFollows` it hands over the value latched at that instant,
whatever the chip did to its registers since. `SelectsExclusive` and `MergeStaysSet`
are read off the invariant. The lemmas on prefixes and suffixes of bits come from
the library's theorems on sequences.

Every safety invariant of a passing run is thus also a theorem, and so are the
refinements. Only model-checked: liveness (`WindowEnds`, `DetectIsServed`, `TxReturns`,
`EndTaken`, `ScanEnds`, `ClientServedAgain`; the prover has no rules for fairness and
ENABLED). The four runs that expect a violation
state what does not hold.

## 5. Not modelled

* CRC and repair arithmetic (abstracted to good and bad blocks); RSSI
  statistics and register experiments; the text of the web pages, WiFi set-up.
* `asmMerge`: its table of captures and what it finds in them, which is CRC arithmetic
  over bit patterns. That it prints on the daemon's line is in `DongleLoop`.
* The wording of console text, and its lengths but for one; it is printed a line at a
  time.
* `softReset`, `startRx`, `stopRx`, the packet interrupt and the hardware-SPI variant:
  not called, or compiled out, in the builds modelled. `goSleep` likewise.
* Pulse lengths on the SWIM wire and on SPI: only their order is modelled.
* `writeBlock` of the SWIM class, which nothing calls; the copy of the class and the
  logic analyzer under `tools/stm8_swim_programmer/src`, which the `main.cpp` beside
  them does not use.
* TX beacon and heartbeat (`CMT_TX_TEST`, `CMT_REGVAR`, `CMT_BUFCAP`), the bridge mode
  `CMT_STM8_ONLY`, the Python and shell tools.

Seen while modelling, and in the models, but not stated by a property of its own:

* The dongle is not mute before its first SET_CONFIG, as the comment at
  `im871a_hci.cpp:66` has it ("bootet stumm"): `sRadioOn` holds indications back, but
  `hciSetup` (216), `setup` (`main.cpp:734-932`), `pollRx` (518-541, a line for every packet
  and error) and `asmMerge` (388-427) print on the UART of the protocol. What a daemon
  reads after its first request may begin with text, and a response for which text
  has left no room in the ring is dropped.
* The detect window comes back 2^31 ms (24.8 days) after the last request and stays
  for as long, since `sMuteUntil` is never retired (`im871a_hci.cpp:268`).
* A transmission served outside a window leaves `sAbort` up, and the next window ends
  in its first round (`im871a_hci.cpp:202`).
* The window writes 0x45 = 0x40 (`main.cpp:1655`), does not save it
  (`main.cpp:1602-1611`) and does not restore it (`main.cpp:2520-2538`): from the first
  window on `pollRx` and the probe run with a framing that is neither the map's nor
  the window's.
* A repaired frame whose end was found behind the packet (the tail is overcounted by
  the offset) is called good and then dropped by `hciIndSend`; `VerifiedReachesDaemon`
  excepts it.
* `hciDoTx` writes up to 99 bytes into a FIFO of 64 (`im871a_hci.cpp:133`); `CleanAir`
  is stated for contents that fit.
* `hciSendFrame` drops frames above 96 bytes and `hciIndSend` counts them as sent
  (`im871a_hci.cpp:81`, `302`); `VerifiedReachesDaemon` is stated for those that fit.
* RX_TMO latched before a sync ends the telegram at once (`main.cpp:2087`).
* SYNC_OK and PKT_DONE of different packets in one snapshot: the older is lost.
* After a request for a frequency out of range `handleTx` transmits all the same, on
  the frequency set before (`main.cpp:265`).
* In the demo TX_DONE is not enabled in 0x68, so `txPacket` always times out there.
* `_inRx` stays up after `goStandby`; `getFrequencyHz` is 0 until the first request
  although the chip stands at 868.95 MHz.
* During the second byte of a register read `swSpiTransferByte` goes on driving the
  line up to the sample, against the chip; the model takes either level there, and
  the read is right because the driver releases first (`cmt2300a_spi.cpp:66`).
* Of the SWIM frames, ROTF (0001) and WOTF (0010) lack a falling edge, because
  `write_byte` hands the following bit to `write_bit_sync` as the previous one. A
  data byte that is refused is sent again for ever with interrupts disabled; NRST
  stays low after each failed `connect()`; the progress line is written into the
  binary dump.

Seen in the code, outside the models:

* The fail-safe comment at `main.cpp:2111` speaks of 64 bytes; the code reads none.
* The repair's tail length does not subtract the frame's offset.
* An annex with an offset of two reads its length bytes two bytes behind the packet,
  in the zeroed rest of `asmBuf` (`main.cpp:2236`).
* `asmMerge` indexes tables of 70 entries with up to L + 5 (`main.cpp:357`).
* `docs/architecture/hci-handshake.md` names endpoint 0 for the management
  requests that the code serves on endpoint 1.

## 6. Plan

Done, in the order of importance: HciShim with its contract and proofs; RxAssembly
with its proofs; FrameScan; TxChain with AtomicTx; DongleLoop; ThreeOfSix; Pll and
WebRadio with their proofs; SpiBus with RegisterFile; SwimTool; the proofs of TxChain,
DongleLoop, FrameScan, SpiBus and of `TelegramWhole`.

The proofs planned so far are done: every safety invariant of a passing run is a
theorem. Next, what SwimTool does promise (the order of NRST, entry sequence and
frames) and what ThreeOfSix decodes, as properties with proofs; a bound on the
rounds of `TxChain` and of the copy loop of `FrameScan` as an invariant (a measure
that each step lowers), since the liveness it stands for cannot be proved here.

Then, the model: the ring and grouping of `asmMerge`; the save and restore of the
window as one function over a register set; the host side of the detection (what
the daemon reads after a second detect).
