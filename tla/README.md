# A TLA+ model of canforge

canforge is a C++ toolkit for CAN networks: frames and signal codecs, a DBC
parser and writer, bus back ends, the ISO-TP transport, UDS diagnostics, a
vehicle simulator and a terminal dashboard. Apart from the dashboard it owns no
threads and no clock. Protocol objects are driven by `poll(now)` and
`on_frame(frame, now)`, so what makes it hard is mostly not locking but order
and time: which frame is handled before which poll, what is lost, how long
everyone waits; and, in the codec and the DBC library, boundaries: of bytes, of
statements, of lines.

This directory models that behaviour, checks it with TLC on small instances and
proves part of it with TLAPS for every value of the constants.

## 1. Inventory

| Component | State | Operations | What makes it correct | Hard because |
|---|---|---|---|---|
| isotp `Sender` | payload, offset, sequence, block and wait counters, two deadlines | `begin`, `poll`, `on_frame`, `abort` | the wire carries the message; block size, STmin, N_Bs and wft_max are kept | arbitrary peers, timers, 4 and 8 bit counters |
| isotp `Receiver` | buffer, expected length, sequence, block counter, two deadlines, pending status | `on_frame`, `poll`, `reset` | only complete, in-order messages are offered; the buffer is bounded | loss, duplicates, late frames, stale state between messages |
| isotp STmin encoding | none | `st_min_to_ns`, `ns_to_st_min` | never faster than asked, exact round trip | rounding at the ends of three ranges |
| uds `Client` | request state, one sender and one receiver, session, P2 deadline, pending count, keepalive timer | `request`, `poll`, `on_frame`, `reset` and one function per service | one answer per request, to the right request, in time | responsePending, suppressed responses, late answers |
| sim `UdsServer` | session, unlocked, seed, download progress, flash, deferred response, one sender and one receiver | `on_frame`, `poll`, the `handle` switch | security and session gate what is written; every request is answered | deferred answers overlap requests and transfers |
| transport `VirtualBus`, `VirtualMedium` | participants with two queues each, one frame in flight, the virtual clock, statistics | `attach`, `open`, `close`, `set_filters`, `send`, `receive`, `advance`, `drain` | lowest identifier first, per sender order, each frame delivered or counted | contention, bounded queues, participants that close or vanish |
| transport `LogReplayBus` | index, virtual clock, filters, statistics | `open`, `close`, `set_filters`, `receive`, `rewind`, `reset_statistics` | the recording's order and, in the first round, its pace, whatever the timeouts; every call returns | looping, filters, scaled time |
| transport `SocketCanBus` | socket, filters, statistics | `open`, `close`, `send`, `receive` | no frame is invented | the kernel |
| transport log formats, inflate | reader positions | candump, ASC, BLF readers and writers | what is written is read back | byte level formats |
| core codec, `Message` | a payload | encode, decode, multiplexing, value tables | round trip, saturation, nothing else touched | bit order, nine byte spans, sign, nested switches |
| core `Database`, `Attribute`, `Frame` | tables | lookups, `validate`, `lint` | consistent tables | overlaps of multiplexed signals |
| text `Lexer`, dbc `Parser`, `Writer` | position, diagnostics, tables under construction | tokens, statements, recovery, sections | an error is told of and loses little but its statement; what is written is read back | recovery, forward references |
| sim `Simulator`, `Ecu`, `FaultInjector` | next due times, counters, pending delayed frames, faults | `step`, `trigger`, `reset`, `toggle` | each cycle once, in time order | coarse steps, jitter, delays, toggled faults |
| sim sources, vehicle, config | waveform and vehicle state | `sample`, `step` | walks and integration steps depend on the time, not on the pace; replays identically | walks, left over time |
| tui `ViewModel` | counters, bounded trace, history, filter, paused | `ingest`, `snapshot`, `clear`, setters | counters agree with what was ingested | two threads ingest, timestamps may go back |
| tui `Dashboard`, cli `dash` | page, form, running flag, periodic messages | keys, two threads | the threads end | shared flags and lists |
| bench, fuzz | none | drivers | | |

Interaction: an application reads frames from an `IBus` and hands them to
`on_frame` of a `Client` or `UdsServer`, which hand them to their `Sender` or
`Receiver`; what the `poll` functions return goes to the bus. The lexer's tokens
go to the DBC parser, whose database the codec, the simulator and the view model
read. The simulator produces frames that go through the fault injector to the
bus or to the `ViewModel`, which the dashboard's thread reads and changes.
Nothing calls back; all state is passed by call and return, or, between the two
threads of `dash`, under a mutex.

`PROJECT.json` lists the hazards with their lines and the properties that would
catch them.

## 2. Plan

1. **Done.** ISO-TP: `IsoTp` (with the STmin encoding), `IsoTpSender` (with `IsoTpSenderWatch`),
   `IsoTpReceiver`, their composition `IsoTpLink`, its abstract specification
   `Mailbox`, and proofs.
2. **Done.** UDS: `UdsService`, `UdsServer`, `UdsClient` against an arbitrary
   peer, both together in `UdsDialogue`, and proofs.
3. **Done.** Bus: `CanFrame`, `VirtualBus` with arbitration, queues, clock and
   statistics, `VirtualBusWatch`, and the abstract `PriorityMedium`;
   `LogReplayBus`.
4. **Done.** Simulator: `SignalSource` (with the vehicle), `Faults`, `Ecu`,
   `Simulator`.
5. **Done.** `ViewModel` and the two threads that share it, `Dash`.
6. **Done.** Database: `BitField`, `Message`, `Codec`; `Lexer`; `DbcText`,
   `DbcParser`; and proofs about the bit fields.
7. **Done.** Proofs about the bus (it implements `PriorityMedium`), about what the
   ISO-TP sender puts on the wire and how it treats Flow Controls, about what
   the ECU stores, about what the dashboard shows, and about the simulator: its
   queue, its cycles, its counters, its pace, its reset and its frozen signals.
8. **Done.** Proofs that `IsoTpLink` implements `Mailbox`.
9. **Done.** Proofs that the UDS client hears its answer and is patient.

A run puts several independent parts of a library side by side when each of them
is small: `Init` chooses one of them and the others rest. Where two questions
differ only in what the environment does, that choice is a variable of the model
(`bus` in `IsoTpLink`, `way` in `UdsDialogue`). A property of a run is often the
conjunction of two or three named ones about the same hazard; the parts are
defined, with their own comments, above it.

## 3. Modules

| Module | Models | Correspondence |
|---|---|---|
| `StMinWalk` | a caller asking for one separation time after another | drives the operators in TLC, and proves what they compute |
| `IsoTp` | PDUs, field sizes, `Config` and `Config::validate`, padding, `st_min_to_ns`, `ns_to_st_min` | constants and operators used by both sides |
| `IsoTpSender` | class `Sender` | `snd` is the object's members; one action per state of `poll` that does something and per outcome of `on_frame` |
| `IsoTpSenderWatch` | nothing of its own: what a peer can remember | adds `watch`, an observer that never restricts the sender |
| `IsoTpReceiver` | class `Receiver` | `rcv` is the object's members; actions as above, and `reset` |
| `IsoTpLink` | both, a bus in each direction, and the owners' steps | instances of the two modules share the channels as their outboxes |
| `Mailbox` | the promise | messages come out whole, in order, at most once |
| `Uds` | service identifiers, response codes, request builders, the suppress bit | constants and operators used by both sides |
| `UdsService` | `UdsServer::handle` and everything below it, `add_dtc` | `ecu` is the members; one action per service with a disjunct per outcome |
| `UdsServiceWatch` | a tester that makes requests in any order | adds `watch`, what a tester knows of its download from the replies |
| `UdsServer` | `UdsServer::on_frame` and `poll` | the service layer behind a `Sender` and a `Receiver`; deferred answers |
| `UdsClient` | class `Client` | `cli` is the members, with its own `Sender` and `Receiver` |
| `UdsClientPeer` | a peer that sends any frame at any time | drives the client, with an observer |
| `UdsDialogue` | client, server and the loop of `canforge uds` and of the tests | instances share the channels as their outboxes |
| `CanFrame` | `CanId`, DLC tables, the constructors of `Frame`, acceptance filters | operators; an identifier's bits are a set |
| `VirtualBus` | frame time, `VirtualMedium`, `VirtualBus` | `net` is the medium, `bus` the participants, `call` the loop under way; one action per call and per turn of a loop |
| `VirtualBusWatch` | programs that use the bus, and a logic analyser | adds `watch`, every transmission and every frame taken |
| `PriorityMedium` | the promise | the lowest rank waiting goes next, one at a time |
| `LogReplayBus` | `LogReplayBus` | `replay` is the members, `pull` the call to `receive` under way; one action per call and per turn of its loop; `heard` is an observer |
| `SignalSource` | `SignalSource` and its kinds, `Vehicle` | functions of the time; the walks and the vehicle are records that are stepped |
| `Faults` | `FaultInjector` | one operator per fault, applied in order |
| `Ecu` | `Ecu::step`, `build`, `reset` | message by message, node by node |
| `Simulator` | `Simulator` | `sim` is the members; `step`, `trigger`, `toggle` and `reset` are actions, `watch` remembers what was produced and released |
| `ViewModel` | `ViewModel`, `SignalHistory` | operators on the record `view`, one per member function, since each holds the mutex |
| `Dash` | `Dashboard`'s keys and forms and `command_dash` | `producer` and `user` are the two threads, a step is what one does between two releases of a mutex |
| `BitField` | the four fast routines and the two reference ones of `Signal.cpp` | operators; a word is the set of its ones |
| `Message` | `SignalLayout`, `Signal`, `Message`; `Database::validate`, `lint` | operators |
| `Codec` | a caller of encode and decode | a frame is composed, rewritten signal by signal, received short |
| `Lexer` | `Source::normalise`, `Lexer` | operators on bytes; `Tokenise` is the one step |
| `DbcText` | the database and `write_string` | the lines of tokens it writes |
| `DbcParser` | `Parser`; a file parsed, written and parsed again | an operator per grammar function on the parser's record; a statement is a step |
| `MC...` | | values for TLC |
| `...Proofs` | | the theorems |

Abstractions in ISO-TP. A PDU is a record of what parsing yields: its kind,
whether the frame holds the fields the kind needs, the length or sequence
number, and the data with its padding. The identifier and address extension only
decide between a frame that is heard and a `Foreign` one. A deadline is the
number of 100 us ticks left; `now >= deadline` is "no ticks left". 100 us is the
grid of STmin, so no decoded STmin is rounded. Bytes are tokens that tell where
they come from. The field widths are constants (`SnModulus` 16, `CountModulus`
256, `ClassicMax` 4095 in the code) so that a small instance reaches every wrap.
`poll` returns at most one frame in each call, as in the code. The empty message
is left out of the link, because neither the client nor the server ever sends
one; on the wire it would be a Single Frame with length 0, which `on_frame` reads
as a CAN FD length escape.

Abstractions in UDS. Requests and replies are sequences of bytes, since both
sides take them apart byte by byte. Unsigned 32-bit words are numbers modulo
`Word`; the block counter wraps at `BlockModulus` (256 in the code). The seed the
clock gives and the key of a seed are constant functions (`SeedAt`, `KeyOf`);
the instances use the code's formulas in six bits. Statistics counters and
printable names are left out. The verify routine reads past `flash_` when more
was written than flash holds from its start; the model lets that read yield any
sum.

Abstractions of the bus. Identifiers have `BaseBits` and `ExtBits` (11 and 18 in
the code); a payload is only its length. A call that moves the clock is a loop,
and nothing else happens until it returns, since the library has no threads.
The same goes for `receive` of a replay, whose speed is a ratio of two numbers
of ticks; the speeds and offsets that the code replaces (not positive) are left
out. The two buses share the filters and nothing else, and each has behaviours
of its own in the run.

Abstractions of the simulator. Values, times and the vehicle's quantities are
integers; a sine is a table. The draws of the seeded generators are sequences,
so that a reset can be seen to start them again; which bit of a payload a
bit-flip hits is a function of the draw (`BitHit`), as the signal it belongs to
and its weight, or no signal. A frame is its message and the raw value of each
signal. What is encoded saturates to the declared range, and an out-of-range
fault to the bits. `watch.fine` is a second vehicle that is moved one tick at a
time with the same driver's events at the beginning of the same steps.

Abstractions of the dashboard. The filter is by equality where the code looks
for a part of the text; the mean period is kept as the sum of the periods; a
rate is over `RateWindow`. Drawing is left out, the panes are what a snapshot
returns. Timestamps wrap at `TimeWord`.

Abstractions of the database library. A 64-bit word is the set of the positions
of its ones. Physical values are integers in a unit that makes factor and offset
whole, with an infinity and a NaN; the two float formats are constants. Numbers
in a DBC file are halves, so that some have a point, and `m<n>` is one word with
its number. The parser sees tokens and not text: the lexer has its own part of
the run. A file that is read is the lines of a written one, with a token
replaced, a token lost, or a line added as other tools write it.

## 4. Runs

| Run | Question | Bounds | States |
|---|---|---|---|
| `isotp` | does each side keep to the protocol whatever the peer does, and is STmin encoded as the quickest that is not too fast? | sender: messages of 0, 7, 8, 20 and 31 bytes in 8 byte frames, on both sides of every boundary (`ClassicMax` 24), all kinds of Flow Control at any time, 3 tick N_Bs, moduli of 4. Receiver: good, bad, short, long and out-of-order PDUs, First Frames at and beyond a 42 byte buffer, 2 Flow Controls. STmin: every 50 us up to 128.5 ms, and 1 ns to either side | 52 071 |
| `link` | is what comes out what went in, does everyone come back from loss and delay, and does a reliable bus deliver everything? | reliable, lossy and slow bus; extended addressing, no padding; 5 messages, one of them too long for the receiver; 3 transfers | 47 811 |
| `uds` | can any peer hold, hurry or mislead the client; can any order of requests corrupt a download or leave the ECU unlocked? | client: 3 requests, 13 frames in any order, P2 3 and P2* 4 ticks, 2 responsePending. Server: sessions, security, 9 download ranges (good, outside, wrapping, malformed), 3 block numbers, erase and verify, every service with good and bad requests; flash of 3 bytes, words of 6 bits, block counter modulo 3, up to 3 DTCs | 375 981 |
| `uds_dialogue` | do client and server understand each other? | in the loop, in the loop with any frame lost, over a bus in any order, and through security to an erase (outlasting P2) and a download block | 734 923 |
| `uds_late` | and when the answer comes after the client gave up? | over a bus, an erase that outlasts P2*, 6 different requests | 68 917 |
| `bus` | does the medium arbitrate, deliver and count, is a recording replayed in its order, first at its pace and then at once, and does every call return? | 3 participants, identifiers of 1 and 2 bits, a classic and an FD frame, queues of one, 3 frames offered, one change of mind (close, destroy, filter). Recordings of 0, 1 and 5 records out of order and two at one time, 4 speeds, looped or not, offsets within and beyond them, 6 calls with timeouts 0, 1 and 4, 2 other calls between them | 395 375 |
| `sim` | do frames leave once, in time, with right counters; is a replay a replay? | 2 nodes, 4 messages (cyclic, with jitter, event, on change), six faults, a vehicle with two gears, 5 steps of 1, 3 or 10 ticks, 2 commands (trigger, toggle, reset) | 98 793 |
| `view` | do the numbers on the screen belong together whatever the two threads do? | trace and history of 2, 2 passes of the simulation's thread, 3 keys of 8, one word typed into each field | 505 977 |
| `database` | does the fast codec do what the definition says; do values survive; are databases read as written, and what does damage cost? | every field width class at every offset in 10 bytes, signed, scaled, float, nested, ranged and cyclic multiplexing; every subset of the features of a database; every token of one replaced or lost, statements of other tools; all texts of up to 3, 4 or 5 bytes over five alphabets | 128 168 |
| `uds_repeat`, `uds_verify`, `dbc_loose` | findings, below | as `uds` and `database` | violations |

What the properties of the runs say, in short (their comments say it in full):

- `isotp`: `OkMeansAllSent`, `WireCarriesMessage`, `ReceivedWhole`,
  `EncodingIsQuickest`, `FlowControlObeyed` (block size and spacing), `EndsOnTime`
  (N_Bs and WAITs given in full, what has ended stays ended).
- `link`: `EveryMessageArrives` on a reliable bus, `ImplementsMailbox`,
  `BothSidesFinish`.
- `uds`: `DownloadIntact`, `UnlockedOutsideDefaultOnly`,
  `StoredOnceAndToldAsStored`, `AnswerWasHeard`, `EndsWithPatience`.
- `uds_dialogue`, `uds_late`: `AnswersThisRequest`, `HandledAsAsked`,
  `LosslessNeverFails`, `SessionIsShared`, `EveryRequestEnds`.
- `bus`: `OnTheWire`, `FramesOnceAndInOrder`, `CallsReturn`,
  `ImplementsPriorityMedium`.
- `sim`: `LeavesOnceAndInOrder`, `KeepsItsCycle`, `CounterAndChecksumHold`,
  `OnlyTheDriverFeelsThePace`, `ResetReplays`, `FrozenSignalsStay`.
- `view`: `StatisticsAreTrue`, `PanesShowTheLatest`, `QuitEnds`.
- `database`: `FastPathIsTheDefinition`, `ValuesSurvive`, `MultiplexingIsExact`,
  `RoundTripHolds`, `RecoversFromDamage`, `TokensCoverTheText`,
  `EveryStatementMovesOn`.

Small numbers are enough because the code compares counters with limits and each
other, and the bounds put a value on both sides of each comparison: the sequence
number and the block and WAIT counters wrap within one message, blocks are
smaller than messages, messages end on, before and after a frame boundary; the
block counter of a download wraps before flash is full; a queue of one is full
after one frame; a recording of five is looped within six calls, and a timeout
of 4 passes over a frame that is refused; a step of 10 ticks skips two cycles and a step of 1 none; the
trace and the history overflow in the second pass; fields start at every bit of
a byte and span one to nine bytes.

The three buses of `link`. A reliable bus drops nothing, and a transfer starts
when the message before was taken. A lossy bus drops any frame and transfers
overlap. In both no time passes while a frame is under way or a poll is due.
On a slow bus time passes at any moment, and there is one transfer: with two,
`ImplementsMailbox` does not hold, because a Flow Control of the first transfer
that arrives more than N_Bs late is taken by the second, and when the second
First Frame is lost its Consecutive Frames complete the first message. ISO
15765-2 has nothing on the wire to tell them apart, so the code cannot do better.

The ways of `UdsDialogue`. "loop" is the pump of `cli/src/canforge.cpp` (and of
`test_uds.cpp`): poll the client, feed the server, poll the server, feed the
client, move the clock. "lossy loop" is that loop with any frame lost. "bus"
polls and feeds in any order and lets time pass when neither side has anything
to do. Three things can go wrong over a bus that `AnswersThisRequest` would
report and that the requests of those runs leave out, because UDS itself cannot
tell the cases apart or the code makes no promise: a refusal of a suppressed
request that arrives after the next request was made; the late answer to an
identical earlier request; and a 0x78 that the server is still sending when the
final answer comes due, which the final answer replaces.

Fairness. The specifications of the ISO-TP and UDS runs are weakly fair to the
polls, the deliveries, the collection of messages and time, because an
application's loop reads its bus, polls and looks at the results in each turn;
not to starting a transfer or a request (nobody has to send), to a peer's
frames, nor to the loss of one. `bus` is weakly fair to the turns of a loop that
has begun, of a virtual bus or of a replay: it goes on, in one thread, until it
ends. `view` is weakly fair to
the simulation's thread and to the join, since the operating system runs every
thread; not to the user's keys. `sim` and `database` need none.

`CHECK_DEADLOCK FALSE` stands where a bound ends the behaviour: transfers, keys,
steps and files come to an end. `link`, `uds`, `uds_dialogue` and `uds_late` are
checked for deadlock.

Findings.

- `uds_repeat`: the block before block 1 is computed as 0 after the counter has
  wrapped from 255, so a repeat of block 255 is refused although the code and a
  test promise that a repeat is accepted.
- `uds_verify`: the verify routine sums flash from its base and not from where
  the download began.
- `dbc_loose`: a DBC file with an attribute assigned before it is defined, with
  an enumeration value that is not of the list, or with a fraction as the bound
  of an `INT` is read without a diagnostic and comes back different after it is
  written, although `Writer.hpp` promises that parsing, writing and parsing again
  compares equal.

Noticed while modelling, and not kept as runs.

ISO-TP and UDS:

- with `use_can_fd` `IsoTp.hpp:157` promises Single Frames of up to 62 bytes;
  `begin` (`IsoTp.cpp:172`) segments from 8 bytes on;
- with `wft_max` 255 the eight-bit WAIT counter (`IsoTp.cpp:318`) wraps before it
  exceeds the limit, and a waiting peer holds the sender for ever;
- `max_receive_length` (`IsoTp.hpp:148`) is checked for First Frames only, a CAN
  FD Single Frame may exceed it (`IsoTp.cpp:451`); `validate` (`IsoTp.cpp:86`)
  does not compare STmin with N_Cr;
- a seed that happens to be 0 (`UdsServer.cpp:269`) reads as "already unlocked";
- a session change whose answer is suppressed is not recorded by the client
  (`Uds.cpp:262`), nor does it send keepalives after a request that failed
  (`Uds.cpp:295`);
- a deferred answer that comes due while the 0x78 is still owed overtakes it
  (`UdsServer.cpp:111`).

Bus and recordings:

- `detach` with a frame in flight (`VirtualBus.cpp:22`) leaves
  `current_sender_` pointing at the participant that is gone; only the address
  is compared;
- `IBus.hpp:102` says `dropped` counts overruns and filtered frames;
  `VirtualBus.cpp:43` counts no filtered frame;
- `bus_load` takes a first timestamp of 0 for none (`VirtualBus.cpp:128`,
  `ViewModel.cpp:100`);
- `match_format` of a filter is handed to the kernel differently
  (`SocketCanBus.cpp:198`) than it is applied in software;
- a looping `LogReplayBus` whose records are all due and all refused by the
  filters never leaves `receive` (`LogReplayBus.cpp:82`); `CallsReturn` excepts
  this case and no other (`LoopsForNothing`);
- `LogReplayBus.cpp:83` says that looping restarts the timeline and leaves one
  frame time before the first repeat; the index starts again and the clock does
  not, so that every repeat is due at once. `KeepsItsPace` says both: the pace
  in the first round, and that the frames of all later rounds come at one time
  (unless the offset skipped the whole first round);
- `rewind` sets the clock to the offset in recorded time (`LogReplayBus.cpp:50`)
  and due times are divided by the speed (`LogReplayBus.cpp:97`): sped up, the
  frames after an offset come in a burst, slowed down, after a wait; the offset
  is not skipped again in later rounds.

Simulator and dashboard:

- the driver's events that a step reaches are applied before the vehicle is
  integrated over that step (`Simulator.cpp:125`), so that they take hold at its
  beginning, earlier than their time: what the vehicle does depends on the pace
  in this way, and `OnlyTheDriverFeelsThePace` says that it does in no other;
- a fault that freezes a signal, switched off and on again, repeats the value it
  froze first (`Faults.cpp:117`; `Faults.hpp:24` reads otherwise);
  `FrozenSignalsStay` states what the code does: the value is kept until the
  reset, and every frame produced while the fault is on, and none that writes into
  payloads is, carries it, whether it leaves with its step or is delayed;
- a frame the user transmits by hand is ingested with timestamp 0
  (`canforge.cpp:689`), which makes rates and periods jump until the view is
  cleared;
- "p send every 100 ms" (`Dashboard.cpp:298`): the periodic messages go out in
  every pass of the thread (`canforge.cpp:627`);
- "Text inputs get first refusal" (`Dashboard.cpp:430`): q, return, p and x act
  while a field is being typed into.

Databases:

- `lint` promises "Every problem found, not just the first."
  (`Database.hpp:100`), and compares groups of multiplexed signals by their first
  value alone (`Database.cpp:176`): with ranges it misses overlaps;
- a chain of switches longer than 8 is given up (`Message.hpp:90` says "to
  arbitrary depth");
- two typos cost more than their statement, although `Parser.hpp:12` says that a
  single one does not hide the others: a damaged `SG_` line makes the parser skip
  the signals that follow it in the message, since `SG_` is no keyword to resume
  at, and a list of receivers whose last name is lost runs on into the next
  statement (`Parser.cpp:191`) and takes it along. `RecoversFromDamage` states
  what is kept: everything that can be read from the file without the damaged
  statement and, in these two cases, without what they take; and that damage is
  reported, unless the statement can do without the token (`CanBeSpared`);
- `Diagnostic.hpp:59` says "in source order"; diagnostics are in the order they
  were reported;
- a list of names swallows the keyword of the next statement when its own end is
  missing; an identifier of 64 bits is cut to 32 (`Parser.cpp:206`).

## 5. Proofs

All from the named assumptions of the modules and for every value of the
constants that satisfies them; TLC evaluates each assumption on the instance of
a run. Where TLC can evaluate an inductive invariant, it checked it on the
instance of a run before it was proved.

Assumptions. `ProtocolAssumption` and `ConfigAssumption` are what
`Config::validate` and the formats require. `ServiceWidths`, `WatchInputs` and
the like give types to the inputs. `Limits`, `IdWidths`, `Rates`, `WatchBounds` and
`TrafficIsFrames` say that queue limits, identifier widths and bit rates are
numbers, that each participant is attached once, and that programs send frames.
`DashInputs` gives types to the frames and numbers to the capacities of the
view; its `WatchBounds` also says that the passes of a run do not take the clock
to the end of its 64 bits.
`WatchAssumption` says that the watch can count as far as the waits it judges.
`TransmissionsAreKnown`, `WalksAreKnown`, `VehicleIsBuilt`, `FaultsAreKnown` and
`SimulationIsBuilt` are what the configuration of a simulation gives: durations
and delays are unsigned, a signal holds more than one value, modes and kinds are those of the enumerations, the
vehicle is integrated in steps that take time, and nodes transmit the messages
of the database.

- `StMinWalk`: `QuickestIsChosen` (for every nanosecond value, never faster
  than asked and of the bytes that honour the request a quickest one) and
  `EncodingRoundTrips`. Rounding up is bounded from both sides
  (`RoundedUpCovers`), every byte means a delay on one of two grids
  (`DelaysAreOnTheGrid`), and the rest is arithmetic on the branches.
- `IsoTpProofs`:
  - `SenderTypeCorrect` and `OkMeansAllSentHolds`. `SenderInv` adds that a message
    about to be segmented is longer than a Single Frame, so that its First Frame
    leaves something for a Consecutive Frame.
  - `WireCarriesMessageHolds`: the frames sent carry the message. `WireInv` ties
    the members to the wire: the offset is where the last frame ended, and the
    sequence number is the number of Consecutive Frames modulo `SnModulus`.
  - `FlowControlIsObeyed`: block size, STmin and N_Cs. `WatchInv` says that what
    the peer remembers and what the sender counts agree (`KeepsTheGrant`: the
    block counter is what is left of the grant, and the separation timer covers
    what is missing of STmin; `KeepsPatience`: the N_Bs timer covers the silence).
  - `TransferEndsOnTime`: N_Bs and WAITs are given in full, and what has ended
    stays ended. It has the hypothesis `WftMax + 1 < CountModulus`, since with
    `wft_max` 255 the 8-bit counter wraps and the statement is false (see the
    findings).
  - `ReceiverTypeCorrect` and `ReceivedWholeHolds`. The invariant
    `ReceiverInv` adds that only a finished receiver has a result, that an
    idle one has an empty buffer, and that a reception that goes on passed
    the check against `max_receive_length`. The types are not inductive
    alone: the subtraction in the Consecutive Frame handler stays in the
    naturals only because the buffer never outgrows the announced length.
- `IsoTpLinkProofs`: `LinkIsAMailbox`, the refinement of `Mailbox`, with the
  hypothesis `OneAtATime`: the bus is reliable or slow, or a single transfer is
  allowed. That covers every delay, timeout and, within one transfer, every loss.
  `LinkInv` follows the latest message: the frames under way continue it from
  the byte where the receiver stands to the byte where the sender stands
  (`OnWay`), and what the receiver has buffered is the message up to there or,
  after a loss of as many frames as the sequence number counts, which it cannot
  notice, too little to become whole before the frames run out (`Fed`). That
  last part is what keeps a truncated sequence number from ever letting a
  message with a hole through. Types, timers and Flow Controls do not matter for
  it: nothing that can be in the other channel makes the sender skip a byte.
  When transfers overlap, on the lossy bus, they do matter: the next message's
  frames could fill the hole of the last one if a Flow Control were ever left
  over. There the property stays with TLC.
- `UdsProofs`, of the ECU:
  - `LockedInDefaultSession`, by cases on the services (`SecurityInv` adds only
    what the object is made of).
  - `DownloadStaysIntact`. Its invariant `DownloadInv` says that as long as the
    tester has seen no refusal in the middle of a download (`Tracked`), it and the
    ECU agree on where the image starts, on its length, on how much is written and
    on the next block, and that an image that has begun lies within flash. The last
    part is what makes it inductive: the offset of a write is an unsigned
    expression, and only because the written part is within flash does the offset
    of the next block not wrap. It needs `FlashSize` and `FlashBase` below `Word`
    and nothing else of the numbers.
  - `StoredOnceToldAsStored`: a repeated block writes nothing (`BlockInv`: while a
    download is active the block the tester sent last is never the one the ECU
    expects), and the list of trouble codes reads back as it is stored. Clearing
    and selecting codes is a recursive function over the list; `OnlyThoseType`
    proves by induction what it yields.

  And of the client, from `ClientInv`, against a peer that sends any frame at any
  time:
  - `AnswerIsHeard`. While an answer is awaited the receiver is in one of five
    ways related to what the peer was heard to send (`HearsInv`): fresh with
    nothing heard, failed for good, about to turn a message down, holding the
    front of what was heard as far as the announced length, or holding all of it.
    A frame appended to that front gives the front of one frame more
    (`FrontGrows`), padding cut off. What makes it inductive is that the receiver
    is fresh whenever the wait begins or begins anew: `request()` resets it, no
    frame reaches it while the request goes out, and `poll()` resets it as it
    takes a message.
  - `PatienceIsKept`, the safety half of `EndsWithPatience`: the time waited and
    the time left add up to P2, or to P2* once a responsePending came
    (`PatienceInv`).
- `VirtualBusProofs`: `BusInv` is the invariant of the bus (`BusInvAlways`). Frames
  are numbered as they are offered, a number is in one place only
  (`FramesAreNumbered`); the wire is an ordered record of transmissions of which
  the last may be in flight (`WireInOrder`), and the clock is bounded by its end
  and by the target of the call that runs (`ClockInBounds`); what a participant
  has and took is a subsequence of the wire (`FromTheWire`); one that is not
  attached is empty (`Strangers`); and the most urgent frame is the next one
  (`UrgentIsNext`). None of the properties is inductive alone. From it
  - `OneFrameAtATime`, the property `OnTheWire` of the run;
  - `FramesComeOnceAndInOrder`, the virtual bus's half of the run's
    `FramesOnceAndInOrder`;
  - `ServesByPriority`, the refinement of `PriorityMedium`: offering, winning
    and landing are its steps, a close withdraws what waits, and every other step
    leaves it alone.

  The other half is about the replay of a recording, and `ReplayInv` is its
  invariant. From where the search for the next frame began up to the index the
  filters let nothing through; in the first round the clock has not passed the
  next due time or the offset, whichever is later, which is why a frame comes at
  its due time whatever the timeouts were (`FirstRoundInv`); in a later round
  everything is due, unless the offset skipped it all, so that no call gives up
  any more and the clock stands, and the search has either
  passed the end once or begun in this round (`LaterRoundInv`). The two rounds are
  told apart by what was heard: a frame whose place lies before the one looked
  from (`Broken`). That there is an order to sort into is an induction on the
  records (`OrderExists`); that due times grow is arithmetic (`ScaledGrows`). With
  it `FramesComeInOrderFromEither` states `FramesOnceAndInOrder` for both buses,
  any recording, speed, offset, filters and timeouts.
- `DashProofs`: `StatisticsStayTrue` and `PanesStayCurrent`, the two invariants of
  the `view` run. Every step of either thread does one of three things to the
  view: a frame arrives, the user looks at it differently, or clears it
  (`ViewStep`); `ViewInv` is preserved by each. It relates the view to what
  `watch` saw arrive: the counters are cardinalities of arrivals; the times in
  the window are those of the latest arrivals, everything before them is older
  than the window, and time does not go back (`TimeIsKept`, as long as nothing
  was sent by hand, whose frames carry the time 0); what the trace and the plot
  hold is the latest of what they should (`TraceIsKept`, `PlotIsKept`). That the
  latest of the latest and one more are the latest of all and one more is
  `LatestOfLatest`; that there are a minimum and a maximum at all is an induction
  on the samples (`ExtremesExist`). `ClockInv` bounds the clock by the passes
  made, so that no time has wrapped.
- `SimulatorProofs`: `SimInv` is the invariant of the simulator, and from it follow
  - `FramesLeaveOnceAndInOrder`. The queue is in turn and in the future, what has
    left did so in turn, once and at its time, and every waiting frame comes
    after it (`Flow`); the frames dropped are those produced less those that
    left and those that wait (`Balance`). That a frame is inserted after what is
    due at the same time and that the queue is sorted by that (`SortedInTurn`) is
    induction on the insertions.
  - `CyclesAreKeptAlways`: any frame of a steady message is earlier than the time
    at which the message is due next, by more than a cycle for each frame that
    came since (`Rhythm`). The due time alone does not tell this: it is the skip
    forward that keeps the distance.
  - `CountersAndChecksumsHold`, under the hypothesis `StampsAreSeparate`: no binding
    drives a checksum, and it is not the counter too. The code takes it for granted
    that the checksum reads as zero when it is computed, "because the frame
    started empty"; where a binding has written it before, the sum covers what was
    bound. The counter of a message is the number of its frames (`Sequence`). A
    message that goes out when it changes always does, if it has a counter: it
    remembers the frame before, whose counter was another one (`Remembers`), which
    needs a counter that holds more than one value.
  - `PaceIsFeltByTheDriverOnly`: a walk is where its index says, its value one that
    depends on nothing else (`WalkOK`); the steps of the vehicle and what is left
    over add up to the time since the first step (`PlantTime`); and the vehicle is
    the one that is moved tick by tick, given the driver's events at the same steps
    (`Driver`: the next event is the first that is not reached yet). A step of n
    ticks is n steps of one by induction on n, whatever was left over.
  - `ResetAlwaysReplays`: reset only touches the walks that some message samples,
    which is enough because the others have never moved (`WalksOK`).
  - `FrozenSignalsAlwaysStay`: every fault keeps the slots that are filled
    (`KeepsIce`), and, as long as neither of the two faults that write into
    payloads is active, once a freeze has shown its value in a frame no later
    fault of the list takes it out again (`Thawless`, `FrozenThrough`). What the
    frames of a step show they still show after the frames that follow, and
    sorting the queue and releasing its front change none of them (`SortedIs`).
    The slot holds what was captured; the frame carries it as it can be encoded,
    which for a signal that nothing drives and whose range leaves out 0 is not the
    same number.

  A step folds over messages, bindings, faults and commands, and a fold is a
  recursive function; each is taken apart by an induction on sets of numbers
  (`SetInduction`).
- `CodecProofs`: `DecodeIsTheDefinition` and `EncodeIsTheDefinition` take the
  four fast routines, each by the cases of its code (up to eight bytes, or
  reaching into a ninth), to the bit by bit definition, for every start, length,
  order and payload; `ReadsBack` and `OthersAreLeftAlone` say that a field that
  was written is read again, and that one that shares no bit with it is as
  before. `CodecIsTyped` says that a frame stays a payload and that what was
  meant fits it, through `encode()` (an induction over the values it writes:
  `WritesAreOfSignals`, `EncodeMakesAPayload`, `OnlyTheWrittenIsMeant`), single
  signals, raw words and frames cut short. With it `FastPathIsExact` and
  `FramesAreMultiplexed` state two properties of the `database` run in every
  state.

  Multiplexing rests on the sets of signals that are there when so many switches
  may be asked (`Climb`): they grow (`ClimbGrows`), the shorter the frame the
  smaller they are (`ShortFramesSelectLess`), and the last one no further question
  changes (`ClimbIsOver`), so it is a fixed point and below every other
  (`ActiveAreSelected`). That last fact needs `ChainsAreShort`: the code gives up
  after `MaxDepth` switches, to be safe from cycles, and would leave out what hangs
  on a longer chain that is none. The theorem has it as its hypothesis, and
  `MCDatabase` assumes it of its messages, which TLC checks. That no bit is read
  twice follows from `lint()` having compared the groups, in either order
  (`OverlapIsAProblem`), and two groups that are both there having the same value.

  Values (`SignalsSurvive`, the property `ValuesSurvive`) take two arguments. One is
  the word of a value. 2^n doubles with n because there are that many words of n
  bits (`PowersDouble`), so a bit more of a number is a bit more of its remainder
  (`OneMoreBit`) and the bits of a number within a width are that number again, in
  two's complement or not (`UnsignedReadsBack`, `SignedReadsBack`); rounding goes at
  most half a step (`RoundsToNearest`), so saturating after it is nearest to what
  saturating gives, whichever sign the factor has (`SaturatedIsNearest`), and what is
  nearer than half a step is what it is rounded to (`NearIsRounded`), from which the
  texts follow. The other is the frame: it carries the word of everything that is
  meant (`MeantInv`), because a write carries its own and leaves alone what shares
  no bit with it (`WritingIsNoted`), through all the writes of `encode()`
  (`ComposingIsNoted`) and when it is cut short. The hypothesis, `ValuesAreExact`, is
  where the arithmetic of the model is that of doubles: what is written to an
  integer signal is a number, and the signal has at most 53 bits, as many as a
  double has digits; what is written to a float is a number the format holds. TLC
  checks it of the messages and values of `MCDatabase`. An integer signal of 54 to 64
  bits is covered as bits, by `ReadsBack`, and not as a number, which the code
  rounds to a double.

Only model-checked: overlapping transfers on a lossy link; the dialogue of
client and server, whose invariants would have to hold at once of both sides of
two transfers and of every frame between them; DBC files, whose parser is made of
recursive operators, out of the provers' reach; and the lexer (`TokensCoverTheText`),
whose extents are recursive functions of the text read backwards. All liveness
(`CallsReturn`, `EveryRequestEnds`, `BothSidesFinish`, `QuitEnds`) stays with TLC,
since TLAPS does not prove it under fairness.

## 6. Not modelled

- `SocketCanBus`: system calls; filters are the kernel's.
- The log formats and inflate: byte level formats read in one pass, which TLC
  cannot enumerate beyond a handful of symbols.
- `Config`: a reader of a TOML file that keeps no state.
- Drawing, argument parsing and the other commands of the cli; the benchmark and
  fuzz drivers.
- Within ISO-TP: bit rate switching and the N_As and N_Ar timeouts, which the
  code declares and never uses. Within UDS: the statistics counters and the
  printable names of codes. Within the bus: `bus_load`, and the exact number of
  stuff bits, which the code estimates too; the file a replay reads and the sleep
  of a real time one. Within diagnostics: their wording
  and layout.
