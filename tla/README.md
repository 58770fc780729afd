# TrainUtils in TLA+

TrainUtils is a collection of C libraries for the buses of a model railway (LCC,
LocoNet, CabBus, DCC) and a Qt program, the *train GUI*, that is built on them. This
directory holds TLA+ models of its protocol code, the TLC configurations that check
them on small instances, and proofs of their main properties for every instance.

Contents: [the system](#1-the-system), [what is hard](#2-what-is-hard),
[modules](#3-modules), [runs](#4-runs-bounds-and-fairness), [proofs](#5-proofs),
[findings](#6-where-the-code-and-its-documentation-disagree),
[not modelled](#7-what-is-not-modelled), [plan](#8-plan), [how to run](#9-running).

## 1. The system

For every component: its state; what it does; with whom it talks; what makes it
correct. **M** marks the modelled ones, (**M**) those modelled in part.

### LCC (OpenLCB over CAN): `LCC/`, a C library without threads

The library is called with one CAN frame at a time (`lcc_context_incoming_frame`) and
writes frames through a `write_function` of its user. All waiting is the user's: the
library has no clock.

| component | state | operations | correct when |
|---|---|---|---|
| **M** alias negotiation, `lcc.c` | alias, alias state, inhibited/permitted | generate alias (4 CID frames), claim it after a wait, defend it when frames with it arrive | no two nodes have an alias; a node that collides tries the next |
| **M** remote memory client, `lcc-remote-memory.c` | alias and kind of the one outstanding request | read, write, query space, update complete; cancel; handle Datagram OK, rejection, reply | what it waits for is what its user waits for; a success is genuine |
| **M** datagrams, `lcc-datagram.c` | one incoming datagram, flags of the outgoing one | send in frames, assemble, acknowledge, reject | datagrams of two senders do not mix; one answer per datagram |
| **M** memory server, `lcc-memory.c`, and firmware upgrade | callbacks, freeze state, "in a write callback" | answers commands for its address spaces | each command gets one answer |
| **M** events, `lcc-event.c` | sorted lists of produced and consumed events, transaction flag | add, remove, produce, identify | the lists are sorted whenever they are bisected; a consumer is told |
| (**M**) node information, `lcc-network-info.c`, `lcc-simple.c`, `lcc-addressed.c` | table of nodes, strings assembled from frames | alias enquiries, simple node information | an entry describes the node that has its alias |
| **M** GridConnect, frame fields, memory map | a text buffer; a list of segments | conversions, lookups | inverse of each other; damage stays where it is |
| **M** accessory events | none | addresses to event IDs and back | inverse of each other |
| **M** writing the CDI, `lcc-cdi-control.c` | none | text from tables, buffer by buffer | what a reader gets says what the tables say |
| clock, throttle and traction | setters and getters | - | - |

### The LCC part of the GUI: `GUI/lcc`, Qt signals and timers in one thread

| component | state | operations | correct when |
|---|---|---|---|
| **M** `LCCConnection` (memory requests) | `m_request_order` and per-kind lists, `m_requesting_memory`, a timer, retries | make a request, send the next, retry, time out, finish a reply object | requests go out in order, each gets one outcome, the queue never stalls |
| **M** `LCCQIoConnection` (alias) | a 200 ms timer | generate an alias when the connection is made, claim it or try again | as alias negotiation |
| **M** `SegmentMemory` | copy of one address space, read state, "invalid" | read the whole space block by block, read or write a range, signals for its users | the copy is what the node has |
| (**M**) event graph, `EventGraphController` and `EventGraphModel` | per node: state of its load, spaces to read; pins, directions, staged and pending changes | load, reload, connect, stage, discard, apply | the graph shows the copy; a change is not lost; a load ends; a link joins pins of one event |
| (**M**) event graph view, `eventgraphwidget.cpp` | what is expanded, filtered and searched | rows, ends of lines, undo | every link is drawn and can be undone |
| **M** CDI editor | fields, changes, writes in flight, spaces to read | read all, write, the menu of a value | what is shown is what the node has; buttons come back |
| **M** CDI reading, layout and values | none | XML to elements, elements to addresses, bytes to widgets and back | what was written is read; a value nobody changed is not written differently |
| **M** network view | rows per node | refresh, query a node | the table is true when the bus is silent |

The objects share state in a way that makes the order of events matter:
`LCCConnection` emits `finished()` of a reply object from inside the handler of a
frame; the handler of `SegmentMemory` then changes the copy, emits its own signals to
the event graph *and* to the CDI editor, and may make the next request, which is
queued because `m_requesting_memory` is still set.

### LocoNet: `LocoNetCommunications/`, `GUI/loconet`, `LoconetTCPUtil/`

| component | state | operations | correct when |
|---|---|---|---|
| (**M**) byte buffer, `loconet_buffer.c` | receive buffer, bus state (idle, priority delay, backoff), outgoing message | add a byte (interrupt), process, timer tick, write a message, echo check | a good message is delivered once; garbage is skipped; one sender at a time |
| **M** throttle, `loconet_throttle.c`, `loconetthrottle.cpp` | slot, state of the request | select, steal, null move, drive, release, dispatch | it drives what its user selected and lets go when told to |
| **M** turnouts, sensors | packed caches | messages to states and back; throw and close | what is read is what was last reported; all programs agree |
| (**M**) `LoconetConnection` | send queue, 50 ms timer, turnouts | queue a message, send one per tick, hand on what comes | order |
| **M** `LoconetProgrammer` | queue of requests, state of the one at the front | read and write CVs in service and operations mode | each request completes once; the queue goes on |
| **M** `SpeedMatcher` | phase, timers, throttle, measurements | measure, program; abort | nothing moves after the end; a table is of its own run |
| **M** slot monitor, usage, (**M**) message printer | tables and text | one message at a time | a row shows what was said last |
| TCP client | text of a line | - | - |

### CabBus and DCC

| component | state | operations | correct when |
|---|---|---|---|
| **M** master, `CabBus.c` | cab that is asked, two bytes | ping, interpret the answer in a window of time, send the screen | a key is the asked cab's; every address is asked |
| **M** cabs, `cabbus_cab.c` | menu, screen, number that is typed | keys, setters | the screen shows what the master holds |
| **M** bridge, `CabBusToLoconetComputer/` | per cab: slot, request, direction | commands of cabs to LocoNet, messages to screens | cabs hold the slots they use |
| **M** decoder, `DCC/` | half bits, bytes, last packet | an interrupt per edge, `pump_packet` in the main loop | packets are found; only a checked one is handed on |
| firmware, `CabBusToLoconet.X/` | - | - | - |

### The rest of the GUI

Panels, speedometers, main window, connections and settings, service discovery
(Avahi), vendored ImGui widgets: widgets and drawing without a protocol.

## 2. What is hard

`PROJECT.json` lists the hazards with their lines. In short:

* **Three answers for one request.** A memory write is finished by Datagram OK without
  "reply pending", by a reply datagram, by a rejection, by a timeout, or not at all.
  After a timeout the real answer may still come.
* **Two records of one fact.** `m_requesting_memory` in the GUI and
  `current_requesting_alias` in the library; the copy in `SegmentMemory`, the pins of
  the graph and the memory of the node; `m_staged`, `m_pendingWrites` and the queue;
  `m_writesOutstanding` and `m_writesInFlight`; the screens of cabs and their dirty bits.
* **Wakeups by timers.** The memory queue is continued by `singleShot` timers only; the speed
  matcher's two timers go on while buttons and results come.
* **Sharing.** The event graph and the CDI editor read and write one copy; each hears
  the other's `memoryReadCompleted` and `writeFinished`. Views, graph and other nodes ask one
  node at the same time, and its answers name nobody.
* **Full buffers.** A frame that `write_function` refuses is lost for good.
* **Symmetry.** Two nodes whose identifiers lead to the same alias and that start at
  the same time.
* **Reads of any size.** The bytes of LocoNet come in pieces; a message may be cut anywhere, be
  preceded by garbage and overflow the buffer, and a checksum is carried from one to the next.
* **Answers without a name.** LocoNet's replies to a programming request or a null move do not say
  which one they answer; every programmer or throttle of a connection gets all of them.
* **Interrupts.** In the DCC decoder one overwrites the packet that is being checked; on
  CabBus the bytes of a late answer fall into the window of the next cab.

## 3. Modules

| module | models | composed with |
|---|---|---|
| `RequestQueue` | what `LCCConnection` promises its callers: an abstract specification | implemented by `MemoryRequests` |
| `MemoryRequests` | `lccconnection.cpp` (requests), `lcc-remote-memory.c`, the part of `lcc-datagram.c` they touch, a lossy bus, slow nodes | refines `RequestQueue` |
| `AliasNegotiation` | `lcc.c`, `lccqioconnection.cpp`, `lccnetworkconnection.cpp`, the loop of `examples/simple-node` | - |
| `DatagramServer` | `lcc-datagram.c`, `lcc-memory.c`, `lcc-firmware-upgrade.c` of a node that others configure | the other end of what `MemoryRequests` asks |
| `LccNodes`, `EventList` | devices that announce themselves and answer; event lists with bisection; the GUI's table of nodes | `LccNodes` EXTENDS `EventList` |
| `EventGraphWrites` | `eventgraphcontroller.cpp`, `eventgraphmodel.cpp` (staged changes), `segmentmemory.cpp`, `LCCNode::readCDI`, the writes of `cdieditorwidget.cpp` | rests on what `MemoryRequests` shows of the queue |
| `CdiEditor` | `cdieditorwidget.cpp` with `segmentmemory.cpp`, values of several blocks | as above; the graph's writes and reads are its environment |
| `EventPins`, `GraphView` | pins, directions, links, connecting (`eventgraphmodel.cpp`); what `eventgraphwidget.cpp` makes of them | `GraphView` EXTENDS `EventPins`, uses the layout of `CdiDocument`; `GraphSamples` evaluates both |
| `CdiDocument`, `CdiFields` | reading and writing a CDI, layout and pins; what the editor shows and writes of a value | evaluated with `CdiEditor` |
| `BusFormats`, `AccessoryEvents` | GridConnect, frame fields, simple node information, memory map, DCC packets; accessory events | evaluated with `LccNodes` |
| `LocoNetBuffer` | `loconet_buffer.c` (the receive buffer, `loconet_context_process`, interlocked writing), its use in `loconetserialconnection.cpp` | - |
| `LoconetProgrammer` | `loconetprogrammer.cpp`, the send queue of `loconetconnection.cpp`, a command station | sits on whole messages, as `LocoNetBuffer` delivers them |
| `LocoControl` | what a throttle promises its user: an abstract specification | implemented by `LocoNetThrottles` |
| `LocoNetThrottles` | `loconet_throttle.c`, `loconetthrottle.cpp`, a command station with few slots | refines `LocoControl` |
| `SpeedMatcher` | `speedmatcher.cpp` with its two timers | throttle and programmer as `LocoNetThrottles` and `LoconetProgrammer` show them |
| `LocoNetTables` | turnouts and sensors, the GUI's turnouts, slot monitor, usage, printer, names of connections | evaluated with `LoconetProgrammer` |
| `CabMenu`, `CabBus` | one cab (`cabbus_cab.c`); the master and the bus (`CabBus.c`) | `CabBus` EXTENDS `CabMenu` |
| `CabBusBridge` | `CabBusToLoconet.c` and a command station | evaluated with `CabBus` |
| `DccDecoder` | `dcc-decoder.c`, the interrupt and `pump_packet` | - |
| `MemoryRequestsProof`, `EventGraphWritesProof`, `LocoNetThrottlesProof`, `CabBusProof` | the proofs about the module of that name; `EventGraphWritesProof` also those about `EventPins` | EXTENDS its modules and TLAPS |
| `LccGuiProof` | the proofs about `CdiEditor`, and about `LccNodes` with `EventList` | as above |
| `LccLibraryProof` | the proofs about `AliasNegotiation` and `DatagramServer` | as above |
| `LocoNetProof` | the proofs about `LocoNetBuffer` and `LoconetProgrammer` | as above |
| `DccProof` | the proofs about `SpeedMatcher` and `DccDecoder` | as above |
| `MC...` | constants for TLC | EXTENDS its module, and the modules without state that TLC evaluates with it |

Modules without variables (`EventPins`, `GraphView`, `GraphSamples`, `CdiDocument`, `CdiFields`,
`BusFormats`, `AccessoryEvents`, `LocoNetTables`, `CabBusBridge`) are operators for code that keeps
nothing between calls, or only reacts to one message at a time. What is true of them is stated as
`ASSUME` over bounded inputs, often against a second definition of the same thing, and TLC evaluates
it in the run whose module extends them. RECURSIVE operators occur only there (`CdiDocument`,
`GraphView`).

Where one proof module extends two state machines, one of them has its name in its operators (`ServerSpec`,
`BufferSpec`, `DecoderSpec`, `NetworkSpec`), because EXTENDS would otherwise define `Spec` twice.

Names are those of the source where TLA+ allows. `PROJECT.json` "map" gives the lines
of every definition. Operators whose comment begins with "Mutation:" are plausible bugs;
they are used nowhere in the specification and serve to show that a property notices.

### MemoryRequests

*State.* `m_request_order` is only appended to and popped at its front, so it is the
interval `head..made` of requests numbered as they are made; a request is in one of
the `m_inflight_...` lists exactly while its `status` is "pending". `requesting`,
`timerOn`, `retries` are the members of those names; `wakeups` counts the pending
`QTimer::singleShot` calls. `libAlias`, `libKind`, `libSpace` are the library's fields,
`rxBusy` is `currently_handling_incoming_datagram`. `toNode` and `fromNode` are what is on
the bus. `lastSent`, `answer`, `served`, `overtaken` are history: they are only written,
to state properties.

*Actions.* `Submit` (any of the four request functions), `Wakeup`
(`requestNextMemoryBlock`), `MemoryRequestTimedOut`, the handlers `ReceivedOk` of a Datagram
OK, `Rejected` of a rejection and `Reply` of a reply datagram; `NodeResponds`, the node that
serves a request; `LoseRequest`, `LoseResponse`; `DatagramStarts` and `DatagramEnds` for the
datagrams of other nodes.

*Abstractions.*
* A reply of several frames arrives in one step; that another datagram is being received
  meanwhile is `DatagramStarts`/`DatagramEnds`, and a reply that arrives then is lost.
* A request timer never fires while a wakeup is due: the wakeups take 20 ms or 250 ms and
  the timer at least 5 s.
* A request that is made inside a `finished()` handler is a `Submit` after the step:
  `m_requesting_memory` is still set in the handler, so it is only queued.
* `write_function` may fail at any time. A full channel (`MaxBacklog`) loses the frame.

### AliasNegotiation

*State.* Per node the alias, the alias state and whether it is permitted; the wait
(`timer`); its transmit buffer `tx` and the frames `rx` that it did not handle yet.
`src`, `to`, `cidsOut`, `late` and `disturbed` are history.

*Actions.* `Start` (a connection is made, a device boots), `GenerateAliasDone` (the end
of the wait: `lcc_context_claim_alias`, or another `lcc_context_generate_alias`),
`IncomingFrame`, `Transmit` (a frame goes out and everybody hears it), `Talk`, `Enquire`,
`Disconnect` of a GUI, `Attach` of a device.

*Timing assumption* (`WaitIsOver`). The wait of at least 200 ms outlasts what is on the
bus: the CID frames of a node went out and the answers came back, unless it is off the bus or
was attached during its wait. The standard relies on this, and so does `lcc.h`.

*Abstractions.* Uniqueness is stated while `~disturbed`: a device dropped no frame while on
the bus, and none was attached during its wait. The generator of alias numbers is a
constant per node and a step to the next number. Frames that the code treats alike
(alias map definitions, initialisation complete, events) are one kind. The code counts
middle and last frames of a datagram as CID frames (`lcc.c:58-69`), and so does the model.
A GUI does not reconnect (`LCCConnection::open` is called once). `setup()` of the
example hangs if the first CID frames are refused, which is a node that never starts.

### EventGraphWrites

*State.* `mem` is the node's memory, `queue` the requests in order, `written` says that the
node has carried out the write at the front although we do not know yet. `data`,
`readState`, `invalid` are members of the `SegmentMemory` objects; `pins`, `staged`,
`pending` those of the graph; `status`, `spacesToRead`, `error`, `forceRead`, `listening`
the load of the node; `unsure` is history: pins for which a write was carried out and
its reply lost.

*Actions.* `NodeKnown` (its identification came or its timer ran out), `ReloadNode`,
`Stage`, `Unstage`, `DiscardChanges`, `ApplyChanges`; the CDI editor's `OtherReadsCdi`,
`OtherReads`, `OtherReadsAll`, `OtherWrites`; `NodeWrites`; and `Answer`, the outcome of the
request at the front with everything its handlers do, one operator per handler.

*Abstractions.*
* The queue: requests go out in order and each gets one outcome. `MemoryRequests` proves
  this of `LCCConnection`. A success is taken to be genuine; where it is not is a finding
  about `MemoryRequests`.
* Nobody else changes the node's memory, and a request that we gave up on is not carried
  out later.
* `Refusals` says whether the connection refuses requests within the call. It is FALSE in the run: with
  TRUE a load does not end (section 6), and a write that was refused stays pending. The proofs cover both.
* A block of memory carries one event ID. The memory may end before the CDI says (`last`).
* Reading the CDI (an address space query and the blocks of space 0xFF) is one request.
* A node without a CDI has nothing to show and is left out.
* A request refused within the call has finished before its caller connects to it (`Heard`).

### LocoNetBuffer

*State.* `lnBuffer` and `lnBufferLocation`, the buffer and the index of its next byte; `pc`
and `checksum`, where `loconet_context_process` is and what its local variable holds; `line`,
the bytes that have come and were not read. `written` and `delivered` are history: the frames
that were sent, and those that the callback got. A byte is the set of its bits, so that a
checksum is a symmetric difference. What C leaves unset (bytes behind the index) is any
of `UnsetBytes`.

*Actions.* `WriteMessage` (`loconet_context_write_message` with an interlocked interface, which
echoes), `OtherSends`, `SpuriousByte`; `IncomingByte` and `Process`, the reader, that may call
`loconet_context_process` after any byte; and the turns of its loop, one for each kind of message
(`TwoBytes`, `FourBytes`, `SixBytes`, `SlotData`, `VariableLength`) and two for garbage.

*Abstractions.* One thread reads and processes, as in the GUI. The fast clock, and the bus
states and timers of a context without an interlocked interface, are left out: only the
sniffer has one, and it writes nothing. So is what a message of 16 bytes or more writes behind the
local variable `message`. `OnlyWhatWasWritten` excepts slot data, which is parsed before its last
two bytes are there.

*Assumption.* `FormatAssumption`: frames are as long as their first bytes tell and have bit 7 in the opcode only;
spurious bytes are no opcodes (section 5 says why).

### LoconetProgrammer

*State.* `state`, `queue` and `current` are `m_state`, `m_queue` and `m_current` of each
programmer; `sendQueue` is the connection's. `task` is what the command station works on and the
replies that it will give; `incoming` the replies on their way, `heard` the programmers that were
told of the first one. `outcome` is the result of each request, together with the request that the
reply was about: replies carry it (`of`), no handler looks at it. `clash` is history: two programmers
have waited at the same time.

*Actions.* `Submit`, `SendNextMessage` (the 50 ms timer), `StationReplies`, and `IncomingMessage` of
each programmer, which takes a reply for its own if it waits. Completing a request sends the next
one in the same step, as the code does.

*Abstractions.* A reply is a slot read or a value of the long acknowledgement; the status and the
data of a slot read, and the encoding of the request, are left out. A message is told to all
programmers before anything else happens (a Qt signal within one thread). The command station
answers with one of the `Scripts` of the mode, and `StationAssumption` says that each of them
takes a request to its end and not further. Two answers that a real one may give do not:
a service mode task that is refused at once (the programmer waits for a slot read that never comes), and
0x01 in an operations mode, which is reported as "not implemented" although a slot read follows.

### DatagramServer

*State.* `receiving` and `buffer` are the assembly of `lcc-datagram.c`, `upgrading`, `calling` and `writer`
the firmware context. `toServer` has the frames on their way from each client; `answers` what each
datagram got. `calm` is history: no two longer datagrams were on the way at once, no frame was lost and no
answer came between two frames. Everything is stated while `calm`, because each of
these confuses the assembly, which looks neither at the sender of middle and last frames nor at the time.

*Actions.* `Send` (a client writes the frames of a datagram), `Lose`, `handle_datagram` (a frame comes; with
the last one the whole chain of handlers runs), `StopWaiting`, `write_ok_late` (the application finishes a
firmware write after its callback has returned).

*Abstractions.* Lengths in frames; contents of commands and replies are left out but for which handler takes them.

### LccNodes, EventList

*State.* Per device its alias, the two lists, the transactions and what it has not sent; the GUI's `table`
(`node_info_list`) with `rx_buffer` of every entry; the nodes of the event graph. `wanted`, `told`, `new` and
`disturbed` are history.

*Actions.* A device announces itself, changes its lists, sends; the GUI or other nodes ask
(`QueryNetwork`, `QueryNode`, `StartGraph`, `OtherSends`); a frame of a device is missed (`ToolMisses`). A
frame is handled by everybody when it is on the bus.

*Abstractions.* Simple node information comes in two frames, each of which counts as one byte of `rx_buffer`, whose
size is `RxParts`. As in the code a full buffer takes one more (`lcc-network-info.c:186` compares with `>`), and
`NetworkTypeOK` says that it is never more than that. What is not understood stays in the buffer, so that
a last frame whose first one was missed fills it in three answers. `TableIsTrue` is stated when nothing is on its
way and no frame was lost nor an alias handed on since the last refresh: what then is in the table stays there.
Two nodes do not have one alias (`AliasNegotiation`). Not modelled: pointers into the table.

### CdiEditor

*State.* `original` and `pending` are a field's last known value and the user's change, `inFlight` and
`outstanding` the set and the count of writes, `toRead` and `current` the segments of "read all",
`modal` an open menu with what it offered when it was opened, or the question. `data`, `invalid`, `queue`
as in `EventGraphWrites`, but a value may have several blocks, which `Layout` puts one behind the other in
its space; the queue holds whole ranges, and `block` is how much of the one at the front has been done.
`unsure` is history: blocks of which the editor was not told what became of them.

*Actions.* Selecting a group, editing, the buttons, the menu and its choice, the question; the graph's
`GraphWrites` and `GraphReadsAll`; `NodeWrites`, and `Answer` with all handlers of an outcome.

*Abstractions.* The values of one segment are adjacent. A CDI from a file, without a node, is left out.
The widget's conversions are the constant `Encode`; `CdiFields` has them.

### LocoNetThrottles, LocoControl

*State.* The fields of each `struct loconet_throttle`; `out` what the program wrote, `inq` what was on the
bus and not yet handled, `given` to how many throttles the front of it was given; slots of the command station.

*Actions.* `User` (select, drive, ping, dispatch; confirm and abort, both in every state), `Transmit` (a message goes to the bus, the
station answers), `Foreign` (another device), `incoming_message` (one throttle gets the message).

*Refinement.* `Control == INSTANCE LocoControl`: a throttle is "wanting" while a request is pending, "driving"
while it has a slot and no dispatch has begun, and "leaving", with the locomotive of that slot, while it dispatches.
An abort or a confirmation between the two steps of a dispatch puts it back to "driving" (`Stay`).

*Abstractions.* The station has a slot for a locomotive as long as one is free, and does not take
it back by itself. Of direction and functions only the slot they are sent to is kept.
`ControlUntilDispatched` is stated while no other device or throttle wants the same locomotive: then the two
steps of a dispatch and the answers to others get in each other's way. A dispatch that an abort or a confirmation cuts short
leaves the throttle with a slot that the station was told to let go; `asked` records it as `CutShort`, and the
locomotive is excepted from then on. In the repository only the throttle itself confirms, and nobody aborts.

### SpeedMatcher

*State.* The members of the class; `ticking` and `delaying` are its timers. `writes` and `table` are the CVs
that the programmer has still to write and what was submitted; `asking`, `held`, `trainSpeed` what the
throttle did. `crashed`: a null pointer was followed, or what was freed was used; nothing happens after it.
`measured`, `orphaned` and `calm` are history.

*Actions.* The two buttons, `Acquired`, `onSpeedUpdated`, both timers, `ResultCompleted`.

### CabBus, CabMenu

*State.* `cab` (a record per address, `CabMenu`), the address that is asked, the two bytes of `byteStatus`,
`pc` between `cabbus_ping_step1` and `step2`; `wire`, the bytes that are on their way; what each attached
cab shows. The rest is history or a bound.

*Actions.* `ping_step1`, `ping_step2` and its wait, `incoming_byte` (the interrupt), `LoseByte`; the
program sets a locomotive, a message or functions; a cab is plugged in or pulled out.

*Abstractions.* Quarters of a screen hold what they mean, not characters, with one exception: `bottomRow[8]`, the first
character of the quarter `BOTTOMRIGHT`, is a part of its own, `NINTH`. `set_loco_speed` and `set_direction` blank it and
mark only `BOTTOMLEFT`, so that a message that is shown and not to be sent differs in this character from what the
master holds. `CleanIsShown` (`Agrees`) excepts it where it was blanked, and nothing else.

### DccDecoder

*State.* The fields of the decoder; `pc`, `len`, `x`, `xor_data` are where `pump_packet` is. `rest`,
`packet` are what is on the track. A byte is the set of its bits.

*Actions.* `StartPacket`, `Edge` (the interrupt), `Noise` (a half bit lost or out of nothing); `pump_packet` in
four steps, between which the interrupt may come.

*Assumption.* `PreambleAssumption`: no byte of ones is as long as a preamble, and the ones of a preamble behind such a
byte do not pass the 8 bits of `num_1_bits`.

### EventPins, GraphView

A graph is a record of nodes, what was learned and observed, and staged changes; operators are the
methods of `EventGraphModel`. `GraphView` has the rows, the tree of groups, the ends of lines, the search,
undo and the numbers of the node editor. Painting and positions are left out.

### CdiDocument, CdiFields, BusFormats, AccessoryEvents

An XML document is a sequence of tokens; its reader is one operator over the table of classes, each with
its attributes, texts and elements. `CdiLayout` unrolls repetitions into addresses. `CdiFields` takes bytes to
what a widget shows and back. `BusFormats` reads a GridConnect text as a fold over characters, and has
the reader's buffer. Numbers are small where their width does not matter.

### LocoNetTables, CabBusBridge

Operators from what is kept and one message, or one step of a user, to what is kept next. They are
folded over sequences: of messages, of steps of two programs and of a bus that delivers later, of
steps of two cabs with a command station. `Reached` in `CabBusBridge` collects what steps in any order reach.

## 4. Runs, bounds and fairness

| run | configuration | shows |
|---|---|---|
| `memory_requests` | 2 requests of 4 kinds, 2 nodes, 1 retry, 2 frames per channel | the queue never stalls; a success is genuine unless the client gave up with a response on its way; refinement of `RequestQueue`; every request is settled |
| `alias_negotiation` | GUI and device with the same first alias, 3 aliases, 2 CID frames, a buffer of 3 | aliases are unique; the last node to negotiate gets an alias |
| `event_graph` | spaces of 2 and 1 event IDs, the second one invalid, 2 values, one field of the editor | the graph shows what the node has; changes are kept; updates follow writes; loading ends. Also `GraphSamples`, `EventPins`, `GraphView` |
| `cdi_editor` | a text of 2 blocks and an event ID in one space, a second space that the node does not have, the graph writes the event ID once, one reply lost | types; what is shown is true; the count of writes is right; changes are kept; the buttons come back. Also `CdiDocument`, `CdiFields` |
| `loconet_buffer` | a buffer of 16, 3 frames of 5 kinds, 1 byte of garbage, bytes read singly or together | types; nothing is delivered that was not sent, nor twice, nor out of order; the last frame arrives |
| `programmer` | 2 programmers, 3 requests in service and operations mode, 8 kinds of answers | each request ends; with a reply to it unless two programmers waited at once. Also `LocoNetTables` |
| `throttles` | a throttle that steals and one that asks, 2 locomotives, 1 slot, 4 steps of users, 1 of another device, confirmations and aborts at any time | refinement of `LocoControl`; the station has a driven slot in use until it is dispatched, unless a dispatch was cut short |
| `datagram_server` | 2 clients, 3 datagrams of 1 to 3 frames, 1 trouble, all firmware functions set, memory can be read and not written | types; whole datagrams; one answer each; every datagram gets one |
| `speed_matcher` | 3 runs of 2 steps, 4 speeds of which two count as equal | types; at rest after each run; tables are of their own run; no run hangs |
| `cab_bus` | addresses 2 to 4, a cab with the keys of the menus, one that comes and goes, two rounds of silence | types; keys are the asked cab's; screens agree but for a blanked character; switches are those entered; every address is asked. Also `CabBusBridge` |
| `dcc_decoder` | bytes of 2 bits, packets of 2 and 3 bytes, 2 lengths of preambles, 1 half bit lost or added | the second undisturbed packet is found; only a checked packet is handed on |
| `lcc_nodes` | 2 devices, 2 events, of which one device has lists at the start, an `rx_buffer` of 2 frames, 5 units of what happens from outside | types; the table is true when the bus is silent; consumers are told. Also `AccessoryEvents`, `BusFormats` |

*Are the bounds enough?* Two requests are the fewest of which one can be answered by what
belongs to the other; one retry is the fewest with a timeout and an answer after it. Two nodes
are enough for every case of the alias protocol, because what a node does depends on
one frame at a time; an instance of three nodes (7.7 million states) was checked once and
is not among the runs. Three aliases let two nodes collide, step on and wrap around. Two
event IDs in a space let a write fall before, on and behind the block that is being read, and
the second space, invalid, is the one that fails at once on a reload. A text of two blocks is the
shortest of which one block can be new and the other old. A buffer of 16 holds the longest fixed message
and not two, so that it overflows; `MaxUnread` lets a new frame start before the last one was read. Garbage
is a byte that is no opcode; one that looks like an opcode costs the frame behind it (section 6), and 0xFF
before a zero would keep `process` in its loop. Three requests are the fewest of which one waits behind
another one of its own programmer while a second programmer has one. One slot for two locomotives makes the
throttles compete; of datagrams, three frames are the fewest with a middle one. Two steps make a table in
which a measurement can belong to the other step. A cab that is pulled out for two rounds is pinged less
often and must still be asked; the locomotive 1234 has a digit that `reset` cuts. An `rx_buffer` of two
frames holds one answer, and three answers without their first frames fill it and go behind its end. Bytes of two bits keep what `MIN_PREAMBLE` is for: a byte of ones is
shorter than a preamble. Where a bound could hide something, the theorems of section 5 hold without it: they
are for every number of requests, retries, nodes, aliases, spaces, event IDs, throttles, slots, clients,
devices, event lists, cabs, steps and bits.

`MaxRequests`, `MaxBacklog`, `MaxQueue`, `MaxGraph`, `MaxLost`, `MaxWritten`, `MaxNoise`, `MaxUnread`, `MaxSteps`,
`MaxForeign`, `MaxDatagrams`, `MaxTrouble`, `MaxRuns`, `MaxKeys` and `MaxExternal` bound what the environment
does, never what the code does in answer.

*Fairness.* `MemoryRequests`: the Qt timers (`Wakeup`, `MemoryRequestTimedOut`), since an event loop that
runs delivers them; nothing of the bus or of the nodes. `AliasNegotiation`: `Transmit` and
`GenerateAliasDone` strongly (they are interrupted by a lost connection and by each
other), `IncomingFrame` weakly: the bus, the timer and the loop of a device run.
`EventGraphWrites`: `NodeKnown`, by the 3 s timer, and `Answer`, because every request
gets an outcome (`EventuallySettled` of `MemoryRequests`); `CdiEditor`: `Answer`, for the same reason.
`LocoNetBuffer`: `IncomingByte`, `Process` and `Turn` weakly, since the serial port is read while there is
something to read and a loop that has a next turn takes it. `LoconetProgrammer`: the send timer, the command
station and the reader. `LocoNetThrottles`: the bus and the reader (nothing of it is needed for the
refinement). `DatagramServer`: a frame that has come is handled. `SpeedMatcher`: both timers, and the result
of a programming request (`EveryRequestEnds` of `LoconetProgrammer`), unless the program has crashed.
`CabBus`: the loop that pings, and the interrupt. `DccDecoder` and `LccNodes` state safety only.

`CHECK_DEADLOCK FALSE` appears where all may be done and silent: `AliasNegotiation` (every node has its
alias), `LocoNetBuffer` (all frames were sent and read), `LoconetProgrammer` (all requests have ended),
`LocoNetThrottles`, `DatagramServer`, `LccNodes` (all that may come from outside has come, and the bus is silent), and
`SpeedMatcher` (all runs have ended, or the program has crashed).

## 5. Proofs

Everything below is proved by TLAPS for every value of the constants that satisfies the
ASSUMEs of the module. `PROJECT.json` lists the theorems; those whose property is also checked by a run name it.

**MemoryRequests.** `IInv == TypeOK /\ Numbered /\ NoLostWakeup /\ LibServesFront` is
inductive. `Numbered` (what is before `head` has an outcome, what is from `head` to
`made` is pending) makes the interval the queue. `NoLostWakeup` needs `LibServesFront`:
an answer can only stop the timer of the request that it settles or retries. From it:
`TypeCorrect`, `NeverStalls`, `LibraryServesFront`, and `ImplementsQueue`: each step is one
of `RequestQueue` or a stutter. `AnswersAreGenuine` (`OkIsGenuine`) adds `FrontOnly`: while the client never gave
up with a response on its way, all that is on the bus belongs to the request at the front, and is either the
request, or a part of its answer, or lost.

**AliasNegotiation.** `IInv == TypeOK /\ Phases /\ Sources /\ Silent /\ Contested`. `Phases`
relates the states of a node, `Sources` says who can have sent the frames in the
buffers, `Silent` that nothing of a finished negotiation is still on its way, and `Contested`,
the heart of it, that whenever a node asks for an alias another holds, its CID frame is
still on its way to the holder, or an answer on its way back, or the node knows. With
the timing assumption, a node that claims an alias then has no rival: `Unique`
(`UniqueAliases`), `Defended` (`TakenAliasIsDefended`). `GoesOn` (`NegotiationGoesOn`) assumes
that the CID frames fit into an empty transmit buffer; its invariant `Going` adds that a device
waits off the bus as well, so that it waits when it is attached.

**DatagramServer.** While `calm`, the frames of each client on the bus are its datagrams in order (`Chain`), the
buffer holds the first frames of the datagram whose next frame comes (`Holds`), the other clients are between
datagrams, longer datagrams are those of one client (`OneLong`), and a datagram that is not whole has no
answer. From this `HandedWhole` (`WholeDatagrams`) and `AnsweredOnce` (`OneAnswer`). `ServerTypeCorrect` needs
no `calm`: the buffer never holds more than it has room for, whatever frames are mixed.

**EventGraphWrites.** `IInv == TypeOK /\ ReadsInOrder /\ FrontIsWrite /\ BadSpacesUnread /\
CopyIsTrue /\ GraphShowsCopy`. A copy grows by one block with every reply, so it can only be
true if there is one reader of a space and its request is for the block behind the end of the
copy: `ReadsInOrder`. `FrontIsWrite` says that a write known to be carried out is at the
front and in the memory, which is what makes updating the copy from a reply right.
`BadSpacesUnread` is needed because a reload forgets the copies of all spaces but those
that are invalid. From it `CopyTrue`, `GraphShows`, and `GraphTrue` of both; `ChangesKept` follows step by step,
because a change is only dropped in favour of a copy that is true. `TakesEffect` is inductive
given `IInv`: requests join the queue in groups that end with an update complete, and
the connection refuses a group from its beginning. `PendingQueued` says of every step that the write of a pending
change stays in the queue until the change is not pending any more, and that a change applied to a busy connection has its
write queued (`PendingStaysQueued`); only a change applied to an idle connection, which may refuse within the call, can be
pending without a write. It rests on `Deaf`: nothing is staged or pending before the graph hears of memory.

**EventPins.** The operators of the graph, for every graph: `LinksShareTheirEvent`, `SharedEventsAreJoined` (for
more than two pins the links are a star, so that a third pin joins them), `ConnectConnects`, `DisconnectFrees`,
`OperationsKeep` and `SetNodeIsSound`: every operation keeps the parts of a graph consistent.

**CdiEditor.** The invariant has the same heart with values of several blocks, where a reply tells of one block and
the editor hears of the value. `ReadingOf`: a space is read by one request, which goes on where the copy ends.
`FrontOf`: how far the connection has come with the range at the front. `WritesOf`: a value of several
blocks is written by the editor alone and once, while it is in flight (the graph writes event IDs, which have
one block; two writers of one value would mix their blocks). `Agrees`: each block of the copy is the node's,
but for those whose reply was lost and the one that was just written. `ShownOf`: what is shown of a field
is all of its blocks, unless some are still to be written. `Counted` and `MenuIsIdle`: the buttons. From it
`EditorShowsTheTruth`, `WritesAreAwaited`, and step by step `ChangesStay`.

**LocoNetBuffer.** `BufferTypeCorrect`: for every buffer size, the index stays inside the buffer, although
`process` removes messages of which not all bytes are there (slot data), because `ln_remove_bytes` never
removes more than there is. `NothingIsInvented` (`OnlyWhatWasWritten`): `StreamInv` says that there is a set `J` of the last frames
written which the buffer and the line still hold whole and in order (`Whole`), that every opcode among these bytes
begins one of them, and that what was delivered are frames before `J`, each once and in their order (`DeliveredBefore`). A turn
of the loop takes bytes from the front, so it takes a frame of `J`, or a part of one that is then out of `J`,
or bytes of none; a full buffer loses those before it. The checksum plays no part in it: that an opcode begins a frame
does. This is what `FormatAssumption` is for: a frame has bit 7 in its opcode only, and a spurious byte is no opcode. It
cannot be dropped: a spurious opcode with a spurious checksum is a message nobody wrote, and no parser can tell.

**LoconetProgrammer.** `TurnInv == TypeOK /\ TaskInv /\ FreshInv /\ OrderInv` is inductive. `OrderInv`
says of each programmer that its queue is increasing and holds just its requests behind the current
one, and that those before the current one have ended. From it `TypeCorrect`, `InTurn` (`EachInTurn`) and `Stays`
(`OutcomeStays`), for programmers that disturb each other in any way. `OwnInv` adds `Lone`: while no
two have waited at once, either everything is quiet, or the one that waits has its request still to
send, or all that it has not read yet, in the messages and the task, takes that request from its
state to its end. `Own` (`OutcomeIsOwn`) follows, under `StationAssumption`.

**LocoNetThrottles.** `IInv == TypeOK /\ Selecting /\ SlotHoldsLoco /\ TrueReads`: what each state of a request says about
its slot, and that a slot read on the bus names the locomotive that the station has in the slot. From it `HoldsLoco`,
and `ImplementsControl`, step by step. `InControl` (`ControlUntilDispatched`) has an invariant of its own: each throttle
stands with each slot in one of three ways, `Driving`, `Leaving` or `Away`, each a statement about what is still to
be sent, answered and heard. A dispatch, for instance, must not overtake the null move of a new selection, and no
answer that a throttle will act on may be older than the message that let the slot go. A locomotive of which a dispatch was cut
short is as one that somebody else has wanted: of it nothing is said.

**SpeedMatcher.** `IInv == TypeOK /\ Counting /\ Throttles /\ Stopping /\ Measuring`: which phases have a timer, a throttle or
programming requests, and that while the locomotive is measured its speed is that of the step. From it
`EndsAtRest`, `MeasuredAsTold`, `ProgrammingIsQuiet`. `TypeCorrect` includes the clamped result of `computeCVValue`.

**DccDecoder.** `DecoderIInv == DecoderTypeOK /\ ParseOK /\ CheckTrue`. `ParseOK` says where the parser is within a byte and a
packet, so that it stays inside `packet_data`. `CheckTrue`: the sum that `pump_packet` has formed is that of the
first bytes of the packet that is there, unless the interrupt wrote one meanwhile. From it `HandedChecked`. `SecondFound` (`SecondIsFound`) adds `OnTrack`: the decoder stands
somewhere in the packet that comes without noise (`Placed`), between two bits, within one, or half a bit off, and what it has
read so far (`Seen`) fits. In the first packet after a disturbance it is in any state: ones take it out of a
byte before the preamble ends (`Falling`; half a bit off, the second half of each one and the first half of the next are taken
for a one, until the first zero puts it in step), and then either it reads the packet (`InByte`) or lets it pass (`PassesBy`), where the
ones in a byte are too few for a preamble. Either way it ends in step, looking for a preamble, with few ones counted, so that
of the next packet it counts the ones (`OnesCounted`) without passing 255, and reads it. That is where
`PreambleAssumption` is needed, both ends of it.

**CabBus.** `IInv == TypeOK /\ Framed /\ AllEntering /\ Fresh /\ Returns /\ CleanIsShown`. `Framed` says of which ping the bytes on
the wire and in the register are; `AllEntering` and `Fresh` that the number of an open menu is what was typed since it was
opened, modulo 65536; `Returns` where a question goes back to; `CleanIsShown` is its own invariant with these.
From it `KeysAreOwn`, `SwitchesAreAsEntered`, `ScreensAreTrue`; the last one is about all but the
character that `set_loco_speed` blanks.

**LccNodes, EventList.** Of lists of any length: `SortedListIs` (sorting by rank sorts and loses nothing), `RemoveEventIs`,
and `HasEventIs` (the bisection finds what a sorted list has, by way of the shortest interval in which it does
not). `NetworkInv` is inductive: `NetworkTypeOK`, what the GUI has still to send (`Asks`), `OwnFrames` (what is on its way from a
device is in its own name), `DistinctIn` (no two devices have one alias), `Listed` (a list has what was added, and is
sorted unless a transaction is open) and, unless it was disturbed, `Undisturbed`. Its parts: `MatchingIn` (an entry has its
node's alias, and no other node has it), `AllPaired` (the two parts of simple node information follow each other), `AllRx` (the
`rx_buffer` of an entry holds what the next frame of its node continues, and is empty otherwise), `AllSeen`, the heart of
it (of a device that was there at the last refresh, whatever the table does not have yet is being asked for, or the answer is
on its way), and `OwnInfo`. When the bus is silent nothing is on its way, so that the table is complete. From it
`NetworkTypeCorrect` (an `rx_buffer` is written one behind its end and no further), `TableTrue` (`TableIsTrue`), and with `Listed`, step by step, `ConsumersTold` (`ConsumersAreTold`).
*Only model-checked.* Liveness (`EventuallySettled`, `LoneNodeSucceeds`, `LoadingEnds`, `BusyEnds`,
`LastFrameArrives`, `EveryRequestEnds`, `EventuallyAnswered`, `RunEnds`, `AllAreAsked`), since
fairness and ENABLED are out of the prover's reach. Every safety
and action property of every run is stated by a theorem. What is evaluated as an
ASSUME over samples (CDI, formats, tables, the bridge, the view of the graph): RECURSIVE operators
(`CdiDocument`, `GraphView`) and folds over data of any length need induction over data.

## 6. Where the code and its documentation disagree

What modelling met. The first list contradicts a sentence of the repository; the second one is what the code does
and a reader would hardly expect. The models contain all of it unless section 7 says otherwise, and the
properties are stated so that they say where it matters.

*Against a comment or a document.*

* Memory: "a late response to it is ignored". Only the alias and the space are compared, so a late answer settles
  the retry or a later request (`overtaken` in `OkIsGenuine`).
* Memory: "If we are not currently querying anything from any node, returns 0". After a request that could
  not be sent it returns the node's alias.
* Alias: "We can't claim the alias if the messages we still need to write have not been sent". The state of the
  attempt before is kept, so it can.
* LocoNet: "we will assume that we may get spurious bytes, and we should be able to sync up afterwards". The checksum is
  not reset between the messages of one call, so a spurious opcode costs the good message behind it.
* Programmer: a result "fires when the task finishes". With two windows it also fires when another task does.
* Events: `RemoveEvent` never shrinks the list, although `lcc-event.h:71` says that it is removed.
* Event graph view: link numbers are to begin behind all others, and reach the numbers of group pins from 4096 pins on
  (`eventgraphwidget.cpp:1094`).

*Memory, event graph, CDI editor.* A refused write of the graph stays pending for good: its reply has finished before
anybody is connected to it. A node becomes *Ready* although a space could not be read, when the only spaces to read are
known to be invalid. A CDI that is read again resets directions that were learned from it, is not shown if the graph asked for it,
and destroys the parent of a context menu that is open. A failed first block tells the editor at once, so the
blocks behind it show only at the next refresh; a write of the graph to the same address ends the editor's early; reverting a
field while its write is in flight drops the wish; a refused send would leave the buttons disabled. An integer without
a size is edited up to INT_MAX and written as one byte; negative values come back unsigned; a property -1 of a map is written
as 0xFF..; a string that fills its field loses its last character; `cdiReady` takes malformed XML; spaces above 255 are truncated.
`EventGraphController::start` asks again without clearing the rows of the network view. Nodes of the view are placed from the first
grid cell again each session; "Previous" with a stale cursor is out of range.

*LCC library.* A query is answered and then also rejected; a reset or reboot is carried out and then rejected; an
incomplete datagram has no timeout, and frames of two senders mix. The static event list is bounded one too far.
The initialisation of a new node is not asked about until a refresh; a refresh of events uses messages that no node
answers (0x91C, 0x8FC); "identify" sends only produced events; a node that is known keeps its old alias; a first frame of
simple node information that is lost leaves `rx_buffer` stuck until a refresh, and its bound is off by one (a 256th byte is written behind the 255, into the padding
before `rx_buffer_location` where the compiler puts some); the destination of a
reply is not looked at. `LCCNode` keeps a pointer into the table that a refresh frees (`lccconnection.cpp:358`,
`lcc-network-info.c:377`); `get_node_list` writes before its bound check (more than 120 nodes). Accessory addresses
2044 to 2048 do not round-trip. GridConnect reads one byte past its buffer when `;` is the last one; a frame without
`N` is never rejected. The memory map takes space 0 for its end and wraps at 32 bits. `lcc_cdi_control` drops an offset without a size.

*LocoNet.* `set_speed(127)` sends 128; `confirm_steal` and `abort_loco_selection` end what
the throttle waits for in any state, also a dispatch between its two steps, whose slot it then keeps; a ping sends the speed less one, or the
speed of another slot. `finishMatching` destroys the programmer inside its callback; the selectors stay disabled; an
aborted run's throttle keeps its slot if it gets it later; the table uses only the last measurement; abort does not stop
the timer. The packed caches of turnouts shift by `num % 4`, so that neighbours overlap; throw and close lose bit 7
of the number; sensors from 2048 on are written behind the cache; an error is returned as a status. Turnouts are saved at index
0 and not restored. The slot monitor takes slot 120 and stops before F8; the printer is off by one half in sensor numbers, and prints hour
23 as -1. Usage goes on counting when it is stopped.

*CabBus, bridge.* A cab whose age is 30 is not pinged in that round; `REPEAT_SCREEN` ends a question that is still
shown; keys act before the cursor has moved; `set_loco_speed` blanks `bottomRow[8]` without marking its quarter, so that one character of a message
stays on the screen (`CleanIsShown` excepts it); `reset` shows three digits of a locomotive;
`sel_loco.flags` shares its byte with the speed; `cabbus_cab_by_id` takes 64. In the bridge any long acknowledgement ends
every null move; a refused LOCO_ADDR leaves its request pending; two cabs that select one locomotive before the first
null move share it unasked; selecting another locomotive leaves the first slot in use; cabs without a slot write functions to slot
255; a function key sends a stale direction; a refresh turns an emergency stop into a stop; selecting one's own locomotive
asks to steal it. It has no build file and calls functions that are no longer there.

*DCC.* Packets of 6 bytes are dropped; `num_1_bits` wraps at 256; the speed callback gets the code less 3, so that stop is 253
or -3 and only code 1 is an emergency stop; one of the three high bits of an accessory address is masked away; a packet that
the interrupt overwrites while it is handed on is handed on unchecked.

## 7. What is not modelled

* LCC clock, throttle and traction: setters and stubs without a protocol.
* LocoNet over TCP: the text of lines. (It reads hexadecimal numbers as decimal ones, never sets `writeDataFun`, and takes reads
  for whole lines.)
* The firmware of `CabBusToLoconet.X` (`main.c` stops in a test of memory, lines 241 to 247, before its loop), its `CabBus` is an older
  copy of the one modelled.
* Panels, speedometers, main window, connections and settings of the GUI; service discovery; vendored code.
* Inside the modelled components: the wording of messages and logs, painting, positions, the Arduino sketches, `listen_all_events`, fast clock
  and bus timers of a LocoNet context that is not interlocked. Pointers into tables are not modelled either.

`PROJECT.json` gives the reason for each, and for those that are "partly" modelled.

## 8. Plan

All modules that were planned are there: memory requests and aliases, event graph and editor, the LocoNet buffer,
programmer, throttles and speed matcher, datagrams, CabBus and bridge, decoder, nodes and events. Proved is every safety and
action property of the runs; what is left is out of the prover's reach (section 5).

## 9. Running

`tlc -config X.cfg MCModule.tla` for the runs in `PROJECT.json`, `tlapm MProof.tla` for the proofs. The longest runs,
`cdi_editor`, `throttles`, `cab_bus` and `lcc_nodes`, take about two minutes with two workers; the others
take less than one. The longest proof, `LccGuiProof`, takes about ten minutes, `CabBusProof` and `LccLibraryProof` some.
