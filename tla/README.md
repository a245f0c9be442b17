# A TLA+ model of the Lightweight CMC

The Lightweight CMC (LCMC) is the firmware of a camera-motion controller on an
STM32G431: it takes shots and joystick movements from CAMERAD panels over
TCP/UDP, settings from a PC tool (UDP) and a browser (HTTP), and drives ONE axis
whose motor has a microcontroller of its own at the other end of an SPI link.
Everything runs in one cooperative super-loop (`src/app/main_loop/main_loop.c`),
without an RTOS, without sleeping, and with no interrupt that touches
application state. What is hard is therefore not preemption but *order and loss*:
six state machines and a UDP bridge share one request slot towards the motor, the
motor runs beside the loop, frames are lost, answers come late, and commands that
belong together travel on different paths at different speeds.

## Files

| Module | What it is |
|---|---|
| `OdService` | abstract: what the OD pipeline promises its users |
| `Cia402` | `app/cia402`, the 1 kHz SPI exchange; implements `OdService` |
| `AxisMotion` | `app/axis_manager`: setup sequencer and controlword, over `OdService` |
| `OdClients` | `app/axis_manager`: the five other clients of the OD slot, over `OdService` |
| `ControllerMgr` | `app/controller_mgr` and the selection of `app/cmc_state` |
| `CmcShots` | `app/cmc_state`: shots, recall, arrival, stick |
| `OdBridge` | `app/od` and the PC tools that talk to it, over `OdService` |
| `BlobStore` | abstract: what `app/persist` promises its users |
| `Persist` | `app/persist` over `bsp/flash`, and its three users; implements `BlobStore` |
| `MessageQueue` | abstract: what a panel may expect of its command connection |
| `CameradStream` | the TCP parser and listener of `app/controller_mgr`; implements `MessageQueue` |
| `LogRing` | `app/log`: the ring, its client and its listener |
| `Cia402Proofs`, `AxisMotionProofs`, `OdClientsProofs`, `ControllerMgrProofs`, `CmcShotsProofs`, `OdBridgeProofs`, `PersistProofs`, `LogRingProofs` | theorems about the module they are named after, for all values of its constants |
| `MC<module>` and `MC<module>*.cfg` | the small instances TLC checks |
| `MCPowerCut` | `Persist` against what the documents promise of a power failure |

Run `tlc -config MCCia402.cfg MCCia402`, and so on; `tlapm Cia402Proofs.tla`, and so on, checks the proofs.

## Inventory

Every pass of the super-loop (`main_loop_run`, main_loop.c:91-137) calls, in
this order: `log_tick`, `bsp_buttons_tick`, `axis_manager_tick`, `cia402_tick`,
`od_tick`, `cmc_state_update_from_motor`, `controller_mgr_tick`, `web_tick`,
`led_indicator_tick`, and a heartbeat. Modules call each other's setters directly; a setter
changes RAM and returns, and the tick of the module that owns the state acts on
it in the next pass.

| Component | State | Operations | Talks to | Hard behaviour | What makes it correct |
|---|---|---|---|---|---|
| `cia402` | sequence number, OD slot (IDLE, REQ_PENDING, AWAITING, COMPLETE) with handle, deadline and result, cyclic command | `tick`, `od_read_begin`, `od_write_begin`, `od_poll`, `set_cyclic_cmd` | motor over SPI; clients poll handles | lost or late replies, time-out against late answer, wrap of sequence and handle | an answer belongs to its request; OK means stored; every request ends; the cyclic command is never starved |
| `axis_manager`: setup and motion | commanded mode and target, `s_applied`, step in flight, request latches, pulse countdowns | setters, `request_*`, `tick` | `cia402` (both paths); called by all protocol modules | setup by OD, trigger by cyclic frame; retries; fault and quick stop in the middle | no trigger over a foreign setup, one move per request, a stop stops |
| `axis_manager`: OD clients | load factor, proxied limits with dirty marks, boot-sync, motor-save and home machines | one tick each, requests | `cia402`, `enable_latch` | each with its own time-out and handle on the one slot | nobody keeps the slot; no operator's value is lost; home means homed |
| `axis_manager`: joystick, buttons | raw value, calibration, button ownership | `set_joystick_raw`, `poll_joystick_buttons` | `bsp/buttons`, `cmc_state` | release while moving | the mode found is restored |
| `cmc_state` | shot table, selection, `s_moving`, shot on its way, joystick watchdog | select, deselect, move, store, movement, `update_from_motor` | `axis_manager`, `controller_mgr` | two panels, arrival against setup, lost stick messages | a stale stick stops; a shot is reached only if the motor got there |
| `controller_mgr` | up to two panels: connection state, receive buffer, last heard; one outbound slot | `tick`, TCP parser, eviction | `net`, `camerad`, `cmc_state` | TCP segmentation, failed connects, sharing one outbound connection | messages decoded as sent; both panels are served |
| `camerad` | none | encode, decode | `controller_mgr` | – | round trip |
| `od` | one pending request, one subscriber, batch of samples | `tick` | `cia402`, `cmc_od`, `net` | retransmissions, slot taken by others, map changes in a batch | each request has one fate; a confirmed write holds; a datagram bears one map |
| `cmc_od` | none (table) | read, write | setters of all modules | – | – |
| `config`, `persist`, `flash` | RAM copy; header and payload in four flash pages, three regions | load, save | `axis_manager`, `cmc_state`, `web` | reset between erase and write | a load gives a blob that was saved, or none; saves do not touch each other |
| `log` | ring of bytes, dropped lines, one TCP client | write, `tick` | `net` | ring full, part of a line sent, client gone | lines come out in order; losses are counted; the client is served |
| `web` | one connection, accumulator | `tick` | `net`, setters | partial requests | – |
| `led_indicator`, `bsp/*` | output, I/O | – | HAL | – | – |
| `src/Core`, `src/Drivers` | generated and vendored | | | | |
| GUI and `Tools` (Python) | – | talk to `od` | | retransmission | – |

The hazards, each at its line, are listed in `PROJECT.json`.

## Plan

Written, in this order: the OD pipeline (every motor command but the cyclic one
goes through it) and what it promises (`OdService`); the three users that live on
that promise (`AxisMotion`, `OdClients`, `OdBridge`); the panels (`ControllerMgr`,
and `CameradStream` below it); the shots (`CmcShots`); what outlives a reset
(`Persist`); and the log (`LogRing`), which can stop the whole super-loop.

What composes what: `Cia402` implements `OdService`; `AxisMotion`, `OdClients` and
`OdBridge` instantiate `OdService` as their pipeline, each with the others as the
foreign client; `CameradStream` hands its messages to what `ControllerMgr` and
`CmcShots` have as `Command`, `Poll` and handlers; `Persist` implements `BlobStore`
and `CameradStream` implements `MessageQueue`.

Still to come: durations of moves and the buttons, as an extension of `CmcShots`;
the connection states of `web`. Of the safety properties the runs check, one has
no theorem: `ImplementsMessageQueue` of `CameradStream`, whose loop is a
recursive function (see Proofs).

## The modules and the code

### OdService and Cia402

`Cia402` has one action per function of cia402.c: `ReadBegin`, `WriteBegin`,
`Poll`, `SetCyclicCmd`, and `Tick(gap, rx)`, which is a whole `cia402_tick` in
which a frame is exchanged: the request's or the cyclic one, the check of the
reply's type and sequence number, then the deadline, in the code's order. `gap`
is the time since the last frame; time is kept as the time left to the deadline.
The wire and the motor are external: `MotorExecute`, replies clocked out by a
later frame, frames lost or corrupted either way. `acked` is the only history
variable.

`OdService` is what cia402.h promises: one request at a time; OK means that the
request took effect and nothing has since; a failed or timed-out request may
have taken effect, or may do so later, but not once a newer one has. The
mapping is in `Cia402` (`Service`): a slot in AWAITING whose request the motor
has executed is an abstract request that took effect; requests the master gave
up on are `late`.

One assumption stands under all of it: the motor drops a request before
`SeqMod` frames have passed (`MaxDelay + 2 <= SeqMod`), for then a reused
sequence number cannot meet an old reply. With 65536 numbers at one frame per
millisecond that is 65 s. `OdService` also assumes that the motor's entries are
changed by requests only; homing status is the exception, and `OdClients` has
an action of its own for it.

### AxisMotion

`AxisTick` is `axis_manager_tick` without the other clients: the automatic
fault clearing, `setup_sequencer_tick`, and `compose_cyclic_cmd`, whose three
exits (quick stop, fault, motion) are the three `Compose...` disjuncts.
`Cia402Tick` is the next step of the pass; the handlers (`SetOpMode`,
`MoveToShot`, `RequestQuickStop`, ...) follow, any number of them. The seven
entries of the setup are reduced to two, the mode and one target: the code
treats the others alike. The motor takes the edges of the controlword and
executes the setup it has stored, as INTERFACE_SPEC says. `owed` is history.
`Unset` stands for the values that mark a parameter as never applied, and is assumed
to be none an operator sets; a target time of more than 4 000 000 s saturates to that
value (axis_manager.c:510, 463), which the firmware would then not send after a boot.

`Eager = FALSE` is an assumption on operators, not on the code: nobody changes
the setup while it is being applied. With `TRUE` the property fails; see
`axis_eager` below.

### OdClients

A pass is `Pass`, the order in which `axis_manager_tick` calls
`LoadFactorTick`, `BootsyncTick`, `ProxyTick`, `SaveTick` and `HomeTick`; then
`Cia402Tick` and the handlers. The setup sequencer and `app/od` are the foreign
client. Each client has the flag or the handle by which the code knows that the
request in the slot is its own. The foreign client writes one entry of its own
(`OtherEntry`): a PC tool that writes a limit past the proxy (od.c:265-300) is left out. Delays (`due`, `elapsed`) are nondeterministic;
the read of the fault flags at boot may come at any time; home_command and
home_status are one entry; the value of the load factor is left out.
`Overruns` names the sequences that may exceed their absolute limit: the home
sequence after 30 s, the save after its own. A save that overruns with its
write in flight would need the pipeline to hold an answer back far beyond its 30 ms time-out.

### ControllerMgr

`controller_mgr_tick` in its four steps: `Poll` (one UDP datagram),
`ServiceOutbound`, `Command` (any number of SELECT, DESELECT, GRAB), and
`CheckTimeouts`. Panel k is device k at the address configured for slot k.
`sock` is the W6100's outbound socket; `old` and `overdue` say that a time-out
has passed. CONN_ESTABLISHED lasts no longer than the pass that sets it, so it
has no value of its own. Assumed: a panel POLLs before it sends commands
(`PollFirst`; the code does not ask for it, and a panel that SELECTs without
POLLing would not be watched); POLLs, once a second, do not come in the one pass
between two connections. `OpenFails` lets `start_outbound_tcp` fail: the code
then leaves the owner with nothing to do until it is evicted (`OpenFailed`).
`PollFirst` is assumed after an eviction, too: a panel whose inbound connection outlives its
eviction could SELECT at once, and `OwnerIsWatched` would not hold.

### CmcShots

A pass is `Frame` or `NoFrame`, `UpdateFromMotor`, and the handlers
(`StoreShot`, `StoreNext`, `MoveToShot`, `StopMovement`, `HandleMovement`).
`Frame` and `NoFrame` share `AxisTick`, which is what `axis_manager_tick` does in
every pass: it composes the controlword and uses up a cycle of the NEW_SETPOINT and
HALT pulses. Only a `Frame` brings the controlword to the motor; in a `NoFrame` pass
the millisecond has not passed, the frame carries an OD request, or it is lost. The
motor (external) acts on the edges between the controlwords it sees.

The setup sequencer is reduced to what it has told the motor (`stored`): a pass
may find the setup written (`ready`), in part or not yet, in one pass where
the code takes several. A setup changed while it was being written
(`overtaken`) counts as applied though the motor may hold any target: the finding
`axis_eager`, seen from here.

Ages stand for clocks: `age` for the time since a recall (grace period,
acknowledgement watchdog), `silent` for the joystick watchdog. `taken` and `hampered`
are history: has the motor taken the trigger of the last recall; was the drive off in
the move, or its trigger late. Recalls the code refuses change nothing and have no
action. A fault in the middle of a move and quick stops are left out; they are in
`AxisMotion`.

### OdBridge

`OdTick` is a whole `od_tick`: `service_pending` (`Answered`, `AfterPoll`,
`SlotAfterPoll`), one datagram (`ServiceAccess` and its `Handle...` disjuncts, one
for each way the code ends), and `service_telemetry` on what the datagram has left
of the subscription (`AfterDatagram`, `Serviced`). The order matters: the tick that
answers a request takes the next one into the same slot. Entries of the CMC
(`HandleLocal`) are served at once, before the check for retransmissions, as the
code has it. The pipeline is `OdService`; `AxisBegins` and `AxisPolls` stand for
its other clients.

The tools are `client.py`'s: one transaction at a time, `RETRANSMIT_TRIES` sends,
answers of another sequence number skipped; time-outs come whenever they like.
The network keeps the order of datagrams (one switch) and loses them; the
W6100's buffer drops what finds it full. A tool writes entries of its own
(`Writer`): two tools that write one entry overwrite each other in the code, too.
Sequence numbers of tools do not wrap (16 bits, against three datagrams in
flight). A subscription is sent to the address it came from; the port it
advertises instead is left out. `confirmed`, `since` and `emitted` are history.

### Persist and BlobStore

One step for each page `persist_save` erases and each word it programs, in the
code's order: header (magic with version, CRC), aligned payload, tail. The code
blocks the super-loop from start to end, so that only a `Reset` or a
`FlashFails` can come between, and both may leave the word or page under way as
it was, as it should be, or unreadable (`Torn`). `Load` is `persist_load`; `Reset`
loads the three regions, as `config_init`, `axis_manager_init` and
`cmc_state_init` do, perhaps with another schema version. A region has as many
pages as `s_regions` says, and two regions lie next to each other.

`BlobStore` is what persist.h promises: a region has one blob or nothing. While a
save lasts, and when it is cut short, it has nothing or one of the blobs tried
since the last good save. One behaviour is a surprise, and `BlobStore` allows it:
a save that failed may show up at the next one, whose erase, cut short, can give
the missing word the value it wanted, if that is all ones. `kept` and `tried` are
history. The documents promise more, two banks of which one survives; the code
has one, so `BlobStore` does not promise it, and `MCPowerCut` shows the difference
(run `power_cut`). Assumed: CRC-32 tells any two payloads apart; a word cut short reads as
something that is no header, CRC or payload. The G4 may raise an ECC fault (NMI)
on such a word instead, and the code has no handler that comes back: that board
would not boot, and the model does not say so.

### CameradStream and MessageQueue

The stream is a sequence of units, a header two of them; `Receive(n)` is
`service_tcp_listener_slot` when n units have come: fill the buffer, the while
loop (`Loop`, a recursive function over the offset), the shift of what is left,
and the emptying of a full buffer. Kinds of messages differ in what the parser can
tell: their size, the length they claim, whether `camerad_parse_header` accepts
them. `Reopen` is the pass that finds the connection ended: it forgets the buffer,
and may fail to open the listener. `MessageQueue` keeps messages in order, loses
them with the connection, and between a malformed one and the next moment at
which nothing is left to read. The branch that empties a full buffer
(`rx_truncated`) is never taken, for `camerad_parse_header` refuses messages
longer than the buffer.

### LogRing

`WriteLine` is `ring_write` with `ring_make_room`; the ring, its head, tail and
full flag are the code's. A unit is a number of bytes, and only the last of a line
has its newline. `Greet`, `SendChunk`, `ReopenListener` and `OpenListener` are the
ways through `log_tick`. `net_send` ends in the W6100 library's `send()`, which
waits for the chunk before to be acknowledged (socket.c:514-602): `sending` is the
time in there, during which nothing else of the loop runs, so nothing is logged.
`net_open` logs its failures, which `OpenFails` has. The link is assumed to be up and the port
set: with the link down `ensure_listen` waits (log.c:148-149). `delivered`, `told`, `sent`
are history. `LossesAreCounted` counts lost lines from the last report, for the
code forgets those the report itself has pushed out.

## The runs

| Run | Instance | What it shows |
|---|---|---|
| `cia402` | 2 clients, 1 entry, 2 values, sequence numbers modulo 5, handles -2..1, time-out 1 ms, gaps up to 2 ms | the invariant of the pipeline, its liveness, and `ImplementsOdService` |
| `axis` | 2 targets, pulses of 2; 4 requests, or 2 and 1 trouble | what counts as applied is the motor's; no move with a foreign setup, without a request, or after a quick stop cut it off; a quick stop withdraws the enabling, and the drive leaves RUNNING; the setup arrives; the trigger is given |
| `axis_eager` (fails) | 2 targets, 4 requests and 1 trouble, `Eager` | see Findings |
| `clients` | 2 limits, 2 values, 2 requests, 1 trouble, overruns | slot ownership, limits kept and saved whole, homed means homed |
| `clients_live` | 2 limits, 1 value, 1 request, 1 trouble, no overruns | the slot is given back, limits are sent, saves and homings end |
| `ctl` | 2 panels, 3 troubles, opens may fail | the connection is its owner's; selections end for a good reason; POLLs are answered; a panel that is gone loses the camera |
| `shots` | 2 shots, 2 positions, a table empty or full at boot, pulses of 2; 3 requests, 2 and 1 trouble, or 1 and 1 MOVEMENT | precedence, the stick under its watchdog, arrivals are real once the trigger is taken; a silent stick stops the axis; every recall ends or is reported |
| `od` | 2 tools, 1 entry of the motor and 1 of the CMC, 2 values, 2 tries, buffer of 2, batches up to 2; four budgets: 3 requests; 2 and a trouble; 1 and 3 events of the stream; 6 events of the stream | one owner of the slot, one fate for each request, confirmed writes hold, datagrams are uniform |
| `persist` | 3 regions, 2 blobs, 2 versions; 3 saves and 1 trouble, or 2 and 2 | `ImplementsBlobStore`: no mixtures; `SavedSurvives`: the next boot finds what was saved |
| `power_cut` (fails) | as `persist` | see Findings |
| `stream` | 5 kinds of messages, 4 messages, 2 connections, buffer of 4 | `ImplementsMessageQueue`; a good message is handled without waiting for the next |
| `log` | ring of 5, lines of 1 and 3, chunks of 2, 6 lines, 2 clients | order and losses; a client that acknowledges is served; the listener comes back |

Why the bounds suffice. Sequence numbers and handles wrap several times in
`cia402`; a gap of 2 ms against a time-out of 1 makes an answer come before, at
and after the deadline, and two clients are one more than the slot has room
for; the theorems below cover the rest. Two limits are the fewest with an order among
them, and two values the fewest that can be mistaken for each other. Four
requests let an operator set a mode, a target, trigger and stop; two panels are
all the sockets there are. In `shots`, three requests let a shot be
stored, recalled, and stopped or recalled again, and a pulse of 2 (the code has 3)
can be sent in its first cycle, in its last, in both or in none; any length is covered by the
theorems. In `od` a tool can ask, be answered late and ask
again while a first copy is in the buffer; six events of the stream subscribe,
fill half a batch, change the map or the subscriber, and fill another. Two
blobs that share a word, one with a tail of all ones, are the smallest that a mixture
could be mistaken for; three saves let a region be saved, its neighbour be
saved, and the first be saved over, and two troubles let a save that was cut
short be followed by another that is. A
buffer of two headers cuts messages at every place. In `log`, a line of 3 makes
room by dropping up to three, chunks of 2 cut it, and the ring wraps three times;
two clients make the second find what the first left. One trouble each: the hazards are single faults
at the wrong moment; a second fault multiplies the states of `clients` and `od` beyond
the time a run may take; `persist` has two. Deadlock is checked in all runs.

### Fairness, and why the code justifies it

The super-loop has no wait of its own, so weak fairness of a pass is the code itself. It
blocks in two ways. In flash, while a region is saved, which is modelled. And in
`send()`, which waits for the chunk before to be acknowledged: the log calls it, where `LogRing` has
the wait and assumes that the client's host acknowledges, and so do the responses of
`controller_mgr` (controller_mgr.c:383, 441) and of `web` (web.c:84), where the
models have the send as one step and assume the same. `SF` on frames: `cia402_tick` exchanges one as soon as a millisecond has
passed, and passes do not stop. `SF` on the motor's service and on delivered
frames: losses are bounded faults, not a broken cable. In `OdClients` the
sequences' delays end (`SF` on a tick that finds its delay over with a free
slot): the other clients leave gaps of seconds (`resync`), so a sequence finds
the slot free again and again. In `ControllerMgr`, time passes and a panel that
can be reached takes the connection; `SF` on `Answer` excludes a network that
breaks every connection just when it stands. In `CmcShots`, a motor that runs
to a target gets there, and again and again a frame goes out in a pass whose setup is written and
brings back a status (`SF`): losses are not for ever. In `CameradStream`, TCP delivers (`ReceiveSome`). `OdBridge` and `Persist`
have safety properties only and need no fairness.

## Findings

Met while modelling; each has a run whose counterexample shows it.

- `axis_eager`: when an OD write completes, what is *desired now* is recorded as
  applied, not what was sent (axis_manager.c:660). A setter called in between
  makes a value that was never sent count as applied.
- `power_cut`: bsp/flash/README.md, app/config/README.md and Documentation/architecture.md
  promise two banks, and the old or the new content after a power failure in
  mid-save. `persist_save` erases the only copy first (persist.c:184-185): the next boot may find
  neither. Every stored shot is such a save of the whole table.

### Seen on the way

In the models as the code has it; where a constant brings the behaviour about, it is named.

Moves and homing
- Pulses of three ticks are counted in passes of the super-loop (axis_manager.c:792-795), frames go
  out once per millisecond (cia402.c:351-353): three short passes use up FAULT_RESET, HALT or
  NEW_SETPOINT unsent, though axis_manager.c:215 says that one cycle is transmitted for sure. A
  recall whose trigger is lost so is then announced as an arrival, by the on_target of the
  place the motor never left (cmc_state.c:546); cmc_state.c:40 says that by then the motor "has
  definitely seen NEW_SETPOINT". `tlc -config MCCmcShotsGrace.cfg MCCmcShots` finds it
  (`GraceSuffices` is violated).
- A home sequence that reaches its 30 s limit is set to TERMINAL_FAILED in every
  tick from then on and never becomes IDLE (axis_manager.c:1905, against :1818):
  `SequencesEnd` fails with `Overruns = {"home"}`.
- `quick_stop` and the panel's STOP leave `start_move_pulse`, so that a move that still
  waits for its setup is executed later (`QuickStopAbandonsMove` is about the pulse, which is cleared).
- The same false arrival is announced when the drive is off or the setup takes longer than
  the grace period (`hampered`), and no MISSED MOVE is reported.
- MOVEMENT is ignored whenever the motor moves (cmc_state.c:465, 533), also when the
  stick itself moves it, until the watchdog has stopped the axis; the comment at
  cmc_state.c:453 says this of a shot under way.
- A limit whose write fails is not written again. A load factor set while the last one
  is in flight is cached and not written (axis_manager.c:1346).
- cmc_state.c:107 says that a panel's time-out does not disable the drive; line 162 does so.

Network
- "Round-robin" among panels (controller_mgr.c:341) is a scan from slot 0; a panel that sends POLLs and
  takes no connection shuts the other out: `PollsAnswered` fails with `Unreachable = {1}`.
  A failed open of the outbound socket blocks it until its owner is evicted.
- The retransmission of a CMC entry's write is executed again, a command like
  start_move included, for only requests to the motor are looked up (od.c:280-287).
- axis_enable (0x3010) reads 0, whatever the latch (cmc_od.c:104, whose comment says it returns the latch).
- A connection that ends with messages still unread loses them (controller_mgr.c:760):
  a panel that sends and closes at once may not be heard.

Log and flash
- A log client that comes and goes between two ticks leaves the socket in
  CLOSE_WAIT, then CLOSED, with `s_have_client` false: the listener is not
  opened again (log.c:178). `ClientIsServed` excepts it by name.
- A log client that stops reading stops the super-loop in `send()`; the log's README
  says that it does not wait for the client. net.c:166 logs from below the log, which
  the README forbids.
- The log's report of lost lines forgets those it pushes out itself (log.c:171-174).
- persist.c:8 gives the pages 62-63 to the configuration; the network settings are in 63. A region of two pages
  there would erase them (`NumPages_ConfigTwo`, the mutant that shows it).
- Storing a shot erases two pages, over 40 ms, in the handler of a key; the motor's command time-out is 30 ms.

## Proofs

Every invariant and every action property the passing runs check, and two of
the three refinements, is a theorem of the specification for all values of the
constants. Each `...Proofs` module is laid out alike: lemmas about what the
parts of an action do, one `...Keeps` lemma for each action, a `Next...` lemma
that combines them, then the theorems. None of the properties is inductive
alone; the invariants below are, and except `PersistInv` and `LogInv` (which TLC
found to hold on the instances of `persist` and `log`) they are also invariants
of the runs. The only assumption on constants is each module's own
`ConstantsAssumption`, unless a hypothesis is named.

| Module | Invariant | Theorems |
|---|---|---|
| `Cia402Proofs` | `PipelineInv` | `PipelineCorrect`, `AcknowledgedWritesHold`, `ReadsAreCurrent`, `CommandAfterEveryRequest`, `PipelineImplementsOdService` |
| `AxisMotionProofs` | `SetupInv` | `SetupCorrect`, `NoForeignSetup`, `OneMoveEach`, `StoppedStaysStopped` |
| `OdClientsProofs` | `ClientsInv` | `ClientsCorrect`, `LimitsAreKept`, `SavesAreComplete`, `DoneMeansHomed` |
| `ControllerMgrProofs` | `OutboundInv` | `OutboundCorrect`, `HolderIsWatched`, `SelectionsEndRightly` |
| `CmcShotsProofs` | `ShotsInv` | `ShotsCorrect`, `ShotTakesPrecedence`, `ArrivalsAreReal` |
| `OdBridgeProofs` | `BridgeInv` | `BridgeCorrect`, `ConfirmedWritesHold`, `DatagramsAreUniform`, `EachHasOneFate` |
| `PersistProofs` | `PersistInv` | `PersistCorrect`, `SavedBlobsSurvive`, `PersistImplementsBlobStore` |
| `LogRingProofs` | `LogInv` | `LogCorrect`, `RingIsSound` |

### Cia402

`PipelineInv` has seven conjuncts:

- `TypeOK` and `SlotHasOneHolder`;
- `MessagesAreOwn`: a message of the motor that is still alive and bears the
  awaited number belongs to the request in the slot. Why sequence numbers work:
  a live message is younger than `SeqMod` frames (`AliveIsOlder`), so a new
  request's number is borne by no live message;
- `AnswersHold`: an OK answer, staged or collected, tells what the dictionary holds;
- `OpenWritesUnacked`: an entry that a live write may still change is not acknowledged;
- `OdFrameIsAwaited`: an OD frame was the last one sent only if its request is awaited;
- `AckedIsStored`.

`SlotAfterSend`, `SlotAfterReply` and `SlotAfterTimeout` say what the three parts
of a tick do to the slot, and `SlotAfterTick` puts them together.

The refinement needs nothing beyond `PipelineInv`. Every step is one of the
service's or a stutter: `BeginImplements`, `PollImplements`, `ExecuteImplements`
and `TickImplements` show for each action which one, through
lemmas that say what the abstract actions are under the mapping (`Loses`, `GivesUp`,
`Succeeds`, `TakesEffect`, `LosesLate`). The tick is the delicate one: one exchange
sends, takes a reply, times out and drops what has grown too old at the motor, and
must not amount to two abstract steps.

### AxisMotion

All four theorems have the hypothesis `~Eager`, that nobody changes the setup while
it is being applied; without it `NoForeignSetup` is false, as `axis_eager`
shows. `StepIsTracked` ties the sequencer's step to the request in the pipeline,
and says that a write given up, which may still take effect, is of a parameter
that counts as not applied. With it, `AppliedIsStored` (a parameter that
counts as applied is the motor's) is inductive. `TriggerIsTracked` follows the
bit on its way from the latch to the motor: while the pulse lasts the setup
stays applied; when nothing is owed, a bit on the wire is one whose edge the
motor has seen. Together they give the three action properties.

### OdClients

`OwnerRemembers`, that each client's flag or handle stands for the request in the
slot, does not say *what* was asked. `RequestsMatch` does, with what the motor's
store holds once the request took effect; `HomeIsTracked`, `BootIsFirst`,
`SaveIsLast` and `LateIsFailed` do so for each sequence: a DONE that is older than
the command is never read, nothing precedes the boot read, no limit is marked
when the save begins, and a write that may still come late is of a limit that
is known to have failed or will be written again.

### ControllerMgr

`OutboundInv` is inductive once the lemmas know that the scan of the slots finds
what it looks for. The scan is `Min` of a set of slots; `FirstExists` shows that
it exists, for any number of slots, without an induction: in the well-founded
order of finite sets one of the sets `{j \in T : j <= k}` is least. `LogRingProofs`
does the same for `ring_make_room`. `HolderIsWatched` has the hypothesis
`PollFirst` (see ControllerMgr above).

### CmcShots

`MoveIsTracked` says why an arrival can be believed. The pulse may run out unsent; but once
the motor has taken the trigger (`taken`) it is on its way to the shot or stands
there, and what is left of a pulse gives it no other edge, for it has seen the bit already. In
a move that nothing hampered the trigger is taken within the grace period or not at
all, and a status seen after it is of this move. `StickIsWatched` and `ShotHasPrecedence` are needed for it, since
a stick or a stop must not reach a move under way.

### OdBridge

Any number of tools, retries and losses, and buffers and batches of any length.
`RequestsInOrder` is what the network's order gives: from each tool, the request in
service, those in the buffer and the one it waits for come in the order of their
numbers, and equal numbers are one request sent again. `WritesSettle` then says
of a write that was confirmed, or has taken effect and will be, that nothing under
way (in the buffer, in the slot, or given up and late) gives the entry another
value. Both must be proved together: a stale retransmission is harmless only
because the tool has not moved on. `BatchIsUniform` binds the samples held to the
map, the subscriber and the decimation.

### Persist

`SaveInOrder` says that the words up to the step of a save are programmed and the
rest of its page erased; `HeaderIsOfOneSave` that a header that can be read and a
CRC that can are of one save that was begun; `KeptIsThere` that what the last
save left is what a load finds. `HeaderIsOfOneSave` must hold of flash that resets
and errors have cut short any number of times, of an erase that left some words and
took others too: then header and CRC may be of a save that had failed, but
not of two. The refinement maps each step of a save, a load or a reset to
a step of `BlobStore` or to a stutter. It is where the surprise named above (a save
that failed shows up later) is proved to be the only kind.

### LogRing

The ring is arithmetic modulo `RingSize`. `WrapIs` and `WrapSame` reduce it to linear
arithmetic, `StretchIs` and `UsedByIs` measure it (`s_full` tells a full ring from an empty one), and
`WriteIndices` shows that a line is written over nothing but units that were
dropped. `WriteDoes` and `ConsumeDoes` say the same of what the ring contains, and
`EndsShift` counts the newlines that left. `AllInOrder` is the order of *all* pairs
of units, not just of neighbours, for dropping lines makes others neighbours
of the unit sent last; and it says that the youngest line in the ring is whole, so that
`ring_make_room` always finds room. `LinesBounded` only keeps the bound on lines.

### Only model-checked

- `ImplementsMessageQueue`: the parser's while loop is a recursive function over the buffer, and
  what it consumes of every buffer is an induction over data.
- All liveness properties (`EveryRequestEnds` and those of `axis`, `clients_live`, `ctl`,
  `shots`, `stream` and `log`), which with ENABLED and fairness are out of the prover's reach.
- What is not a constant of a model: that the network keeps order, that CRC-32 tells payloads
  apart, that the motor's entries are changed by requests only, are built into the
  models, as said in their sections.

## Not modelled

- The formats: CAMERAD encoding, OD records, HTTP, CRC-16 of SPI frames (a bad
  frame is an input), scaling and clamping of physical values, log texts.
- Durations of moves and buttons (planned, above); the joystick's arithmetic.
- `web`: text of one connection; what it changes is changed by handlers of the
  modules above. `led_indicator` and `bsp`: output and I/O. The table of `cmc_od`.
- Failing initialisation: `od_init` without sockets leaves the bridge off, `persist`
  has no state to start from.
- `src/Drivers` (STM32 HAL, CMSIS, W6100 driver), `src/Core`: vendored and generated, 163 000 of
  the repository's 174 000 lines of code. They enter as what the firmware
  sees of them: frames, sockets, words of flash. This is why the
  lines mapped are a small share of the repository, and about a third of the `app`
  directory, whose own logic the models are of.
- The Python GUI beyond its transactions, and the test driver.

PROJECT.json lists the state of every component and every hazard.
