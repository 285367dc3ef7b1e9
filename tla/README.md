# A formal model of APRS Navigator

APRS Navigator receives and sends APRS radio packets. The repository holds two generations of it:

- the **engine** (`engine/`), a C library with a command API, an event bus and a periodic tick, together
  with its HTTP and WebSocket servers (`transport/`), a GUI client (`clients/gui`) and a modem (`modem/`);
- the **legacy application** (the files of the root directory), an X11 port of an embedded program whose
  work is done in a `SIGALRM` handler.

This directory models the engine with its servers and modem link, and the stateful parts of the legacy
application, in TLA+, checks the models with TLC and proves the most important results with TLAPS. The first
part below is an inventory of the whole system, the second the plan, the rest the documentation of what exists.

## 1. Inventory

| Component | State | Operations | What is hard | What makes it correct |
|---|---|---|---|---|
| Command queue and API (`engine/src/aprs_engine.c`) | ring of 64 commands, head, tail, count; clock | ~50 API functions that enqueue; `aprs_engine_tick`; `engine_process_commands`; `aprs_engine_generate_remote_keys`, which drains the ring on the spot | events run callbacks inside commands, which may call the API again; full ring | accepted commands run once, in order; the loop returns; clients learn of refusals |
| Message manager (`message_manager.c`) | 20 inbox and 8 outbox slots, id counter, retry settings | receive, send, ack/rej, mark read, set mode and retry, retry tick | lost, late and repeated answers; full tables; settings changed under way; 16-bit ids | unread and unanswered messages are kept; an answered one is silent; retries end |
| Digipeater (`digi_engine.c`) | queue of waiting frames, aliases, timing, lists of recent repeaters | hear a frame, tick, settings | duplicates, delays changed while frames wait, full queue, path rewriting | every queued frame is repeated in time, none twice, none while switched off |
| Event bus (`event_bus.c`) | 64 subscriptions, ids | subscribe, unsubscribe, publish | entries never reclaimed; publishing inside a callback | active subscriptions, and only they, get each event, in order |
| WebSocket server (`ws_server.c`) | 16 clients, callback contexts, descriptors | accept, handshake, subscribe, unsubscribe, commands, close | table compaction while it is walked, descriptors used again, lifetime of contexts | every client owns its socket; no callback on freed memory; events reach the subscriber |
| HTTP server (`http_server.c`) | none of its own | requests | blocks in `accept`, never ticks | requests take effect |
| Station manager, frame ingest (`station_manager.c`, `frame_ingest.c`) | 151 stations, sort order, marks, filter; 32 uniqueness entries | find or create with eviction, update, sort, filter, mark; duplicate test | indices that outlive an eviction; a table that never evicts | indices valid, marks follow their station, duplicates recognised |
| Beacon manager (`beacon_manager.c`) | schedule, path and status rotation, digisens flag | send, tick, settings | retries that re-arm themselves, conversions of negative delays | one beacon per interval; retry until repeated |
| GPS, position (`gps_manager.c`, `position_manager.c`) | fix, counters, fixed and manual position | NMEA, tick | counters per tick, stale fix | effective position from a live fix |
| Statistics (`stats_engine.c`) | buckets | record, tick | roll-over | sums agree |
| Remote control (`remote_control.c`) | four keys | generate, execute | keys switched off after their command, whose events are re-entrant | a key that was used works again at most inside its own command |
| Raw frame editor (`raw_frame_editor.c`) | buffer, length | set, edit byte, send | length and content at the end of the buffer | the text ends with its length and is never longer than the buffer |
| Configuration (`config_persist.c`) | file | save, load, factory reset | crash or failed write during a save, damaged files | only a configuration that was saved whole is loaded |
| Modem (`modem/`) | KISS receive buffer, audio buffers | poll, send | frames split over reads, short sends, overflow | frames arrive whole; one that is cut spoils no other |
| GUI client (`clients/gui`) | window | draw, keys | - | - |
| Legacy scheduler (`timer.c`, `sta_manager.c`, `peripherial.c`) | receive buffers, transmit queue, repeat queue, flash requests | `tc1` in `SIGALRM`, application code between its runs | handler and application share buffers, pages and requests | no page loses its content, what is asked for is what is served, frames keep their order |
| Legacy stations and messages (`sta_manager.c`, `eeprom.c`) | stations, messages, drafts, flash pages | frames, beacons, drafts, reading, deleting | numbers into tables whose entries and pages are used again | whatever is shown is what its sender sent |
| Legacy digipeater and queries (`sta_manager.c`) | path, keys, codes | repeat, STATG, STATP, EXEC | digipeaters that hear each other, replays | repeats are paid for by hops; a code is answered once |
| Legacy settings (`config.c`, `globals.c`) | ~60 settings and their copy in flash | 25 screens, update_config, stop and start | which screen saves what, page by page | at the menu the pages hold the settings |
| Legacy station list (`app.c`) | order, first line, cursor | frames, keys | the list changes under the cursor | the cursor stays on its station |
| Legacy frame I/O, input (`frame_io*.c`, `aprs-rx.c`, `ip/`, `input.c`) | UDP sequence number, key ring | poll, inject | drivers and rings nobody uses | - |
| Legacy screens and drivers, netcat, tests | - | - | no protocol of their own | not modelled |

How they interact. Clients call the API, which writes to the command ring. The host (the WebSocket server or
the modem) calls `aprs_engine_tick`: clock, commands, GPS, beacon, digipeater, message retries, statistics, in
this order. Frames come in through `aprs_engine_feed_frame`, between two ticks, and go through parsing,
filters, uniqueness, stations, messages and digipeater in one call. Everything tells the outside world through
`eb_publish`, which runs the callbacks synchronously. All of it happens in one thread: the mutex that
`aprs_engine_create` initialises is never taken. What interleaves is therefore calls, frames and ticks, and
callbacks inside commands.

The hazards of the code, each with its line and the property that watches it, are in `PROJECT.json`.

## 2. Plan

In this order, and all of it exists:

1. `MessageManager`, proved; `CommandFifo` (abstract) and `CommandQueue` (ring and re-entrant loops),
   refinement proved; `DigiQueue`, proved; `WsServer` over the event bus, proved; `StationTable` with the
   abstract `StationMap`, refinement proved.
2. `Gps` with `Beacon`, proved but for its liveness, and with `Position`; `Ingest`, `Statistics`, `Remote`,
   `Editor`, `ConfigFile`, `EventBus`, `KissLink`, `Ax25`, `Requests`.
3. Legacy: `Scheduler`, `StationLog`, `DigiPath`, `Query`, `Settings`, `ListView`.
4. `Components`, which puts the modules of 2 (but `Gps`, `Beacon`) and 3 side by side, and the proofs about
   all of them.

Composition: `CommandQueue` implements `CommandFifo`, `StationTable` implements `StationMap`; `Gps` is
composed into `Beacon` and into `Position`. The component modules take the phase of the tick (`ticking`) from
`aprs_engine_tick` instead of sharing one large module, because the components touch one another only through
the clock and the settings. Components of few states and without fairness are instances of one module,
`Components`, in which a behaviour picks one of them (`active`) and takes its steps; `MCComponents` gives it
values for TLC, `ComponentsProofs` proves its properties for all values.

Every safety property of the runs is a theorem (section 6). Worth proving next: the steps the liveness
properties rest on, as action properties (each tick brings a waiting message, frame or beacon nearer to its
end), and an abstract specification of the message boxes.

## 3. Modules

| Module | Content |
|---|---|
| `Slots`, `SlotsProofs` | scans of C arrays (`First`, `Least`) and lemmas about them and about remainders |
| `MessageManager`, `MCMessageManager`, `MessageManagerProofs` | messages |
| `CommandFifo`, `CommandQueue`, `MCCommandQueue`, `CommandQueueProofs` | commands |
| `DigiQueue`, `MCDigiQueue`, `DigiQueueProofs` | the repeat queue |
| `WsServer`, `MCWsServer`, `WsServerProofs` | clients and subscriptions |
| `StationMap`, `StationTable`, `MCStationTable`, `StationTableProofs` | the station list |
| `Gps`, `Beacon`, `MCBeacon`, `BeaconProofs` | the fix, the schedule of beacons |
| `Position`, `Ingest`, `Statistics`, `Remote`, `Editor`, `ConfigFile`, `EventBus`, `KissLink`, `Ax25`, `Requests` | the other parts of the engine, its modem link and its servers |
| `Scheduler`, `StationLog`, `DigiPath`, `Query`, `Settings`, `ListView` | the legacy application |
| `Components`, `MCComponents`, `ComponentsProofs` | the sixteen modules that have no MC module of their own, side by side |

The operators marked *Mutant* in the component modules are wrong versions of the definition they precede;
each breaks the property it is listed with in `PROJECT.json`, which shows that the property can fail.

### MessageManager

`rx` and `tx` are the arrays `rx_messages` and `tx_messages`, reduced to id, source, state, time and retry
count. `Receive` is `mm_receive_message` with the answers it dispatches (`Settle`) and the search for a slot
(`RxTargets`); `Send`, `MarkRead`, `SetReceiveMode`, `SetRetry`, `FactoryReset` and `LoadConfig` are the
commands; `BeginTick` is the clock update of `aprs_engine_tick` and `RetryTick` its `mm_retry_tick`. Commands
run only between the two, frames only outside of them (`ticking`). Left out: the texts, the addressee (a frame
is for us or not), `rx_msg_count` and `tx_msg_count` (written, never read). A config file holds settings a
client could have set, so `LoadConfig` takes the same inputs. An id is a number below `IdMod` (0x10000 in the
code); the settings are bytes (`Byte`). Time counts units of the retry delay.

### CommandFifo and CommandQueue

`CommandFifo` is what the protocol document promises. `CommandQueue` has the ring (`slots`, `head`, `tail`,
`count`) and the stack of loops: `drains` activations of `engine_process_commands`, the innermost inside a
command or not (`inCommand`). `ClientCall` is an API call from a transport, `CallbackCall` one from a callback
that runs inside a command, `GenerateKeys` the one API function that drains the ring itself. `Reentrant` says
whether callbacks call the API, which the API permits and no host in the repository does. The host ticks, as the
WebSocket server and the modem do. `reply` is what the API returned; the transports ignore it. A loop releases
the slot before it runs the command and keeps a pointer to it; that the slot may be overwritten meanwhile is
harmless, because every case of the switch has read its payload before it publishes. The model therefore keeps
only the kind of the command.

### DigiQueue

`queue` is `digi_queue` with status, frame and repeat time. `Hear` is `de_check_and_queue`, `RepeatTick` is
`de_tick`; `selected` stands for the aliases: the frames whose path one of them selects. The duplicate test is
translated as written: it compares the CRC with a field that stays 0, so only frames with CRC 0 can be
duplicates (`ZeroCrc`), and it subtracts a time that usually lies in the future. The status *repeated* exists
only inside `de_tick`. Remote commands (DIGIOFF, DIGION) and `CMD_SET_CONFIG` change the switch as
`SetEnabled` does. `digi_queue_count` is written and never read.

### WsServer

`clients` is the table, `conn` the connection behind each descriptor, `subs` the subscriber table of the event
bus together with the callback context of each subscription (`live`: allocated). Each action is one branch of
the main loop. `WithoutClient` is the removal by moving the last entry. The system gives out the lowest free
descriptor, which is external behaviour.

### StationMap and StationTable

`StationMap` says what a user sees: a map from callsign to the time of the last frame and the mark, of bounded
size, in which a new station displaces the one that was silent longest, but never one's own. `StationTable` has
the array with its first-fit lookup, `num_stations` and `sort_order`. `Hear` is what `engine_dispatch_frame`
does to the table with a frame that passes the filters (`sm_find_or_create`, `sm_update_from_frame`), `Mark`
and `Sort` are the commands; a sort is the exchanges of the two loops of `sm_sort` in their order, each loop a
recursive function of its rounds.
Callsigns are numbers in the order of `strcmp`; the least may stand for the empty one, which a frame that
begins with `>` and has no `:` brings into the table, because `fi_parse_frame` takes it for a valid frame and
`sm_find_or_create` does not look at the name: it is an ordinary callsign here, and what tells used entries
from others is `num_stations` alone. The columns *distance*, *bearing*, *packets* and *symbol*
sort by data of a station that the model leaves out; the loop is the same for every key. The table does not
read the configuration: after `SET_CALLSIGN` entry 0 is still the callsign of the start, and the new own
callsign is an ordinary entry that can be evicted.

### Gps, Beacon and Position

`Gps` has the parser that outlives a call, the position and speed it last delivered, and the counter that
decides for how many ticks a fix counts; `Push` is `gm_push_nmea`, `GpsTick` is `gm_tick`. `Beacon` keeps
`next_beacon_time_ms` and `last_beacon_sent_ms` relative to the clock, in units of the 15 s after which a
beacon nobody repeated is sent again. `EndTick` is the GPS tick followed by `bm_tick`, `Send` what
`bm_send_beacon` does when nothing forbids it, `HearOwn` the part of `de_check_own_digi` that ends the
repetitions. A loaded configuration sets the delay but not the time of the next beacon, and neither load nor
reset touches the smart mode: as in the code. `Position` has the two sources (*USE* for the distances,
*REPORT* for the beacons) and the place the distances of all stations were computed from.

### Ingest and Statistics

`Ingest` follows `engine_dispatch_frame`: `Refuse` for a frame that does not parse, is invalid or filtered,
`Take` for one that reaches its handler; `seen` is `unique_check`, `counted` the frame of each sender that
really counted last. A handler also gets repeated frames: uniqueness decides about counting only.
`Statistics` has the two rings and, as history, the frames of each period.

### Remote, Editor, ConfigFile, EventBus

`Remote` holds in `running` the keys whose command has begun and not returned, because its events may bring
another command or new keys; `used` are the keys that let a command in, counted when the command begins.
`Editor` has the buffer byte by byte with its length and the octet behind it, which `rfe_edit_byte` writes when
the last offset is edited; what is sent is what `fi_parse_frame` leaves of the text when it is given its own
output as input. `ConfigFile` writes the file in pieces and may stop between any two, or a write may fail, which
`cp_save` reports as success; at the start there may be any file of `Foreign`, damaged ones among them. The
checksum of some data is that data, so that two different ones never have the same. `EventBus` has the table and
the stack of publications, each with the subscribers it has called.

### KissLink, Ax25, Requests

`KissLink` is the byte stream between TNC and engine in both directions, cut anywhere; `rx` is `rx_buf`.
`EngineSends` is `kiss_tnc_send` on a socket that does not block: it may take only the beginning of a frame,
which is reported as sent; `partial` is what the TNC then has, until the delimiter of the next frame ends it.
The loops of `kiss_decode` (`Read`, `Unescaped`) and `kiss_tnc_poll` (`Taken`, `Extracted`) are recursive
functions of their rounds. What the code does on overflow of `rx_buf` is there (`Shortened`); frames are short
enough (`LinkAssumption`) for it never to happen, which the proof shows. `Ax25` has the octets of the address
fields with their end bit and the bit that marks a field as repeated, as this program and as the protocol writes
them; `ax25_decode` prints the text as a string that nothing ends, so what the buffer held behind the frame
(`behind`) follows it up to a NUL (`Printed`). `Requests` maps every message and request to the calls it makes
and the replies it gets; `Receive` is one `recv` of the WebSocket server, which may hold several frames, of
which a CLOSE drops the rest.

### Scheduler

The steps of `tc1` are actions, because `SIGALRM` interrupts the application between any two of its steps; the
application runs only while `stage = "off"`. `spi_request_handler` is cut into its statements: a page written or
read and the assignment that says so are two steps, between which an alarm may come. `ownSaved` says whether the
page of one's own station holds the beacon sent last, `rpbuf` and `msbuf` what the handler read, `overtaken`
which of these buffers had its request replaced between the two steps. Whether a time has come is left to
chance, except the age of an entry of the repeat queue, whose unsigned difference takes an entry that still
waits for an old one. Pages are not used again here; that is `StationLog`.

### StationLog, DigiPath, Query, Settings, ListView

`StationLog` has stations, messages and drafts with the flash page of each, and what the page holds. `DigiPath`
follows one frame through digipeaters that all hear each other. `Query` has the keys of the key screen and the
code of STATG. `Settings` is a table of screens and rows, a row being the settings its keys may lead to, with
the three pages of flash. `WritePage` is one page of `update_config`; `Stop` may come between any two steps, and
`Start` is `globals_initialize` followed by `restore_factory`, as `demo.c` calls them: nothing of what the pages
hold outlives it but the types of the aliases (`Started`), so that the pages are right only after the next save.
`Unwritten` are the settings no page holds. `ListView` has the order of the list, the first line shown and the
line of the cursor.

## 4. Runs

| Run | Checks | Bounds and why they are enough |
|---|---|---|
| `message_boxes` | types, silence of blank slots, ids; unread, waiting and answered messages; retries end | two slots in each box, two generated ids, ids of the air from three: both boxes overflow with every mix of states and equal times; retry settings 0 (256 truncated), 1 and 2, delays 1 and 2; commands until time 1, answers at any time, ticks up to 7, enough to use up every retry of two messages |
| `queue_reentrant` | ring invariants, implements the FIFO and the fair FIFO, the loops return | three slots, three nested loops: the ring wraps and is full inside a nested loop |
| `digi_queue` | queue invariants, order, silence, every frame served | two slots, three frames, one with CRC 0, delays 0, 1 and 2; input until time 2, ticks until 5, beyond the largest delay |
| `ws_tables` | tables and contexts | three clients, four descriptors, four connections, three subscriptions: removal from the middle, descriptors used again, a full subscriber table |
| `beacon` | types, both answers about the fix, repetitions end, every enabled path is used for ever | two paths, one switched at any time, one text, a delay of one unit and the factory delay of four, speeds in both ranges of the smart interval, a fix of one tick: every switch meets every phase of the schedule |
| `components` | see below | see below |
| `station_table` | types, distinct callsigns, complete list, sort, implements the map | three entries, four callsigns, three times: every entry but the first is evicted and comes back, with equal times, marks and all sort orders |

`components` takes each module of `MCComponents` at its own bounds:

| Property | Says | Bounds |
|---|---|---|
| `DistancesFollow` | in every mode a step leaves the distances computed from the position in use or moves nothing, except the steps named `Overlooked` | two places, two slots, a fix of two ticks; every mode, loads, resets |
| `TrafficKnown` | a frame counts as unique by what its sender really sent last; graphs show the newest periods in order | three senders for two entries, two contents each; rings of two buckets, ticks up to three periods late |
| `KeysSwitchedOff` | a key that let a command in works again only inside a command of its position; a code of the old program is answered once | two keys, equal and different clock readings, two commands in each other |
| `ConfigurationsStored` | a file is loaded only if one save wrote all of it; once a screen has saved, the menu finds all pages as memory has them | a stop or a failed write after every piece, files of other programs and versions, files with a wrong checksum, wrong data or cut short; every screen, one change, a stop between any two pages with the flash kept or lost |
| `SteadyAreCalled` | who stays subscribed has been called when the loop is past its entry | two subscriptions, patterns with wildcards, two publications in each other |
| `FramesArrive` | frames cross the KISS link whole; one the socket cut spoils no other; digipeated ones are read as they were sent up to the first NUL; repeats are paid for by hops | frames with the delimiter and the escape in them, pieces of every length up to eight octets, sends cut at every octet; paths of up to two fields, texts of at most one octet with a NUL or other octets behind them, as long as a line and longer; three types of alias |
| `ClientsServed` | a refused request changed nothing; the edited text ends with its length | every command, path and combination of body and query; two WebSocket frames in a piece; a buffer of four bytes and the one behind it |
| `LegacyBuffers` | no page loses its content, what is served is what was asked unless the interrupt replaced the request before it was marked, no frame overtakes another | two frames, two repeat slots, three transmit slots, one message |
| `LegacyTables` | messages show the pages written for them; the cursor follows the entry of its station | two callsigns for one entry besides one's own, one message, one draft, six pages; three stations on two lines |

`CHECK_DEADLOCK FALSE` appears in most configurations because the bounds (clock, ids, connections) end the
behaviours; the code has no final state.

Runs that show a disagreement between the code and what it or its documents say:

| Run | Statement | What happens |
|---|---|---|
| `message_clogged` | "Repeat until ACK/REJ or retry limit" | messages at the limit stay in the outbox for ever; once it is full, sends are dropped behind `APRS_OK` |
| `message_foreign` | "one of our sent messages" | in receive-all mode foreign acks settle our messages |
| `digi_duplicate` | "If recently queued, it's a duplicate" | the same frame waits twice |
| `ws_stale` | one session per connection | events of a closed connection go to the next one |
| `position_changes` | "Recalculate distance/bearing on changes." | a configuration, a stored position outside the static mode, or a fix in the automatic mode moves the position in use and leaves the distances |

## 5. Fairness

Safety runs assume none. Liveness runs assume that the host calls `aprs_engine_tick` again and again with a
delta above zero, and that a tick, once begun, ends: the WebSocket server ticks in every round of its loop,
which `select` wakes after 100 ms at the latest, the modem every 50 ms. In `Beacon` a tick may also pass no
unit of time, so that the advance of the clock is strongly fair: commands may come between any two ticks, but
the clock of the host does not stop. The steps of the command loop are fair because it is plain code of one
thread. Nothing is assumed of clients, stations or the radio.

## 6. Proofs

All theorems hold for every value of the constants that satisfies the ASSUMEs of the modules, which TLC
evaluates in the runs. What the assumptions say beyond types and sizes above zero:

- `LogAssumption`: there are more flash pages than stations, messages and drafts can use at once, and two
  (2000 in the code, for 150 + 20 + 8).
- `LinkAssumption`: a frame, escaped in the worst way, and a piece fit into `rx_buf` together (8192 octets, of
  which `recv` fills at most 4096). Frames of AX.25 have some 300.
- `BusAssumption`: a pattern has its star at the end, as the patterns of the documents do.
- `ConfigAssumption`: a file that has the header of this program and the checksum of its data holds what was
  once saved. Damaged files, shorter ones, and files whose data do not fit their checksum may be there.
- `PathAssumption`: aliases have one of the three types, hops and SSIDs are half octets.

Three arguments return in all proofs. A scan of a C array stops at the least index of the set it looks for
(`FirstIsLeast`, `LeastNonEmpty` in `SlotsProofs`). A loop over an array is a recursive function of its rounds;
`LoopExists` shows that such a function exists, `IntervalInduction` that what its first round establishes and
every round keeps holds after the last, both from the least number of a set, because an induction rule over
formulas cannot be used here. Side by side in `Components`, a step is one of a given component or leaves its
variables alone (the lemmas `...Alone`), so that the invariant of a component holds in all of them (`...Holds`).

- `MessageManagerProofs`: the inductive invariant is `TypeOK /\ BlankSlotsSilent /\ NoFutureTimes`
  (`Invariance`, `TypeCorrect`, `BlankIsSilent`). From it follow the action properties: `UnreadIsKept` because
  `RxTargets` holds free or read slots only and a scan stops inside the set it scans for; `UnansweredIsKept`
  because a reusable slot is blank or answered, and `BlankSlotsSilent` tells that a waiting one is not blank.
  `AnsweredStaysSilent` because the tick selects waiting messages only and a send that takes the slot of an
  answered one moves the id counter.
  `IdsAreDistinct` needs more: every id in the outbox stems from a value the counter had (`IdsGenerated`);
  values less than `IdMod` apart have different remainders (`RemaindersDiffer`).
- `CommandQueueProofs`: `RingTyped`, `RingInvariance` ( `tail = (head + count) % Size`, filled slots) and
  `Refinement`: every step of the ring maps to `Accept`, `Refuse`, `Execute` or a stutter of the FIFO. The
  ring positions are compared through a case distinction on wrapping instead of remainders, which the
  arithmetic solver handles.
- `WsServerProofs`: `SocketsOwned`, `SubscriptionsOwned` and `ContextsSafe`: no two clients share a socket, the
  id a client holds names its own subscription, no active subscription has a freed context and no context is
  freed twice (`FreedOnce`); `TablesTyped` adds that no table takes more than it has room for. The invariant
  adds what the code relies on silently: the id and the context a client holds belong to one subscription, and
  the context of a client that has unsubscribed belongs to a silent one. Removal by swapping is reasoned about
  through the map `Before` from new positions to old ones, which is injective and misses the removed client
  only.
- `StationTableProofs`: the invariant says that callsigns are distinct and that entry 0 keeps its callsign.
  From it every lookup ends at the one entry with that callsign (`Lookup`) and the map is as large as the
  table is full (`Count`), which gives `ListedOnce` and `TableRefinement`: a frame renews one entry, extends
  the map or replaces a station silent longest, for tables of every size. `ListInv` adds the list: the order stays
  a permutation of the entries through every exchange of a sort, and a new station takes the next place, so
  that the list shows every station once (`TableTyped`, `ListShowsAll`). `SortIsCorrect` follows the two loops
  of `sm_sort`: after the inner one the greatest of the rest lies behind it, and the outer one extends that end
  place by place, for every column because each compares entries by a number (`ColumnRanks`).
- `DigiQueueProofs`: types and `NothingOverdue` are inductive together. That a frame is never forgotten rests
  on the tick looking at every slot; a command may switch the digipeater on again with overdue frames only
  inside a tick, before the repeat pass. `TurnsKept` and `OffIsSilent` follow action by action: a frame takes
  the slot of another only if none is free, and then of the least.
- `BeaconProofs`: the invariant says that the receiver is in one of two states (`States`), that indices and
  intervals stay in their ranges, and that a repetition is never pending once the beacon was heard
  (`HeardSettles`), from which `RetriesStop` follows. `RotationEnds` shows that the rotation comes to an
  enabled slot whenever there is one, for tables of every size; `IntervalNat` that the smart interval is a
  time for every speed.
- `ComponentsProofs`, component by component:
  - Remote control (`KeysAreSwitchedOff`): a key is its seed and its position, so that a used key that is on can
    only be held by a position with a command in progress: a command that returns switches its position off,
    whichever key is there by then (`KeysTyped`). Queries: what is outstanding is counted by the keys that are
    on (`OutstandingIs`).
  - Ingest and statistics (`TrafficIsKnown`): `MemoryExact` is inductive with the types of its history; a ring
    of n buckets holds the log, read from behind the current bucket (`Draws`), however late a tick comes.
  - Requests and editor (`ClientsAreServed`): a reply that refuses comes with no call, request by request, and
    through all the frames of one `recv`; `Terminated` with the type of the buffer and of the octet behind it is
    inductive.
  - Event bus (`SteadyGetEvents`): who is steady during a publication has an active entry (`SteadyOn`), which
    the loop of `eb_publish` either has passed or will come to. That its matching with wildcards calls whoever
    it should is shown by recursion over both sequences from their ends.
  - Digipeating, address fields, link (`FramesComeThrough`): the budget of a path is the sum of what its
    fields are worth, and every rewriting lowers it. The fields of a frame lie one behind the other, so that
    the first with its end bit is the last address. Of the link, the invariant (`LinkInv`) is the whole stream
    the TNC has sent, where each frame begins in it, and how far it was received: the frames that ended before
    were handed on, the buffer holds the stream from there on. `EncodedIs` shows that an escaped frame has no
    delimiter inside and is read as what it was, `Extraction` that the loop of `kiss_tnc_poll` takes the frames
    that are complete and stops where the next begins, `LinkPolls` that the buffer never overflows. In the other
    direction `partial` is the beginning of the last frame sent when that was cut: what the TNC makes of it is
    a beginning of that frame, and the whole ones are read as `EncodedIs` says. A text ends at its first NUL
    wherever it was cut off before (`Printed`).
  - Scheduler (`BuffersHold`): what makes the buffers safe is `Guarded`: while a frame is on its way into the
    flash, `spirequest` is set, which keeps `tc1` from the buffers, and the application is not yet past the
    step that writes it. `EmptyFirst` says that the scheduler comes to the modem only with `lbuf` empty or
    with the application busy. With these, an entry of the repeat queue has its frame in its page and frames
    keep their order, for queues of every size and every interrupt (`FramesInv`). `RequestsInv` follows each
    request between the page and the statement that says it was served: there the buffer still has what was
    asked for, or the interrupt has replaced the request and the buffer counts as overtaken.
  - Position (`DistancesAreOurs`): step by step, in every mode: each command, sentence, frame and tick computes
    the distances again, moves nothing, or is one of `Overlooked`.
  - Configuration file and settings (`ConfigurationsAreStored`): the file is what was found at the start, or
    begins as what one save writes (`ConfigInv`), so that a load, which compares the checksum, accepts only what was
    written to the end. Of the pages, those `update_config` has passed hold the settings; once it has passed
    all of them every screen that is left without saving keeps that, but for `announce_new`, and a stop
    forgets it (`SettingsInv`).
  - List and station log (`TablesAreTrue`): the cursor's line and the first line stay in their ranges. The
    pages of entries, stored messages and drafts differ, the page that was found but not yet taken is nobody's
    (`LogUsed`), and `get_freepage` finds one because there are more pages than can be in use.

Only model-checked are the liveness properties, which are out of the prover's reach: `RetriesConclude`,
`ImplementsFairFifo`, `LoopReturns`, `WaitingServed` and `EveryPathUsed`.

## 7. Not modelled

The components with status *not_modelled* in `PROJECT.json`: setters without control flow, X11 drawing, the
vendored netcat, the tests, and the legacy frame drivers and the ring of injected keys, which no part of the
program uses. Of the modelled components: position, weather and text formats, NMEA numbers, audio (conversions
of strings and floating point), the lists of recently repeated stations, the screens of a single legacy
station and of its messages, device registers.

Seen while modelling, without a run of their own.

Engine and servers:

- The HTTP server blocks in `accept` and never ticks, so what it enqueues waits; both servers answer without
  looking at what the API returned. `get_query_param` returns a static buffer, so of `sort`, `order` and
  `count` the one asked last decides about all. Frames cut across two reads are lost by both servers.
- A client's second subscription and a CLOSE frame lose a callback context. After 65536 ids a new message may
  get the id of one that still waits (`IdsDistinctUntilWrap` says exactly how long ids are distinct).
- After `SET_CALLSIGN` entry 0 of the station table keeps the old callsign.
- `rfe_send` gives `fi_parse_frame` its own output as input: the frame sent is empty. `rfe_edit_byte` at the
  last offset writes the NUL one byte behind the buffer, and its event reads it there: `raw` has that octet,
  into which nothing else of the engine is put.
- Comments (`remote_control.c:20`, `:121`) call the keys one-shot, but a callback of the events of a command may
  use the same key for another one before it is switched off: `KeysSwitchedOff` says where that ends. A remote
  command whose events bring new keys switches off the new key at its position.
- `kiss_tnc_send` reports a frame of which the socket took only a part as sent; the rest of it is lost.
- `cp_save` reports success whether its writes succeed or not.
- The result of `de_modify_path` and the filter `filter_unique_only` are used nowhere; the query `?APRS?` is
  never answered; one's own callsign is compared as a prefix.
- `se_get_hourly` asked for fewer buckets than there are gives the oldest. The uniqueness table never
  evicts. A negative beacon delay becomes a huge one.
- `ax25_decode` prints the text without an end, so octets that were in the buffer before may follow it; it reads
  the addresses of a frame without digipeaters wrongly, and so frames built here with
  two path fields; hence `RepeatedFramesRead` speaks of frames that were digipeated.

Legacy application:

- With two frames waiting while `application_frame_send` spins, `tc1` ends before it comes to the injected
  frame, and the application, which spins, serves no request: neither goes on.
- An entry counts as repeated with a full transmit queue or with the digipeater switched off; with `digidelay`
  set, an entry that waits is taken for an old one and overwritten; a beacon sent between the writing of its
  page and the clearing of its request is lost for the page, and a request for a frame or a message replaced
  between the reading and the mark sends another one than is counted; the scan for a message begins at an index
  never set.
- Two messages without id from one station share a slot; unread messages vanish with their sender; frames
  inside frames inside frames are dropped.
- A flood or trace field without hops wraps to fifteen. The check of the transmit queue reads one entry
  behind it before it looks at the index.
- The filter screen changes `announce_new` without saving, the startup screen saves only when a beacon is
  stopped, and then a locked transmitter (`app.c:118`); `digidelay` (`config.c:912`), `validonly` (`:446`) and
  the sign (`:1199`) are changed on screens that save, and are in no page. `demo.c` restores the factory
  settings right after the saved ones were read, so that saved settings do not come back after a start. After
  the filter menu the cursor is placed again only with the next frame or key.
