# A TLA+ model of the APRS server

This directory models and checks the concurrent core of the APRS server in
`src/source`: the packet database and its purger, the link to APRS-IS, the
port on which the server hands packets to its own clients, the UDP port with
the queues behind it, the statistics of users, the purger with its pauses and
the setting it goes by, and the query services with the path filter and the
map tiles they compute. Every definition is
a translation of the C code; `PROJECT.json` gives the lines each one stands
for, the runs, the mutants, the hazards, the findings and the theorems.

- `tlc -workers 2 -config PacketStore_refs.cfg MCPacketStore` runs one check;
- `tlapm PacketStoreProofs.tla` checks the proofs about one module.

## 1. Inventory

The server is one process on a library (`df`, `uf`, `ci`, `db`) that is not in
the repository: hash tables and queues (`Ds`), semaphores (`Sm`), threads
(`Th`), a record database without transactions (`Db`), services (`Ci`).
`AprsStart` loads the tables and starts a thread per configured port.

| part (source) | state it keeps | operations | shares |
|---|---|---|---|
| packet database (`database.c`, `services.c`, purger in `aprs.c`) | tables Position, Station, Packet, Hop, StationIDs; static `NextID` per generator; `ParseLock`, lock of `PosTable` | log a packet (two services), delete/purge services, `AprsPurger`, restart | tables: services, purger |
| APRS-IS link (`tcputil.c`, `aprs.c`) | `mysocket`, `hmtx`, `NextConnect`, `SentBuffer`, static send and receive buffers, `APRSXmitQueue` | connect, disconnect, transmit, receive; `AprsPoller`, `myMessageCallback`, `AprsQueueXmitPacket` | the socket and buffers: poller, service threads; the queue: everybody |
| APRS-IS server port (`server.c`) | `cs[MAX_CLIENT]`: socket, partner name, buffer of every client | `AprsServerListen`, `RfbDedicatedReader`, `AprsForwardPacket`, `Disconnect` | `cs`: listener, one reader per client, `UDPListener`; no lock |
| UDP listener (`UDPListn.c`) | last datagram, one sequence symbol per sender | `UDPListener`, which starts itself again when its socket fails | calls the queues, `AprsForwardPacket`, `AprsUpdateUser` |
| user statistics (`UDPListn.c`) | Users and UserPackets tables, `VersionHash`, `HourlyHash`, `Hourly`, `LastHourly` | `AprsUpdateUser`, `UDPHourly`, register and purge services | counters and hashes: two threads, no lock |
| forwarding queues (`aprs.c`, `UDPListn.c`) | three queues | queue, dequeue and call the service | queue: receiving thread, dequeuer |
| delayed actions (`ThDelay.c`, `AprsPurger`) | info and lock per action group; `KeepDaysChanged`, symbol KEEP_DAYS | begin, continue, complete; callback of the symbol, first delay, pass, sleep | the purger is the only user; KEEP_DAYS: any thread |
| station index (`database.c`) | StationIDs table, `NextID` | look up or create, reverse look-up | relies on `ParseLock` |
| queries and algorithms (`services.c`) | - | packets, unique paths, unique gates, unique destinations, traffic rates, OSM tiles; bounding box, hop filter, path filter | read the tables |
| parser (`parse.c`) | one global result `APRS`, handlers | `parse_aprs`, message, route, position formats | under `ParseLock` |
| web monitors (`aprs.c`) | what each saw last | read a stream or poll a page, log or queue packets | APRS service, `APRSXmitQueue` |

What is hard in it: services and purger interleave table by table because
there are no transactions; `tcputil.c` and `server.c` work on static variables
of which at most one function takes a lock; a connection may go at any call;
the index generators start again from what is in the tables.

What makes each part correct:

- **packet database**: an index stored in a row leads to a row; an index is
  not handed out twice; a coordinate has one row; a packet gets its own hops;
  what is old and unused goes; nobody keeps a lock.
- **link**: one connection at a time; packets leave in order and, as far as
  the code tries, once; a line is a line of one connection; calls return.
- **server port**: a slot belongs to one client; a client sees the greeting
  and then packets in order; nobody who keeps its slot is left out; slots are freed.
- **UDP listener**: what it reports as missed was lost; a repeated datagram is
  handled once; it survives failures of its socket.
- **user statistics**: every change of version is counted in one hour; the
  hour's active versions are those reported in it; what was sent last is the
  last hour; rows, packets and hashes agree.
- **queues**: every packet is requested once and in order, however the
  connection comes and goes.
- **delayed actions**: one action of a group at a time; pauses end early enough
  for the work that is left; a change of KEEP_DAYS is never lost, whenever it
  comes, and stops a pass that goes by the old value.
- **queries**: the paths shown lead from a sender to the gate its packet came
  by; a packet is counted once; the map shows every packet, as near as the
  tiles allowed permit.

## 2. Modules

| module | models | proofs |
|---|---|---|
| `PacketStore` | packet database | `PacketStoreProofs` |
| `PositionPool` | what the Position table promises (abstract) | `PositionPoolProofs` |
| `AprsLink` | the link and its callers | `AprsLinkProofs` |
| `AprsServer` | the server port | `AprsServerProofs` |
| `UdpForward` | UDP listener and forwarding queues | `UdpForwardProofs` |
| `UserStats` | user statistics | `UserStatsProofs` |
| `ThDelay` | delayed actions | |
| `Purger` (extends `ThDelay`) | the purger's loop and KEEP_DAYS | `PurgerProofs` |
| `PacketPath` | path of a packet: pieces, hops, gate, path filter | |
| `MapTiles` | bounding box and map tiles | |
| `AprsQueries` (extends both) | tables as seen by the query services | `AprsQueriesProofs` |
| `MC...` | constants and symmetry sets for TLC | |

In every module a thread has a label (`pc`, `ppc`, `lpc`) and one action per
step that other threads can see: a table operation, a socket call, a read or
a write of a shared variable. Operators named `<Definition>_<Fault>` are the
mutants of `PROJECT.json`: the definition with a plausible fault. No
specification uses them; each shows that a property can fail.

### PacketStore

`Begin` to `Finish` is one call of a logging service, with `ParseLock` held:
`GetPacketPosition` and `GetStationPosition` are the two calls of
`AprsGetPositionIndex`, `UpdateStation` or `TouchStation` write the Station
row, `NextPacketIndex` and `InsertPacket` store the packet, `ReadHop` and
`PutHop` are one turn of `AprsInsertHops`. A packet is reduced to the service
it came by, its station, its path and its coordinate. The purger is `Wake`,
then `HashOldPositions` to `PositionsPurged` on every `PosEvery`-th pass
(`AprsPurgeOrphanPositions` under the lock of `PosTable`), then `QueryPackets`
to `PassDone`. `DeletePacket` is one record of the delete and purge services;
`Restart` ends the process anywhere and starts it on the tables it left.
A row that is `old` is older than KEEP_DAYS; rows age on their own, but not
while a handler holds an index it has just touched (`Held`): a handler takes
seconds, KEEP_DAYS is a day or more.

### AprsLink

One pc per thread through `tcp_connect` (`Check`, `Open`, `Dial`, `Resend`),
`tcp_transmit_buffer` (`Store`, `Select`, `Send`) and `tcp_receive_buffer`
(`Frame`, `Recv`); `job` is the caller's purpose and `Return` what the caller
does with the result. `Open` joins the wait for the mutex with `socket()`,
since between them there is only the test of `NextConnect`, which the mutex
protects. The tests of `mysocket` outside the mutex are steps of their own,
so any thread may disconnect between them. `wire`, `heard`, `partial` and
`lines` are the outside of the program: what TCP took per connection, how
much of it the server answered, and the stream of lines it sends.

### AprsServer

`cs` and `p` are the fields of the slot table; `buf` and `n` are left out,
for what a client sends is dropped and `n` is zero after every read.
`AprsServerListen` is `Select` to `StartReader`; `RfbDedicatedReader` is
`ReadTest`, `CallSocket`, `Recv`; `AprsForwardPacket` is the action of that
name and `ForwardTest`, `CallSocket`, `Send`; `Disconnect` is four steps,
`ReadName`, `TakeSocket`, `FreeSlot`, `CloseSocket`, because any other thread
may come between. A handle that was closed may be returned by the next
`accept()`; `stray` records that this happened to a handle that some thread
still is about to close. A thread blocked in a call on a socket that is closed
gets an error. `due` holds the connections that were in a slot when the packet
came, until their client leaves or their own `Disconnect` takes them out.
`cutOff` holds those of them whose slot another connection's `Disconnect` has
zeroed: it reads `cs[c].s` and zeroes it in two steps (`server.c:84-86`), two
readers may be at work on one slot, and a new client that was put there in
between stays connected without a slot. `EveryClientServed` is about all of
`due` but these.

### UdpForward

`Send`, `Repeat` and `Arrive` are the clients and the network: a datagram may
be lost, delivered a second time before its client sends the next, or wait in
the socket. A datagram is its action (`RFtoRF`, `IGated`, or one of those only
written to a log), its sender and its place among the datagrams of the sender;
a sender in `Numbered` also puts that place into the text as `[n]`. `Receive`
is one turn of the loop of `UDPListener`: the comparison with `last`, the
sequence symbol (`Sequence`, `Gap`), the queue (`QueueFor`, `PutIn`).
`ReceiveFails` and `Bind` are the end of the thread and its successor, whose
`last` is empty while the symbols are global and stay. `Dequeue` and `Request`
are the thread of each queue, which waits for the connection with a packet in
its hands. `handled` and `forwarded` are history. In the run a failed request
counts as done: the code frees the packet in either case.

### UserStats

`Report` is the part of `AprsUpdateUser` that works on the tables, with
failures of `DbPutValues`; `RecordVersion` to `Increment` is what follows for
a report with a version. Reading a counter or the size of a hash and writing
it are two steps, and `UDPHourly` has a step for each line of its hour:
`SendLast`, the two counts, `CompareHour`, `CopyHour`, `ClearHour`,
`EmptyHash`, `SendHour`. The five numbers are copied and cleared in one step
each; the code does it word by word, which the model would only see when the
threads meet, and then only `TotalNeverFalls`, about one word, is claimed (it
is a theorem, and no longer a run's property). `raced` becomes
TRUE when that happens: when the listener writes a counter, or inserts into
`HourlyHash`, between the first count of the hour and its end, or holds a
number it has read when the counters are cleared. Changes are lost or counted
twice then. A version is a name, a rest in the order of `strcmp`, and the
relation `Within` of a version that is a part of another.

### ThDelay and Purger

`ThDelay` has the three calls on the info of one action as operators on
`info`, `GroupLock` and `msElapsed`; the pause of `ThContinueDelayedAction` is
the state between it and `Slept`, in which the lock is free. `MILLISECS_F` and
`COUNT_F` are types of the library that is not in the repository; they are
taken as signed, as the test `msSleep > 0` takes them. `PauseFor` divides as C
does, and `msEach` is rounded down before it is multiplied.

`Purger` has a label for each place of the loop of `AprsPurger` at which
something of another thread can be seen: the turns of the first delay, the
head that reads KEEP_DAYS, a log directory (`AprsPurgeSubDir` reads the symbol
again), the query, a record, the test of `KeepDaysChanged` after it, a pause, a
second of the sleep, and `KeepDaysChanged = FALSE`. `SetSymbolValue` and
`AprsMonitorKeepDays` are the change of the symbol and the call of its
callback, with anything in between: until the callback has set the flag a pass
goes on by the value it has read, so `late` counts the records deleted by an
old value after that. `QueryFails` is `DbQuery` returning NULL, which ends the
process. What is deleted is in `PacketStore`; here
the result of the query is a number of records, of which a service may have
deleted some already.

### PacketPath, MapTiles and AprsQueries

`PacketPath` is the path of a packet as `internal_parse_aprs` takes it apart,
`parse_route` finds its gate in it, `AprsInsertHops` stores it and
`AprsFilterUniquePaths` walks it. The code tells names apart by their kind, so a
name is a model value of one of five sets. `MapTiles` has `AprsBoundingBox` and
`AprsSvcCalcOSMTiles` on pixels of the largest zoom, with the equator and
Greenwich in the middle: longitude is proportional to x, latitude falls with y.
`Hold` is what tiles promise: the box lies in them, also where a margin is 0, and
so do its margins.

`AprsQueries` logs packets (`AprsLogPacket`, `AprsLogReceivedPacket`, each in
one step: services run alone here) and answers requests; `scenario` chooses what
is logged and asked for. A reply stays until it is taken, so `Map`, the request
for tiles, comes with the box of a reply to a request for packets. The order of the
records is the database's and is left open, which matters to the box only.

What the code does that a reader may not expect, and the modules have:

- `AprsGetStationIndex` returns -1 for an unknown name, so the tests for 0
  before the replies "Failed To Lookup" do not fire; packets without a gate have
  `HeardIndex` -1, and a request about an unknown gate matches them;
- with the condition `HeardOnRF` in front, "Must Specify One Match Criteria" is
  not reached in the requests for packets, paths and rates;
- in an object's packet the walk starts at the sender, who is not the origin, so
  already the first path is marked as a relay;
- a box corner at 0, 0 counts as not set; the tiles east and south of the box
  are not limited by the edge of the map.

## 3. Runs

| run | asks | bounds |
|---|---|---|
| `refs` | types; no dangling position (`RefsResolve`); packet keys free; hops a packet's own; station and its position agree; one row per coordinate; `PositionPool` implemented | 2 handlers, 2 stations that move between 2 coordinates and are in each other's paths, 2 position and 2 packet indices, 1 restart |
| `live` | orphans and old packets are purged, handlers return the lock | 2 handlers, 1 station, 2 coordinates, packets with and without a position |
| `link` | types, one dialer, order, no repetition by the poller | poller and 1 ack, 2 handles, 2 packets, 1 line |
| `link_live` | every call returns | poller and 1 ack, 2 handles, 1 packet |
| `link_two` | violation: one connection | poller and 1 ack |
| `link_lines` | violation: whole lines | poller alone, 2 lines |
| `slots` | types, no slot is taken, greeting and packets in order, who stays and keeps its slot is served | 2 slots, 2 handles, 2 readers, 1 packet |
| `slots_live` | slots of clients that left are freed | 1 slot, 1 handle, 2 readers, 1 packet |
| `udp` | types; gaps mean loss; queues hold what was handled, in order; queues and socket drain | a client of 3 numbered datagrams, one of 1 without; 1 repetition, 1 failure, 1 datagram in the socket, 1 packet of the poller |
| `users` | types; every change in one hour; active versions and telemetry | 2 users, 3 versions (two of one program, one without its name), 2 reports, 1 failure, any number of hours |
| `purger` | types and lock; no change of KEEP_DAYS lost; one record after the callback; pauses within the target; changes take effect | 2 values, 2 changes, up to 5 records in batches of 2, 2 log directories on every second pass, pauses up to 2, a target of 6, up to 7 of work, shutdown |
| `queries` | types; paths reach the gate; counts add up; every packet on the map; closest map | paths of up to 2 digipeaters over 7 pieces with 4 kinds of q construct, by APRS-IS and heard; 3 packets of 2 senders, 2 destinations, 3 times; 3 packets among 10 places, 36 requests for tiles, of zooms 2 and 3, up to 2, 4 or 9 tiles, margins of 0 to 2 pixels |

Why the bounds are enough. Two handlers are a handler and another that waits
or overtakes; two indices with restarts are the fewest with which an index is
free, in use, purged and handed out again. Two handles are what a second
connection needs; two packets what an order needs. Two slots let a pass of
the forwarder be at one while the other changes; more clients than slots come
because a handle is accepted again and again. One packet is enough to leave a
client out; the order of several is proved. Three numbered datagrams are the fewest with a gap inside; one repetition
fills the place of a lost one, and one failure empties `last` and the socket.
Two reports are two users, or one user who changes; every pair of versions
occurs, and both reports may fall anywhere in an hour. Two changes of
KEEP_DAYS are one that is noticed and one that comes while it is handled, or
back to the first value; five records in batches of two have two pauses and a
last batch that is not full, and work of 7 against a target of 6 makes extra
time negative. One packet shows what a walk does, its path being all there is
to it; two digipeaters have one before and one after a used hop. Three packets
have an order, two in one bucket, or one destination of two senders; the ten places
include the equator, Greenwich and the corners of a map of 16 by 16 pixels. `MaxPos`, `MaxPkt`,
`MaxRestarts`, `MaxPackets`, `MaxAcks`, `MaxLines`, `Datagram`, `MaxNet`,
`MaxRepeats`, `MaxFailures`, `MaxPolled`, `MaxReports`, `MaxRecords`,
`MaxChanges`, `MaxElapsed` are bounds of exploration, as is the
number of readers: a client is accepted in the model only when a reader thread
is left for it. `Room` in `Begin` stops new packets when the indices run out.
Symmetry is used for handles, readers and users, in runs without liveness.

`CHECK_DEADLOCK FALSE` is set for `AprsServer` only: its process may end, by
`KILLPROC` when `select()` or `accept()` fails or by `strdup` of a name that is not there.

### Fairness

- `PacketStore`: weak for the purger, a loop over sleeps and table operations;
  strong for a handler's steps, since a mutex queues its waiters and the purger
  cannot overtake a handler at `PosTable` for ever. None for callers, age,
  restarts.
- `AprsLink`: weak for the poller's own steps, strong for calls of the link:
  each socket call ends by itself or by its timeout, and a Win32 mutex queues.
  None for the network: connections may be lost for ever.
- `AprsServer`: weak for the listener and for each reader. None for
  `UDPListener`, because `send()` to a client that does not read blocks it;
  `GoneIsFreed` holds although it may stop anywhere.
- `UdpForward`: weak for `Receive`, under the condition just named that the
  clients of the server port read, so that `AprsForwardPacket` returns; weak
  for `Bind`, for `Dequeue` and for the service's connection; strong for
  `Request`: a thread looks at the connection every minute, so of a connection
  that is up again and again it finds one. None for clients and network.
- `Purger`: weak for the purger, which only sleeps, works and takes a lock
  nobody else uses, and for the callback, which the thread that set the symbol
  calls next. None for changes or shutdown.
- `UserStats` and `AprsQueries` have no liveness property and no fairness.

### Findings

1. `link_two`: `tcp_connect` looks at `mysocket` before it waits for the mutex
   and not after. A thread that waited while another connected opens a second
   connection 15 seconds later and loses the handle of the first.
2. `link_lines`: the pending part of `recvbuf` survives a disconnect. The head
   of a line of the old connection and the first text of the new one are
   returned as one packet.

The change log of `services.c` says "Only store posit packets in database"
(line 13); `AprsLogPacket` does so, `AprsLogReceivedPacket` stores every packet
it parses. `PacketStore` and `AprsQueries` do as the code does.

Behaviour the models contain and nothing in the repository contradicts is in
the hazards with a note: hops of deleted packets that a later packet adopts
after a restart, an ack overwriting the text the poller is about to send, a
reconnect without a login, a new client cut off because its handle is one that
another thread still closes, one that loses its slot to the `Disconnect` of a
client before it and is sent nothing more, the end of the process when a client fails before
its name is set.

## 4. Proofs

All proofs are checked by `tlapm` to the last leaf, for every value of the
constants that satisfies the named `ASSUME`s of the module (bounds are natural
numbers, model values are distinct). `StablePositions`, `RowsAndHashesAgree` and
`TotalsNeverFall` state properties no run checks any more, since the proofs
cover them; `TilesHoldBox`, `FewestTiles`, `ClosestZoom` and `BoxGrows` are about
operators. Every invariant the passing runs check, and every action property, is
stated by a theorem; the runs keep them, since the mutants show there which faults
of the code each one tells apart.

Two theorems have a hypothesis about what the clients send, which the code does
not test; the module of the run assumes both of its own constants
(`MCAssumption`), so that they are not empty:

- `RequestsFit`, for `MapsShowPackets`: a zoom asked for is one of the map, and a
  margin is no wider than a tile. The code adds one tile per side, so that a wider
  margin is not met.
- `GatesEndPaths`, for `PathsReachTheGate`: the name a q construct gives is the
  last of the path, and it, or the monitor, is no alias. The servers of APRS-IS
  write paths so. Without it the property is false: of `S>D,qAR,G,R` the gate is
  `G`, which is an unused hop to the walk and passed over, so the paths lead from
  `S` to `R` and nothing leads to the gate.

**PacketStore** (`PacketStoreProofs`). `TypeCorrect`, `NoDanglingPosition`,
`StationPositions`, `UniquePositions`, `FreePacketKeys`, `StablePositions` and
`OwnHops`. `RefsResolve` is not inductive: between the scan of a table and the
deletion a handler may store an index. The invariant adds: the owner of
`ParseLock` is the one handler not idle, and the lock of `PosTable` is held
while the hash is in use (`LocksInv`); what is in the hash is still old
(`HashInv`), since touching takes the lock; a row that refers to a hashed
position is one its scan has yet to reach (`ScanInv`); what a handler has
touched and not yet stored is not old (`HoldInv`); the position it read for a
hop is still that of the station (`HopInv`); no index at or above a
generator's next one is in use (`NextInv`).

**PositionPool** (`PositionPoolProofs`). `PoolImplemented`: with `refs` mapped
to the indices stored in rows, each step of `PacketStore` is one step of the
pool or a stutter, under the same invariant: scans and lock of the purger
amount to one atomic deletion of a position that is old and unused.

**AprsLink** (`AprsLinkProofs`). `TypeCorrect`, `OneDialerAlways`,
`QueueOrderKept`, `OncePerConnectionAlways` and `NoneAfterAnswerAlways`.
The invariant ties label and job of every thread
(`ControlOK`) and puts packets in order: `SentBuffer` is empty or a copy of
`sendbuf`, and no packet on a wire is newer than the one in `sendbuf` or than
those still in the queue, which is increasing (`OrderInv`). The last two say
what holds while no ack was sent, so that the poller is alone (`OnceInv`): the
buffer between its being filled and sent is the head of the queue, and that
head leaves with the call, whatever its result; so what a socket took is
strictly increasing and older than all of the queue, a socket being dialed has
taken nothing, and the packet in `SentBuffer` is not in the answered part of
any wire. One lemma per step of the poller (`AloneCheck` to `AloneNetwork`)
shows both, the invariant and that what is sent was not answered.

**AprsServer** (`AprsServerProofs`). `TypeCorrect`, `SlotsAreKept`,
`StreamsInOrder` and `ServedAlways`. From the scan to `Publish` the listener's
slot is free (`SlotInv`); a connection that is due is open, and unless it was
cut off it is in a slot and has the packet, or the forwarder has yet to come to
that slot or is in the call that sends it (`DueInv`, kept by every step that
leaves those slots alone: `DueKept`); as long as no handle was
reused that somebody is about to close, an open socket is in one slot, or with
the listener, or with the thread that closes it (`OwnerInv`), and what it was
sent is no newer than the packet being forwarded (`StreamInv`). The listener's
invariant needs no lock because nobody else fills slots.

**UserStats** (`UserStatsProofs`). `TypeCorrect`, `RowsAndHashesAgree`,
`CountedInOneHour`, `ActiveCounted`, `TelemetryCurrent` and `TotalsNeverFall`.
The counts follow from what each thread has read: a number to be
written is still the counter's, as long as `raced` is FALSE (`ChangeInv`,
`ActiveInv`); `Changed` tells whether `LastHourly` differs from what was sent
(`TelemetryInv`); `VersionHash` only grows, so what was counted from it is
never more than it has (`TotalInv`), which needs no condition about `raced`.

**UdpForward** (`UdpForwardProofs`). `TypeCorrect`, `MissedIsWhatWasLost` and
`StreamsAreWhatWasHandled`.
That the gaps counted for a client are the datagrams that were not handled
needs: what waits in the socket is in the order of its numbers and not newer
than the last that was sent (`Waiting`); the sequence symbol is not above what
waits or was sent (`Seen`), and is the highest number handled (`Highest`). A
datagram handled next then adds its own number to the handled ones and those
between the symbol and it to the lost ones; how many that are is a fact about
intervals (`LostMore`). A repetition has the number of the symbol and adds
nothing. A new thread changes `last` only, and the argument does not rest on `last`.

For the queues the invariant is about each of the functions behind them: what its
thread has sent, what it holds and what is queued, one after the other, is what
was handled for that function (`StreamInv`). `Given` picks the latter out of the
history by recursion over its length; what it makes of a longer history follows
by induction (`GivenIs`, `GivenMore`), and then each step either puts one packet
at the end of both (`StreamGets`) or moves one inside the stream (`StreamMoves`).

**Purger** (`PurgerProofs`). `TypeCorrect`, `ChangesNoticed`, `OneRecordLate` and
`PausesWithinTarget`. The type invariant includes the lock's owner, which the
completion needs. `OneRecordAfterCallback` rests on `ChangeIsNoticed`: a record
deleted by an old value whose callback has returned is deleted with the flag
set, and the test that follows ends the pass (`LateInv`). `PauseWithinTarget` needs that
between `ThContinueDelayedAction` and the end of the pause the info still says
what it was computed from, and a lemma about `PauseFor`: the share of a batch
that is not the last is a part of the extra time (`ShareIsPart`), rounded
towards zero or cut to `MaxPause`, and a pause is made only if it is positive.

**AprsQueries** (`AprsQueriesProofs`). `TypeCorrect`, `MapsAreClosest`,
`MapsShowPackets`, `PacketsCountOnce` and `PathsReachTheGate`. `TablesOK` is the
invariant under all of them: the tables refer to each other as `TypeOK` says, and
packets are sequences of at most `MAX_HOPS` hops and not of none.

- Maps. `BoxGrows`: a box keeps what it held and holds the new place, unless a
  corner comes to lie at 0, 0. By induction over the rows, in whatever order they
  come (`BoxOfRows`), the box of a reply holds all of its packets and gates, and
  every side of it is that of one of them, so no corner is 0, 0 where
  `EveryPacketOnMap` supposes that none can be (`BoxInv`). `TilesHoldBox`: the
  tiles of a zoom hold the box with its margins; so they hold each place in it
  (`HoldInside`). `TilesLeast`: any tiles that do begin and end no further inside,
  so none are fewer (`FewestTiles`); the search from `MAX_ZOOM` down passes only
  zooms whose fewest tiles are too many (`ZoomIs`, `ClosestZoom`).
- Counts. What is counted for each of the keys of a set of records adds up to the
  records (`SumOfCounts`), for gates by `HeardIndex`, for destinations once by
  index and once by name, for rates by bucket. Each moment lies in the bucket of
  its time and in no other (`OneBucket`), the first moment asked about is not
  before the first bucket nor the last after the last one (`BucketsInOrder`,
  `RoundedUp`), and what `Empties` adds is every bucket in between (`BucketsAreAll`).
- Paths. A packet that is stored has its gate as the first of its hop rows, which
  are the path backwards (`FirstRow`, `GateInv`). The walk goes from the sender
  down to the gate and writes a path whenever it moves (`WalkIs`), so each station
  it stops at is reached over the paths it has written, in no more steps than
  there are hops (`WalkReaches`).

The sums, the walk, the zoom and the sets of what is reached are recursive
functions. The library's induction takes an operator, which the provers do not
instantiate; here it is done on sets: a set of numbers that has 0 and each
successor is all of them (`NatInduct`, from `<` being well-founded), one of finite
sets likewise (`SetInduct`), and a function with given steps exists (`Recursion`),
which is what the `CHOOSE` of a recursive definition needs.

Only model-checked: liveness (`OrphansArePurged`, `OldPacketsArePurged`,
`HandlersFinish`, `CallsReturn`, `GoneIsFreed`, `QueuesDrain`, `SocketDrains`,
`ChangeTakesEffect`), which the prover does not reach.

## 5. Not modelled

- Of the modelled parts: wrap of 32-bit indices; rows that are old at once
  under KEEP_DAYS of 0 in `PacketStore`; the igate counters a handler also
  writes, and `AprsGetNextStationIndex`, whose numbers are dealt out as those of
  packets are (a station is its call sign or pair of names); the relay to AnyTrak; lines longer
  than the buffers; the first two calls of `tcp_connect` racing to create its
  mutex; two threads freeing the same `SentBuffer`; the lazy creation of
  `APRSXmitQueue`; code under `SELECTING_FOR_READ`, `CHECK_FOR_BADPATHS`,
  `OBSOLETE`, OS/2; wording and logs.
- Of the UDP port: clients that start their numbers again, and datagrams that
  overtake each other; the shutdown of the process; the numbers of
  telemetry packets and the packets that define them; `AprsNotifyQueue`, whose
  queue nobody fills (`UDPListn.c:412` is a comment).
- Of the services: `AprsSvcQueryUniqueAltPaths`, the same walk with a condition on
  altitudes; the queries of hops, stations and indices, which hand a condition
  to the database; `AprsHaversine` and what depends on distances;
  `InjectStationPosition`; `AprsSvcReParseLogFile`, which holds `ParseLock` while
  it calls `AprsLogPacket`, which takes it again: whether that is allowed is up
  to the library. Hops of deleted packets, which no query reaches. A known q
  construct is followed by one name; a margin is not wider than a tile. The
  filters of a request on the stations it lists: `OnlyKnown` and `MaxMotion` for
  the gates (`services.c:1588-1597`), `StartsWith` for the destinations
  (`services.c:1654-1670`); all of them are counted as without a filter.
- Of the parser: the some thirty formats of `parse.c`, conversions of text into
  numbers that keep nothing between two packets and under one lock.
- The creation of the info and of the group's lock in `ThDelay.c`, once and by
  one thread.
- Parts: `describe.c` is generated; `osmimg.c`, `aprparse.c` and `UDPServer`
  are separate small programs. The web monitors only read and log or queue
  packets; start-up runs before any thread.
- The share of the code. Of the 90,500 lines of C about 12,700 are this program's
  own; the rest are copies of gpredict and shapelib, which the server neither
  builds on nor calls, and data as source. Half of the program's own lines are
  the formats of the parser, descriptors of records, and wording. The modules
  cover the part with state that is shared, waits or survives.

## 6. Plan

Done: `PacketStore` with `PositionPool`, `AprsLink`, `AprsServer`,
`UdpForward`, `UserStats`, `ThDelay` with `Purger`, `PacketPath` and `MapTiles`
with `AprsQueries`, and a module of proofs for each. What could follow:

1. `AprsAGWMonitor` of the web monitors: frames cut into reads, and its buffer
   after an error (`aprs.c:414-425`): a failed receive with nothing pending makes
   `InLen` -1, which the tests against `sizeof(*Head)` compare as unsigned, so
   the frame still in `InBuf` looks complete once more.
2. Routes, messages and positions of the parser as functions, each against a
   reference definition over bounded inputs.
