# IVpn in TLA+

A model of IVpn, daemon and client: the kill switch, the routes, the command
server, the TCP and DNS relay, the talk with Tor, the Windows service and the
terminal client, with the properties that keep a machine's traffic inside the
tunnel and tell its user the truth about it. Paths below are relative to the
repository; `service.cpp:257` is `src/core/service.cpp`, line 257.

## The system

IVpn routes a Windows machine's traffic through Tor. A service, `ivpn_daemon`,
launches `tor.exe`, creates a Wintun adapter and waits for the commands of a
terminal client on a named pipe. "connect" installs WFP filters that block every
outbound connection but Tor's, starts the packet processor, and adds two routes
(0.0.0.0/1 and 128.0.0.0/1) that lead everything into the adapter. The processor
terminates the TCP connections it finds there and carries each over a SOCKS5
connection to Tor; DNS queries go to Tor's DNS port. "disconnect" undoes it.

| component | state | operations | talks to |
|---|---|---|---|
| `killSwitch` | `engine_`, two filter ids, `active_`; the filters in WFP | `enable`, `add_tor_permit_rule`, `disable`, destructor | WFP, any call of which may fail |
| `routeManager` | `monitoring_`, `monitor_thread_`, `gateway_ip_`, `bypassed_ips_`, `tun_gateway_`; the routing table | `start_monitoring`, `stop_monitoring`, `add_default_routes`, `remove_default_route`, `monitorLoop` | `route` commands, the TCP table |
| worker (`ServiceWorkerThread`) | `connected`, the objects on its stack | start-up, wait, teardown, destructors | everything |
| `ipcServer` | `running_`, `pipe_`, `server_thread_` | `start`, `stop`, `listen_loop` with four handlers | clients, worker (join) |
| `packetProcessor` | `running_`, `recvThread_`, a detached loop, `streams_` under a mutex | `start`, `stop`, `handle_ipv4_packet`, connect threads, `response_loop`, `cleanupStateStreams` | adapter ring, SOCKS sockets |
| `dnsInterceptor` and the query threads | a socket per query | `intercept`, the reply's packet | Tor's DNS port, adapter ring |
| `Wintun`, adapter and session | library, handles, two rings | `load`, `create_adapter`, `start_session`, `receive_packet`, `send_packet`, destructors | `wintun.dll` |
| `socks5Client` | a socket | `connect`, `send_packet`, `receive_packet`, `close` | Tor |
| `torLauncher` | the process | `start`, `stop` | `tor.exe` |
| `controlPort`, `bootstrapWaiter`, `exitSelector` | a socket | `connect`, `authenticate`, `send`, `wait`, country lists | Tor's control port |
| service control | service status, `gServiceStopEvent` | `ServiceMain`, two control handlers | the service manager |
| client (`main.cpp`, `ipc_client.cpp`, `tui.cpp`) | its own `connected`, chosen city | connect, disconnect, change city, quit, each partly on detached threads | the pipe |

What is hard here: the worker and the command handlers edit the same objects
from two threads without a lock; the monitor thread edits routes while the
handlers do; a stop request may come at any moment; connect threads and the
response loop work on streams that change between two critical sections; nearly
every result is ignored, so a failure leaves a later step to run on what it left.
Tor answers in pieces, late or not at all, and outlives a daemon that crashes;
the client drives detached threads through a pipe that serves one caller at a
time, and keeps an idea of the daemon that it cannot check.
`PROJECT.json` lists the hazards, each at its line, with the properties that
cover it.

What makes each part correct:

* kill switch: an id held names a live filter, a closed session leaves none;
* routes: a relay's host route leads out of the machine, is remembered as long as
  it exists, and is gone when the monitor is;
* daemon: no route into the adapter without the filters; one thread at a time on
  the tunnel; the parts agree between commands; a shutdown leaves nothing and ends;
* relay: what a client sees acknowledged was sent on, though more than once if it
  was sent more than once; what it reads is one server's stream without a hole;
  closed streams are given up; every TCP packet is one a TCP accepts, and the
  fields of a DNS reply name the query it answers;
* SOCKS and control connections: what is reported is what Tor granted, replies
  are never mistaken for one another, and nobody waits for ever;
* exits: the menu has the countries with an exit, and each can be chosen;
* service: a stop that finds its event ends the process, and "stopped" is
  reported when it is true;
* client: "secure" is shown only over a tunnel while its user is patient, and
  every call comes back but one that is Tor's to answer.

## Modules

| module | models |
|---|---|
| `KillSwitch` | `killswitch.cpp`; one action per method, the outcome of each WFP call chosen among those `KsFaults` allows. `wfp` is the platform's side: the filters of the session |
| `RouteManager` | `route_manager.cpp`; methods split where they block, the monitor thread as an automaton (`snapshot` is the copied TCP table it works through), and the routing table as far as it is edited |
| `Tunnel` | abstract: what traffic may do (`mode`) and what was last asked for (`goal`). A machine goes from open to sealed to tunnelled and back, one step at a time, only towards its goal, and gets there |
| `Daemon` | one run of `ServiceWorkerThread`: composes the two (EXTENDS) with the worker, the ipc thread, the processor's threads, Tor and the clients |
| `PacketProcessor` | the stream table: process loop, connect threads, response loop, cleanup, against the machine's TCP |
| `Worker` | abstract: what those who start `ServiceWorkerThread` may rely on. It starts or fails, serves until the stop event is set, tears down, ends once |
| `DaemonRuns` | `Daemon` again and again (EXTENDS): the process ends or crashes at any step and is started anew, with what Windows keeps of it |
| `ServiceControl` | `main()`, `ServiceMain` and both control handlers, built on `Worker` (EXTENDS), against the service manager and an uninstaller |
| `Client` | `main.cpp`, `ipc_client.cpp` and the buttons of `tui.cpp`, built on `Tunnel` (EXTENDS) |
| `TorControl` | `controlPort`, `bootstrapWaiter` and what start-up, `get_cities` and `change_city` send |
| `ExitSelector` | the three scans of the consensus, as folds over its lines, and GeoIP's lookup |
| `Socks5` | `socks5Client`, byte by byte |
| `Packets` | the packets the processor builds and reads, and `checksum()`, as operators on sequences of bytes |
| `Segments` | one established stream in bytes, with `Packets` (EXTENDS) |
| `Dns` | the query threads and `dnsInterceptor`, with `Packets` (EXTENDS) |
| `Wintun` | the library's loading and closing, and the ring threads send into |
| `DaemonProofs` | theorems about `Daemon`: types, the handover, the seal, and what its parts owe each other; the refinements: `Daemon` implements `Worker` and, as far as safety goes, `Tunnel`; and `DaemonRuns`, over any number of runs |
| `PacketProcessorProofs` | theorems about `PacketProcessor`: its table, its links to clients and threads, the way down |
| `UpstreamProofs` | the way up of `PacketProcessor`, on top of it |
| `RelayProofs` | theorems about `Socks5`, `Wintun`, `Dns` and `Packets` |
| `SegmentsProofs` | theorems about `Segments`, on top of `RelayProofs`: the bytes of a stream; and the types of `MCRelay` |
| `TorControlProofs`, `FrontProofs` | theorems about `TorControl`; about `ServiceControl`, `Client` and `ExitSelector` |
| `Induction` | induction and recursion on the natural numbers, for the proofs about what a fold, a sum or a count computes |
| `MCDaemon`, `MCDaemonRuns`, `MCPacketProcessor`, `MCTorControl` | instances for TLC of the modules they are named for |
| `MCRelay` | `Segments`, `Dns`, `Socks5` and `Wintun` side by side |
| `MCFront` | `ServiceControl`, `Client` and `ExitSelector` side by side |

Three models of one thing at three depths: `PacketProcessor` has the life of
streams and counts segments; `Segments` takes one stream that is established and
has its bytes; `Packets` has the packets both sides exchange. Likewise `Daemon`
waits for Tor in one step, and `TorControl` is what happens in that step.

`Daemon` gives each of its two main threads a label: the call it makes next.
`AfterConnect`, `AfterDisconnect` and `AfterTeardown` are the code's sequences of
calls, read off `service.cpp:257-263`, `270-274` and `312-317` with the
destructors that follow (`~routeManager`, `~killSwitch`, `~WintunAdapter`; the
other destructors change nothing that is modelled). A call that blocks or that
another thread can run in the middle of is split: `stop_monitoring` at its join,
`packetProcessor::stop` at its join, `add_default_routes` and
`remove_default_route` between their two commands. `ipcServer::stop` is split
into its store, its test of `pipe_` and its join; `listen_loop` into its test of
`running_`, `CreateNamedPipe`, `ConnectNamedPipe`, `ReadFile` and the answer. A
method that only its own thread can disturb is one action.

In `PacketProcessor` an action is a critical section of `streams_mutex_`.
Sequence numbers are counted in segments: a client's is its connection and an
offset, the daemon's a number from 1000 as in the code. `attempts` holds the
connect threads in flight with the `seq_num` they captured. `finSent`,
`forwarded`, `carried` and `twice` are history variables, read by no action but
to update themselves. The machine's TCP (`Client*`, `Receive*`) is external: it
opens a connection after the other on one port pair, sends, repeats, closes and
aborts.

The state of a key in `streams` reads as in the code, but for `idle`, which
abstracts `last_activity` to the three classes the cleanup tells apart, and
`socks`, which is the id of the attempt that opened the socket and the number of
segments read from it.

`DaemonRuns` adds to `Daemon` a run counter, the Tor an earlier run left, its
connections, and the host routes found in the table (`stale`). `Restart` is
possible at any step, which is a crash wherever the run had not ended, and keeps
what Windows keeps: host routes and `tor.exe` (`tor_launcher.cpp:33` gives it a
process group of its own), but neither the filters of a dynamic session nor the
routes of a Wintun adapter. A surviving Tor has the ports, so the new one has no
connections, while the monitor watches the new one's pid. The properties of a
single run are checked here, in the first run and in one that finds the leavings
of a crash.

`ServiceControl` labels `ServiceMain` and a console `main()` by the call they
make next, and gives the control handler two steps: its test of
`gServiceStatus` with the store and the report that follow, and `SetEvent`
(`service.cpp:186-192`). `ServiceMain` writes the same structure, but only before it
reports that stops are accepted and behind its wait for the event.
The service manager is external: it knows what it was last told (`reported`) and
sends a stop only to a service that accepts one. `runs` bounds the starts.

In `Client`, `job` says what the UI thread and each detached thread does; a step
is one call of `ipc_client`, one verification, or one stretch of code between
two of them. `pipe` is the one instance the daemon listens on, and whom it
serves; a command that finds none listening is lost (`ipc_client.cpp:27-31`).
What a verification finds is chosen: it may succeed over any path that leads
out, and may fail. `calm` is a history variable: it is false once the user has
disconnected while another call was at work, another client has sent a command,
or the daemon has died.

`TorControl` cuts replies into pieces (`Piece`), of which `send()` takes what is
there until it looks complete; `at` is the daemon's place and `asking` the
command `send()` is in. Tor, its cookie file and the consensus are external.

`ExitSelector`'s only variable is the consensus, which grows by a relay at a
time, so that a run sees every sequence up to `MaxRelays`; the scans are
operators checked against what they promise. `Segments` keeps 32-bit numbers as
pairs of halves, so that they wrap around as in the code, and recomputes the
checksum on the receiving side. `Socks5` counts the bytes Tor has sent and the
client has taken. `Wintun`'s ring holds the places allocated, oldest first: the machine is given a
packet when all earlier ones were sent.

## What is checked

| run | states | question |
|---|---|---|
| `daemon_runs` | 904 000 | every interleaving of handlers, teardown, monitor and processor, with refused routes, no gateway and roaming, over two runs, the first of which may crash at any step: `SealedWhileTunnelled`, `PlacesAgree`, `IdleConsistent`, `BypassLeadsOut`, `BypassAccounted`, `OnlyStaleLeft` |
| `daemon_faults` | 1 778 000 | one run with every fault of WFP and the routing table, failing deletes included: `FiltersTracked`, `Handover`, `NoThreadOverwritten`, and the types |
| `daemon_live` | 66 000 | `StopsUnlessClientWaits`, `GuardBypassed`, and `Daemon` implements `Tunnel` and `Worker` |
| `streams_up` | 2 350 000 | client to server, connects failing: `AckedIsForwarded`, `NeverStuckConnecting` |
| `streams_down` | 963 000 | server to client: `DownstreamIntact`, `NoDataAfterFin`, `EstablishedStays` |
| `streams_live` | 324 000 | all faults: `ClosedErased` |
| `relay` | 26 000 | one stream in bytes, with a client that sends again what it likes: `PacketsAccepted`, `BytesRelayed`; three DNS queries answered in any order, late or never: `AnswersMatch`; a SOCKS connection with answers in pieces, refused, cut short: `ConnectIsTrue`; the threads of both end: `ThreadsReturn`; the adapter, with start-up failing at each call and two senders: `HandlesNested`, `RingMoves` |
| `tor_control` | 9 900 | stale cookies, refusals, replies in pieces, a Tor that dies: `RepliesMatch`, `ReportsAreTrue`, `StartUpEnds` |
| `front` | 43 300 | starts, stops, failures and an uninstallation of the service: `StoppedMeansEnded`, `StatusOrder`, `StopHonoured`; a client with an impatient user, a second client, a daemon that dies and a Tor that is silent: `SecureMeansTunnelled`, `CallsEnd`; every consensus of three relays: `ExitsAreRight` |

Several of these are conjunctions, whose parts are named in their modules:
`FiltersTracked` of `KsIdsLive` and `KsClosedIsClean`; `BypassAccounted` of
`RoutesRemembered` and `NoBypassOnceStopped`; `BytesRelayed` of `Reassembled`,
`PushEndsResponse` and `UpstreamAsSent`; `ConnectIsTrue` of `OpenMeansGranted` and
`SocketFollows`; `ThreadsReturn` of `QueriesEnd` and `ConnectReturns`;
`ReportsAreTrue` of `WaitedMeansBooted` and `ChosenIsSet`; `ExitsAreRight` of
`MenuIsRight`, `MenuIsKnown` and `FoundIsExit`.

`relay` and `front` check several modules in one run. These share no variable,
so a step of one neither enables nor disables a step of another, and every
property, or each conjunct of it, speaks of one module: `part`, chosen in the initial state, says whose
steps a behaviour takes, and all of them are checked without their product. The
modules' fairness is stated for their own part.

Three runs end in a violation; each is a disagreement between the code and what
it or the README says of itself. `PROJECT.json` quotes the line.

* `daemon_tor_loss`: `enable()` takes the status 0x80320023 for "already active"
  and ignores others for IPv6, and its result is ignored, so a tunnel can be
  reported up without filters. Tor dies, and nothing is blocked (README.md:13).
* `daemon_stop`: the ipc thread has read `running_` and not yet created its pipe;
  `stop()` finds no pipe to connect to and joins a thread that then waits for a
  client for ever. The counterexample needs no silent client: it is found under
  a specification in which every client that connects also writes and reads.
* `client_late`: the user disconnects while a change of city verifies its
  connection; the detached thread then sets the status to secure over a machine
  that is open (`main.cpp:109-113`).

### What the code does not keep

Other places limit what can be stated. The models do what the code does there;
the properties are stated so that they say what remains true.

* Host routes are added for established connections only
  (`route_manager.cpp:90`): a Tor that has none when the tunnel is taken up is led
  back to itself (`Reachable`). `GuardBypassed` speaks of relays Tor is
  connected to.
* `gateway_ip_` is captured once (`route_manager.cpp:46`); after roaming, later
  host routes lead to a gateway that is gone. `BypassLeadsOut` says that they
  lead out of the tunnel, not that they lead anywhere.
* `process_loop` is detached (`packet_processor.cpp:19`), and so are the threads
  of DNS queries (`:269`): one may poll a session that has been closed.
  `procLoops` counts the loops, and `IdleConsistent` lets an old one be there.
* A Tor that survives a crash has no host routes for its relays (`oldTor`).
* The FIN for a server that disconnects is built and never sent
  (`packet_processor.cpp:333-337`): the stream is closed in silence.
* The number of a client's packet is not compared with `client_seq`
  (`packet_processor.cpp:240-248`): data that is sent again goes upstream again, and
  `client_seq` goes back to its end. `UpstreamAsSent` says what is left: every
  packet's data is passed on once for each time it was sent, so that no byte is
  missing, and the server's stream is the client's if nothing was sent twice.
  `AckedIsForwarded` asks that acknowledged data was passed on, and `forwarded` is a
  set: it does not see the second time.
* A FIN that carries data is taken for data only (`:240` comes before `:250`); the
  modelled clients send it behind their data, in a packet of its own.
* `buildUDPPacket` leaves the checksum of the IPv4 header zero
  (`packet_processor.cpp:137-138`), which `Intact`, the rule by which
  `PacketsAccepted` judges TCP packets, refuses. `AnswersMatch` speaks of a reply's
  addresses, ports, length and payload; whether the stack takes the packet rests
  with the adapter's driver and is not claimed. (The UDP checksum may be zero.)
* `dnsInterceptor` never stores its port; a query goes to any of `UdpPorts`.
* What a server sends behind Tor's answer to CONNECT is dropped
  (`socks5.cpp:89`): `Socks5` states nothing of the first bytes.
* The control port is tried once, before Tor may listen (`service.cpp:215`); the
  map of codes is older than the menu (`:283`), and "Auto (Random)" is not in it
  (`:290`). `ChosenIsSet` speaks of countries the map has, and `MenuIsKnown` of
  one consensus.
* The loop over one exit's details reads to the end of the answer
  (`exit_selector.cpp:125`), so that one exit is found at most; and the line behind
  "r" is taken for the flags (`:107`), so that an exit with an "a" line between them
  is missed. `FoundIsExit` says that what is found is an exit of the country, and
  that something is found where an exit has no "a" line; it asks nothing of the
  others. "Exit" is looked for anywhere in the flags (`:40,75,109`): an exit of the
  model is what the code takes for one, a BadExit included.
* A change of city and the question for the cities wait for Tor without a timeout
  (`control_port.cpp:68-70`), with the only instance of the pipe. `CallsEnd` lets the
  thread that asked wait as long as Tor does, and says that no other does.
* A client starts as disconnected, whatever the daemon does (`main.cpp:60`), and
  a change of city whose verification fails leaves a CONNECT button without
  effect (`:106`). `SecureMeansTunnelled` speaks of what is shown as secure.
* A stop that arrives between the report of SERVICE_RUNNING and the creation of
  the event is lost (`service.cpp:168-172`). `StopHonoured` starts at the event.

### Bounds

* Filter ids: three are one tunnel's, and leave a second one to find its ids taken
  by filters a failed `disable` left behind. Ids are symmetric.
* Relays and gateways: two of each let a row be known while another is new and
  the machine roam between them, in `daemon_runs`, where they are symmetric; the
  faults run takes one of each, the liveness run two relays.
* `MaxLoops`: two process loops at once is the fast toggle (a stop and a start
  within one turn of the detached loop); more only repeats it. It bounds the
  commands in the guard of `IpcConnect`.
* Streams: one key, because streams of different keys share nothing but the
  order of their packets and the turns of the response loop. Two connections on
  a key (`MaxGen`) meet every leftover of the first; two connect threads
  (`MaxAttempts`) race each other; reads of two segments (`MaxRead`) are split;
  queues of two packets reorder nothing, as the ring does not, but let a
  repeated packet wait behind its first.
* `MaxRuns` is two: for the daemon a run and one that finds what it left, for the
  service a restart with a stop left over. A third run of the daemon would find
  the same kinds of things: host routes and an old Tor.
* Segments: `MaxSeg` is 2, with responses of less than one segment, one, one and
  a rest, and two. The numbers start where a connection does and one or two
  before they wrap around; the bytes 166 and 79 make a sum that carries twice.
* Three DNS queries of two clients: two from one socket and one beside them.
* SOCKS data: three bytes, so that some may come with Tor's answer and some later;
  reply and buffer sizes are the code's.
* The ring has three places, one more than there are senders.
* Two countries: the chosen one and another. Exits: three relays, so that an
  exit has others on both sides; one of three countries has no code.
* Client: two detached threads meet each other and the UI's; two tries at a
  verification (20 in the code) are a failed one that is repeated, and the last.

### What the relay's properties leave out

`twice` marks a key under which one connection was given two SOCKS connections,
or a stream was lost while a connect thread for it was still at work. There the
code does restart sequence numbers under an open connection
(`packet_processor.cpp:214-228`) and the data properties do not hold; they are
stated for all other histories. They are also checked without two faults under
which they fail: a ring that is full drops the daemon's packets, which it never
repeats (`wintun.h:84-87`), and a `send` that would block loses data that was
already acknowledged (`packet_processor.cpp:243-247`).

### Fairness

The operating system runs every thread, so the worker's teardown, the ipc
thread's own steps, the monitor and the response loop get weak fairness.
`Daemon` assumes nothing of clients, of Tor or of the network: a step that waits
for one of them (`IpcClientStep`) is not fair, which is why
`StopsUnlessClientWaits` excuses a shutdown that waits for a client for ever.
`process_loop` leaves at its own pace (no property needs it). Start-up is not fair:
it may take arbitrarily long. In `PacketProcessor` the response loop, the
process loop and the machine's reading of the adapter are weakly fair; that a
turn ends with a cleanup again and again is strong fairness of `StartCleanup`,
since `packet_processor.cpp:366` starts one whenever two seconds have passed and
the loop's turns take time.

The other specifications follow the same rule: the program's own threads are
fair, everyone else is not.

* `ServiceControl`: `ServiceMain`, the handler, the end of the process and the
  worker's look at the stop event. `StopHonoured` needs no more, because what
  waits for the worker is excused by it.
* `Client`: each client thread, and the daemon but for what it asks Tor: its
  answers to `change_city` and `get_cities` are not fair, since `controlPort::send`
  waits for them without a timeout. The user is free.
* `TorControl`: the daemon's steps and the clock. Tor's answers are not fair;
  `StartUpEnds` excuses a Tor that keeps a connection open and an answer back.
* `Socks5`, `Dns`, `Wintun`: the threads that make the calls, `Wintun` also the
  machine's taking of packets. Tor's answers are not fair, so `ConnectReturns`
  excuses a Tor that is silent; a DNS query ends by its timeout.

### Refinement

`Daemon` implements `Tunnel` with `mode` the class of what routes and filters
let through (`TunnelMode`) and `goal` what the running handler, the teardown or
`connected` last asked for (`TunnelGoal`). A machine with a route and not both
filters, or one filter alone, is in no mode of `Tunnel`, so the refinement says
that this never happens, that the mode moves only towards the goal, and that it
arrives. It is checked without WFP faults and without failing deletes, as
`SealedWhileTunnelled` is: the code ignores those failures, and under them
neither holds (`daemon_tor_loss`).

`Daemon` implements `Worker` with `WorkerPhase`, the class of the worker's place.
`ServiceControl` then composes `Worker` with the service, and `Client` composes
`Tunnel` with the user interface, so that each is checked against what the
daemon was shown to do and not against all of its steps. `Client` drops
`Tunnel`'s fairness where it lets the daemon die, and lets it be told to stop
where `Tunnel` lets its goal change.

## What is proved

`DaemonProofs` and the modules that extend it hold for every number of ids, relays,
gateways and loops.

* `TypeCorrect`: `Spec => []TypeOK`. The inductive invariant `TypeInv` adds
  `LoopRoom`: a handler on its way to `packetProcessor::start` has room for a
  loop, which `IpcConnect` sees to and loops can only add to.
* `HandoverHolds`: `Spec => []Handover`, with every fault allowed. `Handover`
  strengthens `HandlersExclusive` (the worker is past its join only if the ipc
  thread has exited) with what `connected` is where: a handler that is taking
  the tunnel up or down finds it false, and before the ipc thread starts it is
  false.
* `SealedHolds` and `PlacesHold`: `Spec => []SealedWhileTunnelled` and
  `Spec => []PlacesAgree`, assuming `Cooperative`: WFP does what it is asked and
  routes can be deleted. Routes may still be refused, the gateway be missing and
  the machine roam. `SealedWhileTunnelled` is not inductive: it says nothing of
  the steps at which a half may be added or the filters lifted. `PlacesAgree`
  says in which places of the code the filters must be installed (`HeldSealed`),
  in which each half may be in the table (`LowMayBe`, `HighMayBe`), that
  `tun_gateway_` is known wherever a half may have to be removed, and that every
  half leads into the adapter. It needs `Handover`: without it one thread could
  lift the filters in a place the other holds. The proof has one lemma per group
  of actions; `PlacesMove` reduces every step that adds no half to the filters.

The rest of the module is what else the parts owe each other.

* `KillSwitchTracksFilters`, `FiltersTrackedHolds`: `FiltersTracked` is inductive
  for the kill switch by itself, with every fault, and the daemon touches WFP
  through its methods only.
* `NoThreadOverwrittenHolds`, with every fault. `MonitorInv` says where the
  monitor thread may exist, and who joins it; `ProcInv` in which places of the
  code the processor runs and its receive thread is yet to be joined. Both rest
  on `Handover`: a thread is overwritten if two callers get past the same flag.
* `IdleConsistentHolds`, `BypassLeadsOutHolds`, assuming `Cooperative`.
  `FiltersHeld` says that filters exist only where the code holds them,
  `GatewayInv` that a running monitor has a gateway outside the adapter, which
  `PlacesAgree` gives: no half is in the table where the gateway is looked up.

The refinements are proved there as well.

* `WorkerImplementedHolds`: `Spec => WorkerImplemented`, with every fault.
* `TunnelSafetyImplemented`: the initial states and every step of `Daemon` map to
  `Tunnel`'s, assuming `Unhindered`: `Cooperative`, and routes are not refused. It
  may still roam or be offline. `PlaceMode` reads the mode off the places of the
  two threads, and `RoutesUp` says that a half is in the table wherever it may
  be, so that it equals `TunnelMode`; every action then raises, lowers or keeps
  it towards the goal. The fairness of `TunnelImplemented` is TLC's.

The runs of the daemon, for every number of them, are at its end, assuming `Cooperative`:
`RunsStaySafe` (`SealedWhileTunnelled`, `IdleConsistent` and `BypassLeadsOut` through
crashes), `BypassAccountedHolds`, `OnlyStaleLeftHolds`. Its invariant is that of one
run, which `Restart` establishes anew whatever it finds, with `TorGone` (behind
`launcher.stop()` this run's Tor is dead) and `RoutesRemembered`.

`PacketProcessorProofs` holds for every number of keys, connections, threads and
packets, and with every fault, also those the runs leave out. Three
invariants are stacked, each used by the next:

* `TableInv` says of one stream what its fields are to each other (`Shape`), that
  what was read and not yet sent belongs to a stream that is connected still, and
  that attempts have ids of their own. It gives `PpTypeCorrect`,
  `NeverStuckConnectingHolds` and `NoDataAfterFinHolds`.
* `LinkAll` ties a stream to its client, the packets under way and the connect
  threads: packets wait in the order of their connections and are no older than
  what was given a thread (`Orderly`); whatever is open was given one
  (`Evidence`); a thread in flight is alone, and nothing else of its connection
  exists yet (`Trying`); a closed stream without a socket is met by new connections
  only (`GivenUp`). It is needed because a late connect thread rewrites whatever
  stream it finds under its key. It gives `EstablishedStaysHolds`.
* `DownAll` gives `DownstreamIntactHolds`: what was read and not sent is the tail of
  what the socket gave (`Reading`), so a packet's number is its place in the
  server's stream (`Numbered`), and a client that has taken data of one socket
  finds no other's under way (`Received`). A packet the full ring drops leaves a
  hole in the numbers, at which the client stops.

`UpstreamProofs` goes the other way, on top of `LinkAll`: `AckedIsForwardedHolds`, for
every number of keys, connections, threads and packets. It assumes that no send
would block (`"sendBlocks" \notin PpFaults`): `packet_processor.cpp:247` ignores the
result of a non-blocking send and acknowledges the data all the same, so that
without the assumption the property does not hold. `AckedIsForwarded` compares what
a client believes with what was passed on, and is far from inductive; `UpAll` says
what lies in between.

* `Confirms`: whatever a client has taken for acknowledged, and every acknowledgement
  under way that it would take, covers only segments that were passed on, all over
  one socket.
* `Feeds`: a stream that holds a socket has passed on to it what it acknowledges.
* `Within`, `Units`: nothing is acknowledged before it was written; what is
  acknowledged is data the client sent and, behind all of it, its FIN.
* `InLine`: a segment that was not passed on yet waits ahead of whatever follows it
  in the ring, so that none is skipped.
* `Spent`: a stream without a socket acknowledges FINs only, of which its client
  made two at most; its acknowledgements, numbered from 0 and not from 1000 as the
  others are, are never ones the client takes.

`RelayProofs` treats the parts that share no state.

* `ConnectIsTrueHolds`: `ExactlyTaken` counts the bytes that have left the socket at
  each call, so that the second answer cannot be the rest of the first.
* `HandlesNestedHolds`: `HandlesFollowWorker` ties each handle to the worker's place.
* `AnswersMatchHolds`: an answer, a thread and a socket belong to one query
  (`ThreadInv`); and from the bytes of an injected packet its query can be read
  back. It assumes that no socket is given the port of one that was closed before
  its answer came (`"portReused"`): neither an answer's source nor its identifier is
  checked, and the property would not survive it.
* `FoldedIsFinal`, `ComplementCancels`, for every sum of 32 bits, the width of
  `checksum()`'s: two folds fit 16 bits, so that the loop ends there and `Folded` is
  what it computes; and the complement that is stored brings the total the
  receiver computes to zero.

`SegmentsProofs` is about bytes: for every key, segment size, response and request that
fit the 16 bits of a packet's length, up to ten words of TCP options, and numbers
that start anywhere in 32 bits.

* The module `Induction`. The provers cannot be given an induction hypothesis as an
  operator, so the steps go through sets: `ByInduction` says that a set with 0 and
  the successor of each of its elements has every number, by the least element of
  what it lacks; `RecursionExists` that a function defined by recursion up to n is
  there, which is what `Total`, `After32` and `DataBefore` are.
* `StoredIsIntact`: a checksum stored where two zeros were makes the one's
  complement sum zero. `checksum()` sums words low byte first and the receiver
  high byte first; `SumScaled` says that one total is 256 times the other modulo
  65535, which is why RFC 1071 leaves the order to the machine. Storing changes one
  word (`SumPlaced`), by what `ComplementCancels` asks; an odd length is padded by
  the same byte on both sides (`EvenPads`).
* `PacketBuilt`, `RequestRead`: each field is read where it was written, and storing
  a checksum moves none (`Reads`, `StoreReads`).
* `PacketsAcceptedHolds` and `BytesRelayedHolds` then follow from `SegInv`: every packet
  sent is accepted and numbered where the data before it ends (`WireOK`); these
  data, with what is left of the response, are all that the server answered; the
  last packet with data is pushed exactly if nothing is left (`PushOK`). The
  properties alone are not inductive: they say nothing of `vpn_seq`, `Plus` adds at
  once what a receiver counts one by one (`CountedIsAdded`), and a packet without
  data must not be taken for the last one with data. Upstream, `Asking` ties
  `client_seq` to where the last packet ended, and `AskedOnce` shows that what went
  up is as long as what was written only if nothing was sent twice.
* `RelayTypeCorrect`: `RelayTypeOK` for the parts of `MCRelay` side by side, with every
  fault, also `"portReused"`: an answer that reaches the wrong socket answers another
  query but is still a packet of bytes (`DnsTypes`).

`TorControlProofs`, with every fault and any countries: `TcTypeCorrect`,
`RepliesMatchHolds`, `ReportsAreTrueHolds`. `ChannelInv` says that the pieces on the
way and those put together are of one reply, of which only the last looks like an
end; `TruthInv` that a finished bootstrap on the way is true, and that a granted
change is one Tor has made, as long as that Tor lives.

`FrontProofs`, with every fault: `ScTypeCorrect`, `StoppedMeansEndedHolds` and
`StatusOrderHolds` from `ServiceInv`, which says for each step of `ServiceMain` what the
manager was told and where the handler may be; `ClientTypeCorrect` and
`SecureMeansTunnelledHolds` from `ClientInv`: while `calm`, whoever claims a tunnel or
is about to has been served a connect that nothing behind it undoes.
`FrontTypeCorrect` puts the types of both side by side, as `MCFront` does.

`ExitsAreRightHolds`, for a consensus of any length, needs no invariant but that the
consensus is a sequence of relays: it is about what three folds compute over its
lines. `FoldingExists` shows that what `FoldLeft` chooses is there, by induction;
`AnswerLaid` that the lines of the answer lie relay by relay, four or five each;
`ReadByRelay` that reading all lines is therefore reading one relay's after the
other's. What a scan makes of one relay (`ScannedPast`, `ExitPast`) then carries what it
knows of the first k relays to the next: the countries listed so far (`CountriesOf`)
and their codes (`CodesIn`) are those of their exits, and the search for an exit has
ended exactly if one of them had its "s" line behind its "r" line (`Readable`).

The runs check the same properties first, on small instances (the lemmas about sums
through `PacketsAccepted`). What TLC alone checks is liveness, and the fairness of
the refinements, which this proof system does not do: `StopsUnlessClientWaits`,
`GuardBypassed`, `ClosedErased`, `ThreadsReturn`, `RingMoves`, `StartUpEnds`,
`StopHonoured`, `CallsEnd`, and `TunnelImplemented` as a whole.

## What is not modelled

* What a filter matches. In particular the block filters also apply to
  applications' connections into the adapter.
* The interface lookup of `get_wintun_if_index`, and the text of the `route`
  commands.
* Headers with IP options, and a UDP checksum that comes out as zero: the
  machine's own stack sends neither to the processor.
* A DNS answer that reaches a later query because the system gave its socket the
  same local port: neither the answer's source nor its identifier is checked, so
  `AnswersMatch` would not survive it.
* The data races on the client's flags and on its list of cities
  (`main.cpp:80-99`): the flags are taken for atomic, the list is left out.
* Failures of `CreateEvent` and `CreateThread`, and start-up that lasts: it may
  last for ever in the models, but its seconds are not counted.
* The drawing of the UI, the configuration files, the JSON of messages and the
  lookup in the GeoIP database: pure input and output.
* `open_adapter`, `delete_adapter`, `torLauncher::is_running` and the circuit
  builder, which nothing calls.

## Plan

What is left is an abstract `ByteStream` (what was sent, what was delivered) that
`PacketProcessor` implements where `twice` is false. Its safety part is what
`DownstreamIntactHolds` and `AckedIsForwardedHolds` say of one direction each.
