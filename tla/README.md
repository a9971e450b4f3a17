# proxy-for-windows-app in TLA+

The program launches Windows applications, each through a proxy of its own, and lets everything
else go directly.  `netmonitor-gui/main.go` is an HTTP server on :8006 with an embedded front end;
`tun2socks/` is the engine it links: a TUN device, a user-space TCP/IP stack, and a tunnel that
dials every connection through a `proxy.Proxy`, which the launcher sets to a router by process id.

This directory models the parts whose correctness depends on order, failure and timing, checks
them with TLC on small instances and proves the main results with TLAPS for every instance.

## 1. The system

### Components, their state and operations

| component | state | operations | module |
|---|---|---|---|
| control (main.go: start, stop, launch, exit, restart handlers; network state) | `proxyEngineMu`, `proxyEngineRunning`, `networkState`; the Windows routing table | handleProxyEngineStart/Stop, handleLaunchApplication, configureTunNetwork, ensureProxyBypassRoute, cleanupTunNetwork, /exit, /restart | `ProxyControl` |
| engine (engine/engine.go) and proxy slot (tunnel/tunnel.go) | `_engineMu`, `_defaultKey`, `_pidRouter`, `_defaultDevice`, `_defaultStack`; `tunnel.T().proxy` | Insert, StartWithError, EnablePIDRouting, SetPIDProxy, StopWithError | `TunEngine` |
| launched applications (main.go) | `launchedApps`, bridges, processes, profile directories | launch, relaunch, monitors, shutdownLaunchedApplications, watchUIHeartbeat | `LaunchRegistry` |
| PID router (router/) | `targets`; the Windows process and socket tables | Set, pick | `PidRouter` |
| settings (main.go) | `proxy_config.json`, the backup file | loadProxyConfig, saveProxyConfig, handlers that use them, exportBackup, importBackup | `Settings` (promise), `ConfigStore` (code) |
| their fields, and the page (main.go, frontend/app.js) | proxies, applications and their ids; what the page holds | normalizeProxyConfig, GET/POST /proxy-config, POST/DELETE /applications | `ConfigFields` |
| lifecycle (main.go main) | port 8006, `lastUIHeartbeat`, `busyOperations` | existingInstanceRunning, /restart, heartbeat | partly, see section 6 |
| bridge relay (main.go) | per CONNECT two copies | handleConnect, proxyCopy | not modelled |
| TCP sessions (tunnel/tcp.go, statistic/tracker.go) | per connection two copying goroutines, half-closed ends, read deadlines, the registry's entry | handleTCPConn, unidirectionalStream, tcpTracker | `Duplex` (promise), `TcpSession` (code) |
| UDP sessions (tunnel/udp.go) | two goroutines, a read deadline per end that both set, the symmetric NAT filter | handleUDPConn, pipePacket, copyPacketData, symmetricNATPacketConn | `UdpSession` |
| statistics (tunnel/statistic/, restapi/connections.go) | counters, rates, the list of connections | Manager, trackers, DELETE /connections | `Statistics` |
| proxy protocols (proxy/, transport/socks4, transport/socks5) | per dial a handshake, sockets, a socks5 association's goroutine; a relay's waiting request | DialContext, DialUDP, Read, Write, ReadFrom, Close of socks5, socks4, http, ssh, shadowsocks, relay, direct, reject | `ProxyDial`, packets in `Datagrams` |
| shadowsocks streams and simple-obfs (transport/) | nonces, key stream positions, leftovers, first-frame flags | Read, Write, ReadFrom, WriteTo of each layer | `Framing` |
| stack glue, devices, dialer, buffers, the rest of the REST API, command lines | | | not modelled |

### How they interact

net/http runs each request in a goroutine.  A launch calls, in one goroutine: `engine.Insert`,
`StartWithError`, `EnablePIDRouting` (each a critical section of `_engineMu`), the network set-up
(netsh and route commands and the unprotected `networkState`), `cmd.Start`, `SetPIDProxy`, and the
registry (`launchedAppsMu`); it then leaves a monitor goroutine behind.  Start and stop hold
`proxyEngineMu`; launch, exit, restart and the heartbeat do not.  The tunnel's connections read
`tunnel.proxy` under a lock of its own at any moment, so every intermediate state of `start()` is
visible to them; a connection's `pick` reads the PID router and the Windows process table in steps.
The router's answer is a proxy, whose `DialContext` or `DialUDP` (`ProxyDial`) gives the session
(`TcpSession`, `UdpSession`) its remote end; a shadowsocks connection is a stack of `Framing`'s
layers.  Trackers around it write the shared counters and the list of `Statistics`.

### What is hard

* requests that overlap without a lock, and the state between two of their steps;
* external commands (netsh, route, taskkill, PowerShell) that fail or time out halfway;
* processes that start, hand over to another process, exit and get a pid again by themselves;
* goroutines left behind (monitors, bridges) that later remove what may have been replaced;
* file updates that are several system calls;
* read deadlines that two goroutines set for each other, and counters that a ticker empties;
* handshakes whose server may refuse, speak early, stay silent or leave at each step, with one or
  two sockets and a goroutine to account for;
* streams in which every layer keeps leftovers between calls, over TCP that cuts anywhere.

The list of hazards, each at its line, with the properties that cover it, is in `PROJECT.json`.

## 2. Modules

Every definition that stands for code is listed in `PROJECT.json` ("map") with the lines it
models.  Definitions under a comment "Mutation of X" are variants of X with one plausible mistake;
nothing refers to them, they exist to see each property fail.

* **`TunEngine`** - one action per engine operation.  `start()` is three steps (`StartSelect`:
  the global proxy is in the tunnel; `OpenDevice`; `CreateStack`), each with its failure, with
  `_engineMu` held between them; the others are one step.  Devices, stacks and routers are numbered
  by the call that made them, so that a stale one can be told from the newest.
* **`ProxyControl`** EXTENDS it.  Each request is a goroutine with a program counter `pc[t]`, its
  local variables (`proxy`, `gateway`, `pid`, ...) and one action per call or shared access.  The
  constant `Overlap` says whether a launch or exit request may run together with another request.
  Two proxies with one host are one model value: the route depends on the host only.
  Commands may fail wherever they are run.  Where the code looks at the error it is the code that
  decides; where it does not (every `route DELETE`), what was not deleted stays, and the history
  variable `undeleted` names it until something deletes or replaces it.
* **`LaunchRegistry`** - launches are instances `1..MaxLaunches` with their bridge, process and
  monitor; `profileOwner` is the process that really runs a browser profile (a second one hands its
  window over and ends).  `Closers` are calls of shutdownLaunchedApplications, by the stop handler
  or the backup handlers ("stop": the program goes on), exit or the heartbeat.
* **`PidRouter`** - the process table with the parent each process remembers for life, the targets,
  and `pick` in the steps between which it holds no lock.  Three variables record what a connection
  deserves: `rightful` and `lineage` (the launch a process descends from, and the processes between
  them) and `intact` (no lookup of the walk has failed by itself); no action of the code reads them.
* **`Settings`** - the promise: requests take effect at one instant, answers stay, and one that is
  refused changes nothing - except an import, which may be refused after it has taken effect,
  as importBackup goes on to the profile files once it has saved.
  **`ConfigStore`** - the file operations: `os.WriteFile` is a truncation and a write, an export
  removes and renames, the program may be killed between any two.  `Promise == INSTANCE Settings
  WITH ...` maps the one on the other: a save has taken effect once the file is truncated.
* **`Duplex`** - the promise of a relay: two streams; one ends complete, with all bytes, or is cut,
  and only because an end broke or the other stream has ended long ago.  **`TcpSession`** - the
  handler, its two goroutines (one action per Read, Write and half-close call) and the two peers,
  who send, finish, stop reading and break at will.  One session is modelled: sessions share only
  the queue and a registry in which each has its own UUID.  A stream is its number of bytes, as one
  goroutine copies it in order.  What calls the proxy's connection supports is chosen freely: a
  plain `*net.TCPConn` half-closes and has deadlines, a shadowsocks one has deadlines only, an ssh
  channel neither, and the handler ignores the error.  `Stream == INSTANCE Duplex WITH ...` maps a
  direction to "complete" when its io.CopyBuffer saw EOF, to "cut" on an error.
* **`UdpSession`** - the handler, its two goroutines (deadline, read, write, the other's deadline)
  and the peers, who send, fall silent or break.  Deadlines are ticks since they were set; `passed`
  (a history variable) is the ticks since a direction last passed a packet on.
* **`Statistics`** - every atomic operation of trackers, ticker and REST requests is an action;
  `shown` and `counted` are history variables.
* **`Datagrams`** - constant operators: the socks5 UDP header and the packets of both cipher
  families by their lengths and address types.  **`ProxyDial`** EXTENDS it: one dial of one proxy
  (kind, network and options chosen in Init), one action per call of the dial, of the association's
  goroutine and of the connection's user; the server is external and may do anything its protocol
  lets it.  The handshake is a sequence of named messages; what each client makes of an answer is
  one operator per protocol.
* **`Framing`** - the AEAD records, the key stream and both simple-obfs dresses, each alone: one is
  a `net.Conn` over another, so what is shown of each holds of the stack.  Cells carry the nonce
  or position they were sealed with; TCP hands over any prefix and may break off.  simple-obfs'
  server is external, the other readers and writers are ours on both ends.  Writes may be empty:
  for the AEAD writer that is a record of size 0, at which the reader ends (`zeroAt` remembers
  where).  simple-obfs' hello may be overwritten before it is sent, with what is no hello or with
  another connection's (`foreign`).
* **`ConfigFields`** - normalizeProxyConfig as operators, the handlers that use it, and the page,
  which keeps what it was answered and posts it back.  Requests are one step; `ConfigStore` has
  their interleaving.  Every save may fail, with the file as it was or lost; a failed POST
  /proxy-config leaves the page as the user changed it, a failed addition or removal as it was.
  The history variables `unsaved` and `entered` say that such a failure has come since the page's
  last answer, and which proxies it concerned.
* **`MC...`** add symmetry sets and sets of old files only.  **`..._proofs`** hold theorems only;
  the engine's are in `ProxyControl_proofs`, those of UdpSession and Statistics in `Tunnel_proofs`,
  those of ConfigStore and ConfigFields in `Config_proofs`.

## 3. Runs

| run | question | bounds |
|---|---|---|
| `control_serial` | do launches keep the README's promise when launch and exit requests come one at a time, through every failure? | 4 requests of 2 goroutines (start and stop overlap), 2 proxies and one that parseProxy refuses, 2 pids: enough for launch, stop, relaunch with another proxy, exit, in every order |
| `control_overlap` | what do the two mutexes guarantee when everything overlaps? | 3 requests of 2 goroutines, 3 starts and routers: a double start, a stop in the middle, and what follows |
| `registry` | bridges, entries and monitors | 2 launches of a browser, VS Code or a plain application, 2 proxies, one shutdown at any moment: relaunch with the same and with another proxy, removal against registration |
| `router` | is a connection dialled with its own launch's proxy, although lookups fail? | 4 processes besides the launcher, 2 proxies, MaxDepth 2 (12 in the code): a chain is as long as the bound, one longer than it, and two trees |
| `tcp_session` | does a relayed connection keep both streams whole, and end? | 2 bytes in each direction: a partial write, a read that takes one of two bytes, and data after a half-close |
| `config_serial` | do the files behave as settings? | 2 goroutines, one request at a time, 2 applications, all faults, an import that fails after its save |
| `config_fields` | do page and file agree, and does a chosen proxy stay, although saves fail? | every old file with at most 2 proxies (missing, equal and clashing ids, no URL) and 2 applications (with and without id); 3 applications; 50 uuids, nine of them a request: five requests in turn, so a save, a failed one, another and a load |
| `udp_session` | do deadlines mean silence, and do sessions end? | timeout of 2 ticks, a queue of 1 packet: a packet at each tick before, at and after the deadline; the queue drops |
| `statistics` | are rates, totals and the list those of the traffic? | 2 sessions, 2 bytes in each direction: an Add before, between and after the ticker's Load and Store |
| `proxy_dial` | what is left after a dial or a connection, what is read from it, and does it end? | all 8 protocols with all options, 2 pieces or packets in each direction, payloads of 0, 65465 and 65500 bytes: in each cipher and with each header some fit the 64 KiB buffer and a UDP datagram and some do not; sizes 16/16/8 of salt, tag and IV |
| `framing` | is the stream whole through each layer? | records of at most 2 bytes, 5 bytes, buffers of 1 and 3: a full, a partial and an empty record, a buffer smaller and larger than a record |

The invariants are what the names say; their comments in the modules name the code.  Properties
worth a second look: `UnrelatedGoDirect` (diverted traffic is dialled by pid), `NoProxyLoop` (the
gateway read by configureTunNetwork is the LAN's, which holds only because the default route is
gone whenever networkState is nil), `TimeoutMeansQuiet` (each goroutine moves the other's deadline),
`StreamIntact` (nonces, leftovers and frame lengths over every cut), `RunningIsSo` (the flag
against engine, router and routes), `GlobalOnlyByDoubleStart` (whatever overlaps, at rest a serving
stack has the global proxy only if a start() ran on an engine that served or routed already),
`NoBridgeLeak`, `TrackedWhileAlive`, `LivingTreeIsProxied`, `ImplementsSettings` and
`ImplementsDuplex` (half-close).

`global_left` expects a violation: a start request that overlaps a launch leaves the global proxy
in the tunnel, where the README promises that unrelated applications go directly.  Five more
disagreements of the code with the README or its own log can be seen in the same way, by hand
(`tlc -config X.cfg M`); they are "findings" without a run in `PROJECT.json`:

* `MCLaunchRegistryCode.cfg` - VS Code is force-closed by the shutdown that "leaves it running";
* `MCLaunchRegistryBridge.cfg` - relaunching a running browser closes the bridge it uses;
* `MCPidRouterReuse.cfg` - a reused pid inherits the old target;
* `MCPidRouterOrphan.cfg` - a descendant whose parent has exited goes directly;
* `MCConfigStoreOverlap.cfg` - two overlapping saves leave an unreadable file.

The other findings are places where a property of a passing run has to except what the code does:
routes whose deletion failed and that the program forgets (`RoutesTracked`, `RunningIsSo`,
`NoProxyLoop`, `UnrelatedGoDirect`), a parent's lookup that fails by itself (`LivingTreeIsProxied`),
an import refused after its save (`ImplementsSettings`), sessions over ssh, which no deadline ends
(`HalfClosedEnds`), the packet socket of shadowsocks.go:77 (`NoSocketLeft`), the early bytes of
http.go:76 (`StreamsAreClean`), the hello in a buffer that is back in its pool and the response
header that must come in one piece (`StreamIntact`), short datagrams (not sent in `proxy_dial`),
ids before the first save and the page after a failed one (`ShownIsStored`), and the list of
proxies, which every save of the page empties.  `StreamIntact` and `AllDelivered` also except what
follows an empty Write into the AEAD layer: the reader takes its record for an error.  No caller of
this program writes an empty slice, so this one is no finding.

### Fairness

`ProxyControl!Fairness` is strong fairness of each goroutine's steps: the Go scheduler runs every
goroutine that can run, and `sync.Mutex` hands itself to a waiter that has starved for 1 ms, so a
waiter gets a mutex that is released again and again.  Arrivals of requests and exits of processes
are not fair.  `LaunchRegistry!Fairness` is weak fairness of launches, monitors and shutdowns; it
includes that a monitor's PowerShell query succeeds in the end (it is retried every second for
ever, main.go:1477-1499).  Processes need not end.  `TcpSession!Fairness` is weak fairness of the
handler and of each goroutine and of the deadline's timer; peers owe nothing, so `HalfClosedEnds`
excepts a peer that never reads: no deadline bounds a write.  It excepts connections without
deadlines too.  `UdpSession!Fairness` is weak fairness of the handler, of both goroutines and of
time.  In both modules the dial is not fair: its context bounds the connection (5 s), not the
handshake behind it, so a dial may never return, and `SessionEnds` and `HalfClosedEnds` speak of
sessions whose dial has.  In `ProxyDial` the dialling goroutine and the association's run; a server
owes nothing, so `NothingHangs` excepts an answer it owes: no handshake has a read deadline.  In
`Framing` TCP delivers, the reader's copy loop reads on and a started Write is finished.

## 4. Proofs

`tlapm X_proofs.tla` checks them.  No fact is assumed but the ASSUMEs of the modules, which TLC
evaluates in the runs.  They hold for every number of goroutines, requests, proxies, processes,
launches, applications, sessions and bytes, every timeout, payload length and cipher overhead.

* `ProxyControl_proofs` - of the engine `EngineTypeCorrect`, `RouterNeverStale`,
  `ServingStacksHaveDevices`: the inductive invariant `EngineInv` adds which of device and stack
  belong to which start at each stage of `netstack()`.  The handlers respect the engine's interface
  (the lemma `ControlIsEngine`), so these results hold of `ProxyControl` as well.
  `ControlTypeCorrect` and `GlobalOnlyByDoubleStarts` hold with overlap; the invariant of the
  latter says that until start() has run twice a serving stack without a router has a handler that
  is about to call EnablePIDRouting. The five others assume `~Overlap`.  Their common inductive
  invariant says, for each stage of the one request that may be at work, what the engine, the
  router, the routes and the flag are: e.g. at "network" a router is enabled and the tunnel uses
  it, at "store" the host route exists and is not recorded, and at rest "not running" means that
  nothing is left but what could not be deleted. It is needed because each property alone is silent
  about the intermediate states from which the next step starts.
* `LaunchRegistry_proofs` - the invariant relates the stage of a launch, its bridge, its monitor and
  the entry: an instance is recorded only from "spawn" on, the bridge of a recorded one is open, its
  monitor has not removed it, and a launch that drops an old entry has killed its process.
* `PidRouter_proofs` - the invariant says that while `pick` is inside an intact lineage, `current`
  is a running process of it, at a distance from the root that the remaining depth covers: lineages
  are described by the number of processes below `current`, which avoids induction over chains.
* `Config_proofs` - of ConfigStore and of ConfigFields.  `SettingsAreKept`: the initial states map
  to initial states and each step to one step of `Settings` or to a stutter, case by case, under
  "at most one request at work".  `PageShowsTheFile` and `ProxyIsTheUsers`, for any number of
  applications, proxies, uuids and requests.  Their invariant (`FieldsInv`) adds to `ShownIsStored`
  that the ids of file and page are distinct and at most the last uuid drawn, that every id is set
  on the page, and after a save in the file, and that the page has each proxy chosen in the file
  but those that the user entered for it and that failed to be saved. Without the first two a new
  uuid could be that of another application, without the last a page that is posted back could
  overwrite a choice.  The loops of normalizeProxyConfig are recursive functions: that they exist,
  and what they return, is proved by induction over the number of passes (`LoopRuns`), and from it
  that normalising again changes no id and no proxy (`NormalizeAgain`).
* `TcpSession_proofs` - `SessionImplementsDuplex` and `CopiesHaveConns`, for any number of bytes.
  The invariant says what each stage of the handler implies for the connections, and that a
  direction which copies has its two halves open and no deadline on the connection that it may arm,
  so that a deadline passes only after the other direction has ended.
* `Tunnel_proofs` - of UdpSession and of Statistics.  `UdpTypeCorrect`, `UdpCopiesOnOpenConns`,
  `UdpTimeoutMeansQuiet`, for every timeout: beside the stages the invariant compares two clocks
  (`ClockInv`): a deadline is at most as old as the last packet of the direction that reads there,
  and as that of the other direction unless that one has yet to move it.  `StatisticsTypeCorrect`,
  `RatesShowBytesOnce`, `OpenConnectionsListed`, for any number of sessions; and
  `TotalsAreTheTrackers`: a total is the number of bytes that all trackers together have counted.
  The bytes counted form a finite set of pairs (tracker, number) (`Bytes`), to which only the Add
  to a total adds one; `TotalsInv` keeps its cardinality equal to the total.
* `ProxyDial_proofs` - `SocksRoundTrip` and `ShadowRoundTrip`: what is encoded decodes to its
  payload, whatever the lengths, or is refused exactly when it does not fit the buffer;
  `PacketsAreReadWhole` from them: `PacketInv` says that the datagrams in flight are the encodings
  of what is still to be read.  `DialLeavesNoSocket`: `SocketInv` says at which steps which socket
  is open, and that an open packet socket whose dial has failed belongs to a goroutine that has yet
  to close it.  `StreamsStayClean`: the invariant (`StreamInv`) says in which order greetings,
  request and data were sent, which of them the server has answered, and that what waits to be read
  is the outstanding answer and behind it the server's data, from the first piece that the user has
  not been given.
* `Framing_proofs` - `StreamsStayIntact`, for every record size, buffer and number of bytes.  Its
  invariant (`FramingInv`): while the connection is open, what the writer has sent and the reader
  has not yet taken is a run of a parser, from the state the reader is in to the one the writer is
  in.  (Of a stream with a foreign hello nothing is claimed.)  A write appends a run, a read takes
  a first part of one, Break cuts off the last part, so a reader that meets the end of the stream
  stops inside a record or after the last whole one.  That runs can be joined and cut is proved by
  induction over their length: `NatSetInduction`, a lemma of the module, is induction for a set of
  lengths, from the library's WellFoundedInduction.

Only model-checked: liveness (`RequestsAnswered`, `EntriesRemoved`, `HalfClosedEnds`, `SessionEnds`,
`NothingHangs`, `AllDelivered`).  Fairness and ENABLED are out of the provers' reach.  Every
invariant, action property and refinement of the passing runs is a theorem.

## 5. Limits

A request's JSON, the wording of answers, logs and PowerShell scripts are left out.  `taskkill`
closes any subset of what it is asked to.  ProxyControl closes processes without detail, and
LaunchRegistry runs launches without the engine; they share the launch handler's order of calls.
The properties proved under `~Overlap` fail with overlap: `UnrelatedGoDirectAtRest` is the run that
shows it; RegisteringBound, NoProxyLoop, RoutesTracked and RunningIsSo fail in the same way.
UDP sockets bound to the wildcard address have no row that `findUDPPID` accepts, and IPv6 sockets
none at all: in `PidRouter` resolving may always fail, and no property promises a proxy then.

## 6. Not modelled

* the bridge's relay (handleConnect, proxyCopy): the copy loops of `TcpSession` without deadlines;
* existingInstanceRunning, elevation and the child of /restart: calls into Windows around one exit
  of the process, with no promise in the code about which instance survives;
* profile files in a backup, file by file: `ConfigStore` has the configuration's part and whether
  the rest of the archive could be unpacked;
* parsing of proxy URLs and keys, command lines, logging, version, icons, the catalog: sequential
  conversions of strings without state;
* the gVisor stack, its options, TUN devices, the dialer's socket options: configuration of
  libraries and of the kernel; cryptography of ciphers and of ssh likewise;
* the buffer pool's size classes: contents of a sync.Pool are unspecified, and what its callers do
  after Put is in `Framing`;
* the other REST endpoints, which only read and write JSON and are not started by the launcher;
* netmonitor's connection table: a loop that prints what Windows answers.

What could follow: the bridge's relay as an instance of `Duplex`.
