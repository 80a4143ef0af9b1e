# xshared: specifications, model checks and proofs

`xshared` is a Go library shared by three tunnel programs: an in-memory pipe,
a SOCKS5 and an HTTP proxy server over a dialer the caller supplies, a DNS over
HTTPS client with its cache, an ECH configuration manager, a logger and a
routing matcher.  Most of it is small; what makes it hard is that goroutines,
timers, channels and half-closed connections meet in it.  This directory holds
TLA+ models of those parts, TLC runs over small instances, and TLAPS proofs of
the safety properties that matter most, for every value of the constants.

`PROJECT.json` lists the runs, the mutants (a mutated definition for every
checked property, under which TLC must find the property violated), the source
lines of every definition, the hazards of the code and the theorems.

## 1. Inventory

| Component | State | Operations | Depends on |
|---|---|---|---|
| `pipe` | two queues of 512 blocks, a done channel, a flag and a mutex per end, the rest of a block read in part | Read, Write, Close | - |
| `ech` manager | cache behind `mu`, table of running queries behind `flightMu`, `stopChan` | GetTlsConfig, Refresh, ClearCache, CleanupExpired, CacheConfig, Start/StopAutoRefresh | `dns` DoH client |
| `socks5` server | listener, `closed`, semaphore of connection slots, statistics | Start, Close, accept loop, negotiation, CONNECT, UDP ASSOCIATE | `dialer` |
| `socks5` pump, `httpproxy` pump | two connections, two copies, time of last activity, watchdog | copy, half-close, idle close | connections of the dialer |
| `socks5` UDP association | relay socket, upstream channel, client address behind `a.mu`, bounded queue, `done`, `closeDone` | uplink loop, downlink loop and its writer, control connection | `dialer.UDPDialer` |
| `httpproxy` server | as the SOCKS5 server, without statistics | Start, Close, accept loop, CONNECT and forward requests | `dialer` |
| `dns` DoH client | atomic index of the server that answered last | Resolve with rotation and retries, records, plain UDP | HTTP client |
| `dns` cache | entries behind `mu`, clean-up goroutine, counters | ResolveAny, LookupIPs, ResolveHTTPS, GetECHConfig, Warmup, Close | DoH client, system resolver |
| `logger` | map of loggers by scope behind `loggerMapMu`, a level per logger, ring of runtime lines, rotating file behind `fl.mu` | GetLogger, SetGlobalLevel, SetLevel, append, clear, Write, rotate, Close | file system |
| `routing` | address tables by prefix length, domain sets, keywords, expressions | three constructors, Match | embedded data, data files |
| `config`, `dialer`, `ech` error and factory, `socks5` auth | none that changes | - | - |

Interactions: the proxy servers call a dialer and pump between the client and
what it returns; programs use `pipe` as such a connection.  The ECH manager
and the DNS cache call the DoH client outside their locks.  All of them log.

What is hard in each, and what makes it correct:

* **pipe**: Read and Write test shared flags without the lock that Close holds;
  `select` picks at random among ready cases.  Correct means: the byte stream is
  reliable, an end of stream comes after the last byte, nobody is stuck on a
  closed peer, Close may be called by anybody and twice.
* **ech**: a query is shared by everyone who asks while it runs; it may fail, and
  Refresh, the timer loop, expiry and clean-up act beside it.  Correct means:
  one query of Gets at a time, nobody waits for one that no longer runs or reads
  a result before it is written, every Get returns.
* **pumps**: two directions end at different times, connections abort, a
  watchdog closes under the copies.  Correct means: no truncation, the end of a
  direction is passed on, the handler ends, the watchdog respects both directions
  (but for a write it cannot know of yet, see Findings).
* **UDP association**: five goroutines and two ways to end.  Correct means: one
  client is served, frames stay in order, nobody blocks behind the full queue,
  and it ends with its control connection (it does not, see Findings).
* **SOCKS5 server, HTTP proxy**: a dozen early returns each, every one of which
  must release exactly what was taken and answer the client at most once; clients
  that stop in the middle; an accept loop that must end with Close.
* **DoH client, cache**: concurrent rotation over one shared index; fallback
  through several sources; a clean-up that acts on a time read earlier.
* **logger**: a rotation is a chain of renames that a kill can cut anywhere and
  the next start has to live with; each operation on a file may fail and most
  errors are ignored; Close does not take the lock of Write.  Correct means: only
  the oldest lines are lost, files and ring stay within their limits, one logger
  per scope, and a change of the global level reaches all.
* **routing**: rules are stored masked, unmapped and by length, and looked up the
  same way; a table is filled from several sources and rebuilt from files.
  Correct means: a lookup answers what the list of rules says.

## 2. Modules

| Module | Models | Steps |
|---|---|---|
| `ByteStream` | what a bidirectional connection promises: bytes are accepted, handed out in order, an end closes, its peer learns of it after the last byte | 4 actions |
| `BufferedPipe` | `pipe.bufferedConn`, any number of goroutines per end; refines `ByteStream` | each flag test, channel operation and locked section |
| `EchManager` | `ech.EchManager` for its one cache key | each locked section, query and channel operation |
| `TunnelPump` | `pumpTunnel` and `pumpBidirectional`, with the applications behind both connections | each Read, Write, store of `lastActivity`, half-close, close and tick |
| `UdpAssociation` | `handleUDPAssociate`, `uplinkLoop`, `downlinkLoop` | each socket, channel and locked operation |
| `ProxyServer` | what the two servers share: Start, Close, a successful Accept, the slots, the deferred calls | each semaphore operation and deferred call |
| `Socks5Server` | the SOCKS5 server's accept errors and its handler | each message exchanged, dial and count |
| `HttpProxy` | the HTTP proxy's accept errors and its handler, CONNECT and forward | each message exchanged, dial and first write |
| `ProxyServers` | both: a behaviour is that of one server with one set of options; the properties | |
| `DohClient` | `DoHClient`: rotation, retries, the two forms of a request | each request, each access to the shared index |
| `DnsCache` | `DNSCache` for one domain, its clean-up loop | each look, query, store; clock reading and sweep apart |
| `LogLines` | a line of the log and the bytes a sequence of lines takes, which both stores use | |
| `FileLogger` | `logger.FileLogger`: init, Write, rotate, Close, a kill at any point and the next start | each rename, open, close, locked section and unlocked test |
| `RuntimeLog` | `runtimeLogStore` | each call, as each is one locked section |
| `LoggerRegistry` | `GetLogger`, `SetGlobalLevel`, `SetLevel` | each locked section, the walk over the loggers one by one |
| `Logger` | the three side by side: they share no state, a behaviour is one of a part | |
| `Matcher` | `routing.Matcher` and its data files: constructors, Match, and beside them the meaning of a list of rules without tables | each stage of a constructor |
| `MC...` | goroutines, clients, rules and capacities of the runs | |
| `...Proofs` | theorems, for `BufferedPipe`, `EchManager`, `ProxyServers`, `DohClient`, `DnsCache`, `Logger`, `Matcher`; `RelayProofs` those of `TunnelPump` and `UdpAssociation`, whose definitions therefore have different names (`Spec` and `UdpSpec`) | |

How state corresponds to code.  A goroutine's place in its function is `pc` (or
a variable named for the goroutine); a local variable that survives a step is a
function of the goroutine (`arg`, `ent`, `fl`, `ans`, `offset`, `attempt`,
`key`).  A mutex that is held across steps is a variable (`mu` in the pipe); one
that covers a single step is not.  `defer` is explicit: `held` in
`UdpAssociation`, the `pumped`, `release` and `shut` places in `ProxyServer`.  Variables
commented as history are not in the code and are read by properties only.

Data are abstracted to what properties tell apart.  A byte is its position in
its stream and a block an interval of positions, so losing, repeating or
reordering bytes shows.  A DNS answer is its family, or whether it holds an ECH
configuration.  A message of SOCKS5 or HTTP is its meaning; every malformed or
short message is one failure of negotiation.  A log line is its number and its
size, a file the sequence of its lines.  An address is a family and a
function from its bit positions to 0 and 1, which keeps masking and prefix lengths
as they are, and a domain the sequence of its labels; a host may be both, as dotted
decimals are for `normalizeDomain`.  A keyword is a sequence of whole labels in the
model, where the code takes any part of the name (`matcher.go:333`).  A cache entry holds the ticks it has
left, negative when it has expired, and the clock ages it (and the copies
goroutines hold of it), so no clock has to be bounded.

Operations of Go are modelled by what the language promises: `select` chooses
any ready case; a receive from a closed channel is always ready; closing a
closed channel is a panic, which a property rules out; an unlocked test and the
act it guards are two steps.

## 3. Runs

| Run | Instance | Shows |
|---|---|---|
| `pipe` | 2 goroutines on one end, 1 on the other, queue of 1 block, 3 writes per end of 0 or 3 bytes, buffers of 1 and 2 bytes | `InOrder`, `NoDoubleClose`, `ImplementsByteStream`, `WriteReturns`, `PeerCloseWakesReader` |
| `ech` | 2 callers and the refresh loop, lifetime 1 tick, 2 flights | `SingleFlight`, `NoWaiterStranded`, `NoUnsetResult`, `GetReturns`, `LoopEnds` |
| `pump` | four tunnels: both connections can be half-closed or the client's only; without a watchdog, 2 bytes each way and aborts; with a timeout of 2 ticks, a watchdog every tick and 1 byte each way | `NoSilentTruncation`, `DataGetsThrough`, `EofEndsTunnel`, `WatchdogCountsBothDirections`, `IdleTunnelEnds` |
| `udp` | 2 senders, queue of 2 frames, 2 datagrams up, 4 frames down | `OneClient`, `DownlinkInOrder`, `UpstreamNotBlocked`, `DoneStopsWriter` |
| `proxy` | 2 connections, 1 slot; SOCKS5 with and without authentication, UDP and an idle timeout, HTTP with authentication and an idle timeout, HTTP without them and without a limit | `SlotsExact`, `UpstreamExact`, `OneAnswer`, `NegotiationEnds`, `SlotComesBack`, `CloseEndsAcceptLoop` |
| `doh` | 2 callers, 3 servers | `AllServersTried`, `IndexHasAnswered`, `ResolveReturns` |
| `dns_cache` | 2 callers, lifetime 1 tick, a clean-up that waits up to 1 tick for the lock | `EntriesOfTheirType`, `FailsAfterAllSources`, `LiveNotRemoved`, `CallsReturn` |
| `logger` | 2 goroutines; files of 2 bytes, 0, 1 and 3 backups, lines of 1 and 3 bytes, 6 lines, 2 starts, 1 fault; ring of 3 lines and 5 bytes, lines of 1, 2, 3 and 8 bytes; 2 scopes, 2 levels, 3 changes | `NoLineLost`, `BackupsKept`, `FilesBounded`, `RingIsLongestEnd`, `OneLoggerPerScope`, `LevelsAgree` |
| `routing` | addresses of 3 bits in three families; domains of 1 and 2 labels; every list of at most 2 manual lines out of 10 with every set of groups; 4 lists of force-proxy rules; 5 address files and 4 domain files, missing and broken ones among them | `MatchesItsRules`, `FilesOverride` |
| `pump_http_eof` | one tunnel of `httpproxy` over a stream that is no `*net.TCPConn` | finding: `EofReachesPeer` |
| `udp_control` | as `udp` | finding: `AssociationFollowsControl` |
| `routing_manual` | as `routing` | finding: `ManualRulesKept` |

Type invariants are proved (section 4) rather than run.

The bounds.  A queue of one block is full after one step, so every
path of a full queue is taken, and a second block waits behind it; three writes let a
block be queued, one be blocked and one come after a Close; a block of 3 bytes
read with buffers of 1 and 2 leaves a rest of each length, and a write of 0
bytes is the empty block.  Two callers suffice to collide at each lock,
`MaxFlights = 2` has a second flight after the first has ended.  A lifetime of
one tick has the three cases of live, at its last instant and expired.  Three
servers let a rotation start in the middle and wrap round.  Two connections and
one slot give one that is served and one that waits, is rejected or is let in
late.  Four frames with a queue of two: one written, two queued, one blocked.
A file of 2 bytes takes one short line and rotates at the second or at any long
one, so six lines go through three backups and push the oldest out; counts of 0
and 1 are the ends of the renaming loop; one fault hits any operation of any
rotation, and a second start meets what a kill left at any of its steps.  A ring
of 5 bytes is limited by lines when they are short and by bytes when they are
long, and a line of 8 is cut.  Three bits have prefixes of every length from none
to all, with and without bits behind the length; every kind of rule, and a bad
one, occurs beside every other; an address file has a mapped address, one address
too many, or a prefix that is too long.

What three properties leave out, because the code does not keep it:
`WatchdogCountsBothDirections` counts the silence of a direction from its write, but
lets a verdict overlook a write whose timestamp is not stored yet (what follows from
that, and from a write after the verdict, is `OnlySilenceIsCut` in section 6).
`SlotComesBack` excepts the places in `MayStay`: a UDP association, a forwarded
request its target does not take, and a tunnel without an idle timeout.
`FilesOverride` says of a group that is on what must be matched (its file, and the
private addresses) and what may be (the manual rules and the private names besides);
it does not ask for the loss of the manual rules nor for a file to be loaded whose
group is off, which are findings (section 6).

The safety parts of most runs do not rest on these bounds: they are proved.
`CHECK_DEADLOCK FALSE` is said where the system may stop: a pipe whose ends are
closed and whose bounded writes are spent, a UDP association that has ended or
hangs, a server whose clients have all gone, a logger whose bounded lines and
starts are spent, a constructor that has returned.

Fairness.  Goroutines that can take a step eventually take it (weak fairness of
the steps inside a call): Go's scheduler is preemptive.  Nobody has to call an
operation, send, read, publish or close.  Timers fire: `WriteTimeout`,
`DownGiveUp`, the deadlines behind `HandshakeFail` and those behind a request's
end are ordinary steps of the goroutine that waits.  Where a `select` in a loop
has one case that may be ready at every turn (`LoopStop`, `WatchdogStop`,
`WriterStop`), the choice is random in Go, so the other one is taken
eventually: strong fairness of that case.  In `pump` the applications of a tunnel
without an idle timeout are polite (they read, and answer an end of stream with
their own), because such a tunnel between applications that never close does not
end; nothing is assumed of those of a tunnel with a timeout.  `proxy` assumes
that a tunnel with an idle timeout whose client has gone ends: what its target still
sends fails or fills the buffers, then both directions are silent, and the watchdog
ends the tunnel (`IdleTunnelEnds`, shown by `pump` for whatever the applications do).
Nothing is assumed of a tunnel without a timeout, which is the default: it lasts as
long as its target, which may never close, and in `httpproxy` may never learn that
the client has (`pump_http_eof`).  Nor is anything assumed of the target that has to
take a forwarded request (`HttpFirst`), whose write has no deadline.  An answer to the
client has none either, but is short and fits in the send buffer of its connection, so
its write returns.  `logger` and `routing` state safety only and need none.

## 4. Proofs

TLAPS proves, for every value of the constants allowed by the modules'
assumptions:

* `BufferedPipeProofs`: `TypeCorrect`, `BytesInOrder`, `DoneClosedOnce`,
  and `PipeImplementsByteStream`, that every step of the pipe is a step of
  `ByteStream` or leaves its state alone;
* `EchManagerProofs`: `TypeCorrect`, `OneFlight`, `WaitersServed`,
  `ResultBeforeSignal`;
* `DohClientProofs`: `TypeCorrect`, `EveryServerAsked`, `IndexSound`;
* `ProxyServersProofs`: `TypeCorrect`, `SlotsCounted`, `UpstreamCounted`,
  `AnsweredOnce`;
* `RelayProofs`, of `TunnelPump`: `TypeCorrect`, `NothingTruncated`,
  `BothDirectionsCount`; of `UdpAssociation`: `UdpTypeCorrect`, `ServesOneClient`,
  `FramesInOrder`;
* `DnsCacheProofs`: `TypeCorrect`, `EntryTypes`, `LiveEntriesStay`,
  `AllSourcesTried`;
* `LoggerProofs`, of the registry: `OneLoggerEach`, `LevelsFollow`; of the file:
  `BackupsStay`, `OldestLinesGoFirst`, `FilesStayBounded`; of the runtime log:
  `RingKeepsTheEnd`;
* `MatcherProofs`: `RulesDecide`, `FilesReplace`.

With these every safety property of a passing run is a theorem, invariants and
action properties alike, and so is the refinement of `ByteStream`.

**Pipe.**  `InOrder` alone is not inductive: that a reader is handed the next byte
depends on what is still queued.  The invariant says that the rest of the block
in hand, the queued blocks and the accepted total are adjacent intervals
(`Contiguous`), that only the reading goroutine of an end is inside Read, that
the reader drains with nothing in hand and only after the peer's done channel is
closed, and that the mark taken by a Close lies within the stream.  The end of
stream then falls out: with an empty queue adjacency gives `got = sent`, which
is at least the mark.  `DoneClosedOnce` needs that the mutex is held by exactly
the goroutine in the locked section and that its flag test is still true.

**ECH manager.**  `IInv` joins the types with: what each place in the code
says of the job and of the answer in hand (`JobInv`); a leader's flight is
closed exactly at its last step and has its result before it is closed
(`FlightInv`); and the three checked properties, which support each other: a
registered flight has a leader because the leader removes it, waiters are safe
because the only way a leader leaves is through the signal.  Most steps do not
touch leaders or waiters (`Bystander`) or move one leader forward
(`LeaderMoves`), which is how the proof is split.

**DoH client.**  `AllServersTried` speaks of the moment a call fails; the
invariant behind it (`RotationInv`) says that at every point of the loop the
servers at the offsets already passed have been asked, and the current one once
its first request is out.  The argument that this is every server is the lemma
`Rotation`: from any start, N consecutive offsets modulo N reach each of
`0..N-1`.  It would fail for a loop that reads the shared index again, because
`start` would then move under the offsets.  `PlaceInv` adds what a place says of
the attempt (a backoff follows only the first), of the kind of call, and of the
answer behind a store.  A step changes the frame of one caller (`OneCaller`), so
each action is looked at for that caller only.

**Proxy servers.**  A step of a handler moves one connection from one place to
another, so each set `At(places)` gains or loses at most that connection
(`MoveAt`), and its cardinality changes by at most one (`MoveCount`).  `SlotsExact` and
`UpstreamExact` then hold by comparing, for each action, the places left and
entered with what the action does to `slots`, `active` and `upstream`; that the
sets are finite is the only assumption on `Conns`.  `OneAnswer` is not inductive:
`SaidInv` says for every place what has been said when a handler is there (a
client in "request" was greeted and granted, one in "dialUdp" was told "ok"), and
the conversations that end a handler are those reachable from there.

**Pump.**  The handler closes a connection only after both copies have completed
(`ClosedAfterCopies`; without a watchdog nobody else closes either), so on a tunnel
nobody aborted a copy stops only at the end of its source.  `BytesInv` says, for each
place of a copy, how many of the bytes taken were written, that a copy that has
stopped wrote every byte put in, and that a connection is shut for writing only then.
`BothDirectionsCount` rests on `SharedClock`: the age of `lastActivity` is at most the
time since the last write of either direction, unless that write has still to be
stored.  The time since a write is counted from the write (`CopyWrite`), not from the
store (`CopyMark`), so the theorem says how little a verdict can overlook; that a write
just before the store or after the verdict is overlooked is in section 6.

**UDP association.**  `ClientKnown`: nobody holds a frame for a client before the
address is set, and a datagram about to be sent upstream is that client's.
`DownlinkInOrder` says that frame numbers grow from the one last written through the
one in the writer's hand and those queued to the one in the reader's hand; beside it
the proof needs that all of them have been produced (`Produced`), that only the
writing loop holds one (`FrameHeld`), and that it holds none before it is started
(`NotStarted`).

**DNS cache.**  `CallsInv` says for every place of a call which sources it has
found empty, which is what `AllSourcesTried` needs at its last place, and which keys
it can have there, from which the type of the entry it stores follows; every other
step keeps, ages or removes entries (`KeptKind`).  `LiveEntriesStay` looks at
the three steps that remove one: the two lookups, for an entry that has expired, and
the sweep, whose time is never later than the clock's.

**Logger registry.**  `MapExact`: every logger made is in the map, and there are as
many as scopes in use; `GivenOK`: whoever was given a logger was given one of the
map.  `LevelsInv` extends `LevelsAgree` to the middle of a change: a logger that the
walk has passed has the new level.

**Rotating file, names.**  `FileInv` says which names have a file at every step of a rotation
as long as nothing has failed (`Calm`).  Outside the renaming they are 0 and the
backups up to the number of rotations or the number asked for.  Inside it one name
is empty, the one behind the backups that have still to be renamed (`Backup`), so
each rename goes to a free name and none removes a backup.  With no backups asked for
the code still keeps one, which the last rename replaces.

**Rotating file, lines.**  `NoLineLost` must hold across kills, after which nothing is
left of where the program was, so the invariant behind it (`LostInv`) speaks of names
and contents only: the lines are in order through the names, from the greatest down,
and the numbers held have no gap up to `count` (`Chain`); no name is above the oldest;
and in a rotation the name the next rename goes to is free, unless no backups were
asked for, where the one file there is holds the oldest lines and may go.  Each
operation on the directory is a lemma about any family of files: the greatest name may
go (`ChainDrop`), a file may take the next name when it is free (`ChainMove`), an empty
file may appear (`ChainCreate`), the next line goes to file 0 (`ChainGrow`).

`FilesBounded` needs to know what `currentSize` has to do with the file.  They are not
equal: the line that calls for a rotation is written to the new file after the size
was reset.  `BoundInv` says that the file is ahead by one line at most, in between
operations and, with the line in hand, before it is written.  It survives a failed
open, which leaves the size that called for the rotation, and a Close, after which
sizes are counted for lines that are not written; it does not survive a failed
rename, which `FilesBounded` excepts.

**Runtime log.**  `RingInv` names the place in the session where the store begins:
what is kept fits, and nothing that begins earlier does (`KeptFrom`).  An append drops
the least number of lines that makes room (`EvictedIsLeast`; that dropping all of them
makes room for a line that was cut is `RoomAtLast`), and a start that did not fit
before fits even less with one more line.

Both speak of `TotalSize`, a recursive function.  That some function adds the sizes
of every sequence up is shown by induction over its length (`SumsExist`), by way of
the least length without one, since the induction theorems of the library cannot be
used; after `TotalIsSum` the proofs need only how the size of a part relates to that
of the whole (`TotalPart`, `TotalAppend`).

**Matcher.**  `Holds(t, ps, rs, fs)` says that tables `t` are those of the prefixes
`ps`, the domain rules `rs` and the force-proxy rules `fs`, and there is a lemma for
what each operation of a constructor does to it (`HoldsPrefixes`, `HoldsRules`,
`HoldsForced`; `HoldsIpAnew`, `HoldsDomainsAnew` for the two rebuilds).  `IInv`: at every
stage the matcher holds the rules then in force (`CurrentPrefixes`, `CurrentRules`,
`CurrentForced`), whose prefix lengths and values are proper ones.  Beside it stand the
lemmas on looking up, which know of no constructor: two addresses have the same masked
form exactly when they agree on the bits of the prefix (`MaskedAlike`, `AddrMeans`), and
an ending of a name is in the table of suffixes exactly when a rule is a suffix of the
name (`SuffixMeans`, `DomainMeans`, `ForceMeans`).  That a manual rule is lost to a data
file (section 6) shows in `CurrentPrefixes` and `CurrentRules`, which leave it out.
`FilesReplace` reads off from them what is in force at the end for each state of the
files (`AtTheEnd`); it would hold as well for code that keeps the manual rules, or
that leaves the file of a group that is off alone.

Assumptions of the proofs: the constants have the types the modules state
(positive capacity, at least one DoH server, at least one size of lines, sets of
goroutines with a place each, a finite set of connections and of scopes, distinct
markers); the data built into the matcher parse, and a prefix that parses is no longer
than an address (`MatcherAssumption`); and one goroutine reads an end of a pipe at a
time (`Readers`), as all callers do.

Only model-checked: every liveness property, since the prover has no fairness or
ENABLED reasoning.

## 5. What is not modelled

* Contents: message formats, parsing of DNS records, UDP headers, TLS.
* `config`, `dialer`, `ech/error.go`, `ech/factory.go`, `socks5/auth.go` and the
  warm-up list: nothing in them changes state, or they are pure checks.
* `Warmup`: a pool of eight lookups that are modelled, over names of which the
  cache's model has one; its limit of 15 s is tested between lookups only.
* In `logger`: formatting and the filter by level in `log()`, `MultiWriter`, which
  nothing in the repository uses, and the file a logger is bound to when it is made
  (a logger made before `InitGlobalLogger` never writes to the file).
* In `routing`: the text of a rule and the wire format of a data file; a line is a
  rule, good or bad, a file good, broken or missing.
* In `httpproxy`: the rewriting of a request.  Two consequences are visible in the
  source and outside the model: bytes sent behind a CONNECT before its answer stay in
  the `bufio.Reader` and are lost, and a second request on the connection of a
  forwarded one goes to the first one's target unchanged.
* Statistics counters, except `activeTunnels`.
* Assumed of callers, because the code does not defend against the contrary: one
  reader per pipe end; `StopAutoRefresh` and the cache's `Close` once (a second
  call panics); `Start` once and before `Close` on a server; HTTPS names resolved
  through the record operations only (`ResolveCached(d, "HTTPS")` shares their key
  and would return an empty address).

## 6. Findings

Three runs show a sentence of the repository that the code does not keep.

* `udp_control`: `handleUDPAssociate` waits at `server.go:655` for `closeDone`,
  which only its own `defer` at 643 closes.  The comment at 649 says that the
  association lives as long as the control connection; in fact the handler never
  returns: relay socket, upstream channel, connection slot and the count of
  active tunnels are kept for ever.
* `pump_http_eof`: `pumpBidirectional` half-closes only a `*net.TCPConn`
  (`httpproxy.go:313`); upstream streams of another type never see the client's
  end, against the comment at 272.  The changelog describes the same defect as
  fixed in `socks5`, whose `halfClose` uses an interface.
* `routing_manual`: `NewMatcherWithGeoFile` adds the manual rules first
  (`datfile.go:310`), and a data file that is there empties the tables they are in
  (223, 256); the comment at 303 says they are added after the data.  The names
  `localhost` and `local` of the private group go the same way with a geosite file.

Four more are stated in the modules, do not hold, and have no run of their own:

* `OffGroupHasNoData` (`Matcher`): with one of geoip:cn and geosite:cn on,
  `datfile.go:333` lets `applyGeoFiles` load both files, and it knows neither switch,
  so the presence of its file switches the other group on.  The comment at 332 says
  that the files have a meaning only when the switch is on, the one at 208 that they
  replace the corresponding group of data.  Add it under INVARIANTS of `Matcher.cfg`.
* `OnlySilenceIsCut` (`TunnelPump`): the watchdog loads `lastActivity`
  (`server.go:509`) and then closes; a write that has returned and is not stored yet
  (475, 477), or that comes between the load and the close, does not keep the tunnel.
  The changelog (line 20) says that a tunnel is closed only when both directions have
  been idle for longer than the threshold.  The window is short, and what is cut is the
  first data after such a silence.  Add it under PROPERTIES of `TunnelPump.cfg`.
* `LocalCloseWakesReader` (`BufferedPipe`): `Read` has no case for its own end's
  `done` (`pipe.go:100`), so a pending Read outlives the local Close, unlike a
  `net.Conn`, which the package comment names.  Add it under PROPERTIES of
  `BufferedPipe.cfg` to see the behaviour.
* `ConcurrentGetsQueryOnce` (`EchManager`): a Get that saw an empty cache and is slow
  to reach `flightMu` queries again although another Get has just filled the cache
  (`manager.go:133`); the comment at 131 says one query.  Add it under PROPERTIES of
  `EchManager.cfg`.

## 7. Plan

Done: every component that keeps state, in models and runs, but for what section
5 lists; every safety property of a passing run proved.

Next:
1. A composition of `DnsCache` with `DohClient`, whose query is one step now, and
   of `ProxyServers` with the tunnels of `TunnelPump`, each part shown to implement
   the step that stands for it.
2. `Warmup` over the composed cache.
