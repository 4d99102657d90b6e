# gk: verification

TLA+ models of the parts of `gk` that keep state, with model-checked and proved
properties. `gk` is a collection of Go packages (caches, retry, forwarding and
capture, service discovery, load balancing, HTTP, SQL, name resolution, SOAP). They
share no process and little code, so the project is one model per component that has
state worth arguing about, refinements where one component is a detailed version of
another, and compositions where components meet. `PROJECT.json` maps every definition
to the lines it models and lists the hazards the properties are for.

## Inventory

| component | state | operations | interacts with | what is hard | what makes it correct |
|---|---|---|---|---|---|
| `gcache` LFU (`lfu.go`) | map, list per frequency, `minFreq` | Get, Set, evict | lock of `ThreadSafeLFUCache` | three structures kept in step over long call sequences; full cache | index agreement, `minFreq` right, capacity, victim |
| `gcache` LRU (`lru.go`) | map, linked list | Get, Set | `RWMutex` of `ThreadSafeLRUCache`, `container/list` | Get writes under the shared lock | list intact, capacity, victim |
| `gcache` TimedCache (`timed.go`) | map with expiry, stop channel | Set, Delete, Close, sweep | ticker, background goroutine | Close races the goroutine's select | expired entries go; Close ends the goroutine |
| `gcache` MemoryCache (`memory.go`) | map of shared items | Get, Set, Delete, Expire, Increment, Close, sweep | ticker, goroutine, callers | Get works in three steps with the lock released; Expire writes shared items | no dead value returned, expired go, never-expiring stay |
| `gcache` Redis, Valkey | the server's | commands on strings, hashes, lists, sets; expirations | server | durations in whole seconds; types; zero | a value lives exactly as long as it was told |
| `gretry` (`retry.go`), delays of `gsd` and `gclient` | one call of `Do`: attempts, error, callbacks | Do, runAttempt, calculateDelay | user function, context, timer, callbacks | abandoned calls of fn; context against answer; overflow of delays | no overlap, truthful result, delays that back off |
| `gnet/forward` UDP (`udp.go`) | session map, channel and goroutine per session | Start, handler, receiver, cleaner, Close | socket, tickers, five kinds of goroutine | three parties end a session; packets after lookup; Close at any time | mapped sessions are served, packets go once, Close drains |
| `gnet/forward` TCP (`tcp.go`) | connections, closed flag | Start, forward, Close | sockets | half-close, failed writes, reads that are not frames | nothing lost in the middle, both directions end |
| `gnet/capture`, `rawcap` | handles, rings, output, loops | New, Run, Close | kernel, file | shared writer, failures half way, a loop asleep in the kernel | whole packets, nothing left open, Run ends |
| `gnet/pcap`, `pcapng` | file, section, interfaces | writers, readers, FilterCopy | file | sections, byte orders, resolutions, cut files | what is read is what was written |
| `gsd` etcd (`etcd.go`, `retry.go`) | leases, keepAlive goroutines, context | Register, keepAlive, Unregister, Discover, Watch, Close | etcd server | lost answers, leases that run out, goroutines of earlier Registers, watches that break | registered services come back, watchers catch up |
| `gsd` manager and client (`servicediscovery.go`) | cached services, round-robin index | DiscoverAndCache, SelectServiceWithHealthCheck, Close | registry | stale answer against a newer one | the cache goes back in time only for calls that overlap |
| `glb` | instances, indexes, connection counts | GetInstance, refresh, watch, strategies | Discovery | refresh against watch; index after the list shrinks | newest list served, fair turns |
| `gclient` execute | attempt, response, body bytes, shared cache | execute, Build, buildResponse, tryCacheHit, storeCache | executor, middleware, cache, contexts | retries of a body read once; two contexts; outcome against cancellation | same request, truthful result and cache |
| `gclient` settings | maps behind an `RWMutex`, cookies behind a mutex | setters, R, Clone | goroutines | recursive read lock, shared maps, two locks | own maps, one moment for what the `RWMutex` guards, no older cookies, one way to block |
| `gclient` WebSocket, SSE | connection, event being read, reconnect state | Connect, Dial, SendMessage, Stream, StreamChannels | server, handlers | breaks inside an event or a line, senders against Connect, heartbeats | whole events in order from one cut id to the next, one connection, an end when told |
| `gserver` | pooled contexts and writers, route trees, chains | FastHandler, Next, Abort, Reset, AddRoute, find | fasthttp | reuse of contexts, re-entrant Next, backtracking | nothing leaks, each handler once, right route |
| `gsql` | transaction depth, savepoints, applied versions, parts of a statement | TxContext, NestedTxContext, Run, ToSQL | database | failure or panic between steps; two processes; placeholders | all or nothing, each migration once, values where they belong |
| `gresolver` | configuration, round and server of a lookup | LookupIPAddr, LookupCNAME, exchange | DNS servers | lost, late and foreign answers | no wrong answer, no early end |
| `gws` | request, envelope; schemas, bindings | Do, servePOST; ParseFile, Generate | HTTP, files | an envelope and a body both set; circles of imports | the caller is told what happened; generated code fits the WSDL |
| `ghttp/codec`, `gconfig`, `glog`, `gotel`, `gerr`, `gcodec`, `gcompress`, `gcrypt`, `grx`, `gnet` layers and interfaces, `cmd`, `example` | none that interleaves, or that of libraries | | | parsing, encoding, system calls | not modelled |

## Modules

| module | models | state and actions |
|---|---|---|
| `BoundedCache` | the promise of every cache of `gcache` | abstract: one map `store`; Overwrite, Insert into room, Replace in a full cache |
| `LFUCache` | `lfu.go` | `cache`, `freqToList`, `minFreq`; `recency` is a history variable. One action per call (the wrapper's lock is exclusive); Set is SetPresent or SetAbsent, which contains `evict` |
| `LRUCache` | `LRUCache` of `lru.go` | the list as a sequence; abstract specification of the next |
| `ThreadSafeLRUCache` | `ThreadSafeLRUCache`, `container/list` (external) | the ring of next and prev pointers; Get takes the shared lock and then makes the six assignments of `list.move` one step each; Set is one step that needs the lock free |
| `TimedCache` | `timed.go` | Set, Delete and Close are one step each (exclusive lock); the goroutine: evaluate the operands of select, take a case, sweep |
| `MemoryCache` | `memory.go` | Get in three steps (read, judge, delete), Expire in two (its write can be seen half done), the sweep in two (clock, then lock) |
| `RemoteCache` | `redis.go`, `valkey.go` | one key of an external server; one action per command. Time has two ticks to a second, so that what a client cuts off is seen |
| `Retry` | `Do` and `runAttempt` of `retry.go` | one action per stretch of `Do` between two places where something else can happen; calls of fn are processes of their own that may outlive `Do` |
| `Backoff` | the delays of `gretry`, `gsd` and `gclient` | operators, which `Retry` extends; a power is the loop of `mathPow`, a random choice a set of outcomes, a `time.Duration` an integer of `Width` bits |
| `UDPBridge` | `udp.go` | a handler process per packet, a receiver per session, Start, the cleaner, Close. The lookup of a session and the queueing on it are two steps, as are a receiver's select and the work it chose. Of times only "idle for longer than the TTL" is kept |
| `TCPBridge` | `tcp.go` | one loop per direction (check, read, write); a stream is a sequence of heads and bodies and a read ends between any two |
| `Capture` | `capture.go`, `rawcap_linux.go` | New one interface at a time, a loop per interface, Close at any time; resources are members of a set |
| `Pcap`, `PcapNG` | the two file formats | writer, file of records or blocks, reader, FilterCopy; the file may be cut anywhere |
| `EtcdRegistry` | `etcd.go` without Discover and Watch, `retry.go` | one service, one caller, one keepAlive per successful Register; every request succeeds, succeeds with its answer lost, or fails |
| `ServiceDirectory` | Discover and Watch of `etcd.go`, `servicediscovery.go` | a list of instances is the number of the change that made it; the watch goroutine, its handler, the users of the ServiceManager |
| `LoadBalancer` | `glb` | GetInstance in its steps between locks (look, fetch, store, choose), the watch goroutine, the strategies |
| `HTTPClient` | `execute`, `shouldRetry`, `retryDelay`, `buildResponse`, the cache, `Build`, `prepareBody` | calls that share a client; per call the variables of `execute`; the content type of a request is where it came from, its body whether it is whole |
| `ClientSettings` | `R`, `Clone` and the setters of `Client` | goroutines, the `RWMutex` with waiting writers, maps in a heap; the cookies, which R copies under a lock of their own after it gave the first back |
| `EventStream` | `sse.go`, `stream.go` | an attempt, its lines one by one, the handler or channel, the wait; a connection breaks or ends at any place, and what is left of a line it breaks in is handed out as a line |
| `WebSocket` | `websocket.go` | Connect between two places where something else can happen, a heartbeat per connection, senders |
| `RouteTree` | `radix.go`, `method_matcher.go`, `matcher.go` | the static map, a tree per number of segments and the tree of catch-alls; a node is the sequence of its edges |
| `Server` | `server.go`, `context.go`, `writer.go`, `middleware.go`, `result.go`, `routergroup.go` | set up, then requests one after the other over one pooled context; handlers nest through `running`; a handler writes step by step (`doing`), up to its call of Next or its end |
| `SQLBuilder` | `builder.go` | the parts of a statement; of the text only the placeholders, each with the question mark it stands for |
| `SQLTx` | `tx.go`, `db.go` | nested functions that write, fail or panic; the database's savepoints by name |
| `Migrate` | `migrate.go`, `migrate_source.go` | processes that run the same migrations in transactions; collectors as operators |
| `Resolver` | `default.go`, `parser.go` | one lookup: server by server, round by round; an answer is what of it is judged |
| `SOAP` | `gws` client and handler | the caller's setters, the call, the handler, the answer |
| `WSDL` | `gws/internal/wsdl`, `codegen`, `generate` | a stack of schemas being read, the loader's visited files, then bindings, assets and operations |
| `MCRetry`, `MCCaches`, `MCNetwork`, `MCStreams`, `MCDirectory`, `MCData`, `MCHTTP`, `MCHTTPClient` | | compositions and values for TLC |
| `RetryProofs`, `HTTPClientProofs` | | theorems about Retry and HTTPClient |
| `CachesProofs`, `NetworkProofs`, `StreamsProofs`, `DirectoryProofs`, `DataProofs`, `HTTPProofs` | | theorems about the compositions of the same names |

Definitions whose name has a suffix after an underscore and whose comment begins
with "Mutant" are deliberate faults. They are not used by any specification; each
one, put in the place of the definition it is named after, makes TLC report the
property that is there to catch it. (`Set_` alone is the method Set: `Set` would
read like a set.)

### How the MC modules compose

Most components never meet in a process. An MC module takes a group of them as
instances over disjoint variables, and its variable `part` says which of them runs:
the initial state picks one and the others stay as they were made. So a run explores
the sum of its components' state spaces and not their product, which is all there is
as long as they share nothing. The fairness of a component is stated for the behaviours in which it
runs (`part = ... /\ action`); in `MCCaches` an action of each of two caches stands in
one disjunction, since only one of them is ever enabled. A property
of a component holds trivially in the behaviours of another; each has a mutant of its
own component that breaks it. Where components do meet they are composed for good:
`Retry` judges the delays of `Backoff` in the attempts it makes,
`ServiceDirectory` runs the registry's watch beside the manager's calls,
`LoadBalancer` the watch beside callers and strategy, `Server` the pool beside chain
and writer.

## Runs

Passing runs:

| run | components | bounds and why they are enough |
|---|---|---|
| `retry` | `Retry`, `Backoff`, `EtcdRegistry` | MaxRetries -1, 0, 1, 7; a retryable and a fatal error; six-bit durations, which overflow within seven attempts. Two Registers, two leases, one retry: two keepAlives take the key from each other |
| `caches` | `LFUCache`, `ThreadSafeLRUCache`, `TimedCache`, `MemoryCache` | four keys over three places: evictions at every mix of frequencies up to 4 (a key at 4 can be used no further, which cuts behaviours and adds none). One reader. Timed caches: one key (keys do not interact), ttl 0 or 1, clock to 3, three item identities, so that map and getter hold different items while a new one is made |
| `network` | `UDPBridge`, `Capture` | three packets, one client and the remote, dataChan of 1: a first packet, one queued and one dropped, or three sessions of one sender. One or two interfaces, both formats, with and without file, timeout and ring, two packets each |
| `streams` | `TCPBridge`, `EventStream`, `WebSocket` | two frames each way and reads of up to three units, so that a read holds parts of two frames; three events with the ids 1, 11 and 12, so that an id cut short is empty or that of another event, a channel of one, two reconnections; `maxRetries` of 1, and of 0, which does not limit them; two senders and three connections |
| `directory` | `LoadBalancer`, `ServiceDirectory` | two callers, three lists with the same first address, with a zero weight and an unhealthy instance, four picks; two changes, two users, two calls |
| `data` | `SQLBuilder`, `SQLTx`, `Migrate`, `Resolver`, `RemoteCache`, `Pcap`, `PcapNG` | two Where or Having calls of two arguments; four writes in four nested calls, so that a savepoint name is used again inside and after another; two processes, three runs; two lookups over up to two servers and two rounds; durations of half seconds up to two; three packets in five blocks over two sections |
| `http` | `RouteTree`, `Server`, `SOAP`, `WSDL`, `ClientSettings` | nine routes that compete at every segment, six changes; chains of three handlers and two requests; three setters and two calls; all import graphs over three schema files; three goroutines, two clients, four calls |
| `http_client` | `HTTPClient` | two calls, three kinds of request, two retries, delays and none |

What they show:

| property | in words |
|---|---|
| `NeverTwoAtOnce`, `ResultTruthful`, `CallbacksAgree`, `CancelReturns` (retry) | no two calls of fn overlap; result, error and callbacks agree with what the calls returned; a cancelled Do returns although fn does not |
| `DelaysSound` | only decorrelated jitter passes the maximum, threefold at most; delays do not shrink before they overflow; `gsd`'s and `gclient`'s delays exist for bases from two, and `gsd`'s keep to one and a half times their maximum if that fits |
| `ClosedVanishes`, `EstablishedRecovers` | a closed registry leaves nothing for ever; established registrations come back |
| `ListsAgree`, `EvictsLeastFrequent`, `CachesImplement` | LFU's structures agree, its victim is least frequent and then least recent; LFU refines BoundedCache, the pointer-level LRU refines LRUCache and through it BoundedCache |
| `MemoryKeeps`, `CleanupWorks` | no dead value is returned, no never-expiring item swept; what has expired goes; Close ends MemoryCache's goroutine |
| `UDPForwards`, `CaptureLeavesOrder`, `NetworkEnds` | only served sessions are mapped and no packet goes twice; captures are whole and leave nothing open; Close and cancellation end everything |
| `ForwardedInOrder`, `EventsWhole`, `SocketSound`, `ReturnsWhenTold` | streams without gaps; whole events once and in order over reconnections, beginning anew only after an id that was cut short; one connection at a time, closed under nobody's write; Start, Stream and Connect return |
| `FairTurns`, `StoresNoOlder`, `WatchDelivers` | exact shares in a turn; no list older than the call's beginning; watchers reach the newest list |
| `QuestionMarksBind`, `CommitsWhatReturned`, `MigratesOnce` | values where they were written for, as long as no Having took an argument; exactly the writes of functions that returned nil; each migration once across processes |
| `LookupTruthful`, `KeepsWhatWasSet`, `ReadsBack` | no wrong answer and no early end; lifetimes as told; files read back, over sections, orders, resolutions and cuts |
| `RightRoute`, `RunsInOrder`, `NothingLeaks`, `ResponseArrives` | the most precise route with its own parameters; each handler once and in order; nothing of an earlier request; headers and the logged status arrive |
| `CallTruthful`, `GeneratedFits`, `SettingsSound` | a caller is told what happened; schemas once and under their namespace, operations with their messages, what is published under a location is imported by it; what `mu` guards as it was at one moment and cookies not older, one way to block |
| `SameRequest`, `ResultTruthful`, `GivesUpForAReason`, `CachedWasReturned`, `CancelReturns` (http_client) | attempts alike; results and cache truthful; a call settles for less only with a reason; a cancelled call returns |

Runs that find the code at odds with its own documentation:

| run | what happens |
|---|---|
| `lru_two_readers` | `lru.go:91` promises a thread-safe Get. Two Gets move list elements at once under the shared lock and break the list |
| `timed_close` | `timed.go:88`: "Close stops the background cleanup goroutine". A Close during a sweep leaves the goroutine selecting on a nil channel |
| `udp_panic` | `udp.go:206`: the cleaner cleans up expired sessions. It closes a channel that the session's receiver, past its own check, closes again |
| `etcd_ghost` | `etcd.go:145`: Unregister. The keepAlive of the Register puts the key again |

Met while modelling, and visible in how the properties are stated:

- `memory.go:51`: a Get that found an expired item deletes the key later, whatever
  a Set put there meanwhile. `MemoryKeeps` lists it as a way out.
- `valkey.go:97`: durations are cut to seconds, and zero seconds delete the key.
  `KeepsWhatWasSet` asks of Valkey, and of Expire, for whole seconds only.
  `valkey.go:205` speaks of the last element, `:207` pops the first (LPOP).
- `retry.go:389`: jitter comes after the maximum. `DelaysSound` says how far. In
  `gsd/retry.go:68` and `gclient/retry.go:24` Int63n panics for delays under two and
  after an overflow; `DelaysSound` excludes both. `gsd/retry.go:69` adds the jitter to
  the maximum, so a maximum over two thirds of the longest duration can wrap; the proof
  of `Delays` found that the property has to exclude it too.
- `udp.go:128`: a packet read before Close makes a session after it; `NetworkEnds`
  shows that its goroutine ends at its first idle tick all the same.
- `udp.go:166`: packets of the remote are sessions like any other and go back to
  the remote. `UDPForwards` counts them too.
- `tcp.go:194`: a read is not a frame. Heads are converted only when a read begins at
  one; `ForwardedInOrder` says so for directions whose reads were whole frames.
- `capture.go:188`: a loop asleep in the kernel does not see a cancelled context;
  `NetworkEnds` is about captures with a read timeout. `rawcap_linux.go:74`: a ring
  stays mapped when a later step of configure fails; `CaptureLeavesOrder` excepts it.
- `pcapng/filter.go:25`: the map of interface ids is kept over sections, against the
  comment at `:12`; `ReadsBack` asks for FilterCopy of one section.
- `etcd.go:117`: keepAlive gives up for good if it fails before its first renewal
  channel. `EstablishedRecovers` assumes one. `etcd.go:204`: a change between a
  Discover and the next watch waits for the one after it; `WatchDelivers` excepts it.
- `glb/loadbalancer.go:107`: first callers may put an older list over a watched one;
  `WatchDelivers` excepts them.
- `gclient/client.go:532`: R takes the read lock twice and can wait for ever behind a
  setter. `SettingsSound` shows that nothing else can.
- `gclient/client.go:829` and `:854`: with a request timeout the backoff wait
  watches a context that is cancelled already, so the retry is normally not made.
  `GivesUpForAReason` lists it.
- `gclient/request.go:757`: a retry does not repeat the content type that the first
  attempt derived from the body. `SameRequest` excepts it.
- `gclient/client.go:553`: R copies the cookies after it gave `mu` back, so a SetAuthToken
  and a SetCookie in between give a request the old token with the new cookie.
  `SettingsSound` asks for one moment of what `mu` guards, and of the cookies that they
  are not older. `request.go:680` adds the client's cookies of the time of sending to
  those of the request, which is not modelled.
- `gclient/stream.go:86`: the context of a request timeout is cancelled as soon as the
  response is there, so a stream with a timeout breaks; in `EventStream` that ends
  Stream with the context's error, as in the code. `sse.go:406`: the id counts before
  its event is whole, so a break in between loses the event; `EventsWhole` excepts it.
- `gclient/sse.go:374`: bufio.Scanner hands out what a broken connection left of a line.
  Of `id: 12` that can be `id: 1`, which is stored, and the reconnection asks for what
  follows 1: events come again. `EventsWhole` says that this is the only way: from one
  id cut short to the next every event comes once and in order, and what is left of a
  line never becomes part of another event.
- `rawcap_linux.go:124`: a read of a handle that was closed beside it (EBADF) ends a loop
  without an error, unlike other failures; `Capture` has both. `udp.go:164`: a write to
  an open socket that fails is logged and the packet is lost; `UDPForwards` asks that
  no packet goes twice, not that each one goes.
- `gsql/builder.go:462`: numbered placeholders, and slices that are not the first
  argument, are bound to the wrong values. `gsql/builder.go:116`: a Having replaces the
  text of the one before and leaves its arguments. `QuestionMarksBind` excludes them.
- `gsql/tx.go:90`: a ROLLBACK TO that the database refuses is ignored and its writes are
  committed. `CommitsWhatReturned` excludes it.
- `gresolver/default.go:21`: the default timeout is 5 nanoseconds; `Resolver` has it as
  one of its timeouts, with which reads fail.
- `gws/internal/wsdl/assets.go:52`: assets are keyed by the location as written, so of
  two schemas imported under one name from two directories one is published under it.
  `GeneratedFits` asks that whatever is published under a location is imported by it,
  and that of the locations a reachable file is imported by one at least is published.

### Deadlock

Deadlock is not checked (`CHECK_DEADLOCK FALSE`): in every run some component really
ends. A call that returned, a bridge that is closed and drained or has panicked, a closed
registry, a database after its last run. Where being stuck is the question, a property
asks it (`SettingsSound`, and every property that something returns).

### Fairness

- `TimedCache`, `MemoryCache`: the ticker fires and the goroutine is scheduled
  (weak fairness). A select with two ready cases chooses at random, so each case
  that is ready again and again is taken (strong fairness), and `sync.RWMutex` does
  not starve a waiting writer (strong fairness of the sweep). Nothing is asked of
  the callers.
- `Retry`: Do goes on while it can. Nothing is asked of fn, the caller or timers.
- `UDPBridge`: a receiver out of its select goes on, takes its tick at some time,
  and an untouched session becomes idle. Nothing is asked of packets and handlers.
- `Capture`: loops run and read timeouts expire; packets need not arrive.
- `TCPBridge`: loops run. Nothing is asked of the peers.
- `EventStream`: Stream goes on, a wait ends, and a body is closed by the transport
  once its context is cancelled. Nothing is asked of the handler and the channel's reader.
- `WebSocket`: Connect goes on whenever it gets the lock (strong fairness: `sync.Mutex`
  does not starve), senders end their writes (they have a write deadline), heartbeats
  see their end.
- `EtcdRegistry`: calls and goroutines go on; a lease that nobody renews runs out; a
  request repeated for ever is answered at some time, without which nothing
  recovers; a renewal channel closes once its lease is over.
- `LoadBalancer`, `ServiceDirectory`: the watch goroutine runs.
- `HTTPClient`: the goroutine goes on; an executor answers once the context is done.

## Proofs

`RetryProofs` proves, for every set of `MaxRetries` values (negative ones included),
every set of errors and every `ShouldRetry`:

| theorem | property |
|---|---|
| `TypeCorrect` | `TypeOK` |
| `OneAtATime` | `NeverTwoAtOnce` |
| `Bounded` | `AttemptsBounded` |
| `Truthful` | `ResultTruthful` |
| `Callbacks` | `CallbacksAgree` |
| `Delays` | `DelaysSound` |

The assumptions are `RetryConstants`: limits are integers, and the values that stand
for nil, the context's error, the final error and fn's errors are different; and
`BackoffConstants`: a duration has a bit at least, delays and maxima are not negative,
multipliers are positive.

None of the properties is inductive. That no two calls of fn overlap, for example,
needs that an attempt is abandoned only with a context that is done, and that none
is begun afterwards. The inductive invariant `IInv` is the conjunction of `TypeOK` and

- `Progress`: how the loop variable, the number of attempts and the number of
  `OnRetry` calls are related at every place of the loop;
- `Calls`: while the context is not done, fn runs only while Do waits for it;
- `History`: while the context is not done, every earlier attempt failed and the
  one being judged, whose error is what the result will have, is judged by its own answer;
- `Ended`: callbacks that end the call come at its end, and a success leaves no
  call of fn behind.

`InitInv` and `StepInv` show that it holds at first and is kept by every action,
`Invariant` combines them, and each theorem follows. `Delays` is about every attempt,
every width of a duration and all options; it rests on what `mathPow` computes
(`PowerNext`: a power is the base times the power before), on the range in which a
conversion and a multiplication change nothing (`InRange`), and on one lemma per package.

`HTTPClientProofs` proves, for any number of calls that share a client, all kinds of
request, every `MaxRetries`, delays or none, and any `RetryConditions`:

| theorem | property |
|---|---|
| `BoundedSends` | `SendsBounded` |
| `Alike` | `SameRequest` |
| `Truthful` | `ResultTruthful` |
| `Reasoned` | `GivesUpForAReason` |
| `CacheTruthful` | `CachedWasReturned` |

The assumption is `ClientConstants`, the types of the constants. The inductive
invariant is typing, `CachedWasReturned` and, for each call, `Counting` (the requests
sent against the loop variable, place by place), `Sending` (what was sent, what
`bodyBytes` and the reader hold, and so what the next Build sends) and `Holding` (which
attempt `resp` and `lastErr` belong to). One lemma per action shows that it is kept;
`Untouched` carries the calls that did not move. `CachedWasReturned` needs `Holding`
to know whose response `storeCache` stores.

The other proof modules extend the compositions, so that their theorems are about the
same `Spec`, and the same properties, as the runs. A component's invariant says nothing
of the others' variables, and a step of another component leaves its own alone; the
step lemma of a component is about its own next-state relation, and the theorem adds
the initial state and the other components.

| module | theorem | property | for every |
|---|---|---|---|
| `CachesProofs` | `LFUSafe`, `LFUEvicts` | `ListsAgree`, `EvictsLeastFrequent` | set of keys and values, capacity, bound on frequencies |
| | `LFUImplements` | LFUCache implements BoundedCache | the same |
| | `LRUImplements` | LRUCache implements BoundedCache | set of keys and values, capacity |
| | `CachesRefine` | `CachesImplement` | set of keys and values, capacity; one reader (`OneAtATime`) |
| | `MemorySafe` | `MemoryKeeps` | finite set of keys and of Gets under way, set of durations, clock |
| `NetworkProofs` | `UDPSafe` | `UDPForwards` | set of packets and clients, capacity of dataChan |
| | `CaptureSafe` | `CaptureLeavesOrder` | number of packets; one interface or two, as in the run |
| `StreamsProofs` | `TCPSafe` | `ForwardedInOrder` | number of frames, length of a read |
| | `EventsSafe` | `EventsWhole` | number of events and reconnections, limits, size of the channel, remains of an id |
| | `SocketSafe` | `SocketSound` | set of senders, number of reconnections |
| `DirectoryProofs` | `DirectorySafe` | `StoresNoOlder` | set of users, number of calls and changes |
| | `BalancerFair` | `FairTurns` | set of callers, number of calls, lists (no address twice) |
| `DataProofs` | `TxSafe` | `CommitsWhatReturned` | number of writes and of nested functions |
| | `MigrateSafe` | `MigratesOnce` | set of processes, number of runs; the run's two directories |
| | `ResolverSafe` | `LookupTruthful` | set of attempts (any integers), number of lookups; up to two servers |
| | `ValuesBound` | `QuestionMarksBind` | number of Where and Having calls and of arguments |
| | `FilesReadBack` | `ReadsBack` | set of writers, interfaces and packets, number of packets and blocks |
| | `RemoteSafe` | `KeepsWhatWasSet` | set of durations and numbers, number of calls, end of time |
| `HTTPProofs` | `ChainsRunInOrder` | `RunsInOrder` | set of handlers, length of chains, number of requests |
| | `PoolsDoNotLeak` | `NothingLeaks` | the same |
| | `WhatWasWrittenArrives` | `ResponseArrives` | the same |
| | `RightRouteFound` | `RightRoute` | set of routes and paths, number of changes |
| | `CallsAreTruthful` | `CallTruthful` | set of services, operations and bodies, number of calls |
| | `SettingsSafe` | of `SettingsSound`: `OwnMaps`, `OneMoment`; `StuckInR` | finite set of goroutines, set of clients, number of calls |

What they assume of the constants is named in the MC modules and evaluated by the runs:
`CachesConstants` (capacities and durations are numbers, the nil values are no ids, keys
and Gets are finite and there is memory for one more item than they can refer to),
`NetworkConstants` (dataChan has room for something, the remote is no client),
`StreamsConstants` (bounds and what is left of an id are numbers, 0 is no sender),
`DirectoryConstants` (a list has no address twice and no negative weight), `DataConstants`
(durations are not negative, and the clock starts before it ends), `PcapConstants` and
`PcapNGConstants` (the fields of packets, writers and interfaces are numbers, and seconds
fit into a file's 32 bits), `HTTPConstants` (goroutines are finitely many, client 1 exists,
a service is a sequence of operations and an element has a name) and `RouteConstants`
(routes that share the place of a parameter agree in its name). `CachesRefine` assumes in
its statement that there is one reader (`OneAtATime`): with two, `lru_two_readers` shows
that it is false. `StuckInR` says with the guards of the steps what `StuckOnlyInR` says
with ENABLED: when every call under way waits for a lock, one of them is R, which waits
for its second read lock behind a setter.

What a loop or a search computes over data of any size is written as a recursive function
in the models. That such a function exists, and what it yields, is proved by the least
counterexample: the lemmas called `Least` say that a set of numbers that is not empty has
a least element (from the library's WFMin and NatLessThanWellFounded).

The inductive invariants, and why the properties need them:

- LFU (`LFUInv`): the lists of `ListsAgree` alone do not say whom `evict` takes. The
  invariant adds that `recency` holds each key once and that every frequency's list has
  its order (`LFUOrder`), so the back of a list is its least recent key, and
  that nothing is over capacity.
- LRU (`LRUInv`): the list has an entry for each key of the map, once, and is no longer
  than the capacity. `LRUCache` is the abstract specification of `ThreadSafeLRUCache`, so
  `LRUImplements` is about its own `Spec`.
- The ring of pointers (`RingInv`): once the Get that moves an element has made its
  remaining assignments (`Settled`), next and prev are those of a list that has each key of
  the map once. That list is `LRUCache`'s: its Get is the step in which the move begins,
  and each of the six assignments is a stutter there.
- MemoryCache (`MemInv`): a Get between its lookup and its judgement holds an item that
  was alive when it was looked up, or is expired for good, or is being written by Expire
  (`MemHeld`). Items are never written otherwise once they are in the map.
- UDP (`UDPInv`): each queued packet is in one channel or in the hands of one receiver
  (`Waiting`), no session is in the map under two senders, and one that is being made was
  never there (`NotMadeBefore`, `Mapped`).
- Capture (`CapInv`): only the loop of the first interface writes headers and data apart,
  and while it stands between the two the last entry of the file is its header (`CapFile`).
  What is open is what Close will close (`CapOpen`).
- TCP (`TCPInv`): what was written, what the loop holds and what is still on the wire are
  together what was sent (`TCPDirection`).
- EventStream (`StreamInv`): since the last id that was cut short, every event up to the
  last one passed was delivered or broken off (`StreamHistory`), and what the current event
  has gathered is of the lines read so far, or what is left of the last (`StreamLine`).
- WebSocket (`SocketInv`): what is open at each place of Connect (`SocketPlaces`), and who
  writes holds the lock and writes on w.conn (`SocketLock`).
- ServiceManager (`SDInv`): nothing cached or fetched is newer than the registry.
- Strategies (`FairInv`): what was chosen since the list came into use are whole laps
  around it and a part of one, and the index under the list's first address says where in
  the lap the next choice falls (`LBRecent`).
- Statements (`SQLInv`): an argument has the number of its question mark, no question mark
  is in a Where and in Having, and as long as no Having took an argument each part takes
  the arguments that follow those of the part before it (`RunsOn`).
- Transactions (`TxInv`): the work is the sum of what the running functions are expected
  to have written, and the newest savepoint of each level holds the work below it. As
  `sp1` may exist several times, ROLLBACK TO finds the right one only because levels
  never decrease along the savepoints (`LevelsAscend`).
- Migrations (`MigrateInv`): at each place of Run, what a process has applied in its open
  transaction is what of the sorted migrations it has passed and had not found recorded
  (`ComeTo`); with a DBRecorder the recorded versions are those applied, once each, and no
  two processes have one under way (`RecordedOnce`), which is the primary key of the
  version table. The proof that a run passes every migration rests on `EveryOneSorted`:
  sorting loses none.
- Resolver (`ResolverInv`): the tries made are the rounds before this one times the
  servers, and the servers before this one (`TriesCounted`).
- Handler chains (`ServerInv`): while a chain runs, the index that all loops share counts
  the handlers that were started; a handler that aborts and a Recovery that stops a panic
  put it past the end, and nothing moves it back (`ChainOrder`). What lies in the pools was
  reset (`Pools`). That the logged status is the one sent needs that the logger is done
  only with the index past the end, so that no handler writes after it, and that the
  writer's status is the response's all along (`Sent`).
- SOAP (`SOAPInv`): the request holds the body that was set last (`BodyIsLast`), an
  operation that ran is the first that matches it (`Asked`), and the answer under way is
  what that operation came to (`Answered`).
- Settings (`SettingsInv`): the read lock counts the calls of R, twice while they clone
  the headers (`SettingsLock`); hence no setter writes under a call of R, and what the call
  saw at its beginning is what it hands on (`SettingsSeen`). Its copy is nobody else's
  (`SettingsCopies`), and the cookies of a client are only added to (`SettingsCookies`).
- Redis and Valkey (`RemoteInv`): as long as a value is promised, the server holds it, and
  its expiration is the promised one or later than the end of time.
- pcap (`PcapInv`): unit `2 * i` of the file is the header of packet `i` (`FileIs`), and the
  Reader stands in front of the header of the packet after those it returned.
- pcapng (`NGInv`): in front of each block of the file there is a list of interfaces known
  there (`NGKnown`): the Reader has the one of the block it is at, each packet was written
  for the one in front of it, and a copy's interfaces have the link types and resolutions
  of those they were made for (`CopyIs`).
- Routes (`RouteInv`): a tree's nodes are the beginnings of its routes and of no others, so
  that no branch is dead (`TreeOf`). What a search returns is then shown level by level: it
  is the preferred one of the routes that can be reached, and what it wrote into the
  parameters and did not take back is that route's (`Good`).

Only model-checked:

- liveness, everything that rests on fairness, and ENABLED (`CancelReturns`,
  `EstablishedRecovers`, `CleanupWorks`, `NetworkEnds`, `ReturnsWhenTold`, `WatchDelivers`,
  and `StuckOnlyInR` as it stands in `SettingsSound`);
- `GeneratedFits`: what the community modules' FlattenSeq and SelectSeq make of lists of
  any length; the inputs of its run are all import graphs over three files.

## Not modelled

- `ghttp/codec`, `gconfig`, `glog`, `gotel`, `gerr`, `gcodec`, `gcompress`, `gcrypt`,
  `grx`, `cmd`, `example`: glue around libraries without state of their own, or a
  map behind one lock.
- `gnet` layers, link, route, addr, ethtool, netinfo: decoding of headers and system
  calls in which nothing interleaves. Handles of other systems than Linux.
- The text of generated code and of SQL beyond placeholders; scanning rows, binding
  requests, templates, the setters of a request: reflection and assignments.
- Start and shutdown of the HTTP listener, TLS and dialer settings. Of the pooled context
  its values, parameters, request context and headers are modelled; fullPath, queryCache,
  logger and codec are not.
- Read-only methods (Len, Stats) and logging.
- Values, payloads and addresses beyond what a property tells apart.

## Plan

Done: every component above whose state the code keeps itself, and the theorems above.
What is left is the proof of `GeneratedFits`, for which the concatenation of the lists of
parsed schemas has to become a recursive function of the model. Liveness stays with TLC.
