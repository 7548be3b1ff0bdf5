# Couper in TLA+

Couper is a gateway: it takes HTTP requests, checks them against access
controls, sends requests of its own to backends along the blocks of an
endpoint, and builds a response of what comes back. This directory holds
TLA+ models of it, from the configuration's files to the bytes the client gets,
the instances TLC checks, and proofs for TLAPS. All line numbers are those of
`src/`.

```
tlc -workers 2 -config Watch.cfg Watch.tla     # one run; see the table of runs
tlapm WatchProofs.tla                          # the proofs of one component
```

## 1. Inventory

What the system is made of, the state each part keeps, and what must hold.
"Hard" names what tests hardly reach.

| Part | Source | State | Operations | Interacts with | Hard | Must hold |
|---|---|---|---|---|---|---|
| Watching and reloading | `main.go`, `command/run.go`, `configload/file` | known modification times, retry counters, the running command, `errCh` | tick, stat, notify, load, dry run, restart, drain, signal | everything below, through the configuration's context | the main loop, the watcher, the command and the user move independently; the files are read twice per reload | one command at a time; no change is lost; a reload that stops the command starts the next |
| Configuration | `config/configload/`, `config/sequence`, `config/runtime/` | the merged tree, the sequence of backends, the routes | load, merge, replace environments, validate, prepare backends, make routes | everything | several files override each other; references; Go maps without order | the last definition counts; references first; every error is reported; order of maps does not matter |
| Servers and listeners | `server/http.go`, `handler/health.go` | listeners, `shutdownCh`, requests in flight | listen, serve, mark unhealthy, shut down | command, mux | delay and timeout against requests and against the next command's listen | no request is lost before the timeout; ports are closed before the next command |
| Routing | `server/mux.go` | sorted routes, fixed after start | find a handler | access control, endpoint, file, spa | overlapping patterns; fallback to API error, file, SPA | the most specific route wins; what lies below a protected API is protected |
| Access control | `handler/access_control.go`, `accesscontrol/`, `oauth2/` | configuration; users, keys; what earlier controls left in the context | validate, grant permissions | error handlers, JWK sets, OIDC | many ways to get it almost right; permissions through maps with cycles | the protected handler runs only after every control; the first failing control's handler answers |
| JWK sets, OpenID configurations | `json/synced_json.go`, `accesscontrol/jwk`, `oauth2/oidc` | document, error, timers, backoff | fetch, answer readers, drop | JWT, OIDC | overlapping timers, blocking fetch, failing origin | readers are answered; data lives no longer than `ttl` + `max_stale`; recovery |
| Endpoint | `handler/endpoint.go`, `handler/producer`, `config/sequence`, `configload/endpoint_sequence.go` | channels between blocks; the tree of items | build the order, produce, pass results | backends | any interleaving of blocks, failures in the middle | blocks run in order, none is lost, the endpoint answers |
| Backend | `handler/proxy.go`, `handler/transport/backend.go`, `probe.go` | health, first origin, timers | round trip, `initOnce`, probe | token authorization, rate limiter, origin | the probe reports while `initOnce` copies; timers race the answer | the threshold; current health; one origin; a timeout is reported as one; fields of one hop stay on it |
| Token authorization | `oauth2_req_auth.go`, `token_request.go`, `cache/memory.go` | stored token, lock, retry counter | get, request, store, retry | backend, memory store | many requests find no token; late 401s; expiry | one token request at a time; newer tokens on retries; bounded retries |
| Rate limiter | `handler/ratelimit/` | counters, ring buffers, a lock | offer, check, wait, release | backend | late timers, callers that give up while waiting | no interval of a sliding window holds more than `per_period`, no period of a fixed one; nobody waits without need; callers come back |
| Memory store | `cache/memory.go` | map with expiry | get, set, delete, collect | token authorization, OIDC | expiry at the boundary | nothing is returned after its expiry |
| Error handling | `errors/`, `config/runtime/error_handler.go`, `handler/error.go` | kinds, handlers | pick a handler for a kind | access control, endpoint | handlers at two levels, super kinds, errors of error handlers | the closest handler answers |
| Middleware, modifiers, response writing | `handler/middleware/`, `eval/http.go`, `server/writer/` | header buffer, gzip, cookies | modify, write, flush, hijack | endpoint, proxy | four levels of modifiers against CORS, private caching, compression | CORS and privacy are the gateway's decision; the body is what its header says |
| Jobs | `definitions/job.go` | a ticker | run an endpoint | endpoint | runs may overlap | - |
| Evaluation, logging, telemetry, commands, TLS | `eval/`, `logging/`, `telemetry/`, `command/`, `internal/` | data | - | everything | - | - |

How they meet: `main` loads a configuration and executes a command; the command
builds one handler tree per port (mux, access control, endpoint) and starts
goroutines that live as long as the configuration's context: probes, JWK sets,
rate limiters, the store's collector, jobs. A request passes the middlewares,
the mux, access control and endpoint; the endpoint runs its blocks concurrently;
each sends a request through its backend, which asks the health, the token
authorization and the rate limiter first. The answer goes back through the
modifiers of proxy, endpoint, api and server, and through the response writer. A
reload ends the context and builds everything anew.

## 2. Modules

Concurrent components, each with processes of its own:

| Module | Models | State and actions |
|---|---|---|
| `RateLimiter` | `ratelimit/limiter.go`, `config.go` | `call` is where each caller of `RoundTrip` is, `tripper` where the goroutine `slowTripper` is (select, passing, sleeping), `mu` its lock, `count`, `periodStart`, `ring` the fields of each limit. One action for each `select` case and each stretch between two blocking points. |
| `RingBuffer` | `ring_buffer.go` | `put` and `get` as operators on a record with both indices. |
| `SlidingWindow` | what `rate_limit.md` promises | abstract: a request may pass when the one `PerPeriod` places before it is a period old. Refined by `RateLimiter`. |
| `SyncedJSON` | `json/synced_json.go` | `loop` is where `sync` is; the timers count down or are `Never`; readers queue on `dataRequest`. |
| `Sequence` | `endpoint_sequence.go`, `sequence.go`, `runtime/endpoint.go` | the loading of an endpoint: `parent` and `deps` of each `Item`, one action per `Add`, and the items the endpoint waits for. |
| `Endpoint` | `handler/endpoint.go` | extends `Sequence`: one process per block with its input and output channels; `produce` waits for the items `Sequence` has built. |
| `BackendHealth` | `backend.go` (health, `initOnce`), `probe.go` | the probe goroutine, the backend's copy of its state, and the requests that race for `sync.Once`. |
| `MemoryStore` | `cache/memory.go` | its methods as operators. |
| `TokenAuth` | `oauth2_req_auth.go`, the retry loop of `Backend.RoundTrip` | extends `MemoryStore`: one process per request through `GetToken`, the request and `RetryWithToken`. |
| `RoundTrip` | `withTimeout` and `innerRoundTrip` of `backend.go` | `call` is the request in the transport, `guard` the goroutine that waits for a timeout, `timer` and `resetter` the measuring of the first byte, `canceled` and `cause` the context. |
| `Watch` | `main.go`, `run.go`, `file.go` | watcher, main loop, command and the directory; `reloadCh` is a rendezvous, `errCh` a buffer of one. |

From the files to the handlers, as pure operators and one module of steps:

| Module | Models | Contents |
|---|---|---|
| `Blocks` | `config/body` | blocks with attributes, labels and place, and the helpers the loader is built from. |
| `Paths` | `utils/path.go`, patterns of the mux | joins, and which path a pattern matches. |
| `Merge` | `merge.go` | blocks of the same label merged, defaults and settings overridden: any number of files become one body. |
| `MergeChecks` | `environment.go`, `merge.go` | environments replaced before files are merged, and what merging refuses. |
| `MergedFiles` | `load.go`, `merge.go` | `bodies` and `conf`: the files and what they are merged into; what files say, place by place, and which files the types of `config` can decode. |
| `Validate` | `validate.go`, `helper.go` | the set of reasons for which a body of definitions or servers is refused. |
| `ValidateServers` | `endpoint.go`, `error_handler.go`, `helper.go` | what the loader refuses of servers, apis, endpoints and error handlers when it refines them. |
| `BackendOrder` | `helper.go`, `config/sequence` | `prepared`: which backends refer to which, and the order in which they are prepared, for every order of the Go maps; circles. |
| `Backends` | `configload/backend.go`, `runtime/backend.go` | the backend that a block refers to or refines, and which blocks use one. |
| `Routing` | `runtime/server.go`, `endpoint.go`, `server/mux.go` | hosts, ports and routes, catch-all endpoints, the route of a path. |
| `Mux` | `server/mux.go` | `request` and `answer`: the mux of the servers that run, with fixed routes, asked for one path after another. |
| `Configuration` | `load.go`, `helper.go`, `NewServerConfiguration` | `stage`, the bodies and what has become of them; one action for each step of loading, each of which refuses the configuration or hands it on; last, one request is routed. |

A request through the gateway:

| Module | Models | Contents |
|---|---|---|
| `Headers` | `eval/http.go`, `middleware/cors.go`, hop-by-hop fields | a header is a function from fields to sequences of values; modifiers, CORS, cookies. |
| `Writer` | `server/writer/` | `Response` around `Gzip`: what changes when the header is written. |
| `ErrorKinds` | `errors/`, `runtime/error_handler.go`, `handler/error.go` | kinds, super kinds, and the handler that is found. |
| `Controls` | `accesscontrol/`, `oauth2/` | the verdict of JWT, basic authentication, OAuth2, OIDC and SAML on a request, permissions, methods. |
| `Chain` | `runtime/server.go`, `runtime/error_handler.go` | the handlers around the route of a request, and those of its errors. |
| `Upstream` | `handler/producer`, `handler/proxy.go`, `backend.go` | the request that goes out, and what is made of the answer. |
| `Gateway` | `server/http.go`, `handler/` | `stage` is where the request is, `req` and `outreq` the requests in and out, `beresp` and `w` the answers, `failed` and `err` what went wrong; one action for each handler, and the actions of `RoundTrip` between sending and answer. |

`MCRateLimiter`, `MCEndpoint`, `MCConfiguration` and `MCGateway` give the
instances their values; the `*Proofs` modules hold the theorems of their
component, `ConfigurationProofs` those about `BackendOrder` and `MergedFiles`,
`GatewayProofs` those about the mux and the operators from `Headers` to `Chain`
as well. Each of the two proves the few lemmas about lists and sets of numbers
that it needs and is checked by itself. `PROJECT.json` maps every definition to
its lines.

Composition: `Configuration` extends `MergeChecks`, `MergedFiles` (both over
`Merge`), `ValidateServers`, `Mux` (over `Routing`, `Validate`, `Blocks`, `Paths`)
and `Backends` (over `BackendOrder`). `MergedFiles`, `BackendOrder` and `Mux` have
actions of their own that `Configuration` takes on its way: its steps merge the
files, prepare the backends, and ask the mux of the servers that were accepted.
They are modules of their own so that they can be proved about: `MergeChecks` and
`ValidateServers` need `RECURSIVE` operators. `Gateway` extends `Upstream`
(over `Chain`, which joins `Routing`, `Controls` and `Writer`) and `RoundTrip`.
`Endpoint` runs what `Sequence` has loaded, `TokenAuth` runs over `MemoryStore`,
`RateLimiter` over `RingBuffer`, and `RateLimiter` implements `SlidingWindow`.

Common conventions. A stretch of code without a blocking call, a lock or a
channel operation is one action; where a lock is released in between, it is two.
Time is a counter of ticks; in `RoundTrip` it is only the order in which timers
and events happen. Ghost variables, marked "history" in the declarations, are
read by no guard. `Cancel`, `Quit`, `Revoke`, `Tick`, `Change` and `Signal`
stand for the surroundings. Texts (names, labels, fields, paths' segments) are
strings that are compared and ordered (constant `Lexical`), never taken apart.

Abstractions of `Configuration` and `Gateway` that a reader should know:

- The code ranges over the apis of a server in map order; the merged apis here
  are in the order of their labels. Only the choice among several errors depends
  on it. Where the order of a map decides something (the backends), it is free.
- A token is a record with its key, algorithm, age and claims; a signature fits
  or does not. A document of an OpenAPI specification is satisfied or not, as the
  answer says. Passwords are compared, hashes are not computed.
- An endpoint of `Gateway` has at most one proxy or request block; several of
  them, and their order, are `Endpoint`'s. An attribute `buffers` of an endpoint
  stands for the decision of `eval/buffer` whether a body is read beforehand.
- An error handler that sends a request of its own starts a new measurement
  (`Renew`); goroutines that linger from the first are not followed any more.
- Not followed: an upgraded connection after the upgrade, custom logs, metrics,
  traces, the form of a token request.

## 3. Runs

| Run | Instance | Shows |
|---|---|---|
| `RateLimiter` | a fixed limit (4 ticks, 2 requests, block) before a sliding one (3 ticks, 2 requests, wait), 3 callers of whom two may give up, timers up to 1 tick late, 4 ticks | `ImplementsSlidingWindow`: refinement of the abstract window; `RingHoldsLastReleases`; `DelayedOnlyWhenExhausted`: who waits or is refused has a full window before it; `AnsweredUnlessLockIsLost`: nothing but a lost lock keeps who is taken from the queue from its answer |
| `RateLimiterFixed` | fixed limits (4, 2, block) and (2, 1, wait), 3 callers, timers on time, 5 ticks | violation of `FixedWindowsRespected`, see section 6 |
| `RateLimiterCancel` | one sliding limit (3, 2, wait), one caller may give up | violation of `TakenIsAnswered`, see section 6 |
| `SyncedJSON` | 2 readers, TTL 3, max_stale 1, backoff cap 2, 2 documents, slow fetches | `RefreshIsDue`, `ReadersAreAnswered`, `Recovers` (an origin that stays up is served for good) |
| `SyncedJSONStale` | 1 reader, TTL 3, max_stale 3 above the backoff cap 2 | violation of `DroppedWhenDown`, see section 6 |
| `Endpoint` | 3 blocks, every set of references among them in every order, every outcome of every round trip | `OnlyCyclesAreRefused`, `EveryBlockIsAwaited`, `ExecutedSequentially`, `DependentsFailAsSequence`, `EndpointAnswers` |
| `BackendHealth` | 3 requests, one that ignores the health, threshold 2 | `ThresholdRespected`, `HealthIsCurrent`, `OriginIsPinned`, `HealthSettles` |
| `TokenAuth` | 2 requests, one with a body, 1 retry, lifetimes 2 and 0, 4 tokens | `OneTokenRequest`, `StoredIsNewest`, `AttemptsAreNewer`, `DeniedAfterRetries`, `Returns` |
| `Watch` | 2 file names, 3 changes of the directory, 2 retries | `OneCommand`, `KnownIsLoaded`, `ModificationsAreLoaded`, `RestartEnds` |
| `Configuration` | some 2500 configurations, with and without `COUPER_ENVIRONMENT`, 13 paths | `LastDefinitionCounts`: two files that override each other at every level; `ReferencedFirst`: backends in every map order; `UnknownPathsAreGuarded` and `LiteralRouteAnswers`: overlapping apis, endpoints, files and spas |
| `ConfigurationErrors` | the same | violation of `ErrorsAreReported`, see section 6 |
| `Gateway` | 64 requests through 23 configurations, every answer of the origins and providers, whatever earlier requests have left in parsers and ACS URLs, every order of timers, answer and client's leaving | `OnlyAuthorized`, `PermissionsAreGranted`, `PrivateStaysPrivate`, `CorsIsOurs`, `HopsStayHops`, `EncodingMatchesBody`, `HandlerIsClosest`, `TimeoutsAreReported`, `RequestsEnd` |

Type invariants are stated in the modules of the concurrent components and are
proved (section 5); the operators of the others fail in TLC on a value of the
wrong form.

**Why the bounds are enough.**
Three callers against two places fill the window, wait, and reuse the ring
buffer's slots; both limits of a pair can be exhausted at once. Three
blocks are the least with an item that has two parents, and with a chain. Two
requests and one retry reach every order of 401, deletion, refresh and expiry;
4 tokens allow each of them its two. Three changes of the directory allow one
while a reload is under way and another after it; a rename needs two names.

The inputs of `Configuration` are five families, each the product of what can
meet: what two files say about a server and an api, each part of it in one, the
other, both or neither; three backends whose authorizers refer to each other in
chains, diamonds and circles; base paths at two levels with access controls at
two levels, seven sets of endpoint patterns that overlap and five sets of files and
spas; one configuration for every reason to refuse it; environments. The 13
paths have one below, at and beside each base path.

The configurations of `Gateway` are in five groups: an api behind a JWT with
CORS, permissions and modifiers at all four levels; logins with OIDC, OAuth2, basic
authentication and SAML, with an ACS URL that is absolute or relative, and two
JWT blocks whose audience and issuer are the same, different, or different and
the same once they are joined by a colon; backends with each timeout, with
handlers for their errors at endpoint and api, some of which fail themselves;
everything about bodies (packed, too long, forms, websockets) and paths, files
and spas; and controls whose configuration is refused. The requests carry right,
old, forged and incomplete tokens and responses. One request at a time is
enough: what requests share is in other modules (tokens, health, limits), or is
what earlier ones have left, any of which the control at hand may find
(`KeptParsers`, `KeptOrigins`).

**Deadlock** is not checked in runs whose system may stop: all calls made, the
clock at its bound, the process ended, the configuration refused, the request
answered.

## 4. Fairness

- `RateLimiter`: weak fairness of the limiter's goroutine, of the clock, and for
  each call of leaving once its context has ended and of the transport's answer,
  which the backend's timeout forces. No context is forced to end.
- `SyncedJSON`: weak fairness of the end of a fetch, of both timers' cases and of
  time; strong fairness of answering readers, since `select` chooses at random
  among the cases that are ready.
- `Endpoint`: weak fairness of each block and of the loop that reads results;
  a round trip ends, since every backend has a timeout or a connection that
  breaks.
- `BackendHealth`: weak fairness of the probe and of requests that have begun.
- `TokenAuth`: strong fairness of each request: a lock that becomes free again
  and again is got in the end. Go's `sync.Mutex` hands itself over to a waiter
  after a millisecond.
- `Watch`: weak fairness of watcher, main loop and command. A directory that
  cannot be read is not read for ever: sooner or later it is, or the watcher gives
  up. A command whose context has ended returns after its shutdown times. No
  change, no signal and no outcome of a start is ever forced.
- `Gateway`: weak fairness of the goroutine that serves the request and, one by
  one, of the guard, of the goroutine that resets the timer, of the deadline and
  of what the transport does once its context has ended. Nothing makes the origin
  answer, the transport write, the client stay or go; `RequestsEnd` is therefore
  about backends with a timeout. The first of these conditions writes `ENABLED`
  out as `Ready`, which TLC evaluates much faster.
- `Configuration` and `RateLimiterFixed` have safety properties only.

## 5. Proofs

Safety only, for every value of the constants that the named assumptions of the
modules allow (for instance `LimitsAssumption`: what `config.go` builds).

- `RateLimiterProofs`, in layers. `TypeInv`: types, and no period starts in
  the future. `RingInv` adds that every ring buffer holds the last releases of
  its limit, newest at the write index; its step is a lemma about `put` and
  modular indices (`PutHoldsLast`). `WindowInv` adds `SleepsLongEnough`: a trip
  that sleeps will be woken when the request `per_period` places before it is a
  period old, or it is already. From it `Refinement`: when the shortest limit is
  a sliding one, every step of the limiter is a step of `SlidingWindow` or a
  stutter, however late timers fire; and `ShortestWindowRespected`: requests
  `per_period` places apart are a period apart.
  `HistoryInv` and `CountInv` say that releases are in order and in the past, and
  that a fixed limit never counts more requests than were released since its
  period began; with `RingInv` they give `DelayedForAReason`. Fixed windows:
  the limiter looks at the window before the wait and counts after it, so what
  `rate_limit.md` says of them is true of limits that all block, with timers on
  time (`FixedWindowsHold`), and of no others: see deviation 2 in section 6. How
  far it is off is `FixedWindowsOverrunByOne`: by one request, if every limit
  shorter than a fixed one blocks. `FixedInv`, from which both follow, says that
  the window that is over and the one that is being filled hold no more than they
  may (`Slack` more where requests sleep), and that a trip that sleeps for a fixed
  window sleeps past its end. The assumption about shorter limits is needed: one
  that waits replaces the waiting time of the longer one (`limiter.go:155`), and
  what holds then depends on the numbers.
- `SyncedJSONProofs`. `TypeCorrect`, and `RefreshAlwaysDue` from `RefreshInv`:
  the backoff stays below twice its cap, and no timer is set beyond that or the
  TTL.
- `EndpointProofs`, loading: about any blocks and any references, without
  induction over the graph: `Reachable` is the least closed set of names, and a
  graph has no cycle when every set of names has one that refers to none of them.
  `LoadInv` says what `parent` and `deps` mean while items are added;
  `OnlyCyclesRefused` and `BlocksAreAwaited` follow. Serving: `ServeInv` builds on
  it, with a part for each place a result passes: what was sent has been made
  (`SentIsMade`), a block that is done has sent on each of its channels
  (`DoneHasSent`, `PassedOnFails`), what was read has arrived (`ReadHasArrived`), a
  block begins with all that it depends on (`DepsArrived`), and fails for an error
  (`FailsForError`). From it `SequentialExecution` and `FailuresAreSequences`.
- `BackendHealthProofs`. The invariant adds that one request at a time is in
  `initOnce` and that what it copied is a valid state; from it
  `ThresholdIsRespected`, `HealthAgrees` and `OneOrigin`.
- `TokenAuthProofs`. The lock is held between the second look and the return
  (`LockInv`), nobody asks while a token is stored (`MissingInv`), the token on
  its way is the newest and unknown to all others (`KnownInv`), what a retry can
  find is newer than what it was denied (`FreshInv`), and one token is denied on
  each attempt (`CountInv`). From them `OneAtATime`, `NewestIsStored`,
  `RetriesUseNewerTokens` and `DeniedOnlyAfterRetries`.
- `WatchProofs`. `OneCommand` is not inductive: `CommandInv` adds that `errCh`
  is filled exactly when the last command has returned, which is why draining it
  suffices. `KnownIsLoaded` needs `TimesInv` (no time lies in the future, so a
  load catches up with all that is known) and `RoundInv` (a round looks at known
  files only). From them `OneCommandAtATime` and `NoChangeIsLost`.
- `ConfigurationProofs`. The order of the backends: `ReferencedBackendsFirst` is
  about any finite number of backends with any references and about every order
  of the Go maps. `Grown` says what adding the references of one backend does to
  the items: what they depend on is what they refer to, no more, and once `Add`
  has been through without a panic, no less (`LinkedItems`), wherever
  `hasAncestor` looks. The search through the items is a loop that calls itself;
  `ItemResolves` is the step of an induction over how many items have not been
  seen. A dependency that has been seen is skipped, which is right when it has
  been resolved and wrong when it waits for the item at hand. `Callable`
  excludes the latter: no item that waits (`Open`) is reached from the one that
  is resolved next. That carries over to the next call, since nobody is reached
  from what it refers to where there is no circle (`NotReached`). So whatever is
  resolved has what it refers to in front of it (`ResolvedInOrder`), which lists
  one after another (`InOrderFlattened`) and dropping repetitions
  (`UniqueInOrder`) keep. The hypothesis `IsBackend` says that blocks and labels
  are lists. `StepsExist` gives the loops their values: a function defined step
  by step exists when no step leaves a set. In the run `Configuration` the same
  action `Prepare` is applied to the backends of the definitions it has merged.
  What files are merged into: `LastDefinitions` is about any list of files that
  the types of package `config` can decode (`IsFile`: which blocks and
  attributes there are where, what has a label, and that a server has one `tls`
  block), whatever their blocks and attributes. An `error_handler` that names a
  kind twice is excluded as well: `newErrorHandlerContent` refuses it after the
  merge. `MCConfiguration` assumes `IsFile` of the files that override each
  other (`MergeInputs`), so TLC checks that they satisfy it. `MergeSpec`
  consists of the two steps that `Configuration` takes in `Preprocess` and
  `MergeFiles`; its invariant `MergedInv` says that nothing is merged or that
  `conf` is `Merged` of exactly these files, none of which has a server twice.
  It is inductive at once; the work is in what `Merged` says.
  That work goes from the helpers to the files. A list has *layers* when its
  elements come from one file after another (`Layered`); picking, flattening and
  concatenating keep them (`PickedLayered`, `FlattenedLayers`). Then three ways
  to override: the last block of each key belongs to the last file that has the
  key (the section "Of each key the last"), an attribute has its value of the
  last block that sets it ("Attributes that later blocks overwrite"), and
  certificates without a label are those of the last `tls` block with their type
  (`MergedTLS`). Two blocks replace each other in the code when their keys are
  the same, and in the property when they are of one item (`Item`): type and
  label, pattern, or, for an `error_handler`, the *set* of its kinds.
  `ErrorHandlerKey` sorts the kinds, and that two lists without repetitions have
  the same elements exactly when they are equal once sorted is a lemma on its
  own (`HandlerKeys`). Servers, apis, spas, files and the `tls` of a server are
  *contexts*: several blocks of one item become one. `ContextsSay` lifts what
  holds of the blocks in them to what the context says, for each place, once for
  the contexts of a server and again for the servers. Definitions, defaults
  (where each environment variable is overridden by itself) and settings follow.
  `LatestIs` says that the last to say something under one key, over all places
  at once, is the last at each place, which puts the parts together. The
  property speaks of files that do not contradict themselves (`Unambiguous`); of
  those that do the code takes the later block, or refuses two servers of one
  label.
- `GatewayProofs`, first what the operators of the chain return, preserve and
  bound, and the mux. Header fields; modifiers one after another; the writer and
  its private flag; the answers of the producers; the fields of CORS; the request
  a proxy sends; controls and permissions, with `PermissionsClosed`: what
  `addMappedPermissions` returns is closed under any map of permissions, with
  cycles or without.
  Then the mux. `Precedes` is a strict total order on patterns, so among
  finitely many routes that match there is a first one (`FirstExists`). Nothing
  that matches a literal path precedes it, which gives `LiteralRoutes`. An api
  with access control whose base path is its own has a route that catches every
  path below it, guarded like the api (`CaughtOrCatchAll`, `CatchAllIsGuarded`),
  and that route matches whatever `matchesPath` accepts (`CatchAllMatches`),
  which gives `GuardedPaths`. Both are about `MuxSpec` of any set of servers
  that satisfy `IsServed`: no two of their routes have one pattern
  (`RouteProblems`), routes are finitely many, patterns are made of known
  segments, lists are lists, and an endpoint, told apart by its position in a
  file, is in one api or in none. These are the servers the loader hands on: in
  every state of the run `Configuration` with an answer, the server asked for
  satisfies `IsServed`. It is defined in `Routing`; `Gateway` asks for it of the
  server of each scenario. `PathsAssumption` says that a path that is asked for
  has a segment (HTTP paths begin with a slash), `LexicalAssumption` that texts
  are ordered in a list. `Named`, which drops empty segments, is a recursive
  function; the lemmas about it use induction over sets of numbers
  (`SetInduction`), which the provers can instantiate.
  Last the map of the error handlers: `ExpandedIs` says where the four passes over
  the super kinds end up, whatever the blocks name (a kind has its own handler,
  else that of its super kind, else that of `*`), `LaterOverrides` what the
  endpoint's blocks do to those of its api, `FirstKindDecides` which of the kinds
  of an error is taken.
  Then one section for each property, for all scenarios that meet
  `ScenarioAssumption` (headers and claims are lists of strings, blocks are
  blocks, a configuration without a problem compiles to a chain and a server that
  satisfies `IsServed`).
  - `TripInv`: only a timeout makes the guard send, it sends its reason before it
    cancels (`ReasonIsKept`), nothing is sent before, and an error that the
    transport blames on the guard was the guard's (`CauseIsReal`). From it
    `ReportedAsTimeout`, `ReportedAcrossRequests` for round trips that follow one
    another, and `GatewayReportsTimeouts`, since no other step of the gateway
    touches a round trip.
  - `StageInv` ties the stage of a request to what has failed, and `ControlInv`
    says that every control before the current one has looked at this very
    request and had nothing to say. `OnlyAuthorized` is not inductive without it:
    it says nothing before the last control has been asked, when all of them must
    have been. From it `Authorization`: what each kind of control accepts meets
    what its block demands, whichever parser or ACS URL an earlier request has
    left (`KeptParserIsOwn`: a parser found under the own key is the own one,
    unless another block has an audience and an issuer that read the same). An
    `aud` or `iss` that is configured as an empty string demands nothing, as in the
    code (`Expected`).
  - `PermissionsGranted` from `ControlInv`, `PermissionsClosed`, and `Permitted`,
    which holds where the permission has just been compared.
  - `PlaceInv` says which control refused and which block runs for an error, and
    `WriterInv` that the writer is private since the first control that keeps
    answers private was asked, and what it sent as well, if anybody has written
    its header (status other than 0). From it `PrivateAnswers`: the writer adds
    `private` last, after all modifiers.
  - `CorsInv`: the writer of a route with CORS carries the decision of the route
    from the first step on, and headers of answers never add to it. From it
    `CorsDecisions`, under the hypothesis `Undisturbed`: no modifier of the route
    sets or adds `Access-Control-Allow-Origin` or `-Credentials`, or changes the
    `Origin` of the request. Modifiers are there to override, so without it the
    property does not hold. All 63 scenarios of the run that are served satisfy
    it, 38 of them with CORS. Like the last one it is about answers whose header
    somebody writes (deviation 8 in section 6).
  - `EncodingInv`: until a body is written, the answer in hand is honest about its
    packing and the writer, its status still open, says nothing about packing at
    all (`Unpacked`); without the second, what the origin says and what Couper
    packs itself could add up. `CallInv` says that nobody answers for a round trip
    that is not waited for. From it `PackedOnce`, under the hypothesis
    `EncodesHonestly`: the origins say how their answers are packed and do not
    list `Content-Encoding` among their hops; no modifier of responses of the
    route names it, those of a producer and its backend leave `Connection` alone
    as well and make no 101 of an answer, and no `response` block claims gzip. A
    route may do otherwise, and then says what it wants. All 63 scenarios of the
    run that are served satisfy it, 15 of them with a packed body.
  - `HopInv`: `ResultInv` and `OriginInv` say that the answer of a round trip that
    is waited for is one of the origin's, and `Between` follows the fields of one
    hop through every header on their way. The request keeps its list of
    `Connection` until a proxy has read it, and what a proxy sends has none of the
    client's fields; the header and the modifiers of the writer, what a producer
    got without an error, and what is sent have none of the origins'. The case
    that needs the invariant is an answer 101: it keeps its fields, and the writer
    that it is given to must be the one that is hijacked by the same step, or an
    error handler would write them later. From it `HopsStay`, under the hypothesis
    `KeepsToHops`: the fields are used for one hop and nothing else. No field that
    the client uses for its hop is one that Couper sends itself (`SentFields`), no
    field that an origin uses for its hop is one that Couper says itself
    (`OwnFields`) or that another origin sends without naming it, and none is
    added by a modifier or a `response` block of the route, whose modifiers leave
    `Connection` alone where it has not been read yet. Couper removes these fields
    when it receives them and looks for none later, so a modifier that adds one
    is heard. All 63 scenarios of the run that are served satisfy it, 11 of them
    with such fields in the request and 16 with such fields in an answer.
  - `HandlerInv`: past the permissions the route is that of an endpoint, what an
    endpoint fails with names kinds and never `*`, and the handler that runs is
    the one looked up for the error in the context. `HandlersOfRoute` finds the
    error_handler blocks that the map was made of: those of the endpoint and of
    the one api it lies in. With `FoundIsClosest`, which is about any blocks and
    any kinds, it gives `ClosestHandler`.

  Each of these invariants was first checked by TLC on the run `Gateway`.

Only model-checked:

- liveness, which TLAPS does not support: `AnsweredUnlessLockIsLost`, `Recovers`,
  `ReadersAreAnswered`, `EndpointAnswers`, `HealthSettles`, `Returns`,
  `ModificationsAreLoaded`, `RestartEnds` and `RequestsEnd`;
- the checks that refuse a configuration (`MergeChecks`, `Validate`,
  `ValidateServers`): no property of a passing run is about them, and what recurses
  over nested blocks there (`RECURSIVE`) is out of the provers' reach.

Every safety property of a passing run is stated by a theorem.

## 6. What the models have shown

Deviations with a run:

1. `RateLimiterCancel`: the context of a request ends while `slowTripper` waits
   with it; the loop continues without `l.mu.Unlock()` (`limiter.go:109`), and
   the next request blocks the limiter for good.
2. `RateLimiterFixed`: a fixed window is moved to the period that holds when a
   request is looked at (`limiter.go:138`), and the request is counted after its
   wait (`limiter.go:112`). One that slept into the next period is counted in the
   old one, so that the next period lets `per_period` more through, one more than
   `rate_limit.md:32` permits.
3. `SyncedJSONStale`: every failed fetch sets the invalidation timer anew
   (`synced_json.go:91`). With a `max_stale` above the longest pause between two
   fetches (64 seconds; the default of `jwks_max_stale` is an hour) the timer never
   runs out, and the last document is used as long as the origin is down, whatever
   `jwt.md:61` says.
4. `ConfigurationErrors`: three errors of a configuration end the program instead
   of being reported. For an invalid `bind_address` the wrong variable is
   returned, a nil pointer in an `error` that is not nil (`load.go:150`); a
   backend within the authorizer of a backend that has an authorizer itself
   makes `collectFromBlocks` recurse for ever (`helper.go`); and references in a
   circle, which are found or not depending on the order of a map, recurse when
   the backends are made.

Deviations whose property is defined in the module with no run of its own; add
it to the run's configuration to see the behaviour:

5. `CyclesAreRefused` of `Sequence`: `Item.Add` keeps one parent
   (`sequence.go:32`), a cycle below an item with two is not found, and loading
   recurses for ever.
6. `BackendRecovers` of `BackendHealth`: `initOnce` writes back a health that a
   report has replaced meanwhile (`backend.go:112`).
7. `RetryHasBody` of `TokenAuth`: the request repeated after a 401 has no body
   left (`backend.go:231`).

Deviations that a property of a passing run leaves out, and says so:

8. `PrivateStaysPrivate`, `CorsIsOurs`: an error handler whose
   `set_response_status` is 204 and whose own `request` or `proxy` fails with a
   response, `unexpected_status` for instance. Its template panics
   (`runtime/error_handler.go:88`, `eval/http.go:394`), the handler recovers, and
   since there was a response it writes nothing: the client gets an empty 200 with
   the fields of the error, without the modifiers, the private cache and CORS.
   Without a response the template is called once more and panics again: for
   access controls and permissions that ends the connection, for endpoints it
   becomes the error template with 500 (`Recovers`).
9. `OnlyAuthorized`: the parsers of JWTs are kept for all `jwt` blocks under their
   algorithms, audience and issuer, joined by colons (`jwt.go:146`, `194`). A block
   for audience `a:b` and issuer `c` and one for `a` and `b:c` share whichever
   parser was made first: tokens for the one pass the other (`Unambiguous`; an
   issuer that is a URL has a colon). `validateClaims` does not catch it, since it
   leaves `aud` and `iss` to the parser.
10. `OnlyAuthorized`: the first request that a `saml` control sees makes a relative
   `sp_acs_url` absolute with its own origin and stores it (`saml2.go:85` to `90`),
   without a lock. `saml.md:53` says it is resolved against the origin of the
   current request; later ones at another host are compared with the first one's.
   The property asks for one of the origins of the servers only.

Met while reading, in the rate limiter, the synced JSON and endpoints:

- `limiter.go:155`: with two sliding limits the shorter one's waiting time
  replaces the longer one's, and the longer window is exceeded.
- `synced_json.go:104`: the invalidation timer of a failure can drop a document
  fetched since; line 147 replaces cached data by the result of a failed parse.
- `synced_json.go:86`: after the end of the context nobody answers readers that
  still wait.
- `endpoint_sequence.go:48`: a reference to a backend response that no block
  makes is an item nobody produces.
- `handler/endpoint.go:283`: an error that is no `*errors.Error` becomes a nil
  inside `errors.Sequence`; asking for its kinds panics.
- `handler/endpoint.go:134`: only results of items are kept. When another block
  refers to `default` and there is no `response`, `default` is not among them,
  and the client gets "missing client response", although the check at
  `configload/endpoint.go:152` was satisfied.
- `handler/endpoint.go:189` to `196`: an error while the body is copied to the
  client is only logged; a buffered body that could not be read becomes a
  response with an empty body.
- `runtime/endpoint.go:131`: `websockets = false` enables websockets. An upgrade
  that the origin does not answer with 101 gets the proxy's response modifiers
  twice.
- `probe.go:121`: the check's context is canceled before the body is searched
  for `expected_text`.

In the main loop and the servers:

- `main.go:254`: when the second load of a reload fails, `confFile` is nil. The
  running command goes on, but one that has yet to start, or is started again
  after a listen error, panics. `Watch` has this state (`pc = "panic"`).
- `main.go:409`: renaming a watched file keeps the number of files, looking for
  the old name fails, and Couper exits after its retries.
- `main.go:418`: a change between the first load and the watcher's first look
  at the file is not loaded until the next one (`unread` in `Watch`).
- `main.go:218`: in watch mode SIGTERM ends the process without the graceful
  shutdown.
- `server/http.go:61`: the command returns when the shutdown's time is up, by
  default at once, whether or not the ports are closed.
- `server/http.go:175`: an address other than `*` is listened on without a port.
- `runtime/server.go:180`, `407` to `415`: with exactly two access controls of a
  server, slices share an array, and the custom logs of one route can be those
  of another.

In the request path:

- `backend.go:463`: the timer of `ttfb_timeout` runs before the request is written
  and is reset without being drained, so that a tick that is left over ends the
  measurement, which `backend.md:178` defines as starting with the written
  request. `RoundTrip` has the steps (`TimerFires`, `ResetTimer`,
  `ResetterTicks`); no property is about it, since what is wrong there is a
  duration, and the module has only the order of events.
- SAML: only the audience of the conditions is looked at; an assertion whose
  `NotBefore` or `NotOnOrAfter` does not hold passes (`saml2.go:119`).
- A bare `backend` error is caught by no `*` of an endpoint or api; a control
  whose name is `api` or `endpoint` has its `*` handler expanded like theirs.
- `gzip.go:133`: `Content-Encoding` is compared with `gzip` exactly; an error of
  the reader for gzip is only logged; the OpenAPI validation of an answer comes
  before it. A timeout while the body is read for the validation is reported as
  `backend_openapi_validation`.
- CORS is decided when the header is written, from the request as the modifiers
  have left it. `disable = true` in the server's block is ignored for routes
  without a block of their own. An error about a body that is too long is
  answered before CORS and access control.
- `backend.go:442`: `connect_timeout` is ignored when `timeout` and
  `ttfb_timeout` are both zero. The goroutine of a first byte that is late sets
  the stopped timer again and cuts the body.
- `secure_cookies = "strip"` is applied before the modifiers, so that a cookie
  set by one keeps its flag.
- `oauth2/oidc/config.go:174`: the checksum of a document is stored before its
  JWK set could be made.
- `saml2.go`: the service URL is made absolute by the first request and stays so
  for all. The parsers of JWT are kept under audience and issuer joined by a
  colon. `definitions/job.go:57` gives the name of a header where a format is
  expected.

In the configuration and its routes:

- `server/mux.go:38`: the patterns are sorted with the slash at their end counted
  as a segment, but line 254 registers them with and without it. `/{x}/` is
  therefore before `/a` and takes `/a` away from it; `LiteralRouteAnswers` excludes
  just these patterns (`TakesWithoutSlash`).
- `merge.go:158`: the labels that must be unique are collected in maps that are
  made anew for each block, so that two blocks of one label in a file are merged
  although `8.multiple-files.md:24` allows one; `LastDefinitionCounts` leaves
  such files out.
- `backend.go:262`: anonymous backends are named by line and column, without the
  file; two in different files can have the same name.
- `checkForMultipleBackends` stops at the first error handler; duplicate kinds of
  error handlers override each other silently; `/a` and `/a/` are both accepted;
  `isAPIError` looks at the first of several files and spas; `absolutizePaths`
  drops the diagnostics it appends to; `deprecate` is never called.

## 7. Not modelled

`PROJECT.json` lists every part with its reason. Not at all: the TLS proxy for
development, the OpenID configuration (two nested `SyncedJSON`), commands that
run to completion, jobs (which share nothing), the evaluation of expressions and
its functions, logs, telemetry. Of the servers, only how a request finds its host
and route; listeners, TLS and the shutdown are left out, `Watch` sees the
command's return. Libraries (HTTP, TLS, cryptography, OpenAPI, SAML) are external
relations.

Within modelled parts: the wording of errors, the delays between retries in
`Watch`, the value of documents, the file mode of `SyncedJSON`, `token_request`
blocks beside `oauth2` (the same code without retries), `HealthInfo.Error`, the
parsing of HCL, its schema and default values, absolute file names, the buffer
options and custom logs.

## 8. Plan

Done, in the order of importance for a gateway under load: rate limiter, synced
JSON, endpoint sequences and execution, backend health, token authorization,
watching, backend timeouts, loading and merging configurations, routing, the path
of a request with access controls, modifiers and error handlers; and the proofs
of the safety properties of the concurrent parts, of the mux, and of what the
gateway promises about authorization, permissions, privacy, CORS, packed bodies,
fields of one hop, error handlers and timeouts.

What remains:

1. **Servers**: listeners, `listenForCtx`, requests in flight, health check, and
   the ports of two commands in a row, so that `Watch` is checked against ports
   instead of any listen error. Abstract specification: requests accepted before
   the deadline are answered.
2. **OpenID configuration and JWT**: two nested `SyncedJSON`, the key a
   validation takes while the set is replaced.
3. **Several producers in `Gateway`**: `Endpoint` in place of its one producer,
   with tokens and limits between them.
4. **Proofs** for these components, as they are added: the invariants of several
   producers need the one of `EndpointProofs` next to those of the gateway.
