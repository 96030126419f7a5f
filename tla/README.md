# A specification of the WunderGraph node and its command line

WunderGraph is a backend-for-frontend. The TypeScript SDK turns a project's
configuration and operations into `wundergraph.config.json`; the Go program
`wunderctl` generates it, watches it, and runs the *WunderNode*, an HTTP server
that serves the operations; a node.js process, the *hooks server*, runs the
user's hooks. These modules model the parts of the program whose correctness
depends on the order in which several actors take their steps.

All paths are relative to `src/`.

## 1. Inventory

### Parts, their state, their operations

| part | state | operations | interacts with |
| --- | --- | --- | --- |
| lazy database engine (`pkg/datasources/database/datasource.go`, `engine.go`) | `engine`, `closed`, RWMutex `m`, channel `requestWasProcessed`, the loop's timer; one Prisma process | `Source.Load`, `LazyEngine.Execute`, `initEngineAndExecute`, `LazyEngine.Start` | resolvers call `Load` concurrently; the loop and the requests share the lock and an unbuffered channel |
| idle timeout (`pkg/httpidletimeout`) | atomic `counter`, `eventCh` and `notifyCh` of capacity one, a `time.Timer` | `Handler`, `startRequest`, `endRequest`, `Start`, `Wait`, `Cancel` | every request; the idle handler of the node; `http.Server.Shutdown` |
| node server (`pkg/node/node.go`) | `n.server`, `n.configCh`, the listeners | `startServer`, `Close`, `Shutdown`, `reconfigureOnConfigUpdate`, `filePollConfig` | watcher callback, errgroup, context, net/http |
| `wunderctl up` (`cli/commands/up.go`) | context, runners, bundlers, `configFileChangeChan` | build, `onAfterBuild`, trigger, exit | node server, watcher, script runners |
| `wunderctl start` (`cli/commands/start.go`, `node.go`, `server.go`) | errgroup, signal context | start both servers, graceful shutdown | node server, hooks server |
| query handler (`pkg/apihandler/apihandler.go`) | per request: `ctx.Variables`, `cacheIsStale`, buffers | `QueryHandler.ServeHTTP` with its deferred calls | cache (`pkg/apicache`), buffer pool (`pkg/pool`), resolver, hooks client |
| live query, mutation, subscription, GraphQL handlers (same file) | per request; the GraphQL handler's plan map, RWMutex, singleflight | `ServeHTTP`, polling loop, `preparePlan` | the same |
| api transport (`apitransport.go`) | buffers | `RoundTrip` with origin hooks | hooks client, customer's upstreams |
| hooks client (`pkg/hooks`) | retrying HTTP client | `DoOperationRequest`, ... | hooks server |
| hooks server (`packages/sdk/src/middleware`) | fastify routes | one route per hook | node |
| script runner (`pkg/scriptrunner`) | `cmd`, `cmdDoneChan`, `firstRun` | `Run`, `Stop` | debounced callbacks, context |
| watcher, bundler (`pkg/watcher`, `pkg/bundler`) | path set, duplicate stamps, `errorCh` | `Watch`, `Bundle` | file system, debounce timer |
| introspection poller (`packages/sdk/src/definition/introspection-cache.ts`) | cache files | `introspectInInterval` | bundler, through the file system |
| authentication (`pkg/authentication`) | none on the server but the loader's cache of token users; the cookies `user` and `id` in the browser | login, callback, `CookieUserHandler`, `UserLogoutHandler`, `User.Load`, `RequiresAuthentication`, `RBACEnforcer` | hooks client, identity providers, browsers |
| the rest | none that steps of several actors share | see section 8 | |

### What is hard, and what correctness means

- **Lazy engine.** A goroutine closes the process that requests execute on. Correct:
  no request executes on a closed or replaced process; a `Load` delivers one
  response and not the remains of a failed attempt in front of it; every `Load`
  returns; an engine that nobody uses is closed.
- **Idle timeout.** Counter and event are not changed together. Correct: the
  counter is exact; when nobody is served the timer counts down; it does not
  trigger on a request that is being served; an idle process ends; no request is
  blocked by the middleware.
- **Reloads.** Servers are started and closed without waiting. Correct: the newest
  configuration is served in the end, by the server that `Close` will reach; a
  failure ends the command.
- **Start and shutdown.** Any of three actors may end at any time. Correct: the
  process then ends.
- **Query handler.** Concurrent handlers share the cache and memory of the pool;
  deferred calls run last-in first-out. Correct: a client gets the result of its
  own request; an item is served no longer than it may be; what is cached under
  a URI is the result of that URI.

- **Hooks around an operation.** Up to eight calls to another process surround one call
  of the origin; each may be repeated, fail, be cancelled, or change what the next step
  works on. Correct: the origin sees what the hooks left, each once; the status tells
  what happened; a response goes through the hook that may change it; handlers end.
- **Build loop.** Builds start from timer goroutines and overlap; a poller, a watcher and
  processes talk through files; the command exits without waiting for any of them. Correct:
  while it runs, the last change of an upstream is what is generated and served in the end;
  a runner has one process.
- **Sessions.** Answers to the tabs of a browser overtake each other, and hooks decide
  what an answer sets. Correct: a request is served with roles that the user was let in
  with; the last answer counts; revalidation brings a session up to date; a logout ends it.
- **Plans.** Requests share plannings, planners share engines, and a plan is found by the
  hash of a text. Correct: nobody's answer shows that; nobody waits for a planning that has
  failed.

`PROJECT.json` lists the hazards at their lines, with the properties that cover them.

## 2. Modules

| module | models | role |
| --- | --- | --- |
| `RWMutex` | Go's `sync.RWMutex`: a writer announces itself, and readers that arrive afterwards wait | used by `LazyEngine` |
| `EngineSlot` | what users of an engine are promised: users come only to the current, running engine, and it is not replaced or stopped under them | abstract specification |
| `LazyEngine` | `Source.Load`, `LazyEngine.Execute`, `initEngineAndExecute`, `LazyEngine.Start`, the process behind `Engine` | detailed; refines `EngineSlot` |
| `LazyEngineProofs` | | proofs |
| `IdleTimeout` | the middleware, its timer goroutine, `Wait`, `Cancel`, the idle handler | detailed |
| `IdleTimeoutProofs` | | proofs |
| `NodeServer` | `startServer`, `newListeners`, `Close`, the first half of `Shutdown` | component of the next two |
| `NodeUp` (`MCNodeUp`) | `NodeServer` with `filePollConfig`, `reconfigureOnConfigUpdate`, the watcher, the writer of the file and the command | composition |
| `NodeUpProofs` | | proofs, of `NodeStart` too (through an instance of it) |
| `NodeStart` (`MCNodeStart`) | `NodeServer` with the errgroup of `wunderctl start`, the hooks process and the graceful shutdown | composition |
| `QueryCache` (`MCQueryCache`) | `QueryHandler.ServeHTTP`, the response cache, the pool | detailed |
| `QueryCacheProofs` | | proofs |
| `OperationHooks` (`MCOperationHooks`) | one request to a query, live query, mutation, subscription or internal operation: the hooks in the order of its handler, the hooks client's attempts, the origin hooks of `ApiTransport`, errors, cancellation, the live query's loop, the subscription's flush writer | detailed |
| `OperationHooksProofs` | | proofs |
| `ProcessSlot` | what the callers of `Run` are promised: a process is started once, in an empty slot, and told to stop only for the next one or for the context | abstract specification |
| `ScriptRunner` | `ScriptRunner.Run`, `Stop`, and the goroutine of a run that waits for the context | component of the next |
| `DevLoop` | two `ScriptRunner`s with the build loop of `wunderctl up`: bundler, watcher, `onAfterBuild`, the introspection poller and its cache | composition; refines `ProcessSlot` |
| `DevLoopProofs` | | proofs |
| `CookieSession` (`MCCookieSession`) | login, revalidation, logout, bearer tokens and role rules, with the browser that keeps the cookies | detailed |
| `CookieSessionProofs` | | proofs |
| `DirectEndpoint` | what clients of the GraphQL endpoint are promised: each request is answered once, by one of the answers its body can get, as if nothing were kept or shared | abstract specification |
| `PlanCache` (`MCPlanCache`) | `GraphQLHandler.ServeHTTP`, `preparePlan`, `LazyEngineFactory.Engine` in the copies of the factory | detailed; refines `DirectEndpoint` |
| `PlanCacheProofs` | | proofs |

### How states and actions correspond to the code

**LazyEngine.** `engine`, `closed` and the mutex variables are the fields of the
struct. An engine process is a number, `running` holds the processes that run.
`pc[r]` is the place of one goroutine in `Load` or `Execute`; `Enter...` is the
first half of a lock call and the action behind it the second half together with
the code up to the next blocking call. `Processed(r)` is the rendezvous on
`requestWasProcessed` (send and receive in one step, as on an unbuffered channel),
and sets the timer. `timer = "nil"` is a nil `stopEngine` channel, on which a
select waits for ever. `buf[r]` is the buffer of `Load` seen as empty, holding a
part, one response, or a part followed by a response: `Copied` is `io.Copy`, which
may break off. A dead process is one whose `ExecuteFails` is taken every time.

**IdleTimeout.** A request's goroutine is in `idle`, `reset` (decided to send a
reset event and blocked in the send), `serving`, `start` (decided to send a start
event). `timer` is `armed`, `tick` (expired, its channel full), `forever` (reset to
`infiniteDuration`) or `off`. The three senders and the goroutine of `Start` share
`eventCh`, a sequence of length at most one.

**NodeServer.** One call of `startServer` is one number; `stage` says how far it
is. The server it creates has the same number. `server` is `n.server`, which is
written without a lock and read by every listener goroutine at its call of
`Serve`: `Accept(s)` therefore gives the listener of call `s` to the server that is
in the field at that moment, which need not be `s`. `held` is who has bound an
address, `accepts` is which server takes requests there. `Refuse` is
`validate.ApiConfig`. `CloseListeners` is `http.Server.Close` of the server in the
field.

**NodeUp.** The three goroutines are `main`, `poller` and `reconf`; the watcher's
callbacks are `senders`. `BeginWrite`, `EndWrite`, `WriteIsCutOff` are the writer,
a process that truncates and fills the file and that a rebuild kills in between.

**NodeStart.** `node` and `hooks` are the two members of the errgroup, `main` the
goroutine that waits for the context and then for the group. The hooks process is `made`
together with the goroutine that waits for the context, and started in a later step; when
that goroutine finds the context done in between, its `Stop` does nothing (`missed`), and the
process that is started then `survives`: only its own end ends it.

**QueryCache.** A key stands for a request URI and the variables it carries;
`mem[b]` is the key whose variables were last written to buffer `b`, `vars[r]` the
buffer that `ctx.Variables` points into, also after the buffer went back. The
resolver's answer is the record of the key found in that memory, the version of the
upstream data, and the form of the response. `Release` precedes `Revalidate` because
deferred calls run in reverse order. The age of an item advances with `Tick` and
stops at the first value that every comparison treats alike.

**OperationHooks.** `pc` is the step of `Order` that the handler is at; `After` is the
next one that the operation is configured with and its handler knows. At a hook,
`attempt` counts the calls of `retryablehttp`: `Retry` is an attempt whose answer was
lost, late or a 5xx, which is also how `hooks.ts` says that a hook has thrown.
`HookFails` is the end of the attempts, another status, or an answer that names an
error. `Fail` branches on the kind as the code does: `handleOperationErr` and return for
the synchronous handlers, an error sent as data for a live query, one of four outcomes
for a subscription, whose callbacks run in `httpFlushWriter.Flush`. `input` counts how
often a hook has mutated `ctx.Variables`, `headers` names the last hook that set them,
and a response carries the input, headers and data version that it was made from.
`Accept` of a stream sets the status, because its 200 is flushed before any hook. A mutation
whose origin is a `database` is called by `Source.Load`, which repeats a call that has failed,
one included that was executed and whose answer broke off (`OriginRepeats`): `applied` says
whether the origin has applied the mutation never, once or more often. A subscription's
origin hooks run when its stream is opened through the transport.

**ScriptRunner, DevLoop.** A call of `Run` and the process it makes are named alike,
`<<k, r>>` for the k-th build and the runner `r`. `cmd[r]` and `doneChan[r]` are the fields
`b.cmd` and `b.cmdDoneChan`, each read and written in a step of its own: `Stop` and `Await` read
them, `Make` and `MakeChannel` overwrite them, and `Start` starts whatever `cmd` holds then, with
nothing to keep two goroutines apart. `Exit` is the end of the command after `<-ctx.Done()`: it
waits for nothing, and from then on only the scripts' processes and the upstream take steps. `exited` bars every goroutine's
action. `proc` goes from `new` over `starting` to
`running` as the goroutine of gocmd starts the process; a signal before that has no
effect (`tooEarly`). `build[k]` is how far the k-th call of `onAfterBuild` is. `polls`
are the answers of the upstream that are under way in the poller; `cache` and `config`
are the two files, as versions of the upstream's schema; `reads` is what a script has
read when it started. For `ProcessSlot` a call asks from `Stop` to `Start` (`Asking`), and
the slot holds the process that lives (`Holding`); a runner whose calls have overlapped is
void.

**CookieSession.** `jar` is the list of the session cookies in the browser, each with its
scope: with a `Domain` or without. `separate` says whether the browser keeps the two apart,
which it does on every host whose name a cookie can have as its domain. `at[t]` is where the
request of a tab is, `user[t]` the user in its context, `sets[t]` what its answer will set. What
is on the way to the browser is set only by `Receive`, in any order among the tabs. A session
is its set of roles, `granted` what the application's hooks would answer now, `approved` the sets
that a user was let in with; without the `mutatingPostAuthentication` hook (`hooked`) a login has
no roles. `Spoil` is a `user` cookie that ceases to decode beside an `id` cookie that does:
`User.Load` overwrites the error (`authentication.go:233-243`), and the request has a user
without roles. `Reach` is the route that a request with or without a bearer token gets to, with
the user it has by then, and `Redirect` the middleware in front of all routes of cookies.

**PlanCache.** `plans` is `GraphQLHandler.prepared`, `flight` the leader of each call of
the singleflight group. A document is a record of what the code can tell apart: how it is
printed as it was parsed, and its operations with the literals that normalisation
extracts. `Key`, what is hashed, is the operation name with the printed document behind it
and nothing between, so that two requests can have one key. `engines` are the maps of all
copies of the database factory, by data source: `Factory.WithHTTPClient` copies the factory
by value, so that a data source with a time limit of its own has a map of its own. `CheckMap`,
`MakeMap`, `FindEngine` and `CreateEngine` are the unlocked reads and writes of a map and of
the field that holds it, `Crash` what the Go runtime may do when they meet. For `DirectEndpoint`
only `body` and `answer` show; a planning that fails answers its leader and all who wait for it
in one step, `Respond` of a set of requests.

## 3. What the runs check

Every passing run fires every action of its next-state relation.

| run | instance | checks | shows |
| --- | --- | --- | --- |
| `lazy_engine` | 2 requests, the loop, 2 engine starts, a planner context that can be cancelled | `TypeOK`, `ExecutesOnCurrentEngine`, `DeliversOneResponse`, `DoomIsForever`, `SlotSpec`, `LoadReturns`, `UsedEngineIsStopped` | The lock protects the process in use; the only way to hang is the meeting of a sender and the loop (`Doomed`), and that one is final. |
| `idle_timeout` | 2 counted requests, 1 health check | `TypeOK`, `CounterIsExact`, `IdleIsCountedDown`, `SendersProceed`, `IdleProcessEnds` | The counter is exact, events that overtake each other never leave an idle process without a countdown, and it ends. |
| `node_up` | 2 writes, 3 starts, the addresses tcp6 and tcp4, some taken by other processes | `TypeOK`, `NewestServerServes`, `ConfigIsServed` | Overlapping reloads settle on the newest server, and on the configuration in the file, while no start and no read fails. |
| `node_start` | two configurations, one refused, addresses free or taken | `TypeOK`, `CancelEndsProcess` | Whatever ends one part ends the process, unless the shutdown came before the server was there, or the context ended before the hooks process was started. |
| `query_cache` | 2 requests, 2 keys of which one is cached, 2 buffers, maxAge 1, staleWhileRevalidate 1, 2 versions of the data | `TypeOK`, `MissAnswersOwnResult`, `HitIsWithinTtl` | No client gets another's result by way of the pool; no item outlives its time to live. |
| `query_cache_key` | the same | violation of `CachedUnderOwnKey` | A revalidation reads variables another request has written meanwhile. |
| `operation_hooks` | one request of each kind, every combination of the operation's hooks with and without the transport's, 3 repetitions, 2 changes of the data | `TypeOK`, `ResolvedAsTheHooksLeftIt`, `StatusTellsOutcome`, `ResponsesPassTheirHook`, `HandlerEnds`, `LiveCatchesUp` | However hook calls are repeated, fail or are cancelled, the origin is asked with each hook applied once, the status tells the outcome as far as the handler knows it, and handlers end. |
| `operation_hooks_input` | the same without repetitions and changes | violation of `InputIsMutated` | A query is resolved with the input of the client, not of its `mutatingPreResolve` hook. |
| `dev_loop` | 3 builds, 1 change of the upstream, a context that may end | `TypeOK`, `OneProcessPerRunner`, `SlotSpec`, `CacheConverges`, `LastChangeIsServed` | While the command runs, builds and polls that overtake each other end with the last schema generated and served, wherever no two calls of one `Run` overlap and no change was missed by the watcher. |
| `cookie_session` | 2 tabs, 1 role, with the hook of a login and without; an operation whose rule denies the role | `TypeOK`, `ServedAsApproved`, `LastAnswerCounts`, `RevalidationConverges` | No order of answers gives a session other roles than the user was let in with, except that a `user` cookie which does not decode leaves none; the last answer decides, where one cookie does; where no cookie of a login lies beside those of a revalidation, revalidations bring the session to the roles of now. |
| `cookie_session_revalidate` | as `cookie_session` | violation of `RevalidationUpdatesUser` | Where one does, the request after a revalidation can carry the session of the login. |
| `plan_cache` | 2 requests at a time, 6 bodies: two documents that differ in a literal, one for a data source with its own factory, one with a name that takes the text of another, one that is not valid, one that does not parse | `TypeOK`, `EngineIsShared`, `DirectSpec`, `RequestsAreAnswered` | The endpoint implements `DirectEndpoint`: a request is answered once, as its text calls for with its own variables, and no step of another shows; one that waits for another's planning is answered, also when it fails. |

Each property of a passing run has a mutant in `PROJECT.json`: a plausible slip in
the modelled code (a lock not taken, a buffer returned too early, a skipped reset,
an event dropped) under which TLC finds the property violated.

### Findings

The three runs that end in a violation check what the documentation says. `PROJECT.json`
lists them under `findings`, with the line and the quotation.

### What the models show beside the properties

Each of these is a behaviour of a passing model that a property names as its exception, or
that follows from a step of it:

- *Lazy engine.* The loop that wants the lock to stop an engine, and the request that has
  it and sends to the loop, wait for each other (`Doomed`, `datasource.go:954` and 979). An
  engine whose request did not get as far as `Execute`, or that a second first request
  displaced, is never closed (lines 1001, 1005).
- *Idle timeout.* A start event that arrives after the reset event of a later request
  makes the timer count down while that request is served (`httpidletimeout.go:60`).
- *Reloads.* A failed `startServer` ends the reloads but not `StartBlocking`, so that the
  `cancel()` at `up.go:274` is not reached.
- *Start.* A hooks server that fails before `n.server` is set leaves a node that nobody
  shuts down (`ShutdownTooEarly`, `node.go:237`). A context that ends between the making and
  the start of the hooks process leaves a process that nobody stops, and the command waits
  for it, so that "wunderctl start" may hang (`ToldTooEarly`, `scriptrunner.go:118-172`). The
  comment at line 118 has it that cancelling the context stops the script.
- *Sessions.* What `cookie_session_revalidate` shows has a second half: the reset of a logout
  names the domain (`authentication.go:885`), so that the cookies of a revalidation, which do
  not, outlive the logout (`LogoutEndsSession`; `post-logout-hook.md:7` has the user logged
  out). Both hold where a browser has no cookies of both kinds to keep apart.
- *Response cache.* A revalidation stores the resolver's raw response, without the
  transformations and hooks that a miss runs (`apihandler.go:1034`).
- *Hooks.* A hook that throws runs up to four times, because `hooks.ts` answers 500 and
  `retryablehttp` repeats that. The errors of a stream come with status 200. The plain text
  of a failed `postResolve` hook goes into the stream of a subscription, before the
  response; a failed `mutatingPostResolve` hook sends the response as it was. A live query
  gives its hook, in every poll, the input that the hook made of it in the poll before.
  The responses of a subscription are not transformed: nothing sets the
  `postResolveTransformer` of its flush writer. A mutation that was applied is answered with
  an error when a hook fails afterwards. One whose origin is a database may be applied more
  than once, and answered as a success (`datasource.go:1066-1092`).
- *Build loop.* Two calls of `Run` that overlap can leave a process that nobody stops, or a
  command that is never started (`overlapped`). A process that is told to stop before gocmd
  has started it is not stopped, and the next `Run` waits for it (`tooEarly`). A `Stop` that
  overlaps the first `Run` may wait for a channel that is nil. The command exits after
  `<-ctx.Done()` (`up.go:283-292`) whether or not its scripts have ended; that they may survive
  it is reckoned with (`introspection-cache.ts:121`, `process.ts:3-8`, `process.go:40-43`). What changes
  in the cache before the watcher has added its paths is not seen (`missed`).
- *Sessions.* A refused revalidation answers 404 and leaves the cookies. An answer with
  cookies that was computed before a logout and arrives after it is a session again. When the
  hooks refuse the user of a bearer token, the cookies of the request count. A user whose
  `user` cookie does not decode has no roles, and passes a rule that denies one. A logout of
  a user with an authorised `redirect_uri` redirects and resets nothing (`apihandler.go:2016`).
- *Plans.* An operation can be planned twice, when a planning ends between another
  request's look at the map and its call of the group. An operation name that the document
  does not have gives no plan; that is kept and answered with an empty 200. Name and document
  are hashed with nothing between them (`apihandler.go:732-734`), so that the empty plan, or
  the refusal, of one request can be the answer to another whose text is the same when it
  is cut elsewhere. Two plannings that find no map each make one, and the later loses what
  the earlier has put into its own.

### Bounds, and why they are enough

- *Two requests.* The hazards of the lazy engine are meetings of one request with the
  loop or with one other request: two starts that follow each other, a reader that
  holds up the writer, a writer that holds up a reader. Two engine starts let the
  second displace the first. In the idle timeout the events of two requests can
  overtake each other; the third goroutine is the health check, which is skipped. In
  the query handler two requests suffice for one to take the buffer the other gave
  back. The proofs hold for any number (section 5).
- *Two writes, three starts.* The first start, a reload that overtakes it, and the
  second event of one write. `NodeUp` with three writes and four starts was
  explored over 35 million states without a violation of `NewestServerServes`; it is
  too large to be finished routinely.
- *Two addresses.* `localhost` resolves to `::1` and `127.0.0.1`; the code treats a
  failure on the first differently from one on the second.
- *Ages up to 3.* `MaxAge` 1, `StaleWhileRevalidate` 1, and one value beyond: both
  boundaries of both comparisons are reached.
- *Two versions of the upstream data* suffice to tell older from newer.
- `MaxEngines`, `MaxStarts`, `MaxWrites` and `MaxVersion` are guards on actions nothing
  waits for, so that reaching them ends no behaviour early: the liveness properties
  are about what has been started.
- *One request of `OperationHooks`.* Requests share nothing there but the origin and the
  hooks server, which may do anything at any time. Two changes of the data and polls told
  apart up to two: a change before, between and after polls; `MaxPolls` saturates.
- *Three builds of `DevLoop`.* The first build, a rebuild beside it, and a rebuild that
  overlaps the rebuild. A poll writes an old schema only while two builds are left, so that
  the bound takes no rebuild away from a change; the context is cancelled only while two more
  builds are left, so that the bound does not hide what a build does after it. Polls that find nothing new and cannot become old are left out.
- *Two tabs, one role.* Two answers that overtake each other are the smallest disorder; one
  role gives two sessions, the current one and the one of before. With one role the lists of
  a rule that ask for all and for any agree. The operation denies the role, so that a user who
  lost it is served; that each of the four lists is obeyed is proved for any roles and rules.
  One cookie ceases to decode, once.
- *Two requests of `PlanCache`.* A leader and one that waits for it, or two that plan
  different operations with one engine or with one each; either may come again. The proofs
  hold for any number.

Symmetry is used in the `query_cache` runs, where no liveness is checked.

## 4. Fairness

Weak fairness stands for a goroutine that runs, a deadline that passes, a process that
stops when told. Strong fairness is used where the Go runtime is fair to waiters: a
mutex passes to a waiter that has starved for 1 ms, blocked senders of a channel are
served in order of arrival, and a select chooses at random among ready cases. Nothing
that comes from outside is fair: no client has to call, no handler to return, no
signal to arrive, no file to be written, no context to be cancelled. In the hooks
client an attempt has a timeout of a minute, so that `Handler` of `OperationHooks` is fair;
events of a subscription are not. `DevLoop` has a fair poller, as `setInterval` fires again
and again, and fair timers, goroutines and scripts until the command exits, and a fair exit once
the context has ended; the upstream need not change, nor the context end. `PlanCache` has a fair goroutine per request until the runtime stops the
process. `CookieSession` has no fairness: `RevalidationConverges` has what it needs in its
premise, revalidations whose answers are received again and again. In `NodeStart` a hooks
process that got the signal of `Stop` stops; one that did not need not end.

## 5. What is proved

TLAPS checks every proof. The theorems hold for all values of the constants that
satisfy the named assumptions of the modules.

**`LazyEngineProofs`** (`ConstantsAssumption`: the loop and the name for nobody are no
requests; `MaxEngines` is a number). The invariant is
`IInv == TypeOK /\ LockInv /\ SlotInv`. `LockInv` ties each place in the code to what
it holds of the lock: who is past `RLock` is a reader, who is past `Lock` is the writer,
and a writer that holds excludes all others. `SlotInv` adds that the current engine
runs and that an executing request uses it. `ExecutesOnCurrentEngine` is not inductive by itself: that the loop cannot close an
engine under a request follows only from the loop's being the writer and the request's
being a reader. `BufferInv`, what a buffer holds at each place of `Load`, is a second inductive
invariant, for `DeliverySafe`. The other theorems are `TypeCorrect`, `ExecutionSafe`, `DoomFinal`
(the step property `DoomIsForever`, from `LockInv` and a case split over the actions);
and `SlotRefinement`, every step of `LazyEngine` is a step of `EngineSlot` or leaves its
variables unchanged. `OnlyDoomHangs` (`HangIsDoom`) is the safety half of `LoadReturns`: when
every `Load` under way waits and the loop does not hold the lock, some request is `Doomed`. Where a
request waits is spelled out (`WaitsForLock`, `WaitsForLoop`), because the prover has no ENABLED.
Its invariant adds `BlockedInv` to `IInv`, that readers are only kept waiting by a writer; then
whoever waits for the lock waits for the announced writer, that one waits for an older reader or
for the loop, and a reader waits for nothing but the loop.

**`IdleTimeoutProofs`** (`RequestsAssumption`: `Requests` is finite, the skipped ones are
among them). `IInv == TypeOK /\ ChannelInv /\ CounterIsExact /\ TimerInv`. `ChannelInv`
says that the channel holds at most one event and that only counted requests send;
`TimerInv` says that when the timer is stopped, or the event that stops it is the last
one sent, somebody is served or is about to send the event that starts it. `CounterSafe` counts with the cardinality lemmas of `FiniteSetTheorems`; `IdleSafe`
follows from `TimerInv`.

**`QueryCacheProofs`** (`CacheAssumption`). `IInv` adds to `TypeOK` that a buffer in use
belongs to one request and is not in the pool and still holds that request's
variables, that only a request with variables is stale, that what a request has
resolved before it stores is its own, and that a stored item has the time to live it is
meant to have. The theorems are `TypeCorrect`, `MissSafe` and `HitSafe`. Two more say how far
the violation of `query_cache_key` reaches. `MissStoresSafe`: what a request stores after a miss
is the result of its own key, so that an item under a foreign key comes from a revalidation.
`CacheSafeUnlessRevalidated`: with a `maxAge` and without `staleWhileRevalidate`,
`CachedUnderOwnKey` holds. Both follow from `ConfinedInv`, whose part `NothingIsStale` says that
then no request finds a stale item.

**`NodeUpProofs`** (`ServerAssumption`: the listeners are of the three kinds, one at least is
not `tcp6`, as in `newListeners`; `WritesAssumption`). `IInv == TypeOK /\ SendersInv /\
StageInv /\ ClosedInv /\ NewestInv`. `SendersInv` counts: every event of a write has at most
one callback, which bounds `senders`. `StageInv` ties a call of `startServer` to what it can
have touched by then: only a server that was created is in `n.server`, is closed, has bound
an address or accepts. `ClosedInv` says that `Close` reaches servers of earlier calls only.
`NewestServerServes` is about a settled node and says nothing of the way there, hence
`NewestInv`: from the moment when the newest call has created its server, the server in the
field, and each one that accepts on an address of the newest call, is not closed and holds
the mandatory addresses it has tried (`Keeps`). That leaves open which server that is, as the
code does. Two servers that hold the same mandatory address are one, so that in a settled
node the one in the field is the newest. `NodeUsesServers` reduces the steps of `NodeUp` to
what they do to the servers.

`RestingNodeServesFile` (`AtRestFileIsServed`) is the safety half of `ConfigIsServed`: when no
write, callback or read is under way, the starts have settled, none has failed and the poller
still waits, the newest server has what is in the file. `FreshInv` is the chain behind it:
unless a change is still on its way (`Pending`), what the poller offers is what is in the file,
and what it has handed over is the configuration of the newest call of `startServer`.

The module also has the theorems about `NodeStart`, with one start (`MaxStarts = 1`, as in its run),
for which it instantiates that module on the same server variables: `StartTypeCorrect`, and
`ShutdownFinal`, that after a shutdown which has reached the server no address accepts, though
`startServer` may go on to bind addresses for it. `SameSteps` says that what `NodeStart` does to
the servers is what `NodeUp` does, so that the lemmas about the servers serve both.

**`OperationHooksProofs`** (`BoundsAssumption`, `HooksAssumption`: the sets of hooks are sets
of hooks). The lemmas about the order of the steps carry the proof: `AfterIs`, that `After`
gives a later step that the operation has and passes over no such step; `LastOfBefore`,
which hook is the last before the origin. `IInv` adds to the three properties what each
variable is at each place of the order: `InputInv` (the hook that mutates the input has, until
it has answered, been applied once less often than the origin was polled), `HeadersInv`,
`AppliedInv` (nothing is applied before the origin is called, and more than once by a database
only), `ResponseInv` (what the handler
has at hand), `StatusInv` (nothing is sent before a synchronous handler is done; a stream has
its status from the start). `FailIs` says what `Fail` does for each kind of operation.
`OthersMutateTheirInput` confines the violation of `operation_hooks_input`: every kind of
operation but the query is resolved with the input its hook returned. `OrderKept` is the step
property `HooksInOrder`: a handler advances to the next step that it has, tries a call again at
most `RetryMax` times, or begins the next event of a stream, and never leaves `done`. It is the
measure behind `HandlerEnds`: what is left to TLC is that the goroutine goes on.

**`DevLoopProofs`** (`RunnersAssumption`; `DevAssumption`: the runners of `up.go`).
`IInv == TypeOK /\ RunnerInv /\ BuildInv`. `OneProcessPerRunner` speaks of processes; what keeps
it is where the calls of `Run` are. `AloneInv`: on a runner that has not been overlapped one
call at most is under way, it waits for the process of the field, and when it makes its
command and starts it, no process lives. `CmdInv` and `ProcInv` say that the field holds a
command that was made, and that none starts before. `BuildInv` says that a build has not
called `Run` before its turn, so that no call begins twice. `LoopRunsRunners` is the other
half: all that the loop does to the runners is a step of `RunnerNext`, so that `RunnerInv` is
proved of the runner and not of the loop. `SlotRefinement` maps every step of a runner to a step
of `ProcessSlot` or to none; `SlotsAre` reads the slot off the runner with `AloneInv`.

`RestingLoopServes` (`RestingLoopIsServed`) is the safety half of `LastChangeIsServed`: when no
timer is armed, the builds that have begun are done and no call of `Run` is under way, the
configuration is the one of what is in the cache, and the one hooks server that lives has read
it or is about to. `GeneratedInv` and `ServedInv` are the two links of the chain: what is in the
cache is generated, or is to be read; what is generated is served, or a build is to restart the
hooks server. `SettledInv` says that the process in the field of a runner is not on its way out.

**`CookieSessionProofs`** (`SessionAssumption`: the names for nobody and for a cookie that does not
decode are no roles). `IInv == TypeOK /\ JarInv /\ ApprovedInv /\ RuleInv /\ LastInv`. `ApprovedInv`
extends the claim about users and cookies to the answers that are under way and to the
loader's cache, through which a role could reach a request later. `JarInv` says that two
cookies differ in their scopes; with it `PutIsJar`, `WithoutIsJar` and `SpoilIsJar` say what a jar is
after a step. `LastInv` is what keeps `LastAnswerCounts`: among cookies of one scope are those of
the last answer. `RuleInv` has all four lists of a rule. `LogoutEndsUnlessKeptApart` confines
what is said of logouts in section 3: to stay logged in takes a browser that keeps the two
scopes apart and has a cookie of a revalidation.

**`PlanCacheProofs`** (`BodiesAssumption`: documents have the fields that are used;
`PrintAssumption`: what is printed tells documents apart that are parsed differently;
`RequestsAssumption`). For `AnsweredAsAsked`, the plan that is kept under a key, or
that the leader of a call hands to its followers, has to be a plan for the text of whoever
takes it: `KeyIsText` says that bodies with one key have one text, `PlansInv`,
`FlightInv` and `PreparedInv` say of the map, the calls and the requests where their plans
come from. That is as much as the code sees to (`AnswerSafe`).
`AnsweredByItselfIfCutInOneWay` adds what it takes for more: where no text of two requests can be
cut into name and document in two ways, each is answered by its own operation.
`EnginesInv` is for `EngineIsShared`: as long as no two plannings have met at the
map of one factory, who makes a map or creates an engine is alone and first there
(`MakerInv`, `CreatorInv`), and every plan has the engine of the map.
`DirectRefinement` maps `Arrive` to `Ask`, `Resolve` and `Refuse` to `Respond`, `Release` to `Leave`,
and every other step to none. It rests on `AnsweredAsAsked` for what is answered, on
`Unanswered`, that who waits has no answer yet, and on `IdleBodyInv`, that no body outlives its
request. Its abstract endpoint has the answers of a body from `Promised`, that is by text.

**Only model-checked.** Liveness (the prover has neither fairness nor ENABLED):
`LoadReturns`, `UsedEngineIsStopped`, `SendersProceed`, `IdleProcessEnds`,
`ConfigIsServed`, `CancelEndsProcess`, `HandlerEnds`, `LiveCatchesUp`, `CacheConverges`,
`LastChangeIsServed`, `RevalidationConverges`, `RequestsAreAnswered`. The violations, which
need one instance. Every inductive invariant was checked by TLC on the instances of the runs
before it was proved.

## 6. Abstractions

- Queries, schemas, responses and headers are members of small sets.
- `LazyEngine` models the binary engine. The cgo engine is behind a build tag.
- The node's router, TLS, CORS and handlers are built in one step, `CreateServer`.
- The unsynchronised accesses to `n.server` are atomic reads and writes of a pointer, in
  any order; a goroutine never sees a value older than the last write.
- The variables of a query are read in one step, where the code reads memory another
  goroutine may be writing: a torn read would be worse than what the model has.
- The in-memory cache and redis are one map that may drop a store or evict an item.
- Hooks around the resolver are one step of `QueryCache` each, which may answer, fail or
  go on; `OperationHooks` has their order and their effects.
- A failed call of the origin, or of a hook around it, fails the resolver. Where the resolver
  reports it in the response instead (an operation with parallel fetches), that is an answer
  of the origin.
- A hook answers with headers, as the SDK's hooks server always does.
- The response of `WriteSynchronous` is written at once; a client that is gone meanwhile
  is not told apart from one that reads.
- The bundles that builds make, and the restart of the poller, are one step each: a build
  that fails stops before `onAfterBuild`, and the poller's runner is a third `ScriptRunner`,
  whose races are those that `ScriptRunner` shows on the other two. A poller that such a race
  leaves running, or does not start, is not in `DevLoop`. The cache file always has an entry, and a write of it
  is one step.
- The cookies `user` and `id` are set, kept and reset together, and are one cookie; that `user`
  ceases to decode by itself is `Spoil`. Signatures hold, and no session cookie gets as old as
  its month.
- In `PlanCache` a `Shared` of the pool comes back reset; a plan is immutable; different texts
  have different hashes. The factory's maps are empty when the endpoint begins, although the
  operations of the application may have made them at the start of the node. `Factory.Planner`
  writes the closer of its factory without a lock, and always the same nil: the write is
  left out. What goroutines see of the unlocked map is the last write; a plan that was made on
  a stale read of it is a race like those of `raced`, and is not told apart.

## 7. Plan

Done: lazy engine, idle timeout, node server with its two compositions, query cache,
operation hooks, script runner and build loop, cookie sessions, plan cache. The polling loop
of live queries and the attempts of the hooks client, once planned as modules of their own,
are actions of `OperationHooks`.

Proved: type correctness and every safety property of all of these, the refinements of
`EngineSlot`, `ProcessSlot` and `DirectEndpoint`, and how far violations reach
(section 5).

What is left, in this order:

1. An abstract specification for `CookieSession` (one session, replaced by the answer that
   arrives), and for `QueryCache` (an item is a result of its key, or a revalidation's).
2. Pure operators against reference definitions: the manifest's removal of duplicates,
   `unNull`, the merge of JSON variables.

## 8. Not modelled

- *Stateless translations and I/O*: the configuration loader, OpenAPI data source, query
  planner, interpolation and response transformation, webhook proxy, file upload,
  configuration validation, the SDK's code generation and introspection, the clients, the
  hosted API's clients. Their input decides their output; nothing that another actor does
  in between matters.
- *The exchanges with identity providers* beyond their success or failure, and the CSRF
  middleware, a library that keeps a cookie of its own. Two first requests of a session each
  set one, and the refused token of the other tab resets the session.
- *The hooks server*, which appears as what its callers see of it.
- *Generated code* (`pkg/wgpb`, the servers under `examples/`), documentation, examples and
  test applications.

`PROJECT.json` names each part with its reason.
