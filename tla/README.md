# A formal model of bunt

TLA+ modules about the stateful parts of the `@bunt/*` packages, TLC
configurations that check them on small instances, and theorems that TLAPS
checks for every instance.

bunt is a set of TypeScript packages that run in one Node.js process: one event
loop, no threads. What is hard about it is what happens between two `await`s:
which step of which caller runs first, what was read before an `await` and is
used after it, what a rejected promise leaves behind, and, for the queue, what a
process or a connection that ends leaves in Redis. An action of these modules is
therefore the code between two suspension points, whole; the interleavings are
those the event loop and the outside world can produce.

## Inventory

| Package | Component | State | Operations | What makes it correct |
|---|---|---|---|---|
| queue | list and concurrency queue (`QueueListAbstract`, `ConcurrencyQueue`) | `#subscribed`, `#state` (the promise of `listen()`), the set of running handlers, watchers | `listen`, `handle`, `subscribe`, `unsubscribe`, `dispose` | `unsubscribe()` resolves, and then nothing runs; the limit holds; what was read is settled |
| queue | transaction queue (`RedisQ2Reader`, `RedisQ2ReadOperation`) | three Redis lists, the reader's connection | read = BRPOPLPUSH, commit = LPOP, rollback = RPOPLPUSH | no message is lost before its handler succeeded; the watchers are told the truth |
| queue | transport, plain queue, dispatcher (`RedisTransport`, `RedisQueueReader`, `Dispatcher`) | connections, lists and readers registered for disposal, one Redis list | LPUSH, BRPOP, `subscribe`, `dispose` | never handled twice or in another order; disposal leaves nothing running and no verdict untold |
| queue | publish and subscribe (`SubscriptionManager`, `Subscription`, `SubscriptionIterator`) | subscriptions per channel | `on`, `off`, `ensure`, `emit`, `dispose` | subscribed at the server exactly while somebody listens; every message to every listener, once |
| queue | `RateLimitedQueue` | slots, pending promises, an interval | `enqueue`, `dispose` | so many per window, and nobody waits for ever |
| async | `Defer`, `AsyncPool` and its iterator, `AsyncCallback` | queues of values and of waiting consumers | `push`, `pull`, `reject`, `next`, `return`, `dispose` | every value to those it is for, in order; nobody hangs after the end |
| unit | `Heartbeat`, `Runtime`, `Disposer`, `dispose()` | whether a life has ended, what to dispose | `enqueue`, `kill`, `dispose` | each resource is disposed once, in order |
| unit | `Context`, services | cached contexts, promises of services, disposables | `apply`, `resolve` | services are shared, what they made is noted |
| task | `Runner`, `TaskIterator`, limiters | pending and running tasks | `enqueue`, `process`, `destroy` | within the limits, and every task is run |
| ws | `WebSocketServer` | servers of routes, connections, who has answered, the ping queue | upgrade, keep-alive, `dispose` | the limit of connections; only the mute are terminated |
| ws | `GQLProtoLayer` | one connection's operations | `run`, messages, close | an operation ends with its connection, and its end is told |
| web | `WebServer`, `Responder` | sockets, responses | `handle`, `respond`, `dispose` | a request is answered once, and truly |
| web | CORS, responses, cookies, header maps | the headers of one answer | `validate`, `respond`, `send` | who sets a header last wins, the origin is told the same, of what reaches `send()` at all |
| app | `Application`, `Unit`, `Route` | routes, in a set and in an index | `add`, `remove`, `run` | the right action for a request |
| app | `Resolver`, body transforms, `QueryString` | the stream of a body, a form under way | `validate`, `getBuffer`, `push` | all of the body arrives |
| input | the types | none | `validate` | what is accepted conforms to its type |
| util | `Logger` | transports, writers, writes under way | `add`, `set`, `log`, `dispose` | one writer for each transport attached, no write left behind |
| fs | `FileStorage`, `FsBucket`, `MinIO` | a map of buckets; the store | `ensure`, `save`, `put`, `write`, `remove` | what is answered is what is stored |
| util (rest), date, cli, is, assert, type, `DSN`, `EnvReader`, MIME table | helpers, strings, I/O | little or none | | |

The parts meet as follows. A queue list is created by a transport, which also
makes its reader and registers both for disposal (`unit`'s `Disposer`, in the
order of registration). The list calls the reader and the user's handler, and
through the handler's reply the transport again. Nothing but Redis connects two
lists or two processes. A web server is an application: its `Responder` is the
request that `run()` gets, whose body the payload's resolvers read and whose
state the types validate; a unit runs the action in a context, and what the
action settles with goes back to the responder. A WebSocket server takes
upgraded sockets from a web server and has the same routes. The runtime starts
all of these as tasks and disposes of them by their heartbeats; the logger is
the last it disposes of.

## Modules

| Module | Models | Used by |
|---|---|---|
| `QueueList` | one subscription over any reader | `MCQueues`, `RedisQ2` |
| `RedisQ2` | the same subscription with its Redis reader, the lists and the connection | `MCRedisQ2` |
| `MessageLedger` | abstract: where a message may be and what lets it go | `RedisQ2` (`LedgerSpec`) |
| `RedisTransport` | a transport with plain lists, the queue and the dispatcher in front of it | `ListTransport`, `MCQueues` |
| `RateLimited` | the rate limited queue | `Limiters` |
| `Subscriptions` | publish and subscribe: manager, iterators, connection, server | `MCSubscriptions` |
| `Deferred`, `AsyncPool`, `AsyncCallback` | deferreds, pools with their iterators, callbacks | `Library`, `MCQueues` |
| `Runtime` | the process: tasks, heartbeats, kills, disposal | `MCRuntime` |
| `Contexts` | units made at once, their contexts and services | `Library` |
| `Runner` | a task runner: its processes, iterators, runs and concurrency limiters | `MCRunner` |
| `FixedWindow` | the limiter with a window, over time | `Limiters` |
| `GqlLayer` | one GraphQL connection: its loop, its subscriptions, its close | `WebSockets` |
| `WebSocketServer` | upgrades, the limit, keep-alive, disposal | `WebSockets` |
| `Application` | routes, and a request up to what `run()` settles with | `WebServer` |
| `WebServer` | a request from its arrival to the end of its answer | `MCWebServer` |
| `RequestBody`, `Input` | bodies and forms, types | `MCLibrary` with `MCRequestBody`, `MCInput` |
| `Answer` | the headers of one answer | `Library` |
| `Logger`, `FileStorage` | the logger, the object store's client | `Library` |
| `Limiters` | the two limiters of a window side by side, and that both keep their limits | `MCQueues` |
| `WebSockets` | a GraphQL connection and a WebSocket server side by side, and what the server promises | `MCWebSockets` |
| `Library` | contexts, headers, the logger, the storage, a pool and a callback side by side, and what each promises | `MCLibrary` |
| `ListTransport` | the Redis transport, its constants and variables named apart from the others', and what it promises | `MCLibrary` |
| `RedisQ2Proofs`, `QueueProofs`, `RuntimeProofs`, `RunnerProofs`, `SubscriptionsProofs`, `WebServerProofs`, `WebSocketsProofs`, `LibraryProofs` | theorems | |

`Limiters`, `WebSockets`, `Library` and `ListTransport` give components that share
nothing one name space, in which the runs and the theorems state the same
properties. Three of the modules that TLC runs put several of these side by side
(`MCQueues`, `MCWebSockets`, `MCLibrary`): a variable `part` says which of them a
behaviour is about, and the others keep their initial states. The state space is
the sum of the parts' and not their product, and every part has its own
fairness. The parts that are composed for what they do to each other are
`RedisQ2` (with `QueueList` inside), `WebServer` (with `Application`),
`RedisTransport` and `AsyncPool` (with `Deferred`).

### QueueList

The state is that of the class plus what its suspended calls remember. `loop`
has a record for each invocation of `listen()`: reading, flushing (it waits in
`enqueue()` because the limit was reached), draining (the flush after the loop)
or ended; `batch` is the set of promises its `Promise.allSettled` was given.
`#state` is the invocation the list holds. `call` has a record for each call of
`unsubscribe()`, which reads `#state` only when `cancel()` has settled. `phase`
follows a message through `handle()`. `told` and `succeeded` are history: the
statuses the watchers were given, and the messages whose handler and reply went
through.

| Code | Actions |
|---|---|
| `listen()`, `ConcurrencyQueue` | `ReadMessage`, `ReadNothing`, `Flushed` |
| `handle()`, `fire()` | `HandlerReturns`, `HandlerReplies`, `HandlerThrows`, `ReplySent`, `ReplyFails`, `Committed`, `RolledBack`, `RollbackThrows` |
| `subscribe()`, `unsubscribe()` | `Subscribe`, `Unsubscribe`, `Cancelled`, `Unsubscribed` |
| `dispose()` | `Dispose`, `ReaderClosed`, `DisposeUnsubscribes`, `Disposed` |
| the process | `Crash`, `Restart` |

Two details of the code shape the model. `fire()` stands inside the `try` of
`handle()`, so a watcher that throws when it hears of a commit sends the
committed message to `rollback()` (`Committed`, second disjunct). And a watcher
that throws when it hears of a failure rejects `handle()`; `enqueue()` has
derived a promise from it with `finally()` that nobody handles, and no handler
for unhandled rejections exists in the repository, so the process ends
(`RollbackThrows`).

`Overlap` says whether callers subscribe again before `unsubscribe()` has
resolved. The code does not forbid it; the tests await.

### RedisQ2

Adds the lists, the order of the sends, and `pipe`, the commands of the reader's
one connection that have no reply yet. They are executed in order, and a
BRPOPLPUSH on an empty channel holds up those behind it. Executing a command and
running the continuation of its reply is one step, because nothing else can come
between: the lists a reply depends on have one writer, the connection itself,
and senders use another and write the channel's other end. Where they do come
apart, there is an action for it: `ProcessCrash` may execute the first command
of the pipe and lose its reply, and so may `ReplyLost`, after which the client
issues the command again, as ioredis does by default. A reply that is lost because
the reader is disposed of is that followed by `ConnectionClosed`, which rejects what has no reply.

`Malformed` are the messages `read()` takes for nothing after they have been
moved to the backup: those `unserialize()` refuses and those with a falsy payload.

Redis and ioredis are external: they are modelled from how the code uses them.

### MessageLedger

A message is unsent, in the channel, in the backup, in the fallback, or gone;
it goes only after the work on it succeeded. `RedisQ2!PlaceOf` maps the lists to
places.

### Subscriptions

A record of the manager is known by the iterator that created it; `record`,
`listeners` and `pending` are `#subscriptions` and what it holds. `unreplied` are
the commands without a reply, in the order they were issued in, `executed` how
many of them the server has executed, and `wire` the replies and messages on
their way back. What the manager believes
(`record`, `pending`), what the client remembers for its next connection
(`acked`) and what the server does (`server`) change at different times, and the
properties say how they are related all the same. `made` are the iterators in
the order they were made in, which is the order of each record's list. `emits` are the
loops of `emit()` under way: nobody awaits `emit()`, and `safeMap()` awaits after each
listener, so that of the loops of several messages the one goes on that has waited
longest (`Gives` puts it behind the others), and callers come and leave in between.
What one read of the client's socket brings is handled in one turn, so the loops of
several messages may begin before any goes on (`reading`). A break, or any other event of
the connection, is an event of its own, and finds the loops run out (`Idle`). `malformed`
are the messages that an iterator's parser throws on, which `safeMap()` passes over
without awaiting; `Throwing` says for which iterators that may happen. `watched` are the records
whose deferred somebody waits for: a rejection of any other is unhandled and
ends the process (`alive`), and so does the rejection of an UNSUBSCRIBE that
`off()` issued.

| Code | Actions |
|---|---|
| `Subscription` (an iterator is made, destroyed) with `on()`, `off()` | `Iterate`, `Off` |
| `ensure()` | `Ensure` |
| `dispose()` of the manager and of its Redis subclass | `Dispose`, `ConnectionClosed`, `DisposeLists` |
| the replies; `emit()` begins | `Read` (`Replied`, `Emit`) |
| `emit()` goes on after its await | `HandOn` |
| the client's connection, the server | `Execute`, `Publish`, `Break`, `Reconnect`, `GiveUp` |

The client is ioredis with the options `createConnection()` leaves at their
defaults: it issues commands without a reply again, subscribes again to what it
was subscribed to, and rejects what waits after its last retry. A client that is
told to disconnect while it waits to connect again (`conn = "stuck"`) only stops
trying: it settles nothing afterwards. `since` is history: from which message on
an iterator may count on them, because its channel's `ensure()` had resolved or
the connection had come back.

`MessagesArrive` says that an iterator misses nothing from then on (`NothingMissed`), is
given nothing twice (`NoneTwice`), and nothing late (`InOrder`). The last has two
provisos, for without them it is false in the code: the loops of two messages are one
listener apart, and where a listener between them leaves (`stirred`), or its parser
throws on the later message alone (`ParsedAlike`), the later loop overtakes the earlier
one, and hands its message to the listeners behind first.

### Runtime

A task and the object it returns are one element of `Tasks`; `Runnables` have a
heartbeat, `Disposables` a `dispose()`. `life` is a heartbeat's deferred, `jobs`
how many jobs it has running. `kill` has a record for every call of `kill()`:
what it waits for, and what is left of the runtime's list, which the first call
to come to it takes (`entered`). `resource` is dispose()'s WeakSet and what has
become of the call: a second call for an object that is being disposed of returns
at once, which is the point of the module.

A heartbeat disposes of its own object (as all of the repository do), or of a
function. A job that fails before `watch()` listens to the heartbeats rejects a
promise that nobody handles, and the process ends (`process = "crashed"`).

| Code | Actions |
|---|---|
| `run()`, `handle()` | `TaskStarts`, `TaskFails` |
| `Heartbeat` | `JobEnds`, `JobFails`; its `dispose()` in `KillHeartbeats` |
| `watch()`, signals | `WatchStarted`, `WatchEnds`, `Signal` |
| `kill()`, `Disposer`, `dispose()` | `KillHeartbeats`, `KillRuntime`, `KillWalks`, `KillLogger`, `KillEnds`, `ResourceDisposed` |

`RuntimeKilled` is a run that fails, and shows a defect. A signal kills; the kill
disposes of the heartbeats, which settles them; that wakes `watch()`, which kills
too. The second kill finds the heartbeats settled and the objects guarded, waits
for nothing and exits the process while the first still disposes.
`src/packages/unit/test/src/Runtime.test.ts:15-17` expects disposal to be over
when `kill()` is. As long as no signal has come, it is: `SingleKillIsClean`.

### Runner

`pc` is how far each `#process()` is, `run` has a record for each call of
`enqueue()`, which a process starts and does not await, and `store` holds what
the application keeps of a task. `InFlight` is the process's `pending`, `Queue`
that of a limiter. `open` counts the iterators that have not been disposed of.
`failures` and `again` are history: how often an action threw, and how often it
asked to be run again.

| Code | Actions |
|---|---|
| `#process()` | `FactoryReturns`, `FactoryThrows`, `Admitted`, `Closed`, `Slept`, `Drained` |
| `TaskIterator.next()`, `return()` | `PollTakes`, `PollEmpty`, `PollThrows`, `CloseThrows` |
| `enqueue()`, `getTaskUpgradeState()` | `RunReturns`, `RunThrows`, `Written`, `WriteThrows` |
| `dispose()` | `Stop` |
| the clock | `TimePasses` |

While the heartbeat beats, a process takes one task of an iterator, leaves it by
`break` and sleeps; once it has stopped, it takes all that is left. A run starts
before its limiters are asked. A poll that throws, unlike one that finds
nothing, leaves its iterator undisposed (`IteratorsAreReleased` says where).
The count of fails is never reset: an action that asks to be run again keeps it.

The store is the application's. `Claims` says whether a poll marks the task it
hands out as running, for which the states of `ITask` exist; the `TestQueue` of
the package does not, and hands out the same task again while it runs.
Configurations without `dispose` (what was run is written nowhere) are left out, and
`runAt` is either past or not yet past, whatever the date.

### FixedWindow

Frames and timers are kept as ages, not dates, so that the state space is finite
while time goes on. An age that no comparison of the code tells from an older
one is not counted further (`Oldest`). Timers may be late. A task is counted in
the last frame, which may be older than the window and is then dropped with the
count (`Kept`); and a frame bears the time of its beginning. `Total` adds the counts of
frames, or of ages, as the number of cells they fill, which needs no recursion.

What is limited is therefore a window shorter by a frame: it sees at most the limit and one
start for each caller. The whole window sees at most
`2 * (Limit + Cardinality(Callers) - 1)`, twice what the callers can have counted when they
overshoot together (`StartsAreLimited`). Twice the limit and one for each caller,
which two callers keep, is not the bound: three that find the limit reached, wait, and
find room together when a frame is dropped, overshoot twice. The attempt to prove that
bound failed there, and TLC shows the behaviour with three callers.

### RateLimited

`slots` and `pending` are those of the class, `started` is history: how many
were let through since the last refresh. `refresh()` counts slots and pending
before it lets the pending go, so those take of the new window; what was let
through and what still may be is the limit at any time (`RateIsKept`). When more
wait than the limit, `new Array()` of a negative length throws in the timer's
callback and the process ends (`RefreshThrows`).

### RedisTransport

`outbox` holds the pushes the main connection has no answer to, `arrived` how
many of them the server has executed: a connection that breaks in between makes
the client push again. A message that BRPOP has popped for a reader whose
connection breaks is gone. `closed` are the connections whose first "close" has
come: their state is forgotten, and nobody waits for a later one (`AwaitClosed`).

`agenda` is, for every caller of `dispose()`, what it has left to walk; each
thing puts what it disposes of in front (`Walks`), and what somebody has begun is
passed over (`Skips`), which is the guard of `Dispose/functions.ts`.

| Code | Actions |
|---|---|
| `send()`, the client, the server | `Send`, `Push`, `Acknowledged`, `Connect`, `Break`, `Close` |
| `Dispatcher.subscribe()`, the loop of a list | `Subscribe`, `Pop`, `Read`, `ReadNothing`, `HandlerSettles`, `HandlerReplies`, `GoesOn` |
| `dispose()` of dispatcher, queue, transport, reader, list | `CallDispose`, `Skips`, `DisposeDispatcher`, `DisposeQueue`, `DisposeTransport`, `AwaitClosed`, `DisposeRegistered`, `DisposeReader`, `DisposeList`, `Unsubscribe`, `AwaitLoop`, `Reset` |

### AsyncPool, AsyncCallback, Deferred

A `Defer` has a promise and a state that an event emitter settles apart from it;
each is settled once by each event (`Emitted`). A pool has one of them at a time
for all who wait (`pending`), and one that `reject()` makes for nobody is a
rejection that nobody handles (`Unhandled`). The factory of an
`AsyncIteratorFactory` is given a control it may keep and use after its promise has
settled (`PushRefused`).

`AsyncCallback` asks `if (value)`: a falsy value is shifted and not given
(`dropped`), and `pull()` tries twice, so the third value may be lost sight of
when two falsy ones stand before it. `CallbackDelivery` says what is kept all the
same.

### Contexts

`step` is how far the `apply()` of a unit is in the references of its context
(`Refs`, its own class first), `promise` and `runs` are the services' and how often
each was asked. Units that find the cache empty resolve in parallel; the last to
finish is cached. `disposables` holds values, by the run that made them. A `resolve()` that
throws before it returns a promise leaves none behind, and is run again for whoever asks
next (`Throws`).

### Application, WebServer

`stage` is how far a request is; `acted`, `reports` and `head` say what became of
it: whether its action ran, what the transaction handlers were told, which code was
sent. A connection is named by the request it carries, and an idle one may be
taken over by a later request (`Connects`). A pattern is the set of targets it
matches. A result is thrown or returned, and its kind is an error's class or what
`respond()` tells apart; `Outcomes` are all of them, of which `Results` are those
an action of the instance ends with. Resolvers, validators and what loads an action are
functions of the application's as well: `Failures` are the kinds of what they may throw
before the action has run, errors or not. `respond()` does not ask whether its argument
was thrown, so that a response thrown by a resolver is sent with its own code, and a text
with 200; the error handler is told of it all the same, by `Unit.watch()`. A `ServerError` brings a code of its own
(`OwnCode`, taken to be that of a failure); `Codes` are those that responses carry.

The headers and the content of a response may be promises, which may not settle, and a
stream may not end: then the request stays as it is (`Stays`, the stage `stuck`).
`Responder.send()` listens to the events of the response and not to those of the stream,
whose error `pipe()` does not pass on: nobody listens to it, and the process ends
(`StreamFails`, `web = "gone"`).

| Code | Actions |
|---|---|
| `add()`, `remove()` | `AddRoute`, `RemoveRoute` |
| `handle()`, `run()` | `Arrive` (with `Run`), `Resolve`, `Load`, `Act` |
| `respond()`, `send()` | `Respond`, `GetResponse`, `Stream`, `StreamFails`; `Catch` is the catch and finally of `handleRequest()` |
| `dispose()`, the http.Server | `Dispose`, `Closed`, `Leave` |

### WebSocketServer

A request and the connection it becomes are one element of `Requests`. Each route
gets a `ws.Server` when it is first asked for. Connections that are kept alive may be
upgraded while the web server closes. Time is the age of what stands in
the ping queue; a client that answers does so within `pingTimeout` (`Unanswered`),
the interval may be late. `KeepAlive` is all of one call: from the front of the queue
those whose ping is due and who have answered are pinged and queued again, up to the first
who has not answered, who is terminated, or whose ping is not due; those behind wait for
the next call.

| Code | Actions |
|---|---|
| `handleUpgrade()`, `handle()` | `Upgrade`, `Validated`, `Accept`, `ActionEnds` |
| `#keepAlive()`, the clients | `KeepAlive`, `Pong`, `Mute`, `Closed`, `TimePasses` |
| `dispose()` and the web server's | `Dispose`, `ServersClosed`, `WebDisposed`, `WebClosed`, `Disposed` |

### Input, RequestBody, Answer

`Input` is `validate()` of every type as a recursive operator (`Validate`) over
values and types that are tuples. A verdict is the value or the set of paths to
what is wrong, which is what `toSafeJSON()` shows of an error. `Conforms` is the
reference definition it is checked against: what a type promises of a value. An `Enum`
looks for a name by `in` and therefore takes those that every object inherits
(`Inherited`), of which a function comes out: its part of `Conforms` says so.

`RequestBody` runs the resolvers of a payload one after the other over one
stream. `Inject` is `QueryString`'s, `Part` an event of the multipart parser. A form is a
tree whose nodes keep their entries in the order of `Object.values()`, because a numeric
name makes a list of the values that an object has by then. `BodyIsWhole` says that every
field is in the tree, and excepts forms whose names come out of order (`InOrder`).
`Answer` follows the headers of one answer through the validator, the response,
its cookies and the server's options; a map is a function of lower-case names, and to
put entries on it is to put the last of each name over what it had (`PutAll`). Each
cookie is a header of the same name, so a cookie wins over a `set-cookie` of the
response's own, and the server's options over both (`LastWordIsKept`). Some answers never
reach `send()` and have nothing of this (`bare`): the 500 of an OPTIONS request for a path
without routes, whose `RouteNotFound` the validator throws and `handle()` throws again;
that of a response that cannot be composed (`BodyFails`); and results that are null, a
list or a function, which `handleRequest()` ends without a head of its own (`EndsBare`).

### Logger, FileStorage

`writing` is the logger's own set, `writes` are the writes that have not settled,
by the message and the call that attached the transport (`attached`): a transport may be
attached twice, or again after it was closed, since `add()` asks nothing. `called` are the calls
whose transport has been told to close. `set()` does not await its reset, `dispose()`
does (`ResetOf` is what it awaits), and a `close()` that throws leaves the lists
emptied (`DisposeThrows`, `SetThrows`). `FileStorage` has one bucket and one name:
calls on others do not meet. What an object holds is known by the call that wrote
it; its ETag counts the writes. A call to the store may go unanswered, with its
effect or without (`Unanswered`): the driver tries nothing twice.

### GqlLayer

`inbox` is what the connection's `AsyncCallback` has received and the loop of
`run()` not yet read; `reader` is how far that loop is: it asks for the next operation
(`Pull`), waits for it, or has been given it. The callback drops what is falsy, as in
`AsyncCallback`: JSON that is null, false, 0 or an empty text is dropped when it was queued, and
is a wrong message when the loop was waiting for it. After two such the loop waits
although operations may be left in the queue, and the next one that comes is read before
those; `InitializedFirst` excepts clients that send two. `sub` has a record for
each call of `createSubscription()`, which nobody awaits, and `subscriptions` is
the map from ids to calls. `received`, `inited`, and in `sub` the fields `nth`,
`late`, `told` and `inits` are history.

| Code | Actions |
|---|---|
| the socket | `Receive`, `Closing`, `CloseEvent` |
| `run()`, `handle()` | `Pull`, `ReadSubscribe`, `ReadComplete`, `ReadInit`, `Initialized`, `InitThrows`, `ReadPing`, `ReadBad`, `ReplySent` |
| `createSubscription()` | `SubscribeReturns`, `Throws`, `Yields`, `Sent`, `Left`, `Done`, `ErrorSent`, `CompleteSent` |

A call enters the map when its `#subscribe()` has settled. A `complete`, or the
close event, that comes before finds nothing to stop; an id that is used again
replaces the entry of the first call. The first ends at its next value, which
cannot be sent once the connection is closed (`AllEnd`); until the connection
closes nothing ends it. What was received before the close is read after it.

`send()` fails when the connection is not open, and when no text can be made of what it
is to send. Then the iteration is left and what was thrown is reported (`Yields`, `Left`).
An object that an iterator throws and that is no `Error` is sent as it is; if that fails
nothing else is sent, and the client never hears of the end (`untellable`).

Left out: text that cannot be parsed, whose exception leaves the socket's event
handler, and the interval of pings.

`GqlFinish` is a run that fails. The loop of `run()` ends by an error or not at
all: the iterator of a connection is done only after its own `return()`, which only
that loop calls. When the connection closes, `run()` stays suspended, and `finish()`,
"handle done operations read"
(`src/packages/ws/src/Protocol/GQL/GQLProtoHandle.ts:43`), is never called.

## Runs

| Run | Instance | Shows |
|---|---|---|
| `Q2Serial` | 3 messages, one malformed, concurrency 1, throwing watchers, a restart | `NoLoss`, `VerdictIsTrue`, `SentIsTaken`, and the queue implements `MessageLedger` |
| `Q2Faults` | the same with a task, concurrency 2, overlapping loops, a restart and one lost reply | `OnePlace`, `Fifo`, `AsManyGoneAsDone`, `WithinConcurrency` |
| `PubSub` | 4 iterators, three of them on one of two channels, 2 messages, one parser that may throw on one, 1 break | `ServerFollows` (`EnsuredIsSubscribed`, `SubscribedWhileHeard`), `MessagesArrive` (`NothingMissed`, `NoneTwice`, `InOrder`), `CallsSettle` (`ensure()` and `dispose()`) |
| `RuntimeSignalled` | a server, a worker with two jobs, a pool, two signals | `KillIsClean`, `ExitCodeIsTrue`, `DisposedOnce`, `ProcessEnds` |
| `RuntimeKilled` | a server, one signal | fails: `KillDisposes` |
| `RunnerPolls` | 2 configurations, 3 tasks, one retry, a limiter of 1 and a shared one of 2, a marking store | `HandleIsComplete`, `RunsAreCounted` (one run per task, retries), `RunnerGoesOn` (`handle()` settles, every task is taken) |
| `RunnerOnce` | 2 configurations without polling over one store that does not mark, 2 tasks, a shared limiter, all faults, one repetition | `IteratorsAreReleased`, `WithinLimit` |
| `WebSockets` | a GraphQL connection: 2 ids that are used again, 3 operations of which 2 subscribe, falsy ones among them; a server: 2 requests for one route with a payload, a limit of 2 | `ClientIsTold`, `CloseStopsAll`, `AllEnd`; `ServerIsLimited`, `AnsweringAreKept`, `ServerSettles` |
| `GqlFinish` | `GqlLayer` with one operation | fails: `RunEnds` |
| `Web` | 2 requests, 2 routes of which one matches both targets and one has a payload, 7 results, validators that throw an error or a response, resolvers that throw an error, a response or something else, responses with a code of success or of failure | `RequestsAreToldTrue`, `OneRouteOneHead`, `RequestsSettle` |
| `Queues` | a list (2 messages, one a task, limit 2, throwing watchers, one more loop, one `unsubscribe()`, one `dispose()`); a rate limited queue (3 callers, limit 2, concurrency 2); a window of 4 ticks with 2 frames, limit 2 and 3 callers; a transport (1 list, 1 message, 1 break, 1 dispatcher to dispose of); a pool (2 consumers, 3 values, a buffer of 2) | `Quiescent`, `StartsAreBounded`, `WaitersGoOn` |
| `Library` | 23 types by 93 payloads; chunked bodies and forms of three parts; 3 units of 2 contexts; headers, and answers without; 2 callers of the storage; pools and callbacks with 2 consumers; 2 lists, 2 callers of `dispose()`; 2 transports of the logger, attached 3 times | `StatesAreValid`, `ContextsAreShared`, `HeadersAreKept`, `FilesAreStored`, `EveryValueIsDelivered`, `HandledInOrder`, `ShutdownIsClean`, `LogsAreFlushed` |

The type invariants of `QueueList`, `RedisQ2`, `Runtime` and `Runner`, and
`NothingEarly` of `Runtime`, are proved, and no run repeats them; those of the
other modules are conjuncts of the invariants above, or of the invariants they are
proved with.

Bounds. `Messages` bounds what is ever sent; `Loops` bounds subscriptions and
restarts together; `Calls` bounds `unsubscribe()`; `MaxDrops` lost replies. Two
loops are the least with which one can be mistaken for another, three messages
the least with which a leftover, a message in hand and a message behind them are
in Redis at once (and with which a limit of two is exceeded). A behaviour of
`PubSub` begins in one of four states: three iterators listen to one channel; one does, and another
may come; or none does, all messages were published before, and the commands of two channels, or
of one that two iterators subscribe to, are all there is. Three listeners are the least with
which one can leave between two loops and another hears of it, two iterators the least with which a
record is left, replaced and joined, and two messages the least that overtake each
other. All from one initial state is out of reach of TLC; the theorems are about any number of
each. `MaxRuns` bounds
the calls of `enqueue()` and `MaxAgain` the repetitions an action asks for: in
`RunnerPolls` 6 runs are more than its three tasks can have, so that the
liveness properties do not hold for want of runs. `RunnerOnce` exchanges its two
configurations and its tasks (`MCAlike`), which it does not tell apart.
`MaxMessages` bounds what a client sends, and `MaxCalls` how many of it are to subscribe; with 3
and 2 it can subscribe twice with one id and complete it, or send two falsy operations and
one behind them that is not read. That a fourth is read before that one is beyond the bound;
`LayerInvariant` is about any number. `MaxSent` and `MaxBreaks` bound a transport, and `MaxSteps` in
`Library` both and the disposals together: 3 let a disposal overlap another with a
message under way, or follow a break with one. `MaxPushed` and `MaxEmitted` bound
values: one more than the buffer, or the consumers, hold. `MaxLogs`, `MaxAdds`, `MaxWrites`
and `MaxCookies` bound messages, attachments, objects and cookies; two of a kind can
overtake or replace each other, three writes put one between a put and its stat, and three
attachments of two transports attach one of them again. A limit of 2
lets one WebSocket in, because a connection counts itself; a third request
changes only who that is. Three callers are more than the rate's limit, which its
`RefreshThrows` needs, and the least that overshoot a window twice. The behaviours of
`FixedWindow` and the server's ping queue are not bounded.
`Web` with a third request is out of reach of TLC, and two suffice to have a route
removed, or the server closed, between any two steps of one while the other takes over its
connection. The payloads of `Input` meet and miss every branch of every type, and
nest three deep.

No run checks for deadlock (`CHECK_DEADLOCK FALSE`): with its messages sent and
its calls made a list, a runner, a connection or a request is done, and a process that has
exited does nothing. What must not stop is said by the liveness properties.

Fairness. A read ends because BRPOP has a timeout, a handler because the
application ends it, and a settled promise runs its continuation. Nothing is
assumed of callers, senders, disposal or crashes. In `Runtime`, that the
`dispose()` of an object ends; of tasks, jobs and signals nothing. In `RedisQ2`, fairness is of
the loops and of each message's handling. In `RedisTransport`, the server answers,
a connection is tried again, and one that was told to close closes. The same goes
for `Subscriptions`, whose loops of `emit()` go on. Intervals
and timers fire (`RateLimited`, `FixedWindow`, `WebSocketServer`). In `WebServer`,
bodies arrive, actions end, and the content of an answer comes and is read while the client
is there, or never comes, which is a choice of the model (`Stays`); an
idle connection is closed by its client or by the server's keep-alive timeout. In `WebSocketServer`
a client that answers does, but nothing makes a client leave: `dispose()` ends if
all do. The factory of a pool need not settle.

### What does not hold, and why no run says it should

Commits name no message: LPOP drops the left end of the backup. `NoLoss` is
true because at concurrency 1 that end is the message in hand. TLC finds it
violated when the concurrency is 2 (a commit drops the entry of a neighbour
whose handler then fails), when a list is subscribed again before
`unsubscribe()` has resolved, and when a reply is lost and the command issued
again while the backup holds a leftover. No document, comment or test of the
repository promises otherwise, so they are limits rather than disagreements.
`AsManyGoneAsDone` is what remains true with two handlers.

In the same way, and with the models saying so:

- a rate limited queue on which more callers wait than its limit ends the process (`RefreshThrows`);
- an `AsyncCallback` drops falsy values (`dropped`), and with two of them its order; a client of
  a GraphQL connection that sends two may have its subscription read before its initialization (`Pull`);
- an end of a subscription is not told if no text can be made of the error (`untellable`);
- two messages change their order for a listener behind one that leaves between them, or whose parser throws on the later alone (`InOrder`);
- what a resolver throws is answered like a result, with success if it is no error (`Respond`; `AnswersAreTrue` has the case);
- a content that never comes leaves its request as it is, and `dispose()` waiting for it (`Stays`);
- a stream that fails while it is sent ends the process (`StreamFails`);
- an answer that never reaches `send()` has neither a content type nor the server's headers (`bare`);
- an `Enum` accepts names that every object inherits (`Inherited`);
- the logger attaches a transport again after it was closed, and writes to it (`Add`);
- a service whose `resolve()` throws at once is run again for the next who asks (`Throws`);
- the transport's count of connections, and what `dispose()` waits for, are right only until the first break;
- `maxConnections` admits one connection less than it says, because the connection counts itself (`ConnectionsAreLimited` says fewer);
- an answer whose client leaves while a stream is sent neither finishes nor fails: its handler waits for good (`Stream`), and `RequestsSettle` excepts clients that left;
- names of a form that come out of order replace each other (`InOrder` is the premise of `BodyIsWhole`);
- of several cookies the last is sent (`CookieHeader`);
- `save()` of a bucket that another call has just made rejects (`SavedExists` speaks of the bucket, not of the call).

## Proofs

### The queue

`RedisQ2Proofs` proves, for any finite set of messages, any loops, calls and limit:

- `TypeCorrect`, `Q2TypeCorrect`: the type invariants.
- `SerialInvariant`: with awaited calls (`Overlap = FALSE`) the invariant `IInv`.
  None of the properties is inductive alone. `Quiescent` speaks of a resolved
  call, and needs to know that the loop it waited for was the last one
  (`OneLoop`, `Waiters`), that nobody can have started another meanwhile
  (`Stopping`), and that a handler runs only under a live loop whose batch, if
  it is waiting, holds it (`Covered`). The limit needs to know that a loop below it
  is not waiting (`Bounded`).
- `UnsubscribeIsQuiet`, `HandlersAreBounded`: `Quiescent` and
  `WithinConcurrency` follow from it.
- `ImplementsQueueList`: each step of `RedisQ2` is a step of `QueueList` or
  leaves it alone, so everything above holds of the Redis queue
  (`Q2UnsubscribeIsQuiet`).
- `NothingIsLost`: `NoLoss`, for `OneAtATime` (concurrency at most 1, awaited
  calls, no lost reply). `RedisInv` adds to `IInv` that the pipe holds at
  most the one command that is waited for (`Pipe`), that the message in hand is
  the left end of the backup (`OnRecord`) and that a commit is only ever under way for
  a message that succeeded (`CommitsSucceeded`). `OneAtATimeInvariant` states it.

And of where the messages are:

- `MessagesAreInOnePlace`, `ChannelIsFifo`: of every queue, whatever its
  concurrency, over overlapping loops, crashes and lost replies. `PlacesInv` says
  that the lists repeat and share nothing and hold only what was sent (`Apart`),
  and that what is in the channel is the end of what was sent (`InOrder`).
- `ImplementsLedger`: the refinement of `MessageLedger` under `OneAtATime`, which
  rests on `OnRecord`: a commit hits the message it is meant for.
- `VerdictsAreTrue`: `VerdictIsTrue` under `OneAtATime`. `VerdictInv` adds that
  nothing is told before a commit or rollback has settled, and that a rollback nobody
  was told of finds its message in Redis (`NotTold`).
- `NumbersAreRight`: `AsManyGoneAsDone` of every queue whose watchers do not
  throw, at any concurrency. With handlers side by side a commit drops any entry;
  the theorem counts instead. `WorkInv`, which `WorkInvariant` proves of every
  queue, pairs the commands in the pipe with what waits for them (`Awaiting`) and
  puts the verdict after the reply (`Early`); `CountInv` keeps the two numbers in
  step: each message being worked on has an entry in the backup to drop. The hypothesis is
  needed: a watcher that throws when it is told of a commit has the committed message
  rolled back as well, which takes the entry of another, whose own commit then finds
  none (TLC finds such a behaviour). `Q2Faults`, which checks the property, has no
  such watchers either.

### The runtime

`RuntimeProofs` proves, for any tasks, objects, jobs and signals,
`RuntimeTypeCorrect`, `NothingIsEarly` (with `PastTasks`: a kill is past the tasks
only when they have settled), `DisposalIsOnce`, and that a kill is clean as long
as no signal has come, `SingleKillIsClean`. The invariant of the last, `CleanInv`, follows an object
from the runtime's list to what is left of it in the walk to disposal (`Listed`,
`Walked`, `Gone`), and knows that whatever is being disposed of is waited for
(`Held`): that is what a second kill breaks. `ExitCodeTellsTheTruth` proves
`ExitCodeIsTrue` from `CodeInv`: what `watch()` had found when it killed is still so,
because what has settled stays settled.

### The task runner

`RunnerProofs` proves, for any configurations, tasks, limiters, retries and
faults:

- `RunnerTypeCorrect`, together with `IteratorsAreDisposedOnce` (the count
  of iterators is a number because each is disposed of once: `Iterating`).
- `HandleCompletes`. `EndInv` adds that a process that
  has ended has nothing under way (`EndedIsQuiet`), and that a task that is marked
  is held by a run that will write a record without the mark (`MarksAreHeld`).
- `LimitersHold`: `WithinLimit`. A limiter is asked after a run has started, so
  the runs of the processes that share it are over the limit for a while. That they
  are no more than one over for each further process is not inductive: `CountedSince` says it of
  the runs that were started after any one of them, against the processes that have been held
  up since.
- `RetriesHold`: `RunsAreCounted` of a store that marks (`Claims`) when no two
  configurations poll the same task (`OwnTasks`, as in `RunnerPolls`): with two
  that do, each has retries of its own. `TaskInv` says that a marked task is in one hand,
  and what that run knows of its fails.

### Publish and subscribe

`SubscriptionsProofs` proves, for any channels, iterators and messages, over any
breaks:

- `ServerFollowsManager`: `ServerFollows`. Its invariant `CommandsInv` is three layers.
  `Based`: types, a reply on the wire for each executed command (`RepliesCount`),
  nothing under way while there is no connection (`Apart`), every record made by an iterator.
  `Belief`, as long as the process and its connection live: a record is kept while it
  has listeners, its SUBSCRIBE is under way, once, only while its deferred is pending, an
  UNSUBSCRIBE stands between two SUBSCRIBEs of a channel, and the last command of a
  channel is what its record asks for. `ServerIsTold`: the server is subscribed to
  a channel exactly when the commands it has executed say so, or, when it has
  executed none, when the client remembered it.
- `EveryMessageArrives`: `MessagesArrive`. `MessagesInv`, which `MessagesInvariant` states, adds that the
  channel of an iterator that counts on messages is attended (`Attended`); the order of publication to
  what is on the wire and what a loop has begun with (`Order`); and how the loops go on (`Handing`).
  `NoneTwice` and `InOrder` need to know of every loop that who was given its message
  is behind its place, and nobody beyond was given a later one (`LoopsFit`). That is not
  inductive, since what a loop may do next depends on the others: in a channel that nobody has
  left in mid-message the loops follow each other at most a listener apart, the
  one behind first to go on (`LoopsFollow`), and those begun in one turn are at the same
  listener (`Together`).

### Requests

`WebServerProofs` proves, for any requests, routes that come and go, results and
connections, `AnswersTellTheTruth` (`RequestsAreToldTrue`) and `OneRouteAndOneHead`.
`WayInv` says for each stage of a request what its answer, its
result and what was reported of it have to do with each other (`Way`), whatever resolvers and
validators throw and whatever becomes of the content, and that the index
is the list of routes. That the route found is the oldest that matches needs the
least element of a set of numbers, which the library's theorem on well-founded
relations gives.

### Connections

`WebSocketsProofs` proves, for any ids, used again or not, and any number of operations,
`CloseFindsAll` (`CloseStopsAll`) and `ClientsAreTold` (`ClientIsTold`). `LayerInv`
adds that the calls in the map are numbered as they entered it
(`EntriesAreNumbered`), so that the one an id stands for is the last; and that each operation knows
the initializations before it, as long as no two falsy messages came (`InitsAreCounted`).

Of the server, for any requests, routes, limit and timeout, it proves `LimitIsKept`
(`ServerIsLimited`) and `AnswersAreEnough` (`AnsweringAreKept`: a step of the server
terminates nobody who answers). `ServerInv`, which `ServerInvariant` states, adds
that a connection stands once at most in the queue of its own route, and is gone from the
clients when its action is over (`Queued`); that whoever was pinged and means to answer
has time left (`TimeIsLeft`), which is why the one that is due and silent has ceased
to; and that what is closed has no clients (`ClosedIsEmpty`). One call of the keep-alive
is characterized by how many it pings and whom it terminates (`Walks`).

### The limiters and the transport

`QueueProofs` proves `StartsStayBounded`, for any callers, limits and windows:

- `RateIsKept` is inductive with the types.
- `StartsAreLimited` is far from it. `HeldUp`: what the frames count and the callers that are
  free make at most `Most`, because a caller is free only when it found the limit not
  reached. `FramesInv`: frames are in the order of their age; what started after a
  frame began is counted in it or in a later one (`FramesCount`); a start in a frame
  grown old is counted there, one for each (`LateAreFew`); what
  started within the window is counted or was in the frame dropped last
  (`AllAreCounted`), and what started in the window shorter by a frame is counted but for one
  (`ShortAreCounted`). The two bounds follow. `Total`'s lemmas say how it grows, shifts
  and splits.

And of the transport, for any lists, messages, tasks, breaks and callers of `dispose()`:

- `TransportHandlesInOrder`: `HandledInOrder`. `PlacesInv` orders by their pushes what is in the channel
  (`StoreIsInOrder`), what a reader has popped (`PoppedIsOwn`) and what the handlers
  had (`HeardIsOwn`): the later place holds the older.
- `ShutdownStaysClean`: `ShutdownIsClean`. `NetInv` is about connections and loops: a reply
  not settled has its loop waiting (`RepliesAreAwaited`), and the watcher was
  told of all but the message in hand (`AllButOneTold`). `PlanInv` is about the
  agendas of all callers of `dispose()` together: what follows something that was
  begun is done or on somebody's agenda (`PlansAreKept`); one caller tells a loop to end
  (`OneUnsubscribes`); and ahead of each reset the end of the loop is waited for, by the
  same caller (`ResetsWait`).

### The library

`LibraryProofs` proves, for any callers, units, transports, consumers and values:

- `FilesStayStored`: `FilesAreStored`. `FilesInv` adds that what `put()` wrote is not younger than the
  object (`OwnIsOlder`, `LastIsStored`) and that whoever is about to make a bucket saves one
  (`SavesAreListed`).
- `LogsStayFlushed`: `LogsAreFlushed`. The writers are those of the attached transports, none of them closed by
  the call that attached it (`WritersAreOpen`). The set of writes is that of all writes
  (`AllAreNoted`), and those a waiting `dispose()` does not know were begun after its
  call (`LaterAreUnknown`); so the step that ends its wait finds the others settled
  (`ResolvesWhenFlushed`).
- `ContextsStayShared`: `ContextsAreShared`. Each unit has collected the services of its
  context in their order, as many as its steps (`Collected`), each the value of the one run of its
  service (`OfOneRun`); a context is cached with a unit that is whole (`CachedAreDone`). Only a run that has resolved gives a value,
  so those that threw at once leave nothing.
- `EveryValueStaysDelivered`: `EveryValueIsDelivered`. Of a pool: one deferred at a time, and
  somebody waits exactly while it has not settled (`OneDefer`, `WaitersShare`); that a consumer was given
  values in the order of their pushes is witnessed by their places (`Follows`). Of a
  callback: its queue is in order and behind what was given
  (`QueueIsInOrder`, `QueueIsLater`).
- `HeadersStayKept`: `HeadersAreKept`. `AnswerInv` says whose the headers are at each stage
  (`AnswerStages`), and an answer that is bare keeps those of the validator. That the last of several entries wins needs the greatest of the places
  that bear a name, which the library's theorem on well-founded relations gives.

### Assumptions, and what is only model-checked

The assumptions are those of the modules (`QueueListAssumption`,
`RedisQ2Assumption`, `RuntimeAssumption`, `RunnerAssumption`,
`SubscriptionsAssumption`, `ApplicationAssumption`, `WebServerAssumption`, and, of the components that
are instances, `LimitersAssumption`, `WebSocketsAssumption`, `ListTransportAssumption` and
`LibraryAssumption`): what the constants are, that there
are finitely many messages, callers and configurations, that the results are some of
`Outcomes`, that a unit refers to services, and that names keep their lower case, in which
the code writes its own headers. Hypotheses
beyond them are stated in the theorems. The refinement and the invariants are
checked by TLC too, on the instances of the runs.

Only model-checked:

- the liveness properties, which are beyond the prover: `SentIsTaken`, `CallsSettle`,
  `ProcessEnds`, `RunnerGoesOn`, `AllEnd`, `ServerSettles`, `RequestsSettle`, `WaitersGoOn`;
- `StatesAreValid`, which is about recursive definitions over data: `Validate` of `Input`,
  and the names and parts of forms in `RequestBody` (`Inject`). All other safety
  properties that a run checks and that hold are theorems, but some under a hypothesis that the
  runs need not: `Quiescent` and `WithinConcurrency` are proved of callers that await
  `unsubscribe()`, and with overlapping loops, where the limit is exceeded by one for each, `WithinConcurrency`
  is only checked (`Q2Faults`); `VerdictIsTrue`, `NoLoss` and the refinement of `MessageLedger` are proved
  for one message at a time, and `AsManyGoneAsDone` for watchers that do not throw, which is what their runs
  have as well; `RunsAreCounted` for stores that mark and tasks of one configuration each.

## Not modelled

- A caller that subscribes to a disposed list: its reader answers at once and
  `listen()` spins. Nobody in the repository does that.
- Two processes on one host, which share a backup list.
- A message class whose constructor throws.
- A watcher removed twice.
- A concurrency above 1 in `RedisTransport`: `QueueList` has it.
- A client of Redis that is told to disconnect while it waits to connect again,
  in `RedisTransport`: its commands are taken to end. `Subscriptions` has the case.
- Bodies that the multipart parser refuses, and names of a form that go below a
  value of another: the parser is external, its errors are handled nowhere.
- A transaction handler of an application that throws.
- Text on a WebSocket that cannot be parsed, and the interval of pings of one
  connection.
- `AsyncSingleCall`, whose one use never calls it twice at once; `AsyncState` and
  `AsyncLoader`, which no package uses.
- `DSN`, `EnvReader`, `Argv`, keys and prefixes of channels, escaping of cookies,
  wording of messages, formatting of logs: strings.
- `date` (arithmetic on the host's dates), `cli` (one command, read once), `is`,
  `assert` and `type` (predicates, exceptions, declarations), policies and
  the table of MIME types (data), the remaining helpers of `util` (no state).

## Plan

Every component with behaviour of its own has a module, and every safety property that
the provers can reach is a theorem. What could be added:

1. Two processes on one host over the same backup list, which needs two readers in
   `RedisQ2` and a property that says what of `NoLoss` is left.
2. A concurrency above 1 in `RedisTransport`, with the theorems of `QueueList` carried over
   by a refinement as in `RedisQ2`.
3. Liveness by proof, should the prover come to know `ENABLED`; until then the fair
   specifications are TLC's.
