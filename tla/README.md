# A verification development for jlib

jlib is a JSON-RPC 2.0 library in Go with clients and servers over HTTP/1.1,
websocket and HTTP/2, a schema validator, command line tools and an example
service.  This directory holds TLA+ modules translated from its source, TLC
configurations that check them on small instances, and theorems about them that
TLAPS proves for all instances.  File names below are relative to the root of
the repository.

## 1. Inventory of the system

| Component | Sources | State it keeps | Operations |
|---|---|---|---|
| Streaming client: calls | `http/streaming_client.go` | `pendingRequests`, one `resultChannel` and one timer per call | `Call`/`request`, `Send`, `handleResult`, `expire` |
| Streaming client: connection | `http/streaming_client.go`, `http/ws_client.go` | `ws`, `cancelFunc`, `sendChannel`, `closeChannel`, `closeHandler`, `connectLock` | `Connect`, `Wait`, `Close`, `Reset`, `handleError`, `sendLoop`, `recvLoop` |
| HTTP/2 transport | `http/h2_client.go` | `resp`, `decoder`, `writer` | the `Transport` methods |
| Streaming sessions | `http/ws_server.go`, `http/h2_server.go` | `server`, `done`, `sendChannel`, contexts | `ServeHTTP`, `wait`, `recvLoop`, `msgReceived`, `Send`, `sendLoop` |
| Actor | `http/request.go` | method handlers, missing and close handler, children | `On*`, `Off`, `Has`, `MethodList`, `GetSchema`, `Feed`, `HandleClose` |
| HTTP/1 server and gateway | `http/h1_server.go`, `http/gateway_handler.go`, `http/server_utils.go` | none | `ServeHTTP`, `ListenAndServe` |
| HTTP/1 client | `http/h1_client.go` | the lazily made `http.Client` | `Call`, `Send`, `UnwrapCall` |
| Authentication | `http/auth_handler.go` | an LRU cache of JWT claims | `TryAuth`, `jwtAuth`, `ServeHTTP` |
| Typed handlers | `http/typewrap.go` | none | `wrapTyped` |
| Messages and codec | `types.go`, `messageimpl.go`, `parse.go` | messages | decoding, `Clone`, `ReplaceId`, accessors |
| Schemas | `schema/*.go` | the validator's path stack | build, `Scan`, `Validate` |
| Command line tools | `cli/*/main.go` | `connectretry` (watch), counters (benchmark) | `run`, `connect` |
| FIFO example | `examples/fifo/main.go` | `fifo`, `subs`, `lock` | `fifo_push`, `fifo_pop`, `fifo_get`, `fifo_list`, `fifo_subscribe`, close handler |

How they interact.  A program's goroutines call a client; a streaming client
hands messages to its `sendLoop` through `sendChannel` and gets answers from its
`recvLoop` through the `pendingRequests` map and a channel per call.  Both loops
and the user undo a connection with `Reset`, without the lock `Connect` takes.
On the server every session has a `ServeHTTP` goroutine, two loops and one
goroutine per message; the message goes through `Actor.Feed`, whose callbacks
may keep the session and `Send` to it later (the FIFO service does), and the
actor hears of the end of the session in `HandleClose`.  `Actor.Feed` validates
messages with the schemas that a builder has made of JSON documents.

What is hard: concurrent use of the client's unlocked fields; answers, timeouts
and losses racing for a pending call; goroutines of an old connection that
outlive it; channels that are nil, full, or no longer read; goroutines of a
session that outlive it.  Every such place is listed with its line in
`PROJECT.json` under `hazards`.

What makes each component correct:

* calls: each call gets at most one message, and its own; it comes back;
  answers reach the message handler only if nobody waits for them any more;
* connection: a live connection is not replaced, closed only for a reason, and
  let go of when it is broken; a message is written once, by the loop of its
  connection; `Wait` returns when the connection is gone, with the error if it was
  lost;
* sessions: the close handler is called when the stream ends and only then; an
  answered request is written while the session lasts, once, and in order if
  messages are handled one at a time;
* actor: a method is answered by one actor of the tree, each request gets one
  response, a close reaches every child;
* authentication: claims past their expiry never authorise, cached or not;
* messages: what a caller puts into a message is what a handler sees, and the
  answer carries the caller's id, whatever became of the id on the way;
* schemas: a document that describes no schema is refused, a schema shows what
  it is, the path stack is balanced, verdicts follow the bounds;
* FIFO service: a subscriber hears of every element once and in order, no
  operation blocks the others, a closed session is not a subscriber.

## 2. Modules

### RpcCalls: what a call promises

The abstract specification: a call is begun once, settles at most once, and is
answered only if the server served that very call.  It knows no ids, queues,
connections or timers.

### StreamingCalls: from calls to answers

One call is one run of `request` in a goroutine of its own; `pc[c]` is its
position, and every access to something shared is a step: `RequestConnect`,
`LoadPending` (the `Load` and the choice of a uuid), `StorePending`,
`SendConnect`, `EvalSendChannel` (Go evaluates the channel operand before it
blocks), `Enqueue`, `Return`.  `HandleResult` and `Expire` are atomic because
their only shared access is one `LoadAndDelete`; the send on the
`resultChannel` cannot block while at most one message is ever put there, which
is the invariant `AtMostOneResult`.  `Follows[c]` makes a goroutine call again
after its previous call has returned.

Ids are records of a type and a value, since a Go interface compares both;
`DecodeId` is `decodeId` of `parse.go`, which makes every integer an `int`.
`NewUuid` is an operator that differs from every id in use.

The connection is abstracted to what `request` sees of it.  `TransportClose`
and `ClearSendChannel` are the two steps of `Reset` a caller can tell apart;
that another `Connect` may come between them is what makes calls hang.
`Take(l, e)` lets the loop of connection `l` take a message from the channel of `e`
and begin to write it on the current connection; `Write` is the return of that
write, which has no deadline: until then the loop takes nothing else, and nothing
makes the server read.  The server (external) answers what it read in any order,
or not at all, and may send messages of its own.  A broken connection drops the
answers under way, except for the one `recvLoop` may have in hand.

### StreamingConn: the fields, one access at a time

The life of the connection itself.  A field is 0 (nil) or the number of the
connection its value was made for, and each read or write of a field is a step
of some goroutine: users (who send, watch or close), and a `sendLoop` and a
`recvLoop` per connection.  `transport` says which of the two the client has.  The
websocket's has one field, `ws`; HTTP/2's has `resp` (the variable `ws`, too, as
`Connected` asks for either), `writer` and `decoder`, which `Connect` sets and
`Close` clears one by one, the decoder excepted.  They are why a write and a read
can use another connection than the one `Connected` saw, or none (`WriteEnd`,
`ReadEnd`, `Use`).  `Reset` is run by whoever closes, step by step
(`CheckCancelFunc` ... `ClearSendChannel`).  A read of a field that another
goroutine writes without a lock is a data race; where the code tests a field and
then uses it, `MayUse` leaves open whether the use sees the tested value or the
current one, as the compiler may do either; only the close handler, whose call is
the program's own affair, is used as it was tested.  `panicked` records the use of
a nil connection or the call of a nil `cancelFunc`, which ends the program.  A
write (`WriteMessage`) that the other side does not take does not return, and its
loop then listens to nothing, a canceled context included.  A connection is in `lost` when the
network or the server has broken it, and also when the server has sent what is
not a JSON-RPC message, because `ReadMessage` then fails as well; a message that
cannot be marshaled is an error of `WriteMessage` (`MarshalFails`).  A user of the
kind "any" closes, or sends a message that may be one of these.

What the two modules share (`Connect`, `Reset`, the channels) is modelled twice
on purpose: in detail here, and there only as far as calls can tell.

### StreamSession: a session of the server

The goroutines of one `WSSession` or `H2Session`.  The variable `config` is
chosen once from `Configs`: the transport, the option `SpawnGoroutine`, and for
each message what the actor makes of it (`Kind`: an answer, no answer, an error,
an answer json cannot marshal, or an answer after the callback itself has used
`Send`).  `serve` follows `ServeHTTP` from `wait` through its deferred calls;
`recvLoop` reads and dispatches; `handler[m]` is `msgBytesReceived` or
`msgReceived` with message `m`, in a goroutine of its own or inline; `sendLoop`
writes; the client need not read (`SendLoopRuns` is what it does whatever the
client does).  The two transports differ in where a message is parsed, in the field
`server` that only `WSHandler` clears, in `ws.Close`, and in when `net/http`
cancels the request's context (for a hijacked connection only after
`ServeHTTP`).  That a http2 `ResponseWriter` panics when it is used after its
handler is behaviour of that library (`WritePanics`, external).

### Actor: who answers

The tree of actors: a variable for each field of `Actor`, an action for each
registration method, and operators for what is done with the finished tree.
`Feed(msg)` is a function on the actors, as `Actor.Feed` calls itself for the
child it chooses; it decides what becomes of a message and stops where a
callback would be called.  `wrapResult` makes the pair of message and error of
what a callback returns, `PanicsThrough` says which panics get past the two
recovering wrappers.  `CloseCalls` counts the calls of `HandleClose`.  The
options `ValidateSchema` and `RecoverFromPanic` are on, as `NewActor` leaves
them.  Actor has no `Next` of its own: Exchange and HttpService give it one.

### Messages: how they are made and read

Operators without state: the constructors, `Clone` and `ReplaceId`
(`messageimpl.go`), `Interface`, which picks the fields that go on the wire, and
`DecodeMessage` with its helpers (`parse.go`).  Of a value only its nature
counts: nil, an atom, a `[]interface{}` or a slice of another type; of an id its
type and a number.  `Json`, `GoValue` and `IdField` are `encoding/json`
(external): a typed slice comes back as a `[]interface{}`, an `int64` as an
`int`.  `Panic` is the value of an operator that panics in the code.

### Exchange: one message and its answer

Extends Actor and Messages.  After a tree of actors is registered, a caller makes
a message (`Ask`), a streaming client may find its id in use (`Rename`), it goes
over the wire (`Transmit`), is handled (`Handle`), and the answer comes back
(`Return`) and is looked up in `pendingRequests` (`Restore`): if its id is that of
the entry, of the same Go type, the caller gets it with its own id, else it goes
to the message handler.  What a handler does is open: `outcome` is what it returned
or panicked with.  `AnswersTo` is `wrapResult`, with the message a handler relays
from another peer (`Relayed`: of any id and kind), the `WrappedResponse` that is no
answer, and the internal error for any other error; `Ends` is the recover around
it.  Or a peer sends any union of fields (`PeerSends`).  A handler may be
a typed one: `TypedCall` is the wrapper of `typewrap.go`, which counts params,
turns null into the zero value of a type, and leaves the rest to a conversion that
fits or does not.

### HttpService: a request over HTTP

Extends Actor.  Each request is handled in a goroutine: `Arrive`, the steps of
`jwtAuth` with the cache (`GetClaims`, `CheckExpiry`, `AddClaims`), the schemes
after it (`TryAuthWithoutJwt`, `TryOthers`), `StartSession` where the gateway
hands over to a streaming handler, `ServeHTTP` of `H1Handler` up to the callback
and `CallbackReturns` after it.  `H1Response` is the set of responses possible for
a result: a `SimpleResponse` or `WrappedResponse` may have any status and body
(`Foreign`; the constants `Codes` and `Bodies` say which), those of a refusal or a
success included, and a status net/http refuses; a message a callback relays may be
any, too.  The goroutines share `jwtCache`, a sequence with
the last used token first; `Tick` lets time pass between any two steps.
`ClientReturns` and `ClientGivesUp` are `H1Client`'s side.  The registration of
Actor comes first (`Prepare`, until `ListenAndServe`).  `golang-lru`,
`golang-jwt` and the clock are external.

### SchemaValidator: validation

Schemas and data are trees given by two constant functions.  The Scan methods
are recursive; here their calls are a stack, so that each call and each return
is a step: `Look` (a call checks its data and finds what it will call next),
`Descend` (`pushPath` and the call), `Finish`, `Return` (`popPath`, and what the
caller makes of the result).  `Calls` gives every order in which a range over a
map may visit properties.  The calls of one kind are told apart by `KindOf`: a
scan by the kind of its schema, `ScanParams` and the two errors reported after a
`pushPath` of their own by themselves.  `Faults`, the reference, is a recursive
function from a schema and a value to the set of places where they do not fit;
`FaultsBy` says what those of a schema are, given those of its parts.
`IsShape` is what the schema types and the builder allow of a schema: a bound may
be missing, only numbers have exclusive flags, an object has finitely many
properties.

### SchemaBuilder: documents and schemas

Extends SchemaValidator.  A document is a JSON tree; `buildNode` and the `build...`
operators are the builder's methods, the operators before them the converters of
`convert.go`, which take an attribute of the wrong type for an absent one where
the code does.  `Map` is what a schema shows of itself.  The variable `document`
is what a program has read; `ValidateBuilt` starts a validation with what is built
from it.  `WellFormed`, the reference, says which documents describe a schema, and
`Hides` whether `Map` leaves something out.

The recursion is that of recursive functions: `buildNode` and `WellFormed` on
`Json`, all documents in play, `Map` and `Hides` on `Schemas`.  Each operator that
stands for a method takes the function it recurs through as its first argument
(`build`, `map`).  `Json` has what `Documents`, those that are read, consist of,
and what the schemas built from them show; `BuilderAssumption` says so, and that
`Schemas` is what the documents of `Json` describe.

### FifoService: the example service

The handlers of `examples/fifo/main.go` on sessions reduced to what the service
can tell of them: whether they are open, whether their `sendLoop` runs, and their
`sendChannel`.  `config` says who makes which call.  Each call has a goroutine of
its own, those of one session, too, since `NewGatewayHandler` leaves
`SpawnGoroutine` on, and it may begin after the session has ended, as its
`recvLoop` or a spawned goroutine may be late.  A handler that runs under the
lock is one step, but for `fifo_push`, which is a step per subscriber and element
because its `Send` may block.  A write of the map of subscribers takes two steps
(`Subscribe`, `Subscribed`; `Delete`, `Deleted`), so that another access can fall
between (`MeetInMap`).  The slice and the lists returned from it share an array as
Go's slices do (`Overwritten`); a list is marshaled after its handler has returned,
in a step that takes time (`Marshals`, `Marshaled`), and an `append` that writes to
the array meanwhile may be read half done (`MeetInArray`).  After either race the
model stops (`Race`), since nothing can be said of what comes then.

### Proof modules

| Module | Extends | About |
|---|---|---|
| StreamingCallsProofs | StreamingCalls | calls, their refinement of RpcCalls |
| StreamingConnProofs | StreamingConn | the connection and the messages on it |
| StreamSessionProofs | StreamSession | a session of the server |
| ExchangeProofs | Exchange | recursion over trees; Feed, Has, MethodList, GetSchema, HandleClose; one message and its answer, in any tree |
| HttpServiceProofs | HttpService | authentication, the cache, HTTP/1 |
| SchemaValidatorProofs | SchemaValidator | validation |
| SchemaBuilderProofs | SchemaBuilder, SchemaValidatorProofs | what is built of documents, what is shown of it, and validation with it |
| FifoServiceProofs | FifoService | the example service |

All of them extend `TLAPS` and the library's theorems about sequences, finite
sets and well-founded relations as they need them.  The properties of Actor are of
trees; they are proved in ExchangeProofs, since Exchange is the specification that
builds the trees.

Operators whose comment begins with "Mutant" are plausible bugs of the
definition below them, one for every checked property.  No specification uses
them; put in the definition's place, each makes TLC refute its property.

## 3. Runs

Runs that must pass:

| Run | Properties | Instance |
|---|---|---|
| CallsDistinct | `OwnAnswer`, `LateRepliesOnly`, `ImplementsRpcCalls`, `CallReturnsUnlessStuck` | two calls with ids of their own, a pushed message, two connections, both of which may be lost; a server that may stop reading |
| CallsShared | `AtMostOneResult`, `AnswerMatchesWireId`, `CallReturnsUnlessStuck` | three calls with one id, once as an `int64`; one connection, which may be lost |
| ConnTwo | `TypeOK`, `WrittenOnce`, `StrayLoopCanceled`, `DecoderKept`, `DialOnlyWhenDown` | two senders, two connections, one loss; either transport |
| ConnLive | `DeliberateClose`, `LostReleased`, `CancelCloses`, `WaitReturns` | a watcher, and a user who closes the connection or sends a message, which perhaps cannot be marshaled or written; one websocket connection that may be lost or canceled |
| Session | `TypeOK`, `WrittenOnce`, `InOrderInline`, `ClosedForAReason`, `CloseHandledUnlessStuck`, `AnsweredOrClosed` | three messages of different kinds; both transports, each with and without `SpawnGoroutine`; a client that may stop reading |
| Dispatch | `ArrivesAsMeant`, `AnswerFits`, `SentOnUnchanged`, `HandledByFirst`, `SchemaGuards`, `ClosedEverywhere` | every tree and registration of up to four actors and two methods; every kind of id, of params and of union; plain and typed handlers, every outcome of them, relayed messages included |
| Service | `EntitledOnly`, `TellsWhatHappened`, `PanicsOnlyWithCallback` | two requests out of seven kinds, two actors, with and without authentication, a token that expires meanwhile, relayed responses that look like a success or are none |
| Schema | `VerdictRight`, `PathsBalanced`, `RefusesIllFormed`, `ShownAsBuilt` | 49 documents, 22 of which describe a schema, of every kind and in every notation; 29 values; a validator used twice |
| Fifo | `Notified`, `ListedElsewhen`, `RaceNeedsPop`, `CloseUnsubscribes`, `CallEnds` | seven casts of up to four calls and two sessions |

What they show, component by component:

* **Calls.**  A call is handed at most one message, its own, and what is answered
  late goes to the message handler.  `CallReturnsUnlessStuck` names the two places
  where a call can hang, and says that there are no others, whatever the server and
  the network do and whatever the ids are: before its message is in a channel, for
  the channel is nil or full and nobody drains it (its loop is gone, or in a write
  that never returns), for its timer starts only later; and when another call with
  the same id has overwritten its entry, for then neither an answer nor a timer
  finds it.
* **Connection.**  A live connection is not replaced and closed for a reason;
  nothing is written twice.  The `sendLoop` of a lost connection may write on the
  next one, beside its own, but only once its context has been canceled
  (`StrayLoopCanceled`): Reset cancels before it lets go of the connection.  A
  lost connection is let go of; a canceled one is closed, unless its `sendLoop` is
  in a write that never returns; whoever waits on a closed one returns, unless it
  was reset while still being set up; all that unless the program panics.  A
  `recvLoop` over HTTP/2 never panics: `DecoderKept` is what the line
  `//self.decoder = nil` of `Close` is commented out for.
* **Sessions.**  The close handler is called whenever the client, the server or an
  error ends the stream, with the exceptions the property names: a panic, and a session
  that handles messages inline while nobody drains its channel, as `sendLoop` has
  ended or is in a write to a client that does not read.  An answer is written
  while the session lasts, unless one that cannot be marshaled came first or the
  client does not read.
* **Messages.**  `ArrivesAsMeant` names the two ways in which a handler sees other
  params than the caller gave: a typed slice is one argument if the id was in use
  and many if not, and what a constructor takes the reader may refuse (a nil
  pointer as params, an id that is neither a number nor a string).
  `SentOnUnchanged`: what was read can be sent on, and reads the same.
  `AnswerFits` is about the way back, for whatever a handler does: which requests
  get an answer (not one whose handler gives a `WrappedResponse`, or panics with
  what is no error), and which answers reach their caller, with its own id (not
  that to an `int64` id, which comes back as an `int`; nor, perhaps, a message the
  handler relays).  A null for a parameter of an interface type is such a panic.
* **HTTP/1.**  Whoever gets past authentication was entitled to.  What `H1Client`
  returns fits what has happened, unless a callback relays a response or message
  made elsewhere, which can say anything: `TellsWhatHappened` excepts those, since
  `H1Handler` writes their status and body as they are.
* **Schemas.**  `RefusesIllFormed` is an equivalence: the exceptions to what one
  would call well-formed (an object with a property named `params` and none named
  `type` is refused; bounds of the wrong type and `properties` that are no map are
  ignored) are part of `WellFormed`.  `ShownAsBuilt` says which schemas survive
  `Map` and a new build, and that those that do not hide one of the parts in
  `Hides`: bounds of strings and lists, additional items of a tuple, an exclusive
  flag without its bound; a `returns` that was ignored comes back as any.
* **FIFO service.**  Subscribers are told everything once, in order and without a
  gap.  `CallEnds` and `CloseUnsubscribes` name what goes wrong: a subscriber that
  nobody drains stops every operation that needs the lock, itself included if it
  pushes, and a `fifo_subscribe` that was still to come, or to finish, when the
  close handler began leaves a dead session in the map.  `ListedElsewhen`: a listed
  element may be newer than the list.  `RaceNeedsPop`: a push writes into a list
  that is being marshaled only if there was a pop since the list was taken; as long
  as the slice only grows, `append` leaves shared places alone.  For the map any
  two calls may race, those of one session, too: nothing is claimed there.

Runs that must find a violation, each of a line of the repository quoted in
`PROJECT.json` under `findings`:

| Run | What the code does |
|---|---|
| CallsLost | a call that meets a `Reset` between `Connect` and its send blocks for ever, without a timer |
| ConnWaitNil | `Wait` returns nil for a lost connection when the sendLoop's `Close(nil)` overtakes the recvLoop's error |
| SessionCrash | a late message dereferences the cleared `server`; the program ends before the close handler is called |

What else the models show of the code, without a run of its own: the sendLoop of
a lost connection closes the connection that replaced it, and the two sendLoops
may write on one connection at a time; `Wait` blocks when a user's `Close` falls
into `Connect` between `Transport.Connect` and the channel's creation; a nil
`ws` is used, or a nil `cancelFunc` called, when a Reset comes between check and
use; a call is left without an answer and a timeout when another with the same id
stores its entry over it; a write to a peer that does not read keeps a canceled
connection, or a session, open for ever; the end of an HTTP/2
transport's `Close` clears the writer of the connection a `Connect` has made
meanwhile, which is then up and cannot be written to; the timer of an answered
call times out a later call with the same id; a session that handles messages
inline and whose sendLoop is gone is stuck, and one whose sendLoop met an
unmarshalable answer executes requests without answering; `GetSchema` shows the
schema of a handler below one that has none; a `SimpleResponse` returned for a
request becomes an internal error; a Bearer header without a token panics.

### Bounds

* `MaxConns`, `MaxLosses`: a lost connection and its successor show everything
  goroutines of an old connection can do to a new one.  ConnLive has one
  connection because its properties are about one: with a second,
  `DeliberateClose` is false, as said above.  It is a websocket connection; what
  HTTP/2 adds, two fields that a Reset may clear, is in ConnTwo.  Nor
  has CallsShared a second connection: what its calls share is the client's, and
  the two ways to hang show with one.
* Calls, users: two that race; three where they share an id, so that one comes
  in the way of two.
* `SendCap`, `DoneCap`: 1 in place of 100 and 10, so that the channels do fill
  up.  In StreamingConn the channels are not bounded: its instances put at most
  three messages and a few errors on them.
* Messages of a session: three with one place in the channel, so that one is in
  hand, one is queued and one blocks.
* Actors: four, the least in which a child has a sibling and a child; two in
  Service, whose subject is not the tree.
* `CacheCap` 1 in place of 100, so that entries are evicted; `MaxTime` 2, before
  and after the expiry.
* `MaxScans` 2: what the first validation leaves behind is what the second
  starts from.  Every numeric bound occurs with values on both sides of it and on
  it, inclusive and exclusive.  Documents are two levels deep, with every kind of
  schema inside another and every error at both levels.
* Exchange: one message, sent when every link and close handler is registered;
  nothing the code does with a message depends on another one but the id in use,
  which `Rename` leaves open.  `Signatures` of at most two parameters.
* Service: a relayed response has status 200 or one that net/http refuses, and no
  body or that of a refusal: the two on which a client can be wrong either way.
* Fifo: `SendCap` 1 in place of 100, so that one answer fills a channel; pushes of
  up to two elements, so that an array is grown and is written in place; a session
  with two calls at once; two sessions, so that one can be stuck while the other
  ends.
* Symmetry: the users of ConnTwo, who do the same; no liveness is checked there.
  Its `VIEW` tells states apart by all that later steps and the run's properties
  depend on: not by a register or an error nobody reads again, nor, as nobody
  waits in this run, by what is in the close channels.
* Deadlock is not checked, for everywhere the system stops in the ordinary course:
  every caller has returned, the connections are gone, the session has ended, the
  answer is there, or the validator is no longer used.  What must not stop is
  stated as liveness.

### Fairness

Weak fairness of each goroutine: the Go scheduler runs every goroutine that can
go on.  Timers fire (`Expire`).  The loop of a live connection takes what is in its
channel, unless it is in a write.  No write of a client or session is assumed to
return while the connection is up, for none has a deadline; it returns with an
error once this side closes the connection.  A callback given to the actor
returns.  `net/http` cancels the context of a request whose handler has returned
and of an http2 stream whose client is gone.  In FifoService each handler, close
handler and live `sendLoop` goes on (one whose write never returns has ended,
there), which includes that a free lock is handed on; clients need not call, and a
session or a `sendLoop` may end at any time or never.  Nothing is assumed of the
peer of a stream: the server need not read or answer, the client need not send,
read or close, and connections need not break.  "Unless a panic" in a liveness
property is the end of the program; SessionCrash is about one of these panics.
HttpService is a pipeline without a loop or a wait, and no liveness is stated of
it.

## 4. Proofs

Every safety property of section 3 that a run checks is a theorem of its
specification; the theorems hold for every value of the constants that satisfies
the assumptions of the modules: any number of calls, users, connections and
losses, any choice of ids, any channel capacity, any tree of actors, any
documents, schemas and data.

What is assumed.  The `ASSUME`s of the modules, which TLC evaluates on every
instance, give constants their types and say that names of different things
differ; those with more content are: a fresh uuid meets no other id
(`UuidAssumption`); a message a caller sends was made by a constructor and has a
method (`ExchangeAssumption`); schemas and values have one of the shapes of the Go
types (`ValidatorAssumption`); documents are JSON values, and the schemas in play
are those built of documents (`BuilderAssumption`).  Four conditions are
hypotheses of the theorems that need them, for without them the properties are
false or have no meaning:

* `DistinctIds`: no two calls of a client put the same id on the wire.  The code
  does not enforce it (an id that is in use is replaced, but not one used just
  before, nor an `int64` that an `int` in use equals), and without it `OwnAnswer`
  fails.
* `CanonicalIds`: no id is an `int64`, which would come back as an `int` and find
  nothing.
* `SchemasAreTrees`: every nonempty set of schemas has one with no part in the
  set.  `Scan` of a schema that contains itself would not end.
* `DocumentsAreTrees`: the same of documents.  A JSON text is finite, so what is
  read of one contains no cycle.  `SchemasAreTrees` follows for the schemas that
  are built (`SchemasFollow`).

### StreamingCallsProofs

`TypeOK`, `AtMostOneResult` and `AnswerMatchesWireId` are proved for all ids.
`AtMostOneResult` is not inductive: it needs that a call whose `resultChannel` is
not empty is registered nowhere, that a call is registered only under its `sendId`
and only after its `Store` (`PendingInv`, `EarlyInv`), that `sendId` is the
caller's id or the uuid (`SendIdInv`), that whatever is in a queue, at the server,
on the way back or with an armed timer was stored and sent (`SentInv`), and that
every message in a result channel came from one of these (`OriginInv`).  With
`DistinctIds` the id a reply comes back with names one call, so the call found is
the call answered (`OwnAnswer`), and each step is a step of `RpcCalls` or a stutter.

`LateRepliesOnly` needs two more parts.  `OnceInv`: what was sent is in one place,
so that no call is answered twice.  `KeptInv`: a call that has registered still has
its entry or has been handed something for it.  Then a reply that finds no entry
belongs to a call that was handed something, which was not a reply.

### StreamingConnProofs

`DialOnlyWhenDown` needs that only the holder of `connectLock` is inside `Connect`
(`LockInv`) and that `ws` is nil when it dials (`DialInv`): a Reset, which takes
no lock, only ever clears `ws`.  `TypeOK` needs that a `sendLoop` about to write
has a message and a connection (`HandInv`).  `DecoderKept` needs that there is a
decoder from `SetDecoder` of the first `Connect` on, and that no `recvLoop` is
started before (`DecoderInv`).

The others rest on `NumberInv`: no field is numbered higher than the last
connection dialed, and the loops of a connection that is being set up have not
started.  `WrittenOnce` follows from `PlaceInv`: a message is in one channel, one
hand or on the wire, once.  `StrayLoopCanceled` follows from `StrayInv`: until
the context of the first connection is canceled, its fields are in place and nobody
is past `cancelFunc()` in a Reset (`FirstUp`), so `ws`, which Connect asks for, can
only be nil once it is; hence it is canceled when there is a second connection, to
which alone the second `sendLoop` writes (`SecondUp`).  `DeliberateClose` follows
from `CalmInv`: until one of the reasons it names has come up nobody is inside
`Close`, `Reset` or `handleError`, and no context is canceled.

### StreamSessionProofs

Each property speaks of what was written; the invariants speak of everything that
may still be.  `OutInv` and `OrderInv` are about the messages written, in hand and
in the channel, in one sequence: no two are the same, each comes from a handler
that has got far enough, and without `SpawnGoroutine` they are in the order of the
requests.  That the next one differs from all and follows all is what `InboxInv`
(what `recvLoop` has not read is the end of what was sent), `HandlerInv` (a
message is handled after it was read, once) and `InlineInv` (one at a time) are
for.  `ReasonInv` says that while there is no reason to end, nothing has been put
into `done` or failed, and `ServeHTTP` still waits.

### ExchangeProofs

`Feed`, `HandleClose`, `MethodList` and the other walks are recursive functions on
the actors, so that even their being functions has to be proved.  `Grounded` is
what the tree is for: every nonempty set of actors has one without children in the
set.  The registration keeps it (`TreeInv`), since it links no actor to one above
it and none twice (`OneParent`).  From it follow, by a least counterexample,
induction over the tree, and by the union of partial solutions that a recursive
function exists; then, step by step, that `Feed` finds what stands first in
preorder, that `MethodList` has what `Has` has, without duplicates
(`FewHandlers`: finitely many handlers), that `GetSchema` and `Feed` choose the
same schema, and that the calls of `HandleClose` are the actors with a close
handler, children first, each once.

About the message, `StageInv`, `SeenInv` and `AnswerInv` say at each stage what it
is: what was asked, renamed or not; what the wire makes of that; an answer to what
was seen, or a message relayed in its place.  Whether an answer finds its caller
depends on the id alone: `decodeId` gives back every id that can be read but an
`int64`, and a renamed request went out under a string.  The lemmas under them say what the constructors, `Clone`, `Interface`
and `DecodeMessage` make of one another, by the kinds of message and of id.

### HttpServiceProofs

`EntitledOnly` needs that a token in `check` or `add` is signed, and in `add` not
expired when the request arrived (`TokenOK`), and that the cache, which every
request shares, holds signed tokens only (`CacheOK`).  That claims got from the
cache may have expired since is met by `CheckExpiry`, whose step is where the
proof uses it.  `CacheOK`, its bound included, is a theorem of its own.
`ResponseOK` relates a response to what the callback returned, by `H1Response`, and
a client's result to the response; `TellsWhatHappened` and
`PanicsOnlyWithCallback` follow, by cases of the callback's outcome (`Tells`): for
one that relays nothing, no member of `H1Response` can be taken for another's.

### SchemaValidatorProofs

`PathsBalanced` needs the types alone: `Descend` appends to `paths` what it
appends to the stack of calls, so that `popPath` finds its own.  `VerdictRight` is
about the end of a validation; what makes it inductive is `CallsInv`: for each call
that has started, what is wrong with its data is decided by the calls it has still
to make and the one it waits for (`Decide`; for an anyOf, whether all of them
fail, for a not, whether its one call succeeds, else the union of what they find),
and `VerdictInv`: a call returns what is wrong with its data.  The proof shows
that `Calls`, in whatever order a map is visited, covers exactly the parts
`FaultsBy` is made of, and, as for Actor, that the recursive `Faults` exists if
schemas are trees.

The run's specification is `BuilderSpec`, whose validations begin with a schema
that was built.  That it implements `Spec` is `BuilderImplements`, and
`BuiltVerdicts` carries the two properties over, in SchemaBuilderProofs.

### SchemaBuilderProofs

That the four recursive functions exist is one proof (`PieceExists`): a `Piece` is
a solution on a set that contains what its members recur to; two pieces agree
where both are defined, so the union of all of them is a solution, and it is
defined everywhere, or else there would be a least document without a piece.
Least is meant in the order of `Within`: a method looks at the parts of a document
and at theirs.  For this it is shown of every method that it uses its function
argument there only (the lemmas `...Same`).

`RefusesIllFormed` is about one document, and depends on all inside it.  `Fits`
says of a document that building it fails if and only if the reference calls it
ill-formed, and a little about the documents that are no maps.  `AllFit` takes the
least document that does not fit; inside it all do, and each kind has a lemma
(`...Well`) that then its method fails when a part does or when its own attributes
are wrong, and not otherwise.

`BuiltVerdicts` needs that built schemas are trees.  `Made` says where the parts
of a schema come from: documents within, a schema `any`, or nothing.  A set of
schemas without a least one would give such a set of documents (`SchemasFollow`).

`ShownAsBuilt` follows from `AllShown`, of a least schema again: what `Map` makes
of each kind is a document whose type is guessed as that kind, and whose
attributes the method reads as what they were, unless `Hides` names one of them
(the lemmas `...Again`, where `Form` says which schemas a method can have built).

### FifoServiceProofs

`ListedElsewhen` needs that only a list that was returned and not marshaled yet
shares its array with the slice (`ListsOK`).  `RaceNeedsPop` needs, further, that
such a list is not longer than the slice unless there was a pop (`ArrayOK`):
`append` writes behind the slice's end, so behind the list's.  `CloseUnsubscribes`
needs that, of a session whose close handler has begun, all subscribes that are
still to come are known as late (`LateOK`), and that calls and close handlers
write the map one at a time until there is a race (`MapOK`).  `Notified` is about
sessions at rest; while a push is under way a session in the map has been told of
everything before the element the push is at, and of that one if it was visited
(`SessionOK`), and what the push has still to tell are the last elements pushed
(`PushOK`).  That holds because the lock keeps all others out for as long as the
push ranges, and a session that comes into the map meanwhile has been told
nothing yet.

### Model-checked only

* Liveness: `CallReturnsUnlessStuck`, `LostReleased`, `CancelCloses`,
  `WaitReturns`, `CloseHandledUnlessStuck`, `AnsweredOrClosed`, and `CallEnds`.
  They need fairness, which is out of reach of the prover.

## 5. Not modelled, and the plan

Not modelled:

* the command line tools: one goroutine each around a client.  The one loop worth
  a model, that of `watch`, does `Connect` and `Wait`, as the users called "watch"
  of StreamingConn do; what it decides on is what ConnWaitNil is about;
* the choice between h2 and h2c, which configures the http2 library;
* the client factory, error values, header parsing, JSON guessing and uuids:
  stateless helpers.  A uuid is an id nobody else has;
* in the typed handlers, the checks at registration, the kinds of a first
  parameter, and the conversions of mapstructure; in the builder, YAML
  (`FixYamlMaps`); in the HTTP/1 client, headers, trace ids and `UnwrapCall`;
* logging and formatting, TLS and headers, names and descriptions of schemas, the
  fallback of `H2Handler` to HTTP/1, per-user settings of `AuthHandler`, and what is
  inside the websocket and http2 libraries.

What the project still lacks: two goroutines in `Wait`, of which one may stay
blocked, and a connected handler, which runs with the lock of `Connect` held.
