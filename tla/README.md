# Conduits: specification and proofs

This directory holds TLA+ specifications of the conduit protocol of this
repository, the TLC configurations that model-check them, and TLAPS proofs about
them.

A *conduit* connects an application (an `IAppConduit`: one request or a stream of
requests in, one response or a stream of responses out) to its users. A
`ConduitClient` gives each call a deadline and a cancellation token and sends it
through an `INetConduit`: a gRPC, protobuf-net or HTTP transport, a
`ConduitRouter`, or, in the tests, directly a `ConduitServer`. The `ConduitServer`
calls the application and cuts the call short when it is cancelled or out of time.

## 1. Inventory

| Component | State | Operations | Interacts with |
|---|---|---|---|
| `ConduitServer` | per call: position in the method and in its `ToAppRequests` iterator, `altResponse`; per server: `_disposed` | `UnaryRequest` (and `GetAppInfo`), `ServerStream`, `ClientStream`, `DuplexStream`, `DisposeAsync` | called by a transport, a router or a client; calls the application, which calls back into `ToAppRequests`; reads the clock and the token |
| `ConduitClient` | `_maxCallDuration`, `_disposed` | the same four calls, `GetAppInfo`, the property `MaxCallDuration`, `DisposeAsync` | calls an `INetConduit`, and may dispose of it; throws for control codes |
| `ConduitRouter` | `_routes` (immutable), `_disposed` | constructors, `WithRoute`, the four calls, `DisposeAsync` | calls the `ConduitServer` of a route; may dispose of it |
| `ChatHub`, `Mailbox` | a concurrent dictionary of mailboxes, each an immutable dictionary that is replaced by compare-and-exchange | `SendMessage`, `AckMessage`, `GetAll` | served through a conduit by `ChatHubServer`, used through `ChatHubClient` |
| gRPC transport | a channel; per call a push task and a response loop | the four calls, `DisposeAsync` | `GrpcConduitClient` over the wire to `GrpcService`, which calls an `INetConduit` |
| protobuf-net transport | a channel, a server; per call two linked token sources, one with a timer | `UnaryRequest`, `ServerStream`; `DisposeAsync` | `ProtobufGrpcClient` over the wire to `ProtobufNetServer`, which calls an `INetConduit`; `ProtobufGrpcServer` hosts it and may dispose of the conduit |
| HTTP transport | none | `UnaryRequest` | as above, one POST per request; the `HttpClient` retries |
| `AppInfo`, `ConduitInfo`, `NetResponseHelpers` | none | `ToString`, `ParseFrom`, `EncodeMsg`, `DecodeMsg` | text in the payload of control responses |
| Web front of XApp1 | in the browser: the check box of the menu, the listeners of `NavMenu.razor.js`; per page: `forecasts` | navigation, the menu, `OnInitializedAsync` of the weather page | calls `WeatherClient` over HTTP |
| Weather, Calculator | none | forecasts; arithmetic, a `Range` stream | applications behind a conduit |
| Test doubles | `_disposed`, a settable clock | pass-through calls, `DisposeAsync` | as the client and the server they stand for |
| Hosts, benchmarks | none | wiring | |

What makes this code hard:

* **Interleaving.** The application reads the requests of a duplex or client stream
  on a thread of its choice, while it answers on another. The iterator it reads from
  writes `altResponse`; the method that collects the answers tests it. Token and
  clock move at any time, also between two tests of one response.
* **Deadlines and cancellation.** `ConduitServer` has no timer: a call is cut only when an
  item arrives and is found late, and the cut must neither lose, repeat nor reorder
  anything silently, nor lie about its reason. The protobuf-net transport adds a timer of
  its own for the same deadline, and the two race.
* **Retries.** The HTTP client tries a request again while an earlier attempt may still
  be on its way.
* **Partial failure.** A cut request stream looks complete to the application.
* **Shared state without locks.** `MaxCallDuration` of a client, the `_disposed`
  flags, the mailboxes of the hub.
* **Ownership.** `chainDispose` decides what a disposal reaches; servers are shared, and
  a thread that finds something disposed of trusts another thread to do the rest.

What makes each component correct is stated by the properties in section 4;
`PROJECT.json` lists every hazard with its line and the properties that guard it.

## 2. Modules

| Module | What it is | Code |
|---|---|---|
| `Conduits` | control codes, responses, deadlines, `SanitiseMaxCallDuration`, `HandleResponse` | `ControlCode.cs`, `NetResponse.cs`, parts of `ConduitClient.cs` |
| `ConduitServer` | one call with its caller, application, clock and token | `ConduitServer.cs` |
| `CallPromise` | what a call promises to its user, with no mention of control codes or tests | abstract |
| `ConduitCall` | a client and a server connected directly; extends `ConduitServer` | `ConduitClient.cs` |
| `ConduitRouter` | routers, the conduits in front of them, their calls and their disposal, through servers to applications | `ConduitRouter.cs`, and `DisposeAsync` of `ConduitServer.cs`, `ConduitClient.cs`, `ProtobufGrpcServer.cs`, `FakeConduitServer.cs`, `FakeConduitClient.cs` |
| `MailboxPromise` | a hub that serves one call at a time | abstract |
| `ChatHub` | the hub under concurrent calls | `Testing.ChatHub` |
| `StreamPromise` | what a transport promises about one direction of a call | abstract |
| `GrpcTransport` | one gRPC call, from client to service | `GrpcConduitClient.cs`, `GrpcService.cs`, `AsyncStreamReaderExtensions.cs` |
| `InfoCodec` | `AppInfo` as text: printing, the trip through a payload, parsing, and a reference definition of what a text means | `AppInfo.cs`, `NetResponseHelpers.cs` |
| `ProtobufNet` | one protobuf-net call, from `ConduitClient` to `ConduitServer`; extends `ConduitServer` | `ProtobufGrpcClient.cs`, `ProtobufNetServer.cs` |
| `HttpTransport` | one HTTP call with its attempts | `HttpConduitClient.cs`, `HttpServerHelpers.cs` |
| `WebFront` | the menu, its script and the weather page; extends `HttpTransport` | `NavMenu.razor(.js, .css)`, `Weather.razor`, `WeatherClient.cs` |
| `MC*` | instances for TLC | |
| `ConduitServerProofs`, `ConduitCallProofs`, `ConduitRouterProofs`, `ChatHubProofs`, `GrpcTransportProofs`, `InfoCodecProofs`, `ProtobufNetProofs`, `WebFrontProofs` | theorems | |

A definition whose comment begins with *Mutant* is a wrong form of the definition
that follows it. Mutants are used by no specification: each property is shown to
notice one of them (`PROJECT.json`, "mutants").

### 2.1 ConduitServer

`main` is the program counter of the server method and `pump` that of its
`ToAppRequests` iterator:

| `main` | in the code |
|---|---|
| `created` | not called, or a stream of which nothing was asked yet |
| `awaiting` | in the `await` of the application's method or of its next response |
| `testAlt`, `testCancel`, `testDeadline` | before the three tests of `DuplexStream` (150, 156, 162); `ServerStream` has the last two (68, 74) |
| `yielded`, `last` | suspended at `yield return`, with the loop or a `yield break` after it |
| `returning` | a single response has come (55, 60, 114) |
| `done`, `threw`, `dropped` | over: at its end, by an exception of the application, or disposed by the caller |

| `pump` | in the code |
|---|---|
| `idle` | not asked for a request, or suspended at `yield return` |
| `pulling` | in the `await` of the caller's next request |
| `testCancel`, `testDeadline` | before the tests at 129 and 135 (95 and 101) |
| `ended`, `cut`, `faulted` | over: with the caller's stream, by a `yield break`, or by its exception |

`alt` is `altResponse` (its control code, `None` for null), `fed` and `out` are what
was handed to the application and to the caller. `arrivals` and `requests` are
history variables: for each response and each request that reached the server they
remember the verdict that a full check would have given at that instant. Payloads
are the position of the item in its stream. The four methods share the actions;
`method` is chosen in `Init` and says which of them a call goes through. Calls share no
state of the server, so one call is all of it.

The iterator may go on after the method has ended: an application that reads on a
thread of its own is not stopped by anyone (`AppPull`, `CallerYields`).

`UnaryRequest` looks neither at the token nor at the deadline, and `ClientStream`
looks at them only for the requests; the properties say "streaming" where the code
checks nothing else.

### 2.2 ConduitCall

`Begin` and `AddDuration` are the two reads of `_maxCallDuration` in
`calculateDeadline`, between which `SetMaxCallDuration` may come. `Receive` is one
round of `await foreach`: `HandleResponse` either hands the payload to the user or
throws, which disposes of the server's stream (`Drop`). `TokenPassed` says which
calls are given the user's token: `UnaryRequest` and `ClientStream` are not.
`Elsewhere` are the steps of the server's side in which the client has no part.

### 2.3 ConduitRouter

`table` holds the `_routes` of every router that was built, in the order of building,
`base` remembers from which router one was built. A *front* is a conduit object that
holds one other conduit and may own it; its four kinds differ only in this:

| Front | `chainDispose` | `hosted` |
|---|---|---|
| `ConduitClient`, `FakeConduitServer` | as constructed | no |
| `ProtobufGrpcServer` | as constructed | yes: its gRPC server is shut down first (`ShutDown`), and a second shutdown throws |
| `FakeConduitClient` | no | no |

What a front holds is a front, a router, a server or `Nothing`: a conduit that cannot be
disposed of through an interface. `HttpConduitClient` is one, and so is
`ProtobufGrpcClient`, which has a `DisposeAsync` but does not implement
`IAsyncDisposable`. A disposer is a thread that runs `DisposeAsync` of a front, a router
or a server: test of the flag, set of the flag, and then on to what is owned (`Chain`),
or the walk over the routes, and for each chained server its own test, set and the
application's `DisposeAsync`, which may throw. `Reached` is the server that a call
reaches; directing a call changes no state.

### 2.4 ChatHub

A task is a call under way: `LookUp` (`TryGetValue`), `Register` (the insertion of
`GetOrAdd`), `Read` (of `_undelivered`, with the test of `TryAdd` or `TryRemove`),
`Exchange` (the compare-and-exchange, which on failure looks at what it finds). What a
task computes from its own copy is part of the step that read it. A task whose caller
has gone away runs to its end like any other, and a retry is one more task, so lost
replies need no action of their own. Two dictionaries with equal contents may be
different objects; the exchange then fails in the code and the task reads the same
contents again, which is a stuttering step here.

### 2.5 GrpcTransport

| Variable | in the code |
|---|---|
| `client` | the method of `GrpcConduitClient`: in `MoveNext` or in the await of the single response (`waiting`), between `MoveNext` and the test of the token (61, 103), suspended at `yield return` (`holding`), in `await pushTask` (81, 108), `over` with an `outcome` |
| `push` | the task of `Task.Run` (71, 91): `queued`, taking requests from the caller (`pulling`), or over |
| `wire` | the call in the client's library: open, over with a status (`finished`), or ended early by token, deadline, `Dispose` or the network |
| `handler`, `reader`, `status` | the method of `GrpcService`, its request stream, the status sent when it stops |
| `taken`, `sent`, `fed` | requests taken from the caller, written, read by the conduit |
| `down`, `got` | responses written by the service, yielded to the caller |

Messages of one direction cannot overtake each other, so counters say everything
about order and loss. The gRPC library is external and modelled from its use:
a call that was ended early fails its pending operations, `WriteAsync` fails on a call
that is over, `CompleteAsync` only on one that was disposed of, the status comes after the
last response, and the service learns of an early end in time. The conduit behind the
service may read, answer, end and throw as it likes. The response of a single-response
method travels with the status, so `Answer` is the end of the response stream.

### 2.6 InfoCodec

A text is a sequence of tokens: the two key words in the spellings that matter, the
delimiters, version numbers, white space, and one token for each class of characters the
code treats differently. `Round` is one round of the loop of `ParseFrom`, with
`remaining`, `delimPos` and the values found so far; an exception is the result `NoInfo`.
`Meaning` says what a text means without a parser, by its pieces and their bindings.
`ParseFrom` is proved to compute it (section 5).

### 2.7 ProtobufNet

| Variable | in the code |
|---|---|
| `client` | the method of `ConduitClient`, above that of `ProtobufGrpcClient`: `waiting` for a response, `handling` one that has arrived (`Take`) and that `HandleResponse` has not looked at yet, `holding` one at `yield return`, `over` with an `outcome` |
| `handler` | the method of `ProtobufNetServer`: `arrived` at `GetMaxCallDuration`, `linked` with both token sources made, `serving` in its call of the `ConduitServer`, or over |
| `timer` | when `deadlineCts` fires |
| `contextDeadline`, `contextCancelled` | what gRPC tells the handler |
| `written`, `got` | responses written to the wire, responses passed to the user |

`cancelled`, of `ConduitServer`, is the linked token. gRPC carries the deadline as a remaining
time, so the server's deadline is the client's or a later one. A negative number of
milliseconds makes the constructor of a token source throw, but for -1, which makes a
timer that never fires. `SendResponse` writes a response and asks the `ConduitServer`
for the next. A connection may be lost as long as a client waits; the server learns that
its client has gone by the cancellation of its context. The user may cancel its token
wherever the client is, also between the arrival of a response and the call of
`HandleResponse` on it (`ConduitClient.cs:112`); the `RpcException` that comes of a
cancellation shows when the client waits the next time. gRPC hands over no response of
a call once that has been cancelled (`Take`).

### 2.8 HttpTransport and WebFront

`attempt` is the attempt the `HttpClient` waits for and `execution` says of each how far the
application is with it, so an attempt that was given up may arrive and run later. The
control code of a request is not sent, so that the application may answer anything to
the request that `GetAppInfo` has become (`Texts`). The status is not looked at: after a
500 has been retried in vain, the body is not JSON and the parser throws.

`RunScript` is `NavMenu.razor.js`; `ToggledBy` is what its listeners do to the check box when
the menu is clicked. A navigation either keeps the document, with the check box and the
listeners as they are, or replaces it; the script, a module, runs once in a document.
`OpenWeather` is the await of `OnInitializedAsync`, `Show` what follows it: `WeatherClient`
throws on any result that is not a forecast.

## 3. Plan

The modules were written in the order of section 2, the specification of each component before
its proofs: the server, the client on top of it, routing and disposal, the hub, and then the
transports, each against the abstract specification of what it carries. What a next step
could add:

1. Calls in `ConduitRouter` that race with the disposal of the test doubles, which throw
   `ObjectDisposedException`.
2. `altResponse` word by word, for applications that use two threads (section 6).
3. `ConduitRouter` over `ConduitServer` as a refinement, once streams of requests are routed.

## 4. Runs and what they show

| Run | Question | Result |
|---|---|---|
| `server` | types and the eight safety invariants of a call; `CutLeadsToEnd` | hold |
| `server_duplex_cut` | `CutNeverEndsNormally`: line 152 says that the alternative response tells the caller that the client stream did not complete | violated |
| `call` | `DeadlineWithinRange`, `NoOrphanedStream`; the composition implements `CallPromise`; `CutReachesUser` | hold |
| `call_appinfo` | `EveryCallHasDeadline`, the doc of `MaxCallDuration` | violated |
| `router` | types, `OwnershipRespected`, `WalkDisposesAll`, `OnceDespiteManyRoutes`; `QuietMeansComplete`: a thread that finds a flag set may trust the thread that set it; `DisposalEnds` | hold |
| `router_streams` | `DirectedAsConfigured`, the class comment | violated |
| `hub` | types, `Conservation`, linearizability (`MailboxSpec`), `SomeTaskReplies` | hold |
| `grpc` | `NormalEndAfterRequests`; both directions of a gRPC call implement `StreamPromise`; `CancelEnds`, `ConduitNotForgotten` | hold |
| `grpc_cancel` | `NormalEndMeansAll`, which the cancellation tests of the other conduits expect | violated |
| `protobuf` | the responses implement `StreamPromise`; `AlwaysBounded` and `StayBounded`: no call and no stream without an end in time; `OutcomeJustified`: of two clocks, neither is early, a `TimeoutException` means that the client's deadline is over, an `OperationCanceledException` that the deadline has come or, without one, the hour has passed; `InfoSurvives` | hold |
| `protobuf_cancelled` | `CancelledMeansCancelled`, the comments of `ControlCode` | violated |
| `web` | `SuccessIsAnswered`: nothing but an answer to the attempt waited for is a success; `ParseFaithful`: `ParseFrom` against `Meaning` on arbitrary texts; `LinkClosesMenu`, `LoadingEnds` | hold |

The type invariants of `ConduitCall`, `GrpcTransport`, `ProtobufNet` and `WebFront`, and
`DerivedKeepsRoutes` and `ForecastIsReal`, are proved (section 5) and not run any more.

The five violations are disagreements between the code and its own comments and tests:

* A duplex call whose requests were cut short ends normally when the application
  ends its responses without yielding one more: nothing looks at `altResponse` after
  the loop (`ConduitServer.cs:148-172`). `ClientStream` does (116).
* `GetAppInfo` passes a null deadline whatever `MaxCallDuration` is
  (`ConduitClient.cs:94`).
* `ClientStream` and `DuplexStream` of the router look up route 0
  (`ConduitRouter.cs:89`, `102`, marked todo).
* A gRPC response stream whose token is cancelled between `MoveNext` and the test beside it
  ends normally and drops the response it holds (`GrpcConduitClient.cs:61`, `103`).
  `ResponsesKept` therefore excuses the response stream of a caller that has cancelled.
* A protobuf-net call that is out of time may be reported as cancelled: the transport's timer
  cancels the token that `ConduitServer` tests before the clock
  (`ProtobufNetServer.cs:64`). `OutcomeJustified` is what does hold: the time of the call is up.

Bounds. In the server and call runs the clock takes three values and a stream may carry
one more item at each instant (`MaxTime`, `Pace`), so streams have up to three items;
every deadline from 0 to past the horizon occurs, and so do items before, at and after
it, and a cancellation at every point but the last instant, which leaves room for the
item at which the cut is noticed. The properties relate an item to the tests made on it
and to its neighbours, and a third item adds no new relation. Durations are set from -1
to beyond the longest. The router run has two conduits to build (two routers of which
one may be built on the other, a front on a router, on a server or on a front), two
routes, two servers of which one owns its application, and two threads: the least with a
router of two routes, a shared server, a chain of two links and a race; the invariants
are proved for any numbers. The hub run has one mailbox, two messages, one sender and
three calls: the least in which one exchange is overtaken by two others; mailboxes of
different addresses do not touch one another. The gRPC run has up to two requests and
two responses, all four methods, with and without a deadline: a first and a last item in
each direction while the other side ends, fails or is cancelled; the safety properties
are proved for streams of any length. No run uses symmetry: the passing ones check liveness
properties. In the protobuf-net run the hour is two units and the clock has six values, so
that a request arrives before, at, one unit and two units after its deadline (-1 and
below are different cases), with or without one, and the timer of a call without a
deadline still runs out; the window holds one response. In the web run there are three
attempts, a first, a last and one between, and every text of up to three pieces out of
nine.

Deadlock. A call that is over stutters explicitly (`Over`, `CallOver`, `NetOver`, `WebOver`),
so TLC checks that no other state is stuck. In the router runs every
thread may have finished, and nothing need ever be done again, so deadlock is not checked
there. In the hub somebody can always call, and a user can always click.

Fairness. The runtime resumes every continuation that can go on, so the steps of the
server, the client, a disposer and a task of the hub are weakly fair; so is the clock. For
`CutLeadsToEnd` the application and the caller are assumed to cooperate while the call
lasts: the application goes on yielding responses and reading requests and answers a
client stream once the requests are over, and the caller goes on sending and asking.
They are never assumed to end a stream of their own accord. Without that the code
guarantees nothing: it has no timer, and a call whose application is silent is not cut.
In `grpc` the client's continuations, the start of
the push task and the news of an early end are weakly fair; the caller asks for the next
response and its requests go on, end or throw (`ClientStream` and `DuplexStream` notice a
cancellation during `await pushTask` only then); and a conduit whose token is cancelled
stops in the end, which is what `CutLeadsToEnd` shows of `ConduitServer`. That an open call is
answered is assumed nowhere. `SomeTaskReplies` is lock-freedom; one unlucky task may retry for ever.
`StayBounded` assumes the clock, the timer, gRPC's news of a client that has gone and the
continuations of the handler; that the application goes on answering, and that the user
goes on asking or leaves: a user that does neither holds the handler at its `yield return`
past the hour. `DisposalEnds` assumes that an application's `DisposeAsync` and the shutdown of a
gRPC server come to an end. `LoadingEnds` assumes the total timeout of the resilience
handler, and that Blazor renders.

## 5. Proofs

TLAPS checks the theorems below for all values of the constants, under the assumptions
named in the modules: `NullAssumption` (null is no number), `LongestCallAssumption`,
`BoundsAssumption` (the bounds are natural numbers), `NobodyAssumption` (null is
neither a sender nor a mailbox), `RouterAssumption` (routes and the bound are natural
numbers, null is no server), `NetAssumption`, `HttpAssumption` and `LongestNameAssumption` (the
hour, the window, the number of attempts and the longest name are natural numbers, and the
longest duration of a call is within the hour),
`TextsAssumption` (an application answers in tokens) and `AppInfosAssumption` (a name is
any sequence of tokens; a version, which the code holds as a `Version`, is one of numbers:
nothing is assumed of their length or of what the constructor lets through). The proofs about
`GrpcTransport` use no assumption on its bound.

**ConduitServer.** No safety property of a call is inductive alone. The invariant
`IInv` adds to the types: nothing has happened before the call starts (`NotStarted`);
at each position of the pump the lengths of `fed` and `requests`, the verdict of the
latest request and `altResponse` fit together (`PumpInv`); at each position of the
method the lengths of `out` and `arrivals` and the verdict of the latest response do
(`StreamInv`), and the same for single responses (`SingleInv`). The argument rests on
verdicts being stable: time does not go back and a token stays cancelled, so an item
that was late when it arrived is still late at every later test (`JustifiedStable`), and
`altResponse` is set only once (`AltSetOnce`). All eight safety invariants of the run
`server` follow.

**ConduitCall.** `CallInv` relates the position of the client to that of the server and
its outcome to the latest response. Its steps are made of the server's, so that theorems on the server carry over
(`ClientLateNeverDelivered`). With the invariant every step of the composition is a step
of `CallPromise` or a stutter (`CallKeepsPromise`): an answer
arrives at `AppYield` or `AppReturn`, is delivered at `Receive` or `SingleResult`, and
everything in between stutters.

**ChatHub.** The invariant says that a mailbox is registered at the address it was made
for (`Owned`), that one that is not registered is empty (`Fresh`), that a task exchanges only
what it found worth exchanging (`Poised`), and `Conservation`. From it, `HubIsLinearizable`:
a call takes effect at its successful exchange, or, if it changes nothing, at its last
read; registering a mailbox changes nothing that can be seen. `DelayMeansSuccessHolds` is the
safety half of lock-freedom, which `SomeTaskReplies` checks with fairness: an exchange that would
have succeeded is spoilt only by another task for the same address that succeeds in that step.

**GrpcTransport.** The invariant `IInv` says of the push task that nothing it took is unsent
unless it failed, and that a half-close proves that it ended (`PushInv`); of the service, that
status OK proves that its handler returned (`StatusInv`); of the client, what must have been
true to get where it is, in particular that `DuplexStream` awaits its push task either
after all responses or cancelled (`ClientInv`). With it each action is a step of
`StreamPromise` for the requests and one for the responses, or leaves them alone.

**ConduitRouter.** The invariant has a part for each thread: where it is and what it holds
(`PlaceInv`), by what right it is there (`RightInv`), how far its walk is (`WalkInv`), and how
often it disposed of an application (`OnceInv`). The part that threads share is `PassedOn`:
whatever is disposed of has passed its disposal on, or some thread is about to. A thread
that finds a flag set may return because the thread that set it keeps this up, unless one
has failed, which is why the invariant says `Failure \/ PassedOn`. Every step either hands on
what the thread owed or keeps it (`Orderly`), whatever the others do (`Kept`); building
only grows the tables (`Grows`). All six invariants follow.

**ProtobufNet.** On top of the invariant of `ConduitServer`, which the transport keeps since its
steps are steps of the server (`NetServerSteps`), `NetInv` says how far the handler may be
with the server (`HandlerInv`), that the server's deadline is not before the client's, that every
call that is served is timed and that no timer is set to an instant before the client's deadline,
or before the longest stay without one (`ClockInv`), that the token is cancelled only when the
time of the call is up or the client has gone or cancelled (`CancelInv`), and how the counters of
responses fit the server's `out` (`WireInv`). `TakenInv` closes the gap between the arrival of a
response and its handling: if the response at hand speaks of a cancellation, time was up when it
arrived, because the user had not cancelled then, whatever it has done since. A verdict that
reaches the user is then a true one for *its* deadline (`OutcomeJustifiedHolds`), and every step is
a step of `StreamPromise` or none (`NetKeepsResponses`). That no timer is early rests on
`NetAssumption`: the longest duration a `ConduitClient` may be given, five minutes, is within
the longest stay, one hour, so that the cap never cuts a deadline short. The steps are also steps
of the server or none (`NetServerSteps`), which carries over what is proved of it
(`NetLateNeverDelivered`).

**WebFront.** `WebInv` relates what the page shows to the outcome of its call, and the outcome
to the attempt that brought it. That a document has one listener at most, a part of the
types, is what makes a click on a link close the menu.

**InfoCodec.** `ParseFromMeaning`: for every text, of any length and any tokens, the loop of
`ParseFrom` computes `Meaning`, the exception included. The invariant of the loop is
`HasRead(input, p, st)`: `rest` is what begins at `p`, which is the start of a piece, `delim`
is the first delimiter of `rest`, the values found are the last ones bound before `p`, and
`failed` says whether the text was blank or a bad value was bound before `p`. A round takes it from one start
of a piece to the next (`Round` and `Assign`, with a lemma for a piece that binds a key and
one for a piece that does not). Induction over the rounds goes by a least counterexample
(`LeastElement`, from the well-foundedness of the order on the natural numbers), because no
prover here can instantiate the induction theorems of the library, and `ParseFrom`'s own
`after` is given its recursive equation by the same route. `PrintedInfoRead` follows: the text
`ToString` prints has exactly two pieces, each binds one key, and the trip through a payload
leaves them alone. The systems around it carry these two facts: `InfoSurvivesHolds` for what
`GetAppInfo` brings over protobuf-net, and `ParseFaithfulHolds` for what it makes of an
arbitrary answer over HTTP.

**How far the findings go.** Each of these four invariants or action properties is a claim
that is left standing beside a violated one; but for the last they are theorems only.

| Finding | What holds all the same |
|---|---|
| `CutNeverEndsNormally` | `HiddenCutIsSilent`: a cut is hidden only in `DuplexStream`, and only if the application gives no response after it |
| `EveryCallHasDeadline` | `OtherCallsHaveDeadline`: every call but `GetAppInfo` has the deadline `MaxCallDuration` asks for |
| `NormalEndMeansAll` | `NormalEndIsTrue`: for a caller that has not cancelled a normal end is the whole stream, and a single response is always that of a conduit that has returned |
| `CancelledMeansCancelled` | `OutcomeJustified`: who is told of a cancellation is told when the time of its call is up, its own deadline or the longest stay |

Only model-checked are the liveness properties, for which TLAPS has no rule of fairness
here: `CutLeadsToEnd`, `CutReachesUser`, `DisposalEnds`, `SomeTaskReplies`, `CancelEnds`,
`ConduitNotForgotten`, `StayBounded` and `LoadingEnds`. Every other property of a passing run
is a theorem.

## 6. Not modelled

* Calculator: floating-point arithmetic, and a `Range` stream that is one of the behaviours
  `ConduitServer` allows every application. How the weather service computes a forecast.
* Encodings (MessagePack, protobuf, JSON): a payload is opaque, but for the text of an
  `AppInfo`. Error texts are left out; the control code carries the meaning.
* `GetConduitInfoAsync`: returns a constant.
* Torn values. `altResponse` is a captured nullable struct of several words, written
  without a lock. The models write it in one step. An application that reads its requests
  on one thread while it yields responses on another can in principle let the loop see
  `HasValue` before the value is there. What is then seen is up to the compiled code.
* Calls of the test doubles that race with their disposal.
* protobuf-net: a client notices the loss of a connection, a cancellation or its deadline
  at once or later, but no reason is kept apart: all of them are an `RpcException`.
  Disposing of a `ProtobufGrpcClient` is such a loss.
* HTTP: the deadline is carried but `ConduitServer.UnaryRequest` does not use it, so it
  is left out, and so are the circuit breaker of the resilience handler and the branch of
  `HttpConduitClient` for a JSON null, which the endpoint never sends.
* Web front: the output cache and the error page; the counter of the counter page; the back
  button and the address bar, which change the page without a click on a link; the
  paging methods of `WeatherApiClient`, which no page uses. One call is modelled, so the
  weather page is opened once.
* Hosts and benchmarks: wiring and time measurements.
