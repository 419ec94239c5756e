# A verification of connect-py in TLA+

connect-py serves and calls RPCs over Connect, gRPC and gRPC-Web, as an ASGI
application (asyncio or trio), a WSGI application, and asynchronous and
synchronous clients. These modules model the parts whose correctness depends on
the order in which things happen - cancellation, deadlines, disconnects, failed
sends, chunked bodies, threads - and the small data structures and conversions
that those parts rely on. TLC checks them on small instances; TLAPS proves what
matters most for every value of the constants.

Paths below are relative to the repository; `server_async` stands for
`src/connectrpc/_server_async.py`, `health` for
`connectrpc-grpchealth/connectrpc_grpchealth/_service.py`, and so on.

## Inventory

| Component | State | Operations | What is hard | Correct when |
|---|---|---|---|---|
| ASGI server, one request (`_server_async.py`, `_loop.py`) | the coroutine, `_ResponseSender` (started, failed), `_RequestReceiver` (body_done, disconnected), the timeout scope, the watch's task, the hooks started | route, start hooks, read, call handler, stream, end hooks, write status | cancellation at any await by app server or deadline; disconnect; failing sends; user code that raises or swallows | messages in legal order, every hook ends once and knows the outcome, honest status, nothing left open, cancellation never lost |
| Lifespan (`_server_async.py`) | service generator, resolved endpoints | startup, shutdown, cancellation | failure in any step; app servers that go on without a lifespan | a request never meets an unresolved service |
| trio variant (`_server_trio.py`) | cancel scopes, nursery, disconnect flag | as asyncio | cancellation raised at every checkpoint, shielded cleanup with a limit | as above; cleanup is bounded |
| WSGI server (`_server_sync.py`) | response iterator, request body, hooks | unary, stream, `close()` | lazily written stream, abandoned iterator, undrained body | status once, hooks end once, body drained |
| Envelopes (`_envelope.py`, `_protocol_connect.py`, `_protocol_grpc.py`) | buffer, length read, ended | feed, end of body, end messages | frames across chunk boundaries, truncation, trailing bytes | independent of chunking; an end is an end |
| Clients (`_client_async.py`, `_client_sync.py`) | call, deadline, response stream | unary, stream, close | early end, deadline, reset, trailers, dropped iterators | exactly one honest outcome, nothing leaked |
| Protocols (`_protocol*.py`) | none | codes, timeouts, trailers, negotiation | rounding, limits, unknown codes, errors before the body | a client understands what the server meant |
| Interceptors (`_interceptor_*.py`) | hooks started | wrap, hoist, resolve | errors and cancellation inside hooks, abandoned generators | proper nesting, outcomes propagate |
| Headers, context (`_headers.py`, `request.py`, `_response_metadata.py`) | a dictionary and a multi-value overlay; a context variable | get, set, add, delete, clear; enter, exit | two representations in step; nested contexts | is a multimap; metadata of its own calls |
| Compression (`_compression.py`, `compression/`) | none | negotiate, decompress | bounded output at the boundary | never more than the bound, never a wrong verdict |
| Health checking (`connectrpc-grpchealth`) | statuses, watchers, an event per watch | set_status from any thread, Check, List, Watch | threads against event loops, lost wakeups, timed waits | watches converge, the table has no leftovers |
| Reflection (`connectrpc-grpcreflect`) | registry, names sent per stream | lookup, closure | diamonds, repeated requests, concurrent streams | answers are exact and can be built |
| OpenTelemetry (`connectrpc-otel`) | spans, current span, patched constructors | on_start, on_end, (un)instrument | overlapping calls, repeated instrumentation | one span per call, under its caller |
| Codecs, errors (`_codec.py`, `errors.py`) | none | library calls | - | not modelled |
| Code generator (`protoc-gen-connectrpc`) | none | text generation | - | not modelled |

How they interact: an ASGI or WSGI server negotiates a *protocol*, whose
*envelope reader* cuts the request body into messages for the handler; the
leading *metadata interceptors* run as hooks around the whole request, the rest
wrap the handler. A client is the mirror image. Health checking and reflection
are handlers served like any other; `StaticChecker` is shared by all calls and
by the application's own threads.

## Modules

| Module | Content |
|---|---|
| `Rpc` | abstract specification: what a client of one RPC is promised |
| `AsyncRequest` | `_handle_request` under asyncio, with its environment |
| `AsyncRequestProperties` | its properties, and its refinement of `Rpc` |
| `AsyncRequestTypes`, `AsyncRequestProofs` | proofs: types; every safety property, and the refinement |
| `SyncRequest`, `SyncRequestProofs` | one request to the WSGI application, with the app server; its properties, refinement of `Rpc`, proofs |
| `EnvelopeReader`, `MCEnvelopeReader`, `EnvelopeReaderProofs` | the envelope reader, its instance, proofs |
| `ClientResponse` | how both clients judge headers, frames, ends and resets |
| `ClientCall`, `ClientCallSync` | one call of the asynchronous, of the synchronous client, with the server and the network |
| `Clients`, `ClientProofs` | a call of either; their common properties and refinement of `Rpc`; proofs |
| `TrioRequest` | the request under trio, from the handler's call on |
| `Lifespan` | the application's lifespan and the requests it admits |
| `InterceptorChain` | the invokers wrapped around an endpoint, in servers and clients |
| `ServerLoops`, `ServerProofs` | runs one of the three above; proofs |
| `HealthWatch`, `HealthWatchProofs` | `StaticChecker` and Watch, proofs |
| `Multimap`, `HeadersStore` | what `Headers` promises, how it is stored |
| `DeadlinePropagation` | timeouts written, parsed and passed on along a chain of calls |
| `Reflection` | the walk over imports, the registry, the streams |
| `ResponseMetadata` | nested contexts that collect response metadata |
| `Telemetry`, `Instrumentation` | spans; patched constructors |
| `Decompression` | bounded decompression |
| `Exchange` | what a server means and a client understands, over every protocol |
| `Parts`, `PartsProofs` | runs one of the small parts above, from `HeadersStore` to `Exchange`; proofs |

`Clients`, `ServerLoops` and `Parts` are sums: `client` or `part` is chosen in
the initial state and names the one component that steps; the others stay in a fixed
initial state. The components share no state, so no interleaving is lost, and
one run checks them all (each invariant constrains only its own variables). In
`Parts`, `Unless(p, rest)` says what holds of the parts that do not run. The
instance's import graphs, timeouts and names are defined there.

Where a module has an operator `X_Name` beside `X`, it is `X` with a plausible
mistake. Nothing uses it: put in the place of `X` it breaks a property, which
shows that the property depends on that code.

### AsyncRequest

asyncio runs a coroutine without interruption between awaits, so `pc` names the
await the coroutine is suspended at (`AwaitPcs`) or the straight-line code
between two of them (`CodePcs`). The rest of the world - client, clock, timer,
disconnect watch, app server - steps only when `Suspended`.

| Variables | Code |
|---|---|
| `shape` `trailers` `deadline` | endpoint kind and protocol; `uses_trailers()`; the request's timeout |
| `bodyDone` `disconnected` `watch` | `_RequestReceiver`, the task of `watch_for_disconnect` |
| `scope` `when` | `asyncio.Timeout`: entered, expiring, expired, exited; its deadline |
| `mustCancel` `cancels` `swallowed` | a cancellation to deliver at the next resumption; how often the app server asked; whether user code ate one |
| `started` `runErr` `runCancel` `endSite` | `MetadataInterceptorsRun._started`; `error` and `cancellation` of `end()`; which of its three callers runs |
| `sStarted` `sFailed` `wire` `status` | `_ResponseSender`; the messages accepted; the status they completed |
| `gen` `requestStream` | the handler's generator, `_StreamResponse.request_stream` |
| `exc` `error` `leaving` `responded` `result` | exception in flight inside the scope; `error`; exception in flight past it; `responded`; how the coroutine ended |
| `seen` `hookTrouble` `interrupts` | history: the error each hook was told, whether a hook failed |

The actions follow the code from top to bottom (sections of the module): start
of the request, reading, the handler, `MetadataInterceptorsRun.end`, the end of
the scope, sending, the status, the event loop. Errors are classes: `http`
(HTTPError), `invalid`, `app`, `gone`, ... carry their own status; `crash`,
`sendfail` and `hook` are plain exceptions, which must also reach the app
server. The app server accepts the messages of the ASGI specification in their
order (`Legal`) and raises for any other; it may raise for any message.
A handler may await, read, yield, return, raise, and swallow a cancellation; a
hook may do the same. Codecs, compression and metadata appear only as failures.

`watch = "waiting"` begins when the watch is scheduled: whether its task was
started by the time the scope is left makes a difference only to whether
leaving it awaits, and the model lets it (`unwatching`), which adds
interleavings.

Two deliberate limits. With `LateAccept` a send that is cancelled may already
have been accepted; the application cannot know (`started` stays false) and may
offer a second start, which the app server refuses. `WireOrder` is therefore
checked without `LateAccept`, and what the user sees (`ImplementsRpc`,
`EndIsHonest`, `NothingLeftOpen`) also with it. `CancellationWins` speaks of
requests without a KeyboardInterrupt: one raised in the final unwinding takes a
cancellation's place. For the same reason `HooksAllEnd` excepts a request that
ends with an interrupt: `end()` does not go on past one.

The properties are grouped by what they protect: `WireOrder` (`SendsInOrder`,
`SilentAfterFailure`), `HooksCorrect` (`HooksUnwindInOrder`,
`HooksEndBeforeStatus`, `HooksAllEnd`), `HooksSeeOutcome`, `EndIsHonest`
(`ReturnMeansComplete`, `CancellationWins`, `HonestTimeout`), `NothingLeftOpen`,
`WatchCorrect` (`OneReceiver`, `NoLateReschedule`) and `ImplementsRpc`.
`NoLateReschedule` needs both the check in the code and the order of events:
`asyncio.Timeout.reschedule` raises unless its scope is entered, and the watch asks only
whether the scope has expired. That it never meets one that was left (`watch = "raised"`)
is because the watch ends, and is waited for, inside the scope.

### EnvelopeReader

A body is a sequence of frames of which only the positions and kinds matter, and
of which the peer sends a prefix. `Feed` appends any number of bytes to the
buffer; the generator `_read_messages` runs until it wants more. `Judgement`
says, without reference to chunks, what is wrong with a body; the reader must
say the same for every chunking (`ChunkingIrrelevant`), and at every moment have
yielded what the chunks have brought in full (`Delivery`). `needsEnd` is chosen with
the body: a Connect client's reader needs an end message, the server's does not.

### SyncRequest

`ConnectWSGIApplication` on a thread: `pc` names the call being made (a hook,
the handler, `start_response`, ...), `site` from where (`call` is `__call__`,
`failed` the `except` of `_handle_stream`, `stream` the generator
`_response_stream`, ...), as one helper is called from many places and its
exceptions go elsewhere from each. `response` is what the application returned:
a list, or a generator that is fresh, open (suspended at a yield) or at its last
item. Once `pc = "idle"` it is up to the app server: it iterates, or calls
`close()`. `exc` is an exception that passes a `finally` on its way out, `error` the
variable of that name; `started`, `ended`, `toEnd` are the state of
`MetadataInterceptorsRunSync`, and `seen` the history of its hooks.

The app server refuses a second `start_response`, as PEP 3333 demands without
`exc_info`, and it, its body and its `send_trailers` may raise. A
KeyboardInterrupt is raised in user code only. Exceptions in the final drain
and status are what makes `StartOnce` exclude gRPC and `HooksSeeOutcome` speak
of single responses separately. `ResponseCorrect` is `StartOnce` with
`ErrorsDrainBody`; `HooksCorrect` is `HooksUnwindInOrder` with `HooksAllEnd`.

### ClientResponse, ClientCall, ClientCallSync, Clients

`ClientResponse` has what the two clients share, without state: which headers a
client accepts (`HeaderError`, `UnaryVerdict`), how a reader decodes the frames of
a chunk and what it says at the end of a body in each protocol, what an HTTP/2
reset means, and what replaces what when an exception meets another.

`ClientCall` is `_send_request_bidi_stream` of `client_async` with
`_consume_single_response` around it, or `_send_request_unary`. `pc` is the await
at which the generator is suspended: waiting for headers, for a chunk, at a
`yield`, closing. `resp`, `buffer`, `reader`, `exc` are its locals. The server
sends headers and chunks of frames, ends the response anywhere, resets the
stream or hangs; the clock passes the deadline; the caller cancels its task or
drops the generator. `sent`, `finish` and `reset` record what the server really
did, and no guard of the client reads them: the properties compare them with
`outcome`, what the consumer is told. `ClientCallSync` is the same for a thread,
with `late` (a body that ended when the deadline had passed) and a close that may
raise in place of what unwinds: an error of the reader takes precedence over it, but not
over a TimeoutError. A wait, and that close, may also raise a TimeoutError that is not
the deadline's (`HttpTimeout`): one of the HTTP client's own timeouts, of the system's, or of
the caller's requests. The clients do not tell it from the deadline's.

`SuccessIsComplete`: a call succeeds only if the server said so at the end of a
response that arrived whole, and the consumer has got all of it. `HonestOutcome`:
every error is one that happened - the deadline or another timeout, cancellation, reset,
the server's status and details. That DEADLINE_EXCEEDED means that the deadline has passed
does not hold (see the observations). `CallEnds`: an asynchronous call neither outlives its
deadline or cancellation nor leaves its response open. `ImplementsRpc`: the
consumer sees the same abstract `Rpc` as a server's client does. The request
is abstracted to whether sending it fails.

### TrioRequest, Lifespan, InterceptorChain, ServerLoops

`TrioRequest` starts where trio differs, at the call of the handler inside
`TrioTimeout` and the watch's nursery. `pend` is the exception in flight: `Cancelled` is
raised at every checkpoint while a scope is cancelled, not once. `limit` is the
deadline of a shielded scope (`_CLEANUP_TIMEOUT`), in which the generator is closed and
hooks end. A disconnect moves `when` up for a unary handler and sets a flag for a
stream, which `Yields` polls. `TrioSafe` joins `BoundedCleanup` (the comment's "at
most twice this"), `HonestStatus` and `NothingLeft`. Sends, bodies and the
unwinding of the hooks are those of `AsyncRequest` and here only end or hang.

`Lifespan` is `__call__` and `_handle_lifespan`: the generator, the local
`service_iter` (`iter`), the resolved endpoints, and what the app server knows
(`server`). The app server may have no lifespans, may go on after one raised, may
cancel one, and may run the application again. `LifespanHonest` relates what it was
told to the state of the service, and what requests found.

`InterceptorChain` is `_apply_interceptors` with `MetadataInterceptorInvoker`,
`MetadataInterceptorInvokerSync` and the hoisting of the leading metadata
interceptors. A layer is named by its place in the list; `Inside` and `Outside` are its
neighbours. `at` is the layer that runs, `op` what was just asked of it or
answered (next, throw, close; item, raise, end), `gen` and `phase` the state
of each layer's generator. The handler is any user code, its iterator perhaps one
without `athrow` and `aclose`; the consumer may throw a cancellation into the
stream or stop early. `Nested` is about order and leftovers, `OutcomePropagates`
about what each hook is told and that no cancellation is lost.

### HealthWatch

Threads call `set_status` (`SetStatus` under the lock, then one `Notify` per
callback copied, outside it). A watch on a thread has a `threading.Event`; a
watch on a loop has an event that only its loop sets, from what `notify`
scheduled (`call_soon_threadsafe`, or trio's `run_sync_soon`). `Reset`, `Check`,
`SendOrSkip`, `Resume` and `Wake` are the loop of `watch` / `watch_sync` with the
service's filter around it; a step of a thread can fall between any two.

### HeadersStore

`_headers.py` keeps the first value of a key in `_store` and the others in `_extra`,
which is made when it is first needed (`made`). `SetItem`, `DelItem`, `AddItem`,
`ClearAll` are the mutators, on names in either case. The refinement maps the two
dictionaries to `Multimap`'s `contents` by `getall`.

### DeadlinePropagation

A chain of calls: `Call` writes the timeout (`_serialize_timeout` with its choice of unit and
rounding, or Connect's milliseconds), `ForeignCall` writes a header of another
implementation (not microseconds, nor one that does not parse), `Arrive` parses or refuses it, `Work` uses it up and `Forward`
passes on the whole milliseconds of `ctx.timeout_ms()`. The sizes of units and the
limits on digits are parameters. `NeverGrows`: no handler has more time than the
first caller had left; `ArrivesAlive`: a header this library wrote loses less than a
unit and is refused only if it is too long for the protocol.

### Reflection

`_file_descriptor_with_dependencies` is a generator with a queue and a set of names, used
by the registry and by every stream; `Walkers` are both. `Visit` takes one import
off a queue, `Ask` starts a walk or answers not-found, `Answer` sends what it
yielded. `ReflectionCorrect`: what a stream was sent is always closed under imports,
and each answer is exactly the file with what it needs and the stream lacked.

### ResponseMetadata, Telemetry, Instrumentation

`ResponseMetadata`: contexts entered and left in a nest, unary calls whose metadata arrives
within the call, streams whose metadata arrives when somebody iterates over them.
`Telemetry`: the hooks of `OpenTelemetryInterceptor`, in tasks with a current span
each; `TraceConnected` and `ContextRestored`. `Instrumentation`: patches and
post-import hooks of `ConnectInstrumentor`; `TracedOnce`.

### Decompression

The bounded loops of the three algorithms: what is asked of the library
(`Ask`: one byte over the limit), how much it gives (`Given`), members of gzip and
frames of zstandard. The input ends well, is cut short, is corrupt in its last member, is
followed by garbage or by zero bytes, or is empty (`Ends`). How the libraries
answer is external and stated in the module: gzip and brotli raise for all of these but
`gzip.decompress` for zero bytes behind the last member, and gzip for no
input; the loop of gzip takes what follows a member for the next one, so there zero bytes
raise as well. The stream reader of zstandard reads the first frame and looks at nothing
behind it, and gives what there is of a frame that was cut short.

`DecompressionCorrect` bounds what is held, and relates every verdict to the input as it was
sent, all members of it: a success of gzip or brotli holds all of a well-formed
message and one of zstandard all of the first frame's bytes that arrived, what is called too
large is, and what is refused was malformed.

### Exchange

One call over an intact network, through `_server_shared`, `_protocol_*`,
`_client_shared` and the writers and readers of both sides: routing, negotiation of
codec and compression (`Route`, `Negotiate`), the handler's metadata, messages and
end, and then the client's reading of headers, frames and trailers. `meant` is the
status the server means, `verdict` the one the client understands;
`ExchangeHonest` says they are equal, but for what it names, and that no message or
metadata is lost. `Accepts` and `Supports` are the lists of compressions clients accept
and the sets servers have, `Names` the metadata a handler may set; a header is a record of
its prefix and its name.

## Runs

| Run | Module, cfg | Shows |
|---|---|---|
| `async_request_safety` | AsyncRequestProperties, AsyncRequestSafety | all safety properties and the refinement of `Rpc`, all six shapes, two hooks |
| `async_request_faults` | AsyncRequestFaults | two messages, two chunks, deadlines 0 and 2, a KeyboardInterrupt in user code, cancelled sends that were accepted: honest ends, nothing left open, `Rpc` |
| `async_request_liveness` | AsyncRequestLiveness | deadline, disconnect and cancellation stop a handler that hangs |
| `sync_request` | SyncRequest, SyncRequest | the WSGI server: hooks end once and in time, one start, body drained on errors, refinement of `Rpc` |
| `sync_request_close`, `sync_request_cleanup` | SyncRequest, SyncRequestClose and SyncRequestCleanup | findings: hooks that never end |
| `envelope_reader` | MCEnvelopeReader, EnvelopeReader | the server's reader and a Connect client's, every chunking |
| `client_calls` | Clients, Clients | both clients over the three protocols: complete successes, honest errors, refinement of `Rpc`; an asynchronous call ends, and closes its response |
| `server_loops` | ServerLoops, ServerLoops | trio, the lifespan, the chain of interceptors |
| `health_watch` | HealthWatch | no lost wakeup, exact table |
| `health_watch_liveness` | HealthWatchLiveness | convergence, end at the deadline (`WatchLive`), no watch ends with success |
| `parts` | Parts, Parts | headers refine a multimap; deadlines, reflection, metadata, spans, instrumentation, decompression, exchange |

### Bounds

- Two hooks are the least for which order, and a failure between two, exist.
- One chunk and one message are the least for the cases "no more" and "one
  more"; `async_request_faults` has two, so that a second message finds the
  headers sent, and one hook.
- One cancellation by the app server besides that of the timer: the code tells
  "mine" from "theirs", and a second one during cleanup is the two together.
- Clock 0..2 with deadline 1 (or 0 and 2): a disconnect before, at and after it.
- WSGI: two hooks, two messages (the first is written from another place than
  the rest), one KeyboardInterrupt; all shapes, with and without trailers.
- Envelopes: three frames of header size 2 and payloads of 0 and 1 byte, all
  truncations and all chunkings: a header can be split, a payload can be empty,
  and two frames can follow a bad one. The proofs hold for any size.
- Clients: chunks of up to two frames, two messages (`_consume_single_response` needs a
  second to refuse), deadlines 0 and 1 and none; about a million states.
- trio: deadline 2, cleanup 2, clock to 8: twice the cleanup fits behind the
  deadline, so `BoundedCleanup` can fail within the clock. `TrioEnds` excepts the
  end of the clock.
- Interceptors: lists of up to three of both kinds, two items; two lifespans.
- Health: one watch of each kind; two setters, two services; one or two sets
  by each. Lost wakeups need one setter; the others are there for the table.
- Headers: two keys, one in two cases, up to two values beyond the first.
- Deadlines: units of 2, 3, 7 and 20 that do not divide one another, limits of 5 (gRPC)
  and 30 (Connect), so that timeouts up to 110 cross every unit and both limits; three hops.
- Reflection: a chain, a diamond and a leaf imported twice, a descriptor given
  twice; two streams, three requests each.
- Contexts: three, two calls; spans: three calls in two tasks; five
  (un)instrumentations; up to three members of up to three bytes, every end of the
  input, and limits of 0, 1, 3 and 5: below, at and above the size of one member and of several.
- Exchange: every code, with and without message and details, every kind of
  call, two messages, one name of metadata and one that is reserved; clients and servers
  with identity alone, gzip or br in common.

Deadlock is checked except where a system that is finished really stops:
HealthWatch (calls ended, setters done), `ServerLoops` (the last lifespan over),
`Parts` (bounds reached, exchange or decompression done).

### Fairness

`AsyncRequest!FairSpec` has weak fairness on `Progress`: the event loop runs what
is ready, the clock and timers advance, app server sends and hooks return, a
generator that is being closed ends, user code that is cancelled stops (or
swallows the cancellation, which `Over` excepts). A handler that is not
cancelled, the client and the app server owe nothing. The disconnect property
excepts a `receive()` that raised, after which nothing can be watched, and the
time before the body was read by a handler that reads it itself.

`HealthWatch!FairSpec`: threads and loops are scheduled, clients read what is
sent to them, the clock runs up to `MaxTime`. Nobody has to call `set_status`
or to leave.

`Clients!Spec`: the event loop of the asynchronous client makes progress and
its clock goes on. Nothing is assumed of the server, the consumer or the synchronous
client, which leaves deadlines to the HTTP client.

`ServerLoops!LoopsSpec`: trio runs the tasks that are ready, the clock goes on and a
cancellation reaches whoever awaits in its scope; user code that is not cancelled
may hang. `SyncRequest`, the lifespan, the interceptors and `Parts` assume no fairness and
are checked for safety.

## Proofs

All are about the same modules that TLC runs, for every value of the constants
that the named assumptions allow, for any number of hooks, messages, frames,
watches, calls, contexts, hops and files. The assumptions say that bounds are
natural numbers and that distinct model values differ (`NHooksAssumption`,
`TimeAssumption`, `BoundAssumption`, `ShapesAssumption`; `HeaderAssumption`,
`BodiesAssumption`; `StatusAssumption`, `ActorAssumption`, `ClockAssumption`;
`ClientAssumption`; `TrioAssumption`, `ChainAssumption`; `HeadersAssumption`; `SizesAssumption`,
`InputsAssumption`; `ReflectionAssumption`; `SpansAssumption`, `BytesAssumption`), and
that every list of compressions that a client accepts has identity (`IdentityAssumption`:
`resolve_compressions` adds it to whatever is configured).
Each invariant below was checked by TLC before it was proved.

`AsyncRequestTypes!TypeCorrect`. `TypeOK` is not inductive: `pc`, `exc`, `scope`
and the hooks started depend on each other (`yielded`, for example, is only
bounded because a generator yields in the handler). The invariant `TInv` adds
which exceptions may be in flight where.

`AsyncRequestProofs`, on top of `TInv`:

- `HooksAreCorrect`: `started` is always `<<1, ..., k>>`, hooks up to `k` have seen
  nothing and those past it at most one error (`UnwindCorrect`); it is empty from
  the end of each run of `end()` to the next (`StatusAfterHooks`, `HooksEnd`).
- `WatchIsCorrect`: the watch receives only after `bodyDone` and the reader waits
  only before it (`ReceiverCorrect`). For `RescheduleCorrect`, `OpenInv` below has the watch
  idle or over wherever the request is past the scope, and `ScopeInv` says that a scope that was
  left is met only at those places; so a watch that reschedules finds its scope entered, or
  one that expires, which it leaves alone.
- `TimeoutIsHonest`: `TimeInv` ties the timer and the scope's state to the clock.
- `NothingOpen`: `OpenInv` says, for each place, which of generator, context and
  watch may be open there. It needs to know where an exception is going.
- `EndsHonestly`: a cancellation asked for is either still to be delivered or in
  flight (`exc`, `runCancel`, `leaving`), and nothing on the way replaces it;
  `AnswerInv` relates what has been sent to what the code believes of it
  (`responded`, `started`, `error`), so that returning means that the answer
  is whole, or could not be sent.
- `WireInOrder`: `OrderOnWire` places `wire` among the prefixes of a legal response by
  the place the request is at. It assumes `~LateAccept`, without which it is
  false (see above); `SilentInv` has nothing sent after a failure.
- `HooksSeeTruth`: `HookInv` relates what every hook has seen to the error that the status
  carries, split by which of the three callers of `end()` told it, and records
  the last of what was told, as hooks after a failed one are told another error.
- `ClientSeesRpc`: the refinement of `Rpc`, action by action. Most steps stutter;
  the client's view moves only where a message is accepted. `Delivered` shows that
  a success follows the right number of messages.

`EnvelopeReaderProofs`: the frames taken are exactly the messages delivered (plus
the end message), all of them complete and good; the header read is that of the
frame at the head. From that `ChunkingCorrect` and `DeliveryCorrect` follow.

`SyncRequestProofs`: `started` is always `<<1, ..., k>>` and `toEnd` a prefix of it;
exactly the hooks past that prefix have seen an error (`UnwindCorrect`). `SiteInv` is
which helper is called from where, `FlowInv` adds what is known at each place of
the exception in flight and of the response. `ResponseIsCorrect` rests on `BegunInv`
(a response that began has no second start but for gRPC's trailers) and `DrainInv`;
`HooksSeeTruth` on `ToldInv`, what each hook was told, with `StreamInv` and
`SingleInv`, the error that is known while hooks end in either kind of response; `ClientSeesRpc` on
`DoneInv`, what is complete when the last item is taken.

`HealthWatchProofs`: `Table`, `Entries` and `Entered` make the table exact. For the
wakeups: from its check on, a watch either knows the current status or is
`Wakeable` - its event is set, scheduled, or in a setter's copy of the callbacks.
Each step of `set_status` moves the burden from one to the next. `WatchNeverSucceeds`
needs `LateInv`: no timed wait ends before the timeout of its call, however late it began.

`ClientProofs`: both clients are instances over the same variables, so each
action of either is first named by what it does (begins, reads, yields, leaves, ends), and each
part of the invariant is shown to survive each kind. `LoopInv` is an equation: what the server
sent is what was taken plus what is buffered plus the one at the `yield`, and `finish` is
what reading the rest will find. `ReaderInv` does the same for the end of the stream. At the
end they give `SuccessComplete`. `ExcInv`, `PendingInv` and `CancelInv` have, behind
every error in flight, the event it names - for a TimeoutError the clock, or that it is `HttpTimeout` - which
gives `OutcomeHonest`; `ConsumerSeesRpc` is the refinement.

`ServerProofs`: `TrioIsSafe` rests on `CleanupInv`, which charges all time that passes after
the app server's cancellation to one of the two shielded scopes, `PendInv`, the
exception in flight place by place, and `OpenInv`. `LifespanIsHonest` is a case for
each place of the lifespan. The two about interceptors hold for any list and share
`ChainInv`. `PlaceInv` says that a call is in one of three states: on its way in for the first
time, between two items with every generator suspended, or on its way out with everything
inside over. With `EnteredInv` and `EndedInv`, which tie both histories to the place `at`,
it gives `LayersNest`. `PhaseInv` adds what the layers around `at` wait for: once a
cancellation was thrown in, all of them hold it, only the innermost may have closed a
stream that yielded again, and an on_end that ran left with an exception; so an answer cannot
swallow it. `SawInv` is the chain from one on_end to the next, and to the consumer.

`PartsProofs`, one part at a time; a step of another part stutters:

- `HeadersAreAMultimap`: a refinement. Its invariant `InStep` says that a key has extra
  values only if it has a first one and `_extra` exists; without it a deleted
  key would come back with old values.
- `DeadlinesAreHonest`: division lemmas give that parsing what was written is never
  more than was meant and short of it by less than a unit; `FaithfulUnit` shows
  the same of the unit that is chosen. The invariant adds what is on the wire, and that a
  refused header is one the protocol does not accept.
- `ReflectionIsCorrect`: in the middle of a walk, what the walk has seen is closed under
  imports except for what is still in the queue, and everything it yielded is
  needed by its root; so when the queue is empty it is exact.
- `MetadataIsCorrect`: contexts are a stack without repetitions in which each restores the
  one below (`StackInv`), and only calls that were made are shown (`ShownInv`).
- `TelemetryIsCorrect`: in a task whose calls ended innermost first, there is an order of
  the open calls in which each holds the token of the one before, and the last one is
  current (`OrderInv`); `PlaceInv` keeps the spans of one task out of another.
- `TracesOnce`: a module is patched or has a hook that will patch it (`HookedInv`), and
  wrapping twice is wrapping once (`CreatedInv`).
- `DecompressionIsCorrect`: what is held plus what is to come of a member is the sum of
  the members so far (`LoopInv`), and `member` passes the last one only in a gzip message that
  is followed by something (`BytesTypes`); so a loop that ends well has read to the end of the input, and one
  that finds too much held has found no more than was sent. The module sums with a
  fold over a set; that the sum does not depend on the order is proved first.
- `ExchangesAreHonest`, for any compressions, metadata and number of messages: a response
  is one of five, a bare HTTP error, Connect's error as JSON, gRPC's trailers alone, the
  message of a unary call, or a stream (`HttpError`, `JsonError`, `TrailersOnly`, `Single`,
  `Stream`). Of a stream, what is still to be read is exactly the messages sent that the
  client has not got, and then the end. `VerdictIs` takes a status through gRPC's trailers
  and back: it is unchanged but for what a user's reserved trailers may add, and no failure
  becomes a success. `Negotiated` shows that the compression chosen is one the client accepts.

The library's induction theorems take an operator as a parameter, which the provers
installed cannot instantiate. Where a proof needs induction over numbers or finite
sets (`SetInduction`, `ThroughIs`, the sums), it takes a least counterexample from the
well-foundedness of `<`.

Proofs found faults in the model: the guards of the `CASE`s in `Exchange!Rejection` and
`Exchange!GrpcVerdict` overlapped, and only TLC's choice of the first made them say what the
code says. They are chains of IF in the order of the code now.

Only model-checked: liveness (`DeadlineEnds`, `DisconnectEnds`, `CancelEnds`, `WatchLive`,
`CallEnds`, `TrioEnds`), as fairness and ENABLED are out of the prover's reach. Every
invariant, action property and refinement of the passing runs is proved.

## Findings

Both are about the hooks of a WSGI stream, which exist to be told the end of
every request (metrics, spans, locks): in both `on_end` never runs.

- `sync_request_close`: the app server closes the response before its first item,
  as PEP 3333 lets it, for example when the client is
  gone by then. `_response_stream` is a generator
  that has not begun, so its `finally` does not exist yet: neither the handler's
  generator nor the hooks are ended. A test says that closing a response before
  its end does both; it only closes after the first chunk.
- `sync_request_cleanup`: a handler raises while `_end_stream` throws the error of
  the response into it (server_sync 739). `metadata_run.end` two lines below is
  skipped, and no status is written.

## Observations

Things the models show that a maintainer may want to know. The first two disagree
with the code's docs; the models have them as the code does.

- `except TimeoutError` (client_async 349 and 443, client_sync 351 and 435) reports any
  TimeoutError as DEADLINE_EXCEEDED, also one of a connection that timed out in a call
  that has no deadline; a caller who retries on UNAVAILABLE does not. code.py 24
  documents it as "Deadline expired before RPC could complete". `HonestOutcome` asks for
  the deadline or `HttpTimeout`; without the latter TLC finds a call without a deadline
  whose wait fails.
- A zstandard message that was cut short decodes to its beginning, with and without a
  limit (compression/zstd 42 and 46), where `decompress` promises that malformed data is
  reported (_shared.py 25). gzip and brotli report it.
- A hook may be told CANCELED while the client is told DEADLINE_EXCEEDED: a hook
  cut off by the deadline makes `end()` report a cancellation to the rest.
- A second cancellation during the final unwinding of hooks skips the status:
  the client gets an incomplete response, the app server the cancellation.
- A disconnect before a streaming handler has read its request is only noticed
  by the handler's own read: the watch must leave `receive()` alone until then.
- WSGI: a success does not drain the request's body, an error does.
- WSGI: when `send_trailers` raises in the `try` of `_handle_stream` the error-only
  response calls `start_response` a second time, which PEP 3333 forbids.
- WSGI: when `start_response` raises after the first message, the handler's
  generator is left to the garbage collector.
- trio: a client that disconnects from a stream is noticed when the handler next yields
  or ends; a stream's handler that hangs without a deadline outlives its client.
- A lifespan that is cancelled between startup and shutdown leaves the service's
  generator unclosed.
- `ResponseMetadata`: a stream's headers show in the context in which it is iterated
  over, not in the one it was called in. `OwnCalls` speaks of unary calls.
- OpenTelemetry: two streams of one task that end out of order leave a span current that
  has ended (`ContextRestored` excepts them). Uninstrumenting does not take back the
  post-import hook of a module that is not yet imported
  (`NoTracesAfterUninstrumenting` in `Instrumentation` does not hold).
- gRPC: trailers of a user with the names `grpc-message` or
  `grpc-status-details-bin` survive when the error has no message or details of its
  own, and a client then reads them.
- Connect: a timeout of more than ten digits, which a client may be given, is refused by
  the server.
- Bounded gzip takes zero padding behind a member for the start of another one,
  unlike `gzip.decompress`. Of a zstandard message of several frames the first is decoded and
  the others are dropped without an error, where gzip's members are all read.
- A stream whose request is cut at a frame boundary looks complete to the server, as
  requests have no end message in any protocol.
- The docstring of `Headers.allitems` promises an iterable view; one obtained before
  `clear()` goes on with the values of the overlay that was replaced. Live views are not
  modelled.

## Plan

1. *Done*: one asyncio request, envelope reader, health watch; their proofs.
2. *Done*: `SyncRequest`, the WSGI server, with proofs of its hooks.
3. *Done*: `ClientCall`, `ClientCallSync` on `ClientResponse`, composed in `Clients`.
4. *Done*: `Lifespan`, `TrioRequest`, `InterceptorChain`, composed in `ServerLoops`.
5. *Done*: `HeadersStore`, `DeadlinePropagation`, `Reflection`, each with its proof;
   `ResponseMetadata`, `Telemetry`, `Instrumentation`, `Decompression`, `Exchange`; composed in `Parts`.
6. *Done*: proofs of every safety property and refinement.
7. `TrioRequest` with the sends, bodies and hooks that are now abstracted to
   whether they end; live views of `Headers`.

## Not modelled

- Codecs: calls of protobuf and JSON libraries without state. A codec that fails is
  an outcome of the actions that use it.
- The rejection of other HTTP methods and of an unsupported
  `connect-protocol-version`: one comparison each, before anything has state.
- Extension numbers and the list of services in reflection, `Check` and `List` of health
  checking: they read one table.
- The code generator, which only writes text, and generated code.
- The conformance and example programs, which only drive the library.
- The HTTP client, the ASGI and WSGI servers, protobuf, zlib, brotli, zstandard and
  OpenTelemetry itself: modelled as far as the code relies on them, and marked external.
