# A verification of MCP_CPP

TLA+ models of the MCP C++ SDK (`src/`), checked by TLC on small instances and, where it
matters most, proved by TLAPS for every value of the constants. Paths below are relative to
the root of the repository.

## 1. The system

The library has two facades, a client and a server, over interchangeable transports.

| Component | Source | State | Operations |
|---|---|---|---|
| Streamable HTTP server transport | `src/server_streamable_http_transport.cpp` | `active_`, `close_notified_`, `listen_fd_`, `accept_thread_`, `stream_connection_`; for each request a `ConnectionContext`; a thread-local current request | `listen`, `close`, `send`, the handler setters; one accept thread, one detached thread per connection |
| Stdio transport | `src/stdio_transport.cpp` | `active`, `ever_started`, `close_notified`, three mutexes, the handlers | `start`, `close`, `send`; one detached reader thread |
| HTTPS client transport | `src/https_transport.cpp` | `active_`, `close_notified_`, the handlers | `connect`, `close`, `send`, all on the caller's thread |
| Event framing | `build_sse_message`, `parse_event_stream` | the data accumulated for an event | frame, parse |
| JSON-RPC messages | `src/json_rpc_util.hpp`, the builders of `client.cpp` and `server.cpp`, `extract_json_member` | none | build, extract |
| Server facade | `src/server.cpp` | `state_`, `transport_`, `request_handlers_`, `tools_`, `resources_`, `prompts_` | `set_transport`, `start`, `stop`, `notify`, `register_*`, `set_request_handler`, and the handlers it installs in the transport |
| Client facade | `src/client.cpp` | `state_`, `transport_`, `next_request_id_` | `set_transport`, `connect`, `disconnect`, `initialize`, `request`, `notify`, and the handlers it installs in the transport |
| Options, types, wrappers, utilities | `include/mcp` | none of their own | plain data and forwarding |

How they interact. A facade installs a message, an error and a close handler in its transport
and calls `connect`/`listen`, `send` and `close`. The transport calls the handlers back from
threads of its own (reader, accept loop, connection threads) or, for HTTPS, from inside
`send`. User callbacks run inside the facade's functions and may call the facade again. The
facades have no lock; the transports have several, and none of them covers a whole operation.

What is hard: threads that close while others listen, accept, send or read; sockets that are
closed by number from several threads; handlers that call back into what called them; exceptions
half way through a change of state; handlers of transports that were replaced; members of a
message that are found by text. `PROJECT.json` lists these hazards with their lines and the
properties that cover them.

What makes each component correct:

- *transports*: a close that takes effect calls the close handler once and only an opening arms
  another one; nothing keeps running or stays allocated after it; a request is answered at most
  once; streams and lines arrive whole and in order; no thread waits for ever;
- *facades*: what they say of the connection is true, `connect`/`disconnect` and `start`/`stop`
  do what they say after any failure, nothing precedes the initialize request;
- *messages*: each request is answered by one response with its id, handlers get what was sent,
  the lists show what was registered, framing and parsing lose nothing.

## 2. The modules

| Module | What it is |
|---|---|
| `TransportContract` | abstract specification: the life of any `ITransport` (open, close, one notification) |
| `StreamableHttp` | the server transport, down to the descriptor table of the process |
| `StreamableHttpProofs` | theorems about it: life cycle, and what is written |
| `StdioTransport`, `StdioTransportProofs` | the stdio transport and theorems about it |
| `HttpsTransport`, `HttpsTransportProofs` | the HTTPS client transport and theorems about it |
| `Frames` | call stacks, for code that calls out and is called again |
| `StdioSession`, `StdioSessionProofs` | composition: a client and a server in two processes, both facades over stdio transports; theorems about it |
| `HttpExchange`, `HttpExchangeProofs` | composition: `send` of the HTTPS client transport against the server's request handling; theorems about it |
| `Client`, `Server` | the facades' life cycles over transports that keep the contract |
| `ClientProofs`, `ServerProofs` | theorems about them |
| `JsonRpc` | messages as sequences of tokens; building and extracting |
| `Routing` | the server's registries and answers, fed with the client's messages |
| `EventStream` | framing and parsing of events |
| `MessageProofs` | theorems about `Routing` and `EventStream` |
| `MC_*` | instances: sets of messages, symmetry |

**The contract.** `TransportContract` has three variables: `open`, `armed` (the next close will
notify) and `pending` (the threads inside a close that has not yet called the close handler).
`StreamableHttp`, `StdioTransport` and `HttpsTransport` implement it under the mapping
`open <- active`, `armed <- ~close_notified` (property `KeepsContract`). `Client` and `Server`
use transports of which they assume just that: they keep `open` and `armed` for each transport.

**StreamableHttp.** Threads are the application's threads (`Apps`), the connection threads
(named by their connection, `Conns`) and the accept loops (named by the `listen` that created
them, `Epochs`). `pc[c]` is where `handle_client` is, `acc[e]` where `accept_loop` is, `op[t]`
where thread `t` is in the `send` or `close` it is in. A critical section that makes no call
outside is one action; `state_mutex_` is held across steps only while the error handler runs in
the accept loop (`StateMutexFree`), `write_mutex` is a variable. Descriptors are numbers,
allocated lowest first and closed by number, as the kernel does; `rcvd` records which bytes
reached which client and on whose behalf. A listening descriptor that is closed under a blocked
`accept` wakes it (`CloseWakesAccept`, macOS) or does not (Linux). Sockets block and have no
timeout: where clients may stop reading (`Stalls`), `stuck[t]` is the client that the `::send` of
thread `t` waits for (`Block`), and only that client's hanging up releases it, with a failed write.
`listen` may fail to create its thread, which leaves a transport that is active and has a
descriptor and no loop.

**StdioTransport.** `reader[r]` is where `read_loop` is, `op[t]` where a caller is; lines are
numbered; `at_close` is a history variable. An exception that leaves the reader ends the program
(`terminated`). `handlers` says which of the three handlers are set. A thread that cannot be
created leaves a transport that is active and has no reader (`Spawn`).

**StdioSession.** Two processes with a main and a reader thread each. `todo[t]` is what the facade
does once the transport's function returns, `op[t]` and `reader[p]` are as in `StdioTransport`, and
`pipe[p]` is everything the process has written: what its peer has not read yet is bounded by
`Capacity`, and a writer waits. A write to a process that has gone ends the writer by SIGPIPE or,
where the signal is ignored, fails the output stream for good. The server's reader replies; the
client's runs a callback that may send and disconnect. User code on either reader, a request
handler or a callback, may throw (`HandlerThrows`); nothing catches it and the program ends, with
`threw` to tell it from an exception of the library's own `send`. `Spawn` may fail, which leaves an
active transport without a reader and a facade that is opening. `next_request_id_++` is a read (`Request`)
and a write (`Send`), since nothing makes it atomic. `TransportsKeep` maps each process to
`StdioTransport` (`Transport(p)`, one instance with the process as its parameter): what is proved
there of one transport holds of both ends.

**HttpExchange.** A request is a sequence of tokens of which `recv` returns any part; `Complete` is
the loop of `read_http_request`, `Accept` its header map (`emplace` keeps the first of two fields
of a name). Each post has a connection, a server thread and the thread-local context of that
thread; a post that was given up leaves them behind. The response reaches the client when the
server has closed the connection. It is given to the client's message handler, if there is one
(`hears`), which may throw at any message; `send` then throws the same (outcome `handler_threw`),
after it has given something, and throws for any other reason (`threw`) before.

**HttpsTransport, Client, Server.** Here the difficulty is code that is called again from inside
its own calls. Each thread has a stack of frames (`Frames`); a frame names what its function does
next, `callback` is user code. A step runs from one call out of the component to the next. An
exception unwinds to the caller or to user code that may catch it. `handles[t]` of
`HttpsTransport` counts what the sends of a thread have not freed yet. The client and server write
`state_` exactly where the code does. `used` are the transports ever opened: a late error of a
closed transport is a behaviour of the models.

**Routing and JsonRpc.** A text is a sequence of punctuation, atoms (`Atoms`) and string literals
(`Strings`). The literal and what it denotes are one token, since quoting and unquoting cancel out;
white space is left out. `ExtractMember` finds the first literal equal to the key and the value after
the next colon, as the code does, and `Close` counts brackets of one kind only. The reference is what
JSON means: `IsStructured` says of a text that each bracket has a partner of its kind, properly
nested, and that every member has a value; `Member` is the value of a key of the outermost object.
What the search could find inside a literal (a colon, or a quoted key at its end) is not in the
model. In a request the id and the method come before anything the application writes, so the
result is the same; a notification, which the search misreads anyway (`NotificationsDelivered`
below), could mislead it in more ways than the model shows. A user's handler returns the text of an
object, any of `Results`, or throws (`threw`), and then nothing is sent: what becomes of the exception
is the transport's business (a 500 in `StreamableHttp`, the end of the program in `StdioSession`).
`UpToDate` says what a list must be, from
the history of registrations.

**EventStream.** The library's own client accepts `application/json` too and is therefore never
sent a stream by the library's server. The run takes `parse_event_stream` as what any receiver of
events does, and feeds it with the library's framing or the standard's. A text is the sequence of its
lines, `NoText` the one that has a single empty line. `Send` adds one event to the body, perhaps after
noise; `Complete` ends the body, with or without the last newlines; `ParseLine` and `ParseEnd` are the
loop of the parser and what follows it.

## 3. The runs

| Run | Question | Result |
|---|---|---|
| `http_close` | two application threads and a handler race listen and close; a request is refused, left unanswered or answered twice; the message handler comes and goes | accept loops always have one owner, a finished close leaves nothing listening, nobody is accepted afterwards, the contract holds |
| `http_requests` | two requests, plain or streaming, whose handlers send one message or none; messages from the application, clients that hang up, a close | types; at most one response for a plain request; events follow headers |
| `http_live` | fairness, a descriptor that wakes accept; a request whose client may stop reading, messages of the application; the handler and the application close and listen again | the request finishes, unless a client that reads nothing blocks who writes for it or its handler's own close never returns; a close returns, unless the transport is opened again before the old loop ended and then stays open |
| `stdio` | two application threads, the handler, three lines | types, order, one handler at a time, one late message, the contract |
| `https` | two threads, nested sends, every failure | types, everything freed once, the contract |
| `client` | the client over two stdio transports, callbacks that send requests | ready means open, disconnect closes, initialize comes first |
| `server` | the server over any transports, failures at every call | running means open, stop closes |
| `stdio_session` | a client and a server in two processes connect, send, leave, exit, throw, and lose each other | replies come in the order of the requests; an exception that ends the server is its own user code's, unless it was stopped or its client has gone; the server handles initialize first; both ends refine `StdioTransport`; every request comes back unless somebody leaves |
| `http_exchange` | two messages of a client, in pieces of any size, over connections that break, with late, double and missing replies and client handlers that are missing or throw | the body arrives whole; a send gives its own first reply and nothing else, or throws before it gives anything; every send ends |
| `routing` | params and results that look like members of a message, handlers that throw; all sequences of three registrations | well-formed answers with the right id and the handler's result, nothing after an exception; handlers get what was sent; the lists show each key once, in its latest revision |
| `events` | streams with noise, framed by the library or by the standard, with or without the last blank line | every message once and whole |

One more run shows a sentence of the documentation that the code does not keep:

| Run | What happens |
|---|---|
| `http_double_close` | a plain request's descriptor is closed in `send` and again by its thread; the number may belong to another client by then |

The modules state, after their other properties, further sentences of the documentation that TLC
refutes. They are not runs of the project; to see one, check it with the configuration named
here and the changes given.

| Module, property | Configuration | What happens |
|---|---|---|
| `StreamableHttp`, `CloseReleasesStreams` | `MC_StreamableHttp_double_close.cfg` with `Kinds = {"stream"}` | a superseded stream is never closed |
| `StreamableHttp`, `HeadersOnce` | the same, with `HandlerSends = {0}` | a sender and the handler thread both write the headers |
| `StreamableHttp`, `ErrorHandlerReturns` | `MC_StreamableHttp_live.cfg` with `AcceptErrorCloses = TRUE` | an error handler that closes waits for its own lock |
| `StreamableHttp`, `CloseReturns` | the same, with `CloseWakesAccept = FALSE` instead | on Linux `close` joins a thread that is blocked in `accept` on the descriptor just closed |
| `StreamableHttp`, `CloseAlwaysReturns` | `MC_StreamableHttp_live.cfg` | the transport is opened again while a close joins: the old loop finds it active, goes on with the new descriptor, and the join never returns |
| `Client`, `ReadyIsOpen` | `MC_Client.cfg` with `Reentrant = {"disconnect"}` | a disconnect made by a callback during connect is overruled by `ready` |
| `Client`, `ConnectOpens` | `MC_Client.cfg` with `Reentrant = {}` | after an exception connect does nothing any more |
| `Client`, `DisconnectedIsClosed` | `MC_Client.cfg` with `DirectCloses = {"other"}` | the close of a replaced transport is taken for that of the current one |
| `Server`, `StartServes` | `MC_Server.cfg` | after an exception start does nothing any more |
| `Server`, `RunningReported` | `MC_Server.cfg` with `Reentrant = {"stop"}` | a request handler's stop during start is overruled by `running` |
| `Server`, `StoppedIsClosed` | `MC_Server.cfg` with `DirectCloses = {"other"}` | as for the client |
| `StdioSession`, `CleanStop` | `StdioSession.cfg` | a stop races a request; the reply's exception leaves the reader |
| `StdioSession`, `PeerNoticed` | `StdioSession.cfg` | at the end of input the server stays `running` |
| `StdioSession`, `RequestIdsDistinct` | `StdioSession.cfg` with `ClientSends = 2` | the application and the callback number their requests at the same time |
| `StdioSession`, `RequestsReturn` | `StdioSession.cfg` with `Capacity = 1`, `CallbackSends = 2`, `ServerSends = 2` | both readers write into full pipes and neither reads |
| `HttpExchange`, `HandledIsSent` | `MC_HttpExchange.cfg` | a notification gets no reply, hence status 500, and `notify` throws after it was handled |
| `Routing`, `NotificationsDelivered` | `MC_Routing.cfg` | a notification that mentions `"id"` is answered as a request |
| `EventStream`, `MultiLineEmitted` | `MC_EventStream.cfg` | a message with a newline is cut |

This is also why some constants of the passing runs are as they are: `ReadyIsOpen` and
`RunningIsActive` hold as long as callbacks do not disconnect or stop from inside connect or start,
and the owner of a transport closes none but the installed one.

Bounds. Interference in the HTTP transport needs two parties: two listens (an old loop and a new
one), two closers, or two connections, and one descriptor more than connections for the
listener, so that numbers are reused. Handlers that send nothing, one message and two cover the
answers. `http_live` needs two listens and two closers, a handler and the application, for one to
listen again while the other joins; with more listens an old loop could be overtaken again and
again, which the bound excludes and `CloseReturns` therefore does not say. That a client which stops
reading holds up its own request only takes a second client: with two clients, `HandlerSends = {2}`,
`Kinds = {"json"}`, one listen and no message of the application TLC finds `RequestsFinish` true as
well (80,916 states). Stdio needs two threads to race, a second reader for the mutants that create one, and
three lines for one to be in flight while others come. For the facades two transports are needed
for a replaced one, and a stack from which a callback can call during connect (`MaxDepth`); only
the first message of a connection is recorded (`MaxSent`), later ones change nothing that a
property speaks of. Routing needs two names in two revisions and three registrations, for one to
be replaced while another is in between; one message between two calls of the application is
enough, since a message changes no registry. The client run has one application thread, since the
facades do not claim to be thread-safe; transports' threads are two.
In the session one message of each kind of sender makes two threads of each process write at once;
`ClientSends = 1` is the initialize request, the callback sends a request of its own. With
`ClientSends = 2` and without the temporal properties TLC finds the invariants true as well (1.7
million states). `Capacity` exceeds all messages, as pipes of an operating system do until much is
unread. In the exchange two posts of a client are enough for one that was given up to be served
during the next; bodies are text, nothing but a blank line, and text with blank lines inside and at
the end, and every cut of the request is tried.
`CHECK_DEADLOCK FALSE` is set where the system really may stop: all connections and bounded
calls used up, programs that were terminated or have returned,
a body that was parsed.

Fairness (`http_live`). Threads that are runnable run:
weak fairness for accept loops and closing. Connection threads and senders wait for mutexes that
others take and release repeatedly; strong fairness says that one that waits gets the lock at
some time, as implementations of `std::mutex` do in practice. A thread whose `::send` is blocked has
no step to take, so no fairness moves it, nor those who wait for a lock it holds. Nothing is assumed
of clients, of the network or of the application: reading a request, accepting a client, reading a
response or hanging up, and calls of the application have no fairness.

Fairness (`stdio_session`): a thread that is inside the library, and a reader, runs on while its
process lives; callbacks return or throw. Nobody has to call anything, and whoever leaves releases
`RequestsReturn` from its promise. Fairness (`http_exchange`): server threads run and their
handlers return; libcurl reads a response that is complete. No message is owed, connections need
not break, and no timeout is assumed.

## 4. The proofs

Every theorem holds for any sets of threads, connections, descriptors and any bounds, from the
named assumption (`ConstantsAssumption`, `StreamAssumption`) of the module (disjoint sets of threads, bounds that are
naturals).

*StreamableHttpProofs.* `LifeInv` strengthens `LoopsOwned` by two facts: a descriptor that
listens is `listen_fd` or in the hands of a close that will close it (`ListenersOwned`), and a
close holds descriptors and a loop to join only while it is releasing (`TakenWhileReleasing`).
`LoopsOwned` says that a transport is active exactly while it has a descriptor, and that its loop,
if it has one, runs: after a thread that could not be created it has none. `LoopsOwned` alone is not inductive: without the third fact a finished close could still count as
the owner of a loop. It gives `AcceptLoopsOwned`, `ListenerReleased`, the action property
`AcceptsOnlyWhileOpen` and, with the mapping above, `ImplementsContract`.

For what is written, `WritersInv`: who is in `send` writes to a connection that was read already, a
plain one only from its own handler's thread and only while its context is not marked closed. `AnswersInv`: a plain request
has an answer recorded only when its context is marked closed or its thread is past writing.
`StuckInv`: a blocked thread is still inside the call it was writing in, and blocked by the very client
of the connection it writes to as long as that connection has its number; so a write that fails
because its client went cannot be one that `response_started` counts on.
`HeadersInv`: bytes that reached a client on behalf of its own stream begin with headers once
`response_started` is set. They give `OneResponsePerRequest` and `HeadersComeFirst`; these hold
although the descriptor written to may belong to somebody else by then.

*StdioTransportProofs.* `ReaderInv`: a reader runs only when the transport was started, at most
one thread is about to create one and then none runs, and a closed transport is not active.
From it `HandlerRunsAlone`; with `OrderInv` (the line a reader holds and has not delivered is
newer than all delivered ones) `DeliveredInOrder`; with `LateInv` (after a close a reader that
has passed its check still has the one late message to spend) `LateMessageIsTheLast`; and
`ImplementsContract`.

*HttpsTransportProofs* begins with what the operators on call stacks do to types, to the innermost
frame and to the number of frames of a kind; the number is the cardinality of a set of positions.
`StackInv`: the handles a thread has not freed are exactly the frames of its stack that hold one,
and a close that has yet to notify is the innermost call of its thread. `HandlesFreed` alone says
nothing of a thread inside a call and is not inductive; with the count it is the case of an empty
stack, and that no handle is freed twice is the type of `handles`. The second half, and that an open
transport is armed, give the contract. Nothing bounds the depth of the stacks in the proofs:
`MaxDepth` is any natural.

*ServerProofs* and *ClientProofs* describe every change of a stack as a cut: `Move(t, k, F)` keeps the
lowest `k` frames and puts `F` on top, which covers calls, returns and exceptions alike
(`CutType`, `UnwindingCuts`). `TypeCorrect` holds of every program. The other theorems assume
`Sequential`, a fact about the constants: there is one application thread, and callbacks only send
(`notify`, `request`). Section 3 shows what programs outside it run into: stops and disconnects from
callbacks refute the properties. The inductive invariant `IInv` says, beyond the types, that

- an open transport is armed (`Contract`) and the handlers of the installed one are set (`Linked`);
- the threads of the transports only run user code and send (`WorkersLight`, `ReadersLight`);
- the frames of the application's stack are where its calls put them (`Shape`), and each promises
  what the code below it relies on (`Pending`): once `close` has returned, what `stop` or
  `disconnect` goes on with finds the transport closed, and once `listen` or the handshake has
  returned, `start` or `initialize` finds it open;
- a facade that says it is running or ready has an open transport, or its innermost frame is about
  to be told that it was closed (`RunningOpen`, `ReadyOpen`).

`RunningIsActive`, `ReadyIsOpen`, `StopCloses` and `DisconnectCloses` speak of moments outside calls
or at the end of one and say nothing of what is in between, so none of them is inductive. Most steps
are light (they neither open, close nor install a transport) and are dealt with in one lemma,
`LightSafe`. For `GreetsFirst` the invariant adds `Greeting`: a request for anything but initialize is
on its way only where the first message was sent already. It assumes `Greets`: `auto_initialize` is
set, and a connection is not opened again after a close, as is the case for stdio.

*StdioSessionProofs.* Any number of messages on either side, pipes of any capacity. Each property
has an invariant of its own:

- `ReaderInv`: a reader holds at most one line that was not handled, its thread is inside the facade
  only while its handler runs, and a transport that was started and is inactive has notified. All
  the others rest on it, the types too: that no more lines are handled than were read depends on
  where the reader is.
- `FailureInv`: an output stream is bad only after its reader has gone, and only a thread whose stream
  is bad is about to report an error. `ServerSurvives` is not inductive without it, since the exception
  comes steps after the write that failed. It gives `LibraryKeepsServerAlive`; what user code throws is
set apart by `threw` in `HandlerThrows` only.
- `InitializeInv`: either nothing is on the client's pipe, the client is not up and all that is on its
  way there is the initialize request (`Unopened`), or the pipe begins with it. The case that makes it
  hard is a write that fails: the flow of `connect` then goes on to an exception and must not reach
  `up`. It gives `InitializeIsFirst`.
- `ReplyInv`: while the server can write, the requests it has handled are as many as the responses on
  its pipe, plus the one its reader is writing. `RepliesInOrder` speaks of the responses by their
  number (`CountOf`), so it follows from the count as the pipe grows at its end; cardinalities of sets
  of positions stand in for a recursive count, as in `HttpsTransportProofs`. With `FailureInv` it gives
  `RepliesKeepOrder`.
- `BoundInv`: a thread that is about to send has a send left, the server replies to no more than it has
  handled, and no pipe holds more than was sent. `StdioTransport` has bounds on its lines and sends;
  this is why the session's own bounds (`AllSends`) keep both ends within them.

`TransportsKept` is the refinement of `StdioTransport` at both ends: the start of a session is one of
two transports, and each action of the session, by whichever process, is a step of the transport at
either end or leaves it as it is.

*HttpExchangeProofs.* Any clients, any number of posts and replies, any bodies of text and line ends,
and any pieces. `RequestInv`: what was read of a request and what is still on the wire make up header
block and body, and a thread that has left `recv` has enough of it. `WholeBody` says nothing of a
request that is being read and is not inductive; with `RequestInv` it rests on `RequestIsRead`, a fact
about `Complete` and `Body`: the first blank line that is found is the one `send` wrote, although a
body may hold others and the block may end in the middle of a piece, so that what follows is the body.
The same lemma finds the library's own `Accept` field before one that the user adds, hence no request
is ever streamed. `AnswerInv` adds that a connection that is not broken is closed with a refusal or,
when its handler was called with the message, with that handler's first reply, and that a client that
waits has not broken its connection; it gives `OwnReplyOnly`. A response has one message then, so a
client's handler that throws has been given all of it (`ReceiveCases`). `BodyWhole` needs no bound on the length of a body, and neither theorem needs
fairness.

*MessageProofs.* Texts, params and histories of any length, any number of names, messages and lines
of noise. What an answer or a body contains takes induction over it. The library's induction theorems
are stated of a predicate, which no prover here can instantiate; `Induction` states the same of a set
of naturals, from the well-foundedness of `<`, and is used wherever a property passes from one
position to the next.

For `Routing` the work is in lemmas about texts:

- `Depth` grows by at most one with each token (`DepthStep`) and moves with a text that is part of
  another (`DepthShift`), so that whatever is put together from values is one (`IsValue`), `ListText`
  over any number of descriptors included (`ListIsValue`) and what handlers return too
  (`ResultIsValue`, from the assumption that `Results` are structured objects), and a response is an object in which
  `Member` finds the id and the value it was built from (`Answered`).
- In a text that is structured, `Close` finds the partner of a bracket although it counts one kind only
  (`CloseIs`): between partners the brackets of each kind come out even, and before the end the one
  that was opened first is still open (`MatchedCounts`). The partner in the params is the partner in
  the message (`MatchedShift`); hence `RequestFound`: the id, the method and the params that the server
  extracts are those the client put there. `NotificationFound` says what the server takes for an id is
  a whole value at least, which is why an answer to a misread notification is well formed too.
- `ReflectsReplaced`: the list after a registration is up to date with the longer history, whether the
  key is new or not.

`RoutingInv` is the conjunction of the properties and of `UpToDate` for every kind:
`ListsTheRegistered` speaks of a request for a list only, and the next request rests on what the
registrations before it left.

For `EventStream`, `StreamInv` says how the parser would fare. `Follows(A, E, lines, all)`: `A` and `E` are
what is accumulated and emitted after each of the first lines, and whatever is emitted are the first of
`all`. While the server sends, the body so far parses to the messages so far and leaves nothing over
(`Sending`), which each event preserves whatever its number of lines (`EventParsed`, by induction in
`DataParsed`; `FrameParsed` for the library's own frame of one line) and noise does too
(`NoisePassed`). While the client parses, it is where `A` and `E` put it, and the end of the body will
complete the messages (`Parsing`); this survives the loss of the last blank line. The two properties say
nothing of lines that are still to be parsed, so neither is inductive. They need `StreamAssumption`:
messages begin with a line that is not empty, as JSON texts do, and noise has no data.

Only model-checked: liveness (`RequestsFinish`, `CloseReturns`, `RequestsReturn`, `SendsEnd`), since
fairness and `ENABLED` are outside the prover's reach. Every other property of the passing runs is
proved.

## 5. What is not modelled

- libcurl, the syntax of HTTP requests, options and their defaults, logging, the Windows stubs:
  I/O and formatting without state that the properties speak of. Failures of these calls are
  nondeterministic outcomes. Of these `std::thread` in the accept loop is left out: an exception there
  leaves the loop and ends the program.
- Data races as such: a flag that is read outside its lock is read in a step of its own, so its
  value may be old; torn values are not considered.
- Log callbacks that call the facade again or throw, and in `StreamableHttp` the setters of the error and
  close handlers. An exception on a reader of stdio ends the program; `Server` models the handling
  of the HTTP transport, `StdioSession` that of stdio.
- In `StdioSession` user code may let through what its calls throw: on a reader that is
  `HandlerThrows`, on a main thread `Exit`. The server's user code neither notifies nor stops from its
  reader there, which `Server` has. An application does not open a closed
  transport again (which throws), and the exit of the process that remains alone is left out.
- In `Routing` request handlers return the text of an object. One that returns anything else has its
  text sent as it is.
- In `HttpExchange` the server listens throughout, and a descriptor that is closed twice is left to
  `StreamableHttp`; requests are those of the library's client: POST, well-formed, with a length.
- An error handler that calls the HTTP transport from inside `send`, where it holds the
  connection's lock.
- The client's and server's sends are one step each: a message that is written after the close
  that overtook it is a behaviour of the transports' models, not of the facades'.
- Responses, which the client does not pair with requests yet.
- `http_util.hpp` (trimming and lower-casing), samples, tests and build files.

## 6. The plan

Written in this order, the most important behaviour first: `TransportContract`, `StreamableHttp`
and its proofs, `StdioTransport` and its proofs, `Client` and `Server`, `JsonRpc` and `Routing`,
`EventStream`, `HttpsTransport`.

Then the compositions `StdioSession` and `HttpExchange`, the setters of the stdio and the HTTPS
transport, and the proofs about the latter, about both facades, about both compositions and about
messages and events.

Next:

1. Error handlers called from `send` in `StreamableHttp`, and the setters of its other handlers.
2. The server over `StreamableHttp` (which client gets which reply, notifications to a superseded
   stream), the client over `HttpsTransport` (connections that are opened again).
3. The registries under concurrent requests.
4. Proofs: that what `Routing` shows of requests holds for literals that contain colons and quoted keys
   as well, which takes a model of texts by the character.
