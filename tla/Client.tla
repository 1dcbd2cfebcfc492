------------------------------- MODULE Client -------------------------------
(***************************************************************************)
(* The client facade: Client::Impl of client.cpp, over transports that     *)
(* keep the contract of ITransport (TransportContract).                    *)
(*                                                                         *)
(* state_ has no lock.  It is written by the calls of the application, by  *)
(* the transport's handlers, which run on whatever thread the transport    *)
(* calls them from, and by calls that the user's callbacks make again from *)
(* inside another call.  Every thread therefore has a call stack (Frames), *)
(* and a step is what happens between two calls out of the facade.         *)
(***************************************************************************)
EXTENDS Frames

CONSTANTS
  Apps,            (* application threads                                  *)
  Readers,         (* threads of the transports that call the handlers     *)
  Transports, None,
  AutoInitialize,  (* options.auto_initialize                              *)
  Reentrant,       (* the calls that user callbacks make: a subset of      *)
                   (* {"connect", "disconnect", "initialize", "request"}   *)
  Synchronous,     (* send hands over the response before it returns, as   *)
                   (* the HTTPS transport does                             *)
  Reopens,         (* a transport can be opened again after a close: the   *)
                   (* HTTPS transport can, stdio cannot                    *)
  DirectCloses,    (* the owner of a transport may close it directly:      *)
                   (* a subset of {"installed", "other"}                   *)
  MaxDepth,        (* bound on the frames of a stack                       *)
  MaxSent          (* how many of the messages sent on a connection are    *)
                   (* recorded: the first ones                             *)

Threads == Apps \cup Readers

ASSUME ConstantsAssumption ==
  /\ Apps \cap Readers = {}
  /\ None \notin Transports
  /\ {AutoInitialize, Synchronous, Reopens} \subseteq BOOLEAN
  /\ Reentrant \subseteq {"connect", "disconnect", "initialize", "request"}
  /\ DirectCloses \subseteq {"installed", "other"}
  /\ MaxDepth \in Nat
  /\ MaxSent \in Nat

VARIABLES
  state,        (* state_                                                  *)
  transport,    (* transport_                                              *)
  bound,        (* the transports whose handlers call this client          *)
  open, armed,  (* of each transport: see TransportContract                *)
  used,         (* the transports that were ever opened                    *)
  sent,         (* what was sent on each transport since it was opened     *)
  stack         (* the call stack of each thread                           *)

links == <<open, armed, used, sent>>
vars == <<state, transport, bound, links, stack>>

Doing == {"open", "initialize", "send_initialize", "send_request", "ready",
          "close", "notify", "disconnected", "install", "throw", "callback"}

States ==
  {"disconnected", "connecting", "initializing", "ready", "closing", "failed"}

\* What is opened and sent on is a transport, never null.
FrameType ==
  LET onTransport == {"open", "send_initialize", "send_request"}
  IN [do : onTransport, on : Transports]
       \cup [do : Doing \ onTransport, on : Transports \cup {None}]

TypeOK ==
  /\ state \in States
  /\ transport \in Transports \cup {None}
  /\ bound \subseteq Transports
  /\ open \in [Transports -> BOOLEAN]
  /\ armed \in [Transports -> BOOLEAN]
  /\ used \subseteq Transports
  /\ sent \in [Transports -> Seq({"initialize", "request"})]
  /\ stack \in [Threads -> Seq(FrameType)]

Init ==
  /\ state = "disconnected"
  /\ transport = None
  /\ bound = {}
  /\ open = [x \in Transports |-> FALSE]
  /\ armed = [x \in Transports |-> TRUE]
  /\ used = {}
  /\ sent = [x \in Transports |-> <<>>]
  /\ stack = [t \in Threads |-> <<>>]
-----------------------------------------------------------------------------
\* The application calls the facade from outside, or from a callback.
MayCall(t, call) ==
  /\ Len(stack[t]) < MaxDepth
  /\ IF stack[t] = <<>> THEN t \in Apps
     ELSE Top(stack[t]).do = "callback" /\ call \in Reentrant

About(t, do) == stack[t] # <<>> /\ Top(stack[t]).do = do
On(t) == Top(stack[t]).on

\* A user callback; one that calls nothing again is left out.
Callback == IF Reentrant = {} THEN <<>> ELSE <<Frame("callback", None)>>

\* set_state: the state_changed callback is told of a change.
Changed(next) == IF state = next THEN <<>> ELSE Callback

Call(t, next, frames) ==
  /\ state' = next
  /\ stack' = [stack EXCEPT ![t] = @ \o frames \o Changed(next)]

Continue(t, next, frames) ==
  /\ state' = next
  /\ stack' = [stack EXCEPT ![t] = Then(@, frames \o Changed(next))]

\* An exception: on a transport's thread only user code can catch it.
Throw(t) ==
  \E left \in Unwindings(stack[t]) :
    /\ t \in Readers => left # <<>>
    /\ stack' = [stack EXCEPT ![t] = left]
-----------------------------------------------------------------------------
(* Calls of the application *)

Disconnecting == <<Frame("disconnected", None), Frame("close", None)>>

\* bind_transport_handlers; the handlers of earlier transports stay bound.
Bind(x) == bound' = bound \cup ({x} \cap Transports)

\* A transport in use is disconnected first; one that failed is not closed.  x
\* may be null.
SetTransport(t, x) ==
  /\ MayCall(t, "connect")
  /\ IF state \in {"disconnected", "failed"}
     THEN /\ transport' = x
          /\ Bind(x)
          /\ UNCHANGED <<state, stack>>
     ELSE /\ Call(t, "closing", <<Frame("install", x)>> \o Disconnecting)
          /\ UNCHANGED <<transport, bound>>
  /\ UNCHANGED links

\* Mutant: no transport need be installed.
ConnectUnconfigured(t) ==
  /\ MayCall(t, "connect")
  /\ state \notin {"ready", "initializing", "connecting"}
  /\ Call(t, "connecting", <<Frame("open", transport)>>)
  /\ UNCHANGED <<transport, bound, links>>

\* Otherwise connect returns without effect.
Connect(t) ==
  /\ MayCall(t, "connect")
  /\ transport # None
  /\ state \notin {"ready", "initializing", "connecting"}
  /\ Call(t, "connecting", <<Frame("open", transport)>>)
  /\ UNCHANGED <<transport, bound, links>>

Disconnect(t) ==
  /\ MayCall(t, "disconnect")
  /\ state # "disconnected"
  /\ Call(t, "closing", Disconnecting)
  /\ UNCHANGED <<transport, bound, links>>

Handshake == <<Frame("ready", None), Frame("send_initialize", transport)>>

Initialize(t) ==
  /\ MayCall(t, "initialize")
  /\ transport # None
  /\ state # "disconnected"
  /\ Call(t, "initializing", Handshake)
  /\ UNCHANGED <<transport, bound, links>>

\* request and notify.  A request for "initialize" is sent in every state.
Request(t) ==
  /\ MayCall(t, "request")
  /\ transport # None
  /\ \E do \in {"send_initialize"} \cup (IF state = "ready" THEN {"send_request"} ELSE {}) :
       stack' = [stack EXCEPT ![t] = Append(@, Frame(do, transport))]
  /\ UNCHANGED <<state, transport, bound, links>>

\* The owner of a transport closes it behind the client's back.
DirectClose(t, x) ==
  /\ stack[t] = <<>> /\ t \in Apps
  /\ (IF x = transport THEN "installed" ELSE "other") \in DirectCloses
  /\ stack' = [stack EXCEPT ![t] = <<Frame("close", x)>>]
  /\ UNCHANGED <<state, transport, bound, links>>
-----------------------------------------------------------------------------
(* What the calls go on to do *)

\* transport->connect() opens the transport, or throws through connect.
Open(t) ==
  /\ About(t, "open")
  /\ \/ /\ Reopens \/ open[On(t)] \/ On(t) \notin used
        /\ open' = [open EXCEPT ![On(t)] = TRUE]
        /\ armed' = [armed EXCEPT ![On(t)] = TRUE]
        /\ used' = used \cup {On(t)}
        /\ sent' = IF open[On(t)] THEN sent ELSE [sent EXCEPT ![On(t)] = <<>>]
        /\ stack' = [stack EXCEPT ![t] =
             Then(@, <<Frame(IF AutoInitialize THEN "initialize" ELSE "ready", None)>>)]
     \/ Throw(t) /\ UNCHANGED links
  /\ UNCHANGED <<state, transport, bound>>

\* Mutant: ready before the handshake was sent.
AutoInitEarly(t) ==
  /\ About(t, "initialize")
  /\ transport # None /\ state # "disconnected"
  /\ Continue(t, "ready", <<Frame("send_initialize", transport)>>)
  /\ UNCHANGED <<transport, bound, links>>

\* initialize, called by connect.
AutoInit(t) ==
  /\ About(t, "initialize")
  /\ IF transport = None \/ state = "disconnected" THEN Throw(t) /\ UNCHANGED state
     ELSE Continue(t, "initializing", Handshake)
  /\ UNCHANGED <<transport, bound, links>>

Sends(t) == About(t, "send_initialize") \/ About(t, "send_request")

\* A synchronous transport calls on_transport_message before send returns.
SendDone(t) ==
  /\ Sends(t)
  /\ open[On(t)]
  /\ sent' = [sent EXCEPT ![On(t)] =
       IF Len(@) = MaxSent THEN @
       ELSE Append(@, IF About(t, "send_initialize") THEN "initialize" ELSE "request")]
  /\ \E frames \in {<<>>} \cup (IF Synchronous THEN {<<Frame("callback", None)>>} ELSE {}) :
       stack' = [stack EXCEPT ![t] = Then(@, frames)]
  /\ UNCHANGED <<state, transport, bound, open, armed, used>>

\* A transport that is not open throws.  One that is, or was until send had
\* looked, reports the error to on_transport_error and throws afterwards.
SendFails(t) ==
  /\ Sends(t)
  /\ \/ On(t) \in used /\ Continue(t, "failed", <<Frame("throw", None)>> \o Callback)
     \/ ~open[On(t)] /\ Throw(t) /\ UNCHANGED state
  /\ UNCHANGED <<transport, bound, links>>

Rethrow(t) ==
  /\ About(t, "throw")
  /\ Throw(t)
  /\ UNCHANGED <<state, transport, bound, links>>

Ready(t) ==
  /\ About(t, "ready")
  /\ Continue(t, "ready", <<>>)
  /\ UNCHANGED <<transport, bound, links>>

\* disconnect closes the transport installed by now.
Closing(t) == IF On(t) = None THEN transport ELSE On(t)

\* Mutant: the transport is left open.
CloseForgotten(t) ==
  /\ About(t, "close")
  /\ stack' = [stack EXCEPT ![t] = Then(@, <<>>)]
  /\ UNCHANGED <<state, transport, bound, links>>

Close(t) ==
  /\ About(t, "close")
  /\ LET x == Closing(t)
     IN IF x # None /\ armed[x]
        THEN /\ open' = [open EXCEPT ![x] = FALSE]
             /\ armed' = [armed EXCEPT ![x] = FALSE]
             /\ stack' = [stack EXCEPT ![t] = Then(@, <<Frame("notify", x)>>)]
        ELSE /\ stack' = [stack EXCEPT ![t] = Then(@, <<>>)]
             /\ UNCHANGED <<open, armed>>
  /\ UNCHANGED <<state, transport, bound, used, sent>>

\* Mutant: the close handler is not wired to the client.
ClosedIgnored(t) ==
  /\ About(t, "notify")
  /\ stack' = [stack EXCEPT ![t] = Then(@, <<>>)]
  /\ UNCHANGED <<state, transport, bound, links>>

\* on_transport_closed, by any transport that was ever installed.
Closed(t) ==
  /\ About(t, "notify")
  /\ Continue(t, IF On(t) \in bound /\ state # "closing" THEN "disconnected" ELSE state, <<>>)
  /\ UNCHANGED <<transport, bound, links>>

Disconnected(t) ==
  /\ About(t, "disconnected")
  /\ Continue(t, "disconnected", <<>>)
  /\ UNCHANGED <<transport, bound, links>>

Install(t) ==
  /\ About(t, "install")
  /\ transport' = On(t)
  /\ Bind(On(t))
  /\ stack' = [stack EXCEPT ![t] = Then(@, <<>>)]
  /\ UNCHANGED <<state, links>>

Return(t) ==
  /\ About(t, "callback")
  /\ stack' = [stack EXCEPT ![t] = Then(@, <<>>)]
  /\ UNCHANGED <<state, transport, bound, links>>
-----------------------------------------------------------------------------
(* Handlers called from the transport's own threads *)

\* on_transport_message; the reader of a closed transport may still deliver.
Message(r) ==
  /\ bound \cap used # {}
  /\ Reentrant # {}
  /\ stack[r] = <<>>
  /\ stack' = [stack EXCEPT ![r] = <<Frame("callback", None)>>]
  /\ UNCHANGED <<state, transport, bound, links>>

\* on_transport_error, by any transport that was ever installed and opened, be
\* it closed by now or not.
Error(r) ==
  /\ bound \cap used # {}
  /\ stack[r] = <<>>
  /\ Call(r, "failed", Callback)
  /\ UNCHANGED <<transport, bound, links>>
-----------------------------------------------------------------------------
Calls(t) ==
  \/ \E x \in Transports \cup {None} : SetTransport(t, x)
  \/ \E x \in Transports : DirectClose(t, x)
  \/ Connect(t) \/ Disconnect(t) \/ Initialize(t) \/ Request(t)

Runs(t) ==
  \/ Open(t) \/ AutoInit(t) \/ SendDone(t) \/ SendFails(t) \/ Rethrow(t) \/ Ready(t)
  \/ Close(t) \/ Closed(t) \/ Disconnected(t) \/ Install(t) \/ Return(t)

Next ==
  \/ \E t \in Threads : Calls(t) \/ Runs(t)
  \/ \E r \in Readers : Message(r) \/ Error(r)

Spec == Init /\ [][Next]_vars
-----------------------------------------------------------------------------
AtRest == \A t \in Threads : stack[t] = <<>>

\* A client at rest that says it is ready has an open transport, whatever
\* failed or was closed or replaced before.
\* (include/mcp/client.hpp:55, is_ready: "Return true when the session is ready
\* for protocol traffic.")
ReadyIsOpen ==
  AtRest /\ state = "ready" => open[transport]

\* When disconnect has run to its end the transport it leaves installed is
\* closed, whatever callbacks and transport threads did in between.
DisconnectCloses ==
  [][\A t \in Threads : Disconnected(t) => transport = None \/ ~open[transport]]_vars

\* Nothing is sent on a new connection before the initialize request, though
\* requests come from callbacks and transport threads while connect is at work.
\* (tests/client_smoke_test.cpp: "first outbound message should be initialize")
HandshakeFirst ==
  \A x \in Transports : sent[x] # <<>> => sent[x][1] = "initialize"

\* include/mcp/client.hpp:60, connect: "Open the transport connection."  When
\* a client is at rest in a state in which connect returns without effect, the
\* connection is open already.
ConnectOpens ==
  AtRest /\ state \in {"ready", "initializing", "connecting"} => open[transport]

\* The same header, line 68, disconnect: "Close the active session and
\* underlying transport."  When a client is at rest in the state in which
\* disconnect returns without effect, the transport is closed already.
DisconnectedIsClosed ==
  AtRest /\ state = "disconnected" /\ transport # None => ~open[transport]
=============================================================================
