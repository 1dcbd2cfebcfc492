------------------------------- MODULE Server -------------------------------
(***************************************************************************)
(* The life of the server facade: Server::Impl of server.cpp, over         *)
(* transports that keep the contract of ITransport (TransportContract).    *)
(* What a message is answered with is the subject of Routing.              *)
(*                                                                         *)
(* state_ has no lock.  It is written by the calls of the application, by  *)
(* the transport's handlers, which run on the accept loop and on one       *)
(* thread per request, and by calls that request handlers and callbacks    *)
(* make again.  Every thread therefore has a call stack (Frames), and a    *)
(* step is what happens between two calls out of the facade.               *)
(***************************************************************************)
EXTENDS Frames

CONSTANTS
  Apps,          (* application threads                                    *)
  Workers,       (* threads of the transports that call the handlers       *)
  Transports, None,
  Observed,      (* the state_changed callback is installed                *)
  Reentrant,     (* the calls that user callbacks and request handlers     *)
                 (* make: a subset of {"start", "stop", "notify"}          *)
  DirectCloses,  (* the owner of a transport may close it directly:        *)
                 (* a subset of {"installed", "other"}                     *)
  MaxDepth       (* bound on the frames of a stack                         *)

Threads == Apps \cup Workers

ASSUME ConstantsAssumption ==
  /\ Apps \cap Workers = {}
  /\ None \notin Transports
  /\ Observed \in BOOLEAN
  /\ Reentrant \subseteq {"start", "stop", "notify"}
  /\ DirectCloses \subseteq {"installed", "other"}
  /\ MaxDepth \in Nat

VARIABLES
  state,        (* state_                                                  *)
  transport,    (* transport_                                              *)
  bound,        (* the transports whose handlers call this server          *)
  open, armed,  (* of each transport: see TransportContract                *)
  used,         (* the transports that were ever opened                    *)
  stack         (* the call stack of each thread                           *)

links == <<open, armed, used>>
vars == <<state, transport, bound, links, stack>>

Doing == {"listen", "running", "close", "notify", "stopped", "install", "send",
          "throw", "callback"}

States == {"stopped", "starting", "running", "stopping", "failed"}

\* What is listened on and sent on is a transport, never null.
FrameType ==
  [do : {"listen", "send"}, on : Transports]
    \cup [do : Doing \ {"listen", "send"}, on : Transports \cup {None}]

TypeOK ==
  /\ state \in States
  /\ transport \in Transports \cup {None}
  /\ bound \subseteq Transports
  /\ open \in [Transports -> BOOLEAN]
  /\ armed \in [Transports -> BOOLEAN]
  /\ used \subseteq Transports
  /\ stack \in [Threads -> Seq(FrameType)]

Init ==
  /\ state = "stopped"
  /\ transport = None
  /\ bound = {}
  /\ open = [x \in Transports |-> FALSE]
  /\ armed = [x \in Transports |-> TRUE]
  /\ used = {}
  /\ stack = [t \in Threads |-> <<>>]
-----------------------------------------------------------------------------
\* The application calls the facade from outside, or from user code.
MayCall(t, call) ==
  /\ Len(stack[t]) < MaxDepth
  /\ IF stack[t] = <<>> THEN t \in Apps
     ELSE Top(stack[t]).do = "callback" /\ call \in Reentrant

About(t, do) == stack[t] # <<>> /\ Top(stack[t]).do = do
On(t) == Top(stack[t]).on

\* The state_changed and the transport_error callback, if they are installed.
Callback == IF Observed THEN <<Frame("callback", None)>> ELSE <<>>

\* set_state: the state_changed callback is told of a change.
Changed(next) == IF state = next THEN <<>> ELSE Callback

Call(t, next, frames) ==
  /\ state' = next
  /\ stack' = [stack EXCEPT ![t] = @ \o frames \o Changed(next)]

Continue(t, next, frames) ==
  /\ state' = next
  /\ stack' = [stack EXCEPT ![t] = Then(@, frames \o Changed(next))]

\* An exception that no user code catches reaches the caller; on a thread of
\* the transport that is handle_client, which reports it as an error.
Throw(t) ==
  \E left \in Unwindings(stack[t]) :
    IF left = <<>> /\ t \in Workers
    THEN /\ state' = "failed"
         /\ stack' = [stack EXCEPT ![t] = Callback \o Changed("failed")]
    ELSE /\ stack' = [stack EXCEPT ![t] = left]
         /\ UNCHANGED state
-----------------------------------------------------------------------------
(* Calls of the application *)

Stopping == <<Frame("stopped", None), Frame("close", None)>>

\* bind_transport_handlers; the handlers of earlier transports stay bound.
Bind(x) == bound' = bound \cup ({x} \cap Transports)

\* A transport in use is stopped first; one that failed is not closed.  x may
\* be null.
SetTransport(t, x) ==
  /\ MayCall(t, "start")
  /\ IF state \in {"stopped", "failed"}
     THEN /\ transport' = x
          /\ Bind(x)
          /\ UNCHANGED <<state, stack>>
     ELSE /\ Call(t, "stopping", <<Frame("install", x)>> \o Stopping)
          /\ UNCHANGED <<transport, bound>>
  /\ UNCHANGED links

\* Mutant: no transport need be installed.
StartUnconfigured(t) ==
  /\ MayCall(t, "start")
  /\ state \notin {"running", "starting"}
  /\ Call(t, "starting", <<Frame("running", None), Frame("listen", transport)>>)
  /\ UNCHANGED <<transport, bound, links>>

\* Otherwise start returns without effect.
Start(t) ==
  /\ MayCall(t, "start")
  /\ transport # None
  /\ state \notin {"running", "starting"}
  /\ Call(t, "starting", <<Frame("running", None), Frame("listen", transport)>>)
  /\ UNCHANGED <<transport, bound, links>>

Stop(t) ==
  /\ MayCall(t, "stop")
  /\ state # "stopped"
  /\ Call(t, "stopping", Stopping)
  /\ UNCHANGED <<transport, bound, links>>

NotifyClient(t) ==
  /\ MayCall(t, "notify")
  /\ transport # None
  /\ state = "running"
  /\ stack' = [stack EXCEPT ![t] = Append(@, Frame("send", transport))]
  /\ UNCHANGED <<state, transport, bound, links>>

\* The owner of a transport closes it behind the server's back.
DirectClose(t, x) ==
  /\ stack[t] = <<>> /\ t \in Apps
  /\ (IF x = transport THEN "installed" ELSE "other") \in DirectCloses
  /\ stack' = [stack EXCEPT ![t] = <<Frame("close", x)>>]
  /\ UNCHANGED <<state, transport, bound, links>>
-----------------------------------------------------------------------------
(* What the calls go on to do *)

\* Mutant: the exception of listen is swallowed.
ListenSwallowed(t) ==
  /\ About(t, "listen")
  /\ open' \in {open, [open EXCEPT ![On(t)] = TRUE]}
  /\ armed' = [x \in Transports |-> open'[x] \/ armed[x]]
  /\ used' = {x \in Transports : x \in used \/ open'[x]}
  /\ stack' = [stack EXCEPT ![t] = Then(@, <<>>)]
  /\ UNCHANGED <<state, transport, bound>>

\* transport->listen() opens the transport, or throws through start.
Listen(t) ==
  /\ About(t, "listen")
  /\ \/ /\ open' = [open EXCEPT ![On(t)] = TRUE]
        /\ armed' = [armed EXCEPT ![On(t)] = TRUE]
        /\ used' = used \cup {On(t)}
        /\ stack' = [stack EXCEPT ![t] = Then(@, <<>>)]
        /\ UNCHANGED state
     \/ Throw(t) /\ UNCHANGED links
  /\ UNCHANGED <<transport, bound>>

Running(t) ==
  /\ About(t, "running")
  /\ Continue(t, "running", <<>>)
  /\ UNCHANGED <<transport, bound, links>>

\* stop closes the transport installed by now.
Closing(t) == IF On(t) = None THEN transport ELSE On(t)

\* Mutant: the transport is left open.
CloseForgotten(t) ==
  /\ About(t, "close")
  /\ stack' = [stack EXCEPT ![t] = Then(@, <<>>)]
  /\ UNCHANGED <<state, transport, bound, links>>

Close(t) ==
  /\ About(t, "close")
  /\ LET x == Closing(t)
     IN IF x # None /\ armed[x]
        THEN /\ open' = [open EXCEPT ![x] = FALSE]
             /\ armed' = [armed EXCEPT ![x] = FALSE]
             /\ stack' = [stack EXCEPT ![t] = Then(@, <<Frame("notify", x)>>)]
        ELSE /\ stack' = [stack EXCEPT ![t] = Then(@, <<>>)]
             /\ UNCHANGED <<open, armed>>
  /\ UNCHANGED <<state, transport, bound, used>>

\* on_transport_closed, by any transport that was ever installed.
Closed(t) ==
  /\ About(t, "notify")
  /\ Continue(t, IF On(t) \in bound /\ state # "stopping" THEN "stopped" ELSE state, <<>>)
  /\ UNCHANGED <<transport, bound, links>>

Stopped(t) ==
  /\ About(t, "stopped")
  /\ Continue(t, "stopped", <<>>)
  /\ UNCHANGED <<transport, bound, links>>

Install(t) ==
  /\ About(t, "install")
  /\ transport' = On(t)
  /\ Bind(On(t))
  /\ stack' = [stack EXCEPT ![t] = Then(@, <<>>)]
  /\ UNCHANGED <<state, links>>

\* A message is written, or lost without a word; a failed write is reported to
\* on_transport_error, perhaps after a close; stdio throws as well, and always
\* when it is not open.
Send(t) ==
  /\ About(t, "send")
  /\ \/ Continue(t, state, <<>>)
     \/ On(t) \in used /\ Continue(t, "failed", Callback)
     \/ On(t) \in used /\ Continue(t, "failed", <<Frame("throw", None)>> \o Callback)
     \/ ~open[On(t)] /\ Throw(t)
  /\ UNCHANGED <<transport, bound, links>>

Rethrow(t) ==
  /\ About(t, "throw")
  /\ Throw(t)
  /\ UNCHANGED <<transport, bound, links>>

\* User code returns.  An exception of its own goes to its caller.
Return(t) ==
  /\ About(t, "callback")
  /\ \/ stack' = [stack EXCEPT ![t] = Then(@, <<>>)] /\ UNCHANGED state
     \/ Throw(t)
  /\ UNCHANGED <<transport, bound, links>>
-----------------------------------------------------------------------------
(* Handlers called from the transport's own threads *)

\* on_transport_message: a notification goes to the callback; a request is
\* answered, perhaps by a request handler, on the transport now installed, or
\* throws when there is none.  A thread of a closed transport may still deliver.
Message(w) ==
  /\ bound \cap used # {}
  /\ stack[w] = <<>>
  /\ \/ stack' = [stack EXCEPT ![w] = <<Frame("callback", None)>>] /\ UNCHANGED state
     \/ transport = None /\ Throw(w)
     \/ /\ transport # None
        /\ stack' \in {[stack EXCEPT ![w] = <<Frame("send", transport)>> \o user] :
                        user \in {<<>>, <<Frame("callback", None)>>}}
        /\ UNCHANGED state
  /\ UNCHANGED <<transport, bound, links>>

\* on_transport_error, by any transport that was ever installed and opened, be
\* it closed by now or not.
Error(w) ==
  /\ bound \cap used # {}
  /\ stack[w] = <<>>
  /\ Call(w, "failed", Callback)
  /\ UNCHANGED <<transport, bound, links>>
-----------------------------------------------------------------------------
Calls(t) ==
  \/ \E x \in Transports \cup {None} : SetTransport(t, x)
  \/ \E x \in Transports : DirectClose(t, x)
  \/ Start(t) \/ Stop(t) \/ NotifyClient(t)

Runs(t) ==
  \/ Listen(t) \/ Running(t) \/ Close(t) \/ Closed(t) \/ Stopped(t)
  \/ Install(t) \/ Send(t) \/ Rethrow(t) \/ Return(t)

Next ==
  \/ \E t \in Threads : Calls(t) \/ Runs(t)
  \/ \E w \in Workers : Message(w) \/ Error(w)

Spec == Init /\ [][Next]_vars
-----------------------------------------------------------------------------
AtRest == \A a \in Apps : stack[a] = <<>>

\* When the application is not inside a call and the server says that it is
\* running, its transport is open, whatever errors, failed starts, closes and
\* exchanges of the transport came before or are being reported meanwhile.
RunningIsActive ==
  AtRest /\ state = "running" => open[transport]

\* When stop has run to its end the transport it leaves installed is closed,
\* though errors may have changed the state on the way.
StopCloses ==
  [][\A t \in Threads : Stopped(t) => transport = None \/ ~open[transport]]_vars

\* include/mcp/server.hpp:55, is_running: "Return true when the server transport
\* is active."  When no thread is inside a call any more, a server that says it
\* is running has an open transport.
RunningReported ==
  (\A t \in Threads : stack[t] = <<>>) /\ state = "running" => open[transport]

\* include/mcp/server.hpp:60, start: "Begin serving messages on the configured
\* transport."  When the application is not inside a call and the state is one
\* in which start returns without effect, the transport is open already.
StartServes ==
  AtRest /\ state \in {"starting", "running"} => open[transport]

\* The same header, line 65, stop: "Stop the active transport."  When the
\* application is not inside a call and the state is the one in which stop
\* returns without effect, the transport is closed already.
StoppedIsClosed ==
  AtRest /\ state = "stopped" /\ transport # None => ~open[transport]
=============================================================================
