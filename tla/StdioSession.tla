---------------------------- MODULE StdioSession ----------------------------
(***************************************************************************)
(* A client and a server of the library in two processes, connected by two *)
(* pipes: the facades of client.cpp and server.cpp, each over a stdio      *)
(* transport (stdio_transport.cpp), with what the server answers.          *)
(*                                                                         *)
(* Each process has a main thread, which calls the facade, and the reader  *)
(* thread of its transport, which runs the facade's message handler: on    *)
(* the server it replies, on the client it calls the user's callback,      *)
(* which may send requests.  On both sides user code is called from there, *)
(* and may throw.  The facades go through the same states under different  *)
(* names; here                                                             *)
(*   "down"     is disconnected and stopped,                               *)
(*   "opening"  is connecting and starting,                                *)
(*   "up"       is ready and running,                                      *)
(*   "leaving"  is closing and stopping.                                   *)
(***************************************************************************)
EXTENDS Integers, Sequences, FiniteSets

CONSTANTS
  ClientSends,    (* bound on the messages that the application sends      *)
  CallbackSends,  (* ... that the client's callback sends                  *)
  ServerSends,    (* ... and that the server's application sends           *)
  Capacity        (* how many unread messages fit into a pipe              *)

ASSUME ConstantsAssumption ==
  /\ {ClientSends, CallbackSends, ServerSends} \subseteq Nat
  /\ Capacity \in Nat \ {0}

\* No process sends more than this.
AllSends == ClientSends + CallbackSends + ServerSends

Roles == {"client", "server"}
Threads == Roles \X {"main", "reader"}
Main(p) == <<p, "main">>
Reader(p) == <<p, "reader">>
Peer(p) == IF p = "client" THEN "server" ELSE "client"

States == {"down", "opening", "initializing", "up", "leaving", "failed"}
Requests == {"initialize", "request"}
Message == [what : Requests \cup {"notification", "response"}, id : Nat]
Nothing == [what |-> "notification", id |-> 0]

VARIABLES
  state,            (* state_ of each facade                               *)
  next_request_id,  (* of the client                                       *)
  \* Members of each StdioTransportCore, and its reader thread.
  active, ever_started, close_notified, output_bad, reader,
  arrived,          (* how many lines it has read                          *)
  handled,          (* how many of them the message handler was given      *)
  at_close,         (* history: how many, when a close last took effect    *)
  \* What each thread is doing.
  todo,             (* in the facade, once the transport's function returns*)
  op,               (* in the transport: see StdioTransport                *)
  out,              (* the message it has yet to write                     *)
  sends,            (* how many messages it has sent                       *)
  \* The processes and what connects them.
  pipe,             (* everything that each process has written            *)
  terminated,       (* an exception has left the reader                    *)
  threw,            (* history: user code called by the reader threw it    *)
  exited            (* the main function has returned                      *)

transports == <<active, ever_started, close_notified, output_bad, at_close>>
reading == <<reader, arrived, handled>>
processes == <<terminated, threw, exited>>
vars == <<state, next_request_id, transports, reading, todo, op, out, sends,
          pipe, processes>>

TypeOK ==
  /\ state \in [Roles -> States]
  /\ next_request_id \in Nat
  /\ {active, ever_started, close_notified, output_bad, terminated, threw, exited}
       \subseteq [Roles -> BOOLEAN]
  /\ reader \in [Roles -> {"none", "reading", "check", "lookup", "handler", "done"}]
  /\ {arrived, handled, at_close} \subseteq [Roles -> Nat]
  /\ \A p \in Roles : arrived[p] <= Len(pipe[Peer(p)]) /\ handled[p] <= arrived[p]
  /\ todo \in [Threads -> {"none", "start", "initialize", "send", "up", "close", "down"}]
  /\ op \in [Threads -> {"idle", "spawn", "write", "check", "erring", "notify"}]
  /\ out \in [Threads -> Message]
  /\ sends \in [Threads -> Nat]
  /\ pipe \in [Roles -> Seq(Message)]

Init ==
  /\ state = [p \in Roles |-> "down"]
  /\ next_request_id = 1
  /\ active = [p \in Roles |-> FALSE]
  /\ ever_started = active
  /\ close_notified = active
  /\ output_bad = active
  /\ reader = [p \in Roles |-> "none"]
  /\ arrived = [p \in Roles |-> 0]
  /\ handled = arrived
  /\ at_close = arrived
  /\ todo = [t \in Threads |-> "none"]
  /\ op = [t \in Threads |-> "idle"]
  /\ out = [t \in Threads |-> Nothing]
  /\ sends = [t \in Threads |-> 0]
  /\ pipe = [p \in Roles |-> <<>>]
  /\ terminated = active
  /\ threw = active
  /\ exited = active
-----------------------------------------------------------------------------
Alive(p) == ~terminated[p] /\ ~exited[p]
Idle(t) == op[t] = "idle" /\ todo[t] = "none"

\* No function of the transport is running: the facade goes on.
Resume(t, from, to) ==
  /\ op[t] = "idle"
  /\ todo[t] = from
  /\ todo' = [todo EXCEPT ![t] = to]

Step(t, from, to) ==
  /\ op[t] = from
  /\ op' = [op EXCEPT ![t] = to]

Goto(p, from, to) ==
  /\ reader[p] = from
  /\ reader' = [reader EXCEPT ![p] = to]

Becomes(p, next) == state' = [state EXCEPT ![p] = next]

InCallback(t) == t = Reader("client") => reader["client"] = "handler"

MaySend(t) ==
  sends[t] < CASE t = Main("client") -> ClientSends
               [] t = Reader("client") -> CallbackSends
               [] t = Main("server") -> ServerSends

MayCall(t) == MaySend(t) /\ InCallback(t)

\* On the server a reply is sent by the facade itself, so there nothing catches
\* what send throws and the program ends.  Elsewhere it is thrown to user code,
\* which catches it, or lets it through: on a reader in HandlerThrows, on a main
\* thread, where it ends the program, in Exit.
Thrown(t) ==
  IF t = Reader("server") THEN terminated' = [terminated EXCEPT !["server"] = TRUE]
  ELSE UNCHANGED terminated
-----------------------------------------------------------------------------
(* connect and start *)

\* Otherwise connect and start return without effect.  A transport that was
\* closed throws when it is started again: the applications do not try.
Open(p) ==
  /\ state[p] \notin {"opening", "initializing", "up"}
  /\ active[p] \/ ~ever_started[p]
  /\ p = "client" => MaySend(Main(p))
  /\ Resume(Main(p), "none", "start")
  /\ Becomes(p, "opening")
  /\ UNCHANGED <<next_request_id, transports, reading, op, out, sends, pipe, processes>>

\* StdioTransportCore::start returns when active, and throws when a callback
\* has closed the transport meanwhile.
Start(p) ==
  LET next == IF p = "client" THEN "initialize" ELSE "up"
  IN /\ Resume(Main(p), "start", IF active[p] \/ ~ever_started[p] THEN next ELSE "none")
     /\ IF active[p] \/ ever_started[p] THEN UNCHANGED <<op, transports>>
        ELSE /\ Step(Main(p), "idle", "spawn")
             /\ active' = [active EXCEPT ![p] = TRUE]
             /\ ever_started' = [ever_started EXCEPT ![p] = TRUE]
             /\ close_notified' = [close_notified EXCEPT ![p] = FALSE]
             /\ UNCHANGED <<output_bad, at_close>>
     /\ UNCHANGED <<state, next_request_id, reading, out, sends, pipe, processes>>

\* The reader's thread is created, or cannot be: then start throws, and leaves
\* a transport that is active without a reader and a facade that is opening.
Spawn(p) ==
  /\ Step(Main(p), "spawn", "idle")
  /\ \/ Goto(p, "none", "reading") /\ UNCHANGED todo
     \/ todo' = [todo EXCEPT ![Main(p)] = "none"] /\ UNCHANGED reader
  /\ UNCHANGED <<state, next_request_id, transports, arrived, handled, out, sends,
                 pipe, processes>>

\* Mutant: ready before the initialize request is sent.
InitializeEarly ==
  /\ Resume(Main("client"), "initialize", "send")
  /\ Becomes("client", "up")
  /\ out' = [out EXCEPT ![Main("client")] = [what |-> "initialize", id |-> next_request_id]]
  /\ UNCHANGED <<next_request_id, transports, reading, op, sends, pipe, processes>>

\* The client's connect goes on to initialize, which throws when a close was
\* reported meanwhile.
Initialize ==
  /\ IF state["client"] = "down"
     THEN /\ Resume(Main("client"), "initialize", "none")
          /\ UNCHANGED <<state, out>>
     ELSE /\ Resume(Main("client"), "initialize", "send")
          /\ Becomes("client", "initializing")
          /\ out' = [out EXCEPT ![Main("client")] = [what |-> "initialize", id |-> next_request_id]]
  /\ UNCHANGED <<next_request_id, transports, reading, op, sends, pipe, processes>>

Up(p) ==
  /\ Resume(Main(p), "up", "none")
  /\ Becomes(p, "up")
  /\ UNCHANGED <<next_request_id, transports, reading, op, out, sends, pipe, processes>>
-----------------------------------------------------------------------------
(* request and notify, and StdioTransportCore::send *)

Sends(t, what, id) ==
  /\ Resume(t, "none", "send")
  /\ out' = [out EXCEPT ![t] = [what |-> what, id |-> id]]

\* Client::request, by the application or by a callback.
Request(t) ==
  /\ state["client"] = "up"
  /\ MayCall(t)
  /\ Sends(t, "request", next_request_id)
  /\ UNCHANGED <<state, next_request_id, transports, reading, op, sends, pipe, processes>>

\* Client::notify and Server::notify.
Notification(t) ==
  /\ state[t[1]] = "up"
  /\ MayCall(t)
  /\ Sends(t, "notification", 0)
  /\ UNCHANGED <<state, next_request_id, transports, reading, op, sends, pipe, processes>>

\* next_request_id_++ is not atomic: the message has the number that was read
\* before, which another thread may have read as well.
Increment(t) ==
  next_request_id' =
    IF t[1] = "client" /\ out[t].what \in Requests THEN out[t].id + 1 ELSE next_request_id

\* Mutant: a message is turned away unless the facade is up.
SendWhenUp(t) ==
  /\ Increment(t)
  /\ sends' = [sends EXCEPT ![t] = @ + 1]
  /\ IF state[t[1]] = "up" \/ out[t].what = "initialize"
     THEN /\ Resume(t, "send", IF out[t].what = "initialize" THEN "up" ELSE "none")
          /\ Step(t, "idle", "write")
          /\ UNCHANGED <<out, terminated>>
     ELSE /\ Resume(t, "send", "none")
          /\ out' = [out EXCEPT ![t] = Nothing]
          /\ Thrown(t)
          /\ UNCHANGED op
  /\ UNCHANGED <<state, transports, reading, pipe, threw, exited>>

\* A transport that is not active throws.
Send(t) ==
  /\ Increment(t)
  /\ sends' = [sends EXCEPT ![t] = @ + 1]
  /\ IF active[t[1]]
     THEN /\ Resume(t, "send", IF out[t].what = "initialize" THEN "up" ELSE "none")
          /\ Step(t, "idle", "write")
          /\ UNCHANGED <<out, terminated>>
     ELSE /\ Resume(t, "send", "none")
          /\ out' = [out EXCEPT ![t] = Nothing]
          /\ Thrown(t)
          /\ UNCHANGED op
  /\ UNCHANGED <<state, transports, reading, pipe, threw, exited>>

\* The message and its newline: the thread waits for room in the pipe.  When
\* nobody is left to read it, the signal SIGPIPE ends the process, or where it
\* is ignored the output stream fails, and stays so.
Write(t) ==
  LET p == t[1]
  IN /\ Step(t, "write", "check")
     /\ \/ /\ ~output_bad[p]
           /\ Alive(Peer(p))
           /\ Len(pipe[p]) - arrived[Peer(p)] < Capacity
           /\ pipe' = [pipe EXCEPT ![p] = Append(@, out[t])]
           /\ UNCHANGED <<output_bad, exited>>
        \/ /\ output_bad[p] \/ ~Alive(Peer(p))
           /\ output_bad' = [output_bad EXCEPT ![p] = TRUE]
           /\ exited' \in {exited, [exited EXCEPT ![p] = ~output_bad[p]]}
           /\ UNCHANGED pipe
     /\ out' = [out EXCEPT ![t] = Nothing]
     /\ UNCHANGED <<state, next_request_id, active, ever_started, close_notified, at_close,
                    reading, todo, sends, terminated, threw>>

CheckOutput(t) ==
  /\ Step(t, "check", IF output_bad[t[1]] THEN "erring" ELSE "idle")
  /\ UNCHANGED <<state, next_request_id, transports, reading, todo, out, sends, pipe, processes>>

\* The error handler is on_transport_error; then send throws.
SendThrows(t) ==
  /\ Step(t, "erring", "idle")
  /\ Becomes(t[1], "failed")
  /\ todo' = [todo EXCEPT ![t] = "none"]
  /\ Thrown(t)
  /\ UNCHANGED <<next_request_id, transports, reading, out, sends, pipe, threw, exited>>
-----------------------------------------------------------------------------
(* disconnect and stop *)

\* The application stops the server; the client is disconnected by the
\* application or by a callback.
Leave(t) ==
  /\ state[t[1]] # "down"
  /\ InCallback(t)
  /\ Resume(t, "none", "close")
  /\ Becomes(t[1], "leaving")
  /\ UNCHANGED <<next_request_id, transports, reading, op, out, sends, pipe, processes>>

\* Mutant: a second close is not turned away.
CloseAgain(t) ==
  LET p == t[1]
  IN /\ Resume(t, "close", "down")
     /\ Step(t, "idle", "notify")
     /\ active' = [active EXCEPT ![p] = FALSE]
     /\ close_notified' = [close_notified EXCEPT ![p] = TRUE]
     /\ at_close' = [at_close EXCEPT ![p] = handled[p]]
     /\ UNCHANGED <<state, next_request_id, ever_started, output_bad, reading, out, sends,
                    pipe, processes>>

\* StdioTransportCore::close takes effect once; it neither wakes nor joins the
\* reader.
Close(t) ==
  LET p == t[1]
  IN /\ Resume(t, "close", "down")
     /\ IF close_notified[p] THEN UNCHANGED <<op, active, close_notified, at_close>>
        ELSE /\ Step(t, "idle", "notify")
             /\ active' = [active EXCEPT ![p] = FALSE]
             /\ close_notified' = [close_notified EXCEPT ![p] = TRUE]
             /\ at_close' = [at_close EXCEPT ![p] = handled[p]]
     /\ UNCHANGED <<state, next_request_id, ever_started, output_bad, reading, out, sends,
                    pipe, processes>>

\* The close handler is on_transport_closed.
Notify(t) ==
  /\ Step(t, "notify", "idle")
  /\ IF state[t[1]] = "leaving" THEN UNCHANGED state ELSE Becomes(t[1], "down")
  /\ UNCHANGED <<next_request_id, transports, reading, todo, out, sends, pipe, processes>>

Down(t) ==
  /\ Resume(t, "down", "none")
  /\ Becomes(t[1], "down")
  /\ UNCHANGED <<next_request_id, transports, reading, op, out, sends, pipe, processes>>

\* The main function returns, or an exception leaves it; the detached reader
\* ends with the process.  Of the last process this is left out: nobody is left
\* to see it.
Exit(p) ==
  /\ Alive(Peer(p))
  /\ Idle(Main(p))
  /\ exited' = [exited EXCEPT ![p] = TRUE]
  /\ UNCHANGED <<state, next_request_id, transports, reading, todo, op, out, sends, pipe,
                 terminated, threw>>
-----------------------------------------------------------------------------
(* read_loop and the facades' message handlers *)

LoopUnchanged ==
  UNCHANGED <<state, next_request_id, transports, op, sends, pipe, processes>>

\* Mutant: the result of getline is not looked at.
ReadLineUnchecked(p) ==
  /\ Goto(p, "reading", "check")
  /\ arrived' = [arrived EXCEPT ![p] = @ + 1]
  /\ UNCHANGED <<handled, todo, out>>
  /\ LoopUnchanged

ReadLine(p) ==
  /\ Goto(p, "reading", "check")
  /\ arrived[p] < Len(pipe[Peer(p)])
  /\ arrived' = [arrived EXCEPT ![p] = @ + 1]
  /\ UNCHANGED <<handled, todo, out>>
  /\ LoopUnchanged

\* End of input: the peer is gone and everything it wrote has been read.
ReadEnds(p) ==
  /\ Goto(p, "reading", "done")
  /\ arrived[p] = Len(pipe[Peer(p)])
  /\ ~Alive(Peer(p))
  /\ UNCHANGED <<arrived, handled, todo, out>>
  /\ LoopUnchanged

\* Mutant: a line is handed on after a close.
CheckActiveSkipped(p) ==
  /\ Goto(p, "check", "lookup")
  /\ UNCHANGED <<arrived, handled, todo, out>>
  /\ LoopUnchanged

CheckActive(p) ==
  /\ Goto(p, "check", IF active[p] THEN "lookup" ELSE "done")
  /\ UNCHANGED <<arrived, handled, todo, out>>
  /\ LoopUnchanged

\* Mutants: the server also answers a notification; it answers nothing before
\* it is running.
AnswerNotifications(p) ==
  LET message == pipe[Peer(p)][arrived[p]]
  IN /\ Goto(p, "lookup", "handler")
     /\ handled' = [handled EXCEPT ![p] = @ + 1]
     /\ IF p = "server" THEN Sends(Reader(p), "response", message.id)
        ELSE UNCHANGED <<todo, out>>
     /\ UNCHANGED arrived
     /\ LoopUnchanged
AnswerWhenUp(p) ==
  LET message == pipe[Peer(p)][arrived[p]]
  IN /\ Goto(p, "lookup", "handler")
     /\ handled' = [handled EXCEPT ![p] = @ + 1]
     /\ IF p = "server" /\ message.what \in Requests /\ state[p] = "up"
        THEN Sends(Reader(p), "response", message.id)
        ELSE UNCHANGED <<todo, out>>
     /\ UNCHANGED arrived
     /\ LoopUnchanged

\* on_transport_message: the server is to reply to a request with its id, once
\* the request's handler has returned the result; it gives a notification, and
\* the client every message, to the callback.
CallHandler(p) ==
  LET message == pipe[Peer(p)][arrived[p]]
  IN /\ Goto(p, "lookup", "handler")
     /\ handled' = [handled EXCEPT ![p] = @ + 1]
     /\ IF p = "server" /\ message.what \in Requests
        THEN Sends(Reader(p), "response", message.id)
        ELSE UNCHANGED <<todo, out>>
     /\ UNCHANGED arrived
     /\ LoopUnchanged

\* The message handler returns: a request was replied to, the callback is over.
HandlerReturns(p) ==
  /\ Idle(Reader(p))
  /\ Goto(p, "handler", "reading")
  /\ UNCHANGED <<arrived, handled, todo, out>>
  /\ LoopUnchanged

\* User code is running: the handler of a request, of which the reply is yet to
\* be sent, or a callback that is in no call of the facade.
InUserCode(p) ==
  /\ op[Reader(p)] = "idle"
  /\ todo[Reader(p)] =
       IF p = "server" /\ pipe[Peer(p)][handled[p]].what \in Requests THEN "send" ELSE "none"

\* User code throws, or lets through what its calls threw.  Neither the facade
\* nor read_loop catches it: the program ends, and a reply is not sent.
HandlerThrows(p) ==
  /\ Goto(p, "handler", "reading")
  /\ InUserCode(p)
  /\ terminated' = [terminated EXCEPT ![p] = TRUE]
  /\ threw' = [threw EXCEPT ![p] = TRUE]
  /\ todo' = [todo EXCEPT ![Reader(p)] = "none"]
  /\ out' = [out EXCEPT ![Reader(p)] = Nothing]
  /\ UNCHANGED <<state, next_request_id, transports, op, sends, pipe, arrived, handled,
                 exited>>
-----------------------------------------------------------------------------
(* What the application does, and what the library's threads go on to do. *)
Callers(p) == IF p = "client" THEN {Main(p), Reader(p)} ELSE {Main(p)}

Calls(p) ==
  \/ Open(p) \/ Exit(p)
  \/ \E t \in Callers(p) : Notification(t) \/ Leave(t)
  \/ \E t \in Callers("client") : p = "client" /\ Request(t)

Runs(t) ==
  \/ Send(t) \/ Write(t) \/ CheckOutput(t) \/ SendThrows(t)
  \/ Close(t) \/ Notify(t) \/ Down(t)
  \/ t = Main(t[1]) /\ (Start(t[1]) \/ Spawn(t[1]) \/ Up(t[1]))
  \/ t = Main("client") /\ Initialize

Reading(p) ==
  \/ ReadLine(p) \/ ReadEnds(p) \/ CheckActive(p)
  \/ CallHandler(p) \/ HandlerReturns(p) \/ HandlerThrows(p)

Process(p) ==
  /\ Alive(p)
  /\ \/ Calls(p) \/ Reading(p)
     \/ \E t \in {Main(p), Reader(p)} : Runs(t)

Next == \E p \in Roles : Process(p)

Spec == Init /\ [][Next]_vars

\* A main thread inside the library and a reader run on while their process
\* lives; nobody has to call anything.  A callback returns.
Fairness ==
  \A p \in Roles :
    /\ WF_vars(Alive(p) /\ Runs(Main(p)))
    /\ WF_vars(Alive(p) /\ (Runs(Reader(p)) \/ Reading(p)))

FairSpec == Spec /\ Fairness
-----------------------------------------------------------------------------
\* How many of the first n messages are of some kinds.
CountOf(messages, kinds, n) == Cardinality({i \in 1..n : messages[i].what \in kinds})

\* The n-th reply on the server's pipe has the id of the n-th request on the
\* client's pipe, which the server has handled: in the same order, none twice
\* and none left out, though requests are written by two threads and replies mix
\* with notifications.
RepliesInOrder ==
  \A i \in 1..Len(pipe["server"]) :
    pipe["server"][i].what = "response" =>
      \E j \in 1..handled["server"] :
        /\ pipe["client"][j].what \in Requests
        /\ pipe["client"][j].id = pipe["server"][i].id
        /\ CountOf(pipe["client"], Requests, j) = CountOf(pipe["server"], {"response"}, i)

\* An exception that ends the server's program comes from its own user code,
\* unless the server was being stopped or the client had gone: otherwise no
\* reply can fail, whatever the threads do.
ServerSurvives ==
  terminated["server"] =>
    threw["server"] \/ close_notified["server"] \/ ~Alive("client")

\* The first message the server handles is the initialize request, although
\* the client's callback is called with notifications while connect is at work
\* and sends requests of its own.
InitializeArrivesFirst ==
  handled["server"] > 0 => pipe["client"][1].what = "initialize"

\* StdioTransport in process p.
OfProcess(f, p) == [t \in {Main(p), Reader(p)} |-> f[t]]
OfReader(n, p) == [t \in {Reader(p)} |-> n[p]]
AllHandlers == [kind \in {"message", "error", "close"} |-> TRUE]
Transport(p) == INSTANCE StdioTransport WITH
  Apps <- {Main(p)}, Readers <- {Reader(p)}, MaxLines <- AllSends, MaxSends <- AllSends,
  active <- active[p], ever_started <- ever_started[p],
  close_notified <- close_notified[p], handlers <- AllHandlers,
  output_bad <- output_bad[p], op <- OfProcess(op, p), sends <- OfProcess(sends, p),
  reader <- OfReader(reader, p), line <- OfReader(arrived, p), arrived <- arrived[p],
  delivered <- [i \in 1..handled[p] |-> i],
  terminated <- terminated[p], at_close <- at_close[p]

\* Both ends of the session use the transport as StdioTransport describes it:
\* what is proved there of one process holds in each.
TransportsKeep ==
  /\ \A p \in Roles : Transport(p)!Init
  /\ [][\A p \in Roles : [Transport(p)!Next]_(Transport(p)!vars)]_vars

\* Every request that reaches the pipe while the server is reading comes back as
\* a reply given to the client's callback, unless a side is closed or ends, as it
\* does when its user code throws.
Reads(p) == reader[p] \notin {"none", "done"}
Left(p) == ~active[p] \/ ~Alive(p)
Asked(n) ==
  /\ Len(pipe["client"]) >= n
  /\ pipe["client"][n].what \in Requests
Answered(n) ==
  /\ Asked(n)
  /\ CountOf(pipe["server"], {"response"}, handled["client"])
       >= CountOf(pipe["client"], Requests, n)
RequestsReturn ==
  \A n \in 1..(ClientSends + CallbackSends) :
    Asked(n) /\ Reads("server") ~> Answered(n) \/ Left("client") \/ Left("server")

\* No two requests carry the same id, as the client's replies to them could not
\* be told apart.  (src/client.cpp:306 counts them, without a lock.)
RequestIdsDistinct ==
  \A i, j \in 1..Len(pipe["client"]) :
    /\ i < j
    /\ {pipe["client"][i].what, pipe["client"][j].what} \subseteq Requests
    => pipe["client"][i].id # pipe["client"][j].id

\* include/mcp/server.hpp:65, stop: "Stop the active transport."  Stopping the
\* server while the client is there does not end its program by an exception
\* of the library.
CleanStop == terminated["server"] => threw["server"] \/ ~Alive("client")

\* include/mcp/server.hpp:55, is_running: "Return true when the server transport
\* is active."  A server whose client has gone for good comes to notice.
PeerNoticed == ~Alive("client") ~> state["server"] # "up" \/ ~Alive("server")
=============================================================================
