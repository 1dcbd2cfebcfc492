--------------------------- MODULE StreamableHttp ---------------------------
(***************************************************************************)
(* The server side of the streamable HTTP transport:                       *)
(* StreamableHttpTransport::Impl of server_streamable_http_transport.cpp.  *)
(*                                                                         *)
(* Three kinds of thread share one Impl.  Application threads call listen, *)
(* close and send.  Each listen starts an accept loop, named here by its   *)
(* epoch.  Each accepted connection has a detached handler thread, named   *)
(* by its connection, which runs the message handler; the handler may send *)
(* (the thread's current request context routes the message to its own     *)
(* connection) and may close the transport.                                *)
(*                                                                         *)
(* Sockets are modelled down to the file descriptor table, since the code  *)
(* closes descriptors by number from several threads and the kernel hands  *)
(* out the lowest free number again.                                       *)
(***************************************************************************)
EXTENDS Integers, Sequences

CONSTANTS
  Conns,             (* the clients' connections                           *)
  Apps,              (* application threads                                *)
  Fds,               (* the numbers of the process's descriptor table      *)
  None,              (* no connection, no thread                           *)
  MaxListens,        (* bound on the calls of listen that open             *)
  MaxSends,          (* bound on the messages an application thread sends  *)
  Kinds,             (* the requests clients make: "reject" a method or    *)
                     (* path the transport refuses, "json" a POST that     *)
                     (* wants one JSON response, "stream" a POST that      *)
                     (* accepts an event stream                            *)
  HandlerSends,      (* how many messages a message handler may have sent  *)
                     (* when it returns or throws                          *)
  HandlerCloses,     (* a message handler may close the transport          *)
  Rebinds,           (* the message handler may be set or cleared any time *)
  Stalls,            (* a client may stay connected and stop reading       *)
  CloseWakesAccept,  (* closing a listening descriptor makes a blocked     *)
                     (* accept fail (macOS); it does not on Linux          *)
  AcceptErrorCloses  (* the error handler closes the transport when it is  *)
                     (* told that accept failed                            *)

Epochs == 1..MaxListens
Threads == Apps \cup Conns
NoFd == -1
Bytes == {"error", "json", "head", "event"}
Writing == {"lock", "json", "head", "event", "hangup", "drop", "unregister"}
Releasing == {"close_listen", "close_stream", "join"}

ASSUME ConstantsAssumption ==
  /\ Apps \cap Conns = {}
  /\ None \notin Threads
  /\ {"free", "listen"} \cap Conns = {}
  /\ Fds \subseteq Nat
  /\ MaxListens \in Nat
  /\ MaxSends \in Nat
  /\ Kinds \subseteq {"reject", "json", "stream"}
  /\ HandlerSends \subseteq Nat
  /\ {HandlerCloses, Rebinds, Stalls, CloseWakesAccept, AcceptErrorCloses} \subseteq BOOLEAN

VARIABLES
  \* Members of Impl.
  active, close_notified, listen_fd, message_handler,
  accept_thread,     (* the epoch of the joinable accept thread, or 0      *)
  stream_connection,
  listens,           (* how many times listen opened the transport         *)
  \* Accept loops.
  acc,               (* where the accept loop of each epoch is             *)
  acc_fd,            (* the descriptor it is blocked on                    *)
  \* The kernel and the clients.
  files,             (* "free", "listen" or the connection, by descriptor  *)
  gone,              (* the clients that hung up                           *)
  rcvd,              (* what reached each client, and on whose behalf      *)
  stuck,             (* the client for whom each thread is blocked in      *)
                     (* ::send, or None                                    *)
  \* ConnectionContext and handler thread of each connection.
  pc, client_fd, streaming, closed, response_started,
  write_mutex,       (* the thread that holds it, or None                  *)
  \* The call of send or close each thread is in.
  op,
  tgt,               (* send: the connection written to                    *)
  lfd, sfd, joining, (* close: the descriptors and the loop it took over   *)
  sends              (* how many messages each thread has sent             *)

impl == <<active, close_notified, listen_fd, accept_thread, stream_connection>>
loops == <<acc, acc_fd>>
kernel == <<files, gone, rcvd, stuck>>
flags == <<streaming, closed, response_started>>
calls == <<op, tgt, sends>>
taken == <<lfd, sfd, joining>>

vars == <<impl, message_handler, listens, loops, kernel, pc, client_fd, flags,
          write_mutex, calls, taken>>

ImplType ==
  /\ active \in BOOLEAN
  /\ close_notified \in BOOLEAN
  /\ message_handler \in BOOLEAN
  /\ listen_fd \in Fds \cup {NoFd}
  /\ accept_thread \in Epochs \cup {0}
  /\ stream_connection \in Conns \cup {None}
  /\ listens \in 0..MaxListens

LoopsType ==
  /\ acc \in [Epochs -> {"none", "check", "enter", "blocked", "orphaned",
                         "failed", "erring", "exited"}]
  /\ acc_fd \in [Epochs -> Fds \cup {NoFd}]

KernelType ==
  /\ files \in [Fds -> Conns \cup {"free", "listen"}]
  /\ gone \subseteq Conns
  /\ rcvd \in [Conns -> Seq([for : Conns, what : Bytes])]
  /\ stuck \in [Threads -> Conns \cup {None}]

ConnsType ==
  /\ pc \in [Conns -> {"absent", "reading", "refuse", "register", "lookup",
                       "handler", "answer", "headers", "close", "done"}]
  /\ client_fd \in [Conns -> Fds \cup {NoFd}]
  /\ streaming \in [Conns -> BOOLEAN]
  /\ closed \in [Conns -> BOOLEAN]
  /\ response_started \in [Conns -> BOOLEAN]
  /\ write_mutex \in [Conns -> Threads \cup {None}]

CallsType ==
  /\ op \in [Threads -> {"idle", "notify"} \cup Writing \cup Releasing]
  /\ tgt \in [Threads -> Conns \cup {None}]
  /\ \A t \in Threads : op[t] \in Writing => tgt[t] \in Conns
  /\ lfd \in [Threads -> Fds \cup {NoFd}]
  /\ sfd \in [Threads -> Fds \cup {NoFd}]
  /\ joining \in [Threads -> Epochs \cup {0}]
  /\ sends \in [Threads -> Nat]

TypeOK == ImplType /\ LoopsType /\ KernelType /\ ConnsType /\ CallsType

Init ==
  /\ active = FALSE
  /\ close_notified = FALSE
  /\ message_handler \in BOOLEAN
  /\ listen_fd = NoFd
  /\ accept_thread = 0
  /\ stream_connection = None
  /\ listens = 0
  /\ acc = [e \in Epochs |-> "none"]
  /\ acc_fd = [e \in Epochs |-> NoFd]
  /\ files = [f \in Fds |-> "free"]
  /\ gone = {}
  /\ rcvd = [c \in Conns |-> <<>>]
  /\ stuck = [t \in Threads |-> None]
  /\ pc = [c \in Conns |-> "absent"]
  /\ client_fd = [c \in Conns |-> NoFd]
  /\ streaming = [c \in Conns |-> FALSE]
  /\ closed = [c \in Conns |-> FALSE]
  /\ response_started = [c \in Conns |-> FALSE]
  /\ write_mutex = [c \in Conns |-> None]
  /\ op = [t \in Threads |-> "idle"]
  /\ tgt = [t \in Threads |-> None]
  /\ lfd = [t \in Threads |-> NoFd]
  /\ sfd = [t \in Threads |-> NoFd]
  /\ joining = [t \in Threads |-> 0]
  /\ sends = [t \in Threads |-> 0]
-----------------------------------------------------------------------------
(* Locks and system calls *)

\* state_mutex_ is held across a step only by an accept loop that is inside
\* the error handler; every other critical section of it is one action.
StateMutexFree == \A e \in Epochs : acc[e] # "erring"

LowestFree(fd) ==
  /\ fd \in Fds
  /\ files[fd] = "free"
  /\ \A g \in Fds : files[g] = "free" => fd <= g

\* ::close(fd).  A thread blocked in accept on a listening descriptor that is
\* closed is woken with an error, or stays blocked on the socket it holds.
CloseSocket(fd) ==
  /\ files' = [f \in Fds |-> IF f = fd THEN "free" ELSE files[f]]
  /\ acc' = [e \in Epochs |->
               IF acc[e] = "blocked" /\ acc_fd[e] = fd
               THEN IF CloseWakesAccept THEN "failed" ELSE "orphaned"
               ELSE acc[e]]

\* write_all by thread t for connection c: the bytes go to whoever owns the
\* number now.  Writing to a client that has hung up may still succeed.
MayWrite(t, c) ==
  /\ stuck[t] = None
  /\ client_fd[c] \in Fds
  /\ files[client_fd[c]] \in Conns
MayFail(t, c) == ~MayWrite(t, c) \/ files[client_fd[c]] \in gone

\* Sockets block and have no timeout: a thread that writes to a client that
\* stays and reads nothing more is released only when that client hangs up,
\* not when another thread closes the descriptor.  Then its write has failed.
Blocked(t) == stuck[t] # None /\ stuck[t] \notin gone
Unblocked(t) == ~Blocked(t) /\ stuck' = [stuck EXCEPT ![t] = None]

Deliver(t, c, what) ==
  /\ Unblocked(t)
  /\ rcvd' = IF MayFail(t, c) THEN rcvd
             ELSE [rcvd EXCEPT ![files[client_fd[c]]] =
                     Append(@, [for |-> c, what |-> what])]
-----------------------------------------------------------------------------
(* The application: listen and the handler setters *)

\* The whole body runs under state_mutex_.  A loop of an earlier epoch that is
\* about to accept may meet the new descriptor before it listens, and fail.
\* A failure before ::listen undoes what was done; a thread that cannot be
\* created leaves a transport that is active and accepts nobody.
Listen(a) ==
  /\ op[a] = "idle"
  /\ StateMutexFree
  /\ ~active
  /\ listens < MaxListens
  /\ listens' = listens + 1
  /\ \E fd \in Fds :
       /\ LowestFree(fd)
       /\ files' = [files EXCEPT ![fd] = "listen"]
       /\ listen_fd' = fd
  /\ active' = TRUE
  /\ close_notified' = FALSE
  /\ \E created \in BOOLEAN, early \in SUBSET {e \in Epochs : acc[e] = "enter"} :
       /\ accept_thread' = IF created THEN listens + 1 ELSE accept_thread
       /\ acc' = [e \in Epochs |-> IF created /\ e = listens + 1 THEN "check"
                                   ELSE IF e \in early THEN "failed" ELSE acc[e]]
  /\ UNCHANGED <<stream_connection, message_handler, acc_fd, gone, rcvd, stuck,
                 pc, client_fd, flags, write_mutex, calls, taken>>

SetMessageHandler ==
  /\ Rebinds
  /\ message_handler' = ~message_handler
  /\ UNCHANGED <<impl, listens, loops, kernel, pc, client_fd, flags,
                 write_mutex, calls, taken>>
-----------------------------------------------------------------------------
(* accept_loop *)

Accepting(e, from, to) ==
  /\ acc[e] = from
  /\ acc' = [acc EXCEPT ![e] = to]

AcceptUnchanged ==
  UNCHANGED <<impl, message_handler, listens, kernel, pc, client_fd, flags,
              write_mutex, calls, taken>>

AcceptCheck(e) ==
  /\ StateMutexFree
  /\ Accepting(e, "check", IF ~active \/ listen_fd = NoFd THEN "exited" ELSE "enter")
  /\ UNCHANGED acc_fd
  /\ AcceptUnchanged

\* listen_fd_ is read again, without the lock: it may be gone or be another.
AcceptEnter(e) ==
  /\ IF listen_fd \in Fds /\ files[listen_fd] = "listen"
     THEN /\ Accepting(e, "enter", "blocked")
          /\ acc_fd' = [acc_fd EXCEPT ![e] = listen_fd]
     ELSE /\ Accepting(e, "enter", "failed")
          /\ UNCHANGED acc_fd
  /\ AcceptUnchanged

\* A client connects and its handler thread starts.
AcceptClient(e, c) ==
  /\ Accepting(e, "blocked", "check") \/ Accepting(e, "orphaned", "check")
  /\ pc[c] = "absent"
  /\ \E fd \in Fds :
       /\ LowestFree(fd)
       /\ files' = [files EXCEPT ![fd] = c]
       /\ client_fd' = [client_fd EXCEPT ![c] = fd]
  /\ pc' = [pc EXCEPT ![c] = "reading"]
  /\ UNCHANGED <<impl, message_handler, listens, acc_fd, gone, rcvd, stuck,
                 flags, write_mutex, calls, taken>>

\* Out of descriptors, or the connection was aborted before it was accepted.
AcceptFail(e) ==
  /\ Accepting(e, "blocked", "failed") \/ Accepting(e, "orphaned", "failed")
  /\ UNCHANGED acc_fd
  /\ AcceptUnchanged

\* Mutant: a failed accept ends the loop.
AcceptFailedReturns(e) ==
  /\ StateMutexFree
  /\ Accepting(e, "failed", "exited")
  /\ UNCHANGED acc_fd
  /\ AcceptUnchanged

\* The error handler is called with state_mutex_ held.
AcceptFailed(e) ==
  /\ StateMutexFree
  /\ Accepting(e, "failed", IF active THEN "erring" ELSE "exited")
  /\ UNCHANGED acc_fd
  /\ AcceptUnchanged

\* An error handler that closes the transport waits for its own lock.
AcceptErrorHandled(e) ==
  /\ ~AcceptErrorCloses
  /\ Accepting(e, "erring", "check")
  /\ UNCHANGED acc_fd
  /\ AcceptUnchanged
-----------------------------------------------------------------------------
(* handle_client *)

Goto(c, from, to) ==
  /\ pc[c] = from
  /\ pc' = [pc EXCEPT ![c] = to]

\* read_http_request, and what the request asks for.
ReadRequest(c) ==
  /\ \E kind \in Kinds :
       /\ Goto(c, "reading", CASE kind = "reject" -> "refuse"
                               [] kind = "json"   -> "lookup"
                               [] kind = "stream" -> "register")
       /\ streaming' = [streaming EXCEPT ![c] = (kind = "stream")]
  /\ UNCHANGED <<impl, message_handler, listens, loops, kernel, client_fd,
                 closed, response_started, write_mutex, calls, taken>>

\* The client hung up, or sent what is not a request, or its descriptor was
\* closed by another thread.
ReadFails(c) ==
  /\ Goto(c, "reading", "close")
  /\ UNCHANGED <<impl, message_handler, listens, loops, kernel, client_fd,
                 flags, write_mutex, calls, taken>>

\* The latest streaming request becomes the target of unsolicited messages.
Register(c) ==
  /\ StateMutexFree
  /\ Goto(c, "register", "lookup")
  /\ stream_connection' = c
  /\ UNCHANGED <<active, close_notified, listen_fd, accept_thread,
                 message_handler, listens, loops, kernel, client_fd, flags,
                 write_mutex, calls, taken>>

Lookup(c) ==
  /\ Goto(c, "lookup", IF message_handler THEN "handler" ELSE "refuse")
  /\ UNCHANGED <<impl, message_handler, listens, loops, kernel, client_fd,
                 flags, write_mutex, calls, taken>>

\* An error response (405, 404, 503, or 500 to a request that the handler
\* left unanswered) whose outcome is ignored.
WriteError(c) ==
  /\ Goto(c, "refuse", "close") \/ Goto(c, "answer", "close")
  /\ Deliver(c, c, "error")
  /\ UNCHANGED <<impl, message_handler, listens, loops, files, gone,
                 client_fd, flags, write_mutex, calls, taken>>

\* Mutant: the stream counts as started before its headers are written.
HandlerReturnStarted(c) ==
  /\ op[c] = "idle"
  /\ sends[c] \in HandlerSends
  /\ streaming[c]
  /\ Goto(c, "handler", IF response_started[c] THEN "done" ELSE "headers")
  /\ response_started' = [response_started EXCEPT ![c] = TRUE]
  /\ UNCHANGED <<impl, message_handler, listens, loops, kernel, client_fd,
                 streaming, closed, write_mutex, calls, taken>>

\* The message handler returns, or throws and the exception is reported.  A
\* plain request not yet answered gets a 500 and is then closed again, be it
\* closed already or not; a stream that has not begun begins now.
HandlerReturn(c) ==
  /\ op[c] = "idle"
  /\ sends[c] \in HandlerSends
  /\ Goto(c, "handler", IF streaming[c]
                        THEN IF response_started[c] THEN "done" ELSE "headers"
                        ELSE IF closed[c] THEN "close" ELSE "answer")
  /\ UNCHANGED <<impl, message_handler, listens, loops, kernel, client_fd,
                 flags, write_mutex, calls, taken>>

\* The headers of a stream nothing was sent on: write_mutex is not taken, and
\* a failed write counts as a started response.
Headers(c) ==
  /\ Goto(c, "headers", "done")
  /\ Deliver(c, c, "head")
  /\ response_started' = [response_started EXCEPT ![c] = TRUE]
  /\ UNCHANGED <<impl, message_handler, listens, loops, files, gone,
                 client_fd, streaming, closed, write_mutex, calls, taken>>

CloseClient(c) ==
  /\ Goto(c, "close", "done")
  /\ CloseSocket(client_fd[c])
  /\ UNCHANGED <<impl, message_handler, listens, acc_fd, gone, rcvd, stuck,
                 client_fd, flags, write_mutex, calls, taken>>

\* The client hangs up.
Vanish(c) ==
  /\ pc[c] # "absent"
  /\ c \notin gone
  /\ gone' = gone \cup {c}
  /\ UNCHANGED <<impl, message_handler, listens, loops, files, rcvd, stuck, pc,
                 client_fd, flags, write_mutex, calls, taken>>
-----------------------------------------------------------------------------
(* send *)

Step(t, from, to) ==
  /\ op[t] = from
  /\ op' = [op EXCEPT ![t] = to]

SendTo(t, c) ==
  /\ Step(t, "idle", "lock")
  /\ tgt' = [tgt EXCEPT ![t] = c]
  /\ sends' = [sends EXCEPT ![t] = @ + 1]
  /\ UNCHANGED <<impl, message_handler, listens, loops, kernel, pc, client_fd,
                 flags, write_mutex, taken>>

\* On a handler thread: to the request being handled.
HandlerSend(c) ==
  /\ pc[c] = "handler"
  /\ \E n \in HandlerSends : sends[c] < n
  /\ SendTo(c, c)

\* Mutant: the registered stream is not checked for null.
AppSendUnchecked(a) ==
  /\ StateMutexFree
  /\ sends[a] < MaxSends
  /\ SendTo(a, stream_connection)

\* On another thread: to the stream registered at this moment, if any.
AppSend(a) ==
  /\ StateMutexFree
  /\ stream_connection # None
  /\ sends[a] < MaxSends
  /\ SendTo(a, stream_connection)

WriteUnchanged ==
  UNCHANGED <<impl, message_handler, listens, gone, pc, client_fd, streaming,
              tgt, sends, taken>>

\* A closed connection drops the message.
TakeWriteLock(t) ==
  /\ op[t] = "lock"
  /\ write_mutex[tgt[t]] = None
  /\ IF closed[tgt[t]]
     THEN Step(t, "lock", "idle") /\ UNCHANGED write_mutex
     ELSE /\ Step(t, "lock", IF ~streaming[tgt[t]] THEN "json"
                             ELSE IF response_started[tgt[t]] THEN "event" ELSE "head")
          /\ write_mutex' = [write_mutex EXCEPT ![tgt[t]] = t]
  /\ UNCHANGED <<loops, files, rcvd, stuck, closed, response_started>>
  /\ WriteUnchanged

\* Mutant: the lock is kept.
UnlockForgotten(t) == UNCHANGED write_mutex

Unlock(t) == write_mutex' = [write_mutex EXCEPT ![tgt[t]] = None]

\* Mutant: the connection is not marked closed.
WriteJsonLeftOpen(t) ==
  /\ Step(t, "json", "hangup")
  /\ Deliver(t, tgt[t], "json")
  /\ UNCHANGED <<loops, files, closed, response_started, write_mutex>>
  /\ WriteUnchanged

\* Written or not, a JSON response ends the connection.
WriteJson(t) ==
  /\ Step(t, "json", "hangup")
  /\ Deliver(t, tgt[t], "json")
  /\ closed' = [closed EXCEPT ![tgt[t]] = TRUE]
  /\ UNCHANGED <<loops, files, response_started, write_mutex>>
  /\ WriteUnchanged

WriteHead(t) ==
  /\ Step(t, "head", "event")
  /\ MayWrite(t, tgt[t])
  /\ Deliver(t, tgt[t], "head")
  /\ response_started' = [response_started EXCEPT ![tgt[t]] = TRUE]
  /\ UNCHANGED <<loops, files, closed, write_mutex>>
  /\ WriteUnchanged

WriteEvent(t) ==
  /\ Step(t, "event", "idle")
  /\ MayWrite(t, tgt[t])
  /\ Deliver(t, tgt[t], "event")
  /\ Unlock(t)
  /\ UNCHANGED <<loops, files, closed, response_started>>
  /\ WriteUnchanged

StreamWriteFails(t) ==
  /\ Step(t, "head", "hangup") \/ Step(t, "event", "drop")
  /\ Unblocked(t)
  /\ MayFail(t, tgt[t])
  /\ closed' = [closed EXCEPT ![tgt[t]] = TRUE]
  /\ UNCHANGED <<loops, files, rcvd, response_started, write_mutex>>
  /\ WriteUnchanged

\* A failed event is also unregistered, but only after its socket is closed.
Hangup(t) ==
  /\ \/ Step(t, "hangup", "idle") /\ Unlock(t)
     \/ Step(t, "drop", "unregister") /\ UNCHANGED write_mutex
  /\ CloseSocket(client_fd[tgt[t]])
  /\ UNCHANGED <<acc_fd, rcvd, stuck, closed, response_started>>
  /\ WriteUnchanged

Unregister(t) ==
  /\ StateMutexFree
  /\ Step(t, "unregister", "idle")
  /\ stream_connection' = IF stream_connection = tgt[t] THEN None ELSE stream_connection
  /\ Unlock(t)
  /\ UNCHANGED <<active, close_notified, listen_fd, accept_thread,
                 message_handler, listens, loops, kernel, pc, client_fd, flags,
                 tgt, sends, taken>>

\* The calls in which thread t writes to connection c.
WritesFor(t, c) ==
  \/ c = t /\ pc[c] \in {"refuse", "answer", "headers"}
  \/ c = tgt[t] /\ op[t] \in {"json", "head", "event"}

\* The client that thread t is to write to stops reading, and ::send blocks.
Block(t) ==
  /\ Stalls
  /\ \E c \in Conns :
       /\ WritesFor(t, c)
       /\ MayWrite(t, c)
       /\ files[client_fd[c]] \notin gone
       /\ stuck' = [stuck EXCEPT ![t] = files[client_fd[c]]]
  /\ UNCHANGED <<impl, message_handler, listens, loops, files, gone, rcvd, pc,
                 client_fd, flags, write_mutex, calls, taken>>
-----------------------------------------------------------------------------
(* close *)

\* Mutant: a second close is not turned away.
ClosableAgain == TRUE

Closable == active \/ ~close_notified

\* What is to be released is taken over under state_mutex_; the branch for
\* active_ && close_notified_ cannot be reached (LoopsOwned).
Close(t) ==
  /\ t \in Conns => HandlerCloses /\ pc[t] = "handler"
  /\ StateMutexFree
  /\ Closable
  /\ Step(t, "idle", "close_listen")
  /\ active' = FALSE
  /\ close_notified' = TRUE
  /\ lfd' = [lfd EXCEPT ![t] = listen_fd]
  /\ listen_fd' = NoFd
  /\ joining' = [joining EXCEPT ![t] = accept_thread]
  /\ accept_thread' = 0
  /\ sfd' = [sfd EXCEPT ![t] = IF stream_connection = None THEN NoFd
                               ELSE client_fd[stream_connection]]
  /\ stream_connection' = None
  /\ UNCHANGED <<message_handler, listens, loops, kernel, pc, client_fd, flags,
                 write_mutex, tgt, sends>>

CloseUnchanged ==
  UNCHANGED <<impl, message_handler, listens, acc_fd, gone, rcvd, stuck, pc,
              client_fd, flags, write_mutex, tgt, sends>>

\* Mutant: the listening descriptor is forgotten.
CloseListenForgotten(t) ==
  /\ Step(t, "close_listen", "close_stream")
  /\ lfd' = [lfd EXCEPT ![t] = NoFd]
  /\ UNCHANGED <<acc, files, sfd, joining>>
  /\ CloseUnchanged

CloseListen(t) ==
  /\ Step(t, "close_listen", "close_stream")
  /\ CloseSocket(lfd[t])
  /\ lfd' = [lfd EXCEPT ![t] = NoFd]
  /\ UNCHANGED <<sfd, joining>>
  /\ CloseUnchanged

\* The stream's write_mutex is not taken and its context is not marked closed.
CloseStream(t) ==
  /\ Step(t, "close_stream", "join")
  /\ CloseSocket(sfd[t])
  /\ sfd' = [sfd EXCEPT ![t] = NoFd]
  /\ UNCHANGED <<lfd, joining>>
  /\ CloseUnchanged

\* Mutant: the accept thread is detached instead of joined.
JoinDetached(t) ==
  /\ Step(t, "join", "notify")
  /\ joining' = [joining EXCEPT ![t] = 0]
  /\ UNCHANGED <<acc, files, lfd, sfd>>
  /\ CloseUnchanged

Join(t) ==
  /\ Step(t, "join", "notify")
  /\ joining[t] # 0 => acc[joining[t]] = "exited"
  /\ joining' = [joining EXCEPT ![t] = 0]
  /\ UNCHANGED <<acc, files, lfd, sfd>>
  /\ CloseUnchanged

\* The close handler is called.
Notify(t) ==
  /\ Step(t, "notify", "idle")
  /\ UNCHANGED <<acc, files, taken>>
  /\ CloseUnchanged
-----------------------------------------------------------------------------
AcceptLoop(e) ==
  AcceptCheck(e) \/ AcceptEnter(e) \/ AcceptFailed(e) \/ AcceptErrorHandled(e)

Handle(c) ==
  \/ Register(c) \/ Lookup(c) \/ WriteError(c) \/ HandlerSend(c)
  \/ HandlerReturn(c) \/ Headers(c) \/ CloseClient(c)

Sending(t) ==
  \/ TakeWriteLock(t) \/ WriteJson(t) \/ WriteHead(t) \/ WriteEvent(t)
  \/ StreamWriteFails(t) \/ Hangup(t) \/ Unregister(t)

Closing(t) == CloseListen(t) \/ CloseStream(t) \/ Join(t) \/ Notify(t)

Client(c) ==
  \/ \E e \in Epochs : AcceptClient(e, c)
  \/ ReadRequest(c) \/ ReadFails(c) \/ Vanish(c)

Next ==
  \/ SetMessageHandler
  \/ \E a \in Apps : Listen(a) \/ AppSend(a)
  \/ \E e \in Epochs : AcceptLoop(e) \/ AcceptFail(e)
  \/ \E c \in Conns : Client(c) \/ Handle(c)
  \/ \E t \in Threads : Close(t) \/ Sending(t) \/ Closing(t) \/ Block(t)

Spec == Init /\ [][Next]_vars

\* Threads run, handlers return, and one that waits for a mutex that is free
\* again and again gets it; clients, the application and the network owe
\* nothing.  In particular a thread that is Blocked stays so.
Fairness ==
  /\ \A e \in Epochs : WF_vars(AcceptLoop(e))
  /\ \A c \in Conns : SF_vars(Handle(c))
  /\ \A t \in Threads : SF_vars(Sending(t)) /\ WF_vars(Closing(t))

FairSpec == Spec /\ Fairness
-----------------------------------------------------------------------------
(* Safety *)

Running(e) == acc[e] \notin {"none", "exited"}

\* Every accept loop has one owner that will join it: the transport while it
\* is active, afterwards the close that took the thread over.  So listen never
\* assigns over a joinable accept_thread_ (which would terminate the program),
\* and close never meets active_ and close_notified_ together.  The loop of an
\* active transport runs, unless its thread could not be created, and whatever
\* became of the thread there is a descriptor to close.
LoopsOwned ==
  /\ active => ~close_notified
  /\ accept_thread # 0 => active /\ Running(accept_thread)
  /\ active <=> listen_fd # NoFd
  /\ \A e \in Epochs : Running(e) => \/ e = accept_thread
                                     \/ \E t \in Threads : joining[t] = e

\* When the transport is closed and no close is still at work, nothing listens
\* any more and no accept loop runs, whatever closes and listens raced before.
CloseReleasesListener ==
  (~active /\ \A t \in Threads : op[t] \notin Releasing) =>
    /\ \A e \in Epochs : ~Running(e)
    /\ \A f \in Fds : files[f] # "listen"

\* On behalf of a plain request at most one response is ever written, on any
\* descriptor: send, the 500 of a silent handler and the refusals exclude each
\* other, also when the write fails or the handler sends twice.
OneResponse ==
  \A c \in Conns : ~streaming[c] =>
    \A d, e \in Conns : \A i \in 1..Len(rcvd[d]), j \in 1..Len(rcvd[e]) :
      rcvd[d][i].for = c /\ rcvd[e][j].for = c => d = e /\ i = j

\* A client that sees an event of its own stream has seen the response headers
\* before it, though senders, the handler thread and close do not agree on a
\* lock for the descriptor and the started flag.
EventsFollowHeaders ==
  \A c \in Conns : \A i \in 1..Len(rcvd[c]) :
    rcvd[c][i] = [for |-> c, what |-> "event"] =>
      \E j \in 1..(i - 1) : rcvd[c][j] = [for |-> c, what |-> "head"]

\* A client is accepted only while the transport is active or a close is still
\* releasing it: once the close that stopped it is past its join, no handler
\* thread starts.
AcceptOnlyWhileOpen ==
  [][\A c \in Conns : pc[c] = "absent" /\ pc'[c] # "absent" =>
       active \/ \E t \in Threads : op[t] \in Releasing]_vars

\* The transport keeps the contract of ITransport: every close that takes
\* effect notifies once, and only an opening arms another one.
Contract == INSTANCE TransportContract WITH
  open <- active, armed <- ~close_notified,
  pending <- {t \in Threads : op[t] \in Releasing \cup {"notify"}}
KeepsContract == Contract!Spec
-----------------------------------------------------------------------------
(* Liveness *)

\* Once a request is accepted for handling its thread finishes: no sender holds
\* on to a lock it waits for.  Only a client that stays connected and stops
\* reading can hold it up, and only one that the request's own thread or a
\* sender to its connection is writing to: others' clients cannot.  A handler
\* that closes the transport may be caught as CloseReturns says.
RequestsFinish ==
  \A c \in Conns :
    pc[c] \in {"register", "lookup"} ~>
      \/ pc[c] = "done"
      \/ \E t \in Threads : Blocked(t) /\ (t = c \/ tgt[t] = c)
      \/ [](op[c] = "join" /\ active)

\* A close that takes effect returns (the accept loop it joins does end), unless
\* the transport is opened again while it waits and then stays open: the old
\* loop may go on with the new descriptor, until the next close.
CloseReturns ==
  \A t \in Threads : op[t] = "close_listen" ~> (op[t] = "idle" \/ []active)
-----------------------------------------------------------------------------
(* What the documentation says and the code does not do *)

\* include/mcp/server/streamable_http_transport.hpp:25, "Plain JSON POST
\* requests receive one JSON HTTP response": a client that stays gets the
\* answer its handler sent.
JsonAnswered ==
  \A c \in Conns :
    pc[c] = "done" /\ ~streaming[c] /\ sends[c] > 0 /\ c \notin gone =>
      \E i \in 1..Len(rcvd[c]) : rcvd[c][i] = [for |-> c, what |-> "json"]

\* The same header, lines 26 to 28: a streaming client receives SSE framed
\* messages, hence one set of response headers.
HeadersOnce ==
  \A c \in Conns : \A i, j \in 1..Len(rcvd[c]) :
    rcvd[c][i] = rcvd[c][j] /\ rcvd[c][i].what = "head" => i = j

\* include/mcp/transport.hpp:26, close: "release owned resources".  When the
\* transport is closed and every thread is done, no descriptor is left open.
CloseReleasesStreams ==
  (/\ close_notified
   /\ \A t \in Threads : op[t] = "idle"
   /\ \A c \in Conns : pc[c] \in {"absent", "done"}) =>
    \A f \in Fds : files[f] = "free"

\* include/mcp/transport.hpp:26 again: a close gets as far as its close handler,
\* also when the transport is opened again before it has joined the old loop.
CloseAlwaysReturns ==
  \A t \in Threads : op[t] = "close_listen" ~> op[t] = "idle"

\* include/mcp/transport.hpp:26 again, for a close from the error handler: the
\* handler gets its lock back and the accept loop goes on.
ErrorHandlerReturns == \A e \in Epochs : acc[e] = "erring" ~> acc[e] # "erring"
=============================================================================
