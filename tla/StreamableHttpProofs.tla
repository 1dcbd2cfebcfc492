------------------------ MODULE StreamableHttpProofs ------------------------
(***************************************************************************)
(* Proofs about StreamableHttp, for any set of connections, threads and    *)
(* descriptors and any number of listens and sends.                        *)
(***************************************************************************)
EXTENDS StreamableHttp, TLAPS

USE DEF NoFd

LEMMA BoundsType == MaxListens \in Nat /\ MaxSends \in Nat /\ HandlerSends \subseteq Nat
  BY ConstantsAssumption DEF ConstantsAssumption

LEMMA NamesDistinct ==
  /\ None \notin Threads /\ None \notin Conns
  /\ "free" \notin Conns /\ "listen" \notin Conns
  /\ -1 \notin Fds
  BY ConstantsAssumption DEF ConstantsAssumption, Threads

(***************************************************************************)
(* Type correctness.  Each part of TypeOK is kept by a step that leaves    *)
(* its variables alone, and by each operator that changes them.            *)
(***************************************************************************)

LEMMA TypeInit == Init => TypeOK
<1> SUFFICES ASSUME Init PROVE TypeOK
  OBVIOUS
<1>1. active \in BOOLEAN /\ close_notified \in BOOLEAN /\ message_handler \in BOOLEAN
  BY DEF Init
<1>2. /\ listen_fd \in Fds \cup {NoFd}
      /\ accept_thread \in Epochs \cup {0}
      /\ stream_connection \in Conns \cup {None}
      /\ listens \in 0..MaxListens
  BY BoundsType DEF Init
<1>3. LoopsType /\ KernelType
  BY DEF Init, LoopsType, KernelType
<1>4. ConnsType /\ CallsType
  BY DEF Init, ConnsType, CallsType, Writing
<1> QED
  BY <1>1, <1>2, <1>3, <1>4 DEF TypeOK, ImplType

LEMMA SameImpl ==
  ASSUME ImplType, UNCHANGED <<impl, message_handler, listens>>
  PROVE  ImplType'
  BY DEF ImplType, impl

LEMMA SameLoops == ASSUME LoopsType, UNCHANGED loops PROVE LoopsType'
  BY DEF LoopsType, loops

LEMMA SameKernel == ASSUME KernelType, UNCHANGED kernel PROVE KernelType'
  BY DEF KernelType, kernel

LEMMA SameConns ==
  ASSUME ConnsType, UNCHANGED <<pc, client_fd, flags, write_mutex>>
  PROVE  ConnsType'
  BY DEF ConnsType, flags

LEMMA SameCalls == ASSUME CallsType, UNCHANGED <<calls, taken>> PROVE CallsType'
  BY DEF CallsType, calls, taken

LEMMA AppendType ==
  ASSUME NEW S, NEW s \in Seq(S), NEW x \in S
  PROVE  Append(s, x) \in Seq(S)
  OBVIOUS

LEMMA UnblockedType ==
  ASSUME KernelType, NEW t, Unblocked(t)
  PROVE  stuck' \in [Threads -> Conns \cup {None}]
  BY DEF KernelType, Unblocked

LEMMA DeliverType ==
  ASSUME KernelType, NEW t, NEW c \in Conns, NEW what \in Bytes, Deliver(t, c, what),
         files' = files, gone' = gone
  PROVE  KernelType'
<1> DEFINE Entries == [for : Conns, what : Bytes]
           entry == [for |-> c, what |-> what]
           d == files[client_fd[c]]
<1>1. rcvd \in [Conns -> Seq(Entries)]
  BY DEF KernelType
<1>2. entry \in Entries
  OBVIOUS
<1>3. stuck' \in [Threads -> Conns \cup {None}]
  BY UnblockedType DEF Deliver
<1>4. CASE MayFail(t, c)
  BY <1>3, <1>4 DEF Deliver, KernelType
<1>5. CASE ~MayFail(t, c)
  <2> HIDE DEF Entries
  <2>1. d \in Conns
    BY <1>5 DEF MayFail, MayWrite
  <2>2. Append(rcvd[d], entry) \in Seq(Entries)
    BY <1>1, <1>2, <2>1, AppendType
  <2>3. rcvd' = [rcvd EXCEPT ![d] = Append(rcvd[d], entry)]
    BY <1>5 DEF Deliver
  <2>4. rcvd' \in [Conns -> Seq(Entries)]
    BY <1>1, <2>1, <2>2, <2>3
  <2> QED
    BY <1>3, <2>4 DEF KernelType, Entries
<1> QED
  BY <1>4, <1>5

LEMMA CloseSocketType ==
  ASSUME LoopsType, KernelType, NEW fd, CloseSocket(fd),
         UNCHANGED <<acc_fd, gone, rcvd, stuck>>
  PROVE  LoopsType' /\ KernelType'
  BY DEF LoopsType, KernelType, CloseSocket

LEMMA AcceptingType ==
  ASSUME LoopsType, NEW e \in Epochs, NEW from,
         NEW to \in {"check", "enter", "blocked", "failed", "erring", "exited"},
         Accepting(e, from, to), acc_fd' \in [Epochs -> Fds \cup {NoFd}]
  PROVE  LoopsType'
  BY DEF LoopsType, Accepting

LEMMA GotoType ==
  ASSUME ConnsType, NEW c \in Conns, NEW from,
         NEW to \in {"refuse", "lookup", "handler", "answer", "headers", "close", "done"},
         Goto(c, from, to),
         UNCHANGED <<client_fd, streaming, closed, write_mutex>>,
         response_started' \in [Conns -> BOOLEAN]
  PROVE  ConnsType'
  BY DEF ConnsType, Goto

LEMMA StepType ==
  ASSUME CallsType, NEW t \in Threads, NEW from,
         NEW to \in {"idle", "notify"} \cup Writing \cup Releasing,
         Step(t, from, to), to \in Writing => from \in Writing,
         UNCHANGED <<tgt, sends>>,
         lfd' \in [Threads -> Fds \cup {NoFd}],
         sfd' \in [Threads -> Fds \cup {NoFd}],
         joining' \in [Threads -> Epochs \cup {0}]
  PROVE  CallsType'
  BY DEF CallsType, Step

LEMMA SendToType ==
  ASSUME CallsType, NEW t \in Threads, NEW c \in Conns, SendTo(t, c)
  PROVE  CallsType'
  BY DEF CallsType, SendTo, Step, Writing, taken

(* One step per action; the parts an action leaves alone first. *)

LEMMA ListenType == ASSUME TypeOK, NEW a \in Apps, Listen(a) PROVE TypeOK'
<1>1. ConnsType' /\ CallsType'
  BY SameConns, SameCalls DEF TypeOK, Listen
<1>2. listens \in Nat /\ listens + 1 \in Epochs /\ listens + 1 \in 0..MaxListens
  BY BoundsType DEF TypeOK, ImplType, Listen, Epochs
<1>3. PICK fd \in Fds : files' = [files EXCEPT ![fd] = "listen"] /\ listen_fd' = fd
  BY DEF Listen
<1>4. active' \in BOOLEAN /\ close_notified' \in BOOLEAN /\ message_handler' \in BOOLEAN
  BY DEF Listen, TypeOK, ImplType
<1>5. ImplType'
  BY <1>2, <1>3, <1>4 DEF Listen, TypeOK, ImplType
<1>6. LoopsType'
  <2>1. PICK created \in BOOLEAN, early \in SUBSET {e \in Epochs : acc[e] = "enter"} :
          acc' = [e \in Epochs |-> IF created /\ e = listens + 1 THEN "check"
                                   ELSE IF e \in early THEN "failed" ELSE acc[e]]
    BY DEF Listen
  <2> QED
    BY <2>1 DEF Listen, TypeOK, LoopsType
<1>7. KernelType'
  BY <1>3 DEF Listen, TypeOK, KernelType
<1> QED
  BY <1>1, <1>5, <1>6, <1>7 DEF TypeOK

LEMMA SetMessageHandlerType == ASSUME TypeOK, SetMessageHandler PROVE TypeOK'
<1>1. LoopsType' /\ KernelType' /\ ConnsType' /\ CallsType'
  BY SameLoops, SameKernel, SameConns, SameCalls DEF TypeOK, SetMessageHandler
<1>2. message_handler' \in BOOLEAN
  BY DEF SetMessageHandler
<1>3. ImplType'
  BY <1>2 DEF TypeOK, ImplType, impl, SetMessageHandler
<1> QED
  BY <1>1, <1>3 DEF TypeOK

LEMMA AcceptType ==
  ASSUME TypeOK, NEW e \in Epochs, AcceptLoop(e) \/ AcceptFail(e)
  PROVE  TypeOK'
<1>1. AcceptUnchanged
  BY DEF AcceptLoop, AcceptCheck, AcceptEnter, AcceptFail, AcceptFailed, AcceptErrorHandled
<1>2. ImplType' /\ KernelType' /\ ConnsType' /\ CallsType'
  BY <1>1, SameImpl, SameKernel, SameConns, SameCalls DEF TypeOK, AcceptUnchanged
<1>3. acc_fd' \in [Epochs -> Fds \cup {NoFd}]
  BY DEF AcceptLoop, AcceptCheck, AcceptEnter, AcceptFail, AcceptFailed, AcceptErrorHandled,
         TypeOK, LoopsType
<1>4. \E from \in {"check", "enter", "blocked", "orphaned", "failed", "erring"},
         to \in {"check", "enter", "blocked", "failed", "erring", "exited"} :
        Accepting(e, from, to)
  BY DEF AcceptLoop, AcceptCheck, AcceptEnter, AcceptFail, AcceptFailed, AcceptErrorHandled
<1>5. LoopsType'
  BY <1>3, <1>4, AcceptingType DEF TypeOK
<1> QED
  BY <1>2, <1>5 DEF TypeOK

LEMMA AcceptClientType ==
  ASSUME TypeOK, NEW e \in Epochs, NEW c \in Conns, AcceptClient(e, c)
  PROVE  TypeOK'
<1>1. ImplType' /\ CallsType'
  BY SameImpl, SameCalls DEF TypeOK, AcceptClient
<1>2. LoopsType'
  BY AcceptingType DEF AcceptClient, TypeOK, LoopsType
<1>3. PICK fd \in Fds : files' = [files EXCEPT ![fd] = c] /\ client_fd' = [client_fd EXCEPT ![c] = fd]
  BY DEF AcceptClient
<1>4. KernelType'
  BY <1>3 DEF AcceptClient, TypeOK, KernelType
<1>5. ConnsType'
  BY <1>3 DEF AcceptClient, TypeOK, ConnsType, flags
<1> QED
  BY <1>1, <1>2, <1>4, <1>5 DEF TypeOK

LEMMA ClientType ==
  ASSUME TypeOK, NEW c \in Conns, ReadRequest(c) \/ ReadFails(c) \/ Vanish(c)
  PROVE  TypeOK'
<1>1. ImplType' /\ LoopsType' /\ CallsType'
  BY SameImpl, SameLoops, SameCalls DEF TypeOK, ReadRequest, ReadFails, Vanish
<1>2. KernelType'
  BY SameKernel DEF TypeOK, ReadRequest, ReadFails, Vanish, KernelType
<1>3. CASE ReadRequest(c)
  <2>1. PICK kind \in Kinds :
          /\ Goto(c, "reading", CASE kind = "reject" -> "refuse"
                                  [] kind = "json"   -> "lookup"
                                  [] kind = "stream" -> "register")
          /\ streaming' = [streaming EXCEPT ![c] = (kind = "stream")]
    BY <1>3 DEF ReadRequest
  <2>2. kind \in {"reject", "json", "stream"}
    BY ConstantsAssumption DEF ConstantsAssumption
  <2>3. PICK to \in {"refuse", "lookup", "register"} : Goto(c, "reading", to)
    BY <2>1, <2>2
  <2>4. streaming' \in [Conns -> BOOLEAN]
    BY <2>1 DEF TypeOK, ConnsType
  <2>5. ConnsType'
    BY <1>3, <2>3, <2>4 DEF ReadRequest, Goto, TypeOK, ConnsType
  <2> QED
    BY <1>1, <1>2, <2>5 DEF TypeOK
<1>4. CASE ReadFails(c) \/ Vanish(c)
  <2>1. ConnsType'
    BY <1>4 DEF ReadFails, Vanish, Goto, flags, TypeOK, ConnsType
  <2> QED
    BY <1>1, <1>2, <2>1 DEF TypeOK
<1> QED
  BY <1>3, <1>4

LEMMA RegisterType == ASSUME TypeOK, NEW c \in Conns, Register(c) PROVE TypeOK'
<1>1. LoopsType' /\ KernelType' /\ CallsType'
  BY SameLoops, SameKernel, SameCalls DEF TypeOK, Register
<1>2. ImplType'
  BY DEF Register, TypeOK, ImplType
<1>3. ConnsType'
  BY GotoType DEF Register, flags, TypeOK, ConnsType
<1> QED
  BY <1>1, <1>2, <1>3 DEF TypeOK

LEMMA HandleType ==
  ASSUME TypeOK, NEW c \in Conns,
         \/ Lookup(c) \/ WriteError(c) \/ HandlerReturn(c) \/ Headers(c) \/ CloseClient(c)
  PROVE  TypeOK'
<1> USE DEF Lookup, WriteError, HandlerReturn, Headers, CloseClient
<1>1. ImplType' /\ CallsType'
  BY SameImpl, SameCalls DEF TypeOK
<1>2. response_started' \in [Conns -> BOOLEAN]
  BY DEF TypeOK, ConnsType, flags
<1>3. \E from, to \in {"refuse", "lookup", "handler", "answer", "headers", "close", "done"} :
        Goto(c, from, to)
  OBVIOUS
<1>4. UNCHANGED <<client_fd, streaming, closed, write_mutex>>
  BY DEF flags
<1>5. ConnsType'
  BY <1>2, <1>3, <1>4, GotoType DEF TypeOK
<1>6. LoopsType' /\ KernelType'
  <2>1. CASE Lookup(c) \/ HandlerReturn(c)
    BY <2>1, SameLoops, SameKernel DEF TypeOK
  <2>2. CASE WriteError(c) \/ Headers(c)
    <3>1. \E what \in Bytes : Deliver(c, c, what)
      BY <2>2 DEF Bytes
    <3> QED
      BY <2>2, <3>1, SameLoops, DeliverType DEF TypeOK
  <2>3. CASE CloseClient(c)
    BY <2>3, CloseSocketType DEF TypeOK
  <2> QED
    BY <2>1, <2>2, <2>3
<1> QED
  BY <1>1, <1>5, <1>6 DEF TypeOK

LEMMA SendType ==
  ASSUME TypeOK, NEW t \in Threads, NEW c \in Conns, SendTo(t, c)
  PROVE  TypeOK'
<1>1. ImplType' /\ LoopsType' /\ KernelType' /\ ConnsType'
  BY SameImpl, SameLoops, SameKernel, SameConns DEF TypeOK, SendTo
<1> QED
  BY <1>1, SendToType DEF TypeOK

LEMMA SendingType ==
  ASSUME TypeOK, NEW t \in Threads, Sending(t)
  PROVE  TypeOK'
<1>1. op[t] \in Writing /\ tgt[t] \in Conns
  BY DEF Sending, TakeWriteLock, WriteJson, WriteHead, WriteEvent, StreamWriteFails, Hangup,
         Unregister, Step, TypeOK, CallsType, Writing
<1>2. UNCHANGED <<tgt, sends, taken, pc, client_fd, streaming>>
  BY DEF Sending, TakeWriteLock, WriteJson, WriteHead, WriteEvent, StreamWriteFails, Hangup,
         Unregister, WriteUnchanged, flags
<1>3. ImplType'
  <2>1. CASE Unregister(t)
    BY <2>1 DEF Unregister, TypeOK, ImplType
  <2>2. CASE ~Unregister(t)
    BY <2>2, SameImpl DEF Sending, TakeWriteLock, WriteJson, WriteHead, WriteEvent,
       StreamWriteFails, Hangup, WriteUnchanged, TypeOK
  <2> QED
    BY <2>1, <2>2
<1>4. PICK from, to \in {"idle"} \cup Writing : Step(t, from, to)
  BY DEF Sending, TakeWriteLock, WriteJson, WriteHead, WriteEvent, StreamWriteFails, Hangup,
         Unregister, Writing
<1>5. CallsType'
  BY <1>1, <1>2, <1>4 DEF TypeOK, CallsType, Step, taken
<1>6. /\ write_mutex' \in [Conns -> Threads \cup {None}]
      /\ closed' \in [Conns -> BOOLEAN]
      /\ response_started' \in [Conns -> BOOLEAN]
  BY DEF Sending, TakeWriteLock, WriteJson, WriteHead, WriteEvent, StreamWriteFails, Hangup,
         Unregister, Unlock, flags, TypeOK, ConnsType
<1>7. ConnsType'
  BY <1>2, <1>6 DEF TypeOK, ConnsType
<1>8. LoopsType' /\ KernelType'
  <2>1. CASE TakeWriteLock(t) \/ Unregister(t)
    BY <2>1, SameLoops, SameKernel DEF TypeOK, TakeWriteLock, Unregister, WriteUnchanged, kernel
  <2>4. CASE StreamWriteFails(t)
    BY <2>4, SameLoops, UnblockedType DEF TypeOK, StreamWriteFails, WriteUnchanged, KernelType
  <2>2. CASE WriteJson(t) \/ WriteHead(t) \/ WriteEvent(t)
    <3>1. \E what \in Bytes : Deliver(t, tgt[t], what)
      BY <2>2 DEF Bytes, WriteJson, WriteHead, WriteEvent
    <3>2. UNCHANGED <<loops, files, gone>>
      BY <2>2 DEF WriteJson, WriteHead, WriteEvent, WriteUnchanged
    <3> QED
      BY <1>1, <3>1, <3>2, SameLoops, DeliverType DEF TypeOK
  <2>3. CASE Hangup(t)
    BY <2>3, CloseSocketType DEF TypeOK, Hangup, WriteUnchanged
  <2> QED
    BY <2>1, <2>2, <2>3, <2>4 DEF Sending
<1> QED
  BY <1>3, <1>5, <1>7, <1>8 DEF TypeOK

LEMMA BlockType == ASSUME TypeOK, NEW t \in Threads, Block(t) PROVE TypeOK'
<1>1. ImplType' /\ LoopsType' /\ ConnsType' /\ CallsType'
  BY SameImpl, SameLoops, SameConns, SameCalls DEF TypeOK, Block
<1>2. KernelType'
  BY DEF Block, MayWrite, TypeOK, KernelType
<1> QED
  BY <1>1, <1>2 DEF TypeOK

LEMMA CloseType == ASSUME TypeOK, NEW t \in Threads, Close(t) PROVE TypeOK'
<1>1. LoopsType' /\ KernelType' /\ ConnsType'
  BY SameLoops, SameKernel, SameConns DEF TypeOK, Close
<1>2. active' \in BOOLEAN /\ close_notified' \in BOOLEAN /\ message_handler' \in BOOLEAN
  BY DEF Close, TypeOK, ImplType
<1>3. ImplType'
  BY <1>2 DEF Close, TypeOK, ImplType
<1>4. CallsType'
  BY DEF Close, Step, TypeOK, ImplType, ConnsType, CallsType, Writing, Releasing
<1> QED
  BY <1>1, <1>3, <1>4 DEF TypeOK

LEMMA ClosingType == ASSUME TypeOK, NEW t \in Threads, Closing(t) PROVE TypeOK'
<1> USE DEF Closing, CloseListen, CloseStream, Join, Notify, CloseUnchanged
<1>1. ImplType' /\ ConnsType'
  BY SameImpl, SameConns DEF TypeOK
<1>2. LoopsType' /\ KernelType'
  <2>1. CASE CloseListen(t) \/ CloseStream(t)
    BY <2>1, CloseSocketType DEF TypeOK
  <2>2. CASE Join(t) \/ Notify(t)
    BY <2>2, SameLoops, SameKernel DEF TypeOK, loops, kernel
  <2> QED
    BY <2>1, <2>2
<1>3. CallsType'
  BY DEF Step, TypeOK, CallsType, Writing, Releasing, taken
<1> QED
  BY <1>1, <1>2, <1>3 DEF TypeOK

LEMMA TypeNext == TypeOK /\ [Next]_vars => TypeOK'
<1> SUFFICES ASSUME TypeOK, [Next]_vars PROVE TypeOK'
  OBVIOUS
<1>1. CASE UNCHANGED vars
  BY <1>1, SameImpl, SameLoops, SameKernel, SameConns, SameCalls DEF TypeOK, vars
<1>2. CASE SetMessageHandler
  BY <1>2, SetMessageHandlerType
<1>3. CASE \E a \in Apps : Listen(a) \/ AppSend(a)
  <2>1. PICK a \in Apps : Listen(a) \/ AppSend(a)
    BY <1>3
  <2>2. a \in Threads
    BY DEF Threads
  <2>3. AppSend(a) => SendTo(a, stream_connection) /\ stream_connection \in Conns
    BY DEF AppSend, TypeOK, ImplType
  <2> QED
    BY <2>1, <2>2, <2>3, ListenType, SendType
<1>4. CASE \E e \in Epochs : AcceptLoop(e) \/ AcceptFail(e)
  BY <1>4, AcceptType
<1>5. CASE \E c \in Conns : Client(c) \/ Handle(c)
  <2>1. PICK c \in Conns : Client(c) \/ Handle(c)
    BY <1>5
  <2>2. HandlerSend(c) => SendTo(c, c) /\ c \in Threads
    BY DEF HandlerSend, Threads
  <2> QED
    BY <2>1, <2>2, AcceptClientType, ClientType, RegisterType, HandleType, SendType
    DEF Client, Handle
<1>6. CASE \E t \in Threads : Close(t) \/ Sending(t) \/ Closing(t) \/ Block(t)
  BY <1>6, CloseType, SendingType, ClosingType, BlockType
<1> QED
  BY <1>1, <1>2, <1>3, <1>4, <1>5, <1>6 DEF Next

\* Every variable keeps its type; in particular a thread that is writing always
\* has a connection to write to (send never dereferences a null stream).
THEOREM TypeCorrect == Spec => []TypeOK
  BY TypeInit, TypeNext, PTL DEF Spec

-----------------------------------------------------------------------------
(***************************************************************************)
(* The life of the listener.  LoopsOwned and CloseReleasesListener are not *)
(* inductive: what a close took over must still be at hand for as long as  *)
(* the close is at work, and nowhere else.                                 *)
(***************************************************************************)

ListenersOwned ==
  \A f \in Fds : files[f] = "listen" => f = listen_fd \/ \E t \in Threads : lfd[t] = f

TakenWhileReleasing ==
  \A t \in Threads :
    /\ joining[t] # 0 => op[t] \in Releasing
    /\ lfd[t] # NoFd => op[t] = "close_listen"

LifeInv == LoopsOwned /\ ListenersOwned /\ TakenWhileReleasing

LEMMA LifeInit == Init => LifeInv
  BY DEF Init, LifeInv, LoopsOwned, ListenersOwned, TakenWhileReleasing, Running

LEMMA CloseSocketKeepsRunning ==
  ASSUME TypeOK, NEW fd, CloseSocket(fd)
  PROVE  /\ \A e \in Epochs : Running(e)' <=> Running(e)
         /\ \A f \in Fds : files'[f] = "listen" => files[f] = "listen" /\ f # fd
  BY DEF CloseSocket, Running, TypeOK, LoopsType, KernelType

\* A step that starts or ends no loop, opens no listener and leaves every close
\* where it is.
LEMMA LifeQuiet ==
  ASSUME TypeOK, LifeInv,
         UNCHANGED <<active, close_notified, accept_thread, listen_fd, joining, lfd>>,
         \A e \in Epochs : Running(e)' <=> Running(e),
         \A f \in Fds : files'[f] = "listen" => files[f] = "listen",
         \A t \in Threads : op[t] \in Releasing => op'[t] = op[t]
  PROVE  LifeInv'
<1>1. LoopsOwned'
  <2>1. accept_thread # 0 => Running(accept_thread)'
    BY DEF LifeInv, LoopsOwned, TypeOK, ImplType
  <2> QED
    BY <2>1 DEF LifeInv, LoopsOwned
<1>2. ListenersOwned'
  BY DEF LifeInv, ListenersOwned
<1>3. TakenWhileReleasing'
  BY DEF LifeInv, TakenWhileReleasing, Releasing
<1> QED
  BY <1>1, <1>2, <1>3 DEF LifeInv

LEMMA LifeListen ==
  ASSUME TypeOK, LifeInv, NEW a \in Apps, Listen(a)
  PROVE  LifeInv'
<1>1. listens \in Nat /\ listens + 1 \in Epochs /\ listens + 1 # 0
  BY BoundsType DEF TypeOK, ImplType, Listen, Epochs
<1>2. PICK fd \in Fds : files' = [files EXCEPT ![fd] = "listen"] /\ listen_fd' = fd
  BY DEF Listen
<1>3. fd # NoFd
  BY NamesDistinct
<1>4. PICK created \in BOOLEAN, early \in SUBSET {e \in Epochs : acc[e] = "enter"} :
        /\ accept_thread' = IF created THEN listens + 1 ELSE accept_thread
        /\ acc' = [e \in Epochs |-> IF created /\ e = listens + 1 THEN "check"
                                    ELSE IF e \in early THEN "failed" ELSE acc[e]]
  BY DEF Listen
<1>5. /\ created => acc'[listens + 1] = "check"
      /\ \A e \in Epochs : (created /\ e = listens + 1) \/ (Running(e)' <=> Running(e))
  <2>1. created => acc'[listens + 1] = "check"
    BY <1>1, <1>4
  <2>2. ASSUME NEW e \in Epochs, ~(created /\ e = listens + 1) PROVE Running(e)' <=> Running(e)
    BY <1>4, <2>2 DEF Running
  <2> QED
    BY <2>1, <2>2
<1>6. accept_thread = 0 /\ UNCHANGED <<joining, lfd, op>>
  BY DEF Listen, LifeInv, LoopsOwned, taken, calls
<1>7. LoopsOwned'
  <2>1. active' /\ ~close_notified'
    BY DEF Listen
  <2>2. accept_thread' # 0 => created /\ accept_thread' = listens + 1 /\ Running(accept_thread)'
    BY <1>4, <1>5, <1>6 DEF Running
  <2>3. ASSUME NEW e \in Epochs, Running(e)'
        PROVE  e = accept_thread' \/ \E t \in Threads : joining'[t] = e
    <3>1. CASE created /\ e = listens + 1
      BY <1>4, <3>1
    <3>2. CASE ~(created /\ e = listens + 1)
      <4>1. Running(e) /\ e # accept_thread
        BY <1>5, <1>6, <2>3, <3>2 DEF Epochs
      <4> QED
        BY <1>6, <4>1 DEF LifeInv, LoopsOwned
    <3> QED
      BY <3>1, <3>2
  <2> QED
    BY <1>2, <1>3, <2>1, <2>2, <2>3 DEF LoopsOwned
<1>8. ListenersOwned'
  BY <1>2, <1>6, NamesDistinct DEF Listen, LifeInv, LoopsOwned, ListenersOwned, TypeOK, KernelType
<1>9. TakenWhileReleasing'
  BY <1>6 DEF LifeInv, TakenWhileReleasing
<1> QED
  BY <1>7, <1>8, <1>9 DEF LifeInv

LEMMA LifeAccept ==
  ASSUME TypeOK, LifeInv, NEW e \in Epochs, AcceptLoop(e) \/ AcceptFail(e)
  PROVE  LifeInv'
<1>1. UNCHANGED <<active, close_notified, accept_thread, listen_fd, joining, lfd, files, op>>
  BY DEF AcceptLoop, AcceptCheck, AcceptEnter, AcceptFail, AcceptFailed, AcceptErrorHandled,
         AcceptUnchanged, impl, kernel, calls, taken
<1>2. \A d \in Epochs : d # e => (Running(d)' <=> Running(d))
  BY DEF AcceptLoop, AcceptCheck, AcceptEnter, AcceptFail, AcceptFailed, AcceptErrorHandled,
         Accepting, Running, TypeOK, LoopsType
<1>3. Running(e) /\ (Running(e)' \/ ~active)
  BY DEF AcceptLoop, AcceptCheck, AcceptEnter, AcceptFail, AcceptFailed, AcceptErrorHandled,
         Accepting, Running, TypeOK, LoopsType, LifeInv, LoopsOwned
<1>4. CASE Running(e)'
  <2>1. \A d \in Epochs : Running(d)' <=> Running(d)
    BY <1>2, <1>3, <1>4
  <2> QED
    BY <1>1, <2>1, LifeQuiet
<1>5. CASE ~active
  <2>1. \A d \in Epochs : Running(d)' => Running(d)
    BY <1>2, <1>3
  <2> QED
    BY <1>1, <1>5, <2>1 DEF LifeInv, LoopsOwned, ListenersOwned, TakenWhileReleasing
<1> QED
  BY <1>3, <1>4, <1>5

LEMMA LifeClose ==
  ASSUME TypeOK, LifeInv, NEW t \in Threads, Close(t)
  PROVE  LifeInv'
<1>1. joining[t] = 0 /\ lfd[t] = NoFd
  BY DEF Close, Step, LifeInv, TakenWhileReleasing, Releasing
<1>2. /\ joining' = [joining EXCEPT ![t] = accept_thread]
      /\ lfd' = [lfd EXCEPT ![t] = listen_fd]
      /\ op' = [op EXCEPT ![t] = "close_listen"]
      /\ ~active' /\ accept_thread' = 0 /\ listen_fd' = NoFd
      /\ UNCHANGED <<acc, files>>
  BY DEF Close, Step, loops, kernel
<1>3. \A u \in Threads : joining[u] # 0 => joining'[u] = joining[u]
  BY <1>1, <1>2 DEF TypeOK, CallsType
<1>4. joining'[t] = accept_thread /\ lfd'[t] = listen_fd
  BY <1>2 DEF TypeOK, CallsType
<1>5. LoopsOwned'
  <2>1. ASSUME NEW e \in Epochs, Running(e)' PROVE \E u \in Threads : joining'[u] = e
    <3>1. e # 0 /\ Running(e)
      BY <1>2, <2>1 DEF Running, Epochs
    <3> QED
      BY <1>3, <1>4, <3>1 DEF LifeInv, LoopsOwned
  <2> QED
    BY <1>2, <2>1 DEF LoopsOwned
<1>6. ListenersOwned'
  <2>1. ASSUME NEW f \in Fds, files'[f] = "listen" PROVE \E u \in Threads : lfd'[u] = f
    <3>1. f # NoFd /\ files[f] = "listen"
      BY <1>2, <2>1, NamesDistinct
    <3>2. \A u \in Threads : lfd[u] # NoFd => lfd'[u] = lfd[u]
      BY <1>1, <1>2 DEF TypeOK, CallsType
    <3> QED
      BY <1>4, <3>1, <3>2 DEF LifeInv, ListenersOwned
  <2> QED
    BY <2>1 DEF ListenersOwned
<1>7. TakenWhileReleasing'
  BY <1>2 DEF LifeInv, TakenWhileReleasing, Releasing, TypeOK, CallsType
<1> QED
  BY <1>5, <1>6, <1>7 DEF LifeInv

LEMMA LifeClosing ==
  ASSUME TypeOK, LifeInv, NEW t \in Threads, Closing(t)
  PROVE  LifeInv'
<1>1. UNCHANGED <<active, close_notified, accept_thread, listen_fd>>
  BY DEF Closing, CloseListen, CloseStream, Join, Notify, CloseUnchanged, impl
<1>2. CASE CloseListen(t)
  <2>1. /\ lfd' = [lfd EXCEPT ![t] = NoFd] /\ joining' = joining
        /\ op[t] = "close_listen" /\ op' = [op EXCEPT ![t] = "close_stream"]
        /\ CloseSocket(lfd[t])
    BY <1>2 DEF CloseListen, Step
  <2>2. /\ \A e \in Epochs : Running(e)' <=> Running(e)
        /\ \A f \in Fds : files'[f] = "listen" => files[f] = "listen" /\ f # lfd[t]
    BY <2>1, CloseSocketKeepsRunning
  <2>3. LoopsOwned'
    BY <1>1, <2>1, <2>2 DEF LifeInv, LoopsOwned, TypeOK, ImplType
  <2>4. ListenersOwned'
    BY <1>1, <2>1, <2>2 DEF LifeInv, ListenersOwned, TypeOK, CallsType
  <2>5. TakenWhileReleasing'
    BY <2>1 DEF LifeInv, TakenWhileReleasing, Releasing, TypeOK, CallsType
  <2> QED
    BY <2>3, <2>4, <2>5 DEF LifeInv
<1>3. CASE CloseStream(t)
  <2>1. /\ UNCHANGED <<lfd, joining>>
        /\ op[t] = "close_stream" /\ op' = [op EXCEPT ![t] = "join"]
        /\ CloseSocket(sfd[t])
    BY <1>3 DEF CloseStream, Step
  <2>2. /\ \A e \in Epochs : Running(e)' <=> Running(e)
        /\ \A f \in Fds : files'[f] = "listen" => files[f] = "listen"
    BY <2>1, CloseSocketKeepsRunning
  <2>3. LoopsOwned' /\ ListenersOwned'
    BY <1>1, <2>1, <2>2 DEF LifeInv, LoopsOwned, ListenersOwned, TypeOK, ImplType
  <2>4. TakenWhileReleasing'
    BY <2>1 DEF LifeInv, TakenWhileReleasing, Releasing, TypeOK, CallsType
  <2> QED
    BY <2>3, <2>4 DEF LifeInv
<1>4. CASE Join(t)
  <2>1. /\ UNCHANGED <<acc, files, lfd>> /\ joining' = [joining EXCEPT ![t] = 0]
        /\ op[t] = "join" /\ op' = [op EXCEPT ![t] = "notify"]
        /\ joining[t] # 0 => acc[joining[t]] = "exited"
    BY <1>4 DEF Join, Step
  <2>2. \A e \in Epochs : Running(e) => e # joining[t]
    BY <2>1 DEF Running, Epochs
  <2>3. LoopsOwned'
    BY <1>1, <2>1, <2>2 DEF LifeInv, LoopsOwned, Running, TypeOK, CallsType
  <2>4. ListenersOwned'
    BY <1>1, <2>1 DEF LifeInv, ListenersOwned
  <2>5. TakenWhileReleasing'
    BY <2>1 DEF LifeInv, TakenWhileReleasing, Releasing, TypeOK, CallsType
  <2> QED
    BY <2>3, <2>4, <2>5 DEF LifeInv
<1>5. CASE Notify(t)
  <2>1. UNCHANGED <<acc, files, joining, lfd>>
    BY <1>5 DEF Notify, taken
  <2>2. \A u \in Threads : op[u] \in Releasing => op'[u] = op[u]
    BY <1>5 DEF Notify, Step, Releasing, TypeOK, CallsType
  <2> QED
    BY <1>1, <2>1, <2>2, LifeQuiet DEF Running
<1> QED
  BY <1>2, <1>3, <1>4, <1>5 DEF Closing

LEMMA LifeNext == TypeOK /\ LifeInv /\ [Next]_vars => LifeInv'
<1> SUFFICES ASSUME TypeOK, LifeInv, [Next]_vars PROVE LifeInv'
  OBVIOUS
<1>1. CASE UNCHANGED vars \/ SetMessageHandler \/ \E t \in Threads : Block(t)
  BY <1>1, LifeQuiet DEF vars, SetMessageHandler, Block, impl, loops, kernel, calls, taken,
     Running
<1>2. CASE \E a \in Apps : Listen(a) \/ AppSend(a)
  <2>1. PICK a \in Apps : Listen(a) \/ AppSend(a)
    BY <1>2
  <2>2. CASE AppSend(a)
    BY <2>2, LifeQuiet DEF AppSend, SendTo, Step, impl, loops, kernel, taken, Running,
       Releasing, TypeOK, CallsType
  <2> QED
    BY <2>1, <2>2, LifeListen
<1>3. CASE \E e \in Epochs : AcceptLoop(e) \/ AcceptFail(e)
  BY <1>3, LifeAccept
<1>4. CASE \E c \in Conns : Client(c) \/ Handle(c)
  <2>1. PICK c \in Conns : Client(c) \/ Handle(c)
    BY <1>4
  <2>2. CASE \E e \in Epochs : AcceptClient(e, c)
    <3>1. PICK e \in Epochs : AcceptClient(e, c)
      BY <2>2
    <3>2. \A d \in Epochs : Running(d)' <=> Running(d)
      BY <3>1 DEF AcceptClient, Accepting, Running, TypeOK, LoopsType
    <3>3. \A f \in Fds : files'[f] = "listen" => files[f] = "listen"
      BY <3>1, NamesDistinct DEF AcceptClient, TypeOK, KernelType
    <3> QED
      BY <3>1, <3>2, <3>3, LifeQuiet DEF AcceptClient, impl, calls, taken
  <2>3. CASE CloseClient(c)
    <3>1. CloseSocket(client_fd[c])
      BY <2>3 DEF CloseClient
    <3> QED
      BY <2>3, <3>1, CloseSocketKeepsRunning, LifeQuiet DEF CloseClient, impl, calls, taken
  <2>4. CASE HandlerSend(c)
    BY <2>4, LifeQuiet DEF HandlerSend, SendTo, Step, impl, loops, kernel, taken, Running,
       Releasing, TypeOK, CallsType
  <2>5. CASE \/ ReadRequest(c) \/ ReadFails(c) \/ Vanish(c) \/ Register(c) \/ Lookup(c)
             \/ WriteError(c) \/ HandlerReturn(c) \/ Headers(c)
    <3>1. UNCHANGED <<active, close_notified, accept_thread, listen_fd, joining, lfd, acc, files, op>>
      BY <2>5 DEF ReadRequest, ReadFails, Vanish, Register, Lookup, WriteError, HandlerReturn,
         Headers, impl, loops, kernel, calls, taken
    <3> QED
      BY <3>1, LifeQuiet DEF Running
  <2> QED
    BY <2>1, <2>2, <2>3, <2>4, <2>5 DEF Client, Handle
<1>5. CASE \E t \in Threads : Close(t) \/ Sending(t) \/ Closing(t)
  <2>1. PICK t \in Threads : Close(t) \/ Sending(t) \/ Closing(t)
    BY <1>5
  <2>2. CASE Sending(t)
    <3>1. UNCHANGED <<active, close_notified, accept_thread, listen_fd, joining, lfd>>
      BY <2>2 DEF Sending, TakeWriteLock, WriteJson, WriteHead, WriteEvent, StreamWriteFails,
         Hangup, Unregister, WriteUnchanged, impl, taken
    <3>2. op[t] \notin Releasing /\ \A u \in Threads : u # t => op'[u] = op[u]
      BY <2>2 DEF Sending, TakeWriteLock, WriteJson, WriteHead, WriteEvent, StreamWriteFails,
         Hangup, Unregister, Step, Releasing, TypeOK, CallsType
    <3>3. CASE Hangup(t)
      <4>1. CloseSocket(client_fd[tgt[t]])
        BY <3>3 DEF Hangup
      <4> QED
        BY <3>1, <3>2, <4>1, CloseSocketKeepsRunning, LifeQuiet
    <3>4. CASE ~Hangup(t)
      <4>1. UNCHANGED <<acc, files>>
        BY <2>2, <3>4 DEF Sending, TakeWriteLock, WriteJson, WriteHead, WriteEvent,
           StreamWriteFails, Unregister, loops, kernel
      <4> QED
        BY <3>1, <3>2, <4>1, LifeQuiet DEF Running
    <3> QED
      BY <3>3, <3>4
  <2> QED
    BY <2>1, <2>2, LifeClose, LifeClosing
<1> QED
  BY <1>1, <1>2, <1>3, <1>4, <1>5 DEF Next

LEMMA LifeImplies == TypeOK /\ LifeInv => CloseReleasesListener
<1> SUFFICES ASSUME TypeOK, LifeInv, ~active, \A t \in Threads : op[t] \notin Releasing
             PROVE  /\ \A e \in Epochs : ~Running(e)
                    /\ \A f \in Fds : files[f] # "listen"
  BY DEF CloseReleasesListener
<1>1. accept_thread = 0 /\ listen_fd = NoFd
  BY DEF LifeInv, LoopsOwned
<1>2. \A t \in Threads : joining[t] = 0 /\ lfd[t] = NoFd
  BY DEF LifeInv, TakenWhileReleasing, Releasing
<1>3. \A e \in Epochs : ~Running(e)
  BY <1>1, <1>2 DEF LifeInv, LoopsOwned, Epochs
<1>4. \A f \in Fds : files[f] # "listen"
  BY <1>1, <1>2, NamesDistinct DEF LifeInv, ListenersOwned
<1> QED
  BY <1>3, <1>4

\* Every accept loop is joined by somebody and accept_thread_ is never assigned
\* while joinable, also after a listen that opened the transport and could not
\* create its thread.
THEOREM AcceptLoopsOwned == Spec => []LoopsOwned
<1>1. Init => TypeOK /\ LifeInv
  BY TypeInit, LifeInit
<1>2. TypeOK /\ LifeInv /\ [Next]_vars => (TypeOK /\ LifeInv)'
  BY TypeNext, LifeNext
<1>3. LifeInv => LoopsOwned
  BY DEF LifeInv
<1> QED
  BY <1>1, <1>2, <1>3, PTL DEF Spec

\* A transport at rest after close has no listening socket and no accept loop.
THEOREM ListenerReleased == Spec => []CloseReleasesListener
<1>1. Init => TypeOK /\ LifeInv
  BY TypeInit, LifeInit
<1>2. TypeOK /\ LifeInv /\ [Next]_vars => (TypeOK /\ LifeInv)'
  BY TypeNext, LifeNext
<1> QED
  BY <1>1, <1>2, LifeImplies, PTL DEF Spec

LEMMA LifeHolds == Spec => [](TypeOK /\ LifeInv)
<1>1. Init => TypeOK /\ LifeInv
  BY TypeInit, LifeInit
<1>2. TypeOK /\ LifeInv /\ [Next]_vars => (TypeOK /\ LifeInv)'
  BY TypeNext, LifeNext
<1> QED
  BY <1>1, <1>2, PTL DEF Spec

\* Only accept_loop makes a connection known.
LEMMA OnlyAcceptStarts ==
  ASSUME TypeOK, [Next]_vars, NEW c \in Conns, pc[c] = "absent", pc'[c] # "absent"
  PROVE  \E e \in Epochs : Running(e)
<1>1. CASE \E d \in Conns, e \in Epochs : AcceptClient(e, d)
  BY <1>1 DEF AcceptClient, Accepting, Running
<1>2. CASE \E d \in Conns : ReadRequest(d) \/ ReadFails(d) \/ Vanish(d) \/ Handle(d)
  <2>1. PICK d \in Conns : ReadRequest(d) \/ ReadFails(d) \/ Vanish(d) \/ Handle(d)
    BY <1>2
  <2>2. pc' = pc \/ \E from, to : from # "absent" /\ Goto(d, from, to)
    BY <2>1 DEF ReadRequest, ReadFails, Vanish, Handle, Register, Lookup, WriteError,
       HandlerSend, SendTo, HandlerReturn, Headers, CloseClient
  <2>3. pc'[c] = pc[c]
    BY <2>2 DEF Goto, TypeOK, ConnsType
  <2> QED
    BY <2>3
<1>3. CASE \/ UNCHANGED vars \/ SetMessageHandler
           \/ \E a \in Apps : Listen(a) \/ AppSend(a)
           \/ \E e \in Epochs : AcceptLoop(e) \/ AcceptFail(e)
           \/ \E t \in Threads : Close(t) \/ Sending(t) \/ Closing(t) \/ Block(t)
  <2>1. pc' = pc
    BY <1>3 DEF vars, SetMessageHandler, Block, Listen, AppSend, SendTo, AcceptLoop, AcceptCheck,
       AcceptEnter, AcceptFail, AcceptFailed, AcceptErrorHandled, AcceptUnchanged, Close,
       Sending, TakeWriteLock, WriteJson, WriteHead, WriteEvent, StreamWriteFails, Hangup,
       Unregister, WriteUnchanged, Closing, CloseListen, CloseStream, Join, Notify, CloseUnchanged
  <2> QED
    BY <2>1
<1> QED
  BY <1>1, <1>2, <1>3 DEF Next, Client

\* No handler thread starts once the close that stopped the transport is past
\* its join.
THEOREM AcceptsOnlyWhileOpen == Spec => AcceptOnlyWhileOpen
<1> DEFINE Starts == \A c \in Conns : pc[c] = "absent" /\ pc'[c] # "absent" =>
                       active \/ \E t \in Threads : op[t] \in Releasing
<1>1. TypeOK /\ LifeInv /\ [Next]_vars => [Starts]_vars
  <2> SUFFICES ASSUME TypeOK, LifeInv, [Next]_vars,
                      NEW c \in Conns, pc[c] = "absent", pc'[c] # "absent"
               PROVE  active \/ \E t \in Threads : op[t] \in Releasing
    OBVIOUS
  <2>1. PICK e \in Epochs : Running(e)
    BY OnlyAcceptStarts
  <2>2. CASE e = accept_thread
    BY <2>2 DEF LifeInv, LoopsOwned, Epochs
  <2>3. CASE \E t \in Threads : joining[t] = e
    BY <2>3 DEF LifeInv, TakenWhileReleasing, Epochs
  <2> QED
    BY <2>1, <2>2, <2>3 DEF LifeInv, LoopsOwned
<1> QED
  BY <1>1, LifeHolds, PTL DEF Spec, AcceptOnlyWhileOpen

(***************************************************************************)
(* The contract of ITransport.                                             *)
(***************************************************************************)

Pending == {t \in Threads : op[t] \in Releasing \cup {"notify"}}

LEMMA ContractInit == Init => Contract!Init
  BY DEF Init, Contract!Init, Releasing

LEMMA ContractStutter ==
  ASSUME UNCHANGED <<active, close_notified>>, Pending' = Pending
  PROVE  UNCHANGED Contract!vars
  BY DEF Contract!vars, Pending

LEMMA ContractClose ==
  ASSUME TypeOK, LifeInv, NEW t \in Threads, Close(t)
  PROVE  Contract!Shut(t)
<1>1. ~close_notified
  BY DEF Close, Closable, LifeInv, LoopsOwned
<1>2. op[t] = "idle" /\ op' = [op EXCEPT ![t] = "close_listen"] /\ ~active' /\ close_notified'
  BY DEF Close, Step
<1>3. Pending' = Pending \cup {t}
  BY <1>2 DEF Pending, Releasing, TypeOK, CallsType
<1> QED
  BY <1>1, <1>2, <1>3 DEF Contract!Shut, Pending, Releasing

LEMMA ContractNotify ==
  ASSUME TypeOK, NEW t \in Threads, Notify(t)
  PROVE  Contract!Notify(t)
<1>1. op[t] = "notify" /\ op' = [op EXCEPT ![t] = "idle"] /\ UNCHANGED <<active, close_notified>>
  BY DEF Notify, Step, CloseUnchanged, impl
<1>2. Pending' = Pending \ {t}
  BY <1>1 DEF Pending, Releasing, TypeOK, CallsType
<1> QED
  BY <1>1, <1>2 DEF Contract!Notify, Pending

LEMMA ContractNext ==
  TypeOK /\ LifeInv /\ [Next]_vars => [Contract!Next]_(Contract!vars)
<1> SUFFICES ASSUME TypeOK, LifeInv, [Next]_vars
             PROVE  Contract!Next \/ UNCHANGED Contract!vars
  OBVIOUS
<1>1. CASE \E a \in Apps : Listen(a)
  <2>1. /\ ~active /\ active' /\ ~close_notified' /\ op' = op
    BY <1>1 DEF Listen, calls
  <2> QED
    BY <2>1 DEF Contract!Next, Contract!Open
<1>2. CASE \E t \in Threads : Close(t)
  BY <1>2, ContractClose DEF Contract!Next
<1>3. CASE \E t \in Threads : Notify(t)
  BY <1>3, ContractNotify DEF Contract!Next
<1>4. CASE \/ UNCHANGED vars \/ SetMessageHandler
           \/ \E e \in Epochs : AcceptLoop(e) \/ AcceptFail(e)
           \/ \E c \in Conns : \/ Client(c) \/ Register(c) \/ Lookup(c) \/ WriteError(c)
                              \/ HandlerReturn(c) \/ Headers(c) \/ CloseClient(c)
           \/ \E t \in Threads : Block(t)
  <2>1. UNCHANGED <<active, close_notified, op>>
    BY <1>4 DEF vars, SetMessageHandler, Block, AcceptLoop, AcceptCheck, AcceptEnter, AcceptFail,
       AcceptFailed, AcceptErrorHandled, AcceptUnchanged, Client, AcceptClient, ReadRequest,
       ReadFails, Vanish, Register, Lookup, WriteError, HandlerReturn, Headers, CloseClient,
       impl, calls
  <2> QED
    BY <2>1, ContractStutter DEF Pending
<1>5. CASE \E t \in Threads : \/ \E c \in Conns : SendTo(t, c)
                             \/ Sending(t) \/ CloseListen(t) \/ CloseStream(t) \/ Join(t)
  <2>1. PICK t \in Threads : \/ \E c \in Conns : SendTo(t, c)
                            \/ Sending(t) \/ CloseListen(t) \/ CloseStream(t) \/ Join(t)
    BY <1>5
  <2>2. UNCHANGED <<active, close_notified>>
    BY <2>1 DEF SendTo, Sending, TakeWriteLock, WriteJson, WriteHead, WriteEvent,
       StreamWriteFails, Hangup, Unregister, WriteUnchanged, CloseListen, CloseStream, Join,
       CloseUnchanged, impl
  <2>3. PICK from, to : /\ Step(t, from, to)
                        /\ from \in Releasing \cup {"notify"} <=> to \in Releasing \cup {"notify"}
    BY <2>1 DEF SendTo, Sending, TakeWriteLock, WriteJson, WriteHead, WriteEvent,
       StreamWriteFails, Hangup, Unregister, CloseListen, CloseStream, Join, Releasing
  <2>4. Pending' = Pending
    BY <2>3 DEF Step, Pending, TypeOK, CallsType
  <2> QED
    BY <2>2, <2>4, ContractStutter
<1>6. ASSUME NEW a \in Apps, AppSend(a) PROVE \E t \in Threads, c \in Conns : SendTo(t, c)
  BY <1>6 DEF AppSend, Threads, TypeOK, ImplType
<1>7. ASSUME NEW c \in Conns, HandlerSend(c) PROVE \E t \in Threads, d \in Conns : SendTo(t, d)
  BY <1>7 DEF HandlerSend, Threads
<1> QED
  BY <1>1, <1>2, <1>3, <1>4, <1>5, <1>6, <1>7 DEF Next, Handle, Closing

\* Closing the transport is idempotent and notifies exactly once per opening,
\* whatever threads race to close it: the transport implements the contract.
THEOREM ImplementsContract == Spec => KeepsContract
<1>1. Init => Contract!Init
  BY ContractInit
<1>2. TypeOK /\ LifeInv /\ [Next]_vars => [Contract!Next]_(Contract!vars)
  BY ContractNext
<1> QED
  BY <1>1, <1>2, LifeHolds, PTL DEF Spec, KeepsContract, Contract!Spec
-----------------------------------------------------------------------------
(***************************************************************************)
(* What is written to the clients: a plain request is answered at most     *)
(* once, and no event precedes its stream's headers.                       *)
(***************************************************************************)

HIDE DEF NoFd

HeadOf(c) == [for |-> c, what |-> "head"]
EventOf(c) == [for |-> c, what |-> "event"]

\* Nothing was written for c; all that was written for c is one entry.
Silent(c) == \A d \in Conns : \A i \in 1..Len(rcvd[d]) : rcvd[d][i].for # c
Once(c) ==
  \A d, e \in Conns : \A i \in 1..Len(rcvd[d]), j \in 1..Len(rcvd[e]) :
    rcvd[d][i].for = c /\ rcvd[e][j].for = c => d = e /\ i = j

\* c still receives what its own thread of the transport writes for it.
Reaches(c) == c \notin gone /\ client_fd[c] \in Fds /\ files[client_fd[c]] = c
Headed(c) == \E i \in 1..Len(rcvd[c]) : rcvd[c][i] = HeadOf(c)

(***************************************************************************)
(* Who writes to what.  Until a request has been read nobody writes to its *)
(* connection, and to a plain one only the thread that runs its handler.   *)
(***************************************************************************)

Fresh(c) == pc[c] \in {"absent", "reading"}

WritersInv ==
  /\ stream_connection # None => streaming[stream_connection] /\ ~Fresh(stream_connection)
  /\ \A c \in Conns : pc[c] \in {"register", "headers"} => streaming[c]
  /\ \A c \in Conns : Fresh(c) => ~response_started[c]
  /\ \A t \in Threads : op[t] \in Writing =>
       /\ ~Fresh(tgt[t])
       /\ ~streaming[tgt[t]] => t = tgt[t] /\ pc[t] = "handler"
       /\ op[t] = "json" => ~streaming[tgt[t]] /\ ~closed[tgt[t]]
       /\ op[t] \in {"head", "event", "drop", "unregister"} => streaming[tgt[t]]
       /\ op[t] = "event" => response_started[tgt[t]]

\* A plain request that can still be answered has not been.
Unanswered(c) ==
  \/ pc[c] \in {"absent", "reading", "refuse", "lookup", "answer"}
  \/ pc[c] = "handler" /\ ~closed[c]

AnswersInv ==
  \A c \in Conns : /\ Fresh(c) => Silent(c)
                   /\ ~streaming[c] => Once(c) /\ (Unanswered(c) => Silent(c))

\* A handler thread calls send and close from its handler only.  A thread that
\* is blocked is writing, and not to a client whose number went to another: no
\* write fails on account of its client while the connection is in order.
HandlersBusy == \A c \in Conns : op[c] # "idle" => pc[c] = "handler"
StuckWrites == \A t \in Threads : stuck[t] # None => \E c \in Conns : WritesFor(t, c)
StuckElsewhere ==
  \A t \in Threads, c \in Conns :
    stuck[t] # None /\ WritesFor(t, c) /\ Reaches(c) => stuck[t] = c

StuckInv == HandlersBusy /\ StuckWrites /\ StuckElsewhere

HeadersInv ==
  /\ EventsFollowHeaders
  /\ \A c \in Conns : response_started[c] /\ Reaches(c) => Headed(c)

LEMMA WritesInit == Init => WritersInv /\ StuckInv /\ AnswersInv /\ HeadersInv
<1> SUFFICES ASSUME Init PROVE WritersInv /\ StuckInv /\ AnswersInv /\ HeadersInv
  OBVIOUS
<1>1. WritersInv /\ AnswersInv /\ HeadersInv
  BY DEF Init, WritersInv, AnswersInv, HeadersInv, Writing, Once, Silent, EventsFollowHeaders
<1>2. \A t \in Threads : stuck[t] = None /\ op[t] = "idle"
  BY DEF Init
<1>3. StuckInv
  BY <1>2 DEF StuckInv, HandlersBusy, StuckWrites, StuckElsewhere, Threads
<1> QED
  BY <1>1, <1>3

LEMMA AppendFacts ==
  ASSUME NEW S, NEW s \in Seq(S), NEW x
  PROVE  /\ Len(Append(s, x)) = Len(s) + 1
         /\ Len(s) \in Nat
         /\ Append(s, x)[Len(s) + 1] = x
         /\ \A i \in 1..Len(s) : Append(s, x)[i] = s[i]
  OBVIOUS

\* The entry about c that was written through fd is the last that d has received.
Reached(d, fd, c, what) ==
  /\ d = files[fd] /\ fd \in Fds /\ d \notin gone
  /\ \A e \in Conns : e # d => rcvd'[e] = rcvd[e]
  /\ Len(rcvd[d]) \in Nat /\ Len(rcvd'[d]) = Len(rcvd[d]) + 1
  /\ rcvd'[d][Len(rcvd[d]) + 1] = [for |-> c, what |-> what]
  /\ \A i \in 1..Len(rcvd[d]) : rcvd'[d][i] = rcvd[d][i]

LEMMA Delivered ==
  ASSUME TypeOK, NEW t, NEW c \in Conns, NEW what \in Bytes, Deliver(t, c, what),
         rcvd' # rcvd
  PROVE  \E d \in Conns : Reached(d, client_fd[c], c, what)
<1> DEFINE fd == client_fd[c]
<1>1. /\ fd \in Fds /\ files[fd] \in Conns /\ files[fd] \notin gone
      /\ rcvd' = [rcvd EXCEPT ![files[fd]] =
                    Append(rcvd[files[fd]], [for |-> c, what |-> what])]
  BY DEF Deliver, MayFail, MayWrite
<1> DEFINE d == files[fd]
           entry == [for |-> c, what |-> what]
           Entries == [for : Conns, what : Bytes]
<1>2. rcvd \in [Conns -> Seq(Entries)]
  BY DEF TypeOK, KernelType
<1> HIDE DEF Entries
<1>3. rcvd'[d] = Append(rcvd[d], entry) /\ \A e \in Conns : e # d => rcvd'[e] = rcvd[e]
  BY <1>1, <1>2
<1>4. rcvd[d] \in Seq(Entries)
  BY <1>1, <1>2
<1>5. /\ Len(rcvd'[d]) = Len(rcvd[d]) + 1 /\ Len(rcvd[d]) \in Nat
      /\ rcvd'[d][Len(rcvd[d]) + 1] = entry
      /\ \A i \in 1..Len(rcvd[d]) : rcvd'[d][i] = rcvd[d][i]
  BY <1>3, <1>4, AppendFacts
<1>6. d \in Conns /\ d = files[fd] /\ d \notin gone
  BY <1>1
<1>7. fd \in Fds
  BY <1>1
<1>8. Reached(d, fd, c, what)
  BY <1>3, <1>5, <1>6, <1>7 DEF Reached
<1> QED
  BY <1>6, <1>8, Zenon

LEMMA DeliverAnswers ==
  ASSUME TypeOK, NEW t, NEW c \in Conns, NEW what \in Bytes, Deliver(t, c, what)
  PROVE  /\ \A x \in Conns : x # c => (Silent(x) => Silent(x)') /\ (Once(x) => Once(x)')
         /\ Silent(c) => Once(c)'
<1>1. CASE rcvd' = rcvd
  BY <1>1 DEF Silent, Once
<1>2. CASE rcvd' # rcvd
  <2>. PICK d \in Conns : Reached(d, client_fd[c], c, what)
    BY <1>2, Delivered, Zenon
  <2>1. /\ d = files[client_fd[c]] /\ client_fd[c] \in Fds /\ d \notin gone
        /\ \A e \in Conns : e # d => rcvd'[e] = rcvd[e]
        /\ Len(rcvd[d]) \in Nat /\ Len(rcvd'[d]) = Len(rcvd[d]) + 1
        /\ rcvd'[d][Len(rcvd[d]) + 1] = [for |-> c, what |-> what]
        /\ \A i \in 1..Len(rcvd[d]) : rcvd'[d][i] = rcvd[d][i]
    BY DEF Reached
  <2>2. ASSUME NEW e \in Conns, NEW i \in 1..Len(rcvd'[e])
        PROVE  \/ i \in 1..Len(rcvd[e]) /\ rcvd'[e][i] = rcvd[e][i]
               \/ e = d /\ i = Len(rcvd[d]) + 1 /\ rcvd'[e][i].for = c
    <3>1. CASE e # d
      BY <2>1, <3>1
    <3>2. CASE e = d
      <4>1. i \in 1..Len(rcvd[d]) \/ i = Len(rcvd[d]) + 1
        BY <2>1, <3>2
      <4> QED
        BY <2>1, <3>2, <4>1
    <3> QED
      BY <3>1, <3>2
  <2>3. ASSUME NEW x \in Conns, x # c, NEW e \in Conns, NEW i \in 1..Len(rcvd'[e]),
               rcvd'[e][i].for = x
        PROVE  i \in 1..Len(rcvd[e]) /\ rcvd[e][i].for = x
    BY <2>2, <2>3
  <2>4. ASSUME NEW x \in Conns, x # c, Silent(x) PROVE Silent(x)'
    BY <2>3, <2>4 DEF Silent
  <2>5. ASSUME NEW x \in Conns, x # c, Once(x) PROVE Once(x)'
    BY <2>3, <2>5 DEF Once
  <2>6. ASSUME Silent(c) PROVE Once(c)'
    <3>1. \A e \in Conns : \A i \in 1..Len(rcvd'[e]) :
            rcvd'[e][i].for = c => e = d /\ i = Len(rcvd[d]) + 1
      BY <2>2, <2>6 DEF Silent
    <3> QED
      BY <3>1 DEF Once
  <2> QED
    BY <2>4, <2>5, <2>6
<1> QED
  BY <1>1, <1>2

LEMMA DeliverHeaders ==
  ASSUME TypeOK, EventsFollowHeaders, StuckInv, NEW t \in Threads, NEW c \in Conns,
         WritesFor(t, c), NEW what \in Bytes, Deliver(t, c, what), what = "event" /\ Reaches(c) => Headed(c)
  PROVE  /\ EventsFollowHeaders'
         /\ \A x \in Conns : Headed(x) => Headed(x)'
         /\ what = "head" /\ Reaches(c) => Headed(c)'
<1>1. CASE rcvd' = rcvd
  <2>1. ~Reaches(c)
    <3> SUFFICES ASSUME Reaches(c) PROVE FALSE
      OBVIOUS
    <3>1. ~MayFail(t, c) /\ files[client_fd[c]] = c
      BY DEF Reaches, MayFail, MayWrite, StuckInv, StuckElsewhere, Deliver, Unblocked, Blocked
    <3>2. rcvd' = [rcvd EXCEPT ![c] = Append(rcvd[c], [for |-> c, what |-> what])]
      BY <3>1 DEF Deliver
    <3>3. rcvd[c] \in Seq([for : Conns, what : Bytes]) /\ rcvd'[c] = Append(rcvd[c], [for |-> c, what |-> what])
      BY <3>2 DEF TypeOK, KernelType
    <3>4. Len(rcvd'[c]) = Len(rcvd[c]) + 1 /\ Len(rcvd[c]) \in Nat
      BY <3>3, AppendFacts
    <3> QED
      BY <1>1, <3>4
  <2> QED
    BY <1>1, <2>1 DEF EventsFollowHeaders, Headed
<1>2. CASE rcvd' # rcvd
  <2>. PICK d \in Conns : Reached(d, client_fd[c], c, what)
    BY <1>2, Delivered, Zenon
  <2>1. /\ d = files[client_fd[c]] /\ client_fd[c] \in Fds /\ d \notin gone
        /\ \A e \in Conns : e # d => rcvd'[e] = rcvd[e]
        /\ Len(rcvd[d]) \in Nat /\ Len(rcvd'[d]) = Len(rcvd[d]) + 1
        /\ rcvd'[d][Len(rcvd[d]) + 1] = [for |-> c, what |-> what]
        /\ \A i \in 1..Len(rcvd[d]) : rcvd'[d][i] = rcvd[d][i]
    BY DEF Reached
  <2>2. \A x \in Conns : Headed(x) => Headed(x)'
    BY <2>1 DEF Headed
  <2>3. what = "head" /\ Reaches(c) => Headed(c)'
    <3>1. Reaches(c) => d = c
      BY <2>1 DEF Reaches
    <3> QED
      BY <2>1, <3>1 DEF Headed, HeadOf
  <2>4. ASSUME NEW x \in Conns, NEW i \in 1..Len(rcvd'[x]), rcvd'[x][i] = EventOf(x)
        PROVE  \E j \in 1..(i - 1) : rcvd'[x][j] = HeadOf(x)
    <3>1. CASE x # d
      BY <2>1, <2>4, <3>1 DEF EventsFollowHeaders, EventOf, HeadOf
    <3>2. CASE x = d /\ i \in 1..Len(rcvd[d])
      <4>1. rcvd[d][i] = EventOf(d)
        BY <2>1, <2>4, <3>2
      <4>2. PICK j \in 1..(i - 1) : rcvd[d][j] = HeadOf(d)
        BY <3>2, <4>1 DEF EventsFollowHeaders, EventOf, HeadOf
      <4>3. j \in 1..Len(rcvd[d])
        BY <2>1, <3>2
      <4>4. rcvd'[x][j] = HeadOf(x)
        BY <2>1, <3>2, <4>2, <4>3
      <4> QED
        BY <4>4
    <3>3. CASE x = d /\ i = Len(rcvd[d]) + 1
      <4>1. c = d /\ what = "event"
        BY <2>1, <2>4, <3>3 DEF EventOf
      <4>2. Headed(d)
        BY <2>1, <4>1 DEF Reaches
      <4>3. PICK j \in 1..Len(rcvd[d]) : rcvd[d][j] = HeadOf(d)
        BY <4>2 DEF Headed
      <4> QED
        BY <2>1, <3>3, <4>3
    <3> QED
      BY <2>1, <3>1, <3>2, <3>3
  <2>5. EventsFollowHeaders'
    BY <2>4 DEF EventsFollowHeaders, EventOf, HeadOf
  <2> QED
    BY <2>2, <2>3, <2>5
<1> QED
  BY <1>1, <1>2

\* Closing a descriptor takes connections away from it, never gives one back.
LEMMA CloseSocketReaches ==
  ASSUME TypeOK, NEW fd, CloseSocket(fd), UNCHANGED <<gone, client_fd>>, NEW c \in Conns
  PROVE  Reaches(c)' => Reaches(c)
  BY NamesDistinct DEF CloseSocket, Reaches, TypeOK, KernelType, ConnsType

-----------------------------------------------------------------------------
(* WritersInv is kept by every step. *)

\* A request's connection leaves Fresh for good, and what kind it is is known
\* from then on.
LEMMA WritersQuiet ==
  ASSUME TypeOK, WritersInv,
         UNCHANGED <<stream_connection, op, tgt, streaming, closed>>,
         \A c \in Conns : response_started[c] => response_started'[c],
         \A c \in Conns : response_started'[c] /\ ~response_started[c] => ~Fresh(c)',
         \A c \in Conns : Fresh(c)' => Fresh(c),
         \A c \in Conns : pc'[c] \in {"register", "headers"} => streaming[c],
         \A c \in Conns : pc'[c] # pc[c] /\ pc[c] = "handler" => op[c] = "idle"
  PROVE  WritersInv'
<1>1. \A t \in Threads : op[t] \in Writing => tgt[t] \in Conns
  BY DEF TypeOK, CallsType
<1>2. ASSUME NEW t \in Threads, op'[t] \in Writing
      PROVE  /\ ~Fresh(tgt[t])'
             /\ ~streaming'[tgt'[t]] => t = tgt'[t] /\ pc'[t] = "handler"
             /\ op'[t] = "json" => ~streaming'[tgt'[t]] /\ ~closed'[tgt'[t]]
             /\ op'[t] \in {"head", "event", "drop", "unregister"} => streaming'[tgt'[t]]
             /\ op'[t] = "event" => response_started'[tgt'[t]]
  <2>1. op[t] \in Writing /\ tgt[t] \in Conns /\ op[t] # "idle"
    BY <1>1, <1>2 DEF Writing
  <2>2. ~Fresh(tgt[t])'
    BY <2>1 DEF WritersInv
  <2> QED
    BY <2>1, <2>2 DEF WritersInv
<1>3. stream_connection' # None => streaming'[stream_connection'] /\ ~Fresh(stream_connection)'
  BY DEF WritersInv, TypeOK, ImplType
<1>4. \A c \in Conns : Fresh(c)' => ~response_started'[c]
  BY DEF WritersInv
<1>5. \A c \in Conns : pc'[c] \in {"register", "headers"} => streaming'[c]
  OBVIOUS
<1> QED
  BY <1>2, <1>3, <1>4, <1>5 DEF WritersInv

LEMMA WritersReadRequest ==
  ASSUME TypeOK, WritersInv, NEW c \in Conns, ReadRequest(c)
  PROVE  WritersInv'
<1>1. PICK kind \in Kinds :
        /\ Goto(c, "reading", CASE kind = "reject" -> "refuse"
                                [] kind = "json"   -> "lookup"
                                [] kind = "stream" -> "register")
        /\ streaming' = [streaming EXCEPT ![c] = (kind = "stream")]
  BY DEF ReadRequest
<1>2. kind \in {"reject", "json", "stream"}
  BY ConstantsAssumption DEF ConstantsAssumption
<1>3. /\ UNCHANGED <<stream_connection, op, tgt, closed, response_started>>
      /\ Fresh(c)
      /\ \A d \in Conns : d # c => pc'[d] = pc[d] /\ streaming'[d] = streaming[d]
      /\ pc'[c] \in {"refuse", "lookup", "register"}
      /\ pc'[c] = "register" => streaming'[c]
  BY <1>1, <1>2 DEF ReadRequest, Goto, Fresh, TypeOK, ConnsType, impl, calls
<1>4. ASSUME NEW t \in Threads, op'[t] \in Writing
      PROVE  /\ ~Fresh(tgt[t])'
             /\ ~streaming'[tgt'[t]] => t = tgt'[t] /\ pc'[t] = "handler"
             /\ op'[t] = "json" => ~streaming'[tgt'[t]] /\ ~closed'[tgt'[t]]
             /\ op'[t] \in {"head", "event", "drop", "unregister"} => streaming'[tgt'[t]]
             /\ op'[t] = "event" => response_started'[tgt'[t]]
  <2>1. tgt[t] \in Conns /\ tgt[t] # c /\ op[t] \in Writing
    BY <1>3, <1>4 DEF WritersInv, TypeOK, CallsType
  <2> QED
    BY <1>3, <2>1 DEF WritersInv, Fresh
<1>5. stream_connection # None => stream_connection \in Conns /\ stream_connection # c
  BY <1>3 DEF WritersInv, TypeOK, ImplType
<1>6. stream_connection' # None => streaming'[stream_connection'] /\ ~Fresh(stream_connection)'
  BY <1>3, <1>5 DEF WritersInv, Fresh
<1>7. \A d \in Conns : pc'[d] \in {"register", "headers"} => streaming'[d]
  BY <1>3 DEF WritersInv
<1>8. \A d \in Conns : Fresh(d)' => ~response_started'[d]
  BY <1>3 DEF WritersInv, Fresh
<1> QED
  BY <1>4, <1>6, <1>7, <1>8 DEF WritersInv

LEMMA WritersSendTo ==
  ASSUME TypeOK, WritersInv, NEW t \in Threads, NEW c \in Conns, SendTo(t, c), ~Fresh(c),
         ~streaming[c] => t = c /\ pc[t] = "handler"
  PROVE  WritersInv'
<1>1. /\ UNCHANGED <<stream_connection, pc, streaming, closed, response_started>>
      /\ \A u \in Threads : u # t => op'[u] = op[u] /\ tgt'[u] = tgt[u]
      /\ op'[t] = "lock" /\ tgt'[t] = c
  BY DEF SendTo, Step, TypeOK, CallsType, impl, flags
<1>2. ASSUME NEW u \in Threads, op'[u] \in Writing
      PROVE  /\ ~Fresh(tgt[u])'
             /\ ~streaming'[tgt'[u]] => u = tgt'[u] /\ pc'[u] = "handler"
             /\ op'[u] = "json" => ~streaming'[tgt'[u]] /\ ~closed'[tgt'[u]]
             /\ op'[u] \in {"head", "event", "drop", "unregister"} => streaming'[tgt'[u]]
             /\ op'[u] = "event" => response_started'[tgt'[u]]
  <2>1. CASE u = t
    BY <1>1, <2>1 DEF Fresh
  <2>2. CASE u # t
    BY <1>1, <1>2, <2>2 DEF WritersInv, Fresh
  <2> QED
    BY <2>1, <2>2
<1> QED
  BY <1>1, <1>2 DEF WritersInv, Fresh

\* One step of a send: what the other threads rely on stays.
LEMMA WritersSending ==
  ASSUME TypeOK, WritersInv, NEW t \in Threads, Sending(t)
  PROVE  WritersInv'
<1> USE DEF Sending, TakeWriteLock, WriteJson, WriteHead, WriteEvent, StreamWriteFails, Hangup,
       Unregister, WriteUnchanged
<1>1. op[t] \in Writing /\ tgt[t] \in Conns
  BY DEF Step, TypeOK, CallsType, Writing
<1>2. UNCHANGED <<tgt, pc, streaming>> /\ \A u \in Threads : u # t => op'[u] = op[u]
  BY DEF Step, flags, TypeOK, CallsType
<1>3. stream_connection' \in {stream_connection, None}
  BY DEF impl
<1>4. \A c \in Conns : c # tgt[t] => closed'[c] = closed[c] /\ response_started'[c] = response_started[c]
  BY DEF flags, TypeOK, ConnsType
<1>5. response_started[tgt[t]] => response_started'[tgt[t]]
  BY <1>1 DEF flags, TypeOK, ConnsType
<1>6. /\ op'[t] = "json" => ~streaming[tgt[t]] /\ ~closed'[tgt[t]]
      /\ op'[t] \in {"head", "event", "drop", "unregister"} => streaming[tgt[t]]
      /\ op'[t] = "event" => response_started'[tgt[t]]
  BY <1>1 DEF Step, TypeOK, CallsType, ConnsType, WritersInv
<1>7. ASSUME NEW u \in Threads, op'[u] \in Writing
      PROVE  /\ ~Fresh(tgt[u])'
             /\ ~streaming'[tgt'[u]] => u = tgt'[u] /\ pc'[u] = "handler"
             /\ op'[u] = "json" => ~streaming'[tgt'[u]] /\ ~closed'[tgt'[u]]
             /\ op'[u] \in {"head", "event", "drop", "unregister"} => streaming'[tgt'[u]]
             /\ op'[u] = "event" => response_started'[tgt'[u]]
  <2>1. CASE u = t
    BY <1>1, <1>2, <1>6, <2>1 DEF WritersInv, Fresh
  <2>2. CASE u # t
    <3>1. op[u] \in Writing /\ tgt[u] \in Conns
      BY <1>2, <1>7, <2>2 DEF TypeOK, CallsType
    <3>2. op[u] = "json" => tgt[u] # tgt[t]
      BY <1>1, <2>2, <3>1 DEF WritersInv
    <3>3. op[u] = "event" => response_started'[tgt[u]]
      BY <1>4, <1>5, <3>1 DEF WritersInv
    <3> QED
      BY <1>2, <1>4, <2>2, <3>1, <3>2, <3>3 DEF WritersInv, Fresh
  <2> QED
    BY <2>1, <2>2
<1>8. stream_connection' # None => streaming'[stream_connection'] /\ ~Fresh(stream_connection)'
  BY <1>2, <1>3 DEF WritersInv, Fresh
<1>9. \A c \in Conns : Fresh(c)' => ~response_started'[c]
  <2>1. ~Fresh(tgt[t])
    BY <1>1 DEF WritersInv
  <2> QED
    BY <1>2, <1>4, <2>1 DEF WritersInv, Fresh
<1>10. \A c \in Conns : pc'[c] \in {"register", "headers"} => streaming'[c]
  BY <1>2 DEF WritersInv
<1> QED
  BY <1>7, <1>8, <1>9, <1>10 DEF WritersInv

LEMMA WritersClose ==
  ASSUME TypeOK, WritersInv, NEW t \in Threads, Close(t) \/ Closing(t)
  PROVE  WritersInv'
<1> USE DEF Close, Closing, CloseListen, CloseStream, Join, Notify, CloseUnchanged
<1>1. UNCHANGED <<tgt, pc, streaming, closed, response_started>>
  BY DEF flags
<1>2. stream_connection' \in {stream_connection, None}
  BY DEF impl
<1>3. \A u \in Threads : op'[u] \in Writing => op'[u] = op[u]
  BY DEF Step, Writing, TypeOK, CallsType
<1> QED
  BY <1>1, <1>2, <1>3 DEF WritersInv, Fresh

LEMMA WritersHandle ==
  ASSUME TypeOK, WritersInv, NEW c \in Conns,
         \/ \E e \in Epochs : AcceptClient(e, c)
         \/ ReadFails(c) \/ Vanish(c) \/ Lookup(c) \/ WriteError(c)
         \/ HandlerReturn(c) \/ Headers(c) \/ CloseClient(c)
  PROVE  WritersInv'
<1> USE DEF AcceptClient, ReadFails, Vanish, Lookup, WriteError, HandlerReturn, Headers, CloseClient
<1>1. UNCHANGED <<stream_connection, op, tgt, streaming, closed>>
  BY DEF impl, calls, flags
<1>2. \A d \in Conns : d # c => pc'[d] = pc[d] /\ response_started'[d] = response_started[d]
  BY DEF Goto, flags, TypeOK, ConnsType
<1>3. /\ response_started[c] => response_started'[c]
      /\ response_started'[c] /\ ~response_started[c] => ~Fresh(c)'
  BY DEF Goto, flags, Fresh, TypeOK, ConnsType
<1>4. /\ Fresh(c)' => Fresh(c)
      /\ pc'[c] # pc[c] /\ pc[c] = "handler" => op[c] = "idle"
      /\ pc'[c] = "headers" => pc[c] = "headers" \/ streaming[c]
      /\ pc'[c] = "register" => pc[c] = "register"
  BY DEF Goto, Fresh, TypeOK, ConnsType
<1>5. \A d \in Conns : pc'[d] \in {"register", "headers"} => streaming[d]
  BY <1>2, <1>4 DEF WritersInv
<1> QED
  BY <1>1, <1>2, <1>3, <1>4, <1>5, WritersQuiet DEF Fresh

LEMMA WritersRegister ==
  ASSUME TypeOK, WritersInv, NEW c \in Conns, Register(c)
  PROVE  WritersInv'
<1>1. /\ UNCHANGED <<op, tgt, streaming, closed, response_started>>
      /\ stream_connection' = c /\ pc[c] = "register" /\ pc' = [pc EXCEPT ![c] = "lookup"]
  BY DEF Register, Goto, calls, flags
<1>2. streaming[c] /\ \A d \in Conns : Fresh(d)' <=> Fresh(d)
  BY <1>1 DEF WritersInv, Fresh, TypeOK, ConnsType
<1>3. \A t \in Threads : op[t] \in Writing => tgt[t] \in Conns /\ (pc[t] = "handler" => pc'[t] = pc[t])
  BY <1>1 DEF TypeOK, CallsType, ConnsType
<1>4. ASSUME NEW t \in Threads, op'[t] \in Writing
      PROVE  /\ ~Fresh(tgt[t])'
             /\ ~streaming'[tgt'[t]] => t = tgt'[t] /\ pc'[t] = "handler"
             /\ op'[t] = "json" => ~streaming'[tgt'[t]] /\ ~closed'[tgt'[t]]
             /\ op'[t] \in {"head", "event", "drop", "unregister"} => streaming'[tgt'[t]]
             /\ op'[t] = "event" => response_started'[tgt'[t]]
  BY <1>1, <1>2, <1>3, <1>4 DEF WritersInv
<1>5. streaming'[stream_connection'] /\ ~Fresh(stream_connection)'
  BY <1>1, <1>2 DEF Fresh, TypeOK, ConnsType
<1>6. \A d \in Conns : pc'[d] \in {"register", "headers"} => streaming'[d]
  BY <1>1 DEF WritersInv, TypeOK, ConnsType
<1> QED
  BY <1>1, <1>2, <1>4, <1>5, <1>6 DEF WritersInv

LEMMA WritersNext == TypeOK /\ WritersInv /\ [Next]_vars => WritersInv'
<1> SUFFICES ASSUME TypeOK, WritersInv, [Next]_vars PROVE WritersInv'
  OBVIOUS
<1>1. CASE \/ UNCHANGED vars \/ SetMessageHandler \/ \E a \in Apps : Listen(a)
           \/ \E e \in Epochs : AcceptLoop(e) \/ AcceptFail(e)
           \/ \E t \in Threads : Block(t)
  <2>1. UNCHANGED <<stream_connection, op, tgt, streaming, closed, response_started, pc>>
    BY <1>1 DEF vars, SetMessageHandler, Block, Listen, AcceptLoop, AcceptCheck, AcceptEnter, AcceptFail,
       AcceptFailed, AcceptErrorHandled, AcceptUnchanged, impl, calls, flags
  <2> QED
    BY <2>1 DEF WritersInv, Fresh
<1>2. ASSUME NEW a \in Apps, AppSend(a) PROVE WritersInv'
  <2>1. a \in Threads /\ stream_connection \in Conns /\ SendTo(a, stream_connection)
    BY <1>2 DEF AppSend, Threads, TypeOK, ImplType
  <2>2. ~Fresh(stream_connection) /\ streaming[stream_connection]
    BY <1>2 DEF AppSend, WritersInv
  <2> QED
    BY <2>1, <2>2, WritersSendTo
<1>3. ASSUME NEW c \in Conns, HandlerSend(c) PROVE WritersInv'
  BY <1>3, WritersSendTo DEF HandlerSend, Threads, Fresh
<1> QED
  BY <1>1, <1>2, <1>3, WritersReadRequest, WritersHandle, WritersRegister, WritersSending,
     WritersClose DEF Next, Client, Handle

-----------------------------------------------------------------------------
(* StuckInv is kept by every step. *)

\* A thread that is blocked stays where it is; whoever writes and is not
\* blocked any more starts afresh.
Patient ==
  \A t \in Threads :
    \/ stuck'[t] = None
    \/ stuck'[t] = stuck[t] /\ op'[t] = op[t] /\ tgt'[t] = tgt[t]
       /\ (t \in Conns => pc'[t] = pc[t])

LEMMA StuckPatient ==
  ASSUME TypeOK, WritersInv, StuckInv, Patient, HandlersBusy',
         \A c \in Conns : Reaches(c)' => Reaches(c) \/ Fresh(c)
  PROVE  StuckInv'
<1>1. ASSUME NEW t \in Threads, stuck'[t] # None, NEW c \in Conns
      PROVE  stuck[t] # None /\ stuck'[t] = stuck[t] /\ (WritesFor(t, c)' <=> WritesFor(t, c))
  BY <1>1 DEF Patient, WritesFor
<1>2. ASSUME NEW t \in Threads, NEW c \in Conns, WritesFor(t, c) PROVE ~Fresh(c)
  BY <1>2 DEF WritesFor, WritersInv, Writing, Fresh
<1>3. StuckWrites'
  <2> SUFFICES ASSUME NEW t \in Threads, stuck'[t] # None
               PROVE  \E c \in Conns : WritesFor(t, c)'
    BY DEF StuckWrites
  <2>1. stuck[t] # None
    BY DEF Patient
  <2>2. PICK c \in Conns : WritesFor(t, c)
    BY <2>1 DEF StuckInv, StuckWrites
  <2> QED
    BY <1>1, <2>2
<1>4. StuckElsewhere'
  BY <1>1, <1>2 DEF StuckInv, StuckElsewhere
<1> QED
  BY <1>3, <1>4 DEF StuckInv

\* Only the client it was writing to can have been in the way.
LEMMA StuckBlock ==
  ASSUME TypeOK, StuckInv, NEW t \in Threads, Block(t)
  PROVE  StuckInv'
<1>1. PICK c \in Conns : /\ WritesFor(t, c) /\ MayWrite(t, c)
                          /\ stuck' = [stuck EXCEPT ![t] = files[client_fd[c]]]
  BY DEF Block
<1>2. UNCHANGED <<op, tgt, pc, files, gone, client_fd>>
  BY DEF Block, calls
<1>3. \A u \in Threads, d \in Conns : WritesFor(u, d)' <=> WritesFor(u, d)
  BY <1>2 DEF WritesFor
<1>4. \A d \in Conns : Reaches(d)' <=> Reaches(d)
  BY <1>2 DEF Reaches
<1>5. \A d \in Conns : WritesFor(t, d) => d = c
  BY <1>1 DEF WritesFor, StuckInv, HandlersBusy
<1>6. stuck'[t] = files[client_fd[c]] /\ \A u \in Threads : u # t => stuck'[u] = stuck[u]
  BY <1>1 DEF TypeOK, KernelType
<1>7. HandlersBusy'
  BY <1>2 DEF StuckInv, HandlersBusy
<1>8. StuckWrites'
  BY <1>1, <1>3, <1>6 DEF StuckInv, StuckWrites
<1>9. StuckElsewhere'
  <2> SUFFICES ASSUME NEW u \in Threads, NEW d \in Conns,
                      stuck'[u] # None, WritesFor(u, d), Reaches(d)
               PROVE  stuck'[u] = d
    BY <1>3, <1>4 DEF StuckElsewhere
  <2>1. CASE u = t
    BY <1>5, <1>6, <2>1 DEF Reaches
  <2>2. CASE u # t
    BY <1>6, <2>2 DEF StuckInv, StuckElsewhere
  <2> QED
    BY <2>1, <2>2
<1> QED
  BY <1>7, <1>8, <1>9 DEF StuckInv

\* The thread of a connection goes on to its next step.
LEMMA StuckGoto ==
  ASSUME TypeOK, StuckInv, NEW c \in Conns, NEW from, NEW to, Goto(c, from, to),
         UNCHANGED <<op, tgt>>, from = "handler" => op[c] = "idle",
         \/ Unblocked(c)
         \/ from \notin {"refuse", "answer", "headers"} /\ UNCHANGED stuck
  PROVE  Patient /\ HandlersBusy'
<1>1. pc[c] = from /\ \A t \in Conns : t # c => pc'[t] = pc[t]
  BY DEF Goto, TypeOK, ConnsType
<1>2. op[c] = "idle"
  BY <1>1 DEF StuckInv, HandlersBusy
<1>3. HandlersBusy'
  BY <1>1, <1>2 DEF StuckInv, HandlersBusy
<1>4. stuck'[c] = None
  <2>1. CASE Unblocked(c)
    BY <2>1 DEF Unblocked, TypeOK, KernelType, Threads
  <2>2. CASE ~Unblocked(c)
    <3>1. \A d \in Conns : ~WritesFor(c, d)
      BY <1>1, <1>2, <2>2 DEF WritesFor
    <3> QED
      BY <2>2, <3>1 DEF StuckInv, StuckWrites, Threads
  <2> QED
    BY <2>1, <2>2
<1>5. \A t \in Threads : t # c => stuck'[t] = stuck[t]
  BY DEF Unblocked, TypeOK, KernelType
<1> QED
  BY <1>1, <1>3, <1>4, <1>5 DEF Patient

\* A thread goes on in a call of send or close.
LEMMA StuckStep ==
  ASSUME TypeOK, StuckInv, NEW t \in Threads, NEW from, NEW to, Step(t, from, to),
         UNCHANGED pc, \A u \in Threads : u # t => tgt'[u] = tgt[u],
         from = "idle" /\ t \in Conns => pc[t] = "handler",
         \/ Unblocked(t)
         \/ from \notin {"json", "head", "event"} /\ UNCHANGED stuck
  PROVE  Patient /\ HandlersBusy'
<1>1. op[t] = from /\ \A u \in Threads : u # t => op'[u] = op[u]
  BY DEF Step, TypeOK, CallsType
<1>2. t \in Conns => pc[t] = "handler"
  BY <1>1 DEF StuckInv, HandlersBusy
<1>3. HandlersBusy'
  BY <1>1, <1>2 DEF StuckInv, HandlersBusy, Threads
<1>4. stuck'[t] = None
  <2>1. CASE Unblocked(t)
    BY <2>1 DEF Unblocked, TypeOK, KernelType
  <2>2. CASE ~Unblocked(t)
    <3>1. \A d \in Conns : ~WritesFor(t, d)
      BY <1>1, <1>2, <2>2 DEF WritesFor
    <3> QED
      BY <2>2, <3>1 DEF StuckInv, StuckWrites
  <2> QED
    BY <2>1, <2>2
<1>5. \A u \in Threads : u # t => stuck'[u] = stuck[u]
  BY DEF Unblocked, TypeOK, KernelType
<1> QED
  BY <1>1, <1>3, <1>4, <1>5 DEF Patient

LEMMA StuckNext == TypeOK /\ WritersInv /\ StuckInv /\ [Next]_vars => StuckInv'
<1> SUFFICES ASSUME TypeOK, WritersInv, StuckInv, [Next]_vars PROVE StuckInv'
  OBVIOUS
<1> DEFINE Reaching == \A c \in Conns : Reaches(c)' => Reaches(c) \/ Fresh(c)
<1>1. ASSUME NEW t \in Threads, Block(t) PROVE StuckInv'
  BY <1>1, StuckBlock
<1>2. CASE \/ UNCHANGED vars \/ SetMessageHandler \/ \E a \in Apps : Listen(a)
           \/ \E e \in Epochs : AcceptLoop(e) \/ AcceptFail(e)
           \/ \E c \in Conns : Vanish(c)
  <2>1. UNCHANGED <<stuck, op, tgt, pc, client_fd>> /\ gone \subseteq gone'
    BY <1>2 DEF vars, SetMessageHandler, Listen, AcceptLoop, AcceptCheck, AcceptEnter, AcceptFail,
       AcceptFailed, AcceptErrorHandled, AcceptUnchanged, Vanish, kernel, calls
  <2>2. files' = files \/ \E a \in Apps : Listen(a)
    BY <1>2 DEF vars, SetMessageHandler, AcceptLoop, AcceptCheck, AcceptEnter, AcceptFail,
       AcceptFailed, AcceptErrorHandled, AcceptUnchanged, Vanish, kernel
  <2>3. \A f \in Fds : files'[f] = files[f] \/ files'[f] = "listen"
    BY <2>2 DEF Listen, TypeOK, KernelType
  <2>4. Reaching
    BY <2>1, <2>3, NamesDistinct DEF Reaches
  <2>5. Patient /\ HandlersBusy'
    BY <2>1 DEF Patient, StuckInv, HandlersBusy
  <2> QED
    BY <2>4, <2>5, StuckPatient
<1>3. ASSUME NEW c \in Conns, NEW e \in Epochs, AcceptClient(e, c) PROVE StuckInv'
  <2>1. PICK fd \in Fds : /\ files[fd] = "free" /\ files' = [files EXCEPT ![fd] = c]
                          /\ client_fd' = [client_fd EXCEPT ![c] = fd]
    BY <1>3 DEF AcceptClient, LowestFree
  <2>2. /\ pc[c] = "absent" /\ Goto(c, "absent", "reading")
        /\ UNCHANGED <<gone, stuck, op, tgt>>
    BY <1>3 DEF AcceptClient, Goto, calls
  <2>3. Reaching
    BY <2>1, <2>2 DEF Reaches, Fresh, TypeOK, KernelType, ConnsType
  <2>4. Patient /\ HandlersBusy'
    BY <2>2, StuckGoto
  <2> QED
    BY <2>3, <2>4, StuckPatient
<1>4. ASSUME NEW c \in Conns,
             \/ ReadRequest(c) \/ ReadFails(c) \/ Register(c) \/ Lookup(c) \/ WriteError(c)
             \/ HandlerReturn(c) \/ Headers(c) \/ CloseClient(c)
      PROVE  StuckInv'
  <2> USE DEF ReadRequest, ReadFails, Register, Lookup, WriteError, HandlerReturn, Headers,
              CloseClient
  <2>1. UNCHANGED <<op, tgt, gone, client_fd>>
    BY <1>4 DEF kernel, calls
  <2>2. files' = files \/ CloseSocket(client_fd[c])
    BY <1>4 DEF kernel
  <2>3. Reaching
    BY <2>1, <2>2, CloseSocketReaches DEF Reaches
  <2>4. PICK from, to :
          /\ Goto(c, from, to) /\ (from = "handler" => op[c] = "idle" \/ Lookup(c))
          /\ \/ Unblocked(c)
             \/ from \notin {"refuse", "answer", "headers"} /\ UNCHANGED stuck
    BY <1>4 DEF Deliver, kernel
  <2>5. from = "handler" => op[c] = "idle"
    BY <2>4 DEF Goto
  <2>6. Patient /\ HandlersBusy'
    BY <2>1, <2>4, <2>5, StuckGoto
  <2> QED
    BY <2>3, <2>6, StuckPatient
<1>5. ASSUME NEW t \in Threads,
             \/ \E c \in Conns : SendTo(t, c) /\ (t \in Conns => pc[t] = "handler")
             \/ Sending(t) \/ Close(t) \/ Closing(t)
      PROVE  StuckInv'
  <2> USE DEF SendTo, Sending, TakeWriteLock, WriteJson, WriteHead, WriteEvent, StreamWriteFails,
              Hangup, Unregister, WriteUnchanged, Close, Closing, CloseListen, CloseStream, Join,
              Notify, CloseUnchanged
  <2>1. UNCHANGED <<pc, gone, client_fd>> /\ \A u \in Threads : u # t => tgt'[u] = tgt[u]
    BY <1>5 DEF kernel, TypeOK, CallsType
  <2>2. files' = files \/ \E fd : CloseSocket(fd)
    BY <1>5 DEF kernel
  <2>3. Reaching
    BY <2>1, <2>2, CloseSocketReaches DEF Reaches
  <2>4. PICK from, to :
          /\ Step(t, from, to) /\ (from = "idle" /\ t \in Conns => pc[t] = "handler")
          /\ \/ Unblocked(t)
             \/ from \notin {"json", "head", "event"} /\ UNCHANGED stuck
    <3>1. CASE \/ \E c \in Conns : SendTo(t, c) /\ (t \in Conns => pc[t] = "handler")
               \/ Close(t)
      BY <3>1 DEF kernel
    <3>2. CASE WriteJson(t) \/ WriteHead(t) \/ WriteEvent(t) \/ StreamWriteFails(t)
      BY <3>2 DEF Deliver
    <3>3. CASE TakeWriteLock(t) \/ Hangup(t) \/ Unregister(t)
      <4>1. stuck' = stuck
        BY <3>3 DEF kernel
      <4> QED
        BY <3>3, <4>1
    <3>4. CASE Closing(t)
      <4>1. stuck' = stuck
        BY <3>4
      <4> QED
        BY <3>4, <4>1
    <3> QED
      BY <1>5, <3>1, <3>2, <3>3, <3>4
  <2>5. Patient /\ HandlersBusy'
    BY <2>1, <2>4, StuckStep
  <2> QED
    BY <2>3, <2>5, StuckPatient
<1>6. ASSUME NEW a \in Apps, AppSend(a) PROVE StuckInv'
  <2>1. a \in Threads /\ a \notin Conns /\ stream_connection \in Conns
    BY <1>6, ConstantsAssumption DEF ConstantsAssumption, AppSend, Threads, TypeOK, ImplType
  <2> QED
    BY <1>5, <1>6, <2>1 DEF AppSend
<1>7. ASSUME NEW c \in Conns, HandlerSend(c) PROVE StuckInv'
  BY <1>5, <1>7 DEF HandlerSend, Threads
<1> QED
  BY <1>1, <1>2, <1>3, <1>4, <1>5, <1>6, <1>7 DEF Next, Client, Handle

-----------------------------------------------------------------------------
(* AnswersInv is kept by every step. *)

LEMMA AnswersQuiet ==
  ASSUME TypeOK, AnswersInv, UNCHANGED <<rcvd, streaming>>,
         \A c \in Conns : Fresh(c)' => Fresh(c),
         \A c \in Conns : ~streaming[c] /\ Unanswered(c)' => Unanswered(c)
  PROVE  AnswersInv'
  BY DEF AnswersInv, Silent, Once

LEMMA AnswersDeliver ==
  ASSUME TypeOK, AnswersInv, NEW t, NEW c \in Conns, NEW what \in Bytes, Deliver(t, c, what),
         streaming' = streaming, ~Fresh(c)',
         ~streaming[c] => Silent(c) /\ ~Unanswered(c)',
         \A d \in Conns : Fresh(d)' => Fresh(d),
         \A d \in Conns : d # c /\ Unanswered(d)' => Unanswered(d)
  PROVE  AnswersInv'
<1>1. ASSUME NEW d \in Conns, d # c
      PROVE  /\ Fresh(d)' => Silent(d)'
             /\ ~streaming'[d] => Once(d)' /\ (Unanswered(d)' => Silent(d)')
  BY <1>1, DeliverAnswers DEF AnswersInv
<1>2. ~streaming'[c] => Once(c)' /\ ~Unanswered(c)'
  BY DeliverAnswers
<1> QED
  BY <1>1, <1>2 DEF AnswersInv

LEMMA AnswersReadRequest ==
  ASSUME TypeOK, AnswersInv, NEW c \in Conns, ReadRequest(c)
  PROVE  AnswersInv'
<1>1. /\ UNCHANGED <<rcvd, closed>> /\ Fresh(c) /\ ~Fresh(c)'
      /\ \A d \in Conns : d # c => pc'[d] = pc[d] /\ streaming'[d] = streaming[d]
  <2>1. \A kind \in Kinds : kind \in {"reject", "json", "stream"}
    BY ConstantsAssumption DEF ConstantsAssumption
  <2> QED
    BY <2>1 DEF ReadRequest, Goto, Fresh, TypeOK, ConnsType, kernel
<1>2. Silent(c) /\ (Silent(c) => Once(c))
  BY <1>1 DEF AnswersInv, Silent, Once
<1>3. \A d \in Conns : (Silent(d)' <=> Silent(d)) /\ (Once(d)' <=> Once(d))
  BY <1>1 DEF Silent, Once
<1>4. \A d \in Conns : d # c => (Unanswered(d)' <=> Unanswered(d)) /\ (Fresh(d)' <=> Fresh(d))
  BY <1>1 DEF Unanswered, Fresh
<1> QED
  BY <1>1, <1>2, <1>3, <1>4 DEF AnswersInv

LEMMA AnswersHandle ==
  ASSUME TypeOK, WritersInv, AnswersInv, NEW c \in Conns,
         \/ ReadFails(c) \/ Vanish(c) \/ Register(c) \/ Lookup(c) \/ HandlerReturn(c)
         \/ CloseClient(c) \/ \E e \in Epochs : AcceptClient(e, c)
  PROVE  AnswersInv'
<1> USE DEF ReadFails, Vanish, Register, Lookup, HandlerReturn, CloseClient, AcceptClient
<1>1. UNCHANGED <<rcvd, streaming, closed>>
  BY DEF kernel, flags
<1>2. \A d \in Conns : d # c => pc'[d] = pc[d]
  BY DEF Goto, TypeOK, ConnsType
<1>3. Fresh(c)' => Fresh(c)
  BY DEF Goto, Fresh, TypeOK, ConnsType
<1>4. ~streaming[c] /\ Unanswered(c)' => Unanswered(c)
  BY <1>1 DEF Goto, Unanswered, WritersInv, TypeOK, ConnsType
<1> QED
  BY <1>1, <1>2, <1>3, <1>4, AnswersQuiet DEF Fresh, Unanswered

LEMMA AnswersWriteError ==
  ASSUME TypeOK, WritersInv, AnswersInv, NEW c \in Conns, WriteError(c) \/ Headers(c)
  PROVE  AnswersInv'
<1>1. PICK what \in Bytes : Deliver(c, c, what)
  BY DEF WriteError, Headers, Bytes
<1>2. UNCHANGED <<streaming, closed>> /\ \A d \in Conns : d # c => pc'[d] = pc[d]
  BY DEF WriteError, Headers, Goto, flags, TypeOK, ConnsType
<1>3. pc'[c] \in {"close", "done"}
  BY DEF WriteError, Headers, Goto, TypeOK, ConnsType
<1>4. ~streaming[c] => Silent(c)
  BY DEF WriteError, Headers, Goto, WritersInv, AnswersInv, Unanswered
<1>5. ~Fresh(c)' /\ ~Unanswered(c)'
  BY <1>3 DEF Fresh, Unanswered
<1>6. \A d \in Conns : d # c => (Unanswered(d)' => Unanswered(d)) /\ (Fresh(d)' => Fresh(d))
  BY <1>2 DEF Fresh, Unanswered
<1> QED
  BY <1>1, <1>2, <1>4, <1>5, <1>6, AnswersDeliver

LEMMA AnswersSending ==
  ASSUME TypeOK, WritersInv, AnswersInv, NEW t \in Threads, Sending(t)
  PROVE  AnswersInv'
<1>1. op[t] \in Writing /\ tgt[t] \in Conns /\ ~Fresh(tgt[t])
  BY DEF Sending, TakeWriteLock, WriteJson, WriteHead, WriteEvent, StreamWriteFails, Hangup,
         Unregister, Step, TypeOK, CallsType, Writing, WritersInv
<1>2. UNCHANGED <<pc, streaming>>
  BY DEF Sending, TakeWriteLock, WriteJson, WriteHead, WriteEvent, StreamWriteFails, Hangup,
         Unregister, WriteUnchanged, flags
<1>3. \A d \in Conns : /\ d # tgt[t] => closed'[d] = closed[d]
                       /\ closed[d] => closed'[d]
  BY DEF Sending, TakeWriteLock, WriteJson, WriteHead, WriteEvent, StreamWriteFails, Hangup,
         Unregister, flags, TypeOK, ConnsType
<1>4. \A d \in Conns : (Fresh(d)' => Fresh(d)) /\ (Unanswered(d)' => Unanswered(d))
  BY <1>2, <1>3 DEF Fresh, Unanswered
<1>5. CASE WriteJson(t)
  <2>1. /\ op[t] = "json" /\ closed'[tgt[t]]
        /\ Deliver(t, tgt[t], "json")
    BY <1>1, <1>5 DEF WriteJson, Step, TypeOK, ConnsType
  <2>2. Unanswered(tgt[t]) /\ ~streaming[tgt[t]]
    BY <1>1, <2>1 DEF WritersInv, Unanswered
  <2>3. pc[tgt[t]] = "handler"
    BY <1>1, <2>2 DEF WritersInv
  <2>4. tgt' = tgt
    BY <1>5 DEF WriteJson, WriteUnchanged
  <2>5. Silent(tgt[t]) /\ ~Unanswered(tgt[t])' /\ ~Fresh(tgt[t])'
    BY <1>1, <1>2, <2>1, <2>2, <2>3, <2>4 DEF AnswersInv, Unanswered, Fresh
  <2> QED
    BY <1>1, <1>2, <1>4, <2>1, <2>4, <2>5, AnswersDeliver DEF Bytes, Fresh, Unanswered
<1>6. CASE WriteHead(t) \/ WriteEvent(t)
  <2>1. PICK what \in Bytes : Deliver(t, tgt[t], what)
    BY <1>6 DEF WriteHead, WriteEvent, Bytes
  <2>2. streaming[tgt[t]]
    BY <1>1, <1>6 DEF WriteHead, WriteEvent, Step, WritersInv
  <2>3. pc'[tgt[t]] \notin {"absent", "reading"}
    BY <1>1, <1>2 DEF Fresh
  <2> QED
    BY <1>1, <1>2, <1>4, <2>1, <2>2, <2>3, AnswersDeliver DEF Fresh
<1>7. CASE ~WriteJson(t) /\ ~WriteHead(t) /\ ~WriteEvent(t)
  <2>1. rcvd' = rcvd
    BY <1>7 DEF Sending, TakeWriteLock, StreamWriteFails, Hangup, Unregister, kernel
  <2> QED
    BY <1>2, <1>4, <2>1, AnswersQuiet
<1> QED
  BY <1>5, <1>6, <1>7

LEMMA AnswersNext == TypeOK /\ WritersInv /\ AnswersInv /\ [Next]_vars => AnswersInv'
<1> SUFFICES ASSUME TypeOK, WritersInv, AnswersInv, [Next]_vars PROVE AnswersInv'
  OBVIOUS
<1>1. CASE \/ UNCHANGED vars \/ SetMessageHandler
           \/ \E a \in Apps : Listen(a) \/ AppSend(a)
           \/ \E e \in Epochs : AcceptLoop(e) \/ AcceptFail(e)
           \/ \E c \in Conns : HandlerSend(c)
           \/ \E t \in Threads : Close(t) \/ Closing(t) \/ Block(t)
  <2>1. UNCHANGED <<rcvd, streaming, closed, pc>>
    BY <1>1 DEF vars, SetMessageHandler, Block, Listen, AppSend, HandlerSend, SendTo, AcceptLoop,
       AcceptCheck, AcceptEnter, AcceptFail, AcceptFailed, AcceptErrorHandled, AcceptUnchanged,
       Close, Closing, CloseListen, CloseStream, Join, Notify, CloseUnchanged, kernel, flags
  <2> QED
    BY <2>1, AnswersQuiet DEF Fresh, Unanswered
<1> QED
  BY <1>1, AnswersReadRequest, AnswersHandle, AnswersWriteError, AnswersSending
  DEF Next, Client, Handle

-----------------------------------------------------------------------------
(* HeadersInv is kept by every step. *)

LEMMA HeadersQuiet ==
  ASSUME HeadersInv, rcvd' = rcvd,
         \A c \in Conns : response_started'[c] /\ Reaches(c)' =>
                         response_started[c] /\ Reaches(c)
  PROVE  HeadersInv'
  BY DEF HeadersInv, EventsFollowHeaders, Headed

LEMMA HeadersDeliver ==
  ASSUME TypeOK, StuckInv, HeadersInv, NEW t \in Threads, NEW c \in Conns, WritesFor(t, c),
         NEW what \in Bytes, Deliver(t, c, what), UNCHANGED <<gone, client_fd, files>>,
         what = "event" => response_started[c],
         \A d \in Conns : response_started'[d] =>
                           response_started[d] \/ (d = c /\ what = "head")
  PROVE  HeadersInv'
<1>1. what = "event" /\ Reaches(c) => Headed(c)
  BY DEF HeadersInv
<1>2. /\ EventsFollowHeaders'
      /\ \A d \in Conns : Headed(d) => Headed(d)'
      /\ what = "head" /\ Reaches(c) => Headed(c)'
  BY <1>1, DeliverHeaders DEF HeadersInv
<1>3. \A d \in Conns : Reaches(d)' <=> Reaches(d)
  BY DEF Reaches
<1>4. ASSUME NEW d \in Conns, response_started'[d], Reaches(d)' PROVE Headed(d)'
  BY <1>2, <1>3, <1>4 DEF HeadersInv
<1> QED
  BY <1>2, <1>4 DEF HeadersInv

LEMMA HeadersAcceptClient ==
  ASSUME TypeOK, WritersInv, HeadersInv, NEW e \in Epochs, NEW c \in Conns, AcceptClient(e, c)
  PROVE  HeadersInv'
<1>1. PICK fd \in Fds :
        /\ files[fd] = "free" /\ files' = [files EXCEPT ![fd] = c]
        /\ client_fd' = [client_fd EXCEPT ![c] = fd]
  BY DEF AcceptClient, LowestFree
<1>2. UNCHANGED <<rcvd, gone, response_started>> /\ ~response_started[c]
  BY DEF AcceptClient, flags, WritersInv, Fresh
<1>3. ASSUME NEW d \in Conns, d # c, Reaches(d)' PROVE Reaches(d)
  BY <1>1, <1>2, <1>3 DEF Reaches, TypeOK, KernelType, ConnsType
<1> QED
  BY <1>2, <1>3, HeadersQuiet

LEMMA HeadersListen ==
  ASSUME TypeOK, HeadersInv, NEW a \in Apps, Listen(a)
  PROVE  HeadersInv'
<1>1. PICK fd \in Fds : files' = [files EXCEPT ![fd] = "listen"]
  BY DEF Listen
<1>2. UNCHANGED <<rcvd, gone, client_fd, response_started>>
  BY DEF Listen, flags
<1>3. ASSUME NEW d \in Conns, Reaches(d)' PROVE Reaches(d)
  BY <1>1, <1>2, <1>3, NamesDistinct DEF Reaches, TypeOK, KernelType
<1> QED
  BY <1>2, <1>3, HeadersQuiet

LEMMA HeadersSending ==
  ASSUME TypeOK, StuckInv, WritersInv, HeadersInv, NEW t \in Threads, Sending(t)
  PROVE  HeadersInv'
<1>1. op[t] \in Writing /\ tgt[t] \in Conns
  BY DEF Sending, TakeWriteLock, WriteJson, WriteHead, WriteEvent, StreamWriteFails, Hangup,
         Unregister, Step, TypeOK, CallsType, Writing
<1>2. UNCHANGED <<gone, client_fd>>
  BY DEF Sending, TakeWriteLock, WriteJson, WriteHead, WriteEvent, StreamWriteFails, Hangup,
         Unregister, WriteUnchanged, kernel
<1>3. CASE WriteJson(t)
  <2>1. /\ Deliver(t, tgt[t], "json") /\ WritesFor(t, tgt[t])
        /\ UNCHANGED <<files, response_started>>
    BY <1>3 DEF WriteJson, Step, WritesFor
  <2> QED
    BY <1>1, <1>2, <2>1, HeadersDeliver DEF Bytes
<1>4. CASE WriteEvent(t)
  <2>1. /\ Deliver(t, tgt[t], "event") /\ WritesFor(t, tgt[t])
        /\ UNCHANGED <<files, response_started>>
    BY <1>4 DEF WriteEvent, Step, WritesFor
  <2>2. response_started[tgt[t]]
    BY <1>1, <1>4 DEF WriteEvent, Step, WritersInv
  <2> QED
    BY <1>1, <1>2, <2>1, <2>2, HeadersDeliver DEF Bytes
<1>5. CASE WriteHead(t)
  <2>1. Deliver(t, tgt[t], "head") /\ WritesFor(t, tgt[t]) /\ UNCHANGED files
    BY <1>5 DEF WriteHead, Step, WritesFor
  <2>2. \A d \in Conns : response_started'[d] => response_started[d] \/ d = tgt[t]
    BY <1>5 DEF WriteHead, TypeOK, ConnsType
  <2> QED
    BY <1>1, <1>2, <2>1, <2>2, HeadersDeliver DEF Bytes
<1>6. CASE Hangup(t)
  <2>1. CloseSocket(client_fd[tgt[t]]) /\ UNCHANGED <<rcvd, response_started>>
    BY <1>6 DEF Hangup
  <2> QED
    BY <1>2, <2>1, CloseSocketReaches, HeadersQuiet
<1>7. CASE TakeWriteLock(t) \/ StreamWriteFails(t) \/ Unregister(t)
  <2>1. UNCHANGED <<rcvd, response_started, files>>
    BY <1>7 DEF TakeWriteLock, StreamWriteFails, Unregister, kernel, flags
  <2> QED
    BY <1>2, <2>1, HeadersQuiet DEF Reaches
<1> QED
  BY <1>3, <1>4, <1>5, <1>6, <1>7 DEF Sending

LEMMA HeadersHandle ==
  ASSUME TypeOK, StuckInv, HeadersInv, NEW c \in Conns,
         WriteError(c) \/ Headers(c) \/ CloseClient(c)
  PROVE  HeadersInv'
<1> c \in Threads
  BY DEF Threads
<1>1. CASE WriteError(c)
  <2>1. /\ Deliver(c, c, "error") /\ WritesFor(c, c)
        /\ UNCHANGED <<gone, client_fd, files, response_started>>
    BY <1>1 DEF WriteError, Goto, WritesFor, flags
  <2> QED
    BY <2>1, HeadersDeliver DEF Bytes
<1>2. CASE Headers(c)
  <2>1. /\ Deliver(c, c, "head") /\ WritesFor(c, c)
        /\ UNCHANGED <<gone, client_fd, files>>
    BY <1>2 DEF Headers, Goto, WritesFor
  <2>2. \A d \in Conns : response_started'[d] => response_started[d] \/ d = c
    BY <1>2 DEF Headers, TypeOK, ConnsType
  <2> QED
    BY <2>1, <2>2, HeadersDeliver DEF Bytes
<1>3. CASE CloseClient(c)
  <2>1. CloseSocket(client_fd[c]) /\ UNCHANGED <<rcvd, response_started, gone, client_fd>>
    BY <1>3 DEF CloseClient, flags
  <2> QED
    BY <2>1, CloseSocketReaches, HeadersQuiet
<1> QED
  BY <1>1, <1>2, <1>3

LEMMA HeadersClosing ==
  ASSUME TypeOK, HeadersInv, NEW t \in Threads, Closing(t)
  PROVE  HeadersInv'
<1>1. UNCHANGED <<rcvd, response_started, gone, client_fd>>
  BY DEF Closing, CloseListen, CloseStream, Join, Notify, CloseUnchanged, flags
<1>2. files' = files \/ \E fd : CloseSocket(fd)
  BY DEF Closing, CloseListen, CloseStream, Join, Notify
<1>3. \A c \in Conns : Reaches(c)' => Reaches(c)
  BY <1>1, <1>2, CloseSocketReaches DEF Reaches
<1> QED
  BY <1>1, <1>3, HeadersQuiet

LEMMA HeadersNext ==
  TypeOK /\ StuckInv /\ WritersInv /\ HeadersInv /\ [Next]_vars => HeadersInv'
<1> SUFFICES ASSUME TypeOK, StuckInv, WritersInv, HeadersInv, [Next]_vars PROVE HeadersInv'
  OBVIOUS
<1>1. CASE \/ UNCHANGED vars \/ SetMessageHandler \/ \E a \in Apps : AppSend(a)
           \/ \E e \in Epochs : AcceptLoop(e) \/ AcceptFail(e)
           \/ \E c \in Conns : \/ ReadRequest(c) \/ ReadFails(c) \/ Vanish(c) \/ Register(c)
                              \/ Lookup(c) \/ HandlerSend(c) \/ HandlerReturn(c)
           \/ \E t \in Threads : Close(t) \/ Block(t)
  <2>1. /\ UNCHANGED <<rcvd, response_started, client_fd, files>>
        /\ gone \subseteq gone'
    BY <1>1 DEF vars, SetMessageHandler, Block, AppSend, HandlerSend, SendTo, AcceptLoop, AcceptCheck,
       AcceptEnter, AcceptFail, AcceptFailed, AcceptErrorHandled, AcceptUnchanged, ReadRequest,
       ReadFails, Vanish, Register, Lookup, HandlerReturn, Close, kernel, flags
  <2> QED
    BY <2>1, HeadersQuiet DEF Reaches
<1> QED
  BY <1>1, HeadersAcceptClient, HeadersListen, HeadersSending, HeadersHandle, HeadersClosing
  DEF Next, Client, Handle

-----------------------------------------------------------------------------
WritesInv == TypeOK /\ WritersInv /\ StuckInv /\ AnswersInv /\ HeadersInv

LEMMA WritesHold == Spec => []WritesInv
<1>1. Init => WritesInv
  BY TypeInit, WritesInit DEF WritesInv
<1>2. WritesInv /\ [Next]_vars => WritesInv'
  BY TypeNext, WritersNext, StuckNext, AnswersNext, HeadersNext DEF WritesInv
<1> QED
  BY <1>1, <1>2, PTL DEF Spec

\* However the handler, its exceptions and failing writes combine, at most one
\* response is written on behalf of a plain request.
THEOREM OneResponsePerRequest == Spec => []OneResponse
<1>1. WritesInv => OneResponse
  BY DEF WritesInv, AnswersInv, OneResponse, Once
<1> QED
  BY <1>1, WritesHold, PTL

\* However senders, the handler thread, close and reused descriptors interleave,
\* no client sees an event of its stream before the stream's headers.
THEOREM HeadersComeFirst == Spec => []EventsFollowHeaders
<1>1. WritesInv => EventsFollowHeaders
  BY DEF WritesInv, HeadersInv
<1> QED
  BY <1>1, WritesHold, PTL
=============================================================================
