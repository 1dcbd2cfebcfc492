-------------------------- MODULE StdioSessionProofs --------------------------
(***************************************************************************)
(* Proofs about StdioSession, for any number of messages sent by each side *)
(* and pipes of any capacity.                                              *)
(***************************************************************************)
EXTENDS StdioSession, FiniteSetTheorems, TLAPS

Both(p) == {Main(p), Reader(p)}
Server == Reader("server")
One(holds) == IF holds THEN 1 ELSE 0

\* Has a message to write.
Sending(t) == todo[t] = "send" \/ op[t] = "write"

(***************************************************************************)
(* The reader holds at most one line that was not handled, and its thread  *)
(* is in the facade only while the handler runs.                           *)
(***************************************************************************)
ReaderInv ==
  /\ \A p \in Roles :
       /\ reader[p] \in {"none", "reading", "handler"} => arrived[p] = handled[p]
       /\ reader[p] \in {"check", "lookup"} => arrived[p] = handled[p] + 1
       /\ reader[p] # "handler" => Idle(Reader(p))
       /\ reader[p] # "none" \/ op[Main(p)] = "spawn" => ever_started[p]
       /\ op[Main(p)] = "spawn" => reader[p] = "none"
       /\ op[Reader(p)] # "spawn"
       /\ ever_started[p] /\ ~active[p] => close_notified[p]
  /\ \A t \in Threads : op[t] # "idle" => todo[t] # "send"

(***************************************************************************)
(* What ends the server by an exception: its user code threw it, or its    *)
(* transport was closed, or its output failed, which happens only after    *)
(* the client has gone.                                                    *)
(***************************************************************************)
FailureInv ==
  /\ \A p \in Roles : output_bad[p] => ~Alive(Peer(p))
  /\ \A t \in Threads : op[t] = "erring" => output_bad[t[1]]
  /\ ServerSurvives

(***************************************************************************)
(* Until the initialize request is on the pipe nothing else can be sent,   *)
(* as the client is not up: a failed write leaves connect by an exception. *)
(***************************************************************************)
\* Nothing is on the client's pipe yet, and all that is about to be is the
\* initialize request.
Unopened ==
  /\ pipe["client"] = <<>>
  /\ state["client"] # "up"
  /\ \A t \in Both("client") : Sending(t) => out[t].what = "initialize"
  /\ todo[Main("client")] = "up" =>
       \/ op[Main("client")] = "write"
       \/ op[Main("client")] \in {"check", "erring"} /\ output_bad["client"]

InitializeInv ==
  Unopened \/ (pipe["client"] # <<>> /\ pipe["client"][1].what = "initialize")

(***************************************************************************)
(* While the server can write, every request it has handled is answered,   *)
(* but for the one that its reader is at.                                  *)
(***************************************************************************)
ReplyInv ==
  /\ RepliesInOrder
  /\ Sending(Server) =>
       /\ handled["server"] > 0
       /\ pipe["client"][handled["server"]].what \in Requests
       /\ out[Server] = [what |-> "response", id |-> pipe["client"][handled["server"]].id]
  /\ Sending(Main("server")) => out[Main("server")].what = "notification"
  /\ output_bad["server"] \/ terminated["server"] \/
       CountOf(pipe["client"], Requests, handled["server"]) =
         CountOf(pipe["server"], {"response"}, Len(pipe["server"])) + One(Sending(Server))

(***************************************************************************)
(* No thread sends more than its bound, and the server replies to no more  *)
(* than it has handled.                                                    *)
(***************************************************************************)
Limit(t) ==
  CASE t = Main("client") -> ClientSends
    [] t = Reader("client") -> CallbackSends
    [] t = Main("server") -> ServerSends
    [] t = Server -> handled["server"]

BoundInv ==
  /\ \A t \in Threads : sends[t] + One(todo[t] = "send") <= Limit(t)
  /\ todo[Main("client")] \in {"start", "initialize"} => sends[Main("client")] < ClientSends
  /\ \A p \in Roles :
       Len(pipe[p]) + One(op[Main(p)] = "write") + One(op[Reader(p)] = "write")
         <= sends[Main(p)] + sends[Reader(p)]
-----------------------------------------------------------------------------
LEMMA BoundsType ==
  /\ ClientSends \in Nat /\ CallbackSends \in Nat /\ ServerSends \in Nat /\ AllSends \in Nat
  /\ Capacity \in Nat
  BY ConstantsAssumption DEF ConstantsAssumption, AllSends

LEMMA ThreadFacts ==
  /\ \A p \in Roles :
       /\ Main(p) \in Threads /\ Reader(p) \in Threads /\ Main(p)[1] = p /\ Reader(p)[1] = p
       /\ \A q \in Roles :
            /\ Main(p) # Reader(q)
            /\ p # q => Main(p) # Main(q) /\ Reader(p) # Reader(q)
       /\ Peer(p) \in Roles /\ Peer(p) # p /\ Peer(Peer(p)) = p
       /\ \A q \in Roles : q = p \/ q = Peer(p)
  /\ \A t \in Threads : t[1] \in Roles /\ (t = Main(t[1]) \/ t = Reader(t[1]))
  /\ "client" \in Roles /\ "server" \in Roles
  /\ Peer("client") = "server" /\ Peer("server") = "client"
  BY DEF Threads, Main, Reader, Roles, Peer

(***************************************************************************)
(* Type correctness.                                                       *)
(***************************************************************************)

LEMMA Types ==
  ASSUME TypeOK
  PROVE  /\ active \in [Roles -> BOOLEAN] /\ ever_started \in [Roles -> BOOLEAN]
         /\ close_notified \in [Roles -> BOOLEAN] /\ output_bad \in [Roles -> BOOLEAN]
         /\ terminated \in [Roles -> BOOLEAN] /\ exited \in [Roles -> BOOLEAN]
         /\ threw \in [Roles -> BOOLEAN]
         /\ arrived \in [Roles -> Nat] /\ handled \in [Roles -> Nat]
         /\ at_close \in [Roles -> Nat]
  BY DEF TypeOK

\* The parts of the type invariant, by the variables that actions change together.
FacadeType ==
  /\ state \in [Roles -> States]
  /\ next_request_id \in Nat
  /\ todo \in [Threads -> {"none", "start", "initialize", "send", "up", "close", "down"}]
  /\ out \in [Threads -> Message]
  /\ sends \in [Threads -> Nat]
TransportType ==
  /\ active \in [Roles -> BOOLEAN] /\ ever_started \in [Roles -> BOOLEAN]
  /\ close_notified \in [Roles -> BOOLEAN] /\ output_bad \in [Roles -> BOOLEAN]
  /\ at_close \in [Roles -> Nat]
  /\ op \in [Threads -> {"idle", "spawn", "write", "check", "erring", "notify"}]
ProcessType ==
  /\ terminated \in [Roles -> BOOLEAN] /\ threw \in [Roles -> BOOLEAN]
  /\ exited \in [Roles -> BOOLEAN]
  /\ pipe \in [Roles -> Seq(Message)]
ReadingType ==
  /\ reader \in [Roles -> {"none", "reading", "check", "lookup", "handler", "done"}]
  /\ arrived \in [Roles -> Nat] /\ handled \in [Roles -> Nat]
  /\ \A p \in Roles : arrived[p] <= Len(pipe[Peer(p)]) /\ handled[p] <= arrived[p]

LEMMA TypeParts == TypeOK <=> FacadeType /\ TransportType /\ ProcessType /\ ReadingType
  BY DEF TypeOK, FacadeType, TransportType, ProcessType, ReadingType

LEMMA TypeInit == Init => TypeOK
<1> SUFFICES ASSUME Init PROVE TypeOK
  OBVIOUS
<1>1. FacadeType
  BY DEF Init, FacadeType, States, Nothing, Message
<1>2. TransportType
  BY DEF Init, TransportType
<1>3. ProcessType
  BY DEF Init, ProcessType
<1>4. ReadingType
  BY ThreadFacts DEF Init, ReadingType
<1> QED
  BY <1>1, <1>2, <1>3, <1>4, TypeParts

LEMMA ReaderInit == Init => ReaderInv
  BY ThreadFacts DEF Init, ReaderInv, Idle
LEMMA MessageType ==
  ASSUME TypeOK, ReaderInv, NEW p \in Roles, reader[p] = "lookup"
  PROVE  /\ arrived[p] \in 1..Len(pipe[Peer(p)])
         /\ pipe[Peer(p)][arrived[p]] \in Message
<1>1. arrived[p] = handled[p] + 1 /\ handled[p] \in Nat
  BY Types DEF ReaderInv
<1>2. arrived[p] <= Len(pipe[Peer(p)])
  BY DEF TypeOK
<1>3. pipe[Peer(p)] \in Seq(Message)
  BY ThreadFacts DEF TypeOK
<1>4. arrived[p] \in 1..Len(pipe[Peer(p)])
  BY <1>1, <1>2, <1>3
<1> QED
  BY <1>3, <1>4

LEMMA Messages ==
  /\ \A what \in Requests \cup {"notification", "response"}, id \in Nat :
       [what |-> what, id |-> id] \in Message
  /\ \A m \in Message : m.what \in Requests \cup {"notification", "response"} /\ m.id \in Nat
  /\ Nothing \in Message
  BY DEF Message, Nothing

LEMMA PushType ==
  ASSUME NEW S, NEW s \in Seq(S), NEW e \in S
  PROVE  /\ Append(s, e) \in Seq(S)
         /\ Len(Append(s, e)) = Len(s) + 1
         /\ Append(s, e)[Len(s) + 1] = e
         /\ \A i \in 1..Len(s) : Append(s, e)[i] = s[i]
  OBVIOUS

\* User code throws only while the handler runs, and nothing is left to send.
LEMMA Throws ==
  ASSUME TypeOK, NEW p \in Roles, HandlerThrows(p)
  PROVE  /\ reader[p] = "handler" /\ reader' = [reader EXCEPT ![p] = "reading"]
         /\ op[Reader(p)] = "idle" /\ todo[Reader(p)] \in {"none", "send"}
         /\ todo' = [todo EXCEPT ![Reader(p)] = "none"]
         /\ out' = [out EXCEPT ![Reader(p)] = Nothing]
         /\ terminated' = [terminated EXCEPT ![p] = TRUE]
         /\ threw' = [threw EXCEPT ![p] = TRUE]
         /\ UNCHANGED <<state, next_request_id, active, ever_started, close_notified,
                        output_bad, at_close, op, sends, pipe, arrived, handled, exited>>
  BY DEF HandlerThrows, InUserCode, Goto, transports

\* Which steps change what is on the pipes and what is read from them.
LEMMA Movers ==
  ASSUME [Next]_vars
  PROVE  /\ pipe' = pipe \/ \E t \in Threads : Write(t)
         /\ arrived' = arrived \/ \E p \in Roles : ReadLine(p)
         /\ handled' = handled \/ \E p \in Roles : CallHandler(p)
         /\ \/ reader' = reader
            \/ \E p \in Roles, to \in {"reading", "check", "lookup", "handler", "done"} :
                 reader' = [reader EXCEPT ![p] = to]
<1>1. CASE UNCHANGED vars
  BY <1>1 DEF vars, reading
<1>2. ASSUME NEW p \in Roles, Calls(p) PROVE UNCHANGED <<pipe, arrived, handled, reader>>
  BY <1>2 DEF Calls, Open, Exit, Notification, Leave, Request, reading
<1>3. ASSUME NEW p \in Roles, Reading(p)
      PROVE  /\ pipe' = pipe
             /\ arrived' = arrived \/ ReadLine(p)
             /\ handled' = handled \/ CallHandler(p)
             /\ \E to \in {"reading", "check", "lookup", "handler", "done"} :
                  reader' = [reader EXCEPT ![p] = to]
  <2>1. pipe' = pipe
    BY <1>3 DEF Reading, ReadLine, ReadEnds, CheckActive, CallHandler, HandlerReturns,
       HandlerThrows, LoopUnchanged
  <2>2. arrived' = arrived \/ ReadLine(p)
    BY <1>3 DEF Reading, ReadEnds, CheckActive, CallHandler, HandlerReturns, HandlerThrows
  <2>3. handled' = handled \/ CallHandler(p)
    BY <1>3 DEF Reading, ReadLine, ReadEnds, CheckActive, HandlerReturns, HandlerThrows
  <2>4. \E to \in {"reading", "check", "lookup", "handler", "done"} :
          reader' = [reader EXCEPT ![p] = to]
    BY <1>3 DEF Reading, ReadLine, ReadEnds, CheckActive, CallHandler, HandlerReturns,
       HandlerThrows, Goto
  <2> QED
    BY <2>1, <2>2, <2>3, <2>4
<1>4. ASSUME NEW p \in Roles, NEW t \in {Main(p), Reader(p)}, Runs(t)
      PROVE  /\ t \in Threads
             /\ pipe' = pipe \/ Write(t)
             /\ arrived' = arrived /\ handled' = handled
             /\ reader' = reader \/ reader' = [reader EXCEPT ![p] = "reading"]
  <2>1. t \in Threads /\ t[1] = p
    BY ThreadFacts
  <2>2. CASE Send(t) \/ Write(t) \/ CheckOutput(t) \/ SendThrows(t)
    BY <2>1, <2>2 DEF Send, Write, CheckOutput, SendThrows, reading
  <2>3. CASE Close(t) \/ Notify(t) \/ Down(t) \/ Initialize
    BY <2>1, <2>3 DEF Close, Notify, Down, Initialize, reading
  <2>4. CASE Start(p) \/ Spawn(p) \/ Up(p)
    BY <2>1, <2>4 DEF Start, Spawn, Up, Goto, reading
  <2> QED
    BY <1>4, <2>1, <2>2, <2>3, <2>4 DEF Runs
<1>5. \/ UNCHANGED vars
      \/ \E p \in Roles : \/ Calls(p) \/ Reading(p)
                         \/ \E t \in {Main(p), Reader(p)} : Runs(t)
  BY DEF Next, Process
<1> QED
  BY <1>1, <1>2, <1>3, <1>4, <1>5

LEMMA FacadeStep ==
  ASSUME TypeOK, ReaderInv, [Next]_vars
  PROVE  FacadeType'
<1> USE ThreadFacts, Messages DEF FacadeType, Resume, Becomes
<1> FacadeType
  BY DEF TypeOK
<1>1. ASSUME NEW p \in Roles, Open(p) \/ Up(p) \/ Exit(p) PROVE FacadeType'
  <2>1. CASE Open(p)
    BY <2>1 DEF Open, States
  <2>2. CASE Up(p)
    BY <2>2 DEF Up, States
  <2>3. CASE Exit(p)
    BY <2>3 DEF Exit
  <2> QED
    BY <1>1, <2>1, <2>2, <2>3
<1>2. ASSUME NEW p \in Roles, Start(p) \/ Spawn(p) PROVE FacadeType'
  <2>1. \/ UNCHANGED todo
        \/ \E to \in {"initialize", "up", "none"} : todo' = [todo EXCEPT ![Main(p)] = to]
    BY <1>2 DEF Start, Spawn
  <2>2. UNCHANGED <<state, next_request_id, out, sends>>
    BY <1>2 DEF Start, Spawn
  <2> QED
    BY <2>1, <2>2
<1>3. ASSUME Initialize PROVE FacadeType'
  <2>1. CASE state["client"] = "down"
    BY <1>3, <2>1 DEF Initialize
  <2>2. CASE state["client"] # "down"
    <3>1. [what |-> "initialize", id |-> next_request_id] \in Message
      BY DEF Requests
    <3>2. out' = [out EXCEPT ![Main("client")] = [what |-> "initialize", id |-> next_request_id]]
      BY <1>3, <2>2 DEF Initialize
    <3>3. out' \in [Threads -> Message]
      BY <3>1, <3>2
    <3>4. /\ todo' = [todo EXCEPT ![Main("client")] = "send"]
          /\ state' = [state EXCEPT !["client"] = "initializing"]
          /\ UNCHANGED <<next_request_id, sends>>
      BY <1>3, <2>2 DEF Initialize
    <3> QED
      BY <3>3, <3>4 DEF States
  <2> QED
    BY <2>1, <2>2
<1>4. ASSUME NEW t \in Threads, Request(t) \/ Notification(t) PROVE FacadeType'
  <2>1. \/ Sends(t, "request", next_request_id)
        \/ Sends(t, "notification", 0)
    BY <1>4 DEF Request, Notification
  <2>2. out' \in [Threads -> Message]
    <3>1. /\ [what |-> "request", id |-> next_request_id] \in Message
          /\ [what |-> "notification", id |-> 0] \in Message
      BY DEF Requests
    <3>2. \E m \in Message : out' = [out EXCEPT ![t] = m]
      BY <2>1, <3>1 DEF Sends
    <3> QED
      BY <3>2
  <2>3. todo' \in [Threads -> {"none", "start", "initialize", "send", "up", "close", "down"}]
    BY <2>1 DEF Sends
  <2> QED
    BY <1>4, <2>2, <2>3 DEF Request, Notification
<1>5. ASSUME NEW t \in Threads, Send(t) PROVE FacadeType'
  <2>1. next_request_id' \in Nat
    BY <1>5 DEF Send, Increment
  <2>2. out' \in [Threads -> Message]
    BY <1>5 DEF Send
  <2>3. sends' \in [Threads -> Nat]
    BY <1>5 DEF Send
  <2>4. todo' \in [Threads -> {"none", "start", "initialize", "send", "up", "close", "down"}]
    BY <1>5 DEF Send
  <2> QED
    BY <1>5, <2>1, <2>2, <2>3, <2>4 DEF Send
<1>6. ASSUME NEW t \in Threads, Write(t) \/ CheckOutput(t) \/ SendThrows(t) PROVE FacadeType'
  <2>1. CASE Write(t)
    BY <2>1 DEF Write
  <2>2. CASE CheckOutput(t)
    BY <2>2 DEF CheckOutput
  <2>3. CASE SendThrows(t)
    BY <2>3 DEF SendThrows, States
  <2> QED
    BY <1>6, <2>1, <2>2, <2>3
<1>7. ASSUME NEW t \in Threads, Leave(t) \/ Close(t) \/ Notify(t) \/ Down(t) PROVE FacadeType'
  BY <1>7 DEF Leave, Close, Notify, Down, States
<1>8. ASSUME NEW p \in Roles, CallHandler(p) PROVE FacadeType'
  <2> DEFINE message == pipe[Peer(p)][arrived[p]]
  <2>1. message \in Message
    BY <1>8, MessageType DEF CallHandler, Goto
  <2>2. \/ Sends(Reader(p), "response", message.id)
        \/ UNCHANGED <<todo, out>>
    BY <1>8 DEF CallHandler
  <2>3. message.id \in Nat
    BY <2>1
  <2> HIDE DEF message
  <2>4. [what |-> "response", id |-> message.id] \in Message
    BY <2>3
  <2>5. out' \in [Threads -> Message]
    BY <2>2, <2>4 DEF Sends
  <2>6. todo' \in [Threads -> {"none", "start", "initialize", "send", "up", "close", "down"}]
    BY <2>2 DEF Sends
  <2> QED
    BY <1>8, <2>5, <2>6 DEF CallHandler, LoopUnchanged
<1>9. ASSUME NEW p \in Roles,
             ReadLine(p) \/ ReadEnds(p) \/ CheckActive(p) \/ HandlerReturns(p)
      PROVE  FacadeType'
  BY <1>9 DEF ReadLine, ReadEnds, CheckActive, HandlerReturns, LoopUnchanged
<1>10. ASSUME UNCHANGED vars PROVE FacadeType'
  BY <1>10 DEF vars
<1>11. ASSUME NEW p \in Roles, HandlerThrows(p) PROVE FacadeType'
  <2>1. /\ todo' = [todo EXCEPT ![Reader(p)] = "none"]
        /\ out' = [out EXCEPT ![Reader(p)] = Nothing]
        /\ UNCHANGED <<state, next_request_id, sends>>
    BY <1>11, Throws
  <2> QED
    BY <2>1
<1> HIDE DEF FacadeType, Resume, Becomes
<1> QED
  BY <1>1, <1>2, <1>3, <1>4, <1>5, <1>6, <1>7, <1>8, <1>9, <1>10, <1>11
  DEF Next, Process, Calls, Runs, Reading, Callers

LEMMA TransportStep ==
  ASSUME TypeOK, [Next]_vars
  PROVE  TransportType'
<1> USE ThreadFacts DEF TransportType, Step, transports
<1> TransportType /\ handled \in [Roles -> Nat]
  BY DEF TypeOK
<1>1. ASSUME NEW p \in Roles, Open(p) \/ Up(p) \/ Exit(p) \/ Reading(p) PROVE TransportType'
  BY <1>1 DEF Open, Up, Exit, Reading, ReadLine, ReadEnds, CheckActive, CallHandler,
     HandlerReturns, HandlerThrows, LoopUnchanged
<1>2. ASSUME NEW p \in Roles, Start(p) PROVE TransportType'
  <2>1. CASE active[p] \/ ever_started[p]
    BY <1>2, <2>1 DEF Start
  <2>2. CASE ~(active[p] \/ ever_started[p])
    <3>1. /\ op' = [op EXCEPT ![Main(p)] = "spawn"]
          /\ active' = [active EXCEPT ![p] = TRUE]
          /\ ever_started' = [ever_started EXCEPT ![p] = TRUE]
          /\ close_notified' = [close_notified EXCEPT ![p] = FALSE]
          /\ UNCHANGED <<output_bad, at_close>>
      BY <1>2, <2>2 DEF Start
    <3> QED
      BY <3>1
  <2> QED
    BY <2>1, <2>2
<1>3. ASSUME NEW p \in Roles, Spawn(p) PROVE TransportType'
  BY <1>3 DEF Spawn
<1>4. ASSUME NEW t \in Threads, Request(t) \/ Notification(t) \/ Leave(t) \/ Down(t) \/ Initialize
      PROVE  TransportType'
  BY <1>4 DEF Request, Notification, Leave, Down, Initialize
<1>5. ASSUME NEW t \in Threads, Send(t) PROVE TransportType'
  BY <1>5 DEF Send
<1>6. ASSUME NEW t \in Threads, Write(t) PROVE TransportType'
  BY <1>6 DEF Write
<1>7. ASSUME NEW t \in Threads, CheckOutput(t) \/ SendThrows(t) \/ Notify(t) PROVE TransportType'
  BY <1>7 DEF CheckOutput, SendThrows, Notify
<1>8. ASSUME NEW t \in Threads, Close(t) PROVE TransportType'
  <2>1. CASE close_notified[t[1]]
    BY <1>8, <2>1 DEF Close
  <2>2. CASE ~close_notified[t[1]]
    <3>1. /\ op' = [op EXCEPT ![t] = "notify"]
          /\ active' = [active EXCEPT ![t[1]] = FALSE]
          /\ close_notified' = [close_notified EXCEPT ![t[1]] = TRUE]
          /\ at_close' = [at_close EXCEPT ![t[1]] = handled[t[1]]]
          /\ UNCHANGED <<ever_started, output_bad>>
      BY <1>8, <2>2 DEF Close
    <3> QED
      BY <3>1
  <2> QED
    BY <2>1, <2>2
<1>9. ASSUME UNCHANGED vars PROVE TransportType'
  BY <1>9 DEF vars
<1> HIDE DEF TransportType, Step
<1> QED
  BY <1>1, <1>2, <1>3, <1>4, <1>5, <1>6, <1>7, <1>8, <1>9
  DEF Next, Process, Calls, Runs, Callers

LEMMA ProcessStep ==
  ASSUME TypeOK, [Next]_vars
  PROVE  ProcessType'
<1> USE ThreadFacts DEF ProcessType, processes, Thrown
<1> ProcessType /\ output_bad \in [Roles -> BOOLEAN] /\ out \in [Threads -> Message]
  BY DEF TypeOK
<1>1. ASSUME NEW t \in Threads, Send(t) \/ SendThrows(t) PROVE ProcessType'
  <2>1. UNCHANGED <<exited, threw, pipe>>
    BY <1>1 DEF Send, SendThrows
  <2>2. \/ terminated' = terminated
        \/ terminated' = [terminated EXCEPT !["server"] = TRUE]
    <3>1. CASE Send(t)
      BY <3>1 DEF Send
    <3>2. CASE SendThrows(t)
      BY <3>2 DEF SendThrows
    <3> QED
      BY <1>1, <3>1, <3>2
  <2> QED
    BY <2>1, <2>2
<1>2. ASSUME NEW p \in Roles, Exit(p) PROVE ProcessType'
  BY <1>2 DEF Exit
<1>3. ASSUME NEW t \in Threads, Write(t) PROVE ProcessType'
  <2>1. /\ pipe' = pipe \/ pipe' = [pipe EXCEPT ![t[1]] = Append(pipe[t[1]], out[t])]
        /\ exited' = exited \/ exited' = [exited EXCEPT ![t[1]] = ~output_bad[t[1]]]
        /\ UNCHANGED <<terminated, threw>>
    BY <1>3 DEF Write
  <2>2. t[1] \in Roles /\ Append(pipe[t[1]], out[t]) \in Seq(Message)
    BY PushType
  <2>3. pipe' \in [Roles -> Seq(Message)]
    <3> DEFINE longer == Append(pipe[t[1]], out[t])
               Pipes == Seq(Message)
    <3>1. pipe \in [Roles -> Pipes] /\ longer \in Pipes
      BY <2>2
    <3>2. pipe' = pipe \/ pipe' = [pipe EXCEPT ![t[1]] = longer]
      BY <2>1
    <3> HIDE DEF longer, Pipes
    <3>3. pipe' \in [Roles -> Pipes]
      BY <2>2, <3>1, <3>2
    <3> QED
      BY <3>3 DEF Pipes
  <2>4. exited' \in [Roles -> BOOLEAN]
    BY <2>1
  <2> QED
    BY <2>1, <2>3, <2>4
<1>4. ASSUME NEW p \in Roles, Open(p) \/ Start(p) \/ Spawn(p) \/ Initialize \/ Up(p)
      PROVE  ProcessType'
  BY <1>4 DEF Open, Start, Spawn, Initialize, Up
<1>5. ASSUME NEW t \in Threads,
             \/ Request(t) \/ Notification(t) \/ Leave(t) \/ CheckOutput(t)
             \/ Close(t) \/ Notify(t) \/ Down(t)
      PROVE  ProcessType'
  BY <1>5 DEF Request, Notification, Leave, CheckOutput, Close, Notify, Down
<1>6. ASSUME NEW p \in Roles, Reading(p) PROVE ProcessType'
  <2>1. CASE HandlerThrows(p)
    <3>1. /\ terminated' = [terminated EXCEPT ![p] = TRUE] /\ threw' = [threw EXCEPT ![p] = TRUE]
          /\ UNCHANGED <<exited, pipe>>
      BY <2>1, Throws
    <3> QED
      BY <3>1
  <2> QED
    BY <1>6, <2>1 DEF Reading, ReadLine, ReadEnds, CheckActive, CallHandler, HandlerReturns,
       LoopUnchanged
<1>7. ASSUME UNCHANGED vars PROVE ProcessType'
  BY <1>7 DEF vars
<1> HIDE DEF ProcessType, processes, Thrown
<1> QED
  BY <1>1, <1>2, <1>3, <1>4, <1>5, <1>6, <1>7
  DEF Next, Process, Calls, Runs, Callers

\* The pipes only grow, and a reader's numbers change only when it reads.
LEMMA PipesGrow ==
  ASSUME TypeOK, [Next]_vars, NEW p \in Roles
  PROVE  /\ Len(pipe[p]) <= Len(pipe'[p])
         /\ \A i \in 1..Len(pipe[p]) : pipe'[p][i] = pipe[p][i]
<1> USE ThreadFacts
<1> DEFINE Grown == /\ Len(pipe[p]) <= Len(pipe'[p])
                    /\ \A i \in 1..Len(pipe[p]) : pipe'[p][i] = pipe[p][i]
<1>1. pipe \in [Roles -> Seq(Message)] /\ out \in [Threads -> Message]
  BY DEF TypeOK
<1>2. CASE pipe' = pipe
  BY <1>1, <1>2
<1>3. ASSUME NEW t \in Threads, Write(t) PROVE Grown
  <2>1. CASE pipe' # pipe /\ t[1] = p
    <3>1. pipe'[p] = Append(pipe[p], out[t])
      BY <1>1, <1>3, <2>1 DEF Write
    <3>2. pipe[p] \in Seq(Message) /\ out[t] \in Message
      BY <1>1
    <3> QED
      BY <3>1, <3>2, PushType
  <2>2. CASE pipe' # pipe /\ t[1] # p
    <3>1. pipe'[p] = pipe[p]
      BY <1>1, <1>3, <2>2 DEF Write
    <3> QED
      BY <1>1, <3>1
  <2> QED
    BY <1>2, <2>1, <2>2
<1> QED
  BY <1>2, <1>3, Movers

LEMMA ReadingStep ==
  ASSUME TypeOK, ReaderInv, [Next]_vars
  PROVE  ReadingType'
<1> USE ThreadFacts, Types
<1>1. \A p \in Roles : Len(pipe[p]) \in Nat /\ Len(pipe'[p]) \in Nat
  <2> DEFINE messages == Seq(Message)
  <2>1. pipe \in [Roles -> messages]
    BY DEF TypeOK
  <2>2. pipe' \in [Roles -> messages]
    BY ProcessStep DEF ProcessType
  <2> TAKE p \in Roles
  <2>3. pipe[p] \in messages /\ pipe'[p] \in messages
    <3> HIDE DEF messages
    <3> QED
      BY <2>1, <2>2
  <2> QED
    <3> HIDE ThreadFacts, Types
    <3> QED
      BY <2>3
<1>2. \A p \in Roles : Len(pipe[p]) <= Len(pipe'[p])
  BY PipesGrow
<1>3. \A p \in Roles : arrived[p] <= Len(pipe[Peer(p)]) /\ handled[p] <= arrived[p]
  BY DEF TypeOK
<1>4. reader \in [Roles -> {"none", "reading", "check", "lookup", "handler", "done"}]
  BY DEF TypeOK
<1>5. CASE UNCHANGED <<arrived, handled>>
  <2>1. reader' \in [Roles -> {"none", "reading", "check", "lookup", "handler", "done"}]
    <3>1. \/ reader' = reader
          \/ \E p \in Roles, to \in {"reading", "check", "lookup", "handler", "done"} :
               reader' = [reader EXCEPT ![p] = to]
      BY Movers
    <3> QED
      BY <1>4, <3>1
  <2>2. \A p \in Roles : arrived'[p] <= Len(pipe'[Peer(p)]) /\ handled'[p] <= arrived'[p]
    <3> TAKE p \in Roles
    <3>1. arrived[p] <= Len(pipe[Peer(p)]) /\ Len(pipe[Peer(p)]) <= Len(pipe'[Peer(p)])
      BY <1>2, <1>3
    <3>2. Len(pipe[Peer(p)]) \in Nat /\ Len(pipe'[Peer(p)]) \in Nat /\ arrived[p] \in Nat
      BY <1>1
    <3>3. arrived[p] <= Len(pipe'[Peer(p)])
      <4> HIDE ThreadFacts, Types
      <4> QED
        BY <3>1, <3>2
    <3> QED
      BY <1>3, <1>5, <3>3
  <2> QED
    BY <1>5, <2>1, <2>2 DEF ReadingType
<1>6. ASSUME NEW p \in Roles, ReadLine(p) PROVE ReadingType'
  <2>1. /\ arrived[p] < Len(pipe[Peer(p)])
        /\ arrived' = [arrived EXCEPT ![p] = @ + 1] /\ handled' = handled /\ pipe' = pipe
        /\ reader' = [reader EXCEPT ![p] = "check"]
    BY <1>6 DEF ReadLine, LoopUnchanged, Goto
  <2>2. \A q \in Roles : arrived'[q] <= Len(pipe'[Peer(q)]) /\ handled'[q] <= arrived'[q]
    <3> TAKE q \in Roles
    <3>1. arrived[q] \in Nat /\ handled[q] \in Nat /\ Len(pipe[Peer(q)]) \in Nat
      BY <1>1
    <3>2. CASE q = p
      BY <1>3, <2>1, <3>1, <3>2
    <3>3. CASE q # p
      BY <1>3, <2>1, <3>1, <3>3
    <3> QED
      BY <3>2, <3>3
  <2>3. reader' \in [Roles -> {"none", "reading", "check", "lookup", "handler", "done"}]
    BY <1>4, <2>1
  <2>4. arrived' \in [Roles -> Nat] /\ handled' \in [Roles -> Nat]
    <3>1. arrived \in [Roles -> Nat] /\ handled \in [Roles -> Nat] /\ arrived[p] + 1 \in Nat
      OBVIOUS
    <3> HIDE ThreadFacts
    <3> QED
      BY <2>1, <3>1
  <2> QED
    BY <2>2, <2>3, <2>4 DEF ReadingType
<1>7. ASSUME NEW p \in Roles, CallHandler(p) PROVE ReadingType'
  <2>1. /\ handled' = [handled EXCEPT ![p] = @ + 1] /\ arrived' = arrived /\ pipe' = pipe
        /\ reader[p] = "lookup" /\ reader' = [reader EXCEPT ![p] = "handler"]
    BY <1>7 DEF CallHandler, LoopUnchanged, Goto
  <2>2. arrived[p] = handled[p] + 1
    BY <2>1 DEF ReaderInv
  <2>3. \A q \in Roles : arrived'[q] <= Len(pipe'[Peer(q)]) /\ handled'[q] <= arrived'[q]
    <3> TAKE q \in Roles
    <3>1. arrived[q] \in Nat /\ handled[q] \in Nat
      OBVIOUS
    <3>2. handled'[q] = IF q = p THEN handled[q] + 1 ELSE handled[q]
      BY <2>1
    <3>3. handled'[q] <= arrived[q]
      BY <1>3, <2>2, <3>1, <3>2
    <3> QED
      BY <1>3, <2>1, <3>3
  <2> QED
    BY <1>4, <2>1, <2>3 DEF ReadingType
<1> QED
  BY <1>5, <1>6, <1>7, Movers

LEMMA TypeStep ==
  ASSUME TypeOK, ReaderInv, [Next]_vars
  PROVE  TypeOK'
<1>1. FacadeType' /\ TransportType' /\ ProcessType' /\ ReadingType'
  BY FacadeStep, TransportStep, ProcessStep, ReadingStep
<1> QED
  BY <1>1 DEF TypeOK, FacadeType, TransportType, ProcessType, ReadingType

(***************************************************************************)
(* The invariants, one part after the other.                               *)
(***************************************************************************)

\* A thread in the facade or the transport goes on.
LEMMA ReaderKeeps ==
  ASSUME TypeOK, ReaderInv, NEW t \in Threads,
         UNCHANGED <<ever_started, reader, arrived, handled>>,
         \A p \in Roles : close_notified[p] => close_notified'[p],
         \A p \in Roles : active[p] => active'[p] \/ close_notified'[p],
         \A u \in Threads \ {t} : op'[u] = op[u] /\ todo'[u] = todo[u],
         op'[t] = "spawn" => op[t] = "spawn",
         op'[t] # "idle" => todo'[t] # "send",
         t = Reader(t[1]) /\ Idle(t) /\ ~Idle(t)' => reader[t[1]] = "handler"
  PROVE  ReaderInv'
<1> USE ThreadFacts, Types
<1>1. \A p \in Roles : op'[Main(p)] = "spawn" => op[Main(p)] = "spawn"
  OBVIOUS
<1>2. \A p \in Roles : op'[Reader(p)] = "spawn" => op[Reader(p)] = "spawn"
  OBVIOUS
<1>3. \A p \in Roles : reader[p] # "handler" => Idle(Reader(p))'
  BY DEF ReaderInv, Idle
<1>4. \A u \in Threads : op'[u] # "idle" => todo'[u] # "send"
  BY DEF ReaderInv
<1> QED
  BY <1>1, <1>2, <1>3, <1>4 DEF ReaderInv

LEMMA ReaderStep ==
  ASSUME TypeOK, ReaderInv, [Next]_vars
  PROVE  ReaderInv'
<1> USE ThreadFacts, Types
<1> DEFINE At(p) ==
      /\ reader[p] \in {"none", "reading", "handler"} => arrived[p] = handled[p]
      /\ reader[p] \in {"check", "lookup"} => arrived[p] = handled[p] + 1
      /\ reader[p] # "handler" => Idle(Reader(p))
      /\ reader[p] # "none" \/ op[Main(p)] = "spawn" => ever_started[p]
      /\ op[Main(p)] = "spawn" => reader[p] = "none"
      /\ op[Reader(p)] # "spawn"
      /\ ever_started[p] /\ ~active[p] => close_notified[p]
    Busy(t) == op[t] # "idle" => todo[t] # "send"
<1> op \in [Threads -> {"idle", "spawn", "write", "check", "erring", "notify"}]
  BY DEF TypeOK
<1> todo \in [Threads -> {"none", "start", "initialize", "send", "up", "close", "down"}]
  BY DEF TypeOK
<1> reader \in [Roles -> {"none", "reading", "check", "lookup", "handler", "done"}]
  BY DEF TypeOK
<1>0. /\ \A p \in Roles : At(p)
      /\ \A t \in Threads : Busy(t)
  BY DEF ReaderInv
<1> USE DEF Idle
<1>1. ASSUME NEW p \in Roles, Start(p), ~(active[p] \/ ever_started[p]) PROVE ReaderInv'
  <2>1. /\ op[Main(p)] = "idle" /\ op' = [op EXCEPT ![Main(p)] = "spawn"]
        /\ active' = [active EXCEPT ![p] = TRUE]
        /\ ever_started' = [ever_started EXCEPT ![p] = TRUE]
        /\ close_notified' = [close_notified EXCEPT ![p] = FALSE]
        /\ UNCHANGED <<reader, arrived, handled>>
        /\ \E to \in {"initialize", "up", "none"} : todo' = [todo EXCEPT ![Main(p)] = to]
    BY <1>1 DEF Start, Resume, Step, reading
  <2>2. reader[p] = "none"
    BY <1>0, <1>1
  <2>3. \A q \in Roles : At(q)'
    BY <1>0, <2>1, <2>2
  <2>4. \A t \in Threads : Busy(t)'
    BY <1>0, <2>1
  <2> QED
    BY <2>3, <2>4 DEF ReaderInv
<1>2. ASSUME NEW p \in Roles, Spawn(p) PROVE ReaderInv'
  <2>1. /\ op[Main(p)] = "spawn" /\ op' = [op EXCEPT ![Main(p)] = "idle"]
        /\ UNCHANGED <<active, ever_started, close_notified, arrived, handled>>
        /\ \/ /\ reader[p] = "none" /\ reader' = [reader EXCEPT ![p] = "reading"]
              /\ todo' = todo
           \/ reader' = reader /\ todo' = [todo EXCEPT ![Main(p)] = "none"]
    BY <1>2 DEF Spawn, Step, Goto, transports
  <2>4. todo[Main(p)] # "send"
    BY <1>0, <2>1
  <2>2. \A q \in Roles : At(q)'
    BY <1>0, <2>1
  <2>3. \A t \in Threads : Busy(t)'
    BY <1>0, <2>1, <2>4
  <2> QED
    BY <2>2, <2>3 DEF ReaderInv
<1>3. ASSUME NEW p \in Roles,
             Open(p) \/ Up(p) \/ (p = "client" /\ Initialize)
             \/ (Start(p) /\ (active[p] \/ ever_started[p]))
      PROVE  ReaderInv'
  <2>1. /\ op[Main(p)] = "idle" /\ UNCHANGED <<op, transports, reader, arrived, handled>>
        /\ \E to \in {"none", "start", "initialize", "send", "up"} :
             todo' = [todo EXCEPT ![Main(p)] = to]
    BY <1>3 DEF Open, Up, Initialize, Start, Resume, transports, reading
  <2> QED
    BY <2>1, <1>0, ReaderKeeps DEF transports
<1>4. ASSUME NEW p \in Roles, NEW t \in Callers(p),
             (Request(t) /\ p = "client") \/ Notification(t) \/ Leave(t)
      PROVE  ReaderInv'
  <2>1. t \in Threads /\ (t = Reader(t[1]) => reader[t[1]] = "handler")
    BY <1>4 DEF Callers, Request, Notification, Leave, MayCall, InCallback
  <2>2. /\ op[t] = "idle" /\ UNCHANGED <<op, transports, reader, arrived, handled>>
        /\ \E to \in {"send", "close"} : todo' = [todo EXCEPT ![t] = to]
    BY <1>4 DEF Request, Notification, Leave, Sends, Resume, reading
  <2> QED
    BY <2>1, <2>2, ReaderKeeps DEF transports
<1>5. ASSUME NEW t \in Threads, Send(t) PROVE ReaderInv'
  <2>1. /\ op[t] = "idle" /\ todo[t] = "send"
        /\ UNCHANGED <<transports, reader, arrived, handled>>
        /\ \E to \in {"up", "none"} : todo' = [todo EXCEPT ![t] = to]
        /\ op' = op \/ op' = [op EXCEPT ![t] = "write"]
    BY <1>5 DEF Send, Resume, Step, reading
  <2> QED
    BY <2>1, ReaderKeeps DEF transports
<1>6. ASSUME NEW t \in Threads, Write(t) \/ CheckOutput(t) \/ SendThrows(t) \/ Notify(t)
      PROVE  ReaderInv'
  <2>1. /\ op[t] # "idle"
        /\ UNCHANGED <<active, ever_started, close_notified, reader, arrived, handled>>
        /\ \E to \in {"idle", "check", "erring"} : op' = [op EXCEPT ![t] = to]
        /\ todo' = todo \/ todo' = [todo EXCEPT ![t] = "none"]
    BY <1>6 DEF Write, CheckOutput, SendThrows, Notify, Step, reading, transports
  <2> QED
    BY <1>0, <2>1, ReaderKeeps
<1>7. ASSUME NEW t \in Threads, Close(t) \/ Down(t) PROVE ReaderInv'
  <2>1. /\ op[t] = "idle" /\ todo[t] # "none"
        /\ UNCHANGED <<ever_started, reader, arrived, handled>>
        /\ \E to \in {"down", "none"} : todo' = [todo EXCEPT ![t] = to]
        /\ \/ UNCHANGED <<op, active, close_notified>>
           \/ /\ op' = [op EXCEPT ![t] = "notify"]
              /\ active' = [active EXCEPT ![t[1]] = FALSE]
              /\ close_notified' = [close_notified EXCEPT ![t[1]] = TRUE]
    BY <1>7 DEF Close, Down, Resume, Step, reading, transports
  <2>2. /\ op \in [Threads -> {"idle", "spawn", "write", "check", "erring", "notify"}]
        /\ todo \in [Threads -> {"none", "start", "initialize", "send", "up", "close", "down"}]
    BY DEF TypeOK
  <2>3. /\ op'[t] \in {"idle", "notify"} /\ todo'[t] # "send"
        /\ \A u \in Threads \ {t} : op'[u] = op[u] /\ todo'[u] = todo[u]
        /\ ~Idle(t)
    BY <2>1, <2>2 DEF Idle
  <2>4. CASE UNCHANGED <<active, close_notified>>
    BY <2>1, <2>3, <2>4, ReaderKeeps
  <2>5. CASE /\ active' = [active EXCEPT ![t[1]] = FALSE]
             /\ close_notified' = [close_notified EXCEPT ![t[1]] = TRUE]
    <3>1. /\ \A p \in Roles : close_notified[p] => close_notified'[p]
          /\ \A p \in Roles : active[p] => active'[p] \/ close_notified'[p]
      BY <2>5
    <3> QED
      BY <2>1, <2>3, <3>1, ReaderKeeps
  <2> QED
    BY <2>1, <2>4, <2>5
<1>8. ASSUME NEW p \in Roles, ReadLine(p) PROVE ReaderInv'
  <2>1. /\ reader[p] = "reading" /\ reader' = [reader EXCEPT ![p] = "check"]
        /\ arrived' = [arrived EXCEPT ![p] = @ + 1]
        /\ UNCHANGED <<handled, active, ever_started, close_notified, op, todo>>
    BY <1>8 DEF ReadLine, Goto, LoopUnchanged, transports
  <2>2. \A q \in Roles : At(q)'
    BY <1>0, <2>1
  <2> QED
    BY <1>0, <2>1, <2>2 DEF ReaderInv
<1>9. ASSUME NEW p \in Roles, CallHandler(p) PROVE ReaderInv'
  <2>1. /\ reader[p] = "lookup" /\ reader' = [reader EXCEPT ![p] = "handler"]
        /\ handled' = [handled EXCEPT ![p] = @ + 1]
        /\ UNCHANGED <<arrived, active, ever_started, close_notified, op>>
        /\ \A q \in Roles \ {p} : todo'[Reader(q)] = todo[Reader(q)]
        /\ \A t \in Threads : todo'[t] = todo[t] \/ op[t] = "idle"
    BY <1>9 DEF CallHandler, Goto, LoopUnchanged, transports, Sends, Resume
  <2>2. \A q \in Roles : At(q)'
    BY <1>0, <2>1
  <2>3. \A t \in Threads : Busy(t)'
    BY <1>0, <2>1
  <2> QED
    BY <2>2, <2>3 DEF ReaderInv
<1>10. ASSUME NEW p \in Roles, ReadEnds(p) \/ CheckActive(p) \/ HandlerReturns(p)
       PROVE  ReaderInv'
  <2>1. /\ UNCHANGED <<arrived, handled, active, ever_started, close_notified, op, todo>>
        /\ \/ reader[p] = "reading" /\ reader' = [reader EXCEPT ![p] = "done"]
           \/ reader[p] = "check" /\ reader' = [reader EXCEPT ![p] = "done"]
           \/ reader[p] = "check" /\ reader' = [reader EXCEPT ![p] = "lookup"]
           \/ /\ reader[p] = "handler" /\ reader' = [reader EXCEPT ![p] = "reading"]
              /\ Idle(Reader(p))
    BY <1>10 DEF ReadEnds, CheckActive, HandlerReturns, Goto, LoopUnchanged, transports
  <2>2. \A q \in Roles : At(q)'
    BY <1>0, <2>1
  <2> QED
    BY <1>0, <2>1, <2>2 DEF ReaderInv
<1>11. CASE UNCHANGED vars \/ \E p \in Roles : Exit(p)
  <2>1. UNCHANGED <<arrived, handled, reader, active, ever_started, close_notified, op, todo>>
    BY <1>11 DEF vars, Exit, reading, transports
  <2> QED
    BY <2>1 DEF ReaderInv
<1>12. ASSUME NEW p \in Roles, HandlerThrows(p) PROVE ReaderInv'
  <2>1. /\ reader[p] = "handler" /\ reader' = [reader EXCEPT ![p] = "reading"]
        /\ op[Reader(p)] = "idle" /\ todo' = [todo EXCEPT ![Reader(p)] = "none"]
        /\ UNCHANGED <<arrived, handled, active, ever_started, close_notified, op>>
    BY <1>12, Throws
  <2>2. \A q \in Roles : At(q)'
    BY <1>0, <2>1
  <2>3. \A t \in Threads : Busy(t)'
    BY <1>0, <2>1
  <2> QED
    BY <2>2, <2>3 DEF ReaderInv
<1> HIDE DEF At, Busy, Idle
<1> QED
  BY <1>1, <1>2, <1>3, <1>4, <1>5, <1>6, <1>7, <1>8, <1>9, <1>10, <1>11, <1>12
  DEF Next, Process, Calls, Runs, Reading, Callers

\* All that is known of every step.
LEMMA TypeAndReaderHold == Spec => [](TypeOK /\ ReaderInv)
<1>1. Init => TypeOK /\ ReaderInv
  BY TypeInit, ReaderInit
<1>2. TypeOK /\ ReaderInv /\ [Next]_vars => (TypeOK /\ ReaderInv)'
  BY TypeStep, ReaderStep
<1> QED
  BY <1>1, <1>2, PTL DEF Spec

\* The variables of both processes keep their types; no more lines are read than
\* were written, nor handled than were read.
THEOREM TypeCorrect == Spec => []TypeOK
  BY TypeAndReaderHold, PTL

(***************************************************************************)
(* The server's end by an exception.                                       *)
(***************************************************************************)

LEMMA FailureInit == Init => FailureInv
  BY ThreadFacts DEF Init, FailureInv, ServerSurvives

LEMMA ThrowEnds ==
  ASSUME NEW t, Thrown(t)
  PROVE  \/ terminated' = terminated
         \/ t = Reader("server") /\ terminated' = [terminated EXCEPT !["server"] = TRUE]
  BY DEF Thrown

LEMMA SendEnds ==
  ASSUME NEW t, Send(t) \/ SendThrows(t)
  PROVE  /\ exited' = exited /\ output_bad' = output_bad /\ close_notified' = close_notified
         /\ threw' = threw
         /\ \/ terminated' = terminated
            \/ /\ t = Reader("server") /\ terminated' = [terminated EXCEPT !["server"] = TRUE]
               /\ Send(t) => ~active["server"]
<1>1. CASE Send(t) /\ active[t[1]]
  BY <1>1 DEF Send, transports
<1>2. CASE Send(t) /\ ~active[t[1]]
  <2>1. Thrown(t) /\ UNCHANGED <<exited, threw, output_bad, close_notified>>
    BY <1>2 DEF Send, transports
  <2>2. t = Reader("server") => t[1] = "server"
    BY DEF Reader
  <2> QED
    BY <1>2, <2>1, <2>2, ThrowEnds
<1>3. CASE SendThrows(t)
  <2>1. Thrown(t) /\ UNCHANGED <<exited, threw, output_bad, close_notified>> /\ op[t] = "erring"
    BY <1>3 DEF SendThrows, Step, transports
  <2>2. ~Send(t)
    BY <2>1 DEF Send, Resume
  <2> QED
    BY <2>1, <2>2, ThrowEnds
<1> QED
  BY <1>1, <1>2, <1>3

\* A process that has ended stays so.
LEMMA EndsForGood ==
  ASSUME TypeOK, [Next]_vars, NEW p \in Roles
  PROVE  ~Alive(p) => ~Alive(p)'
<1> USE ThreadFacts, Types DEF Alive
<1>1. CASE UNCHANGED processes
  BY <1>1 DEF processes
<1>2. ASSUME NEW q \in Roles, NEW t \in {Main(q), Reader(q)}, Alive(q),
             Send(t) \/ SendThrows(t)
      PROVE  /\ exited' = exited
             /\ \/ terminated' = terminated
                \/ q = "server" /\ terminated' = [terminated EXCEPT !["server"] = TRUE]
  <2>1. t = Reader("server") => q = "server"
    OBVIOUS
  <2> QED
    BY <1>2, <2>1, SendEnds
<1>3. ASSUME NEW q \in Roles, NEW t \in {Main(q), Reader(q)}, Alive(q), Write(t)
      PROVE  /\ terminated' = terminated
             /\ exited' = exited \/ exited' = [exited EXCEPT ![q] = ~output_bad[q]]
  <2>1. t[1] = q
    OBVIOUS
  <2> QED
    BY <1>3, <2>1 DEF Write
<1>4. ASSUME NEW q \in Roles, Exit(q)
      PROVE  terminated' = terminated /\ exited' = [exited EXCEPT ![q] = TRUE]
  BY <1>4 DEF Exit
<1>6. ASSUME NEW q \in Roles, HandlerThrows(q)
      PROVE  terminated' = [terminated EXCEPT ![q] = TRUE] /\ exited' = exited
  BY <1>6 DEF HandlerThrows
<1>5. \/ UNCHANGED processes
      \/ \E q \in Roles : Alive(q) /\ (Exit(q) \/ HandlerThrows(q))
      \/ \E q \in Roles : Alive(q) /\ \E t \in {Main(q), Reader(q)} :
            Send(t) \/ SendThrows(t) \/ Write(t)
  <2>1. CASE UNCHANGED vars
    BY <2>1 DEF vars
  <2>2. ASSUME NEW q \in Roles, Calls(q) PROVE UNCHANGED processes \/ Exit(q)
    BY <2>2 DEF Calls, Open, Notification, Leave, Request
  <2>3. ASSUME NEW q \in Roles, Reading(q) PROVE UNCHANGED processes \/ HandlerThrows(q)
    BY <2>3 DEF Reading, ReadLine, ReadEnds, CheckActive, CallHandler, HandlerReturns,
       LoopUnchanged
  <2>4. ASSUME NEW q \in Roles, NEW t \in {Main(q), Reader(q)}, Runs(t)
        PROVE  UNCHANGED processes \/ Send(t) \/ SendThrows(t) \/ Write(t)
    BY <2>4 DEF Runs, Start, Spawn, Initialize, Up, CheckOutput, Close, Notify, Down
  <2> QED
    BY <2>1, <2>2, <2>3, <2>4 DEF Next, Process
<1> QED
  BY <1>1, <1>2, <1>3, <1>4, <1>5, <1>6

LEMMA FailureStep ==
  ASSUME TypeOK, ReaderInv, FailureInv, [Next]_vars
  PROVE  FailureInv'
<1> USE ThreadFacts, Types
<1> op \in [Threads -> {"idle", "spawn", "write", "check", "erring", "notify"}]
  BY DEF TypeOK
<1>1. \A p \in Roles : ~Alive(Peer(p)) => ~Alive(Peer(p))'
  BY EndsForGood
<1>2. /\ \A p \in Roles : output_bad[p] => ~Alive(Peer(p))
      /\ \A t \in Threads : op[t] = "erring" => output_bad[t[1]]
      /\ terminated["server"] => threw["server"] \/ close_notified["server"] \/ ~Alive("client")
  BY DEF FailureInv, ServerSurvives
<1>3. ASSUME NEW t \in Threads, Write(t) PROVE FailureInv'
  <2>1. /\ op' = [op EXCEPT ![t] = "check"] /\ UNCHANGED <<terminated, threw, close_notified>>
        /\ \/ output_bad' = output_bad
           \/ /\ output_bad[t[1]] \/ ~Alive(Peer(t[1]))
              /\ output_bad' = [output_bad EXCEPT ![t[1]] = TRUE]
    BY <1>3 DEF Write, Step
  <2>2. \A p \in Roles : output_bad'[p] => ~Alive(Peer(p))'
    BY <1>1, <1>2, <2>1
  <2>3. \A u \in Threads : op'[u] = "erring" => output_bad'[u[1]]
    BY <1>2, <2>1
  <2> QED
    BY <1>1, <1>2, <2>1, <2>2, <2>3 DEF FailureInv, ServerSurvives
\* The other steps leave the output alone.
<1>4. ASSUME UNCHANGED output_bad,
             \A t \in Threads : op'[t] = "erring" => output_bad[t[1]],
             terminated'["server"] =>
               threw'["server"] \/ close_notified'["server"] \/ ~Alive("client")
      PROVE  FailureInv'
  BY <1>1, <1>2, <1>4 DEF FailureInv, ServerSurvives
<1>5. ASSUME NEW t \in Threads, Send(t) PROVE FailureInv'
  <2>1. op' = op \/ op' = [op EXCEPT ![t] = "write"]
    BY <1>5 DEF Send, Step
  <2>2. /\ output_bad' = output_bad /\ close_notified' = close_notified /\ threw' = threw
        /\ (terminated' = terminated \/ (t = Reader("server") /\ ~active["server"]))
    BY <1>5, SendEnds
  <2>3. t = Reader("server") => op[t] = "idle" /\ todo[t] = "send"
    BY <1>5 DEF Send, Resume
  <2>4. t = Reader("server") /\ ~active["server"] => close_notified["server"]
    BY <2>3 DEF ReaderInv, Idle
  <2>5. \A u \in Threads : op'[u] = "erring" => output_bad[u[1]]
    BY <1>2, <2>1
  <2> QED
    BY <1>2, <1>4, <2>2, <2>4, <2>5
<1>6. ASSUME NEW t \in Threads, CheckOutput(t) PROVE FailureInv'
  <2>1. /\ UNCHANGED <<output_bad, close_notified, terminated, threw>>
        /\ op' = [op EXCEPT ![t] = IF output_bad[t[1]] THEN "erring" ELSE "idle"]
    BY <1>6 DEF CheckOutput, Step, transports, processes
  <2>2. \A u \in Threads : op'[u] = "erring" => output_bad[u[1]]
    BY <1>2, <2>1
  <2> QED
    BY <1>2, <1>4, <2>1, <2>2
<1>7. ASSUME NEW t \in Threads, SendThrows(t) PROVE FailureInv'
  <2>1. op[t] = "erring" /\ op' = [op EXCEPT ![t] = "idle"]
    BY <1>7 DEF SendThrows, Step
  <2>2. /\ output_bad' = output_bad /\ close_notified' = close_notified /\ threw' = threw
        /\ terminated' = terminated \/ t[1] = "server"
    BY <1>7, SendEnds
  <2>3. t[1] = "server" => ~Alive("client")
    BY <1>2, <2>1
  <2>4. \A u \in Threads : op'[u] = "erring" => output_bad[u[1]]
    BY <1>2, <2>1
  <2> QED
    BY <1>2, <1>4, <2>1, <2>2, <2>3, <2>4
<1>8. ASSUME NEW t \in Threads, Close(t) \/ Notify(t) PROVE FailureInv'
  <2>1. /\ UNCHANGED <<output_bad, terminated, threw>>
        /\ \/ UNCHANGED close_notified
           \/ close_notified' = [close_notified EXCEPT ![t[1]] = TRUE]
        /\ op' = op \/ \E to \in {"notify", "idle"} : op' = [op EXCEPT ![t] = to]
    BY <1>8 DEF Close, Notify, Step, transports, processes
  <2>2. \A u \in Threads : op'[u] = "erring" => output_bad[u[1]]
    BY <1>2, <2>1
  <2> QED
    BY <1>2, <1>4, <2>1, <2>2
\* Only a process that is alive starts its transport.
<1>9. ASSUME NEW p \in Roles, Alive(p), Start(p) \/ Spawn(p) PROVE FailureInv'
  <2>1. /\ UNCHANGED <<output_bad, terminated, threw>>
        /\ \/ UNCHANGED close_notified
           \/ close_notified' = [close_notified EXCEPT ![p] = FALSE]
        /\ op' = op \/ \E to \in {"spawn", "idle"} : op' = [op EXCEPT ![Main(p)] = to]
    BY <1>9 DEF Start, Spawn, Step, transports, processes
  <2>2. \A u \in Threads : op'[u] = "erring" => output_bad[u[1]]
    BY <1>2, <2>1
  <2>3. p = "server" => ~terminated["server"]
    BY <1>9 DEF Alive
  <2> QED
    BY <1>2, <1>4, <2>1, <2>2, <2>3
<1>10. CASE UNCHANGED <<op, output_bad, terminated, threw, close_notified>>
  BY <1>2, <1>4, <1>10
<1>12. ASSUME NEW p \in Roles, HandlerThrows(p) PROVE FailureInv'
  <2>1. /\ terminated' = [terminated EXCEPT ![p] = TRUE] /\ threw' = [threw EXCEPT ![p] = TRUE]
        /\ UNCHANGED <<op, output_bad, close_notified>>
    BY <1>12, Throws
  <2>2. terminated'["server"] =>
          threw'["server"] \/ close_notified'["server"] \/ ~Alive("client")
    BY <1>2, <2>1
  <2> QED
    BY <1>2, <1>4, <2>1, <2>2
<1>11. \/ UNCHANGED <<op, output_bad, terminated, threw, close_notified>>
       \/ \E t \in Threads : Write(t) \/ Send(t) \/ CheckOutput(t) \/ SendThrows(t)
                           \/ Close(t) \/ Notify(t)
       \/ \E p \in Roles : Alive(p) /\ (Start(p) \/ Spawn(p))
       \/ \E p \in Roles : HandlerThrows(p)
  BY DEF Next, Process, Calls, Runs, Reading, Callers, Open, Initialize, Up, Exit,
     Request, Notification, Leave, Down, ReadLine, ReadEnds, CheckActive, CallHandler,
     HandlerReturns, LoopUnchanged, vars, transports, processes
<1> QED
  BY <1>3, <1>5, <1>6, <1>7, <1>8, <1>9, <1>10, <1>11, <1>12

\* However the client's end, the stop of the server and its replies interleave, a
\* reply fails only after the client has gone or the server was being stopped; any
\* other exception that ends the server comes from its own user code.
THEOREM LibraryKeepsServerAlive == Spec => []ServerSurvives
<1>1. Init => FailureInv
  BY FailureInit
<1>2. TypeOK /\ ReaderInv /\ FailureInv /\ [Next]_vars => FailureInv'
  BY FailureStep
<1>3. FailureInv => ServerSurvives
  BY DEF FailureInv
<1> QED
  BY <1>1, <1>2, <1>3, TypeAndReaderHold, PTL DEF Spec

(***************************************************************************)
(* The first message of the client.                                        *)
(***************************************************************************)

LEMMA InitializeInit == Init => InitializeInv
  BY ThreadFacts DEF Init, InitializeInv, Unopened, Both, Sending

LEMMA UnopenedStep ==
  ASSUME TypeOK, ReaderInv, Unopened, [Next]_vars, pipe'["client"] = <<>>
  PROVE  Unopened'
<1> USE ThreadFacts
<1> DEFINE m == Main("client")
           r == Reader("client")
<1> /\ state \in [Roles -> States] /\ output_bad \in [Roles -> BOOLEAN]
    /\ op \in [Threads -> {"idle", "spawn", "write", "check", "erring", "notify"}]
    /\ todo \in [Threads -> {"none", "start", "initialize", "send", "up", "close", "down"}]
    /\ out \in [Threads -> Message]
  BY DEF TypeOK
<1>0. /\ state["client"] # "up"
      /\ todo[m] = "send" \/ op[m] = "write" => out[m].what = "initialize"
      /\ todo[r] = "send" \/ op[r] = "write" => out[r].what = "initialize"
      /\ todo[m] = "up" => op[m] = "write" \/ (op[m] \in {"check", "erring"} /\ output_bad["client"])
      /\ \A t \in Threads : op[t] # "idle" => todo[t] # "send"
  BY DEF Unopened, Both, Sending, ReaderInv
\* What each step has to keep.
<1>1. ASSUME state'["client"] # "up",
             todo'[m] = "send" \/ op'[m] = "write" => out'[m].what = "initialize",
             todo'[r] = "send" \/ op'[r] = "write" => out'[r].what = "initialize",
             todo'[m] = "up" => \/ op'[m] = "write"
                                \/ op'[m] \in {"check", "erring"} /\ output_bad'["client"]
      PROVE  Unopened'
  BY <1>1 DEF Unopened, Both, Sending
<1>2. ASSUME NEW p \in Roles, Open(p) \/ Up(p) PROVE Unopened'
  <2>1. /\ op[Main(p)] = "idle" /\ UNCHANGED <<op, out, output_bad>>
        /\ \/ state' = [state EXCEPT ![p] = "opening"] /\ todo' = [todo EXCEPT ![Main(p)] = "start"]
           \/ /\ todo[Main(p)] = "up" /\ todo' = [todo EXCEPT ![Main(p)] = "none"]
              /\ state' = [state EXCEPT ![p] = "up"]
    BY <1>2 DEF Open, Up, Resume, Becomes, transports
  <2> QED
    BY <1>0, <1>1, <2>1
<1>3. ASSUME NEW p \in Roles, Start(p) \/ Spawn(p) PROVE Unopened'
  <2>1. /\ UNCHANGED <<state, out, output_bad>>
        /\ \/ todo' = todo
           \/ todo' = [todo EXCEPT ![Main(p)] = "none"]
           \/ /\ todo[Main(p)] = "start"
              /\ \E to \in {"initialize", "up", "none"} :
                   todo' = [todo EXCEPT ![Main(p)] = to] /\ (p = "client" => to # "up")
        /\ \/ op' = op
           \/ \E to \in {"spawn", "idle"} : op' = [op EXCEPT ![Main(p)] = to]
        /\ op[Main(p)] \in {"idle", "spawn"}
    BY <1>3 DEF Start, Spawn, Resume, Step, transports
  <2> QED
    BY <1>0, <1>1, <2>1
<1>4. ASSUME Initialize PROVE Unopened'
  <2>1. /\ todo[m] = "initialize" /\ UNCHANGED <<op, output_bad>>
        /\ \/ /\ todo' = [todo EXCEPT ![m] = "none"] /\ UNCHANGED <<state, out>>
           \/ /\ todo' = [todo EXCEPT ![m] = "send"]
              /\ state' = [state EXCEPT !["client"] = "initializing"]
              /\ out' = [out EXCEPT ![m] = [what |-> "initialize", id |-> next_request_id]]
    BY <1>4 DEF Initialize, Resume, Becomes, transports
  <2> QED
    BY <1>0, <1>1, <2>1
<1>5. ASSUME NEW t \in Threads, Request(t) \/ Notification(t) PROVE Unopened'
  <2>1. /\ t # m /\ t # r /\ UNCHANGED <<state, op, output_bad>>
        /\ todo' = [todo EXCEPT ![t] = "send"]
        /\ \A u \in Threads \ {t} : out'[u] = out[u]
    BY <1>0, <1>5 DEF Request, Notification, Sends, Resume, transports
  <2> QED
    BY <1>0, <1>1, <2>1
<1>6. ASSUME NEW t \in Threads, Send(t) PROVE Unopened'
  <2>1. /\ todo[t] = "send" /\ op[t] = "idle" /\ UNCHANGED <<state, output_bad>>
        /\ \/ /\ op' = [op EXCEPT ![t] = "write"] /\ out' = out
              /\ \E to \in {"up", "none"} : todo' = [todo EXCEPT ![t] = to]
           \/ /\ op' = op /\ out' = [out EXCEPT ![t] = Nothing]
              /\ todo' = [todo EXCEPT ![t] = "none"]
    BY <1>6 DEF Send, Resume, Step, transports
  <2> QED
    BY <1>0, <1>1, <2>1
<1>7. ASSUME NEW t \in Threads, Write(t) PROVE Unopened'
  <2>1. /\ op[t] = "write" /\ op' = [op EXCEPT ![t] = "check"]
        /\ out' = [out EXCEPT ![t] = Nothing] /\ UNCHANGED <<state, todo>>
        /\ \/ output_bad' = [output_bad EXCEPT ![t[1]] = TRUE]
           \/ pipe' = [pipe EXCEPT ![t[1]] = Append(@, out[t])] /\ output_bad' = output_bad
    BY <1>7 DEF Write, Step
  <2>2. CASE t[1] = "client"
    <3>1. pipe \in [Roles -> Seq(Message)] /\ out[t] \in Message
      BY DEF TypeOK
    <3>2. pipe["client"] \in Seq(Message) /\ Len(pipe["client"]) \in Nat
      BY <3>1
    <3> DEFINE longer == Append(pipe["client"], out[t])
    <3>5. Len(longer) = Len(pipe["client"]) + 1
      BY <3>1, <3>2, PushType
    <3>6. longer # <<>>
      <4>1. Len(<<>>) = 0
        OBVIOUS
      <4> HIDE DEF longer
      <4> QED
        BY <3>2, <3>5, <4>1
    <3>3. pipe' = [pipe EXCEPT !["client"] = Append(@, out[t])] => pipe'["client"] = longer
      BY <3>1
    <3>4. output_bad' = [output_bad EXCEPT !["client"] = TRUE]
      BY <1>1, <2>1, <2>2, <3>3, <3>6
    <3> QED
      BY <1>0, <1>1, <2>1, <2>2, <3>4
  <2>3. CASE t[1] = "server"
    BY <1>0, <1>1, <2>1, <2>3
  <2> QED
    BY <2>2, <2>3 DEF Roles
<1>8. ASSUME NEW t \in Threads, CheckOutput(t) PROVE Unopened'
  <2>1. /\ op[t] = "check" /\ UNCHANGED <<state, todo, out, output_bad>>
        /\ op' = [op EXCEPT ![t] = IF output_bad[t[1]] THEN "erring" ELSE "idle"]
    BY <1>8 DEF CheckOutput, Step, transports
  <2> QED
    BY <1>0, <1>1, <2>1
<1>9. ASSUME NEW t \in Threads, SendThrows(t) \/ Notify(t) PROVE Unopened'
  <2>1. /\ \/ op[t] = "erring" /\ todo' = [todo EXCEPT ![t] = "none"]
           \/ op[t] = "notify" /\ todo' = todo
        /\ op' = [op EXCEPT ![t] = "idle"] /\ UNCHANGED <<out, output_bad>>
        /\ state' = state \/ \E to \in {"failed", "down"} : state' = [state EXCEPT ![t[1]] = to]
    BY <1>9 DEF SendThrows, Notify, Step, Becomes, transports
  <2> QED
    BY <1>0, <1>1, <2>1
<1>10. ASSUME NEW t \in Threads, Leave(t) \/ Close(t) \/ Down(t) PROVE Unopened'
  <2>1. /\ op[t] = "idle" /\ todo[t] # "up" /\ UNCHANGED <<out, output_bad>>
        /\ \E to \in {"close", "down", "none"} : todo' = [todo EXCEPT ![t] = to]
        /\ op' = op \/ op' = [op EXCEPT ![t] = "notify"]
        /\ state' = state \/ \E to \in {"leaving", "down"} : state' = [state EXCEPT ![t[1]] = to]
    BY <1>10 DEF Leave, Close, Down, Step, Resume, Becomes, transports
  <2> QED
    BY <1>0, <1>1, <2>1
<1>11. ASSUME NEW p \in Roles, CallHandler(p) PROVE Unopened'
  <2>1. /\ UNCHANGED <<state, op, output_bad>>
        /\ \A t \in Threads : t # Reader("server") => todo'[t] = todo[t] /\ out'[t] = out[t]
    BY <1>11 DEF CallHandler, LoopUnchanged, transports, Sends, Resume
  <2> QED
    BY <1>0, <1>1, <2>1
<1>12. CASE UNCHANGED <<state, op, todo, out, output_bad>>
  BY <1>0, <1>1, <1>12
<1>14. ASSUME NEW p \in Roles, HandlerThrows(p) PROVE Unopened'
  <2>1. /\ op[Reader(p)] = "idle" /\ UNCHANGED <<state, op, output_bad>>
        /\ todo' = [todo EXCEPT ![Reader(p)] = "none"]
        /\ out' = [out EXCEPT ![Reader(p)] = Nothing]
    BY <1>14, Throws
  <2> QED
    BY <1>0, <1>1, <2>1
<1>13. \/ UNCHANGED <<state, op, todo, out, output_bad>> \/ Initialize
       \/ \E p \in Roles : \/ Open(p) \/ Up(p) \/ Start(p) \/ Spawn(p)
                           \/ CallHandler(p) \/ HandlerThrows(p)
       \/ \E t \in Threads : \/ Request(t) \/ Notification(t) \/ Send(t) \/ Write(t)
                            \/ CheckOutput(t) \/ SendThrows(t) \/ Notify(t)
                            \/ Leave(t) \/ Close(t) \/ Down(t)
  BY DEF Next, Process, Calls, Runs, Reading, Callers, Exit, ReadLine, ReadEnds, CheckActive,
     HandlerReturns, LoopUnchanged, vars, transports
<1> QED
  BY <1>2, <1>3, <1>4, <1>5, <1>6, <1>7, <1>8, <1>9, <1>10, <1>11, <1>12, <1>13,
     <1>14

LEMMA InitializeStep ==
  ASSUME TypeOK, ReaderInv, InitializeInv, [Next]_vars
  PROVE  InitializeInv'
<1> USE ThreadFacts
<1>1. pipe \in [Roles -> Seq(Message)] /\ out \in [Threads -> Message]
  BY DEF TypeOK
<1>2. CASE pipe["client"] # <<>>
  <2>1. Len(pipe["client"]) \in Nat \ {0}
    BY <1>1, <1>2
  <2>2. /\ pipe'["client"][1] = pipe["client"][1]
        /\ Len(pipe["client"]) <= Len(pipe'["client"])
    BY <2>1, PipesGrow
  <2>3. pipe'["client"] # <<>>
    BY <2>1, <2>2
  <2> QED
    BY <1>2, <2>2, <2>3 DEF InitializeInv, Unopened
<1>3. CASE pipe["client"] = <<>> /\ pipe'["client"] = <<>>
  BY <1>3, UnopenedStep DEF InitializeInv
<1>4. CASE pipe["client"] = <<>> /\ pipe'["client"] # <<>>
  <2>1. PICK t \in Threads : Write(t)
    BY <1>4, Movers
  <2>2. /\ op[t] = "write" /\ t[1] = "client"
        /\ pipe' = [pipe EXCEPT !["client"] = Append(pipe["client"], out[t])]
    <3>1. /\ op[t] = "write"
          /\ pipe' = pipe \/ pipe' = [pipe EXCEPT ![t[1]] = Append(pipe[t[1]], out[t])]
      BY <2>1 DEF Write, Step
    <3>2. t[1] \in Roles /\ pipe'["client"] # pipe["client"]
      BY <1>4
    <3>3. t[1] = "client"
      BY <1>1, <3>1, <3>2
    <3> QED
      BY <3>1, <3>2, <3>3
  <2>3. out[t].what = "initialize"
    BY <1>4, <2>2 DEF InitializeInv, Unopened, Both, Sending
  <2>4. pipe'["client"] = Append(<<>>, out[t])
    BY <1>1, <1>4, <2>2
  <2> QED
    BY <1>1, <2>3, <2>4 DEF InitializeInv
<1> QED
  BY <1>2, <1>3, <1>4

\* However the client's callback and its connect interleave, and whatever fails,
\* the first message the server handles is the initialize request.
THEOREM InitializeIsFirst == Spec => []InitializeArrivesFirst
<1>1. Init => InitializeInv
  BY InitializeInit
<1>2. TypeOK /\ ReaderInv /\ InitializeInv /\ [Next]_vars => InitializeInv'
  BY InitializeStep
<1>3. TypeOK /\ InitializeInv => InitializeArrivesFirst
  <2> SUFFICES ASSUME TypeOK, InitializeInv, handled["server"] > 0
               PROVE  pipe["client"][1].what = "initialize"
    BY DEF InitializeArrivesFirst
  <2>1. /\ handled["server"] \in Nat /\ arrived["server"] \in Nat
        /\ handled["server"] <= arrived["server"] /\ arrived["server"] <= Len(pipe["client"])
    BY ThreadFacts, Types DEF TypeOK
  <2>2. pipe["client"] # <<>>
    BY <2>1
  <2> QED
    BY <2>2 DEF InitializeInv, Unopened
<1> QED
  BY <1>1, <1>2, <1>3, TypeAndReaderHold, PTL DEF Spec

(***************************************************************************)
(* The replies.                                                            *)
(***************************************************************************)

LEMMA CountType ==
  ASSUME NEW messages, NEW kinds, NEW n \in Nat
  PROVE  /\ IsFiniteSet({i \in 1..n : messages[i].what \in kinds})
         /\ CountOf(messages, kinds, n) \in Nat
<1>1. IsFiniteSet(1..n)
  BY FS_Interval
<1>2. IsFiniteSet({i \in 1..n : messages[i].what \in kinds})
  BY <1>1, FS_Subset
<1> QED
  BY <1>2, FS_CardinalityType DEF CountOf

LEMMA CountNext ==
  ASSUME NEW messages, NEW kinds, NEW n \in Nat
  PROVE  CountOf(messages, kinds, n + 1)
           = CountOf(messages, kinds, n) + One(messages[n + 1].what \in kinds)
<1> DEFINE S == {i \in 1..n : messages[i].what \in kinds}
           T == {i \in 1..(n + 1) : messages[i].what \in kinds}
<1>1. IsFiniteSet(S) /\ Cardinality(S) \in Nat
  BY CountType DEF CountOf
<1>4. n + 1 \notin S
  OBVIOUS
<1>2. CASE messages[n + 1].what \in kinds
  <2>1. T = S \cup {n + 1}
    BY <1>2
  <2> HIDE DEF S, T
  <2>2. Cardinality(T) = Cardinality(S) + 1
    BY <1>1, <1>4, <2>1, FS_AddElement
  <2> QED
    BY <1>2, <2>2 DEF CountOf, One, S, T
<1>3. CASE messages[n + 1].what \notin kinds
  <2>1. T = S
    BY <1>3
  <2> HIDE DEF S, T
  <2>2. Cardinality(T) = Cardinality(S) + 0
    BY <1>1, <2>1
  <2> QED
    BY <1>3, <2>2 DEF CountOf, One, S, T
<1> QED
  BY <1>2, <1>3

SameUpTo(n, messages, others) == \A i \in 1..n : messages[i] = others[i]

LEMMA CountSame ==
  ASSUME NEW messages, NEW others, NEW kinds, NEW n, SameUpTo(n, messages, others)
  PROVE  CountOf(messages, kinds, n) = CountOf(others, kinds, n)
<1>1. {i \in 1..n : messages[i].what \in kinds} = {i \in 1..n : others[i].what \in kinds}
  BY DEF SameUpTo
<1> QED
  BY <1>1 DEF CountOf

LEMMA ReplyInit == Init => ReplyInv
<1> SUFFICES ASSUME Init PROVE ReplyInv
  OBVIOUS
<1>1. /\ pipe["client"] = <<>> /\ pipe["server"] = <<>> /\ handled["server"] = 0
      /\ ~Sending(Server) /\ ~Sending(Main("server"))
  BY ThreadFacts DEF Init, Sending, Server
<1>2. CountOf(<<>>, Requests, 0) = 0 /\ CountOf(<<>>, {"response"}, 0) = 0
  <2>1. ASSUME NEW kinds PROVE CountOf(<<>>, kinds, 0) = 0
    <3>1. {i \in 1..0 : <<>>[i].what \in kinds} = {}
      OBVIOUS
    <3> QED
      BY <3>1, FS_EmptySet DEF CountOf
  <2> QED
    BY <2>1
<1>3. Len(pipe["server"]) = 0
  BY <1>1
<1>4. RepliesInOrder
  BY <1>3 DEF RepliesInOrder
<1>5. CountOf(pipe["client"], Requests, handled["server"]) =
        CountOf(pipe["server"], {"response"}, Len(pipe["server"])) + One(Sending(Server))
  BY <1>1, <1>2, <1>3 DEF One
<1> QED
  BY <1>1, <1>4, <1>5 DEF ReplyInv

\* The i-th message of the server is the reply to a request it has handled.
Answers(i) ==
  \E j \in 1..handled["server"] :
    /\ pipe["client"][j].what \in Requests
    /\ pipe["client"][j].id = pipe["server"][i].id
    /\ CountOf(pipe["client"], Requests, j) = CountOf(pipe["server"], {"response"}, i)

Balanced ==
  CountOf(pipe["client"], Requests, handled["server"]) =
    CountOf(pipe["server"], {"response"}, Len(pipe["server"])) + One(Sending(Server))

LEMMA HandledGrows ==
  ASSUME TypeOK, [Next]_vars
  PROVE  /\ handled["server"] <= handled'["server"]
         /\ handled' = handled \/ \E p \in Roles : CallHandler(p)
<1> USE ThreadFacts, Types
<1>1. ASSUME NEW p \in Roles, CallHandler(p) PROVE handled["server"] <= handled'["server"]
  BY <1>1 DEF CallHandler
<1> QED
  BY <1>1, Movers

LEMMA PipeTypes ==
  ASSUME TypeOK
  PROVE  /\ \A p \in Roles : pipe[p] \in Seq(Message) /\ Len(pipe[p]) \in Nat
         /\ handled["server"] \in Nat /\ handled["server"] <= Len(pipe["client"])
<1>1. pipe \in [Roles -> Seq(Message)]
  BY DEF TypeOK
<1>2. \A p \in Roles : pipe[p] \in Seq(Message) /\ Len(pipe[p]) \in Nat
  BY <1>1
<1>3. /\ handled["server"] \in Nat /\ arrived["server"] \in Nat
      /\ handled["server"] <= arrived["server"] /\ arrived["server"] <= Len(pipe["client"])
  BY ThreadFacts, Types DEF TypeOK
<1> QED
  BY <1>2, <1>3, ThreadFacts

LEMMA AnswersStay ==
  ASSUME TypeOK, [Next]_vars, NEW i \in 1..Len(pipe["server"]), Answers(i)
  PROVE  Answers(i)'
<1> USE ThreadFacts
<1>1. PICK j \in 1..handled["server"] :
         /\ pipe["client"][j].what \in Requests
         /\ pipe["client"][j].id = pipe["server"][i].id
         /\ CountOf(pipe["client"], Requests, j) = CountOf(pipe["server"], {"response"}, i)
  BY DEF Answers
<1>2. /\ \A k \in 1..Len(pipe["client"]) : pipe'["client"][k] = pipe["client"][k]
      /\ \A k \in 1..Len(pipe["server"]) : pipe'["server"][k] = pipe["server"][k]
  BY PipesGrow
<1>3. j \in 1..Len(pipe["client"]) /\ j \in Nat /\ j \in 1..handled'["server"]
  <2>1. /\ handled["server"] \in Nat /\ handled["server"] <= Len(pipe["client"])
        /\ Len(pipe["client"]) \in Nat
    BY PipeTypes
  <2>2. handled["server"] <= handled'["server"] /\ handled'["server"] \in Nat
    BY HandledGrows, Types DEF CallHandler
  <2> QED
    BY <2>1, <2>2
<1>4. CountOf(pipe'["client"], Requests, j) = CountOf(pipe["client"], Requests, j)
  <2>1. SameUpTo(j, pipe'["client"], pipe["client"])
    BY <1>2, <1>3, PipeTypes DEF SameUpTo
  <2> QED
    BY <2>1, CountSame
<1>5. CountOf(pipe'["server"], {"response"}, i) = CountOf(pipe["server"], {"response"}, i)
  <2>1. SameUpTo(i, pipe'["server"], pipe["server"])
    BY <1>2, PipeTypes DEF SameUpTo
  <2> QED
    BY <2>1, CountSame
<1>6. pipe'["client"][j] = pipe["client"][j] /\ pipe'["server"][i] = pipe["server"][i]
  BY <1>2, <1>3
<1> QED
  BY <1>1, <1>3, <1>4, <1>5, <1>6 DEF Answers

LEMMA CountPush ==
  ASSUME NEW messages, NEW longer, NEW kinds, NEW n \in Nat, SameUpTo(n, longer, messages)
  PROVE  CountOf(longer, kinds, n + 1)
           = CountOf(messages, kinds, n) + One(longer[n + 1].what \in kinds)
<1>1. CountOf(longer, kinds, n) = CountOf(messages, kinds, n)
  BY CountSame
<1>2. CountOf(longer, kinds, n + 1) = CountOf(longer, kinds, n) + One(longer[n + 1].what \in kinds)
  BY CountNext
<1> QED
  BY <1>1, <1>2

LEMMA RepliesForms ==
  ReplyInv <=>
    /\ \A i \in 1..Len(pipe["server"]) : pipe["server"][i].what = "response" => Answers(i)
    /\ Sending(Server) =>
         /\ handled["server"] > 0
         /\ pipe["client"][handled["server"]].what \in Requests
         /\ out[Server] = [what |-> "response", id |-> pipe["client"][handled["server"]].id]
    /\ Sending(Main("server")) => out[Main("server")].what = "notification"
    /\ output_bad["server"] \/ terminated["server"] \/ Balanced
  BY DEF ReplyInv, RepliesInOrder, Answers, Balanced

\* A step that neither writes to the server's pipe nor hands it a message.
LEMMA ReplyKeeps ==
  ASSUME TypeOK, ReplyInv, [Next]_vars,
         pipe'["server"] = pipe["server"], handled'["server"] = handled["server"],
         output_bad["server"] => output_bad'["server"],
         terminated["server"] => terminated'["server"],
         Sending(Server)' => Sending(Server) /\ out'[Server] = out[Server],
         Sending(Server) => \/ Sending(Server)'
                            \/ output_bad'["server"] \/ terminated'["server"],
         Sending(Main("server"))' => out'[Main("server")].what = "notification"
  PROVE  ReplyInv'
<1> USE ThreadFacts
<1> DEFINE n == handled["server"]
<1>1. /\ n \in Nat /\ n <= Len(pipe["client"]) /\ Len(pipe["client"]) \in Nat
  BY PipeTypes
<1>2. \A k \in 1..n : pipe'["client"][k] = pipe["client"][k]
  BY <1>1, PipesGrow
<1>3. \A i \in 1..Len(pipe'["server"]) :
        pipe'["server"][i].what = "response" => Answers(i)'
  BY AnswersStay, RepliesForms
<1>4. CountOf(pipe'["client"], Requests, n) = CountOf(pipe["client"], Requests, n)
  <2>1. SameUpTo(n, pipe'["client"], pipe["client"])
    BY <1>2 DEF SameUpTo
  <2> QED
    BY <2>1, CountSame
<1>5. output_bad'["server"] \/ terminated'["server"] \/ Balanced'
  <2> SUFFICES ASSUME ~output_bad'["server"], ~terminated'["server"]
               PROVE  Balanced'
    OBVIOUS
  <2>1. Balanced /\ (Sending(Server) <=> Sending(Server)')
    BY RepliesForms
  <2> QED
    BY <1>4, <2>1 DEF Balanced, One
<1>6. Sending(Server)' =>
        /\ handled'["server"] > 0
        /\ pipe'["client"][handled'["server"]].what \in Requests
        /\ out'[Server] = [what |-> "response", id |-> pipe'["client"][handled'["server"]].id]
  <2> SUFFICES ASSUME Sending(Server)'
               PROVE  /\ n > 0 /\ pipe'["client"][n].what \in Requests
                      /\ out'[Server] = [what |-> "response", id |-> pipe'["client"][n].id]
    OBVIOUS
  <2>1. /\ n > 0 /\ pipe["client"][n].what \in Requests
        /\ out'[Server] = [what |-> "response", id |-> pipe["client"][n].id]
    BY RepliesForms
  <2>2. pipe'["client"][n] = pipe["client"][n]
    BY <1>1, <1>2, <2>1
  <2> QED
    BY <2>1, <2>2
<1> QED
  BY <1>3, <1>5, <1>6 DEF ReplyInv, RepliesInOrder, Answers, Balanced

\* The server's next message is the reply that is due, or a notification.
LEMMA ReplyWritten ==
  ASSUME TypeOK, ReaderInv, ReplyInv, [Next]_vars, NEW t \in {Server, Main("server")},
         op[t] = "write", ~output_bad["server"], ~terminated["server"],
         pipe' = [pipe EXCEPT !["server"] = Append(pipe["server"], out[t])],
         UNCHANGED <<handled, output_bad, terminated, todo>>,
         op' = [op EXCEPT ![t] = "check"],
         out' = [out EXCEPT ![t] = Nothing]
  PROVE  ReplyInv'
<1> USE ThreadFacts DEF Server
<1> DEFINE n == handled["server"]
           k == Len(pipe["server"])
           response == {"response"}
<1>1. /\ n \in Nat /\ k \in Nat /\ pipe["server"] \in Seq(Message)
      /\ out \in [Threads -> Message] /\ out[t] \in Message
      /\ op \in [Threads -> {"idle", "spawn", "write", "check", "erring", "notify"}]
      /\ pipe \in [Roles -> Seq(Message)]
  <2>1. /\ n \in Nat /\ k \in Nat /\ pipe["server"] \in Seq(Message)
    BY PipeTypes
  <2>2. /\ out \in [Threads -> Message]
        /\ op \in [Threads -> {"idle", "spawn", "write", "check", "erring", "notify"}]
        /\ pipe \in [Roles -> Seq(Message)]
    <3> HIDE ThreadFacts DEF Server
    <3> QED
      BY DEF TypeOK
  <2>3. t \in Threads
    OBVIOUS
  <2> QED
    BY <2>1, <2>2, <2>3
<1>2. /\ pipe'["server"] = Append(pipe["server"], out[t]) /\ pipe'["client"] = pipe["client"]
  BY <1>1
<1>3. /\ Len(pipe'["server"]) = k + 1 /\ pipe'["server"][k + 1] = out[t]
      /\ \A i \in 1..k : pipe'["server"][i] = pipe["server"][i]
  BY <1>1, <1>2, PushType
<1>4. CountOf(pipe'["server"], response, k + 1)
        = CountOf(pipe["server"], response, k) + One(out[t].what \in response)
  <2> DEFINE old == pipe["server"]
             new == pipe'["server"]
  <2>1. SameUpTo(k, new, old)
    BY <1>3 DEF SameUpTo
  <2>2. new[k + 1] = out[t]
    BY <1>3
  <2> HIDE DEF k, old, new, response
  <2>3. CountOf(new, response, k + 1) = CountOf(old, response, k) + One(new[k + 1].what \in response)
    BY <1>1, <2>1, CountPush
  <2> QED
    BY <2>2, <2>3 DEF old, new
<1>5. Balanced
  BY RepliesForms
<1>6. /\ CountOf(pipe["client"], Requests, n) \in Nat /\ CountOf(pipe["server"], response, k) \in Nat
  BY <1>1, CountType
<1>7. /\ op'[t] = "check" /\ todo'[t] # "send" /\ ~Sending(t)' /\ Sending(t)
      /\ \A u \in Threads \ {t} : (Sending(u)' <=> Sending(u)) /\ out'[u] = out[u]
  BY <1>1 DEF ReaderInv, Sending
<1>8. /\ Balanced'
      /\ \A i \in Nat : out[t].what = "response" /\ i = k + 1 => Answers(i)'
  <2>1. CASE t = Server
    <3>1. /\ n > 0 /\ pipe["client"][n].what \in Requests
          /\ out[t] = [what |-> "response", id |-> pipe["client"][n].id]
      BY <1>7, <2>1, RepliesForms
    <3>2. CountOf(pipe["client"], Requests, n) = CountOf(pipe["server"], response, k) + 1
      BY <1>5, <1>7, <2>1 DEF Balanced, One
    <3>3. CountOf(pipe'["server"], response, k + 1) = CountOf(pipe["server"], response, k) + 1
      BY <1>4, <3>1 DEF One
    <3>4. Balanced'
      BY <1>2, <1>3, <1>6, <1>7, <2>1, <3>2, <3>3 DEF Balanced, One
    <3>5. ASSUME NEW i \in Nat, i = k + 1 PROVE Answers(i)'
      <4>1. n \in 1..handled'["server"]
        BY <1>1, <3>1
      <4>2. /\ pipe'["client"][n].what \in Requests
            /\ pipe'["client"][n].id = pipe'["server"][i].id
            /\ CountOf(pipe'["client"], Requests, n) = CountOf(pipe'["server"], {"response"}, i)
        BY <1>2, <1>3, <3>1, <3>2, <3>3, <3>5
      <4> HIDE DEF n
      <4> QED
        BY <4>1, <4>2 DEF Answers
    <3> QED
      BY <3>4, <3>5
  <2>2. CASE t = Main("server")
    <3>1. out[t].what = "notification"
      BY <1>7, <2>2, RepliesForms
    <3>2. Sending(Server)' <=> Sending(Server)
      BY <1>7, <2>2
    <3>3. CountOf(pipe'["server"], response, k + 1) = CountOf(pipe["server"], response, k)
      BY <1>4, <1>6, <3>1 DEF One
    <3>4. Balanced'
      BY <1>2, <1>3, <1>5, <3>2, <3>3 DEF Balanced, One
    <3> QED
      BY <3>1, <3>4
  <2> QED
    BY <2>1, <2>2
<1>9. ASSUME NEW i \in 1..Len(pipe'["server"]), pipe'["server"][i].what = "response"
      PROVE  Answers(i)'
  <2>1. CASE i \in 1..k
    <3>1. pipe["server"][i].what = "response"
      BY <1>3, <1>9, <2>1
    <3>2. Answers(i)
      BY <2>1, <3>1, RepliesForms
    <3> QED
      BY <2>1, <3>2, AnswersStay
  <2>2. CASE i = k + 1
    <3>1. out[t].what = "response" /\ i \in Nat
      BY <1>1, <1>3, <1>9, <2>2
    <3> QED
      BY <1>8, <2>2, <3>1
  <2> QED
    BY <1>1, <1>3, <2>1, <2>2
<1>10. Sending(Server)' => t # Server /\ Sending(Server) /\ out'[Server] = out[Server]
  BY <1>7
<1>11. Sending(Server)' =>
        /\ handled'["server"] > 0
        /\ pipe'["client"][handled'["server"]].what \in Requests
        /\ out'[Server] = [what |-> "response", id |-> pipe'["client"][handled'["server"]].id]
  BY <1>2, <1>10, RepliesForms
<1>12. Sending(Main("server"))' => out'[Main("server")].what = "notification"
  BY <1>7, RepliesForms
<1> QED
  BY <1>8, <1>9, <1>11, <1>12 DEF ReplyInv, RepliesInOrder, Answers, Balanced

\* The server's reader takes a message, and has a reply to write if it is a request.
LEMMA ReplyHandled ==
  ASSUME TypeOK, ReaderInv, ReplyInv, [Next]_vars, CallHandler("server")
  PROVE  ReplyInv'
<1> USE ThreadFacts DEF Server
<1> DEFINE n == handled["server"]
           message == pipe["client"][n + 1]
<1>1. /\ n \in Nat /\ handled'["server"] = n + 1 /\ arrived["server"] = n + 1
      /\ handled' = [handled EXCEPT !["server"] = n + 1]
      /\ pipe' = pipe /\ op' = op /\ output_bad' = output_bad /\ terminated' = terminated
      /\ ~Sending(Server)
  <2>1. reader["server"] = "lookup" /\ handled' = [handled EXCEPT !["server"] = n + 1]
    BY DEF CallHandler, Goto
  <2>2. n \in Nat /\ handled \in [Roles -> Nat]
    BY Types
  <2>3. arrived["server"] = n + 1 /\ Idle(Server)
    BY <2>1 DEF ReaderInv
  <2>4. pipe' = pipe /\ op' = op /\ output_bad' = output_bad /\ terminated' = terminated
    BY DEF CallHandler, LoopUnchanged, transports, processes
  <2> QED
    BY <2>1, <2>2, <2>3, <2>4 DEF Idle, Sending
<1>2. CountOf(pipe["client"], Requests, n + 1)
        = CountOf(pipe["client"], Requests, n) + One(message.what \in Requests)
  BY <1>1, CountNext
<1>3. /\ CountOf(pipe["client"], Requests, n) \in Nat
      /\ CountOf(pipe["server"], {"response"}, Len(pipe["server"])) \in Nat
  BY <1>1, CountType, PipeTypes
<1>4. todo \in [Threads -> {"none", "start", "initialize", "send", "up", "close", "down"}]
      /\ out \in [Threads -> Message]
  BY DEF TypeOK
<1>5. /\ Sending(Server)' <=> message.what \in Requests
      /\ Sending(Server)' => out'[Server] = [what |-> "response", id |-> message.id]
      /\ Sending(Main("server"))' <=> Sending(Main("server"))
      /\ out'[Main("server")] = out[Main("server")]
  <2>1. CASE message.what \in Requests
    <3>1. /\ todo' = [todo EXCEPT ![Server] = "send"]
          /\ out' = [out EXCEPT ![Server] = [what |-> "response", id |-> message.id]]
      BY <1>1, <2>1 DEF CallHandler, Sends, Resume
    <3> QED
      BY <1>1, <1>4, <2>1, <3>1 DEF Sending
  <2>2. CASE message.what \notin Requests
    <3>1. todo' = todo /\ out' = out
      BY <1>1, <2>2 DEF CallHandler
    <3> QED
      BY <1>1, <2>2, <3>1 DEF Sending
  <2> QED
    BY <2>1, <2>2
<1>6. \A i \in 1..Len(pipe'["server"]) :
        pipe'["server"][i].what = "response" => Answers(i)'
  BY <1>1, AnswersStay, RepliesForms
<1>7. Sending(Server)' =>
        /\ handled'["server"] > 0
        /\ pipe'["client"][handled'["server"]].what \in Requests
        /\ out'[Server] = [what |-> "response", id |-> pipe'["client"][handled'["server"]].id]
  <2>1. n + 1 > 0
    BY <1>1
  <2> QED
    BY <1>1, <1>5, <2>1
<1>8. Sending(Main("server"))' => out'[Main("server")].what = "notification"
  BY <1>5, RepliesForms
<1>9. output_bad'["server"] \/ terminated'["server"] \/ Balanced'
  <2> SUFFICES ASSUME Balanced PROVE Balanced'
    BY <1>1, RepliesForms
  <2>1. CountOf(pipe["client"], Requests, n)
          = CountOf(pipe["server"], {"response"}, Len(pipe["server"]))
    BY <1>1, <1>3 DEF Balanced, One
  <2>2. CountOf(pipe["client"], Requests, n + 1)
          = CountOf(pipe["server"], {"response"}, Len(pipe["server"])) + One(Sending(Server)')
    BY <1>2, <1>5, <2>1 DEF One
  <2>3. CountOf(pipe'["client"], Requests, handled'["server"])
          = CountOf(pipe'["server"], {"response"}, Len(pipe'["server"])) + One(Sending(Server)')
    BY <1>1, <2>2
  <2> QED
    BY <2>3 DEF Balanced, One
<1> QED
  BY <1>6, <1>7, <1>8, <1>9 DEF ReplyInv, RepliesInOrder, Answers, Balanced

\* What a thread does that has nothing to write.
LEMMA ReplyActs ==
  ASSUME TypeOK, ReplyInv, [Next]_vars, NEW t \in Threads, ~Sending(t),
         pipe' = pipe, handled' = handled, output_bad' = output_bad,
         terminated["server"] => terminated'["server"],
         \A u \in Threads \ {t} : todo'[u] = todo[u] /\ op'[u] = op[u] /\ out'[u] = out[u],
         Sending(t)' => t # Server /\ (t = Main("server") => out'[t].what = "notification")
  PROVE  ReplyInv'
<1> USE ThreadFacts DEF Server
<1>1. \A u \in Threads \ {t} : (Sending(u)' <=> Sending(u)) /\ out'[u] = out[u]
  BY DEF Sending
<1>2. Sending(Server)' => Sending(Server) /\ out'[Server] = out[Server]
  BY <1>1
<1>3. Sending(Server) => Sending(Server)'
  BY <1>1
<1>4. Sending(Main("server"))' => out'[Main("server")].what = "notification"
  BY <1>1, RepliesForms
<1> QED
  BY <1>2, <1>3, <1>4, ReplyKeeps

LEMMA ReplySends ==
  ASSUME TypeOK, ReaderInv, FailureInv, ReplyInv, [Next]_vars, NEW t \in Threads,
         Send(t) \/ SendThrows(t)
  PROVE  ReplyInv'
<1> USE ThreadFacts DEF Server
<1>1. /\ todo \in [Threads -> {"none", "start", "initialize", "send", "up", "close", "down"}]
      /\ op \in [Threads -> {"idle", "spawn", "write", "check", "erring", "notify"}]
      /\ out \in [Threads -> Message] /\ terminated \in [Roles -> BOOLEAN]
  BY DEF TypeOK
<1>2. /\ pipe' = pipe /\ handled' = handled /\ output_bad' = output_bad
      /\ terminated' = terminated \/
           (t = Server /\ terminated' = [terminated EXCEPT !["server"] = TRUE])
  BY SendEnds DEF Send, SendThrows, transports, reading
<1>3. terminated["server"] => terminated'["server"]
  BY <1>1, <1>2
<1>4. CASE Send(t) /\ active[t[1]]
  <2>1. /\ op' = [op EXCEPT ![t] = "write"] /\ out' = out /\ todo[t] = "send"
        /\ \E to \in {"up", "none"} : todo' = [todo EXCEPT ![t] = to]
    BY <1>4 DEF Send, Step, Resume
  <2>2. \A u \in Threads : (Sending(u)' <=> Sending(u)) /\ out'[u] = out[u]
    BY <1>1, <2>1 DEF Sending
  <2> QED
    BY <1>2, <1>3, <2>2, ReplyKeeps, RepliesForms
<1>5. CASE Send(t) /\ ~active[t[1]]
  <2>1. /\ op' = op /\ op[t] = "idle" /\ Thrown(t)
        /\ todo' = [todo EXCEPT ![t] = "none"] /\ out' = [out EXCEPT ![t] = Nothing]
    BY <1>5 DEF Send, Resume
  <2>2. /\ ~Sending(t)'
        /\ \A u \in Threads \ {t} : (Sending(u)' <=> Sending(u)) /\ out'[u] = out[u]
    BY <1>1, <2>1 DEF Sending
  <2>3. t = Server => terminated'["server"]
    BY <1>1, <2>1 DEF Thrown
  <2> QED
    BY <1>2, <1>3, <2>2, <2>3, ReplyKeeps, RepliesForms
<1>6. CASE SendThrows(t)
  <2>1. /\ op[t] = "erring" /\ op' = [op EXCEPT ![t] = "idle"] /\ out' = out
        /\ todo' = [todo EXCEPT ![t] = "none"]
    BY <1>6 DEF SendThrows, Step
  <2>2. ~Sending(t) /\ ~Sending(t)'
    BY <1>1, <2>1 DEF Sending, ReaderInv
  <2>3. \A u \in Threads \ {t} : todo'[u] = todo[u] /\ op'[u] = op[u] /\ out'[u] = out[u]
    BY <1>1, <2>1
  <2> QED
    BY <1>2, <1>3, <2>2, <2>3, ReplyActs
<1> QED
  BY <1>4, <1>5, <1>6

LEMMA ReplyWrites ==
  ASSUME TypeOK, ReaderInv, ReplyInv, [Next]_vars, NEW t \in Threads, Alive(t[1]), Write(t)
  PROVE  ReplyInv'
<1> USE ThreadFacts DEF Server
<1>1. /\ todo \in [Threads -> {"none", "start", "initialize", "send", "up", "close", "down"}]
      /\ op \in [Threads -> {"idle", "spawn", "write", "check", "erring", "notify"}]
      /\ out \in [Threads -> Message] /\ output_bad \in [Roles -> BOOLEAN]
      /\ pipe \in [Roles -> Seq(Message)]
  BY DEF TypeOK
<1>2. /\ op[t] = "write" /\ op' = [op EXCEPT ![t] = "check"] /\ todo' = todo
      /\ out' = [out EXCEPT ![t] = Nothing] /\ handled' = handled /\ terminated' = terminated
      /\ \/ /\ ~output_bad[t[1]] /\ output_bad' = output_bad
            /\ pipe' = [pipe EXCEPT ![t[1]] = Append(pipe[t[1]], out[t])]
         \/ /\ output_bad' = [output_bad EXCEPT ![t[1]] = TRUE] /\ pipe' = pipe
  BY DEF Write, Step, reading
<1>3. /\ ~Sending(t)'
      /\ \A u \in Threads \ {t} : (Sending(u)' <=> Sending(u)) /\ out'[u] = out[u]
  BY <1>1, <1>2 DEF Sending, ReaderInv
<1>4. output_bad["server"] => output_bad'["server"]
  <2>1. t[1] \in Roles
    OBVIOUS
  <2>2. CASE output_bad' = [output_bad EXCEPT ![t[1]] = TRUE]
    BY <1>1, <2>1, <2>2
  <2> QED
    BY <1>2, <2>2
<1>5. CASE t[1] = "client"
  <2>1. t # Server /\ t # Main("server") /\ pipe'["server"] = pipe["server"]
    BY <1>1, <1>2, <1>5
  <2> QED
    BY <1>2, <1>3, <1>4, <2>1, ReplyKeeps, RepliesForms
<1>6. CASE t[1] = "server" /\ pipe' = pipe
  <2>1. t = Server => output_bad'["server"]
    <3>1. pipe[t[1]] # Append(pipe[t[1]], out[t])
      <4>1. pipe[t[1]] \in Seq(Message) /\ out[t] \in Message
        BY <1>1
      <4>2. Len(Append(pipe[t[1]], out[t])) = Len(pipe[t[1]]) + 1 /\ Len(pipe[t[1]]) \in Nat
        BY <4>1
      <4> QED
        BY <4>2
    <3> QED
      BY <1>1, <1>2, <1>6, <3>1
  <2> QED
    BY <1>2, <1>3, <1>4, <1>6, <2>1, ReplyKeeps, RepliesForms
<1>7. CASE t[1] = "server" /\ pipe' # pipe
  <2>1. t \in {Server, Main("server")} /\ ~terminated["server"]
    BY <1>7 DEF Alive
  <2>2. /\ ~output_bad["server"] /\ output_bad' = output_bad
        /\ pipe' = [pipe EXCEPT !["server"] = Append(pipe["server"], out[t])]
    BY <1>2, <1>7
  <2> QED
    BY <1>2, <2>1, <2>2, ReplyWritten
<1> QED
  BY <1>5, <1>6, <1>7

LEMMA ReplyStep ==
  ASSUME TypeOK, ReaderInv, FailureInv, ReplyInv, [Next]_vars
  PROVE  ReplyInv'
<1> USE ThreadFacts DEF Server
<1>1. /\ todo \in [Threads -> {"none", "start", "initialize", "send", "up", "close", "down"}]
      /\ op \in [Threads -> {"idle", "spawn", "write", "check", "erring", "notify"}]
      /\ out \in [Threads -> Message] /\ terminated \in [Roles -> BOOLEAN]
  BY DEF TypeOK
\* What the application calls.
<1>2. ASSUME NEW p \in Roles, Open(p) PROVE ReplyInv'
  <2>1. /\ todo' = [todo EXCEPT ![Main(p)] = "start"] /\ op[Main(p)] = "idle"
        /\ todo[Main(p)] = "none" /\ UNCHANGED <<op, out, pipe, handled, output_bad, terminated>>
    BY <1>2 DEF Open, Resume, transports, reading, processes
  <2> QED
    BY <1>1, <2>1, ReplyActs DEF Sending
<1>3. ASSUME NEW p \in Roles, NEW t \in Callers(p), Notification(t) PROVE ReplyInv'
  <2>1. /\ todo' = [todo EXCEPT ![t] = "send"] /\ op[t] = "idle" /\ todo[t] = "none"
        /\ out' = [out EXCEPT ![t] = [what |-> "notification", id |-> 0]]
        /\ UNCHANGED <<op, pipe, handled, output_bad, terminated>>
    BY <1>3 DEF Notification, Sends, Resume, transports, reading, processes
  <2>2. t \in Threads /\ t # Server
    BY DEF Callers
  <2> QED
    BY <1>1, <2>1, <2>2, ReplyActs DEF Sending
<1>4. ASSUME NEW t \in Callers("client"), Request(t) PROVE ReplyInv'
  <2>1. /\ todo' = [todo EXCEPT ![t] = "send"] /\ op[t] = "idle" /\ todo[t] = "none"
        /\ \E id : out' = [out EXCEPT ![t] = [what |-> "request", id |-> id]]
        /\ UNCHANGED <<op, pipe, handled, output_bad, terminated>>
    BY <1>4 DEF Request, Sends, Resume, transports, reading, processes
  <2>2. t \in Threads /\ t # Server /\ t # Main("server")
    BY DEF Callers
  <2> QED
    BY <1>1, <2>1, <2>2, ReplyActs DEF Sending
<1>5. ASSUME NEW t \in Threads, Leave(t) PROVE ReplyInv'
  <2>1. /\ todo' = [todo EXCEPT ![t] = "close"] /\ op[t] = "idle" /\ todo[t] = "none"
        /\ UNCHANGED <<op, out, pipe, handled, output_bad, terminated>>
    BY <1>5 DEF Leave, Resume, transports, reading, processes
  <2> QED
    BY <1>1, <2>1, ReplyActs DEF Sending
\* What the library's main threads do.
<1>6. ASSUME Initialize PROVE ReplyInv'
  <2>1. /\ todo[Main("client")] = "initialize" /\ op[Main("client")] = "idle"
        /\ \E to \in {"none", "send"} : todo' = [todo EXCEPT ![Main("client")] = to]
        /\ out' = out \/ \E message : out' = [out EXCEPT ![Main("client")] = message]
        /\ UNCHANGED <<op, pipe, handled, output_bad, terminated>>
    BY <1>6 DEF Initialize, Resume, transports, reading, processes
  <2>2. /\ Main("client") # Server /\ Main("client") # Main("server") /\ ~Sending(Main("client"))
        /\ \A u \in Threads \ {Main("client")} : todo'[u] = todo[u] /\ out'[u] = out[u]
    BY <1>1, <2>1 DEF Sending
  <2> QED
    BY <2>1, <2>2, ReplyActs
<1>7. ASSUME NEW p \in Roles, Start(p) \/ Spawn(p) \/ Up(p) PROVE ReplyInv'
  <2>1. /\ todo[Main(p)] # "send" /\ op[Main(p)] # "write"
        /\ todo' = todo \/ \E to \in {"none", "initialize", "up"} : todo' = [todo EXCEPT ![Main(p)] = to]
        /\ op' = op \/ \E to \in {"idle", "spawn"} : op' = [op EXCEPT ![Main(p)] = to]
        /\ UNCHANGED <<out, pipe, handled, output_bad, terminated>>
    <3>1. CASE Start(p)
      BY <3>1 DEF Start, Step, Resume, transports, reading, processes
    <3>2. CASE Spawn(p)
      BY <1>1, <3>2 DEF Spawn, Step, Resume, transports, processes, ReaderInv
    <3>3. CASE Up(p)
      BY <3>3 DEF Up, Step, Resume, transports, reading, processes
    <3> QED
      BY <1>7, <3>1, <3>2, <3>3
  <2>2. /\ ~Sending(Main(p)) /\ ~Sending(Main(p))'
        /\ \A u \in Threads \ {Main(p)} : todo'[u] = todo[u] /\ op'[u] = op[u]
    BY <1>1, <2>1 DEF Sending
  <2> QED
    BY <2>1, <2>2, ReplyActs
<1>8. ASSUME NEW t \in Threads, CheckOutput(t) \/ Close(t) \/ Notify(t) \/ Down(t) PROVE ReplyInv'
  <2>1. /\ todo[t] # "send" /\ op[t] # "write"
        /\ todo' = todo \/ \E to \in {"none", "down"} : todo' = [todo EXCEPT ![t] = to]
        /\ op' = op \/ \E to \in {"idle", "notify", "erring"} : op' = [op EXCEPT ![t] = to]
        /\ UNCHANGED <<out, pipe, handled, output_bad, terminated>>
    <3>1. CASE CheckOutput(t)
      BY <1>1, <3>1 DEF CheckOutput, Step, transports, reading, processes, ReaderInv
    <3>2. CASE Close(t)
      BY <3>2 DEF Close, Step, Resume, reading, processes
    <3>3. CASE Notify(t)
      BY <1>1, <3>3 DEF Notify, Step, transports, reading, processes, ReaderInv
    <3>4. CASE Down(t)
      BY <3>4 DEF Down, Resume, transports, reading, processes
    <3> QED
      BY <1>8, <3>1, <3>2, <3>3, <3>4
  <2>2. /\ ~Sending(t) /\ ~Sending(t)'
        /\ \A u \in Threads \ {t} : todo'[u] = todo[u] /\ op'[u] = op[u]
    BY <1>1, <2>1 DEF Sending
  <2> QED
    BY <2>1, <2>2, ReplyActs
\* The client's handler and what concerns nobody's writing.
<1>9. ASSUME CallHandler("client") PROVE ReplyInv'
  <2>1. /\ handled'["server"] = handled["server"]
        /\ UNCHANGED <<op, todo, out, pipe, output_bad, terminated>>
    <3>1. handled \in [Roles -> Nat] /\ handled' = [handled EXCEPT !["client"] = handled["client"] + 1]
      BY <1>9, Types DEF CallHandler
    <3>2. UNCHANGED <<op, todo, out, pipe, output_bad, terminated>>
      BY <1>9 DEF CallHandler, LoopUnchanged, transports, processes
    <3> QED
      BY <3>1, <3>2
  <2>2. \A u \in Threads : (Sending(u)' <=> Sending(u)) /\ out'[u] = out[u]
    BY <2>1 DEF Sending
  <2> QED
    BY <2>1, <2>2, ReplyKeeps, RepliesForms
<1>10. ASSUME UNCHANGED <<op, todo, out, pipe, handled, output_bad, terminated>> PROVE ReplyInv'
  <2>1. \A u \in Threads : (Sending(u)' <=> Sending(u)) /\ out'[u] = out[u]
    BY <1>10 DEF Sending
  <2> QED
    BY <1>10, <2>1, ReplyKeeps, RepliesForms
<1>12. ASSUME NEW p \in Roles, HandlerThrows(p) PROVE ReplyInv'
  <2>1. /\ op[Reader(p)] = "idle" /\ UNCHANGED <<op, pipe, handled, output_bad>>
        /\ todo' = [todo EXCEPT ![Reader(p)] = "none"]
        /\ out' = [out EXCEPT ![Reader(p)] = Nothing]
        /\ terminated' = [terminated EXCEPT ![p] = TRUE]
    BY <1>12, Throws
  <2>2. /\ ~Sending(Reader(p))'
        /\ \A u \in Threads \ {Reader(p)} : (Sending(u)' <=> Sending(u)) /\ out'[u] = out[u]
    BY <1>1, <2>1 DEF Sending
  <2>3. /\ Reader(p) = Server => terminated'["server"]
        /\ terminated["server"] => terminated'["server"]
    BY <1>1, <2>1
  <2> QED
    BY <2>1, <2>2, <2>3, ReplyKeeps, RepliesForms
<1>11. \/ UNCHANGED <<op, todo, out, pipe, handled, output_bad, terminated>>
       \/ CallHandler("client") \/ CallHandler("server") \/ Initialize
       \/ \E p \in Roles : Open(p) \/ Start(p) \/ Spawn(p) \/ Up(p) \/ HandlerThrows(p)
       \/ \E p \in Roles : \E t \in Callers(p) : Notification(t)
       \/ \E t \in Callers("client") : Request(t)
       \/ \E t \in Threads : \/ Leave(t) \/ Send(t) \/ SendThrows(t) \/ CheckOutput(t)
                             \/ Close(t) \/ Notify(t) \/ Down(t)
       \/ \E t \in Threads : Alive(t[1]) /\ Write(t)
  <2>1. CASE UNCHANGED vars
    BY <2>1 DEF vars, transports, reading, processes
  <2>2. ASSUME NEW p \in Roles, Calls(p)
        PROVE  \/ UNCHANGED <<op, todo, out, pipe, handled, output_bad, terminated>>
               \/ Open(p) \/ \E t \in Callers(p) : Notification(t) \/ (t \in Threads /\ Leave(t))
               \/ \E t \in Callers("client") : Request(t)
    BY <2>2 DEF Calls, Callers, Exit, transports, reading
  <2>3. ASSUME NEW p \in Roles, Reading(p)
        PROVE  \/ UNCHANGED <<op, todo, out, pipe, handled, output_bad, terminated>>
               \/ CallHandler("client") \/ CallHandler("server") \/ HandlerThrows(p)
    BY <2>3 DEF Reading, ReadLine, ReadEnds, CheckActive, HandlerReturns, LoopUnchanged,
       transports, processes, Roles
  <2>4. ASSUME NEW p \in Roles, NEW t \in {Main(p), Reader(p)}, Runs(t)
        PROVE  /\ t \in Threads /\ t[1] = p
               /\ \/ Start(p) \/ Spawn(p) \/ Up(p) \/ Initialize \/ Send(t) \/ Write(t)
                  \/ CheckOutput(t) \/ SendThrows(t) \/ Close(t) \/ Notify(t) \/ Down(t)
    BY <2>4 DEF Runs
  <2> QED
    BY <2>1, <2>2, <2>3, <2>4 DEF Next, Process
<1> QED
  BY <1>2, <1>3, <1>4, <1>5, <1>6, <1>7, <1>8, <1>9, <1>10, <1>11, <1>12, ReplyHandled,
     ReplySends, ReplyWrites

\* However two threads of the client write requests and the server's replies mix
\* with notifications, each reply answers the next request, in order, once.
THEOREM RepliesKeepOrder == Spec => []RepliesInOrder
<1>1. Init => FailureInv /\ ReplyInv
  BY FailureInit, ReplyInit
<1>2. TypeOK /\ ReaderInv /\ FailureInv /\ ReplyInv /\ [Next]_vars => FailureInv' /\ ReplyInv'
  BY FailureStep, ReplyStep
<1>3. ReplyInv => RepliesInOrder
  BY DEF ReplyInv
<1> QED
  BY <1>1, <1>2, <1>3, TypeAndReaderHold, PTL DEF Spec

(***************************************************************************)
(* The bounds on what is sent.                                             *)
(***************************************************************************)

LEMMA Limits ==
  /\ Limit(Main("client")) = ClientSends /\ Limit(Reader("client")) = CallbackSends
  /\ Limit(Main("server")) = ServerSends /\ Limit(Server) = handled["server"]
  /\ \A t \in Threads : t # Server => Limit(t)' = Limit(t)
  /\ Limit(Server)' = handled'["server"]
  /\ \A t \in Threads : t \in {Main("client"), Reader("client"), Main("server"), Server}
<1>1. /\ Main("client") # Reader("client") /\ Main("client") # Main("server")
      /\ Main("client") # Server /\ Reader("client") # Main("server")
      /\ Reader("client") # Server /\ Main("server") # Server
  BY DEF Main, Reader, Server
<1>2. \A t \in Threads : t \in {Main("client"), Reader("client"), Main("server"), Server}
  BY DEF Threads, Roles, Main, Reader, Server
<1> QED
  BY <1>1, <1>2 DEF Limit

LEMMA CallersMaySend ==
  ASSUME NEW p \in Roles, NEW t \in Callers(p), MaySend(t)
  PROVE  t \in Threads /\ t # Server /\ sends[t] < Limit(t)
<1>1. t \in {Main("client"), Reader("client"), Main("server")} /\ t # Server /\ t \in Threads
  BY ThreadFacts DEF Callers, Roles, Server
<1>2. /\ Main("client") # Reader("client") /\ Main("client") # Main("server")
      /\ Reader("client") # Main("server")
  BY ThreadFacts
<1> QED
  BY <1>1, <1>2, Limits DEF MaySend

LEMMA BoundInit == Init => BoundInv
<1> SUFFICES ASSUME Init PROVE BoundInv
  OBVIOUS
<1>1. /\ \A t \in Threads : sends[t] = 0 /\ todo[t] = "none" /\ op[t] = "idle"
      /\ \A p \in Roles : Len(pipe[p]) = 0
      /\ handled["server"] = 0
  BY ThreadFacts DEF Init
<1>2. \A t \in Threads : Limit(t) \in Nat
  BY <1>1, Limits, BoundsType
<1>3. \A t \in Threads : sends[t] + One(todo[t] = "send") <= Limit(t)
  BY <1>1, <1>2 DEF One
<1>4. todo[Main("client")] \notin {"start", "initialize"}
  BY <1>1, ThreadFacts
<1>5. ASSUME NEW p \in Roles
      PROVE  Len(pipe[p]) + One(op[Main(p)] = "write") + One(op[Reader(p)] = "write")
               <= sends[Main(p)] + sends[Reader(p)]
  <2>1. Main(p) \in Threads /\ Reader(p) \in Threads
    BY ThreadFacts
  <2>2. Len(pipe[p]) = 0 /\ sends[Main(p)] = 0 /\ sends[Reader(p)] = 0
    BY <1>1, <2>1
  <2>3. One(op[Main(p)] = "write") = 0 /\ One(op[Reader(p)] = "write") = 0
    BY <1>1, <2>1 DEF One
  <2> QED
    BY <2>2, <2>3
<1> QED
  BY <1>3, <1>4, <1>5 DEF BoundInv

LEMMA BoundTypes ==
  ASSUME TypeOK
  PROVE  /\ sends \in [Threads -> Nat]
         /\ todo \in [Threads -> {"none", "start", "initialize", "send", "up", "close", "down"}]
         /\ op \in [Threads -> {"idle", "spawn", "write", "check", "erring", "notify"}]
         /\ \A t \in Threads : Limit(t) \in Nat
  BY Limits, BoundsType, PipeTypes DEF TypeOK

\* A step of one thread, if any, that sends nothing.
LEMMA BoundActs ==
  ASSUME TypeOK, BoundInv, [Next]_vars, NEW t \in Threads, sends' = sends, pipe' = pipe,
         \A u \in Threads \ {t} : todo'[u] = todo[u] /\ op'[u] = op[u],
         op'[t] = "write" => op[t] = "write",
         todo'[t] = "send" => todo[t] = "send" \/ sends[t] + 1 <= Limit(t)',
         t = Main("client") /\ todo'[t] \in {"start", "initialize"} =>
           todo[t] \in {"start", "initialize"} \/ sends[t] < ClientSends
  PROVE  BoundInv'
<1> USE ThreadFacts
<1>1. \A u \in Threads : Limit(u) \in Nat /\ Limit(u)' \in Nat /\ Limit(u) <= Limit(u)'
  <2>1. handled["server"] \in Nat /\ handled["server"] <= handled'["server"] /\ handled'["server"] \in Nat
    BY HandledGrows, Types DEF CallHandler
  <2>2. \A u \in Threads : Limit(u) \in Nat
    BY BoundTypes
  <2> QED
    BY <2>1, <2>2, Limits
<1>2. ASSUME NEW u \in Threads PROVE sends'[u] + One(todo'[u] = "send") <= Limit(u)'
  <2>1. sends[u] \in Nat /\ sends[u] + One(todo[u] = "send") <= Limit(u)
    BY BoundTypes DEF BoundInv
  <2>2. todo'[u] = "send" => todo[u] = "send" \/ sends[u] + 1 <= Limit(u)'
    OBVIOUS
  <2> QED
    BY <1>1, <2>1, <2>2 DEF One
<1>3. todo'[Main("client")] \in {"start", "initialize"} => sends'[Main("client")] < ClientSends
  BY DEF BoundInv
<1>4. ASSUME NEW p \in Roles
      PROVE  Len(pipe'[p]) + One(op'[Main(p)] = "write") + One(op'[Reader(p)] = "write")
               <= sends'[Main(p)] + sends'[Reader(p)]
  <2> DEFINE length == Len(pipe[p])
             m == One(op[Main(p)] = "write")
             r == One(op[Reader(p)] = "write")
             m2 == One(op'[Main(p)] = "write")
             r2 == One(op'[Reader(p)] = "write")
  <2>1. /\ op'[Main(p)] = "write" => op[Main(p)] = "write"
        /\ op'[Reader(p)] = "write" => op[Reader(p)] = "write"
    OBVIOUS
  <2>2. /\ length \in Nat /\ sends[Main(p)] \in Nat /\ sends[Reader(p)] \in Nat
        /\ length + m + r <= sends[Main(p)] + sends[Reader(p)]
    BY PipeTypes, BoundTypes DEF BoundInv
  <2>3. m2 <= m /\ r2 <= r /\ m \in Nat /\ r \in Nat /\ m2 \in Nat /\ r2 \in Nat
    BY <2>1 DEF One
  <2>4. length = Len(pipe'[p])
    OBVIOUS
  <2> HIDE DEF length, m, r, m2, r2
  <2>5. length + m2 + r2 <= sends[Main(p)] + sends[Reader(p)]
    BY <2>2, <2>3
  <2> QED
    BY <2>4, <2>5 DEF m2, r2
<1> QED
  BY <1>2, <1>3, <1>4 DEF BoundInv, Limit

LEMMA BoundSend ==
  ASSUME TypeOK, ReaderInv, BoundInv, [Next]_vars, NEW t \in Threads, Send(t)
  PROVE  BoundInv'
<1> USE ThreadFacts
<1>1. /\ sends' = [sends EXCEPT ![t] = sends[t] + 1] /\ pipe' = pipe
      /\ todo[t] = "send" /\ op[t] = "idle" /\ handled' = handled
      /\ \E to \in {"up", "none"} : todo' = [todo EXCEPT ![t] = to]
      /\ op' = op \/ op' = [op EXCEPT ![t] = "write"]
  <2>1. CASE active[t[1]]
    BY <2>1 DEF Send, Resume, Step, reading
  <2>2. CASE ~active[t[1]]
    BY <2>2 DEF Send, Resume, reading
  <2> QED
    BY <2>1, <2>2
<1>2. \A u \in Threads : Limit(u)' = Limit(u) /\ Limit(u) \in Nat
  BY <1>1, Limits, BoundTypes
<1>3. ASSUME NEW u \in Threads PROVE sends'[u] + One(todo'[u] = "send") <= Limit(u)'
  <2>1. sends[u] \in Nat /\ sends[u] + One(todo[u] = "send") <= Limit(u)
    BY BoundTypes DEF BoundInv
  <2>2. IF u = t THEN sends'[u] = sends[u] + 1 /\ todo[u] = "send" /\ todo'[u] # "send"
        ELSE sends'[u] = sends[u] /\ todo'[u] = todo[u]
    BY <1>1, BoundTypes
  <2> QED
    BY <1>2, <2>1, <2>2 DEF One
<1>4. todo'[Main("client")] \in {"start", "initialize"} => sends'[Main("client")] < ClientSends
  BY <1>1, BoundTypes DEF BoundInv
<1>5. ASSUME NEW p \in Roles
      PROVE  Len(pipe'[p]) + One(op'[Main(p)] = "write") + One(op'[Reader(p)] = "write")
               <= sends'[Main(p)] + sends'[Reader(p)]
  <2>1. /\ Len(pipe[p]) \in Nat /\ sends[Main(p)] \in Nat /\ sends[Reader(p)] \in Nat
        /\ Len(pipe[p]) + One(op[Main(p)] = "write") + One(op[Reader(p)] = "write")
               <= sends[Main(p)] + sends[Reader(p)]
    BY PipeTypes, BoundTypes DEF BoundInv
  <2>2. ASSUME NEW u \in Threads
        PROVE  /\ sends[u] \in Nat
               /\ IF u = t THEN sends'[u] = sends[u] + 1 /\ op[u] # "write"
                  ELSE sends'[u] = sends[u] /\ op'[u] = op[u]
    BY <1>1, BoundTypes
  <2> DEFINE length == Len(pipe[p])
             m == One(op[Main(p)] = "write")
             r == One(op[Reader(p)] = "write")
             m2 == One(op'[Main(p)] = "write")
             r2 == One(op'[Reader(p)] = "write")
             sm == sends[Main(p)]
             sr == sends[Reader(p)]
             sm2 == sends'[Main(p)]
             sr2 == sends'[Reader(p)]
  <2>3. m2 + sm <= m + sm2 /\ r2 + sr <= r + sr2 /\ sm2 \in Nat /\ sr2 \in Nat
    BY <2>2 DEF One
  <2>4. m \in Nat /\ r \in Nat /\ m2 \in Nat /\ r2 \in Nat
    BY DEF One
  <2>5. length \in Nat /\ sm \in Nat /\ sr \in Nat /\ length + m + r <= sm + sr
    BY <2>1
  <2>6. Len(pipe'[p]) = length
    BY <1>1
  <2> HIDE DEF length, m, r, m2, r2, sm, sr, sm2, sr2
  <2>7. length + m2 + r2 <= sm2 + sr2
    BY <2>3, <2>4, <2>5
  <2> QED
    BY <2>6, <2>7 DEF m2, r2, sm2, sr2
<1> QED
  BY <1>3, <1>4, <1>5 DEF BoundInv, Limit

LEMMA BoundWrite ==
  ASSUME TypeOK, ReaderInv, BoundInv, [Next]_vars, NEW t \in Threads, Write(t)
  PROVE  BoundInv'
<1> USE ThreadFacts
<1>1. /\ sends' = sends /\ todo' = todo /\ handled' = handled
      /\ op[t] = "write" /\ op' = [op EXCEPT ![t] = "check"]
      /\ pipe' = pipe \/ pipe' = [pipe EXCEPT ![t[1]] = Append(pipe[t[1]], out[t])]
  BY DEF Write, Step, reading
<1>2. \A u \in Threads : Limit(u)' = Limit(u)
  BY <1>1, Limits
<1>3. ASSUME NEW p \in Roles
      PROVE  /\ IF p = t[1] THEN Len(pipe'[p]) <= Len(pipe[p]) + 1 ELSE pipe'[p] = pipe[p]
             /\ Len(pipe'[p]) \in Nat
  <2>1. pipe \in [Roles -> Seq(Message)] /\ out \in [Threads -> Message] /\ t[1] \in Roles
    BY DEF TypeOK
  <2>2. CASE pipe' = pipe
    BY <2>1, <2>2
  <2>3. CASE pipe' = [pipe EXCEPT ![t[1]] = Append(pipe[t[1]], out[t])]
    <3>1. out[t] \in Message /\ pipe[p] \in Seq(Message)
      BY <2>1
    <3>2. pipe'[p] = IF p = t[1] THEN Append(pipe[p], out[t]) ELSE pipe[p]
      BY <2>1, <2>3
    <3> QED
      BY <3>1, <3>2, PushType
  <2> QED
    BY <1>1, <2>2, <2>3
<1>4. ASSUME NEW p \in Roles
      PROVE  Len(pipe'[p]) + One(op'[Main(p)] = "write") + One(op'[Reader(p)] = "write")
               <= sends'[Main(p)] + sends'[Reader(p)]
  <2>1. /\ Len(pipe[p]) \in Nat /\ sends[Main(p)] \in Nat /\ sends[Reader(p)] \in Nat
        /\ Len(pipe[p]) + One(op[Main(p)] = "write") + One(op[Reader(p)] = "write")
               <= sends[Main(p)] + sends[Reader(p)]
    BY PipeTypes, BoundTypes DEF BoundInv
  <2> DEFINE length == Len(pipe[p])
             length2 == Len(pipe'[p])
             m == One(op[Main(p)] = "write")
             r == One(op[Reader(p)] = "write")
             m2 == One(op'[Main(p)] = "write")
             r2 == One(op'[Reader(p)] = "write")
  <2>2. CASE p = t[1]
    <3>1. \/ t = Main(p) /\ op'[Reader(p)] = op[Reader(p)]
          \/ t = Reader(p) /\ op'[Main(p)] = op[Main(p)]
      <4>1. t = Main(p) \/ t = Reader(p)
        BY <2>2
      <4>2. \A u \in Threads : u # t => op'[u] = op[u]
        BY <1>1, BoundTypes
      <4> QED
        BY <4>1, <4>2
    <3>2. op[t] = "write" /\ op'[t] = "check"
      BY <1>1, BoundTypes
    <3>3. m2 + r2 + 1 = m + r
      BY <3>1, <3>2 DEF One
    <3>4. length2 <= length + 1 /\ length2 \in Nat
      BY <1>3, <2>2
    <3>5. m \in Nat /\ r \in Nat /\ m2 \in Nat /\ r2 \in Nat
      BY DEF One
    <3>6. /\ length \in Nat /\ sends[Main(p)] \in Nat /\ sends[Reader(p)] \in Nat
          /\ length + m + r <= sends[Main(p)] + sends[Reader(p)]
      BY <2>1
    <3> HIDE DEF length, length2, m, r, m2, r2
    <3>7. length2 + m2 + r2 <= sends[Main(p)] + sends[Reader(p)]
      BY <3>3, <3>4, <3>5, <3>6
    <3> QED
      BY <1>1, <3>7 DEF length2, m2, r2
  <2>3. CASE p # t[1]
    <3>1. op'[Main(p)] = op[Main(p)] /\ op'[Reader(p)] = op[Reader(p)] /\ pipe'[p] = pipe[p]
      BY <1>1, <1>3, <2>3, BoundTypes
    <3> QED
      BY <1>1, <2>1, <3>1
  <2> QED
    BY <2>2, <2>3
<1> QED
  BY <1>1, <1>2, <1>4 DEF BoundInv, Limit

LEMMA BoundStep ==
  ASSUME TypeOK, ReaderInv, BoundInv, [Next]_vars
  PROVE  BoundInv'
<1> USE ThreadFacts
<1>1. /\ todo \in [Threads -> {"none", "start", "initialize", "send", "up", "close", "down"}]
      /\ op \in [Threads -> {"idle", "spawn", "write", "check", "erring", "notify"}]
      /\ sends \in [Threads -> Nat] /\ \A t \in Threads : Limit(t) \in Nat
  BY BoundTypes
\* What the application calls.
<1>2. ASSUME NEW p \in Roles, Open(p) PROVE BoundInv'
  <2>1. /\ todo' = [todo EXCEPT ![Main(p)] = "start"] /\ UNCHANGED <<op, sends, pipe>>
        /\ p = "client" => sends[Main(p)] < Limit(Main(p))
    <3>1. Main("client") \in Callers("client")
      BY DEF Callers
    <3> QED
      BY <1>2, <3>1, CallersMaySend DEF Open, Resume
  <2>2. Main(p) = Main("client") => p = "client"
    OBVIOUS
  <2> QED
    BY <1>1, <2>1, <2>2, BoundActs, Limits
<1>3. ASSUME NEW p \in Roles, NEW t \in Callers(p), Notification(t) \/ Request(t)
      PROVE  BoundInv'
  <2>1. /\ todo' = [todo EXCEPT ![t] = "send"] /\ UNCHANGED <<op, sends, pipe>>
        /\ MaySend(t)
    BY <1>3 DEF Notification, Request, MayCall, Sends, Resume
  <2>2. /\ t \in Threads /\ sends[t] \in Nat /\ Limit(t) \in Nat /\ Limit(t)' = Limit(t)
        /\ sends[t] + 1 <= Limit(t)
    BY <1>1, <2>1, CallersMaySend, Limits
  <2> QED
    BY <1>1, <2>1, <2>2, BoundActs
<1>4. ASSUME NEW t \in Threads, Leave(t) \/ Down(t) PROVE BoundInv'
  <2>1. /\ \E to \in {"close", "none"} : todo' = [todo EXCEPT ![t] = to]
        /\ UNCHANGED <<op, sends, pipe>>
    BY <1>4 DEF Leave, Down, Resume
  <2> QED
    BY <1>1, <2>1, BoundActs
\* What the library's threads do.
<1>5. ASSUME Initialize PROVE BoundInv'
  <2>1. /\ todo[Main("client")] = "initialize"
        /\ \E to \in {"none", "send"} : todo' = [todo EXCEPT ![Main("client")] = to]
        /\ UNCHANGED <<op, sends, pipe>>
    BY <1>5 DEF Initialize, Resume
  <2>2. /\ sends[Main("client")] \in Nat /\ sends[Main("client")] < Limit(Main("client"))
        /\ Limit(Main("client")) \in Nat /\ Limit(Main("client"))' = Limit(Main("client"))
    BY <1>1, <2>1, Limits DEF BoundInv, Server
  <2>3. sends[Main("client")] + 1 <= Limit(Main("client"))'
    BY <2>2
  <2> QED
    BY <1>1, <2>1, <2>3, BoundActs
<1>6. ASSUME NEW p \in Roles, Start(p) \/ Spawn(p) \/ Up(p) PROVE BoundInv'
  <2>1. /\ \/ todo' = todo
           \/ \E to \in {"none", "up"} : todo' = [todo EXCEPT ![Main(p)] = to]
           \/ todo' = [todo EXCEPT ![Main(p)] = "initialize"] /\ todo[Main(p)] = "start"
        /\ op' = op \/ \E to \in {"idle", "spawn"} : op' = [op EXCEPT ![Main(p)] = to]
        /\ UNCHANGED <<sends, pipe>>
    <3>1. CASE Start(p)
      BY <3>1 DEF Start, Step, Resume
    <3>2. CASE Spawn(p)
      BY <3>2 DEF Spawn, Step
    <3>3. CASE Up(p)
      BY <3>3 DEF Up, Resume
    <3> QED
      BY <1>6, <3>1, <3>2, <3>3
  <2> QED
    BY <1>1, <2>1, BoundActs
<1>7. ASSUME NEW t \in Threads, CheckOutput(t) \/ SendThrows(t) \/ Close(t) \/ Notify(t)
      PROVE  BoundInv'
  <2>1. /\ todo' = todo \/ \E to \in {"none", "down"} : todo' = [todo EXCEPT ![t] = to]
        /\ op' = op \/ \E to \in {"idle", "notify", "erring"} : op' = [op EXCEPT ![t] = to]
        /\ UNCHANGED <<sends, pipe>>
    <3>1. CASE CheckOutput(t)
      BY <3>1 DEF CheckOutput, Step
    <3>2. CASE Close(t)
      BY <3>2 DEF Close, Step, Resume
    <3>3. CASE Notify(t)
      BY <3>3 DEF Notify, Step
    <3>4. CASE SendThrows(t)
      BY <3>4 DEF SendThrows, Step
    <3> QED
      BY <1>7, <3>1, <3>2, <3>3, <3>4
  <2> QED
    BY <1>1, <2>1, BoundActs
\* The server's reader has a reply to send for the message it has handled.
<1>8. ASSUME NEW p \in Roles, CallHandler(p) PROVE BoundInv'
  <2>1. UNCHANGED <<op, sends, pipe>>
    BY <1>8 DEF CallHandler, LoopUnchanged
  <2>2. CASE todo' = todo
    BY <2>1, <2>2, BoundActs
  <2>3. CASE p = "server" /\ todo' = [todo EXCEPT ![Server] = "send"] /\ todo[Server] = "none"
    <3>1. /\ Server \in Threads /\ handled["server"] \in Nat
          /\ handled'["server"] = handled["server"] + 1
      BY <1>8, <2>3, Types DEF CallHandler, Server
    <3>2. sends[Server] \in Nat /\ sends[Server] <= handled["server"]
      BY <1>1, <2>3, <3>1, Limits DEF BoundInv, One
    <3>3. sends[Server] + 1 <= Limit(Server)'
      BY <3>1, <3>2, Limits
    <3>4. Server # Main("client")
      BY DEF Server
    <3> QED
      BY <1>1, <2>1, <2>3, <3>1, <3>3, <3>4, BoundActs
  <2> QED
    BY <1>8, <2>2, <2>3 DEF CallHandler, Sends, Resume, Server
<1>9. CASE UNCHANGED <<op, todo, sends, pipe>>
  <2>1. Main("client") \in Threads
    OBVIOUS
  <2> QED
    BY <1>9, <2>1, BoundActs
<1>11. ASSUME NEW p \in Roles, HandlerThrows(p) PROVE BoundInv'
  <2>1. todo' = [todo EXCEPT ![Reader(p)] = "none"] /\ UNCHANGED <<op, sends, pipe>>
    BY <1>11, Throws
  <2> QED
    BY <1>1, <2>1, BoundActs
<1>10. \/ UNCHANGED <<op, todo, sends, pipe>>
       \/ Initialize
       \/ \E p \in Roles : \/ Open(p) \/ Start(p) \/ Spawn(p) \/ Up(p)
                           \/ CallHandler(p) \/ HandlerThrows(p)
       \/ \E p \in Roles : \E t \in Callers(p) : Notification(t) \/ Request(t)
       \/ \E t \in Threads : \/ Leave(t) \/ Send(t) \/ SendThrows(t) \/ CheckOutput(t)
                             \/ Close(t) \/ Notify(t) \/ Down(t) \/ Write(t)
  <2>1. CASE UNCHANGED vars
    BY <2>1 DEF vars
  <2>2. ASSUME NEW p \in Roles, Calls(p)
        PROVE  \/ UNCHANGED <<op, todo, sends, pipe>>
               \/ Open(p) \/ \E t \in Callers(p) : Notification(t) \/ (t \in Threads /\ Leave(t))
               \/ \E t \in Callers("client") : Request(t)
    BY <2>2 DEF Calls, Callers, Exit
  <2>3. ASSUME NEW p \in Roles, Reading(p)
        PROVE  UNCHANGED <<op, todo, sends, pipe>> \/ CallHandler(p) \/ HandlerThrows(p)
    BY <2>3 DEF Reading, ReadLine, ReadEnds, CheckActive, HandlerReturns, LoopUnchanged
  <2>4. ASSUME NEW p \in Roles, NEW t \in {Main(p), Reader(p)}, Runs(t)
        PROVE  /\ t \in Threads /\ t[1] = p
               /\ \/ Start(p) \/ Spawn(p) \/ Up(p) \/ Initialize \/ Send(t) \/ Write(t)
                  \/ CheckOutput(t) \/ SendThrows(t) \/ Close(t) \/ Notify(t) \/ Down(t)
    BY <2>4 DEF Runs
  <2> QED
    BY <2>1, <2>2, <2>3, <2>4 DEF Next, Process
<1> QED
  BY <1>2, <1>3, <1>4, <1>5, <1>6, <1>7, <1>8, <1>9, <1>10, <1>11, BoundSend,
     BoundWrite

\* What the transport's bounds ask for.
LEMMA WithinBounds ==
  ASSUME TypeOK, ReaderInv, BoundInv
  PROVE  /\ \A t \in Threads : todo[t] = "send" => sends[t] < AllSends
         /\ \A p \in Roles : Len(pipe[p]) <= AllSends
<1> DEFINE n == handled["server"]
           c == Len(pipe["client"])
           s == Len(pipe["server"])
<1>1. n \in Nat /\ c \in Nat /\ s \in Nat /\ n <= c
  BY PipeTypes, ThreadFacts
<1>2. /\ \A t \in Threads : sends[t] \in Nat /\ sends[t] + One(todo[t] = "send") <= Limit(t)
      /\ Main("client") \in Threads /\ Reader("client") \in Threads /\ Main("server") \in Threads
      /\ Server \in Threads
  BY BoundTypes, ThreadFacts DEF BoundInv, Server
<1>3. \A t \in Threads : sends[t] <= Limit(t) /\ (todo[t] = "send" => sends[t] + 1 <= Limit(t))
  <2> TAKE t \in Threads
  <2>1. Limit(t) \in Nat
    BY BoundTypes
  <2> QED
    BY <1>2, <2>1 DEF One
<1>4. /\ sends[Main("client")] <= ClientSends /\ sends[Reader("client")] <= CallbackSends
      /\ sends[Main("server")] <= ServerSends /\ sends[Server] <= n
  BY <1>2, <1>3, Limits
<1>5. ASSUME NEW p \in Roles PROVE Len(pipe[p]) <= sends[Main(p)] + sends[Reader(p)]
  <2>1. /\ Len(pipe[p]) \in Nat /\ sends[Main(p)] \in Nat /\ sends[Reader(p)] \in Nat
        /\ Len(pipe[p]) + One(op[Main(p)] = "write") + One(op[Reader(p)] = "write")
             <= sends[Main(p)] + sends[Reader(p)]
    BY PipeTypes, BoundTypes, ThreadFacts DEF BoundInv
  <2>2. One(op[Main(p)] = "write") \in Nat /\ One(op[Reader(p)] = "write") \in Nat
    BY DEF One
  <2> QED
    BY <2>1, <2>2
<1>6. c <= sends[Main("client")] + sends[Reader("client")] /\ s <= sends[Main("server")] + sends[Server]
  BY <1>5, ThreadFacts DEF Server
<1>7. /\ c <= ClientSends + CallbackSends
      /\ s <= ServerSends + n
      /\ AllSends = ClientSends + CallbackSends + ServerSends
      /\ ClientSends \in Nat /\ CallbackSends \in Nat /\ ServerSends \in Nat
  <2> DEFINE mc == sends[Main("client")]
             rc == sends[Reader("client")]
             ms == sends[Main("server")]
             rs == sends[Server]
  <2>1. ClientSends \in Nat /\ CallbackSends \in Nat /\ ServerSends \in Nat
    BY BoundsType
  <2>2. mc \in Nat /\ rc \in Nat /\ ms \in Nat /\ rs \in Nat
    BY <1>2
  <2>3. mc <= ClientSends /\ rc <= CallbackSends /\ ms <= ServerSends /\ rs <= n
    BY <1>4
  <2>4. c <= mc + rc /\ s <= ms + rs
    BY <1>6
  <2> HIDE DEF n, c, s, mc, rc, ms, rs
  <2>5. c <= ClientSends + CallbackSends /\ s <= ServerSends + n
    BY <1>1, <2>1, <2>2, <2>3, <2>4
  <2> QED
    BY <2>1, <2>5 DEF AllSends
<1>8. c <= AllSends /\ s <= AllSends /\ n <= AllSends
  BY <1>1, <1>7
<1>9. \A t \in Threads : Limit(t) <= AllSends
  BY <1>1, <1>7, <1>8, Limits
<1>10. \A t \in Threads : todo[t] = "send" => sends[t] < AllSends
  BY <1>2, <1>3, <1>7, <1>9, BoundTypes
<1> QED
  BY <1>8, <1>10 DEF Roles

(***************************************************************************)
(* Each end keeps to StdioTransport.                                       *)
(***************************************************************************)

LEMMA Counting ==
  ASSUME NEW n \in Nat
  PROVE  /\ [i \in 1..n |-> i] \in Seq(Nat) /\ Len([i \in 1..n |-> i]) = n
         /\ Append([i \in 1..n |-> i], n + 1) = [i \in 1..(n + 1) |-> i]
<1>1. [i \in 1..n |-> i] \in Seq(Nat)
  OBVIOUS
<1>2. Len([i \in 1..n |-> i]) = n
  OBVIOUS
<1>3. Append([i \in 1..n |-> i], n + 1) = [i \in 1..(n + 1) |-> i]
  BY <1>1, <1>2
<1> QED
  BY <1>1, <1>2, <1>3

LEMMA KeepInit == ASSUME Init, NEW p \in Roles PROVE Transport(p)!Init
<1>1. [i \in 1..handled[p] |-> i] = <<>>
  BY DEF Init
<1> QED
  BY <1>1, ThreadFacts DEF Init, Transport!Init, Transport!Threads, Transport!Kinds, AllHandlers, OfProcess,
     OfReader

\* What process p's transport is, is what it was.
Unmoved(p) ==
  /\ active'[p] = active[p] /\ ever_started'[p] = ever_started[p]
  /\ close_notified'[p] = close_notified[p] /\ output_bad'[p] = output_bad[p]
  /\ at_close'[p] = at_close[p] /\ terminated'[p] = terminated[p]
  /\ reader'[p] = reader[p] /\ arrived'[p] = arrived[p] /\ handled'[p] = handled[p]
  /\ \A t \in Both(p) : op'[t] = op[t] /\ sends'[t] = sends[t]

LEMMA KeepStill ==
  ASSUME NEW p \in Roles, Unmoved(p)
  PROVE  UNCHANGED Transport(p)!vars
<1>1. /\ OfProcess(op, p)' = OfProcess(op, p) /\ OfProcess(sends, p)' = OfProcess(sends, p)
      /\ OfReader(reader, p)' = OfReader(reader, p) /\ OfReader(arrived, p)' = OfReader(arrived, p)
  BY DEF Unmoved, OfProcess, OfReader, Both
<1> QED
  BY <1>1 DEF Unmoved, Transport!vars, Transport!state, Transport!reading, AllHandlers

LEMMA KeepStep ==
  ASSUME NEW p \in Roles, NEW t \in Both(p), NEW from, NEW to, op[t] = from,
         op \in [Threads -> {"idle", "spawn", "write", "check", "erring", "notify"}],
         op' = [op EXCEPT ![t] = to]
  PROVE  Transport(p)!Step(t, from, to)
<1>1. \A u \in {Main(p), Reader(p)} : op'[u] = IF u = t THEN to ELSE op[u]
  BY ThreadFacts
<1>2. t \in {Main(p), Reader(p)}
  BY DEF Both
<1>3. OfProcess(op, p)' = [OfProcess(op, p) EXCEPT ![t] = to]
  BY <1>1, <1>2 DEF OfProcess
<1> QED
  BY <1>2, <1>3 DEF Transport!Step, OfProcess

LEMMA ThreadOf ==
  ASSUME TypeOK, NEW p \in Roles, NEW t \in Both(p)
  PROVE  /\ op \in [Threads -> {"idle", "spawn", "write", "check", "erring", "notify"}]
         /\ sends \in [Threads -> Nat] /\ t \in Threads /\ t[1] = p /\ t \in {Main(p), Reader(p)}
<1>1. t \in {Main(p), Reader(p)}
  BY DEF Both
<1>2. t \in Threads /\ t[1] = p
  BY <1>1, ThreadFacts
<1>3. /\ op \in [Threads -> {"idle", "spawn", "write", "check", "erring", "notify"}]
      /\ sends \in [Threads -> Nat]
  BY DEF TypeOK
<1> QED
  BY <1>1, <1>2, <1>3

LEMMA KeepGoto ==
  ASSUME NEW p \in Roles, NEW from, NEW to, Goto(p, from, to), TypeOK
  PROVE  Transport(p)!Goto(Reader(p), from, to)
<1>1. reader \in [Roles -> {"none", "reading", "check", "lookup", "handler", "done"}]
  BY DEF TypeOK
<1> QED
  BY <1>1 DEF Goto, Transport!Goto, OfReader

\* The reader is in the facade only from inside the message handler.
LEMMA KeepMayCall ==
  ASSUME ReaderInv, NEW p \in Roles, NEW t \in Both(p), ~Idle(t)
  PROVE  Transport(p)!MayCall(t)
  BY ThreadFacts DEF ReaderInv, Both, Transport!MayCall, OfReader

LEMMA KeepOpens ==
  ASSUME TypeOK, NEW p \in Roles, Start(p) \/ Spawn(p)
  PROVE  UNCHANGED Transport(p)!vars \/ Transport(p)!Start(Main(p)) \/ Transport(p)!Spawn(Main(p))
<1> USE ThreadFacts, Types
<1>1. /\ op \in [Threads -> {"idle", "spawn", "write", "check", "erring", "notify"}]
      /\ Main(p) \in Both(p)
  BY DEF TypeOK, Both
<1>3. CASE Start(p) /\ (active[p] \/ ever_started[p])
  <2>1. Unmoved(p)
    BY <1>3 DEF Start, Unmoved, transports, reading, processes
  <2> QED
    BY <2>1, KeepStill
<1>4. CASE Start(p) /\ ~active[p] /\ ~ever_started[p]
  <2>1. /\ op[Main(p)] = "idle" /\ op' = [op EXCEPT ![Main(p)] = "spawn"]
        /\ active' = [active EXCEPT ![p] = TRUE]
        /\ ever_started' = [ever_started EXCEPT ![p] = TRUE]
        /\ close_notified' = [close_notified EXCEPT ![p] = FALSE]
        /\ UNCHANGED <<output_bad, at_close, reader, arrived, handled, sends, terminated>>
    BY <1>4 DEF Start, Step, reading, processes
  <2>2. Transport(p)!Step(Main(p), "idle", "spawn")
    BY <1>1, <2>1, KeepStep
  <2>3. /\ OfProcess(sends, p)' = OfProcess(sends, p)
        /\ OfReader(reader, p)' = OfReader(reader, p) /\ OfReader(arrived, p)' = OfReader(arrived, p)
    BY <2>1 DEF OfProcess, OfReader
  <2> QED
    BY <1>4, <2>1, <2>2, <2>3 DEF Transport!Start, Transport!reading, AllHandlers
<1>5. CASE Spawn(p)
  <2>1. /\ op[Main(p)] = "spawn" /\ op' = [op EXCEPT ![Main(p)] = "idle"]
        /\ Goto(p, "none", "reading") \/ UNCHANGED reader
        /\ UNCHANGED <<active, ever_started, close_notified, output_bad, at_close, arrived,
                       handled, sends, terminated>>
    BY <1>5 DEF Spawn, Step, transports, processes
  <2>2. /\ Transport(p)!Step(Main(p), "spawn", "idle")
        /\ \/ Transport(p)!Goto(Reader(p), "none", "reading")
           \/ OfReader(reader, p)' = OfReader(reader, p)
    BY <1>1, <2>1, KeepStep, KeepGoto DEF OfReader
  <2>3. OfProcess(sends, p)' = OfProcess(sends, p) /\ OfReader(arrived, p)' = OfReader(arrived, p)
    BY <2>1 DEF OfProcess, OfReader
  <2> QED
    BY <2>1, <2>2, <2>3 DEF Transport!Spawn, Transport!state, AllHandlers
<1> QED
  BY <1>3, <1>4, <1>5

LEMMA KeepSend ==
  ASSUME TypeOK, ReaderInv, BoundInv, TypeOK', NEW p \in Roles, NEW t \in Both(p), Send(t)
  PROVE  Transport(p)!Send(t)
<1> USE ThreadFacts, Types
<1>1. /\ op \in [Threads -> {"idle", "spawn", "write", "check", "erring", "notify"}]
      /\ t \in Threads /\ t[1] = p /\ sends \in [Threads -> Nat]
      /\ todo[t] = "send" /\ op[t] = "idle" /\ sends' = [sends EXCEPT ![t] = sends[t] + 1]
      /\ UNCHANGED <<active, ever_started, close_notified, output_bad, at_close, reader,
                     arrived, handled>>
  <2>1. CASE active[t[1]]
    BY <2>1, ThreadOf DEF Send, Resume, Step, transports, reading
  <2>2. CASE ~active[t[1]]
    BY <2>2, ThreadOf DEF Send, Resume, transports, reading
  <2> QED
    BY <2>1, <2>2
<1>2. Transport(p)!MayCall(t)
  BY <1>1, KeepMayCall DEF Idle
<1>3. sends[t] < AllSends
  BY <1>1, WithinBounds
<1>4. /\ OfProcess(sends, p)[t] = sends[t]
      /\ OfProcess(sends, p)' = [OfProcess(sends, p) EXCEPT ![t] = sends[t] + 1]
      /\ OfReader(reader, p)' = OfReader(reader, p) /\ OfReader(arrived, p)' = OfReader(arrived, p)
  <2>1. \A u \in {Main(p), Reader(p)} : sends'[u] = IF u = t THEN sends[t] + 1 ELSE sends[u]
    BY <1>1
  <2>2. t \in {Main(p), Reader(p)}
    BY DEF Both
  <2>3. OfProcess(sends, p)[t] = sends[t]
    BY <2>2 DEF OfProcess
  <2>4. OfProcess(sends, p)' = [OfProcess(sends, p) EXCEPT ![t] = sends[t] + 1]
    <3> HIDE ThreadFacts, Types
    <3> QED
      BY <2>1, <2>2 DEF OfProcess
  <2>5. OfReader(reader, p)' = OfReader(reader, p) /\ OfReader(arrived, p)' = OfReader(arrived, p)
    BY <1>1 DEF OfReader
  <2> QED
    BY <2>3, <2>4, <2>5
<1>5. \/ active[p] /\ Transport(p)!Step(t, "idle", "write") /\ terminated'[p] = terminated[p]
      \/ ~active[p] /\ Transport(p)!Step(t, "idle", "idle") /\ Transport(p)!Throw(t)
  <2>1. CASE active[p]
    <3>1. op' = [op EXCEPT ![t] = "write"] /\ terminated' = terminated
      BY <1>1, <2>1 DEF Send, Step
    <3> QED
      BY <1>1, <2>1, <3>1, KeepStep
  <2>2. CASE ~active[p]
    <3>1. op' = [op EXCEPT ![t] = "idle"] /\ Thrown(t)
      BY <1>1, <2>2 DEF Send
    <3>2. Transport(p)!Throw(t)
      <4>1. t \notin {Reader(p)} => terminated' = terminated
        BY <3>1 DEF Thrown, Both
      <4>2. terminated'[p] \in BOOLEAN
        BY DEF TypeOK
      <4> QED
        BY <4>1, <4>2 DEF Transport!Throw
    <3> QED
      BY <1>1, <2>2, <3>1, <3>2, KeepStep
  <2> QED
    BY <2>1, <2>2
<1> QED
  BY <1>1, <1>2, <1>3, <1>4, <1>5 DEF Transport!Send, Transport!state, Transport!reading, AllHandlers

LEMMA KeepWrites ==
  ASSUME TypeOK, TypeOK', NEW p \in Roles, NEW t \in Both(p),
         Write(t) \/ CheckOutput(t) \/ SendThrows(t)
  PROVE  Transport(p)!Write(t) \/ Transport(p)!CheckOutput(t) \/ Transport(p)!SendThrows(t)
<1> USE ThreadFacts, Types
<1>1. /\ op \in [Threads -> {"idle", "spawn", "write", "check", "erring", "notify"}]
      /\ t \in Threads /\ t[1] = p
      /\ UNCHANGED <<active, ever_started, close_notified, at_close, reader, arrived, handled,
                     sends>>
  <2>1. CASE Write(t)
    BY <2>1, ThreadOf DEF Write, reading
  <2>2. CASE CheckOutput(t)
    BY <2>2, ThreadOf DEF CheckOutput, transports, reading
  <2>3. CASE SendThrows(t)
    BY <2>3, ThreadOf DEF SendThrows, transports, reading
  <2> QED
    BY <2>1, <2>2, <2>3
<1>2. /\ OfProcess(sends, p)' = OfProcess(sends, p)
      /\ OfReader(reader, p)' = OfReader(reader, p) /\ OfReader(arrived, p)' = OfReader(arrived, p)
  BY <1>1 DEF OfProcess, OfReader
<1>3. CASE Write(t)
  <2>1. /\ op[t] = "write" /\ op' = [op EXCEPT ![t] = "check"] /\ terminated' = terminated
        /\ output_bad' = output_bad \/ output_bad' = [output_bad EXCEPT ![p] = TRUE]
    BY <1>1, <1>3 DEF Write, Step
  <2>2. output_bad'[p] \in {output_bad[p], TRUE}
    BY <2>1
  <2>3. Transport(p)!Step(t, "write", "check")
    BY <1>1, <2>1, KeepStep
  <2> QED
    BY <1>1, <1>2, <2>1, <2>2, <2>3 DEF Transport!Write, Transport!state, Transport!reading, AllHandlers
<1>4. CASE CheckOutput(t)
  <2>1. /\ op[t] = "check" /\ op' = [op EXCEPT ![t] = IF output_bad[p] THEN "erring" ELSE "idle"]
        /\ terminated' = terminated /\ output_bad' = output_bad
    BY <1>1, <1>4 DEF CheckOutput, Step, transports, processes
  <2>2. Transport(p)!Step(t, "check", IF output_bad[p] THEN "erring" ELSE "idle")
    BY <1>1, <2>1, KeepStep
  <2> QED
    BY <1>1, <1>2, <2>1, <2>2 DEF Transport!CheckOutput, Transport!state, Transport!reading,
       AllHandlers
<1>5. CASE SendThrows(t)
  <2>1. /\ op[t] = "erring" /\ op' = [op EXCEPT ![t] = "idle"] /\ Thrown(t)
        /\ output_bad' = output_bad
    BY <1>5 DEF SendThrows, Step, transports
  <2>2. Transport(p)!Step(t, "erring", "idle")
    BY <1>1, <2>1, KeepStep
  <2>3. Transport(p)!Throw(t)
    <3>1. t \notin {Reader(p)} => terminated' = terminated
      BY <2>1 DEF Thrown, Both
    <3>2. terminated'[p] \in BOOLEAN
      BY DEF TypeOK
    <3> QED
      BY <3>1, <3>2 DEF Transport!Throw
  <2> QED
    BY <1>1, <1>2, <2>1, <2>2, <2>3 DEF Transport!SendThrows, Transport!state, Transport!reading,
       AllHandlers
<1> QED
  BY <1>3, <1>4, <1>5

LEMMA KeepCloses ==
  ASSUME TypeOK, ReaderInv, NEW p \in Roles, NEW t \in Both(p), Close(t) \/ Notify(t)
  PROVE  UNCHANGED Transport(p)!vars \/ Transport(p)!Close(t) \/ Transport(p)!Notify(t)
<1> USE ThreadFacts, Types
<1>1. /\ op \in [Threads -> {"idle", "spawn", "write", "check", "erring", "notify"}]
      /\ t \in Threads /\ t[1] = p
      /\ UNCHANGED <<ever_started, output_bad, reader, arrived, handled, sends, terminated>>
  <2>1. CASE Close(t)
    BY <2>1, ThreadOf DEF Close, reading, processes
  <2>2. CASE Notify(t)
    BY <2>2, ThreadOf DEF Notify, transports, reading, processes
  <2> QED
    BY <2>1, <2>2
<1>2. /\ OfProcess(sends, p)' = OfProcess(sends, p)
      /\ OfReader(reader, p)' = OfReader(reader, p) /\ OfReader(arrived, p)' = OfReader(arrived, p)
  BY <1>1 DEF OfProcess, OfReader
<1>3. CASE Close(t) /\ close_notified[p]
  <2>1. Unmoved(p)
    BY <1>1, <1>3 DEF Close, Unmoved
  <2> QED
    BY <2>1, KeepStill
<1>4. CASE Close(t) /\ ~close_notified[p]
  <2>1. /\ op[t] = "idle" /\ op' = [op EXCEPT ![t] = "notify"] /\ todo[t] = "close"
        /\ active' = [active EXCEPT ![p] = FALSE]
        /\ close_notified' = [close_notified EXCEPT ![p] = TRUE]
        /\ at_close' = [at_close EXCEPT ![p] = handled[p]]
    BY <1>1, <1>4 DEF Close, Step, Resume
  <2>2. Transport(p)!Step(t, "idle", "notify") /\ Transport(p)!MayCall(t)
    BY <1>1, <2>1, KeepStep, KeepMayCall DEF Idle
  <2>3. at_close'[p] = Len([i \in 1..handled[p] |-> i])
    BY <2>1, Counting
  <2> QED
    BY <1>1, <1>2, <1>4, <2>1, <2>2, <2>3 DEF Transport!Close, Transport!reading, AllHandlers
<1>5. CASE Notify(t)
  <2>1. /\ op[t] = "notify" /\ op' = [op EXCEPT ![t] = "idle"]
        /\ UNCHANGED <<active, close_notified, at_close>>
    BY <1>5 DEF Notify, Step, transports
  <2>2. Transport(p)!Step(t, "notify", "idle")
    BY <1>1, <2>1, KeepStep
  <2> QED
    BY <1>1, <1>2, <2>1, <2>2 DEF Transport!Notify, Transport!state, Transport!reading, AllHandlers
<1> QED
  BY <1>3, <1>4, <1>5

LEMMA KeepReads ==
  ASSUME TypeOK, ReaderInv, BoundInv, NEW p \in Roles, ReadLine(p) \/ ReadEnds(p) \/ CheckActive(p)
  PROVE  Transport(p)!Reading(Reader(p))
<1> USE ThreadFacts, Types
<1>1. /\ UNCHANGED <<active, ever_started, close_notified, output_bad, at_close, op, sends,
                     terminated, handled>>
  BY DEF ReadLine, ReadEnds, CheckActive, LoopUnchanged, transports, processes
<1>2. Transport(p)!LoopUnchanged
  <2>1. OfProcess(op, p)' = OfProcess(op, p) /\ OfProcess(sends, p)' = OfProcess(sends, p)
    BY <1>1 DEF OfProcess
  <2> QED
    BY <1>1, <2>1 DEF Transport!LoopUnchanged, Transport!state, AllHandlers
<1>3. CASE ReadLine(p)
  <2>1. /\ Goto(p, "reading", "check") /\ arrived' = [arrived EXCEPT ![p] = arrived[p] + 1]
        /\ arrived[p] < Len(pipe[Peer(p)])
    BY <1>3 DEF ReadLine
  <2>2. arrived[p] < AllSends
    <3>1. Len(pipe[Peer(p)]) <= AllSends /\ Len(pipe[Peer(p)]) \in Nat /\ AllSends \in Nat
      BY WithinBounds, PipeTypes, BoundsType
    <3> QED
      BY <2>1, <3>1
  <2>3. /\ arrived'[p] = arrived[p] + 1
        /\ OfReader(arrived, p)' = [OfReader(arrived, p) EXCEPT ![Reader(p)] = arrived[p] + 1]
    BY <2>1 DEF OfReader
  <2>4. Transport(p)!Goto(Reader(p), "reading", "check")
    BY <2>1, KeepGoto
  <2>5. Transport(p)!ReadLine(Reader(p))
    BY <1>1, <1>2, <2>2, <2>3, <2>4 DEF Transport!ReadLine
  <2> QED
    BY <2>5 DEF Transport!Reading
<1>4. CASE ReadEnds(p) \/ CheckActive(p)
  <2>1. arrived' = arrived
    BY <1>4 DEF ReadEnds, CheckActive
  <2>2. OfReader(arrived, p)' = OfReader(arrived, p)
    BY <2>1 DEF OfReader
  <2>3. CASE ReadEnds(p)
    <3>1. Transport(p)!Goto(Reader(p), "reading", "done")
      BY <2>3, KeepGoto DEF ReadEnds
    <3>2. Transport(p)!ReadEnds(Reader(p))
      BY <1>1, <1>2, <2>1, <2>2, <3>1 DEF Transport!ReadEnds
    <3> QED
      BY <3>2 DEF Transport!Reading
  <2>4. CASE CheckActive(p)
    <3>1. Transport(p)!Goto(Reader(p), "check", IF active[p] THEN "lookup" ELSE "done")
      BY <2>4, KeepGoto DEF CheckActive
    <3>2. Transport(p)!CheckActive(Reader(p))
      BY <1>1, <1>2, <2>1, <2>2, <3>1 DEF Transport!CheckActive
    <3> QED
      BY <3>2 DEF Transport!Reading
  <2> QED
    BY <1>4, <2>3, <2>4
<1> QED
  BY <1>3, <1>4

LEMMA KeepHandles ==
  ASSUME TypeOK, ReaderInv, NEW p \in Roles, CallHandler(p) \/ HandlerReturns(p)
  PROVE  Transport(p)!Reading(Reader(p))
<1> USE ThreadFacts, Types
<1>1. /\ UNCHANGED <<active, ever_started, close_notified, output_bad, at_close, op, sends,
                     terminated, arrived>>
  BY DEF CallHandler, HandlerReturns, LoopUnchanged, transports, processes
<1>2. /\ OfProcess(op, p)' = OfProcess(op, p) /\ OfProcess(sends, p)' = OfProcess(sends, p)
      /\ OfReader(arrived, p)' = OfReader(arrived, p)
  BY <1>1 DEF OfProcess, OfReader
<1>3. CASE CallHandler(p)
  <2>1. /\ Goto(p, "lookup", "handler") /\ handled' = [handled EXCEPT ![p] = handled[p] + 1]
        /\ reader[p] = "lookup"
    BY <1>3 DEF CallHandler, Goto
  <2>2. arrived[p] = handled[p] + 1 /\ OfReader(arrived, p)[Reader(p)] = arrived[p]
    BY <2>1 DEF ReaderInv, OfReader
  <2>3. [i \in 1..handled[p] |-> i]' = Append([i \in 1..handled[p] |-> i], OfReader(arrived, p)[Reader(p)])
    BY <2>1, <2>2, Counting
  <2>4. Transport(p)!Goto(Reader(p), "lookup", "handler")
    BY <2>1, KeepGoto
  <2>5. Transport(p)!LoopUnchanged
    BY <1>1, <1>2 DEF Transport!LoopUnchanged, Transport!state, AllHandlers
  <2>6. Transport(p)!CallHandler(Reader(p))
    BY <1>1, <1>2, <2>3, <2>4, <2>5 DEF Transport!CallHandler, AllHandlers
  <2> QED
    BY <2>6 DEF Transport!Reading
<1>4. CASE HandlerReturns(p)
  <2>1. /\ Goto(p, "handler", "reading") /\ handled' = handled /\ op[Reader(p)] = "idle"
    BY <1>4 DEF HandlerReturns, Idle
  <2>2. Transport(p)!Goto(Reader(p), "handler", "reading") /\ OfProcess(op, p)[Reader(p)] = "idle"
    BY <2>1, KeepGoto DEF OfProcess
  <2>3. terminated'[p] \in BOOLEAN
    BY <1>1
  <2>4. Transport(p)!HandlerReturns(Reader(p))
    BY <1>1, <1>2, <2>1, <2>2, <2>3 DEF Transport!HandlerReturns, Transport!state, AllHandlers
  <2> QED
    BY <2>4 DEF Transport!Reading
<1> QED
  BY <1>3, <1>4

\* To the transport user code that throws is a message handler that throws.
LEMMA KeepThrows ==
  ASSUME TypeOK, NEW p \in Roles, HandlerThrows(p)
  PROVE  Transport(p)!Reading(Reader(p))
<1> USE ThreadFacts, Types
<1>1. /\ UNCHANGED <<active, ever_started, close_notified, output_bad, at_close, op, sends,
                     arrived, handled>>
      /\ terminated' = [terminated EXCEPT ![p] = TRUE] /\ op[Reader(p)] = "idle"
  BY Throws
<1>2. /\ OfProcess(op, p)' = OfProcess(op, p) /\ OfProcess(sends, p)' = OfProcess(sends, p)
      /\ OfReader(arrived, p)' = OfReader(arrived, p)
  BY <1>1 DEF OfProcess, OfReader
<1>3. Transport(p)!Goto(Reader(p), "handler", "reading") /\ OfProcess(op, p)[Reader(p)] = "idle"
  BY <1>1, KeepGoto DEF OfProcess, HandlerThrows
<1>4. terminated'[p] \in BOOLEAN
  BY <1>1
<1>5. Transport(p)!HandlerReturns(Reader(p))
  BY <1>1, <1>2, <1>3, <1>4 DEF Transport!HandlerReturns, Transport!state, AllHandlers
<1> QED
  BY <1>5 DEF Transport!Reading

\* A step of the facade alone, of either process.
LEMMA KeepFacade ==
  ASSUME NEW p \in Roles, UNCHANGED <<transports, reading, op, sends, terminated>>
  PROVE  Unmoved(p)
  BY DEF Unmoved, transports, reading

\* What the other process does, is not seen.
LEMMA KeepOther ==
  ASSUME TypeOK, NEW p \in Roles, NEW q \in Roles, p # q, Process(q)
  PROVE  Unmoved(p)
<1> USE ThreadFacts, Types
<1>1. /\ op \in [Threads -> {"idle", "spawn", "write", "check", "erring", "notify"}]
      /\ sends \in [Threads -> Nat]
      /\ reader \in [Roles -> {"none", "reading", "check", "lookup", "handler", "done"}]
      /\ \A t \in Both(p) : t \in Threads
      /\ \A t \in Both(p), u \in Both(q) : t # u
  <2>1. /\ op \in [Threads -> {"idle", "spawn", "write", "check", "erring", "notify"}]
        /\ sends \in [Threads -> Nat]
        /\ reader \in [Roles -> {"none", "reading", "check", "lookup", "handler", "done"}]
    BY DEF TypeOK
  <2>2. \A t \in Both(p) : t \in Threads /\ t[1] = p
    BY ThreadOf
  <2>3. \A u \in Both(q) : u[1] = q
    BY ThreadOf
  <2> QED
    BY <2>1, <2>2, <2>3
<1>2. CASE Calls(q)
  BY <1>2, KeepFacade DEF Calls, Open, Exit, Notification, Leave, Request, processes
<1>3. CASE Reading(q)
  <2>1. /\ UNCHANGED <<transports, op, sends>>
        /\ terminated' = terminated \/ terminated' = [terminated EXCEPT ![q] = TRUE]
        /\ \E to \in {"reading", "check", "lookup", "handler", "done"} :
             reader' = [reader EXCEPT ![q] = to]
        /\ arrived' = arrived \/ arrived' = [arrived EXCEPT ![q] = arrived[q] + 1]
        /\ handled' = handled \/ handled' = [handled EXCEPT ![q] = handled[q] + 1]
    BY <1>3 DEF Reading, ReadLine, ReadEnds, CheckActive, CallHandler, HandlerReturns,
       HandlerThrows, LoopUnchanged, Goto, processes
  <2> QED
    BY <1>1, <2>1 DEF Unmoved, transports
<1>4. ASSUME NEW t \in Both(q), Runs(t) PROVE Unmoved(p)
  <2>1. t \in Threads /\ t[1] = q
    BY ThreadOf
  <2>2. \A u \in Both(p) : u # t
    BY <1>1
  \* What changes belongs to the thread or to its process.
  <2>3. ASSUME op' = op \/ \E to : op' = [op EXCEPT ![t] = to],
               sends' = sends \/ \E n : sends' = [sends EXCEPT ![t] = n],
               active' = active \/ \E b : active' = [active EXCEPT ![q] = b],
               ever_started' = ever_started \/ \E b : ever_started' = [ever_started EXCEPT ![q] = b],
               close_notified' = close_notified \/ \E b : close_notified' = [close_notified EXCEPT ![q] = b],
               output_bad' = output_bad \/ \E b : output_bad' = [output_bad EXCEPT ![q] = b],
               at_close' = at_close \/ \E n : at_close' = [at_close EXCEPT ![q] = n],
               terminated' = terminated \/ \E b : terminated' = [terminated EXCEPT ![q] = b],
               reader' = reader \/ \E to : reader' = [reader EXCEPT ![q] = to],
               arrived' = arrived, handled' = handled
        PROVE  Unmoved(p)
    <3>1. \A u \in Both(p) : op'[u] = op[u] /\ sends'[u] = sends[u]
      BY <1>1, <2>2, <2>3
    <3>2. active'[p] = active[p] /\ ever_started'[p] = ever_started[p]
      BY <2>3
    <3>3. close_notified'[p] = close_notified[p] /\ output_bad'[p] = output_bad[p]
      BY <2>3
    <3>4. at_close'[p] = at_close[p] /\ terminated'[p] = terminated[p] /\ reader'[p] = reader[p]
      BY <1>1, <2>3
    <3> QED
      BY <2>3, <3>1, <3>2, <3>3, <3>4 DEF Unmoved
  <2>4. CASE Send(t) \/ SendThrows(t)
    <3>1. terminated' = terminated \/ terminated' = [terminated EXCEPT ![q] = TRUE]
      <4>1. t = Reader("server") => q = "server"
        BY <2>1
      <4> QED
        BY <2>4, <4>1, SendEnds
    <3>2. /\ UNCHANGED <<transports, reading>>
          /\ op' = op \/ \E to : op' = [op EXCEPT ![t] = to]
          /\ sends' = sends \/ \E n : sends' = [sends EXCEPT ![t] = n]
      <4>1. CASE Send(t) /\ active[t[1]]
        BY <4>1 DEF Send, Step
      <4>2. CASE Send(t) /\ ~active[t[1]]
        BY <4>2 DEF Send
      <4>3. CASE SendThrows(t)
        BY <4>3 DEF SendThrows, Step
      <4> QED
        BY <2>4, <4>1, <4>2, <4>3
    <3> QED
      BY <2>3, <3>1, <3>2 DEF transports, reading
  <2>5. CASE Write(t) \/ CheckOutput(t)
    <3>1. CASE Write(t)
      BY <2>1, <2>3, <3>1 DEF Write, Step, reading
    <3>2. CASE CheckOutput(t)
      BY <2>1, <2>3, <3>2 DEF CheckOutput, Step, transports, reading, processes
    <3> QED
      BY <2>5, <3>1, <3>2
  <2>6. CASE Close(t) \/ Notify(t)
    <3>1. CASE Close(t)
      BY <2>1, <2>3, <3>1 DEF Close, Step, reading, processes
    <3>2. CASE Notify(t)
      BY <2>1, <2>3, <3>2 DEF Notify, Step, transports, reading, processes
    <3> QED
      BY <2>6, <3>1, <3>2
  <2>7. CASE t = Main(q) /\ (Start(q) \/ Spawn(q))
    <3>1. CASE Start(q)
      BY <2>3, <2>7, <3>1 DEF Start, Step, transports, reading, processes
    <3>2. CASE Spawn(q)
      BY <2>3, <2>7, <3>2 DEF Spawn, Step, Goto, transports, processes
    <3> QED
      BY <2>7, <3>1, <3>2
  <2>8. CASE Down(t) \/ Up(q) \/ Initialize
    BY <2>8, KeepFacade DEF Down, Up, Initialize, processes
  <2> QED
    BY <1>4, <2>1, <2>4, <2>5, <2>6, <2>7, <2>8 DEF Runs
<1> QED
  BY <1>2, <1>3, <1>4 DEF Process, Both

LEMMA KeepNext ==
  ASSUME TypeOK, TypeOK', ReaderInv, BoundInv, [Next]_vars, NEW p \in Roles
  PROVE  [Transport(p)!Next]_(Transport(p)!vars)
<1> USE ThreadFacts
<1>1. CASE UNCHANGED vars
  BY <1>1, KeepFacade, KeepStill DEF vars, processes
<1>2. ASSUME NEW q \in Roles, p # q, Process(q) PROVE UNCHANGED Transport(p)!vars
  BY <1>2, KeepOther, KeepStill
<1>3. ASSUME Process(p) PROVE [Transport(p)!Next]_(Transport(p)!vars)
  <2>1. ~terminated[p]
    BY <1>3 DEF Process, Alive
  <2>2. CASE Calls(p)
    <3>1. Unmoved(p)
      BY <2>2, KeepFacade DEF Calls, Open, Exit, Notification, Leave, Request, processes
    <3> QED
      BY <3>1, KeepStill
  <2>3. CASE Reading(p)
    <3>1. Transport(p)!Reading(Reader(p))
      BY <2>3, KeepReads, KeepHandles, KeepThrows DEF Reading
    <3> QED
      BY <2>1, <3>1 DEF Transport!Next
  <2>4. ASSUME NEW t \in Both(p), Runs(t) PROVE [Transport(p)!Next]_(Transport(p)!vars)
    <3>1. t[1] = p /\ t \in Transport(p)!Threads
      BY ThreadOf DEF Transport!Threads
    <3>2. CASE Send(t)
      <4>1. Transport(p)!Calling(t)
        BY <3>2, KeepSend DEF Transport!Calling
      <4> QED
        BY <2>1, <3>1, <4>1 DEF Transport!Next
    <3>3. CASE Write(t) \/ CheckOutput(t) \/ SendThrows(t)
      <4>1. Transport(p)!Calling(t)
        BY <3>3, KeepWrites DEF Transport!Calling
      <4> QED
        BY <2>1, <3>1, <4>1 DEF Transport!Next
    <3>4. CASE Close(t) \/ Notify(t)
      <4>1. UNCHANGED Transport(p)!vars \/ Transport(p)!Calling(t)
        BY <3>4, KeepCloses DEF Transport!Calling
      <4> QED
        BY <2>1, <3>1, <4>1 DEF Transport!Next
    <3>5. CASE t = Main(p) /\ (Start(p) \/ Spawn(p))
      BY <2>1, <3>5, KeepOpens DEF Transport!Next
    <3>6. CASE Down(t) \/ Up(p) \/ Initialize
      <4>1. Unmoved(p)
        BY <3>6, KeepFacade DEF Down, Up, Initialize, processes
      <4> QED
        BY <4>1, KeepStill
    <3> QED
      BY <2>4, <3>1, <3>2, <3>3, <3>4, <3>5, <3>6 DEF Runs
  <2> QED
    BY <1>3, <2>2, <2>3, <2>4 DEF Process, Both
<1> QED
  BY <1>1, <1>2, <1>3 DEF Next

\* Both ends of the session, with the facades on top, use their transport only as
\* StdioTransport allows: what is proved of one transport holds for each.
THEOREM TransportsKept == Spec => TransportsKeep
<1>1. Init => \A p \in Roles : Transport(p)!Init
  BY KeepInit
<1>2. TypeOK /\ TypeOK' /\ ReaderInv /\ BoundInv /\ [Next]_vars
        => [\A p \in Roles : [Transport(p)!Next]_(Transport(p)!vars)]_vars
  BY KeepNext
<1>3. Spec => []BoundInv
  <2>1. Init => BoundInv
    BY BoundInit
  <2>2. TypeOK /\ ReaderInv /\ BoundInv /\ [Next]_vars => BoundInv'
    BY BoundStep
  <2> QED
    BY <2>1, <2>2, TypeAndReaderHold, PTL DEF Spec
<1> QED
  BY <1>1, <1>2, <1>3, TypeAndReaderHold, PTL DEF Spec, TransportsKeep
=============================================================================
