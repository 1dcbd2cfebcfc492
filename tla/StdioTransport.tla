--------------------------- MODULE StdioTransport ---------------------------
(***************************************************************************)
(* The stdio transport of both roles: StdioTransportCore of                *)
(* stdio_transport.cpp (the wrappers of the client and the server only     *)
(* rename start to connect and listen).                                    *)
(*                                                                         *)
(* Application threads call start, close and send.  start detaches a       *)
(* reader thread that hands every line of the input to the message         *)
(* handler; the handler runs on the reader and may itself send and close.  *)
(* Nobody joins the reader: it notices a close when the next line comes.   *)
(***************************************************************************)
EXTENDS Integers, Sequences

CONSTANTS
  Apps,      (* application threads                                        *)
  Readers,   (* the threads std::thread may create                         *)
  MaxLines,  (* bound on the lines of the input                            *)
  MaxSends   (* bound on the calls of send by each thread                  *)

Threads == Apps \cup Readers
Kinds == {"message", "error", "close"}

ASSUME ConstantsAssumption ==
  /\ Apps \cap Readers = {}
  /\ MaxLines \in Nat
  /\ MaxSends \in Nat

VARIABLES
  \* Members of State.
  active, ever_started, close_notified,
  handlers,     (* which of the handlers are set                             *)
  output_bad,   (* the output stream has failed; nothing clears it         *)
  \* The calls of start, close and send.
  op,           (* what each thread is doing in the call it is in          *)
  sends,        (* how many times each thread has called send              *)
  \* read_loop.
  reader,       (* where each reader thread is                             *)
  line,         (* the number of the line it holds                         *)
  arrived,      (* the number of lines read from the input                 *)
  delivered,    (* the lines handed to the message handler, in order       *)
  terminated,   (* an exception has left a reader: the program has ended   *)
  at_close      (* history: how many lines had been delivered at the last  *)
                (* close that took effect                                  *)

state == <<active, ever_started, close_notified>>
reading == <<reader, line, arrived, delivered>>
vars == <<state, handlers, output_bad, op, sends, reading, terminated,
          at_close>>

TypeOK ==
  /\ active \in BOOLEAN /\ ever_started \in BOOLEAN /\ close_notified \in BOOLEAN
  /\ handlers \in [Kinds -> BOOLEAN] /\ output_bad \in BOOLEAN /\ terminated \in BOOLEAN
  /\ op \in [Threads -> {"idle", "spawn", "notify", "write", "check", "erring"}]
  /\ sends \in [Threads -> 0..MaxSends]
  /\ reader \in [Readers -> {"none", "reading", "check", "lookup", "handler",
                             "erring", "done"}]
  /\ line \in [Readers -> 0..MaxLines]
  /\ \A r \in Readers : reader[r] \in {"check", "lookup", "handler"} => line[r] > 0
  /\ arrived \in 0..MaxLines
  /\ delivered \in Seq(1..MaxLines)
  /\ at_close \in Nat

Init ==
  /\ active = FALSE
  /\ ever_started = FALSE
  /\ close_notified = FALSE
  /\ handlers \in [Kinds -> BOOLEAN]
  /\ output_bad = FALSE
  /\ op = [t \in Threads |-> "idle"]
  /\ sends = [t \in Threads |-> 0]
  /\ reader = [r \in Readers |-> "none"]
  /\ line = [r \in Readers |-> 0]
  /\ arrived = 0
  /\ delivered = <<>>
  /\ terminated = FALSE
  /\ at_close = 0
-----------------------------------------------------------------------------
\* A reader calls the transport only from inside the message handler.
MayCall(t) == t \in Readers => reader[t] = "handler"

Step(t, from, to) ==
  /\ op[t] = from
  /\ op' = [op EXCEPT ![t] = to]

Goto(r, from, to) ==
  /\ reader[r] = from
  /\ reader' = [reader EXCEPT ![r] = to]

\* An exception thrown to thread t.  On a reader the message handler may let it
\* through, and nothing in read_loop catches it: std::terminate.
Throw(t) ==
  IF t \in Readers THEN terminated' \in BOOLEAN ELSE UNCHANGED terminated

\* Mutant: a closed transport may be started again.
StartAgain(a) ==
  /\ Step(a, "idle", "spawn")
  /\ ~active
  /\ active' = TRUE
  /\ ever_started' = TRUE
  /\ close_notified' = FALSE
  /\ UNCHANGED <<handlers, output_bad, sends, reading, terminated, at_close>>

\* start: returns when active, throws when it was started before.
Start(a) ==
  /\ Step(a, "idle", "spawn")
  /\ ~active
  /\ ~ever_started
  /\ active' = TRUE
  /\ ever_started' = TRUE
  /\ close_notified' = FALSE
  /\ UNCHANGED <<handlers, output_bad, sends, reading, terminated, at_close>>

\* The reader's thread is created, or cannot be: then start throws and leaves an
\* active transport without a reader.
Spawn(a) ==
  /\ Step(a, "spawn", "idle")
  /\ (\E r \in Readers : Goto(r, "none", "reading")) \/ UNCHANGED reader
  /\ UNCHANGED <<state, handlers, output_bad, sends, line, arrived,
                 delivered, terminated, at_close>>

\* Mutant: a second close is not turned away.
CloseAgain(t) ==
  /\ MayCall(t)
  /\ Step(t, "idle", "notify")
  /\ active' = FALSE
  /\ close_notified' = TRUE
  /\ at_close' = Len(delivered)
  /\ UNCHANGED <<ever_started, handlers, output_bad, sends, reading, terminated>>

\* close takes effect once, also on a transport that was never started; the
\* reader is neither woken nor joined.
Close(t) ==
  /\ MayCall(t)
  /\ ~close_notified
  /\ Step(t, "idle", "notify")
  /\ active' = FALSE
  /\ close_notified' = TRUE
  /\ at_close' = Len(delivered)
  /\ UNCHANGED <<ever_started, handlers, output_bad, sends, reading, terminated>>

\* The close handler is called, if there is one.
Notify(t) ==
  /\ Step(t, "notify", "idle")
  /\ UNCHANGED <<state, handlers, output_bad, sends, reading, terminated, at_close>>

\* send: active is checked under lifecycle_mutex, which is then released.
Send(t) ==
  /\ MayCall(t)
  /\ sends[t] < MaxSends
  /\ sends' = [sends EXCEPT ![t] = @ + 1]
  /\ \/ active /\ Step(t, "idle", "write") /\ UNCHANGED terminated
     \/ ~active /\ Step(t, "idle", "idle") /\ Throw(t)
  /\ UNCHANGED <<state, handlers, output_bad, reading, at_close>>

\* The message and its newline, under output_mutex; the stream may fail.
Write(t) ==
  /\ Step(t, "write", "check")
  /\ output_bad' \in {output_bad, TRUE}
  /\ UNCHANGED <<state, handlers, sends, reading, terminated, at_close>>

\* The stream is looked at after output_mutex was released: a failure may be
\* that of another thread's message.
CheckOutput(t) ==
  /\ Step(t, "check", IF output_bad THEN "erring" ELSE "idle")
  /\ UNCHANGED <<state, handlers, output_bad, sends, reading, terminated, at_close>>

\* The error handler, if there is one, returns and send throws.
SendThrows(t) ==
  /\ Step(t, "erring", "idle")
  /\ Throw(t)
  /\ UNCHANGED <<state, handlers, output_bad, sends, reading, at_close>>

\* set_handlers, set_error_handler and set_close_handler, also with an
\* empty function.
SetHandler(kind) ==
  /\ handlers' = [handlers EXCEPT ![kind] = ~@]
  /\ UNCHANGED <<state, output_bad, op, sends, reading, terminated, at_close>>
-----------------------------------------------------------------------------
(* read_loop *)

LoopUnchanged ==
  UNCHANGED <<state, handlers, output_bad, op, sends, terminated, at_close>>

\* Mutant: the result of getline is not looked at.
ReadLineUnchecked(r) ==
  /\ Goto(r, "reading", "check")
  /\ arrived' = IF arrived < MaxLines THEN arrived + 1 ELSE arrived
  /\ line' = [line EXCEPT ![r] = IF arrived < MaxLines THEN arrived + 1 ELSE 0]
  /\ UNCHANGED delivered
  /\ LoopUnchanged

ReadLine(r) ==
  /\ Goto(r, "reading", "check")
  /\ arrived < MaxLines
  /\ arrived' = arrived + 1
  /\ line' = [line EXCEPT ![r] = arrived + 1]
  /\ UNCHANGED delivered
  /\ LoopUnchanged

\* End of input, or an input error, which is reported.  The transport stays
\* active and the close handler is not called.
ReadEnds(r) ==
  /\ Goto(r, "reading", "done") \/ Goto(r, "reading", "erring") \/ Goto(r, "erring", "done")
  /\ UNCHANGED <<line, arrived, delivered>>
  /\ LoopUnchanged

\* Mutant: the line is handed on whether or not the transport is active.
CheckActiveSkipped(r) ==
  /\ Goto(r, "check", "lookup")
  /\ UNCHANGED <<line, arrived, delivered>>
  /\ LoopUnchanged

CheckActive(r) ==
  /\ Goto(r, "check", IF active THEN "lookup" ELSE "done")
  /\ UNCHANGED <<line, arrived, delivered>>
  /\ LoopUnchanged

\* The handler is copied under handler_mutex and called without a lock.
CallHandler(r) ==
  /\ IF handlers["message"]
     THEN Goto(r, "lookup", "handler") /\ delivered' = Append(delivered, line[r])
     ELSE Goto(r, "lookup", "reading") /\ UNCHANGED delivered
  /\ UNCHANGED <<line, arrived>>
  /\ LoopUnchanged

\* The handler returns, or throws, which nothing catches.
HandlerReturns(r) ==
  /\ op[r] = "idle"
  /\ Goto(r, "handler", "reading")
  /\ terminated' \in BOOLEAN
  /\ UNCHANGED <<line, arrived, delivered, state, handlers, output_bad, op,
                 sends, at_close>>
-----------------------------------------------------------------------------
Calling(t) ==
  \/ Close(t) \/ Notify(t) \/ Send(t) \/ Write(t) \/ CheckOutput(t) \/ SendThrows(t)

Reading(r) ==
  \/ ReadLine(r) \/ ReadEnds(r) \/ CheckActive(r) \/ CallHandler(r) \/ HandlerReturns(r)

Next ==
  /\ ~terminated
  /\ \/ \E kind \in Kinds : SetHandler(kind)
     \/ \E a \in Apps : Start(a) \/ Spawn(a)
     \/ \E t \in Threads : Calling(t)
     \/ \E r \in Readers : Reading(r)

Spec == Init /\ [][Next]_vars
-----------------------------------------------------------------------------
\* The lines reach the message handler in the order of the input and none of
\* them twice, although start and close race on any number of threads: there
\* is never a second reader on the stream.
InOrder ==
  \A i, j \in 1..Len(delivered) : i < j => delivered[i] < delivered[j]

\* A close does not stop the line the reader has already checked, but at most
\* that one message reaches the handler after the close.
OneLateMessage ==
  close_notified => Len(delivered) <= at_close + 1

\* The message handler never runs on two threads at once; the client and the
\* server keep their state without a lock.
HandlerAlone ==
  \A r, s \in Readers : reader[r] = "handler" /\ reader[s] = "handler" => r = s

\* The transport keeps the contract of ITransport: every close that takes
\* effect notifies once, and only an opening arms another one.
Contract == INSTANCE TransportContract WITH
  open <- active, armed <- ~close_notified,
  pending <- {t \in Threads : op[t] = "notify"}
KeepsContract == Contract!Spec
=============================================================================
