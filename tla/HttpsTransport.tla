--------------------------- MODULE HttpsTransport ---------------------------
(***************************************************************************)
(* The client side of the HTTP transport: HttpsTransport::Impl of          *)
(* https_transport.cpp, over libcurl.                                      *)
(*                                                                         *)
(* There is no thread of its own.  send posts the message and hands the    *)
(* messages of the response to the message handler before it returns, so   *)
(* handlers run inside send, and may send, connect and close in turn.      *)
(* Every thread therefore has a call stack (Frames).  How the events of a  *)
(* response are taken apart is the subject of EventStream.                 *)
(***************************************************************************)
EXTENDS Frames

CONSTANTS
  Threads,      (* the threads that call the transport                     *)
  None,
  MaxSends,     (* bound on the calls of send by each thread               *)
  MaxMessages,  (* bound on the messages of a response                     *)
  MaxDepth      (* bound on the frames of a stack                          *)

ASSUME ConstantsAssumption ==
  /\ None \notin Nat
  /\ MaxSends \in Nat
  /\ MaxMessages \in Nat
  /\ MaxDepth \in Nat

VARIABLES
  active, close_notified,
  handlers,     (* which of the handlers are set                             *)
  handles,      (* the libcurl handles (and header lists) that the sends of  *)
                (* each thread have not yet freed                            *)
  sends,        (* how many times each thread has called send              *)
  stack         (* the call stack of each thread; the "on" of a frame that *)
                (* delivers is the number of messages left                 *)

state == <<active, close_notified>>
vars == <<state, handlers, handles, sends, stack>>

Kinds == {"message", "error", "close"}

\* "callback" is the message handler, the error handler or the close handler.
Doing == {"init", "perform", "lookup", "deliver", "cleanup", "cleanup_throw",
          "throw", "notify", "callback"}
Holding == {"perform", "lookup", "deliver", "cleanup", "cleanup_throw"}

FrameType ==
  [do : Doing \ {"deliver"}, on : {None}] \cup [do : {"deliver"}, on : 0..MaxMessages]

TypeOK ==
  /\ {active, close_notified} \subseteq BOOLEAN
  /\ handlers \in [Kinds -> BOOLEAN]
  /\ handles \in [Threads -> Nat]
  /\ sends \in [Threads -> 0..MaxSends]
  /\ stack \in [Threads -> Seq(FrameType)]

Init ==
  /\ active = FALSE
  /\ close_notified = FALSE
  /\ handlers \in [Kinds -> BOOLEAN]
  /\ handles = [t \in Threads |-> 0]
  /\ sends = [t \in Threads |-> 0]
  /\ stack = [t \in Threads |-> <<>>]
-----------------------------------------------------------------------------
MayCall(t) ==
  /\ Len(stack[t]) < MaxDepth
  /\ stack[t] # <<>> => Top(stack[t]).do = "callback"

About(t, do) == stack[t] # <<>> /\ Top(stack[t]).do = do

Continue(t, frames) == stack' = [stack EXCEPT ![t] = Then(@, frames)]

Calls(t, frame) == stack' = [stack EXCEPT ![t] = Append(@, frame)]

Connect(t) ==
  /\ MayCall(t)
  /\ active' = TRUE
  /\ close_notified' = FALSE
  /\ UNCHANGED <<handlers, handles, sends, stack>>

\* Mutant: a second close is not turned away.
CloseAgain(t) ==
  /\ MayCall(t)
  /\ active' = FALSE
  /\ close_notified' = TRUE
  /\ Calls(t, Frame("notify", None))
  /\ UNCHANGED <<handlers, handles, sends>>

Close(t) ==
  /\ MayCall(t)
  /\ ~close_notified
  /\ active' = FALSE
  /\ close_notified' = TRUE
  /\ Calls(t, Frame("notify", None))
  /\ UNCHANGED <<handlers, handles, sends>>

\* set_handlers, set_error_handler and set_close_handler, also with an
\* empty function.
SetHandler(kind) ==
  /\ handlers' = [handlers EXCEPT ![kind] = ~@]
  /\ UNCHANGED <<state, handles, sends, stack>>

\* The close handler is called, if there is one.
Notify(t) ==
  /\ About(t, "notify")
  /\ Continue(t, IF handlers["close"] THEN <<Frame("callback", None)>> ELSE <<>>)
  /\ UNCHANGED <<state, handlers, handles, sends>>
-----------------------------------------------------------------------------
(* send *)

Send(t) ==
  /\ MayCall(t)
  /\ active
  /\ sends[t] < MaxSends
  /\ sends' = [sends EXCEPT ![t] = @ + 1]
  /\ Calls(t, Frame("init", None))
  /\ UNCHANGED <<state, handlers, handles>>

\* emit_error calls the error handler, if there is one; then the frame below
\* throws.
Fail(t, next) ==
  Continue(t, IF handlers["error"] THEN <<Frame(next, None), Frame("callback", None)>>
              ELSE <<Frame(next, None)>>)

\* curl_easy_init; when it fails there is nothing to clean up.
EasyInit(t) ==
  /\ About(t, "init")
  /\ \/ handles' = [handles EXCEPT ![t] = @ + 1] /\ Continue(t, <<Frame("perform", None)>>)
     \/ Fail(t, "throw") /\ UNCHANGED handles
  /\ UNCHANGED <<state, handlers, sends>>

\* curl_easy_perform; transport failures and HTTP errors are reported.
Perform(t) ==
  /\ About(t, "perform")
  /\ Continue(t, <<Frame("lookup", None)>>) \/ Fail(t, "cleanup_throw")
  /\ UNCHANGED <<state, handlers, handles, sends>>

\* The handler is copied under handler_mutex.  A response without a body, or
\* without a handler, is dropped; one of another content type is an error.
Lookup(t) ==
  /\ About(t, "lookup")
  /\ \/ Continue(t, <<Frame("cleanup", None)>>)
     \/ /\ handlers["message"]
        /\ \/ Fail(t, "cleanup_throw")
           \/ \E n \in 0..MaxMessages : Continue(t, <<Frame("deliver", n)>>)
  /\ UNCHANGED <<state, handlers, handles, sends>>

\* One message of the response after the other, active or not.
Deliver(t) ==
  /\ About(t, "deliver")
  /\ LET left == Top(stack[t]).on
     IN Continue(t, IF left = 0 THEN <<Frame("cleanup", None)>>
                    ELSE <<Frame("deliver", left - 1), Frame("callback", None)>>)
  /\ UNCHANGED <<state, handlers, handles, sends>>

\* Mutant: freed again by the catch block.
CleanupTwice(t) ==
  /\ About(t, "cleanup")
  /\ handles' = [handles EXCEPT ![t] = @ - 1]
  /\ Continue(t, <<Frame("cleanup_throw", None)>>)
  /\ UNCHANGED <<state, handlers, sends>>

Cleanup(t) ==
  /\ About(t, "cleanup")
  /\ handles' = [handles EXCEPT ![t] = @ - 1]
  /\ Continue(t, <<>>)
  /\ UNCHANGED <<state, handlers, sends>>

\* Mutant: nothing catches an exception inside send.
CleanupThrowForgotten(t) ==
  /\ About(t, "cleanup_throw")
  /\ Continue(t, <<Frame("throw", None)>>)
  /\ UNCHANGED <<state, handlers, handles, sends>>

\* catch (...): what was allocated is freed and the exception thrown again.
CleanupThrow(t) ==
  /\ About(t, "cleanup_throw")
  /\ handles' = [handles EXCEPT ![t] = @ - 1]
  /\ Continue(t, <<Frame("throw", None)>>)
  /\ UNCHANGED <<state, handlers, sends>>

\* The exception leaves send: user code below, if any, gets it, and may catch
\* it or throw in turn (Return).
Throw(t) ==
  /\ About(t, "throw")
  /\ Continue(t, <<>>)
  /\ UNCHANGED <<state, handlers, handles, sends>>

\* User code returns, or throws into the send that called it.  (What it throws
\* into other user code, by way of close, is for that code to throw again.)
Return(t) ==
  /\ About(t, "callback")
  /\ LET below == Then(stack[t], <<>>)
     IN \/ stack' = [stack EXCEPT ![t] = below]
        \/ /\ below # <<>>
           /\ Top(below).do # "callback"
           /\ stack' = [stack EXCEPT ![t] =
                Then(below, <<Frame(IF Top(below).do \in Holding THEN "cleanup_throw"
                                    ELSE "throw", None)>>)]
  /\ UNCHANGED <<state, handlers, handles, sends>>

Runs(t) ==
  \/ Notify(t) \/ EasyInit(t) \/ Perform(t) \/ Lookup(t) \/ Deliver(t)
  \/ Cleanup(t) \/ CleanupThrow(t) \/ Throw(t) \/ Return(t)

Next ==
  \/ \E kind \in Kinds : SetHandler(kind)
  \/ \E t \in Threads : Connect(t) \/ Close(t) \/ Send(t) \/ Runs(t)

Spec == Init /\ [][Next]_vars
-----------------------------------------------------------------------------
\* A thread that is inside no call has freed every libcurl handle and header
\* list, once: whatever failed, whichever handler threw, and however deep sends
\* were nested in the handlers of other sends.  (That none is freed twice is the
\* type of handles.)
HandlesFreed ==
  \A t \in Threads : stack[t] = <<>> => handles[t] = 0

\* The transport keeps the contract of ITransport: every close that takes
\* effect notifies once, and only an opening arms another one.
Contract == INSTANCE TransportContract WITH
  open <- active, armed <- ~close_notified,
  pending <- {t \in Threads : About(t, "notify")}
KeepsContract == Contract!Spec
=============================================================================
