---------------------------- MODULE HttpExchange ----------------------------
(***************************************************************************)
(* One message of the client as an HTTP exchange: send of                  *)
(* https_transport.cpp on one side, handle_client and read_http_request of *)
(* server_streamable_http_transport.cpp on the other, and a connection     *)
(* that hands over the request in pieces of any size and may break.        *)
(*                                                                         *)
(* A request is a sequence of tokens, so that pieces end anywhere, between *)
(* the two line ends of the blank line too.  A body may hold blank lines:  *)
(* the white space of the params is the user's.  Each post has a           *)
(* connection and a server thread of its own; the server is listening, has *)
(* a message handler and lives on (StreamableHttp has what else may        *)
(* happen there, and what becomes of a descriptor that is closed twice).   *)
(***************************************************************************)
EXTENDS Integers, Sequences, FiniteSetsExt

CONSTANTS
  Clients,
  MaxPosts,    (* bound on the messages that each client sends             *)
  Bodies,      (* the messages: sequences of "text" and "crlf"             *)
  MaxReplies   (* bound on the messages that a message handler sends       *)

ASSUME ConstantsAssumption ==
  /\ {MaxPosts, MaxReplies} \subseteq Nat
  /\ Bodies \subseteq Seq({"text", "crlf"})

Connections == Clients \X (1..MaxPosts)
Message == Connections \X (1..MaxReplies)

VARIABLES
  \* The options of each client.
  path,        (* whether its URL has the server's path                    *)
  headers,     (* the header fields the user adds                          *)
  hears,       (* whether it has a message handler                         *)
  \* Each client, inside or outside of send.
  posts,       (* how many messages it has sent                            *)
  sending,     (* it waits for the answer to the last of them              *)
  outcome,     (* how each send ended: it "returned" or "threw", or it let *)
               (* through what the client's handler threw ("handler_threw")*)
  given,       (* what each send gave to the client's message handler      *)
  \* Each connection.
  posted,      (* the message                                              *)
  wire,        (* what of the request has not been read                    *)
  cut,         (* the client has hung up, or the connection is broken      *)
  response,    (* what the server has written                              *)
  \* The server's thread and ConnectionContext of each connection.
  thread, raw, closed,
  replies,     (* how many messages the message handler has sent           *)
  handled      (* the body it was called with                              *)

client == <<path, headers, hears, posts, sending, outcome, given, posted>>
server == <<thread, raw, closed, replies, handled>>
vars == <<client, wire, cut, response, server>>

Silence == [status |-> 0, messages |-> <<>>]

TypeOK ==
  /\ path \in [Clients -> {"right", "wrong"}]
  /\ headers \in [Clients -> Seq({"accept_stream", "crlf"})]
  /\ hears \in [Clients -> BOOLEAN]
  /\ posts \in [Clients -> 0..MaxPosts]
  /\ sending \in [Clients -> BOOLEAN]
  /\ outcome \in [Connections -> {"none", "returned", "threw", "handler_threw"}]
  /\ given \in [Connections -> Seq(Message)]
  /\ posted \in [Connections -> Bodies \cup {<<"none">>}]
  /\ handled \in [Connections -> Seq({"text", "crlf"}) \cup {<<"none">>}]
  /\ cut \in [Connections -> BOOLEAN]
  /\ response \in [Connections -> [status : {0, 200, 404, 500}, messages : Seq(Message)]]
  /\ thread \in [Connections -> {"none", "reading", "dispatch", "handler", "done"}]
  /\ closed \in [Connections -> BOOLEAN]
  /\ replies \in [Connections -> 0..MaxReplies]

Init ==
  /\ path \in [Clients -> {"right", "wrong"}]
  /\ headers \in [Clients -> {<<>>, <<"accept_stream", "crlf">>}]
  /\ hears \in [Clients -> BOOLEAN]
  /\ posts = [c \in Clients |-> 0]
  /\ sending = [c \in Clients |-> FALSE]
  /\ outcome = [k \in Connections |-> "none"]
  /\ given = [k \in Connections |-> <<>>]
  /\ posted = [k \in Connections |-> <<"none">>]
  /\ wire = [k \in Connections |-> <<>>]
  /\ cut = [k \in Connections |-> FALSE]
  /\ response = [k \in Connections |-> Silence]
  /\ thread = [k \in Connections |-> "none"]
  /\ raw = wire
  /\ closed = cut
  /\ replies = [k \in Connections |-> 0]
  /\ handled = posted
-----------------------------------------------------------------------------
(* The client *)

Current(c) == <<c, posts[c]>>

\* The library's own header fields come before the user's, and libcurl puts
\* the length last.
Request(c, body) ==
  <<"line", "crlf", "accept_both", "crlf">> \o headers[c]
    \o <<"length", "crlf", "crlf">> \o body

Post(c) ==
  /\ ~sending[c]
  /\ posts[c] < MaxPosts
  /\ posts' = [posts EXCEPT ![c] = @ + 1]
  /\ sending' = [sending EXCEPT ![c] = TRUE]
  /\ \E body \in Bodies :
       /\ posted' = [posted EXCEPT ![Current(c)'] = body]
       /\ wire' = [wire EXCEPT ![Current(c)'] = Request(c, body)]
  /\ thread' = [thread EXCEPT ![Current(c)'] = "reading"]
  /\ UNCHANGED <<path, headers, hears, outcome, given, cut, response, raw, closed, replies, handled>>

Ends(c, how) ==
  /\ sending[c]
  /\ sending' = [sending EXCEPT ![c] = FALSE]
  /\ outcome' = [outcome EXCEPT ![Current(c)] = how]

\* curl_easy_perform fails: the connection broke or took too long.
GiveUp(c) ==
  /\ Ends(c, "threw")
  /\ cut' = [cut EXCEPT ![Current(c)] = TRUE]
  /\ UNCHANGED <<path, headers, hears, posts, given, posted, wire, response, server>>

\* The response is read to its end, which of a stream is the end of the
\* connection; a status of 400 and above throws.  Nothing is given without a
\* message handler or a body.  The handler may throw at any of the messages;
\* then send frees what it holds and throws the exception again.
Receive(c) ==
  LET r == response[Current(c)]
      Gives(n) == given' = [given EXCEPT ![Current(c)] = SubSeq(r.messages, 1, n)]
  IN /\ sending[c]
     /\ closed[Current(c)]
     /\ \/ r.status >= 400 /\ Ends(c, "threw") /\ UNCHANGED given
        \/ r.status < 400 /\ ~hears[c] /\ Ends(c, "returned") /\ UNCHANGED given
        \/ /\ r.status < 400
           /\ hears[c]
           /\ \/ Ends(c, "returned") /\ Gives(Len(r.messages))
              \/ Ends(c, "handler_threw") /\ \E n \in 1..Len(r.messages) : Gives(n)
     /\ UNCHANGED <<path, headers, hears, posts, posted, wire, cut, response, server>>
-----------------------------------------------------------------------------
(* The server *)

\* Where "\r\n\r\n" is found.
BlankLines(s) == {i \in 1..Len(s) - 1 : s[i] = "crlf" /\ s[i + 1] = "crlf"}

\* Mutant: the body is taken as soon as the header is there.
HeaderComplete(s, length) == BlankLines(s) # {}

\* What the bytes read so far are worth: the header block, and the body once
\* the whole of it has come.
HeaderEnd(s) == Min(BlankLines(s))
Complete(s, length) ==
  /\ BlankLines(s) # {}
  /\ Len(s) - (HeaderEnd(s) + 1) >= length
Body(s, length) ==
  SubSeq(s, HeaderEnd(s) + 2, Min({Len(s), HeaderEnd(s) + 1 + length}))

AcceptFields(s) ==
  {i \in 1..HeaderEnd(s) : s[i] \in {"accept_both", "accept_stream"}}

\* Mutant: of fields with the same name the last one counts.
LastAccept(s) == s[Max(AcceptFields(s))]

\* Of fields with the same name the first one counts (emplace).
Accept(s) == s[Min(AcceptFields(s))]

Streaming(k) == Accept(raw[k]) = "accept_stream"

Goto(k, from, to) ==
  /\ thread[k] = from
  /\ thread' = [thread EXCEPT ![k] = to]

\* recv returns some of what there is.
Recv(k) ==
  /\ \E n \in 1..Len(wire[k]) :
       /\ raw' = [raw EXCEPT ![k] = @ \o SubSeq(wire[k], 1, n)]
       /\ wire' = [wire EXCEPT ![k] = SubSeq(@, n + 1, Len(@))]
  /\ Goto(k, "reading", IF Complete(raw'[k], Len(posted[k])) THEN "dispatch" ELSE "reading")
  /\ UNCHANGED <<client, cut, response, closed, replies, handled>>

\* recv fails: what was under way may be lost with the connection.
RecvFails(k) ==
  /\ cut[k]
  /\ Goto(k, "reading", "done")
  /\ closed' = [closed EXCEPT ![k] = TRUE]
  /\ UNCHANGED <<client, wire, cut, response, raw, replies, handled>>

Respond(k, status, messages) ==
  response' = [response EXCEPT ![k] = [status |-> status, messages |-> messages]]

\* The message handler is called, or the path is refused.
Dispatch(k) ==
  /\ IF path[k[1]] = "wrong"
     THEN /\ Goto(k, "dispatch", "done")
          /\ Respond(k, 404, <<>>)
          /\ closed' = [closed EXCEPT ![k] = TRUE]
          /\ UNCHANGED handled
     ELSE /\ Goto(k, "dispatch", "handler")
          /\ handled' = [handled EXCEPT ![k] = Body(raw[k], Len(posted[k]))]
          /\ UNCHANGED <<response, closed>>
  /\ UNCHANGED <<client, wire, cut, raw, replies>>

Answer(j, k) ==
  /\ thread[k] = "handler"
  /\ replies[k] < MaxReplies
  /\ replies' = [replies EXCEPT ![k] = @ + 1]
  /\ IF closed[j] THEN UNCHANGED <<response, closed>>
     ELSE /\ \/ Respond(j, 200, Append(response[j].messages, <<k, replies'[k]>>))
             \/ cut[j] /\ UNCHANGED response
          /\ closed' = [closed EXCEPT ![j] = ~Streaming(j)]
  /\ UNCHANGED <<client, wire, cut, thread, raw, handled>>

\* Mutant: the context is not that of the thread.
ReplyToAny(k) ==
  \E j \in Connections : thread[j] = "handler" /\ Answer(j, k)

\* send_to_request: the context of the request is that of the thread.  The
\* first message is the response, the next ones go nowhere.
Reply(k) == Answer(k, k)

\* Mutant: a request that got no answer is accepted.
HandlerAccepts(k) ==
  /\ Goto(k, "handler", "done")
  /\ closed' = [closed EXCEPT ![k] = TRUE]
  /\ IF closed[k] THEN UNCHANGED response ELSE Respond(k, 202, <<>>)
  /\ UNCHANGED <<client, wire, cut, raw, replies, handled>>

\* The handler returns or throws.
HandlerReturns(k) ==
  /\ Goto(k, "handler", "done")
  /\ IF Streaming(k)
     THEN /\ Respond(k, 200, response[k].messages)
          /\ UNCHANGED closed
     ELSE /\ closed' = [closed EXCEPT ![k] = TRUE]
          /\ IF closed[k] THEN UNCHANGED response ELSE Respond(k, 500, <<>>)
  /\ UNCHANGED <<client, wire, cut, raw, replies, handled>>

Serves(k) ==
  Recv(k) \/ RecvFails(k) \/ Dispatch(k) \/ Reply(k) \/ HandlerReturns(k)

Next ==
  \/ \E c \in Clients : Post(c) \/ GiveUp(c) \/ Receive(c)
  \/ \E k \in Connections : Serves(k)

Spec == Init /\ [][Next]_vars

\* The server's threads run, their handlers return, and libcurl reads on.
\* Neither a message nor a timeout is owed: CURLOPT_TIMEOUT_MS may be 0.
Fairness ==
  /\ \A c \in Clients : WF_vars(Receive(c))
  /\ \A k \in Connections : WF_vars(Serves(k))

FairSpec == Spec /\ Fairness
-----------------------------------------------------------------------------
\* The server's handler gets the message the client sent, whole and nothing
\* else, wherever the pieces end and whatever blank lines the message holds.
WholeBody ==
  \A k \in Connections : handled[k] \in {<<"none">>, posted[k]}

\* A send that returns, or ends because the client's own handler threw, has done
\* its job: the server's handler was called with its message and the first reply
\* to it, and nothing else, was given to the client's handler, if it has one.  A
\* send that throws for any other reason has given nothing.  So it is although
\* requests of other clients, and abandoned ones of the same client, are served
\* at the same time, and although the server may reply late, twice or not at all.
Done(k) == outcome[k] \in {"returned", "handler_threw"}
OwnReply ==
  \A k \in Connections :
    /\ Done(k) => handled[k] = posted[k]
    /\ given[k] = IF Done(k) /\ hears[k[1]] THEN << <<k, 1>> >> ELSE <<>>

\* Every send ends, even when no timeout is set: the client never asks for a
\* stream, of which it would wait for the end, although the user may add the
\* header field for one.
SendsEnd == \A c \in Clients : sending[c] ~> ~sending[c]

\* include/mcp/client.hpp:89, notify: "Send a raw MCP notification."  A send
\* whose message the server has handled throws only if the connection broke,
\* also when the message asks for no reply.
HandledIsSent ==
  \A k \in Connections :
    outcome[k] = "threw" /\ handled[k] # <<"none">> => cut[k]
=============================================================================
