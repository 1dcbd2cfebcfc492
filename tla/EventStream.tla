----------------------------- MODULE EventStream -----------------------------
(***************************************************************************)
(* Messages as server-sent events: how the streamable HTTP server frames   *)
(* them (build_sse_message) and how the HTTPS client gets them back        *)
(* from the body of the response (parse_event_stream), line by line.       *)
(*                                                                         *)
(* A text is the sequence of its lines, one at least; its newlines are     *)
(* what is between two of them.  A line of the body is [field, value].     *)
(***************************************************************************)
EXTENDS Integers, Sequences, SequencesExt

CONSTANTS
  Contents,     (* what the lines of texts are                             *)
  Empty,        (* the one without characters                              *)
  Messages,     (* the texts that are sent                                 *)
  MaxMessages,  (* bound on the messages of one stream                     *)
  Noise         (* lines other servers put between events                  *)

\* JSON texts begin with a bracket, hence with a line that is not empty.
ASSUME StreamAssumption ==
  /\ Empty \in Contents
  /\ Messages \subseteq Seq(Contents)
  /\ \A text \in Messages : text # <<>> /\ text[1] # Empty
  /\ MaxMessages \in Nat
  /\ \A line \in Noise : line.field # "data"

Line(field, value) == [field |-> field, value |-> value]
Blank == Line("blank", Empty)
Comment == Line("comment", Empty)

\* The text without characters.
NoText == <<Empty>>

VARIABLES
  standard,     (* the server starts every line with data:, unlike the     *)
                (* library's own                                           *)
  messages,     (* the messages that were sent                             *)
  body,         (* the lines of the response                               *)
  phase,        (* "sending", then "parsing" by the client, then "done"    *)
  parsed,       (* how many lines of it have been parsed                   *)
  accumulated,  (* accumulated_data                                        *)
  emitted       (* the messages given to the message handler               *)

streamVars == <<standard, messages, body, phase, parsed, accumulated, emitted>>

StreamInit ==
  /\ standard \in BOOLEAN
  /\ messages = <<>>
  /\ body = <<>>
  /\ phase = "sending"
  /\ parsed = 0
  /\ accumulated = NoText
  /\ emitted = <<>>
-----------------------------------------------------------------------------
(* The server *)

\* build_sse_message: one data line and whatever the newlines of the message
\* make of it.
Frame(text) ==
  <<Line("event", "message"), Line("data", text[1])>>
  \o [n \in 1..(Len(text) - 1) |->
        IF text[n + 1] = Empty THEN Blank ELSE Line("other", text[n + 1])]
  \o <<Blank>>

\* What the standard asks for instead, and what other servers do.
FrameStandard(text) ==
  [n \in 1..Len(text) |-> Line("data", text[n])] \o <<Blank>>

\* One event is added to the response.  The server, or a proxy on the way, may
\* put noise before it.
Send(text, noise) ==
  /\ phase = "sending"
  /\ Len(messages) < MaxMessages
  /\ messages' = Append(messages, text)
  /\ body' = body \o noise \o (IF standard THEN FrameStandard(text) ELSE Frame(text))
  /\ UNCHANGED <<standard, phase, parsed, accumulated, emitted>>

\* The response is complete.  What follows its last newline is a line too, an
\* empty one; the blank line after the last event may have no newline or be
\* missing.
Complete ==
  /\ phase = "sending"
  /\ phase' = "parsing"
  /\ body' \in {Append(body, Blank)} \cup (IF body = <<>> THEN {} ELSE {body, Front(body)})
  /\ UNCHANGED <<standard, messages, parsed, accumulated, emitted>>
-----------------------------------------------------------------------------
(* parse_event_stream *)

\* Mutant: the data of an event stays behind.
FlushKept ==
  /\ emitted' = IF accumulated = NoText THEN emitted ELSE Append(emitted, accumulated)
  /\ UNCHANGED accumulated

\* flush_event: an event without data is none.
Flush ==
  /\ emitted' = IF accumulated = NoText THEN emitted ELSE Append(emitted, accumulated)
  /\ accumulated' = NoText

\* Data lines are joined by newlines.
Accumulated(text, value) == IF text = NoText THEN <<value>> ELSE Append(text, value)

\* A blank line ends the event; comments and other fields are skipped.
ParseLine ==
  /\ phase = "parsing"
  /\ parsed < Len(body)
  /\ parsed' = parsed + 1
  /\ \/ body[parsed + 1].field = "blank" /\ Flush
     \/ /\ body[parsed + 1].field = "data"
        /\ accumulated' = Accumulated(accumulated, body[parsed + 1].value)
        /\ UNCHANGED emitted
     \/ /\ body[parsed + 1].field \notin {"blank", "data"}
        /\ UNCHANGED <<accumulated, emitted>>
  /\ UNCHANGED <<standard, messages, body, phase>>

\* Mutant: what is left at the end of the body is lost.
ParseEndDrops ==
  /\ phase = "parsing"
  /\ parsed = Len(body)
  /\ phase' = "done"
  /\ UNCHANGED <<standard, messages, body, parsed, accumulated, emitted>>

\* The body is over; what is left is an event too.
ParseEnd ==
  /\ phase = "parsing"
  /\ parsed = Len(body)
  /\ phase' = "done"
  /\ Flush
  /\ UNCHANGED <<standard, messages, body, parsed>>

StreamNext ==
  \/ \E text \in Messages, noise \in {<<>>} \cup {<<line>> : line \in Noise} : Send(text, noise)
  \/ Complete
  \/ ParseLine
  \/ ParseEnd

StreamSpec == StreamInit /\ [][StreamNext]_streamVars
-----------------------------------------------------------------------------
\* What a stream can carry: any message when every line of it starts with
\* data:, messages of one line when the library's own server sends them.
Carried == standard \/ \A i \in 1..Len(messages) : Len(messages[i]) = 1

\* At any point the messages given to the handler are the first ones sent, each
\* complete and once, whatever noise the stream contains.
PrefixEmitted == Carried => IsPrefix(emitted, messages)

\* When the body is over every message sent has been given to the handler,
\* whether the stream ended with a blank line or not.
AllEmitted == Carried /\ phase = "done" => emitted = messages

\* include/mcp/server/streamable_http_transport.hpp:26, "receive SSE-framed MCP
\* messages": the same for messages of more than one line, such as a result a
\* request handler has formatted.
MultiLineEmitted == phase = "done" => emitted = messages
=============================================================================
