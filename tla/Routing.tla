------------------------------- MODULE Routing -------------------------------
(***************************************************************************)
(* What the server answers: the registries and on_transport_message of     *)
(* Server::Impl (server.cpp), fed with the messages that the library's     *)
(* client builds.  One message is handled at a time; when the facade is    *)
(* started, stopped or fails is the subject of Server, and what becomes of *)
(* an answer, or of an exception, that of the transports.                  *)
(***************************************************************************)
EXTENDS JsonRpc, SequencesExt

CONSTANTS
  Methods,        (* the methods that user handlers are registered for     *)
  Ids,            (* the ids of requests                                   *)
  Params,         (* the texts of params that the client is asked to send  *)
  Results,        (* the texts of objects that user handlers return        *)
  Names, Revisions,    (* descriptors: their keys, and what they describe  *)
  MaxEntries      (* bound on the calls of register_*                      *)

Kinds == {"tools", "resources", "prompts"}
Lists == [kind \in Kinds |-> CASE kind = "tools"     -> "tools/list"
                               [] kind = "resources" -> "resources/list"
                               [] kind = "prompts"   -> "prompts/list"]
Listed == {Lists[kind] : kind \in Kinds}

AllMethods == Methods \cup Listed \cup {"initialize"}
Handled == Methods \cup {"tools/list", "initialize"}   (* what handlers are set for *)

\* The string literals that the library itself writes.
Literals ==
  Listed \cup Kinds \cup
  {"jsonrpc", "2.0", "id", "method", "params", "initialize", "result", "error",
   "code", "message", "method_not_found", "protocolVersion", "2025-03-26",
   "serverInfo", "name", "server", "uri", "description"}

ASSUME ConstantsAssumption ==
  /\ Punctuation \cap Atoms = {} /\ Strings \cap (Punctuation \cup Atoms) = {}
  /\ Ids \cup {"-32601"} \subseteq Atoms
  /\ Literals \cup Methods \cup Names \cup Revisions \subseteq Strings
  /\ Params \cup Results \subseteq Seq(Tokens)
  /\ \A params \in Params : params = <<>> \/ IsStructured(params)
  /\ \A result \in Results : IsStructured(result) /\ result[1] = "lbrace"
  /\ MaxEntries \in Nat

VARIABLES
  auto_handle_initialize,  (* of the options                                *)
  request_handlers,  (* the methods that have a user handler               *)
  registry,          (* tools_, resources_ and prompts_                    *)
  registered,        (* history: the calls of register_*, in order         *)
  message,           (* the last message of the client                     *)
  seen,              (* what user code was called with for it              *)
  threw,             (* whether that user code threw                       *)
  answer             (* what the server sent for it                        *)

vars == <<auto_handle_initialize, request_handlers, registry, registered, message, seen, threw,
          answer>>

Entry == [name : Names, revision : Revisions]
Nothing == [by |-> "nobody", id |-> Absent, method |-> Absent, params |-> Absent]

NoMessage == [text |-> <<>>, id |-> Absent, method |-> Absent, params |-> Absent]

TypeOK ==
  /\ auto_handle_initialize \in BOOLEAN
  /\ request_handlers \subseteq Handled
  /\ registry \in [Kinds -> Seq(Entry)]
  /\ registered \in Seq([kind : Kinds, entry : Entry])
  /\ DOMAIN message = DOMAIN NoMessage
  /\ DOMAIN seen = DOMAIN Nothing
  /\ threw \in BOOLEAN
  /\ answer = Absent \/ (answer[1] = "lbrace" /\ Depth(answer, Len(answer)) = 0)

Init ==
  /\ auto_handle_initialize \in BOOLEAN
  /\ request_handlers = {}
  /\ registry = [kind \in Kinds |-> <<>>]
  /\ registered = <<>>
  /\ message = NoMessage
  /\ seen = Nothing
  /\ threw = FALSE
  /\ answer = Absent
-----------------------------------------------------------------------------
(* Registration *)

\* What the history says is about the last message only.
Forget == message' = NoMessage /\ seen' = Nothing /\ threw' = FALSE /\ answer' = Absent

SetRequestHandler(method) ==
  /\ request_handlers' = request_handlers \cup {method}
  /\ Forget
  /\ UNCHANGED <<auto_handle_initialize, registry, registered>>

ClearRequestHandler(method) ==
  /\ request_handlers' = request_handlers \ {method}
  /\ Forget
  /\ UNCHANGED <<auto_handle_initialize, registry, registered>>

\* Mutant: a descriptor registered again is added at the end.
AppendDescriptor(entries, entry) == Append(entries, entry)

\* replace_descriptor: an entry of the same name is replaced where it stands.
ReplaceDescriptor(entries, entry) ==
  IF \E i \in 1..Len(entries) : entries[i].name = entry.name
  THEN [entries EXCEPT ![Min({i \in 1..Len(entries) : entries[i].name = entry.name})] = entry]
  ELSE Append(entries, entry)

Register(kind, entry) ==
  /\ Len(registered) < MaxEntries
  /\ registered' = Append(registered, [kind |-> kind, entry |-> entry])
  /\ registry' = [registry EXCEPT ![kind] = ReplaceDescriptor(@, entry)]
  /\ Forget
  /\ UNCHANGED <<auto_handle_initialize, request_handlers>>
-----------------------------------------------------------------------------
(* Answers *)

Joined(texts) ==
  FlattenSeq([i \in 1..Len(texts) |-> (IF i = 1 THEN <<>> ELSE <<"comma">>) \o texts[i]])

\* build_tool_json, build_resource_json and build_prompt_json, with the descriptor
\* cut down to its key and one more member.
DescriptorText(kind, entry) ==
  <<"lbrace", IF kind = "resources" THEN "uri" ELSE "name", "colon", entry.name,
    "comma", "description", "colon", entry.revision, "rbrace">>

\* build_list_result_json.
ListText(kind, entries) ==
  <<"lbrace", kind, "colon", "lbracket">>
  \o Joined([i \in 1..Len(entries) |-> DescriptorText(kind, entries[i])])
  \o <<"rbracket", "rbrace">>

ListResult(kind) ==
  ListText(kind, registry[kind])

InitializeResult ==
  <<"lbrace", "protocolVersion", "colon", "2025-03-26", "comma", "serverInfo", "colon",
    "lbrace", "name", "colon", "server", "rbrace", "rbrace">>

\* handle_request: the answers of the library come before those of handlers.
ByHandler(method) ==
  /\ method \in request_handlers
  /\ method \notin Listed
  /\ ~(method = "initialize" /\ auto_handle_initialize)

LibraryAnswer(id, method) ==
  IF method = "initialize" /\ auto_handle_initialize THEN ResponseText(id, InitializeResult)
  ELSE IF method \in Listed
  THEN ResponseText(id, ListResult(CHOOSE kind \in Kinds : Lists[kind] = method))
  ELSE ErrorText(id, "-32601", "method_not_found")

\* A user handler returns the text of a result or throws: then nothing is sent.
Route(id, method, params) ==
  \/ /\ ~ByHandler(method)
     /\ answer' = LibraryAnswer(id, method)
     /\ seen' = Nothing
     /\ threw' = FALSE
  \/ /\ ByHandler(method)
     /\ seen' = [by |-> "handler", id |-> id, method |-> <<method>>, params |-> params]
     /\ \/ threw' = TRUE /\ answer' = Absent
        \/ threw' = FALSE /\ \E result \in Results : answer' = ResponseText(id, result)

\* on_transport_message; the callback for notifications may throw as well.
OnTransportMessage(text) ==
  LET method == ExtractString(text, "method")
      params == OrEmpty(ExtractMember(text, "params"))
      id     == ExtractMember(text, "id")
      notification ==
        [by |-> "notification_received", id |-> Absent, method |-> method, params |-> params]
  IN \/ /\ method = Absent
        /\ seen' = Nothing /\ threw' = FALSE /\ answer' = Absent
     \/ /\ method # Absent /\ id = Absent
        /\ seen' = notification /\ threw' \in BOOLEAN /\ answer' = Absent
     \/ /\ method # Absent /\ id # Absent
        /\ Route(id, method[1], params)

\* The client sends a message and the server handles it.  One message between
\* two calls of the application is enough: it changes nothing that the next one
\* would find.
Sent(text, id, method, params) ==
  /\ message = NoMessage
  /\ message' = [text |-> text, id |-> id, method |-> <<method>>, params |-> OrEmpty(params)]
  /\ OnTransportMessage(text)
  /\ UNCHANGED <<auto_handle_initialize, request_handlers, registry, registered>>

\* Client::request and Client::notify send one message each.
ClientRequest(id, method, params) ==
  Sent(RequestText(id, method, params), <<id>>, method, params)

ClientNotify(method, params) ==
  Sent(NotificationText(method, params), Absent, method, params)

Next ==
  \/ \E method \in Handled : SetRequestHandler(method) \/ ClearRequestHandler(method)
  \/ \E kind \in Kinds, entry \in Entry : Register(kind, entry)
  \/ \E method \in AllMethods, params \in Params :
       \/ \E id \in Ids : ClientRequest(id, method, params)
       \/ ClientNotify(method, params)

Spec == Init /\ [][Next]_vars
-----------------------------------------------------------------------------
\* Every request the library's client sends is answered with one well formed
\* response that carries its id and either a result or an error, whatever the
\* params contain and however the method is called, unless a user handler was
\* called for it and threw: then nothing is sent at all.  What a handler returned
\* is the result.
RequestsAnswered ==
  message.id # Absent =>
    IF threw THEN seen.by = "handler" /\ answer = Absent
    ELSE /\ Member(answer, "id") = message.id
         /\ (Member(answer, "result") = Absent) # (Member(answer, "error") = Absent)
         /\ seen.by = "handler" => Member(answer, "result") \in Results

\* User code that is called for a request is given the method and the params
\* that were sent, although members are looked for by text, not by structure.
HandlersSeeTheMessage ==
  message.id # Absent /\ seen.by = "handler" =>
    /\ seen.id = message.id
    /\ seen.method = message.method
    /\ seen.params = message.params

\* What is listed under a kind is what was registered: each name once, in the
\* order of its first registration, with its latest revision.
UpToDate(kind) ==
  LET listed == registry[kind]
      calls(name) == {n \in 1..Len(registered) :
                        registered[n].kind = kind /\ registered[n].entry.name = name}
  IN /\ \A name \in Names :
          calls(name) # {} <=> \E i \in 1..Len(listed) : listed[i].name = name
     /\ \A i \in 1..Len(listed) : listed[i] = registered[Max(calls(listed[i].name))].entry
     /\ \A i, j \in 1..Len(listed) :
          i < j => Min(calls(listed[i].name)) < Min(calls(listed[j].name))

\* The automatic lists contain what was registered, each name once and in its
\* latest revision, and no handler of the same name is asked.
ListsTheRegistered ==
  \A kind \in Kinds : message.id # Absent /\ message.method = <<Lists[kind]>> =>
    /\ Member(answer, "result") = ListText(kind, registry[kind])
    /\ UpToDate(kind)
    /\ seen = Nothing

\* include/mcp/server/types.hpp:141, "Generic client notification delivered to
\* the server": a notification reaches the callback and nothing is answered.
NotificationsDelivered ==
  message.text # <<>> /\ message.id = Absent =>
    seen.by = "notification_received" /\ answer = Absent
=============================================================================
