------------------------------- MODULE JsonRpc -------------------------------
(***************************************************************************)
(* The JSON-RPC messages of the library: how json_rpc_util.hpp, client.cpp *)
(* and server.cpp build them, and how server.cpp finds a member in one.    *)
(*                                                                         *)
(* A text is the sequence of its tokens: punctuation, string literals      *)
(* (named by what they denote, so that quoting and unquoting cancel out)   *)
(* and atoms (numbers, true, false, null).  White space is left out, and   *)
(* so is what the search by text finds inside a literal, such as a colon.  *)
(***************************************************************************)
EXTENDS Integers, Sequences, FiniteSets, FiniteSetsExt

CONSTANTS
  Atoms,     (* the tokens that are numbers or constants                   *)
  Strings    (* the tokens that are string literals                        *)

Opening == {"lbrace", "lbracket"}
Closing == {"rbrace", "rbracket"}
Punctuation == Opening \cup Closing \cup {"colon", "comma"}
Tokens == Punctuation \cup Atoms \cup Strings
IsString(token) == token \notin Punctuation \cup Atoms

\* The bracket that closes one of this kind.
Closer(bracket) == IF bracket = "lbrace" THEN "rbrace" ELSE "rbracket"

Absent == <<>>     (* no such member: a value is never empty               *)
-----------------------------------------------------------------------------
(* Building *)

\* A missing value is written as an empty object.
OrEmpty(text) == IF text = <<>> THEN <<"lbrace", "rbrace">> ELSE text

RequestText(id, method, params) ==
  <<"lbrace", "jsonrpc", "colon", "2.0", "comma", "id", "colon", id,
    "comma", "method", "colon", method, "comma", "params", "colon">>
  \o OrEmpty(params) \o <<"rbrace">>

NotificationText(method, params) ==
  <<"lbrace", "jsonrpc", "colon", "2.0", "comma", "method", "colon", method,
    "comma", "params", "colon">>
  \o OrEmpty(params) \o <<"rbrace">>

\* The id is the raw text that was found in the request.
Response(id, key, value) ==
  <<"lbrace", "jsonrpc", "colon", "2.0", "comma", "id", "colon">> \o id
  \o <<"comma", key, "colon">> \o value \o <<"rbrace">>

ResponseText(id, result) == Response(id, "result", result)

\* Mutant: the closing brace of the error is missing.
ErrorTextUnbalanced(id, code, message) ==
  Response(id, "error",
    <<"lbrace", "code", "colon", code, "comma", "message", "colon", message>>)

ErrorText(id, code, message) ==
  Response(id, "error",
    <<"lbrace", "code", "colon", code, "comma", "message", "colon", message, "rbrace">>)
-----------------------------------------------------------------------------
(* Finding a member *)

Occurs(text, tokens, from, n) == \E i \in from..n : text[i] \in tokens

First(text, tokens, from) ==
  Min({i \in from..Len(text) : text[i] \in tokens})

Count(text, token, from, n) == Cardinality({i \in from..n : text[i] = token})

\* Mutant: nested brackets are not counted.
CloseFirst(text, at) == First(text, {Closer(text[at])}, at)

\* Where the bracket opened at position at is closed: only brackets of the same
\* kind are counted.
Close(text, at) ==
  LET ends == {i \in at..Len(text) :
                 Count(text, text[at], at, i) = Count(text, Closer(text[at]), at, i)}
  IN IF ends = {} THEN Len(text) ELSE Min(ends)

\* The value that begins at position at.
ValueAt(text, at) ==
  IF text[at] \in Opening THEN SubSeq(text, at, Close(text, at))
  ELSE IF IsString(text[at]) THEN <<text[at]>>
  ELSE SubSeq(text, at, IF Occurs(text, {"comma", "rbrace"}, at, Len(text))
                        THEN First(text, {"comma", "rbrace"}, at) - 1 ELSE Len(text))

\* Mutant: the last literal that reads like the key counts.
ExtractLast(text, key) ==
  IF ~Occurs(text, {key}, 1, Len(text)) THEN Absent
  ELSE LET at == Max({i \in 1..Len(text) : text[i] = key})
       IN IF ~Occurs(text, {"colon"}, at + 1, Len(text) - 1) THEN Absent
          ELSE ValueAt(text, First(text, {"colon"}, at + 1) + 1)

\* extract_json_member: the value after the first colon that follows the first
\* literal that reads like the key, be it a key or a value, at any depth.
ExtractMember(text, key) ==
  IF ~Occurs(text, {key}, 1, Len(text)) THEN Absent
  ELSE LET at == First(text, {key}, 1)
       IN IF ~Occurs(text, {"colon"}, at + 1, Len(text) - 1) THEN Absent
          ELSE ValueAt(text, First(text, {"colon"}, at + 1) + 1)

\* extract_json_string_member: the member if it is a string.
ExtractString(text, key) ==
  LET value == ExtractMember(text, key)
  IN IF Len(value) = 1 /\ IsString(value[1]) THEN value ELSE Absent
-----------------------------------------------------------------------------
(* What a JSON text means, as the reference for the code above. *)

Opens(text) == {i \in 1..Len(text) : text[i] \in Opening}
Closes(text) == {i \in 1..Len(text) : text[i] \in Closing}

\* Every closing bracket closes one of its kind that was opened before, what is
\* opened inside is closed inside, and none remains open.
Nested(text, opened) ==
  /\ \A i \in Closes(text) : opened[i] < i /\ text[i] = Closer(text[opened[i]])
  /\ \A i, j \in Closes(text) : opened[i] = opened[j] => i = j
  /\ \A i, j \in Closes(text) : opened[j] < i /\ i < j => opened[j] < opened[i]
  /\ \A o \in Opens(text) : \E i \in Closes(text) : opened[i] = o

\* What follows the colon of a member: a string, an object, an array, or an atom
\* that the member ends with.
MembersHaveValues(text) ==
  \A i \in 1..Len(text) : text[i] = "colon" =>
    /\ i < Len(text)
    /\ \/ text[i + 1] \in Opening \/ IsString(text[i + 1])
       \/ text[i + 1] \in Atoms /\ i + 2 <= Len(text) /\ text[i + 2] \in {"comma", "rbrace"}

\* The text of an object or an array, as far as brackets and members go.
IsStructured(text) ==
  /\ text # <<>>
  /\ \E opened \in [Closes(text) -> Opens(text)] :
       Nested(text, opened) /\ Len(text) \in Closes(text) /\ opened[Len(text)] = 1
  /\ MembersHaveValues(text)

Depth(text, i) ==
  Cardinality({j \in 1..i : text[j] \in Opening})
  - Cardinality({j \in 1..i : text[j] \in Closing})

\* The value of a key of the outermost object.
Member(text, key) ==
  LET keys == {i \in 2..(Len(text) - 2) : /\ text[i] = key
                                          /\ text[i + 1] = "colon"
                                          /\ Depth(text, i) = 1}
      ends(i) == {j \in i..(Len(text) - 1) :
                    \/ text[j + 1] = "comma" /\ Depth(text, j + 1) = 1
                    \/ text[j + 1] = "rbrace" /\ Depth(text, j + 1) = 0}
  IN IF keys = {} THEN Absent
     ELSE SubSeq(text, Min(keys) + 2, Min(ends(Min(keys) + 2)))
=============================================================================
