-------------------------- MODULE HttpExchangeProofs --------------------------
(***************************************************************************)
(* Proofs about HttpExchange, for any clients, any messages in any pieces, *)
(* and handlers that reply any number of times.                            *)
(***************************************************************************)
EXTENDS HttpExchange, SequenceTheorems, TLAPS

Token == {"line", "crlf", "accept_both", "accept_stream", "length", "text"}

\* The header block of a request, to the blank line.
Headers == {<<>>, <<"accept_stream", "crlf">>}
Text == Seq({"text", "crlf"})
Header(added) ==
  <<"line", "crlf", "accept_both", "crlf">> \o added \o <<"length", "crlf", "crlf">>

\* A connection that nobody has opened yet.
Unused(k) ==
  /\ thread[k] = "none" /\ outcome[k] = "none" /\ given[k] = <<>>
  /\ ~cut[k] /\ ~closed[k] /\ replies[k] = 0 /\ response[k] = Silence
  /\ posted[k] = <<"none">> /\ handled[k] = <<"none">> /\ raw[k] = <<>>

(***************************************************************************)
(* What was read of a request and what is still to come make up the        *)
(* request, and its thread goes on once nothing is still to come.          *)
(***************************************************************************)
Underway(k) ==
  /\ thread[k] \in {"reading", "dispatch", "handler", "done"}
  /\ posted[k] \in Bodies
  /\ raw[k] \o wire[k] = Header(headers[k[1]]) \o posted[k]
  /\ thread[k] \in {"dispatch", "handler"} => Complete(raw[k], Len(posted[k]))
  /\ handled[k] \in {<<"none">>, posted[k]}
  /\ thread[k] = "handler" => handled[k] = posted[k]

Sound(k) == IF k[2] > posts[k[1]] THEN Unused(k) ELSE Underway(k)

RequestInv ==
  /\ headers \in [Clients -> Headers]
  /\ raw \in [Connections -> Seq(Token)]
  /\ wire \in [Connections -> Seq(Token)]
  /\ \A k \in Connections : Sound(k)

(***************************************************************************)
(* While the connection holds, the server closes it with a refusal or with *)
(* the first reply of its own handler, which has got the message.  A       *)
(* client that waits has not cut its connection.                           *)
(***************************************************************************)
OwnResponse(k) ==
  IF closed[k]
  THEN \/ response[k].status >= 400
       \/ response[k].messages = << <<k, 1>> >> /\ handled[k] = posted[k]
  ELSE replies[k] = 0 /\ response[k].messages = <<>>

Waits(c) ==
  sending[c] => posts[c] > 0 /\ outcome[Current(c)] = "none" /\ ~cut[Current(c)]

AnswerInv ==
  /\ OwnReply
  /\ \A c \in Clients : Waits(c)
  /\ \A k \in Connections : ~cut[k] => OwnResponse(k)
-----------------------------------------------------------------------------
(***************************************************************************)
(* What the server makes of the bytes it has.                              *)
(***************************************************************************)

LEMMA MinIs ==
  ASSUME NEW S \in SUBSET Int, NEW m \in S, \A x \in S : m <= x
  PROVE  Min(S) = m
<1>1. Min(S) \in S /\ \A y \in S : Min(S) <= y
  BY DEF Min
<1>2. Min(S) <= m /\ m <= Min(S) /\ Min(S) \in Int /\ m \in Int
  BY <1>1
<1> QED
  BY <1>2

LEMMA Concatenation ==
  ASSUME NEW T, NEW a \in Seq(T), NEW b \in Seq(T)
  PROVE  /\ a \o b \in Seq(T) /\ Len(a \o b) = Len(a) + Len(b)
         /\ \A i \in 1..Len(a) : (a \o b)[i] = a[i]
         /\ \A i \in 1..Len(b) : (a \o b)[Len(a) + i] = b[i]
  BY ConcatProperties

LEMMA Tokens == {"line", "crlf", "accept_both", "accept_stream", "length", "text"} \subseteq Token
  BY DEF Token

LEMMA HeaderFacts ==
  ASSUME NEW added \in Headers
  PROVE  /\ Header(added) \in Seq(Token)
         /\ Len(Header(added)) \in {7, 9}
         /\ Header(added)[1] = "line" /\ Header(added)[2] = "crlf"
         /\ Header(added)[3] = "accept_both"
         /\ Header(added)[Len(Header(added)) - 1] = "crlf"
         /\ Header(added)[Len(Header(added))] = "crlf"
         /\ \A i \in 1..(Len(Header(added)) - 2) :
              Header(added)[i] # "crlf" \/ Header(added)[i + 1] # "crlf"
<1> DEFINE first == <<"line", "crlf", "accept_both", "crlf">>
           last == <<"length", "crlf", "crlf">>
           start == first \o added
           whole == start \o last
<1>1. /\ first \in Seq(Token) /\ Len(first) = 4
      /\ first[1] = "line" /\ first[2] = "crlf" /\ first[3] = "accept_both"
      /\ first[4] = "crlf"
  BY Tokens
<1>2. /\ last \in Seq(Token) /\ Len(last) = 3
      /\ last[1] = "length" /\ last[2] = "crlf" /\ last[3] = "crlf"
  BY Tokens
<1>3. /\ added \in Seq(Token)
      /\ \/ Len(added) = 0
         \/ Len(added) = 2 /\ added[1] = "accept_stream" /\ added[2] = "crlf"
  <2>1. added = <<>> \/ added = <<"accept_stream", "crlf">>
    BY Zenon DEF Headers
  <2>2. CASE added = <<>>
    BY <2>2
  <2>3. CASE added = <<"accept_stream", "crlf">>
    BY <2>3, Tokens
  <2> QED
    BY <2>1, <2>2, <2>3
<1> HIDE DEF first, last
<1>4. /\ start \in Seq(Token) /\ Len(start) = Len(first) + Len(added)
      /\ \A i \in 1..Len(first) : start[i] = first[i]
      /\ \A i \in 1..Len(added) : start[Len(first) + i] = added[i]
  <2>1. first \in Seq(Token) /\ added \in Seq(Token)
    BY <1>1, <1>3
  <2> QED
    BY <2>1, Concatenation
<1> HIDE DEF start
<1>5. /\ whole \in Seq(Token) /\ Len(whole) = Len(start) + Len(last)
      /\ \A i \in 1..Len(start) : whole[i] = start[i]
      /\ \A i \in 1..Len(last) : whole[Len(start) + i] = last[i]
  <2>1. start \in Seq(Token) /\ last \in Seq(Token)
    BY <1>2, <1>4
  <2> QED
    BY <2>1, Concatenation
<1>6. whole = Header(added)
  BY DEF whole, start, first, last, Header
<1> HIDE DEF whole
<1>7. /\ whole[1] = "line" /\ whole[2] = "crlf" /\ whole[3] = "accept_both"
      /\ whole[4] = "crlf"
  <2>1. \A i \in 1..4 : start[i] = first[i]
    BY <1>1, <1>4
  <2>2. Len(start) \in Nat /\ Len(start) >= 4
    BY <1>1, <1>3, <1>4
  <2>3. \A i \in 1..4 : whole[i] = start[i]
    BY <1>5, <2>2
  <2> QED
    BY <1>1, <2>1, <2>3
\* What is to be shown, of the whole header block.
<1> DEFINE Good(h) ==
      /\ h \in Seq(Token)
      /\ Len(h) \in {7, 9}
      /\ h[1] = "line" /\ h[2] = "crlf" /\ h[3] = "accept_both"
      /\ h[Len(h) - 1] = "crlf" /\ h[Len(h)] = "crlf"
      /\ \A i \in 1..(Len(h) - 2) : h[i] # "crlf" \/ h[i + 1] # "crlf"
<1>8. CASE Len(added) = 0
  <2>1. Len(start) = 4 /\ Len(whole) = 7
    BY <1>1, <1>2, <1>4, <1>5, <1>8
  <2>2. /\ whole[4 + 1] = last[1] /\ whole[4 + 2] = last[2] /\ whole[4 + 3] = last[3]
    BY <1>2, <1>5, <2>1
  <2>3. whole[5] = "length" /\ whole[6] = "crlf" /\ whole[7] = "crlf"
    BY <1>2, <2>2
  <2>4. \A i \in 1..5 : whole[i] # "crlf" \/ whole[i + 1] # "crlf"
    <3>1. \A i \in 1..5 : i \in {1, 2, 3, 4, 5}
      OBVIOUS
    <3>2. /\ whole[1] # "crlf" \/ whole[1 + 1] # "crlf"
          /\ whole[2] # "crlf" \/ whole[2 + 1] # "crlf"
          /\ whole[3] # "crlf" \/ whole[3 + 1] # "crlf"
          /\ whole[4] # "crlf" \/ whole[4 + 1] # "crlf"
          /\ whole[5] # "crlf" \/ whole[5 + 1] # "crlf"
      BY <1>7, <2>3
    <3> QED
      BY <3>1, <3>2
  <2>5. Good(whole)
    <3>1. Len(whole) - 1 = 6 /\ Len(whole) - 2 = 5 /\ Len(whole) \in {7, 9}
      BY <2>1
    <3>2. whole[Len(whole) - 1] = "crlf" /\ whole[Len(whole)] = "crlf"
      BY <2>1, <2>3, <3>1
    <3> QED
      BY <1>5, <1>7, <2>4, <3>1, <3>2
  <2> QED
    BY <1>6, <2>5
<1>9. CASE Len(added) = 2
  <2>1. Len(start) = 6 /\ Len(whole) = 9
    BY <1>1, <1>2, <1>4, <1>5, <1>9
  <2>2. /\ start[4 + 1] = added[1] /\ start[4 + 2] = added[2]
        /\ whole[5] = start[5] /\ whole[6] = start[6]
        /\ whole[6 + 1] = last[1] /\ whole[6 + 2] = last[2] /\ whole[6 + 3] = last[3]
    BY <1>1, <1>2, <1>4, <1>5, <1>9, <2>1
  <2>3. /\ whole[5] = "accept_stream" /\ whole[6] = "crlf"
        /\ whole[7] = "length" /\ whole[8] = "crlf" /\ whole[9] = "crlf"
    BY <1>2, <1>3, <1>9, <2>2
  <2>4. \A i \in 1..7 : whole[i] # "crlf" \/ whole[i + 1] # "crlf"
    <3>1. \A i \in 1..7 : i \in {1, 2, 3, 4, 5, 6, 7}
      OBVIOUS
    <3>2. /\ whole[1] # "crlf" \/ whole[1 + 1] # "crlf"
          /\ whole[2] # "crlf" \/ whole[2 + 1] # "crlf"
          /\ whole[3] # "crlf" \/ whole[3 + 1] # "crlf"
          /\ whole[4] # "crlf" \/ whole[4 + 1] # "crlf"
          /\ whole[5] # "crlf" \/ whole[5 + 1] # "crlf"
          /\ whole[6] # "crlf" \/ whole[6 + 1] # "crlf"
          /\ whole[7] # "crlf" \/ whole[7 + 1] # "crlf"
      BY <1>7, <2>3
    <3> QED
      BY <3>1, <3>2
  <2>5. Good(whole)
    <3>1. Len(whole) - 1 = 8 /\ Len(whole) - 2 = 7 /\ Len(whole) \in {7, 9}
      BY <2>1
    <3>2. whole[Len(whole) - 1] = "crlf" /\ whole[Len(whole)] = "crlf"
      BY <2>1, <2>3, <3>1
    <3> QED
      BY <1>5, <1>7, <2>4, <3>1, <3>2
  <2> QED
    BY <1>6, <2>5
<1> QED
  BY <1>3, <1>8, <1>9

\* A piece of the request that holds a blank line and as much after it as the
\* message is long, is the whole request, and the message is what comes after
\* the header block, whatever blank lines it holds.
LEMMA RequestIsRead ==
  ASSUME NEW added \in Headers, NEW body \in Seq(Token), NEW s \in Seq(Token), NEW w \in Seq(Token),
         s \o w = Header(added) \o body, Complete(s, Len(body))
  PROVE  /\ Body(s, Len(body)) = body
         /\ Accept(s) = "accept_both"
<1> DEFINE h == Header(added)
           n == Len(h)
           request == h \o body
<1>1. n \in {7, 9}
  BY HeaderFacts
<1>2. /\ h \in Seq(Token)
      /\ h[1] = "line" /\ h[2] = "crlf" /\ h[3] = "accept_both"
      /\ h[n - 1] = "crlf" /\ h[n] = "crlf"
      /\ \A i \in 1..(n - 2) : h[i] # "crlf" \/ h[i + 1] # "crlf"
  BY HeaderFacts
<1> HIDE DEF h
<1>3. n \in Nat /\ 7 <= n
  <2> HIDE DEF n
  <2> QED
    BY <1>1
<1>4. /\ request \in Seq(Token) /\ Len(request) = n + Len(body)
      /\ \A i \in 1..n : request[i] = h[i]
      /\ \A i \in 1..Len(body) : request[n + i] = body[i]
  BY <1>2, Concatenation
<1>5. Len(s) \in Nat /\ Len(w) \in Nat /\ Len(body) \in Nat
  OBVIOUS
<1>6. /\ Len(s) + Len(w) = n + Len(body)
      /\ \A i \in 1..Len(s) : s[i] = request[i]
  <2>1. /\ Len(s \o w) = Len(s) + Len(w)
        /\ \A i \in 1..Len(s) : (s \o w)[i] = s[i]
    BY Concatenation
  <2>2. s \o w = request
    BY DEF h
  <2> HIDE DEF request, n
  <2> QED
    BY <1>4, <1>5, <2>1, <2>2
<1> HIDE DEF request, n
<1>7. BlankLines(s) # {} /\ Len(s) - (HeaderEnd(s) + 1) >= Len(body)
  BY DEF Complete
\* The blank line that is found first is that of the header block.
<1>8. /\ BlankLines(s) \in SUBSET Int
      /\ \A i \in BlankLines(s) : n - 1 <= i /\ i <= Len(s) - 1
  <2>1. ASSUME NEW i \in BlankLines(s) PROVE i \in Int /\ n - 1 <= i /\ i <= Len(s) - 1
    <3>1. i \in Int /\ 1 <= i /\ i <= Len(s) - 1 /\ s[i] = "crlf" /\ s[i + 1] = "crlf"
      BY <1>5 DEF BlankLines
    <3>2. i \in 1..Len(s) /\ i + 1 \in 1..Len(s)
      BY <1>5, <3>1
    <3>3. request[i] = "crlf" /\ request[i + 1] = "crlf"
      BY <1>6, <3>1, <3>2
    <3>4. CASE i <= n - 2
      <4>1. i \in 1..(n - 2) /\ i <= n /\ i + 1 <= n /\ i \in 1..(n + Len(body))
            /\ i + 1 \in 1..(n + Len(body))
        BY <1>3, <1>5, <3>1, <3>4
      <4>2. request[i] = h[i] /\ request[i + 1] = h[i + 1]
        BY <1>4, <4>1
      <4> QED
        BY <1>2, <3>3, <4>1, <4>2
    <3> QED
      BY <1>3, <1>5, <3>1, <3>4
  <2> QED
    BY <2>1
<1>9. n <= Len(s)
  <2>1. PICK i \in BlankLines(s) : TRUE
    BY <1>7
  <2>2. i \in Int /\ n - 1 <= i /\ i <= Len(s) - 1
    BY <1>8, <2>1
  <2> QED
    BY <1>3, <1>5, <2>2
<1>10. \A i \in 1..n : s[i] = h[i]
  <2> TAKE i \in 1..n
  <2>1. i \in 1..Len(s)
    BY <1>3, <1>5, <1>9
  <2>2. s[i] = request[i] /\ request[i] = h[i]
    BY <1>4, <1>6, <2>1
  <2> QED
    BY <2>2
<1>11. n - 1 \in BlankLines(s)
  <2>1. n - 1 \in 1..(Len(s) - 1) /\ n - 1 \in 1..n /\ n \in 1..n /\ (n - 1) + 1 = n
    BY <1>3, <1>5, <1>9
  <2> QED
    BY <1>2, <1>10, <2>1 DEF BlankLines
<1>12. HeaderEnd(s) = n - 1
  BY <1>8, <1>11, MinIs DEF HeaderEnd
<1>13. Len(s) = n + Len(body)
  BY <1>3, <1>5, <1>6, <1>7, <1>12
<1>14. Body(s, Len(body)) = body
  <2>1. Min({Len(s), HeaderEnd(s) + 1 + Len(body)}) = n + Len(body)
    <3>1. {Len(s), HeaderEnd(s) + 1 + Len(body)} = {n + Len(body)}
      BY <1>3, <1>5, <1>12, <1>13
    <3>2. n + Len(body) \in Int
      BY <1>3, <1>5
    <3>3. Min({n + Len(body)}) = n + Len(body)
      <4>1. {n + Len(body)} \in SUBSET Int /\ n + Len(body) \in {n + Len(body)}
            /\ \A x \in {n + Len(body)} : n + Len(body) <= x
        BY <3>2
      <4> QED
        BY <4>1, MinIs, Zenon
    <3> QED
      BY <3>1, <3>3
  <2>2. Body(s, Len(body)) = SubSeq(s, n + 1, n + Len(body))
    <3>1. HeaderEnd(s) + 2 = n + 1
      BY <1>3, <1>12
    <3> QED
      BY <2>1, <3>1, Zenon DEF Body
  <2>3. \A i \in (n + 1)..(n + Len(body)) : s[i] = body[i - n] /\ s[i] \in Token
    <3> TAKE i \in (n + 1)..(n + Len(body))
    <3>1. i \in 1..Len(s) /\ i - n \in 1..Len(body) /\ n + (i - n) = i
      BY <1>3, <1>5, <1>13
    <3>2. s[i] = body[i - n]
      BY <1>4, <1>6, <3>1
    <3>3. s[i] \in Token
      BY <3>1, ElementOfSeq
    <3> QED
      BY <3>2, <3>3
  <2> DEFINE found == SubSeq(s, n + 1, n + Len(body))
  <2>4. /\ found \in Seq(Token)
        /\ Len(found) = IF n + 1 <= n + Len(body) THEN (n + Len(body)) - (n + 1) + 1 ELSE 0
        /\ \A i \in 1..((n + Len(body)) - (n + 1) + 1) : found[i] = s[(n + 1) + i - 1]
    <3> DEFINE a == n + 1
               b == n + Len(body)
    <3>1. a \in Int /\ b \in Int
      BY <1>3, <1>5
    <3>2. \A i \in a..b : s[i] \in Token
      BY <2>3
    <3> HIDE DEF a, b
    <3>3. /\ SubSeq(s, a, b) \in Seq(Token)
          /\ Len(SubSeq(s, a, b)) = IF a <= b THEN b - a + 1 ELSE 0
          /\ \A i \in 1..(b - a + 1) : SubSeq(s, a, b)[i] = s[a + i - 1]
      BY <3>1, <3>2, SubSeqProperties
    <3> QED
      BY <3>3 DEF a, b
  <2> HIDE DEF found
  <2>5. Len(found) = Len(body)
    BY <1>3, <1>5, <2>4
  <2>6. \A i \in 1..Len(found) : found[i] = body[i]
    <3> TAKE i \in 1..Len(found)
    <3>1. /\ i \in 1..((n + Len(body)) - (n + 1) + 1) /\ (n + 1) + i - 1 = n + i
          /\ n + i \in (n + 1)..(n + Len(body)) /\ (n + i) - n = i
      BY <1>3, <1>5, <2>5
    <3> QED
      BY <2>3, <2>4, <3>1
  <2>7. found = body
    BY <2>4, <2>5, <2>6, SeqEqual
  <2> QED
    BY <2>2, <2>7 DEF found
\* The library's field comes first.
<1>15. Accept(s) = "accept_both"
  <2>1. s[1] = "line" /\ s[2] = "crlf" /\ s[3] = "accept_both"
    BY <1>3, <1>2, <1>10
  <2>2. /\ AcceptFields(s) \in SUBSET Int
        /\ 3 \in AcceptFields(s)
    BY <1>3, <1>12, <2>1 DEF AcceptFields
  <2>3. \A i \in AcceptFields(s) : 3 <= i
    <3> SUFFICES ASSUME NEW i \in AcceptFields(s) PROVE 3 <= i
      OBVIOUS
    <3>1. i \in 1..(n - 1) /\ s[i] # "line" /\ s[i] # "crlf"
      BY <1>12 DEF AcceptFields
    <3>2. i # 1 /\ i # 2
      BY <2>1, <3>1
    <3> QED
      BY <1>3, <3>1, <3>2
  <2>4. Min(AcceptFields(s)) = 3
    BY <2>2, <2>3, MinIs
  <2> QED
    BY <2>1, <2>4 DEF Accept
<1> QED
  BY <1>14, <1>15

LEMMA BoundsType == MaxPosts \in Nat /\ MaxReplies \in Nat /\ Bodies \subseteq Text
  BY ConstantsAssumption DEF ConstantsAssumption, Text

LEMMA BodyTokens ==
  ASSUME NEW body \in Bodies
  PROVE  body \in Seq(Token)
<1>1. body \in Seq({"text", "crlf"})
  BY BoundsType DEF Text
<1>2. {"text", "crlf"} \subseteq Token
  BY Tokens
<1> QED
  BY <1>1, <1>2, SeqMonotonic

LEMMA Associative ==
  ASSUME NEW a \in Seq(Token), NEW b \in Seq(Token), NEW c \in Seq(Token)
  PROVE  (a \o b) \o c = a \o (b \o c)
  BY ConcatAssociative

\* What recv takes from the wire it adds to what was read.
LEMMA PiecesKept ==
  ASSUME NEW r \in Seq(Token), NEW w \in Seq(Token), NEW n \in 1..Len(w)
  PROVE  /\ r \o SubSeq(w, 1, n) \in Seq(Token)
         /\ SubSeq(w, n + 1, Len(w)) \in Seq(Token)
         /\ (r \o SubSeq(w, 1, n)) \o SubSeq(w, n + 1, Len(w)) = r \o w
<1> DEFINE u == SubSeq(w, 1, n)
           v == SubSeq(w, n + 1, Len(w))
<1>1. Len(w) \in Nat /\ n \in Nat /\ 1 <= n /\ n <= Len(w)
  OBVIOUS
<1>2. u \in Seq(Token)
  <2>1. 1 \in Int /\ n \in Int /\ \A i \in 1..n : w[i] \in Token
    BY <1>1, ElementOfSeq
  <2> QED
    BY <2>1, SubSeqProperties
<1>3. v \in Seq(Token)
  <2>1. n + 1 \in Int /\ Len(w) \in Int /\ \A i \in (n + 1)..Len(w) : w[i] \in Token
    BY <1>1, ElementOfSeq
  <2> QED
    BY <2>1, SubSeqProperties
<1>4. u \o v = w
  <2>1. 1 \in 1..(Len(w) + 1) /\ n \in (1 - 1)..Len(w) /\ Len(w) \in n..Len(w)
    BY <1>1
  <2>2. SubSeq(w, 1, n) \o SubSeq(w, n + 1, Len(w)) = SubSeq(w, 1, Len(w))
    BY <2>1, ConcatAdjacentSubSeq
  <2>3. SubSeq(w, 1, Len(w)) = w
    BY SubSeqFull
  <2> QED
    BY <2>2, <2>3
<1> HIDE DEF u, v
<1>5. (r \o u) \o v = r \o (u \o v)
  <2>1. u \in Seq(Token) /\ v \in Seq(Token)
    BY <1>2, <1>3
  <2> QED
    BY <2>1, Associative
<1>6. r \o u \in Seq(Token)
  BY <1>2, Concatenation
<1> QED
  BY <1>3, <1>4, <1>5, <1>6 DEF u, v

\* A connection that is served has been posted.
LEMMA IsUnderway ==
  ASSUME RequestInv, NEW k \in Connections, thread[k] # "none"
  PROVE  Underway(k) /\ headers[k[1]] \in Headers /\ ~(k[2] > posts[k[1]])
<1>1. Sound(k) /\ headers[k[1]] \in Headers
  BY DEF RequestInv, Connections
<1> QED
  BY <1>1 DEF Sound, Unused

\* The server has the body that was posted, and never streams.
LEMMA Served ==
  ASSUME RequestInv, NEW k \in Connections, thread[k] \in {"dispatch", "handler"}
  PROVE  /\ Body(raw[k], Len(posted[k])) = posted[k]
         /\ ~Streaming(k)
<1>1. Underway(k) /\ headers[k[1]] \in Headers
  BY IsUnderway
<1>2. /\ posted[k] \in Seq(Token) /\ raw[k] \in Seq(Token) /\ wire[k] \in Seq(Token)
      /\ raw[k] \o wire[k] = Header(headers[k[1]]) \o posted[k]
      /\ Complete(raw[k], Len(posted[k]))
  BY <1>1, BodyTokens DEF Underway, RequestInv
<1>3. /\ Body(raw[k], Len(posted[k])) = posted[k]
      /\ Accept(raw[k]) = "accept_both"
  <2> DEFINE added == headers[k[1]]
             body == posted[k]
             s == raw[k]
             w == wire[k]
  <2>1. /\ added \in Headers /\ body \in Seq(Token) /\ s \in Seq(Token) /\ w \in Seq(Token)
        /\ s \o w = Header(added) \o body /\ Complete(s, Len(body))
    BY <1>1, <1>2
  <2> HIDE DEF added, body, s, w
  <2>2. Body(s, Len(body)) = body /\ Accept(s) = "accept_both"
    BY <2>1, RequestIsRead
  <2> QED
    BY <2>2 DEF body, s
<1> QED
  BY <1>3 DEF Streaming
-----------------------------------------------------------------------------
(***************************************************************************)
(* The types.                                                              *)
(***************************************************************************)

Outcomes == {"none", "returned", "threw", "handler_threw"}
Responses == [status : {0, 200, 404, 500}, messages : Seq(Message)]

LEMMA TypeInit == Init => TypeOK
<1> SUFFICES ASSUME Init PROVE TypeOK
  OBVIOUS
<1>1. /\ path \in [Clients -> {"right", "wrong"}] /\ hears \in [Clients -> BOOLEAN]
      /\ posts \in [Clients -> 0..MaxPosts]
      /\ sending \in [Clients -> BOOLEAN]
      /\ outcome \in [Connections -> Outcomes]
      /\ given \in [Connections -> Seq(Message)]
      /\ posted \in [Connections -> Bodies \cup {<<"none">>}]
  BY BoundsType DEF Init, Outcomes
<1>2. headers \in [Clients -> Seq({"accept_stream", "crlf"})]
  <2>1. <<>> \in Seq({"accept_stream", "crlf"})
    OBVIOUS
  <2>2. <<"accept_stream", "crlf">> \in Seq({"accept_stream", "crlf"})
    OBVIOUS
  <2>3. {<<>>, <<"accept_stream", "crlf">>} \subseteq Seq({"accept_stream", "crlf"})
    BY <2>1, <2>2, Zenon
  <2> QED
    BY <2>3 DEF Init
<1>3. handled \in [Connections -> Seq({"text", "crlf"}) \cup {<<"none">>}]
  BY DEF Init
<1>4. /\ cut \in [Connections -> BOOLEAN]
      /\ thread \in [Connections -> {"none", "reading", "dispatch", "handler", "done"}]
      /\ closed \in [Connections -> BOOLEAN]
      /\ replies \in [Connections -> 0..MaxReplies]
  BY BoundsType DEF Init
<1>5. response \in [Connections -> [status : {0, 200, 404, 500}, messages : Seq(Message)]]
  <2>1. Silence \in [status : {0, 200, 404, 500}, messages : Seq(Message)]
    BY DEF Silence
  <2> QED
    BY <2>1 DEF Init
<1> QED
  BY <1>1, <1>2, <1>3, <1>4, <1>5 DEF TypeOK, Outcomes

LEMMA RespondType ==
  ASSUME TypeOK, NEW k, NEW status \in {200, 404, 500}, NEW messages \in Seq(Message),
         Respond(k, status, messages)
  PROVE  response' \in [Connections -> Responses]
<1> DEFINE S == Seq(Message)
<1>1. response \in [Connections -> Responses]
  BY DEF TypeOK, Responses
<1>2. [status |-> status, messages |-> messages] \in Responses
  BY DEF Responses
<1>3. response' = [response EXCEPT ![k] = [status |-> status, messages |-> messages]]
  BY DEF Respond
<1> QED
  BY <1>1, <1>2, <1>3

LEMMA ClosedType ==
  ASSUME TypeOK, NEW k, NEW b \in BOOLEAN,
         closed' = closed \/ closed' = [closed EXCEPT ![k] = b]
  PROVE  closed' \in [Connections -> BOOLEAN]
<1>1. closed \in [Connections -> BOOLEAN]
  BY DEF TypeOK
<1>2. CASE closed' = closed
  BY <1>1, <1>2
<1>3. CASE closed' = [closed EXCEPT ![k] = b]
  BY <1>1, <1>3
<1> QED
  BY <1>2, <1>3

\* How a response is received.
Gives(c, n) ==
  given' = [given EXCEPT ![Current(c)] = SubSeq(response[Current(c)].messages, 1, n)]

LEMMA ReceiveCases ==
  ASSUME NEW c, Receive(c)
  PROVE  /\ sending' = [sending EXCEPT ![c] = FALSE]
         /\ UNCHANGED <<path, headers, hears, posts, posted, wire, cut, response, server>>
         /\ closed[Current(c)]
         /\ \/ /\ response[Current(c)].status >= 400
               /\ outcome' = [outcome EXCEPT ![Current(c)] = "threw"] /\ given' = given
            \/ /\ response[Current(c)].status < 400 /\ ~hears[c]
               /\ outcome' = [outcome EXCEPT ![Current(c)] = "returned"] /\ given' = given
            \/ /\ response[Current(c)].status < 400 /\ hears[c]
               /\ outcome' = [outcome EXCEPT ![Current(c)] = "returned"]
               /\ Gives(c, Len(response[Current(c)].messages))
            \/ /\ response[Current(c)].status < 400 /\ hears[c]
               /\ outcome' = [outcome EXCEPT ![Current(c)] = "handler_threw"]
               /\ \E n \in 1..Len(response[Current(c)].messages) : Gives(c, n)
BY DEF Receive, Ends, Gives

LEMMA TypeStep == TypeOK /\ RequestInv /\ [Next]_vars => TypeOK'
<1> SUFFICES ASSUME TypeOK, RequestInv, [Next]_vars PROVE TypeOK'
  OBVIOUS
<1>1. ASSUME NEW c \in Clients, Post(c) PROVE TypeOK'
  <2>1. /\ posts' \in [Clients -> 0..MaxPosts]
        /\ sending' \in [Clients -> BOOLEAN]
    <3>1. /\ posts' = [posts EXCEPT ![c] = @ + 1] /\ posts[c] < MaxPosts
          /\ sending' = [sending EXCEPT ![c] = TRUE]
      BY <1>1 DEF Post
    <3>2. posts \in [Clients -> 0..MaxPosts] /\ sending \in [Clients -> BOOLEAN]
      BY DEF TypeOK
    <3>3. posts[c] + 1 \in 0..MaxPosts
      BY <3>1, <3>2, BoundsType
    <3> QED
      BY <3>1, <3>2, <3>3
  <2>2. posted' \in [Connections -> Bodies \cup {<<"none">>}]
    <3>1. PICK body \in Bodies : posted' = [posted EXCEPT ![Current(c)'] = body]
      BY <1>1 DEF Post
    <3> HIDE DEF Current
    <3> QED
      BY <3>1 DEF TypeOK
  <2>3. thread' \in [Connections -> {"none", "reading", "dispatch", "handler", "done"}]
    <3>1. thread' = [thread EXCEPT ![Current(c)'] = "reading"]
      BY <1>1 DEF Post
    <3> QED
      BY <3>1 DEF TypeOK
  <2>4. UNCHANGED <<path, headers, hears, outcome, given, cut, response, raw, closed, replies, handled>>
    BY <1>1 DEF Post
  <2> QED
    BY <2>1, <2>2, <2>3, <2>4 DEF TypeOK
<1>2. ASSUME NEW c \in Clients, GiveUp(c) PROVE TypeOK'
  <2>1. /\ sending' = [sending EXCEPT ![c] = FALSE]
        /\ outcome' = [outcome EXCEPT ![Current(c)] = "threw"]
        /\ cut' = [cut EXCEPT ![Current(c)] = TRUE]
        /\ UNCHANGED <<path, headers, hears, posts, given, posted, wire, response, server>>
    BY <1>2 DEF GiveUp, Ends
  <2>2. sending' \in [Clients -> BOOLEAN] /\ cut' \in [Connections -> BOOLEAN]
    BY <2>1 DEF TypeOK
  <2>3. outcome' \in [Connections -> Outcomes]
    BY <2>1 DEF TypeOK, Outcomes
  <2> QED
    BY <2>1, <2>2, <2>3 DEF TypeOK, Outcomes, server
<1>3. ASSUME NEW c \in Clients, Receive(c) PROVE TypeOK'
  <2>1. /\ sending' = [sending EXCEPT ![c] = FALSE]
        /\ \E how \in Outcomes : outcome' = [outcome EXCEPT ![Current(c)] = how]
        /\ \/ given' = given
           \/ \E n \in 0..Len(response[Current(c)].messages) :
                given' = [given EXCEPT ![Current(c)] =
                            SubSeq(response[Current(c)].messages, 1, n)]
        /\ UNCHANGED <<path, headers, hears, posts, posted, wire, cut, response, server>>
    <3>1. response[Current(c)].messages \in Seq(Message) \/ Current(c) \notin Connections
      BY DEF TypeOK
    <3>2. CASE Current(c) \notin Connections
      <4>1. given \in [Connections -> Seq(Message)]
        BY DEF TypeOK
      <4>2. given' = given
        BY <1>3, <3>2, <4>1, ReceiveCases DEF Gives
      <4> QED
        BY <1>3, <4>2, ReceiveCases DEF Outcomes
    <3>3. CASE response[Current(c)].messages \in Seq(Message)
      <4> DEFINE l == Len(response[Current(c)].messages)
      <4>1. l \in 0..l /\ 1..l \subseteq 0..l
        BY <3>3
      <4> HIDE DEF l
      <4> QED
        BY <1>3, <4>1, ReceiveCases DEF Outcomes, Gives, l
    <3> QED
      BY <3>1, <3>2, <3>3
  <2>2. sending' \in [Clients -> BOOLEAN]
    BY <2>1 DEF TypeOK
  <2>3. outcome' \in [Connections -> Outcomes]
    <3>1. outcome \in [Connections -> Outcomes]
      BY DEF TypeOK, Outcomes
    <3> QED
      BY <2>1, <3>1
  <2>4. given' \in [Connections -> Seq(Message)]
    <3> DEFINE S == Seq(Message)
    <3>1. given \in [Connections -> S]
      BY DEF TypeOK
    <3>2. CASE given' = given
      BY <3>1, <3>2
    <3>3. ASSUME Current(c) \in Connections, NEW n \in 0..Len(response[Current(c)].messages),
                 given' = [given EXCEPT ![Current(c)] =
                             SubSeq(response[Current(c)].messages, 1, n)]
          PROVE  given' \in [Connections -> S]
      <4>1. response[Current(c)].messages \in S
        BY <3>3 DEF TypeOK
      <4>2. SubSeq(response[Current(c)].messages, 1, n) \in S
        BY <4>1
      <4> HIDE DEF S
      <4> QED
        BY <3>1, <3>3, <4>2
    <3>4. CASE Current(c) \notin Connections
      <4>1. DOMAIN given = Connections
        BY <3>1
      <4> QED
        BY <2>1, <3>1, <3>4, <4>1
    <3> QED
      BY <2>1, <3>2, <3>3, <3>4 DEF S
  <2> QED
    BY <2>1, <2>2, <2>3, <2>4 DEF TypeOK, Outcomes, server
<1>4. ASSUME NEW k \in Connections, Recv(k) \/ RecvFails(k) PROVE TypeOK'
  <2>1. \E to \in {"reading", "dispatch", "done"} : thread' = [thread EXCEPT ![k] = to]
    BY <1>4 DEF Recv, RecvFails, Goto
  <2>2. thread' \in [Connections -> {"none", "reading", "dispatch", "handler", "done"}]
    BY <2>1 DEF TypeOK
  <2>3. closed' = closed \/ closed' = [closed EXCEPT ![k] = TRUE]
    BY <1>4 DEF Recv, RecvFails
  <2>4. closed' \in [Connections -> BOOLEAN]
    BY <2>3, ClosedType
  <2>5. UNCHANGED <<path, headers, hears, posts, sending, outcome, given, posted, cut, response,
                    replies, handled>>
    BY <1>4 DEF Recv, RecvFails, client
  <2> QED
    BY <2>2, <2>4, <2>5 DEF TypeOK
<1>5. ASSUME NEW k \in Connections, Dispatch(k) PROVE TypeOK'
  <2>1. /\ \E to \in {"done", "handler"} : thread' = [thread EXCEPT ![k] = to]
        /\ closed' = closed \/ closed' = [closed EXCEPT ![k] = TRUE]
        /\ UNCHANGED <<path, headers, hears, posts, sending, outcome, given, posted, cut, replies>>
    BY <1>5 DEF Dispatch, Goto, client
  <2>2. thread' \in [Connections -> {"none", "reading", "dispatch", "handler", "done"}]
    BY <2>1 DEF TypeOK
  <2>3. closed' \in [Connections -> BOOLEAN]
    BY <2>1, ClosedType
  <2>4. response' \in [Connections -> Responses]
    <3>1. Respond(k, 404, <<>>) \/ response' = response
      BY <1>5 DEF Dispatch
    <3>2. <<>> \in Seq(Message)
      OBVIOUS
    <3>3. response \in [Connections -> Responses]
      BY DEF TypeOK, Responses
    <3>4. CASE Respond(k, 404, <<>>)
      <4>1. [status |-> 404, messages |-> <<>>] \in Responses
        BY <3>2 DEF Responses
      <4>2. response' = [response EXCEPT ![k] = [status |-> 404, messages |-> <<>>]]
        BY <3>4 DEF Respond
      <4> QED
        BY <3>3, <4>1, <4>2
    <3> QED
      BY <3>1, <3>3, <3>4
  <2>5. handled' \in [Connections -> Text \cup {<<"none">>}]
    <3>1. handled' = handled \/ handled' = [handled EXCEPT ![k] = Body(raw[k], Len(posted[k]))]
      BY <1>5 DEF Dispatch
    <3>2. Body(raw[k], Len(posted[k])) = posted[k] /\ posted[k] \in Bodies
      <4>1. thread[k] = "dispatch"
        BY <1>5 DEF Dispatch, Goto
      <4> QED
        BY <4>1, Served, IsUnderway DEF Underway
    <3>3. posted[k] \in Text
      BY <3>2, BoundsType
    <3>4. handled \in [Connections -> Text \cup {<<"none">>}]
      BY DEF TypeOK, Text
    <3> QED
      BY <3>1, <3>2, <3>3, <3>4
  <2> QED
    BY <2>1, <2>2, <2>3, <2>4, <2>5 DEF TypeOK, Responses, Text
<1>6. ASSUME NEW k \in Connections, Reply(k) PROVE TypeOK'
  <2>1. /\ thread[k] = "handler" /\ replies[k] < MaxReplies
        /\ replies' = [replies EXCEPT ![k] = @ + 1]
        /\ UNCHANGED <<path, headers, hears, posts, sending, outcome, given, posted, cut, thread, handled>>
    BY <1>6 DEF Reply, Answer, client
  <2>2. /\ replies[k] \in 0..MaxReplies /\ replies[k] + 1 \in 1..MaxReplies
        /\ replies \in [Connections -> 0..MaxReplies]
    <3>1. replies \in [Connections -> 0..MaxReplies]
      BY DEF TypeOK
    <3> QED
      BY <2>1, <3>1, BoundsType
  <2>3. replies' \in [Connections -> 0..MaxReplies] /\ replies'[k] = replies[k] + 1
    BY <2>1, <2>2
  <2>4. closed' \in [Connections -> BOOLEAN]
    <3>1. closed' = closed \/ closed' = [closed EXCEPT ![k] = ~Streaming(k)]
      BY <1>6 DEF Reply, Answer
    <3>2. (~Streaming(k)) \in BOOLEAN
      OBVIOUS
    <3> QED
      BY <3>1, <3>2, ClosedType
  <2>5. response' \in [Connections -> Responses]
    <3>1. \/ Respond(k, 200, Append(response[k].messages, <<k, replies'[k]>>))
          \/ response' = response
      BY <1>6 DEF Reply, Answer
    <3>2. Append(response[k].messages, <<k, replies'[k]>>) \in Seq(Message)
      <4>1. response[k].messages \in Seq(Message)
        BY DEF TypeOK
      <4>2. <<k, replies'[k]>> \in Message
        BY <2>2, <2>3 DEF Message
      <4> QED
        BY <4>1, <4>2, AppendProperties
    <3>3. response \in [Connections -> Responses]
      BY DEF TypeOK, Responses
    <3>4. CASE Respond(k, 200, Append(response[k].messages, <<k, replies'[k]>>))
      <4> DEFINE m == Append(response[k].messages, <<k, replies'[k]>>)
      <4>1. [status |-> 200, messages |-> m] \in Responses
        <5>1. m \in Seq(Message)
          BY <3>2
        <5> HIDE DEF m
        <5> QED
          BY <5>1 DEF Responses
      <4>2. response' = [response EXCEPT ![k] = [status |-> 200, messages |-> m]]
        BY <3>4, Zenon DEF Respond
      <4> HIDE DEF m
      <4> QED
        BY <3>3, <4>1, <4>2
    <3> QED
      BY <3>1, <3>3, <3>4
  <2> QED
    BY <2>1, <2>3, <2>4, <2>5 DEF TypeOK, Responses
<1>7. ASSUME NEW k \in Connections, HandlerReturns(k) PROVE TypeOK'
  <2>1. /\ thread' = [thread EXCEPT ![k] = "done"]
        /\ closed' = closed \/ closed' = [closed EXCEPT ![k] = TRUE]
        /\ UNCHANGED <<path, headers, hears, posts, sending, outcome, given, posted, cut, replies, handled>>
    BY <1>7 DEF HandlerReturns, Goto, client
  <2>2. thread' \in [Connections -> {"none", "reading", "dispatch", "handler", "done"}]
    BY <2>1 DEF TypeOK
  <2>3. closed' \in [Connections -> BOOLEAN]
    BY <2>1, ClosedType
  <2>4. response' \in [Connections -> Responses]
    <3>1. \/ Respond(k, 200, response[k].messages)
          \/ Respond(k, 500, <<>>)
          \/ response' = response
      BY <1>7 DEF HandlerReturns
    <3>2. <<>> \in Seq(Message) /\ response[k].messages \in Seq(Message)
      BY DEF TypeOK
    <3>3. response \in [Connections -> Responses]
      BY DEF TypeOK, Responses
    <3>4. CASE Respond(k, 200, response[k].messages)
      BY <3>2, <3>4, RespondType
    <3>5. CASE Respond(k, 500, <<>>)
      <4>1. [status |-> 500, messages |-> <<>>] \in Responses
        BY <3>2 DEF Responses
      <4>2. response' = [response EXCEPT ![k] = [status |-> 500, messages |-> <<>>]]
        BY <3>5 DEF Respond
      <4> QED
        BY <3>3, <4>1, <4>2
    <3> QED
      BY <3>1, <3>3, <3>4, <3>5
  <2> QED
    BY <2>1, <2>2, <2>3, <2>4 DEF TypeOK, Responses
<1>8. CASE UNCHANGED vars
  BY <1>8 DEF TypeOK, vars, client, server
<1> QED
  BY <1>1, <1>2, <1>3, <1>4, <1>5, <1>6, <1>7, <1>8 DEF Next, Serves
-----------------------------------------------------------------------------
(***************************************************************************)
(* What is read and what is still to come make up the request.             *)
(***************************************************************************)

LEMMA RequestInit == Init => RequestInv
<1> SUFFICES ASSUME Init PROVE RequestInv
  OBVIOUS
<1>1. headers \in [Clients -> Headers]
  BY Zenon DEF Init, Headers
<1>2. <<>> \in Seq(Token)
  OBVIOUS
<1>3. raw \in [Connections -> Seq(Token)] /\ wire \in [Connections -> Seq(Token)]
  BY <1>2 DEF Init
<1>4. ASSUME NEW k \in Connections PROVE Sound(k)
  <2>1. k[1] \in Clients /\ k[2] \in 1..MaxPosts
    BY DEF Connections
  <2>2. posts[k[1]] = 0
    BY <2>1 DEF Init
  <2>3. k[2] > posts[k[1]]
    BY <2>1, <2>2, BoundsType
  <2>4. Unused(k)
    BY DEF Init, Unused
  <2> QED
    BY <2>3, <2>4 DEF Sound
<1> QED
  BY <1>1, <1>3, <1>4 DEF RequestInv

\* A connection of which nothing changes.
LEMMA UnderwayKept ==
  ASSUME NEW k \in Connections, Underway(k), headers' = headers,
         thread'[k] = thread[k], posted'[k] = posted[k], raw'[k] = raw[k],
         wire'[k] = wire[k], handled'[k] = handled[k]
  PROVE  Underway(k)'
BY DEF Underway

LEMMA SoundKept ==
  ASSUME NEW k \in Connections, Sound(k), headers' = headers,
         k[2] > posts'[k[1]] <=> k[2] > posts[k[1]],
         thread'[k] = thread[k], posted'[k] = posted[k], raw'[k] = raw[k],
         wire'[k] = wire[k], handled'[k] = handled[k],
         outcome'[k] = outcome[k], given'[k] = given[k], cut'[k] = cut[k],
         closed'[k] = closed[k], replies'[k] = replies[k], response'[k] = response[k]
  PROVE  Sound(k)'
<1>1. CASE k[2] > posts[k[1]]
  BY <1>1 DEF Sound, Unused
<1>2. CASE ~(k[2] > posts[k[1]])
  BY <1>2, UnderwayKept DEF Sound
<1> QED
  BY <1>1, <1>2

\* A step of the server's thread of k.
OnlyAt(k) ==
  /\ \A j \in Connections \ {k} :
       /\ thread'[j] = thread[j] /\ closed'[j] = closed[j] /\ replies'[j] = replies[j]
       /\ response'[j] = response[j] /\ handled'[j] = handled[j]
       /\ raw'[j] = raw[j] /\ wire'[j] = wire[j]
  /\ UNCHANGED <<path, headers, hears, posts, sending, outcome, given, posted, cut>>

LEMMA ThreadSteps ==
  ASSUME TypeOK, RequestInv, NEW k \in Connections, Serves(k)
  PROVE  OnlyAt(k) /\ thread[k] # "none"
<1>1. CASE Recv(k)
  BY <1>1 DEF Recv, Goto, OnlyAt, client, TypeOK, RequestInv
<1>2. CASE RecvFails(k)
  BY <1>2 DEF RecvFails, Goto, OnlyAt, client, TypeOK
<1>3. CASE Dispatch(k)
  BY <1>3 DEF Dispatch, Goto, Respond, OnlyAt, client, TypeOK
<1>4. CASE Reply(k)
  BY <1>4 DEF Reply, Answer, Respond, OnlyAt, client, TypeOK
<1>5. CASE HandlerReturns(k)
  BY <1>5 DEF HandlerReturns, Goto, Respond, OnlyAt, client, TypeOK
<1> QED
  BY <1>1, <1>2, <1>3, <1>4, <1>5 DEF Serves

\* The connection that a client opens next has not been used.
LEMMA Opens ==
  ASSUME TypeOK, RequestInv, NEW c \in Clients, Post(c)
  PROVE  \E new \in Connections :
           /\ new = <<c, posts[c] + 1>> /\ Current(c)' = new
           /\ posts'[c] = posts[c] + 1 /\ Unused(new)
<1>1. posts \in [Clients -> 0..MaxPosts] /\ posts[c] \in 0..MaxPosts
  BY DEF TypeOK
<1>2. posts[c] < MaxPosts /\ posts'[c] = posts[c] + 1
  BY <1>1 DEF Post
<1>3. PICK new \in Connections : new = <<c, posts[c] + 1>>
  <2>1. <<c, posts[c] + 1>> \in Connections
    BY <1>1, <1>2, BoundsType DEF Connections
  <2> QED
    BY <2>1
<1>4. Current(c)' = new
  BY <1>2, <1>3 DEF Current
<1>5. new[1] = c /\ new[2] = posts[c] + 1
  BY <1>3
<1>6. Unused(new)
  BY <1>1, <1>5 DEF RequestInv, Sound
<1> QED
  BY <1>2, <1>3, <1>4, <1>6

\* The request is written whole to a connection that nobody has used.
LEMMA PostKeeps ==
  ASSUME TypeOK, RequestInv, NEW c \in Clients, Post(c)
  PROVE  RequestInv'
<1>1. PICK body \in Bodies :
        /\ posted' = [posted EXCEPT ![Current(c)'] = body]
        /\ wire' = [wire EXCEPT ![Current(c)'] = Request(c, body)]
  BY DEF Post
<1>2. /\ posts[c] < MaxPosts
      /\ posts' = [posts EXCEPT ![c] = @ + 1]
      /\ thread' = [thread EXCEPT ![Current(c)'] = "reading"]
      /\ UNCHANGED <<path, headers, hears, outcome, given, cut, response, raw, closed, replies, handled>>
  BY DEF Post
<1>3. posts \in [Clients -> 0..MaxPosts] /\ posts[c] \in 0..MaxPosts
  BY DEF TypeOK
<1>4. PICK new \in Connections :
        /\ new = <<c, posts[c] + 1>> /\ Current(c)' = new
        /\ posts'[c] = posts[c] + 1 /\ Unused(new)
  BY Opens
<1>5. Current(c)' = new
  BY <1>4
<1>6. new[1] = c /\ new[2] = posts[c] + 1 /\ posts'[c] = posts[c] + 1
  BY <1>4
<1>7. Unused(new)
  BY <1>4
<1>8. /\ Request(c, body) = Header(headers[c]) \o body
      /\ Request(c, body) \in Seq(Token)
  <2>1. Request(c, body) = Header(headers[c]) \o body
    BY DEF Request, Header
  <2>2. headers[c] \in Headers /\ body \in Seq(Token)
    BY BodyTokens DEF RequestInv
  <2>3. Header(headers[c]) \in Seq(Token)
    BY <2>2, HeaderFacts
  <2> QED
    BY <2>1, <2>2, <2>3, Concatenation
<1>9. /\ raw' \in [Connections -> Seq(Token)] /\ wire' \in [Connections -> Seq(Token)]
      /\ headers' \in [Clients -> Headers]
  <2> DEFINE S == Seq(Token)
  <2>1. raw \in [Connections -> S] /\ wire \in [Connections -> S] /\ Request(c, body) \in S
    BY <1>8 DEF RequestInv
  <2> HIDE DEF S
  <2>2. raw' \in [Connections -> S] /\ wire' \in [Connections -> S]
    BY <1>1, <1>2, <2>1
  <2> QED
    BY <1>2, <2>2 DEF S, RequestInv
<1>10. Underway(new)'
  <2>1. /\ thread'[new] = "reading" /\ posted'[new] = body
        /\ wire'[new] = Request(c, body)
        /\ raw'[new] = <<>> /\ handled'[new] = <<"none">> /\ headers' = headers
    <3>1. raw'[new] = <<>> /\ handled'[new] = <<"none">> /\ headers' = headers
      BY <1>2, <1>7 DEF Unused
    <3>2. thread'[new] = "reading"
      BY <1>2, <1>4, <1>5 DEF TypeOK
    <3>3. posted'[new] = body
      BY <1>1, <1>4, <1>5 DEF TypeOK
    <3>4. wire'[new] = Request(c, body)
      BY <1>1, <1>4, <1>5 DEF RequestInv
    <3> QED
      BY <3>1, <3>2, <3>3, <3>4
  <2>2. raw'[new] \o wire'[new] = Header(headers'[new[1]]) \o posted'[new]
    <3>1. <<>> \o Request(c, body) = Request(c, body)
      BY <1>8
    <3> QED
      BY <1>6, <1>8, <2>1, <3>1
  <2> QED
    BY <2>1, <2>2 DEF Underway
<1>11. Sound(new)'
  <2>1. ~(new[2] > posts'[new[1]])
    BY <1>3, <1>6
  <2> QED
    BY <1>10, <2>1 DEF Sound
<1>12. ASSUME NEW k \in Connections, k # new PROVE Sound(k)'
  <2>1. k[2] > posts'[k[1]] <=> k[2] > posts[k[1]]
    <3>1. k[1] \in Clients /\ k[2] \in 1..MaxPosts /\ k = <<k[1], k[2]>>
      BY DEF Connections
    <3>2. CASE k[1] = c
      <4>1. k[2] # posts[c] + 1
        BY <1>4, <1>12, <3>1, <3>2
      <4> QED
        BY <1>3, <1>6, <3>1, <3>2, <4>1, BoundsType
    <3>3. CASE k[1] # c
      BY <1>2, <1>3, <3>1, <3>3
    <3> QED
      BY <3>2, <3>3
  <2>2. thread'[k] = thread[k]
    BY <1>2, <1>5, <1>12 DEF TypeOK
  <2>3. posted'[k] = posted[k]
    BY <1>1, <1>5, <1>12 DEF TypeOK
  <2>4. wire'[k] = wire[k]
    BY <1>1, <1>5, <1>12 DEF RequestInv
  <2>5. Sound(k)
    BY DEF RequestInv
  <2> QED
    BY <1>2, <2>1, <2>2, <2>3, <2>4, <2>5, SoundKept
<1> QED
  BY <1>9, <1>11, <1>12 DEF RequestInv

\* The end of a send changes nothing of what its request was.
LEMMA EndKeeps ==
  ASSUME TypeOK, RequestInv, NEW c \in Clients, GiveUp(c) \/ Receive(c)
  PROVE  RequestInv'
<1>1. UNCHANGED <<path, headers, hears, posts, posted, wire, response, server>>
  BY DEF GiveUp, Receive
<1>2. ASSUME NEW k \in Connections PROVE Sound(k)'
  <2>1. Sound(k)
    BY DEF RequestInv
  <2>2. CASE k[2] > posts[k[1]]
    <3>1. k # Current(c)
      <4>1. posts[c] \in 0..MaxPosts
        BY DEF TypeOK
      <4>2. k = Current(c) => k[1] = c /\ k[2] = posts[c]
        BY DEF Current
      <4> QED
        BY <2>2, <4>1, <4>2, BoundsType
    <3>2. outcome'[k] = outcome[k]
      BY <3>1 DEF GiveUp, Receive, Ends, TypeOK
    <3>3. given'[k] = given[k]
      BY <3>1 DEF GiveUp, Receive, TypeOK
    <3>4. cut'[k] = cut[k]
      BY <3>1 DEF GiveUp, Receive, TypeOK
    <3> QED
      BY <1>1, <2>1, <3>2, <3>3, <3>4, SoundKept DEF server
  <2>3. CASE ~(k[2] > posts[k[1]])
    <3>1. Underway(k)
      BY <2>1, <2>3 DEF Sound
    <3>2. Underway(k)'
      BY <1>1, <3>1, UnderwayKept DEF server
    <3> QED
      BY <1>1, <2>3, <3>2 DEF Sound
  <2> QED
    BY <2>2, <2>3
<1> QED
  BY <1>1, <1>2 DEF RequestInv, server

LEMMA RequestStep == TypeOK /\ RequestInv /\ [Next]_vars => RequestInv'
<1> SUFFICES ASSUME TypeOK, RequestInv, [Next]_vars PROVE RequestInv'
  OBVIOUS
<1>1. CASE \E c \in Clients : Post(c) \/ GiveUp(c) \/ Receive(c)
  BY <1>1, PostKeeps, EndKeeps
<1>2. ASSUME NEW k \in Connections, Serves(k) PROVE RequestInv'
  <2>1. OnlyAt(k) /\ thread[k] # "none"
    BY <1>2, ThreadSteps
  <2>2. Underway(k) /\ ~(k[2] > posts[k[1]]) /\ headers[k[1]] \in Headers
    BY <2>1, IsUnderway
  <2>3. /\ Underway(k)'
        /\ raw' \in [Connections -> Seq(Token)] /\ wire' \in [Connections -> Seq(Token)]
    <3>1. CASE Recv(k)
      <4>1. PICK n \in 1..Len(wire[k]) :
              /\ raw' = [raw EXCEPT ![k] = @ \o SubSeq(wire[k], 1, n)]
              /\ wire' = [wire EXCEPT ![k] = SubSeq(@, n + 1, Len(@))]
        BY <3>1 DEF Recv
      <4>2. raw[k] \in Seq(Token) /\ wire[k] \in Seq(Token)
        BY DEF RequestInv
      <4>3. /\ raw[k] \o SubSeq(wire[k], 1, n) \in Seq(Token)
            /\ SubSeq(wire[k], n + 1, Len(wire[k])) \in Seq(Token)
            /\ (raw[k] \o SubSeq(wire[k], 1, n)) \o SubSeq(wire[k], n + 1, Len(wire[k]))
                 = raw[k] \o wire[k]
        BY <4>2, PiecesKept
      <4> DEFINE S == Seq(Token)
                 r == raw[k] \o SubSeq(wire[k], 1, n)
                 w == SubSeq(wire[k], n + 1, Len(wire[k]))
      <4>4. raw' = [raw EXCEPT ![k] = r] /\ wire' = [wire EXCEPT ![k] = w]
        BY <4>1
      <4>5. /\ raw \in [Connections -> S] /\ wire \in [Connections -> S]
            /\ r \in S /\ w \in S /\ r \o w = raw[k] \o wire[k]
        BY <4>3 DEF RequestInv
      <4> HIDE DEF S, r, w
      <4>6. /\ raw' \in [Connections -> S] /\ wire' \in [Connections -> S]
            /\ raw'[k] = r /\ wire'[k] = w
        BY <4>4, <4>5
      <4>7. /\ thread'[k] = IF Complete(raw'[k], Len(posted[k])) THEN "dispatch" ELSE "reading"
            /\ posted' = posted /\ handled' = handled /\ headers' = headers
        BY <3>1 DEF Recv, Goto, client, TypeOK
      <4>8. Underway(k)'
        <5>1. raw'[k] \o wire'[k] = Header(headers'[k[1]]) \o posted'[k]
          BY <2>2, <4>5, <4>6, <4>7 DEF Underway
        <5>2. thread'[k] \in {"dispatch", "handler"} => Complete(raw'[k], Len(posted'[k]))
          BY <4>7
        <5>3. /\ thread'[k] \in {"reading", "dispatch", "handler", "done"}
              /\ posted'[k] \in Bodies
              /\ handled'[k] \in {<<"none">>, posted'[k]}
              /\ thread'[k] # "handler"
          BY <2>2, <4>7 DEF Underway
        <5> QED
          BY <5>1, <5>2, <5>3 DEF Underway
      <4> QED
        BY <4>6, <4>8 DEF S
    <3>2. CASE RecvFails(k) \/ HandlerReturns(k)
      <4>1. raw' = raw /\ wire' = wire /\ handled' = handled /\ thread'[k] = "done"
        BY <3>2 DEF RecvFails, HandlerReturns, Goto, TypeOK
      <4> QED
        BY <2>1, <2>2, <4>1 DEF Underway, OnlyAt, RequestInv
    <3>3. CASE Dispatch(k)
      <4>1. raw' = raw /\ wire' = wire
        BY <3>3 DEF Dispatch
      <4>2. thread[k] = "dispatch" /\ thread'[k] \in {"done", "handler"}
        BY <3>3 DEF Dispatch, Goto, TypeOK
      <4>3. /\ handled'[k] \in {handled[k], posted[k]}
            /\ thread'[k] = "handler" => handled'[k] = posted[k]
        <5>1. Body(raw[k], Len(posted[k])) = posted[k]
          BY <4>2, Served
        <5> QED
          BY <3>3, <5>1 DEF Dispatch, Goto, TypeOK
      <4> QED
        BY <2>1, <2>2, <4>1, <4>2, <4>3 DEF Underway, OnlyAt, RequestInv
    <3>4. CASE Reply(k)
      <4>1. raw' = raw /\ wire' = wire /\ handled' = handled /\ thread' = thread
        BY <3>4 DEF Reply, Answer
      <4> QED
        BY <2>1, <2>2, <4>1, UnderwayKept DEF OnlyAt, RequestInv
    <3> QED
      BY <1>2, <3>1, <3>2, <3>3, <3>4 DEF Serves
  <2>4. ASSUME NEW j \in Connections PROVE Sound(j)'
    <3>1. CASE j = k
      BY <2>1, <2>2, <2>3, <3>1 DEF Sound, OnlyAt
    <3>2. CASE j # k
      <4>1. Sound(j)
        BY DEF RequestInv
      <4> QED
        BY <2>1, <3>2, <4>1, SoundKept DEF OnlyAt
    <3> QED
      BY <3>1, <3>2
  <2> QED
    BY <2>1, <2>3, <2>4 DEF RequestInv, OnlyAt
<1>3. CASE UNCHANGED vars
  BY <1>3 DEF RequestInv, Sound, Unused, Underway, vars, client, server
<1> QED
  BY <1>1, <1>2, <1>3 DEF Next
-----------------------------------------------------------------------------
(***************************************************************************)
(* The answer that a client gets is its own.                               *)
(***************************************************************************)

\* OwnReply, of one connection.
ReplyOf(k) ==
  /\ Done(k) => handled[k] = posted[k]
  /\ given[k] = IF Done(k) /\ hears[k[1]] THEN << <<k, 1>> >> ELSE <<>>

LEMMA AnswerInit == Init => AnswerInv
  BY DEF Init, AnswerInv, OwnReply, Done, Waits, OwnResponse, Silence

LEMMA PostAnswer ==
  ASSUME TypeOK, RequestInv, AnswerInv, NEW c \in Clients, Post(c)
  PROVE  AnswerInv'
<1>1. /\ posts' = [posts EXCEPT ![c] = @ + 1]
      /\ sending' = [sending EXCEPT ![c] = TRUE]
      /\ UNCHANGED <<outcome, given, cut, response, closed, replies>>
  BY DEF Post
<1>2. PICK new \in Connections :
        /\ new = <<c, posts[c] + 1>> /\ Current(c)' = new
        /\ posts'[c] = posts[c] + 1 /\ Unused(new)
  BY Opens
<1>3. ASSUME NEW d \in Clients PROVE Waits(d)'
  <2>1. CASE d = c
    <3>1. posts[c] \in Nat
      BY BoundsType DEF TypeOK
    <3>2. posts'[c] > 0
      BY <1>2, <3>1
    <3> QED
      BY <1>1, <1>2, <2>1, <3>2 DEF Waits, Unused
  <2>2. CASE d # c
    <3>1. posts'[d] = posts[d] /\ sending'[d] = sending[d]
      BY <1>1, <2>2 DEF TypeOK
    <3>2. Waits(d)
      BY DEF AnswerInv
    <3> QED
      BY <1>1, <3>1, <3>2 DEF Waits, Current
  <2> QED
    BY <2>1, <2>2
<1>4. ASSUME NEW k \in Connections
      PROVE  k # new => posted'[k] = posted[k]
  BY <1>2 DEF Post, TypeOK
<1>5. /\ Unused(new) /\ hears' = hears /\ handled' = handled
      /\ outcome' = outcome /\ given' = given
  BY <1>2 DEF Post
<1>6. OwnReply'
  <2> SUFFICES ASSUME NEW k \in Connections PROVE ReplyOf(k)'
    BY DEF OwnReply, ReplyOf, Done
  <2>1. ReplyOf(k)
    BY DEF AnswerInv, OwnReply, ReplyOf, Done
  <2>2. CASE k = new
    BY <1>5, <2>1, <2>2 DEF ReplyOf, Done, Unused
  <2>3. CASE k # new
    BY <1>4, <1>5, <2>1, <2>3 DEF ReplyOf, Done
  <2> QED
    BY <2>2, <2>3
<1>7. ASSUME NEW k \in Connections, ~cut'[k] PROVE OwnResponse(k)'
  <2>1. OwnResponse(k)
    BY <1>1, <1>7 DEF AnswerInv
  <2>2. CASE k = new
    BY <1>1, <1>5, <2>1, <2>2 DEF OwnResponse, Unused
  <2>3. CASE k # new
    BY <1>1, <1>4, <1>5, <2>1, <2>3 DEF OwnResponse
  <2> QED
    BY <2>2, <2>3
<1> QED
  BY <1>3, <1>6, <1>7 DEF AnswerInv

\* A send that ends was waiting on a connection of its own.
LEMMA EndAnswer ==
  ASSUME TypeOK, RequestInv, AnswerInv, NEW c \in Clients, GiveUp(c) \/ Receive(c)
  PROVE  AnswerInv'
<1>1. /\ sending[c]
      /\ sending' = [sending EXCEPT ![c] = FALSE]
      /\ UNCHANGED <<hears, posts, posted, response, closed, replies, handled>>
  BY DEF GiveUp, Receive, Ends, server
<1>2. posts[c] > 0 /\ outcome[Current(c)] = "none" /\ ~cut[Current(c)]
  BY <1>1 DEF AnswerInv, Waits
<1>3. PICK k \in Connections : k = Current(c)
  <2>1. posts[c] \in 0..MaxPosts
    BY DEF TypeOK
  <2>2. posts[c] \in 1..MaxPosts
    BY <1>2, <2>1, BoundsType
  <2>3. Current(c) \in Connections
    BY <2>2 DEF Current, Connections
  <2> QED
    BY <2>3
<1>4. outcome[k] = "none" /\ given[k] = <<>> /\ OwnResponse(k) /\ k[1] = c
  BY <1>2, <1>3 DEF AnswerInv, OwnReply, Done, Current
<1>5. ASSUME NEW j \in Connections, j # k
      PROVE  outcome'[j] = outcome[j] /\ given'[j] = given[j] /\ cut'[j] = cut[j]
  <2>1. outcome'[j] = outcome[j]
    BY <1>3, <1>5 DEF GiveUp, Receive, Ends, TypeOK
  <2>2. given'[j] = given[j]
    BY <1>3, <1>5 DEF GiveUp, Receive, TypeOK
  <2>3. cut'[j] = cut[j]
    BY <1>3, <1>5 DEF GiveUp, Receive, TypeOK
  <2> QED
    BY <2>1, <2>2, <2>3
<1>6. ReplyOf(k)' /\ (cut'[k] \/ cut'[k] = cut[k])
  <2>1. CASE GiveUp(c)
    <3>1. outcome'[k] = "threw" /\ given' = given /\ cut'[k] = TRUE
      BY <1>3, <2>1 DEF GiveUp, Ends, TypeOK
    <3> QED
      BY <1>4, <3>1 DEF ReplyOf, Done
  <2>2. CASE Receive(c)
    <3>1. closed[k] /\ cut' = cut
      BY <1>3, <2>2 DEF Receive
    <3>2. CASE given' = given /\ outcome'[k] = "threw"
      BY <1>4, <3>1, <3>2 DEF ReplyOf, Done
    <3>3. CASE /\ response[k].status < 400 /\ outcome'[k] \in {"returned", "handler_threw"}
               /\ \/ ~hears[c] /\ given' = given
                  \/ hears[c] /\ \E n \in 1..Len(response[k].messages) : Gives(c, n)
                  \/ hears[c] /\ Gives(c, Len(response[k].messages))
      <4>1. response[k].status \in {0, 200, 404, 500}
        BY DEF TypeOK
      <4>2. response[k].messages = << <<k, 1>> >> /\ handled[k] = posted[k]
        BY <1>4, <3>1, <3>3, <4>1 DEF OwnResponse
      <4>3. Len(response[k].messages) = 1 /\ SubSeq(response[k].messages, 1, 1) = << <<k, 1>> >>
        <5> DEFINE m == response[k].messages
        <5>1. m \in Seq(Message) /\ Len(m) = 1
          BY <4>2 DEF TypeOK
        <5> HIDE DEF m
        <5>2. SubSeq(m, 1, Len(m)) = m
          BY <5>1
        <5> QED
          BY <4>2, <5>1, <5>2 DEF m
      <4>4. given \in [Connections -> Seq(Message)]
        BY DEF TypeOK
      <4>5. Gives(c, 1) => given'[k] = << <<k, 1>> >>
        BY <1>3, <4>3, <4>4 DEF Gives
      <4>6. hears'[k[1]] = hears[c] /\ handled'[k] = posted'[k]
        BY <1>1, <1>4, <4>2
      <4>7. CASE ~hears[c]
        BY <1>4, <3>1, <3>3, <4>6, <4>7 DEF ReplyOf, Done
      <4>8. CASE hears[c]
        <5>1. Gives(c, 1)
          BY <3>3, <4>3, <4>8
        <5> QED
          BY <3>1, <3>3, <4>5, <4>6, <4>8, <5>1 DEF ReplyOf, Done
      <4> QED
        BY <4>7, <4>8
    <3>4. outcome \in [Connections -> {"none", "returned", "threw", "handler_threw"}]
      BY DEF TypeOK
    <3> QED
      BY <1>3, <2>2, <3>2, <3>3, <3>4, ReceiveCases
  <2> QED
    BY <2>1, <2>2
<1>7. OwnReply'
  <2> SUFFICES ASSUME NEW j \in Connections PROVE ReplyOf(j)'
    BY DEF OwnReply, ReplyOf, Done
  <2>1. CASE j = k
    BY <1>6, <2>1
  <2>2. CASE j # k
    <3>1. ReplyOf(j)
      BY DEF AnswerInv, OwnReply, ReplyOf, Done
    <3> QED
      BY <1>1, <1>5, <2>2, <3>1 DEF ReplyOf, Done
  <2> QED
    BY <2>1, <2>2
<1>8. ASSUME NEW d \in Clients PROVE Waits(d)'
  <2>1. CASE d = c
    <3>1. ~sending'[d]
      BY <1>1, <2>1 DEF TypeOK
    <3> QED
      BY <3>1 DEF Waits
  <2>2. CASE d # c
    <3>1. sending'[d] = sending[d]
      BY <1>1, <2>2 DEF TypeOK
    <3>2. CASE ~sending[d]
      BY <3>1, <3>2 DEF Waits
    <3>3. CASE sending[d]
      <4>1. posts[d] > 0 /\ outcome[Current(d)] = "none" /\ ~cut[Current(d)]
        BY <3>3 DEF AnswerInv, Waits
      <4>2. PICK j \in Connections : j = Current(d)
        <5>1. posts[d] \in 0..MaxPosts
          BY DEF TypeOK
        <5>2. posts[d] \in 1..MaxPosts
          BY <4>1, <5>1, BoundsType
        <5>3. Current(d) \in Connections
          BY <5>2 DEF Current, Connections
        <5> QED
          BY <5>3
      <4>3. j # k /\ Current(d)' = j
        BY <1>1, <1>3, <2>2, <4>2 DEF Current
      <4> QED
        BY <1>1, <1>5, <4>1, <4>2, <4>3 DEF Waits
    <3> QED
      BY <3>2, <3>3
  <2> QED
    BY <2>1, <2>2
<1>9. ASSUME NEW j \in Connections, ~cut'[j] PROVE OwnResponse(j)'
  <2>1. ~cut[j]
    BY <1>2, <1>3, <1>5, <1>9
  <2>2. OwnResponse(j)
    BY <2>1 DEF AnswerInv
  <2> QED
    BY <1>1, <2>2 DEF OwnResponse
<1> QED
  BY <1>7, <1>8, <1>9 DEF AnswerInv

\* A thread that has called its handler with the message keeps it so.
LEMMA HandledOnce ==
  ASSUME TypeOK, RequestInv, NEW k \in Connections, Serves(k)
  PROVE  /\ handled[k] = posted[k] => handled'[k] = posted[k]
         /\ Dispatch(k) \/ handled' = handled
<1>1. CASE Dispatch(k)
  <2>1. thread[k] = "dispatch"
    BY <1>1 DEF Dispatch, Goto
  <2>2. Body(raw[k], Len(posted[k])) = posted[k]
    BY <2>1, Served
  <2> QED
    BY <1>1, <2>2 DEF Dispatch, TypeOK
<1>2. CASE ~Dispatch(k)
  BY <1>2 DEF Serves, Recv, RecvFails, Reply, Answer, HandlerReturns
<1> QED
  BY <1>1, <1>2

\* What the server does to a connection that holds: it refuses the request, or
\* its handler's first reply ends the response.
LEMMA ServerAnswer ==
  ASSUME TypeOK, RequestInv, AnswerInv, NEW k \in Connections, Serves(k)
  PROVE  AnswerInv'
<1>1. OnlyAt(k) /\ thread[k] # "none"
  BY ThreadSteps
<1>2. OwnReply' /\ \A c \in Clients : Waits(c)'
  <2>1. \A c \in Clients : Waits(c)'
    BY <1>1 DEF AnswerInv, Waits, Current, OnlyAt
  <2>2. ASSUME NEW j \in Connections PROVE ReplyOf(j)'
    <3>1. ReplyOf(j)
      BY DEF AnswerInv, OwnReply, ReplyOf, Done
    <3>2. CASE j # k
      BY <1>1, <3>1, <3>2 DEF ReplyOf, Done, OnlyAt
    <3>3. CASE j = k
      <4>1. handled[k] = posted[k] => handled'[k] = posted[k]
        BY <1>1, HandledOnce
      <4> QED
        BY <1>1, <3>1, <3>3, <4>1 DEF ReplyOf, Done, OnlyAt
    <3> QED
      BY <3>2, <3>3
  <2> QED
    BY <2>1, <2>2 DEF OwnReply, ReplyOf, Done
<1>3. ASSUME ~cut[k] PROVE OwnResponse(k)'
  <2>1. OwnResponse(k)
    BY <1>3 DEF AnswerInv
  <2>2. CASE Recv(k)
    <3>1. /\ response' = response /\ closed' = closed /\ replies' = replies
          /\ handled' = handled /\ posted' = posted
      BY <1>1, <2>2 DEF Recv, OnlyAt
    <3> QED
      BY <2>1, <3>1 DEF OwnResponse
  <2>3. CASE RecvFails(k)
    BY <1>3, <2>3 DEF RecvFails
  <2>4. CASE Dispatch(k)
    <3>1. CASE path[k[1]] = "wrong"
      <4>1. /\ closed' = [closed EXCEPT ![k] = TRUE]
            /\ response' = [response EXCEPT ![k] = [status |-> 404, messages |-> <<>>]]
        BY <2>4, <3>1 DEF Dispatch, Respond
      <4>2. closed'[k] /\ response'[k].status = 404
        BY <4>1 DEF TypeOK
      <4> QED
        BY <4>2 DEF OwnResponse
    <3>2. CASE path[k[1]] # "wrong"
      <4>1. response' = response /\ closed' = closed /\ replies' = replies
        BY <2>4, <3>2 DEF Dispatch
      <4>2. posted' = posted /\ (handled[k] = posted[k] => handled'[k] = posted[k])
        BY <1>1, HandledOnce DEF OnlyAt
      <4> QED
        BY <2>1, <4>1, <4>2 DEF OwnResponse
    <3> QED
      BY <3>1, <3>2
  <2>5. CASE Reply(k)
    <3>1. CASE closed[k]
      <4>1. response' = response /\ closed' = closed /\ handled' = handled /\ posted' = posted
        BY <1>1, <2>5, <3>1 DEF Reply, Answer, OnlyAt
      <4> QED
        BY <2>1, <3>1, <4>1 DEF OwnResponse
    <3>2. CASE ~closed[k]
      <4>1. ~Streaming(k)
        BY <2>5, Served DEF Reply, Answer
      <4>2. replies[k] = 0 /\ response[k].messages = <<>>
        BY <2>1, <3>2 DEF OwnResponse
      <4>3. /\ replies' = [replies EXCEPT ![k] = @ + 1]
            /\ Respond(k, 200, Append(response[k].messages, <<k, replies'[k]>>))
            /\ closed' = [closed EXCEPT ![k] = ~Streaming(k)]
        BY <1>3, <2>5, <3>2 DEF Reply, Answer
      <4>4. replies'[k] = 1
        BY <4>2, <4>3 DEF TypeOK
      <4>5. Append(response[k].messages, <<k, replies'[k]>>) = << <<k, 1>> >>
        BY <4>2, <4>4
      <4>6. response'[k].messages = << <<k, 1>> >>
        BY <4>3, <4>5 DEF Respond, TypeOK
      <4>7. closed'[k]
        <5>1. (~Streaming(k)) = TRUE
          BY <4>1, Zenon
        <5>2. closed' = [closed EXCEPT ![k] = TRUE]
          BY <4>3, <5>1, Zenon
        <5> QED
          BY <5>2 DEF TypeOK
      <4>8. handled'[k] = posted'[k]
        <5>1. thread[k] = "handler" /\ handled' = handled /\ posted' = posted
          BY <1>1, <2>5 DEF Reply, Answer, OnlyAt
        <5> QED
          BY <5>1, IsUnderway DEF Underway
      <4> QED
        BY <4>6, <4>7, <4>8 DEF OwnResponse
    <3> QED
      BY <3>1, <3>2
  <2>6. CASE HandlerReturns(k)
    <3>1. ~Streaming(k)
      BY <2>6, Served DEF HandlerReturns, Goto
    <3>2. /\ closed' = [closed EXCEPT ![k] = TRUE]
          /\ IF closed[k] THEN response' = response ELSE Respond(k, 500, <<>>)
      BY <2>6, <3>1 DEF HandlerReturns
    <3>3. closed'[k]
      BY <3>2 DEF TypeOK
    <3>4. CASE closed[k]
      <4>1. handled' = handled /\ posted' = posted
        BY <1>1, <2>6 DEF HandlerReturns, OnlyAt
      <4> QED
        BY <2>1, <3>2, <3>3, <3>4, <4>1 DEF OwnResponse
    <3>5. CASE ~closed[k]
      <4>1. response' = [response EXCEPT ![k] = [status |-> 500, messages |-> <<>>]]
        BY <3>2, <3>5 DEF Respond
      <4>2. response'[k].status = 500
        BY <4>1 DEF TypeOK
      <4> QED
        BY <3>3, <4>2 DEF OwnResponse
    <3> QED
      BY <3>4, <3>5
  <2> QED
    BY <2>2, <2>3, <2>4, <2>5, <2>6 DEF Serves
<1>4. ASSUME NEW j \in Connections, ~cut'[j] PROVE OwnResponse(j)'
  <2>1. ~cut[j]
    BY <1>1, <1>4 DEF OnlyAt
  <2>2. CASE j = k
    BY <1>3, <2>1, <2>2
  <2>3. CASE j # k
    <3>1. OwnResponse(j)
      BY <2>1 DEF AnswerInv
    <3>2. /\ closed'[j] = closed[j] /\ replies'[j] = replies[j] /\ response'[j] = response[j]
          /\ handled'[j] = handled[j] /\ posted' = posted
      BY <1>1, <2>3 DEF OnlyAt
    <3> QED
      BY <3>1, <3>2 DEF OwnResponse
  <2> QED
    BY <2>2, <2>3
<1> QED
  BY <1>2, <1>4 DEF AnswerInv

LEMMA AnswerStep == TypeOK /\ RequestInv /\ AnswerInv /\ [Next]_vars => AnswerInv'
<1> SUFFICES ASSUME TypeOK, RequestInv, AnswerInv, [Next]_vars PROVE AnswerInv'
  OBVIOUS
<1>1. CASE UNCHANGED vars
  BY <1>1 DEF AnswerInv, OwnReply, Done, Waits, Current, OwnResponse, vars, client, server
<1> QED
  BY <1>1, PostAnswer, EndAnswer, ServerAnswer DEF Next

LEMMA InvHolds == Spec => [](TypeOK /\ RequestInv /\ AnswerInv)
  BY TypeInit, RequestInit, AnswerInit, TypeStep, RequestStep, AnswerStep, PTL DEF Spec
-----------------------------------------------------------------------------
\* Every variable keeps its type, whatever the pieces in which requests come
\* and whenever connections break.
THEOREM TypeCorrect == Spec => []TypeOK
  BY InvHolds, PTL

\* The handler of handle_client gets the body that send posted, whole and
\* nothing else, for any bodies and any pieces: what read_http_request takes
\* for the end of the header block is it, although bodies may hold blank lines.
THEOREM BodyWhole == Spec => []WholeBody
<1>1. TypeOK /\ RequestInv => WholeBody
  <2> SUFFICES ASSUME RequestInv, NEW k \in Connections
               PROVE  handled[k] \in {<<"none">>, posted[k]}
    BY DEF WholeBody
  <2>1. Sound(k)
    BY DEF RequestInv
  <2> QED
    BY <2>1 DEF Sound, Unused, Underway
<1> QED
  BY <1>1, InvHolds, PTL

\* A send that returns, and one that ends with the exception of the client's own
\* handler, comes after the server's handler was called with its message, and has
\* given the first reply to it and nothing else, if the client has a handler; any
\* other send that throws has given nothing.  So it is for any number of clients,
\* whatever is abandoned, and however often the server's handler replies.
THEOREM OwnReplyOnly == Spec => []OwnReply
<1>1. AnswerInv => OwnReply
  BY DEF AnswerInv
<1> QED
  BY <1>1, InvHolds, PTL
=============================================================================
