---------------------------- MODULE MessageProofs ----------------------------
(***************************************************************************)
(* Proofs about messages: what the server makes of the ones of the         *)
(* library's client (Routing), and how they travel as events               *)
(* (EventStream).                                                          *)
(***************************************************************************)
EXTENDS Routing, EventStream, FiniteSetTheorems, SequenceTheorems, WellFoundedInduction, TLAPS

-----------------------------------------------------------------------------
(* Induction.  The library's induction theorems take a predicate, which no *)
(* prover here can instantiate; a set of numbers does as well.             *)

\* A set of naturals that is not empty has a least element.
LEMMA LeastElement ==
  ASSUME NEW S \in SUBSET Nat, S # {}
  PROVE  \E n \in S : \A m \in S : n <= m
<1> DEFINE R == OpToRel(<, Nat)
<1>1. IsWellFoundedOn(R, Nat)
  BY NatLessThanWellFounded
<1>2. \A m, k \in Nat : m < k => <<m, k>> \in R
  BY DEF OpToRel
<1> HIDE DEF R
<1>3. PICK n \in S : \A m \in S : ~ (<<m, n>> \in R)
  BY <1>1, WFMin
<1>4. ASSUME NEW m \in S, m < n
      PROVE  FALSE
  <2>1. <<m, n>> \in R
    BY <1>2, <1>4
  <2>2. ~ (<<m, n>> \in R)
    BY <1>3
  <2> QED
    BY <2>1, <2>2
<1> QED
  BY <1>4

\* A set that contains 0 and with each natural the next contains them all.
LEMMA Induction ==
  ASSUME NEW P, 0 \in P, \A n \in Nat : n \in P => n + 1 \in P
  PROVE  Nat \subseteq P
<1> SUFFICES ASSUME NEW k \in Nat, k \notin P PROVE FALSE
  OBVIOUS
<1> DEFINE S == {n \in Nat : n \notin P}
<1>1. PICK n \in S : \A m \in S : n <= m
  BY LeastElement
<1>2. n \in Nat /\ n # 0 /\ n - 1 \in Nat
  BY <1>1
<1>3. n - 1 \in P
  BY <1>1, <1>2
<1> QED
  BY <1>1, <1>2, <1>3

LEMMA MinOf ==
  ASSUME NEW S \in SUBSET Nat, S # {}
  PROVE  Min(S) \in S /\ \A m \in S : Min(S) <= m
  BY LeastElement DEF Min

LEMMA MinIs ==
  ASSUME NEW S \in SUBSET Nat, NEW n \in S, \A m \in S : n <= m
  PROVE  Min(S) = n
<1>1. Min(S) \in S /\ Min(S) <= n
  BY MinOf
<1>2. n <= Min(S) /\ n \in Nat /\ Min(S) \in Nat
  BY <1>1
<1> QED
  BY <1>1, <1>2

LEMMA MaxIs ==
  ASSUME NEW S \in SUBSET Nat, NEW n \in S, \A m \in S : m <= n
  PROVE  Max(S) = n
<1>1. Max(S) \in S /\ \A m \in S : m <= Max(S)
  BY DEF Max
<1>2. n <= Max(S) /\ Max(S) <= n /\ n \in Nat /\ Max(S) \in Nat
  BY <1>1
<1> QED
  BY <1>2
-----------------------------------------------------------------------------
(* Depth *)

Weight(token) == IF token \in Opening THEN 1 ELSE IF token \in Closing THEN -1 ELSE 0

\* How many of the first tokens are in a set.
Tally(text, T, i) == Cardinality({j \in 1..i : text[j] \in T})

LEMMA TallyStep ==
  ASSUME NEW text, NEW T, NEW n \in Nat
  PROVE  /\ Tally(text, T, 0) = 0 /\ Tally(text, T, n) \in Nat
         /\ Tally(text, T, n + 1) = Tally(text, T, n) + (IF text[n + 1] \in T THEN 1 ELSE 0)
<1> DEFINE X(i) == {j \in 1..i : text[j] \in T}
<1>1. X(0) = {}
  OBVIOUS
<1>2. IsFiniteSet(X(n)) /\ Cardinality(X(n)) \in Nat
  <2>1. IsFiniteSet(1..n) /\ X(n) \in SUBSET (1..n)
    BY FS_Interval
  <2> QED
    BY <2>1, FS_Subset, FS_CardinalityType
<1>3. CASE text[n + 1] \in T
  <2>1. X(n + 1) = X(n) \cup {n + 1} /\ n + 1 \notin X(n)
    BY <1>3
  <2>2. Cardinality(X(n) \cup {n + 1}) = Cardinality(X(n)) + 1
    BY <1>2, <2>1, FS_AddElement
  <2> QED
    BY <1>1, <1>2, <1>3, <2>1, <2>2, FS_EmptySet DEF Tally
<1>4. CASE text[n + 1] \notin T
  <2>1. X(n + 1) = X(n)
    BY <1>4
  <2> QED
    BY <1>1, <1>2, <1>4, <2>1, FS_EmptySet DEF Tally
<1> QED
  BY <1>3, <1>4

LEMMA DepthStep ==
  ASSUME NEW text, NEW n \in Nat
  PROVE  /\ Depth(text, 0) = 0
         /\ Depth(text, n) \in Int
         /\ Depth(text, n + 1) = Depth(text, n) + Weight(text[n + 1])
<1>1. Opening \cap Closing = {}
  BY DEF Opening, Closing
<1>2. \A i : Depth(text, i) = Tally(text, Opening, i) - Tally(text, Closing, i)
  BY DEF Depth, Tally
<1> QED
  BY <1>1, <1>2, TallyStep DEF Weight

\* After its first tokens, s goes on like t.
GoesOn(s, a, t, n) == \A j \in 1..n : s[a + j] = t[j]

\* Where a text contains another, its depth grows as that of the other.
LEMMA DepthShift ==
  ASSUME NEW s, NEW t, NEW a \in Nat, NEW n \in Nat, GoesOn(s, a, t, n)
  PROVE  \A j \in 0..n : Depth(s, a + j) = Depth(s, a) + Depth(t, j)
<1> DEFINE P == {j \in Nat : j <= n => Depth(s, a + j) = Depth(s, a) + Depth(t, j)}
<1>1. 0 \in P
  BY DepthStep
<1>2. ASSUME NEW j \in Nat, j \in P
      PROVE  j + 1 \in P
  <2> SUFFICES ASSUME j + 1 <= n
               PROVE  Depth(s, a + j + 1) = Depth(s, a) + Depth(t, j + 1)
    OBVIOUS
  <2>1. Depth(s, a + j + 1) = Depth(s, a + j) + Weight(s[a + j + 1])
    BY DepthStep
  <2>2. Depth(t, j + 1) = Depth(t, j) + Weight(t[j + 1])
    BY DepthStep
  <2>3. Depth(s, a) \in Int /\ Depth(t, j) \in Int /\ Weight(t[j + 1]) \in Int
    BY DepthStep DEF Weight
  <2>4. Depth(s, a + j) = Depth(s, a) + Depth(t, j) /\ s[a + j + 1] = t[j + 1]
    BY <1>2 DEF GoesOn
  <2> QED
    BY <2>1, <2>2, <2>3, <2>4
<1> HIDE DEF P
<1>3. Nat \subseteq P
  BY <1>1, <1>2, Induction
<1> QED
  BY <1>3 DEF P
-----------------------------------------------------------------------------
(* Building texts *)

LEMMA AppendedType ==
  ASSUME NEW S, NEW s \in Seq(S), NEW e \in S
  PROVE  /\ s \o <<e>> = Append(s, e)
         /\ Append(s, e) \in Seq(S) /\ Len(Append(s, e)) = Len(s) + 1
         /\ \A i \in 1..Len(s) : Append(s, e)[i] = s[i]
         /\ Append(s, e)[Len(s) + 1] = e
  OBVIOUS

\* Something between a head and a closing brace.
LEMMA Enclosed ==
  ASSUME NEW S, NEW h \in Seq(S), NEW v \in Seq(S), NEW e \in S,
         NEW text, text = h \o v \o <<e>>
  PROVE  /\ text \in Seq(S)
         /\ Len(text) = Len(h) + Len(v) + 1
         /\ \A i \in 1..Len(h) : text[i] = h[i]
         /\ \A j \in 1..Len(v) : text[Len(h) + j] = v[j]
         /\ text[Len(text)] = e
<1> DEFINE b == h \o v
<1>1. /\ b \in Seq(S) /\ Len(b) = Len(h) + Len(v)
      /\ \A i \in 1..Len(h) + Len(v) : b[i] = IF i <= Len(h) THEN h[i] ELSE v[i - Len(h)]
  BY ConcatProperties
<1>2. Len(h) \in Nat /\ Len(v) \in Nat
  OBVIOUS
<1>3. \A j \in 1..Len(v) : b[Len(h) + j] = v[j]
  BY <1>1, <1>2
<1> HIDE DEF b
<1> DEFINE c == Append(b, e)
<1>4. /\ c \in Seq(S) /\ Len(c) = Len(b) + 1
      /\ \A i \in 1..Len(b) : c[i] = b[i]
      /\ c[Len(b) + 1] = e
      /\ b \o <<e>> = c
  BY <1>1, AppendedType
<1> HIDE DEF c
<1>6. /\ c \in Seq(S)
      /\ Len(c) = Len(h) + Len(v) + 1
      /\ \A i \in 1..Len(h) : c[i] = h[i]
      /\ \A j \in 1..Len(v) : c[Len(h) + j] = v[j]
      /\ c[Len(c)] = e
  <2>1. \A i \in 1..Len(h) : i \in 1..Len(b) /\ b[i] = h[i]
    BY <1>1, <1>2
  <2>2. \A j \in 1..Len(v) : Len(h) + j \in 1..Len(b)
    BY <1>1, <1>2
  <2> QED
    BY <1>1, <1>2, <1>3, <1>4, <2>1, <2>2
<1> QED
  BY <1>4, <1>6 DEF b

LEMMA TokensWritten ==
  /\ "lbrace" \in Tokens /\ "rbrace" \in Tokens /\ "lbracket" \in Tokens /\ "rbracket" \in Tokens
  /\ "colon" \in Tokens /\ "comma" \in Tokens /\ Atoms \subseteq Tokens
  /\ Literals \subseteq Strings /\ Strings \subseteq Tokens
  BY ConstantsAssumption DEF Tokens, Punctuation, Opening, Closing

LEMMA LiteralsAre ==
  /\ {"tools", "resources", "prompts"} \subseteq Literals
  /\ {"tools/list", "resources/list", "prompts/list"} \subseteq Literals
  /\ {"jsonrpc", "2.0", "id", "method", "params", "initialize", "result", "error",
      "code", "message", "method_not_found", "protocolVersion", "2025-03-26",
      "serverInfo", "name", "server", "uri", "description"} \subseteq Literals
  BY DEF Literals, Listed, Lists, Kinds

ResponseHead(id, key) ==
  <<"lbrace", "jsonrpc", "colon", "2.0", "comma", "id", "colon">> \o <<id>>
  \o <<"comma", key, "colon">>

LEMMA HeadIs ==
  ASSUME NEW id \in Tokens, NEW key \in Tokens
  PROVE  LET h == ResponseHead(id, key)
         IN /\ h \in Seq(Tokens) /\ Len(h) = 11
            /\ h[1] = "lbrace" /\ h[2] = "jsonrpc" /\ h[3] = "colon" /\ h[4] = "2.0"
            /\ h[5] = "comma" /\ h[6] = "id" /\ h[7] = "colon" /\ h[8] = id
            /\ h[9] = "comma" /\ h[10] = key /\ h[11] = "colon"
<1>1. "jsonrpc" \in Tokens /\ "2.0" \in Tokens /\ "id" \in Tokens
  BY TokensWritten, LiteralsAre
<1>2. <<"lbrace", "jsonrpc", "colon", "2.0", "comma", "id", "colon">> \in Seq(Tokens)
  BY <1>1, TokensWritten
<1>3. <<id>> \in Seq(Tokens) /\ <<"comma", key, "colon">> \in Seq(Tokens)
  BY TokensWritten
<1>4. ResponseHead(id, key) \in Seq(Tokens) /\ Len(ResponseHead(id, key)) = 11
  BY <1>2, <1>3 DEF ResponseHead
<1>5. /\ ResponseHead(id, key)[1] = "lbrace" /\ ResponseHead(id, key)[2] = "jsonrpc"
      /\ ResponseHead(id, key)[3] = "colon" /\ ResponseHead(id, key)[4] = "2.0"
  BY DEF ResponseHead
<1>6. /\ ResponseHead(id, key)[5] = "comma" /\ ResponseHead(id, key)[6] = "id"
      /\ ResponseHead(id, key)[7] = "colon" /\ ResponseHead(id, key)[8] = id
  BY DEF ResponseHead
<1>7. /\ ResponseHead(id, key)[9] = "comma" /\ ResponseHead(id, key)[10] = key
      /\ ResponseHead(id, key)[11] = "colon"
  BY DEF ResponseHead
<1> QED
  BY <1>4, <1>5, <1>6, <1>7
-----------------------------------------------------------------------------
(* Answers are well formed *)

LEMMA DepthLevel ==
  ASSUME NEW text, NEW a \in Nat, NEW b \in Nat, \A i \in a + 1..b : Weight(text[i]) = 0
  PROVE  \A i \in a..b : Depth(text, i) = Depth(text, a)
<1> DEFINE P == {j \in Nat : a + j <= b => Depth(text, a + j) = Depth(text, a)}
<1>1. 0 \in P
  OBVIOUS
<1>2. ASSUME NEW j \in Nat, j \in P
      PROVE  j + 1 \in P
  <2> SUFFICES ASSUME a + j + 1 <= b
               PROVE  Depth(text, a + j + 1) = Depth(text, a)
    OBVIOUS
  <2>1. /\ Depth(text, a + j + 1) = Depth(text, a + j) + Weight(text[a + j + 1])
        /\ Depth(text, a + j) \in Int
    BY DepthStep
  <2>2. Depth(text, a + j) = Depth(text, a) /\ Weight(text[a + j + 1]) = 0
    BY <1>2
  <2> QED
    BY <2>1, <2>2
<1> HIDE DEF P
<1>3. Nat \subseteq P
  BY <1>1, <1>2, Induction
<1>4. \A i \in a..b : i - a \in P /\ a + (i - a) = i /\ i <= b
  BY <1>3
<1> QED
  BY <1>4 DEF P

Ends(text, j) ==
  \/ text[j + 1] = "comma" /\ Depth(text, j + 1) = 1
  \/ text[j + 1] = "rbrace" /\ Depth(text, j + 1) = 0

\* The member of the key at position k ends at position e.
MemberAt(text, key, k, e) ==
  /\ Len(text) \in Nat /\ k \in 2..Len(text) - 2 /\ e \in k + 2..Len(text) - 1
  /\ text[k] = key /\ text[k + 1] = "colon" /\ Depth(text, k) = 1
  /\ \A i \in 2..k - 1 : text[i] # key
  /\ Ends(text, e) /\ \A j \in k + 2..e - 1 : ~ Ends(text, j)

LEMMA MemberIs ==
  ASSUME NEW text, NEW key, NEW k \in Nat, NEW e \in Nat, MemberAt(text, key, k, e)
  PROVE  Member(text, key) = SubSeq(text, k + 2, e)
<1> USE DEF MemberAt
<1> DEFINE keys == {i \in 2..(Len(text) - 2) : /\ text[i] = key
                                               /\ text[i + 1] = "colon"
                                               /\ Depth(text, i) = 1}
           ends(i) == {j \in i..(Len(text) - 1) :
                         \/ text[j + 1] = "comma" /\ Depth(text, j + 1) = 1
                         \/ text[j + 1] = "rbrace" /\ Depth(text, j + 1) = 0}
<1>1. keys \in SUBSET Nat /\ k \in keys
  OBVIOUS
<1>2. \A i \in keys : k <= i
  OBVIOUS
<1>3. Min(keys) = k
  BY <1>1, <1>2, MinIs
<1>4. ends(k + 2) \in SUBSET Nat /\ e \in ends(k + 2)
  BY DEF Ends
<1>5. \A j \in ends(k + 2) : e <= j
  BY DEF Ends
<1>6. Min(ends(k + 2)) = e
  BY <1>4, <1>5, MinIs
<1>7. Member(text, key) =
        IF keys = {} THEN Absent ELSE SubSeq(text, Min(keys) + 2, Min(ends(Min(keys) + 2)))
  BY DEF Member
<1> HIDE DEF keys, ends
<1> QED
  BY <1>1, <1>3, <1>6, <1>7

LEMMA NoMember ==
  ASSUME NEW text, NEW key,
         \A i \in 2..Len(text) - 2 : text[i] # key \/ Depth(text, i) # 1
  PROVE  Member(text, key) = Absent
  BY DEF Member

\* The text of an object.
IsValue(v) ==
  /\ v \in Seq(Tokens) /\ Len(v) > 0 /\ v[Len(v)] = "rbrace"
  /\ Depth(v, Len(v)) = 0
  /\ \A i \in 1..Len(v) - 1 : Depth(v, i) > 0

LEMMA TokenWeights ==
  /\ Weight("lbrace") = 1 /\ Weight("lbracket") = 1
  /\ Weight("rbrace") = -1 /\ Weight("rbracket") = -1
  /\ Weight("colon") = 0 /\ Weight("comma") = 0
  /\ \A token \in Atoms \cup Strings : Weight(token) = 0
  BY ConstantsAssumption DEF Weight, Opening, Closing, Punctuation

LEMMA Distinct ==
  /\ \A a \in Atoms : a \notin Strings /\ a \notin Punctuation
  /\ \A s \in Strings : s \notin Atoms /\ s \notin Punctuation
  BY ConstantsAssumption

\* Where everything is in a response.
LEMMA ResponseIs ==
  ASSUME NEW id \in Atoms, NEW key \in {"result", "error"}, NEW v, IsValue(v)
  PROVE  LET text == Response(<<id>>, key, v)
         IN /\ text \in Seq(Tokens) /\ Len(text) = Len(v) + 12
            /\ text[1] = "lbrace" /\ text[2] = "jsonrpc" /\ text[3] = "colon" /\ text[4] = "2.0"
            /\ text[5] = "comma" /\ text[6] = "id" /\ text[7] = "colon" /\ text[8] = id
            /\ text[9] = "comma" /\ text[10] = key /\ text[11] = "colon"
            /\ \A j \in 1..Len(v) : text[11 + j] = v[j]
            /\ text[Len(v) + 12] = "rbrace"
<1> DEFINE h == ResponseHead(id, key)
           text == Response(<<id>>, key, v)
<1>1. id \in Tokens /\ key \in Tokens /\ v \in Seq(Tokens) /\ Len(v) \in Nat
  BY TokensWritten, LiteralsAre DEF IsValue
<1>2. /\ h \in Seq(Tokens) /\ Len(h) = 11
      /\ h[1] = "lbrace" /\ h[2] = "jsonrpc" /\ h[3] = "colon" /\ h[4] = "2.0"
      /\ h[5] = "comma" /\ h[6] = "id" /\ h[7] = "colon" /\ h[8] = id
      /\ h[9] = "comma" /\ h[10] = key /\ h[11] = "colon"
  BY <1>1, HeadIs
<1>3. text = h \o v \o <<"rbrace">>
  BY DEF Response, ResponseHead
<1> HIDE DEF h, text
<1>4. /\ text \in Seq(Tokens)
      /\ Len(text) = Len(h) + Len(v) + 1
      /\ \A i \in 1..Len(h) : text[i] = h[i]
      /\ \A j \in 1..Len(v) : text[Len(h) + j] = v[j]
      /\ text[Len(text)] = "rbrace"
  <2>1. "rbrace" \in Tokens
    BY TokensWritten
  <2>2. h \in Seq(Tokens) /\ v \in Seq(Tokens)
    BY <1>1, <1>2
  <2> QED
    BY <1>3, <2>1, <2>2, Enclosed
<1>5. Len(text) = Len(v) + 12
  BY <1>1, <1>2, <1>4
<1>6. \A i \in 1..11 : text[i] = h[i]
  BY <1>2, <1>4
<1>7. /\ text[1] = h[1] /\ text[2] = h[2] /\ text[3] = h[3] /\ text[4] = h[4]
      /\ text[5] = h[5] /\ text[6] = h[6] /\ text[7] = h[7] /\ text[8] = h[8]
      /\ text[9] = h[9] /\ text[10] = h[10] /\ text[11] = h[11]
  BY <1>6
<1>8. /\ \A j \in 1..Len(v) : text[11 + j] = v[j]
      /\ text[Len(v) + 12] = "rbrace"
  BY <1>2, <1>4, <1>5
<1> HIDE DEF h
<1>9. /\ text[1] = "lbrace" /\ text[2] = "jsonrpc" /\ text[3] = "colon" /\ text[4] = "2.0"
      /\ text[5] = "comma" /\ text[6] = "id" /\ text[7] = "colon" /\ text[8] = id
      /\ text[9] = "comma" /\ text[10] = key /\ text[11] = "colon"
  BY <1>2, <1>7
<1> QED
  BY <1>4, <1>5, <1>8, <1>9 DEF text

LEMMA ResponseDepth ==
  ASSUME NEW id \in Atoms, NEW key \in {"result", "error"}, NEW v, IsValue(v)
  PROVE  LET text == Response(<<id>>, key, v)
         IN /\ \A i \in 1..11 : Depth(text, i) = 1
            /\ \A j \in 0..Len(v) : Depth(text, 11 + j) = 1 + Depth(v, j)
            /\ Depth(text, Len(v) + 12) = 0
<1> DEFINE text == Response(<<id>>, key, v)
<1>1. /\ text \in Seq(Tokens) /\ Len(text) = Len(v) + 12
      /\ text[1] = "lbrace" /\ text[2] = "jsonrpc" /\ text[3] = "colon" /\ text[4] = "2.0"
      /\ text[5] = "comma" /\ text[6] = "id" /\ text[7] = "colon" /\ text[8] = id
      /\ text[9] = "comma" /\ text[10] = key /\ text[11] = "colon"
      /\ \A j \in 1..Len(v) : text[11 + j] = v[j]
      /\ text[Len(v) + 12] = "rbrace"
  BY ResponseIs
<1>2. {"jsonrpc", "2.0", "id", "result", "error"} \subseteq Strings
  BY TokensWritten, LiteralsAre
<1>3. Len(v) \in Nat /\ Depth(v, Len(v)) = 0
  BY DEF IsValue
<1> HIDE DEF text
<1>4. Depth(text, 1) = 1
  <2>1. Depth(text, 0 + 1) = Depth(text, 0) + Weight(text[0 + 1]) /\ Depth(text, 0) = 0
    BY DepthStep
  <2> QED
    BY <2>1, <1>1, TokenWeights
<1>5. \A i \in 1 + 1..11 : Weight(text[i]) = 0
  <2>1. \A i \in 2..11 : text[i] \in Strings \cup Atoms \cup {"colon", "comma"}
    <3>1. ASSUME NEW i \in 2..11
          PROVE  i \in {2, 3, 4, 5, 6, 7, 8, 9, 10, 11}
      OBVIOUS
    <3> QED
      BY <1>1, <1>2, <3>1
  <2> QED
    BY <2>1, TokenWeights
<1>6. \A i \in 1..11 : Depth(text, i) = 1
  BY <1>4, <1>5, DepthLevel
<1>7. \A j \in 0..Len(v) : Depth(text, 11 + j) = 1 + Depth(v, j)
  <2>1. \A j \in 1..Len(v) : text[11 + j] = v[j]
    BY <1>1
  <2>2. GoesOn(text, 11, v, Len(v))
    BY <2>1 DEF GoesOn
  <2>3. \A j \in 0..Len(v) : Depth(text, 11 + j) = Depth(text, 11) + Depth(v, j)
    BY <1>3, <2>2, DepthShift
  <2>4. Depth(text, 11) = 1
    BY <1>6
  <2> QED
    BY <2>3, <2>4
<1>8. Depth(text, Len(v) + 12) = 0
  <2>1. Depth(text, 11 + Len(v) + 1) = Depth(text, 11 + Len(v)) + Weight(text[11 + Len(v) + 1])
    BY <1>3, DepthStep
  <2>2. Depth(text, 11 + Len(v)) = 1
    BY <1>3, <1>7
  <2>3. 11 + Len(v) + 1 = Len(v) + 12 /\ text[11 + Len(v) + 1] = "rbrace"
    BY <1>1, <1>3
  <2> QED
    BY <2>1, <2>2, <2>3, TokenWeights
<1> QED
  BY <1>6, <1>7, <1>8 DEF text
LEMMA One ==
  ASSUME NEW S, NEW s \in Seq(S), NEW i \in 1..Len(s)
  PROVE  SubSeq(s, i, i) = <<s[i]>>
<1>1. Len(s) \in Nat
  OBVIOUS
<1>2. /\ SubSeq(s, i, i) \in Seq(S) /\ Len(SubSeq(s, i, i)) = 1
      /\ SubSeq(s, i, i)[1] = s[i]
  BY <1>1, SubSeqProperties
<1>3. <<s[i]>> \in Seq(S) /\ Len(<<s[i]>>) = 1 /\ <<s[i]>>[1] = s[i]
  BY <1>1
<1>4. \A j \in 1..1 : j = 1
  OBVIOUS
<1> QED
  BY <1>2, <1>3, <1>4, SeqEqual

LEMMA Part ==
  ASSUME NEW S, NEW s \in Seq(S), NEW t \in Seq(S), NEW a \in Nat, a + Len(t) <= Len(s),
         \A j \in 1..Len(t) : s[a + j] = t[j]
  PROVE  SubSeq(s, a + 1, a + Len(t)) = t
<1>1. Len(s) \in Nat /\ Len(t) \in Nat
  OBVIOUS
<1>2. SubSeq(s, a + 1, a + Len(t)) \in Seq(S) /\ Len(SubSeq(s, a + 1, a + Len(t))) = Len(t)
  BY <1>1, SubSeqProperties
<1>3. \A j \in 1..Len(t) : SubSeq(s, a + 1, a + Len(t))[j] = t[j]
  BY <1>1, SubSeqProperties
<1> QED
  BY <1>2, <1>3, SeqEqual

\* A response says what it was built from.
LEMMA Answered ==
  ASSUME NEW id \in Atoms, NEW key \in {"result", "error"}, NEW v, IsValue(v)
  PROVE  LET text == Response(<<id>>, key, v)
         IN /\ Member(text, "id") = <<id>>
            /\ Member(text, key) = v
            /\ \A other \in {"result", "error"} \ {key} : Member(text, other) = Absent
            /\ text[1] = "lbrace" /\ Depth(text, Len(text)) = 0
<1> DEFINE text == Response(<<id>>, key, v)
<1>1. /\ text \in Seq(Tokens) /\ Len(text) = Len(v) + 12
      /\ text[1] = "lbrace" /\ text[2] = "jsonrpc" /\ text[3] = "colon" /\ text[4] = "2.0"
      /\ text[5] = "comma" /\ text[6] = "id" /\ text[7] = "colon" /\ text[8] = id
      /\ text[9] = "comma" /\ text[10] = key /\ text[11] = "colon"
      /\ \A j \in 1..Len(v) : text[11 + j] = v[j]
      /\ text[Len(v) + 12] = "rbrace"
  BY ResponseIs
<1>2. /\ \A i \in 1..11 : Depth(text, i) = 1
      /\ \A j \in 0..Len(v) : Depth(text, 11 + j) = 1 + Depth(v, j)
      /\ Depth(text, Len(v) + 12) = 0
  BY ResponseDepth
<1>3. Len(v) \in Nat /\ Len(v) > 0 /\ v \in Seq(Tokens)
  BY DEF IsValue
<1>4. \A s \in {"jsonrpc", "2.0", "id", "result", "error"} : id # s
  BY TokensWritten, LiteralsAre, Distinct
<1>5. \A j \in 1..Len(v) - 1 : Depth(v, j) > 0 /\ Depth(v, j) \in Int
  <2> SUFFICES ASSUME NEW j \in 1..Len(v) - 1
               PROVE  Depth(v, j) > 0 /\ Depth(v, j) \in Int
    OBVIOUS
  <2>1. j \in Nat
    BY <1>3
  <2> QED
    BY <2>1, DepthStep DEF IsValue
<1> HIDE DEF text
<1>6. Member(text, "id") = <<id>>
  <2>1. \A i \in 2..6 - 1 : text[i] # "id"
    <3>1. \A i \in 2..5 : i \in {2, 3, 4, 5}
      OBVIOUS
    <3> QED
      BY <1>1, <3>1
  <2>2. Ends(text, 8)
    BY <1>1, <1>2 DEF Ends
  <2>3. MemberAt(text, "id", 6, 8)
    <3>1. Len(text) \in Nat /\ 6 \in 2..Len(text) - 2 /\ 8 \in 6 + 2..Len(text) - 1 /\ Depth(text, 6) = 1
      BY <1>1, <1>2, <1>3
    <3>2. \A j \in 6 + 2..8 - 1 : ~ Ends(text, j)
      OBVIOUS
    <3> QED
      BY <1>1, <2>1, <2>2, <3>1, <3>2 DEF MemberAt
  <2>5. Member(text, "id") = SubSeq(text, 6 + 2, 8)
    BY <2>3, MemberIs
  <2>4. SubSeq(text, 8, 8) = <<text[8]>>
    BY <1>1, <1>3, One
  <2> QED
    BY <1>1, <2>4, <2>5
<1>7. Member(text, key) = v
  <2> DEFINE e == 11 + Len(v)
  <2>1. \A i \in 2..10 - 1 : text[i] # key
    <3>1. \A i \in 2..9 : i \in {2, 3, 4, 5, 6, 7, 8, 9}
      OBVIOUS
    <3> QED
      BY <1>1, <1>4, <3>1
  <2>2. Ends(text, e)
    <3>1. e + 1 = Len(v) + 12
      BY <1>3
    <3> QED
      BY <1>1, <1>2, <3>1 DEF Ends
  <2>3. ASSUME NEW j \in 10 + 2..e - 1
        PROVE  ~ Ends(text, j)
    <3>1. PICK n \in 2..Len(v) : j + 1 = 11 + n
      <4>1. (j - 10) \in 2..Len(v) /\ j + 1 = 11 + (j - 10)
        BY <1>3
      <4> QED
        BY <4>1
    <3>2. Depth(text, j + 1) = 1 + Depth(v, n) /\ text[j + 1] = v[n]
      BY <1>1, <1>2, <3>1
    <3>3. CASE n = Len(v)
      BY <3>2, <3>3 DEF Ends, IsValue
    <3>4. CASE n # Len(v)
      <4>1. Depth(v, n) > 0 /\ Depth(v, n) \in Int
        BY <1>3, <1>5, <3>4
      <4> QED
        BY <3>2, <4>1 DEF Ends
    <3> QED
      BY <3>3, <3>4
  <2>4. MemberAt(text, key, 10, e)
    <3>1. /\ Len(text) \in Nat /\ 10 \in 2..Len(text) - 2
          /\ e \in 10 + 2..Len(text) - 1 /\ Depth(text, 10) = 1
      BY <1>1, <1>2, <1>3
    <3> HIDE DEF e
    <3> QED
      BY <1>1, <2>1, <2>2, <2>3, <3>1 DEF MemberAt
  <2>6. Member(text, key) = SubSeq(text, 10 + 2, e)
    <3>1. e \in Nat
      BY <1>3
    <3> HIDE DEF e
    <3> QED
      BY <2>4, <3>1, MemberIs
  <2>5. SubSeq(text, 11 + 1, 11 + Len(v)) = v
    BY <1>1, <1>3, Part
  <2> QED
    BY <2>5, <2>6
<1>8. ASSUME NEW other \in {"result", "error"} \ {key}
      PROVE  Member(text, other) = Absent
  <2>1. ASSUME NEW i \in 2..Len(text) - 2
        PROVE  text[i] # other \/ Depth(text, i) # 1
    <3>1. CASE i <= 11
      <4>1. i \in {2, 3, 4, 5, 6, 7, 8, 9, 10, 11}
        BY <3>1
      <4>2. text[i] \in {"jsonrpc", "colon", "2.0", "comma", "id"} \/ text[i] = id \/ text[i] = key
        BY <1>1, <4>1
      <4>3. other \in {"result", "error"} /\ other # key /\ other # id
        BY <1>4
      <4> QED
        BY <4>2, <4>3
    <3>2. CASE i > 11
      <4>1. (i - 11) \in 1..Len(v) - 1 /\ i = 11 + (i - 11)
        BY <1>1, <1>3, <3>2
      <4>2. PICK n \in 1..Len(v) - 1 : i = 11 + n
        BY <4>1
      <4>3. Depth(text, i) = 1 + Depth(v, n)
        BY <1>2, <1>3, <4>2
      <4> QED
        BY <1>5, <4>2, <4>3
    <3> QED
      BY <3>1, <3>2
  <2> QED
    BY <2>1, NoMember
<1>9. Depth(text, Len(text)) = 0
  BY <1>1, <1>2
<1> QED
  BY <1>1, <1>6, <1>7, <1>8, <1>9 DEF text
-----------------------------------------------------------------------------
(* Values *)

\* What is opened in the text is closed in it, and nothing else is.
Level(text) ==
  /\ text \in Seq(Tokens)
  /\ Depth(text, Len(text)) = 0
  /\ \A i \in 0..Len(text) : Depth(text, i) >= 0

LEMMA LevelEmpty == Level(<<>>)
<1>1. <<>> \in Seq(Tokens) /\ Len(<<>>) = 0
  OBVIOUS
<1>2. Depth(<<>>, 0) = 0
  BY DepthStep
<1>3. \A i \in 0..0 : i = 0
  OBVIOUS
<1> QED
  BY <1>1, <1>2, <1>3 DEF Level

LEMMA LevelFlat ==
  ASSUME NEW text \in Seq(Tokens), \A i \in 1..Len(text) : Weight(text[i]) = 0
  PROVE  Level(text)
<1>1. PICK n \in Nat : n = Len(text)
  OBVIOUS
<1>2. \A i \in 0..n : Depth(text, i) = Depth(text, 0)
  <2>1. \A i \in 0 + 1..n : Weight(text[i]) = 0
    BY <1>1
  <2> QED
    BY <2>1, DepthLevel
<1>3. Depth(text, 0) = 0
  BY DepthStep
<1> QED
  BY <1>1, <1>2, <1>3 DEF Level

LEMMA ConcatDepth ==
  ASSUME NEW s \in Seq(Tokens), NEW t \in Seq(Tokens)
  PROVE  /\ s \o t \in Seq(Tokens) /\ Len(s \o t) = Len(s) + Len(t)
         /\ \A i \in 0..Len(s) : Depth(s \o t, i) = Depth(s, i)
         /\ \A j \in 0..Len(t) : Depth(s \o t, Len(s) + j) = Depth(s, Len(s)) + Depth(t, j)
<1> DEFINE text == s \o t
<1>1. /\ text \in Seq(Tokens) /\ Len(text) = Len(s) + Len(t)
      /\ \A i \in 1..Len(s) : text[i] = s[i]
      /\ \A j \in 1..Len(t) : text[Len(s) + j] = t[j]
  <2>1. /\ text \in Seq(Tokens) /\ Len(text) = Len(s) + Len(t)
        /\ \A i \in 1..Len(s) + Len(t) : text[i] = IF i <= Len(s) THEN s[i] ELSE t[i - Len(s)]
    BY ConcatProperties
  <2>2. Len(s) \in Nat /\ Len(t) \in Nat
    OBVIOUS
  <2> HIDE DEF text
  <2>3. \A i \in 1..Len(s) : text[i] = s[i]
    BY <2>1, <2>2
  <2>4. \A j \in 1..Len(t) : text[Len(s) + j] = t[j]
    BY <2>1, <2>2
  <2> QED
    BY <2>1, <2>3, <2>4
<1> HIDE DEF text
<1>2. PICK a \in Nat, n \in Nat : a = Len(s) /\ n = Len(t)
  OBVIOUS
<1>3. \A j \in 0..n : Depth(text, a + j) = Depth(text, a) + Depth(t, j)
  <2>1. GoesOn(text, a, t, n)
    BY <1>1, <1>2 DEF GoesOn
  <2> QED
    BY <2>1, DepthShift
<1>4. \A i \in 0..a : Depth(text, i) = Depth(s, i)
  <2>1. GoesOn(text, 0, s, a)
    BY <1>1, <1>2 DEF GoesOn
  <2>2. \A i \in 0..a : Depth(text, 0 + i) = Depth(text, 0) + Depth(s, i)
    BY <2>1, DepthShift
  <2>3. Depth(text, 0) = 0 /\ \A i \in 0..a : Depth(s, i) \in Int
    BY DepthStep
  <2> QED
    BY <2>2, <2>3
<1> QED
  BY <1>1, <1>2, <1>3, <1>4 DEF text

LEMMA LevelConcat ==
  ASSUME NEW s, NEW t, Level(s), Level(t)
  PROVE  Level(s \o t)
<1>1. s \in Seq(Tokens) /\ t \in Seq(Tokens)
  BY DEF Level
<1>2. /\ s \o t \in Seq(Tokens) /\ Len(s \o t) = Len(s) + Len(t)
      /\ \A i \in 0..Len(s) : Depth(s \o t, i) = Depth(s, i)
      /\ \A j \in 0..Len(t) : Depth(s \o t, Len(s) + j) = Depth(s, Len(s)) + Depth(t, j)
  BY <1>1, ConcatDepth
<1>3. Len(s) \in Nat /\ Len(t) \in Nat
  BY <1>1
<1>4. Depth(s, Len(s)) = 0 /\ Depth(t, Len(t)) = 0
  BY DEF Level
<1>5. Depth(s \o t, Len(s \o t)) = 0
  BY <1>2, <1>3, <1>4
<1>6. ASSUME NEW i \in 0..Len(s \o t)
      PROVE  Depth(s \o t, i) >= 0
  <2>1. CASE i <= Len(s)
    <3>1. i \in 0..Len(s)
      BY <2>1
    <3> QED
      BY <1>2, <3>1 DEF Level
  <2>2. CASE i > Len(s)
    <3>1. (i - Len(s)) \in 0..Len(t) /\ i = Len(s) + (i - Len(s))
      BY <1>2, <1>3, <2>2
    <3>2. PICK j \in 0..Len(t) : i = Len(s) + j
      BY <3>1
    <3>3. Depth(t, j) \in Int /\ Depth(t, j) >= 0
      BY <3>2, DepthStep DEF Level
    <3> QED
      BY <1>2, <1>4, <3>2, <3>3
  <2> QED
    BY <1>2, <1>3, <2>1, <2>2
<1> QED
  BY <1>2, <1>5, <1>6 DEF Level

\* A text between brackets.
Bracketed(text, n, close) ==
  /\ text \in Seq(Tokens) /\ n \in Nat /\ Len(text) = n + 2 /\ text[n + 2] = close
  /\ Depth(text, n + 2) = 0
  /\ \A i \in 1..n + 1 : Depth(text, i) > 0

LEMMA InBrackets ==
  ASSUME NEW s, Level(s), NEW open \in {"lbrace", "lbracket"}, NEW close \in {"rbrace", "rbracket"}
  PROVE  Bracketed(<<open>> \o s \o <<close>>, Len(s), close)
<1>0. PICK text : text = <<open>> \o s \o <<close>>
  OBVIOUS
<1>1. /\ s \in Seq(Tokens) /\ Len(s) \in Nat /\ Depth(s, Len(s)) = 0
      /\ \A i \in 0..Len(s) : Depth(s, i) >= 0 /\ Depth(s, i) \in Int
  <2>1. s \in Seq(Tokens) /\ Depth(s, Len(s)) = 0 /\ \A i \in 0..Len(s) : Depth(s, i) >= 0
    BY DEF Level
  <2>2. Len(s) \in Nat
    BY <2>1
  <2>3. \A i \in 0..Len(s) : i \in Nat
    BY <2>2
  <2> QED
    BY <2>1, <2>2, <2>3, DepthStep
<1>2. open \in Tokens /\ close \in Tokens /\ <<open>> \in Seq(Tokens) /\ Len(<<open>>) = 1 /\ <<open>>[1] = open
  BY TokensWritten
<1>3. /\ text \in Seq(Tokens) /\ Len(text) = Len(<<open>>) + Len(s) + 1
      /\ \A i \in 1..Len(<<open>>) : text[i] = <<open>>[i]
      /\ \A j \in 1..Len(s) : text[Len(<<open>>) + j] = s[j]
      /\ text[Len(text)] = close
  BY <1>0, <1>1, <1>2, Enclosed
<1>4. /\ Len(text) = Len(s) + 2 /\ text[1] = open
      /\ \A j \in 1..Len(s) : text[1 + j] = s[j]
      /\ text[Len(s) + 2] = close
  BY <1>1, <1>2, <1>3
<1>5. Depth(text, 1) = 1
  <2>1. Depth(text, 0 + 1) = Depth(text, 0) + Weight(text[0 + 1]) /\ Depth(text, 0) = 0
    BY DepthStep
  <2>2. Weight(open) = 1 /\ text[0 + 1] = open
    BY <1>4, TokenWeights
  <2> QED
    BY <2>1, <2>2
<1>6. \A j \in 0..Len(s) : Depth(text, 1 + j) = 1 + Depth(s, j)
  <2>1. GoesOn(text, 1, s, Len(s))
    BY <1>4 DEF GoesOn
  <2>2. \A j \in 0..Len(s) : Depth(text, 1 + j) = Depth(text, 1) + Depth(s, j)
    BY <1>1, <2>1, DepthShift
  <2> QED
    BY <1>5, <2>2
<1>7. \A i \in 1..Len(s) + 1 : Depth(text, i) > 0
  <2> SUFFICES ASSUME NEW i \in 1..Len(s) + 1
               PROVE  Depth(text, i) > 0
    OBVIOUS
  <2>1. (i - 1) \in 0..Len(s) /\ i = 1 + (i - 1)
    BY <1>1
  <2>2. PICK j \in 0..Len(s) : i = 1 + j
    BY <2>1
  <2>3. Depth(text, i) = 1 + Depth(s, j) /\ Depth(s, j) >= 0 /\ Depth(s, j) \in Int
    BY <1>1, <1>6, <2>2
  <2> QED
    BY <2>3
<1>8. Depth(text, Len(s) + 2) = 0
  <2>1. Depth(text, 1 + Len(s) + 1) = Depth(text, 1 + Len(s)) + Weight(text[1 + Len(s) + 1])
    <3>1. 1 + Len(s) \in Nat
      BY <1>1
    <3> QED
      BY <3>1, DepthStep
  <2>2. Len(s) \in 0..Len(s) /\ Depth(s, Len(s)) = 0
    BY <1>1
  <2>3. Depth(text, 1 + Len(s)) = 1
    BY <1>6, <2>2
  <2>4. 1 + Len(s) + 1 = Len(s) + 2 /\ Weight(close) = -1
    BY <1>1, TokenWeights
  <2> QED
    BY <1>4, <2>1, <2>3, <2>4
<1> QED
  BY <1>0, <1>1, <1>3, <1>4, <1>7, <1>8 DEF Bracketed

LEMMA LevelBrackets ==
  ASSUME NEW s, Level(s), NEW open \in {"lbrace", "lbracket"}, NEW close \in {"rbrace", "rbracket"}
  PROVE  Level(<<open>> \o s \o <<close>>)
<1>1. PICK text : text = <<open>> \o s \o <<close>>
  OBVIOUS
<1>2. /\ text \in Seq(Tokens) /\ Len(text) = Len(s) + 2
      /\ Depth(text, Len(s) + 2) = 0 /\ Len(s) \in Nat
      /\ \A i \in 1..Len(s) + 1 : Depth(text, i) > 0
  BY <1>1, InBrackets DEF Bracketed
<1>3. ASSUME NEW i \in 0..Len(text)
      PROVE  Depth(text, i) >= 0
  <2>1. Depth(text, 0) = 0 /\ Depth(text, i) \in Int
    BY DepthStep
  <2>2. i = 0 \/ i = Len(s) + 2 \/ i \in 1..Len(s) + 1
    BY <1>2
  <2> QED
    BY <1>2, <2>1, <2>2
<1> QED
  BY <1>1, <1>2, <1>3 DEF Level

LEMMA ValueOf ==
  ASSUME NEW s, Level(s)
  PROVE  IsValue(<<"lbrace">> \o s \o <<"rbrace">>)
<1>1. PICK text : text = <<"lbrace">> \o s \o <<"rbrace">>
  OBVIOUS
<1>2. /\ text \in Seq(Tokens) /\ Len(text) = Len(s) + 2 /\ text[Len(s) + 2] = "rbrace"
      /\ Depth(text, Len(s) + 2) = 0 /\ Len(s) \in Nat
      /\ \A i \in 1..Len(s) + 1 : Depth(text, i) > 0
  BY <1>1, InBrackets DEF Bracketed
<1>3. Len(text) - 1 = Len(s) + 1 /\ Len(text) > 0
  BY <1>2
<1> QED
  BY <1>1, <1>2, <1>3 DEF IsValue

LEMMA LevelFlatten ==
  ASSUME NEW s, Len(s) \in Nat, Len(s) = 0 => s = <<>>, \A i \in 1..Len(s) : Level(s[i])
  PROVE  Level(FlattenSeq(s))
<1> DEFINE Step(g, i) == IF i = 1 THEN s[i] ELSE g[i - 1] \o s[i]
           P == {n \in Nat : \E g : g = [i \in 1..n |-> Step(g, i)]}
<1>1. 0 \in P
  <2> DEFINE g == [i \in {} |-> {}]
  <2>1. g = [i \in 1..0 |-> Step(g, i)]
    OBVIOUS
  <2> QED
    BY <2>1
<1>2. ASSUME NEW n \in Nat, n \in P
      PROVE  n + 1 \in P
  <2>1. PICK g : g = [i \in 1..n |-> Step(g, i)]
    BY <1>2
  <2> DEFINE h == [i \in 1..n + 1 |-> IF i <= n THEN g[i] ELSE Step(g, i)]
  <2>2. ASSUME NEW i \in 1..n + 1
        PROVE  h[i] = Step(h, i)
    <3>1. CASE i = 1
      BY <2>1, <3>1
    <3>2. CASE i # 1
      <4>1. i - 1 \in 1..n /\ i - 1 \in 1..n + 1 /\ i - 1 <= n
        BY <3>2
      <4>2. h[i - 1] = g[i - 1]
        BY <4>1
      <4>3. Step(h, i) = g[i - 1] \o s[i] /\ Step(g, i) = g[i - 1] \o s[i]
        BY <3>2, <4>2
      <4>4. i <= n => g[i] = Step(g, i)
        <5> HIDE DEF Step
        <5> QED
          BY <2>1
      <4>5. h[i] = IF i <= n THEN g[i] ELSE Step(g, i)
        OBVIOUS
      <4> HIDE DEF h, Step
      <4> QED
        BY <4>3, <4>4, <4>5
    <3> QED
      BY <3>1, <3>2
  <2>3. h = [i \in 1..n + 1 |-> h[i]]
    OBVIOUS
  <2>4. h = [i \in 1..n + 1 |-> Step(h, i)]
    BY <2>2, <2>3
  <2> HIDE DEF h, Step
  <2>5. \E f : f = [i \in 1..n + 1 |-> Step(f, i)]
    BY <2>4
  <2> QED
    BY <2>5
<1> HIDE DEF P
<1>3. Len(s) \in P
  BY <1>1, <1>2, Induction
<1>4. PICK g : g = [i \in 1..Len(s) |-> Step(g, i)]
  BY <1>3 DEF P
<1>5. CASE Len(s) = 0
  BY <1>5, LevelEmpty DEF FlattenSeq
<1>6. CASE Len(s) # 0
  <2>1. PICK f : f = [i \in 1..Len(s) |-> Step(f, i)] /\ FlattenSeq(s) = f[Len(s)]
    BY <1>4, <1>6 DEF FlattenSeq
  <2>2. \A i \in 1..Len(s) : f[i] = Step(f, i)
    BY <2>1
  <2> DEFINE Q == {n \in Nat : n + 1 <= Len(s) => Level(f[n + 1])}
  <2>3. 0 \in Q
    BY <1>6, <2>2
  <2>4. ASSUME NEW n \in Nat, n \in Q
        PROVE  n + 1 \in Q
    <3> SUFFICES ASSUME n + 2 <= Len(s)
                 PROVE  Level(f[n + 2])
      OBVIOUS
    <3>1. n + 2 \in 1..Len(s) /\ n + 2 # 1 /\ (n + 2) - 1 = n + 1
      OBVIOUS
    <3>2. f[n + 2] = f[n + 1] \o s[n + 2]
      BY <2>2, <3>1
    <3>3. Level(s[n + 2])
      BY <3>1
    <3>4. Level(f[n + 1])
      BY <2>4
    <3> QED
      BY <3>2, <3>3, <3>4, LevelConcat
  <2> HIDE DEF Q
  <2>5. Nat \subseteq Q
    BY <2>3, <2>4, Induction
  <2>6. Len(s) - 1 \in Q /\ (Len(s) - 1) + 1 = Len(s)
    BY <1>6, <2>5
  <2>7. Level(f[Len(s)])
    BY <2>6 DEF Q
  <2> QED
    BY <2>1, <2>7
<1> QED
  BY <1>5, <1>6
-----------------------------------------------------------------------------
(* What the library answers *)

\* Tokens that are no brackets.
Flat == Atoms \cup Strings \cup {"colon", "comma"}

LEMMA FlatIsLevel ==
  ASSUME NEW text \in Seq(Flat)
  PROVE  Level(text)
<1>1. Flat \subseteq Tokens
  BY TokensWritten DEF Flat, Tokens
<1>2. text \in Seq(Tokens)
  BY <1>1, SeqMonotonic
<1>3. \A i \in 1..Len(text) : Weight(text[i]) = 0
  <2>1. \A i \in 1..Len(text) : text[i] \in Flat
    OBVIOUS
  <2> QED
    BY <2>1, TokenWeights DEF Flat
<1> QED
  BY <1>2, <1>3, LevelFlat

LEMMA FlatTokens ==
  /\ "colon" \in Flat /\ "comma" \in Flat /\ Atoms \subseteq Flat
  /\ Literals \subseteq Flat /\ Names \subseteq Flat /\ Revisions \subseteq Flat
  BY ConstantsAssumption DEF Flat

LEMMA InitializeResultIsValue == IsValue(InitializeResult)
<1> DEFINE name == <<"name", "colon", "server">>
           before == <<"protocolVersion", "colon", "2025-03-26", "comma", "serverInfo", "colon">>
           inner == <<"lbrace">> \o name \o <<"rbrace">>
<1>1. {"name", "colon", "server", "protocolVersion", "2025-03-26", "comma", "serverInfo"} \subseteq Flat
  BY FlatTokens, LiteralsAre
<1>2. name \in Seq(Flat) /\ before \in Seq(Flat)
  BY <1>1
<1>3. InitializeResult = <<"lbrace">> \o (before \o inner) \o <<"rbrace">>
  BY DEF InitializeResult
<1> HIDE DEF name, before
<1>4. Level(name) /\ Level(before)
  BY <1>2, FlatIsLevel
<1>5. Level(inner)
  BY <1>4, LevelBrackets
<1> HIDE DEF inner
<1>6. Level(before \o inner)
  BY <1>4, <1>5, LevelConcat
<1> QED
  BY <1>3, <1>6, ValueOf

ErrorValue(code, explanation) ==
  <<"lbrace", "code", "colon", code, "comma", "message", "colon", explanation, "rbrace">>

LEMMA ErrorIsValue == IsValue(ErrorValue("-32601", "method_not_found"))
<1> DEFINE content == <<"code", "colon", "-32601", "comma", "message", "colon", "method_not_found">>
<1>1. {"code", "colon", "-32601", "comma", "message", "method_not_found"} \subseteq Flat
  BY FlatTokens, LiteralsAre, ConstantsAssumption
<1>2. content \in Seq(Flat)
  BY <1>1
<1>3. ErrorValue("-32601", "method_not_found") = <<"lbrace">> \o content \o <<"rbrace">>
  BY DEF ErrorValue
<1> QED
  BY <1>2, <1>3, FlatIsLevel, ValueOf

LEMMA DescriptorIsLevel ==
  ASSUME NEW kind \in Kinds, NEW entry \in Entry
  PROVE  Level(DescriptorText(kind, entry))
<1> DEFINE key == IF kind = "resources" THEN "uri" ELSE "name"
           content == <<key, "colon", entry.name, "comma", "description", "colon", entry.revision>>
<1>1. entry.name \in Flat /\ entry.revision \in Flat
  BY FlatTokens DEF Entry
<1>2. {"uri", "name", "colon", "comma", "description"} \subseteq Flat
  BY FlatTokens, LiteralsAre
<1>3. key \in Flat
  BY <1>2
<1> HIDE DEF key
<1>4. content \in Seq(Flat)
  BY <1>1, <1>2, <1>3
<1>5. DescriptorText(kind, entry) = <<"lbrace">> \o content \o <<"rbrace">>
  BY DEF DescriptorText, key
<1> HIDE DEF content
<1> QED
  BY <1>4, <1>5, FlatIsLevel, LevelBrackets

LEMMA JoinedIsLevel ==
  ASSUME NEW texts, Len(texts) \in Nat, \A i \in 1..Len(texts) : Level(texts[i])
  PROVE  Level(Joined(texts))
<1> DEFINE pieces == [i \in 1..Len(texts) |-> (IF i = 1 THEN <<>> ELSE <<"comma">>) \o texts[i]]
<1>1. Len(pieces) = Len(texts)
  OBVIOUS
<1>2. Level(<<"comma">>)
  <2>1. <<"comma">> \in Seq(Flat)
    BY FlatTokens
  <2> QED
    BY <2>1, FlatIsLevel
<1>3. ASSUME NEW i \in 1..Len(texts)
      PROVE  Level(pieces[i])
  <2>1. pieces[i] = (IF i = 1 THEN <<>> ELSE <<"comma">>) \o texts[i]
    OBVIOUS
  <2>2. Level(IF i = 1 THEN <<>> ELSE <<"comma">>)
    BY <1>2, LevelEmpty
  <2> HIDE DEF pieces
  <2> QED
    BY <2>1, <2>2, LevelConcat
<1>4. Len(pieces) = 0 => pieces = <<>>
  BY <1>1
<1>5. Joined(texts) = FlattenSeq(pieces)
  BY DEF Joined
<1> HIDE DEF pieces
<1> QED
  BY <1>1, <1>3, <1>4, <1>5, LevelFlatten

LEMMA ListIsValue ==
  ASSUME NEW kind \in Kinds, NEW entries \in Seq(Entry)
  PROVE  IsValue(ListText(kind, entries))
<1> DEFINE texts == [i \in 1..Len(entries) |-> DescriptorText(kind, entries[i])]
           list == Joined(texts)
           inner == <<"lbracket">> \o list \o <<"rbracket">>
           before == <<kind, "colon">>
<1>1. Len(texts) = Len(entries) /\ Len(texts) \in Nat
  OBVIOUS
<1>2. \A i \in 1..Len(texts) : Level(texts[i])
  <2> SUFFICES ASSUME NEW i \in 1..Len(entries)
               PROVE  Level(texts[i])
    BY <1>1
  <2>1. texts[i] = DescriptorText(kind, entries[i]) /\ entries[i] \in Entry
    OBVIOUS
  <2> HIDE DEF texts
  <2> QED
    BY <2>1, DescriptorIsLevel
<1> HIDE DEF texts
<1>3. Level(list)
  BY <1>1, <1>2, JoinedIsLevel
<1>4. list \in Seq(Tokens)
  BY <1>3 DEF Level
<1>5. ListText(kind, entries) = <<"lbrace", kind, "colon", "lbracket">> \o list \o <<"rbracket", "rbrace">>
  BY DEF ListText, texts
<1> HIDE DEF list
<1>6. Level(inner)
  BY <1>3, LevelBrackets
<1>7. before \in Seq(Flat)
  <2>1. kind \in Flat /\ "colon" \in Flat
    BY FlatTokens, LiteralsAre DEF Kinds
  <2> QED
    BY <2>1
<1>8. Level(before)
  BY <1>7, FlatIsLevel
<1>9. Level(before \o inner)
  <2> HIDE DEF before, inner
  <2> QED
    BY <1>6, <1>8, LevelConcat
<1>10. ListText(kind, entries) = <<"lbrace">> \o (before \o inner) \o <<"rbrace">>
  <2>1. {kind, "lbrace", "rbrace", "lbracket", "rbracket", "colon"} \subseteq Tokens
    BY TokensWritten, LiteralsAre DEF Kinds
  <2> QED
    BY <1>4, <1>5, <2>1
<1> HIDE DEF before, inner
<1> QED
  BY <1>9, <1>10, ValueOf
-----------------------------------------------------------------------------
(* Brackets *)

ClosesIn(text, b, e) == {i \in b..e : text[i] \in Closing}

\* From b to e every bracket has its partner, and b and e are partners.
Pairs(text, b, e, f) ==
  /\ e \in ClosesIn(text, b, e) /\ f[e] = b
  /\ \A i \in ClosesIn(text, b, e) :
       f[i] \in b..i - 1 /\ text[f[i]] \in Opening /\ text[i] = Closer(text[f[i]])
  /\ \A i, j \in ClosesIn(text, b, e) : f[i] = f[j] => i = j
  /\ \A x \in b..e : text[x] \in Opening => \E i \in ClosesIn(text, b, e) : f[i] = x

Matched(text, b, e) == b \in Int /\ e \in Int /\ b < e /\ \E f : Pairs(text, b, e, f)

LEMMA NestedMatched ==
  ASSUME NEW text, Len(text) \in Nat, NEW opened \in [Closes(text) -> Opens(text)], Nested(text, opened),
         NEW e \in Closes(text)
  PROVE  Matched(text, opened[e], e)
<1> DEFINE b == opened[e]
<1>1. e \in 1..Len(text) /\ text[e] \in Closing /\ b \in 1..Len(text) /\ b < e
  BY DEF Nested, Closes, Opens
<1>2. ASSUME NEW i \in ClosesIn(text, b, e)
      PROVE  /\ i \in Closes(text) /\ opened[i] \in b..i - 1 /\ text[opened[i]] \in Opening
             /\ text[i] = Closer(text[opened[i]])
  <2>1. i \in Closes(text) /\ i \in b..e
    BY <1>1 DEF Closes, ClosesIn
  <2>2. opened[i] \in Opens(text) /\ opened[i] < i /\ text[i] = Closer(text[opened[i]])
    BY <2>1 DEF Nested
  <2>3. b <= opened[i]
    <3>1. CASE i = e
      BY <1>1, <3>1
    <3>2. CASE i # e
      <4>1. i # b
        BY <1>1, <2>1 DEF Closes, Opens, Opening, Closing
      <4>2. opened[e] < i /\ i < e
        BY <1>1, <2>1, <3>2, <4>1
      <4> QED
        BY <2>1, <2>2, <4>2 DEF Nested, Opens
    <3> QED
      BY <3>1, <3>2
  <2> QED
    BY <1>1, <2>1, <2>2, <2>3 DEF Opens, Closes
<1>3. ASSUME NEW x \in b..e, text[x] \in Opening
      PROVE  \E i \in ClosesIn(text, b, e) : opened[i] = x
  <2>1. x \in Opens(text)
    BY <1>1, <1>3 DEF Opens
  <2>2. PICK i \in Closes(text) : opened[i] = x
    BY <2>1 DEF Nested
  <2>3. i \in 1..Len(text) /\ text[i] \in Closing /\ x < i
    BY <2>2 DEF Nested, Closes
  <2>4. i <= e
    <3>1. CASE x = b
      BY <1>1, <2>2, <2>3, <3>1 DEF Nested
    <3>2. CASE x # b
      <4>1. x # e
        BY <1>1, <1>3 DEF Opening, Closing
      <4>2. opened[i] < e /\ b < opened[i]
        BY <1>1, <2>2, <3>2, <4>1
      <4>3. e < i => opened[i] < opened[e]
        BY <4>2 DEF Nested
      <4> QED
        BY <1>1, <2>2, <2>3, <4>2, <4>3
    <3> QED
      BY <3>1, <3>2
  <2> QED
    BY <1>1, <2>2, <2>3, <2>4 DEF ClosesIn
<1>4. e \in ClosesIn(text, b, e)
  BY <1>1 DEF ClosesIn
<1>5. \A i, j \in ClosesIn(text, b, e) : opened[i] = opened[j] => i = j
  BY <1>2 DEF Nested
<1>6. Pairs(text, b, e, opened)
  BY <1>2, <1>3, <1>4, <1>5 DEF Pairs
<1> QED
  BY <1>1, <1>6 DEF Matched

\* The same brackets at another place.
LEMMA MatchedShift ==
  ASSUME NEW s, NEW text, NEW a \in Int, NEW b \in Int, NEW e \in Int, Matched(s, b, e),
         \A j \in b..e : text[a + j] = s[j]
  PROVE  Matched(text, a + b, a + e)
<1>1. PICK f : Pairs(s, b, e, f)
  BY DEF Matched
<1> DEFINE g == [i \in Int |-> a + f[i - a]]
<1>2. \A i \in ClosesIn(text, a + b, a + e) : i \in Int /\ i - a \in ClosesIn(s, b, e) /\ text[i] = s[i - a]
  <2> SUFFICES ASSUME NEW i \in ClosesIn(text, a + b, a + e)
               PROVE  i \in Int /\ i - a \in ClosesIn(s, b, e) /\ text[i] = s[i - a]
    OBVIOUS
  <2>1. i \in Int /\ i - a \in b..e /\ a + (i - a) = i
    BY DEF ClosesIn
  <2>2. text[a + (i - a)] = s[i - a]
    BY <2>1
  <2> QED
    BY <2>1, <2>2 DEF ClosesIn
<1>3. \A j \in ClosesIn(s, b, e) : a + j \in ClosesIn(text, a + b, a + e)
  BY DEF ClosesIn
<1>4. ASSUME NEW i \in ClosesIn(text, a + b, a + e)
      PROVE  g[i] \in a + b..i - 1 /\ text[g[i]] \in Opening /\ text[i] = Closer(text[g[i]])
  <2>1. PICK j \in ClosesIn(s, b, e) : i = a + j /\ text[i] = s[j] /\ j \in b..e
    <3>1. i - a \in ClosesIn(s, b, e) /\ i = a + (i - a) /\ text[i] = s[i - a]
      BY <1>2
    <3> QED
      BY <3>1 DEF ClosesIn
  <2>2. g[i] = a + f[j]
    BY <2>1
  <2>3. f[j] \in b..j - 1 /\ s[f[j]] \in Opening /\ s[j] = Closer(s[f[j]])
    BY <1>1 DEF Pairs
  <2>4. f[j] \in b..e /\ text[a + f[j]] = s[f[j]]
    BY <2>1, <2>3
  <2> HIDE DEF g
  <2> QED
    BY <2>1, <2>2, <2>3, <2>4
<1>5. ASSUME NEW i \in ClosesIn(text, a + b, a + e), NEW j \in ClosesIn(text, a + b, a + e), g[i] = g[j]
      PROVE  i = j
  <2>1. i - a \in ClosesIn(s, b, e) /\ j - a \in ClosesIn(s, b, e) /\ i \in Int /\ j \in Int
    BY <1>2
  <2>2. f[i - a] \in b..i - a - 1 /\ f[j - a] \in b..j - a - 1
    BY <1>1, <2>1 DEF Pairs
  <2>3. f[i - a] = f[j - a]
    BY <1>5, <2>1, <2>2
  <2>4. i - a = j - a
    BY <1>1, <2>1, <2>3 DEF Pairs
  <2> QED
    BY <2>1, <2>4
<1>6. ASSUME NEW x \in a + b..a + e, text[x] \in Opening
      PROVE  \E i \in ClosesIn(text, a + b, a + e) : g[i] = x
  <2>1. x - a \in b..e /\ a + (x - a) = x
    OBVIOUS
  <2>2. s[x - a] \in Opening
    BY <1>6, <2>1
  <2>3. PICK j \in ClosesIn(s, b, e) : f[j] = x - a
    BY <1>1, <2>1, <2>2 DEF Pairs
  <2>4. a + j \in Int /\ (a + j) - a = j
    BY DEF ClosesIn
  <2>5. g[a + j] = x
    BY <2>1, <2>3, <2>4
  <2> QED
    BY <1>3, <2>5
<1>7. a + e \in ClosesIn(text, a + b, a + e) /\ g[a + e] = a + b
  <2>1. e \in ClosesIn(s, b, e) /\ f[e] = b
    BY <1>1 DEF Pairs
  <2> QED
    BY <1>3, <2>1
<1> HIDE DEF g
<1>8. Pairs(text, a + b, a + e, g)
  BY <1>4, <1>5, <1>6, <1>7 DEF Pairs
<1> QED
  BY <1>8 DEF Matched

OpenOf(text, T, b, i) == {j \in b..i : text[j] \in T}
CloseOf(text, T, b, i) == {j \in b..i : text[j] \in {Closer(t) : t \in T}}

\* Between partners there are as many brackets of a kind that open as that close,
\* and before the end there are more that open of the kind of the first.
LEMMA MatchedCounts ==
  ASSUME NEW text, NEW b, NEW e, Matched(text, b, e), NEW T \in SUBSET Opening
  PROVE  /\ Cardinality(OpenOf(text, T, b, e)) = Cardinality(CloseOf(text, T, b, e))
         /\ text[b] \in T =>
              \A i \in b..e - 1 :
                /\ Cardinality(CloseOf(text, T, b, i)) # Cardinality(OpenOf(text, T, b, i))
                /\ Cardinality(CloseOf(text, T, b, i)) <= Cardinality(OpenOf(text, T, b, i))
<1> DEFINE o(i) == {j \in b..i : text[j] \in T}
           c(i) == {j \in b..i : text[j] \in {Closer(t) : t \in T}}
<1>1. PICK f : Pairs(text, b, e, f) /\ b \in Int /\ e \in Int /\ b < e
  BY DEF Matched
<1>2. /\ \A t \in Opening : Closer(t) \in Closing
      /\ \A t, u \in Opening : Closer(t) = Closer(u) => t = u
  BY DEF Opening, Closing, Closer
<1>3. ASSUME NEW i \in b..e, NEW j \in c(i)
      PROVE  j \in ClosesIn(text, b, e) /\ f[j] \in o(i)
  <2>1. j \in b..i /\ j \in b..e
    BY <1>1
  <2>2. PICK t \in T : text[j] = Closer(t)
    OBVIOUS
  <2>3. j \in ClosesIn(text, b, e)
    BY <1>2, <2>1, <2>2 DEF ClosesIn
  <2>4. f[j] \in b..j - 1 /\ text[f[j]] \in Opening /\ text[j] = Closer(text[f[j]])
    BY <1>1, <2>3 DEF Pairs
  <2>5. text[f[j]] = t
    BY <1>2, <2>2, <2>4
  <2>6. f[j] \in b..i
    BY <1>1, <2>1, <2>4
  <2> QED
    BY <2>2, <2>3, <2>5, <2>6
<1>4. \A i \in b..e : IsFiniteSet(o(i))
  <2> SUFFICES ASSUME NEW i \in b..e
               PROVE  IsFiniteSet(o(i))
    OBVIOUS
  <2>1. IsFiniteSet(b..i) /\ o(i) \in SUBSET (b..i)
    BY <1>1, FS_Interval
  <2> QED
    BY <2>1, FS_Subset
<1>5. e \in b..e /\ b \in b..e
  BY <1>1
<1>6. Cardinality(o(e)) = Cardinality(c(e))
  <2> DEFINE g == [j \in c(e) |-> f[j]]
  <2>1. g \in [c(e) -> o(e)] /\ \A j \in c(e) : j \in ClosesIn(text, b, e) /\ g[j] = f[j]
    BY <1>3, <1>5
  <2>2. \A i, j \in c(e) : g[i] = g[j] => i = j
    BY <1>1, <2>1 DEF Pairs
  <2>3. ASSUME NEW x \in o(e)
        PROVE  \E j \in c(e) : g[j] = x
    <3>1. x \in b..e /\ text[x] \in T /\ text[x] \in Opening
      OBVIOUS
    <3>2. PICK j \in ClosesIn(text, b, e) : f[j] = x
      BY <1>1, <3>1 DEF Pairs
    <3>3. text[j] = Closer(text[x])
      BY <1>1, <3>2 DEF Pairs
    <3>4. j \in c(e)
      BY <3>1, <3>3 DEF ClosesIn
    <3> QED
      BY <2>1, <3>2, <3>4
  <2> HIDE DEF g, o, c
  <2>4. g \in Injection(c(e), o(e))
    BY <2>1, <2>2 DEF Injection, IsInjective
  <2>5. g \in Surjection(c(e), o(e))
    BY <2>1, <2>3 DEF Surjection
  <2> QED
    BY <1>4, <1>5, <2>4, <2>5, FS_Injection
<1>7. ASSUME NEW i \in b..e - 1, text[b] \in T
      PROVE  /\ Cardinality(c(i)) # Cardinality(o(i))
             /\ Cardinality(c(i)) <= Cardinality(o(i))
  <2> DEFINE g == [j \in c(i) |-> f[j]]
  <2>1. i \in b..e /\ b \in b..i
    BY <1>1
  <2>2. g \in [c(i) -> o(i)] /\ \A j \in c(i) : j \in ClosesIn(text, b, e) /\ g[j] = f[j] /\ j \in b..i
    BY <1>3, <2>1
  <2>3. \A k, j \in c(i) : g[k] = g[j] => k = j
    BY <1>1, <2>2 DEF Pairs
  <2>4. b \in o(i)
    BY <1>7, <2>1
  <2>5. \A j \in c(i) : g[j] # b
    <3> SUFFICES ASSUME NEW j \in c(i), g[j] = b
                 PROVE  FALSE
      OBVIOUS
    <3>1. j \in ClosesIn(text, b, e) /\ f[j] = b
      BY <2>2
    <3>2. e \in ClosesIn(text, b, e) /\ f[e] = b
      BY <1>1 DEF Pairs
    <3>3. j = e
      BY <1>1, <3>1, <3>2 DEF Pairs
    <3> QED
      BY <1>1, <2>1, <3>3
  <2> HIDE DEF g, o, c
  <2>6. g \in Injection(c(i), o(i))
    BY <2>2, <2>3 DEF Injection, IsInjective
  <2>7. g \notin Surjection(c(i), o(i))
    BY <2>4, <2>5 DEF Surjection
  <2> QED
    BY <1>4, <2>1, <2>6, <2>7, FS_Injection
<1>8. \A i : OpenOf(text, T, b, i) = o(i) /\ CloseOf(text, T, b, i) = c(i)
  BY DEF OpenOf, CloseOf
<1> QED
  <2> HIDE DEF o, c
  <2> QED
    BY <1>6, <1>7, <1>8

LEMMA CloseIs ==
  ASSUME NEW text, NEW b \in Nat, NEW e \in Nat, Matched(text, b, e), Len(text) \in Nat, e <= Len(text)
  PROVE  Close(text, b) = e /\ text[b] \in Opening
<1> DEFINE ends == {i \in b..Len(text) :
                      Count(text, text[b], b, i) = Count(text, Closer(text[b]), b, i)}
           T == {text[b]}
<1>1. b < e /\ text[b] \in Opening
  BY DEF Matched, Pairs
<1>2. /\ Cardinality(OpenOf(text, T, b, e)) = Cardinality(CloseOf(text, T, b, e))
      /\ \A i \in b..e - 1 : Cardinality(CloseOf(text, T, b, i)) # Cardinality(OpenOf(text, T, b, i))
  <2>1. T \in SUBSET Opening /\ text[b] \in T
    BY <1>1
  <2> HIDE DEF T
  <2> QED
    BY <2>1, MatchedCounts
<1>3. \A i : /\ Cardinality(OpenOf(text, T, b, i)) = Count(text, text[b], b, i)
             /\ Cardinality(CloseOf(text, T, b, i)) = Count(text, Closer(text[b]), b, i)
  <2>1. \A i : /\ OpenOf(text, T, b, i) = {j \in b..i : text[j] = text[b]}
               /\ CloseOf(text, T, b, i) = {j \in b..i : text[j] = Closer(text[b])}
    BY DEF OpenOf, CloseOf
  <2> QED
    BY <2>1 DEF Count
<1> HIDE DEF T
<1>4. /\ Count(text, text[b], b, e) = Count(text, Closer(text[b]), b, e)
      /\ \A i \in b..e - 1 : Count(text, text[b], b, i) # Count(text, Closer(text[b]), b, i)
  BY <1>2, <1>3
<1>5. e \in ends /\ ends \in SUBSET Nat
  BY <1>1, <1>4
<1>6. \A i \in ends : e <= i
  BY <1>4
<1>7. Min(ends) = e
  <2> HIDE DEF ends
  <2> QED
    BY <1>5, <1>6, MinIs
<1>8. Close(text, b) = IF ends = {} THEN Len(text) ELSE Min(ends)
  BY DEF Close
<1> HIDE DEF ends
<1> QED
  BY <1>1, <1>5, <1>7, <1>8

\* A text that says as much as it takes back.
Even(text) == text \in Seq(Tokens) /\ Depth(text, Len(text)) = 0

LEMMA MatchedEven ==
  ASSUME NEW text \in Seq(Tokens), Matched(text, 1, Len(text))
  PROVE  Even(text)
<1> DEFINE n == Len(text)
           o == OpenOf(text, Opening, 1, n)
           c == CloseOf(text, Opening, 1, n)
<1>1. Cardinality(o) = Cardinality(c)
  BY MatchedCounts
<1>2. Cardinality(o) \in Nat
  <2>1. IsFiniteSet(1..n) /\ o \in SUBSET (1..n)
    BY FS_Interval DEF OpenOf
  <2> QED
    BY <2>1, FS_Subset, FS_CardinalityType
<1>3. Depth(text, n) = Cardinality(o) - Cardinality(c)
  <2>1. {Closer(t) : t \in Opening} = Closing
    BY DEF Opening, Closing, Closer
  <2>2. o = {j \in 1..n : text[j] \in Opening} /\ c = {j \in 1..n : text[j] \in Closing}
    BY <2>1 DEF OpenOf, CloseOf
  <2> QED
    BY <2>2 DEF Depth
<1> HIDE DEF o, c
<1> QED
  BY <1>1, <1>2, <1>3 DEF Even

LEMMA MatchedValue ==
  ASSUME NEW text \in Seq(Tokens), NEW b \in Nat, NEW e \in Nat, Matched(text, b, e), b >= 1, e <= Len(text)
  PROVE  ValueAt(text, b) = SubSeq(text, b, e) /\ Even(SubSeq(text, b, e))
<1>1. Close(text, b) = e /\ text[b] \in Opening /\ b < e
  <2>1. Len(text) \in Nat
    OBVIOUS
  <2> QED
    BY <2>1, CloseIs DEF Matched
<1>2. PICK part : part = SubSeq(text, b, e)
  OBVIOUS
<1>3. /\ part \in Seq(Tokens) /\ Len(part) = e - b + 1
      /\ \A i \in 1..e - b + 1 : part[i] = text[b + i - 1]
  <2>1. \A i \in b..e : text[i] \in Tokens
    OBVIOUS
  <2> QED
    BY <1>1, <1>2, <2>1, SubSeqProperties
<1>4. \A j \in b..e : part[(1 - b) + j] = text[j]
  <2> SUFFICES ASSUME NEW j \in b..e
               PROVE  part[(1 - b) + j] = text[j]
    OBVIOUS
  <2>1. (1 - b) + j \in 1..e - b + 1 /\ b + ((1 - b) + j) - 1 = j
    OBVIOUS
  <2> QED
    BY <1>3, <2>1
<1>5. Matched(part, (1 - b) + b, (1 - b) + e)
  <2>1. 1 - b \in Int /\ b \in Int /\ e \in Int
    OBVIOUS
  <2> QED
    BY <1>4, <2>1, MatchedShift
<1>6. (1 - b) + b = 1 /\ (1 - b) + e = Len(part)
  BY <1>3
<1>7. Even(part)
  BY <1>3, <1>5, <1>6, MatchedEven
<1> QED
  BY <1>1, <1>2, <1>7 DEF ValueAt
-----------------------------------------------------------------------------
(* Finding members *)

\* The first position from the given one on.
FirstAt(text, tokens, from, k) ==
  /\ from \in Nat /\ Len(text) \in Nat /\ k \in from..Len(text) /\ text[k] \in tokens
  /\ \A i \in from..k - 1 : text[i] \notin tokens

LEMMA FirstIs ==
  ASSUME NEW text, NEW tokens, NEW from, NEW k, FirstAt(text, tokens, from, k)
  PROVE  First(text, tokens, from) = k
<1> DEFINE S == {i \in from..Len(text) : text[i] \in tokens}
<1>1. S \in SUBSET Nat /\ k \in S /\ \A i \in S : k <= i
  BY DEF FirstAt
<1>2. Min(S) = k
  BY <1>1, MinIs
<1> QED
  BY <1>2 DEF First

LEMMA FirstFound ==
  ASSUME NEW text, Len(text) \in Nat, NEW tokens, NEW from \in Nat, Occurs(text, tokens, from, Len(text))
  PROVE  FirstAt(text, tokens, from, First(text, tokens, from))
<1> DEFINE S == {i \in from..Len(text) : text[i] \in tokens}
<1>1. S \in SUBSET Nat /\ S # {}
  BY DEF Occurs
<1>2. Min(S) \in S /\ \A i \in S : Min(S) <= i
  BY <1>1, MinOf
<1>3. First(text, tokens, from) = Min(S)
  BY DEF First
<1>4. PICK k : k = First(text, tokens, from) /\ k \in S /\ \A i \in S : k <= i
  BY <1>2, <1>3
<1>5. FirstAt(text, tokens, from, k)
  BY <1>4 DEF FirstAt
<1> QED
  BY <1>4, <1>5

LEMMA ExtractIs ==
  ASSUME NEW text, NEW key, NEW k, NEW q,
         FirstAt(text, {key}, 1, k), FirstAt(text, {"colon"}, k + 1, q), q < Len(text)
  PROVE  ExtractMember(text, key) = ValueAt(text, q + 1)
<1>1. First(text, {key}, 1) = k /\ First(text, {"colon"}, k + 1) = q
  BY FirstIs
<1>2. Occurs(text, {key}, 1, Len(text))
  BY DEF FirstAt, Occurs
<1>3. Occurs(text, {"colon"}, k + 1, Len(text) - 1)
  BY DEF FirstAt, Occurs
<1> QED
  BY <1>1, <1>2, <1>3 DEF ExtractMember

\* Whatever is found is the value after some colon.
LEMMA ExtractFinds ==
  ASSUME NEW text, Len(text) \in Nat, NEW key, ExtractMember(text, key) # Absent
  PROVE  \E k \in 1..Len(text), q \in 1..Len(text) - 1 :
           /\ k < q /\ text[k] = key /\ text[q] = "colon"
           /\ ExtractMember(text, key) = ValueAt(text, q + 1)
<1> DEFINE k == First(text, {key}, 1)
           q == First(text, {"colon"}, k + 1)
<1>1. /\ Occurs(text, {key}, 1, Len(text)) /\ Occurs(text, {"colon"}, k + 1, Len(text) - 1)
      /\ ExtractMember(text, key) = ValueAt(text, q + 1)
  BY DEF ExtractMember
<1>2. FirstAt(text, {key}, 1, k)
  BY <1>1, FirstFound
<1>3. k \in 1..Len(text) /\ text[k] = key
  BY <1>2 DEF FirstAt
<1> HIDE DEF k
<1>4. k + 1 \in Nat /\ Occurs(text, {"colon"}, k + 1, Len(text))
  BY <1>1, <1>3 DEF Occurs
<1>5. FirstAt(text, {"colon"}, k + 1, q)
  BY <1>4, FirstFound
<1> HIDE DEF q
<1>6. q \in k + 1..Len(text) /\ text[q] = "colon" /\ \A i \in k + 1..q - 1 : text[i] # "colon"
  BY <1>5 DEF FirstAt
<1>7. q <= Len(text) - 1
  BY <1>1, <1>3, <1>6 DEF Occurs
<1> QED
  BY <1>1, <1>3, <1>6, <1>7
-----------------------------------------------------------------------------
(* Messages of the client *)

LEMMA EmptyObject == IsStructured(<<"lbrace", "rbrace">>)
<1> DEFINE text == <<"lbrace", "rbrace">>
           opened == [i \in {2} |-> 1]
<1>1. Len(text) = 2 /\ text[1] = "lbrace" /\ text[2] = "rbrace" /\ text # <<>>
  OBVIOUS
<1> HIDE DEF text
<1>2. 1..2 = {1, 2}
  OBVIOUS
<1>3. Closes(text) = {2} /\ Opens(text) = {1}
  BY <1>1, <1>2 DEF Closes, Opens, Closing, Opening
<1>4. opened \in [Closes(text) -> Opens(text)] /\ opened[2] = 1
  BY <1>3
<1> HIDE DEF opened
<1>5. Nested(text, opened)
  BY <1>1, <1>3, <1>4 DEF Nested, Closer
<1>6. MembersHaveValues(text)
  BY <1>1, <1>2 DEF MembersHaveValues
<1>7. IsStructured(text)
  BY <1>1, <1>3, <1>4, <1>5, <1>6 DEF IsStructured
<1> QED
  BY <1>7 DEF text

LEMMA ParamsAre ==
  ASSUME NEW params \in Params
  PROVE  OrEmpty(params) \in Seq(Tokens) /\ IsStructured(OrEmpty(params))
<1>1. <<"lbrace", "rbrace">> \in Seq(Tokens)
  BY TokensWritten
<1> QED
  BY <1>1, EmptyObject, ConstantsAssumption DEF OrEmpty

LEMMA StructuredMatched ==
  ASSUME NEW p \in Seq(Tokens), IsStructured(p)
  PROVE  /\ Matched(p, 1, Len(p))
         /\ \A b \in 1..Len(p) : p[b] \in Opening => \E e \in b..Len(p) : Matched(p, b, e)
<1>1. Len(p) \in Nat
  OBVIOUS
<1>2. PICK opened \in [Closes(p) -> Opens(p)] :
        Nested(p, opened) /\ Len(p) \in Closes(p) /\ opened[Len(p)] = 1
  BY DEF IsStructured
<1>3. \A e \in Closes(p) : Matched(p, opened[e], e)
  BY <1>1, <1>2, NestedMatched
<1>4. Matched(p, 1, Len(p))
  BY <1>2, <1>3
<1>5. ASSUME NEW b \in 1..Len(p), p[b] \in Opening
      PROVE  \E e \in b..Len(p) : Matched(p, b, e)
  <2>1. PICK e \in Closes(p) : opened[e] = b
    BY <1>2, <1>5 DEF Nested, Opens
  <2>2. e \in 1..Len(p) /\ b < e
    BY <1>2, <2>1 DEF Nested, Closes
  <2> QED
    BY <1>1, <1>3, <2>1, <2>2
<1> QED
  BY <1>4, <1>5

\* The params stand between the first tokens and the closing brace.
WithParams(text, a, p) ==
  /\ a \in Nat /\ p \in Seq(Tokens) /\ IsStructured(p)
  /\ text \in Seq(Tokens) /\ Len(text) = a + Len(p) + 1
  /\ GoesOn(text, a, p, Len(p))
  /\ text[Len(text)] = "rbrace"

LEMMA MatchedInParams ==
  ASSUME NEW text, NEW a, NEW p, WithParams(text, a, p), NEW b \in 1..Len(p), NEW e \in b..Len(p),
         Matched(p, b, e)
  PROVE  /\ Matched(text, a + b, a + e) /\ a + b \in Nat /\ a + e \in Nat
         /\ a + b >= 1 /\ a + e <= Len(text)
<1>1. a \in Nat /\ Len(p) \in Nat /\ Len(text) = a + Len(p) + 1 /\ GoesOn(text, a, p, Len(p))
  BY DEF WithParams
<1>2. a \in Int /\ b \in Int /\ e \in Int /\ \A j \in b..e : text[a + j] = p[j]
  BY <1>1 DEF GoesOn
<1>3. Matched(text, a + b, a + e)
  BY <1>2, MatchedShift
<1> QED
  BY <1>1, <1>3

LEMMA ParamsFound ==
  ASSUME NEW text, NEW a, NEW p, WithParams(text, a, p)
  PROVE  ValueAt(text, a + 1) = p /\ Even(p)
<1>1. /\ a \in Nat /\ p \in Seq(Tokens) /\ IsStructured(p) /\ text \in Seq(Tokens)
      /\ Len(text) = a + Len(p) + 1 /\ GoesOn(text, a, p, Len(p)) /\ Len(p) \in Nat
  BY DEF WithParams
<1>2. Matched(p, 1, Len(p)) /\ 1 \in 1..Len(p) /\ Len(p) \in 1..Len(p)
  BY <1>1, StructuredMatched DEF Matched
<1>3. /\ Matched(text, a + 1, a + Len(p)) /\ a + 1 \in Nat /\ a + Len(p) \in Nat
      /\ a + 1 >= 1 /\ a + Len(p) <= Len(text)
  BY <1>2, MatchedInParams
<1>4. ValueAt(text, a + 1) = SubSeq(text, a + 1, a + Len(p))
  BY <1>1, <1>3, MatchedValue
<1>5. SubSeq(text, a + 1, a + Len(p)) = p
  BY <1>1, Part DEF GoesOn
<1>6. Even(p)
  BY <1>1, <1>2, MatchedEven
<1> QED
  BY <1>4, <1>5, <1>6

LEMMA OneEven ==
  ASSUME NEW token \in Atoms \cup Strings
  PROVE  Even(<<token>>)
<1>1. <<token>> \in Seq(Flat)
  BY DEF Flat
<1> QED
  BY <1>1, FlatIsLevel DEF Level, Even

\* Simple values.
LEMMA AtomFound ==
  ASSUME NEW text \in Seq(Tokens), NEW i \in 1..Len(text), text[i] \in Atoms,
         i + 1 <= Len(text), text[i + 1] \in {"comma", "rbrace"}
  PROVE  ValueAt(text, i) = <<text[i]>>
<1>1. text[i] \notin Opening /\ ~ IsString(text[i]) /\ text[i] \notin {"comma", "rbrace"}
  BY Distinct DEF IsString, Punctuation, Closing
<1>2. FirstAt(text, {"comma", "rbrace"}, i, i + 1)
  BY <1>1 DEF FirstAt
<1>3. First(text, {"comma", "rbrace"}, i) = i + 1 /\ Occurs(text, {"comma", "rbrace"}, i, Len(text))
  BY <1>2, FirstIs DEF FirstAt, Occurs
<1>4. ValueAt(text, i) = SubSeq(text, i, First(text, {"comma", "rbrace"}, i) - 1)
  BY <1>1, <1>3 DEF ValueAt
<1>5. i + 1 - 1 = i
  OBVIOUS
<1> QED
  BY <1>3, <1>4, <1>5, One

LEMMA StringFound ==
  ASSUME NEW text, NEW i, text[i] \in Strings
  PROVE  ValueAt(text, i) = <<text[i]>>
  BY Distinct DEF ValueAt, IsString, Punctuation, Opening

\* Whatever follows a colon in the params is a whole value.
LEMMA ValueInParams ==
  ASSUME NEW text, NEW a, NEW p, WithParams(text, a, p), NEW q \in 1..Len(p), p[q] = "colon"
  PROVE  Even(ValueAt(text, a + q + 1))
<1> DEFINE b == q + 1
<1>1. /\ a \in Nat /\ p \in Seq(Tokens) /\ IsStructured(p) /\ text \in Seq(Tokens)
      /\ Len(text) = a + Len(p) + 1 /\ GoesOn(text, a, p, Len(p)) /\ Len(p) \in Nat
  BY DEF WithParams
<1>2. /\ q < Len(p)
      /\ \/ p[b] \in Opening \/ IsString(p[b])
         \/ p[b] \in Atoms /\ b + 1 <= Len(p) /\ p[b + 1] \in {"comma", "rbrace"}
  <2>1. q + 2 = b + 1
    OBVIOUS
  <2> QED
    BY <1>1, <2>1 DEF IsStructured, MembersHaveValues
<1>3. b \in 1..Len(p) /\ a + b \in 1..Len(text) /\ text[a + b] = p[b] /\ a + q + 1 = a + b /\ p[b] \in Tokens
  <2>1. b \in 1..Len(p)
    BY <1>1, <1>2
  <2> QED
    BY <1>1, <2>1 DEF GoesOn
<1> HIDE DEF b
<1>4. CASE p[b] \in Opening
  <2>1. PICK e \in b..Len(p) : Matched(p, b, e)
    BY <1>1, <1>3, <1>4, StructuredMatched
  <2>2. /\ Matched(text, a + b, a + e) /\ a + b \in Nat /\ a + e \in Nat
        /\ a + b >= 1 /\ a + e <= Len(text)
    BY <1>3, <2>1, MatchedInParams
  <2>3. ValueAt(text, a + b) = SubSeq(text, a + b, a + e) /\ Even(SubSeq(text, a + b, a + e))
    BY <1>1, <2>2, MatchedValue
  <2> QED
    BY <1>3, <2>3
<1>5. CASE IsString(p[b]) /\ p[b] \notin Opening
  <2>1. p[b] \in Strings
    BY <1>3, <1>5 DEF IsString, Tokens
  <2>2. ValueAt(text, a + b) = <<p[b]>>
    BY <1>3, <1>5 DEF ValueAt
  <2> QED
    BY <1>3, <2>1, <2>2, OneEven
<1>6. CASE p[b] \in Atoms /\ b + 1 <= Len(p) /\ p[b + 1] \in {"comma", "rbrace"}
  <2>1. PICK i \in 1..Len(text) : i = a + b /\ text[i] = p[b]
    BY <1>3
  <2>2. i + 1 <= Len(text) /\ text[i + 1] = p[b + 1]
    <3>1. b + 1 \in 1..Len(p) /\ i + 1 = a + (b + 1)
      BY <1>1, <1>3, <1>6, <2>1
    <3> QED
      BY <1>1, <3>1 DEF GoesOn
  <2>3. ValueAt(text, i) = <<text[i]>>
    BY <1>1, <1>6, <2>1, <2>2, AtomFound
  <2> QED
    BY <1>3, <1>6, <2>1, <2>3, OneEven
<1> QED
  BY <1>2, <1>4, <1>5, <1>6

\* The first tokens of a request and of a notification.
LEMMA RequestIs ==
  ASSUME NEW id \in Atoms, NEW method \in Strings, NEW params \in Params
  PROVE  LET text == RequestText(id, method, params)
         IN /\ WithParams(text, 15, OrEmpty(params))
            /\ text[1] = "lbrace" /\ text[2] = "jsonrpc" /\ text[3] = "colon" /\ text[4] = "2.0"
            /\ text[5] = "comma" /\ text[6] = "id" /\ text[7] = "colon" /\ text[8] = id
            /\ text[9] = "comma" /\ text[10] = "method" /\ text[11] = "colon" /\ text[12] = method
            /\ text[13] = "comma" /\ text[14] = "params" /\ text[15] = "colon"
<1> DEFINE text == RequestText(id, method, params)
           h == <<"lbrace", "jsonrpc", "colon", "2.0", "comma", "id", "colon", id,
                  "comma", "method", "colon", method, "comma", "params", "colon">>
           p == OrEmpty(params)
<1>1. {"lbrace", "rbrace", "jsonrpc", "colon", "2.0", "comma", "id", id, "method", method, "params"} \subseteq Tokens
  BY TokensWritten, LiteralsAre
<1>2. h \in Seq(Tokens) /\ Len(h) = 15
  BY <1>1
<1>3. /\ h[1] = "lbrace" /\ h[2] = "jsonrpc" /\ h[3] = "colon" /\ h[4] = "2.0"
      /\ h[5] = "comma" /\ h[6] = "id" /\ h[7] = "colon" /\ h[8] = id
      /\ h[9] = "comma" /\ h[10] = "method" /\ h[11] = "colon" /\ h[12] = method
      /\ h[13] = "comma" /\ h[14] = "params" /\ h[15] = "colon"
  OBVIOUS
<1>4. text = h \o p \o <<"rbrace">>
  BY DEF RequestText
<1>5. p \in Seq(Tokens) /\ IsStructured(p) /\ "rbrace" \in Tokens
  BY <1>1, ParamsAre
<1> HIDE DEF text, h, p
<1>6. /\ text \in Seq(Tokens) /\ Len(text) = Len(h) + Len(p) + 1
      /\ \A i \in 1..Len(h) : text[i] = h[i]
      /\ \A j \in 1..Len(p) : text[Len(h) + j] = p[j]
      /\ text[Len(text)] = "rbrace"
  <2>1. h \in Seq(Tokens) /\ p \in Seq(Tokens) /\ "rbrace" \in Tokens
    BY <1>2, <1>5
  <2> QED
    BY <1>4, <2>1, Enclosed
<1>7. WithParams(text, 15, p)
  BY <1>2, <1>5, <1>6 DEF WithParams, GoesOn
<1>8. \A i \in 1..15 : text[i] = h[i]
  BY <1>2, <1>6
<1>9. /\ text[1] = h[1] /\ text[2] = h[2] /\ text[3] = h[3] /\ text[4] = h[4]
      /\ text[5] = h[5] /\ text[6] = h[6] /\ text[7] = h[7] /\ text[8] = h[8]
      /\ text[9] = h[9] /\ text[10] = h[10] /\ text[11] = h[11] /\ text[12] = h[12]
      /\ text[13] = h[13] /\ text[14] = h[14] /\ text[15] = h[15]
  BY <1>8
<1> QED
  BY <1>3, <1>7, <1>9 DEF text, p

LEMMA NotificationIs ==
  ASSUME NEW method \in Strings, NEW params \in Params
  PROVE  LET text == NotificationText(method, params)
         IN /\ WithParams(text, 11, OrEmpty(params))
            /\ text[1] = "lbrace" /\ text[2] = "jsonrpc" /\ text[3] = "colon" /\ text[4] = "2.0"
            /\ text[5] = "comma" /\ text[6] = "method" /\ text[7] = "colon" /\ text[8] = method
            /\ text[9] = "comma" /\ text[10] = "params" /\ text[11] = "colon"
<1> DEFINE text == NotificationText(method, params)
           h == <<"lbrace", "jsonrpc", "colon", "2.0", "comma", "method", "colon", method,
                  "comma", "params", "colon">>
           p == OrEmpty(params)
<1>1. {"lbrace", "rbrace", "jsonrpc", "colon", "2.0", "comma", "method", method, "params"} \subseteq Tokens
  BY TokensWritten, LiteralsAre
<1>2. h \in Seq(Tokens) /\ Len(h) = 11
  BY <1>1
<1>3. /\ h[1] = "lbrace" /\ h[2] = "jsonrpc" /\ h[3] = "colon" /\ h[4] = "2.0"
      /\ h[5] = "comma" /\ h[6] = "method" /\ h[7] = "colon" /\ h[8] = method
      /\ h[9] = "comma" /\ h[10] = "params" /\ h[11] = "colon"
  OBVIOUS
<1>4. text = h \o p \o <<"rbrace">>
  BY DEF NotificationText
<1>5. p \in Seq(Tokens) /\ IsStructured(p) /\ "rbrace" \in Tokens
  BY <1>1, ParamsAre
<1> HIDE DEF text, h, p
<1>6. /\ text \in Seq(Tokens) /\ Len(text) = Len(h) + Len(p) + 1
      /\ \A i \in 1..Len(h) : text[i] = h[i]
      /\ \A j \in 1..Len(p) : text[Len(h) + j] = p[j]
      /\ text[Len(text)] = "rbrace"
  <2>1. h \in Seq(Tokens) /\ p \in Seq(Tokens) /\ "rbrace" \in Tokens
    BY <1>2, <1>5
  <2> QED
    BY <1>4, <2>1, Enclosed
<1>7. WithParams(text, 11, p)
  BY <1>2, <1>5, <1>6 DEF WithParams, GoesOn
<1>8. \A i \in 1..11 : text[i] = h[i]
  BY <1>2, <1>6
<1>9. /\ text[1] = h[1] /\ text[2] = h[2] /\ text[3] = h[3] /\ text[4] = h[4]
      /\ text[5] = h[5] /\ text[6] = h[6] /\ text[7] = h[7] /\ text[8] = h[8]
      /\ text[9] = h[9] /\ text[10] = h[10] /\ text[11] = h[11]
  BY <1>8
<1> QED
  BY <1>3, <1>7, <1>9 DEF text, p

LEMMA StringMember ==
  ASSUME NEW text, NEW key, NEW method \in Strings, ExtractMember(text, key) = <<method>>
  PROVE  ExtractString(text, key) = <<method>>
<1>1. Len(<<method>>) = 1 /\ <<method>>[1] = method /\ IsString(method)
  BY Distinct DEF IsString
<1> QED
  BY <1>1 DEF ExtractString

\* What the server finds in a request is what the client put there.
LEMMA RequestFound ==
  ASSUME NEW id \in Atoms, NEW method \in Strings, NEW params \in Params
  PROVE  LET text == RequestText(id, method, params)
         IN /\ ExtractMember(text, "id") = <<id>>
            /\ ExtractString(text, "method") = <<method>>
            /\ ExtractMember(text, "params") = OrEmpty(params)
<1> DEFINE text == RequestText(id, method, params)
           p == OrEmpty(params)
<1>1. /\ WithParams(text, 15, p)
      /\ text[1] = "lbrace" /\ text[2] = "jsonrpc" /\ text[3] = "colon" /\ text[4] = "2.0"
      /\ text[5] = "comma" /\ text[6] = "id" /\ text[7] = "colon" /\ text[8] = id
      /\ text[9] = "comma" /\ text[10] = "method" /\ text[11] = "colon" /\ text[12] = method
      /\ text[13] = "comma" /\ text[14] = "params" /\ text[15] = "colon"
  BY RequestIs
<1> HIDE DEF text, p
<1>2. text \in Seq(Tokens) /\ Len(text) \in Nat /\ Len(text) > 16
  <2>1. /\ text \in Seq(Tokens) /\ Len(text) = 15 + Len(p) + 1 /\ p \in Seq(Tokens)
        /\ IsStructured(p) /\ p # <<>>
    BY <1>1 DEF WithParams, IsStructured
  <2> QED
    BY <2>1, EmptySeq
<1>3. id # "id" /\ id # "method" /\ id # "params"
  BY TokensWritten, LiteralsAre, Distinct
<1>4. method # "colon"
  BY Distinct DEF Punctuation
<1>5. ExtractMember(text, "id") = <<id>>
  <2>1. FirstAt(text, {"id"}, 1, 6)
    <3>1. \A i \in 1..6 - 1 : i \in {1, 2, 3, 4, 5}
      OBVIOUS
    <3>2. /\ text[6] = "id" /\ text[1] # "id" /\ text[2] # "id" /\ text[3] # "id"
          /\ text[4] # "id" /\ text[5] # "id" /\ 6 \in 1..Len(text)
      BY <1>1, <1>2
    <3> HIDE DEF text
    <3> QED
      BY <3>1, <3>2 DEF FirstAt
  <2>2. FirstAt(text, {"colon"}, 6 + 1, 7)
    <3>1. \A i \in 6 + 1..7 - 1 : FALSE
      OBVIOUS
    <3> QED
      BY <1>1, <1>2, <3>1 DEF FirstAt
  <2>3. 7 < Len(text)
    BY <1>2
  <2>4. ExtractMember(text, "id") = ValueAt(text, 7 + 1)
    BY <2>1, <2>2, <2>3, ExtractIs
  <2>5. ValueAt(text, 8) = <<text[8]>>
    <3>1. 8 \in 1..Len(text) /\ 8 + 1 <= Len(text) /\ text[8] \in Atoms /\ text[8 + 1] \in {"comma", "rbrace"}
      BY <1>1, <1>2
    <3> QED
      BY <1>2, <3>1, AtomFound
  <2> QED
    BY <1>1, <2>4, <2>5
<1>6. ExtractMember(text, "method") = <<method>>
  <2>1. FirstAt(text, {"method"}, 1, 10)
    <3>1. \A i \in 1..10 - 1 : i \in {1, 2, 3, 4, 5, 6, 7, 8, 9}
      OBVIOUS
    <3>2. \A i \in 1..10 - 1 : text[i] # "method"
      BY <1>1, <1>3, <3>1
    <3> QED
      BY <1>1, <1>2, <3>2 DEF FirstAt
  <2>2. FirstAt(text, {"colon"}, 10 + 1, 11)
    <3>1. \A i \in 10 + 1..11 - 1 : FALSE
      OBVIOUS
    <3> QED
      BY <1>1, <1>2, <3>1 DEF FirstAt
  <2>3. 11 < Len(text)
    BY <1>2
  <2>4. ExtractMember(text, "method") = ValueAt(text, 11 + 1)
    BY <2>1, <2>2, <2>3, ExtractIs
  <2>5. ValueAt(text, 12) = <<text[12]>>
    BY <1>1, StringFound
  <2> QED
    BY <1>1, <2>4, <2>5
<1>7. ExtractMember(text, "params") = p
  <2>1. CASE method = "params"
    <3>1. FirstAt(text, {"params"}, 1, 12)
      <4>1. \A i \in 1..12 - 1 : i \in {1, 2, 3, 4, 5, 6, 7, 8, 9, 10, 11}
        OBVIOUS
      <4>2. \A i \in 1..12 - 1 : text[i] # "params"
        BY <1>1, <1>3, <2>1, <4>1
      <4> QED
        BY <1>1, <1>2, <2>1, <4>2 DEF FirstAt
    <3>2. FirstAt(text, {"colon"}, 12 + 1, 15)
      <4>1. \A i \in 12 + 1..15 - 1 : i \in {13, 14}
        OBVIOUS
      <4> QED
        BY <1>1, <1>2, <4>1 DEF FirstAt
    <3>3. 15 < Len(text)
      BY <1>2
    <3>4. ExtractMember(text, "params") = ValueAt(text, 15 + 1)
      BY <3>1, <3>2, <3>3, ExtractIs
    <3> QED
      BY <1>1, <3>4, ParamsFound
  <2>2. CASE method # "params"
    <3>1. FirstAt(text, {"params"}, 1, 14)
      <4>1. \A i \in 1..14 - 1 : i \in {1, 2, 3, 4, 5, 6, 7, 8, 9, 10, 11, 12, 13}
        OBVIOUS
      <4>2. \A i \in 1..14 - 1 : text[i] # "params"
        BY <1>1, <1>3, <2>2, <4>1
      <4> QED
        BY <1>1, <1>2, <2>2, <4>2 DEF FirstAt
    <3>2. FirstAt(text, {"colon"}, 14 + 1, 15)
      <4>1. \A i \in 14 + 1..15 - 1 : FALSE
        OBVIOUS
      <4> QED
        BY <1>1, <1>2, <4>1 DEF FirstAt
    <3>3. 15 < Len(text)
      BY <1>2
    <3>4. ExtractMember(text, "params") = ValueAt(text, 15 + 1)
      BY <3>1, <3>2, <3>3, ExtractIs
    <3> QED
      BY <1>1, <3>4, ParamsFound
  <2> QED
    BY <2>1, <2>2
<1>8. ExtractString(text, "method") = <<method>>
  BY <1>6, StringMember
<1> QED
  BY <1>5, <1>7, <1>8 DEF text, p

\* The method of a notification is found too; what is taken for its id is a whole
\* value of the params, if it is anything.
LEMMA NotificationFound ==
  ASSUME NEW method \in Strings, NEW params \in Params
  PROVE  LET text == NotificationText(method, params)
         IN /\ ExtractString(text, "method") = <<method>>
            /\ ExtractMember(text, "id") # Absent => Even(ExtractMember(text, "id"))
<1> DEFINE text == NotificationText(method, params)
           p == OrEmpty(params)
<1>1. /\ WithParams(text, 11, p)
      /\ text[1] = "lbrace" /\ text[2] = "jsonrpc" /\ text[3] = "colon" /\ text[4] = "2.0"
      /\ text[5] = "comma" /\ text[6] = "method" /\ text[7] = "colon" /\ text[8] = method
      /\ text[9] = "comma" /\ text[10] = "params" /\ text[11] = "colon"
  BY NotificationIs
<1> HIDE DEF text, p
<1>2. /\ text \in Seq(Tokens) /\ Len(text) \in Nat /\ Len(text) > 12
      /\ Len(text) = 12 + Len(p) /\ Len(p) \in Nat
      /\ \A j \in 1..Len(p) : text[11 + j] = p[j]
  <2>1. /\ text \in Seq(Tokens) /\ Len(text) = 11 + Len(p) + 1 /\ p \in Seq(Tokens)
        /\ IsStructured(p) /\ p # <<>> /\ GoesOn(text, 11, p, Len(p))
    BY <1>1 DEF WithParams, IsStructured
  <2> QED
    BY <2>1, EmptySeq DEF GoesOn
<1>3. ExtractMember(text, "method") = <<method>>
  <2>1. FirstAt(text, {"method"}, 1, 6)
    <3>1. \A i \in 1..6 - 1 : i \in {1, 2, 3, 4, 5}
      OBVIOUS
    <3> QED
      BY <1>1, <1>2, <3>1 DEF FirstAt
  <2>2. FirstAt(text, {"colon"}, 6 + 1, 7)
    <3>1. \A i \in 6 + 1..7 - 1 : FALSE
      OBVIOUS
    <3> QED
      BY <1>1, <1>2, <3>1 DEF FirstAt
  <2>3. 7 < Len(text)
    BY <1>2
  <2>4. ExtractMember(text, "method") = ValueAt(text, 7 + 1)
    BY <2>1, <2>2, <2>3, ExtractIs
  <2>5. ValueAt(text, 8) = <<text[8]>>
    BY <1>1, StringFound
  <2> QED
    BY <1>1, <2>4, <2>5
<1>4. ASSUME ExtractMember(text, "id") # Absent
      PROVE  Even(ExtractMember(text, "id"))
  <2>1. PICK k \in 1..Len(text), q \in 1..Len(text) - 1 :
          /\ k < q /\ text[k] = "id" /\ text[q] = "colon"
          /\ ExtractMember(text, "id") = ValueAt(text, q + 1)
    BY <1>2, <1>4, ExtractFinds
  <2>2. k \notin {1, 2, 3, 4, 5, 6, 7}
    BY <1>1, <2>1
  <2>3. k > 7
    <3>1. k \in Int /\ k >= 1 /\ k # 1 /\ k # 2 /\ k # 3 /\ k # 4 /\ k # 5 /\ k # 6 /\ k # 7
      BY <1>2, <2>2
    <3> QED
      BY <3>1
  <2>4. q > 8 /\ q # 9 /\ q # 10
    BY <1>1, <1>2, <2>1, <2>3
  <2>5. q >= 11
    BY <1>2, <2>4
  <2>6. CASE q = 11
    BY <1>1, <2>1, <2>6, ParamsFound
  <2>7. CASE q # 11
    <3>1. PICK j \in 1..Len(p) : q = 11 + j
      <4>1. q - 11 \in 1..Len(p) /\ q = 11 + (q - 11)
        BY <1>2, <2>5, <2>7
      <4> QED
        BY <4>1
    <3>2. p[j] = "colon"
      BY <1>2, <2>1, <3>1
    <3> QED
      BY <1>1, <2>1, <3>1, <3>2, ValueInParams
  <2> QED
    BY <2>6, <2>7
<1>5. ExtractString(text, "method") = <<method>>
  BY <1>3, StringMember
<1> QED
  BY <1>4, <1>5 DEF text
-----------------------------------------------------------------------------
(* The registries *)

LEMMA MaxOf ==
  ASSUME NEW n \in Nat, NEW S \in SUBSET (1..n), S # {}
  PROVE  Max(S) \in S /\ \A m \in S : m <= Max(S)
<1> DEFINE T == {n - m : m \in S}
<1>1. T \in SUBSET Nat /\ T # {}
  <2>1. \A m \in S : n - m \in Nat
    OBVIOUS
  <2>2. PICK m \in S : TRUE
    OBVIOUS
  <2>3. n - m \in T
    OBVIOUS
  <2> QED
    BY <2>1, <2>3
<1>2. PICK t \in T : \A u \in T : t <= u
  BY <1>1, LeastElement
<1>3. PICK m \in S : t = n - m
  OBVIOUS
<1>4. \A k \in S : k <= m
  <2> SUFFICES ASSUME NEW k \in S
               PROVE  k <= m
    OBVIOUS
  <2>1. n - m <= n - k
    BY <1>2, <1>3
  <2> QED
    BY <2>1
<1>5. S \in SUBSET Nat
  OBVIOUS
<1>6. Max(S) = m
  BY <1>4, <1>5, MaxIs
<1> QED
  BY <1>4, <1>6

Calls(calls, kind, name) ==
  {n \in 1..Len(calls) : calls[n].kind = kind /\ calls[n].entry.name = name}

\* UpToDate, of any history and any list.
Reflects(listed, calls, kind) ==
  /\ \A name \in Names :
       Calls(calls, kind, name) # {} <=> \E i \in 1..Len(listed) : listed[i].name = name
  /\ \A i \in 1..Len(listed) : listed[i] = calls[Max(Calls(calls, kind, listed[i].name))].entry
  /\ \A i, j \in 1..Len(listed) :
       i < j => Min(Calls(calls, kind, listed[i].name)) < Min(Calls(calls, kind, listed[j].name))

LEMMA UpToDateIs ==
  ASSUME NEW kind
  PROVE  UpToDate(kind) <=> Reflects(registry[kind], registered, kind)
  BY DEF UpToDate, Reflects, Calls

Call == [kind : Kinds, entry : Entry]

\* One more call.
LEMMA CallsGrow ==
  ASSUME NEW calls \in Seq(Call), NEW call \in Call
  PROVE  LET more == Append(calls, call)
             n == Len(calls) + 1
         IN /\ more \in Seq(Call) /\ Len(more) = n /\ n \in Nat /\ more[n] = call
            /\ \A i \in 1..Len(calls) : more[i] = calls[i]
            /\ \A kind, name : kind # call.kind \/ name # call.entry.name =>
                 Calls(more, kind, name) = Calls(calls, kind, name)
            /\ Calls(more, call.kind, call.entry.name)
                 = Calls(calls, call.kind, call.entry.name) \cup {n}
<1> DEFINE more == Append(calls, call)
           n == Len(calls) + 1
<1>1. /\ more \in Seq(Call) /\ Len(more) = n /\ n \in Nat /\ more[n] = call
      /\ \A i \in 1..Len(calls) : more[i] = calls[i]
  OBVIOUS
<1>2. 1..n = (1..Len(calls)) \cup {n} /\ n \notin 1..Len(calls)
  OBVIOUS
<1> HIDE DEF more, n
<1>3. \A kind, name : kind # call.kind \/ name # call.entry.name =>
         Calls(more, kind, name) = Calls(calls, kind, name)
  BY <1>1, <1>2 DEF Calls
<1>4. Calls(more, call.kind, call.entry.name) = Calls(calls, call.kind, call.entry.name) \cup {n}
  BY <1>1, <1>2 DEF Calls
<1> QED
  BY <1>1, <1>3, <1>4 DEF more, n

LEMMA CallsAre ==
  ASSUME NEW calls \in Seq(Call), NEW kind, NEW name, Calls(calls, kind, name) # {}
  PROVE  LET C == Calls(calls, kind, name)
         IN /\ C \in SUBSET (1..Len(calls))
            /\ Max(C) \in C /\ Min(C) \in C /\ \A m \in C : Min(C) <= m
<1> DEFINE C == Calls(calls, kind, name)
<1>1. C \in SUBSET (1..Len(calls)) /\ Len(calls) \in Nat
  BY DEF Calls
<1>2. C \in SUBSET Nat
  BY <1>1
<1> HIDE DEF C
<1>3. C # {}
  BY DEF C
<1>4. Max(C) \in C
  BY <1>1, <1>3, MaxOf
<1>5. Min(C) \in C /\ \A m \in C : Min(C) <= m
  BY <1>2, <1>3, MinOf
<1> QED
  BY <1>1, <1>4, <1>5 DEF C

\* A call for another kind.
LEMMA ReflectsOther ==
  ASSUME NEW calls \in Seq(Call), NEW call \in Call, NEW kind, kind # call.kind,
         NEW listed \in Seq(Entry), Reflects(listed, calls, kind)
  PROVE  Reflects(listed, Append(calls, call), kind)
<1> DEFINE more == Append(calls, call)
<1>1. /\ \A i \in 1..Len(calls) : more[i] = calls[i]
      /\ \A name : Calls(more, kind, name) = Calls(calls, kind, name)
  BY CallsGrow
<1> HIDE DEF more
<1>2. ASSUME NEW i \in 1..Len(listed)
      PROVE  listed[i] = more[Max(Calls(more, kind, listed[i].name))].entry
  <2> DEFINE C == Calls(calls, kind, listed[i].name)
  <2>1. listed[i].name \in Names /\ listed[i] = calls[Max(C)].entry
    <3>1. listed[i] \in Entry /\ listed[i] = calls[Max(Calls(calls, kind, listed[i].name))].entry
      BY DEF Reflects
    <3> QED
      BY <3>1 DEF Entry
  <2>2. C # {}
    BY <2>1 DEF Reflects
  <2>3. Max(C) \in 1..Len(calls)
    BY <2>2, CallsAre
  <2> QED
    BY <1>1, <2>1, <2>3
<1>3. Reflects(listed, more, kind)
  BY <1>1, <1>2 DEF Reflects
<1> QED
  BY <1>3 DEF more

LEMMA ReplaceType ==
  ASSUME NEW listed \in Seq(Entry), NEW entry \in Entry
  PROVE  ReplaceDescriptor(listed, entry) \in Seq(Entry)
<1>1. CASE \E i \in 1..Len(listed) : listed[i].name = entry.name
  <2> DEFINE S == {i \in 1..Len(listed) : listed[i].name = entry.name}
  <2>1. S \in SUBSET Nat /\ S # {}
    BY <1>1
  <2>2. Min(S) \in S
    BY <2>1, MinOf
  <2>3. Min(S) \in 1..Len(listed)
    BY <2>2
  <2>4. [listed EXCEPT ![Min(S)] = entry] \in Seq(Entry)
    <3> HIDE DEF S
    <3> QED
      BY <2>3, ExceptSeq
  <2>5. ReplaceDescriptor(listed, entry) = [listed EXCEPT ![Min(S)] = entry]
    BY <1>1 DEF ReplaceDescriptor
  <2> QED
    BY <2>4, <2>5
<1>2. CASE ~ \E i \in 1..Len(listed) : listed[i].name = entry.name
  BY <1>2 DEF ReplaceDescriptor
<1> QED
  BY <1>1, <1>2

\* A call for this kind: the list follows.
LEMMA ReflectsReplaced ==
  ASSUME NEW calls \in Seq(Call), NEW kind \in Kinds, NEW entry \in Entry,
         NEW listed \in Seq(Entry), Reflects(listed, calls, kind)
  PROVE  Reflects(ReplaceDescriptor(listed, entry),
                  Append(calls, [kind |-> kind, entry |-> entry]), kind)
<1> DEFINE call == [kind |-> kind, entry |-> entry]
           more == Append(calls, call)
           n == Len(calls) + 1
           C(name) == Calls(calls, kind, name)
           D(name) == Calls(more, kind, name)
<1>1. call \in Call /\ call.kind = kind /\ call.entry = entry
  BY DEF Call
<1>2. /\ more \in Seq(Call) /\ Len(more) = n /\ n \in Nat /\ more[n] = call
      /\ \A i \in 1..Len(calls) : more[i] = calls[i]
      /\ \A name : name # entry.name => D(name) = C(name)
      /\ D(entry.name) = C(entry.name) \cup {n}
  <2> HIDE DEF call
  <2> QED
    BY <1>1, CallsGrow
<1>3. more[n].entry = entry
  BY <1>1, <1>2
<1>4. \A i \in 1..Len(listed) : listed[i] \in Entry /\ listed[i].name \in Names /\ C(listed[i].name) # {}
  <2>1. \A i \in 1..Len(listed) : listed[i] \in Entry
    OBVIOUS
  <2> QED
    BY <2>1 DEF Entry, Reflects
<1>5. \A name : C(name) # {} =>
        /\ C(name) \in SUBSET (1..Len(calls))
        /\ Max(C(name)) \in C(name) /\ Min(C(name)) \in C(name) /\ \A m \in C(name) : Min(C(name)) <= m
  BY CallsAre
<1>6. Max(D(entry.name)) = n
  <2>1. D(entry.name) \in SUBSET Nat /\ n \in D(entry.name) /\ \A m \in D(entry.name) : m <= n
    BY <1>2 DEF Calls
  <2> QED
    BY <2>1, MaxIs
<1>7. Len(listed) \in Nat /\ Len(calls) \in Nat /\ entry.name \in Names
  BY DEF Entry
<1>8. \A i, j \in 1..Len(listed) : i < j => Min(C(listed[i].name)) < Min(C(listed[j].name))
  BY DEF Reflects
<1>9. \A i \in 1..Len(listed) : listed[i] = calls[Max(C(listed[i].name))].entry
  BY DEF Reflects
<1>10. \A name \in Names : C(name) # {} <=> \E i \in 1..Len(listed) : listed[i].name = name
  BY DEF Reflects
<1> HIDE DEF call, more, C, D
<1>11. CASE \E i \in 1..Len(listed) : listed[i].name = entry.name
  <2> DEFINE S == {i \in 1..Len(listed) : listed[i].name = entry.name}
             k == Min(S)
             new == [listed EXCEPT ![k] = entry]
  <2>1. S \in SUBSET Nat /\ S # {}
    BY <1>11
  <2>2. k \in S
    BY <2>1, MinOf
  <2>3. ReplaceDescriptor(listed, entry) = new
    BY <1>11 DEF ReplaceDescriptor
  <2>4. k \in 1..Len(listed) /\ listed[k].name = entry.name
    BY <2>2
  <2> HIDE DEF k, S
  <2>5. /\ Len(new) = Len(listed) /\ new[k] = entry
        /\ \A i \in 1..Len(listed) : i # k => new[i] = listed[i]
    BY <2>4, ExceptSeq
  <2> HIDE DEF new
  <2>6. \A i \in 1..Len(listed) : new[i].name = listed[i].name
    BY <2>4, <2>5
  <2>7. \A i \in 1..Len(listed) : i # k => listed[i].name # entry.name
    <3> SUFFICES ASSUME NEW i \in 1..Len(listed), i # k, listed[i].name = listed[k].name
                 PROVE  FALSE
      BY <2>4
    <3>1. i < k \/ k < i
      BY <2>4
    <3>2. C(listed[k].name) \in SUBSET (1..Len(calls)) /\ Min(C(listed[k].name)) \in C(listed[k].name)
      BY <1>4, <1>5, <2>4
    <3>3. Min(C(listed[k].name)) \in Int
      BY <3>2
    <3>4. Min(C(listed[k].name)) < Min(C(listed[k].name))
      BY <1>8, <2>4, <3>1
    <3> QED
      BY <3>3, <3>4
  <2>8. \A name \in Names : D(name) # {} <=> \E i \in 1..Len(new) : new[i].name = name
    <3> SUFFICES ASSUME NEW name \in Names
                 PROVE  D(name) # {} <=> \E i \in 1..Len(listed) : listed[i].name = name
      BY <2>5, <2>6
    <3>1. CASE name = entry.name
      BY <1>2, <2>4, <3>1
    <3>2. CASE name # entry.name
      BY <1>2, <1>10, <3>2
    <3> QED
      BY <3>1, <3>2
  <2>9. ASSUME NEW i \in 1..Len(new)
        PROVE  new[i] = more[Max(D(new[i].name))].entry
    <3>1. CASE i = k
      BY <1>3, <1>6, <2>5, <3>1
    <3>2. CASE i # k
      <4>1. i \in 1..Len(listed) /\ new[i] = listed[i] /\ D(new[i].name) = C(listed[i].name)
        BY <1>2, <2>5, <2>7, <3>2
      <4>2. Max(C(listed[i].name)) \in 1..Len(calls)
        BY <1>4, <1>5, <4>1
      <4>3. more[Max(C(listed[i].name))] = calls[Max(C(listed[i].name))]
        BY <1>2, <4>2
      <4> QED
        BY <1>9, <4>1, <4>3
    <3> QED
      BY <3>1, <3>2
  <2>10. \A i \in 1..Len(listed) : Min(D(listed[i].name)) = Min(C(listed[i].name))
    <3> SUFFICES ASSUME NEW i \in 1..Len(listed)
                 PROVE  Min(D(listed[i].name)) = Min(C(listed[i].name))
      OBVIOUS
    <3>1. CASE i = k
      <4> DEFINE m == Min(C(entry.name))
      <4>1. /\ C(entry.name) \in SUBSET (1..Len(calls)) /\ m \in C(entry.name)
            /\ \A l \in C(entry.name) : m <= l
        BY <1>4, <1>5, <2>4
      <4> HIDE DEF m
      <4>2. /\ D(entry.name) \in SUBSET Nat /\ m \in D(entry.name)
            /\ \A l \in D(entry.name) : m <= l
        BY <1>2, <1>7, <4>1
      <4>3. Min(D(entry.name)) = m
        BY <4>2, MinIs
      <4> QED
        BY <2>4, <3>1, <4>3 DEF m
    <3>2. CASE i # k
      BY <1>2, <2>7, <3>2
    <3> QED
      BY <3>1, <3>2
  <2>11. \A i, j \in 1..Len(new) : i < j => Min(D(new[i].name)) < Min(D(new[j].name))
    BY <1>8, <2>5, <2>6, <2>10
  <2>12. Reflects(new, more, kind)
    BY <2>8, <2>9, <2>11 DEF Reflects, D
  <2> QED
    BY <2>3, <2>12 DEF more, call
<1>12. CASE ~ \E i \in 1..Len(listed) : listed[i].name = entry.name
  <2> DEFINE new == Append(listed, entry)
             l == Len(listed) + 1
  <2>1. ReplaceDescriptor(listed, entry) = new
    BY <1>12 DEF ReplaceDescriptor
  <2>2. /\ Len(new) = l /\ new[l] = entry /\ l \in Nat
        /\ \A i \in 1..Len(listed) : new[i] = listed[i]
    OBVIOUS
  <2>3. \A i : i \in 1..l <=> i \in 1..Len(listed) \/ i = l
    OBVIOUS
  <2>4. l \notin 1..Len(listed) /\ \A i \in 1..Len(listed) : i < l
    OBVIOUS
  <2> HIDE DEF new, l
  <2>5. C(entry.name) = {}
    BY <1>7, <1>10, <1>12
  <2>6. D(entry.name) = {n}
    BY <1>2, <2>5
  <2>7. Min(D(entry.name)) = n
    <3>1. {n} \in SUBSET Nat /\ n \in {n} /\ \A m \in {n} : n <= m
      BY <1>2
    <3>2. Min({n}) = n
      BY <3>1, MinIs
    <3> QED
      BY <2>6, <3>2
  <2>8. \A i \in 1..Len(listed) :
          D(listed[i].name) = C(listed[i].name) /\ listed[i].name # entry.name
    BY <1>2, <1>12
  <2>9. \A name \in Names : D(name) # {} <=> \E i \in 1..Len(new) : new[i].name = name
    <3> SUFFICES ASSUME NEW name \in Names
                 PROVE  D(name) # {} <=> \E i \in 1..Len(new) : new[i].name = name
      OBVIOUS
    <3>1. CASE name = entry.name
      BY <2>2, <2>3, <2>6, <3>1
    <3>2. CASE name # entry.name
      <4>1. C(name) # {} <=> \E i \in 1..Len(listed) : listed[i].name = name
        BY <1>10
      <4>2. (\E i \in 1..Len(new) : new[i].name = name) <=> \E i \in 1..Len(listed) : listed[i].name = name
        BY <2>2, <2>3, <3>2
      <4> QED
        BY <1>2, <3>2, <4>1, <4>2
    <3> QED
      BY <3>1, <3>2
  <2>10. ASSUME NEW i \in 1..Len(new)
         PROVE  new[i] = more[Max(D(new[i].name))].entry
    <3>1. CASE i = l
      BY <1>3, <1>6, <2>2, <3>1
    <3>2. CASE i \in 1..Len(listed)
      <4>1. new[i] = listed[i] /\ D(new[i].name) = C(listed[i].name)
        BY <2>2, <2>8, <3>2
      <4>2. Max(C(listed[i].name)) \in 1..Len(calls)
        BY <1>4, <1>5, <3>2
      <4>3. more[Max(C(listed[i].name))] = calls[Max(C(listed[i].name))]
        BY <1>2, <4>2
      <4> QED
        BY <1>9, <3>2, <4>1, <4>3
    <3> QED
      BY <2>2, <2>3, <3>1, <3>2
  <2>11. ASSUME NEW i \in 1..Len(new), NEW j \in 1..Len(new), i < j
         PROVE  Min(D(new[i].name)) < Min(D(new[j].name))
    <3>1. i \in 1..Len(listed)
      BY <2>2, <2>3, <2>4, <2>11
    <3>2. new[i] = listed[i] /\ D(new[i].name) = C(listed[i].name)
      BY <2>2, <2>8, <3>1
    <3>3. CASE j \in 1..Len(listed)
      <4>1. new[j] = listed[j] /\ D(new[j].name) = C(listed[j].name)
        BY <2>2, <2>8, <3>3
      <4> QED
        BY <1>8, <2>11, <3>1, <3>2, <3>3, <4>1
    <3>4. CASE j = l
      <4>1. Min(C(listed[i].name)) \in 1..Len(calls)
        BY <1>4, <1>5, <3>1
      <4>2. Min(C(listed[i].name)) < Len(calls) + 1
        BY <1>7, <4>1
      <4> QED
        BY <2>2, <2>7, <3>2, <3>4, <4>2
    <3> QED
      BY <2>2, <2>3, <3>3, <3>4
  <2>12. Reflects(new, more, kind)
    BY <2>9, <2>10, <2>11 DEF Reflects, D
  <2> QED
    BY <2>1, <2>12 DEF more, call
<1> QED
  BY <1>11, <1>12
-----------------------------------------------------------------------------
(* The server's answers *)

LEMMA ListsDiffer ==
  /\ Lists \in [Kinds -> Listed]
  /\ \A kind, other \in Kinds : Lists[kind] = Lists[other] => kind = other
  /\ "initialize" \notin Listed
<1>1. Kinds = {"tools", "resources", "prompts"}
  BY DEF Kinds
<1>2. Lists["tools"] = "tools/list" /\ Lists["resources"] = "resources/list" /\ Lists["prompts"] = "prompts/list"
  BY <1>1 DEF Lists
<1>3. Listed = {"tools/list", "resources/list", "prompts/list"}
  BY <1>1, <1>2 DEF Listed
<1>4. Lists \in [Kinds -> Listed]
  BY <1>1, <1>2, <1>3 DEF Lists
<1> QED
  BY <1>1, <1>2, <1>3, <1>4

LEMMA MethodsAre == AllMethods \subseteq Strings
<1>1. Listed \subseteq Strings /\ "initialize" \in Strings
  BY TokensWritten, LiteralsAre DEF Literals
<1> QED
  BY <1>1, ConstantsAssumption DEF AllMethods

\* What a user handler returns is a value.
LEMMA ResultIsValue ==
  ASSUME NEW result \in Results
  PROVE  IsValue(result)
<1> DEFINE n == Len(result)
           o(i) == OpenOf(result, Opening, 1, i)
           c(i) == CloseOf(result, Opening, 1, i)
<1>1. result \in Seq(Tokens) /\ IsStructured(result) /\ result[1] = "lbrace" /\ n \in Nat
  BY ConstantsAssumption
<1>2. Matched(result, 1, n)
  BY <1>1, StructuredMatched
<1>3. n > 1 /\ result[n] = "rbrace"
  <2>1. PICK f : Pairs(result, 1, n, f)
    BY <1>2 DEF Matched
  <2>2. 1 < n
    BY <1>2 DEF Matched
  <2>3. result[n] = Closer(result[1])
    BY <2>1 DEF Pairs
  <2> QED
    BY <1>1, <2>2, <2>3 DEF Closer
<1>4. Depth(result, n) = 0
  BY <1>1, <1>2, MatchedEven DEF Even
<1>5. ASSUME NEW i \in 1..n - 1
      PROVE  Depth(result, i) > 0
  <2>1. Cardinality(c(i)) # Cardinality(o(i)) /\ Cardinality(c(i)) <= Cardinality(o(i))
    <3>1. result[1] \in Opening
      BY <1>1 DEF Opening
    <3> QED
      BY <1>2, <3>1, MatchedCounts
  <2>2. Cardinality(o(i)) \in Nat /\ Cardinality(c(i)) \in Nat
    <3>1. IsFiniteSet(1..i)
      BY FS_Interval
    <3>2. o(i) \in SUBSET (1..i) /\ c(i) \in SUBSET (1..i)
      BY DEF OpenOf, CloseOf
    <3> QED
      BY <3>1, <3>2, FS_Subset, FS_CardinalityType
  <2>3. Depth(result, i) = Cardinality(o(i)) - Cardinality(c(i))
    <3>1. {Closer(t) : t \in Opening} = Closing
      BY DEF Opening, Closing, Closer
    <3>2. o(i) = {j \in 1..i : result[j] \in Opening} /\ c(i) = {j \in 1..i : result[j] \in Closing}
      BY <3>1 DEF OpenOf, CloseOf
    <3> QED
      BY <3>2 DEF Depth
  <2> HIDE DEF o, c
  <2> QED
    BY <2>1, <2>2, <2>3
<1> QED
  BY <1>1, <1>3, <1>4, <1>5 DEF IsValue

\* Every answer of the library's own is one response.
LEMMA RouteAnswers ==
  ASSUME TypeOK, NEW id, NEW method
  PROVE  \E key, v :
           /\ key \in {"result", "error"} /\ IsValue(v)
           /\ LibraryAnswer(id, method) = Response(id, key, v)
<1>1. CASE method = "initialize" /\ auto_handle_initialize
  <2>1. LibraryAnswer(id, method) = Response(id, "result", InitializeResult)
    BY <1>1 DEF LibraryAnswer, ResponseText
  <2> QED
    BY <2>1, InitializeResultIsValue
<1>2. CASE ~ (method = "initialize" /\ auto_handle_initialize) /\ method \in Listed
  <2> DEFINE kind == CHOOSE kind \in Kinds : Lists[kind] = method
  <2>1. kind \in Kinds
    BY <1>2 DEF Listed
  <2>2. LibraryAnswer(id, method) = Response(id, "result", ListText(kind, registry[kind]))
    BY <1>2 DEF LibraryAnswer, ResponseText, ListResult
  <2> HIDE DEF kind
  <2>3. registry[kind] \in Seq(Entry)
    BY <2>1 DEF TypeOK
  <2>4. IsValue(ListText(kind, registry[kind]))
    BY <2>1, <2>3, ListIsValue
  <2> QED
    BY <2>2, <2>4
<1>3. CASE ~ (method = "initialize" /\ auto_handle_initialize) /\ method \notin Listed
  <2>1. LibraryAnswer(id, method) = Response(id, "error", ErrorValue("-32601", "method_not_found"))
    BY <1>3 DEF LibraryAnswer, ErrorText, ErrorValue
  <2> QED
    BY <2>1, ErrorIsValue
<1> QED
  BY <1>1, <1>2, <1>3

LEMMA RouteLists ==
  ASSUME NEW id, NEW kind \in Kinds
  PROVE  LibraryAnswer(id, Lists[kind]) = Response(id, "result", ListText(kind, registry[kind]))
<1>1. Lists[kind] \in Listed /\ Lists[kind] # "initialize"
  BY ListsDiffer
<1>2. (CHOOSE other \in Kinds : Lists[other] = Lists[kind]) = kind
  BY ListsDiffer
<1> QED
  BY <1>1, <1>2 DEF LibraryAnswer, ResponseText, ListResult

\* What is sent for a request: the library's answer, what a handler returned, or
\* nothing when the handler threw.
LEMMA Routed ==
  ASSUME TypeOK, NEW id, NEW method, NEW params, Route(id, method, params)
  PROVE  /\ threw' \in BOOLEAN
         /\ seen' = IF ByHandler(method)
                    THEN [by |-> "handler", id |-> id, method |-> <<method>>, params |-> params]
                    ELSE Nothing
         /\ ~ByHandler(method) => answer' = LibraryAnswer(id, method)
         /\ threw' => ByHandler(method) /\ answer' = Absent
         /\ ~threw' => \E key, v :
              /\ key \in {"result", "error"} /\ IsValue(v) /\ answer' = Response(id, key, v)
              /\ ByHandler(method) => key = "result" /\ v \in Results
<1>1. CASE ~ByHandler(method)
  <2>1. answer' = LibraryAnswer(id, method) /\ seen' = Nothing /\ threw' = FALSE
    BY <1>1 DEF Route
  <2>2. PICK key, v : /\ key \in {"result", "error"} /\ IsValue(v)
                      /\ LibraryAnswer(id, method) = Response(id, key, v)
    BY RouteAnswers
  <2> QED
    BY <1>1, <2>1, <2>2
<1>2. CASE ByHandler(method)
  <2>1. seen' = [by |-> "handler", id |-> id, method |-> <<method>>, params |-> params]
    BY <1>2 DEF Route
  <2>2. CASE threw' = TRUE /\ answer' = Absent
    BY <1>2, <2>1, <2>2
  <2>3. ASSUME threw' = FALSE, NEW result \in Results, answer' = ResponseText(id, result)
        PROVE  \E key, v :
                 /\ key \in {"result", "error"} /\ IsValue(v) /\ answer' = Response(id, key, v)
                 /\ key = "result" /\ v \in Results
    BY <2>3, ResultIsValue DEF ResponseText
  <2> QED
    BY <1>2, <2>1, <2>2, <2>3 DEF Route
<1> QED
  BY <1>1, <1>2

LEMMA TotalDepth ==
  ASSUME NEW s \in Seq(Tokens), NEW t \in Seq(Tokens)
  PROVE  /\ s \o t \in Seq(Tokens)
         /\ Depth(s \o t, Len(s \o t)) = Depth(s, Len(s)) + Depth(t, Len(t))
         /\ Len(s) > 0 => Len(s \o t) > 0 /\ (s \o t)[1] = s[1]
<1>1. /\ s \o t \in Seq(Tokens) /\ Len(s \o t) = Len(s) + Len(t)
      /\ \A j \in 0..Len(t) : Depth(s \o t, Len(s) + j) = Depth(s, Len(s)) + Depth(t, j)
  BY ConcatDepth
<1>2. Len(t) \in 0..Len(t) /\ Len(s) \in Nat /\ Len(t) \in Nat
  OBVIOUS
<1>3. \A i \in 1..Len(s) + Len(t) : (s \o t)[i] = IF i <= Len(s) THEN s[i] ELSE t[i - Len(s)]
  BY ConcatProperties
<1>4. Len(s) > 0 => Len(s \o t) > 0 /\ (s \o t)[1] = s[1]
  BY <1>1, <1>2, <1>3
<1> QED
  BY <1>1, <1>2, <1>4

LEMMA BraceDepths ==
  /\ <<"lbrace">> \in Seq(Tokens) /\ Depth(<<"lbrace">>, Len(<<"lbrace">>)) = 1
  /\ <<"rbrace">> \in Seq(Tokens) /\ Depth(<<"rbrace">>, Len(<<"rbrace">>)) = -1
<1>1. ASSUME NEW token \in Tokens
      PROVE  /\ <<token>> \in Seq(Tokens)
             /\ Depth(<<token>>, Len(<<token>>)) = Weight(token)
  <2>1. Len(<<token>>) = 0 + 1 /\ <<token>>[0 + 1] = token
    OBVIOUS
  <2>2. /\ Depth(<<token>>, 0) = 0
        /\ Depth(<<token>>, 0 + 1) = Depth(<<token>>, 0) + Weight(<<token>>[0 + 1])
    BY DepthStep
  <2>3. Weight(token) \in Int
    BY DEF Weight
  <2> QED
    BY <2>1, <2>2, <2>3
<1> QED
  BY <1>1, TokensWritten, TokenWeights

\* A response to whatever was taken for an id.
LEMMA ResponseEven ==
  ASSUME NEW id, Even(id), NEW key \in {"result", "error"}, NEW v, IsValue(v)
  PROVE  Response(id, key, v)[1] = "lbrace" /\ Even(Response(id, key, v))
<1> DEFINE before == <<"jsonrpc", "colon", "2.0", "comma", "id", "colon">>
           between == <<"comma", key, "colon">>
           open == <<"lbrace">>
           close == <<"rbrace">>
           text == open \o before \o id \o between \o v \o close
<1>1. {"jsonrpc", "colon", "2.0", "comma", "id", key} \subseteq Flat
  BY FlatTokens, LiteralsAre
<1>2. before \in Seq(Flat) /\ between \in Seq(Flat)
  BY <1>1
<1> HIDE DEF before, between
<1>3. Even(before) /\ Even(between)
  BY <1>2, FlatIsLevel DEF Level, Even
<1>4. Even(v)
  BY DEF IsValue, Even
<1>5. /\ open \in Seq(Tokens) /\ Depth(open, Len(open)) = 1
      /\ close \in Seq(Tokens) /\ Depth(close, Len(close)) = -1
  BY BraceDepths
<1>6. Response(id, key, v) = text
  <2>1. <<"lbrace", "jsonrpc", "colon", "2.0", "comma", "id", "colon">> = open \o before
    BY DEF before
  <2> QED
    BY <2>1 DEF Response, between
<1>7. Len(open) > 0 /\ open[1] = "lbrace"
  OBVIOUS
<1> HIDE DEF open, close
<1> DEFINE t1 == open \o before
           t2 == t1 \o id
           t3 == t2 \o between
           t4 == t3 \o v
<1>8. t1 \in Seq(Tokens) /\ Depth(t1, Len(t1)) = 1 /\ Len(t1) > 0 /\ t1[1] = "lbrace"
  <2>1. before \in Seq(Tokens) /\ Depth(before, Len(before)) = 0
    BY <1>3 DEF Even
  <2>2. open \in Seq(Tokens)
    BY <1>5
  <2>3. /\ open \o before \in Seq(Tokens)
        /\ Depth(open \o before, Len(open \o before)) = Depth(open, Len(open)) + Depth(before, Len(before))
        /\ Len(open) > 0 => Len(open \o before) > 0 /\ (open \o before)[1] = open[1]
    BY <2>1, <2>2, TotalDepth
  <2> HIDE DEF t1
  <2> QED
    BY <1>5, <1>7, <2>1, <2>3 DEF t1
<1> HIDE DEF t1
<1>9. t2 \in Seq(Tokens) /\ Depth(t2, Len(t2)) = 1 /\ Len(t2) > 0 /\ t2[1] = "lbrace"
  BY <1>8, TotalDepth DEF Even
<1> HIDE DEF t2
<1>10. t3 \in Seq(Tokens) /\ Depth(t3, Len(t3)) = 1 /\ Len(t3) > 0 /\ t3[1] = "lbrace"
  BY <1>3, <1>9, TotalDepth DEF Even
<1> HIDE DEF t3
<1>11. t4 \in Seq(Tokens) /\ Depth(t4, Len(t4)) = 1 /\ Len(t4) > 0 /\ t4[1] = "lbrace"
  BY <1>4, <1>10, TotalDepth DEF Even
<1> HIDE DEF t4
<1>12. Even(t4 \o close) /\ (t4 \o close)[1] = "lbrace"
  BY <1>5, <1>11, TotalDepth DEF Even
<1>13. text = t4 \o close
  BY DEF t4, t3, t2, t1
<1> HIDE DEF text
<1> QED
  BY <1>6, <1>12, <1>13
-----------------------------------------------------------------------------
(* Routing *)

\* The properties speak of the last message only; that the registries reflect the
\* history at all times is what the next request for a list rests on.
RoutingInv ==
  /\ TypeOK
  /\ \A kind \in Kinds : UpToDate(kind)
  /\ RequestsAnswered
  /\ HandlersSeeTheMessage
  /\ ListsTheRegistered

LEMMA RoutingInit == Init => RoutingInv
<1> SUFFICES ASSUME Init
             PROVE  RoutingInv
  OBVIOUS
<1>1. TypeOK
  <2>1. threw \in BOOLEAN /\ auto_handle_initialize \in BOOLEAN
    BY DEF Init
  <2>2. message = NoMessage /\ seen = Nothing /\ answer = Absent
    BY DEF Init
  <2>3. /\ request_handlers \subseteq Handled /\ registry \in [Kinds -> Seq(Entry)]
        /\ registered \in Seq([kind : Kinds, entry : Entry])
    BY DEF Init
  <2> QED
    BY <2>1, <2>2, <2>3 DEF TypeOK
<1>2. message.id = Absent
  BY DEF Init, NoMessage
<1>3. RequestsAnswered /\ HandlersSeeTheMessage /\ ListsTheRegistered
  BY <1>2 DEF RequestsAnswered, HandlersSeeTheMessage, ListsTheRegistered
<1>4. \A kind \in Kinds : UpToDate(kind)
  <2> SUFFICES ASSUME NEW kind \in Kinds
               PROVE  UpToDate(kind)
    OBVIOUS
  <2>1. registry[kind] = <<>> /\ registered = <<>>
    BY DEF Init
  <2>2. Len(<<>>) = 0 /\ 1..0 = {}
    OBVIOUS
  <2>3. Reflects(<<>>, <<>>, kind)
    BY <2>2 DEF Reflects, Calls
  <2> QED
    BY <2>1, <2>3, UpToDateIs
<1> QED
  BY <1>1, <1>3, <1>4 DEF RoutingInv

LEMMA Forgotten ==
  ASSUME Forget
  PROVE  /\ RequestsAnswered' /\ HandlersSeeTheMessage' /\ ListsTheRegistered'
         /\ DOMAIN message' = DOMAIN NoMessage /\ DOMAIN seen' = DOMAIN Nothing
         /\ threw' \in BOOLEAN /\ answer' = Absent
<1>1. message'.id = Absent
  BY DEF Forget, NoMessage
<1> QED
  BY <1>1 DEF Forget, RequestsAnswered, HandlersSeeTheMessage, ListsTheRegistered

LEMMA UpToDateSame ==
  ASSUME \A kind \in Kinds : UpToDate(kind), UNCHANGED <<registry, registered>>
  PROVE  \A kind \in Kinds : UpToDate(kind)'
  BY DEF UpToDate

LEMMA HandlersChange ==
  ASSUME RoutingInv, NEW method \in Handled, SetRequestHandler(method) \/ ClearRequestHandler(method)
  PROVE  RoutingInv'
<1>1. Forget /\ UNCHANGED <<auto_handle_initialize, registry, registered>> /\ request_handlers' \subseteq Handled
  BY DEF RoutingInv, TypeOK, SetRequestHandler, ClearRequestHandler
<1>2. /\ RequestsAnswered' /\ HandlersSeeTheMessage' /\ ListsTheRegistered'
      /\ DOMAIN message' = DOMAIN NoMessage /\ DOMAIN seen' = DOMAIN Nothing
      /\ threw' \in BOOLEAN /\ answer' = Absent
  BY <1>1, Forgotten
<1>3. \A kind \in Kinds : UpToDate(kind)'
  BY <1>1, UpToDateSame DEF RoutingInv
<1>4. TypeOK'
  BY <1>1, <1>2 DEF RoutingInv, TypeOK
<1> QED
  BY <1>2, <1>3, <1>4 DEF RoutingInv

LEMMA Registers ==
  ASSUME RoutingInv, NEW kind \in Kinds, NEW entry \in Entry, Register(kind, entry)
  PROVE  RoutingInv'
<1> DEFINE call == [kind |-> kind, entry |-> entry]
<1>1. /\ Forget /\ UNCHANGED <<auto_handle_initialize, request_handlers>>
      /\ registered' = Append(registered, call)
      /\ registry' = [registry EXCEPT ![kind] = ReplaceDescriptor(registry[kind], entry)]
  BY DEF Register
<1>2. registry \in [Kinds -> Seq(Entry)] /\ registered \in Seq(Call)
  BY DEF RoutingInv, TypeOK, Call
<1>3. /\ RequestsAnswered' /\ HandlersSeeTheMessage' /\ ListsTheRegistered'
      /\ DOMAIN message' = DOMAIN NoMessage /\ DOMAIN seen' = DOMAIN Nothing
      /\ threw' \in BOOLEAN /\ answer' = Absent
  BY <1>1, Forgotten
<1>4. call \in Call /\ call.kind = kind
  BY DEF Call
<1>5. registry[kind] \in Seq(Entry)
  BY <1>2
<1>6. ReplaceDescriptor(registry[kind], entry) \in Seq(Entry)
  BY <1>5, ReplaceType
<1>7. registry' \in [Kinds -> Seq(Entry)]
  BY <1>1, <1>2, <1>6
<1>8. registered' \in Seq(Call)
  <2> HIDE DEF call
  <2> QED
    BY <1>1, <1>2, <1>4
<1>9. TypeOK'
  BY <1>1, <1>3, <1>7, <1>8 DEF RoutingInv, TypeOK, Call
<1>10. ASSUME NEW k \in Kinds
       PROVE  UpToDate(k)'
  <2>1. Reflects(registry[k], registered, k)
    BY UpToDateIs DEF RoutingInv
  <2>2. CASE k = kind
    <3>1. registry'[k] = ReplaceDescriptor(registry[k], entry)
      BY <1>1, <1>2, <2>2
    <3>2. Reflects(ReplaceDescriptor(registry[k], entry), Append(registered, [kind |-> k, entry |-> entry]), k)
      BY <1>2, <1>5, <2>1, <2>2, ReflectsReplaced
    <3>3. Reflects(registry'[k], registered', k)
      BY <1>1, <2>2, <3>1, <3>2
    <3> QED
      BY <3>3 DEF UpToDate, Reflects, Calls
  <2>3. CASE k # kind
    <3>1. registry'[k] = registry[k] /\ registry[k] \in Seq(Entry)
      BY <1>1, <1>2, <2>3
    <3>2. Reflects(registry[k], Append(registered, call), k)
      <4> HIDE DEF call
      <4> QED
        BY <1>2, <1>4, <2>1, <2>3, <3>1, ReflectsOther
    <3>3. Reflects(registry'[k], registered', k)
      BY <1>1, <3>1, <3>2
    <3> QED
      BY <3>3 DEF UpToDate, Reflects, Calls
  <2> QED
    BY <2>2, <2>3
<1> QED
  BY <1>3, <1>9, <1>10 DEF RoutingInv

LEMMA Requests ==
  ASSUME RoutingInv, NEW id \in Ids, NEW method \in AllMethods, NEW params \in Params,
         ClientRequest(id, method, params)
  PROVE  RoutingInv'
<1> DEFINE text == RequestText(id, method, params)
           call == [by |-> "handler", id |-> <<id>>, method |-> <<method>>, params |-> OrEmpty(params)]
<1>1. id \in Atoms /\ method \in Strings
  BY MethodsAre, ConstantsAssumption
<1>2. /\ ExtractMember(text, "id") = <<id>>
      /\ ExtractString(text, "method") = <<method>>
      /\ ExtractMember(text, "params") = OrEmpty(params)
  BY <1>1, RequestFound
<1>3. OrEmpty(OrEmpty(params)) = OrEmpty(params)
  BY DEF OrEmpty
<1>4. <<id>> # Absent /\ <<method>> # Absent /\ <<method>>[1] = method
  BY DEF Absent
<1>5. /\ message' = [text |-> text, id |-> <<id>>, method |-> <<method>>, params |-> OrEmpty(params)]
      /\ OnTransportMessage(text)
      /\ UNCHANGED <<auto_handle_initialize, request_handlers, registry, registered>>
  BY DEF ClientRequest, Sent
<1> HIDE DEF text
<1>6. Route(<<id>>, method, OrEmpty(params))
  BY <1>2, <1>3, <1>4, <1>5 DEF OnTransportMessage
<1>7. TypeOK
  BY DEF RoutingInv
<1>8. /\ threw' \in BOOLEAN
      /\ seen' = IF ByHandler(method) THEN call ELSE Nothing
      /\ ~ByHandler(method) => answer' = LibraryAnswer(<<id>>, method)
      /\ threw' => ByHandler(method) /\ answer' = Absent
  BY <1>6, <1>7, Routed
<1>9. ASSUME ~threw'
      PROVE  /\ Member(answer', "id") = <<id>>
             /\ (Member(answer', "result") = Absent) # (Member(answer', "error") = Absent)
             /\ ByHandler(method) => Member(answer', "result") \in Results
             /\ answer'[1] = "lbrace" /\ Depth(answer', Len(answer')) = 0
  <2>1. PICK key, v :
          /\ key \in {"result", "error"} /\ IsValue(v) /\ answer' = Response(<<id>>, key, v)
          /\ ByHandler(method) => key = "result" /\ v \in Results
    BY <1>6, <1>7, <1>9, Routed
  <2>2. LET answered == Response(<<id>>, key, v)
        IN /\ Member(answered, "id") = <<id>>
           /\ Member(answered, key) = v
           /\ \A other \in {"result", "error"} \ {key} : Member(answered, other) = Absent
           /\ answered[1] = "lbrace" /\ Depth(answered, Len(answered)) = 0
    BY <1>1, <2>1, Answered
  <2>3. v # Absent
    BY <2>1 DEF IsValue, Absent
  <2>4. key = "result" \/ key = "error"
    BY <2>1
  <2>5. (Member(answer', "result") = Absent) # (Member(answer', "error") = Absent)
    BY <2>1, <2>2, <2>3, <2>4
  <2> QED
    BY <2>1, <2>2, <2>5
<1>11. TypeOK'
  <2>1. DOMAIN message' = DOMAIN NoMessage
    BY <1>5 DEF NoMessage
  <2>2. DOMAIN seen' = DOMAIN Nothing
    BY <1>8 DEF Nothing
  <2>3. answer' = Absent \/ (answer'[1] = "lbrace" /\ Depth(answer', Len(answer')) = 0)
    BY <1>8, <1>9
  <2> QED
    BY <1>5, <1>7, <1>8, <2>1, <2>2, <2>3 DEF TypeOK
<1>12. \A kind \in Kinds : UpToDate(kind)'
  BY <1>5, UpToDateSame DEF RoutingInv
<1>13. RequestsAnswered'
  <2>1. message'.id = <<id>>
    BY <1>5
  <2>2. call.by = "handler" /\ Nothing.by # "handler"
    BY DEF Nothing
  <2>3. CASE threw'
    BY <1>8, <2>2, <2>3 DEF RequestsAnswered
  <2>4. CASE ~threw'
    BY <1>8, <1>9, <2>1, <2>2, <2>4 DEF RequestsAnswered
  <2> QED
    BY <2>3, <2>4
<1>14. HandlersSeeTheMessage'
  <2>1. seen'.by = "handler" => seen' = call
    BY <1>8 DEF Nothing
  <2> QED
    BY <1>5, <2>1 DEF HandlersSeeTheMessage
<1>15. ListsTheRegistered'
  <2> SUFFICES ASSUME NEW kind \in Kinds, message'.method = <<Lists[kind]>>
               PROVE  /\ Member(answer', "result") = ListText(kind, registry'[kind])
                      /\ UpToDate(kind)'
                      /\ seen' = Nothing
    BY DEF ListsTheRegistered
  <2>1. method = Lists[kind]
    BY <1>5
  <2>2. ~ByHandler(method)
    BY <2>1, ListsDiffer DEF ByHandler
  <2>3. answer' = Response(<<id>>, "result", ListText(kind, registry[kind]))
    BY <1>8, <2>1, <2>2, RouteLists
  <2>4. registry[kind] \in Seq(Entry)
    BY <1>7 DEF TypeOK
  <2>5. IsValue(ListText(kind, registry[kind]))
    BY <2>4, ListIsValue
  <2>6. Member(answer', "result") = ListText(kind, registry[kind])
    BY <1>1, <2>3, <2>5, Answered
  <2> QED
    BY <1>5, <1>8, <1>12, <2>2, <2>6
<1> QED
  BY <1>11, <1>12, <1>13, <1>14, <1>15 DEF RoutingInv

LEMMA Notifications ==
  ASSUME RoutingInv, NEW method \in AllMethods, NEW params \in Params, ClientNotify(method, params)
  PROVE  RoutingInv'
<1> DEFINE text == NotificationText(method, params)
           id == ExtractMember(text, "id")
<1>1. method \in Strings
  BY MethodsAre
<1>2. ExtractString(text, "method") = <<method>> /\ (id # Absent => Even(id))
  BY <1>1, NotificationFound
<1>3. <<method>> # Absent /\ <<method>>[1] = method
  BY DEF Absent
<1>4. /\ message' = [text |-> text, id |-> Absent, method |-> <<method>>, params |-> OrEmpty(params)]
      /\ OnTransportMessage(text)
      /\ UNCHANGED <<auto_handle_initialize, request_handlers, registry, registered>>
  BY DEF ClientNotify, Sent
<1> HIDE DEF text
<1> DEFINE sent == OrEmpty(ExtractMember(text, "params"))
<1>5. IF id = Absent
      THEN answer' = Absent /\ threw' \in BOOLEAN /\ DOMAIN seen' = DOMAIN Nothing
      ELSE Route(id, method, sent)
  BY <1>2, <1>3, <1>4 DEF OnTransportMessage, Nothing
<1> HIDE DEF id, sent
<1>6. TypeOK
  BY DEF RoutingInv
<1>12. threw' \in BOOLEAN /\ DOMAIN seen' = DOMAIN Nothing
  <2>1. CASE id = Absent
    BY <1>5, <2>1
  <2>2. CASE id # Absent
    <3>1. /\ threw' \in BOOLEAN
          /\ \/ seen' = Nothing
             \/ seen' = [by |-> "handler", id |-> id, method |-> <<method>>, params |-> sent]
      BY <1>5, <1>6, <2>2, Routed
    <3> QED
      BY <3>1 DEF Nothing
  <2> QED
    BY <2>1, <2>2
<1>7. answer' = Absent \/ (answer'[1] = "lbrace" /\ Depth(answer', Len(answer')) = 0)
  <2>1. CASE id = Absent
    BY <1>5, <2>1
  <2>2. CASE id # Absent
    <3> SUFFICES ASSUME ~threw'
                 PROVE  answer'[1] = "lbrace" /\ Depth(answer', Len(answer')) = 0
      BY <1>5, <1>6, <1>12, <2>2, Routed
    <3>1. PICK key, v : key \in {"result", "error"} /\ IsValue(v)
                      /\ answer' = Response(id, key, v)
      BY <1>5, <1>6, <2>2, Routed
    <3>2. Response(id, key, v)[1] = "lbrace" /\ Even(Response(id, key, v))
      BY <1>2, <2>2, <3>1, ResponseEven
    <3> QED
      BY <3>1, <3>2 DEF Even
  <2> QED
    BY <2>1, <2>2
<1>8. TypeOK'
  <2>1. DOMAIN message' = DOMAIN NoMessage
    BY <1>4 DEF NoMessage
  <2> QED
    BY <1>4, <1>6, <1>7, <1>12, <2>1 DEF TypeOK
<1>9. message'.id = Absent
  BY <1>4
<1>10. RequestsAnswered' /\ HandlersSeeTheMessage' /\ ListsTheRegistered'
  BY <1>9 DEF RequestsAnswered, HandlersSeeTheMessage, ListsTheRegistered
<1>11. \A kind \in Kinds : UpToDate(kind)'
  BY <1>4, UpToDateSame DEF RoutingInv
<1> QED
  BY <1>8, <1>10, <1>11 DEF RoutingInv

LEMMA RoutingStays ==
  ASSUME RoutingInv, UNCHANGED vars
  PROVE  RoutingInv'
<1>1. UNCHANGED <<auto_handle_initialize, request_handlers, registry, registered, message, seen,
                 threw, answer>>
  BY DEF vars
<1>2. TypeOK'
  BY <1>1 DEF RoutingInv, TypeOK
<1>3. \A kind \in Kinds : UpToDate(kind)'
  BY <1>1, UpToDateSame DEF RoutingInv
<1>4. RequestsAnswered' /\ HandlersSeeTheMessage'
  BY <1>1 DEF RoutingInv, RequestsAnswered, HandlersSeeTheMessage
<1>5. ListsTheRegistered'
  BY <1>1, <1>3 DEF RoutingInv, ListsTheRegistered
<1> QED
  BY <1>2, <1>3, <1>4, <1>5 DEF RoutingInv

\* The server keeps RoutingInv: registration leaves the lists up to date, and every
\* message is answered as the properties say (on_transport_message, handle_request,
\* replace_descriptor).
THEOREM RoutingInvariant == Spec => []RoutingInv
<1>1. ASSUME RoutingInv, Next
      PROVE  RoutingInv'
  <2>1. CASE \E method \in Handled : SetRequestHandler(method) \/ ClearRequestHandler(method)
    BY <1>1, <2>1, HandlersChange
  <2>2. CASE \E kind \in Kinds, entry \in Entry : Register(kind, entry)
    BY <1>1, <2>2, Registers
  <2>3. CASE \E method \in AllMethods, params \in Params, id \in Ids : ClientRequest(id, method, params)
    BY <1>1, <2>3, Requests
  <2>4. CASE \E method \in AllMethods, params \in Params : ClientNotify(method, params)
    BY <1>1, <2>4, Notifications
  <2> QED
    BY <1>1, <2>1, <2>2, <2>3, <2>4 DEF Next
<1>2. RoutingInv /\ [Next]_vars => RoutingInv'
  BY <1>1, RoutingStays
<1> QED
  BY <1>2, RoutingInit, PTL DEF Spec

\* Every answer is one object whose brackets match, after whatever the server took
\* for an id (build_response_message, build_error_message).
THEOREM RoutingTypeCorrect == Spec => []TypeOK
<1>1. RoutingInv => TypeOK
  BY DEF RoutingInv
<1> QED
  BY <1>1, RoutingInvariant, PTL

\* A request of the client is answered with its id and either a result or an error,
\* and the result of a handler is what the handler returned, unless the handler
\* throws, when nothing is sent: for params of any length that are JSON as far as
\* brackets and members go (extract_json_member finds the id and the method before
\* it comes to the params), and for handlers that return any object.
THEOREM EveryRequestAnswered == Spec => []RequestsAnswered
<1>1. RoutingInv => RequestsAnswered
  BY DEF RoutingInv
<1> QED
  BY <1>1, RoutingInvariant, PTL

\* A request handler is called with the id, the method and the params that the
\* client sent, although extract_json_member looks for members by text.
THEOREM HandlersGetTheMessage == Spec => []HandlersSeeTheMessage
<1>1. RoutingInv => HandlersSeeTheMessage
  BY DEF RoutingInv
<1> QED
  BY <1>1, RoutingInvariant, PTL

\* The automatic lists show each key once, in the order of first registration and
\* with the latest revision, after any registrations (replace_descriptor,
\* build_list_result_json).
THEOREM ListsUpToDate == Spec => []ListsTheRegistered
<1>1. RoutingInv => ListsTheRegistered
  BY DEF RoutingInv
<1> QED
  BY <1>1, RoutingInvariant, PTL
-----------------------------------------------------------------------------
(* Events: what a parser has accumulated and emitted after each line *)

\* What may be accumulated, and the lines of a body that such texts make.
Texts == Seq(Contents)

LineKinds ==
  Noise \cup {Blank, Line("event", "message")} \cup {Line("data", value) : value \in Contents}

Flushed(a, e) == IF a = NoText THEN e ELSE Append(e, a)

After(line, a) ==
  IF line.field = "blank" THEN NoText
  ELSE IF line.field = "data" THEN Accumulated(a, line.value) ELSE a

Emits(line, a, e) == IF line.field = "blank" THEN Flushed(a, e) ELSE e

\* A and E are what is accumulated and emitted after the first lines; whatever is
\* emitted are the first of the messages.
Follows(A, E, lines, all) ==
  /\ A[0] = NoText /\ E[0] = <<>>
  /\ \A j \in 1..Len(lines) :
       A[j] = After(lines[j], A[j - 1]) /\ E[j] = Emits(lines[j], A[j - 1], E[j - 1])
  /\ \A j \in 0..Len(lines) : E[j] \in Seq(Texts) /\ IsPrefix(E[j], all)

Parsed(lines, a, e, all) ==
  \E A, E : Follows(A, E, lines, all) /\ A[Len(lines)] = a /\ E[Len(lines)] = e

LEMMA PrefixGrows ==
  ASSUME NEW s \in Seq(Texts), NEW all \in Seq(Texts), NEW text \in Texts, IsPrefix(s, all)
  PROVE  IsPrefix(s, Append(all, text))
<1>1. Len(s) \in Nat /\ Len(all) \in Nat /\ Len(s) <= Len(all)
  BY DEF IsPrefix
<1>2. /\ Append(all, text) \in Seq(Texts) /\ Len(Append(all, text)) = Len(all) + 1
      /\ \A i \in 1..Len(all) : Append(all, text)[i] = all[i]
  OBVIOUS
<1>3. SubSeq(Append(all, text), 1, Len(s)) = SubSeq(all, 1, Len(s))
  <2>1. \A i \in 1..Len(s) : all[i] \in Texts /\ Append(all, text)[i] = all[i]
    BY <1>1, <1>2
  <2>2. \A i \in 1..Len(s) : Append(all, text)[i] \in Texts
    BY <2>1
  <2>3. /\ SubSeq(all, 1, Len(s)) \in Seq(Texts) /\ Len(SubSeq(all, 1, Len(s))) = Len(s)
        /\ \A i \in 1..Len(s) : SubSeq(all, 1, Len(s))[i] = all[i]
    BY <1>1, <2>1, SubSeqProperties
  <2>4. /\ SubSeq(Append(all, text), 1, Len(s)) \in Seq(Texts)
        /\ Len(SubSeq(Append(all, text), 1, Len(s))) = Len(s)
        /\ \A i \in 1..Len(s) : SubSeq(Append(all, text), 1, Len(s))[i] = Append(all, text)[i]
    BY <1>1, <2>2, SubSeqProperties
  <2> QED
    BY <2>1, <2>3, <2>4, SeqEqual
<1> QED
  BY <1>1, <1>2, <1>3 DEF IsPrefix

LEMMA PrefixSelf ==
  ASSUME NEW all \in Seq(Texts)
  PROVE  IsPrefix(all, all) /\ IsPrefix(<<>>, all)
<1>1. Len(<<>>) = 0 /\ Len(all) \in Nat
  OBVIOUS
<1>2. SubSeq(<<>>, 1, 0) = <<>> /\ SubSeq(all, 1, 0) = <<>>
  BY SubSeqEmpty
<1> QED
  BY <1>1, <1>2 DEF IsPrefix

LEMMA NothingParsed ==
  ASSUME NEW all \in Seq(Texts)
  PROVE  Parsed(<<>>, NoText, <<>>, all)
<1> DEFINE A == [j \in {0} |-> NoText]
           E == [j \in {0} |-> <<>>]
<1>1. A[0] = NoText /\ E[0] = <<>>
  OBVIOUS
<1> HIDE DEF A, E
<1>2. Len(<<>>) = 0 /\ 1..0 = {} /\ 0..0 = {0} /\ <<>> \in Seq(Texts)
  OBVIOUS
<1>3. IsPrefix(<<>>, all)
  BY PrefixSelf
<1>4. Follows(A, E, <<>>, all)
  BY <1>1, <1>2, <1>3 DEF Follows
<1> QED
  BY <1>1, <1>2, <1>4 DEF Parsed

\* One line more.
LEMMA LineParsed ==
  ASSUME NEW lines \in Seq(LineKinds), NEW line \in LineKinds, NEW a, NEW e, NEW all,
         Parsed(lines, a, e, all),
         Emits(line, a, e) \in Seq(Texts), IsPrefix(Emits(line, a, e), all)
  PROVE  Parsed(Append(lines, line), After(line, a), Emits(line, a, e), all)
<1>1. PICK A, E : Follows(A, E, lines, all) /\ A[Len(lines)] = a /\ E[Len(lines)] = e
  BY DEF Parsed
<1> DEFINE n == Len(lines)
           more == Append(lines, line)
           B == [j \in 0..n + 1 |-> IF j <= n THEN A[j] ELSE After(line, a)]
           F == [j \in 0..n + 1 |-> IF j <= n THEN E[j] ELSE Emits(line, a, e)]
<1>2. n \in Nat /\ Len(more) = n + 1 /\ more[n + 1] = line /\ \A j \in 1..n : more[j] = lines[j]
  OBVIOUS
<1>3. \A j \in 0..n : B[j] = A[j] /\ F[j] = E[j]
  BY <1>2
<1>4. B[n + 1] = After(line, a) /\ F[n + 1] = Emits(line, a, e)
  BY <1>2
<1> HIDE DEF n, more, B, F
<1>5. B[0] = NoText /\ F[0] = <<>>
  BY <1>1, <1>2, <1>3 DEF Follows
<1>6. ASSUME NEW j \in 1..n + 1
      PROVE  B[j] = After(more[j], B[j - 1]) /\ F[j] = Emits(more[j], B[j - 1], F[j - 1])
  <2>1. CASE j = n + 1
    <3>1. j - 1 = n /\ n \in 0..n
      BY <1>2, <2>1
    <3>2. B[j - 1] = a /\ F[j - 1] = e
      BY <1>1, <1>3, <3>1 DEF n
    <3> QED
      BY <1>2, <1>4, <2>1, <3>2
  <2>2. CASE j # n + 1
    <3>1. j \in 1..n /\ j \in 0..n /\ j - 1 \in 0..n
      BY <1>2, <2>2
    <3>2. A[j] = After(lines[j], A[j - 1]) /\ E[j] = Emits(lines[j], A[j - 1], E[j - 1])
      BY <1>1, <3>1 DEF Follows, n
    <3> QED
      BY <1>2, <1>3, <3>1, <3>2
  <2> QED
    BY <2>1, <2>2
<1>7. ASSUME NEW j \in 0..n + 1
      PROVE  F[j] \in Seq(Texts) /\ IsPrefix(F[j], all)
  <2>1. CASE j = n + 1
    BY <1>4, <2>1
  <2>2. CASE j # n + 1
    <3>1. j \in 0..n
      BY <1>2, <2>2
    <3> QED
      BY <1>1, <1>3, <3>1 DEF Follows, n
  <2> QED
    BY <2>1, <2>2
<1>8. Follows(B, F, more, all)
  BY <1>2, <1>5, <1>6, <1>7 DEF Follows
<1> QED
  BY <1>2, <1>4, <1>8 DEF Parsed, more

\* One more message to come.
LEMMA ParsedGrows ==
  ASSUME NEW lines, NEW a, NEW e, NEW all \in Seq(Texts), NEW text \in Texts, Parsed(lines, a, e, all)
  PROVE  Parsed(lines, a, e, Append(all, text))
<1>1. PICK A, E : Follows(A, E, lines, all) /\ A[Len(lines)] = a /\ E[Len(lines)] = e
  BY DEF Parsed
<1>2. \A j \in 0..Len(lines) : IsPrefix(E[j], Append(all, text))
  BY <1>1, PrefixGrows DEF Follows
<1>3. Follows(A, E, lines, Append(all, text))
  BY <1>1, <1>2 DEF Follows
<1> QED
  BY <1>1, <1>3 DEF Parsed

\* The first lines of a text, as data.
DataLines(text, i) == [n \in 1..i |-> Line("data", text[n])]

LEMMA LinesAre ==
  /\ Blank \in LineKinds /\ Line("event", "message") \in LineKinds /\ Noise \subseteq LineKinds
  /\ \A value \in Contents : Line("data", value) \in LineKinds
  /\ Blank.field = "blank" /\ Line("event", "message").field = "event"
  /\ \A value : Line("data", value).field = "data" /\ Line("data", value).value = value
  BY DEF LineKinds, Blank, Line

LEMMA MessagesAre ==
  ASSUME NEW text \in Messages
  PROVE  /\ text \in Texts /\ Len(text) \in Nat /\ Len(text) >= 1
         /\ text[1] # Empty /\ \A n \in 1..Len(text) : text[n] \in Contents
<1>1. text \in Seq(Contents) /\ text # <<>> /\ text[1] # Empty
  BY StreamAssumption
<1>2. Len(text) \in Nat \ {0}
  BY <1>1, EmptySeq
<1> QED
  BY <1>1, <1>2 DEF Texts

LEMMA NoisePassed ==
  ASSUME NEW lines \in Seq(LineKinds), NEW e \in Seq(Texts), NEW all, IsPrefix(e, all),
         NEW noise \in {<<>>} \cup {<<line>> : line \in Noise}, Parsed(lines, NoText, e, all)
  PROVE  lines \o noise \in Seq(LineKinds) /\ Parsed(lines \o noise, NoText, e, all)
<1>1. CASE noise = <<>>
  BY <1>1
<1>2. CASE noise # <<>>
  <2>1. PICK line \in Noise : noise = <<line>>
    BY <1>2
  <2>2. line \in LineKinds /\ line.field # "data"
    BY LinesAre, StreamAssumption
  <2>3. After(line, NoText) = NoText /\ Emits(line, NoText, e) = e
    BY <2>2 DEF After, Emits, Flushed
  <2>4. Parsed(Append(lines, line), NoText, e, all)
    BY <2>2, <2>3, LineParsed
  <2>5. lines \o noise = Append(lines, line) /\ Append(lines, line) \in Seq(LineKinds)
    BY <2>1, <2>2, AppendedType
  <2> QED
    BY <2>4, <2>5
<1> QED
  BY <1>1, <1>2

\* The blank line at the end of an event.
LEMMA BlankPassed ==
  ASSUME NEW lines \in Seq(LineKinds), NEW e \in Seq(Texts), NEW text \in Texts, text # NoText,
         Parsed(lines, text, e, Append(e, text))
  PROVE  /\ lines \o <<Blank>> \in Seq(LineKinds)
         /\ Parsed(lines \o <<Blank>>, NoText, Append(e, text), Append(e, text))
<1>1. Blank \in LineKinds /\ Blank.field = "blank"
  BY LinesAre
<1>2. After(Blank, text) = NoText /\ Emits(Blank, text, e) = Append(e, text)
  BY <1>1 DEF After, Emits, Flushed
<1>3. Append(e, text) \in Seq(Texts) /\ IsPrefix(Append(e, text), Append(e, text))
  <2>1. Append(e, text) \in Seq(Texts)
    OBVIOUS
  <2> QED
    BY <2>1, PrefixSelf
<1>4. Parsed(Append(lines, Blank), After(Blank, text), Emits(Blank, text, e), Append(e, text))
  BY <1>1, <1>2, <1>3, LineParsed
<1>5. lines \o <<Blank>> = Append(lines, Blank) /\ Append(lines, Blank) \in Seq(LineKinds)
  BY <1>1, AppendedType
<1> QED
  BY <1>2, <1>4, <1>5

\* A message of any number of lines, each with data: before it.
LEMMA DataParsed ==
  ASSUME NEW lines \in Seq(LineKinds), NEW e \in Seq(Texts), NEW text \in Messages,
         Parsed(lines, NoText, e, Append(e, text))
  PROVE  /\ lines \o DataLines(text, Len(text)) \in Seq(LineKinds)
         /\ Parsed(lines \o DataLines(text, Len(text)), text, e, Append(e, text))
<1> DEFINE P == {i \in Nat : i + 1 <= Len(text) =>
                   /\ lines \o DataLines(text, i + 1) \in Seq(LineKinds)
                   /\ Parsed(lines \o DataLines(text, i + 1), SubSeq(text, 1, i + 1), e, Append(e, text))}
<1>1. /\ text \in Texts /\ Len(text) \in Nat /\ Len(text) >= 1
      /\ text[1] # Empty /\ \A n \in 1..Len(text) : text[n] \in Contents
  BY MessagesAre
<1>2. IsPrefix(e, Append(e, text))
  BY <1>1, PrefixSelf, PrefixGrows
<1>3. ASSUME NEW i \in 1..Len(text), NEW before \in Seq(LineKinds), NEW a,
             Parsed(before, a, e, Append(e, text)), Accumulated(a, text[i]) = SubSeq(text, 1, i)
      PROVE  /\ Append(before, Line("data", text[i])) \in Seq(LineKinds)
             /\ Parsed(Append(before, Line("data", text[i])), SubSeq(text, 1, i), e, Append(e, text))
  <2> DEFINE line == Line("data", text[i])
  <2>1. line \in LineKinds /\ line.field = "data" /\ line.value = text[i]
    BY <1>1, LinesAre
  <2> HIDE DEF line
  <2>2. After(line, a) = SubSeq(text, 1, i) /\ Emits(line, a, e) = e
    BY <1>3, <2>1 DEF After, Emits
  <2>3. Parsed(Append(before, line), After(line, a), Emits(line, a, e), Append(e, text))
    BY <1>2, <1>3, <2>1, <2>2, LineParsed
  <2>4. Append(before, line) \in Seq(LineKinds)
    BY <2>1
  <2> QED
    BY <2>2, <2>3, <2>4 DEF line
<1>4. 0 \in P
  <2>1. DataLines(text, 1) = <<Line("data", text[1])>>
    BY DEF DataLines
  <2>2. Line("data", text[1]) \in LineKinds
    BY <1>1, LinesAre
  <2>3. lines \o DataLines(text, 1) = Append(lines, Line("data", text[1]))
    BY <2>1, <2>2, AppendedType
  <2>4. SubSeq(text, 1, 1) = <<text[1]>>
    BY <1>1, One DEF Texts
  <2>5. Accumulated(NoText, text[1]) = SubSeq(text, 1, 1)
    BY <2>4 DEF Accumulated
  <2>6. 1 \in 1..Len(text)
    BY <1>1
  <2>7. /\ Append(lines, Line("data", text[1])) \in Seq(LineKinds)
        /\ Parsed(Append(lines, Line("data", text[1])), SubSeq(text, 1, 1), e, Append(e, text))
    BY <1>3, <2>5, <2>6
  <2>8. 0 \in Nat /\ 0 + 1 = 1
    OBVIOUS
  <2>9. /\ lines \o DataLines(text, 0 + 1) \in Seq(LineKinds)
        /\ Parsed(lines \o DataLines(text, 0 + 1), SubSeq(text, 1, 0 + 1), e, Append(e, text))
    BY <2>3, <2>7, <2>8
  <2> QED
    BY <2>8, <2>9
<1>5. ASSUME NEW i \in Nat, i \in P
      PROVE  i + 1 \in P
  <2> SUFFICES ASSUME i + 2 <= Len(text)
               PROVE  /\ lines \o DataLines(text, i + 2) \in Seq(LineKinds)
                      /\ Parsed(lines \o DataLines(text, i + 2), SubSeq(text, 1, i + 2), e, Append(e, text))
    OBVIOUS
  <2> DEFINE before == lines \o DataLines(text, i + 1)
             a == SubSeq(text, 1, i + 1)
             line == Line("data", text[i + 2])
  <2>1. before \in Seq(LineKinds) /\ Parsed(before, a, e, Append(e, text))
    BY <1>5
  <2>2. i + 2 \in 1..Len(text) /\ i + 1 \in 1..Len(text) /\ 1 \in 1..Len(text)
    BY <1>1
  <2>3. /\ a \in Seq(Contents) /\ Len(a) = i + 1 /\ a[1] = text[1]
        /\ SubSeq(text, 1, i + 2) = Append(a, text[i + 2])
    <3>1. text \in Seq(Contents)
      BY <1>1 DEF Texts
    <3>2. a \in Seq(Contents) /\ Len(a) = i + 1 /\ a[1] = text[1]
      BY <2>2, <3>1, SubSeqProperties
    <3>3. SubSeq(text, 1, i + 2) = SubSeq(text, 1, i + 1) \o <<text[i + 2]>>
      <4>1. (i + 2) - 1 = i + 1 /\ i + 2 \in 1..Len(text) /\ 1 \in 1..Len(text)
        BY <2>2
      <4>2. SubSeq(text, 1, i + 2) = SubSeq(text, 1, (i + 2) - 1) \o <<text[i + 2]>>
        BY <2>2, <3>1, SubSeqRecursiveSecond
      <4> QED
        BY <4>1, <4>2
    <3>4. text[i + 2] \in Contents
      BY <1>1, <2>2
    <3> QED
      BY <3>2, <3>3, <3>4, AppendedType
  <2>4. a # NoText
    <3>1. NoText[1] = Empty
      BY DEF NoText
    <3> HIDE DEF a
    <3> QED
      BY <1>1, <2>3, <3>1
  <2>5. Accumulated(a, text[i + 2]) = SubSeq(text, 1, i + 2)
    BY <2>3, <2>4 DEF Accumulated
  <2>6. lines \o DataLines(text, i + 2) = Append(before, line)
    <3>1. DataLines(text, i + 1) \in Seq(LineKinds)
      BY <1>1, <2>2, LinesAre DEF DataLines
    <3>2. line \in LineKinds
      BY <1>1, <2>2, LinesAre
    <3>3. DataLines(text, i + 2) = DataLines(text, i + 1) \o <<line>>
      <4>1. /\ Len(DataLines(text, i + 1)) = i + 1 /\ Len(DataLines(text, i + 2)) = i + 2
            /\ \A n \in 1..i + 1 : DataLines(text, i + 1)[n] = Line("data", text[n])
            /\ \A n \in 1..i + 2 : DataLines(text, i + 2)[n] = Line("data", text[n])
        BY DEF DataLines
      <4>2. DataLines(text, i + 2) \in Seq(LineKinds)
        BY <1>1, <2>2, LinesAre DEF DataLines
      <4>3. /\ DataLines(text, i + 1) \o <<line>> = Append(DataLines(text, i + 1), line)
            /\ Append(DataLines(text, i + 1), line) \in Seq(LineKinds)
            /\ Len(Append(DataLines(text, i + 1), line)) = i + 2
            /\ \A n \in 1..i + 1 : Append(DataLines(text, i + 1), line)[n] = DataLines(text, i + 1)[n]
            /\ Append(DataLines(text, i + 1), line)[i + 2] = line
        <5> HIDE DEF line
        <5>1. Len(DataLines(text, i + 1)) + 1 = i + 2
          BY <4>1
        <5> QED
          BY <3>1, <3>2, <4>1, <5>1, AppendedType
      <4>4. \A n \in 1..i + 2 : DataLines(text, i + 2)[n] = Append(DataLines(text, i + 1), line)[n]
        <5>1. \A n \in 1..i + 2 : n \in 1..i + 1 \/ n = i + 2
          OBVIOUS
        <5> QED
          BY <4>1, <4>3, <5>1
      <4> HIDE DEF line
      <4> QED
        BY <4>1, <4>2, <4>3, <4>4, SeqEqual
    <3> HIDE DEF line
    <3>4. lines \o (DataLines(text, i + 1) \o <<line>>) = (lines \o DataLines(text, i + 1)) \o <<line>>
      <4>1. <<line>> \in Seq(LineKinds)
        BY <3>2
      <4> QED
        BY <3>1, <4>1, ConcatAssociative
    <3>5. before \o <<line>> = Append(before, line)
      <4> HIDE DEF before
      <4> QED
        BY <2>1, <3>2, AppendedType
    <3> QED
      BY <3>3, <3>4, <3>5
  <2>7. /\ Append(before, line) \in Seq(LineKinds)
        /\ Parsed(Append(before, line), SubSeq(text, 1, i + 2), e, Append(e, text))
    <3> HIDE DEF before, a
    <3> QED
      BY <1>3, <2>1, <2>2, <2>5
  <2> QED
    BY <2>6, <2>7
<1>6. \A i \in P : i + 1 <= Len(text) =>
                   /\ lines \o DataLines(text, i + 1) \in Seq(LineKinds)
                   /\ Parsed(lines \o DataLines(text, i + 1), SubSeq(text, 1, i + 1), e, Append(e, text))
  OBVIOUS
<1> HIDE DEF P
<1>7. Nat \subseteq P
  BY <1>4, <1>5, Induction
<1>8. Len(text) - 1 \in P /\ (Len(text) - 1) + 1 = Len(text)
  BY <1>1, <1>7
<1>9. SubSeq(text, 1, Len(text)) = text
  BY <1>1, SubSeqFull DEF Texts
<1>10. /\ lines \o DataLines(text, (Len(text) - 1) + 1) \in Seq(LineKinds)
       /\ Parsed(lines \o DataLines(text, (Len(text) - 1) + 1), SubSeq(text, 1, (Len(text) - 1) + 1),
                 e, Append(e, text))
  <2>1. (Len(text) - 1) + 1 <= Len(text)
    BY <1>1
  <2> QED
    BY <1>6, <1>8, <2>1
<1> QED
  BY <1>8, <1>9, <1>10

\* A message is sent: its lines, after some noise.
LEMMA EventParsed ==
  ASSUME NEW lines \in Seq(LineKinds), NEW e \in Seq(Texts), NEW text \in Messages,
         Parsed(lines, NoText, e, Append(e, text))
  PROVE  /\ lines \o FrameStandard(text) \in Seq(LineKinds)
         /\ Parsed(lines \o FrameStandard(text), NoText, Append(e, text), Append(e, text))
         /\ Len(lines \o FrameStandard(text)) >= 1
         /\ (lines \o FrameStandard(text))[Len(lines \o FrameStandard(text))] = Blank
<1> DEFINE data == DataLines(text, Len(text))
<1>1. /\ text \in Texts /\ Len(text) \in Nat
      /\ text[1] # Empty /\ \A n \in 1..Len(text) : text[n] \in Contents
  BY MessagesAre
<1>2. text # NoText
  <2>1. NoText[1] = Empty
    BY DEF NoText
  <2> QED
    BY <1>1, <2>1
<1>3. lines \o data \in Seq(LineKinds) /\ Parsed(lines \o data, text, e, Append(e, text))
  BY DataParsed
<1>4. FrameStandard(text) = data \o <<Blank>>
  BY DEF FrameStandard, DataLines
<1>5. data \in Seq(LineKinds)
  BY <1>1, LinesAre DEF DataLines
<1> HIDE DEF data
<1>6. /\ (lines \o data) \o <<Blank>> \in Seq(LineKinds)
      /\ Parsed((lines \o data) \o <<Blank>>, NoText, Append(e, text), Append(e, text))
  <2> DEFINE before == lines \o data
  <2>1. before \in Seq(LineKinds) /\ Parsed(before, text, e, Append(e, text))
    BY <1>3
  <2> HIDE DEF before
  <2>2. /\ before \o <<Blank>> \in Seq(LineKinds)
        /\ Parsed(before \o <<Blank>>, NoText, Append(e, text), Append(e, text))
    BY <1>1, <1>2, <2>1, BlankPassed
  <2> QED
    BY <2>2 DEF before
<1>7. Blank \in LineKinds
  BY LinesAre
<1>8. lines \o (data \o <<Blank>>) = (lines \o data) \o <<Blank>>
  <2>1. <<Blank>> \in Seq(LineKinds)
    BY <1>7
  <2> QED
    BY <1>5, <2>1, ConcatAssociative
<1>9. /\ (lines \o data) \o <<Blank>> = Append(lines \o data, Blank)
      /\ Len(Append(lines \o data, Blank)) = Len(lines \o data) + 1
      /\ Append(lines \o data, Blank)[Len(lines \o data) + 1] = Blank
  BY <1>3, <1>7, AppendedType
<1>10. Len(lines \o data) \in Nat
  BY <1>3
<1> DEFINE before == lines \o data
           new == (lines \o data) \o <<Blank>>
<1>11. new = lines \o FrameStandard(text)
  BY <1>4, <1>8
<1>12. new \in Seq(LineKinds) /\ Parsed(new, NoText, Append(e, text), Append(e, text))
  BY <1>6
<1>13. Len(new) = Len(before) + 1 /\ new[Len(before) + 1] = Blank /\ Len(before) \in Nat
  BY <1>9, <1>10
<1> HIDE DEF before, new
<1>14. Len(new) >= 1 /\ new[Len(new)] = Blank
  BY <1>13
<1> QED
  BY <1>11, <1>12, <1>14

LEMMA TwoTuple ==
  ASSUME NEW S, NEW a \in S, NEW b \in S
  PROVE  <<a>> \o <<b>> = <<a, b>>
<1>1. <<a>> \in Seq(S)
  OBVIOUS
<1>2. <<a>> \o <<b>> = Append(<<a>>, b)
  BY <1>1, AppendedType
<1>3. Append(<<a>>, b) = <<a, b>>
  <2>1. /\ Append(<<a>>, b) \in Seq(S) /\ Len(Append(<<a>>, b)) = 2
        /\ Append(<<a>>, b)[1] = a /\ Append(<<a>>, b)[2] = b
    OBVIOUS
  <2>2. <<a, b>> \in Seq(S) /\ Len(<<a, b>>) = 2 /\ <<a, b>>[1] = a /\ <<a, b>>[2] = b
    OBVIOUS
  <2>3. \A i \in 1..2 : i = 1 \/ i = 2
    OBVIOUS
  <2> QED
    BY <2>1, <2>2, <2>3, SeqEqual
<1> QED
  BY <1>2, <1>3

LEMMA ThreeTuple ==
  ASSUME NEW S, NEW a \in S, NEW b \in S, NEW c \in S
  PROVE  /\ <<a, b>> \o <<>> \o <<c>> = <<a, b, c>>
         /\ <<a>> \o <<b, c>> = <<a, b, c>>
<1>1. <<a>> \in Seq(S) /\ <<b>> \in Seq(S) /\ <<c>> \in Seq(S) /\ <<a, b>> \in Seq(S)
  OBVIOUS
<1>2. <<a, b>> \o <<>> = <<a, b>>
  BY <1>1, ConcatEmptySeq
<1>3. <<a, b>> \o <<c>> = Append(<<a, b>>, c)
  BY <1>1, AppendedType
<1>4. Append(<<a, b>>, c) = <<a, b, c>>
  <2>1. /\ Append(<<a, b>>, c) \in Seq(S) /\ Len(Append(<<a, b>>, c)) = 3
        /\ Append(<<a, b>>, c)[1] = a /\ Append(<<a, b>>, c)[2] = b /\ Append(<<a, b>>, c)[3] = c
    OBVIOUS
  <2>2. /\ <<a, b, c>> \in Seq(S) /\ Len(<<a, b, c>>) = 3
        /\ <<a, b, c>>[1] = a /\ <<a, b, c>>[2] = b /\ <<a, b, c>>[3] = c
    OBVIOUS
  <2>3. \A i \in 1..3 : i = 1 \/ i = 2 \/ i = 3
    OBVIOUS
  <2> QED
    BY <2>1, <2>2, <2>3, SeqEqual
<1>5. (<<a>> \o <<b>>) \o <<c>> = <<a>> \o (<<b>> \o <<c>>)
  BY <1>1, ConcatAssociative
<1>6. <<a>> \o <<b>> = <<a, b>> /\ <<b>> \o <<c>> = <<b, c>>
  BY TwoTuple
<1>7. <<a, b>> \o <<c>> = <<a>> \o <<b, c>>
  BY <1>5, <1>6
<1> QED
  BY <1>2, <1>3, <1>4, <1>7

\* The library's own event is one line more than the standard's, when the
\* message is one line.
LEMMA FrameIs ==
  ASSUME NEW text \in Messages, Len(text) = 1
  PROVE  /\ Frame(text) = <<Line("event", "message")>> \o FrameStandard(text)
         /\ FrameStandard(text) \in Seq(LineKinds)
<1>1. text[1] \in Contents
  BY MessagesAre
<1>2. Line("data", text[1]) \in LineKinds /\ Blank \in LineKinds
  BY <1>1, LinesAre
<1>3. FrameStandard(text) = <<Line("data", text[1]), Blank>>
  <2>1. [n \in 1..Len(text) |-> Line("data", text[n])] = <<Line("data", text[1])>>
    OBVIOUS
  <2> QED
    BY <1>2, <2>1, TwoTuple DEF FrameStandard
<1>4. Frame(text) = <<Line("event", "message"), Line("data", text[1]), Blank>>
  <2>1. Len(text) - 1 = 0 /\ 1..0 = {}
    OBVIOUS
  <2>2. [n \in 1..(Len(text) - 1) |->
          IF text[n + 1] = Empty THEN Blank ELSE Line("other", text[n + 1])] = <<>>
    BY <2>1
  <2>3. \A rest : rest = <<>> =>
          <<Line("event", "message"), Line("data", text[1])>> \o rest \o <<Blank>>
            = <<Line("event", "message"), Line("data", text[1]), Blank>>
    <3>1. Line("event", "message") \in LineKinds
      BY LinesAre
    <3> QED
      BY <1>2, <3>1, ThreeTuple
  <2> QED
    BY <2>2, <2>3 DEF Frame
<1>5. <<Line("event", "message")>> \o <<Line("data", text[1]), Blank>>
        = <<Line("event", "message"), Line("data", text[1]), Blank>>
  <2>1. Line("event", "message") \in LineKinds
    BY LinesAre
  <2> QED
    BY <1>2, <2>1, ThreeTuple
<1> QED
  BY <1>2, <1>3, <1>4, <1>5

LEMMA FrameParsed ==
  ASSUME NEW lines \in Seq(LineKinds), NEW e \in Seq(Texts), NEW text \in Messages, Len(text) = 1,
         Parsed(lines, NoText, e, Append(e, text))
  PROVE  /\ lines \o Frame(text) \in Seq(LineKinds)
         /\ Parsed(lines \o Frame(text), NoText, Append(e, text), Append(e, text))
         /\ Len(lines \o Frame(text)) >= 1
         /\ (lines \o Frame(text))[Len(lines \o Frame(text))] = Blank
<1> DEFINE line == Line("event", "message")
           more == Append(lines, line)
<1>1. line \in LineKinds /\ line.field = "event"
  BY LinesAre
<1> HIDE DEF line
<1>2. After(line, NoText) = NoText /\ Emits(line, NoText, e) = e
  BY <1>1 DEF After, Emits
<1>3. IsPrefix(e, Append(e, text))
  BY MessagesAre, PrefixSelf, PrefixGrows
<1>4. Parsed(more, NoText, e, Append(e, text))
  <2>1. Parsed(Append(lines, line), After(line, NoText), Emits(line, NoText, e), Append(e, text))
    BY <1>1, <1>2, <1>3, LineParsed
  <2> QED
    BY <1>2, <2>1
<1>5. more \in Seq(LineKinds) /\ lines \o <<line>> = more
  BY <1>1, AppendedType
<1> HIDE DEF more
<1>6. /\ more \o FrameStandard(text) \in Seq(LineKinds)
      /\ Parsed(more \o FrameStandard(text), NoText, Append(e, text), Append(e, text))
      /\ Len(more \o FrameStandard(text)) >= 1
      /\ (more \o FrameStandard(text))[Len(more \o FrameStandard(text))] = Blank
  BY <1>4, <1>5, EventParsed
<1>7. Frame(text) = <<line>> \o FrameStandard(text) /\ FrameStandard(text) \in Seq(LineKinds)
  BY FrameIs DEF line
<1>8. lines \o (<<line>> \o FrameStandard(text)) = (lines \o <<line>>) \o FrameStandard(text)
  <2>1. <<line>> \in Seq(LineKinds)
    BY <1>1
  <2> QED
    BY <1>7, <2>1, ConcatAssociative
<1> QED
  BY <1>5, <1>6, <1>7, <1>8
-----------------------------------------------------------------------------
(* Events: the invariant *)

\* While the server sends, the lines so far parse to the messages so far, with
\* nothing left over.
Sending ==
  /\ parsed = 0 /\ accumulated = NoText /\ emitted = <<>>
  /\ body \in Seq(LineKinds)
  /\ body = <<>> \/ (Len(body) >= 1 /\ body[Len(body)] = Blank)
  /\ Parsed(body, NoText, messages, messages)

\* The parser is where it is after as many lines, and the last ones will
\* complete the messages.
Parsing ==
  /\ parsed \in 0..Len(body)
  /\ \E A, E : /\ Follows(A, E, body, messages)
               /\ accumulated = A[parsed] /\ emitted = E[parsed]
               /\ Flushed(A[Len(body)], E[Len(body)]) = messages

StreamInv ==
  /\ messages \in Seq(Messages)
  /\ phase \in {"sending", "parsing", "done"}
  /\ Carried => /\ phase = "sending" => Sending
                /\ phase = "parsing" => Parsing
                /\ phase = "done" => emitted = messages

LEMMA MessagesTexts ==
  ASSUME messages \in Seq(Messages)
  PROVE  messages \in Seq(Texts)
<1>1. Messages \subseteq Texts
  BY MessagesAre
<1> QED
  BY <1>1

LEMMA StreamStarts == StreamInit => StreamInv
<1> SUFFICES ASSUME StreamInit PROVE StreamInv
  OBVIOUS
<1>1. messages = <<>> /\ body = <<>> /\ phase = "sending"
  BY DEF StreamInit
<1>2. messages \in Seq(Messages)
  BY <1>1
<1>3. <<>> \in Seq(Texts) /\ <<>> \in Seq(LineKinds)
  OBVIOUS
<1>4. Parsed(<<>>, NoText, <<>>, <<>>)
  BY <1>3, NothingParsed
<1>5. Sending
  BY <1>1, <1>3, <1>4 DEF StreamInit, Sending
<1> QED
  BY <1>1, <1>2, <1>5 DEF StreamInv

LEMMA Sends ==
  ASSUME StreamInv, NEW text \in Messages, NEW noise \in {<<>>} \cup {<<line>> : line \in Noise},
         Send(text, noise)
  PROVE  StreamInv'
<1> DEFINE event == IF standard THEN FrameStandard(text) ELSE Frame(text)
           lines == body \o noise
<1>1. /\ phase = "sending" /\ phase' = "sending" /\ messages' = Append(messages, text)
      /\ body' = lines \o event
      /\ UNCHANGED <<standard, parsed, accumulated, emitted>>
  BY DEF Send
<1> HIDE DEF event
<1>2. messages \in Seq(Messages) /\ messages' \in Seq(Messages)
  BY <1>1 DEF StreamInv
<1>3. ASSUME Carried'
      PROVE  Sending'
  <2>1. /\ Len(messages) \in Nat /\ Len(messages') = Len(messages) + 1
        /\ messages'[Len(messages) + 1] = text
        /\ \A i \in 1..Len(messages) : messages'[i] = messages[i]
    BY <1>1, <1>2
  <2>2. standard \/ \A i \in 1..Len(messages) + 1 : Len(messages'[i]) = 1
    BY <1>1, <1>3, <2>1 DEF Carried
  <2>3. Carried /\ (standard \/ Len(text) = 1)
    <3>1. CASE standard
      BY <3>1 DEF Carried
    <3>2. CASE \A i \in 1..Len(messages) + 1 : Len(messages'[i]) = 1
      <4>1. Len(messages) + 1 \in 1..Len(messages) + 1
        BY <2>1
      <4>2. \A i \in 1..Len(messages) : i \in 1..Len(messages) + 1
        BY <2>1
      <4> QED
        BY <2>1, <3>2, <4>1, <4>2 DEF Carried
    <3> QED
      BY <2>2, <3>1, <3>2
  <2>4. Sending
    BY <1>1, <2>3 DEF StreamInv
  <2>5. messages \in Seq(Texts) /\ text \in Texts
    BY <1>2, MessagesTexts, MessagesAre
  <2>6. IsPrefix(messages, Append(messages, text))
    BY <2>5, PrefixSelf, PrefixGrows
  <2>7. Parsed(body, NoText, messages, Append(messages, text))
    BY <2>4, <2>5, ParsedGrows DEF Sending
  <2>8. lines \in Seq(LineKinds) /\ Parsed(lines, NoText, messages, Append(messages, text))
    BY <2>4, <2>5, <2>6, <2>7, NoisePassed DEF Sending
  <2> HIDE DEF lines
  <2>9. /\ lines \o event \in Seq(LineKinds)
        /\ Parsed(lines \o event, NoText, Append(messages, text), Append(messages, text))
        /\ Len(lines \o event) >= 1
        /\ (lines \o event)[Len(lines \o event)] = Blank
    <3>1. CASE standard
      <4>1. event = FrameStandard(text)
        BY <3>1 DEF event
      <4> QED
        BY <2>5, <2>8, <4>1, EventParsed
    <3>2. CASE ~ standard
      <4>1. event = Frame(text)
        BY <3>2 DEF event
      <4> QED
        BY <2>3, <2>5, <2>8, <3>2, <4>1, FrameParsed
    <3> QED
      BY <3>1, <3>2
  <2>10. parsed' = 0 /\ accumulated' = NoText /\ emitted' = <<>>
    BY <1>1, <2>4 DEF Sending
  <2> QED
    BY <1>1, <2>9, <2>10 DEF Sending
<1> QED
  BY <1>1, <1>2, <1>3 DEF StreamInv

LEMMA Completes ==
  ASSUME StreamInv, Complete
  PROVE  StreamInv'
<1>1. /\ phase = "sending" /\ phase' = "parsing"
      /\ body' = Append(body, Blank) \/ body' = body \/ (body # <<>> /\ body' = Front(body))
      /\ UNCHANGED <<standard, messages, parsed, accumulated, emitted>>
  BY DEF Complete
<1>2. messages' \in Seq(Messages)
  BY <1>1 DEF StreamInv
<1>3. ASSUME Carried'
      PROVE  Parsing'
  <2>1. Carried /\ Sending
    BY <1>1, <1>3 DEF Carried, StreamInv
  <2>2. body \in Seq(LineKinds) /\ Len(body) \in Nat /\ messages \in Seq(Texts)
    BY <2>1, MessagesTexts DEF Sending, StreamInv
  <2>3. PICK A, E : /\ Follows(A, E, body', messages) /\ Len(body') \in Nat
                    /\ Flushed(A[Len(body')], E[Len(body')]) = messages
    <3>1. PICK A, E : Follows(A, E, body, messages) /\ A[Len(body)] = NoText /\ E[Len(body)] = messages
      BY <2>1 DEF Sending, Parsed
    <3>2. CASE body' = Append(body, Blank)
      <4>1. Blank \in LineKinds /\ Blank.field = "blank"
        BY LinesAre
      <4>2. After(Blank, NoText) = NoText /\ Emits(Blank, NoText, messages) = messages
        BY <4>1 DEF After, Emits, Flushed
      <4>3. Parsed(body, NoText, messages, messages) /\ IsPrefix(messages, messages)
        BY <2>1, <2>2, PrefixSelf DEF Sending
      <4>4. Parsed(Append(body, Blank), After(Blank, NoText), Emits(Blank, NoText, messages), messages)
        BY <2>2, <4>1, <4>2, <4>3, LineParsed
      <4>5. PICK B, F : /\ Follows(B, F, body', messages)
                        /\ B[Len(body')] = NoText /\ F[Len(body')] = messages
        BY <3>2, <4>2, <4>4 DEF Parsed
      <4>6. Len(body') \in Nat
        BY <2>2, <3>2, <4>1
      <4> QED
        BY <4>5, <4>6 DEF Flushed
    <3>3. CASE body' = body
      BY <2>2, <3>1, <3>3 DEF Flushed
    <3>4. CASE body # <<>> /\ body' = Front(body)
      <4> DEFINE n == Len(body) - 1
      <4>1. Len(body) >= 1 /\ body[Len(body)] = Blank
        BY <2>1, <3>4 DEF Sending
      <4>2. n \in Nat /\ n + 1 = Len(body)
        BY <2>2, <4>1
      <4>3. body' \in Seq(LineKinds) /\ Len(body') = n /\ \A j \in 1..n : body'[j] = body[j]
        <5>1. body' = SubSeq(body, 1, n)
          BY <3>4 DEF Front
        <5>2. \A j \in 1..n : body[j] \in LineKinds
          BY <2>2, <4>2
        <5> HIDE DEF n
        <5> QED
          BY <2>2, <4>2, <5>1, <5>2, SubSeqProperties
      <4> HIDE DEF n
      <4>4. Follows(A, E, body', messages)
        <5>1. /\ \A j \in 1..n : j \in 1..Len(body)
              /\ \A j \in 0..n : j \in 0..Len(body)
          BY <4>2
        <5> QED
          BY <3>1, <4>3, <5>1 DEF Follows
      <4>5. E[n + 1] = Emits(Blank, A[n], E[n])
        <5>1. n + 1 \in 1..Len(body) /\ (n + 1) - 1 = n
          BY <4>2
        <5> QED
          BY <3>1, <4>1, <4>2, <5>1 DEF Follows
      <4>6. Emits(Blank, A[n], E[n]) = Flushed(A[n], E[n])
        BY LinesAre DEF Emits
      <4> QED
        BY <3>1, <4>2, <4>3, <4>4, <4>5, <4>6
    <3> QED
      BY <1>1, <3>2, <3>3, <3>4
  <2>4. accumulated' = A[0] /\ emitted' = E[0] /\ parsed' = 0 /\ messages' = messages
    BY <1>1, <2>1, <2>3 DEF Sending, Follows
  <2>5. 0 \in 0..Len(body')
    BY <2>3
  <2> QED
    BY <2>3, <2>4, <2>5 DEF Parsing
<1> QED
  BY <1>1, <1>2, <1>3 DEF StreamInv

LEMMA LineIsParsed ==
  ASSUME StreamInv, ParseLine
  PROVE  StreamInv'
<1> DEFINE line == body[parsed + 1]
<1>1. /\ phase = "parsing" /\ phase' = "parsing" /\ parsed < Len(body) /\ parsed' = parsed + 1
      /\ UNCHANGED <<standard, messages, body>>
  BY DEF ParseLine
<1>2. accumulated' = After(line, accumulated) /\ emitted' = Emits(line, accumulated, emitted)
  <2>1. CASE line.field = "blank" /\ Flush
    BY <2>1 DEF Flush, After, Emits, Flushed
  <2>2. CASE line.field = "data" /\ accumulated' = Accumulated(accumulated, line.value) /\ UNCHANGED emitted
    BY <2>2 DEF After, Emits
  <2>3. CASE line.field \notin {"blank", "data"} /\ UNCHANGED <<accumulated, emitted>>
    BY <2>3 DEF After, Emits
  <2> QED
    BY <2>1, <2>2, <2>3 DEF ParseLine
<1>3. messages' \in Seq(Messages)
  BY <1>1 DEF StreamInv
<1>4. ASSUME Carried'
      PROVE  Parsing'
  <2>1. Carried /\ Parsing
    BY <1>1, <1>4 DEF Carried, StreamInv
  <2>2. PICK A, E : /\ Follows(A, E, body, messages)
                    /\ accumulated = A[parsed] /\ emitted = E[parsed]
                    /\ Flushed(A[Len(body)], E[Len(body)]) = messages
    BY <2>1 DEF Parsing
  <2>3. parsed \in Nat /\ parsed + 1 \in 1..Len(body) /\ parsed + 1 \in 0..Len(body) /\ (parsed + 1) - 1 = parsed
    <3>1. parsed \in 0..Len(body) /\ Len(body) \in Int
      BY <1>1, <2>1 DEF Parsing
    <3> QED
      BY <1>1, <3>1
  <2>4. A[parsed + 1] = After(line, A[parsed]) /\ E[parsed + 1] = Emits(line, A[parsed], E[parsed])
    BY <2>2, <2>3 DEF Follows
  <2>5. accumulated' = A[parsed'] /\ emitted' = E[parsed']
    BY <1>1, <1>2, <2>2, <2>4
  <2> QED
    BY <1>1, <2>2, <2>3, <2>5 DEF Parsing
<1> QED
  BY <1>1, <1>3, <1>4 DEF StreamInv

LEMMA BodyIsParsed ==
  ASSUME StreamInv, ParseEnd
  PROVE  StreamInv'
<1>1. /\ phase = "parsing" /\ phase' = "done" /\ parsed = Len(body)
      /\ emitted' = Flushed(accumulated, emitted) /\ UNCHANGED <<standard, messages>>
  BY DEF ParseEnd, Flush, Flushed
<1>2. messages' \in Seq(Messages)
  BY <1>1 DEF StreamInv
<1>3. ASSUME Carried'
      PROVE  emitted' = messages'
  <2>1. Carried /\ Parsing
    BY <1>1, <1>3 DEF Carried, StreamInv
  <2> QED
    BY <1>1, <2>1 DEF Parsing
<1> QED
  BY <1>1, <1>2, <1>3 DEF StreamInv

LEMMA StreamStays ==
  ASSUME StreamInv, UNCHANGED streamVars
  PROVE  StreamInv'
<1>1. UNCHANGED <<standard, messages, body, phase, parsed, accumulated, emitted>>
  BY DEF streamVars
<1>2. Carried' <=> Carried
  BY <1>1 DEF Carried
<1>3. (Sending => Sending') /\ (Parsing => Parsing')
  BY <1>1 DEF Sending, Parsing
<1> QED
  BY <1>1, <1>2, <1>3 DEF StreamInv

\* A stream of events keeps its invariant: the parser of the client is always
\* where the lines the server has written put it.
THEOREM StreamInvariant == StreamSpec => []StreamInv
<1>1. ASSUME StreamInv, StreamNext
      PROVE  StreamInv'
  <2>1. CASE \E text \in Messages, noise \in {<<>>} \cup {<<line>> : line \in Noise} : Send(text, noise)
    BY <1>1, <2>1, Sends
  <2>2. CASE Complete
    BY <1>1, <2>2, Completes
  <2>3. CASE ParseLine
    BY <1>1, <2>3, LineIsParsed
  <2>4. CASE ParseEnd
    BY <1>1, <2>4, BodyIsParsed
  <2> QED
    BY <1>1, <2>1, <2>2, <2>3, <2>4 DEF StreamNext
<1>2. StreamInv /\ [StreamNext]_streamVars => StreamInv'
  BY <1>1, StreamStays
<1> QED
  BY <1>2, StreamStarts, PTL DEF StreamSpec

\* The message handler of the HTTPS client gets messages in the order they were
\* sent, each complete and once (build_sse_message, parse_event_stream), for any
\* messages and any noise that contains no data.
THEOREM PrefixAlways == StreamSpec => []PrefixEmitted
<1>1. StreamInv => PrefixEmitted
  <2> SUFFICES ASSUME StreamInv, Carried PROVE IsPrefix(emitted, messages)
    BY DEF PrefixEmitted
  <2>1. messages \in Seq(Texts)
    BY MessagesTexts DEF StreamInv
  <2>2. CASE phase = "sending"
    BY <2>1, <2>2, PrefixSelf DEF StreamInv, Sending
  <2>3. CASE phase = "parsing"
    BY <2>3 DEF StreamInv, Parsing, Follows
  <2>4. CASE phase = "done"
    BY <2>1, <2>4, PrefixSelf DEF StreamInv
  <2> QED
    BY <2>2, <2>3, <2>4 DEF StreamInv
<1> QED
  BY <1>1, StreamInvariant, PTL

\* When the body is over it has got them all, also when the blank line after the
\* last event is missing.
THEOREM AllDelivered == StreamSpec => []AllEmitted
<1>1. StreamInv => AllEmitted
  BY DEF StreamInv, AllEmitted
<1> QED
  BY <1>1, StreamInvariant, PTL
=============================================================================
