---------------------------- MODULE ClientProofs ----------------------------
(***************************************************************************)
(* What is proved of the client facade, for all sets of threads and of     *)
(* transports and stacks of any depth.                                     *)
(*                                                                         *)
(* The types hold whatever user code does.  The safety properties need a   *)
(* single application thread and callbacks that only send requests: the    *)
(* README shows what other programs run into.                              *)
(***************************************************************************)
EXTENDS Client, FiniteSetTheorems, SequenceTheorems, TLAPS
-----------------------------------------------------------------------------
(* What the operators of Frames do to a stack *)

\* The stack below the innermost frame.
Below(s) == SubSeq(s, 1, Len(s) - 1)

LEMMA BelowType ==
  ASSUME NEW S, NEW s \in Seq(S), s # <<>>
  PROVE  /\ Len(s) \in Nat \ {0}
         /\ Top(s) \in S
         /\ Below(s) \in Seq(S)
         /\ Len(Below(s)) = Len(s) - 1
         /\ \A i \in 1..Len(s) - 1 : Below(s)[i] = s[i]
<1>1. Len(s) \in Nat \ {0}
  OBVIOUS
<1>2. Top(s) \in S
  BY <1>1 DEF Top
<1> DEFINE n == Len(s) - 1
<1>3. n \in Nat /\ \A i \in 1..n : s[i] \in S
  BY <1>1
<1> HIDE DEF n
<1>4. /\ SubSeq(s, 1, n) \in Seq(S)
      /\ Len(SubSeq(s, 1, n)) = n
      /\ \A i \in 1..n : SubSeq(s, 1, n)[i] = s[i]
  <2>1. 1 \in Int /\ n \in Int
    BY <1>3
  <2>2. /\ SubSeq(s, 1, n) \in Seq(S)
        /\ Len(SubSeq(s, 1, n)) = IF 1 <= n THEN n - 1 + 1 ELSE 0
        /\ \A i \in 1..n - 1 + 1 : SubSeq(s, 1, n)[i] = s[1 + i - 1]
    BY <1>3, <2>1, SubSeqProperties
  <2> QED
    BY <1>3, <2>2
<1> QED
  BY <1>1, <1>2, <1>4 DEF Below, n

\* What is left of a stack when it is cut and other frames are put on top.
Cut(s, k, F) == SubSeq(s, 1, k) \o F

LEMMA CutType ==
  \A S : \A s, F \in Seq(S) : \A k \in 0..Len(s) :
    /\ Cut(s, k, F) \in Seq(S)
    /\ Len(Cut(s, k, F)) = k + Len(F)
    /\ \A i \in 1..k : Cut(s, k, F)[i] = s[i]
    /\ \A i \in k + 1..k + Len(F) : Cut(s, k, F)[i] = F[i - k]
<1>1. ASSUME NEW S, NEW s \in Seq(S), NEW F \in Seq(S), NEW k \in 0..Len(s)
      PROVE  /\ Cut(s, k, F) \in Seq(S)
             /\ Len(Cut(s, k, F)) = k + Len(F)
             /\ \A i \in 1..k : Cut(s, k, F)[i] = s[i]
             /\ \A i \in k + 1..k + Len(F) : Cut(s, k, F)[i] = F[i - k]
  <2> DEFINE p == SubSeq(s, 1, k)
  <2>1. /\ p \in Seq(S)
        /\ Len(p) = k
        /\ \A i \in 1..k : p[i] = s[i]
    <3>1. k \in Nat /\ \A i \in 1..k : s[i] \in S
      OBVIOUS
    <3>2. /\ p \in Seq(S)
          /\ Len(p) = IF 1 <= k THEN k - 1 + 1 ELSE 0
          /\ \A i \in 1..k - 1 + 1 : p[i] = s[1 + i - 1]
      BY <3>1, SubSeqProperties
    <3> QED
      BY <3>1, <3>2
  <2> HIDE DEF p
  <2>2. /\ p \o F \in Seq(S)
        /\ Len(p \o F) = Len(p) + Len(F)
        /\ \A i \in 1..Len(p) + Len(F) : (p \o F)[i] = IF i <= Len(p) THEN p[i] ELSE F[i - Len(p)]
    BY <2>1, ConcatProperties
  <2>3. Len(F) \in Nat
    OBVIOUS
  <2>4. Cut(s, k, F) = p \o F
    BY DEF Cut, p
  <2> QED
    BY <2>1, <2>2, <2>3, <2>4
<1> QED
  BY <1>1

\* The ways in which the facades change a stack, as cuts.
LEMMA CutForms ==
  ASSUME NEW S, NEW s \in Seq(S), NEW F \in Seq(S)
  PROVE  /\ s \o F = Cut(s, Len(s), F)
         /\ s # <<>> => Then(s, F) = Cut(s, Len(s) - 1, F)
         /\ F = Cut(s, 0, F)
<1>1. SubSeq(s, 1, Len(s)) = s
  OBVIOUS
<1>2. SubSeq(s, 1, 0) = <<>>
  OBVIOUS
<1>3. <<>> \o F = F
  OBVIOUS
<1> QED
  BY <1>1, <1>2, <1>3 DEF Cut, Then

LEMMA AppendCuts ==
  ASSUME NEW S, NEW s \in Seq(S), NEW e \in S
  PROVE  Append(s, e) = Cut(s, Len(s), <<e>>)
<1>1. SubSeq(s, 1, Len(s)) = s
  OBVIOUS
<1>2. s \o <<e>> = Append(s, e)
  OBVIOUS
<1> QED
  BY <1>1, <1>2 DEF Cut

LEMMA UnwindingCuts ==
  ASSUME NEW S, NEW s \in Seq(S), s # <<>>, NEW left \in Unwindings(s)
  PROVE  \E k \in 0..Len(s) - 1 :
           left = Cut(s, k, <<>>) /\ (k # 0 => s[k].do = "callback")
<1>1. PICK k \in {0} \cup {i \in 1..Len(s) - 1 : s[i].do = "callback"} : left = SubSeq(s, 1, k)
  BY DEF Unwindings
<1>2. Len(s) \in Nat \ {0}
  OBVIOUS
<1>3. k \in 0..Len(s) - 1 /\ (k # 0 => s[k].do = "callback")
  BY <1>1, <1>2
<1>4. SubSeq(s, 1, k) \in Seq(S)
  <2>1. \A i \in 1..k : s[i] \in S
    BY <1>2, <1>3
  <2> QED
    BY <2>1, <1>3, SubSeqProperties
<1>5. SubSeq(s, 1, k) \o <<>> = SubSeq(s, 1, k)
  BY <1>4
<1> QED
  BY <1>1, <1>3, <1>5 DEF Cut
-----------------------------------------------------------------------------
\* The frames that neither open nor close a transport, nor install one.
Light == {"callback", "send_initialize", "send_request", "throw"}
LightFrame == {f \in FrameType : f.do \in Light}
PlainFrame == {f \in FrameType : f.do \in {"callback", "throw"}}

\* One application thread, whose callbacks only send requests.
Sequential ==
  /\ \A a, b \in Apps : a = b
  /\ Reentrant \subseteq {"request"}

\* connect begins with the handshake, and a connection is never opened again
\* under requests that are still on their way.
Greets == AutoInitialize /\ ~Reopens

Greeted(x) == Greets /\ MaxSent > 0 => sent[x] # <<>>

\* What is open can still be closed, and was opened.
Contract == \A x \in Transports : open[x] => armed[x] /\ x \in used

\* The handlers of the installed transport are set.
Linked == transport # None => transport \in bound

\* A transport that was never opened has sent nothing, and a request is on its
\* way only after the handshake was sent.
Greeting ==
  /\ \A x \in Transports \ used : sent[x] = <<>>
  /\ \A t \in Threads : \A i \in 1..Len(stack[t]) :
       stack[t][i].do = "send_request" => Greeted(stack[t][i].on)
  /\ Greets => HandshakeFirst

\* The threads of the transports run user code and send, no more.
ReadersLight ==
  \A r \in Readers : \A i \in 1..Len(stack[r]) : stack[r][i].do \in Light

\* Where the frames of an application's stack can be.
Shape(s) ==
  \A i \in 1..Len(s) :
    /\ s[i].do \in {"install", "open", "initialize", "ready"} => i = 1
    /\ s[i].do = "open" => s[i].on = transport
    /\ s[i].do = "disconnected" => i = 1 \/ (i = 2 /\ s[1].do = "install")
    /\ s[i].do = "close" => IF i = 1 THEN s[i].on # None
                            ELSE s[i - 1].do = "disconnected" /\ s[i].on = None
    /\ s[i].do \in {"notify", "initialize"} => i = Len(s)

\* What holds of the state and the transport while the frame i is on the stack
\* of an application: after the close there is nothing left to disconnect, and
\* before ready the transport was opened and, if it has to be, greeted.
Pending(s, i) ==
  /\ s[i].do \in {"install", "disconnected"} => state # "ready"
  /\ s[i].do = "disconnected" =>
       \/ i < Len(s) /\ s[i + 1].do = "close"
       \/ transport = None \/ ~open[transport]
  /\ s[i].do = "initialize" => transport # None /\ open[transport]
  /\ s[i].do = "ready" =>
       \/ i < Len(s) /\ s[i + 1] = Frame("send_initialize", transport)
       \/ i < Len(s) /\ s[i + 1].do = "throw"
       \/ transport # None /\ open[transport] /\ Greeted(transport)

AppsPending ==
  \A a \in Apps : Shape(stack[a]) /\ \A i \in 1..Len(stack[a]) : Pending(stack[a], i)

\* A client that is ready has said so to an open transport, or is about to hear
\* that it was closed.
ReadyOpen ==
  state = "ready" =>
    /\ transport # None
    /\ Greeted(transport)
    /\ \/ open[transport]
       \/ \E a \in Apps : stack[a] # <<>> /\ Top(stack[a]) = Frame("notify", transport)

IInv ==
  /\ TypeOK
  /\ Contract
  /\ Linked
  /\ Greeting
  /\ ReadersLight
  /\ AppsPending
  /\ ReadyOpen
-----------------------------------------------------------------------------
(* Types *)

OnTransport == {"open", "send_initialize", "send_request"}

LEMMA FrameTypes ==
  /\ \A do \in OnTransport : \A x \in Transports : Frame(do, x) \in FrameType
  /\ \A do \in {"send_initialize", "send_request"} :
       \A x \in Transports : Frame(do, x) \in LightFrame
  /\ \A do \in Doing \ OnTransport : \A x \in Transports \cup {None} : Frame(do, x) \in FrameType
  /\ \A do \in {"callback", "throw"} : Frame(do, None) \in PlainFrame
  /\ \A f \in FrameType : f.do \in Doing /\ f.on \in Transports \cup {None}
  /\ \A f \in FrameType : f.do \in OnTransport => f.on \in Transports
BY DEF FrameType, LightFrame, PlainFrame, Light, Frame, Doing, OnTransport

LEMMA PlainFrames ==
  /\ \A F \in Seq(PlainFrame) : F \in Seq(FrameType)
  /\ \A F \in Seq(PlainFrame) : F \in Seq(LightFrame)
  /\ \A F \in Seq(PlainFrame) : \A i \in 1..Len(F) : F[i].do \in {"callback", "throw"}
  /\ Callback \in Seq(PlainFrame)
  /\ \A next : Changed(next) \in Seq(PlainFrame)
<1>1. PlainFrame \subseteq FrameType /\ PlainFrame \subseteq LightFrame
  BY DEF LightFrame, PlainFrame, Light
<1>2. \A F \in Seq(PlainFrame) : F \in Seq(FrameType)
  BY <1>1
<1>3. \A F \in Seq(PlainFrame) : F \in Seq(LightFrame)
  BY <1>1
<1>4. \A F \in Seq(PlainFrame) : \A i \in 1..Len(F) : F[i].do \in {"callback", "throw"}
  BY DEF PlainFrame
<1>5. Callback \in Seq(PlainFrame)
  BY FrameTypes DEF Callback
<1>6. \A next : Changed(next) \in Seq(PlainFrame)
  BY <1>5 DEF Changed
<1> QED
  BY <1>2, <1>3, <1>4, <1>5, <1>6

LEMMA LightFrames ==
  /\ \A F \in Seq(LightFrame) : F \in Seq(FrameType)
  /\ \A F \in Seq(LightFrame) : \A i \in 1..Len(F) : F[i].do \in Light
<1>1. LightFrame \subseteq FrameType
  BY DEF LightFrame
<1>2. \A F \in Seq(LightFrame) : F \in Seq(FrameType)
  BY <1>1
<1>3. \A F \in Seq(LightFrame) : \A i \in 1..Len(F) : F[i].do \in Light
  BY DEF LightFrame
<1> QED
  BY <1>2, <1>3

\* A thread cuts its stack down to k frames and pushes the frames F.
Move(t, k, F) ==
  /\ k \in 0..Len(stack[t])
  /\ F \in Seq(FrameType)
  /\ stack' = [stack EXCEPT ![t] = Cut(stack[t], k, F)]

LEMMA MoveType ==
  ASSUME TypeOK, NEW t \in Threads, NEW k, NEW F, Move(t, k, F)
  PROVE  /\ stack' \in [Threads -> Seq(FrameType)]
         /\ stack'[t] = Cut(stack[t], k, F)
         /\ \A u \in Threads : u # t => stack'[u] = stack[u]
<1>1. stack[t] \in Seq(FrameType)
  BY DEF TypeOK
<1>2. Cut(stack[t], k, F) \in Seq(FrameType)
  BY <1>1, CutType DEF Move
<1> QED
  BY <1>2 DEF Move, TypeOK

LEMMA CallMoves ==
  ASSUME TypeOK, NEW t \in Threads, NEW next \in States,
         NEW F \in Seq(FrameType), Call(t, next, F)
  PROVE  /\ state' = next
         /\ Move(t, Len(stack[t]), F \o Changed(next))
         /\ F \in Seq(PlainFrame) => F \o Changed(next) \in Seq(PlainFrame)
<1>1. stack[t] \in Seq(FrameType) /\ Len(stack[t]) \in 0..Len(stack[t])
  BY DEF TypeOK
<1>2. Changed(next) \in Seq(FrameType)
  <2>1. Changed(next) \in Seq(PlainFrame)
    BY PlainFrames
  <2> QED
    BY <2>1, PlainFrames
<1>3. F \o Changed(next) \in Seq(FrameType)
  BY <1>2
<1>4. (stack[t] \o F) \o Changed(next) = stack[t] \o (F \o Changed(next))
  <2>1. \A a, b, c \in Seq(FrameType) : (a \o b) \o c = a \o (b \o c)
    BY ConcatAssociative
  <2> QED
    BY <1>1, <1>2, <2>1
<1>6. stack[t] \o (F \o Changed(next)) = Cut(stack[t], Len(stack[t]), F \o Changed(next))
  BY <1>1, <1>3, CutForms
<1>7. F \in Seq(PlainFrame) => F \o Changed(next) \in Seq(PlainFrame)
  BY PlainFrames
<1> QED
  BY <1>1, <1>3, <1>4, <1>6, <1>7 DEF Call, Move

LEMMA ContinueMoves ==
  ASSUME TypeOK, NEW t \in Threads, stack[t] # <<>>, NEW next \in States,
         NEW F \in Seq(FrameType), Continue(t, next, F)
  PROVE  /\ state' = next
         /\ Move(t, Len(stack[t]) - 1, F \o Changed(next))
         /\ F \in Seq(PlainFrame) => F \o Changed(next) \in Seq(PlainFrame)
<1>1. stack[t] \in Seq(FrameType) /\ Len(stack[t]) - 1 \in 0..Len(stack[t])
  BY DEF TypeOK
<1>2. Changed(next) \in Seq(FrameType)
  <2>1. Changed(next) \in Seq(PlainFrame)
    BY PlainFrames
  <2> QED
    BY <2>1, PlainFrames
<1>3. F \o Changed(next) \in Seq(FrameType)
  BY <1>2
<1>6. Then(stack[t], F \o Changed(next)) = Cut(stack[t], Len(stack[t]) - 1, F \o Changed(next))
  BY <1>1, <1>3, CutForms
<1>7. F \in Seq(PlainFrame) => F \o Changed(next) \in Seq(PlainFrame)
  BY PlainFrames
<1> QED
  BY <1>1, <1>3, <1>6, <1>7 DEF Continue, Move

LEMMA ThenMoves ==
  ASSUME TypeOK, NEW t \in Threads, stack[t] # <<>>,
         NEW F \in Seq(FrameType), stack' = [stack EXCEPT ![t] = Then(@, F)]
  PROVE  Move(t, Len(stack[t]) - 1, F)
<1>1. stack[t] \in Seq(FrameType) /\ Len(stack[t]) - 1 \in 0..Len(stack[t])
  BY DEF TypeOK
<1>6. Then(stack[t], F) = Cut(stack[t], Len(stack[t]) - 1, F)
  BY <1>1, CutForms
<1> QED
  BY <1>1, <1>6 DEF Move

LEMMA ThrowMoves ==
  ASSUME TypeOK, NEW t \in Threads, stack[t] # <<>>, Throw(t)
  PROVE  \E k \in 0..Len(stack[t]) :
           Move(t, k, <<>>) /\ (k = 0 \/ stack[t][k].do = "callback")
<1>1. stack[t] \in Seq(FrameType) /\ Len(stack[t]) \in Nat
  BY DEF TypeOK
<1>2. PICK left \in Unwindings(stack[t]) : stack' = [stack EXCEPT ![t] = left]
  BY DEF Throw
<1>3. PICK k \in 0..Len(stack[t]) :
        left = Cut(stack[t], k, <<>>) /\ (k = 0 \/ stack[t][k].do = "callback")
  <2>1. 0..Len(stack[t]) - 1 \subseteq 0..Len(stack[t])
    BY <1>1
  <2> QED
    BY <1>1, <2>1, UnwindingCuts
<1>4. <<>> \in Seq(FrameType)
  OBVIOUS
<1> QED
  BY <1>2, <1>3, <1>4 DEF Move

\* What was sent first on a transport is sent first; a transport that had sent
\* nothing is open when it sends.
Grows(t) ==
  /\ sent' \in [Transports -> Seq({"initialize", "request"})]
  /\ \A x \in Transports : sent[x] # <<>> => sent'[x] # <<>> /\ sent'[x][1] = sent[x][1]
  /\ \A x \in Transports : sent[x] = <<>> /\ sent'[x] # <<>> =>
       /\ open[x] /\ MaxSent > 0
       /\ \/ sent'[x][1] = "initialize"
          \/ stack[t] # <<>> /\ Top(stack[t]).do = "send_request" /\ Top(stack[t]).on = x

\* A step of a thread that sends, runs user code, throws or reports an error:
\* the transports stay as they are.
LightMove(t) ==
  /\ state' \in {state, "failed"}
  /\ UNCHANGED <<transport, bound, open, armed, used>>
  /\ Grows(t)
  /\ stack[t] = <<>> \/ Top(stack[t]).do \in Light
  /\ \E k \in 0..Len(stack[t]), F \in Seq(LightFrame) :
       /\ Move(t, k, F)
       /\ \A i \in 1..Len(F) : F[i].do = "send_request" => state = "ready" /\ F[i].on = transport
       /\ \/ k = 0
          \/ stack[t][k].do = "callback"
          \/ k = Len(stack[t]) - 1 /\ Len(F) > 0 /\ F[1].do = "throw"
          \/ k = Len(stack[t]) - 1 /\ Top(stack[t]).do = "callback"
          \/ /\ k = Len(stack[t]) - 1
             /\ Top(stack[t]).do \in {"send_initialize", "send_request"} /\ open[Top(stack[t]).on]
             /\ MaxSent > 0 => sent'[Top(stack[t]).on] # <<>>

LEMMA SameGrows == ASSUME TypeOK, NEW t, UNCHANGED sent PROVE Grows(t)
BY DEF Grows, TypeOK

\* Frames of user code and of an exception on their way, put on the stack.
LEMMA PlainMove ==
  ASSUME TypeOK, NEW t \in Threads, stack[t] = <<>> \/ Top(stack[t]).do \in Light,
         state' \in {state, "failed"}, UNCHANGED <<transport, bound, links>>,
         NEW k \in 0..Len(stack[t]), NEW F \in Seq(PlainFrame), Move(t, k, F),
         \/ k = 0
         \/ stack[t][k].do = "callback"
         \/ k = Len(stack[t]) - 1 /\ Len(F) > 0 /\ F[1].do = "throw"
         \/ k = Len(stack[t]) - 1 /\ Top(stack[t]).do = "callback"
  PROVE  LightMove(t)
<1>1. F \in Seq(LightFrame) /\ \A i \in 1..Len(F) : F[i].do # "send_request"
  BY PlainFrames
<1>2. Grows(t)
  BY SameGrows DEF links
<1> QED
  BY <1>1, <1>2 DEF LightMove, links

LEMMA LightThrow ==
  ASSUME TypeOK, NEW t \in Threads, stack[t] # <<>>, Top(stack[t]).do \in Light,
         Throw(t), UNCHANGED <<state, transport, bound, links>>
  PROVE  LightMove(t)
<1>1. PICK k \in 0..Len(stack[t]) :
        Move(t, k, <<>>) /\ (k = 0 \/ stack[t][k].do = "callback")
  BY ThrowMoves
<1>2. <<>> \in Seq(PlainFrame)
  OBVIOUS
<1> QED
  BY <1>1, <1>2, PlainMove

LEMMA RequestLight ==
  ASSUME TypeOK, NEW t \in Threads, Request(t)
  PROVE  LightMove(t)
<1>1. stack[t] \in Seq(FrameType) /\ Len(stack[t]) \in Nat
  BY DEF TypeOK
<1>2. /\ stack[t] = <<>> \/ (stack[t] # <<>> /\ stack[t][Len(stack[t])].do = "callback")
      /\ transport \in Transports
      /\ UNCHANGED <<state, transport, bound, links>>
  BY DEF Request, MayCall, Top, TypeOK
<1>3. PICK do \in {"send_initialize", "send_request"} :
        /\ do = "send_request" => state = "ready"
        /\ stack' = [stack EXCEPT ![t] = Append(@, Frame(do, transport))]
  BY DEF Request
<1> DEFINE e == Frame(do, transport)
<1>4. e \in LightFrame /\ e \in FrameType /\ e.do = do /\ e.on = transport
  BY <1>2, FrameTypes DEF LightFrame, Frame
<1> HIDE DEF e
<1>5. Append(stack[t], e) = Cut(stack[t], Len(stack[t]), <<e>>)
  BY <1>1, <1>4, AppendCuts
<1>6. /\ <<e>> \in Seq(LightFrame) /\ <<e>> \in Seq(FrameType)
      /\ \A i \in 1..Len(<<e>>) : <<e>>[i].do = "send_request" => state = "ready" /\ <<e>>[i].on = transport
  BY <1>3, <1>4
<1>7. Len(stack[t]) \in 0..Len(stack[t])
  BY <1>1
<1>8. Move(t, Len(stack[t]), <<e>>)
  BY <1>3, <1>5, <1>6, <1>7 DEF Move, e
<1>9. Len(stack[t]) = 0 \/ stack[t][Len(stack[t])].do = "callback"
  BY <1>2
<1>10. stack[t] = <<>> \/ Top(stack[t]).do \in Light
  BY <1>2 DEF Top, Light
<1>11. Grows(t)
  BY <1>2, SameGrows DEF links
<1> QED
  BY <1>2, <1>6, <1>7, <1>8, <1>9, <1>10, <1>11 DEF LightMove, links

LEMMA SendDoneLight ==
  ASSUME TypeOK, NEW t \in Threads, SendDone(t)
  PROVE  LightMove(t)
<1>1. /\ stack[t] # <<>> /\ stack[t] \in Seq(FrameType)
      /\ Top(stack[t]).do \in {"send_initialize", "send_request"}
      /\ open[On(t)]
      /\ UNCHANGED <<state, transport, bound, open, armed, used>>
  BY DEF SendDone, Sends, About, TypeOK
<1>2. On(t) \in Transports /\ On(t) = Top(stack[t]).on
  <2>1. Top(stack[t]) \in FrameType
    BY <1>1, BelowType
  <2> QED
    BY <1>1, <2>1, FrameTypes DEF On, OnTransport
<1>3. PICK frames \in {<<>>, <<Frame("callback", None)>>} :
        stack' = [stack EXCEPT ![t] = Then(@, frames)]
  BY DEF SendDone
<1>4. frames \in Seq(PlainFrame)
  <2>1. CASE frames = <<>>
    BY <2>1
  <2>2. CASE frames = <<Frame("callback", None)>>
    BY <2>2, FrameTypes
  <2> QED
    BY <1>3, <2>1, <2>2
<1>5. /\ frames \in Seq(LightFrame) /\ frames \in Seq(FrameType)
      /\ \A i \in 1..Len(frames) : frames[i].do # "send_request"
  BY <1>4, PlainFrames
<1>6. Move(t, Len(stack[t]) - 1, frames)
  BY <1>1, <1>3, <1>5, ThenMoves
<1>7. Len(stack[t]) - 1 \in 0..Len(stack[t])
  BY <1>1
<1> DEFINE x == On(t)
           m == IF About(t, "send_initialize") THEN "initialize" ELSE "request"
<1>8. /\ sent[x] \in Seq({"initialize", "request"})
      /\ Len(sent[x]) \in Nat /\ MaxSent \in Nat
      /\ m \in {"initialize", "request"}
      /\ sent' = [sent EXCEPT ![x] = IF Len(@) = MaxSent THEN @ ELSE Append(@, m)]
  BY <1>2, ConstantsAssumption DEF SendDone, TypeOK, ConstantsAssumption
<1>9. m = "initialize" \/ Top(stack[t]).do = "send_request"
  BY <1>1 DEF About
<1> HIDE DEF x, m
<1>10. /\ sent'[x] \in Seq({"initialize", "request"})
       /\ sent[x] # <<>> => sent'[x] # <<>> /\ sent'[x][1] = sent[x][1]
       /\ sent[x] = <<>> /\ sent'[x] # <<>> => MaxSent > 0 /\ sent'[x][1] = m
       /\ MaxSent > 0 => sent'[x] # <<>>
  <2>1. sent'[x] = IF Len(sent[x]) = MaxSent THEN sent[x] ELSE Append(sent[x], m)
    BY <1>2, <1>8 DEF TypeOK, x
  <2>2. CASE Len(sent[x]) = MaxSent
    BY <1>8, <2>1, <2>2
  <2>3. CASE Len(sent[x]) # MaxSent
    <3>1. sent'[x] = Append(sent[x], m)
      BY <2>1, <2>3
    <3>2. sent[x] = <<>> => MaxSent > 0
      BY <1>8, <2>3
    <3> QED
      BY <1>8, <3>1, <3>2
  <2> QED
    BY <2>2, <2>3
<1>11. \A y \in Transports \ {x} : sent'[y] = sent[y]
  BY <1>8 DEF TypeOK
<1>12. sent' \in [Transports -> Seq({"initialize", "request"})]
  BY <1>8, <1>10 DEF TypeOK
<1>13. Grows(t)
  <2>1. open[x] /\ x = Top(stack[t]).on
    BY <1>1, <1>2 DEF x
  <2>2. \A y \in Transports : y = x \/ sent'[y] = sent[y]
    BY <1>11
  <2>3. ASSUME NEW y \in Transports, sent[y] # <<>>
        PROVE  sent'[y] # <<>> /\ sent'[y][1] = sent[y][1]
    BY <1>10, <2>2, <2>3
  <2>4. ASSUME NEW y \in Transports, sent[y] = <<>>, sent'[y] # <<>>
        PROVE  y = x /\ MaxSent > 0 /\ sent'[y][1] = m
    BY <1>10, <2>2, <2>4
  <2> QED
    BY <1>1, <1>9, <1>12, <2>1, <2>3, <2>4 DEF Grows
<1> QED
  BY <1>1, <1>2, <1>5, <1>6, <1>7, <1>10, <1>13 DEF LightMove, Light, x

LEMMA SendFailsLight ==
  ASSUME TypeOK, NEW t \in Threads, SendFails(t)
  PROVE  LightMove(t)
<1>1. /\ stack[t] # <<>> /\ stack[t] \in Seq(FrameType)
      /\ Top(stack[t]).do \in Light
      /\ UNCHANGED <<transport, bound, links>>
  BY DEF SendFails, Sends, About, Light, TypeOK
<1>2. CASE Throw(t) /\ UNCHANGED state
  BY <1>1, <1>2, LightThrow
<1>3. CASE Continue(t, "failed", <<Frame("throw", None)>> \o Callback)
  <2> DEFINE p == <<Frame("throw", None)>>
             F == p \o Callback
             G == F \o Changed("failed")
  <2>1. p \in Seq(PlainFrame) /\ Len(p) = 1 /\ p[1].do = "throw"
    BY FrameTypes DEF Frame
  <2>2. Callback \in Seq(PlainFrame) /\ Changed("failed") \in Seq(PlainFrame)
    BY PlainFrames
  <2> HIDE DEF p
  <2>3. F \in Seq(PlainFrame) /\ Len(F) \in Nat /\ Len(F) > 0 /\ F[1].do = "throw"
    <3>1. /\ F \in Seq(PlainFrame)
          /\ Len(F) = Len(p) + Len(Callback)
          /\ \A i \in 1..Len(p) + Len(Callback) : F[i] = IF i <= Len(p) THEN p[i] ELSE Callback[i - Len(p)]
      BY <2>1, <2>2, ConcatProperties
    <3>2. Len(Callback) \in Nat
      BY <2>2
    <3> HIDE DEF F
    <3> QED
      BY <2>1, <3>1, <3>2
  <2>4. Continue(t, "failed", F)
    BY <1>3 DEF p
  <2> HIDE DEF F
  <2>5. G \in Seq(PlainFrame) /\ Len(G) > 0 /\ G[1].do = "throw"
    <3>1. /\ G \in Seq(PlainFrame)
          /\ Len(G) = Len(F) + Len(Changed("failed"))
          /\ \A i \in 1..Len(F) + Len(Changed("failed")) :
               G[i] = IF i <= Len(F) THEN F[i] ELSE Changed("failed")[i - Len(F)]
      BY <2>2, <2>3, ConcatProperties
    <3>2. Len(Changed("failed")) \in Nat
      BY <2>2
    <3> HIDE DEF G
    <3> QED
      BY <2>3, <3>1, <3>2
  <2>6. state' = "failed" /\ Move(t, Len(stack[t]) - 1, G)
    <3>1. F \in Seq(FrameType) /\ "failed" \in States
      BY <2>3, PlainFrames DEF States
    <3> QED
      BY <1>1, <2>4, <3>1, ContinueMoves
  <2>7. Len(stack[t]) - 1 \in 0..Len(stack[t])
    BY <1>1
  <2> HIDE DEF G
  <2> QED
    BY <1>1, <2>5, <2>6, <2>7, PlainMove
<1> QED
  BY <1>2, <1>3 DEF SendFails

LEMMA ReturnLight ==
  ASSUME TypeOK, NEW t \in Threads, Return(t)
  PROVE  LightMove(t)
<1>1. /\ stack[t] # <<>> /\ stack[t] \in Seq(FrameType)
      /\ Top(stack[t]).do = "callback" /\ Top(stack[t]).do \in Light
      /\ stack' = [stack EXCEPT ![t] = Then(@, <<>>)]
      /\ UNCHANGED <<state, transport, bound, links>>
  BY DEF Return, About, Light, TypeOK
<1>2. <<>> \in Seq(PlainFrame) /\ <<>> \in Seq(FrameType)
  OBVIOUS
<1>3. Move(t, Len(stack[t]) - 1, <<>>)
  BY <1>1, <1>2, ThenMoves
<1>4. Len(stack[t]) - 1 \in 0..Len(stack[t])
  BY <1>1
<1> QED
  BY <1>1, <1>2, <1>3, <1>4, PlainMove

LEMMA LightCalls ==
  ASSUME TypeOK, NEW t \in Threads,
         Request(t) \/ SendDone(t) \/ SendFails(t) \/ Rethrow(t) \/ Return(t)
  PROVE  LightMove(t)
<1>1. CASE Rethrow(t)
  BY <1>1, LightThrow DEF Rethrow, About, Light
<1> QED
  BY <1>1, RequestLight, SendDoneLight, SendFailsLight, ReturnLight

LEMMA LightHandlers ==
  ASSUME TypeOK, NEW t \in Threads, Message(t) \/ Error(t)
  PROVE  LightMove(t)
<1>1. /\ stack[t] \in Seq(FrameType) /\ Len(stack[t]) = 0 /\ stack[t] = <<>>
      /\ UNCHANGED <<transport, bound, links>>
  BY DEF TypeOK, Message, Error
<1>2. 0 \in 0..Len(stack[t])
  BY <1>1
<1>3. CASE Message(t)
  <2> DEFINE F == <<Frame("callback", None)>>
  <2>1. F \in Seq(PlainFrame)
    BY FrameTypes
  <2>2. stack' = [stack EXCEPT ![t] = F] /\ state' = state
    BY <1>3 DEF Message
  <2> HIDE DEF F
  <2>3. F \in Seq(FrameType) /\ F = Cut(stack[t], 0, F)
    <3>1. \A s, G \in Seq(FrameType) : G = Cut(s, 0, G)
      BY CutForms
    <3>2. F \in Seq(FrameType) /\ stack[t] \in Seq(FrameType)
      BY <2>1, PlainFrames DEF TypeOK
    <3> QED
      BY <3>1, <3>2, Zenon
  <2>4. [stack EXCEPT ![t] = F] = [stack EXCEPT ![t] = Cut(stack[t], 0, F)]
    BY <2>3, Zenon
  <2>5. Move(t, 0, F)
    BY <1>2, <2>2, <2>3, <2>4, Zenon DEF Move
  <2> QED
    BY <1>1, <1>2, <2>1, <2>2, <2>5, PlainMove
<1>4. CASE Error(t)
  <2>1. Call(t, "failed", Callback) /\ "failed" \in States
    BY <1>4 DEF Error, States
  <2>2. Callback \in Seq(PlainFrame) /\ Callback \in Seq(FrameType)
    BY PlainFrames
  <2>3. /\ state' = "failed"
        /\ Move(t, Len(stack[t]), Callback \o Changed("failed"))
        /\ Callback \o Changed("failed") \in Seq(PlainFrame)
    BY <2>1, <2>2, CallMoves
  <2>4. Len(stack[t]) \in 0..Len(stack[t]) /\ Len(stack[t]) = 0
    BY <1>1
  <2> QED
    BY <1>1, <2>3, <2>4, PlainMove
<1> QED
  BY <1>3, <1>4

LEMMA DisconnectingFrames ==
  /\ Disconnecting \in Seq(FrameType)
  /\ \A x \in Transports \cup {None} : <<Frame("install", x)>> \o Disconnecting \in Seq(FrameType)
<1>1. Frame("disconnected", None) \in FrameType /\ Frame("close", None) \in FrameType
  BY FrameTypes DEF Doing, OnTransport
<1>2. Disconnecting \in Seq(FrameType)
  BY <1>1 DEF Disconnecting
<1>3. ASSUME NEW x \in Transports \cup {None}
      PROVE  <<Frame("install", x)>> \o Disconnecting \in Seq(FrameType)
  <2>1. Frame("install", x) \in FrameType
    BY FrameTypes DEF Doing, OnTransport
  <2>2. <<Frame("install", x)>> \in Seq(FrameType)
    BY <2>1
  <2> QED
    BY <1>2, <2>2
<1> QED
  BY <1>2, <1>3

LEMMA InitType == ASSUME Init PROVE TypeOK
<1>1. stack \in [Threads -> Seq(FrameType)]
  BY DEF Init
<1>2. /\ open \in [Transports -> BOOLEAN]
      /\ armed \in [Transports -> BOOLEAN]
      /\ sent \in [Transports -> Seq({"initialize", "request"})]
  BY DEF Init
<1> QED
  BY <1>1, <1>2 DEF Init, TypeOK, States

LEMMA LightType ==
  ASSUME TypeOK, NEW t \in Threads, LightMove(t)
  PROVE  TypeOK'
<1>1. stack' \in [Threads -> Seq(FrameType)]
  BY MoveType DEF LightMove
<1>2. state' \in States
  BY DEF LightMove, TypeOK, States
<1> QED
  BY <1>1, <1>2 DEF LightMove, Grows, TypeOK

LEMMA HandshakeFrames ==
  ASSUME TypeOK, transport # None
  PROVE  /\ Handshake \in Seq(FrameType)
         /\ Len(Handshake) = 2 /\ Handshake[1].do = "ready"
         /\ Handshake[2] = Frame("send_initialize", transport)
<1>1. transport \in Transports
  BY DEF TypeOK
<1>2. Frame("ready", None) \in FrameType /\ Frame("send_initialize", transport) \in FrameType
  BY <1>1, FrameTypes DEF Doing, OnTransport
<1>3. Frame("ready", None).do = "ready"
  BY DEF Frame
<1> QED
  BY <1>2, <1>3 DEF Handshake

LEMMA CallsType ==
  ASSUME TypeOK, NEW t \in Threads, Calls(t)
  PROVE  TypeOK'
<1>1. ASSUME NEW next \in States, NEW A \in Seq(FrameType), Call(t, next, A),
             UNCHANGED <<transport, bound, links>>
      PROVE  TypeOK'
  <2>1. state' \in States /\ stack' \in [Threads -> Seq(FrameType)]
    BY <1>1, CallMoves, MoveType
  <2> QED
    BY <1>1, <2>1 DEF TypeOK, links
<1>2. ASSUME NEW x \in Transports \cup {None}, SetTransport(t, x)
      PROVE  TypeOK'
  <2>1. CASE state \in {"disconnected", "failed"}
    BY <1>2, <2>1 DEF SetTransport, Bind, TypeOK, links
  <2>2. CASE state \notin {"disconnected", "failed"}
    <3>1. /\ Call(t, "closing", <<Frame("install", x)>> \o Disconnecting)
          /\ UNCHANGED <<transport, bound, links>>
      BY <1>2, <2>2 DEF SetTransport
    <3>2. "closing" \in States /\ <<Frame("install", x)>> \o Disconnecting \in Seq(FrameType)
      BY DisconnectingFrames DEF States
    <3> QED
      BY <1>1, <3>1, <3>2
  <2> QED
    BY <2>1, <2>2
<1>3. ASSUME NEW x \in Transports, DirectClose(t, x)
      PROVE  TypeOK'
  <2>1. Frame("close", x) \in FrameType
    BY FrameTypes DEF Doing, OnTransport
  <2>2. <<Frame("close", x)>> \in Seq(FrameType)
    BY <2>1
  <2>3. stack' \in [Threads -> Seq(FrameType)]
    BY <1>3, <2>2 DEF DirectClose, TypeOK
  <2> QED
    BY <1>3, <2>3 DEF DirectClose, TypeOK, links
<1>4. CASE Connect(t)
  <2>1. Call(t, "connecting", <<Frame("open", transport)>>) /\ UNCHANGED <<transport, bound, links>>
    BY <1>4 DEF Connect
  <2>2. <<Frame("open", transport)>> \in Seq(FrameType)
    <3>1. transport \in Transports
      BY <1>4 DEF Connect, TypeOK
    <3> QED
      BY <3>1, FrameTypes DEF OnTransport
  <2>3. "connecting" \in States
    BY DEF States
  <2> QED
    BY <1>1, <2>1, <2>2, <2>3
<1>5. CASE Disconnect(t)
  <2>1. Call(t, "closing", Disconnecting) /\ UNCHANGED <<transport, bound, links>>
    BY <1>5 DEF Disconnect
  <2>2. "closing" \in States
    BY DEF States
  <2> QED
    BY <1>1, <2>1, <2>2, DisconnectingFrames
<1>6. CASE Initialize(t)
  <2>1. Call(t, "initializing", Handshake) /\ UNCHANGED <<transport, bound, links>>
    BY <1>6 DEF Initialize
  <2>2. transport # None
    BY <1>6 DEF Initialize
  <2>3. "initializing" \in States
    BY DEF States
  <2> QED
    BY <1>1, <2>1, <2>2, <2>3, HandshakeFrames
<1>7. CASE Request(t)
  BY <1>7, LightCalls, LightType
<1> QED
  BY <1>2, <1>3, <1>4, <1>5, <1>6, <1>7 DEF Calls

LEMMA RunsType ==
  ASSUME TypeOK, NEW t \in Threads, Runs(t)
  PROVE  TypeOK'
<1>1. <<>> \in Seq(FrameType)
  OBVIOUS
<1>2. ASSUME stack[t] # <<>>, NEW F \in Seq(FrameType), stack' = [stack EXCEPT ![t] = Then(@, F)]
      PROVE  stack' \in [Threads -> Seq(FrameType)]
  BY <1>2, ThenMoves, MoveType
<1>3. ASSUME stack[t] # <<>>, NEW next \in States, NEW F \in Seq(FrameType), Continue(t, next, F)
      PROVE  state' \in States /\ stack' \in [Threads -> Seq(FrameType)]
  BY <1>3, ContinueMoves, MoveType
<1>4. ASSUME stack[t] # <<>>
      PROVE  /\ On(t) \in Transports \cup {None}
             /\ Top(stack[t]).do \in OnTransport => On(t) \in Transports
  <2>1. Top(stack[t]) \in FrameType
    BY <1>4, BelowType DEF TypeOK
  <2> QED
    BY <2>1, FrameTypes DEF On
<1>5. CASE Open(t)
  <2>1. stack[t] # <<>> /\ On(t) \in Transports
    BY <1>4, <1>5 DEF Open, About, OnTransport
  <2>2. CASE Throw(t) /\ UNCHANGED links
    <3>1. stack' \in [Threads -> Seq(FrameType)]
      BY <2>1, <2>2, ThrowMoves, MoveType
    <3> QED
      BY <1>5, <2>2, <3>1 DEF Open, TypeOK, links
  <2>3. CASE /\ open' = [open EXCEPT ![On(t)] = TRUE]
             /\ armed' = [armed EXCEPT ![On(t)] = TRUE]
             /\ used' = used \cup {On(t)}
             /\ sent' = IF open[On(t)] THEN sent ELSE [sent EXCEPT ![On(t)] = <<>>]
             /\ stack' = [stack EXCEPT ![t] =
                  Then(@, <<Frame(IF AutoInitialize THEN "initialize" ELSE "ready", None)>>)]
    <3> DEFINE do == IF AutoInitialize THEN "initialize" ELSE "ready"
    <3>1. <<Frame(do, None)>> \in Seq(FrameType)
      <4>1. Frame("initialize", None) \in FrameType /\ Frame("ready", None) \in FrameType
        BY FrameTypes DEF Doing, OnTransport
      <4> QED
        BY <4>1
    <3>2. stack' \in [Threads -> Seq(FrameType)]
      BY <1>2, <2>1, <2>3, <3>1
    <3>3. sent' \in [Transports -> Seq({"initialize", "request"})]
      BY <2>1, <2>3 DEF TypeOK
    <3>4. open' \in [Transports -> BOOLEAN] /\ armed' \in [Transports -> BOOLEAN]
      BY <2>1, <2>3 DEF TypeOK
    <3>5. used' \subseteq Transports
      BY <2>1, <2>3 DEF TypeOK
    <3> QED
      BY <1>5, <3>2, <3>3, <3>4, <3>5 DEF Open, TypeOK
  <2> QED
    BY <1>5, <2>2, <2>3 DEF Open
<1>6. CASE AutoInit(t)
  <2>1. stack[t] # <<>> /\ UNCHANGED <<transport, bound, links>>
    BY <1>6 DEF AutoInit, About
  <2>2. CASE transport = None \/ state = "disconnected"
    <3>1. Throw(t) /\ UNCHANGED state
      BY <1>6, <2>2 DEF AutoInit
    <3>2. stack' \in [Threads -> Seq(FrameType)]
      BY <2>1, <3>1, ThrowMoves, MoveType
    <3> QED
      BY <2>1, <3>1, <3>2 DEF TypeOK, links
  <2>3. CASE ~(transport = None \/ state = "disconnected")
    <3>1. Continue(t, "initializing", Handshake) /\ "initializing" \in States
      BY <1>6, <2>3 DEF AutoInit, States
    <3>2. state' \in States /\ stack' \in [Threads -> Seq(FrameType)]
      BY <1>3, <2>1, <2>3, <3>1, HandshakeFrames
    <3> QED
      BY <2>1, <3>2 DEF TypeOK, links
  <2> QED
    BY <2>2, <2>3
<1>7. CASE Ready(t)
  <2>1. "ready" \in States
    BY DEF States
  <2>2. state' \in States /\ stack' \in [Threads -> Seq(FrameType)]
    BY <1>1, <1>3, <1>7, <2>1 DEF Ready, About
  <2> QED
    BY <1>7, <2>2 DEF Ready, TypeOK, links
<1>8. CASE Disconnected(t)
  <2>1. "disconnected" \in States
    BY DEF States
  <2>2. state' \in States /\ stack' \in [Threads -> Seq(FrameType)]
    BY <1>1, <1>3, <1>8, <2>1 DEF Disconnected, About
  <2> QED
    BY <1>8, <2>2 DEF Disconnected, TypeOK, links
<1>9. CASE Closed(t)
  <2> DEFINE next == IF On(t) \in bound /\ state # "closing" THEN "disconnected" ELSE state
  <2>1. next \in States
    BY DEF States, TypeOK
  <2>2. stack[t] # <<>> /\ Continue(t, next, <<>>) /\ UNCHANGED <<transport, bound, links>>
    BY <1>9 DEF Closed, About
  <2> HIDE DEF next
  <2>3. state' \in States /\ stack' \in [Threads -> Seq(FrameType)]
    BY <1>1, <1>3, <2>1, <2>2
  <2> QED
    BY <2>2, <2>3 DEF TypeOK, links
<1>10. CASE Close(t)
  <2>1. stack[t] # <<>> /\ Closing(t) \in Transports \cup {None}
    BY <1>4, <1>10 DEF Close, About, Closing, TypeOK
  <2>2. CASE Closing(t) # None /\ armed[Closing(t)]
    <3>1. /\ open' = [open EXCEPT ![Closing(t)] = FALSE]
          /\ armed' = [armed EXCEPT ![Closing(t)] = FALSE]
          /\ stack' = [stack EXCEPT ![t] = Then(@, <<Frame("notify", Closing(t))>>)]
      BY <1>10, <2>2 DEF Close
    <3>2. <<Frame("notify", Closing(t))>> \in Seq(FrameType)
      <4>1. Frame("notify", Closing(t)) \in FrameType
        BY <2>1, FrameTypes DEF Doing, OnTransport
      <4> QED
        BY <4>1
    <3>3. stack' \in [Threads -> Seq(FrameType)]
      BY <1>2, <2>1, <3>1, <3>2
    <3>4. open' \in [Transports -> BOOLEAN] /\ armed' \in [Transports -> BOOLEAN]
      BY <2>1, <3>1 DEF TypeOK
    <3> QED
      BY <1>10, <3>3, <3>4 DEF Close, TypeOK
  <2>3. CASE ~(Closing(t) # None /\ armed[Closing(t)])
    <3>1. stack' \in [Threads -> Seq(FrameType)]
      BY <1>1, <1>2, <1>10, <2>1, <2>3 DEF Close
    <3> QED
      BY <1>10, <2>3, <3>1 DEF Close, TypeOK
  <2> QED
    BY <2>2, <2>3
<1>11. CASE Install(t)
  <2>1. stack[t] # <<>> /\ On(t) \in Transports \cup {None}
    BY <1>4, <1>11 DEF Install, About
  <2>2. stack' \in [Threads -> Seq(FrameType)]
    BY <1>1, <1>2, <1>11, <2>1 DEF Install
  <2> QED
    BY <1>11, <2>1, <2>2 DEF Install, Bind, TypeOK, links
<1>12. CASE SendDone(t) \/ SendFails(t) \/ Rethrow(t) \/ Return(t)
  BY <1>12, LightCalls, LightType
<1> QED
  BY <1>5, <1>6, <1>7, <1>8, <1>9, <1>10, <1>11, <1>12 DEF Runs

\* Every variable keeps its type, and so every thread only ever opens and sends
\* on a transport that exists: connect, initialize and request check transport_
\* before they use it (client.cpp).
THEOREM TypeCorrect == Spec => []TypeOK
<1>1. ASSUME TypeOK, [Next]_vars
      PROVE  TypeOK'
  <2>1. CASE UNCHANGED vars
    BY <1>1, <2>1 DEF vars, links, TypeOK
  <2>2. ASSUME NEW t \in Threads, Calls(t)
        PROVE  TypeOK'
    BY <1>1, <2>2, CallsType
  <2>3. ASSUME NEW t \in Threads, Runs(t)
        PROVE  TypeOK'
    BY <1>1, <2>3, RunsType
  <2>4. ASSUME NEW r \in Readers, Message(r) \/ Error(r)
        PROVE  TypeOK'
    <3>1. r \in Threads
      BY DEF Threads
    <3> QED
      BY <1>1, <2>4, <3>1, LightHandlers, LightType
  <2> QED
    BY <1>1, <2>1, <2>2, <2>3, <2>4 DEF Next
<1> QED
  BY <1>1, InitType, PTL DEF Spec
-----------------------------------------------------------------------------
(* Safety *)

LEMMA MoveFrames ==
  ASSUME TypeOK, NEW t \in Threads, NEW k, NEW F, Move(t, k, F)
  PROVE  /\ Len(stack'[t]) = k + Len(F)
         /\ \A i \in 1..k : stack'[t][i] = stack[t][i]
         /\ \A i \in k + 1..k + Len(F) : stack'[t][i] = F[i - k]
         /\ k \in Nat /\ Len(F) \in Nat /\ Len(stack[t]) \in Nat /\ k <= Len(stack[t])
<1>1. stack[t] \in Seq(FrameType)
  BY DEF TypeOK
<1>2. stack'[t] = Cut(stack[t], k, F)
  BY MoveType
<1>3. k \in 0..Len(stack[t]) /\ F \in Seq(FrameType)
  BY DEF Move
<1>4. Len(stack[t]) \in Nat /\ Len(F) \in Nat
  BY <1>1, <1>3
<1> DEFINE c == Cut(stack[t], k, F)
<1>5. /\ Len(c) = k + Len(F)
      /\ \A i \in 1..k : c[i] = stack[t][i]
      /\ \A i \in k + 1..k + Len(F) : c[i] = F[i - k]
  <2>1. Len(c) = k + Len(F)
    BY <1>1, <1>3, CutType
  <2>2. \A i \in 1..k : c[i] = stack[t][i]
    BY <1>1, <1>3, CutType, ZenonT(60)
  <2>3. \A i \in k + 1..k + Len(F) : c[i] = F[i - k]
    BY <1>1, <1>3, CutType
  <2> QED
    BY <2>1, <2>2, <2>3
<1> HIDE DEF c
<1>6. stack'[t] = c
  BY <1>2 DEF c
<1>7. k \in Nat /\ k <= Len(stack[t])
  BY <1>3, <1>4
<1> QED
  BY <1>4, <1>5, <1>6, <1>7

\* A sequential application calls the client from an empty stack; what goes
\* on to be done besides sending is done by its thread.
LEMMA OneApp ==
  ASSUME Sequential, TypeOK, ReadersLight, NEW t \in Threads
  PROVE  /\ \A call \in {"connect", "disconnect", "initialize"} : MayCall(t, call) => t \in Apps /\ stack[t] = <<>>
         /\ \A do : About(t, do) /\ do \notin Light => t \in Apps
         /\ t \in Apps => Apps = {t} /\ t \notin Readers
<1>1. \A call \in {"connect", "disconnect", "initialize"} : MayCall(t, call) => t \in Apps /\ stack[t] = <<>>
  BY DEF MayCall, Sequential
<1>2. ASSUME NEW do, About(t, do), do \notin Light
      PROVE  t \in Apps
  <2>1. stack[t] # <<>> /\ stack[t] \in Seq(FrameType)
    BY <1>2 DEF About, TypeOK
  <2>2. Len(stack[t]) \in 1..Len(stack[t])
    BY <2>1
  <2>3. stack[t][Len(stack[t])].do \notin Light
    BY <1>2 DEF About, Top
  <2> QED
    BY <2>2, <2>3 DEF ReadersLight, Threads
<1>3. t \in Apps => Apps = {t} /\ t \notin Readers
  BY ConstantsAssumption DEF ConstantsAssumption, Sequential
<1> QED
  BY <1>1, <1>2, <1>3

LEMMA LightGreeting ==
  ASSUME IInv, NEW t \in Threads, LightMove(t)
  PROVE  Greeting' /\ \A x \in Transports : Greeted(x) => Greeted(x)'
<1>1. PICK k \in 0..Len(stack[t]), F \in Seq(LightFrame) :
        /\ Move(t, k, F)
        /\ \A i \in 1..Len(F) : F[i].do = "send_request" => state = "ready" /\ F[i].on = transport
  BY DEF LightMove
<1>2. TypeOK /\ Greeting /\ Grows(t) /\ used' = used /\ ReadyOpen
  BY DEF LightMove, IInv
<1> DEFINE Sent(x) == Greets /\ MaxSent > 0 => sent'[x] # <<>>
<1>3. \A x \in Transports : Greeted(x) => Sent(x)
  BY <1>2 DEF Greeted, Grows
<1>4. \A x \in Transports \ used' : sent'[x] = <<>>
  BY <1>2 DEF Greeting, Grows, IInv, Contract
<1>5. ASSUME NEW u \in Threads, NEW i \in 1..Len(stack'[u]), stack'[u][i].do = "send_request"
      PROVE  Sent(stack'[u][i].on)
  <2>1. CASE u # t
    <3>1. stack'[u] = stack[u]
      BY <1>1, <1>2, <2>1, MoveType
    <3>2. Greeted(stack[u][i].on)
      BY <1>2, <1>5, <3>1 DEF Greeting
    <3>3. stack[u][i] \in FrameType
      BY <1>2, <3>1 DEF TypeOK
    <3>4. stack[u][i].on \in Transports
      BY <1>5, <3>1, <3>3, FrameTypes DEF OnTransport
    <3> QED
      BY <1>3, <3>1, <3>2, <3>4
  <2>2. CASE u = t
    <3>1. /\ Len(stack'[t]) = k + Len(F)
          /\ \A j \in 1..k : stack'[t][j] = stack[t][j]
          /\ \A j \in k + 1..k + Len(F) : stack'[t][j] = F[j - k]
          /\ k \in Nat /\ Len(F) \in Nat /\ Len(stack[t]) \in Nat /\ k <= Len(stack[t])
      BY <1>1, <1>2, MoveFrames
    <3>2. CASE i \in 1..k
      <4>1. i \in 1..Len(stack[t]) /\ stack'[t][i] = stack[t][i]
        BY <3>1, <3>2
      <4>2. Greeted(stack[t][i].on)
        BY <1>2, <1>5, <2>2, <4>1 DEF Greeting
      <4>3. stack[t][i] \in FrameType
        BY <1>2, <4>1 DEF TypeOK
      <4>4. stack[t][i].on \in Transports
        BY <1>5, <2>2, <4>1, <4>3, FrameTypes DEF OnTransport
      <4> QED
        BY <1>3, <2>2, <4>1, <4>2, <4>4
    <3>3. CASE i \notin 1..k
      <4>1. i - k \in 1..Len(F) /\ stack'[t][i] = F[i - k]
        BY <2>2, <3>1, <3>3
      <4>2. state = "ready" /\ stack'[t][i].on = transport
        BY <1>1, <1>5, <2>2, <4>1
      <4>3. Greeted(transport) /\ transport \in Transports
        BY <1>2, <4>2 DEF ReadyOpen, TypeOK
      <4> QED
        BY <1>3, <2>2, <4>2, <4>3
    <3> QED
      BY <3>2, <3>3
  <2> QED
    BY <2>1, <2>2
<1>6. Greets => HandshakeFirst'
  <2>1. ASSUME Greets, NEW x \in Transports, sent'[x] # <<>>
        PROVE  sent'[x][1] = "initialize"
    <3>1. CASE sent[x] # <<>>
      BY <1>2, <2>1, <3>1 DEF Grows, Greeting, HandshakeFirst
    <3>2. CASE sent[x] = <<>> /\ sent'[x][1] # "initialize"
      <4>1. MaxSent > 0 /\ stack[t] # <<>> /\ Top(stack[t]).do = "send_request" /\ Top(stack[t]).on = x
        BY <1>2, <2>1, <3>2 DEF Grows
      <4>2. Len(stack[t]) \in 1..Len(stack[t])
        <5>1. stack[t] \in Seq(FrameType)
          BY <1>2 DEF TypeOK
        <5> QED
          BY <4>1, <5>1
      <4>3. Greeted(x)
        BY <1>2, <4>1, <4>2 DEF Greeting, Top
      <4> QED
        BY <2>1, <3>2, <4>1, <4>3 DEF Greeted
    <3> QED
      BY <3>1, <3>2
  <2> QED
    BY <2>1 DEF HandshakeFirst
<1>7. Greeting'
  BY <1>4, <1>5, <1>6 DEF Greeting, Greeted, Greets
<1> QED
  BY <1>3, <1>7 DEF Greeted

LEMMA LightSafe ==
  ASSUME IInv, NEW t \in Threads, LightMove(t)
  PROVE  IInv'
<1> USE DEF IInv
<1>1. /\ state' \in {state, "failed"}
      /\ transport' = transport /\ bound' = bound /\ open' = open /\ armed' = armed /\ used' = used
      /\ stack[t] = <<>> \/ Top(stack[t]).do \in Light
  BY DEF LightMove
<1>2. PICK k \in 0..Len(stack[t]), F \in Seq(LightFrame) :
        /\ Move(t, k, F)
        /\ \/ k = 0
           \/ stack[t][k].do = "callback"
           \/ k = Len(stack[t]) - 1 /\ Len(F) > 0 /\ F[1].do = "throw"
           \/ k = Len(stack[t]) - 1 /\ Top(stack[t]).do = "callback"
           \/ /\ k = Len(stack[t]) - 1
              /\ Top(stack[t]).do \in {"send_initialize", "send_request"} /\ open[Top(stack[t]).on]
              /\ MaxSent > 0 => sent'[Top(stack[t]).on] # <<>>
  BY DEF LightMove
<1>3. \A i \in 1..Len(F) : F[i].do \in Light
  BY LightFrames
<1>4. /\ Len(stack'[t]) = k + Len(F)
      /\ \A i \in 1..k : stack'[t][i] = stack[t][i]
      /\ \A i \in k + 1..k + Len(F) : stack'[t][i] = F[i - k]
      /\ k \in Nat /\ Len(F) \in Nat /\ Len(stack[t]) \in Nat /\ k <= Len(stack[t])
  BY <1>2, MoveFrames
<1>5. \A u \in Threads : u # t => stack'[u] = stack[u]
  BY <1>2, MoveType
<1>6. \A i \in 1..Len(stack'[t]) : i \in 1..k \/ (i > k /\ stack'[t][i].do \in Light)
  BY <1>3, <1>4
<1>7. TypeOK'
  BY LightType
<1>8. Contract' /\ Linked'
  BY <1>1 DEF Contract, Linked
<1>9. ReadersLight'
  <2>1. ASSUME NEW r \in Readers, NEW i \in 1..Len(stack'[r])
        PROVE  stack'[r][i].do \in Light
    <3>1. CASE r = t
      <4>1. i \in 1..k => i \in 1..Len(stack[t]) /\ stack'[t][i] = stack[t][i]
        BY <1>4
      <4> QED
        BY <1>6, <3>1, <4>1 DEF ReadersLight
    <3>2. CASE r # t
      BY <1>5, <3>2 DEF ReadersLight, Threads
    <3> QED
      BY <3>1, <3>2
  <2> QED
    BY <2>1 DEF ReadersLight
<1>10. Greeting' /\ (transport # None /\ Greeted(transport) => Greeted(transport)')
  <2>1. transport # None => transport \in Transports
    BY DEF TypeOK
  <2>2. Greeting' /\ \A x \in Transports : Greeted(x) => Greeted(x)'
    BY LightGreeting
  <2> QED
    BY <1>1, <2>1, <2>2 DEF Greeted
<1>11. AppsPending'
  <2>1. ASSUME NEW a \in Apps, a # t
        PROVE  Shape(stack[a])' /\ \A i \in 1..Len(stack'[a]) : Pending(stack[a], i)'
    <3>1. stack'[a] = stack[a]
      BY <1>5, <2>1 DEF Threads
    <3>2. Shape(stack[a])'
      BY <1>1, <2>1, <3>1 DEF AppsPending, Shape
    <3>3. ASSUME NEW i \in 1..Len(stack[a])
          PROVE  Pending(stack[a], i)'
      <4>1. Pending(stack[a], i)
        BY DEF AppsPending
      <4> QED
        BY <1>1, <1>10, <3>1, <4>1 DEF Pending
    <3> QED
      BY <3>1, <3>2, <3>3
  <2>2. ASSUME t \in Apps
        PROVE  Shape(stack[t])' /\ \A i \in 1..Len(stack'[t]) : Pending(stack[t], i)'
    <3> DEFINE s == stack[t]
               r == stack'[t]
    <3>1. Shape(s) /\ \A i \in 1..Len(s) : Pending(s, i)
      BY <2>2 DEF AppsPending
    <3>2. k # Len(s) \/ k = 0 \/ s[Len(s)].do = "callback"
      BY <1>2, <1>4
    <3>3. s = <<>> \/ s[Len(s)].do \in Light
      BY <1>1 DEF Top
    <3>4. k = 0 \/ s[k].do = "callback" \/ (k = Len(s) - 1 /\ s # <<>>)
      BY <1>2, <1>4
    <3>5. \A i \in 1..k : s[i].do \notin {"notify", "initialize"}
      <4>1. ASSUME NEW i \in 1..k, s[i].do \in {"notify", "initialize"}
            PROVE  FALSE
        <5>1. i \in 1..Len(s) /\ i = Len(s) /\ k = Len(s)
          BY <1>4, <3>1, <4>1 DEF Shape
        <5>2. s[Len(s)].do = "callback"
          BY <1>4, <3>2, <5>1
        <5> QED
          BY <4>1, <5>1, <5>2
      <4> QED
        BY <4>1
    <3>6. \A i \in 1..k : s[i].do \in {"disconnected", "ready"} => i < Len(s) /\ (i + 1 \in 1..k \/ (k = Len(s) - 1 /\ i = k))
      <4>1. ASSUME NEW i \in 1..k, s[i].do \in {"disconnected", "ready"}
            PROVE  i < Len(s) /\ (i + 1 \in 1..k \/ (k = Len(s) - 1 /\ i = k))
        <5>1. i # Len(s) /\ s # <<>>
          BY <1>4, <3>3, <4>1 DEF Light
        <5>2. s[k].do = "callback" => i # k
          BY <4>1
        <5> QED
          BY <1>4, <3>4, <4>1, <5>1, <5>2
      <4> QED
        BY <4>1
    <3>7. /\ \A i \in 1..k : r[i] = s[i]
          /\ \A i \in 1..Len(r) : i \in 1..k \/ (i > k /\ r[i].do \in Light)
          /\ k \in Nat /\ Len(s) \in Nat /\ Len(r) \in Nat /\ k <= Len(s) /\ k <= Len(r)
      BY <1>4, <1>6
    \* The handshake was sent, or its exception is on the way.
    <3>8. ASSUME k = Len(s) - 1, k > 0, s[k].do = "ready"
          PROVE  \/ k < Len(r) /\ r[k + 1].do = "throw"
                 \/ transport # None /\ open[transport] /\ Greeted(transport)'
      <4>1. k \in 1..Len(s) /\ k + 1 = Len(s)
        BY <1>4, <3>8
      <4>2. Pending(s, k)
        BY <3>1, <4>1
      <4>3. CASE transport # None /\ open[transport] /\ Greeted(transport)
        BY <1>10, <4>3
      <4>4. CASE Len(F) > 0 /\ F[1].do = "throw"
        <5>1. k + 1 \in k + 1..k + Len(F) /\ k + 1 - k = 1 /\ k < Len(r)
          BY <1>4, <4>4
        <5>2. r[k + 1] = F[k + 1 - k]
          BY <1>4, <5>1
        <5> QED
          BY <4>4, <5>1, <5>2
      <4>5. CASE /\ ~(transport # None /\ open[transport] /\ Greeted(transport))
                 /\ ~(Len(F) > 0 /\ F[1].do = "throw")
        <5>1. s[k + 1] = Frame("send_initialize", transport) \/ s[k + 1].do = "throw"
          BY <3>8, <4>2, <4>5 DEF Pending
        <5>2. s[k + 1].do # "callback"
          BY <5>1 DEF Frame
        <5>3. /\ s[k + 1].do \in {"send_initialize", "send_request"} /\ open[s[k + 1].on]
              /\ MaxSent > 0 => sent'[s[k + 1].on] # <<>>
          BY <1>2, <3>8, <4>1, <4>5, <5>2 DEF Top
        <5>4. s[k + 1].on = transport
          BY <5>1, <5>3 DEF Frame
        <5>5. s[k + 1] \in FrameType
          BY <4>1 DEF TypeOK
        <5>6. s[k + 1].on \in Transports
          BY <5>3, <5>5, FrameTypes DEF OnTransport
        <5>7. transport # None
          BY <5>4, <5>6, ConstantsAssumption DEF ConstantsAssumption
        <5> QED
          BY <1>1, <5>3, <5>4, <5>7 DEF Greeted
      <4> QED
        BY <4>3, <4>4, <4>5
    <3> HIDE DEF s, r
    <3>9. ASSUME NEW i \in 1..Len(r)
          PROVE  /\ r[i].do \in {"install", "open", "initialize", "ready"} => i = 1
                 /\ r[i].do = "open" => r[i].on = transport
                 /\ r[i].do = "disconnected" => i = 1 \/ (i = 2 /\ r[1].do = "install")
                 /\ r[i].do = "close" => IF i = 1 THEN r[i].on # None
                                         ELSE r[i - 1].do = "disconnected" /\ r[i].on = None
                 /\ r[i].do \in {"notify", "initialize"} => i = Len(r)
      <4>1. CASE i \in 1..k
        <5>1. /\ i \in 1..Len(s) /\ r[i] = s[i] /\ r[1] = s[1]
              /\ s[i].do \notin {"notify", "initialize"}
          BY <3>5, <3>7, <4>1
        <5>2. i # 1 => r[i - 1] = s[i - 1]
          BY <3>7, <4>1
        <5> QED
          BY <3>1, <5>1, <5>2 DEF Shape
      <4>2. CASE r[i].do \in Light
        BY <4>2 DEF Light
      <4> QED
        BY <3>7, <4>1, <4>2
    <3>10. ASSUME NEW i \in 1..Len(r)
          PROVE  /\ r[i].do \in {"install", "disconnected"} => state' # "ready"
                 /\ r[i].do = "disconnected" =>
                      \/ i < Len(r) /\ r[i + 1].do = "close"
                      \/ transport = None \/ ~open[transport]
                 /\ r[i].do = "initialize" => transport # None /\ open[transport]
                 /\ r[i].do = "ready" =>
                      \/ i < Len(r) /\ r[i + 1] = Frame("send_initialize", transport)
                      \/ i < Len(r) /\ r[i + 1].do = "throw"
                      \/ transport # None /\ open[transport] /\ Greeted(transport)'
      <4>1. CASE i \in 1..k
        <5>1. Pending(s, i) /\ r[i] = s[i]
          BY <3>1, <3>7, <4>1
        <5>2. i + 1 \in 1..k => i < Len(r) /\ r[i + 1] = s[i + 1]
          BY <3>7, <4>1
        <5>3. r[i].do \in {"install", "disconnected"} => state' # "ready"
          BY <1>1, <5>1 DEF Pending
        <5>4. CASE r[i].do = "disconnected"
          <6>1. k = Len(s) - 1 /\ i = k => s[i + 1].do # "close"
            BY <3>3, <3>7, <4>1 DEF Light
          <6> QED
            BY <3>6, <4>1, <5>1, <5>2, <5>3, <5>4, <6>1 DEF Pending
        <5>5. CASE r[i].do = "ready"
          <6>1. k = Len(s) - 1 /\ i = k =>
                  \/ i < Len(r) /\ r[i + 1].do = "throw"
                  \/ transport # None /\ open[transport] /\ Greeted(transport)'
            BY <3>8, <4>1, <5>1, <5>5
          <6> QED
            BY <1>10, <3>6, <4>1, <5>1, <5>2, <5>3, <5>5, <6>1 DEF Pending
        <5> QED
          BY <3>5, <4>1, <5>1, <5>3, <5>4, <5>5
      <4>2. CASE r[i].do \in Light
        BY <4>2 DEF Light
      <4> QED
        BY <3>7, <4>1, <4>2
    <3>11. \A i \in 1..Len(stack'[t]) : Pending(stack[t], i)'
      BY <1>1, <3>10 DEF Pending, r
    <3> QED
      BY <1>1, <3>9, <3>11 DEF Shape, r
  <2> QED
    BY <2>1, <2>2 DEF AppsPending
<1>12. ReadyOpen'
  <2>1. ASSUME state' = "ready"
        PROVE  /\ transport # None
               /\ Greeted(transport)'
               /\ \/ open[transport]
                  \/ \E a \in Apps : stack'[a] # <<>> /\ Top(stack'[a]) = Frame("notify", transport)
    <3>1. state = "ready"
      BY <1>1, <2>1
    <3>2. \A a \in Apps : stack[a] # <<>> /\ Top(stack[a]) = Frame("notify", transport)
                            => stack'[a] = stack[a]
      BY <1>1, <1>5 DEF Frame, Light, Threads
    <3> QED
      BY <1>10, <3>1, <3>2 DEF ReadyOpen
  <2> QED
    BY <1>1, <2>1 DEF ReadyOpen
<1> QED
  BY <1>7, <1>8, <1>9, <1>10, <1>11, <1>12

\* What was sent stays what it was, or no handshake is promised.
Kept ==
  /\ Greets => sent' = sent
  /\ \A x \in Transports \ used' : sent'[x] = <<>>

LEMMA SameKept == ASSUME IInv, sent' = sent, used' = used PROVE Kept
BY DEF IInv, Greeting, Kept

LEMMA GreetingSafe ==
  ASSUME IInv, NEW t \in Threads, NEW k, NEW F, Move(t, k, F),
         \A i \in 1..Len(F) : F[i].do # "send_request", Kept
  PROVE  Greeting'
<1>1. TypeOK /\ Greeting
  BY DEF IInv
<1> DEFINE Sent(x) == Greets /\ MaxSent > 0 => sent'[x] # <<>>
<1>2. \A x : Greeted(x) => Sent(x)
  BY DEF Greeted, Kept
<1>3. ASSUME NEW u \in Threads, NEW i \in 1..Len(stack'[u]), stack'[u][i].do = "send_request"
      PROVE  Sent(stack'[u][i].on)
  <2>1. CASE u # t
    <3>1. stack'[u] = stack[u]
      BY <1>1, <2>1, MoveType
    <3>2. Greeted(stack[u][i].on)
      BY <1>1, <1>3, <3>1 DEF Greeting
    <3> QED
      BY <1>2, <3>1, <3>2
  <2>2. CASE u = t
    <3>1. /\ Len(stack'[t]) = k + Len(F)
          /\ \A j \in 1..k : stack'[t][j] = stack[t][j]
          /\ \A j \in k + 1..k + Len(F) : stack'[t][j] = F[j - k]
          /\ k \in Nat /\ Len(F) \in Nat /\ Len(stack[t]) \in Nat /\ k <= Len(stack[t])
      BY <1>1, MoveFrames
    <3>2. CASE i \in 1..k
      <4>1. i \in 1..Len(stack[t]) /\ stack'[t][i] = stack[t][i]
        BY <3>1, <3>2
      <4>2. Greeted(stack[t][i].on)
        BY <1>1, <1>3, <2>2, <4>1 DEF Greeting
      <4> QED
        BY <1>2, <2>2, <4>1, <4>2
    <3>3. CASE i \notin 1..k
      <4>1. i - k \in 1..Len(F) /\ stack'[t][i] = F[i - k]
        BY <2>2, <3>1, <3>3
      <4> QED
        BY <1>3, <2>2, <4>1
    <3> QED
      BY <3>2, <3>3
  <2> QED
    BY <2>1, <2>2
<1>4. Greets => HandshakeFirst'
  BY <1>1 DEF Greeting, HandshakeFirst, Kept
<1>5. \A x \in Transports \ used' : sent'[x] = <<>>
  BY DEF Kept
<1> QED
  BY <1>3, <1>4, <1>5 DEF Greeting, Greeted, Greets

\* What a step of the application's thread leaves of the other threads.
LEMMA AppSafe ==
  ASSUME Sequential, IInv, NEW t \in Apps, NEW k, NEW F, Move(t, k, F),
         Shape(stack[t])', \A i \in 1..Len(stack'[t]) : Pending(stack[t], i)'
  PROVE  ReadersLight' /\ AppsPending'
<1>1. t \in Threads /\ TypeOK
  BY DEF Threads, IInv
<1>2. Apps = {t} /\ t \notin Readers
  BY <1>1, OneApp DEF IInv
<1>3. \A r \in Readers : stack'[r] = stack[r]
  BY <1>1, <1>2, MoveType DEF Threads
<1>4. ReadersLight'
  BY <1>3 DEF IInv, ReadersLight
<1>5. AppsPending'
  BY <1>2 DEF AppsPending
<1> QED
  BY <1>4, <1>5

\* The frames that a call begins with, or goes on with, at the bottom of the
\* application's stack.
Begun(G, i) ==
  \/ G[i].do \in {"callback", "throw", "send_initialize"}
  \/ G[i].do = "install" /\ i = 1 /\ state' # "ready"
  \/ /\ G[i].do = "disconnected" /\ state' # "ready"
     /\ i = 1 \/ (i = 2 /\ G[1].do = "install")
     /\ i < Len(G) /\ G[i + 1].do = "close"
  \/ G[i].do = "close" /\ i = 1 /\ G[i].on # None
  \/ G[i].do = "close" /\ i > 1 /\ G[i].on = None /\ G[i - 1].do = "disconnected"
  \/ G[i].do = "open" /\ i = 1 /\ G[i].on = transport
  \/ G[i].do = "initialize" /\ i = 1 /\ Len(G) = 1 /\ transport # None /\ open'[transport]
  \/ /\ G[i].do = "ready" /\ i = 1
     /\ \/ i < Len(G) /\ G[i + 1] = Frame("send_initialize", transport)
        \/ transport # None /\ open'[transport] /\ Greeted(transport)'

LEMMA BeginSafe ==
  ASSUME Sequential, IInv, NEW t \in Apps, NEW G, Move(t, 0, G), transport' = transport,
         Kept, \A i \in 1..Len(G) : Begun(G, i)
  PROVE  ReadersLight' /\ AppsPending' /\ Greeting'
<1>1. t \in Threads /\ TypeOK
  BY DEF Threads, IInv
<1> DEFINE r == stack'[t]
<1>2. Len(r) = Len(G) /\ Len(G) \in Nat /\ \A i \in 1..Len(G) : r[i] = G[i]
  <2>1. PICK k : k = 0 /\ Move(t, k, G)
    OBVIOUS
  <2>2. /\ Len(r) = k + Len(G) /\ Len(G) \in Nat
        /\ \A i \in k + 1..k + Len(G) : r[i] = G[i - k]
    BY <1>1, <2>1, MoveFrames
  <2> HIDE DEF r
  <2> QED
    BY <2>1, <2>2
<1> HIDE DEF r
<1>3. ASSUME NEW i \in 1..Len(r)
      PROVE  /\ r[i].do \in {"install", "open", "initialize", "ready"} => i = 1
             /\ r[i].do = "open" => r[i].on = transport
             /\ r[i].do = "disconnected" => i = 1 \/ (i = 2 /\ r[1].do = "install")
             /\ r[i].do = "close" => IF i = 1 THEN r[i].on # None
                                     ELSE r[i - 1].do = "disconnected" /\ r[i].on = None
             /\ r[i].do \in {"notify", "initialize"} => i = Len(r)
  <2>1. Begun(G, i) /\ r[i] = G[i] /\ (i > 1 => r[i - 1] = G[i - 1] /\ r[1] = G[1])
    BY <1>2
  <2> QED
    BY <1>2, <2>1 DEF Begun
<1>4. ASSUME NEW i \in 1..Len(r)
      PROVE  /\ r[i].do \in {"install", "disconnected"} => state' # "ready"
             /\ r[i].do = "disconnected" =>
                  \/ i < Len(r) /\ r[i + 1].do = "close"
                  \/ transport = None \/ ~open'[transport]
             /\ r[i].do = "initialize" => transport # None /\ open'[transport]
             /\ r[i].do = "ready" =>
                  \/ i < Len(r) /\ r[i + 1] = Frame("send_initialize", transport)
                  \/ i < Len(r) /\ r[i + 1].do = "throw"
                  \/ transport # None /\ open'[transport] /\ Greeted(transport)'
  <2>1. Begun(G, i) /\ r[i] = G[i] /\ (i < Len(r) => r[i + 1] = G[i + 1])
    BY <1>2
  <2> QED
    BY <1>2, <2>1 DEF Begun
<1>5. Shape(stack[t])'
  BY <1>3 DEF Shape, r
<1>6. \A i \in 1..Len(stack'[t]) : Pending(stack[t], i)'
  BY <1>4 DEF Pending, r
<1>7. \A i \in 1..Len(G) : G[i].do # "send_request"
  BY DEF Begun
<1>8. Greeting'
  BY <1>1, <1>7, GreetingSafe
<1> QED
  BY <1>5, <1>6, <1>8, AppSafe

\* A change of the state may add a callback on top.
LEMMA BegunFrames ==
  ASSUME NEW A \in Seq(FrameType), NEW L \in Seq(PlainFrame),
         \A i \in 1..Len(A) : Begun(A, i) /\ A[i].do # "initialize"
  PROVE  \A i \in 1..Len(A \o L) : Begun(A \o L, i)
<1>1. L \in Seq(FrameType) /\ \A i \in 1..Len(L) : L[i].do \in {"callback", "throw"}
  BY PlainFrames
<1> DEFINE G == A \o L
<1>2. /\ Len(A) \in Nat /\ Len(L) \in Nat
      /\ Len(G) = Len(A) + Len(L)
      /\ \A i \in 1..Len(A) : G[i] = A[i]
      /\ \A i \in Len(A) + 1..Len(A) + Len(L) : G[i] = L[i - Len(A)]
  BY <1>1, ConcatProperties
<1> HIDE DEF G
<1>3. ASSUME NEW i \in 1..Len(G)
      PROVE  Begun(G, i)
  <2>1. CASE i \in 1..Len(A)
    <3>1. Begun(A, i) /\ A[i].do # "initialize" /\ G[i] = A[i] /\ G[1] = A[1]
      BY <1>2, <2>1
    <3>2. (i > 1 => G[i - 1] = A[i - 1]) /\ (i < Len(A) => i < Len(G) /\ G[i + 1] = A[i + 1])
      BY <1>2, <2>1
    <3> QED
      BY <3>1, <3>2 DEF Begun
  <2>2. CASE i \notin 1..Len(A)
    <3>1. i - Len(A) \in 1..Len(L) /\ G[i] = L[i - Len(A)]
      BY <1>2, <2>2
    <3> QED
      BY <1>1, <3>1 DEF Begun
  <2> QED
    BY <2>1, <2>2
<1> QED
  BY <1>3 DEF G

LEMMA CallsSafe ==
  ASSUME Sequential, IInv, NEW t \in Threads, Calls(t)
  PROVE  IInv'
<1>1. TypeOK /\ TypeOK'
  BY CallsType DEF IInv
\* What a call of the application's thread with these frames preserves.
<1>2. ASSUME t \in Apps, stack[t] = <<>>, NEW next \in States \ {"ready"},
             NEW A \in Seq(FrameType), Call(t, next, A), UNCHANGED <<transport, bound, links>>,
             \A i \in 1..Len(A) : state' # "ready" => Begun(A, i) /\ A[i].do # "initialize"
      PROVE  IInv'
  <2> DEFINE L == Changed(next)
  <2>1. state' = next /\ Move(t, Len(stack[t]), A \o L)
    BY <1>1, <1>2, CallMoves
  <2>2. Move(t, 0, A \o L) /\ L \in Seq(PlainFrame)
    BY <1>2, <2>1, PlainFrames
  <2> HIDE DEF L
  <2>3. \A i \in 1..Len(A) : Begun(A, i) /\ A[i].do # "initialize"
    BY <1>2, <2>1
  <2>4. \A i \in 1..Len(A \o L) : Begun(A \o L, i)
    BY <2>2, <2>3, BegunFrames
  <2>5. /\ transport' = transport /\ bound' = bound /\ open' = open /\ armed' = armed
        /\ used' = used /\ sent' = sent
    BY <1>2 DEF links
  <2>6. ReadersLight' /\ AppsPending' /\ Greeting'
    BY <1>2, <2>2, <2>4, <2>5, SameKept, BeginSafe
  <2>7. Contract' /\ Linked' /\ ReadyOpen'
    BY <1>2, <2>1, <2>5 DEF IInv, Contract, Linked, ReadyOpen
  <2> QED
    BY <1>1, <2>6, <2>7 DEF IInv
<1>3. ASSUME NEW x \in Transports \cup {None}, SetTransport(t, x)
      PROVE  IInv'
  <2>1. t \in Apps /\ stack[t] = <<>> /\ Apps = {t}
    BY <1>1, <1>3, OneApp DEF SetTransport, IInv
  <2>2. CASE state \in {"disconnected", "failed"}
    <3>1. /\ transport' = x /\ Bind(x) /\ state' = state /\ stack' = stack
          /\ open' = open /\ armed' = armed /\ used' = used /\ sent' = sent
      BY <1>3, <2>2 DEF SetTransport, links
    <3>2. Contract' /\ ReadersLight' /\ ReadyOpen'
      BY <2>2, <3>1 DEF IInv, Contract, ReadersLight, ReadyOpen
    <3>3. Linked'
      BY <3>1 DEF Linked, Bind
    <3>4. AppsPending'
      <4>1. stack'[t] = <<>> /\ 1..Len(stack'[t]) = {}
        BY <2>1, <3>1
      <4> QED
        BY <2>1, <4>1 DEF AppsPending, Shape
    <3>5. Greeting'
      BY <3>1 DEF IInv, Greeting, Greeted, HandshakeFirst
    <3> QED
      BY <1>1, <3>2, <3>3, <3>4, <3>5 DEF IInv
  <2>3. CASE state \notin {"disconnected", "failed"}
    <3> DEFINE p == <<Frame("install", x)>>
               A == p \o Disconnecting
    <3>1. Call(t, "closing", A) /\ UNCHANGED <<transport, bound, links>>
      BY <1>3, <2>3 DEF SetTransport
    <3>2. A \in Seq(FrameType) /\ "closing" \in States \ {"ready"}
      BY DisconnectingFrames DEF States
    <3>3. Len(A) = 3 /\ A[1].do = "install" /\ A[2].do = "disconnected" /\ A[3].do = "close" /\ A[3].on = None
      <4>1. p \in Seq(FrameType) /\ Len(p) = 1 /\ p[1].do = "install"
        BY FrameTypes DEF Doing, OnTransport, Frame
      <4>2. /\ Disconnecting \in Seq(FrameType) /\ Len(Disconnecting) = 2
            /\ Disconnecting[1].do = "disconnected"
            /\ Disconnecting[2].do = "close" /\ Disconnecting[2].on = None
        BY DisconnectingFrames DEF Disconnecting, Frame
      <4> HIDE DEF p
      <4>3. /\ Len(A) = Len(p) + Len(Disconnecting)
            /\ \A i \in 1..Len(p) + Len(Disconnecting) :
                 A[i] = IF i <= Len(p) THEN p[i] ELSE Disconnecting[i - Len(p)]
        BY <4>1, <4>2, ConcatProperties
      <4> HIDE DEF A
      <4> QED
        BY <4>1, <4>2, <4>3
    <3> HIDE DEF A
    <3>4. \A i \in 1..Len(A) : state' # "ready" => Begun(A, i) /\ A[i].do # "initialize"
      BY <3>3 DEF Begun
    <3> QED
      BY <1>2, <2>1, <3>1, <3>2, <3>4
  <2> QED
    BY <2>2, <2>3
<1>4. CASE Connect(t)
  <2> DEFINE A == <<Frame("open", transport)>>
  <2>1. t \in Apps /\ stack[t] = <<>>
    BY <1>1, <1>4, OneApp DEF Connect, IInv
  <2>2. Call(t, "connecting", A) /\ UNCHANGED <<transport, bound, links>>
    BY <1>4 DEF Connect
  <2>3. A \in Seq(FrameType) /\ "connecting" \in States \ {"ready"}
    <3>1. transport \in Transports
      BY <1>1, <1>4 DEF Connect, TypeOK
    <3> QED
      BY <3>1, FrameTypes DEF OnTransport, States
  <2>4. Len(A) = 1 /\ A[1].do = "open" /\ A[1].on = transport
    BY DEF Frame
  <2> HIDE DEF A
  <2>5. \A i \in 1..Len(A) : state' # "ready" => Begun(A, i) /\ A[i].do # "initialize"
    BY <2>4 DEF Begun
  <2> QED
    BY <1>2, <2>1, <2>2, <2>3, <2>5
<1>5. CASE Disconnect(t)
  <2>1. t \in Apps /\ stack[t] = <<>>
    BY <1>1, <1>5, OneApp DEF Disconnect, IInv
  <2>2. Call(t, "closing", Disconnecting) /\ UNCHANGED <<transport, bound, links>>
    BY <1>5 DEF Disconnect
  <2>3. Disconnecting \in Seq(FrameType) /\ "closing" \in States \ {"ready"}
    BY DisconnectingFrames DEF States
  <2>4. /\ Len(Disconnecting) = 2 /\ Disconnecting[1].do = "disconnected"
        /\ Disconnecting[2].do = "close" /\ Disconnecting[2].on = None
    BY DEF Disconnecting, Frame
  <2>5. \A i \in 1..Len(Disconnecting) :
          state' # "ready" => Begun(Disconnecting, i) /\ Disconnecting[i].do # "initialize"
    BY <2>4 DEF Begun
  <2> QED
    BY <1>2, <2>1, <2>2, <2>3, <2>5
<1>6. CASE Initialize(t)
  <2>1. t \in Apps /\ stack[t] = <<>> /\ transport # None
    BY <1>1, <1>6, OneApp DEF Initialize, IInv
  <2>2. Call(t, "initializing", Handshake) /\ UNCHANGED <<transport, bound, links>>
    BY <1>6 DEF Initialize
  <2>3. "initializing" \in States \ {"ready"}
    BY DEF States
  <2>4. /\ Handshake \in Seq(FrameType)
        /\ Len(Handshake) = 2 /\ Handshake[1].do = "ready"
        /\ Handshake[2] = Frame("send_initialize", transport)
    BY <1>1, <2>1, HandshakeFrames
  <2>5. \A i \in 1..Len(Handshake) :
          state' # "ready" => Begun(Handshake, i) /\ Handshake[i].do # "initialize"
    BY <2>4 DEF Begun, Frame
  <2> QED
    BY <1>2, <2>1, <2>2, <2>3, <2>4, <2>5
<1>7. ASSUME NEW x \in Transports, DirectClose(t, x)
      PROVE  IInv'
  <2> DEFINE G == <<Frame("close", x)>>
  <2>1. /\ t \in Apps /\ stack[t] = <<>>
        /\ stack' = [stack EXCEPT ![t] = G]
        /\ state' = state /\ transport' = transport /\ bound' = bound
        /\ open' = open /\ armed' = armed /\ used' = used /\ sent' = sent
    BY <1>7 DEF DirectClose, links
  <2>2. G \in Seq(FrameType) /\ Len(G) = 1 /\ G[1].do = "close" /\ G[1].on = x /\ x # None
    BY FrameTypes, ConstantsAssumption DEF Doing, OnTransport, Frame, ConstantsAssumption
  <2> HIDE DEF G
  <2>3. Move(t, 0, G)
    <3>1. G = Cut(stack[t], 0, G)
      <4>1. stack[t] \in Seq(FrameType)
        BY <2>1
      <4> QED
        BY <2>2, <4>1, CutForms
    <3>2. 0 \in 0..Len(stack[t])
      BY <2>1
    <3> QED
      BY <2>1, <2>2, <3>1, <3>2 DEF Move
  <2>4. \A i \in 1..Len(G) : Begun(G, i)
    BY <2>2 DEF Begun
  <2>5. ReadersLight' /\ AppsPending' /\ Greeting'
    BY <2>1, <2>3, <2>4, SameKept, BeginSafe
  <2>6. Contract' /\ Linked'
    BY <2>1 DEF IInv, Contract, Linked
  <2>7. ReadyOpen'
    <3>1. Apps = {t}
      BY <1>1, <2>1, OneApp DEF IInv
    <3> QED
      BY <2>1, <3>1 DEF IInv, ReadyOpen, Greeted
  <2> QED
    BY <1>1, <2>5, <2>6, <2>7 DEF IInv
<1>8. CASE Request(t)
  BY <1>1, <1>8, LightCalls, LightSafe
<1> QED
  BY <1>3, <1>4, <1>5, <1>6, <1>7, <1>8 DEF Calls

\* The innermost frame of the application's stack makes room for others.
LEMMA PopSafe ==
  ASSUME Sequential, IInv, NEW t \in Apps, stack[t] # <<>>, NEW F, Move(t, Len(stack[t]) - 1, F),
         (\A i \in 1..Len(F) : F[i].do \in {"callback", "throw"}) \/ (Len(F) = 1 /\ F[1].do = "notify"),
         transport' = transport, Kept,
         \A i \in 1..Len(stack[t]) - 1 :
           /\ stack[t][i].do \in {"install", "disconnected"} => state' # "ready"
           /\ stack[t][i].do = "disconnected" =>
                \/ i + 1 < Len(stack[t]) /\ stack[t][i + 1].do = "close"
                \/ transport = None \/ ~open'[transport]
           /\ stack[t][i].do = "ready" =>
                \/ i + 1 < Len(stack[t]) /\ stack[t][i + 1] = Frame("send_initialize", transport)
                \/ i + 1 < Len(stack[t]) /\ stack[t][i + 1].do = "throw"
                \/ transport # None /\ open'[transport] /\ Greeted(transport)'
  PROVE  ReadersLight' /\ AppsPending' /\ Greeting'
<1>1. t \in Threads /\ TypeOK /\ Shape(stack[t])
  BY DEF Threads, IInv, AppsPending
<1> DEFINE s == stack[t]
           r == stack'[t]
           n == Len(s) - 1
<1>2. /\ Len(r) = n + Len(F)
      /\ \A i \in 1..n : r[i] = s[i]
      /\ \A i \in n + 1..n + Len(F) : r[i] = F[i - n]
      /\ n \in Nat /\ Len(F) \in Nat /\ Len(s) \in Nat /\ Len(s) = n + 1
  <2>1. Move(t, n, F)
    OBVIOUS
  <2>2. stack[t] \in Seq(FrameType)
    BY <1>1 DEF TypeOK
  <2>3. Len(s) \in Nat /\ Len(s) = n + 1
    BY <2>2
  <2> HIDE DEF n
  <2> QED
    BY <1>1, <2>1, <2>3, MoveFrames
<1>3. \A i \in 1..n : s[i].do \notin {"notify", "initialize"} /\ i \in 1..Len(s)
  BY <1>1, <1>2 DEF Shape
<1>4. \A i \in 1..n :
        /\ s[i].do \in {"install", "disconnected"} => state' # "ready"
        /\ s[i].do = "disconnected" =>
             \/ i + 1 < Len(s) /\ s[i + 1].do = "close"
             \/ transport = None \/ ~open'[transport]
        /\ s[i].do = "ready" =>
             \/ i + 1 < Len(s) /\ s[i + 1] = Frame("send_initialize", transport)
             \/ i + 1 < Len(s) /\ s[i + 1].do = "throw"
             \/ transport # None /\ open'[transport] /\ Greeted(transport)'
  OBVIOUS
<1>5. Shape(s)
  BY <1>1
<1> HIDE DEF s, r, n
<1>6. ASSUME NEW i \in 1..Len(r)
      PROVE  \/ i \in 1..n /\ r[i] = s[i]
             \/ r[i].do \in {"callback", "throw"}
             \/ r[i].do = "notify" /\ i = Len(r)
  <2>1. CASE i \notin 1..n
    <3>1. r[i] = F[i - n] /\ i - n \in 1..Len(F)
      BY <1>2, <2>1
    <3>2. Len(F) = 1 => i - n = 1 /\ i = Len(r)
      BY <1>2, <3>1
    <3> QED
      BY <3>1, <3>2
  <2> QED
    BY <1>2, <2>1
<1>7. ASSUME NEW i \in 1..Len(r)
      PROVE  /\ r[i].do \in {"install", "open", "initialize", "ready"} => i = 1
             /\ r[i].do = "open" => r[i].on = transport
             /\ r[i].do = "disconnected" => i = 1 \/ (i = 2 /\ r[1].do = "install")
             /\ r[i].do = "close" => IF i = 1 THEN r[i].on # None
                                     ELSE r[i - 1].do = "disconnected" /\ r[i].on = None
             /\ r[i].do \in {"notify", "initialize"} => i = Len(r)
  <2>1. CASE i \in 1..n /\ r[i] = s[i]
    <3>1. i \in 1..Len(s) /\ s[i].do \notin {"notify", "initialize"} /\ r[1] = s[1]
      BY <1>2, <1>3, <2>1
    <3>2. i # 1 => r[i - 1] = s[i - 1]
      BY <1>2, <2>1
    <3> QED
      BY <1>5, <2>1, <3>1, <3>2 DEF Shape
  <2> QED
    BY <1>6, <2>1
<1>8. ASSUME NEW i \in 1..Len(r)
      PROVE  /\ r[i].do \in {"install", "disconnected"} => state' # "ready"
             /\ r[i].do = "disconnected" =>
                  \/ i < Len(r) /\ r[i + 1].do = "close"
                  \/ transport = None \/ ~open'[transport]
             /\ r[i].do = "initialize" => transport # None /\ open'[transport]
             /\ r[i].do = "ready" =>
                  \/ i < Len(r) /\ r[i + 1] = Frame("send_initialize", transport)
                  \/ i < Len(r) /\ r[i + 1].do = "throw"
                  \/ transport # None /\ open'[transport] /\ Greeted(transport)'
  <2>1. CASE i \in 1..n /\ r[i] = s[i]
    <3>1. i + 1 < Len(s) => i < Len(r) /\ r[i + 1] = s[i + 1]
      BY <1>2, <2>1
    <3>2. s[i].do # "initialize"
      BY <1>3, <2>1
    <3> QED
      BY <1>4, <2>1, <3>1, <3>2
  <2> QED
    BY <1>6, <2>1
<1>9. Shape(stack[t])'
  BY <1>7 DEF Shape, r
<1>10. \A i \in 1..Len(stack'[t]) : Pending(stack[t], i)'
  BY <1>8 DEF Pending, r
<1>11. \A i \in 1..Len(F) : F[i].do # "send_request"
  OBVIOUS
<1>12. Greeting'
  BY <1>1, <1>11, GreetingSafe
<1> QED
  BY <1>9, <1>10, <1>12, AppSafe

LEMMA RunsSafe ==
  ASSUME Sequential, IInv, NEW t \in Threads, Runs(t)
  PROVE  IInv'
<1>1. TypeOK /\ TypeOK'
  BY RunsType DEF IInv
<1> DEFINE s == stack[t]
           n == Len(s) - 1
<1>2. CASE SendDone(t) \/ SendFails(t) \/ Rethrow(t) \/ Return(t)
  BY <1>1, <1>2, LightCalls, LightSafe
<1>3. ASSUME stack[t] # <<>>, Top(stack[t]).do \notin Light
      PROVE  /\ t \in Apps /\ Apps = {t}
             /\ Shape(s) /\ \A i \in 1..Len(s) : Pending(s, i)
             /\ Len(s) \in Nat \ {0} /\ n \in Nat
             /\ Top(s) = s[Len(s)] /\ Len(s) \in 1..Len(s)
  <2>1. t \in Apps
    BY <1>1, <1>3, OneApp DEF About, IInv
  <2>2. Apps = {t}
    BY <1>1, <2>1, OneApp DEF IInv
  <2>3. stack[t] \in Seq(FrameType)
    BY <1>1 DEF TypeOK
  <2>4. Len(s) \in Nat \ {0} /\ n \in Nat /\ Len(s) \in 1..Len(s)
    BY <1>3, <2>3
  <2> QED
    BY <2>1, <2>2, <2>4 DEF IInv, AppsPending, Top
<1>4. /\ <<>> \in Seq(FrameType) /\ <<>> \in Seq(PlainFrame)
      /\ \A i \in 1..Len(<<>>) : <<>>[i].do \in {"callback", "throw"}
  OBVIOUS
<1>5. ASSUME stack[t] # <<>>, NEW next \in States, Continue(t, next, <<>>)
      PROVE  \E F : /\ Move(t, Len(stack[t]) - 1, F)
                    /\ \A i \in 1..Len(F) : F[i].do \in {"callback", "throw"}
                    /\ state' = next
  <2>1. /\ state' = next
        /\ Move(t, Len(stack[t]) - 1, <<>> \o Changed(next))
        /\ <<>> \o Changed(next) \in Seq(PlainFrame)
    BY <1>1, <1>4, <1>5, ContinueMoves
  <2> QED
    BY <2>1, PlainFrames
\* Where the application's stack is only this frame, what is left of it after
\* an exception is nothing.
<1>6. ASSUME stack[t] # <<>>, Top(stack[t]).do \notin Light, Len(stack[t]) = 1, Throw(t),
             UNCHANGED <<state, transport, bound, links>>, Top(stack[t]).do # "notify"
      PROVE  IInv'
  <2>1. PICK k \in 0..Len(stack[t]) : Move(t, k, <<>>) /\ (k = 0 \/ stack[t][k].do = "callback")
    BY <1>1, <1>6, ThrowMoves
  <2>2. k = 0
    <3>1. k \in {0, 1}
      BY <1>6, <2>1
    <3> QED
      BY <1>6, <2>1, <3>1 DEF Top, Light
  <2>3. /\ transport' = transport /\ bound' = bound /\ open' = open /\ armed' = armed
        /\ used' = used /\ sent' = sent /\ state' = state
    BY <1>6 DEF links
  <2>4. Move(t, 0, <<>>) /\ \A i \in 1..Len(<<>>) : Begun(<<>>, i)
    BY <2>1, <2>2
  <2>5. ReadersLight' /\ AppsPending' /\ Greeting'
    BY <1>3, <1>6, <2>3, <2>4, SameKept, BeginSafe
  <2>6. Contract' /\ Linked'
    BY <2>3 DEF IInv, Contract, Linked
  <2>7. ReadyOpen'
    <3>1. Top(stack[t]) # Frame("notify", transport)
      BY <1>6 DEF Frame
    <3> QED
      BY <1>3, <1>6, <2>3, <3>1 DEF IInv, ReadyOpen, Greeted
  <2> QED
    BY <1>1, <2>5, <2>6, <2>7 DEF IInv
<1>7. CASE Open(t)
  <2>1. /\ stack[t] # <<>> /\ Top(stack[t]).do = "open" /\ Top(stack[t]).do \notin Light
        /\ state' = state /\ transport' = transport /\ bound' = bound
    BY <1>7 DEF Open, About, Light
  <2>2. Len(stack[t]) = 1 /\ On(t) = transport
    <3>1. s[Len(s)].do = "open" /\ Len(s) \in 1..Len(s) /\ Shape(s) /\ On(t) = s[Len(s)].on
      BY <1>3, <2>1 DEF On
    <3> HIDE DEF s
    <3>2. Len(s) = 1 /\ On(t) = transport
      BY <3>1 DEF Shape
    <3> QED
      BY <3>2 DEF s
  <2>3. On(t) \in Transports /\ transport # None
    <3>1. Top(stack[t]) \in FrameType
      BY <1>1, <2>1, BelowType DEF TypeOK
    <3>2. On(t) \in Transports
      BY <2>1, <3>1, FrameTypes DEF On, OnTransport
    <3> QED
      BY <2>2, <3>2, ConstantsAssumption DEF ConstantsAssumption
  <2>4. CASE Throw(t) /\ UNCHANGED links
    BY <1>6, <2>1, <2>2, <2>4
  <2>5. CASE /\ Reopens \/ open[On(t)] \/ On(t) \notin used
             /\ open' = [open EXCEPT ![On(t)] = TRUE]
             /\ armed' = [armed EXCEPT ![On(t)] = TRUE]
             /\ used' = used \cup {On(t)}
             /\ sent' = IF open[On(t)] THEN sent ELSE [sent EXCEPT ![On(t)] = <<>>]
             /\ stack' = [stack EXCEPT ![t] =
                  Then(@, <<Frame(IF AutoInitialize THEN "initialize" ELSE "ready", None)>>)]
    <3> DEFINE G == <<Frame(IF AutoInitialize THEN "initialize" ELSE "ready", None)>>
    <3>1. /\ G \in Seq(FrameType) /\ Len(G) = 1
          /\ G[1].do = IF AutoInitialize THEN "initialize" ELSE "ready"
      BY FrameTypes DEF Doing, OnTransport, Frame
    <3>2. stack' = [stack EXCEPT ![t] = Then(@, G)]
      BY <2>5
    <3> HIDE DEF G
    <3>3. Move(t, 0, G)
      <4>1. Move(t, Len(stack[t]) - 1, G)
        BY <1>1, <2>1, <3>1, <3>2, ThenMoves
      <4> QED
        BY <2>2, <4>1
    <3>4. /\ open'[transport] /\ armed'[transport] /\ transport \in Transports
          /\ \A x \in Transports \ {transport} : open'[x] = open[x] /\ armed'[x] = armed[x]
      BY <1>1, <2>2, <2>3, <2>5 DEF TypeOK
    <3>5. Greets => sent' = sent
      <4>1. CASE open[On(t)]
        BY <2>5, <4>1
      <4>2. CASE Greets /\ ~open[On(t)]
        <5>1. On(t) \in Transports \ used
          BY <2>3, <2>5, <4>2 DEF Greets
        <5>2. sent[On(t)] = <<>>
          BY <5>1 DEF IInv, Greeting
        <5> QED
          BY <1>1, <2>5, <4>2, <5>2 DEF TypeOK
      <4> QED
        BY <4>1, <4>2
    <3>6. \A x \in Transports \ used' : sent'[x] = <<>>
      <4>1. ASSUME NEW x \in Transports \ used'
            PROVE  sent'[x] = <<>>
        <5>1. x \notin used /\ x # On(t)
          BY <2>5, <4>1
        <5>2. sent'[x] = sent[x]
          BY <1>1, <2>5, <5>1 DEF TypeOK
        <5> QED
          BY <5>1, <5>2 DEF IInv, Greeting
      <4> QED
        BY <4>1
    <3>7. Kept
      BY <3>5, <3>6 DEF Kept
    <3>8. ~AutoInitialize => Greeted(transport)'
      BY DEF Greeted, Greets
    <3>9. \A i \in 1..Len(G) : Begun(G, i)
      BY <2>3, <3>1, <3>4, <3>8 DEF Begun
    <3>10. ReadersLight' /\ AppsPending' /\ Greeting'
      BY <1>3, <2>1, <3>3, <3>7, <3>9, BeginSafe
    <3>11. Contract'
      BY <2>2, <2>5, <3>4 DEF IInv, Contract
    <3>12. Linked' /\ ReadyOpen'
      BY <2>1, <2>3, <3>4, <3>5 DEF IInv, Linked, ReadyOpen, Greeted
    <3> QED
      BY <1>1, <3>10, <3>11, <3>12 DEF IInv
  <2> QED
    BY <1>7, <2>4, <2>5 DEF Open
<1>8. CASE AutoInit(t)
  <2>1. /\ stack[t] # <<>> /\ Top(stack[t]).do = "initialize" /\ Top(stack[t]).do \notin Light
        /\ UNCHANGED <<transport, bound, links>>
    BY <1>8 DEF AutoInit, About, Light
  <2>2. Len(stack[t]) = 1
    <3>1. s[Len(s)].do = "initialize" /\ Len(s) \in 1..Len(s) /\ Shape(s)
      BY <1>3, <2>1
    <3> HIDE DEF s
    <3>2. Len(s) = 1
      BY <3>1 DEF Shape
    <3> QED
      BY <3>2 DEF s
  <2>3. CASE transport = None \/ state = "disconnected"
    BY <1>6, <1>8, <2>1, <2>2, <2>3 DEF AutoInit
  <2>4. CASE ~(transport = None \/ state = "disconnected")
    <3>1. Continue(t, "initializing", Handshake) /\ transport # None
      BY <1>8, <2>4 DEF AutoInit
    <3>2. /\ Handshake \in Seq(FrameType)
          /\ Len(Handshake) = 2 /\ Handshake[1].do = "ready"
          /\ Handshake[2] = Frame("send_initialize", transport)
      BY <1>1, <3>1, HandshakeFrames
    <3> DEFINE L == Changed("initializing")
    <3>3. state' = "initializing" /\ Move(t, Len(stack[t]) - 1, Handshake \o L)
      <4>1. "initializing" \in States
        BY DEF States
      <4> QED
        BY <1>1, <2>1, <3>1, <3>2, <4>1, ContinueMoves
    <3>4. Move(t, 0, Handshake \o L) /\ L \in Seq(PlainFrame)
      BY <2>2, <3>3, PlainFrames
    <3> HIDE DEF L
    <3>5. \A i \in 1..Len(Handshake) : Begun(Handshake, i) /\ Handshake[i].do # "initialize"
      BY <3>2 DEF Begun, Frame
    <3>6. \A i \in 1..Len(Handshake \o L) : Begun(Handshake \o L, i)
      BY <3>2, <3>4, <3>5, BegunFrames
    <3>7. /\ transport' = transport /\ bound' = bound /\ open' = open /\ armed' = armed
          /\ used' = used /\ sent' = sent
      BY <2>1 DEF links
    <3>8. ReadersLight' /\ AppsPending' /\ Greeting'
      BY <1>3, <2>1, <3>4, <3>6, <3>7, SameKept, BeginSafe
    <3>9. Contract' /\ Linked' /\ ReadyOpen'
      BY <3>3, <3>7 DEF IInv, Contract, Linked, ReadyOpen
    <3> QED
      BY <1>1, <3>8, <3>9 DEF IInv
  <2> QED
    BY <2>3, <2>4
<1>9. CASE Ready(t)
  <2>1. /\ stack[t] # <<>> /\ Top(stack[t]).do = "ready" /\ Top(stack[t]).do \notin Light
        /\ Continue(t, "ready", <<>>)
        /\ transport' = transport /\ bound' = bound /\ open' = open /\ armed' = armed
        /\ used' = used /\ sent' = sent
    BY <1>9 DEF Ready, About, Light, links
  <2>2. "ready" \in States
    BY DEF States
  <2>3. PICK F : /\ Move(t, Len(stack[t]) - 1, F)
                 /\ \A i \in 1..Len(F) : F[i].do \in {"callback", "throw"}
                 /\ state' = "ready"
    BY <1>5, <2>1, <2>2
  <2>4. Len(s) = 1 /\ transport # None /\ open[transport] /\ Greeted(transport)
    <3>1. Len(s) = 1 /\ s[1].do = "ready"
      <4>1. s[Len(s)].do = "ready" /\ Len(s) \in 1..Len(s) /\ Shape(s)
        BY <1>3, <2>1
      <4> HIDE DEF s
      <4> QED
        BY <4>1 DEF Shape
    <3>2. Pending(s, 1)
      BY <1>3, <2>1, <3>1
    <3> QED
      BY <3>1, <3>2 DEF Pending
  <2>5. 1..Len(stack[t]) - 1 = {}
    BY <2>4
  <2>6. ReadersLight' /\ AppsPending' /\ Greeting'
    BY <1>3, <2>1, <2>3, <2>5, SameKept, PopSafe
  <2>7. Contract' /\ Linked' /\ ReadyOpen'
    BY <2>1, <2>4 DEF IInv, Contract, Linked, ReadyOpen, Greeted
  <2> QED
    BY <1>1, <2>6, <2>7 DEF IInv
<1>10. CASE Disconnected(t)
  <2>1. /\ stack[t] # <<>> /\ Top(stack[t]).do = "disconnected" /\ Top(stack[t]).do \notin Light
        /\ Continue(t, "disconnected", <<>>)
        /\ transport' = transport /\ bound' = bound /\ open' = open /\ armed' = armed
        /\ used' = used /\ sent' = sent
    BY <1>10 DEF Disconnected, About, Light, links
  <2>2. "disconnected" \in States
    BY DEF States
  <2>3. PICK F : /\ Move(t, Len(stack[t]) - 1, F)
                 /\ \A i \in 1..Len(F) : F[i].do \in {"callback", "throw"}
                 /\ state' = "disconnected"
    BY <1>5, <2>1, <2>2
  <2>4. \A i \in 1..Len(stack[t]) - 1 : stack[t][i].do = "install"
    BY <1>3, <2>1 DEF Shape
  <2>5. ReadersLight' /\ AppsPending' /\ Greeting'
    BY <1>3, <2>1, <2>3, <2>4, SameKept, PopSafe
  <2>6. Contract' /\ Linked' /\ ReadyOpen'
    BY <2>1, <2>3 DEF IInv, Contract, Linked, ReadyOpen
  <2> QED
    BY <1>1, <2>5, <2>6 DEF IInv
<1>11. CASE Closed(t)
  <2> DEFINE next == IF On(t) \in bound /\ state # "closing" THEN "disconnected" ELSE state
  <2>1. /\ stack[t] # <<>> /\ Top(stack[t]).do = "notify" /\ Top(stack[t]).do \notin Light
        /\ Continue(t, next, <<>>)
        /\ transport' = transport /\ bound' = bound /\ open' = open /\ armed' = armed
        /\ used' = used /\ sent' = sent
    BY <1>11 DEF Closed, About, Light, links
  <2>2. next \in States
    BY <1>1 DEF States, TypeOK
  <2>3. PICK F : /\ Move(t, Len(stack[t]) - 1, F)
                 /\ \A i \in 1..Len(F) : F[i].do \in {"callback", "throw"}
                 /\ state' = next
    <3> HIDE DEF next
    <3> QED
      BY <1>5, <2>1, <2>2
  <2>4. Greeted(transport)' <=> Greeted(transport)
    BY <2>1 DEF Greeted
  <2>5. ASSUME NEW i \in 1..Len(stack[t]) - 1
        PROVE  /\ stack[t][i].do \in {"install", "disconnected"} => state' # "ready"
               /\ stack[t][i].do = "disconnected" =>
                    \/ i + 1 < Len(stack[t]) /\ stack[t][i + 1].do = "close"
                    \/ transport = None \/ ~open'[transport]
               /\ stack[t][i].do = "ready" =>
                    \/ i + 1 < Len(stack[t]) /\ stack[t][i + 1] = Frame("send_initialize", transport)
                    \/ i + 1 < Len(stack[t]) /\ stack[t][i + 1].do = "throw"
                    \/ transport # None /\ open'[transport] /\ Greeted(transport)'
    <3>1. i \in 1..Len(s) /\ i < Len(s) /\ (i + 1 = Len(s) \/ i + 1 < Len(s))
      BY <1>3, <2>1
    <3>2. Pending(s, i)
      BY <1>3, <2>1, <3>1
    <3>3. i + 1 = Len(s) => s[i + 1].do = "notify" /\ s[i + 1] # Frame("send_initialize", transport)
      BY <1>3, <2>1 DEF Frame
    <3>4. state = "ready" \/ state' # "ready"
      BY <2>3
    <3> QED
      BY <2>1, <2>4, <3>1, <3>2, <3>3, <3>4 DEF Pending
  <2>6. ReadersLight' /\ AppsPending' /\ Greeting'
    BY <1>3, <2>1, <2>3, <2>5, SameKept, PopSafe
  <2>7. ReadyOpen'
    <3>1. ASSUME state' = "ready"
          PROVE  transport # None /\ open[transport] /\ Greeted(transport)
      <4>1. state = "ready" /\ On(t) \notin bound
        BY <2>3, <3>1
      <4>2. transport # None /\ transport \in bound
        BY <4>1 DEF IInv, ReadyOpen, Linked
      <4>3. Top(stack[t]) # Frame("notify", transport)
        BY <4>1, <4>2 DEF On, Frame
      <4> QED
        BY <1>3, <2>1, <4>1, <4>2, <4>3 DEF IInv, ReadyOpen
    <3> QED
      BY <2>1, <2>4, <3>1 DEF ReadyOpen
  <2>8. Contract' /\ Linked'
    BY <2>1 DEF IInv, Contract, Linked
  <2> QED
    BY <1>1, <2>6, <2>7, <2>8 DEF IInv
<1>12. CASE Install(t)
  <2>1. /\ stack[t] # <<>> /\ Top(stack[t]).do = "install" /\ Top(stack[t]).do \notin Light
        /\ transport' = On(t) /\ Bind(On(t))
        /\ stack' = [stack EXCEPT ![t] = Then(@, <<>>)]
        /\ state' = state /\ open' = open /\ armed' = armed /\ used' = used /\ sent' = sent
    BY <1>12 DEF Install, About, Light, links
  <2>2. Len(s) = 1 /\ state # "ready"
    <3>1. Len(s) = 1 /\ s[1].do = "install"
      <4>1. s[Len(s)].do = "install" /\ Len(s) \in 1..Len(s) /\ Shape(s)
        BY <1>3, <2>1
      <4> HIDE DEF s
      <4> QED
        BY <4>1 DEF Shape
    <3>2. Pending(s, 1)
      BY <1>3, <2>1, <3>1
    <3> QED
      BY <3>1, <3>2 DEF Pending
  <2>3. Move(t, Len(s) - 1, <<>>)
    BY <1>1, <1>4, <2>1, ThenMoves
  <2>4. Len(stack'[t]) = 0
    <3>1. Move(t, 0, <<>>)
      BY <2>2, <2>3
    <3>2. PICK k, F : Move(t, k, F) /\ k = 0 /\ F = <<>>
      BY <3>1
    <3>3. Len(stack'[t]) = k + Len(F)
      BY <1>1, <3>2, MoveFrames, ZenonT(60)
    <3> QED
      BY <3>2, <3>3
  <2>5. Shape(stack[t])' /\ \A i \in 1..Len(stack'[t]) : Pending(stack[t], i)'
    BY <2>4 DEF Shape
  <2>6. ReadersLight' /\ AppsPending'
    BY <1>3, <2>1, <2>3, <2>5, AppSafe
  <2>7. Greeting'
    <3>1. \A i \in 1..Len(<<>>) : <<>>[i].do # "send_request"
      OBVIOUS
    <3> QED
      BY <2>1, <2>3, <3>1, SameKept, GreetingSafe
  <2>8. Contract' /\ Linked' /\ ReadyOpen'
    <3>1. On(t) \in Transports \cup {None}
      BY <1>1, <2>1 DEF TypeOK
    <3> QED
      BY <2>1, <2>2, <3>1 DEF IInv, Contract, Linked, ReadyOpen, Bind
  <2> QED
    BY <1>1, <2>6, <2>7, <2>8 DEF IInv
<1>13. CASE Close(t)
  <2>1. /\ stack[t] # <<>> /\ Top(stack[t]).do = "close" /\ Top(stack[t]).do \notin Light
        /\ transport' = transport /\ bound' = bound /\ state' = state
        /\ used' = used /\ sent' = sent
    BY <1>13 DEF Close, About, Light
  <2>2. /\ n \in Nat /\ Len(s) = n + 1 /\ s[n + 1].do = "close"
        /\ n > 0 => /\ s[n].do = "disconnected" /\ On(t) = None /\ Closing(t) = transport
                    /\ n = 1 \/ (n = 2 /\ s[1].do = "install")
    <3>1. Len(s) = n + 1 /\ n \in Nat /\ s[n + 1] = Top(s)
      BY <1>3, <2>1
    <3>2. ASSUME n > 0
          PROVE  s[n].do = "disconnected" /\ On(t) = None
      <4>1. Len(s) \in 1..Len(s) /\ Len(s) # 1 /\ Len(s) - 1 = n
        BY <3>1, <3>2
      <4> QED
        BY <1>3, <2>1, <4>1 DEF Shape, On
    <3>3. n > 0 => n = 1 \/ (n = 2 /\ s[1].do = "install")
      <4>1. n > 0 => n \in 1..Len(s)
        BY <3>1
      <4> QED
        BY <1>3, <2>1, <3>2, <4>1 DEF Shape
    <3> QED
      BY <2>1, <3>1, <3>2, <3>3 DEF Closing
  <2>3. \A i \in 1..n : s[i].do \in {"disconnected", "install"} /\ Closing(t) = transport /\ state # "ready"
    <3>1. ASSUME NEW i \in 1..n
          PROVE  s[i].do \in {"disconnected", "install"} /\ Closing(t) = transport
      BY <2>2, <3>1
    <3>2. \A i \in 1..n : i \in 1..Len(s)
      BY <2>2
    <3> QED
      BY <1>3, <2>1, <3>1, <3>2 DEF Pending
  <2>4. ReadyOpen /\ (state = "ready" => open[transport])
    <3>1. Top(stack[t]) # Frame("notify", transport)
      BY <2>1 DEF Frame
    <3> QED
      BY <1>3, <2>1, <3>1 DEF IInv, ReadyOpen
  <2>5. Closing(t) \in Transports \cup {None}
    <3>1. Top(stack[t]) \in FrameType
      BY <1>1, <2>1, BelowType DEF TypeOK
    <3> QED
      BY <1>1, <3>1, FrameTypes DEF Closing, On, TypeOK
  <2>6. Greeted(transport)' <=> Greeted(transport)
    BY <2>1 DEF Greeted
  <2>7. CASE Closing(t) # None /\ armed[Closing(t)]
    <3> DEFINE x == Closing(t)
               F == <<Frame("notify", x)>>
    <3>1. /\ open' = [open EXCEPT ![x] = FALSE]
          /\ armed' = [armed EXCEPT ![x] = FALSE]
          /\ stack' = [stack EXCEPT ![t] = Then(@, F)]
      BY <1>13, <2>7 DEF Close
    <3>2. x \in Transports /\ ~open'[x] /\ \A y \in Transports \ {x} : open'[y] = open[y]
      BY <1>1, <2>5, <2>7, <3>1 DEF TypeOK
    <3>3. F \in Seq(FrameType) /\ Len(F) = 1 /\ F[1].do = "notify" /\ F[1] = Frame("notify", x)
      BY <3>2, FrameTypes DEF Doing, OnTransport, Frame
    <3>4. Move(t, Len(stack[t]) - 1, F)
      BY <1>1, <2>1, <3>1, <3>3, ThenMoves
    <3>5. ReadersLight' /\ AppsPending' /\ Greeting'
      BY <1>3, <2>1, <2>3, <3>2, <3>3, <3>4, SameKept, PopSafe
    <3>6. Contract'
      BY <1>1, <2>1, <3>1, <3>2 DEF IInv, Contract, TypeOK
    <3>7. ReadyOpen'
      <4>1. ASSUME state' = "ready", x = transport
            PROVE  stack'[t] # <<>> /\ Top(stack'[t]) = Frame("notify", transport)
        <5>1. /\ Len(stack'[t]) = n + Len(F)
              /\ \A i \in n + 1..n + Len(F) : stack'[t][i] = F[i - n]
          <6>1. Move(t, n, F)
            BY <3>4
          <6> HIDE DEF n, F
          <6> QED
            BY <1>1, <6>1, MoveFrames
        <5>2. Len(stack'[t]) = n + 1 /\ n + 1 - n = 1
          BY <2>2, <3>3, <5>1
        <5>3. stack'[t][n + 1] = F[1]
          <6>1. n + 1 \in n + 1..n + Len(F) /\ n \in Nat
            BY <2>2, <3>3
          <6> HIDE DEF n, F
          <6>2. PICK m \in n + 1..n + Len(F) : m = n + 1
            BY <6>1
          <6>3. stack'[t][m] = F[m - n]
            BY <5>1
          <6>4. m - n = 1
            BY <6>1, <6>2
          <6> QED
            BY <6>2, <6>3, <6>4
        <5>4. stack'[t] # <<>>
          BY <2>2, <5>2
        <5> QED
          BY <4>1, <5>2, <5>3, <5>4 DEF Top
      <4>2. state' = "ready" => transport # None /\ transport \in Transports
        BY <1>1, <2>1, <2>4 DEF ReadyOpen, TypeOK
      <4> QED
        BY <1>3, <2>1, <2>4, <2>6, <3>2, <4>1, <4>2 DEF ReadyOpen
    <3>8. Linked'
      BY <2>1 DEF IInv, Linked
    <3> QED
      BY <1>1, <3>5, <3>6, <3>7, <3>8 DEF IInv
  <2>8. CASE ~(Closing(t) # None /\ armed[Closing(t)])
    <3>1. stack' = [stack EXCEPT ![t] = Then(@, <<>>)] /\ open' = open /\ armed' = armed
      BY <1>13, <2>8 DEF Close
    <3>2. Move(t, Len(stack[t]) - 1, <<>>)
      BY <1>1, <1>4, <2>1, <3>1, ThenMoves
    <3>3. \A i \in 1..n : transport = None \/ ~open[transport]
      BY <1>1, <2>3, <2>8 DEF IInv, Contract, TypeOK
    <3>4. ReadersLight' /\ AppsPending' /\ Greeting'
      BY <1>3, <1>4, <2>1, <2>3, <3>1, <3>2, <3>3, SameKept, PopSafe
    <3>5. Contract' /\ Linked' /\ ReadyOpen'
      BY <2>1, <2>4, <2>6, <3>1 DEF IInv, Contract, Linked, ReadyOpen
    <3> QED
      BY <1>1, <3>4, <3>5 DEF IInv
  <2> QED
    BY <2>7, <2>8
<1> QED
  BY <1>2, <1>7, <1>8, <1>9, <1>10, <1>11, <1>12, <1>13 DEF Runs

LEMMA InitSafe == ASSUME Init PROVE IInv
<1>1. TypeOK
  BY InitType
<1>2. \A t \in Threads : stack[t] = <<>> /\ 1..Len(stack[t]) = {}
  BY DEF Init
<1>3. ReadersLight /\ AppsPending
  BY <1>2 DEF ReadersLight, AppsPending, Shape, Threads
<1>4. Greeting
  BY <1>2 DEF Init, Greeting, HandshakeFirst
<1>5. Contract /\ Linked /\ ReadyOpen
  BY DEF Init, Contract, Linked, ReadyOpen
<1> QED
  BY <1>1, <1>3, <1>4, <1>5 DEF IInv

\* Next is split as the code is: the calls of the application, what they go on
\* to do, and the handlers that the transports call.
LEMMA StepSafe == ASSUME Sequential, IInv, [Next]_vars PROVE IInv'
<1>1. CASE UNCHANGED vars
  <2>1. TypeOK' /\ Contract' /\ Linked'
    BY <1>1 DEF IInv, vars, links, TypeOK, Contract, Linked
  <2>2. ReadersLight' /\ AppsPending' /\ ReadyOpen'
    BY <1>1 DEF IInv, vars, links, ReadersLight, AppsPending, Shape, Pending, ReadyOpen, Greeted
  <2>3. Greeting'
    BY <1>1 DEF IInv, vars, links, Greeting, Greeted, HandshakeFirst
  <2> QED
    BY <2>1, <2>2, <2>3 DEF IInv
<1>2. ASSUME NEW t \in Threads, Calls(t)
      PROVE  IInv'
  BY <1>2, CallsSafe
<1>3. ASSUME NEW t \in Threads, Runs(t)
      PROVE  IInv'
  BY <1>3, RunsSafe
<1>4. ASSUME NEW r \in Readers, Message(r) \/ Error(r)
      PROVE  IInv'
  <2>1. r \in Threads /\ TypeOK
    BY DEF Threads, IInv
  <2> QED
    BY <1>4, <2>1, LightHandlers, LightSafe
<1> QED
  BY <1>1, <1>2, <1>3, <1>4 DEF Next

\* With one application thread whose callbacks only send requests, a client at
\* rest that says it is ready has an open transport, whatever failed or was
\* closed or replaced before (Client::is_ready).
THEOREM ReadyTruly == Sequential => (Spec => []ReadyIsOpen)
<1> SUFFICES ASSUME Sequential
             PROVE  Spec => []ReadyIsOpen
  OBVIOUS
<1>1. ASSUME IInv
      PROVE  ReadyIsOpen
  BY <1>1 DEF IInv, ReadyOpen, ReadyIsOpen, AtRest, Threads
<1>2. Sequential
  OBVIOUS
<1>3. Init => IInv
  BY InitSafe
<1>4. IInv /\ [Next]_vars => IInv'
  BY <1>2, StepSafe
<1>5. IInv => ReadyIsOpen
  BY <1>1
<1> QED
  BY <1>3, <1>4, <1>5, PTL DEF Spec

\* In the same programs the transport that disconnect leaves installed is
\* closed, though errors change the state while disconnect runs
\* (Client::disconnect).
THEOREM DisconnectTrulyCloses == Sequential => (Spec => DisconnectCloses)
<1> SUFFICES ASSUME Sequential
             PROVE  Spec => DisconnectCloses
  OBVIOUS
<1>1. Sequential
  OBVIOUS
<1>2. ASSUME IInv, NEW t \in Threads, Disconnected(t)
      PROVE  transport = None \/ ~open[transport]
  <2>1. TypeOK /\ stack[t] # <<>> /\ stack[t] \in Seq(FrameType) /\ Top(stack[t]).do = "disconnected"
    BY <1>2 DEF IInv, TypeOK, Disconnected, About
  <2>2. t \in Apps
    BY <1>1, <1>2, <2>1, OneApp DEF IInv, About, Light
  <2>3. Len(stack[t]) \in 1..Len(stack[t]) /\ stack[t][Len(stack[t])].do = "disconnected"
    BY <2>1 DEF Top
  <2>4. Pending(stack[t], Len(stack[t]))
    BY <1>2, <2>2, <2>3 DEF IInv, AppsPending
  <2> QED
    BY <2>1, <2>3, <2>4 DEF Pending
<1>3. Init => IInv
  BY InitSafe
<1>4. IInv /\ [Next]_vars => IInv'
  BY <1>1, StepSafe
<1>5. IInv => [\A t \in Threads : Disconnected(t) => transport = None \/ ~open[transport]]_vars
  BY <1>2
<1> QED
  BY <1>3, <1>4, <1>5, PTL DEF Spec, DisconnectCloses

\* If connect begins with the handshake and no connection is opened twice,
\* nothing is sent on a connection before the initialize request, though
\* requests come from callbacks and from the transports' threads while connect
\* is at work (Client::connect with options.auto_initialize).
THEOREM GreetsFirst == Sequential /\ Greets => (Spec => []HandshakeFirst)
<1> SUFFICES ASSUME Sequential, Greets
             PROVE  Spec => []HandshakeFirst
  OBVIOUS
<1>1. Sequential /\ Greets
  OBVIOUS
<1>2. Init => IInv
  BY InitSafe
<1>3. IInv /\ [Next]_vars => IInv'
  BY <1>1, StepSafe
<1>4. IInv => HandshakeFirst
  BY <1>1 DEF IInv, Greeting
<1> QED
  BY <1>2, <1>3, <1>4, PTL DEF Spec
=============================================================================
