---------------------------- MODULE ServerProofs ----------------------------
(***************************************************************************)
(* What is proved of the life of the server facade, for all sets of        *)
(* threads and of transports and stacks of any depth.                      *)
(*                                                                         *)
(* The types hold whatever user code does.  The safety properties need a   *)
(* single application thread and user code that only sends notifications:  *)
(* the README shows what other programs run into.                          *)
(***************************************************************************)
EXTENDS Server, FiniteSetTheorems, SequenceTheorems, TLAPS
-----------------------------------------------------------------------------
(* What the operators of Frames do to a stack *)

\* The stack below the innermost frame.
Below(s) == SubSeq(s, 1, Len(s) - 1)

LEMMA BelowType ==
  ASSUME NEW S, NEW s \in Seq(S), s # <<>>
  PROVE  /\ Len(s) \in Nat \ {0}
         /\ Top(s) \in S
         /\ Below(s) \in Seq(S)
         /\ Len(Below(s)) = Len(s) - 1
         /\ \A i \in 1..Len(s) - 1 : Below(s)[i] = s[i]
<1>1. Len(s) \in Nat \ {0}
  OBVIOUS
<1>2. Top(s) \in S
  BY <1>1 DEF Top
<1> DEFINE n == Len(s) - 1
<1>3. n \in Nat /\ \A i \in 1..n : s[i] \in S
  BY <1>1
<1> HIDE DEF n
<1>4. /\ SubSeq(s, 1, n) \in Seq(S)
      /\ Len(SubSeq(s, 1, n)) = n
      /\ \A i \in 1..n : SubSeq(s, 1, n)[i] = s[i]
  <2>1. 1 \in Int /\ n \in Int
    BY <1>3
  <2>2. /\ SubSeq(s, 1, n) \in Seq(S)
        /\ Len(SubSeq(s, 1, n)) = IF 1 <= n THEN n - 1 + 1 ELSE 0
        /\ \A i \in 1..n - 1 + 1 : SubSeq(s, 1, n)[i] = s[1 + i - 1]
    BY <1>3, <2>1, SubSeqProperties
  <2> QED
    BY <1>3, <2>2
<1> QED
  BY <1>1, <1>2, <1>4 DEF Below, n

\* What is left of a stack when it is cut and other frames are put on top.
Cut(s, k, F) == SubSeq(s, 1, k) \o F

LEMMA CutType ==
  \A S : \A s, F \in Seq(S) : \A k \in 0..Len(s) :
    /\ Cut(s, k, F) \in Seq(S)
    /\ Len(Cut(s, k, F)) = k + Len(F)
    /\ \A i \in 1..k : Cut(s, k, F)[i] = s[i]
    /\ \A i \in k + 1..k + Len(F) : Cut(s, k, F)[i] = F[i - k]
<1>1. ASSUME NEW S, NEW s \in Seq(S), NEW F \in Seq(S), NEW k \in 0..Len(s)
      PROVE  /\ Cut(s, k, F) \in Seq(S)
             /\ Len(Cut(s, k, F)) = k + Len(F)
             /\ \A i \in 1..k : Cut(s, k, F)[i] = s[i]
             /\ \A i \in k + 1..k + Len(F) : Cut(s, k, F)[i] = F[i - k]
  <2> DEFINE p == SubSeq(s, 1, k)
  <2>1. /\ p \in Seq(S)
        /\ Len(p) = k
        /\ \A i \in 1..k : p[i] = s[i]
    <3>1. k \in Nat /\ \A i \in 1..k : s[i] \in S
      OBVIOUS
    <3>2. /\ p \in Seq(S)
          /\ Len(p) = IF 1 <= k THEN k - 1 + 1 ELSE 0
          /\ \A i \in 1..k - 1 + 1 : p[i] = s[1 + i - 1]
      BY <3>1, SubSeqProperties
    <3> QED
      BY <3>1, <3>2
  <2> HIDE DEF p
  <2>2. /\ p \o F \in Seq(S)
        /\ Len(p \o F) = Len(p) + Len(F)
        /\ \A i \in 1..Len(p) + Len(F) : (p \o F)[i] = IF i <= Len(p) THEN p[i] ELSE F[i - Len(p)]
    BY <2>1, ConcatProperties
  <2>3. Len(F) \in Nat
    OBVIOUS
  <2>4. Cut(s, k, F) = p \o F
    BY DEF Cut, p
  <2> QED
    BY <2>1, <2>2, <2>3, <2>4
<1> QED
  BY <1>1

\* The ways in which the facades change a stack, as cuts.
LEMMA CutForms ==
  ASSUME NEW S, NEW s \in Seq(S), NEW F \in Seq(S)
  PROVE  /\ s \o F = Cut(s, Len(s), F)
         /\ s # <<>> => Then(s, F) = Cut(s, Len(s) - 1, F)
         /\ F = Cut(s, 0, F)
<1>1. SubSeq(s, 1, Len(s)) = s
  OBVIOUS
<1>2. SubSeq(s, 1, 0) = <<>>
  OBVIOUS
<1>3. <<>> \o F = F
  OBVIOUS
<1> QED
  BY <1>1, <1>2, <1>3 DEF Cut, Then

LEMMA AppendCuts ==
  ASSUME NEW S, NEW s \in Seq(S), NEW e \in S
  PROVE  Append(s, e) = Cut(s, Len(s), <<e>>)
<1>1. SubSeq(s, 1, Len(s)) = s
  OBVIOUS
<1>2. s \o <<e>> = Append(s, e)
  OBVIOUS
<1> QED
  BY <1>1, <1>2 DEF Cut

LEMMA UnwindingCuts ==
  ASSUME NEW S, NEW s \in Seq(S), s # <<>>, NEW left \in Unwindings(s)
  PROVE  \E k \in 0..Len(s) - 1 :
           left = Cut(s, k, <<>>) /\ (k # 0 => s[k].do = "callback")
<1>1. PICK k \in {0} \cup {i \in 1..Len(s) - 1 : s[i].do = "callback"} : left = SubSeq(s, 1, k)
  BY DEF Unwindings
<1>2. Len(s) \in Nat \ {0}
  OBVIOUS
<1>3. k \in 0..Len(s) - 1 /\ (k # 0 => s[k].do = "callback")
  BY <1>1, <1>2
<1>4. SubSeq(s, 1, k) \in Seq(S)
  <2>1. \A i \in 1..k : s[i] \in S
    BY <1>2, <1>3
  <2> QED
    BY <2>1, <1>3, SubSeqProperties
<1>5. SubSeq(s, 1, k) \o <<>> = SubSeq(s, 1, k)
  BY <1>4
<1> QED
  BY <1>1, <1>3, <1>5 DEF Cut
-----------------------------------------------------------------------------
\* The frames that neither open nor close a transport, nor install one.
Light == {"callback", "send", "throw"}
LightFrame == {f \in FrameType : f.do \in Light}

\* One application thread, whose callbacks and request handlers only notify.
Sequential ==
  /\ \A a, b \in Apps : a = b
  /\ Reentrant \subseteq {"notify"}

\* What is open can still be closed.
Contract == \A x \in Transports : open[x] => armed[x]

\* The handlers of the installed transport are set.
Linked == transport # None => transport \in bound

\* The threads of the transports run user code and send, no more.
WorkersLight ==
  \A w \in Workers : \A i \in 1..Len(stack[w]) : stack[w][i].do \in Light

\* Where the frames of an application's stack can be.
Shape(s) ==
  \A i \in 1..Len(s) :
    /\ s[i].do \in {"install", "running"} => i = 1
    /\ s[i].do = "listen" => i = 2 /\ s[1].do = "running" /\ s[i].on = transport
    /\ s[i].do = "stopped" => i = 1 \/ (i = 2 /\ s[1].do = "install")
    /\ s[i].do = "close" => IF i = 1 THEN s[i].on # None
                            ELSE s[i - 1].do = "stopped" /\ s[i].on = None
    /\ s[i].do = "notify" => i = Len(s)

\* What holds of the state and the transport while the frame i is on the stack
\* of an application: after the close there is nothing left to stop, and after
\* listen the transport is open.
Pending(s, i) ==
  /\ s[i].do \in {"install", "stopped"} => state # "running"
  /\ s[i].do = "stopped" =>
       \/ i < Len(s) /\ s[i + 1].do = "close"
       \/ transport = None \/ ~open[transport]
  /\ s[i].do = "running" =>
       \/ i < Len(s) /\ s[i + 1].do = "listen"
       \/ transport # None /\ open[transport]

AppsPending ==
  \A a \in Apps : Shape(stack[a]) /\ \A i \in 1..Len(stack[a]) : Pending(stack[a], i)

\* A server that runs is open, or is about to hear that it was closed.
RunningOpen ==
  state = "running" =>
    /\ transport # None
    /\ \/ open[transport]
       \/ \E a \in Apps : stack[a] # <<>> /\ Top(stack[a]) = Frame("notify", transport)

IInv ==
  /\ TypeOK
  /\ Contract
  /\ Linked
  /\ WorkersLight
  /\ AppsPending
  /\ RunningOpen
-----------------------------------------------------------------------------
(* Types *)

LEMMA FrameTypes ==
  /\ \A x \in Transports : Frame("listen", x) \in FrameType
  /\ \A x \in Transports : Frame("send", x) \in LightFrame
  /\ \A do \in Doing \ {"listen", "send"} :
       \A x \in Transports \cup {None} : Frame(do, x) \in FrameType
  /\ \A do \in {"callback", "throw"} : Frame(do, None) \in LightFrame
  /\ \A f \in FrameType : f.do \in Doing /\ f.on \in Transports \cup {None}
  /\ \A f \in FrameType : f.do \in {"listen", "send"} => f.on \in Transports
BY DEF FrameType, LightFrame, Light, Frame, Doing

LEMMA LightFrames ==
  /\ \A F \in Seq(LightFrame) : F \in Seq(FrameType)
  /\ \A F \in Seq(LightFrame) : \A i \in 1..Len(F) : F[i].do \in Light
  /\ Callback \in Seq(LightFrame)
  /\ \A next : Changed(next) \in Seq(LightFrame)
<1>1. LightFrame \subseteq FrameType
  BY DEF LightFrame
<1>2. \A F \in Seq(LightFrame) : F \in Seq(FrameType)
  BY <1>1
<1>3. \A F \in Seq(LightFrame) : \A i \in 1..Len(F) : F[i].do \in Light
  BY DEF LightFrame
<1>4. Callback \in Seq(LightFrame)
  BY FrameTypes DEF Callback
<1>5. \A next : Changed(next) \in Seq(LightFrame)
  BY <1>4 DEF Changed
<1> QED
  BY <1>2, <1>3, <1>4, <1>5

\* A thread cuts its stack down to k frames and pushes the frames F.
Move(t, k, F) ==
  /\ k \in 0..Len(stack[t])
  /\ F \in Seq(FrameType)
  /\ stack' = [stack EXCEPT ![t] = Cut(stack[t], k, F)]

LEMMA MoveType ==
  ASSUME TypeOK, NEW t \in Threads, NEW k, NEW F, Move(t, k, F)
  PROVE  /\ stack' \in [Threads -> Seq(FrameType)]
         /\ stack'[t] = Cut(stack[t], k, F)
         /\ \A u \in Threads : u # t => stack'[u] = stack[u]
<1>1. stack[t] \in Seq(FrameType)
  BY DEF TypeOK
<1>2. Cut(stack[t], k, F) \in Seq(FrameType)
  BY <1>1, CutType DEF Move
<1> QED
  BY <1>2 DEF Move, TypeOK

LEMMA CallMoves ==
  ASSUME TypeOK, NEW t \in Threads, NEW next \in States,
         NEW F \in Seq(FrameType), Call(t, next, F)
  PROVE  /\ state' = next
         /\ Move(t, Len(stack[t]), F \o Changed(next))
         /\ F \in Seq(LightFrame) => F \o Changed(next) \in Seq(LightFrame)
<1>1. stack[t] \in Seq(FrameType) /\ Len(stack[t]) \in 0..Len(stack[t])
  BY DEF TypeOK
<1>2. Changed(next) \in Seq(FrameType)
  <2>1. Changed(next) \in Seq(LightFrame)
    BY LightFrames
  <2> QED
    BY <2>1, LightFrames
<1>3. F \o Changed(next) \in Seq(FrameType)
  BY <1>2
<1>4. (stack[t] \o F) \o Changed(next) = stack[t] \o (F \o Changed(next))
  <2>1. \A a, b, c \in Seq(FrameType) : (a \o b) \o c = a \o (b \o c)
    BY ConcatAssociative
  <2> QED
    BY <1>1, <1>2, <2>1
<1>6. stack[t] \o (F \o Changed(next)) = Cut(stack[t], Len(stack[t]), F \o Changed(next))
  BY <1>1, <1>3, CutForms
<1>7. F \in Seq(LightFrame) => F \o Changed(next) \in Seq(LightFrame)
  BY LightFrames
<1> QED
  BY <1>1, <1>3, <1>4, <1>6, <1>7 DEF Call, Move

LEMMA ContinueMoves ==
  ASSUME TypeOK, NEW t \in Threads, stack[t] # <<>>, NEW next \in States,
         NEW F \in Seq(FrameType), Continue(t, next, F)
  PROVE  /\ state' = next
         /\ Move(t, Len(stack[t]) - 1, F \o Changed(next))
         /\ F \in Seq(LightFrame) => F \o Changed(next) \in Seq(LightFrame)
<1>1. stack[t] \in Seq(FrameType) /\ Len(stack[t]) - 1 \in 0..Len(stack[t])
  BY DEF TypeOK
<1>2. Changed(next) \in Seq(FrameType)
  <2>1. Changed(next) \in Seq(LightFrame)
    BY LightFrames
  <2> QED
    BY <2>1, LightFrames
<1>3. F \o Changed(next) \in Seq(FrameType)
  BY <1>2
<1>6. Then(stack[t], F \o Changed(next)) = Cut(stack[t], Len(stack[t]) - 1, F \o Changed(next))
  BY <1>1, <1>3, CutForms
<1>7. F \in Seq(LightFrame) => F \o Changed(next) \in Seq(LightFrame)
  BY LightFrames
<1> QED
  BY <1>1, <1>3, <1>6, <1>7 DEF Continue, Move

LEMMA ThenMoves ==
  ASSUME TypeOK, NEW t \in Threads, stack[t] # <<>>,
         NEW F \in Seq(FrameType), stack' = [stack EXCEPT ![t] = Then(@, F)]
  PROVE  Move(t, Len(stack[t]) - 1, F)
<1>1. stack[t] \in Seq(FrameType) /\ Len(stack[t]) - 1 \in 0..Len(stack[t])
  BY DEF TypeOK
<1>6. Then(stack[t], F) = Cut(stack[t], Len(stack[t]) - 1, F)
  BY <1>1, CutForms
<1> QED
  BY <1>1, <1>6 DEF Move

LEMMA ThrowMoves ==
  ASSUME TypeOK, NEW t \in Threads, Throw(t)
  PROVE  /\ state' \in {state, "failed"}
         /\ \E k \in 0..Len(stack[t]), F \in Seq(LightFrame) :
              Move(t, k, F) /\ (k = 0 \/ stack[t][k].do = "callback")
<1>1. stack[t] \in Seq(FrameType) /\ Len(stack[t]) \in Nat
  BY DEF TypeOK
<1>2. PICK left \in Unwindings(stack[t]) :
        IF left = <<>> /\ t \in Workers
        THEN /\ state' = "failed"
             /\ stack' = [stack EXCEPT ![t] = Callback \o Changed("failed")]
        ELSE /\ stack' = [stack EXCEPT ![t] = left]
             /\ UNCHANGED state
  BY DEF Throw
<1>3. PICK k \in 0..Len(stack[t]) :
        left = Cut(stack[t], k, <<>>) /\ (k = 0 \/ stack[t][k].do = "callback")
  <2>1. CASE stack[t] # <<>>
    <3>1. 0..Len(stack[t]) - 1 \subseteq 0..Len(stack[t])
      BY <1>1
    <3> QED
      BY <1>1, <2>1, <3>1, UnwindingCuts
  <2>2. CASE stack[t] = <<>>
    <3>1. left = SubSeq(<<>>, 1, 0)
      BY <2>2 DEF Unwindings
    <3>2. SubSeq(<<>>, 1, 0) = <<>> /\ <<>> \o <<>> = <<>>
      OBVIOUS
    <3>3. left = Cut(stack[t], 0, <<>>)
      BY <2>2, <3>1, <3>2 DEF Cut
    <3> QED
      BY <1>1, <3>3
  <2> QED
    BY <2>1, <2>2
<1>4. <<>> \in Seq(LightFrame) /\ <<>> \in Seq(FrameType)
  OBVIOUS
<1>5. CASE left = <<>> /\ t \in Workers
  <2> DEFINE F == Callback \o Changed("failed")
  <2>1. F \in Seq(LightFrame) /\ F \in Seq(FrameType)
    <3>1. Callback \in Seq(LightFrame) /\ Changed("failed") \in Seq(LightFrame)
      BY LightFrames
    <3>2. F \in Seq(LightFrame)
      BY <3>1
    <3> QED
      BY <3>2, LightFrames
  <2> HIDE DEF F
  <2>2. F = Cut(stack[t], 0, F)
    BY <1>1, <2>1, CutForms
  <2>3. stack' = [stack EXCEPT ![t] = F] /\ state' = "failed"
    BY <1>2, <1>5 DEF F
  <2>4. Move(t, 0, F)
    <3>1. [stack EXCEPT ![t] = F] = [stack EXCEPT ![t] = Cut(stack[t], 0, F)]
      BY <2>2, Zenon
    <3>2. 0 \in 0..Len(stack[t])
      BY <1>1
    <3> QED
      BY <2>1, <2>3, <3>1, <3>2, Zenon DEF Move
  <2> QED
    BY <1>1, <2>1, <2>3, <2>4
<1>6. CASE ~(left = <<>> /\ t \in Workers)
  <2>1. Move(t, k, <<>>)
    BY <1>2, <1>3, <1>4, <1>6 DEF Move
  <2> QED
    BY <1>2, <1>3, <1>4, <1>6, <2>1
<1> QED
  BY <1>5, <1>6

\* A step of a thread that sends, runs user code, throws or reports an error:
\* the transports stay as they are.
LightMove(t) ==
  /\ state' \in {state, "failed"}
  /\ UNCHANGED <<transport, bound, links>>
  /\ stack[t] = <<>> \/ Top(stack[t]).do \in Light
  /\ \E k \in 0..Len(stack[t]), F \in Seq(LightFrame) :
       /\ Move(t, k, F)
       /\ k = 0 \/ stack[t][k].do = "callback" \/ k = Len(stack[t]) - 1

LEMMA LightCalls ==
  ASSUME TypeOK, NEW t \in Threads,
         NotifyClient(t) \/ Rethrow(t) \/ Return(t) \/ Send(t)
  PROVE  LightMove(t)
<1>1. stack[t] \in Seq(FrameType) /\ Len(stack[t]) \in Nat
  BY DEF TypeOK
<1>2. <<>> \in Seq(LightFrame) /\ <<>> \in Seq(FrameType)
  OBVIOUS
<1>3. /\ \A F \in Seq(LightFrame) : F \in Seq(FrameType)
      /\ Callback \in Seq(LightFrame)
  BY LightFrames
<1>4. ASSUME stack[t] # <<>>, Top(stack[t]).do \in Light, Throw(t),
             UNCHANGED <<transport, bound, links>>
      PROVE  LightMove(t)
  BY <1>4, ThrowMoves DEF LightMove
<1>5. ASSUME stack[t] # <<>>, Top(stack[t]).do \in Light,
             NEW next \in {state, "failed"}, NEW F \in Seq(LightFrame), Continue(t, next, F),
             UNCHANGED <<transport, bound, links>>
      PROVE  LightMove(t)
  <2>1. next \in States
    BY DEF TypeOK, States
  <2>2. Len(stack[t]) - 1 \in 0..Len(stack[t])
    BY <1>1, <1>5
  <2>3. /\ state' = next
        /\ Move(t, Len(stack[t]) - 1, F \o Changed(next))
        /\ F \o Changed(next) \in Seq(LightFrame)
    BY <1>3, <1>5, <2>1, ContinueMoves
  <2> QED
    BY <1>5, <2>2, <2>3 DEF LightMove
<1>6. CASE NotifyClient(t)
  <2>1. stack[t] = <<>> \/ (stack[t] # <<>> /\ stack[t][Len(stack[t])].do = "callback")
    BY <1>6 DEF NotifyClient, MayCall, Top
  <2>2. transport \in Transports
    BY <1>6 DEF NotifyClient, TypeOK
  <2> DEFINE e == Frame("send", transport)
  <2>3. e \in LightFrame /\ e \in FrameType
    BY <2>2, FrameTypes DEF LightFrame
  <2>4. stack' = [stack EXCEPT ![t] = Append(@, e)] /\ state' = state
    BY <1>6 DEF NotifyClient
  <2>5. UNCHANGED <<transport, bound, links>>
    BY <1>6 DEF NotifyClient
  <2> HIDE DEF e
  <2>6. Append(stack[t], e) = Cut(stack[t], Len(stack[t]), <<e>>)
    BY <1>1, <2>3, AppendCuts
  <2>7. <<e>> \in Seq(LightFrame) /\ <<e>> \in Seq(FrameType)
    BY <2>3
  <2>8. Len(stack[t]) \in 0..Len(stack[t])
    BY <1>1
  <2>9. Move(t, Len(stack[t]), <<e>>)
    BY <2>4, <2>6, <2>7, <2>8 DEF Move
  <2>10. Len(stack[t]) = 0 \/ stack[t][Len(stack[t])].do = "callback"
    BY <2>1
  <2>11. stack[t] = <<>> \/ Top(stack[t]).do \in Light
    BY <2>1 DEF Top, Light
  <2> QED
    BY <2>4, <2>5, <2>7, <2>8, <2>9, <2>10, <2>11 DEF LightMove
<1>7. CASE Rethrow(t)
  BY <1>4, <1>7 DEF Rethrow, About, Light
<1>8. CASE Return(t)
  <2>1. /\ stack[t] # <<>>
        /\ Top(stack[t]).do \in Light
        /\ UNCHANGED <<transport, bound, links>>
    BY <1>8 DEF Return, About, Light
  <2>2. CASE Throw(t)
    BY <1>4, <2>1, <2>2
  <2>3. CASE stack' = [stack EXCEPT ![t] = Then(@, <<>>)] /\ UNCHANGED state
    <3>1. Move(t, Len(stack[t]) - 1, <<>>)
      BY <1>2, <2>1, <2>3, ThenMoves
    <3>2. Len(stack[t]) - 1 \in 0..Len(stack[t])
      BY <1>1, <2>1
    <3> QED
      BY <1>2, <2>1, <2>3, <3>1, <3>2 DEF LightMove
  <2> QED
    BY <1>8, <2>2, <2>3 DEF Return
<1>9. CASE Send(t)
  <2>1. /\ stack[t] # <<>>
        /\ Top(stack[t]).do \in Light
        /\ UNCHANGED <<transport, bound, links>>
    BY <1>9 DEF Send, About, Light
  <2>2. CASE Continue(t, state, <<>>)
    BY <1>2, <1>5, <2>1, <2>2
  <2>3. CASE Continue(t, "failed", Callback)
    BY <1>3, <1>5, <2>1, <2>3
  <2>4. CASE Continue(t, "failed", <<Frame("throw", None)>> \o Callback)
    <3>1. <<Frame("throw", None)>> \o Callback \in Seq(LightFrame)
      <4>1. <<Frame("throw", None)>> \in Seq(LightFrame)
        BY FrameTypes
      <4> QED
        BY <1>3, <4>1
    <3> QED
      BY <1>5, <2>1, <2>4, <3>1
  <2>5. CASE Throw(t)
    BY <1>4, <2>1, <2>5
  <2> QED
    BY <1>9, <2>2, <2>3, <2>4, <2>5 DEF Send
<1> QED
  BY <1>6, <1>7, <1>8, <1>9

LEMMA LightHandlers ==
  ASSUME TypeOK, NEW t \in Threads, Message(t) \/ Error(t)
  PROVE  LightMove(t)
<1>1. stack[t] \in Seq(FrameType) /\ stack[t] = <<>> /\ Len(stack[t]) = 0
  BY DEF TypeOK, Message, Error
<1>2. UNCHANGED <<transport, bound, links>>
  BY DEF Message, Error
<1>3. 0 \in 0..Len(stack[t])
  BY <1>1
<1>4. ASSUME NEW F \in Seq(LightFrame), stack' = [stack EXCEPT ![t] = F],
             state' \in {state, "failed"}
      PROVE  LightMove(t)
  <2>1. F \in Seq(FrameType)
    BY LightFrames
  <2>2. F = Cut(stack[t], 0, F)
    <3>1. \A s, G \in Seq(FrameType) : G = Cut(s, 0, G)
      BY CutForms
    <3>2. stack[t] \in Seq(FrameType)
      BY DEF TypeOK
    <3> QED
      BY <2>1, <3>1, <3>2, Zenon
  <2>3. [stack EXCEPT ![t] = F] = [stack EXCEPT ![t] = Cut(stack[t], 0, F)]
    BY <2>2, Zenon
  <2>4. Move(t, 0, F)
    BY <1>3, <1>4, <2>1, <2>3, Zenon DEF Move
  <2> QED
    BY <1>1, <1>2, <1>3, <1>4, <2>4 DEF LightMove
<1>5. CASE Error(t)
  <2> DEFINE F == Callback \o Changed("failed")
  <2>1. F \in Seq(LightFrame)
    BY LightFrames
  <2>2. <<>> \o F = F /\ (<<>> \o Callback) \o Changed("failed") = F
    <3>1. Callback \in Seq(LightFrame) /\ Changed("failed") \in Seq(LightFrame)
      BY LightFrames
    <3>2. <<>> \o Callback = Callback
      BY <3>1
    <3> QED
      BY <2>1, <3>2
  <2>3. stack' = [stack EXCEPT ![t] = F] /\ state' = "failed"
    BY <1>1, <1>5, <2>2 DEF Error, Call
  <2> QED
    BY <1>4, <2>1, <2>3
<1>6. CASE Message(t)
  <2>1. CASE stack' = [stack EXCEPT ![t] = <<Frame("callback", None)>>] /\ UNCHANGED state
    <3>1. <<Frame("callback", None)>> \in Seq(LightFrame)
      BY FrameTypes
    <3> QED
      BY <1>4, <2>1, <3>1
  <2>2. CASE Throw(t)
    BY <1>1, <1>2, <2>2, ThrowMoves DEF LightMove
  <2>3. CASE /\ transport # None
             /\ stack' \in {[stack EXCEPT ![t] = <<Frame("send", transport)>> \o user] :
                              user \in {<<>>, <<Frame("callback", None)>>}}
             /\ UNCHANGED state
    <3>1. PICK user \in {<<>>, <<Frame("callback", None)>>} :
            stack' = [stack EXCEPT ![t] = <<Frame("send", transport)>> \o user]
      BY <2>3
    <3>2. transport \in Transports
      BY <2>3 DEF TypeOK
    <3>3. Frame("send", transport) \in LightFrame /\ Frame("callback", None) \in LightFrame
      BY <3>2, FrameTypes
    <3>4. <<Frame("send", transport)>> \in Seq(LightFrame) /\ user \in Seq(LightFrame)
      <4>1. CASE user = <<>>
        BY <3>3, <4>1
      <4>2. CASE user = <<Frame("callback", None)>>
        BY <3>3, <4>2
      <4> QED
        BY <4>1, <4>2
    <3>5. <<Frame("send", transport)>> \o user \in Seq(LightFrame)
      BY <3>4
    <3> QED
      BY <1>4, <2>3, <3>1, <3>5
  <2> QED
    BY <1>6, <2>1, <2>2, <2>3 DEF Message
<1> QED
  BY <1>5, <1>6

LEMMA StoppingFrames ==
  /\ Stopping \in Seq(FrameType)
  /\ \A x \in Transports \cup {None} : <<Frame("install", x)>> \o Stopping \in Seq(FrameType)
<1>1. Frame("stopped", None) \in FrameType /\ Frame("close", None) \in FrameType
  BY FrameTypes DEF Doing
<1>2. Stopping \in Seq(FrameType)
  BY <1>1 DEF Stopping
<1>3. ASSUME NEW x \in Transports \cup {None}
      PROVE  <<Frame("install", x)>> \o Stopping \in Seq(FrameType)
  <2>1. Frame("install", x) \in FrameType
    BY FrameTypes DEF Doing
  <2>2. <<Frame("install", x)>> \in Seq(FrameType)
    BY <2>1
  <2> QED
    BY <1>2, <2>2
<1> QED
  BY <1>2, <1>3

LEMMA InitType == ASSUME Init PROVE TypeOK
<1>1. stack \in [Threads -> Seq(FrameType)]
  BY DEF Init
<1>2. /\ open \in [Transports -> BOOLEAN]
      /\ armed \in [Transports -> BOOLEAN]
  BY DEF Init
<1> QED
  BY <1>1, <1>2 DEF Init, TypeOK, States

LEMMA LightType ==
  ASSUME TypeOK, NEW t \in Threads, LightMove(t)
  PROVE  TypeOK'
<1>1. stack' \in [Threads -> Seq(FrameType)]
  BY MoveType DEF LightMove
<1>2. state' \in States
  BY DEF LightMove, TypeOK, States
<1> QED
  BY <1>1, <1>2 DEF LightMove, TypeOK, links

LEMMA CallsType ==
  ASSUME TypeOK, NEW t \in Threads, Calls(t)
  PROVE  TypeOK'
<1>1. ASSUME NEW x \in Transports \cup {None}, SetTransport(t, x)
      PROVE  TypeOK'
  <2>1. CASE state \in {"stopped", "failed"}
    BY <1>1, <2>1 DEF SetTransport, Bind, TypeOK, links
  <2>2. CASE state \notin {"stopped", "failed"}
    <3>1. Call(t, "stopping", <<Frame("install", x)>> \o Stopping) /\ UNCHANGED <<transport, bound, links>>
      BY <1>1, <2>2 DEF SetTransport
    <3>2. "stopping" \in States /\ <<Frame("install", x)>> \o Stopping \in Seq(FrameType)
      BY StoppingFrames DEF States
    <3>3. state' \in States /\ stack' \in [Threads -> Seq(FrameType)]
      BY <3>1, <3>2, CallMoves, MoveType
    <3> QED
      BY <3>1, <3>3 DEF TypeOK, links
  <2> QED
    BY <2>1, <2>2
<1>2. ASSUME NEW x \in Transports, DirectClose(t, x)
      PROVE  TypeOK'
  <2>1. Frame("close", x) \in FrameType
    BY FrameTypes DEF Doing
  <2>2. <<Frame("close", x)>> \in Seq(FrameType)
    BY <2>1
  <2>3. stack' \in [Threads -> Seq(FrameType)]
    BY <1>2, <2>2 DEF DirectClose, TypeOK
  <2> QED
    BY <1>2, <2>3 DEF DirectClose, TypeOK, links
<1>3. CASE Start(t)
  <2> DEFINE F == <<Frame("running", None), Frame("listen", transport)>>
  <2>1. F \in Seq(FrameType)
    <3>1. transport \in Transports
      BY <1>3 DEF Start, TypeOK
    <3>2. Frame("running", None) \in FrameType /\ Frame("listen", transport) \in FrameType
      BY <3>1, FrameTypes DEF Doing
    <3> QED
      BY <3>2
  <2>2. Call(t, "starting", F) /\ UNCHANGED <<transport, bound, links>>
    BY <1>3 DEF Start
  <2> HIDE DEF F
  <2>3. "starting" \in States
    BY DEF States
  <2>4. state' \in States /\ stack' \in [Threads -> Seq(FrameType)]
    BY <2>1, <2>2, <2>3, CallMoves, MoveType
  <2> QED
    BY <2>2, <2>4 DEF TypeOK, links
<1>4. CASE Stop(t)
  <2>1. Call(t, "stopping", Stopping) /\ UNCHANGED <<transport, bound, links>>
    BY <1>4 DEF Stop
  <2>2. "stopping" \in States
    BY DEF States
  <2>3. state' \in States /\ stack' \in [Threads -> Seq(FrameType)]
    BY <2>1, <2>2, CallMoves, MoveType, StoppingFrames
  <2> QED
    BY <2>1, <2>3 DEF TypeOK, links
<1>5. CASE NotifyClient(t)
  BY <1>5, LightCalls, LightType
<1> QED
  BY <1>1, <1>2, <1>3, <1>4, <1>5 DEF Calls

LEMMA RunsType ==
  ASSUME TypeOK, NEW t \in Threads, Runs(t)
  PROVE  TypeOK'
<1>1. <<>> \in Seq(FrameType)
  OBVIOUS
<1>2. ASSUME stack[t] # <<>>, stack' = [stack EXCEPT ![t] = Then(@, <<>>)]
      PROVE  stack' \in [Threads -> Seq(FrameType)]
  BY <1>1, <1>2, ThenMoves, MoveType
<1>3. ASSUME stack[t] # <<>>, NEW next \in States, Continue(t, next, <<>>)
      PROVE  state' \in States /\ stack' \in [Threads -> Seq(FrameType)]
  BY <1>1, <1>3, ContinueMoves, MoveType
<1>4. ASSUME stack[t] # <<>>
      PROVE  /\ Top(stack[t]).on \in Transports \cup {None}
             /\ Top(stack[t]).do \in {"listen", "send"} => Top(stack[t]).on \in Transports
  <2>1. Top(stack[t]) \in FrameType
    BY <1>4, BelowType DEF TypeOK
  <2> QED
    BY <2>1, FrameTypes
<1>5. CASE Listen(t)
  <2>1. stack[t] # <<>> /\ On(t) \in Transports
    BY <1>4, <1>5 DEF Listen, About, On
  <2>2. CASE /\ open' = [open EXCEPT ![On(t)] = TRUE]
             /\ armed' = [armed EXCEPT ![On(t)] = TRUE]
             /\ used' = used \cup {On(t)}
             /\ stack' = [stack EXCEPT ![t] = Then(@, <<>>)]
             /\ UNCHANGED state
    <3>1. stack' \in [Threads -> Seq(FrameType)]
      BY <1>2, <2>1, <2>2
    <3>2. used' \subseteq Transports
      BY <2>1, <2>2 DEF TypeOK
    <3>3. open' \in [Transports -> BOOLEAN] /\ armed' \in [Transports -> BOOLEAN]
      BY <2>1, <2>2 DEF TypeOK
    <3> QED
      BY <1>5, <2>2, <3>1, <3>2, <3>3 DEF Listen, TypeOK
  <2>3. CASE Throw(t) /\ UNCHANGED links
    <3>1. stack' \in [Threads -> Seq(FrameType)]
      BY <2>3, ThrowMoves, MoveType
    <3>2. state' \in States
      BY <2>3, ThrowMoves DEF TypeOK, States
    <3> QED
      BY <1>5, <2>3, <3>1, <3>2 DEF Listen, TypeOK, links
  <2> QED
    BY <1>5, <2>2, <2>3 DEF Listen
<1>6. CASE Running(t)
  <2>1. "running" \in States
    BY DEF States
  <2>2. state' \in States /\ stack' \in [Threads -> Seq(FrameType)]
    BY <1>3, <1>6, <2>1 DEF Running, About
  <2> QED
    BY <1>6, <2>2 DEF Running, TypeOK, links
<1>7. CASE Stopped(t)
  <2>1. "stopped" \in States
    BY DEF States
  <2>2. state' \in States /\ stack' \in [Threads -> Seq(FrameType)]
    BY <1>3, <1>7, <2>1 DEF Stopped, About
  <2> QED
    BY <1>7, <2>2 DEF Stopped, TypeOK, links
<1>8. CASE Closed(t)
  <2> DEFINE next == IF On(t) \in bound /\ state # "stopping" THEN "stopped" ELSE state
  <2>1. next \in States
    BY DEF States, TypeOK
  <2>2. stack[t] # <<>> /\ Continue(t, next, <<>>) /\ UNCHANGED <<transport, bound, links>>
    BY <1>8 DEF Closed, About
  <2> HIDE DEF next
  <2>3. state' \in States /\ stack' \in [Threads -> Seq(FrameType)]
    BY <1>3, <2>1, <2>2
  <2> QED
    BY <2>2, <2>3 DEF TypeOK, links
<1>9. CASE Close(t)
  <2>1. stack[t] # <<>> /\ Closing(t) \in Transports \cup {None}
    BY <1>4, <1>9 DEF Close, About, Closing, On, TypeOK
  <2>2. CASE Closing(t) # None /\ armed[Closing(t)]
    <3>1. /\ open' = [open EXCEPT ![Closing(t)] = FALSE]
          /\ armed' = [armed EXCEPT ![Closing(t)] = FALSE]
          /\ stack' = [stack EXCEPT ![t] = Then(@, <<Frame("notify", Closing(t))>>)]
      BY <1>9, <2>2 DEF Close
    <3>2. <<Frame("notify", Closing(t))>> \in Seq(FrameType)
      <4>1. Frame("notify", Closing(t)) \in FrameType
        BY <2>1, FrameTypes DEF Doing
      <4> QED
        BY <4>1
    <3>3. stack' \in [Threads -> Seq(FrameType)]
      BY <2>1, <3>1, <3>2, ThenMoves, MoveType
    <3>4. open' \in [Transports -> BOOLEAN] /\ armed' \in [Transports -> BOOLEAN]
      BY <2>1, <3>1 DEF TypeOK
    <3> QED
      BY <1>9, <3>3, <3>4 DEF Close, TypeOK
  <2>3. CASE ~(Closing(t) # None /\ armed[Closing(t)])
    <3>1. stack' \in [Threads -> Seq(FrameType)]
      BY <1>2, <1>9, <2>1, <2>3 DEF Close
    <3> QED
      BY <1>9, <2>3, <3>1 DEF Close, TypeOK
  <2> QED
    BY <2>2, <2>3
<1>10. CASE Install(t)
  <2>1. stack[t] # <<>> /\ On(t) \in Transports \cup {None}
    BY <1>4, <1>10 DEF Install, About, On
  <2>2. stack' \in [Threads -> Seq(FrameType)]
    BY <1>2, <1>10, <2>1 DEF Install
  <2> QED
    BY <1>10, <2>1, <2>2 DEF Install, Bind, TypeOK, links
<1>11. CASE Send(t) \/ Rethrow(t) \/ Return(t)
  BY <1>11, LightCalls, LightType
<1> QED
  BY <1>5, <1>6, <1>7, <1>8, <1>9, <1>10, <1>11 DEF Runs

\* Every variable keeps its type, and so every thread only ever listens and
\* sends on a transport that exists: start and send_notification check
\* transport_ before they use it (server.cpp).
THEOREM TypeCorrect == Spec => []TypeOK
<1>1. ASSUME TypeOK, [Next]_vars
      PROVE  TypeOK'
  <2>1. CASE UNCHANGED vars
    BY <1>1, <2>1 DEF vars, links, TypeOK
  <2>2. ASSUME NEW t \in Threads, Calls(t)
        PROVE  TypeOK'
    BY <1>1, <2>2, CallsType
  <2>3. ASSUME NEW t \in Threads, Runs(t)
        PROVE  TypeOK'
    BY <1>1, <2>3, RunsType
  <2>4. ASSUME NEW w \in Workers, Message(w) \/ Error(w)
        PROVE  TypeOK'
    <3>1. w \in Threads
      BY DEF Threads
    <3> QED
      BY <1>1, <2>4, <3>1, LightHandlers, LightType
  <2> QED
    BY <1>1, <2>1, <2>2, <2>3, <2>4 DEF Next
<1> QED
  BY <1>1, InitType, PTL DEF Spec
-----------------------------------------------------------------------------
(* Safety *)

LEMMA MoveFrames ==
  ASSUME TypeOK, NEW t \in Threads, NEW k, NEW F, Move(t, k, F)
  PROVE  /\ Len(stack'[t]) = k + Len(F)
         /\ \A i \in 1..k : stack'[t][i] = stack[t][i]
         /\ \A i \in k + 1..k + Len(F) : stack'[t][i] = F[i - k]
         /\ k \in Nat /\ Len(F) \in Nat /\ Len(stack[t]) \in Nat /\ k <= Len(stack[t])
<1>1. stack[t] \in Seq(FrameType)
  BY DEF TypeOK
<1>2. stack'[t] = Cut(stack[t], k, F)
  BY MoveType
<1>3. k \in 0..Len(stack[t]) /\ F \in Seq(FrameType)
  BY DEF Move
<1>4. Len(stack[t]) \in Nat /\ Len(F) \in Nat
  BY <1>1, <1>3
<1> DEFINE c == Cut(stack[t], k, F)
<1>5. /\ Len(c) = k + Len(F)
      /\ \A i \in 1..k : c[i] = stack[t][i]
      /\ \A i \in k + 1..k + Len(F) : c[i] = F[i - k]
  <2>1. Len(c) = k + Len(F)
    BY <1>1, <1>3, CutType
  <2>2. \A i \in 1..k : c[i] = stack[t][i]
    BY <1>1, <1>3, CutType, ZenonT(60)
  <2>3. \A i \in k + 1..k + Len(F) : c[i] = F[i - k]
    BY <1>1, <1>3, CutType
  <2> QED
    BY <2>1, <2>2, <2>3
<1> HIDE DEF c
<1>6. stack'[t] = c
  BY <1>2 DEF c
<1>7. k \in Nat /\ k <= Len(stack[t])
  BY <1>3, <1>4
<1> QED
  BY <1>4, <1>5, <1>6, <1>7

\* A sequential application calls the server from an empty stack; what goes
\* on to be done besides sending is done by its thread.
LEMMA OneApp ==
  ASSUME Sequential, TypeOK, WorkersLight, NEW t \in Threads
  PROVE  /\ \A call \in {"start", "stop"} : MayCall(t, call) => t \in Apps /\ stack[t] = <<>>
         /\ \A do : About(t, do) /\ do \notin Light => t \in Apps
         /\ t \in Apps => Apps = {t} /\ t \notin Workers
<1>1. \A call \in {"start", "stop"} : MayCall(t, call) => t \in Apps /\ stack[t] = <<>>
  BY DEF MayCall, Sequential
<1>2. ASSUME NEW do, About(t, do), do \notin Light
      PROVE  t \in Apps
  <2>1. stack[t] # <<>> /\ stack[t] \in Seq(FrameType)
    BY <1>2 DEF About, TypeOK
  <2>2. Len(stack[t]) \in 1..Len(stack[t])
    BY <2>1
  <2>3. stack[t][Len(stack[t])].do \notin Light
    BY <1>2 DEF About, Top
  <2> QED
    BY <2>2, <2>3 DEF WorkersLight, Threads
<1>3. t \in Apps => Apps = {t} /\ t \notin Workers
  BY ConstantsAssumption DEF ConstantsAssumption, Sequential
<1> QED
  BY <1>1, <1>2, <1>3

LEMMA LightSafe ==
  ASSUME IInv, NEW t \in Threads, LightMove(t)
  PROVE  IInv'
<1> USE DEF IInv
<1>1. /\ state' \in {state, "failed"}
      /\ transport' = transport /\ bound' = bound /\ open' = open /\ armed' = armed
      /\ stack[t] = <<>> \/ Top(stack[t]).do \in Light
  BY DEF LightMove, links
<1>2. PICK k \in 0..Len(stack[t]), F \in Seq(LightFrame) :
        /\ Move(t, k, F)
        /\ k = 0 \/ stack[t][k].do = "callback" \/ k = Len(stack[t]) - 1
  BY DEF LightMove
<1>3. \A i \in 1..Len(F) : F[i].do \in Light
  BY LightFrames
<1>4. /\ Len(stack'[t]) = k + Len(F)
      /\ \A i \in 1..k : stack'[t][i] = stack[t][i]
      /\ \A i \in k + 1..k + Len(F) : stack'[t][i] = F[i - k]
      /\ k \in Nat /\ Len(F) \in Nat /\ Len(stack[t]) \in Nat /\ k <= Len(stack[t])
  BY <1>2, MoveFrames
<1>5. \A u \in Threads : u # t => stack'[u] = stack[u]
  BY <1>2, MoveType
<1>6. \A i \in 1..Len(stack'[t]) : i \in 1..k \/ (i > k /\ stack'[t][i].do \in Light)
  BY <1>3, <1>4
<1>7. TypeOK'
  BY LightType
<1>8. Contract' /\ Linked'
  BY <1>1 DEF Contract, Linked
<1>9. WorkersLight'
  <2>1. ASSUME NEW w \in Workers, NEW i \in 1..Len(stack'[w])
        PROVE  stack'[w][i].do \in Light
    <3>1. CASE w = t
      <4>1. i \in 1..k \/ stack'[t][i].do \in Light
        BY <1>6, <3>1
      <4>2. CASE i \in 1..k
        <5>1. stack'[t][i] = stack[t][i] /\ i \in 1..Len(stack[t])
          BY <1>4, <4>2
        <5>2. stack[t][i].do \in Light
          BY <3>1, <5>1 DEF WorkersLight
        <5> QED
          BY <3>1, <5>1, <5>2
      <4> QED
        BY <3>1, <4>1, <4>2
    <3>2. CASE w # t
      BY <1>5, <3>2 DEF WorkersLight, Threads
    <3> QED
      BY <3>1, <3>2
  <2> QED
    BY <2>1 DEF WorkersLight
<1>10. AppsPending'
  <2>1. ASSUME NEW a \in Apps, a # t
        PROVE  Shape(stack[a])' /\ \A i \in 1..Len(stack'[a]) : Pending(stack[a], i)'
    <3>1. stack'[a] = stack[a]
      BY <1>5, <2>1 DEF Threads
    <3>2. Shape(stack[a])'
      BY <1>1, <2>1, <3>1 DEF AppsPending, Shape
    <3>3. ASSUME NEW i \in 1..Len(stack[a])
          PROVE  Pending(stack[a], i)'
      <4>1. Pending(stack[a], i)
        BY DEF AppsPending
      <4> QED
        BY <1>1, <3>1, <4>1 DEF Pending
    <3> QED
      BY <3>1, <3>2, <3>3
  <2>2. ASSUME t \in Apps
        PROVE  Shape(stack[t])' /\ \A i \in 1..Len(stack'[t]) : Pending(stack[t], i)'
    <3> DEFINE s == stack[t]
               r == stack'[t]
    <3>1. Shape(s) /\ \A i \in 1..Len(s) : Pending(s, i)
      BY <2>2 DEF AppsPending
    <3>2. \A i \in 1..k : s[i].do # "notify"
      <4>1. ASSUME NEW i \in 1..k, s[i].do = "notify"
            PROVE  FALSE
        <5>1. i \in 1..Len(s) /\ i = Len(s) /\ k = Len(s)
          BY <1>4, <3>1, <4>1 DEF Shape
        <5>2. s[Len(s)].do = "callback"
          BY <1>2, <1>4, <5>1
        <5> QED
          BY <4>1, <5>1, <5>2
      <4> QED
        BY <4>1
    <3>3. \A i \in 1..k : i < Len(s) /\ s[i].do \in {"stopped", "running"}
                            /\ s[i + 1].do \in {"close", "listen"} => i + 1 \in 1..k
      BY <1>1, <1>2, <1>4 DEF Top, Light
    <3>4. \A i \in 1..k : s[i].do \in {"stopped", "running"} /\ i = Len(s) => FALSE
      BY <1>1, <1>2, <1>4 DEF Top, Light
    <3> HIDE DEF s, r
    <3>5. /\ \A i \in 1..k : r[i] = s[i]
          /\ \A i \in 1..Len(r) : i \in 1..k \/ (i > k /\ r[i].do \in Light)
          /\ k \in Nat /\ Len(s) \in Nat /\ Len(r) \in Nat /\ k <= Len(s) /\ k <= Len(r)
      BY <1>4, <1>6 DEF s, r
    <3>6. ASSUME NEW i \in 1..Len(r)
          PROVE  /\ r[i].do \in {"install", "running"} => i = 1
                 /\ r[i].do = "listen" => i = 2 /\ r[1].do = "running" /\ r[i].on = transport
                 /\ r[i].do = "stopped" => i = 1 \/ (i = 2 /\ r[1].do = "install")
                 /\ r[i].do = "close" => IF i = 1 THEN r[i].on # None
                                         ELSE r[i - 1].do = "stopped" /\ r[i].on = None
                 /\ r[i].do = "notify" => i = Len(r)
      <4>1. CASE i \in 1..k
        BY <3>1, <3>2, <3>5, <4>1 DEF Shape
      <4>2. CASE r[i].do \in Light
        BY <4>2 DEF Light
      <4> QED
        BY <3>5, <4>1, <4>2
    <3>7. ASSUME NEW i \in 1..Len(r)
          PROVE  /\ r[i].do \in {"install", "stopped"} => state' # "running"
                 /\ r[i].do = "stopped" =>
                      \/ i < Len(r) /\ r[i + 1].do = "close"
                      \/ transport = None \/ ~open[transport]
                 /\ r[i].do = "running" =>
                      \/ i < Len(r) /\ r[i + 1].do = "listen"
                      \/ transport # None /\ open[transport]
      <4>1. CASE i \in 1..k
        <5>1. Pending(s, i)
          BY <3>1, <3>5, <4>1
        <5> QED
          BY <1>1, <3>3, <3>4, <3>5, <4>1, <5>1 DEF Pending, s
      <4>2. CASE r[i].do \in Light
        BY <4>2 DEF Light
      <4> QED
        BY <3>5, <4>1, <4>2
    <3>9. \A i \in 1..Len(stack'[t]) : Pending(stack[t], i)'
      BY <1>1, <3>7 DEF Pending, r
    <3> QED
      BY <1>1, <3>6, <3>9 DEF Shape, r
  <2> QED
    BY <2>1, <2>2 DEF AppsPending
<1>11. RunningOpen'
  <2>1. ASSUME state' = "running"
        PROVE  /\ transport # None
               /\ \/ open[transport]
                  \/ \E a \in Apps : stack'[a] # <<>> /\ Top(stack'[a]) = Frame("notify", transport)
    <3>1. state = "running"
      BY <1>1, <2>1
    <3>2. \A a \in Apps : stack[a] # <<>> /\ Top(stack[a]) = Frame("notify", transport)
                            => stack'[a] = stack[a]
      BY <1>1, <1>5 DEF Frame, Light, Threads
    <3> QED
      BY <3>1, <3>2 DEF RunningOpen
  <2> QED
    BY <1>1, <2>1 DEF RunningOpen
<1> QED
  BY <1>7, <1>8, <1>9, <1>10, <1>11

\* What a step of the application's thread leaves of the other threads.
LEMMA AppSafe ==
  ASSUME Sequential, IInv, NEW t \in Apps, NEW k, NEW F, Move(t, k, F),
         Shape(stack[t])', \A i \in 1..Len(stack'[t]) : Pending(stack[t], i)'
  PROVE  WorkersLight' /\ AppsPending'
<1>1. t \in Threads /\ TypeOK
  BY DEF Threads, IInv
<1>2. Apps = {t} /\ t \notin Workers
  BY <1>1, OneApp DEF IInv
<1>3. \A w \in Workers : stack'[w] = stack[w]
  BY <1>1, <1>2, MoveType DEF Threads
<1>4. WorkersLight'
  BY <1>3 DEF IInv, WorkersLight
<1>5. AppsPending'
  BY <1>2 DEF AppsPending
<1> QED
  BY <1>4, <1>5

\* The innermost frame of the application's stack makes room for others.
LEMMA PopShape ==
  ASSUME IInv, NEW t \in Apps, stack[t] # <<>>, NEW F, Move(t, Len(stack[t]) - 1, F),
         (\A i \in 1..Len(F) : F[i].do \in Light) \/ (Len(F) = 1 /\ F[1].do = "notify"),
         transport' = transport
  PROVE  Shape(stack[t])'
<1>1. t \in Threads /\ TypeOK /\ Shape(stack[t])
  BY DEF Threads, IInv, AppsPending
<1> DEFINE s == stack[t]
           r == stack'[t]
           n == Len(s) - 1
<1>2. /\ Len(r) = n + Len(F)
      /\ \A i \in 1..n : r[i] = s[i]
      /\ \A i \in n + 1..n + Len(F) : r[i] = F[i - n]
      /\ n \in Nat /\ Len(F) \in Nat /\ Len(s) \in Nat
  <2>1. Move(t, n, F)
    OBVIOUS
  <2> HIDE DEF n
  <2> QED
    BY <1>1, <2>1, MoveFrames
<1>3. /\ \A i \in 1..n : s[i].do # "notify"
      /\ \A i \in 1..n : i \in 1..Len(s)
  BY <1>1, <1>2 DEF Shape
<1>4. ASSUME NEW i \in 1..Len(r)
      PROVE  /\ r[i].do \in {"install", "running"} => i = 1
             /\ r[i].do = "listen" => i = 2 /\ r[1].do = "running" /\ r[i].on = transport
             /\ r[i].do = "stopped" => i = 1 \/ (i = 2 /\ r[1].do = "install")
             /\ r[i].do = "close" => IF i = 1 THEN r[i].on # None
                                     ELSE r[i - 1].do = "stopped" /\ r[i].on = None
             /\ r[i].do = "notify" => i = Len(r)
  <2> HIDE DEF s, r, n
  <2>1. CASE i \in 1..n
    <3>1. Shape(s)
      BY <1>1 DEF s
    <3> QED
      BY <1>2, <1>3, <2>1, <3>1 DEF Shape
  <2>2. CASE i \notin 1..n
    <3>1. r[i] = F[i - n] /\ i - n \in 1..Len(F)
      BY <1>2, <2>2
    <3>2. CASE F[i - n].do \in Light
      BY <3>1, <3>2 DEF Light
    <3>3. CASE Len(F) = 1 /\ F[1].do = "notify"
      <4>1. i - n = 1 /\ i = Len(r)
        BY <1>2, <3>1, <3>3
      <4> QED
        BY <3>1, <3>3, <4>1
    <3> QED
      BY <3>1, <3>2, <3>3
  <2> QED
    BY <2>1, <2>2
<1> QED
  BY <1>4 DEF Shape, r

\* A call from an empty stack pushes its frames and perhaps a callback.
LEMMA PushedFrames ==
  ASSUME IInv, NEW t \in Threads, stack[t] = <<>>, NEW next \in States,
         NEW A \in Seq(FrameType), Call(t, next, A)
  PROVE  /\ Len(stack'[t]) \in Nat /\ Len(stack'[t]) >= Len(A)
         /\ \A i \in 1..Len(A) : stack'[t][i] = A[i]
         /\ \A i \in 1..Len(stack'[t]) : i <= Len(A) \/ stack'[t][i].do \in Light
<1> DEFINE L == Changed(next)
<1>1. TypeOK /\ Len(stack[t]) = 0
  BY DEF IInv
<1>2. L \in Seq(LightFrame)
  BY LightFrames
<1>3. L \in Seq(FrameType) /\ \A i \in 1..Len(L) : L[i].do \in Light
  BY <1>2, LightFrames
<1>4. Move(t, Len(stack[t]), A \o L)
  BY <1>1, CallMoves
<1> HIDE DEF L
<1> DEFINE G == A \o L
<1>5. /\ Len(A) \in Nat /\ Len(L) \in Nat
      /\ Len(G) = Len(A) + Len(L)
      /\ \A i \in 1..Len(A) : G[i] = A[i]
      /\ \A i \in Len(A) + 1..Len(A) + Len(L) : G[i] = L[i - Len(A)]
  BY <1>3, ConcatProperties
<1>6. /\ Len(stack'[t]) = 0 + Len(G)
      /\ \A i \in 0 + 1..0 + Len(G) : stack'[t][i] = G[i - 0]
  <2>1. Move(t, 0, G)
    BY <1>1, <1>4
  <2> HIDE DEF G
  <2> QED
    BY <1>1, <2>1, MoveFrames
<1> HIDE DEF G
<1>7. /\ Len(stack'[t]) = Len(A) + Len(L)
      /\ \A i \in 1..Len(A) + Len(L) : stack'[t][i] = G[i]
  BY <1>5, <1>6
<1>8. ASSUME NEW i \in 1..Len(A) + Len(L), i > Len(A)
      PROVE  G[i].do \in Light
  <2>1. i - Len(A) \in 1..Len(L) /\ G[i] = L[i - Len(A)]
    BY <1>5, <1>8
  <2> QED
    BY <1>3, <2>1
<1> QED
  BY <1>5, <1>7, <1>8

LEMMA CallsSafe ==
  ASSUME Sequential, IInv, NEW t \in Threads, Calls(t)
  PROVE  IInv'
<1>1. TypeOK /\ TypeOK'
  BY CallsType DEF IInv
\* What a call of the application's thread with these frames preserves.
<1>2. ASSUME t \in Apps, stack[t] = <<>>, NEW next \in States \ {"running"},
             NEW A \in Seq(FrameType), Call(t, next, A), UNCHANGED <<transport, bound, links>>,
             \A i \in 1..Len(A) :
               \/ i = 1 /\ A[1].do = "install" /\ A[2].do = "stopped"
               \/ i < Len(A) /\ A[i].do = "stopped" /\ A[i + 1].do = "close"
                  /\ (i = 1 \/ (i = 2 /\ A[1].do = "install"))
               \/ i > 1 /\ A[i].do = "close" /\ A[i].on = None /\ A[i - 1].do = "stopped"
               \/ i = 1 /\ i < Len(A) /\ A[1].do = "running" /\ A[2].do = "listen"
               \/ i = 2 /\ A[2].do = "listen" /\ A[2].on = transport /\ A[1].do = "running"
      PROVE  IInv'
  <2> DEFINE r == stack'[t]
  <2>1. /\ Len(r) \in Nat /\ Len(A) \in Nat /\ Len(r) >= Len(A)
        /\ \A i \in 1..Len(A) : r[i] = A[i]
        /\ \A i \in 1..Len(r) : i <= Len(A) \/ r[i].do \in Light
    BY <1>2, PushedFrames
  <2>2. state' = next /\ transport' = transport /\ bound' = bound /\ open' = open /\ armed' = armed
    BY <1>2 DEF Call, links
  <2> HIDE DEF r
  <2>3. ASSUME NEW i \in 1..Len(r)
        PROVE  /\ r[i].do \in {"install", "running"} => i = 1
               /\ r[i].do = "listen" => i = 2 /\ r[1].do = "running" /\ r[i].on = transport
               /\ r[i].do = "stopped" => i = 1 \/ (i = 2 /\ r[1].do = "install")
               /\ r[i].do = "close" => IF i = 1 THEN r[i].on # None
                                       ELSE r[i - 1].do = "stopped" /\ r[i].on = None
               /\ r[i].do = "notify" => i = Len(r)
    <3>1. CASE r[i].do \in Light
      BY <3>1 DEF Light
    <3>2. CASE i \in 1..Len(A)
      BY <1>2, <2>1, <3>2
    <3> QED
      BY <2>1, <3>1, <3>2
  <2>4. ASSUME NEW i \in 1..Len(r)
        PROVE  /\ r[i].do = "stopped" => i < Len(r) /\ r[i + 1].do = "close"
               /\ r[i].do = "running" => i < Len(r) /\ r[i + 1].do = "listen"
    <3>1. CASE r[i].do \in Light
      BY <3>1 DEF Light
    <3>2. CASE i \in 1..Len(A)
      BY <1>2, <2>1, <3>2
    <3> QED
      BY <2>1, <3>1, <3>2
  <2>5. Shape(stack[t])'
    BY <2>2, <2>3 DEF Shape, r
  <2>6. \A i \in 1..Len(stack'[t]) : Pending(stack[t], i)'
    BY <1>2, <2>2, <2>4 DEF Pending, r
  <2>7. WorkersLight' /\ AppsPending'
    BY <1>1, <1>2, <2>5, <2>6, CallMoves, AppSafe
  <2>8. Contract' /\ Linked' /\ RunningOpen'
    BY <1>2, <2>2 DEF IInv, Contract, Linked, RunningOpen
  <2> QED
    BY <1>1, <2>7, <2>8 DEF IInv
<1>3. ASSUME NEW x \in Transports \cup {None}, SetTransport(t, x)
      PROVE  IInv'
  <2>1. t \in Apps /\ stack[t] = <<>> /\ Apps = {t}
    BY <1>1, <1>3, OneApp DEF SetTransport, IInv
  <2>2. CASE state \in {"stopped", "failed"}
    <3>1. /\ transport' = x /\ Bind(x) /\ state' = state /\ stack' = stack
          /\ open' = open /\ armed' = armed
      BY <1>3, <2>2 DEF SetTransport, links
    <3>2. Contract' /\ WorkersLight' /\ RunningOpen'
      BY <2>2, <3>1 DEF IInv, Contract, WorkersLight, RunningOpen
    <3>3. Linked'
      BY <3>1 DEF Linked, Bind
    <3>4. AppsPending'
      <4>1. stack'[t] = <<>> /\ 1..Len(stack'[t]) = {}
        BY <2>1, <3>1
      <4> QED
        BY <2>1, <4>1 DEF AppsPending, Shape
    <3> QED
      BY <1>1, <3>2, <3>3, <3>4 DEF IInv
  <2>3. CASE state \notin {"stopped", "failed"}
    <3> DEFINE p == <<Frame("install", x)>>
               A == p \o Stopping
    <3>1. Call(t, "stopping", A) /\ UNCHANGED <<transport, bound, links>>
      BY <1>3, <2>3 DEF SetTransport
    <3>2. A \in Seq(FrameType) /\ "stopping" \in States \ {"running"}
      BY StoppingFrames DEF States
    <3>3. Len(A) = 3 /\ A[1].do = "install" /\ A[2].do = "stopped" /\ A[3].do = "close" /\ A[3].on = None
      <4>1. p \in Seq(FrameType) /\ Len(p) = 1 /\ p[1].do = "install"
        BY FrameTypes DEF Doing, Frame
      <4>2. /\ Stopping \in Seq(FrameType) /\ Len(Stopping) = 2 /\ Stopping[1].do = "stopped"
            /\ Stopping[2].do = "close" /\ Stopping[2].on = None
        BY StoppingFrames DEF Stopping, Frame
      <4> HIDE DEF p
      <4>3. /\ Len(A) = Len(p) + Len(Stopping)
            /\ \A i \in 1..Len(p) + Len(Stopping) :
                 A[i] = IF i <= Len(p) THEN p[i] ELSE Stopping[i - Len(p)]
        BY <4>1, <4>2, ConcatProperties
      <4> HIDE DEF A
      <4> QED
        BY <4>1, <4>2, <4>3
    <3> HIDE DEF A
    <3> QED
      BY <1>2, <2>1, <3>1, <3>2, <3>3
  <2> QED
    BY <2>2, <2>3
<1>4. CASE Start(t)
  <2> DEFINE A == <<Frame("running", None), Frame("listen", transport)>>
  <2>1. t \in Apps /\ stack[t] = <<>>
    BY <1>1, <1>4, OneApp DEF Start, IInv
  <2>2. Call(t, "starting", A) /\ UNCHANGED <<transport, bound, links>>
    BY <1>4 DEF Start
  <2>3. A \in Seq(FrameType)
    <3>1. transport \in Transports
      BY <1>1, <1>4 DEF Start, TypeOK
    <3> QED
      BY <3>1, FrameTypes DEF Doing
  <2>4. "starting" \in States \ {"running"}
    BY DEF States
  <2>5. Len(A) = 2 /\ A[1].do = "running" /\ A[2].do = "listen" /\ A[2].on = transport
    BY DEF Frame
  <2> HIDE DEF A
  <2> QED
    BY <1>2, <2>1, <2>2, <2>3, <2>4, <2>5
<1>5. CASE Stop(t)
  <2>1. t \in Apps /\ stack[t] = <<>>
    BY <1>1, <1>5, OneApp DEF Stop, IInv
  <2>2. Call(t, "stopping", Stopping) /\ UNCHANGED <<transport, bound, links>>
    BY <1>5 DEF Stop
  <2>3. Stopping \in Seq(FrameType) /\ "stopping" \in States \ {"running"}
    BY StoppingFrames DEF States
  <2>4. /\ Len(Stopping) = 2 /\ Stopping[1].do = "stopped"
        /\ Stopping[2].do = "close" /\ Stopping[2].on = None
    BY DEF Stopping, Frame
  <2>5. \A i \in 1..Len(Stopping) :
          \/ i < Len(Stopping) /\ i = 1 /\ Stopping[1].do = "stopped" /\ Stopping[2].do = "close"
          \/ i = 2 /\ Stopping[2].do = "close" /\ Stopping[2].on = None /\ Stopping[1].do = "stopped"
    BY <2>4
  <2> QED
    BY <1>2, <2>1, <2>2, <2>3, <2>5
<1>6. ASSUME NEW x \in Transports, DirectClose(t, x)
      PROVE  IInv'
  <2>1. /\ t \in Apps /\ stack[t] = <<>> /\ Apps = {t}
        /\ stack' = [stack EXCEPT ![t] = <<Frame("close", x)>>]
        /\ state' = state /\ transport' = transport /\ bound' = bound
        /\ open' = open /\ armed' = armed
    BY <1>1, <1>6, OneApp DEF DirectClose, IInv, links
  <2>2. stack'[t] = <<Frame("close", x)>> /\ \A w \in Workers : stack'[w] = stack[w]
    BY <1>1, <2>1, ConstantsAssumption DEF TypeOK, ConstantsAssumption, Threads
  <2>3. x # None
    BY ConstantsAssumption DEF ConstantsAssumption
  <2>4. Len(stack'[t]) = 1 /\ stack'[t][1].do = "close" /\ stack'[t][1].on = x
    BY <2>2 DEF Frame
  <2>5. WorkersLight'
    BY <2>2 DEF IInv, WorkersLight
  <2>6. AppsPending'
    BY <2>1, <2>3, <2>4 DEF AppsPending, Shape, Pending
  <2>7. Contract' /\ Linked' /\ RunningOpen'
    BY <2>1 DEF IInv, Contract, Linked, RunningOpen
  <2> QED
    BY <1>1, <2>5, <2>6, <2>7 DEF IInv
<1>7. CASE NotifyClient(t)
  BY <1>1, <1>7, LightCalls, LightSafe
<1> QED
  BY <1>3, <1>4, <1>5, <1>6, <1>7 DEF Calls

\* The application's thread goes on from its innermost frame.
LEMMA PopSafe ==
  ASSUME Sequential, IInv, NEW t \in Apps, stack[t] # <<>>, NEW F, Move(t, Len(stack[t]) - 1, F),
         (\A i \in 1..Len(F) : F[i].do \in Light) \/ (Len(F) = 1 /\ F[1].do = "notify"),
         transport' = transport,
         \A i \in 1..Len(stack[t]) - 1 :
           /\ stack[t][i].do \in {"install", "stopped"} => state' # "running"
           /\ stack[t][i].do = "stopped" =>
                \/ i + 1 < Len(stack[t]) /\ stack[t][i + 1].do = "close"
                \/ transport = None \/ ~open'[transport]
           /\ stack[t][i].do = "running" =>
                \/ i + 1 < Len(stack[t]) /\ stack[t][i + 1].do = "listen"
                \/ transport # None /\ open'[transport]
  PROVE  WorkersLight' /\ AppsPending'
<1>1. t \in Threads /\ TypeOK
  BY DEF Threads, IInv
<1> DEFINE s == stack[t]
           r == stack'[t]
           n == Len(s) - 1
<1>2. /\ Len(r) = n + Len(F)
      /\ \A i \in 1..n : r[i] = s[i]
      /\ \A i \in n + 1..n + Len(F) : r[i] = F[i - n]
      /\ n \in Nat /\ Len(F) \in Nat /\ Len(s) \in Nat
  <2>1. Move(t, n, F)
    OBVIOUS
  <2> HIDE DEF n
  <2> QED
    BY <1>1, <2>1, MoveFrames
<1>3. ASSUME NEW i \in 1..Len(r)
      PROVE  \/ i \in 1..n /\ r[i] = s[i]
             \/ r[i].do \in Light \cup {"notify"}
  <2> HIDE DEF s, r, n
  <2>1. CASE i \notin 1..n
    <3>1. r[i] = F[i - n] /\ i - n \in 1..Len(F)
      BY <1>2, <2>1
    <3>2. Len(F) = 1 => i - n = 1
      BY <3>1
    <3> QED
      BY <3>1, <3>2
  <2> QED
    BY <1>2, <2>1
<1>4. \A i \in 1..n :
        /\ s[i].do \in {"install", "stopped"} => state' # "running"
        /\ s[i].do = "stopped" =>
             \/ i + 1 < Len(s) /\ s[i + 1].do = "close"
             \/ transport = None \/ ~open'[transport]
        /\ s[i].do = "running" =>
             \/ i + 1 < Len(s) /\ s[i + 1].do = "listen"
             \/ transport # None /\ open'[transport]
  OBVIOUS
<1>5. ASSUME NEW i \in 1..Len(r)
      PROVE  /\ r[i].do \in {"install", "stopped"} => state' # "running"
             /\ r[i].do = "stopped" =>
                  \/ i < Len(r) /\ r[i + 1].do = "close"
                  \/ transport = None \/ ~open'[transport]
             /\ r[i].do = "running" =>
                  \/ i < Len(r) /\ r[i + 1].do = "listen"
                  \/ transport # None /\ open'[transport]
  <2>1. Len(s) = n + 1
    BY <1>2
  <2> HIDE DEF s, r, n
  <2>2. CASE r[i].do \in Light \cup {"notify"}
    BY <2>2 DEF Light
  <2>3. CASE i \in 1..n /\ r[i] = s[i]
    <3>1. i + 1 < Len(s) => i < Len(r) /\ r[i + 1] = s[i + 1]
      BY <1>2, <2>1, <2>3
    <3> QED
      BY <1>4, <2>3, <3>1
  <2> QED
    BY <1>3, <2>2, <2>3
<1>6. \A i \in 1..Len(stack'[t]) : Pending(stack[t], i)'
  BY <1>5 DEF Pending, r
<1>7. Shape(stack[t])'
  BY PopShape
<1> QED
  BY <1>6, <1>7, AppSafe

LEMMA RunsSafe ==
  ASSUME Sequential, IInv, NEW t \in Threads, Runs(t)
  PROVE  IInv'
<1>1. TypeOK /\ TypeOK'
  BY RunsType DEF IInv
<1> DEFINE s == stack[t]
           n == Len(s) - 1
<1>2. CASE Send(t) \/ Rethrow(t) \/ Return(t)
  BY <1>1, <1>2, LightCalls, LightSafe
<1>3. ASSUME stack[t] # <<>>, Top(stack[t]).do \notin Light
      PROVE  /\ t \in Apps /\ Apps = {t} /\ t \notin Workers
             /\ Shape(s) /\ \A i \in 1..Len(s) : Pending(s, i)
             /\ Len(s) \in Nat \ {0} /\ n \in Nat
             /\ Top(s) = s[Len(s)] /\ Len(s) \in 1..Len(s)
  <2>1. t \in Apps
    BY <1>1, <1>3, OneApp DEF About, IInv
  <2>2. Apps = {t} /\ t \notin Workers
    BY <1>1, <2>1, OneApp DEF IInv
  <2>3. stack[t] \in Seq(FrameType)
    BY <1>1 DEF TypeOK
  <2>4. Len(s) \in Nat \ {0} /\ n \in Nat /\ Len(s) \in 1..Len(s)
    BY <1>3, <2>3
  <2> QED
    BY <2>1, <2>2, <2>4 DEF IInv, AppsPending, Top
<1>4. <<>> \in Seq(FrameType) /\ \A i \in 1..Len(<<>>) : <<>>[i].do \in Light
  OBVIOUS
<1>5. ASSUME stack[t] # <<>>, NEW next \in States, Continue(t, next, <<>>)
      PROVE  \E F : /\ Move(t, Len(stack[t]) - 1, F)
                    /\ \A i \in 1..Len(F) : F[i].do \in Light
                    /\ state' = next
  <2>1. <<>> \in Seq(LightFrame)
    OBVIOUS
  <2>2. /\ state' = next
        /\ Move(t, Len(stack[t]) - 1, <<>> \o Changed(next))
        /\ <<>> \o Changed(next) \in Seq(LightFrame)
    BY <1>1, <1>4, <1>5, <2>1, ContinueMoves
  <2> QED
    BY <2>2, LightFrames
<1>6. CASE Running(t)
  <2>1. /\ stack[t] # <<>> /\ Top(stack[t]).do = "running" /\ Top(stack[t]).do \notin Light
        /\ Continue(t, "running", <<>>)
        /\ transport' = transport /\ bound' = bound /\ open' = open /\ armed' = armed
    BY <1>6 DEF Running, About, Light, links
  <2>2. "running" \in States
    BY DEF States
  <2>3. PICK F : /\ Move(t, Len(stack[t]) - 1, F)
                 /\ \A i \in 1..Len(F) : F[i].do \in Light
                 /\ state' = "running"
    BY <1>5, <2>1, <2>2
  <2>4. Len(s) = 1 /\ transport # None /\ open[transport]
    <3>1. Len(s) = 1 /\ s[1].do = "running"
      BY <1>3, <2>1 DEF Shape
    <3>2. Pending(s, 1)
      BY <1>3, <2>1, <3>1
    <3> QED
      BY <3>1, <3>2 DEF Pending
  <2>5. 1..Len(stack[t]) - 1 = {}
    BY <2>4
  <2>6. WorkersLight' /\ AppsPending'
    BY <1>3, <2>1, <2>3, <2>5, PopSafe
  <2>7. Contract' /\ Linked' /\ RunningOpen'
    BY <2>1, <2>4 DEF IInv, Contract, Linked, RunningOpen
  <2> QED
    BY <1>1, <2>6, <2>7 DEF IInv
<1>7. CASE Stopped(t)
  <2>1. /\ stack[t] # <<>> /\ Top(stack[t]).do = "stopped" /\ Top(stack[t]).do \notin Light
        /\ Continue(t, "stopped", <<>>)
        /\ transport' = transport /\ bound' = bound /\ open' = open /\ armed' = armed
    BY <1>7 DEF Stopped, About, Light, links
  <2>2. "stopped" \in States
    BY DEF States
  <2>3. PICK F : /\ Move(t, Len(stack[t]) - 1, F)
                 /\ \A i \in 1..Len(F) : F[i].do \in Light
                 /\ state' = "stopped"
    BY <1>5, <2>1, <2>2
  <2>4. \A i \in 1..Len(stack[t]) - 1 : stack[t][i].do = "install"
    BY <1>3, <2>1 DEF Shape
  <2>5. WorkersLight' /\ AppsPending'
    BY <1>3, <2>1, <2>3, <2>4, PopSafe
  <2>6. Contract' /\ Linked' /\ RunningOpen'
    BY <2>1, <2>3 DEF IInv, Contract, Linked, RunningOpen
  <2> QED
    BY <1>1, <2>5, <2>6 DEF IInv
<1>8. CASE Closed(t)
  <2> DEFINE next == IF On(t) \in bound /\ state # "stopping" THEN "stopped" ELSE state
  <2>1. /\ stack[t] # <<>> /\ Top(stack[t]).do = "notify" /\ Top(stack[t]).do \notin Light
        /\ Continue(t, next, <<>>)
        /\ transport' = transport /\ bound' = bound /\ open' = open /\ armed' = armed
    BY <1>8 DEF Closed, About, Light, links
  <2>2. next \in States
    BY <1>1 DEF States, TypeOK
  <2>3. PICK F : /\ Move(t, Len(stack[t]) - 1, F)
                 /\ \A i \in 1..Len(F) : F[i].do \in Light
                 /\ state' = next
    <3> HIDE DEF next
    <3> QED
      BY <1>5, <2>1, <2>2
  <2>4. ASSUME NEW i \in 1..Len(stack[t]) - 1
        PROVE  /\ stack[t][i].do \in {"install", "stopped"} => state' # "running"
               /\ stack[t][i].do = "stopped" =>
                    \/ i + 1 < Len(stack[t]) /\ stack[t][i + 1].do = "close"
                    \/ transport = None \/ ~open'[transport]
               /\ stack[t][i].do = "running" =>
                    \/ i + 1 < Len(stack[t]) /\ stack[t][i + 1].do = "listen"
                    \/ transport # None /\ open'[transport]
    <3>1. i \in 1..Len(s) /\ i < Len(s) /\ (i + 1 = Len(s) \/ i + 1 < Len(s))
      BY <1>3, <2>1
    <3>2. Pending(s, i)
      BY <1>3, <2>1, <3>1
    <3>3. i + 1 = Len(s) => s[i + 1].do = "notify"
      BY <1>3, <2>1
    <3>4. state = "running" \/ state' # "running"
      BY <2>3
    <3> QED
      BY <2>1, <3>1, <3>2, <3>3, <3>4 DEF Pending
  <2>5. WorkersLight' /\ AppsPending'
    BY <1>3, <2>1, <2>3, <2>4, PopSafe
  <2>6. RunningOpen'
    <3>1. ASSUME state' = "running"
          PROVE  transport # None /\ open[transport]
      <4>1. state = "running" /\ On(t) \notin bound
        BY <2>3, <3>1
      <4>2. transport # None /\ transport \in bound
        BY <4>1 DEF IInv, RunningOpen, Linked
      <4>3. Top(stack[t]) # Frame("notify", transport)
        BY <4>1, <4>2 DEF On, Frame
      <4> QED
        BY <1>3, <2>1, <4>1, <4>2, <4>3 DEF IInv, RunningOpen
    <3> QED
      BY <2>1, <3>1 DEF RunningOpen
  <2>7. Contract' /\ Linked'
    BY <2>1 DEF IInv, Contract, Linked
  <2> QED
    BY <1>1, <2>5, <2>6, <2>7 DEF IInv
<1>9. CASE Install(t)
  <2>1. /\ stack[t] # <<>> /\ Top(stack[t]).do = "install" /\ Top(stack[t]).do \notin Light
        /\ transport' = On(t) /\ Bind(On(t))
        /\ stack' = [stack EXCEPT ![t] = Then(@, <<>>)]
        /\ state' = state /\ open' = open /\ armed' = armed
    BY <1>9 DEF Install, About, Light, links
  <2>2. Len(s) = 1 /\ state # "running"
    <3>1. Len(s) = 1 /\ s[1].do = "install"
      BY <1>3, <2>1 DEF Shape
    <3>2. Pending(s, 1)
      BY <1>3, <2>1, <3>1
    <3> QED
      BY <3>1, <3>2 DEF Pending
  <2>3. Move(t, Len(s) - 1, <<>>)
    BY <1>1, <1>4, <2>1, ThenMoves
  <2>4. Len(stack'[t]) = 0
    <3>1. Move(t, 0, <<>>)
      BY <2>2, <2>3
    <3>2. PICK k, F : Move(t, k, F) /\ k = 0 /\ F = <<>>
      BY <3>1
    <3>3. Len(stack'[t]) = k + Len(F)
      BY <1>1, <3>2, MoveFrames, ZenonT(60)
    <3> QED
      BY <3>2, <3>3
  <2>5. Shape(stack[t])' /\ \A i \in 1..Len(stack'[t]) : Pending(stack[t], i)'
    BY <2>4 DEF Shape
  <2>6. WorkersLight' /\ AppsPending'
    BY <1>3, <2>1, <2>3, <2>5, AppSafe
  <2>7. Contract' /\ Linked' /\ RunningOpen'
    <3>1. On(t) \in Transports \cup {None}
      BY <1>1, <2>1 DEF TypeOK
    <3> QED
      BY <2>1, <2>2, <3>1 DEF IInv, Contract, Linked, RunningOpen, Bind
  <2> QED
    BY <1>1, <2>6, <2>7 DEF IInv
<1>10. CASE Listen(t)
  <2>1. /\ stack[t] # <<>> /\ Top(stack[t]).do = "listen" /\ Top(stack[t]).do \notin Light
        /\ transport' = transport /\ bound' = bound
    BY <1>10 DEF Listen, About, Light
  <2>2. Len(s) = 2 /\ s[1].do = "running" /\ On(t) = transport
    <3>1. /\ Shape(s) /\ Len(s) \in 1..Len(s)
          /\ s[Len(s)].do = "listen" /\ On(t) = s[Len(s)].on
      BY <1>3, <2>1 DEF On
    <3> HIDE DEF s
    <3> QED
      BY <3>1 DEF Shape
  <2>3. On(t) \in Transports
    <3>1. Top(stack[t]) \in FrameType
      BY <1>1, <2>1, BelowType DEF TypeOK
    <3> QED
      BY <2>1, <3>1, FrameTypes DEF On
  <2>4. CASE /\ open' = [open EXCEPT ![On(t)] = TRUE]
             /\ armed' = [armed EXCEPT ![On(t)] = TRUE]
             /\ stack' = [stack EXCEPT ![t] = Then(@, <<>>)]
             /\ UNCHANGED state
    <3>1. transport # None /\ open'[transport] /\ open' \in [Transports -> BOOLEAN]
      BY <1>1, <2>2, <2>3, <2>4, ConstantsAssumption DEF TypeOK, ConstantsAssumption
    <3>2. Move(t, Len(stack[t]) - 1, <<>>)
      BY <1>1, <1>4, <2>1, <2>4, ThenMoves
    <3>3. \A i \in 1..Len(stack[t]) - 1 : stack[t][i].do = "running"
      BY <2>2
    <3>4. WorkersLight' /\ AppsPending'
      BY <1>3, <1>4, <2>1, <3>1, <3>2, <3>3, PopSafe
    <3>5. Contract'
      BY <1>1, <2>3, <2>4 DEF IInv, Contract, TypeOK
    <3>6. Linked' /\ RunningOpen'
      BY <2>1, <3>1 DEF IInv, Linked, RunningOpen
    <3> QED
      BY <1>1, <3>4, <3>5, <3>6 DEF IInv
  <2>5. CASE Throw(t) /\ UNCHANGED links
    <3>1. state' \in {state, "failed"} /\ open' = open /\ armed' = armed
      BY <1>1, <2>5, ThrowMoves DEF links
    <3>2. PICK k \in 0..Len(s), F \in Seq(LightFrame) :
            Move(t, k, F) /\ (k = 0 \/ s[k].do = "callback")
      BY <1>1, <2>5, ThrowMoves
    <3>3. k = 0
      <4>1. s[2].do = "listen"
        BY <1>3, <2>1, <2>2
      <4>2. k \in {0, 1, 2}
        BY <2>2, <3>2
      <4> QED
        BY <2>2, <3>2, <4>1, <4>2
    <3>4. \A i \in 1..Len(F) : F[i].do \in Light
      BY LightFrames
    <3>5. /\ Len(stack'[t]) = k + Len(F) /\ Len(F) \in Nat
          /\ \A i \in k + 1..k + Len(F) : stack'[t][i] = F[i - k]
      BY <1>1, <3>2, MoveFrames
    <3>6. \A i \in 1..Len(stack'[t]) : stack'[t][i].do \in Light
      BY <3>3, <3>4, <3>5
    <3>7. Shape(stack[t])' /\ \A i \in 1..Len(stack'[t]) : Pending(stack[t], i)'
      BY <3>6 DEF Shape, Pending, Light
    <3>8. WorkersLight' /\ AppsPending'
      BY <1>3, <2>1, <3>2, <3>7, AppSafe
    <3>9. Contract' /\ Linked'
      BY <2>1, <3>1 DEF IInv, Contract, Linked
    <3>10. RunningOpen'
      <4>1. Top(stack[t]) # Frame("notify", transport)
        BY <2>1 DEF Frame
      <4> QED
        BY <1>3, <2>1, <3>1, <4>1 DEF IInv, RunningOpen
    <3> QED
      BY <1>1, <3>8, <3>9, <3>10 DEF IInv
  <2> QED
    BY <1>10, <2>4, <2>5 DEF Listen
<1>11. CASE Close(t)
  <2>1. /\ stack[t] # <<>> /\ Top(stack[t]).do = "close" /\ Top(stack[t]).do \notin Light
        /\ transport' = transport /\ bound' = bound /\ state' = state
    BY <1>11 DEF Close, About, Light
  <2>2. /\ n \in Nat /\ Len(s) = n + 1 /\ s[n + 1].do = "close"
        /\ n > 0 => /\ s[n].do = "stopped" /\ On(t) = None /\ Closing(t) = transport
                    /\ n = 1 \/ (n = 2 /\ s[1].do = "install")
    <3>1. Len(s) = n + 1 /\ n \in Nat /\ s[n + 1] = Top(s)
      BY <1>3, <2>1
    <3>2. ASSUME n > 0
          PROVE  s[n].do = "stopped" /\ On(t) = None
      <4>1. Len(s) \in 1..Len(s) /\ Len(s) # 1 /\ Len(s) - 1 = n
        BY <3>1, <3>2
      <4> QED
        BY <1>3, <2>1, <4>1 DEF Shape, On
    <3>3. n > 0 => n = 1 \/ (n = 2 /\ s[1].do = "install")
      <4>1. n > 0 => n \in 1..Len(s)
        BY <3>1
      <4> QED
        BY <1>3, <2>1, <3>2, <4>1 DEF Shape
    <3> QED
      BY <2>1, <3>1, <3>2, <3>3 DEF Closing
  <2>3. \A i \in 1..n : s[i].do \in {"stopped", "install"} /\ Closing(t) = transport /\ state # "running"
    <3>1. ASSUME NEW i \in 1..n
          PROVE  s[i].do \in {"stopped", "install"} /\ Closing(t) = transport
      BY <2>2, <3>1
    <3>2. \A i \in 1..n : i \in 1..Len(s)
      BY <2>2
    <3> QED
      BY <1>3, <2>1, <3>1, <3>2 DEF Pending
  <2>4. RunningOpen /\ (state = "running" => open[transport])
    <3>1. Top(stack[t]) # Frame("notify", transport)
      BY <2>1 DEF Frame
    <3> QED
      BY <1>3, <2>1, <3>1 DEF IInv, RunningOpen
  <2>5. Closing(t) \in Transports \cup {None}
    <3>1. Top(stack[t]) \in FrameType
      BY <1>1, <2>1, BelowType DEF TypeOK
    <3> QED
      BY <1>1, <3>1, FrameTypes DEF Closing, On, TypeOK
  <2>6. CASE Closing(t) # None /\ armed[Closing(t)]
    <3> DEFINE x == Closing(t)
               F == <<Frame("notify", x)>>
    <3>1. /\ open' = [open EXCEPT ![x] = FALSE]
          /\ armed' = [armed EXCEPT ![x] = FALSE]
          /\ stack' = [stack EXCEPT ![t] = Then(@, F)]
      BY <1>11, <2>6 DEF Close
    <3>2. x \in Transports /\ ~open'[x] /\ \A y \in Transports \ {x} : open'[y] = open[y]
      BY <1>1, <2>5, <2>6, <3>1 DEF TypeOK
    <3>3. F \in Seq(FrameType) /\ Len(F) = 1 /\ F[1].do = "notify"
      BY <3>2, FrameTypes DEF Doing, Frame
    <3>4. Move(t, Len(stack[t]) - 1, F)
      BY <1>1, <2>1, <3>1, <3>3, ThenMoves
    <3>5. WorkersLight' /\ AppsPending'
      BY <1>3, <2>1, <2>3, <3>2, <3>3, <3>4, PopSafe
    <3>6. Contract'
      BY <1>1, <3>1, <3>2 DEF IInv, Contract, TypeOK
    <3>7. RunningOpen'
      <4>1. ASSUME state' = "running", x = transport
            PROVE  stack'[t] # <<>> /\ Top(stack'[t]) = Frame("notify", transport)
        <5>1. /\ Len(stack'[t]) = n + Len(F)
              /\ \A i \in n + 1..n + Len(F) : stack'[t][i] = F[i - n]
          <6>1. Move(t, n, F)
            BY <3>4
          <6> HIDE DEF n, F
          <6> QED
            BY <1>1, <6>1, MoveFrames
        <5>2. Len(stack'[t]) = n + 1 /\ n + 1 - n = 1
          BY <2>2, <3>3, <5>1
        <5>3. stack'[t][n + 1] = F[1]
          <6>1. n + 1 \in n + 1..n + Len(F) /\ n \in Nat
            BY <2>2, <3>3
          <6> HIDE DEF n, F
          <6>2. PICK m \in n + 1..n + Len(F) : m = n + 1
            BY <6>1
          <6>3. stack'[t][m] = F[m - n]
            BY <5>1
          <6>4. m - n = 1
            BY <6>1, <6>2
          <6> QED
            BY <6>2, <6>3, <6>4
        <5>4. stack'[t] # <<>>
          BY <2>2, <5>2
        <5> QED
          BY <4>1, <5>2, <5>3, <5>4 DEF Top
      <4>2. state' = "running" => transport # None /\ transport \in Transports
        BY <1>1, <2>1, <2>4 DEF RunningOpen, TypeOK
      <4> QED
        BY <1>3, <2>1, <2>4, <3>2, <4>1, <4>2 DEF RunningOpen
    <3>8. Linked'
      BY <2>1 DEF IInv, Linked
    <3> QED
      BY <1>1, <3>5, <3>6, <3>7, <3>8 DEF IInv
  <2>7. CASE ~(Closing(t) # None /\ armed[Closing(t)])
    <3>1. stack' = [stack EXCEPT ![t] = Then(@, <<>>)] /\ open' = open /\ armed' = armed
      BY <1>11, <2>7 DEF Close
    <3>2. Move(t, Len(stack[t]) - 1, <<>>)
      BY <1>1, <1>4, <2>1, <3>1, ThenMoves
    <3>3. \A i \in 1..n : transport = None \/ ~open[transport]
      BY <1>1, <2>3, <2>7 DEF IInv, Contract, TypeOK
    <3>4. WorkersLight' /\ AppsPending'
      BY <1>3, <1>4, <2>1, <2>3, <3>1, <3>2, <3>3, PopSafe
    <3>5. Contract' /\ Linked' /\ RunningOpen'
      BY <2>1, <2>4, <3>1 DEF IInv, Contract, Linked, RunningOpen
    <3> QED
      BY <1>1, <3>4, <3>5 DEF IInv
  <2> QED
    BY <2>6, <2>7
<1> QED
  BY <1>2, <1>6, <1>7, <1>8, <1>9, <1>10, <1>11 DEF Runs

LEMMA InitSafe == ASSUME Init PROVE IInv
<1>1. TypeOK
  BY InitType
<1>2. \A t \in Threads : stack[t] = <<>> /\ 1..Len(stack[t]) = {}
  BY DEF Init
<1>3. WorkersLight /\ AppsPending
  BY <1>2 DEF WorkersLight, AppsPending, Shape, Threads
<1>4. Contract /\ Linked /\ RunningOpen
  BY DEF Init, Contract, Linked, RunningOpen
<1> QED
  BY <1>1, <1>3, <1>4 DEF IInv

\* Next is split as the code is: the calls of the application, what they go on
\* to do, and the handlers that the transports call.
LEMMA StepSafe == ASSUME Sequential, IInv, [Next]_vars PROVE IInv'
<1>1. CASE UNCHANGED vars
  <2>1. TypeOK' /\ Contract' /\ Linked'
    BY <1>1 DEF IInv, vars, links, TypeOK, Contract, Linked
  <2>2. WorkersLight' /\ AppsPending' /\ RunningOpen'
    BY <1>1 DEF IInv, vars, links, WorkersLight, AppsPending, Shape, Pending, RunningOpen
  <2> QED
    BY <2>1, <2>2 DEF IInv
<1>2. ASSUME NEW t \in Threads, Calls(t)
      PROVE  IInv'
  BY <1>2, CallsSafe
<1>3. ASSUME NEW t \in Threads, Runs(t)
      PROVE  IInv'
  BY <1>3, RunsSafe
<1>4. ASSUME NEW w \in Workers, Message(w) \/ Error(w)
      PROVE  IInv'
  <2>1. w \in Threads /\ TypeOK
    BY DEF Threads, IInv
  <2> QED
    BY <1>4, <2>1, LightHandlers, LightSafe
<1> QED
  BY <1>1, <1>2, <1>3, <1>4 DEF Next

\* With one application thread whose callbacks only notify, a server that says
\* it is running, while the application is not inside a call, has an open
\* transport, whatever the handlers report meanwhile (Server::is_running).
THEOREM RunningTruly == Sequential => (Spec => []RunningIsActive)
<1> SUFFICES ASSUME Sequential
             PROVE  Spec => []RunningIsActive
  OBVIOUS
<1>1. ASSUME IInv
      PROVE  RunningIsActive
  BY <1>1 DEF IInv, RunningOpen, RunningIsActive, AtRest
<1>2. Sequential
  OBVIOUS
<1>3. Init => IInv
  BY InitSafe
<1>4. IInv /\ [Next]_vars => IInv'
  BY <1>2, StepSafe
<1>5. IInv => RunningIsActive
  BY <1>1
<1> QED
  BY <1>3, <1>4, <1>5, PTL DEF Spec

\* In the same programs the transport that stop leaves installed is closed,
\* though errors change the state while stop runs (Server::stop).
THEOREM StopTrulyCloses == Sequential => (Spec => StopCloses)
<1> SUFFICES ASSUME Sequential
             PROVE  Spec => StopCloses
  OBVIOUS
<1>1. Sequential
  OBVIOUS
<1>2. ASSUME IInv, NEW t \in Threads, Stopped(t)
      PROVE  transport = None \/ ~open[transport]
  <2>1. TypeOK /\ stack[t] # <<>> /\ stack[t] \in Seq(FrameType) /\ Top(stack[t]).do = "stopped"
    BY <1>2 DEF IInv, TypeOK, Stopped, About
  <2>2. t \in Apps
    BY <1>1, <1>2, <2>1, OneApp DEF IInv, About, Light
  <2>3. Len(stack[t]) \in 1..Len(stack[t]) /\ stack[t][Len(stack[t])].do = "stopped"
    BY <2>1 DEF Top
  <2>4. Pending(stack[t], Len(stack[t]))
    BY <1>2, <2>2, <2>3 DEF IInv, AppsPending
  <2> QED
    BY <2>1, <2>3, <2>4 DEF Pending
<1>3. Init => IInv
  BY InitSafe
<1>4. IInv /\ [Next]_vars => IInv'
  BY <1>1, StepSafe
<1>5. IInv => [\A t \in Threads : Stopped(t) => transport = None \/ ~open[transport]]_vars
  BY <1>2
<1> QED
  BY <1>3, <1>4, <1>5, PTL DEF Spec, StopCloses
=============================================================================
