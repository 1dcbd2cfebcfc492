------------------------ MODULE HttpsTransportProofs ------------------------
(***************************************************************************)
(* Proofs about HttpsTransport, for any number of threads, sends and       *)
(* messages and stacks of any depth.  The invariant says of the stack of   *)
(* each thread what the properties rest on: that it accounts for every     *)
(* handle not yet freed, and that a close that has not yet called the      *)
(* close handler is the innermost call of its thread.                      *)
(***************************************************************************)
EXTENDS HttpsTransport, FiniteSetTheorems, SequenceTheorems, TLAPS
-----------------------------------------------------------------------------
(* What the operators of Frames do to a stack *)

\* The stack below the innermost frame.
Below(s) == SubSeq(s, 1, Len(s) - 1)

LEMMA PushType ==
  ASSUME NEW S, NEW s \in Seq(S), NEW e \in S
  PROVE  /\ Append(s, e) \in Seq(S)
         /\ Append(s, e) # <<>>
         /\ Len(Append(s, e)) = Len(s) + 1
         /\ Top(Append(s, e)) = e
         /\ \A i \in 1..Len(s) : Append(s, e)[i] = s[i]
  BY DEF Top

LEMMA BelowType ==
  ASSUME NEW S, NEW s \in Seq(S), s # <<>>
  PROVE  /\ Len(s) \in Nat \ {0}
         /\ Top(s) \in S
         /\ Below(s) \in Seq(S)
         /\ Len(Below(s)) = Len(s) - 1
         /\ \A i \in 1..Len(s) - 1 : Below(s)[i] = s[i]
<1>1. Len(s) \in Nat \ {0}
  OBVIOUS
<1>2. Top(s) \in S
  BY <1>1 DEF Top
<1> DEFINE n == Len(s) - 1
<1>3. n \in Nat /\ \A i \in 1..n : s[i] \in S
  BY <1>1
<1> HIDE DEF n
<1>4. /\ SubSeq(s, 1, n) \in Seq(S)
      /\ Len(SubSeq(s, 1, n)) = n
      /\ \A i \in 1..n : SubSeq(s, 1, n)[i] = s[i]
  <2>1. 1 \in Int /\ n \in Int
    BY <1>3
  <2>2. /\ SubSeq(s, 1, n) \in Seq(S)
        /\ Len(SubSeq(s, 1, n)) = IF 1 <= n THEN n - 1 + 1 ELSE 0
        /\ \A i \in 1..n - 1 + 1 : SubSeq(s, 1, n)[i] = s[1 + i - 1]
    BY <1>3, <2>1, SubSeqProperties
  <2> QED
    BY <1>3, <2>2
<1> QED
  BY <1>1, <1>2, <1>4 DEF Below, n

\* Then replaces the innermost frame by at most two others.
LEMMA ThenPushes ==
  ASSUME NEW S, NEW s \in Seq(S), s # <<>>, NEW e \in S, NEW f \in S
  PROVE  /\ Then(s, <<>>) = Below(s)
         /\ Then(s, <<e>>) = Append(Below(s), e)
         /\ Then(s, <<e, f>>) = Append(Append(Below(s), e), f)
<1>1. Below(s) \in Seq(S)
  BY BelowType
<1>2. /\ Below(s) \o <<>> = Below(s)
      /\ Below(s) \o <<e>> = Append(Below(s), e)
      /\ Below(s) \o <<e, f>> = Append(Append(Below(s), e), f)
  BY <1>1
<1> QED
  BY <1>2 DEF Then, Below

\* The number of frames that do one of some things.
Doers(s, D) == {i \in 1..Len(s) : s[i].do \in D}
Count(s, D) == Cardinality(Doers(s, D))

LEMMA CountType ==
  ASSUME NEW S, NEW s \in Seq(S), NEW D
  PROVE  IsFiniteSet(Doers(s, D)) /\ Count(s, D) \in Nat
<1>1. Len(s) \in Nat
  OBVIOUS
<1>2. IsFiniteSet(1..Len(s))
  BY <1>1, FS_Interval
<1>3. Doers(s, D) \in SUBSET (1..Len(s))
  BY DEF Doers
<1> QED
  BY <1>2, <1>3, FS_Subset, FS_CardinalityType DEF Count

LEMMA CountPush ==
  ASSUME NEW S, NEW s \in Seq(S), NEW e \in S, NEW D
  PROVE  Count(Append(s, e), D) = Count(s, D) + (IF e.do \in D THEN 1 ELSE 0)
<1> DEFINE n == Len(s) + 1
<1>1. n \in Nat /\ n \notin Doers(s, D)
  BY DEF Doers
<1>2. \A i \in 1..n : i \in Doers(Append(s, e), D) <=>
                        i \in Doers(s, D) \/ (i = n /\ e.do \in D)
  BY PushType DEF Doers, Top
<1>3. Doers(Append(s, e), D) \subseteq 1..n /\ Doers(s, D) \subseteq 1..n
  BY PushType DEF Doers
<1>4. IsFiniteSet(Doers(s, D)) /\ Count(s, D) \in Nat
  BY CountType
<1>5. n \in 1..n
  BY <1>1
<1> DEFINE A == Doers(Append(s, e), D)
           B == Doers(s, D)
<1> HIDE DEF n, A, B
<1>6. CASE e.do \in D
  <2>1. A = B \cup {n}
    BY <1>2, <1>3, <1>5, <1>6 DEF A, B
  <2>2. Cardinality(A) = Cardinality(B) + 1
    BY <1>1, <1>4, <2>1, FS_AddElement DEF B
  <2> QED
    BY <2>2, <1>4, <1>6 DEF Count, A, B
<1>7. CASE e.do \notin D
  <2>1. A = B
    BY <1>2, <1>3, <1>7 DEF A, B
  <2> QED
    BY <2>1, <1>4, <1>7 DEF Count, A, B
<1> QED
  BY <1>6, <1>7

LEMMA CountBelow ==
  ASSUME NEW S, NEW s \in Seq(S), s # <<>>, NEW D
  PROVE  Count(Below(s), D) = Count(s, D) - (IF Top(s).do \in D THEN 1 ELSE 0)
<1>1. Below(s) \in Seq(S) /\ Top(s) \in S
  BY BelowType
<1>2. s = Append(Below(s), Top(s))
  BY DEF Below, Top
<1>3. Count(Append(Below(s), Top(s)), D) =
        Count(Below(s), D) + (IF Top(s).do \in D THEN 1 ELSE 0)
  BY <1>1, CountPush
<1>4. Count(Append(Below(s), Top(s)), D) = Count(s, D)
  BY <1>2
<1>5. Count(Below(s), D) \in Nat
  BY <1>1, CountType
<1> QED
  BY <1>3, <1>4, <1>5
-----------------------------------------------------------------------------
Held(e) == IF e.do \in Holding THEN 1 ELSE 0

\* The stack s of a thread that has h handles.
Accounted(s, h) ==
  /\ s \in Seq(FrameType)
  /\ h = Count(s, Holding)
  /\ \A i \in 1..Len(s) - 1 : s[i].do # "notify"

StackInv == \A t \in Threads : Accounted(stack[t], handles[t])
OpenInv == active => ~close_notified
IInv == TypeOK /\ StackInv /\ OpenInv

LEMMA BoundsType == MaxSends \in Nat /\ MaxMessages \in Nat /\ None \notin Nat
  BY ConstantsAssumption DEF ConstantsAssumption

LEMMA FrameTypes ==
  /\ \A do \in Doing \ {"deliver"} : Frame(do, None) \in FrameType /\ Frame(do, None).do = do
  /\ \A n \in 0..MaxMessages :
       Frame("deliver", n) \in FrameType /\ Frame("deliver", n).do = "deliver"
  BY DEF Frame, FrameType

(***************************************************************************)
(* What a call and a step of a function make of a stack.                   *)
(***************************************************************************)

LEMMA AccountedPush ==
  ASSUME NEW s, NEW h, Accounted(s, h), NEW e \in FrameType,
         s # <<>> => Top(s).do # "notify"
  PROVE  Accounted(Append(s, e), h + Held(e)) /\ Top(Append(s, e)) = e
<1>1. /\ s \in Seq(FrameType)
      /\ h = Count(s, Holding)
      /\ \A i \in 1..Len(s) - 1 : s[i].do # "notify"
  BY DEF Accounted
<1>2. /\ Append(s, e) \in Seq(FrameType)
      /\ Len(Append(s, e)) = Len(s) + 1
      /\ Top(Append(s, e)) = e
      /\ \A i \in 1..Len(s) : Append(s, e)[i] = s[i]
  BY <1>1, PushType
<1>3. Count(Append(s, e), Holding) = h + Held(e)
  BY <1>1, CountPush DEF Held
<1>4. \A i \in 1..Len(s) : s[i].do # "notify"
  BY <1>1 DEF Top
<1>5. Len(s) \in Nat
  BY <1>1
<1>6. \A i \in 1..Len(Append(s, e)) - 1 : Append(s, e)[i].do # "notify"
  BY <1>2, <1>4, <1>5
<1> QED
  BY <1>2, <1>3, <1>6 DEF Accounted

LEMMA AccountedBelow ==
  ASSUME NEW s, NEW h, Accounted(s, h), s # <<>>
  PROVE  /\ Accounted(Below(s), h - Held(Top(s)))
         /\ Below(s) # <<>> => Top(Below(s)).do # "notify"
         /\ h \in Nat /\ Top(s) \in FrameType
<1>1. /\ s \in Seq(FrameType)
      /\ h = Count(s, Holding)
      /\ \A i \in 1..Len(s) - 1 : s[i].do # "notify"
  BY DEF Accounted
<1>2. /\ Len(s) \in Nat \ {0}
      /\ Top(s) \in FrameType
      /\ Below(s) \in Seq(FrameType)
      /\ Len(Below(s)) = Len(s) - 1
      /\ \A i \in 1..Len(s) - 1 : Below(s)[i] = s[i]
  BY <1>1, BelowType
<1>3. Count(Below(s), Holding) = h - Held(Top(s))
  BY <1>1, CountBelow DEF Held
<1>4. h \in Nat
  BY <1>1, CountType
<1>5. \A i \in 1..Len(Below(s)) : Below(s)[i].do # "notify"
  BY <1>1, <1>2
<1>6. Below(s) # <<>> => Len(Below(s)) \in 1..Len(Below(s))
  BY <1>2
<1> QED
  BY <1>2, <1>3, <1>4, <1>5, <1>6 DEF Accounted, Top

LEMMA AccountedThen ==
  ASSUME NEW s, NEW h, Accounted(s, h), s # <<>>, NEW e \in FrameType, NEW f \in FrameType
  PROVE  /\ Accounted(Then(s, <<>>), h - Held(Top(s)))
         /\ Then(s, <<>>) # <<>> => Top(Then(s, <<>>)).do # "notify"
         /\ Accounted(Then(s, <<e>>), h - Held(Top(s)) + Held(e))
         /\ Top(Then(s, <<e>>)) = e
         /\ e.do # "notify" =>
              /\ Accounted(Then(s, <<e, f>>), h - Held(Top(s)) + Held(e) + Held(f))
              /\ Top(Then(s, <<e, f>>)) = f
<1>1. s \in Seq(FrameType)
  BY DEF Accounted
<1>2. /\ Then(s, <<>>) = Below(s)
      /\ Then(s, <<e>>) = Append(Below(s), e)
      /\ Then(s, <<e, f>>) = Append(Append(Below(s), e), f)
  BY <1>1, ThenPushes
<1>3. /\ Accounted(Below(s), h - Held(Top(s)))
      /\ Below(s) # <<>> => Top(Below(s)).do # "notify"
  BY AccountedBelow
<1>4. /\ Accounted(Append(Below(s), e), h - Held(Top(s)) + Held(e))
      /\ Top(Append(Below(s), e)) = e
  BY <1>3, AccountedPush
<1>5. ASSUME e.do # "notify"
      PROVE  /\ Accounted(Append(Append(Below(s), e), f), h - Held(Top(s)) + Held(e) + Held(f))
             /\ Top(Append(Append(Below(s), e), f)) = f
  BY <1>4, <1>5, AccountedPush
<1> QED
  BY <1>2, <1>3, <1>4, <1>5

(***************************************************************************)
(* The steps of the function that runs on a thread.                        *)
(***************************************************************************)

\* Thread t goes on with the stack s and h handles, and owes no notification.
Moves(t, s, h) ==
  /\ stack' = [stack EXCEPT ![t] = s]
  /\ handles' = [handles EXCEPT ![t] = h]
  /\ Accounted(s, h)
  /\ s # <<>> => Top(s).do # "notify"

LEMMA Runnable ==
  ASSUME TypeOK, StackInv, NEW t \in Threads, stack[t] # <<>>
  PROVE  /\ Accounted(stack[t], handles[t])
         /\ handles[t] \in Nat
         /\ Top(stack[t]) \in FrameType
         /\ handles = [handles EXCEPT ![t] = handles[t]]
<1>1. Accounted(stack[t], handles[t])
  BY DEF StackInv
<1> QED
  BY <1>1, AccountedBelow DEF TypeOK

\* The innermost frame is replaced; the handles change as the frames do.
LEMMA ContinueMoves ==
  ASSUME TypeOK, StackInv, NEW t \in Threads, stack[t] # <<>>,
         NEW e \in FrameType, NEW f \in FrameType, e.do # "notify", f.do # "notify",
         NEW h, handles' = [handles EXCEPT ![t] = h]
  PROVE  /\ Continue(t, <<>>) /\ h = handles[t] - Held(Top(stack[t]))
              => \E s : Moves(t, s, h)
         /\ Continue(t, <<e>>) /\ h = handles[t] - Held(Top(stack[t])) + Held(e)
              => \E s : Moves(t, s, h)
         /\ Continue(t, <<e, f>>) /\ h = handles[t] - Held(Top(stack[t])) + Held(e) + Held(f)
              => \E s : Moves(t, s, h)
<1>1. Accounted(stack[t], handles[t])
  BY Runnable
<1>2. /\ Accounted(Then(stack[t], <<>>), handles[t] - Held(Top(stack[t])))
      /\ Then(stack[t], <<>>) # <<>> => Top(Then(stack[t], <<>>)).do # "notify"
      /\ Accounted(Then(stack[t], <<e>>), handles[t] - Held(Top(stack[t])) + Held(e))
      /\ Top(Then(stack[t], <<e>>)) = e
      /\ Accounted(Then(stack[t], <<e, f>>),
                   handles[t] - Held(Top(stack[t])) + Held(e) + Held(f))
      /\ Top(Then(stack[t], <<e, f>>)) = f
  BY <1>1, AccountedThen
<1>3. ASSUME NEW frames, Continue(t, frames)
      PROVE  stack' = [stack EXCEPT ![t] = Then(stack[t], frames)]
  BY <1>3 DEF Continue
<1> QED
  BY <1>2, <1>3 DEF Moves

\* The same, of a function that keeps the handles it has.
LEMMA KeepMoves ==
  ASSUME TypeOK, StackInv, NEW t \in Threads, stack[t] # <<>>, UNCHANGED handles,
         NEW e \in FrameType, NEW f \in FrameType, e.do # "notify", f.do # "notify",
         Held(e) = Held(Top(stack[t])), Held(f) = 0
  PROVE  /\ Continue(t, <<e>>) => \E s, h : Moves(t, s, h)
         /\ Continue(t, <<e, f>>) => \E s, h : Moves(t, s, h)
         /\ Continue(t, <<>>) /\ Held(e) = 0 => \E s, h : Moves(t, s, h)
<1> DEFINE h == handles[t]
           x == Held(Top(stack[t]))
<1>1. handles' = [handles EXCEPT ![t] = h] /\ h \in Nat
  BY Runnable
<1>2. x \in {0, 1}
  BY DEF Held
<1>3. h = h - x + Held(e) /\ h = h - x + Held(e) + Held(f) /\ (Held(e) = 0 => h = h - x)
  BY <1>1, <1>2
<1> HIDE DEF h
<1>4. /\ Continue(t, <<e>>) => \E s : Moves(t, s, h)
      /\ Continue(t, <<e, f>>) => \E s : Moves(t, s, h)
      /\ Continue(t, <<>>) /\ Held(e) = 0 => \E s : Moves(t, s, h)
  BY <1>1, <1>3, ContinueMoves DEF h
<1> QED
  BY <1>4

LEMMA FailMoves ==
  ASSUME TypeOK, StackInv, NEW t \in Threads, stack[t] # <<>>, UNCHANGED handles,
         NEW next \in {"throw", "cleanup_throw"}, Fail(t, next),
         Held(Top(stack[t])) = IF next = "throw" THEN 0 ELSE 1
  PROVE  \E s, h : Moves(t, s, h)
<1> DEFINE e == Frame(next, None)
           f == Frame("callback", None)
<1>1. /\ e \in FrameType /\ f \in FrameType
      /\ e.do # "notify" /\ f.do # "notify"
      /\ Held(e) = Held(Top(stack[t])) /\ Held(f) = 0
  BY FrameTypes DEF Doing, Holding, Held
<1>2. Continue(t, <<e>>) \/ Continue(t, <<e, f>>)
  BY DEF Fail
<1> HIDE DEF e, f
<1> QED
  BY <1>1, <1>2, KeepMoves

LEMMA NotifyMoves ==
  ASSUME TypeOK, StackInv, NEW t \in Threads, Notify(t)
  PROVE  \E s, h : Moves(t, s, h)
<1> DEFINE e == Frame("callback", None)
<1>1. stack[t] # <<>> /\ Held(Top(stack[t])) = 0 /\ UNCHANGED handles
  BY DEF Notify, About, Held, Holding
<1>2. e \in FrameType /\ e.do # "notify" /\ Held(e) = 0
  BY FrameTypes DEF Doing, Held, Holding
<1>3. Continue(t, <<e>>) \/ Continue(t, <<>>)
  BY DEF Notify
<1> HIDE DEF e
<1> QED
  BY <1>1, <1>2, <1>3, KeepMoves

LEMMA EasyInitMoves ==
  ASSUME TypeOK, StackInv, NEW t \in Threads, EasyInit(t)
  PROVE  \E s, h : Moves(t, s, h)
<1> DEFINE e == Frame("perform", None)
<1>1. stack[t] # <<>> /\ Held(Top(stack[t])) = 0
  BY DEF EasyInit, About, Held, Holding
<1>2. e \in FrameType /\ e.do # "notify" /\ Held(e) = 1
  BY FrameTypes DEF Doing, Held, Holding
<1> HIDE DEF e
<1>3. CASE Continue(t, <<e>>) /\ handles' = [handles EXCEPT ![t] = @ + 1]
  <2> DEFINE h == handles[t] + 1
  <2>1. h = handles[t] - Held(Top(stack[t])) + Held(e) /\ handles' = [handles EXCEPT ![t] = h]
    BY <1>1, <1>2, <1>3, Runnable
  <2> HIDE DEF h
  <2> QED
    BY <1>1, <1>2, <1>3, <2>1, ContinueMoves
<1>4. CASE Fail(t, "throw") /\ UNCHANGED handles
  BY <1>1, <1>4, FailMoves
<1> QED
  BY <1>3, <1>4 DEF EasyInit, e

LEMMA PerformMoves ==
  ASSUME TypeOK, StackInv, NEW t \in Threads, Perform(t) \/ Lookup(t) \/ Deliver(t)
  PROVE  \E s, h : Moves(t, s, h)
<1>1. stack[t] # <<>> /\ Held(Top(stack[t])) = 1 /\ UNCHANGED handles
  BY DEF Perform, Lookup, Deliver, About, Held, Holding
<1>2. CASE Fail(t, "cleanup_throw")
  BY <1>1, <1>2, FailMoves
<1>3. ASSUME NEW e \in FrameType, e.do \in {"lookup", "cleanup", "deliver"},
             \/ Continue(t, <<e>>)
             \/ Continue(t, <<e, Frame("callback", None)>>)
      PROVE  \E s, h : Moves(t, s, h)
  <2> DEFINE f == Frame("callback", None)
  <2>1. f \in FrameType /\ f.do # "notify" /\ Held(f) = 0
    BY FrameTypes DEF Doing, Held, Holding
  <2>2. e.do # "notify" /\ Held(e) = 1
    BY <1>3 DEF Held, Holding
  <2> HIDE DEF f
  <2> QED
    BY <1>1, <1>3, <2>1, <2>2, KeepMoves DEF f
<1>4. CASE Perform(t)
  BY <1>2, <1>3, <1>4, FrameTypes DEF Perform, Doing
<1>5. CASE Lookup(t)
  BY <1>2, <1>3, <1>5, FrameTypes DEF Lookup, Doing
<1>6. CASE Deliver(t)
  <2>1. Top(stack[t]).do = "deliver" /\ Top(stack[t]) \in FrameType
    BY <1>1, <1>6, Runnable DEF Deliver, About
  <2>2. Top(stack[t]).on \in 0..MaxMessages
    BY <2>1 DEF FrameType
  <2>3. CASE Top(stack[t]).on = 0
    BY <1>3, <1>6, <2>3, FrameTypes DEF Deliver, Doing
  <2>4. CASE Top(stack[t]).on # 0
    <3>1. Top(stack[t]).on - 1 \in 0..MaxMessages
      BY <2>2, <2>4, BoundsType
    <3> QED
      BY <1>3, <1>6, <2>4, <3>1, FrameTypes DEF Deliver
  <2> QED
    BY <2>3, <2>4
<1> QED
  BY <1>4, <1>5, <1>6

LEMMA CleanupMoves ==
  ASSUME TypeOK, StackInv, NEW t \in Threads, Cleanup(t) \/ CleanupThrow(t) \/ Throw(t)
  PROVE  \E s, h : Moves(t, s, h)
<1> DEFINE e == Frame("throw", None)
<1>1. e \in FrameType /\ e.do # "notify" /\ Held(e) = 0
  BY FrameTypes DEF Doing, Held, Holding
<1> HIDE DEF e
<1>2. CASE Throw(t)
  <2>1. stack[t] # <<>> /\ Held(Top(stack[t])) = 0 /\ UNCHANGED handles /\ Continue(t, <<>>)
    BY <1>2 DEF Throw, About, Held, Holding
  <2> QED
    BY <1>1, <2>1, KeepMoves
<1>3. CASE Cleanup(t) \/ CleanupThrow(t)
  <2> DEFINE h == handles[t] - 1
  <2>1. /\ stack[t] # <<>> /\ Held(Top(stack[t])) = 1
        /\ handles' = [handles EXCEPT ![t] = h]
        /\ Continue(t, <<>>) \/ Continue(t, <<e>>)
    BY <1>3 DEF Cleanup, CleanupThrow, About, Held, Holding, e
  <2>2. h = handles[t] - Held(Top(stack[t]))
        /\ h = handles[t] - Held(Top(stack[t])) + Held(e)
    BY <1>1, <2>1, Runnable
  <2> HIDE DEF h
  <2> QED
    BY <1>1, <2>1, <2>2, ContinueMoves
<1> QED
  BY <1>2, <1>3

LEMMA ReturnMoves ==
  ASSUME TypeOK, StackInv, NEW t \in Threads, Return(t)
  PROVE  \E s, h : Moves(t, s, h)
<1> DEFINE below == Then(stack[t], <<>>)
           h == handles[t]
           e == Frame(IF Top(below).do \in Holding THEN "cleanup_throw" ELSE "throw", None)
<1>1. /\ stack[t] # <<>> /\ Held(Top(stack[t])) = 0
      /\ h \in Nat /\ handles' = [handles EXCEPT ![t] = h]
  BY Runnable DEF Return, About, Held, Holding
<1>2. h - Held(Top(stack[t])) = h
  BY <1>1
<1>3. e \in FrameType /\ e.do # "notify" /\ Held(e) = Held(Top(below))
  BY FrameTypes DEF Doing, Held, Holding
<1>4. Accounted(below, h) /\ (below # <<>> => Top(below).do # "notify")
  <2> HIDE DEF e
  <2>1. /\ Accounted(below, h - Held(Top(stack[t])))
        /\ below # <<>> => Top(below).do # "notify"
    BY <1>1, <1>3, Runnable, AccountedThen
  <2> HIDE DEF h, below
  <2> QED
    BY <1>2, <2>1
<1> HIDE DEF h, below, e
<1>5. CASE stack' = [stack EXCEPT ![t] = below]
  BY <1>1, <1>4, <1>5 DEF Moves
<1>6. CASE below # <<>> /\ stack' = [stack EXCEPT ![t] = Then(below, <<e>>)]
  <2>1. Held(Top(below)) \in {0, 1}
    BY DEF Held
  <2>2. h - Held(Top(below)) + Held(e) = h
    BY <1>1, <1>3, <2>1
  <2>3. /\ Accounted(Then(below, <<e>>), h - Held(Top(below)) + Held(e))
        /\ Top(Then(below, <<e>>)) = e
    BY <1>3, <1>4, <1>6, AccountedThen
  <2> QED
    BY <1>1, <1>3, <1>6, <2>2, <2>3 DEF Moves
<1> QED
  BY <1>5, <1>6 DEF Return, below, e

LEMMA RunMoves ==
  ASSUME TypeOK, StackInv, NEW t \in Threads, Runs(t)
  PROVE  /\ \E s, h : Moves(t, s, h)
         /\ UNCHANGED <<active, close_notified, handlers, sends>>
<1>1. \E s, h : Moves(t, s, h)
  BY NotifyMoves, EasyInitMoves, PerformMoves, CleanupMoves, ReturnMoves DEF Runs
<1>2. UNCHANGED <<active, close_notified, handlers, sends>>
  BY DEF Runs, Notify, EasyInit, Perform, Lookup, Deliver, Cleanup, CleanupThrow, Throw,
     Return, state
<1> QED
  BY <1>1, <1>2

(***************************************************************************)
(* Every step keeps the invariant.                                         *)
(***************************************************************************)

LEMMA InvInit == Init => IInv
<1> SUFFICES ASSUME Init PROVE IInv
  OBVIOUS
<1>1. TypeOK
  <2>1. {active, close_notified} \subseteq BOOLEAN
    BY Zenon DEF Init
  <2>3. handlers \in [Kinds -> BOOLEAN]
    BY DEF Init
  <2>4. stack \in [Threads -> Seq(FrameType)]
    <3>1. <<>> \in Seq(FrameType)
      OBVIOUS
    <3> QED
      BY <3>1 DEF Init
  <2>2. handles \in [Threads -> Nat] /\ sends \in [Threads -> 0..MaxSends]
    BY BoundsType DEF Init
  <2> QED
    BY <2>1, <2>2, <2>3, <2>4 DEF TypeOK
<1>2. Accounted(<<>>, 0)
  <2>1. Doers(<<>>, Holding) = {}
    BY DEF Doers
  <2> QED
    BY <2>1, FS_EmptySet DEF Accounted, Count
<1> QED
  BY <1>1, <1>2 DEF Init, IInv, StackInv, OpenInv

LEMMA MovesInv ==
  ASSUME TypeOK, StackInv, NEW t \in Threads, NEW s, NEW h, Accounted(s, h),
         stack' = [stack EXCEPT ![t] = s], handles' = [handles EXCEPT ![t] = h]
  PROVE  /\ StackInv'
         /\ stack' \in [Threads -> Seq(FrameType)]
         /\ handles' \in [Threads -> Nat]
<1>1. s \in Seq(FrameType) /\ h \in Nat
  BY CountType DEF Accounted
<1>2. stack' \in [Threads -> Seq(FrameType)] /\ handles' \in [Threads -> Nat]
  BY <1>1 DEF TypeOK
<1>3. ASSUME NEW u \in Threads PROVE Accounted(stack'[u], handles'[u])
  <2>1. CASE u = t
    BY <2>1 DEF TypeOK
  <2>2. CASE u # t
    <3>1. stack'[u] = stack[u] /\ handles'[u] = handles[u]
      BY <2>2 DEF TypeOK
    <3> QED
      BY <3>1 DEF StackInv
  <2> QED
    BY <2>1, <2>2
<1>4. StackInv'
  BY <1>3 DEF StackInv, Accounted
<1> QED
  BY <1>2, <1>4

\* A call is made by nobody or by user code: never by a function that still
\* owes a notification.
LEMMA CallMoves ==
  ASSUME TypeOK, StackInv, NEW t \in Threads, MayCall(t), UNCHANGED handles,
         NEW do \in {"init", "notify"}, Calls(t, Frame(do, None))
  PROVE  \E s : /\ Accounted(s, handles[t])
               /\ s # <<>> /\ Top(s).do = do
               /\ stack' = [stack EXCEPT ![t] = s]
<1> DEFINE e == Frame(do, None)
           h == handles[t]
<1>1. e \in FrameType /\ e.do = do /\ Held(e) = 0
  BY FrameTypes DEF Doing, Held, Holding
<1>2. Accounted(stack[t], h) /\ (stack[t] # <<>> => Top(stack[t]).do # "notify")
  BY DEF StackInv, MayCall
<1>3. h \in Nat
  BY DEF TypeOK
<1>4. stack[t] \in Seq(FrameType)
  BY DEF TypeOK
<1> HIDE DEF e, h
<1>5. Accounted(Append(stack[t], e), h + Held(e)) /\ Top(Append(stack[t], e)) = e
  BY <1>1, <1>2, AccountedPush
<1>6. h + Held(e) = h
  BY <1>1, <1>3
<1>7. Append(stack[t], e) # <<>>
  BY <1>1, <1>4, PushType
<1>8. stack' = [stack EXCEPT ![t] = Append(stack[t], e)]
  BY DEF Calls, e
<1> QED
  BY <1>1, <1>5, <1>6, <1>7, <1>8 DEF h

LEMMA InvStep == IInv /\ [Next]_vars => IInv'
<1> SUFFICES ASSUME IInv, [Next]_vars PROVE IInv'
  OBVIOUS
<1> USE DEF IInv
<1>1. ASSUME NEW kind \in Kinds, SetHandler(kind) PROVE IInv'
  BY <1>1 DEF SetHandler, TypeOK, StackInv, OpenInv, state
<1>2. ASSUME NEW t \in Threads, Connect(t) PROVE IInv'
  BY <1>2 DEF Connect, TypeOK, StackInv, OpenInv
<1>3. ASSUME NEW t \in Threads, Close(t) PROVE IInv'
  <2>1. PICK s : Accounted(s, handles[t]) /\ stack' = [stack EXCEPT ![t] = s]
    BY <1>3, CallMoves DEF Close
  <2>2. handles' = [handles EXCEPT ![t] = handles[t]]
    BY <1>3 DEF Close, TypeOK
  <2>3. StackInv' /\ stack' \in [Threads -> Seq(FrameType)] /\ handles' \in [Threads -> Nat]
    BY <2>1, <2>2, MovesInv
  <2> QED
    BY <1>3, <2>3 DEF Close, TypeOK, OpenInv
<1>4. ASSUME NEW t \in Threads, Send(t) PROVE IInv'
  <2>1. PICK s : Accounted(s, handles[t]) /\ stack' = [stack EXCEPT ![t] = s]
    BY <1>4, CallMoves DEF Send
  <2>2. handles' = [handles EXCEPT ![t] = handles[t]]
    BY <1>4 DEF Send, TypeOK
  <2>3. StackInv' /\ stack' \in [Threads -> Seq(FrameType)] /\ handles' \in [Threads -> Nat]
    BY <2>1, <2>2, MovesInv
  <2>4. sends' \in [Threads -> 0..MaxSends]
    BY <1>4, BoundsType DEF Send, TypeOK
  <2> QED
    BY <1>4, <2>3, <2>4 DEF Send, TypeOK, OpenInv, state
<1>5. ASSUME NEW t \in Threads, Runs(t) PROVE IInv'
  <2>1. PICK s, h : Moves(t, s, h)
    BY <1>5, RunMoves
  <2>2. StackInv' /\ stack' \in [Threads -> Seq(FrameType)] /\ handles' \in [Threads -> Nat]
    BY <2>1, MovesInv DEF Moves
  <2>3. UNCHANGED <<active, close_notified, handlers, sends>>
    BY <1>5, RunMoves
  <2> QED
    BY <2>2, <2>3 DEF TypeOK, OpenInv
<1>6. CASE UNCHANGED vars
  BY <1>6 DEF vars, state, TypeOK, StackInv, OpenInv
<1> QED
  BY <1>1, <1>2, <1>3, <1>4, <1>5, <1>6 DEF Next

LEMMA InvHolds == Spec => []IInv
  BY InvInit, InvStep, PTL DEF Spec

\* The variables keep their types; of the handles this says that none is freed
\* twice.
THEOREM TypeCorrect == Spec => []TypeOK
<1>1. IInv => TypeOK
  BY DEF IInv
<1> QED
  BY <1>1, InvHolds, PTL

\* A thread that has left send has freed every handle, on whatever path.
THEOREM EveryHandleFreed == Spec => []HandlesFreed
<1>1. IInv => HandlesFreed
  <2>1. Doers(<<>>, Holding) = {}
    BY DEF Doers
  <2>2. Count(<<>>, Holding) = 0
    BY <2>1, FS_EmptySet DEF Count
  <2> QED
    BY <2>2 DEF IInv, StackInv, Accounted, HandlesFreed
<1> QED
  BY <1>1, InvHolds, PTL

(***************************************************************************)
(* The contract of ITransport.                                             *)
(***************************************************************************)

Owing == {t \in Threads : About(t, "notify")}

LEMMA OwingMoves ==
  ASSUME TypeOK, NEW t \in Threads, NEW s, stack' = [stack EXCEPT ![t] = s]
  PROVE  /\ s # <<>> /\ Top(s).do = "notify" => Owing' = Owing \cup {t}
         /\ ~(s # <<>> /\ Top(s).do = "notify") => Owing' = Owing \ {t}
<1>1. stack'[t] = s /\ \A u \in Threads \ {t} : stack'[u] = stack[u]
  BY DEF TypeOK
<1>2. \A u \in Threads \ {t} : About(u, "notify")' <=> About(u, "notify")
  BY <1>1 DEF About
<1>3. About(t, "notify")' <=> s # <<>> /\ Top(s).do = "notify"
  BY <1>1 DEF About
<1> QED
  BY <1>2, <1>3 DEF Owing

LEMMA ContractStep == IInv /\ [Next]_vars => [Contract!Next]_(Contract!vars)
<1> SUFFICES ASSUME IInv, [Next]_vars PROVE Contract!Next \/ UNCHANGED Contract!vars
  OBVIOUS
<1> USE DEF IInv
<1>1. ASSUME UNCHANGED <<active, close_notified, Owing>> PROVE UNCHANGED Contract!vars
  BY <1>1 DEF Owing, Contract!vars
<1>2. ASSUME UNCHANGED stack PROVE Owing' = Owing
  BY <1>2 DEF Owing, About
<1>3. ASSUME NEW t \in Threads, Connect(t) PROVE Contract!Open \/ UNCHANGED Contract!vars
  <2>1. active' /\ ~close_notified' /\ Owing' = Owing
    BY <1>2, <1>3 DEF Connect
  <2>2. CASE active
    <3>1. ~close_notified
      BY <2>2 DEF OpenInv
    <3>2. active' = active /\ close_notified' = close_notified
      BY <1>3, <2>2, <3>1 DEF Connect, TypeOK
    <3> QED
      BY <1>1, <2>1, <3>2
  <2>3. CASE ~active
    BY <2>1, <2>3 DEF Contract!Open, Owing
  <2> QED
    BY <2>2, <2>3
<1>4. ASSUME NEW t \in Threads, Close(t) PROVE Contract!Shut(t)
  <2>1. PICK s : s # <<>> /\ Top(s).do = "notify" /\ stack' = [stack EXCEPT ![t] = s]
    BY <1>4, CallMoves DEF Close
  <2>2. Owing' = Owing \cup {t}
    BY <2>1, OwingMoves
  <2>3. t \notin Owing
    BY <1>4 DEF Close, MayCall, Owing, About
  <2> QED
    BY <1>4, <2>2, <2>3 DEF Close, Contract!Shut, Owing
<1>5. ASSUME NEW t \in Threads, Send(t) PROVE UNCHANGED Contract!vars
  <2>1. PICK s : s # <<>> /\ Top(s).do = "init" /\ stack' = [stack EXCEPT ![t] = s]
    BY <1>5, CallMoves DEF Send
  <2>2. Owing' = Owing \ {t} /\ t \notin Owing
    BY <1>5, <2>1, OwingMoves DEF Send, MayCall, Owing, About
  <2> QED
    BY <1>1, <1>5, <2>2 DEF Send, state
<1>6. ASSUME NEW t \in Threads, Runs(t) PROVE Contract!Notify(t) \/ UNCHANGED Contract!vars
  <2>1. PICK s, h : Moves(t, s, h)
    BY <1>6, RunMoves
  <2>2. Owing' = Owing \ {t}
    BY <2>1, OwingMoves DEF Moves
  <2>3. UNCHANGED <<active, close_notified>>
    BY <1>6, RunMoves
  <2>4. CASE t \in Owing
    BY <2>2, <2>3, <2>4 DEF Contract!Notify, Owing
  <2>5. CASE t \notin Owing
    BY <1>1, <2>2, <2>3, <2>5
  <2> QED
    BY <2>4, <2>5
<1>7. CASE (\E kind \in Kinds : SetHandler(kind)) \/ UNCHANGED vars
  BY <1>1, <1>2, <1>7 DEF SetHandler, vars, state
<1> QED
  BY <1>3, <1>4, <1>5, <1>6, <1>7 DEF Next, Contract!Next

\* The close handler is called once for every close that takes effect, and only
\* connect arms it again, whichever threads and handlers race to do so: the
\* contract of ITransport.
THEOREM ImplementsContract == Spec => KeepsContract
<1>1. Init => Contract!Init
  BY DEF Init, Contract!Init, About
<1> QED
  BY <1>1, ContractStep, InvHolds, PTL DEF Spec, KeepsContract, Contract!Spec
=============================================================================
