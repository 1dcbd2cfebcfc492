------------------------ MODULE StdioTransportProofs ------------------------
(***************************************************************************)
(* Proofs about StdioTransport, for any number of application threads,     *)
(* lines of input and calls of send.                                       *)
(***************************************************************************)
EXTENDS StdioTransport, TLAPS

LEMMA BoundsType == MaxLines \in Nat /\ MaxSends \in Nat
  BY ConstantsAssumption DEF ConstantsAssumption

(***************************************************************************)
(* Type correctness.                                                       *)
(***************************************************************************)

LEMMA TypeInit == Init => TypeOK
<1> SUFFICES ASSUME Init PROVE TypeOK
  OBVIOUS
<1>1. /\ active \in BOOLEAN /\ ever_started \in BOOLEAN /\ close_notified \in BOOLEAN
      /\ handlers \in [Kinds -> BOOLEAN] /\ output_bad \in BOOLEAN /\ terminated \in BOOLEAN
  BY DEF Init
<1>2. /\ sends \in [Threads -> 0..MaxSends] /\ line \in [Readers -> 0..MaxLines]
      /\ arrived \in 0..MaxLines /\ at_close \in Nat
  BY BoundsType DEF Init
<1>3. delivered \in Seq(1..MaxLines)
  BY DEF Init
<1> QED
  BY <1>1, <1>2, <1>3 DEF Init, TypeOK

LEMMA AppendType ==
  ASSUME NEW S, NEW s \in Seq(S), NEW e \in S
  PROVE  /\ Append(s, e) \in Seq(S)
         /\ Len(Append(s, e)) = Len(s) + 1
         /\ Append(s, e)[Len(s) + 1] = e
         /\ \A i \in 1..Len(s) : Append(s, e)[i] = s[i]
  OBVIOUS

LEMMA TypeStep == TypeOK /\ [Next]_vars => TypeOK'
<1> SUFFICES ASSUME TypeOK, [Next]_vars PROVE TypeOK'
  OBVIOUS
<1> USE BoundsType
<1>1. ASSUME NEW kind \in Kinds, SetHandler(kind) PROVE TypeOK'
  BY <1>1 DEF SetHandler, TypeOK, state, reading
<1>2. ASSUME NEW a \in Apps, Start(a) PROVE TypeOK'
  BY <1>2 DEF Start, Step, TypeOK, state, reading
<1>3. ASSUME NEW a \in Apps, Spawn(a) PROVE TypeOK'
  BY <1>3 DEF Spawn, Step, Goto, TypeOK, state, reading
<1>4. ASSUME NEW t \in Threads, Close(t) PROVE TypeOK'
  <2>1. Len(delivered) \in Nat
    BY DEF TypeOK
  <2>2. at_close' \in Nat
    BY <1>4, <2>1 DEF Close
  <2> QED
    BY <1>4, <2>2 DEF Close, Step, TypeOK, state, reading
<1>5. ASSUME NEW t \in Threads, Notify(t) PROVE TypeOK'
  BY <1>5 DEF Notify, Step, TypeOK, state, reading
<1>6. ASSUME NEW t \in Threads, Send(t) PROVE TypeOK'
  <2>1. sends'[t] \in 0..MaxSends /\ sends' \in [Threads -> 0..MaxSends]
    BY <1>6 DEF Send, TypeOK
  <2>2. terminated' \in BOOLEAN
    BY <1>6 DEF Send, Throw, TypeOK
  <2>3. op' \in [Threads -> {"idle", "spawn", "notify", "write", "check", "erring"}]
    BY <1>6 DEF Send, Step, TypeOK
  <2>4. UNCHANGED <<state, handlers, output_bad, reading, at_close>>
    BY <1>6 DEF Send
  <2> QED
    BY <2>1, <2>2, <2>3, <2>4 DEF TypeOK, state, reading
<1>7. ASSUME NEW t \in Threads, Write(t) PROVE TypeOK'
  BY <1>7 DEF Write, Step, TypeOK, state, reading
<1>8. ASSUME NEW t \in Threads, CheckOutput(t) PROVE TypeOK'
  BY <1>8 DEF CheckOutput, Step, TypeOK, state, reading
<1>9. ASSUME NEW t \in Threads, SendThrows(t) PROVE TypeOK'
  <2>1. terminated' \in BOOLEAN
    BY <1>9 DEF SendThrows, Throw, TypeOK
  <2> QED
    BY <1>9, <2>1 DEF SendThrows, Step, TypeOK, state, reading
<1>10. ASSUME NEW r \in Readers, ReadLine(r) PROVE TypeOK'
  BY <1>10 DEF ReadLine, Goto, LoopUnchanged, TypeOK, state
<1>11. ASSUME NEW r \in Readers, ReadEnds(r) PROVE TypeOK'
  BY <1>11 DEF ReadEnds, Goto, LoopUnchanged, TypeOK, state
<1>12. ASSUME NEW r \in Readers, CheckActive(r) PROVE TypeOK'
  BY <1>12 DEF CheckActive, Goto, LoopUnchanged, TypeOK, state
<1>13. ASSUME NEW r \in Readers, CallHandler(r) PROVE TypeOK'
  <2>1. reader[r] = "lookup" /\ line[r] \in 1..MaxLines
    BY <1>13 DEF CallHandler, Goto, TypeOK
  <2> DEFINE Numbers == 1..MaxLines
  <2>2. delivered \in Seq(Numbers) /\ line[r] \in Numbers
    BY <2>1 DEF TypeOK
  <2>3. delivered' = delivered \/ delivered' = Append(delivered, line[r])
    BY <1>13 DEF CallHandler
  <2>4. delivered' \in Seq(Numbers)
    <3> HIDE DEF Numbers
    <3> QED
      BY <2>2, <2>3, AppendType
  <2> QED
    BY <1>13, <2>1, <2>4 DEF CallHandler, Goto, LoopUnchanged, TypeOK, state
<1>14. ASSUME NEW r \in Readers, HandlerReturns(r) PROVE TypeOK'
  BY <1>14 DEF HandlerReturns, Goto, LoopUnchanged, TypeOK, state
<1>15. ASSUME UNCHANGED vars PROVE TypeOK'
  BY <1>15 DEF vars, state, reading, TypeOK
<1> QED
  BY <1>1, <1>2, <1>3, <1>4, <1>5, <1>6, <1>7, <1>8, <1>9, <1>10, <1>11, <1>12,
     <1>13, <1>14, <1>15
     DEF Next, Calling, Reading

\* The variables of the transport keep their types.
THEOREM TypeCorrect == Spec => []TypeOK
  BY TypeInit, TypeStep, PTL DEF Spec

(***************************************************************************)
(* One reader.  Only the first start creates a thread: until it has, no    *)
(* reader runs, and no other call may be about to create one.              *)
(***************************************************************************)

Runs(r) == reader[r] # "none"

SpawnsOnce ==
  /\ \A t \in Threads : op[t] = "spawn" => ever_started /\ \A r \in Readers : ~Runs(r)
  /\ \A t, u \in Threads : op[t] = "spawn" /\ op[u] = "spawn" => t = u

OneReader ==
  /\ \A r \in Readers : Runs(r) => ever_started
  /\ \A r, s \in Readers : Runs(r) /\ Runs(s) => r = s

ReaderInv == SpawnsOnce /\ OneReader /\ (close_notified => ~active)

LEMMA ReaderInit == Init => ReaderInv
  BY DEF Init, ReaderInv, SpawnsOnce, OneReader, Runs

\* A step that creates no thread and is not about to keeps the invariant.
LEMMA ReaderStutter ==
  ASSUME ReaderInv,
         UNCHANGED ever_started,
         close_notified' => ~active',
         \A t \in Threads : op'[t] = "spawn" => op[t] = "spawn",
         \A r \in Readers : Runs(r)' => Runs(r)
  PROVE  ReaderInv'
  BY DEF ReaderInv, SpawnsOnce, OneReader, Runs

LEMMA ReaderStep == TypeOK /\ ReaderInv /\ [Next]_vars => ReaderInv'
<1> SUFFICES ASSUME TypeOK, ReaderInv, [Next]_vars PROVE ReaderInv'
  OBVIOUS
<1>1. ASSUME NEW a \in Apps, Start(a) PROVE ReaderInv'
  <2>1. /\ ~ever_started /\ ever_started' /\ ~close_notified'
        /\ op' = [op EXCEPT ![a] = "spawn"] /\ reader' = reader
    BY <1>1 DEF Start, Step, reading
  <2>2. \A r \in Readers : ~Runs(r) /\ ~Runs(r)'
    BY <2>1 DEF ReaderInv, OneReader, Runs
  <2>3. \A t \in Threads : op[t] # "spawn" /\ (op'[t] = "spawn" => t = a)
    BY <2>1 DEF ReaderInv, SpawnsOnce, TypeOK
  <2> QED
    BY <2>1, <2>2, <2>3 DEF ReaderInv, SpawnsOnce, OneReader
<1>2. ASSUME NEW a \in Apps, Spawn(a) PROVE ReaderInv'
  <2>1. \/ \E r \in Readers : reader' = [reader EXCEPT ![r] = "reading"]
        \/ reader' = reader
    BY <1>2 DEF Spawn, Goto
  <2>2. /\ op[a] = "spawn" /\ op' = [op EXCEPT ![a] = "idle"]
        /\ UNCHANGED <<active, ever_started, close_notified>>
    BY <1>2 DEF Spawn, Step, state
  <2>3. ever_started /\ \A s \in Readers : ~Runs(s)
    BY <2>2 DEF ReaderInv, SpawnsOnce, Threads
  <2>4. \A r, s \in Readers : Runs(r)' /\ Runs(s)' => r = s
    <3>1. CASE reader' = reader
      BY <2>3, <3>1 DEF Runs
    <3>2. ASSUME NEW r \in Readers, reader' = [reader EXCEPT ![r] = "reading"]
          PROVE  \A s \in Readers : Runs(s)' => s = r
      BY <2>3, <3>2 DEF Runs, TypeOK
    <3> QED
      BY <2>1, <3>1, <3>2
  <2>5. \A t \in Threads : op'[t] # "spawn"
    BY <2>2 DEF ReaderInv, SpawnsOnce, TypeOK, Threads
  <2> QED
    BY <2>2, <2>3, <2>4, <2>5 DEF ReaderInv, SpawnsOnce, OneReader
<1>3. ASSUME NEW t \in Threads, Calling(t) PROVE ReaderInv'
  <2>1. /\ ever_started' = ever_started /\ reader' = reader
        /\ UNCHANGED <<active, close_notified>> \/ (close_notified' /\ ~active')
    BY <1>3 DEF Close, Calling, Notify, Send, Write, CheckOutput, SendThrows, state, reading
  <2>2. \E to \in {"notify", "idle", "write", "check", "erring"} : op' = [op EXCEPT ![t] = to]
    BY <1>3 DEF Calling, Close, Notify, Send, Write, CheckOutput, SendThrows, Step
  <2>3. \A u \in Threads : op'[u] = "spawn" => op[u] = "spawn"
    BY <2>2 DEF TypeOK
  <2> QED
    BY <2>1, <2>3, ReaderStutter DEF ReaderInv, Runs
<1>4. ASSUME NEW r \in Readers, Reading(r) PROVE ReaderInv'
  <2>1. UNCHANGED <<active, ever_started, close_notified, op>>
    BY <1>4 DEF Reading, ReadLine, ReadEnds, CheckActive, CallHandler, HandlerReturns,
       LoopUnchanged, state
  <2>2. \E from, to : Goto(r, from, to) /\ from # "none"
    BY <1>4 DEF Reading, ReadLine, ReadEnds, CheckActive, CallHandler, HandlerReturns
  <2>3. \A s \in Readers : Runs(s)' => Runs(s)
    BY <2>2 DEF Goto, Runs, TypeOK
  <2> QED
    BY <2>1, <2>3, ReaderStutter DEF ReaderInv
<1>5. CASE (\E kind \in Kinds : SetHandler(kind)) \/ UNCHANGED vars
  <2>1. UNCHANGED <<active, ever_started, close_notified, op, reader>>
    BY <1>5 DEF SetHandler, vars, state, reading
  <2> QED
    BY <2>1, ReaderStutter DEF ReaderInv, Runs
<1> QED
  BY <1>1, <1>2, <1>3, <1>4, <1>5 DEF Next

LEMMA ReaderHolds == Spec => [](TypeOK /\ ReaderInv)
<1>1. Init => TypeOK /\ ReaderInv
  BY TypeInit, ReaderInit
<1>2. TypeOK /\ ReaderInv /\ [Next]_vars => (TypeOK /\ ReaderInv)'
  BY TypeStep, ReaderStep
<1> QED
  BY <1>1, <1>2, PTL DEF Spec

\* However many threads start and close the transport, the message handler is
\* never called by two of them at once.
THEOREM HandlerRunsAlone == Spec => []HandlerAlone
<1>1. ReaderInv => HandlerAlone
  BY DEF ReaderInv, OneReader, Runs, HandlerAlone
<1> QED
  BY <1>1, ReaderHolds, PTL


(***************************************************************************)
(* Order.  The line a reader holds is newer than all that were delivered,  *)
(* until it is delivered itself; with one reader nothing overtakes it.     *)
(***************************************************************************)

Undelivered(r) == reader[r] \in {"check", "lookup"}

OrderInv ==
  /\ \A r \in Readers : line[r] <= arrived
  /\ \A i \in 1..Len(delivered) : delivered[i] <= arrived
  /\ \A r \in Readers : Undelivered(r) => \A i \in 1..Len(delivered) : delivered[i] < line[r]
  /\ InOrder

LEMMA Numbers ==
  ASSUME TypeOK
  PROVE  /\ arrived \in Nat /\ at_close \in Nat /\ Len(delivered) \in Nat
         /\ \A r \in Readers : line[r] \in Nat
         /\ \A i \in 1..Len(delivered) : delivered[i] \in Nat
<1> DEFINE Lines == 1..MaxLines
<1>1. delivered \in Seq(Lines)
  BY DEF TypeOK
<1>2. Len(delivered) \in Nat /\ \A i \in 1..Len(delivered) : delivered[i] \in Lines
  <2> HIDE DEF Lines
  <2> QED
    BY <1>1
<1> QED
  BY <1>2, BoundsType DEF TypeOK

\* What the call of the message handler does to the delivered lines.
LEMMA Delivers ==
  ASSUME TypeOK, NEW r \in Readers, CallHandler(r), delivered' # delivered
  PROVE  /\ reader[r] = "lookup" /\ reader' = [reader EXCEPT ![r] = "handler"]
         /\ Len(delivered') = Len(delivered) + 1
         /\ delivered'[Len(delivered) + 1] = line[r]
         /\ \A i \in 1..Len(delivered) : delivered'[i] = delivered[i]
<1>1. /\ reader[r] = "lookup" /\ reader' = [reader EXCEPT ![r] = "handler"]
      /\ delivered' = Append(delivered, line[r])
  BY DEF CallHandler, Goto
<1> DEFINE Lines == 1..MaxLines
<1>2. delivered \in Seq(Lines) /\ line[r] \in Lines
  BY <1>1, BoundsType DEF TypeOK
<1>3. /\ Len(Append(delivered, line[r])) = Len(delivered) + 1
      /\ Append(delivered, line[r])[Len(delivered) + 1] = line[r]
      /\ \A i \in 1..Len(delivered) : Append(delivered, line[r])[i] = delivered[i]
  <2> HIDE DEF Lines
  <2> QED
    BY <1>2, AppendType
<1> QED
  BY <1>1, <1>3

LEMMA OrderInit == Init => OrderInv
  BY DEF Init, OrderInv, Undelivered, InOrder

\* A step that reads and delivers nothing, and brings no reader back to a line.
LEMMA OrderStutter ==
  ASSUME OrderInv, UNCHANGED <<line, arrived, delivered>>,
         \A r \in Readers : Undelivered(r)' => Undelivered(r)
  PROVE  OrderInv'
  BY DEF OrderInv, Undelivered, InOrder

LEMMA OrderRead ==
  ASSUME TypeOK, OrderInv, NEW r \in Readers, ReadLine(r)
  PROVE  OrderInv'
<1>1. /\ arrived' = arrived + 1 /\ line' = [line EXCEPT ![r] = arrived + 1]
      /\ delivered' = delivered /\ reader' = [reader EXCEPT ![r] = "check"]
  BY DEF ReadLine, Goto
<1>2. \A s \in Readers : line'[s] <= arrived'
  BY <1>1, Numbers DEF OrderInv, TypeOK
<1>3. \A i \in 1..Len(delivered') : delivered'[i] <= arrived'
  BY <1>1, Numbers DEF OrderInv
<1>4. \A s \in Readers : Undelivered(s)' => \A i \in 1..Len(delivered') : delivered'[i] < line'[s]
  <2>1. \A i \in 1..Len(delivered) : delivered[i] < arrived + 1
    BY Numbers DEF OrderInv
  <2>2. line'[r] = arrived + 1 /\ \A s \in Readers \ {r} : line'[s] = line[s] /\ reader'[s] = reader[s]
    BY <1>1 DEF TypeOK
  <2> QED
    BY <1>1, <2>1, <2>2 DEF OrderInv, Undelivered
<1> QED
  BY <1>1, <1>2, <1>3, <1>4 DEF OrderInv, InOrder

LEMMA OrderDeliver ==
  ASSUME TypeOK, ReaderInv, OrderInv, NEW r \in Readers, CallHandler(r), delivered' # delivered
  PROVE  OrderInv'
<1> DEFINE n == Len(delivered)
<1>1. /\ reader[r] = "lookup" /\ reader' = [reader EXCEPT ![r] = "handler"]
      /\ Len(delivered') = n + 1
      /\ delivered'[n + 1] = line[r]
      /\ \A i \in 1..n : delivered'[i] = delivered[i]
  BY Delivers
<1>2. UNCHANGED <<line, arrived>>
  BY DEF CallHandler
<1>3. \A s \in Readers : ~Undelivered(s)'
  BY <1>1 DEF ReaderInv, OneReader, Runs, Undelivered, TypeOK
<1>4. n \in Nat /\ \A i \in 1..n : delivered[i] < line[r]
  BY <1>1, Numbers DEF OrderInv, Undelivered
<1>5. \A i \in 1..(n + 1) : delivered'[i] <= arrived
  BY <1>1, <1>4, Numbers DEF OrderInv
<1>6. \A i, j \in 1..(n + 1) : i < j => delivered'[i] < delivered'[j]
  <2> SUFFICES ASSUME NEW i \in 1..(n + 1), NEW j \in 1..(n + 1), i < j
               PROVE  delivered'[i] < delivered'[j]
    OBVIOUS
  <2>1. i \in 1..n
    BY <1>4
  <2>2. CASE j = n + 1
    BY <1>1, <1>4, <2>1, <2>2
  <2>3. CASE j \in 1..n
    BY <1>1, <2>1, <2>3 DEF OrderInv, InOrder
  <2> QED
    BY <1>4, <2>2, <2>3
<1> QED
  BY <1>1, <1>2, <1>3, <1>5, <1>6 DEF OrderInv, InOrder


\* The steps other than the calls of the handler and the reading of a line.
LEMMA OtherSteps ==
  ASSUME TypeOK, [Next]_vars,
         \A r \in Readers : ~ReadLine(r),
         \A r \in Readers : CallHandler(r) => delivered' = delivered
  PROVE  /\ UNCHANGED <<line, arrived, delivered>>
         /\ \A r \in Readers : reader'[r] = "check" => reader[r] = "check"
         /\ \A r \in Readers :
              reader'[r] = "lookup" => reader[r] = "lookup" \/ (reader[r] = "check" /\ active)
<1>1. CASE UNCHANGED <<line, arrived, delivered, reader>>
  BY <1>1
<1>2. ASSUME NEW r \in Readers, NEW to \in {"done", "erring", "reading", "handler"},
             UNCHANGED <<line, arrived, delivered>>, reader' = [reader EXCEPT ![r] = to]
      PROVE  /\ \A s \in Readers : reader'[s] = "check" => reader[s] = "check"
             /\ \A s \in Readers : reader'[s] = "lookup" => reader[s] = "lookup"
  BY <1>2 DEF TypeOK
<1>3. ASSUME (\E kind \in Kinds : SetHandler(kind)) \/ UNCHANGED vars
      PROVE  UNCHANGED <<line, arrived, delivered, reader>>
  BY <1>3 DEF SetHandler, reading, vars
<1>4. ASSUME NEW a \in Apps, Start(a) PROVE UNCHANGED <<line, arrived, delivered, reader>>
  BY <1>4 DEF Start, reading
<1>5. ASSUME NEW t \in Threads, Calling(t) PROVE UNCHANGED <<line, arrived, delivered, reader>>
  BY <1>5 DEF Calling, Close, Notify, Send, Write, CheckOutput, SendThrows, reading
<1>6. CASE \E a \in Apps : Spawn(a)
  <2>1. /\ UNCHANGED <<line, arrived, delivered>>
        /\ \/ \E r \in Readers : reader' = [reader EXCEPT ![r] = "reading"]
           \/ reader' = reader
    BY <1>6 DEF Spawn, Goto
  <2> QED
    BY <1>1, <1>2, <2>1
<1>7. CASE \E r \in Readers : ReadEnds(r) \/ HandlerReturns(r) \/ CallHandler(r)
  <2>1. PICK r \in Readers : ReadEnds(r) \/ HandlerReturns(r) \/ CallHandler(r)
    BY <1>7
  <2>2. UNCHANGED <<line, arrived, delivered>>
    BY <2>1 DEF ReadEnds, HandlerReturns, CallHandler
  <2>3. \E to \in {"done", "erring", "reading", "handler"} : reader' = [reader EXCEPT ![r] = to]
    BY <2>1 DEF ReadEnds, HandlerReturns, CallHandler, Goto
  <2> QED
    BY <1>2, <2>2, <2>3
<1>8. CASE \E r \in Readers : CheckActive(r)
  <2>1. PICK r \in Readers : CheckActive(r)
    BY <1>8
  <2>2. /\ UNCHANGED <<line, arrived, delivered>>
        /\ reader' = [reader EXCEPT ![r] = IF active THEN "lookup" ELSE "done"]
    BY <2>1 DEF CheckActive, Goto
  <2>3. \A s \in Readers : s # r => reader'[s] = reader[s]
    BY <2>2
  <2>4. reader'[r] = IF active THEN "lookup" ELSE "done"
    BY <2>2 DEF TypeOK
  <2>5. \A s \in Readers : reader'[s] = "check" => reader[s] = "check"
    BY <2>3, <2>4
  <2>6. ASSUME NEW s \in Readers, reader'[s] = "lookup", reader[s] # "lookup"
        PROVE  reader[s] = "check" /\ active
    BY <2>1, <2>3, <2>4, <2>6 DEF CheckActive, Goto
  <2> QED
    BY <2>2, <2>5, <2>6
<1> QED
  BY <1>1, <1>3, <1>4, <1>5, <1>6, <1>7, <1>8 DEF Next, Reading

LEMMA OrderStep == TypeOK /\ ReaderInv /\ OrderInv /\ [Next]_vars => OrderInv'
<1> SUFFICES ASSUME TypeOK, ReaderInv, OrderInv, [Next]_vars PROVE OrderInv'
  OBVIOUS
<1>1. CASE \E r \in Readers : ReadLine(r)
  BY <1>1, OrderRead
<1>2. CASE \E r \in Readers : CallHandler(r) /\ delivered' # delivered
  BY <1>2, OrderDeliver
<1>3. CASE \A r \in Readers : ~ReadLine(r) /\ (CallHandler(r) => delivered' = delivered)
  <2>1. /\ UNCHANGED <<line, arrived, delivered>>
        /\ \A r \in Readers : Undelivered(r)' => Undelivered(r)
    BY <1>3, OtherSteps DEF Undelivered
  <2> QED
    BY <2>1, OrderStutter
<1> QED
  BY <1>1, <1>2, <1>3

LEMMA OrderHolds == Spec => []OrderInv
<1>1. Init => OrderInv
  BY OrderInit
<1>2. TypeOK /\ ReaderInv /\ OrderInv /\ [Next]_vars => OrderInv'
  BY OrderStep
<1> QED
  BY <1>1, <1>2, ReaderHolds, PTL DEF Spec

\* The message handler sees the lines in the order of the input, none twice,
\* however start and close race.
THEOREM DeliveredInOrder == Spec => []InOrder
<1>1. OrderInv => InOrder
  BY DEF OrderInv
<1> QED
  BY <1>1, OrderHolds, PTL

(***************************************************************************)
(* Close.  A reader past its check is the only one that can still deliver. *)
(***************************************************************************)

LateInv ==
  /\ OneLateMessage
  /\ close_notified =>
       \A r \in Readers : reader[r] = "lookup" => Len(delivered) <= at_close

LEMMA LateStep == TypeOK /\ ReaderInv /\ LateInv /\ [Next]_vars => LateInv'
<1> SUFFICES ASSUME TypeOK, ReaderInv, LateInv, [Next]_vars, close_notified'
             PROVE  /\ Len(delivered') <= at_close' + 1
                    /\ \A r \in Readers : reader'[r] = "lookup" => Len(delivered') <= at_close'
  BY DEF LateInv, OneLateMessage
<1>1. CASE \E t \in Threads : Close(t)
  <2>1. at_close' = Len(delivered) /\ delivered' = delivered
    BY <1>1 DEF Close, reading
  <2> QED
    BY <2>1, Numbers
<1>2. ASSUME \A t \in Threads : ~Close(t)
      PROVE  close_notified /\ ~active /\ at_close' = at_close
  <2>1. \A a \in Apps : ~Start(a)
    BY DEF Start
  <2>2. UNCHANGED <<close_notified, at_close>>
    BY <1>2, <2>1 DEF Next, SetHandler, Spawn, Calling, Notify, Send, Write,
       CheckOutput, SendThrows, Reading, ReadLine, ReadEnds, CheckActive, CallHandler,
       HandlerReturns, LoopUnchanged, vars, state
  <2> QED
    BY <2>2 DEF ReaderInv
<1>3. CASE (\A t \in Threads : ~Close(t)) /\ \E r \in Readers : ReadLine(r)
  <2>1. PICK r \in Readers : reader' = [reader EXCEPT ![r] = "check"] /\ delivered' = delivered
    BY <1>3 DEF ReadLine, Goto
  <2> QED
    BY <1>2, <1>3, <2>1 DEF LateInv, OneLateMessage, TypeOK
<1>4. CASE /\ \A t \in Threads : ~Close(t)
           /\ \E r \in Readers : CallHandler(r) /\ delivered' # delivered
  <2>1. PICK r \in Readers : CallHandler(r) /\ delivered' # delivered
    BY <1>4
  <2>2. /\ reader[r] = "lookup" /\ reader' = [reader EXCEPT ![r] = "handler"]
        /\ Len(delivered') = Len(delivered) + 1
    BY <2>1, Delivers
  <2>3. \A s \in Readers : reader'[s] # "lookup"
    BY <2>2 DEF ReaderInv, OneReader, Runs, TypeOK
  <2> QED
    BY <1>2, <1>4, <2>2, <2>3, Numbers DEF LateInv
<1>5. CASE /\ \A t \in Threads : ~Close(t)
           /\ \A r \in Readers : ~ReadLine(r) /\ (CallHandler(r) => delivered' = delivered)
  <2>1. /\ delivered' = delivered
        /\ \A r \in Readers : reader'[r] = "lookup" => reader[r] = "lookup"
    BY <1>2, <1>5, OtherSteps
  <2> QED
    BY <1>2, <1>5, <2>1 DEF LateInv, OneLateMessage
<1> QED
  BY <1>1, <1>3, <1>4, <1>5

\* A close that has returned is followed by at most one more message, the one
\* whose line the reader had already let through.
THEOREM LateMessageIsTheLast == Spec => []OneLateMessage
<1>1. Init => LateInv
  BY DEF Init, LateInv, OneLateMessage
<1>2. TypeOK /\ ReaderInv /\ LateInv /\ [Next]_vars => LateInv'
  BY LateStep
<1>3. LateInv => OneLateMessage
  BY DEF LateInv
<1> QED
  BY <1>1, <1>2, <1>3, ReaderHolds, PTL DEF Spec

(***************************************************************************)
(* The contract of ITransport.                                             *)
(***************************************************************************)

Pending == {t \in Threads : op[t] = "notify"}

LEMMA ContractStep == TypeOK /\ ReaderInv /\ [Next]_vars => [Contract!Next]_(Contract!vars)
<1> SUFFICES ASSUME TypeOK, ReaderInv, [Next]_vars
             PROVE  Contract!Next \/ UNCHANGED Contract!vars
  OBVIOUS
<1>1. ASSUME NEW a \in Apps, Start(a) PROVE Contract!Open
  <2>1. /\ ~active /\ active' /\ ~close_notified'
        /\ op[a] = "idle" /\ op' = [op EXCEPT ![a] = "spawn"]
    BY <1>1 DEF Start, Step
  <2>2. Pending' = Pending
    BY <2>1 DEF Pending, TypeOK
  <2> QED
    BY <2>1, <2>2 DEF Contract!Open, Pending
<1>2. ASSUME NEW t \in Threads, Close(t) PROVE Contract!Shut(t)
  <2>1. /\ ~close_notified /\ close_notified' /\ ~active'
        /\ op[t] = "idle" /\ op' = [op EXCEPT ![t] = "notify"]
    BY <1>2 DEF Close, Step
  <2>2. Pending' = Pending \cup {t}
    BY <2>1 DEF Pending, TypeOK
  <2> QED
    BY <2>1, <2>2 DEF Contract!Shut, Pending
<1>3. ASSUME NEW t \in Threads, Notify(t) PROVE Contract!Notify(t)
  <2>1. /\ op[t] = "notify" /\ op' = [op EXCEPT ![t] = "idle"]
        /\ UNCHANGED <<active, close_notified>>
    BY <1>3 DEF Notify, Step, state
  <2>2. Pending' = Pending \ {t}
    BY <2>1 DEF Pending, TypeOK
  <2> QED
    BY <2>1, <2>2 DEF Contract!Notify, Pending
<1>4. ASSUME NEW t \in Threads, Send(t) \/ Write(t) \/ CheckOutput(t) \/ SendThrows(t)
      PROVE  UNCHANGED <<active, close_notified, Pending>>
  <2>1. \E from, to \in {"idle", "write", "check", "erring"} : Step(t, from, to)
    BY <1>4 DEF Send, Write, CheckOutput, SendThrows, Step
  <2>2. Pending' = Pending
    BY <2>1 DEF Step, Pending, TypeOK
  <2> QED
    BY <1>4, <2>2 DEF Send, Write, CheckOutput, SendThrows, state
<1>5. ASSUME NEW a \in Apps, Spawn(a) PROVE UNCHANGED <<active, close_notified, Pending>>
  <2>1. op[a] = "spawn" /\ op' = [op EXCEPT ![a] = "idle"] /\ UNCHANGED <<active, close_notified>>
    BY <1>5 DEF Spawn, Step, state
  <2>2. Pending' = Pending
    BY <2>1 DEF Pending, TypeOK
  <2> QED
    BY <2>1, <2>2
<1>6. CASE (\E kind \in Kinds : SetHandler(kind)) \/ UNCHANGED vars \/ \E r \in Readers : Reading(r)
  BY <1>6 DEF SetHandler, vars, state, Reading, ReadLine, ReadEnds, CheckActive,
     CallHandler, HandlerReturns, LoopUnchanged, Pending, Contract!vars
<1>7. UNCHANGED <<active, close_notified, Pending>> => UNCHANGED Contract!vars
  BY DEF Pending, Contract!vars
<1> QED
  BY <1>1, <1>2, <1>3, <1>4, <1>5, <1>6, <1>7 DEF Next, Calling, Contract!Next

\* The close handler is called once for every close that takes effect, and only
\* an opening arms it again, whatever threads race: the contract of ITransport.
THEOREM ImplementsContract == Spec => KeepsContract
<1>1. Init => Contract!Init
  BY DEF Init, Contract!Init
<1>2. TypeOK /\ ReaderInv /\ [Next]_vars => [Contract!Next]_(Contract!vars)
  BY ContractStep
<1> QED
  BY <1>1, <1>2, ReaderHolds, PTL DEF Spec, KeepsContract, Contract!Spec
=============================================================================
