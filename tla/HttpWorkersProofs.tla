------------------------- MODULE HttpWorkersProofs -------------------------
(***************************************************************************)
(* The permits of the HTTP server for any number of sockets and permits:   *)
(* they add up, and the server is the pool RequestPool describes.          *)
(*                                                                         *)
(* Both rest on the number of open requests changing only where a permit   *)
(* changes hands, which needs to know that a request in a queue is open,   *)
(* waits there once, and is not the one the httpd task is working on.      *)
(***************************************************************************)
EXTENDS HttpWorkers, FiniteSetTheorems, SequenceTheorems, TLAPS

USE HttpWorkersAssumption

\* The request in the httpd task's hands before it is queued is open and in no queue.
HandlerHasRequest ==
  \A r \in Requests : httpd \in {At("begin", r), At("send", r)} => state[r] = "accepted"

\* A request in a queue waits there and nowhere else, once.
QueuedOnce ==
  /\ \A h \in Handlers : \A k \in 1 .. Len(reqQ[h]) : state[reqQ[h][k]] = "queued"
  /\ \A h, g \in Handlers : \A k \in 1 .. Len(reqQ[h]), l \in 1 .. Len(reqQ[g]) :
       reqQ[h][k] = reqQ[g][l] => h = g /\ k = l

IInv == TypeOK /\ PermitsAddUp /\ HandlerHasRequest /\ QueuedOnce

-----------------------------------------------------------------------------
(* The open requests. *)

\* There are finitely many of them.
LEMMA OpenFinite ==
  IsFiniteSet(Open) /\ Cardinality(Open) \in Nat
<1>1. Open \in SUBSET Requests
  BY DEF Open
<1>2. IsFiniteSet(Open)
  BY <1>1, FS_Subset
<1> QED
  BY <1>2, FS_CardinalityType

\* What PermitsAddUp adds up are numbers.
LEMMA Amounts ==
  ASSUME TypeOK
  PROVE  /\ permits \in Int /\ closing \in Int /\ leaked \in Int /\ Cardinality(Open) \in Int
         /\ MAX_AMOUNT_OF_WORKERS \in Int
BY OpenFinite DEF TypeOK

\* A request that leaves the closed state opens, ...
LEMMA Opens ==
  ASSUME TypeOK, NEW r \in Requests, NEW s, s # "closed",
         state[r] = "closed", state' = [state EXCEPT ![r] = s]
  PROVE  /\ r \notin Open /\ Open' = Open \cup {r}
         /\ Cardinality(Open') = Cardinality(Open) + 1
<1>1. r \notin Open /\ Open' = Open \cup {r}
  BY DEF Open, TypeOK
<1> QED
  BY <1>1, OpenFinite, FS_AddElement

\* ... one that enters it closes, ...
LEMMA Closes ==
  ASSUME TypeOK, NEW r \in Requests,
         state[r] # "closed", state' = [state EXCEPT ![r] = "closed"]
  PROVE  /\ r \in Open /\ Open' = Open \ {r}
         /\ Cardinality(Open') = Cardinality(Open) - 1
<1>1. r \in Open /\ Open' = Open \ {r}
  BY DEF Open, TypeOK
<1> QED
  BY <1>1, OpenFinite, FS_RemoveElement

\* ... and any other change of state leaves the set alone.
LEMMA StaysOpen ==
  ASSUME TypeOK, NEW r \in Requests, NEW s, s # "closed",
         state[r] # "closed", state' = [state EXCEPT ![r] = s]
  PROVE  Open' = Open
BY DEF Open, TypeOK

-----------------------------------------------------------------------------
(* Initially. *)

LEMMA Initially == Init => IInv
<1> SUFFICES ASSUME Init PROVE IInv
  OBVIOUS
<1>1. Open = {}
  BY DEF Init, Open
<1>2. TypeOK
  BY EmptySeq DEF Init, TypeOK, Idle, Handlers
<1>3. PermitsAddUp
  BY <1>1, FS_EmptySet DEF Init, PermitsAddUp
<1>4. HandlerHasRequest
  BY DEF Init, HandlerHasRequest, Idle, At
<1>5. QueuedOnce
  BY DEF Init, QueuedOnce
<1> QED
  BY <1>2, <1>3, <1>4, <1>5 DEF IInv

-----------------------------------------------------------------------------
(* The steps, each with what it does to the pool. *)

\* The pool as HttpWorkers shows it.
PoolStep == [Pool!PoolNext]_(Pool!poolVars)

LEMMA TakeStep ==
  ASSUME IInv, NEW r \in Requests, NEW h \in Handlers, Take(r, h)
  PROVE  IInv' /\ PoolStep
<1> USE DEF IInv
<1>1. /\ state' = [state EXCEPT ![r] = "accepted"] /\ state[r] = "closed"
      /\ permits > 0 /\ permits' = permits - 1
  BY DEF Take
<1>2. /\ r \notin Open /\ Open' = Open \cup {r}
      /\ Cardinality(Open') = Cardinality(Open) + 1
  BY <1>1, Opens
<1>3. PermitsAddUp'
  <2>1. UNCHANGED <<closing, leaked>>
    BY DEF Take
  <2> QED
    BY <1>1, <1>2, <2>1, Amounts DEF PermitsAddUp
<1>4. TypeOK'
  BY <1>1 DEF Take, TypeOK, At
<1>5. HandlerHasRequest'
  <2>1. state'[r] = "accepted"
    BY <1>1 DEF TypeOK
  <2>2. httpd' = At("begin", r)
    BY DEF Take
  <2>3. \A q \in Requests : httpd' \in {At("begin", q), At("send", q)} => q = r
    BY <2>2 DEF At
  <2> QED
    BY <2>1, <2>3 DEF HandlerHasRequest
<1>6. QueuedOnce'
  <2>1. \A g \in Handlers : \A k \in 1 .. Len(reqQ[g]) :
          reqQ[g][k] \in Requests /\ reqQ[g][k] # r
    BY <1>1, ElementOfSeq DEF QueuedOnce, TypeOK
  <2>2. reqQ' = reqQ
    BY DEF Take
  <2>3. \A g \in Handlers : \A k \in 1 .. Len(reqQ[g]) : state'[reqQ[g][k]] = state[reqQ[g][k]]
    BY <1>1, <2>1 DEF TypeOK
  <2> QED
    BY <2>2, <2>3 DEF QueuedOnce
<1>7. Pool!Accept(r)
  <2>1. Pool!Cardinality(Open) = Cardinality(Open)
    BY DEF Cardinality, Pool!Cardinality
  <2>2. Cardinality(Open) < MAX_AMOUNT_OF_WORKERS - leaked
    <3>1. closing >= 0
      BY DEF TypeOK
    <3> QED
      BY <1>1, <3>1, Amounts DEF PermitsAddUp
  <2> QED
    BY <1>2, <2>1, <2>2 DEF Take, Pool!Accept
<1> QED
  BY <1>3, <1>4, <1>5, <1>6, <1>7 DEF PoolStep, Pool!PoolNext

\* BeginOk, CreateOk, CreateFails and Work leave state and queues alone.
LEMMA QuietStep ==
  ASSUME IInv, NEW r \in Requests,
         BeginOk(r) \/ CreateOk(r) \/ CreateFails(r) \/ Work(r)
  PROVE  IInv' /\ PoolStep
<1> USE DEF IInv
<1>1. UNCHANGED <<state, reqQ, permits, closing, leaked>>
  BY DEF BeginOk, CreateOk, CreateFails, Work
<1>2. UNCHANGED Open
  BY <1>1 DEF Open
<1>3. TypeOK'
  <2>1. CASE BeginOk(r)
    BY <2>1 DEF BeginOk, TypeOK, At
  <2>2. CASE CreateOk(r)
    BY <2>2 DEF CreateOk, TypeOK, Idle, Handlers
  <2>3. CASE CreateFails(r)
    BY <2>3 DEF CreateFails, TypeOK, Idle, Handlers
  <2>4. CASE Work(r)
    <3>1. Tail(todo[r]) \in Seq({"answer", "parse"})
      BY <2>4, HeadTailProperties DEF Work, TypeOK
    <3> QED
      BY <2>4, <3>1 DEF Work, TypeOK
  <2> QED
    BY <2>1, <2>2, <2>3, <2>4
<1>4. PermitsAddUp'
  BY <1>1, <1>2 DEF PermitsAddUp
<1>5. HandlerHasRequest'
  <2>1. CASE BeginOk(r)
    BY <2>1 DEF BeginOk, HandlerHasRequest, At
  <2>2. CASE CreateOk(r) \/ CreateFails(r)
    BY <2>2 DEF CreateOk, CreateFails, HandlerHasRequest, At, Idle
  <2>3. CASE Work(r)
    BY <2>3 DEF Work, HandlerHasRequest
  <2> QED
    BY <2>1, <2>2, <2>3
<1>6. QueuedOnce'
  BY <1>1 DEF QueuedOnce
<1>7. UNCHANGED Pool!poolVars
  BY <1>1, <1>2 DEF Pool!poolVars
<1> QED
  BY <1>3, <1>4, <1>5, <1>6, <1>7 DEF PoolStep

LEMMA BeginFailsStep ==
  ASSUME IInv, NEW r \in Requests, BeginFails(r)
  PROVE  IInv' /\ PoolStep
<1> USE DEF IInv
<1>1. state[r] = "accepted" /\ state' = [state EXCEPT ![r] = "closed"]
  BY DEF BeginFails, HandlerHasRequest
<1>2. /\ r \in Open /\ Open' = Open \ {r}
      /\ Cardinality(Open') = Cardinality(Open) - 1
  BY <1>1, Closes
<1>3. PermitsAddUp'
  <2>1. leaked' = leaked + 1 /\ UNCHANGED <<permits, closing>>
    BY DEF BeginFails
  <2> QED
    BY <1>2, <2>1, Amounts DEF PermitsAddUp
<1>4. TypeOK'
  BY <1>1 DEF BeginFails, TypeOK, Idle
<1>5. HandlerHasRequest'
  BY DEF BeginFails, HandlerHasRequest, At, Idle
<1>6. QueuedOnce'
  <2>1. \A g \in Handlers : \A k \in 1 .. Len(reqQ[g]) :
          reqQ[g][k] \in Requests /\ reqQ[g][k] # r
    BY <1>1, ElementOfSeq DEF QueuedOnce, TypeOK
  <2>2. reqQ' = reqQ
    BY DEF BeginFails
  <2>3. \A g \in Handlers : \A k \in 1 .. Len(reqQ[g]) : state'[reqQ[g][k]] = state[reqQ[g][k]]
    BY <1>1, <2>1 DEF TypeOK
  <2> QED
    BY <2>2, <2>3 DEF QueuedOnce
<1>7. Pool!Lose(r)
  BY <1>2 DEF BeginFails, Pool!Lose, TypeOK
<1> QED
  BY <1>3, <1>4, <1>5, <1>6, <1>7 DEF PoolStep, Pool!PoolNext

LEMMA SendStep ==
  ASSUME IInv, NEW r \in Requests, SendCopy(r)
  PROVE  IInv' /\ PoolStep
<1> USE DEF IInv
<1> DEFINE h == handler[r]
<1>1. /\ state[r] = "accepted" /\ state' = [state EXCEPT ![r] = "queued"]
      /\ h \in Handlers /\ reqQ[h] \in Seq(Requests)
      /\ reqQ' = [reqQ EXCEPT ![h] = Append(reqQ[h], r)]
  BY DEF SendCopy, HandlerHasRequest, TypeOK
<1>2. UNCHANGED Open
  BY <1>1, StaysOpen
<1>3. /\ Append(reqQ[h], r) \in Seq(Requests)
      /\ Len(Append(reqQ[h], r)) = Len(reqQ[h]) + 1
      /\ \A k \in 1 .. Len(reqQ[h]) : Append(reqQ[h], r)[k] = reqQ[h][k]
      /\ Append(reqQ[h], r)[Len(reqQ[h]) + 1] = r
      /\ Len(reqQ[h]) \in Nat
  BY <1>1, AppendProperties, LenProperties
<1>4. TypeOK'
  BY <1>1, <1>3 DEF SendCopy, TypeOK, At
<1>5. PermitsAddUp'
  BY <1>2 DEF SendCopy, PermitsAddUp
<1>6. HandlerHasRequest'
  BY DEF SendCopy, HandlerHasRequest, At
<1>7. QueuedOnce'
  <2>1. \A g \in Handlers : \A k \in 1 .. Len(reqQ[g]) :
          reqQ[g][k] \in Requests /\ reqQ[g][k] # r
    BY <1>1, ElementOfSeq DEF QueuedOnce, TypeOK
  <2>2. /\ reqQ'[h] = Append(reqQ[h], r)
        /\ \A g \in Handlers \ {h} : reqQ'[g] = reqQ[g]
    BY <1>1 DEF TypeOK
  <2>3. \A g \in Handlers : \A k \in 1 .. Len(reqQ'[g]) :
          \/ k \in 1 .. Len(reqQ[g]) /\ reqQ'[g][k] = reqQ[g][k]
          \/ g = h /\ k = Len(reqQ[h]) + 1 /\ reqQ'[g][k] = r
    <3> SUFFICES ASSUME NEW g \in Handlers, NEW k \in 1 .. Len(reqQ'[g])
                 PROVE  \/ k \in 1 .. Len(reqQ[g]) /\ reqQ'[g][k] = reqQ[g][k]
                        \/ g = h /\ k = Len(reqQ[h]) + 1 /\ reqQ'[g][k] = r
      OBVIOUS
    <3>1. CASE g = h
      BY <2>2, <1>3, <3>1
    <3>2. CASE g # h
      BY <2>2, <3>2
    <3> QED
      BY <3>1, <3>2
  <2>4. \A g \in Handlers : \A k \in 1 .. Len(reqQ'[g]) : state'[reqQ'[g][k]] = "queued"
    <3>1. state'[r] = "queued" /\ \A q \in Requests \ {r} : state'[q] = state[q]
      BY <1>1 DEF TypeOK
    <3>2. \A g \in Handlers : \A k \in 1 .. Len(reqQ[g]) : state'[reqQ[g][k]] = "queued"
      BY <3>1, <2>1 DEF QueuedOnce
    <3> QED
      BY <3>1, <3>2, <2>3
  <2>5. ASSUME NEW g \in Handlers, NEW f \in Handlers,
               NEW k \in 1 .. Len(reqQ'[g]), NEW l \in 1 .. Len(reqQ'[f]),
               reqQ'[g][k] = reqQ'[f][l]
        PROVE  g = f /\ k = l
    <3>1. CASE k \in 1 .. Len(reqQ[g]) /\ l \in 1 .. Len(reqQ[f])
      <4>1. reqQ[g][k] = reqQ[f][l]
        BY <2>3, <2>5, <3>1, <2>1
      <4> QED
        BY <3>1, <4>1 DEF QueuedOnce
    <3>2. CASE k \notin 1 .. Len(reqQ[g])
      <4>1. g = h /\ k = Len(reqQ[h]) + 1 /\ reqQ'[g][k] = r
        BY <2>3, <3>2
      <4>2. ~(l \in 1 .. Len(reqQ[f]) /\ reqQ'[f][l] = reqQ[f][l])
        BY <2>1, <2>5, <4>1
      <4> QED
        BY <2>3, <4>1, <4>2
    <3>3. CASE l \notin 1 .. Len(reqQ[f])
      <4>1. f = h /\ l = Len(reqQ[h]) + 1 /\ reqQ'[f][l] = r
        BY <2>3, <3>3
      <4>2. ~(k \in 1 .. Len(reqQ[g]) /\ reqQ'[g][k] = reqQ[g][k])
        BY <2>1, <2>5, <4>1
      <4> QED
        BY <2>3, <4>1, <4>2
    <3> QED
      BY <3>1, <3>2, <3>3
  <2> QED
    BY <2>4, <2>5 DEF QueuedOnce
<1>8. UNCHANGED Pool!poolVars
  BY <1>2 DEF SendCopy, Pool!poolVars
<1> QED
  BY <1>4, <1>5, <1>6, <1>7, <1>8 DEF PoolStep

LEMMA ReceiveStep ==
  ASSUME IInv, NEW h \in Handlers, Receive(h)
  PROVE  IInv' /\ PoolStep
<1> USE DEF IInv
<1> DEFINE r == Head(reqQ[h])
<1>1. /\ reqQ[h] \in Seq(Requests) /\ reqQ[h] # <<>>
      /\ state' = [state EXCEPT ![r] = "received"]
      /\ reqQ' = [reqQ EXCEPT ![h] = Tail(reqQ[h])]
  BY DEF Receive, TypeOK
<1>2. /\ r \in Requests /\ r = reqQ[h][1] /\ Len(reqQ[h]) \in Nat /\ Len(reqQ[h]) > 0
      /\ Tail(reqQ[h]) \in Seq(Requests) /\ Len(Tail(reqQ[h])) = Len(reqQ[h]) - 1
      /\ \A k \in 1 .. Len(Tail(reqQ[h])) : Tail(reqQ[h])[k] = reqQ[h][k + 1]
  BY <1>1, HeadTailProperties, LenProperties, EmptySeq
<1>3. state[r] = "queued"
  BY <1>2 DEF QueuedOnce
<1>4. UNCHANGED Open
  BY <1>1, <1>2, <1>3, StaysOpen
<1>5. TypeOK'
  <2>1. /\ waiting' \in [Handlers -> Nat]
    BY DEF Receive, TypeOK
  <2>2. state' \in [Requests -> {"closed", "accepted", "queued", "received", "running"}]
    BY <1>1 DEF TypeOK
  <2>3. reqQ' \in [Handlers -> Seq(Requests)]
    BY <1>1, <1>2 DEF TypeOK
  <2> QED
    BY <2>1, <2>2, <2>3 DEF Receive, TypeOK
<1>6. PermitsAddUp'
  BY <1>4 DEF Receive, PermitsAddUp
<1>7. HandlerHasRequest'
  BY <1>1, <1>2, <1>3 DEF Receive, HandlerHasRequest, TypeOK
<1>8. QueuedOnce'
  <2>1. /\ reqQ'[h] = Tail(reqQ[h])
        /\ \A g \in Handlers \ {h} : reqQ'[g] = reqQ[g]
    BY <1>1 DEF TypeOK
  <2>2. ASSUME NEW g \in Handlers, NEW k \in 1 .. Len(reqQ'[g])
        PROVE  \/ /\ g = h /\ k + 1 \in 1 .. Len(reqQ[g])
                  /\ reqQ'[g][k] = reqQ[g][k + 1]
               \/ /\ g # h /\ k \in 1 .. Len(reqQ[g])
                  /\ reqQ'[g][k] = reqQ[g][k]
    <3>1. CASE g = h
      <4>1. k \in 1 .. Len(Tail(reqQ[h])) /\ reqQ'[g] = Tail(reqQ[h])
        BY <2>1, <3>1
      <4>2. Tail(reqQ[h])[k] = reqQ[h][k + 1]
        BY <4>1, <1>2
      <4>3. k + 1 \in 1 .. Len(reqQ[h])
        <5> HIDE DEF r
        <5> QED
          BY <4>1, <1>2
      <4> QED
        BY <4>1, <4>2, <4>3, <3>1
    <3>2. CASE g # h
      BY <2>1, <3>2
    <3> QED
      BY <3>1, <3>2
  <2>3. ASSUME NEW g \in Handlers, NEW k \in 1 .. Len(reqQ'[g])
        PROVE  state'[reqQ'[g][k]] = "queued"
    <3>1. PICK l \in 1 .. Len(reqQ[g]) : reqQ'[g][k] = reqQ[g][l] /\ ~(g = h /\ l = 1)
      BY <2>2, <2>3
    <3>2. reqQ[g][l] \in Requests
      BY ElementOfSeq DEF TypeOK
    <3>3. reqQ[g][l] # r
      BY <3>1, <1>2 DEF QueuedOnce
    <3> QED
      BY <3>1, <3>2, <3>3, <1>1 DEF QueuedOnce, TypeOK
  <2>4. ASSUME NEW g \in Handlers, NEW f \in Handlers,
               NEW k \in 1 .. Len(reqQ'[g]), NEW l \in 1 .. Len(reqQ'[f]),
               reqQ'[g][k] = reqQ'[f][l]
        PROVE  g = f /\ k = l
    <3>1. PICK m \in 1 .. Len(reqQ[g]) :
            reqQ'[g][k] = reqQ[g][m] /\ m = (IF g = h THEN k + 1 ELSE k)
      BY <2>2
    <3>2. PICK n \in 1 .. Len(reqQ[f]) :
            reqQ'[f][l] = reqQ[f][n] /\ n = (IF f = h THEN l + 1 ELSE l)
      BY <2>2
    <3>3. reqQ[g][m] = reqQ[f][n]
      BY <3>1, <3>2, <2>4
    <3>4. g = f /\ m = n
      BY <3>3 DEF QueuedOnce
    <3> QED
      BY <3>1, <3>2, <3>4
  <2> QED
    BY <2>3, <2>4 DEF QueuedOnce
<1>9. UNCHANGED Pool!poolVars
  BY <1>4 DEF Receive, Pool!poolVars
<1> QED
  BY <1>5, <1>6, <1>7, <1>8, <1>9 DEF PoolStep

LEMMA BodyStep ==
  ASSUME IInv, NEW r \in Requests, Body(r)
  PROVE  IInv' /\ PoolStep
<1> USE DEF IInv
<1>1. state[r] = "received" /\ state' = [state EXCEPT ![r] = "running"]
  BY DEF Body
<1>2. UNCHANGED Open
  BY <1>1, StaysOpen
<1>3. TypeOK'
  <2>1. PICK tasks \in Tasks(handler[r]) : todo' = [todo EXCEPT ![r] = tasks]
    BY DEF Body
  <2>2. tasks \in Seq({"answer", "parse"})
    <3>1. <<"answer">> \in Seq({"answer", "parse"})
      OBVIOUS
    <3>2. <<"parse", "answer">> \in Seq({"answer", "parse"})
      OBVIOUS
    <3>3. <<"answer", "parse">> \in Seq({"answer", "parse"})
      OBVIOUS
    <3>4. <<>> \in Seq({"answer", "parse"})
      BY EmptySeq
    <3>5. tasks \in {<<"answer">>, <<"parse", "answer">>, <<"answer", "parse">>, <<>>}
      BY <2>1, Zenon DEF Tasks
    <3> QED
      BY <3>1, <3>2, <3>3, <3>4, <3>5, Zenon
  <2> QED
    BY <1>1, <2>1, <2>2 DEF Body, TypeOK
<1>4. PermitsAddUp'
  BY <1>2 DEF Body, PermitsAddUp
<1>5. HandlerHasRequest'
  BY <1>1 DEF Body, HandlerHasRequest, TypeOK
<1>6. QueuedOnce'
  <2>1. \A g \in Handlers : \A k \in 1 .. Len(reqQ[g]) :
          reqQ[g][k] \in Requests /\ reqQ[g][k] # r
    BY <1>1, ElementOfSeq DEF QueuedOnce, TypeOK
  <2>2. reqQ' = reqQ
    BY DEF Body
  <2>3. \A g \in Handlers : \A k \in 1 .. Len(reqQ[g]) : state'[reqQ[g][k]] = state[reqQ[g][k]]
    BY <1>1, <2>1 DEF TypeOK
  <2> QED
    BY <2>2, <2>3 DEF QueuedOnce
<1>7. UNCHANGED Pool!poolVars
  BY <1>2 DEF Body, Pool!poolVars
<1> QED
  BY <1>3, <1>4, <1>5, <1>6, <1>7 DEF PoolStep

LEMMA CompleteStep ==
  ASSUME IInv, NEW r \in Requests, Complete(r)
  PROVE  IInv' /\ PoolStep
<1> USE DEF IInv
<1>1. state[r] = "running" /\ state' = [state EXCEPT ![r] = "closed"]
  BY DEF Complete
<1>2. /\ r \in Open /\ Open' = Open \ {r}
      /\ Cardinality(Open') = Cardinality(Open) - 1
  BY <1>1, Closes
<1>3. PermitsAddUp'
  <2>1. closing' = closing + 1 /\ UNCHANGED <<permits, leaked>>
    BY DEF Complete
  <2> QED
    BY <1>2, <2>1, Amounts DEF PermitsAddUp
<1>4. TypeOK'
  BY <1>1 DEF Complete, TypeOK
<1>5. HandlerHasRequest'
  BY <1>1 DEF Complete, HandlerHasRequest, TypeOK
<1>6. QueuedOnce'
  <2>1. \A g \in Handlers : \A k \in 1 .. Len(reqQ[g]) :
          reqQ[g][k] \in Requests /\ reqQ[g][k] # r
    BY <1>1, ElementOfSeq DEF QueuedOnce, TypeOK
  <2>2. reqQ' = reqQ
    BY DEF Complete
  <2>3. \A g \in Handlers : \A k \in 1 .. Len(reqQ[g]) : state'[reqQ[g][k]] = state[reqQ[g][k]]
    BY <1>1, <2>1 DEF TypeOK
  <2> QED
    BY <2>2, <2>3 DEF QueuedOnce
<1>7. Pool!Finish(r)
  BY <1>2 DEF Complete, Pool!Finish
<1> QED
  BY <1>3, <1>4, <1>5, <1>6, <1>7 DEF PoolStep, Pool!PoolNext

LEMMA GiveStep ==
  ASSUME IInv, Give
  PROVE  IInv' /\ PoolStep
<1> USE DEF IInv
<1>1. UNCHANGED Open
  BY DEF Give, Open
<1>2. PermitsAddUp'
  BY <1>1, OpenFinite DEF Give, PermitsAddUp, TypeOK
<1>3. TypeOK'
  BY <1>1, <1>2, OpenFinite DEF Give, TypeOK, PermitsAddUp
<1>4. HandlerHasRequest' /\ QueuedOnce'
  BY DEF Give, HandlerHasRequest, QueuedOnce
<1>5. UNCHANGED Pool!poolVars
  BY <1>1 DEF Give, Pool!poolVars
<1> QED
  BY <1>2, <1>3, <1>4, <1>5 DEF PoolStep

LEMMA Step ==
  ASSUME IInv, [Next]_vars
  PROVE  IInv' /\ PoolStep
<1>1. CASE Next
  BY <1>1, TakeStep, QuietStep, BeginFailsStep, SendStep, ReceiveStep, BodyStep,
     CompleteStep, GiveStep DEF Next, Httpd, Worker
<1>2. CASE UNCHANGED vars
  <2>1. UNCHANGED Open
    BY <1>2 DEF vars, Open
  <2>2. IInv'
    BY <1>2, <2>1 DEF vars, IInv, TypeOK, PermitsAddUp, HandlerHasRequest, QueuedOnce
  <2>3. UNCHANGED Pool!poolVars
    BY <1>2, <2>1 DEF vars, Pool!poolVars
  <2> QED
    BY <2>2, <2>3 DEF PoolStep
<1> QED
  BY <1>1, <1>2

-----------------------------------------------------------------------------
(* Queues and tasks. *)

\* A request about to be queued is open and in no queue, so the queue is shorter than
\* the number of open requests.
LEMMA RoomToSend ==
  ASSUME IInv
  PROVE  SendFindsRoom
<1> USE DEF IInv
<1> SUFFICES ASSUME NEW r \in Requests, httpd = At("send", r)
             PROVE  Len(reqQ[handler[r]]) < MAX_AMOUNT_OF_WORKERS
  BY DEF SendFindsRoom
<1> DEFINE q == reqQ[handler[r]]
<1>1. /\ handler[r] \in Handlers /\ q \in Seq(Requests)
      /\ Len(q) \in Nat /\ q \in [1 .. Len(q) -> Requests]
  BY LenProperties DEF TypeOK
<1>2. state[r] = "accepted" /\ r \in Open
  BY DEF HandlerHasRequest, Open
<1>3. \A k \in 1 .. Len(q) : q[k] \in Open \ {r}
  BY <1>1, <1>2 DEF QueuedOnce, Open
<1>4. \A k, l \in 1 .. Len(q) : q[k] = q[l] => k = l
  BY <1>1 DEF QueuedOnce
<1>5. q \in Injection(1 .. Len(q), Open \ {r})
  <2> HIDE DEF q
  <2> QED
    BY <1>1, <1>3, <1>4 DEF Injection, IsInjective
<1>6. /\ IsFiniteSet(Open \ {r})
      /\ Cardinality(Open \ {r}) = Cardinality(Open) - 1
  BY <1>2, OpenFinite, FS_RemoveElement
<1>7. Cardinality(1 .. Len(q)) <= Cardinality(Open) - 1
  BY <1>5, <1>6, FS_Injection
<1>8. Cardinality(1 .. Len(q)) = Len(q)
  BY <1>1, FS_Interval
<1>9. Cardinality(Open) <= MAX_AMOUNT_OF_WORKERS
  BY OpenFinite DEF PermitsAddUp, TypeOK
<1> QED
  BY <1>1, <1>7, <1>8, <1>9, OpenFinite

\* The requests of handler h that are queued and whose task is not created yet.
Creating(h) == {r \in Requests : httpd = At("create", r) /\ handler[r] = h}

\* There is one while the httpd task is between the two calls, and none otherwise.
LEMMA NoneCreating ==
  ASSUME NEW h, httpd.pc # "create"
  PROVE  Creating(h) = {} /\ Cardinality(Creating(h)) = 0
<1>1. Creating(h) = {}
  BY DEF Creating, At
<1> QED
  BY <1>1, FS_EmptySet

LEMMA OneCreating ==
  ASSUME NEW r \in Requests, httpd = At("create", r), NEW h
  PROVE  Cardinality(Creating(h)) = IF handler[r] = h THEN 1 ELSE 0
<1>1. \A p \in Requests : At("create", p) = At("create", r) => p = r
  BY DEF At
<1>2. Creating(h) = IF handler[r] = h THEN {r} ELSE {}
  BY <1>1 DEF Creating
<1> QED
  BY <1>2, FS_EmptySet, FS_Singleton

LEMMA MatchInitially == Init => WorkersMatch
<1> SUFFICES ASSUME Init PROVE WorkersMatch
  OBVIOUS
<1> SUFFICES ASSUME NEW h \in Handlers
             PROVE  Len(reqQ[h]) = waiting[h] + orphans[h] + Cardinality(Creating(h))
  BY DEF WorkersMatch, Creating
<1>1. Cardinality(Creating(h)) = 0
  BY NoneCreating DEF Init, Idle
<1>2. reqQ[h] = <<>> /\ waiting[h] = 0 /\ orphans[h] = 0
  BY DEF Init
<1> QED
  BY <1>1, <1>2

LEMMA MatchStep ==
  ASSUME IInv, WorkersMatch, [Next]_vars
  PROVE  WorkersMatch'
<1> USE DEF IInv
<1> SUFFICES ASSUME NEW h \in Handlers
             PROVE  Len(reqQ'[h]) = waiting'[h] + orphans'[h] + Cardinality(Creating(h)')
  BY DEF WorkersMatch, Creating
<1>1. /\ Len(reqQ[h]) = waiting[h] + orphans[h] + Cardinality(Creating(h))
      /\ waiting[h] \in Nat /\ orphans[h] \in Nat /\ reqQ[h] \in Seq(Requests)
      /\ Len(reqQ[h]) \in Nat
  BY LenProperties DEF WorkersMatch, Creating, TypeOK
<1>2. ASSUME NEW r \in Requests, NEW g \in Handlers, Take(r, g)
      PROVE  Len(reqQ'[h]) = waiting'[h] + orphans'[h] + Cardinality(Creating(h)')
  <2>1. httpd.pc # "create" /\ httpd'.pc # "create"
    BY <1>2 DEF Take, Idle, At
  <2>2. Cardinality(Creating(h)) = 0 /\ Cardinality(Creating(h)') = 0
    <3>1. Creating(h) = {} /\ Creating(h)' = {}
      BY <2>1 DEF Creating, At
    <3> QED
      BY <3>1, FS_EmptySet
  <2> QED
    BY <1>1, <1>2, <2>2 DEF Take
<1>3. ASSUME NEW r \in Requests, BeginOk(r) \/ BeginFails(r)
      PROVE  Len(reqQ'[h]) = waiting'[h] + orphans'[h] + Cardinality(Creating(h)')
  <2>1. httpd.pc # "create" /\ httpd'.pc # "create"
    BY <1>3 DEF BeginOk, BeginFails, Idle, At
  <2>2. Cardinality(Creating(h)) = 0 /\ Cardinality(Creating(h)') = 0
    <3>1. Creating(h) = {} /\ Creating(h)' = {}
      BY <2>1 DEF Creating, At
    <3> QED
      BY <3>1, FS_EmptySet
  <2> QED
    BY <1>1, <1>3, <2>2 DEF BeginOk, BeginFails
<1>4. ASSUME NEW r \in Requests, SendCopy(r)
      PROVE  Len(reqQ'[h]) = waiting'[h] + orphans'[h] + Cardinality(Creating(h)')
  <2>1. Cardinality(Creating(h)) = 0
    BY <1>4, NoneCreating DEF SendCopy, At
  <2>2. Cardinality(Creating(h)') = IF handler[r] = h THEN 1 ELSE 0
    <3>1. httpd' = At("create", r) /\ handler' = handler
      BY <1>4 DEF SendCopy
    <3>2. \A p \in Requests : At("create", p) = At("create", r) => p = r
      BY DEF At
    <3>3. Creating(h)' = IF handler[r] = h THEN {r} ELSE {}
      BY <3>1, <3>2 DEF Creating
    <3> QED
      BY <3>3, FS_EmptySet, FS_Singleton
  <2>3. CASE handler[r] = h
    <3>1. reqQ'[h] = Append(reqQ[h], r)
      BY <1>4, <2>3 DEF SendCopy, TypeOK
    <3>2. Len(reqQ'[h]) = Len(reqQ[h]) + 1
      BY <3>1, <1>1, AppendProperties
    <3> QED
      BY <3>2, <1>1, <1>4, <2>1, <2>2, <2>3 DEF SendCopy
  <2>4. CASE handler[r] # h
    BY <1>1, <1>4, <2>1, <2>2, <2>4 DEF SendCopy, TypeOK
  <2> QED
    BY <2>3, <2>4
<1>5. ASSUME NEW r \in Requests, CreateOk(r) \/ CreateFails(r)
      PROVE  Len(reqQ'[h]) = waiting'[h] + orphans'[h] + Cardinality(Creating(h)')
  <2>1. Cardinality(Creating(h)) = IF handler[r] = h THEN 1 ELSE 0
    BY <1>5, OneCreating DEF CreateOk, CreateFails
  <2>2. Cardinality(Creating(h)') = 0
    <3>1. Creating(h)' = {}
      BY <1>5 DEF CreateOk, CreateFails, Idle, Creating, At
    <3> QED
      BY <3>1, FS_EmptySet
  <2>3. CASE CreateOk(r)
    <3>1. /\ waiting'[h] = waiting[h] + (IF handler[r] = h THEN 1 ELSE 0)
          /\ UNCHANGED <<reqQ, orphans>>
      BY <2>3 DEF CreateOk, TypeOK
    <3> QED
      BY <3>1, <1>1, <2>1, <2>2
  <2>4. CASE CreateFails(r)
    <3>1. /\ orphans'[h] = orphans[h] + (IF handler[r] = h THEN 1 ELSE 0)
          /\ UNCHANGED <<reqQ, waiting>>
      BY <2>4 DEF CreateFails, TypeOK
    <3> QED
      BY <3>1, <1>1, <2>1, <2>2
  <2> QED
    BY <1>5, <2>3, <2>4
<1>6. ASSUME NEW g \in Handlers, Receive(g)
      PROVE  Len(reqQ'[h]) = waiting'[h] + orphans'[h] + Cardinality(Creating(h)')
  <2>1. Creating(h)' = Creating(h)
    BY <1>6 DEF Receive, Creating
  <2>2. Cardinality(Creating(h)) = Len(reqQ[h]) - waiting[h] - orphans[h]
    <3>1. Creating(h) \in SUBSET Requests
      BY DEF Creating
    <3>2. Cardinality(Creating(h)) \in Nat
      BY <3>1, FS_Subset, FS_CardinalityType
    <3> QED
      BY <1>1, <3>2
  <2>3. CASE g = h
    <3>1. reqQ'[h] = Tail(reqQ[h]) /\ reqQ[h] # <<>>
      BY <1>6, <2>3 DEF Receive, TypeOK
    <3>2. Len(reqQ'[h]) = Len(reqQ[h]) - 1
      BY <3>1, <1>1, HeadTailProperties
    <3>3. waiting'[h] = waiting[h] - 1 /\ orphans' = orphans
      BY <1>6, <2>3 DEF Receive, TypeOK
    <3> QED
      BY <3>2, <3>3, <1>1, <2>1, <2>2
  <2>4. CASE g # h
    BY <1>1, <1>6, <2>1, <2>4 DEF Receive, TypeOK
  <2> QED
    BY <2>3, <2>4
<1>7. ASSUME UNCHANGED <<httpd, handler, reqQ, waiting, orphans>>
      PROVE  Len(reqQ'[h]) = waiting'[h] + orphans'[h] + Cardinality(Creating(h)')
  <2>1. Creating(h)' = Creating(h)
    BY <1>7 DEF Creating
  <2> QED
    BY <1>1, <1>7, <2>1
<1>8. ASSUME NEW r \in Requests, Worker(r)
      PROVE  UNCHANGED <<httpd, handler, reqQ, waiting, orphans>>
  BY <1>8 DEF Worker, Body, Work, Complete
<1>9. ASSUME Give \/ UNCHANGED vars
      PROVE  UNCHANGED <<httpd, handler, reqQ, waiting, orphans>>
  BY <1>9 DEF Give, vars
<1> QED
  BY <1>2, <1>3, <1>4, <1>5, <1>6, <1>7, <1>8, <1>9 DEF Next, Httpd

-----------------------------------------------------------------------------
(* The theorems. *)

LEMMA Invariance == Spec => []IInv
BY Initially, Step, PTL DEF Spec

\* The permits stay between zero and MAX_AMOUNT_OF_WORKERS, and what the queues and
\* counters of main/async_server_utils.h hold is of its type.
THEOREM TypeCorrectness == Spec => []TypeOK
BY Invariance, PTL DEF IInv

\* Every permit is free, held, or lost to a failed copy (async_server_utils.h:53).
THEOREM PermitAccounting == Spec => []PermitsAddUp
BY Invariance, PTL DEF IInv

\* The send of async_server_utils.h:58 never finds its queue full.
THEOREM SendHasRoom == Spec => []SendFindsRoom
BY Invariance, RoomToSend, PTL

\* A task that waits has a request to find, orphans apart (async_server_utils.h:59).
THEOREM QueueMatchesTasks == Spec => []WorkersMatch
BY MatchInitially, MatchStep, Invariance, PTL DEF Spec

\* The handlers and their tasks implement a pool that can only shrink.
THEOREM Refinement == Spec => ImplementsPool
<1>1. Init => Pool!PoolInit
  BY DEF Init, Pool!PoolInit, Open
<1>2. IInv /\ [Next]_vars => [Pool!PoolNext]_(Pool!poolVars)
  BY Step DEF PoolStep
<1> QED
  BY <1>1, <1>2, Invariance, PTL DEF Spec, ImplementsPool, Pool!PoolSpec
=============================================================================
