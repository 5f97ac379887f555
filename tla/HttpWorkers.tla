---------------------------- MODULE HttpWorkers ----------------------------
(***************************************************************************)
(* The asynchronous HTTP server: the handler that the macros of            *)
(* main/async_server_utils.h generate for each URI runs in the httpd task, *)
(* takes a permit, copies the request, queues the copy and creates a task  *)
(* for it; the task (main/server.c) takes a copy from its handler's queue, *)
(* reads the body, parses, answers, completes the request, gives the       *)
(* permit back and deletes itself.                                         *)
(*                                                                         *)
(* External: a socket has one request at a time, copying a request and     *)
(* creating a task may fail for want of memory, a body may not come.       *)
(* Waiting tasks are counted, since nothing tells them apart; what a task  *)
(* does once it has a request is kept with the request.                    *)
(***************************************************************************)
EXTENDS Integers, Sequences, FiniteSets

CONSTANTS
  Requests,                \* sockets that may have a request open
  MAX_AMOUNT_OF_WORKERS,   \* permits, and depth of the queues        (30)
  MaxFailures              \* bound: failed copies and creations

ASSUME HttpWorkersAssumption ==
  /\ IsFiniteSet(Requests)
  /\ MAX_AMOUNT_OF_WORKERS \in Nat \ {0}
  /\ MaxFailures \in Nat

VARIABLES
  httpd,     \* the httpd task: where it is in a handler, and with which request
  handler,   \* per request: the handler it came to
  state,     \* per request: closed, accepted, queued, received, running
  todo,      \* per request: what its worker has left to do
  reqQ,      \* xQueueAsyncReq
  waiting,   \* per handler: tasks in the loop of START_ASYNC_HANDLE
  permits,   \* xSemaphoreCountWorker
  closing,   \* tasks that have completed their request and hold their permit
  leaked,    \* history: permits that no task will give back
  orphans    \* history, per handler: requests queued without a task

vars == <<httpd, handler, state, todo, reqQ, waiting, permits, closing,
          leaked, orphans>>

Handlers == {"BLE_POST", "CAMERA_POST"}
Idle     == [pc |-> "idle", req |-> {}]
At(pc, r) == [pc |-> pc, req |-> {r}]
Open     == {r \in Requests : state[r] # "closed"}
Failures == leaked + orphans["BLE_POST"] + orphans["CAMERA_POST"]

\* What a task does with a body: the BLE task gives up on a late body, the camera task
\* looks for a trigger or an interval in whatever it has read.
Tasks(h) ==
  IF h = "BLE_POST" THEN {<<"answer">>, <<"parse", "answer">>}
  ELSE {<<"answer", "parse">>, <<"parse", "answer">>, <<>>}

Init ==
  /\ httpd = Idle
  /\ handler = [r \in Requests |-> "BLE_POST"]
  /\ state = [r \in Requests |-> "closed"]
  /\ todo = [r \in Requests |-> <<>>]
  /\ reqQ = [h \in Handlers |-> <<>>]
  /\ waiting = [h \in Handlers |-> 0]
  /\ permits = MAX_AMOUNT_OF_WORKERS
  /\ closing = 0 /\ leaked = 0
  /\ orphans = [h \in Handlers |-> 0]

-----------------------------------------------------------------------------
(* The handler, in the httpd task.  Without a permit it answers 408 itself and *)
(* changes nothing here.                                                       *)

\* Fault: the permit is looked at but not taken.
TakeUncounted(r, h) ==
  /\ httpd = Idle /\ state[r] = "closed"
  /\ permits > 0
  /\ httpd' = At("begin", r)
  /\ handler' = [handler EXCEPT ![r] = h]
  /\ state' = [state EXCEPT ![r] = "accepted"]
  /\ UNCHANGED <<todo, reqQ, waiting, permits, closing, leaked, orphans>>

Take(r, h) ==
  /\ httpd = Idle /\ state[r] = "closed"
  /\ permits > 0
  /\ permits' = permits - 1
  /\ httpd' = At("begin", r)
  /\ handler' = [handler EXCEPT ![r] = h]
  /\ state' = [state EXCEPT ![r] = "accepted"]
  /\ UNCHANGED <<todo, reqQ, waiting, closing, leaked, orphans>>

BeginOk(r) ==
  /\ httpd = At("begin", r)
  /\ httpd' = At("send", r)
  /\ UNCHANGED <<handler, state, todo, reqQ, waiting, permits, closing,
                 leaked, orphans>>

\* The copy fails: the handler returns with its permit.
BeginFails(r) ==
  /\ httpd = At("begin", r)
  /\ Failures < MaxFailures
  /\ httpd' = Idle
  /\ state' = [state EXCEPT ![r] = "closed"]
  /\ leaked' = leaked + 1
  /\ UNCHANGED <<handler, todo, reqQ, waiting, permits, closing, orphans>>

\* Fault: the task is created before the request is queued.
SendSecond(r) ==
  /\ httpd = At("send", r)
  /\ httpd' = At("create", r)
  /\ waiting' = [waiting EXCEPT ![handler[r]] = @ + 1]
  /\ state' = [state EXCEPT ![r] = "queued"]
  /\ UNCHANGED <<handler, todo, reqQ, permits, closing, leaked, orphans>>

SendCopy(r) ==
  /\ httpd = At("send", r)
  /\ Len(reqQ[handler[r]]) < MAX_AMOUNT_OF_WORKERS
  /\ reqQ' = [reqQ EXCEPT ![handler[r]] = Append(@, r)]
  /\ state' = [state EXCEPT ![r] = "queued"]
  /\ httpd' = At("create", r)
  /\ UNCHANGED <<handler, todo, waiting, permits, closing, leaked, orphans>>

CreateOk(r) ==
  /\ httpd = At("create", r)
  /\ waiting' = [waiting EXCEPT ![handler[r]] = @ + 1]
  /\ httpd' = Idle
  /\ UNCHANGED <<handler, state, todo, reqQ, permits, closing, leaked, orphans>>

\* Nobody looks at the result of xTaskCreate.
CreateFails(r) ==
  /\ httpd = At("create", r)
  /\ Failures < MaxFailures
  /\ orphans' = [orphans EXCEPT ![handler[r]] = @ + 1]
  /\ httpd' = Idle
  /\ UNCHANGED <<handler, state, todo, reqQ, waiting, permits, closing, leaked>>

-----------------------------------------------------------------------------
(* The worker tasks. *)

\* START_ASYNC_HANDLE: any waiting task may get the oldest request.
Receive(h) ==
  /\ waiting[h] > 0 /\ reqQ[h] # <<>>
  /\ waiting' = [waiting EXCEPT ![h] = @ - 1]
  /\ state' = [state EXCEPT ![Head(reqQ[h])] = "received"]
  /\ reqQ' = [reqQ EXCEPT ![h] = Tail(@)]
  /\ UNCHANGED <<httpd, handler, todo, permits, closing, leaked, orphans>>

\* httpd_req_recv returns.
Body(r) ==
  /\ state[r] = "received"
  /\ \E tasks \in Tasks(handler[r]) : todo' = [todo EXCEPT ![r] = tasks]
  /\ state' = [state EXCEPT ![r] = "running"]
  /\ UNCHANGED <<httpd, handler, reqQ, waiting, permits, closing, leaked, orphans>>

\* The next call of the task: a parser, or a response.
Work(r) ==
  /\ todo[r] # <<>>
  /\ todo' = [todo EXCEPT ![r] = Tail(@)]
  /\ UNCHANGED <<httpd, handler, state, reqQ, waiting, permits, closing, leaked, orphans>>

\* Fault: a path ends without the permit.
CompleteForgets(r) ==
  /\ state[r] = "running" /\ todo[r] = <<>>
  /\ state' = [state EXCEPT ![r] = "closed"]
  /\ UNCHANGED <<httpd, handler, todo, reqQ, waiting, permits, closing, leaked, orphans>>

\* END_ASYNC_HANDLE: the request is completed, and its socket is free ...
Complete(r) ==
  /\ state[r] = "running" /\ todo[r] = <<>>
  /\ state' = [state EXCEPT ![r] = "closed"]
  /\ closing' = closing + 1
  /\ UNCHANGED <<httpd, handler, todo, reqQ, waiting, permits, leaked, orphans>>

\* Fault: the permit is given twice, by the answer to a late body and by the end.
GiveTwice ==
  /\ closing > 0
  /\ closing' = closing - 1
  /\ permits' = permits + 2
  /\ UNCHANGED <<httpd, handler, state, todo, reqQ, waiting, leaked, orphans>>

\* ... before the permit is given back.
Give ==
  /\ closing > 0
  /\ closing' = closing - 1
  /\ permits' = permits + 1
  /\ UNCHANGED <<httpd, handler, state, todo, reqQ, waiting, leaked, orphans>>

Httpd(r)  == BeginOk(r) \/ BeginFails(r) \/ SendCopy(r) \/ CreateOk(r) \/ CreateFails(r)
Worker(r) == Body(r) \/ Work(r) \/ Complete(r)

Next ==
  \/ \E r \in Requests, h \in Handlers : Take(r, h)
  \/ \E r \in Requests : Httpd(r) \/ Worker(r)
  \/ \E h \in Handlers : Receive(h)
  \/ Give

Spec == Init /\ [][Next]_vars

\* The httpd task and the workers keep running, and httpd_req_recv returns, with a
\* body or a timeout.
FairSpec ==
  /\ Spec
  /\ \A r \in Requests : WF_vars(Httpd(r)) /\ WF_vars(Worker(r))
  /\ \A h \in Handlers : WF_vars(Receive(h))
  /\ WF_vars(Give)

-----------------------------------------------------------------------------
TypeOK ==
  /\ httpd \in [pc : {"idle", "begin", "send", "create"}, req : SUBSET Requests]
  /\ handler \in [Requests -> Handlers]
  /\ state \in [Requests -> {"closed", "accepted", "queued", "received", "running"}]
  /\ todo \in [Requests -> Seq({"answer", "parse"})]
  /\ reqQ \in [Handlers -> Seq(Requests)]
  /\ waiting \in [Handlers -> Nat]
  /\ permits \in 0 .. MAX_AMOUNT_OF_WORKERS
  /\ closing \in Nat /\ leaked \in Nat
  /\ orphans \in [Handlers -> Nat]

\* Every permit is free, held by an open request or a task about to end, or one of
\* those a failed copy has taken: no path of the handlers gives one back twice or
\* forgets another.
PermitsAddUp ==
  permits + Cardinality(Open) + closing + leaked = MAX_AMOUNT_OF_WORKERS

\* A task that waits in START_ASYNC_HANDLE has a request to find, whichever task took
\* which: queues and tasks differ only by the requests whose task was not created.
WorkersMatch ==
  \A h \in Handlers :
    Len(reqQ[h]) = waiting[h] + orphans[h]
                   + Cardinality({r \in Requests : httpd = At("create", r) /\ handler[r] = h})

\* The send to the queue never finds it full, orphans included.
SendFindsRoom ==
  \A r \in Requests : httpd = At("send", r) => Len(reqQ[handler[r]]) < MAX_AMOUNT_OF_WORKERS

\* The server is a pool of MAX_AMOUNT_OF_WORKERS places, of which only failed copies
\* take any away.
Pool == INSTANCE RequestPool WITH
  open   <- Open,
  places <- MAX_AMOUNT_OF_WORKERS - leaked,
  Capacity <- MAX_AMOUNT_OF_WORKERS
ImplementsPool == Pool!PoolSpec

\* A request that is accepted is served to its end, unless a task of its handler could
\* not be created: then it may be the one left in the queue.
Served ==
  \A r \in Requests :
    state[r] # "closed" ~> state[r] = "closed" \/ orphans[handler[r]] > 0

\* As long as fewer copies and tasks have failed than there are permits, the server
\* always comes back to accepting requests: a request without a task costs one permit,
\* however often its place is taken by another.
Recovers == [](Failures < MAX_AMOUNT_OF_WORKERS) => []<>(permits > 0)
=============================================================================
