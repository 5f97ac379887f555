----------------------------- MODULE BootProofs -----------------------------
(***************************************************************************)
(* TypeOK and StateFollowsStation of Boot, for any number of connection    *)
(* attempts, of restarts and of waiting events.  StateFollowsStation says  *)
(* nothing while an event waits, so it is not inductive; LastEventTells is *)
(* the part that is missing: the event posted last tells what the station  *)
(* is, whatever waits before it, and handling one event leaves the last    *)
(* one last or, when it was the only one, turns it into STATE[WIFI].       *)
(***************************************************************************)
EXTENDS Boot, SequenceTheorems, TLAPS

EventNames == {"STA_START", "STA_DISCONNECTED", "GOT_IP"}

\* Until wifi_init has started the radio nothing is posted.
Silent == pc \in {0, 1} => station = "off" /\ events = <<>> /\ ~wifiState

LastEventTells ==
  events # <<>> => (events[Len(events)] = "GOT_IP" <=> station = "up")

IInv == TypeOK /\ Silent /\ LastEventTells /\ StateFollowsStation

-----------------------------------------------------------------------------
\* The names of app_main's stages that the guards test.
LEMMA StageFacts ==
  /\ Len(Stages) = 13
  /\ Stages[1] = "storage" /\ Stages[2] = "radio"
  /\ \A k \in 1 .. 13 : k # 2 => Stages[k] # "radio"
  /\ \A k \in 1 .. 13 : k # 3 => Stages[k] # "connect"
BY DEF Stages

LEMMA InitInv == Init => IInv
<1> SUFFICES ASSUME Init PROVE IInv
  OBVIOUS
<1>1. <<>> \in Seq(EventNames) /\ Len(<<>>) = 0
  BY DEF EventNames
<1>2. TypeOK
  <2>1. pc \in 0 .. Len(Stages) /\ Len(events) <= MaxEvents + 1 /\ aborts \in 0 .. MaxAborts
    BY <1>1, BootAssumption, StageFacts DEF Init
  <2>2. wifiState \in BOOLEAN
    BY DEF Init
  <2>3. events \in Seq({"STA_START", "STA_DISCONNECTED", "GOT_IP"})
    BY <1>1 DEF Init, EventNames
  <2> QED
    BY <2>1, <2>2, <2>3 DEF Init, TypeOK
<1> QED
  BY <1>2 DEF Init, IInv, Silent, LastEventTells, StateFollowsStation

\* A restart is an initial state but for the count of restarts.
LEMMA AbortInv ==
  ASSUME IInv, Abort PROVE IInv'
<1>1. <<>> \in Seq(EventNames) /\ Len(<<>>) = 0
  BY DEF EventNames
<1>2. TypeOK'
  <2>1. /\ pc' \in 0 .. Len(Stages) /\ Len(events') <= MaxEvents + 1
        /\ aborts' \in 0 .. MaxAborts
    BY <1>1, BootAssumption, StageFacts DEF Abort, IInv, TypeOK
  <2>2. wifiState' \in BOOLEAN
    BY DEF Abort
  <2>3. events' \in Seq({"STA_START", "STA_DISCONNECTED", "GOT_IP"})
    BY <1>1 DEF Abort, EventNames
  <2> QED
    BY <2>1, <2>2, <2>3 DEF Abort, TypeOK
<1> QED
  BY <1>2 DEF Abort, IInv, Silent, LastEventTells, StateFollowsStation

\* Posting an event that tells what the station becomes.
LEMMA PostInv ==
  ASSUME IInv, NEW s \in {"idle", "up"}, NEW e \in EventNames,
         e = "GOT_IP" <=> s = "up",
         Len(events) < MaxEvents + 1,
         station' = s, events' = Append(events, e),
         pc' \in 2 .. 13, repeats' = repeats, wifiState' = wifiState, aborts' = aborts
  PROVE  IInv'
<1>1. events \in Seq(EventNames)
  BY DEF IInv, TypeOK, EventNames
<1>2. /\ events' \in Seq(EventNames)
      /\ Len(events') = Len(events) + 1
      /\ events'[Len(events')] = e
      /\ events' # <<>>
  BY <1>1, AppendProperties
<1>3. TypeOK'
  BY <1>1, <1>2, LenProperties, BootAssumption, StageFacts DEF IInv, TypeOK, EventNames
<1>4. Silent' /\ LastEventTells' /\ StateFollowsStation'
  BY <1>2 DEF Silent, LastEventTells, StateFollowsStation
<1> QED
  BY <1>3, <1>4 DEF IInv

\* Handling an event whose effect on STATE[WIFI] is what it tells of the station.
LEMMA HandleInv ==
  ASSUME IInv, NEW e \in EventNames, Handle(e),
         wifiState' = (e = "GOT_IP"),
         repeats' \in {None} \cup 0 .. Attempts - 1,
         UNCHANGED <<pc, station, aborts>>
  PROVE  IInv'
<1>1. events \in Seq(EventNames) /\ events # <<>> /\ Head(events) = e /\ events' = Tail(events)
  BY DEF IInv, TypeOK, EventNames, Handle
<1>2. /\ events' \in Seq(EventNames)
      /\ Len(events') = Len(events) - 1
      /\ \A i \in 1 .. Len(events') : events'[i] = events[i + 1]
      /\ events[1] = e
  BY <1>1, HeadTailProperties
<1>3. Len(events) \in Nat /\ Len(events') \in Nat
  BY <1>1, <1>2, LenProperties
<1>4. TypeOK'
  <2>1. Len(events') <= MaxEvents + 1
    BY <1>2, <1>3, BootAssumption DEF IInv, TypeOK
  <2>2. wifiState' \in BOOLEAN
    OBVIOUS
  <2> QED
    BY <1>2, <2>1, <2>2 DEF IInv, TypeOK, EventNames
<1>5. pc \notin {0, 1}
  BY <1>1 DEF IInv, Silent
<1>6. CASE events' = <<>>
  <2>1. Len(events') = 0
    BY <1>6
  <2>2. Len(events) = 1
    BY <1>2, <1>3, <2>1
  <2> QED
    BY <1>1, <1>2, <1>4, <1>5, <1>6, <2>2
    DEF IInv, Silent, LastEventTells, StateFollowsStation
<1>7. CASE events' # <<>>
  <2>1. Len(events') # 0
    BY <1>2, <1>7, EmptySeq
  <2>2. Len(events') \in 1 .. Len(events') /\ Len(events') + 1 = Len(events)
    BY <1>2, <1>3, <2>1
  <2>3. events'[Len(events')] = events[Len(events)]
    BY <1>2, <2>2
  <2> QED
    BY <1>1, <1>4, <1>5, <1>7, <2>3
    DEF IInv, Silent, LastEventTells, StateFollowsStation
<1> QED
  BY <1>6, <1>7

\* A step that posts nothing, handles nothing, and changes the station at most from
\* idle to trying.
LEMMA QuietInv ==
  ASSUME IInv,
         pc' \in 0 .. 13, pc' \in {0, 1} => pc' = pc \/ pc = 0,
         repeats' \in {None} \cup 0 .. Attempts - 1,
         station' = station \/ (station = "idle" /\ station' = "trying"),
         UNCHANGED <<events, wifiState, aborts>>
  PROVE  IInv'
<1>1. TypeOK'
  BY StageFacts DEF IInv, TypeOK
<1>2. Silent' /\ LastEventTells' /\ StateFollowsStation'
  BY DEF IInv, Silent, LastEventTells, StateFollowsStation
<1> QED
  BY <1>1, <1>2 DEF IInv

LEMMA NextInv == IInv /\ [Next]_vars => IInv'
<1> SUFFICES ASSUME IInv, [Next]_vars PROVE IInv'
  OBVIOUS
<1> USE DEF IInv
<1>0. /\ pc \in 0 .. 13 /\ repeats \in {None} \cup 0 .. Attempts - 1
      /\ Attempts \in Nat \ {0} /\ MaxEvents \in Nat \ {0}
      /\ events \in Seq(EventNames) /\ Len(events) \in Nat
  BY BootAssumption, StageFacts, LenProperties DEF TypeOK, EventNames
<1>1. CASE StartRadio
  <2>1. pc = 1
    BY <1>0, <1>1, StageFacts DEF StartRadio, At
  <2>2. Len(events) = 0
    BY <2>1 DEF Silent
  <2> QED
    BY <1>0, <1>1, <2>1, <2>2, PostInv DEF StartRadio, EventNames
<1>2. CASE Connect
  <2>1. pc = 2
    BY <1>0, <1>2, StageFacts DEF Connect, At, Stages
  <2> QED
    BY <1>0, <1>2, <2>1, QuietInv DEF Connect
<1>3. CASE BlockTask
  <2>1. pc # 0 /\ pc < 13
    BY <1>0, <1>3, StageFacts DEF BlockTask, At
  <2> QED
    BY <1>0, <1>3, <2>1, QuietInv DEF BlockTask
<1>4. CASE Create
  <2>1. pc # 1 /\ pc < 13
    BY <1>0, <1>4, StageFacts DEF Create
  <2> QED
    BY <1>0, <1>4, <2>1, QuietInv DEF Create
<1>5. CASE Fails
  BY <1>5, AbortInv DEF Fails, MountFails, NvsFails, ServerFails
<1>6. CASE StaDown
  <2>1. PICK e \in {"STA_START", "STA_DISCONNECTED"} : Handle(e)
    BY <1>6 DEF StaDown
  <2>2. e \in EventNames /\ e # "GOT_IP"
    BY <2>1 DEF EventNames
  <2>3. wifiState' = (e = "GOT_IP")
    BY <1>6, <2>2 DEF StaDown
  <2>4. repeats' \in {None} \cup 0 .. Attempts - 1
    BY <1>0, <1>6 DEF StaDown
  <2> QED
    BY <1>6, <2>1, <2>2, <2>3, <2>4, HandleInv DEF StaDown
<1>7. CASE GotIp
  BY <1>0, <1>7, HandleInv DEF GotIp, EventNames
<1>8. CASE ConnectOk
  BY <1>0, <1>8, QuietInv DEF ConnectOk
<1>9. CASE ConnectFails
  BY <1>0, <1>9, QuietInv DEF ConnectFails, None
<1>10. CASE GiveUp
  BY <1>10, AbortInv DEF GiveUp
<1>11. CASE LinkUp
  <2>1. pc \notin {0, 1}
    BY <1>11 DEF LinkUp, Silent
  <2> QED
    BY <1>0, <1>11, <2>1, PostInv DEF LinkUp, Becomes, EventNames
<1>12. CASE LinkDown
  <2>1. pc \notin {0, 1}
    BY <1>12 DEF LinkDown, Silent
  <2> QED
    BY <1>0, <1>12, <2>1, PostInv DEF LinkDown, Becomes, EventNames
<1>13. CASE UNCHANGED vars
  BY <1>0, <1>13, QuietInv DEF vars
<1> QED
  BY <1>1, <1>2, <1>3, <1>4, <1>5, <1>6, <1>7, <1>8, <1>9, <1>10, <1>11, <1>12, <1>13
  DEF Next, AppMain, EventLoop

LEMMA Invariance == Spec => []IInv
BY InitInv, NextInv, PTL DEF Spec

-----------------------------------------------------------------------------
\* app_main, the handler and the radio keep their variables within their ranges: the
\* handler never counts to the attempt that would abort without aborting.
THEOREM TypeCorrect == Spec => []TypeOK
<1>1. IInv => TypeOK
  BY DEF IInv
<1> QED
  BY <1>1, Invariance, PTL

\* Once _wifi_event_handler has handled every event, STATE[WIFI] is the state of the
\* connection, however many events had gathered while it was held up.
THEOREM StateFollows == Spec => []StateFollowsStation
<1>1. IInv => StateFollowsStation
  BY DEF IInv
<1> QED
  BY <1>1, Invariance, PTL
=============================================================================
