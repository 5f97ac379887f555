------------------------- MODULE OfflineStoreProofs -------------------------
(***************************************************************************)
(* For any number of events and of power failures:                         *)
(*                                                                         *)
(* The unlocked file counter stays between zero and the number of files    *)
(* counted since boot, whatever increments and decrements overwrite each   *)
(* other.  The reason is that only the sender counts down, that it looks   *)
(* at the counter before it does, and that a writer's late store is never  *)
(* below one.                                                              *)
(*                                                                         *)
(* TypeOK follows from a budget: each event is raised, handled or counted  *)
(* once, so the counter, and every number taken from it, is at most the    *)
(* number of events.                                                       *)
(*                                                                         *)
(* OnePath follows from what each writer holds between its test of the     *)
(* gate and the end of its write or publish: an event that the other       *)
(* writer cannot hold and that has gone neither way yet.                   *)
(***************************************************************************)
EXTENDS OfflineStore, FiniteSetTheorems, TLAPS

CountTypes ==
  /\ count \in Int
  /\ counted \in Nat
  /\ loaded \in [Tasks -> Int]
  /\ pc \in [Writers -> {"receive", "publish", "name", "open", "write",
                         "load", "store"}]
  /\ spc \in {"check", "open", "read", "switch", "load", "store"}

\* What a writer has loaded was a good count when it loaded it.
WriterLoads ==
  \A w \in Writers : pc[w] = "store" => 0 <= loaded[w] /\ loaded[w] <= counted

\* From its test to its decrement the sender finds the counter positive.
SenderCounts ==
  /\ spc \in {"open", "read", "switch", "load"} => 1 <= count
  /\ spc = "store" => /\ 1 <= loaded["sendSavedTasks"]
                      /\ loaded["sendSavedTasks"] <= counted

IInv == CountTypes /\ CountWithinWritten /\ WriterLoads /\ SenderCounts

-----------------------------------------------------------------------------
LEMMA Initially == Init => IInv
BY DEF Init, IInv, CountTypes, CountWithinWritten, WriterLoads, SenderCounts

\* A step of a writer that neither loads nor stores the counter.
LEMMA WriterQuiet ==
  ASSUME IInv, NEW w \in Writers, UNCHANGED <<count, counted, loaded, spc>>,
         NEW to \in {"receive", "publish", "name", "open", "write", "load"},
         pc' = [pc EXCEPT ![w] = to]
  PROVE  IInv'
BY DEF IInv, CountTypes, CountWithinWritten, WriterLoads, SenderCounts

LEMMA WriterKeepsIInv ==
  ASSUME IInv, NEW w \in Writers, Write(w)
  PROVE  IInv'
<1> USE DEF writerKeeps
<1>1. CASE Receive(w)
  BY <1>1, WriterQuiet DEF Receive
<1>2. CASE Publish(w)
  BY <1>2, WriterQuiet DEF Publish, WriterAt
<1>3. CASE NameFile(w)
  BY <1>3, WriterQuiet DEF NameFile, WriterAt
<1>4. CASE OpenFile(w)
  BY <1>4, WriterQuiet DEF OpenFile, WriterAt
<1>5. CASE WriteFile(w)
  BY <1>5, WriterQuiet DEF WriteFile, WriterAt
<1>6. CASE LoadCount(w)
  <2>1. /\ pc' = [pc EXCEPT ![w] = "store"]
        /\ loaded' = [loaded EXCEPT ![w] = count]
        /\ UNCHANGED <<count, counted, spc>>
    BY <1>6 DEF LoadCount, WriterAt
  <2>2. w \in Tasks /\ w # "sendSavedTasks" /\ "sendSavedTasks" \in Tasks
    BY DEF Tasks, Writers
  <2> QED BY <2>1, <2>2 DEF IInv, CountTypes, CountWithinWritten, WriterLoads,
                            SenderCounts, Tasks
<1>7. CASE StoreCount(w)
  <2>1. /\ pc[w] = "store" /\ pc' = [pc EXCEPT ![w] = "receive"]
        /\ count' = loaded[w] + 1 /\ counted' = counted + 1
        /\ UNCHANGED <<loaded, spc>>
    BY <1>7 DEF StoreCount, WriterAt
  <2>2. 0 <= loaded[w] /\ loaded[w] <= counted /\ loaded[w] \in Int
    BY <2>1 DEF IInv, WriterLoads, CountTypes, Tasks
  <2>3. \A v \in Tasks : loaded[v] \in Int
    BY DEF IInv, CountTypes
  <2> QED BY <2>1, <2>2, <2>3 DEF IInv, CountTypes, CountWithinWritten, WriterLoads,
                                  SenderCounts, Tasks
<1> QED BY <1>1, <1>2, <1>3, <1>4, <1>5, <1>6, <1>7 DEF Write

LEMMA SenderKeepsIInv ==
  ASSUME IInv, Send
  PROVE  IInv'
<1> USE DEF IInv, CountTypes, CountWithinWritten, WriterLoads, SenderCounts,
            senderKeeps, SenderAt
<1>1. CASE SendCheck
  BY <1>1 DEF SendCheck
<1>2. CASE SendOpen
  BY <1>2 DEF SendOpen
<1>3. CASE SendRead
  BY <1>3 DEF SendRead
<1>4. CASE SendSwitch
  BY <1>4 DEF SendSwitch
<1>5. CASE SendLoadCount
  <2>1. \A w \in Writers : w \in Tasks /\ w # "sendSavedTasks"
    BY DEF Tasks, Writers
  <2> QED BY <1>5, <2>1 DEF SendLoadCount, Tasks
<1>6. CASE SendStoreCount
  <2>1. "sendSavedTasks" \in Tasks
    BY DEF Tasks
  <2> QED BY <1>6, <2>1 DEF SendStoreCount
<1> QED BY <1>1, <1>2, <1>3, <1>4, <1>5, <1>6 DEF Send

LEMMA Inductive == IInv /\ [Next]_vars => IInv'
<1> SUFFICES ASSUME IInv, [Next]_vars PROVE IInv'
  OBVIOUS
<1>1. CASE UNCHANGED vars
  BY <1>1 DEF vars, IInv, CountTypes, CountWithinWritten,
              WriterLoads, SenderCounts
<1>2. ASSUME NEW w \in Writers, Write(w) PROVE IInv'
  BY <1>2, WriterKeepsIInv
<1>3. CASE Send
  BY <1>3, SenderKeepsIInv
<1>4. CASE Connection
  BY <1>4 DEF Connection, IInv, CountTypes,
              CountWithinWritten, WriterLoads, SenderCounts
<1>5. CASE Reboot
  BY <1>5 DEF Reboot, IInv, CountTypes, CountWithinWritten, WriterLoads, SenderCounts
<1> QED BY <1>1, <1>2, <1>3, <1>4, <1>5 DEF Next

\* The counter never goes negative and never passes the number of files written
\* since boot, although three tasks update it without a lock.
THEOREM CounterBounds == Spec => []CountWithinWritten
<1>1. IInv => CountWithinWritten
  BY DEF IInv
<1> QED BY <1>1, Initially, Inductive, PTL DEF Spec

-----------------------------------------------------------------------------
(* Every number that names a file is within Files. *)

\* A writer that is not waiting for an event may still count the one it has.
Owes(at) == IF at = "receive" THEN 0 ELSE 1

Pending(w) == Owes(pc[w])

\* An event is raised, being handled, or counted, and no event is two of these.
Budget ==
  counted + Cardinality(raised) + Pending("RemoveTagTask") + Pending("ParkingTask")
    <= Cardinality(Events)

Numbers ==
  /\ raised \in SUBSET Events
  /\ Budget
  /\ name \in [Tasks -> Files] /\ loaded \in [Tasks -> Files]

\* The events are finitely many, so are those of any subset.
LEMMA FiniteEvents ==
  /\ IsFiniteSet(Events) /\ Cardinality(Events) \in Nat
  /\ \A S \in SUBSET Events : /\ Cardinality(S) \in Nat
                              /\ Cardinality(S) <= Cardinality(Events)
                              /\ \A T \in SUBSET S : Cardinality(T) <= Cardinality(S)
                              /\ \A e \in S : Cardinality(S \ {e}) = Cardinality(S) - 1
<1>1. IsFiniteSet(Events)
  BY OfflineStoreAssumption, FS_Union DEF Events
<1>2. ASSUME NEW S \in SUBSET Events
      PROVE  /\ Cardinality(S) \in Nat
             /\ Cardinality(S) <= Cardinality(Events)
             /\ \A T \in SUBSET S : Cardinality(T) <= Cardinality(S)
             /\ \A e \in S : Cardinality(S \ {e}) = Cardinality(S) - 1
  <2>1. IsFiniteSet(S) /\ Cardinality(S) <= Cardinality(Events)
    BY <1>1, FS_Subset
  <2> QED BY <2>1, FS_Subset, FS_CardinalityType, FS_RemoveElement
<1> QED BY <1>1, <1>2, FS_CardinalityType

LEMMA PendingType ==
  ASSUME NEW w PROVE Pending(w) \in {0, 1} /\ Pending(w)' \in {0, 1}
BY DEF Pending, Owes

\* The counter names a file: it is within what was counted, which is within the budget.
LEMMA CountIsNumber ==
  ASSUME IInv, raised \in SUBSET Events, Budget PROVE count \in Files
<1>1. Cardinality(raised) \in Nat /\ Cardinality(Events) \in Nat
  BY FiniteEvents
<1> QED BY <1>1, PendingType DEF IInv, CountTypes, CountWithinWritten, Budget, Files

LEMMA NumbersInit == Init => Numbers
<1> SUFFICES ASSUME Init PROVE Numbers
  OBVIOUS
<1>1. Pending("RemoveTagTask") = 0 /\ Pending("ParkingTask") = 0
  BY DEF Init, Pending, Owes, Writers
<1>2. 0 \in Files
  BY FiniteEvents DEF Files
<1> QED BY <1>1, <1>2, FiniteEvents DEF Init, Numbers, Budget

\* A step of one writer moves an event on and leaves the other writer's alone.
LEMMA WriterBudget ==
  ASSUME IInv, Numbers, NEW w \in Writers,
         NEW to \in {"receive", "publish", "name", "open", "write", "load", "store"},
         pc' = [pc EXCEPT ![w] = to],
         raised' \in SUBSET raised,
         counted' + Cardinality(raised') + Owes(to)
           <= counted + Cardinality(raised) + Owes(pc[w]),
         counted' \in Nat
  PROVE  Budget'
<1>1. \A v \in Writers : Pending(v)' = IF v = w THEN Owes(to)
                                       ELSE Pending(v)
  BY DEF Pending, IInv, CountTypes
<1>2. /\ Cardinality(raised) \in Nat /\ Cardinality(raised') \in Nat
      /\ Cardinality(Events) \in Nat
  BY FiniteEvents DEF Numbers
<1>3. "RemoveTagTask" \in Writers /\ "ParkingTask" \in Writers
      /\ (w = "RemoveTagTask" \/ w = "ParkingTask")
  BY DEF Writers
<1>4. /\ counted \in Nat /\ Owes(to) \in {0, 1} /\ Pending(w) = Owes(pc[w])
      /\ Pending("RemoveTagTask") \in {0, 1} /\ Pending("ParkingTask") \in {0, 1}
  BY PendingType DEF IInv, CountTypes, Pending, Owes
<1>5. CASE w = "RemoveTagTask"
  <2>1. /\ Pending("RemoveTagTask")' = Owes(to)
        /\ Pending("ParkingTask")' = Pending("ParkingTask")
    BY <1>1, <1>3, <1>5
  <2> QED BY <1>2, <1>4, <1>5, <2>1 DEF Numbers, Budget
<1>6. CASE w = "ParkingTask"
  <2>1. /\ Pending("ParkingTask")' = Owes(to)
        /\ Pending("RemoveTagTask")' = Pending("RemoveTagTask")
    BY <1>1, <1>3, <1>6
  <2> QED BY <1>2, <1>4, <1>6, <2>1 DEF Numbers, Budget
<1> QED BY <1>3, <1>5, <1>6

LEMMA NumbersInductive == IInv /\ Numbers /\ [Next]_vars => Numbers'
<1> SUFFICES ASSUME IInv, Numbers, [Next]_vars PROVE Numbers'
  OBVIOUS
<1>0. /\ raised \in SUBSET Events /\ Budget
      /\ name \in [Tasks -> Files] /\ loaded \in [Tasks -> Files]
      /\ count \in Files /\ 0 \in Files /\ counted \in Nat
      /\ Cardinality(raised) \in Nat /\ Cardinality(Events) \in Nat
  BY CountIsNumber, FiniteEvents DEF Numbers, IInv, CountTypes, Files
<1>1. ASSUME NEW w \in Writers, Write(w) PROVE Numbers'
  <2>1. CASE Receive(w)
    <3>1. PICK e \in EventsOf(w) \cap raised : raised' = raised \ {e}
      BY <2>1 DEF Receive
    <3>2. Cardinality(raised') = Cardinality(raised) - 1
      BY <1>0, <3>1, FiniteEvents
    <3>3. PICK to \in {"publish", "name"} : pc' = [pc EXCEPT ![w] = to]
      BY <2>1 DEF Receive
    <3>4. Budget'
      <4>1. counted' = counted /\ pc[w] = "receive" /\ raised' \in SUBSET raised
        BY <2>1, <3>1 DEF Receive
      <4>2. counted' + Cardinality(raised') + Owes(to)
              <= counted + Cardinality(raised) + Owes(pc[w])
        BY <1>0, <3>2, <3>3, <4>1 DEF Owes
      <4> QED BY <1>0, <3>3, <4>1, <4>2, WriterBudget
    <3> QED BY <1>0, <2>1, <3>1, <3>4 DEF Receive, Numbers
  <2>2. CASE Publish(w)
    <3>1. /\ pc[w] = "publish" /\ pc' = [pc EXCEPT ![w] = "receive"]
          /\ raised' = raised /\ counted' = counted
          /\ name' \in [Tasks -> Files] /\ loaded' \in [Tasks -> Files]
      BY <1>0, <2>2 DEF Publish, WriterAt
    <3>2. counted' + Cardinality(raised') + Owes("receive")
            <= counted + Cardinality(raised) + Owes(pc[w])
      BY <1>0, <3>1 DEF Owes
    <3>3. counted' \in Nat /\ raised' \in SUBSET raised
      BY <1>0, <3>1
    <3>4. Budget'
      BY <3>1, <3>2, <3>3, WriterBudget
    <3> QED BY <1>0, <3>1, <3>4 DEF Numbers
  <2>3. CASE NameFile(w)
    <3>1. /\ pc[w] = "name" /\ pc' = [pc EXCEPT ![w] = "open"]
          /\ raised' = raised /\ counted' = counted
          /\ name' \in [Tasks -> Files] /\ loaded' \in [Tasks -> Files]
      BY <1>0, <2>3 DEF NameFile, WriterAt
    <3>2. counted' + Cardinality(raised') + Owes("open")
            <= counted + Cardinality(raised) + Owes(pc[w])
      BY <1>0, <3>1 DEF Owes
    <3>3. counted' \in Nat /\ raised' \in SUBSET raised
      BY <1>0, <3>1
    <3>4. Budget'
      BY <3>1, <3>2, <3>3, WriterBudget
    <3> QED BY <1>0, <3>1, <3>4 DEF Numbers
  <2>4. CASE OpenFile(w)
    <3>1. PICK to \in {"write", "receive"} : pc' = [pc EXCEPT ![w] = to] /\ pc[w] = "open"
      BY <2>4 DEF OpenFile, WriterAt
    <3>2. UNCHANGED <<counted, raised, name, loaded>>
      BY <2>4 DEF OpenFile
    <3>3. Budget'
      <4>1. counted' + Cardinality(raised') + Owes(to)
              <= counted + Cardinality(raised) + Owes(pc[w])
        BY <1>0, <3>1, <3>2 DEF Owes
      <4> QED BY <1>0, <3>1, <3>2, <4>1, WriterBudget
    <3> QED BY <1>0, <3>2, <3>3 DEF Numbers
  <2>5. CASE WriteFile(w)
    <3>1. /\ pc[w] = "write" /\ pc' = [pc EXCEPT ![w] = "load"]
          /\ raised' = raised /\ counted' = counted
          /\ name' \in [Tasks -> Files] /\ loaded' \in [Tasks -> Files]
      BY <1>0, <2>5 DEF WriteFile, WriterAt
    <3>2. counted' + Cardinality(raised') + Owes("load")
            <= counted + Cardinality(raised) + Owes(pc[w])
      BY <1>0, <3>1 DEF Owes
    <3>3. counted' \in Nat /\ raised' \in SUBSET raised
      BY <1>0, <3>1
    <3>4. Budget'
      BY <3>1, <3>2, <3>3, WriterBudget
    <3> QED BY <1>0, <3>1, <3>4 DEF Numbers
  <2>6. CASE LoadCount(w)
    <3>1. /\ pc[w] = "load" /\ pc' = [pc EXCEPT ![w] = "store"]
          /\ raised' = raised /\ counted' = counted
          /\ name' \in [Tasks -> Files] /\ loaded' \in [Tasks -> Files]
      BY <1>0, <2>6 DEF LoadCount, WriterAt
    <3>2. counted' + Cardinality(raised') + Owes("store")
            <= counted + Cardinality(raised) + Owes(pc[w])
      BY <1>0, <3>1 DEF Owes
    <3>3. counted' \in Nat /\ raised' \in SUBSET raised
      BY <1>0, <3>1
    <3>4. Budget'
      BY <3>1, <3>2, <3>3, WriterBudget
    <3> QED BY <1>0, <3>1, <3>4 DEF Numbers
  <2>7. CASE StoreCount(w)
    <3>1. /\ pc[w] = "store" /\ pc' = [pc EXCEPT ![w] = "receive"]
          /\ raised' = raised /\ counted' = counted + 1
          /\ name' \in [Tasks -> Files] /\ loaded' \in [Tasks -> Files]
      BY <1>0, <2>7 DEF StoreCount, WriterAt
    <3>2. counted' + Cardinality(raised') + Owes("receive")
            <= counted + Cardinality(raised) + Owes(pc[w])
      BY <1>0, <3>1 DEF Owes
    <3>3. counted' \in Nat /\ raised' \in SUBSET raised
      BY <1>0, <3>1
    <3>4. Budget'
      BY <3>1, <3>2, <3>3, WriterBudget
    <3> QED BY <1>0, <3>1, <3>4 DEF Numbers
  <2> QED BY <1>1, <2>1, <2>2, <2>3, <2>4, <2>5, <2>6, <2>7 DEF Write
<1>2. CASE Send
  <2>1. UNCHANGED <<raised, counted, pc>>
    BY <1>2 DEF Send, SendCheck, SendOpen, SendRead, SendSwitch, SendLoadCount,
                SendStoreCount, senderKeeps
  <2>2. name' \in [Tasks -> Files] /\ loaded' \in [Tasks -> Files]
    BY <1>0, <1>2 DEF Send, SendCheck, SendOpen, SendRead, SendSwitch, SendLoadCount,
                      SendStoreCount
  <2> QED BY <1>0, <2>1, <2>2 DEF Numbers, Budget, Pending
<1>3. CASE Connection
  BY <1>0, <1>3 DEF Connection, Numbers, Budget, Pending
<1>4. CASE Reboot
  <2>1. raised' \in SUBSET raised /\ counted' = 0
    BY <1>4 DEF Reboot
  <2>2. Pending("RemoveTagTask")' = 0 /\ Pending("ParkingTask")' = 0
    BY <1>4 DEF Reboot, Pending, Owes, Writers
  <2>3. Cardinality(raised') \in Nat /\ Cardinality(raised') <= Cardinality(Events)
    BY <1>0, <2>1, FiniteEvents
  <2>4. Budget'
    BY <1>0, <2>1, <2>2, <2>3 DEF Budget
  <2> QED BY <1>0, <1>4, <2>1, <2>4 DEF Reboot, Numbers
<1>5. CASE UNCHANGED vars
  BY <1>0, <1>5 DEF vars, Numbers, Budget, Pending
<1> QED BY <1>1, <1>2, <1>3, <1>4, <1>5 DEF Next

-----------------------------------------------------------------------------
(* Which way an event went. *)

Holding == {"publish", "name", "open", "write"}

\* What is in flash, in the sender's record and at the broker from it was stored.
Contents ==
  /\ held \in [Writers -> Events \cup {Nothing}]
  /\ live \in SUBSET Events /\ stored \in SUBSET Events
  /\ file \in [Files -> stored \cup {"absent", "empty"}]
  /\ record \in stored \cup {"empty", Nothing}
  /\ replayed \in SUBSET stored
  /\ spc = "read" => file[name["sendSavedTasks"]] # "absent"

\* An event that a writer holds has gone neither way and is raised no more.
OneWay ==
  /\ raised \cap (live \cup stored) = {}
  /\ live \cap stored = {}
  /\ \A w \in Writers : pc[w] \in Holding =>
       held[w] \in EventsOf(w) \ (raised \cup live \cup stored)

Paths == Contents /\ OneWay

\* The two writers never hold the same event.
LEMMA WritersApart ==
  /\ \A w \in Writers : EventsOf(w) \in SUBSET Events
  /\ \A v, w \in Writers : v # w => EventsOf(v) \cap EventsOf(w) = {}
BY OfflineStoreAssumption DEF EventsOf, Events, Writers

LEMMA PathsInit == Init => Paths
BY DEF Init, Paths, Contents, OneWay, Holding

LEMMA WriterPaths ==
  ASSUME IInv, Numbers, Paths, NEW w \in Writers, Write(w)
  PROVE  Paths'
<1>0. /\ raised \in SUBSET Events
      /\ pc \in [Writers -> {"receive", "publish", "name", "open", "write", "load",
                             "store"}]
  BY DEF Numbers, IInv, CountTypes
<1> USE DEF Paths, Contents, OneWay, writerKeeps
<1>1. CASE Receive(w)
  <2>1. PICK e \in EventsOf(w) \cap raised :
          held' = [held EXCEPT ![w] = e] /\ raised' = raised \ {e}
    BY <1>1 DEF Receive
  <2>2. /\ \A v \in Writers \ {w} : pc'[v] = pc[v] /\ held'[v] = held[v]
        /\ held'[w] = e /\ e \in Events
        /\ UNCHANGED <<file, live, stored, record, replayed, spc, name>>
    BY <1>0, <1>1, <2>1, WritersApart DEF Receive
  <2>3. OneWay'
    BY <1>0, <2>1, <2>2
  <2> QED BY <2>1, <2>2, <2>3
<1>2. CASE Publish(w)
  <2>1. /\ pc[w] = "publish" /\ pc'[w] = "receive"
        /\ \A v \in Writers \ {w} : pc'[v] = pc[v] /\ held'[v] = held[v]
        /\ held' = [held EXCEPT ![w] = Nothing]
        /\ live' \in SUBSET (live \cup {held[w]})
        /\ UNCHANGED <<raised, file, stored, record, replayed, spc, name>>
    BY <1>0, <1>2 DEF Publish, WriterAt
  <2>2. held[w] \in EventsOf(w) \ (raised \cup live \cup stored)
    BY <2>1 DEF Holding
  <2>3. held[w] \in Events
    BY <2>2, WritersApart
  <2>4. Contents'
    BY <2>1, <2>3
  <2>5. ASSUME NEW v \in Writers, pc'[v] \in Holding
        PROVE  held'[v] \in EventsOf(v) \ (raised' \cup live' \cup stored')
    <3>1. v # w
      BY <2>1, <2>5 DEF Holding
    <3>2. held[v] \in EventsOf(v) \ (raised \cup live \cup stored) /\ held'[v] = held[v]
      BY <2>1, <2>5, <3>1
    <3>3. held[v] # held[w]
      BY <2>2, <3>1, <3>2, WritersApart
    <3> QED BY <2>1, <3>2, <3>3
  <2> QED BY <2>1, <2>2, <2>4, <2>5
<1>3. CASE NameFile(w)
  <2>1. /\ pc[w] = "name"
        /\ \A v \in Writers : pc'[v] \in Holding => pc[v] \in Holding
        /\ name'["sendSavedTasks"] = name["sendSavedTasks"]
        /\ UNCHANGED <<raised, held, file, live, stored, record, replayed, spc>>
    BY <1>0, <1>3 DEF NameFile, WriterAt, Holding, Numbers, Tasks, Writers
  <2> QED BY <2>1
<1>4. CASE OpenFile(w)
  <2>1. /\ \A v \in Writers : pc'[v] \in Holding => pc[v] \in Holding /\ held'[v] = held[v]
        /\ held' \in [Writers -> Events \cup {Nothing}]
        /\ UNCHANGED <<raised, name, live, stored, record, replayed, spc>>
    BY <1>0, <1>4 DEF OpenFile, WriterAt, Holding
  <2>2. /\ file' \in [Files -> stored \cup {"absent", "empty"}]
        /\ \A n \in Files : file[n] # "absent" => file'[n] # "absent"
    BY <1>4 DEF OpenFile
  <2>3. name["sendSavedTasks"] \in Files
    BY DEF Numbers, Tasks
  <2> QED BY <2>1, <2>2, <2>3
<1>5. CASE WriteFile(w)
  <2>1. /\ pc[w] = "write" /\ pc'[w] = "load"
        /\ \A v \in Writers \ {w} : pc'[v] = pc[v] /\ held'[v] = held[v]
        /\ held' = [held EXCEPT ![w] = Nothing]
        /\ stored' \in SUBSET (stored \cup {held[w]}) /\ stored \in SUBSET stored'
        /\ UNCHANGED <<raised, live, record, replayed, spc, name>>
    BY <1>0, <1>5 DEF WriteFile, WriterAt
  <2>2. held[w] \in EventsOf(w) \ (raised \cup live \cup stored)
    BY <2>1 DEF Holding
  <2>3. held[w] \in Events /\ held[w] # "absent"
    BY <2>2, WritersApart, OfflineStoreAssumption DEF Events
  <2>4. /\ file' \in [Files -> stored' \cup {"absent", "empty"}]
        /\ \A n \in Files : file[n] # "absent" => file'[n] # "absent"
    BY <1>5, <2>3 DEF WriteFile
  <2>5. name["sendSavedTasks"] \in Files
    BY DEF Numbers, Tasks
  <2>6. Contents'
    BY <2>1, <2>3, <2>4, <2>5
  <2>7. ASSUME NEW v \in Writers, pc'[v] \in Holding
        PROVE  held'[v] \in EventsOf(v) \ (raised' \cup live' \cup stored')
    <3>1. v # w
      BY <2>1, <2>7 DEF Holding
    <3>2. held[v] \in EventsOf(v) \ (raised \cup live \cup stored) /\ held'[v] = held[v]
      BY <2>1, <2>7, <3>1
    <3>3. held[v] # held[w]
      BY <2>2, <3>1, <3>2, WritersApart
    <3> QED BY <2>1, <3>2, <3>3
  <2> QED BY <2>1, <2>2, <2>6, <2>7
<1>6. CASE LoadCount(w)
  BY <1>0, <1>6 DEF LoadCount, WriterAt, Holding
<1>7. CASE StoreCount(w)
  BY <1>0, <1>7 DEF StoreCount, WriterAt, Holding
<1> QED BY <1>1, <1>2, <1>3, <1>4, <1>5, <1>6, <1>7 DEF Write

LEMMA SenderPaths ==
  ASSUME IInv, Numbers, Paths, Send
  PROVE  Paths'
<1> USE DEF Paths, Contents, OneWay, senderKeeps, SenderAt
<1>0. name["sendSavedTasks"] \in Files
  BY DEF Numbers, Tasks
<1>1. CASE SendCheck
  BY <1>1 DEF SendCheck
<1>2. CASE SendOpen
  BY <1>2 DEF SendOpen
<1>3. CASE SendRead
  <2>1. record' \in stored \cup {"empty", Nothing}
    BY <1>0, <1>3 DEF SendRead
  <2> QED BY <1>3, <2>1 DEF SendRead
<1>4. CASE SendSwitch
  <2>1. record \in TagEvents => record \in stored
    BY OfflineStoreAssumption
  <2> QED BY <1>4, <2>1 DEF SendSwitch
<1>5. CASE SendLoadCount
  BY <1>5 DEF SendLoadCount
<1>6. CASE SendStoreCount
  BY <1>6 DEF SendStoreCount
<1> QED BY <1>1, <1>2, <1>3, <1>4, <1>5, <1>6 DEF Send

LEMMA PathsInductive == IInv /\ Numbers /\ Paths /\ [Next]_vars => Paths'
<1> SUFFICES ASSUME IInv, Numbers, Paths, [Next]_vars PROVE Paths'
  OBVIOUS
<1>1. ASSUME NEW w \in Writers, Write(w) PROVE Paths'
  BY <1>1, WriterPaths
<1>2. CASE Send
  BY <1>2, SenderPaths
<1>3. CASE Connection
  BY <1>3 DEF Connection, Paths, Contents, OneWay
<1>4. CASE Reboot
  BY <1>4 DEF Reboot, Paths, Contents, OneWay, Holding
<1>5. CASE UNCHANGED vars
  BY <1>5 DEF vars, Paths, Contents, OneWay
<1> QED BY <1>1, <1>2, <1>3, <1>4, <1>5 DEF Next

\* Whatever the client, the flash and the power do between its steps, a writer sends
\* an event one way: what was published when it happened is never in a file, and
\* sendSavedTasks never publishes it again.
THEOREM OnePathHolds == Spec => []OnePath
<1>1. Paths => OnePath
  BY DEF Paths, Contents, OneWay, OnePath
<1> QED BY <1>1, Initially, Inductive, NumbersInit, NumbersInductive, PathsInit,
           PathsInductive, PTL DEF Spec

-----------------------------------------------------------------------------
\* The client's and the gate's flags, and the bound on power failures.
Flags == link \in BOOLEAN /\ gate \in BOOLEAN /\ reboots \in 0 .. MaxReboots

LEMMA FlagsInductive == Flags /\ [Next]_vars => Flags'
<1> SUFFICES ASSUME Flags, [Next]_vars PROVE Flags'
  OBVIOUS
<1> USE DEF Flags
<1>1. ASSUME NEW w \in Writers, Write(w) PROVE Flags'
  BY <1>1 DEF Write, Receive, Publish, NameFile, OpenFile, WriteFile, LoadCount,
              StoreCount, writerKeeps, gateVars
<1>2. CASE Send
  BY <1>2 DEF Send, SendCheck, SendOpen, SendRead, SendSwitch, SendLoadCount,
              SendStoreCount, senderKeeps, gateVars
<1>3. CASE Connection
  <2>1. UNCHANGED reboots
    BY <1>3 DEF Connection
  <2> QED BY <1>3, <2>1 DEF Connection, GateNext, LinkUp, GateOpen, LinkDown, GateClose
<1>4. CASE Reboot
  <2>1. link' \in BOOLEAN /\ gate' \in BOOLEAN
    BY <1>4, Zenon DEF Reboot
  <2>2. reboots' \in 0 .. MaxReboots
    BY <1>4, OfflineStoreAssumption DEF Reboot
  <2> QED BY <2>1, <2>2
<1>5. CASE UNCHANGED vars
  BY <1>5 DEF vars, gateVars
<1> QED BY <1>1, <1>2, <1>3, <1>4, <1>5 DEF Next

LEMMA FlagsInit == Init => Flags
<1> SUFFICES ASSUME Init PROVE Flags
  OBVIOUS
<1>1. link \in BOOLEAN /\ gate \in BOOLEAN
  BY Zenon DEF Init, GateInit
<1>2. reboots \in 0 .. MaxReboots
  BY OfflineStoreAssumption DEF Init
<1> QED BY <1>1, <1>2 DEF Flags

\* Every file that a writer or the sender names, and every value of the counter, is
\* one of as many files as there are events: the lost updates of the counter cannot
\* run it past them.
THEOREM TypeCorrect == Spec => []TypeOK
<1>1. IInv /\ Numbers /\ Paths /\ Flags => TypeOK
  <2> SUFFICES ASSUME IInv, Numbers, Paths, Flags PROVE TypeOK
    OBVIOUS
  <2>1. count \in Files
    BY CountIsNumber DEF Numbers
  <2>2. file \in [Files -> Events \cup {"absent", "empty"}]
    BY DEF Paths, Contents
  <2> QED BY <2>1, <2>2 DEF TypeOK, IInv, CountTypes, Numbers, Paths, Contents, Flags
<1> QED BY <1>1, Initially, Inductive, NumbersInit, NumbersInductive, PathsInit,
           PathsInductive, FlagsInit, FlagsInductive, PTL DEF Spec
=============================================================================
