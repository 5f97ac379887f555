------------------------- MODULE ParkingTableProofs -------------------------
(***************************************************************************)
(* The invariants of ParkingTable, for any number of workers, places,      *)
(* slots and reports and any depth of the queue.                           *)
(*                                                                         *)
(* TypeOK, which bounds every slot number, holds however the workers       *)
(* overlap.  The other invariants hold as long as one worker at a time is  *)
(* at work, and again from a lone interval report on: LoneWork says what   *)
(* the table and the worker at work are then.                              *)
(*                                                                         *)
(* IntervalRepairs speaks of a quiet system only.  What holds on the way   *)
(* there is Underway: what a slot holds is on its way to the broker, or    *)
(* has been handed on, and nothing that is handed on after it is of the    *)
(* same place.                                                             *)
(***************************************************************************)
EXTENDS ParkingTable, FiniteSetTheorems, SequenceTheorems, TLAPS

Busy == PCs \ {"idle", "next"}

\* What a worker at work on a place has, and ParkingTask when it waits.
Shapes ==
  /\ \A w \in Workers : worker[w].pc \in Busy =>
       worker[w].place \in Places /\ worker[w].slot \in Slots
  /\ task.slot = None => task = Waiting

TypeInv == TypeOK /\ Shapes

-----------------------------------------------------------------------------
Adding == {"fill", "name", "queue", "count", "store"}

AtMostOne ==
  \A v, w \in Workers : v # w => worker[v].pc = "idle" \/ worker[w].pc = "idle"

OneSlotEach ==
  \A i \in Live : /\ g_p[i].name \in Places
                  /\ \A j \in Live : g_p[i].name = g_p[j].name => i = j

\* A worker changes a slot in use, or fills the first slot that is not with a place
\* that is not in the table.
WorkIsSound(w) ==
  /\ worker[w].pc \in {"announce", "change"} => worker[w].slot \in Live
  /\ worker[w].pc \in Adding =>
       /\ worker[w].slot = num_g_p
       /\ \A i \in Live : g_p[i].name # worker[w].place
  /\ worker[w].pc \in {"queue", "count", "store"} => g_p[num_g_p].name = worker[w].place
  /\ worker[w].pc = "change" => changed

LoneWork ==
  overlap # "since" => AtMostOne /\ OneSlotEach /\ \A w \in Workers : WorkIsSound(w)

-----------------------------------------------------------------------------
\* The slots whose number has been sent since the table was emptied.
Counting == {"count", "store"}

Announced == Live \cup {worker[w].slot : w \in {v \in Workers : worker[v].pc \in Counting}}

\* Handing on slot s does not show another occupancy for the place of slot i.
Harmless(s, i) == s = i \/ g_p[s].name # g_p[i].name

HarmlessAfter(k, i) == \A m \in DOMAIN queue : m > k => Harmless(queue[m], i)

Queued(i) == \E k \in DOMAIN queue : queue[k] = i /\ HarmlessAfter(k, i)

InHand(i) ==
  /\ task.slot = i
  /\ task.name \in {Unread, g_p[i].name} /\ task.occ \in {Unread, g_p[i].occ}
  /\ HarmlessAfter(0, i)

Shown(i) ==
  /\ shown[g_p[i].name] = g_p[i].occ
  /\ task.slot # None => task.name # g_p[i].name
  /\ task.slot # None /\ task.name = Unread => g_p[task.slot].name # g_p[i].name
  /\ HarmlessAfter(0, i)

IsUnderway(i) == Queued(i) \/ InHand(i) \/ Shown(i)

Underway ==
  overlap # "since" /\ ~dropped /\ ~changed => \A i \in Announced : IsUnderway(i)

IInv == TypeInv /\ LoneWork /\ AnnouncedIsFilled /\ Underway

-----------------------------------------------------------------------------
(* What a search and the end of a place make of a worker. *)

WorkerRecords == [pc : PCs, place : 0 .. NumPlaces, occ : Occupancy,
                  slot : Slots \cup {None}, interval : BOOLEAN]

SlotRecords == [name : Places \cup {None}, occ : Occupancy]

LEMMA LeastExists ==
  ASSUME NEW T \in SUBSET Nat, T # {}
  PROVE  \E i \in T : \A j \in T : i <= j
<1>1. PICK i \in T : \A j \in T : ~(<<j, i>> \in OpToRel(<, Nat))
  BY NatLessThanWellFounded, WFMin
<1>2. \A j \in T : j < i => <<j, i>> \in OpToRel(<, Nat)
  BY DEF OpToRel
<1>3. \A j \in T : ~(j < i)
  BY <1>1, <1>2
<1> QED
  BY <1>3

LEMMA IdleShape == Idle \in WorkerRecords /\ Idle.pc = "idle" /\ Idle.slot = None
<1>1. 0 \in 0 .. NumPlaces
  BY ParkingTableAssumption
<1>2. FALSE \in BOOLEAN
  BY Zenon
<1> QED
  BY <1>1, <1>2 DEF Idle, WorkerRecords, PCs, Occupancy

LEMMA FinishShape ==
  ASSUME NEW r \in WorkerRecords, r.place \in Places
  PROVE  Finish(r) \in WorkerRecords /\ Finish(r).pc \in {"idle", "next"}
<1>1. CASE r.interval
  <2>1. Finish(r) = [pc |-> "next", place |-> r.place + 1, occ |-> 0, slot |-> None,
                     interval |-> r.interval]
    BY <1>1 DEF Finish, WorkerRecords
  <2>2. r.place + 1 \in 0 .. NumPlaces /\ r.interval \in BOOLEAN
    BY ParkingTableAssumption DEF Places, WorkerRecords
  <2> QED
    BY <2>1, <2>2 DEF WorkerRecords, PCs, Occupancy
<1>2. CASE ~r.interval
  BY <1>2, IdleShape DEF Finish
<1> QED
  BY <1>1, <1>2

LEMMA SearchShape ==
  ASSUME TypeOK, NEW r \in WorkerRecords, r.place \in Places
  PROVE  /\ Search(r) \in WorkerRecords
         /\ Search(r).pc \in {"idle", "next", "announce", "fill"}
         /\ Search(r).pc \in {"announce", "fill"} => Search(r).place = r.place
         /\ Search(r).pc = "fill" => Search(r).slot = num_g_p /\ Found(r.place) = {}
         /\ Search(r).pc = "announce" => Search(r).slot \in Found(r.place)
<1>1. num_g_p \in 0 .. MAX_PARKING /\ MAX_PARKING \in Nat
  BY ParkingTableAssumption DEF TypeOK
<1>2. CASE Found(r.place) = {}
  <2>1. Search(r) = [r EXCEPT !.pc = "fill", !.slot = num_g_p]
    BY <1>2 DEF Search
  <2>2. num_g_p \in Slots
    BY <1>1 DEF Slots
  <2> QED
    BY <1>2, <2>1, <2>2 DEF WorkerRecords, PCs
<1>3. CASE Found(r.place) # {}
  <2> DEFINE first(i) == i \in Found(r.place) /\ \A j \in Found(r.place) : i <= j
             i == CHOOSE i \in Found(r.place) : \A j \in Found(r.place) : i <= j
  <2>1. Found(r.place) \in SUBSET Nat /\ Found(r.place) \subseteq Slots
    BY <1>1 DEF Found, Live, Slots
  <2>2. \E k \in Found(r.place) : \A j \in Found(r.place) : k <= j
    BY <1>3, <2>1, LeastExists
  <2>3. i \in Found(r.place)
    BY <2>2
  <2>4. Search(r) = IF g_p[i].occ = r.occ THEN Finish(r)
                    ELSE [r EXCEPT !.pc = "announce", !.slot = i]
    BY <1>3 DEF Search
  <2> HIDE DEF i
  <2>5. CASE g_p[i].occ = r.occ
    BY <2>4, <2>5, FinishShape
  <2>6. CASE g_p[i].occ # r.occ
    <3>1. Search(r) = [r EXCEPT !.pc = "announce", !.slot = i]
      BY <2>4, <2>6
    <3>2. i \in Slots
      BY <2>1, <2>3
    <3> QED
      BY <2>3, <3>1, <3>2 DEF WorkerRecords, PCs
  <2> QED
    BY <2>5, <2>6
<1> QED
  BY <1>2, <1>3

\* What a worker begins a search with.
LEMMA ReportShape ==
  /\ \A p \in Places : \A o \in Reported(p) :
       /\ [Idle EXCEPT !.place = p, !.occ = o] \in WorkerRecords
       /\ [Idle EXCEPT !.place = p, !.occ = o].place = p
  /\ \A r \in WorkerRecords : r.place < NumPlaces =>
       \A o \in Reported(r.place) :
         /\ [r EXCEPT !.occ = o] \in WorkerRecords
         /\ [r EXCEPT !.occ = o].place = r.place /\ r.place \in Places
  /\ /\ [Idle EXCEPT !.pc = "next", !.interval = TRUE] \in WorkerRecords
     /\ [Idle EXCEPT !.pc = "next", !.interval = TRUE].pc = "next"
<1>1. \A p : Reported(p) \subseteq Occupancy
  BY DEF Reported, Occupancy
<1>2. \A p \in Places : p \in 0 .. NumPlaces
  BY ParkingTableAssumption DEF Places
<1>3. \A r \in WorkerRecords : r.place < NumPlaces => r.place \in Places
  BY ParkingTableAssumption DEF WorkerRecords, Places
<1>4. ASSUME NEW p \in Places, NEW o \in Reported(p)
      PROVE  /\ [Idle EXCEPT !.place = p, !.occ = o] \in WorkerRecords
             /\ [Idle EXCEPT !.place = p, !.occ = o].place = p
  <2>1. \A r \in WorkerRecords : /\ [r EXCEPT !.place = p, !.occ = o] \in WorkerRecords
                                 /\ [r EXCEPT !.place = p, !.occ = o].place = p
    BY <1>1, <1>2 DEF WorkerRecords
  <2> QED
    BY <2>1, IdleShape
<1>5. ASSUME NEW r \in WorkerRecords, r.place < NumPlaces, NEW o \in Reported(r.place)
      PROVE  [r EXCEPT !.occ = o] \in WorkerRecords /\ [r EXCEPT !.occ = o].place = r.place
  BY <1>1 DEF WorkerRecords
<1>6. /\ [Idle EXCEPT !.pc = "next", !.interval = TRUE] \in WorkerRecords
      /\ [Idle EXCEPT !.pc = "next", !.interval = TRUE].pc = "next"
  <2>1. \A r \in WorkerRecords, b \in BOOLEAN :
          /\ [r EXCEPT !.pc = "next", !.interval = b] \in WorkerRecords
          /\ [r EXCEPT !.pc = "next", !.interval = b].pc = "next"
    BY DEF WorkerRecords, PCs
  <2> QED
    BY <2>1, IdleShape, Zenon
<1> QED
  BY <1>3, <1>4, <1>5, <1>6

-----------------------------------------------------------------------------
(* What the writes of a step leave alone. *)

LEMMA PcMove ==
  ASSUME TypeOK, NEW w \in Workers, NEW c \in PCs, worker' = [worker EXCEPT ![w].pc = c]
  PROVE  /\ worker' \in [Workers -> WorkerRecords]
         /\ worker'[w].pc = c
         /\ worker'[w].place = worker[w].place /\ worker'[w].slot = worker[w].slot
         /\ \A v \in Workers \ {w} : worker'[v] = worker[v]
BY DEF TypeOK, WorkerRecords

LEMMA RecordMove ==
  ASSUME TypeOK, NEW w \in Workers, NEW r \in WorkerRecords,
         worker' = [worker EXCEPT ![w] = r]
  PROVE  /\ worker' \in [Workers -> WorkerRecords]
         /\ worker'[w] = r
         /\ \A v \in Workers \ {w} : worker'[v] = worker[v]
BY DEF TypeOK, WorkerRecords

LEMMA LoadShape ==
  ASSUME NEW r \in WorkerRecords, NEW n \in Slots
  PROVE  /\ [r EXCEPT !.pc = "store", !.slot = n] \in WorkerRecords
         /\ [r EXCEPT !.pc = "store", !.slot = n].pc = "store"
         /\ [r EXCEPT !.pc = "store", !.slot = n].slot = n
         /\ [r EXCEPT !.pc = "store", !.slot = n].place = r.place
BY DEF WorkerRecords, PCs

\* Loading the count leaves a worker with its place and the count.
LEMMA LoadMove ==
  ASSUME TypeOK, NEW w \in Workers, LoadCount(w)
  PROVE  /\ worker' \in [Workers -> WorkerRecords]
         /\ worker'[w].pc = "store" /\ worker'[w].slot = num_g_p
         /\ worker'[w].place = worker[w].place
         /\ \A v \in Workers \ {w} : worker'[v] = worker[v]
<1> DEFINE r == [worker[w] EXCEPT !.pc = "store", !.slot = num_g_p]
<1>1. worker[w] \in WorkerRecords /\ num_g_p \in Slots
  BY ParkingTableAssumption DEF TypeOK, WorkerRecords, Slots
<1>2. r \in WorkerRecords /\ r.pc = "store" /\ r.slot = num_g_p /\ r.place = worker[w].place
  BY <1>1, LoadShape
<1>3. worker' = [worker EXCEPT ![w] = r]
  BY DEF LoadCount
<1> HIDE DEF r
<1> QED
  BY <1>2, <1>3, RecordMove

LEMMA OccWrite ==
  ASSUME TypeOK, NEW s \in Slots, NEW o \in Occupancy, g_p' = [g_p EXCEPT ![s].occ = o]
  PROVE  /\ g_p' \in [Slots -> SlotRecords]
         /\ \A t \in Slots : g_p'[t].name = g_p[t].name
         /\ \A t \in Slots \ {s} : g_p'[t] = g_p[t]
BY DEF TypeOK, SlotRecords

LEMMA NameWrite ==
  ASSUME TypeOK, NEW s \in Slots, NEW p \in Places, g_p' = [g_p EXCEPT ![s].name = p]
  PROVE  /\ g_p' \in [Slots -> SlotRecords]
         /\ g_p'[s].name = p
         /\ \A t \in Slots \ {s} : g_p'[t] = g_p[t]
BY DEF TypeOK, SlotRecords

\* A send appends the number, or gives up.
LEMMA SendQueue ==
  ASSUME TypeOK, NEW s \in Slots, Send(s)
  PROVE  /\ queue' \in Seq(Slots)
         /\ dropped' \in BOOLEAN
         /\ ~dropped' => /\ Len(queue') = Len(queue) + 1
                         /\ queue'[Len(queue) + 1] = s
                         /\ \A k \in DOMAIN queue : queue'[k] = queue[k]
                         /\ DOMAIN queue' = DOMAIN queue \cup {Len(queue) + 1}
         /\ \A k \in DOMAIN queue' : queue'[k] = s \/ \E m \in DOMAIN queue : queue'[k] = queue[m]
<1>1. queue \in Seq(Slots) /\ dropped \in BOOLEAN
  BY DEF TypeOK
<1>2. Len(queue) \in Nat /\ DOMAIN queue = 1 .. Len(queue)
  BY <1>1, LenProperties
<1>3. CASE queue' = queue /\ dropped' = TRUE
  BY <1>1, <1>3, Zenon
<1>4. CASE queue' = Append(queue, s) /\ dropped' = dropped
  <2>1. /\ queue' \in Seq(Slots)
        /\ Len(queue') = Len(queue) + 1
        /\ queue'[Len(queue) + 1] = s
        /\ \A k \in 1 .. Len(queue) : queue'[k] = queue[k]
    BY <1>1, <1>4, AppendProperties
  <2>2. DOMAIN queue' = 1 .. Len(queue) + 1
    BY <2>1, LenProperties
  <2> QED
    BY <1>1, <1>2, <1>4, <2>1, <2>2
<1> QED
  BY <1>3, <1>4 DEF Send

-----------------------------------------------------------------------------
(* Types. *)

HistoryTypes ==
  /\ overlap \in {"never", "before", "since"}
  /\ dropped \in BOOLEAN /\ changed \in BOOLEAN
  /\ triggers \in 0 .. MaxTriggers /\ intervals \in 0 .. MaxIntervals

LEMMA HistoryNext ==
  ASSUME TypeInv, Next PROVE HistoryTypes'
<1>1. HistoryTypes
  BY DEF TypeInv, TypeOK, HistoryTypes
<1>2. \A s : Send(s) => dropped' \in BOOLEAN
  BY <1>1, Zenon DEF Send, HistoryTypes
<1>3. changed' = TRUE => changed' \in BOOLEAN
  BY Zenon
<1>4. dropped' = FALSE /\ changed' = FALSE => dropped' \in BOOLEAN /\ changed' \in BOOLEAN
  BY Zenon
<1> USE <1>1 DEF HistoryTypes
<1>5. ASSUME UNCHANGED history PROVE HistoryTypes'
  BY <1>5 DEF history
<1>6. ASSUME NEW w \in Workers, Announce(w) \/ AnnounceNew(w) PROVE HistoryTypes'
  BY <1>2, <1>3, <1>6 DEF Announce, AnnounceNew
<1>7. ASSUME NEW w \in Workers, Trigger(w) PROVE HistoryTypes'
  BY <1>7, ParkingTableAssumption DEF Trigger
<1>8. ASSUME NEW w \in Workers, Interval(w) PROVE HistoryTypes'
  <2>1. overlap' \in {"never", "before", "since"} /\ triggers' = triggers
        /\ intervals' \in 0 .. MaxIntervals
    BY <1>8, ParkingTableAssumption DEF Interval
  <2>2. dropped' \in BOOLEAN /\ changed' \in BOOLEAN
    BY <1>4, <1>8, Zenon DEF Interval
  <2> QED
    BY <2>1, <2>2
<1> QED
  BY <1>5, <1>6, <1>7, <1>8
  DEF Next, Worker, IntervalNext, Change, Fill, FillName, LoadCount, StoreCount, Receive, Read, HandOn

WorkerShape(r) == r.pc \in Busy => r.place \in Places /\ r.slot \in Slots

LEMMA WorkerTypes ==
  ASSUME TypeInv, NEW w \in Workers, Worker(w)
  PROVE  /\ g_p' \in [Slots -> SlotRecords] /\ num_g_p' \in 0 .. MAX_PARKING
         /\ queue' \in Seq(Slots) /\ UNCHANGED <<task, shown>>
         /\ worker' \in [Workers -> WorkerRecords]
         /\ WorkerShape(worker'[w])
         /\ \A v \in Workers \ {w} : worker'[v] = worker[v]
<1>0. /\ TypeOK /\ WorkerShape(worker[w]) /\ worker[w] \in WorkerRecords
      /\ g_p \in [Slots -> SlotRecords] /\ num_g_p \in 0 .. MAX_PARKING
      /\ queue \in Seq(Slots) /\ MAX_PARKING \in Nat \ {0}
      /\ num_g_p \in Slots
  BY ParkingTableAssumption DEF TypeInv, TypeOK, Shapes, WorkerShape, WorkerRecords, SlotRecords,
                                Slots
<1>1. ASSUME NEW r \in WorkerRecords, r.place \in Places
      PROVE  /\ Search(r) \in WorkerRecords /\ WorkerShape(Search(r))
             /\ Finish(r) \in WorkerRecords /\ WorkerShape(Finish(r))
  <2>1. Found(r.place) \subseteq Slots
    BY <1>0 DEF Found, Live, Slots
  <2> QED
    BY <1>0, <1>1, <2>1, SearchShape, FinishShape DEF WorkerShape, Busy, PCs
<1>2. WorkerShape(Idle) /\ WorkerShape([Idle EXCEPT !.pc = "next", !.interval = TRUE])
  BY IdleShape, ReportShape DEF WorkerShape, Busy
<1>12. ASSUME NEW r \in WorkerRecords, WorkerShape(r), worker' = [worker EXCEPT ![w] = r]
       PROVE  /\ worker' \in [Workers -> WorkerRecords]
              /\ WorkerShape(worker'[w])
              /\ \A v \in Workers \ {w} : worker'[v] = worker[v]
  BY <1>0, <1>12, RecordMove
<1>3. CASE Trigger(w)
  <2>1. PICK p \in Places : \E o \in Reported(p) :
          worker' = [worker EXCEPT ![w] = Search([Idle EXCEPT !.place = p, !.occ = o])]
    BY <1>3 DEF Trigger
  <2>2. PICK o \in Reported(p) :
          worker' = [worker EXCEPT ![w] = Search([Idle EXCEPT !.place = p, !.occ = o])]
    BY <2>1
  <2> DEFINE r == Search([Idle EXCEPT !.place = p, !.occ = o])
  <2>3. r \in WorkerRecords /\ WorkerShape(r)
    BY <1>1, ReportShape
  <2>4. worker' = [worker EXCEPT ![w] = r]
    BY <2>2
  <2> HIDE DEF r
  <2> QED
    BY <1>0, <1>3, <1>12, <2>3, <2>4 DEF Trigger
<1>4. CASE Interval(w)
  <2> DEFINE r == [Idle EXCEPT !.pc = "next", !.interval = TRUE]
  <2>1. r \in WorkerRecords /\ WorkerShape(r)
    BY <1>2, ReportShape
  <2>2. worker' = [worker EXCEPT ![w] = r]
    BY <1>4 DEF Interval
  <2>3. num_g_p' \in 0 .. MAX_PARKING
    BY <1>0, <1>4 DEF Interval
  <2> HIDE DEF r
  <2> QED
    BY <1>0, <1>4, <1>12, <2>1, <2>2, <2>3 DEF Interval
<1>5. CASE IntervalNext(w)
  <2>1. CASE worker' = [worker EXCEPT ![w] = Idle]
    BY <1>0, <1>2, <1>5, <2>1, IdleShape, RecordMove DEF IntervalNext
  <2>2. CASE /\ worker[w].place < NumPlaces
             /\ \E o \in Reported(worker[w].place) :
                  worker' = [worker EXCEPT ![w] = Search([@ EXCEPT !.occ = o])]
    <3>1. PICK o \in Reported(worker[w].place) :
            worker' = [worker EXCEPT ![w] = Search([worker[w] EXCEPT !.occ = o])]
      BY <2>2
    <3> DEFINE r == Search([worker[w] EXCEPT !.occ = o])
    <3>2. r \in WorkerRecords /\ WorkerShape(r)
      BY <1>0, <1>1, <2>2, ReportShape
    <3>3. worker' = [worker EXCEPT ![w] = r]
      BY <3>1
    <3> HIDE DEF r
    <3> QED
      BY <1>0, <1>5, <1>12, <3>2, <3>3 DEF IntervalNext
  <2> QED
    BY <1>5, <2>1, <2>2 DEF IntervalNext
<1>6. CASE Announce(w)
  <2>1. worker[w].slot \in Slots /\ worker[w].place \in Places
    BY <1>0, <1>6 DEF Announce, WorkerShape, Busy, PCs
  <2> QED
    BY <1>0, <1>6, <2>1, SendQueue, PcMove DEF Announce, WorkerShape, Busy, PCs
<1>7. CASE Change(w)
  <2>1. worker[w].slot \in Slots /\ worker[w].place \in Places /\ worker[w].occ \in Occupancy
    BY <1>0, <1>7 DEF Change, WorkerShape, Busy, PCs, WorkerRecords
  <2> QED
    BY <1>0, <1>1, <1>7, <2>1, OccWrite, RecordMove DEF Change
<1>8. CASE Fill(w)
  <2>1. worker[w].slot \in Slots /\ worker[w].place \in Places /\ worker[w].occ \in Occupancy
    BY <1>0, <1>8 DEF Fill, WorkerShape, Busy, PCs, WorkerRecords
  <2> QED
    BY <1>0, <1>8, <2>1, OccWrite, PcMove DEF Fill, WorkerShape, Busy, PCs
<1>9. CASE FillName(w)
  <2>1. worker[w].slot \in Slots /\ worker[w].place \in Places
    BY <1>0, <1>9 DEF FillName, WorkerShape, Busy, PCs
  <2>2. PICK s \in {worker[w].slot, num_g_p} :
          g_p' = [g_p EXCEPT ![s].name = worker[w].place]
    BY <1>9 DEF FillName
  <2>3. g_p' \in [Slots -> SlotRecords]
    BY <1>0, <2>1, <2>2, NameWrite
  <2> QED
    BY <1>0, <1>9, <2>1, <2>3, PcMove DEF FillName, WorkerShape, Busy, PCs
<1>10. CASE AnnounceNew(w)
  <2>1. worker[w].slot \in Slots /\ worker[w].place \in Places
    BY <1>0, <1>10 DEF AnnounceNew, WorkerShape, Busy, PCs
  <2> QED
    BY <1>0, <1>10, <2>1, SendQueue, PcMove DEF AnnounceNew, WorkerShape, Busy, PCs
<1>11. CASE StoreCount(w)
  <2>1. worker[w].place \in Places /\ worker[w].slot \in Slots
    BY <1>0, <1>11 DEF StoreCount, WorkerShape, Busy, PCs
  <2>2. num_g_p' \in 0 .. MAX_PARKING
    BY <1>0, <1>11, <2>1, ParkingTableAssumption DEF StoreCount, Counted, Slots
  <2> QED
    BY <1>0, <1>1, <1>11, <2>1, <2>2, RecordMove DEF StoreCount
<1>13. CASE LoadCount(w)
  <2>1. worker[w].place \in Places
    BY <1>0, <1>13 DEF LoadCount, WorkerShape, Busy, PCs
  <2> QED
    BY <1>0, <1>13, <2>1, LoadMove, ParkingTableAssumption DEF LoadCount, WorkerShape, Slots
<1> QED
  BY <1>3, <1>4, <1>5, <1>6, <1>7, <1>8, <1>9, <1>10, <1>11, <1>13 DEF Worker

TaskRecords == [slot : Slots \cup {None}, name : Places \cup {None, Unread},
                occ : Occupancy \cup {Unread}]

\* ParkingTask waits, or reads the slot that it received, or hands on what it read.
LEMMA TaskTypes ==
  ASSUME TypeInv, Receive \/ Read \/ HandOn
  PROVE  /\ queue' \in Seq(Slots) /\ task' \in TaskRecords
         /\ task'.slot = None => task' = Waiting
         /\ shown' \in [Places -> Occupancy \cup {None}]
         /\ UNCHANGED <<g_p, num_g_p, worker, history>>
<1>1. /\ g_p \in [Slots -> SlotRecords] /\ queue \in Seq(Slots) /\ task \in TaskRecords
      /\ shown \in [Places -> Occupancy \cup {None}]
  BY DEF TypeInv, TypeOK, SlotRecords, TaskRecords
<1>2. Waiting \in TaskRecords /\ Waiting.slot = None
  BY DEF Waiting, TaskRecords
<1>3. CASE Receive
  <2>1. Head(queue) \in Slots /\ queue' \in Seq(Slots)
    BY <1>1, <1>3, HeadTailProperties DEF Receive
  <2>2. task' \in TaskRecords /\ task'.slot = Head(queue)
    BY <1>2, <1>3, <2>1 DEF Receive, TaskRecords
  <2>3. task'.slot # None
    BY <2>1, <2>2, ParkingTableAssumption DEF Slots, None
  <2> QED
    BY <1>1, <1>3, <2>1, <2>2, <2>3 DEF Receive
<1>4. CASE Read
  <2>1. task.slot \in Slots /\ task.slot # None
    BY <1>1, <1>4 DEF Read, TaskRecords
  <2>2. g_p[task.slot].occ \in Occupancy /\ g_p[task.slot].name \in Places \cup {None}
    BY <1>1, <2>1 DEF SlotRecords
  <2>3. task' \in TaskRecords /\ task'.slot = task.slot
    BY <1>1, <1>4, <2>2 DEF Read, TaskRecords
  <2> QED
    BY <1>1, <1>4, <2>1, <2>3 DEF Read
<1>5. CASE HandOn
  <2>1. task.occ \in Occupancy
    BY <1>1, <1>5 DEF HandOn, TaskRecords
  <2>2. shown' \in [Places -> Occupancy \cup {None}]
    BY <1>1, <1>5, <2>1 DEF HandOn
  <2> QED
    BY <1>1, <1>2, <1>5, <2>2 DEF HandOn
<1> QED
  BY <1>3, <1>4, <1>5

LEMMA TypeInit == Init => TypeInv
<1> SUFFICES ASSUME Init PROVE TypeInv
  OBVIOUS
<1>1. /\ worker \in [Workers -> WorkerRecords]
      /\ \A w \in Workers : worker[w].pc = "idle"
  BY IdleShape DEF Init
<1>2. g_p \in [Slots -> SlotRecords] /\ num_g_p \in 0 .. MAX_PARKING
  BY ParkingTableAssumption DEF Init, SlotRecords, Occupancy
<1>3. queue \in Seq(Slots)
  BY DEF Init
<1>4. task \in TaskRecords /\ task = Waiting
  BY DEF Init, Waiting, TaskRecords
<1>5. HistoryTypes
  <2>1. dropped \in BOOLEAN /\ changed \in BOOLEAN
    BY Zenon DEF Init
  <2>2. triggers \in 0 .. MaxTriggers /\ intervals \in 0 .. MaxIntervals
    BY ParkingTableAssumption DEF Init
  <2> QED
    BY <2>1, <2>2 DEF Init, HistoryTypes
<1>6. shown \in [Places -> Occupancy \cup {None}]
  BY DEF Init
<1> QED
  BY <1>1, <1>2, <1>3, <1>4, <1>5, <1>6
  DEF TypeInv, TypeOK, Shapes, HistoryTypes, WorkerRecords, SlotRecords, TaskRecords, Busy

LEMMA TypeNext == TypeInv /\ [Next]_vars => TypeInv'
<1> SUFFICES ASSUME TypeInv, [Next]_vars PROVE TypeInv'
  OBVIOUS
<1>1. CASE UNCHANGED vars
  BY <1>1 DEF vars, history, TypeInv, TypeOK, Shapes
<1>2. ASSUME NEW w \in Workers, Worker(w) PROVE TypeInv'
  <2>1. HistoryTypes'
    BY <1>2, HistoryNext DEF Next
  <2>2. /\ g_p' \in [Slots -> SlotRecords] /\ num_g_p' \in 0 .. MAX_PARKING
        /\ queue' \in Seq(Slots) /\ UNCHANGED <<task, shown>>
        /\ worker' \in [Workers -> WorkerRecords]
        /\ WorkerShape(worker'[w])
        /\ \A v \in Workers \ {w} : worker'[v] = worker[v]
    BY <1>2, WorkerTypes
  <2>3. Shapes'
    BY <2>2 DEF TypeInv, Shapes, WorkerShape
  <2>4. TypeOK'
    BY <2>1, <2>2 DEF TypeInv, TypeOK, HistoryTypes, WorkerRecords, SlotRecords
  <2> QED
    BY <2>3, <2>4 DEF TypeInv
<1>3. CASE Receive \/ Read \/ HandOn
  <2>1. HistoryTypes'
    BY <1>3, HistoryNext DEF Next
  <2> QED
    BY <1>3, <2>1, TaskTypes DEF TypeInv, TypeOK, Shapes, HistoryTypes, TaskRecords
<1> QED
  BY <1>1, <1>2, <1>3 DEF Next

-----------------------------------------------------------------------------
(* One worker at a time. *)

\* A step that does not overlap is of a worker that is alone, and it follows steps that
\* did not overlap either, unless it empties the table.
LEMMA LoneStep ==
  ASSUME LoneWork, NEW w \in Workers, Worker(w), overlap' # "since"
  PROVE  /\ \A v \in Workers \ {w} : worker[v].pc = "idle"
         /\ \/ Interval(w)
            \/ overlap # "since" /\ overlap' = overlap
<1>1. CASE Trigger(w)
  BY <1>1 DEF Trigger, Alone
<1>2. CASE Interval(w)
  <2>1. Alone(w)
    BY <1>2, Zenon DEF Interval
  <2> QED
    BY <1>2, <2>1 DEF Alone
<1>3. CASE ~Trigger(w) /\ ~Interval(w)
  <2>1. worker[w].pc # "idle" /\ overlap' = overlap
    BY <1>3 DEF Worker, IntervalNext, Announce, Change, Fill, FillName, AnnounceNew, LoadCount, StoreCount,
                history
  <2> QED
    BY <2>1 DEF LoneWork, AtMostOne
<1> QED
  BY <1>1, <1>2, <1>3

\* What the step of a lone worker has to preserve.
LEMMA LoneWorkFrom ==
  ASSUME NEW w \in Workers,
         \A v \in Workers \ {w} : worker[v].pc = "idle" /\ worker'[v] = worker[v],
         OneSlotEach', WorkIsSound(w)'
  PROVE  LoneWork'
<1>1. \A v \in Workers \ {w} : worker'[v].pc = "idle"
  OBVIOUS
<1>2. AtMostOne'
  BY <1>1 DEF AtMostOne
<1>3. \A v \in Workers \ {w} : WorkIsSound(v)'
  BY <1>1 DEF WorkIsSound, Adding
<1> QED
  BY <1>2, <1>3 DEF LoneWork

\* A search finds the place in the table, or a place that is not in it.
LEMMA SearchIsSound ==
  ASSUME TypeInv, NEW w \in Workers, NEW r \in WorkerRecords, r.place \in Places,
         worker'[w] = Search(r), UNCHANGED <<g_p, num_g_p>>
  PROVE  WorkIsSound(w)'
<1>1. /\ worker'[w].pc \in {"idle", "next", "announce", "fill"}
      /\ worker'[w].pc = "fill" => /\ worker'[w].slot = num_g_p
                                   /\ worker'[w].place = r.place /\ Found(r.place) = {}
      /\ worker'[w].pc = "announce" => worker'[w].slot \in Found(r.place)
  BY SearchShape DEF TypeInv
<1>2. Live' = Live
  BY DEF Live
<1>3. Found(r.place) = {i \in Live : g_p[i].name = r.place}
  BY DEF Found
<1> QED
  BY <1>1, <1>2, <1>3 DEF WorkIsSound, Adding

LEMMA LoneWorker ==
  ASSUME TypeInv, LoneWork, NEW w \in Workers, Worker(w) PROVE LoneWork'
<1> SUFFICES ASSUME overlap' # "since" PROVE LoneWork'
  BY DEF LoneWork
<1>1. \A v \in Workers \ {w} : worker[v].pc = "idle" /\ worker'[v] = worker[v]
  BY LoneStep, WorkerTypes
<1>2. SUFFICES OneSlotEach' /\ WorkIsSound(w)'
  BY <1>1, LoneWorkFrom
<1>3. /\ TypeOK /\ worker[w] \in WorkerRecords /\ WorkerShape(worker[w])
      /\ num_g_p \in 0 .. MAX_PARKING /\ MAX_PARKING \in Nat \ {0}
      /\ num_g_p \in Slots /\ Live \subseteq Slots /\ num_g_p \notin Live
  BY ParkingTableAssumption
  DEF TypeInv, TypeOK, Shapes, WorkerShape, WorkerRecords, Slots, Live
<1>4. CASE Interval(w)
  <2>1. worker'[w] = [Idle EXCEPT !.pc = "next", !.interval = TRUE] /\ num_g_p' = 0
    BY <1>3, <1>4, ReportShape, RecordMove DEF Interval
  <2>2. worker'[w].pc = "next"
    BY <2>1, ReportShape, Zenon
  <2>3. Live' = {}
    BY <2>1 DEF Live
  <2> QED
    BY <2>2, <2>3 DEF OneSlotEach, WorkIsSound, Adding
<1>5. CASE overlap # "since" /\ ~Interval(w)
  <2>0. OneSlotEach /\ WorkIsSound(w)
    BY <1>5 DEF LoneWork
  <2>1. ASSUME UNCHANGED <<g_p, num_g_p>> PROVE OneSlotEach' /\ Live' = Live
    BY <2>0, <2>1 DEF OneSlotEach, Live
  <2>2. ASSUME NEW s \in Slots, NEW o \in Occupancy, g_p' = [g_p EXCEPT ![s].occ = o],
               num_g_p' = num_g_p
        PROVE  OneSlotEach' /\ Live' = Live /\ \A t \in Slots : g_p'[t].name = g_p[t].name
    <3>1. Live' = Live /\ \A t \in Slots : g_p'[t].name = g_p[t].name
      BY <1>3, <2>2, OccWrite DEF Live
    <3>2. \A t \in Live : g_p'[t].name = g_p[t].name
      BY <1>3, <3>1
    <3> QED
      BY <2>0, <3>1, <3>2 DEF OneSlotEach
  <2>3. CASE Trigger(w)
    <3>1. PICK p \in Places : \E o \in Reported(p) :
            worker' = [worker EXCEPT ![w] = Search([Idle EXCEPT !.place = p, !.occ = o])]
      BY <2>3 DEF Trigger
    <3>2. PICK o \in Reported(p) :
            worker' = [worker EXCEPT ![w] = Search([Idle EXCEPT !.place = p, !.occ = o])]
      BY <3>1
    <3> DEFINE r == [Idle EXCEPT !.place = p, !.occ = o]
    <3>3. r \in WorkerRecords /\ r.place \in Places
      BY ReportShape
    <3>4. worker' = [worker EXCEPT ![w] = Search(r)] /\ UNCHANGED <<g_p, num_g_p>>
      BY <2>3, <3>2 DEF Trigger
    <3> HIDE DEF r
    <3>5. worker'[w] = Search(r)
      BY <1>3, <3>3, <3>4, SearchShape, RecordMove
    <3> QED
      BY <2>1, <3>3, <3>4, <3>5, SearchIsSound
  <2>4. CASE IntervalNext(w)
    <3>1. CASE worker' = [worker EXCEPT ![w] = Idle]
      <4>1. worker'[w].pc = "idle"
        BY <1>3, <3>1, IdleShape, RecordMove
      <4> QED
        BY <2>1, <2>4, <4>1 DEF IntervalNext, WorkIsSound, Adding
    <3>2. CASE /\ worker[w].place < NumPlaces
               /\ \E o \in Reported(worker[w].place) :
                    worker' = [worker EXCEPT ![w] = Search([@ EXCEPT !.occ = o])]
      <4>1. PICK o \in Reported(worker[w].place) :
              worker' = [worker EXCEPT ![w] = Search([worker[w] EXCEPT !.occ = o])]
        BY <3>2
      <4> DEFINE r == [worker[w] EXCEPT !.occ = o]
      <4>2. r \in WorkerRecords /\ r.place \in Places
        BY <1>3, <3>2, ReportShape
      <4>3. worker' = [worker EXCEPT ![w] = Search(r)] /\ UNCHANGED <<g_p, num_g_p>>
        BY <2>4, <4>1 DEF IntervalNext
      <4> HIDE DEF r
      <4>4. worker'[w] = Search(r)
        BY <1>3, <4>2, <4>3, SearchShape, RecordMove
      <4> QED
        BY <2>1, <4>2, <4>3, <4>4, SearchIsSound
    <3> QED
      BY <2>4, <3>1, <3>2 DEF IntervalNext
  <2>5. CASE Announce(w)
    <3>1. /\ worker[w].pc = "announce" /\ worker'[w].pc = "change"
          /\ worker'[w].slot = worker[w].slot /\ changed' = TRUE
          /\ UNCHANGED <<g_p, num_g_p>>
      BY <1>3, <2>5, PcMove DEF Announce, PCs
    <3> QED
      BY <2>0, <2>1, <3>1 DEF WorkIsSound, Adding
  <2>6. CASE Change(w)
    <3>1. /\ worker[w].slot \in Slots /\ worker[w].occ \in Occupancy
          /\ worker[w].place \in Places
      BY <1>3, <2>6 DEF Change, WorkerShape, Busy, PCs, WorkerRecords
    <3>2. worker'[w].pc \in {"idle", "next"}
      BY <1>3, <2>6, <3>1, FinishShape, RecordMove DEF Change
    <3> QED
      BY <2>2, <2>6, <3>1, <3>2 DEF Change, WorkIsSound, Adding
  <2>7. CASE Fill(w)
    <3>1. worker[w].slot \in Slots /\ worker[w].occ \in Occupancy
      BY <1>3, <2>7 DEF Fill, WorkerShape, Busy, PCs, WorkerRecords
    <3>2. /\ worker[w].pc = "fill" /\ worker'[w].pc = "name"
          /\ worker'[w].slot = worker[w].slot /\ worker'[w].place = worker[w].place
      BY <1>3, <2>7, PcMove DEF Fill, PCs
    <3>3. OneSlotEach' /\ Live' = Live /\ \A t \in Slots : g_p'[t].name = g_p[t].name
      BY <2>2, <2>7, <3>1 DEF Fill
    <3>4. num_g_p' = num_g_p
      BY <2>7 DEF Fill
    <3> QED
      BY <1>3, <2>0, <3>2, <3>3, <3>4 DEF WorkIsSound, Adding
  <2>8. CASE FillName(w)
    <3>1. /\ worker[w].pc = "name" /\ worker'[w].pc = "queue" /\ num_g_p' = num_g_p
          /\ worker'[w].slot = worker[w].slot /\ worker'[w].place = worker[w].place
      BY <1>3, <2>8, PcMove DEF FillName, PCs
    <3>2. worker[w].slot = num_g_p /\ worker[w].place \in Places
      BY <1>3, <2>0, <3>1 DEF WorkIsSound, Adding, WorkerShape, Busy, PCs
    <3> DEFINE p == worker[w].place
    <3>3. g_p' = [g_p EXCEPT ![num_g_p].name = p] /\ p \in Places
      BY <2>8, <3>2 DEF FillName
    <3> HIDE DEF p
    <3>7. /\ g_p'[num_g_p].name = p
          /\ \A t \in Slots \ {num_g_p} : g_p'[t] = g_p[t]
      BY <1>3, <3>3, NameWrite
    <3>4. /\ g_p'[num_g_p].name = worker[w].place
          /\ \A t \in Live : g_p'[t] = g_p[t]
      BY <1>3, <3>7 DEF p
    <3>5. Live' = Live
      BY <3>1 DEF Live
    <3>6. OneSlotEach'
      BY <2>0, <3>4, <3>5 DEF OneSlotEach
    <3> QED
      BY <2>0, <3>1, <3>2, <3>4, <3>5, <3>6 DEF WorkIsSound, Adding
  <2>9. CASE AnnounceNew(w)
    <3>1. /\ worker[w].pc = "queue" /\ worker'[w].pc = "count"
          /\ worker'[w].slot = worker[w].slot /\ worker'[w].place = worker[w].place
          /\ UNCHANGED <<g_p, num_g_p>>
      BY <1>3, <2>9, PcMove DEF AnnounceNew, PCs
    <3> QED
      BY <2>0, <2>1, <3>1 DEF WorkIsSound, Adding
  <2>11. CASE LoadCount(w)
    <3>1. /\ worker[w].pc = "count" /\ worker'[w].pc = "store"
          /\ worker'[w].slot = num_g_p /\ worker'[w].place = worker[w].place
          /\ UNCHANGED <<g_p, num_g_p>>
      BY <1>3, <2>11, LoadMove DEF LoadCount
    <3> QED
      BY <2>0, <2>1, <3>1 DEF WorkIsSound, Adding
  <2>10. CASE StoreCount(w)
    <3>1. /\ worker[w].pc = "store" /\ worker[w].place \in Places /\ g_p' = g_p
          /\ num_g_p' = Counted(num_g_p)
      BY <1>3, <2>0, <2>10 DEF StoreCount, WorkIsSound, Adding, WorkerShape, Busy, PCs
    <3>2. worker'[w].pc \in {"idle", "next"}
      BY <1>3, <2>10, <3>1, FinishShape, RecordMove DEF StoreCount
    <3>3. /\ g_p[num_g_p].name = worker[w].place
          /\ \A i \in Live : g_p[i].name # worker[w].place
      BY <2>0, <3>1 DEF WorkIsSound, Adding
    <3>4. Live' \subseteq Live \cup {num_g_p}
      BY <1>3, <3>1 DEF Live, Counted
    <3>5. OneSlotEach'
      BY <2>0, <3>1, <3>3, <3>4 DEF OneSlotEach
    <3> QED
      BY <3>2, <3>5 DEF WorkIsSound, Adding
  <2> QED
    BY <1>5, <2>3, <2>4, <2>5, <2>6, <2>7, <2>8, <2>9, <2>10, <2>11 DEF Worker
<1> QED
  BY <1>4, <1>5, LoneStep

LEMMA LoneNext == TypeInv /\ LoneWork /\ [Next]_vars => LoneWork'
<1> SUFFICES ASSUME TypeInv, LoneWork, [Next]_vars PROVE LoneWork'
  OBVIOUS
<1>1. ASSUME UNCHANGED <<g_p, num_g_p, worker, history>> PROVE LoneWork'
  BY <1>1 DEF LoneWork, AtMostOne, OneSlotEach, WorkIsSound, Live, history
<1>2. CASE Receive \/ Read \/ HandOn
  BY <1>1, <1>2, TaskTypes
<1> QED
  BY <1>1, <1>2, LoneWorker DEF Next, vars

LEMMA LoneInit == Init => LoneWork
BY IdleShape DEF Init, LoneWork, AtMostOne, OneSlotEach, WorkIsSound, Live, Adding

-----------------------------------------------------------------------------
(* The numbers that ParkingTask receives. *)

\* A slot that has held a place never stops holding one.
LEMMA NamesStay ==
  ASSUME TypeInv, NEW w \in Workers, Worker(w), NEW t \in Slots, g_p[t].name # None
  PROVE  g_p'[t].name # None
<1>0. TypeOK /\ worker[w] \in WorkerRecords /\ WorkerShape(worker[w]) /\ num_g_p \in Slots
  BY ParkingTableAssumption DEF TypeInv, TypeOK, Shapes, WorkerShape, WorkerRecords, Slots
<1>1. CASE g_p' = g_p
  BY <1>1
<1>2. ASSUME NEW s \in Slots, g_p' = [g_p EXCEPT ![s].occ = worker[w].occ]
      PROVE  g_p'[t].name # None
  BY <1>0, <1>2, OccWrite DEF WorkerRecords
<1>3. CASE Change(w)
  BY <1>0, <1>2, <1>3 DEF Change, WorkerShape, Busy, PCs
<1>4. CASE Fill(w)
  BY <1>0, <1>2, <1>4 DEF Fill, WorkerShape, Busy, PCs
<1>5. CASE FillName(w)
  <2>1. worker[w].slot \in Slots /\ worker[w].place \in Places
    BY <1>0, <1>5 DEF FillName, WorkerShape, Busy, PCs
  <2>2. PICK s \in {worker[w].slot, num_g_p} :
          g_p' = [g_p EXCEPT ![s].name = worker[w].place]
    BY <1>5 DEF FillName
  <2> DEFINE p == worker[w].place
  <2>3. s \in Slots /\ p \in Places /\ g_p' = [g_p EXCEPT ![s].name = p]
    BY <1>0, <2>1, <2>2
  <2> HIDE DEF p
  <2>4. g_p'[s].name = p /\ \A u \in Slots \ {s} : g_p'[u] = g_p[u]
    BY <1>0, <2>3, NameWrite
  <2> QED
    BY <2>3, <2>4, ParkingTableAssumption DEF Places, None
<1> QED
  BY <1>1, <1>3, <1>4, <1>5
  DEF Worker, Trigger, Interval, IntervalNext, Announce, AnnounceNew, LoadCount, StoreCount

\* What a lone worker sends is the number of a slot that holds a place.
LEMMA SentIsFilled ==
  ASSUME TypeInv, LoneWork, overlap # "since", NEW w \in Workers,
         Announce(w) \/ AnnounceNew(w)
  PROVE  \E s \in Slots : Send(s) /\ g_p[s].name # None
<1>0. /\ WorkerShape(worker[w]) /\ num_g_p \in Slots
      /\ OneSlotEach /\ WorkIsSound(w)
  BY ParkingTableAssumption DEF TypeInv, TypeOK, Shapes, WorkerShape, Slots, LoneWork
<1>1. None \notin Places
  BY ParkingTableAssumption DEF Places, None
<1>2. CASE Announce(w)
  BY <1>0, <1>1, <1>2 DEF Announce, WorkIsSound, OneSlotEach, WorkerShape, Busy, PCs
<1>3. CASE AnnounceNew(w)
  BY <1>0, <1>1, <1>3 DEF AnnounceNew, WorkIsSound, WorkerShape, Busy, PCs
<1> QED
  BY <1>2, <1>3

LEMMA FilledNext == TypeInv /\ LoneWork /\ AnnouncedIsFilled /\ [Next]_vars => AnnouncedIsFilled'
<1> SUFFICES ASSUME TypeInv, LoneWork, AnnouncedIsFilled, [Next]_vars, overlap' = "never"
             PROVE  \A s \in {queue'[k] : k \in DOMAIN queue'} \cup ({task'.slot} \ {None}) :
                      g_p'[s].name # None
  BY DEF AnnouncedIsFilled
<1>0. /\ queue \in Seq(Slots) /\ task \in TaskRecords
      /\ \A k \in DOMAIN queue : queue[k] \in Slots
  <2>1. queue \in Seq(Slots) /\ task \in TaskRecords
    BY DEF TypeInv, TypeOK, TaskRecords
  <2> QED
    BY <2>1, ElementOfSeq, LenProperties
<1>1. ASSUME NEW w \in Workers, Worker(w)
      PROVE  \A s \in {queue'[k] : k \in DOMAIN queue'} \cup ({task'.slot} \ {None}) :
               g_p'[s].name # None
  <2>1. overlap = "never"
    BY <1>1 DEF Worker, Trigger, Interval, IntervalNext, Announce, Change, Fill, FillName,
                AnnounceNew, LoadCount, StoreCount,
                history
  <2>2. /\ \A k \in DOMAIN queue : g_p[queue[k]].name # None
        /\ task.slot # None => g_p[task.slot].name # None
        /\ task.slot # None => task.slot \in Slots
    BY <1>0, <2>1 DEF AnnouncedIsFilled, TaskRecords
  <2>3. task' = task
    BY <1>1, WorkerTypes
  <2>4. \A k \in DOMAIN queue' : queue'[k] \in Slots /\ g_p[queue'[k]].name # None
    <3>1. CASE Announce(w) \/ AnnounceNew(w)
      <4>1. PICK s \in Slots : Send(s) /\ g_p[s].name # None
        BY <2>1, <3>1, SentIsFilled
      <4>2. \A k \in DOMAIN queue' :
              queue'[k] = s \/ \E m \in DOMAIN queue : queue'[k] = queue[m]
        BY <4>1, SendQueue DEF TypeInv
      <4> QED
        BY <1>0, <2>2, <4>1, <4>2
    <3>2. CASE queue' = queue
      BY <1>0, <2>2, <3>2
    <3> QED
      BY <1>1, <3>1, <3>2
      DEF Worker, Trigger, Interval, IntervalNext, Change, Fill, FillName, LoadCount, StoreCount
  <2> QED
    BY <1>1, <2>2, <2>3, <2>4, NamesStay
<1>2. CASE Receive \/ Read \/ HandOn
  <2>1. overlap = "never" /\ g_p' = g_p
    BY <1>2, TaskTypes DEF history
  <2>2. /\ \A k \in DOMAIN queue : g_p[queue[k]].name # None
        /\ task.slot # None => g_p[task.slot].name # None
    BY <2>1 DEF AnnouncedIsFilled
  <2>3. CASE Receive
    <3>1. queue # <<>> /\ queue' = Tail(queue) /\ task' = [Waiting EXCEPT !.slot = Head(queue)]
      BY <2>3 DEF Receive
    <3>2. /\ Head(queue) = queue[1] /\ 1 \in DOMAIN queue
          /\ \A k \in DOMAIN queue' : k + 1 \in DOMAIN queue /\ queue'[k] = queue[k + 1]
      BY <1>0, <3>1, HeadTailProperties, EmptySeq, LenProperties
    <3>3. task'.slot = queue[1]
      BY <3>1, <3>2 DEF Waiting
    <3> QED
      BY <2>1, <2>2, <3>2, <3>3
  <2>4. CASE Read
    <3>1. task'.slot = task.slot /\ queue' = queue
      BY <1>0, <2>4 DEF Read, TaskRecords
    <3> QED
      BY <2>1, <2>2, <3>1
  <2>5. CASE HandOn
    <3>1. task'.slot = None /\ queue' = queue
      BY <2>5 DEF HandOn, Waiting
    <3> QED
      BY <2>1, <2>2, <3>1
  <2> QED
    BY <1>2, <2>3, <2>4, <2>5
<1>3. CASE UNCHANGED vars
  BY <1>3 DEF vars, history, AnnouncedIsFilled
<1> QED
  BY <1>1, <1>2, <1>3 DEF Next

LEMMA FilledInit == Init => AnnouncedIsFilled
BY DEF Init, AnnouncedIsFilled, Waiting

-----------------------------------------------------------------------------
(* What has been announced is underway until it is handed on. *)

\* The worker that is alone is the only one that may have announced a slot that it has
\* not counted yet.
LEMMA AnnouncedLone ==
  ASSUME NEW w \in Workers, \A v \in Workers \ {w} : worker[v].pc = "idle"
  PROVE  Announced = IF worker[w].pc \in Counting THEN Live \cup {worker[w].slot} ELSE Live
<1>1. {v \in Workers : worker[v].pc \in Counting}
        = IF worker[w].pc \in Counting THEN {w} ELSE {}
  BY DEF Counting
<1> QED
  BY <1>1 DEF Announced

\* An announced slot holds a place and its occupancy.
LEMMA AnnouncedFacts ==
  ASSUME TypeInv, LoneWork, overlap # "since", NEW i \in Announced
  PROVE  /\ i \in Slots /\ g_p[i].name \in Places /\ g_p[i].occ \in Occupancy
<1>1. /\ g_p \in [Slots -> SlotRecords] /\ num_g_p \in Slots /\ Live \subseteq Slots
  BY ParkingTableAssumption DEF TypeInv, TypeOK, SlotRecords, Slots, Live
<1>2. CASE i \in Live
  BY <1>1, <1>2 DEF LoneWork, OneSlotEach, SlotRecords
<1>3. ASSUME NEW w \in Workers, worker[w].pc \in Counting, i = worker[w].slot
      PROVE  i \in Slots /\ g_p[i].name \in Places /\ g_p[i].occ \in Occupancy
  <2>1. i = num_g_p /\ g_p[i].name = worker[w].place /\ worker[w].place \in Places
    BY <1>3 DEF LoneWork, WorkIsSound, Adding, Counting, TypeInv, Shapes, Busy, PCs
  <2> QED
    BY <1>1, <2>1 DEF SlotRecords
<1> QED
  BY <1>2, <1>3 DEF Announced

LEMMA QueueFacts ==
  ASSUME TypeInv
  PROVE  /\ queue \in Seq(Slots) /\ Len(queue) \in Nat /\ DOMAIN queue = 1 .. Len(queue)
         /\ \A k \in DOMAIN queue : queue[k] \in Slots
         /\ task \in TaskRecords /\ (task.slot = None => task = Waiting)
<1>1. queue \in Seq(Slots) /\ task \in TaskRecords
  BY DEF TypeInv, TypeOK, TaskRecords
<1> QED
  BY <1>1, ElementOfSeq, LenProperties DEF TypeInv, Shapes

\* A step that keeps the queue and slot i, and gives i's place to no other slot.
LEMMA StaysUnderway ==
  ASSUME TypeInv, NEW i \in Slots, IsUnderway(i),
         UNCHANGED <<queue, task, shown>>, g_p'[i] = g_p[i],
         \A s \in Slots : g_p[s].name # g_p[i].name => g_p'[s].name # g_p[i].name
  PROVE  IsUnderway(i)'
<1>1. \A k : HarmlessAfter(k, i) => HarmlessAfter(k, i)'
  BY QueueFacts DEF HarmlessAfter, Harmless
<1>2. Queued(i) => Queued(i)'
  BY <1>1 DEF Queued
<1>3. InHand(i) => InHand(i)'
  BY <1>1 DEF InHand
<1>4. Shown(i) => Shown(i)'
  <2>1. task.slot # None => task.slot \in Slots
    BY QueueFacts DEF TaskRecords
  <2> QED
    BY <1>1, <2>1 DEF Shown
<1> QED
  BY <1>2, <1>3, <1>4 DEF IsUnderway

\* A send of the number of another place's slot.
LEMMA SendUnderway ==
  ASSUME TypeInv, NEW i \in Slots, IsUnderway(i), NEW s \in Slots, Send(s), ~dropped',
         UNCHANGED <<g_p, task, shown>>, g_p[s].name # g_p[i].name
  PROVE  IsUnderway(i)'
<1>1. /\ \A k \in DOMAIN queue : queue'[k] = queue[k]
      /\ \A k \in DOMAIN queue' : k \in DOMAIN queue \/ queue'[k] = s
      /\ DOMAIN queue \subseteq DOMAIN queue'
  BY SendQueue DEF TypeInv
<1>2. \A k : HarmlessAfter(k, i) => HarmlessAfter(k, i)'
  BY <1>1 DEF HarmlessAfter, Harmless
<1>3. Queued(i) => Queued(i)'
  BY <1>1, <1>2 DEF Queued
<1>4. InHand(i) => InHand(i)'
  BY <1>2 DEF InHand
<1>5. Shown(i) => Shown(i)'
  BY <1>2 DEF Shown
<1> QED
  BY <1>3, <1>4, <1>5 DEF IsUnderway

\* A slot's number has just been sent.
LEMMA SentIsUnderway ==
  ASSUME TypeInv, NEW s \in Slots, Send(s), ~dropped'
  PROVE  IsUnderway(s)'
<1>1. PICK n \in Nat : n = Len(queue) + 1
  BY QueueFacts
<1>2. /\ queue'[n] = s /\ n \in DOMAIN queue'
      /\ \A k \in DOMAIN queue' : k <= n
  BY <1>1, SendQueue, QueueFacts DEF TypeInv
<1>3. HarmlessAfter(n, s)'
  BY <1>2, QueueFacts, SendQueue, LenProperties DEF HarmlessAfter, TypeInv
<1> QED
  BY <1>2, <1>3 DEF Queued, IsUnderway

\* A worker that begins or ends a place is not counting one.
LEMMA LoneSearchPc ==
  ASSUME TypeInv, NEW w \in Workers, Trigger(w) \/ IntervalNext(w)
  PROVE  worker'[w].pc \notin Counting
<1>0. TypeOK /\ worker[w] \in WorkerRecords
  BY DEF TypeInv, TypeOK, WorkerRecords
<1>1. ASSUME NEW r \in WorkerRecords, r.place \in Places,
             worker' = [worker EXCEPT ![w] = Search(r)]
      PROVE  worker'[w].pc \notin Counting
  BY <1>0, <1>1, SearchShape, RecordMove DEF Counting
<1>2. CASE Trigger(w)
  <2>1. PICK p \in Places : \E o \in Reported(p) :
          worker' = [worker EXCEPT ![w] = Search([Idle EXCEPT !.place = p, !.occ = o])]
    BY <1>2 DEF Trigger
  <2>2. PICK o \in Reported(p) :
          worker' = [worker EXCEPT ![w] = Search([Idle EXCEPT !.place = p, !.occ = o])]
    BY <2>1
  <2> DEFINE r == [Idle EXCEPT !.place = p, !.occ = o]
  <2>3. r \in WorkerRecords /\ r.place \in Places
    BY ReportShape
  <2>4. worker' = [worker EXCEPT ![w] = Search(r)]
    BY <2>2
  <2> HIDE DEF r
  <2> QED
    BY <1>1, <2>3, <2>4
<1>3. CASE worker' = [worker EXCEPT ![w] = Idle]
  BY <1>0, <1>3, IdleShape, RecordMove DEF Counting
<1>4. CASE /\ worker[w].place < NumPlaces
           /\ \E o \in Reported(worker[w].place) :
                worker' = [worker EXCEPT ![w] = Search([@ EXCEPT !.occ = o])]
  <2>1. PICK o \in Reported(worker[w].place) :
          worker' = [worker EXCEPT ![w] = Search([worker[w] EXCEPT !.occ = o])]
    BY <1>4
  <2> DEFINE r == [worker[w] EXCEPT !.occ = o]
  <2>2. r \in WorkerRecords /\ r.place \in Places
    BY <1>0, <1>4, ReportShape
  <2>3. worker' = [worker EXCEPT ![w] = Search(r)]
    BY <2>1
  <2> HIDE DEF r
  <2> QED
    BY <1>1, <2>2, <2>3
<1> QED
  BY <1>2, <1>3, <1>4 DEF IntervalNext

LEMMA WorkerUnderway ==
  ASSUME TypeInv, LoneWork, Underway, NEW w \in Workers, Worker(w) PROVE Underway'
<1> SUFFICES ASSUME overlap' # "since", ~dropped', ~changed', NEW i \in Announced'
             PROVE  IsUnderway(i)'
  BY DEF Underway
<1>1. \A v \in Workers \ {w} : worker[v].pc = "idle" /\ worker'[v] = worker[v]
  BY LoneStep, WorkerTypes
<1>2. /\ Announced = IF worker[w].pc \in Counting THEN Live \cup {worker[w].slot} ELSE Live
      /\ Announced' = IF worker'[w].pc \in Counting THEN Live' \cup {worker'[w].slot} ELSE Live'
  <2>1. \A v \in Workers \ {w} : worker'[v].pc = "idle"
    BY <1>1
  <2>2. {v \in Workers : worker'[v].pc \in Counting}
          = IF worker'[w].pc \in Counting THEN {w} ELSE {}
    BY <2>1 DEF Counting
  <2> QED
    BY <1>1, <2>2, AnnouncedLone DEF Announced
<1>3. /\ TypeOK /\ worker[w] \in WorkerRecords /\ WorkerShape(worker[w])
      /\ num_g_p \in 0 .. MAX_PARKING /\ MAX_PARKING \in Nat \ {0}
      /\ num_g_p \in Slots /\ Live \subseteq Slots /\ num_g_p \notin Live
  BY ParkingTableAssumption
  DEF TypeInv, TypeOK, Shapes, WorkerShape, WorkerRecords, Slots, Live
<1>4. task' = task /\ shown' = shown
  BY WorkerTypes
<1>5. CASE Interval(w)
  <2>1. worker'[w] = [Idle EXCEPT !.pc = "next", !.interval = TRUE] /\ num_g_p' = 0
    BY <1>3, <1>5, ReportShape, RecordMove DEF Interval
  <2>2. worker'[w].pc = "next"
    BY <2>1, ReportShape, Zenon
  <2>3. Live' = {}
    BY <2>1 DEF Live
  <2> QED
    BY <1>2, <2>2, <2>3 DEF Counting
<1>6. CASE overlap # "since" /\ ~Interval(w)
  <2>1. ~dropped /\ ~changed
    <3>1. CASE Announce(w)
      BY <3>1 DEF Announce
    <3>2. CASE AnnounceNew(w)
      BY <3>2 DEF AnnounceNew, Send
    <3>3. CASE UNCHANGED <<dropped, changed>>
      BY <3>3
    <3> QED
      BY <1>6, <3>1, <3>2, <3>3
      DEF Worker, Trigger, IntervalNext, Change, Fill, FillName, LoadCount, StoreCount, history
  <2>2. OneSlotEach /\ WorkIsSound(w)
    BY <1>6 DEF LoneWork
  <2>3. \A j \in Announced : IsUnderway(j) /\ j \in Slots
    BY <1>6, <2>1, AnnouncedFacts DEF Underway
  <2>4. ASSUME UNCHANGED <<g_p, queue>>, i \in Announced PROVE IsUnderway(i)'
    BY <1>4, <2>3, <2>4, StaysUnderway
  <2>5. CASE Trigger(w) \/ IntervalNext(w)
    <3>1. UNCHANGED <<g_p, num_g_p, queue>> /\ worker[w].pc \in {"idle", "next"}
      BY <2>5 DEF Trigger, IntervalNext
    <3>2. worker'[w].pc \notin Counting
      BY <2>5, LoneSearchPc
    <3> QED
      BY <1>2, <2>4, <3>1, <3>2 DEF Live
  <2>6. CASE Announce(w) \/ Change(w)
    <3>1. ~Announce(w)
      BY DEF Announce
    <3>2. ~Change(w)
      BY <2>1, <2>2 DEF Change, WorkIsSound
    <3> QED
      BY <2>6, <3>1, <3>2
  <2>7. CASE Fill(w)
    <3>1. /\ worker[w].pc = "fill" /\ worker[w].slot = num_g_p /\ worker[w].occ \in Occupancy
          /\ UNCHANGED <<num_g_p, queue>>
      BY <1>3, <2>2, <2>7 DEF Fill, WorkIsSound, Adding, WorkerRecords
    <3>2. worker'[w].pc = "name"
      BY <1>3, <2>7, PcMove DEF Fill, PCs
    <3>3. i \in Live /\ i \in Announced
      BY <1>2, <3>1, <3>2 DEF Live, Counting
    <3>4. /\ \A t \in Slots : g_p'[t].name = g_p[t].name
          /\ \A t \in Slots \ {num_g_p} : g_p'[t] = g_p[t]
      BY <1>3, <2>7, <3>1, OccWrite DEF Fill
    <3> QED
      BY <1>3, <1>4, <2>3, <3>1, <3>3, <3>4, StaysUnderway
  <2>8. CASE FillName(w)
    <3>1. /\ worker[w].pc = "name" /\ worker[w].slot = num_g_p /\ worker[w].place \in Places
          /\ UNCHANGED <<num_g_p, queue>>
          /\ \A j \in Live : g_p[j].name # worker[w].place
      BY <1>3, <2>2, <2>8 DEF FillName, WorkIsSound, Adding, WorkerShape, Busy, PCs
    <3>2. worker'[w].pc = "queue"
      BY <1>3, <2>8, PcMove DEF FillName, PCs
    <3>3. i \in Live /\ i \in Announced
      BY <1>2, <3>1, <3>2 DEF Live, Counting
    <3> DEFINE p == worker[w].place
    <3>4. g_p' = [g_p EXCEPT ![num_g_p].name = p] /\ p \in Places
      BY <2>8, <3>1 DEF FillName
    <3>8. \A j \in Live : g_p[j].name # p
      BY <3>1
    <3> HIDE DEF p
    <3>5. /\ g_p'[num_g_p].name = p
          /\ \A t \in Slots \ {num_g_p} : g_p'[t] = g_p[t]
      BY <1>3, <3>4, NameWrite
    <3>6. \A s \in Slots : g_p[s].name # g_p[i].name => g_p'[s].name # g_p[i].name
      BY <3>3, <3>5, <3>8
    <3>7. g_p'[i] = g_p[i] /\ i \in Slots
      BY <1>3, <3>3, <3>5
    <3> QED
      BY <1>4, <2>3, <3>1, <3>3, <3>6, <3>7, StaysUnderway
  <2>9. CASE AnnounceNew(w)
    <3>1. /\ worker[w].pc = "queue" /\ worker[w].slot = num_g_p
          /\ UNCHANGED <<g_p, num_g_p>> /\ Send(num_g_p)
          /\ \A j \in Live : g_p[j].name # g_p[num_g_p].name
      BY <2>2, <2>9 DEF AnnounceNew, WorkIsSound, Adding
    <3>2. worker'[w].pc = "count" /\ worker'[w].slot = num_g_p
      BY <1>3, <2>9, <3>1, PcMove DEF AnnounceNew, PCs
    <3>3. i \in Live \cup {num_g_p}
      BY <1>2, <3>1, <3>2 DEF Live, Counting
    <3>4. CASE i = num_g_p
      BY <1>3, <3>1, <3>4, SentIsUnderway
    <3>5. CASE i \in Live
      <4>1. i \in Announced /\ i \in Slots
        BY <1>2, <1>3, <3>1, <3>5
      <4>2. g_p[num_g_p].name # g_p[i].name
        BY <3>1, <3>5
      <4> QED
        BY <1>3, <1>4, <2>3, <3>1, <4>1, <4>2, SendUnderway
    <3> QED
      BY <3>3, <3>4, <3>5
  <2>11. CASE LoadCount(w)
    <3>1. /\ worker[w].pc = "count" /\ worker[w].slot = num_g_p
          /\ worker'[w].pc = "store" /\ worker'[w].slot = num_g_p
          /\ UNCHANGED <<g_p, num_g_p, queue>>
      BY <1>3, <2>2, <2>11, LoadMove DEF LoadCount, WorkIsSound, Adding
    <3> QED
      BY <1>2, <2>4, <3>1 DEF Live, Counting
  <2>10. CASE StoreCount(w)
    <3>1. /\ worker[w].pc = "store" /\ worker[w].slot = num_g_p /\ worker[w].place \in Places
          /\ UNCHANGED <<g_p, queue>> /\ num_g_p' = Counted(num_g_p)
      BY <1>3, <2>2, <2>10 DEF StoreCount, WorkIsSound, Adding, WorkerShape, Busy, PCs
    <3>2. worker'[w].pc \notin Counting
      BY <1>3, <2>10, <3>1, FinishShape, RecordMove DEF StoreCount, Counting
    <3>3. Live' \subseteq Live \cup {num_g_p}
      BY <1>3, <3>1 DEF Live, Counted
    <3> QED
      BY <1>2, <2>4, <3>1, <3>2, <3>3 DEF Counting
  <2> QED
    BY <1>6, <2>5, <2>6, <2>7, <2>8, <2>9, <2>10, <2>11 DEF Worker
<1> QED
  BY <1>5, <1>6, LoneStep

\* ParkingTask takes the oldest number, reads its slot, and hands on what it read.
LEMMA TaskUnderway ==
  ASSUME TypeInv, LoneWork, Underway, Receive \/ Read \/ HandOn PROVE Underway'
<1>0. UNCHANGED <<g_p, num_g_p, worker, overlap, dropped, changed>>
  BY TaskTypes DEF history
<1>1. Announced' = Announced
  BY <1>0 DEF Announced, Live
<1> SUFFICES ASSUME overlap # "since", ~dropped, ~changed, NEW i \in Announced
             PROVE  IsUnderway(i)'
  BY <1>0, <1>1 DEF Underway
<1>2. /\ IsUnderway(i) /\ i \in Slots /\ i # None
      /\ g_p[i].name \in Places /\ g_p[i].name # Unread
      /\ g_p[i].occ \in Occupancy /\ g_p[i].occ # Unread
  BY AnnouncedFacts, ParkingTableAssumption
  DEF Underway, Slots, Places, None, Unread, Occupancy
<1>3. CASE Receive
  <2>1. /\ task.slot = None /\ queue # <<>> /\ queue' = Tail(queue)
        /\ task' = [Waiting EXCEPT !.slot = Head(queue)] /\ shown' = shown
    BY <1>3 DEF Receive
  <2>2. /\ Head(queue) = queue[1] /\ Len(queue) \in Nat \ {0}
        /\ DOMAIN queue = 1 .. Len(queue) /\ DOMAIN queue' = 1 .. Len(queue) - 1
        /\ \A k \in 1 .. Len(queue) - 1 : queue'[k] = queue[k + 1]
    BY <2>1, QueueFacts, HeadTailProperties, EmptySeq, LenProperties
  <2>3. task'.slot = queue[1] /\ task'.name = Unread /\ task'.occ = Unread
    BY <2>1, <2>2 DEF Waiting
  <2>4. ASSUME NEW k \in 1 .. Len(queue), HarmlessAfter(k, i) PROVE HarmlessAfter(k - 1, i)'
    <3> SUFFICES ASSUME NEW m \in 1 .. Len(queue) - 1, m > k - 1
                 PROVE  Harmless(queue[m], i)'
      BY <2>2 DEF HarmlessAfter
    <3>1. m + 1 \in DOMAIN queue /\ m + 1 > k /\ queue'[m] = queue[m + 1]
      BY <2>2
    <3>2. Harmless(queue[m + 1], i)
      BY <2>4, <3>1 DEF HarmlessAfter
    <3> QED
      BY <1>0, <3>1, <3>2 DEF Harmless
  <2>5. CASE Queued(i)
    <3>1. PICK k \in DOMAIN queue : queue[k] = i /\ HarmlessAfter(k, i)
      BY <2>5 DEF Queued
    <3>2. CASE k = 1
      <4>1. HarmlessAfter(0, i)'
        BY <2>2, <2>4, <3>1, <3>2
      <4> QED
        BY <2>3, <3>1, <3>2, <4>1 DEF IsUnderway, InHand
    <3>3. CASE k # 1
      <4>1. k - 1 \in DOMAIN queue' /\ queue'[k - 1] = i
        BY <2>2, <3>1, <3>3
      <4>2. HarmlessAfter(k - 1, i)'
        BY <2>2, <2>4, <3>1
      <4> QED
        BY <4>1, <4>2 DEF IsUnderway, Queued
    <3> QED
      BY <3>2, <3>3
  <2>6. CASE InHand(i)
    BY <1>2, <2>1, <2>6 DEF InHand
  <2>7. CASE Shown(i)
    <3>1. HarmlessAfter(0, i) /\ shown[g_p[i].name] = g_p[i].occ
      BY <2>7 DEF Shown
    <3>2. HarmlessAfter(1, i)
      BY <3>1, QueueFacts DEF HarmlessAfter
    <3>3. HarmlessAfter(0, i)'
      BY <2>2, <2>4, <3>2
    <3>4. Harmless(queue[1], i)
      BY <2>2, <3>1 DEF HarmlessAfter
    <3>5. CASE queue[1] = i
      BY <2>3, <3>3, <3>5 DEF IsUnderway, InHand
    <3>6. CASE g_p[queue[1]].name # g_p[i].name
      BY <1>0, <1>2, <2>1, <2>3, <3>1, <3>3, <3>6 DEF IsUnderway, Shown
    <3> QED
      BY <3>4, <3>5, <3>6 DEF Harmless
  <2> QED
    BY <1>2, <2>5, <2>6, <2>7 DEF IsUnderway
<1>4. CASE Read
  <2>1. /\ task.slot # None /\ task \in TaskRecords /\ UNCHANGED <<queue, shown>>
        /\ \/ /\ task.occ = Unread
              /\ task' = [task EXCEPT !.occ = g_p[task.slot].occ]
           \/ /\ task.name = Unread
              /\ task' = [task EXCEPT !.name = g_p[task.slot].name]
    BY <1>4, QueueFacts DEF Read
  <2>2. task'.slot = task.slot
    BY <2>1 DEF TaskRecords
  <2>3. \A k : HarmlessAfter(k, i) => HarmlessAfter(k, i)'
    BY <1>0, <2>1 DEF HarmlessAfter, Harmless
  <2>4. CASE Queued(i)
    BY <2>1, <2>3, <2>4 DEF Queued, IsUnderway
  <2>5. CASE InHand(i)
    <3>1. /\ task'.name \in {Unread, g_p[i].name} /\ task'.occ \in {Unread, g_p[i].occ}
      BY <2>1, <2>5 DEF InHand, TaskRecords
    <3> QED
      BY <1>0, <2>2, <2>3, <2>5, <3>1 DEF InHand, IsUnderway
  <2>6. CASE Shown(i)
    <3>1. task'.name # g_p[i].name
      BY <2>1, <2>6 DEF Shown, TaskRecords
    <3>2. task'.name = Unread => g_p[task.slot].name # g_p[i].name
      BY <2>1, <2>6 DEF Shown, TaskRecords
    <3> QED
      BY <1>0, <2>1, <2>2, <2>3, <2>6, <3>1, <3>2 DEF Shown, IsUnderway
  <2> QED
    BY <1>2, <2>4, <2>5, <2>6 DEF IsUnderway
<1>5. CASE HandOn
  <2>1. /\ task.name # Unread /\ task.occ # Unread /\ queue' = queue
        /\ task'.slot = None
        /\ shown' = [p \in Places |-> IF p = task.name THEN task.occ ELSE shown[p]]
    BY <1>5 DEF HandOn, Waiting
  <2>2. \A k : HarmlessAfter(k, i) => HarmlessAfter(k, i)'
    BY <1>0, <2>1 DEF HarmlessAfter, Harmless
  <2>3. task.slot # None
    BY <2>1, QueueFacts DEF Waiting
  <2>4. CASE Queued(i)
    BY <2>1, <2>2, <2>4 DEF Queued, IsUnderway
  <2>5. CASE InHand(i)
    <3>1. task.name = g_p[i].name /\ task.occ = g_p[i].occ
      BY <2>1, <2>5 DEF InHand
    <3>2. shown'[g_p[i].name] = g_p[i].occ
      BY <1>2, <2>1, <3>1
    <3> QED
      BY <1>0, <2>1, <2>2, <2>5, <3>2 DEF InHand, Shown, IsUnderway
  <2>6. CASE Shown(i)
    <3>1. task.name # g_p[i].name /\ shown[g_p[i].name] = g_p[i].occ
      BY <2>3, <2>6 DEF Shown
    <3>2. shown'[g_p[i].name] = g_p[i].occ
      BY <1>2, <2>1, <3>1
    <3> QED
      BY <1>0, <2>1, <2>2, <2>6, <3>2 DEF Shown, IsUnderway
  <2> QED
    BY <1>2, <2>4, <2>5, <2>6 DEF IsUnderway
<1> QED
  BY <1>3, <1>4, <1>5

LEMMA UnderwayNext == TypeInv /\ LoneWork /\ Underway /\ [Next]_vars => Underway'
<1> SUFFICES ASSUME TypeInv, LoneWork, Underway, [Next]_vars PROVE Underway'
  OBVIOUS
<1>1. CASE UNCHANGED vars
  BY <1>1 DEF vars, history, Underway, IsUnderway, Announced, Live, Queued, InHand, Shown,
              HarmlessAfter, Harmless
<1> QED
  BY <1>1, WorkerUnderway, TaskUnderway DEF Next

LEMMA UnderwayInit == Init => Underway
<1> SUFFICES ASSUME Init PROVE Underway
  OBVIOUS
<1>1. Live = {} /\ \A w \in Workers : worker[w].pc = "idle"
  BY IdleShape DEF Init, Live
<1> QED
  BY <1>1 DEF Underway, Announced, Counting

-----------------------------------------------------------------------------
LEMMA InitInv == Init => IInv
BY TypeInit, LoneInit, FilledInit, UnderwayInit DEF IInv

LEMMA NextInv == IInv /\ [Next]_vars => IInv'
BY TypeNext, LoneNext, FilledNext, UnderwayNext DEF IInv

LEMMA Invariance == Spec => []IInv
BY InitInv, NextInv, PTL DEF Spec

\* num_g_p stays within g_p[], and no worker and no read of ParkingTask goes further
\* than one slot behind it, however the workers overlap.
THEOREM TypeCorrect == Spec => []TypeOK
<1>1. IInv => TypeOK
  BY DEF IInv, TypeInv
<1> QED
  BY <1>1, Invariance, PTL

\* addValueToParking gives a place one slot, as long as one report at a time is parsed,
\* and a lone interval report restores this.
THEOREM OnePlaceOneSlot == Spec => []NoDuplicatePlace
<1>1. IInv => NoDuplicatePlace
  BY DEF IInv, LoneWork, OneSlotEach, NoDuplicatePlace
<1> QED
  BY <1>1, Invariance, PTL

\* The slots in use hold as many places as there are slots in use.
LEMMA LiveNames ==
  ASSUME TypeInv, OneSlotEach
  PROVE  Cardinality({g_p[i].name : i \in Live}) = num_g_p
<1> DEFINE names == {g_p[i].name : i \in Live}
           f == [i \in Live |-> g_p[i].name]
<1>1. num_g_p \in Nat
  BY ParkingTableAssumption DEF TypeInv, TypeOK
<1>2. IsFiniteSet(Live) /\ Cardinality(Live) = num_g_p
  BY <1>1, FS_Interval DEF Live
<1>3. f \in Surjection(Live, names)
  BY DEF Surjection
<1>4. f \in Injection(Live, names)
  BY DEF Injection, OneSlotEach, IsInjective
<1> HIDE DEF f, names
<1>5. Cardinality(names) = num_g_p
  BY <1>2, <1>3, <1>4, FS_Surjection
<1> QED
  BY <1>5 DEF names

\* As long as the cameras have no more places than g_p[] has slots, a worker that runs
\* alone never fills the memory behind it.
THEOREM FitsArray ==
  Spec => [](NumPlaces <= MAX_PARKING /\ overlap # "since" =>
               \A w \in Workers : worker[w].pc \in {"fill", "name"} => worker[w].slot < MAX_PARKING)
<1>1. IInv /\ NumPlaces <= MAX_PARKING /\ overlap # "since" =>
        \A w \in Workers : worker[w].pc \in {"fill", "name"} => worker[w].slot < MAX_PARKING
  <2> SUFFICES ASSUME IInv, NumPlaces <= MAX_PARKING, overlap # "since", NEW w \in Workers,
                      worker[w].pc \in {"fill", "name"}
               PROVE  worker[w].slot < MAX_PARKING
    OBVIOUS
  <2> DEFINE names == {g_p[i].name : i \in Live}
  <2>1. OneSlotEach /\ WorkIsSound(w)
    BY DEF IInv, LoneWork
  <2>2. /\ worker[w].slot = num_g_p /\ worker[w].place \in Places
        /\ num_g_p \in 0 .. MAX_PARKING /\ MAX_PARKING \in Nat /\ NumPlaces \in Nat
    BY <2>1, ParkingTableAssumption
    DEF WorkIsSound, Adding, IInv, TypeInv, TypeOK, Shapes, Busy, PCs
  <2>3. names \subseteq Places \ {worker[w].place}
    BY <2>1 DEF WorkIsSound, Adding, OneSlotEach
  <2>4. Cardinality(names) = num_g_p
    BY <2>1, LiveNames DEF IInv
  <2>5. IsFiniteSet(Places) /\ Cardinality(Places) = NumPlaces
    BY <2>2, FS_Interval DEF Places
  <2>6. /\ IsFiniteSet(Places \ {worker[w].place})
        /\ Cardinality(Places \ {worker[w].place}) = NumPlaces - 1
    BY <2>2, <2>5, FS_RemoveElement
  <2>7. Cardinality(names) <= NumPlaces - 1
    BY <2>3, <2>6, FS_Subset
  <2> QED
    BY <2>2, <2>4, <2>7
<1> QED
  BY <1>1, Invariance, PTL

\* Every number in xQueueParking, and the one that ParkingTask works on, is of a slot
\* that has held a place.
THEOREM AnnouncedFilled == Spec => []AnnouncedIsFilled
<1>1. IInv => AnnouncedIsFilled
  BY DEF IInv
<1> QED
  BY <1>1, Invariance, PTL

\* Whatever numbers were queued and whatever ParkingTask had half read when a lone
\* interval report began, the occupancies that it reports are the last ones handed on.
THEOREM Repairs == Spec => []IntervalRepairs
<1>1. IInv => IntervalRepairs
  <2> SUFFICES ASSUME IInv, Quiet, overlap # "since", ~dropped, ~changed, NEW i \in Live
               PROVE  shown[g_p[i].name] = g_p[i].occ
    BY DEF IntervalRepairs, Settled
  <2>1. IsUnderway(i)
    BY DEF IInv, Underway, Announced
  <2>2. ~Queued(i)
    BY DEF Quiet, Queued
  <2>3. i # None
    BY ParkingTableAssumption DEF IInv, TypeInv, TypeOK, Live, None
  <2>4. ~InHand(i)
    BY <2>3 DEF Quiet, Waiting, InHand
  <2> QED
    BY <2>1, <2>2, <2>4 DEF IsUnderway, Shown
<1> QED
  BY <1>1, Invariance, PTL
=============================================================================
