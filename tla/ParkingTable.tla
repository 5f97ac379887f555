---------------------------- MODULE ParkingTable ----------------------------
(***************************************************************************)
(* The parking places: g_p[] and num_g_p of main/parking.c, filled by the  *)
(* HTTP workers that parse the cameras' reports and read by ParkingTask,   *)
(* which gets slot numbers through a queue and looks the slots up later.   *)
(*                                                                         *)
(* A report is a trigger (one place) or an interval (all places of the     *)
(* camera, in order, after the table is emptied).  Each write a reader can *)
(* tell from the next is a step; a search is one step.  The names that     *)
(* parsing builds are the numbers 0 .. NumPlaces-1.  No lock keeps workers *)
(* apart: the httpd task starts them 100 ms apart, but a body that comes   *)
(* late lets two parse at once, which the history variable overlap tells.  *)
(***************************************************************************)
EXTENDS Integers, Sequences

CONSTANTS
  Workers,       \* tasks of _post_change_stateCamera alive at a time
  NumPlaces,     \* places the cameras report
  MAX_PARKING,   \* slots of g_p[]                               (100 in parking.h)
  QueueLength,   \* depth of xQueueParking                       (100 in main.c)
  Varying,       \* bound: the places that are ever reported occupied
  MaxTriggers, MaxIntervals   \* bounds: reports that arrive

ASSUME ParkingTableAssumption ==
  /\ NumPlaces \in Nat /\ Varying \subseteq 0 .. NumPlaces - 1
  /\ MaxTriggers \in Nat /\ MaxIntervals \in Nat
  /\ MAX_PARKING \in Nat \ {0} /\ QueueLength \in Nat \ {0}

VARIABLES
  g_p,        \* the array, and in slot MAX_PARKING the memory behind it
  num_g_p,    \* how many slots are in use
  queue,      \* xQueueParking: slot numbers
  worker,     \* per worker: where it is, its place, its occupancy, its slot
  task,       \* ParkingTask: the slot received, what it has read of it
  shown,      \* per place: the occupancy ParkingTask handed on last
  overlap,    \* history: two workers were at work at once
  dropped,    \* history: a send gave up since the last lone interval began
  changed,    \* history: a stored place changed since then
  triggers, intervals   \* bounds: reports so far

history == <<overlap, dropped, changed, triggers, intervals>>
vars == <<g_p, num_g_p, queue, worker, task, shown, history>>

Places    == 0 .. NumPlaces - 1
None      == -1                \* no name, no slot, nothing handed on
Unread    == -2
Occupancy == {0, 1}
Reported(p) == IF p \in Varying THEN Occupancy ELSE {0}
Slots     == 0 .. MAX_PARKING
Live      == 0 .. num_g_p - 1

Idle    == [pc |-> "idle", place |-> 0, occ |-> 0, slot |-> None, interval |-> FALSE]
Waiting == [slot |-> None, name |-> Unread, occ |-> Unread]

Alone(w) == \A v \in Workers \ {w} : worker[v].pc = "idle"

\* What follows a place: the next place of an interval, or the end of the report.
Finish(r) == IF r.interval THEN [r EXCEPT !.pc = "next", !.place = @ + 1, !.occ = 0, !.slot = None]
             ELSE Idle

\* (Fault: the place is counted even when the array is full.)
CountedAlways(n) == n + 1
Counted(n) == IF n < MAX_PARKING THEN n + 1 ELSE num_g_p

Init ==
  /\ g_p = [s \in Slots |-> [name |-> None, occ |-> 0]]
  /\ num_g_p = 0
  /\ queue = <<>>
  /\ worker = [w \in Workers |-> Idle]
  /\ task = Waiting
  /\ shown = [p \in Places |-> None]
  /\ overlap = "never" /\ dropped = FALSE /\ changed = FALSE
  /\ triggers = 0 /\ intervals = 0

-----------------------------------------------------------------------------
(* addValueToParking. *)

\* xQueueSend of a slot number, giving up after ten ticks of a full queue.
Send(slot) ==
  \/ Len(queue) < QueueLength /\ queue' = Append(queue, slot) /\ UNCHANGED dropped
  \/ Len(queue) = QueueLength /\ dropped' = TRUE /\ UNCHANGED queue

\* Fault: the search does not see the last place.
FoundShort(p) == {i \in 0 .. num_g_p - 2 : g_p[i].name = p}
Found(p) == {i \in Live : g_p[i].name = p}

\* The search for r's place ends with an unchanged place, a changed one, or none: the
\* slot to fill is then the one after the last.
Search(r) ==
  IF Found(r.place) = {} THEN [r EXCEPT !.pc = "fill", !.slot = num_g_p]
  ELSE LET i == CHOOSE i \in Found(r.place) : \A j \in Found(r.place) : i <= j
       IN  IF g_p[i].occ = r.occ THEN Finish(r)
           ELSE [r EXCEPT !.pc = "announce", !.slot = i]

\* A changed place is announced ...
Announce(w) ==
  /\ worker[w].pc = "announce"
  /\ Send(worker[w].slot)
  /\ worker' = [worker EXCEPT ![w].pc = "change"]
  /\ changed' = TRUE
  /\ UNCHANGED <<g_p, num_g_p, task, shown, overlap, triggers, intervals>>

\* ... before it is written.
Change(w) ==
  LET r == worker[w] IN
  /\ r.pc = "change"
  /\ g_p' = [g_p EXCEPT ![r.slot].occ = r.occ]
  /\ worker' = [worker EXCEPT ![w] = Finish(r)]
  /\ UNCHANGED <<num_g_p, queue, task, shown, history>>

\* A new place is written, field by field, ...
Fill(w) ==
  LET r == worker[w] IN
  /\ r.pc = "fill"
  /\ g_p' = [g_p EXCEPT ![r.slot].occ = r.occ]
  /\ worker' = [worker EXCEPT ![w].pc = "name"]
  /\ UNCHANGED <<num_g_p, queue, task, shown, history>>

\* (the build may load the count again, which differs only if workers overlap)
FillName(w) ==
  LET r == worker[w] IN
  /\ r.pc = "name"
  /\ \E s \in {r.slot, num_g_p} : g_p' = [g_p EXCEPT ![s].name = r.place]
  /\ worker' = [worker EXCEPT ![w].pc = "queue"]
  /\ UNCHANGED <<num_g_p, queue, task, shown, history>>

\* Fault: it is counted before it is announced.
AnnounceNewCounted(w) ==
  /\ worker[w].pc = "queue"
  /\ Send(Counted(num_g_p))
  /\ worker' = [worker EXCEPT ![w].pc = "count"]
  /\ UNCHANGED <<g_p, num_g_p, task, shown, overlap, changed, triggers, intervals>>

\* ... then announced with the count as its number, ...
AnnounceNew(w) ==
  /\ worker[w].pc = "queue"
  /\ Send(num_g_p)
  /\ worker' = [worker EXCEPT ![w].pc = "count"]
  /\ UNCHANGED <<g_p, num_g_p, task, shown, overlap, changed, triggers, intervals>>

\* ... then counted: the count is loaded ...
LoadCount(w) ==
  /\ worker[w].pc = "count"
  /\ worker' = [worker EXCEPT ![w] = [@ EXCEPT !.pc = "store", !.slot = num_g_p]]
  /\ UNCHANGED <<g_p, num_g_p, queue, task, shown, history>>

\* ... and stored one higher, unless it was at its limit.
StoreCount(w) ==
  LET r == worker[w] IN
  /\ r.pc = "store"
  /\ num_g_p' = Counted(r.slot)
  /\ worker' = [worker EXCEPT ![w] = Finish(r)]
  /\ UNCHANGED <<g_p, queue, task, shown, history>>

-----------------------------------------------------------------------------
(* The reports.  A body that does not parse, or lacks a field, ends its report. *)

\* parseParkingTriger.
Trigger(w) ==
  /\ worker[w].pc = "idle"
  /\ triggers < MaxTriggers /\ triggers' = triggers + 1
  /\ \E p \in Places : \E o \in Reported(p) :
       worker' = [worker EXCEPT ![w] = Search([Idle EXCEPT !.place = p, !.occ = o])]
  /\ overlap' = IF Alone(w) THEN overlap ELSE "since"
  /\ UNCHANGED <<g_p, num_g_p, queue, task, shown, dropped, changed, intervals>>

\* Fault: the table is not emptied.
IntervalKeeps(w) ==
  /\ worker[w].pc = "idle"
  /\ intervals < MaxIntervals /\ intervals' = intervals + 1
  /\ worker' = [worker EXCEPT ![w] = [Idle EXCEPT !.pc = "next", !.interval = TRUE]]
  /\ IF Alone(w)
     THEN /\ overlap' = IF overlap = "never" THEN overlap ELSE "before"
          /\ dropped' = FALSE /\ changed' = FALSE
     ELSE overlap' = "since" /\ UNCHANGED <<dropped, changed>>
  /\ UNCHANGED <<g_p, num_g_p, queue, task, shown, triggers>>

\* parseParkingInterval empties the table first.
Interval(w) ==
  /\ worker[w].pc = "idle"
  /\ intervals < MaxIntervals /\ intervals' = intervals + 1
  /\ num_g_p' = 0
  /\ worker' = [worker EXCEPT ![w] = [Idle EXCEPT !.pc = "next", !.interval = TRUE]]
  /\ IF Alone(w)
     THEN /\ overlap' = IF overlap = "never" THEN overlap ELSE "before"
          /\ dropped' = FALSE /\ changed' = FALSE
     ELSE overlap' = "since" /\ UNCHANGED <<dropped, changed>>
  /\ UNCHANGED <<g_p, queue, task, shown, triggers>>

\* Its loop: the next place, or the end, which a missing field may bring early.
IntervalNext(w) ==
  /\ worker[w].pc = "next"
  /\ \/ /\ worker[w].place < NumPlaces
        /\ \E o \in Reported(worker[w].place) :
             worker' = [worker EXCEPT ![w] = Search([@ EXCEPT !.occ = o])]
     \/ worker' = [worker EXCEPT ![w] = Idle]
  /\ UNCHANGED <<g_p, num_g_p, queue, task, shown, history>>

-----------------------------------------------------------------------------
(* ParkingTask. *)

Receive ==
  /\ task.slot = None
  /\ queue # <<>>
  /\ task' = [Waiting EXCEPT !.slot = Head(queue)]
  /\ queue' = Tail(queue)
  /\ UNCHANGED <<g_p, num_g_p, worker, shown, history>>

\* PUBLISH_PARKING loads the occupancy and then formats the name; the copy made
\* for WriteParkingToAFile takes the name first.
Read ==
  /\ task.slot # None
  /\ \/ task.occ = Unread /\ task' = [task EXCEPT !.occ = g_p[task.slot].occ]
     \/ task.name = Unread /\ task' = [task EXCEPT !.name = g_p[task.slot].name]
  /\ UNCHANGED <<g_p, num_g_p, queue, worker, shown, history>>

\* The message or the file is handed on.
HandOn ==
  /\ task.name # Unread /\ task.occ # Unread
  /\ shown' = [p \in Places |-> IF p = task.name THEN task.occ ELSE shown[p]]
  /\ task' = Waiting
  /\ UNCHANGED <<g_p, num_g_p, queue, worker, history>>

Worker(w) ==
  \/ Trigger(w) \/ Interval(w) \/ IntervalNext(w)
  \/ Announce(w) \/ Change(w)
  \/ Fill(w) \/ FillName(w) \/ AnnounceNew(w)
  \/ LoadCount(w) \/ StoreCount(w)

Next ==
  \/ \E w \in Workers : Worker(w)
  \/ Receive \/ Read \/ HandOn

Spec == Init /\ [][Next]_vars

-----------------------------------------------------------------------------
PCs == {"idle", "next", "announce", "change", "fill", "name", "queue", "count",
        "store"}

\* Types; the count stays within the array, and no write or read goes further than
\* one slot behind it, also when workers overlap.
TypeOK ==
  /\ g_p \in [Slots -> [name : Places \cup {None}, occ : Occupancy]]
  /\ num_g_p \in 0 .. MAX_PARKING
  /\ queue \in Seq(Slots)
  /\ worker \in [Workers -> [pc : PCs, place : 0 .. NumPlaces, occ : Occupancy,
                             slot : Slots \cup {None}, interval : BOOLEAN]]
  /\ task \in [slot : Slots \cup {None}, name : Places \cup {None, Unread},
               occ : Occupancy \cup {Unread}]
  /\ shown \in [Places -> Occupancy \cup {None}]
  /\ overlap \in {"never", "before", "since"}
  /\ dropped \in BOOLEAN /\ changed \in BOOLEAN
  /\ triggers \in 0 .. MaxTriggers /\ intervals \in 0 .. MaxIntervals

\* A place has one slot, unless workers overlapped; an interval report that runs
\* alone restores this.
NoDuplicatePlace ==
  overlap # "since" => \A i, j \in Live : g_p[i].name = g_p[j].name => i = j

\* A slot number that ParkingTask receives is of a slot that has held a place, also
\* when the table has been emptied since it was queued.
AnnouncedIsFilled ==
  overlap = "never" =>
    \A s \in {queue[k] : k \in DOMAIN queue} \cup ({task.slot} \ {None}) : g_p[s].name # None

Quiet == task = Waiting /\ queue = <<>> /\ \A w \in Workers : worker[w].pc = "idle"

Settled == \A i \in Live : shown[g_p[i].name] = g_p[i].occ

\* An interval report that ran alone is handed on in full, whatever was stale before
\* it and whatever ParkingTask was reading while it refilled the slots.
IntervalRepairs ==
  Quiet /\ overlap # "since" /\ ~dropped /\ ~changed => Settled

\* What is handed on last for a place is what the camera reported last (README,
\* "Camera events are parsed and sent to the MQTT broker").  (False: the slot number
\* is queued before the change is written.)
LastReportIsSent ==
  Quiet /\ overlap = "never" /\ ~dropped => Settled

\* What the limit of parking.h promises ("MAX OF 100 PARKINGS"): the memory behind the
\* array is left alone.  (False: only the count is kept from going past the limit, and
\* a new place is written to the slot with that number before it is looked at.)
NeverPastArray == g_p[MAX_PARKING] = [name |-> None, occ |-> 0]
=============================================================================
