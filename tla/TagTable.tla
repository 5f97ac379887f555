------------------------------ MODULE TagTable ------------------------------
(***************************************************************************)
(* The table of beacons in range: g_tag[] and num_g_tag of main/tag.c.     *)
(* addTag (called for every advertisement of a registered beacon by the    *)
(* BLE callback, and for every array element of a /postBle request) fills  *)
(* it, checkIfTagIsForRemoval empties it in a task of its own, and nothing *)
(* locks the two.  One step is one access to what they share: a read of    *)
(* the volatile num_g_tag, a field of a slot, half of ++ or --, or a wait  *)
(* in xQueueSend.                                                          *)
(*                                                                         *)
(* One task adds at a time.  With a second one both can pass the check for *)
(* the last slot, and no bound below is kept.                              *)
(*                                                                         *)
(* The microsecond clock is the age of an entry in ticks, saturating just  *)
(* past the limit.  Two fields that the removal loop does not move are     *)
(* kept by provenance: whose advertisement proximity_uuid was copied from, *)
(* and whose measurements the Kalman filter has absorbed.  rssi, refpower  *)
(* and time are moved and written like systemTime and left out, and so is  *)
(* what waits in the three queues to the publishing tasks.                 *)
(***************************************************************************)
EXTENDS Integers

CONSTANTS
  Beacons,       \* the beacons in the field: records of majorID and minorID
  NoBeacon,      \* what provenance there is in a slot of the zeroed array
  MAX_TAGS,      \* slots of g_tag[]                             (100 in tag.h)
  TimeLimit,     \* time_limit, in ticks of the model's clock    (60 s in tag.h)
  ApplayKalman,  \* applayKalman: never assigned, TRUE as built
  UuidModes,     \* bound: callers with a UUID (BLE, TRUE), without (HTTP, FALSE)
  StreamModes    \* bound: values explored of "online and streaming switched on"

ASSUME TagTableAssumption ==
  /\ Beacons \subseteq [majorID : Nat, minorID : Nat]
  /\ NoBeacon \notin Beacons
  /\ MAX_TAGS \in Nat \ {0}
  /\ TimeLimit \in Nat
  /\ ApplayKalman \in BOOLEAN
  /\ UuidModes \subseteq BOOLEAN
  /\ StreamModes \subseteq BOOLEAN

VARIABLES
  g_tag, num_g_tag,
  apc,           \* where addTag is
  beacon,        \* the beacon it was called for
  at,            \* i of its search
  aload,         \* the count it has loaded for ++
  spc,           \* where the sweep is
  i, j,          \* its indices
  sload,         \* the count it has loaded for --
  filled,        \* history: slots that were ever filled
  silence,       \* history: ticks since a beacon was last reported
  resighted,     \* history: it was reported again after it entered
  known,         \* history: the beacons in the table after its last change
  told,          \* history: what the removal under way has announced
  overlap        \* history: addTag was at work during a removal

table   == <<g_tag, num_g_tag>>
adder   == <<apc, beacon, at, aload>>
sweeper == <<spc, i, j, sload>>
history == <<filled, silence, resighted, known, told>>
vars    == <<table, adder, sweeper, history, overlap>>

Slots   == 0 .. MAX_TAGS - 1
Live    == 0 .. num_g_tag - 1
Expired == TimeLimit + 1
Ages    == 0 .. Expired
Older(n) == IF n < Expired THEN n + 1 ELSE n

ZeroTag == [majorID |-> 0, minorID |-> 0, isStanding |-> FALSE, age |-> Expired,
            proximity_uuid |-> NoBeacon, kalman |-> {}]

Id(tag) == [majorID |-> tag.majorID, minorID |-> tag.minorID]
Reported(tags, n) == {b \in Beacons : \E k \in 0 .. n - 1 : Id(tags[k]) = b}
InTable(b) == b \in Reported(g_tag, num_g_tag)

Init ==
  /\ g_tag = [k \in Slots |-> ZeroTag] /\ num_g_tag = 0
  /\ apc = "idle" /\ beacon \in Beacons /\ at = 0 /\ aload = 0
  /\ spc = "test" /\ i = 0 /\ j = 0 /\ sload = 0
  /\ filled = {} /\ known = {} /\ told = {}
  /\ silence = [b \in Beacons |-> Expired]
  /\ resighted = [b \in Beacons |-> FALSE]
  /\ overlap = FALSE

-----------------------------------------------------------------------------
(* addTag: the search. *)

addTag(b) ==
  /\ apc = "idle"
  /\ apc' = "search" /\ beacon' = b /\ at' = 0
  /\ UNCHANGED <<table, aload, sweeper, history>>

\* Fault: the search does not see the last entry.
SearchShort ==
  /\ apc = "search"
  /\ \/ at < num_g_tag - 1 /\ apc' = "majorID" /\ UNCHANGED at
     \/ at >= num_g_tag - 1 /\ apc' \in {"idle", "room"} /\ at' = 0
  /\ UNCHANGED <<table, beacon, aload, sweeper, history>>

\* Past the last entry, only a signal that reaches the threshold goes on.
Search ==
  /\ apc = "search"
  /\ \/ at < num_g_tag /\ apc' = "majorID" /\ UNCHANGED at
     \/ at >= num_g_tag /\ apc' \in {"idle", "room"} /\ at' = 0
  /\ UNCHANGED <<table, beacon, aload, sweeper, history>>

\* One half of the pair is compared: on to the next step, or to the next entry.
Compare(field, next) ==
  /\ apc = field
  /\ IF g_tag[at][field] = beacon[field]
     THEN apc' = next /\ UNCHANGED at
     ELSE apc' = "search" /\ at' = at + 1
  /\ UNCHANGED <<table, beacon, aload, sweeper, history>>

CompareMajor == Compare("majorID", "minorID")
CompareMinor == Compare("minorID", "found")

-----------------------------------------------------------------------------
(* addTag: an entry is found, and its slot is not looked at again. *)

\* The slot's filter absorbs the new RSSI; with the filter switched off, a first
\* re-sighting is announced instead.
Filter ==
  /\ apc = "found"
  /\ g_tag' = [g_tag EXCEPT ![at].kalman =
                 IF ApplayKalman THEN @ \cup {beacon} ELSE @]
  /\ apc' = IF ~ApplayKalman /\ ~g_tag[at].isStanding THEN "added" ELSE "mark"
  /\ UNCHANGED <<num_g_tag, beacon, at, aload, sweeper, history>>

\* xQueueSend of the slot number to AddTagTask, which may wait ten ticks.
SendAdded ==
  /\ apc = "added"
  /\ apc' = "mark"
  /\ UNCHANGED <<table, beacon, at, aload, sweeper, history>>

Mark ==
  /\ apc = "mark"
  /\ g_tag' = [g_tag EXCEPT ![at].isStanding = TRUE]
  /\ resighted' = [resighted EXCEPT ![beacon] = TRUE]
  /\ apc' = "clock"
  /\ UNCHANGED <<num_g_tag, beacon, at, aload, sweeper, filled, silence, known, told>>

\* While the gateway is online with streaming on, a copy of the slot is streamed.
RestartClock ==
  /\ apc = "clock"
  /\ g_tag' = [g_tag EXCEPT ![at].age = 0]
  /\ silence' = [silence EXCEPT ![beacon] = 0]
  /\ \E streaming \in StreamModes :
       IF streaming THEN apc' = "stream" /\ UNCHANGED at ELSE apc' = "idle" /\ at' = 0
  /\ UNCHANGED <<num_g_tag, beacon, aload, sweeper, filled, resighted, known, told>>

\* xQueueSend of the copy to AddTagTaskStreaming, which may wait.
SendStream ==
  /\ apc = "stream"
  /\ apc' = "idle" /\ at' = 0
  /\ UNCHANGED <<table, beacon, aload, sweeper, history>>

-----------------------------------------------------------------------------
(* addTag: none is found. *)

\* Fault: the bound is off by one.
CheckRoomLate ==
  /\ apc = "room"
  /\ apc' = IF num_g_tag > MAX_TAGS THEN "idle" ELSE "major"
  /\ UNCHANGED <<table, beacon, at, aload, sweeper, history>>

CheckRoom ==
  /\ apc = "room"
  /\ apc' = IF num_g_tag >= MAX_TAGS THEN "idle" ELSE "major"
  /\ UNCHANGED <<table, beacon, at, aload, sweeper, history>>

\* A field is written to g_tag[num_g_tag]; each write reads the count anew.
Fill(from, to, tag) ==
  /\ apc = from
  /\ apc' = to
  /\ g_tag' = [g_tag EXCEPT ![num_g_tag] = tag]
  /\ UNCHANGED <<num_g_tag, beacon, at, aload, sweeper, known, told>>

WriteMajor ==
  /\ Fill("major", "minor", [g_tag[num_g_tag] EXCEPT !.majorID = beacon.majorID])
  /\ UNCHANGED <<filled, silence, resighted>>

WriteMinor ==
  /\ Fill("minor", "uuid", [g_tag[num_g_tag] EXCEPT !.minorID = beacon.minorID])
  /\ UNCHANGED <<filled, silence, resighted>>

\* A caller without a UUID (the HTTP parser passes NULL) leaves what is there.
WriteUuid ==
  /\ \E hasUuid \in UuidModes :
       Fill("uuid", "kalman", [g_tag[num_g_tag] EXCEPT !.proximity_uuid =
                                 IF hasUuid THEN beacon ELSE @])
  /\ UNCHANGED <<filled, silence, resighted>>

InitKalman ==
  /\ Fill("kalman", "systemTime", [g_tag[num_g_tag] EXCEPT !.kalman = {}])
  /\ UNCHANGED <<filled, silence, resighted>>

StartClock ==
  /\ Fill("systemTime", "isStanding", [g_tag[num_g_tag] EXCEPT !.age = 0])
  /\ silence' = [silence EXCEPT ![beacon] = 0]
  /\ UNCHANGED <<filled, resighted>>

\* Fault: the entry is counted without its last field.
ClearMarkForgotten ==
  /\ Fill("isStanding", "load", g_tag[num_g_tag])
  /\ resighted' = [resighted EXCEPT ![beacon] = FALSE]
  /\ UNCHANGED <<filled, silence>>

ClearMark ==
  /\ Fill("isStanding", "load", [g_tag[num_g_tag] EXCEPT !.isStanding = FALSE])
  /\ resighted' = [resighted EXCEPT ![beacon] = FALSE]
  /\ filled' = filled \cup {num_g_tag}
  /\ UNCHANGED silence

IncrementLoad ==
  /\ apc = "load"
  /\ apc' = "store" /\ aload' = num_g_tag
  /\ UNCHANGED <<table, beacon, at, sweeper, history>>

IncrementStore ==
  /\ apc = "store"
  /\ apc' = "idle" /\ num_g_tag' = aload + 1 /\ aload' = 0
  /\ known' = Reported(g_tag, aload + 1)
  /\ UNCHANGED <<g_tag, beacon, at, sweeper, filled, silence, resighted, told>>

-----------------------------------------------------------------------------
(* checkIfTagIsForRemoval. *)

\* Fault: only a standing entry is ever removed.
TestEntryStanding ==
  /\ spc = "test" /\ i < num_g_tag
  /\ IF g_tag[i].age > TimeLimit /\ g_tag[i].isStanding
     THEN spc' = "standing" /\ UNCHANGED i
     ELSE i' = i + 1 /\ UNCHANGED spc
  /\ UNCHANGED <<table, adder, j, sload, history>>

\* An entry in use is kept, or found silent for too long.
TestEntry ==
  /\ spc = "test" /\ i < num_g_tag
  /\ IF g_tag[i].age > TimeLimit
     THEN spc' = "standing" /\ UNCHANGED i
     ELSE i' = i + 1 /\ UNCHANGED spc
  /\ UNCHANGED <<table, adder, j, sload, history>>

\* Fault: every removal is announced.
TestStandingNever ==
  /\ spc = "standing"
  /\ spc' = "send" /\ j' = i
  /\ UNCHANGED <<table, adder, i, sload, history>>

TestStanding ==
  /\ spc = "standing"
  /\ spc' = (IF g_tag[i].isStanding THEN "send" ELSE "shift") /\ j' = i
  /\ UNCHANGED <<table, adder, i, sload, history>>

\* xQueueSend of a copy of the slot to RemoveTagTask, which may wait ten ticks.
SendRemoved ==
  /\ spc = "send"
  /\ spc' = "shift"
  /\ told' = {Id(g_tag[i])}
  /\ UNCHANGED <<table, adder, i, j, sload, filled, silence, resighted, known>>

\* Fault: the last entry is not moved down.
ShiftShort ==
  /\ spc = "shift"
  /\ spc' = IF j < num_g_tag - 2 THEN "majorID" ELSE IF num_g_tag > 0 THEN "load" ELSE "test"
  /\ i' = IF num_g_tag > 0 THEN i ELSE i + 1
  /\ UNCHANGED <<table, adder, j, sload, history>>

\* The test of the inner loop, and behind it that of the count.
Shift ==
  /\ spc = "shift"
  /\ spc' = IF j < num_g_tag - 1 THEN "majorID" ELSE IF num_g_tag > 0 THEN "load" ELSE "test"
  /\ i' = IF num_g_tag > 0 THEN i ELSE i + 1
  /\ UNCHANGED <<table, adder, j, sload, history>>

\* The next entry moves down field by field, except its proximity_uuid and filter.
Move(from, to, tag) ==
  /\ spc = from
  /\ spc' = to
  /\ g_tag' = [g_tag EXCEPT ![j] = tag]
  /\ UNCHANGED <<num_g_tag, adder, i, sload, history>>

ShiftMajor ==
  /\ Move("majorID", "minorID", [g_tag[j] EXCEPT !.majorID = g_tag[j + 1].majorID])
  /\ UNCHANGED j

ShiftMinor ==
  /\ Move("minorID", "isStanding", [g_tag[j] EXCEPT !.minorID = g_tag[j + 1].minorID])
  /\ UNCHANGED j

ShiftMark ==
  /\ Move("isStanding", "systemTime", [g_tag[j] EXCEPT !.isStanding = g_tag[j + 1].isStanding])
  /\ UNCHANGED j

\* Fault: systemTime is left behind too.
ShiftClockForgotten ==
  /\ Move("systemTime", "shift", g_tag[j])
  /\ j' = j + 1

ShiftClock ==
  /\ Move("systemTime", "shift", [g_tag[j] EXCEPT !.age = g_tag[j + 1].age])
  /\ j' = j + 1

DecrementLoad ==
  /\ spc = "load"
  /\ spc' = "store" /\ sload' = num_g_tag
  /\ UNCHANGED <<table, adder, i, j, history>>

\* Fault: the loop does not go on to the next index after a removal.
DecrementStoreStays ==
  /\ spc = "store"
  /\ num_g_tag' = sload - 1 /\ sload' = 0
  /\ spc' = "test" /\ j' = 0
  /\ known' = Reported(g_tag, sload - 1) /\ told' = {}
  /\ UNCHANGED <<g_tag, adder, i, filled, silence, resighted>>

\* The loop goes on with the next index, past the entry moved into this one.
DecrementStore ==
  /\ spc = "store"
  /\ num_g_tag' = sload - 1 /\ sload' = 0
  /\ spc' = "test" /\ i' = i + 1 /\ j' = 0
  /\ known' = Reported(g_tag, sload - 1) /\ told' = {}
  /\ UNCHANGED <<g_tag, adder, filled, silence, resighted>>

\* Fault: the loop stops before the last entry.
RestEarly ==
  /\ spc = "test" /\ i >= num_g_tag - 1
  /\ spc' = "rest" /\ i' = 0
  /\ UNCHANGED <<table, adder, j, sload, history>>

\* The pass ends, and after DELAY(6000) the next one starts.
Rest ==
  /\ spc = "test" /\ i >= num_g_tag
  /\ spc' = "rest" /\ i' = 0
  /\ UNCHANGED <<table, adder, j, sload, history>>

Restart ==
  /\ spc = "rest"
  /\ spc' = "test"
  /\ UNCHANGED <<table, adder, i, j, sload, history>>

-----------------------------------------------------------------------------
\* esp_timer_get_time advances: every systemTime is one tick older.
ClockTick ==
  /\ g_tag' = [k \in Slots |-> [g_tag[k] EXCEPT !.age = Older(@)]]
  /\ silence' = [b \in Beacons |-> Older(silence[b])]
  /\ UNCHANGED <<num_g_tag, adder, sweeper, filled, resighted, known, told>>

Add ==
  \/ Search \/ CompareMajor \/ CompareMinor
  \/ Filter \/ SendAdded \/ Mark \/ RestartClock \/ SendStream
  \/ CheckRoom \/ WriteMajor \/ WriteMinor \/ WriteUuid \/ InitKalman
  \/ StartClock \/ ClearMark \/ IncrementLoad \/ IncrementStore

Sweep ==
  \/ TestEntry \/ TestStanding \/ SendRemoved
  \/ Shift \/ ShiftMajor \/ ShiftMinor \/ ShiftMark \/ ShiftClock
  \/ DecrementLoad \/ DecrementStore
  \/ Rest \/ Restart

\* A removal is under way from the test that finds the entry silent to the store of
\* the count; it is calm while no addTag is under way too.
Settled == spc \in {"test", "rest"}
Calm    == apc = "idle" \/ Settled
Noting(A) == A /\ overlap' = (overlap \/ ~Calm')

Next ==
  \/ \E b \in Beacons : Noting(addTag(b))
  \/ Noting(Add)
  \/ Noting(Sweep)
  \/ Noting(ClockTick)

Spec == Init /\ [][Next]_vars

\* The sweep has the highest priority of the program's tasks and waits only in
\* vTaskDelay and in bounded queue waits, a call of addTag waits only in the latter,
\* and time passes.  Nothing makes a beacon advertise.
FairSpec == Spec /\ WF_vars(Noting(Sweep)) /\ WF_vars(Noting(Add)) /\ WF_vars(Noting(ClockTick))

-----------------------------------------------------------------------------
AddPCs == {"idle", "search", "majorID", "minorID", "found", "added", "mark", "clock",
           "stream", "room", "major", "minor", "uuid", "kalman", "systemTime",
           "isStanding", "load", "store"}
SweepPCs == {"test", "standing", "send", "shift", "majorID", "minorID", "isStanding",
             "systemTime", "load", "store", "rest"}

Pair == [majorID : Nat, minorID : Nat]
Tag == [majorID : Nat, minorID : Nat, isStanding : BOOLEAN, age : Ages,
        proximity_uuid : Beacons \cup {NoBeacon}, kalman : SUBSET Beacons]

\* Types, with the bounds: lost increments and decrements never take the count out of
\* the array, and neither task reads or writes a slot outside it.
TypeOK ==
  /\ g_tag \in [Slots -> Tag] /\ num_g_tag \in 0 .. MAX_TAGS
  /\ apc \in AddPCs /\ beacon \in Beacons /\ at \in 0 .. MAX_TAGS /\ aload \in Slots
  /\ spc \in SweepPCs /\ i \in 0 .. MAX_TAGS /\ j \in Slots /\ sload \in 0 .. MAX_TAGS
  /\ filled \subseteq Slots /\ known \subseteq Beacons /\ told \subseteq Pair
  /\ silence \in [Beacons -> Ages] /\ resighted \in [Beacons -> BOOLEAN]
  /\ overlap \in BOOLEAN
  /\ apc \in {"majorID", "minorID", "found", "added", "mark", "clock", "stream"} => at \in Slots
  /\ apc \in {"major", "minor", "uuid", "kalman", "systemTime", "isStanding"} => num_g_tag \in Slots
  /\ spc \in {"standing", "send"} => i \in Slots
  /\ spc \in {"majorID", "minorID", "isStanding", "systemTime"} => j + 1 \in Slots

\* Whatever updates of the count are lost, it never covers a slot that no entry was
\* ever written to: the zeroed slots are not swept, searched or published.
InUseIsFilled == Live \subseteq filled

Unique == \A k, l \in Live : Id(g_tag[k]) = Id(g_tag[l]) => k = l

Current ==
  \A k \in Live :
    LET b == Id(g_tag[k]) IN
    b \in Beacons /\ g_tag[k].age = silence[b] /\ g_tag[k].isStanding = resighted[b]

\* A beacon has one entry between removals, until an addTag falls into a removal: the
\* shift may then carry the entry past the search, and a second one is appended.
NoDuplicateTag == Settled /\ ~overlap => Unique

\* The clock and the standing mark of an entry are its own beacon's, until an addTag
\* falls into a removal: the slot it found may then be another beacon's.
EntryIsCurrent == Settled /\ ~overlap => Current

\* A beacon leaves the table only after more than time_limit without a report, and
\* only by a removal, until an addTag falls into one: a beacon reported while the
\* sweep waits in xQueueSend is removed all the same.
RemovedOnlyWhenSilent ==
  [][~overlap' => \A b \in known \ known' : silence[b] > TimeLimit]_vars

\* A removal hands RemoveTagTask the beacon that leaves if it was reported again
\* after it entered, and else nothing, until an addTag falls into a removal.
RemovalAnnounced ==
  [][DecrementStore /\ ~overlap' => told = {b \in known \ known' : resighted[b]}]_vars

\* Every pass of the sweep ends, although the count it runs up to may grow under it.
PassEnds == []<>(spc = "rest")

\* A silent beacon is removed although the loop skips the entry that follows each
\* removal, if from some time on no addTag falls into a removal.
SilentTagLeaves ==
  <>[]Calm =>
    \A b \in Beacons :
      InTable(b) /\ silence[b] > TimeLimit ~> ~InTable(b) \/ silence[b] <= TimeLimit

\* Whatever calls of addTag that fell into removals have left behind (a second entry, a
\* mixed one, a wrong clock or mark, entries lost or counted twice), the table is right
\* again some time after the last of them.
TableRecovers == <>[]Calm => <>[](Settled => Unique /\ Current)

-----------------------------------------------------------------------------
\* What is published for a beacon is its own: the UUID is the one it advertised,
\* or none (README, the iBeacon data format), and the filter its RSSI went through
\* has absorbed that beacon's measurements only (README, "The filter is applied to
\* incoming RSSI values").  The removal loop leaves both fields behind, also when no
\* addTag falls into a removal.
DataIsOwn ==
  Settled /\ ~overlap =>
    \A k \in Live :
      /\ g_tag[k].proximity_uuid \in {Id(g_tag[k]), NoBeacon}
      /\ g_tag[k].kalman \subseteq {Id(g_tag[k])}
=============================================================================
