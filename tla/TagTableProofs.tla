--------------------------- MODULE TagTableProofs ---------------------------
(***************************************************************************)
(* The safety properties of TagTable, for every set of beacons, every      *)
(* number of slots and every time limit.                                   *)
(*                                                                         *)
(* The bounds hold whatever overlaps (SafeInv): from addTag's check to its *)
(* store nothing can raise the count, and whichever count a task has       *)
(* loaded, the slots below it have been filled.  What the entries hold is  *)
(* right until an addTag falls into a removal (TableInv): the slots that   *)
(* hold an entry, in the middle of a shift all but the one being filled,   *)
(* are distinct and current, and those that the removal has not closed     *)
(* over are all but one beacon's, whose silence and announcement are known.*)
(***************************************************************************)
EXTENDS TagTable, TLAPS

USE TagTableAssumption

Removing == {"standing", "send", "shift", "majorID", "minorID", "isStanding",
             "systemTime", "load", "store"}

\* Between its check and its store addTag has room, and after its last write the
\* slot it is about to count has been filled.
AdderHasRoom ==
  /\ apc = "load" => num_g_tag \in filled
  /\ apc = "store" => 0 .. aload \subseteq filled

\* While it removes an entry, the sweep's index is inside the array and the count is
\* not zero.
SweepHasEntry ==
  /\ spc \in Removing => i \in Slots
  /\ spc = "load" => num_g_tag > 0
  /\ spc = "store" => sload > 0 /\ 0 .. sload - 1 \subseteq filled

SafeInv == TypeOK /\ InUseIsFilled /\ AdderHasRoom /\ SweepHasEntry

\* A slot stays an entry whichever field is written.
LEMMA TagTyped ==
  ASSUME NEW t \in Tag
  PROVE  /\ \A n \in Nat : [t EXCEPT !.majorID = n] \in Tag /\ [t EXCEPT !.minorID = n] \in Tag
         /\ \A x \in BOOLEAN : [t EXCEPT !.isStanding = x] \in Tag
         /\ \A n \in Ages : [t EXCEPT !.age = n] \in Tag
         /\ \A b \in Beacons \cup {NoBeacon} : [t EXCEPT !.proximity_uuid = b] \in Tag
         /\ \A K \in SUBSET Beacons : [t EXCEPT !.kalman = K] \in Tag
BY DEF Tag

\* What a field of an entry can be.
LEMMA TagFields ==
  ASSUME NEW t \in Tag
  PROVE  /\ t.majorID \in Nat /\ t.minorID \in Nat /\ t.isStanding \in BOOLEAN
         /\ t.age \in Ages /\ t.proximity_uuid \in Beacons \cup {NoBeacon}
         /\ t.kalman \in SUBSET Beacons /\ Id(t) \in Pair
BY DEF Tag, Id, Pair

LEMMA SlotTyped ==
  ASSUME NEW f \in [Slots -> Tag], NEW k \in Slots, NEW t \in Tag
  PROVE  [f EXCEPT ![k] = t] \in [Slots -> Tag]
OBVIOUS

LEMMA BeaconTyped ==
  ASSUME NEW b \in Beacons
  PROVE  b \in Pair /\ b.majorID \in Nat /\ b.minorID \in Nat /\ b \in Beacons \cup {NoBeacon}
BY DEF Pair

LEMMA AgeTyped == 0 \in Ages /\ Expired \in Ages
BY DEF Ages, Expired

LEMMA SafeInit == Init => SafeInv
<1> SUFFICES ASSUME Init PROVE SafeInv
  OBVIOUS
<1>1. g_tag \in [Slots -> Tag]
  BY AgeTyped DEF Init, ZeroTag, Tag
<1>2. silence \in [Beacons -> Ages]
  BY AgeTyped DEF Init
<1>3. resighted \in [Beacons -> BOOLEAN]
  BY DEF Init
<1>4. /\ apc = "idle" /\ spc = "test" /\ beacon \in Beacons
      /\ num_g_tag = 0 /\ at = 0 /\ aload = 0 /\ i = 0 /\ j = 0 /\ sload = 0
      /\ filled = {} /\ known = {} /\ told = {} /\ overlap \in BOOLEAN
  BY DEF Init
<1>5. apc \in AddPCs /\ spc \in SweepPCs
  BY <1>4 DEF AddPCs, SweepPCs
<1>6. TypeOK
  <2>1. 0 \in Slots
    BY DEF Slots
  <2> QED
    BY <1>1, <1>2, <1>3, <1>4, <1>5, <2>1 DEF TypeOK
<1>7. InUseIsFilled /\ AdderHasRoom /\ SweepHasEntry
  BY DEF Init, InUseIsFilled, AdderHasRoom, SweepHasEntry, Live, Removing
<1> QED
  BY <1>6, <1>7 DEF SafeInv

LEMMA SafeAdd ==
  ASSUME SafeInv, Add \/ \E b \in Beacons : addTag(b), overlap' \in BOOLEAN
  PROVE  SafeInv'
<1> USE DEF SafeInv, TypeOK, InUseIsFilled, AdderHasRoom, SweepHasEntry, Live, AddPCs, SweepPCs,
        sweeper, history, table, Slots
<1>1. ASSUME NEW b \in Beacons, addTag(b) PROVE SafeInv'
  BY <1>1 DEF addTag
<1>2. CASE Search
  BY <1>2 DEF Search
<1>3. CASE CompareMajor
  BY <1>3 DEF CompareMajor, Compare
<1>4. CASE CompareMinor
  BY <1>4 DEF CompareMinor, Compare
<1>5. CASE Filter
  <2>1. g_tag' \in [Slots -> Tag]
    <3> DEFINE K == IF ApplayKalman THEN g_tag[at].kalman \cup {beacon} ELSE g_tag[at].kalman
    <3>1. at \in Slots /\ g_tag[at] \in Tag
      BY <1>5 DEF Filter
    <3>2. K \in SUBSET Beacons
      BY <3>1, TagFields
    <3>3. g_tag' = [g_tag EXCEPT ![at] = [g_tag[at] EXCEPT !.kalman = K]]
      BY <1>5 DEF Filter
    <3> HIDE DEF K
    <3> QED
      BY <3>1, <3>2, <3>3, TagTyped, SlotTyped
  <2> QED
    BY <1>5, <2>1 DEF Filter
<1>6. CASE SendAdded
  BY <1>6 DEF SendAdded
<1>7. CASE Mark
  <2>1. g_tag' \in [Slots -> Tag]
    BY <1>7, TagTyped, TagFields, SlotTyped, BeaconTyped, AgeTyped DEF Mark
  <2> QED
    BY <1>7, <2>1 DEF Mark
<1>8. CASE RestartClock
  <2>1. g_tag' \in [Slots -> Tag]
    BY <1>8, TagTyped, TagFields, SlotTyped, BeaconTyped, AgeTyped DEF RestartClock
  <2>2. silence' \in [Beacons -> Ages]
    BY <1>8 DEF RestartClock, Ages, Expired
  <2>3. /\ apc = "clock" /\ apc' \in {"stream", "idle"} /\ at' \in {0, at}
        /\ at' = at \/ apc' = "idle"
        /\ UNCHANGED <<num_g_tag, beacon, aload, sweeper, filled, resighted, known, told>>
    BY <1>8 DEF RestartClock
  <2> QED
    BY <2>1, <2>2, <2>3
<1>9. CASE SendStream
  BY <1>9 DEF SendStream
<1>10. CASE CheckRoom
  BY <1>10 DEF CheckRoom
<1>11. CASE WriteMajor
  <2>1. g_tag' \in [Slots -> Tag]
    BY <1>11, TagTyped, TagFields, SlotTyped, BeaconTyped, AgeTyped DEF WriteMajor, Fill
  <2> QED
    BY <1>11, <2>1 DEF WriteMajor, Fill
<1>12. CASE WriteMinor
  <2>1. g_tag' \in [Slots -> Tag]
    BY <1>12, TagTyped, TagFields, SlotTyped, BeaconTyped, AgeTyped DEF WriteMinor, Fill
  <2> QED
    BY <1>12, <2>1 DEF WriteMinor, Fill
<1>13. CASE WriteUuid
  <2>1. g_tag' \in [Slots -> Tag]
    BY <1>13, TagTyped, TagFields, SlotTyped, BeaconTyped, AgeTyped DEF WriteUuid, Fill
  <2> QED
    BY <1>13, <2>1 DEF WriteUuid, Fill
<1>14. CASE InitKalman
  <2>1. g_tag' \in [Slots -> Tag]
    BY <1>14, TagTyped, TagFields, SlotTyped, BeaconTyped, AgeTyped DEF InitKalman, Fill
  <2> QED
    BY <1>14, <2>1 DEF InitKalman, Fill
<1>15. CASE StartClock
  <2>1. g_tag' \in [Slots -> Tag]
    BY <1>15, TagTyped, TagFields, SlotTyped, BeaconTyped, AgeTyped DEF StartClock, Fill
  <2>2. silence' \in [Beacons -> Ages]
    BY <1>15 DEF StartClock, Ages, Expired
  <2> QED
    BY <1>15, <2>1, <2>2 DEF StartClock, Fill
<1>16. CASE ClearMark
  <2>1. g_tag' \in [Slots -> Tag]
    BY <1>16, TagTyped, TagFields, SlotTyped, BeaconTyped, AgeTyped DEF ClearMark, Fill
  <2> QED
    BY <1>16, <2>1 DEF ClearMark, Fill
<1>17. CASE IncrementLoad
  BY <1>17 DEF IncrementLoad
<1>18. CASE IncrementStore
  <2>1. known' \subseteq Beacons
    BY <1>18 DEF IncrementStore, Reported
  <2> QED
    BY <1>18, <2>1 DEF IncrementStore
<1> QED
  BY <1>1, <1>2, <1>3, <1>4, <1>5, <1>6, <1>7, <1>8, <1>9, <1>10, <1>11, <1>12, <1>13, <1>14,
     <1>15, <1>16, <1>17, <1>18 DEF Add

LEMMA SafeSweep ==
  ASSUME SafeInv, Sweep, overlap' \in BOOLEAN
  PROVE  SafeInv'
<1> USE DEF SafeInv, TypeOK, InUseIsFilled, AdderHasRoom, SweepHasEntry, Live, AddPCs, SweepPCs,
        adder, history, table, Slots, Removing
<1>1. CASE TestEntry
  BY <1>1 DEF TestEntry
<1>2. CASE TestStanding
  BY <1>2 DEF TestStanding
<1>3. CASE SendRemoved
  <2>1. told' \subseteq Pair
    BY <1>3 DEF SendRemoved, Id, Pair, Tag
  <2> QED
    BY <1>3, <2>1 DEF SendRemoved
<1>4. CASE Shift
  BY <1>4 DEF Shift
<1>5. CASE ShiftMajor
  <2>1. g_tag' \in [Slots -> Tag]
    BY <1>5, TagTyped, TagFields, SlotTyped, BeaconTyped, AgeTyped DEF ShiftMajor, Move
  <2> QED
    BY <1>5, <2>1 DEF ShiftMajor, Move
<1>6. CASE ShiftMinor
  <2>1. g_tag' \in [Slots -> Tag]
    BY <1>6, TagTyped, TagFields, SlotTyped, BeaconTyped, AgeTyped DEF ShiftMinor, Move
  <2> QED
    BY <1>6, <2>1 DEF ShiftMinor, Move
<1>7. CASE ShiftMark
  <2>1. g_tag' \in [Slots -> Tag]
    BY <1>7, TagTyped, TagFields, SlotTyped, BeaconTyped, AgeTyped DEF ShiftMark, Move
  <2> QED
    BY <1>7, <2>1 DEF ShiftMark, Move
<1>8. CASE ShiftClock
  <2>1. g_tag' \in [Slots -> Tag]
    BY <1>8, TagTyped, TagFields, SlotTyped, BeaconTyped, AgeTyped DEF ShiftClock, Move
  <2> QED
    BY <1>8, <2>1 DEF ShiftClock, Move
<1>9. CASE DecrementLoad
  BY <1>9 DEF DecrementLoad
<1>10. CASE DecrementStore
  <2>1. known' \subseteq Beacons
    BY <1>10 DEF DecrementStore, Reported
  <2> QED
    BY <1>10, <2>1 DEF DecrementStore
<1>11. CASE Rest
  BY <1>11 DEF Rest
<1>12. CASE Restart
  BY <1>12 DEF Restart
<1> QED
  BY <1>1, <1>2, <1>3, <1>4, <1>5, <1>6, <1>7, <1>8, <1>9, <1>10, <1>11, <1>12 DEF Sweep

LEMMA OlderAge == \A n \in Ages : Older(n) \in Ages /\ (n > TimeLimit => Older(n) > TimeLimit)
BY DEF Ages, Older, Expired

LEMMA SafeTick ==
  ASSUME SafeInv, ClockTick, overlap' \in BOOLEAN
  PROVE  SafeInv'
<1>1. g_tag' \in [Slots -> Tag]
  <2>1. ASSUME NEW k \in Slots PROVE [g_tag[k] EXCEPT !.age = Older(@)] \in Tag
    BY OlderAge, TagTyped, TagFields DEF SafeInv, TypeOK
  <2> QED
    BY <2>1 DEF ClockTick
<1>2. silence' \in [Beacons -> Ages]
  BY OlderAge DEF SafeInv, TypeOK, ClockTick
<1> QED
  BY <1>1, <1>2 DEF SafeInv, TypeOK, InUseIsFilled, AdderHasRoom, SweepHasEntry, Live, ClockTick,
     adder, sweeper

LEMMA SafeStep == SafeInv /\ [Next]_vars => SafeInv'
<1> SUFFICES ASSUME SafeInv, [Next]_vars PROVE SafeInv'
  OBVIOUS
<1>1. CASE Next
  <2>1. overlap' \in BOOLEAN
    BY <1>1 DEF Next, Noting, Calm, SafeInv, TypeOK
  <2> QED
    BY <1>1, <2>1, SafeAdd, SafeSweep, SafeTick DEF Next, Noting
<1>2. CASE UNCHANGED vars
  BY <1>2 DEF vars, adder, sweeper, history, table, SafeInv, TypeOK, InUseIsFilled, AdderHasRoom,
     SweepHasEntry, Live
<1> QED
  BY <1>1, <1>2
-----------------------------------------------------------------------------
(* What the entries hold, until an addTag falls into a removal. *)

Shifting == Removing \ {"standing", "send"}

\* The slots that hold an entry: in the middle of a shift, all but the one being filled.
Entries == IF spc \in Shifting THEN Live \ {j} ELSE Live

EntriesUnique == \A k, l \in Entries : Id(g_tag[k]) = Id(g_tag[l]) => k = l

CurrentAt(k) ==
  LET b == Id(g_tag[k]) IN
  b \in Beacons /\ g_tag[k].age = silence[b] /\ g_tag[k].isStanding = resighted[b]

EntriesCurrent == \A k \in Entries : CurrentAt(k)

\* The search has passed other beacons' entries only, and found its own.
SearchInv ==
  /\ apc = "search" => at <= num_g_tag
  /\ apc \in {"majorID", "minorID", "found", "added", "mark", "clock"} => at < num_g_tag
  /\ apc \in {"search", "majorID", "minorID"} => \A k \in 0 .. at - 1 : Id(g_tag[k]) # beacon
  /\ apc = "minorID" => g_tag[at].majorID = beacon.majorID
  /\ apc \in {"found", "added", "mark", "clock"} => Id(g_tag[at]) = beacon

Appending == {"room", "major", "minor", "uuid", "kalman", "systemTime", "isStanding",
              "load", "store"}

\* None is the beacon's, and the slot behind them becomes its entry field by field.
AppendInv ==
  /\ apc \in Appending => \A k \in Live : Id(g_tag[k]) # beacon
  /\ apc = "minor" => g_tag[num_g_tag].majorID = beacon.majorID
  /\ apc \in {"uuid", "kalman", "systemTime", "isStanding", "load", "store"} =>
       Id(g_tag[num_g_tag]) = beacon
  /\ apc \in {"isStanding", "load", "store"} => g_tag[num_g_tag].age = silence[beacon]
  /\ apc \in {"load", "store"} => g_tag[num_g_tag].isStanding = resighted[beacon]
  /\ apc = "store" => aload = num_g_tag

\* The beacons that the removal takes out of the table.
Gone == {b \in known : \A k \in Entries : Id(g_tag[k]) # b}

\* The removal is of a silent beacon's entry, announced if it is standing, and slot j
\* becomes a copy of the next one field by field.
RemoveInv ==
  /\ spc \notin Shifting => known = Reported(g_tag, num_g_tag) /\ told = {}
  /\ spc \in {"standing", "send"} => i < num_g_tag /\ g_tag[i].age > TimeLimit
  /\ spc = "send" => g_tag[i].isStanding /\ j = i
  /\ spc \in Shifting =>
       /\ j < num_g_tag
       /\ \A b \in Gone : silence[b] > TimeLimit
       /\ told = {b \in Gone : resighted[b]}
  /\ spc \in {"majorID", "minorID", "isStanding", "systemTime"} => j + 1 < num_g_tag
  /\ spc \in {"minorID", "isStanding", "systemTime"} => g_tag[j].majorID = g_tag[j + 1].majorID
  /\ spc \in {"isStanding", "systemTime"} => g_tag[j].minorID = g_tag[j + 1].minorID
  /\ spc = "systemTime" => g_tag[j].isStanding = g_tag[j + 1].isStanding
  /\ spc \in {"load", "store"} => j = num_g_tag - 1
  /\ spc = "store" => sload = num_g_tag

TableInv == Calm /\ EntriesUnique /\ EntriesCurrent /\ SearchInv /\ AppendInv /\ RemoveInv

IInv == SafeInv /\ (~overlap => TableInv)

\* An entry is a beacon's when both numbers are.
LEMMA IdParts ==
  ASSUME NEW t, NEW b \in Pair
  PROVE  Id(t) = b <=> t.majorID = b.majorID /\ t.minorID = b.minorID
BY DEF Id, Pair

\* While addTag is at work, no removal is.
LEMMA AddIsCalm ==
  ASSUME SafeInv, TableInv, apc # "idle"
  PROVE  /\ spc \in {"test", "rest"} /\ spc \notin Shifting
         /\ Entries = Live /\ known = Reported(g_tag, num_g_tag) /\ told = {}
         /\ \A k \in Live : k \in Slots /\ g_tag[k] \in Tag
BY DEF TableInv, Calm, Settled, Entries, Shifting, Removing, RemoveInv, SafeInv, TypeOK, Live, Slots

\* Steps of addTag that write nothing to the table.
LEMMA TableRead ==
  ASSUME SafeInv, TableInv, Calm',
         \/ \E b \in Beacons : addTag(b)
         \/ Search \/ CompareMajor \/ CompareMinor \/ SendAdded \/ SendStream \/ CheckRoom
         \/ IncrementLoad
  PROVE  TableInv'
<1>1. /\ UNCHANGED <<table, sweeper, history>>
      /\ EntriesUnique' /\ EntriesCurrent' /\ RemoveInv'
  BY DEF TableInv, EntriesUnique, EntriesCurrent, CurrentAt, RemoveInv, Gone, Entries, Live,
     Reported, Id, addTag, Search, CompareMajor, CompareMinor, Compare, SendAdded, SendStream,
     CheckRoom, IncrementLoad, table, sweeper, history
<1>2. SearchInv' /\ AppendInv'
  <2> USE DEF TableInv, SearchInv, AppendInv, Appending, table, sweeper, history
  <2>1. ASSUME NEW b \in Beacons, addTag(b) PROVE SearchInv' /\ AppendInv'
    BY <2>1 DEF addTag, SafeInv, TypeOK
  <2>2. CASE Search
    <3>1. at >= num_g_tag => \A k \in Live : Id(g_tag[k]) # beacon
      BY <2>2 DEF Search, SafeInv, TypeOK, Live
    <3>2. Live' = Live /\ apc' \in {"majorID", "idle", "room"} /\ apc = "search"
      BY <2>2 DEF Search, Live
    <3>3. SearchInv'
      BY <2>2 DEF Search
    <3>4. AppendInv'
      BY <2>2, <3>1, <3>2 DEF Search
    <3> QED
      BY <3>3, <3>4
  <2>3. CASE CompareMajor
    BY <2>3, IdParts, BeaconTyped DEF CompareMajor, Compare, SafeInv, TypeOK
  <2>4. CASE CompareMinor
    BY <2>4, IdParts, BeaconTyped DEF CompareMinor, Compare, SafeInv, TypeOK
  <2>5. CASE SendAdded
    BY <2>5 DEF SendAdded
  <2>6. CASE SendStream
    BY <2>6 DEF SendStream
  <2>7. CASE CheckRoom
    BY <2>7 DEF CheckRoom, Live
  <2>8. CASE IncrementLoad
    BY <2>8 DEF IncrementLoad, Live
  <2> QED
    BY <2>1, <2>2, <2>3, <2>4, <2>5, <2>6, <2>7, <2>8
<1> QED
  BY <1>1, <1>2 DEF TableInv

\* The steps that refresh an entry.
LEMMA TableRefresh ==
  ASSUME SafeInv, TableInv, Calm', Filter \/ Mark \/ RestartClock
  PROVE  TableInv'
<1>1. /\ apc \in {"found", "mark", "clock"} /\ apc' \in {"added", "mark", "clock", "stream", "idle"}
      /\ UNCHANGED <<num_g_tag, sweeper, beacon, known, told>>
      /\ apc' \in {"added", "mark", "clock"} => at' = at
  BY DEF Filter, Mark, RestartClock, sweeper, history
<1>2. /\ at \in Live /\ Id(g_tag[at]) = beacon /\ beacon \in Beacons
      /\ \A k \in Live : Id(g_tag[k]) = beacon => k = at
      /\ g_tag \in [Slots -> Tag] /\ Live \subseteq Slots /\ at < num_g_tag
      /\ silence \in [Beacons -> Ages] /\ resighted \in [Beacons -> BOOLEAN]
  <2>1. at < num_g_tag /\ Id(g_tag[at]) = beacon /\ apc # "idle"
    BY <1>1 DEF TableInv, SearchInv
  <2>2. at \in Live /\ Live \subseteq Slots
    BY <2>1 DEF SafeInv, TypeOK, Live, Slots
  <2>3. \A k \in Live : Id(g_tag[k]) = beacon => k = at
    BY <2>1, <2>2, AddIsCalm DEF TableInv, EntriesUnique
  <2> QED
    BY <2>1, <2>2, <2>3 DEF SafeInv, TypeOK
<1>3. /\ \A k \in Slots : Id(g_tag'[k]) = Id(g_tag[k])
      /\ \A k \in Live : CurrentAt(k)'
      /\ \A b \in Beacons : b # beacon => silence'[b] = silence[b] /\ resighted'[b] = resighted[b]
  <2>1. /\ \A k \in Slots \ {at} : g_tag'[k] = g_tag[k]
        /\ \A b \in Beacons \ {beacon} : silence'[b] = silence[b] /\ resighted'[b] = resighted[b]
    BY <1>2 DEF Filter, Mark, RestartClock, history
  <2>2. /\ Id(g_tag'[at]) = Id(g_tag[at])
        /\ g_tag'[at].age = silence'[beacon] /\ g_tag'[at].isStanding = resighted'[beacon]
    <3>1. at \in Slots /\ g_tag[at] \in Tag /\ g_tag[at].age = silence[beacon]
          /\ g_tag[at].isStanding = resighted[beacon]
      BY <1>1, <1>2, AddIsCalm DEF TableInv, EntriesCurrent, CurrentAt
    <3>2. CASE Filter
      <4>1. PICK K : g_tag' = [g_tag EXCEPT ![at] = [g_tag[at] EXCEPT !.kalman = K]]
        BY <3>2 DEF Filter
      <4>2. UNCHANGED <<silence, resighted>>
        BY <3>2 DEF Filter, history
      <4>3. g_tag'[at] = [g_tag[at] EXCEPT !.kalman = K]
        BY <1>2, <3>1, <4>1
      <4> QED
        BY <3>1, <4>2, <4>3 DEF Id, Tag
    <3>3. CASE Mark
      <4>1. PICK x : g_tag' = [g_tag EXCEPT ![at] = [g_tag[at] EXCEPT !.isStanding = x]] /\ x = TRUE
        BY <3>3 DEF Mark
      <4>2. silence' = silence /\ resighted'[beacon] = TRUE
        BY <1>2, <3>3 DEF Mark
      <4>3. g_tag'[at] = [g_tag[at] EXCEPT !.isStanding = x]
        BY <1>2, <3>1, <4>1
      <4>4. /\ Id(g_tag'[at]) = Id(g_tag[at]) /\ g_tag'[at].age = g_tag[at].age
            /\ g_tag'[at].isStanding = x
        BY <3>1, <4>3 DEF Id, Tag
      <4> QED
        BY <3>1, <4>1, <4>2, <4>4
    <3>4. CASE RestartClock
      <4>1. PICK x : g_tag' = [g_tag EXCEPT ![at] = [g_tag[at] EXCEPT !.age = x]] /\ x = 0
        BY <3>4 DEF RestartClock
      <4>2. resighted' = resighted /\ silence'[beacon] = 0
        BY <1>2, <3>4 DEF RestartClock
      <4>3. g_tag'[at] = [g_tag[at] EXCEPT !.age = x]
        BY <1>2, <3>1, <4>1
      <4> QED
        BY <3>1, <4>1, <4>2, <4>3 DEF Id, Tag
    <3> QED
      BY <3>2, <3>3, <3>4
  <2>3. ASSUME NEW k \in Live, k # at PROVE CurrentAt(k)'
    <3>1. k \in Slots /\ CurrentAt(k) /\ Id(g_tag[k]) # beacon
      BY <1>1, <1>2, <2>3, AddIsCalm DEF TableInv, EntriesCurrent
    <3> QED
      BY <2>1, <2>3, <3>1 DEF CurrentAt
  <2> QED
    BY <1>2, <2>1, <2>2, <2>3 DEF CurrentAt
<1>4. Entries' = Live /\ Live' = Live
  BY <1>1, AddIsCalm DEF Entries, Live, sweeper
<1>5. EntriesUnique' /\ EntriesCurrent'
  BY <1>1, <1>2, <1>3, <1>4, AddIsCalm DEF TableInv, EntriesUnique, EntriesCurrent
<1>6. SearchInv' /\ AppendInv'
  BY <1>1, <1>2, <1>3 DEF SearchInv, AppendInv, Appending
<1>7. RemoveInv'
  <2>1. Reported(g_tag', num_g_tag) = Reported(g_tag, num_g_tag)
    BY <1>2, <1>3 DEF Reported, Live
  <2> QED
    BY <1>1, <2>1, AddIsCalm DEF RemoveInv, Removing, Shifting, sweeper
<1> QED
  BY <1>5, <1>6, <1>7 DEF TableInv

\* The steps that fill the slot behind the entries.
LEMMA TableFill ==
  ASSUME SafeInv, TableInv, Calm',
         WriteMajor \/ WriteMinor \/ WriteUuid \/ InitKalman \/ StartClock \/ ClearMark
  PROVE  TableInv'
<1>1. /\ apc \in {"major", "minor", "uuid", "kalman", "systemTime", "isStanding"}
      /\ apc' \in {"minor", "uuid", "kalman", "systemTime", "isStanding", "load"}
      /\ UNCHANGED <<num_g_tag, sweeper, beacon, known, told>>
  BY DEF WriteMajor, WriteMinor, WriteUuid, InitKalman, StartClock, ClearMark, Fill, sweeper
<1>2. /\ num_g_tag \in Slots /\ beacon \in Beacons /\ g_tag \in [Slots -> Tag]
      /\ g_tag[num_g_tag] \in Tag /\ Live \subseteq Slots /\ num_g_tag \notin Live
      /\ silence \in [Beacons -> Ages] /\ resighted \in [Beacons -> BOOLEAN]
      /\ \A k \in Live : Id(g_tag[k]) # beacon
  BY <1>1 DEF SafeInv, TypeOK, Live, Slots, TableInv, AppendInv, Appending
<1>3. /\ \A k \in Live : g_tag'[k] = g_tag[k]
      /\ \A b \in Beacons \ {beacon} : silence'[b] = silence[b] /\ resighted'[b] = resighted[b]
  BY <1>2 DEF WriteMajor, WriteMinor, WriteUuid, InitKalman, StartClock, ClearMark, Fill
<1>4. Entries' = Live /\ Live' = Live
  BY <1>1, AddIsCalm DEF Entries, Live, sweeper
<1>5. EntriesUnique'
  BY <1>1, <1>3, <1>4, AddIsCalm DEF TableInv, EntriesUnique
<1>6. EntriesCurrent'
  <2>1. ASSUME NEW k \in Live PROVE CurrentAt(k)'
    <3>1. CurrentAt(k) /\ Id(g_tag[k]) # beacon /\ g_tag'[k] = g_tag[k]
      BY <1>1, <1>2, <1>3, AddIsCalm DEF TableInv, EntriesCurrent
    <3> QED
      BY <1>3, <3>1 DEF CurrentAt
  <2> QED
    BY <1>4, <2>1 DEF EntriesCurrent
<1>7. SearchInv'
  BY <1>1 DEF SearchInv
<1>8. AppendInv'
  <2>1. \A k \in Live' : Id(g_tag'[k]) # beacon'
    BY <1>1, <1>2, <1>3, <1>4
  <2> USE DEF TableInv, AppendInv, Fill
  <2>2. CASE WriteMajor
    BY <1>2, <2>1, <2>2 DEF WriteMajor, Tag
  <2>3. CASE WriteMinor
    <3>1. g_tag'[num_g_tag].majorID = beacon.majorID /\ g_tag'[num_g_tag].minorID = beacon.minorID
      BY <1>2, <2>3 DEF WriteMinor, Tag
    <3> QED
      BY <1>1, <1>2, <2>1, <2>3, <3>1, IdParts, BeaconTyped DEF WriteMinor
  <2>4. CASE WriteUuid
    <3>1. PICK u : g_tag' = [g_tag EXCEPT ![num_g_tag] = [g_tag[num_g_tag] EXCEPT !.proximity_uuid = u]]
      BY <2>4 DEF WriteUuid
    <3>2. Id(g_tag'[num_g_tag]) = Id(g_tag[num_g_tag])
      BY <1>2, <3>1 DEF Id, Tag
    <3> QED
      BY <1>1, <2>1, <2>4, <3>2 DEF WriteUuid
  <2>5. CASE InitKalman
    <3>1. Id(g_tag'[num_g_tag]) = Id(g_tag[num_g_tag])
      <4>1. PICK K : g_tag' = [g_tag EXCEPT ![num_g_tag] = [g_tag[num_g_tag] EXCEPT !.kalman = K]]
        BY <2>5 DEF InitKalman
      <4>2. g_tag'[num_g_tag] = [g_tag[num_g_tag] EXCEPT !.kalman = K]
        BY <1>2, <4>1
      <4> QED
        BY <1>2, <4>2 DEF Id, Tag
    <3> QED
      BY <1>1, <2>1, <2>5, <3>1 DEF InitKalman
  <2>6. CASE StartClock
    <3>1. Id(g_tag'[num_g_tag]) = Id(g_tag[num_g_tag]) /\ g_tag'[num_g_tag].age = 0
      <4>1. PICK x : /\ x = 0
                     /\ g_tag' = [g_tag EXCEPT ![num_g_tag] = [g_tag[num_g_tag] EXCEPT !.age = x]]
        BY <2>6 DEF StartClock
      <4>2. g_tag'[num_g_tag] = [g_tag[num_g_tag] EXCEPT !.age = x]
        BY <1>2, <4>1
      <4> QED
        BY <1>2, <4>1, <4>2 DEF Id, Tag
    <3> QED
      BY <1>1, <1>2, <2>1, <2>6, <3>1 DEF StartClock
  <2>7. CASE ClearMark
    <3>1. /\ Id(g_tag'[num_g_tag]) = Id(g_tag[num_g_tag])
          /\ g_tag'[num_g_tag].age = g_tag[num_g_tag].age /\ g_tag'[num_g_tag].isStanding = FALSE
      <4>1. PICK x :
              /\ x = FALSE
              /\ g_tag' = [g_tag EXCEPT ![num_g_tag] = [g_tag[num_g_tag] EXCEPT !.isStanding = x]]
        BY <2>7 DEF ClearMark
      <4>2. g_tag'[num_g_tag] = [g_tag[num_g_tag] EXCEPT !.isStanding = x]
        BY <1>2, <4>1
      <4> QED
        BY <1>2, <4>1, <4>2 DEF Id, Tag
    <3>2. /\ apc = "isStanding" /\ apc' = "load" /\ resighted'[beacon] = FALSE
          /\ silence' = silence
      BY <1>2, <2>7 DEF ClearMark
    <3> QED
      BY <1>1, <2>1, <3>1, <3>2
  <2> QED
    BY <2>2, <2>3, <2>4, <2>5, <2>6, <2>7
<1>9. RemoveInv'
  <2>1. Reported(g_tag', num_g_tag) = Reported(g_tag, num_g_tag)
    BY <1>3 DEF Reported, Live
  <2> QED
    BY <1>1, <2>1, AddIsCalm DEF RemoveInv, Removing, Shifting, sweeper
<1> QED
  BY <1>5, <1>6, <1>7, <1>8, <1>9 DEF TableInv

\* The new entry is counted in.
LEMMA TableCount ==
  ASSUME SafeInv, TableInv, Calm', IncrementStore
  PROVE  TableInv'
<1>1. /\ apc = "store" /\ apc' = "idle" /\ num_g_tag' = num_g_tag + 1 /\ num_g_tag \in Nat
      /\ known' = Reported(g_tag, num_g_tag') /\ beacon \in Beacons
      /\ UNCHANGED <<g_tag, silence, resighted, sweeper, told>>
      /\ \A k \in Live : Id(g_tag[k]) # beacon
      /\ Id(g_tag[num_g_tag]) = beacon /\ g_tag[num_g_tag].age = silence[beacon]
      /\ g_tag[num_g_tag].isStanding = resighted[beacon]
  BY DEF IncrementStore, SafeInv, TypeOK, TableInv, AppendInv, Appending
<1>2. Entries = Live /\ Entries' = Live' /\ Live' = Live \cup {num_g_tag} /\ spc \notin Shifting
      /\ spc \in {"test", "rest"} /\ told = {}
  BY <1>1, AddIsCalm DEF Entries, Live, sweeper
<1>3. EntriesUnique' /\ EntriesCurrent'
  BY <1>1, <1>2 DEF TableInv, EntriesUnique, EntriesCurrent, CurrentAt
<1>4. SearchInv' /\ AppendInv'
  BY <1>1 DEF SearchInv, AppendInv, Appending
<1>5. RemoveInv'
  BY <1>1, <1>2 DEF RemoveInv, Removing, Shifting, sweeper
<1> QED
  BY <1>3, <1>4, <1>5 DEF TableInv

LEMMA TableAdd ==
  ASSUME SafeInv, TableInv, Calm', Add \/ \E b \in Beacons : addTag(b)
  PROVE  TableInv'
BY TableRead, TableRefresh, TableFill, TableCount DEF Add

-----------------------------------------------------------------------------
(* The sweep. *)

\* While the sweep removes an entry, no addTag is at work.
LEMMA RemovalIsCalm ==
  ASSUME TableInv, spc \in Removing
  PROVE  apc = "idle"
BY DEF TableInv, Calm, Settled, Removing

\* The sweep's steps that write nothing to the table.
LEMMA TableSweepRead ==
  ASSUME SafeInv, TableInv, Calm', TestEntry \/ Rest \/ Restart \/ Shift \/ DecrementLoad
  PROVE  TableInv'
<1>1. UNCHANGED <<g_tag, num_g_tag, j, adder, history>>
  BY DEF TestEntry, Rest, Restart, Shift, DecrementLoad, table
<1>2. Entries' = Entries
  <2>1. spc' \in Shifting <=> spc \in Shifting
    BY DEF Shifting, Removing, TestEntry, Rest, Restart, Shift, DecrementLoad, TableInv, RemoveInv,
           SafeInv, TypeOK, Slots
  <2> QED
    BY <1>1, <2>1 DEF Entries, Live
<1>3. EntriesUnique' /\ EntriesCurrent'
  BY <1>1, <1>2 DEF TableInv, EntriesUnique, EntriesCurrent, CurrentAt, history
<1>4. SearchInv' /\ AppendInv'
  BY <1>1 DEF TableInv, SearchInv, AppendInv, Live, adder, history
<1>5. RemoveInv'
  <2>1. Gone' = Gone
    BY <1>1, <1>2 DEF Gone, history
  <2> USE DEF TableInv, RemoveInv, Shifting, Removing, history
  <2>2. CASE TestEntry
    BY <1>1, <2>1, <2>2 DEF TestEntry
  <2>3. CASE Rest
    BY <1>1, <2>1, <2>3 DEF Rest
  <2>4. CASE Restart
    BY <1>1, <2>1, <2>4 DEF Restart
  <2>5. CASE Shift
    BY <1>1, <2>1, <2>5 DEF Shift, SafeInv, TypeOK, Slots
  <2>6. CASE DecrementLoad
    BY <1>1, <2>1, <2>6 DEF DecrementLoad
  <2> QED
    BY <2>2, <2>3, <2>4, <2>5, <2>6
<1> QED
  BY <1>3, <1>4, <1>5 DEF TableInv

\* The shift begins: the entry at i is the one that goes, silent, and announced if it
\* was reported again.
LEMMA TableShiftBegins ==
  ASSUME SafeInv, TableInv, Calm', TestStanding \/ SendRemoved
  PROVE  TableInv'
<1>1. /\ spc \in {"standing", "send"} /\ UNCHANGED <<g_tag, num_g_tag, i, known, silence, resighted>>
      /\ UNCHANGED adder /\ i < num_g_tag /\ i \in Live /\ Live \subseteq Slots
      /\ g_tag[i].age > TimeLimit /\ Entries = Live /\ known = Reported(g_tag, num_g_tag)
      /\ told = {} /\ apc = "idle" /\ CurrentAt(i) /\ spc' \in {"send", "shift"}
      /\ spc = "send" => g_tag[i].isStanding
  <2>1. /\ spc \in {"standing", "send"} /\ spc' \in {"send", "shift"}
        /\ UNCHANGED <<g_tag, num_g_tag, i, known, silence, resighted, adder>>
    BY DEF TestStanding, SendRemoved, table, history
  <2>2. /\ i < num_g_tag /\ i \in Live /\ Live \subseteq Slots /\ g_tag[i].age > TimeLimit
        /\ Entries = Live /\ known = Reported(g_tag, num_g_tag) /\ told = {}
        /\ spc = "send" => g_tag[i].isStanding
    BY <2>1 DEF SafeInv, TypeOK, SweepHasEntry, TableInv, RemoveInv, Entries, Shifting, Removing, Live, Slots
  <2> QED
    BY <2>1, <2>2, RemovalIsCalm DEF Removing, TableInv, EntriesCurrent
<1>2. SearchInv' /\ AppendInv'
  BY <1>1 DEF SearchInv, AppendInv, Appending, adder
<1>3. CASE spc' = "send"
  <2>1. TestStanding /\ g_tag[i].isStanding /\ UNCHANGED history
    BY <1>1, <1>3 DEF TestStanding, SendRemoved
  <2>2. Entries' = Live
    BY <1>1, <1>3 DEF Entries, Live, Shifting, Removing
  <2>3. EntriesUnique' /\ EntriesCurrent'
    BY <1>1, <2>2 DEF TableInv, EntriesUnique, EntriesCurrent, CurrentAt
  <2>4. RemoveInv'
    <3>1. j' = i /\ UNCHANGED <<known, told>>
      BY <2>1 DEF TestStanding, history
    <3> QED
      BY <1>1, <1>3, <2>1, <3>1 DEF RemoveInv, Shifting, Removing
  <2> QED
    BY <1>2, <2>3, <2>4 DEF TableInv
<1>4. CASE spc' = "shift"
  <2>1. j' = i
    BY <1>1, <1>4 DEF TestStanding, SendRemoved, TableInv, RemoveInv
  <2>2. Entries' = Live \ {i}
    BY <1>1, <1>4, <2>1 DEF Entries, Live, Shifting, Removing
  <2>3. EntriesUnique' /\ EntriesCurrent'
    BY <1>1, <2>2 DEF TableInv, EntriesUnique, EntriesCurrent, CurrentAt
  <2>4. Gone' = {Id(g_tag[i])}
    <3>1. \A b \in Beacons : (b \in known) <=> (\E k \in Live : Id(g_tag[k]) = b)
      BY <1>1 DEF Reported, Live
    <3>2. \A k \in Live \ {i} : Id(g_tag[k]) # Id(g_tag[i])
      BY <1>1 DEF TableInv, EntriesUnique
    <3>3. Id(g_tag[i]) \in Beacons /\ known \subseteq Beacons
      BY <1>1 DEF CurrentAt, SafeInv, TypeOK
    <3> QED
      BY <1>1, <2>2, <3>1, <3>2, <3>3 DEF Gone
  <2>5. told' = {b \in Gone' : resighted[b]}
    <3>1. CASE SendRemoved
      BY <1>1, <2>4, <3>1 DEF SendRemoved, CurrentAt
    <3>2. CASE TestStanding
      BY <1>1, <1>4, <2>4, <3>2 DEF TestStanding, CurrentAt, history
    <3> QED
      BY <3>1, <3>2
  <2>6. RemoveInv'
    BY <1>1, <1>4, <2>1, <2>4, <2>5 DEF RemoveInv, Shifting, Removing, CurrentAt
  <2> QED
    BY <1>2, <2>3, <2>6 DEF TableInv
<1> QED
  BY <1>1, <1>3, <1>4

\* A field is moved down to slot j, which holds no entry.
LEMMA TableShiftField ==
  ASSUME SafeInv, TableInv, Calm', ShiftMajor \/ ShiftMinor \/ ShiftMark
  PROVE  TableInv'
<1>1. /\ spc \in {"majorID", "minorID", "isStanding"}
      /\ spc' \in {"minorID", "isStanding", "systemTime"}
      /\ UNCHANGED <<num_g_tag, j, adder, history>>
      /\ \E tag : g_tag' = [g_tag EXCEPT ![j] = tag]
  BY DEF ShiftMajor, ShiftMinor, ShiftMark, Move
<1>2. /\ j \in Slots /\ j + 1 \in Slots /\ j + 1 # j /\ g_tag \in [Slots -> Tag]
      /\ g_tag[j] \in Tag /\ g_tag[j + 1] \in Tag /\ Live \subseteq Slots
      /\ apc = "idle" /\ Entries = Live \ {j} /\ j + 1 < num_g_tag /\ j < num_g_tag
  <2>1. j + 1 < num_g_tag /\ j < num_g_tag
    BY <1>1 DEF TableInv, RemoveInv, Shifting, Removing
  <2>2. spc \in Shifting /\ spc \in Removing
    BY <1>1 DEF Shifting, Removing
  <2>3. /\ j \in Nat /\ num_g_tag \in 0 .. MAX_TAGS /\ MAX_TAGS \in Nat
        /\ g_tag \in [Slots -> Tag]
    BY TagTableAssumption DEF SafeInv, TypeOK, Slots
  <2>4. /\ j \in Slots /\ j + 1 \in Slots /\ j + 1 # j /\ Live \subseteq Slots
        /\ j \in Live /\ j + 1 \in Live
    BY <2>1, <2>3 DEF Slots, Live
  <2>5. apc = "idle"
    BY <2>2, RemovalIsCalm
  <2>6. Entries = Live \ {j}
    BY <2>2 DEF Entries
  <2> QED
    BY <2>1, <2>3, <2>4, <2>5, <2>6
<1>3. Entries' = Entries /\ Live' = Live
  BY <1>1, <1>2 DEF Entries, Live, Shifting, Removing
<1>4. \A k \in Slots \ {j} : g_tag'[k] = g_tag[k]
  BY <1>1, <1>2
<1>5. EntriesUnique' /\ EntriesCurrent'
  BY <1>1, <1>2, <1>3, <1>4 DEF TableInv, EntriesUnique, EntriesCurrent, CurrentAt, history
<1>6. Gone' = Gone
  BY <1>1, <1>2, <1>3, <1>4 DEF Gone, history
<1>7. SearchInv' /\ AppendInv'
  BY <1>1, <1>2 DEF SearchInv, AppendInv, Appending, adder
<1>8. RemoveInv'
  <2>1. /\ \A b \in Gone' : silence'[b] > TimeLimit
        /\ told' = {b \in Gone' : resighted'[b]}
        /\ j' + 1 < num_g_tag' /\ j' < num_g_tag'
    BY <1>1, <1>2, <1>6 DEF TableInv, RemoveInv, Shifting, Removing, history
  <2>2. CASE ShiftMajor
    <3>1. g_tag'[j].majorID = g_tag'[j + 1].majorID
      BY <1>2, <2>2 DEF ShiftMajor, Move, Tag
    <3>2. spc' = "minorID" /\ j' = j
      BY <1>1, <2>2 DEF ShiftMajor, Move
    <3> QED
      BY <2>1, <3>1, <3>2 DEF RemoveInv, Shifting, Removing
  <2>3. CASE ShiftMinor
    <3>1. g_tag[j].majorID = g_tag[j + 1].majorID
      BY <2>3 DEF TableInv, RemoveInv, ShiftMinor, Move
    <3>2. /\ g_tag'[j].majorID = g_tag'[j + 1].majorID
          /\ g_tag'[j].minorID = g_tag'[j + 1].minorID
      BY <1>2, <2>3, <3>1 DEF ShiftMinor, Move, Tag
    <3>3. spc' = "isStanding" /\ j' = j
      BY <1>1, <2>3 DEF ShiftMinor, Move
    <3> QED
      BY <2>1, <3>2, <3>3 DEF RemoveInv, Shifting, Removing
  <2>4. CASE ShiftMark
    <3>1. g_tag[j].majorID = g_tag[j + 1].majorID /\ g_tag[j].minorID = g_tag[j + 1].minorID
      BY <2>4 DEF TableInv, RemoveInv, ShiftMark, Move
    <3>2. PICK x : g_tag' = [g_tag EXCEPT ![j] = [g_tag[j] EXCEPT !.isStanding = x]]
                   /\ x = g_tag[j + 1].isStanding
      BY <2>4 DEF ShiftMark, Move
    <3>3. g_tag'[j] = [g_tag[j] EXCEPT !.isStanding = x] /\ g_tag'[j + 1] = g_tag[j + 1]
      BY <1>2, <3>2
    <3>4. /\ g_tag'[j].majorID = g_tag'[j + 1].majorID
          /\ g_tag'[j].minorID = g_tag'[j + 1].minorID
          /\ g_tag'[j].isStanding = g_tag'[j + 1].isStanding
      BY <1>2, <3>1, <3>2, <3>3 DEF Tag
    <3>5. spc' = "systemTime" /\ j' = j
      BY <1>1, <2>4 DEF ShiftMark, Move
    <3> QED
      BY <2>1, <3>4, <3>5 DEF RemoveInv, Shifting, Removing
  <2> QED
    BY <2>2, <2>3, <2>4
<1> QED
  BY <1>5, <1>7, <1>8 DEF TableInv

\* The last field is moved: slot j now holds the next entry, and that one's slot none.
LEMMA TableShiftEntry ==
  ASSUME SafeInv, TableInv, Calm', ShiftClock
  PROVE  TableInv'
<1>1. /\ spc = "systemTime" /\ spc' = "shift" /\ j' = j + 1
      /\ UNCHANGED <<num_g_tag, adder, history>>
      /\ \E x : g_tag' = [g_tag EXCEPT ![j] = [g_tag[j] EXCEPT !.age = x]] /\ x = g_tag[j + 1].age
  BY DEF ShiftClock, Move
<1>2. /\ j \in Slots /\ j + 1 \in Slots /\ j + 1 # j /\ g_tag \in [Slots -> Tag]
      /\ g_tag[j] \in Tag /\ g_tag[j + 1] \in Tag /\ Live \subseteq Slots
      /\ apc = "idle" /\ Entries = Live \ {j} /\ j + 1 < num_g_tag /\ j \in Live /\ j + 1 \in Live
  <2>1. j + 1 < num_g_tag /\ j < num_g_tag
    BY <1>1 DEF TableInv, RemoveInv, Shifting, Removing
  <2>2. spc \in Shifting /\ spc \in Removing
    BY <1>1 DEF Shifting, Removing
  <2>3. /\ j \in Nat /\ num_g_tag \in 0 .. MAX_TAGS /\ MAX_TAGS \in Nat
        /\ g_tag \in [Slots -> Tag]
    BY TagTableAssumption DEF SafeInv, TypeOK, Slots
  <2>4. /\ j \in Slots /\ j + 1 \in Slots /\ j + 1 # j /\ Live \subseteq Slots
        /\ j \in Live /\ j + 1 \in Live
    BY <2>1, <2>3 DEF Slots, Live
  <2>5. apc = "idle"
    BY <2>2, RemovalIsCalm
  <2>6. Entries = Live \ {j}
    BY <2>2 DEF Entries
  <2> QED
    BY <2>1, <2>3, <2>4, <2>5, <2>6
<1>3. Entries' = Live \ {j + 1} /\ Live' = Live
  BY <1>1, <1>2 DEF Entries, Live, Shifting, Removing
<1>4. /\ \A k \in Slots \ {j} : g_tag'[k] = g_tag[k]
      /\ Id(g_tag'[j]) = Id(g_tag[j + 1]) /\ g_tag'[j].age = g_tag[j + 1].age
      /\ g_tag'[j].isStanding = g_tag[j + 1].isStanding
  <2>1. /\ g_tag[j].majorID = g_tag[j + 1].majorID /\ g_tag[j].minorID = g_tag[j + 1].minorID
        /\ g_tag[j].isStanding = g_tag[j + 1].isStanding
    BY <1>1 DEF TableInv, RemoveInv
  <2>2. PICK x : g_tag' = [g_tag EXCEPT ![j] = [g_tag[j] EXCEPT !.age = x]] /\ x = g_tag[j + 1].age
    BY <1>1
  <2>3. g_tag'[j] = [g_tag[j] EXCEPT !.age = x]
    BY <1>2, <2>2
  <2> QED
    BY <1>2, <2>1, <2>2, <2>3 DEF Tag, Id
\* Slot k of the entries after the step is slot from(k) of those before it.
<1> DEFINE from(k) == IF k = j THEN j + 1 ELSE k
<1>5. \A k \in Entries' : /\ from(k) \in Entries /\ Id(g_tag'[k]) = Id(g_tag[from(k)])
                          /\ g_tag'[k].age = g_tag[from(k)].age
                          /\ g_tag'[k].isStanding = g_tag[from(k)].isStanding
  BY <1>2, <1>3, <1>4
<1>6. \A k \in Entries : \E l \in Entries' : Id(g_tag'[l]) = Id(g_tag[k])
  BY <1>2, <1>3, <1>4
<1>7. \A k, l \in Entries' : from(k) = from(l) => k = l
  BY <1>2, <1>3
<1> HIDE DEF from
<1>8. EntriesUnique' /\ EntriesCurrent'
  BY <1>1, <1>5, <1>7 DEF TableInv, EntriesUnique, EntriesCurrent, CurrentAt, history
<1>9. Gone' = Gone
  BY <1>1, <1>5, <1>6 DEF Gone, history
<1>10. SearchInv' /\ AppendInv'
  BY <1>1, <1>2 DEF SearchInv, AppendInv, Appending, adder
<1>11. RemoveInv'
  BY <1>1, <1>2, <1>9 DEF TableInv, RemoveInv, Shifting, Removing, history
<1> QED
  BY <1>8, <1>10, <1>11 DEF TableInv

\* The count is stored: the entries are the slots below it again.
LEMMA TableClose ==
  ASSUME SafeInv, TableInv, Calm', DecrementStore
  PROVE  /\ TableInv'
         /\ known \ known' = Gone
         /\ \A b \in Gone : silence[b] > TimeLimit
         /\ told = {b \in Gone : resighted[b]}
<1>1. /\ spc = "store" /\ spc' = "test" /\ num_g_tag' = num_g_tag - 1 /\ j = num_g_tag - 1
      /\ UNCHANGED <<g_tag, silence, resighted, adder>> /\ told' = {}
      /\ known' = Reported(g_tag, num_g_tag') /\ num_g_tag \in Nat /\ num_g_tag > 0
      /\ apc = "idle" /\ apc' = "idle" /\ known \subseteq Beacons
  <2>1. sload = num_g_tag /\ j = num_g_tag - 1 /\ sload > 0 /\ spc = "store"
    BY DEF DecrementStore, TableInv, RemoveInv, SafeInv, SweepHasEntry
  <2>2. apc = "idle"
    BY <2>1, RemovalIsCalm DEF Removing
  <2> QED
    BY <2>1, <2>2 DEF DecrementStore, SafeInv, TypeOK, adder
<1>2. Entries = Live' /\ Entries' = Live'
  BY <1>1 DEF Entries, Live, Shifting, Removing
<1>3. EntriesUnique' /\ EntriesCurrent'
  BY <1>1, <1>2 DEF TableInv, EntriesUnique, EntriesCurrent, CurrentAt
<1>4. SearchInv' /\ AppendInv'
  BY <1>1 DEF SearchInv, AppendInv, Appending
<1>5. RemoveInv'
  BY <1>1 DEF RemoveInv, Shifting, Removing
<1>6. /\ \A b \in Gone : silence[b] > TimeLimit
      /\ told = {b \in Gone : resighted[b]}
  BY <1>1 DEF TableInv, RemoveInv, Shifting, Removing
<1>7. known \ known' = Gone
  <2>1. Live' = 0 .. num_g_tag' - 1
    BY DEF Live
  <2> QED
    BY <1>1, <1>2, <2>1 DEF Gone, Reported
<1> QED
  BY <1>3, <1>4, <1>5, <1>6, <1>7 DEF TableInv

LEMMA TableSweep ==
  ASSUME SafeInv, TableInv, Calm', Sweep
  PROVE  TableInv'
BY TableSweepRead, TableShiftBegins, TableShiftField, TableShiftEntry, TableClose DEF Sweep

\* The clock and the beacons' silence advance together.
LEMMA TableTick ==
  ASSUME SafeInv, TableInv, ClockTick
  PROVE  TableInv'
<1>1. /\ UNCHANGED <<num_g_tag, adder, sweeper, resighted, known, told>>
      /\ g_tag \in [Slots -> Tag] /\ Live \subseteq Slots /\ beacon \in Beacons
      /\ num_g_tag \in 0 .. MAX_TAGS /\ known \subseteq Beacons
  BY DEF ClockTick, SafeInv, TypeOK, Live, Slots
<1>2. \A k \in Slots : /\ Id(g_tag'[k]) = Id(g_tag[k])
                       /\ g_tag'[k].majorID = g_tag[k].majorID
                       /\ g_tag'[k].minorID = g_tag[k].minorID
                       /\ g_tag'[k].isStanding = g_tag[k].isStanding
                       /\ g_tag'[k].age = Older(g_tag[k].age) /\ g_tag[k].age \in Ages
  <2>1. ASSUME NEW k \in Slots
        PROVE  g_tag[k] \in Tag /\ g_tag'[k] = [g_tag[k] EXCEPT !.age = Older(g_tag[k].age)]
    BY <1>1, <2>1 DEF ClockTick
  <2>2. ASSUME NEW k \in Slots
        PROVE  /\ Id(g_tag'[k]) = Id(g_tag[k])
               /\ g_tag'[k].majorID = g_tag[k].majorID
               /\ g_tag'[k].minorID = g_tag[k].minorID
               /\ g_tag'[k].isStanding = g_tag[k].isStanding
               /\ g_tag'[k].age = Older(g_tag[k].age) /\ g_tag[k].age \in Ages
    <3>1. PICK n : n = Older(g_tag[k].age)
      OBVIOUS
    <3>2. g_tag[k] \in Tag /\ g_tag'[k] = [g_tag[k] EXCEPT !.age = n]
      BY <2>1, <2>2, <3>1
    <3> QED
      BY <3>1, <3>2 DEF Tag, Id
  <2> QED
    BY <2>2
<1>3. \A b \in Beacons : silence'[b] = Older(silence[b]) /\ silence[b] \in Ages
  BY DEF ClockTick, SafeInv, TypeOK
<1>4. Entries' = Entries /\ Live' = Live /\ Entries \subseteq Live
  BY <1>1 DEF Entries, Live, sweeper
<1>5. EntriesUnique' /\ EntriesCurrent'
  BY <1>1, <1>2, <1>3, <1>4 DEF TableInv, EntriesUnique, EntriesCurrent, CurrentAt
<1>6. Gone' = Gone
  BY <1>1, <1>2, <1>4 DEF Gone
<1>7. SearchInv'
  <2>1. apc \in {"majorID", "minorID", "found", "added", "mark", "clock"} => at \in Live
    BY DEF TableInv, SearchInv, SafeInv, TypeOK, Slots, Live
  <2>2. apc \in {"search", "majorID", "minorID"} => 0 .. at - 1 \subseteq Live
    BY DEF TableInv, SearchInv, SafeInv, TypeOK, Slots, Live
  <2> QED
    BY <1>1, <1>2, <2>1, <2>2 DEF TableInv, SearchInv, adder
<1>8. AppendInv'
  <2>1. apc \in {"minor", "uuid", "kalman", "systemTime", "isStanding", "load", "store"} =>
          num_g_tag \in Slots
    BY DEF SafeInv, TypeOK, AdderHasRoom, TableInv, AppendInv
  <2> QED
    BY <1>1, <1>2, <1>3, <1>4, <2>1 DEF TableInv, AppendInv, Appending, adder
<1>9. RemoveInv'
  <2>1. Reported(g_tag', num_g_tag) = Reported(g_tag, num_g_tag)
    BY <1>1, <1>2 DEF Reported, Live
  <2>2. spc \in {"standing", "send"} => i \in Slots
    BY DEF SafeInv, TypeOK
  <2>3. spc \in {"minorID", "isStanding", "systemTime"} => j \in Slots /\ j + 1 \in Slots
    BY DEF SafeInv, TypeOK
  <2>4. \A b \in Gone : b \in Beacons
    BY <1>1 DEF Gone
  <2> QED
    BY <1>1, <1>2, <1>3, <1>6, <2>1, <2>2, <2>3, <2>4, OlderAge DEF TableInv, RemoveInv, sweeper
<1>10. Calm'
  BY <1>1 DEF TableInv, Calm, Settled, adder, sweeper
<1> QED
  BY <1>5, <1>7, <1>8, <1>9, <1>10 DEF TableInv

-----------------------------------------------------------------------------
(* The theorems. *)

LEMMA TableInit == Init => TableInv
<1> SUFFICES ASSUME Init PROVE TableInv
  OBVIOUS
<1>1. /\ apc = "idle" /\ spc = "test" /\ Live = {} /\ known = {} /\ told = {}
  BY DEF Init, Live
<1>2. Entries = {} /\ Calm /\ Reported(g_tag, num_g_tag) = {}
  BY <1>1 DEF Entries, Shifting, Removing, Calm, Reported, Live
<1> QED
  BY <1>1, <1>2 DEF TableInv, EntriesUnique, EntriesCurrent, SearchInv, AppendInv, Appending,
     RemoveInv, Shifting, Removing

\* What a step that leaves no addTag in a removal starts from.
LEMMA NoOverlap ==
  ASSUME IInv, [Next]_vars, ~overlap'
  PROVE  TableInv /\ SafeInv /\ (Next => Calm')
BY DEF IInv, Next, Noting, vars, SafeInv, TypeOK

LEMMA IInvStep == IInv /\ [Next]_vars => IInv'
<1> SUFFICES ASSUME IInv, [Next]_vars PROVE IInv'
  OBVIOUS
<1>1. SafeInv'
  BY SafeStep DEF IInv
<1>2. ASSUME ~overlap' PROVE TableInv'
  <2>1. TableInv /\ SafeInv /\ (Next => Calm')
    BY <1>2, NoOverlap
  <2>2. CASE Next
    BY <2>1, <2>2, TableAdd, TableSweep, TableTick DEF Next, Noting
  <2>3. CASE UNCHANGED vars
    BY <2>1, <2>3 DEF vars, table, adder, sweeper, history, TableInv, Calm, Settled, EntriesUnique,
       EntriesCurrent, CurrentAt, SearchInv, AppendInv, RemoveInv, Gone, Entries, Live, Reported, Id
  <2> QED
    BY <2>2, <2>3
<1> QED
  BY <1>1, <1>2 DEF IInv

\* The inductive invariant.
THEOREM Invariance == Spec => []IInv
<1>1. Init => IInv
  BY SafeInit, TableInit DEF IInv
<1> QED
  BY <1>1, IInvStep, PTL DEF Spec

\* Every variable keeps its type, and with one task that adds neither it nor the sweep
\* reads or writes outside the array, whatever updates of the count are lost.
THEOREM TypeCorrectness == Spec => []TypeOK
<1>1. IInv => TypeOK
  BY DEF IInv, SafeInv
<1> QED
  BY <1>1, Invariance, PTL

\* Every slot below the count has held an entry.
THEOREM NoZeroedSlotInUse == Spec => []InUseIsFilled
<1>1. IInv => InUseIsFilled
  BY DEF IInv, SafeInv
<1> QED
  BY <1>1, Invariance, PTL

\* Between removals, until an addTag falls into one, a beacon has one entry.
THEOREM Uniqueness == Spec => []NoDuplicateTag
<1>1. IInv => NoDuplicateTag
  BY DEF IInv, TableInv, NoDuplicateTag, Unique, EntriesUnique, Entries, Settled, Shifting, Removing
<1> QED
  BY <1>1, Invariance, PTL

\* Between removals, until an addTag falls into one, an entry's clock and mark are its
\* own beacon's.
THEOREM Currency == Spec => []EntryIsCurrent
<1>1. IInv => EntryIsCurrent
  BY DEF IInv, TableInv, EntryIsCurrent, Current, EntriesCurrent, CurrentAt, Entries, Settled,
         Shifting, Removing
<1> QED
  BY <1>1, Invariance, PTL

\* What a step that no addTag disturbs takes out of the table: nothing, or by the store
\* that ends a removal the beacon it is of.
LEMMA Leaving ==
  ASSUME IInv, [Next]_vars, ~overlap', NEW b \in known \ known'
  PROVE  DecrementStore /\ b \in Gone
<1>1. TableInv /\ SafeInv /\ (Next => Calm')
  BY NoOverlap
<1>2. ~UNCHANGED known
  OBVIOUS
<1>3. Next
  BY <1>2 DEF vars, history
<1>4. DecrementStore \/ IncrementStore
  BY <1>2, <1>3 DEF Next, Noting, addTag, Add, Search, CompareMajor, CompareMinor, Compare, Filter,
     SendAdded, Mark, RestartClock, SendStream, CheckRoom, WriteMajor, WriteMinor, WriteUuid,
     InitKalman, StartClock, ClearMark, Fill, IncrementLoad, Sweep, TestEntry, TestStanding,
     SendRemoved, Shift, ShiftMajor, ShiftMinor, ShiftMark, ShiftClock, Move, DecrementLoad, Rest,
     Restart, ClockTick, history
<1>5. ~IncrementStore
  <2> SUFFICES ASSUME IncrementStore PROVE FALSE
    OBVIOUS
  <2>1. apc = "store" /\ apc # "idle" /\ aload = num_g_tag /\ num_g_tag \in Nat
    BY <1>1 DEF IncrementStore, TableInv, AppendInv, SafeInv, TypeOK
  <2>2. known = Reported(g_tag, num_g_tag) /\ known' = Reported(g_tag, num_g_tag + 1)
    BY <1>1, <2>1, AddIsCalm DEF IncrementStore
  <2> QED
    BY <2>1, <2>2 DEF Reported
<1> QED
  BY <1>1, <1>3, <1>4, <1>5, TableClose

\* A beacon leaves only by a removal and only after its time limit without a report,
\* unless an addTag falls into a removal.
THEOREM RemovalOnlyAfterSilence == Spec => RemovedOnlyWhenSilent
<1>1. IInv /\ [Next]_vars =>
        [~overlap' => \A b \in known \ known' : silence[b] > TimeLimit]_vars
  <2> SUFFICES ASSUME IInv, [Next]_vars, ~overlap', NEW b \in known \ known'
               PROVE  silence[b] > TimeLimit
    OBVIOUS
  <2>1. DecrementStore /\ b \in Gone
    BY Leaving
  <2>2. Next
    BY DEF vars, history
  <2> QED
    BY <2>1, <2>2, NoOverlap, TableClose
<1> QED
  BY <1>1, Invariance, PTL DEF Spec, RemovedOnlyWhenSilent

\* RemoveTagTask is handed the beacon that leaves if it was reported again, and else
\* nothing, unless an addTag falls into a removal.
THEOREM RemovalAnnouncement == Spec => RemovalAnnounced
<1>1. IInv /\ [Next]_vars =>
        [DecrementStore /\ ~overlap' => told = {b \in known \ known' : resighted[b]}]_vars
  <2> SUFFICES ASSUME IInv, [Next]_vars, DecrementStore, ~overlap'
               PROVE  told = {b \in known \ known' : resighted[b]}
    OBVIOUS
  <2>1. Next
    BY DEF DecrementStore, vars, sweeper
  <2> QED
    BY <2>1, NoOverlap, TableClose
<1> QED
  BY <1>1, Invariance, PTL DEF Spec, RemovalAnnounced
=============================================================================
