# Verification of the iBeacon gateway

TLA+ models of the ESP32 firmware in `src/main`, checked by TLC on small
instances, with theorems about the models proved by TLAPS for every size. The
firmware listens for iBeacons over Bluetooth (and over HTTP from other
gateways), keeps a table of the beacons in range, takes occupancy reports of
parking places from cameras over HTTP, and forwards what changes to an MQTT
broker. While the broker cannot be reached it writes events to flash and sends
them later. The models are written from the C code; the numbers in brackets
below are lines of it.

## 1. Inventory

The program is FreeRTOS tasks and library callbacks on a dual-core ESP32. They
share global variables and arrays without a single lock; four queues and one
counting semaphore are the only synchronisation.

| Component | State | Operations | Talks to |
|---|---|---|---|
| **Tag table** `tag.c`, `tag.h` | `g_tag[100]`, `num_g_tag` | `addTag`; `checkIfTagIsForRemoval` every 6 s | called from the BLE callback and from HTTP workers (`parseTags`); feeds three queues |
| **Tag tasks** `tag.c` | the event in hand | `AddTagTask`, `RemoveTagTask`, `AddTagTaskStreaming` | receive from the queues; publish, or write to flash |
| **Parking table** `parking.c` | `g_p[100]`, `num_g_p` | `addValueToParking`, trigger and interval reports, `ParkingTask` | called from HTTP workers; a queue of indices to its task |
| **MQTT session** `mqtt.h` | `countSubsripcitionEvents`, `STATE[MQTT]` | connected, subscribed, disconnected, data | its two globals are the *gate* every publisher tests |
| **Offline store** `tag.c`, `parking.c`, `mqtt.h` | `/storage/N.bin`, `countNumOfWritenFilesIntoASpiff` | `WriteTagToAFile`, `WriteParkingToAFile`, `sendSavedTasks` | written by the tag and parking tasks, emptied by the sender, all through one unlocked counter |
| **UUID registry** `mqtt.h`, `tag.c`, `main.c` | `saved_uuids[100]`, `num_reg_uuid`, `uuid.bin` | ADD_UUID, REMOVE_UUID, load at boot, `isUuidRegister` | changed by the MQTT task while the BLE callback scans it |
| **Parameters** `mqtt.h` | position, environment factor, threshold, streaming, name | one branch of the DATA event each | read by `addTag` and by publishing |
| **HTTP workers** `async_server_utils.h`, `server.c` | counting semaphore of 30, queues of requests | accept, start a worker, parse, answer, finish | call the two parsers |
| **Boot, Wi-Fi** `main.c`, `wifi.h` | `STATE[WIFI]`, the order of initialisation | `app_main`, Wi-Fi events, 100 attempts to connect | starts everything |
| **BLE scanning** `ble.c` | the radio's parameters | `gap_event_handler` | filters by UUID, then `addTag` |
| **Kalman filter, distance** `kalman_filter.c`, `defs.h` | one filter per slot | `kalman1d_init`, `kalman1d_update`, `distance` | used by `addTag` and by publishing |

Vendored code (`components/bt`, `components/json`, the ENC28J60 driver), the
HTTP client that nothing includes (`client.h`) and the desktop tools
(`interface/`, `test.py`) are outside the project. FreeRTOS, esp-mqtt,
esp_http_server and SPIFFS are libraries; their calls are modelled from the way
the firmware uses them.

**What is hard in it.** Unlocked read-modify-writes of counters from several
tasks; arrays compacted in place while others search them; queues that carry
*indices* of slots which may have moved when the index is used; a gate made of
two globals set and cleared one at a time; an equality test on an event counter;
files named by a counter that lives in RAM; a list that is emptied before it is
saved; library calls whose failure is not looked at. `PROJECT.json` lists each
of these hazards at its line, with the properties that watch it.

**What makes each component correct.**

- *Tag table*: never past its array; one entry per beacon; an entry's data are
  its own beacon's; a beacon leaves after, and only after, it has been silent,
  and its leaving is announced exactly. Without a lock only the first holds
  always; the others hold until an addition falls into a removal, and the table
  recovers from each.
- *MQTT session*: the gate is open only when every topic of this session is
  subscribed; it opens on a connection that lasts.
- *Offline store*: the counter stays in bounds; an event takes one path to the
  broker; what was stored is sent; the backlog drains.
- *UUID registry*: the list is what the senders asked for, also after a restart;
  a scan accepts what is registered and nothing else.
- *Parking table*: the broker ends up with the occupancy the cameras reported
  last; never past the array.
- *HTTP workers*: every accepted request is worked off by a worker; permits come
  back.
- *Boot*: `STATE[WIFI]` is the station's; a lost connection is tried again;
  start-up completes.

## 2. Plan

| # | Module | Models | State |
|---|---|---|---|
| 1 | `TagTable` | tag table, access by access | done, proved |
| 2 | `MqttGate` | abstract: what publishers may rely on | done |
| 3 | `MqttSession` | the event handler, implements `MqttGate` | done, proved |
| 4 | `OfflineStore` | tag and parking tasks, sender, files, power failure; composed with `MqttGate` | done, proved |
| 5 | `UuidRegistry` | registry, file, scan, power failure | done, proved |
| 6 | `ParkingTable` | cameras' reports, index queue, `ParkingTask` | done, proved |
| 7 | `RequestPool` | abstract: how many requests may be open | done |
| 8 | `HttpWorkers` | permits, request queues, tasks; implements `RequestPool` | done, proved |
| 9 | `Boot` | `app_main` and the Wi-Fi event handler | done, proved |

Abstract specifications: `MqttGate` stands for the MQTT side wherever a publisher
is modelled, so `OfflineStore` never looks inside the session; `RequestPool` is
what the server's permits are for. Both are refined with `INSTANCE ... WITH`
(`MqttSession!ImplementsGate`, `HttpWorkers!ImplementsPool`), checked and proved.

Each of the twelve runs asks its own question. `MCTagTable` and `MCParkingTable` define
the instances' beacons and symmetry. Disagreements that one violated
property shows together are not repeated in runs of their own: `store_drained`
covers file 0, the file being rewritten and the record kinds the sender does not
know.

Every invariant that a passing run checks, both refinements and the three action
properties (`RemovedOnlyWhenSilent`, `RemovalAnnounced`, `RegistrySurvives`) are
theorems. What is left to TLC is liveness (section 5).

## 3. The models

### TagTable

`g_tag`, `num_g_tag`, one call of `addTag` (3-51) and the loop of
`checkIfTagIsForRemoval` (53-78), with no lock between them. A step is one access
to what they share: `Search` reads the volatile count anew for each index, as the
code does; `CompareMajor` and `CompareMinor` read one field each; a found slot is
marked (`Mark`) and its clock restarted (`RestartClock`) by index, without a second
look at whose it is; a new entry is written to `g_tag[num_g_tag]` field by field,
the count read again for each (`WriteMajor` .. `ClearMark`), and counted by a load
and a store. The sweep tests the clock (`TestEntry`), then `isStanding`
(`TestStanding`), then waits in `xQueueSend` (`SendRemoved`), then moves each later
entry down field by field (`Shift`, `ShiftMajor` .. `ShiftClock`), and counts down by
a load and a store. It goes on with the *next* index, as the `for` loop does; `Rest`
ends a pass. Time may pass (`ClockTick`) between any two steps, the waits in the
queues among them.

Time is the *age* of an entry in ticks, saturating one past `time_limit`. The removal
loop moves all fields but two. Those two are kept by provenance: `proximity_uuid`
holds the beacon whose advertisement filled it, `kalman` the set of beacons whose
measurements the slot's filter has absorbed since it was initialised. `time`, `rssi`
and `refpower` are written and moved like the clock, and no condition reads them;
they are left out. So is what waits in the three queues. `StreamModes` is the
pair of "gate open" and `justSend`, chosen freely: `addTag` only reads them.

The history variables follow the *beacon* where the fields follow the *slot*, and the
properties compare the two: `silence` and `resighted` are a beacon's clock and mark,
`known` the beacons in the table after the last change of the count, `told` what the
removal under way has announced. `overlap` says whether an `addTag` has ever been at
work during a removal, which is from the test that finds an entry silent to the store
of the count. It is needed, since the code goes wrong when that happens. TLC finds,
with the condition taken out:

- *a second entry*: the shift carries a beacon's entry past the index of the search,
  which finds nothing, and the beacon is appended again (`NoDuplicateTag`, 49 states);
- *another's mark and clock*: the slot that was found at line 7 holds another beacon
  when lines 17 and 18 write to it (`EntryIsCurrent`, 31 states);
- *a removal in spite of a report*: a beacon reported while the sweep waits at line
  61, or moves entries, goes all the same (`RemovedOnlyWhenSilent`, 26 states);
- *a removal unannounced*: a beacon is marked standing after line 60 has looked
  (`RemovalAnnounced`, 25 states).

So these four are stated until the first such overlap, with every other
interleaving in them: additions within a pass of the sweep, between its tests, while
`addTag` waits in a queue. What holds through every overlap is that the count stays in
the array and over slots that were filled (`TypeOK`, `InUseIsFilled`), that each pass
ends (`PassEnds`), and `TableRecovers`: if overlaps stop, the table is free of
duplicates and current again after some passes, as a wrong entry is one that nobody
refreshes and that goes with the clock. Overlaps are rare in the program, as the
sweep runs for an instant every 6 s, except for the wait at line 61 on a full queue.

One task adds at a time. The program has two kinds of caller, the BLE callback and
`/postBle` workers; when two run `addTag` at once both pass the check for the last
slot and no bound is kept, which is listed among the hazards.

### MqttGate and MqttSession

Every publisher asks `countSubsripcitionEvents == NUM_OF_TOPICS && GET_STATE(MQTT)`.
`MqttGate` has just that answer, `gate`, and the client library's own view of
the connection, `link`. The two differ between the loss of the connection and the
end of the disconnection event. `MqttSession` is the handler (16-46), one step
per assignment to a global, and maps to `MqttGate` with `gate` defined by the
expression above. The expression reads two globals one after the other. `CountNeedsState`
(a count other than 0 implies `STATE[MQTT]`: the handler sets the state before it
counts and clears the count before the state) is checked and proved, so whichever global is read first, the answer is one that the
atomic test would have given at one of the two moments, and `OfflineStore` tests
the gate in one step.

External behaviour: `esp_mqtt_client_subscribe` may fail at any call, a
connection may break at any point, and answers outstanding at that moment never
come. A SUBACK answers a SUBSCRIBE of the same session: a library that
retransmitted one after reconnecting would overshoot the equality test, and
esp-mqtt's outbox is not modelled.

### OfflineStore

`RemoveTagTask` (203-222), `ParkingTask` (116-134) and `sendSavedTasks`
(181-226), with every access to the file system, the client and the counter a
step (two reads of the counter with nothing but increments possible between
them are one), and `count++`/`count--` a load and a store. A file holds one record or is
`"empty"` between the `fopen(.., "wb+")` that truncates it and the `fclose` that
flushes it. Reading an empty file leaves the sender's locals uninitialised: it
may publish something under a tag topic, or nothing, and both are possible steps.
Opening a file may fail and a full flash may leave it empty (`FlashMayFail`).
Publishing while the client is disconnected discards the message
(`CONFIG_MQTT_SKIP_PUBLISH_IF_DISCONNECTED=y`, `src/sdkconfig:1732`). `Reboot`
resets the globals and loses what waited in the queues; the files stay.
`AddTagTask` runs the same code as `RemoveTagTask`, but its queue is fed only
when `applayKalman` is 0, and no code assigns that.

### UuidRegistry

The handler's ADD_UUID (53-89) and REMOVE_UUID (91-108), one step per assignment
to the shared array, count or file; `isUuidRegister` one comparison a step, as
the BLE callback runs it against the handler. Sixteen bytes are copied or
compared in one step.

The two branches read different formats. ADD_UUID decodes the text of a UUID, three
characters a byte (62-71), and does not look at how long the message is. REMOVE_UUID
compares the message's first 16 bytes as they are (94). A message is therefore a
UUID and the form it was sent in. Of a text, ADD_UUID makes the UUID meant; of 16
bytes, and what follows them on the stack, any value (`Decoded`). REMOVE_UUID finds
a UUID sent as bytes, and never one sent as text (`Matches`): a UUID is not removed
by the message that added it. `asked` is what the senders want registered, and
`honoured` says whether every message since the restart has done what it was sent
for; `ListIsAsked` holds until one has not.

`PowerCycle` may strike at any time; a file being written
keeps nothing, or its count and some leading slots; the restart ends the scan
that was going on, so `calm`, which says whether a message came since the scan
began, starts over with it. The first `memcpy` of
`app_main` (21) copies fifteen times the size of its source; what it puts in the
later slots is `Junk`. Saving may fail (`FlashMayFail`): `fopen` fails, and the code
calls `fclose(NULL)`, which newlib answers without effect, or the flash is full, and
of what `fwrite` was given only a part is there, with no error looked at. `dirty`
says that the last save failed.

### ParkingTable

The two parsers (26-72), `addValueToParking` (3-24) and `ParkingTask` (116-134).
A worker's search is one step; after it, every write a reader can tell from the
next is one: announcing a changed slot and changing it, filling a new slot,
naming it, announcing it, counting it; the count is loaded and stored in two
steps, since another worker may empty the table between them. `ParkingTask` receives a slot number and
reads the slot's occupancy and name in two later steps, in either order
(`PUBLISH_PARKING` loads the occupancy first, the copy for the file the name
first). Its message and its file are one step, `HandOn`: what becomes of either
is `OfflineStore`'s matter. Times are left out; names are numbers.

Reports are parsed by a task each. The httpd task starts one, waits ten ticks
and may start the next (`async_server_utils.h:59`), so workers mostly run apart,
but a body that comes late lets them overlap. The history variable `overlap`
says whether that ever happened, and whether an interval report has run alone
since: properties that two searches at once do break hold only without it, the
types and bounds hold always. A slot numbered `MAX_PARKING` stands for the
memory behind the array. The code does write it (17): a new place is written before
the count is compared with the limit, which only keeps the count (21) from passing it.
`parking_limit` shows the write; `FitsArray` is the theorem that it takes more places
than slots.

### RequestPool and HttpWorkers

The handler that `ASYNC_HANDLER_REGISTER_FUNCTION` (49-63) generates, call by
call: take a permit, copy the request, queue the copy, create the task. A failed
copy returns with the permit; the results of the send and of the creation are
not looked at. Tasks wait in `START_ASYNC_HANDLE` until their handler's queue
has a request, not necessarily theirs. A request then carries what its task has
left to do, taken from the paths through `server.c`: the BLE task answers a late
body and stops, the camera task looks for "trigger" or "interval" in whatever
it has read and may find neither. `Complete` frees the socket before `Give`
returns the permit. `leaked` and `orphans` count the failures that nobody
repairs. A request refused for want of a permit changes nothing and is no step.
`RequestPool` sees the open requests and how many may be open.

### Boot

`app_main` as a list of stages named for what they create, with the three that
talk to the radio as actions of their own, and `_wifi_event_handler` (32-60)
event by event. The handler occupies the event loop while `_conection_start`
tries, so events of a connection that came and went meanwhile wait. The radio is
external: it connects, fails or drops, each time with an event. Three stages may abort, and the chip starts over: a file
system that does not mount (`MountFails`), the NVS of the Bluetooth start-up
(`NvsFails`, `ble.c:59,62`) and the HTTP server (`ServerFails`, `server.c:78`). So does
the hundredth failed attempt (`GiveUp`).

## 4. What the runs check

| Run | Instance | Shows |
|---|---|---|
| `tag_table` | 2 beacons, 2 slots, filter off | `TypeOK` with the bounds, `InUseIsFilled` and `PassEnds` under any overlap; `NoDuplicateTag`, `EntryIsCurrent`, `RemovedOnlyWhenSilent`, `RemovalAnnounced` until an addition falls into a removal; `SilentTagLeaves` (the skipped entry's turn comes) and `TableRecovers` after the last that did |
| `tag_own_data` | 2 beacons, 2 slots, filter on | **violated**: `DataIsOwn`, without any overlap |
| `mqtt_session` | 6 topics | `GateMeansSubscribed`, `CountNeedsState`, `ImplementsGate`, `GateOpens` |
| `offline_store` | 2 tag events, 1 parking event, failing flash, 1 power failure | `CountWithinWritten`, `OnePath`, `BacklogDrains` |
| `store_drained` | 3 events, healthy flash, no power failure | **violated**: `DrainedMeansSent` |
| `uuid_registry` | 3 UUIDs in two forms, 3 slots, 1 power failure, failing flash | `NoDuplicateUuid`, `ListIsAsked`, `ScanIsExact`, `RegistrySurvives` |
| `uuid_readd` | 3 UUIDs, 3 slots | **violated**: `AddAccepted` |
| `parking_table` | 2 symmetric workers, 3 places, 2 slots, a queue of 1, 2 triggers, 1 interval report | `NoDuplicatePlace`, `AnnouncedIsFilled`, `IntervalRepairs` |
| `parking_limit` | 1 worker, 3 places, 2 slots | **violated**: `NeverPastArray` |
| `parking_stale` | 1 worker, 2 triggers | **violated**: `LastReportIsSent` |
| `http_workers` | 3 sockets, 2 permits, 2 failures | `PermitsAddUp`, `WorkersMatch`, `SendFindsRoom`, `ImplementsPool`, `Served`, `Recovers` |
| `boot` | 3 attempts, 2 aborts, 3 waiting events | `StateFollowsStation`, `KeepsTrying`, `BootCompletes` |

The violated properties are claims of the repository's README and comments that
the code does not keep; `PROJECT.json` quotes them under "findings":

- After a removal the entries above move down without their UUID and their
  filter, so a beacon is published with another's UUID and its RSSI is smoothed
  with another's estimate (`tag.c:64`).
- Files are written from number 0 and read from the counter's value, so file 0 is
  never sent (`mqtt.h:187`). The sender may also open the file a writer has just
  emptied (`mqtt.h:189`), and stored parking changes take the branch commented
  "We shoud not get hear" and are dropped (`mqtt.h:215`).
- The duplicate check looks one slot too far, where a removal leaves what stood in
  the last slot in use: if that UUID has been removed, it cannot be added again
  (`mqtt.h:73`).
- With all places known, one more is written behind the array (`parking.c:17`).
- A changed parking place is announced before it is written: `ParkingTask`, on
  the other core or while the sender waits for room in the queue, publishes the
  old occupancy, and nothing corrects it (`parking.c:8`).

More facts about the code are visible in the models without a run of
their own. What an addition that falls into a removal does to the tag table is listed
in section 3. A UUID is not removed by a message in the format that added it
(`mqtt.h:94`; `honoured`). A subscribe call that fails is never repeated, and the gate stays
closed for the session (`mqtt.h:25`; `GateOpens` assumes full subscription). The
registry's count is raised before its slot is filled, so a scan at that moment
accepts a removed UUID (`mqtt.h:81`; `ScanIsExact` speaks of undisturbed scans).
And the permit of a request that cannot be copied is lost
(`async_server_utils.h:53`; `leaked`).

**Bounds.** Two slots make the table of `tag_table` full, make a shift and a skip,
and two beacons of other numbers make a half-moved entry neither's. When the
table is full, whoever looks for room is a beacon whose entry the search has missed, or
that a duplicate of the other keeps out; so `CheckRoom` does refuse, and its mutant
writes past the array. A limit of 0 ticks makes one tick the
difference between reported and silent, the only difference the code knows. The
filter is off in `tag_table` so that the announcement of a first re-sighting (14), a
wait that the filter switches off, is there too; what the filter does otherwise is
the subject of `tag_own_data`.
The gate depends on the number of answers alone, so six topics stand for
`NUM_OF_TOPICS` = 11. Three events let the counter pass one while both writers
and the sender are inside their updates. Three registry slots give a shift with
slots on both sides and a full list; one power failure, in a save or
between two, is all that the load at boot can tell. Three places for two slots fill the parking array and pass it
(`parking_limit` too); two triggers and an interval report are what it takes for a stale slot, a refill
under a reader, and a repair (`Varying`, the places ever reported occupied, is
one: with two the run passes too, in more time). In `http_workers` one failure
per permit lets every permit leak, and three sockets compete for two permits; with
four sockets and three permits it passes as well. Three attempts are a first, a middle and a last. `MaxReboots`,
`MaxBoots`, `MaxFailures` and `MaxAborts` bound nothing but the number of failures;
after the last abort the last attempt of the handler has to succeed, so liveness
in `boot` is stated for a finite number of restarts. The constants and their meaning are named in each module.

**Fairness.** `TagTable`: the sweep, whose task has the highest priority of the
program (10, `main.c:82`) and blocks only in `vTaskDelay` and bounded queue waits; a
call of `addTag`, which blocks only in the latter; and the clock. Nothing makes a
beacon advertise. `SilentTagLeaves` and `TableRecovers` assume that from some time on
no addition falls into a removal.
`MqttSession`: the handler. The client's task runs, and a broker that stays
connected answers what it was asked; nothing makes the connection come up or
stay, the property assumes that. `OfflineStore`: each task takes the steps it
can; the three block only in `vTaskDelay` and bounded waits, and tasks of equal
priority share their core in time slices. The gate and the power get no
fairness. `HttpWorkers`: the httpd task and the workers run, and `httpd_req_recv`
returns, with a body or its timeout; no client has to send anything.
`Boot`:
`app_main` and the event loop run; the radio gets none, `BootCompletes` assumes a
station that stays up. `UuidRegistry` and `ParkingTable` have no liveness property.

**Deadlock** is checked except where the system may come to rest: with all
permits leaked and nothing open the server only refuses, which is no step
(`http_workers`); with the bounded reports used up the parking tasks wait
(`parking_*`); with everything up, and its events handled, `Boot` waits for the
radio, whose events are bounded by `MaxEvents` in the queue and by `MaxAborts`.

## 5. What is proved

For every value of the constants allowed by the modules' assumptions:

- `TagTableProofs`: `TypeCorrectness`, `NoZeroedSlotInUse`, `Uniqueness`, `Currency`
  and the two action properties `RemovalOnlyAfterSilence` and `RemovalAnnouncement`.
  The inductive invariant has two parts. `SafeInv` holds under any overlap: from
  `addTag`'s check to its store nothing can raise the count, since the sweep stores
  at most one less than a value it loaded; and whichever count either task has
  loaded, the slots below it have been filled. It says both for every pair of places
  the two tasks can be at, and fails with a second adder. `TableInv` holds until an
  overlap: the slots that hold an entry, in the middle of a shift all but the one
  being filled (`Entries`), are distinct and current; what the search has passed is not
  the beacon searched for, what it has found is; the entry being written is behind the
  count and nobody else's; during a removal `addTag` is at rest, and what the entries
  no longer show is a silent beacon, announced if it stood (`Gone`). Six theorems
  follow from the conjunction.
- `MqttSessionProofs`: `TypeCorrectness`, `OpenGate`, `StateBeforeCount` and `Refinement`. The
  invariant adds that the topics still to subscribe, pending and answered are
  disjoint, that the count is the number of answers in this session, and what
  the count is while the handler is between its assignments; the bound of the
  count follows from the cardinality of disjoint subsets, and with it the
  soundness of an *equality* test.
- `OfflineStoreProofs`: `CounterBounds`. No increment or decrement is atomic, so
  neither bound is inductive alone. The invariant bounds every value loaded and
  not yet stored: a writer's by the number of files counted, the sender's by one
  from below, which rests on there being no second task that counts down.
  `TypeCorrect`: that no file number passes the number of events needs a budget,
  in which each event is counted once, as raised, in a writer's hands or counted
  in a file (`Numbers`). `OnePathHolds`: what a writer holds between its test of
  the gate and its `PUBLISH` or `fclose` has gone neither way yet and is not in
  the other writer's hands, and what a file or the sender holds was stored
  (`Paths`); truncating a file, losing one and reading an empty one take nothing
  away from that.
- `UuidRegistryProofs`: `TypeCorrect`, `NoDuplicates`, `ListCorrect`,
  `ScanCorrect` and the action property `Survival`. During a message the array
  has a *hole*, the slot to be copied into or the one the shift has just freed;
  `Listing` are the slots in use without it, and of them distinctness, and equality
  with `asked` while every message was honoured, are inductive. A message that
  fails its sender ends `honoured`, and the theorem rests on no other message doing
  anything but what was asked. For restarts, `FileIsList` says of the
  file what `app_main` would make of it, for each part of a save that can have
  reached the flash. A calm scan has not found the UUID in any slot it has
  passed, and the list has not changed under it.
- `ParkingTableProofs`: `TypeCorrect`, `OnePlaceOneSlot`, `FitsArray`,
  `AnnouncedFilled` and `Repairs`. The types are inductive on their own and hold
  under any overlap: what a worker stores in `num_g_p` is one more than a count
  it found below the limit, however old that is. The others rest on `LoneWork`:
  at most one worker is at work, a place has one slot, and the worker changes a
  slot in use or fills the first free one with a place that is not in the table.
  `Repairs` needs what holds on the way to a quiet system, `Underway`: the number
  of every slot announced is still queued, or `ParkingTask` has it and has read
  nothing old, or its occupancy was handed on; and no number behind it is of a
  slot with the same place.
- `BootProofs`: `TypeCorrect` and `StateFollows`. With events waiting `STATE[WIFI]`
  may differ from the station, so the invariant speaks of the *last* event posted:
  it tells what the station is (`LastEventTells`), and when it is handled the
  state is set from it.
- `HttpWorkersProofs`: `TypeCorrectness`, `PermitAccounting`, `SendHasRoom`,
  `QueueMatchesTasks` and `Refinement`. The number of open
  requests changes only where a permit changes hands. That needs to know that a
  queued request is open, is queued once, and is not the one in the httpd task's
  hands (`QueuedOnce`, `HandlerHasRequest`). That a queue has room then follows
  from the injection of its places into the other open requests.

Assumptions are the ASSUMEs of the modules: finite sets of topics and events,
non-empty arrays, values that stand for "nothing", for no file and for an empty
file outside the sets they are used with. None of them bounds the number of
beacons, UUIDs, places, tasks, slots or failures.

**Only model-checked.** The liveness properties (`SilentTagLeaves`, `PassEnds`, `TableRecovers`,
`GateOpens`, `BacklogDrains`, `Served`, `Recovers`, `KeepsTrying`, `BootCompletes`) rest on
fairness, which is outside the prover's reach. The properties of the `violation`
runs are false, which a counterexample shows and no theorem could.

## 6. Not modelled, and why

- JSON, advertisement decoding, formatting of messages: data conversions no
  property here depends on. Each prefix of the array elements of a `/postBle`
  request is a behaviour of `TagTable`.
- The filter and the distance formula: single-precision floating point, which
  neither tool has. Which measurements a filter absorbs is modelled; the numbers
  are not.
- The parameter messages (`mqtt.h:110-133`): each is one assignment of one task,
  and `addTag` and publishing take whatever value they find. That `strtof` and
  `atoi` read data without a terminator, and that a shorter name keeps the tail of
  a longer one, are listed as hazards and left to a unit test.
- Fragments of long MQTT messages, whose empty topic matches the first branch
  (`mqtt.h:53`): every message of `UuidRegistry` is whole.
- Two `addTag` at once (see TagTable), what waits in the tag table's queues
  and a send that a full one loses, and the order of reports that two
  camera workers parse late.
- `ble.c`: the radio's set-up and the decoding of advertisements; what its
  callback calls is in `TagTable` and `UuidRegistry`.
- The Bluetooth stack (which is nearly all of `src/` by size), cJSON, the Ethernet
  driver, `client.h` and the desktop tools: third-party, unused or outside the
  firmware. The models cover the firmware's own code in `src/main`; the share of
  the whole repository they can map is small for that reason.
