---------------------------- MODULE OfflineStore ----------------------------
(***************************************************************************)
(* What becomes of an event: RemoveTagTask and ParkingTask publish it when *)
(* the gate is open and write it to a numbered file in flash when it is    *)
(* not; sendSavedTasks reads the numbered files back and publishes them.   *)
(* All three share the volatile counter that names the next file, and none *)
(* takes a lock.                                                           *)
(*                                                                         *)
(* Every access to the counter, the file system or the client is a step of *)
(* its own, so the tasks interleave as two cores and three priorities let  *)
(* them.  A file holds one record; opening it for writing empties it, and  *)
(* what is read from an empty file is whatever the reader's uninitialised  *)
(* locals hold.  AddTagTask runs WriteTagToAFile as RemoveTagTask does,    *)
(* but gets events only when applayKalman is 0, which no code assigns.     *)
(***************************************************************************)
EXTENDS MqttGate, Integers, FiniteSets

CONSTANTS
  TagEvents,      \* removals announced to RemoveTagTask
  ParkingEvents,  \* changes announced to ParkingTask
  Nothing,        \* not an event: no file, an empty file, no record
  FlashMayFail,   \* external: fopen may return NULL, a full flash keeps a file empty
  MaxReboots      \* bound: how often the power fails

ASSUME OfflineStoreAssumption ==
  /\ IsFiniteSet(TagEvents) /\ IsFiniteSet(ParkingEvents)
  /\ TagEvents \cap ParkingEvents = {}
  /\ {Nothing, "empty", "absent"} \cap (TagEvents \cup ParkingEvents) = {}
  /\ FlashMayFail \in BOOLEAN
  /\ MaxReboots \in Nat

Events == TagEvents \cup ParkingEvents

Writers == {"RemoveTagTask", "ParkingTask"}

EventsOf(w) == IF w = "ParkingTask" THEN ParkingEvents ELSE TagEvents

Files == 0 .. Cardinality(Events)

VARIABLES
  count,     \* countNumOfWritenFilesIntoASpiff
  file,      \* /storage/%d.bin: an event, "empty", or "absent"
  pc,        \* where each writer is
  held,      \* the event a writer has received
  name,      \* the number each writer, and the sender, has put in filePath
  loaded,    \* the counter as each task has loaded it for ++ or --
  spc,       \* where sendSavedTasks is
  record,    \* what it has read
  raised,    \* events not yet received by a writer
  live,      \* history: events handed to the connected client when they happened
  stored,    \* history: events written whole to a file
  replayed,  \* history: events handed to the connected client by sendSavedTasks
  counted,   \* history: how often a writer has incremented the counter since boot
  reboots    \* bound: power failures so far

vars == <<gateVars, count, file, pc, held, name, loaded, spc, record, raised,
          live, stored, replayed, counted, reboots>>

\* What no step of a writer, and what no step of the sender, changes.
writerKeeps == <<gateVars, spc, record, replayed, reboots>>
senderKeeps == <<gateVars, file, pc, held, raised, live, stored, counted, reboots>>

Tasks == Writers \cup {"sendSavedTasks"}

-----------------------------------------------------------------------------
Init ==
  /\ GateInit
  /\ count = 0
  /\ file = [n \in Files |-> "absent"]
  /\ pc = [w \in Writers |-> "receive"]
  /\ held = [w \in Writers |-> Nothing]
  /\ name = [t \in Tasks |-> 0]
  /\ loaded = [t \in Tasks |-> 0]
  /\ spc = "check" /\ record = Nothing
  /\ raised = Events
  /\ live = {} /\ stored = {} /\ replayed = {}
  /\ counted = 0
  /\ reboots = 0

WriterAt(w, from, to) == pc[w] = from /\ pc' = [pc EXCEPT ![w] = to]
SenderAt(from, to)    == spc = from /\ spc' = to

-----------------------------------------------------------------------------
(* RemoveTagTask and ParkingTask. *)

\* xQueueReceive, and the one test of the gate.
Receive(w) ==
  /\ pc[w] = "receive"
  /\ \E e \in EventsOf(w) \cap raised :
       /\ held' = [held EXCEPT ![w] = e]
       /\ raised' = raised \ {e}
  /\ pc' = [pc EXCEPT ![w] = IF gate THEN "publish" ELSE "name"]
  /\ UNCHANGED <<writerKeeps, count, file, name, loaded, live, stored, counted>>

\* Fault: the branch that stores follows the one that publishes.
PublishAndStore(w) ==
  /\ WriterAt(w, "publish", "name")
  /\ live' = IF link THEN live \cup {held[w]} ELSE live
  /\ UNCHANGED <<writerKeeps, count, file, held, name, loaded, raised, stored, counted>>

\* esp_mqtt_client_publish: accepted by a connected client, discarded otherwise.
Publish(w) ==
  /\ WriterAt(w, "publish", "receive")
  /\ live' = IF link THEN live \cup {held[w]} ELSE live
  /\ held' = [held EXCEPT ![w] = Nothing]
  /\ UNCHANGED <<writerKeeps, count, file, name, loaded, raised, stored, counted>>

\* sprintf(filePath, "/storage/%d.bin", countNumOfWritenFilesIntoASpiff).
NameFile(w) ==
  /\ WriterAt(w, "name", "open")
  /\ name' = [name EXCEPT ![w] = count]
  /\ UNCHANGED <<writerKeeps, count, file, held, loaded, raised, live, stored, counted>>

\* fopen(filePath, "wb+") creates or empties the file.  If it fails the record
\* is dropped with a log line.
OpenFile(w) ==
  /\ \/ /\ WriterAt(w, "open", "write")
        /\ file' = [file EXCEPT ![name[w]] = "empty"]
        /\ UNCHANGED held
     \/ /\ FlashMayFail /\ WriterAt(w, "open", "receive")
        /\ held' = [held EXCEPT ![w] = Nothing]
        /\ UNCHANGED file
  /\ UNCHANGED <<writerKeeps, count, name, loaded, raised, live, stored, counted>>

\* Three fwrite and the fclose that flushes them; their results are ignored.
WriteFile(w) ==
  /\ WriterAt(w, "write", "load")
  /\ \/ /\ file' = [file EXCEPT ![name[w]] = held[w]]
        /\ stored' = stored \cup {held[w]}
     \/ FlashMayFail /\ UNCHANGED <<file, stored>>
  /\ held' = [held EXCEPT ![w] = Nothing]
  /\ UNCHANGED <<writerKeeps, count, name, loaded, raised, live, counted>>

\* countNumOfWritenFilesIntoASpiff++ on a volatile: load ...
LoadCount(w) ==
  /\ WriterAt(w, "load", "store")
  /\ loaded' = [loaded EXCEPT ![w] = count]
  /\ UNCHANGED <<writerKeeps, count, file, held, name, raised, live, stored, counted>>

\* Fault: the file is counted twice.
StoreCountTwice(w) ==
  /\ WriterAt(w, "store", "receive")
  /\ count' = loaded[w] + 2
  /\ counted' = counted + 1
  /\ UNCHANGED <<writerKeeps, file, held, name, loaded, raised, live, stored>>

\* ... and store.
StoreCount(w) ==
  /\ WriterAt(w, "store", "receive")
  /\ count' = loaded[w] + 1
  /\ counted' = counted + 1
  /\ UNCHANGED <<writerKeeps, file, held, name, loaded, raised, live, stored>>

Write(w) ==
  \/ Receive(w)  \/ Publish(w)   \/ NameFile(w)  \/ OpenFile(w)
  \/ WriteFile(w) \/ LoadCount(w) \/ StoreCount(w)

-----------------------------------------------------------------------------
(* sendSavedTasks. *)

\* Fault: the loop is entered without looking at the counter.
SendCheckGateOnly ==
  /\ SenderAt("check", "open")
  /\ gate
  /\ name' = [name EXCEPT !["sendSavedTasks"] = count]
  /\ UNCHANGED <<senderKeeps, count, loaded, record, replayed>>

\* The condition of the inner loop, and sprintf of the counter's value.  (They read
\* the counter twice; in between it can only grow, so one read is as good.)
SendCheck ==
  /\ SenderAt("check", "open")
  /\ count > 0 /\ gate
  /\ name' = [name EXCEPT !["sendSavedTasks"] = count]
  /\ UNCHANGED <<senderKeeps, count, loaded, record, replayed>>

\* fopen(filePath, "rb").  A missing file is counted off like a sent one.
SendOpen ==
  /\ \/ SenderAt("open", "read") /\ file[name["sendSavedTasks"]] # "absent"
     \/ /\ SenderAt("open", "load")
        /\ FlashMayFail \/ file[name["sendSavedTasks"]] = "absent"
  /\ UNCHANGED <<senderKeeps, count, name, loaded, record, replayed>>

\* fread of the topic, the size and the record.
SendRead ==
  /\ SenderAt("read", "switch")
  /\ record' = file[name["sendSavedTasks"]]
  /\ UNCHANGED <<senderKeeps, count, name, loaded, replayed>>

\* switch(top).  A tag is published and a parking place takes the default branch
\* and is dropped; an uninitialised topic may take any branch, but no event is
\* published from it.  The message of a discarded publish is counted off too.
SendSwitch ==
  /\ SenderAt("switch", "load")
  /\ replayed' = IF record \in TagEvents /\ link THEN replayed \cup {record} ELSE replayed
  /\ record' = Nothing
  /\ UNCHANGED <<senderKeeps, count, name, loaded>>

\* countNumOfWritenFilesIntoASpiff--: load ...
SendLoadCount ==
  /\ SenderAt("load", "store")
  /\ loaded' = [loaded EXCEPT !["sendSavedTasks"] = count]
  /\ UNCHANGED <<senderKeeps, count, name, record, replayed>>

\* Fault: the counter is not counted down, so the same file is sent again.
SendStoreCountForgets ==
  /\ SenderAt("store", "check")
  /\ UNCHANGED <<senderKeeps, count, name, loaded, record, replayed>>

\* ... and store; then DELAY(100), or DELAY(10000) after a missing file.
SendStoreCount ==
  /\ SenderAt("store", "check")
  /\ count' = loaded["sendSavedTasks"] - 1
  /\ UNCHANGED <<senderKeeps, name, loaded, record, replayed>>

Send ==
  \/ SendCheck  \/ SendOpen \/ SendRead
  \/ SendSwitch \/ SendLoadCount \/ SendStoreCount

-----------------------------------------------------------------------------
\* The MQTT side, through what it promises.
Connection ==
  /\ GateNext
  /\ UNCHANGED <<count, file, pc, held, name, loaded, spc, record, raised, live, stored,
                 replayed, counted, reboots>>

\* A power failure or a reset: the globals are initialised again, what waits in
\* the queues is lost, the files stay.
Reboot ==
  /\ reboots < MaxReboots
  /\ reboots' = reboots + 1
  /\ link' = FALSE /\ gate' = FALSE
  /\ count' = 0 /\ counted' = 0
  /\ pc' = [w \in Writers |-> "receive"]
  /\ held' = [w \in Writers |-> Nothing]
  /\ name' = [t \in Tasks |-> 0]
  /\ loaded' = [t \in Tasks |-> 0]
  /\ spc' = "check" /\ record' = Nothing
  /\ \E kept \in SUBSET raised : raised' = kept
  /\ UNCHANGED <<file, live, stored, replayed>>

Next ==
  \/ \E w \in Writers : Write(w)
  \/ Send
  \/ Connection
  \/ Reboot

Spec == Init /\ [][Next]_vars

\* Every task is scheduled: the three block only in vTaskDelay and bounded queue
\* waits, and the ones at the lowest priority share it in time slices.
FairSpec == Spec /\ WF_vars(Send) /\ \A w \in Writers : WF_vars(Write(w))

-----------------------------------------------------------------------------
TypeOK ==
  /\ link \in BOOLEAN /\ gate \in BOOLEAN
  /\ count \in Files
  /\ file \in [Files -> Events \cup {"absent", "empty"}]
  /\ pc \in [Writers -> {"receive", "publish", "name", "open", "write", "load",
                         "store"}]
  /\ held \in [Writers -> Events \cup {Nothing}]
  /\ name \in [Tasks -> Files]
  /\ loaded \in [Tasks -> Files]
  /\ spc \in {"check", "open", "read", "switch", "load", "store"}
  /\ record \in Events \cup {"empty", Nothing}
  /\ raised \in SUBSET Events
  /\ live \in SUBSET Events /\ stored \in SUBSET Events /\ replayed \in SUBSET Events
  /\ counted \in Nat
  /\ reboots \in 0 .. MaxReboots

\* The unlocked counter loses increments and decrements, but it never goes
\* negative and never passes the number of files written since boot.
CountWithinWritten ==
  0 <= count /\ count <= counted

\* No event reaches the broker on two paths: one that was published when it
\* happened is never in a file, let alone sent again from one.
OnePath ==
  live \cap (stored \cup replayed) = {}

\* Whatever increments and decrements are lost, a gate that stays open lets
\* sendSavedTasks work the counter down to zero.
BacklogDrains == <>[]gate => <>[](count = 0)

-----------------------------------------------------------------------------
\* Long-term availability: when sendSavedTasks has worked through the backlog,
\* every record in flash has been sent.  (False: file 0 is never read, what a missing
\* file stands for is counted off, and parking records take the default branch.)
DrainedMeansSent ==
  (gate /\ count = 0 /\ spc = "check" /\ \A w \in Writers : pc[w] = "receive")
    => stored \subseteq replayed
=============================================================================
