---------------------------- MODULE UuidRegistry ----------------------------
(***************************************************************************)
(* The list of registered UUIDs: saved_uuids[] and num_reg_uuid, changed   *)
(* by the ADD_UUID and REMOVE_UUID branches of mqtt_event_handler_cb,      *)
(* saved to /storage/uuid.bin after each change, loaded by app_main, and   *)
(* scanned without a lock by the BLE callback (isUuidRegister) for every   *)
(* advertisement.                                                          *)
(*                                                                         *)
(* Each assignment to the shared array or count is a step, so is each      *)
(* comparison of the scan; 16 bytes are copied or compared in one step.    *)
(*                                                                         *)
(* The two branches read their payloads differently: ADD_UUID decodes the  *)
(* hexadecimal text of a UUID, REMOVE_UUID compares 16 bytes as they are.  *)
(***************************************************************************)
EXTENDS Integers, FiniteSets

CONSTANTS
  Uuids,         \* UUIDs that messages carry; none is the first 16 bytes of a text
  DefaultUuid,   \* temp[] of app_main
  Junk,          \* a slot that holds no UUID: zeros, or what follows temp[] in memory
  MAX_TAGS,      \* slots of saved_uuids[]                        (100 in tag.h)
  Advertised,    \* bound: UUIDs of the advertisements explored
  FlashMayFail,  \* external: fopen may return NULL, fwrite or fclose fail
  MaxBoots       \* bound: power failures

ASSUME UuidRegistryAssumption ==
  /\ DefaultUuid \in Uuids
  /\ Advertised \subseteq Uuids
  /\ Junk \notin Uuids
  /\ MAX_TAGS \in Nat \ {0}
  /\ FlashMayFail \in BOOLEAN
  /\ MaxBoots \in Nat

VARIABLES
  saved_uuids,   \* the array
  num_reg_uuid,  \* how many slots are in use
  flash,         \* uuid.bin: its count byte, and the slots that reached the flash
  hpc,           \* where the MQTT handler is
  harg,          \* the UUID it is adding
  hidx,          \* the slot it is working on
  scan,          \* the BLE callback's call of isUuidRegister
  asked,         \* history: the UUIDs that senders and restarts want registered
  honoured,      \* history: every message since the restart did what it was sent for
  calm,          \* history: no message was being handled during the scan
  dirty,         \* history: the last save failed
  boots          \* bound: power failures so far

vars == <<saved_uuids, num_reg_uuid, flash, hpc, harg, hidx, scan, asked, honoured,
          calm, dirty, boots>>

Slots  == 0 .. MAX_TAGS - 1
InUse  == 0 .. num_reg_uuid - 1
Registered == {saved_uuids[i] : i \in InUse}

NoFile == [num |-> -1, slots |-> <<>>]   \* absent, or emptied by fopen(.., "w")

-----------------------------------------------------------------------------
\* app_main: memcpy of 15 times the size of temp[] fills the slots after the
\* first with whatever follows it; then the file, if it holds anything, is read
\* over the count and over as many slots as it has.
BootSlots(f) ==
  [i \in Slots |-> IF i \in DOMAIN f.slots THEN f.slots[i]
                   ELSE IF i = 0 THEN DefaultUuid ELSE Junk]

BootCount(f) == IF f = NoFile THEN 1 ELSE f.num

Boot(f) ==
  /\ saved_uuids' = BootSlots(f)
  /\ num_reg_uuid' = BootCount(f)
  /\ asked' = {BootSlots(f)[i] : i \in 0 .. BootCount(f) - 1} /\ honoured' = TRUE
  /\ hpc' = "idle" /\ harg' = Junk /\ hidx' = 0
  /\ scan' = [pc |-> "idle", uuid |-> Junk, i |-> 0]
  /\ calm' = TRUE /\ dirty' = FALSE

Init ==
  /\ saved_uuids = BootSlots(NoFile)
  /\ num_reg_uuid = 1
  /\ flash = NoFile
  /\ hpc = "idle" /\ harg = Junk /\ hidx = 0
  /\ scan = [pc |-> "idle", uuid |-> Junk, i |-> 0]
  /\ asked = {DefaultUuid} /\ honoured = TRUE
  /\ calm = TRUE /\ dirty = FALSE
  /\ boots = 0

\* What reaches the flash of a file being written when the power fails or the flash
\* is full: nothing, or the count and some leading slots.
Torn ==
  IF hpc = "write"
  THEN {NoFile} \cup {[num |-> num_reg_uuid, slots |-> [i \in 0 .. k - 1 |-> saved_uuids[i]]]
                      : k \in 0 .. MAX_TAGS}
  ELSE {flash}

PowerCycle ==
  /\ boots < MaxBoots
  /\ boots' = boots + 1
  /\ \E f \in Torn : flash' = f /\ Boot(f)

-----------------------------------------------------------------------------
(* The MQTT handler. *)

\* What is sent: the text of a UUID, or its bytes.
Payloads == [form : {"text", "bytes"}, uuid : Uuids]

\* ADD_UUID reads 47 characters, three a byte, whatever data_len is.  Of 16 bytes, and
\* what lies behind them on the stack, ahex2int makes any value.
Decoded(p) == IF p.form = "text" THEN {p.uuid} ELSE Uuids

\* REMOVE_UUID compares the first 16 bytes of the payload, whatever they are.
Matches(p, i) == p.form = "bytes" /\ saved_uuids[i] = p.uuid

\* History: what the sender wants, and whether the message has that effect.
Wanted(uuids, done) ==
  /\ honoured' = (honoured /\ done)
  /\ asked' = IF honoured' THEN uuids ELSE {}

\* The duplicate check runs to num_reg_uuid + 1: it also compares the slot after
\* the last one in use.  (Fault: it stops one slot short.)
ListedShort(u) == \E i \in 0 .. num_reg_uuid - 2 : saved_uuids[i] = u
Listed(u) == \E i \in 0 .. num_reg_uuid : i \in Slots /\ saved_uuids[i] = u

\* (Fault: one slot too many.)
RoomLate == num_reg_uuid <= MAX_TAGS
Room == num_reg_uuid < MAX_TAGS

\* ADD_UUID: memcpy(saved_uuids[num_reg_uuid++], ...) increments the count before
\* it copies.
AddUuid(p) ==
  /\ hpc = "idle"
  /\ \E u \in Decoded(p) :
       /\ Room /\ ~Listed(u)
       /\ harg' = u
       /\ Wanted(asked \cup {p.uuid}, u = p.uuid)
  /\ hidx' = num_reg_uuid
  /\ num_reg_uuid' = num_reg_uuid + 1
  /\ hpc' = "copy"
  /\ UNCHANGED <<saved_uuids, flash, scan, dirty, boots>>

AddCopy ==
  /\ hpc = "copy"
  /\ saved_uuids' = [saved_uuids EXCEPT ![hidx] = harg]
  /\ hpc' = "open" /\ harg' = Junk /\ hidx' = 0
  /\ UNCHANGED <<num_reg_uuid, flash, scan, asked, honoured, dirty, boots>>

\* An ADD_UUID whose UUID is listed already, or finds no room, changes nothing.
AddRefused(p) ==
  /\ hpc = "idle"
  /\ \E u \in Decoded(p) : ~Room \/ Listed(u)
  /\ Wanted(asked, p.uuid \in asked)
  /\ UNCHANGED <<saved_uuids, num_reg_uuid, flash, hpc, harg, hidx, scan, calm, dirty, boots>>

\* Fault: the shift starts one slot after the UUID that was found.
RemoveUuidNext(p) ==
  /\ hpc = "idle"
  /\ \E i \in InUse :
       /\ Matches(p, i)
       /\ \A j \in InUse : Matches(p, j) => i <= j
       /\ hidx' = i + 1
  /\ hpc' = "shift"
  /\ Wanted(asked \ {p.uuid}, TRUE)
  /\ UNCHANGED <<saved_uuids, num_reg_uuid, flash, harg, scan, dirty, boots>>

\* REMOVE_UUID finds its UUID ...
RemoveUuid(p) ==
  /\ hpc = "idle"
  /\ \E i \in InUse :
       /\ Matches(p, i)
       /\ \A j \in InUse : Matches(p, j) => i <= j
       /\ hidx' = i
  /\ hpc' = "shift"
  /\ Wanted(asked \ {p.uuid}, TRUE)
  /\ UNCHANGED <<saved_uuids, num_reg_uuid, flash, harg, scan, dirty, boots>>

\* ... or does not, and changes nothing.
RemoveNothing(p) ==
  /\ hpc = "idle"
  /\ \A i \in InUse : ~Matches(p, i)
  /\ Wanted(asked \ {p.uuid}, p.form = "bytes" \/ p.uuid \notin asked)
  /\ UNCHANGED <<saved_uuids, num_reg_uuid, flash, hpc, harg, hidx, scan, calm, dirty, boots>>

\* The later ones move down, one memcpy at a time ...
ShiftSlot ==
  /\ hpc = "shift"
  /\ hidx < num_reg_uuid - 1
  /\ saved_uuids' = [saved_uuids EXCEPT ![hidx] = saved_uuids[hidx + 1]]
  /\ hidx' = hidx + 1
  /\ UNCHANGED <<num_reg_uuid, flash, hpc, harg, scan, asked, honoured, dirty, boots>>

\* Fault: the registry is not saved after a removal.
RemoveCountSaveless ==
  /\ hpc = "shift"
  /\ hidx >= num_reg_uuid - 1
  /\ num_reg_uuid' = num_reg_uuid - 1
  /\ hpc' = "idle" /\ hidx' = 0
  /\ UNCHANGED <<saved_uuids, flash, harg, scan, asked, honoured, dirty, boots>>

\* ... and then counts one less.
RemoveCount ==
  /\ hpc = "shift"
  /\ hidx >= num_reg_uuid - 1
  /\ num_reg_uuid' = num_reg_uuid - 1
  /\ hpc' = "open" /\ hidx' = 0
  /\ UNCHANGED <<saved_uuids, flash, harg, scan, asked, honoured, dirty, boots>>

\* fopen("/storage/uuid.bin", "w") empties the file; if it fails nothing is saved.
OpenRegistry ==
  /\ hpc = "open"
  /\ \/ flash' = NoFile /\ hpc' = "write" /\ UNCHANGED dirty
     \/ FlashMayFail /\ dirty' = TRUE /\ hpc' = "idle" /\ UNCHANGED flash
  /\ UNCHANGED <<saved_uuids, num_reg_uuid, harg, hidx, scan, asked, honoured, boots>>

\* fwrite of the count and of the whole array, fclose: none of their results is looked
\* at, and on a full flash only part of the file is there.
WriteRegistry ==
  /\ hpc = "write"
  /\ \/ flash' = [num |-> num_reg_uuid, slots |-> saved_uuids] /\ dirty' = FALSE
     \/ FlashMayFail /\ flash' \in Torn /\ dirty' = TRUE
  /\ hpc' = "idle"
  /\ UNCHANGED <<saved_uuids, num_reg_uuid, harg, hidx, scan, asked, honoured, boots>>

Handler ==
  \/ \E p \in Payloads : AddUuid(p) \/ RemoveUuid(p)
  \/ AddCopy
  \/ ShiftSlot
  \/ RemoveCount
  \/ OpenRegistry
  \/ WriteRegistry

-----------------------------------------------------------------------------
(* The BLE callback. *)

ScanStart(u) ==
  /\ scan.pc = "idle"
  /\ scan' = [pc |-> "scan", uuid |-> u, i |-> 0]
  /\ UNCHANGED <<saved_uuids, num_reg_uuid, flash, hpc, harg, hidx, asked, honoured,
                 dirty, boots>>

\* Fault: the scan starts over its first comparison.
ScanStepSkips ==
  /\ scan.pc = "scan"
  /\ scan' = IF scan.i + 1 < num_reg_uuid
             THEN IF saved_uuids[scan.i + 1] = scan.uuid
                  THEN [scan EXCEPT !.pc = "accepted"]
                  ELSE [scan EXCEPT !.i = @ + 1]
             ELSE [scan EXCEPT !.pc = "rejected"]
  /\ UNCHANGED <<saved_uuids, num_reg_uuid, flash, hpc, harg, hidx, asked, honoured,
                 dirty, boots>>

\* One iteration of isUuidRegister: the count is read again each time.
ScanStep ==
  /\ scan.pc = "scan"
  /\ scan' = IF scan.i < num_reg_uuid
             THEN IF saved_uuids[scan.i] = scan.uuid
                  THEN [scan EXCEPT !.pc = "accepted"]
                  ELSE [scan EXCEPT !.i = @ + 1]
             ELSE [scan EXCEPT !.pc = "rejected"]
  /\ UNCHANGED <<saved_uuids, num_reg_uuid, flash, hpc, harg, hidx, asked, honoured,
                 dirty, boots>>

ScanReturn ==
  /\ scan.pc \in {"accepted", "rejected"}
  /\ scan' = [pc |-> "idle", uuid |-> Junk, i |-> 0]
  /\ UNCHANGED <<saved_uuids, num_reg_uuid, flash, hpc, harg, hidx, asked, honoured,
                 dirty, boots>>

\* History of the scan under way.
Witness ==
  calm' = IF scan'.pc = "idle" THEN TRUE ELSE calm /\ hpc' = "idle"

Next ==
  \/ Handler /\ Witness
  \/ \E p \in Payloads : AddRefused(p) \/ RemoveNothing(p)
  \/ (\E u \in Advertised : ScanStart(u)) /\ Witness
  \/ ScanStep /\ Witness
  \/ ScanReturn /\ Witness
  \/ PowerCycle

Spec == Init /\ [][Next]_vars

-----------------------------------------------------------------------------
TypeOK ==
  /\ saved_uuids \in [Slots -> Uuids \cup {Junk}]
  /\ num_reg_uuid \in 0 .. MAX_TAGS
  /\ flash.num \in -1 .. MAX_TAGS
  /\ hpc \in {"idle", "copy", "shift", "open", "write"}
  /\ harg \in Uuids \cup {Junk}
  /\ hidx \in 0 .. MAX_TAGS
  /\ scan \in [pc : {"idle", "scan", "accepted", "rejected"}, uuid : Uuids \cup {Junk},
               i : 0 .. MAX_TAGS]
  /\ asked \in SUBSET (Uuids \cup {Junk}) /\ honoured \in BOOLEAN
  /\ calm \in BOOLEAN /\ dirty \in BOOLEAN
  /\ boots \in 0 .. MaxBoots

\* Between two messages no UUID is listed twice, also after a restart from a file
\* that was cut off while it was written.
NoDuplicateUuid ==
  hpc = "idle" => \A i, j \in InUse :
                    saved_uuids[i] = saved_uuids[j] /\ saved_uuids[i] # Junk => i = j

\* Between two messages the slots in use hold what the senders asked for, as long as
\* no message failed them.  Those that do: a removal sent as text, which finds nothing;
\* an addition sent as bytes, which adds another value; and a refused addition.
ListIsAsked == hpc = "idle" /\ honoured => Registered = asked

\* A power failure while no change is being saved loses nothing, if the last save
\* went well: the restarted gateway accepts the same UUIDs, including the removals.
RegistrySurvives ==
  [][boots' # boots /\ hpc = "idle" /\ ~dirty => Registered' = Registered]_vars

\* A scan that no message interferes with accepts exactly the registered UUIDs.
ScanIsExact ==
  scan.pc \in {"accepted", "rejected"} /\ calm
    => (scan.pc = "accepted" <=> scan.uuid \in Registered)

-----------------------------------------------------------------------------
\* ADD_UUID extends the allowed list: a UUID that is not registered is not refused
\* while there is room.  (False: the check also meets the slot behind the last one in
\* use, where a removal leaves what stood in the last slot before it.)
AddAccepted ==
  hpc = "idle" /\ Room => \A u \in Uuids : Listed(u) => u \in Registered
=============================================================================
