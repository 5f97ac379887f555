------------------------- MODULE UuidRegistryProofs -------------------------
(***************************************************************************)
(* The invariants of UuidRegistry and RegistrySurvives, for any array      *)
(* length, any UUIDs and any number of power failures.                     *)
(*                                                                         *)
(* NoDuplicateUuid and ListIsAsked speak   of the array between two        *)
(* messages.  In the middle of one the array has a hole, the slot that     *)
(* AddCopy has yet to fill or the one that the shift has freed, and around *)
(* it the same holds: Listing leaves the hole out.  What a restart finds   *)
(* is FileIsList: whatever part of a save reached the flash, the array     *)
(* that app_main makes of it is free of duplicates.                        *)
(***************************************************************************)
EXTENDS UuidRegistry, TLAPS

Values == Uuids \cup {Junk}

Distinct(a, S) == \A i, j \in S : a[i] = a[j] /\ a[i] # Junk => i = j

InMidChange == hpc \in {"copy", "shift"}

Listing == IF InMidChange THEN InUse \ {hidx} ELSE InUse

\* Around the hole, the array lists what the senders asked for.
ListIsSound ==
  /\ Distinct(saved_uuids, Listing)
  /\ honoured => asked = {saved_uuids[i] : i \in Listing} \cup (IF hpc = "copy" THEN {harg} ELSE {})
  /\ InMidChange => hidx \in InUse
  /\ hpc = "copy" => /\ harg \in Uuids /\ hidx = num_reg_uuid - 1
                     /\ \A i \in Listing : saved_uuids[i] # harg

\* What app_main makes of a file is a list.
FileIsList(f) ==
  /\ f.num \in -1 .. MAX_TAGS
  /\ BootCount(f) \in 0 .. MAX_TAGS
  /\ BootSlots(f) \in [Slots -> Values]
  /\ Distinct(BootSlots(f), 0 .. BootCount(f) - 1)

Booted(f) == {BootSlots(f)[i] : i \in 0 .. BootCount(f) - 1}

SavedIsListed == hpc = "idle" /\ ~dirty => Registered = Booted(flash)

\* A scan that is calm has passed no slot that holds its UUID.
ScanIsSound ==
  /\ scan.pc = "idle" => calm
  /\ scan.pc # "idle" /\ calm => hpc = "idle"
  /\ scan.pc = "scan" /\ calm => \A i \in 0 .. scan.i - 1 : saved_uuids[i] # scan.uuid

IInv ==
  /\ TypeOK
  /\ ListIsSound
  /\ FileIsList(flash) /\ SavedIsListed
  /\ ScanIsSound /\ ScanIsExact

-----------------------------------------------------------------------------
(* Restarts. *)

LEMMA NoFileIsList == FileIsList(NoFile)
BY UuidRegistryAssumption
DEF FileIsList, NoFile, BootCount, BootSlots, Values, Distinct, Slots

\* app_main turns a file into a list that agrees with asked, with no scan under way.
LEMMA BootInv ==
  ASSUME NEW f, FileIsList(f), flash' = f, Boot(f), boots' \in 0 .. MaxBoots
  PROVE  IInv'
<1>1. /\ num_reg_uuid' = BootCount(f) /\ saved_uuids' = BootSlots(f)
      /\ asked' = Booted(f)
      /\ hpc' = "idle" /\ harg' = Junk /\ hidx' = 0
      /\ scan' = [pc |-> "idle", uuid |-> Junk, i |-> 0]
  BY DEF Boot, Booted
<1>2. calm' \in BOOLEAN /\ dirty' \in BOOLEAN /\ honoured' \in BOOLEAN /\ calm'
  BY Zenon DEF Boot
<1>3. asked' \in SUBSET Values
  <2>1. \A i \in 0 .. BootCount(f) - 1 : i \in Slots
    BY UuidRegistryAssumption DEF FileIsList, Slots
  <2> QED
    BY <1>1, <2>1 DEF FileIsList, Booted
<1>4. scan' \in [pc : {"idle", "scan", "accepted", "rejected"}, uuid : Values, i : 0 .. MAX_TAGS]
  BY <1>1, UuidRegistryAssumption DEF Values
<1>5. TypeOK'
  BY <1>1, <1>2, <1>3, <1>4, UuidRegistryAssumption DEF TypeOK, FileIsList, Values
<1>6. ListIsSound'
  BY <1>1 DEF ListIsSound, FileIsList, Booted, Listing, InUse, InMidChange, Distinct
<1>7. FileIsList(flash)' /\ SavedIsListed'
  BY <1>1 DEF SavedIsListed, FileIsList, BootCount, BootSlots, Distinct, Booted, Registered, InUse
<1>8. ScanIsSound' /\ ScanIsExact'
  BY <1>1, <1>2 DEF ScanIsSound, ScanIsExact
<1> QED
  BY <1>5, <1>6, <1>7, <1>8 DEF IInv

\* What reached the flash of a save that the power cut off is still a list.
LEMMA TornIsList ==
  ASSUME IInv, NEW f \in Torn PROVE FileIsList(f)
<1>1. CASE hpc # "write"
  BY <1>1 DEF Torn, IInv
<1>2. CASE f = NoFile
  BY <1>2, NoFileIsList
<1>3. CASE hpc = "write" /\ f # NoFile
  <2>1. PICK k \in 0 .. MAX_TAGS :
          f = [num |-> num_reg_uuid, slots |-> [i \in 0 .. k - 1 |-> saved_uuids[i]]]
    BY <1>3 DEF Torn
  <2>2. /\ num_reg_uuid \in 0 .. MAX_TAGS /\ MAX_TAGS \in Nat \ {0}
        /\ saved_uuids \in [Slots -> Values]
        /\ Distinct(saved_uuids, InUse)
    BY <1>3, UuidRegistryAssumption
    DEF IInv, TypeOK, Values, ListIsSound, Listing, InMidChange
  <2>3. BootCount(f) = num_reg_uuid /\ f.num = num_reg_uuid
    BY <1>3, <2>1 DEF BootCount
  <2>4. \A i \in Slots : BootSlots(f)[i] = IF i < k THEN saved_uuids[i]
                                           ELSE IF i = 0 THEN DefaultUuid ELSE Junk
    BY <2>1 DEF BootSlots, Slots
  <2>5. BootSlots(f) \in [Slots -> Values]
    <3>1. BootSlots(f) = [i \in Slots |-> BootSlots(f)[i]]
      BY DEF BootSlots
    <3>2. \A i \in Slots : BootSlots(f)[i] \in Values
      BY <2>2, <2>4, UuidRegistryAssumption DEF Values
    <3> QED
      BY <3>1, <3>2
  <2>6. Distinct(BootSlots(f), 0 .. BootCount(f) - 1)
    <3> SUFFICES ASSUME NEW i \in InUse, NEW j \in InUse,
                        BootSlots(f)[i] = BootSlots(f)[j], BootSlots(f)[i] # Junk
                 PROVE  i = j
      BY <2>3 DEF Distinct, InUse
    <3>1. i \in Slots /\ j \in Slots
      BY <2>2 DEF InUse, Slots
    <3>2. (i < k \/ i = 0) /\ (j < k \/ j = 0)
      BY <2>4, <3>1
    <3>3. CASE k = 0
      BY <3>1, <3>2, <3>3 DEF Slots
    <3>4. CASE k > 0
      <4>1. i < k /\ j < k
        BY <3>2, <3>4
      <4>2. saved_uuids[i] = saved_uuids[j] /\ saved_uuids[i] # Junk
        BY <2>4, <3>1, <4>1
      <4> QED
        BY <2>2, <4>2 DEF Distinct
    <3> QED
      BY <2>1, <3>3, <3>4
  <2> QED
    BY <2>2, <2>3, <2>5, <2>6 DEF FileIsList
<1> QED
  BY <1>1, <1>2, <1>3

LEMMA InitInv == Init => IInv
<1> SUFFICES ASSUME Init PROVE IInv
  OBVIOUS
<1>1. /\ num_reg_uuid = 1 /\ saved_uuids = BootSlots(NoFile) /\ flash = NoFile
      /\ hpc = "idle" /\ harg = Junk /\ hidx = 0
      /\ scan = [pc |-> "idle", uuid |-> Junk, i |-> 0]
      /\ BootCount(NoFile) = 1
  BY DEF Init, BootCount
<1>2. calm \in BOOLEAN /\ dirty \in BOOLEAN /\ honoured \in BOOLEAN /\ calm
  BY Zenon DEF Init
<1>3. Booted(NoFile) = {DefaultUuid} /\ asked = {DefaultUuid}
  BY UuidRegistryAssumption DEF Booted, BootCount, BootSlots, NoFile, Slots, Init
<1>4. scan \in [pc : {"idle", "scan", "accepted", "rejected"}, uuid : Values, i : 0 .. MAX_TAGS]
  BY <1>1, UuidRegistryAssumption DEF Values
<1>5. TypeOK
  BY <1>1, <1>2, <1>3, <1>4, NoFileIsList, UuidRegistryAssumption
  DEF TypeOK, FileIsList, Values, Init
<1>6. ListIsSound
  BY <1>1, <1>3, NoFileIsList
  DEF ListIsSound, FileIsList, Booted, Listing, InUse, InMidChange
<1>7. FileIsList(flash) /\ SavedIsListed
  BY <1>1, <1>3, NoFileIsList DEF SavedIsListed, Registered, InUse, Booted
<1>8. ScanIsSound /\ ScanIsExact
  BY <1>1, <1>2 DEF ScanIsSound, ScanIsExact
<1> QED
  BY <1>5, <1>6, <1>7, <1>8 DEF IInv

-----------------------------------------------------------------------------
(* The MQTT handler. *)

\* What the handler's steps need of the state before them.
LEMMA HandlerFacts ==
  ASSUME IInv
  PROVE  /\ MAX_TAGS \in Nat \ {0} /\ num_reg_uuid \in 0 .. MAX_TAGS
         /\ InUse \subseteq Slots /\ Junk \notin Uuids
         /\ saved_uuids \in [Slots -> Values]
         /\ harg \in Values /\ hidx \in 0 .. MAX_TAGS /\ asked \in SUBSET Values
         /\ honoured \in BOOLEAN
BY UuidRegistryAssumption DEF IInv, TypeOK, Values, InUse, Slots

LEMMA AddUuidList ==
  ASSUME IInv, NEW p \in Payloads, AddUuid(p) PROVE ListIsSound'
<1>1. PICK u \in Decoded(p) : /\ Room /\ ~Listed(u) /\ harg' = u
                              /\ Wanted(asked \cup {p.uuid}, u = p.uuid)
  BY DEF AddUuid
<1>2. /\ hpc = "idle" /\ hpc' = "copy" /\ hidx' = num_reg_uuid
      /\ num_reg_uuid' = num_reg_uuid + 1 /\ num_reg_uuid < MAX_TAGS
      /\ saved_uuids' = saved_uuids /\ u \in Uuids
  BY <1>1 DEF AddUuid, Room, Decoded, Payloads
<1>3. honoured' => honoured /\ asked' = asked \cup {u}
  BY <1>1 DEF Wanted
<1>4. \A i \in InUse : saved_uuids[i] # u
  BY <1>1, HandlerFacts DEF Listed, InUse, Slots
<1>5. /\ Distinct(saved_uuids, InUse)
      /\ honoured => asked = {saved_uuids[i] : i \in InUse}
  BY <1>2 DEF IInv, ListIsSound, Listing, InMidChange
<1>6. Listing' = InUse /\ InMidChange' /\ hidx' \in InUse'
  BY <1>2, HandlerFacts DEF Listing, InMidChange, InUse
<1>7. Distinct(saved_uuids, Listing)'
  BY <1>2, <1>5, <1>6 DEF Distinct
<1>8. honoured' => asked' = {saved_uuids'[i] : i \in Listing'} \cup {harg'}
  BY <1>1, <1>2, <1>3, <1>5, <1>6
<1>9. hidx' = num_reg_uuid' - 1 /\ \A i \in Listing' : saved_uuids'[i] # harg'
  BY <1>1, <1>2, <1>4, <1>6, HandlerFacts
<1> QED
  BY <1>1, <1>2, <1>6, <1>7, <1>8, <1>9 DEF ListIsSound

LEMMA AddCopyList ==
  ASSUME IInv, AddCopy PROVE ListIsSound'
<1>1. /\ hpc = "copy" /\ hpc' = "open"
      /\ num_reg_uuid' = num_reg_uuid /\ asked' = asked /\ honoured' = honoured
      /\ saved_uuids' = [saved_uuids EXCEPT ![hidx] = harg]
  BY DEF AddCopy
<1>2. /\ Distinct(saved_uuids, InUse \ {hidx})
      /\ honoured => asked = {saved_uuids[i] : i \in InUse \ {hidx}} \cup {harg}
      /\ harg \in Uuids /\ hidx \in InUse
      /\ \A i \in InUse \ {hidx} : saved_uuids[i] # harg
  BY <1>1 DEF IInv, ListIsSound, Listing, InMidChange
<1>3. /\ saved_uuids'[hidx] = harg
      /\ \A i \in InUse \ {hidx} : saved_uuids'[i] = saved_uuids[i]
  BY <1>1, <1>2, HandlerFacts
<1>4. Listing' = InUse /\ ~InMidChange'
  BY <1>1 DEF Listing, InMidChange, InUse
<1>5. honoured => {saved_uuids'[i] : i \in InUse} = asked
  BY <1>2, <1>3
<1>6. Distinct(saved_uuids', InUse)
  BY <1>2, <1>3 DEF Distinct
<1> QED
  BY <1>1, <1>4, <1>5, <1>6 DEF ListIsSound, Distinct, InMidChange

LEMMA RemoveUuidList ==
  ASSUME IInv, NEW p \in Payloads, RemoveUuid(p) PROVE ListIsSound'
<1>1. /\ hpc = "idle" /\ hpc' = "shift"
      /\ UNCHANGED <<num_reg_uuid, saved_uuids>> /\ p.uuid \in Uuids
  BY DEF RemoveUuid, Payloads
<1>2. hidx' \in InUse /\ saved_uuids[hidx'] = p.uuid
  BY DEF RemoveUuid, Matches
<1>3. honoured' => honoured /\ asked' = asked \ {p.uuid}
  BY DEF RemoveUuid, Wanted
<1>4. /\ Distinct(saved_uuids, InUse)
      /\ honoured => asked = {saved_uuids[i] : i \in InUse}
  BY <1>1 DEF IInv, ListIsSound, Listing, InMidChange
<1>5. Listing' = InUse \ {hidx'} /\ InMidChange' /\ InUse' = InUse
  BY <1>1 DEF Listing, InMidChange, InUse
<1>6. \A i \in InUse : saved_uuids[i] = p.uuid => i = hidx'
  BY <1>1, <1>2, <1>4, HandlerFacts DEF Distinct
<1>7. honoured' => asked' = {saved_uuids'[i] : i \in Listing'}
  BY <1>1, <1>2, <1>3, <1>4, <1>5, <1>6
<1>8. Distinct(saved_uuids, Listing)'
  BY <1>1, <1>4, <1>5 DEF Distinct
<1> QED
  BY <1>1, <1>2, <1>5, <1>7, <1>8 DEF ListIsSound

\* Moving a UUID down moves the hole up.
LEMMA ShiftSlotList ==
  ASSUME IInv, ShiftSlot PROVE ListIsSound'
<1>1. /\ hpc = "shift" /\ hidx < num_reg_uuid - 1 /\ hidx' = hidx + 1
      /\ saved_uuids' = [saved_uuids EXCEPT ![hidx] = saved_uuids[hidx + 1]]
      /\ UNCHANGED <<num_reg_uuid, hpc, asked, honoured>>
  BY DEF ShiftSlot
<1>2. /\ Distinct(saved_uuids, InUse \ {hidx})
      /\ honoured => asked = {saved_uuids[i] : i \in InUse \ {hidx}}
      /\ hidx \in InUse
  BY <1>1 DEF IInv, ListIsSound, Listing, InMidChange
<1>3. hidx + 1 \in InUse /\ hidx + 1 # hidx
  BY <1>1, <1>2, HandlerFacts DEF InUse
<1>4. /\ saved_uuids'[hidx] = saved_uuids[hidx + 1]
      /\ \A i \in InUse \ {hidx} : saved_uuids'[i] = saved_uuids[i]
  BY <1>1, <1>2, HandlerFacts
<1>5. Listing' = InUse \ {hidx + 1} /\ InMidChange' /\ InUse' = InUse
  BY <1>1 DEF Listing, InMidChange, InUse
<1>6. {saved_uuids'[i] : i \in InUse \ {hidx + 1}} = {saved_uuids[i] : i \in InUse \ {hidx}}
  <2>1. \A i \in InUse \ {hidx + 1} :
          \E j \in InUse \ {hidx} : saved_uuids'[i] = saved_uuids[j]
    BY <1>3, <1>4
  <2>2. \A j \in InUse \ {hidx} :
          \E i \in InUse \ {hidx + 1} : saved_uuids'[i] = saved_uuids[j]
    BY <1>2, <1>3, <1>4
  <2> QED
    BY <2>1, <2>2
<1>7. Distinct(saved_uuids', InUse \ {hidx + 1})
  BY <1>2, <1>3, <1>4 DEF Distinct
<1> QED
  BY <1>1, <1>2, <1>3, <1>5, <1>6, <1>7 DEF ListIsSound, Distinct

\* When the hole is the last slot, it is given up.
LEMMA RemoveCountList ==
  ASSUME IInv, RemoveCount PROVE ListIsSound'
<1>1. /\ hpc = "shift" /\ hidx >= num_reg_uuid - 1 /\ hpc' = "open"
      /\ num_reg_uuid' = num_reg_uuid - 1
      /\ UNCHANGED <<saved_uuids, asked, honoured>>
  BY DEF RemoveCount
<1>2. /\ Distinct(saved_uuids, InUse \ {hidx})
      /\ honoured => asked = {saved_uuids[i] : i \in InUse \ {hidx}}
      /\ hidx \in InUse
  BY <1>1 DEF IInv, ListIsSound, Listing, InMidChange
<1>3. Listing' = InUse \ {hidx} /\ ~InMidChange'
  BY <1>1, <1>2, HandlerFacts DEF Listing, InMidChange, InUse
<1> QED
  BY <1>1, <1>2, <1>3 DEF ListIsSound, Distinct, InMidChange

\* Saving does not touch the list.
LEMMA SaveList ==
  ASSUME IInv, hpc \in {"open", "write"}, hpc' \in {"write", "idle"},
         UNCHANGED <<saved_uuids, num_reg_uuid, asked, honoured>>
  PROVE  ListIsSound'
<1>1. Listing' = InUse /\ Listing = InUse /\ ~InMidChange /\ ~InMidChange'
  BY DEF Listing, InMidChange, InUse
<1> QED
  BY <1>1 DEF IInv, ListIsSound, Distinct, InMidChange

\* The types of what the handler changes.
HandlerTypes ==
  /\ saved_uuids \in [Slots -> Values]
  /\ num_reg_uuid \in 0 .. MAX_TAGS
  /\ hpc \in {"idle", "copy", "shift", "open", "write"}
  /\ harg \in Values
  /\ hidx \in 0 .. MAX_TAGS
  /\ asked \in SUBSET Values
  /\ honoured \in BOOLEAN
  /\ dirty \in BOOLEAN

LEMMA WantedTypes ==
  ASSUME NEW uuids \in SUBSET Values, NEW done \in BOOLEAN, honoured \in BOOLEAN,
         Wanted(uuids, done)
  PROVE  asked' \in SUBSET Values /\ honoured' \in BOOLEAN
BY DEF Wanted

LEMMA HandlerKeepsTypes ==
  ASSUME IInv, Handler PROVE HandlerTypes'
<1>1. HandlerTypes /\ MAX_TAGS \in Nat \ {0} /\ Junk \in Values /\ Uuids \subseteq Values
  BY UuidRegistryAssumption DEF IInv, TypeOK, HandlerTypes, Values
<1> USE DEF HandlerTypes
<1>2. ASSUME NEW p \in Payloads, AddUuid(p) PROVE HandlerTypes'
  <2>1. PICK u \in Decoded(p) : harg' = u /\ Wanted(asked \cup {p.uuid}, u = p.uuid)
    BY <1>2 DEF AddUuid
  <2>2. u \in Values /\ p.uuid \in Values
    BY <1>1 DEF Decoded, Payloads
  <2>3. asked' \in SUBSET Values /\ honoured' \in BOOLEAN
    BY <1>1, <2>1, <2>2, WantedTypes
  <2>4. hidx' \in 0 .. MAX_TAGS /\ num_reg_uuid' \in 0 .. MAX_TAGS /\ hpc' = "copy"
    BY <1>1, <1>2 DEF AddUuid, Room
  <2>5. dirty' \in BOOLEAN /\ saved_uuids' = saved_uuids
    BY <1>1, <1>2 DEF AddUuid
  <2> QED
    BY <1>1, <2>1, <2>2, <2>3, <2>4, <2>5
<1>3. ASSUME NEW p \in Payloads, RemoveUuid(p) PROVE HandlerTypes'
  <2>1. hidx' \in InUse
    BY <1>3 DEF RemoveUuid
  <2>2. asked' \in SUBSET Values /\ honoured' \in BOOLEAN
    BY <1>1, <1>3, WantedTypes DEF RemoveUuid
  <2> QED
    BY <1>1, <1>3, <2>1, <2>2 DEF RemoveUuid, InUse
<1>4. CASE AddCopy
  <2>1. saved_uuids' \in [Slots -> Values]
    BY <1>1, <1>4 DEF AddCopy
  <2> QED
    BY <1>1, <1>4, <2>1 DEF AddCopy
<1>5. CASE ShiftSlot
  <2>1. saved_uuids[hidx + 1] \in Values
    BY <1>1, <1>5 DEF ShiftSlot, Slots
  <2>2. saved_uuids' \in [Slots -> Values]
    BY <1>1, <1>5, <2>1 DEF ShiftSlot
  <2>3. hidx' \in 0 .. MAX_TAGS
    BY <1>1, <1>5 DEF ShiftSlot
  <2> QED
    BY <1>1, <1>5, <2>2, <2>3 DEF ShiftSlot
<1>6. CASE RemoveCount
  <2>1. num_reg_uuid' \in 0 .. MAX_TAGS
    BY <1>1, <1>6 DEF RemoveCount, IInv, ListIsSound, InMidChange, InUse
  <2> QED
    BY <1>1, <1>6, <2>1 DEF RemoveCount
<1>7. CASE OpenRegistry
  <2>1. dirty' \in BOOLEAN
    BY <1>1, <1>7, Zenon DEF OpenRegistry
  <2> QED
    BY <1>1, <1>7, <2>1 DEF OpenRegistry
<1>8. CASE WriteRegistry
  <2>1. dirty' \in BOOLEAN
    BY <1>8, Zenon DEF WriteRegistry
  <2> QED
    BY <1>1, <1>8, <2>1 DEF WriteRegistry
<1> QED
  BY <1>2, <1>3, <1>4, <1>5, <1>6, <1>7, <1>8 DEF Handler

LEMMA HandlerKeepsList ==
  ASSUME IInv, Handler PROVE ListIsSound'
<1>1. CASE OpenRegistry
  BY <1>1, SaveList DEF OpenRegistry
<1>2. CASE WriteRegistry
  BY <1>2, SaveList DEF WriteRegistry
<1> QED
  BY <1>1, <1>2, AddUuidList, AddCopyList, RemoveUuidList, ShiftSlotList, RemoveCountList
  DEF Handler

\* A save puts the list into the file; every other step of the handler leaves the file,
\* or empties it, and is not the last one of a message unless the save failed.
LEMMA HandlerKeepsFile ==
  ASSUME IInv, Handler PROVE FileIsList(flash)' /\ SavedIsListed'
<1>1. CASE WriteRegistry
  <2>1. /\ hpc = "write" /\ UNCHANGED <<num_reg_uuid, saved_uuids>>
        /\ \/ flash' = [num |-> num_reg_uuid, slots |-> saved_uuids]
           \/ flash' \in Torn /\ dirty' = TRUE
    BY <1>1 DEF WriteRegistry
  <2>2. /\ saved_uuids \in [Slots -> Values] /\ num_reg_uuid \in 0 .. MAX_TAGS
        /\ InUse \subseteq Slots /\ MAX_TAGS \in Nat \ {0}
    BY HandlerFacts
  <2>3. Distinct(saved_uuids, InUse)
    BY <2>1 DEF IInv, ListIsSound, Listing, InMidChange
  <2>4. CASE flash' \in Torn /\ dirty' = TRUE
    <3>1. FileIsList(flash')
      BY <2>4, TornIsList
    <3> QED
      BY <2>4, <3>1 DEF FileIsList, SavedIsListed, BootCount, BootSlots, Distinct
  <2>5. CASE flash' = [num |-> num_reg_uuid, slots |-> saved_uuids]
    <3>1. flash'.num = num_reg_uuid /\ flash'.slots = saved_uuids
      BY <2>5
    <3>2. flash' # NoFile
      BY <2>2, <3>1 DEF NoFile
    <3>3. BootCount(flash') = num_reg_uuid
      BY <3>1, <3>2 DEF BootCount
    <3>4. BootSlots(flash') = saved_uuids
      BY <2>2, <3>1 DEF BootSlots
    <3>5. FileIsList(flash')
      BY <2>2, <2>3, <3>1, <3>3, <3>4 DEF FileIsList, InUse
    <3>6. Booted(flash') = Registered
      BY <3>3, <3>4 DEF Booted, InUse, Registered
    <3> QED
      BY <2>1, <3>5, <3>6
      DEF FileIsList, SavedIsListed, BootCount, BootSlots, Booted, Distinct, Registered, InUse
  <2> QED
    BY <2>1, <2>4, <2>5
<1>2. CASE OpenRegistry
  <2>1. FileIsList(flash')
    BY <1>2, NoFileIsList DEF OpenRegistry, IInv
  <2>2. ~(hpc' = "idle" /\ ~dirty')
    BY <1>2 DEF OpenRegistry
  <2> QED
    BY <2>1, <2>2 DEF FileIsList, SavedIsListed, BootCount, BootSlots, Distinct
<1>3. ASSUME flash' = flash, hpc' # "idle" PROVE FileIsList(flash)' /\ SavedIsListed'
  BY <1>3 DEF IInv, FileIsList, SavedIsListed, BootCount, BootSlots, Distinct
<1>4. ASSUME NEW p \in Payloads, AddUuid(p) \/ RemoveUuid(p)
      PROVE  flash' = flash /\ hpc' # "idle"
  BY <1>4 DEF AddUuid, RemoveUuid
<1>5. AddCopy \/ ShiftSlot \/ RemoveCount => flash' = flash /\ hpc' # "idle"
  BY DEF AddCopy, ShiftSlot, RemoveCount
<1> QED
  BY <1>1, <1>2, <1>3, <1>4, <1>5 DEF Handler

\* A message that is handled during a scan ends its calm.
LEMMA HandlerKeepsScan ==
  ASSUME IInv, Handler, Witness
  PROVE  calm' \in BOOLEAN /\ ScanIsSound' /\ ScanIsExact'
<1>1. scan' = scan /\ (hpc = "idle" => hpc' # "idle")
  BY DEF Handler, AddUuid, RemoveUuid, AddCopy, ShiftSlot, RemoveCount, OpenRegistry,
         WriteRegistry
<1>2. CASE scan.pc = "idle"
  <2>1. calm' = TRUE
    BY <1>1, <1>2 DEF Witness
  <2> QED
    BY <1>1, <1>2, <2>1 DEF ScanIsSound, ScanIsExact
<1>3. CASE scan.pc # "idle"
  <2>1. calm' = (calm /\ hpc' = "idle")
    BY <1>1, <1>3 DEF Witness
  <2>2. ~calm'
    BY <1>1, <1>3, <2>1 DEF IInv, ScanIsSound
  <2>3. calm' \in BOOLEAN
    BY <2>1
  <2> QED
    BY <1>1, <1>3, <2>2, <2>3 DEF ScanIsSound, ScanIsExact
<1> QED
  BY <1>2, <1>3

LEMMA HandlerInv ==
  ASSUME IInv, Handler, Witness PROVE IInv'
<1>1. UNCHANGED <<scan, boots>>
  BY DEF Handler, AddUuid, RemoveUuid, AddCopy, ShiftSlot, RemoveCount, OpenRegistry,
         WriteRegistry
<1>2. FileIsList(flash)' => flash'.num \in -1 .. MAX_TAGS
  BY DEF FileIsList
<1>3. HandlerTypes' /\ calm' \in BOOLEAN
  BY HandlerKeepsTypes, HandlerKeepsScan
<1>4. TypeOK'
  BY <1>1, <1>2, <1>3, HandlerKeepsFile DEF TypeOK, HandlerTypes, Values, IInv
<1> QED
  BY <1>4, HandlerKeepsList, HandlerKeepsFile, HandlerKeepsScan DEF IInv

-----------------------------------------------------------------------------
(* The BLE callback. *)

scanKeeps == <<saved_uuids, num_reg_uuid, flash, hpc, harg, hidx, asked, honoured,
               dirty, boots>>

ScanRecords == [pc : {"idle", "scan", "accepted", "rejected"}, uuid : Values, i : 0 .. MAX_TAGS]

\* The scan changes nothing but itself.
LEMMA ScanKeepsRest ==
  ASSUME IInv, UNCHANGED scanKeeps, scan' \in ScanRecords, calm' \in BOOLEAN,
         ScanIsSound', ScanIsExact'
  PROVE  IInv'
<1>1. TypeOK'
  BY DEF IInv, TypeOK, scanKeeps, ScanRecords, Values
<1>2. ListIsSound'
  BY DEF IInv, scanKeeps, ListIsSound, Listing, InUse, InMidChange, Distinct
<1>3. FileIsList(flash)'
  BY DEF IInv, scanKeeps, FileIsList, BootCount, BootSlots, Distinct
<1>4. SavedIsListed'
  <2>1. Registered' = Registered
    BY DEF scanKeeps, Registered, InUse
  <2>2. Booted(flash)' = Booted(flash)
    BY DEF scanKeeps, Booted, BootCount, BootSlots
  <2>3. hpc' = hpc /\ dirty' = dirty
    BY DEF scanKeeps
  <2> QED
    BY <2>1, <2>2, <2>3 DEF IInv, SavedIsListed
<1> QED
  BY <1>1, <1>2, <1>3, <1>4 DEF IInv

LEMMA ScanStartInv ==
  ASSUME IInv, NEW u \in Advertised, ScanStart(u), Witness PROVE IInv'
<1>1. /\ scan' = [pc |-> "scan", uuid |-> u, i |-> 0] /\ UNCHANGED scanKeeps
      /\ scan.pc = "idle"
  BY DEF ScanStart, scanKeeps
<1>2. scan' \in ScanRecords /\ scan'.pc = "scan" /\ scan'.i = 0
  BY <1>1, UuidRegistryAssumption DEF ScanRecords, Values
<1>3. calm' = (calm /\ hpc' = "idle")
  BY <1>2 DEF Witness
<1>4. calm' \in BOOLEAN
  BY <1>3
<1>5. ScanIsSound' /\ ScanIsExact'
  <2>1. calm' => hpc' = "idle"
    BY <1>3
  <2>2. \A i \in 0 .. scan'.i - 1 : FALSE
    BY <1>2
  <2> QED
    BY <1>2, <2>1, <2>2, Zenon DEF ScanIsSound, ScanIsExact
<1> QED
  BY <1>1, <1>2, <1>4, <1>5, ScanKeepsRest

\* A comparison of a calm scan is with a slot of a list that nobody changes: the first
\* match means a registered UUID, and no match up to the count means none.
LEMMA ScanStepInv ==
  ASSUME IInv, ScanStep, Witness PROVE IInv'
<1>1. scan.pc = "scan" /\ UNCHANGED scanKeeps /\ scan \in ScanRecords
  BY DEF ScanStep, scanKeeps, IInv, TypeOK, ScanRecords, Values
<1>2. /\ scan.i \in 0 .. MAX_TAGS /\ num_reg_uuid \in 0 .. MAX_TAGS
      /\ MAX_TAGS \in Nat \ {0}
  BY <1>1, HandlerFacts DEF ScanRecords
<1>3. calm => hpc = "idle" /\ \A i \in 0 .. scan.i - 1 : saved_uuids[i] # scan.uuid
  BY <1>1 DEF IInv, ScanIsSound
<1>4. Registered' = Registered
  BY <1>1 DEF scanKeeps, Registered, InUse
<1>5. CASE scan.i < num_reg_uuid /\ saved_uuids[scan.i] = scan.uuid
  <2>1. scan' = [scan EXCEPT !.pc = "accepted"]
    BY <1>5 DEF ScanStep
  <2>2. /\ scan' \in ScanRecords /\ scan'.pc = "accepted" /\ scan'.uuid = scan.uuid
    BY <1>1, <2>1 DEF ScanRecords
  <2>3. calm' = (calm /\ hpc' = "idle")
    BY <2>2 DEF Witness
  <2>4. calm' \in BOOLEAN
    BY <2>3
  <2>5. scan.i \in InUse
    BY <1>2, <1>5 DEF InUse
  <2>6. calm' => scan.uuid \in Registered
    BY <1>5, <2>5 DEF Registered
  <2>7. ScanIsSound' /\ ScanIsExact'
    BY <1>1, <1>3, <1>4, <2>2, <2>3, <2>6 DEF ScanIsSound, ScanIsExact, scanKeeps
  <2> QED
    BY <1>1, <2>2, <2>4, <2>7, ScanKeepsRest
<1>6. CASE scan.i < num_reg_uuid /\ saved_uuids[scan.i] # scan.uuid
  <2>1. scan' = [scan EXCEPT !.i = scan.i + 1]
    BY <1>6 DEF ScanStep
  <2>2. /\ scan' \in ScanRecords /\ scan'.pc = "scan" /\ scan'.uuid = scan.uuid
        /\ scan'.i = scan.i + 1
    BY <1>1, <1>2, <1>6, <2>1 DEF ScanRecords
  <2>3. calm' = (calm /\ hpc' = "idle")
    BY <2>2 DEF Witness
  <2>4. calm' \in BOOLEAN
    BY <2>3
  <2>5. calm' => \A i \in 0 .. scan'.i - 1 : saved_uuids'[i] # scan'.uuid
    <3>1. calm' => \A i \in 0 .. scan.i - 1 : saved_uuids[i] # scan.uuid
      BY <1>3, <2>3
    <3>2. \A i \in 0 .. scan'.i - 1 : i \in 0 .. scan.i - 1 \/ i = scan.i
      BY <1>2, <2>2
    <3>3. saved_uuids' = saved_uuids
      BY <1>1 DEF scanKeeps
    <3> QED
      BY <1>6, <2>2, <3>1, <3>2, <3>3
  <2>6. ScanIsSound' /\ ScanIsExact'
    BY <2>2, <2>3, <2>5 DEF ScanIsSound, ScanIsExact
  <2> QED
    BY <1>1, <2>2, <2>4, <2>6, ScanKeepsRest
<1>7. CASE ~(scan.i < num_reg_uuid)
  <2>1. scan' = [scan EXCEPT !.pc = "rejected"]
    BY <1>7 DEF ScanStep
  <2>2. /\ scan' \in ScanRecords /\ scan'.pc = "rejected" /\ scan'.uuid = scan.uuid
    BY <1>1, <2>1 DEF ScanRecords
  <2>3. calm' = (calm /\ hpc' = "idle")
    BY <2>2 DEF Witness
  <2>4. calm' \in BOOLEAN
    BY <2>3
  <2>5. InUse \subseteq 0 .. scan.i - 1
    BY <1>2, <1>7 DEF InUse
  <2>6. calm' => scan.uuid \notin Registered
    BY <1>3, <2>3, <2>5 DEF Registered
  <2>7. ScanIsSound' /\ ScanIsExact'
    BY <1>1, <1>3, <1>4, <2>2, <2>3, <2>6 DEF ScanIsSound, ScanIsExact, scanKeeps
  <2> QED
    BY <1>1, <2>2, <2>4, <2>7, ScanKeepsRest
<1> QED
  BY <1>5, <1>6, <1>7

LEMMA ScanReturnInv ==
  ASSUME IInv, ScanReturn, Witness PROVE IInv'
<1>1. scan' = [pc |-> "idle", uuid |-> Junk, i |-> 0] /\ UNCHANGED scanKeeps
  BY DEF ScanReturn, scanKeeps
<1>2. scan' \in ScanRecords /\ scan'.pc = "idle"
  BY <1>1, UuidRegistryAssumption DEF ScanRecords, Values
<1>3. calm' = TRUE
  BY <1>2 DEF Witness
<1>4. ScanIsSound' /\ ScanIsExact'
  BY <1>2, <1>3 DEF ScanIsSound, ScanIsExact
<1> QED
  BY <1>1, <1>2, <1>3, <1>4, ScanKeepsRest

-----------------------------------------------------------------------------
\* A message without effect on the list: it was in vain, or there was nothing to do.
LEMMA NoEffectInv ==
  ASSUME IInv, NEW p \in Payloads, AddRefused(p) \/ RemoveNothing(p) PROVE IInv'
<1>1. /\ hpc = "idle" /\ p.uuid \in Uuids
      /\ UNCHANGED <<saved_uuids, num_reg_uuid, flash, hpc, harg, hidx, scan, calm, dirty, boots>>
  BY DEF AddRefused, RemoveNothing, Payloads
<1>2. asked' \in SUBSET Values /\ honoured' \in BOOLEAN
  <2>1. asked \ {p.uuid} \in SUBSET Values /\ asked \in SUBSET Values /\ honoured \in BOOLEAN
    BY HandlerFacts
  <2> QED
    BY <2>1 DEF AddRefused, RemoveNothing, Wanted
<1>3. TypeOK'
  <2>1. calm' \in BOOLEAN /\ dirty' \in BOOLEAN
    BY <1>1 DEF IInv, TypeOK
  <2> QED
    BY <1>1, <1>2, <2>1 DEF IInv, TypeOK, Values
<1>4. honoured => asked = {saved_uuids[i] : i \in InUse}
  BY <1>1 DEF IInv, ListIsSound, Listing, InMidChange
<1>5. honoured' => honoured /\ asked' = asked
  <2>1. CASE AddRefused(p)
    BY <2>1 DEF AddRefused, Wanted
  <2>2. CASE RemoveNothing(p)
    <3>1. honoured' => honoured /\ asked' = asked \ {p.uuid}
      BY <2>2 DEF RemoveNothing, Wanted
    <3>2. honoured' => p.form = "bytes" \/ p.uuid \notin asked
      BY <2>2 DEF RemoveNothing, Wanted
    <3>3. p.form = "bytes" => \A i \in InUse : saved_uuids[i] # p.uuid
      BY <2>2 DEF RemoveNothing, Matches
    <3>4. honoured' => p.uuid \notin asked
      BY <1>4, <3>1, <3>2, <3>3
    <3> QED
      BY <3>1, <3>4
  <2> QED
    BY <2>1, <2>2
<1>6. ListIsSound'
  BY <1>1, <1>5 DEF IInv, ListIsSound, Listing, InMidChange, InUse, Distinct
<1>7. FileIsList(flash)' /\ SavedIsListed'
  <2>1. Registered' = Registered
    BY <1>1 DEF Registered, InUse
  <2>2. Booted(flash)' = Booted(flash)
    BY <1>1 DEF Booted, BootCount, BootSlots
  <2>3. SavedIsListed'
    BY <1>1, <2>1, <2>2 DEF IInv, SavedIsListed
  <2>4. FileIsList(flash)'
    BY <1>1 DEF IInv, FileIsList, BootCount, BootSlots, Distinct
  <2> QED
    BY <2>3, <2>4
<1>8. ScanIsSound' /\ ScanIsExact'
  BY <1>1 DEF IInv, ScanIsSound, ScanIsExact, Registered, InUse
<1> QED
  BY <1>3, <1>6, <1>7, <1>8 DEF IInv

LEMMA NextInv == IInv /\ [Next]_vars => IInv'
<1> SUFFICES ASSUME IInv, [Next]_vars PROVE IInv'
  OBVIOUS
<1>1. CASE UNCHANGED vars
  <2>1. UNCHANGED <<scanKeeps, scan, calm>>
    BY <1>1 DEF vars, scanKeeps
  <2>2. scan' \in ScanRecords /\ calm' \in BOOLEAN
    BY <2>1 DEF IInv, TypeOK, ScanRecords, Values
  <2>3. ScanIsSound' /\ ScanIsExact'
    BY <2>1 DEF IInv, ScanIsSound, ScanIsExact, scanKeeps, Registered, InUse
  <2> QED
    BY <2>1, <2>2, <2>3, ScanKeepsRest
<1>2. CASE PowerCycle
  <2>1. PICK f \in Torn : flash' = f /\ Boot(f)
    BY <1>2 DEF PowerCycle
  <2>2. boots' \in 0 .. MaxBoots
    BY <1>2, UuidRegistryAssumption DEF PowerCycle, IInv, TypeOK
  <2> QED
    BY <2>1, <2>2, TornIsList, BootInv
<1> QED
  BY <1>1, <1>2, HandlerInv, NoEffectInv, ScanStartInv, ScanStepInv, ScanReturnInv DEF Next

LEMMA Invariance == Spec => []IInv
BY InitInv, NextInv, PTL DEF Spec

-----------------------------------------------------------------------------
\* The handler, the scan and a restart keep the array, the count and their indices
\* within the array's bounds, also after a save that was cut off.
THEOREM TypeCorrect == Spec => []TypeOK
<1>1. IInv => TypeOK
  BY DEF IInv
<1> QED
  BY <1>1, Invariance, PTL

\* No sequence of ADD_UUID, REMOVE_UUID and restarts lists a UUID twice.
THEOREM NoDuplicates == Spec => []NoDuplicateUuid
<1>1. IInv => NoDuplicateUuid
  BY DEF IInv, ListIsSound, Listing, InMidChange, Distinct, NoDuplicateUuid
<1> QED
  BY <1>1, Invariance, PTL

\* Between two messages saved_uuids[] holds what the senders asked for, until a message
\* is refused or in the other one's format: the shift of REMOVE_UUID loses none of the
\* UUIDs behind the one that it removes, and a restart starts from the list it finds.
THEOREM ListCorrect == Spec => []ListIsAsked
<1>1. IInv => ListIsAsked
  BY DEF IInv, ListIsSound, Listing, InMidChange, ListIsAsked, Registered
<1> QED
  BY <1>1, Invariance, PTL

\* isUuidRegister answers exactly when no message is handled while it scans.
THEOREM ScanCorrect == Spec => []ScanIsExact
<1>1. IInv => ScanIsExact
  BY DEF IInv
<1> QED
  BY <1>1, Invariance, PTL

\* A restart between two messages restores what was registered, unless the last save
\* failed.
THEOREM Survival == Spec => RegistrySurvives
<1>1. IInv /\ [Next]_vars => [boots' # boots /\ hpc = "idle" /\ ~dirty => Registered' = Registered]_vars
  <2> SUFFICES ASSUME IInv, Next, boots' # boots, hpc = "idle", ~dirty
               PROVE  Registered' = Registered
    BY DEF vars
  <2>1. PowerCycle
    BY DEF Next, Handler, AddUuid, AddCopy, RemoveUuid, ShiftSlot, RemoveCount, OpenRegistry,
           WriteRegistry, AddRefused, RemoveNothing, ScanStart, ScanStep, ScanReturn
  <2>2. Boot(flash)
    BY <2>1 DEF PowerCycle, Torn
  <2>3. Registered' = Booted(flash)
    BY <2>2 DEF Boot, Booted, Registered, InUse
  <2>4. Registered = Booted(flash)
    BY DEF IInv, SavedIsListed
  <2> QED
    BY <2>3, <2>4
<1> QED
  BY <1>1, Invariance, PTL DEF Spec, RegistrySurvives
=============================================================================
