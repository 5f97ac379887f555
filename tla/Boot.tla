-------------------------------- MODULE Boot --------------------------------
(***************************************************************************)
(* app_main (main/main.c) and the Wi-Fi event handler (main/wifi.h): in    *)
(* which order the program's objects come to exist, and how STATE[WIFI]    *)
(* follows the connection.  The handler runs in the event loop's task, one *)
(* event at a time, and blocks it while it tries to connect.               *)
(*                                                                         *)
(* External: the station tries to connect once esp_wifi_connect returns    *)
(* ESP_OK, and may succeed, fail, or lose the connection later; each posts *)
(* an event.  A failed ESP_ERROR_CHECK aborts, and the chip restarts.      *)
(***************************************************************************)
EXTENDS Integers, Sequences

CONSTANTS
  Attempts,    \* calls of esp_wifi_connect before the handler gives up      (100)
  MaxAborts,   \* bound: restarts
  MaxEvents    \* bound: events that wait for the handler

ASSUME BootAssumption ==
  Attempts \in Nat \ {0} /\ MaxAborts \in Nat /\ MaxEvents \in Nat \ {0}

VARIABLES
  pc,         \* where app_main is: how many of its stages are done
  station,    \* external: the radio is off, idle, trying, or up
  events,     \* posted and not handled
  repeats,    \* the handler's failed calls, or None when it does not try
  wifiState,  \* STATE[WIFI]
  aborts      \* bound: restarts so far

vars == <<pc, station, events, repeats, wifiState, aborts>>

None == -1

\* app_main, by what exists after each stage.
Stages == <<"storage", "radio", "connect", "wait", "registry", "ble", "server",
            "AddedQ", "RemovedQ", "StreamQ", "ParkingQ", "tasks", "mqtt">>

At(stage) == pc < Len(Stages) /\ Stages[pc + 1] = stage

Init ==
  /\ pc = 0 /\ station = "off" /\ events = <<>> /\ repeats = None
  /\ wifiState = FALSE
  /\ aborts = 0

Abort ==
  /\ aborts < MaxAborts /\ aborts' = aborts + 1
  /\ pc' = 0 /\ station' = "off" /\ events' = <<>> /\ repeats' = None
  /\ wifiState' = FALSE

-----------------------------------------------------------------------------
(* app_main. *)

\* The file system may fail to mount, the NVS partition of the Bluetooth start-up to
\* open, and the HTTP server to start: each of these aborts.  What else fails is not
\* looked at.
MountFails  == At("storage") /\ Abort
NvsFails    == At("ble") /\ Abort
ServerFails == At("server") /\ Abort

\* wifi_init starts the radio, which posts the first event.
StartRadio ==
  /\ At("radio")
  /\ pc' = pc + 1
  /\ station' = "idle"
  /\ events' = Append(events, "STA_START")
  /\ UNCHANGED <<repeats, wifiState, aborts>>

\* while(esp_wifi_connect() != ESP_OK); also ends when the handler was faster.
Connect ==
  /\ At("connect")
  /\ pc' = pc + 1
  /\ station' = IF station = "idle" THEN "trying" ELSE station
  /\ UNCHANGED <<events, repeats, wifiState, aborts>>

\* BLOCK_TASK(WIFI, 100).
BlockTask ==
  /\ At("wait") /\ wifiState
  /\ pc' = pc + 1
  /\ UNCHANGED <<station, events, repeats, wifiState, aborts>>

\* Every other stage creates what it is named for, or aborts.
Create ==
  /\ pc < Len(Stages) /\ Stages[pc + 1] \notin {"radio", "connect", "wait"}
  /\ pc' = pc + 1
  /\ UNCHANGED <<station, events, repeats, wifiState, aborts>>

AppMain == StartRadio \/ Connect \/ BlockTask \/ Create
Fails   == MountFails \/ NvsFails \/ ServerFails

-----------------------------------------------------------------------------
(* _wifi_event_handler. *)

Handle(event) == repeats = None /\ events # <<>> /\ Head(events) = event
                 /\ events' = Tail(events)

\* Fault: a lost connection is not tried again.
StaDownGivesUp ==
  /\ Handle("STA_START") \/ Handle("STA_DISCONNECTED")
  /\ wifiState' = FALSE
  /\ repeats' = IF Head(events) = "STA_START" THEN 0 ELSE None
  /\ UNCHANGED <<pc, station, aborts>>

\* Fault: the state survives the disconnection.
StaDownKeeps ==
  /\ Handle("STA_START") \/ Handle("STA_DISCONNECTED")
  /\ repeats' = 0
  /\ UNCHANGED <<pc, station, wifiState, aborts>>

\* WIFI_EVENT_STA_START and WIFI_EVENT_STA_DISCONNECTED clear the state and enter
\* _conection_start.
StaDown ==
  /\ Handle("STA_START") \/ Handle("STA_DISCONNECTED")
  /\ wifiState' = FALSE
  /\ repeats' = 0
  /\ UNCHANGED <<pc, station, aborts>>

\* Its loop: a call that succeeds, one that fails, and the last one that fails.
ConnectOk ==
  /\ repeats # None
  /\ repeats' = None
  /\ station' = IF station = "idle" THEN "trying" ELSE station
  /\ UNCHANGED <<pc, events, wifiState, aborts>>

\* (Fault: it is compared with the limit one call too late.)
ConnectFailsOn ==
  /\ repeats # None /\ repeats < Attempts
  /\ repeats' = repeats + 1
  /\ UNCHANGED <<pc, station, events, wifiState, aborts>>

ConnectFails ==
  /\ repeats # None /\ repeats < Attempts - 1
  /\ repeats' = repeats + 1
  /\ UNCHANGED <<pc, station, events, wifiState, aborts>>

GiveUp == repeats = Attempts - 1 /\ Abort

\* Fault: the address is only logged.
GotIpForgets ==
  /\ Handle("GOT_IP")
  /\ UNCHANGED <<pc, station, repeats, wifiState, aborts>>

\* IP_EVENT_STA_GOT_IP.
GotIp ==
  /\ Handle("GOT_IP")
  /\ wifiState' = TRUE
  /\ UNCHANGED <<pc, station, repeats, aborts>>

EventLoop == StaDown \/ ConnectOk \/ ConnectFails \/ GiveUp \/ GotIp

-----------------------------------------------------------------------------
(* External: the radio. *)

Becomes(s, event) ==
  /\ Len(events) < MaxEvents
  /\ station' = s
  /\ events' = Append(events, event)
  /\ UNCHANGED <<pc, repeats, wifiState, aborts>>

LinkUp   == station = "trying" /\ Becomes("up", "GOT_IP")
LinkDown == station \in {"trying", "up"} /\ Becomes("idle", "STA_DISCONNECTED")

Next == AppMain \/ Fails \/ EventLoop \/ LinkUp \/ LinkDown

Spec == Init /\ [][Next]_vars

\* Both tasks keep running.
FairSpec == Spec /\ WF_vars(AppMain) /\ WF_vars(EventLoop)

-----------------------------------------------------------------------------
TypeOK ==
  /\ pc \in 0 .. Len(Stages)
  /\ station \in {"off", "idle", "trying", "up"}
  /\ events \in Seq({"STA_START", "STA_DISCONNECTED", "GOT_IP"})
  /\ Len(events) <= MaxEvents + 1
  /\ repeats \in {None} \cup 0 .. Attempts - 1
  /\ wifiState \in BOOLEAN
  /\ aborts \in 0 .. MaxAborts

\* When no event waits, STATE[WIFI] is what the station is, however often it went up
\* and down while the handler was held up.
StateFollowsStation ==
  events = <<>> => wifiState = (station = "up")

\* A lost connection is always tried again, whatever event the handler was held up in
\* when it was lost, or the chip restarts.
KeepsTrying == []<>(station \in {"trying", "up"})

\* On a network that stays, app_main runs to its end.
BootCompletes == <>[](station = "up") => <>(pc = Len(Stages))
=============================================================================
