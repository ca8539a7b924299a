----------------------------- MODULE DevicePresence -----------------------------
(***************************************************************************)
(* Whether the row of ONE device says that it is online.  The gateway's    *)
(* handlers of a connect, a heartbeat and a disconnect write it, each cut  *)
(* at its awaits; a row update takes effect together with the code that    *)
(* follows it.  The cron of each middleware process marks devices that     *)
(* have been silent for DEVICE_OFFLINE_THRESHOLD_MS.                       *)
(*                                                                         *)
(* Redis device:status:{id} is written beside the row and read by nothing, *)
(* and is left out; the awaits of its writes are kept.                     *)
(***************************************************************************)
EXTENDS DeviceConnections, Naturals

CONSTANTS
    Worker,         \* middleware processes, each with its own cron
    MaxFaults       \* bound: failed calls, restarts

ASSUME DevicePresenceAssumption == MaxFaults \in Nat

VARIABLES
    row,            \* display.status, and whether lastHeartbeat is recent
    statusCache,    \* deviceStatusCache holds "online" for the device
    beat,           \* handleHeartbeat of each socket is about to write
    cron,           \* detectOfflineDevices of each worker
    faults          \* faults so far

vars == <<connectionVars, row, statusCache, beat, cron, faults>>

Fault == faults < MaxFaults /\ faults' = faults + 1

(* display.updateMany, which may throw: that is only logged.                 *)
WriteRow(status) ==
    \/ row' = [status |-> status, recent |-> TRUE] /\ UNCHANGED faults
    \/ UNCHANGED row /\ Fault

-----------------------------------------------------------------------------
(* handleConnection: setupDeviceRooms                                        *)

Connect(s) ==
    /\ ~beat[s]
    /\ Accept(s)
    /\ UNCHANGED <<row, statusCache, beat, cron, faults>>

(* Redis has answered: the row is written only if the cache has no "online". *)
GreetCheck(s) ==
    /\ greeting[s] = "begin"
    /\ GreetingAt(s, IF statusCache THEN "idle" ELSE "write")
    /\ UNCHANGED <<socketVars, parting, row, statusCache, beat, cron, faults>>

GreetWrite(s) ==
    /\ greeting[s] = "write"
    /\ WriteRow("online")
    /\ statusCache' = TRUE
    /\ GreetingAt(s, "idle")
    /\ UNCHANGED <<socketVars, parting, beat, cron>>

-----------------------------------------------------------------------------
(* handleDisconnect                                                          *)

LoseConnection ==
    /\ LoseClient
    /\ UNCHANGED <<row, statusCache, beat, cron, faults>>

HandleDisconnect(s) ==
    /\ Close(s)
    /\ UNCHANGED <<row, statusCache, beat, cron, faults>>

(* Redis has answered.                                                       *)
PartCache(s) ==
    /\ parting[s] = "begin"
    /\ statusCache' = FALSE
    /\ PartingAt(s, "write")
    /\ UNCHANGED <<socketVars, greeting, row, beat, cron, faults>>

(* Variant: the row is given a third status.                                 *)
PartWriteError(s) ==
    /\ parting[s] = "write"
    /\ WriteRow("error")
    /\ PartingAt(s, "idle")
    /\ UNCHANGED <<socketVars, greeting, statusCache, beat, cron>>

PartWrite(s) ==
    /\ parting[s] = "write"
    /\ WriteRow("offline")
    /\ PartingAt(s, "idle")
    /\ UNCHANGED <<socketVars, greeting, statusCache, beat, cron>>

-----------------------------------------------------------------------------
(* handleHeartbeat                                                           *)

(* One that will write the row: the cache has no "online" when Redis has     *)
(* answered, or the row was last written a minute ago                        *)
(* (HEARTBEAT_DB_REFRESH_INTERVAL_MS).  The others change nothing.           *)
Heartbeat(s) ==
    /\ client = s /\ Active(s) /\ ~beat[s]
    /\ beat' = [beat EXCEPT ![s] = TRUE]
    /\ UNCHANGED <<connectionVars, row, statusCache, cron, faults>>

(* Variant: the row is not refreshed while the cache has "online".           *)
BeatWriteIfChanged(s) ==
    /\ beat[s]
    /\ IF statusCache THEN UNCHANGED <<row, faults>> ELSE WriteRow("online")
    /\ statusCache' = TRUE
    /\ beat' = [beat EXCEPT ![s] = FALSE]
    /\ UNCHANGED <<connectionVars, cron>>

BeatWrite(s) ==
    /\ beat[s]
    /\ WriteRow("online")
    /\ statusCache' = TRUE
    /\ beat' = [beat EXCEPT ![s] = FALSE]
    /\ UNCHANGED <<connectionVars, cron>>

-----------------------------------------------------------------------------
(* The middleware: detectOfflineDevices                                      *)

HandlersIdle ==
    /\ \A s \in Socket : greeting[s] = "idle" /\ parting[s] = "idle" /\ ~beat[s]
    /\ \A w \in Worker : cron[w] = "idle"

(* Two minutes without a write of lastHeartbeat: twice the refresh interval  *)
(* of a device that is connected, and longer than any handler runs.          *)
GoesStale ==
    /\ row.recent /\ HandlersIdle
    /\ Connected => Fault
    /\ ~Connected => UNCHANGED faults
    /\ row' = [row EXCEPT !.recent = FALSE]
    /\ UNCHANGED <<connectionVars, statusCache, beat, cron>>

CronFind(w) ==
    /\ cron[w] = "idle" /\ row.status = "online" /\ ~row.recent
    /\ cron' = [cron EXCEPT ![w] = "mark"]
    /\ UNCHANGED <<connectionVars, row, statusCache, beat, faults>>

(* Variant: the row is stamped as by a heartbeat.                            *)
CronMarkOnline(w) ==
    /\ cron[w] = "mark"
    /\ row' = [row EXCEPT !.recent = TRUE]
    /\ cron' = [cron EXCEPT ![w] = "idle"]
    /\ UNCHANGED <<connectionVars, statusCache, beat, faults>>

(* By the id it found, whatever the row says now.                            *)
CronMark(w) ==
    /\ cron[w] = "mark"
    /\ row' = [row EXCEPT !.status = "offline"]
    /\ cron' = [cron EXCEPT ![w] = "idle"]
    /\ UNCHANGED <<connectionVars, statusCache, beat, faults>>

-----------------------------------------------------------------------------
(* cleanupStaleEntries, every five minutes.                                  *)
CleanupStaleEntries ==
    /\ statusCache /\ ~Active(deviceSockets)
    /\ statusCache' = FALSE /\ deviceSockets' = None
    /\ UNCHANGED <<sock, client, greeting, parting, row, beat, cron, faults>>

GatewayRestart ==
    /\ Fault
    /\ Restart
    /\ statusCache' = FALSE
    /\ beat' = [s \in Socket |-> FALSE]
    /\ UNCHANGED <<row, cron>>

-----------------------------------------------------------------------------
Init ==
    /\ NoConnection
    /\ row = [status |-> "offline", recent |-> FALSE]
    /\ statusCache = FALSE
    /\ beat = [s \in Socket |-> FALSE]
    /\ cron = [w \in Worker |-> "idle"]
    /\ faults = 0

GreetStep(s) == GreetCheck(s) \/ GreetWrite(s)
PartStep(s) == PartCache(s) \/ PartWrite(s)
CronStep(w) == CronFind(w) \/ CronMark(w)

Next ==
    \/ LoseConnection \/ GoesStale \/ CleanupStaleEntries \/ GatewayRestart
    \/ \E s \in Socket : \/ Connect(s) \/ GreetStep(s) \/ HandleDisconnect(s)
                          \/ PartStep(s) \/ Heartbeat(s) \/ BeatWrite(s)
    \/ \E w \in Worker : CronStep(w)

Spec == Init /\ [][Next]_vars

(* Handlers run to their end, closed connections are noticed, a connected    *)
(* device heartbeats, and some heartbeat refreshes its row, the crons run,   *)
(* and time passes.                                                          *)
FairSpec ==
    /\ Spec
    /\ WF_vars(GoesStale)
    /\ \A s \in Socket : /\ WF_vars(GreetStep(s)) /\ WF_vars(PartStep(s))
                          /\ WF_vars(HandleDisconnect(s))
                          /\ WF_vars(Heartbeat(s)) /\ WF_vars(BeatWrite(s))
    /\ \A w \in Worker : WF_vars(CronStep(w))

-----------------------------------------------------------------------------
(* Properties                                                                *)

(* Every variable keeps its type.                                            *)
TypeOK ==
    /\ ConnectionTypeOK({"write"}, {"write"})
    /\ row \in [status : {"online", "offline"}, recent : BOOLEAN]
    /\ statusCache \in BOOLEAN
    /\ beat \in [Socket -> BOOLEAN] /\ cron \in [Worker -> {"idle", "mark"}]
    /\ faults \in 0 .. MaxFaults

(* The row of a device that stays connected says so in the end and does not  *)
(* change again, whatever the disconnect of the connection before, a connect *)
(* that skipped its write or a cron that had found it stale wrote.           *)
ConnectedIsOnline == <>[]Connected => <>[](row.status = "online")

(* The row of a device that stays away is offline in the end, whatever the   *)
(* connect, the heartbeat and the restart that outlived its last connection  *)
(* wrote or did not write.                                                   *)
AwayIsOffline == <>[]Away => <>[](row.status = "offline")
================================================================================
