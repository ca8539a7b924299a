----------------------------- MODULE OfflineNotices -----------------------------
(***************************************************************************)
(* What people are told of ONE device that comes and goes: the status on   *)
(* the dashboards, and the notifications "Device Offline", two minutes     *)
(* after a disconnect, and "Device Online".  The notification that waits   *)
(* is a Redis key that a connect deletes and that a loop of the gateway    *)
(* turns into a notification when it is due; a Redis command takes effect  *)
(* together with the code that follows its answer, and a check that a key  *)
(* exists together with its deletion.                                      *)
(***************************************************************************)
EXTENDS DeviceConnections, Naturals

CONSTANT
    MaxFaults       \* bound: failed calls, restarts

ASSUME OfflineNoticesAssumption == MaxFaults \in Nat

VARIABLES
    scheduled,      \* Redis notify:offline:{id}: none, waiting, or due
    fired,          \* Redis notify:fired-offline:{id}
    scan,           \* checkPendingNotifications
    notice,         \* the last notification created
    dashboard,      \* the last device:status the dashboards got
    faults,         \* faults so far
    past            \* history: see Past

redisVars == <<scheduled, fired>>
toldVars == <<notice, dashboard>>
vars == <<connectionVars, redisVars, scan, toldVars, faults, past>>

(* Named exceptions of the properties.  Of the last alarm, until one is      *)
(* created or taken back: it was created after its key was cancelled         *)
(* (raced); a connect does not see it for the key of a next outage (masked); *)
(* its marker is gone after a day, or its key (expired); the "Device Online" *)
(* that took it back was not created (unanswered).  Since the last connect:  *)
(* a disconnect that had ended after its cancel (crossed).  Since the last   *)
(* disconnect: a connect that ended after it (outlived); its key deleted     *)
(* with that of the outage before (clobbered); its key not written, or gone  *)
(* before it was seen to (unscheduled); the dashboards not told (unshown).   *)
Past == [raced : BOOLEAN, masked : BOOLEAN, expired : BOOLEAN, unanswered : BOOLEAN,
         crossed : BOOLEAN, outlived : BOOLEAN, clobbered : BOOLEAN, unscheduled : BOOLEAN,
         unshown : BOOLEAN]

-----------------------------------------------------------------------------
(* Helpers                                                                   *)

Fault == faults < MaxFaults /\ faults' = faults + 1

(* wasDeviceOfflineLong                                                      *)
OfflineLong == scheduled = "due" \/ (scheduled = "none" /\ fired)

(* The disconnect of s ends, and the connection that replaced it has         *)
(* cancelled before; the connect of s goes on, and its disconnect has ended. *)
Crossed(s) ==
    deviceSockets \notin {None, s} /\ greeting[deviceSockets] \in {"notify", "idle"}
Outlived(s) == deviceSockets = None /\ parting[s] = "idle"

(* "Device Online" is created, or is not: an alarm is taken back, or left.   *)
Answers(s) ==
    past' = [past EXCEPT !.outlived = @ \/ Outlived(s),
                         !.raced = @ /\ notice' = "offline", !.masked = @ /\ notice' = "offline",
                         !.expired = @ /\ notice' = "offline", !.unanswered = notice' = "offline"]

HandlersIdle ==
    scan = "idle" /\ \A s \in Socket : greeting[s] = "idle" /\ parting[s] = "idle"

-----------------------------------------------------------------------------
(* A connection begins: broadcastDeviceOnline                                *)

Connect(s) ==
    /\ Accept(s)
    /\ UNCHANGED <<redisVars, scan, toldVars, faults, past>>

(* Reached after sendInitialState, which may take ten seconds and whose      *)
(* socket may be gone: wasDeviceOfflineLong.                                 *)
GreetAsk(s) ==
    /\ greeting[s] = "begin"
    /\ GreetingAt(s, IF OfflineLong THEN "long" ELSE "short")
    /\ UNCHANGED <<socketVars, parting, redisVars, scan, toldVars, faults, past>>

(* Variant: the notification is not cancelled.                               *)
GreetCancelNot(s) ==
    /\ greeting[s] \in {"short", "long"}
    /\ GreetingAt(s, "idle")
    /\ dashboard' = "online"
    /\ UNCHANGED <<socketVars, parting, redisVars, scan, notice, faults, past>>

(* emitToOrganization: the dashboards, all or, if it throws, some of them;   *)
(* handleConnection catches that and disconnects the device.                 *)
Show(s) ==
    /\ dashboard' = "online"
    /\ GreetingAt(s, "idle") /\ UNCHANGED <<socketVars, parting>>
ShowThrows(s) ==
    /\ dashboard' \in {dashboard, "online"}
    /\ CloseAfterThrow(s)

(* cancelOfflineNotification, and, unless there is a notification to create  *)
(* first, the dashboards.                                                    *)
GreetCancel(s) ==
    /\ greeting[s] \in {"short", "long"}
    /\ scheduled' = "none" /\ fired' = FALSE
    /\ \/ /\ greeting[s] = "long" /\ GreetingAt(s, "notify")
          /\ UNCHANGED <<socketVars, parting, dashboard, faults>>
       \/ greeting[s] = "short" /\ Show(s) /\ UNCHANGED faults
       \/ greeting[s] = "short" /\ ShowThrows(s) /\ Fault
    /\ past' = [past EXCEPT !.crossed = @ /\ s # deviceSockets, !.outlived = @ \/ Outlived(s)]
    /\ UNCHANGED <<scan, notice>>

(* Variant: a notification that was not created is told as one of no type.   *)
GreetNotifyAnyway(s) ==
    /\ greeting[s] = "notify"
    /\ \/ notice' = "online" /\ UNCHANGED faults
       \/ notice' = "none" /\ Fault
    /\ dashboard' = "online"
    /\ GreetingAt(s, "idle")
    /\ UNCHANGED <<socketVars, parting, redisVars, scan, past>>

(* createOnlineNotification, whose failure is only logged, and the           *)
(* dashboards.                                                               *)
GreetNotify(s) ==
    /\ greeting[s] = "notify"
    /\ \/ notice' = "online" /\ Show(s) /\ UNCHANGED faults
       \/ UNCHANGED notice /\ Show(s) /\ Fault
       \/ notice' \in {notice, "online"} /\ ShowThrows(s) /\ Fault
    /\ Answers(s)
    /\ UNCHANGED <<redisVars, scan>>

(* The Redis client throws.                                                  *)
GreetThrows(s) ==
    /\ greeting[s] \in {"begin", "short", "long"}
    /\ Fault
    /\ CloseAfterThrow(s)
    /\ UNCHANGED <<redisVars, scan, toldVars, past>>

-----------------------------------------------------------------------------
(* A connection ends: handleDisconnect                                       *)

LoseConnection ==
    /\ LoseClient
    /\ UNCHANGED <<redisVars, scan, toldVars, faults, past>>

HandleDisconnect(s) ==
    /\ Close(s)
    /\ UNCHANGED <<redisVars, scan, toldVars, faults, past>>

(* After the row: scheduleOfflineNotification, and the dashboards; the       *)
(* failure of either is only logged.                                         *)
PartSchedule(s) ==
    /\ parting[s] = "begin"
    /\ \E written, shown \in BOOLEAN :
          /\ scheduled' = IF written THEN "waiting" ELSE scheduled
          /\ shown => dashboard' = "offline"
          /\ dashboard' \in {dashboard, "offline"}
          /\ (written /\ shown /\ UNCHANGED faults) \/ (~(written /\ shown) /\ Fault)
          /\ past' = [past EXCEPT !.crossed = @ \/ Crossed(s), !.outlived = FALSE,
                                  !.clobbered = FALSE, !.unscheduled = ~written,
                                  !.unshown = ~shown,
                                  !.masked = @ \/ (written /\ notice = "offline")]
    /\ PartingAt(s, "idle")
    /\ UNCHANGED <<socketVars, greeting, fired, scan, notice>>

-----------------------------------------------------------------------------
(* The loop: checkPendingNotifications                                       *)

(* Two minutes; handlers take seconds.                                       *)
DelayPasses ==
    /\ scheduled = "waiting" /\ HandlersIdle
    /\ scheduled' = "due"
    /\ UNCHANGED <<connectionVars, fired, scan, toldVars, faults, past>>

(* Variant: an outage that has its marker is not told again.                 *)
ScanFindUnlessFired ==
    /\ scan = "idle" /\ scheduled = "due" /\ ~fired
    /\ scan' = "create"
    /\ UNCHANGED <<connectionVars, redisVars, toldVars, faults, past>>

ScanFind ==
    /\ scan = "idle" /\ scheduled = "due"
    /\ scan' = "create"
    /\ UNCHANGED <<connectionVars, redisVars, toldVars, faults, past>>

(* Variant: the key is deleted though the notification was not created.      *)
ScanCreateAnyway ==
    /\ scan = "create"
    /\ scan' = "fire"
    /\ \/ notice' = "offline" /\ UNCHANGED faults
       \/ UNCHANGED notice /\ Fault
    /\ UNCHANGED <<connectionVars, redisVars, dashboard, past>>

(* createOfflineNotification; a failure leaves the key for the next scan.    *)
ScanCreate ==
    /\ scan = "create"
    /\ \/ /\ notice' = "offline" /\ scan' = "fire"
          /\ past' = [past EXCEPT !.raced = scheduled # "due", !.masked = FALSE,
                                  !.expired = FALSE, !.unanswered = FALSE]
          /\ UNCHANGED faults
       \/ scan' = "idle" /\ Fault /\ UNCHANGED <<notice, past>>
    /\ UNCHANGED <<connectionVars, redisVars, dashboard>>

(* The marker is set, for a day.                                             *)
ScanFire ==
    /\ scan = "fire"
    /\ \/ fired' = TRUE /\ scan' = "end" /\ UNCHANGED faults
       \/ UNCHANGED fired /\ scan' = "idle" /\ Fault
    /\ UNCHANGED <<connectionVars, scheduled, toldVars, past>>

(* The key is deleted, whichever outage it is of.                            *)
ScanEnd ==
    /\ scan = "end"
    /\ \/ scheduled' = "none" /\ UNCHANGED faults
       \/ UNCHANGED scheduled /\ Fault
    /\ scan' = "idle"
    /\ past' = [past EXCEPT !.clobbered = @ \/ (scheduled = "waiting" /\ scheduled' = "none")]
    /\ UNCHANGED <<connectionVars, fired, toldVars>>

(* A day after; the scan that set the marker is long over.                   *)
FiredExpire ==
    /\ fired /\ scan # "end"
    /\ fired' = FALSE
    /\ past' = [past EXCEPT !.expired = @ \/ notice = "offline"]
    /\ UNCHANGED <<connectionVars, scheduled, scan, toldVars, faults>>

(* A key lives for five minutes: it expires when for three of them no scan   *)
(* could see to it.                                                          *)
KeyExpire ==
    /\ scheduled = "due" /\ Fault
    /\ scheduled' = "none"
    /\ past' = [past EXCEPT !.unscheduled = TRUE,
                            !.expired = @ \/ (notice = "offline" /\ ~fired)]
    /\ UNCHANGED <<connectionVars, fired, scan, toldVars>>

(* Nobody sees to the sockets that were open.                                *)
GatewayRestart ==
    /\ Fault
    /\ Restart
    /\ scan' = "idle"
    /\ LET cut == deviceSockets # None \/ \E s \in Socket : parting[s] # "idle"
           unsaid == notice = "offline" /\ \E s \in Socket : greeting[s] = "notify"
       IN  past' = [past EXCEPT !.unscheduled = @ \/ cut, !.unshown = @ \/ cut,
                                !.unanswered = @ \/ unsaid]
    /\ UNCHANGED <<redisVars, toldVars>>

-----------------------------------------------------------------------------
(* The device is away, and its operator was told.                            *)
Init ==
    /\ NoConnection
    /\ scheduled = "none" /\ fired = TRUE /\ scan = "idle"
    /\ notice = "offline" /\ dashboard = "offline" /\ faults = 0
    /\ past = [raced |-> FALSE, masked |-> FALSE, expired |-> FALSE, unanswered |-> FALSE,
               crossed |-> FALSE, outlived |-> FALSE, clobbered |-> FALSE,
               unscheduled |-> FALSE, unshown |-> FALSE]

GreetStep(s) == GreetAsk(s) \/ GreetCancel(s) \/ GreetNotify(s)
ScanStep == ScanFind \/ ScanCreate \/ ScanFire \/ ScanEnd

Next ==
    \/ LoseConnection \/ DelayPasses \/ ScanStep \/ FiredExpire \/ KeyExpire \/ GatewayRestart
    \/ \E s \in Socket : \/ Connect(s) \/ GreetStep(s) \/ GreetThrows(s)
                          \/ HandleDisconnect(s) \/ PartSchedule(s)

Spec == Init /\ [][Next]_vars

(* Handlers run to their end, closed connections are noticed, the loop runs, *)
(* and time passes.                                                          *)
FairSpec ==
    /\ Spec
    /\ WF_vars(ScanStep) /\ WF_vars(DelayPasses)
    /\ \A s \in Socket : /\ WF_vars(GreetStep(s)) /\ WF_vars(PartSchedule(s))
                          /\ WF_vars(HandleDisconnect(s))

-----------------------------------------------------------------------------
(* Properties                                                                *)

(* Every variable keeps its type.                                            *)
TypeOK ==
    /\ ConnectionTypeOK({"short", "long", "notify"}, {})
    /\ scheduled \in {"none", "waiting", "due"} /\ fired \in BOOLEAN
    /\ scan \in {"idle", "create", "fire", "end"}
    /\ notice \in {"online", "offline"} /\ dashboard \in {"online", "offline"}
    /\ faults \in 0 .. MaxFaults /\ past \in Past

(* A device that is connected, once the handlers have run, is shown online   *)
(* and no alarm is on its way to its operator ("called when the device       *)
(* reconnects before the notification fires"), unless a disconnect was still *)
(* running when it was back (crossed).                                       *)
BackIsShown == past.crossed \/ (scheduled = "none" /\ dashboard = "online")

(* And the last alarm was taken back by a "Device Online", unless it was     *)
(* created as it was cancelled (raced), its first reconnect was lost before  *)
(* it told (masked), its marker is gone after a day or its key was before    *)
(* the marker was set (expired), or the "Device Online" could not be created *)
(* (unanswered).  A Redis failure, a failed emit or a restart of the gateway *)
(* in a connect is no exception.                                             *)
BackIsAnswered ==
    \/ past.crossed \/ past.raced \/ past.masked \/ past.expired \/ past.unanswered
    \/ notice = "online"

ConnectedIsNotAlarmed == Connected /\ HandlersIdle => BackIsShown /\ BackIsAnswered

(* An outage is not missed: a device that is away is shown offline, and has  *)
(* been alarmed or will be.  Exceptions: its connect was still running when  *)
(* its disconnect had ended (outlived); the key of its outage deleted with   *)
(* that of the one before (clobbered).  And what failed in this outage: the  *)
(* dashboards could not be told (unshown), the key could not be written or   *)
(* was not seen to in time (unscheduled), or it began with a restart of the  *)
(* gateway, which has no disconnect (both).                                  *)
AwayIsAlarmed ==
    Away /\ HandlersIdle =>
        /\ past.outlived \/ past.unshown \/ dashboard = "offline"
        /\ \/ past.outlived \/ past.clobbered \/ past.unscheduled
           \/ scheduled # "none" \/ notice = "offline"

(* An alarm that waits is raised or called off in the end, whatever failed.  *)
AlarmIsSettled == scheduled # "none" ~> scheduled = "none"

(* The parts of the inductive invariant.  While a key is due no connect went *)
(* on without seeing it, and the scan that deletes it has raised its alarm   *)
(* and set its marker.                                                       *)
KeysInStep ==
    /\ scheduled = "due" => \A s \in Socket : greeting[s] \notin {"short", "notify"}
    /\ scheduled = "due" /\ scan \in {"fire", "end"} => notice = "offline"
    /\ scheduled = "due" /\ scan = "end" => fired

(* The current connection has cancelled, and no disconnect ended since;      *)
(* somebody is about to tell that the device is back; the last alarm has no  *)
(* exception.                                                                *)
Cancelled == deviceSockets # None /\ greeting[deviceSockets] \in {"notify", "idle"} /\ ~past.crossed
Telling == \E s \in Socket : greeting[s] = "notify"
Answerable == /\ notice = "offline"
              /\ ~past.raced /\ ~past.masked /\ ~past.expired /\ ~past.unanswered

(* An alarm that can still be taken back is: the next connect finds that the *)
(* device was away for long, unless one is telling so already.               *)
AlarmTakenBack ==
    /\ Cancelled => scheduled = "none"
    /\ Cancelled /\ greeting[deviceSockets] = "idle" => dashboard = "online"
    /\ Answerable => OfflineLong \/ Telling
    /\ Answerable /\ (Cancelled \/ \E s \in Socket : greeting[s] = "short") => Telling

(* An outage whose disconnect has ended, and no connect ended since, is      *)
(* shown, and its alarm waits, is being raised or was.                       *)
Parted == /\ deviceSockets = None /\ \A s \in Socket : parting[s] = "idle"
          /\ ~past.outlived
OutageTold ==
    Parted => /\ past.unshown \/ dashboard = "offline"
              /\ past.clobbered \/ past.unscheduled \/ scheduled # "none" \/ notice = "offline"

(* The inductive invariant under ConnectedIsNotAlarmed and AwayIsAlarmed.    *)
IInv == TypeOK /\ OneConnection /\ KeysInStep /\ AlarmTakenBack /\ OutageTold
================================================================================
