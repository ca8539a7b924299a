----------------------------- MODULE FleetOverrides -----------------------------
(***************************************************************************)
(* Emergency overrides on ONE device: the middleware has the gateway send  *)
(* push_content and then records the override; clearing it deletes the     *)
(* record and has clear_override sent.  The gateway emits a command and    *)
(* waits for the device's acknowledgement and queues in Redis what was not *)
(* acknowledged; each connect, and each heartbeat until too many have      *)
(* failed in a row, drains the queue and delivers it again.                *)
(*                                                                         *)
(* The gateway's Redis commands take effect in the order they are issued   *)
(* (one connection), so a command and the code before it are one action.   *)
(* The key device:override:{id}, read for a log line, is left out.         *)
(***************************************************************************)
EXTENDS Naturals, Sequences

CONSTANTS
    Socket,       \* socket ids the gateway hands out; a closed one is used again
    None,         \* no socket
    Replay,       \* replays of the queue that may run at a time
    MaxPush,      \* bound: overrides, each cleared once at most
    MaxFailures,  \* HEARTBEAT_REPLAY_MAX_FAILURES
    MaxFaults     \* bound: lost connections and calls, restarts

ASSUME FleetOverridesAssumption ==
    /\ None \notin Socket /\ "call" \notin Replay /\ "nobody" \notin Replay
    /\ MaxPush \in Nat /\ MaxFailures \in Nat \ {0} /\ MaxFaults \in Nat

VARIABLES
    fleet,          \* FleetService.sendCommand of each override
    records,        \* Redis override:{org}:{commandId}: the overrides on record
    call,           \* the gateway's sendCommand of each command
    queue,          \* Redis device:commands:{id}
    initial,        \* sendInitialState of a socket has the queue still to drain
    replay,         \* deliverPendingCommands, of a connect or a heartbeat, from the drain on
    failures,       \* heartbeatReplayState of the device: failed heartbeat replays in a row
    sock,           \* which sockets are open at the gateway
    deviceSockets,  \* the gateway's Map entry for this device
    client,         \* the device's socket
    inbox,          \* what the gateway has emitted on it, in order
    overlay,        \* the device's overrideState
    faults,         \* faults so far
    executed,       \* history: the commands the device has executed
    lost,           \* history: the commands dropped on the way
    past            \* history: see Past

fleetVars == <<fleet, records>>
connVars  == <<sock, deviceSockets, client, initial>>
vars == <<fleetVars, call, queue, replay, failures, connVars, inbox, overlay, faults,
          executed, lost, past>>

Override == 1 .. MaxPush
NoOverride == 0
Command == [type : {"push", "clear"}, n : Override]
Push(n) == [type |-> "push", n |-> n]
Clear(n) == [type |-> "clear", n |-> n]

CallRecord == [pc : {"none", "sent", "found", "waiting", "done"}, sock : Socket \cup {None}]
ReplayRecord == [pc : {"idle", "next", "waiting", "requeue"}, sock : Socket \cup {None},
                 cmds : Seq(Command), requeued : BOOLEAN, connect : BOOLEAN]
(* An emitted command, and who waits for its acknowledgement: its call, a    *)
(* replay, or nobody any longer.                                             *)
Caller == {"call", "nobody"} \cup Replay
Message == [c : Command, from : Caller]
Sent(c) == [c |-> c, from |-> "call"]
Replayed(r) == [c |-> Head(replay[r].cmds), from |-> r]
(* Overrides that were never recorded, that outlived their record, that were *)
(* not yet settled when they were cleared.                                   *)
Past == [unrecorded : SUBSET Override, outlived : SUBSET Override, underway : SUBSET Override]

NoCall == [pc |-> "none", sock |-> None]
EndedCall == [pc |-> "done", sock |-> None]
NoReplay == [pc |-> "idle", sock |-> None, cmds |-> <<>>, requeued |-> FALSE, connect |-> FALSE]

-----------------------------------------------------------------------------
(* Helpers                                                                   *)

Fault == faults < MaxFaults /\ faults' = faults + 1

(* isActiveDeviceSocket and client.connected.                                *)
Active(s) == s # None /\ deviceSockets = s /\ sock[s]

Among(seq) == {seq[i] : i \in DOMAIN seq}
InFlight(m) == m \in Among(inbox)
Issued == {c \in Command : call[c].pc # "none"}
Running == {c \in Command : call[c].pc \in {"sent", "found", "waiting"}}
Held == UNION {Among(replay[r].cmds) : r \in Replay}

(* The commands the gateway has not let go of.                               *)
Kept == Running \cup Held \cup Among(queue)
Open == Kept \cup {m.c : m \in Among(inbox)}

SendTo(s, m) == inbox' = IF client = s THEN Append(inbox, m) ELSE inbox

(* Whoever waited has given up; the message still arrives.                   *)
Forget(m) ==
    inbox' = [i \in DOMAIN inbox |->
                IF inbox[i] = m THEN [m EXCEPT !.from = "nobody"] ELSE inbox[i]]

-----------------------------------------------------------------------------
(* The middleware: FleetService                                              *)

(* sendCommand, push_content with priority "emergency".                      *)
PushContent(n) ==
    /\ fleet[n] = "idle" /\ \A m \in 1 .. n - 1 : fleet[m] # "idle"
    /\ fleet' = [fleet EXCEPT ![n] = "posted"]
    /\ call' = [call EXCEPT ![Push(n)].pc = "sent"]
    /\ UNCHANGED <<records, queue, replay, failures, connVars, inbox, overlay, faults,
                   executed, lost, past>>

(* Variant: an override of a device that was not reached is not recorded.    *)
CreateOverrideIfReached(n) ==
    /\ fleet[n] = "posted" /\ call[Push(n)].pc = "done"
    /\ fleet' = [fleet EXCEPT ![n] = "ended"]
    /\ records' = IF Push(n) \in executed THEN records \cup {n} ELSE records
    /\ UNCHANGED <<call, queue, replay, failures, connVars, inbox, overlay, faults,
                   executed, lost, past>>

(* The gateway has answered: createOverride.                                 *)
CreateOverride(n) ==
    /\ fleet[n] = "posted" /\ call[Push(n)].pc = "done"
    /\ fleet' = [fleet EXCEPT ![n] = "ended"]
    /\ records' = records \cup {n}
    /\ UNCHANGED <<call, queue, replay, failures, connVars, inbox, overlay, faults,
                   executed, lost, past>>

(* The answer is lost ("Commands were not sent"), or Redis throws.           *)
SendCommandFails(n) ==
    /\ fleet[n] = "posted" /\ Fault
    /\ fleet' = [fleet EXCEPT ![n] = "ended"]
    /\ past' = [past EXCEPT !.unrecorded = @ \cup {n}]
    /\ UNCHANGED <<records, call, queue, replay, failures, connVars, inbox, overlay,
                   executed, lost>>

(* clearOverride: the record goes first; the gateway may be out of reach.    *)
ClearOverride(n) ==
    /\ n \in records /\ call[Clear(n)].pc = "none"
    /\ records' = records \ {n}
    /\ \/ /\ call' = [call EXCEPT ![Clear(n)].pc = "sent"]
          /\ UNCHANGED <<faults, lost>>
       \/ lost' = lost \cup {Clear(n)} /\ Fault /\ UNCHANGED call
    /\ past' = [past EXCEPT !.underway = IF Push(n) \in Open THEN @ \cup {n} ELSE @]
    /\ UNCHANGED <<fleet, queue, replay, failures, connVars, inbox, overlay, executed>>

(* A record lives as long as the override; it is written after the device    *)
(* has acknowledged, so only an override that was queued outlives it.        *)
RecordExpire(n) ==
    /\ n \in records
    /\ overlay.n = n => overlay.late
    /\ records' = records \ {n}
    /\ past' = [past EXCEPT !.outlived = @ \cup {n}]
    /\ UNCHANGED <<fleet, call, queue, replay, failures, connVars, inbox, overlay, faults,
                   executed, lost>>

-----------------------------------------------------------------------------
(* The gateway: sendCommand                                                  *)

(* addDeviceCommand and resetHeartbeatReplayBackoff.                         *)
Queue(c) ==
    /\ call' = [call EXCEPT ![c] = EndedCall]
    /\ queue' = Append(queue, c) /\ failures' = 0
    /\ UNCHANGED lost

CallThrows(c) ==
    /\ call' = [call EXCEPT ![c] = EndedCall]
    /\ lost' = lost \cup {c} /\ Fault
    /\ UNCHANGED <<queue, failures>>

(* fetchSockets.                                                             *)
SendFind(c) ==
    /\ call[c].pc = "sent"
    /\ call' = [call EXCEPT ![c] = [pc |-> "found", sock |-> deviceSockets]]
    /\ UNCHANGED <<fleetVars, queue, replay, failures, connVars, inbox, overlay, faults,
                   executed, lost, past>>

(* filterCurrentDeliverySockets, which reads the row, and the emit.          *)
SendEmit(c) ==
    /\ call[c].pc = "found"
    /\ \/ /\ Active(call[c].sock)
          /\ call' = [call EXCEPT ![c].pc = "waiting"]
          /\ SendTo(call[c].sock, Sent(c))
          /\ UNCHANGED <<queue, failures, lost, faults>>
       \/ ~Active(call[c].sock) /\ Queue(c) /\ UNCHANGED <<inbox, faults>>
       \/ CallThrows(c) /\ UNCHANGED inbox
    /\ UNCHANGED <<fleetVars, replay, connVars, overlay, executed, past>>

(* Variant: a late acknowledgement is still waited for.                      *)
SendTimeoutWaitsOn(c) ==
    /\ call[c].pc = "waiting"
    /\ Queue(c)
    /\ InFlight(Sent(c)) => Fault
    /\ ~InFlight(Sent(c)) => UNCHANGED faults
    /\ UNCHANGED <<fleetVars, replay, connVars, inbox, overlay, executed, past>>

(* Ten seconds without an answer, or a negative one; as a fault, the device  *)
(* is slow and what was emitted still arrives.                               *)
SendTimeout(c) ==
    /\ call[c].pc = "waiting"
    /\ \/ ~InFlight(Sent(c)) /\ Queue(c) /\ UNCHANGED <<inbox, faults>>
       \/ InFlight(Sent(c)) /\ Queue(c) /\ Forget(Sent(c)) /\ Fault
       \/ ~InFlight(Sent(c)) /\ CallThrows(c) /\ UNCHANGED inbox
    /\ UNCHANGED <<fleetVars, replay, connVars, overlay, executed, past>>

-----------------------------------------------------------------------------
(* The gateway: deliverPendingCommands, in replayPendingDeliveries           *)

(* recordHeartbeatReplayResult; sendInitialState ignores the result.         *)
EndReplay(r, requeued) ==
    /\ replay' = [replay EXCEPT ![r] = NoReplay]
    /\ failures' = IF replay[r].connect THEN failures ELSE IF requeued THEN failures + 1 ELSE 0

(* getDeviceCommands: Redis may throw after EXEC.                            *)
Drain(s, r, connect) ==
    /\ replay' = [replay EXCEPT ![r] = [pc |-> "next", sock |-> s, cmds |-> queue,
                                        requeued |-> FALSE, connect |-> connect]]
    /\ queue' = <<>>

DrainThrows == Fault /\ queue' = <<>> /\ lost' = lost \cup Among(queue)

(* sendInitialState: a pending playlist that was delivered or requeued ends  *)
(* it before the commands, or there are none, or the socket is stale.        *)
InitialSkip(s) ==
    /\ initial[s]
    /\ initial' = [initial EXCEPT ![s] = FALSE]
    /\ UNCHANGED <<fleetVars, call, queue, replay, failures, sock, deviceSockets, client, inbox,
                   overlay, faults, executed, lost, past>>

(* Otherwise it drains the queue, however many replays have failed.  A       *)
(* throw is logged.                                                          *)
InitialDrain(s, r) ==
    /\ initial[s] /\ Active(s) /\ replay[r].pc = "idle" /\ queue # <<>>
    /\ initial' = [initial EXCEPT ![s] = FALSE]
    /\ \/ Drain(s, r, TRUE) /\ UNCHANGED <<faults, lost>>
       \/ DrainThrows /\ UNCHANGED replay
    /\ UNCHANGED <<fleetVars, call, failures, sock, deviceSockets, client, inbox, overlay,
                   executed, past>>

(* replayPendingDeliveries, unless too many in a row have failed.  The first *)
(* heartbeat comes with the connect, the others 15 s apart, and a command    *)
(* may take 10 s, so replays may overlap.                                    *)
Heartbeat(s, r) ==
    /\ client = s /\ Active(s) /\ replay[r].pc = "idle" /\ failures < MaxFailures
    /\ \/ queue # <<>> /\ Drain(s, r, FALSE) /\ UNCHANGED <<failures, faults, lost>>
       \/ queue = <<>> /\ EndReplay(r, FALSE) /\ UNCHANGED <<queue, faults, lost>>
       \/ queue # <<>> /\ DrainThrows /\ EndReplay(r, TRUE)
    /\ UNCHANGED <<fleetVars, call, connVars, inbox, overlay, executed, past>>

(* The loop: the end, or a socket that is no longer the device's, or the     *)
(* next command.                                                             *)
ReplayNext(r) ==
    /\ replay[r].pc = "next"
    /\ \/ /\ replay[r].cmds = <<>>
          /\ EndReplay(r, replay[r].requeued)
          /\ UNCHANGED inbox
       \/ /\ replay[r].cmds # <<>> /\ ~Active(replay[r].sock)
          /\ replay' = [replay EXCEPT ![r].pc = "requeue"]
          /\ UNCHANGED <<failures, inbox>>
       \/ /\ replay[r].cmds # <<>> /\ Active(replay[r].sock)
          /\ replay' = [replay EXCEPT ![r].pc = "waiting"]
          /\ SendTo(replay[r].sock, Replayed(r))
          /\ UNCHANGED failures
    /\ UNCHANGED <<fleetVars, call, queue, connVars, overlay, faults, executed, lost, past>>

Dispose(r) == replay' = [replay EXCEPT ![r].pc = "next", ![r].cmds = Tail(@),
                                       ![r].requeued = TRUE]

(* Variant: a command that was not delivered is not put back.                *)
ReplayTimeoutDrops(r) ==
    /\ replay[r].pc = "waiting" /\ ~InFlight(Replayed(r))
    /\ Dispose(r)
    /\ UNCHANGED <<fleetVars, call, queue, failures, connVars, inbox, overlay, faults,
                   executed, lost, past>>

(* As SendTimeout.  On a socket that is no longer the device's all that is   *)
(* left is requeued.                                                         *)
ReplayTimeout(r) ==
    /\ replay[r].pc = "waiting"
    /\ \/ ~InFlight(Replayed(r)) /\ UNCHANGED <<inbox, faults>>
       \/ InFlight(Replayed(r)) /\ Forget(Replayed(r)) /\ Fault
    /\ IF Active(replay[r].sock)
         THEN Dispose(r) /\ queue' = Append(queue, Head(replay[r].cmds))
         ELSE replay' = [replay EXCEPT ![r].pc = "requeue"] /\ UNCHANGED queue
    /\ UNCHANGED <<fleetVars, call, failures, connVars, overlay, executed, lost, past>>

(* requeuePendingCommands, one command at a time.                            *)
ReplayRequeue(r) ==
    /\ replay[r].pc = "requeue"
    /\ \/ /\ replay[r].cmds = <<>> /\ EndReplay(r, FALSE) /\ UNCHANGED queue
       \/ /\ replay[r].cmds # <<>>
          /\ queue' = Append(queue, Head(replay[r].cmds))
          /\ replay' = [replay EXCEPT ![r].cmds = Tail(@)]
          /\ UNCHANGED failures
    /\ UNCHANGED <<fleetVars, call, connVars, inbox, overlay, faults, executed, lost, past>>

(* Redis throws as a command is put back: the rest is not.                   *)
ReplayThrows(r) ==
    /\ \/ replay[r].pc = "waiting" /\ ~InFlight(Replayed(r))
       \/ replay[r].pc = "requeue" /\ replay[r].cmds # <<>>
    /\ Fault
    /\ EndReplay(r, TRUE)
    /\ lost' = lost \cup Among(replay[r].cmds)
    /\ UNCHANGED <<fleetVars, call, queue, connVars, inbox, overlay, executed, past>>

-----------------------------------------------------------------------------
(* Connections                                                               *)

Connect(s) ==
    /\ client = None /\ ~sock[s] /\ ~initial[s]
    /\ \A c \in Command : call[c].sock # s
    /\ \A r \in Replay : replay[r].sock # s
    /\ client' = s /\ deviceSockets' = s /\ initial' = [initial EXCEPT ![s] = TRUE]
    /\ sock' = [x \in Socket |-> x = s \/ (sock[x] /\ x # deviceSockets)]
    /\ UNCHANGED <<fleetVars, call, queue, replay, failures, inbox, overlay, faults,
                   executed, lost, past>>

HandleDisconnect(s) ==
    /\ sock[s] /\ client # s
    /\ sock' = [sock EXCEPT ![s] = FALSE]
    /\ deviceSockets' = IF deviceSockets = s THEN None ELSE deviceSockets
    /\ UNCHANGED <<fleetVars, call, queue, replay, failures, client, initial, inbox, overlay, faults,
                   executed, lost, past>>

(* The client's side ends, with everything on its way to it.  What nobody    *)
(* waits for any longer was put back in the queue.                           *)
LoseConnection ==
    /\ client # None /\ Fault
    /\ client' = None /\ inbox' = <<>>
    /\ UNCHANGED <<fleetVars, call, queue, replay, failures, sock, deviceSockets, initial, overlay,
                   executed, lost, past>>

(* Its Maps, sockets and running handlers go, with the commands they hold.   *)
GatewayRestart ==
    /\ Fault
    /\ call' = [c \in Command |-> IF call[c].pc = "none" THEN NoCall ELSE EndedCall]
    /\ initial' = [s \in Socket |-> FALSE]
    /\ replay' = [r \in Replay |-> NoReplay] /\ failures' = 0
    /\ sock' = [s \in Socket |-> FALSE] /\ deviceSockets' = None /\ client' = None
    /\ inbox' = <<>>
    /\ lost' = lost \cup Running \cup Held
    /\ UNCHANGED <<fleetVars, queue, overlay, executed, past>>

(* addDeviceCommand gives the queue five minutes from the last command that  *)
(* was put back: the device is away, or its heartbeats have stopped trying.  *)
(* A connect drains the queue, and what it puts back has its time again.     *)
QueueExpire ==
    /\ queue # <<>>
    /\ client = None \/ failures >= MaxFailures
    /\ queue' = <<>> /\ lost' = lost \cup Among(queue)
    /\ UNCHANGED <<fleetVars, call, replay, failures, connVars, inbox, overlay, faults,
                   executed, past>>

-----------------------------------------------------------------------------
(* The device: handleCommand, and its acknowledgement                        *)

(* Variant: the clear of an override the device does not know by its id.     *)
HandleCommandById(c) ==
    /\ overlay' = IF c.type = "push" THEN [n |-> c.n, late |-> c.n \in records] ELSE overlay
    /\ executed' = executed \cup {c}

(* An override replaces the one that is shown; clear_override ends whichever *)
(* is shown.                                                                 *)
HandleCommand(c) ==
    /\ overlay' = IF c.type = "push" THEN [n |-> c.n, late |-> c.n \in records]
                  ELSE [n |-> NoOverride, late |-> FALSE]
    /\ executed' = executed \cup {c}

(* Whoever waits goes on; a command that was acknowledged on a socket that   *)
(* is no longer the device's is put back in the queue with the rest.         *)
Acknowledge(m) ==
    \/ /\ m.from = "call"
       /\ call' = [call EXCEPT ![m.c] = EndedCall] /\ UNCHANGED replay
    \/ /\ m.from \in Replay
       /\ replay' = IF Active(replay[m.from].sock)
                      THEN [replay EXCEPT ![m.from].pc = "next", ![m.from].cmds = Tail(@)]
                      ELSE [replay EXCEPT ![m.from].pc = "requeue"]
       /\ UNCHANGED call
    \/ m.from = "nobody" /\ UNCHANGED <<call, replay>>

ClientReceive ==
    /\ inbox # <<>>
    /\ HandleCommand(Head(inbox).c) /\ Acknowledge(Head(inbox))
    /\ inbox' = Tail(inbox)
    /\ UNCHANGED <<fleetVars, queue, failures, connVars, faults, lost, past>>

(* The acknowledgement is lost with the connection.                          *)
AckLost ==
    /\ inbox # <<>> /\ Fault
    /\ HandleCommand(Head(inbox).c)
    /\ inbox' = <<>> /\ client' = None
    /\ UNCHANGED <<fleetVars, call, queue, replay, failures, sock, deviceSockets, initial, lost, past>>

(* A command that fails is answered with an error, however often.            *)
ClientRejects ==
    /\ inbox # <<>>
    /\ inbox' = Tail(inbox)
    /\ UNCHANGED <<fleetVars, call, queue, replay, failures, connVars, overlay, faults,
                   executed, lost, past>>

(* The revert timer.                                                         *)
OverlayExpire ==
    /\ overlay.n # NoOverride
    /\ overlay' = [n |-> NoOverride, late |-> FALSE]
    /\ UNCHANGED <<fleetVars, call, queue, replay, failures, connVars, inbox, faults,
                   executed, lost, past>>

-----------------------------------------------------------------------------
Init ==
    /\ fleet = [n \in Override |-> "idle"] /\ records = {}
    /\ call = [c \in Command |-> NoCall]
    /\ queue = <<>> /\ initial = [s \in Socket |-> FALSE]
    /\ replay = [r \in Replay |-> NoReplay] /\ failures = 0
    /\ sock = [s \in Socket |-> FALSE] /\ deviceSockets = None /\ client = None
    /\ inbox = <<>> /\ overlay = [n |-> NoOverride, late |-> FALSE]
    /\ faults = 0 /\ executed = {} /\ lost = {}
    /\ past = [unrecorded |-> {}, outlived |-> {}, underway |-> {}]

FleetStep(n) == \/ PushContent(n) \/ CreateOverride(n) \/ SendCommandFails(n)
                \/ ClearOverride(n) \/ RecordExpire(n)
SendStep(c) == SendFind(c) \/ SendEmit(c) \/ SendTimeout(c)
ReplayStep(r) == ReplayNext(r) \/ ReplayTimeout(r) \/ ReplayRequeue(r)
InitialStep(s) == InitialSkip(s) \/ \E r \in Replay : InitialDrain(s, r)
DeviceStep == ClientReceive \/ AckLost \/ ClientRejects \/ OverlayExpire

Next ==
    \/ \E n \in Override : FleetStep(n)
    \/ \E c \in Command : SendStep(c)
    \/ \E r \in Replay : ReplayStep(r) \/ ReplayThrows(r) \/ \E s \in Socket : Heartbeat(s, r)
    \/ \E s \in Socket : Connect(s) \/ InitialStep(s) \/ HandleDisconnect(s)
    \/ LoseConnection \/ GatewayRestart \/ QueueExpire \/ DeviceStep

Spec == Init /\ [][Next]_vars

-----------------------------------------------------------------------------
(* Properties                                                                *)

Awaited(m) ==
    /\ m.from = "call" => call[m.c].pc = "waiting"
    /\ m.from \in Replay => /\ replay[m.from].pc = "waiting"
                            /\ Head(replay[m.from].cmds) = m.c

(* Every variable keeps its type; who waits for an acknowledgement waits for *)
(* that of the command it emitted.                                           *)
TypeOK ==
    /\ fleet \in [Override -> {"idle", "posted", "ended"}] /\ records \subseteq Override
    /\ call \in [Command -> CallRecord] /\ queue \in Seq(Command)
    /\ initial \in [Socket -> BOOLEAN]
    /\ replay \in [Replay -> ReplayRecord] /\ failures \in Nat
    /\ sock \in [Socket -> BOOLEAN] /\ deviceSockets \in Socket \cup {None}
    /\ client \in Socket \cup {None} /\ inbox \in Seq(Message)
    /\ overlay \in [n : Override \cup {NoOverride}, late : BOOLEAN]
    /\ faults \in 0 .. MaxFaults /\ executed \subseteq Command /\ lost \subseteq Command
    /\ past \in Past
    /\ \A m \in Among(inbox) : Awaited(m)

(* The gateway keeps its promise: no timeout, lost acknowledgement, change   *)
(* of sockets or overlap of replays loses a command, and none is executed    *)
(* again after it was acknowledged to its caller or out of its replay.       *)
Promise == INSTANCE AtLeastOnce WITH
    issued <- Issued, open <- Open, dropped <- lost

KeepsPromise == Promise!Spec

(* What was cleared stays cleared, in whatever order the commands arrive,    *)
(* once its command has arrived, unless the clear was lost or the override   *)
(* itself was still on its way when it was cleared.                          *)
ClearedStaysCleared ==
    \A n \in Override :
        call[Clear(n)].pc = "done" /\ Clear(n) \notin Open /\ overlay.n = n =>
            Clear(n) \in lost \/ n \in past.underway

(* An override that is shown, after the operator was answered, can be        *)
(* cleared or is being cleared.  Exceptions: the operator was told that      *)
(* nothing was sent (unrecorded), it outlived its record, its clear was      *)
(* lost, or it arrived after its clear (underway).                           *)
ShownCanBeCleared ==
    \A n \in Override :
        overlay.n = n /\ fleet[n] = "ended" =>
            \/ n \in records \cup past.unrecorded \cup past.outlived \cup past.underway
            \/ Clear(n) \in Open \cup lost

(* The parts of the inductive invariant.  A command on its way to the device *)
(* is still kept at the gateway, or was executed or dropped before.          *)
Backed == \A m \in Among(inbox) : m.c \in Kept \cup executed \cup lost

(* Who waits for an acknowledgement waits for one message.                   *)
WaitsForOne ==
    \A i, j \in DOMAIN inbox : inbox[i] = inbox[j] /\ inbox[i].from # "nobody" => i = j

(* A replay that waits has a command, and one that has ended has none.       *)
ReplaysHold ==
    \A r \in Replay : /\ replay[r].pc = "idle" => replay[r].cmds = <<>>
                      /\ replay[r].pc = "waiting" => replay[r].cmds # <<>>

NotSentBefore == \A n \in Override : fleet[n] = "idle" => call[Push(n)].pc = "none"

(* No command is forgotten: one that was issued is on its way, or was        *)
(* executed or dropped.                                                      *)
Accounted ==
    /\ Open \cup executed \subseteq Issued
    /\ Issued \subseteq Open \cup executed \cup lost

(* An override is on record from the answer to its operator to its clear,    *)
(* unless it was never recorded or outlived its record.                      *)
OnRecord ==
    \A n \in Override :
        /\ fleet[n] = "idle" => n \notin records /\ Clear(n) \notin Issued
        /\ fleet[n] = "ended" => \/ n \in records \cup past.unrecorded \cup past.outlived
                                 \/ Clear(n) \in Issued \cup lost

(* After its clear was issued an override is on its way, and after its clear *)
(* was executed it is on the screen, only if it was so already at the clear. *)
LateOnlyUnderway ==
    \A n \in Override :
        \/ Clear(n) \in Issued /\ Push(n) \in Open
        \/ Clear(n) \in executed /\ overlay.n = n
        => n \in past.underway

(* The inductive invariant under the refinement, ClearedStaysCleared and     *)
(* ShownCanBeCleared.                                                        *)
IInv == /\ TypeOK /\ Backed /\ WaitsForOne /\ ReplaysHold /\ NotSentBefore
        /\ Accounted /\ OnRecord /\ LateOnlyUnderway
================================================================================
