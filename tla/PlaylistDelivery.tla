---------------------------- MODULE PlaylistDelivery ----------------------------
(***************************************************************************)
(* How the playlist assigned to ONE device gets to its screen: the         *)
(* middleware writes the assignment and pushes it, the gateway emits it    *)
(* and waits for the device's acknowledgement, queues in Redis what was    *)
(* not acknowledged, and replays it on connect and on heartbeat; on        *)
(* connect the device also asks for its playlist, which may be cached.     *)
(*                                                                         *)
(* An assignment is its number, in the order of the database writes.  The  *)
(* gateway's Redis commands take effect in the order they are issued (one  *)
(* connection), so a command and the code before it are one action; what   *)
(* was read before an await may be stale after it.                         *)
(***************************************************************************)
EXTENDS Integers, Sequences

CONSTANTS
    Socket,       \* socket ids the gateway hands out; a closed one is used again
    None,         \* no socket
    MaxAssign,    \* bound: assignments after the first
    MaxRequests,  \* bound: connects at which the device asks for its playlist
    MaxFailures,  \* HEARTBEAT_REPLAY_MAX_FAILURES
    MaxFaults     \* bound: lost connections and calls, failed applies, restarts

ASSUME PlaylistDeliveryAssumption ==
    /\ None \notin Socket
    /\ MaxAssign \in Nat /\ MaxRequests \in Nat
    /\ MaxFailures \in Nat \ {0} /\ MaxFaults \in Nat

VARIABLES
    assigned,       \* the row's current playlist
    push,           \* the sendPlaylistUpdate call of each assignment
    pending,        \* Redis device:pending-playlist:{id}
    cache,          \* Redis playlist:{id}
    replayVersion,  \* pendingPlaylistReplayVersions of the device
    failures,       \* heartbeatReplayState of the device: failed heartbeat replays in a row
    sock,           \* which sockets are open at the gateway
    deviceSockets,  \* the gateway's Map entry for this device
    replay,         \* sendInitialState and replayPendingDeliveries of each socket
    request,        \* the device's playlist:request on each socket
    client,         \* the Electron client: its socket, what its screen shows, its requests
    inbox,          \* what the gateway has emitted on that socket, in order
    faults,         \* faults so far
    seen,           \* history: the assignments the screen has shown
    lastPush,       \* history: the assignment whose push ended last
    overtaken,      \* history: what waited for delivery when a push was acknowledged
    lost            \* history: a queued assignment was [dropped, overwritten]

redisVars  == <<pending, cache>>
memoryVars == <<replayVersion, failures, sock, deviceSockets>>
callVars   == <<push, replay, request>>
deviceVars == <<client, inbox>>
historyVars == <<seen, lastPush, overtaken, lost>>
vars == <<assigned, redisVars, memoryVars, callVars, deviceVars, faults, historyVars>>

Assignment == 0 .. MaxAssign
NoPlaylist == -1
PlaylistOrNone == Assignment \cup {NoPlaylist}

PushRecord == [pc : {"none", "sent", "found", "waiting", "done"}, sock : Socket \cup {None}]
(* A socket's sendInitialState, and the replay of one of its heartbeats.     *)
Kind == {"initial", "heartbeat"}
Handler == Socket \X Kind
ReplayRecord == [pc : {"idle", "due", "taken", "waiting", "read", "emit"},
                 v : PlaylistOrNone, ver : Nat]
ClientRecord == [conn : Socket \cup {None}, shown : Assignment, requests : Nat]
RequestRecord == [pc : {"idle", "asked", "missed", "store", "reply"}, v : PlaylistOrNone]
(* An emitted playlist, and who waits for its acknowledgement: a push, one   *)
(* of the socket's handlers, or nobody; a "reply" is not a playlist:update.  *)
Message == [v : Assignment, from : Kind \cup {"push", "nobody", "reply"}]

NoPush == [pc |-> "none", sock |-> None]
EndedPush == [pc |-> "done", sock |-> None]
NoReplay == [pc |-> "idle", v |-> NoPlaylist, ver |-> 0]
NoRequest == [pc |-> "idle", v |-> NoPlaylist]

-----------------------------------------------------------------------------
(* Helpers                                                                   *)

Fault == faults < MaxFaults /\ faults' = faults + 1

SendTo(s, m) == inbox' = IF client.conn = s THEN Append(inbox, m) ELSE inbox
InFlight(m) == \E i \in DOMAIN inbox : inbox[i] = m

(* isActiveDeviceSocket and client.connected.                                *)
Active(s) == s # None /\ deviceSockets = s /\ sock[s]

Initial(s) == <<s, "initial">>
Beat(s) == <<s, "heartbeat">>

(* The playlist a replay has consumed and not yet disposed of.               *)
Holding(h) == replay[h].pc \in {"taken", "waiting"}
Held == {replay[h].v : h \in {x \in Handler : Holding(x)}}

(* isPendingPlaylistReplayCurrent                                            *)
Current(h) == replay[h].ver = replayVersion

Stop(h) == replay' = [replay EXCEPT ![h] = NoReplay]

(* recordHeartbeatReplayResult; sendInitialState records nothing.            *)
Record(h, requeued) ==
    failures' = IF h[2] = "initial" THEN failures
                ELSE IF requeued THEN failures + 1 ELSE 0

(* The Redis client of the gateway throws: what it was to keep is gone.      *)
Drop == lost' = [lost EXCEPT !.dropped = TRUE]

-----------------------------------------------------------------------------
(* The middleware                                                            *)

(* update, bulkAssignPlaylist or an edit of the playlist: the row is         *)
(* written, and the push is fired and forgotten; it may not arrive at all    *)
(* (open circuit, timeout), and pushes arrive in any order.                  *)
Assign ==
    /\ assigned < MaxAssign
    /\ assigned' = assigned + 1
    /\ \/ push' = [push EXCEPT ![assigned + 1].pc = "sent"] /\ UNCHANGED faults
       \/ push' = [push EXCEPT ![assigned + 1] = EndedPush] /\ Fault
    /\ UNCHANGED <<redisVars, memoryVars, replay, request, deviceVars, historyVars>>

-----------------------------------------------------------------------------
(* The gateway: sendPlaylistUpdate                                           *)

(* setPendingPlaylist and resetHeartbeatReplayBackoff.                       *)
Queue(v) ==
    /\ push' = [push EXCEPT ![v] = EndedPush]
    /\ pending' = v /\ failures' = 0 /\ lastPush' = v
    /\ UNCHANGED lost

QueueThrows(v) ==
    /\ push' = [push EXCEPT ![v] = EndedPush]
    /\ lastPush' = v
    /\ Drop /\ Fault
    /\ UNCHANGED <<pending, failures>>

(* fetchSockets: who is in the device's room, before it asks Redis for other *)
(* gateways.                                                                 *)
PushFind(v) ==
    /\ push[v].pc = "sent"
    /\ push' = [push EXCEPT ![v] = [pc |-> "found", sock |-> deviceSockets]]
    /\ UNCHANGED <<assigned, redisVars, memoryVars, replay, request, deviceVars, faults, historyVars>>

(* filterCurrentDeliverySockets, which reads the row (findUnique may throw), *)
(* and emitWithDeliveryAck.  A socket that goes in between is as one that    *)
(* went before: the playlist is queued, later.                               *)
PushEmit(v) ==
    /\ push[v].pc = "found"
    /\ \/ /\ Active(push[v].sock)
          /\ push' = [push EXCEPT ![v].pc = "waiting"]
          /\ SendTo(push[v].sock, [v |-> v, from |-> "push"])
          /\ UNCHANGED <<pending, failures, lost, lastPush, faults>>
       \/ /\ ~Active(push[v].sock)
          /\ (Queue(v) /\ UNCHANGED faults) \/ QueueThrows(v)
          /\ UNCHANGED inbox
       \/ /\ push[v].sock # None /\ Fault
          /\ push' = [push EXCEPT ![v] = EndedPush]
          /\ UNCHANGED <<pending, failures, lost, lastPush, inbox>>
    /\ UNCHANGED <<assigned, cache, replayVersion, sock, deviceSockets, replay, request,
                   client, seen, overtaken>>

(* Ten seconds without an answer, because the message is lost or, as a       *)
(* fault, because the device is slow.                                        *)
PushTimeout(v) ==
    /\ push[v].pc = "waiting"
    /\ IF InFlight([v |-> v, from |-> "push"])
         THEN Queue(v) /\ Fault
         ELSE (Queue(v) /\ UNCHANGED faults) \/ QueueThrows(v)
    /\ UNCHANGED <<assigned, cache, replayVersion, sock, deviceSockets, replay, request,
                   deviceVars, seen, overtaken>>

(* An acknowledged push ends with clearPendingPlaylist, whose failure is     *)
(* only logged.                                                              *)
Acknowledged(v) ==
    /\ push' = [push EXCEPT ![v] = EndedPush]
    /\ lastPush' = v
    /\ replayVersion' = replayVersion + 1
    /\ \/ /\ pending' = NoPlaylist
          /\ overtaken' = (overtaken \cup Held \cup {pending}) \ {NoPlaylist}
          /\ UNCHANGED faults
       \/ /\ Fault /\ overtaken' = overtaken \cup Held
          /\ UNCHANGED pending

-----------------------------------------------------------------------------
(* The gateway: deliverPendingPlaylist, from sendInitialState or a heartbeat *)

(* getPendingPlaylist consumes the queued playlist.  Nothing there, or       *)
(* "skipped": sendInitialState goes on to the row.                           *)
NotDelivered(h) ==
    replay' = [replay EXCEPT ![h] = IF h[2] = "initial"
                                      THEN [@ EXCEPT !.pc = "read", !.v = NoPlaylist]
                                      ELSE NoReplay]

(* Variant: the queued playlist is read and left where it is.                *)
ConsumeKeeps(h) ==
    /\ replay' = [replay EXCEPT ![h] = [pc |-> "taken", v |-> pending, ver |-> replayVersion]]
    /\ UNCHANGED pending

Consume(h) ==
    /\ replay' = [replay EXCEPT ![h] = [pc |-> "taken", v |-> pending, ver |-> replayVersion]]
    /\ pending' = NoPlaylist

(* Redis throws, before or after EXEC.                                       *)
ConsumeThrows ==
    /\ Fault
    /\ \/ UNCHANGED <<pending, lost>>
       \/ pending # NoPlaylist /\ pending' = NoPlaylist /\ Drop

(* Variant: nothing queued is taken for a playlist.                          *)
InitialTakeAny(s) ==
    /\ replay[Initial(s)].pc = "due" /\ Active(s)
    /\ Consume(Initial(s))
    /\ UNCHANGED <<assigned, cache, memoryVars, push, request, deviceVars, faults, historyVars>>

InitialTake(s) ==
    /\ replay[Initial(s)].pc = "due"
    /\ \/ /\ Active(s) /\ pending # NoPlaylist
          /\ Consume(Initial(s))
          /\ UNCHANGED <<faults, lost>>
       \/ /\ ~Active(s) \/ pending = NoPlaylist
          /\ NotDelivered(Initial(s))
          /\ UNCHANGED <<pending, faults, lost>>
       \/ Active(s) /\ ConsumeThrows /\ Stop(Initial(s))
    /\ UNCHANGED <<assigned, cache, memoryVars, push, request, deviceVars,
                   seen, lastPush, overtaken>>

(* handleHeartbeat ends with replayPendingDeliveries, unless too many        *)
(* replays in a row have failed.  The first heartbeat comes with the connect *)
(* and its replay runs beside sendInitialState; the next ones are 15 s apart *)
(* and a replay waits 10 s, so a socket has one of them at a time.           *)
Heartbeat(s) ==
    /\ replay[Beat(s)].pc = "idle" /\ client.conn = s /\ Active(s)
    /\ failures < MaxFailures
    /\ \/ pending # NoPlaylist /\ Consume(Beat(s)) /\ UNCHANGED <<failures, faults, lost>>
       \/ pending = NoPlaylist /\ failures' = 0 /\ UNCHANGED <<pending, replay, faults, lost>>
       \/ ConsumeThrows /\ Record(Beat(s), TRUE) /\ UNCHANGED replay
    /\ UNCHANGED <<assigned, cache, replayVersion, sock, deviceSockets, push, request,
                   deviceVars, seen, lastPush, overtaken>>

(* Variant: the version is not looked at.                                    *)
RequeueAlways(h, requeued) ==
    /\ pending' = replay[h].v /\ UNCHANGED lost
    /\ Stop(h) /\ Record(h, requeued)

(* Variant: a playlist that was not delivered is given up.                   *)
RequeueNothing(h, requeued) ==
    /\ UNCHANGED <<pending, lost>>
    /\ Stop(h) /\ Record(h, requeued)

(* requeuePendingPlaylistIfCurrent, by which a playlist that was queued      *)
(* since is overwritten; not current: "skipped".                             *)
Requeue(h, requeued) ==
    \/ /\ Current(h)
       /\ pending' = replay[h].v
       /\ lost' = [lost EXCEPT !.overwritten = @ \/ pending # NoPlaylist]
       /\ Stop(h) /\ Record(h, requeued)
    \/ /\ ~Current(h)
       /\ NotDelivered(h) /\ Record(h, FALSE)
       /\ UNCHANGED <<pending, lost>>

(* Redis or SQL throws after the playlist was consumed.                      *)
ReplayThrows(h) ==
    /\ Fault /\ Drop
    /\ Stop(h) /\ Record(h, TRUE)
    /\ UNCHANGED pending

(* The row's metadata has been read: the playlist is emitted, unless a push  *)
(* was acknowledged in between or the socket is no longer the device's.      *)
ReplayEmit(h) ==
    /\ replay[h].pc = "taken"
    /\ \/ /\ Current(h) /\ Active(h[1])
          /\ replay' = [replay EXCEPT ![h].pc = "waiting"]
          /\ SendTo(h[1], [v |-> replay[h].v, from |-> h[2]])
          /\ UNCHANGED <<pending, failures, lost, faults>>
       \/ /\ ~(Current(h) /\ Active(h[1]))
          /\ Requeue(h, FALSE)
          /\ UNCHANGED <<inbox, faults>>
       \/ ReplayThrows(h) /\ UNCHANGED inbox
    /\ UNCHANGED <<assigned, cache, replayVersion, sock, deviceSockets, push, request,
                   client, seen, lastPush, overtaken>>

(* Nobody waits any longer for what is still on its way.                     *)
Forget(h) == inbox' = IF client.conn # h[1] THEN inbox
                      ELSE [i \in DOMAIN inbox |->
                              IF inbox[i].from = h[2] THEN [inbox[i] EXCEPT !.from = "nobody"]
                              ELSE inbox[i]]

ReplayInFlight(h) == client.conn = h[1] /\ \E i \in DOMAIN inbox : inbox[i].from = h[2]

(* As PushTimeout.  A playlist that was not acknowledged in time is requeued *)
(* and counts as a failed replay; on a socket that is no longer the device's *)
(* it is requeued, and does not count.                                       *)
ReplayTimeout(h) ==
    /\ replay[h].pc = "waiting"
    /\ \/ ReplayInFlight(h) /\ Fault /\ Requeue(h, Active(h[1])) /\ Forget(h)
       \/ ~ReplayInFlight(h) /\ Requeue(h, Active(h[1])) /\ UNCHANGED <<inbox, faults>>
       \/ ~ReplayInFlight(h) /\ Current(h) /\ ReplayThrows(h) /\ UNCHANGED inbox
    /\ UNCHANGED <<assigned, cache, replayVersion, sock, deviceSockets, push, request,
                   client, seen, lastPush, overtaken>>

(* The rest of sendInitialState: the row is read, the playlist resolved and  *)
(* emitted without waiting for an acknowledgement.                           *)
InitialRead(s) ==
    /\ replay[Initial(s)].pc = "read"
    /\ \/ /\ replay' = [replay EXCEPT ![Initial(s)].pc = "emit", ![Initial(s)].v = assigned]
          /\ UNCHANGED faults
       \/ Stop(Initial(s)) /\ Fault
    /\ UNCHANGED <<assigned, redisVars, memoryVars, push, request, deviceVars, historyVars>>

InitialEmit(s) ==
    /\ replay[Initial(s)].pc = "emit"
    /\ SendTo(s, [v |-> replay[Initial(s)].v, from |-> "nobody"])
    /\ Stop(Initial(s))
    /\ UNCHANGED <<assigned, redisVars, memoryVars, push, request, client, faults, historyVars>>

-----------------------------------------------------------------------------
(* The gateway: handlePlaylistRequest, getDevicePlaylist                     *)

(* The cached playlist, which lives for an hour and which no assignment      *)
(* invalidates.  Any failure answers with no playlist, which is ignored.     *)
RequestCache(s) ==
    /\ request[s].pc = "asked"
    /\ \/ /\ request' = [request EXCEPT ![s] =
                            IF cache = NoPlaylist THEN [pc |-> "missed", v |-> NoPlaylist]
                            ELSE [pc |-> "reply", v |-> cache]]
          /\ UNCHANGED faults
       \/ Fault /\ request' = [request EXCEPT ![s] = NoRequest]
    /\ UNCHANGED <<assigned, redisVars, memoryVars, push, replay, deviceVars, historyVars>>

RequestRead(s) ==
    /\ request[s].pc = "missed"
    /\ request' = [request EXCEPT ![s] = [pc |-> "store", v |-> assigned]]
    /\ UNCHANGED <<assigned, redisVars, memoryVars, push, replay, deviceVars, faults, historyVars>>

RequestStore(s) ==
    /\ request[s].pc = "store"
    /\ cache' = request[s].v
    /\ request' = [request EXCEPT ![s].pc = "reply"]
    /\ UNCHANGED <<assigned, pending, memoryVars, push, replay, deviceVars, faults, historyVars>>

RequestReply(s) ==
    /\ request[s].pc = "reply"
    /\ SendTo(s, [v |-> request[s].v, from |-> "reply"])
    /\ request' = [request EXCEPT ![s] = NoRequest]
    /\ UNCHANGED <<assigned, redisVars, memoryVars, push, replay, client, faults, historyVars>>

-----------------------------------------------------------------------------
(* Connections                                                               *)

(* The client connects and asks for its playlist; the gateway disconnects    *)
(* the socket of the Map entry, makes this one the entry, and runs           *)
(* sendInitialState.                                                         *)
Connect(s) ==
    /\ client.conn = None /\ ~sock[s]
    /\ \A k \in Kind : replay[<<s, k>>].pc = "idle"
    /\ request[s].pc = "idle"
    /\ \A v \in Assignment : push[v].sock # s
    /\ IF client.requests < MaxRequests
         THEN /\ client' = [client EXCEPT !.conn = s, !.requests = @ + 1]
              /\ request' = [request EXCEPT ![s] = [NoRequest EXCEPT !.pc = "asked"]]
         ELSE client' = [client EXCEPT !.conn = s] /\ UNCHANGED request
    /\ sock' = [x \in Socket |-> x = s \/ (sock[x] /\ x # deviceSockets)]
    /\ deviceSockets' = s
    /\ replay' = [replay EXCEPT ![Initial(s)] = [NoReplay EXCEPT !.pc = "due"]]
    /\ UNCHANGED <<assigned, redisVars, replayVersion, failures, push, inbox, faults, historyVars>>

HandleDisconnect(s) ==
    /\ sock[s] /\ client.conn # s
    /\ sock' = [sock EXCEPT ![s] = FALSE]
    /\ deviceSockets' = IF deviceSockets = s THEN None ELSE deviceSockets
    /\ UNCHANGED <<assigned, redisVars, replayVersion, failures, callVars, deviceVars,
                   faults, historyVars>>

(* The client's side of a connection ends, with everything on its way to it. *)
Gone(shown) ==
    /\ client' = [client EXCEPT !.conn = None, !.shown = shown]
    /\ seen' = seen \cup {shown}
    /\ inbox' = <<>>

LoseConnection ==
    /\ client.conn # None
    /\ Fault
    /\ Gone(client.shown)
    /\ UNCHANGED <<assigned, redisVars, memoryVars, callVars, lastPush, overtaken, lost>>

(* Its Maps, sockets and running handlers go, with the playlists they hold.  *)
GatewayRestart ==
    /\ Fault
    /\ push' = [v \in Assignment |-> IF push[v].pc = "none" THEN NoPush ELSE EndedPush]
    /\ replay' = [h \in Handler |-> NoReplay]
    /\ request' = [s \in Socket |-> NoRequest]
    /\ sock' = [s \in Socket |-> FALSE] /\ deviceSockets' = None
    /\ replayVersion' = 0 /\ failures' = 0
    /\ Gone(client.shown)
    /\ lost' = [lost EXCEPT !.dropped = @ \/ Held # {}]
    /\ UNCHANGED <<assigned, redisVars, lastPush, overtaken>>

-----------------------------------------------------------------------------
(* The device: playlist:update is rendered and then acknowledged             *)

(* A replay's wait ends with an acknowledgement.                             *)
Delivered(h) ==
    IF Current(h) /\ Active(h[1])
      THEN Stop(h) /\ Record(h, FALSE) /\ UNCHANGED <<pending, lost>>
      ELSE Requeue(h, FALSE)

Waiting(m) == m.from = "push" /\ push[m.v].pc = "waiting"

ClientReceive ==
    /\ inbox # <<>>
    /\ LET m == Head(inbox) IN
         /\ client' = [client EXCEPT !.shown = m.v]
         /\ seen' = seen \cup {m.v}
         /\ \/ /\ Waiting(m) /\ Acknowledged(m.v)
               /\ UNCHANGED <<replay, failures, lost>>
            \/ /\ m.from \in Kind /\ Delivered(<<client.conn, m.from>>)
               /\ UNCHANGED <<push, replayVersion, lastPush, overtaken, faults>>
            \/ /\ ~Waiting(m) /\ m.from \notin Kind
               /\ UNCHANGED <<push, replay, replayVersion, failures, pending, lastPush,
                              overtaken, lost, faults>>
    /\ inbox' = Tail(inbox)
    /\ UNCHANGED <<assigned, cache, sock, deviceSockets, request>>

(* The acknowledgement is lost with the connection.                          *)
AckLost ==
    /\ inbox # <<>>
    /\ Fault
    /\ Gone(Head(inbox).v)
    /\ UNCHANGED <<assigned, redisVars, memoryVars, callVars, lastPush, overtaken, lost>>

(* The renderer fails, or applies the playlist and answers too late: a       *)
(* negative acknowledgement, and reconnectForPendingDelivery.                *)
ClientRejects ==
    /\ inbox # <<>> /\ Head(inbox).from # "reply"
    /\ Fault
    /\ LET m == Head(inbox) IN
         /\ \E shown \in {client.shown, m.v} : Gone(shown)
         /\ \/ Waiting(m) /\ Queue(m.v) /\ UNCHANGED replay
            \/ /\ m.from \in Kind /\ Requeue(<<client.conn, m.from>>, Active(client.conn))
               /\ UNCHANGED <<push, lastPush>>
            \/ /\ ~Waiting(m) /\ m.from \notin Kind
               /\ UNCHANGED <<push, replay, failures, pending, lastPush, lost>>
    /\ UNCHANGED <<assigned, cache, replayVersion, sock, deviceSockets, request, overtaken>>

-----------------------------------------------------------------------------
(* Redis                                                                     *)

(* Thirty minutes: the device is away, or its replays have stopped.          *)
PendingExpire ==
    /\ pending # NoPlaylist
    /\ client.conn = None \/ failures >= MaxFailures
    /\ pending' = NoPlaylist /\ Drop
    /\ UNCHANGED <<assigned, cache, memoryVars, callVars, deviceVars, faults,
                   seen, lastPush, overtaken>>

CacheExpire ==
    /\ cache # NoPlaylist
    /\ cache' = NoPlaylist
    /\ UNCHANGED <<assigned, pending, memoryVars, callVars, deviceVars, faults, historyVars>>

-----------------------------------------------------------------------------
(* The device shows the playlist it was paired with, which it may have asked *)
(* for within the hour, and is not connected.                                *)
Init ==
    /\ assigned = 0
    /\ push = [v \in Assignment |-> NoPush]
    /\ pending = NoPlaylist /\ cache \in {NoPlaylist, 0}
    /\ replayVersion = 0 /\ failures = 0
    /\ sock = [s \in Socket |-> FALSE] /\ deviceSockets = None
    /\ replay = [h \in Handler |-> NoReplay]
    /\ request = [s \in Socket |-> NoRequest]
    /\ client = [conn |-> None, shown |-> 0, requests |-> 0] /\ inbox = <<>>
    /\ faults = 0
    /\ seen = {0} /\ lastPush = NoPlaylist /\ overtaken = {}
    /\ lost = [dropped |-> FALSE, overwritten |-> FALSE]

PushStep(v) == PushFind(v) \/ PushEmit(v) \/ PushTimeout(v)
ReplayStep(h) == ReplayEmit(h) \/ ReplayTimeout(h)
InitialStep(s) == InitialTake(s) \/ InitialRead(s) \/ InitialEmit(s)
RequestStep(s) == RequestCache(s) \/ RequestRead(s) \/ RequestStore(s) \/ RequestReply(s)

Next ==
    \/ Assign \/ ClientReceive \/ AckLost \/ ClientRejects
    \/ LoseConnection \/ GatewayRestart \/ PendingExpire \/ CacheExpire
    \/ \E v \in Assignment : PushStep(v)
    \/ \E h \in Handler : ReplayStep(h)
    \/ \E s \in Socket : \/ InitialStep(s) \/ RequestStep(s) \/ Heartbeat(s)
                          \/ Connect(s) \/ HandleDisconnect(s)

Spec == Init /\ [][Next]_vars

(* Handlers run to their end, what was emitted arrives, and the client       *)
(* reconnects for ever and heartbeats while connected.                       *)
FairSpec ==
    /\ Spec
    /\ WF_vars(ClientReceive) /\ WF_vars(\E s \in Socket : Connect(s))
    /\ \A v \in Assignment : WF_vars(PushStep(v))
    /\ \A h \in Handler : WF_vars(ReplayStep(h))
    /\ \A s \in Socket : /\ WF_vars(InitialStep(s)) /\ WF_vars(RequestStep(s))
                          /\ WF_vars(Heartbeat(s)) /\ WF_vars(HandleDisconnect(s))

-----------------------------------------------------------------------------
(* Properties                                                                *)

(* Every variable keeps its type; in particular what is emitted is a         *)
(* playlist.                                                                 *)
TypeOK ==
    /\ assigned \in Assignment /\ push \in [Assignment -> PushRecord]
    /\ pending \in PlaylistOrNone /\ cache \in PlaylistOrNone
    /\ replayVersion \in Nat /\ failures \in Nat
    /\ sock \in [Socket -> BOOLEAN] /\ deviceSockets \in Socket \cup {None}
    /\ replay \in [Handler -> ReplayRecord] /\ request \in [Socket -> RequestRecord]
    /\ client \in ClientRecord
    /\ inbox \in Seq(Message) /\ faults \in 0 .. MaxFaults
    /\ seen \subseteq Assignment /\ lastPush \in PlaylistOrNone
    /\ overtaken \subseteq Assignment
    /\ lost \in [dropped : BOOLEAN, overwritten : BOOLEAN]

(* The playlist whose push ended last has been on the screen, is queued, or  *)
(* is in the hands of a replay: between the atomic consume and the requeue   *)
(* no socket change, lost acknowledgement or failed apply loses it.  Redis   *)
(* and SQL failures and a restart may (dropped), and so may the requeue of   *)
(* an older playlist over it (overwritten).                                  *)
NothingLost ==
    \/ lost.dropped \/ lost.overwritten
    \/ lastPush \in {NoPlaylist, pending} \cup seen \cup Held

(* What was queued, or held by a replay, when a push was acknowledged is not *)
(* queued again (isPendingPlaylistReplayCurrent).                            *)
OvertakenStaysOut == pending \notin overtaken

(* The parts of the inductive invariant.  A handler that emits has a playlist *)
(* to emit,                                                                  *)
CallsHold ==
    /\ \A h \in Handler :
          (Holding(h) \/ replay[h].pc = "emit") => replay[h].v \in Assignment
    /\ \A s \in Socket :
          request[s].pc \in {"store", "reply"} => request[s].v \in Assignment

(* what is not assigned yet was not pushed; what is queued, held or overtaken *)
(* is a playlist whose push has ended,                                       *)
NotPushedBefore == \A v \in Assignment : v > assigned => push[v].pc = "none"
PushEnded == \A v \in ({pending} \cup Held \cup overtaken) \ {NoPlaylist} : push[v].pc = "done"

(* a playlist is queued or in the hands of one replay only; a replay whose   *)
(* version is still current holds one that was not overtaken, and one whose  *)
(* version is not holds another than the last push,                          *)
HeldOnce ==
    \A h \in Handler : Holding(h) =>
        /\ replay[h].v # pending
        /\ \A g \in Handler : (Holding(g) /\ replay[g].v = replay[h].v) => g = h
        /\ replay[h].ver <= replayVersion
        /\ IF Current(h) THEN replay[h].v \notin overtaken ELSE replay[h].v # lastPush

(* and a replay on its way to the device is the one a handler of its socket  *)
(* waits for.                                                                *)
ReplaysAwaited ==
    /\ inbox # <<>> => client.conn # None
    /\ \A i \in DOMAIN inbox : inbox[i].from \in Kind =>
          /\ replay[<<client.conn, inbox[i].from>>].pc = "waiting"
          /\ replay[<<client.conn, inbox[i].from>>].v = inbox[i].v
          /\ \A j \in DOMAIN inbox : inbox[j].from = inbox[i].from => i = j

(* The inductive invariant under NothingLost and OvertakenStaysOut.          *)
IInv == /\ TypeOK /\ CallsHold /\ NotPushedBefore /\ PushEnded /\ HeldOnce /\ ReplaysAwaited
        /\ NothingLost /\ OvertakenStaysOut

(* The claim of playlists.service.ts:558-560 (a display that missed a push   *)
(* keeps its old content "until it happens to reconnect (which re-reads the  *)
(* DB)"): a device that connects when no assignment is on its way, and       *)
(* nothing fails after that, ends up showing the row's playlist for as long  *)
(* as it stays connected.                                                    *)
Quiet == /\ assigned = MaxAssign /\ push[MaxAssign].pc = "done" /\ pending = NoPlaylist
         /\ Held = {} /\ faults = MaxFaults
JustConnected(s) == client.conn = s /\ replay[Initial(s)].pc = "due" /\ request[s].pc = "asked"

ReconnectRereads ==
    \A s \in Socket :
        (JustConnected(s) /\ Quiet) ~> [](client.shown = assigned \/ client.conn # s)
================================================================================
