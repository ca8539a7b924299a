------------------------- MODULE PlaylistDeliveryProofs -------------------------
(***************************************************************************)
(* Theorems about PlaylistDelivery: its types, and that neither a change   *)
(* of sockets, a lost acknowledgement nor a failed apply loses the         *)
(* playlist pushed last or brings back one that was overtaken, for any     *)
(* sockets, assignments and faults.                                        *)
(***************************************************************************)
EXTENDS PlaylistDelivery, TLAPS

(* The part of the invariant about where playlists are,                      *)
Ledger == PushEnded /\ HeldOnce /\ NothingLost /\ OvertakenStaysOut

(* and the same one handler at a time.                                       *)
Somewhere ==
    \/ lost.dropped \/ lost.overwritten
    \/ lastPush \in {NoPlaylist, pending} \cup seen
    \/ \E h \in Handler : Holding(h) /\ replay[h].v = lastPush
LedgerByHandler ==
    /\ pending # NoPlaylist => push[pending].pc = "done"
    /\ \A h \in Handler : Holding(h) => push[replay[h].v].pc = "done"
    /\ \A v \in overtaken : push[v].pc = "done"
    /\ HeldOnce /\ Somewhere /\ OvertakenStaysOut

-----------------------------------------------------------------------------
(* Sequences                                                                 *)

LEMMA IsASeqOf ==
    ASSUME NEW S, NEW n \in Nat, NEW f \in [1 .. n -> S] PROVE f \in Seq(S)
  OBVIOUS

-----------------------------------------------------------------------------
(* Handlers                                                                  *)

LEMMA HandlersOf ==
    ASSUME NEW s \in Socket
    PROVE  /\ Initial(s) \in Handler /\ Beat(s) \in Handler /\ Initial(s) # Beat(s)
           /\ \A k \in Kind : <<s, k>> \in Handler
  BY DEF Initial, Beat, Handler, Kind

LEMMA HandlerParts ==
    ASSUME NEW h \in Handler PROVE h[1] \in Socket /\ h[2] \in Kind /\ h = <<h[1], h[2]>>
  BY DEF Handler

-----------------------------------------------------------------------------
(* Types                                                                     *)

LEMMA NoPlaylistApart == NoPlaylist \notin Assignment /\ Assignment \subseteq Nat
  BY PlaylistDeliveryAssumption DEF NoPlaylist, Assignment

LEMMA RecordsTyped ==
    /\ NoPush \in PushRecord /\ EndedPush \in PushRecord
    /\ NoReplay \in ReplayRecord /\ NoRequest \in RequestRecord
  BY DEF NoPush, EndedPush, NoReplay, NoRequest, PushRecord, ReplayRecord, RequestRecord,
         PlaylistOrNone

(* A message is appended to the inbox of the connected socket only.          *)
LEMMA SendTyped ==
    ASSUME TypeOK, NEW s, NEW m \in Message, SendTo(s, m)
    PROVE  inbox' \in Seq(Message)
  BY DEF TypeOK, SendTo

LEMMA FaultTyped ==
    ASSUME TypeOK, Fault \/ UNCHANGED faults PROVE faults' \in 0 .. MaxFaults
  BY PlaylistDeliveryAssumption DEF TypeOK, Fault

LEMMA InitTypes == Init => TypeOK
  BY PlaylistDeliveryAssumption, RecordsTyped
     DEF Init, TypeOK, Assignment, PlaylistOrNone, NoPlaylist, Message

LEMMA AssignTypes ==
    ASSUME TypeOK, Assign PROVE TypeOK'
<1>1. assigned + 1 \in Assignment
  BY PlaylistDeliveryAssumption DEF Assign, Assignment, TypeOK
<1>2. push' \in [Assignment -> PushRecord]
  <2>1. [push[assigned + 1] EXCEPT !.pc = "sent"] \in PushRecord
    BY <1>1 DEF TypeOK, PushRecord
  <2>2. push' \in {[push EXCEPT ![assigned + 1].pc = "sent"],
                   [push EXCEPT ![assigned + 1] = EndedPush]}
    BY DEF Assign
  <2> QED
    BY <1>1, <2>1, <2>2, RecordsTyped DEF TypeOK
<1>3. faults' \in 0 .. MaxFaults
  BY FaultTyped DEF Assign
<1> QED
  BY <1>1, <1>2, <1>3
     DEF Assign, TypeOK, redisVars, memoryVars, deviceVars, historyVars

LEMMA QueueTypes ==
    ASSUME TypeOK, NEW v \in Assignment, Queue(v) \/ QueueThrows(v)
    PROVE  /\ push' \in [Assignment -> PushRecord] /\ pending' \in PlaylistOrNone
           /\ failures' \in Nat /\ lastPush' \in PlaylistOrNone
           /\ lost' \in [dropped : BOOLEAN, overwritten : BOOLEAN]
<1>1. push' \in [Assignment -> PushRecord] /\ lastPush' \in PlaylistOrNone
  BY RecordsTyped DEF TypeOK, Queue, QueueThrows, PlaylistOrNone
<1>2. pending' \in PlaylistOrNone /\ failures' \in Nat
  BY DEF TypeOK, Queue, QueueThrows, PlaylistOrNone
<1>3. lost' \in [dropped : BOOLEAN, overwritten : BOOLEAN]
  BY DEF TypeOK, Queue, QueueThrows, Drop
<1> QED
  BY <1>1, <1>2, <1>3

LEMMA PushFindTypes ==
    ASSUME TypeOK, NEW v \in Assignment, PushFind(v) PROVE TypeOK'
<1>1. push' \in [Assignment -> PushRecord]
  BY DEF TypeOK, PushFind, PushRecord
<1> QED
  BY <1>1 DEF PushFind, TypeOK, redisVars, memoryVars, deviceVars, historyVars

LEMMA PushEmitTypes ==
    ASSUME TypeOK, NEW v \in Assignment, PushEmit(v) PROVE TypeOK'
<1> DEFINE m == [v |-> v, from |-> "push"]
<1>1. CASE Active(push[v].sock) /\ push' = [push EXCEPT ![v].pc = "waiting"]
           /\ SendTo(push[v].sock, m) /\ UNCHANGED <<pending, failures, lost, lastPush, faults>>
  <2>1. m \in Message
    BY DEF Message
  <2>2. inbox' \in Seq(Message)
    BY <1>1, <2>1, SendTyped
  <2>3. push' \in [Assignment -> PushRecord]
    BY <1>1 DEF TypeOK, PushRecord
  <2> QED
    BY <1>1, <2>2, <2>3 DEF PushEmit, TypeOK
<1>2. CASE ((Queue(v) /\ UNCHANGED faults) \/ QueueThrows(v)) /\ UNCHANGED inbox
  <2>1. faults' \in 0 .. MaxFaults
    BY <1>2, FaultTyped DEF QueueThrows
  <2> QED
    BY <1>2, <2>1, QueueTypes DEF PushEmit, TypeOK
<1>3. CASE Fault /\ push' = [push EXCEPT ![v] = EndedPush]
           /\ UNCHANGED <<pending, failures, lost, lastPush, inbox>>
  <2>1. faults' \in 0 .. MaxFaults
    BY <1>3, FaultTyped
  <2>2. push' \in [Assignment -> PushRecord]
    BY <1>3, RecordsTyped DEF TypeOK
  <2> QED
    BY <1>3, <2>1, <2>2 DEF PushEmit, TypeOK
<1> QED
  BY <1>1, <1>2, <1>3 DEF PushEmit

LEMMA PushTimeoutTypes ==
    ASSUME TypeOK, NEW v \in Assignment, PushTimeout(v) PROVE TypeOK'
<1>1. Queue(v) \/ QueueThrows(v)
  BY DEF PushTimeout
<1>2. faults' \in 0 .. MaxFaults
  BY FaultTyped DEF PushTimeout, QueueThrows
<1> QED
  BY <1>1, <1>2, QueueTypes DEF PushTimeout, TypeOK, deviceVars

LEMMA HeldTyped ==
    ASSUME CallsHold PROVE Held \subseteq Assignment
  BY DEF CallsHold, Held

LEMMA AcknowledgedTypes ==
    ASSUME TypeOK, CallsHold, NEW v \in Assignment, Acknowledged(v)
    PROVE  /\ push' \in [Assignment -> PushRecord] /\ pending' \in PlaylistOrNone
           /\ replayVersion' \in Nat /\ lastPush' \in PlaylistOrNone
           /\ overtaken' \subseteq Assignment /\ faults' \in 0 .. MaxFaults
<1>1. push' \in [Assignment -> PushRecord]
  BY RecordsTyped DEF TypeOK, Acknowledged
<1>2. /\ pending' \in PlaylistOrNone /\ lastPush' \in PlaylistOrNone
      /\ replayVersion' \in Nat
  BY DEF TypeOK, Acknowledged, PlaylistOrNone
<1>3. overtaken' \subseteq Assignment
  BY HeldTyped DEF TypeOK, Acknowledged, PlaylistOrNone
<1>4. faults' \in 0 .. MaxFaults
  BY FaultTyped DEF Acknowledged
<1> QED
  BY <1>1, <1>2, <1>3, <1>4

LEMMA StopTypes ==
    ASSUME TypeOK, NEW h \in Handler, Stop(h) PROVE replay' \in [Handler -> ReplayRecord]
  BY RecordsTyped DEF TypeOK, Stop

LEMMA NotDeliveredTypes ==
    ASSUME TypeOK, NEW h \in Handler, NotDelivered(h)
    PROVE  replay' \in [Handler -> ReplayRecord]
<1> DEFINE r == [replay[h] EXCEPT !.pc = "read", !.v = NoPlaylist]
<1>1. replay[h] \in ReplayRecord
  BY DEF TypeOK
<1>2. r \in ReplayRecord
  BY <1>1 DEF ReplayRecord, PlaylistOrNone
<1>3. replay' \in {[replay EXCEPT ![h] = r], [replay EXCEPT ![h] = NoReplay]}
  BY DEF NotDelivered, TypeOK
<1> QED
  BY <1>2, <1>3, RecordsTyped DEF TypeOK

LEMMA ConsumeTypes ==
    ASSUME TypeOK, NEW h \in Handler, Consume(h)
    PROVE  replay' \in [Handler -> ReplayRecord] /\ pending' \in PlaylistOrNone
  BY DEF TypeOK, Consume, ReplayRecord, PlaylistOrNone

LEMMA RecordTypes ==
    ASSUME TypeOK, NEW s, NEW b, Record(s, b) PROVE failures' \in Nat
  BY DEF TypeOK, Record

LEMMA RequeueTypes ==
    ASSUME TypeOK, NEW h \in Handler, NEW b, Requeue(h, b)
    PROVE  /\ replay' \in [Handler -> ReplayRecord] /\ pending' \in PlaylistOrNone
           /\ failures' \in Nat
           /\ lost' \in [dropped : BOOLEAN, overwritten : BOOLEAN]
<1>1. CASE /\ pending' = replay[h].v /\ Stop(h) /\ Record(h, b)
           /\ lost' = [lost EXCEPT !.overwritten = @ \/ pending # NoPlaylist]
  <2>1. replay[h].v \in PlaylistOrNone
    BY DEF TypeOK, ReplayRecord
  <2>2. lost' \in [dropped : BOOLEAN, overwritten : BOOLEAN]
    BY <1>1 DEF TypeOK
  <2> QED
    BY <1>1, <2>1, <2>2, StopTypes, RecordTypes
<1>2. CASE NotDelivered(h) /\ Record(h, FALSE) /\ UNCHANGED <<pending, lost>>
  BY <1>2, NotDeliveredTypes, RecordTypes DEF TypeOK
<1> QED
  BY <1>1, <1>2 DEF Requeue

LEMMA ReplayThrowsTypes ==
    ASSUME TypeOK, NEW h \in Handler, ReplayThrows(h)
    PROVE  /\ replay' \in [Handler -> ReplayRecord] /\ pending' \in PlaylistOrNone
           /\ failures' \in Nat /\ faults' \in 0 .. MaxFaults
           /\ lost' \in [dropped : BOOLEAN, overwritten : BOOLEAN]
<1>1. lost' \in [dropped : BOOLEAN, overwritten : BOOLEAN]
  BY DEF TypeOK, ReplayThrows, Drop
<1>2. faults' \in 0 .. MaxFaults
  BY FaultTyped DEF ReplayThrows
<1> QED
  BY <1>1, <1>2, StopTypes, RecordTypes DEF ReplayThrows, TypeOK

LEMMA ConsumeThrowsTypes ==
    ASSUME TypeOK, ConsumeThrows
    PROVE  /\ pending' \in PlaylistOrNone /\ faults' \in 0 .. MaxFaults
           /\ lost' \in [dropped : BOOLEAN, overwritten : BOOLEAN]
<1>1. faults' \in 0 .. MaxFaults
  BY FaultTyped DEF ConsumeThrows
<1>2. /\ pending' \in PlaylistOrNone
      /\ lost' \in [dropped : BOOLEAN, overwritten : BOOLEAN]
  BY DEF ConsumeThrows, TypeOK, Drop, PlaylistOrNone
<1> QED
  BY <1>1, <1>2

LEMMA InitialTakeTypes ==
    ASSUME TypeOK, NEW s \in Socket, InitialTake(s) PROVE TypeOK'
<1>1. /\ replay' \in [Handler -> ReplayRecord] /\ pending' \in PlaylistOrNone
      /\ lost' \in [dropped : BOOLEAN, overwritten : BOOLEAN]
      /\ faults' \in 0 .. MaxFaults
  <2>1. CASE Consume(Initial(s)) /\ UNCHANGED <<faults, lost>>
    BY <2>1, HandlersOf, ConsumeTypes DEF TypeOK
  <2>2. CASE NotDelivered(Initial(s)) /\ UNCHANGED <<pending, faults, lost>>
    BY <2>2, HandlersOf, NotDeliveredTypes DEF TypeOK
  <2>3. CASE ConsumeThrows /\ Stop(Initial(s))
    BY <2>3, HandlersOf, StopTypes, ConsumeThrowsTypes
  <2> QED
    BY <2>1, <2>2, <2>3 DEF InitialTake
<1> QED
  BY <1>1 DEF InitialTake, TypeOK, memoryVars, deviceVars

LEMMA HeartbeatTypes ==
    ASSUME TypeOK, NEW s \in Socket, Heartbeat(s) PROVE TypeOK'
<1>1. /\ replay' \in [Handler -> ReplayRecord] /\ pending' \in PlaylistOrNone
      /\ failures' \in Nat /\ faults' \in 0 .. MaxFaults
      /\ lost' \in [dropped : BOOLEAN, overwritten : BOOLEAN]
  <2>1. CASE Consume(Beat(s)) /\ UNCHANGED <<failures, faults, lost>>
    BY <2>1, HandlersOf, ConsumeTypes DEF TypeOK
  <2>2. CASE failures' = 0 /\ UNCHANGED <<pending, replay, faults, lost>>
    BY <2>2 DEF TypeOK
  <2>3. CASE ConsumeThrows /\ Record(Beat(s), TRUE) /\ UNCHANGED replay
    BY <2>3, ConsumeThrowsTypes, RecordTypes DEF TypeOK
  <2> QED
    BY <2>1, <2>2, <2>3 DEF Heartbeat
<1> QED
  BY <1>1 DEF Heartbeat, TypeOK, deviceVars

LEMMA ReplayEmitTypes ==
    ASSUME TypeOK, CallsHold, NEW h \in Handler, ReplayEmit(h) PROVE TypeOK'
<1> DEFINE m == [v |-> replay[h].v, from |-> h[2]]
<1>1. CASE replay' = [replay EXCEPT ![h].pc = "waiting"] /\ SendTo(h[1], m)
           /\ UNCHANGED <<pending, failures, lost, faults>>
  <2>1. m \in Message
    BY HandlerParts DEF CallsHold, Holding, Message, ReplayEmit
  <2>2. inbox' \in Seq(Message)
    BY <1>1, <2>1, SendTyped
  <2>3. replay' \in [Handler -> ReplayRecord]
    BY <1>1 DEF TypeOK, ReplayRecord
  <2> QED
    BY <1>1, <2>2, <2>3 DEF ReplayEmit, TypeOK
<1>2. CASE Requeue(h, FALSE) /\ UNCHANGED <<inbox, faults>>
  BY <1>2, RequeueTypes DEF ReplayEmit, TypeOK
<1>3. CASE ReplayThrows(h) /\ UNCHANGED inbox
  BY <1>3, ReplayThrowsTypes DEF ReplayEmit, TypeOK
<1> QED
  BY <1>1, <1>2, <1>3 DEF ReplayEmit

LEMMA ForgetTypes ==
    ASSUME TypeOK, NEW h, Forget(h) PROVE inbox' \in Seq(Message)
<1>1. CASE inbox' = inbox
  BY <1>1 DEF TypeOK
<1>2. CASE inbox' = [i \in DOMAIN inbox |->
                      IF inbox[i].from = h[2] THEN [inbox[i] EXCEPT !.from = "nobody"]
                      ELSE inbox[i]]
  <2>1. /\ DOMAIN inbox = 1 .. Len(inbox) /\ Len(inbox) \in Nat
        /\ \A i \in DOMAIN inbox : inbox[i] \in Message
    BY DEF TypeOK
  <2>2. \A i \in DOMAIN inbox : [inbox[i] EXCEPT !.from = "nobody"] \in Message
    BY <2>1 DEF Message
  <2>3. inbox' \in [1 .. Len(inbox) -> Message]
    BY <1>2, <2>1, <2>2
  <2> QED
    BY <2>1, <2>3, IsASeqOf
<1> QED
  BY <1>1, <1>2 DEF Forget

LEMMA ReplayTimeoutTypes ==
    ASSUME TypeOK, NEW h \in Handler, ReplayTimeout(h) PROVE TypeOK'
<1>1. /\ replay' \in [Handler -> ReplayRecord] /\ pending' \in PlaylistOrNone
      /\ failures' \in Nat
      /\ lost' \in [dropped : BOOLEAN, overwritten : BOOLEAN]
  BY RequeueTypes, ReplayThrowsTypes DEF ReplayTimeout
<1>2. inbox' \in Seq(Message)
  BY ForgetTypes DEF ReplayTimeout, TypeOK
<1>3. faults' \in 0 .. MaxFaults
  BY FaultTyped DEF ReplayTimeout, ReplayThrows
<1> QED
  BY <1>1, <1>2, <1>3 DEF ReplayTimeout, TypeOK

LEMMA InitialReadTypes ==
    ASSUME TypeOK, NEW s \in Socket, InitialRead(s) PROVE TypeOK'
<1> DEFINE h == Initial(s)
<1>0. h \in Handler
  BY HandlersOf
<1>1. replay' \in [Handler -> ReplayRecord]
  <2>1. CASE replay' = [replay EXCEPT ![h].pc = "emit", ![h].v = assigned]
    <3>1. [replay[h] EXCEPT !.pc = "emit", !.v = assigned] \in ReplayRecord
      BY <1>0 DEF TypeOK, ReplayRecord, PlaylistOrNone
    <3> QED
      BY <1>0, <2>1, <3>1 DEF TypeOK
  <2> QED
    BY <1>0, <2>1, StopTypes DEF InitialRead
<1>2. faults' \in 0 .. MaxFaults
  BY FaultTyped DEF InitialRead
<1> QED
  BY <1>1, <1>2 DEF InitialRead, TypeOK, redisVars, memoryVars, deviceVars, historyVars

LEMMA InitialEmitTypes ==
    ASSUME TypeOK, CallsHold, NEW s \in Socket, InitialEmit(s) PROVE TypeOK'
<1>0. Initial(s) \in Handler
  BY HandlersOf
<1>1. [v |-> replay[Initial(s)].v, from |-> "nobody"] \in Message
  BY <1>0 DEF CallsHold, Message, InitialEmit
<1>2. inbox' \in Seq(Message)
  BY <1>1, SendTyped DEF InitialEmit
<1> QED
  BY <1>0, <1>2, StopTypes DEF InitialEmit, TypeOK, redisVars, memoryVars, historyVars

LEMMA RequestTypes ==
    ASSUME TypeOK, CallsHold, NEW s \in Socket, RequestStep(s) PROVE TypeOK'
<1>1. CASE RequestCache(s)
  <2>0. cache \in PlaylistOrNone /\ request \in [Socket -> RequestRecord]
    BY DEF TypeOK
  <2>1. request' \in [Socket -> RequestRecord]
    BY <1>1, <2>0, RecordsTyped DEF RequestCache, RequestRecord, PlaylistOrNone
  <2>2. faults' \in 0 .. MaxFaults
    BY <1>1, FaultTyped DEF RequestCache
  <2> QED
    BY <1>1, <2>1, <2>2 DEF RequestCache, TypeOK, redisVars, memoryVars, deviceVars, historyVars
<1>2. CASE RequestRead(s)
  <2>1. request' \in [Socket -> RequestRecord]
    BY <1>2 DEF RequestRead, TypeOK, RequestRecord, PlaylistOrNone
  <2> QED
    BY <1>2, <2>1 DEF RequestRead, TypeOK, redisVars, memoryVars, deviceVars, historyVars
<1>3. CASE RequestStore(s)
  <2>1. request' \in [Socket -> RequestRecord] /\ cache' \in PlaylistOrNone
    BY <1>3 DEF RequestStore, TypeOK, RequestRecord, CallsHold, PlaylistOrNone
  <2> QED
    BY <1>3, <2>1 DEF RequestStore, TypeOK, memoryVars, deviceVars, historyVars
<1>4. CASE RequestReply(s)
  <2>1. [v |-> request[s].v, from |-> "reply"] \in Message
    BY <1>4 DEF CallsHold, Message, RequestReply
  <2>2. inbox' \in Seq(Message)
    BY <1>4, <2>1, SendTyped DEF RequestReply
  <2>3. request' \in [Socket -> RequestRecord]
    BY <1>4, RecordsTyped DEF RequestReply, TypeOK
  <2> QED
    BY <1>4, <2>2, <2>3 DEF RequestReply, TypeOK, redisVars, memoryVars, historyVars
<1> QED
  BY <1>1, <1>2, <1>3, <1>4 DEF RequestStep

LEMMA ConnectTypes ==
    ASSUME TypeOK, NEW s \in Socket, Connect(s) PROVE TypeOK'
<1>1. /\ [NoReplay EXCEPT !.pc = "due"] \in ReplayRecord
      /\ [NoRequest EXCEPT !.pc = "asked"] \in RequestRecord
  BY RecordsTyped DEF ReplayRecord, RequestRecord
<1>2. replay' \in [Handler -> ReplayRecord] /\ sock' \in [Socket -> BOOLEAN]
  BY <1>1 DEF Connect, TypeOK
<1>3. request' \in [Socket -> RequestRecord]
  <2>1. request \in [Socket -> RequestRecord]
    BY DEF TypeOK
  <2>2. request' = request \/ request' = [request EXCEPT ![s] = [NoRequest EXCEPT !.pc = "asked"]]
    BY DEF Connect
  <2> QED
    BY <1>1, <2>1, <2>2
<1>4. client \in ClientRecord
  BY DEF TypeOK
<1>5. client' \in ClientRecord
  <2>1. \/ client' = [client EXCEPT !.conn = s]
        \/ client' = [client EXCEPT !.conn = s, !.requests = @ + 1]
    BY DEF Connect
  <2>2. client.requests + 1 \in Nat
    BY <1>4 DEF ClientRecord
  <2>3. [client EXCEPT !.conn = s, !.requests = @ + 1] \in ClientRecord
    BY <1>4, <2>2 DEF ClientRecord
  <2>4. [client EXCEPT !.conn = s] \in ClientRecord
    BY <1>4 DEF ClientRecord
  <2> QED
    BY <2>1, <2>3, <2>4
<1> QED
  BY <1>2, <1>3, <1>5 DEF Connect, TypeOK, redisVars, historyVars

LEMMA HandleDisconnectTypes ==
    ASSUME TypeOK, NEW s \in Socket, HandleDisconnect(s) PROVE TypeOK'
  BY DEF HandleDisconnect, TypeOK, redisVars, callVars, deviceVars, historyVars

LEMMA GoneTypes ==
    ASSUME TypeOK, NEW v \in Assignment, Gone(v)
    PROVE  /\ client' \in ClientRecord
           /\ seen' \subseteq Assignment /\ inbox' \in Seq(Message)
<1>1. client \in ClientRecord
  BY DEF TypeOK
<1>2. client' \in ClientRecord
  BY <1>1 DEF Gone, ClientRecord
<1>3. seen' \subseteq Assignment /\ inbox' \in Seq(Message)
  BY DEF Gone, TypeOK
<1> QED
  BY <1>2, <1>3

LEMMA HeadTyped ==
    ASSUME TypeOK, inbox # <<>>
    PROVE  /\ Head(inbox) \in Message /\ Tail(inbox) \in Seq(Message)
           /\ Head(inbox).v \in Assignment /\ Head(inbox) = inbox[1] /\ 1 \in DOMAIN inbox
<1>1. /\ Head(inbox) \in Message /\ Tail(inbox) \in Seq(Message) /\ Head(inbox) = inbox[1]
      /\ 1 \in DOMAIN inbox
  BY DEF TypeOK
<1> QED
  BY <1>1 DEF Message

LEMMA LoseConnectionTypes ==
    ASSUME TypeOK, LoseConnection PROVE TypeOK'
<1>1. client.shown \in Assignment /\ faults' \in 0 .. MaxFaults
  BY FaultTyped DEF ClientRecord, LoseConnection, TypeOK
<1> QED
  BY <1>1, GoneTypes DEF LoseConnection, TypeOK, redisVars, memoryVars, callVars

LEMMA AckLostTypes ==
    ASSUME TypeOK, AckLost PROVE TypeOK'
<1>1. Head(inbox).v \in Assignment /\ faults' \in 0 .. MaxFaults
  BY FaultTyped, HeadTyped DEF AckLost
<1> QED
  BY <1>1, GoneTypes DEF AckLost, TypeOK, redisVars, memoryVars, callVars

LEMMA GatewayRestartTypes ==
    ASSUME TypeOK, GatewayRestart PROVE TypeOK'
<1>1. client.shown \in Assignment /\ faults' \in 0 .. MaxFaults
  BY FaultTyped DEF ClientRecord, GatewayRestart, TypeOK
<1>2. lost' \in [dropped : BOOLEAN, overwritten : BOOLEAN]
  BY DEF GatewayRestart, TypeOK
<1>3. /\ push' \in [Assignment -> PushRecord] /\ replay' \in [Handler -> ReplayRecord]
      /\ request' \in [Socket -> RequestRecord] /\ sock' \in [Socket -> BOOLEAN]
  BY RecordsTyped DEF GatewayRestart, TypeOK
<1> QED
  BY <1>1, <1>2, <1>3, GoneTypes DEF GatewayRestart, TypeOK, redisVars

LEMMA ExpireTypes ==
    ASSUME TypeOK, PendingExpire \/ CacheExpire PROVE TypeOK'
<1>1. CASE PendingExpire
  <2>1. /\ pending' \in PlaylistOrNone
        /\ lost' \in [dropped : BOOLEAN, overwritten : BOOLEAN]
    BY <1>1 DEF PendingExpire, Drop, TypeOK, PlaylistOrNone
  <2> QED
    BY <1>1, <2>1 DEF PendingExpire, TypeOK, memoryVars, callVars, deviceVars
<1>2. CASE CacheExpire
  BY <1>2 DEF CacheExpire, TypeOK, PlaylistOrNone, memoryVars, callVars, deviceVars, historyVars
<1> QED
  BY <1>1, <1>2

(* A replay that is answered runs on the socket of the client.               *)
LEMMA AnsweredSocket ==
    ASSUME TypeOK, ReplaysAwaited, inbox # <<>>
    PROVE  /\ client.conn \in Socket
           /\ Head(inbox).from \in Kind =>
                LET h == <<client.conn, Head(inbox).from>> IN
                  /\ h \in Handler /\ replay[h].pc = "waiting" /\ Holding(h)
                  /\ replay[h].v = Head(inbox).v
<1>1. client.conn \in Socket
  BY DEF ClientRecord, TypeOK, ReplaysAwaited
<1> QED
  BY <1>1, HeadTyped, HandlersOf DEF ReplaysAwaited, Holding

LEMMA DeliveredTypes ==
    ASSUME TypeOK, NEW h \in Handler, Delivered(h)
    PROVE  /\ replay' \in [Handler -> ReplayRecord] /\ pending' \in PlaylistOrNone
           /\ failures' \in Nat
           /\ lost' \in [dropped : BOOLEAN, overwritten : BOOLEAN]
<1>1. CASE Stop(h) /\ Record(h, FALSE) /\ UNCHANGED <<pending, lost>>
  BY <1>1, StopTypes, RecordTypes DEF TypeOK
<1>2. CASE Requeue(h, FALSE)
  BY <1>2, RequeueTypes
<1> QED
  BY <1>1, <1>2 DEF Delivered

LEMMA ClientReceiveTypes ==
    ASSUME TypeOK, CallsHold, ReplaysAwaited, ClientReceive PROVE TypeOK'
<1> DEFINE m == Head(inbox)
<1>1. m \in Message /\ m.v \in Assignment /\ client.conn \in Socket
      /\ inbox' \in Seq(Message)
  BY HeadTyped, AnsweredSocket DEF ClientReceive
<1>2. /\ client' \in ClientRecord
      /\ seen' \subseteq Assignment
  BY <1>1 DEF ClientRecord, ClientReceive, TypeOK
<1>3. CASE Acknowledged(m.v) /\ UNCHANGED <<replay, failures, lost>>
  BY <1>1, <1>2, <1>3, AcknowledgedTypes DEF ClientReceive, TypeOK
<1>4. CASE /\ m.from \in Kind /\ Delivered(<<client.conn, m.from>>)
           /\ UNCHANGED <<push, replayVersion, lastPush, overtaken, faults>>
  BY <1>1, <1>2, <1>4, HandlersOf, DeliveredTypes DEF ClientReceive, TypeOK
<1>5. CASE UNCHANGED <<push, replay, replayVersion, failures, pending, lastPush,
                       overtaken, lost, faults>>
  BY <1>1, <1>2, <1>5 DEF ClientReceive, TypeOK
<1> QED
  BY <1>3, <1>4, <1>5 DEF ClientReceive

LEMMA ClientRejectsTypes ==
    ASSUME TypeOK, ReplaysAwaited, ClientRejects PROVE TypeOK'
<1> DEFINE m == Head(inbox)
<1>1. m \in Message /\ m.v \in Assignment /\ client.conn \in Socket
      /\ faults' \in 0 .. MaxFaults
  BY HeadTyped, AnsweredSocket, FaultTyped DEF ClientRejects
<1>2. /\ client' \in ClientRecord
      /\ seen' \subseteq Assignment /\ inbox' \in Seq(Message)
  <2>1. client.shown \in Assignment
    BY DEF ClientRecord, TypeOK
  <2>2. PICK shown \in {client.shown, m.v} : Gone(shown)
    BY DEF ClientRejects
  <2> QED
    BY <1>1, <2>1, <2>2, GoneTypes
<1>3. CASE Queue(m.v) /\ UNCHANGED replay
  BY <1>1, <1>2, <1>3, QueueTypes DEF ClientRejects, TypeOK
<1>4. CASE /\ m.from \in Kind /\ Requeue(<<client.conn, m.from>>, Active(client.conn))
           /\ UNCHANGED <<push, lastPush>>
  BY <1>1, <1>2, <1>4, HandlersOf, RequeueTypes DEF ClientRejects, TypeOK
<1>5. CASE UNCHANGED <<push, replay, failures, pending, lastPush, lost>>
  BY <1>1, <1>2, <1>5 DEF ClientRejects, TypeOK
<1> QED
  BY <1>3, <1>4, <1>5 DEF ClientRejects

(* Every step keeps the types.                                               *)
LEMMA TypesKept ==
    ASSUME TypeOK, CallsHold, ReplaysAwaited, [Next]_vars PROVE TypeOK'
<1>1. CASE UNCHANGED vars
  BY <1>1 DEF vars, redisVars, memoryVars, callVars, deviceVars, historyVars, TypeOK
<1>2. CASE Assign \/ ClientReceive \/ AckLost \/ ClientRejects
  BY <1>2, AssignTypes, ClientReceiveTypes, AckLostTypes, ClientRejectsTypes
<1>3. CASE LoseConnection \/ GatewayRestart \/ PendingExpire \/ CacheExpire
  BY <1>3, LoseConnectionTypes, GatewayRestartTypes, ExpireTypes
<1>4. ASSUME NEW v \in Assignment, PushStep(v) PROVE TypeOK'
  BY <1>4, PushFindTypes, PushEmitTypes, PushTimeoutTypes DEF PushStep
<1>5. ASSUME NEW s \in Socket,
             InitialStep(s) \/ RequestStep(s) \/ Heartbeat(s) \/ Connect(s) \/ HandleDisconnect(s)
      PROVE  TypeOK'
  BY <1>5, InitialTakeTypes, InitialReadTypes, InitialEmitTypes, RequestTypes, HeartbeatTypes,
     ConnectTypes, HandleDisconnectTypes
     DEF InitialStep
<1>6. ASSUME NEW h \in Handler, ReplayStep(h) PROVE TypeOK'
  BY <1>6, ReplayEmitTypes, ReplayTimeoutTypes DEF ReplayStep
<1> QED
  BY <1>1, <1>2, <1>3, <1>4, <1>5, <1>6 DEF Next

-----------------------------------------------------------------------------
(* Where playlists are                                                       *)

LEMMA LedgerSplits ==
    ASSUME TypeOK, CallsHold PROVE Ledger <=> LedgerByHandler
<1>1. \A v : v \in Held <=> \E h \in Handler : Holding(h) /\ replay[h].v = v
  BY DEF Held
<1>2. \A h \in Handler : Holding(h) => replay[h].v \in Held \ {NoPlaylist}
  BY <1>1, NoPlaylistApart DEF CallsHold
<1>3. NoPlaylist \notin overtaken
  BY NoPlaylistApart DEF TypeOK
<1>4. PushEnded <=> /\ pending # NoPlaylist => push[pending].pc = "done"
                    /\ \A h \in Handler : Holding(h) => push[replay[h].v].pc = "done"
                    /\ \A v \in overtaken : push[v].pc = "done"
  BY <1>1, <1>2, <1>3 DEF PushEnded
<1>5. NothingLost <=> Somewhere
  BY <1>1 DEF NothingLost, Somewhere
<1> QED
  BY <1>4, <1>5 DEF Ledger, LedgerByHandler

LEMMA LedgerJoins ==
    ASSUME TypeOK', CallsHold' PROVE Ledger' <=> LedgerByHandler'
<1>1. \A v : v \in Held' <=> \E h \in Handler : Holding(h)' /\ replay'[h].v = v
  BY DEF Held, Holding
<1>2. \A h \in Handler : Holding(h)' => replay'[h].v \in Held' \ {NoPlaylist}
  BY <1>1, NoPlaylistApart DEF CallsHold
<1>3. NoPlaylist \notin overtaken'
  BY NoPlaylistApart DEF TypeOK
<1>4. PushEnded' <=> /\ pending' # NoPlaylist => push'[pending'].pc = "done"
                     /\ \A h \in Handler : Holding(h)' => push'[replay'[h].v].pc = "done"
                     /\ \A v \in overtaken' : push'[v].pc = "done"
  BY <1>1, <1>2, <1>3 DEF PushEnded
<1>5. NothingLost' <=> Somewhere'
  BY <1>1 DEF NothingLost, Somewhere
<1> QED
  BY <1>4, <1>5 DEF Ledger, LedgerByHandler

(* Pushes do not come back, and replays hold what they held.                 *)
PushesOn == \A v \in Assignment : push[v].pc = "done" => push'[v].pc = "done"
ReplaysHoldOn ==
    \A h \in Handler :
        /\ Holding(h)' <=> Holding(h)
        /\ Holding(h) => /\ replay'[h].v = replay[h].v
                         /\ replay'[h].ver = replay[h].ver

(* A step that moves no playlist.                                            *)
LEMMA LedgerStays ==
    ASSUME TypeOK, CallsHold, LedgerByHandler, PushesOn, ReplaysHoldOn, seen \subseteq seen',
           UNCHANGED <<pending, replayVersion, lastPush, overtaken, lost>>
    PROVE  LedgerByHandler'
<1>1. \A h \in Handler : Holding(h) => replay[h].v \in Assignment
  BY DEF CallsHold
<1>2. /\ pending' # NoPlaylist => push'[pending'].pc = "done"
      /\ \A h \in Handler : Holding(h)' => push'[replay'[h].v].pc = "done"
      /\ \A v \in overtaken' : push'[v].pc = "done"
  BY <1>1 DEF TypeOK, LedgerByHandler, PushesOn, ReplaysHoldOn, PlaylistOrNone, Holding
<1>3. HeldOnce'
  BY DEF LedgerByHandler, HeldOnce, ReplaysHoldOn, Current, Holding
<1>4. Somewhere' /\ OvertakenStaysOut'
  BY DEF LedgerByHandler, Somewhere, ReplaysHoldOn, OvertakenStaysOut, Holding
<1> QED
  BY <1>2, <1>3, <1>4 DEF LedgerByHandler

(* A push ends in the queue: nothing that is queued, held or overtaken was   *)
(* this push's.                                                              *)
LEMMA QueueLedger ==
    ASSUME TypeOK, CallsHold, LedgerByHandler, NEW v \in Assignment, push[v].pc # "done",
           Queue(v) \/ QueueThrows(v), seen \subseteq seen',
           UNCHANGED <<replay, replayVersion, overtaken>>
    PROVE  LedgerByHandler'
<1>1. /\ push' = [push EXCEPT ![v] = EndedPush] /\ lastPush' = v
      /\ \/ pending' = v /\ UNCHANGED lost
         \/ pending' = pending /\ lost'.dropped
  <2>1. CASE Queue(v)
    BY <2>1 DEF Queue
  <2>2. CASE QueueThrows(v)
    BY <2>2 DEF QueueThrows, Drop, TypeOK
  <2> QED
    BY <2>1, <2>2
<1>2. PushesOn /\ push'[v].pc = "done"
  BY <1>1 DEF PushesOn, TypeOK, EndedPush
<1>3. \A h \in Handler : Holding(h) => replay[h].v \in Assignment /\ replay[h].v # v
  BY DEF CallsHold, LedgerByHandler
<1>4. v \notin overtaken /\ overtaken \subseteq Assignment
  BY DEF LedgerByHandler, TypeOK
<1>5. /\ pending' # NoPlaylist => push'[pending'].pc = "done"
      /\ \A h \in Handler : Holding(h)' => push'[replay'[h].v].pc = "done"
      /\ \A w \in overtaken' : push'[w].pc = "done"
  BY <1>1, <1>2, <1>3, <1>4
     DEF TypeOK, LedgerByHandler, PushesOn, PlaylistOrNone, Holding
<1>6. HeldOnce'
  BY <1>1, <1>3 DEF LedgerByHandler, HeldOnce, Current, Holding
<1>7. Somewhere' /\ OvertakenStaysOut'
  BY <1>1, <1>4 DEF Somewhere, OvertakenStaysOut, LedgerByHandler
<1> QED
  BY <1>5, <1>6, <1>7 DEF LedgerByHandler

(* A replay consumes what is queued.                                         *)
LEMMA ConsumeLedger ==
    ASSUME TypeOK, CallsHold, LedgerByHandler, NEW h \in Handler, ~Holding(h),
           pending # NoPlaylist, Consume(h),
           UNCHANGED <<push, replayVersion, lastPush, overtaken, seen, lost>>
    PROVE  LedgerByHandler'
<1>1. /\ replay'[h].v = pending /\ replay'[h].ver = replayVersion /\ Holding(h)'
      /\ \A g \in Handler \ {h} : replay'[g] = replay[g]
      /\ pending' = NoPlaylist /\ pending \in Assignment
  BY DEF Consume, TypeOK, Holding, PlaylistOrNone
<1>2. /\ \A g \in Handler : Holding(g)' <=> Holding(g) \/ g = h
      /\ \A g \in Handler : Holding(g) => /\ replay'[g] = replay[g]
                                          /\ replay[g].v \in Assignment
  BY <1>1 DEF Holding, CallsHold
<1>3. /\ \A g \in Handler : Holding(g)' => push'[replay'[g].v].pc = "done"
      /\ \A v \in overtaken' : push'[v].pc = "done"
  BY <1>1, <1>2 DEF LedgerByHandler
<1>4. HeldOnce'
  <2> SUFFICES ASSUME NEW g \in Handler, Holding(g)'
               PROVE  /\ replay'[g].v # pending'
                      /\ \A x \in Handler : Holding(x)' /\ replay'[x].v = replay'[g].v => g = x
                      /\ replay'[g].ver <= replayVersion'
                      /\ IF Current(g)' THEN replay'[g].v \notin overtaken'
                                        ELSE replay'[g].v # lastPush'
    BY DEF HeldOnce
  <2>1. CASE g = h
    BY <1>1, <1>2, <2>1, NoPlaylistApart
       DEF LedgerByHandler, HeldOnce, OvertakenStaysOut, Current, TypeOK
  <2>2. CASE g # h
    BY <1>1, <1>2, <2>2, NoPlaylistApart DEF LedgerByHandler, HeldOnce, Current
  <2> QED
    BY <2>1, <2>2
<1>5. Somewhere'
  BY <1>1, <1>2 DEF LedgerByHandler, Somewhere
<1>6. OvertakenStaysOut'
  BY <1>1, NoPlaylistApart DEF OvertakenStaysOut, TypeOK
<1> QED
  BY <1>1, <1>3, <1>4, <1>5, <1>6 DEF LedgerByHandler

(* A replay lets go of what it held: it is on the screen, queued again, of   *)
(* no more interest, or dropped.                                             *)
LEMMA ReleaseLedger ==
    ASSUME TypeOK, CallsHold, LedgerByHandler, NEW h \in Handler, Holding(h), ~Holding(h)',
           \A g \in Handler \ {h} : replay'[g] = replay[g],
           seen \subseteq seen', UNCHANGED <<push, replayVersion, lastPush, overtaken>>,
           \/ /\ UNCHANGED pending
              /\ lost'.dropped \/ (lost' = lost /\ (replay[h].v \in seen' \/ ~Current(h)))
           \/ /\ pending' = replay[h].v /\ Current(h)
              /\ IF pending # NoPlaylist THEN lost'.overwritten ELSE lost' = lost
    PROVE  LedgerByHandler'
<1>1. /\ \A g \in Handler : Holding(g)' <=> Holding(g) /\ g # h
      /\ \A g \in Handler : Holding(g)' => replay'[g] = replay[g]
  BY DEF Holding
<1>2. replay[h].v \in Assignment /\ replay[h].v # NoPlaylist
  BY NoPlaylistApart DEF CallsHold
<1>3. /\ pending' # NoPlaylist => push'[pending'].pc = "done"
      /\ \A g \in Handler : Holding(g)' => push'[replay'[g].v].pc = "done"
      /\ \A v \in overtaken' : push'[v].pc = "done"
  BY <1>1 DEF LedgerByHandler
<1>4. HeldOnce'
  BY <1>1 DEF LedgerByHandler, HeldOnce, Current
<1>5. OvertakenStaysOut'
  BY DEF LedgerByHandler, HeldOnce, OvertakenStaysOut
<1>6. Somewhere'
  <2>1. CASE lost'.dropped \/ lost'.overwritten
    BY <2>1 DEF Somewhere
  <2>2. CASE lost' = lost /\ lastPush = replay[h].v
    BY <2>2 DEF LedgerByHandler, HeldOnce, Somewhere
  <2>3. CASE lost' = lost /\ lastPush # replay[h].v
    BY <1>1, <2>3 DEF LedgerByHandler, Somewhere
  <2> QED
    BY <2>1, <2>2, <2>3
<1> QED
  BY <1>3, <1>4, <1>5, <1>6 DEF LedgerByHandler

LEMMA Freed ==
    ASSUME TypeOK, NEW h \in Handler, NotDelivered(h) \/ Stop(h)
    PROVE  ~Holding(h)' /\ replay'[h].pc # "waiting"
           /\ \A g \in Handler \ {h} : replay'[g] = replay[g]
<1>1. CASE Stop(h)
  BY <1>1 DEF Stop, Holding, NoReplay, TypeOK
<1>2. CASE NotDelivered(h)
  BY <1>2 DEF NotDelivered, Holding, NoReplay, TypeOK, ReplayRecord
<1> QED
  BY <1>1, <1>2

(* A requeue lets go by the one or the other,                                *)
LEMMA RequeueLedger ==
    ASSUME TypeOK, CallsHold, LedgerByHandler, NEW h \in Handler, Holding(h), NEW b,
           Requeue(h, b), seen \subseteq seen',
           UNCHANGED <<push, replayVersion, lastPush, overtaken>>
    PROVE  LedgerByHandler'
<1>1. CASE /\ Current(h) /\ pending' = replay[h].v /\ Stop(h)
           /\ lost' = [lost EXCEPT !.overwritten = @ \/ pending # NoPlaylist]
  <2>1. ~Holding(h)' /\ \A g \in Handler \ {h} : replay'[g] = replay[g]
    BY <1>1, Freed
  <2>2. IF pending # NoPlaylist THEN lost'.overwritten ELSE lost' = lost
    BY <1>1 DEF TypeOK
  <2> QED
    BY <1>1, <2>1, <2>2, ReleaseLedger
<1>2. CASE ~Current(h) /\ NotDelivered(h) /\ UNCHANGED <<pending, lost>>
  <2>1. ~Holding(h)' /\ \A g \in Handler \ {h} : replay'[g] = replay[g]
    BY <1>2, Freed
  <2> QED
    BY <1>2, <2>1, ReleaseLedger
<1> QED
  BY <1>1, <1>2 DEF Requeue

LEMMA ReplayThrowsLedger ==
    ASSUME TypeOK, CallsHold, LedgerByHandler, NEW h \in Handler, Holding(h), ReplayThrows(h),
           UNCHANGED <<push, replayVersion, lastPush, overtaken, seen>>
    PROVE  LedgerByHandler'
<1>1. /\ ~Holding(h)' /\ \A g \in Handler \ {h} : replay'[g] = replay[g]
      /\ lost'.dropped /\ UNCHANGED pending
  BY Freed DEF ReplayThrows, Drop, TypeOK
<1> QED
  BY <1>1, ReleaseLedger

(* and so does a replay that is acknowledged.                                *)
LEMMA DeliveredLedger ==
    ASSUME TypeOK, CallsHold, LedgerByHandler, NEW h \in Handler, Holding(h), Delivered(h),
           seen \subseteq seen', replay[h].v \in seen',
           UNCHANGED <<push, replayVersion, lastPush, overtaken>>
    PROVE  LedgerByHandler'
<1>1. CASE Stop(h) /\ UNCHANGED <<pending, lost>>
  <2>1. ~Holding(h)' /\ \A g \in Handler \ {h} : replay'[g] = replay[g]
    BY <1>1, Freed
  <2> QED
    BY <1>1, <2>1, ReleaseLedger
<1>2. CASE Requeue(h, FALSE)
  BY <1>2, RequeueLedger
<1> QED
  BY <1>1, <1>2 DEF Delivered

(* A push is acknowledged: what is held is overtaken, and no version is      *)
(* current any longer.                                                       *)
LEMMA AcknowledgedLedger ==
    ASSUME TypeOK, CallsHold, LedgerByHandler, NEW v \in Assignment, push[v].pc # "done",
           Acknowledged(v), seen \subseteq seen', v \in seen', UNCHANGED <<replay, lost>>
    PROVE  LedgerByHandler'
<1>1. /\ push' = [push EXCEPT ![v] = EndedPush] /\ lastPush' = v
      /\ replayVersion' = replayVersion + 1
      /\ \/ pending' = NoPlaylist
         \/ pending' = pending /\ overtaken' = overtaken \cup Held
      /\ overtaken' \subseteq (overtaken \cup Held \cup {pending}) \ {NoPlaylist}
  <2>1. NoPlaylist \notin overtaken \cup Held
    BY HeldTyped, NoPlaylistApart DEF TypeOK
  <2> QED
    BY <2>1 DEF Acknowledged
<1>2. PushesOn /\ push'[v].pc = "done"
  BY <1>1 DEF PushesOn, TypeOK, EndedPush
<1>3. \A h \in Handler : Holding(h) => replay[h].v \in Assignment /\ replay[h].v # v
  BY DEF CallsHold, LedgerByHandler
<1>4. \A w \in Held : \E h \in Handler : Holding(h) /\ replay[h].v = w
  BY DEF Held
<1>5. \A w \in overtaken' : w \in Assignment /\ push[w].pc = "done"
  BY <1>1, <1>3, <1>4 DEF LedgerByHandler, TypeOK, PlaylistOrNone
<1>6. /\ pending' # NoPlaylist => push'[pending'].pc = "done"
      /\ \A h \in Handler : Holding(h)' => push'[replay'[h].v].pc = "done"
      /\ \A w \in overtaken' : push'[w].pc = "done"
  BY <1>1, <1>2, <1>3, <1>5 DEF TypeOK, LedgerByHandler, PushesOn, PlaylistOrNone, Holding
<1>7. HeldOnce'
  <2> SUFFICES ASSUME NEW h \in Handler, Holding(h)
               PROVE  /\ replay[h].v # pending'
                      /\ \A g \in Handler : Holding(g) /\ replay[g].v = replay[h].v => h = g
                      /\ replay[h].ver <= replayVersion' /\ replay[h].ver # replayVersion'
                      /\ replay[h].v # lastPush'
    BY DEF HeldOnce, Holding, Current
  <2>1. replay[h].ver \in Nat /\ replayVersion \in Nat /\ replay[h].ver <= replayVersion
    BY DEF TypeOK, ReplayRecord, LedgerByHandler, HeldOnce
  <2>2. replay[h].ver <= replayVersion' /\ replay[h].ver # replayVersion'
    BY <1>1, <2>1
  <2> QED
    BY <1>1, <1>3, <2>2, NoPlaylistApart DEF LedgerByHandler, HeldOnce
<1>8. OvertakenStaysOut'
  <2>1. CASE pending' = NoPlaylist
    BY <1>1, <2>1 DEF OvertakenStaysOut
  <2>2. CASE pending' = pending /\ overtaken' = overtaken \cup Held
    BY <1>4, <2>2 DEF OvertakenStaysOut, LedgerByHandler, HeldOnce
  <2> QED
    BY <1>1, <2>1, <2>2
<1>9. Somewhere'
  BY <1>1 DEF Somewhere
<1> QED
  BY <1>6, <1>7, <1>8, <1>9 DEF LedgerByHandler

(* What is queued is dropped,                                                *)
LEMMA DropLedger ==
    ASSUME TypeOK, CallsHold, LedgerByHandler, ReplaysHoldOn, pending' = NoPlaylist, Drop,
           UNCHANGED <<push, replayVersion, lastPush, overtaken>>
    PROVE  LedgerByHandler'
<1>1. lost'.dropped
  BY DEF Drop, TypeOK
<1>2. \A h \in Handler : Holding(h) => replay[h].v # NoPlaylist
  BY NoPlaylistApart DEF CallsHold
<1>3. HeldOnce'
  BY <1>2 DEF LedgerByHandler, HeldOnce, ReplaysHoldOn, Current, Holding
<1>4. OvertakenStaysOut'
  BY NoPlaylistApart DEF OvertakenStaysOut, TypeOK
<1> QED
  BY <1>1, <1>3, <1>4 DEF LedgerByHandler, Somewhere, ReplaysHoldOn, Holding

(* and so is, in a restart, what replays hold.                               *)
LEMMA RestartLedger ==
    ASSUME TypeOK, CallsHold, LedgerByHandler, GatewayRestart PROVE LedgerByHandler'
<1>1. \A h \in Handler : ~Holding(h)'
  BY DEF GatewayRestart, Holding, NoReplay
<1>2. PushesOn
  BY DEF GatewayRestart, PushesOn, EndedPush
<1>3. /\ pending' # NoPlaylist => push'[pending'].pc = "done"
      /\ \A v \in overtaken' : push'[v].pc = "done"
  BY <1>2 DEF GatewayRestart, redisVars, TypeOK, PlaylistOrNone, PushesOn, LedgerByHandler
<1>4. HeldOnce' /\ OvertakenStaysOut'
  BY <1>1 DEF GatewayRestart, redisVars, HeldOnce, OvertakenStaysOut, LedgerByHandler
<1>5. Somewhere'
  <2>1. CASE Held # {}
    BY <2>1 DEF GatewayRestart, Somewhere, TypeOK
  <2>2. CASE Held = {}
    <3>1. \A h \in Handler : ~Holding(h)
      BY <2>2 DEF Held
    <3>2. lost'.dropped = lost.dropped /\ lost'.overwritten = lost.overwritten
      BY <2>2 DEF GatewayRestart, TypeOK
    <3> QED
      BY <3>1, <3>2 DEF GatewayRestart, redisVars, Gone, Somewhere, LedgerByHandler
  <2> QED
    BY <2>1, <2>2
<1> QED
  BY <1>1, <1>3, <1>4, <1>5 DEF LedgerByHandler

(* Redis throws on the consume: what was queued is there or dropped.         *)
LEMMA ConsumeThrowsLedger ==
    ASSUME TypeOK, CallsHold, LedgerByHandler, ReplaysHoldOn, ConsumeThrows,
           UNCHANGED <<push, replayVersion, lastPush, overtaken, seen>>
    PROVE  LedgerByHandler'
<1>1. PushesOn
  BY DEF PushesOn
<1>2. CASE UNCHANGED <<pending, lost>>
  BY <1>1, <1>2, LedgerStays
<1>3. CASE pending' = NoPlaylist /\ Drop
  BY <1>3, DropLedger
<1> QED
  BY <1>2, <1>3 DEF ConsumeThrows

(* Each action is one of these.                                              *)
LEMMA PushStepLedger ==
    ASSUME TypeOK, CallsHold, LedgerByHandler, NEW v \in Assignment, PushStep(v)
    PROVE  LedgerByHandler'
<1>1. CASE PushFind(v)
  <2>1. PushesOn
    BY <1>1 DEF PushFind, PushesOn, TypeOK
  <2>2. ReplaysHoldOn
    BY <1>1 DEF PushFind, ReplaysHoldOn, Holding
  <2> QED
    BY <1>1, <2>1, <2>2, LedgerStays DEF PushFind, redisVars, memoryVars, historyVars
<1>2. CASE PushEmit(v)
  <2>1. push[v].pc # "done" /\ UNCHANGED <<replay, replayVersion, overtaken, seen>>
    BY <1>2 DEF PushEmit
  <2>2. CASE Queue(v) \/ QueueThrows(v)
    BY <2>1, <2>2, QueueLedger
  <2>3. CASE /\ push' \in {[push EXCEPT ![v].pc = "waiting"], [push EXCEPT ![v] = EndedPush]}
             /\ UNCHANGED <<pending, lost, lastPush>>
    <3>1. PushesOn
      BY <2>1, <2>3 DEF PushesOn, TypeOK
    <3>2. ReplaysHoldOn
      BY <2>1 DEF ReplaysHoldOn, Holding
    <3> QED
      BY <2>1, <2>3, <3>1, <3>2, LedgerStays
  <2> QED
    BY <1>2, <2>2, <2>3 DEF PushEmit
<1>3. CASE PushTimeout(v)
  BY <1>3, QueueLedger DEF PushTimeout
<1> QED
  BY <1>1, <1>2, <1>3 DEF PushStep

LEMMA ReplayStepLedger ==
    ASSUME TypeOK, CallsHold, LedgerByHandler, NEW h \in Handler, ReplayStep(h)
    PROVE  LedgerByHandler'
<1> DEFINE rest == UNCHANGED <<push, replayVersion, lastPush, overtaken, seen>>
<1>1. CASE ReplayEmit(h)
  <2>1. Holding(h) /\ rest
    BY <1>1 DEF ReplayEmit, Holding
  <2>2. CASE replay' = [replay EXCEPT ![h].pc = "waiting"] /\ UNCHANGED <<pending, lost>>
    <3>1. ReplaysHoldOn
      BY <2>1, <2>2 DEF ReplaysHoldOn, Holding, TypeOK, ReplayRecord
    <3>2. PushesOn
      BY <2>1 DEF PushesOn
    <3> QED
      BY <2>1, <2>2, <3>1, <3>2, LedgerStays
  <2>3. CASE Requeue(h, FALSE)
    BY <2>1, <2>3, RequeueLedger
  <2>4. CASE ReplayThrows(h)
    BY <2>1, <2>4, ReplayThrowsLedger
  <2> QED
    BY <1>1, <2>2, <2>3, <2>4 DEF ReplayEmit
<1>2. CASE ReplayTimeout(h)
  <2>1. Holding(h) /\ rest
    BY <1>2 DEF ReplayTimeout, Holding
  <2> QED
    BY <1>2, <2>1, RequeueLedger, ReplayThrowsLedger DEF ReplayTimeout
<1> QED
  BY <1>1, <1>2 DEF ReplayStep

LEMMA InitialStepLedger ==
    ASSUME TypeOK, CallsHold, LedgerByHandler, NEW s \in Socket, InitialStep(s)
    PROVE  LedgerByHandler'
<1> DEFINE h == Initial(s)
           rest == UNCHANGED <<push, replayVersion, lastPush, overtaken, seen>>
<1>0. h \in Handler
  BY HandlersOf
<1>1. ~Holding(h) /\ rest
  BY DEF InitialStep, InitialTake, InitialRead, InitialEmit, Holding, redisVars, memoryVars,
         historyVars
<1>2. PushesOn
  BY <1>1 DEF PushesOn
<1>3. CASE InitialTake(s)
  <2>1. CASE pending # NoPlaylist /\ Consume(h) /\ UNCHANGED lost
    BY <1>0, <1>1, <2>1, ConsumeLedger
  <2>2. CASE NotDelivered(h) \/ Stop(h)
    <3>1. ~Holding(h)' /\ \A g \in Handler \ {h} : replay'[g] = replay[g]
      BY <1>0, <2>2, Freed
    <3>2. ReplaysHoldOn
      BY <1>1, <3>1 DEF ReplaysHoldOn, Holding
    <3>3. CASE UNCHANGED <<pending, lost>>
      BY <1>1, <1>2, <3>2, <3>3, LedgerStays
    <3>4. CASE ConsumeThrows
      BY <1>1, <3>2, <3>4, ConsumeThrowsLedger
    <3> QED
      BY <1>3, <2>1, <3>3, <3>4 DEF InitialTake
  <2> QED
    BY <1>3, <2>1, <2>2 DEF InitialTake
<1>4. CASE InitialRead(s) \/ InitialEmit(s)
  <2>1. UNCHANGED <<pending, lost>>
    BY <1>4 DEF InitialRead, InitialEmit, redisVars, historyVars
  <2>2. CASE Stop(h)
    <3>1. ReplaysHoldOn
      BY <1>0, <1>1, <2>2, Freed DEF ReplaysHoldOn, Holding
    <3> QED
      BY <1>1, <1>2, <2>1, <3>1, LedgerStays
  <2>3. CASE replay' = [replay EXCEPT ![h].pc = "emit", ![h].v = assigned]
    <3>1. ReplaysHoldOn
      BY <1>0, <1>1, <2>3 DEF ReplaysHoldOn, Holding, TypeOK, ReplayRecord
    <3> QED
      BY <1>1, <1>2, <2>1, <3>1, LedgerStays
  <2> QED
    BY <1>4, <2>2, <2>3 DEF InitialRead, InitialEmit
<1> QED
  BY <1>3, <1>4 DEF InitialStep

LEMMA HeartbeatLedger ==
    ASSUME TypeOK, CallsHold, LedgerByHandler, NEW s \in Socket, Heartbeat(s)
    PROVE  LedgerByHandler'
<1>1. /\ Beat(s) \in Handler /\ ~Holding(Beat(s))
      /\ UNCHANGED <<push, replayVersion, lastPush, overtaken, seen>>
  BY HandlersOf DEF Heartbeat, Holding
<1>2. CASE pending # NoPlaylist /\ Consume(Beat(s)) /\ UNCHANGED lost
  BY <1>1, <1>2, ConsumeLedger
<1>3. CASE UNCHANGED replay
  <2>1. ReplaysHoldOn
    BY <1>3 DEF ReplaysHoldOn, Holding
  <2>2. PushesOn
    BY <1>1 DEF PushesOn
  <2>3. CASE UNCHANGED <<pending, lost>>
    BY <1>1, <2>1, <2>2, <2>3, LedgerStays
  <2>4. CASE ConsumeThrows
    BY <1>1, <2>1, <2>4, ConsumeThrowsLedger
  <2> QED
    BY <1>2, <2>3, <2>4 DEF Heartbeat
<1> QED
  BY <1>2, <1>3 DEF Heartbeat

LEMMA SocketStepLedger ==
    ASSUME TypeOK, CallsHold, LedgerByHandler, NEW s \in Socket,
           RequestStep(s) \/ Connect(s) \/ HandleDisconnect(s)
    PROVE  LedgerByHandler'
<1>1. UNCHANGED <<pending, push, replayVersion, lastPush, overtaken, seen, lost>>
  BY DEF RequestStep, RequestCache, RequestRead, RequestStore, RequestReply, Connect,
         HandleDisconnect, redisVars, memoryVars, callVars, historyVars
<1>2. PushesOn
  BY <1>1 DEF PushesOn
<1>3. ReplaysHoldOn
  <2>1. CASE UNCHANGED replay
    BY <2>1 DEF ReplaysHoldOn, Holding
  <2>2. CASE Connect(s)
    <3>1. Initial(s) \in Handler /\ replay[Initial(s)].pc = "idle"
      BY <2>2, HandlersOf DEF Connect, Kind, Initial
    <3> QED
      BY <2>2, <3>1 DEF Connect, ReplaysHoldOn, Holding, NoReplay, TypeOK
  <2> QED
    BY <2>1, <2>2
       DEF RequestStep, RequestCache, RequestRead, RequestStore, RequestReply,
           HandleDisconnect, callVars
<1> QED
  BY <1>1, <1>2, <1>3, LedgerStays

LEMMA DeviceStepLedger ==
    ASSUME TypeOK, CallsHold, ReplaysAwaited, LedgerByHandler, ClientReceive \/ ClientRejects
    PROVE  LedgerByHandler'
<1> DEFINE m == Head(inbox)
           h == <<client.conn, m.from>>
<1>1. /\ inbox # <<>> /\ m.v \in Assignment /\ client.conn \in Socket
      /\ m.from \in Kind => /\ h \in Handler /\ Holding(h)
                              /\ replay[h].v = m.v
  BY HeadTyped, AnsweredSocket DEF ClientReceive, ClientRejects
<1>2. Waiting(m) => push[m.v].pc # "done"
  BY DEF Waiting
<1>3. CASE ClientReceive
  <2>1. seen \subseteq seen' /\ m.v \in seen'
    BY <1>3 DEF ClientReceive
  <2>2. CASE Waiting(m) /\ Acknowledged(m.v) /\ UNCHANGED <<replay, failures, lost>>
    BY <1>1, <1>2, <2>1, <2>2, AcknowledgedLedger
  <2>3. CASE /\ m.from \in Kind /\ Delivered(h)
             /\ UNCHANGED <<push, replayVersion, lastPush, overtaken, faults>>
    BY <1>1, <2>1, <2>3, DeliveredLedger
  <2>4. CASE UNCHANGED <<push, replay, replayVersion, failures, pending, lastPush,
                         overtaken, lost, faults>>
    <3>1. PushesOn /\ ReplaysHoldOn
      BY <2>4 DEF PushesOn, ReplaysHoldOn, Holding
    <3> QED
      BY <2>1, <2>4, <3>1, LedgerStays
  <2> QED
    BY <1>3, <2>2, <2>3, <2>4 DEF ClientReceive
<1>4. CASE ClientRejects
  <2>1. seen \subseteq seen' /\ UNCHANGED <<replayVersion, overtaken>>
    BY <1>4 DEF ClientRejects, Gone
  <2>2. CASE Waiting(m) /\ Queue(m.v) /\ UNCHANGED replay
    BY <1>1, <1>2, <2>1, <2>2, QueueLedger
  <2>3. CASE /\ m.from \in Kind /\ Requeue(h, Active(client.conn))
             /\ UNCHANGED <<push, lastPush>>
    BY <1>1, <2>1, <2>3, RequeueLedger
  <2>4. CASE UNCHANGED <<push, replay, failures, pending, lastPush, lost>>
    <3>1. PushesOn /\ ReplaysHoldOn
      BY <2>4 DEF PushesOn, ReplaysHoldOn, Holding
    <3> QED
      BY <2>1, <2>4, <3>1, LedgerStays
  <2> QED
    BY <1>4, <2>2, <2>3, <2>4 DEF ClientRejects
<1> QED
  BY <1>3, <1>4

LEMMA OtherStepLedger ==
    ASSUME TypeOK, CallsHold, NotPushedBefore, LedgerByHandler,
           Assign \/ AckLost \/ LoseConnection \/ PendingExpire \/ CacheExpire \/ UNCHANGED vars
    PROVE  LedgerByHandler'
<1>1. UNCHANGED <<replay, replayVersion, lastPush, overtaken>> /\ seen \subseteq seen'
  BY DEF Assign, AckLost, LoseConnection, PendingExpire, CacheExpire, Gone, vars, memoryVars,
         callVars, historyVars
<1>2. ReplaysHoldOn
  BY <1>1 DEF ReplaysHoldOn, Holding
<1>3. PushesOn
  <2>1. CASE Assign
    <3>1. assigned + 1 \in Assignment /\ assigned + 1 > assigned
      BY <2>1, PlaylistDeliveryAssumption DEF Assign, Assignment, TypeOK
    <3>2. push[assigned + 1].pc # "done"
      BY <3>1 DEF NotPushedBefore
    <3> QED
      BY <2>1, <3>1, <3>2 DEF Assign, PushesOn, TypeOK
  <2> QED
    BY <2>1 DEF AckLost, LoseConnection, PendingExpire, CacheExpire, PushesOn, callVars, vars
<1>4. CASE PendingExpire
  BY <1>1, <1>2, <1>4, DropLedger DEF PendingExpire, callVars
<1>5. CASE UNCHANGED <<pending, lost>>
  BY <1>1, <1>2, <1>3, <1>5, LedgerStays
<1> QED
  BY <1>4, <1>5 DEF Assign, AckLost, LoseConnection, CacheExpire, vars, redisVars, historyVars

LEMMA LedgerKept ==
    ASSUME TypeOK, CallsHold, NotPushedBefore, ReplaysAwaited, Ledger, [Next]_vars,
           TypeOK', CallsHold'
    PROVE  Ledger'
<1>1. LedgerByHandler
  BY LedgerSplits
<1>2. LedgerByHandler'
  <2>1. ASSUME NEW v \in Assignment, PushStep(v) PROVE LedgerByHandler'
    BY <1>1, <2>1, PushStepLedger
  <2>2. ASSUME NEW s \in Socket,
               InitialStep(s) \/ RequestStep(s) \/ Heartbeat(s) \/ Connect(s) \/ HandleDisconnect(s)
        PROVE  LedgerByHandler'
    BY <1>1, <2>2, InitialStepLedger, HeartbeatLedger, SocketStepLedger
  <2>3. ASSUME NEW h \in Handler, ReplayStep(h) PROVE LedgerByHandler'
    BY <1>1, <2>3, ReplayStepLedger
  <2> QED
    BY <1>1, <2>1, <2>2, <2>3, DeviceStepLedger, OtherStepLedger, RestartLedger DEF Next
<1> QED
  BY <1>2, LedgerJoins

-----------------------------------------------------------------------------
(* What handlers hold and what is on its way                                 *)

LEMMA NotPushedBeforeKept ==
    ASSUME TypeOK, NotPushedBefore, [Next]_vars PROVE NotPushedBefore'
<1>1. \A v \in Assignment : push[v].pc # "none" => v <= assigned
  BY NoPlaylistApart DEF NotPushedBefore, TypeOK
<1>2. CASE assigned' = assigned /\ \A v \in Assignment : push[v].pc = "none" => push'[v].pc = "none"
  BY <1>2 DEF NotPushedBefore
<1>3. CASE Assign
  <2>1. assigned' = assigned + 1 /\ \A v \in Assignment \ {assigned + 1} : push'[v] = push[v]
    BY <1>3 DEF Assign, TypeOK
  <2>2. assigned \in Nat /\ \A v \in Assignment : v \in Nat
    BY NoPlaylistApart DEF TypeOK
  <2> QED
    BY <2>1, <2>2 DEF NotPushedBefore
<1>4. CASE UNCHANGED <<assigned, push>>
  BY <1>2, <1>4
<1>5. ASSUME NEW v \in Assignment, push[v].pc # "none", UNCHANGED assigned,
             \A w \in Assignment \ {v} : push'[w] = push[w]
      PROVE  NotPushedBefore'
  BY <1>2, <1>5
<1>6. ASSUME NEW v \in Assignment, PushStep(v) PROVE NotPushedBefore'
  <2>1. push[v].pc # "none" /\ UNCHANGED assigned
    BY <1>6 DEF PushStep, PushFind, PushEmit, PushTimeout
  <2>2. \A w \in Assignment \ {v} : push'[w] = push[w]
    BY <1>6 DEF PushStep, PushFind, PushEmit, PushTimeout, Queue, QueueThrows, TypeOK
  <2> QED
    BY <1>5, <2>1, <2>2
<1>7. CASE ClientReceive \/ ClientRejects
  <2> DEFINE m == Head(inbox)
  <2>1. m.v \in Assignment /\ UNCHANGED assigned
    BY <1>7, HeadTyped DEF ClientReceive, ClientRejects
  <2>2. CASE UNCHANGED push
    BY <1>4, <2>1, <2>2
  <2>3. CASE Waiting(m) /\ (Acknowledged(m.v) \/ Queue(m.v))
    <3>1. push[m.v].pc # "none"
      BY <2>3 DEF Waiting
    <3>2. \A w \in Assignment \ {m.v} : push'[w] = push[w]
      BY <2>3 DEF Acknowledged, Queue, TypeOK
    <3> QED
      BY <1>5, <2>1, <3>1, <3>2
  <2> QED
    BY <1>7, <2>2, <2>3 DEF ClientReceive, ClientRejects
<1>8. CASE GatewayRestart
  <2>1. assigned' = assigned /\ \A v \in Assignment : push[v].pc = "none" => push'[v].pc = "none"
    BY <1>8 DEF GatewayRestart, NoPush
  <2> QED
    BY <1>2, <2>1
<1>9. ASSUME NEW s \in Socket,
             InitialStep(s) \/ RequestStep(s) \/ Heartbeat(s) \/ Connect(s) \/ HandleDisconnect(s)
      PROVE  UNCHANGED <<assigned, push>>
  BY <1>9 DEF InitialStep, InitialTake, InitialRead, InitialEmit,
              RequestStep, RequestCache, RequestRead, RequestStore, RequestReply, Heartbeat,
              Connect, HandleDisconnect, callVars
<1>11. ASSUME NEW h \in Handler, ReplayStep(h) PROVE UNCHANGED <<assigned, push>>
  BY <1>11 DEF ReplayStep, ReplayEmit, ReplayTimeout
<1>10. CASE AckLost \/ LoseConnection \/ PendingExpire \/ CacheExpire \/ UNCHANGED vars
  BY <1>4, <1>10 DEF AckLost, LoseConnection, PendingExpire, CacheExpire, callVars, vars
<1> QED
  BY <1>3, <1>4, <1>6, <1>7, <1>8, <1>9, <1>10, <1>11 DEF Next

(* A replay that goes on holds or will emit what it did, or is free.         *)
ReplayHolds(h) == Holding(h) \/ replay[h].pc = "emit" => replay[h].v \in Assignment
RequestHolds(s) == request[s].pc \in {"store", "reply"} => request[s].v \in Assignment

LEMMA CallsHoldParts ==
    CallsHold <=> /\ \A h \in Handler : ReplayHolds(h)
                  /\ \A s \in Socket : RequestHolds(s)
  BY DEF CallsHold, ReplayHolds, RequestHolds

LEMMA CallsHoldNext ==
    CallsHold' <=> /\ \A h \in Handler : ReplayHolds(h)'
                   /\ \A s \in Socket : RequestHolds(s)'
  BY DEF CallsHold, ReplayHolds, RequestHolds

LEMMA FreedHolds ==
    ASSUME TypeOK, CallsHold, NEW h \in Handler, NotDelivered(h) \/ Stop(h)
    PROVE  \A g \in Handler : ReplayHolds(g)'
<1>1. \A g \in Handler \ {h} : ReplayHolds(g)'
  BY Freed DEF CallsHold, ReplayHolds, Holding
<1>2. replay'[h].pc # "emit" /\ ~Holding(h)'
  <2>1. CASE Stop(h)
    BY <2>1, Freed DEF Stop, NoReplay, TypeOK
  <2>2. CASE NotDelivered(h)
    <3>1. ~Holding(h)'
      BY <2>2, Freed
    <3>2. replay'[h].pc \in {"read", "idle"}
      BY <2>2 DEF NotDelivered, NoReplay, TypeOK, ReplayRecord
    <3> QED
      BY <3>1, <3>2
  <2> QED
    BY <2>1, <2>2
<1> QED
  BY <1>1, <1>2 DEF ReplayHolds

LEMMA ConsumeHolds ==
    ASSUME TypeOK, CallsHold, NEW h \in Handler, pending # NoPlaylist,
           Consume(h)
    PROVE  \A g \in Handler : ReplayHolds(g)'
  BY DEF Consume, TypeOK, PlaylistOrNone, CallsHold, ReplayHolds, Holding

LEMMA ReplayStepHolds ==
    ASSUME TypeOK, CallsHold, NEW h \in Handler, ReplayStep(h) PROVE CallsHold'
<1>1. \A s \in Socket : RequestHolds(s)'
  BY DEF CallsHold, RequestHolds, ReplayStep, ReplayEmit, ReplayTimeout
<1>2. CASE NotDelivered(h) \/ Stop(h)
  BY <1>1, <1>2, FreedHolds, CallsHoldNext
<1>3. CASE replay' = [replay EXCEPT ![h].pc = "waiting"] /\ replay[h].pc = "taken"
  <2>1. \A g \in Handler : ReplayHolds(g)'
    BY <1>3 DEF TypeOK, ReplayRecord, CallsHold, ReplayHolds, Holding
  <2> QED
    BY <1>1, <2>1, CallsHoldNext
<1> QED
  BY <1>2, <1>3 DEF ReplayStep, ReplayEmit, ReplayTimeout, Requeue, ReplayThrows

LEMMA InitialStepHolds ==
    ASSUME TypeOK, CallsHold, NEW s \in Socket, InitialStep(s) PROVE CallsHold'
<1> DEFINE h == Initial(s)
<1>0. h \in Handler
  BY HandlersOf
<1>1. \A t \in Socket : RequestHolds(t)'
  BY DEF CallsHold, RequestHolds, InitialStep, InitialTake, InitialRead, InitialEmit
<1>2. CASE NotDelivered(h) \/ Stop(h)
  BY <1>0, <1>1, <1>2, FreedHolds, CallsHoldNext
<1>3. CASE Consume(h) /\ pending # NoPlaylist
  BY <1>0, <1>1, <1>3, ConsumeHolds, CallsHoldNext
<1>4. CASE replay' = [replay EXCEPT ![h].pc = "emit", ![h].v = assigned]
  <2>1. \A g \in Handler : ReplayHolds(g)'
    BY <1>0, <1>4 DEF TypeOK, ReplayRecord, CallsHold, ReplayHolds, Holding
  <2> QED
    BY <1>1, <2>1, CallsHoldNext
<1> QED
  BY <1>2, <1>3, <1>4 DEF InitialStep, InitialTake, InitialRead, InitialEmit

LEMMA RequestStepHolds ==
    ASSUME TypeOK, CallsHold, NEW s \in Socket, RequestStep(s) PROVE CallsHold'
<1>1. UNCHANGED replay
  BY DEF RequestStep, RequestCache, RequestRead, RequestStore, RequestReply
<1>2. \A t \in Socket : RequestHolds(t)'
  <2>1. CASE RequestCache(s)
    BY <2>1 DEF RequestCache, TypeOK, RequestRecord, PlaylistOrNone, NoRequest, CallsHold,
                RequestHolds
  <2>2. CASE RequestRead(s)
    BY <2>2 DEF RequestRead, TypeOK, RequestRecord, CallsHold, RequestHolds
  <2>3. CASE RequestStore(s)
    BY <2>3 DEF RequestStore, TypeOK, RequestRecord, CallsHold, RequestHolds
  <2>4. CASE RequestReply(s)
    BY <2>4 DEF RequestReply, TypeOK, RequestRecord, NoRequest, CallsHold, RequestHolds
  <2> QED
    BY <2>1, <2>2, <2>3, <2>4 DEF RequestStep
<1> QED
  BY <1>1, <1>2 DEF CallsHold, RequestHolds, Holding

LEMMA CallsHoldKept ==
    ASSUME TypeOK, CallsHold, ReplaysAwaited, [Next]_vars PROVE CallsHold'
<1>1. CASE UNCHANGED <<replay, request>>
  BY <1>1 DEF CallsHold, Holding
<1>2. ASSUME NEW h \in Handler, UNCHANGED request, NotDelivered(h) \/ Stop(h) PROVE CallsHold'
  <2>1. \A t \in Socket : RequestHolds(t)'
    BY <1>2 DEF CallsHold, RequestHolds
  <2> QED
    BY <1>2, <2>1, FreedHolds, CallsHoldNext
<1>3. CASE ClientReceive \/ ClientRejects
  <2> DEFINE h == <<client.conn, Head(inbox).from>>
  <2>1. /\ UNCHANGED request
        /\ Head(inbox).from \in Kind => h \in Handler
    BY <1>3, AnsweredSocket DEF ClientReceive, ClientRejects
  <2>2. \/ UNCHANGED replay
        \/ Head(inbox).from \in Kind /\ (NotDelivered(h) \/ Stop(h))
    BY <1>3 DEF ClientReceive, ClientRejects, Delivered, Requeue
  <2> QED
    BY <1>1, <1>2, <2>1, <2>2
<1>4. CASE GatewayRestart
  BY <1>4 DEF GatewayRestart, CallsHold, Holding, NoReplay, NoRequest
<1>5. ASSUME NEW s \in Socket, Heartbeat(s) PROVE CallsHold'
  <2>1. CASE Consume(Beat(s)) /\ pending # NoPlaylist
    <3>1. \A t \in Socket : RequestHolds(t)'
      BY <1>5 DEF Heartbeat, CallsHold, RequestHolds
    <3> QED
      BY <2>1, <3>1, HandlersOf, ConsumeHolds, CallsHoldNext
  <2>2. CASE UNCHANGED replay
    BY <1>1, <1>5, <2>2 DEF Heartbeat
  <2> QED
    BY <1>5, <2>1, <2>2 DEF Heartbeat
<1>6. ASSUME NEW s \in Socket, Connect(s) PROVE CallsHold'
  <2>1. Initial(s) \in Handler
    BY HandlersOf
  <2> QED
    BY <1>6, <2>1 DEF Connect, CallsHold, Holding, NoReplay, NoRequest, TypeOK
<1>7. ASSUME NEW s \in Socket, HandleDisconnect(s) PROVE UNCHANGED <<replay, request>>
  BY <1>7 DEF HandleDisconnect, callVars
<1>8. ASSUME NEW v \in Assignment, PushStep(v) PROVE UNCHANGED <<replay, request>>
  BY <1>8 DEF PushStep, PushFind, PushEmit, PushTimeout
<1>9. CASE Assign \/ AckLost \/ LoseConnection \/ PendingExpire \/ CacheExpire \/ UNCHANGED vars
  BY <1>1, <1>9 DEF Assign, AckLost, LoseConnection, PendingExpire, CacheExpire, callVars, vars
<1> QED
  BY <1>1, <1>3, <1>4, <1>5, <1>6, <1>7, <1>8, <1>9, ReplayStepHolds, InitialStepHolds,
     RequestStepHolds
     DEF Next

(* The replays on their way, and the connection they are on.                 *)
Awaiter(i) == <<client.conn, inbox[i].from>>
StillAwaited ==
    \A i \in DOMAIN inbox : inbox[i].from \in Kind =>
        /\ replay'[Awaiter(i)].pc = "waiting"
        /\ replay'[Awaiter(i)].v = replay[Awaiter(i)].v

LEMMA AwaitedStays ==
    ASSUME ReplaysAwaited, UNCHANGED inbox, client'.conn = client.conn, StillAwaited
    PROVE  ReplaysAwaited'
  BY DEF ReplaysAwaited, StillAwaited, Awaiter

(* A step of a handler that does not wait, or whose replay is not on its way. *)
LEMMA OthersAwaited ==
    ASSUME TypeOK, ReplaysAwaited, NEW h \in Handler,
           \A g \in Handler \ {h} : replay'[g] = replay[g],
           replay[h].pc # "waiting" \/ ~ReplayInFlight(h)
    PROVE  StillAwaited
<1> SUFFICES ASSUME NEW i \in DOMAIN inbox, inbox[i].from \in Kind
             PROVE  /\ replay'[Awaiter(i)].pc = "waiting"
                    /\ replay'[Awaiter(i)].v = replay[Awaiter(i)].v
  BY DEF StillAwaited
<1>1. client.conn \in Socket /\ replay[Awaiter(i)].pc = "waiting"
  BY DEF ClientRecord, TypeOK, ReplaysAwaited, Awaiter
<1>2. Awaiter(i) \in Handler
  BY <1>1, HandlersOf DEF Awaiter
<1>3. Awaiter(i) # h
  BY <1>1 DEF ReplayInFlight, Awaiter
<1> QED
  BY <1>1, <1>2, <1>3

LEMMA AwaitedEmpty ==
    ASSUME inbox' = <<>> PROVE ReplaysAwaited'
  BY DEF ReplaysAwaited

LEMMA AppendedAt ==
    ASSUME TypeOK, NEW m \in Message
    PROVE  /\ DOMAIN Append(inbox, m) = 1 .. Len(inbox) + 1
           /\ DOMAIN inbox = 1 .. Len(inbox) /\ Len(inbox) \in Nat
           /\ Append(inbox, m)[Len(inbox) + 1] = m
           /\ \A i \in 1 .. Len(inbox) : Append(inbox, m)[i] = inbox[i]
  BY DEF TypeOK

(* What is emitted is no replay, or the first,                               *)
LEMMA AwaitedSent ==
    ASSUME TypeOK, ReplaysAwaited, NEW s \in Socket, NEW m \in Message, SendTo(s, m),
           UNCHANGED client, StillAwaited,
           m.from \in Kind /\ client.conn = s =>
               /\ replay'[<<s, m.from>>].pc = "waiting" /\ replay'[<<s, m.from>>].v = m.v
               /\ \A i \in DOMAIN inbox : inbox[i].from # m.from
    PROVE  ReplaysAwaited'
<1>1. CASE client.conn # s
  BY <1>1, AwaitedStays DEF SendTo
<1>2. CASE client.conn = s
  <2>1. inbox' = Append(inbox, m) /\ client.conn # None
    BY <1>2, PlaylistDeliveryAssumption DEF SendTo
  <2>2. DOMAIN inbox' = 1 .. Len(inbox) + 1 /\ DOMAIN inbox = 1 .. Len(inbox)
        /\ Len(inbox) \in Nat
    BY <2>1, AppendedAt
  <2> DEFINE n == Len(inbox) + 1
  <2>3. inbox'[n] = m /\ \A i \in DOMAIN inbox : inbox'[i] = inbox[i]
    BY <2>1, AppendedAt
  <2>4. \A i \in DOMAIN inbox' : i = n \/ i \in DOMAIN inbox
    BY <2>2
  <2>5. \A i \in DOMAIN inbox : inbox[i].from \in Kind =>
            /\ replay'[<<client.conn, inbox[i].from>>].pc = "waiting"
            /\ replay'[<<client.conn, inbox[i].from>>].v = inbox[i].v
            /\ \A j \in DOMAIN inbox : inbox[j].from = inbox[i].from => i = j
    BY DEF ReplaysAwaited, StillAwaited, Awaiter
  <2>6. \A i \in DOMAIN inbox : m.from \in Kind => inbox[i].from # m.from
    BY <1>2
  <2>7. ASSUME NEW i \in DOMAIN inbox', inbox'[i].from \in Kind
        PROVE  /\ replay'[<<client.conn, inbox'[i].from>>].pc = "waiting"
               /\ replay'[<<client.conn, inbox'[i].from>>].v = inbox'[i].v
               /\ \A j \in DOMAIN inbox' : inbox'[j].from = inbox'[i].from => i = j
    <3>1. CASE i = n
      BY <1>2, <2>3, <2>4, <2>6, <2>7, <3>1
    <3>2. CASE i \in DOMAIN inbox
      BY <2>3, <2>4, <2>5, <2>6, <2>7, <3>2
    <3> QED
      BY <2>4, <3>1, <3>2
  <2> QED
    BY <2>1, <2>7 DEF ReplaysAwaited
<1> QED
  BY <1>1, <1>2

(* and what is received leaves the others.                                   *)
LEMMA TailAt ==
    ASSUME TypeOK, inbox # <<>>
    PROVE  /\ DOMAIN Tail(inbox) = 1 .. Len(inbox) - 1 /\ Len(inbox) \in Nat
           /\ DOMAIN inbox = 1 .. Len(inbox) /\ Len(inbox) > 0
           /\ \A i \in 1 .. Len(inbox) - 1 : Tail(inbox)[i] = inbox[i + 1]
  BY DEF TypeOK

LEMMA AwaitedReceived ==
    ASSUME TypeOK, ReplaysAwaited, ClientReceive PROVE ReplaysAwaited'
<1> DEFINE m == Head(inbox)
           h == <<client.conn, m.from>>
<1>1. /\ inbox # <<>> /\ inbox' = Tail(inbox) /\ client'.conn = client.conn
      /\ client.conn # None /\ m = inbox[1] /\ 1 \in DOMAIN inbox
  BY HeadTyped DEF ClientReceive, TypeOK, ReplaysAwaited
<1>2. \A i \in DOMAIN inbox' : i + 1 \in DOMAIN inbox /\ inbox'[i] = inbox[i + 1] /\ i \in Nat
                              /\ i + 1 # 1
  BY <1>1, TailAt
<1>3. ASSUME NEW i \in DOMAIN inbox', inbox'[i].from \in Kind
      PROVE  replay'[<<client.conn, inbox'[i].from>>] = replay[<<client.conn, inbox'[i].from>>]
  <2> DEFINE g == <<client.conn, inbox'[i].from>>
  <2>1. CASE m.from \notin Kind
    <3>1. UNCHANGED replay
      BY <2>1 DEF ClientReceive
    <3> QED
      BY <1>1, <3>1
  <2>2. CASE m.from \in Kind
    <3>1. inbox'[i].from # m.from
      BY <1>1, <1>2, <1>3, <2>2 DEF ReplaysAwaited
    <3>2. h \in Handler /\ g \in Handler \ {h}
      BY <1>1, <1>3, <2>2, <3>1, AnsweredSocket, HandlersOf
    <3>3. UNCHANGED replay \/ NotDelivered(h) \/ Stop(h)
      BY DEF ClientReceive, Delivered, Requeue
    <3>4. CASE UNCHANGED replay
      BY <1>1, <3>4
    <3>5. CASE NotDelivered(h) \/ Stop(h)
      BY <3>2, <3>5, Freed
    <3> QED
      BY <3>3, <3>4, <3>5
  <2> QED
    BY <2>1, <2>2
<1>4. ASSUME NEW i \in DOMAIN inbox', inbox'[i].from \in Kind
      PROVE  /\ replay'[<<client.conn, inbox'[i].from>>].pc = "waiting"
             /\ replay'[<<client.conn, inbox'[i].from>>].v = inbox'[i].v
             /\ \A j \in DOMAIN inbox' : inbox'[j].from = inbox'[i].from => i = j
  <2>1. /\ replay[<<client.conn, inbox'[i].from>>].pc = "waiting"
        /\ replay[<<client.conn, inbox'[i].from>>].v = inbox'[i].v
    <3>1. i + 1 \in DOMAIN inbox /\ inbox'[i] = inbox[i + 1]
      BY <1>2, <1>4
    <3> QED
      BY <1>4, <3>1 DEF ReplaysAwaited
  <2>2. ASSUME NEW j \in DOMAIN inbox', inbox'[j].from = inbox'[i].from PROVE i = j
    <3>1. /\ i + 1 \in DOMAIN inbox /\ inbox'[i] = inbox[i + 1]
          /\ j + 1 \in DOMAIN inbox /\ inbox'[j] = inbox[j + 1]
      BY <1>2, <1>4, <2>2
    <3>2. i + 1 = j + 1
      BY <1>4, <2>2, <3>1 DEF ReplaysAwaited
    <3> QED
      BY <1>2, <3>2
  <2>3. replay'[<<client.conn, inbox'[i].from>>] = replay[<<client.conn, inbox'[i].from>>]
    BY <1>1, <1>3, <1>4
  <2> QED
    BY <2>1, <2>2, <2>3
<1> QED
  BY <1>1, <1>4 DEF ReplaysAwaited

LEMMA ReplayStepAwaited ==
    ASSUME TypeOK, CallsHold, ReplaysAwaited, NEW h \in Handler, ReplayStep(h)
    PROVE  ReplaysAwaited'
<1>0. /\ h[1] \in Socket /\ h[2] \in Kind /\ h = <<h[1], h[2]>>
      /\ UNCHANGED client
  BY HandlerParts DEF ReplayStep, ReplayEmit, ReplayTimeout
<1>1. \A g \in Handler \ {h} : replay'[g] = replay[g]
  BY Freed DEF ReplayStep, ReplayEmit, ReplayTimeout, Requeue, ReplayThrows, TypeOK
<1>2. CASE (replay[h].pc # "waiting" \/ ~ReplayInFlight(h)) /\ UNCHANGED inbox
  BY <1>0, <1>1, <1>2, OthersAwaited, AwaitedStays
<1>3. CASE ReplayEmit(h) /\ ~UNCHANGED inbox
  <2> DEFINE m == [v |-> replay[h].v, from |-> h[2]]
  <2>1. SendTo(h[1], m) /\ replay' = [replay EXCEPT ![h].pc = "waiting"] /\ replay[h].pc = "taken"
    BY <1>3 DEF ReplayEmit
  <2>2. m \in Message
    BY <1>0, <2>1 DEF CallsHold, Holding, Message
  <2>3. replay'[h].pc = "waiting" /\ replay'[h].v = m.v
    BY <2>1 DEF TypeOK, ReplayRecord
  <2>4. StillAwaited
    BY <1>1, <2>1, OthersAwaited
  <2>5. client.conn = h[1] => \A i \in DOMAIN inbox : inbox[i].from # h[2]
    BY <1>0, <2>1 DEF ReplaysAwaited
  <2> QED
    BY <1>0, <2>1, <2>2, <2>3, <2>4, <2>5, AwaitedSent
<1>4. CASE ReplayTimeout(h) /\ ReplayInFlight(h)
  <2>1. client.conn = h[1] /\ Forget(h) /\ client.conn # None
    BY <1>0, <1>4, PlaylistDeliveryAssumption DEF ReplayTimeout, ReplayInFlight
  <2>2. DOMAIN inbox' = DOMAIN inbox /\ \A i \in DOMAIN inbox : inbox[i] \in Message
    BY <2>1 DEF Forget, TypeOK
  <2>3. \A i \in DOMAIN inbox : inbox'[i] = IF inbox[i].from = h[2]
                                             THEN [inbox[i] EXCEPT !.from = "nobody"]
                                             ELSE inbox[i]
    BY <2>1 DEF Forget
  <2>4. \A i \in DOMAIN inbox' : inbox'[i].from \in Kind =>
             inbox[i].from # h[2] /\ inbox'[i] = inbox[i]
    BY <2>2, <2>3 DEF Message, Kind
  <2>5. ASSUME NEW i \in DOMAIN inbox', inbox'[i].from \in Kind
        PROVE  /\ replay'[<<client.conn, inbox'[i].from>>].pc = "waiting"
               /\ replay'[<<client.conn, inbox'[i].from>>].v = inbox'[i].v
               /\ \A j \in DOMAIN inbox' : inbox'[j].from = inbox'[i].from => i = j
    <3> DEFINE g == <<client.conn, inbox[i].from>>
    <3>1. inbox'[i] = inbox[i] /\ inbox[i].from # h[2] /\ inbox[i].from \in Kind
          /\ i \in DOMAIN inbox
      BY <2>2, <2>4, <2>5
    <3>2. g \in Handler /\ g # h
      BY <1>0, <2>1, <3>1, HandlersOf
    <3>3. replay[g].pc = "waiting" /\ replay[g].v = inbox[i].v
      BY <3>1 DEF ReplaysAwaited
    <3>4. replay'[g] = replay[g]
      BY <1>1, <3>2
    <3>5. ASSUME NEW j \in DOMAIN inbox', inbox'[j].from = inbox'[i].from PROVE i = j
      <4>1. inbox[j].from = inbox[i].from /\ j \in DOMAIN inbox
        BY <2>2, <2>4, <2>5, <3>1, <3>5
      <4> QED
        BY <3>1, <4>1 DEF ReplaysAwaited
    <3> QED
      BY <1>0, <3>1, <3>3, <3>4, <3>5
  <2> QED
    BY <1>0, <2>1, <2>5 DEF ReplaysAwaited
<1> QED
  BY <1>2, <1>3, <1>4 DEF ReplayStep, ReplayEmit, ReplayTimeout

LEMMA InitialStepAwaited ==
    ASSUME TypeOK, CallsHold, ReplaysAwaited, NEW s \in Socket, InitialStep(s)
    PROVE  ReplaysAwaited'
<1> DEFINE h == Initial(s)
<1>1. h \in Handler /\ replay[h].pc # "waiting" /\ UNCHANGED client
  BY HandlersOf DEF InitialStep, InitialTake, InitialRead, InitialEmit, deviceVars
<1>2. \A g \in Handler \ {h} : replay'[g] = replay[g]
  BY <1>1, Freed DEF InitialStep, InitialTake, InitialRead, InitialEmit, Consume, TypeOK
<1>3. StillAwaited
  BY <1>1, <1>2, OthersAwaited
<1>4. CASE UNCHANGED inbox
  BY <1>1, <1>3, <1>4, AwaitedStays
<1>5. CASE InitialEmit(s)
  <2> DEFINE m == [v |-> replay[h].v, from |-> "nobody"]
  <2>1. SendTo(s, m) /\ m \in Message /\ m.from \notin Kind
    BY <1>1, <1>5 DEF InitialEmit, CallsHold, Message, Kind
  <2> QED
    BY <1>1, <1>3, <2>1, AwaitedSent
<1> QED
  BY <1>4, <1>5 DEF InitialStep, InitialTake, InitialRead, deviceVars

LEMMA SocketStepAwaited ==
    ASSUME TypeOK, CallsHold, ReplaysAwaited, NEW s \in Socket,
           RequestStep(s) \/ Heartbeat(s) \/ Connect(s) \/ HandleDisconnect(s)
    PROVE  ReplaysAwaited'
<1>1. CASE UNCHANGED <<client, inbox, replay>>
  <2>1. StillAwaited
    BY <1>1 DEF StillAwaited, ReplaysAwaited, Awaiter
  <2> QED
    BY <1>1, <2>1, AwaitedStays
<1>2. CASE RequestReply(s)
  <2> DEFINE m == [v |-> request[s].v, from |-> "reply"]
  <2>1. SendTo(s, m) /\ m \in Message /\ UNCHANGED <<client, replay>> /\ m.from \notin Kind
    BY <1>2 DEF RequestReply, CallsHold, Message, Kind
  <2>2. StillAwaited
    BY <2>1 DEF StillAwaited, ReplaysAwaited, Awaiter
  <2> QED
    BY <2>1, <2>2, AwaitedSent
<1>3. CASE Heartbeat(s)
  <2>1. UNCHANGED <<client, inbox>> /\ replay[Beat(s)].pc = "idle" /\ Beat(s) \in Handler
    BY <1>3, HandlersOf DEF Heartbeat, deviceVars
  <2>2. \A g \in Handler \ {Beat(s)} : replay'[g] = replay[g]
    BY <1>3, <2>1 DEF Heartbeat, Consume, TypeOK
  <2> QED
    BY <2>1, <2>2, OthersAwaited, AwaitedStays
<1>4. CASE Connect(s)
  <2>1. inbox = <<>> /\ UNCHANGED inbox
    BY <1>4 DEF Connect, ReplaysAwaited
  <2> QED
    BY <2>1, AwaitedEmpty
<1> QED
  BY <1>1, <1>2, <1>3, <1>4
     DEF RequestStep, RequestCache, RequestRead, RequestStore, HandleDisconnect, deviceVars,
         callVars

LEMMA ReplaysAwaitedKept ==
    ASSUME TypeOK, CallsHold, ReplaysAwaited, [Next]_vars PROVE ReplaysAwaited'
<1>0. UNCHANGED replay => StillAwaited
  BY DEF StillAwaited, ReplaysAwaited, Awaiter
<1>1. CASE UNCHANGED <<client, inbox, replay>>
  BY <1>0, <1>1, AwaitedStays
<1>2. ASSUME NEW v \in Assignment, PushStep(v) PROVE ReplaysAwaited'
  <2>1. UNCHANGED <<client, replay>>
    BY <1>2 DEF PushStep, PushFind, PushEmit, PushTimeout, deviceVars
  <2>2. CASE UNCHANGED inbox
    BY <1>1, <2>1, <2>2
  <2>3. CASE Active(push[v].sock) /\ SendTo(push[v].sock, [v |-> v, from |-> "push"])
    <3> DEFINE m == [v |-> v, from |-> "push"]
    <3>1. m \in Message /\ m.from \notin Kind /\ push[v].sock \in Socket
      BY <2>3 DEF Message, Active, TypeOK, PushRecord, Kind
    <3> QED
      BY <1>0, <2>1, <2>3, <3>1, AwaitedSent
  <2> QED
    BY <1>2, <2>2, <2>3 DEF PushStep, PushFind, PushEmit, PushTimeout, deviceVars
<1>3. CASE AckLost \/ ClientRejects \/ LoseConnection \/ GatewayRestart
  BY <1>3, AwaitedEmpty DEF AckLost, ClientRejects, LoseConnection, GatewayRestart, Gone
<1>4. CASE Assign \/ PendingExpire \/ CacheExpire \/ UNCHANGED vars
  BY <1>1, <1>4 DEF Assign, PendingExpire, CacheExpire, callVars, deviceVars, vars
<1> QED
  BY <1>2, <1>3, <1>4, AwaitedReceived, ReplayStepAwaited, InitialStepAwaited,
     SocketStepAwaited
     DEF Next

-----------------------------------------------------------------------------
(* The theorems                                                              *)

LEMMA InitInv == Init => IInv
<1> SUFFICES ASSUME Init PROVE IInv
  OBVIOUS
<1>1. TypeOK
  BY InitTypes
<1>2. CallsHold /\ NotPushedBefore /\ ReplaysAwaited
  BY DEF Init, CallsHold, NotPushedBefore, ReplaysAwaited, Holding, NoReplay, NoRequest, NoPush
<1>3. LedgerByHandler
  BY NoPlaylistApart
     DEF Init, LedgerByHandler, HeldOnce, Somewhere, OvertakenStaysOut, Holding, NoReplay
<1> QED
  BY <1>1, <1>2, <1>3, LedgerSplits DEF IInv, Ledger

LEMMA StepInv == IInv /\ [Next]_vars => IInv'
<1> SUFFICES ASSUME IInv, [Next]_vars PROVE IInv'
  OBVIOUS
<1>1. TypeOK /\ CallsHold /\ NotPushedBefore /\ ReplaysAwaited /\ Ledger
  BY DEF IInv, Ledger
<1>2. TypeOK' /\ CallsHold' /\ NotPushedBefore' /\ ReplaysAwaited'
  BY <1>1, TypesKept, CallsHoldKept, NotPushedBeforeKept, ReplaysAwaitedKept
<1>3. Ledger'
  BY <1>1, <1>2, LedgerKept
<1> QED
  BY <1>2, <1>3 DEF IInv, Ledger

(* What playlist delivery relies on in every state: who holds the queued     *)
(* playlist, and who waits for which message.                                *)
THEOREM Inductive == Spec => []IInv
<1> QED
  BY InitInv, StepInv, PTL DEF Spec

(* Every variable keeps its type: what the gateway emits is a playlist.      *)
THEOREM TypeCorrect == Spec => []TypeOK
<1>1. IInv => TypeOK
  BY DEF IInv
<1> QED
  BY <1>1, Inductive, PTL

(* The playlist whose push ended last has been shown, is queued or is in the *)
(* hands of a replay, whatever sockets and acknowledgements do.              *)
THEOREM LastPushKept == Spec => []NothingLost
<1>1. IInv => NothingLost
  BY DEF IInv
<1> QED
  BY <1>1, Inductive, PTL

(* A playlist that was overtaken by an acknowledged push is not queued again. *)
THEOREM OvertakenHolds == Spec => []OvertakenStaysOut
<1>1. IInv => OvertakenStaysOut
  BY DEF IInv
<1> QED
  BY <1>1, Inductive, PTL
================================================================================
