-------------------------- MODULE DevicePresenceProofs --------------------------
(***************************************************************************)
(* Theorems about DevicePresence: its types, and that the gateway keeps    *)
(* one connection of the device, for any number of sockets, crons and      *)
(* faults.  Its other properties are liveness, and stay with TLC.          *)
(***************************************************************************)
EXTENDS DevicePresence, DeviceConnectionsProofs

(* What the actions of a connection leave alone.                             *)
RowTypes ==
    /\ row \in [status : {"online", "offline"}, recent : BOOLEAN]
    /\ statusCache \in BOOLEAN
    /\ beat \in [Socket -> BOOLEAN] /\ cron \in [Worker -> {"idle", "mark"}]
    /\ faults \in 0 .. MaxFaults

PresenceInv == TypeOK /\ OneConnection

LEMMA TypeParts == TypeOK <=> ConnectionTypeOK({"write"}, {"write"}) /\ RowTypes
  BY DEF TypeOK, RowTypes

-----------------------------------------------------------------------------
(* Types                                                                     *)

LEMMA FaultTyped ==
    ASSUME RowTypes, Fault \/ UNCHANGED faults PROVE faults' \in 0 .. MaxFaults
  BY DevicePresenceAssumption DEF RowTypes, Fault

LEMMA WriteRowTyped ==
    ASSUME RowTypes, NEW status \in {"online", "offline"}, WriteRow(status)
    PROVE  /\ row' \in [status : {"online", "offline"}, recent : BOOLEAN]
           /\ faults' \in 0 .. MaxFaults
<1>1. faults' \in 0 .. MaxFaults
  BY FaultTyped DEF WriteRow
<1>2. row' \in [status : {"online", "offline"}, recent : BOOLEAN]
  <2>1. CASE row' = [status |-> status, recent |-> TRUE]
    BY <2>1
  <2>2. CASE UNCHANGED row
    BY <2>2 DEF RowTypes
  <2> QED
    BY <2>1, <2>2 DEF WriteRow
<1> QED
  BY <1>1, <1>2

(* A handler goes on.                                                        *)
LEMMA GreetingMoves ==
    ASSUME ConnectionTypeOK({"write"}, {"write"}), NEW s \in Socket,
           NEW pc \in {"idle", "write"}, GreetingAt(s, pc), UNCHANGED <<socketVars, parting>>
    PROVE  ConnectionTypeOK({"write"}, {"write"})'
<1>1. greeting' \in [Socket -> {"write"} \cup {"idle", "begin"}]
  BY AtTyped
<1> QED
  BY <1>1 DEF ConnectionTypeOK, socketVars

LEMMA PartingMoves ==
    ASSUME ConnectionTypeOK({"write"}, {"write"}), NEW s \in Socket,
           NEW pc \in {"idle", "write"}, PartingAt(s, pc), UNCHANGED <<socketVars, greeting>>
    PROVE  ConnectionTypeOK({"write"}, {"write"})'
<1>1. parting' \in [Socket -> {"write"} \cup {"idle", "begin"}]
  BY AtTyped
<1> QED
  BY <1>1 DEF ConnectionTypeOK, socketVars

LEMMA ConnectionTypes ==
    ASSUME ConnectionTypeOK({"write"}, {"write"}), Next
    PROVE  ConnectionTypeOK({"write"}, {"write"})'
<1>1. CASE UNCHANGED connectionVars
  BY <1>1 DEF connectionVars, socketVars, ConnectionTypeOK
<1>2. ASSUME NEW s \in Socket, GreetStep(s) PROVE ConnectionTypeOK({"write"}, {"write"})'
  <2>1. \E pc \in {"idle", "write"} : GreetingAt(s, pc)
    BY <1>2 DEF GreetStep, GreetCheck, GreetWrite
  <2>2. UNCHANGED <<socketVars, parting>>
    BY <1>2 DEF GreetStep, GreetCheck, GreetWrite
  <2> QED
    BY <2>1, <2>2, GreetingMoves
<1>3. ASSUME NEW s \in Socket, PartStep(s) PROVE ConnectionTypeOK({"write"}, {"write"})'
  <2>1. \E pc \in {"idle", "write"} : PartingAt(s, pc)
    BY <1>3 DEF PartStep, PartCache, PartWrite
  <2>2. UNCHANGED <<socketVars, greeting>>
    BY <1>3 DEF PartStep, PartCache, PartWrite
  <2> QED
    BY <2>1, <2>2, PartingMoves
<1>4. ASSUME NEW s \in Socket, Connect(s) PROVE ConnectionTypeOK({"write"}, {"write"})'
  BY <1>4, AcceptTyped DEF Connect
<1>5. ASSUME NEW s \in Socket, HandleDisconnect(s) PROVE ConnectionTypeOK({"write"}, {"write"})'
  BY <1>5, CloseTyped DEF HandleDisconnect
<1>6. CASE LoseConnection
  BY <1>6, LoseClientTyped DEF LoseConnection
<1>7. CASE GatewayRestart
  BY <1>7, RestartTyped DEF GatewayRestart
<1>8. CASE CleanupStaleEntries
  BY <1>8 DEF CleanupStaleEntries, ConnectionTypeOK
<1>9. ASSUME NEW s \in Socket, Heartbeat(s) \/ BeatWrite(s)
      PROVE  ConnectionTypeOK({"write"}, {"write"})'
  BY <1>1, <1>9 DEF Heartbeat, BeatWrite
<1>10. CASE GoesStale
  BY <1>1, <1>10 DEF GoesStale
<1>11. ASSUME NEW w \in Worker, CronStep(w) PROVE ConnectionTypeOK({"write"}, {"write"})'
  BY <1>1, <1>11 DEF CronStep, CronFind, CronMark
<1> QED
  BY <1>2, <1>3, <1>4, <1>5, <1>6, <1>7, <1>8, <1>9, <1>10, <1>11 DEF Next

LEMMA RowTypesKept == ASSUME RowTypes, Next PROVE RowTypes'
<1>1. CASE UNCHANGED <<row, statusCache, beat, cron, faults>>
  BY <1>1 DEF RowTypes
<1>2. ASSUME NEW s \in Socket, Connect(s) \/ GreetCheck(s) \/ HandleDisconnect(s)
      PROVE  RowTypes'
  BY <1>1, <1>2 DEF Connect, GreetCheck, HandleDisconnect
<1>3. CASE LoseConnection
  BY <1>1, <1>3 DEF LoseConnection
<1>4. ASSUME NEW s \in Socket, GreetWrite(s) PROVE RowTypes'
  BY <1>4, WriteRowTyped DEF GreetWrite, RowTypes
<1>5. ASSUME NEW s \in Socket, PartCache(s) PROVE RowTypes'
  BY <1>5 DEF PartCache, RowTypes
<1>6. ASSUME NEW s \in Socket, PartWrite(s) PROVE RowTypes'
  BY <1>6, WriteRowTyped DEF PartWrite, RowTypes
<1>7. ASSUME NEW s \in Socket, Heartbeat(s) PROVE RowTypes'
  BY <1>7 DEF Heartbeat, RowTypes
<1>8. ASSUME NEW s \in Socket, BeatWrite(s) PROVE RowTypes'
  BY <1>8, WriteRowTyped DEF BeatWrite, RowTypes
<1>9. CASE GoesStale
  BY <1>9, FaultTyped DEF GoesStale, RowTypes
<1>10. ASSUME NEW w \in Worker, CronStep(w) PROVE RowTypes'
  BY <1>10 DEF CronStep, CronFind, CronMark, RowTypes
<1>11. CASE CleanupStaleEntries
  BY <1>11 DEF CleanupStaleEntries, RowTypes
<1>12. CASE GatewayRestart
  BY <1>12, FaultTyped DEF GatewayRestart, RowTypes
<1> QED
  BY <1>2, <1>3, <1>4, <1>5, <1>6, <1>7, <1>8, <1>9, <1>10, <1>11, <1>12
     DEF Next, GreetStep, PartStep

-----------------------------------------------------------------------------
(* One connection                                                            *)

LEMMA OneConnectionKept == ASSUME TypeOK, OneConnection, Next PROVE OneConnection'
<1> USE DEF TypeOK
<1>1. CASE UNCHANGED <<socketVars, parting>>
  BY <1>1 DEF OneConnection, socketVars
<1>2. ASSUME NEW s \in Socket, PartStep(s) PROVE OneConnection'
  <2>1. /\ UNCHANGED <<sock, deviceSockets, client>> /\ parting[s] # "idle"
        /\ \A t \in Socket : t # s => parting'[t] = parting[t]
    BY <1>2 DEF PartStep, PartCache, PartWrite, socketVars, PartingAt, ConnectionTypeOK
  <2> QED
    BY <2>1 DEF OneConnection, ConnectionTypeOK
<1>3. ASSUME NEW s \in Socket, Connect(s) PROVE OneConnection'
  BY <1>3, AcceptIsOne DEF Connect
<1>4. ASSUME NEW s \in Socket, HandleDisconnect(s) PROVE OneConnection'
  BY <1>4, CloseIsOne DEF HandleDisconnect
<1>5. CASE LoseConnection
  BY <1>5, LoseClientIsOne DEF LoseConnection
<1>6. CASE GatewayRestart
  BY <1>6, RestartIsOne DEF GatewayRestart
<1>7. CASE CleanupStaleEntries
  (* An entry that is not active is none: the clean-up takes no connection.  *)
  <2>1. deviceSockets = None
    BY <1>7 DEF CleanupStaleEntries, Active, OneConnection, ConnectionTypeOK
  <2> QED
    BY <1>1, <1>7, <2>1 DEF CleanupStaleEntries, socketVars
<1>8. ASSUME NEW s \in Socket, GreetStep(s) \/ Heartbeat(s) \/ BeatWrite(s)
      PROVE  OneConnection'
  BY <1>1, <1>8 DEF GreetStep, GreetCheck, GreetWrite, Heartbeat, BeatWrite, connectionVars
<1>9. CASE GoesStale
  BY <1>1, <1>9 DEF GoesStale, connectionVars
<1>10. ASSUME NEW w \in Worker, CronStep(w) PROVE OneConnection'
  BY <1>1, <1>10 DEF CronStep, CronFind, CronMark, connectionVars
<1> QED
  BY <1>2, <1>3, <1>4, <1>5, <1>6, <1>7, <1>8, <1>9, <1>10 DEF Next

-----------------------------------------------------------------------------
LEMMA InitHolds == Init => PresenceInv
<1> SUFFICES ASSUME Init PROVE PresenceInv
  OBVIOUS
<1>1. ConnectionTypeOK({"write"}, {"write"}) /\ OneConnection
  BY NoConnectionIsOne DEF Init, NoConnection, ConnectionTypeOK
<1>2. RowTypes
  <2>1. row \in [status : {"online", "offline"}, recent : BOOLEAN]
    <3>1. row = [status |-> "offline", recent |-> FALSE]
      BY DEF Init
    <3> QED
      BY <3>1
  <2>2. beat \in [Socket -> BOOLEAN] /\ cron \in [Worker -> {"idle", "mark"}]
    BY DEF Init
  <2>3. statusCache \in BOOLEAN
    BY DEF Init
  <2>4. faults \in 0 .. MaxFaults
    <3>1. faults = 0
      BY DEF Init
    <3> QED
      BY <3>1, DevicePresenceAssumption
  <2> QED
    BY <2>1, <2>2, <2>3, <2>4 DEF RowTypes
<1> QED
  BY <1>1, <1>2, TypeParts DEF PresenceInv

LEMMA StepKeeps == PresenceInv /\ [Next]_vars => PresenceInv'
<1> SUFFICES ASSUME PresenceInv, [Next]_vars PROVE PresenceInv'
  OBVIOUS
<1>1. CASE Next
  <2>1. ConnectionTypeOK({"write"}, {"write"})' /\ RowTypes'
    BY <1>1, ConnectionTypes, RowTypesKept, TypeParts DEF PresenceInv
  <2>2. OneConnection'
    BY <1>1, OneConnectionKept DEF PresenceInv
  <2> QED
    BY <2>1, <2>2 DEF PresenceInv, TypeOK, RowTypes
<1>2. CASE UNCHANGED vars
  <2>1. ConnectionTypeOK({"write"}, {"write"})'
    BY <1>2 DEF vars, connectionVars, socketVars, PresenceInv, TypeOK, ConnectionTypeOK
  <2>2. RowTypes'
    BY <1>2 DEF vars, PresenceInv, TypeOK, RowTypes
  <2>3. OneConnection'
    BY <1>2 DEF vars, connectionVars, socketVars, PresenceInv, OneConnection
  <2> QED
    BY <2>1, <2>2, <2>3 DEF PresenceInv, TypeOK, RowTypes
<1> QED
  BY <1>1, <1>2

(* The row, the status cache, the handlers and the crons keep their types.   *)
THEOREM TypeCorrect == Spec => []TypeOK
<1>1. PresenceInv => TypeOK
  BY DEF PresenceInv
<1> QED
  BY <1>1, InitHolds, StepKeeps, PTL DEF Spec

(* However connects, losses, restarts and the five-minute clean-up follow    *)
(* each other, the gateway has one open socket of the device at most, its    *)
(* Map entry, and never drops the entry of an open one (authenticateConnec-  *)
(* tion, handleDisconnect, cleanupStaleEntries).                             *)
THEOREM ConnectionIsOne == Spec => []OneConnection
<1>1. PresenceInv => OneConnection
  BY DEF PresenceInv
<1> QED
  BY <1>1, InitHolds, StepKeeps, PTL DEF Spec
================================================================================
