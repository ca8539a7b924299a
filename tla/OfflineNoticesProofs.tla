-------------------------- MODULE OfflineNoticesProofs --------------------------
(***************************************************************************)
(* Theorems about OfflineNotices: its types, and that a device that is     *)
(* connected is not left alarmed nor an outage untold, but for the named   *)
(* exceptions, for any number of sockets and of faults.                    *)
(***************************************************************************)
EXTENDS OfflineNotices, DeviceConnectionsProofs

GreetPcs == {"short", "long", "notify"}

(* What every action but those of a connection keeps of the types.           *)
NoticeTypes ==
    /\ scheduled \in {"none", "waiting", "due"} /\ fired \in BOOLEAN
    /\ scan \in {"idle", "create", "fire", "end"}
    /\ notice \in {"online", "offline"} /\ dashboard \in {"online", "offline"}
    /\ faults \in 0 .. MaxFaults /\ past \in Past

(* The parts of the invariant about what people are told.                    *)
Told == KeysInStep /\ AlarmTakenBack /\ OutageTold

-----------------------------------------------------------------------------
(* Types                                                                     *)

LEMMA TypeParts == TypeOK <=> ConnectionTypeOK(GreetPcs, {}) /\ NoticeTypes
  BY DEF TypeOK, NoticeTypes, GreetPcs

LEMMA FaultTyped ==
    ASSUME NoticeTypes, Fault \/ UNCHANGED faults PROVE faults' \in 0 .. MaxFaults
  BY OfflineNoticesAssumption DEF NoticeTypes, Fault

LEMMA FaultCounts == ASSUME NoticeTypes, Fault PROVE faults' # faults
  BY OfflineNoticesAssumption DEF NoticeTypes, Fault

LEMMA InitTypes == Init => TypeOK
<1> SUFFICES ASSUME Init PROVE TypeOK
  OBVIOUS
<1>1. ConnectionTypeOK(GreetPcs, {})
  BY DEF Init, NoConnection, ConnectionTypeOK
<1>2. NoticeTypes
  BY OfflineNoticesAssumption DEF Init, NoticeTypes, Past
<1> QED
  BY <1>1, <1>2, TypeParts

(* A handler goes on.                                                        *)
LEMMA GreetingMoves ==
    ASSUME ConnectionTypeOK(GreetPcs, {}), NEW s \in Socket, NEW pc \in GreetPcs \cup {"idle"},
           GreetingAt(s, pc), UNCHANGED <<socketVars, parting>>
    PROVE  ConnectionTypeOK(GreetPcs, {})'
<1>1. greeting' \in [Socket -> GreetPcs \cup {"idle", "begin"}]
  BY AtTyped
<1> QED
  BY <1>1 DEF ConnectionTypeOK, socketVars

LEMMA PartingEnds ==
    ASSUME ConnectionTypeOK(GreetPcs, {}), NEW s \in Socket, PartingAt(s, "idle"),
           UNCHANGED <<socketVars, greeting>>
    PROVE  ConnectionTypeOK(GreetPcs, {})'
<1>1. parting' \in [Socket -> {} \cup {"idle", "begin"}]
  BY AtTyped
<1> QED
  BY <1>1 DEF ConnectionTypeOK, socketVars

LEMMA ConnectionTypes ==
    ASSUME ConnectionTypeOK(GreetPcs, {}), Next
    PROVE  ConnectionTypeOK(GreetPcs, {})'
<1>1. CASE UNCHANGED connectionVars
  BY <1>1 DEF connectionVars, socketVars, ConnectionTypeOK
<1>2. ASSUME NEW s \in Socket, GreetAsk(s) \/ GreetCancel(s) \/ GreetNotify(s)
      PROVE  ConnectionTypeOK(GreetPcs, {})'
  <2>1. CASE ShowThrows(s)
    BY <2>1, CloseAfterThrowTyped DEF ShowThrows
  <2>2. CASE (\E pc \in GreetPcs \cup {"idle"} : GreetingAt(s, pc)) /\ UNCHANGED <<socketVars, parting>>
    BY <2>2, GreetingMoves
  <2> QED
    BY <1>2, <2>1, <2>2 DEF GreetAsk, GreetCancel, GreetNotify, Show, GreetPcs
<1>3. ASSUME NEW s \in Socket, PartSchedule(s) PROVE ConnectionTypeOK(GreetPcs, {})'
  BY <1>3, PartingEnds DEF PartSchedule
<1>4. ASSUME NEW s \in Socket, Connect(s) PROVE ConnectionTypeOK(GreetPcs, {})'
  BY <1>4, AcceptTyped DEF Connect
<1>5. CASE LoseConnection
  BY <1>5, LoseClientTyped DEF LoseConnection
<1>6. ASSUME NEW s \in Socket, HandleDisconnect(s) PROVE ConnectionTypeOK(GreetPcs, {})'
  BY <1>6, CloseTyped DEF HandleDisconnect
<1>7. ASSUME NEW s \in Socket, GreetThrows(s) PROVE ConnectionTypeOK(GreetPcs, {})'
  BY <1>7, CloseAfterThrowTyped DEF GreetThrows
<1>8. CASE GatewayRestart
  BY <1>8, RestartTyped DEF GatewayRestart
<1>9. CASE DelayPasses \/ ScanStep
  BY <1>1, <1>9 DEF DelayPasses, ScanStep, ScanFind, ScanCreate, ScanFire, ScanEnd
<1>10. CASE FiredExpire \/ KeyExpire
  BY <1>1, <1>10 DEF FiredExpire, KeyExpire
<1> QED
  BY <1>2, <1>3, <1>4, <1>5, <1>6, <1>7, <1>8, <1>9, <1>10 DEF Next, GreetStep

LEMMA NoticeTypesKept == NoticeTypes /\ Next => NoticeTypes'
<1> SUFFICES ASSUME NoticeTypes, Next PROVE NoticeTypes'
  OBVIOUS
<1>0. CASE UNCHANGED <<redisVars, scan, toldVars, past>> /\ (Fault \/ UNCHANGED faults)
  BY <1>0, FaultTyped DEF NoticeTypes, redisVars, toldVars
<1>1. CASE LoseConnection
  BY <1>0, <1>1 DEF LoseConnection
<1>2. CASE DelayPasses
  BY <1>2 DEF DelayPasses, NoticeTypes, toldVars
<1>3. CASE ScanFind
  BY <1>3 DEF ScanFind, NoticeTypes, redisVars, toldVars
<1>4. CASE ScanCreate
  BY <1>4, FaultTyped DEF ScanCreate, NoticeTypes, redisVars, Past
<1>5. CASE ScanFire
  BY <1>5, FaultTyped DEF ScanFire, NoticeTypes, toldVars
<1>6. CASE ScanEnd
  BY <1>6, FaultTyped DEF ScanEnd, NoticeTypes, toldVars, Past
<1>7. CASE GatewayRestart
  <2>1. past' \in Past
    <3> DEFINE cut == deviceSockets # None \/ \E s \in Socket : parting[s] # "idle"
               unsaid == notice = "offline" /\ \E s \in Socket : greeting[s] = "notify"
    <3>1. past' = [past EXCEPT !.unscheduled = @ \/ cut, !.unshown = @ \/ cut,
                               !.unanswered = @ \/ unsaid]
      BY <1>7 DEF GatewayRestart
    <3>2. PICK a, b, c \in BOOLEAN :
             past' = [past EXCEPT !.unscheduled = a, !.unshown = b, !.unanswered = c]
      <4> WITNESS (past.unscheduled \/ cut) \in BOOLEAN, (past.unshown \/ cut) \in BOOLEAN,
                  (past.unanswered \/ unsaid) \in BOOLEAN
      <4> QED
        BY <3>1
    <3> QED
      BY <3>2 DEF NoticeTypes, Past
  <2> QED
    BY <1>7, <2>1, FaultTyped DEF GatewayRestart, NoticeTypes, redisVars, toldVars
<1>8. ASSUME NEW s \in Socket, Connect(s) \/ GreetAsk(s) \/ GreetThrows(s) \/ HandleDisconnect(s)
      PROVE  NoticeTypes'
  BY <1>0, <1>8 DEF Connect, GreetAsk, GreetThrows, HandleDisconnect
<1>9. ASSUME NEW s \in Socket, GreetCancel(s) PROVE NoticeTypes'
  <2>1. past' \in Past
    BY <1>9 DEF GreetCancel, Outlived, NoticeTypes, Past
  <2>2. dashboard' \in {dashboard, "online"} /\ (Fault \/ UNCHANGED faults)
    BY <1>9 DEF GreetCancel, Show, ShowThrows
  <2> QED
    BY <1>9, <2>1, <2>2, FaultTyped DEF GreetCancel, NoticeTypes
<1>10. ASSUME NEW s \in Socket, GreetNotify(s) PROVE NoticeTypes'
  <2>1. /\ dashboard' \in {dashboard, "online"} /\ notice' \in {notice, "online"}
        /\ Fault \/ UNCHANGED faults
    BY <1>10 DEF GreetNotify, Show, ShowThrows
  <2>2. past' \in Past
    <3>1. PICK a, b, c, d, e \in BOOLEAN :
             past' = [past EXCEPT !.outlived = a, !.raced = b, !.masked = c, !.expired = d,
                                  !.unanswered = e]
      <4> DEFINE left == notice' = "offline"
      <4> WITNESS (past.outlived \/ Outlived(s)) \in BOOLEAN, (past.raced /\ left) \in BOOLEAN,
                  (past.masked /\ left) \in BOOLEAN, (past.expired /\ left) \in BOOLEAN,
                  left \in BOOLEAN
      <4> QED
        BY <1>10 DEF GreetNotify, Answers
    <3> DEFINE p == [past EXCEPT !.outlived = a, !.raced = b, !.masked = c]
    <3>2. p \in Past
      BY DEF NoticeTypes, Past
    <3>3. [p EXCEPT !.expired = d, !.unanswered = e] \in Past
      <4> HIDE DEF p
      <4> QED
        BY <3>2 DEF Past
    <3> QED
      BY <3>1, <3>3
  <2> QED
    BY <1>10, <2>1, <2>2, FaultTyped DEF GreetNotify, NoticeTypes, redisVars
<1>11. ASSUME NEW s \in Socket, PartSchedule(s) PROVE NoticeTypes'
  <2>1. PICK written, shown \in BOOLEAN :
            /\ scheduled' = IF written THEN "waiting" ELSE scheduled
            /\ dashboard' \in {dashboard, "offline"}
            /\ past' = [past EXCEPT !.crossed = @ \/ Crossed(s), !.outlived = FALSE,
                                    !.clobbered = FALSE, !.unscheduled = ~written,
                                    !.unshown = ~shown,
                                    !.masked = @ \/ (written /\ notice = "offline")]
    BY <1>11 DEF PartSchedule
  <2>2. past' \in Past
    <3>1. PICK a, b, c, d \in BOOLEAN :
             past' = [past EXCEPT !.crossed = a, !.outlived = FALSE, !.clobbered = FALSE,
                                  !.unscheduled = b, !.unshown = c, !.masked = d]
      <4> WITNESS (past.crossed \/ Crossed(s)) \in BOOLEAN, (~written) \in BOOLEAN,
                  (~shown) \in BOOLEAN,
                  (past.masked \/ (written /\ notice = "offline")) \in BOOLEAN
      <4> QED
        BY <2>1
    <3> DEFINE p == [past EXCEPT !.crossed = a, !.outlived = FALSE, !.clobbered = FALSE]
    <3>2. p \in Past
      BY DEF NoticeTypes, Past
    <3>3. [p EXCEPT !.unscheduled = b, !.unshown = c, !.masked = d] \in Past
      <4> HIDE DEF p
      <4> QED
        BY <3>2 DEF Past
    <3> QED
      BY <3>1, <3>3
  <2>3. Fault \/ UNCHANGED faults
    BY <1>11 DEF PartSchedule
  <2> QED
    BY <1>11, <2>1, <2>2, <2>3, FaultTyped DEF PartSchedule, NoticeTypes
<1>12. CASE FiredExpire
  BY <1>12 DEF FiredExpire, NoticeTypes, toldVars, Past
<1>13. CASE KeyExpire
  BY <1>13, FaultTyped DEF KeyExpire, NoticeTypes, toldVars, Past
<1> QED
  BY <1>1, <1>2, <1>3, <1>4, <1>5, <1>6, <1>7, <1>8, <1>9, <1>10, <1>11, <1>12, <1>13
     DEF Next, ScanStep, GreetStep

LEMMA TypesKept == TypeOK /\ Next => TypeOK'
<1> SUFFICES ASSUME TypeOK, Next PROVE TypeOK'
  OBVIOUS
<1>1. ConnectionTypeOK(GreetPcs, {})' /\ NoticeTypes'
  BY ConnectionTypes, NoticeTypesKept, TypeParts
<1> QED
  BY <1>1 DEF TypeOK, NoticeTypes, GreetPcs

-----------------------------------------------------------------------------
(* One connection                                                            *)

LEMMA OneConnectionKept ==
    ASSUME TypeOK, OneConnection, Next PROVE OneConnection'
<1> USE DEF TypeOK
<1>1. CASE UNCHANGED <<socketVars, parting>>
  BY <1>1 DEF OneConnection, socketVars
<1>2. ASSUME NEW s \in Socket, PartSchedule(s) PROVE OneConnection'
  <2>1. UNCHANGED <<sock, deviceSockets, client>> /\ parting' = [parting EXCEPT ![s] = "idle"]
    BY <1>2 DEF PartSchedule, socketVars, PartingAt
  <2> QED
    BY <2>1 DEF OneConnection, ConnectionTypeOK
<1>3. ASSUME NEW s \in Socket, Connect(s) PROVE OneConnection'
  BY <1>3, AcceptIsOne DEF Connect
<1>4. ASSUME NEW s \in Socket, HandleDisconnect(s) PROVE OneConnection'
  BY <1>4, CloseIsOne DEF HandleDisconnect
<1>5. ASSUME NEW s \in Socket, GreetThrows(s) PROVE OneConnection'
  BY <1>5, CloseAfterThrowIsOne DEF GreetThrows
<1>6. ASSUME NEW s \in Socket, GreetStep(s) PROVE OneConnection'
  <2>1. CASE ShowThrows(s)
    BY <2>1, CloseAfterThrowIsOne DEF ShowThrows
  <2> QED
    BY <1>1, <1>6, <2>1 DEF GreetStep, GreetAsk, GreetCancel, GreetNotify, Show
<1>7. CASE LoseConnection
  BY <1>7, LoseClientIsOne DEF LoseConnection
<1>8. CASE GatewayRestart
  BY <1>8, RestartIsOne DEF GatewayRestart
<1>9. CASE DelayPasses \/ ScanStep \/ FiredExpire \/ KeyExpire
  BY <1>1, <1>9 DEF DelayPasses, ScanStep, ScanFind, ScanCreate, ScanFire, ScanEnd, FiredExpire,
                    KeyExpire, connectionVars
<1> QED
  BY <1>2, <1>3, <1>4, <1>5, <1>6, <1>7, <1>8, <1>9 DEF Next

-----------------------------------------------------------------------------
(* What people are told: one lemma per action                                *)

LEMMA InitTold == Init => Told
  BY DEF Init, NoConnection, Told, KeysInStep, AlarmTakenBack, OutageTold, Cancelled, Telling,
         Answerable, OfflineLong, Parted

(* The connections change, but nobody who tells goes: no disconnect ends,    *)
(* and the current connection has cancelled only if it had before.           *)
LEMMA ConnectionChanges ==
    ASSUME Told, UNCHANGED <<redisVars, scan, toldVars, past>>,
           \A t \in Socket : greeting'[t] = "notify" <=> greeting[t] = "notify",
           \A t \in Socket : greeting'[t] = "short" => greeting[t] = "short",
           deviceSockets' # None => \/ greeting'[deviceSockets'] = "begin"
                                    \/ /\ deviceSockets' = deviceSockets
                                       /\ greeting'[deviceSockets] = greeting[deviceSockets],
           Parted' => Parted
    PROVE  Told'
<1>1. Telling => Telling'
  BY DEF Telling
<1>2. (\E t \in Socket : greeting'[t] = "short") => \E t \in Socket : greeting[t] = "short"
  OBVIOUS
<1>3. (Answerable' <=> Answerable) /\ (OfflineLong' <=> OfflineLong)
  BY DEF Answerable, OfflineLong, redisVars, toldVars
<1>4. Cancelled' => /\ Cancelled
                    /\ greeting'[deviceSockets'] = "idle" => greeting[deviceSockets] = "idle"
  BY DEF Cancelled
<1>5. KeysInStep'
  BY DEF Told, KeysInStep, redisVars, toldVars
<1>6. AlarmTakenBack'
  BY <1>1, <1>2, <1>3, <1>4 DEF Told, AlarmTakenBack, redisVars, toldVars
<1>7. OutageTold'
  BY DEF Told, OutageTold, redisVars, toldVars
<1> QED
  BY <1>5, <1>6, <1>7 DEF Told

LEMMA ConnectTold ==
    ASSUME TypeOK, OneConnection, Told, NEW s \in Socket, Connect(s) PROVE Told'
<1>1. /\ deviceSockets' = s /\ greeting[s] = "idle"
      /\ greeting' = [greeting EXCEPT ![s] = "begin"]
  BY AcceptIsOne DEF Connect, TypeOK
<1>2. \A t \in Socket : greeting'[t] = IF t = s THEN "begin" ELSE greeting[t]
  BY <1>1 DEF TypeOK, ConnectionTypeOK
<1>3. ~Parted'
  BY <1>1, DeviceConnectionsAssumption DEF Parted
<1> QED
  BY <1>1, <1>2, <1>3, ConnectionChanges DEF Connect

LEMMA HandleDisconnectTold ==
    ASSUME TypeOK, OneConnection, Told, NEW s \in Socket, HandleDisconnect(s) PROVE Told'
<1>1. /\ deviceSockets' = None /\ UNCHANGED greeting
      /\ parting' = [parting EXCEPT ![s] = "begin"]
  BY CloseIsOne DEF HandleDisconnect, TypeOK
<1>2. ~Parted'
  BY <1>1 DEF Parted, TypeOK, ConnectionTypeOK
<1> QED
  BY <1>1, <1>2, ConnectionChanges DEF HandleDisconnect

LEMMA GreetThrowsTold ==
    ASSUME TypeOK, OneConnection, Told, NEW s \in Socket, GreetThrows(s) PROVE Told'
<1>1. /\ greeting' = [greeting EXCEPT ![s] = "idle"]
      /\ IF deviceSockets = s
           THEN deviceSockets' = None /\ parting' = [parting EXCEPT ![s] = "begin"]
           ELSE UNCHANGED <<deviceSockets, parting>>
  BY CloseAfterThrowIsOne DEF GreetThrows, TypeOK
<1>2. \A t \in Socket : greeting'[t] = IF t = s THEN "idle" ELSE greeting[t]
  BY <1>1 DEF TypeOK, ConnectionTypeOK
<1>3. greeting[s] \notin {"notify", "idle"}
  BY DEF GreetThrows
<1>4. deviceSockets' # None => /\ deviceSockets' = deviceSockets
                               /\ greeting'[deviceSockets] = greeting[deviceSockets]
  BY <1>1, <1>2 DEF TypeOK, ConnectionTypeOK
<1>5. Parted' => Parted
  BY <1>1 DEF Parted, TypeOK, ConnectionTypeOK, GreetThrows
<1> QED
  BY <1>2, <1>3, <1>4, <1>5, ConnectionChanges DEF GreetThrows

LEMMA LoseConnectionTold ==
    ASSUME TypeOK, Told, LoseConnection PROVE Told'
<1>1. UNCHANGED <<deviceSockets, greeting, parting, redisVars, scan, toldVars, past>>
  BY DEF LoseConnection, LoseClient
<1>2. Parted' => Parted
  BY <1>1 DEF Parted
<1> QED
  BY <1>1, <1>2, ConnectionChanges

LEMMA GatewayRestartTold ==
    ASSUME TypeOK, OneConnection, Told, GatewayRestart PROVE Told'
<1> DEFINE gone == deviceSockets # None \/ \E t \in Socket : parting[t] # "idle"
           unsaid == notice = "offline" /\ Telling
<1>1. /\ deviceSockets' = None /\ greeting' = [t \in Socket |-> "idle"] /\ scan' = "idle"
      /\ UNCHANGED <<scheduled, fired, notice, dashboard>>
      /\ past' = [past EXCEPT !.unscheduled = @ \/ gone, !.unshown = @ \/ gone,
                              !.unanswered = @ \/ unsaid]
  BY DEF GatewayRestart, Restart, Telling, redisVars, toldVars
<1>2. /\ past.unscheduled \/ gone => past'.unscheduled
      /\ past.unshown \/ gone => past'.unshown
      /\ past.unanswered \/ unsaid => past'.unanswered
      /\ past'.raced = past.raced /\ past'.masked = past.masked /\ past'.expired = past.expired
      /\ past'.outlived = past.outlived /\ past'.clobbered = past.clobbered
  BY <1>1 DEF TypeOK, Past
<1>3. Answerable' => Answerable /\ ~Telling
  BY <1>1, <1>2 DEF Answerable
<1>4. (OfflineLong' <=> OfflineLong) /\ ~Cancelled' /\ \A t \in Socket : greeting'[t] = "idle"
  BY <1>1 DEF OfflineLong, Cancelled
<1>5. AlarmTakenBack'
  BY <1>3, <1>4 DEF Told, AlarmTakenBack
<1>6. Parted' => Parted \/ (past'.unscheduled /\ past'.unshown)
  BY <1>2 DEF Parted
<1>7. OutageTold'
  BY <1>1, <1>2, <1>6 DEF Told, OutageTold
<1> QED
  BY <1>1, <1>4, <1>5, <1>7 DEF Told, KeysInStep

(* The outage is found to be long if its alarm can be taken back, unless one *)
(* is telling so.                                                            *)
LEMMA GreetAskTold ==
    ASSUME TypeOK, Told, NEW s \in Socket, GreetAsk(s) PROVE Told'
<1>1. UNCHANGED <<deviceSockets, parting, redisVars, scan, toldVars, past>>
  BY DEF GreetAsk, socketVars
<1>2. /\ greeting[s] = "begin"
      /\ \A t \in Socket : greeting'[t] = IF t = s THEN IF OfflineLong THEN "long" ELSE "short"
                                          ELSE greeting[t]
  BY DEF GreetAsk, GreetingAt, TypeOK, ConnectionTypeOK
<1>3. Telling => Telling'
  BY <1>2 DEF Telling
<1>4. (Answerable' <=> Answerable) /\ (OfflineLong' <=> OfflineLong)
  BY <1>1 DEF Answerable, OfflineLong, redisVars, toldVars
<1>5. Cancelled' => Cancelled /\ greeting'[deviceSockets] = greeting[deviceSockets]
  BY <1>1, <1>2 DEF Cancelled, TypeOK, ConnectionTypeOK
<1>6. KeysInStep'
  BY <1>1, <1>2 DEF Told, KeysInStep, redisVars, toldVars, OfflineLong
<1>7. AlarmTakenBack'
  <2>1. (Cancelled' => scheduled' = "none")
        /\ (Cancelled' /\ greeting'[deviceSockets'] = "idle" => dashboard' = "online")
    BY <1>1, <1>3, <1>5 DEF Told, AlarmTakenBack, redisVars, toldVars
  <2>2. Answerable' => OfflineLong' \/ Telling'
    BY <1>3, <1>4 DEF Told, AlarmTakenBack
  <2>3. ASSUME Answerable, Cancelled' \/ \E t \in Socket : greeting'[t] = "short"
        PROVE  Telling'
    <3>1. Cancelled \/ (\E t \in Socket : greeting[t] = "short") \/ ~OfflineLong
      BY <1>2, <1>5, <2>3
    <3> QED
      BY <1>3, <2>3, <3>1 DEF Told, AlarmTakenBack
  <2> QED
    BY <1>4, <2>1, <2>2, <2>3 DEF AlarmTakenBack
<1>8. OutageTold'
  BY <1>1 DEF Told, OutageTold, Parted, redisVars, toldVars
<1> QED
  BY <1>6, <1>7, <1>8 DEF Told

(* The connect that tells the dashboards ends, or fails and is closed, whose *)
(* disconnect begins if it was the current one.                              *)
LEMMA ShowEnds ==
    ASSUME TypeOK, OneConnection, NEW s \in Socket, Show(s) \/ ShowThrows(s)
    PROVE  /\ \A t \in Socket : greeting'[t] = IF t = s THEN "idle" ELSE greeting[t]
           /\ dashboard' \in {dashboard, "online"}
           /\ \/ UNCHANGED <<deviceSockets, parting>> /\ (deviceSockets = s => dashboard' = "online")
              \/ deviceSockets' = None /\ parting'[s] = "begin"
<1>1. CASE Show(s)
  BY <1>1 DEF Show, GreetingAt, socketVars, TypeOK, ConnectionTypeOK
<1>2. CASE ShowThrows(s)
  <2>1. /\ greeting' = [greeting EXCEPT ![s] = "idle"]
        /\ IF deviceSockets = s
             THEN deviceSockets' = None /\ parting' = [parting EXCEPT ![s] = "begin"]
             ELSE UNCHANGED <<deviceSockets, parting>>
    BY <1>2, CloseAfterThrowIsOne DEF ShowThrows, TypeOK
  <2> QED
    BY <1>2, <2>1 DEF ShowThrows, TypeOK, ConnectionTypeOK
<1> QED
  BY <1>1, <1>2

(* What the connect cancels it tells next, or somebody else does.            *)
LEMMA GreetCancelTold ==
    ASSUME TypeOK, OneConnection, Told, NEW s \in Socket, GreetCancel(s) PROVE Told'
<1>1. scheduled' = "none" /\ greeting[s] \in {"short", "long"} /\ UNCHANGED notice
  BY DEF GreetCancel
<1>2. /\ \A t \in Socket : t # s => greeting'[t] = greeting[t]
      /\ \/ greeting[s] = "long" /\ greeting'[s] = "notify" /\ UNCHANGED dashboard
         \/ greeting[s] = "short" /\ greeting'[s] = "idle"
      /\ dashboard' \in {dashboard, "online"}
      /\ \/ UNCHANGED <<deviceSockets, parting>>
            /\ (greeting'[s] = "idle" /\ deviceSockets = s => dashboard' = "online")
         \/ deviceSockets' = None /\ parting'[s] = "begin"
  <2>1. CASE /\ greeting[s] = "long" /\ GreetingAt(s, "notify")
             /\ UNCHANGED <<socketVars, parting, dashboard, faults>>
    BY <2>1 DEF GreetingAt, socketVars, TypeOK, ConnectionTypeOK
  <2>2. CASE greeting[s] = "short" /\ (Show(s) \/ ShowThrows(s))
    BY <2>2, ShowEnds
  <2> QED
    BY <2>1, <2>2 DEF GreetCancel
<1>3. past' = [past EXCEPT !.crossed = @ /\ s # deviceSockets, !.outlived = @ \/ Outlived(s)]
  BY DEF GreetCancel
<1>4. /\ (past'.outlived <=> past.outlived \/ Outlived(s))
      /\ (past'.crossed <=> past.crossed /\ s # deviceSockets)
      /\ past'.raced = past.raced /\ past'.masked = past.masked
      /\ past'.expired = past.expired /\ past'.unanswered = past.unanswered
  BY <1>3 DEF TypeOK, Past
<1>5. Telling => Telling'
  BY <1>1, <1>2 DEF Telling
<1>6. greeting[s] = "long" => Telling'
  BY <1>2 DEF Telling
<1>7. Answerable' => Answerable
  BY <1>1, <1>4 DEF Answerable
<1>8. Answerable => Telling'
  BY <1>1, <1>5, <1>6 DEF Told, AlarmTakenBack
<1>9. Cancelled' /\ greeting'[deviceSockets'] = "idle" => dashboard' = "online"
  <2> SUFFICES ASSUME Cancelled', greeting'[deviceSockets'] = "idle" PROVE dashboard' = "online"
    OBVIOUS
  <2>1. deviceSockets' # None /\ UNCHANGED deviceSockets
    BY <1>2 DEF Cancelled
  <2>2. CASE deviceSockets = s
    BY <1>2, <2>1, <2>2
  <2>3. CASE deviceSockets # s
    <3>1. deviceSockets \in Socket
      BY <2>1 DEF TypeOK, ConnectionTypeOK
    <3>2. Cancelled /\ greeting[deviceSockets] = "idle"
      BY <1>2, <1>4, <2>1, <2>3, <3>1 DEF Cancelled
    <3> QED
      BY <1>2, <3>2 DEF Told, AlarmTakenBack
  <2> QED
    BY <2>2, <2>3
<1>10. AlarmTakenBack'
  BY <1>1, <1>7, <1>8, <1>9 DEF AlarmTakenBack
<1>11. ~Parted'
  BY <1>2, <1>4 DEF Parted, Outlived
<1> QED
  BY <1>1, <1>10, <1>11 DEF Told, KeysInStep, OutageTold

LEMMA GreetNotifyTold ==
    ASSUME TypeOK, OneConnection, Told, NEW s \in Socket, GreetNotify(s) PROVE Told'
<1>1. /\ greeting[s] = "notify" /\ notice' \in {"online", "offline"}
      /\ UNCHANGED <<scheduled, fired, scan>>
      /\ Show(s) \/ ShowThrows(s)
  BY DEF GreetNotify, redisVars, TypeOK
<1>2. /\ \A t \in Socket : greeting'[t] = IF t = s THEN "idle" ELSE greeting[t]
      /\ dashboard' \in {dashboard, "online"}
      /\ \/ UNCHANGED <<deviceSockets, parting>> /\ (deviceSockets = s => dashboard' = "online")
         \/ deviceSockets' = None /\ parting'[s] = "begin"
  BY <1>1, ShowEnds
<1>3. /\ (past'.outlived <=> past.outlived \/ Outlived(s)) /\ past'.crossed = past.crossed
      /\ notice' = "offline" => past'.unanswered
  BY DEF GreetNotify, Answers, TypeOK, Past
<1>5. ~Answerable'
  BY <1>1, <1>3 DEF Answerable
<1>6. ~Parted'
  BY <1>2, <1>3 DEF Parted, Outlived
<1>7. Cancelled' => Cancelled /\ UNCHANGED deviceSockets
  BY <1>1, <1>2, <1>3 DEF Cancelled, TypeOK, ConnectionTypeOK
<1>8. KeysInStep'
  BY <1>1, <1>2 DEF Told, KeysInStep
<1>9. Cancelled' /\ greeting'[deviceSockets'] = "idle" => dashboard' = "online"
  <2> SUFFICES ASSUME Cancelled', greeting'[deviceSockets'] = "idle" PROVE dashboard' = "online"
    OBVIOUS
  <2>1. CASE deviceSockets = s
    BY <1>2, <1>7, <2>1 DEF Cancelled
  <2>2. CASE deviceSockets # s
    <3>1. Cancelled /\ deviceSockets \in Socket /\ greeting[deviceSockets] = "idle"
      BY <1>2, <1>7, <2>2 DEF TypeOK, ConnectionTypeOK, Cancelled
    <3> QED
      BY <1>2, <3>1 DEF Told, AlarmTakenBack
  <2> QED
    BY <2>1, <2>2
<1> QED
  BY <1>1, <1>5, <1>6, <1>7, <1>8, <1>9 DEF Told, AlarmTakenBack, OutageTold

(* The disconnect of a socket that is not the current one ends.              *)
LEMMA PartScheduleTold ==
    ASSUME TypeOK, OneConnection, Told, NEW s \in Socket, PartSchedule(s) PROVE Told'
<1>1. PICK written, shown \in BOOLEAN :
          /\ scheduled' = IF written THEN "waiting" ELSE scheduled
          /\ shown => dashboard' = "offline"
          /\ past' = [past EXCEPT !.crossed = @ \/ Crossed(s), !.outlived = FALSE,
                                  !.clobbered = FALSE, !.unscheduled = ~written,
                                  !.unshown = ~shown,
                                  !.masked = @ \/ (written /\ notice = "offline")]
  BY DEF PartSchedule
<1>2. /\ parting[s] = "begin"
      /\ UNCHANGED <<deviceSockets, greeting, fired, scan, notice>>
  BY DEF PartSchedule, socketVars
<1>3. /\ (past'.crossed <=> past.crossed \/ Crossed(s))
      /\ (past'.masked <=> past.masked \/ (written /\ notice = "offline"))
      /\ past'.raced = past.raced /\ past'.expired = past.expired
      /\ past'.unanswered = past.unanswered
      /\ past'.unscheduled = ~written /\ past'.unshown = ~shown
  BY <1>1 DEF TypeOK, Past
<1>4. deviceSockets # s
  BY <1>2, DeviceConnectionsAssumption DEF OneConnection
<1>5. ~Cancelled'
  BY <1>2, <1>3, <1>4 DEF Cancelled, Crossed
<1>6. Answerable' => Answerable /\ UNCHANGED scheduled
  BY <1>1, <1>2, <1>3 DEF Answerable
<1>7. (UNCHANGED scheduled => (OfflineLong' <=> OfflineLong)) /\ (Telling' <=> Telling)
  BY <1>2 DEF OfflineLong, Telling
<1>8. AlarmTakenBack'
  BY <1>2, <1>5, <1>6, <1>7 DEF Told, AlarmTakenBack
<1>9. KeysInStep'
  BY <1>1, <1>2 DEF Told, KeysInStep
<1>10. OutageTold'
  BY <1>1, <1>3 DEF OutageTold
<1> QED
  BY <1>8, <1>9, <1>10 DEF Told

(* Steps of the loop and of the clock leave the connections alone.           *)
LEMMA ConnectionStays ==
    ASSUME UNCHANGED connectionVars, past'.crossed = past.crossed
    PROVE  /\ (Cancelled' <=> Cancelled) /\ (Telling' <=> Telling)
           /\ UNCHANGED <<deviceSockets, greeting, parting>>
  BY DEF connectionVars, socketVars, Cancelled, Telling

LEMMA DelayPassesTold ==
    ASSUME TypeOK, Told, DelayPasses PROVE Told'
<1>1. /\ scheduled = "waiting" /\ scheduled' = "due" /\ scan = "idle" /\ scan' = "idle"
      /\ \A t \in Socket : greeting[t] = "idle"
      /\ UNCHANGED <<connectionVars, notice, dashboard, past>>
  BY DEF DelayPasses, HandlersIdle, toldVars
<1>2. ~Cancelled' /\ \A t \in Socket : greeting'[t] = "idle"
  BY <1>1, ConnectionStays DEF Told, AlarmTakenBack
<1>3. OfflineLong'
  BY <1>1 DEF OfflineLong
<1>4. Parted' <=> Parted
  BY <1>1 DEF Parted, connectionVars, socketVars
<1>5. OutageTold'
  BY <1>1, <1>4 DEF Told, OutageTold
<1> QED
  BY <1>1, <1>2, <1>3, <1>5 DEF Told, KeysInStep, AlarmTakenBack

LEMMA ScanFindTold ==
    ASSUME TypeOK, Told, ScanFind PROVE Told'
<1>1. UNCHANGED <<connectionVars, scheduled, fired, notice, dashboard, past>> /\ scan' = "create"
  BY DEF ScanFind, redisVars, toldVars
<1>2. (Cancelled' <=> Cancelled) /\ (Telling' <=> Telling)
      /\ UNCHANGED <<deviceSockets, greeting, parting>>
  BY <1>1, ConnectionStays
<1>3. (Answerable' <=> Answerable) /\ (OfflineLong' <=> OfflineLong)
  BY <1>1 DEF Answerable, OfflineLong
<1>4. Parted' <=> Parted
  BY <1>1, <1>2 DEF Parted
<1>5. KeysInStep'
  BY <1>1, <1>2 DEF Told, KeysInStep
<1>6. AlarmTakenBack'
  BY <1>1, <1>2, <1>3 DEF Told, AlarmTakenBack
<1>7. OutageTold'
  BY <1>1, <1>4 DEF Told, OutageTold
<1> QED
  BY <1>5, <1>6, <1>7 DEF Told

(* An alarm created as its key is gone was raced; otherwise no connect is    *)
(* past the check, and the next finds the key.                               *)
LEMMA ScanCreateTold ==
    ASSUME TypeOK, Told, ScanCreate PROVE Told'
<1>1. CASE /\ notice' = "offline" /\ scan' = "fire"
           /\ past' = [past EXCEPT !.raced = scheduled # "due", !.masked = FALSE,
                                   !.expired = FALSE, !.unanswered = FALSE]
  <2>1. UNCHANGED <<connectionVars, scheduled, fired, dashboard>>
    BY DEF ScanCreate, redisVars
  <2>2. /\ past'.crossed = past.crossed /\ (past'.raced <=> scheduled # "due")
        /\ past'.outlived = past.outlived /\ past'.clobbered = past.clobbered
        /\ past'.unscheduled = past.unscheduled /\ past'.unshown = past.unshown
    BY <1>1 DEF TypeOK, Past
  <2>3. /\ (Cancelled' <=> Cancelled) /\ (Telling' <=> Telling)
        /\ UNCHANGED <<deviceSockets, greeting, parting>>
    BY <2>1, <2>2, ConnectionStays
  <2>4. Answerable' => OfflineLong'
    BY <2>1, <2>2 DEF Answerable, OfflineLong
  <2>5. Answerable' => ~Cancelled' /\ \A s \in Socket : greeting'[s] # "short"
    BY <2>1, <2>2, <2>3 DEF Answerable, Told, KeysInStep, AlarmTakenBack
  <2>6. Parted' <=> Parted
    BY <2>2, <2>3 DEF Parted
  <2>7. KeysInStep'
    BY <1>1, <2>1, <2>3 DEF Told, KeysInStep
  <2>8. AlarmTakenBack'
    BY <2>1, <2>3, <2>4, <2>5 DEF Told, AlarmTakenBack
  <2>9. OutageTold'
    BY <1>1, <2>1, <2>2, <2>6 DEF Told, OutageTold
  <2> QED
    BY <2>7, <2>8, <2>9 DEF Told
<1>2. CASE scan' = "idle" /\ UNCHANGED <<notice, past>>
  <2>1. UNCHANGED <<connectionVars, scheduled, fired, dashboard>>
    BY DEF ScanCreate, redisVars
  <2>2. /\ (Cancelled' <=> Cancelled) /\ (Telling' <=> Telling)
        /\ UNCHANGED <<deviceSockets, greeting, parting>>
    BY <1>2, <2>1, ConnectionStays
  <2>3. (Answerable' <=> Answerable) /\ (OfflineLong' <=> OfflineLong)
    BY <1>2, <2>1 DEF Answerable, OfflineLong
  <2>4. Parted' <=> Parted
    BY <1>2, <2>2 DEF Parted
  <2>5. KeysInStep'
    BY <1>2, <2>1, <2>2 DEF Told, KeysInStep
  <2>6. AlarmTakenBack'
    BY <2>1, <2>2, <2>3 DEF Told, AlarmTakenBack
  <2>7. OutageTold'
    BY <1>2, <2>1, <2>4 DEF Told, OutageTold
  <2> QED
    BY <2>5, <2>6, <2>7 DEF Told
<1> QED
  BY <1>1, <1>2 DEF ScanCreate

(* With the marker, the outage stays long when its key goes.                 *)
LEMMA ScanFireTold ==
    ASSUME TypeOK, Told, ScanFire PROVE Told'
<1>1. /\ UNCHANGED <<connectionVars, scheduled, notice, dashboard>> /\ scan = "fire"
      /\ \/ fired' = TRUE /\ scan' = "end"
         \/ fired' = fired /\ scan' = "idle"
  BY DEF ScanFire, toldVars
<1>3. UNCHANGED past
  BY DEF ScanFire
<1>4. /\ (Cancelled' <=> Cancelled) /\ (Telling' <=> Telling)
      /\ UNCHANGED <<deviceSockets, greeting, parting>>
  BY <1>1, <1>3, ConnectionStays
<1>5. Answerable' => Answerable
  BY <1>1, <1>3 DEF Answerable
<1>6. OfflineLong => OfflineLong'
  BY <1>1 DEF OfflineLong
<1>7. Parted' => Parted
  BY <1>3, <1>4 DEF Parted
<1>8. KeysInStep'
  BY <1>1, <1>4 DEF Told, KeysInStep
<1>9. AlarmTakenBack'
  BY <1>1, <1>4, <1>5, <1>6 DEF Told, AlarmTakenBack
<1>10. OutageTold'
  BY <1>1, <1>3, <1>7 DEF Told, OutageTold
<1> QED
  BY <1>8, <1>9, <1>10 DEF Told

(* The key that goes has its marker; or it is of the next outage.            *)
LEMMA ScanEndTold ==
    ASSUME TypeOK, Told, ScanEnd PROVE Told'
<1>1. /\ UNCHANGED <<connectionVars, fired, notice, dashboard>>
      /\ scan = "end" /\ scan' = "idle" /\ scheduled' \in {"none", scheduled}
      /\ past' = [past EXCEPT !.clobbered = @ \/ (scheduled = "waiting" /\ scheduled' = "none")]
  BY DEF ScanEnd, toldVars
<1>3. /\ past'.crossed = past.crossed /\ past'.outlived = past.outlived
      /\ past'.raced = past.raced /\ past'.masked = past.masked
      /\ past'.expired = past.expired /\ past'.unanswered = past.unanswered
      /\ past'.unscheduled = past.unscheduled /\ past'.unshown = past.unshown
      /\ past'.clobbered <=> past.clobbered \/ (scheduled = "waiting" /\ scheduled' = "none")
  BY <1>1 DEF TypeOK, Past
<1>4. /\ (Cancelled' <=> Cancelled) /\ (Telling' <=> Telling)
      /\ UNCHANGED <<deviceSockets, greeting, parting>>
  BY <1>1, <1>3, ConnectionStays
<1>5. Answerable' => Answerable
  BY <1>1, <1>3 DEF Answerable
<1>6. OfflineLong => OfflineLong'
  BY <1>1 DEF OfflineLong, Told, KeysInStep
<1>7. Parted' => Parted
  BY <1>3, <1>4 DEF Parted
<1>8. KeysInStep'
  BY <1>1, <1>4 DEF Told, KeysInStep
<1>9. AlarmTakenBack'
  BY <1>1, <1>4, <1>5, <1>6 DEF Told, AlarmTakenBack
<1>10. OutageTold'
  <2> SUFFICES ASSUME Parted' PROVE OutageTold'
    BY DEF OutageTold
  <2>1. past.unshown \/ dashboard = "offline"
    BY <1>7 DEF Told, OutageTold
  <2>2. past.clobbered \/ past.unscheduled \/ scheduled # "none" \/ notice = "offline"
    BY <1>7 DEF Told, OutageTold
  <2>3. scheduled = "due" => notice = "offline"
    BY <1>1 DEF Told, KeysInStep
  <2>4. past'.clobbered \/ past'.unscheduled \/ scheduled' # "none" \/ notice' = "offline"
    BY <1>1, <1>3, <2>2, <2>3 DEF TypeOK
  <2> QED
    BY <1>1, <1>3, <2>1, <2>4 DEF OutageTold
<1> QED
  BY <1>8, <1>9, <1>10 DEF Told

(* The marker of the last alarm expires: a named exception.                  *)
LEMMA FiredExpireTold ==
    ASSUME TypeOK, Told, FiredExpire PROVE Told'
<1>1. /\ UNCHANGED <<connectionVars, scheduled, scan, notice, dashboard>> /\ scan # "end"
      /\ past' = [past EXCEPT !.expired = @ \/ notice = "offline"]
  BY DEF FiredExpire, toldVars
<1>2. /\ past'.crossed = past.crossed /\ past'.outlived = past.outlived
      /\ past'.unscheduled = past.unscheduled /\ past'.unshown = past.unshown
      /\ past'.clobbered = past.clobbered /\ (notice = "offline" => past'.expired)
  BY <1>1 DEF TypeOK, Past
<1>3. /\ (Cancelled' <=> Cancelled) /\ (Telling' <=> Telling)
      /\ UNCHANGED <<deviceSockets, greeting, parting>>
  BY <1>1, <1>2, ConnectionStays
<1>4. ~Answerable'
  BY <1>1, <1>2 DEF Answerable
<1>5. Parted' <=> Parted
  BY <1>2, <1>3 DEF Parted
<1>6. KeysInStep'
  BY <1>1, <1>3 DEF Told, KeysInStep
<1>7. AlarmTakenBack'
  BY <1>1, <1>3, <1>4 DEF Told, AlarmTakenBack
<1>8. OutageTold'
  BY <1>1, <1>2, <1>5 DEF Told, OutageTold
<1> QED
  BY <1>6, <1>7, <1>8 DEF Told

(* A key that nobody saw to expires: the outage is long still if its marker  *)
(* is set.                                                                   *)
LEMMA KeyExpireTold ==
    ASSUME TypeOK, Told, KeyExpire PROVE Told'
<1>1. /\ UNCHANGED <<connectionVars, fired, scan, notice, dashboard>> /\ scheduled' = "none"
      /\ past' = [past EXCEPT !.unscheduled = TRUE,
                              !.expired = @ \/ (notice = "offline" /\ ~fired)]
  BY DEF KeyExpire, toldVars
<1>2. /\ past'.crossed = past.crossed /\ past'.outlived = past.outlived
      /\ past'.raced = past.raced /\ past'.masked = past.masked
      /\ past'.unanswered = past.unanswered /\ past'.unscheduled
      /\ past'.unshown = past.unshown
      /\ past'.expired <=> past.expired \/ (notice = "offline" /\ ~fired)
  BY <1>1 DEF TypeOK, Past
<1>3. /\ (Cancelled' <=> Cancelled) /\ (Telling' <=> Telling)
      /\ UNCHANGED <<deviceSockets, greeting, parting>>
  BY <1>1, <1>2, ConnectionStays
<1>4. Answerable' => Answerable /\ OfflineLong'
  BY <1>1, <1>2 DEF Answerable, OfflineLong, TypeOK
<1>5. Parted' <=> Parted
  BY <1>2, <1>3 DEF Parted
<1>6. KeysInStep'
  BY <1>1, <1>3 DEF Told, KeysInStep
<1>7. AlarmTakenBack'
  BY <1>1, <1>3, <1>4 DEF Told, AlarmTakenBack
<1>8. OutageTold'
  BY <1>1, <1>2, <1>5 DEF Told, OutageTold
<1> QED
  BY <1>6, <1>7, <1>8 DEF Told

-----------------------------------------------------------------------------
(* The invariant                                                             *)

LEMMA InitHolds == Init => IInv
<1> SUFFICES ASSUME Init PROVE IInv
  OBVIOUS
<1>1. TypeOK
  BY InitTypes
<1>2. OneConnection
  BY NoConnectionIsOne DEF Init
<1> QED
  BY <1>1, <1>2, InitTold DEF IInv, Told

LEMMA StepHolds == IInv /\ [Next]_vars => IInv'
<1> SUFFICES ASSUME IInv, [Next]_vars PROVE IInv'
  OBVIOUS
<1> USE DEF IInv
<1>0. TypeOK /\ OneConnection /\ Told
  BY DEF Told
<1>1. CASE Next
  <2>1. TypeOK' /\ OneConnection'
    BY <1>0, <1>1, TypesKept, OneConnectionKept
  <2>2. Told'
    <3>1. ASSUME NEW s \in Socket, Connect(s) \/ GreetThrows(s) \/ HandleDisconnect(s)
          PROVE  Told'
      BY <1>0, <3>1, ConnectTold, GreetThrowsTold, HandleDisconnectTold
    <3>2. ASSUME NEW s \in Socket, GreetStep(s) PROVE Told'
      BY <1>0, <3>2, GreetAskTold, GreetCancelTold, GreetNotifyTold DEF GreetStep
    <3>3. ASSUME NEW s \in Socket, PartSchedule(s) PROVE Told'
      BY <1>0, <3>3, PartScheduleTold
    <3>4. CASE LoseConnection \/ GatewayRestart \/ DelayPasses
      BY <1>0, <3>4, LoseConnectionTold, GatewayRestartTold, DelayPassesTold
    <3>6. CASE FiredExpire \/ KeyExpire
      BY <1>0, <3>6, FiredExpireTold, KeyExpireTold
    <3>5. CASE ScanStep
      BY <1>0, <3>5, ScanFindTold, ScanCreateTold, ScanFireTold, ScanEndTold DEF ScanStep
    <3> QED
      BY <1>1, <3>1, <3>2, <3>3, <3>4, <3>5, <3>6 DEF Next
  <2> QED
    BY <2>1, <2>2 DEF Told
<1>2. CASE UNCHANGED vars
  BY <1>2 DEF vars, connectionVars, socketVars, redisVars, toldVars, TypeOK, ConnectionTypeOK,
              OneConnection, KeysInStep, AlarmTakenBack, OutageTold, Cancelled, Telling,
              Answerable, OfflineLong, Parted
<1> QED
  BY <1>1, <1>2

(* The inductive invariant: what the next connect finds of an alarm, what    *)
(* somebody is about to tell, and what an outage that is over has left.      *)
THEOREM Inductive == Spec => []IInv
  BY InitHolds, StepHolds, PTL DEF Spec

(* Every variable keeps its type.                                            *)
THEOREM TypeCorrect == Spec => []TypeOK
<1>1. IInv => TypeOK
  BY DEF IInv
<1> QED
  BY <1>1, Inductive, PTL

(* A device that is connected, once the handlers have run, is shown online   *)
(* and has no alarm on its way (cancelOfflineNotification), unless a         *)
(* disconnect was still running when it was back; and the last alarm was     *)
(* taken back, unless it raced its cancel, was masked by a next outage,      *)
(* outlived its marker or key, or its "Device Online" was not created.       *)
THEOREM NotAlarmedWhenBack == Spec => []ConnectedIsNotAlarmed
<1>1. ASSUME IInv PROVE ConnectedIsNotAlarmed
  <2> SUFFICES ASSUME Connected, HandlersIdle, ~past.crossed
               PROVE  /\ scheduled = "none" /\ dashboard = "online"
                      /\ \/ past.raced \/ past.masked \/ past.expired \/ past.unanswered
                         \/ notice = "online"
    BY DEF ConnectedIsNotAlarmed, BackIsShown, BackIsAnswered
  <2>1. deviceSockets \in Socket /\ greeting[deviceSockets] = "idle"
    BY <1>1, DeviceConnectionsAssumption
       DEF IInv, TypeOK, ConnectionTypeOK, OneConnection, Connected, HandlersIdle
  <2>2. Cancelled /\ ~Telling
    BY <2>1, DeviceConnectionsAssumption DEF Cancelled, Telling, HandlersIdle
  <2>3. scheduled = "none" /\ dashboard = "online" /\ ~Answerable
    BY <1>1, <2>1, <2>2 DEF IInv, AlarmTakenBack
  <2> QED
    BY <1>1, <2>3 DEF IInv, TypeOK, Answerable
<1> QED
  BY <1>1, Inductive, PTL

(* An outage is not missed: a device that is away is shown offline, and has  *)
(* been alarmed or will be (scheduleOfflineNotification), unless a connect   *)
(* ended after its disconnect, its key went with that of the outage before,  *)
(* or in this outage the key or the dashboards failed or the gateway was     *)
(* restarted.                                                                *)
THEOREM AlarmedWhenAway == Spec => []AwayIsAlarmed
<1>1. ASSUME IInv PROVE AwayIsAlarmed
  <2> SUFFICES ASSUME Away, HandlersIdle, ~past.outlived PROVE OutageTold /\ Parted
    BY DEF AwayIsAlarmed, OutageTold
  <2>1. deviceSockets = None
    BY <1>1 DEF IInv, TypeOK, ConnectionTypeOK, OneConnection, Away
  <2> QED
    BY <1>1, <2>1 DEF IInv, Parted, HandlersIdle
<1> QED
  BY <1>1, Inductive, PTL
================================================================================
