--------------------------- MODULE DeviceTokenProofs ---------------------------
(***************************************************************************)
(* Theorems about DeviceToken, for every set of sockets and every bound.   *)
(***************************************************************************)
EXTENDS DeviceToken, TLAPS

(* The sets of JWT numbers and messages, and their constants.                *)
LEMMA TokenFacts ==
    /\ NoToken \in TokenOrNone /\ Token \subseteq TokenOrNone /\ Token \subseteq Message
    /\ Terminal \in Message /\ Closed \in Message
  BY DeviceTokenAssumption DEF Token, TokenOrNone, NoToken, Message, Terminal, Closed

(* The initial records are records.                                          *)
LEMMA InitialRecords ==
    /\ ClosedSocket \in SocketRecord /\ NoRefresh \in RefreshRecord
    /\ DueRefresh \in RefreshRecord /\ NoCheck \in CheckRecord /\ NoGrace \in GraceRecord
  BY TokenFacts DEF ClosedSocket, NoRefresh, DueRefresh, NoCheck, NoGrace,
     SocketRecord, RefreshRecord, CheckRecord, GraceRecord

(* Sending keeps the inbox a sequence of messages.                           *)
LEMMA SendTyped ==
    ASSUME NEW s, NEW m \in Message, inbox \in Seq(Message), SendTo(s, m)
    PROVE  inbox' \in Seq(Message)
  BY DEF SendTo

(* What checks compare with is a JWT, or nothing.                            *)
LEMMA StoredTyped == TypeOK => Stored \in TokenOrNone
  BY TokenFacts DEF TypeOK, Stored

(* Assigning one field of a socket or of a refresh.                          *)
LEMMA IssuedTyped ==
    ASSUME sock \in [Socket -> SocketRecord], NEW s \in Socket,
           sock' = [sock EXCEPT ![s].issued = TRUE]
    PROVE  sock' \in [Socket -> SocketRecord]
  BY DEF SocketRecord

LEMMA StTyped ==
    ASSUME sock \in [Socket -> SocketRecord], NEW s \in Socket,
           NEW st \in {"closed", "row", "grace", "accepted", "pass", "open"},
           sock' = [sock EXCEPT ![s].st = st]
    PROVE  sock' \in [Socket -> SocketRecord]
  BY DEF SocketRecord

LEMMA StHashTyped ==
    ASSUME sock \in [Socket -> SocketRecord], NEW s \in Socket,
           NEW st \in {"closed", "row", "grace", "accepted", "pass", "open"},
           NEW h \in TokenOrNone,
           sock' = [sock EXCEPT ![s].st = st, ![s].hash = h]
    PROVE  sock' \in [Socket -> SocketRecord]
  BY DEF SocketRecord

LEMMA HashIssuedTyped ==
    ASSUME sock \in [Socket -> SocketRecord], NEW s \in Socket, NEW h \in TokenOrNone,
           sock' = [sock EXCEPT ![s].hash = h, ![s].issued = TRUE]
    PROVE  sock' \in [Socket -> SocketRecord]
  BY DEF SocketRecord

LEMMA ProgressTyped ==
    ASSUME refresh \in [Socket -> RefreshRecord], NEW s \in Socket,
           NEW pc \in {"graced", "rotated", "cleanup", "owned"},
           refresh' = [refresh EXCEPT ![s].pc = pc]
    PROVE  refresh' \in [Socket -> RefreshRecord]
  BY DEF RefreshRecord

(* The steps of the handshake keep the state well formed.                    *)
LEMMA HandshakeTyped ==
    ASSUME TypeOK, NEW s \in Socket, Handshake(s)
    PROVE  TypeOK'
<1> USE InitialRecords, TokenFacts, StoredTyped DEF tokenVars, timeVars, storeVars, serverVars, deviceVars
<1>1. ASSUME Reject(s, Terminal) \/ Reject(s, Closed)
      PROVE  sock' \in [Socket -> SocketRecord] /\ inbox' \in Seq(Message)
  <2>1. sock' = [sock EXCEPT ![s] = ClosedSocket]
    BY <1>1 DEF Reject
  <2>2. inbox' \in Seq(Message)
    BY <1>1, SendTyped DEF TypeOK, Reject
  <2> QED
    BY <2>1, <2>2 DEF TypeOK
<1>2. ASSUME NEW h \in TokenOrNone, AcceptOrSuspend(s, h)
      PROVE  sock' \in [Socket -> SocketRecord] /\ inbox' \in Seq(Message)
  <2>1. CASE sock' = [sock EXCEPT ![s].st = "accepted", ![s].hash = h] /\ UNCHANGED inbox
    BY <2>1, StHashTyped DEF TypeOK
  <2> QED
    BY <1>1, <1>2, <2>1 DEF AcceptOrSuspend
<1>3. ASSUME NEW h \in TokenOrNone, Register(s, h)
      PROVE  /\ sock' \in [Socket -> SocketRecord] /\ inbox' \in Seq(Message)
             /\ deviceSockets' \in Socket \cup {None} /\ refresh' \in [Socket -> RefreshRecord]
  <2>1. [sock[s] EXCEPT !.st = "open", !.hash = h] \in SocketRecord
    BY DEF TypeOK, SocketRecord
  <2>2. \A x \in Socket : [sock[x] EXCEPT !.st = "closed"] \in SocketRecord
    BY DEF TypeOK, SocketRecord
  <2>3. sock' \in [Socket -> SocketRecord]
    BY <1>3, <2>1, <2>2 DEF TypeOK, Register
  <2>4. inbox' \in Seq(Message)
    BY <1>3, SendTyped DEF TypeOK, Register
  <2>5. deviceSockets' \in Socket \cup {None} /\ refresh' \in [Socket -> RefreshRecord]
    BY <1>3 DEF TypeOK, Register
  <2> QED
    BY <2>3, <2>4, <2>5
<1>4. CASE HandshakeRow(s)
  <2>1. sock' \in [Socket -> SocketRecord] /\ inbox' \in Seq(Message)
    <3>1. CASE Reject(s, Terminal) \/ Reject(s, Closed)
      BY <3>1, <1>1
    <3>2. CASE AcceptOrSuspend(s, Stored)
      BY <3>2, <1>2
    <3>3. sock \in [Socket -> SocketRecord] /\ inbox \in Seq(Message) /\ Stored \in TokenOrNone
      BY DEF TypeOK
    <3>4. CASE sock' = [sock EXCEPT ![s].st = "grace", ![s].hash = Stored] /\ UNCHANGED inbox
      <4>1. sock' \in [Socket -> SocketRecord]
        BY <3>3, <3>4, StHashTyped
      <4> QED
        BY <3>3, <3>4, <4>1
    <3>5. CASE sock' = [sock EXCEPT ![s].st = "pass"] /\ UNCHANGED inbox
      <4>1. sock' \in [Socket -> SocketRecord]
        BY <3>3, <3>5, StTyped
      <4> QED
        BY <3>3, <3>5, <4>1
    <3> QED
      BY <1>4, <3>1, <3>2, <3>4, <3>5 DEF HandshakeRow, PassUnverified
  <2> QED
    BY <1>4, <2>1 DEF TypeOK, HandshakeRow, Fault
<1>5. CASE HandshakeGrace(s)
  <2>1. sock' \in [Socket -> SocketRecord] /\ inbox' \in Seq(Message)
    <3>1. CASE Reject(s, Terminal)
      BY <3>1, <1>1
    <3>2. CASE AcceptOrSuspend(s, sock[s].hash)
      <4>1. sock[s].hash \in TokenOrNone
        BY DEF TypeOK, SocketRecord
      <4> QED
        BY <3>2, <4>1, <1>2
    <3> QED
      BY <1>5, <3>1, <3>2 DEF HandshakeGrace
  <2> QED
    BY <1>5, <2>1 DEF TypeOK, HandshakeGrace, Fault
<1>6. CASE HandleConnection(s)
  <2>1. sock[s].hash \in TokenOrNone
    BY DEF TypeOK, SocketRecord
  <2>2. Register(s, sock[s].hash)
    BY <1>6 DEF HandleConnection
  <2> QED
    BY <1>6, <1>3, <2>1, <2>2 DEF TypeOK, HandleConnection
<1>7. CASE HandleUnverifiedConnection(s)
  <2>1. sock[s].tok \in TokenOrNone
    BY DEF TypeOK, SocketRecord
  <2>2. \/ Register(s, sock[s].tok)
        \/ /\ Reject(s, Terminal) \/ Reject(s, Closed)
           /\ UNCHANGED <<deviceSockets, refresh>>
    BY <1>7 DEF HandleUnverifiedConnection
  <2>3. /\ sock' \in [Socket -> SocketRecord] /\ inbox' \in Seq(Message)
        /\ deviceSockets' \in Socket \cup {None} /\ refresh' \in [Socket -> RefreshRecord]
    BY <1>1, <1>3, <2>1, <2>2 DEF TypeOK
  <2> QED
    BY <1>7, <2>3 DEF TypeOK, HandleUnverifiedConnection, Fault
<1>8. CASE HandleDisconnect(s)
  <2>1. sock' = [sock EXCEPT ![s].st = "closed"]
    BY <1>8 DEF HandleDisconnect
  <2>2. sock' \in [Socket -> SocketRecord]
    BY <2>1, StTyped DEF TypeOK
  <2> QED
    BY <1>8, <2>2 DEF TypeOK, HandleDisconnect, Deregister
<1> QED
  BY <1>4, <1>5, <1>6, <1>7, <1>8 DEF Handshake

(* The stored-hash checks keep the state well formed.                        *)
LEMMA ChecksTyped ==
    ASSUME TypeOK, NEW s \in Socket, Checks(s)
    PROVE  TypeOK'
<1> USE InitialRecords, TokenFacts, StoredTyped DEF tokenVars, timeVars, storeVars, deviceVars
<1>1. CASE CheckRead(s)
  <2>1. check' \in [Socket -> CheckRecord]
    BY <1>1 DEF TypeOK, CheckRead, CheckRecord
  <2> QED
    BY <1>1, <2>1 DEF TypeOK, CheckRead
<1>2. CASE CheckDecide(s)
  <2>1. UNCHANGED sock \/ sock' = [sock EXCEPT ![s].st = "closed"]
    BY <1>2 DEF CheckDecide
  <2>2. sock' \in [Socket -> SocketRecord]
    BY <2>1, StTyped DEF TypeOK
  <2>3. inbox' \in Seq(Message)
    BY <1>2, SendTyped DEF TypeOK, CheckDecide
  <2> QED
    BY <1>2, <2>2, <2>3 DEF TypeOK, CheckDecide, Deregister
<1>3. CASE Heartbeat(s)
  <2>1. UNCHANGED sock \/ sock' = [sock EXCEPT ![s].issued = TRUE]
    BY <1>3 DEF Heartbeat
  <2>2. sock' \in [Socket -> SocketRecord]
    BY <2>1, IssuedTyped DEF TypeOK
  <2>3. check' \in [Socket -> CheckRecord]
    BY <1>3 DEF TypeOK, Heartbeat
  <2>4. refresh' \in [Socket -> RefreshRecord]
    BY <1>3 DEF TypeOK, Heartbeat
  <2> QED
    BY <1>3, <2>2, <2>3, <2>4 DEF TypeOK, Heartbeat
<1> QED
  BY <1>1, <1>2, <1>3 DEF Checks

(* The steps of maybeRefreshDeviceToken keep the state well formed.          *)
LEMMA RefreshesTyped ==
    ASSUME TypeOK, InUse, NEW s \in Socket, Refreshes(s)
    PROVE  TypeOK'
<1> USE InitialRecords, TokenFacts DEF tokenVars, timeVars, storeVars, deviceVars
<1>0. \A t \in Issued : t \in Token
  BY DeviceTokenAssumption DEF TypeOK, Issued, Token
<1>1. CASE RefreshClaim(s)
  <2>1. minted + 1 \in Token /\ minted' = minted + 1
    BY <1>1, DeviceTokenAssumption DEF TypeOK, RefreshClaim, Sign, Token
  <2>2. sock[s].hash \in Token
    BY <1>0, <1>1 DEF InUse, SocketInUse, Admitted, RefreshClaim
  <2>3. root' = [root EXCEPT ![minted + 1] = root[sock[s].hash]]
    BY <1>1 DEF RefreshClaim, Sign
  <2>4. root' \in [Token -> TokenOrNone]
    BY <2>2, <2>3 DEF TypeOK
  <2>5. [pc |-> "minted", prev |-> sock[s].hash, next |-> minted + 1] \in RefreshRecord
    BY <2>1, <2>2 DEF RefreshRecord
  <2>6. refresh' \in [Socket -> RefreshRecord]
    BY <1>1, <2>5 DEF TypeOK, RefreshClaim
  <2>7. past' \in [blind : BOOLEAN, torn : BOOLEAN]
    BY <1>1 DEF TypeOK, RefreshClaim
  <2> QED
    BY <1>1, <2>1, <2>4, <2>6, <2>7 DEF TypeOK, RefreshClaim
<1>2. CASE RefreshSkip(s)
  BY <1>2 DEF TypeOK, RefreshSkip, Fault
<1>3. CASE RefreshNotClaimed(s)
  <2>1. sock' = [sock EXCEPT ![s].issued = TRUE]
    BY <1>3 DEF RefreshNotClaimed
  <2>2. sock' \in [Socket -> SocketRecord]
    BY <2>1, IssuedTyped DEF TypeOK
  <2> QED
    BY <1>3, <2>2 DEF TypeOK, RefreshNotClaimed
<1>4. CASE RefreshPublishGrace(s)
  <2>1. refresh[s].prev \in TokenOrNone /\ refresh[s].next \in TokenOrNone
    BY DEF TypeOK, RefreshRecord
  <2>2. sock[s].tok \in TokenOrNone
    BY DEF TypeOK, SocketRecord
  <2>3. [prev |-> refresh[s].prev, next |-> refresh[s].next, exp |-> sock[s].tok] \in GraceRecord
    BY <2>1, <2>2 DEF GraceRecord
  <2>4. \/ refresh' = [refresh EXCEPT ![s].pc = "graced"]
        \/ refresh' = [refresh EXCEPT ![s] = NoRefresh]
    BY <1>4 DEF RefreshPublishGrace
  <2>5. refresh' \in [Socket -> RefreshRecord]
    BY <2>4, ProgressTyped DEF TypeOK
  <2> QED
    BY <1>4, <2>3, <2>5 DEF TypeOK, RefreshPublishGrace, Fault
<1>5. CASE RefreshRotate(s)
  <2>1. \/ refresh' = [refresh EXCEPT ![s].pc = "rotated"]
        \/ refresh' = [refresh EXCEPT ![s].pc = "cleanup"]
    BY <1>5 DEF RefreshRotate
  <2>2. refresh' \in [Socket -> RefreshRecord]
    BY <2>1, ProgressTyped DEF TypeOK
  <2>3. refresh[s].next \in Token
    BY <1>0, <1>5 DEF InUse, SocketInUse, Rotating, RefreshRotate
  <2>4. /\ display' \in [exists : BOOLEAN, isDisabled : BOOLEAN, jwtToken : Token]
        /\ past' \in [blind : BOOLEAN, torn : BOOLEAN]
    BY <1>5, <2>3 DEF TypeOK, RefreshRotate
  <2> QED
    BY <1>5, <2>2, <2>4 DEF TypeOK, RefreshRotate, Fault
<1>6. CASE RefreshEmit(s)
  <2>1. refresh[s].next \in Token
    BY <1>0, <1>6 DEF InUse, SocketInUse, Rotating, RefreshEmit
  <2>2. sock' = [sock EXCEPT ![s].hash = refresh[s].next, ![s].issued = TRUE]
    BY <1>6 DEF RefreshEmit
  <2>3. sock' \in [Socket -> SocketRecord]
    BY <2>1, <2>2, TokenFacts, HashIssuedTyped DEF TypeOK
  <2>4. inbox' \in Seq(Message)
    BY <1>6, <2>1, SendTyped DEF TypeOK, RefreshEmit
  <2> QED
    BY <1>6, <2>3, <2>4 DEF TypeOK, RefreshEmit
<1>7. CASE DeleteOwnedGraceGet(s)
  <2>1. \/ refresh' = [refresh EXCEPT ![s].pc = "owned"]
        \/ refresh' = [refresh EXCEPT ![s] = NoRefresh]
    BY <1>7 DEF DeleteOwnedGraceGet
  <2>2. refresh' \in [Socket -> RefreshRecord]
    BY <2>1, ProgressTyped DEF TypeOK
  <2> QED
    BY <1>7, <2>2 DEF TypeOK, DeleteOwnedGraceGet, Fault
<1>8. CASE DeleteOwnedGraceDelete(s)
  BY <1>8 DEF TypeOK, DeleteOwnedGraceDelete, Fault
<1> QED
  BY <1>1, <1>2, <1>3, <1>4, <1>5, <1>6, <1>7, <1>8 DEF Refreshes

(* Every step keeps the state well formed, given that the JWTs in use are    *)
(* signed ones.                                                              *)
LEMMA StepTyped == TypeOK /\ InUse /\ [Next]_vars => TypeOK'
<1> SUFFICES ASSUME TypeOK, InUse, [Next]_vars PROVE TypeOK'
  OBVIOUS
<1> USE DEF tokenVars, timeVars, serverVars, storeVars, deviceVars
<1>1. CASE UNCHANGED vars
  BY <1>1 DEF TypeOK, vars
<1>2. CASE ClientReceive
  <2>0. inbox # <<>> /\ (inbox' = Tail(inbox) \/ inbox' = <<>>)
    BY <1>2 DEF ClientReceive
  <2>1. inbox' \in Seq(Message)
    <3>1. inbox \in Seq(Message)
      BY DEF TypeOK
    <3>2. Tail(inbox) \in Seq(Message) /\ <<>> \in Seq(Message)
      BY <2>0, <3>1
    <3> QED
      BY <2>0, <3>2
  <2>2. \/ \E m \in Token : client' = [client EXCEPT !.token = m]
        \/ client' = [token |-> NoToken, conn |-> None]
        \/ client' = [client EXCEPT !.conn = None]
    BY <1>2 DEF ClientReceive
  <2>3. client' \in [token : TokenOrNone, conn : Socket \cup {None}]
    BY <2>2, TokenFacts DEF TypeOK
  <2>4. UNCHANGED <<minted, root, nearTo, expTo, display, grace, cooldown, sock, deviceSockets,
                    refresh, check, revokeCall, faults, ops, current, past>>
    BY <1>2 DEF ClientReceive
  <2> QED
    BY <2>1, <2>3, <2>4 DEF TypeOK
<1>3. CASE LoseConnection
  <2>1. inbox' \in Seq(Message)
    BY <1>3 DEF LoseConnection
  <2> QED
    BY <1>3, <2>1 DEF TypeOK, LoseConnection, Fault
<1>4. ASSUME NEW s \in Socket, ClientConnect(s) PROVE TypeOK'
  <2>1. client.token \in TokenOrNone
    BY DEF TypeOK
  <2>2. [ClosedSocket EXCEPT !.st = "row", !.tok = client.token] \in SocketRecord
    BY <2>1, InitialRecords DEF SocketRecord
  <2>3. sock' \in [Socket -> SocketRecord]
    BY <1>4, <2>2 DEF TypeOK, ClientConnect
  <2> QED
    BY <1>4, <2>3 DEF TypeOK, ClientConnect
<1>5. CASE GatewayRestart
  <2>1. inbox' \in Seq(Message)
    BY <1>5 DEF GatewayRestart
  <2>2. /\ sock' \in [Socket -> SocketRecord] /\ refresh' \in [Socket -> RefreshRecord]
        /\ check' \in [Socket -> CheckRecord]
    BY <1>5, InitialRecords DEF GatewayRestart
  <2>3. client' \in [token : TokenOrNone, conn : Socket \cup {None}]
    <3>1. client' = [client EXCEPT !.conn = None]
      BY <1>5 DEF GatewayRestart
    <3> QED
      BY <3>1 DEF TypeOK
  <2>5. deviceSockets' \in Socket \cup {None} /\ faults' \in Nat
    <3>1. deviceSockets' = None /\ faults' = faults + 1
      BY <1>5 DEF GatewayRestart, Fault
    <3> QED
      BY <3>1 DEF TypeOK
  <2>4. UNCHANGED <<tokenVars, timeVars, storeVars, revokeCall, ops, current, past>>
    BY <1>5 DEF GatewayRestart
  <2> QED
    BY <2>1, <2>2, <2>3, <2>4, <2>5 DEF TypeOK
<1>6. CASE GeneratePairingToken
  <2>1. minted + 1 \in Token
    BY <1>6, DeviceTokenAssumption DEF TypeOK, GeneratePairingToken, Sign, Token
  <2>2. root' = [root EXCEPT ![minted + 1] = minted + 1] /\ minted' = minted + 1
    BY <1>6 DEF GeneratePairingToken, Sign
  <2>3. root' \in [Token -> TokenOrNone] /\ minted' \in Token
    BY <2>1, <2>2, TokenFacts DEF TypeOK
  <2>4. display' \in [exists : BOOLEAN, isDisabled : BOOLEAN, jwtToken : Token]
    BY <1>6, <2>1 DEF TypeOK, GeneratePairingToken
  <2>5. ops' \in Nat
    BY <1>6 DEF TypeOK, GeneratePairingToken, OperatorAction
  <2>6. /\ current' = minted + 1
        /\ UNCHANGED <<timeVars, serverVars, grace, cooldown, deviceVars, revokeCall, faults, past>>
    BY <1>6 DEF GeneratePairingToken
  <2> QED
    BY <2>1, <2>3, <2>4, <2>5, <2>6 DEF TypeOK
<1>7. CASE DisableDevice \/ EnableDevice \/ Remove
  <2>1. \/ \E b \in BOOLEAN : display' = [display EXCEPT !.isDisabled = b]
        \/ display' = [display EXCEPT !.exists = FALSE]
    BY <1>7 DEF DisableDevice, EnableDevice, Remove
  <2>2. display' \in [exists : BOOLEAN, isDisabled : BOOLEAN, jwtToken : Token]
    BY <2>1 DEF TypeOK
  <2>3. ops' \in Nat /\ revokeCall' \in BOOLEAN
    <3>1. ops' = ops + 1
      BY <1>7 DEF DisableDevice, EnableDevice, Remove, OperatorAction
    <3>2. revokeCall' = TRUE \/ revokeCall' = revokeCall
      BY <1>7, Zenon DEF DisableDevice, EnableDevice, Remove
    <3>3. revokeCall' \in BOOLEAN
      BY <3>2, Zenon DEF TypeOK
    <3> QED
      BY <3>1, <3>3 DEF TypeOK
  <2>4. UNCHANGED <<tokenVars, timeVars, serverVars, grace, cooldown, deviceVars,
                    faults, current, past>>
    BY <1>7 DEF DisableDevice, EnableDevice, Remove
  <2> QED
    BY <2>2, <2>3, <2>4 DEF TypeOK
<1>8. CASE RevokeDevice
  <2>1. deviceSockets \in Socket => [sock[deviceSockets] EXCEPT !.st = "closed"] \in SocketRecord
    BY DEF TypeOK, SocketRecord
  <2>2. sock' \in [Socket -> SocketRecord]
    BY <1>8, <2>1 DEF TypeOK, RevokeDevice
  <2>3. inbox' \in Seq(Message)
    BY <1>8, SendTyped, TokenFacts DEF TypeOK, RevokeDevice
  <2>4. deviceSockets' \in Socket \cup {None} /\ faults' \in Nat
    BY <1>8 DEF TypeOK, RevokeDevice, Fault
  <2>5. revokeCall' \in BOOLEAN
    BY <1>8, Zenon DEF RevokeDevice
  <2>6. UNCHANGED <<tokenVars, timeVars, storeVars, refresh, check, client, ops, current, past>>
    BY <1>8 DEF RevokeDevice
  <2> QED
    BY <2>2, <2>3, <2>4, <2>5, <2>6 DEF TypeOK
<1>9. CASE Time
  <2>1. CASE BecomeNear
    <3>1. nearTo' \in TokenOrNone
      BY <2>1, DeviceTokenAssumption DEF TypeOK, BecomeNear, Token, TokenOrNone
    <3> QED
      BY <2>1, <3>1 DEF TypeOK, BecomeNear
  <2>2. CASE Expire
    <3>1. expTo' \in TokenOrNone
      BY <2>2, DeviceTokenAssumption DEF TypeOK, Expire, Token, TokenOrNone
    <3> QED
      BY <2>2, <3>1 DEF TypeOK, Expire
  <2>3. CASE CooldownExpire
    BY <2>3 DEF TypeOK, CooldownExpire
  <2>4. CASE GraceExpire
    BY <2>4, InitialRecords DEF TypeOK, GraceExpire
  <2> QED
    BY <1>9, <2>1, <2>2, <2>3, <2>4 DEF Time
<1> QED
  BY <1>1, <1>2, <1>3, <1>4, <1>5, <1>6, <1>7, <1>8, <1>9,
     HandshakeTyped, ChecksTyped, RefreshesTyped
  DEF Next, Client, Operator

-----------------------------------------------------------------------------
(* How an assignment to one socket changes the fields of every socket.       *)
LEMMA StSet ==
    ASSUME sock \in [Socket -> SocketRecord], NEW s \in Socket, NEW v,
           sock' = [sock EXCEPT ![s].st = v]
    PROVE  /\ \A x \in Socket : sock'[x].tok = sock[x].tok /\ sock'[x].hash = sock[x].hash
           /\ \A x \in Socket : x # s => sock'[x].st = sock[x].st
           /\ sock'[s].st = v
  BY DEF SocketRecord

LEMMA HashIssuedSet ==
    ASSUME sock \in [Socket -> SocketRecord], NEW s \in Socket, NEW h,
           sock' = [sock EXCEPT ![s].hash = h, ![s].issued = TRUE]
    PROVE  /\ \A x \in Socket : sock'[x].tok = sock[x].tok /\ sock'[x].st = sock[x].st
           /\ \A x \in Socket : x # s => sock'[x].hash = sock[x].hash
           /\ sock'[s].hash = h
  BY DEF SocketRecord

LEMMA IssuedSet ==
    ASSUME sock \in [Socket -> SocketRecord], NEW s \in Socket,
           sock' = [sock EXCEPT ![s].issued = TRUE]
    PROVE  \A x \in Socket : /\ sock'[x].tok = sock[x].tok /\ sock'[x].hash = sock[x].hash
                             /\ sock'[x].st = sock[x].st
  BY DEF SocketRecord

LEMMA RejectSet ==
    ASSUME sock \in [Socket -> SocketRecord], NEW s \in Socket, NEW m, Reject(s, m)
    PROVE  /\ \A x \in Socket : x # s => sock'[x] = sock[x]
           /\ sock'[s].st = "closed"
  BY DEF Reject, ClosedSocket

LEMMA RegisterSet ==
    ASSUME sock \in [Socket -> SocketRecord], refresh \in [Socket -> RefreshRecord],
           NEW s \in Socket, NEW h, Register(s, h)
    PROVE  /\ \A x \in Socket : /\ sock'[x].tok = sock[x].tok
                                /\ x # s => sock'[x].hash = sock[x].hash /\ refresh'[x] = refresh[x]
                                /\ x # s => sock'[x].st \in {sock[x].st, "closed"}
           /\ sock'[s].st = "open" /\ sock'[s].hash = h
           /\ refresh'[s].pc = "due" /\ deviceSockets' = s
<1>1. \A x \in Socket : /\ [sock[x] EXCEPT !.st = "open", !.hash = h].tok = sock[x].tok
                        /\ [sock[x] EXCEPT !.st = "open", !.hash = h].st = "open"
                        /\ [sock[x] EXCEPT !.st = "open", !.hash = h].hash = h
                        /\ [sock[x] EXCEPT !.st = "closed"].tok = sock[x].tok
                        /\ [sock[x] EXCEPT !.st = "closed"].hash = sock[x].hash
                        /\ [sock[x] EXCEPT !.st = "closed"].st = "closed"
  BY DEF SocketRecord
<1>2. sock' = [x \in Socket |->
                  CASE x = s -> [sock[s] EXCEPT !.st = "open", !.hash = h]
                    [] x = deviceSockets /\ x # s -> [sock[x] EXCEPT !.st = "closed"]
                    [] OTHER -> sock[x]]
  BY DEF Register
<1>3. refresh' = [refresh EXCEPT ![s] = DueRefresh] /\ deviceSockets' = s
  BY DEF Register
<1>4. DueRefresh.pc = "due"
  BY DEF DueRefresh, NoRefresh
<1> QED
  BY <1>1, <1>2, <1>3, <1>4

(* Sending a signed JWT, or no JWT, keeps the inbox in use.                  *)
LEMMA SendInUse ==
    ASSUME NEW s, NEW m, inbox \in Seq(Message), m \in Message, InboxInUse,
           m \in Token => m \in Issued', minted \in Nat, minted' \in Nat, minted' >= minted, SendTo(s, m)
    PROVE  InboxInUse'
  BY DEF SendTo, InboxInUse, Issued

LEMMA NotTokens == Terminal \notin Token /\ Closed \notin Token
  BY DeviceTokenAssumption DEF Terminal, Closed, Token

(* The steps of the handshake keep the JWTs in use signed ones.              *)
LEMMA HandshakeInUse ==
    ASSUME TypeOK, InUse, NEW s \in Socket, Handshake(s)
    PROVE  InUse'
<1> USE NotTokens, TokenFacts DEF tokenVars, timeVars, storeVars, deviceVars
<1>1. /\ sock \in [Socket -> SocketRecord] /\ refresh \in [Socket -> RefreshRecord]
      /\ inbox \in Seq(Message) /\ minted \in Nat
      /\ StoresInUse /\ InboxInUse /\ EntryIsOpen /\ \A x \in Socket : SocketInUse(x)
  BY DeviceTokenAssumption DEF TypeOK, InUse, Token
<1>2. /\ UNCHANGED <<minted, root, display, grace, client, current>>
      /\ StoresInUse' /\ Issued' = Issued /\ (Stored # NoToken => Stored \in Issued)
  <2>1. UNCHANGED <<minted, root, display, grace, client, current>>
    BY DEF Handshake, HandshakeRow, HandshakeGrace, HandleConnection,
           HandleUnverifiedConnection, HandleDisconnect
  <2> QED
    BY <1>1, <2>1 DEF StoresInUse, Issued, Stored
<1>3. ASSUME NEW m \in {Terminal, Closed}, Reject(s, m), Entering(s), UNCHANGED <<deviceSockets, refresh>>
      PROVE  InUse'
  <2>1. InboxInUse'
    BY <1>1, <1>2, <1>3, SendInUse DEF Reject
  <2>2. /\ \A x \in Socket : x # s => sock'[x] = sock[x]
        /\ sock'[s].st = "closed"
    BY <1>1, <1>3, RejectSet
  <2>3. EntryIsOpen'
    BY <1>1, <1>3, <2>2 DEF EntryIsOpen, Entering, TypeOK
  <2>4. \A x \in Socket : SocketInUse(x)'
    BY <1>1, <1>2, <1>3, <2>2 DEF SocketInUse, Entering, Admitted, Rotating
  <2> QED
    BY <1>2, <2>1, <2>3, <2>4 DEF InUse
<1>4. ASSUME NEW h, h \in Issued, AcceptOrSuspend(s, h), Entering(s), UNCHANGED <<deviceSockets, refresh>>
      PROVE  InUse'
  <2>1. CASE sock' = [sock EXCEPT ![s].st = "accepted", ![s].hash = h] /\ UNCHANGED inbox
    <3>1. /\ \A x \in Socket : sock'[x].tok = sock[x].tok
          /\ \A x \in Socket : x # s => sock'[x].st = sock[x].st /\ sock'[x].hash = sock[x].hash
          /\ sock'[s].st = "accepted" /\ sock'[s].hash = h
      <4>1. sock \in [Socket -> SocketRecord]
        BY DEF TypeOK
      <4> QED
        BY <2>1, <4>1 DEF SocketRecord
    <3>2. InboxInUse' /\ EntryIsOpen'
      BY <1>1, <1>2, <1>4, <2>1, <3>1 DEF InboxInUse, EntryIsOpen, Entering, TypeOK
    <3>3. \A x \in Socket : SocketInUse(x)'
      BY <1>1, <1>2, <1>4, <3>1 DEF SocketInUse, Entering, Admitted, Rotating
    <3> QED
      BY <1>2, <3>2, <3>3 DEF InUse
  <2> QED
    BY <1>3, <1>4, <2>1 DEF AcceptOrSuspend
<1>5. ASSUME NEW h, h \in Issued, Register(s, h), Entering(s)
      PROVE  InUse'
  <2>1. InboxInUse'
    BY <1>1, <1>2, <1>5, SendInUse DEF Register, InboxInUse
  <2>2. /\ \A x \in Socket : /\ sock'[x].tok = sock[x].tok
                             /\ x # s => sock'[x].hash = sock[x].hash /\ refresh'[x] = refresh[x]
                             /\ x # s => sock'[x].st \in {sock[x].st, "closed"}
        /\ sock'[s].st = "open" /\ sock'[s].hash = h
        /\ refresh'[s].pc = "due" /\ deviceSockets' = s
    BY <1>1, <1>5, RegisterSet
  <2>3. EntryIsOpen'
    BY <2>2 DEF EntryIsOpen
  <2>4. \A x \in Socket : SocketInUse(x)'
    BY <1>1, <1>2, <1>5, <2>2 DEF SocketInUse, Entering, Admitted, Rotating
  <2> QED
    BY <1>2, <2>1, <2>3, <2>4 DEF InUse
<1>6. CASE HandshakeRow(s)
  <2>0. /\ Entering(s) /\ UNCHANGED <<deviceSockets, refresh>>
        /\ \/ Reject(s, Closed)
           \/ Reject(s, Terminal)
           \/ Stored = sock[s].tok /\ AcceptOrSuspend(s, Stored)
           \/ /\ Stored # NoToken /\ UNCHANGED inbox
              /\ sock' = [sock EXCEPT ![s].st = "grace", ![s].hash = Stored]
           \/ sock' = [sock EXCEPT ![s].st = "pass"] /\ UNCHANGED inbox
    BY <1>6, Zenon DEF HandshakeRow, PassUnverified, Entering
  <2>1. CASE sock' = [sock EXCEPT ![s].st = "pass"] /\ UNCHANGED inbox
    <3>1. /\ \A x \in Socket : sock'[x].tok = sock[x].tok /\ sock'[x].hash = sock[x].hash
          /\ \A x \in Socket : x # s => sock'[x].st = sock[x].st
          /\ sock'[s].st = "pass"
      BY <1>1, <2>1, StSet
    <3>2. InboxInUse' /\ EntryIsOpen'
      BY <1>1, <1>2, <2>0, <2>1, <3>1 DEF InboxInUse, EntryIsOpen, Entering, TypeOK
    <3>3. \A x \in Socket : SocketInUse(x)'
      BY <1>1, <1>2, <2>0, <3>1 DEF SocketInUse, Entering, Admitted, Rotating
    <3> QED
      BY <1>2, <3>2, <3>3 DEF InUse
  <2>2. CASE /\ Stored # NoToken /\ UNCHANGED inbox
             /\ sock' = [sock EXCEPT ![s].st = "grace", ![s].hash = Stored]
    <3>1. /\ \A x \in Socket : sock'[x].tok = sock[x].tok
          /\ \A x \in Socket : x # s => sock'[x].st = sock[x].st /\ sock'[x].hash = sock[x].hash
          /\ sock'[s].st = "grace" /\ sock'[s].hash = Stored
      <4>1. sock \in [Socket -> SocketRecord]
        BY DEF TypeOK
      <4> QED
        BY <2>2, <4>1 DEF SocketRecord
    <3>2. InboxInUse' /\ EntryIsOpen'
      BY <1>1, <1>2, <2>0, <2>2, <3>1 DEF InboxInUse, EntryIsOpen, Entering, TypeOK
    <3>3. \A x \in Socket : SocketInUse(x)'
      BY <1>1, <1>2, <2>0, <2>2, <3>1 DEF SocketInUse, Entering, Admitted, Rotating
    <3> QED
      BY <1>2, <3>2, <3>3 DEF InUse
  <2>3. CASE Stored = sock[s].tok /\ AcceptOrSuspend(s, Stored)
    <3>1. Stored \in Issued
      BY <1>1, <2>0, <2>3 DEF SocketInUse
    <3> QED
      BY <1>4, <2>0, <2>3, <3>1
  <2> QED
    BY <1>3, <2>0, <2>1, <2>2, <2>3
<1>7. CASE HandshakeGrace(s)
  BY <1>1, <1>3, <1>4, <1>7 DEF HandshakeGrace, Entering, SocketInUse
<1>8. CASE HandleConnection(s)
  BY <1>1, <1>5, <1>8 DEF HandleConnection, Entering, SocketInUse, Admitted
<1>9. CASE HandleUnverifiedConnection(s)
  BY <1>1, <1>3, <1>5, <1>9 DEF HandleUnverifiedConnection, Entering, SocketInUse
<1>10. CASE HandleDisconnect(s)
  <2>1. /\ \A x \in Socket : sock'[x].tok = sock[x].tok /\ sock'[x].hash = sock[x].hash
        /\ \A x \in Socket : x # s => sock'[x].st = sock[x].st
        /\ sock'[s].st = "closed" /\ sock[s].st = "open"
    BY <1>1, <1>10, StSet DEF HandleDisconnect
  <2>2. UNCHANGED <<inbox, refresh>> /\ Deregister(s)
    BY <1>10 DEF HandleDisconnect
  <2>3. EntryIsOpen' /\ InboxInUse'
    BY <1>1, <1>2, <2>1, <2>2 DEF EntryIsOpen, Deregister, InboxInUse, TypeOK
  <2>4. \A x \in Socket : SocketInUse(x)'
    BY <1>1, <1>2, <2>1, <2>2 DEF SocketInUse, Entering, Admitted, Rotating
  <2> QED
    BY <1>2, <2>3, <2>4 DEF InUse
<1> QED
  BY <1>6, <1>7, <1>8, <1>9, <1>10 DEF Handshake

(* What InUse and TypeOK say, in the form the next proofs use.               *)
LEMMA InUseParts ==
    ASSUME TypeOK, InUse
    PROVE  /\ sock \in [Socket -> SocketRecord] /\ refresh \in [Socket -> RefreshRecord]
           /\ inbox \in Seq(Message) /\ minted \in Nat
           /\ StoresInUse /\ InboxInUse /\ EntryIsOpen /\ \A x \in Socket : SocketInUse(x)
  BY DeviceTokenAssumption DEF TypeOK, InUse, Token

(* The stored-hash checks keep the JWTs in use signed ones.                  *)
LEMMA ChecksInUse ==
    ASSUME TypeOK, InUse, NEW s \in Socket, Checks(s)
    PROVE  InUse'
<1> USE NotTokens, TokenFacts, InUseParts DEF tokenVars, timeVars, storeVars, deviceVars
<1>1. CASE CheckRead(s)
  <2>1. UNCHANGED <<minted, display, grace, client, current, sock, inbox, refresh, deviceSockets>>
    BY <1>1 DEF CheckRead
  <2> QED
    BY <2>1 DEF InUse, StoresInUse, InboxInUse, EntryIsOpen, SocketInUse, Entering, Admitted,
                Rotating, Issued
<1>2. CASE CheckDecide(s)
  <2>1. UNCHANGED <<minted, display, grace, client, current, refresh>>
    BY <1>2 DEF CheckDecide
  <2>2. CASE UNCHANGED <<sock, deviceSockets, inbox>>
    BY <2>1, <2>2 DEF InUse, StoresInUse, InboxInUse, EntryIsOpen, SocketInUse, Entering, Admitted,
                      Rotating, Issued
  <2>3. CASE /\ sock' = [sock EXCEPT ![s].st = "closed"]
             /\ Deregister(s) /\ SendTo(s, Terminal)
    <3>1. /\ \A x \in Socket : sock'[x].tok = sock[x].tok /\ sock'[x].hash = sock[x].hash
          /\ \A x \in Socket : x # s => sock'[x].st = sock[x].st
          /\ sock'[s].st = "closed"
      BY <2>3, StSet
    <3>2. EntryIsOpen'
      BY <2>3, <3>1 DEF EntryIsOpen, Deregister, TypeOK
    <3>3. InboxInUse'
      BY <2>1, <2>3, SendInUse
    <3>4. \A x \in Socket : SocketInUse(x)'
      BY <2>1, <3>1 DEF SocketInUse, Entering, Admitted, Rotating, Issued
    <3>5. StoresInUse'
      BY <2>1 DEF StoresInUse, Issued
    <3> QED
      BY <3>2, <3>3, <3>4, <3>5 DEF InUse
  <2> QED
    BY <1>2, <2>2, <2>3 DEF CheckDecide
<1>3. CASE Heartbeat(s)
  <2>1. /\ UNCHANGED <<minted, display, grace, client, current, inbox, deviceSockets>>
        /\ UNCHANGED sock \/ sock' = [sock EXCEPT ![s].issued = TRUE]
        /\ refresh' = refresh \/ refresh' = [refresh EXCEPT ![s] = DueRefresh]
        /\ deviceSockets = s
    BY <1>3, Zenon DEF Heartbeat
  <2>2. \A x \in Socket : /\ sock'[x].tok = sock[x].tok /\ sock'[x].hash = sock[x].hash
                           /\ sock'[x].st = sock[x].st
    BY <2>1, IssuedSet
  <2>3. \A x \in Socket : refresh'[x] = refresh[x] \/ (refresh'[x].pc = "due" /\ sock[x].st = "open")
    <3>1. DueRefresh.pc = "due"
      BY DEF DueRefresh, NoRefresh
    <3>2. sock[s].st = "open"
      BY <2>1, DeviceTokenAssumption DEF EntryIsOpen
    <3> QED
      BY <2>1, <3>1, <3>2
  <2>4. \A x \in Socket : SocketInUse(x)'
    BY <2>1, <2>2, <2>3 DEF SocketInUse, Entering, Admitted, Rotating, Issued
  <2> QED
    BY <2>1, <2>2, <2>4 DEF InUse, StoresInUse, InboxInUse, EntryIsOpen, Issued, TypeOK
<1> QED
  BY <1>1, <1>2, <1>3 DEF Checks

(* The steps of maybeRefreshDeviceToken keep the JWTs in use signed ones.    *)
LEMMA RefreshesInUse ==
    ASSUME TypeOK, InUse, NEW s \in Socket, Refreshes(s)
    PROVE  InUse'
<1> USE InUseParts DEF tokenVars, timeVars, storeVars, deviceVars
<1>1. CASE RefreshClaim(s)
  <2>1. /\ minted' = minted + 1
        /\ UNCHANGED <<display, grace, client, current, sock, inbox, deviceSockets>>
        /\ refresh[s].pc = "due"
        /\ refresh' = [refresh EXCEPT ![s] =
                         [pc |-> "minted", prev |-> sock[s].hash, next |-> minted + 1]]
    BY <1>1 DEF RefreshClaim, Sign
  <2>2. /\ \A x \in Socket : x # s => refresh'[x] = refresh[x]
        /\ refresh'[s].pc = "minted" /\ refresh'[s].prev = sock[s].hash
        /\ refresh'[s].next = minted + 1
    BY <2>1
  <2>3. /\ \A t : t \in Issued => t \in Issued'
        /\ minted + 1 \in Issued'
    BY <2>1 DEF Issued
  <2>4. \A x \in Socket : SocketInUse(x)'
    BY <2>1, <2>2, <2>3 DEF SocketInUse, Entering, Admitted, Rotating
  <2> QED
    BY <2>1, <2>3, <2>4 DEF InUse, StoresInUse, InboxInUse, EntryIsOpen
<1>2. ASSUME \/ refresh' = [refresh EXCEPT ![s] = NoRefresh]
             \/ \E pc \in {"graced", "rotated", "cleanup", "owned"} :
                   refresh' = [refresh EXCEPT ![s].pc = pc] /\ Rotating(s),
             refresh[s].pc # "idle",
             UNCHANGED <<minted, current, client, inbox, deviceSockets>>,
             \A x \in Socket : sock'[x].tok = sock[x].tok /\ sock'[x].st = sock[x].st,
             \A x \in Socket : sock'[x].hash = sock[x].hash \/ sock'[x].hash \in Issued,
             StoresInUse'
      PROVE  InUse'
  <2>1. /\ \A x \in Socket : x # s => refresh'[x] = refresh[x]
        /\ \/ refresh'[s].pc = "idle"
           \/ /\ refresh'[s].prev = refresh[s].prev /\ refresh'[s].next = refresh[s].next
              /\ Rotating(s)
    BY <1>2 DEF RefreshRecord, NoRefresh
  <2>2. \A x \in Socket : SocketInUse(x)'
    BY <1>2, <2>1 DEF SocketInUse, Entering, Admitted, Rotating, Issued
  <2> QED
    BY <1>2, <2>2 DEF InUse, InboxInUse, EntryIsOpen, Issued, TypeOK
<1>3. CASE RefreshSkip(s)
  BY <1>2, <1>3 DEF RefreshSkip, StoresInUse, Issued
<1>4. CASE RefreshNotClaimed(s)
  <2>1. /\ sock' = [sock EXCEPT ![s].issued = TRUE]
        /\ refresh' = [refresh EXCEPT ![s] = NoRefresh] /\ refresh[s].pc = "due"
        /\ UNCHANGED <<minted, display, grace, client, current, inbox, deviceSockets>>
    BY <1>4 DEF RefreshNotClaimed
  <2>2. \A x \in Socket : /\ sock'[x].tok = sock[x].tok /\ sock'[x].hash = sock[x].hash
                           /\ sock'[x].st = sock[x].st
    BY <2>1, IssuedSet
  <2>3. StoresInUse'
    BY <2>1 DEF StoresInUse, Issued
  <2> QED
    BY <1>2, <2>1, <2>2, <2>3
<1>5. CASE RefreshPublishGrace(s)
  <2>1. /\ UNCHANGED <<minted, display, client, current, sock, inbox, deviceSockets>>
        /\ Rotating(s) /\ refresh[s].pc # "idle"
        /\ \/ refresh' = [refresh EXCEPT ![s].pc = "graced"]
           \/ refresh' = [refresh EXCEPT ![s] = NoRefresh]
        /\ \/ grace' = grace
           \/ grace'.prev = refresh[s].prev /\ grace'.next = refresh[s].next
    BY <1>5 DEF RefreshPublishGrace, Rotating
  <2>2. StoresInUse'
    BY <2>1 DEF StoresInUse, SocketInUse, Issued
  <2> QED
    BY <1>2, <2>1, <2>2
<1>6. CASE RefreshRotate(s)
  <2>1. /\ UNCHANGED <<minted, grace, client, current, sock, inbox, deviceSockets>>
        /\ Rotating(s) /\ refresh[s].pc # "idle"
        /\ \/ refresh' = [refresh EXCEPT ![s].pc = "rotated"]
           \/ refresh' = [refresh EXCEPT ![s].pc = "cleanup"]
        /\ \/ display' = display
           \/ display' = [display EXCEPT !.jwtToken = refresh[s].next]
    BY <1>6 DEF RefreshRotate, Rotating
  <2>2. display'.jwtToken \in {display.jwtToken, refresh[s].next}
    BY <2>1 DEF TypeOK
  <2>3. StoresInUse'
    BY <2>1, <2>2 DEF StoresInUse, SocketInUse, Issued
  <2> QED
    BY <1>2, <2>1, <2>3
<1>7. CASE RefreshEmit(s)
  <2>1. /\ sock' = [sock EXCEPT ![s].hash = refresh[s].next, ![s].issued = TRUE]
        /\ refresh' = [refresh EXCEPT ![s] = NoRefresh] /\ refresh[s].pc = "rotated"
        /\ inbox' = inbox \/ SendTo(s, refresh[s].next)
        /\ UNCHANGED <<minted, display, grace, client, current, deviceSockets>>
    BY <1>7 DEF RefreshEmit
  <2>2. refresh[s].next \in Issued /\ refresh[s].next \in Message
    <3>1. \A t \in Issued : t \in Token
      BY DeviceTokenAssumption DEF Issued, TypeOK, Token
    <3>2. refresh[s].next \in Issued
      BY <2>1 DEF SocketInUse, Rotating
    <3> QED
      BY <3>1, <3>2, TokenFacts
  <2>3. /\ \A x \in Socket : sock'[x].tok = sock[x].tok /\ sock'[x].st = sock[x].st
        /\ \A x \in Socket : x # s => sock'[x].hash = sock[x].hash
        /\ sock'[s].hash = refresh[s].next
    BY <2>1, HashIssuedSet
  <2>4. /\ \A x \in Socket : x # s => refresh'[x] = refresh[x]
        /\ refresh'[s].pc = "idle"
    BY <2>1 DEF NoRefresh
  <2>5. InboxInUse'
    BY <2>1, <2>2, SendInUse DEF InboxInUse, Issued
  <2>6. \A x \in Socket : SocketInUse(x)'
    BY <2>1, <2>2, <2>3, <2>4 DEF SocketInUse, Entering, Admitted, Rotating, Issued
  <2>7. StoresInUse' /\ EntryIsOpen'
    BY <2>1, <2>3 DEF StoresInUse, EntryIsOpen, Issued, TypeOK
  <2> QED
    BY <2>5, <2>6, <2>7 DEF InUse
<1>8. CASE DeleteOwnedGraceGet(s)
  <2>1. /\ UNCHANGED <<minted, display, grace, client, current, sock, inbox, deviceSockets>>
        /\ Rotating(s) /\ refresh[s].pc # "idle"
        /\ \/ refresh' = [refresh EXCEPT ![s].pc = "owned"]
           \/ refresh' = [refresh EXCEPT ![s] = NoRefresh]
    BY <1>8 DEF DeleteOwnedGraceGet, Rotating
  <2>2. StoresInUse'
    BY <2>1 DEF StoresInUse, Issued
  <2> QED
    BY <1>2, <2>1, <2>2
<1>9. CASE DeleteOwnedGraceDelete(s)
  <2>1. /\ UNCHANGED <<minted, display, client, current, sock, inbox, deviceSockets>>
        /\ refresh[s].pc # "idle"
        /\ refresh' = [refresh EXCEPT ![s] = NoRefresh]
        /\ grace' = grace \/ grace' = NoGrace
    BY <1>9 DEF DeleteOwnedGraceDelete
  <2>2. StoresInUse'
    BY <2>1 DEF StoresInUse, Issued
  <2> QED
    BY <1>2, <2>1, <2>2
<1> QED
  BY <1>1, <1>3, <1>4, <1>5, <1>6, <1>7, <1>8, <1>9 DEF Refreshes

(* Every step keeps the JWTs in use signed ones.                             *)
LEMMA StepInUse == TypeOK /\ InUse /\ [Next]_vars => InUse'
<1> SUFFICES ASSUME TypeOK, InUse, [Next]_vars PROVE InUse'
  OBVIOUS
<1> USE NotTokens, TokenFacts, InUseParts DEF tokenVars, timeVars, storeVars, serverVars, deviceVars
<1>1. ASSUME UNCHANGED <<minted, sock, refresh>>, StoresInUse', InboxInUse', EntryIsOpen'
      PROVE  InUse'
  BY <1>1 DEF InUse, SocketInUse, Entering, Admitted, Rotating, Issued
<1>2. ASSUME UNCHANGED <<minted, display, grace, client, current, inbox, sock, refresh, deviceSockets>>
      PROVE  InUse'
  BY <1>1, <1>2 DEF StoresInUse, InboxInUse, EntryIsOpen, Issued
<1>3. CASE UNCHANGED vars
  BY <1>2, <1>3 DEF vars
<1>4. CASE ClientReceive
  <2>1. /\ UNCHANGED <<minted, display, grace, current, sock, refresh, deviceSockets>>
        /\ inbox # <<>> /\ (inbox' = Tail(inbox) \/ inbox' = <<>>)
        /\ \/ client'.token = NoToken
           \/ client'.token = client.token
           \/ client'.token = Head(inbox) /\ Head(inbox) \in Token
    BY <1>4 DEF ClientReceive, TypeOK
  <2>2. Head(inbox) \in Token => Head(inbox) \in Issued
    BY <2>1 DEF InboxInUse
  <2>3. StoresInUse' /\ EntryIsOpen'
    BY <2>1, <2>2 DEF StoresInUse, EntryIsOpen, Issued
  <2>4. InboxInUse'
    <3>1. ASSUME inbox' = Tail(inbox) PROVE InboxInUse'
      BY <2>1, <3>1 DEF InboxInUse, Issued
    <3>2. ASSUME inbox' = <<>> PROVE InboxInUse'
      BY <3>2 DEF InboxInUse
    <3> QED
      BY <2>1, <3>1, <3>2
  <2> QED
    BY <1>1, <2>1, <2>3, <2>4
<1>5. CASE LoseConnection
  <2>1. /\ UNCHANGED <<minted, display, grace, current, sock, refresh, deviceSockets>>
        /\ inbox' = <<>> /\ client'.token = client.token
    BY <1>5 DEF LoseConnection, TypeOK
  <2> QED
    BY <1>1, <2>1 DEF StoresInUse, InboxInUse, EntryIsOpen, Issued
<1>6. ASSUME NEW s \in Socket, ClientConnect(s) PROVE InUse'
  <2>1. /\ UNCHANGED <<minted, display, grace, current, refresh, deviceSockets, inbox>>
        /\ client'.token = client.token /\ client.token # NoToken
        /\ sock[s].st = "closed" /\ refresh[s].pc = "idle"
    BY <1>6 DEF ClientConnect, TypeOK
  <2>2. /\ sock' = [sock EXCEPT ![s] = [ClosedSocket EXCEPT !.st = "row", !.tok = client.token]]
        /\ [ClosedSocket EXCEPT !.st = "row", !.tok = client.token].st = "row"
        /\ [ClosedSocket EXCEPT !.st = "row", !.tok = client.token].tok = client.token
    BY <1>6 DEF ClientConnect, ClosedSocket
  <2>3. /\ \A x \in Socket : x # s => sock'[x] = sock[x]
        /\ sock'[s].st = "row" /\ sock'[s].tok = client.token
    BY <2>2
  <2>4. StoresInUse' /\ InboxInUse'
    BY <2>1 DEF StoresInUse, InboxInUse, Issued
  <2>5. EntryIsOpen'
    BY <2>1, <2>3 DEF EntryIsOpen, TypeOK
  <2>6. \A x \in Socket : SocketInUse(x)'
    BY <2>1, <2>3 DEF StoresInUse, SocketInUse, Entering, Admitted, Rotating, Issued
  <2> QED
    BY <2>4, <2>5, <2>6 DEF InUse
<1>7. CASE GatewayRestart
  <2>1. /\ UNCHANGED <<minted, display, grace, current>>
        /\ inbox' = <<>> /\ client'.token = client.token /\ deviceSockets' = None
        /\ \A x \in Socket : sock'[x] = ClosedSocket /\ refresh'[x] = NoRefresh
    BY <1>7 DEF GatewayRestart, TypeOK
  <2>2. ClosedSocket.st = "closed" /\ NoRefresh.pc = "idle"
    BY DEF ClosedSocket, NoRefresh
  <2>3. \A x \in Socket : SocketInUse(x)'
    BY <2>1, <2>2 DEF SocketInUse, Entering, Admitted, Rotating
  <2> QED
    BY <2>1, <2>3 DEF InUse, StoresInUse, InboxInUse, EntryIsOpen, Issued
<1>8. CASE GeneratePairingToken
  <2>1. /\ minted' = minted + 1 /\ current' = minted + 1 /\ display'.jwtToken = minted + 1
        /\ UNCHANGED <<grace, client, inbox, sock, refresh, deviceSockets>>
    BY <1>8 DEF GeneratePairingToken, Sign, TypeOK
  <2>2. /\ \A t : t \in Issued => t \in Issued'
        /\ minted + 1 \in Issued'
    BY <2>1 DEF Issued
  <2>3. \A x \in Socket : SocketInUse(x)'
    BY <2>1, <2>2 DEF SocketInUse, Entering, Admitted, Rotating
  <2> QED
    BY <2>1, <2>2, <2>3 DEF InUse, StoresInUse, InboxInUse, EntryIsOpen
<1>9. CASE DisableDevice \/ EnableDevice \/ Remove
  <2>1. /\ UNCHANGED <<minted, grace, client, current, inbox, sock, refresh, deviceSockets>>
        /\ display'.jwtToken = display.jwtToken
    BY <1>9 DEF DisableDevice, EnableDevice, Remove, TypeOK
  <2> QED
    BY <1>1, <2>1 DEF StoresInUse, InboxInUse, EntryIsOpen, Issued
<1>10. CASE RevokeDevice
  <2>1. UNCHANGED <<minted, display, grace, client, current, refresh>>
    BY <1>10 DEF RevokeDevice
  <2>2. CASE UNCHANGED <<sock, deviceSockets, inbox>>
    BY <1>2, <2>1, <2>2
  <2>3. CASE /\ deviceSockets # None /\ sock' = [sock EXCEPT ![deviceSockets].st = "closed"]
             /\ deviceSockets' = None /\ SendTo(deviceSockets, Closed)
    <3>1. deviceSockets \in Socket
      BY <2>3 DEF TypeOK
    <3>2. /\ \A x \in Socket : sock'[x].tok = sock[x].tok /\ sock'[x].hash = sock[x].hash
          /\ \A x \in Socket : x # deviceSockets => sock'[x].st = sock[x].st
          /\ sock'[deviceSockets].st = "closed"
      BY <2>3, <3>1, StSet
    <3>3. InboxInUse'
      BY <2>1, <2>3, SendInUse
    <3>4. \A x \in Socket : SocketInUse(x)'
      BY <2>1, <3>1, <3>2 DEF SocketInUse, Entering, Admitted, Rotating, Issued
    <3> QED
      BY <2>1, <2>3, <3>3, <3>4 DEF InUse, StoresInUse, EntryIsOpen, Issued
  <2> QED
    BY <1>10, <2>2, <2>3 DEF RevokeDevice
<1>11. CASE Time
  <2>1. /\ UNCHANGED <<minted, display, client, current, inbox, sock, refresh, deviceSockets>>
        /\ grace' = grace \/ grace' = NoGrace
    BY <1>11, Zenon DEF Time, BecomeNear, Expire, CooldownExpire, GraceExpire
  <2> QED
    BY <1>1, <2>1 DEF StoresInUse, InboxInUse, EntryIsOpen, Issued
<1> QED
  BY <1>3, <1>4, <1>5, <1>6, <1>7, <1>8, <1>9, <1>10, <1>11,
     HandshakeInUse, ChecksInUse, RefreshesInUse
  DEF Next, Client, Operator

-----------------------------------------------------------------------------
(* The steps of the handshake keep the lineages: a JWT is admitted because   *)
(* its hash is the stored one, or because the grace record joins the two.    *)
LEMMA HandshakeLineage ==
    ASSUME TypeOK, InUse, Lineage, NEW s \in Socket, Handshake(s)
    PROVE  Lineage'
<1> USE InUseParts DEF tokenVars, timeVars, storeVars, deviceVars
<1>0. StoresLineage /\ \A x \in Socket : SocketLineage(x)
  BY DEF Lineage
<1>1. /\ UNCHANGED <<minted, root, display, grace, current>>
      /\ StoresLineage'
  <2>1. UNCHANGED <<minted, root, display, grace, current>>
    BY DEF Handshake, HandshakeRow, HandshakeGrace, HandleConnection,
           HandleUnverifiedConnection, HandleDisconnect
  <2> QED
    BY <1>0, <2>1 DEF StoresLineage
<1>2. ASSUME NEW m, Reject(s, m), Entering(s), UNCHANGED refresh
      PROVE  Lineage'
  <2>1. /\ \A x \in Socket : x # s => sock'[x] = sock[x]
        /\ sock'[s].st = "closed"
    BY <1>2, RejectSet
  <2>2. \A x \in Socket : SocketLineage(x)'
    BY <1>0, <1>1, <1>2, <2>1 DEF SocketLineage, SocketInUse, Entering, Admitted, Rotating
  <2> QED
    BY <1>1, <2>2 DEF Lineage
<1>3. ASSUME NEW h, root[sock[s].tok] = root[h], AcceptOrSuspend(s, h), Entering(s), UNCHANGED refresh
      PROVE  Lineage'
  <2>1. CASE sock' = [sock EXCEPT ![s].st = "accepted", ![s].hash = h]
    <3>1. /\ \A x \in Socket : sock'[x].tok = sock[x].tok
          /\ \A x \in Socket : x # s => sock'[x].st = sock[x].st /\ sock'[x].hash = sock[x].hash
          /\ sock'[s].st = "accepted" /\ sock'[s].hash = h
      <4>1. sock \in [Socket -> SocketRecord]
        BY DEF TypeOK
      <4> QED
        BY <2>1, <4>1 DEF SocketRecord
    <3>2. \A x \in Socket : SocketLineage(x)'
      BY <1>0, <1>1, <1>3, <3>1 DEF SocketLineage, SocketInUse, Entering, Admitted, Rotating
    <3> QED
      BY <1>1, <3>2 DEF Lineage
  <2> QED
    BY <1>2, <1>3, <2>1 DEF AcceptOrSuspend
<1>4. ASSUME NEW h, root[sock[s].tok] = root[h], Register(s, h), Entering(s)
      PROVE  Lineage'
  <2>1. /\ \A x \in Socket : /\ sock'[x].tok = sock[x].tok
                             /\ x # s => sock'[x].hash = sock[x].hash /\ refresh'[x] = refresh[x]
                             /\ x # s => sock'[x].st \in {sock[x].st, "closed"}
        /\ sock'[s].st = "open" /\ sock'[s].hash = h
        /\ refresh'[s].pc = "due" /\ deviceSockets' = s
    BY <1>4, RegisterSet
  <2>2. \A x \in Socket : SocketLineage(x)'
    BY <1>0, <1>1, <1>4, <2>1 DEF SocketLineage, SocketInUse, Entering, Admitted, Rotating
  <2> QED
    BY <1>1, <2>2 DEF Lineage
<1>5. CASE HandshakeRow(s)
  <2>1. /\ Entering(s) /\ UNCHANGED refresh
        /\ \/ Reject(s, Closed)
           \/ Reject(s, Terminal)
           \/ Stored = sock[s].tok /\ AcceptOrSuspend(s, Stored)
           \/ sock' = [sock EXCEPT ![s].st = "grace", ![s].hash = Stored]
           \/ sock' = [sock EXCEPT ![s].st = "pass"]
    BY <1>5, Zenon DEF HandshakeRow, PassUnverified, Entering
  <2>2. ASSUME NEW st \in {"pass", "grace"}, \A x \in Socket : x # s => sock'[x] = sock[x],
               sock'[s].st = st
        PROVE  Lineage'
    <3>1. \A x \in Socket : SocketLineage(x)'
      BY <1>0, <1>1, <2>1, <2>2 DEF SocketLineage, SocketInUse, Entering, Admitted, Rotating
    <3> QED
      BY <1>1, <3>1 DEF Lineage
  <2>3. CASE sock' = [sock EXCEPT ![s].st = "grace", ![s].hash = Stored]
    <3>1. sock \in [Socket -> SocketRecord]
      BY DEF TypeOK
    <3>2. (\A x \in Socket : x # s => sock'[x] = sock[x]) /\ sock'[s].st = "grace"
      BY <2>3, <3>1 DEF SocketRecord
    <3> QED
      BY <2>2, <3>2
  <2>4. CASE sock' = [sock EXCEPT ![s].st = "pass"]
    <3>1. sock \in [Socket -> SocketRecord]
      BY DEF TypeOK
    <3>2. (\A x \in Socket : x # s => sock'[x] = sock[x]) /\ sock'[s].st = "pass"
      BY <2>4, <3>1 DEF SocketRecord
    <3> QED
      BY <2>2, <3>2
  <2> QED
    BY <1>2, <1>3, <2>1, <2>3, <2>4
<1>6. CASE HandshakeGrace(s)
  <2>1. /\ Entering(s) /\ UNCHANGED refresh /\ sock[s].st = "grace"
        /\ \/ Reject(s, Terminal)
           \/ GraceAccepts(sock[s].tok, sock[s].hash) /\ AcceptOrSuspend(s, sock[s].hash)
    BY <1>6 DEF HandshakeGrace, Entering
  <2>2. sock[s].tok \in Issued
    BY <2>1 DEF SocketInUse
  <2>3. GraceAccepts(sock[s].tok, sock[s].hash) => root[sock[s].tok] = root[sock[s].hash]
    BY <1>0, <2>2 DEF GraceAccepts, StoresLineage, NoGrace, NoToken, Issued
  <2> QED
    BY <1>2, <1>3, <2>1, <2>3
<1>7. CASE HandleConnection(s)
  BY <1>0, <1>4, <1>7 DEF HandleConnection, Entering, SocketLineage, Admitted
<1>8. CASE HandleUnverifiedConnection(s)
  BY <1>2, <1>4, <1>8 DEF HandleUnverifiedConnection, Entering
<1>9. CASE HandleDisconnect(s)
  <2>1. sock' = [sock EXCEPT ![s].st = "closed"] /\ UNCHANGED refresh /\ sock[s].st = "open"
    BY <1>9 DEF HandleDisconnect
  <2>2. /\ \A x \in Socket : sock'[x].tok = sock[x].tok /\ sock'[x].hash = sock[x].hash
        /\ \A x \in Socket : x # s => sock'[x].st = sock[x].st
        /\ sock'[s].st = "closed"
    BY <2>1, StSet
  <2>3. \A x \in Socket : SocketLineage(x)'
    BY <1>0, <1>1, <2>1, <2>2 DEF SocketLineage, Admitted, Rotating
  <2> QED
    BY <1>1, <2>3 DEF Lineage
<1> QED
  BY <1>5, <1>6, <1>7, <1>8, <1>9 DEF Handshake

(* The stored-hash checks keep the lineages.                                 *)
LEMMA ChecksLineage ==
    ASSUME TypeOK, InUse, Lineage, NEW s \in Socket, Checks(s)
    PROVE  Lineage'
<1> USE InUseParts DEF tokenVars, timeVars, storeVars, deviceVars
<1>0. StoresLineage /\ \A x \in Socket : SocketLineage(x)
  BY DEF Lineage
<1>1. UNCHANGED <<root, display, grace, current>> /\ StoresLineage'
  <2>1. UNCHANGED <<root, display, grace, current>>
    BY DEF Checks, CheckRead, CheckDecide, Heartbeat
  <2> QED
    BY <1>0, <2>1 DEF StoresLineage
<1>2. CASE CheckRead(s) \/ CheckDecide(s)
  <2>1. UNCHANGED refresh /\ (UNCHANGED sock \/ sock' = [sock EXCEPT ![s].st = "closed"])
    BY <1>2 DEF CheckRead, CheckDecide
  <2>2. CASE sock' = [sock EXCEPT ![s].st = "closed"]
    <3>1. /\ \A x \in Socket : sock'[x].tok = sock[x].tok /\ sock'[x].hash = sock[x].hash
          /\ \A x \in Socket : x # s => sock'[x].st = sock[x].st
          /\ sock'[s].st = "closed"
      BY <2>2, StSet
    <3> QED
      BY <1>0, <1>1, <2>1, <3>1 DEF Lineage, SocketLineage, Admitted, Rotating
  <2> QED
    BY <1>0, <1>1, <2>1, <2>2 DEF Lineage, SocketLineage, Admitted, Rotating
<1>3. CASE Heartbeat(s)
  <2>1. /\ UNCHANGED deviceSockets /\ deviceSockets = s
        /\ UNCHANGED sock \/ sock' = [sock EXCEPT ![s].issued = TRUE]
        /\ refresh' = refresh \/ refresh' = [refresh EXCEPT ![s] = DueRefresh]
    BY <1>3, Zenon DEF Heartbeat
  <2>2. \A x \in Socket : /\ sock'[x].tok = sock[x].tok /\ sock'[x].hash = sock[x].hash
                           /\ sock'[x].st = sock[x].st
    BY <2>1, IssuedSet
  <2>3. \A x \in Socket : refresh'[x] = refresh[x] \/ (refresh'[x].pc = "due" /\ sock[x].st = "open")
    <3>1. DueRefresh.pc = "due"
      BY DEF DueRefresh, NoRefresh
    <3>2. sock[s].st = "open"
      BY <2>1, DeviceTokenAssumption DEF EntryIsOpen
    <3> QED
      BY <2>1, <3>1, <3>2
  <2> QED
    BY <1>0, <1>1, <2>2, <2>3 DEF Lineage, SocketLineage, Admitted, Rotating
<1> QED
  BY <1>2, <1>3 DEF Checks

(* Signing a JWT leaves the lineage of the signed ones alone.                *)
LEMMA SignedRoots ==
    ASSUME TypeOK, NEW r, Sign(r)
    PROVE  /\ \A t \in Issued : root'[t] = root[t] /\ t \in Issued'
           /\ root'[minted + 1] = r /\ minted + 1 \in Issued' /\ minted' = minted + 1
<1>1. minted \in Nat /\ minted + 1 \in Token /\ root \in [Token -> TokenOrNone]
  BY DeviceTokenAssumption DEF TypeOK, Sign, Token
<1>2. minted' = minted + 1 /\ root' = [root EXCEPT ![minted + 1] = r]
  BY DEF Sign
<1>3. \A t \in Issued : t \in Token /\ t # minted + 1 /\ t \in Issued'
  BY <1>1, <1>2, DeviceTokenAssumption DEF Issued, Token
<1>4. \A t \in Issued : root'[t] = root[t]
  BY <1>1, <1>2, <1>3
<1>5. minted + 1 \in Issued'
  BY <1>1, <1>2 DEF Issued
<1> QED
  BY <1>1, <1>2, <1>3, <1>4, <1>5

(* The steps of maybeRefreshDeviceToken keep the lineages: what it signs     *)
(* descends from the hash of its socket, and it rotates only what it read.   *)
LEMMA RefreshesLineage ==
    ASSUME TypeOK, InUse, Lineage, NEW s \in Socket, Refreshes(s)
    PROVE  Lineage'
<1> USE InUseParts DEF tokenVars, timeVars, storeVars, deviceVars
<1>0. StoresLineage /\ \A x \in Socket : SocketLineage(x)
  BY DEF Lineage
<1>1. CASE RefreshClaim(s)
  <2>1. /\ UNCHANGED <<display, grace, current, sock>> /\ refresh[s].pc = "due"
        /\ Sign(root[sock[s].hash])
        /\ refresh' = [refresh EXCEPT ![s] =
                         [pc |-> "minted", prev |-> sock[s].hash, next |-> minted + 1]]
    BY <1>1 DEF RefreshClaim
  <2>2. /\ \A x \in Socket : x # s => refresh'[x] = refresh[x]
        /\ refresh'[s].pc = "minted" /\ refresh'[s].prev = sock[s].hash
        /\ refresh'[s].next = minted + 1
    BY <2>1
  <2>3. /\ \A t \in Issued : root'[t] = root[t]
        /\ root'[minted + 1] = root[sock[s].hash]
    BY <2>1, SignedRoots
  <2>4. StoresLineage'
    BY <1>0, <2>1, <2>3 DEF StoresLineage, StoresInUse
  <2>5. ASSUME NEW x \in Socket, x # s PROVE SocketLineage(x)'
    BY <1>0, <2>1, <2>2, <2>3, <2>5 DEF SocketLineage, SocketInUse, Admitted, Rotating
  <2>6. SocketLineage(s)'
    BY <1>0, <2>1, <2>2, <2>3 DEF SocketLineage, SocketInUse, Admitted, Rotating
  <2> QED
    BY <2>4, <2>5, <2>6 DEF Lineage
<1>2. ASSUME \/ refresh' = [refresh EXCEPT ![s] = NoRefresh]
             \/ \E pc \in {"graced", "rotated", "cleanup", "owned"} :
                   refresh' = [refresh EXCEPT ![s].pc = pc] /\ Rotating(s),
             refresh[s].pc # "idle", UNCHANGED root,
             \A x \in Socket : sock'[x].tok = sock[x].tok /\ sock'[x].st = sock[x].st,
             \A x \in Socket : sock'[x].hash = sock[x].hash,
             StoresLineage'
      PROVE  Lineage'
  <2>1. /\ \A x \in Socket : x # s => refresh'[x] = refresh[x]
        /\ \/ refresh'[s].pc = "idle"
           \/ /\ refresh'[s].prev = refresh[s].prev /\ refresh'[s].next = refresh[s].next
              /\ Rotating(s)
    BY <1>2 DEF RefreshRecord, NoRefresh
  <2>2. \A x \in Socket : SocketLineage(x)'
    BY <1>0, <1>2, <2>1 DEF SocketLineage, Admitted, Rotating
  <2> QED
    BY <1>2, <2>2 DEF Lineage
<1>3. CASE RefreshSkip(s)
  BY <1>0, <1>2, <1>3 DEF RefreshSkip, StoresLineage
<1>4. CASE RefreshNotClaimed(s)
  <2>1. /\ sock' = [sock EXCEPT ![s].issued = TRUE]
        /\ refresh' = [refresh EXCEPT ![s] = NoRefresh] /\ refresh[s].pc = "due"
        /\ UNCHANGED <<root, display, grace, current>>
    BY <1>4 DEF RefreshNotClaimed
  <2>2. \A x \in Socket : /\ sock'[x].tok = sock[x].tok /\ sock'[x].hash = sock[x].hash
                           /\ sock'[x].st = sock[x].st
    BY <2>1, IssuedSet
  <2>3. StoresLineage'
    BY <1>0, <2>1 DEF StoresLineage
  <2> QED
    BY <1>2, <2>1, <2>2, <2>3
<1>5. CASE RefreshPublishGrace(s)
  <2>1. /\ UNCHANGED <<root, display, current, sock>>
        /\ Rotating(s) /\ refresh[s].pc # "idle"
        /\ \/ refresh' = [refresh EXCEPT ![s].pc = "graced"]
           \/ refresh' = [refresh EXCEPT ![s] = NoRefresh]
        /\ \/ grace' = grace
           \/ grace'.prev = refresh[s].prev /\ grace'.next = refresh[s].next
    BY <1>5 DEF RefreshPublishGrace, Rotating
  <2>2. StoresLineage'
    BY <1>0, <2>1 DEF StoresLineage, SocketLineage
  <2> QED
    BY <1>2, <2>1, <2>2
<1>6. CASE RefreshRotate(s)
  <2>1. /\ UNCHANGED <<root, grace, current, sock>>
        /\ Rotating(s) /\ refresh[s].pc # "idle"
        /\ \/ refresh' = [refresh EXCEPT ![s].pc = "rotated"]
           \/ refresh' = [refresh EXCEPT ![s].pc = "cleanup"]
        /\ \/ display' = display
           \/ Rotates(s) /\ display' = [display EXCEPT !.jwtToken = refresh[s].next]
    BY <1>6 DEF RefreshRotate, Rotating
  <2>2. \/ display'.jwtToken = display.jwtToken
        \/ display.jwtToken = refresh[s].prev /\ display'.jwtToken = refresh[s].next
    BY <2>1 DEF TypeOK, Rotates
  <2>3. StoresLineage'
    BY <1>0, <2>1, <2>2 DEF StoresLineage, SocketLineage
  <2> QED
    BY <1>2, <2>1, <2>3
<1>7. CASE RefreshEmit(s)
  <2>1. /\ sock' = [sock EXCEPT ![s].hash = refresh[s].next, ![s].issued = TRUE]
        /\ refresh' = [refresh EXCEPT ![s] = NoRefresh] /\ refresh[s].pc = "rotated"
        /\ UNCHANGED <<root, display, grace, current>>
    BY <1>7 DEF RefreshEmit
  <2>2. /\ \A x \in Socket : sock'[x].tok = sock[x].tok /\ sock'[x].st = sock[x].st
        /\ \A x \in Socket : x # s => sock'[x].hash = sock[x].hash
        /\ sock'[s].hash = refresh[s].next
    BY <2>1, HashIssuedSet
  <2>3. /\ \A x \in Socket : x # s => refresh'[x] = refresh[x]
        /\ refresh'[s].pc = "idle"
    BY <2>1 DEF NoRefresh
  <2>4. \A x \in Socket : SocketLineage(x)'
    BY <1>0, <2>1, <2>2, <2>3 DEF SocketLineage, Admitted, Rotating
  <2> QED
    BY <1>0, <2>1, <2>4 DEF Lineage, StoresLineage
<1>8. CASE DeleteOwnedGraceGet(s)
  <2>1. /\ UNCHANGED <<root, display, grace, current, sock>>
        /\ Rotating(s) /\ refresh[s].pc # "idle"
        /\ \/ refresh' = [refresh EXCEPT ![s].pc = "owned"]
           \/ refresh' = [refresh EXCEPT ![s] = NoRefresh]
    BY <1>8 DEF DeleteOwnedGraceGet, Rotating
  <2>2. StoresLineage'
    BY <1>0, <2>1 DEF StoresLineage
  <2> QED
    BY <1>2, <2>1, <2>2
<1>9. CASE DeleteOwnedGraceDelete(s)
  <2>1. /\ UNCHANGED <<root, display, current, sock>>
        /\ refresh[s].pc # "idle"
        /\ refresh' = [refresh EXCEPT ![s] = NoRefresh]
        /\ grace' = grace \/ grace' = NoGrace
    BY <1>9 DEF DeleteOwnedGraceDelete
  <2>2. StoresLineage'
    BY <1>0, <2>1 DEF StoresLineage
  <2> QED
    BY <1>2, <2>1, <2>2
<1> QED
  BY <1>1, <1>3, <1>4, <1>5, <1>6, <1>7, <1>8, <1>9 DEF Refreshes

(* Every step keeps the lineages.                                            *)
LEMMA StepLineage == TypeOK /\ InUse /\ Lineage /\ [Next]_vars => Lineage'
<1> SUFFICES ASSUME TypeOK, InUse, Lineage, [Next]_vars PROVE Lineage'
  OBVIOUS
<1> USE InUseParts DEF tokenVars, timeVars, storeVars, serverVars, deviceVars
<1>0. StoresLineage /\ \A x \in Socket : SocketLineage(x)
  BY DEF Lineage
<1>1. ASSUME UNCHANGED <<root, current, sock, refresh>>, display'.jwtToken = display.jwtToken,
             grace' = grace \/ grace' = NoGrace
      PROVE  Lineage'
  BY <1>0, <1>1 DEF Lineage, StoresLineage, SocketLineage, Admitted, Rotating
<1>2. CASE UNCHANGED vars
  BY <1>1, <1>2 DEF vars
<1>3. CASE ClientReceive \/ LoseConnection
  BY <1>1, <1>3 DEF ClientReceive, LoseConnection
<1>4. ASSUME NEW s \in Socket, ClientConnect(s) PROVE Lineage'
  <2>1. /\ UNCHANGED <<root, display, grace, current, refresh>> /\ refresh[s].pc = "idle"
        /\ sock' = [sock EXCEPT ![s] = [ClosedSocket EXCEPT !.st = "row", !.tok = client.token]]
        /\ [ClosedSocket EXCEPT !.st = "row", !.tok = client.token].st = "row"
    BY <1>4 DEF ClientConnect, ClosedSocket
  <2>2. /\ \A x \in Socket : x # s => sock'[x] = sock[x]
        /\ sock'[s].st = "row"
    BY <2>1
  <2>3. \A x \in Socket : SocketLineage(x)'
    BY <1>0, <2>1, <2>2 DEF SocketLineage, Admitted, Rotating
  <2> QED
    BY <1>0, <2>1, <2>3 DEF Lineage, StoresLineage
<1>5. CASE GatewayRestart
  <2>1. /\ UNCHANGED <<root, display, grace, current>>
        /\ \A x \in Socket : sock'[x] = ClosedSocket /\ refresh'[x] = NoRefresh
    BY <1>5 DEF GatewayRestart
  <2>2. ClosedSocket.st = "closed" /\ NoRefresh.pc = "idle"
    BY DEF ClosedSocket, NoRefresh
  <2>3. \A x \in Socket : SocketLineage(x)'
    BY <2>1, <2>2 DEF SocketLineage, Admitted, Rotating
  <2> QED
    BY <1>0, <2>1, <2>3 DEF Lineage, StoresLineage
<1>6. CASE GeneratePairingToken
  <2>1. /\ Sign(minted + 1) /\ current' = minted + 1 /\ display'.jwtToken = minted + 1
        /\ UNCHANGED <<grace, sock, refresh>>
    BY <1>6 DEF GeneratePairingToken, TypeOK
  <2>2. /\ \A t \in Issued : root'[t] = root[t]
        /\ root'[minted + 1] = minted + 1
    BY <2>1, SignedRoots
  <2>3. StoresLineage'
    BY <1>0, <2>1, <2>2 DEF StoresLineage, StoresInUse
  <2>4. \A x \in Socket : SocketLineage(x)'
    BY <1>0, <2>1, <2>2 DEF SocketLineage, SocketInUse, Admitted, Rotating
  <2> QED
    BY <2>3, <2>4 DEF Lineage
<1>7. CASE DisableDevice \/ EnableDevice \/ Remove
  <2>1. UNCHANGED <<root, grace, current, sock, refresh>> /\ display'.jwtToken = display.jwtToken
    BY <1>7 DEF DisableDevice, EnableDevice, Remove, TypeOK
  <2> QED
    BY <1>1, <2>1
<1>8. CASE RevokeDevice
  <2>1. UNCHANGED <<root, display, grace, current, refresh>>
    BY <1>8 DEF RevokeDevice
  <2>2. CASE UNCHANGED sock
    BY <1>1, <2>1, <2>2
  <2>3. CASE deviceSockets # None /\ sock' = [sock EXCEPT ![deviceSockets].st = "closed"]
    <3>1. deviceSockets \in Socket
      BY <2>3 DEF TypeOK
    <3>2. /\ \A x \in Socket : sock'[x].tok = sock[x].tok /\ sock'[x].hash = sock[x].hash
          /\ \A x \in Socket : x # deviceSockets => sock'[x].st = sock[x].st
          /\ sock'[deviceSockets].st = "closed"
      BY <2>3, <3>1, StSet
    <3>3. \A x \in Socket : SocketLineage(x)'
      BY <1>0, <2>1, <3>1, <3>2 DEF SocketLineage, Admitted, Rotating
    <3> QED
      BY <1>0, <2>1, <3>3 DEF Lineage, StoresLineage
  <2> QED
    BY <1>8, <2>2, <2>3 DEF RevokeDevice
<1>9. CASE Time
  <2>1. /\ UNCHANGED <<root, display, current, sock, refresh>>
        /\ grace' = grace \/ grace' = NoGrace
    BY <1>9, Zenon DEF Time, BecomeNear, Expire, CooldownExpire, GraceExpire
  <2> QED
    BY <1>1, <2>1
<1> QED
  BY <1>2, <1>3, <1>4, <1>5, <1>6, <1>7, <1>8, <1>9,
     HandshakeLineage, ChecksLineage, RefreshesLineage
  DEF Next, Client, Operator

-----------------------------------------------------------------------------
(* The part of the invariant the rest builds on: what is in use, and its     *)
(* lineage.                                                                  *)
Base == TypeOK /\ InUse /\ Lineage

LEMMA StepBase == Base /\ [Next]_vars => Base'
  BY StepTyped, StepInUse, StepLineage DEF Base

-----------------------------------------------------------------------------
(* One refresh at a time.                                                    *)

(* A refresh that rotates was rotating before, of the same JWTs, unless it   *)
(* has just claimed the cooldown.                                            *)
LEMMA RefreshMoves ==
    ASSUME refresh \in [Socket -> RefreshRecord], NEW s \in Socket,
           \/ UNCHANGED refresh
           \/ refresh' = [refresh EXCEPT ![s] = NoRefresh]
           \/ refresh' = [refresh EXCEPT ![s] = DueRefresh]
           \/ /\ Rotating(s)
              /\ \E pc \in {"graced", "rotated", "cleanup", "owned"} :
                    refresh' = [refresh EXCEPT ![s].pc = pc]
    PROVE  \A x \in Socket : /\ x # s => refresh'[x] = refresh[x]
                             /\ Rotating(x)' => /\ Rotating(x)
                                                /\ refresh'[x].prev = refresh[x].prev
                                                /\ refresh'[x].next = refresh[x].next
  BY DEF Rotating, NoRefresh, DueRefresh, RefreshRecord

LEMMA ApartStays ==
    ASSUME RotationsApart, UNCHANGED cooldown,
           \A x \in Socket : Rotating(x)' => /\ Rotating(x)
                                             /\ refresh'[x].prev = refresh[x].prev
                                             /\ refresh'[x].next = refresh[x].next
    PROVE  RotationsApart'
  BY DEF RotationsApart, OneRotationAtATime

LEMMA StepApart == Base /\ RotationsApart /\ [Next]_vars => RotationsApart'
<1> SUFFICES ASSUME Base, RotationsApart, [Next]_vars PROVE RotationsApart'
  OBVIOUS
<1> USE InUseParts DEF Base, tokenVars, timeVars, serverVars, storeVars
<1>1. CASE UNCHANGED <<refresh, cooldown>>
  BY <1>1, ApartStays DEF Rotating
<1>2. ASSUME NEW s \in Socket, UNCHANGED cooldown,
             \/ UNCHANGED refresh
             \/ refresh' = [refresh EXCEPT ![s] = NoRefresh]
             \/ refresh' = [refresh EXCEPT ![s] = DueRefresh]
             \/ /\ Rotating(s)
                /\ \E pc \in {"graced", "rotated", "cleanup", "owned"} :
                      refresh' = [refresh EXCEPT ![s].pc = pc]
      PROVE  RotationsApart'
  BY <1>2, RefreshMoves, ApartStays
<1>3. ASSUME NEW s \in Socket, Handshake(s) PROVE RotationsApart'
  <2>1. UNCHANGED cooldown /\ (UNCHANGED refresh \/ refresh' = [refresh EXCEPT ![s] = DueRefresh])
    BY <1>3 DEF Handshake, HandshakeRow, HandshakeGrace, HandleConnection,
                HandleUnverifiedConnection, HandleDisconnect, Register
  <2> QED
    BY <1>2, <2>1
<1>4. ASSUME NEW s \in Socket, Checks(s) PROVE RotationsApart'
  <2>1. UNCHANGED cooldown /\ (UNCHANGED refresh \/ refresh' = [refresh EXCEPT ![s] = DueRefresh])
    BY <1>4, Zenon DEF Checks, CheckRead, CheckDecide, Heartbeat
  <2> QED
    BY <1>2, <2>1
<1>5. ASSUME NEW s \in Socket, RefreshClaim(s) PROVE RotationsApart'
  <2>1. /\ cooldown' /\ ~cooldown
        /\ refresh' = [refresh EXCEPT ![s] =
                         [pc |-> "minted", prev |-> sock[s].hash, next |-> minted + 1]]
    BY <1>5, Zenon DEF RefreshClaim, Claims
  <2>2. \A x \in Socket : ~Rotating(x)
    BY <2>1 DEF RotationsApart
  <2>3. sock[s].hash < minted + 1
    BY <1>5 DEF RefreshClaim, SocketInUse, Admitted, Issued
  <2>4. /\ \A x \in Socket : x # s => ~Rotating(x)'
        /\ refresh'[s].prev < refresh'[s].next
    BY <2>1, <2>2, <2>3 DEF Rotating
  <2> QED
    BY <2>1, <2>4 DEF RotationsApart, OneRotationAtATime
<1>6. ASSUME NEW s \in Socket, Refreshes(s), ~RefreshClaim(s) PROVE RotationsApart'
  <2>1. UNCHANGED cooldown
    BY <1>6, Zenon DEF Refreshes, RefreshNotClaimed, RefreshSkip, RefreshPublishGrace,
                RefreshRotate, RefreshEmit, DeleteOwnedGraceGet, DeleteOwnedGraceDelete
  <2>2. \/ refresh' = [refresh EXCEPT ![s] = NoRefresh]
        \/ /\ refresh[s].pc \notin {"idle", "due"}
           /\ \E pc \in {"graced", "rotated", "cleanup", "owned"} :
                 refresh' = [refresh EXCEPT ![s].pc = pc]
    BY <1>6 DEF Refreshes, RefreshNotClaimed, RefreshSkip, RefreshPublishGrace,
                RefreshRotate, RefreshEmit, DeleteOwnedGraceGet, DeleteOwnedGraceDelete
  <2> QED
    BY <1>2, <2>1, <2>2 DEF Rotating
<1>7. CASE CooldownExpire
  <2>1. UNCHANGED refresh /\ \A x \in Socket : ~Rotating(x)
    BY <1>7 DEF CooldownExpire, Settled, Rotating
  <2> QED
    BY <2>1 DEF RotationsApart, OneRotationAtATime, Rotating
<1>8. CASE GatewayRestart
  <2>1. UNCHANGED cooldown /\ \A x \in Socket : refresh'[x] = NoRefresh
    BY <1>8 DEF GatewayRestart
  <2>2. \A x \in Socket : ~Rotating(x)'
    BY <2>1 DEF Rotating, NoRefresh
  <2> QED
    BY <2>1, <2>2, ApartStays
<1>9. CASE UNCHANGED vars
  BY <1>1, <1>9 DEF vars
<1>10. CASE Client
  BY <1>1, <1>10 DEF Client, ClientReceive, LoseConnection, ClientConnect
<1>11. CASE Operator
  <2>1. CASE GeneratePairingToken
    BY <1>1, <2>1 DEF GeneratePairingToken
  <2>2. CASE DisableDevice \/ EnableDevice \/ Remove
    BY <1>1, <2>2 DEF DisableDevice, EnableDevice, Remove
  <2>3. CASE RevokeDevice
    BY <1>1, <2>3 DEF RevokeDevice
  <2> QED
    BY <1>11, <2>1, <2>2, <2>3 DEF Operator
<1>12. CASE BecomeNear \/ Expire \/ GraceExpire
  BY <1>1, <1>12 DEF BecomeNear, Expire, GraceExpire
<1> QED
  BY <1>3, <1>4, <1>5, <1>6, <1>7, <1>8, <1>9, <1>10, <1>11, <1>12 DEF Next, Time

-----------------------------------------------------------------------------
(* The order of what is in use: no JWT in hand is younger than the row's,    *)
(* and the record of a refresh is out before the row changes.                *)

(* A socket with a handler of the gateway behind it; a step that puts no JWT *)
(* in the device's hand.                                                     *)
Live(s) == Entering(s) \/ Admitted(s)
Fewer == \A t \in Token : InHand(t)' => InHand(t)

LEMMA InHandIssued == ASSUME Base, NEW t \in Token, InHand(t) PROVE t \in Issued
  BY InUseParts, DeviceTokenAssumption DEF Base, InHand, StoresInUse, InboxInUse, Token, NoToken

(* An error, or the end of a socket, puts no JWT in the device's hand.       *)
LEMMA SendFewer ==
    ASSUME inbox \in Seq(Message), NEW s, NEW m, m \notin Token, SendTo(s, m), UNCHANGED client
    PROVE  Fewer
  BY DEF Fewer, InHand, SendTo

(* The row's hash and what it is compared with are numbers, and none is the  *)
(* hash that stands for no JWT.                                              *)
LEMMA RowNumbers ==
    ASSUME Base
    PROVE  /\ display.jwtToken \in Nat /\ display.jwtToken # NoToken
           /\ display.jwtToken <= minted /\ minted \in Nat /\ Token \subseteq Nat
           /\ grace.next \in Nat /\ grace.next <= minted /\ NoGrace.next = NoToken
           /\ \A x \in Socket :
                 /\ sock[x].tok \in Nat /\ sock[x].hash \in Nat /\ refresh[x].next \in Nat
                 /\ Rotating(x) => refresh[x].next # NoToken /\ refresh[x].next <= minted
<1> USE InUseParts DEF Base
<1>1. Token \subseteq Nat /\ TokenOrNone \subseteq Nat /\ minted \in Nat /\ NoToken = 0
  BY DEF Token, TokenOrNone, NoToken
<1>2. Issued \subseteq Nat \ {NoToken} /\ \A t \in Issued : t <= minted
  BY <1>1 DEF Issued
<1>3. display.jwtToken \in Issued /\ (grace = NoGrace \/ grace.next \in Issued)
  BY DEF StoresInUse
<1>4. NoGrace.next = NoToken
  BY DEF NoGrace
<1>5. \A x \in Socket : sock[x].tok \in Nat /\ sock[x].hash \in Nat /\ refresh[x].next \in Nat
  BY <1>1 DEF SocketRecord, RefreshRecord
<1>6. \A x \in Socket : Rotating(x) => refresh[x].next \in Issued
  BY DEF SocketInUse
<1>7. grace.next \in Nat /\ grace.next <= minted
  <2>1. CASE grace = NoGrace
    <3>1. grace.next = 0
      BY <1>1, <1>4, <2>1
    <3> QED
      BY <1>1, <3>1
  <2>2. CASE grace.next \in Issued
    BY <1>2, <2>2
  <2> QED
    BY <1>3, <2>1, <2>2
<1>8. \A x \in Socket : Rotating(x) => refresh[x].next # NoToken /\ refresh[x].next <= minted
  BY <1>2, <1>6
<1>9. /\ display.jwtToken \in Nat /\ display.jwtToken # NoToken
      /\ display.jwtToken <= minted
  BY <1>2, <1>3
<1> QED
  BY <1>1, <1>4, <1>5, <1>7, <1>8, <1>9

(* NoYounger stays when the row's hash is replaced by a younger one only.    *)
LEMMA NoYoungerStays ==
    ASSUME Base, Base', NEW x \in Socket, NoYounger(x),
           display.jwtToken <= display'.jwtToken,
           Entering(x)' => \/ Entering(x) /\ sock'[x].tok = sock[x].tok
                           \/ sock'[x].tok <= display'.jwtToken,
           sock'[x].st = "grace" =>
              \/ /\ sock[x].st = "grace" /\ sock'[x].tok = sock[x].tok
                 /\ sock'[x].hash = sock[x].hash
              \/ sock'[x].tok < sock'[x].hash /\ sock'[x].hash <= display'.jwtToken,
           refresh'[x].pc = "rotated" =>
              \/ refresh[x].pc = "rotated" /\ refresh'[x].next = refresh[x].next
              \/ refresh'[x].next <= display'.jwtToken
    PROVE  NoYounger(x)'
<1>1. /\ display.jwtToken \in Nat /\ display'.jwtToken \in Nat
      /\ sock[x].tok \in Nat /\ sock[x].hash \in Nat /\ refresh[x].next \in Nat
  BY RowNumbers DEF Base, TypeOK, Token
<1>2. Entering(x)' => sock'[x].tok <= display'.jwtToken
  BY <1>1 DEF NoYounger
<1>3. sock'[x].st = "grace" => sock'[x].tok < sock'[x].hash /\ sock'[x].hash <= display'.jwtToken
  BY <1>1 DEF NoYounger
<1>4. refresh'[x].pc = "rotated" => refresh'[x].next <= display'.jwtToken
  BY <1>1 DEF NoYounger
<1> QED
  BY <1>2, <1>3, <1>4 DEF NoYounger

(* What is in hand stays no younger, too.                                    *)
NoYoungerInHand == \A t \in Token : InHand(t) => t <= display.jwtToken

LEMMA InHandStays ==
    ASSUME Base, Base', NoYoungerInHand, display.jwtToken <= display'.jwtToken,
           \A t \in Token : InHand(t)' => InHand(t) \/ t <= display'.jwtToken
    PROVE  NoYoungerInHand'
<1>1. display.jwtToken \in Nat /\ display'.jwtToken \in Nat /\ Token \subseteq Nat
  BY DEF Base, TypeOK, Token
<1> QED
  BY <1>1 DEF NoYoungerInHand

(* RecordFirst stays while the row keeps its hash and the grace record is    *)
(* at most dropped.                                                          *)
LEMMA RecordFirstStays ==
    ASSUME Base, NEW x \in Socket, RecordFirst(x), display'.jwtToken = display.jwtToken,
           grace' = grace \/ grace' = NoGrace,
           refresh'[x].pc \in {"minted", "graced"} => refresh'[x] = refresh[x],
           sock'[x].st = "grace" =>
              \/ sock'[x].hash = display.jwtToken
              \/ /\ sock[x].st = "grace" /\ sock'[x].tok = sock[x].tok
                 /\ sock'[x].hash = sock[x].hash
    PROVE  RecordFirst(x)'
<1>1. /\ display.jwtToken # NoToken /\ NoGrace.next = NoToken
      /\ refresh[x].pc \in {"minted", "graced"} => refresh[x].next # NoToken
  BY RowNumbers DEF Rotating
<1>2. refresh'[x].pc \in {"minted", "graced"} => refresh'[x].next # display'.jwtToken
  BY DEF RecordFirst
<1>3. refresh'[x].pc = "minted" => grace'.next # refresh'[x].next
  BY <1>1 DEF RecordFirst
<1>4. refresh'[x].pc = "graced" /\ grace'.next = refresh'[x].next =>
         grace'.prev = refresh'[x].prev
  BY <1>1 DEF RecordFirst
<1>5. sock'[x].st = "grace" /\ grace'.prev = sock'[x].tok /\ grace'.next = display'.jwtToken =>
         sock'[x].hash = display'.jwtToken
  BY <1>1 DEF RecordFirst, GraceAccepts
<1> QED
  BY <1>2, <1>3, <1>4, <1>5 DEF RecordFirst, GraceAccepts

LEMMA InOrderParts ==
    InOrder <=> NoYoungerInHand /\ \A x \in Socket : NoYounger(x) /\ RecordFirst(x)
  BY DEF InOrder, NoYoungerInHand

(* A step that keeps the row's hash, puts no JWT in hand, and lets no socket *)
(* be read for again.                                                        *)
LEMMA InOrderStays ==
    ASSUME Base, Base', InOrder, Fewer, display'.jwtToken = display.jwtToken,
           grace' = grace \/ grace' = NoGrace,
           \A x \in Socket : refresh'[x] = refresh[x]
                             \/ refresh'[x].pc \notin {"minted", "graced", "rotated"},
           \A x \in Socket : Entering(x)' => Entering(x) /\ sock'[x].tok = sock[x].tok,
           \A x \in Socket : sock'[x].st = "grace" =>
              /\ sock[x].st = "grace" /\ sock'[x].tok = sock[x].tok
              /\ sock'[x].hash = sock[x].hash
    PROVE  InOrder'
<1>1. display.jwtToken <= display'.jwtToken
  BY RowNumbers
<1>2. NoYoungerInHand'
  BY <1>1, InHandStays, InOrderParts DEF Fewer
<1>3. ASSUME NEW x \in Socket PROVE NoYounger(x)'
  BY <1>1, NoYoungerStays, InOrderParts
<1>4. ASSUME NEW x \in Socket PROVE RecordFirst(x)'
  BY RecordFirstStays, InOrderParts
<1> QED
  BY <1>2, <1>3, <1>4 DEF InOrder, NoYoungerInHand

(* The handshake reads the row, and lets nobody in on another JWT.           *)
LEMMA HandshakeInOrder ==
    ASSUME Base, Base', InOrder, NEW s \in Socket, Handshake(s) PROVE InOrder'
<1> USE InUseParts, NotTokens DEF Base, tokenVars, timeVars, storeVars, deviceVars
<1>1. UNCHANGED <<grace, display, client>>
  BY DEF Handshake, HandshakeRow, HandshakeGrace, HandleConnection,
         HandleUnverifiedConnection, HandleDisconnect
<1>2. /\ sock \in [Socket -> SocketRecord]
      /\ \A x \in Socket : sock[x].st \in {"closed", "row", "grace", "accepted", "pass", "open"}
  BY DEF SocketRecord
<1>3. ASSUME NEW m, m \notin Token, Reject(s, m), UNCHANGED refresh PROVE InOrder'
  <2>1. (\A x \in Socket : x # s => sock'[x] = sock[x]) /\ sock'[s].st = "closed"
    BY <1>3, RejectSet
  <2>2. Fewer
    BY <1>1, <1>3, SendFewer DEF Reject
  <2>3. \A x \in Socket : /\ Entering(x)' => Entering(x) /\ sock'[x].tok = sock[x].tok
                          /\ sock'[x].st = "grace" => sock'[x] = sock[x]
    BY <2>1 DEF Entering
  <2> QED
    BY <1>1, <1>3, <2>1, <2>2, <2>3, InOrderStays
<1>4. ASSUME NEW st \in {"accepted", "pass", "closed"}, NEW h, Entering(s) \/ st = "closed",
             sock' = [sock EXCEPT ![s].st = st, ![s].hash = h], UNCHANGED <<refresh, inbox>>
      PROVE  InOrder'
  <2>1. /\ \A x \in Socket : x # s => sock'[x] = sock[x]
        /\ sock'[s].st = st /\ sock'[s].tok = sock[s].tok
    BY <1>2, <1>4 DEF SocketRecord
  <2>2. Fewer
    BY <1>1, <1>4 DEF Fewer, InHand
  <2>3. \A x \in Socket : /\ Entering(x)' => Entering(x) /\ sock'[x].tok = sock[x].tok
                          /\ sock'[x].st = "grace" => sock'[x] = sock[x]
    BY <1>4, <2>1 DEF Entering
  <2> QED
    BY <1>1, <1>4, <2>1, <2>2, <2>3, InOrderStays
<1>5. ASSUME sock[s].st = "row", Stored # NoToken, Stored # sock[s].tok,
             sock' = [sock EXCEPT ![s].st = "grace", ![s].hash = Stored],
             UNCHANGED <<refresh, inbox>>
      PROVE  InOrder'
  <2>1. /\ \A x \in Socket : x # s => sock'[x] = sock[x]
        /\ sock'[s].st = "grace" /\ sock'[s].tok = sock[s].tok /\ sock'[s].hash = Stored
    BY <1>2, <1>5 DEF SocketRecord
  <2>2. Stored = display.jwtToken
    BY <1>5 DEF Stored
  <2>3. Entering(s) /\ sock[s].tok <= display.jwtToken
    BY <1>5, InOrderParts DEF Entering, NoYounger
  <2>4. /\ display.jwtToken \in Nat /\ sock[s].tok \in Nat
        /\ display.jwtToken <= display'.jwtToken
    BY <1>1, RowNumbers
  <2>5. sock'[s].tok < sock'[s].hash /\ sock'[s].hash <= display'.jwtToken
    BY <1>1, <1>5, <2>1, <2>2, <2>3, <2>4
  <2>6. NoYoungerInHand'
    BY <1>1, <1>5, InOrderParts DEF NoYoungerInHand, InHand
  <2>7. ASSUME NEW x \in Socket PROVE NoYounger(x)'
    <3>1. Entering(x)' => Entering(x) /\ sock'[x].tok = sock[x].tok
      BY <2>1, <2>3 DEF Entering
    <3> QED
      BY <1>5, <2>1, <2>4, <2>5, <3>1, NoYoungerStays, InOrderParts
  <2>8. ASSUME NEW x \in Socket PROVE RecordFirst(x)'
    BY <1>1, <1>5, <2>1, <2>2, RecordFirstStays, InOrderParts
  <2> QED
    BY <2>6, <2>7, <2>8 DEF InOrder, NoYoungerInHand
<1>6. ASSUME NEW h, Register(s, h), Entering(s) PROVE InOrder'
  <2>1. /\ \A x \in Socket : x # s => /\ sock'[x].tok = sock[x].tok
                                      /\ sock'[x].hash = sock[x].hash /\ refresh'[x] = refresh[x]
                                      /\ sock'[x].st \in {sock[x].st, "closed"}
        /\ sock'[s].st = "open" /\ refresh'[s].pc = "due"
    BY <1>6, RegisterSet
  <2>2. (deviceSockets \in Socket /\ SendTo(deviceSockets, Closed)) \/ UNCHANGED inbox
    BY <1>6 DEF Register, TypeOK
  <2>3. Fewer
    <3>1. CASE UNCHANGED inbox
      BY <1>1, <3>1 DEF Fewer, InHand
    <3> QED
      BY <1>1, <2>2, <3>1, SendFewer
  <2>4. \A x \in Socket : /\ Entering(x)' => Entering(x) /\ sock'[x].tok = sock[x].tok
                          /\ sock'[x].st = "grace" => /\ sock[x].st = "grace"
                                                      /\ sock'[x].tok = sock[x].tok
                                                      /\ sock'[x].hash = sock[x].hash
    BY <2>1 DEF Entering
  <2>5. \A x \in Socket : refresh'[x] = refresh[x]
                          \/ refresh'[x].pc \notin {"minted", "graced", "rotated"}
    BY <2>1
  <2> QED
    BY <1>1, <2>3, <2>4, <2>5, InOrderStays
<1>7. CASE HandshakeRow(s)
  <2>1. sock[s].st = "row" /\ Entering(s) /\ UNCHANGED refresh
    BY <1>7 DEF HandshakeRow, Entering
  <2>2. \/ \E m \in {Closed, Terminal} : Reject(s, m)
        \/ /\ sock' = [sock EXCEPT ![s].st = "accepted", ![s].hash = Stored] /\ UNCHANGED inbox
        \/ /\ Stored # NoToken /\ Stored # sock[s].tok /\ UNCHANGED inbox
           /\ sock' = [sock EXCEPT ![s].st = "grace", ![s].hash = Stored]
        \/ sock' = [sock EXCEPT ![s].st = "pass"] /\ UNCHANGED inbox
    BY <1>7 DEF HandshakeRow, AcceptOrSuspend, PassUnverified
  <2>3. sock' = [sock EXCEPT ![s].st = "pass"] =>
          sock' = [sock EXCEPT ![s].st = "pass", ![s].hash = sock[s].hash]
    BY <1>2 DEF SocketRecord
  <2> QED
    BY <1>3, <1>4, <1>5, <2>1, <2>2, <2>3
<1>8. CASE HandshakeGrace(s)
  <2>1. Entering(s) /\ UNCHANGED refresh
    BY <1>8 DEF HandshakeGrace, Entering
  <2>2. \/ \E m \in {Closed, Terminal} : Reject(s, m)
        \/ /\ sock' = [sock EXCEPT ![s].st = "accepted", ![s].hash = sock[s].hash]
           /\ UNCHANGED inbox
    BY <1>8 DEF HandshakeGrace, AcceptOrSuspend
  <2> QED
    BY <1>3, <1>4, <2>1, <2>2
<1>9. CASE HandleConnection(s)
  <2>1. Entering(s) /\ Register(s, sock[s].hash)
    BY <1>9 DEF HandleConnection, Entering
  <2> QED
    BY <1>6, <2>1
<1>10. CASE HandleUnverifiedConnection(s)
  <2>1. /\ Entering(s)
        /\ \/ Register(s, sock[s].tok)
           \/ UNCHANGED refresh /\ \E m \in {Closed, Terminal} : Reject(s, m)
    BY <1>10 DEF HandleUnverifiedConnection, Entering
  <2> QED
    BY <1>3, <1>6, <2>1
<1>11. CASE HandleDisconnect(s)
  <2>1. sock' = [sock EXCEPT ![s].st = "closed"] /\ UNCHANGED <<refresh, inbox>>
    BY <1>11 DEF HandleDisconnect
  <2>2. sock' = [sock EXCEPT ![s].st = "closed", ![s].hash = sock[s].hash]
    BY <1>2, <2>1 DEF SocketRecord
  <2> QED
    BY <1>4, <2>1, <2>2
<1> QED
  BY <1>7, <1>8, <1>9, <1>10, <1>11 DEF Handshake

(* The checks change neither store, and send no JWT.                         *)
LEMMA ChecksInOrder ==
    ASSUME Base, Base', InOrder, NEW s \in Socket, Checks(s) PROVE InOrder'
<1> USE InUseParts, NotTokens DEF Base, tokenVars, timeVars, storeVars, deviceVars
<1>1. UNCHANGED <<grace, display, client>>
  BY DEF Checks, CheckRead, CheckDecide, Heartbeat
<1>2. \/ UNCHANGED refresh
      \/ refresh' = [refresh EXCEPT ![s] = DueRefresh]
  BY Zenon DEF Checks, CheckRead, CheckDecide, Heartbeat
<1>3. \A x \in Socket : refresh'[x] = refresh[x]
                        \/ refresh'[x].pc \notin {"minted", "graced", "rotated"}
  BY <1>2 DEF DueRefresh, NoRefresh
<1>4. \/ UNCHANGED <<sock, inbox>>
      \/ sock' = [sock EXCEPT ![s].st = "closed"] /\ SendTo(s, Terminal)
      \/ sock' = [sock EXCEPT ![s].issued = TRUE] /\ UNCHANGED inbox
  BY Zenon DEF Checks, CheckRead, CheckDecide, Heartbeat
<1>5. Fewer
  <2>1. UNCHANGED inbox => Fewer
    BY <1>1 DEF Fewer, InHand
  <2> QED
    BY <1>1, <1>4, <2>1, SendFewer
<1>6. \A x \in Socket : /\ sock'[x].tok = sock[x].tok /\ sock'[x].hash = sock[x].hash
                        /\ sock'[x].st \in {sock[x].st, "closed"}
  BY <1>4, StSet, IssuedSet
<1>7. \A x \in Socket : Entering(x)' => Entering(x)
  BY <1>6 DEF Entering
<1> QED
  BY <1>1, <1>3, <1>5, <1>6, <1>7, InOrderStays

(* The refreshes: the record is out before the row changes, and the row      *)
(* changes only from the hash the record names as the previous one.          *)
LEMMA RefreshesInOrder ==
    ASSUME Base, Base', RotationsApart, InOrder, NEW s \in Socket, Refreshes(s) PROVE InOrder'
<1> USE InUseParts, NotTokens DEF Base, tokenVars, timeVars, storeVars, deviceVars
<1>1. UNCHANGED client
  BY DEF Refreshes, RefreshClaim, RefreshNotClaimed, RefreshSkip, RefreshPublishGrace,
         RefreshRotate, RefreshEmit, DeleteOwnedGraceGet, DeleteOwnedGraceDelete
<1>2. NoYoungerInHand /\ \A x \in Socket : NoYounger(x) /\ RecordFirst(x)
  BY InOrderParts
<1>3. UNCHANGED inbox => Fewer
  BY <1>1 DEF Fewer, InHand
<1>4. ASSUME \A x \in Socket : /\ sock'[x].tok = sock[x].tok /\ sock'[x].st = sock[x].st
      PROVE  \A x \in Socket : Entering(x)' => Entering(x) /\ sock'[x].tok = sock[x].tok
  BY <1>4 DEF Entering
<1>5. ASSUME UNCHANGED <<display, inbox>>, grace' = grace \/ grace' = NoGrace,
             \A x \in Socket : /\ sock'[x].tok = sock[x].tok /\ sock'[x].hash = sock[x].hash
                               /\ sock'[x].st = sock[x].st,
             \/ refresh' = [refresh EXCEPT ![s] = NoRefresh]
             \/ \E pc \in {"cleanup", "owned"} : refresh' = [refresh EXCEPT ![s].pc = pc]
      PROVE  InOrder'
  <2>1. \A x \in Socket : refresh'[x] = refresh[x]
                          \/ refresh'[x].pc \notin {"minted", "graced", "rotated"}
    BY <1>5 DEF NoRefresh, RefreshRecord
  <2> QED
    BY <1>3, <1>4, <1>5, <2>1, InOrderStays
<1>6. CASE RefreshClaim(s)
  <2>1. /\ UNCHANGED <<display, grace, sock, inbox>>
        /\ refresh' = [refresh EXCEPT ![s] =
                         [pc |-> "minted", prev |-> sock[s].hash, next |-> minted + 1]]
    BY <1>6 DEF RefreshClaim
  <2>2. /\ \A x \in Socket : x # s => refresh'[x] = refresh[x]
        /\ refresh'[s].pc = "minted" /\ refresh'[s].next = minted + 1
    BY <2>1
  <2>3. /\ display.jwtToken <= minted /\ minted \in Nat /\ grace.next <= minted
        /\ display.jwtToken \in Nat /\ grace.next \in Nat
    BY RowNumbers
  <2>4. NoYoungerInHand'
    BY <1>2, <1>3, <2>1, <2>3, InHandStays DEF Fewer
  <2>5. ASSUME NEW x \in Socket PROVE NoYounger(x)'
    BY <1>2, <1>4, <2>1, <2>2, <2>3, <2>5, NoYoungerStays
  <2>6. ASSUME NEW x \in Socket PROVE RecordFirst(x)'
    <3>1. CASE x # s
      BY <1>2, <2>1, <2>2, <3>1, RecordFirstStays
    <3>2. CASE x = s
      BY <1>2, <2>1, <2>2, <2>3, <3>2 DEF RecordFirst, GraceAccepts
    <3> QED
      BY <3>1, <3>2
  <2> QED
    BY <2>4, <2>5, <2>6 DEF InOrder, NoYoungerInHand
<1>7. CASE RefreshSkip(s) \/ RefreshNotClaimed(s)
  <2>1. /\ UNCHANGED <<display, grace, inbox>>
        /\ UNCHANGED sock \/ sock' = [sock EXCEPT ![s].issued = TRUE]
        /\ refresh' = [refresh EXCEPT ![s] = NoRefresh]
    BY <1>7 DEF RefreshSkip, RefreshNotClaimed
  <2> QED
    BY <1>5, <2>1, IssuedSet
<1>8. CASE RefreshPublishGrace(s)
  <2>1. /\ UNCHANGED <<display, inbox, sock>> /\ refresh[s].pc = "minted"
        /\ \/ refresh' = [refresh EXCEPT ![s] = NoRefresh] /\ UNCHANGED grace
           \/ /\ grace' = [prev |-> refresh[s].prev, next |-> refresh[s].next, exp |-> sock[s].tok]
              /\ refresh' = [refresh EXCEPT ![s].pc = "graced"]
    BY <1>8 DEF RefreshPublishGrace
  <2>2. CASE refresh' = [refresh EXCEPT ![s] = NoRefresh] /\ UNCHANGED grace
    BY <1>5, <2>1, <2>2
  <2>3. CASE /\ grace' = [prev |-> refresh[s].prev, next |-> refresh[s].next, exp |-> sock[s].tok]
             /\ refresh' = [refresh EXCEPT ![s].pc = "graced"]
    <3>1. /\ \A x \in Socket : x # s => refresh'[x] = refresh[x]
          /\ refresh'[s].pc = "graced" /\ refresh'[s].prev = refresh[s].prev
          /\ refresh'[s].next = refresh[s].next
      BY <2>3 DEF RefreshRecord
    <3>2. \A x \in Socket : x # s => refresh[x].pc \notin {"minted", "graced"}
      BY <2>1 DEF RotationsApart, OneRotationAtATime, Rotating
    <3>3. refresh[s].next # display.jwtToken /\ display.jwtToken <= display'.jwtToken
      BY <1>2, <2>1, RowNumbers DEF RecordFirst
    <3>4. NoYoungerInHand'
      BY <1>2, <1>3, <2>1, <3>3, InHandStays DEF Fewer
    <3>5. ASSUME NEW x \in Socket PROVE NoYounger(x)'
      BY <1>2, <1>4, <2>1, <3>1, <3>3, NoYoungerStays
    <3>6. grace'.prev = refresh[s].prev /\ grace'.next = refresh[s].next
      BY <2>3
    <3>7. ASSUME NEW x \in Socket PROVE RecordFirst(x)'
      <4>1. refresh'[x].pc \in {"minted", "graced"} => x = s
        BY <3>1, <3>2
      <4> QED
        BY <2>1, <3>1, <3>3, <3>6, <4>1 DEF RecordFirst, GraceAccepts
    <3> QED
      BY <3>4, <3>5, <3>7 DEF InOrder, NoYoungerInHand
  <2> QED
    BY <2>1, <2>2, <2>3
<1>9. CASE RefreshRotate(s)
  <2>1. /\ UNCHANGED <<grace, inbox, sock>> /\ refresh[s].pc = "graced"
        /\ \E pc \in {"rotated", "cleanup"} : refresh' = [refresh EXCEPT ![s].pc = pc]
        /\ \/ UNCHANGED display /\ refresh' = [refresh EXCEPT ![s].pc = "cleanup"]
           \/ /\ display' = [display EXCEPT !.jwtToken = refresh[s].next]
              /\ display.jwtToken = refresh[s].prev
    BY <1>9 DEF RefreshRotate, Rotates
  <2>2. CASE UNCHANGED display /\ refresh' = [refresh EXCEPT ![s].pc = "cleanup"]
    BY <1>5, <2>1, <2>2
  <2>3. CASE /\ display' = [display EXCEPT !.jwtToken = refresh[s].next]
             /\ display.jwtToken = refresh[s].prev
    <3>1. display'.jwtToken = refresh[s].next
      BY <2>3 DEF TypeOK
    <3>2. /\ Rotating(s) /\ refresh[s].prev < refresh[s].next
          /\ \A x \in Socket : x # s => ~Rotating(x)
      BY <2>1 DEF RotationsApart, OneRotationAtATime, Rotating
    <3>3. /\ \A x \in Socket : x # s => refresh'[x] = refresh[x]
          /\ refresh'[s].pc \in {"rotated", "cleanup"} /\ refresh'[s].next = refresh[s].next
      BY <2>1 DEF RefreshRecord
    <3>4. display.jwtToken \in Nat /\ refresh[s].next \in Nat /\ display.jwtToken <= display'.jwtToken
      BY <2>3, <3>1, <3>2, RowNumbers
    <3>5. NoYoungerInHand'
      BY <1>2, <1>3, <2>1, <3>4, InHandStays DEF Fewer
    <3>6. ASSUME NEW x \in Socket PROVE NoYounger(x)'
      <4>1. refresh'[x].pc = "rotated" => refresh'[x].next <= display'.jwtToken
        <5>1. CASE x = s
          BY <3>1, <3>3, <3>4, <5>1
        <5>2. CASE x # s
          BY <3>2, <3>3, <5>2 DEF Rotating
        <5> QED
          BY <5>1, <5>2
      <4> QED
        BY <1>2, <1>4, <2>1, <3>4, <4>1, NoYoungerStays
    <3>7. ASSUME NEW x \in Socket PROVE RecordFirst(x)'
      <4>1. refresh'[x].pc \notin {"minted", "graced"}
        BY <3>2, <3>3 DEF Rotating
      <4>2. ASSUME sock[x].st = "grace", GraceAccepts(sock[x].tok, refresh[s].next) PROVE FALSE
        <5>1. grace.prev = refresh[s].prev
          BY <1>2, <2>1, <4>2 DEF RecordFirst, GraceAccepts
        <5>2. sock[x].tok = display.jwtToken
          BY <2>3, <4>2, <5>1 DEF GraceAccepts
        <5>3. sock[x].tok < sock[x].hash /\ sock[x].hash <= display.jwtToken
          BY <1>2, <4>2 DEF NoYounger
        <5> QED
          BY <5>2, <5>3, <3>4, RowNumbers
      <4> QED
        BY <2>1, <3>1, <4>1, <4>2 DEF RecordFirst, GraceAccepts
    <3> QED
      BY <3>5, <3>6, <3>7 DEF InOrder, NoYoungerInHand
  <2> QED
    BY <2>1, <2>2, <2>3
<1>10. CASE RefreshEmit(s)
  <2>1. /\ sock' = [sock EXCEPT ![s].hash = refresh[s].next, ![s].issued = TRUE]
        /\ refresh' = [refresh EXCEPT ![s] = NoRefresh] /\ refresh[s].pc = "rotated"
        /\ UNCHANGED <<display, grace>>
        /\ SendTo(s, refresh[s].next) \/ UNCHANGED inbox
    BY <1>10 DEF RefreshEmit
  <2>2. /\ \A x \in Socket : sock'[x].tok = sock[x].tok /\ sock'[x].st = sock[x].st
        /\ \A x \in Socket : x # s => sock'[x].hash = sock[x].hash
    BY <2>1, HashIssuedSet
  <2>3. sock[s].st # "grace"
    BY <2>1 DEF SocketInUse, Entering
  <2>4. \A x \in Socket : /\ x # s => refresh'[x] = refresh[x]
                          /\ x = s => refresh'[x].pc = "idle"
    BY <2>1 DEF NoRefresh
  <2>5. refresh[s].next <= display'.jwtToken /\ display.jwtToken <= display'.jwtToken
    BY <1>2, <2>1, RowNumbers DEF NoYounger
  <2>6. \A t \in Token : InHand(t)' => InHand(t) \/ t = refresh[s].next
    BY <1>1, <2>1 DEF InHand, SendTo
  <2>7. NoYoungerInHand'
    BY <1>2, <2>5, <2>6, InHandStays
  <2>8. ASSUME NEW x \in Socket PROVE NoYounger(x)'
    BY <1>2, <1>4, <2>2, <2>3, <2>4, <2>5, NoYoungerStays
  <2>9. ASSUME NEW x \in Socket PROVE RecordFirst(x)'
    BY <1>2, <2>1, <2>2, <2>3, <2>4, RecordFirstStays
  <2> QED
    BY <2>7, <2>8, <2>9 DEF InOrder, NoYoungerInHand
<1>11. CASE DeleteOwnedGraceGet(s) \/ DeleteOwnedGraceDelete(s)
  <2>1. /\ UNCHANGED <<display, inbox, sock>> /\ (grace' = grace \/ grace' = NoGrace)
        /\ \/ refresh' = [refresh EXCEPT ![s] = NoRefresh]
           \/ refresh' = [refresh EXCEPT ![s].pc = "owned"]
    BY <1>11 DEF DeleteOwnedGraceGet, DeleteOwnedGraceDelete
  <2> QED
    BY <1>5, <2>1
<1> QED
  BY <1>6, <1>7, <1>8, <1>9, <1>10, <1>11 DEF Refreshes

LEMMA StepInOrder == Base /\ RotationsApart /\ InOrder /\ [Next]_vars => InOrder'
<1> SUFFICES ASSUME Base, RotationsApart, InOrder, [Next]_vars PROVE InOrder'
  OBVIOUS
<1>1. Base'
  BY StepBase
<1> USE <1>1, InUseParts, NotTokens DEF Base, tokenVars, timeVars, serverVars, storeVars, deviceVars
<1>2. ASSUME Fewer, UNCHANGED <<display, grace, sock, refresh>> PROVE InOrder'
  <2>1. \A x \in Socket : Entering(x)' => Entering(x) /\ sock'[x].tok = sock[x].tok
    BY <1>2 DEF Entering
  <2> QED
    BY <1>2, <2>1, InOrderStays
<1>3. CASE ClientReceive
  <2>1. /\ UNCHANGED <<display, grace, sock, refresh>> /\ inbox # <<>>
        /\ \/ /\ Head(inbox) \in Token /\ client' = [client EXCEPT !.token = Head(inbox)]
              /\ inbox' = Tail(inbox)
           \/ client' = [token |-> NoToken, conn |-> None] /\ inbox' = <<>>
           \/ client' = [client EXCEPT !.conn = None] /\ inbox' = <<>>
    BY <1>3 DEF ClientReceive
  <2>2. CASE /\ Head(inbox) \in Token /\ client' = [client EXCEPT !.token = Head(inbox)]
             /\ inbox' = Tail(inbox)
    <3>1. client'.token = Head(inbox) /\ 1 \in DOMAIN inbox /\ Head(inbox) = inbox[1]
      BY <2>1, <2>2 DEF TypeOK
    <3>2. \A i \in DOMAIN inbox' : i + 1 \in DOMAIN inbox /\ inbox'[i] = inbox[i + 1]
      BY <2>1, <2>2
    <3>3. Fewer
      BY <3>1, <3>2 DEF Fewer, InHand
    <3> QED
      BY <1>2, <2>1, <3>3
  <2>3. CASE inbox' = <<>> /\ client'.token \in {NoToken, client.token}
    <3>1. Fewer
      BY <2>3 DEF Fewer, InHand, Token, NoToken
    <3> QED
      BY <1>2, <2>1, <3>1
  <2> QED
    BY <2>1, <2>2, <2>3 DEF TypeOK
<1>4. CASE LoseConnection \/ GatewayRestart
  <2>1. /\ UNCHANGED <<display, grace>> /\ inbox' = <<>> /\ client' = [client EXCEPT !.conn = None]
        /\ \/ UNCHANGED <<sock, refresh>>
           \/ \A x \in Socket : sock'[x] = ClosedSocket /\ refresh'[x] = NoRefresh
    BY <1>4 DEF LoseConnection, GatewayRestart
  <2>2. Fewer
    BY <2>1 DEF Fewer, InHand, TypeOK
  <2>3. CASE \A x \in Socket : sock'[x] = ClosedSocket /\ refresh'[x] = NoRefresh
    <3>1. \A x \in Socket : sock'[x].st = "closed" /\ refresh'[x].pc = "idle"
      BY <2>3 DEF ClosedSocket, NoRefresh
    <3>2. \A x \in Socket : ~Entering(x)'
      BY <3>1 DEF Entering
    <3> QED
      BY <2>1, <2>2, <3>1, <3>2, InOrderStays
  <2> QED
    BY <1>2, <2>1, <2>2, <2>3
<1>5. ASSUME NEW s \in Socket, ClientConnect(s) PROVE InOrder'
  <2>1. /\ UNCHANGED <<display, grace, refresh, inbox>> /\ client.token # NoToken
        /\ sock' = [sock EXCEPT ![s] = [ClosedSocket EXCEPT !.st = "row", !.tok = client.token]]
        /\ client' = [client EXCEPT !.conn = s]
    BY <1>5 DEF ClientConnect
  <2>2. /\ \A x \in Socket : x # s => sock'[x] = sock[x]
        /\ sock'[s].st = "row" /\ sock'[s].tok = client.token
    BY <2>1 DEF ClosedSocket
  <2>8. client'.token = client.token /\ client.token \in TokenOrNone
    BY <2>1 DEF TypeOK
  <2>3. client.token \in Token /\ InHand(client.token)
    <3>1. client.token \in Token
      BY <2>1, <2>8 DEF Token, TokenOrNone, NoToken
    <3> QED
      BY <3>1 DEF InHand
  <2>4. client.token <= display'.jwtToken /\ display.jwtToken <= display'.jwtToken
    BY <2>1, <2>3, RowNumbers, InOrderParts DEF NoYoungerInHand
  <2>5. NoYoungerInHand'
    BY <2>1, <2>4, <2>8, InHandStays, InOrderParts DEF InHand
  <2>6. ASSUME NEW x \in Socket PROVE NoYounger(x)'
    <3>1. Entering(x)' => \/ Entering(x) /\ sock'[x].tok = sock[x].tok
                          \/ sock'[x].tok <= display'.jwtToken
      BY <2>2, <2>4 DEF Entering
    <3> QED
      BY <2>1, <2>2, <2>4, <3>1, NoYoungerStays, InOrderParts
  <2>7. ASSUME NEW x \in Socket PROVE RecordFirst(x)'
    BY <2>1, <2>2, RecordFirstStays, InOrderParts
  <2> QED
    BY <2>5, <2>6, <2>7 DEF InOrder, NoYoungerInHand
<1>6. CASE GeneratePairingToken
  <2>1. /\ display' = [display EXCEPT !.jwtToken = minted + 1]
        /\ UNCHANGED <<sock, refresh, client, inbox, grace>>
    BY <1>6 DEF GeneratePairingToken
  <2>2. display'.jwtToken = minted + 1
    BY <2>1 DEF TypeOK
  <2>3. /\ display.jwtToken <= minted /\ minted \in Nat /\ grace.next <= minted
        /\ display.jwtToken \in Nat /\ grace.next \in Nat
        /\ \A x \in Socket : /\ Rotating(x) => refresh[x].next <= minted
                             /\ refresh[x].next \in Nat
    BY RowNumbers
  <2>4. display.jwtToken <= display'.jwtToken
    BY <2>2, <2>3
  <2>5. NoYoungerInHand'
    BY <2>1, <2>4, InHandStays, InOrderParts DEF InHand
  <2>6. ASSUME NEW x \in Socket PROVE NoYounger(x)'
    <3>1. Entering(x)' => Entering(x) /\ sock'[x].tok = sock[x].tok
      BY <2>1 DEF Entering
    <3> QED
      BY <2>1, <2>4, <3>1, NoYoungerStays, InOrderParts
  <2>7. ASSUME NEW x \in Socket PROVE RecordFirst(x)'
    <3>1. refresh[x].pc \in {"minted", "graced"} => refresh[x].next # minted + 1
      BY <2>3 DEF Rotating
    <3>2. grace.next # minted + 1
      BY <2>3
    <3> QED
      BY <2>1, <2>2, <3>1, <3>2, InOrderParts DEF RecordFirst, GraceAccepts
  <2> QED
    BY <2>5, <2>6, <2>7 DEF InOrder, NoYoungerInHand
<1>7. CASE DisableDevice \/ EnableDevice \/ Remove
  <2>1. /\ UNCHANGED <<refresh, grace, sock, client, inbox>>
        /\ display'.jwtToken = display.jwtToken
    BY <1>7 DEF DisableDevice, EnableDevice, Remove, TypeOK
  <2>2. Fewer /\ \A x \in Socket : Entering(x)' => Entering(x)
    BY <2>1 DEF Fewer, InHand, Entering
  <2> QED
    BY <2>1, <2>2, InOrderStays
<1>8. CASE RevokeDevice
  <2>1. /\ UNCHANGED <<display, refresh, grace, client>>
        /\ \/ UNCHANGED <<sock, inbox>>
           \/ /\ deviceSockets # None /\ sock' = [sock EXCEPT ![deviceSockets].st = "closed"]
              /\ SendTo(deviceSockets, Closed)
    BY <1>8 DEF RevokeDevice
  <2>2. CASE UNCHANGED <<sock, inbox>>
    <3>1. Fewer
      BY <2>1, <2>2 DEF Fewer, InHand
    <3> QED
      BY <1>2, <2>1, <2>2, <3>1
  <2>3. CASE /\ deviceSockets # None /\ sock' = [sock EXCEPT ![deviceSockets].st = "closed"]
             /\ SendTo(deviceSockets, Closed)
    <3>1. deviceSockets \in Socket
      BY <2>3 DEF TypeOK
    <3>2. /\ \A x \in Socket : sock'[x].tok = sock[x].tok /\ sock'[x].hash = sock[x].hash
          /\ \A x \in Socket : sock'[x].st \in {sock[x].st, "closed"}
      BY <2>3, <3>1, StSet
    <3>3. Fewer
      BY <2>1, <2>3, SendFewer
    <3>4. \A x \in Socket : Entering(x)' => Entering(x)
      BY <3>2 DEF Entering
    <3> QED
      BY <2>1, <3>2, <3>3, <3>4, InOrderStays
  <2> QED
    BY <2>1, <2>2, <2>3
<1>9. CASE Time
  <2>1. UNCHANGED <<display, refresh, sock, client, inbox>> /\ (grace' = grace \/ grace' = NoGrace)
    BY <1>9, Zenon DEF Time, BecomeNear, Expire, CooldownExpire, GraceExpire
  <2>2. Fewer /\ \A x \in Socket : Entering(x)' => Entering(x)
    BY <2>1 DEF Fewer, InHand, Entering
  <2> QED
    BY <2>1, <2>2, InOrderStays
<1>10. CASE UNCHANGED vars
  <2>1. Fewer
    BY <1>10 DEF vars, Fewer, InHand
  <2> QED
    BY <1>2, <1>10, <2>1 DEF vars
<1>11. ASSUME NEW s \in Socket, Handshake(s) \/ Checks(s) \/ Refreshes(s) PROVE InOrder'
  BY <1>11, HandshakeInOrder, ChecksInOrder, RefreshesInOrder
<1> QED
  BY <1>3, <1>4, <1>5, <1>6, <1>7, <1>8, <1>9, <1>10, <1>11 DEF Next, Client, Operator

-----------------------------------------------------------------------------
(* A lost refresh costs the device nothing.                                  *)

LEMMA SendConnected ==
    ASSUME FirstLine, NEW s \in Socket, NEW m, SendTo(s, m), UNCHANGED client
    PROVE  client'.conn = None => inbox' = <<>>
  BY DeviceTokenAssumption DEF FirstLine, SendTo

LEMMA FirstLineStays ==
    ASSUME Base, FirstLine, \A t \in Issued : root'[t] = root[t],
           client'.token = NoToken => client'.conn = None,
           client'.conn = None => inbox' = <<>>,
           \A t \in Token : InHand(t)' => InHand(t) \/ (t \in Issued /\ root[t] = 1),
           \A x \in Socket : Live(x)' => \/ Live(x) /\ sock'[x].tok = sock[x].tok
                                         \/ sock'[x].tok \in Token /\ InHand(sock'[x].tok)
    PROVE  FirstLine'
<1>1. ASSUME NEW t \in Token, InHand(t)' PROVE root'[t] = 1
  BY <1>1, InHandIssued DEF FirstLine
<1>2. ASSUME NEW x \in Socket, Live(x)' PROVE root'[sock'[x].tok] = 1
  <2>1. CASE Live(x) /\ sock'[x].tok = sock[x].tok
    <3>1. sock[x].tok \in Issued
      BY <2>1, InUseParts DEF Base, SocketInUse, Live
    <3> QED
      BY <2>1, <3>1 DEF FirstLine, Live
  <2>2. CASE sock'[x].tok \in Token /\ InHand(sock'[x].tok)
    BY <2>2, InHandIssued DEF FirstLine
  <2> QED
    BY <1>2, <2>1, <2>2
<1> QED
  BY <1>1, <1>2 DEF FirstLine, Live

LEMMA HeldStays ==
    ASSUME Base, Held, Fewer, display'.jwtToken = display.jwtToken,
           \A t \in TokenOrNone : Expired(t) => Expired(t)',
           grace' = grace \/ Expired(grace.exp)
    PROVE  Held'
<1>1. Token \subseteq TokenOrNone
  BY TokenFacts
<1>2. ASSUME NEW t \in Token, InHand(t)' PROVE Usable(t)'
  <2>1. Usable(t)
    BY <1>2 DEF Held, Fewer
  <2> QED
    BY <1>1, <2>1 DEF Usable
<1> QED
  BY <1>2 DEF Held

LEMMA HeldSocketStays ==
    ASSUME Base, NEW x \in Socket, HeldSocket(x), Fewer, display'.jwtToken = display.jwtToken,
           \A t \in TokenOrNone : Expired(t) => Expired(t)',
           grace' = grace \/ Expired(grace.exp),
           Live(x)' => Live(x) /\ sock'[x].tok = sock[x].tok,
           \/ refresh'[x] = refresh[x]
           \/ refresh'[x].pc \in {"idle", "due"}
           \/ /\ Rotating(x) /\ refresh[x].pc # "rotated" /\ refresh'[x].pc \in {"cleanup", "owned"}
              /\ refresh'[x].prev = refresh[x].prev /\ refresh'[x].next = refresh[x].next
    PROVE  HeldSocket(x)'
<1>1. Live(x)' => \A t \in Token : InHand(t)' => sock'[x].tok <= t
  BY DEF HeldSocket, Live, Fewer
<1>2. refresh[x].prev \in TokenOrNone
  BY DEF Base, TypeOK, RefreshRecord
<1>3. Rotating(x)' => /\ Rotating(x) /\ sock'[x].tok = sock[x].tok
                      /\ refresh'[x].prev = refresh[x].prev /\ refresh'[x].next = refresh[x].next
                      /\ refresh'[x].pc = "rotated" <=> refresh[x].pc = "rotated"
                      /\ refresh'[x].pc = "graced" => refresh[x].pc = "graced"
  BY DEF Rotating, Live, Admitted
<1>4. Rotating(x)' =>
        /\ refresh'[x].prev = sock'[x].tok
        /\ display'.jwtToken = IF refresh'[x].pc = "rotated" THEN refresh'[x].next
                                                             ELSE refresh'[x].prev
  BY <1>3 DEF HeldSocket
<1>5. refresh'[x].pc = "graced" =>
        \/ refresh'[x].prev <= expTo'
        \/ grace' = [prev |-> refresh'[x].prev, next |-> refresh'[x].next, exp |-> refresh'[x].prev]
  <2>1. refresh[x].pc = "graced" =>
          \/ Expired(refresh[x].prev)
          \/ grace = [prev |-> refresh[x].prev, next |-> refresh[x].next, exp |-> refresh[x].prev]
    BY DEF HeldSocket
  <2>2. refresh[x].pc = "graced" =>
          \/ refresh[x].prev <= expTo'
          \/ grace' = [prev |-> refresh[x].prev, next |-> refresh[x].next, exp |-> refresh[x].prev]
    BY <1>2, <2>1 DEF Expired
  <2>3. refresh'[x].pc = "graced" => Rotating(x)'
    BY DEF Rotating
  <2> QED
    BY <1>3, <2>2, <2>3
<1> QED
  BY <1>1, <1>4, <1>5 DEF HeldSocket, Live, Expired

LEMMA FreshStays ==
    ASSUME NEW x \in Socket, Fresh(x), cooldown' = cooldown,
           display'.jwtToken = display.jwtToken,
           refresh'[x].pc = "due" \/ sock'[x].st \in {"accepted", "grace"} =>
              \/ sock'[x].hash = display.jwtToken
              \/ /\ refresh[x].pc = "due" \/ sock[x].st \in {"accepted", "grace"}
                 /\ sock'[x].hash = sock[x].hash,
           check'[x].pc = "read" => \/ check'[x] = check[x]
                                    \/ check'[x].seen \in {NoToken, display.jwtToken}
    PROVE  Fresh(x)'
  BY DEF Fresh

(* A step that changes no store and lets nobody in.                          *)
LEMMA UnlostStays ==
    ASSUME Base, Unlost, UNCHANGED <<root, current, past>>, Fewer,
           display'.jwtToken = display.jwtToken,
           \A t \in TokenOrNone : Expired(t) => Expired(t)',
           grace' = grace \/ Expired(grace.exp),
           client'.token = NoToken => client'.conn = None,
           client'.conn = None => inbox' = <<>>,
           \A x \in Socket : Live(x)' => Live(x) /\ sock'[x].tok = sock[x].tok,
           \A x \in Socket :
              \/ refresh'[x] = refresh[x]
              \/ refresh'[x].pc \in {"idle", "due"}
              \/ /\ Rotating(x) /\ refresh[x].pc # "rotated" /\ refresh'[x].pc \in {"cleanup", "owned"}
                 /\ refresh'[x].prev = refresh[x].prev /\ refresh'[x].next = refresh[x].next,
           Unbroken => \A x \in Socket : Fresh(x)'
    PROVE  Unlost'
<1>1. FirstLine'
  <2>1. FirstLine
    BY DEF Unlost
  <2> QED
    BY <2>1, FirstLineStays DEF Fewer
<1>2. ASSUME Unbroken' PROVE Held' /\ \A x \in Socket : HeldSocket(x)' /\ Fresh(x)'
  <2>1. Unbroken /\ Held /\ \A x \in Socket : HeldSocket(x)
    BY <1>2 DEF Unbroken, Unlost
  <2>2. Held'
    BY <2>1, HeldStays
  <2>3. ASSUME NEW x \in Socket PROVE HeldSocket(x)'
    BY <2>1, HeldSocketStays
  <2> QED
    BY <2>1, <2>2, <2>3
<1> QED
  BY <1>1, <1>2 DEF Unlost

(* The handshake: whom it lets in it knows by the stored hash it read.       *)
LEMMA HandshakeUnlost ==
    ASSUME Base, Unlost, NEW s \in Socket, Handshake(s) PROVE Unlost'
<1> USE InUseParts, NotTokens DEF Base, tokenVars, timeVars, storeVars, deviceVars
<1>1. UNCHANGED <<root, current, past, grace, display, cooldown, expTo, client, check>>
  BY DEF Handshake, HandshakeRow, HandshakeGrace, HandleConnection,
         HandleUnverifiedConnection, HandleDisconnect
<1>2. FirstLine /\ (Unbroken => \A x \in Socket : Fresh(x))
  BY DEF Unlost
<1>3. ASSUME Fewer, client'.conn = None => inbox' = <<>>,
             \A x \in Socket : Live(x)' => Live(x) /\ sock'[x].tok = sock[x].tok,
             \A x \in Socket : refresh'[x] = refresh[x] \/ refresh'[x].pc = "due",
             \A x \in Socket :
                refresh'[x].pc = "due" \/ sock'[x].st \in {"accepted", "grace"} =>
                   \/ sock'[x].hash = display.jwtToken
                   \/ /\ refresh[x].pc = "due" \/ sock[x].st \in {"accepted", "grace"}
                      /\ sock'[x].hash = sock[x].hash
      PROVE  Unlost'
  <2>1. Unbroken => \A x \in Socket : Fresh(x)'
    BY <1>1, <1>2, <1>3, FreshStays
  <2>2. client'.token = NoToken => client'.conn = None
    BY <1>1, <1>2 DEF FirstLine
  <2>3. \A t \in TokenOrNone : Expired(t) => Expired(t)'
    BY <1>1 DEF Expired
  <2> QED
    BY <1>1, <1>3, <2>1, <2>2, <2>3, UnlostStays
<1>4. ASSUME NEW m, m \notin Token, Reject(s, m), Entering(s), UNCHANGED refresh PROVE Unlost'
  <2>1. (\A x \in Socket : x # s => sock'[x] = sock[x]) /\ sock'[s].st = "closed"
    BY <1>4, RejectSet
  <2>2. Fewer /\ (client'.conn = None => inbox' = <<>>)
    BY <1>1, <1>2, <1>4, SendFewer, SendConnected DEF Reject
  <2>3. refresh'[s].pc = "idle"
    BY <1>4 DEF SocketInUse
  <2>4. ASSUME NEW x \in Socket
        PROVE  /\ Live(x)' => Live(x) /\ sock'[x].tok = sock[x].tok
               /\ refresh'[x].pc = "due" \/ sock'[x].st \in {"accepted", "grace"} =>
                     /\ refresh[x].pc = "due" \/ sock[x].st \in {"accepted", "grace"}
                     /\ sock'[x].hash = sock[x].hash
    BY <1>4, <2>1, <2>3 DEF Live, Entering, Admitted
  <2> QED
    BY <1>3, <1>4, <2>2, <2>4
<1>5. ASSUME UNCHANGED <<refresh, inbox>>, sock[s].st # "closed",
             \A x \in Socket : x # s => sock'[x] = sock[x], sock'[s].tok = sock[s].tok,
             sock'[s].st \in {"accepted", "grace"} => sock'[s].hash = display.jwtToken
                  \/ (sock[s].st \in {"accepted", "grace"} /\ sock'[s].hash = sock[s].hash),
             refresh'[s].pc = "due" => sock'[s].hash = sock[s].hash
      PROVE  Unlost'
  <2>1. Fewer /\ (client'.conn = None => inbox' = <<>>)
    BY <1>1, <1>2, <1>5 DEF Fewer, InHand, FirstLine
  <2>2. \A x \in Socket : sock[x].st \in {"closed", "row", "grace", "accepted", "pass", "open"}
    BY DEF TypeOK, SocketRecord
  <2>3. \A x \in Socket : Live(x)' => Live(x) /\ sock'[x].tok = sock[x].tok
    BY <1>5, <2>2 DEF Live, Entering, Admitted
  <2> QED
    BY <1>3, <1>5, <2>1, <2>3
<1>6. ASSUME NEW h, Register(s, h), Entering(s),
             h = display.jwtToken \/ (sock[s].st = "accepted" /\ h = sock[s].hash)
      PROVE  Unlost'
  <2>1. /\ \A x \in Socket : /\ sock'[x].tok = sock[x].tok
                             /\ x # s => sock'[x].hash = sock[x].hash /\ refresh'[x] = refresh[x]
                             /\ x # s => sock'[x].st \in {sock[x].st, "closed"}
        /\ sock'[s].hash = h /\ refresh'[s].pc = "due"
    BY <1>6, RegisterSet
  <2>2. (deviceSockets \in Socket /\ SendTo(deviceSockets, Closed)) \/ UNCHANGED inbox
    BY <1>6 DEF Register, TypeOK
  <2>3. Fewer /\ (client'.conn = None => inbox' = <<>>)
    <3>1. CASE UNCHANGED inbox
      BY <1>1, <1>2, <3>1 DEF Fewer, InHand, FirstLine
    <3> QED
      BY <1>1, <1>2, <2>2, <3>1, SendFewer, SendConnected
  <2>4. ASSUME NEW x \in Socket PROVE Live(x)' => Live(x) /\ sock'[x].tok = sock[x].tok
    BY <1>6, <2>1 DEF Live, Entering, Admitted
  <2> QED
    BY <1>3, <1>6, <2>1, <2>3, <2>4
<1>7. sock \in [Socket -> SocketRecord]
  BY DEF TypeOK
<1>8. CASE HandshakeRow(s)
  <2>1. Entering(s) /\ sock[s].st = "row" /\ UNCHANGED refresh /\ refresh[s].pc = "idle"
        /\ sock[s].tok # NoToken
    BY <1>8 DEF HandshakeRow, Entering, SocketInUse, Issued, NoToken
  <2>2. Stored = NoToken \/ Stored = display.jwtToken
    BY DEF Stored
  <2>3. \/ \E m \in {Closed, Terminal} : Reject(s, m)
        \/ \E st \in {"accepted", "grace"} :
              /\ Stored = display.jwtToken
              /\ sock' = [sock EXCEPT ![s].st = st, ![s].hash = Stored] /\ UNCHANGED inbox
        \/ sock' = [sock EXCEPT ![s].st = "pass"] /\ UNCHANGED inbox
    BY <1>8, <2>1, <2>2 DEF HandshakeRow, AcceptOrSuspend, PassUnverified
  <2>4. ASSUME NEW st \in {"accepted", "grace"}, Stored = display.jwtToken,
               sock' = [sock EXCEPT ![s].st = st, ![s].hash = Stored], UNCHANGED inbox
        PROVE  Unlost'
    <3>1. /\ \A x \in Socket : x # s => sock'[x] = sock[x]
          /\ sock'[s].hash = Stored /\ sock'[s].tok = sock[s].tok
      BY <1>7, <2>4 DEF SocketRecord
    <3> QED
      BY <1>5, <2>1, <2>4, <3>1
  <2>5. CASE sock' = [sock EXCEPT ![s].st = "pass"] /\ UNCHANGED inbox
    <3>1. /\ \A x \in Socket : x # s => sock'[x] = sock[x]
          /\ sock'[s].st = "pass" /\ sock'[s].hash = sock[s].hash /\ sock'[s].tok = sock[s].tok
      BY <1>7, <2>5 DEF SocketRecord
    <3> QED
      BY <1>5, <2>1, <2>5, <3>1
  <2> QED
    BY <1>4, <2>1, <2>3, <2>4, <2>5
<1>9. CASE HandshakeGrace(s)
  <2>1. Entering(s) /\ sock[s].st = "grace" /\ UNCHANGED refresh /\ refresh[s].pc = "idle"
    BY <1>9 DEF HandshakeGrace, Entering, SocketInUse
  <2>2. \/ \E m \in {Closed, Terminal} : Reject(s, m)
        \/ /\ sock' = [sock EXCEPT ![s].st = "accepted", ![s].hash = sock[s].hash]
           /\ UNCHANGED inbox
    BY <1>9 DEF HandshakeGrace, AcceptOrSuspend
  <2>3. CASE /\ sock' = [sock EXCEPT ![s].st = "accepted", ![s].hash = sock[s].hash]
             /\ UNCHANGED inbox
    <3>1. /\ \A x \in Socket : x # s => sock'[x] = sock[x]
          /\ sock'[s].hash = sock[s].hash /\ sock'[s].tok = sock[s].tok
      BY <1>7, <2>3 DEF SocketRecord
    <3> QED
      BY <1>5, <2>1, <2>3, <3>1
  <2> QED
    BY <1>4, <2>1, <2>2, <2>3
<1>10. CASE HandleConnection(s)
  <2>1. Entering(s) /\ sock[s].st = "accepted" /\ Register(s, sock[s].hash)
    BY <1>10 DEF HandleConnection, Entering
  <2> QED
    BY <1>6, <2>1
<1>11. CASE HandleUnverifiedConnection(s)
  <2>1. Entering(s) /\ sock[s].tok # NoToken
    BY <1>11 DEF HandleUnverifiedConnection, Entering, SocketInUse, Issued, NoToken
  <2>2. \/ Register(s, sock[s].tok) /\ Stored = sock[s].tok
        \/ UNCHANGED refresh /\ \E m \in {Closed, Terminal} : Reject(s, m)
    BY <1>11 DEF HandleUnverifiedConnection
  <2>3. Stored = sock[s].tok => sock[s].tok = display.jwtToken
    BY <2>1 DEF Stored
  <2> QED
    BY <1>4, <1>6, <2>1, <2>2, <2>3
<1>12. CASE HandleDisconnect(s)
  <2>1. /\ sock' = [sock EXCEPT ![s].st = "closed"] /\ UNCHANGED <<refresh, inbox>>
        /\ sock[s].st = "open"
    BY <1>12 DEF HandleDisconnect
  <2>2. /\ \A x \in Socket : x # s => sock'[x] = sock[x]
        /\ sock'[s].st = "closed" /\ sock'[s].hash = sock[s].hash /\ sock'[s].tok = sock[s].tok
    BY <1>7, <2>1 DEF SocketRecord
  <2> QED
    BY <1>5, <2>1, <2>2
<1> QED
  BY <1>8, <1>9, <1>10, <1>11, <1>12 DEF Handshake

(* The checks: what they read is the stored hash, or nothing.                *)
LEMMA ChecksUnlost ==
    ASSUME Base, Unlost, NEW s \in Socket, Checks(s) PROVE Unlost'
<1> USE InUseParts, NotTokens DEF Base, tokenVars, timeVars, storeVars, deviceVars
<1>1. UNCHANGED <<root, current, past, grace, display, cooldown, expTo, client>>
  BY DEF Checks, CheckRead, CheckDecide, Heartbeat
<1>2. FirstLine /\ (Unbroken => \A x \in Socket : Fresh(x))
  BY DEF Unlost
<1>3. /\ client'.token = NoToken => client'.conn = None
      /\ \A t \in TokenOrNone : Expired(t) => Expired(t)'
  BY <1>1, <1>2 DEF FirstLine, Expired
<1>4. ASSUME UNCHANGED <<inbox, refresh>>,
             \A x \in Socket : /\ sock'[x].tok = sock[x].tok /\ sock'[x].hash = sock[x].hash
                               /\ sock'[x].st = sock[x].st,
             \A x \in Socket : \/ check'[x] = check[x] \/ check'[x].pc = "idle"
                               \/ check'[x].seen \in {NoToken, display.jwtToken}
      PROVE  Unlost'
  <2>1. Fewer /\ (client'.conn = None => inbox' = <<>>)
    BY <1>1, <1>2, <1>4 DEF Fewer, InHand, FirstLine
  <2>2. Unbroken => \A x \in Socket : Fresh(x)'
    BY <1>1, <1>2, <1>4, FreshStays
  <2>3. \A x \in Socket : Live(x)' => Live(x) /\ sock'[x].tok = sock[x].tok
    BY <1>4 DEF Live, Entering, Admitted
  <2> QED
    BY <1>1, <1>3, <1>4, <2>1, <2>2, <2>3, UnlostStays
<1>5. check \in [Socket -> CheckRecord] /\ NoCheck.pc = "idle" /\ DueRefresh.pc = "due"
  BY DEF TypeOK, NoCheck, DueRefresh, NoRefresh
<1>6. CASE CheckRead(s)
  <2>1. UNCHANGED <<inbox, refresh, sock>>
        /\ check' = [check EXCEPT ![s] = [pc |-> "read", seen |-> Stored]]
    BY <1>6 DEF CheckRead
  <2>2. Stored \in {NoToken, display.jwtToken}
    BY DEF Stored
  <2>3. \A x \in Socket : check'[x] = check[x] \/ check'[x].seen \in {NoToken, display.jwtToken}
    BY <1>5, <2>1, <2>2
  <2> QED
    BY <1>4, <2>1, <2>3
<1>7. CASE CheckDecide(s)
  <2>1. /\ check' = [check EXCEPT ![s] = NoCheck] /\ UNCHANGED refresh
        /\ \/ UNCHANGED <<sock, inbox>>
           \/ sock' = [sock EXCEPT ![s].st = "closed"] /\ SendTo(s, Terminal)
    BY <1>7 DEF CheckDecide
  <2>2. \A x \in Socket : check'[x] = check[x] \/ check'[x].pc = "idle"
    BY <1>5, <2>1
  <2>3. CASE UNCHANGED <<sock, inbox>>
    BY <1>4, <2>1, <2>2, <2>3
  <2>4. CASE sock' = [sock EXCEPT ![s].st = "closed"] /\ SendTo(s, Terminal)
    <3>1. /\ \A x \in Socket : sock'[x].tok = sock[x].tok /\ sock'[x].hash = sock[x].hash
          /\ \A x \in Socket : x # s => sock'[x].st = sock[x].st
          /\ sock'[s].st = "closed" /\ sock[s].st \in
                {"closed", "row", "grace", "accepted", "pass", "open"}
      BY <2>4, StSet DEF SocketRecord
    <3>2. Fewer /\ (client'.conn = None => inbox' = <<>>)
      BY <1>1, <1>2, <2>4, SendFewer, SendConnected
    <3>3. Unbroken => \A x \in Socket : Fresh(x)'
      BY <1>1, <1>2, <2>1, <2>2, <3>1, FreshStays
    <3>4. \A x \in Socket : Live(x)' => Live(x) /\ sock'[x].tok = sock[x].tok
      BY <2>1, <3>1 DEF Live, Entering, Admitted
    <3> QED
      BY <1>1, <1>3, <2>1, <3>2, <3>3, <3>4, UnlostStays
  <2> QED
    BY <2>1, <2>3, <2>4
<1>8. CASE Heartbeat(s)
  <2>1. /\ UNCHANGED sock \/ sock' = [sock EXCEPT ![s].issued = TRUE]
        /\ \/ UNCHANGED refresh
           \/ refresh[s].pc = "idle" /\ refresh' = [refresh EXCEPT ![s] = DueRefresh]
        /\ check' = [check EXCEPT ![s] = NoCheck] /\ UNCHANGED <<inbox, deviceSockets>>
        /\ deviceSockets = s /\ check[s].pc = "read" /\ CheckPasses(s)
    BY <1>8, Zenon DEF Heartbeat
  <2>2. \A x \in Socket : /\ sock'[x].tok = sock[x].tok /\ sock'[x].hash = sock[x].hash
                           /\ sock'[x].st = sock[x].st
    BY <2>1, IssuedSet
  <2>3. \A x \in Socket : check'[x] = check[x] \/ check'[x].pc = "idle"
    BY <1>5, <2>1
  <2>4. CASE UNCHANGED refresh
    BY <1>4, <2>1, <2>2, <2>3, <2>4
  <2>5. CASE refresh' = [refresh EXCEPT ![s] = DueRefresh]
    <3>1. sock[s].st = "open"
      BY <2>1, DeviceTokenAssumption DEF EntryIsOpen
    <3>2. \A x \in Socket : refresh'[x] = refresh[x] \/ (x = s /\ refresh'[x].pc = "due")
      BY <1>5, <2>5
    <3>3. Fewer /\ (client'.conn = None => inbox' = <<>>)
      BY <1>1, <1>2, <2>1 DEF Fewer, InHand, FirstLine
    <3>4. ASSUME Unbroken, NEW x \in Socket PROVE Fresh(x)'
      <4>1. Fresh(x) /\ Fresh(s) /\ sock[s].hash = check[s].seen /\ check[s].seen # NoToken
        BY <1>2, <2>1, <3>4 DEF CheckPasses
      <4>2. ~cooldown => sock[s].hash = display.jwtToken
        BY <2>1, <4>1 DEF Fresh
      <4> QED
        BY <1>1, <2>2, <2>3, <3>2, <4>1, <4>2 DEF Fresh
    <3>5. \A x \in Socket : Live(x)' => Live(x) /\ sock'[x].tok = sock[x].tok
      BY <2>2, <3>1, <3>2 DEF Live, Entering, Admitted
    <3> QED
      BY <1>1, <1>3, <3>2, <3>3, <3>4, <3>5, UnlostStays
  <2> QED
    BY <2>1, <2>4, <2>5
<1> QED
  BY <1>6, <1>7, <1>8 DEF Checks

(* The refreshes: before the hash is rotated, what the device holds is that  *)
(* hash, and after it, the grace record's.                                   *)
LEMMA RefreshesUnlost ==
    ASSUME Base, RotationsApart, InOrder, Unlost, NEW s \in Socket, Refreshes(s) PROVE Unlost'
<1> USE InUseParts, NotTokens DEF Base, tokenVars, timeVars, storeVars, deviceVars
<1>1. UNCHANGED <<current, expTo, client, check>> /\ refresh[s].pc # "idle"
  BY DEF Refreshes, RefreshClaim, RefreshNotClaimed, RefreshSkip, RefreshPublishGrace,
         RefreshRotate, RefreshEmit, DeleteOwnedGraceGet, DeleteOwnedGraceDelete
<1>2. /\ FirstLine
      /\ Unbroken => Held /\ \A x \in Socket : HeldSocket(x) /\ Fresh(x)
  BY DEF Unlost
<1>3. /\ client'.token = NoToken => client'.conn = None
      /\ \A t \in TokenOrNone : Expired(t) => Expired(t)'
  BY <1>1, <1>2 DEF FirstLine, Expired
<1>4. UNCHANGED inbox => /\ Fewer /\ (client'.conn = None => inbox' = <<>>)
                         /\ \A t \in Token : InHand(t)' <=> InHand(t)
  BY <1>1, <1>2 DEF Fewer, InHand, FirstLine
<1>5. ASSUME \A x \in Socket : sock'[x].tok = sock[x].tok /\ sock'[x].st = sock[x].st,
             \A x \in Socket : x # s => refresh'[x] = refresh[x]
      PROVE  \A x \in Socket : Live(x)' => Live(x) /\ sock'[x].tok = sock[x].tok
  BY <1>1, <1>5 DEF Live, Entering, Admitted
<1>6. ASSUME UNCHANGED <<root, past, grace, display, cooldown, inbox>>,
             \A x \in Socket : /\ sock'[x].tok = sock[x].tok /\ sock'[x].hash = sock[x].hash
                               /\ sock'[x].st = sock[x].st,
             \/ refresh' = [refresh EXCEPT ![s] = NoRefresh]
             \/ /\ Rotating(s) /\ refresh[s].pc # "rotated"
                /\ \E pc \in {"cleanup", "owned"} : refresh' = [refresh EXCEPT ![s].pc = pc]
      PROVE  Unlost'
  <2>1. /\ \A x \in Socket : x # s => refresh'[x] = refresh[x]
        /\ \/ refresh'[s].pc = "idle"
           \/ /\ Rotating(s) /\ refresh[s].pc # "rotated" /\ refresh'[s].pc \in {"cleanup", "owned"}
              /\ refresh'[s].prev = refresh[s].prev /\ refresh'[s].next = refresh[s].next
    BY <1>6 DEF NoRefresh, RefreshRecord
  <2>2. \A x \in Socket : refresh'[x].pc = "due" => refresh[x].pc = "due"
    BY <2>1
  <2>3. Unbroken => \A x \in Socket : Fresh(x)'
    BY <1>1, <1>2, <1>6, <2>2, FreshStays
  <2> QED
    BY <1>1, <1>3, <1>4, <1>5, <1>6, <2>1, <2>3, UnlostStays
<1>7. CASE RefreshClaim(s)
  <2>1. /\ UNCHANGED <<display, grace, sock, inbox>> /\ refresh[s].pc = "due"
        /\ ~cooldown /\ cooldown' = TRUE /\ Sign(root[sock[s].hash])
        /\ refresh' = [refresh EXCEPT ![s] =
                         [pc |-> "minted", prev |-> sock[s].hash, next |-> minted + 1]]
        /\ past' = [past EXCEPT !.blind = @ \/ sock[s].tok # sock[s].hash]
    BY <1>7 DEF RefreshClaim, Claims
  <2>2. /\ \A x \in Socket : x # s => refresh'[x] = refresh[x]
        /\ refresh'[s].pc = "minted" /\ refresh'[s].prev = sock[s].hash
    BY <2>1
  <2>3. \A t \in Issued : root'[t] = root[t]
    BY <2>1, SignedRoots
  <2>4. \A x \in Socket : Live(x)' => Live(x) /\ sock'[x].tok = sock[x].tok
    BY <1>5, <2>1, <2>2
  <2>5. FirstLine'
    BY <1>2, <1>3, <1>4, <2>1, <2>3, <2>4, FirstLineStays
  <2>6. ASSUME Unbroken'
        PROVE  Held' /\ \A x \in Socket : HeldSocket(x)' /\ Fresh(x)'
    <3>1. Unbroken /\ sock[s].tok = sock[s].hash
      BY <1>1, <2>1, <2>6 DEF Unbroken, TypeOK
    <3>2. Held'
      BY <1>2, <1>3, <1>4, <2>1, <3>1, HeldStays
    <3>3. ASSUME NEW x \in Socket, x # s PROVE HeldSocket(x)'
      BY <1>2, <1>3, <1>4, <2>1, <2>2, <2>4, <3>1, <3>3, HeldSocketStays
    <3>4. sock[s].hash = display.jwtToken
      BY <1>2, <2>1, <3>1 DEF Fresh
    <3>5. HeldSocket(s)'
      BY <1>2, <1>4, <2>1, <2>2, <3>1, <3>4 DEF HeldSocket, Rotating, Entering, Admitted
    <3>6. \A x \in Socket : Fresh(x)'
      BY <2>1 DEF Fresh
    <3> QED
      BY <3>2, <3>3, <3>5, <3>6
  <2> QED
    BY <2>5, <2>6 DEF Unlost
<1>8. CASE RefreshSkip(s)
  <2>1. UNCHANGED <<root, past, grace, display, cooldown, inbox, sock>>
        /\ refresh' = [refresh EXCEPT ![s] = NoRefresh]
    BY <1>8 DEF RefreshSkip
  <2> QED
    BY <1>6, <2>1
<1>9. CASE RefreshNotClaimed(s)
  <2>1. UNCHANGED <<root, past, grace, display, cooldown, inbox>>
        /\ sock' = [sock EXCEPT ![s].issued = TRUE]
        /\ refresh' = [refresh EXCEPT ![s] = NoRefresh]
    BY <1>9 DEF RefreshNotClaimed
  <2> QED
    BY <1>6, <2>1, IssuedSet
(* From here on the refresh rotates: it is the only one, under the cooldown, *)
(* and before its commit all that is in hand is the stored hash.             *)
<1>10. ASSUME Rotating(s), UNCHANGED cooldown
       PROVE  /\ \A x \in Socket : Fresh(x)'
              /\ \A x \in Socket : x # s => ~Rotating(x)
              /\ Live(s) /\ refresh[s].prev < refresh[s].next
  BY <1>1, <1>10 DEF RotationsApart, OneRotationAtATime, Fresh, Live, Admitted
<1>11. ASSUME Rotating(s), Unbroken, refresh[s].pc # "rotated"
       PROVE  /\ refresh[s].prev = sock[s].tok /\ refresh[s].prev = display.jwtToken
              /\ \A t \in Token : InHand(t) => t = display.jwtToken
  <2>1. HeldSocket(s) /\ Held /\ Live(s)
    BY <1>1, <1>2, <1>11 DEF Live, Admitted
  <2>2. refresh[s].prev = sock[s].tok /\ refresh[s].prev = display.jwtToken
    BY <1>11, <2>1 DEF HeldSocket
  <2>3. display.jwtToken \in Nat /\ Token \subseteq Nat
    BY DEF TypeOK, Token
  <2>4. ASSUME NEW t \in Token, InHand(t) PROVE t = display.jwtToken
    <3>1. sock[s].tok <= t
      BY <2>1, <2>4 DEF HeldSocket, Live
    <3>2. t <= display.jwtToken
      BY <2>4 DEF InOrder
    <3> QED
      BY <2>2, <2>3, <3>1, <3>2
  <2> QED
    BY <2>2, <2>4
<1>12. ASSUME Rotating(s), UNCHANGED <<inbox, sock, past>>, Unbroken, NEW x \in Socket, x # s,
              refresh'[x] = refresh[x]
       PROVE  UNCHANGED cooldown => HeldSocket(x)'
  BY <1>1, <1>2, <1>4, <1>10, <1>12 DEF HeldSocket, Rotating, Entering, Admitted
<1>13. CASE RefreshPublishGrace(s)
  <2>1. /\ UNCHANGED <<root, past, display, cooldown, inbox, sock>> /\ refresh[s].pc = "minted"
        /\ \/ refresh' = [refresh EXCEPT ![s] = NoRefresh] /\ UNCHANGED grace
           \/ /\ grace' = [prev |-> refresh[s].prev, next |-> refresh[s].next, exp |-> sock[s].tok]
              /\ refresh' = [refresh EXCEPT ![s].pc = "graced"]
    BY <1>13 DEF RefreshPublishGrace
  <2>2. CASE refresh' = [refresh EXCEPT ![s] = NoRefresh] /\ UNCHANGED grace
    BY <1>6, <2>1, <2>2
  <2>3. CASE /\ grace' = [prev |-> refresh[s].prev, next |-> refresh[s].next, exp |-> sock[s].tok]
             /\ refresh' = [refresh EXCEPT ![s].pc = "graced"]
    <3>1. Rotating(s)
      BY <2>1 DEF Rotating
    <3>2. /\ \A x \in Socket : x # s => refresh'[x] = refresh[x]
          /\ refresh'[s].pc = "graced" /\ refresh'[s].prev = refresh[s].prev
          /\ refresh'[s].next = refresh[s].next
      BY <2>3 DEF RefreshRecord
    <3>3. FirstLine'
      BY <1>2, <1>3, <1>4, <1>5, <2>1, <3>2, FirstLineStays
    <3>4. ASSUME Unbroken' PROVE Held' /\ \A x \in Socket : HeldSocket(x)'
      <4>1. Unbroken
        BY <1>1, <2>1, <3>4 DEF Unbroken
      <4>2. /\ refresh[s].prev = sock[s].tok /\ refresh[s].prev = display.jwtToken
            /\ \A t \in Token : InHand(t) => t = display.jwtToken
        BY <1>11, <2>1, <3>1, <4>1
      <4>3. Held'
        BY <1>2, <1>4, <2>1, <4>1, <4>2 DEF Held, Usable
      <4>4. HeldSocket(s)'
        BY <1>2, <1>4, <1>10, <2>1, <2>3, <3>1, <3>2, <4>1, <4>2
        DEF HeldSocket, Rotating, Live, Entering, Admitted
      <4> QED
        BY <1>12, <2>1, <3>1, <3>2, <4>1, <4>3, <4>4
    <3> QED
      BY <1>10, <2>1, <3>1, <3>3, <3>4 DEF Unlost
  <2> QED
    BY <2>1, <2>2, <2>3
<1>14. CASE RefreshRotate(s)
  <2>1. /\ UNCHANGED <<root, grace, cooldown, inbox, sock>> /\ refresh[s].pc = "graced"
        /\ \/ /\ refresh' = [refresh EXCEPT ![s].pc = "cleanup"] /\ UNCHANGED <<display, past>>
           \/ /\ refresh' = [refresh EXCEPT ![s].pc = "rotated"]
              /\ display' = [display EXCEPT !.jwtToken = refresh[s].next] /\ UNCHANGED past
           \/ /\ refresh' = [refresh EXCEPT ![s].pc = "cleanup"]
              /\ past' = [past EXCEPT !.torn = TRUE]
    BY <1>14 DEF RefreshRotate
  <2>2. Rotating(s)
    BY <2>1 DEF Rotating
  <2>3. \A x \in Socket : x # s => refresh'[x] = refresh[x]
    BY <2>1
  <2>4. FirstLine'
    BY <1>2, <1>3, <1>4, <1>5, <2>1, <2>3, FirstLineStays
  <2>5. CASE refresh' = [refresh EXCEPT ![s].pc = "cleanup"] /\ UNCHANGED <<display, past>>
    BY <1>6, <2>1, <2>2, <2>5
  <2>6. CASE /\ refresh' = [refresh EXCEPT ![s].pc = "rotated"]
             /\ display' = [display EXCEPT !.jwtToken = refresh[s].next] /\ UNCHANGED past
    <3>1. /\ refresh'[s].pc = "rotated" /\ refresh'[s].prev = refresh[s].prev
          /\ refresh'[s].next = refresh[s].next
      BY <2>6 DEF RefreshRecord
    <3>2. display'.jwtToken = refresh[s].next
      BY <2>6 DEF TypeOK
    <3>3. ASSUME Unbroken' PROVE Held' /\ \A x \in Socket : HeldSocket(x)'
      <4>1. Unbroken
        BY <1>1, <2>6, <3>3 DEF Unbroken
      <4>2. /\ refresh[s].prev = sock[s].tok /\ refresh[s].prev = display.jwtToken
            /\ \A t \in Token : InHand(t) => t = display.jwtToken
        BY <1>11, <2>1, <2>2, <4>1
      <4>3. refresh[s].prev <= refresh[s].next
        BY <1>10, <2>1, <2>2 DEF RefreshRecord, TokenOrNone
      <4>4. \/ Expired(refresh[s].prev)
            \/ grace = [prev |-> refresh[s].prev, next |-> refresh[s].next,
                        exp |-> refresh[s].prev]
        BY <1>2, <2>1, <4>1 DEF HeldSocket
      <4>5. Held'
        BY <1>1, <1>4, <2>1, <3>2, <4>2, <4>3, <4>4 DEF Held, Usable, Expired
      <4>6. HeldSocket(s)'
        BY <1>2, <1>4, <1>10, <2>1, <2>2, <3>1, <3>2, <4>1, <4>2
        DEF HeldSocket, Rotating, Live, Entering, Admitted
      <4> QED
        BY <1>12, <2>1, <2>2, <2>3, <2>6, <4>1, <4>5, <4>6
    <3> QED
      BY <1>10, <2>1, <2>2, <2>4, <3>3 DEF Unlost
  <2>7. CASE past' = [past EXCEPT !.torn = TRUE]
    <3>1. ~Unbroken'
      BY <2>7 DEF Unbroken, TypeOK
    <3> QED
      BY <2>4, <3>1 DEF Unlost
  <2> QED
    BY <2>1, <2>5, <2>6, <2>7
<1>15. CASE RefreshEmit(s)
  <2>1. /\ sock' = [sock EXCEPT ![s].hash = refresh[s].next, ![s].issued = TRUE]
        /\ refresh' = [refresh EXCEPT ![s] = NoRefresh] /\ refresh[s].pc = "rotated"
        /\ UNCHANGED <<root, display, grace, cooldown, past>>
        /\ SendTo(s, refresh[s].next) \/ UNCHANGED inbox
    BY <1>15 DEF RefreshEmit
  <2>2. /\ \A x \in Socket : sock'[x].tok = sock[x].tok /\ sock'[x].st = sock[x].st
        /\ \A x \in Socket : x # s => refresh'[x] = refresh[x]
        /\ refresh'[s].pc = "idle" /\ Rotating(s)
    BY <2>1, HashIssuedSet DEF NoRefresh, Rotating
  <2>3. /\ client'.conn = None => inbox' = <<>>
        /\ \A t \in Token : InHand(t)' => \/ InHand(t)
                                          \/ t = refresh[s].next /\ client.conn = s
    <3>1. CASE SendTo(s, refresh[s].next)
      <4>1. client'.conn = None => inbox' = <<>>
        BY <1>1, <1>2, <3>1, SendConnected
      <4>2. CASE client.conn # s
        BY <1>1, <4>1, <3>1, <4>2 DEF SendTo, InHand
      <4>3. CASE client.conn = s
        <5>1. inbox' = Append(inbox, refresh[s].next) /\ inbox \in Seq(Message)
          BY <3>1, <4>3 DEF SendTo
        <5>2. \A i \in DOMAIN inbox' : \/ i \in DOMAIN inbox /\ inbox'[i] = inbox[i]
                                       \/ inbox'[i] = refresh[s].next
          BY <5>1
        <5> QED
          BY <1>1, <4>1, <4>3, <5>2 DEF InHand
      <4> QED
        BY <4>1, <4>2, <4>3
    <3>2. CASE UNCHANGED inbox
      BY <1>4, <3>2
    <3> QED
      BY <2>1, <3>1, <3>2
  <2>4. refresh[s].next \in Issued /\ root[refresh[s].next] = 1
    <3>1. SocketLineage(s) /\ Admitted(s) /\ SocketInUse(s)
      BY <1>1 DEF Lineage, Admitted
    <3> QED
      BY <1>2, <2>2, <3>1 DEF SocketLineage, SocketInUse, FirstLine
  <2>5. \A x \in Socket : Live(x)' => Live(x) /\ sock'[x].tok = sock[x].tok
    BY <1>5, <2>2
  <2>6. FirstLine'
    BY <1>2, <1>3, <2>1, <2>3, <2>4, <2>5, FirstLineStays
  <2>7. ASSUME Unbroken' PROVE Held' /\ \A x \in Socket : HeldSocket(x)'
    <3>1. Unbroken /\ HeldSocket(s) /\ Held
      BY <1>1, <1>2, <2>1, <2>7 DEF Unbroken
    <3>2. refresh[s].next = display.jwtToken /\ display.jwtToken \in Nat
      BY <2>1, <2>2, <3>1 DEF HeldSocket, TypeOK, Token
    <3>3. Held'
      BY <1>1, <2>1, <2>3, <3>1, <3>2 DEF Held, Usable, Expired
    <3>4. client.conn = s => client.token \in Token /\ InHand(client.token)
      BY <1>2, DeviceTokenAssumption DEF FirstLine, InHand, TypeOK, Token, TokenOrNone, NoToken
    <3>5. ASSUME NEW x \in Socket, Live(x)', NEW t \in Token, InHand(t)'
          PROVE  sock'[x].tok <= t
      <4>1. HeldSocket(x) /\ Live(x) /\ sock'[x].tok = sock[x].tok
        BY <1>2, <2>5, <3>1, <3>5
      <4>2. CASE InHand(t)
        BY <4>1, <4>2 DEF HeldSocket, Live
      <4>3. CASE t = display.jwtToken /\ client.conn = s
        <5>1. sock[x].tok <= client.token
          BY <3>4, <4>1, <4>3 DEF HeldSocket, Live
        <5>2. client.token <= display.jwtToken
          BY <3>1, <3>4, <4>3 DEF InOrder
        <5>3. sock[x].tok \in Nat /\ client.token \in Nat
          BY DEF TypeOK, SocketRecord, TokenOrNone
        <5> QED
          BY <3>2, <4>1, <4>3, <5>1, <5>2, <5>3
      <4> QED
        BY <2>3, <3>2, <3>5, <4>2, <4>3
    <3>6. ASSUME NEW x \in Socket PROVE ~Rotating(x)' /\ refresh'[x].pc # "graced"
      BY <1>10, <2>1, <2>2 DEF Rotating
    <3>7. \A x \in Socket : HeldSocket(x)'
      BY <3>5, <3>6 DEF HeldSocket, Live
    <3> QED
      BY <3>3, <3>7
  <2> QED
    BY <1>10, <2>1, <2>2, <2>6, <2>7 DEF Unlost
<1>16. CASE DeleteOwnedGraceGet(s)
  <2>1. /\ UNCHANGED <<root, past, grace, display, cooldown, inbox, sock>>
        /\ refresh[s].pc = "cleanup"
        /\ \/ refresh' = [refresh EXCEPT ![s].pc = "owned"]
           \/ refresh' = [refresh EXCEPT ![s] = NoRefresh]
    BY <1>16 DEF DeleteOwnedGraceGet
  <2> QED
    BY <1>6, <2>1 DEF Rotating
<1>17. CASE DeleteOwnedGraceDelete(s)
  <2>1. /\ UNCHANGED <<root, past, display, cooldown, inbox, sock>> /\ refresh[s].pc = "owned"
        /\ refresh' = [refresh EXCEPT ![s] = NoRefresh]
    BY <1>17 DEF DeleteOwnedGraceDelete
  <2>2. /\ \A x \in Socket : x # s => refresh'[x] = refresh[x]
        /\ refresh'[s].pc = "idle" /\ Rotating(s)
    BY <2>1 DEF NoRefresh, Rotating
  <2>3. FirstLine'
    BY <1>2, <1>3, <1>4, <1>5, <2>1, <2>2, FirstLineStays
  <2>4. ASSUME Unbroken' PROVE Held' /\ \A x \in Socket : HeldSocket(x)'
    <3>1. Unbroken
      BY <1>1, <2>1, <2>4 DEF Unbroken
    <3>2. \A t \in Token : InHand(t) => t = display.jwtToken
      BY <1>11, <2>1, <2>2, <3>1
    <3>3. Held'
      BY <1>2, <1>4, <2>1, <3>1, <3>2 DEF Held, Usable
    <3>4. HeldSocket(s)'
      BY <1>2, <1>4, <1>10, <2>1, <2>2, <3>1 DEF HeldSocket, Rotating, Live, Entering, Admitted
    <3> QED
      BY <1>12, <2>1, <2>2, <3>1, <3>3, <3>4
  <2> QED
    BY <1>10, <2>1, <2>2, <2>3, <2>4 DEF Unlost
<1> QED
  BY <1>7, <1>8, <1>9, <1>13, <1>14, <1>15, <1>16, <1>17 DEF Refreshes

(* Every other step: the device, the operators, time, a restart.             *)
LEMMA StepUnlost ==
    Base /\ RotationsApart /\ InOrder /\ Unlost /\ [Next]_vars => Unlost'
<1> SUFFICES ASSUME Base, RotationsApart, InOrder, Unlost, [Next]_vars PROVE Unlost'
  OBVIOUS
<1> USE InUseParts, NotTokens DEF Base, tokenVars, timeVars, serverVars, storeVars, deviceVars
<1>1. FirstLine /\ (Unbroken => Held /\ \A x \in Socket : HeldSocket(x) /\ Fresh(x))
  BY DEF Unlost
<1>2. ASSUME UNCHANGED <<root, current, past, display, cooldown, expTo, refresh, check, grace>>,
             Fewer, client'.token = NoToken => client'.conn = None,
             client'.conn = None => inbox' = <<>>,
             \A x \in Socket : \/ sock'[x] = sock[x]
                               \/ /\ sock'[x].st = "closed" /\ sock[x].st = "open"
                                  /\ sock'[x].tok = sock[x].tok /\ sock'[x].hash = sock[x].hash
      PROVE  Unlost'
  <2>1. \A x \in Socket : Live(x)' => Live(x) /\ sock'[x].tok = sock[x].tok
    BY <1>2 DEF Live, Entering, Admitted
  <2>2. \A t \in TokenOrNone : Expired(t) => Expired(t)'
    BY <1>2 DEF Expired
  <2>3. Unbroken => \A x \in Socket : Fresh(x)'
    BY <1>1, <1>2 DEF Fresh
  <2> QED
    BY <1>2, <2>1, <2>2, <2>3, UnlostStays
<1>3. UNCHANGED <<client, inbox>> =>
         /\ Fewer /\ (client'.token = NoToken => client'.conn = None)
         /\ client'.conn = None => inbox' = <<>>
  BY <1>1 DEF Fewer, InHand, FirstLine
<1>4. CASE ClientReceive
  <2>1. /\ UNCHANGED <<root, current, past, display, cooldown, expTo, refresh, check, grace, sock>>
        /\ inbox # <<>>
        /\ \/ /\ Head(inbox) \in Token /\ client' = [client EXCEPT !.token = Head(inbox)]
              /\ inbox' = Tail(inbox)
           \/ client' = [token |-> NoToken, conn |-> None] /\ inbox' = <<>>
           \/ client' = [client EXCEPT !.conn = None] /\ inbox' = <<>>
    BY <1>4 DEF ClientReceive
  <2>2. client.conn # None
    BY <1>1, <2>1 DEF FirstLine
  <2>3. CASE /\ Head(inbox) \in Token /\ client' = [client EXCEPT !.token = Head(inbox)]
             /\ inbox' = Tail(inbox)
    <3>1. client'.token = Head(inbox) /\ client'.conn = client.conn
      BY <2>3 DEF TypeOK
    <3>2. 1 \in DOMAIN inbox /\ Head(inbox) = inbox[1]
      BY <2>1
    <3>3. \A i \in DOMAIN inbox' : i + 1 \in DOMAIN inbox /\ inbox'[i] = inbox[i + 1]
      BY <2>1, <2>3
    <3>4. Fewer
      BY <3>1, <3>2, <3>3 DEF Fewer, InHand
    <3>5. client'.token # NoToken
      BY <2>3, <3>1 DEF Token, NoToken
    <3> QED
      BY <1>2, <2>1, <2>2, <3>1, <3>4, <3>5
  <2>4. CASE inbox' = <<>> /\ client'.conn = None /\ client'.token \in {NoToken, client.token}
    <3>1. Fewer
      BY <2>4 DEF Fewer, InHand, Token, NoToken
    <3> QED
      BY <1>2, <2>1, <2>4, <3>1
  <2> QED
    BY <2>1, <2>3, <2>4 DEF TypeOK
<1>5. CASE LoseConnection \/ GatewayRestart
  <2>1. /\ UNCHANGED <<root, current, past, display, cooldown, expTo, grace>>
        /\ client' = [client EXCEPT !.conn = None] /\ inbox' = <<>>
        /\ \/ UNCHANGED <<sock, refresh, check>>
           \/ \A x \in Socket : /\ sock'[x] = ClosedSocket /\ refresh'[x] = NoRefresh
                                /\ check'[x] = NoCheck
    BY <1>5 DEF LoseConnection, GatewayRestart
  <2>2. client'.conn = None /\ client'.token = client.token
    BY <2>1 DEF TypeOK
  <2>3. Fewer
    BY <2>1, <2>2 DEF Fewer, InHand
  <2>4. CASE UNCHANGED <<sock, refresh, check>>
    BY <1>2, <2>1, <2>2, <2>3, <2>4
  <2>5. CASE \A x \in Socket : /\ sock'[x] = ClosedSocket /\ refresh'[x] = NoRefresh
                               /\ check'[x] = NoCheck
    <3>1. \A x \in Socket : /\ sock'[x].st = "closed" /\ refresh'[x].pc = "idle"
                            /\ check'[x].pc = "idle"
      BY <2>5 DEF ClosedSocket, NoRefresh, NoCheck
    <3>2. \A x \in Socket : ~Live(x)' /\ Fresh(x)'
      BY <3>1 DEF Live, Entering, Admitted, Fresh
    <3>3. \A t \in TokenOrNone : Expired(t) => Expired(t)'
      BY <2>1 DEF Expired
    <3> QED
      BY <2>1, <2>2, <2>3, <3>1, <3>2, <3>3, UnlostStays
  <2> QED
    BY <2>1, <2>4, <2>5
<1>6. ASSUME NEW s \in Socket, ClientConnect(s) PROVE Unlost'
  <2>1. /\ UNCHANGED <<root, current, past, display, cooldown, expTo, refresh, check, grace, inbox>>
        /\ client.token # NoToken /\ client.conn = None
        /\ sock' = [sock EXCEPT ![s] = [ClosedSocket EXCEPT !.st = "row", !.tok = client.token]]
        /\ client' = [client EXCEPT !.conn = s] /\ refresh[s].pc = "idle" /\ check[s].pc = "idle"
    BY <1>6 DEF ClientConnect
  <2>2. /\ \A x \in Socket : x # s => sock'[x] = sock[x]
        /\ sock'[s].st = "row" /\ sock'[s].tok = client.token
        /\ client'.token = client.token /\ client'.conn # None /\ inbox = <<>>
    BY <1>1, <2>1, DeviceTokenAssumption DEF ClosedSocket, TypeOK, FirstLine
  <2>3. client.token \in Token /\ InHand(client.token)
    BY <2>1 DEF InHand, TypeOK, Token, TokenOrNone, NoToken
  <2>4. \A t \in Token : (InHand(t)' <=> InHand(t)) /\ (InHand(t) => t = client.token)
    BY <2>1, <2>2 DEF InHand
  <2>5. \A x \in Socket : \/ x # s /\ (Live(x)' <=> Live(x)) /\ sock'[x].tok = sock[x].tok
                          \/ x = s /\ sock'[x].tok = client.token
    BY <2>1, <2>2 DEF Live, Entering, Admitted
  <2>6. FirstLine'
    <3>1. \A x \in Socket : Live(x)' => \/ Live(x) /\ sock'[x].tok = sock[x].tok
                                        \/ sock'[x].tok \in Token /\ InHand(sock'[x].tok)
      BY <2>3, <2>5
    <3>2. /\ \A t \in Issued : root'[t] = root[t]
          /\ client'.token = NoToken => client'.conn = None
          /\ client'.conn = None => inbox' = <<>>
      BY <2>1, <2>2
    <3> QED
      BY <1>1, <2>4, <3>1, <3>2, FirstLineStays
  <2>7. ASSUME Unbroken PROVE Held' /\ \A x \in Socket : HeldSocket(x)' /\ Fresh(x)'
    <3>1. Held'
      BY <1>1, <2>1, <2>4, <2>7 DEF Held, Usable, Expired
    <3>2. client.token \in Nat
      BY <2>3 DEF Token
    <3>3. HeldSocket(s)'
      BY <2>1, <2>2, <2>4, <3>2 DEF HeldSocket, Rotating
    <3>4. ASSUME NEW x \in Socket, x # s PROVE HeldSocket(x)'
      <4>1. /\ HeldSocket(x) /\ refresh'[x] = refresh[x] /\ sock'[x].tok = sock[x].tok
            /\ Live(x)' => Live(x)
        BY <1>1, <2>1, <2>5, <2>7, <3>4
      <4> QED
        BY <2>1, <2>4, <4>1 DEF HeldSocket, Live, Rotating, Expired
    <3>5. \A x \in Socket : Fresh(x)'
      BY <1>1, <2>1, <2>2, <2>7 DEF Fresh
    <3> QED
      BY <3>1, <3>3, <3>4, <3>5
  <2> QED
    BY <2>1, <2>6, <2>7 DEF Unlost, Unbroken
<1>7. CASE GeneratePairingToken
  <2>1. /\ Sign(minted + 1) /\ current' = minted + 1
        /\ UNCHANGED <<sock, refresh, client, inbox>>
    BY <1>7 DEF GeneratePairingToken
  <2>2. \A t \in Issued : root'[t] = root[t]
    BY <2>1, SignedRoots
  <2>3. FirstLine'
    <3>1. \A x \in Socket : Live(x)' => Live(x) /\ sock'[x].tok = sock[x].tok
      BY <2>1 DEF Live, Entering, Admitted
    <3> QED
      BY <1>1, <1>3, <2>1, <2>2, <3>1, FirstLineStays DEF Fewer
  <2>4. ~Unbroken'
    <3>1. minted # 0 /\ minted \in Nat
      BY DEF TypeOK, Token
    <3> QED
      BY <2>1, <3>1 DEF Unbroken
  <2> QED
    BY <2>3, <2>4 DEF Unlost
<1>8. CASE DisableDevice \/ EnableDevice \/ Remove
  <2>1. /\ UNCHANGED <<root, current, past, cooldown, expTo, refresh, check, grace, sock,
                       client, inbox>>
        /\ display'.jwtToken = display.jwtToken
    BY <1>8 DEF DisableDevice, EnableDevice, Remove, TypeOK
  <2>2. \A x \in Socket : Live(x)' => Live(x) /\ sock'[x].tok = sock[x].tok
    BY <2>1 DEF Live, Entering, Admitted
  <2>3. \A t \in TokenOrNone : Expired(t) => Expired(t)'
    BY <2>1 DEF Expired
  <2>4. Unbroken => \A x \in Socket : Fresh(x)'
    BY <1>1, <2>1 DEF Fresh
  <2> QED
    BY <1>3, <2>1, <2>2, <2>3, <2>4, UnlostStays
<1>9. CASE RevokeDevice
  <2>1. UNCHANGED <<root, current, past, display, cooldown, expTo, refresh, check, grace, client>>
    BY <1>9 DEF RevokeDevice
  <2>2. CASE UNCHANGED <<sock, inbox>>
    BY <1>2, <1>3, <2>1, <2>2
  <2>3. CASE /\ deviceSockets # None /\ sock' = [sock EXCEPT ![deviceSockets].st = "closed"]
             /\ SendTo(deviceSockets, Closed)
    <3>1. deviceSockets \in Socket /\ sock[deviceSockets].st = "open"
      BY <2>3 DEF TypeOK, EntryIsOpen
    <3>2. /\ \A x \in Socket : x # deviceSockets => sock'[x] = sock[x]
          /\ sock'[deviceSockets].st = "closed"
          /\ sock'[deviceSockets].tok = sock[deviceSockets].tok
          /\ sock'[deviceSockets].hash = sock[deviceSockets].hash
      BY <2>3, <3>1 DEF SocketRecord
    <3>3. Fewer /\ (client'.conn = None => inbox' = <<>>)
      BY <1>1, <2>1, <2>3, <3>1, SendFewer, SendConnected
    <3>4. client'.token = NoToken => client'.conn = None
      BY <1>1, <2>1 DEF FirstLine
    <3> QED
      BY <1>2, <2>1, <3>1, <3>2, <3>3, <3>4
  <2> QED
    BY <1>9, <2>2, <2>3 DEF RevokeDevice
<1>10. CASE Time
  <2>1. UNCHANGED <<root, current, past, display, refresh, check, sock, client, inbox>>
    BY <1>10, Zenon DEF Time, BecomeNear, Expire, CooldownExpire, GraceExpire
  <2>2. expTo' \in {expTo, expTo + 1} /\ (grace' = grace \/ Expired(grace.exp))
    BY <1>10 DEF Time, BecomeNear, Expire, CooldownExpire, GraceExpire
  <2>3. \A t \in TokenOrNone : Expired(t) => Expired(t)'
    BY <2>2 DEF Expired, TypeOK, TokenOrNone
  <2>4. \A x \in Socket : Live(x)' => Live(x) /\ sock'[x].tok = sock[x].tok
    BY <2>1 DEF Live, Entering, Admitted
  <2>5. UNCHANGED cooldown \/ Settled
    BY <1>10 DEF Time, BecomeNear, Expire, CooldownExpire, GraceExpire
  <2>6. ASSUME Settled PROVE \A x \in Socket : Fresh(x)'
    <3>1. \A x \in Socket : /\ sock'[x].st \in {"open", "closed"} /\ refresh'[x].pc = "idle"
                            /\ check'[x].pc = "idle"
      BY <2>1, <2>6 DEF Settled
    <3> QED
      BY <3>1 DEF Fresh
  <2>7. Unbroken => \A x \in Socket : Fresh(x)'
    BY <1>1, <2>1, <2>5, <2>6 DEF Fresh
  <2> QED
    BY <1>3, <2>1, <2>2, <2>3, <2>4, <2>7, UnlostStays
<1>11. CASE UNCHANGED vars
  BY <1>2, <1>3, <1>11 DEF vars
<1>12. ASSUME NEW s \in Socket, Handshake(s) \/ Checks(s) \/ Refreshes(s) PROVE Unlost'
  BY <1>12, HandshakeUnlost, ChecksUnlost, RefreshesUnlost
<1> QED
  BY <1>4, <1>5, <1>6, <1>7, <1>8, <1>9, <1>10, <1>11, <1>12 DEF Next, Client, Operator

-----------------------------------------------------------------------------
(* The device that has just been paired satisfies the inductive invariant.   *)
LEMMA InitInductive == Init => IInv
<1> SUFFICES ASSUME Init PROVE IInv
  OBVIOUS
<1>1. 1 \in Token /\ 1 \in Issued /\ minted = 1
  BY DeviceTokenAssumption DEF Init, Token, Issued
<1>2. ClosedSocket.st = "closed" /\ NoRefresh.pc = "idle"
  BY DEF ClosedSocket, NoRefresh
<1>3. TypeOK
  <2>1. /\ sock \in [Socket -> SocketRecord] /\ refresh \in [Socket -> RefreshRecord]
        /\ check \in [Socket -> CheckRecord] /\ grace \in GraceRecord
    BY InitialRecords DEF Init
  <2>2. /\ root \in [Token -> TokenOrNone] /\ minted \in Token
        /\ nearTo \in TokenOrNone /\ expTo \in TokenOrNone /\ current \in Token
    BY <1>1, TokenFacts DEF Init, NoToken
  <2>3. /\ display \in [exists : BOOLEAN, isDisabled : BOOLEAN, jwtToken : Token]
        /\ client \in [token : TokenOrNone, conn : Socket \cup {None}]
        /\ past \in [blind : BOOLEAN, torn : BOOLEAN]
    BY <1>1, TokenFacts DEF Init
  <2>4. inbox \in Seq(Message) /\ faults \in Nat /\ ops \in Nat /\ deviceSockets \in Socket \cup {None}
    BY DEF Init
  <2>5. cooldown \in BOOLEAN /\ revokeCall \in BOOLEAN
    BY DEF Init
  <2> QED
    BY <2>1, <2>2, <2>3, <2>4, <2>5 DEF TypeOK
<1>4. \A s \in Socket : sock[s] = ClosedSocket /\ refresh[s] = NoRefresh
  BY DEF Init
<1>5. InUse
  BY <1>1, <1>2, <1>4
  DEF Init, InUse, StoresInUse, InboxInUse, EntryIsOpen, SocketInUse, Entering, Admitted, Rotating
<1>6. Lineage
  BY <1>1, <1>2, <1>4 DEF Init, Lineage, StoresLineage, SocketLineage, Admitted, Rotating
<1>7. RotationsApart
  BY <1>2, <1>4 DEF RotationsApart, OneRotationAtATime, Rotating
<1>8. InOrder
  <2>1. \A t \in Token : InHand(t) => t = 1
    BY DEF Init, InHand
  <2> QED
    BY <1>1, <1>2, <1>4, <2>1 DEF Init, InOrder, NoYounger, RecordFirst, Entering
<1>9. Unlost
  <2>1. \A s \in Socket : ~Live(s) /\ ~Rotating(s) /\ sock[s].st = "closed" /\ check[s].pc = "idle"
                           /\ refresh[s].pc = "idle"
    BY <1>2, <1>4 DEF Init, NoCheck, Live, Entering, Admitted, Rotating
  <2>2. display.jwtToken = 1 /\ root[1] = 1 /\ client.token = 1 /\ inbox = <<>>
    BY <1>1 DEF Init
  <2>3. \A t \in Token : InHand(t) => t = 1
    BY <2>2 DEF InHand
  <2>4. FirstLine
    BY <2>1, <2>2, <2>3 DEF FirstLine, Live, NoToken
  <2>5. Held
    BY <2>2, <2>3 DEF Held, Usable
  <2>6. \A s \in Socket : HeldSocket(s) /\ Fresh(s)
    BY <2>1 DEF HeldSocket, Fresh, Live
  <2> QED
    BY <2>4, <2>5, <2>6 DEF Unlost
<1> QED
  BY <1>3, <1>5, <1>6, <1>7, <1>8, <1>9 DEF IInv

(* The inductive invariant holds in every reachable state.                   *)
THEOREM Inductive == Spec => []IInv
<1>1. IInv /\ [Next]_vars => IInv'
  BY StepBase, StepApart, StepInOrder, StepUnlost DEF IInv, Base
<1> QED
  BY <1>1, InitInductive, PTL DEF Spec

(* Every reachable state is well formed: whatever fails or restarts, the     *)
(* paired device's row keeps a hash and every record keeps its shape.        *)
THEOREM TypeCorrect == Spec => []TypeOK
<1>1. IInv => TypeOK
  BY DEF IInv
<1> QED
  BY <1>1, Inductive, PTL

(* A re-pair ends everything issued before it, whatever is lost, restarted   *)
(* or reordered: what the gateway would let in, or keep delivering to,       *)
(* descends from the last JWT an operator issued.                            *)
THEOREM NoRevivalHolds == Spec => []NoRevival
<1>1. IInv => NoRevival
  <2> SUFFICES ASSUME IInv PROVE NoRevival
    OBVIOUS
  <2>1. TypeOK /\ StoresLineage /\ \A s \in Socket : SocketLineage(s)
    BY DEF IInv, Lineage
  <2>2. Stored # NoToken => root[Stored] = current
    BY <2>1 DEF Stored, StoresLineage
  <2>3. ASSUME NEW t \in Token, Accepted(t) PROVE root[t] = current
    <3>1. Stored # NoToken /\ (t = Stored \/ GraceAccepts(t, Stored))
      BY <2>3 DEF Accepted
    <3>2. GraceAccepts(t, Stored) => root[t] = root[Stored]
      BY <2>1, <3>1 DEF GraceAccepts, StoresLineage, NoGrace
    <3> QED
      BY <2>2, <3>1, <3>2
  <2>4. ASSUME NEW s \in Socket, sock[s].st = "open", sock[s].hash = Stored
        PROVE  root[sock[s].tok] = current
    <3>1. sock[s].hash # NoToken
      BY <2>4, InUseParts DEF IInv, SocketInUse, Admitted, Issued, NoToken
    <3> QED
      BY <2>1, <2>2, <2>4, <3>1 DEF SocketLineage, Admitted
  <2> QED
    BY <2>3, <2>4 DEF NoRevival
<1> QED
  BY <1>1, Inductive, PTL

(* The cooldown keeps two refreshes from running side by side, whatever is   *)
(* lost and whenever it expires (device.gateway.ts: "multiple in-flight      *)
(* tokens would race the single stored hash").                               *)
THEOREM OneRotationHolds == Spec => []OneRotationAtATime
<1>1. IInv => OneRotationAtATime
  BY DEF IInv, RotationsApart
<1> QED
  BY <1>1, Inductive, PTL

(* A JWT that is good when the handshake is answered is not turned away by a *)
(* rotation that came between the read of the row and the read of the grace  *)
(* record, for any number of sockets, rotations and operator actions.        *)
THEOREM LetInHolds == Spec => []GoodJwtIsLetIn
<1>1. IInv => GoodJwtIsLetIn
  <2> SUFFICES ASSUME IInv, NEW s \in Socket, sock[s].st = "grace", Accepted(sock[s].tok)
               PROVE  GraceAccepts(sock[s].tok, sock[s].hash)
    BY DEF GoodJwtIsLetIn
  <2>1. Base
    BY DEF IInv, Base
  <2>2. NoYounger(s) /\ RecordFirst(s)
    BY DEF IInv, InOrder
  <2>3. Stored = display.jwtToken
    BY DEF Accepted, Stored
  <2>4. sock[s].tok # display.jwtToken
    BY <2>1, <2>2, RowNumbers DEF NoYounger
  <2>5. GraceAccepts(sock[s].tok, display.jwtToken)
    BY <2>3, <2>4 DEF Accepted
  <2> QED
    BY <2>2, <2>5 DEF RecordFirst
<1> QED
  BY <1>1, Inductive, PTL

(* Whatever is lost, and wherever a refresh stops, the JWT the device still  *)
(* holds is let in until it expires, unless a refresh was begun on a socket  *)
(* that the grace record had let in, or a commit was reported as a failure.  *)
THEOREM SurvivesHolds == Spec => []SurvivesLostRefresh
<1>1. IInv => SurvivesLostRefresh
  <2> SUFFICES ASSUME IInv, ~past.blind, ~past.torn, client.token # NoToken,
                      root[client.token] = current, Stored # NoToken, ~Expired(client.token)
               PROVE  Accepted(client.token)
    BY DEF SurvivesLostRefresh
  <2>1. client.token \in Token /\ InHand(client.token)
    BY DEF IInv, TypeOK, InHand, Token, TokenOrNone, NoToken
  <2>2. Unbroken
    BY <2>1 DEF IInv, Unlost, FirstLine, Unbroken
  <2>3. Usable(client.token)
    BY <2>1, <2>2 DEF IInv, Unlost, Held
  <2> QED
    BY <2>3 DEF Usable, Accepted, GraceAccepts, Stored
<1> QED
  BY <1>1, Inductive, PTL

================================================================================
