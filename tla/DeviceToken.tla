------------------------------ MODULE DeviceToken ------------------------------
(***************************************************************************)
(* The credential of ONE paired device: the JWT the Electron client keeps, *)
(* the hash of the current one in Display.jwtToken, the grace record that  *)
(* keeps the previous one usable while the gateway rotates it, and the     *)
(* sockets that were let in on one or the other.                           *)
(*                                                                         *)
(* A JWT is the number of its signature (1, 2, ...) and stands for its own *)
(* SHA-256 hash.  A handler that awaits is one action per await: what it   *)
(* read before is kept in a record and may be stale when it is used.       *)
(***************************************************************************)
EXTENDS Integers, Sequences

CONSTANTS
    Socket,      \* socket ids the gateway hands out; a closed one is used again
    None,        \* "no socket"
    MaxTokens,   \* bound: JWTs signed in one behaviour
    MaxFaults,   \* bound: lost connections, failed Redis or SQL calls, restarts
    MaxOps       \* bound: operator actions

ASSUME DeviceTokenAssumption ==
    /\ None \notin Socket
    /\ MaxTokens \in Nat \ {0}
    /\ MaxFaults \in Nat
    /\ MaxOps \in Nat

VARIABLES
    minted,         \* how many JWTs have been signed
    nearTo,         \* JWTs 1..nearTo are within 14 days of their expiry ...
    expTo,          \* ... and JWTs 1..expTo are past it
    display,        \* the Display row: [exists, isDisabled, jwtToken]
    grace,          \* the Redis record device:token:grace:{id}, or NoGrace
    cooldown,       \* the Redis key device:token:refresh-cooldown:{id} exists
    sock,           \* the gateway's side of each socket
    deviceSockets,  \* the gateway's Map entry for this device
    refresh,        \* maybeRefreshDeviceToken of a socket, between two awaits
    check,          \* a stored-hash check of a socket, between two awaits
    revokeCall,     \* the middleware's revoke call is on its way to the gateway
    client,         \* the Electron client: the JWT it holds, the socket it is on
    inbox,          \* what the gateway has sent on that socket, in order
    faults,         \* faults so far
    root,           \* history: the operator-issued JWT each JWT descends from
    current,        \* history: the last operator-issued JWT
    ops,            \* operator actions so far
    past            \* history: a [blind, torn] refresh has happened

tokenVars  == <<minted, root>>
timeVars   == <<nearTo, expTo>>
serverVars == <<sock, deviceSockets, refresh, check>>
storeVars  == <<display, grace, cooldown>>
deviceVars == <<client, inbox>>
vars == <<tokenVars, timeVars, serverVars, storeVars, deviceVars,
          revokeCall, faults, ops, current, past>>

Token == 1 .. MaxTokens
NoToken == 0
TokenOrNone == 0 .. MaxTokens

(* A socket is "closed", in the connection middleware ("row", "grace"), past *)
(* it ("accepted", or "pass" when the row could not be read), or "open".     *)
(* tok is the JWT of its handshake, hash its deviceTokenHash (in the         *)
(* middleware: the stored hash just read), issued its tokenRefreshIssued.    *)
SocketRecord == [st : {"closed", "row", "grace", "accepted", "pass", "open"},
                 tok : TokenOrNone, hash : TokenOrNone, issued : BOOLEAN]
RefreshRecord == [pc : {"idle", "due", "minted", "graced", "rotated", "cleanup", "owned"},
                  prev : TokenOrNone, next : TokenOrNone]
CheckRecord == [pc : {"idle", "read"}, seen : TokenOrNone]
GraceRecord == [prev : TokenOrNone, next : TokenOrNone, exp : TokenOrNone]

ClosedSocket == [st |-> "closed", tok |-> NoToken, hash |-> NoToken, issued |-> FALSE]
NoRefresh == [pc |-> "idle", prev |-> NoToken, next |-> NoToken]
DueRefresh == [NoRefresh EXCEPT !.pc = "due"]
NoCheck == [pc |-> "idle", seen |-> NoToken]
NoGrace == [prev |-> NoToken, next |-> NoToken, exp |-> NoToken]

(* What reaches the client: a JWT (token:refresh, by its number), an error   *)
(* whose message is in TERMINAL_DEVICE_AUTH_ERRORS, or any other end of the  *)
(* socket (the socket is gone after either).                                 *)
Terminal == MaxTokens + 1
Closed == MaxTokens + 2
Message == 1 .. MaxTokens + 2

-----------------------------------------------------------------------------
(* Helpers                                                                   *)

Expired(t) == t <= expTo
NearExpiry(t) == t <= nearTo /\ ~Expired(t)

(* The hash a check may match: a missing or disabled row matches nothing.    *)
Stored == IF display.exists /\ ~display.isDisabled THEN display.jwtToken ELSE NoToken

(* Variant: a record that is not bound to the hash it rotated to.            *)
GraceAcceptsAnyNext(t, stored) == grace.prev = t

(* isGraceAcceptedDeviceToken                                                *)
GraceAccepts(t, stored) == grace.prev = t /\ grace.next = stored

(* authenticateDeviceHandshake would let t in now, were nothing to fail.     *)
Accepted(t) == /\ t # NoToken /\ Stored # NoToken /\ ~Expired(t)
               /\ (t = Stored \/ GraceAccepts(t, Stored))

Fault == faults < MaxFaults /\ faults' = faults + 1

(* emit: it reaches the client only while the client is still on s.          *)
SendTo(s, m) == inbox' = IF client.conn = s THEN Append(inbox, m) ELSE inbox

(* Sign one JWT that descends from r.                                        *)
Sign(r) == /\ minted < MaxTokens
           /\ minted' = minted + 1
           /\ root' = [root EXCEPT ![minted + 1] = r]

(* deviceSockets.delete in handleDisconnect, for a socket that is the entry. *)
Deregister(s) == deviceSockets' = IF deviceSockets = s THEN None ELSE deviceSockets

(* The guards of maybeRefreshDeviceToken before the cooldown.  Whether the   *)
(* socket is still connected is not one of them.                             *)
RefreshDue(s) == ~sock[s].issued /\ NearExpiry(sock[s].tok)

(* Hours and days go by only when what takes milliseconds is over.           *)
Settled == /\ inbox = <<>>
           /\ \A s \in Socket : /\ refresh[s].pc = "idle"
                                /\ check[s].pc = "idle"
                                /\ sock[s].st \in {"open", "closed"}
                                /\ sock[s].st = "open" => client.conn = s

-----------------------------------------------------------------------------
(* The device has just been paired: it holds JWT 1, the row its hash.        *)
Init ==
    /\ minted = 1 /\ nearTo = 0 /\ expTo = 0
    /\ display = [exists |-> TRUE, isDisabled |-> FALSE, jwtToken |-> 1]
    /\ grace = NoGrace /\ cooldown = FALSE
    /\ sock = [s \in Socket |-> ClosedSocket]
    /\ deviceSockets = None
    /\ refresh = [s \in Socket |-> NoRefresh]
    /\ check = [s \in Socket |-> NoCheck]
    /\ revokeCall = FALSE
    /\ client = [token |-> 1, conn |-> None] /\ inbox = <<>>
    /\ faults = 0
    /\ root = [t \in Token |-> IF t = 1 THEN 1 ELSE NoToken]
    /\ ops = 0
    /\ current = 1
    /\ past = [blind |-> FALSE, torn |-> FALSE]

-----------------------------------------------------------------------------
(* The Electron client                                                       *)

(* connect, and socket.io's reconnection with the socket's current auth.     *)
ClientConnect(s) ==
    /\ client.token # NoToken /\ client.conn = None
    /\ sock[s].st = "closed" /\ refresh[s].pc = "idle" /\ check[s].pc = "idle"
    /\ client' = [client EXCEPT !.conn = s]
    /\ sock' = [sock EXCEPT ![s] = [ClosedSocket EXCEPT !.st = "row", !.tok = client.token]]
    /\ UNCHANGED <<tokenVars, timeVars, storeVars, deviceSockets, refresh, check,
                   inbox, revokeCall, faults, ops, current, past>>

(* token:refresh stores the new JWT and swaps the socket's auth; a terminal  *)
(* error clears the stored JWT (clearTokenAndRequestPairing).                *)
ClientReceive ==
    /\ inbox # <<>>
    /\ LET m == Head(inbox) IN
         \/ /\ m \in Token
            /\ client' = [client EXCEPT !.token = m]
            /\ inbox' = Tail(inbox)
         \/ /\ m = Terminal
            /\ client' = [token |-> NoToken, conn |-> None]
            /\ inbox' = <<>>
         \/ /\ m = Closed
            /\ client' = [client EXCEPT !.conn = None]
            /\ inbox' = <<>>
    /\ UNCHANGED <<tokenVars, timeVars, storeVars, serverVars, revokeCall, faults,
                   ops, current, past>>

(* The connection is lost, with everything in flight on it.                  *)
LoseConnection ==
    /\ client.conn # None
    /\ Fault
    /\ client' = [client EXCEPT !.conn = None]
    /\ inbox' = <<>>
    /\ UNCHANGED <<tokenVars, timeVars, storeVars, serverVars, revokeCall, ops, current, past>>

-----------------------------------------------------------------------------
(* The gateway: the connection middleware and handleConnection               *)

Reject(s, m) ==
    /\ sock' = [sock EXCEPT ![s] = ClosedSocket]
    /\ SendTo(s, m)

(* Verified by the middleware, or refused for the tenant's suspension, which *)
(* is the billing module's to decide.                                        *)
AcceptOrSuspend(s, hash) ==
    \/ /\ sock' = [sock EXCEPT ![s].st = "accepted", ![s].hash = hash]
       /\ UNCHANGED inbox
    \/ Reject(s, Closed)

(* findUnique throws: no verdict, handleConnection classifies the socket.    *)
PassUnverified(s) ==
    /\ sock' = [sock EXCEPT ![s].st = "pass"]
    /\ UNCHANGED inbox

HandshakeRow(s) ==
    /\ sock[s].st = "row"
    /\ \/ /\ Expired(sock[s].tok)
          /\ Reject(s, Closed)
          /\ UNCHANGED faults
       \/ /\ ~Expired(sock[s].tok) /\ Stored = NoToken
          /\ Reject(s, Terminal)
          /\ UNCHANGED faults
       \/ /\ ~Expired(sock[s].tok) /\ Stored = sock[s].tok
          /\ AcceptOrSuspend(s, Stored)
          /\ UNCHANGED faults
       \/ /\ ~Expired(sock[s].tok) /\ Stored \notin {NoToken, sock[s].tok}
          /\ sock' = [sock EXCEPT ![s].st = "grace", ![s].hash = Stored]
          /\ UNCHANGED <<inbox, faults>>
       \/ /\ ~Expired(sock[s].tok)
          /\ Fault
          /\ PassUnverified(s)
    /\ UNCHANGED <<tokenVars, timeVars, storeVars, deviceSockets, refresh, check,
                   client, revokeCall, ops, current, past>>

HandshakeGrace(s) ==
    /\ sock[s].st = "grace"
    /\ \/ /\ GraceAccepts(sock[s].tok, sock[s].hash)
          /\ AcceptOrSuspend(s, sock[s].hash)
          /\ UNCHANGED faults
       \/ /\ ~GraceAccepts(sock[s].tok, sock[s].hash)
          /\ Reject(s, Terminal)
          /\ UNCHANGED faults
       \/ /\ Fault                      \* redis.get throws: fail closed
          /\ Reject(s, Terminal)
    /\ UNCHANGED <<tokenVars, timeVars, storeVars, deviceSockets, refresh, check,
                   client, revokeCall, ops, current, past>>

(* authenticateConnection's bookkeeping: the socket of the Map entry is      *)
(* disconnected, and the entry is this socket.  handleConnection ends with   *)
(* maybeRefreshDeviceToken.                                                  *)
Register(s, hash) ==
    LET old == deviceSockets IN
    /\ sock' = [x \in Socket |->
                  CASE x = s -> [sock[s] EXCEPT !.st = "open", !.hash = hash]
                    [] x = old /\ x # s -> [sock[x] EXCEPT !.st = "closed"]
                    [] OTHER -> sock[x]]
    /\ deviceSockets' = s
    /\ refresh' = [refresh EXCEPT ![s] = DueRefresh]
    /\ IF old # None THEN SendTo(old, Closed) ELSE UNCHANGED inbox

HandleConnection(s) ==
    /\ sock[s].st = "accepted"
    /\ Register(s, sock[s].hash)
    /\ UNCHANGED <<tokenVars, timeVars, storeVars, check, client,
                   revokeCall, faults, ops, current, past>>

(* The middleware passed without a verdict: the row is read once more, and   *)
(* the grace record is not consulted.                                        *)
HandleUnverifiedConnection(s) ==
    /\ sock[s].st = "pass"
    /\ \/ /\ Stored = sock[s].tok
          /\ Register(s, sock[s].tok)
          /\ UNCHANGED faults
       \/ /\ display.exists /\ display.isDisabled         \* device_disabled
          /\ Reject(s, Closed)
          /\ UNCHANGED <<deviceSockets, refresh, faults>>
       \/ /\ ~display.exists \/ Stored \notin {NoToken, sock[s].tok}
          /\ Reject(s, Terminal)                          \* device_not_found, _token_stale
          /\ UNCHANGED <<deviceSockets, refresh, faults>>
       \/ /\ Fault                                        \* the read throws again
          /\ Reject(s, Closed)
          /\ UNCHANGED <<deviceSockets, refresh>>
    /\ UNCHANGED <<tokenVars, timeVars, storeVars, check, client,
                   revokeCall, ops, current, past>>

(* handleDisconnect of a socket whose client is gone.                        *)
HandleDisconnect(s) ==
    /\ sock[s].st = "open" /\ client.conn # s
    /\ sock' = [sock EXCEPT ![s].st = "closed"]
    /\ Deregister(s)
    /\ UNCHANGED <<tokenVars, timeVars, storeVars, refresh, check, deviceVars,
                   revokeCall, faults, ops, current, past>>

-----------------------------------------------------------------------------
(* The gateway: WsDeviceGuard before every message of the device, and        *)
(* isCurrentDeliveryDeviceSocket before every delivery to it                 *)

CheckRead(s) ==
    /\ sock[s].st = "open" /\ check[s].pc = "idle"
    /\ check' = [check EXCEPT ![s] = [pc |-> "read", seen |-> Stored]]
    /\ UNCHANGED <<tokenVars, timeVars, storeVars, sock, deviceSockets, refresh,
                   deviceVars, revokeCall, faults, ops, current, past>>

(* The row read before the await against the socket's hash after it.         *)
CheckPasses(s) == check[s].seen = sock[s].hash /\ check[s].seen # NoToken

CheckDecide(s) ==
    /\ check[s].pc = "read"
    /\ check' = [check EXCEPT ![s] = NoCheck]
    /\ IF CheckPasses(s) \/ sock[s].st # "open"
         THEN UNCHANGED <<sock, deviceSockets, inbox>>
         ELSE /\ sock' = [sock EXCEPT ![s].st = "closed"]
              /\ Deregister(s)
              /\ SendTo(s, Terminal)
    /\ UNCHANGED <<tokenVars, timeVars, storeVars, refresh, client, revokeCall,
                   faults, ops, current, past>>

(* Variant: only handleConnection refreshes.                                 *)
HeartbeatOnly(s) ==
    /\ check[s].pc = "read" /\ CheckPasses(s) /\ deviceSockets = s
    /\ check' = [check EXCEPT ![s] = NoCheck]
    /\ UNCHANGED <<tokenVars, timeVars, storeVars, sock, deviceSockets, refresh, deviceVars,
                   revokeCall, faults, ops, current, past>>

(* handleHeartbeat, once its guard passed, ends with maybeRefreshDeviceToken; *)
(* a call beside a running one finds the cooldown claimed.                   *)
Heartbeat(s) ==
    /\ check[s].pc = "read" /\ CheckPasses(s) /\ deviceSockets = s
    /\ check' = [check EXCEPT ![s] = NoCheck]
    /\ \/ /\ refresh[s].pc = "idle"
          /\ refresh' = [refresh EXCEPT ![s] = DueRefresh]
          /\ UNCHANGED sock
       \/ /\ refresh[s].pc # "idle" /\ RefreshDue(s) /\ cooldown
          /\ sock' = [sock EXCEPT ![s].issued = TRUE]
          /\ UNCHANGED refresh
    /\ UNCHANGED <<tokenVars, timeVars, storeVars, deviceSockets, deviceVars,
                   revokeCall, faults, ops, current, past>>

-----------------------------------------------------------------------------
(* The gateway: maybeRefreshDeviceToken, at the end of handleConnection and  *)
(* of every heartbeat                                                        *)

(* Variant: no cooldown.                                                     *)
ClaimsAlways(s) == RefreshDue(s)

(* setNx on the cooldown key.                                                *)
Claims(s) == RefreshDue(s) /\ ~cooldown

RefreshClaim(s) ==
    /\ refresh[s].pc = "due" /\ Claims(s)
    /\ cooldown' = TRUE
    /\ Sign(root[sock[s].hash])
    /\ refresh' = [refresh EXCEPT ![s] =
                     [pc |-> "minted", prev |-> sock[s].hash, next |-> minted + 1]]
    /\ past' = [past EXCEPT !.blind = @ \/ sock[s].tok # sock[s].hash]
    /\ UNCHANGED <<timeVars, display, grace, sock, deviceSockets, check, deviceVars,
                   revokeCall, faults, ops, current>>

(* Nothing to do, or setNx throws: skip, the next heartbeat tries again.     *)
RefreshSkip(s) ==
    /\ refresh[s].pc = "due"
    /\ \/ ~RefreshDue(s) /\ UNCHANGED faults
       \/ RefreshDue(s) /\ Fault
    /\ refresh' = [refresh EXCEPT ![s] = NoRefresh]
    /\ UNCHANGED <<tokenVars, timeVars, storeVars, sock, deviceSockets, check,
                   deviceVars, revokeCall, ops, current, past>>

RefreshNotClaimed(s) ==
    /\ refresh[s].pc = "due" /\ RefreshDue(s) /\ cooldown
    /\ sock' = [sock EXCEPT ![s].issued = TRUE]
    /\ refresh' = [refresh EXCEPT ![s] = NoRefresh]
    /\ UNCHANGED <<tokenVars, timeVars, storeVars, deviceSockets, check,
                   deviceVars, revokeCall, faults, ops, current, past>>

(* The record lives as long as the JWT of the socket's handshake.            *)
RefreshPublishGrace(s) ==
    /\ refresh[s].pc = "minted"
    /\ \/ /\ grace' = [prev |-> refresh[s].prev, next |-> refresh[s].next,
                       exp |-> sock[s].tok]
          /\ refresh' = [refresh EXCEPT ![s].pc = "graced"]
          /\ UNCHANGED faults
       \/ /\ Fault
          /\ refresh' = [refresh EXCEPT ![s] = NoRefresh]
          /\ UNCHANGED grace
    /\ UNCHANGED <<tokenVars, timeVars, display, cooldown, sock, deviceSockets, check,
                   deviceVars, revokeCall, ops, current, past>>

(* Variant: the row is written by the device's id alone.                     *)
RotatesAny(s) == display.exists

(* updateMany's where: the row still has the hash the refresh replaces.      *)
Rotates(s) == display.exists /\ display.jwtToken = refresh[s].prev

(* updateMany may throw before it commits, or after.                         *)
RefreshRotate(s) ==
    /\ refresh[s].pc = "graced"
    /\ \/ /\ Rotates(s)
          /\ display' = [display EXCEPT !.jwtToken = refresh[s].next]
          /\ refresh' = [refresh EXCEPT ![s].pc = "rotated"]
          /\ UNCHANGED <<faults, past>>
       \/ /\ ~Rotates(s)
          /\ refresh' = [refresh EXCEPT ![s].pc = "cleanup"]
          /\ UNCHANGED <<display, faults, past>>
       \/ /\ Fault
          /\ refresh' = [refresh EXCEPT ![s].pc = "cleanup"]
          /\ \/ UNCHANGED <<display, past>>
             \/ /\ Rotates(s)
                /\ display' = [display EXCEPT !.jwtToken = refresh[s].next]
                /\ past' = [past EXCEPT !.torn = TRUE]
    /\ UNCHANGED <<tokenVars, timeVars, grace, cooldown, sock, deviceSockets, check,
                   deviceVars, revokeCall, ops, current>>

RefreshEmit(s) ==
    /\ refresh[s].pc = "rotated"
    /\ sock' = [sock EXCEPT ![s].hash = refresh[s].next, ![s].issued = TRUE]
    /\ refresh' = [refresh EXCEPT ![s] = NoRefresh]
    /\ IF sock[s].st = "open" THEN SendTo(s, refresh[s].next) ELSE UNCHANGED inbox
    /\ UNCHANGED <<tokenVars, timeVars, storeVars, deviceSockets, check, client,
                   revokeCall, faults, ops, current, past>>

(* deleteOwnedGraceRecord: get and compare, then delete whatever is there.   *)
DeleteOwnedGraceGet(s) ==
    /\ refresh[s].pc = "cleanup"
    /\ \/ /\ GraceAccepts(refresh[s].prev, refresh[s].next)
          /\ refresh' = [refresh EXCEPT ![s].pc = "owned"]
          /\ UNCHANGED faults
       \/ /\ ~GraceAccepts(refresh[s].prev, refresh[s].next)
          /\ refresh' = [refresh EXCEPT ![s] = NoRefresh]
          /\ UNCHANGED faults
       \/ /\ Fault
          /\ refresh' = [refresh EXCEPT ![s] = NoRefresh]
    /\ UNCHANGED <<tokenVars, timeVars, storeVars, sock, deviceSockets, check,
                   deviceVars, revokeCall, ops, current, past>>

DeleteOwnedGraceDelete(s) ==
    /\ refresh[s].pc = "owned"
    /\ refresh' = [refresh EXCEPT ![s] = NoRefresh]
    /\ \/ grace' = NoGrace /\ UNCHANGED faults
       \/ Fault /\ UNCHANGED grace
    /\ UNCHANGED <<tokenVars, timeVars, display, cooldown, sock, deviceSockets, check,
                   deviceVars, revokeCall, ops, current, past>>

(* The gateway process restarts: its Maps, sockets and running handlers go.  *)
GatewayRestart ==
    /\ Fault
    /\ sock' = [s \in Socket |-> ClosedSocket]
    /\ deviceSockets' = None
    /\ refresh' = [s \in Socket |-> NoRefresh]
    /\ check' = [s \in Socket |-> NoCheck]
    /\ client' = [client EXCEPT !.conn = None]
    /\ inbox' = <<>>
    /\ UNCHANGED <<tokenVars, timeVars, storeVars, revokeCall, ops, current, past>>

-----------------------------------------------------------------------------
(* The middleware: operators, and the revoke call they fire and forget       *)

OperatorAction == display.exists /\ ops < MaxOps /\ ops' = ops + 1

GeneratePairingToken ==
    /\ OperatorAction
    /\ Sign(minted + 1)
    /\ current' = minted + 1
    /\ display' = [display EXCEPT !.jwtToken = minted + 1]
    /\ UNCHANGED <<timeVars, serverVars, grace, cooldown, deviceVars, revokeCall, faults, past>>

(* Variant: disabling also clears the stored hash.                           *)
DisableAndUnpair ==
    /\ OperatorAction
    /\ display' = [display EXCEPT !.isDisabled = TRUE, !.jwtToken = NoToken]
    /\ revokeCall' = TRUE
    /\ UNCHANGED <<tokenVars, timeVars, serverVars, grace, cooldown, deviceVars,
                   faults, current, past>>

DisableDevice ==
    /\ OperatorAction
    /\ display' = [display EXCEPT !.isDisabled = TRUE]
    /\ revokeCall' = TRUE
    /\ UNCHANGED <<tokenVars, timeVars, serverVars, grace, cooldown, deviceVars,
                   faults, current, past>>

EnableDevice ==
    /\ OperatorAction
    /\ display' = [display EXCEPT !.isDisabled = FALSE]
    /\ UNCHANGED <<tokenVars, timeVars, serverVars, grace, cooldown, deviceVars,
                   revokeCall, faults, current, past>>

Remove ==
    /\ OperatorAction
    /\ display' = [display EXCEPT !.exists = FALSE]
    /\ revokeCall' = TRUE
    /\ UNCHANGED <<tokenVars, timeVars, serverVars, grace, cooldown, deviceVars,
                   faults, current, past>>

(* revokeDevice: device:revoked (no listener in the Electron client), then   *)
(* the error device_disabled and a forced disconnect.  The call may be lost. *)
RevokeDevice ==
    /\ revokeCall
    /\ revokeCall' = FALSE
    /\ \/ /\ deviceSockets # None
          /\ sock' = [sock EXCEPT ![deviceSockets].st = "closed"]
          /\ deviceSockets' = None
          /\ SendTo(deviceSockets, Closed)
          /\ UNCHANGED faults
       \/ /\ deviceSockets = None
          /\ UNCHANGED <<sock, deviceSockets, inbox, faults>>
       \/ /\ Fault
          /\ UNCHANGED <<sock, deviceSockets, inbox>>
    /\ UNCHANGED <<tokenVars, timeVars, storeVars, refresh, check, client, ops, current, past>>

-----------------------------------------------------------------------------
(* Time.  Fourteen days are some 80,000 heartbeats: a JWT a socket is open   *)
(* on expires only after the heartbeats of that socket have nothing left to  *)
(* do for it.                                                                *)

BecomeNear ==
    /\ Settled /\ nearTo < minted
    /\ nearTo' = nearTo + 1
    /\ UNCHANGED <<tokenVars, expTo, serverVars, storeVars, deviceVars, revokeCall,
                   faults, ops, current, past>>

Expire ==
    /\ Settled /\ expTo < nearTo
    /\ \A s \in Socket : sock[s].st = "open" /\ sock[s].tok = expTo + 1 => sock[s].issued
    /\ expTo' = expTo + 1
    /\ UNCHANGED <<tokenVars, nearTo, serverVars, storeVars, deviceVars, revokeCall,
                   faults, ops, current, past>>

CooldownExpire ==
    /\ Settled /\ cooldown
    /\ cooldown' = FALSE
    /\ UNCHANGED <<tokenVars, timeVars, serverVars, display, grace, deviceVars,
                   revokeCall, faults, ops, current, past>>

(* Variant: a TTL of minutes, whatever is left of the old JWT.               *)
GraceExpireEarly ==
    /\ Settled /\ grace # NoGrace
    /\ grace' = NoGrace
    /\ UNCHANGED <<tokenVars, timeVars, serverVars, display, cooldown, deviceVars,
                   revokeCall, faults, ops, current, past>>

GraceExpire ==
    /\ grace # NoGrace /\ Expired(grace.exp)
    /\ grace' = NoGrace
    /\ UNCHANGED <<tokenVars, timeVars, serverVars, display, cooldown, deviceVars,
                   revokeCall, faults, ops, current, past>>

-----------------------------------------------------------------------------
Client == ClientReceive \/ LoseConnection \/ \E s \in Socket : ClientConnect(s)

Handshake(s) == \/ HandshakeRow(s) \/ HandshakeGrace(s)
                \/ HandleConnection(s) \/ HandleUnverifiedConnection(s)
                \/ HandleDisconnect(s)

Checks(s) == CheckRead(s) \/ CheckDecide(s) \/ Heartbeat(s)

Refreshes(s) == \/ RefreshClaim(s) \/ RefreshNotClaimed(s) \/ RefreshSkip(s)
                \/ RefreshPublishGrace(s)
                \/ RefreshRotate(s) \/ RefreshEmit(s)
                \/ DeleteOwnedGraceGet(s) \/ DeleteOwnedGraceDelete(s)

Operator == GeneratePairingToken \/ DisableDevice \/ EnableDevice \/ Remove \/ RevokeDevice

Time == BecomeNear \/ Expire \/ CooldownExpire \/ GraceExpire

Next == \/ Client \/ Operator \/ Time \/ GatewayRestart
        \/ \E s \in Socket : Handshake(s) \/ Checks(s) \/ Refreshes(s)

Spec == Init /\ [][Next]_vars

(* Every handler runs to its end, what was sent arrives, Redis expires its   *)
(* keys, and a connected device heartbeats every 15 seconds.                 *)
Fairness ==
    /\ WF_vars(ClientReceive) /\ WF_vars(CooldownExpire)
    /\ \A s \in Socket : /\ WF_vars(Handshake(s)) /\ WF_vars(Refreshes(s))
                         /\ WF_vars(CheckRead(s)) /\ WF_vars(CheckDecide(s))
                         /\ SF_vars(Heartbeat(s))

FairSpec == Spec /\ Fairness

-----------------------------------------------------------------------------
(* Properties                                                                *)

Rotating(s) == refresh[s].pc \notin {"idle", "due"}
Entering(s) == sock[s].st \in {"row", "grace", "accepted", "pass"}
Admitted(s) == sock[s].st \in {"accepted", "open"} \/ refresh[s].pc # "idle"

(* The state is well formed; in particular the stored hash is never cleared  *)
(* once the device was paired (pairing.service.ts relies on it).             *)
TypeOK ==
    /\ minted \in Token /\ nearTo \in TokenOrNone /\ expTo \in TokenOrNone
    /\ display \in [exists : BOOLEAN, isDisabled : BOOLEAN, jwtToken : Token]
    /\ grace \in GraceRecord /\ cooldown \in BOOLEAN
    /\ sock \in [Socket -> SocketRecord] /\ deviceSockets \in Socket \cup {None}
    /\ refresh \in [Socket -> RefreshRecord] /\ check \in [Socket -> CheckRecord]
    /\ revokeCall \in BOOLEAN
    /\ client \in [token : TokenOrNone, conn : Socket \cup {None}]
    /\ inbox \in Seq(Message) /\ faults \in Nat /\ ops \in Nat
    /\ root \in [Token -> TokenOrNone] /\ current \in Token
    /\ past \in [blind : BOOLEAN, torn : BOOLEAN]

(* A re-pair ends everything issued before it (device-token-hash.ts: "grace  *)
(* only ever revives the exact prev->next rotation it recorded"): a JWT that *)
(* would be let in, and a socket that would pass a delivery check, descend   *)
(* by refreshes from the last JWT an operator issued.                        *)
NoRevival ==
    /\ \A t \in Token : Accepted(t) => root[t] = current
    /\ \A s \in Socket :
          sock[s].st = "open" /\ sock[s].hash = Stored => root[sock[s].tok] = current

(* Every JWT in use has been signed, a socket that is being let in runs no   *)
(* refresh, and the socket of the Map entry is open.                         *)
Issued == 1 .. minted
StoresInUse ==
    /\ display.jwtToken \in Issued /\ current \in Issued /\ client.token \in {NoToken} \cup Issued
    /\ grace = NoGrace \/ (grace.prev \in Issued /\ grace.next \in Issued)
InboxInUse == \A i \in DOMAIN inbox : inbox[i] \in Token => inbox[i] \in Issued
EntryIsOpen == deviceSockets # None => sock[deviceSockets].st = "open"
SocketInUse(s) ==
    /\ Entering(s) => sock[s].tok \in Issued /\ refresh[s].pc = "idle"
    /\ Admitted(s) => sock[s].tok \in Issued /\ sock[s].hash \in Issued
    /\ sock[s].st = "grace" => sock[s].hash \in Issued
    /\ Rotating(s) => refresh[s].prev \in Issued /\ refresh[s].next \in Issued
InUse == StoresInUse /\ InboxInUse /\ EntryIsOpen /\ \A s \in Socket : SocketInUse(s)

(* A refresh, and the grace record it leaves, join JWTs of one lineage only, *)
(* and a socket is known by a hash of its JWT's lineage.                     *)
StoresLineage ==
    /\ root[display.jwtToken] = current
    /\ grace # NoGrace => root[grace.prev] = root[grace.next]
SocketLineage(s) ==
    /\ Admitted(s) => root[sock[s].tok] = root[sock[s].hash]
    /\ Rotating(s) => /\ root[refresh[s].prev] = root[refresh[s].next]
                      /\ root[refresh[s].prev] = root[sock[s].hash]
Lineage == StoresLineage /\ \A s \in Socket : SocketLineage(s)

(* Whatever is lost, and wherever a refresh stops, the JWT the device still  *)
(* holds is let in until it expires, with two exceptions only: a refresh     *)
(* begun on a socket that was itself let in by the grace record (blind), and *)
(* a rotation that committed although it was reported to have failed (torn). *)
SurvivesLostRefresh ==
    /\ ~past.blind /\ ~past.torn
    /\ client.token # NoToken /\ root[client.token] = current
    /\ Stored # NoToken /\ ~Expired(client.token)
    => Accepted(client.token)

(* The cooldown keeps two refreshes of the device from running side by side  *)
(* (device.gateway.ts: "multiple in-flight tokens would race the single      *)
(* stored hash").                                                            *)
OneRotationAtATime == \A s, t \in Socket : Rotating(s) /\ Rotating(t) => s = t

(* A JWT that is good when the handshake is answered is not turned away, on  *)
(* reads that both succeed: the row is read before the grace record, and a   *)
(* rotation may come between the two (device-handshake-auth.ts takes the     *)
(* record for the previous JWT of the row it read).  It may be turned away   *)
(* because the grace record could not be read: the exception.                *)
GoodJwtIsLetIn ==
    \A s \in Socket :
        sock[s].st = "grace" /\ Accepted(sock[s].tok) => GraceAccepts(sock[s].tok, sock[s].hash)

(* Refreshes run one at a time, each under the cooldown, and towards a       *)
(* younger JWT.                                                              *)
RotationsApart ==
    /\ OneRotationAtATime
    /\ \A s \in Socket : Rotating(s) => cooldown /\ refresh[s].prev < refresh[s].next

(* The JWTs the device holds or is about to: they descend from JWT 1, as do  *)
(* those its sockets were opened with.                                       *)
InHand(t) == t \in Token /\ (t = client.token \/ \E i \in DOMAIN inbox : inbox[i] = t)
FirstLine ==
    /\ client.token = NoToken => client.conn = None
    /\ client.conn = None => inbox = <<>>
    /\ \A t \in Token : InHand(t) => root[t] = 1
    /\ \A s \in Socket : Entering(s) \/ Admitted(s) => root[sock[s].tok] = 1

(* They are no younger than the row's, and the record of a refresh is out    *)
(* before the row changes: where a handshake has read the row, the record    *)
(* that names its JWT names the hash it has read, or not the row's.          *)
NoYounger(s) ==
    /\ Entering(s) => sock[s].tok <= display.jwtToken
    /\ sock[s].st = "grace" => sock[s].tok < sock[s].hash /\ sock[s].hash <= display.jwtToken
    /\ refresh[s].pc = "rotated" => refresh[s].next <= display.jwtToken
RecordFirst(s) ==
    /\ refresh[s].pc \in {"minted", "graced"} => refresh[s].next # display.jwtToken
    /\ refresh[s].pc = "minted" => grace.next # refresh[s].next
    /\ refresh[s].pc = "graced" /\ grace.next = refresh[s].next => grace.prev = refresh[s].prev
    /\ sock[s].st = "grace" /\ GraceAccepts(sock[s].tok, display.jwtToken) =>
          sock[s].hash = display.jwtToken
InOrder ==
    /\ \A t \in Token : InHand(t) => t <= display.jwtToken
    /\ \A s \in Socket : NoYounger(s) /\ RecordFirst(s)

(* While neither exception has happened, each is the current one, or the     *)
(* grace record joins it to that until it expires.  No socket was opened     *)
(* with a later one, a refresh rotates the JWT its socket was opened with,   *)
(* and what was read before the last rotation is used under its cooldown     *)
(* only.                                                                     *)
Unbroken == current = 1 /\ ~past.blind /\ ~past.torn
Usable(t) ==
    \/ t = display.jwtToken \/ Expired(t)
    \/ grace.prev = t /\ grace.next = display.jwtToken /\ grace.exp = t
Held == \A t \in Token : InHand(t) => Usable(t)
HeldSocket(s) ==
    /\ Entering(s) \/ Admitted(s) => \A t \in Token : InHand(t) => sock[s].tok <= t
    /\ Rotating(s) =>
          /\ refresh[s].prev = sock[s].tok
          /\ display.jwtToken = IF refresh[s].pc = "rotated" THEN refresh[s].next
                                                             ELSE refresh[s].prev
    /\ refresh[s].pc = "graced" =>
          \/ Expired(refresh[s].prev)
          \/ grace = [prev |-> refresh[s].prev, next |-> refresh[s].next, exp |-> refresh[s].prev]
Fresh(s) ==
    ~cooldown => /\ refresh[s].pc = "due" \/ sock[s].st \in {"accepted", "grace"} =>
                       sock[s].hash = display.jwtToken
                 /\ check[s].pc = "read" => check[s].seen \in {NoToken, display.jwtToken}
Unlost ==
    FirstLine /\ (Unbroken => Held /\ \A s \in Socket : HeldSocket(s) /\ Fresh(s))

(* The inductive invariant under NoRevival, SurvivesLostRefresh,             *)
(* OneRotationAtATime and GoodJwtIsLetIn: it holds  after every step from    *)
(* any state in which it holds.                                              *)
IInv == TypeOK /\ InUse /\ Lineage /\ RotationsApart /\ InOrder /\ Unlost

(* Unless something fails, a device that stays connected into the last fourteen *)
(* days of its JWT is sent the next one, holds it, and is let in on it.      *)
FirstRefreshArrives ==
    \A s \in Socket :
        (client.conn = s /\ sock[s].st = "open" /\ client.token = 1 /\ NearExpiry(1))
            ~> \/ client.token > 1 /\ Accepted(client.token)
               \/ client.conn # s \/ ops > 0 \/ faults > 0
================================================================================
