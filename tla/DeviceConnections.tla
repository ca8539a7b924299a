--------------------------- MODULE DeviceConnections ---------------------------
(***************************************************************************)
(* The connections of ONE device to the gateway, of which the gateway      *)
(* keeps one: the device's sockets, the gateway's Map, and how far the     *)
(* handlers of a connect (greeting) and of a disconnect (parting) of each  *)
(* socket have run.  A handler is "idle", or has run to its first await    *)
(* ("begin"), or further: the modules that extend this one say how.        *)
(***************************************************************************)
CONSTANTS
    Socket,       \* socket ids the gateway hands out; a closed one is used again
    None          \* no socket

ASSUME DeviceConnectionsAssumption == None \notin Socket

VARIABLES
    deviceSockets,  \* the gateway's Map entry for this device
    sock,           \* which sockets are open at the gateway
    client,         \* the socket the device itself believes open
    greeting,       \* handleConnection of each socket
    parting         \* handleDisconnect of each socket

socketVars == <<deviceSockets, sock, client>>
connectionVars == <<socketVars, greeting, parting>>

(* isActiveDeviceSocket                                                      *)
Active(s) == s # None /\ deviceSockets = s /\ sock[s]

(* The device has a connection, or neither it nor the gateway thinks so.     *)
Connected == client # None /\ sock[client]
Away == client = None /\ \A s \in Socket : ~sock[s]

GreetingAt(s, pc) == greeting' = [greeting EXCEPT ![s] = pc]
PartingAt(s, pc) == parting' = [parting EXCEPT ![s] = pc]

(* handleDisconnect of s up to its first await: the disconnect of a socket   *)
(* that was replaced is ignored.                                             *)
Leaves(s) ==
    IF deviceSockets \in {s, None}
      THEN PartingAt(s, "begin") /\ deviceSockets' = None
      ELSE UNCHANGED <<parting, deviceSockets>>

(* Variant: the socket that was the device's stays open.                     *)
AcceptKeepsOld(s) ==
    /\ client = None /\ ~sock[s] /\ greeting[s] = "idle" /\ parting[s] = "idle"
    /\ client' = s /\ deviceSockets' = s
    /\ GreetingAt(s, "begin")
    /\ sock' = [sock EXCEPT ![s] = TRUE]
    /\ UNCHANGED parting

(* authenticateConnection: the socket that was the device's is disconnected, *)
(* and its handleDisconnect begins before the Map has the new one.           *)
Accept(s) ==
    /\ client = None /\ ~sock[s] /\ greeting[s] = "idle" /\ parting[s] = "idle"
    /\ client' = s /\ deviceSockets' = s
    /\ GreetingAt(s, "begin")
    /\ IF Active(deviceSockets)
         THEN /\ sock' = [sock EXCEPT ![s] = TRUE, ![deviceSockets] = FALSE]
              /\ PartingAt(deviceSockets, "begin")
         ELSE /\ sock' = [sock EXCEPT ![s] = TRUE]
              /\ UNCHANGED parting

(* The device's side of a connection ends;                                   *)
LoseClient ==
    /\ client # None
    /\ client' = None
    /\ UNCHANGED <<deviceSockets, sock, greeting, parting>>

(* the gateway notices.                                                      *)
Close(s) ==
    /\ sock[s] /\ client # s
    /\ sock' = [sock EXCEPT ![s] = FALSE]
    /\ Leaves(s)
    /\ UNCHANGED <<client, greeting>>

(* client.disconnect() in the catch of handleConnection.                     *)
CloseAfterThrow(s) ==
    /\ GreetingAt(s, "idle")
    /\ sock' = [sock EXCEPT ![s] = FALSE]
    /\ client' = IF client = s THEN None ELSE client
    /\ IF sock[s] THEN Leaves(s) ELSE UNCHANGED <<parting, deviceSockets>>

(* The gateway's Maps, sockets and running handlers go.                      *)
Restart ==
    /\ deviceSockets' = None /\ sock' = [s \in Socket |-> FALSE] /\ client' = None
    /\ greeting' = [s \in Socket |-> "idle"] /\ parting' = [s \in Socket |-> "idle"]

(* The device is away, and nothing runs.                                     *)
NoConnection ==
    /\ deviceSockets = None /\ sock = [s \in Socket |-> FALSE] /\ client = None
    /\ greeting = [s \in Socket |-> "idle"] /\ parting = [s \in Socket |-> "idle"]

ConnectionTypeOK(greetingPcs, partingPcs) ==
    /\ deviceSockets \in Socket \cup {None} /\ client \in Socket \cup {None}
    /\ sock \in [Socket -> BOOLEAN]
    /\ greeting \in [Socket -> greetingPcs \cup {"idle", "begin"}]
    /\ parting \in [Socket -> partingPcs \cup {"idle", "begin"}]

(* The gateway has one open socket of the device at most, that of its Map    *)
(* entry, whose disconnect has not begun, and the device is on no other.     *)
OneConnection ==
    /\ \A s \in Socket : sock[s] <=> deviceSockets = s
    /\ client \in {None, deviceSockets}
    /\ deviceSockets # None => parting[deviceSockets] = "idle"
================================================================================
