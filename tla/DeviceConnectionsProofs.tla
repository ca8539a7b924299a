------------------------ MODULE DeviceConnectionsProofs ------------------------
(***************************************************************************)
(* Lemmas about DeviceConnections, for the proofs of the modules that      *)
(* extend it: every operation keeps the types and the one connection.      *)
(***************************************************************************)
EXTENDS DeviceConnections, TLAPS

LEMMA AtTyped ==
    ASSUME NEW gs, NEW ps, ConnectionTypeOK(gs, ps), NEW s \in Socket
    PROVE  /\ \A pc \in gs \cup {"idle", "begin"} :
                GreetingAt(s, pc) => greeting' \in [Socket -> gs \cup {"idle", "begin"}]
           /\ \A pc \in ps \cup {"idle", "begin"} :
                PartingAt(s, pc) => parting' \in [Socket -> ps \cup {"idle", "begin"}]
  BY DEF ConnectionTypeOK, GreetingAt, PartingAt

LEMMA LeavesTyped ==
    ASSUME NEW gs, NEW ps, ConnectionTypeOK(gs, ps), NEW s \in Socket, Leaves(s)
    PROVE  /\ parting' \in [Socket -> ps \cup {"idle", "begin"}]
           /\ deviceSockets' \in Socket \cup {None}
<1>1. parting' \in [Socket -> ps \cup {"idle", "begin"}]
  BY AtTyped DEF Leaves, ConnectionTypeOK
<1> QED
  BY <1>1 DEF Leaves, ConnectionTypeOK

LEMMA AcceptTyped ==
    ASSUME NEW gs, NEW ps, ConnectionTypeOK(gs, ps), NEW s \in Socket, Accept(s)
    PROVE  ConnectionTypeOK(gs, ps)'
<1>1. greeting' \in [Socket -> gs \cup {"idle", "begin"}]
  BY AtTyped DEF Accept
<1>2. parting' \in [Socket -> ps \cup {"idle", "begin"}]
  <2>1. CASE Active(deviceSockets)
    <3>1. deviceSockets \in Socket
      BY <2>1 DEF Active, ConnectionTypeOK
    <3> QED
      BY <2>1, <3>1, AtTyped DEF Accept
  <2> QED
    BY <2>1 DEF Accept, ConnectionTypeOK
<1>3. sock' \in [Socket -> BOOLEAN]
  BY DEF Accept, ConnectionTypeOK
<1> QED
  BY <1>1, <1>2, <1>3 DEF Accept, ConnectionTypeOK

LEMMA LoseClientTyped ==
    ASSUME NEW gs, NEW ps, ConnectionTypeOK(gs, ps), LoseClient
    PROVE  ConnectionTypeOK(gs, ps)'
  BY DEF LoseClient, ConnectionTypeOK

LEMMA CloseTyped ==
    ASSUME NEW gs, NEW ps, ConnectionTypeOK(gs, ps), NEW s \in Socket, Close(s)
    PROVE  ConnectionTypeOK(gs, ps)'
<1>1. sock' \in [Socket -> BOOLEAN]
  BY DEF Close, ConnectionTypeOK
<1> QED
  BY <1>1, LeavesTyped DEF Close, ConnectionTypeOK

LEMMA CloseAfterThrowTyped ==
    ASSUME NEW gs, NEW ps, ConnectionTypeOK(gs, ps), NEW s \in Socket, CloseAfterThrow(s)
    PROVE  ConnectionTypeOK(gs, ps)'
<1>1. sock' \in [Socket -> BOOLEAN] /\ client' \in Socket \cup {None}
  BY DEF CloseAfterThrow, ConnectionTypeOK
<1>2. greeting' \in [Socket -> gs \cup {"idle", "begin"}]
  BY AtTyped DEF CloseAfterThrow
<1>3. /\ parting' \in [Socket -> ps \cup {"idle", "begin"}]
      /\ deviceSockets' \in Socket \cup {None}
  BY LeavesTyped DEF CloseAfterThrow, ConnectionTypeOK
<1> QED
  BY <1>1, <1>2, <1>3 DEF ConnectionTypeOK

LEMMA RestartTyped ==
    ASSUME NEW gs, NEW ps, Restart \/ NoConnection'
    PROVE  ConnectionTypeOK(gs, ps)'
  BY DEF Restart, NoConnection, ConnectionTypeOK

-----------------------------------------------------------------------------
(* One connection.  What each operation does, given that.                    *)

LEMMA NoConnectionIsOne == NoConnection => OneConnection
  BY DeviceConnectionsAssumption DEF NoConnection, OneConnection

LEMMA RestartIsOne == Restart => OneConnection'
  BY DeviceConnectionsAssumption DEF Restart, OneConnection

(* A connect makes s the entry, and begins the disconnect of the entry that  *)
(* there was.                                                                *)
LEMMA AcceptIsOne ==
    ASSUME NEW gs, NEW ps, ConnectionTypeOK(gs, ps), OneConnection, NEW s \in Socket, Accept(s)
    PROVE  /\ OneConnection' /\ deviceSockets' = s /\ deviceSockets # s
           /\ greeting[s] = "idle" /\ greeting' = [greeting EXCEPT ![s] = "begin"]
           /\ parting[s] = "idle" /\ parting'[s] = "idle"
           /\ IF deviceSockets = None THEN UNCHANGED parting
              ELSE parting' = [parting EXCEPT ![deviceSockets] = "begin"]
<1>1. deviceSockets # s /\ deviceSockets \in Socket \cup {None} /\ s # None
  BY DeviceConnectionsAssumption DEF OneConnection, Accept, ConnectionTypeOK
<1>2. Active(deviceSockets) <=> deviceSockets # None
  BY <1>1 DEF Active, OneConnection
<1>3. parting'[s] = "idle"
  BY <1>1 DEF Accept, PartingAt, ConnectionTypeOK
<1>4. /\ client' = s /\ deviceSockets' = s /\ greeting[s] = "idle" /\ parting[s] = "idle"
      /\ greeting' = [greeting EXCEPT ![s] = "begin"]
  BY DEF Accept, GreetingAt
<1>5. \A t \in Socket : sock'[t] <=> t = s
  <2> SUFFICES ASSUME NEW t \in Socket PROVE sock'[t] <=> t = s
    OBVIOUS
  <2>1. sock'[t] = (t # deviceSockets /\ (t = s \/ sock[t]))
    <3>1. CASE deviceSockets = None
      <4>1. sock' = [sock EXCEPT ![s] = TRUE] /\ t # deviceSockets
        BY <1>2, <3>1, DeviceConnectionsAssumption DEF Accept
      <4> QED
        BY <4>1 DEF ConnectionTypeOK
    <3>2. CASE deviceSockets # None
      <4>1. sock' = [sock EXCEPT ![s] = TRUE, ![deviceSockets] = FALSE]
        BY <1>2, <3>2 DEF Accept
      <4> QED
        BY <1>1, <4>1 DEF ConnectionTypeOK
    <3> QED
      BY <3>1, <3>2
  <2> QED
    BY <1>1, <2>1 DEF OneConnection
<1>6. IF deviceSockets = None THEN UNCHANGED parting
      ELSE parting' = [parting EXCEPT ![deviceSockets] = "begin"]
  BY <1>2 DEF Accept, PartingAt
<1>7. OneConnection'
  BY <1>3, <1>4, <1>5 DEF OneConnection
<1> QED
  BY <1>1, <1>3, <1>4, <1>6, <1>7

LEMMA LoseClientIsOne ==
    ASSUME OneConnection, LoseClient PROVE OneConnection'
  BY DEF LoseClient, OneConnection

(* The gateway closes the entry, and begins its disconnect.                  *)
LEMMA CloseIsOne ==
    ASSUME NEW gs, NEW ps, ConnectionTypeOK(gs, ps), OneConnection, NEW s \in Socket, Close(s)
    PROVE  /\ OneConnection' /\ deviceSockets = s /\ deviceSockets' = None
           /\ parting' = [parting EXCEPT ![s] = "begin"] /\ UNCHANGED greeting
<1>1. /\ deviceSockets = s /\ client = None /\ client' = client
      /\ deviceSockets' = None /\ parting' = [parting EXCEPT ![s] = "begin"]
      /\ UNCHANGED greeting
  BY DEF Close, OneConnection, Leaves, PartingAt
<1>2. \A t \in Socket : ~sock'[t]
  BY <1>1 DEF Close, OneConnection, ConnectionTypeOK
<1>3. OneConnection'
  BY <1>1, <1>2, DeviceConnectionsAssumption DEF OneConnection
<1> QED
  BY <1>1, <1>3

(* The connect of s has thrown: s was the entry, or is closed already.       *)
LEMMA CloseAfterThrowIsOne ==
    ASSUME NEW gs, NEW ps, ConnectionTypeOK(gs, ps), OneConnection, NEW s \in Socket,
           CloseAfterThrow(s)
    PROVE  /\ OneConnection' /\ greeting' = [greeting EXCEPT ![s] = "idle"]
           /\ IF deviceSockets = s
                THEN deviceSockets' = None /\ parting' = [parting EXCEPT ![s] = "begin"]
                ELSE UNCHANGED <<deviceSockets, parting>>
<1>1. /\ greeting' = [greeting EXCEPT ![s] = "idle"]
      /\ IF deviceSockets = s
           THEN deviceSockets' = None /\ parting' = [parting EXCEPT ![s] = "begin"]
           ELSE UNCHANGED <<deviceSockets, parting>>
  BY DEF CloseAfterThrow, OneConnection, Leaves, GreetingAt, PartingAt
<1>2. \A t \in Socket : sock'[t] <=> sock[t] /\ t # s
  BY DEF CloseAfterThrow, ConnectionTypeOK
<1>3. client' = IF client = s THEN None ELSE client
  BY DEF CloseAfterThrow
<1>4. OneConnection'
  BY <1>1, <1>2, <1>3, DeviceConnectionsAssumption DEF OneConnection
<1> QED
  BY <1>1, <1>4
================================================================================
