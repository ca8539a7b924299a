-------------------------- MODULE FleetOverridesProofs --------------------------
(***************************************************************************)
(* Theorems about FleetOverrides: its types, and that it implements        *)
(* AtLeastOnce, for any sockets, replays, overrides and faults.            *)
(***************************************************************************)
EXTENDS FleetOverrides, TLAPS

(* TypeOK without who waits for what.                                        *)
Types ==
    /\ fleet \in [Override -> {"idle", "posted", "ended"}] /\ records \subseteq Override
    /\ call \in [Command -> CallRecord] /\ queue \in Seq(Command)
    /\ initial \in [Socket -> BOOLEAN]
    /\ replay \in [Replay -> ReplayRecord] /\ failures \in Nat
    /\ sock \in [Socket -> BOOLEAN] /\ deviceSockets \in Socket \cup {None}
    /\ client \in Socket \cup {None} /\ inbox \in Seq(Message)
    /\ overlay \in [n : Override \cup {NoOverride}, late : BOOLEAN]
    /\ faults \in 0 .. MaxFaults /\ executed \subseteq Command /\ lost \subseteq Command
    /\ past \in Past

(* The queue is drained by a heartbeat or a connect.                         *)
Drains(s, r) == Heartbeat(s, r) \/ InitialDrain(s, r)

Messages == (\A m \in Among(inbox) : Awaited(m)) /\ WaitsForOne

-----------------------------------------------------------------------------
(* Sequences                                                                 *)

LEMMA AmongEmpty == Among(<<>>) = {}
  BY DEF Among

LEMMA AmongAppend ==
    ASSUME NEW S, NEW s \in Seq(S), NEW x \in S
    PROVE  Append(s, x) \in Seq(S) /\ Among(Append(s, x)) = Among(s) \cup {x}
<1>1. Append(s, x) \in Seq(S)
  OBVIOUS
<1>2. Len(Append(s, x)) = Len(s) + 1 /\ Append(s, x)[Len(s) + 1] = x
      /\ Len(s) \in Nat /\ DOMAIN s = 1 .. Len(s)
      /\ DOMAIN Append(s, x) = 1 .. Len(s) + 1
      /\ \A i \in 1 .. Len(s) : Append(s, x)[i] = s[i]
  OBVIOUS
<1>3. Among(Append(s, x)) \subseteq Among(s) \cup {x}
  <2> SUFFICES ASSUME NEW i \in 1 .. Len(s) + 1
               PROVE  Append(s, x)[i] \in Among(s) \cup {x}
    BY <1>2 DEF Among
  <2>1. i \in 1 .. Len(s) \/ i = Len(s) + 1
    BY <1>2
  <2> QED
    BY <1>2, <2>1 DEF Among
<1>4. Among(s) \subseteq Among(Append(s, x))
  <2> SUFFICES ASSUME NEW i \in 1 .. Len(s) PROVE s[i] \in Among(Append(s, x))
    BY <1>2 DEF Among
  <2>1. i \in DOMAIN Append(s, x) /\ s[i] = Append(s, x)[i]
    BY <1>2
  <2> QED
    BY <2>1 DEF Among
<1>5. x \in Among(Append(s, x))
  <2>1. Len(s) + 1 \in DOMAIN Append(s, x)
    BY <1>2
  <2> QED
    BY <1>2, <2>1 DEF Among
<1> QED
  BY <1>1, <1>3, <1>4, <1>5

LEMMA AmongTail ==
    ASSUME NEW S, NEW s \in Seq(S), s # <<>>
    PROVE  /\ Tail(s) \in Seq(S) /\ Head(s) \in S
           /\ Among(s) = {Head(s)} \cup Among(Tail(s))
<1>1. Tail(s) \in Seq(S) /\ Head(s) \in S /\ Head(s) = s[1]
  OBVIOUS
<1>2. Len(s) \in Nat \ {0} /\ DOMAIN s = 1 .. Len(s) /\ DOMAIN Tail(s) = 1 .. Len(s) - 1
      /\ \A i \in 1 .. Len(s) - 1 : Tail(s)[i] = s[i + 1]
  OBVIOUS
<1>3. Among(s) \subseteq {Head(s)} \cup Among(Tail(s))
  <2> SUFFICES ASSUME NEW i \in 1 .. Len(s) PROVE s[i] \in {Head(s)} \cup Among(Tail(s))
    BY <1>2 DEF Among
  <2>1. CASE i = 1
    BY <1>1, <2>1
  <2>2. CASE i # 1
    <3>1. i - 1 \in DOMAIN Tail(s) /\ Tail(s)[i - 1] = s[i]
      BY <1>2, <2>2
    <3> QED
      BY <3>1 DEF Among
  <2> QED
    BY <2>1, <2>2
<1>4. Head(s) \in Among(s)
  BY <1>1, <1>2 DEF Among
<1>5. Among(Tail(s)) \subseteq Among(s)
  <2> SUFFICES ASSUME NEW i \in 1 .. Len(s) - 1 PROVE Tail(s)[i] \in Among(s)
    BY <1>2 DEF Among
  <2>1. i + 1 \in DOMAIN s /\ Tail(s)[i] = s[i + 1]
    BY <1>2
  <2> QED
    BY <2>1 DEF Among
<1> QED
  BY <1>1, <1>3, <1>4, <1>5

LEMMA AmongTyped ==
    ASSUME NEW S, NEW s \in Seq(S) PROVE Among(s) \subseteq S
  BY DEF Among

-----------------------------------------------------------------------------
(* Messages on their way                                                     *)

(* A step of one call disturbs only the message of that call,                *)
LEMMA CallMoves ==
    ASSUME TypeOK, NEW c \in Command, UNCHANGED replay,
           \A d \in Command \ {c} : call'[d] = call[d]
    PROVE  /\ \A m \in Among(inbox) : m = Sent(c) \/ Awaited(m)'
           /\ call[c].pc # "waiting" => Sent(c) \notin Among(inbox)
<1>1. Among(inbox) \subseteq Message /\ \A m \in Among(inbox) : Awaited(m)
  BY AmongTyped DEF TypeOK
<1>2. ASSUME NEW m \in Among(inbox), m # Sent(c) PROVE Awaited(m)'
  <2>1. m \in Message /\ Awaited(m)
    BY <1>1
  <2>2. m.from = "call" => m.c # c
    BY <1>2, <2>1 DEF Message, Sent
  <2> QED
    BY <2>1, <2>2 DEF Awaited, Message
<1>3. call[c].pc # "waiting" => Sent(c) \notin Among(inbox)
  BY <1>1 DEF Awaited, Sent
<1> QED
  BY <1>2, <1>3

(* and a step of one replay that of that replay.                             *)
LEMMA ReplayMoves ==
    ASSUME TypeOK, NEW r \in Replay, UNCHANGED call,
           \A q \in Replay \ {r} : replay'[q] = replay[q]
    PROVE  /\ \A m \in Among(inbox) : m = Replayed(r) \/ Awaited(m)'
           /\ replay[r].pc # "waiting" => Replayed(r) \notin Among(inbox)
<1>1. Among(inbox) \subseteq Message /\ \A m \in Among(inbox) : Awaited(m)
  BY AmongTyped DEF TypeOK
<1>2. ASSUME NEW m \in Among(inbox), m # Replayed(r) PROVE Awaited(m)'
  <2>1. m \in Message /\ Awaited(m)
    BY <1>1
  <2>2. m.from # r
    BY <1>2, <2>1 DEF Message, Replayed, Awaited
  <2> QED
    BY <2>1, <2>2 DEF Awaited, Message
<1>3. replay[r].pc # "waiting" => Replayed(r) \notin Among(inbox)
  BY <1>1 DEF Awaited, Replayed
<1> QED
  BY <1>2, <1>3

LEMMA MessagesStay ==
    ASSUME WaitsForOne, UNCHANGED inbox, \A m \in Among(inbox) : Awaited(m)'
    PROVE  Messages'
  BY DEF Messages, WaitsForOne, Among

LEMMA MessagesGone ==
    ASSUME inbox' = <<>> PROVE Messages'
  BY DEF Messages, WaitsForOne, Among

(* A new message is emitted for one who did not wait.                        *)
LEMMA MessageSent ==
    ASSUME TypeOK, WaitsForOne, NEW m \in Message, m \notin Among(inbox), NEW s, SendTo(s, m),
           \A k \in Among(inbox) : Awaited(k)', Awaited(m)'
    PROVE  Messages'
<1>1. CASE inbox' = inbox
  BY <1>1, MessagesStay
<1>2. CASE inbox' = Append(inbox, m)
  <2>1. inbox \in Seq(Message)
    BY DEF TypeOK
  <2>2. Among(inbox') = Among(inbox) \cup {m}
    BY <1>2, <2>1, AmongAppend
  <2>3. DOMAIN inbox = 1 .. Len(inbox) /\ DOMAIN inbox' = 1 .. Len(inbox) + 1
        /\ inbox'[Len(inbox) + 1] = m /\ Len(inbox) \in Nat
        /\ \A i \in 1 .. Len(inbox) : inbox'[i] = inbox[i]
    BY <1>2, <2>1
  <2>4. \A i \in 1 .. Len(inbox) : inbox[i] # m
    BY <2>3 DEF Among
  <2>5. WaitsForOne'
    <3> SUFFICES ASSUME NEW i \in 1 .. Len(inbox) + 1, NEW j \in 1 .. Len(inbox) + 1,
                        inbox'[i] = inbox'[j], inbox'[i].from # "nobody"
                 PROVE  i = j
      BY <2>3 DEF WaitsForOne
    <3>1. CASE i \in 1 .. Len(inbox) /\ j \in 1 .. Len(inbox)
      BY <2>3, <3>1 DEF WaitsForOne
    <3>2. CASE i = Len(inbox) + 1 \/ j = Len(inbox) + 1
      BY <2>3, <2>4, <3>2
    <3> QED
      BY <2>3, <3>1, <3>2
  <2> QED
    BY <2>2, <2>5 DEF Messages
<1> QED
  BY <1>1, <1>2 DEF SendTo

(* Whoever waited for m waits no longer.                                     *)
LEMMA MessageForgotten ==
    ASSUME TypeOK, WaitsForOne, NEW m \in Message, Forget(m),
           \A k \in Among(inbox) : k = m \/ Awaited(k)'
    PROVE  /\ Messages' /\ inbox' \in Seq(Message)
           /\ \A k \in Among(inbox') : \E h \in Among(inbox) : h.c = k.c
<1> DEFINE f == [m EXCEPT !.from = "nobody"]
<1>1. inbox \in Seq(Message) /\ DOMAIN inbox' = DOMAIN inbox
      /\ \A i \in DOMAIN inbox : inbox'[i] = IF inbox[i] = m THEN f ELSE inbox[i]
  BY DEF TypeOK, Forget
<1>2. f \in Message /\ f.from = "nobody" /\ f.c = m.c
  BY DEF Message, Caller
<1>3. inbox' \in Seq(Message)
  <2>1. DOMAIN inbox = 1 .. Len(inbox) /\ Len(inbox) \in Nat
        /\ \A i \in 1 .. Len(inbox) : inbox[i] \in Message
    BY <1>1
  <2>2. inbox' = [i \in 1 .. Len(inbox) |-> IF inbox[i] = m THEN f ELSE inbox[i]]
    BY <2>1 DEF Forget
  <2> QED
    BY <1>2, <2>1, <2>2
<1>4. Awaited(f)'
  BY <1>2, FleetOverridesAssumption DEF Awaited
<1>5. \A k \in Among(inbox') : Awaited(k)' /\ \E h \in Among(inbox) : h.c = k.c
  <2> SUFFICES ASSUME NEW i \in DOMAIN inbox, NEW k, k = inbox'[i]
               PROVE  Awaited(k)' /\ \E h \in Among(inbox) : h.c = k.c
    BY <1>1 DEF Among
  <2>1. inbox[i] \in Among(inbox)
    BY DEF Among
  <2>2. CASE inbox[i] = m
    BY <1>1, <1>2, <1>4, <2>1, <2>2
  <2>3. CASE inbox[i] # m
    BY <1>1, <2>1, <2>3
  <2> QED
    BY <2>2, <2>3
<1>6. WaitsForOne'
  BY <1>1, <1>2 DEF WaitsForOne
<1> QED
  BY <1>3, <1>5, <1>6 DEF Messages

(* The first message is taken, by the one who waited for it.                 *)
LEMMA MessageTaken ==
    ASSUME TypeOK, WaitsForOne, inbox # <<>>, inbox' = Tail(inbox),
           \A k \in Among(inbox) : (k = Head(inbox) /\ k.from # "nobody") \/ Awaited(k)'
    PROVE  Messages'
<1>1. inbox \in Seq(Message)
  BY DEF TypeOK
<1>2. /\ Len(inbox) \in Nat \ {0} /\ DOMAIN inbox = 1 .. Len(inbox) /\ Head(inbox) = inbox[1]
      /\ DOMAIN inbox' = 1 .. Len(inbox) - 1
      /\ \A i \in 1 .. Len(inbox) - 1 : inbox'[i] = inbox[i + 1]
  BY <1>1
<1>3. \A m \in Among(inbox') : Awaited(m)'
  <2> SUFFICES ASSUME NEW i \in 1 .. Len(inbox) - 1, NEW k, k = inbox'[i] PROVE Awaited(k)'
    BY <1>2 DEF Among
  <2>1. i + 1 \in DOMAIN inbox /\ 1 \in DOMAIN inbox /\ i + 1 # 1 /\ inbox'[i] = inbox[i + 1]
    BY <1>2
  <2>2. inbox[i + 1] \in Among(inbox)
    BY <2>1 DEF Among
  <2>3. ~(inbox[i + 1] = inbox[1] /\ inbox[i + 1].from # "nobody")
    BY <2>1 DEF WaitsForOne
  <2> QED
    BY <1>2, <2>1, <2>2, <2>3
<1>4. WaitsForOne'
  <2> SUFFICES ASSUME NEW i \in 1 .. Len(inbox) - 1, NEW j \in 1 .. Len(inbox) - 1,
                      inbox'[i] = inbox'[j], inbox'[i].from # "nobody"
               PROVE  i = j
    BY <1>2 DEF WaitsForOne
  <2>1. i + 1 \in DOMAIN inbox /\ j + 1 \in DOMAIN inbox
        /\ inbox[i + 1] = inbox[j + 1] /\ inbox[i + 1].from # "nobody"
    BY <1>2
  <2>2. i + 1 = j + 1
    BY <2>1 DEF WaitsForOne
  <2> QED
    BY <2>2
<1> QED
  BY <1>3, <1>4 DEF Messages

-----------------------------------------------------------------------------
(* Types                                                                     *)

LEMMA CommandTyped ==
    ASSUME NEW n \in Override
    PROVE  /\ Push(n) \in Command /\ Clear(n) \in Command /\ Push(n) # Clear(n)
           /\ \A m \in Override : m # n => Push(m) # Push(n)
  BY DEF Push, Clear, Command

LEMMA RecordsTyped ==
    /\ NoCall \in CallRecord /\ EndedCall \in CallRecord /\ NoReplay \in ReplayRecord
    /\ NoReplay.cmds = <<>> /\ NoReplay.pc = "idle" /\ NoReplay.sock = None
  BY DEF NoCall, EndedCall, NoReplay, CallRecord, ReplayRecord

LEMMA FaultTyped ==
    ASSUME TypeOK, Fault PROVE faults' \in 0 .. MaxFaults
  BY FleetOverridesAssumption DEF TypeOK, Fault

LEMMA SendToTyped ==
    ASSUME TypeOK, NEW s, NEW m \in Message, SendTo(s, m) PROVE inbox' \in Seq(Message)
  BY AmongAppend DEF TypeOK, SendTo

LEMMA EndReplayTyped ==
    ASSUME TypeOK, NEW r \in Replay, NEW b \in BOOLEAN, EndReplay(r, b)
    PROVE  replay' \in [Replay -> ReplayRecord] /\ failures' \in Nat
<1>1. replay \in [Replay -> ReplayRecord] /\ failures \in Nat
  BY DEF TypeOK
<1>2. replay' = [replay EXCEPT ![r] = NoReplay] /\ failures' \in {failures + 1, failures, 0}
  BY DEF EndReplay
<1>3. NoReplay \in ReplayRecord
  BY RecordsTyped
<1> QED
  BY <1>1, <1>2, <1>3

LEMMA FleetTyped ==
    ASSUME TypeOK, NEW n \in Override, FleetStep(n) PROVE Types'
<1>1. Push(n) \in Command /\ Clear(n) \in Command
  BY CommandTyped
<1>2. \A c \in Command : [call EXCEPT ![c].pc = "sent"] \in [Command -> CallRecord]
  BY DEF TypeOK, CallRecord
<1>3. CASE PushContent(n)
  BY <1>1, <1>2, <1>3 DEF PushContent, TypeOK, Types, connVars
<1>4. CASE CreateOverride(n)
  BY <1>4 DEF CreateOverride, TypeOK, Types, connVars
<1>5. CASE SendCommandFails(n)
  <2>1. past' \in Past
    BY <1>5 DEF SendCommandFails, TypeOK, Past
  <2> QED
    BY <1>5, <2>1, FaultTyped DEF SendCommandFails, TypeOK, Types, connVars
<1>6. CASE ClearOverride(n)
  <2>1. past' \in Past
    BY <1>6 DEF ClearOverride, TypeOK, Past
  <2>2. call' \in [Command -> CallRecord] /\ lost' \subseteq Command /\ faults' \in 0 .. MaxFaults
    BY <1>1, <1>2, <1>6, FaultTyped DEF ClearOverride, TypeOK
  <2>3. records' \subseteq Override
    BY <1>6 DEF ClearOverride, TypeOK
  <2> QED
    BY <1>6, <2>1, <2>2, <2>3 DEF ClearOverride, TypeOK, Types, connVars
<1>7. CASE RecordExpire(n)
  <2>1. past' \in Past
    BY <1>7 DEF RecordExpire, TypeOK, Past
  <2> QED
    BY <1>7, <2>1 DEF RecordExpire, TypeOK, Types, connVars
<1> QED
  BY <1>3, <1>4, <1>5, <1>6, <1>7 DEF FleetStep

LEMMA QueueTyped ==
    ASSUME TypeOK, NEW c \in Command, Queue(c) \/ CallThrows(c), UNCHANGED faults \/ Fault
    PROVE  /\ call' \in [Command -> CallRecord] /\ queue' \in Seq(Command)
           /\ failures' \in Nat /\ lost' \subseteq Command /\ faults' \in 0 .. MaxFaults
<1>1. call \in [Command -> CallRecord] /\ queue \in Seq(Command) /\ failures \in Nat
      /\ lost \subseteq Command /\ faults \in 0 .. MaxFaults
  BY DEF TypeOK
<1>2. call' \in [Command -> CallRecord]
  BY <1>1, RecordsTyped DEF Queue, CallThrows
<1>3. Append(queue, c) \in Seq(Command)
  BY <1>1
<1>4. queue' \in Seq(Command) /\ failures' \in Nat /\ lost' \subseteq Command
  BY <1>1, <1>3 DEF Queue, CallThrows
<1>5. faults' \in 0 .. MaxFaults
  BY <1>1, FaultTyped
<1> QED
  BY <1>2, <1>4, <1>5

LEMMA ForgetTyped ==
    ASSUME TypeOK, NEW m \in Message, Forget(m) PROVE inbox' \in Seq(Message)
<1>1. [m EXCEPT !.from = "nobody"] \in Message
  BY DEF Message, Caller
<1>2. inbox \in Seq(Message)
  BY DEF TypeOK
<1>3. PICK k \in Nat : inbox \in [1 .. k -> Message]
  BY <1>2
<1>4. inbox' \in [1 .. k -> Message]
  BY <1>1, <1>3 DEF Forget
<1> QED
  BY <1>4

LEMMA SendTyped ==
    ASSUME TypeOK, NEW c \in Command, SendStep(c) PROVE Types'
<1>1. call \in [Command -> CallRecord] /\ Sent(c) \in Message
      /\ faults \in 0 .. MaxFaults
  BY DEF TypeOK, Sent, Message, Caller
<1>2. CASE SendFind(c)
  <2>1. call' \in [Command -> CallRecord]
    BY <1>1, <1>2 DEF SendFind, TypeOK, CallRecord
  <2> QED
    BY <1>2, <2>1 DEF SendFind, TypeOK, Types, fleetVars, connVars
<1>3. CASE SendEmit(c)
  <2>1. /\ call' \in [Command -> CallRecord] /\ queue' \in Seq(Command)
        /\ failures' \in Nat /\ lost' \subseteq Command /\ faults' \in 0 .. MaxFaults
        /\ inbox' \in Seq(Message)
    <3>1. CASE \/ Queue(c) /\ UNCHANGED <<inbox, faults>>
               \/ CallThrows(c) /\ UNCHANGED inbox
      <4>1. UNCHANGED inbox /\ (UNCHANGED faults \/ Fault)
        BY <3>1 DEF CallThrows
      <4> QED
        BY <3>1, <4>1, QueueTyped DEF TypeOK
    <3>2. CASE call' = [call EXCEPT ![c].pc = "waiting"] /\ SendTo(call[c].sock, Sent(c))
               /\ UNCHANGED <<queue, failures, lost, faults>>
      <4>1. call' \in [Command -> CallRecord]
        BY <1>1, <3>2 DEF CallRecord
      <4> QED
        BY <1>1, <3>2, <4>1, SendToTyped DEF TypeOK
    <3> QED
      BY <1>3, <3>1, <3>2 DEF SendEmit
  <2> QED
    BY <1>3, <2>1 DEF SendEmit, TypeOK, Types, fleetVars, connVars
<1>4. CASE SendTimeout(c)
  <2>1. /\ call' \in [Command -> CallRecord] /\ queue' \in Seq(Command)
        /\ failures' \in Nat /\ lost' \subseteq Command /\ faults' \in 0 .. MaxFaults
    BY <1>4, QueueTyped DEF SendTimeout, CallThrows
  <2>2. inbox' \in Seq(Message)
    <3>1. CASE UNCHANGED inbox
      BY <3>1 DEF TypeOK
    <3>2. CASE Forget(Sent(c))
      BY <1>1, <3>2, ForgetTyped
    <3> QED
      BY <1>4, <3>1, <3>2 DEF SendTimeout
  <2> QED
    BY <1>4, <2>1, <2>2 DEF SendTimeout, TypeOK, Types, fleetVars, connVars
<1> QED
  BY <1>2, <1>3, <1>4 DEF SendStep

(* A replay, as its handlers leave it.                                       *)
LEMMA ReplayRecordTyped ==
    ASSUME TypeOK, NEW r \in Replay
    PROVE  /\ \A p \in {"next", "waiting", "requeue"} :
                [replay EXCEPT ![r].pc = p] \in [Replay -> ReplayRecord]
           /\ replay[r].cmds \in Seq(Command) /\ replay[r].requeued \in BOOLEAN
           /\ replay[r].cmds # <<>> =>
                /\ Tail(replay[r].cmds) \in Seq(Command) /\ Head(replay[r].cmds) \in Command
                /\ [replay EXCEPT ![r].cmds = Tail(@)] \in [Replay -> ReplayRecord]
                /\ \A b \in BOOLEAN :
                     [replay EXCEPT ![r].pc = "next", ![r].cmds = Tail(@), ![r].requeued = b]
                       \in [Replay -> ReplayRecord]
                /\ [replay EXCEPT ![r].pc = "next", ![r].cmds = Tail(@)]
                       \in [Replay -> ReplayRecord]
                /\ Append(queue, Head(replay[r].cmds)) \in Seq(Command)
<1>1. replay \in [Replay -> ReplayRecord]
  BY DEF TypeOK
<1>2. replay[r].cmds \in Seq(Command) /\ replay[r].requeued \in BOOLEAN
  BY <1>1 DEF ReplayRecord
<1>3. ASSUME NEW p \in {"next", "waiting", "requeue"}
      PROVE  [replay EXCEPT ![r].pc = p] \in [Replay -> ReplayRecord]
  BY <1>1 DEF ReplayRecord
<1>4. ASSUME replay[r].cmds # <<>>
      PROVE  /\ Tail(replay[r].cmds) \in Seq(Command) /\ Head(replay[r].cmds) \in Command
             /\ Append(queue, Head(replay[r].cmds)) \in Seq(Command)
  <2>1. Tail(replay[r].cmds) \in Seq(Command) /\ Head(replay[r].cmds) \in Command
    BY <1>2, <1>4, AmongTail
  <2>2. queue \in Seq(Command)
    BY DEF TypeOK
  <2> QED
    BY <2>1, <2>2, AmongAppend
<1>5. ASSUME NEW t \in Seq(Command), NEW b \in BOOLEAN
      PROVE  /\ [replay EXCEPT ![r].cmds = t] \in [Replay -> ReplayRecord]
             /\ [replay EXCEPT ![r].pc = "next", ![r].cmds = t] \in [Replay -> ReplayRecord]
             /\ [replay EXCEPT ![r].pc = "next", ![r].cmds = t, ![r].requeued = b]
                  \in [Replay -> ReplayRecord]
  <2>1. replay[r] \in ReplayRecord
    BY <1>1
  <2>2. [replay[r] EXCEPT !.cmds = t] \in ReplayRecord
    BY <2>1 DEF ReplayRecord
  <2>3. [replay[r] EXCEPT !.pc = "next", !.cmds = t] \in ReplayRecord
    BY <2>1 DEF ReplayRecord
  <2>4. [replay[r] EXCEPT !.pc = "next", !.cmds = t, !.requeued = b] \in ReplayRecord
    BY <2>1 DEF ReplayRecord
  <2>5. /\ [replay EXCEPT ![r].cmds = t] = [replay EXCEPT ![r] = [replay[r] EXCEPT !.cmds = t]]
        /\ [replay EXCEPT ![r].pc = "next", ![r].cmds = t]
             = [replay EXCEPT ![r] = [replay[r] EXCEPT !.pc = "next", !.cmds = t]]
        /\ [replay EXCEPT ![r].pc = "next", ![r].cmds = t, ![r].requeued = b]
             = [replay EXCEPT ![r] =
                  [replay[r] EXCEPT !.pc = "next", !.cmds = t, !.requeued = b]]
    BY <1>1
  <2>6. \A e \in ReplayRecord : [replay EXCEPT ![r] = e] \in [Replay -> ReplayRecord]
    BY <1>1
  <2> QED
    BY <2>2, <2>3, <2>4, <2>5, <2>6
<1> QED
  BY <1>2, <1>3, <1>4, <1>5

LEMMA ReplayTyped ==
    ASSUME TypeOK, ReplaysHold, NEW r \in Replay, ReplayStep(r) \/ ReplayThrows(r) PROVE Types'
<1>1. /\ replay \in [Replay -> ReplayRecord] /\ queue \in Seq(Command) /\ failures \in Nat
      /\ lost \subseteq Command /\ faults \in 0 .. MaxFaults /\ inbox \in Seq(Message)
  BY DEF TypeOK
<1>2. replay[r].cmds \in Seq(Command) /\ replay[r].requeued \in BOOLEAN
  BY ReplayRecordTyped
<1>3. replay[r].cmds # <<>> => Replayed(r) \in Message
  BY ReplayRecordTyped DEF Replayed, Message, Caller
<1>4. CASE ReplayNext(r)
  <2>1. /\ replay' \in [Replay -> ReplayRecord] /\ failures' \in Nat /\ inbox' \in Seq(Message)
    <3>1. CASE EndReplay(r, replay[r].requeued) /\ UNCHANGED inbox
      BY <1>1, <1>2, <3>1, EndReplayTyped
    <3>2. CASE replay' = [replay EXCEPT ![r].pc = "requeue"] /\ UNCHANGED <<failures, inbox>>
      BY <1>1, <3>2, ReplayRecordTyped
    <3>3. CASE /\ replay[r].cmds # <<>> /\ replay' = [replay EXCEPT ![r].pc = "waiting"]
               /\ SendTo(replay[r].sock, Replayed(r)) /\ UNCHANGED failures
      BY <1>1, <1>3, <3>3, ReplayRecordTyped, SendToTyped
    <3> QED
      BY <1>4, <3>1, <3>2, <3>3 DEF ReplayNext
  <2> QED
    BY <1>4, <2>1 DEF ReplayNext, TypeOK, Types, fleetVars, connVars
<1>5. CASE ReplayTimeout(r)
  <2>1. replay[r].cmds # <<>>
    BY <1>5 DEF ReplayTimeout, ReplaysHold
  <2>2. inbox' \in Seq(Message) /\ faults' \in 0 .. MaxFaults
    BY <1>1, <1>3, <1>5, <2>1, ForgetTyped, FaultTyped DEF ReplayTimeout
  <2>3. replay' \in [Replay -> ReplayRecord]
    <3>1. [replay EXCEPT ![r].pc = "next", ![r].cmds = Tail(@), ![r].requeued = TRUE]
            \in [Replay -> ReplayRecord]
      BY <2>1, ReplayRecordTyped
    <3>2. [replay EXCEPT ![r].pc = "requeue"] \in [Replay -> ReplayRecord]
      BY ReplayRecordTyped
    <3> QED
      BY <1>5, <3>1, <3>2 DEF ReplayTimeout, Dispose
  <2>4. queue' \in Seq(Command)
    <3>1. Append(queue, Head(replay[r].cmds)) \in Seq(Command)
      BY <2>1, ReplayRecordTyped
    <3> QED
      BY <1>1, <1>5, <3>1 DEF ReplayTimeout
  <2> QED
    BY <1>5, <2>2, <2>3, <2>4 DEF ReplayTimeout, TypeOK, Types, fleetVars, connVars
<1>6. CASE ReplayRequeue(r)
  <2>1. CASE replay[r].cmds = <<>>
    BY <1>6, <2>1, EndReplayTyped DEF ReplayRequeue, TypeOK, Types, fleetVars, connVars
  <2>2. CASE replay[r].cmds # <<>>
    <3>1. Append(queue, Head(replay[r].cmds)) \in Seq(Command)
      BY <2>2, ReplayRecordTyped
    <3>2. replay' \in [Replay -> ReplayRecord] /\ queue' \in Seq(Command) /\ UNCHANGED failures
      BY <1>6, <2>2, <3>1, ReplayRecordTyped DEF ReplayRequeue
    <3> QED
      BY <1>6, <3>2 DEF ReplayRequeue, TypeOK, Types, fleetVars, connVars
  <2> QED
    BY <2>1, <2>2
<1>7. CASE ReplayThrows(r)
  <2>1. lost' \subseteq Command
    BY <1>1, <1>2, <1>7, AmongTyped DEF ReplayThrows
  <2>2. replay' \in [Replay -> ReplayRecord] /\ failures' \in Nat
    BY <1>7, EndReplayTyped DEF ReplayThrows
  <2> QED
    BY <1>7, <2>1, <2>2, FaultTyped DEF ReplayThrows, TypeOK, Types, fleetVars, connVars
<1> QED
  BY <1>4, <1>5, <1>6, <1>7 DEF ReplayStep

LEMMA DrainsTyped ==
    ASSUME TypeOK, NEW r \in Replay, NEW s \in Socket, Drains(s, r) PROVE Types'
<1>1. /\ replay \in [Replay -> ReplayRecord] /\ queue \in Seq(Command) /\ failures \in Nat
      /\ lost \subseteq Command /\ faults \in 0 .. MaxFaults /\ initial \in [Socket -> BOOLEAN]
  BY DEF TypeOK
<1>2. replay' \in [Replay -> ReplayRecord] /\ failures' \in Nat
  <2>1. ASSUME NEW b \in BOOLEAN, Drain(s, r, b), UNCHANGED failures
        PROVE  replay' \in [Replay -> ReplayRecord] /\ failures' \in Nat
    BY <1>1, <2>1 DEF Drain, ReplayRecord
  <2>2. CASE EndReplay(r, FALSE) \/ EndReplay(r, TRUE)
    BY <2>2, EndReplayTyped
  <2>3. CASE UNCHANGED <<replay, failures>>
    BY <1>1, <2>3
  <2> QED
    BY <2>1, <2>2, <2>3 DEF Drains, Heartbeat, InitialDrain
<1>3. queue' \in Seq(Command)
  <2>1. queue' = queue \/ queue' = <<>>
    BY DEF Drains, Heartbeat, InitialDrain, Drain, DrainThrows
  <2>2. <<>> \in Seq(Command)
    OBVIOUS
  <2> QED
    BY <1>1, <2>1, <2>2
<1>4. lost' \subseteq Command /\ faults' \in 0 .. MaxFaults
  <2>1. CASE UNCHANGED <<lost, faults>>
    BY <1>1, <2>1
  <2>2. CASE DrainThrows
    BY <1>1, <2>2, AmongTyped, FaultTyped DEF DrainThrows
  <2> QED
    BY <2>1, <2>2 DEF Drains, Heartbeat, InitialDrain
<1>5. initial' \in [Socket -> BOOLEAN]
  BY <1>1 DEF Drains, Heartbeat, InitialDrain, connVars
<1> QED
  BY <1>2, <1>3, <1>4, <1>5 DEF Drains, Heartbeat, InitialDrain, TypeOK, Types, fleetVars, connVars

LEMMA OpenTyped ==
    ASSUME TypeOK PROVE Running \subseteq Command /\ Held \subseteq Command /\ Open \subseteq Command
<1>1. \A r \in Replay : Among(replay[r].cmds) \subseteq Command
  BY AmongTyped DEF TypeOK, ReplayRecord
<1>2. Among(queue) \subseteq Command /\ Among(inbox) \subseteq Message
  BY AmongTyped DEF TypeOK
<1>3. Held \subseteq Command
  BY <1>1 DEF Held
<1> QED
  BY <1>2, <1>3 DEF Running, Kept, Open, Message

LEMMA ConnectionTyped ==
    ASSUME TypeOK, \/ \E s \in Socket : Connect(s) \/ InitialSkip(s) \/ HandleDisconnect(s)
                   \/ LoseConnection \/ GatewayRestart \/ QueueExpire
    PROVE  Types'
<1>1. CASE \E s \in Socket : Connect(s)
  BY <1>1 DEF Connect, TypeOK, Types, fleetVars
<1>2. CASE \E s \in Socket : HandleDisconnect(s) \/ InitialSkip(s)
  BY <1>2 DEF HandleDisconnect, InitialSkip, TypeOK, Types, fleetVars
<1>3. <<>> \in Seq(Message) /\ <<>> \in Seq(Command)
  OBVIOUS
<1>4. CASE LoseConnection
  BY <1>3, <1>4, FaultTyped DEF LoseConnection, TypeOK, Types, fleetVars
<1>5. CASE GatewayRestart
  <2>1. call' \in [Command -> CallRecord] /\ replay' \in [Replay -> ReplayRecord]
    BY <1>5, RecordsTyped DEF GatewayRestart
  <2>2. lost' \subseteq Command
    BY <1>5, OpenTyped DEF GatewayRestart, TypeOK
  <2> QED
    BY <1>3, <1>5, <2>1, <2>2, FaultTyped DEF GatewayRestart, TypeOK, Types, fleetVars
<1>6. CASE QueueExpire
  <2>1. lost' \subseteq Command
    BY <1>6, AmongTyped DEF QueueExpire, TypeOK
  <2> QED
    BY <1>3, <1>6, <2>1 DEF QueueExpire, TypeOK, Types, fleetVars, connVars
<1> QED
  BY <1>1, <1>2, <1>4, <1>5, <1>6

LEMMA HandleTyped ==
    ASSUME TypeOK, NEW c \in Command, HandleCommand(c)
    PROVE  /\ overlay' \in [n : Override \cup {NoOverride}, late : BOOLEAN]
           /\ executed' \subseteq Command
  BY DEF HandleCommand, TypeOK, Command

LEMMA DeviceTyped ==
    ASSUME TypeOK, ReplaysHold, DeviceStep PROVE Types'
<1>1. inbox \in Seq(Message) /\ call \in [Command -> CallRecord]
      /\ replay \in [Replay -> ReplayRecord]
  BY DEF TypeOK
<1>2. ASSUME inbox # <<>>
      PROVE  /\ Tail(inbox) \in Seq(Message) /\ Head(inbox) \in Message
             /\ Head(inbox).c \in Command /\ Awaited(Head(inbox))
  <2>1. Tail(inbox) \in Seq(Message) /\ Head(inbox) \in Message /\ Head(inbox) \in Among(inbox)
    BY <1>1, <1>2, AmongTail
  <2> QED
    BY <2>1 DEF Message, TypeOK
<1>3. CASE ClientReceive
  <2> DEFINE m == Head(inbox)
  <2>1. inbox # <<>>
    BY <1>3 DEF ClientReceive
  <2>2. m \in Message /\ Tail(inbox) \in Seq(Message) /\ m.c \in Command /\ Awaited(m)
    BY <1>2, <2>1
  <2> HIDE DEF m
  <2>3. HandleCommand(m.c) /\ Acknowledge(m) /\ inbox' = Tail(inbox)
    BY <1>3 DEF ClientReceive, m
  <2>4. call' \in [Command -> CallRecord]
    BY <1>1, <2>2, <2>3, RecordsTyped DEF Acknowledge
  <2>5. replay' \in [Replay -> ReplayRecord]
    <3>1. CASE m.from \in Replay
      <4>1. replay[m.from].cmds # <<>>
        BY <2>2, <3>1 DEF Awaited, ReplaysHold
      <4>2. [replay EXCEPT ![m.from].pc = "next", ![m.from].cmds = Tail(@)]
              \in [Replay -> ReplayRecord]
        BY <3>1, <4>1, ReplayRecordTyped
      <4>3. [replay EXCEPT ![m.from].pc = "requeue"] \in [Replay -> ReplayRecord]
        BY <3>1, ReplayRecordTyped
      <4> QED
        BY <1>1, <2>3, <4>2, <4>3 DEF Acknowledge
    <3>2. CASE m.from \notin Replay
      BY <1>1, <2>3, <3>2 DEF Acknowledge
    <3> QED
      BY <3>1, <3>2
  <2> QED
    BY <1>3, <2>2, <2>3, <2>4, <2>5, HandleTyped
       DEF ClientReceive, TypeOK, Types, fleetVars, connVars
<1>4. CASE AckLost
  BY <1>2, <1>4, HandleTyped, FaultTyped DEF AckLost, TypeOK, Types, fleetVars
<1>5. CASE ClientRejects
  BY <1>2, <1>5, FaultTyped DEF ClientRejects, TypeOK, Types, fleetVars, connVars
<1>6. CASE OverlayExpire
  BY <1>6 DEF OverlayExpire, TypeOK, Types, fleetVars, connVars
<1> QED
  BY <1>3, <1>4, <1>5, <1>6 DEF DeviceStep

LEMMA TypesNext ==
    ASSUME TypeOK, ReplaysHold, [Next]_vars PROVE Types'
<1>1. CASE UNCHANGED vars
  BY <1>1 DEF vars, TypeOK, Types, fleetVars, connVars
<1> QED
  BY <1>1, FleetTyped, SendTyped, ReplayTyped, DrainsTyped, ConnectionTyped, DeviceTyped
     DEF Next, InitialStep, Drains

-----------------------------------------------------------------------------
(* Who waits for what                                                        *)

LEMMA MessagesUntouched ==
    ASSUME TypeOK, WaitsForOne, UNCHANGED <<inbox, call, replay>> PROVE Messages'
<1>1. \A m \in Among(inbox) : Awaited(m)'
  BY DEF TypeOK, Awaited
<1> QED
  BY <1>1, MessagesStay

(* A step of a call that did not wait, or whose message is not on its way.   *)
LEMMA CallStays ==
    ASSUME TypeOK, WaitsForOne, NEW c \in Command, UNCHANGED <<inbox, replay>>,
           \A d \in Command \ {c} : call'[d] = call[d],
           call[c].pc # "waiting" \/ Sent(c) \notin Among(inbox)
    PROVE  Messages'
  BY CallMoves, MessagesStay

LEMMA ReplayStays ==
    ASSUME TypeOK, WaitsForOne, NEW r \in Replay, UNCHANGED <<inbox, call>>,
           \A q \in Replay \ {r} : replay'[q] = replay[q],
           replay[r].pc # "waiting" \/ Replayed(r) \notin Among(inbox)
    PROVE  Messages'
  BY ReplayMoves, MessagesStay

LEMMA FleetMessages ==
    ASSUME IInv, NEW n \in Override, FleetStep(n) PROVE Messages' /\ NotSentBefore'
<1>1. /\ call \in [Command -> CallRecord] /\ fleet \in [Override -> {"idle", "posted", "ended"}]
      /\ TypeOK /\ WaitsForOne /\ NotSentBefore
  BY DEF IInv, TypeOK
<1>2. /\ Push(n) \in Command /\ Clear(n) \in Command
      /\ \A m \in Override : Push(m) \in Command /\ Push(m) # Clear(n)
                             /\ (m # n => Push(m) # Push(n))
  BY DEF Push, Clear, Command
<1>3. CASE PushContent(n)
  <2>1. call[Push(n)].pc = "none" /\ \A d \in Command \ {Push(n)} : call'[d] = call[d]
    BY <1>1, <1>2, <1>3 DEF PushContent, NotSentBefore
  <2>2. Messages'
    BY <1>1, <1>2, <1>3, <2>1, CallStays DEF PushContent
  <2>3. NotSentBefore'
    BY <1>1, <1>2, <1>3, <2>1 DEF PushContent, NotSentBefore
  <2> QED
    BY <2>2, <2>3
<1>4. CASE CreateOverride(n) \/ SendCommandFails(n) \/ RecordExpire(n)
  <2>1. Messages'
    BY <1>1, <1>4, MessagesUntouched DEF CreateOverride, SendCommandFails, RecordExpire
  <2>2. NotSentBefore'
    BY <1>1, <1>4 DEF CreateOverride, SendCommandFails, RecordExpire, NotSentBefore
  <2> QED
    BY <2>1, <2>2
<1>5. CASE ClearOverride(n)
  <2>1. call[Clear(n)].pc = "none" /\ \A d \in Command \ {Clear(n)} : call'[d] = call[d]
    BY <1>1, <1>2, <1>5 DEF ClearOverride
  <2>2. Messages'
    BY <1>1, <1>2, <1>5, <2>1, CallStays DEF ClearOverride
  <2>3. NotSentBefore'
    BY <1>1, <1>2, <1>5, <2>1 DEF ClearOverride, NotSentBefore
  <2> QED
    BY <2>2, <2>3
<1> QED
  BY <1>3, <1>4, <1>5 DEF FleetStep

(* A call that does not begin keeps NotSentBefore.                           *)
LEMMA NotBegun ==
    ASSUME IInv, UNCHANGED fleet,
           \A c \in Command : call[c].pc = "none" => call'[c].pc = "none"
    PROVE  NotSentBefore'
<1>1. \A n \in Override : Push(n) \in Command
  BY CommandTyped
<1> QED
  BY <1>1 DEF NotSentBefore, IInv

LEMMA SendMessages ==
    ASSUME IInv, NEW c \in Command, SendStep(c) PROVE Messages' /\ NotSentBefore'
<1>1. /\ call \in [Command -> CallRecord] /\ Sent(c) \in Message /\ Sent(c).from = "call"
      /\ Sent(c).c = c /\ TypeOK /\ WaitsForOne
  BY DEF IInv, TypeOK, Sent, Message, Caller
<1>2. call[c].pc # "none" /\ (\A d \in Command \ {c} : call'[d] = call[d])
      /\ UNCHANGED <<fleet, replay>>
  BY <1>1 DEF SendStep, SendFind, SendEmit, SendTimeout, Queue, CallThrows, fleetVars
<1>3. NotSentBefore'
  BY <1>2, NotBegun
<1> SUFFICES Messages'
  BY <1>3
<1>4. CASE SendFind(c)
  BY <1>1, <1>2, <1>4, CallStays DEF SendFind
<1>5. CASE SendEmit(c)
  <2>1. call[c].pc # "waiting"
    BY <1>5 DEF SendEmit
  <2>2. CASE UNCHANGED inbox
    BY <1>1, <1>2, <2>1, <2>2, CallStays
  <2>3. CASE call' = [call EXCEPT ![c].pc = "waiting"] /\ SendTo(call[c].sock, Sent(c))
    <3>1. call'[c].pc = "waiting"
      BY <1>1, <2>3 DEF CallRecord
    <3>2. Awaited(Sent(c))'
      BY <1>1, <3>1, FleetOverridesAssumption DEF Awaited
    <3>3. Sent(c) \notin Among(inbox) /\ \A k \in Among(inbox) : Awaited(k)'
      BY <1>1, <1>2, <2>1, CallMoves
    <3> QED
      BY <1>1, <2>3, <3>2, <3>3, MessageSent
  <2> QED
    BY <1>5, <2>2, <2>3 DEF SendEmit
<1>6. CASE SendTimeout(c)
  <2>1. CASE ~InFlight(Sent(c)) /\ UNCHANGED inbox
    BY <1>1, <1>2, <2>1, CallStays DEF InFlight
  <2>2. CASE Forget(Sent(c))
    <3>1. \A k \in Among(inbox) : k = Sent(c) \/ Awaited(k)'
      BY <1>1, <1>2, CallMoves
    <3> QED
      BY <1>1, <2>2, <3>1, MessageForgotten
  <2> QED
    BY <1>6, <2>1, <2>2 DEF SendTimeout
<1> QED
  BY <1>3, <1>4, <1>5, <1>6 DEF SendStep

LEMMA ReplayMessages ==
    ASSUME IInv, NEW r \in Replay, ReplayStep(r) \/ ReplayThrows(r) \/ \E s \in Socket : Drains(s, r)
    PROVE  Messages' /\ NotSentBefore'
<1>1. replay \in [Replay -> ReplayRecord] /\ TypeOK /\ WaitsForOne /\ ReplaysHold
  BY DEF IInv, TypeOK
<1>2. UNCHANGED <<fleet, call>> /\ \A q \in Replay \ {r} : replay'[q] = replay[q]
  BY <1>1 DEF ReplayStep, ReplayNext, ReplayTimeout, ReplayRequeue, ReplayThrows, Drains, Heartbeat,
              InitialDrain, Drain, EndReplay, Dispose, fleetVars
<1>3. NotSentBefore'
  BY <1>2, NotBegun
<1> SUFFICES Messages'
  BY <1>3
<1>4. replay[r].cmds # <<>> => /\ Replayed(r) \in Message /\ Replayed(r).from = r
                               /\ Replayed(r).c = Head(replay[r].cmds)
  BY <1>1, ReplayRecordTyped DEF Replayed, Message, Caller
<1>5. CASE ReplayNext(r)
  <2>1. replay[r].pc # "waiting"
    BY <1>5 DEF ReplayNext
  <2>2. CASE UNCHANGED inbox
    BY <1>1, <1>2, <2>1, <2>2, ReplayStays
  <2>3. CASE /\ replay[r].cmds # <<>> /\ replay' = [replay EXCEPT ![r].pc = "waiting"]
             /\ SendTo(replay[r].sock, Replayed(r))
    <3>1. replay'[r].pc = "waiting" /\ replay'[r].cmds = replay[r].cmds
      BY <1>1, <2>3 DEF ReplayRecord
    <3> DEFINE m == Replayed(r)
    <3>2. m \in Message /\ m.from = r /\ m.c = Head(replay[r].cmds)
          /\ m \notin Among(inbox) /\ SendTo(replay[r].sock, m)
          /\ \A k \in Among(inbox) : Awaited(k)'
      BY <1>1, <1>2, <1>4, <2>1, <2>3, ReplayMoves
    <3>3. ASSUME NEW k, k = m PROVE Awaited(k)'
      BY <3>1, <3>2, <3>3, FleetOverridesAssumption DEF Awaited
    <3>4. PICK k : k = m
      OBVIOUS
    <3> HIDE DEF m
    <3>5. /\ k \in Message /\ k \notin Among(inbox) /\ SendTo(replay[r].sock, k)
          /\ \A h \in Among(inbox) : Awaited(h)'
      BY <3>2, <3>4
    <3>6. Awaited(k)'
      BY <3>3, <3>4
    <3> QED
      BY <1>1, <3>5, <3>6, MessageSent
  <2> QED
    BY <1>5, <2>2, <2>3 DEF ReplayNext
<1>6. CASE ReplayTimeout(r)
  <2>1. CASE ~InFlight(Replayed(r)) /\ UNCHANGED inbox
    BY <1>1, <1>2, <2>1, ReplayStays DEF InFlight
  <2>2. CASE Forget(Replayed(r))
    <3>1. replay[r].cmds # <<>>
      BY <1>1, <1>6 DEF ReplayTimeout, ReplaysHold
    <3>2. \A k \in Among(inbox) : k = Replayed(r) \/ Awaited(k)'
      BY <1>1, <1>2, ReplayMoves
    <3>3. PICK m : m = Replayed(r)
      OBVIOUS
    <3>4. m \in Message /\ Forget(m) /\ \A k \in Among(inbox) : k = m \/ Awaited(k)'
      BY <1>4, <2>2, <3>1, <3>2, <3>3
    <3> QED
      BY <1>1, <3>4, MessageForgotten
  <2> QED
    BY <1>6, <2>1, <2>2 DEF ReplayTimeout
<1>7. CASE ReplayRequeue(r) \/ ReplayThrows(r) \/ \E s \in Socket : Drains(s, r)
  <2>1. UNCHANGED inbox /\ (replay[r].pc # "waiting" \/ Replayed(r) \notin Among(inbox))
    BY <1>7 DEF ReplayRequeue, ReplayThrows, Drains, Heartbeat, InitialDrain, InFlight
  <2> QED
    BY <1>1, <1>2, <2>1, ReplayStays
<1> QED
  BY <1>3, <1>5, <1>6, <1>7 DEF ReplayStep

LEMMA ConnectionMessages ==
    ASSUME IInv, \/ \E s \in Socket : Connect(s) \/ InitialSkip(s) \/ HandleDisconnect(s)
                 \/ LoseConnection \/ GatewayRestart \/ QueueExpire
    PROVE  Messages' /\ NotSentBefore'
<1>1. TypeOK /\ WaitsForOne
  BY DEF IInv
<1>2. UNCHANGED <<inbox, call, replay>> \/ inbox' = <<>>
  BY DEF Connect, InitialSkip, HandleDisconnect, LoseConnection, GatewayRestart, QueueExpire
<1>3. UNCHANGED fleet
  BY DEF Connect, InitialSkip, HandleDisconnect, LoseConnection, GatewayRestart, QueueExpire, fleetVars
<1>4. \A c \in Command : call[c].pc = "none" => call'[c].pc = "none"
  <2>1. CASE UNCHANGED call
    BY <2>1
  <2>2. CASE GatewayRestart
    BY <2>2 DEF GatewayRestart, NoCall
  <2> QED
    BY <2>1, <2>2 DEF Connect, InitialSkip, HandleDisconnect, LoseConnection, QueueExpire
<1> QED
  BY <1>1, <1>2, <1>3, <1>4, MessagesUntouched, MessagesGone, NotBegun

LEMMA DeviceMessages ==
    ASSUME IInv, DeviceStep PROVE Messages' /\ NotSentBefore'
<1>1. TypeOK /\ WaitsForOne /\ call \in [Command -> CallRecord]
      /\ replay \in [Replay -> ReplayRecord] /\ inbox \in Seq(Message)
  BY DEF IInv, TypeOK
<1>2. CASE ClientReceive
  <2>1. inbox # <<>> /\ inbox' = Tail(inbox) /\ UNCHANGED fleet
    BY <1>2 DEF ClientReceive, fleetVars
  <2>2. PICK m : m = Head(inbox)
    OBVIOUS
  <2>3. m \in Message /\ m \in Among(inbox) /\ Awaited(m) /\ Acknowledge(m)
    BY <1>1, <1>2, <2>1, <2>2, AmongTail DEF ClientReceive, TypeOK
  <2>4. CASE m.from = "call"
    <3>1. m.c \in Command /\ m = Sent(m.c) /\ call[m.c].pc = "waiting"
      BY <2>3, <2>4 DEF Message, Sent, Awaited
    <3>2. UNCHANGED replay /\ \A d \in Command \ {m.c} : call'[d] = call[d]
      BY <1>1, <2>3, <2>4, <3>1, FleetOverridesAssumption DEF Acknowledge
    <3>3. \A k \in Among(inbox) : k = m \/ Awaited(k)'
      BY <1>1, <3>1, <3>2, CallMoves
    <3>4. Messages'
      BY <1>1, <2>1, <2>2, <2>4, <3>3, MessageTaken
    <3>5. NotSentBefore'
      BY <2>1, <3>1, <3>2, NotBegun
    <3> QED
      BY <3>4, <3>5
  <2>5. CASE m.from \in Replay
    <3>1. m = Replayed(m.from)
      BY <2>3, <2>5 DEF Message, Replayed, Awaited
    <3>2. UNCHANGED call /\ \A q \in Replay \ {m.from} : replay'[q] = replay[q]
      BY <1>1, <2>3, <2>5, FleetOverridesAssumption DEF Acknowledge
    <3>3. \A k \in Among(inbox) : k = m \/ Awaited(k)'
      BY <1>1, <2>5, <3>1, <3>2, ReplayMoves
    <3>4. m.from # "nobody"
      BY <2>5, FleetOverridesAssumption
    <3>5. Messages'
      BY <1>1, <2>1, <2>2, <3>3, <3>4, MessageTaken
    <3> QED
      BY <2>1, <3>2, <3>5, NotBegun
  <2>6. CASE m.from = "nobody"
    <3>1. UNCHANGED <<call, replay>>
      BY <2>3, <2>6, FleetOverridesAssumption DEF Acknowledge
    <3>2. \A k \in Among(inbox) : Awaited(k)'
      BY <1>1, <3>1 DEF TypeOK, Awaited
    <3>3. Messages'
      BY <1>1, <2>1, <3>2, MessageTaken
    <3> QED
      BY <2>1, <3>1, <3>3, NotBegun
  <2> QED
    BY <2>3, <2>4, <2>5, <2>6 DEF Acknowledge
<1>3. CASE AckLost
  BY <1>1, <1>3, MessagesGone, NotBegun DEF AckLost, fleetVars
<1>4. CASE ClientRejects
  <2>1. inbox # <<>> /\ inbox' = Tail(inbox) /\ UNCHANGED <<fleet, call, replay>>
    BY <1>4 DEF ClientRejects, fleetVars
  <2>2. \A k \in Among(inbox) : Awaited(k)'
    BY <1>1, <2>1 DEF TypeOK, Awaited
  <2>3. Messages'
    BY <1>1, <2>1, <2>2, MessageTaken
  <2> QED
    BY <2>1, <2>3, NotBegun
<1>5. CASE OverlayExpire
  BY <1>1, <1>5, MessagesUntouched, NotBegun DEF OverlayExpire, fleetVars
<1> QED
  BY <1>2, <1>3, <1>4, <1>5 DEF DeviceStep

LEMMA MessagesNext ==
    ASSUME IInv, [Next]_vars PROVE Messages' /\ NotSentBefore'
<1>1. CASE UNCHANGED vars
  BY <1>1, MessagesUntouched, NotBegun DEF vars, IInv, fleetVars
<1> QED
  BY <1>1, FleetMessages, SendMessages, ReplayMessages, ConnectionMessages, DeviceMessages
     DEF Next, InitialStep, Drains

(* A step of one replay leaves the others as they are.                       *)
LEMMA ReplaysHoldOne ==
    ASSUME ReplaysHold, NEW r \in Replay, \A q \in Replay \ {r} : replay'[q] = replay[q],
           replay'[r].pc = "idle" => replay'[r].cmds = <<>>,
           replay'[r].pc = "waiting" => replay'[r].cmds # <<>>
    PROVE  ReplaysHold'
  BY DEF ReplaysHold

LEMMA EndReplayEffect ==
    ASSUME TypeOK, NEW r \in Replay, NEW b, EndReplay(r, b)
    PROVE  replay'[r].pc = "idle" /\ replay'[r].cmds = <<>>
           /\ \A q \in Replay \ {r} : replay'[q] = replay[q]
<1>1. replay \in [Replay -> ReplayRecord]
  BY DEF TypeOK
<1> QED
  BY <1>1, RecordsTyped DEF EndReplay

(* What the steps of a replay make of its record: it ends, or changes its    *)
(* state and keeps its commands, or lets go of the first.                    *)
LEMMA ReplayEffect ==
    ASSUME TypeOK, NEW r \in Replay
    PROVE  /\ \A p \in {"next", "waiting", "requeue"} :
                replay' = [replay EXCEPT ![r].pc = p] =>
                    /\ replay'[r].pc = p /\ replay'[r].cmds = replay[r].cmds
                    /\ \A q \in Replay \ {r} : replay'[q] = replay[q]
           /\ replay' = [replay EXCEPT ![r].cmds = Tail(@)] =>
                    /\ replay'[r].pc = replay[r].pc /\ replay'[r].cmds = Tail(replay[r].cmds)
                    /\ \A q \in Replay \ {r} : replay'[q] = replay[q]
           /\ (\/ Dispose(r)
               \/ replay' = [replay EXCEPT ![r].pc = "next", ![r].cmds = Tail(@)]) =>
                    /\ replay'[r].pc = "next" /\ replay'[r].cmds = Tail(replay[r].cmds)
                    /\ \A q \in Replay \ {r} : replay'[q] = replay[q]
<1>1. replay \in [Replay -> ReplayRecord]
  BY DEF TypeOK
<1>2. ASSUME NEW p, replay' = [replay EXCEPT ![r].pc = p]
      PROVE  /\ replay'[r].pc = p /\ replay'[r].cmds = replay[r].cmds
             /\ \A q \in Replay \ {r} : replay'[q] = replay[q]
  BY <1>1, <1>2 DEF ReplayRecord
<1>3. ASSUME replay' = [replay EXCEPT ![r].cmds = Tail(@)]
      PROVE  /\ replay'[r].pc = replay[r].pc /\ replay'[r].cmds = Tail(replay[r].cmds)
             /\ \A q \in Replay \ {r} : replay'[q] = replay[q]
  BY <1>1, <1>3 DEF ReplayRecord
<1>4. ASSUME replay' = [replay EXCEPT ![r].pc = "next", ![r].cmds = Tail(@)]
      PROVE  /\ replay'[r].pc = "next" /\ replay'[r].cmds = Tail(replay[r].cmds)
             /\ \A q \in Replay \ {r} : replay'[q] = replay[q]
  BY <1>1, <1>4 DEF ReplayRecord
<1>5. ASSUME Dispose(r)
      PROVE  /\ replay'[r].pc = "next" /\ replay'[r].cmds = Tail(replay[r].cmds)
             /\ \A q \in Replay \ {r} : replay'[q] = replay[q]
  BY <1>1, <1>5 DEF ReplayRecord, Dispose
<1> QED
  BY <1>2, <1>3, <1>4, <1>5

LEMMA ReplaysHoldNext ==
    ASSUME IInv, [Next]_vars PROVE ReplaysHold'
<1>1. TypeOK /\ ReplaysHold
  BY DEF IInv
<1>2. ASSUME UNCHANGED replay PROVE ReplaysHold'
  BY <1>1, <1>2 DEF ReplaysHold
<1>3. ASSUME NEW r \in Replay, NEW b, EndReplay(r, b) PROVE ReplaysHold'
  BY <1>1, <1>3, EndReplayEffect, ReplaysHoldOne
<1>4. ASSUME NEW r \in Replay, ReplayStep(r) \/ ReplayThrows(r) PROVE ReplaysHold'
  <2>1. CASE replay' = [replay EXCEPT ![r].pc = "requeue"] \/ Dispose(r)
    BY <1>1, <2>1, ReplayEffect, ReplaysHoldOne
  <2>2. CASE replay[r].cmds # <<>> /\ replay' = [replay EXCEPT ![r].pc = "waiting"]
    BY <1>1, <2>2, ReplayEffect, ReplaysHoldOne
  <2>3. CASE replay[r].pc = "requeue" /\ replay' = [replay EXCEPT ![r].cmds = Tail(@)]
    BY <1>1, <2>3, ReplayEffect, ReplaysHoldOne
  <2> QED
    BY <1>3, <1>4, <2>1, <2>2, <2>3
       DEF ReplayStep, ReplayNext, ReplayTimeout, ReplayRequeue, ReplayThrows
<1>5. ASSUME NEW r \in Replay, NEW s \in Socket, Drains(s, r) PROVE ReplaysHold'
  <2>1. ASSUME NEW b, Drain(s, r, b) PROVE ReplaysHold'
    <3>1. replay \in [Replay -> ReplayRecord]
      BY <1>1 DEF TypeOK
    <3>2. replay'[r].pc = "next" /\ \A q \in Replay \ {r} : replay'[q] = replay[q]
      BY <2>1, <3>1 DEF Drain
    <3> QED
      BY <1>1, <3>2, ReplaysHoldOne
  <2> QED
    BY <1>2, <1>3, <1>5, <2>1 DEF Drains, Heartbeat, InitialDrain
<1>6. CASE GatewayRestart
  BY <1>6, RecordsTyped DEF GatewayRestart, ReplaysHold
<1>7. CASE ClientReceive
  <2>1. PICK m : Acknowledge(m)
    BY <1>7 DEF ClientReceive
  <2>2. CASE m.from \in Replay /\ ~UNCHANGED replay
    <3>1. \/ replay' = [replay EXCEPT ![m.from].pc = "next", ![m.from].cmds = Tail(@)]
          \/ replay' = [replay EXCEPT ![m.from].pc = "requeue"]
      BY <2>1, <2>2 DEF Acknowledge
    <3>2. replay'[m.from].pc \in {"next", "requeue"}
          /\ \A q \in Replay \ {m.from} : replay'[q] = replay[q]
      BY <1>1, <2>2, <3>1, ReplayEffect
    <3> QED
      BY <1>1, <2>2, <3>2, ReplaysHoldOne
  <2> QED
    BY <1>2, <2>1, <2>2 DEF Acknowledge
<1>8. CASE UNCHANGED vars
  BY <1>2, <1>8 DEF vars
<1>9. ASSUME NEW n \in Override, FleetStep(n) PROVE UNCHANGED replay
  BY <1>9 DEF FleetStep, PushContent, CreateOverride, SendCommandFails, ClearOverride, RecordExpire
<1>10. ASSUME NEW c \in Command, SendStep(c) PROVE UNCHANGED replay
  BY <1>10 DEF SendStep, SendFind, SendEmit, SendTimeout
<1>11. ASSUME \/ \E s \in Socket : Connect(s) \/ InitialSkip(s) \/ HandleDisconnect(s)
              \/ LoseConnection \/ QueueExpire \/ AckLost \/ ClientRejects \/ OverlayExpire
       PROVE  UNCHANGED replay
  BY <1>11 DEF Connect, InitialSkip, HandleDisconnect, LoseConnection, QueueExpire, AckLost, ClientRejects,
               OverlayExpire
<1> QED
  BY <1>2, <1>4, <1>5, <1>6, <1>7, <1>8, <1>9, <1>10, <1>11 DEF Next, InitialStep, Drains, DeviceStep

-----------------------------------------------------------------------------
(* What the gateway keeps                                                    *)

(* A step that gives the gateway a command,                                  *)
Issues(c) ==
    /\ c \notin Issued /\ Issued' = Issued \cup {c}
    /\ Kept' = Kept \cup {c}
    /\ UNCHANGED <<inbox, executed, lost>>

(* and one that does not: it lets go only of what was executed or dropped,   *)
(* and sends only what the gateway keeps or had sent.                        *)
Settles ==
    /\ UNCHANGED Issued
    /\ Kept' \subseteq Kept /\ Kept \subseteq Kept' \cup executed' \cup lost'
    /\ lost \subseteq lost'
    /\ \A m \in Among(inbox') : m.c \in Open

LEMMA CallKeeps ==
    ASSUME TypeOK, NEW c \in Command, \A d \in Command \ {c} : call'[d] = call[d]
    PROVE  /\ Running' \subseteq Running \cup {c} /\ Running \subseteq Running' \cup {c}
           /\ c \in Running' <=> call'[c].pc \in {"sent", "found", "waiting"}
           /\ c \in Running <=> call[c].pc \in {"sent", "found", "waiting"}
           /\ (call[c].pc # "none" /\ call'[c].pc # "none") => Issued' = Issued
           /\ (call[c].pc = "none" /\ call'[c].pc # "none")
                => c \notin Issued /\ Issued' = Issued \cup {c}
  BY DEF Running, Issued

LEMMA ReplayKeeps ==
    ASSUME NEW r \in Replay, \A q \in Replay \ {r} : replay'[q] = replay[q]
    PROVE  /\ Held' \subseteq Held \cup Among(replay'[r].cmds)
           /\ Held \subseteq Held' \cup Among(replay[r].cmds)
           /\ Among(replay[r].cmds) \subseteq Held /\ Among(replay'[r].cmds) \subseteq Held'
<1>1. ASSUME NEW q \in Replay PROVE q = r \/ Among(replay'[q].cmds) = Among(replay[q].cmds)
  BY DEF Among
<1> QED
  BY <1>1 DEF Held

LEMMA InboxKnown ==
    ASSUME TypeOK, \/ UNCHANGED inbox \/ inbox' = <<>>
                   \/ inbox # <<>> /\ inbox' = Tail(inbox)
    PROVE  \A m \in Among(inbox') : m.c \in Open
<1>1. inbox \in Seq(Message)
  BY DEF TypeOK
<1>2. Among(inbox') \subseteq Among(inbox)
  BY <1>1, AmongEmpty, AmongTail
<1> QED
  BY <1>2 DEF Open

LEMMA SentKnown ==
    ASSUME TypeOK, NEW m \in Message, NEW s, SendTo(s, m), m.c \in Kept
    PROVE  \A k \in Among(inbox') : k.c \in Open
<1>1. inbox \in Seq(Message)
  BY DEF TypeOK
<1>2. Among(inbox') \subseteq Among(inbox) \cup {m}
  BY <1>1, AmongAppend DEF SendTo
<1> QED
  BY <1>2 DEF Open

(* A step that does not touch the commands the gateway keeps.                *)
LEMMA SettlesUntouched ==
    ASSUME TypeOK, UNCHANGED <<call, replay, queue>>, lost \subseteq lost',
           \A m \in Among(inbox') : m.c \in Open
    PROVE  Settles
<1>1. Running' = Running /\ Held' = Held /\ Issued' = Issued /\ Among(queue') = Among(queue)
  BY DEF Running, Held, Issued
<1> QED
  BY <1>1 DEF Settles, Kept

(* A command is given to the gateway.                                        *)
LEMMA CallIssued ==
    ASSUME TypeOK, NEW c \in Command, call[c].pc = "none",
           call' = [call EXCEPT ![c].pc = "sent"],
           UNCHANGED <<replay, queue, inbox, executed, lost>>
    PROVE  Issues(c)
<1>1. call'[c].pc = "sent" /\ \A d \in Command \ {c} : call'[d] = call[d]
  BY DEF TypeOK, CallRecord
<1>2. Running' = Running \cup {c} /\ c \notin Issued /\ Issued' = Issued \cup {c}
  BY <1>1, CallKeeps
<1>3. Held' = Held /\ Among(queue') = Among(queue)
  BY DEF Held
<1> QED
  BY <1>2, <1>3 DEF Issues, Kept

LEMMA FleetKeeps ==
    ASSUME IInv, NEW n \in Override, FleetStep(n)
    PROVE  (\E c \in Command : Issues(c)) \/ (Settles /\ UNCHANGED executed)
<1>1. TypeOK /\ NotSentBefore /\ call \in [Command -> CallRecord]
  BY DEF IInv, TypeOK
<1>2. Push(n) \in Command /\ Clear(n) \in Command
  BY CommandTyped
<1>3. ASSUME NEW c \in Command, call[c].pc = "none", call' = [call EXCEPT ![c].pc = "sent"],
             UNCHANGED <<replay, queue, inbox, executed, lost>>
      PROVE  Issues(c)
  BY <1>1, <1>3, CallIssued
<1>4. CASE PushContent(n)
  BY <1>1, <1>2, <1>3, <1>4 DEF PushContent, NotSentBefore
<1>5. CASE CreateOverride(n) \/ SendCommandFails(n) \/ RecordExpire(n)
  BY <1>1, <1>5, SettlesUntouched, InboxKnown DEF CreateOverride, SendCommandFails, RecordExpire
<1>6. CASE ClearOverride(n)
  <2>1. CASE UNCHANGED call
    <3>1. UNCHANGED <<replay, queue, inbox, executed>> /\ lost \subseteq lost'
      BY <1>6 DEF ClearOverride
    <3> QED
      BY <1>1, <2>1, <3>1, SettlesUntouched, InboxKnown
  <2>2. CASE call' = [call EXCEPT ![Clear(n)].pc = "sent"] /\ UNCHANGED <<faults, lost>>
    BY <1>2, <1>3, <1>6, <2>2 DEF ClearOverride
  <2> QED
    BY <1>6, <2>1, <2>2 DEF ClearOverride
<1> QED
  BY <1>4, <1>5, <1>6 DEF FleetStep

LEMMA SendKeeps ==
    ASSUME IInv, NEW c \in Command, SendStep(c) PROVE Settles /\ UNCHANGED executed
<1>1. /\ TypeOK /\ WaitsForOne /\ call \in [Command -> CallRecord] /\ queue \in Seq(Command)
      /\ Sent(c) \in Message /\ Sent(c).c = c
  BY DEF IInv, TypeOK, Sent, Message, Caller
<1>2. /\ call[c].pc \in {"sent", "found", "waiting"} /\ \A d \in Command \ {c} : call'[d] = call[d]
      /\ UNCHANGED <<replay, executed>>
  BY <1>1 DEF SendStep, SendFind, SendEmit, SendTimeout, Queue, CallThrows
<1>3. c \in Running /\ c \in Kept
  BY <1>2 DEF Running, Kept
<1>4. \A m \in Among(inbox') : m.c \in Open
  <2>1. CASE UNCHANGED inbox
    BY <1>1, <2>1, InboxKnown
  <2>2. CASE SendTo(call[c].sock, Sent(c))
    BY <1>1, <1>3, <2>2, SentKnown
  <2>3. CASE Forget(Sent(c))
    <3>1. \A k \in Among(inbox) : k = Sent(c) \/ Awaited(k)'
      BY <1>1, <1>2, CallMoves
    <3>2. \A k \in Among(inbox') : \E h \in Among(inbox) : h.c = k.c
      BY <1>1, <2>3, <3>1, MessageForgotten
    <3> QED
      BY <3>2 DEF Open
  <2> QED
    BY <2>1, <2>2, <2>3 DEF SendStep, SendFind, SendEmit, SendTimeout
<1>5. CASE Queue(c)
  <2>1. call'[c].pc = "done"
    BY <1>1, <1>5 DEF Queue, EndedCall
  <2>2. /\ Running' \subseteq Running /\ Running \subseteq Running' \cup {c} /\ Issued' = Issued
    BY <1>1, <1>2, <1>3, <2>1, CallKeeps
  <2>3. Among(queue') = Among(queue) \cup {c} /\ UNCHANGED lost
    BY <1>1, <1>5, AmongAppend DEF Queue
  <2>4. Held' = Held
    BY <1>2 DEF Held
  <2> QED
    BY <1>2, <1>3, <1>4, <2>2, <2>3, <2>4 DEF Settles, Kept
<1>6. CASE CallThrows(c)
  <2>1. call'[c].pc = "done"
    BY <1>1, <1>6 DEF CallThrows, EndedCall
  <2>2. /\ Running' \subseteq Running /\ Running \subseteq Running' \cup {c} /\ Issued' = Issued
    BY <1>1, <1>2, <1>3, <2>1, CallKeeps
  <2>3. Among(queue') = Among(queue) /\ lost' = lost \cup {c}
    BY <1>6 DEF CallThrows
  <2>4. Held' = Held
    BY <1>2 DEF Held
  <2> QED
    BY <1>2, <1>4, <2>2, <2>3, <2>4 DEF Settles, Kept
<1>7. CASE /\ call'[c].pc \in {"sent", "found", "waiting"} /\ UNCHANGED <<queue, lost>>
  <2>1. Running' = Running /\ Issued' = Issued
    <3>1. c \in Running' /\ Issued' = Issued
      BY <1>1, <1>2, <1>7, CallKeeps
    <3>2. Running' \subseteq Running \cup {c} /\ Running \subseteq Running' \cup {c}
      BY <1>1, <1>2, CallKeeps
    <3> QED
      BY <1>3, <3>1, <3>2
  <2>2. Held' = Held /\ Among(queue') = Among(queue)
    BY <1>2, <1>7 DEF Held
  <2> QED
    BY <1>2, <1>4, <1>7, <2>1, <2>2 DEF Settles, Kept
<1>8. \/ Queue(c) \/ CallThrows(c)
      \/ call'[c].pc \in {"sent", "found", "waiting"} /\ UNCHANGED <<queue, lost>>
  <2>1. CASE SendFind(c)
    BY <1>1, <2>1 DEF SendFind, CallRecord
  <2>2. CASE SendEmit(c)
    <3>1. CASE call' = [call EXCEPT ![c].pc = "waiting"] /\ UNCHANGED <<queue, failures, lost, faults>>
      BY <1>1, <3>1 DEF CallRecord
    <3> QED
      BY <2>2, <3>1 DEF SendEmit
  <2>3. CASE SendTimeout(c)
    BY <2>3 DEF SendTimeout
  <2> QED
    BY <2>1, <2>2, <2>3 DEF SendStep
<1> QED
  BY <1>5, <1>6, <1>7, <1>8

(* A step of one replay settles when what it and the queue hold does.        *)
LEMMA ReplaySettles ==
    ASSUME NEW r \in Replay, UNCHANGED call,
           \A q \in Replay \ {r} : replay'[q] = replay[q],
           Among(replay'[r].cmds) \cup Among(queue') \subseteq Kept,
           Among(replay[r].cmds) \cup Among(queue)
               \subseteq Among(replay'[r].cmds) \cup Among(queue') \cup executed' \cup lost',
           lost \subseteq lost', \A m \in Among(inbox') : m.c \in Open
    PROVE  Settles
<1>1. Running' = Running /\ Issued' = Issued
  BY DEF Running, Issued
<1>2. /\ Held' \subseteq Held \cup Among(replay'[r].cmds)
      /\ Held \subseteq Held' \cup Among(replay[r].cmds)
      /\ Among(replay'[r].cmds) \subseteq Held'
  BY ReplayKeeps
<1>3. Kept' = Running' \cup Held' \cup Among(queue')
  BY DEF Kept
<1> QED
  BY <1>1, <1>2, <1>3 DEF Settles, Kept

LEMMA ReplayStepKeeps ==
    ASSUME IInv, NEW r \in Replay, ReplayStep(r) \/ ReplayThrows(r)
    PROVE  Settles /\ UNCHANGED executed
<1> DEFINE cmds == replay[r].cmds
<1>1. TypeOK /\ WaitsForOne /\ ReplaysHold /\ queue \in Seq(Command)
      /\ replay \in [Replay -> ReplayRecord]
  BY DEF IInv, TypeOK
<1>2. UNCHANGED <<call, executed>> /\ \A q \in Replay \ {r} : replay'[q] = replay[q]
  BY <1>1 DEF ReplayStep, ReplayNext, ReplayTimeout, ReplayRequeue, ReplayThrows,
              EndReplay, Dispose
<1>3. Among(cmds) \subseteq Kept /\ Among(queue) \subseteq Kept
  BY DEF Kept, Held
<1>4. ASSUME cmds # <<>>
      PROVE  /\ Head(cmds) \in Command /\ Among(cmds) = {Head(cmds)} \cup Among(Tail(cmds))
             /\ Replayed(r) \in Message /\ Replayed(r).c = Head(cmds)
  <2>1. cmds \in Seq(Command)
    BY <1>1, ReplayRecordTyped
  <2>2. Head(cmds) \in Command /\ Among(cmds) = {Head(cmds)} \cup Among(Tail(cmds))
    BY <1>4, <2>1, AmongTail
  <2> QED
    BY <2>2 DEF Replayed, Message, Caller
<1>5. \A m \in Among(inbox') : m.c \in Open
  <2>1. CASE UNCHANGED inbox
    BY <1>1, <2>1, InboxKnown
  <2>2. CASE cmds # <<>> /\ SendTo(replay[r].sock, Replayed(r))
    <3>1. PICK m : m = Replayed(r)
      OBVIOUS
    <3>2. m \in Message /\ m.c \in Kept /\ SendTo(replay[r].sock, m)
      BY <1>3, <1>4, <2>2, <3>1
    <3> QED
      BY <1>1, <3>2, SentKnown
  <2>3. CASE cmds # <<>> /\ Forget(Replayed(r))
    <3>1. PICK m : m = Replayed(r)
      OBVIOUS
    <3>2. m \in Message /\ Forget(m) /\ \A k \in Among(inbox) : k = m \/ Awaited(k)'
      BY <1>1, <1>2, <1>4, <2>3, <3>1, ReplayMoves
    <3>3. \A k \in Among(inbox') : \E h \in Among(inbox) : h.c = k.c
      BY <1>1, <3>2, MessageForgotten
    <3> QED
      BY <3>3 DEF Open
  <2> QED
    BY <1>1, <2>1, <2>2, <2>3
       DEF ReplayStep, ReplayNext, ReplayTimeout, ReplayRequeue, ReplayThrows, ReplaysHold
<1>6. CASE cmds = <<>> /\ UNCHANGED <<queue, lost>> /\ \E b : EndReplay(r, b)
  <2>1. replay'[r].cmds = cmds
    BY <1>1, <1>6, EndReplayEffect
  <2> QED
    BY <1>2, <1>3, <1>5, <1>6, <2>1, ReplaySettles
<1>7. CASE UNCHANGED <<queue, lost>> /\ replay'[r].cmds = cmds
  BY <1>2, <1>3, <1>5, <1>7, ReplaySettles
<1>8. CASE /\ cmds # <<>> /\ queue' = Append(queue, Head(cmds)) /\ UNCHANGED lost
           /\ replay'[r].cmds = Tail(cmds)
  <2>1. Among(queue') = Among(queue) \cup {Head(cmds)}
    BY <1>1, <1>4, <1>8, AmongAppend
  <2> QED
    BY <1>2, <1>3, <1>4, <1>5, <1>8, <2>1, ReplaySettles
<1>9. CASE ReplayThrows(r)
  <2>1. lost' = lost \cup Among(cmds) /\ UNCHANGED queue
    BY <1>9 DEF ReplayThrows
  <2>2. replay'[r].cmds = <<>>
    BY <1>1, <1>9, EndReplayEffect DEF ReplayThrows
  <2>3. Among(replay'[r].cmds) = {}
    BY <2>2, AmongEmpty
  <2> QED
    BY <1>2, <1>3, <1>5, <2>1, <2>3, ReplaySettles
<1>10. CASE ReplayNext(r)
  <2>1. UNCHANGED <<queue, lost>>
    BY <1>10 DEF ReplayNext
  <2>2. CASE cmds = <<>>
    BY <1>6, <1>10, <2>1, <2>2 DEF ReplayNext
  <2>3. CASE cmds # <<>>
    <3>1. replay'[r].cmds = cmds
      BY <1>1, <1>10, <2>3, ReplayEffect DEF ReplayNext
    <3> QED
      BY <1>7, <2>1, <3>1
  <2> QED
    BY <2>2, <2>3
<1>11. CASE ReplayTimeout(r)
  <2>1. cmds # <<>> /\ UNCHANGED lost
    BY <1>1, <1>11 DEF ReplayTimeout, ReplaysHold
  <2>2. CASE Dispose(r) /\ queue' = Append(queue, Head(cmds))
    BY <1>1, <1>8, <2>1, <2>2, ReplayEffect
  <2>3. CASE replay' = [replay EXCEPT ![r].pc = "requeue"] /\ UNCHANGED queue
    BY <1>1, <1>7, <2>1, <2>3, ReplayEffect
  <2> QED
    BY <1>11, <2>2, <2>3 DEF ReplayTimeout
<1>12. CASE ReplayRequeue(r)
  <2>1. UNCHANGED lost
    BY <1>12 DEF ReplayRequeue
  <2>2. CASE cmds = <<>>
    BY <1>6, <1>12, <2>1, <2>2 DEF ReplayRequeue
  <2>3. CASE cmds # <<>>
    BY <1>1, <1>8, <1>12, <2>1, <2>3, ReplayEffect DEF ReplayRequeue
  <2> QED
    BY <2>2, <2>3
<1> QED
  BY <1>2, <1>9, <1>10, <1>11, <1>12 DEF ReplayStep

LEMMA DrainsKeeps ==
    ASSUME IInv, NEW r \in Replay, NEW s \in Socket, Drains(s, r)
    PROVE  Settles /\ UNCHANGED executed
<1>1. TypeOK /\ replay \in [Replay -> ReplayRecord] /\ replay[r].cmds = <<>>
  BY DEF IInv, TypeOK, ReplaysHold, Drains, Heartbeat, InitialDrain
<1>2. UNCHANGED <<call, inbox, executed>>
  BY DEF Drains, Heartbeat, InitialDrain
<1>3. Among(replay[r].cmds) = {} /\ Among(queue) \subseteq Kept
  BY <1>1, AmongEmpty DEF Kept
<1>4. \A m \in Among(inbox') : m.c \in Open
  BY <1>1, <1>2, InboxKnown
<1>5. ASSUME NEW b, Drain(s, r, b), UNCHANGED lost PROVE Settles
  <2>1. replay'[r].cmds = queue /\ \A q \in Replay \ {r} : replay'[q] = replay[q]
    BY <1>1, <1>5 DEF Drain
  <2>2. Among(queue') = {}
    BY <1>5, AmongEmpty DEF Drain
  <2> QED
    BY <1>2, <1>3, <1>4, <1>5, <2>1, <2>2, ReplaySettles
<1>6. CASE /\ EndReplay(r, FALSE) \/ EndReplay(r, TRUE) \/ UNCHANGED replay
           /\ UNCHANGED <<queue, lost>> \/ DrainThrows
  <2>1. replay'[r].cmds = <<>> /\ \A q \in Replay \ {r} : replay'[q] = replay[q]
    BY <1>1, <1>6, EndReplayEffect
  <2>2. Among(replay'[r].cmds) = {} /\ (queue' = <<>> => Among(queue') = {})
    BY <2>1, AmongEmpty
  <2>3. UNCHANGED queue => Among(queue') = Among(queue)
    OBVIOUS
  <2>4. UNCHANGED <<queue, lost>> \/ (queue' = <<>> /\ lost' = lost \cup Among(queue))
    BY <1>6 DEF DrainThrows
  <2> QED
    BY <1>2, <1>3, <1>4, <2>1, <2>2, <2>3, <2>4, ReplaySettles
<1> QED
  BY <1>2, <1>5, <1>6 DEF Drains, Heartbeat, InitialDrain

LEMMA ConnectionKeeps ==
    ASSUME IInv, \/ \E s \in Socket : Connect(s) \/ InitialSkip(s) \/ HandleDisconnect(s)
                 \/ LoseConnection \/ GatewayRestart \/ QueueExpire
    PROVE  Settles /\ UNCHANGED executed
<1>1. TypeOK
  BY DEF IInv
<1>2. UNCHANGED executed /\ (UNCHANGED inbox \/ inbox' = <<>>)
  BY DEF Connect, InitialSkip, HandleDisconnect, LoseConnection, GatewayRestart, QueueExpire
<1>3. \A m \in Among(inbox') : m.c \in Open
  BY <1>1, <1>2, InboxKnown
<1>4. CASE LoseConnection \/ \E s \in Socket : Connect(s) \/ InitialSkip(s) \/ HandleDisconnect(s)
  BY <1>1, <1>2, <1>3, <1>4, SettlesUntouched DEF Connect, InitialSkip, HandleDisconnect, LoseConnection
<1>5. CASE GatewayRestart
  <2>1. /\ call' = [c \in Command |-> IF call[c].pc = "none" THEN NoCall ELSE EndedCall]
        /\ replay' = [r \in Replay |-> NoReplay]
        /\ lost' = lost \cup Running \cup Held /\ Among(queue') = Among(queue)
    BY <1>5 DEF GatewayRestart
  <2>2. Running' = {} /\ Issued' = Issued
    BY <2>1 DEF Running, Issued, NoCall, EndedCall
  <2>3. Held' = {}
    BY <2>1, AmongEmpty, RecordsTyped DEF Held
  <2> QED
    BY <1>2, <1>3, <2>1, <2>2, <2>3 DEF Settles, Kept
<1>6. CASE QueueExpire
  <2>1. UNCHANGED <<call, replay>> /\ queue' = <<>> /\ lost' = lost \cup Among(queue)
    BY <1>6 DEF QueueExpire
  <2>2. Running' = Running /\ Held' = Held /\ Issued' = Issued /\ Among(queue') = {}
    BY <2>1, AmongEmpty DEF Running, Held, Issued
  <2> QED
    BY <1>2, <1>3, <2>1, <2>2 DEF Settles, Kept
<1> QED
  BY <1>4, <1>5, <1>6

(* A device executes a command that is on its way.                           *)
Executes(c) == c \in Open /\ executed' = executed \cup {c} /\ UNCHANGED lost

LEMMA DeviceKeeps ==
    ASSUME IInv, DeviceStep
    PROVE  Settles /\ (UNCHANGED executed \/ \E c \in Command : Executes(c))
<1>1. /\ TypeOK /\ ReplaysHold /\ call \in [Command -> CallRecord] /\ inbox \in Seq(Message)
      /\ replay \in [Replay -> ReplayRecord]
  BY DEF IInv, TypeOK
<1>2. inbox # <<>> => /\ Head(inbox) \in Among(inbox) /\ Head(inbox) \in Message
                      /\ Head(inbox).c \in Open /\ Head(inbox).c \in Command
  <2>1. inbox # <<>> => Head(inbox) \in Among(inbox) /\ Head(inbox) \in Message
    BY <1>1, AmongTail
  <2> QED
    BY <2>1 DEF Open, Message
<1>3. CASE ClientReceive
  <2>1. inbox # <<>> /\ inbox' = Tail(inbox) /\ UNCHANGED <<queue, lost>>
    BY <1>3 DEF ClientReceive
  <2>2. PICK m : m = Head(inbox)
    OBVIOUS
  <2>3. /\ m \in Message /\ m.c \in Command /\ m.c \in Open /\ Awaited(m) /\ Acknowledge(m)
        /\ executed' = executed \cup {m.c}
    BY <1>1, <1>2, <1>3, <2>1, <2>2 DEF ClientReceive, HandleCommand, TypeOK
  <2>4. Executes(m.c)
    BY <2>1, <2>3 DEF Executes
  <2>5. \A k \in Among(inbox') : k.c \in Open
    BY <1>1, <2>1, InboxKnown
  <2>6. CASE m.from = "call"
    <3>1. call[m.c].pc = "waiting" /\ call' = [call EXCEPT ![m.c] = EndedCall] /\ UNCHANGED replay
      BY <2>3, <2>6, FleetOverridesAssumption DEF Awaited, Acknowledge
    <3>2. call'[m.c].pc = "done" /\ \A d \in Command \ {m.c} : call'[d] = call[d]
      BY <1>1, <2>3, <3>1 DEF EndedCall
    <3>3. m.c \in Running
      BY <2>3, <3>1 DEF Running
    <3>4. Running' \subseteq Running /\ Running \subseteq Running' \cup {m.c} /\ Issued' = Issued
      BY <1>1, <2>3, <3>1, <3>2, <3>3, CallKeeps
    <3>5. Held' = Held /\ Among(queue') = Among(queue)
      BY <2>1, <3>1 DEF Held
    <3>6. Settles
      BY <2>1, <2>3, <2>5, <3>4, <3>5 DEF Settles, Kept
    <3> QED
      BY <2>3, <2>4, <3>6
  <2>7. CASE m.from \in Replay
    <3> DEFINE cmds == replay[m.from].cmds
    <3>1. cmds # <<>> /\ Head(cmds) = m.c
      BY <1>1, <2>3, <2>7 DEF Awaited, ReplaysHold
    <3>2. cmds \in Seq(Command)
      BY <1>1, <2>7, ReplayRecordTyped
    <3>3. Among(cmds) = {m.c} \cup Among(Tail(cmds))
      BY <3>1, <3>2, AmongTail
    <3>4. /\ UNCHANGED call
          /\ \/ replay' = [replay EXCEPT ![m.from].pc = "next", ![m.from].cmds = Tail(@)]
             \/ replay' = [replay EXCEPT ![m.from].pc = "requeue"]
      BY <2>3, <2>7, FleetOverridesAssumption DEF Acknowledge
    <3>5. /\ \A q \in Replay \ {m.from} : replay'[q] = replay[q]
          /\ replay'[m.from].cmds = cmds \/ replay'[m.from].cmds = Tail(cmds)
      BY <1>1, <2>7, <3>4, ReplayEffect
    <3>6. Among(cmds) \subseteq Kept /\ Among(queue) \subseteq Kept /\ Among(queue') = Among(queue)
      BY <2>1, <2>7 DEF Kept, Held
    <3>7. /\ Among(replay'[m.from].cmds) \subseteq Among(cmds)
          /\ Among(cmds) \subseteq Among(replay'[m.from].cmds) \cup executed'
      BY <2>3, <3>3, <3>5
    <3>8. Settles
      BY <2>1, <2>5, <2>7, <3>4, <3>5, <3>6, <3>7, ReplaySettles
    <3> QED
      BY <2>3, <2>4, <3>8
  <2>8. CASE m.from = "nobody"
    <3>1. UNCHANGED <<call, replay>>
      BY <2>3, <2>8, FleetOverridesAssumption DEF Acknowledge
    <3>2. Settles
      BY <1>1, <2>1, <2>5, <3>1, SettlesUntouched
    <3> QED
      BY <2>3, <2>4, <3>2
  <2> QED
    BY <2>3, <2>6, <2>7, <2>8 DEF Acknowledge
<1>4. CASE AckLost
  <2>1. /\ inbox # <<>> /\ inbox' = <<>> /\ UNCHANGED <<call, replay, queue, lost>>
        /\ executed' = executed \cup {Head(inbox).c}
    BY <1>4 DEF AckLost, HandleCommand
  <2>2. Settles
    BY <1>1, <2>1, InboxKnown, SettlesUntouched
  <2> QED
    BY <1>2, <2>1, <2>2 DEF Executes
<1>5. CASE ClientRejects \/ OverlayExpire
  <2>1. /\ UNCHANGED <<call, replay, queue, lost, executed>>
        /\ UNCHANGED inbox \/ (inbox # <<>> /\ inbox' = Tail(inbox))
    BY <1>5 DEF ClientRejects, OverlayExpire
  <2>2. Settles
    BY <1>1, <2>1, InboxKnown, SettlesUntouched
  <2> QED
    BY <2>1, <2>2
<1> QED
  BY <1>3, <1>4, <1>5 DEF DeviceStep

(* Every step gives the gateway a command, or settles, and executes a        *)
(* command or none.                                                          *)
LEMMA StepKeeps ==
    ASSUME IInv, [Next]_vars
    PROVE  \/ \E c \in Command : Issues(c)
           \/ Settles /\ (UNCHANGED executed \/ \E c \in Command : Executes(c))
<1>1. CASE UNCHANGED vars
  <2>1. TypeOK /\ UNCHANGED <<call, replay, queue, inbox, lost, executed>>
    BY <1>1 DEF vars, IInv
  <2> QED
    BY <2>1, InboxKnown, SettlesUntouched
<1> QED
  BY <1>1, FleetKeeps, SendKeeps, ReplayStepKeeps, DrainsKeeps, ConnectionKeeps, DeviceKeeps
     DEF Next, InitialStep, Drains

LEMMA BackedNext ==
    ASSUME IInv, [Next]_vars PROVE Backed'
<1>1. CASE \E c \in Command : Issues(c)
  BY <1>1 DEF Issues, Backed, IInv
<1>2. CASE Settles /\ executed \subseteq executed'
  BY <1>2 DEF Settles, Backed, Open, IInv
<1> QED
  BY <1>1, <1>2, StepKeeps DEF Executes

-----------------------------------------------------------------------------
(* Clearing                                                                  *)

LEMMA AccountedNext ==
    ASSUME IInv, [Next]_vars PROVE Accounted'
<1>1. CASE \E c \in Command : Issues(c)
  BY <1>1 DEF Issues, Accounted, Open, IInv
<1>2. ASSUME Settles, UNCHANGED executed \/ \E c \in Command : Executes(c) PROVE Accounted'
  <2>1. Open' \subseteq Open /\ executed' \subseteq executed \cup Open
    BY <1>2 DEF Settles, Open, Executes
  <2>2. Open \subseteq Kept \cup executed \cup lost /\ Kept' \subseteq Open'
    BY DEF IInv, Backed, Open
  <2>3. executed \subseteq executed' /\ Open \subseteq Open' \cup executed' \cup lost'
    BY <1>2, <2>2 DEF Settles, Executes
  <2> QED
    BY <1>2, <2>1, <2>3 DEF Settles, Accounted, IInv
<1> QED
  BY <1>1, <1>2, StepKeeps

(* Records, settled clears and the screen, after a step of the middleware.   *)
Cleared == OnRecord /\ LateOnlyUnderway

LEMMA FleetClears ==
    ASSUME IInv, NEW n \in Override, FleetStep(n) PROVE Cleared'
<1>1. TypeOK /\ OnRecord /\ LateOnlyUnderway /\ NotSentBefore /\ past \in Past
  BY DEF IInv, TypeOK
<1>2. /\ Push(n) \in Command /\ Clear(n) \in Command
      /\ \A m, k \in Override : /\ Push(m) # Clear(k)
                                /\ m # k => Push(m) # Push(k)
                                /\ m # k => Clear(m) # Clear(k)
  BY DEF Push, Clear, Command
<1>3. UNCHANGED <<queue, replay, inbox, executed, overlay>>
  BY DEF FleetStep, PushContent, CreateOverride, SendCommandFails, ClearOverride, RecordExpire
<1>4. UNCHANGED call => Open' = Open /\ Issued' = Issued
  BY <1>3 DEF Open, Kept, Running, Held, Issued
<1>5. ASSUME NEW c \in Command, Issues(c) PROVE Open' = Open \cup {c} /\ Issued' = Issued \cup {c}
  BY <1>5 DEF Issues, Open
<1>6. CASE PushContent(n)
  <2>1. /\ fleet[n] = "idle" /\ fleet'[n] = "posted"
        /\ \A m \in Override : m # n => fleet'[m] = fleet[m]
        /\ UNCHANGED <<records, past, lost>>
    BY <1>1, <1>6 DEF PushContent, TypeOK
  <2>2. Issues(Push(n))
    BY <1>1, <1>2, <1>6, CallIssued DEF PushContent, NotSentBefore
  <2>3. Open' = Open \cup {Push(n)} /\ Issued' = Issued \cup {Push(n)} /\ Clear(n) \notin Issued
    BY <1>1, <1>2, <1>5, <2>1, <2>2 DEF OnRecord
  <2>4. \A m \in Override : Clear(m) \in Issued' <=> Clear(m) \in Issued
    BY <1>2, <2>3
  <2>5. \A m \in Override : m # n => (Push(m) \in Open' <=> Push(m) \in Open)
    BY <1>2, <2>3
  <2>6. OnRecord'
    <3> SUFFICES ASSUME NEW m \in Override
                 PROVE /\ fleet'[m] = "idle" => m \notin records' /\ Clear(m) \notin Issued'
                       /\ fleet'[m] = "ended" =>
                            \/ m \in records' \cup past'.unrecorded \cup past'.outlived
                            \/ Clear(m) \in Issued' \cup lost'
      BY DEF OnRecord
    <3>1. CASE m = n
      BY <2>1, <3>1
    <3>2. CASE m # n
      BY <1>1, <2>1, <2>4, <3>2 DEF OnRecord
    <3> QED
      BY <3>1, <3>2
  <2>7. LateOnlyUnderway'
    BY <1>1, <1>2, <1>3, <2>1, <2>3, <2>4, <2>5 DEF LateOnlyUnderway
  <2> QED
    BY <2>6, <2>7 DEF Cleared
<1>7. CASE CreateOverride(n) \/ SendCommandFails(n) \/ RecordExpire(n)
  <2>1. /\ UNCHANGED <<call, lost>> /\ past'.underway = past.underway
        /\ past.unrecorded \subseteq past'.unrecorded /\ past.outlived \subseteq past'.outlived
    BY <1>1, <1>7 DEF CreateOverride, SendCommandFails, RecordExpire, Past
  <2>2. \A m \in Override : m # n => fleet'[m] = fleet[m] /\ (m \in records' <=> m \in records)
    BY <1>1, <1>7 DEF CreateOverride, SendCommandFails, RecordExpire, TypeOK
  <2>3. fleet'[n] # "idle" /\ n \in records' \cup past'.unrecorded \cup past'.outlived
    <3>1. CASE CreateOverride(n)
      BY <1>1, <3>1 DEF CreateOverride, TypeOK
    <3>2. CASE SendCommandFails(n)
      BY <1>1, <3>2 DEF SendCommandFails, TypeOK, Past
    <3>3. CASE RecordExpire(n)
      <4>1. n \in records /\ fleet' = fleet /\ n \in past'.outlived
        BY <1>1, <3>3 DEF RecordExpire, Past
      <4> QED
        BY <1>1, <4>1 DEF OnRecord
    <3> QED
      BY <1>7, <3>1, <3>2, <3>3
  <2>4. Open' = Open /\ Issued' = Issued
    BY <1>4, <2>1
  <2>5. OnRecord'
    BY <1>1, <2>1, <2>2, <2>3, <2>4 DEF OnRecord
  <2>6. LateOnlyUnderway'
    BY <1>1, <1>3, <2>1, <2>4 DEF LateOnlyUnderway
  <2> QED
    BY <2>5, <2>6 DEF Cleared
<1>8. CASE ClearOverride(n)
  <2>1. /\ n \in records /\ records' = records \ {n} /\ fleet' = fleet
        /\ past'.unrecorded = past.unrecorded /\ past'.outlived = past.outlived
        /\ past'.underway = IF Push(n) \in Open THEN past.underway \cup {n} ELSE past.underway
    BY <1>1, <1>8 DEF ClearOverride, Past
  <2>2. fleet[n] # "idle"
    BY <1>1, <2>1 DEF OnRecord
  <2>3. CASE UNCHANGED call /\ lost' = lost \cup {Clear(n)}
    <3>1. OnRecord'
      BY <1>1, <1>2, <1>4, <2>1, <2>3 DEF OnRecord
    <3>2. LateOnlyUnderway'
      BY <1>1, <1>3, <1>4, <2>1, <2>3 DEF LateOnlyUnderway
    <3> QED
      BY <3>1, <3>2 DEF Cleared
  <2>4. CASE call' = [call EXCEPT ![Clear(n)].pc = "sent"] /\ UNCHANGED lost
    <3>1. Issues(Clear(n))
      BY <1>1, <1>2, <1>3, <1>8, <2>4, CallIssued DEF ClearOverride
    <3>2. Open' = Open \cup {Clear(n)} /\ Issued' = Issued \cup {Clear(n)} /\ Clear(n) \notin executed
      BY <1>2, <1>5, <3>1 DEF Issues, IInv, Accounted
    <3>3. \A m \in Override : m # n => (Clear(m) \in Issued' <=> Clear(m) \in Issued)
      BY <1>2, <3>2
    <3>4. OnRecord'
      BY <1>1, <2>1, <2>2, <2>4, <3>2, <3>3 DEF OnRecord
    <3>5. LateOnlyUnderway'
      BY <1>1, <1>2, <1>3, <2>1, <3>2, <3>3 DEF LateOnlyUnderway
    <3> QED
      BY <3>4, <3>5 DEF Cleared
  <2> QED
    BY <1>8, <2>3, <2>4 DEF ClearOverride
<1> QED
  BY <1>6, <1>7, <1>8 DEF FleetStep

(* Every other step: it issues nothing, and shows an override only when its  *)
(* command arrives.                                                          *)
Shows ==
    \/ UNCHANGED <<executed, overlay>>
    \/ overlay'.n = NoOverride
    \/ \E n \in Override : /\ Push(n) \in Open /\ overlay'.n = n
                            /\ executed' = executed \cup {Push(n)}

LEMMA SettledClears ==
    ASSUME IInv, Settles, Shows, UNCHANGED <<fleet, records, past>> PROVE Cleared'
<1>1. OnRecord /\ LateOnlyUnderway /\ Accounted
  BY DEF IInv
<1>2. Open' \subseteq Open /\ Issued' = Issued /\ lost \subseteq lost'
  BY DEF Settles, Open
<1>3. \A n, k \in Override : n # NoOverride /\ Push(n) # Clear(k)
  BY DEF Override, NoOverride, Push, Clear
<1>4. OnRecord'
  BY <1>1, <1>2 DEF OnRecord
<1>5. LateOnlyUnderway'
  BY <1>1, <1>2, <1>3 DEF LateOnlyUnderway, Shows, Accounted
<1> QED
  BY <1>4, <1>5 DEF Cleared

LEMMA DeviceShows ==
    ASSUME TypeOK, DeviceStep PROVE Shows
<1>1. ASSUME inbox # <<>>, HandleCommand(Head(inbox).c) PROVE Shows
  <2>1. inbox \in Seq(Message)
    BY DEF TypeOK
  <2>2. Head(inbox) \in Among(inbox) /\ Head(inbox) \in Message
    BY <1>1, <2>1 DEF Among
  <2>3. Head(inbox).c \in Open /\ Head(inbox).c \in Command
    BY <2>2 DEF Open, Message
  <2>4. PICK n \in Override : Head(inbox).c = Push(n) \/ Head(inbox).c = Clear(n)
    BY <2>3 DEF Command, Push, Clear
  <2>5. CASE Head(inbox).c = Push(n)
    BY <1>1, <2>3, <2>5 DEF HandleCommand, Shows, Push
  <2>6. CASE Head(inbox).c = Clear(n)
    BY <1>1, <2>6 DEF HandleCommand, Shows, Clear
  <2> QED
    BY <2>4, <2>5, <2>6
<1>2. CASE OverlayExpire
  BY <1>2 DEF OverlayExpire, Shows
<1>3. CASE ClientRejects
  BY <1>3 DEF ClientRejects, Shows
<1> QED
  BY <1>1, <1>2, <1>3 DEF DeviceStep, ClientReceive, AckLost

LEMMA ClearsNext ==
    ASSUME IInv, [Next]_vars PROVE Cleared'
<1>1. TypeOK
  BY DEF IInv
<1>2. CASE UNCHANGED vars
  <2>1. Settles /\ Shows /\ UNCHANGED <<fleet, records, past>>
    BY <1>1, <1>2, InboxKnown, SettlesUntouched DEF vars, Shows, fleetVars
  <2> QED
    BY <2>1, SettledClears
<1>3. CASE \E n \in Override : FleetStep(n)
  BY <1>3, FleetClears
<1>4. ASSUME NEW c \in Command, SendStep(c) PROVE Cleared'
  <2>1. UNCHANGED <<fleet, records, past, overlay>>
    BY <1>4 DEF SendStep, SendFind, SendEmit, SendTimeout, fleetVars
  <2> QED
    BY <1>4, <2>1, SendKeeps, SettledClears DEF Shows
<1>5. ASSUME NEW r \in Replay, ReplayStep(r) \/ ReplayThrows(r) PROVE Cleared'
  <2>1. UNCHANGED <<fleet, records, past, overlay>>
    BY <1>5 DEF ReplayStep, ReplayNext, ReplayTimeout, ReplayRequeue, ReplayThrows, fleetVars
  <2> QED
    BY <1>5, <2>1, ReplayStepKeeps, SettledClears DEF Shows
<1>6. ASSUME NEW s \in Socket, NEW r \in Replay, Drains(s, r) PROVE Cleared'
  <2>1. UNCHANGED <<fleet, records, past, overlay>>
    BY <1>6 DEF Drains, Heartbeat, InitialDrain, fleetVars
  <2> QED
    BY <1>6, <2>1, DrainsKeeps, SettledClears DEF Shows
<1>7. ASSUME \/ \E s \in Socket : Connect(s) \/ InitialSkip(s) \/ HandleDisconnect(s)
             \/ LoseConnection \/ GatewayRestart \/ QueueExpire
      PROVE  Cleared'
  <2>1. UNCHANGED <<fleet, records, past, overlay>>
    BY <1>7 DEF Connect, InitialSkip, HandleDisconnect, LoseConnection, GatewayRestart, QueueExpire, fleetVars
  <2> QED
    BY <1>7, <2>1, ConnectionKeeps, SettledClears DEF Shows
<1>8. CASE DeviceStep
  <2>1. UNCHANGED <<fleet, records, past>>
    BY <1>8 DEF DeviceStep, ClientReceive, AckLost, ClientRejects, OverlayExpire, fleetVars
  <2> QED
    BY <1>1, <1>8, <2>1, DeviceKeeps, DeviceShows, SettledClears
<1> QED
  BY <1>2, <1>3, <1>4, <1>5, <1>6, <1>7, <1>8 DEF Next, InitialStep, Drains

-----------------------------------------------------------------------------
(* The theorems                                                              *)

LEMMA InitInv == Init => IInv
<1> SUFFICES ASSUME Init PROVE IInv
  OBVIOUS
<1>1. Among(inbox) = {} /\ DOMAIN inbox = {}
  BY AmongEmpty DEF Init
<1>2. TypeOK
  BY <1>1, RecordsTyped, FleetOverridesAssumption DEF Init, TypeOK, Past
<1>3. Backed /\ WaitsForOne
  BY <1>1 DEF Backed, WaitsForOne
<1>4. ReplaysHold
  BY RecordsTyped DEF Init, ReplaysHold
<1>5. NotSentBefore
  BY CommandTyped DEF Init, NotSentBefore, NoCall
<1>6. Issued = {} /\ Open = {}
  <2>1. \A c \in Command : call[c].pc = "none"
    BY DEF Init, NoCall
  <2>2. Held = {} /\ Among(queue) = {}
    BY AmongEmpty, RecordsTyped DEF Init, Held
  <2> QED
    BY <1>1, <2>1, <2>2 DEF Issued, Open, Kept, Running
<1>7. Accounted /\ OnRecord /\ LateOnlyUnderway
  BY <1>6 DEF Init, Accounted, OnRecord, LateOnlyUnderway
<1> QED
  BY <1>2, <1>3, <1>4, <1>5, <1>7 DEF IInv

LEMMA NextInv == IInv /\ [Next]_vars => IInv'
<1> SUFFICES ASSUME IInv, [Next]_vars PROVE IInv'
  OBVIOUS
<1>1. Types' /\ Messages' /\ NotSentBefore'
  BY TypesNext, MessagesNext DEF IInv
<1>2. TypeOK' /\ WaitsForOne'
  BY <1>1 DEF Types, Messages, TypeOK
<1> QED
  BY <1>1, <1>2, ReplaysHoldNext, BackedNext, AccountedNext, ClearsNext DEF IInv, Cleared

(* The inductive invariant holds: every command on its way is kept at the    *)
(* gateway, or was executed or dropped before.                               *)
THEOREM Inductive == Spec => []IInv
  BY InitInv, NextInv, PTL DEF Spec

(* Every variable keeps its type, and who waits for an acknowledgement waits *)
(* for that of the command it emitted.                                       *)
THEOREM TypeCorrect == Spec => []TypeOK
  BY Inductive, PTL DEF IInv

(* What was cleared stays cleared: once the clear is settled its override is *)
(* not on the screen, unless the clear was lost, or the override was still   *)
(* on its way when it was cleared.                                           *)
THEOREM ClearedHolds == Spec => []ClearedStaysCleared
<1>1. IInv => ClearedStaysCleared
  <2> SUFFICES ASSUME IInv, NEW n \in Override, call[Clear(n)].pc = "done",
                      Clear(n) \notin Open, overlay.n = n
               PROVE  Clear(n) \in lost \/ n \in past.underway
    BY DEF ClearedStaysCleared
  <2>1. Clear(n) \in Issued
    BY CommandTyped DEF Issued
  <2> QED
    BY <2>1 DEF IInv, Accounted, LateOnlyUnderway
<1> QED
  BY <1>1, Inductive, PTL

(* An override on the screen whose operator was answered is on record, or is *)
(* being cleared, but for the exceptions the property names.                 *)
THEOREM ShownHolds == Spec => []ShownCanBeCleared
<1>1. IInv => ShownCanBeCleared
  BY DEF IInv, ShownCanBeCleared, OnRecord, Accounted, LateOnlyUnderway
<1> QED
  BY <1>1, Inductive, PTL

LEMMA PromiseInit == Init => Promise!Init
<1> SUFFICES ASSUME Init PROVE Promise!Init
  OBVIOUS
<1>1. Running = {} /\ \A c \in Command : call[c].pc = "none"
  BY DEF Init, Running, NoCall
<1>2. Held = {}
  BY AmongEmpty, RecordsTyped DEF Init, Held
<1>3. Among(queue) = {} /\ Among(inbox) = {}
  BY AmongEmpty DEF Init
<1> QED
  BY <1>1, <1>2, <1>3 DEF Init, Promise!Init, Open, Kept, Issued

(* The gateway keeps its promise: every step is one of AtLeastOnce, or a     *)
(* stutter, for any number of sockets, replays and overrides.                *)
LEMMA PromiseNext == IInv /\ IInv' /\ [Next]_vars => [Promise!Next]_(Promise!vars)
<1> SUFFICES ASSUME IInv, IInv', [Next]_vars PROVE Promise!Next
  OBVIOUS
<1>1. ASSUME NEW c \in Command, Issues(c) PROVE Promise!Issue(c)
  <2>1. Open' = Open \cup {c}
    BY <1>1 DEF Issues, Open
  <2> QED
    BY <1>1, <2>1 DEF Issues, Issued, Promise!Issue
<1>2. ASSUME Settles, executed \subseteq executed' PROVE Promise!LettingGo
  <2>1. Open' \subseteq Open
    BY <1>2 DEF Settles, Open
  <2>2. Open \subseteq Kept \cup executed \cup lost
    BY DEF IInv, Backed, Open
  <2>3. Kept' \subseteq Open'
    BY DEF Open
  <2>4. Open \ Open' \subseteq executed' \cup lost'
    BY <1>2, <2>2, <2>3 DEF Settles
  <2> QED
    BY <2>1, <2>4 DEF Promise!LettingGo
<1>3. ASSUME Settles, UNCHANGED executed PROVE Promise!Drop
  <2>1. lost' \subseteq Command
    BY DEF IInv, TypeOK
  <2>2. Promise!LettingGo
    BY <1>2, <1>3
  <2> QED
    BY <1>3, <2>1, <2>2 DEF Settles, Issued, Promise!Drop
<1>4. ASSUME NEW c \in Command, Settles, Executes(c) PROVE Promise!Execute(c)
  <2>1. Promise!LettingGo
    BY <1>2, <1>4 DEF Executes
  <2> QED
    BY <1>4, <2>1 DEF Settles, Issued, Executes, Promise!Execute
<1> QED
  BY <1>1, <1>3, <1>4, StepKeeps DEF Promise!Next

(* FleetOverrides implements AtLeastOnce: no timeout, lost acknowledgement,  *)
(* change of sockets or overlap of replays loses a command silently, and no  *)
(* command is executed after the gateway has let go of it.                   *)
THEOREM Implements == Spec => KeepsPromise
<1>1. Init => Promise!Init
  BY PromiseInit
<1>2. IInv /\ IInv' /\ [Next]_vars => [Promise!Next]_(Promise!vars)
  BY PromiseNext
<1> QED
  BY <1>1, <1>2, Inductive, PTL DEF Spec, KeepsPromise, Promise!Spec

=============================================================================
