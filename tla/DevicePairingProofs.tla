-------------------------- MODULE DevicePairingProofs --------------------------
(***************************************************************************)
(* Theorems about DevicePairing, for every set of devices, organizations   *)
(* and completions, every quota and every bound.                           *)
(***************************************************************************)
EXTENDS DevicePairing, FiniteSetTheorems, TLAPS

Progress == {"idle", "read", "claimed", "new", "quota", "write", "written", "release"}

LEMMA ConstantFacts ==
    /\ NoCode \notin Code /\ NoToken \in TokenOrNone /\ NewRow \notin Nat
    /\ NoRow \in RowRecord /\ NoRequest \in RequestRecord
    /\ NoCall \in CompRecord /\ NoPoll \in PollRecord /\ Code \subseteq Nat
  BY DevicePairingAssumption
     DEF Code, NoCode, NoToken, TokenOrNone, NewRow, NoRow, RowRecord, NoRequest,
         RequestRecord, NoCall, CompRecord, NoPoll, PollRecord

(* Assigning one field of a call, a device or a poll.                        *)
LEMMA GotoTyped ==
    ASSUME comp \in [Completer -> CompRecord], NEW p \in Completer, NEW pc \in Progress,
           Goto(p, pc)
    PROVE  comp' \in [Completer -> CompRecord]
  BY DEF Goto, CompRecord, Progress

LEMMA CallTyped ==
    ASSUME comp \in [Completer -> CompRecord], NEW p \in Completer, NEW r \in CompRecord,
           comp' = [comp EXCEPT ![p] = r]
    PROVE  comp' \in [Completer -> CompRecord]
  OBVIOUS

LEMMA AskingTyped ==
    ASSUME device \in [Device -> DeviceRecord], NEW d \in Device, NEW b \in BOOLEAN,
           device' = [device EXCEPT ![d].asking = b]
    PROVE  device' \in [Device -> DeviceRecord]
  BY DEF DeviceRecord

LEMMA AnsweredTyped ==
    ASSUME device \in [Device -> DeviceRecord], NEW d \in Device, NEW c \in Code,
           device' = [device EXCEPT ![d].asking = FALSE, ![d].code = c]
    PROVE  device' \in [Device -> DeviceRecord]
  BY DEF DeviceRecord

LEMMA HeldTyped ==
    ASSUME device \in [Device -> DeviceRecord], NEW d \in Device, NEW t \in TokenOrNone,
           device' = [device EXCEPT ![d].token = t]
    PROVE  device' \in [Device -> DeviceRecord]
  BY DEF DeviceRecord

LEMMA StatusTyped ==
    ASSUME row \in [Device -> RowRecord], NEW d \in Device, NEW st \in {"offline", "online"},
           row' = [row EXCEPT ![d].status = st]
    PROVE  row' \in [Device -> RowRecord]
  BY DEF RowRecord

LEMMA FaultTyped == ASSUME faults \in 0 .. MaxFaults, Fault PROVE faults' \in 0 .. MaxFaults
  BY DevicePairingAssumption DEF Fault

(* What a call ends with.                                                    *)
LEMMA EndCallTyped ==
    ASSUME TypeOK, NEW p \in Completer, NEW kc \in BOOLEAN, NEW ko \in BOOLEAN,
           EndCall(p, kc, ko)
    PROVE  /\ claim' \in [Code -> Completer \cup {None, Orphan}]
           /\ orgClaim' \in [Org -> Completer \cup {None, Orphan}]
           /\ comp' \in [Completer -> CompRecord]
<1>1. claim \in [Code -> Completer \cup {None, Orphan}]
  BY DEF TypeOK
<1>2. orgClaim \in [Org -> Completer \cup {None, Orphan}]
  BY DEF TypeOK
<1>3. claim' \in [Code -> Completer \cup {None, Orphan}]
  BY <1>1 DEF EndCall
<1>4. orgClaim' \in [Org -> Completer \cup {None, Orphan}]
  BY <1>2 DEF EndCall
<1>5. comp' \in [Completer -> CompRecord]
  BY ConstantFacts DEF EndCall, TypeOK
<1> QED
  BY <1>3, <1>4, <1>5

LEMMA HandOverTyped ==
    ASSUME TypeOK, NEW p \in Completer, HandOver(p)
    PROVE  request' \in [Code -> RequestRecord]
<1>1. comp[p].tok \in TokenOrNone
  BY DEF TypeOK, CompRecord
<1>2. [present |-> TRUE, plaintextToken |-> comp[p].tok] \in RequestRecord
  BY <1>1 DEF RequestRecord
<1> QED
  BY <1>2 DEF HandOver, TypeOK

(* The steps of a device keep every variable's type.                         *)
LEMMA DeviceTyped ==
    ASSUME TypeOK, NEW d \in Device, DeviceStep(d)
    PROVE  TypeOK'
<1> USE DEF storeVars, claimVars, deviceVars, countVars
<1>1. CASE AskCode(d)
  <2>1. device' \in [Device -> DeviceRecord]
    BY <1>1, AskingTyped DEF TypeOK, AskCode
  <2> QED
    BY <1>1, <2>1 DEF TypeOK, AskCode
<1>2. CASE StoreCode(d)
  <2>1. PICK c \in Code :
          /\ codeDev' = [codeDev EXCEPT ![c] = d]
          /\ request' = [request EXCEPT ![c] = [NoRequest EXCEPT !.present = TRUE]]
          /\ \/ device' = [device EXCEPT ![d].asking = FALSE, ![d].code = c] /\ UNCHANGED faults
             \/ device' = [device EXCEPT ![d].asking = FALSE] /\ Fault
    BY <1>2 DEF StoreCode
  <2>2. codeDev' \in [Code -> Device \cup {None}]
    BY <2>1 DEF TypeOK
  <2>3. [NoRequest EXCEPT !.present = TRUE] \in RequestRecord
    BY ConstantFacts DEF RequestRecord
  <2>4. request' \in [Code -> RequestRecord]
    BY <2>1, <2>3 DEF TypeOK
  <2>5. device' \in [Device -> DeviceRecord]
    BY <2>1, AnsweredTyped, AskingTyped DEF TypeOK
  <2>6. faults' \in 0 .. MaxFaults
    BY <2>1, FaultTyped DEF TypeOK
  <2> QED
    BY <1>2, <2>2, <2>4, <2>5, <2>6 DEF TypeOK, StoreCode
<1>3. CASE PollRead(d)
  <2>1. device[d].code \in Code /\ request[device[d].code].plaintextToken \in TokenOrNone
    BY <1>3 DEF PollRead, TypeOK, DeviceRecord, RequestRecord
  <2>2. poll' \in [Device -> PollRecord]
    BY <1>3, <2>1 DEF PollRead, TypeOK, PollRecord
  <2> QED
    BY <1>3, <2>2 DEF TypeOK, PollRead
<1>4. CASE PollDelete(d)
  <2>1. request' \in [Code -> RequestRecord]
    BY <1>4, ConstantFacts DEF PollDelete, TypeOK
  <2>2. poll' \in [Device -> PollRecord]
    BY <1>4 DEF PollDelete, TypeOK, PollRecord
  <2> QED
    BY <1>4, <2>1, <2>2 DEF TypeOK, PollDelete
<1>5. CASE PollReply(d)
  <2>1. poll' \in [Device -> PollRecord]
    BY <1>5, ConstantFacts DEF PollReply, TypeOK
  <2>2. poll[d].tok \in TokenOrNone
    BY DEF TypeOK, PollRecord
  <2>3. device' \in [Device -> DeviceRecord]
    BY <1>5, <2>2, HeldTyped DEF PollReply, TypeOK
  <2>4. faults' \in 0 .. MaxFaults
    BY <1>5, FaultTyped DEF PollReply, TypeOK
  <2> QED
    BY <1>5, <2>1, <2>3, <2>4 DEF TypeOK, PollReply
<1>6. CASE DeviceConnect(d)
  <2>1. row' \in [Device -> RowRecord]
    BY <1>6, StatusTyped DEF TypeOK, DeviceConnect
  <2> QED
    BY <1>6, <2>1 DEF TypeOK, DeviceConnect
<1>7. CASE DevicePurge(d)
  <2>1. device' \in [Device -> DeviceRecord]
    BY <1>7, HeldTyped, ConstantFacts DEF TypeOK, DevicePurge
  <2> QED
    BY <1>7, <2>1 DEF TypeOK, DevicePurge
<1> QED
  BY <1>1, <1>2, <1>3, <1>4, <1>5, <1>6, <1>7 DEF DeviceStep

(* The steps of a completion keep every variable's type.                     *)
LEMMA StartTyped ==
    ASSUME TypeOK, NEW p \in Completer, NEW c \in Code, NEW o \in Org, Start(p, c, o)
    PROVE  TypeOK'
<1>1. [NoCall EXCEPT !.pc = "read", !.code = c, !.org = o] \in CompRecord
  BY ConstantFacts DEF CompRecord
<1>2. comp' \in [Completer -> CompRecord]
  BY <1>1, CallTyped DEF TypeOK, Start
<1> QED
  BY <1>2 DEF TypeOK, Start, storeVars, claimVars, deviceVars, countVars

LEMMA WriteRowTyped ==
    ASSUME TypeOK, NEW p \in Completer, CallDrawn(p), WriteRow(p)
    PROVE  TypeOK'
<1>1. comp[p] \in CompRecord /\ comp[p].pc = "write"
  BY DEF TypeOK, WriteRow
<1>2. comp[p].code \in Code /\ comp[p].org \in Org /\ DevOf(p) \in Device
  BY <1>1 DEF CallDrawn, DevOf, TypeOK
<1>3. minted' \in TokenOrNone /\ minted' = minted + 1
  BY DevicePairingAssumption DEF TypeOK, WriteRow, TokenOrNone
<1>4. row[DevOf(p)].id \in Nat
  BY <1>2 DEF TypeOK, RowRecord
<1>5. WrittenId(p) \in Nat
  BY <1>1, <1>4 DEF WrittenId, NewRow, CompRecord
<1>6. [exists |-> TRUE, owner |-> comp[p].org, jwtToken |-> minted + 1,
       status |-> "pairing", id |-> WrittenId(p)] \in RowRecord
  BY <1>2, <1>3, <1>5 DEF RowRecord
<1>7. row' \in [Device -> RowRecord]
  BY <1>2, <1>6 DEF TypeOK, WriteRow
<1>8. written' \in [Code -> Nat]
  BY <1>2 DEF TypeOK, WriteRow
<1>9. comp' \in [Completer -> CompRecord] /\ faults' \in 0 .. MaxFaults
  <2>1. CASE comp' = [comp EXCEPT ![p].pc = "written", ![p].tok = minted + 1] /\ UNCHANGED faults
    <3>1. [comp[p] EXCEPT !.pc = "written", !.tok = minted + 1] \in CompRecord
      BY <1>1, <1>3 DEF CompRecord
    <3> QED
      BY <2>1, <3>1 DEF TypeOK
  <2>2. CASE Goto(p, "release") /\ Fault
    BY <2>2, GotoTyped, FaultTyped DEF TypeOK, Progress
  <2> QED
    BY <2>1, <2>2 DEF WriteRow
<1> QED
  BY <1>3, <1>7, <1>8, <1>9 DEF TypeOK, WriteRow, storeVars, claimVars, deviceVars

LEMMA CallStepTyped ==
    ASSUME TypeOK, NEW p \in Completer, CallDrawn(p), CallStep(p)
    PROVE  TypeOK'
<1> USE DEF storeVars, claimVars, deviceVars, countVars
<1>1. CASE Claim(p)
  <2>1. comp' \in [Completer -> CompRecord]
    BY <1>1, GotoTyped, CallTyped, ConstantFacts DEF TypeOK, Claim, Progress
  <2>2. claim' \in [Code -> Completer \cup {None, Orphan}]
    BY <1>1 DEF TypeOK, Claim
  <2> QED
    BY <1>1, <2>1, <2>2 DEF TypeOK, Claim
<1>2. CASE FindRow(p)
  <2>1. DevOf(p) \in Device
    BY <1>2 DEF CallDrawn, DevOf, TypeOK, FindRow
  <2>2. row[DevOf(p)].id \in Nat /\ comp[p] \in CompRecord
    BY <2>1 DEF TypeOK, RowRecord
  <2>3. [comp[p] EXCEPT !.pc = "write", !.existing = row[DevOf(p)].id] \in CompRecord
    BY <2>2 DEF CompRecord
  <2>4. CASE comp' = [comp EXCEPT ![p].pc = "write", ![p].existing = row[DevOf(p)].id]
    BY <1>2, <2>3, <2>4 DEF TypeOK, FindRow
  <2>5. CASE Goto(p, "release") \/ Goto(p, "new")
    <3>1. comp' \in [Completer -> CompRecord]
      BY <2>5, GotoTyped DEF TypeOK, Progress
    <3> QED
      BY <1>2, <3>1 DEF TypeOK, FindRow
  <2> QED
    BY <1>2, <2>4, <2>5 DEF FindRow
<1>3. CASE NewClaim(p)
  <2>1. comp' \in [Completer -> CompRecord]
    BY <1>3, GotoTyped DEF TypeOK, NewClaim, Progress
  <2>2. orgClaim' \in [Org -> Completer \cup {None, Orphan}]
    BY <1>3 DEF TypeOK, NewClaim
  <2> QED
    BY <1>3, <2>1, <2>2 DEF TypeOK, NewClaim
<1>4. CASE CheckQuota(p)
  <2>1. comp' \in [Completer -> CompRecord]
    BY <1>4, GotoTyped DEF TypeOK, CheckQuota, Progress
  <2> QED
    BY <1>4, <2>1 DEF TypeOK, CheckQuota
<1>5. CASE WriteRow(p)
  BY <1>5, WriteRowTyped
<1>6. CASE WriteThrows(p)
  <2>1. comp' \in [Completer -> CompRecord]
    BY <1>6, GotoTyped DEF TypeOK, WriteThrows, Progress
  <2> QED
    BY <1>6, <2>1 DEF TypeOK, WriteThrows
<1>7. CASE Finalize(p)
  <2>1. comp' \in [Completer -> CompRecord]
    BY <1>7, GotoTyped DEF TypeOK, Finalize, Progress
  <2>2. request' \in [Code -> RequestRecord]
    BY <1>7, HandOverTyped DEF Finalize
  <2> QED
    BY <1>7, <2>1, <2>2 DEF TypeOK, Finalize
<1>8. CASE Release(p)
  <2>1. EndCall(p, FALSE, FALSE) \/ EndCall(p, TRUE, TRUE)
    BY <1>8 DEF Release
  <2>2. faults' \in 0 .. MaxFaults
    BY <1>8, FaultTyped DEF TypeOK, Release
  <2> QED
    BY <1>8, <2>1, <2>2, EndCallTyped DEF TypeOK, Release
<1> QED
  BY <1>1, <1>2, <1>3, <1>4, <1>5, <1>6, <1>7, <1>8 DEF CallStep

LEMMA FailureTyped ==
    ASSUME TypeOK, NEW p \in Completer, FinalizeFails(p) \/ CallThrows(p)
    PROVE  TypeOK'
<1> USE DEF storeVars, claimVars, deviceVars, countVars
<1>1. CASE FinalizeFails(p)
  <2>1. EndCall(p, TRUE, FALSE) /\ faults' \in 0 .. MaxFaults
    BY <1>1, FaultTyped DEF TypeOK, FinalizeFails
  <2>2. request' \in [Code -> RequestRecord]
    BY <1>1, HandOverTyped DEF TypeOK, FinalizeFails
  <2> QED
    BY <1>1, <2>1, <2>2, EndCallTyped DEF TypeOK, FinalizeFails
<1>2. CASE CallThrows(p)
  <2>1. faults' \in 0 .. MaxFaults
    BY <1>2, FaultTyped DEF TypeOK, CallThrows
  <2>2. comp' \in [Completer -> CompRecord]
    BY <1>2, GotoTyped, CallTyped, ConstantFacts DEF TypeOK, CallThrows, Progress
  <2>3. claim' \in [Code -> Completer \cup {None, Orphan}]
    BY <1>2 DEF TypeOK, CallThrows
  <2>4. orgClaim' \in [Org -> Completer \cup {None, Orphan}]
    BY <1>2 DEF TypeOK, CallThrows
  <2> QED
    BY <1>2, <2>1, <2>2, <2>3, <2>4 DEF TypeOK, CallThrows
<1> QED
  BY <1>1, <1>2

(* So do time, the cron jobs, the operator and a crash.                      *)
LEMMA EnvironmentTyped ==
    ASSUME TypeOK,
           \/ \E d \in Device : Remove(d) \/ ResetStale(d)
           \/ \E c \in Code : Expire(c) \/ ClaimExpire(c)
           \/ \E o \in Org : OrgClaimExpire(o)
           \/ MiddlewareCrash
    PROVE  TypeOK'
<1> USE DEF storeVars, claimVars, deviceVars, countVars
<1>1. ASSUME NEW d \in Device, Remove(d) PROVE TypeOK'
  <2>1. [NoRow EXCEPT !.id = row[d].id] \in RowRecord
    BY ConstantFacts DEF TypeOK, RowRecord
  <2>2. row' \in [Device -> RowRecord] /\ ops' \in 0 .. MaxOps
    BY <1>1, <2>1, DevicePairingAssumption DEF TypeOK, Remove
  <2> QED
    BY <1>1, <2>2 DEF TypeOK, Remove
<1>2. ASSUME NEW d \in Device, ResetStale(d) PROVE TypeOK'
  <2>1. row' \in [Device -> RowRecord]
    BY <1>2, StatusTyped DEF TypeOK, ResetStale
  <2> QED
    BY <1>2, <2>1 DEF TypeOK, ResetStale
<1>3. ASSUME NEW c \in Code, Expire(c) PROVE TypeOK'
  <2>1. request' \in [Code -> RequestRecord] /\ expired' \subseteq Code
    BY <1>3, ConstantFacts DEF TypeOK, Expire
  <2> QED
    BY <1>3, <2>1 DEF TypeOK, Expire
<1>4. ASSUME NEW c \in Code, ClaimExpire(c) PROVE TypeOK'
  <2>1. claim' \in [Code -> Completer \cup {None, Orphan}]
    BY <1>4 DEF TypeOK, ClaimExpire
  <2>2. faults' \in 0 .. MaxFaults /\ overran' \in BOOLEAN
    BY <1>4, FaultTyped DEF TypeOK, ClaimExpire
  <2> QED
    BY <1>4, <2>1, <2>2 DEF TypeOK, ClaimExpire
<1>5. ASSUME NEW o \in Org, OrgClaimExpire(o) PROVE TypeOK'
  <2>1. orgClaim' \in [Org -> Completer \cup {None, Orphan}]
    BY <1>5 DEF TypeOK, OrgClaimExpire
  <2>2. faults' \in 0 .. MaxFaults /\ overran' \in BOOLEAN
    BY <1>5, FaultTyped DEF TypeOK, OrgClaimExpire
  <2> QED
    BY <1>5, <2>1, <2>2 DEF TypeOK, OrgClaimExpire
<1>6. ASSUME MiddlewareCrash PROVE TypeOK'
  <2>1. comp' \in [Completer -> CompRecord] /\ poll' \in [Device -> PollRecord]
    BY <1>6, ConstantFacts DEF MiddlewareCrash
  <2>2. /\ claim' \in [Code -> Completer \cup {None, Orphan}]
        /\ orgClaim' \in [Org -> Completer \cup {None, Orphan}]
    BY <1>6 DEF MiddlewareCrash
  <2>3. \A d \in Device : [device[d] EXCEPT !.asking = FALSE] \in DeviceRecord
    BY DEF TypeOK, DeviceRecord
  <2>4. device' \in [Device -> DeviceRecord] /\ faults' \in 0 .. MaxFaults
    BY <1>6, <2>3, FaultTyped DEF TypeOK, MiddlewareCrash
  <2> QED
    BY <1>6, <2>1, <2>2, <2>4 DEF TypeOK, MiddlewareCrash
<1> QED
  BY <1>1, <1>2, <1>3, <1>4, <1>5, <1>6

(***************************************************************************)
(* The relations of IInv.                                                  *)
(***************************************************************************)
Calls == \A p \in Completer : CallDrawn(p) /\ CallKnowsRow(p) /\ CallHoldsClaim(p)

(* A call is not disturbed by a step that changes neither it nor the row,    *)
(* the claim and the device of its code.                                     *)
LEMMA CallKept ==
    ASSUME NEW q \in Completer, CallDrawn(q), CallKnowsRow(q), CallHoldsClaim(q),
           comp'[q] = comp[q], row' = row, codeDev' = codeDev, claim' = claim,
           overran' = overran
    PROVE  CallDrawn(q)' /\ CallKnowsRow(q)' /\ CallHoldsClaim(q)'
  BY DEF CallDrawn, CallKnowsRow, CallHoldsClaim, DevOf

LEMMA CallsKept ==
    ASSUME Calls, UNCHANGED <<comp, row, codeDev, claim, overran>>
    PROVE  Calls'
  BY CallKept DEF Calls

LEMMA RequestKept ==
    ASSUME RequestDrawn, UNCHANGED <<request, codeDev>>
    PROVE  RequestDrawn'
  BY DEF RequestDrawn

(* A call that holds its claim goes on.                                      *)
LEMMA CallMoves ==
    ASSUME TypeOK, Calls, NEW p \in Completer, NEW pc \in Progress \ {"idle", "read"},
           comp[p].pc \notin {"idle", "read"}, Goto(p, pc),
           UNCHANGED <<row, codeDev, claim, overran>>
    PROVE  Calls'
<1> SUFFICES ASSUME NEW q \in Completer
             PROVE  CallDrawn(q)' /\ CallKnowsRow(q)' /\ CallHoldsClaim(q)'
  BY DEF Calls
<1>1. comp' = [comp EXCEPT ![p].pc = pc]
  BY DEF Goto
<1>2. CASE q # p
  <2>1. comp'[q] = comp[q]
    BY <1>1, <1>2 DEF TypeOK
  <2> QED
    BY <2>1, CallKept DEF Calls
<1>3. CASE q = p
  <2>1. comp \in [Completer -> CompRecord]
    BY DEF TypeOK
  <2>2. /\ comp'[p].pc = pc /\ comp'[p].code = comp[p].code
        /\ comp'[p].org = comp[p].org /\ comp'[p].existing = comp[p].existing
    BY <1>1, <2>1 DEF CompRecord
  <2>3. CallDrawn(p) /\ CallKnowsRow(p) /\ CallHoldsClaim(p)
    BY DEF Calls
  <2>4. CallDrawn(p)'
    BY <2>2, <2>3 DEF CallDrawn
  <2>5. CallKnowsRow(p)'
    BY <2>2, <2>3 DEF CallKnowsRow, DevOf
  <2>6. CallHoldsClaim(p)'
    BY <2>2, <2>3 DEF CallHoldsClaim
  <2> QED
    BY <1>3, <2>4, <2>5, <2>6
<1> QED
  BY <1>2, <1>3

(* A call ends, and no other call's claim is touched.                        *)
LEMMA CallEnds ==
    ASSUME TypeOK, Calls, NEW p \in Completer, NEW kc \in BOOLEAN, NEW ko \in BOOLEAN,
           EndCall(p, kc, ko), UNCHANGED <<row, codeDev, overran>>
    PROVE  Calls'
<1> SUFFICES ASSUME NEW q \in Completer
             PROVE  CallDrawn(q)' /\ CallKnowsRow(q)' /\ CallHoldsClaim(q)'
  BY DEF Calls
<1>1. CallDrawn(q) /\ CallKnowsRow(q) /\ CallHoldsClaim(q)
  BY DEF Calls
<1>2. CASE q = p
  <2>1. comp'[q].pc = "idle"
    BY <1>2 DEF EndCall, TypeOK, NoCall
  <2> QED
    BY <2>1 DEF CallDrawn, CallKnowsRow, CallHoldsClaim
<1>3. CASE q # p
  <2>1. comp'[q] = comp[q]
    BY <1>3 DEF EndCall, TypeOK
  <2>2. CallDrawn(q)' /\ CallKnowsRow(q)'
    BY <1>1, <2>1 DEF CallDrawn, CallKnowsRow, DevOf
  <2>3. CASE overran \/ comp[q].pc \in {"idle", "read"}
    BY <2>1, <2>2, <2>3 DEF CallHoldsClaim
  <2>4. CASE ~overran /\ comp[q].pc \notin {"idle", "read"}
    <3>1. claim[comp[q].code] = q /\ comp[q].code \in Code
      BY <1>1, <2>4 DEF CallDrawn, CallHoldsClaim
    <3>2. claim'[comp[q].code] = q
      BY <1>3, <3>1 DEF EndCall
    <3> QED
      BY <2>1, <2>2, <3>2 DEF CallHoldsClaim
  <2> QED
    BY <2>3, <2>4
<1> QED
  BY <1>2, <1>3

(* The device of a drawn code does not change.                               *)
LEMMA StoreCodeRelated ==
    ASSUME TypeOK, RequestDrawn, Calls, NEW d \in Device, StoreCode(d)
    PROVE  RequestDrawn' /\ Calls'
<1>1. PICK c \in Code :
        /\ codeDev[c] = None /\ codeDev' = [codeDev EXCEPT ![c] = d]
        /\ request' = [request EXCEPT ![c] = [NoRequest EXCEPT !.present = TRUE]]
  BY DEF StoreCode
<1>2. \A k \in Code : codeDev[k] # None => codeDev'[k] = codeDev[k]
  BY <1>1 DEF TypeOK
<1>3. RequestDrawn'
  <2>1. d # None
    BY DevicePairingAssumption
  <2>2. SUFFICES ASSUME NEW k \in Code, request'[k].present PROVE codeDev'[k] # None
    BY DEF RequestDrawn
  <2>3. CASE k = c
    BY <1>1, <2>1, <2>3 DEF TypeOK
  <2>4. CASE k # c
    <3>1. request'[k] = request[k]
      BY <1>1, <2>4 DEF TypeOK
    <3> QED
      BY <1>2, <2>2, <3>1 DEF RequestDrawn
  <2> QED
    BY <2>3, <2>4
<1>4. Calls'
  <2> SUFFICES ASSUME NEW q \in Completer
               PROVE  CallDrawn(q)' /\ CallKnowsRow(q)' /\ CallHoldsClaim(q)'
    BY DEF Calls
  <2>1. CallDrawn(q) /\ CallKnowsRow(q) /\ CallHoldsClaim(q)
    BY DEF Calls
  <2>2. UNCHANGED <<comp, row, claim, overran>>
    BY DEF StoreCode, claimVars
  <2>3. comp[q].pc # "idle" => DevOf(q)' = DevOf(q) /\ codeDev'[comp[q].code] # None
    BY <1>2, <2>1, <2>2 DEF CallDrawn, DevOf
  <2> QED
    BY <2>1, <2>2, <2>3 DEF CallDrawn, CallKnowsRow, CallHoldsClaim
<1> QED
  BY <1>3, <1>4

(* The other steps of a device: none touches a call, a claim or an owner.    *)
LEMMA StatusRelated ==
    ASSUME TypeOK, Calls, NEW d \in Device, NEW st \in {"offline", "online"},
           row' = [row EXCEPT ![d].status = st],
           UNCHANGED <<comp, codeDev, claim, overran>>
    PROVE  Calls'
<1>1. \A e \in Device : /\ row'[e].exists = row[e].exists /\ row'[e].id = row[e].id
                        /\ row'[e].owner = row[e].owner
  BY DEF TypeOK, RowRecord
<1> SUFFICES ASSUME NEW q \in Completer
             PROVE  CallDrawn(q)' /\ CallKnowsRow(q)' /\ CallHoldsClaim(q)'
  BY DEF Calls
<1>2. CallDrawn(q) /\ CallKnowsRow(q) /\ CallHoldsClaim(q)
  BY DEF Calls
<1>3. comp[q].pc # "idle" => DevOf(q) \in Device
  BY <1>2 DEF CallDrawn, DevOf, TypeOK
<1>4. DevOf(q)' = DevOf(q)
  BY DEF DevOf
<1> QED
  BY <1>1, <1>2, <1>3, <1>4 DEF CallDrawn, CallKnowsRow, CallHoldsClaim

LEMMA DeviceRelated ==
    ASSUME TypeOK, RequestDrawn, Calls, NEW d \in Device, DeviceStep(d)
    PROVE  RequestDrawn' /\ Calls'
<1> USE DEF storeVars, claimVars, deviceVars, countVars
<1>1. CASE AskCode(d) \/ PollRead(d) \/ PollReply(d) \/ DevicePurge(d)
  <2>1. UNCHANGED <<comp, row, codeDev, claim, overran, request>>
    BY <1>1 DEF AskCode, PollRead, PollReply, DevicePurge
  <2> QED
    BY <2>1, CallsKept, RequestKept
<1>2. CASE StoreCode(d)
  BY <1>2, StoreCodeRelated
<1>3. CASE PollDelete(d)
  <2>1. UNCHANGED <<comp, row, codeDev, claim, overran>>
    BY <1>3 DEF PollDelete
  <2>2. \A c \in Code : request'[c].present => request[c].present
    BY <1>3 DEF PollDelete, TypeOK, NoRequest
  <2> QED
    BY <2>1, <2>2, CallsKept DEF RequestDrawn
<1>4. CASE DeviceConnect(d)
  BY <1>4, StatusRelated, RequestKept DEF DeviceConnect
<1> QED
  BY <1>1, <1>2, <1>3, <1>4 DEF DeviceStep

(* The steps of a call: its start, its claim, what it found.                 *)
LEMMA StartRelated ==
    ASSUME TypeOK, RequestDrawn, Calls, NEW p \in Completer, NEW c \in Code, NEW o \in Org,
           Start(p, c, o)
    PROVE  Calls'
<1> SUFFICES ASSUME NEW q \in Completer
             PROVE  CallDrawn(q)' /\ CallKnowsRow(q)' /\ CallHoldsClaim(q)'
  BY DEF Calls
<1>1. UNCHANGED <<row, codeDev, claim, overran>>
  BY DEF Start, storeVars, claimVars, countVars
<1>2. CASE q # p
  <2>1. comp'[q] = comp[q]
    BY <1>2 DEF Start, TypeOK
  <2> QED
    BY <1>1, <2>1, CallKept DEF Calls
<1>3. CASE q = p
  <2>1. /\ comp'[q].pc = "read" /\ comp'[q].code = c /\ comp'[q].org = o
        /\ comp'[q].existing = NewRow
    BY <1>3 DEF Start, TypeOK, NoCall
  <2>2. codeDev'[c] # None
    BY <1>1 DEF Start, RequestDrawn
  <2> QED
    BY <2>1, <2>2 DEF CallDrawn, CallKnowsRow, CallHoldsClaim
<1> QED
  BY <1>2, <1>3

LEMMA ClaimRelated ==
    ASSUME TypeOK, Calls, NEW p \in Completer, Claim(p)
    PROVE  Calls'
<1> SUFFICES ASSUME NEW q \in Completer
             PROVE  CallDrawn(q)' /\ CallKnowsRow(q)' /\ CallHoldsClaim(q)'
  BY DEF Calls
<1>1. UNCHANGED <<row, codeDev, overran>> /\ comp[p].pc = "read"
  BY DEF Claim, storeVars, countVars
<1>2. /\ CallDrawn(p) /\ CallKnowsRow(p) /\ CallHoldsClaim(p)
      /\ CallDrawn(q) /\ CallKnowsRow(q) /\ CallHoldsClaim(q)
  BY DEF Calls
<1>3. comp \in [Completer -> CompRecord] /\ claim \in [Code -> Completer \cup {None, Orphan}]
  BY DEF TypeOK
<1>4. CASE claim[comp[p].code] = None /\ claim' = [claim EXCEPT ![comp[p].code] = p]
           /\ Goto(p, "claimed")
  <2>1. comp' = [comp EXCEPT ![p].pc = "claimed"]
    BY <1>4 DEF Goto
  <2>2. CASE q = p
    <3>1. /\ comp'[p].pc = "claimed" /\ comp'[p].code = comp[p].code
          /\ comp'[p].org = comp[p].org /\ comp'[p].existing = comp[p].existing
      BY <1>3, <2>1 DEF CompRecord
    <3>2. comp[p].code \in Code
      BY <1>1, <1>2 DEF CallDrawn
    <3>3. claim'[comp[p].code] = p
      BY <1>3, <1>4, <3>2
    <3> QED
      BY <1>1, <1>2, <2>2, <3>1, <3>3 DEF CallDrawn, CallKnowsRow, CallHoldsClaim, DevOf
  <2>3. CASE q # p
    <3>1. comp'[q] = comp[q]
      BY <1>3, <2>1, <2>3
    <3>2. q # None
      BY DevicePairingAssumption
    <3>3. CallDrawn(q)' /\ CallKnowsRow(q)'
      BY <1>1, <1>2, <3>1 DEF CallDrawn, CallKnowsRow, DevOf
    <3>4. CASE overran \/ comp[q].pc \in {"idle", "read"}
      BY <1>1, <3>1, <3>3, <3>4 DEF CallHoldsClaim
    <3>5. CASE ~overran /\ comp[q].pc \notin {"idle", "read"}
      <4>1. claim[comp[q].code] = q /\ comp[q].code \in Code
        BY <1>2, <3>5 DEF CallDrawn, CallHoldsClaim
      <4>2. claim'[comp[q].code] = q
        BY <1>3, <1>4, <3>2, <4>1
      <4> QED
        BY <3>1, <3>3, <4>2 DEF CallHoldsClaim
    <3> QED
      BY <3>4, <3>5
  <2> QED
    BY <2>2, <2>3
<1>5. CASE comp' = [comp EXCEPT ![p] = NoCall] /\ UNCHANGED claim
  <2>1. CASE q = p
    <3>1. comp'[p].pc = "idle"
      BY <1>3, <1>5 DEF NoCall
    <3> QED
      BY <2>1, <3>1 DEF CallDrawn, CallKnowsRow, CallHoldsClaim
  <2>2. CASE q # p
    <3>1. comp'[q] = comp[q]
      BY <1>3, <1>5, <2>2
    <3> QED
      BY <1>1, <1>2, <1>5, <3>1, CallKept
  <2> QED
    BY <2>1, <2>2
<1> QED
  BY <1>4, <1>5 DEF Claim

LEMMA FindRowRelated ==
    ASSUME TypeOK, Calls, NEW p \in Completer, FindRow(p)
    PROVE  Calls'
<1>1. UNCHANGED <<row, codeDev, claim, overran>> /\ comp[p].pc = "claimed"
  BY DEF FindRow, storeVars, claimVars, countVars
<1>2. CASE Goto(p, "release") \/ Goto(p, "new")
  BY <1>1, <1>2, CallMoves DEF Progress
<1>3. CASE /\ row[DevOf(p)].exists /\ row[DevOf(p)].owner = comp[p].org
           /\ comp' = [comp EXCEPT ![p].pc = "write", ![p].existing = row[DevOf(p)].id]
  <2> SUFFICES ASSUME NEW q \in Completer
               PROVE  CallDrawn(q)' /\ CallKnowsRow(q)' /\ CallHoldsClaim(q)'
    BY DEF Calls
  <2>1. CallDrawn(q) /\ CallKnowsRow(q) /\ CallHoldsClaim(q) /\ CallDrawn(p)
    BY DEF Calls
  <2>2. comp \in [Completer -> CompRecord]
    BY DEF TypeOK
  <2>3. CASE q # p
    <3>1. comp'[q] = comp[q]
      BY <1>3, <2>2, <2>3
    <3> QED
      BY <1>1, <2>1, <3>1, CallKept
  <2>4. CASE q = p
    <3>1. /\ comp'[p].pc = "write" /\ comp'[p].code = comp[p].code
          /\ comp'[p].org = comp[p].org /\ comp'[p].existing = row[DevOf(p)].id
      BY <1>3, <2>2 DEF CompRecord
    <3>2. DevOf(p)' = DevOf(p)
      BY <1>1, <3>1 DEF DevOf
    <3>3. row[DevOf(p)].id \in Nat
      BY <1>1, <2>1 DEF CallDrawn, DevOf, TypeOK, RowRecord
    <3>4. CallDrawn(p)'
      BY <1>1, <2>1, <2>4, <3>1 DEF CallDrawn
    <3>5. CallKnowsRow(p)'
      BY <1>1, <1>3, <3>1, <3>2, <3>3 DEF CallKnowsRow
    <3>6. CallHoldsClaim(p)'
      BY <1>1, <2>1, <2>4, <3>1 DEF CallHoldsClaim
    <3> QED
      BY <2>4, <3>4, <3>5, <3>6
  <2> QED
    BY <2>3, <2>4
<1> QED
  BY <1>2, <1>3 DEF FindRow

(* The write.  A row that is created has an id no call knows yet; a row that *)
(* is updated stays its owner's, because the call that found it was for its  *)
(* owner.                                                                    *)
LEMMA WriteRowRelated ==
    ASSUME TypeOK, Calls, NEW p \in Completer, WriteRow(p)
    PROVE  Calls'
<1> DEFINE d == DevOf(p)
<1>1. /\ comp[p].pc = "write" /\ WriteFinds(p)
      /\ row' = [row EXCEPT ![d] = [exists |-> TRUE, owner |-> comp[p].org,
                                    jwtToken |-> minted + 1, status |-> "pairing",
                                    id |-> WrittenId(p)]]
      /\ \/ comp' = [comp EXCEPT ![p].pc = "written", ![p].tok = minted + 1]
         \/ Goto(p, "release")
      /\ UNCHANGED <<codeDev, claim, overran>>
  BY DEF WriteRow, storeVars, claimVars
<1>2. CallDrawn(p) /\ CallKnowsRow(p) /\ CallHoldsClaim(p)
  BY DEF Calls
<1>3. comp \in [Completer -> CompRecord] /\ row \in [Device -> RowRecord]
  BY DEF TypeOK
<1>4. d \in Device /\ row[d].id \in Nat
  BY <1>1, <1>2, <1>3 DEF CallDrawn, DevOf, TypeOK, RowRecord
<1>5. /\ row'[d].exists /\ row'[d].owner = comp[p].org /\ row'[d].id = WrittenId(p)
      /\ \A e \in Device \ {d} : row'[e] = row[e]
  BY <1>1, <1>3, <1>4
<1>6. /\ comp'[p].pc \in {"written", "release"} /\ comp'[p].code = comp[p].code
      /\ comp'[p].org = comp[p].org /\ comp'[p].existing = comp[p].existing
      /\ \A q \in Completer \ {p} : comp'[q] = comp[q]
  BY <1>1, <1>3 DEF Goto, CompRecord
<1> SUFFICES ASSUME NEW q \in Completer
             PROVE  CallDrawn(q)' /\ CallKnowsRow(q)' /\ CallHoldsClaim(q)'
  BY DEF Calls
<1>7. CallDrawn(q) /\ CallKnowsRow(q) /\ CallHoldsClaim(q)
  BY DEF Calls
<1>8. /\ comp'[q].pc # "idle" => comp[q].pc # "idle"
      /\ comp'[q].pc \notin {"idle", "read"} => comp[q].pc \notin {"idle", "read"}
      /\ comp'[q].code = comp[q].code /\ comp'[q].org = comp[q].org
      /\ comp'[q].existing = comp[q].existing
  BY <1>1, <1>6
<1>9. CallDrawn(q)'
  BY <1>1, <1>7, <1>8 DEF CallDrawn
<1>10. CallHoldsClaim(q)'
  BY <1>1, <1>7, <1>8 DEF CallHoldsClaim
<1>11. CallKnowsRow(q)'
  <2> SUFFICES ASSUME comp'[q].pc # "idle", comp'[q].existing # NewRow
               PROVE  /\ comp[q].existing <= row'[DevOf(q)].id
                      /\ (row'[DevOf(q)].exists /\ row'[DevOf(q)].id = comp[q].existing)
                            => row'[DevOf(q)].owner = comp[q].org
    BY <1>1, <1>8 DEF CallKnowsRow, DevOf
  <2>1. /\ comp[q].existing <= row[DevOf(q)].id
        /\ (row[DevOf(q)].exists /\ row[DevOf(q)].id = comp[q].existing)
              => row[DevOf(q)].owner = comp[q].org
    BY <1>7, <1>8 DEF CallKnowsRow
  <2>2. DevOf(q) \in Device
    BY <1>7, <1>8 DEF CallDrawn, DevOf, TypeOK
  <2>3. comp[q].existing \in Nat
    BY <1>3, <1>8 DEF CompRecord, NewRow
  <2>4. CASE DevOf(q) # d
    BY <1>5, <2>1, <2>2, <2>4
  <2>5. CASE DevOf(q) = d /\ comp[p].existing = NewRow
    <3>1. row'[d].id = row[d].id + 1
      BY <1>5, <2>5 DEF WrittenId
    <3> QED
      BY <1>4, <2>1, <2>3, <2>5, <3>1
  <2>6. CASE DevOf(q) = d /\ comp[p].existing # NewRow
    <3>1. row[d].exists /\ row[d].id = comp[p].existing
      BY <1>1, <2>6 DEF WriteFinds
    <3>2. row[d].owner = comp[p].org
      BY <1>1, <1>2, <2>6, <3>1 DEF CallKnowsRow
    <3>3. row'[d].id = row[d].id /\ row'[d].owner = row[d].owner
      BY <1>5, <2>6, <3>1, <3>2 DEF WrittenId
    <3> QED
      BY <2>1, <2>6, <3>1, <3>3
  <2> QED
    BY <2>4, <2>5, <2>6
<1> QED
  BY <1>9, <1>10, <1>11

LEMMA HandOverRelated ==
    ASSUME TypeOK, RequestDrawn, Calls, NEW p \in Completer, comp[p].pc = "written",
           HandOver(p), UNCHANGED codeDev
    PROVE  RequestDrawn'
<1>1. codeDev[comp[p].code] # None
  BY DEF Calls, CallDrawn
<1>2. \A c \in Code \ {comp[p].code} : request'[c] = request[c]
  BY DEF HandOver, TypeOK
<1> QED
  BY <1>1, <1>2 DEF RequestDrawn

LEMMA CallStepRelated ==
    ASSUME TypeOK, RequestDrawn, Calls, NEW p \in Completer, CallStep(p)
    PROVE  RequestDrawn' /\ Calls'
<1> USE DEF storeVars, claimVars, deviceVars, countVars
<1>1. CASE Claim(p)
  BY <1>1, ClaimRelated, RequestKept DEF Claim
<1>2. CASE FindRow(p)
  BY <1>2, FindRowRelated, RequestKept DEF FindRow
<1>3. CASE NewClaim(p)
  BY <1>3, CallMoves, RequestKept DEF NewClaim, Progress
<1>4. CASE CheckQuota(p)
  BY <1>4, CallMoves, RequestKept DEF CheckQuota, Progress
<1>5. CASE WriteRow(p)
  BY <1>5, WriteRowRelated, RequestKept DEF WriteRow
<1>6. CASE WriteThrows(p)
  BY <1>6, CallMoves, RequestKept DEF WriteThrows, Progress
<1>7. CASE Finalize(p)
  BY <1>7, CallMoves, HandOverRelated DEF Finalize, Progress
<1>8. CASE Release(p)
  BY <1>8, CallEnds, RequestKept DEF Release
<1> QED
  BY <1>1, <1>2, <1>3, <1>4, <1>5, <1>6, <1>7, <1>8 DEF CallStep

LEMMA FailureRelated ==
    ASSUME TypeOK, RequestDrawn, Calls, NEW p \in Completer,
           FinalizeFails(p) \/ CallThrows(p)
    PROVE  RequestDrawn' /\ Calls'
<1> USE DEF storeVars, claimVars, deviceVars
<1>1. CASE FinalizeFails(p)
  BY <1>1, CallEnds, HandOverRelated, RequestKept DEF FinalizeFails
<1>2. CASE CallThrows(p)
  <2>1. RequestDrawn'
    BY <1>2, RequestKept DEF CallThrows
  <2>2. CASE \/ comp[p].pc = "new" /\ Goto(p, "release") /\ UNCHANGED claim
             \/ /\ comp[p].pc \in {"claimed", "new", "quota", "write"}
                /\ Goto(p, "release") /\ UNCHANGED claimVars
    BY <1>2, <2>1, <2>2, CallMoves DEF CallThrows, Progress
  <2>3. CASE /\ comp[p].pc = "read" /\ claim[comp[p].code] = None
             /\ claim' = [claim EXCEPT ![comp[p].code] = Orphan]
             /\ comp' = [comp EXCEPT ![p] = NoCall]
    <3> SUFFICES ASSUME NEW q \in Completer
                 PROVE  CallDrawn(q)' /\ CallKnowsRow(q)' /\ CallHoldsClaim(q)'
      BY <2>1 DEF Calls
    <3>1. UNCHANGED <<row, codeDev, overran>>
      BY <1>2 DEF CallThrows
    <3>2. CASE q = p
      <4>1. comp'[q].pc = "idle"
        BY <2>3, <3>2 DEF TypeOK, NoCall
      <4> QED
        BY <4>1 DEF CallDrawn, CallKnowsRow, CallHoldsClaim
    <3>3. CASE q # p
      <4>1. comp'[q] = comp[q]
        BY <2>3, <3>3 DEF TypeOK
      <4>2. CallDrawn(q) /\ CallKnowsRow(q) /\ CallHoldsClaim(q)
        BY DEF Calls
      <4>3. CallDrawn(q)' /\ CallKnowsRow(q)'
        BY <3>1, <4>1, <4>2 DEF CallDrawn, CallKnowsRow, DevOf
      <4>4. q # None
        BY DevicePairingAssumption
      <4>5. claim[comp[q].code] = q => claim'[comp[q].code] = q
        BY <2>3, <4>4 DEF TypeOK
      <4> QED
        BY <3>1, <4>1, <4>2, <4>3, <4>5 DEF CallHoldsClaim
    <3> QED
      BY <3>2, <3>3
  <2> QED
    BY <1>2, <2>2, <2>3 DEF CallThrows
<1> QED
  BY <1>1, <1>2

(* Time, the operator and a crash.                                           *)
LEMMA RemoveRelated ==
    ASSUME TypeOK, Calls, NEW d \in Device, Remove(d)
    PROVE  Calls'
<1>1. UNCHANGED <<comp, codeDev, claim, overran>>
  BY DEF Remove, storeVars, claimVars
<1>2. /\ ~row'[d].exists /\ row'[d].id = row[d].id
      /\ \A e \in Device \ {d} : row'[e] = row[e]
  BY DEF Remove, TypeOK, NoRow
<1> SUFFICES ASSUME NEW q \in Completer
             PROVE  CallDrawn(q)' /\ CallKnowsRow(q)' /\ CallHoldsClaim(q)'
  BY DEF Calls
<1>3. CallDrawn(q) /\ CallKnowsRow(q) /\ CallHoldsClaim(q)
  BY DEF Calls
<1>4. DevOf(q)' = DevOf(q) /\ (comp[q].pc # "idle" => DevOf(q) \in Device)
  BY <1>1, <1>3 DEF CallDrawn, DevOf, TypeOK
<1> QED
  BY <1>1, <1>2, <1>3, <1>4 DEF CallDrawn, CallKnowsRow, CallHoldsClaim

LEMMA ClaimExpireRelated ==
    ASSUME TypeOK, Calls, NEW c \in Code, ClaimExpire(c)
    PROVE  Calls'
<1>1. UNCHANGED <<comp, row, codeDev>> /\ claim' = [claim EXCEPT ![c] = None]
  BY DEF ClaimExpire, storeVars
<1>2. (claim[c] = Orphan /\ overran' = overran) \/ overran'
  BY DEF ClaimExpire
<1> SUFFICES ASSUME NEW q \in Completer
             PROVE  CallDrawn(q)' /\ CallKnowsRow(q)' /\ CallHoldsClaim(q)'
  BY DEF Calls
<1>3. CallDrawn(q) /\ CallKnowsRow(q) /\ CallHoldsClaim(q)
  BY DEF Calls
<1>4. CallDrawn(q)' /\ CallKnowsRow(q)'
  BY <1>1, <1>3 DEF CallDrawn, CallKnowsRow, DevOf
<1>5. q # Orphan
  BY DevicePairingAssumption
<1>6. (claim[c] = Orphan /\ claim[comp[q].code] = q) => claim'[comp[q].code] = q
  BY <1>1, <1>5 DEF TypeOK
<1> QED
  BY <1>1, <1>2, <1>3, <1>4, <1>6 DEF CallHoldsClaim

LEMMA EnvironmentRelated ==
    ASSUME TypeOK, RequestDrawn, Calls,
           \/ \E d \in Device : Remove(d) \/ ResetStale(d)
           \/ \E c \in Code : Expire(c) \/ ClaimExpire(c)
           \/ \E o \in Org : OrgClaimExpire(o)
           \/ MiddlewareCrash
    PROVE  RequestDrawn' /\ Calls'
<1> USE DEF storeVars, claimVars, deviceVars, countVars
<1>1. ASSUME NEW d \in Device, Remove(d) PROVE RequestDrawn' /\ Calls'
  BY <1>1, RemoveRelated, RequestKept DEF Remove
<1>2. ASSUME NEW d \in Device, ResetStale(d) PROVE RequestDrawn' /\ Calls'
  BY <1>2, StatusRelated, RequestKept DEF ResetStale
<1>3. ASSUME NEW c \in Code, Expire(c) PROVE RequestDrawn' /\ Calls'
  <2>1. UNCHANGED <<comp, row, codeDev, claim, overran>>
    BY <1>3 DEF Expire
  <2>2. \A k \in Code : request'[k].present => request[k].present
    BY <1>3 DEF Expire, TypeOK, NoRequest
  <2> QED
    BY <2>1, <2>2, CallsKept DEF RequestDrawn
<1>4. ASSUME NEW c \in Code, ClaimExpire(c) PROVE RequestDrawn' /\ Calls'
  BY <1>4, ClaimExpireRelated, RequestKept DEF ClaimExpire
<1>5. ASSUME NEW o \in Org, OrgClaimExpire(o) PROVE RequestDrawn' /\ Calls'
  <2>1. UNCHANGED <<comp, row, codeDev, claim, request>> /\ (overran => overran')
    BY <1>5 DEF OrgClaimExpire
  <2> QED
    BY <2>1, RequestKept DEF Calls, CallDrawn, CallKnowsRow, CallHoldsClaim, DevOf
<1>6. ASSUME MiddlewareCrash PROVE RequestDrawn' /\ Calls'
  <2>1. \A q \in Completer : comp'[q].pc = "idle"
    BY <1>6 DEF MiddlewareCrash, NoCall
  <2>2. Calls'
    BY <2>1 DEF Calls, CallDrawn, CallKnowsRow, CallHoldsClaim
  <2> QED
    BY <1>6, <2>2, RequestKept DEF MiddlewareCrash
<1> QED
  BY <1>1, <1>2, <1>3, <1>4, <1>5, <1>6

(***************************************************************************)
(* The quota.                                                              *)
(***************************************************************************)
Orgs == /\ \A p \in Completer : CallHoldsOrg(p) /\ RoomLeft(p)
        /\ QuotaHolds

LEMMA RowsFinite == \A o : IsFiniteSet(RowsOf(o)) /\ Cardinality(RowsOf(o)) \in Nat
<1> SUFFICES ASSUME NEW o PROVE IsFiniteSet(RowsOf(o)) /\ Cardinality(RowsOf(o)) \in Nat
  OBVIOUS
<1>1. RowsOf(o) \subseteq Device /\ IsFiniteSet(Device)
  BY DevicePairingAssumption DEF RowsOf
<1>2. IsFiniteSet(RowsOf(o))
  BY <1>1, FS_Subset
<1> QED
  BY <1>2, FS_CardinalityType

LEMMA RowsFiniteNext ==
    \A o : IsFiniteSet(RowsOf(o)') /\ Cardinality(RowsOf(o)') \in Nat
<1> SUFFICES ASSUME NEW o PROVE IsFiniteSet(RowsOf(o)') /\ Cardinality(RowsOf(o)') \in Nat
  OBVIOUS
<1>1. RowsOf(o)' \subseteq Device /\ IsFiniteSet(Device)
  BY DevicePairingAssumption DEF RowsOf
<1>2. IsFiniteSet(RowsOf(o)')
  BY <1>1, FS_Subset
<1> QED
  BY <1>2, FS_CardinalityType

LEMMA QuotaTyped == ASSUME NEW o \in Org PROVE Quota[o] \in Int
  BY DevicePairingAssumption

(* A step that creates no row leaves room where there was room.              *)
LEMMA RoomKept ==
    ASSUME NEW o \in Org, RowsOf(o)' \subseteq RowsOf(o)
    PROVE  /\ UnderQuota(o) => UnderQuota(o)'
           /\ (Quota[o] = -1 \/ Cardinality(RowsOf(o)) <= Quota[o])
                 => (Quota[o] = -1 \/ Cardinality(RowsOf(o)') <= Quota[o])
<1>1. Cardinality(RowsOf(o)') <= Cardinality(RowsOf(o))
  BY RowsFinite, FS_Subset
<1>2. Cardinality(RowsOf(o)') \in Nat /\ Cardinality(RowsOf(o)) \in Nat
  BY RowsFinite, RowsFiniteNext
<1> QED
  BY <1>1, <1>2, QuotaTyped DEF UnderQuota

(* What a step may do with a call, other than let it take the organization's *)
(* claim or check the quota.                                                 *)
Calm(q) ==
    \/ comp'[q].pc \in {"idle", "written", "release"}
    \/ comp'[q].pc \in {"read", "claimed", "new"} /\ comp'[q].existing = NewRow
    \/ comp'[q].pc = "write" /\ comp'[q].existing # NewRow
    \/ /\ comp'[q] = comp[q]
       /\ orgClaim[comp[q].org] = q => overran' \/ orgClaim'[comp[q].org] = q

LEMMA CalmKeeps ==
    ASSUME TypeOK, Calls, Orgs, overran => overran', NEW q \in Completer, Calm(q),
           \A o \in Org : RowsOf(o)' \subseteq RowsOf(o)
    PROVE  CallHoldsOrg(q)' /\ RoomLeft(q)'
<1>1. CASE comp'[q] # comp[q]
  BY <1>1 DEF Calm, CallHoldsOrg, RoomLeft, Creates
<1>2. CASE comp'[q] = comp[q]
  <2>1. CallHoldsOrg(q) /\ RoomLeft(q) /\ CallDrawn(q)
    BY DEF Orgs, Calls
  <2>2. CASE comp'[q].pc \in {"idle", "written", "release"}
    BY <2>2 DEF CallHoldsOrg, RoomLeft, Creates
  <2>3. CASE comp'[q].pc \in {"read", "claimed", "new"} /\ comp'[q].existing = NewRow
    BY <2>3 DEF CallHoldsOrg, RoomLeft, Creates
  <2>4. CASE comp'[q].pc = "write" /\ comp'[q].existing # NewRow
    BY <2>4 DEF CallHoldsOrg, RoomLeft, Creates
  <2>5. CASE /\ comp'[q].pc \notin {"idle", "written", "release"}
             /\ orgClaim[comp[q].org] = q => overran' \/ orgClaim'[comp[q].org] = q
    <3>1. comp[q].org \in Org
      BY <1>2, <2>1, <2>5 DEF CallDrawn
    <3>2. CallHoldsOrg(q)'
      BY <1>2, <2>1, <2>5 DEF CallHoldsOrg, Creates
    <3>3. RoomLeft(q)'
      BY <1>2, <2>1, <3>1, RoomKept DEF RoomLeft, Creates
    <3> QED
      BY <3>2, <3>3
  <2> QED
    BY <2>2, <2>3, <2>4, <2>5 DEF Calm
<1> QED
  BY <1>1, <1>2

LEMMA CalmStep ==
    ASSUME TypeOK, Calls, Orgs, overran => overran', \A q \in Completer : Calm(q),
           \A o \in Org : RowsOf(o)' \subseteq RowsOf(o)
    PROVE  Orgs'
<1>1. \A q \in Completer : CallHoldsOrg(q)' /\ RoomLeft(q)'
  BY CalmKeeps
<1>2. QuotaHolds'
  BY RoomKept DEF QuotaHolds, Orgs
<1> QED
  BY <1>1, <1>2 DEF Orgs

LEMMA RowsKept ==
    ASSUME TypeOK,
           \/ UNCHANGED row
           \/ \E d \in Device, st \in {"offline", "online"} : row' = [row EXCEPT ![d].status = st]
           \/ \E d \in Device : Remove(d)
    PROVE  \A o \in Org : RowsOf(o)' \subseteq RowsOf(o)
<1>1. CASE UNCHANGED row
  BY <1>1 DEF RowsOf
<1>2. ASSUME NEW d \in Device, NEW st \in {"offline", "online"},
             row' = [row EXCEPT ![d].status = st]
      PROVE  \A o \in Org : RowsOf(o)' \subseteq RowsOf(o)
  <2>1. \A e \in Device : row'[e].exists = row[e].exists /\ row'[e].owner = row[e].owner
    BY <1>2 DEF TypeOK, RowRecord
  <2> QED
    BY <2>1 DEF RowsOf
<1>3. ASSUME NEW d \in Device, Remove(d) PROVE \A o \in Org : RowsOf(o)' \subseteq RowsOf(o)
  <2>1. ~row'[d].exists /\ \A e \in Device \ {d} : row'[e] = row[e]
    BY <1>3 DEF Remove, TypeOK, NoRow
  <2> QED
    BY <2>1 DEF RowsOf
<1> QED
  BY <1>1, <1>2, <1>3

(* A call moves, its organization's claim as it was.                         *)
LEMMA MoveCalm ==
    ASSUME TypeOK, NEW p \in Completer, NEW pc \in Progress, Goto(p, pc), UNCHANGED orgClaim,
           \/ pc \in {"written", "release"}
           \/ pc \in {"claimed", "new"} /\ comp[p].existing = NewRow
    PROVE  \A q \in Completer : Calm(q)
<1>1. comp'[p].pc = pc /\ comp'[p].existing = comp[p].existing
  BY DEF Goto, TypeOK, CompRecord
<1>2. \A q \in Completer \ {p} : comp'[q] = comp[q]
  BY DEF Goto, TypeOK
<1> QED
  BY <1>1, <1>2 DEF Calm

LEMMA EndCalm ==
    ASSUME TypeOK, Calls, NEW p \in Completer, NEW kc \in BOOLEAN, NEW ko \in BOOLEAN,
           EndCall(p, kc, ko)
    PROVE  \A q \in Completer : Calm(q)
<1>1. comp'[p].pc = "idle" /\ \A q \in Completer \ {p} : comp'[q] = comp[q]
  BY DEF EndCall, TypeOK, NoCall
<1>2. \A q \in Completer \ {p} : comp[q].pc = "idle" \/ comp[q].org \in Org
  BY DEF Calls, CallDrawn
<1>3. ASSUME NEW q \in Completer \ {p}, comp[q].org \in Org, orgClaim[comp[q].org] = q
      PROVE  orgClaim'[comp[q].org] = q
  BY <1>3 DEF EndCall
<1> QED
  BY <1>1, <1>2, <1>3 DEF Calm

(* The claim of another organization's new display, or of nobody, is taken.  *)
LEMMA NewClaimQuota ==
    ASSUME TypeOK, Calls, Orgs, NEW p \in Completer, NewClaim(p)
    PROVE  Orgs'
<1>1. UNCHANGED <<row, overran>> /\ comp[p].pc = "new"
  BY DEF NewClaim, countVars
<1>2. \A o \in Org : RowsOf(o)' \subseteq RowsOf(o)
  BY <1>1, RowsKept
<1>3. CASE Goto(p, "release") /\ UNCHANGED orgClaim
  BY <1>1, <1>2, <1>3, MoveCalm, CalmStep DEF Progress
<1>4. CASE /\ orgClaim[comp[p].org] = None
           /\ orgClaim' = [orgClaim EXCEPT ![comp[p].org] = p] /\ Goto(p, "quota")
  <2>1. CallDrawn(p) /\ CallHoldsOrg(p)
    BY DEF Calls, Orgs
  <2>2. comp[p].org \in Org /\ comp[p].existing = NewRow
    BY <1>1, <2>1 DEF CallDrawn, CallHoldsOrg
  <2>3. comp'[p].pc = "quota" /\ comp'[p].existing = NewRow /\ comp'[p].org = comp[p].org
    BY <1>4, <2>2 DEF Goto, TypeOK, CompRecord
  <2>4. orgClaim'[comp[p].org] = p
    BY <1>4, <2>2 DEF TypeOK
  <2>5. CallHoldsOrg(p)' /\ RoomLeft(p)'
    BY <2>3, <2>4 DEF CallHoldsOrg, RoomLeft, Creates
  <2>6. ASSUME NEW q \in Completer, q # p PROVE Calm(q)
    <3>1. comp'[q] = comp[q]
      BY <1>4, <2>6 DEF Goto, TypeOK
    <3>2. q # None
      BY DevicePairingAssumption
    <3>3. orgClaim[comp[q].org] = q => orgClaim'[comp[q].org] = q
      BY <1>4, <2>2, <3>2 DEF TypeOK
    <3> QED
      BY <3>1, <3>3 DEF Calm
  <2>7. \A q \in Completer : CallHoldsOrg(q)' /\ RoomLeft(q)'
    BY <1>1, <1>2, <2>5, <2>6, CalmKeeps
  <2>8. QuotaHolds'
    BY <1>1, <1>2, RoomKept DEF QuotaHolds, Orgs
  <2> QED
    BY <2>7, <2>8 DEF Orgs
<1> QED
  BY <1>3, <1>4 DEF NewClaim

LEMMA CheckQuotaQuota ==
    ASSUME TypeOK, Calls, Orgs, NEW p \in Completer, CheckQuota(p)
    PROVE  Orgs'
<1>1. UNCHANGED <<row, overran, orgClaim>> /\ comp[p].pc = "quota"
  BY DEF CheckQuota, claimVars, countVars
<1>2. \A o \in Org : RowsOf(o)' \subseteq RowsOf(o)
  BY <1>1, RowsKept
<1>3. CASE ~UnderQuota(comp[p].org)
  BY <1>1, <1>2, <1>3, MoveCalm, CalmStep DEF CheckQuota, Progress
<1>4. CASE UnderQuota(comp[p].org)
  <2>1. CallDrawn(p) /\ CallHoldsOrg(p)
    BY DEF Calls, Orgs
  <2>2. comp[p].org \in Org
    BY <1>1, <2>1 DEF CallDrawn
  <2>3. /\ comp'[p].pc = "write" /\ comp'[p].org = comp[p].org
        /\ comp'[p].existing = comp[p].existing
        /\ \A q \in Completer \ {p} : comp'[q] = comp[q]
    BY <1>4 DEF CheckQuota, Goto, TypeOK, CompRecord
  <2>4. UnderQuota(comp[p].org)'
    BY <1>1, <1>2, <1>4, <2>2, <2>3, RoomKept DEF UnderQuota, RowsOf
  <2>5. CallHoldsOrg(p)' /\ RoomLeft(p)'
    BY <1>1, <2>1, <2>3, <2>4 DEF CallHoldsOrg, RoomLeft, Creates
  <2>6. \A q \in Completer \ {p} : Calm(q)
    BY <1>1, <2>3 DEF Calm
  <2>7. \A q \in Completer : CallHoldsOrg(q)' /\ RoomLeft(q)'
    BY <1>1, <1>2, <2>5, <2>6, CalmKeeps
  <2>8. QuotaHolds'
    BY <1>1, <1>2, RoomKept DEF QuotaHolds, Orgs
  <2> QED
    BY <2>7, <2>8 DEF Orgs
<1> QED
  BY <1>3, <1>4

(* A row is created: in its organization, where there was room, and where no *)
(* other call is about to create one.  An update creates none.               *)
LEMMA WriteRowQuota ==
    ASSUME TypeOK, Calls, Orgs, NEW p \in Completer, WriteRow(p)
    PROVE  Orgs'
<1> DEFINE d == DevOf(p)
<1>1. /\ comp[p].pc = "write" /\ WriteFinds(p) /\ UNCHANGED <<overran, orgClaim>>
      /\ row' = [row EXCEPT ![d] = [exists |-> TRUE, owner |-> comp[p].org,
                                    jwtToken |-> minted + 1, status |-> "pairing",
                                    id |-> WrittenId(p)]]
      /\ \/ comp' = [comp EXCEPT ![p].pc = "written", ![p].tok = minted + 1]
         \/ Goto(p, "release")
  BY DEF WriteRow, claimVars
<1>2. CallDrawn(p) /\ CallKnowsRow(p) /\ CallHoldsOrg(p) /\ RoomLeft(p)
  BY DEF Calls, Orgs
<1>3. d \in Device /\ comp[p].org \in Org
  BY <1>1, <1>2 DEF CallDrawn, DevOf, TypeOK
<1>4. /\ row'[d].exists /\ row'[d].owner = comp[p].org
      /\ \A e \in Device \ {d} : row'[e] = row[e]
  BY <1>1, <1>3 DEF TypeOK
<1>5. /\ comp'[p].pc \in {"written", "release"}
      /\ \A q \in Completer \ {p} : comp'[q] = comp[q]
  BY <1>1 DEF Goto, TypeOK, CompRecord
<1> HIDE DEF d
<1>6. \A q \in Completer : Calm(q)
  BY <1>1, <1>5 DEF Calm
<1>7. CASE comp[p].existing # NewRow
  <2>1. row[d].exists /\ row[d].owner = comp[p].org
    BY <1>1, <1>2, <1>7 DEF WriteFinds, CallKnowsRow, d
  <2>2. \A o \in Org : RowsOf(o)' \subseteq RowsOf(o)
    BY <1>4, <2>1 DEF RowsOf
  <2> QED
    BY <1>1, <1>6, <2>2, CalmStep
<1>8. CASE comp[p].existing = NewRow
  <2> PICK o \in Org : comp[p].org = o
    BY <1>3
  <2>1. ~row[d].exists /\ Creates(p)
    BY <1>1, <1>8 DEF WriteFinds, Creates, d
  <2>2. /\ RowsOf(o)' = RowsOf(o) \cup {d} /\ d \notin RowsOf(o)
        /\ \A k \in Org \ {o} : RowsOf(k)' \subseteq RowsOf(k)
    BY <1>3, <1>4, <2>1 DEF RowsOf
  <2>3. Cardinality(RowsOf(o)') = Cardinality(RowsOf(o)) + 1
    BY <2>2, RowsFinite, FS_AddElement
  <2>4. overran \/ UnderQuota(o)
    BY <1>2, <2>1 DEF RoomLeft
  <2>5. QuotaHolds'
    <3> SUFFICES ASSUME NEW k \in Org, ~overran
                 PROVE  Quota[k] = -1 \/ Cardinality(RowsOf(k)') <= Quota[k]
      BY <1>1 DEF QuotaHolds
    <3>1. CASE k = o
      BY <2>3, <2>4, <3>1, RowsFinite, QuotaTyped DEF UnderQuota
    <3>2. CASE k # o
      BY <2>2, <3>2, RoomKept DEF Orgs, QuotaHolds
    <3> QED
      BY <3>1, <3>2
  <2>6. ASSUME NEW q \in Completer PROVE CallHoldsOrg(q)' /\ RoomLeft(q)'
    <3>1. CASE q = p
      BY <1>5, <3>1 DEF CallHoldsOrg, RoomLeft, Creates
    <3>2. CASE q # p
      <4>1. comp'[q] = comp[q] /\ CallHoldsOrg(q) /\ RoomLeft(q) /\ CallDrawn(q)
        BY <1>5, <3>2 DEF Orgs, Calls
      <4>2. CallHoldsOrg(q)'
        BY <1>1, <4>1 DEF CallHoldsOrg, Creates
      <4>3. ASSUME Creates(q), ~overran PROVE UnderQuota(comp[q].org)'
        <5> PICK k \in Org : comp[q].org = k
          BY <4>1, <4>3 DEF CallDrawn, Creates
        <5>1. k # o
          BY <1>2, <2>1, <3>2, <4>1, <4>3 DEF CallHoldsOrg, Creates
        <5>2. UnderQuota(k)
          BY <4>1, <4>3 DEF RoomLeft
        <5>3. UnderQuota(k)'
          BY <2>2, <5>1, <5>2, RoomKept
        <5> QED
          BY <4>1, <5>3
      <4>4. RoomLeft(q)'
        BY <1>1, <4>1, <4>3 DEF RoomLeft, Creates
      <4> QED
        BY <4>2, <4>4
    <3> QED
      BY <3>1, <3>2
  <2> QED
    BY <2>5, <2>6 DEF Orgs
<1> QED
  BY <1>7, <1>8

LEMMA CallQuota ==
    ASSUME TypeOK, Calls, Orgs, NEW p \in Completer,
           CallStep(p) \/ FinalizeFails(p) \/ CallThrows(p)
    PROVE  Orgs'
<1> USE DEF storeVars, claimVars, deviceVars, countVars, Progress
<1>1. /\ UNCHANGED row => \A o \in Org : RowsOf(o)' \subseteq RowsOf(o)
      /\ CallHoldsOrg(p)
  BY RowsKept DEF Orgs
<1>2. CASE Claim(p)
  <2>1. \A q \in Completer : Calm(q)
    <3>1. CASE Goto(p, "claimed")
      BY <1>1, <1>2, <3>1, MoveCalm DEF Claim, CallHoldsOrg
    <3>2. CASE comp' = [comp EXCEPT ![p] = NoCall]
      BY <1>2, <3>2 DEF Claim, Calm, TypeOK, NoCall
    <3> QED
      BY <1>2, <3>1, <3>2 DEF Claim
  <2> QED
    BY <1>1, <1>2, <2>1, CalmStep DEF Claim
<1>3. CASE FindRow(p)
  <2>1. comp[p].pc = "claimed" /\ UNCHANGED <<row, orgClaim, overran>>
    BY <1>3 DEF FindRow
  <2>2. \A q \in Completer : Calm(q)
    <3>1. CASE Goto(p, "release") \/ Goto(p, "new")
      BY <1>1, <2>1, <3>1, MoveCalm DEF CallHoldsOrg
    <3>2. CASE comp' = [comp EXCEPT ![p].pc = "write", ![p].existing = row[DevOf(p)].id]
      <4>1. row[DevOf(p)].id \in Nat
        BY <2>1 DEF Calls, CallDrawn, DevOf, TypeOK, RowRecord
      <4>2. /\ comp'[p].pc = "write" /\ comp'[p].existing = row[DevOf(p)].id
            /\ \A q \in Completer \ {p} : comp'[q] = comp[q]
        BY <3>2 DEF TypeOK, CompRecord
      <4> QED
        BY <2>1, <4>1, <4>2, ConstantFacts DEF Calm
    <3> QED
      BY <1>3, <3>1, <3>2 DEF FindRow
  <2> QED
    BY <1>1, <2>1, <2>2, CalmStep
<1>4. CASE NewClaim(p)
  BY <1>4, NewClaimQuota
<1>5. CASE CheckQuota(p)
  BY <1>5, CheckQuotaQuota
<1>6. CASE WriteRow(p)
  BY <1>6, WriteRowQuota
<1>7. CASE WriteThrows(p) \/ Finalize(p)
  <2>1. Goto(p, "release") /\ UNCHANGED <<row, orgClaim, overran>>
    BY <1>7 DEF WriteThrows, Finalize
  <2>2. \A q \in Completer : Calm(q)
    BY <2>1, MoveCalm
  <2> QED
    BY <1>1, <2>1, <2>2, CalmStep
<1>8. CASE Release(p) \/ FinalizeFails(p)
  <2>1. UNCHANGED <<row, overran>> /\ \E kc, ko \in BOOLEAN : EndCall(p, kc, ko)
    BY <1>8 DEF Release, FinalizeFails
  <2>2. \A q \in Completer : Calm(q)
    BY <2>1, EndCalm
  <2> QED
    BY <1>1, <2>1, <2>2, CalmStep
<1>9. CASE CallThrows(p)
  <2>1. \A q \in Completer : Calm(q)
    <3>1. CASE comp' = [comp EXCEPT ![p] = NoCall] /\ UNCHANGED orgClaim
      BY <3>1 DEF Calm, TypeOK, NoCall
    <3>2. CASE /\ orgClaim[comp[p].org] = None
               /\ orgClaim' = [orgClaim EXCEPT ![comp[p].org] = Orphan]
               /\ Goto(p, "release")
      <4>1. \A q \in Completer : q # None
        BY DevicePairingAssumption
      <4>2. \A q \in Completer : orgClaim[comp[q].org] = q => orgClaim'[comp[q].org] = q
        BY <3>2, <4>1 DEF TypeOK
      <4>3. comp'[p].pc = "release" /\ \A q \in Completer \ {p} : comp'[q] = comp[q]
        BY <3>2 DEF Goto, TypeOK
      <4> QED
        BY <4>2, <4>3 DEF Calm
    <3>3. CASE Goto(p, "release") /\ UNCHANGED claimVars
      BY <3>3, MoveCalm
    <3> QED
      BY <1>9, <3>1, <3>2, <3>3 DEF CallThrows
  <2> QED
    BY <1>1, <1>9, <2>1, CalmStep DEF CallThrows
<1> QED
  BY <1>2, <1>3, <1>4, <1>5, <1>6, <1>7, <1>8, <1>9 DEF CallStep

LEMMA QuotaNext ==
    ASSUME TypeOK, Calls, Orgs, [Next]_vars
    PROVE  Orgs'
<1> USE DEF storeVars, claimVars, deviceVars, countVars
<1>1. ASSUME UNCHANGED <<comp, orgClaim, overran>>,
             \/ UNCHANGED row
             \/ \E d \in Device, st \in {"offline", "online"} :
                    row' = [row EXCEPT ![d].status = st]
             \/ \E d \in Device : Remove(d)
      PROVE  Orgs'
  <2>1. \A q \in Completer : Calm(q)
    BY <1>1 DEF Calm
  <2> QED
    BY <1>1, <2>1, RowsKept, CalmStep
<1>2. ASSUME NEW d \in Device, DeviceStep(d) \/ Remove(d) \/ ResetStale(d) PROVE Orgs'
  BY <1>1, <1>2 DEF DeviceStep, AskCode, StoreCode, PollRead, PollDelete, PollReply,
                    DeviceConnect, DevicePurge, Remove, ResetStale
<1>3. ASSUME NEW p \in Completer, CallStep(p) \/ FinalizeFails(p) \/ CallThrows(p) PROVE Orgs'
  BY <1>3, CallQuota
<1>4. ASSUME NEW p \in Completer, NEW c \in Code, NEW o \in Org, Start(p, c, o) PROVE Orgs'
  <2>1. /\ comp'[p].pc = "read" /\ comp'[p].existing = NewRow
        /\ \A q \in Completer \ {p} : comp'[q] = comp[q]
    BY <1>4 DEF Start, TypeOK, NoCall
  <2>2. \A q \in Completer : Calm(q)
    BY <1>4, <2>1 DEF Start, Calm
  <2> QED
    BY <1>4, <2>2, RowsKept, CalmStep DEF Start
<1>5. CASE \E c \in Code : Expire(c) \/ ClaimExpire(c)
  <2>1. \A q \in Completer : Calm(q)
    BY <1>5 DEF Calm, Expire, ClaimExpire
  <2>2. UNCHANGED row /\ (overran => overran')
    BY <1>5 DEF Expire, ClaimExpire
  <2> QED
    BY <2>1, <2>2, RowsKept, CalmStep
<1>6. ASSUME NEW o \in Org, OrgClaimExpire(o) PROVE Orgs'
  <2>1. UNCHANGED <<row, comp>> /\ (overran => overran')
    BY <1>6 DEF OrgClaimExpire
  <2>2. ASSUME NEW q \in Completer PROVE Calm(q)
    <3>1. q # Orphan
      BY DevicePairingAssumption
    <3>2. orgClaim[comp[q].org] = q => overran' \/ orgClaim'[comp[q].org] = q
      BY <1>6, <3>1 DEF OrgClaimExpire, TypeOK
    <3> QED
      BY <2>1, <3>2 DEF Calm
  <2> QED
    BY <2>1, <2>2, RowsKept, CalmStep
<1>7. CASE MiddlewareCrash
  <2>1. \A q \in Completer : Calm(q)
    BY <1>7 DEF MiddlewareCrash, Calm, NoCall
  <2> QED
    BY <1>7, <2>1, RowsKept, CalmStep DEF MiddlewareCrash
<1>8. CASE UNCHANGED vars
  BY <1>1, <1>8 DEF vars
<1> QED
  BY <1>2, <1>3, <1>4, <1>5, <1>6, <1>7, <1>8 DEF Next

(***************************************************************************)
(* The JWT.                                                                *)
(***************************************************************************)
Jwts == \A d \in Device : PollsOwn(d) /\ OneJwt(d)

(* What a set of JWTs has to contain to contain those in play.               *)
LEMMA InPlayIn ==
    ASSUME NEW d \in Device, NEW S
    PROVE  InPlay(d) \subseteq S <=>
             /\ device[d].token \in S /\ poll[d].tok \in S
             /\ \A c \in Drawn(d) : request[c].plaintextToken \in S
             /\ \A p \in Completer : comp[p].pc = "written" /\ comp[p].code \in Drawn(d)
                                        => comp[p].tok \in S
  BY DEF InPlay

LEMMA InPlayInNext ==
    ASSUME NEW d \in Device, NEW S
    PROVE  InPlay(d)' \subseteq S <=>
             /\ device'[d].token \in S /\ poll'[d].tok \in S
             /\ \A c \in Drawn(d)' : request'[c].plaintextToken \in S
             /\ \A p \in Completer : comp'[p].pc = "written" /\ comp'[p].code \in Drawn(d)'
                                        => comp'[p].tok \in S
  BY DEF InPlay

LEMMA InPlayHas ==
    ASSUME NEW d \in Device, NEW x
    PROVE  x \in InPlay(d) <=>
             \/ x = device[d].token \/ x = poll[d].tok
             \/ \E c \in Drawn(d) : x = request[c].plaintextToken
             \/ \E p \in Completer : /\ comp[p].pc = "written" /\ comp[p].code \in Drawn(d)
                                      /\ x = comp[p].tok
  BY DEF InPlay

LEMMA InPlayHasNext ==
    ASSUME NEW d \in Device, NEW x
    PROVE  x \in InPlay(d)' <=>
             \/ x = device'[d].token \/ x = poll'[d].tok
             \/ \E c \in Drawn(d)' : x = request'[c].plaintextToken
             \/ \E p \in Completer : /\ comp'[p].pc = "written" /\ comp'[p].code \in Drawn(d)'
                                      /\ x = comp'[p].tok
  BY DEF InPlay

(* A step that puts no new JWT into play.                                    *)
LEMMA InPlayShrinks ==
    ASSUME NEW d \in Device,
           device'[d].token \in InPlay(d) \cup {NoToken},
           poll'[d].tok \in InPlay(d) \cup {NoToken},
           \A c \in Drawn(d)' : request'[c].plaintextToken \in InPlay(d) \cup {NoToken},
           \A p \in Completer : comp'[p].pc = "written" /\ comp'[p].code \in Drawn(d)'
                                      => comp'[p].tok \in InPlay(d) \cup {NoToken}
    PROVE  InPlay(d)' \subseteq InPlay(d) \cup {NoToken}
<1> DEFINE S == InPlay(d) \cup {NoToken}
<1>1. /\ device'[d].token \in S /\ poll'[d].tok \in S
      /\ \A c \in Drawn(d)' : request'[c].plaintextToken \in S
      /\ \A p \in Completer : comp'[p].pc = "written" /\ comp'[p].code \in Drawn(d)'
                                 => comp'[p].tok \in S
  OBVIOUS
<1> HIDE DEF S
<1>2. InPlay(d)' \subseteq S
  BY <1>1, InPlayInNext
<1> QED
  BY <1>2 DEF S

(* A step in which nothing is drawn for d and its row is not written.        *)
Undisturbed(d) ==
    /\ Drawn(d)' = Drawn(d) /\ device'[d].code = device[d].code
    /\ row'[d].exists => row[d].exists
    /\ row'[d].jwtToken \in {NoToken, row[d].jwtToken}
    /\ \A c \in Drawn(d) : written'[c] = written[c]
    /\ expired \subseteq expired' /\ (faults' = 0 => faults = 0)

(* It moves the JWTs that are in play, and the row's stays in play.          *)
LEMMA JwtMoves ==
    ASSUME NEW d \in Device, OneJwt(d), Undisturbed(d),
           InPlay(d)' \subseteq InPlay(d) \cup {NoToken},
           (/\ Smooth(d) /\ row'[d].exists /\ row[d].exists /\ row[d].jwtToken # NoToken
            /\ row'[d].jwtToken = row[d].jwtToken
            /\ InPlay(d) \ {NoToken} = {row[d].jwtToken}) => row[d].jwtToken \in InPlay(d)'
    PROVE  OneJwt(d)'
<1> SUFFICES ASSUME Smooth(d)'
             PROVE  /\ Drawn(d)' \subseteq {device'[d].code}
                    /\ (\A c \in Drawn(d)' : written'[c] = 0) =>
                            row'[d].jwtToken = NoToken /\ InPlay(d)' \subseteq {NoToken}
                    /\ row'[d].exists /\ row'[d].jwtToken # NoToken =>
                            InPlay(d)' \ {NoToken} = {row'[d].jwtToken}
  BY DEF OneJwt
<1>1. Smooth(d)
  BY DEF Smooth, Undisturbed
<1>2. Drawn(d)' \subseteq {device'[d].code}
  BY <1>1 DEF OneJwt, Undisturbed
<1>3. ASSUME \A c \in Drawn(d)' : written'[c] = 0
      PROVE  row'[d].jwtToken = NoToken /\ InPlay(d)' \subseteq {NoToken}
  BY <1>1, <1>3 DEF OneJwt, Undisturbed
<1>4. ASSUME row'[d].exists, row'[d].jwtToken # NoToken
      PROVE  InPlay(d)' \ {NoToken} = {row'[d].jwtToken}
  <2>1. row[d].exists /\ row'[d].jwtToken = row[d].jwtToken
    BY <1>4 DEF Undisturbed
  <2>2. InPlay(d) \ {NoToken} = {row[d].jwtToken}
    BY <1>1, <1>4, <2>1 DEF OneJwt
  <2> QED
    BY <1>1, <1>4, <2>1, <2>2
<1> QED
  BY <1>2, <1>3, <1>4

LEMMA FaultEnds ==
    ASSUME NEW d \in Device, TypeOK, Fault PROVE OneJwt(d)'
<1>1. faults' # 0
  BY DEF Fault, TypeOK
<1> QED
  BY <1>1 DEF OneJwt, Smooth

(* A step that touches nothing that carries a JWT to d.                      *)
LEMMA JwtFrame ==
    ASSUME NEW d \in Device, PollsOwn(d), OneJwt(d), Undisturbed(d),
           device'[d].token = device[d].token, poll'[d] = poll[d],
           \A c \in Drawn(d) : request'[c] = request[c],
           \A q \in Completer : \/ comp'[q] = comp[q]
                                \/ comp[q].pc # "written" /\ comp'[q].pc # "written"
                                \/ comp[q].code \notin Drawn(d) /\ comp'[q].code \notin Drawn(d)
    PROVE  PollsOwn(d)' /\ OneJwt(d)'
<1>1. PollsOwn(d)'
  BY DEF PollsOwn, Undisturbed
<1>2. InPlay(d)' \subseteq InPlay(d) \cup {NoToken}
  <2>1. /\ device[d].token \in InPlay(d) /\ poll[d].tok \in InPlay(d)
        /\ \A c \in Drawn(d) : request[c].plaintextToken \in InPlay(d)
        /\ \A p \in Completer : comp[p].pc = "written" /\ comp[p].code \in Drawn(d)
                                   => comp[p].tok \in InPlay(d)
    BY InPlayIn
  <2> QED
    BY <2>1, InPlayShrinks DEF Undisturbed
<1>3. ASSUME row[d].jwtToken \in InPlay(d) PROVE row[d].jwtToken \in InPlay(d)'
  <2>1. \A p \in Completer :
           comp[p].pc = "written" /\ comp[p].code \in Drawn(d) => comp'[p] = comp[p]
    OBVIOUS
  <2> QED
    BY <1>3, <2>1, InPlayHas, InPlayHasNext DEF Undisturbed
<1>4. InPlay(d) \ {NoToken} = {row[d].jwtToken} => row[d].jwtToken \in InPlay(d)
  OBVIOUS
<1> QED
  BY <1>1, <1>2, <1>3, <1>4, JwtMoves

(* The first code of d: nothing is under way yet.                            *)
LEMMA StoreCodeJwt ==
    ASSUME TypeOK, Calls, Jwts, NEW e \in Device, StoreCode(e)
    PROVE  Jwts'
<1> SUFFICES ASSUME NEW d \in Device PROVE PollsOwn(d)' /\ OneJwt(d)'
  BY DEF Jwts
<1>1. PICK c \in Code :
        /\ codeDev[c] = None /\ codeDev' = [codeDev EXCEPT ![c] = e]
        /\ request' = [request EXCEPT ![c] = [NoRequest EXCEPT !.present = TRUE]]
        /\ \/ device' = [device EXCEPT ![e].asking = FALSE, ![e].code = c] /\ UNCHANGED faults
           \/ device' = [device EXCEPT ![e].asking = FALSE] /\ Fault
  BY DEF StoreCode
<1>2. UNCHANGED <<row, expired, poll, comp, written>> /\ PollsOwn(d) /\ OneJwt(d)
  BY DEF StoreCode, Jwts
<1>3. /\ \A k \in Code \ {c} : codeDev'[k] = codeDev[k] /\ request'[k] = request[k]
      /\ codeDev'[c] = e /\ request'[c].plaintextToken = NoToken
      /\ \A k \in Device \ {e} : device'[k] = device[k]
      /\ device'[e].token = device[e].token
      /\ \/ device'[e].code = c /\ faults' = faults
         \/ device'[e].code = device[e].code /\ Fault
  <2>1. codeDev'[c] = e /\ \A k \in Code \ {c} : codeDev'[k] = codeDev[k] /\ request'[k] = request[k]
    BY <1>1 DEF TypeOK
  <2>2. request'[c].plaintextToken = NoToken
    BY <1>1 DEF TypeOK, NoRequest
  <2>3. /\ \A k \in Device \ {e} : device'[k] = device[k]
        /\ device'[e].token = device[e].token
        /\ \/ device'[e].code = c /\ faults' = faults
           \/ device'[e].code = device[e].code /\ Fault
    BY <1>1 DEF TypeOK, DeviceRecord
  <2> QED
    BY <2>1, <2>2, <2>3
<1>4. d # None /\ faults \in Nat
  BY DevicePairingAssumption DEF TypeOK
<1>5. CASE d # e
  <2>1. Drawn(d)' = Drawn(d) /\ c \notin Drawn(d)
    BY <1>1, <1>3, <1>4, <1>5 DEF Drawn
  <2>2. Undisturbed(d)
    BY <1>2, <1>3, <1>4, <1>5, <2>1 DEF Undisturbed, Fault
  <2>3. \A k \in Drawn(d) : request'[k] = request[k]
    BY <1>3, <2>1 DEF Drawn
  <2> QED
    BY <1>2, <1>3, <1>5, <2>2, <2>3, JwtFrame
<1>6. CASE d = e
  <2>1. Drawn(d)' = Drawn(d) \cup {c} /\ c \notin Drawn(d)
    BY <1>1, <1>3, <1>4, <1>6 DEF Drawn
  <2>2. PollsOwn(d)'
    BY <1>2, <1>3, <1>6, <2>1 DEF PollsOwn
  <2>3. CASE Fault
    BY <2>2, <2>3, FaultEnds
  <2>4. CASE device'[e].code = c /\ faults' = faults
    <3> SUFFICES ASSUME Smooth(d)' PROVE OneJwt(d)'
      BY <2>2 DEF OneJwt
    <3>1. Drawn(d)' = {c} /\ Drawn(d) = {}
      BY <2>1 DEF Smooth
    <3>2. Smooth(d)
      BY <2>4, <3>1 DEF Smooth
    <3>3. row[d].jwtToken = NoToken /\ InPlay(d) \subseteq {NoToken}
      BY <1>2, <3>1, <3>2 DEF OneJwt
    <3>4. device[d].token = NoToken /\ poll[d].tok = NoToken
      BY <3>3, InPlayIn
    <3>5. \A p \in Completer : comp[p].pc = "written" => comp[p].code # c
      BY <1>1 DEF Calls, CallDrawn
    <3>6. /\ device'[d].token = NoToken /\ poll'[d].tok = NoToken
          /\ \A k \in Drawn(d)' : request'[k].plaintextToken = NoToken
          /\ \A p \in Completer : ~(comp'[p].pc = "written" /\ comp'[p].code \in Drawn(d)')
      BY <1>2, <1>3, <1>6, <3>1, <3>4, <3>5
    <3>7. InPlay(d)' \subseteq {NoToken}
      BY <3>6, InPlayInNext
    <3> QED
      BY <1>2, <1>6, <2>4, <3>1, <3>3, <3>7 DEF OneJwt
  <2> QED
    BY <1>3, <2>2, <2>3, <2>4
<1> QED
  BY <1>5, <1>6

(* The JWT goes from the request to the poll and from there to the device.   *)
LEMMA PollJwt ==
    ASSUME TypeOK, Jwts, NEW d \in Device, PollRead(d) \/ PollDelete(d) \/ PollReply(d)
    PROVE  PollsOwn(d)' /\ OneJwt(d)'
<1>1. /\ UNCHANGED <<row, codeDev, expired, comp, written>> /\ PollsOwn(d) /\ OneJwt(d)
      /\ Drawn(d)' = Drawn(d)
  BY DEF PollRead, PollDelete, PollReply, storeVars, countVars, Jwts, Drawn
<1>2. /\ device[d].token \in InPlay(d) /\ poll[d].tok \in InPlay(d)
      /\ \A c \in Drawn(d) : request[c].plaintextToken \in InPlay(d)
      /\ \A p \in Completer : comp[p].pc = "written" /\ comp[p].code \in Drawn(d)
                                 => comp[p].tok \in InPlay(d)
  BY InPlayIn
<1>3. CASE PollRead(d)
  <2> DEFINE c == device[d].code
  <2>1. /\ c # NoCode /\ request[c].plaintextToken # NoToken /\ poll[d].pc = "idle"
        /\ poll'[d].pc = "read" /\ poll'[d].code = c /\ poll'[d].tok = request[c].plaintextToken
        /\ UNCHANGED <<device, request, faults>>
    BY <1>3 DEF PollRead, TypeOK, storeVars, countVars
  <2>2. c \in Drawn(d)
    BY <1>1, <2>1 DEF PollsOwn
  <2>3. PollsOwn(d)' /\ Undisturbed(d)
    BY <1>1, <2>1, <2>2 DEF PollsOwn, Undisturbed
  <2>4. InPlay(d)' \subseteq InPlay(d) \cup {NoToken}
    BY <1>1, <1>2, <2>1, <2>2, InPlayShrinks
  <2>5. \A x : x \in InPlay(d) /\ x # NoToken => x \in InPlay(d)'
    BY <1>1, <2>1, InPlayHas, InPlayHasNext DEF PollsOwn
  <2> QED
    BY <1>1, <2>3, <2>4, <2>5, JwtMoves
<1>4. CASE PollDelete(d)
  <2>1. /\ poll[d].pc = "read" /\ poll'[d].pc = "reply" /\ poll'[d].code = poll[d].code
        /\ poll'[d].tok = poll[d].tok
        /\ \A c \in Code : request'[c].plaintextToken \in {NoToken, request[c].plaintextToken}
        /\ UNCHANGED <<device, faults>>
    BY <1>4 DEF PollDelete, TypeOK, PollRecord, NoRequest, countVars
  <2>2. PollsOwn(d)' /\ Undisturbed(d)
    BY <1>1, <2>1 DEF PollsOwn, Undisturbed
  <2>3. InPlay(d)' \subseteq InPlay(d) \cup {NoToken}
    <3>1. \A c \in Drawn(d) : request'[c].plaintextToken \in InPlay(d) \cup {NoToken}
      BY <1>2, <2>1 DEF Drawn
    <3>2. device'[d].token \in InPlay(d) /\ poll'[d].tok \in InPlay(d)
      BY <1>2, <2>1
    <3> QED
      BY <1>1, <1>2, <3>1, <3>2, InPlayShrinks
  <2>4. ASSUME InPlay(d) \ {NoToken} = {row[d].jwtToken} PROVE row[d].jwtToken \in InPlay(d)'
    <3>1. poll[d].tok = row[d].jwtToken
      BY <1>1, <1>2, <2>1, <2>4 DEF PollsOwn
    <3> QED
      BY <2>1, <3>1, InPlayHasNext
  <2> QED
    BY <1>1, <2>2, <2>3, <2>4, JwtMoves
<1>5. CASE PollReply(d)
  <2>1. /\ poll[d].pc = "reply" /\ poll'[d].pc = "idle" /\ poll'[d].tok = NoToken
        /\ UNCHANGED request
    BY <1>5, ConstantFacts DEF PollReply, TypeOK, NoPoll, storeVars
  <2>2. CASE Fault /\ UNCHANGED device
    BY <1>1, <2>1, <2>2, FaultEnds DEF PollsOwn
  <2>3. CASE device' = [device EXCEPT ![d].token = poll[d].tok] /\ UNCHANGED faults
    <3>1. device'[d].token = poll[d].tok /\ device'[d].code = device[d].code
      BY <2>3 DEF TypeOK, DeviceRecord
    <3>2. PollsOwn(d)' /\ Undisturbed(d)
      BY <1>1, <2>1, <2>3, <3>1 DEF PollsOwn, Undisturbed
    <3>3. InPlay(d)' \subseteq InPlay(d) \cup {NoToken}
      <4>1. device'[d].token \in InPlay(d) /\ poll'[d].tok \in InPlay(d) \cup {NoToken}
        BY <1>2, <2>1, <3>1
      <4>2. \A c \in Drawn(d) : request'[c].plaintextToken \in InPlay(d)
        BY <1>2, <2>1
      <4> QED
        BY <1>1, <1>2, <4>1, <4>2, InPlayShrinks
    <3>4. ASSUME InPlay(d) \ {NoToken} = {row[d].jwtToken} PROVE row[d].jwtToken \in InPlay(d)'
      <4>1. poll[d].tok = row[d].jwtToken
        BY <1>1, <1>2, <2>1, <3>4 DEF PollsOwn
      <4> QED
        BY <3>1, <4>1, InPlayHasNext
    <3> QED
      BY <1>1, <3>2, <3>3, <3>4, JwtMoves
  <2> QED
    BY <1>5, <2>2, <2>3 DEF PollReply
<1> QED
  BY <1>3, <1>4, <1>5

(* Only a JWT that is not the row's is dropped.                              *)
LEMMA PurgeJwt ==
    ASSUME TypeOK, Jwts, NEW d \in Device, DevicePurge(d)
    PROVE  PollsOwn(d)' /\ OneJwt(d)'
<1>1. /\ UNCHANGED <<row, codeDev, request, expired, comp, poll, written, faults>>
      /\ PollsOwn(d) /\ OneJwt(d) /\ Drawn(d)' = Drawn(d)
  BY DEF DevicePurge, storeVars, countVars, Jwts, Drawn
<1>2. /\ device'[d].token = NoToken /\ device'[d].code = device[d].code
      /\ ~row[d].exists \/ row[d].jwtToken # device[d].token
  BY DEF DevicePurge, TypeOK, DeviceRecord
<1>3. PollsOwn(d)' /\ Undisturbed(d)
  BY <1>1, <1>2 DEF PollsOwn, Undisturbed
<1>4. InPlay(d)' \subseteq InPlay(d) \cup {NoToken}
  <2>1. /\ poll[d].tok \in InPlay(d)
        /\ \A c \in Drawn(d) : request[c].plaintextToken \in InPlay(d)
        /\ \A p \in Completer : comp[p].pc = "written" /\ comp[p].code \in Drawn(d)
                                   => comp[p].tok \in InPlay(d)
    BY InPlayIn
  <2>2. device'[d].token \in {NoToken} /\ poll'[d].tok \in InPlay(d)
    BY <1>1, <1>2, <2>1
  <2> QED
    BY <1>1, <2>1, <2>2, InPlayShrinks
<1>5. \A x : x \in InPlay(d) /\ x # device[d].token => x \in InPlay(d)'
  BY <1>1, <1>2, InPlayHas, InPlayHasNext
<1>6. ASSUME row[d].exists, row[d].jwtToken # NoToken, InPlay(d) \ {NoToken} = {row[d].jwtToken}
      PROVE  row[d].jwtToken \in InPlay(d)'
  <2>1. row[d].jwtToken \in InPlay(d)
    BY <1>6
  <2> QED
    BY <1>2, <1>5, <1>6, <2>1
<1> QED
  BY <1>1, <1>3, <1>4, <1>6, JwtMoves

LEMMA DeviceJwt ==
    ASSUME TypeOK, Calls, Jwts, NEW e \in Device, DeviceStep(e)
    PROVE  Jwts'
<1> USE DEF storeVars, claimVars, deviceVars, countVars
<1>1. CASE StoreCode(e)
  BY <1>1, StoreCodeJwt
<1>2. CASE ~StoreCode(e)
  <2> SUFFICES ASSUME NEW d \in Device PROVE PollsOwn(d)' /\ OneJwt(d)'
    BY DEF Jwts
  <2>1. /\ UNCHANGED <<codeDev, expired, comp, written>> /\ (faults' = 0 => faults = 0)
        /\ PollsOwn(d) /\ OneJwt(d) /\ Drawn(d)' = Drawn(d)
        /\ row'[d].exists = row[d].exists /\ row'[d].jwtToken = row[d].jwtToken
    <3>1. UNCHANGED <<codeDev, expired, comp, written>>
      BY <1>2 DEF DeviceStep, AskCode, PollRead, PollDelete, PollReply, DeviceConnect, DevicePurge
    <3>2. faults' = 0 => faults = 0
      BY <1>2 DEF DeviceStep, AskCode, PollRead, PollDelete, PollReply, DeviceConnect,
                  DevicePurge, Fault, TypeOK
    <3>3. \/ UNCHANGED row
          \/ row' = [row EXCEPT ![e].status = "online"]
      BY <1>2 DEF DeviceStep, AskCode, PollRead, PollDelete, PollReply, DeviceConnect, DevicePurge
    <3>4. row'[d].exists = row[d].exists /\ row'[d].jwtToken = row[d].jwtToken
      BY <3>3 DEF TypeOK, RowRecord
    <3> QED
      BY <3>1, <3>2, <3>4 DEF Jwts, Drawn
  <2>2. CASE d = e /\ (PollRead(e) \/ PollDelete(e) \/ PollReply(e))
    BY <2>2, PollJwt
  <2>3. CASE d = e /\ DevicePurge(e)
    BY <2>3, PurgeJwt
  <2>4. CASE \/ AskCode(e) \/ DeviceConnect(e)
             \/ d # e /\ (PollRead(e) \/ PollDelete(e) \/ PollReply(e) \/ DevicePurge(e))
    <3>1. device'[d].token = device[d].token /\ device'[d].code = device[d].code
      BY <2>4 DEF AskCode, PollRead, PollDelete, PollReply, DeviceConnect, DevicePurge,
                  TypeOK, DeviceRecord
    <3>2. poll'[d] = poll[d]
      BY <2>4 DEF AskCode, PollRead, PollDelete, PollReply, DeviceConnect, DevicePurge, TypeOK
    <3>3. \A c \in Drawn(d) : request'[c] = request[c]
      <4>1. CASE UNCHANGED request
        BY <4>1
      <4>2. CASE d # e /\ PollDelete(e)
        <5>1. poll[e].code \in Drawn(e)
          BY <4>2 DEF Jwts, PollsOwn, PollDelete
        <5> QED
          BY <4>2, <5>1 DEF PollDelete, Drawn, TypeOK
      <4> QED
        BY <2>4, <4>1, <4>2 DEF AskCode, PollRead, PollReply, DeviceConnect, DevicePurge
    <3>4. Undisturbed(d)
      BY <2>1, <3>1 DEF Undisturbed
    <3> QED
      BY <2>1, <3>1, <3>2, <3>3, <3>4, JwtFrame
  <2> QED
    BY <1>2, <2>2, <2>3, <2>4 DEF DeviceStep
<1> QED
  BY <1>1, <1>2

(* A completion hands its JWT over.                                          *)
Signed == \A p \in Completer : CallSigned(p)

LEMMA FinalizeJwt ==
    ASSUME TypeOK, Calls, Jwts, Signed, NEW p \in Completer, Finalize(p)
    PROVE  Jwts'
<1> SUFFICES ASSUME NEW d \in Device PROVE PollsOwn(d)' /\ OneJwt(d)'
  BY DEF Jwts
<1>1. /\ UNCHANGED <<row, codeDev, expired, device, poll, written, faults>>
      /\ comp[p].pc = "written" /\ Goto(p, "release") /\ HandOver(p)
  BY DEF Finalize, deviceVars, countVars
<1>2. PollsOwn(d) /\ OneJwt(d) /\ Drawn(d)' = Drawn(d) /\ comp[p].code \in Code
  BY <1>1 DEF Jwts, Drawn, Calls, CallDrawn
<1>3. PollsOwn(d)' /\ Undisturbed(d)
  BY <1>1, <1>2 DEF PollsOwn, Undisturbed
<1>4. /\ comp'[p].pc = "release" /\ comp'[p].code = comp[p].code
      /\ \A q \in Completer \ {p} : comp'[q] = comp[q]
      /\ request'[comp[p].code].plaintextToken = comp[p].tok
      /\ \A c \in Code \ {comp[p].code} : request'[c] = request[c]
  BY <1>1, <1>2 DEF Goto, HandOver, TypeOK, CompRecord
<1>5. CASE comp[p].code \notin Drawn(d)
  <2>1. \A c \in Drawn(d) : request'[c] = request[c]
    BY <1>4, <1>5 DEF Drawn
  <2>2. \A q \in Completer : \/ comp'[q] = comp[q]
                             \/ comp[q].code \notin Drawn(d) /\ comp'[q].code \notin Drawn(d)
    BY <1>4, <1>5
  <2> QED
    BY <1>1, <1>2, <1>3, <2>1, <2>2, JwtFrame
<1>6. CASE comp[p].code \in Drawn(d)
  <2>1. InPlay(d)' \subseteq InPlay(d) \cup {NoToken}
    <3>1. /\ device[d].token \in InPlay(d) /\ poll[d].tok \in InPlay(d)
          /\ \A c \in Drawn(d) : request[c].plaintextToken \in InPlay(d)
          /\ \A q \in Completer : comp[q].pc = "written" /\ comp[q].code \in Drawn(d)
                                     => comp[q].tok \in InPlay(d)
      BY InPlayIn
    <3>2. \A c \in Drawn(d) : request'[c].plaintextToken \in InPlay(d)
      BY <1>1, <1>4, <1>6, <3>1 DEF Drawn
    <3>3. \A q \in Completer : comp'[q].pc = "written" /\ comp'[q].code \in Drawn(d)'
                                     => comp'[q].tok \in InPlay(d)
      BY <1>2, <1>4, <3>1
    <3> QED
      BY <1>1, <1>2, <3>1, <3>2, <3>3, InPlayShrinks
  <2>2. /\ comp[p].tok \in InPlay(d) /\ comp[p].tok \in InPlay(d)'
        /\ comp[p].tok # NoToken
    BY <1>1, <1>2, <1>4, <1>6, InPlayHas, InPlayHasNext DEF Signed, CallSigned
  <2>3. InPlay(d) \ {NoToken} = {row[d].jwtToken} => row[d].jwtToken \in InPlay(d)'
    BY <2>2
  <2> QED
    BY <1>2, <1>3, <2>1, <2>3, JwtMoves
<1> QED
  BY <1>5, <1>6

(* The first JWT of a code is the only one in play.                          *)
LEMMA WriteRowJwt ==
    ASSUME TypeOK, Calls, Jwts, NEW p \in Completer, WriteRow(p)
    PROVE  Jwts'
<1> SUFFICES ASSUME NEW d \in Device PROVE PollsOwn(d)' /\ OneJwt(d)'
  BY DEF Jwts
<1> DEFINE e == DevOf(p)
           c == comp[p].code
<1>1. /\ UNCHANGED <<codeDev, request, expired, device, poll>>
      /\ comp[p].pc = "write"
      /\ row' = [row EXCEPT ![e] = [exists |-> TRUE, owner |-> comp[p].org,
                                    jwtToken |-> minted + 1, status |-> "pairing",
                                    id |-> WrittenId(p)]]
      /\ written' = [written EXCEPT ![c] = @ + 1]
      /\ \/ comp' = [comp EXCEPT ![p].pc = "written", ![p].tok = minted + 1] /\ UNCHANGED faults
         \/ Goto(p, "release") /\ Fault
  BY DEF WriteRow, storeVars, deviceVars
<1>2. /\ PollsOwn(d) /\ OneJwt(d) /\ Drawn(d)' = Drawn(d)
      /\ c \in Code /\ e \in Device /\ (c \in Drawn(d) <=> d = e)
  <2>1. c \in Code /\ codeDev[c] # None
    BY <1>1 DEF Calls, CallDrawn
  <2> QED
    BY <1>1, <2>1 DEF Jwts, Drawn, DevOf, TypeOK
<1>3. PollsOwn(d)'
  BY <1>1, <1>2 DEF PollsOwn
<1>4. CASE Fault
  BY <1>3, <1>4, FaultEnds
<1>5. CASE comp' = [comp EXCEPT ![p].pc = "written", ![p].tok = minted + 1] /\ UNCHANGED faults
  <2>1. /\ comp'[p].pc = "written" /\ comp'[p].tok = minted + 1 /\ comp'[p].code = c
        /\ \A q \in Completer \ {p} : comp'[q] = comp[q]
    BY <1>5 DEF TypeOK, CompRecord
  <2>2. /\ row'[e].exists /\ row'[e].jwtToken = minted + 1
        /\ \A k \in Device \ {e} : row'[k] = row[k]
        /\ written'[c] = written[c] + 1 /\ \A k \in Code \ {c} : written'[k] = written[k]
        /\ written[c] \in Nat /\ minted \in Nat
    BY <1>1, <1>2, DevicePairingAssumption DEF TypeOK, TokenOrNone
  <2> HIDE DEF e, c
  <2>3. CASE d # e
    <3>1. Undisturbed(d)
      BY <1>1, <1>2, <1>5, <2>2, <2>3 DEF Undisturbed, Drawn
    <3>2. \A q \in Completer : \/ comp'[q] = comp[q]
                               \/ comp[q].code \notin Drawn(d) /\ comp'[q].code \notin Drawn(d)
      BY <1>2, <2>1, <2>3 DEF c
    <3> QED
      BY <1>1, <1>2, <3>1, <3>2, JwtFrame
  <2>4. CASE d = e
    <3> SUFFICES ASSUME Smooth(d)' PROVE OneJwt(d)'
      BY <1>3 DEF OneJwt
    <3>1. Drawn(d) = {c} /\ written[c] = 0 /\ written'[c] = 1
      BY <1>2, <2>2, <2>4 DEF Smooth
    <3>2. Smooth(d)
      BY <1>1, <1>2, <1>5, <3>1 DEF Smooth
    <3>3. InPlay(d) \subseteq {NoToken} /\ Drawn(d) \subseteq {device[d].code}
      BY <1>2, <3>1, <3>2 DEF OneJwt
    <3>4. /\ device[d].token = NoToken /\ poll[d].tok = NoToken
          /\ \A k \in Drawn(d) : request[k].plaintextToken = NoToken
          /\ \A q \in Completer : comp[q].pc = "written" /\ comp[q].code \in Drawn(d)
                                     => comp[q].tok = NoToken
      BY <3>3, InPlayIn
    <3>5. InPlay(d)' \subseteq {NoToken, minted + 1}
      <4>1. /\ device'[d].token \in {NoToken, minted + 1} /\ poll'[d].tok \in {NoToken, minted + 1}
            /\ \A k \in Drawn(d)' : request'[k].plaintextToken \in {NoToken, minted + 1}
        BY <1>1, <1>2, <3>4
      <4>2. \A q \in Completer : comp'[q].pc = "written" /\ comp'[q].code \in Drawn(d)'
                                     => comp'[q].tok \in {NoToken, minted + 1}
        BY <1>2, <2>1, <3>4
      <4> QED
        BY <4>1, <4>2, InPlayInNext
    <3>6. minted + 1 \in InPlay(d)'
      BY <1>2, <2>1, <2>4, InPlayHasNext
    <3>7. minted + 1 # NoToken
      BY <2>2 DEF NoToken
    <3>8. InPlay(d)' \ {NoToken} = {row'[d].jwtToken}
      BY <2>2, <2>4, <3>5, <3>6, <3>7
    <3>9. ~ \A k \in Drawn(d)' : written'[k] = 0
      BY <1>2, <3>1
    <3> QED
      BY <1>1, <1>2, <3>3, <3>8, <3>9 DEF OneJwt
  <2> QED
    BY <2>3, <2>4
<1> QED
  BY <1>1, <1>4, <1>5

(* The other steps of a completion, and its start.                           *)
LEMMA CallJwt ==
    ASSUME TypeOK, Calls, Jwts, Signed, NEW p \in Completer,
           CallStep(p) \/ \E c \in Code, o \in Org : Start(p, c, o)
    PROVE  Jwts'
<1> USE DEF storeVars, claimVars, deviceVars, countVars
<1>1. CASE WriteRow(p)
  BY <1>1, WriteRowJwt
<1>2. CASE Finalize(p)
  BY <1>2, FinalizeJwt
<1>3. CASE \/ Claim(p) \/ FindRow(p) \/ NewClaim(p) \/ CheckQuota(p) \/ WriteThrows(p) \/ Release(p)
           \/ \E c \in Code, o \in Org : Start(p, c, o)
  <2>1. /\ UNCHANGED <<row, request, codeDev, expired, device, poll, written>>
        /\ comp[p].pc # "written"
    BY <1>3 DEF Claim, FindRow, NewClaim, CheckQuota, WriteThrows, Release, Start
  <2>2. faults' = 0 => faults = 0
    <3>1. CASE Release(p)
      <4>1. Fault => faults' # 0
        BY DEF Fault, TypeOK
      <4> QED
        BY <3>1, <4>1 DEF Release
    <3> QED
      BY <1>3, <3>1 DEF Claim, FindRow, NewClaim, CheckQuota, WriteThrows, Start
  <2>3. comp'[p].pc # "written" /\ \A q \in Completer \ {p} : comp'[q] = comp[q]
    <3>1. ASSUME NEW pc \in Progress \ {"written"}, Goto(p, pc)
          PROVE  comp'[p].pc # "written" /\ \A q \in Completer \ {p} : comp'[q] = comp[q]
      <4>1. comp \in [Completer -> CompRecord] /\ comp' = [comp EXCEPT ![p].pc = pc]
        BY <3>1 DEF Goto, TypeOK
      <4>2. comp'[p].pc = pc
        BY <4>1 DEF CompRecord
      <4>3. \A q \in Completer \ {p} : comp'[q] = comp[q]
        BY <4>1
      <4> QED
        BY <4>2, <4>3
    <3>2. ASSUME comp' = [comp EXCEPT ![p] = NoCall]
          PROVE  comp'[p].pc # "written" /\ \A q \in Completer \ {p} : comp'[q] = comp[q]
      BY <3>2 DEF TypeOK, NoCall
    <3>3. CASE comp' = [comp EXCEPT ![p].pc = "write", ![p].existing = row[DevOf(p)].id]
      BY <3>3 DEF TypeOK, CompRecord
    <3>4. ASSUME NEW c \in Code, NEW o \in Org, Start(p, c, o)
          PROVE  comp'[p].pc # "written" /\ \A q \in Completer \ {p} : comp'[q] = comp[q]
      <4>1. /\ comp \in [Completer -> CompRecord]
            /\ comp' = [comp EXCEPT ![p] = [NoCall EXCEPT !.pc = "read", !.code = c, !.org = o]]
        BY <3>4 DEF Start, TypeOK
      <4> QED
        BY <4>1 DEF NoCall
    <3>5. CASE NewClaim(p) \/ CheckQuota(p) \/ WriteThrows(p)
      <4>1. \E pc \in Progress \ {"written"} : Goto(p, pc)
        BY <3>5 DEF NewClaim, CheckQuota, WriteThrows, Progress
      <4> QED
        BY <3>1, <4>1
    <3>6. CASE Claim(p) \/ FindRow(p) \/ Release(p)
      BY <3>1, <3>2, <3>3, <3>6 DEF Claim, FindRow, Release, EndCall, Progress
    <3> QED
      BY <1>3, <3>4, <3>5, <3>6
  <2> SUFFICES ASSUME NEW d \in Device PROVE PollsOwn(d)' /\ OneJwt(d)'
    BY DEF Jwts
  <2>5. Undisturbed(d) /\ PollsOwn(d) /\ OneJwt(d)
    BY <2>1, <2>2 DEF Undisturbed, Drawn, Jwts
  <2> QED
    BY <2>1, <2>3, <2>5, JwtFrame
<1> QED
  BY <1>1, <1>2, <1>3 DEF CallStep

(* A fault ends what OneJwt says; the codes stay as they are.                *)
LEMMA FaultJwt ==
    ASSUME TypeOK, Jwts,
           MiddlewareCrash \/ \E p \in Completer : FinalizeFails(p) \/ CallThrows(p)
    PROVE  Jwts'
<1> USE DEF storeVars, claimVars, deviceVars
<1>1. Fault /\ UNCHANGED codeDev
  BY DEF MiddlewareCrash, FinalizeFails, CallThrows
<1> SUFFICES ASSUME NEW d \in Device PROVE PollsOwn(d)' /\ OneJwt(d)'
  BY DEF Jwts
<1>2. /\ device'[d].code = device[d].code
      /\ poll'[d] = poll[d] \/ poll'[d] = NoPoll
  BY DEF MiddlewareCrash, FinalizeFails, CallThrows, TypeOK, DeviceRecord
<1>3. PollsOwn(d)'
  BY <1>1, <1>2 DEF PollsOwn, Jwts, Drawn, NoPoll
<1> QED
  BY <1>1, <1>3, FaultEnds

LEMMA EnvironmentJwt ==
    ASSUME TypeOK, Jwts,
           \/ \E d \in Device : Remove(d) \/ ResetStale(d)
           \/ \E c \in Code : Expire(c) \/ ClaimExpire(c)
           \/ \E o \in Org : OrgClaimExpire(o)
    PROVE  Jwts'
<1> USE DEF storeVars, claimVars, deviceVars, countVars
<1>1. UNCHANGED <<codeDev, comp, device, poll, written>> /\ expired \subseteq expired'
  BY DEF Remove, ResetStale, Expire, ClaimExpire, OrgClaimExpire
<1>2. faults' = 0 => faults = 0
  BY DEF Remove, ResetStale, Expire, ClaimExpire, OrgClaimExpire, Fault, TypeOK
<1> SUFFICES ASSUME NEW d \in Device PROVE PollsOwn(d)' /\ OneJwt(d)'
  BY DEF Jwts
<1>3. /\ row'[d].exists => row[d].exists
      /\ row'[d].jwtToken \in {NoToken, row[d].jwtToken}
  <2>1. CASE UNCHANGED row
    BY <2>1
  <2>2. ASSUME NEW e \in Device, Remove(e)
        PROVE  /\ row'[d].exists => row[d].exists
               /\ row'[d].jwtToken \in {NoToken, row[d].jwtToken}
    BY <2>2 DEF Remove, TypeOK, NoRow
  <2>3. ASSUME NEW e \in Device, ResetStale(e)
        PROVE  row'[d].exists = row[d].exists /\ row'[d].jwtToken = row[d].jwtToken
    BY <2>3 DEF ResetStale, TypeOK, RowRecord
  <2> QED
    BY <2>1, <2>2, <2>3 DEF Expire, ClaimExpire, OrgClaimExpire
<1>4. Undisturbed(d) /\ PollsOwn(d) /\ OneJwt(d)
  BY <1>1, <1>2, <1>3 DEF Undisturbed, Drawn, Jwts
<1>5. CASE \A c \in Drawn(d) : request'[c] = request[c]
  BY <1>1, <1>4, <1>5, JwtFrame
<1>6. ASSUME NEW c \in Drawn(d), Expire(c) PROVE PollsOwn(d)' /\ OneJwt(d)'
  <2>1. PollsOwn(d)'
    BY <1>1, <1>4 DEF PollsOwn, Drawn
  <2>2. c \in Drawn(d)' /\ c \in expired'
    BY <1>6 DEF Expire, Drawn
  <2> QED
    BY <2>1, <2>2 DEF OneJwt, Smooth
<1>7. \/ UNCHANGED request
      \/ \E k \in Code : Expire(k)
  BY DEF Remove, ResetStale, ClaimExpire, OrgClaimExpire
<1>8. ASSUME NEW k \in Code, Expire(k), k \notin Drawn(d)
      PROVE  \A c \in Drawn(d) : request'[c] = request[c]
  BY <1>8 DEF Expire, Drawn, TypeOK
<1> QED
  BY <1>5, <1>6, <1>7, <1>8

LEMMA JwtsNext ==
    ASSUME TypeOK, Calls, Jwts, Signed, [Next]_vars
    PROVE  Jwts'
<1>1. CASE UNCHANGED vars
  BY <1>1 DEF vars, storeVars, deviceVars, countVars, Jwts, PollsOwn, OneJwt, Smooth, InPlay, Drawn
<1> QED
  BY <1>1, DeviceJwt, CallJwt, FaultJwt, EnvironmentJwt DEF Next

(* A completion that has written has signed.                                 *)
LEMMA SignedNext ==
    ASSUME TypeOK, Signed, [Next]_vars
    PROVE  Signed'
<1> USE DEF Signed, CallSigned
<1>1. CASE UNCHANGED comp
  BY <1>1
<1>2. ASSUME NEW p \in Completer, NEW c \in CompRecord, c.pc # "written" \/ c.tok # NoToken,
             comp' = [comp EXCEPT ![p] = c]
      PROVE  Signed'
  BY <1>2 DEF TypeOK
<1>3. ASSUME NEW p \in Completer, NEW pc \in Progress \ {"written"}, Goto(p, pc) PROVE Signed'
  BY <1>3 DEF Goto, TypeOK, CompRecord
<1>4. ASSUME NEW p \in Completer, comp' = [comp EXCEPT ![p] = NoCall] PROVE Signed'
  BY <1>4 DEF TypeOK, NoCall
<1>5. ASSUME NEW d \in Device, DeviceStep(d) \/ Remove(d) \/ ResetStale(d) PROVE Signed'
  BY <1>1, <1>5 DEF DeviceStep, AskCode, StoreCode, PollRead, PollDelete, PollReply,
                    DeviceConnect, DevicePurge, Remove, ResetStale
<1>6. ASSUME NEW p \in Completer, Claim(p) \/ Release(p) \/ FinalizeFails(p) PROVE Signed'
  BY <1>3, <1>4, <1>6 DEF Claim, Release, FinalizeFails, EndCall, Progress
<1>7. ASSUME NEW p \in Completer,
             NewClaim(p) \/ CheckQuota(p) \/ WriteThrows(p) \/ Finalize(p)
      PROVE  Signed'
  <2>1. \E pc \in Progress \ {"written"} : Goto(p, pc)
    BY <1>7 DEF NewClaim, CheckQuota, WriteThrows, Finalize, Progress
  <2> QED
    BY <1>3, <2>1
<1>8. ASSUME NEW p \in Completer, CallThrows(p) PROVE Signed'
  BY <1>3, <1>4, <1>8 DEF CallThrows, Progress
<1>9. ASSUME NEW p \in Completer, FindRow(p) PROVE Signed'
  <2>1. CASE comp' = [comp EXCEPT ![p].pc = "write", ![p].existing = row[DevOf(p)].id]
    BY <2>1 DEF TypeOK, CompRecord
  <2> QED
    BY <1>3, <1>9, <2>1 DEF FindRow, Progress
<1>10. ASSUME NEW p \in Completer, WriteRow(p) PROVE Signed'
  <2>1. CASE comp' = [comp EXCEPT ![p].pc = "written", ![p].tok = minted + 1]
    <3>1. minted + 1 # NoToken
      BY DevicePairingAssumption DEF TypeOK, TokenOrNone, NoToken
    <3> QED
      BY <2>1, <3>1 DEF TypeOK, CompRecord
  <2> QED
    BY <1>3, <1>10, <2>1 DEF WriteRow, Progress
<1>11. ASSUME NEW p \in Completer, NEW c \in Code, NEW o \in Org, Start(p, c, o) PROVE Signed'
  BY <1>11 DEF Start, TypeOK, NoCall
<1>12. CASE \/ \E c \in Code : Expire(c) \/ ClaimExpire(c)
            \/ \E o \in Org : OrgClaimExpire(o)
            \/ UNCHANGED vars
  BY <1>1, <1>12 DEF Expire, ClaimExpire, OrgClaimExpire, vars
<1>13. CASE MiddlewareCrash
  BY <1>13 DEF MiddlewareCrash, NoCall
<1> QED
  BY <1>5, <1>6, <1>7, <1>8, <1>9, <1>10, <1>11, <1>12, <1>13 DEF Next, CallStep

(***************************************************************************)
(* The theorems.                                                           *)
(***************************************************************************)
LEMMA InitInv == Init => IInv
<1> SUFFICES ASSUME Init PROVE IInv
  OBVIOUS
<1> USE ConstantFacts, DevicePairingAssumption
<1>1. row \in [Device -> RowRecord]
  <2> DEFINE Made(o) == [NoRow EXCEPT !.exists = TRUE, !.owner = o]
  <2>1. \A o \in Org : Made(o) \in RowRecord
    BY DEF RowRecord
  <2>2. row \in [Device -> {NoRow} \cup {Made(o) : o \in Org}]
    BY DEF Init
  <2>3. NoRow \in RowRecord
    OBVIOUS
  <2> HIDE DEF Made
  <2> QED
    BY <2>1, <2>2, <2>3
<1>2. [token |-> NoToken, code |-> NoCode, asking |-> FALSE] \in DeviceRecord
  BY DEF DeviceRecord
<1>3. TypeOK
  <2>1. request \in [Code -> RequestRecord] /\ codeDev \in [Code -> Device \cup {None}]
    BY DEF Init
  <2>2. /\ expired \subseteq Code /\ overran \in BOOLEAN
        /\ claim \in [Code -> Completer \cup {None, Orphan}]
        /\ orgClaim \in [Org -> Completer \cup {None, Orphan}]
    BY DEF Init
  <2>3. comp \in [Completer -> CompRecord] /\ poll \in [Device -> PollRecord]
    BY DEF Init
  <2>4. device \in [Device -> DeviceRecord]
    BY <1>2 DEF Init
  <2>5. /\ minted \in TokenOrNone /\ faults \in 0 .. MaxFaults /\ ops \in 0 .. MaxOps
        /\ written \in [Code -> Nat]
    <3>1. minted = 0 /\ faults = 0 /\ ops = 0 /\ written = [c \in Code |-> 0]
      BY DEF Init
    <3> QED
      BY <3>1 DEF TokenOrNone
  <2> QED
    BY <1>1, <2>1, <2>2, <2>3, <2>4, <2>5 DEF TypeOK
<1>4. RequestDrawn
  BY DEF Init, RequestDrawn, NoRequest
<1>5. \A p \in Completer : comp[p].pc = "idle"
  BY DEF Init, NoCall
<1>6. Orgs /\ Signed
  <2>1. QuotaHolds
    BY DEF Init, QuotaHolds
  <2> QED
    BY <1>5, <2>1 DEF Orgs, Signed, CallSigned, CallHoldsOrg, RoomLeft, Creates
<1>7. Jwts
  <2> SUFFICES ASSUME NEW d \in Device PROVE PollsOwn(d) /\ OneJwt(d)
    BY DEF Jwts
  <2>1. Drawn(d) = {}
    BY DEF Init, Drawn
  <2>2. /\ device[d].token = NoToken /\ device[d].code = NoCode
        /\ poll[d].pc = "idle" /\ poll[d].tok = NoToken
    BY DEF Init, NoPoll
  <2>3. row[d].jwtToken = NoToken
    <3> DEFINE Made(o) == [NoRow EXCEPT !.exists = TRUE, !.owner = o]
    <3>1. \A o \in Org : Made(o).jwtToken = NoToken
      BY DEF NoRow
    <3>2. row[d] = NoRow \/ \E o \in Org : row[d] = Made(o)
      BY DEF Init
    <3> HIDE DEF Made
    <3> QED
      BY <3>1, <3>2 DEF NoRow
  <2>4. InPlay(d) \subseteq {NoToken}
    BY <2>1, <2>2, InPlayIn
  <2> QED
    BY <2>1, <2>2, <2>3, <2>4 DEF PollsOwn, OneJwt
<1> QED
  BY <1>3, <1>4, <1>5, <1>6, <1>7
     DEF IInv, CallDrawn, CallKnowsRow, CallHoldsClaim, Orgs, Signed, Jwts

LEMMA NextInv == IInv /\ [Next]_vars => IInv'
<1> SUFFICES ASSUME IInv, [Next]_vars PROVE IInv'
  OBVIOUS
<1>1. TypeOK /\ RequestDrawn /\ Calls /\ Orgs /\ Jwts /\ Signed
  BY DEF IInv, Calls, Orgs, Jwts, Signed
<1>2. SUFFICES TypeOK' /\ RequestDrawn' /\ Calls'
  <2>1. Orgs' /\ Jwts' /\ Signed'
    BY <1>1, QuotaNext, JwtsNext, SignedNext
  <2> QED
    BY <1>2, <2>1 DEF IInv, Calls, Orgs, Jwts, Signed
<1>3. ASSUME NEW d \in Device, DeviceStep(d) PROVE TypeOK' /\ RequestDrawn' /\ Calls'
  BY <1>1, <1>3, DeviceTyped, DeviceRelated
<1>4. ASSUME NEW p \in Completer, CallStep(p) PROVE TypeOK' /\ RequestDrawn' /\ Calls'
  BY <1>1, <1>4, CallStepTyped, CallStepRelated DEF Calls
<1>5. ASSUME NEW p \in Completer, FinalizeFails(p) \/ CallThrows(p)
      PROVE  TypeOK' /\ RequestDrawn' /\ Calls'
  BY <1>1, <1>5, FailureTyped, FailureRelated
<1>6. ASSUME NEW p \in Completer, NEW c \in Code, NEW o \in Org, Start(p, c, o)
      PROVE  TypeOK' /\ RequestDrawn' /\ Calls'
  BY <1>1, <1>6, StartTyped, StartRelated, RequestKept DEF Start, storeVars
<1>7. CASE \/ \E d \in Device : Remove(d) \/ ResetStale(d)
           \/ \E c \in Code : Expire(c) \/ ClaimExpire(c)
           \/ \E o \in Org : OrgClaimExpire(o)
           \/ MiddlewareCrash
  BY <1>1, <1>7, EnvironmentTyped, EnvironmentRelated
<1>8. CASE UNCHANGED vars
  <2> USE <1>8 DEF vars, storeVars, claimVars, deviceVars, countVars
  <2>1. TypeOK'
    BY <1>1 DEF TypeOK
  <2>2. RequestDrawn' /\ Calls'
    BY <1>1, CallsKept, RequestKept
  <2> QED
    BY <2>1, <2>2
<1> QED
  BY <1>3, <1>4, <1>5, <1>6, <1>7, <1>8 DEF Next

(* The inductive invariant holds in every reachable state: a stored request  *)
(* and a running completion are for a drawn code, a completion that found a  *)
(* row knows its owner, and one that is past its claim holds it.             *)
THEOREM Inductive == Spec => []IInv
  BY InitInv, NextInv, PTL DEF Spec

(* Every variable keeps its type.                                            *)
THEOREM TypeCorrect == Spec => []TypeOK
<1>1. IInv => TypeOK
  BY DEF IInv
<1> QED
  BY <1>1, Inductive, PTL

(* However many users complete a code, at most one of their calls is past    *)
(* its claim, as long as no call outlives its claim's TTL.                   *)
THEOREM OneCompletionHolds == Spec => []OneCompletionAtATime
<1>1. IInv => OneCompletionAtATime
  <2> SUFFICES ASSUME IInv, NEW p \in Completer, NEW q \in Completer, ~overran,
                      comp[p].code = comp[q].code,
                      comp[p].pc \notin {"idle", "read"}, comp[q].pc \notin {"idle", "read"}
               PROVE  p = q
    BY DEF OneCompletionAtATime
  <2>1. claim[comp[p].code] = p /\ claim[comp[q].code] = q
    BY DEF IInv, CallHoldsClaim
  <2> QED
    BY <2>1
<1> QED
  BY <1>1, Inductive, PTL

(* No organization gets more displays than its quota, however many users     *)
(* complete codes for it, as long as no call outlives its claim's TTL.       *)
THEOREM QuotaKept == Spec => []QuotaHolds
<1>1. IInv => QuotaHolds
  BY DEF IInv
<1> QED
  BY <1>1, Inductive, PTL

(* The row's JWT, in play, is within the device's reach.                     *)
LEMMA InPlayReachable ==
    ASSUME NEW d \in Device, PollsOwn(d), Smooth(d), Drawn(d) \subseteq {device[d].code},
           row[d].jwtToken \in InPlay(d), row[d].jwtToken # NoToken
    PROVE  Reachable(d)
<1>1. CASE row[d].jwtToken = device[d].token \/ row[d].jwtToken = poll[d].tok
  BY <1>1 DEF Reachable, PollsOwn
<1>2. ASSUME NEW c \in Drawn(d), row[d].jwtToken = request[c].plaintextToken
      PROVE  Reachable(d)
  BY <1>2 DEF Reachable, Shown, Smooth, Drawn
<1>3. ASSUME NEW p \in Completer, comp[p].pc = "written", row[d].jwtToken = comp[p].tok
      PROVE  Reachable(d)
  BY <1>3 DEF Reachable
<1> QED
  BY <1>1, <1>2, <1>3, InPlayHas

LEMMA TwoCodes ==
    ASSUME NEW d \in Device, NEW c \in Drawn(d), Cardinality(Drawn(d)) <= 1
    PROVE  Drawn(d) = {c}
<1>1. IsFiniteSet(Code) /\ Drawn(d) \subseteq Code
  BY DevicePairingAssumption, FS_Interval DEF Code, Drawn
<1>2. IsFiniteSet(Drawn(d)) /\ Cardinality(Drawn(d)) \in Nat
  BY <1>1, FS_Subset, FS_CardinalityType
<1>3. Cardinality({c}) = 1 /\ {c} \in SUBSET Drawn(d)
  BY FS_Singleton
<1>4. Cardinality({c}) <= Cardinality(Drawn(d))
  BY <1>2, <1>3, FS_Subset
<1>5. Cardinality(Drawn(d)) = Cardinality({c})
  BY <1>2, <1>3, <1>4
<1> QED
  BY <1>2, <1>3, <1>5, FS_Subset

(* A device is locked out of a paired row only after a fault, an expired or  *)
(* a second code, or a second completion: before that the row's JWT is the   *)
(* one in play.                                                              *)
THEOREM LockedOutHolds == Spec => []LockedOutHasCause
<1>1. IInv => LockedOutHasCause
  <2> SUFFICES ASSUME IInv, NEW d \in Device, row[d].exists, row[d].jwtToken # NoToken,
                      ~(faults > 0), ~(Cardinality(Drawn(d)) > 1),
                      \A c \in Drawn(d) : c \notin expired /\ ~(written[c] > 1)
               PROVE  Reachable(d)
    BY DEF LockedOutHasCause
  <2>1. PollsOwn(d) /\ OneJwt(d)
    BY DEF IInv
  <2>2. \A c \in Drawn(d) : Drawn(d) = {c} /\ written[c] <= 1
    <3>1. Cardinality(Drawn(d)) \in Nat
      <4>1. IsFiniteSet(Code) /\ Drawn(d) \subseteq Code
        BY DevicePairingAssumption, FS_Interval DEF Code, Drawn
      <4> QED
        BY <4>1, FS_Subset, FS_CardinalityType
    <3>2. \A c \in Drawn(d) : written[c] \in Nat
      BY DEF IInv, TypeOK, Drawn
    <3> QED
      BY <3>1, <3>2, TwoCodes
  <2>3. faults = 0
    BY DEF IInv, TypeOK
  <2>4. Smooth(d)
    BY <2>2, <2>3 DEF Smooth
  <2>5. Drawn(d) \subseteq {device[d].code} /\ InPlay(d) \ {NoToken} = {row[d].jwtToken}
    BY <2>1, <2>4 DEF OneJwt
  <2>6. row[d].jwtToken \in InPlay(d)
    BY <2>5
  <2> QED
    BY <2>1, <2>4, <2>5, <2>6, InPlayReachable
<1> QED
  BY <1>1, Inductive, PTL

(* Pairing never moves a display to another organization: the only steps     *)
(* that write an owner over another are WriteRow's, and the row that it      *)
(* updates is the one its call found to be its organization's.               *)
THEOREM TenantKeptHolds == Spec => TenantKept
<1> DEFINE Kept == \A d \in Device : row[d].exists /\ row'[d].exists
                                      => row'[d].owner = row[d].owner
<1>1. IInv /\ [Next]_vars => [Kept]_vars
  <2> SUFFICES ASSUME IInv, Next, NEW d \in Device, row[d].exists, row'[d].exists
               PROVE  row'[d].owner = row[d].owner
    OBVIOUS
  <2> USE DEF storeVars, claimVars, deviceVars, countVars
  <2>1. row \in [Device -> RowRecord]
    BY DEF IInv, TypeOK
  <2>2. CASE row' = row
    BY <2>2
  <2>3. ASSUME NEW e \in Device, NEW st \in {"offline", "online"},
               row' = [row EXCEPT ![e].status = st]
        PROVE  row'[d].owner = row[d].owner
    BY <2>1, <2>3 DEF RowRecord
  <2>4. ASSUME NEW e \in Device, DeviceStep(e) PROVE row'[d].owner = row[d].owner
    BY <2>2, <2>3, <2>4 DEF DeviceStep, AskCode, StoreCode, PollRead, PollDelete,
                            PollReply, DeviceConnect, DevicePurge
  <2>5. ASSUME NEW e \in Device, Remove(e) PROVE row'[d].owner = row[d].owner
    BY <2>1, <2>5 DEF Remove, NoRow
  <2>6. ASSUME NEW p \in Completer, WriteRow(p) PROVE row'[d].owner = row[d].owner
    <3>1. CASE d # DevOf(p)
      BY <2>1, <2>6, <3>1 DEF WriteRow
    <3>2. CASE d = DevOf(p)
      <4>1. comp[p].existing # NewRow /\ row[d].id = comp[p].existing
        BY <2>6, <3>2 DEF WriteRow, WriteFinds
      <4>2. row[d].owner = comp[p].org
        BY <2>6, <3>2, <4>1 DEF IInv, CallKnowsRow, WriteRow
      <4>3. row'[d].owner = comp[p].org
        BY <2>1, <2>6, <3>2 DEF WriteRow
      <4> QED
        BY <4>2, <4>3
    <3> QED
      BY <3>1, <3>2
  <2>7. ASSUME NEW p \in Completer,
               \/ Claim(p) \/ FindRow(p) \/ NewClaim(p) \/ CheckQuota(p) \/ WriteThrows(p)
               \/ Finalize(p) \/ Release(p) \/ FinalizeFails(p) \/ CallThrows(p)
               \/ \E c \in Code, o \in Org : Start(p, c, o)
        PROVE  row'[d].owner = row[d].owner
    BY <2>2, <2>7 DEF Claim, FindRow, NewClaim, CheckQuota, WriteThrows, Finalize,
                      Release, FinalizeFails, CallThrows, Start
  <2>8. CASE \/ \E c \in Code : Expire(c) \/ ClaimExpire(c)
             \/ \E o \in Org : OrgClaimExpire(o)
             \/ MiddlewareCrash
    BY <2>2, <2>8 DEF Expire, ClaimExpire, OrgClaimExpire, MiddlewareCrash
  <2>9. ASSUME NEW e \in Device, ResetStale(e) PROVE row'[d].owner = row[d].owner
    BY <2>3, <2>9 DEF ResetStale
  <2> QED
    BY <2>4, <2>5, <2>6, <2>7, <2>8, <2>9 DEF Next, CallStep
<1> QED
  BY <1>1, Inductive, PTL DEF Spec, TenantKept

================================================================================
