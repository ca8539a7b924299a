----------------------------- MODULE DevicePairing -----------------------------
(***************************************************************************)
(* How a display gets its first JWT: the device asks the middleware for a  *)
(* pairing code and polls it, a dashboard user completes the code, and the *)
(* JWT is handed over through the pairing request in Redis.                *)
(*                                                                         *)
(* A completion is one action per await; what it read before may be stale  *)
(* when it writes.  A JWT is the number of its signature.  A code is drawn *)
(* once only (32^6 codes), so the device it was drawn for never changes.   *)
(***************************************************************************)
EXTENDS Integers, FiniteSets

CONSTANTS
    Device,      \* deviceIdentifiers
    Org,         \* organizations
    Completer,   \* completePairing calls that may run at the same time
    None,        \* no code, no claim, no organization
    Orphan,      \* the claim of a call that can no longer release it
    Quota,       \* Organization.screenQuota; -1 is unlimited
    MaxCodes,    \* bound: pairing codes drawn in one behaviour
    MaxTokens,   \* bound: JWTs signed in one behaviour
    MaxFaults,   \* bound: failed or lost calls, crashes, restarts
    MaxOps       \* bound: displays removed by an operator

ASSUME DevicePairingAssumption ==
    /\ None \notin Device \cup Org \cup Completer \cup {Orphan}
    /\ Orphan \notin Completer /\ IsFiniteSet(Device)
    /\ Quota \in [Org -> Nat \cup {-1}]
    /\ MaxCodes \in Nat \ {0} /\ MaxTokens \in Nat \ {0}
    /\ MaxFaults \in Nat /\ MaxOps \in Nat

VARIABLES
    row,        \* the Display row of each deviceIdentifier
    request,    \* Redis pairing:{code}: [present, plaintextToken]
    codeDev,    \* the device a code was drawn for (None: not drawn yet)
    expired,    \* the codes past their expiresAt
    claim,      \* Redis pairing completion claim of each code
    orgClaim,   \* Redis new-display claim of each organization
    comp,       \* each completePairing call, between two awaits
    device,     \* each Electron client
    poll,       \* each client's checkPairingStatus call, between two awaits
    minted,     \* how many JWTs have been signed
    faults,     \* faults so far
    ops,        \* operator removals so far
    written,    \* history: how often each code wrote a JWT to the row
    overran     \* history: a claim's TTL ended under a call still running

storeVars == <<request, codeDev, expired>>
claimVars == <<claim, orgClaim>>
deviceVars == <<device, poll>>
countVars == <<minted, faults, ops, written, overran>>
vars == <<row, storeVars, claimVars, comp, deviceVars, countVars>>

Code == 1 .. MaxCodes
NoCode == 0
NoToken == 0
TokenOrNone == 0 .. MaxTokens

(* id counts the rows a deviceIdentifier has had.                            *)
RowRecord == [exists : BOOLEAN, id : Nat, owner : Org \cup {None},
              jwtToken : TokenOrNone, status : {"offline", "pairing", "online"}]
RequestRecord == [present : BOOLEAN, plaintextToken : TokenOrNone]
CompRecord == [pc : {"idle", "read", "claimed", "new", "quota", "write",
                     "written", "release"},
               code : Code \cup {NoCode}, org : Org \cup {None},
               existing : Nat \cup {-1}, tok : TokenOrNone]
DeviceRecord == [token : TokenOrNone, code : Code \cup {NoCode}, asking : BOOLEAN]
PollRecord == [pc : {"idle", "read", "reply"}, code : Code \cup {NoCode},
               tok : TokenOrNone]

NewRow == -1
NoRow == [exists |-> FALSE, id |-> 0, owner |-> None, jwtToken |-> NoToken,
          status |-> "offline"]
NoRequest == [present |-> FALSE, plaintextToken |-> NoToken]
NoCall == [pc |-> "idle", code |-> NoCode, org |-> None, existing |-> NewRow,
           tok |-> NoToken]
NoPoll == [pc |-> "idle", code |-> NoCode, tok |-> NoToken]

-----------------------------------------------------------------------------
(* Helpers                                                                   *)

Fault == faults < MaxFaults /\ faults' = faults + 1

DevOf(p) == codeDev[comp[p].code]
Drawn(d) == {c \in Code : codeDev[c] = d}
RowsOf(o) == {d \in Device : row[d].exists /\ row[d].owner = o}
Goto(p, pc) == comp' = [comp EXCEPT ![p].pc = pc]

(* The code on d's screen is one that would still be answered.               *)
Shown(d, c) == device[d].code = c /\ c \notin expired

(* enforceScreenQuota does not throw.                                        *)
UnderQuota(o) == Quota[o] = -1 \/ Cardinality(RowsOf(o)) < Quota[o]

-----------------------------------------------------------------------------
(* The device: Electron client and pairing screen                            *)

(* getPairingCode: when the app starts, when its JWT was refused, and before *)
(* the code it shows expires.  requestPairingCode reads the row; a paired    *)
(* one is refused, and the screen goes on polling the code it had.           *)
AskCode(d) ==
    /\ device[d].token = NoToken /\ ~device[d].asking /\ codeDev[MaxCodes] = None
    /\ ~(row[d].exists /\ row[d].jwtToken # NoToken)
    /\ device' = [device EXCEPT ![d].asking = TRUE]
    /\ UNCHANGED <<row, storeVars, claimVars, comp, poll, countVars>>

(* requestPairingCode stores the request under a new code; the reply, unless *)
(* it is lost, changes the code on the screen and the code that is polled.   *)
StoreCode(d) ==
    /\ device[d].asking
    /\ \E c \in Code :
        /\ codeDev[c] = None /\ \A k \in 1 .. c - 1 : codeDev[k] # None
        /\ codeDev' = [codeDev EXCEPT ![c] = d]
        /\ request' = [request EXCEPT ![c] = [NoRequest EXCEPT !.present = TRUE]]
        /\ \/ device' = [device EXCEPT ![d].asking = FALSE, ![d].code = c] /\ UNCHANGED faults
           \/ device' = [device EXCEPT ![d].asking = FALSE] /\ Fault
    /\ UNCHANGED <<row, expired, claimVars, comp, poll, minted, ops, written, overran>>

(* checkPairingStatus reads the request.  Only a completed, unexpired one    *)
(* has an effect: a pending or missing one answers "pending", an expired one *)
(* is deleted (Expire).                                                      *)
PollRead(d) ==
    LET c == device[d].code IN
    /\ device[d].token = NoToken /\ c # NoCode /\ poll[d].pc = "idle"
    /\ request[c].present /\ c \notin expired /\ request[c].plaintextToken # NoToken
    /\ poll' = [poll EXCEPT ![d] = [pc |-> "read", code |-> c,
                                    tok |-> request[c].plaintextToken]]
    /\ UNCHANGED <<row, storeVars, claimVars, comp, device, countVars>>

(* Variant: the request is deleted first, and then found not to be there.    *)
PollDeleteFirst(d) ==
    /\ poll[d].pc = "read"
    /\ request' = [request EXCEPT ![poll[d].code] = NoRequest]
    /\ poll' = [poll EXCEPT ![d] = NoPoll]
    /\ UNCHANGED <<row, codeDev, expired, claimVars, comp, device, countVars>>

(* ... then it deletes the request, before the reply leaves.                 *)
PollDelete(d) ==
    /\ poll[d].pc = "read"
    /\ request' = [request EXCEPT ![poll[d].code] = NoRequest]
    /\ poll' = [poll EXCEPT ![d].pc = "reply"]
    /\ UNCHANGED <<row, codeDev, expired, claimVars, comp, device, countVars>>

(* onPaired stores the JWT; or the reply is lost on the way.                 *)
PollReply(d) ==
    /\ poll[d].pc = "reply"
    /\ poll' = [poll EXCEPT ![d] = NoPoll]
    /\ \/ device' = [device EXCEPT ![d].token = poll[d].tok] /\ UNCHANGED faults
       \/ Fault /\ UNCHANGED device
    /\ UNCHANGED <<row, storeVars, claimVars, comp, minted, ops, written, overran>>

(* The gateway accepts a JWT that is the row's and sets the row online.      *)
DeviceConnect(d) ==
    /\ device[d].token # NoToken /\ row[d].exists
    /\ row[d].jwtToken = device[d].token /\ row[d].status # "online"
    /\ row' = [row EXCEPT ![d].status = "online"]
    /\ UNCHANGED <<storeVars, claimVars, comp, deviceVars, countVars>>

(* The gateway refuses any other, and the client drops it.                   *)
DevicePurge(d) ==
    /\ device[d].token # NoToken
    /\ ~row[d].exists \/ row[d].jwtToken # device[d].token
    /\ device' = [device EXCEPT ![d].token = NoToken]
    /\ UNCHANGED <<row, storeVars, claimVars, comp, poll, countVars>>

-----------------------------------------------------------------------------
(* completePairing, called with code c by a user of organization o           *)

(* getPairingRequest and the checks on it: neither completed nor expired.    *)
Start(p, c, o) ==
    /\ comp[p].pc = "idle"
    /\ request[c].present /\ request[c].plaintextToken = NoToken
    /\ c \notin expired
    /\ comp' = [comp EXCEPT ![p] = [NoCall EXCEPT !.pc = "read", !.code = c, !.org = o]]
    /\ UNCHANGED <<row, storeVars, claimVars, deviceVars, countVars>>

(* Variant: the claim is not looked at.                                      *)
ClaimAlways(p) ==
    /\ comp[p].pc = "read"
    /\ claim' = [claim EXCEPT ![comp[p].code] = p] /\ Goto(p, "claimed")
    /\ UNCHANGED <<row, storeVars, orgClaim, deviceVars, countVars>>

(* claimPairingCompletion: SET NX.  A call that finds the claim taken, or    *)
(* cannot ask Redis, fails.                                                  *)
Claim(p) ==
    LET c == comp[p].code IN
    /\ comp[p].pc = "read"
    /\ \/ /\ claim[c] = None
          /\ claim' = [claim EXCEPT ![c] = p] /\ Goto(p, "claimed")
       \/ comp' = [comp EXCEPT ![p] = NoCall] /\ UNCHANGED claim
    /\ UNCHANGED <<row, storeVars, orgClaim, deviceVars, countVars>>

(* The existing row, found by deviceIdentifier, must be the caller's own.    *)
FindRow(p) ==
    LET r == row[DevOf(p)] IN
    /\ comp[p].pc = "claimed"
    /\ \/ r.exists /\ r.owner # comp[p].org /\ Goto(p, "release")
       \/ /\ r.exists /\ r.owner = comp[p].org
          /\ comp' = [comp EXCEPT ![p].pc = "write", ![p].existing = r.id]
       \/ ~r.exists /\ Goto(p, "new")
    /\ UNCHANGED <<row, storeVars, claimVars, deviceVars, countVars>>

(* Variant: new displays are not serialised.                                 *)
NewClaimAlways(p) ==
    /\ comp[p].pc = "new"
    /\ orgClaim' = [orgClaim EXCEPT ![comp[p].org] = p] /\ Goto(p, "quota")
    /\ UNCHANGED <<row, storeVars, claim, deviceVars, countVars>>

(* claimNewDisplayPairing: one new display of an organization at a time.     *)
NewClaim(p) ==
    LET o == comp[p].org IN
    /\ comp[p].pc = "new"
    /\ \/ /\ orgClaim[o] = None
          /\ orgClaim' = [orgClaim EXCEPT ![o] = p] /\ Goto(p, "quota")
       \/ orgClaim[o] # None /\ Goto(p, "release") /\ UNCHANGED orgClaim
    /\ UNCHANGED <<row, storeVars, claim, deviceVars, countVars>>

CheckQuota(p) ==
    /\ comp[p].pc = "quota"
    /\ Goto(p, IF UnderQuota(comp[p].org) THEN "write" ELSE "release")
    /\ UNCHANGED <<row, storeVars, claimVars, deviceVars, countVars>>

(* Variant: the update looks the row up by deviceIdentifier again.           *)
WriteFindsIdentifier(p) ==
    IF comp[p].existing = NewRow THEN ~row[DevOf(p)].exists ELSE row[DevOf(p)].exists

(* The row the write finds: by id when one existed, by the unique            *)
(* deviceIdentifier when it is to be created.                                *)
WriteFinds(p) ==
    LET r == row[DevOf(p)] IN
    IF comp[p].existing = NewRow THEN ~r.exists
    ELSE r.exists /\ r.id = comp[p].existing

(* Variant: a created row takes the id of the row that was not found.        *)
WrittenIdRead(p) == comp[p].existing

(* A created row has an id of its own.                                       *)
WrittenId(p) == IF comp[p].existing = NewRow THEN row[DevOf(p)].id + 1 ELSE comp[p].existing

(* jwtService.sign and display.create / display.update, whose where clause   *)
(* names neither the organization nor the JWT that was there.  torn: it      *)
(* committed and was reported to have failed.                                *)
WriteRow(p) ==
    LET d == DevOf(p)
        t == minted + 1 IN
    /\ comp[p].pc = "write" /\ minted < MaxTokens /\ minted' = t
    /\ WriteFinds(p)
    /\ row' = [row EXCEPT ![d] =
                 [exists |-> TRUE, owner |-> comp[p].org, jwtToken |-> t,
                  status |-> "pairing", id |-> WrittenId(p)]]
    /\ written' = [written EXCEPT ![comp[p].code] = @ + 1]
    /\ \/ comp' = [comp EXCEPT ![p].pc = "written", ![p].tok = t] /\ UNCHANGED faults
       \/ Goto(p, "release") /\ Fault
    /\ UNCHANGED <<storeVars, claimVars, deviceVars, ops, overran>>

(* The update finds no row, or the create finds one: the call throws.        *)
WriteThrows(p) ==
    /\ comp[p].pc = "write" /\ ~WriteFinds(p)
    /\ Goto(p, "release")
    /\ UNCHANGED <<row, storeVars, claimVars, deviceVars, countVars>>

(* Variant: the request is deleted when the pairing is complete.             *)
FinalizeDeletes(p) ==
    /\ comp[p].pc = "written"
    /\ request' = [request EXCEPT ![comp[p].code] = NoRequest]
    /\ Goto(p, "release")
    /\ UNCHANGED <<row, codeDev, expired, claimVars, deviceVars, countVars>>

(* The whole request is written back with the JWT in it (and a new TTL, but  *)
(* the old expiresAt), whatever has become of it since it was read.          *)
HandOver(p) == request' = [request EXCEPT ![comp[p].code] =
                             [present |-> TRUE, plaintextToken |-> comp[p].tok]]

Finalize(p) ==
    /\ comp[p].pc = "written" /\ HandOver(p)
    /\ Goto(p, "release")
    /\ UNCHANGED <<row, codeDev, expired, claimVars, deviceVars, countVars>>

(* A call ends: the claims that are still its own are deleted, or left to    *)
(* their TTL.                                                                *)
EndCall(p, keepsCode, keepsOrg) ==
    /\ claim' = [c \in Code |-> IF claim[c] # p THEN claim[c]
                                ELSE IF keepsCode THEN Orphan ELSE None]
    /\ orgClaim' = [o \in Org |-> IF orgClaim[o] # p THEN orgClaim[o]
                                  ELSE IF keepsOrg THEN Orphan ELSE None]
    /\ comp' = [comp EXCEPT ![p] = NoCall]

(* The finally block; a release that fails is only logged.                   *)
Release(p) ==
    /\ comp[p].pc = "release"
    /\ \/ EndCall(p, FALSE, FALSE) /\ UNCHANGED faults
       \/ EndCall(p, TRUE, TRUE) /\ Fault
    /\ UNCHANGED <<row, storeVars, deviceVars, minted, ops, written, overran>>

(* setPairingRequest fails, or has stored the request and is reported to     *)
(* have failed: 500, and the completion claim is kept.                       *)
FinalizeFails(p) ==
    /\ comp[p].pc = "written" /\ Fault
    /\ HandOver(p) \/ UNCHANGED request
    /\ EndCall(p, TRUE, FALSE)
    /\ UNCHANGED <<row, codeDev, expired, deviceVars, minted, ops, written, overran>>

(* A claim is set in Redis for a call that is told it was not; or a read or  *)
(* a write of a running call throws.                                         *)
CallThrows(p) ==
    /\ Fault
    /\ \/ /\ comp[p].pc = "read" /\ claim[comp[p].code] = None
          /\ claim' = [claim EXCEPT ![comp[p].code] = Orphan] /\ UNCHANGED orgClaim
          /\ comp' = [comp EXCEPT ![p] = NoCall]
       \/ /\ comp[p].pc = "new" /\ orgClaim[comp[p].org] = None
          /\ orgClaim' = [orgClaim EXCEPT ![comp[p].org] = Orphan] /\ UNCHANGED claim
          /\ Goto(p, "release")
       \/ /\ comp[p].pc \in {"claimed", "new", "quota", "write"}
          /\ Goto(p, "release") /\ UNCHANGED claimVars
    /\ UNCHANGED <<row, storeVars, deviceVars, minted, ops, written, overran>>

(* The middleware restarts: every call is gone, its claims stay in Redis.    *)
MiddlewareCrash ==
    /\ Fault
    /\ comp' = [p \in Completer |-> NoCall]
    /\ claim' = [c \in Code |-> IF claim[c] = None THEN None ELSE Orphan]
    /\ orgClaim' = [o \in Org |-> IF orgClaim[o] = None THEN None ELSE Orphan]
    /\ poll' = [d \in Device |-> NoPoll]
    /\ device' = [d \in Device |-> [device[d] EXCEPT !.asking = FALSE]]
    /\ UNCHANGED <<row, storeVars, minted, ops, written, overran>>

-----------------------------------------------------------------------------
(* Time, the cron jobs and the operator                                      *)

(* Five minutes after a code was drawn its request answers no one any more:  *)
(* it goes by its Redis TTL, by cleanupExpiredRequests, or by the first      *)
(* checkPairingStatus or completePairing that reads it.                      *)
Expire(c) ==
    /\ codeDev[c] # None /\ c \notin expired
    /\ expired' = expired \cup {c}
    /\ request' = [request EXCEPT ![c] = NoRequest]
    /\ UNCHANGED <<row, codeDev, claimVars, comp, deviceVars, countVars>>

(* A claim's TTL of 300 s ends: after its call is over, or, as a fault,      *)
(* under a call that takes longer than that.                                 *)
ClaimExpire(c) ==
    /\ claim[c] # None
    /\ claim' = [claim EXCEPT ![c] = None]
    /\ \/ claim[c] = Orphan /\ UNCHANGED <<faults, overran>>
       \/ claim[c] # Orphan /\ Fault /\ overran' = TRUE
    /\ UNCHANGED <<row, storeVars, orgClaim, comp, deviceVars, minted, ops, written>>

OrgClaimExpire(o) ==
    /\ orgClaim[o] # None
    /\ orgClaim' = [orgClaim EXCEPT ![o] = None]
    /\ \/ orgClaim[o] = Orphan /\ UNCHANGED <<faults, overran>>
       \/ orgClaim[o] # Orphan /\ Fault /\ overran' = TRUE
    /\ UNCHANGED <<row, storeVars, claim, comp, deviceVars, minted, ops, written>>

(* displays.service remove.                                                  *)
Remove(d) ==
    /\ ops < MaxOps /\ row[d].exists
    /\ row' = [row EXCEPT ![d] = [NoRow EXCEPT !.id = row[d].id]]
    /\ ops' = ops + 1
    /\ UNCHANGED <<storeVars, claimVars, comp, deviceVars, minted, faults, written, overran>>

(* resetStalePairingDevices: 30 minutes after the row was last written every *)
(* code drawn before has expired.  Only the status is reset.                 *)
ResetStale(d) ==
    /\ row[d].exists /\ row[d].status = "pairing"
    /\ Drawn(d) \subseteq expired
    /\ \A p \in Completer : comp[p].code \notin Drawn(d)
    /\ row' = [row EXCEPT ![d].status = "offline"]
    /\ UNCHANGED <<storeVars, claimVars, comp, deviceVars, countVars>>

-----------------------------------------------------------------------------
(* A row may have been created from the dashboard, not paired yet; no        *)
(* organization has more displays than its quota.                            *)
Init ==
    /\ row \in [Device -> {NoRow} \cup {[NoRow EXCEPT !.exists = TRUE, !.owner = o] : o \in Org}]
    /\ \A o \in Org : Quota[o] = -1 \/ Cardinality(RowsOf(o)) <= Quota[o]
    /\ request = [c \in Code |-> NoRequest]
    /\ codeDev = [c \in Code |-> None]
    /\ expired = {}
    /\ claim = [c \in Code |-> None]
    /\ orgClaim = [o \in Org |-> None]
    /\ comp = [p \in Completer |-> NoCall]
    /\ device = [d \in Device |-> [token |-> NoToken, code |-> NoCode,
                                   asking |-> FALSE]]
    /\ poll = [d \in Device |-> NoPoll]
    /\ minted = 0 /\ faults = 0 /\ ops = 0
    /\ written = [c \in Code |-> 0]
    /\ overran = FALSE

DeviceStep(d) ==
    \/ AskCode(d) \/ StoreCode(d) \/ PollRead(d) \/ PollDelete(d) \/ PollReply(d)
    \/ DeviceConnect(d) \/ DevicePurge(d)
CallStep(p) ==
    \/ Claim(p) \/ FindRow(p) \/ NewClaim(p) \/ CheckQuota(p) \/ WriteRow(p)
    \/ WriteThrows(p) \/ Finalize(p) \/ Release(p)

Next ==
    \/ \E d \in Device : DeviceStep(d) \/ Remove(d) \/ ResetStale(d)
    \/ \E p \in Completer : \/ CallStep(p) \/ FinalizeFails(p) \/ CallThrows(p)
                            \/ \E c \in Code, o \in Org : Start(p, c, o)
    \/ \E c \in Code : Expire(c) \/ ClaimExpire(c)
    \/ \E o \in Org : OrgClaimExpire(o)
    \/ MiddlewareCrash

Spec == Init /\ [][Next]_vars

(* The client's timer polls, and asks when its code has expired; the         *)
(* middleware finishes its calls.  Nobody has to complete a code.            *)
FairSpec ==
    /\ Spec
    /\ \A d \in Device :
        /\ WF_vars(AskCode(d) /\ \A c \in Code : ~Shown(d, c)) /\ WF_vars(StoreCode(d))
        /\ WF_vars(PollRead(d) \/ PollDelete(d) \/ PollReply(d))
    /\ \A p \in Completer : WF_vars(CallStep(p))

-----------------------------------------------------------------------------
(* Properties                                                                *)

(* Every variable keeps its type.                                            *)
TypeOK ==
    /\ row \in [Device -> RowRecord]
    /\ request \in [Code -> RequestRecord]
    /\ codeDev \in [Code -> Device \cup {None}]
    /\ expired \subseteq Code
    /\ claim \in [Code -> Completer \cup {None, Orphan}]
    /\ orgClaim \in [Org -> Completer \cup {None, Orphan}]
    /\ comp \in [Completer -> CompRecord]
    /\ device \in [Device -> DeviceRecord]
    /\ poll \in [Device -> PollRecord]
    /\ minted \in TokenOrNone /\ faults \in 0 .. MaxFaults /\ ops \in 0 .. MaxOps
    /\ written \in [Code -> Nat]
    /\ overran \in BOOLEAN

(* A stored request, and a call that runs, are for a code that was drawn.    *)
RequestDrawn == \A c \in Code : request[c].present => codeDev[c] # None
CallDrawn(p) == comp[p].pc # "idle" => /\ comp[p].code \in Code /\ comp[p].org \in Org
                                       /\ codeDev[comp[p].code] # None

(* The row a call found stays its organization's for as long as it exists.   *)
CallKnowsRow(p) ==
    comp[p].pc # "idle" /\ comp[p].existing # NewRow
        => /\ comp[p].existing <= row[DevOf(p)].id
           /\ (row[DevOf(p)].exists /\ row[DevOf(p)].id = comp[p].existing)
                 => row[DevOf(p)].owner = comp[p].org

(* A call that is past its claim still holds it.                             *)
CallHoldsClaim(p) ==
    overran \/ comp[p].pc \in {"idle", "read"} \/ claim[comp[p].code] = p

(* Pairing never moves a display from one organization to another, however   *)
(* stale the row a completion read is when it writes.                        *)
TenantKept ==
    [][\A d \in Device : row[d].exists /\ row'[d].exists
                          => row'[d].owner = row[d].owner]_vars

(* Completions of different codes never take an organization over its quota, *)
(* whatever fails, unless a claim runs out under a call that takes longer    *)
(* than the claim's 300 seconds.                                             *)
QuotaHolds ==
    \A o \in Org : overran \/ Quota[o] = -1 \/ Cardinality(RowsOf(o)) <= Quota[o]

(* The JWT whose hash the row holds is one the device has or can still get:  *)
(* it holds it, a completion is about to put it into the request, it is in   *)
(* the request of the code that is polled, or a poll is carrying it.         *)
Reachable(d) ==
    LET t == row[d].jwtToken IN
    \/ device[d].token = t
    \/ \E p \in Completer : comp[p].pc = "written" /\ comp[p].tok = t
    \/ \E c \in Code : Shown(d, c) /\ request[c].plaintextToken = t
    \/ poll[d].pc # "idle" /\ poll[d].tok = t

(* A paired row whose JWT the device can never get locks the device out (a   *)
(* new code is refused).  It takes a fault, a code that expires, a second    *)
(* code, or a second completion of the code to get there.                    *)
LockedOutHasCause ==
    \A d \in Device :
        (row[d].exists /\ row[d].jwtToken # NoToken) =>
            \/ Reachable(d)
            \/ faults > 0 \/ Cardinality(Drawn(d)) > 1
            \/ \E c \in Drawn(d) : c \in expired \/ written[c] > 1

(* At most one completion of a code runs past its claim at a time.           *)
OneCompletionAtATime ==
    \A p, q \in Completer :
        \/ p = q \/ overran \/ comp[p].code # comp[q].code
        \/ {comp[p].pc, comp[q].pc} \cap {"idle", "read"} # {}

(* A JWT that is waiting in the request of the code the device polls reaches *)
(* the device, unless the code expires or is replaced first, or a fault      *)
(* happens.                                                                  *)
HandoffArrives ==
    \A d \in Device, c \in Code :
        (request[c].present /\ request[c].plaintextToken # NoToken /\ device[d].code = c)
            ~> \/ device[d].token # NoToken \/ c \in expired
               \/ device[d].code # c \/ faults > 0

(* The claim of displays.service.ts:347-349: a device whose row was dropped  *)
(* back to "offline" can be paired again without an operator's action.       *)
ResetLetsDeviceBack ==
    \A d \in Device :
        (row[d].exists /\ row[d].status = "offline" /\ device[d].token = NoToken)
            ~> \/ device[d].token # NoToken \/ ~row[d].exists
               \/ \E c \in Code : Shown(d, c)
               \/ codeDev[MaxCodes] # None

(* The parts of the inductive invariant that are about the quota.  A call    *)
(* that is about to create a row holds the organization's claim, and once it *)
(* has checked the quota there is room for the row.                          *)
Creates(p) == comp[p].pc = "write" /\ comp[p].existing = NewRow
CallHoldsOrg(p) ==
    /\ comp[p].pc \in {"read", "claimed", "new", "quota"} => comp[p].existing = NewRow
    /\ comp[p].pc = "quota" \/ Creates(p) => overran \/ orgClaim[comp[p].org] = p
RoomLeft(p) == Creates(p) => overran \/ UnderQuota(comp[p].org)

(* ... and about the JWT.  The code a device polls was drawn for it, and a   *)
(* poll carries a JWT exactly while it is under way.                         *)
PollsOwn(d) ==
    /\ device[d].code # NoCode => device[d].code \in Drawn(d)
    /\ poll[d].pc # "idle" => poll[d].code \in Drawn(d) /\ poll[d].tok # NoToken
    /\ poll[d].pc = "idle" => poll[d].tok = NoToken

CallSigned(p) == comp[p].pc = "written" => comp[p].tok # NoToken

(* Nothing has happened to d that LockedOutHasCause counts as a cause.       *)
Smooth(d) ==
    /\ faults = 0
    /\ \A c \in Drawn(d) : c \notin expired /\ written[c] <= 1 /\ Drawn(d) = {c}

(* The JWTs on their way to d, or held by it.                                *)
InPlay(d) ==
    {device[d].token, poll[d].tok} \cup {request[c].plaintextToken : c \in Drawn(d)}
    \cup {comp[p].tok : p \in {q \in Completer : comp[q].pc = "written"
                                                 /\ comp[q].code \in Drawn(d)}}

(* As long as that is so, the device polls its only code; before the code is *)
(* completed there is no JWT, and then there is one, the row's, in play.     *)
OneJwt(d) ==
    Smooth(d) =>
        /\ Drawn(d) \subseteq {device[d].code}
        /\ (\A c \in Drawn(d) : written[c] = 0) =>
                row[d].jwtToken = NoToken /\ InPlay(d) \subseteq {NoToken}
        /\ row[d].exists /\ row[d].jwtToken # NoToken =>
                InPlay(d) \ {NoToken} = {row[d].jwtToken}

(* The inductive invariant under TenantKept, OneCompletionAtATime,           *)
(* QuotaHolds and LockedOutHasCause.                                         *)
IInv == /\ TypeOK /\ RequestDrawn
        /\ \A p \in Completer : CallDrawn(p) /\ CallKnowsRow(p) /\ CallHoldsClaim(p)
        /\ \A p \in Completer : CallHoldsOrg(p) /\ RoomLeft(p) /\ CallSigned(p)
        /\ QuotaHolds
        /\ \A d \in Device : PollsOwn(d) /\ OneJwt(d)
================================================================================
